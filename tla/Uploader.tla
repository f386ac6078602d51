------------------------------ MODULE Uploader ------------------------------
(***************************************************************************)
(* connection/components.js with auth.js and exit.js: a script that logs   *)
(* in with the serial number and then reads the components' status files   *)
(* and posts each to the platform, all at once and independently, as the   *)
(* callbacks of one event loop.  JSON.parse throws on a file that is being *)
(* rewritten, and an exception, as well as an error of a connection, which *)
(* nobody listens to, ends the process.  preExitFunc keeps it alive, after *)
(* any other error, until CTRL+C.                                          *)
(*                                                                         *)
(* Outside: the file system, the platform and who starts the script.       *)
(***************************************************************************)
CONSTANT Files      \* the status files, by component

VARIABLES
    session,    \* doAuth: "serial" being read, "auth" posted, "open", "denied"
    task,       \* of each file: see Tasks
    warned,     \* preExitFunc has been called
    ended       \* "no", "never started", or how it ended: by "itself", by an
                \* "exception" or by "SIGINT"

uvars == <<session, task, warned, ended>>

(* A task ends as "done", or "failed" if the platform did not answer 001,  *)
(* or "unread" if the file could not be read, which is only printed.       *)
Final == {"done", "failed", "unread"}
Tasks == {"none", "reading", "whole", "torn", "posted"} \cup Final

InitUploader ==
    /\ session = "denied"
    /\ task = [f \in Files |-> "none"]
    /\ warned = FALSE
    /\ ended = "never started"

Alive == ended = "no"
Throw == ended' = "exception"
SetTask(f, t) == task' = [task EXCEPT ![f] = t]

-----------------------------------------------------------------------------
(* The script is started, now and then.                                    *)
StartUploader ==
    /\ ~Alive
    /\ ended' = "no"
    /\ session' = "serial"
    /\ task' = [f \in Files |-> "none"]
    /\ warned' = FALSE

Denied == session' = "denied" /\ warned' = TRUE /\ UNCHANGED task

SerialRead ==
    /\ Alive
    /\ session = "serial"
    /\ \/ session' = "auth" /\ UNCHANGED <<task, warned>>
       \/ Denied
    /\ UNCHANGED ended

(* The platform answers 001 with a token, and all files are asked for; or  *)
(* something else.                                                         *)
AuthAnswered ==
    /\ Alive
    /\ session = "auth"
    /\ \/ /\ session' = "open"
          /\ task' = [f \in Files |-> "reading"]
          /\ UNCHANGED warned
       \/ Denied
    /\ UNCHANGED ended

(* The file system delivers the file, whole or not.                        *)
FileRead(f, isTorn) ==
    /\ Alive
    /\ task[f] = "reading"
    /\ SetTask(f, IF isTorn THEN "torn" ELSE "whole")
    /\ UNCHANGED <<session, warned, ended>>

FileMissing(f) ==
    /\ Alive
    /\ task[f] = "reading"
    /\ SetTask(f, "unread")
    /\ UNCHANGED <<session, warned, ended>>

(* readFile's callback: what was read is parsed and posted.                *)
Callback(f) ==
    /\ Alive
    /\ task[f] \in {"whole", "torn"}
    /\ IF task[f] = "torn" THEN Throw /\ UNCHANGED task
       ELSE SetTask(f, "posted") /\ UNCHANGED ended
    /\ UNCHANGED <<session, warned>>

(* Mutants: a component whose upload fails says nothing, or tries again.   *)
Answered_Retries(f) ==
    /\ Alive
    /\ task[f] = "posted"
    /\ \/ SetTask(f, "done")
       \/ SetTask(f, "whole")
    /\ UNCHANGED <<session, warned, ended>>

Answered_Silent(f) ==
    /\ Alive
    /\ task[f] = "posted"
    /\ \/ SetTask(f, "done") /\ UNCHANGED warned
       \/ SetTask(f, "failed") /\ UNCHANGED warned
    /\ UNCHANGED <<session, ended>>

(* The platform answers to the post: 001 or something else.                *)
Answered(f) ==
    /\ Alive
    /\ task[f] = "posted"
    /\ \/ SetTask(f, "done") /\ UNCHANGED warned
       \/ SetTask(f, "failed") /\ warned' = TRUE
    /\ UNCHANGED <<session, ended>>

(* A connection breaks: its error event has no listener and is thrown.     *)
Posts == session = "auth" \/ \E f \in Files : task[f] = "posted"
ConnectionFails ==
    /\ Alive
    /\ Posts
    /\ Throw
    /\ UNCHANGED <<session, task, warned>>

(* The event loop is empty, and nothing keeps it alive.                    *)
EndsByItself ==
    /\ Alive
    /\ session = "open"
    /\ \A f \in Files : task[f] \in Final
    /\ ~warned
    /\ ended' = "itself"
    /\ UNCHANGED <<session, task, warned>>

Interrupted ==
    /\ Alive
    /\ warned
    /\ ended' = "SIGINT"
    /\ UNCHANGED <<session, task, warned>>

(* What the script and the platform do by themselves.                      *)
Proceed ==
    \/ SerialRead
    \/ AuthAnswered
    \/ \E f \in Files : FileMissing(f) \/ Callback(f) \/ Answered(f)
    \/ EndsByItself

-----------------------------------------------------------------------------
(* A script that ends without an exception and without having asked for    *)
(* CTRL+C has logged in, and the platform has accepted every file that     *)
(* could be read.  One that has asked for it ends with status 0, too, when *)
(* CTRL+C comes or its input ends: the status alone does not tell.         *)
SilentEndIsComplete ==
    ended = "itself" => session = "open" /\ \A f \in Files : task[f] \in {"done", "unread"}

=============================================================================

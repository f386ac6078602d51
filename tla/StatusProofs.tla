---------------------------- MODULE StatusProofs ----------------------------
(***************************************************************************)
(* First the reports of Startup, for every limit of silence and every      *)
(* number of polls: none is missed, and messages, files and history agree. *)
(* Then Status: its program is the one of Startup, opening a file and what *)
(* the script does are stutters of it, so that what is proved of the       *)
(* startup checks holds with the script running beside them.               *)
(***************************************************************************)
EXTENDS Status, TLAPS

(* What the actions are built from. *)
LEMMA ComponentAndLimit == Component \in Components /\ Limit \in Nat
  BY StartupAssumption DEF Component, Components, Limit

-----------------------------------------------------------------------------
(* The type invariant.                                                      *)

LEMMA InitTypeOK == Init => TypeOK
  <1>1. Init => CountersOK
    BY StartupAssumption DEF Init, CountersOK
  <1>2. Init => FlagsOK
    BY Zenon DEF Init, FlagsOK, Watched
  <1> QED BY <1>1, <1>2 DEF TypeOK

LEMMA NextCounters == CountersOK /\ [Next]_vars => CountersOK'
  <1> SUFFICES ASSUME CountersOK, [Next]_vars PROVE CountersOK'
    OBVIOUS
  <1> USE StartupAssumption DEF CountersOK, Enter, Heard
  <1>1. CASE Second
    BY <1>1 DEF Second
  <1>2. CASE Listen
    BY <1>2 DEF Listen, Altitude, OtherSentence, Position, Pulse, Setting, Alarm
  <1>3. CASE Report
    BY <1>3 DEF Report, Quiet, ReportInFile, ReportToServer, ThenSend, ThenWrite,
                Last, Follow
  <1>4. CASE Finished \/ UNCHANGED vars
    BY <1>4 DEF Finished, vars
  <1>5. CASE NotOpened
    BY <1>5 DEF NotOpened
  <1> QED BY <1>1, <1>2, <1>3, <1>4, <1>5 DEF Next

LEMMA NextFlags == FlagsOK /\ [Next]_vars => FlagsOK'
  <1> SUFFICES ASSUME FlagsOK, [Next]_vars PROVE FlagsOK'
    OBVIOUS
  <1>0. Component \in Components
    BY ComponentAndLimit
  <1>w. ASSUME NEW s \in Statuses, Write(s) PROVE status' \in [Components -> Statuses]
    BY <1>0, <1>w DEF Write, FlagsOK
  <1>s. ASSUME NEW s \in Statuses, Send(s)
        PROVE  told' \in [Components -> Statuses \cup {None}]
    BY <1>0, <1>s DEF Send, FlagsOK
  <1>c. "Correcto" \in Statuses /\ "Error" \in Statuses /\ status[Component] \in Statuses
    BY <1>0 DEF Statuses, FlagsOK
  <1> USE DEF FlagsOK, Watched, Enter, Heard
  <1>1. CASE Second
    BY <1>1, Zenon DEF Second
  <1>2. CASE Listen
    <2>1. CASE Altitude
      BY <2>1, Zenon DEF Altitude
    <2>2. CASE OtherSentence
      BY <2>2, Zenon DEF OtherSentence
    <2>3. CASE Position
      BY <2>3, <1>w, <1>c, Zenon DEF Position
    <2>4. CASE Pulse
      BY <2>4, Zenon DEF Pulse
    <2>5. CASE Setting
      BY <2>5, Zenon DEF Setting
    <2>6. CASE Alarm
      BY <2>6, <1>w, Zenon DEF Alarm
    <2> QED BY <1>2, <2>1, <2>2, <2>3, <2>4, <2>5, <2>6 DEF Listen
  <1>3. CASE Report
    <2>1. CASE Quiet
      BY <2>1, Zenon DEF Quiet, Nothing
    <2>2. CASE ReportInFile
      BY <2>2, <1>w, <1>c, Zenon DEF ReportInFile, Nothing
    <2>3. CASE ReportToServer
      <3>1. noPps' \in BOOLEAN
        BY <2>3, Zenon DEF ReportToServer
      <3> QED BY <2>3, <3>1, <1>s, <1>c, Zenon DEF ReportToServer, Nothing
    <2>4. CASE ThenSend
      BY <2>4, <1>s, <1>c, Zenon DEF ThenSend
    <2>5. CASE ThenWrite
      BY <2>5, <1>w, <1>c, Zenon DEF ThenWrite
    <2>6. CASE Last
      BY <2>6, <1>s, <1>c, Zenon DEF Last
    <2> QED BY <1>3, <2>1, <2>2, <2>3, <2>4, <2>5, <2>6 DEF Report
  <1>4. CASE Finished \/ UNCHANGED vars
    BY <1>4, Zenon DEF Finished, vars
  <1>5. CASE NotOpened
    BY <1>5, Zenon DEF NotOpened
  <1> QED BY <1>1, <1>2, <1>3, <1>4, <1>5 DEF Next

LEMMA NextTypeOK == TypeOK /\ [Next]_vars => TypeOK'
  BY NextCounters, NextFlags DEF TypeOK

(* Counters stay in their bounds, and files and messages hold statuses.    *)
THEOREM StartupTypes == Spec => []TypeOK
  BY InitTypeOK, NextTypeOK, PTL DEF Spec

-----------------------------------------------------------------------------
(* No silence goes unreported.  That a report is due is decided by diff,   *)
(* so the invariant says what diff is: once the limit is passed it is the  *)
(* silence of the last poll.                                               *)
SilenceInv ==
    /\ CountersOK
    /\ half # None => polled /\ stage \in Watched \cup {"ended"}
    /\ (stage \in Watched /\ silence > Limit /\ polled) => diff = silence
    /\ (stage \in Watched /\ silence > Limit + 1 /\ ~polled) => diff = silence - 1
    /\ (stage \in Watched /\ silence > Limit + 1 /\ polled) => reported \/ half = "send"

LEMMA InitSilence == Init => SilenceInv
  BY InitTypeOK, StartupAssumption DEF TypeOK, CountersOK, Init, SilenceInv, Limit, None

LEMMA NextSilence == SilenceInv /\ [Next]_vars => SilenceInv'
  <1> SUFFICES ASSUME SilenceInv, [Next]_vars PROVE SilenceInv'
    OBVIOUS
  <1>0. CountersOK /\ CountersOK'
    BY NextCounters DEF SilenceInv
  <1> USE <1>0, StartupAssumption
  <1> USE DEF SilenceInv, CountersOK, Limit, Watched, None
  <1>1. CASE Second
    BY <1>1 DEF Second
  <1>2. CASE Listen
    <2>1. CASE Altitude \/ OtherSentence \/ Position
      <3>1. silence' = 0 /\ polled' /\ stage' = "load" /\ half' # "send"
        BY <2>1 DEF Altitude, OtherSentence, Position, Heard
      <3> QED BY <3>1
    <2>2. CASE Pulse
      <3>1. CASE stage' = "set"
        BY <2>2, <3>1 DEF Pulse
      <3>2. CASE stage' = "pps" /\ Heard
        BY <2>2, <3>2 DEF Pulse, Heard
      <3> QED BY <2>2, <3>1, <3>2 DEF Pulse, Enter
    <2>3. CASE Setting
      <3>1. CASE stage' = "set"
        BY <2>3, <3>1 DEF Setting
      <3>2. CASE Enter("sync")
        BY <2>3, <3>2 DEF Setting, Enter
      <3> QED BY <2>3, <3>1, <3>2 DEF Setting
    <2>4. CASE Alarm
      <3>1. silence' = 0 /\ polled' /\ stage' = "sync"
        BY <2>4 DEF Alarm, Heard
      <3>2. half' # "send"
        BY <2>4 DEF Alarm
      <3> QED BY <3>1, <3>2
    <2> QED BY <1>2, <2>1, <2>2, <2>3, <2>4 DEF Listen
  <1>3. CASE Report
    <2>1. CASE Quiet
      BY <2>1 DEF Quiet, Nothing, NewlyOver, Over, Follow
    <2>2. CASE ReportInFile
      BY <2>2 DEF ReportInFile, Nothing, NewlyOver, Over, Follow
    <2>3. CASE ReportToServer
      BY <2>3 DEF ReportToServer, Nothing, NewlyOver, Over, Follow
    <2>4. CASE ThenSend
      BY <2>4 DEF ThenSend
    <2>5. CASE ThenWrite
      BY <2>5 DEF ThenWrite
    <2>6. CASE Last
      BY <2>6 DEF Last, Enter
    <2> QED BY <1>3, <2>1, <2>2, <2>3, <2>4, <2>5, <2>6 DEF Report
  <1>4. CASE Finished \/ UNCHANGED vars
    <2>0. polled' = polled /\ reported' = reported
      BY <1>4 DEF Finished, vars
    <2>1. (polled' <=> polled) /\ (reported' <=> reported)
      BY <2>0, Zenon
    <2>2. /\ silence' = silence /\ diff' = diff /\ cont' = cont
          /\ stage' = stage /\ half' = half
      BY <1>4 DEF Finished, vars
    <2> QED BY <2>1, <2>2
  <1>5. CASE NotOpened
    BY <1>5 DEF NotOpened
  <1> QED BY <1>1, <1>2, <1>3, <1>4, <1>5 DEF Next

(* A silence is reported every second from the second second beyond its    *)
(* limit on: that diff is never reset hides no later silence.              *)
THEOREM SilencesAreReported == Spec => []SilenceIsReported
  <1>1. SilenceInv => SilenceIsReported
    BY DEF SilenceInv, SilenceIsReported, None
  <1> QED BY <1>1, InitSilence, NextSilence, PTL DEF Spec

-----------------------------------------------------------------------------
(* Messages, files and history.  The halves of a report belong to certain  *)
(* loops, and between them one side is already known.                      *)
ReportInv ==
    /\ TypeOK
    /\ ToldIsWritten
    /\ FilesSayHowItWent
    /\ half \in {"send", "last"} => stage \in {"load", "sync"}
    /\ half = "send" => status[Component] = "Error"
    /\ half = "write" => stage \in {"pps", "ended"} /\ told["GPS"] = "Error" /\ noPps
    /\ stage = "load" => ~noPps
    /\ (stage = "load" /\ half = "last") => status["GPS"] = "Correcto"
    /\ (stage \notin {"load", "ended"} /\ half # "write") => ((status["GPS"] = "Error") <=> noPps)

LEMMA InitReports == Init => ReportInv
  BY InitTypeOK DEF Init, ReportInv, ToldIsWritten, FilesSayHowItWent, Components, None

LEMMA NextReports == ReportInv /\ [Next]_vars => ReportInv'
  <1> SUFFICES ASSUME ReportInv, [Next]_vars PROVE ReportInv'
    OBVIOUS
  <1>0. TypeOK /\ TypeOK'
    BY NextTypeOK DEF ReportInv
  <1> USE <1>0
  <1> USE DEF ReportInv, TypeOK, FlagsOK, ToldIsWritten, FilesSayHowItWent, Component,
              Components, Statuses, Watched, None
  <1>1. CASE Second
    BY <1>1 DEF Second
  <1>2. CASE Listen
    <2>1. CASE Altitude \/ OtherSentence
      BY <2>1 DEF Altitude, OtherSentence
    <2>2. CASE Position
      BY <2>2 DEF Position, Write
    <2>3. CASE Pulse
      BY <2>3 DEF Pulse, Enter
    <2>4. CASE Setting
      BY <2>4 DEF Setting, Enter
    <2>5. CASE Alarm
      BY <2>5 DEF Alarm, Write
    <2> QED BY <1>2, <2>1, <2>2, <2>3, <2>4, <2>5 DEF Listen
  <1>3. CASE Report
    <2>1. CASE Quiet
      BY <2>1 DEF Quiet
    <2>2. CASE ReportInFile
      BY <2>2 DEF ReportInFile, FileFirst, Write, Nothing
    <2>3. CASE ReportToServer
      BY <2>3 DEF ReportToServer, FileFirst, Send, Nothing
    <2>4. CASE ThenSend
      BY <2>4 DEF ThenSend, Send
    <2>5. CASE ThenWrite
      BY <2>5 DEF ThenWrite, Write
    <2>6. CASE Last
      BY <2>6 DEF Last, Send, Enter
    <2> QED BY <1>3, <2>1, <2>2, <2>3, <2>4, <2>5, <2>6 DEF Report
  <1>4. CASE Finished \/ UNCHANGED vars
    BY <1>4 DEF Finished, vars
  <1>5. CASE NotOpened
    <2>1. /\ stage' = "ended" /\ half' = half /\ half \in {None, "write"}
          /\ UNCHANGED <<status, told, noPps>>
      BY <1>5 DEF NotOpened, PollsPin, ReportDue, ResultDue
    <2> QED BY <2>1
  <1> QED BY <1>1, <1>2, <1>3, <1>4, <1>5 DEF Next

(* The server is told of a component what its file says or is about to     *)
(* say.                                                                    *)
THEOREM ReportsAgree == Spec => []ToldIsWritten
  <1>1. ReportInv => ToldIsWritten
    BY DEF ReportInv
  <1> QED BY <1>1, InitReports, NextReports, PTL DEF Spec

(* When sampling begins, each file says how the checks went.               *)
THEOREM StatusFilesSayHowItWent == Spec => []FilesSayHowItWent
  <1>1. ReportInv => FilesSayHowItWent
    BY DEF ReportInv
  <1> QED BY <1>1, InitReports, NextReports, PTL DEF Spec

-----------------------------------------------------------------------------
(* The script beside the program.                                          *)

(* Every step of Status is a step of Startup or leaves its state alone.    *)
LEMMA StatusStep == [NextStatus]_xvars => [Next]_vars
<1>1. CASE UNCHANGED xvars
  BY <1>1 DEF xvars
<1>2. CASE Plain
  BY <1>2 DEF Plain, FoundOut, Next, Listen, Report
<1>3. CASE Open
  BY <1>3 DEF Open
<1>4. CASE Close
  BY <1>4 DEF Close, Next, Listen, Report
<1>5. CASE StartScript \/ ReadStatus \/ Upload \/ Break
  BY <1>5 DEF StartScript, ReadStatus, Upload, Break
<1> QED
  BY <1>1, <1>2, <1>3, <1>4, <1>5 DEF NextStatus

(* The status files' program beside the uploader implements Startup.       *)
THEOREM StatusImplementsStartup == SpecStatus => Spec
<1>1. InitStatus => Init
  BY DEF InitStatus
<1> QED
  BY <1>1, StatusStep, PTL DEF SpecStatus, Spec

(* So silences are reported with the script beside the program, too.       *)
THEOREM SilencesAreReportedBeside == SpecStatus => []SilenceIsReported
<1> QED
  BY StatusImplementsStartup, SilencesAreReported, PTL

-----------------------------------------------------------------------------
(* A file is truncated only before sampling begins, so a script that was   *)
(* started later never reads an empty one.                                 *)
FilesInv ==
    /\ ReportInv
    /\ task \in [Files -> Tasks]
    /\ opened # None => stage # "run"
    /\ late => stage = "run"
    /\ SamplingSparesUploads

LEMMA InitFilesInv == InitStatus => FilesInv
<1> SUFFICES ASSUME InitStatus PROVE FilesInv
  OBVIOUS
<1>1. ReportInv
  BY InitReports DEF InitStatus
<1>2. task \in [Files -> Tasks] /\ opened = None /\ late = FALSE
  BY DEF InitStatus, InitUploader, Tasks
<1> QED
  BY <1>1, <1>2 DEF FilesInv, SamplingSparesUploads

(* Sampling never ends, and the loops before it end with no file open.     *)
LEMMA RunStays ==
    ReportInv /\ [NextStatus]_xvars => (stage = "run" => stage' = "run")
<1> SUFFICES ASSUME ReportInv, [Next]_vars, stage = "run" PROVE stage' = "run"
  BY StatusStep
<1>1. half \notin {"send", "last", "write"}
  BY DEF ReportInv
<1>2. ~Second /\ ~Listen
  BY DEF Second, Listen, Altitude, OtherSentence, Position, Pulse, Setting, Alarm, Watched
<1>3. ~Report
  BY <1>1 DEF Report, Quiet, ReportInFile, ReportToServer, ThenSend, ThenWrite, Last,
              Nothing, Watched
<1>4. ~NotOpened
  BY DEF NotOpened, PollsPin, ReportDue, ResultDue, Watched
<1> QED
  BY <1>2, <1>3, <1>4 DEF Next, Finished, vars

LEMMA NextFilesInv == FilesInv /\ [NextStatus]_xvars => FilesInv'
<1> SUFFICES ASSUME FilesInv, [NextStatus]_xvars PROVE FilesInv'
  OBVIOUS
<1>1. ReportInv'
  BY StatusStep, NextReports DEF FilesInv
<1>2. stage = "run" => stage' = "run"
  BY RunStays DEF FilesInv
<1>3. CASE Plain \/ Close \/ UNCHANGED xvars
  <2>1. UNCHANGED <<task, late>>
    BY <1>3 DEF Plain, Close, xvars, uvars
  <2>2. opened' = None \/ (opened' = opened /\ stage' = stage)
    BY <1>3 DEF Plain, Close, xvars, vars
  <2> QED BY <1>1, <1>2, <2>1, <2>2 DEF FilesInv, SamplingSparesUploads
<1>4. CASE Open
  <2>1. UNCHANGED <<task, late, stage>>
    BY <1>4 DEF Open, vars, uvars
  <2>2. stage # "run"
    BY <1>4 DEF Open, ReportDue, ResultDue, FilesInv, ReportInv, Watched
  <2> QED BY <1>1, <2>1, <2>2 DEF FilesInv, SamplingSparesUploads
<1>5. CASE StartScript
  <2>1. UNCHANGED <<opened, stage>> /\ late' = (stage = "run")
    BY <1>5 DEF StartScript, vars
  <2>2. task' = [f \in Files |-> "none"]
    BY <1>5 DEF StartScript, StartUploader
  <2> QED BY <1>1, <2>1, <2>2 DEF FilesInv, SamplingSparesUploads, Tasks
<1>6. CASE ReadStatus
  <2>1. UNCHANGED <<opened, stage, late>>
    BY <1>6 DEF ReadStatus, vars
  <2>2. PICK f \in Files : FileRead(f, Written(f))
    BY <1>6 DEF ReadStatus
  <2>3. late => ~Written(f)
    BY DEF FilesInv, Written
  <2>4. /\ task' = [task EXCEPT ![f] = IF Written(f) THEN "torn" ELSE "whole"]
        /\ task' \in [Files -> Tasks]
    BY <2>2 DEF FileRead, SetTask, FilesInv, Tasks
  <2>5. ASSUME late PROVE \A g \in Files : task'[g] # "torn"
    <3>1. \A g \in Files : task[g] # "torn"
      BY <2>5 DEF FilesInv, SamplingSparesUploads
    <3>2. task' = [task EXCEPT ![f] = "whole"]
      BY <2>3, <2>4, <2>5
    <3> QED BY <3>1, <3>2 DEF FilesInv
  <2>6. (late' <=> late) /\ (late => stage = "run") /\ (opened # None => stage # "run")
    BY <2>1, Zenon DEF FilesInv
  <2>7. (late => \A g \in Files : task'[g] # "torn")
    BY <2>5
  <2>8. SamplingSparesUploads'
    BY <2>6, <2>7, Zenon DEF SamplingSparesUploads
  <2>9. (opened' # None => stage' # "run") /\ (late' => stage' = "run")
    BY <2>1, <2>6
  <2>10. task' \in [Files -> Tasks]
    BY <2>4
  <2> QED BY <1>1, <2>8, <2>9, <2>10 DEF FilesInv, Tasks, Final, None
<1>7. CASE Upload \/ Break
  <2>1. UNCHANGED <<opened, stage, late>>
    BY <1>7 DEF Upload, Break, vars
  <2>2. CASE UNCHANGED task
    BY <1>1, <2>1, <2>2 DEF FilesInv, SamplingSparesUploads
  <2>3. CASE \E f \in Files, t \in {"unread", "posted", "done", "failed"} : SetTask(f, t)
    <3>1. PICK f \in Files, t \in {"unread", "posted", "done", "failed"} :
            task' = [task EXCEPT ![f] = t]
      BY <2>3 DEF SetTask
    <3>2. task' \in [Files -> Tasks]
      BY <3>1 DEF FilesInv, Tasks, Final
    <3>3. ASSUME late PROVE \A g \in Files : task'[g] # "torn"
      BY <3>1, <3>3 DEF FilesInv, SamplingSparesUploads
    <3> QED BY <1>1, <2>1, <3>2, <3>3 DEF FilesInv, SamplingSparesUploads
  <2>4. CASE task' = [f \in Files |-> "reading"]
    BY <1>1, <2>1, <2>4 DEF FilesInv, SamplingSparesUploads, Tasks
  <2>5. UNCHANGED task \/ task' = [f \in Files |-> "reading"]
          \/ \E f \in Files, t \in {"unread", "posted", "done", "failed"} : SetTask(f, t)
    BY <1>7 DEF Upload, Break, Proceed, SerialRead, Denied, AuthAnswered, FileMissing,
                Callback, Answered, EndsByItself, ConnectionFails, Interrupted
  <2> QED BY <2>2, <2>3, <2>4, <2>5
<1> QED
  BY <1>3, <1>4, <1>5, <1>6, <1>7 DEF NextStatus

(* A script started when the program samples never reads a torn file.      *)
THEOREM LateUploadsReadWholeFiles == SpecStatus => []SamplingSparesUploads
<1>1. FilesInv => SamplingSparesUploads
  BY DEF FilesInv
<1> QED
  BY <1>1, InitFilesInv, NextFilesInv, PTL DEF SpecStatus

-----------------------------------------------------------------------------
(* A file that failed has called preExitFunc, which keeps the script from  *)
(* ending by itself.                                                       *)
UploadInv ==
    /\ task \in [Files -> Tasks]
    /\ \A f \in Files : task[f] = "failed" => warned = TRUE
    /\ SilentEndIsComplete

LEMMA InitUploadInv == InitStatus => UploadInv
<1> SUFFICES ASSUME InitStatus PROVE UploadInv
  OBVIOUS
<1> QED
  BY DEF InitStatus, InitUploader, UploadInv, Tasks, SilentEndIsComplete

LEMMA NextUploadInv == UploadInv /\ [NextStatus]_xvars => UploadInv'
<1> SUFFICES ASSUME UploadInv, [NextStatus]_xvars PROVE UploadInv'
  OBVIOUS
<1> USE DEF UploadInv, SilentEndIsComplete, Tasks, Final, Alive, SetTask
<1>1. CASE UNCHANGED uvars
  BY <1>1 DEF uvars
<1>2. CASE StartUploader
  BY <1>2 DEF StartUploader
<1>3. CASE SerialRead \/ AuthAnswered
  BY <1>3 DEF SerialRead, AuthAnswered, Denied
<1>4. CASE \E f \in Files : FileRead(f, Written(f)) \/ FileMissing(f) \/ Callback(f)
  BY <1>4 DEF FileRead, FileMissing, Callback, Throw
<1>5. CASE \E f \in Files : Answered(f)
  BY <1>5 DEF Answered
<1>6. CASE EndsByItself \/ ConnectionFails \/ Interrupted
  BY <1>6 DEF EndsByItself, ConnectionFails, Interrupted, Throw
<1> QED
  BY <1>1, <1>2, <1>3, <1>4, <1>5, <1>6 DEF NextStatus, Plain, Open, Close, StartScript,
     ReadStatus, Upload, Break, Proceed, xvars

(* A silent end means that everything that could be read was accepted.     *)
THEOREM SilentEndsAreComplete == SpecStatus => []SilentEndIsComplete
<1>1. UploadInv => SilentEndIsComplete
  BY DEF UploadInv
<1> QED
  BY <1>1, InitUploadInv, NextUploadInv, PTL DEF SpecStatus

=============================================================================

------------------------------ MODULE Startup -------------------------------
(***************************************************************************)
(* What main of SensorIoT.c does before it samples: loadingGpsData waits   *)
(* for altitude and position, checkingPPS for pulses, sincronizarRtc sets  *)
(* the RTC, checkingSYNC waits for the RTC's alarm.  Each is a loop that   *)
(* polls one device; all but sincronizarRtc time how long it was silent    *)
(* and report that to the server and in a status file.                     *)
(*                                                                         *)
(* Outside: the receiver, the RTC and time() (Second).  A poll finds       *)
(* whatever the device says.  The file and the message of one report are   *)
(* two steps, in the order of the code.                                    *)
(***************************************************************************)
EXTENDS Integers

CONSTANTS
    GpsLimit, SyncLimit,            \* seconds of silence: 30 and 20
    PpsCount, SetCount, SyncCount,  \* polls before the last: 5, 5 and 5
    MaxSilence                      \* bound of the seconds counted

ASSUME StartupAssumption ==
    /\ GpsLimit \in Nat /\ SyncLimit \in Nat /\ MaxSilence \in Nat
    /\ PpsCount \in Nat /\ SetCount \in Nat /\ SyncCount \in Nat

Components == {"GPS", "RTC"}
Statuses == {"Correcto", "Error"}
None == "none"

VARIABLES
    stage,      \* the function of main that runs: load, pps, set, sync; run,
                \* ended
    silence,    \* fin - inicio
    diff,
    cont,       \* cont, or count in sincronizarRtc
    flag,       \* an altitude was read
    status,     \* what the status files say; they outlive the process
    told,       \* what the server was last told of each component
    half,       \* which half of a report is to come: "send", "write" or None
    polled,     \* the loop has polled since the second began
    reported,   \* history: a report was sent since the second began
    noPps       \* history: the PPS was reported missing

vars == <<stage, silence, diff, cont, flag, status, told, half, polled,
          reported, noPps>>

Watched == {"load", "pps", "sync"}
Limit == IF stage = "sync" THEN SyncLimit ELSE GpsLimit
Component == IF stage = "sync" THEN "RTC" ELSE "GPS"

Init ==
    /\ stage = "load"
    /\ silence = 0 /\ diff = 0
    /\ cont = 0
    /\ flag = FALSE
    /\ status \in [Components -> Statuses]
    /\ told = [c \in Components |-> None]
    /\ half = None
    /\ polled = FALSE
    /\ reported = FALSE
    /\ noPps = FALSE

-----------------------------------------------------------------------------
(* A loop ends and the next one begins with its own counters.              *)
Enter(s) ==
    /\ stage' = s
    /\ silence' = 0 /\ diff' = 0 /\ cont' = 0
    /\ polled' = FALSE /\ reported' = FALSE

Write(s) == status' = [status EXCEPT ![Component] = s]
Send(s) == told' = [told EXCEPT ![Component] = s]

(* The device spoke: the silence begins anew, diff keeps its value.        *)
Heard == silence' = 0 /\ polled' = TRUE

(* Time passes while the loop polls, at least once a second.               *)
Second ==
    /\ stage \in Watched
    /\ half = None
    /\ polled
    /\ silence < MaxSilence
    /\ silence' = silence + 1
    /\ polled' = FALSE
    /\ reported' = FALSE
    /\ UNCHANGED <<stage, diff, cont, flag, status, told, half, noPps>>

(* A poll finds nothing: is it time for a report?                          *)
Nothing == stage \in Watched /\ half = None /\ polled' = TRUE
Over == silence > Limit
NewlyOver == Over /\ silence > diff

(* diff follows the silence, reported or not.  Mutant: it only grows.      *)
Follow_OnlyGrows == diff' = IF NewlyOver THEN silence ELSE diff
Follow == diff' = IF Over THEN silence ELSE diff

Quiet ==
    /\ Nothing
    /\ ~NewlyOver
    /\ Follow
    /\ UNCHANGED <<stage, silence, cont, flag, status, told, half, reported, noPps>>

(* loadingGpsData and checkingSYNC write the file and then send.  Mutant:  *)
(* both as checkingPPS does.                                               *)
FileFirst_Never == FALSE
FileFirst == stage # "pps"

ReportInFile ==
    /\ Nothing
    /\ NewlyOver
    /\ FileFirst
    /\ Follow
    /\ Write("Error")
    /\ half' = "send"
    /\ UNCHANGED <<stage, silence, cont, flag, told, reported, noPps>>

(* checkingPPS sends and then writes.                                      *)
ReportToServer ==
    /\ Nothing
    /\ NewlyOver
    /\ ~FileFirst
    /\ Follow
    /\ Send("Error")
    /\ half' = "write"
    /\ reported' = TRUE
    /\ noPps' = (noPps \/ stage = "pps")
    /\ UNCHANGED <<stage, silence, cont, flag, status>>

ThenSend ==
    /\ half = "send"
    /\ Send("Error")
    /\ reported' = TRUE
    /\ half' = None
    /\ UNCHANGED <<stage, silence, diff, cont, flag, status, polled, noPps>>

ThenWrite ==
    /\ stage = "pps" /\ half = "write"
    /\ Write("Error")
    /\ half' = None
    /\ UNCHANGED <<stage, silence, diff, cont, flag, told, polled, reported, noPps>>

-----------------------------------------------------------------------------
(* loadingGpsData: a GGA sentence with an altitude, any other but a valid  *)
(* RMC, a valid RMC.  The last one ends the loop once the altitude is      *)
(* there.  Mutant: the altitude must be in the sentence before.            *)
OtherSentence_ForgetsAltitude ==
    /\ stage = "load" /\ half = None
    /\ Heard
    /\ flag' = FALSE
    /\ UNCHANGED <<stage, diff, cont, status, told, half, reported, noPps>>

Altitude ==
    /\ stage = "load" /\ half = None
    /\ Heard
    /\ flag' = TRUE
    /\ UNCHANGED <<stage, diff, cont, status, told, half, reported, noPps>>

OtherSentence ==
    /\ stage = "load" /\ half = None
    /\ Heard
    /\ UNCHANGED <<stage, diff, cont, flag, status, told, half, reported, noPps>>

(* Mutant: the status file is left as it is.                               *)
Position_KeepsFile ==
    /\ stage = "load" /\ half = None
    /\ Heard
    /\ half' = IF flag THEN "last" ELSE None
    /\ UNCHANGED <<stage, diff, cont, flag, status, told, reported, noPps>>

Position ==
    /\ stage = "load" /\ half = None
    /\ Heard
    /\ IF flag THEN Write("Correcto") /\ half' = "last" ELSE UNCHANGED <<status, half>>
    /\ UNCHANGED <<stage, diff, cont, flag, told, reported, noPps>>

(* checkingPPS: the pin is high.                                           *)
Pulse ==
    /\ stage = "pps" /\ half = None
    /\ IF cont = PpsCount
         THEN Enter("set")
         ELSE Heard /\ cont' = cont + 1 /\ UNCHANGED <<stage, diff, reported>>
    /\ UNCHANGED <<flag, status, told, half, noPps>>

(* sincronizarRtc: a valid RMC sentence waits at a pulse (RtcSetting says  *)
(* what that does to the RTC).  Nobody times this loop.                    *)
Setting ==
    /\ stage = "set"
    /\ IF cont = SetCount
         THEN Enter("sync")
         ELSE cont' = cont + 1 /\ UNCHANGED <<stage, silence, diff, polled, reported>>
    /\ UNCHANGED <<flag, status, told, half, noPps>>

(* checkingSYNC: the pin is low; the last time the RTC is read, and the    *)
(* result reported, whatever it is.                                        *)
Alarm ==
    /\ stage = "sync" /\ half = None
    /\ Heard
    /\ IF cont = SyncCount
         THEN half' = "last" /\ UNCHANGED cont /\ \E s \in Statuses : Write(s)
         ELSE cont' = cont + 1 /\ UNCHANGED <<status, half>>
    /\ UNCHANGED <<stage, diff, flag, told, reported, noPps>>

(* The message of the last report, and on, be it an error or not.          *)
Last ==
    /\ half = "last"
    /\ Send(status[Component])
    /\ half' = None
    /\ Enter(IF stage = "load" THEN "pps" ELSE "run")
    /\ UNCHANGED <<flag, status, noPps>>

-----------------------------------------------------------------------------
(* A status file is about to be written: of a report, of a result.         *)
ReportDue ==
    \/ stage \in Watched /\ half = None /\ NewlyOver /\ FileFirst
    \/ stage = "pps" /\ half = "write"
ResultDue ==
    /\ half = None
    /\ (stage = "load" /\ flag) \/ (stage = "sync" /\ cont = SyncCount)

(* writeFileJson and readGPIO use what fopen returned unseen: a status file*)
(* or the file of a pin that cannot be opened ends the program.            *)
PollsPin == stage \in {"pps", "set", "sync"} /\ half = None

NotOpened ==
    /\ PollsPin \/ ReportDue \/ ResultDue
    /\ stage' = "ended"
    /\ UNCHANGED <<silence, diff, cont, flag, status, told, half, polled,
                   reported, noPps>>

(* After the last check the program samples.                               *)
Finished == stage \in {"run", "ended"} /\ UNCHANGED vars

Listen == Altitude \/ OtherSentence \/ Position \/ Pulse \/ Setting \/ Alarm
Report == Quiet \/ ReportInFile \/ ReportToServer \/ ThenSend \/ ThenWrite \/ Last
Next == Second \/ Listen \/ Report \/ NotOpened \/ Finished

Spec == Init /\ [][Next]_vars

(* The devices go on saying what the loops wait for, now and then, and the *)
(* program goes on.                                                        *)
FairSpec ==
    /\ Spec
    /\ WF_vars(ThenSend \/ ThenWrite \/ Last)
    /\ SF_vars(Altitude) /\ SF_vars(Position)
    /\ SF_vars(Pulse) /\ SF_vars(Setting) /\ SF_vars(Alarm)

-----------------------------------------------------------------------------
CountersOK ==
    /\ silence \in 0 .. MaxSilence /\ diff \in 0 .. MaxSilence
    /\ cont \in Nat

FlagsOK ==
    /\ stage \in Watched \cup {"set", "run", "ended"}
    /\ flag \in BOOLEAN /\ polled \in BOOLEAN
    /\ reported \in BOOLEAN /\ noPps \in BOOLEAN
    /\ status \in [Components -> Statuses]
    /\ told \in [Components -> Statuses \cup {None}]
    /\ half \in {None, "send", "write", "last"}

TypeOK == CountersOK /\ FlagsOK

(* A silence is reported every second from the second second beyond its    *)
(* limit, however long silences before it were: diff delays the first      *)
(* report of a later silence by one second at most.                        *)
SilenceIsReported ==
    (stage \in Watched /\ polled /\ half = None /\ silence > Limit + 1) => reported

(* What the server was told of a component is what its file says: the file *)
(* may only be newer by the message that comes next.  Not so the first     *)
(* report of checkingPPS, which comes before its file: whoever reads the   *)
(* file on that message finds the device in order, for good if that file   *)
(* cannot be opened.                                                       *)
ToldIsWritten ==
    \A c \in Components :
        \/ told[c] \in {None, status[c]}
        \/ c = Component /\ half \in {"send", "last"}
        \/ c = "GPS" /\ stage \in {"pps", "ended"} /\ half = "write"

(* When sampling begins the file of the GPS says that it works unless the  *)
(* PPS was once missing: the report of checkingPPS is never taken back.    *)
(* The RTC's file says whether it could be read just now, never what an    *)
(* earlier run of the program left there.                                  *)
FilesSayHowItWent ==
    stage = "run" => /\ (status["GPS"] = "Error") <=> noPps
                     /\ told["RTC"] = status["RTC"]

(* If each device says now and then what its loop waits for, sampling      *)
(* begins, in whatever order its messages come and however it was silent,  *)
(* unless a file could not be opened.                                      *)
StartupEnds == <>(stage \in {"run", "ended"})

=============================================================================

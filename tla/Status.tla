------------------------------- MODULE Status -------------------------------
(***************************************************************************)
(* The status files between their two programs: SensorIoT.c writes gps.json*)
(* and rtc.json while it checks its devices (Startup), components.js reads *)
(* them (Uploader), in a process of its own and at any time.               *)
(* writeFileJson truncates a file (fopen "w") and fills it when it is      *)
(* closed: in between a reader finds it empty.                             *)
(*                                                                         *)
(* The program writes to an absolute directory (COMPONENTS_DIR), the       *)
(* script reads from the one it is started in: it is taken to be the same. *)
(***************************************************************************)
EXTENDS Startup, Uploader

VARIABLES
    opened,     \* why the file of Component is truncated: "report", "result"; or None
    late        \* history: the script was started when the program had begun to sample

xvars == <<vars, uvars, opened, late>>

InitStatus ==
    /\ Init
    /\ InitUploader
    /\ opened = None
    /\ late = FALSE

-----------------------------------------------------------------------------
(* The program.  Steps that write no file are those of Startup.            *)
Written(f) == f = Component /\ opened # None

FoundOut ==
    \/ Altitude
    \/ OtherSentence
    \/ Position /\ ~flag
    \/ Pulse
    \/ Setting
    \/ Alarm /\ cont # SyncCount

Plain ==
    /\ opened = None
    /\ \/ FoundOut \/ Second \/ Quiet \/ ReportToServer
       \/ ThenSend \/ Last \/ NotOpened
    /\ UNCHANGED <<opened, late, uvars>>

(* fopen: a report or a result is about to be written.  Mutant: what happens to the devices later is written, too.              *)
Open_WhileSampling ==
    /\ opened = None
    /\ \/ (ReportDue \/ stage = "run") /\ opened' = "report"
       \/ ResultDue /\ opened' = "result"
    /\ UNCHANGED <<vars, uvars, late>>

Open ==
    /\ opened = None
    /\ \/ ReportDue /\ opened' = "report"
       \/ ResultDue /\ opened' = "result"
    /\ UNCHANGED <<vars, uvars, late>>

(* fprintf and fclose.                                                     *)
Close ==
    /\ \/ opened = "report" /\ (ReportInFile \/ ThenWrite)
       \/ opened = "result" /\ (Position \/ Alarm)
    /\ opened' = None
    /\ UNCHANGED <<uvars, late>>

-----------------------------------------------------------------------------
(* The script.                                                             *)
StartScript ==
    /\ StartUploader
    /\ late' = (stage = "run")
    /\ UNCHANGED <<vars, opened>>

ReadStatus ==
    /\ \E f \in Files : FileRead(f, Written(f))
    /\ UNCHANGED <<vars, opened, late>>

Upload == Proceed /\ UNCHANGED <<vars, opened, late>>
Break == (ConnectionFails \/ Interrupted) /\ UNCHANGED <<vars, opened, late>>

NextStatus == Plain \/ Open \/ Close \/ StartScript \/ ReadStatus \/ Upload \/ Break

(* As in Startup the devices say now and then what the loops wait for; the *)
(* platform answers and files can be read.                                 *)
PositionComes ==
    \/ Plain /\ Position
    \/ Open /\ stage = "load" /\ opened' = "result"
AlarmComes ==
    \/ Plain /\ Alarm
    \/ Open /\ stage = "sync" /\ opened' = "result"

SpecStatus ==
    /\ InitStatus
    /\ [][NextStatus]_xvars
    /\ WF_xvars(Plain /\ (ThenSend \/ Last))
    /\ WF_xvars(Open /\ half = "write") /\ WF_xvars(Close)
    /\ SF_xvars(Plain /\ Altitude) /\ SF_xvars(PositionComes)
    /\ SF_xvars(Plain /\ Pulse) /\ SF_xvars(Plain /\ Setting) /\ SF_xvars(AlarmComes)
    /\ WF_xvars(ReadStatus \/ Upload)

-----------------------------------------------------------------------------
(* The script dies of a file only while the program checks its devices:    *)
(* once the program samples, files are whole, and a script started then    *)
(* ends by an exception only if a connection fails.                        *)
SamplingSparesUploads == late => \A f \in Files : task[f] # "torn"

(* A script that was started comes to an end, or asks for CTRL+C, if the   *)
(* platform answers, whatever the program does to its files.               *)
UploaderSettles == [](Alive => <>(~Alive \/ warned))

=============================================================================

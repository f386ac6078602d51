---------------------------- MODULE Acquisition ----------------------------
(***************************************************************************)
(* The main loop, readAndSaveData and readWithRTC of SensorIoT.c: when a    *)
(* block of samples is taken and which clock labels it.  The GPS receiver  *)
(* raises the PPS pin at the start of a second and then reports that       *)
(* second on the UART; the RTC's alarm pulls the SYNC pin LOW once a second *)
(* until the program clears it.  The loop takes a block at a pulse, with   *)
(* the time of the sentences that wait in the UART, or at the alarm, with  *)
(* the time of the RTC, when the GPS has no fix, no sentence or no pulse.   *)
(*                                                                         *)
(* Times are kept as ages: how many pulses ago the second began that a     *)
(* label, a sentence or the RTC names.  So a behaviour needs no end.  An   *)
(* age below zero names a second to come: the RTC, which is set once, when *)
(* the program starts, may have been set wrongly and drifts.               *)
(***************************************************************************)
EXTENDS Integers, Sequences

CONSTANTS
    GpsModes,       \* what the receiver may do in a second, see Pulses, Reports
    RmcMayBeLost,   \* whether a report may come without its RMC sentence
    RtcMayFail,     \* whether the I2C bus may fail
    RtcErrors,      \* seconds that the RTC may be behind, those ahead negative
    LoopMayLag,     \* whether the loop may miss a pulse: a block lasts past
                    \* the next one, or the pin is not read in time
    UartCapacity,   \* reports that the UART holds while nobody reads it
    MaxAge,         \* bound: an age of MaxAge stands for every higher one
    MaxCalm         \* bound: a calm of MaxCalm seconds stands for longer ones

ASSUME AcquisitionAssumption ==
    /\ GpsModes \subseteq {"fix", "nofix", "mute", "nopulse", "dead"}
    /\ GpsModes # {}
    /\ RmcMayBeLost \in BOOLEAN
    /\ RtcMayFail \in BOOLEAN
    /\ LoopMayLag \in BOOLEAN
    /\ UartCapacity \in Nat \ {0}
    /\ MaxAge \in Nat \ {0, 1}
    /\ RtcErrors \subseteq Int
    /\ RtcErrors # {}
    /\ \A e \in RtcErrors : e + 3 <= MaxAge
    /\ MaxCalm \in Nat \ {0}

Pulses == {"fix", "nofix", "mute"}
Reports == {"fix", "nofix", "nopulse"}

VARIABLES
    gps,            \* the receiver's mode in this second
    pps, sync,      \* the pins gpio26 and gpio68
    reported,       \* whether the receiver has reported this second
    ticked,         \* whether the RTC has begun this second
    uart,           \* reports waiting to be read, oldest first
    behind          \* seconds that the RTC is behind what it was to be set to

VARIABLES
    pc,             \* "poll" in the loop, "sampling" in readAnalogInputsAndSaveData
    ticks,          \* pulses since the block began
    inicio,         \* seconds since the last pulse was seen, up to 3
    bufTime,        \* age of the label read last, or Never
    isData, flag, sendNotiPPS, sendNotiSYNC,
    block,          \* the last block: which clock labelled it, age of the label
    notice,         \* the last ALERTS_ERROR notice, and which of two it was
    calm            \* history: seconds that began since a pulse or an RMC was
                    \* missing, the loop missed a pulse or the RTC's bus failed

env == <<gps, pps, sync, reported, ticked, uart, behind>>
notis == <<sendNotiPPS, sendNotiSYNC, notice>>
prog == <<pc, ticks, inicio, bufTime, isData, flag, block, notis>>
vars == <<env, prog, calm>>

Never == MaxAge + 1
Older(a) == IF a < MaxAge THEN a + 1 ELSE a

(* What the RTC says.  It is set from the report of the second before, so  *)
(* that its seconds begin after the pulses and name the second before.     *)
RtcAge == behind + (IF ticked THEN 1 ELSE 2)

Init ==
    /\ gps \in GpsModes
    /\ pps = "LOW"
    /\ sync = "HIGH"
    /\ reported = TRUE
    /\ ticked = TRUE
    /\ uart = <<>>
    /\ behind \in RtcErrors
    /\ pc = "poll"
    /\ ticks = 0
    /\ inicio = 0
    /\ bufTime = Never
    /\ isData = 0
    /\ flag = 0
    /\ sendNotiPPS = 1
    /\ sendNotiSYNC = 1
    /\ block = [source |-> "none", age |-> MaxAge]
    /\ notice = [source |-> "none", copy |-> 0]
    /\ calm = MaxCalm

-----------------------------------------------------------------------------
StillCalm(undisturbed) == calm' = IF undisturbed THEN calm ELSE 0

(* The clocks.  A second begins with the pulse, and everything is one      *)
(* second older.                                                           *)
Tick ==
    /\ reported
    /\ ticked
    /\ pc = "sampling" => LoopMayLag /\ ticks = 0
    /\ gps' \in GpsModes
    /\ pps' = IF gps' \in Pulses THEN "HIGH" ELSE "LOW"
    /\ reported' = FALSE
    /\ ticked' = FALSE
    /\ uart' = [i \in 1 .. Len(uart) |-> [uart[i] EXCEPT !.age = Older(@)]]
    /\ ticks' = IF pc = "sampling" THEN 1 ELSE 0
    /\ inicio' = IF inicio < 3 THEN inicio + 1 ELSE inicio
    /\ bufTime' = IF bufTime = Never THEN Never ELSE Older(bufTime)
    /\ block' = [block EXCEPT !.age = Older(@)]
    /\ calm' = IF pc = "sampling" \/ gps' \notin Pulses THEN 0
               ELSE IF calm < MaxCalm THEN calm + 1 ELSE calm
    /\ UNCHANGED <<sync, behind, pc, isData, flag, notis>>

(* The pulse ends and the receiver reports the second: an RMC sentence     *)
(* with or without a position and a GGA sentence.  The pulse lasts until   *)
(* a polling loop has seen it, which inicio = 0 tells.                     *)
Report ==
    /\ ~reported
    /\ LET missed == pc = "poll" /\ pps = "HIGH" /\ inicio # 0 IN
         /\ missed => LoopMayLag
         /\ IF gps \in Reports /\ Len(uart) < UartCapacity
            THEN \E r \in {gps} \cup {x \in {"lost"} : RmcMayBeLost} :
                   /\ uart' = Append(uart, [rmc |-> r, age |-> 0])
                   /\ StillCalm(~missed /\ r # "lost")
            ELSE UNCHANGED uart /\ StillCalm(~missed)
    /\ reported' = TRUE
    /\ pps' = "LOW"
    /\ UNCHANGED <<gps, sync, ticked, behind, prog>>

(* The RTC begins a second, once between two pulses: its age is one less.  *)
RtcTick ==
    /\ ~ticked
    /\ ticked' = TRUE
    /\ sync' = "LOW"
    /\ UNCHANGED <<gps, pps, reported, uart, behind, prog, calm>>

(* It drifts: now and then two of its seconds begin between two pulses, or *)
(* none.                                                                   *)
RtcGains ==
    /\ ticked
    /\ behind - 1 \in RtcErrors
    /\ behind' = behind - 1
    /\ sync' = "LOW"
    /\ UNCHANGED <<gps, pps, reported, ticked, uart, prog, calm>>

RtcLoses ==
    /\ ~ticked
    /\ behind + 1 \in RtcErrors
    /\ behind' = behind + 1
    /\ ticked' = TRUE
    /\ UNCHANGED <<gps, pps, sync, reported, uart, prog, calm>>

-----------------------------------------------------------------------------
(* One iteration of the loop.  The reads of the pins and of the sentences  *)
(* take no time that the clocks would notice.                              *)
Send(who) == notice' = [source |-> who, copy |-> 1 - notice.copy]

SampleBlock(source, age) ==
    /\ pc' = "sampling"
    /\ ticks' = 0
    /\ block' = [source |-> source, age |-> age]

(* The two transfers on the bus: the alarm is cleared, the clock is read.  *)
(* Either may fail.                                                        *)
MaySucceed == {TRUE} \cup {x \in {FALSE} : RtcMayFail}
RtcTransfers ==
    \E cleared, read \in MaySucceed :
        /\ sync' = IF cleared THEN "HIGH" ELSE sync
        /\ IF read THEN SampleBlock("RTC", RtcAge) ELSE UNCHANGED <<pc, ticks, block>>
        /\ StillCalm(cleared /\ read)

(* Mutant: the notice is sent at every turn of the RTC.                    *)
ReadWithRTC_Repeats ==
    /\ sync = "LOW"
    /\ sendNotiPPS' = 1
    /\ Send("RTC")
    /\ sendNotiSYNC' = 0
    /\ RtcTransfers

(* readWithRTC: the alarm is cleared, the notice sent, the clock read.     *)
ReadWithRTC ==
    /\ sync = "LOW"
    /\ sendNotiPPS' = 1
    /\ IF sendNotiSYNC = 1 THEN Send("RTC") ELSE UNCHANGED notice
    /\ sendNotiSYNC' = 0
    /\ RtcTransfers

SeePulse ==
    /\ pc = "poll"
    /\ pps = "HIGH"
    /\ inicio' = 0
    /\ UNCHANGED <<gps, pps, reported, ticked, behind>>

(* The sentences that wait are read, and the time of the last RMC kept; if *)
(* none of them is an RMC, bufTime and isData keep what they were.         *)
Rmcs == {i \in 1 .. Len(uart) : uart[i].rmc # "lost"}
Newest(i) == i \in Rmcs /\ \A j \in Rmcs : j <= i

(* Mutant: a position found again is not noticed.                          *)
ReadSentences_StaysWithoutFix ==
    /\ uart # <<>>
    /\ uart' = <<>>
    /\ \/ Rmcs = {} /\ UNCHANGED <<bufTime, isData>>
       \/ \E i \in Rmcs :
            /\ Newest(i)
            /\ bufTime' = uart[i].age
            /\ isData' = IF isData = -1 \/ uart[i].rmc = "nofix" THEN -1 ELSE 11

ReadSentences ==
    /\ uart # <<>>
    /\ uart' = <<>>
    /\ \/ Rmcs = {} /\ UNCHANGED <<bufTime, isData>>
       \/ \E i \in Rmcs :
            /\ Newest(i)
            /\ bufTime' = uart[i].age
            /\ isData' = IF uart[i].rmc = "nofix" THEN -1 ELSE 11

(* Mutants: the label of the sentences read before; the RTC's next turn is *)
(* not told.                                                               *)
GpsBlock_OldTime ==
    /\ SeePulse
    /\ ReadSentences
    /\ isData' # -1
    /\ flag' = 0
    /\ IF sendNotiPPS = 1 THEN Send("GPS") /\ sendNotiSYNC' = 1
                          ELSE UNCHANGED <<notice, sendNotiSYNC>>
    /\ sendNotiPPS' = 0
    /\ SampleBlock("GPS", bufTime)
    /\ UNCHANGED <<sync, calm>>

GpsBlock_KeepsSYNC ==
    /\ SeePulse
    /\ ReadSentences
    /\ isData' # -1
    /\ flag' = 0
    /\ IF sendNotiPPS = 1 THEN Send("GPS") ELSE UNCHANGED notice
    /\ sendNotiSYNC' = sendNotiSYNC
    /\ sendNotiPPS' = 0
    /\ SampleBlock("GPS", bufTime')
    /\ UNCHANGED <<sync, calm>>

GpsBlock ==
    /\ SeePulse
    /\ ReadSentences
    /\ isData' # -1
    /\ flag' = 0
    /\ IF sendNotiPPS = 1 THEN Send("GPS") /\ sendNotiSYNC' = 1
                          ELSE UNCHANGED <<notice, sendNotiSYNC>>
    /\ sendNotiPPS' = 0
    /\ SampleBlock("GPS", bufTime')
    /\ UNCHANGED <<sync, calm>>

PulseWithoutFix ==
    /\ SeePulse
    /\ ReadSentences
    /\ isData' = -1
    /\ flag' = 1
    /\ ReadWithRTC

(* SYNC is not LOW: this pulse is passed over.                              *)
PulseWithoutClock ==
    /\ SeePulse
    /\ ReadSentences
    /\ isData' = -1
    /\ sync = "HIGH"
    /\ flag' = 0
    /\ UNCHANGED <<sync, pc, ticks, block, notis, calm>>

PulseWithoutSentence ==
    /\ SeePulse
    /\ uart = <<>>
    /\ flag' = 1
    /\ ReadWithRTC
    /\ UNCHANGED <<uart, bufTime, isData>>

(* Mutants: the RTC never waits, or only the flag lets it in.              *)
NoPulse_AnyTime ==
    /\ pc = "poll"
    /\ pps = "LOW"
    /\ ReadWithRTC
    /\ UNCHANGED <<gps, pps, reported, ticked, uart, behind, inicio, bufTime, isData, flag>>

NoPulse_OnlyFlag ==
    /\ pc = "poll"
    /\ pps = "LOW"
    /\ flag = 1
    /\ ReadWithRTC
    /\ UNCHANGED <<gps, pps, reported, ticked, uart, behind, inicio, bufTime, isData, flag>>

(* No pulse: the RTC takes over after more than two seconds, or at once if *)
(* it took the last block.                                                 *)
NoPulse ==
    /\ pc = "poll"
    /\ pps = "LOW"
    /\ flag = 1 \/ inicio > 2
    /\ ReadWithRTC
    /\ UNCHANGED <<gps, pps, reported, ticked, uart, behind, inicio, bufTime, isData, flag>>

(* A pulse that finds neither a sentence nor the alarm is only noted.      *)
PulseWithoutAnything ==
    /\ SeePulse
    /\ uart = <<>>
    /\ sync = "HIGH"
    /\ UNCHANGED <<uart, sync, pc, ticks, bufTime, isData, flag, block, notis, calm>>

Iterate ==
    \/ GpsBlock
    \/ PulseWithoutFix
    \/ PulseWithoutClock
    \/ PulseWithoutSentence
    \/ PulseWithoutAnything
    \/ NoPulse

(* The block has been sampled and stored; that takes longer than a pulse.  *)
BlockDone ==
    /\ pc = "sampling"
    /\ reported \/ ticks = 1
    /\ pc' = "poll"
    /\ UNCHANGED <<env, ticks, inicio, bufTime, isData, flag, block, notis, calm>>

Next ==
    \/ Tick
    \/ Report
    \/ RtcTick
    \/ RtcGains
    \/ RtcLoses
    \/ Iterate
    \/ BlockDone

Spec == Init /\ [][Next]_vars

(* The clocks run, and the loop runs faster than they do: it does not wait *)
(* for anything.  The last condition is about the RTC: when the loop turns *)
(* to it again and again, its bus does not fail every time.                *)
FairSpec ==
    /\ Spec
    /\ WF_vars(Tick)
    /\ WF_vars(Report)
    /\ WF_vars(RtcTick)
    /\ WF_vars(Iterate)
    /\ WF_vars(BlockDone)
    /\ SF_vars(Iterate /\ pc' = "sampling")

-----------------------------------------------------------------------------
(* Properties.                                                             *)

(* The variables have their types; there is a label exactly when an RMC    *)
(* sentence has been read, with or without a position, and the UART holds  *)
(* its sentences in the order of their seconds.                            *)
TypeOK ==
    /\ gps \in GpsModes
    /\ pps \in {"LOW", "HIGH"} /\ sync \in {"LOW", "HIGH"}
    /\ reported \in BOOLEAN /\ ticked \in BOOLEAN
    /\ uart \in Seq([rmc : {"fix", "nofix", "nopulse", "lost"}, age : 0 .. MaxAge])
    /\ Len(uart) <= UartCapacity
    /\ behind \in RtcErrors
    /\ pc \in {"poll", "sampling"} /\ ticks \in {0, 1} /\ inicio \in 0 .. 3
    /\ bufTime \in 0 .. Never
    /\ isData \in {-1, 0, 11}
    /\ isData = 0 <=> bufTime = Never
    /\ flag \in {0, 1} /\ sendNotiPPS \in {0, 1} /\ sendNotiSYNC \in {0, 1}
    /\ block \in [source : {"none", "GPS", "RTC"}, age : Int]
    /\ notice \in [source : {"none", "GPS", "RTC"}, copy : {0, 1}]
    /\ calm \in 0 .. MaxCalm

(* While a block is sampled the clock that labels it is the one that the   *)
(* last notice to the server named.                                        *)
NoticeMatchesBlock == pc = "sampling" => notice.source = block.source

(* A change of clock is told once: two notices in a row never name the     *)
(* same clock.                                                             *)
NoticesAlternate ==
    [][notice' # notice => notice'.source # notice.source]_vars

(* Two undisturbed seconds are enough: a block that begins with the GPS's  *)
(* time then has the label of the second before, whatever sentences,       *)
(* alarms and flags the disturbances before left behind.                   *)
BlocksAreFresh ==
    [][pc = "poll" /\ pc' = "sampling" /\ calm >= 2 =>
         (block'.source = "GPS" => block'.age = 1)]_vars

(* After two undisturbed seconds the labels of one clock advance from each *)
(* block to the next.  Where the other clock takes over a label may come   *)
(* twice, and goes back by no more than the RTC is wrong: when it is       *)
(* behind and takes over, or ahead and the GPS takes over from it.         *)
LabelsAdvance ==
    [][pc = "poll" /\ pc' = "sampling" /\ calm >= 2 =>
         LET back == block'.age - block.age IN
         \/ back < 0
         \/ block'.source # block.source /\ back = 0
         \/ block.source = "GPS" /\ block'.source = "RTC" /\ back <= behind
         \/ block.source = "RTC" /\ block'.source = "GPS" /\ back <= -behind]_vars

(* Whatever the receiver does, blocks keep being taken: an RTC that answers *)
(* now and then stands in for it.                                          *)
BlocksKeepComing == []<>(pc = "sampling")

(* A receiver that has found its position for good gets the labelling back, *)
(* once nothing disturbs it any more, whatever happened before.            *)
GpsComesBack ==
    <>[](gps = "fix" /\ calm >= 1) => []<>(pc = "sampling" /\ block.source = "GPS")

=============================================================================

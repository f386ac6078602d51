-------------------------- MODULE EventRegisters ---------------------------
(***************************************************************************)
(* The contents of the detector's registers: which samples tempData,       *)
(* preEvent, eventSamples and postEvent of struct eventData hold, and so   *)
(* which samples an event file is made of.  A sample is its number since   *)
(* the program started.  Every action is the one of EventDetector together *)
(* with what it does to the arrays; an array is the sequence of the        *)
(* elements its counter covers.                                            *)
(***************************************************************************)
EXTENDS EventDetector, Sequences

CONSTANT MaxBlocks      \* bound: blocks taken in a behaviour

ASSUME MaxBlocksAssumption == MaxBlocks \in Nat

VARIABLES
    base,           \* samples taken before the current block
    date,           \* day of the current block's label
    eventDate,      \* event->date
    tempData, preRegister, eventSamples, postRegister,
    quiet,          \* history: whole blocks in a row that preRegister got, up to preSeconds
    file            \* the last event file

registers == <<tempData, preRegister, eventSamples, postRegister>>
rvars == <<vars, base, date, eventDate, registers, quiet, file>>

NoFile == [name |-> <<0, 0>>, quiet |-> 0,
           pre |-> <<>>, event |-> <<>>, post |-> <<>>]

InitR ==
    /\ Init
    /\ base = 0
    /\ date = 1
    /\ eventDate = 0
    /\ tempData = <<>>
    /\ preRegister = <<>>
    /\ eventSamples = <<>>
    /\ postRegister = <<>>
    /\ quiet = 0
    /\ file = NoFile

-----------------------------------------------------------------------------
newSamples == [i \in 1 .. freq |-> base + i]
Sample == base + count + 1

(* moveRegister: the register moves n places to the left and its last n     *)
(* places get the samples that follow the first ones of s.                  *)
MoveRegister(reg, s, n, first) ==
    LET position == Len(reg) - n
    IN  [i \in 1 .. Len(reg) |->
            IF i > position THEN s[i - position + first] ELSE reg[i + n]]

(* Mutant: a full register grows too.                                       *)
AddToRegister_Grows(reg, s, n, first) == reg \o SubSeq(s, 1, n)

(* addSamplesPreEvent: a register that is not full takes the first n       *)
(* samples, wherever the caller wanted them from.                          *)
AddToRegister(reg, s, n, first) ==
    IF Len(reg) # preEvent THEN reg \o SubSeq(s, 1, n)
    ELSE MoveRegister(reg, s, n, first)

(* createEventFile refills the pre-event register from what it has written *)
(* and then from the tail of tempData.                                     *)
RefilledRegister ==
    LET c == Len(preRegister)
        p == Len(postRegister)
        e == Len(eventSamples)
        refilled ==
          IF p >= c THEN AddToRegister(preRegister, postRegister, c, p - c)
          ELSE AddToRegister(
                 IF e >= c - p
                 THEN AddToRegister(preRegister, eventSamples, c - p, e - (c - p))
                 ELSE AddToRegister(preRegister, eventSamples, e, 0),
                 postRegister, p, 0)
        sobrante == e % freq
    IN  AddToRegister(refilled, tempData, sobrante, Len(tempData) - sobrante)

-----------------------------------------------------------------------------
(* Mutant: the window is moved by a block at every sample.                 *)
ShiftWindow_EverySample == tempData' = MoveRegister(tempData, newSamples, freq, 0)

(* The tail of an iteration of sta_lta once the window is full.             *)
ShiftWindow ==
    tempData' = IF LastOfBlock THEN MoveRegister(tempData, newSamples, freq, 0)
                ELSE tempData

Quieter == IF quiet < preSeconds THEN quiet + 1 ELSE quiet

(* A whole block goes to the pre-event register, at its last sample.        *)
BlockToRegister ==
    /\ preRegister' = IF LastOfBlock
                      THEN AddToRegister(preRegister, newSamples, freq, 0)
                      ELSE preRegister
    /\ quiet' = IF LastOfBlock THEN Quieter ELSE quiet

SameBlock == UNCHANGED <<base, date, file>>

FillSampleR ==
    /\ FillSample
    /\ tempData' = Append(tempData, Sample)
    /\ BlockToRegister
    /\ SameBlock
    /\ UNCHANGED <<eventSamples, postRegister, eventDate>>

PendingSampleR ==
    /\ PendingSample
    /\ ShiftWindow
    /\ SameBlock
    /\ UNCHANGED <<preRegister, eventSamples, postRegister, eventDate, quiet>>

PostSampleR ==
    /\ PostSample
    /\ ShiftWindow
    /\ postRegister' = Append(postRegister, Sample)
    /\ SameBlock
    /\ UNCHANGED <<preRegister, eventSamples, eventDate, quiet>>

PostCompleteR ==
    /\ PostComplete
    /\ ShiftWindow
    /\ SameBlock
    /\ UNCHANGED <<preRegister, eventSamples, postRegister, eventDate, quiet>>

QuietSampleR ==
    /\ QuietSample
    /\ ShiftWindow
    /\ BlockToRegister
    /\ SameBlock
    /\ UNCHANGED <<eventSamples, postRegister, eventDate>>

(* Mutants: the trigger itself goes to the pre-event register as well; the *)
(* block's samples before it do not; the date is not stored.               *)
TriggerR_OneTooMany ==
    /\ Trigger
    /\ ShiftWindow
    /\ preRegister' = AddToRegister(preRegister, newSamples, count + 1, 0)
    /\ eventSamples' = Append(eventSamples, Sample)
    /\ eventDate' = date
    /\ SameBlock
    /\ UNCHANGED <<postRegister, quiet>>
TriggerR_NoPartialBlock ==
    /\ Trigger
    /\ ShiftWindow
    /\ eventSamples' = Append(eventSamples, Sample)
    /\ eventDate' = date
    /\ SameBlock
    /\ UNCHANGED <<preRegister, postRegister, quiet>>
TriggerR_NoDate ==
    /\ Trigger
    /\ ShiftWindow
    /\ preRegister' = AddToRegister(preRegister, newSamples, count, 0)
    /\ eventSamples' = Append(eventSamples, Sample)
    /\ SameBlock
    /\ UNCHANGED <<postRegister, eventDate, quiet>>

TriggerR ==
    /\ Trigger
    /\ ShiftWindow
    /\ preRegister' = AddToRegister(preRegister, newSamples, count, 0)
    /\ eventSamples' = Append(eventSamples, Sample)
    /\ eventDate' = date
    /\ SameBlock
    /\ UNCHANGED <<postRegister, quiet>>

TriggerWhenFullR ==
    /\ TriggerWhenFull
    /\ ShiftWindow
    /\ preRegister' = AddToRegister(preRegister, newSamples, count, 0)
    /\ eventDate' = date
    /\ quiet' = 0
    /\ SameBlock
    /\ UNCHANGED <<eventSamples, postRegister>>

(* Mutant: the sample before the current one is stored.                    *)
RecordSampleR_OneBehind ==
    /\ RecordSample
    /\ ShiftWindow
    /\ eventSamples' = Append(eventSamples, Sample - 1)
    /\ SameBlock
    /\ UNCHANGED <<preRegister, postRegister, eventDate, quiet>>

RecordSampleR ==
    /\ RecordSample
    /\ ShiftWindow
    /\ eventSamples' = Append(eventSamples, Sample)
    /\ SameBlock
    /\ UNCHANGED <<preRegister, postRegister, eventDate, quiet>>

OverrunR ==
    /\ Overrun
    /\ ShiftWindow
    /\ quiet' = 0
    /\ SameBlock
    /\ UNCHANGED <<preRegister, eventSamples, postRegister, eventDate>>

CloseEventR ==
    /\ CloseEvent
    /\ ShiftWindow
    /\ SameBlock
    /\ UNCHANGED <<preRegister, eventSamples, postRegister, eventDate, quiet>>

DiscardEventR ==
    /\ DiscardEvent
    /\ ShiftWindow
    /\ LET e == Len(eventSamples)
           c == Len(preRegister)
       IN  preRegister' = IF e > c THEN AddToRegister(preRegister, eventSamples, c, e - c)
                          ELSE AddToRegister(preRegister, eventSamples, e, 0)
    /\ eventSamples' = <<>>
    /\ quiet' = 0
    /\ SameBlock
    /\ UNCHANGED <<postRegister, eventDate>>

NewBlockR ==
    /\ base < (MaxBlocks - 1) * freq
    /\ base' = base + freq
    /\ date' = IF label' < label THEN date + 1 ELSE date
    /\ UNCHANGED <<tempData, eventDate>>

NextBlockR ==
    /\ NextBlock
    /\ NewBlockR
    /\ UNCHANGED <<preRegister, eventSamples, postRegister, quiet, file>>

(* Mutant: postEvent is not emptied.                                        *)
SaveEventR_KeepsPost ==
    /\ SaveEvent
    /\ NewBlockR
    /\ file' = [name |-> <<eventDate, startTime>>, quiet |-> quiet,
                pre |-> preRegister, event |-> eventSamples, post |-> postRegister]
    /\ preRegister' = RefilledRegister
    /\ eventSamples' = <<>>
    /\ quiet' = 0
    /\ UNCHANGED postRegister

SaveEventR ==
    /\ SaveEvent
    /\ NewBlockR
    /\ file' = [name |-> <<eventDate, startTime>>, quiet |-> quiet,
                pre |-> preRegister, event |-> eventSamples, post |-> postRegister]
    /\ preRegister' = RefilledRegister
    /\ eventSamples' = <<>>
    /\ postRegister' = <<>>
    /\ quiet' = 0

(* The bound: after MaxBlocks blocks a behaviour takes no more samples.     *)
OutOfBlocks ==
    /\ count = freq
    /\ base >= (MaxBlocks - 1) * freq
    /\ UNCHANGED rvars

NextR ==
    \/ FillSampleR
    \/ PendingSampleR
    \/ PostSampleR
    \/ PostCompleteR
    \/ QuietSampleR
    \/ TriggerR
    \/ TriggerWhenFullR
    \/ RecordSampleR
    \/ OverrunR
    \/ CloseEventR
    \/ DiscardEventR
    \/ NextBlockR
    \/ SaveEventR
    \/ OutOfBlocks

SpecR == InitR /\ [][NextR]_rvars

-----------------------------------------------------------------------------
Contiguous(s) == \A i \in 1 .. Len(s) - 1 : s[i + 1] = s[i] + 1

(* The last n of the first m samples.                                       *)
Newest(n, m) == [i \in 1 .. n |-> m - n + i]

(* The samples of the blocks that have been gone through to the end.        *)
WholeBlocks == IF count = freq THEN base + freq ELSE base

(* The counters of eventData are the lengths of what the arrays hold.       *)
CountersMatch ==
    /\ Len(tempData) = countTempData
    /\ Len(preRegister) = countPreEvent
    /\ Len(eventSamples) = countEventSamples
    /\ Len(postRegister) = countPostEvent

(* tempData, from which the averages take the samples that leave their     *)
(* windows, is the newest lengthLTA samples before the current block; the  *)
(* block itself enters at its last sample.                                 *)
WindowIsNewest ==
    countTempData = lengthLTA =>
        tempData = Newest(lengthLTA, WholeBlocks)

(* The samples of an event are consecutive, and so are those of postEvent, *)
(* which start after the one sample that ended the event.                  *)
EventHasOneGap ==
    /\ Contiguous(eventSamples)
    /\ Contiguous(postRegister)
    /\ postRegister # <<>> =>
         /\ eventSamples # <<>>
         /\ postRegister[1] = eventSamples[Len(eventSamples)] + 2

(* While an event is recorded no sample is skipped: the last one recorded  *)
(* is the last one taken.                                                  *)
RecordingIsCurrent ==
    EVENT_ON = 1 => eventSamples[Len(eventSamples)] = base + count

(* After preSeconds blocks in a row have gone to it, the pre-event register *)
(* holds the newest samples, and those just before an event once it starts. *)
QuietRegisterIsNewest ==
    quiet = preSeconds /\ preSeconds <= ltaSeconds =>
        preRegister = Newest(preEvent,
            IF EVENT_ON + isEnableAddPostEvent + isPendingSaveEvent = 1
            THEN eventSamples[1] - 1 ELSE WholeBlocks)

(* So the first part of a file joins the second one if the ground was quiet *)
(* for preSeconds between the event and the one before it.                 *)
QuietFilesJoin ==
    file # NoFile /\ file.quiet = preSeconds => Contiguous(file.pre \o file.event)

(* Two files in a row have different names, so that the second one does    *)
(* not truncate the first, unless that one began at the start of a day:    *)
(* its time was then not moved back by preSeconds.                         *)
FileNamesDiffer ==
    [][ file' # file /\ file'.name = file.name => file.name[2] < preSeconds ]_rvars

=============================================================================

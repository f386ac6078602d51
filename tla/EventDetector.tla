--------------------------- MODULE EventDetector ---------------------------
(***************************************************************************)
(* The STA/LTA event detector of one axis (libs/EVENTS/staLta.c) and the    *)
(* file it hands over (createEventFile of SensorIoT.c): its control.        *)
(*                                                                         *)
(* Every second the main loop passes the detector one block of freq        *)
(* samples with a time label.  Here only the flags and the counters of the *)
(* struct eventData are kept; the contents of the registers are added by   *)
(* EventRegisters, which extends this module action by action.  The ratio  *)
(* sta_to_lta of a sample is abstracted to what the two thresholds tell    *)
(* apart: "on" (>= thOn), "off" (<= thOff) or "mid"; main rejects           *)
(* thOn <= thOff, so the three are exclusive, and a NaN ratio is "mid".     *)
(***************************************************************************)
EXTENDS Integers

CONSTANTS
    freq,                   \* samples of a block, one block per second
    ltaSeconds,             \* option -l, rounded
    preSeconds,             \* option -b
    postSeconds,            \* option -a
    minimunDurationSeconds, \* option -m, truncated to an int
    MAX_LENGTH_EVENT,       \* capacity of eventSamples
    DaySeconds,             \* seconds of a day: labels hold no more than that
    LabelSteps,             \* how far one block's label is from the previous one
    Skews                   \* what getSeconds may add to the time it is given

ASSUME EventDetectorAssumption ==
    /\ freq \in Nat \ {0}
    /\ ltaSeconds \in Nat \ {0}
    /\ preSeconds \in Nat \ {0}
    /\ postSeconds \in Nat \ {0}
    /\ minimunDurationSeconds \in Int
    /\ MAX_LENGTH_EVENT \in Nat \ {0}
    /\ DaySeconds \in Nat \ {0}
    /\ LabelSteps \subseteq Int
    /\ Skews \subseteq Nat

(* setParamsSTA_LTA: windows and registers are whole blocks long.           *)
lengthLTA == ltaSeconds * freq
preEvent == preSeconds * freq
postEvent == postSeconds * freq

(***************************************************************************)
(* count is the loop variable of sta_lta; freq means that the loop is over *)
(* and the main loop looks at isPendingSaveEvent.  label is the second of  *)
(* the day the block carries and startTime the one saved in event->time.   *)
(* elapsed is a history variable: the seconds that the labels have         *)
(* advanced since the trigger, with midnight not wrapped.                  *)
(***************************************************************************)
VARIABLES
    count, label,
    countTempData, countPreEvent, countEventSamples, countPostEvent,
    EVENT_ON, isEnableAddPostEvent, isPendingSaveEvent,
    startTime, elapsed

flags == <<EVENT_ON, isEnableAddPostEvent, isPendingSaveEvent>>
time == <<label, startTime, elapsed>>
vars == <<count, countTempData, countPreEvent, countEventSamples,
          countPostEvent, flags, time>>

(* eventX, eventY and eventZ are globals, hence zero at the start.          *)
Init ==
    /\ count = 0
    /\ label \in 0 .. DaySeconds - 1
    /\ countTempData = 0
    /\ countPreEvent = 0
    /\ countEventSamples = 0
    /\ countPostEvent = 0
    /\ EVENT_ON = 0
    /\ isEnableAddPostEvent = 0
    /\ isPendingSaveEvent = 0
    /\ startTime = 0
    /\ elapsed = 0

-----------------------------------------------------------------------------
(* Mutant: the register always grows.                                       *)
AddSamplesPreEvent_Grows(c, n) == c + n

(* addSamplesPreEvent: a register of c samples that is not exactly full     *)
(* grows by all n samples, a full one is shifted.                           *)
AddSamplesPreEvent(c, n) == IF c # preEvent THEN c + n ELSE c

(* Mutant: the minimum must be exceeded.                                   *)
LongEnough_OneMore(s, e) == e - s > minimunDurationSeconds

(* checkMinimunDuration on readings s of event->time and e of the label;   *)
(* t is event->time itself.                                                *)
LongEnough(s, e) == e - s >= minimunDurationSeconds
StartTime(s, e, t) ==
    IF LongEnough(s, e) /\ s >= preSeconds THEN s - preSeconds ELSE t

(* getSeconds converts two-character arrays that no terminator follows, so *)
(* what it returns may exceed the time by whatever the stack holds there.   *)
Readings(t) == {t + k : k \in Skews}

-----------------------------------------------------------------------------
(* One iteration of the loop of sta_lta; freq - 1 is the block's last one.  *)
Sampling ==
    /\ count < freq
    /\ count' = count + 1

LastOfBlock == count = freq - 1

(* The LTA window is still being filled.                                    *)
FillSample ==
    /\ Sampling
    /\ countTempData # lengthLTA
    /\ countTempData' = countTempData + 1
    /\ countPreEvent' = IF LastOfBlock
                        THEN AddSamplesPreEvent(countPreEvent, freq)
                        ELSE countPreEvent
    /\ UNCHANGED <<countEventSamples, countPostEvent, flags, time>>

(* The window is full: the sample goes to detectEvent.                      *)
Detecting ==
    /\ Sampling
    /\ countTempData = lengthLTA
    /\ UNCHANGED countTempData

(* A file waits to be written at the end of the block: the sample is lost. *)
PendingSample ==
    /\ Detecting
    /\ isPendingSaveEvent = 1
    /\ UNCHANGED <<countPreEvent, countEventSamples, countPostEvent, flags, time>>

Closing ==
    /\ Detecting
    /\ isPendingSaveEvent # 1
    /\ isEnableAddPostEvent = 1

PostSample ==
    /\ Closing
    /\ countPostEvent # postEvent
    /\ countPostEvent' = countPostEvent + 1
    /\ UNCHANGED <<countPreEvent, countEventSamples, flags, time>>

(* Mutant: postEvent need not be full.                                     *)
PostComplete_Early ==
    /\ Closing
    /\ isPendingSaveEvent' = 1
    /\ isEnableAddPostEvent' = 0
    /\ UNCHANGED <<countPreEvent, countEventSamples, countPostEvent, EVENT_ON, time>>

PostComplete ==
    /\ Closing
    /\ countPostEvent = postEvent
    /\ isPendingSaveEvent' = 1
    /\ isEnableAddPostEvent' = 0
    /\ UNCHANGED <<countPreEvent, countEventSamples, countPostEvent, EVENT_ON, time>>

Listening ==
    /\ Detecting
    /\ isPendingSaveEvent # 1
    /\ isEnableAddPostEvent # 1
    /\ UNCHANGED <<label, isPendingSaveEvent, countPostEvent>>

(* The ratio is not "on": only the last sample of a block does something.   *)
QuietSample ==
    /\ Listening
    /\ EVENT_ON = 0
    /\ countPreEvent' = IF LastOfBlock
                        THEN AddSamplesPreEvent(countPreEvent, freq)
                        ELSE countPreEvent
    /\ UNCHANGED <<countEventSamples, EVENT_ON, isEnableAddPostEvent, startTime, elapsed>>

(* Mutant: the time of the trigger is not stored.                          *)
Trigger_NoTime ==
    /\ Listening
    /\ EVENT_ON = 0
    /\ countEventSamples # MAX_LENGTH_EVENT
    /\ EVENT_ON' = 1
    /\ elapsed' = 0
    /\ countPreEvent' = AddSamplesPreEvent(countPreEvent, count)
    /\ countEventSamples' = countEventSamples + 1
    /\ UNCHANGED <<isEnableAddPostEvent, startTime>>

(* The ratio is "on": the block's samples so far go to the pre-event       *)
(* register and this one starts the event.                                 *)
Trigger ==
    /\ Listening
    /\ EVENT_ON = 0
    /\ countEventSamples # MAX_LENGTH_EVENT
    /\ EVENT_ON' = 1
    /\ startTime' = label
    /\ elapsed' = 0
    /\ countPreEvent' = AddSamplesPreEvent(countPreEvent, count)
    /\ countEventSamples' = countEventSamples + 1
    /\ UNCHANGED isEnableAddPostEvent

(* The same when the buffer is full already: the event that has just been  *)
(* set on is set off again by the same call.                               *)
TriggerWhenFull ==
    /\ Listening
    /\ EVENT_ON = 0
    /\ countEventSamples = MAX_LENGTH_EVENT
    /\ \E s \in Readings(label), e \in Readings(label) :
         startTime' = StartTime(s, e, label)
    /\ elapsed' = 0
    /\ countPreEvent' = AddSamplesPreEvent(countPreEvent, count)
    /\ UNCHANGED <<countEventSamples, EVENT_ON, isEnableAddPostEvent>>

(* Mutant: every sample of an event stores the time, not only its trigger. *)
RecordSample_StoresTime ==
    /\ Listening
    /\ EVENT_ON = 1
    /\ countEventSamples # MAX_LENGTH_EVENT
    /\ countEventSamples' = countEventSamples + 1
    /\ startTime' = label
    /\ UNCHANGED <<countPreEvent, EVENT_ON, isEnableAddPostEvent, elapsed>>

(* The ratio is not "off" and there is room.                                *)
RecordSample ==
    /\ Listening
    /\ EVENT_ON = 1
    /\ countEventSamples # MAX_LENGTH_EVENT
    /\ countEventSamples' = countEventSamples + 1
    /\ UNCHANGED <<countPreEvent, EVENT_ON, isEnableAddPostEvent, startTime, elapsed>>

(* The ratio is not "off" and there is no room: checkMinimunDuration is    *)
(* called for its effect on event->time, its answer is not used.           *)
Overrun ==
    /\ Listening
    /\ EVENT_ON = 1
    /\ countEventSamples = MAX_LENGTH_EVENT
    /\ EVENT_ON' = 0
    /\ \E s \in Readings(startTime), e \in Readings(label) :
         startTime' = StartTime(s, e, startTime)
    /\ UNCHANGED <<countPreEvent, countEventSamples, isEnableAddPostEvent, elapsed>>

(* The ratio is "off" and the event lasted: samples go to postEvent next.   *)
CloseEvent ==
    /\ Listening
    /\ EVENT_ON = 1
    /\ \E s \in Readings(startTime), e \in Readings(label) :
         /\ LongEnough(s, e)
         /\ startTime' = StartTime(s, e, startTime)
    /\ EVENT_ON' = 0
    /\ isEnableAddPostEvent' = 1
    /\ UNCHANGED <<countPreEvent, countEventSamples, elapsed>>

(* Mutant: the samples of a dropped event stay in the buffer.              *)
DiscardEvent_Keeps ==
    /\ Listening
    /\ EVENT_ON = 1
    /\ \E s \in Readings(startTime), e \in Readings(label) : ~LongEnough(s, e)
    /\ EVENT_ON' = 0
    /\ UNCHANGED <<countPreEvent, countEventSamples, isEnableAddPostEvent,
                   startTime, elapsed>>

(* The ratio is "off" and the event was too short: its last samples return *)
(* to the pre-event register.                                              *)
DiscardEvent ==
    /\ Listening
    /\ EVENT_ON = 1
    /\ \E s \in Readings(startTime), e \in Readings(label) : ~LongEnough(s, e)
    /\ EVENT_ON' = 0
    /\ countPreEvent' =
         AddSamplesPreEvent(countPreEvent,
             IF countEventSamples > countPreEvent
             THEN countPreEvent ELSE countEventSamples)
    /\ countEventSamples' = 0
    /\ UNCHANGED <<isEnableAddPostEvent, startTime, elapsed>>

-----------------------------------------------------------------------------
(* The label of the next block, from the GPS or the RTC.                    *)
NewBlock ==
    /\ count = freq
    /\ count' = 0
    /\ \E d \in LabelSteps :
         /\ label' = (label + d) % DaySeconds
         /\ elapsed' = IF EVENT_ON = 1 THEN elapsed + d ELSE 0
    /\ UNCHANGED <<countTempData, EVENT_ON, isEnableAddPostEvent, startTime>>

NextBlock ==
    /\ NewBlock
    /\ isPendingSaveEvent # 1
    /\ UNCHANGED <<countPreEvent, countEventSamples, countPostEvent, isPendingSaveEvent>>

(* The pre-event register after createEventFile: it takes the tail of the  *)
(* samples that were written, then the "leftover" tail of tempData.        *)
RefillAfterSave ==
    LET c == countPreEvent
        p == countPostEvent
        e == countEventSamples
        refilled ==
          IF p >= c THEN AddSamplesPreEvent(c, c)
          ELSE AddSamplesPreEvent(
                 AddSamplesPreEvent(c, IF e >= c - p THEN c - p ELSE e), p)
    IN  AddSamplesPreEvent(refilled, e % freq)

(* Mutants: the flag is not cleared; postEvent is not emptied.             *)
SaveEvent_StillPending ==
    /\ NewBlock
    /\ isPendingSaveEvent = 1
    /\ countPreEvent' = RefillAfterSave
    /\ countEventSamples' = 0
    /\ countPostEvent' = 0
    /\ UNCHANGED isPendingSaveEvent
SaveEvent_KeepsPost ==
    /\ NewBlock
    /\ isPendingSaveEvent = 1
    /\ countPreEvent' = RefillAfterSave
    /\ countEventSamples' = 0
    /\ isPendingSaveEvent' = 0
    /\ UNCHANGED countPostEvent

(* createEventFile, called between the last sample of a block and the next *)
(* block.  The file gets the three registers, one after the other.         *)
SaveEvent ==
    /\ NewBlock
    /\ isPendingSaveEvent = 1
    /\ countPreEvent' = RefillAfterSave
    /\ countEventSamples' = 0
    /\ countPostEvent' = 0
    /\ isPendingSaveEvent' = 0

Next ==
    \/ FillSample
    \/ PendingSample
    \/ PostSample
    \/ PostComplete
    \/ QuietSample
    \/ Trigger
    \/ TriggerWhenFull
    \/ RecordSample
    \/ Overrun
    \/ CloseEvent
    \/ DiscardEvent
    \/ NextBlock
    \/ SaveEvent

Spec == Init /\ [][Next]_vars

(* The loop of readAndSaveData never ends, and while the GPS or the RTC     *)
(* gives pulses it delivers a block per second.                            *)
FairSpec == Spec /\ WF_vars(Next)

-----------------------------------------------------------------------------
(* The counters stay within their arrays and the flags are flags.  That    *)
(* countEventSamples is at most MAX_LENGTH_EVENT is the bound of the C      *)
(* array eventSamples; countPreEvent has no such bound unless              *)
(* preSeconds <= ltaSeconds (PreEventFits).                                 *)
TypeOK ==
    /\ count \in 0 .. freq
    /\ label \in 0 .. DaySeconds - 1
    /\ countTempData \in 0 .. lengthLTA
    /\ countPreEvent \in Nat
    /\ countEventSamples \in 0 .. MAX_LENGTH_EVENT
    /\ countPostEvent \in 0 .. postEvent
    /\ EVENT_ON \in {0, 1}
    /\ isEnableAddPostEvent \in {0, 1}
    /\ isPendingSaveEvent \in {0, 1}
    /\ startTime \in Nat
    /\ elapsed \in Int

(* The three flags of eventData say what the next sample is for, so at     *)
(* most one is set; postEvent holds samples only between the end of an     *)
(* event and its file, and a recording has at least its first sample.      *)
ModesExclusive ==
    /\ EVENT_ON + isEnableAddPostEvent + isPendingSaveEvent <= 1
    /\ countPostEvent > 0 => isEnableAddPostEvent + isPendingSaveEvent = 1
    /\ countEventSamples = 0 =>
         EVENT_ON = 0 /\ isEnableAddPostEvent = 0 /\ isPendingSaveEvent = 0
    /\ countTempData # lengthLTA => countEventSamples = 0

(* Samples that the event buffer holds while no event is on and no file is *)
(* under way are those of an overrun: the buffer is full.                  *)
OnlyOverrunsStrand ==
    /\ countEventSamples > 0
    /\ EVENT_ON = 0
    /\ isEnableAddPostEvent = 0
    /\ isPendingSaveEvent = 0
    => countEventSamples = MAX_LENGTH_EVENT

(* The pre-event register never outgrows preEvent, and is full before the  *)
(* first trigger, provided that it is no longer than the LTA window.       *)
PreEventFits ==
    preSeconds <= ltaSeconds =>
        /\ countPreEvent <= preEvent
        /\ countTempData = lengthLTA => countPreEvent = preEvent

(* The file written by createEventFile gets preEvent + 1 .. MAX + postEvent *)
(* samples: the whole pre-event register, an event, the whole postEvent.   *)
PendingIsComplete ==
    isPendingSaveEvent = 1 =>
        /\ preSeconds <= ltaSeconds => countPreEvent = preEvent
        /\ countPostEvent = postEvent
        /\ countEventSamples \in 1 .. MAX_LENGTH_EVENT

(* An event is kept only if the labels have advanced by the minimum since  *)
(* its trigger, midnight or not.                                           *)
Closes == isEnableAddPostEvent = 0 /\ isEnableAddPostEvent' = 1
KeptEventsLasted == [][Closes => elapsed >= minimunDurationSeconds]_vars

(* An event that lasted longer than the minimum is dropped only if it       *)
(* crossed midnight.  One of exactly the minimum is left open: the code    *)
(* keeps it (>=, staLta.c:280) and staLta.c:19 says that the minimum must  *)
(* be exceeded.                                                             *)
Discards == EVENT_ON = 1 /\ EVENT_ON' = 0 /\ countEventSamples' = 0
OnlyMidnightDropsLongEvents ==
    [][Discards => elapsed <= minimunDurationSeconds \/ label < startTime]_vars

(* What staLta.c says of minimunDurationSeconds: an event that lasts       *)
(* longer is stored.  It does not hold of one that crosses midnight.       *)
LongEventsAreKept == [][Discards => elapsed <= minimunDurationSeconds]_vars

(* With one label per second the whole seconds of checkMinimunDuration     *)
(* (>=, not the "exceed" of staLta.c:19) decide the same as counting       *)
(* samples would, up to less than a second: what is kept is longer than    *)
(* the minimum less one second, what is dropped is shorter than the        *)
(* minimum, or crossed midnight.                                           *)
SamplesDecide ==
    [][ LabelSteps = {1} =>
          /\ Closes => countEventSamples > (minimunDurationSeconds - 1) * freq
          /\ Discards => \/ countEventSamples < minimunDurationSeconds * freq
                         \/ label < startTime ]_vars

(* What staLta.c says of the samples of an event: they go to a buffer to   *)
(* be saved later.  It does not hold of an event that fills the buffer.    *)
BufferedSamplesAreSaved ==
    countEventSamples > 0 =>
        EVENT_ON + isEnableAddPostEvent + isPendingSaveEvent = 1

(* An event that has been kept is written to its file: the samples after   *)
(* it fill postEvent, and the block in which that happens ends.            *)
KeptEventIsWritten ==
    isEnableAddPostEvent = 1 ~>
        countEventSamples = 0 /\ isEnableAddPostEvent = 0 /\ isPendingSaveEvent = 0

(* The detector as its users see it.                                        *)
phase ==
    CASE countTempData # lengthLTA -> "warmup"
      [] countTempData = lengthLTA /\ isPendingSaveEvent = 1 -> "pending"
      [] countTempData = lengthLTA /\ isPendingSaveEvent # 1
           /\ isEnableAddPostEvent = 1 -> "closing"
      [] countTempData = lengthLTA /\ isPendingSaveEvent # 1
           /\ isEnableAddPostEvent # 1 ->
              IF EVENT_ON = 1 THEN "recording"
              ELSE IF countEventSamples > 0 THEN "lost" ELSE "listening"

Lifecycle == INSTANCE EventLifecycle WITH
    phase <- phase, event <- countEventSamples, post <- countPostEvent,
    Post <- postEvent, Capacity <- MAX_LENGTH_EVENT

(* Every step of the detector is a step of the lifecycle or leaves it as   *)
(* it is, and a kept event moves on to its file under FairSpec.            *)
ImplementsLifecycle == Lifecycle!Spec

=============================================================================

------------------------ MODULE EventDetectorProofs ------------------------
(***************************************************************************)
(* The detector's invariants for every length of block, window, register   *)
(* and buffer, every minimum duration, every sequence of labels and every  *)
(* reading of getSeconds, and that it implements EventLifecycle.           *)
(***************************************************************************)
EXTENDS EventDetector, TLAPS

-----------------------------------------------------------------------------
(* Whole blocks: what is known of products with freq.                       *)

(* A smaller number of blocks is smaller by at least one block.            *)
LEMMA BlocksOrder ==
    ASSUME NEW f \in Nat \ {0}, NEW a \in Nat, NEW b \in Nat
    PROVE  /\ a * f \in Nat
           /\ (a + 1) * f = a * f + f
           /\ a < b => a * f + f <= b * f
  <1>1. a * f \in Nat /\ b * f \in Nat
    OBVIOUS
  <1>2. (a + 1) * f = a * f + f
    OBVIOUS
  <1>3. ASSUME a < b PROVE a * f + f <= b * f
    <2> DEFINE d == b - (a + 1)
    <2>1. d \in Nat /\ b = (a + 1) + d
      BY <1>3
    <2>2. b * f = (a + 1) * f + d * f
      BY <2>1
    <2>3. d * f \in Nat
      BY <2>1
    <2> QED BY <1>1, <1>2, <2>2, <2>3
  <1> QED BY <1>1, <1>2, <1>3

(* The lengths that setParamsSTA_LTA computes are positive.                *)
LEMMA LengthsType ==
    /\ lengthLTA \in Nat \ {0}
    /\ preEvent \in Nat \ {0}
    /\ postEvent \in Nat \ {0}
  <1>1. /\ 0 * freq = 0
        /\ freq \in Nat \ {0}
    BY EventDetectorAssumption
  <1>2. 0 * freq + freq <= lengthLTA /\ lengthLTA \in Nat
    BY BlocksOrder, EventDetectorAssumption, 0 < ltaSeconds DEF lengthLTA
  <1>3. 0 * freq + freq <= preEvent /\ preEvent \in Nat
    BY BlocksOrder, EventDetectorAssumption, 0 < preSeconds DEF preEvent
  <1>4. 0 * freq + freq <= postEvent /\ postEvent \in Nat
    BY BlocksOrder, EventDetectorAssumption, 0 < postSeconds DEF postEvent
  <1> QED BY <1>1, <1>2, <1>3, <1>4

(* A remainder is a natural number below the divisor.                      *)
LEMMA Remainder ==
    ASSUME NEW a \in Int, NEW d \in Nat \ {0}
    PROVE  a % d \in 0 .. d - 1
  OBVIOUS

-----------------------------------------------------------------------------
(* The type invariant.                                                      *)

(* What checkMinimunDuration leaves in event->time is a time.              *)
LEMMA StartTimeType ==
    ASSUME NEW s \in Nat, NEW e \in Nat, NEW t \in Nat
    PROVE  StartTime(s, e, t) \in Nat
  BY EventDetectorAssumption DEF StartTime

(* A reading of a time is a natural number.                                *)
LEMMA ReadingsType ==
    ASSUME NEW t \in Nat
    PROVE  Readings(t) \subseteq Nat
  BY EventDetectorAssumption DEF Readings

(* The pre-event register only grows.                                      *)
LEMMA AddSamplesType ==
    ASSUME NEW c \in Nat, NEW n \in Nat
    PROVE  AddSamplesPreEvent(c, n) \in Nat
  BY DEF AddSamplesPreEvent

LEMMA RefillType ==
    ASSUME TypeOK
    PROVE  RefillAfterSave \in Nat
  <1> DEFINE c == countPreEvent
             p == countPostEvent
             e == countEventSamples
             tail == IF e >= c - p THEN c - p ELSE e
             refilled == IF p >= c THEN AddSamplesPreEvent(c, c)
                         ELSE AddSamplesPreEvent(AddSamplesPreEvent(c, tail), p)
  <1>1. c \in Nat /\ p \in Nat /\ e \in Nat
    BY LengthsType, EventDetectorAssumption DEF TypeOK
  <1>2. e % freq \in Nat
    BY <1>1, Remainder, EventDetectorAssumption
  <1>3. p < c => tail \in Nat
    BY <1>1
  <1>4. refilled \in Nat
    <2>1. CASE p >= c
      BY <1>1, <2>1 DEF AddSamplesPreEvent
    <2>2. CASE p < c
      <3>1. tail \in Nat
        BY <1>3, <2>2
      <3> HIDE DEF tail
      <3>2. AddSamplesPreEvent(c, tail) \in Nat
        BY <1>1, <3>1, AddSamplesType
      <3>3. AddSamplesPreEvent(AddSamplesPreEvent(c, tail), p) \in Nat
        BY <1>1, <3>2, AddSamplesType
      <3> QED BY <1>1, <2>2, <3>3 DEF tail
    <2> QED BY <1>1, <2>1, <2>2
  <1>5. RefillAfterSave = AddSamplesPreEvent(refilled, e % freq)
    BY DEF RefillAfterSave
  <1> QED BY <1>2, <1>4, <1>5, AddSamplesType

LEMMA InitTypeOK == Init => TypeOK
  BY LengthsType, EventDetectorAssumption DEF Init, TypeOK

LEMMA NextTypeOK == TypeOK /\ [Next]_vars => TypeOK'
  <1> SUFFICES ASSUME TypeOK, [Next]_vars PROVE TypeOK'
    OBVIOUS
  <1> USE LengthsType, EventDetectorAssumption
  <1>1. CASE FillSample
    <2>1. countPreEvent' \in Nat
      BY <1>1, AddSamplesType DEF FillSample, TypeOK
    <2> QED BY <1>1, <2>1 DEF FillSample, Sampling, TypeOK, flags, time
  <1>2. CASE PendingSample
    BY <1>2 DEF PendingSample, Detecting, Sampling, TypeOK, flags, time
  <1>3. CASE PostSample
    BY <1>3 DEF PostSample, Closing, Detecting, Sampling, TypeOK, flags, time
  <1>4. CASE PostComplete
    BY <1>4 DEF PostComplete, Closing, Detecting, Sampling, TypeOK, flags, time
  <1>5. CASE QuietSample
    <2>1. countPreEvent' \in Nat
      BY <1>5, AddSamplesType DEF QuietSample, TypeOK
    <2> QED BY <1>5, <2>1 DEF QuietSample, Listening, Detecting, Sampling, TypeOK
  <1>6. CASE Trigger
    <2>1. countPreEvent' \in Nat
      BY <1>6, AddSamplesType DEF Trigger, TypeOK
    <2> QED BY <1>6, <2>1 DEF Trigger, Listening, Detecting, Sampling, TypeOK
  <1>7. CASE TriggerWhenFull
    <2>1. countPreEvent' \in Nat
      BY <1>7, AddSamplesType DEF TriggerWhenFull, TypeOK
    <2>2. startTime' \in Nat
      <3>1. PICK r \in Readings(label), e \in Readings(label) :
                   startTime' = StartTime(r, e, label)
        BY <1>7 DEF TriggerWhenFull
      <3>2. label \in Nat /\ r \in Nat /\ e \in Nat
        BY ReadingsType DEF TypeOK
      <3> QED BY <3>1, <3>2, StartTimeType
    <2> QED BY <1>7, <2>1, <2>2 DEF TriggerWhenFull, Listening, Detecting, Sampling, TypeOK
  <1>8. CASE RecordSample
    BY <1>8 DEF RecordSample, Listening, Detecting, Sampling, TypeOK
  <1>9. CASE Overrun
    <2>1. startTime' \in Nat
      BY <1>9, ReadingsType, StartTimeType DEF Overrun, Listening, TypeOK
    <2> QED BY <1>9, <2>1 DEF Overrun, Listening, Detecting, Sampling, TypeOK
  <1>10. CASE CloseEvent
    <2>1. startTime' \in Nat
      BY <1>10, ReadingsType, StartTimeType DEF CloseEvent, Listening, TypeOK
    <2> QED BY <1>10, <2>1 DEF CloseEvent, Listening, Detecting, Sampling, TypeOK
  <1>11. CASE DiscardEvent
    <2>1. countPreEvent' \in Nat
      BY <1>11 DEF DiscardEvent, AddSamplesPreEvent, TypeOK
    <2> QED BY <1>11, <2>1 DEF DiscardEvent, Listening, Detecting, Sampling, TypeOK
  <1>12. ASSUME NewBlock
         PROVE  /\ label' \in 0 .. DaySeconds - 1
                /\ elapsed' \in Int
                /\ count' \in 0 .. freq
    <2>1. PICK d \in LabelSteps : /\ label' = (label + d) % DaySeconds
                                  /\ elapsed' = IF EVENT_ON = 1 THEN elapsed + d ELSE 0
      BY <1>12 DEF NewBlock
    <2>2. d \in Int /\ label + d \in Int
      BY <2>1 DEF TypeOK
    <2>3. (label + d) % DaySeconds \in 0 .. DaySeconds - 1
      BY <2>2, Remainder
    <2> QED BY <1>12, <2>1, <2>2, <2>3 DEF NewBlock, TypeOK
  <1>13. CASE NextBlock
    BY <1>12, <1>13 DEF NextBlock, NewBlock, TypeOK
  <1>14. CASE SaveEvent
    BY <1>12, <1>14, RefillType DEF SaveEvent, NewBlock, TypeOK
  <1>15. CASE UNCHANGED vars
    BY <1>15 DEF vars, flags, time, TypeOK
  <1> QED BY <1>1, <1>2, <1>3, <1>4, <1>5, <1>6, <1>7, <1>8, <1>9, <1>10,
             <1>11, <1>13, <1>14, <1>15 DEF Next

(* The counters stay within their arrays whatever the options are; for     *)
(* eventSamples this is the array bound of the C code.                     *)
THEOREM TypeCorrect == Spec => []TypeOK
  BY InitTypeOK, NextTypeOK, PTL DEF Spec

-----------------------------------------------------------------------------
(* What the flags and the buffers say of each other.  ModesExclusive is     *)
(* inductive given the types; the file's contents follow from the order     *)
(* PostSample*, PostComplete, SaveEvent.                                    *)
ModeInv ==
    /\ TypeOK
    /\ ModesExclusive
    /\ OnlyOverrunsStrand
    /\ isPendingSaveEvent = 1 => countPostEvent = postEvent

LEMMA InitModeInv == Init => ModeInv
  BY InitTypeOK DEF Init, ModeInv, ModesExclusive, OnlyOverrunsStrand

LEMMA NextModeInv == ModeInv /\ [Next]_vars => ModeInv'
  <1> SUFFICES ASSUME ModeInv, [Next]_vars PROVE ModeInv'
    OBVIOUS
  <1> USE LengthsType, EventDetectorAssumption
  <1>1. TypeOK /\ TypeOK'
    BY NextTypeOK DEF ModeInv
  <1> USE <1>1 DEF ModeInv, ModesExclusive, OnlyOverrunsStrand, TypeOK
  <1>2. CASE FillSample
    BY <1>2 DEF FillSample, Sampling, flags, time
  <1>3. CASE PendingSample
    BY <1>3 DEF PendingSample, Detecting, Sampling, flags, time
  <1>4. CASE PostSample
    BY <1>4 DEF PostSample, Closing, Detecting, Sampling, flags, time
  <1>5. CASE PostComplete
    BY <1>5 DEF PostComplete, Closing, Detecting, Sampling, flags, time
  <1>6. CASE QuietSample
    BY <1>6 DEF QuietSample, Listening, Detecting, Sampling, flags, time
  <1>7. CASE Trigger
    BY <1>7 DEF Trigger, Listening, Detecting, Sampling, flags, time
  <1>8. CASE TriggerWhenFull
    BY <1>8 DEF TriggerWhenFull, Listening, Detecting, Sampling, flags, time
  <1>9. CASE RecordSample
    BY <1>9 DEF RecordSample, Listening, Detecting, Sampling, flags, time
  <1>10. CASE Overrun
    BY <1>10 DEF Overrun, Listening, Detecting, Sampling, flags, time
  <1>11. CASE CloseEvent
    BY <1>11 DEF CloseEvent, Listening, Detecting, Sampling, flags, time
  <1>12. CASE DiscardEvent
    BY <1>12 DEF DiscardEvent, Listening, Detecting, Sampling, flags, time
  <1>13. CASE NextBlock
    BY <1>13 DEF NextBlock, NewBlock, flags, time
  <1>14. CASE SaveEvent
    BY <1>14 DEF SaveEvent, NewBlock, flags, time
  <1>15. CASE UNCHANGED vars
    BY <1>15 DEF vars, flags, time
  <1> QED BY <1>2, <1>3, <1>4, <1>5, <1>6, <1>7, <1>8, <1>9, <1>10, <1>11,
             <1>12, <1>13, <1>14, <1>15 DEF Next

THEOREM ModeInvariant == Spec => []ModeInv
  BY InitModeInv, NextModeInv, PTL DEF Spec

(* At most one of recording, following and saving is under way.            *)
THEOREM ModesAreExclusive == Spec => []ModesExclusive
  <1>1. ModeInv => ModesExclusive
    BY DEF ModeInv
  <1> QED BY <1>1, ModeInvariant, PTL

(* Only an overrun leaves samples behind in eventSamples.                  *)
THEOREM OnlyOverrunsDo == Spec => []OnlyOverrunsStrand
  <1>1. ModeInv => OnlyOverrunsStrand
    BY DEF ModeInv
  <1> QED BY <1>1, ModeInvariant, PTL

-----------------------------------------------------------------------------
(* The pre-event register.  While the window fills, k blocks are through   *)
(* and both counters are what k whole blocks make them; afterwards the     *)
(* register is full and AddSamplesPreEvent only shifts it.                 *)
RegisterAfter(k) == IF k < preSeconds THEN k * freq ELSE preEvent

Filling(k) ==
    /\ countTempData = k * freq + count
    /\ countPreEvent = RegisterAfter(IF count = freq THEN k + 1 ELSE k)

PreInv ==
    preSeconds <= ltaSeconds =>
        IF countTempData = lengthLTA THEN countPreEvent = preEvent
        ELSE \E k \in 0 .. ltaSeconds - 1 : Filling(k)

(* Adding one more block takes the register from k blocks to k + 1.        *)
LEMMA RegisterStep ==
    ASSUME NEW k \in Nat
    PROVE  AddSamplesPreEvent(RegisterAfter(k), freq) = RegisterAfter(k + 1)
  <1>1. CASE k < preSeconds
    <2>1. k * freq + freq <= preSeconds * freq /\ (k + 1) * freq = k * freq + freq
          /\ k * freq \in Nat
      BY <1>1, BlocksOrder, EventDetectorAssumption
    <2>2. RegisterAfter(k) = k * freq /\ k * freq # preEvent
      BY <1>1, <2>1, LengthsType, EventDetectorAssumption DEF RegisterAfter, preEvent
    <2>3. RegisterAfter(k + 1) = (k + 1) * freq
      <3>1. CASE k + 1 < preSeconds
        BY <3>1 DEF RegisterAfter
      <3>2. CASE ~(k + 1 < preSeconds)
        <4>1. k + 1 = preSeconds
          BY <1>1, <3>2, EventDetectorAssumption
        <4> QED BY <3>2, <4>1 DEF RegisterAfter, preEvent
      <3> QED BY <3>1, <3>2
    <2> QED BY <2>1, <2>2, <2>3 DEF AddSamplesPreEvent
  <1>2. CASE ~(k < preSeconds)
    <2>1. ~(k + 1 < preSeconds)
      BY <1>2, EventDetectorAssumption
    <2> QED BY <1>2, <2>1 DEF AddSamplesPreEvent, RegisterAfter
  <1> QED BY <1>1, <1>2

LEMMA InitPreInv == Init => PreInv
  <1> SUFFICES ASSUME Init, preSeconds <= ltaSeconds,
                      countTempData # lengthLTA
               PROVE  Filling(0)
    BY LengthsType, EventDetectorAssumption DEF Init, PreInv
  <1>1. 0 * freq = 0
    BY EventDetectorAssumption
  <1> QED BY <1>1, EventDetectorAssumption DEF Init, Filling, RegisterAfter

(* A sample of the window: the register changes with the last one of the   *)
(* block, and the window is full only then.                                *)
LEMMA FillPreInv == TypeOK /\ PreInv /\ FillSample => PreInv'
  <1> SUFFICES ASSUME TypeOK, PreInv, FillSample, preSeconds <= ltaSeconds
               PROVE  PreInv'
    BY DEF PreInv
  <1> USE LengthsType, EventDetectorAssumption
  <1>1. PICK k \in 0 .. ltaSeconds - 1 : Filling(k)
    BY DEF PreInv, FillSample
  <1>2. /\ k \in Nat
        /\ k * freq \in Nat
        /\ count \in 0 .. freq - 1
        /\ count' = count + 1
        /\ countTempData' = k * freq + count'
        /\ countPreEvent = RegisterAfter(k)
    <2>1. k * freq \in Nat
      BY BlocksOrder
    <2> QED BY <1>1, <2>1 DEF FillSample, Sampling, Filling, TypeOK
  <1>3. countPreEvent' = RegisterAfter(IF count' = freq THEN k + 1 ELSE k)
    <2>1. CASE count = freq - 1
      BY <1>2, <2>1, RegisterStep DEF FillSample, LastOfBlock
    <2>2. CASE count # freq - 1
      BY <1>2, <2>2 DEF FillSample, LastOfBlock
    <2> QED BY <2>1, <2>2
  <1>4. CASE countTempData' # lengthLTA
    BY <1>2, <1>3, <1>4 DEF PreInv, Filling
  <1>5. CASE countTempData' = lengthLTA
    <2>1. k * freq + freq <= lengthLTA
      BY <1>2, BlocksOrder DEF lengthLTA
    <2>2. count' = freq /\ (k + 1) * freq = lengthLTA
      <3>1. (k + 1) * freq = k * freq + freq
        BY <1>2, BlocksOrder
      <3> QED BY <1>2, <1>5, <2>1, <3>1
    <2>3. k + 1 = ltaSeconds
      <3>1. k + 1 < ltaSeconds => (k + 1) * freq + freq <= lengthLTA
        BY <1>2, BlocksOrder DEF lengthLTA
      <3> QED BY <2>2, <3>1
    <2>4. countPreEvent' = RegisterAfter(ltaSeconds)
      BY <1>3, <2>2, <2>3
    <2> QED BY <1>5, <2>4 DEF PreInv, RegisterAfter
  <1> QED BY <1>4, <1>5

LEMMA NextPreInv == ModeInv /\ PreInv /\ [Next]_vars => PreInv'
  <1> SUFFICES ASSUME ModeInv, PreInv, [Next]_vars, preSeconds <= ltaSeconds
               PROVE  PreInv'
    BY DEF PreInv
  <1>0. TypeOK
    BY DEF ModeInv
  <1> USE LengthsType, EventDetectorAssumption
  <1>1. CASE FillSample
    BY <1>0, <1>1, FillPreInv
  <1>2. CASE PendingSample
    BY <1>2 DEF PendingSample, Detecting, Sampling, PreInv
  <1>3. CASE PostSample
    BY <1>3 DEF PostSample, Closing, Detecting, Sampling, PreInv
  <1>4. CASE PostComplete
    BY <1>4 DEF PostComplete, Closing, Detecting, Sampling, PreInv
  <1>5. CASE QuietSample
    BY <1>5 DEF QuietSample, Listening, Detecting, Sampling, AddSamplesPreEvent, PreInv
  <1>6. CASE Trigger
    BY <1>6 DEF Trigger, Listening, Detecting, Sampling, AddSamplesPreEvent, PreInv
  <1>7. CASE TriggerWhenFull
    BY <1>7 DEF TriggerWhenFull, Listening, Detecting, Sampling, AddSamplesPreEvent, PreInv
  <1>8. CASE RecordSample
    BY <1>8 DEF RecordSample, Listening, Detecting, Sampling, PreInv
  <1>9. CASE Overrun
    BY <1>9 DEF Overrun, Listening, Detecting, Sampling, PreInv
  <1>10. CASE CloseEvent
    BY <1>10 DEF CloseEvent, Listening, Detecting, Sampling, PreInv
  <1>11. CASE DiscardEvent
    BY <1>11 DEF DiscardEvent, Listening, Detecting, Sampling, AddSamplesPreEvent, PreInv
  <1>12. ASSUME NewBlock, countTempData # lengthLTA, UNCHANGED countPreEvent
         PROVE  PreInv'
    <2>1. PICK k \in 0 .. ltaSeconds - 1 : Filling(k)
      BY <1>12 DEF PreInv
    <2>2. /\ k \in Nat
          /\ k * freq \in Nat
          /\ (k + 1) * freq = k * freq + freq
          /\ countTempData' = (k + 1) * freq + count'
          /\ countPreEvent' = RegisterAfter(k + 1)
          /\ count' = 0
      BY <1>12, <2>1, BlocksOrder DEF Filling, NewBlock
    <2>3. k + 1 # ltaSeconds
      BY <1>12, <2>2 DEF NewBlock, lengthLTA
    <2>4. Filling(k + 1)'
      BY <2>2 DEF Filling, RegisterAfter
    <2> QED BY <1>12, <2>1, <2>3, <2>4 DEF PreInv, NewBlock
  <1>13. CASE NextBlock
    <2>1. CASE countTempData = lengthLTA
      BY <1>13, <2>1 DEF NextBlock, NewBlock, PreInv
    <2> QED BY <1>12, <1>13, <2>1 DEF NextBlock
  <1>14. CASE SaveEvent
    <2>1. countTempData = lengthLTA
      BY <1>0, <1>14 DEF SaveEvent, ModeInv, ModesExclusive, TypeOK
    <2>2. countPreEvent = preEvent
      BY <2>1 DEF PreInv
    <2>3. RefillAfterSave = preEvent
      BY <2>2 DEF RefillAfterSave, AddSamplesPreEvent
    <2> QED BY <1>14, <2>1, <2>3 DEF SaveEvent, NewBlock, PreInv
  <1>15. CASE UNCHANGED vars
    BY <1>15 DEF vars, flags, time, PreInv, Filling
  <1> QED BY <1>1, <1>2, <1>3, <1>4, <1>5, <1>6, <1>7, <1>8, <1>9, <1>10,
             <1>11, <1>13, <1>14, <1>15 DEF Next

DetectorInv == ModeInv /\ PreInv

THEOREM DetectorInvariant == Spec => []DetectorInv
  <1>1. Init => DetectorInv
    BY InitModeInv, InitPreInv DEF DetectorInv
  <1>2. DetectorInv /\ [Next]_vars => DetectorInv'
    BY NextModeInv, NextPreInv DEF DetectorInv
  <1> QED BY <1>1, <1>2, PTL DEF Spec

LEMMA DetectorInvFits == DetectorInv => PreEventFits
  <1> SUFFICES ASSUME DetectorInv, preSeconds <= ltaSeconds
               PROVE  /\ countPreEvent <= preEvent
                      /\ countTempData = lengthLTA => countPreEvent = preEvent
    BY DEF PreEventFits
  <1> USE LengthsType, EventDetectorAssumption
  <1>1. CASE countTempData = lengthLTA
    BY <1>1 DEF DetectorInv, PreInv
  <1>2. CASE countTempData # lengthLTA
    <2>1. PICK k \in Nat : countPreEvent = RegisterAfter(k)
      BY <1>2 DEF DetectorInv, PreInv, Filling
    <2>2. RegisterAfter(k) <= preEvent
      BY BlocksOrder DEF RegisterAfter, preEvent
    <2> QED BY <1>2, <2>1, <2>2
  <1> QED BY <1>1, <1>2

(* The pre-event register never outgrows its length and is full before the *)
(* first trigger, if -b does not exceed -l.                                 *)
THEOREM PreEventAlwaysFits == Spec => []PreEventFits
  BY DetectorInvariant, DetectorInvFits, PTL

(* A file is written with the whole of all three of its parts.             *)
THEOREM FilesAreComplete == Spec => []PendingIsComplete
  <1>1. DetectorInv => PendingIsComplete
    <2> SUFFICES ASSUME DetectorInv, isPendingSaveEvent = 1
                 PROVE  /\ preSeconds <= ltaSeconds => countPreEvent = preEvent
                        /\ countPostEvent = postEvent
                        /\ countEventSamples \in 1 .. MAX_LENGTH_EVENT
      BY DEF PendingIsComplete
    <2> USE LengthsType, EventDetectorAssumption
    <2>1. /\ countEventSamples \in 1 .. MAX_LENGTH_EVENT
          /\ countTempData = lengthLTA
          /\ countPostEvent = postEvent
      BY DEF DetectorInv, ModeInv, ModesExclusive, TypeOK
    <2> QED BY <2>1, DetectorInvFits DEF PreEventFits
  <1> QED BY <1>1, DetectorInvariant, PTL

-----------------------------------------------------------------------------
(* Durations.  When getSeconds reads what it is given and labels do not go *)
(* back, the labels have advanced since the trigger by at least what       *)
(* checkMinimunDuration computes: a midnight in between only makes that    *)
(* difference smaller.                                                     *)
ElapsedInv == EVENT_ON = 1 => elapsed >= label - startTime

(* A remainder does not exceed what it is the remainder of.                *)
LEMMA RemainderAtMost ==
    ASSUME NEW a \in Nat, NEW d \in Nat \ {0}
    PROVE  a % d <= a
  OBVIOUS

THEOREM KeptEventsLast ==
    ASSUME Skews = {0}, LabelSteps \subseteq Nat
    PROVE  Spec => KeptEventsLasted
  <1> USE EventDetectorAssumption
  <1>1. Init => ElapsedInv
    BY DEF Init, ElapsedInv
  <1>2. ModeInv /\ ElapsedInv /\ [Next]_vars => ElapsedInv'
    <2> SUFFICES ASSUME ModeInv, ElapsedInv, [Next]_vars, EVENT_ON' = 1
                 PROVE  elapsed' >= label' - startTime'
      BY DEF ElapsedInv
    <2>0. TypeOK
      BY DEF ModeInv
    <2>1. CASE Trigger
      BY <2>0, <2>1 DEF Trigger, Listening, TypeOK
    <2>2. CASE RecordSample
      BY <2>2 DEF RecordSample, Listening, ElapsedInv
    <2>3. ASSUME NewBlock PROVE elapsed' >= label' - startTime'
      <3>1. PICK d \in LabelSteps : /\ label' = (label + d) % DaySeconds
                                    /\ elapsed' = IF EVENT_ON = 1 THEN elapsed + d ELSE 0
        BY <2>3 DEF NewBlock
      <3>2. label \in Nat /\ d \in Nat /\ label + d \in Nat /\ startTime \in Nat /\ elapsed \in Int
        BY <2>0, <3>1 DEF TypeOK
      <3>3. label' <= label + d /\ label' \in Int
        <4>1. (label + d) % DaySeconds <= label + d
          BY <3>2, RemainderAtMost
        <4>2. (label + d) % DaySeconds \in Int
          BY <3>2, Remainder
        <4> QED BY <3>1, <4>1, <4>2
      <3>4. EVENT_ON = 1 /\ startTime' = startTime
        BY <2>3 DEF NewBlock
      <3> QED BY <3>1, <3>2, <3>3, <3>4 DEF ElapsedInv
    <2>4. CASE FillSample \/ PendingSample \/ PostSample \/ PostComplete
      BY <2>4 DEF FillSample, PendingSample, PostSample, PostComplete, Closing,
                  Detecting, flags, time, ElapsedInv
    <2>5. CASE QuietSample \/ TriggerWhenFull
      BY <2>5 DEF QuietSample, TriggerWhenFull
    <2>6. CASE Overrun \/ CloseEvent \/ DiscardEvent
      BY <2>6 DEF Overrun, CloseEvent, DiscardEvent
    <2>7. CASE UNCHANGED vars
      BY <2>7 DEF vars, flags, time, ElapsedInv
    <2> QED BY <2>1, <2>2, <2>3, <2>4, <2>5, <2>6, <2>7
            DEF Next, NextBlock, SaveEvent
  <1>3. ModeInv /\ ElapsedInv /\ [Next]_vars
          => [Closes => elapsed >= minimunDurationSeconds]_vars
    <2> SUFFICES ASSUME ModeInv, ElapsedInv, [Next]_vars, Closes
                 PROVE  elapsed >= minimunDurationSeconds
      OBVIOUS
    <2>1. CloseEvent
      BY DEF Next, Closes, FillSample, PendingSample, PostSample, PostComplete,
             QuietSample, Trigger, TriggerWhenFull, RecordSample, Overrun,
             DiscardEvent, NextBlock, SaveEvent, NewBlock, Closing, flags, vars
    <2>2. EVENT_ON = 1 /\ label - startTime >= minimunDurationSeconds
      BY <2>1 DEF CloseEvent, Readings, LongEnough, ModeInv, TypeOK
    <2> QED BY <2>2 DEF ElapsedInv, ModeInv, TypeOK
  <1> QED BY <1>1, <1>2, <1>3, ModeInvariant, PTL DEF Spec, KeptEventsLasted

-----------------------------------------------------------------------------
(* How long a recording can be.  It has room for MAX_LENGTH_EVENT samples,  *)
(* so it sees a bounded number of blocks, and if the labels of so many     *)
(* blocks stay within a day the difference that checkMinimunDuration       *)
(* computes is the time elapsed, unless midnight lies in between.          *)
EventsEndWithin(S) ==
    /\ LabelSteps \subseteq 0 .. S
    /\ \A n \in Nat : n * freq < MAX_LENGTH_EVENT + freq => n * S < DaySeconds

EventsEndWithinADay == \E S \in Nat : EventsEndWithin(S)

(* The event has begun c samples into a block, n blocks ago.               *)
Begun(S, n, c) ==
    /\ countEventSamples + c = n * freq + count
    /\ elapsed \in Nat
    /\ elapsed <= n * S
    /\ LabelSteps = {1} => elapsed = n

(* The label is the time of the trigger and what has elapsed since then.   *)
SameDayOrNext ==
    /\ startTime < DaySeconds
    /\ elapsed < DaySeconds
    /\ label = startTime + elapsed \/ label = (startTime + elapsed) - DaySeconds

SpanInv(S) ==
    EVENT_ON = 1 => /\ \E n \in Nat, c \in 0 .. freq - 1 : Begun(S, n, c)
                    /\ SameDayOrNext

(* Below twice the divisor a remainder is one subtraction at most.         *)
LEMMA RemainderOnce ==
    ASSUME NEW d \in Nat \ {0}, NEW a \in 0 .. 2 * d - 1
    PROVE  a % d = IF a < d THEN a ELSE a - d
  OBVIOUS

LEMMA ProductOrder ==
    ASSUME NEW f \in Nat, NEW a \in Int, NEW b \in Int, a <= b
    PROVE  /\ a * f \in Int
           /\ b * f \in Int
           /\ a * f <= b * f
  <1> DEFINE d == b - a
  <1>1. d \in Nat /\ b = a + d
    OBVIOUS
  <1>2. b * f = a * f + d * f /\ d * f \in Nat /\ a * f \in Int
    BY <1>1
  <1> QED BY <1>2

(* A new block while the event is on: one block and one label more.        *)
LEMMA BlockSpans ==
    ASSUME NEW S \in Nat, EventsEndWithin(S), ModeInv, SpanInv(S),
           NewBlock, EVENT_ON = 1,
           countEventSamples' = countEventSamples
    PROVE  SpanInv(S)'
  <1> USE EventDetectorAssumption
  <1>1. PICK n \in Nat, c \in 0 .. freq - 1 : Begun(S, n, c)
    BY DEF SpanInv
  <1>2. PICK d \in LabelSteps : /\ label' = (label + d) % DaySeconds
                                /\ elapsed' = elapsed + d
    BY DEF NewBlock
  <1>3. /\ d \in 0 .. S
        /\ count = freq /\ count' = 0
        /\ EVENT_ON' = 1
        /\ startTime' = startTime
        /\ countEventSamples \in 0 .. MAX_LENGTH_EVENT
        /\ label \in 0 .. DaySeconds - 1
        /\ startTime \in Nat
        /\ elapsed \in Nat
    BY <1>1 DEF EventsEndWithin, NewBlock, ModeInv, TypeOK, Begun
  <1>4. /\ n * freq \in Nat
        /\ (n + 1) * freq = n * freq + freq
        /\ (n + 1) * S = n * S + S
        /\ n * S \in Nat
    BY BlocksOrder
  <1>5. countEventSamples' + c = (n + 1) * freq + count'
    BY <1>1, <1>3, <1>4 DEF Begun
  <1>6. elapsed' \in Nat /\ elapsed' <= (n + 1) * S
    BY <1>1, <1>2, <1>3, <1>4 DEF Begun
  <1>7. LabelSteps = {1} => elapsed' = n + 1
    BY <1>1, <1>2 DEF Begun
  <1>8. elapsed' < DaySeconds
    <2>1. (n + 1) * freq < MAX_LENGTH_EVENT + freq
      BY <1>3, <1>4, <1>5
    <2>2. (n + 1) * S < DaySeconds
      <3>1. \A k \in Nat : k * freq < MAX_LENGTH_EVENT + freq => k * S < DaySeconds
        BY DEF EventsEndWithin
      <3>2. n + 1 \in Nat
        OBVIOUS
      <3> QED BY <2>1, <3>1, <3>2, Zenon
    <2>3. (n + 1) * S \in Nat
      BY <1>4
    <2> QED BY <1>6, <2>2, <2>3
  <1>9. Begun(S, n + 1, c)'
    BY <1>5, <1>6, <1>7 DEF Begun
  <1>10. SameDayOrNext'
    <2>1. label + d \in 0 .. 2 * DaySeconds - 1
      BY <1>2, <1>3, <1>8
    <2>2. label' = IF label + d < DaySeconds THEN label + d ELSE (label + d) - DaySeconds
      BY <1>2, <2>1, RemainderOnce
    <2>3. /\ startTime < DaySeconds
          /\ label = startTime + elapsed \/ label = (startTime + elapsed) - DaySeconds
      BY DEF SpanInv, SameDayOrNext
    <2>4. label' = startTime + elapsed' \/ label' = (startTime + elapsed') - DaySeconds
      BY <1>2, <1>3, <1>8, <2>2, <2>3
    <2> QED BY <1>3, <1>8, <2>3, <2>4 DEF SameDayOrNext
  <1> QED BY <1>3, <1>9, <1>10 DEF SpanInv

LEMMA InitSpanInv == ASSUME NEW S PROVE Init => SpanInv(S)
  BY DEF Init, SpanInv

LEMMA NextSpanInv ==
    ASSUME NEW S \in Nat, EventsEndWithin(S)
    PROVE  ModeInv /\ SpanInv(S) /\ [Next]_vars => SpanInv(S)'
  <1> SUFFICES ASSUME ModeInv, SpanInv(S), [Next]_vars, EVENT_ON' = 1
               PROVE  SpanInv(S)'
    BY DEF SpanInv
  <1> USE EventDetectorAssumption
  <1>0. TypeOK
    BY DEF ModeInv
  <1>1. CASE Trigger
    <2>1. countEventSamples = 0
      BY <1>0, <1>1 DEF Trigger, Listening, ModeInv, OnlyOverrunsStrand, TypeOK
    <2>2. /\ count \in 0 .. freq - 1
          /\ count' = count + 1
          /\ countEventSamples' = 1
          /\ elapsed' = 0
          /\ startTime' = label
          /\ label' = label
          /\ label \in 0 .. DaySeconds - 1
      BY <1>0, <1>1, <2>1 DEF Trigger, Listening, Detecting, Sampling, TypeOK
    <2>3. 0 * freq = 0 /\ 0 * S = 0
      OBVIOUS
    <2>4. PICK c \in 0 .. freq - 1 : c = count
      BY <2>2
    <2>5. Begun(S, 0, c)'
      <3>1. countEventSamples' + c = 0 * freq + count'
        BY <2>2, <2>3, <2>4
      <3>2. elapsed' <= 0 * S
        BY <2>2, <2>3
      <3> QED BY <2>2, <3>1, <3>2 DEF Begun
    <2>6. SameDayOrNext'
      BY <2>2 DEF SameDayOrNext
    <2> QED BY <2>5, <2>6 DEF SpanInv
  <1>2. CASE RecordSample
    <2>1. PICK n \in Nat, c \in 0 .. freq - 1 : Begun(S, n, c)
      BY <1>2 DEF RecordSample, SpanInv
    <2>2. n * freq \in Nat
      BY BlocksOrder
    <2>3. /\ countEventSamples' = countEventSamples + 1
          /\ count' = count + 1
          /\ UNCHANGED <<elapsed, startTime, label>>
          /\ countEventSamples \in Nat
          /\ count \in Nat
      BY <1>0, <1>2 DEF RecordSample, Listening, Detecting, Sampling, TypeOK
    <2>4. countEventSamples' + c = n * freq + count'
      BY <2>1, <2>2, <2>3 DEF Begun
    <2>5. Begun(S, n, c)'
      BY <2>1, <2>3, <2>4 DEF Begun
    <2>6. SameDayOrNext'
      BY <1>2, <2>3 DEF RecordSample, SpanInv, SameDayOrNext
    <2> QED BY <2>5, <2>6 DEF SpanInv
  <1>3. CASE FillSample \/ PendingSample \/ PostSample \/ PostComplete
    <2>1. EVENT_ON = 1 /\ UNCHANGED countEventSamples
      BY <1>3 DEF FillSample, PendingSample, PostSample, PostComplete, flags, time
    <2>2. FALSE
      BY <1>0, <1>3, <2>1, LengthsType
         DEF FillSample, PendingSample, PostSample, PostComplete, Closing,
             ModeInv, ModesExclusive, TypeOK
    <2> QED BY <2>2
  <1>4. CASE QuietSample \/ TriggerWhenFull \/ Overrun \/ CloseEvent \/ DiscardEvent
    BY <1>4 DEF QuietSample, TriggerWhenFull, Overrun, CloseEvent, DiscardEvent
  <1>5. CASE NextBlock
    BY <1>5, BlockSpans DEF NextBlock, NewBlock
  <1>6. CASE SaveEvent
    BY <1>0, <1>6 DEF SaveEvent, NewBlock, ModeInv, ModesExclusive, TypeOK
  <1>7. CASE UNCHANGED vars
    BY <1>7 DEF vars, flags, time, SpanInv, Begun, SameDayOrNext
  <1> QED BY <1>1, <1>2, <1>3, <1>4, <1>5, <1>6, <1>7 DEF Next

LEMMA SpanInvariant ==
    ASSUME NEW S \in Nat, EventsEndWithin(S)
    PROVE  Spec => []SpanInv(S)
  BY InitSpanInv, NextSpanInv, ModeInvariant, PTL DEF Spec

(* Only CloseEvent keeps an event, only DiscardEvent drops one.            *)
LEMMA OnlyCloseCloses == [Next]_vars /\ Closes => CloseEvent
  BY DEF Next, Closes, FillSample, PendingSample, PostSample, PostComplete,
         QuietSample, Trigger, TriggerWhenFull, RecordSample, Overrun,
         DiscardEvent, NextBlock, SaveEvent, NewBlock, Closing, flags, vars

LEMMA OnlyDiscardDiscards == ModeInv /\ [Next]_vars /\ Discards => DiscardEvent
  <1> SUFFICES ASSUME ModeInv, [Next]_vars, Discards PROVE DiscardEvent
    OBVIOUS
  <1>1. countEventSamples # 0
    BY DEF Discards, ModeInv, ModesExclusive
  <1> QED BY <1>1 DEF Next, Discards, FillSample, PendingSample, PostSample,
         PostComplete, QuietSample, Trigger, TriggerWhenFull, RecordSample,
         Overrun, CloseEvent, NextBlock, SaveEvent, NewBlock, flags, vars

(* Without skew the decision is that of the difference of the two times,   *)
(* and outside midnight that difference is what has elapsed.               *)
LEMMA DroppedWithinADay ==
    ASSUME NEW S \in Nat, Skews = {0}, ModeInv, SpanInv(S), DiscardEvent,
           ~(label < startTime)
    PROVE  elapsed < minimunDurationSeconds
  <1>1. label - startTime < minimunDurationSeconds /\ EVENT_ON = 1
    BY EventDetectorAssumption DEF DiscardEvent, Readings, LongEnough, ModeInv, TypeOK
  <1>2. SameDayOrNext /\ TypeOK
    BY <1>1 DEF SpanInv, ModeInv
  <1> QED BY <1>1, <1>2, EventDetectorAssumption DEF SameDayOrNext, TypeOK

(* An event longer than the minimum is dropped at midnight or never, as    *)
(* long as an event is over within a day: the buffer sees to that.         *)
THEOREM OnlyMidnightDrops ==
    ASSUME Skews = {0}, EventsEndWithinADay
    PROVE  Spec => OnlyMidnightDropsLongEvents
  <1>1. PICK S \in Nat : EventsEndWithin(S)
    BY DEF EventsEndWithinADay
  <1>2. ModeInv /\ SpanInv(S) /\ [Next]_vars
          => [Discards => elapsed <= minimunDurationSeconds \/ label < startTime]_vars
    BY <1>1, OnlyDiscardDiscards, DroppedWithinADay, EventDetectorAssumption
       DEF ModeInv, TypeOK
  <1>3. Spec => []SpanInv(S)
    BY <1>1, SpanInvariant
  <1> QED BY <1>2, <1>3, ModeInvariant, PTL DEF Spec, OnlyMidnightDropsLongEvents

(* An event of n blocks has more than n - 1 and fewer than n + 1 blocks of *)
(* samples.                                                                *)
LEMMA SamplesOfSpan ==
    ASSUME NEW S \in Nat, NEW m \in Int, TypeOK, LabelSteps = {1},
           NEW n \in Nat, NEW c \in 0 .. freq - 1, Begun(S, n, c)
    PROVE  /\ elapsed >= m => countEventSamples + freq > m * freq + count
           /\ elapsed < m => countEventSamples + freq <= m * freq + count
  <1> USE EventDetectorAssumption
  <1>1. /\ countEventSamples + c = n * freq + count
        /\ elapsed = n
        /\ n * freq \in Int
        /\ countEventSamples \in Nat
        /\ count \in Nat
    BY BlocksOrder DEF Begun, TypeOK
  <1>2. ASSUME m <= n PROVE countEventSamples + freq > m * freq + count
    <2>1. m * freq <= n * freq /\ m * freq \in Int
      BY <1>2, ProductOrder
    <2> QED BY <1>1, <2>1
  <1>3. ASSUME n < m PROVE countEventSamples + freq <= m * freq + count
    <2>1. (n + 1) * freq <= m * freq /\ m * freq \in Int
      BY <1>3, ProductOrder
    <2>2. (n + 1) * freq = n * freq + freq
      BY BlocksOrder
    <2> QED BY <1>1, <2>1, <2>2
  <1> QED BY <1>1, <1>2, <1>3

(* With a label per second, what is kept has more samples than the minimum *)
(* less one second asks for, and what is dropped outside midnight fewer    *)
(* than the minimum.                                                       *)
THEOREM SamplesDecideWithinASecond ==
    ASSUME Skews = {0}, EventsEndWithinADay
    PROVE  Spec => SamplesDecide
  <1> USE EventDetectorAssumption
  <1> DEFINE m == minimunDurationSeconds
             Decides ==
               /\ Closes => countEventSamples > (m - 1) * freq
               /\ Discards => countEventSamples < m * freq \/ label < startTime
  <1>1. PICK S \in Nat : EventsEndWithin(S)
    BY DEF EventsEndWithinADay
  <1>2. ModeInv /\ SpanInv(S) /\ [Next]_vars => [LabelSteps = {1} => Decides]_vars
    <2> SUFFICES ASSUME ModeInv, SpanInv(S), [Next]_vars, LabelSteps = {1}
                 PROVE  Decides
      OBVIOUS
    <2>1. TypeOK /\ m * freq \in Int /\ (m - 1) * freq = m * freq - freq
      BY DEF ModeInv
    <2>2. ASSUME EVENT_ON = 1, count < freq
          PROVE  /\ elapsed >= m => countEventSamples > (m - 1) * freq
                 /\ elapsed < m => countEventSamples < m * freq
      <3>1. PICK n \in Nat, c \in 0 .. freq - 1 : Begun(S, n, c)
        BY <2>2 DEF SpanInv
      <3>2. /\ elapsed >= m => countEventSamples + freq > m * freq + count
            /\ elapsed < m => countEventSamples + freq <= m * freq + count
        BY <2>1, <3>1, SamplesOfSpan
      <3> QED BY <2>1, <2>2, <3>2 DEF TypeOK
    <2>3. ASSUME Closes PROVE countEventSamples > (m - 1) * freq
      <3>1. CloseEvent
        BY <2>3, OnlyCloseCloses
      <3>2. EVENT_ON = 1 /\ count < freq /\ label - startTime >= m
        BY <2>1, <3>1 DEF CloseEvent, Listening, Detecting, Sampling, Readings, LongEnough, TypeOK
      <3>3. elapsed >= m
        BY <2>1, <3>2 DEF SpanInv, SameDayOrNext, TypeOK
      <3> QED BY <2>2, <3>2, <3>3
    <2>4. ASSUME Discards, ~(label < startTime) PROVE countEventSamples < m * freq
      <3>1. DiscardEvent
        BY <2>4, OnlyDiscardDiscards
      <3>2. EVENT_ON = 1 /\ count < freq
        BY <3>1 DEF DiscardEvent, Listening, Detecting, Sampling
      <3>3. elapsed < m
        BY <2>4, <3>1, DroppedWithinADay
      <3> QED BY <2>2, <3>2, <3>3
    <2> QED BY <2>3, <2>4
  <1>3. Spec => []SpanInv(S)
    BY <1>1, SpanInvariant
  <1> QED BY <1>2, <1>3, ModeInvariant, PTL DEF Spec, SamplesDecide

-----------------------------------------------------------------------------
(* The detector implements EventLifecycle: every action is one of its      *)
(* steps or none.                                                          *)
PhaseIs(p) ==
    /\ countTempData # lengthLTA => p = "warmup"
    /\ countTempData = lengthLTA =>
         /\ isPendingSaveEvent = 1 => p = "pending"
         /\ isPendingSaveEvent # 1 /\ isEnableAddPostEvent = 1 => p = "closing"
         /\ isPendingSaveEvent # 1 /\ isEnableAddPostEvent # 1 =>
              /\ EVENT_ON = 1 => p = "recording"
              /\ EVENT_ON # 1 /\ countEventSamples > 0 => p = "lost"
              /\ EVENT_ON # 1 /\ ~(countEventSamples > 0) => p = "listening"

LEMMA PhaseValue == PhaseIs(phase)
  BY DEF phase, PhaseIs

LEMMA LifecycleStep ==
    ModeInv /\ ModeInv' /\ PhaseIs(phase) /\ PhaseIs(phase)' /\ [Next]_vars
        => [Lifecycle!Next]_(Lifecycle!lvars)
  <1> SUFFICES ASSUME ModeInv, ModeInv', PhaseIs(phase), PhaseIs(phase)', [Next]_vars
               PROVE  Lifecycle!Next \/ UNCHANGED Lifecycle!lvars
    OBVIOUS
  <1> USE LengthsType, EventDetectorAssumption
  <1>0. /\ TypeOK /\ TypeOK'
        /\ ModesExclusive /\ ModesExclusive'
        /\ OnlyOverrunsStrand
    BY DEF ModeInv
  <1> USE <1>0 DEF TypeOK, ModesExclusive, OnlyOverrunsStrand
  <1>1. CASE FillSample
    BY <1>1 DEF FillSample, Sampling, flags, time, PhaseIs, Lifecycle!lvars, Lifecycle!Next, Lifecycle!WarmedUp
  <1>2. CASE PendingSample
    BY <1>2 DEF PendingSample, Detecting, Sampling, flags, time, PhaseIs, Lifecycle!lvars
  <1>3. CASE PostSample
    BY <1>3 DEF PostSample, Closing, Detecting, Sampling, flags, time, PhaseIs, Lifecycle!lvars, Lifecycle!Next, Lifecycle!Follow
  <1>4. CASE PostComplete
    BY <1>4 DEF PostComplete, Closing, Detecting, Sampling, flags, time, PhaseIs, Lifecycle!lvars, Lifecycle!Next, Lifecycle!Complete
  <1>5. CASE QuietSample
    BY <1>5 DEF QuietSample, Listening, Detecting, Sampling, flags, time, PhaseIs, Lifecycle!lvars
  <1>6. CASE Trigger
    BY <1>6 DEF Trigger, Listening, Detecting, Sampling, flags, time, PhaseIs, Lifecycle!lvars, Lifecycle!Next, Lifecycle!Begin
  <1>7. CASE TriggerWhenFull
    BY <1>7 DEF TriggerWhenFull, Listening, Detecting, Sampling, flags, time, PhaseIs, Lifecycle!lvars
  <1>8. CASE RecordSample
    BY <1>8 DEF RecordSample, Listening, Detecting, Sampling, flags, time, PhaseIs, Lifecycle!lvars, Lifecycle!Next, Lifecycle!Extend
  <1>9. CASE Overrun
    BY <1>9 DEF Overrun, Listening, Detecting, Sampling, flags, time, PhaseIs, Lifecycle!lvars, Lifecycle!Next, Lifecycle!Lose
  <1>10. CASE CloseEvent
    BY <1>10 DEF CloseEvent, Listening, Detecting, Sampling, flags, time, PhaseIs, Lifecycle!lvars, Lifecycle!Next, Lifecycle!Over
  <1>11. CASE DiscardEvent
    BY <1>11 DEF DiscardEvent, Listening, Detecting, Sampling, flags, time, PhaseIs, Lifecycle!lvars, Lifecycle!Next, Lifecycle!TooShort
  <1>12. CASE NextBlock
    BY <1>12 DEF NextBlock, NewBlock, flags, time, PhaseIs, Lifecycle!lvars
  <1>13. CASE SaveEvent
    BY <1>13 DEF SaveEvent, NewBlock, flags, time, PhaseIs, Lifecycle!lvars, Lifecycle!Next, Lifecycle!Write
  <1>14. CASE UNCHANGED vars
    BY <1>14 DEF vars, flags, time, PhaseIs, Lifecycle!lvars
  <1> QED BY <1>1, <1>2, <1>3, <1>4, <1>5, <1>6, <1>7, <1>8, <1>9, <1>10,
             <1>11, <1>12, <1>13, <1>14 DEF Next

(* A user who looks at the phase and the two counters sees the promised    *)
(* lifecycle.                                                              *)
THEOREM DetectorImplementsLifecycle == Spec => Lifecycle!Safety
  <1>1. Init => Lifecycle!Init
    BY PhaseValue, LengthsType DEF Init, PhaseIs, Lifecycle!Init
  <1> QED BY <1>1, LifecycleStep, PhaseValue, ModeInvariant, PTL
          DEF Spec, Lifecycle!Safety

=============================================================================

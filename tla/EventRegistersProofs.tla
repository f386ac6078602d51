------------------------ MODULE EventRegistersProofs ------------------------
(***************************************************************************)
(* What the registers of the detector hold, for every length of block,     *)
(* window, register and buffer: as many samples as their counters say, the *)
(* window the newest ones, an event and what follows it with one gap.      *)
(***************************************************************************)
EXTENDS EventRegisters, EventDetectorProofs

-----------------------------------------------------------------------------
(* The moves of a register.                                                *)

(* A shift keeps the length of the register.                               *)
LEMMA MoveRegisterType ==
    ASSUME NEW reg \in Seq(Int), NEW s \in Seq(Int), NEW n \in Nat, NEW first \in Nat,
           n + first <= Len(s)
    PROVE  /\ MoveRegister(reg, s, n, first) \in Seq(Int)
           /\ Len(MoveRegister(reg, s, n, first)) = Len(reg)
  <1> DEFINE moved(i) == IF i > Len(reg) - n THEN s[i - (Len(reg) - n) + first] ELSE reg[i + n]
  <1>1. ASSUME NEW i \in 1 .. Len(reg) PROVE moved(i) \in Int
    <2>1. CASE i > Len(reg) - n
      <3>1. i - (Len(reg) - n) + first \in 1 .. Len(s)
        BY <2>1
      <3> QED BY <2>1, <3>1
    <2>2. CASE ~(i > Len(reg) - n)
      <3>1. i + n \in 1 .. Len(reg)
        BY <2>2
      <3> QED BY <2>2, <3>1
    <2> QED BY <2>1, <2>2
  <1>2. MoveRegister(reg, s, n, first) = [i \in 1 .. Len(reg) |-> moved(i)]
    BY DEF MoveRegister
  <1> HIDE DEF moved
  <1> QED BY <1>1, <1>2

(* addSamplesPreEvent moves the counter as it moves the samples.           *)
LEMMA AddToRegisterType ==
    ASSUME NEW reg \in Seq(Int), NEW s \in Seq(Int), NEW n \in Nat, NEW first \in Nat,
           n + first <= Len(s)
    PROVE  /\ AddToRegister(reg, s, n, first) \in Seq(Int)
           /\ Len(AddToRegister(reg, s, n, first)) = AddSamplesPreEvent(Len(reg), n)
  <1>1. CASE Len(reg) = preEvent
    BY <1>1, MoveRegisterType DEF AddToRegister, AddSamplesPreEvent
  <1>2. CASE Len(reg) # preEvent
    <2>1. SubSeq(s, 1, n) \in Seq(Int) /\ Len(SubSeq(s, 1, n)) = n
      OBVIOUS
    <2> QED BY <1>2, <2>1 DEF AddToRegister, AddSamplesPreEvent
  <1> QED BY <1>1, <1>2

LEMMA BlockType == base \in Nat => newSamples \in Seq(Int) /\ Len(newSamples) = freq
  BY EventDetectorAssumption DEF newSamples

-----------------------------------------------------------------------------
(* The counters.                                                           *)
RegisterTypes ==
    /\ base \in Nat
    /\ tempData \in Seq(Int) /\ preRegister \in Seq(Int)
    /\ eventSamples \in Seq(Int) /\ postRegister \in Seq(Int)
    /\ CountersMatch

LEMMA StepOfDetector == [NextR]_rvars => [Next]_vars
  BY DEF NextR, rvars, OutOfBlocks, FillSampleR, PendingSampleR, PostSampleR, PostCompleteR,
         QuietSampleR, TriggerR, TriggerWhenFullR, RecordSampleR, OverrunR, CloseEventR,
         DiscardEventR, NextBlockR, SaveEventR, Next

(* The register after createEventFile.                                     *)
LEMMA RefilledRegisterType ==
    ASSUME ModeInv, RegisterTypes, isPendingSaveEvent = 1
    PROVE  RefilledRegister \in Seq(Int) /\ Len(RefilledRegister) = RefillAfterSave
  <1> DEFINE c == Len(preRegister)
             p == Len(postRegister)
             e == Len(eventSamples)
  <1>1. /\ c = countPreEvent /\ p = countPostEvent /\ e = countEventSamples
        /\ c \in Nat /\ p \in Nat /\ e \in Nat
        /\ preRegister \in Seq(Int) /\ postRegister \in Seq(Int) /\ eventSamples \in Seq(Int)
        /\ tempData \in Seq(Int)
        /\ Len(preRegister) = c /\ Len(postRegister) = p /\ Len(eventSamples) = e
    BY DEF RegisterTypes, CountersMatch
  <1>0. /\ preRegister \in Seq(Int) /\ postRegister \in Seq(Int) /\ eventSamples \in Seq(Int)
        /\ Len(preRegister) = c /\ c \in Nat /\ p \in Nat /\ e \in Nat
    BY <1>1
  <1> HIDE DEF c, p, e
  <1>b. ASSUME NEW k \in Nat, NEW m \in Nat, k + m <= Len(eventSamples)
        PROVE  /\ AddToRegister(preRegister, eventSamples, k, m) \in Seq(Int)
               /\ Len(AddToRegister(preRegister, eventSamples, k, m)) = AddSamplesPreEvent(c, k)
    BY <1>0, <1>b, AddToRegisterType
  <1>2. Len(tempData) = lengthLTA
    BY LengthsType, EventDetectorAssumption
       DEF RegisterTypes, CountersMatch, ModeInv, ModesExclusive, TypeOK
  <1>3. e % freq \in Nat /\ e % freq <= lengthLTA
    <2>1. e % freq \in 0 .. freq - 1
      BY <1>1, EventDetectorAssumption
    <2>2. 0 * freq + freq <= lengthLTA
      BY BlocksOrder, EventDetectorAssumption, 0 < ltaSeconds DEF lengthLTA
    <2>3. 0 * freq = 0
      BY EventDetectorAssumption
    <2> QED BY <2>1, <2>2, <2>3, EventDetectorAssumption, LengthsType
  <1> DEFINE tail == IF e >= c - p
                     THEN AddToRegister(preRegister, eventSamples, c - p, e - (c - p))
                     ELSE AddToRegister(preRegister, eventSamples, e, 0)
             n == IF e >= c - p THEN c - p ELSE e
             refilled == IF p >= c THEN AddToRegister(preRegister, postRegister, c, p - c)
                         ELSE AddToRegister(tail, postRegister, p, 0)
             size == IF p >= c THEN AddSamplesPreEvent(c, c)
                     ELSE AddSamplesPreEvent(AddSamplesPreEvent(c, n), p)
  <1>4. refilled \in Seq(Int) /\ Len(refilled) = size
    <2>1. CASE p >= c
      <3>1. p - c \in Nat /\ c + (p - c) <= Len(postRegister)
        BY <1>1, <2>1
      <3>2. /\ AddToRegister(preRegister, postRegister, c, p - c) \in Seq(Int)
            /\ Len(AddToRegister(preRegister, postRegister, c, p - c)) = AddSamplesPreEvent(c, c)
        BY <1>0, <3>1, AddToRegisterType
      <3> QED BY <2>1, <3>2
    <2>2. CASE p < c
      <3>1. tail \in Seq(Int) /\ Len(tail) = AddSamplesPreEvent(c, n)
        <4>1. CASE e >= c - p
          <5>1. c - p \in Nat /\ e - (c - p) \in Nat /\ (c - p) + (e - (c - p)) <= Len(eventSamples)
            BY <1>1, <2>2, <4>1
          <5>2. /\ AddToRegister(preRegister, eventSamples, c - p, e - (c - p)) \in Seq(Int)
                /\ Len(AddToRegister(preRegister, eventSamples, c - p, e - (c - p)))
                     = AddSamplesPreEvent(c, c - p)
            BY <1>0, <1>b, <5>1
          <5> QED BY <4>1, <5>2
        <4>2. CASE ~(e >= c - p)
          <5>1. 0 \in Nat /\ e + 0 <= Len(eventSamples)
            BY <1>1
          <5>2. /\ AddToRegister(preRegister, eventSamples, e, 0) \in Seq(Int)
                /\ Len(AddToRegister(preRegister, eventSamples, e, 0)) = AddSamplesPreEvent(c, e)
            BY <1>0, <1>b, <5>1
          <5> QED BY <4>2, <5>2
        <4> QED BY <4>1, <4>2
      <3> HIDE DEF tail, n
      <3>2. 0 \in Nat /\ p + 0 <= Len(postRegister)
        BY <1>1
      <3>3. /\ AddToRegister(tail, postRegister, p, 0) \in Seq(Int)
            /\ Len(AddToRegister(tail, postRegister, p, 0))
                 = AddSamplesPreEvent(AddSamplesPreEvent(c, n), p)
        BY <1>0, <3>1, <3>2, AddToRegisterType
      <3>4. ~(p >= c)
        BY <1>1, <2>2
      <3> QED BY <3>3, <3>4
    <2> QED BY <1>1, <2>1, <2>2
  <1>5. /\ RefilledRegister = AddToRegister(refilled, tempData, e % freq, Len(tempData) - (e % freq))
        /\ RefillAfterSave = AddSamplesPreEvent(size, e % freq)
    BY <1>1 DEF RefilledRegister, RefillAfterSave, c, p, e
  <1> HIDE DEF refilled, size
  <1>6. /\ Len(tempData) - (e % freq) \in Nat
        /\ (e % freq) + (Len(tempData) - (e % freq)) <= Len(tempData)
    BY <1>2, <1>3, LengthsType
  <1> QED BY <1>1, <1>3, <1>4, <1>5, <1>6, AddToRegisterType

LEMMA InitRegisterTypes == InitR => RegisterTypes
  BY DEF InitR, Init, RegisterTypes, CountersMatch

LEMMA StepRegisterTypes ==
    ModeInv /\ RegisterTypes /\ [NextR]_rvars => RegisterTypes'
  <1> SUFFICES ASSUME ModeInv, RegisterTypes, [NextR]_rvars PROVE RegisterTypes'
    OBVIOUS
  <1>0. /\ freq \in Nat \ {0} /\ lengthLTA \in Nat \ {0} /\ count \in 0 .. freq
        /\ base \in Nat /\ Sample \in Int
        /\ 0 \in Nat /\ freq + 0 <= Len(newSamples)
        /\ newSamples \in Seq(Int) /\ Len(newSamples) = freq
        /\ tempData \in Seq(Int) /\ preRegister \in Seq(Int)
        /\ eventSamples \in Seq(Int) /\ postRegister \in Seq(Int)
        /\ Len(tempData) = countTempData /\ Len(preRegister) = countPreEvent
        /\ Len(eventSamples) = countEventSamples /\ Len(postRegister) = countPostEvent
    BY EventDetectorAssumption, LengthsType, BlockType
       DEF ModeInv, TypeOK, RegisterTypes, CountersMatch, Sample
  <1>b. /\ preRegister \in Seq(Int) /\ eventSamples \in Seq(Int)
        /\ Len(preRegister) = countPreEvent
    BY <1>0
  <1>c. ASSUME NEW k \in Nat, NEW m \in Nat, k + m <= Len(eventSamples)
        PROVE  /\ AddToRegister(preRegister, eventSamples, k, m) \in Seq(Int)
               /\ Len(AddToRegister(preRegister, eventSamples, k, m))
                    = AddSamplesPreEvent(countPreEvent, k)
    BY <1>b, <1>c, AddToRegisterType
  <1> USE DEF RegisterTypes, CountersMatch
  <1>1. /\ MoveRegister(tempData, newSamples, freq, 0) \in Seq(Int)
        /\ Len(MoveRegister(tempData, newSamples, freq, 0)) = countTempData
    BY <1>0, MoveRegisterType
  <1>a. /\ preRegister \in Seq(Int) /\ newSamples \in Seq(Int)
        /\ Len(preRegister) = countPreEvent
        /\ freq \in Nat /\ 0 \in Nat /\ freq + 0 <= Len(newSamples)
    BY <1>0
  <1>2. /\ AddToRegister(preRegister, newSamples, freq, 0) \in Seq(Int)
        /\ Len(AddToRegister(preRegister, newSamples, freq, 0))
             = AddSamplesPreEvent(countPreEvent, freq)
    BY <1>a, AddToRegisterType
  <1>3. /\ AddToRegister(preRegister, newSamples, count, 0) \in Seq(Int)
        /\ Len(AddToRegister(preRegister, newSamples, count, 0))
             = AddSamplesPreEvent(countPreEvent, count)
    <2>1. count \in Nat /\ count + 0 <= Len(newSamples)
      BY <1>0
    <2> QED BY <1>a, <2>1, AddToRegisterType
  <1>4. ASSUME ShiftWindow PROVE tempData' \in Seq(Int) /\ Len(tempData') = countTempData
    BY <1>0, <1>1, <1>4 DEF ShiftWindow
  <1>5. ASSUME NEW s \in Seq(Int)
        PROVE  Append(s, Sample) \in Seq(Int) /\ Len(Append(s, Sample)) = Len(s) + 1
    BY <1>0
  <1>6. ASSUME BlockToRegister,
               countPreEvent' = IF LastOfBlock THEN AddSamplesPreEvent(countPreEvent, freq)
                                ELSE countPreEvent
        PROVE  preRegister' \in Seq(Int) /\ Len(preRegister') = countPreEvent'
    BY <1>0, <1>2, <1>6 DEF BlockToRegister
  <1>7. CASE FillSampleR
    <2>1. preRegister' \in Seq(Int) /\ Len(preRegister') = countPreEvent'
      BY <1>6, <1>7 DEF FillSampleR, FillSample
    <2>2. tempData' \in Seq(Int) /\ Len(tempData') = countTempData'
      BY <1>0, <1>5, <1>7 DEF FillSampleR, FillSample
    <2> QED BY <1>0, <1>7, <2>1, <2>2 DEF FillSampleR, FillSample, SameBlock
  <1>8. CASE PendingSampleR
    BY <1>0, <1>4, <1>8 DEF PendingSampleR, PendingSample, Detecting, SameBlock
  <1>9. CASE PostSampleR
    <2>1. postRegister' \in Seq(Int) /\ Len(postRegister') = countPostEvent'
      BY <1>0, <1>5, <1>9 DEF PostSampleR, PostSample
    <2> QED BY <1>0, <1>4, <1>9, <2>1
            DEF PostSampleR, PostSample, Closing, Detecting, SameBlock
  <1>10. CASE PostCompleteR
    BY <1>0, <1>4, <1>10 DEF PostCompleteR, PostComplete, Closing, Detecting, SameBlock
  <1>11. CASE QuietSampleR
    <2>1. preRegister' \in Seq(Int) /\ Len(preRegister') = countPreEvent'
      BY <1>6, <1>11 DEF QuietSampleR, QuietSample
    <2> QED BY <1>0, <1>4, <1>11, <2>1
            DEF QuietSampleR, QuietSample, Listening, Detecting, SameBlock
  <1>12. CASE TriggerR
    <2>1. eventSamples' \in Seq(Int) /\ Len(eventSamples') = countEventSamples'
      BY <1>0, <1>5, <1>12 DEF TriggerR, Trigger
    <2> QED BY <1>0, <1>3, <1>4, <1>12, <2>1
            DEF TriggerR, Trigger, Listening, Detecting, SameBlock
  <1>13. CASE TriggerWhenFullR
    BY <1>0, <1>3, <1>4, <1>13
       DEF TriggerWhenFullR, TriggerWhenFull, Listening, Detecting, SameBlock
  <1>14. CASE RecordSampleR
    <2>1. eventSamples' \in Seq(Int) /\ Len(eventSamples') = countEventSamples'
      BY <1>0, <1>5, <1>14 DEF RecordSampleR, RecordSample
    <2> QED BY <1>0, <1>4, <1>14, <2>1
            DEF RecordSampleR, RecordSample, Listening, Detecting, SameBlock
  <1>15. CASE OverrunR
    BY <1>0, <1>4, <1>15 DEF OverrunR, Overrun, Listening, Detecting, SameBlock
  <1>16. CASE CloseEventR
    BY <1>0, <1>4, <1>16 DEF CloseEventR, CloseEvent, Listening, Detecting, SameBlock
  <1>17. CASE DiscardEventR
    <2> DEFINE e == Len(eventSamples)
               c == Len(preRegister)
    <2>1. preRegister' \in Seq(Int) /\ Len(preRegister') = countPreEvent'
      <3>1. CASE e > c
        <4>1. c \in Nat /\ e - c \in Nat /\ c + (e - c) <= Len(eventSamples)
          BY <1>0, <3>1
        <4>2. /\ AddToRegister(preRegister, eventSamples, c, e - c) \in Seq(Int)
              /\ Len(AddToRegister(preRegister, eventSamples, c, e - c)) = AddSamplesPreEvent(countPreEvent, c)
          BY <1>c, <4>1
        <4> QED BY <1>0, <1>17, <3>1, <4>2 DEF DiscardEventR, DiscardEvent
      <3>2. CASE ~(e > c)
        <4>1. e \in Nat /\ e + 0 <= Len(eventSamples)
          BY <1>0
        <4>2. /\ AddToRegister(preRegister, eventSamples, e, 0) \in Seq(Int)
              /\ Len(AddToRegister(preRegister, eventSamples, e, 0)) = AddSamplesPreEvent(countPreEvent, e)
          BY <1>c, <4>1
        <4> QED BY <1>0, <1>17, <3>2, <4>2 DEF DiscardEventR, DiscardEvent
      <3> QED BY <3>1, <3>2
    <2> QED BY <1>0, <1>4, <1>17, <2>1
            DEF DiscardEventR, DiscardEvent, Listening, Detecting, SameBlock
  <1>18. CASE NextBlockR
    BY <1>0, <1>18 DEF NextBlockR, NextBlock, NewBlock, NewBlockR
  <1>19. CASE SaveEventR
    BY <1>0, <1>19, RefilledRegisterType DEF SaveEventR, SaveEvent, NewBlock, NewBlockR
  <1>20. CASE UNCHANGED rvars
    BY <1>0, <1>20 DEF rvars, registers, vars
  <1> QED BY <1>7, <1>8, <1>9, <1>10, <1>11, <1>12, <1>13, <1>14, <1>15, <1>16, <1>17,
             <1>18, <1>19, <1>20 DEF NextR, OutOfBlocks

LEMMA SpecOfDetector == SpecR => Spec
  <1>1. InitR => Init
    BY DEF InitR
  <1> QED BY <1>1, StepOfDetector, PTL DEF SpecR, Spec

LEMMA RegistersTyped == SpecR => [](ModeInv /\ RegisterTypes)
  <1>1. SpecR => []ModeInv
    BY SpecOfDetector, ModeInvariant, PTL
  <1> QED BY <1>1, InitRegisterTypes, StepRegisterTypes, PTL DEF SpecR

(* CountersMatch: no sample is counted that is not held.                   *)
THEOREM RegistersAreCounted == SpecR => []CountersMatch
  <1>1. RegisterTypes => CountersMatch
    BY DEF RegisterTypes
  <1> QED BY <1>1, RegistersTyped, PTL

-----------------------------------------------------------------------------
(* An event and the samples after it.  While samples go to a buffer its    *)
(* last one is the last one taken; the sample that ends an event goes to   *)
(* neither, so that postEvent starts two numbers further on.               *)
EventInv ==
    /\ Contiguous(eventSamples)
    /\ Contiguous(postRegister)
    /\ EVENT_ON = 1 => eventSamples[Len(eventSamples)] = base + count
    /\ isEnableAddPostEvent = 1 /\ postRegister = <<>> =>
         eventSamples[Len(eventSamples)] = base + count - 1
    /\ isEnableAddPostEvent = 1 /\ postRegister # <<>> =>
         postRegister[Len(postRegister)] = base + count
    /\ postRegister # <<>> => postRegister[1] = eventSamples[Len(eventSamples)] + 2

LEMMA AppendNext ==
    ASSUME NEW s \in Seq(Int), NEW x \in Int, Contiguous(s), s # <<>> => s[Len(s)] = x - 1
    PROVE  /\ Contiguous(Append(s, x))
           /\ Append(s, x) # <<>>
           /\ Append(s, x)[Len(Append(s, x))] = x
           /\ Append(s, x)[1] = IF s = <<>> THEN x ELSE s[1]
  <1> DEFINE t == Append(s, x)
  <1>1. t \in Seq(Int) /\ Len(t) = Len(s) + 1 /\ Len(s) \in Nat
    OBVIOUS
  <1>2. \A i \in 1 .. Len(s) : t[i] = s[i]
    OBVIOUS
  <1>3. t[Len(s) + 1] = x
    OBVIOUS
  <1>4. s # <<>> => Len(s) >= 1
    OBVIOUS
  <1>5. s = <<>> => Len(s) = 0
    OBVIOUS
  <1> HIDE DEF t
  <1>6. ASSUME NEW i \in 1 .. Len(t) - 1 PROVE t[i + 1] = t[i] + 1
    <2>1. CASE i = Len(s)
      <3>1. t[i] = s[i] /\ s[i] = x - 1 /\ t[i + 1] = x
        BY <1>1, <1>2, <1>3, <1>5, <2>1
      <3> QED BY <3>1
    <2>2. CASE i # Len(s)
      <3>1. i \in 1 .. Len(s) - 1 /\ i + 1 \in 1 .. Len(s) /\ i \in 1 .. Len(s)
        BY <1>1, <2>2
      <3>2. s[i + 1] = s[i] + 1
        BY <3>1 DEF Contiguous
      <3> QED BY <1>2, <3>1, <3>2
    <2> QED BY <2>1, <2>2
  <1>7. t # <<>> /\ t[Len(t)] = x /\ t[1] = IF s = <<>> THEN x ELSE s[1]
    BY <1>1, <1>2, <1>3, <1>4, <1>5
  <1> QED BY <1>6, <1>7 DEF t, Contiguous

LEMMA InitEventInv == InitR => EventInv
  BY DEF InitR, Init, EventInv, Contiguous

LEMMA StepEventInv ==
    ModeInv /\ RegisterTypes /\ EventInv /\ [NextR]_rvars => EventInv'
  <1> SUFFICES ASSUME ModeInv, RegisterTypes, EventInv, [NextR]_rvars PROVE EventInv'
    OBVIOUS
  <1>0. /\ freq \in Nat \ {0} /\ count \in 0 .. freq /\ base \in Nat
        /\ Sample \in Int /\ Sample = base + count + 1
        /\ eventSamples \in Seq(Int) /\ postRegister \in Seq(Int)
        /\ EVENT_ON \in {0, 1} /\ isEnableAddPostEvent \in {0, 1}
        /\ isPendingSaveEvent \in {0, 1}
        /\ EVENT_ON + isEnableAddPostEvent + isPendingSaveEvent <= 1
    BY EventDetectorAssumption
       DEF ModeInv, ModesExclusive, TypeOK, RegisterTypes, Sample
  <1>1. /\ EVENT_ON + isEnableAddPostEvent + isPendingSaveEvent = 1 => eventSamples # <<>>
        /\ isEnableAddPostEvent + isPendingSaveEvent = 0 => postRegister = <<>>
        /\ EVENT_ON = 0 /\ isEnableAddPostEvent # 1 /\ isPendingSaveEvent # 1
             /\ countEventSamples # MAX_LENGTH_EVENT => eventSamples = <<>>
    <2>1. /\ countEventSamples = Len(eventSamples) /\ countPostEvent = Len(postRegister)
          /\ countEventSamples \in Nat /\ countPostEvent \in Nat
      BY <1>0 DEF RegisterTypes, CountersMatch
    <2>2. /\ eventSamples = <<>> <=> countEventSamples = 0
          /\ postRegister = <<>> <=> countPostEvent = 0
      BY <1>0, <2>1
    <2> QED BY <1>0, <2>1, <2>2 DEF ModeInv, ModesExclusive, OnlyOverrunsStrand
  <1>2. CASE FillSampleR \/ PendingSampleR \/ PostCompleteR \/ QuietSampleR \/ TriggerWhenFullR
             \/ OverrunR
    <2>1. /\ UNCHANGED <<eventSamples, postRegister>>
          /\ EVENT_ON' # 1
          /\ isEnableAddPostEvent' # 1
      <3>1. ASSUME countTempData # lengthLTA PROVE EVENT_ON # 1 /\ isEnableAddPostEvent # 1
        BY <3>1, LengthsType DEF ModeInv, ModesExclusive, TypeOK
      <3>2. ASSUME isPendingSaveEvent = 1 \/ isEnableAddPostEvent = 1 PROVE EVENT_ON # 1
        BY <1>0, <3>2
      <3>3. ASSUME isPendingSaveEvent = 1 PROVE isEnableAddPostEvent # 1
        BY <1>0, <3>3
      <3> QED BY <1>0, <1>2, <3>1, <3>2, <3>3
              DEF FillSampleR, FillSample, PendingSampleR, PendingSample, PostCompleteR,
                  PostComplete, Closing, QuietSampleR, QuietSample, TriggerWhenFullR,
                  TriggerWhenFull, OverrunR, Overrun, Listening, flags
    <2> QED BY <2>1 DEF EventInv
  <1>3. CASE PostSampleR
    <2>1. /\ postRegister' = Append(postRegister, Sample)
          /\ UNCHANGED <<eventSamples, base, EVENT_ON, isEnableAddPostEvent>>
          /\ count' = count + 1
          /\ isEnableAddPostEvent = 1 /\ EVENT_ON # 1
      BY <1>0, <1>3 DEF PostSampleR, PostSample, Closing, Detecting, Sampling, SameBlock, flags
    <2>2. postRegister # <<>> => postRegister[Len(postRegister)] = Sample - 1
      BY <1>0, <2>1 DEF EventInv
    <2>3. /\ Contiguous(postRegister') /\ postRegister' # <<>>
          /\ postRegister'[Len(postRegister')] = Sample
          /\ postRegister'[1] = IF postRegister = <<>> THEN Sample ELSE postRegister[1]
      BY <1>0, <2>1, <2>2, AppendNext DEF EventInv
    <2>4. postRegister'[1] = eventSamples[Len(eventSamples)] + 2
      BY <1>0, <2>1, <2>3 DEF EventInv
    <2> QED BY <1>0, <2>1, <2>3, <2>4 DEF EventInv
  <1>4. CASE TriggerR
    <2>1. /\ eventSamples' = Append(eventSamples, Sample)
          /\ UNCHANGED <<postRegister, base, isEnableAddPostEvent>>
          /\ count' = count + 1
          /\ EVENT_ON = 0 /\ isEnableAddPostEvent # 1 /\ isPendingSaveEvent # 1
          /\ countEventSamples # MAX_LENGTH_EVENT
      BY <1>4 DEF TriggerR, Trigger, Listening, Detecting, Sampling, SameBlock
    <2>2. eventSamples = <<>> /\ postRegister = <<>>
      BY <1>0, <1>1, <2>1
    <2>3. /\ Contiguous(eventSamples')
          /\ eventSamples'[Len(eventSamples')] = Sample
      BY <1>0, <2>1, <2>2, AppendNext DEF EventInv
    <2> QED BY <1>0, <2>1, <2>2, <2>3 DEF EventInv
  <1>5. CASE RecordSampleR
    <2>1. /\ eventSamples' = Append(eventSamples, Sample)
          /\ UNCHANGED <<postRegister, base, isEnableAddPostEvent, EVENT_ON>>
          /\ count' = count + 1
          /\ EVENT_ON = 1
      BY <1>5 DEF RecordSampleR, RecordSample, Listening, Detecting, Sampling, SameBlock
    <2>2. postRegister = <<>> /\ isEnableAddPostEvent # 1
      BY <1>0, <1>1, <2>1
    <2>3. /\ Contiguous(eventSamples')
          /\ eventSamples'[Len(eventSamples')] = Sample
      BY <1>0, <2>1, AppendNext DEF EventInv
    <2> QED BY <1>0, <2>1, <2>2, <2>3 DEF EventInv
  <1>6. CASE CloseEventR
    <2>1. /\ UNCHANGED <<eventSamples, postRegister, base>>
          /\ count' = count + 1
          /\ EVENT_ON = 1 /\ EVENT_ON' = 0
      BY <1>6 DEF CloseEventR, CloseEvent, Listening, Detecting, Sampling, SameBlock
    <2>2. postRegister = <<>>
      BY <1>0, <1>1, <2>1
    <2> QED BY <1>0, <2>1, <2>2 DEF EventInv
  <1>7. CASE DiscardEventR
    <2>1. /\ eventSamples' = <<>>
          /\ UNCHANGED <<postRegister, isEnableAddPostEvent>>
          /\ EVENT_ON = 1 /\ EVENT_ON' = 0
      BY <1>7 DEF DiscardEventR, DiscardEvent, Listening
    <2>2. postRegister = <<>> /\ isEnableAddPostEvent # 1
      BY <1>0, <1>1, <2>1
    <2>3. Contiguous(<<>>)
      BY DEF Contiguous
    <2> QED BY <2>1, <2>2, <2>3 DEF EventInv
  <1>8. CASE NextBlockR
    <2>1. /\ UNCHANGED <<eventSamples, postRegister, EVENT_ON, isEnableAddPostEvent>>
      BY <1>8 DEF NextBlockR, NextBlock, NewBlock, NewBlockR
    <2>2. count = freq /\ count' = 0 /\ base' = base + freq
      BY <1>8 DEF NextBlockR, NextBlock, NewBlock, NewBlockR
    <2>3. base' + count' = base + count /\ base' + count' - 1 = base + count - 1
      BY <1>0, <2>2
    <2> QED BY <2>1, <2>3 DEF EventInv
  <1>9. CASE SaveEventR
    <2>1. /\ eventSamples' = <<>> /\ postRegister' = <<>>
          /\ EVENT_ON' # 1 /\ isEnableAddPostEvent' # 1
      BY <1>0, <1>9 DEF SaveEventR, SaveEvent, NewBlock
    <2>2. Contiguous(<<>>)
      BY DEF Contiguous
    <2> QED BY <2>1, <2>2 DEF EventInv
  <1>10. CASE UNCHANGED rvars
    <2>1. UNCHANGED <<eventSamples, postRegister, base, count, EVENT_ON, isEnableAddPostEvent>>
      BY <1>10 DEF rvars, registers, vars, flags
    <2> QED BY <2>1 DEF EventInv
  <1> QED BY <1>2, <1>3, <1>4, <1>5, <1>6, <1>7, <1>8, <1>9, <1>10 DEF NextR, OutOfBlocks

LEMMA EventAlwaysInv == SpecR => []EventInv
  BY RegistersTyped, InitEventInv, StepEventInv, PTL DEF SpecR

(* RecordingIsCurrent: a recording skips no sample, whatever the buffers.  *)
THEOREM RecordingSkipsNothing == SpecR => []RecordingIsCurrent
  <1>1. EventInv => RecordingIsCurrent
    BY DEF EventInv, RecordingIsCurrent
  <1> QED BY <1>1, EventAlwaysInv, PTL

(* EventHasOneGap: an event and the samples after it lack exactly one.     *)
THEOREM EventsHaveOneGap == SpecR => []EventHasOneGap
  <1>1. ModeInv /\ RegisterTypes /\ EventInv => EventHasOneGap
    <2> SUFFICES ASSUME ModeInv, RegisterTypes, EventInv, postRegister # <<>>
                 PROVE  eventSamples # <<>>
      BY DEF EventInv, EventHasOneGap
    <2>1. countPostEvent > 0
      BY DEF RegisterTypes, CountersMatch
    <2>2. countEventSamples # 0
      BY <2>1 DEF ModeInv, ModesExclusive, TypeOK
    <2> QED BY <2>2 DEF RegisterTypes, CountersMatch
  <1> QED BY <1>1, EventAlwaysInv, RegistersTyped, PTL

-----------------------------------------------------------------------------
(* The window: while it fills it holds all the samples there were, in      *)
(* whole blocks before the current one; it is full at the end of a block.  *)
Warming ==
    /\ countTempData = base + count
    /\ \E k \in Nat : base = k * freq
    /\ tempData = Newest(countTempData, countTempData)

NewestWindow == IF countTempData = lengthLTA THEN tempData = Newest(lengthLTA, WholeBlocks)
                ELSE Warming

LEMMA InitNewestWindow == InitR => NewestWindow
  <1> SUFFICES ASSUME InitR PROVE NewestWindow
    OBVIOUS
  <1>0. freq \in Nat \ {0} /\ lengthLTA \in Nat \ {0}
    BY EventDetectorAssumption, LengthsType
  <1>1. countTempData = 0 /\ base = 0 /\ count = 0 /\ tempData = <<>>
    BY DEF InitR, Init
  <1>2. Newest(0, 0) = <<>>
    BY DEF Newest
  <1>3. base = 0 * freq
    BY <1>0, <1>1
  <1> QED BY <1>0, <1>1, <1>2, <1>3 DEF NewestWindow, Warming

(* The sample that fills the window is the last one of its block.          *)
LEMMA FullAtEndOfBlock ==
    ASSUME NEW k \in Nat, NEW j \in 1 .. freq, k * freq + j = lengthLTA
    PROVE  j = freq
  <1>0. freq \in Nat \ {0} /\ ltaSeconds \in Nat \ {0} /\ lengthLTA = ltaSeconds * freq
    BY EventDetectorAssumption DEF lengthLTA
  <1>1. k * freq \in Nat /\ ltaSeconds * freq \in Nat
    BY <1>0
  <1>2. k < ltaSeconds
    <2>1. ASSUME ltaSeconds <= k PROVE FALSE
      <3>1. CASE ltaSeconds = k
        BY <1>0, <1>1, <3>1
      <3>2. CASE ltaSeconds < k
        <4>1. ltaSeconds * freq + freq <= k * freq
          BY <1>0, <3>2, BlocksOrder
        <4> QED BY <1>0, <1>1, <4>1
      <3> QED BY <1>0, <2>1, <3>1, <3>2
    <2> QED BY <1>0, <2>1
  <1>3. (k + 1) * freq = k * freq + freq
    BY <1>0
  <1>4. CASE k + 1 = ltaSeconds
    BY <1>0, <1>1, <1>3, <1>4
  <1>5. CASE k + 1 < ltaSeconds
    <2>1. (k + 1) * freq + freq <= ltaSeconds * freq
      BY <1>0, <1>5, BlocksOrder
    <2> QED BY <1>0, <1>1, <1>3, <2>1
  <1> QED BY <1>0, <1>2, <1>4, <1>5

LEMMA StepNewestWindow ==
    ModeInv /\ RegisterTypes /\ NewestWindow /\ [NextR]_rvars => NewestWindow'
  <1> SUFFICES ASSUME ModeInv, RegisterTypes, NewestWindow, [NextR]_rvars
               PROVE  NewestWindow'
    OBVIOUS
  <1>0. /\ freq \in Nat \ {0} /\ lengthLTA \in Nat \ {0} /\ freq <= lengthLTA
        /\ count \in 0 .. freq /\ base \in Nat /\ countTempData \in 0 .. lengthLTA
        /\ tempData \in Seq(Int) /\ Len(tempData) = countTempData
    <2>1. 0 * freq + freq <= lengthLTA /\ 0 * freq = 0
      BY BlocksOrder, EventDetectorAssumption, 0 < ltaSeconds DEF lengthLTA
    <2> QED BY <2>1, EventDetectorAssumption, LengthsType
            DEF ModeInv, TypeOK, RegisterTypes, CountersMatch
  <1>1. CASE FillSampleR
    <2>1. /\ count < freq /\ count' = count + 1 /\ base' = base
          /\ countTempData # lengthLTA /\ countTempData' = countTempData + 1
          /\ tempData' = Append(tempData, base + count + 1)
      BY <1>1 DEF FillSampleR, FillSample, Sampling, SameBlock, Sample
    <2>2. Warming
      BY <2>1 DEF NewestWindow
    <2>3. tempData' = Newest(countTempData + 1, countTempData + 1)
      <3>1. /\ countTempData = base + count
            /\ tempData = [i \in 1 .. countTempData |-> countTempData - countTempData + i]
        BY <2>2 DEF Warming, Newest
      <3>2. tempData' = [i \in 1 .. countTempData + 1 |-> i]
        BY <1>0, <2>1, <3>1
      <3>3. Newest(countTempData + 1, countTempData + 1) = [i \in 1 .. countTempData + 1 |-> i]
        BY <1>0 DEF Newest
      <3> QED BY <3>2, <3>3
    <2>4. CASE countTempData' # lengthLTA
      BY <1>0, <2>1, <2>2, <2>3, <2>4 DEF NewestWindow, Warming
    <2>5. CASE countTempData' = lengthLTA
      <3>1. PICK k \in Nat : base = k * freq
        BY <2>2 DEF Warming
      <3>2. k * freq + (count + 1) = lengthLTA
        BY <1>0, <2>1, <2>2, <2>5, <3>1 DEF Warming
      <3>3. count + 1 = freq
        <4>1. count + 1 \in 1 .. freq
          BY <1>0, <2>1
        <4> QED BY <3>2, <4>1, FullAtEndOfBlock
      <3>4. WholeBlocks' = lengthLTA
        BY <1>0, <2>1, <3>1, <3>2, <3>3 DEF WholeBlocks
      <3> QED BY <2>1, <2>3, <2>5, <3>4 DEF NewestWindow
    <2> QED BY <2>4, <2>5
  <1>2. ASSUME Detecting, ShiftWindow, SameBlock PROVE NewestWindow'
    <2>1. /\ countTempData = lengthLTA /\ countTempData' = lengthLTA
          /\ count < freq /\ count' = count + 1 /\ base' = base
          /\ tempData = Newest(lengthLTA, base)
      BY <1>0, <1>2 DEF Detecting, Sampling, SameBlock, NewestWindow, WholeBlocks
    <2>2. CASE LastOfBlock
      <3>1. WholeBlocks' = base + freq
        BY <1>0, <2>1, <2>2 DEF LastOfBlock, WholeBlocks
      <3>2. tempData' = MoveRegister(tempData, newSamples, freq, 0)
        BY <1>2, <2>2 DEF ShiftWindow
      <3>3. /\ Len(tempData) = lengthLTA
            /\ \A i \in 1 .. lengthLTA : tempData[i] = base - lengthLTA + i
        BY <1>0, <2>1 DEF Newest
      <3>4. tempData' = [i \in 1 .. lengthLTA |->
                            IF i > lengthLTA - freq THEN newSamples[i - (lengthLTA - freq) + 0]
                            ELSE tempData[i + freq]]
        BY <3>2, <3>3 DEF MoveRegister
      <3>5. ASSUME NEW i \in 1 .. lengthLTA
            PROVE  (IF i > lengthLTA - freq THEN newSamples[i - (lengthLTA - freq) + 0]
                    ELSE tempData[i + freq]) = (base + freq) - lengthLTA + i
        <4>1. CASE i > lengthLTA - freq
          <5>1. i - (lengthLTA - freq) + 0 \in 1 .. freq
            BY <1>0, <4>1
          <5>2. newSamples[i - (lengthLTA - freq) + 0] = base + (i - (lengthLTA - freq) + 0)
            BY <5>1 DEF newSamples
          <5> QED BY <1>0, <4>1, <5>2
        <4>2. CASE ~(i > lengthLTA - freq)
          <5>1. i + freq \in 1 .. lengthLTA
            BY <1>0, <4>2
          <5>2. tempData[i + freq] = base - lengthLTA + (i + freq)
            BY <3>3, <5>1
          <5> QED BY <1>0, <4>2, <5>2
        <4> QED BY <4>1, <4>2
      <3>6. tempData' = [i \in 1 .. lengthLTA |-> (base + freq) - lengthLTA + i]
        BY <3>4, <3>5
      <3>7. tempData' = Newest(lengthLTA, base + freq)
        BY <3>6 DEF Newest
      <3>8. Newest(lengthLTA, WholeBlocks)' = Newest(lengthLTA, base + freq)
        BY <3>1 DEF Newest
      <3> QED BY <2>1, <3>7, <3>8 DEF NewestWindow
    <2>3. CASE ~LastOfBlock
      <3>1. WholeBlocks' = base
        BY <1>0, <2>1, <2>3 DEF LastOfBlock, WholeBlocks
      <3> QED BY <1>2, <2>1, <2>3, <3>1 DEF ShiftWindow, NewestWindow
    <2> QED BY <2>2, <2>3
  <1>3. CASE NextBlockR \/ SaveEventR
    <2>1. /\ count = freq /\ count' = 0 /\ base' = base + freq
          /\ UNCHANGED <<tempData, countTempData>>
      BY <1>3 DEF NextBlockR, NextBlock, SaveEventR, SaveEvent, NewBlock, NewBlockR
    <2>2. WholeBlocks' = WholeBlocks
      BY <1>0, <2>1 DEF WholeBlocks
    <2>3. ASSUME Warming PROVE Warming'
      <3>1. PICK k \in Nat : base = k * freq
        BY <2>3 DEF Warming
      <3>2. base' = (k + 1) * freq /\ k + 1 \in Nat
        BY <1>0, <2>1, <3>1
      <3>3. base' + count' = base + count
        BY <1>0, <2>1
      <3> QED BY <2>1, <2>3, <3>2, <3>3 DEF Warming
    <2> QED BY <2>1, <2>2, <2>3 DEF NewestWindow
  <1>4. CASE UNCHANGED rvars
    <2>1. UNCHANGED <<tempData, countTempData, base, count>>
      BY <1>4 DEF rvars, registers, vars
    <2> QED BY <2>1 DEF NewestWindow, Warming, WholeBlocks
  <1>5. \/ FillSampleR
        \/ Detecting /\ ShiftWindow /\ SameBlock
        \/ NextBlockR \/ SaveEventR
        \/ UNCHANGED rvars
    BY DEF NextR, OutOfBlocks, PendingSampleR, PendingSample, PostSampleR, PostSample,
           PostCompleteR, PostComplete, Closing, QuietSampleR, QuietSample, TriggerR, Trigger,
           TriggerWhenFullR, TriggerWhenFull, RecordSampleR, RecordSample, OverrunR, Overrun,
           CloseEventR, CloseEvent, DiscardEventR, DiscardEvent, Listening
  <1> QED BY <1>1, <1>2, <1>3, <1>4, <1>5

(* WindowIsNewest: the averages lose the samples that really leave.        *)
THEOREM WindowHoldsTheNewest == SpecR => []WindowIsNewest
  <1>1. NewestWindow => WindowIsNewest
    BY DEF NewestWindow, WindowIsNewest
  <1> QED BY <1>1, RegistersTyped, InitNewestWindow, StepNewestWindow, PTL DEF SpecR

-----------------------------------------------------------------------------
(* The names of the event files.  A name is a day and a time; unless the   *)
(* time is in the first preSeconds of its day, it is preSeconds before the *)
(* trigger of its event.                                                   *)

(* The trigger of the file named <<d, s>> lies before second t of day e.   *)
Past(d, s, e, t) == d < e \/ (d = e /\ (s < preSeconds \/ s + preSeconds < t))

(* The same, or it is that second.                                         *)
NotAhead(d, s, e, t) == d < e \/ (d = e /\ (s < preSeconds \/ s + preSeconds <= t))

NameTypes ==
    /\ date \in Nat \ {0}
    /\ eventDate \in Nat
    /\ file.name[1] \in Nat
    /\ file.name[2] \in Nat

(* While an event is recorded event->time is its trigger.                  *)
RecordedName ==
    /\ Past(file.name[1], file.name[2], eventDate, startTime)
    /\ eventDate < date \/ (eventDate = date /\ startTime <= label)

(* Afterwards it is the time in the name of the file to come.              *)
ComingName ==
    /\ \/ file.name[1] # eventDate
       \/ file.name[2] < preSeconds
       \/ file.name[2] # startTime
    /\ NotAhead(eventDate, startTime, date, label)

NameInv ==
    /\ NameTypes
    /\ Past(file.name[1], file.name[2], date, label)
    /\ EVENT_ON = 1 => RecordedName
    /\ isEnableAddPostEvent + isPendingSaveEvent = 1 => ComingName

(* A label is new: it is later than the one before, or of the next day.    *)
LabelsAdvance == LabelSteps \subseteq 1 .. DaySeconds - 1

LEMMA LabelIsNew ==
    ASSUME LabelsAdvance, TypeOK, NewBlock
    PROVE  label' \in Nat /\ label' # label
  <1>1. PICK d \in LabelSteps : label' = (label + d) % DaySeconds
    BY DEF NewBlock
  <1>2. d \in 1 .. DaySeconds - 1 /\ label \in 0 .. DaySeconds - 1 /\ DaySeconds \in Nat \ {0}
    BY EventDetectorAssumption DEF LabelsAdvance, TypeOK
  <1>3. label + d \in 0 .. 2 * DaySeconds - 1
    BY <1>2
  <1>4. label' = IF label + d < DaySeconds THEN label + d ELSE (label + d) - DaySeconds
    BY <1>1, <1>2, <1>3, RemainderOnce
  <1> QED BY <1>2, <1>4

(* So what was past remains so, and what is now is past.                   *)
LEMMA TimeAdvances ==
    ASSUME LabelsAdvance, TypeOK, NewBlock, NewBlockR, date \in Nat \ {0}
    PROVE  /\ date' \in Nat \ {0}
           /\ date < date' \/ (date = date' /\ label < label')
  <1>1. label' \in Nat /\ label' # label /\ label \in Nat
    BY LabelIsNew DEF TypeOK
  <1> QED BY <1>1 DEF NewBlockR

LEMMA InitNameInv == InitR => NameInv
  BY DEF InitR, Init, NoFile, NameInv, NameTypes, Past

LEMMA StepNameInv ==
    ASSUME Skews = {0}, LabelsAdvance
    PROVE  ModeInv /\ NameInv /\ [NextR]_rvars => NameInv'
  <1> SUFFICES ASSUME ModeInv, NameInv, [NextR]_rvars PROVE NameInv'
    OBVIOUS
  <1>0. /\ TypeOK /\ NameTypes
        /\ preSeconds \in Nat \ {0}
        /\ label \in Nat /\ startTime \in Nat
        /\ EVENT_ON \in {0, 1} /\ isEnableAddPostEvent \in {0, 1} /\ isPendingSaveEvent \in {0, 1}
        /\ EVENT_ON + isEnableAddPostEvent + isPendingSaveEvent <= 1
    BY EventDetectorAssumption DEF ModeInv, ModesExclusive, TypeOK, NameInv
  <1>1. CASE TriggerR
    <2>1. /\ UNCHANGED <<file, date, label, isEnableAddPostEvent, isPendingSaveEvent>>
          /\ startTime' = label /\ eventDate' = date
          /\ isEnableAddPostEvent # 1 /\ isPendingSaveEvent # 1
      BY <1>1 DEF TriggerR, Trigger, Listening, SameBlock
    <2>2. NameTypes'
      BY <1>0, <2>1 DEF NameTypes
    <2>3. RecordedName'
      BY <1>0, <2>1 DEF RecordedName, NameInv
    <2> QED BY <1>0, <2>1, <2>2, <2>3 DEF NameInv
  <1>2. CASE TriggerWhenFullR
    <2>1. /\ UNCHANGED <<file, date, label, EVENT_ON, isEnableAddPostEvent, isPendingSaveEvent>>
          /\ eventDate' = date
          /\ EVENT_ON = 0 /\ isEnableAddPostEvent # 1 /\ isPendingSaveEvent # 1
      BY <1>2 DEF TriggerWhenFullR, TriggerWhenFull, Listening, SameBlock
    <2>2. NameTypes'
      BY <1>0, <2>1 DEF NameTypes
    <2> QED BY <1>0, <2>1, <2>2 DEF NameInv
  <1>3. CASE OverrunR \/ DiscardEventR
    <2>1. /\ UNCHANGED <<file, date, label, eventDate, isEnableAddPostEvent, isPendingSaveEvent>>
          /\ EVENT_ON' = 0 /\ isEnableAddPostEvent # 1 /\ isPendingSaveEvent # 1
      BY <1>3 DEF OverrunR, Overrun, DiscardEventR, DiscardEvent, Listening, SameBlock
    <2>2. NameTypes'
      BY <1>0, <2>1 DEF NameTypes
    <2> QED BY <1>0, <2>1, <2>2 DEF NameInv
  <1>4. CASE CloseEventR
    <2>1. /\ UNCHANGED <<file, date, label, eventDate, isPendingSaveEvent>>
          /\ EVENT_ON = 1 /\ EVENT_ON' = 0
      BY <1>4 DEF CloseEventR, CloseEvent, Listening, SameBlock
    <2>2. startTime' = IF startTime >= preSeconds THEN startTime - preSeconds ELSE startTime
      BY <1>0, <1>4 DEF CloseEventR, CloseEvent, Readings, StartTime
    <2>3. NameTypes'
      BY <1>0, <2>1 DEF NameTypes
    <2>4. ComingName'
      BY <1>0, <2>1, <2>2 DEF NameInv, NameTypes, RecordedName, ComingName, Past, NotAhead
    <2> QED BY <1>0, <2>1, <2>3, <2>4 DEF NameInv
  <1>5. CASE NextBlockR
    <2>1. /\ UNCHANGED <<file, startTime, eventDate, EVENT_ON, isEnableAddPostEvent, isPendingSaveEvent>>
          /\ NewBlock /\ NewBlockR
      BY <1>5 DEF NextBlockR, NextBlock, NewBlock, NewBlockR
    <2>2. /\ date' \in Nat \ {0} /\ label' \in Nat
          /\ date < date' \/ (date = date' /\ label < label')
      BY <1>0, <2>1, TimeAdvances, LabelIsNew DEF NameTypes
    <2>3. NameTypes'
      BY <1>0, <2>1, <2>2 DEF NameTypes
    <2>4. Past(file.name[1], file.name[2], date, label)'
      BY <1>0, <2>1, <2>2 DEF NameInv, NameTypes, Past
    <2>5. EVENT_ON' = 1 => RecordedName'
      BY <1>0, <2>1, <2>2 DEF NameInv, NameTypes, RecordedName
    <2>6. ComingName => ComingName'
      BY <1>0, <2>1, <2>2 DEF NameTypes, ComingName, NotAhead
    <2> QED BY <2>1, <2>3, <2>4, <2>5, <2>6 DEF NameInv
  <1>6. CASE SaveEventR
    <2>1. /\ file'.name = <<eventDate, startTime>>
          /\ eventDate' = eventDate
          /\ NewBlock /\ NewBlockR
          /\ isPendingSaveEvent = 1 /\ isPendingSaveEvent' = 0
          /\ EVENT_ON' = EVENT_ON /\ isEnableAddPostEvent' = isEnableAddPostEvent
      BY <1>6 DEF SaveEventR, SaveEvent, NewBlock, NewBlockR
    <2>2. /\ date' \in Nat \ {0} /\ label' \in Nat
          /\ date < date' \/ (date = date' /\ label < label')
      BY <1>0, <2>1, TimeAdvances, LabelIsNew DEF NameTypes
    <2>3. NotAhead(eventDate, startTime, date, label)
      BY <1>0, <2>1 DEF NameInv, ComingName
    <2>4. /\ file'.name[1] = eventDate /\ file'.name[2] = startTime
      BY <2>1
    <2>5. NameTypes'
      BY <1>0, <2>1, <2>2, <2>4 DEF NameTypes
    <2>6. Past(file.name[1], file.name[2], date, label)'
      BY <1>0, <2>2, <2>3, <2>4 DEF NameTypes, Past, NotAhead
    <2> QED BY <1>0, <2>1, <2>5, <2>6 DEF NameInv
  <1>7. CASE FillSampleR \/ PendingSampleR \/ PostSampleR \/ QuietSampleR \/ RecordSampleR
    <2>1. UNCHANGED <<file, date, label, eventDate, startTime,
                      EVENT_ON, isEnableAddPostEvent, isPendingSaveEvent>>
      BY <1>7 DEF FillSampleR, FillSample, PendingSampleR, PendingSample, PostSampleR, PostSample,
                  QuietSampleR, QuietSample, RecordSampleR, RecordSample, Listening, SameBlock,
                  flags, time
    <2> QED BY <2>1 DEF NameInv, NameTypes, RecordedName, ComingName
  <1>8. CASE PostCompleteR
    <2>1. /\ UNCHANGED <<file, date, label, eventDate, startTime, EVENT_ON>>
          /\ isEnableAddPostEvent = 1 /\ isPendingSaveEvent # 1
          /\ isEnableAddPostEvent' = 0 /\ isPendingSaveEvent' = 1
      BY <1>8 DEF PostCompleteR, PostComplete, Closing, SameBlock, time
    <2> QED BY <1>0, <2>1 DEF NameInv, NameTypes, RecordedName, ComingName
  <1>9. CASE UNCHANGED rvars
    <2>1. UNCHANGED <<file, date, label, eventDate, startTime,
                      EVENT_ON, isEnableAddPostEvent, isPendingSaveEvent>>
      BY <1>9 DEF rvars, vars, flags, time
    <2> QED BY <2>1 DEF NameInv, NameTypes, RecordedName, ComingName
  <1> QED BY <1>1, <1>2, <1>3, <1>4, <1>5, <1>6, <1>7, <1>8, <1>9 DEF NextR, OutOfBlocks

(* FileNamesDiffer: a file takes the name of the one before only if that   *)
(* one's event began in the first preSeconds of the day.                   *)
THEOREM FilesHaveNewNames ==
    ASSUME Skews = {0}, LabelsAdvance
    PROVE  SpecR => FileNamesDiffer
  <1>1. ModeInv /\ NameInv /\ [NextR]_rvars
          => [file' # file /\ file'.name = file.name => file.name[2] < preSeconds]_rvars
    <2> SUFFICES ASSUME ModeInv, NameInv, [NextR]_rvars, file' # file, file'.name = file.name
                 PROVE  file.name[2] < preSeconds
      OBVIOUS
    <2>1. SaveEventR
      BY DEF NextR, rvars, OutOfBlocks, FillSampleR, PendingSampleR, PostSampleR, PostCompleteR,
             QuietSampleR, TriggerR, TriggerWhenFullR, RecordSampleR, OverrunR, CloseEventR,
             DiscardEventR, NextBlockR, SameBlock
    <2>2. isPendingSaveEvent = 1 /\ file'.name = <<eventDate, startTime>>
      BY <2>1 DEF SaveEventR, SaveEvent
    <2>3. ComingName
      BY <2>2 DEF ModeInv, ModesExclusive, TypeOK, NameInv
    <2>4. file.name[1] = eventDate /\ file.name[2] = startTime
      BY <2>2
    <2> QED BY <2>3, <2>4 DEF ComingName
  <1>2. ModeInv /\ NameInv /\ [NextR]_rvars => NameInv'
    BY StepNameInv
  <1>3. SpecR => []ModeInv
    BY SpecOfDetector, ModeInvariant, PTL
  <1> QED BY <1>1, <1>2, <1>3, InitNameInv, PTL DEF SpecR, FileNamesDiffer

-----------------------------------------------------------------------------
(* The pre-event register between events.  Every block in a row that it    *)
(* gets makes its newest part one block longer; the block that an event    *)
(* interrupts is shifted in up to the trigger.                             *)

(* The last k places of a register hold the samples up to number m.        *)
NewestTail(reg, k, m) ==
    /\ k <= Len(reg)
    /\ \A i \in 1 .. Len(reg) : i > Len(reg) - k => reg[i] = (m - Len(reg)) + i

(* s begins with the n samples after number m.                             *)
Follows(s, n, m) ==
    /\ n <= Len(s)
    /\ \A i \in 1 .. n : s[i] = m + i

LEMMA Concatenated ==
    ASSUME NEW r \in Seq(Int), NEW t \in Seq(Int)
    PROVE  /\ Len(r \o t) = Len(r) + Len(t)
           /\ \A i \in 1 .. Len(r) + Len(t) :
                (r \o t)[i] = IF i <= Len(r) THEN r[i] ELSE t[i - Len(r)]
  OBVIOUS

(* Taking n samples that follow makes the newest part n longer, as far as  *)
(* the register is long.                                                   *)
LEMMA TailGrows ==
    ASSUME NEW reg \in Seq(Int), NEW s \in Seq(Int), NEW m \in Int,
           NEW k \in Nat, NEW n \in Nat, NEW j \in 0 .. k + n,
           n <= preEvent, NewestTail(reg, k, m), Follows(s, n, m),
           j <= Len(AddToRegister(reg, s, n, 0))
    PROVE  NewestTail(AddToRegister(reg, s, n, 0), j, m + n)
  <1> DEFINE l == Len(reg)
  <1>1. /\ l \in Nat /\ n <= Len(s) /\ preEvent \in Nat
        /\ \A i \in 1 .. l : i > l - k => reg[i] = (m - l) + i
        /\ \A i \in 1 .. n : s[i] = m + i
    BY LengthsType DEF NewestTail, Follows
  <1>2. CASE l # preEvent
    <2> DEFINE first == SubSeq(s, 1, n)
               new == reg \o first
    <2>1. AddToRegister(reg, s, n, 0) = new
      BY <1>2 DEF AddToRegister
    <2>2. /\ Len(new) = l + n
          /\ \A i \in 1 .. l + n : new[i] = IF i <= l THEN reg[i] ELSE s[i - l]
      <3>1. /\ first \in Seq(Int) /\ Len(first) = n
            /\ \A i \in 1 .. n : first[i] = s[i]
        BY <1>1
      <3> HIDE DEF first
      <3>2. /\ Len(new) = l + n
            /\ \A i \in 1 .. l + n : new[i] = IF i <= l THEN reg[i] ELSE first[i - l]
        BY <3>1, Concatenated
      <3> HIDE DEF new
      <3>3. ASSUME NEW i \in 1 .. l + n
            PROVE  new[i] = IF i <= l THEN reg[i] ELSE s[i - l]
        <4>1. new[i] = IF i <= l THEN reg[i] ELSE first[i - l]
          BY <3>2
        <4>2. i > l => i - l \in 1 .. n
          BY <1>1
        <4>3. i > l => first[i - l] = s[i - l]
          BY <3>1, <4>2
        <4> QED BY <1>1, <4>1, <4>3
      <3> QED BY <3>2, <3>3
    <2> HIDE DEF new, first
    <2>3. ASSUME NEW i \in 1 .. l + n, i > (l + n) - j
          PROVE  new[i] = ((m + n) - (l + n)) + i
      <3>1. CASE i <= l
        <4>1. i \in 1 .. l /\ i > l - k
          BY <1>1, <2>3, <3>1
        <4>2. reg[i] = (m - l) + i
          BY <1>1, <4>1
        <4> QED BY <1>1, <2>2, <3>1, <4>2
      <3>2. CASE i > l
        <4>1. i - l \in 1 .. n
          BY <1>1, <3>2
        <4>2. s[i - l] = m + (i - l)
          BY <1>1, <4>1
        <4> QED BY <1>1, <2>2, <3>2, <4>2
      <3> QED BY <1>1, <3>1, <3>2
    <2> QED BY <2>1, <2>2, <2>3 DEF NewestTail
  <1>3. CASE l = preEvent
    <2> DEFINE new == MoveRegister(reg, s, n, 0)
               place(i) == IF i > l - n THEN s[i - (l - n) + 0] ELSE reg[i + n]
    <2>1. AddToRegister(reg, s, n, 0) = new
      BY <1>3 DEF AddToRegister
    <2>2. new = [i \in 1 .. l |-> place(i)]
      BY DEF MoveRegister
    <2>3. Len(new) = l
      BY <1>1, MoveRegisterType
    <2>4. ASSUME NEW i \in 1 .. l, i > l - j
          PROVE  place(i) = ((m + n) - l) + i
      <3>1. CASE i > l - n
        <4>1. i - (l - n) + 0 \in 1 .. n
          BY <1>1, <1>3, <3>1
        <4>2. s[i - (l - n) + 0] = m + (i - (l - n) + 0)
          BY <1>1, <4>1
        <4> QED BY <1>1, <3>1, <4>2
      <3>2. CASE ~(i > l - n)
        <4>1. i + n \in 1 .. l /\ i + n > l - k
          BY <1>1, <2>4, <3>2
        <4>2. reg[i + n] = (m - l) + (i + n)
          BY <1>1, <4>1
        <4> QED BY <1>1, <3>2, <4>2
      <3> QED BY <3>1, <3>2
    <2> HIDE DEF new, place
    <2>5. \A i \in 1 .. l : i > l - j => new[i] = ((m + n) - l) + i
      BY <2>2, <2>4
    <2> QED BY <2>1, <2>3, <2>5 DEF NewestTail
  <1> QED BY <1>2, <1>3

Busy == EVENT_ON + isEnableAddPostEvent + isPendingSaveEvent = 1

(* The number of the last sample that the register may have by now.        *)
LastGiven == IF Busy THEN eventSamples[1] - 1 ELSE WholeBlocks

QuietInv ==
    /\ quiet \in 0 .. preSeconds
    /\ NewestTail(preRegister, quiet * freq, LastGiven)

LEMMA InitQuietInv == InitR => QuietInv
  <1> SUFFICES ASSUME InitR PROVE QuietInv
    OBVIOUS
  <1>1. quiet = 0 /\ preRegister = <<>> /\ 0 * freq = 0
    BY EventDetectorAssumption DEF InitR
  <1> QED BY <1>1, EventDetectorAssumption DEF QuietInv, NewestTail

(* A count that starts again promises nothing.                             *)
LEMMA NothingQuiet ==
    ASSUME quiet' = 0, preRegister' \in Seq(Int)
    PROVE  QuietInv'
  <1>1. 0 * freq = 0
    BY EventDetectorAssumption
  <1> QED BY <1>1, EventDetectorAssumption DEF QuietInv, NewestTail

LEMMA BlockFollows ==
    ASSUME base \in Nat, NEW n \in 0 .. freq
    PROVE  Follows(newSamples, n, base)
  <1>1. Len(newSamples) = freq /\ freq \in Nat
    BY BlockType, EventDetectorAssumption
  <1>2. \A i \in 1 .. freq : newSamples[i] = base + i
    BY DEF newSamples
  <1> QED BY <1>1, <1>2 DEF Follows

(* So many blocks of quiet fit into the register.                          *)
LEMMA QuietBlocks ==
    ASSUME NEW q \in 0 .. preSeconds, NEW r \in 0 .. preSeconds, r <= q + 1
    PROVE  /\ q * freq \in Nat /\ r * freq \in Nat
           /\ r * freq <= q * freq + freq
           /\ r * freq <= preEvent
           /\ freq <= preEvent
  <1>0. freq \in Nat \ {0} /\ preSeconds \in Nat \ {0} /\ preEvent = preSeconds * freq
    BY EventDetectorAssumption DEF preEvent
  <1>1. q * freq \in Nat /\ r * freq \in Nat /\ (q + 1) * freq = q * freq + freq
    BY <1>0, BlocksOrder
  <1>2. r * freq <= (q + 1) * freq
    BY <1>0, ProductOrder
  <1>3. r * freq <= preSeconds * freq
    BY <1>0, ProductOrder
  <1>4. 1 * freq <= preSeconds * freq
    BY <1>0, ProductOrder
  <1> QED BY <1>0, <1>1, <1>2, <1>3, <1>4

(* A sample outside an event: the block goes to the register at its end.   *)
LEMMA BlockQuietInv ==
    ASSUME DetectorInv, RegisterTypes, RegisterTypes', QuietInv, preSeconds <= ltaSeconds,
           BlockToRegister, Sampling, SameBlock, ~Busy, ~Busy'
    PROVE  QuietInv'
  <1>0. /\ freq \in Nat \ {0} /\ preSeconds \in Nat \ {0} /\ preEvent = preSeconds * freq
        /\ base \in Nat /\ base' = base
        /\ count \in 0 .. freq - 1 /\ count' = count + 1
        /\ quiet \in 0 .. preSeconds
        /\ preRegister \in Seq(Int) /\ preRegister' \in Seq(Int)
        /\ newSamples \in Seq(Int) /\ Len(newSamples) = freq
        /\ WholeBlocks = base /\ LastGiven = base
    BY EventDetectorAssumption, BlockType
       DEF DetectorInv, ModeInv, TypeOK, RegisterTypes, QuietInv, Sampling, SameBlock,
           preEvent, WholeBlocks, LastGiven
  <1>1. CASE ~LastOfBlock
    <2>1. UNCHANGED <<preRegister, quiet>>
      BY <1>1 DEF BlockToRegister
    <2>2. LastGiven' = base
      BY <1>0, <1>1 DEF LastOfBlock, LastGiven, WholeBlocks
    <2> QED BY <1>0, <2>1, <2>2 DEF QuietInv
  <1>2. CASE LastOfBlock
    <2>1. /\ preRegister' = AddToRegister(preRegister, newSamples, freq, 0)
          /\ quiet' = Quieter
      BY <1>2 DEF BlockToRegister
    <2>2. LastGiven' = base + freq
      BY <1>0, <1>2 DEF LastOfBlock, LastGiven, WholeBlocks
    <2>3. /\ quiet' \in 0 .. preSeconds
          /\ quiet' <= quiet + 1
      BY <1>0, <2>1 DEF Quieter
    <2>4. /\ quiet * freq \in Nat
          /\ quiet' * freq \in Nat
          /\ quiet' * freq <= quiet * freq + freq
          /\ quiet' * freq <= preEvent
          /\ freq <= preEvent
      BY <1>0, <2>3, QuietBlocks
    <2>5. NewestTail(preRegister, quiet * freq, base)
      BY <1>0 DEF QuietInv
    <2>6. quiet' * freq <= Len(preRegister')
      <3>1. Len(preRegister') = AddSamplesPreEvent(Len(preRegister), freq)
        BY <1>0, <2>1, AddToRegisterType
      <3>2. quiet * freq <= Len(preRegister) /\ Len(preRegister) \in Nat
        BY <1>0, <2>5 DEF NewestTail
      <3> QED BY <1>0, <2>4, <3>1, <3>2 DEF AddSamplesPreEvent
    <2>7. Follows(newSamples, freq, base)
      BY <1>0, BlockFollows
    <2>8. NewestTail(preRegister', quiet' * freq, base + freq)
      <3> DEFINE j == quiet' * freq
                 k == quiet * freq
      <3>1. j \in 0 .. k + freq /\ k \in Nat /\ j <= Len(AddToRegister(preRegister, newSamples, freq, 0))
        BY <1>0, <2>1, <2>4, <2>6
      <3>2. NewestTail(preRegister, k, base) /\ freq <= preEvent
        BY <2>4, <2>5
      <3> HIDE DEF j, k
      <3>3. NewestTail(AddToRegister(preRegister, newSamples, freq, 0), j, base + freq)
        BY <1>0, <2>7, <3>1, <3>2, TailGrows
      <3> QED BY <2>1, <3>3 DEF j
    <2> QED BY <2>2, <2>3, <2>8 DEF QuietInv
  <1> QED BY <1>1, <1>2

(* The trigger takes the block's samples before it.                        *)
LEMMA TriggerQuietInv ==
    ASSUME DetectorInv, RegisterTypes, QuietInv, preSeconds <= ltaSeconds, TriggerR
    PROVE  QuietInv'
  <1>0. /\ freq \in Nat \ {0} /\ preSeconds \in Nat \ {0} /\ preEvent = preSeconds * freq
        /\ base \in Nat
        /\ count \in 0 .. freq - 1
        /\ quiet \in 0 .. preSeconds /\ quiet' = quiet
        /\ preRegister \in Seq(Int)
        /\ newSamples \in Seq(Int) /\ Len(newSamples) = freq
        /\ preRegister' = AddToRegister(preRegister, newSamples, count, 0)
    BY EventDetectorAssumption, BlockType
       DEF DetectorInv, ModeInv, TypeOK, RegisterTypes, QuietInv, preEvent,
           TriggerR, Trigger, Listening, Detecting, Sampling
  <1>1. ~Busy /\ Busy'
    BY <1>0 DEF TriggerR, Trigger, Listening, Busy, DetectorInv, ModeInv, TypeOK
  <1>2. LastGiven = base
    BY <1>0, <1>1 DEF LastGiven, WholeBlocks
  <1>3. eventSamples' = <<Sample>>
    <2>1. countEventSamples = 0
      BY DEF TriggerR, Trigger, Listening, DetectorInv, ModeInv, OnlyOverrunsStrand, TypeOK
    <2>2. eventSamples = <<>>
      BY <2>1 DEF RegisterTypes, CountersMatch
    <2> QED BY <2>2 DEF TriggerR
  <1>4. LastGiven' = base + count
    BY <1>0, <1>1, <1>3 DEF LastGiven, Sample
  <1>5. Len(preRegister) = preEvent
    BY DEF DetectorInv, PreInv, RegisterTypes, CountersMatch, TriggerR, Trigger, Listening, Detecting
  <1>6. /\ quiet * freq \in Nat
        /\ freq <= preEvent
    <2>1. quiet <= quiet + 1
      BY <1>0
    <2> QED BY <1>0, <2>1, QuietBlocks
  <1>7. NewestTail(preRegister, quiet * freq, base)
    BY <1>2 DEF QuietInv
  <1>8. Follows(newSamples, count, base)
    BY <1>0, BlockFollows
  <1>9. Len(preRegister') = preEvent
    <2>1. Len(preRegister') = AddSamplesPreEvent(Len(preRegister), count)
      BY <1>0, AddToRegisterType
    <2> QED BY <1>5, <2>1 DEF AddSamplesPreEvent
  <1>10. NewestTail(preRegister', quiet * freq, base + count)
    <2> DEFINE k == quiet * freq
    <2>0. k \in Nat
      BY <1>6
    <2>2. NewestTail(preRegister, k, base)
      BY <1>7
    <2> HIDE DEF k
    <2>a. k <= preEvent
      BY <1>5, <2>2 DEF NewestTail
    <2>1. /\ k \in 0 .. k + count /\ count \in Nat /\ count <= preEvent
          /\ k <= Len(AddToRegister(preRegister, newSamples, count, 0))
      BY <1>0, <1>6, <1>9, <2>0, <2>a, LengthsType
    <2>3. NewestTail(AddToRegister(preRegister, newSamples, count, 0), k, base + count)
      BY <1>0, <1>8, <2>0, <2>1, <2>2, TailGrows
    <2> QED BY <1>0, <2>3 DEF k
  <1> QED BY <1>0, <1>4, <1>10 DEF QuietInv

LEMMA StepQuietInv ==
    ASSUME preSeconds <= ltaSeconds
    PROVE  DetectorInv /\ RegisterTypes /\ RegisterTypes' /\ QuietInv /\ [NextR]_rvars
             => QuietInv'
  <1> SUFFICES ASSUME DetectorInv, RegisterTypes, RegisterTypes', QuietInv, [NextR]_rvars
               PROVE  QuietInv'
    OBVIOUS
  <1>0. /\ freq \in Nat \ {0} /\ base \in Nat
        /\ eventSamples \in Seq(Int)
        /\ EVENT_ON \in {0, 1} /\ isEnableAddPostEvent \in {0, 1} /\ isPendingSaveEvent \in {0, 1}
        /\ EVENT_ON + isEnableAddPostEvent + isPendingSaveEvent <= 1
        /\ countTempData # lengthLTA
             => EVENT_ON = 0 /\ isEnableAddPostEvent = 0 /\ isPendingSaveEvent = 0
        /\ preRegister' \in Seq(Int)
    BY EventDetectorAssumption
       DEF DetectorInv, ModeInv, ModesExclusive, TypeOK, RegisterTypes
  <1>1. CASE FillSampleR
    <2>1. BlockToRegister /\ Sampling /\ SameBlock /\ ~Busy /\ ~Busy'
      BY <1>0, <1>1 DEF FillSampleR, FillSample, Busy, flags
    <2> QED BY <2>1, BlockQuietInv
  <1>2. CASE QuietSampleR
    <2>1. BlockToRegister /\ Sampling /\ SameBlock /\ ~Busy /\ ~Busy'
      BY <1>0, <1>2 DEF QuietSampleR, QuietSample, Listening, Detecting, Busy
    <2> QED BY <2>1, BlockQuietInv
  <1>3. CASE TriggerR
    BY <1>3, TriggerQuietInv
  <1>4. CASE TriggerWhenFullR \/ OverrunR \/ DiscardEventR \/ SaveEventR
    <2>1. quiet' = 0
      BY <1>4 DEF TriggerWhenFullR, OverrunR, DiscardEventR, SaveEventR
    <2> QED BY <1>0, <2>1, NothingQuiet
  <1>5. ASSUME Busy, Busy', UNCHANGED <<preRegister, quiet>>, eventSamples'[1] = eventSamples[1]
        PROVE  QuietInv'
    <2>1. LastGiven' = LastGiven
      BY <1>5 DEF LastGiven
    <2> QED BY <1>5, <2>1 DEF QuietInv
  <1>6. CASE RecordSampleR
    <2>1. /\ Busy /\ Busy' /\ UNCHANGED <<preRegister, quiet>>
          /\ eventSamples' = Append(eventSamples, Sample)
          /\ EVENT_ON = 1
      BY <1>0, <1>6 DEF RecordSampleR, RecordSample, Listening, Busy
    <2>2. eventSamples # <<>>
      BY <1>0, <2>1 DEF DetectorInv, ModeInv, ModesExclusive, RegisterTypes, CountersMatch
    <2>3. eventSamples'[1] = eventSamples[1]
      BY <1>0, <2>1, <2>2
    <2> QED BY <1>5, <2>1, <2>3
  <1>7. CASE PendingSampleR \/ PostSampleR \/ PostCompleteR \/ CloseEventR
    <2>1. UNCHANGED <<preRegister, quiet, eventSamples>>
      BY <1>7 DEF PendingSampleR, PostSampleR, PostCompleteR, CloseEventR
    <2>2. Busy /\ Busy'
      BY <1>0, <1>7 DEF PendingSampleR, PendingSample, PostSampleR, PostSample, PostCompleteR,
         PostComplete, CloseEventR, CloseEvent, Listening, Closing, Busy, flags
    <2> QED BY <1>5, <2>1, <2>2
  <1>8. CASE NextBlockR
    <2>1. /\ UNCHANGED <<preRegister, quiet, eventSamples, EVENT_ON, isEnableAddPostEvent,
                         isPendingSaveEvent>>
          /\ count = freq /\ count' = 0 /\ base' = base + freq
      BY <1>8 DEF NextBlockR, NextBlock, NewBlock, NewBlockR
    <2>2. LastGiven' = LastGiven
      BY <1>0, <2>1 DEF LastGiven, Busy, WholeBlocks
    <2> QED BY <2>1, <2>2 DEF QuietInv
  <1>9. CASE UNCHANGED rvars
    <2>1. UNCHANGED <<preRegister, quiet, eventSamples, EVENT_ON, isEnableAddPostEvent,
                      isPendingSaveEvent, base, count>>
      BY <1>9 DEF rvars, registers, vars, flags
    <2> QED BY <2>1 DEF QuietInv, LastGiven, Busy, WholeBlocks
  <1> QED BY <1>1, <1>2, <1>3, <1>4, <1>6, <1>7, <1>8, <1>9 DEF NextR, OutOfBlocks

(* The whole register is the newest samples once its newest part is whole. *)
LEMMA QuietIsNewest ==
    ASSUME preSeconds <= ltaSeconds, DetectorInv, RegisterTypes, QuietInv, quiet = preSeconds
    PROVE  preRegister = Newest(preEvent, LastGiven)
  <1>1. /\ preRegister \in Seq(Int) /\ Len(preRegister) <= preEvent /\ preEvent \in Nat
        /\ NewestTail(preRegister, preEvent, LastGiven)
    BY DetectorInvFits, LengthsType
       DEF PreEventFits, RegisterTypes, CountersMatch, QuietInv, preEvent
  <1>2. Len(preRegister) = preEvent
    BY <1>1 DEF NewestTail
  <1>3. \A i \in 1 .. preEvent : preRegister[i] = (LastGiven - preEvent) + i
    BY <1>1, <1>2 DEF NewestTail
  <1>4. preRegister = [i \in 1 .. preEvent |-> preRegister[i]]
    BY <1>1, <1>2
  <1> QED BY <1>3, <1>4 DEF Newest

LEMMA QuietAlways ==
    ASSUME preSeconds <= ltaSeconds
    PROVE  SpecR => [](DetectorInv /\ RegisterTypes /\ QuietInv)
  <1>1. SpecR => []DetectorInv
    BY SpecOfDetector, DetectorInvariant, PTL
  <1>2. DetectorInv /\ RegisterTypes /\ RegisterTypes' /\ QuietInv /\ [NextR]_rvars => QuietInv'
    BY StepQuietInv
  <1> QED BY <1>1, <1>2, RegistersTyped, InitQuietInv, PTL DEF SpecR

(* QuietRegisterIsNewest: what precedes the trigger in the register is     *)
(* what preceded it in the ground.                                         *)
THEOREM QuietRegistersAreNewest == SpecR => []QuietRegisterIsNewest
  <1>1. CASE preSeconds <= ltaSeconds
    <2>1. DetectorInv /\ RegisterTypes /\ QuietInv => QuietRegisterIsNewest
      BY <1>1, QuietIsNewest DEF QuietRegisterIsNewest, LastGiven, Busy
    <2>2. SpecR => [](DetectorInv /\ RegisterTypes /\ QuietInv)
      BY <1>1, QuietAlways
    <2> QED BY <2>1, <2>2, PTL
  <1>2. CASE ~(preSeconds <= ltaSeconds)
    <2>1. QuietRegisterIsNewest
      BY <1>2 DEF QuietRegisterIsNewest
    <2> QED BY <2>1, PTL
  <1> QED BY <1>1, <1>2

(* A register and an event that begins where it ends are one piece.        *)
LEMMA Joined ==
    ASSUME NEW n \in Nat \ {0}, NEW m \in Int, NEW s \in Seq(Int),
           s # <<>>, Contiguous(s), s[1] = m + 1
    PROVE  Contiguous(Newest(n, m) \o s)
  <1> DEFINE whole == Newest(n, m) \o s
  <1>1. Newest(n, m) \in Seq(Int) /\ Len(Newest(n, m)) = n
    BY DEF Newest
  <1>2. \A i \in 1 .. n : Newest(n, m)[i] = (m - n) + i
    BY DEF Newest
  <1>3. /\ Len(whole) = n + Len(s) /\ Len(s) \in Nat \ {0}
        /\ \A i \in 1 .. n + Len(s) : whole[i] = IF i <= n THEN Newest(n, m)[i] ELSE s[i - n]
    <2> DEFINE r == Newest(n, m)
    <2>1. r \in Seq(Int) /\ Len(r) = n
      BY <1>1
    <2>2. Len(s) \in Nat \ {0}
      OBVIOUS
    <2> HIDE DEF r
    <2>3. /\ Len(r \o s) = n + Len(s)
          /\ \A i \in 1 .. n + Len(s) : (r \o s)[i] = IF i <= n THEN r[i] ELSE s[i - n]
      BY <2>1, Concatenated
    <2> QED BY <2>2, <2>3 DEF r
  <1> HIDE DEF whole
  <1>4. ASSUME NEW i \in 1 .. Len(whole) - 1 PROVE whole[i + 1] = whole[i] + 1
    <2>1. i \in 1 .. n + Len(s) /\ i + 1 \in 1 .. n + Len(s)
      BY <1>3
    <2>2. CASE i < n
      <3>1. i \in 1 .. n /\ i + 1 \in 1 .. n
        BY <2>1, <2>2
      <3>2. /\ Newest(n, m)[i] = (m - n) + i
            /\ Newest(n, m)[i + 1] = (m - n) + (i + 1)
        BY <1>2, <3>1
      <3> QED BY <1>3, <2>1, <2>2, <3>2
    <2>3. CASE i = n
      <3>1. Newest(n, m)[i] = (m - n) + i
        BY <1>2, <2>1, <2>3
      <3>2. whole[i] = Newest(n, m)[i] /\ whole[i + 1] = s[1]
        BY <1>3, <2>1, <2>3
      <3> QED BY <2>3, <3>1, <3>2
    <2>4. CASE i > n
      <3>1. i - n \in 1 .. Len(s) - 1 /\ (i - n) + 1 = (i + 1) - n
        BY <1>3, <2>4
      <3>2. s[(i + 1) - n] = s[i - n] + 1
        BY <3>1 DEF Contiguous
      <3> QED BY <1>3, <2>1, <2>4, <3>2
    <2> QED BY <2>2, <2>3, <2>4
  <1> QED BY <1>4 DEF Contiguous, whole

(* QuietFilesJoin: after a quiet time a file has its event's whole         *)
(* beginning.  A register longer than the window is still being filled at  *)
(* the first trigger, hence the assumption.                                *)
THEOREM QuietFilesAreJoined ==
    ASSUME preSeconds <= ltaSeconds
    PROVE  SpecR => []QuietFilesJoin
  <1>1. InitR => QuietFilesJoin
    BY DEF InitR, QuietFilesJoin
  <1>2. ModeInv /\ DetectorInv /\ RegisterTypes /\ QuietInv /\ EventInv /\ QuietFilesJoin
          /\ [NextR]_rvars => QuietFilesJoin'
    <2> SUFFICES ASSUME DetectorInv, RegisterTypes, QuietInv, EventInv, QuietFilesJoin,
                        [NextR]_rvars
                 PROVE  QuietFilesJoin'
      OBVIOUS
    <2>1. CASE SaveEventR
      <3>1. /\ file'.quiet = quiet /\ file'.pre = preRegister /\ file'.event = eventSamples
            /\ isPendingSaveEvent = 1
        BY <2>1 DEF SaveEventR, SaveEvent
      <3>2. Busy
        BY <3>1 DEF DetectorInv, ModeInv, ModesExclusive, TypeOK, Busy
      <3>3. /\ eventSamples \in Seq(Int) /\ eventSamples # <<>>
            /\ Contiguous(eventSamples)
        BY <3>1 DEF DetectorInv, ModeInv, ModesExclusive, RegisterTypes, CountersMatch, EventInv
      <3>4. ASSUME quiet = preSeconds PROVE Contiguous(preRegister \o eventSamples)
        <4> DEFINE m == eventSamples[1] - 1
        <4>1. m \in Int /\ eventSamples[1] = m + 1
          BY <3>3
        <4>2. preRegister = Newest(preEvent, m)
          BY <3>2, <3>4, QuietIsNewest DEF LastGiven
        <4> HIDE DEF m
        <4>3. Contiguous(Newest(preEvent, m) \o eventSamples)
          BY <3>3, <4>1, Joined, LengthsType
        <4> QED BY <4>2, <4>3
      <3> QED BY <3>1, <3>4 DEF QuietFilesJoin
    <2>2. CASE ~SaveEventR
      <3>1. file' = file
        BY <2>2 DEF NextR, rvars, OutOfBlocks, FillSampleR, PendingSampleR, PostSampleR,
           PostCompleteR, QuietSampleR, TriggerR, TriggerWhenFullR, RecordSampleR, OverrunR,
           CloseEventR, DiscardEventR, NextBlockR, SameBlock
      <3> QED BY <3>1 DEF QuietFilesJoin
    <2> QED BY <2>1, <2>2
  <1>3. SpecR => [](DetectorInv /\ RegisterTypes /\ QuietInv)
    BY QuietAlways
  <1> QED BY <1>1, <1>2, <1>3, RegistersTyped, EventAlwaysInv, PTL DEF SpecR

=============================================================================

--------------------------- MODULE SamplingProofs ---------------------------
(***************************************************************************)
(* For every block length, every number of blocks and every failure of a   *)
(* transfer or a pin: the sums of the detector keep following the samples  *)
(* they are handed, and a failure spoils no sample but its own.            *)
(***************************************************************************)
EXTENDS Sampling, StaLtaProofs, FiniteSetTheorems, FunctionTheorems

-----------------------------------------------------------------------------
(* The detector of the composition is the one of StaLta.                   *)
LEMMA StepOfWindows == [Next]_svars => [NextWindows]_wvars
  <1> SUFFICES ASSUME [Next]_svars PROVE [NextWindows]_wvars
    OBVIOUS
  <1>1. CASE Hand
    <2> DEFINE handed == [i \in 0 .. freq - 1 |-> Value(Thinned(Watched)[i])]
    <2>1. handed \in [0 .. freq - 1 -> Samples]
      BY SamplingAssumption DEF Value
    <2>2. TakeBlock(handed)
      BY <1>1 DEF Hand
    <2> QED BY <2>1, <2>2 DEF NextWindows
  <1>2. CASE Detect
    BY <1>2 DEF Detect, NextWindows
  <1>3. CASE Read \/ Device \/ Resume \/ Stop \/ UNCHANGED svars
    BY <1>3 DEF Read, Device, Resume, Stop, svars
  <1> QED BY <1>1, <1>2, <1>3 DEF Next

(* WindowErrorIsFixed of the program that reads its samples itself.        *)
THEOREM WindowErrorStaysFixedWhileReading == Spec => []WindowErrorIsFixed
  <1>1. Init => InitWindows
    BY DEF Init
  <1>2. Spec => SpecWindows
    BY <1>1, StepOfWindows, PTL DEF Spec, SpecWindows
  <1> QED BY <1>2, WindowErrorStaysFixed, PTL

-----------------------------------------------------------------------------
(* The samples of the block so far, and whose conversion they should be.   *)
Rounds == 0 .. MAX_SPS - 1
Own(a, r) == [axis |-> a, block |-> block, round |-> r]
Got(a, r) == r < round \/ phase = "full" \/ (r = round /\ a < axis)
Held(a, r) == IF r < round \/ phase = "full" THEN data[a][r] ELSE recv[a]
SpoiledSoFar == {p \in Axes \X Rounds : Got(p[1], p[2]) /\ Held(p[1], p[2]) # Own(p[1], p[2])}

(* The conversion that DRDY announces, or will announce, is the right one. *)
Coming ==
    /\ mux = axis
    /\ \/ converting /\ drdy = "HIGH"
       \/ drdy = "LOW" /\ result = Own(axis, round)

(* A sample that is about to be spoiled has had its failure already.       *)
Owed == IF phase = "wait" /\ ~Coming THEN 1 ELSE 0

AdcTypes ==
    /\ round \in Rounds /\ axis \in Axes
    /\ phase \in {"start", "wait", "full", "ended"}
    /\ phase = "full" => round = MAX_SPS - 1
    /\ faults \in Nat
    /\ recv = [a \in Axes |-> recv[a]]
    /\ data = [a \in Axes |-> [i \in Rounds |-> data[a][i]]]

FaultInv == AdcTypes /\ Cardinality(SpoiledSoFar) + Owed <= faults

LEMMA SpoiledFinite ==
    IsFiniteSet(SpoiledSoFar) /\ Cardinality(SpoiledSoFar) \in Nat
  <1>0. MAX_SPS - 1 \in Int
    BY AdcAssumption
  <1>1. IsFiniteSet(Axes) /\ IsFiniteSet(Rounds)
    <2>1. IsFiniteSet(1 .. 3)
      BY 1 \in Int, 3 \in Int, FS_Interval, Zenon
    <2>2. IsFiniteSet(0 .. MAX_SPS - 1)
      BY <1>0, FS_Interval
    <2> QED BY <2>1, <2>2 DEF Axes, Rounds
  <1>2. IsFiniteSet(Axes \X Rounds)
    BY <1>1, FS_Product
  <1>3. SpoiledSoFar \in SUBSET (Axes \X Rounds)
    BY DEF SpoiledSoFar
  <1>4. IsFiniteSet(SpoiledSoFar)
    BY <1>2, <1>3, FS_Subset
  <1> QED BY <1>4, FS_CardinalityType

LEMMA NoSampleYet ==
    ASSUME round = 0, axis = 1, phase = "start"
    PROVE  Cardinality(SpoiledSoFar) = 0 /\ Owed = 0
  <1>1. SpoiledSoFar = {}
    BY DEF SpoiledSoFar, Got, Axes, Rounds
  <1> QED BY <1>1, FS_EmptySet DEF Owed

LEMMA InitFaultInv == Init => FaultInv
  <1> SUFFICES ASSUME Init PROVE FaultInv
    OBVIOUS
  <1>1. AdcTypes
    BY AdcAssumption DEF Init, InitAdc, AdcTypes, Axes, Rounds, Empty
  <1>2. Cardinality(SpoiledSoFar) = 0 /\ Owed = 0
    BY NoSampleYet DEF Init, InitAdc
  <1> QED BY <1>1, <1>2 DEF FaultInv, Init, InitAdc

-----------------------------------------------------------------------------
(* The steps of the reader and of the converter.                           *)

(* A result that is read is the only sample a step can add.                *)
LEMMA OneMore ==
    ASSUME AdcTypes, ReadResult
    PROVE  /\ SpoiledSoFar' \subseteq SpoiledSoFar \cup {<<axis, round>>}
           /\ recv'[axis] = Own(axis, round) => SpoiledSoFar' \subseteq SpoiledSoFar
  <1>0. /\ MAX_SPS \in Nat \ {0} /\ Axes = {1, 2, 3} /\ axis \in Axes /\ round \in Rounds
        /\ phase = "wait" /\ block' = block
    BY AdcAssumption DEF AdcTypes, ReadResult, Axes
  <1>1. /\ \A a \in Axes \ {axis} : recv'[a] = recv[a]
        /\ recv' = [a \in Axes |-> recv'[a]]
    <2>1. recv' = recv \/ recv' = [recv EXCEPT ![axis] = result]
      BY DEF ReadResult
    <2>2. recv = [a \in Axes |-> recv[a]]
      BY DEF AdcTypes
    <2> QED BY <2>1, <2>2
  <1>2. ASSUME NEW a \in Axes, NEW r \in Rounds, Got(a, r)', <<a, r>> # <<axis, round>>
        PROVE  Got(a, r) /\ Held(a, r)' = Held(a, r)
    <2>1. CASE axis < 3
      BY <1>0, <1>1, <1>2, <2>1 DEF ReadResult, Advance, Got, Held, Rounds
    <2>2. CASE axis = 3
      <3>1. /\ data' = [b \in Axes |-> [data[b] EXCEPT ![round] = recv'[b]]]
            /\ axis' = 1
            /\ IF round = MAX_SPS - 1 THEN phase' = "full" /\ round' = round
               ELSE phase' = "start" /\ round' = round + 1
        BY <2>2 DEF ReadResult, Advance
      <3>2. data[a] = [i \in Rounds |-> data[a][i]]
        BY DEF AdcTypes
      <3>3. data'[a][r] = IF r = round THEN recv'[a] ELSE data[a][r]
        BY <3>1, <3>2
      <3>4. r <= round
        BY <1>0, <1>2, <3>1 DEF Got, Rounds
      <3>5. Held(a, r)' = data'[a][r]
        BY <1>0, <3>1, <3>4 DEF Held, Rounds
      <3>6. r = round => a < axis
        BY <1>0, <1>2, <2>2
      <3>7. Held(a, r) = IF r < round THEN data[a][r] ELSE recv[a]
        BY <1>0 DEF Held
      <3> QED BY <1>0, <1>1, <3>3, <3>4, <3>5, <3>6, <3>7 DEF Got, Rounds
    <2> QED BY <1>0, <2>1, <2>2
  <1>3. ASSUME NEW a \in Axes, NEW r \in Rounds, Got(a, r)', a = axis, r = round
        PROVE  Held(a, r)' = recv'[axis]
    <2>1. CASE axis < 3
      BY <1>0, <1>3, <2>1 DEF ReadResult, Advance, Got, Held, Rounds
    <2>2. CASE axis = 3
      <3>1. /\ data' = [b \in Axes |-> [data[b] EXCEPT ![round] = recv'[b]]]
            /\ IF round = MAX_SPS - 1 THEN phase' = "full" /\ round' = round
               ELSE phase' = "start" /\ round' = round + 1
        BY <2>2 DEF ReadResult, Advance
      <3>2. data[a] = [i \in Rounds |-> data[a][i]]
        BY DEF AdcTypes
      <3>3. data'[a][r] = recv'[axis]
        BY <1>3, <3>1, <3>2
      <3> QED BY <1>0, <1>3, <3>1, <3>3 DEF Held, Rounds
    <2> QED BY <1>0, <2>1, <2>2
  <1>4. \A a, r : Own(a, r)' = Own(a, r)
    BY <1>0 DEF Own
  <1>5. ASSUME NEW p \in SpoiledSoFar'
        PROVE  /\ p \in SpoiledSoFar \cup {<<axis, round>>}
               /\ recv'[axis] = Own(axis, round) => p \in SpoiledSoFar
    <2>1. PICK a \in Axes, r \in Rounds : p = <<a, r>>
      BY DEF SpoiledSoFar
    <2>2. Got(a, r)' /\ Held(a, r)' # Own(a, r)
      BY <1>4, <2>1 DEF SpoiledSoFar
    <2>3. CASE <<a, r>> = <<axis, round>>
      BY <1>3, <2>1, <2>2, <2>3
    <2>4. CASE <<a, r>> # <<axis, round>>
      BY <1>2, <2>1, <2>2, <2>4 DEF SpoiledSoFar
    <2> QED BY <2>3, <2>4
  <1> QED BY <1>5

LEMMA StepAdcTypes == AdcTypes /\ [Next]_svars => AdcTypes'
  <1> SUFFICES ASSUME AdcTypes, [Next]_svars PROVE AdcTypes'
    OBVIOUS
  <1>0. MAX_SPS \in Nat \ {0} /\ MaxFaults \in Nat /\ Axes = {1, 2, 3}
    BY AdcAssumption DEF Axes
  <1>1. CASE StartConversion
    BY <1>0, <1>1 DEF StartConversion, Count, AdcTypes
  <1>2. CASE ReadResult
    <2>1. faults' \in Nat
      BY <1>2 DEF ReadResult, Count, AdcTypes
    <2>2. recv' = [a \in Axes |-> recv'[a]]
      <3>1. recv' = recv \/ recv' = [recv EXCEPT ![axis] = result]
        BY <1>2 DEF ReadResult
      <3> QED BY <3>1 DEF AdcTypes
    <2>3. data' = [a \in Axes |-> [i \in Rounds |-> data'[a][i]]]
      <3>1. CASE data' = data
        BY <3>1 DEF AdcTypes
      <3>2. CASE data' = [a \in Axes |-> [data[a] EXCEPT ![round] = recv'[a]]]
        BY <3>2 DEF AdcTypes
      <3> QED BY <1>2, <3>1, <3>2 DEF ReadResult, Advance
    <2>4. /\ round' \in Rounds /\ axis' \in Axes
          /\ phase' \in {"start", "wait", "full", "ended"}
          /\ phase' = "full" => round' = MAX_SPS - 1
      BY <1>0, <1>2 DEF ReadResult, Advance, AdcTypes, Rounds
    <2> QED BY <2>1, <2>2, <2>3, <2>4 DEF AdcTypes
  <1>3. CASE NextBlock
    BY <1>0, <1>3 DEF NextBlock, AdcTypes, Empty, Rounds
  <1>4. CASE Convert \/ UNCHANGED avars
    BY <1>4 DEF Convert, avars, AdcTypes
  <1>5. CASE DrdyNotOpened
    BY <1>0, <1>5 DEF DrdyNotOpened, Count, AdcTypes
  <1> QED BY <1>1, <1>2, <1>3, <1>4, <1>5
          DEF Next, Read, ReadBlock, Device, Resume, Hand, Detect, Stop, svars

(* The samples so far do not depend on the rest of the state.              *)
LEMMA SameSamples ==
    ASSUME UNCHANGED <<block, round, axis, recv, data>>, (phase = "full") <=> (phase' = "full")
    PROVE  SpoiledSoFar' = SpoiledSoFar
  <1>1. \A a, r : Got(a, r)' = Got(a, r) /\ Held(a, r)' = Held(a, r) /\ Own(a, r)' = Own(a, r)
    BY DEF Got, Held, Own
  <1> QED BY <1>1 DEF SpoiledSoFar

LEMMA StepFaultInv == FaultInv /\ [Next]_svars => FaultInv'
  <1> SUFFICES ASSUME FaultInv, [Next]_svars PROVE FaultInv'
    OBVIOUS
  <1>0. /\ AdcTypes /\ AdcTypes'
        /\ Cardinality(SpoiledSoFar) \in Nat
        /\ Cardinality(SpoiledSoFar) + Owed <= faults
        /\ Owed \in {0, 1} /\ Owed' \in {0, 1}
        /\ faults \in Nat /\ faults' \in Nat
    BY StepAdcTypes, SpoiledFinite DEF FaultInv, AdcTypes, Owed
  <1> DEFINE spoiled == Cardinality(SpoiledSoFar)
  <1> SUFFICES spoiled' + Owed' <= faults'
    BY <1>0 DEF FaultInv
  <1>1. CASE StartConversion
    <2>1. PICK selected \in BOOLEAN, pulsed \in BOOLEAN :
             /\ Count((IF selected THEN 0 ELSE 1) + (IF pulsed THEN 0 ELSE 1))
             /\ mux' = IF selected THEN axis ELSE mux
             /\ IF pulsed THEN drdy' = "HIGH" /\ converting' = TRUE
                          ELSE UNCHANGED <<drdy, converting>>
      BY <1>1 DEF StartConversion
    <2>2. SpoiledSoFar' = SpoiledSoFar
      BY <1>1, SameSamples DEF StartConversion
    <2>3. Owed = 0
      BY <1>1 DEF StartConversion, Owed
    <2>4. CASE selected /\ pulsed
      <3>1. Coming' /\ faults' = faults
        BY <1>0, <1>1, <2>1, <2>4 DEF Coming, StartConversion, Count
      <3>2. Owed' = 0
        BY <3>1 DEF Owed
      <3> QED BY <1>0, <2>2, <2>3, <3>1, <3>2
    <2>5. CASE ~(selected /\ pulsed)
      <3>1. faults' >= faults + 1
        BY <1>0, <2>1, <2>5 DEF Count
      <3> QED BY <1>0, <2>2, <2>3, <3>1
    <2> QED BY <2>4, <2>5
  <1>2. CASE ReadResult
    <2>1. PICK misread \in BOOLEAN, received \in BOOLEAN :
             /\ Count((IF misread THEN 1 ELSE 0) + (IF received THEN 0 ELSE 1))
             /\ misread # (drdy = "LOW")
             /\ recv' = IF received THEN [recv EXCEPT ![axis] = result] ELSE recv
      BY <1>2 DEF ReadResult
    <2>2. phase = "wait" /\ Owed' = 0
      BY <1>2 DEF ReadResult, Advance, Owed
    <2>3. spoiled' <= spoiled + 1 /\ spoiled' \in Nat
      <3>1. SpoiledSoFar' \subseteq SpoiledSoFar \cup {<<axis, round>>}
        BY <1>0, <1>2, OneMore
      <3>2. /\ IsFiniteSet(SpoiledSoFar \cup {<<axis, round>>})
            /\ Cardinality(SpoiledSoFar \cup {<<axis, round>>}) <= spoiled + 1
        <4>1. IsFiniteSet(SpoiledSoFar)
          BY SpoiledFinite
        <4> DEFINE more == SpoiledSoFar \cup {<<axis, round>>}
        <4>2. /\ IsFiniteSet(more)
              /\ Cardinality(more) = IF <<axis, round>> \in SpoiledSoFar THEN spoiled
                                     ELSE spoiled + 1
          BY <4>1, FS_AddElement, Zenon
        <4> HIDE DEF more
        <4>3. Cardinality(more) <= spoiled + 1
          BY <1>0, <4>2
        <4> QED BY <4>2, <4>3 DEF more
      <3>3. /\ IsFiniteSet(SpoiledSoFar')
            /\ spoiled' <= Cardinality(SpoiledSoFar \cup {<<axis, round>>})
        BY <3>1, <3>2, FS_Subset
      <3>4. /\ spoiled' \in Nat
            /\ Cardinality(SpoiledSoFar \cup {<<axis, round>>}) \in Nat
        BY <3>2, <3>3, FS_CardinalityType
      <3> QED BY <1>0, <3>2, <3>3, <3>4
    <2>4. CASE ~misread /\ received /\ Coming
      <3>1. recv'[axis] = Own(axis, round)
        BY <1>0, <2>1, <2>4 DEF Coming, AdcTypes
      <3>2. SpoiledSoFar' \subseteq SpoiledSoFar
        BY <1>0, <1>2, <3>1, OneMore
      <3>3. spoiled' <= spoiled
        BY <3>2, SpoiledFinite, FS_Subset
      <3>4. faults' = faults
        BY <1>0, <2>1, <2>4 DEF Count
      <3> QED BY <1>0, <2>2, <2>3, <3>3, <3>4
    <2>5. CASE ~Coming
      <3>1. Owed = 1
        BY <2>2, <2>5 DEF Owed
      <3>2. faults' >= faults
        BY <1>0, <2>1 DEF Count
      <3> QED BY <1>0, <2>2, <2>3, <3>1, <3>2
    <2>6. CASE misread \/ ~received
      <3>1. faults' >= faults + 1
        BY <1>0, <2>1, <2>6 DEF Count
      <3> QED BY <1>0, <2>2, <2>3, <3>1
    <2> QED BY <2>4, <2>5, <2>6
  <1>3. CASE NextBlock
    <2>1. round' = 0 /\ axis' = 1 /\ phase' = "start" /\ faults' = 0
      BY <1>3 DEF NextBlock
    <2>2. SpoiledSoFar' = {}
      BY <2>1 DEF SpoiledSoFar, Got, Axes, Rounds
    <2>3. spoiled' = 0 /\ Owed' = 0
      BY <2>1, <2>2, FS_EmptySet DEF Owed
    <2> QED BY <2>1, <2>3
  <1>4. CASE Convert
    <2>1. SpoiledSoFar' = SpoiledSoFar /\ faults' = faults /\ phase' = phase
      BY <1>4, SameSamples DEF Convert
    <2>2. Coming => Coming'
      BY <1>4 DEF Convert, Coming, Own
    <2>3. Owed' <= Owed
      BY <1>0, <2>1, <2>2 DEF Owed
    <2> QED BY <1>0, <2>1, <2>3
  <1>5. CASE UNCHANGED avars
    <2>1. SpoiledSoFar' = SpoiledSoFar /\ faults' = faults
      BY <1>5, SameSamples DEF avars
    <2>2. Owed' = Owed
      BY <1>5 DEF avars, Owed, Coming, Own
    <2> QED BY <1>0, <2>1, <2>2
  <1>6. CASE DrdyNotOpened
    <2>1. SpoiledSoFar' = SpoiledSoFar
      BY <1>6, SameSamples DEF DrdyNotOpened
    <2>2. Owed' = 0 /\ faults' = faults + 1
      BY <1>6 DEF DrdyNotOpened, Count, Owed
    <2> QED BY <1>0, <2>1, <2>2
  <1> QED BY <1>1, <1>2, <1>3, <1>4, <1>5, <1>6
          DEF Next, Read, ReadBlock, Device, Resume, Hand, Detect, Stop, svars

(* Of the samples that are kept, no more are spoiled.                      *)
LEMMA FewAreKept == FaultInv => FaultsSpoilFewSamples
  <1> SUFFICES ASSUME FaultInv, phase = "full"
               PROVE  Cardinality(Spoiled) <= faults
    BY DEF FaultsSpoilFewSamples
  <1>0. freq \in Nat \ {0} /\ MAX_SPS \in Nat \ {0} /\ MAX_SPS % freq = 0
    BY StaLtaAssumption, AdcAssumption, SamplingAssumption
  <1>1. factor \in Nat \ {0} /\ MAX_SPS = factor * freq
    <2>1. MAX_SPS = (MAX_SPS \div freq) * freq + (MAX_SPS % freq) /\ MAX_SPS \div freq \in Nat
      BY <1>0
    <2>2. MAX_SPS \div freq # 0
      <3>1. 0 * freq = 0
        BY <1>0
      <3> QED BY <1>0, <2>1, <3>1
    <2> QED BY <1>0, <2>1, <2>2 DEF factor
  <1>2. ASSUME NEW i \in 0 .. freq - 1 PROVE i * factor \in Rounds
    <2>1. i * factor \in Nat
      BY <1>1
    <2>2. (freq - 1 - i) * factor \in Nat
      BY <1>0, <1>1
    <2>3. (freq - 1 - i) * factor = (freq - 1) * factor - i * factor
      BY <1>0, <1>1
    <2>4. (freq - 1) * factor = factor * freq - factor
      BY <1>0, <1>1
    <2> QED BY <1>0, <1>1, <2>1, <2>2, <2>3, <2>4 DEF Rounds
  <1>3. ASSUME NEW i \in 0 .. freq - 1, NEW j \in 0 .. freq - 1, i * factor = j * factor
        PROVE  i = j
    BY <1>1, <1>3
  <1> DEFINE kept == [p \in Spoiled |-> <<p[1], p[2] * factor>>]
  <1>4. ASSUME NEW p \in Spoiled
        PROVE  /\ p = <<p[1], p[2]>> /\ p[1] \in Axes /\ p[2] \in 0 .. freq - 1
               /\ kept[p] \in SpoiledSoFar
    <2>1. /\ p = <<p[1], p[2]>> /\ p[1] \in Axes /\ p[2] \in 0 .. freq - 1
          /\ Thinned(p[1])[p[2]] # Own(p[1], p[2] * factor)
      BY DEF Spoiled, Own
    <2>2. Held(p[1], p[2] * factor) # Own(p[1], p[2] * factor)
      BY <2>1 DEF Thinned, Held
    <2>3. Got(p[1], p[2] * factor) /\ p[2] * factor \in Rounds
      BY <1>2, <2>1 DEF Got
    <2> QED BY <2>1, <2>2, <2>3 DEF SpoiledSoFar
  <1>5. kept \in Injection(Spoiled, SpoiledSoFar)
    <2>1. kept \in [Spoiled -> SpoiledSoFar]
      BY <1>4
    <2>2. ASSUME NEW p \in Spoiled, NEW q \in Spoiled, kept[p] = kept[q] PROVE p = q
      <3>1. p[1] = q[1] /\ p[2] * factor = q[2] * factor
        BY <2>2
      <3>2. p[2] = q[2]
        BY <1>3, <1>4, <3>1
      <3> QED BY <1>4, <3>1, <3>2
    <2> QED BY <2>1, <2>2, Fun_IsInj
  <1> HIDE DEF kept
  <1>6. IsFiniteSet(Spoiled) /\ Cardinality(Spoiled) <= Cardinality(SpoiledSoFar)
    BY <1>5, SpoiledFinite, FS_Injection
  <1>7. Cardinality(SpoiledSoFar) <= faults
    BY SpoiledFinite DEF FaultInv, Owed, AdcTypes
  <1>8. Cardinality(Spoiled) \in Nat /\ faults \in Nat
    BY <1>6, FS_CardinalityType DEF FaultInv, AdcTypes
  <1> QED BY <1>6, <1>7, <1>8, SpoiledFinite

(* FaultsSpoilFewSamples for every thinning of every number of samples.    *)
THEOREM FaultsSpoilFew == Spec => []FaultsSpoilFewSamples
  BY InitFaultInv, StepFaultInv, FewAreKept, PTL DEF Spec

=============================================================================

---------------------------- MODULE StaLtaProofs ----------------------------
(***************************************************************************)
(* The running sums of the detector for every length of block and windows  *)
(* and every signal: they follow their windows for ever, with the error    *)
(* they were started with.                                                 *)
(***************************************************************************)
EXTENDS StaLta, TLAPS

L == lengthLTA

-----------------------------------------------------------------------------
(* Whole blocks.                                                           *)

(* No multiple of f lies strictly between 0 and f.                         *)
LEMMA Multiple ==
    ASSUME NEW f \in Nat \ {0}, NEW q \in Int, -f < q * f, q * f < f
    PROVE  q = 0
  <1>1. CASE q >= 1
    <2>1. (q - 1) * f = q * f - f
      OBVIOUS
    <2>2. (q - 1) * f >= 0
      BY <1>1
    <2> QED BY <2>1, <2>2
  <1>2. CASE q <= -1
    <2>1. (-1 - q) * f = -f - q * f
      OBVIOUS
    <2>2. (-1 - q) * f >= 0
      BY <1>2
    <2> QED BY <2>1, <2>2
  <1> QED BY <1>1, <1>2

(* The long window is a whole number of blocks, and not empty.             *)
LEMMA WholeWindow ==
    /\ L \in Nat \ {0} /\ freq \in Nat \ {0} /\ freq <= L
    /\ lengthSTA \in 1 .. L
    /\ \E m \in Int : L = m * freq
  <1>1. /\ L \in Nat \ {0} /\ freq \in Nat \ {0} /\ L % freq = 0
        /\ lengthSTA \in 1 .. L
    BY StaLtaAssumption DEF L
  <1>2. L = (L \div freq) * freq + (L % freq) /\ L \div freq \in Int
    BY <1>1
  <1>3. freq <= L
    <2>1. ASSUME L < freq PROVE FALSE
      <3>1. L % freq = L
        BY <1>1, <2>1
      <3> QED BY <1>1, <3>1
    <2> QED BY <1>1, <2>1
  <1>4. L = (L \div freq) * freq
    BY <1>1, <1>2
  <1> QED BY <1>1, <1>2, <1>3, <1>4

(* a and b are in the same place of a block.                               *)
Aligned(a, b) == \E q \in Int : a = q * freq + b

LEMMA AlignedNext ==
    ASSUME NEW a \in Int, NEW b \in Int, Aligned(a, b)
    PROVE  Aligned(a + 1, b + 1) /\ Aligned(a, b - freq)
  <1>1. PICK q \in Int : a = q * freq + b
    BY DEF Aligned
  <1>2. freq \in Nat \ {0}
    BY WholeWindow
  <1>3. (q + 1) * freq = q * freq + freq
    BY <1>2
  <1>4. a + 1 = q * freq + (b + 1) /\ a = (q + 1) * freq + (b - freq)
    BY <1>1, <1>2, <1>3
  <1> QED BY <1>4 DEF Aligned

(* The end of the window is the end of a block.                            *)
LEMMA AlignedEnd ==
    ASSUME NEW b \in 0 .. freq - 1
    PROVE  /\ Aligned(L, b) => b = 0
           /\ Aligned(L - 1, b) => b = freq - 1
           /\ Aligned(0, b) => b = 0
  <1>0. freq \in Nat \ {0} /\ L \in Nat
    BY WholeWindow
  <1>1. PICK m \in Int : L = m * freq
    BY WholeWindow
  <1>2. ASSUME Aligned(L, b) PROVE b = 0
    <2>1. PICK q \in Int : L = q * freq + b
      BY <1>2 DEF Aligned
    <2>2. (m - q) * freq = m * freq - q * freq
      BY <1>0
    <2>3. m - q = 0
      BY <1>0, <1>1, <2>1, <2>2, Multiple
    <2>4. (m - q) * freq = 0
      BY <1>0, <2>3
    <2> QED BY <1>0, <1>1, <2>1, <2>2, <2>4
  <1>3. ASSUME Aligned(L - 1, b) PROVE b = freq - 1
    <2>1. PICK q \in Int : L - 1 = q * freq + b
      BY <1>3 DEF Aligned
    <2>2. (m - q - 1) * freq = m * freq - q * freq - freq
      BY <1>0
    <2>3. m - q - 1 = 0
      BY <1>0, <1>1, <2>1, <2>2, Multiple
    <2>4. (m - q - 1) * freq = 0
      BY <1>0, <2>3
    <2> QED BY <1>0, <1>1, <2>1, <2>2, <2>4
  <1>4. ASSUME Aligned(0, b) PROVE b = 0
    <2>1. PICK q \in Int : 0 = q * freq + b
      BY <1>4 DEF Aligned
    <2>2. q = 0
      BY <1>0, <2>1, Multiple
    <2>3. q * freq = 0
      BY <1>0, <2>2
    <2> QED BY <1>0, <2>1, <2>3
  <1> QED BY <1>2, <1>3, <1>4

-----------------------------------------------------------------------------
(* The state.  Nth(total, k) is the k-th sample since the start; Base came  *)
(* before the block at hand, or up to its end when it has been gone through.*)
Nth(sums, k) == sums[k + 1] - sums[k]
Base == IF count = freq THEN Taken ELSE Taken - count

TypesOK ==
    /\ newSamples \in [0 .. freq - 1 -> Int]
    /\ count \in 0 .. freq
    /\ tempData \in [Places -> Int]
    /\ countTempData \in 0 .. L
    /\ sta \in [Places -> Int] /\ lta \in [Places -> Int]
    /\ countLTA_STA \in 0 .. L
    /\ first \in 0 .. L
    /\ total \in Seq(Int) /\ Len(total) >= 1 /\ total[1] = 0

(* Register, window and first sums come one after the other, and the       *)
(* window turns in step with the blocks.                                   *)
PhasesOK ==
    /\ Aligned(Taken, count)
    /\ Aligned(countLTA_STA, count) \/ countTempData < L
    /\ countTempData < L => countTempData = Taken /\ first = L /\ countLTA_STA = 0
    /\ countTempData = L => Base >= L
    /\ first < L => /\ count = freq /\ countTempData = L
                    /\ Taken = L /\ countLTA_STA = 0

(* What the block and the register hold.                                   *)
ContentsOK ==
    /\ Taken # 0 => \A i \in 0 .. count - 1 : newSamples[i] = Nth(total, Taken - count + i + 1)
    /\ countTempData < L => \A i \in 0 .. countTempData - 1 : tempData[i] = Nth(total, i + 1)
    /\ countTempData = L => \A i \in Places : tempData[i] = Nth(total, Base - L + i + 1)

(* The first sums, as far as they have been made.                          *)
SumOfFirst(k) == total[k + 2] - total[k + 2 - lengthSTA] - First(lengthSTA - 2)

FirstSumsOK ==
    first < L => \A k \in lengthSTA - 1 .. first - 1 : sta[k] = SumOfFirst(k)

WindowInv == TypesOK /\ PhasesOK /\ ContentsOK /\ FirstSumsOK /\ WindowErrorIsFixed

-----------------------------------------------------------------------------
LEMMA InitWindowInv == InitWindows => WindowInv
  <1> SUFFICES ASSUME InitWindows PROVE WindowInv
    OBVIOUS
  <1>0. L \in Nat \ {0} /\ freq \in Nat \ {0} /\ lengthSTA \in 1 .. L
    BY WholeWindow
  <1>1. Taken = 0
    BY DEF InitWindows, Taken
  <1>2. TypesOK
    BY <1>0 DEF InitWindows, TypesOK, Places, L
  <1>3. PhasesOK
    <2>1. 0 = (-1) * freq + freq
      BY <1>0
    <2>2. Aligned(0, freq)
      BY <2>1 DEF Aligned
    <2> QED BY <1>0, <1>1, <2>2 DEF InitWindows, PhasesOK, L
  <1>4. ContentsOK
    BY <1>0, <1>1 DEF InitWindows, ContentsOK, L
  <1>5. FirstSumsOK /\ WindowErrorIsFixed
    BY <1>0 DEF InitWindows, FirstSumsOK, WindowErrorIsFixed, Full, L
  <1> QED BY <1>2, <1>3, <1>4, <1>5 DEF WindowInv

(* A sample is added to the signal; nothing changes before it.             *)
LEMMA IterationTotal ==
    ASSUME TypesOK, PhasesOK, Iteration
    PROVE  /\ total' \in Seq(Int) /\ Len(total') = Len(total) + 1
           /\ Taken \in Nat /\ Taken' = Taken + 1 /\ Len(total) = Taken + 1
           /\ \A j \in 1 .. Taken + 1 : total'[j] = total[j]
           /\ total'[Taken + 2] = total[Taken + 1] + newSamples[count]
           /\ \A k \in 1 .. Taken : Nth(total', k) = Nth(total, k)
           /\ Nth(total', Taken + 1) = newSamples[count]
           /\ count \in 0 .. freq - 1 /\ count' = count + 1 /\ newSamples[count] \in Int
           /\ Aligned(Taken', count')
  <1>0. freq \in Nat \ {0}
    BY WholeWindow
  <1>1. count \in 0 .. freq - 1 /\ count' = count + 1 /\ newSamples[count] \in Int
    BY <1>0 DEF Iteration, TypesOK
  <1>2. /\ total \in Seq(Int) /\ Len(total) \in Nat /\ Len(total) >= 1
        /\ total[Len(total)] \in Int
    BY DEF TypesOK
  <1>3. total[Len(total)] + newSamples[count] \in Int
    BY <1>1, <1>2
  <1>4. total' = Append(total, total[Len(total)] + newSamples[count])
    BY DEF Iteration
  <1>5. /\ total' \in Seq(Int) /\ Len(total') = Len(total) + 1
        /\ \A j \in 1 .. Len(total) : total'[j] = total[j]
        /\ total'[Len(total) + 1] = total[Len(total)] + newSamples[count]
    BY <1>2, <1>3, <1>4
  <1>6. Taken \in Nat /\ Len(total) = Taken + 1 /\ Taken' = Taken + 1
    BY <1>2, <1>5 DEF Taken
  <1>7. \A k \in 1 .. Taken : Nth(total', k) = Nth(total, k)
    BY <1>5, <1>6 DEF Nth
  <1>8. Nth(total', Taken + 1) = newSamples[count]
    BY <1>1, <1>2, <1>5, <1>6 DEF Nth
  <1>9. Aligned(Taken', count')
    BY <1>1, <1>6, AlignedNext DEF PhasesOK
  <1> QED BY <1>1, <1>5, <1>6, <1>7, <1>8, <1>9

(* A block's samples count from its beginning.                             *)
LEMMA TakenCoversBlock ==
    ASSUME NEW a \in Nat, NEW b \in 0 .. freq - 1, Aligned(a, b)
    PROVE  a >= b
  <1>0. freq \in Nat \ {0}
    BY WholeWindow
  <1>1. PICK q \in Int : a = q * freq + b
    BY DEF Aligned
  <1>2. CASE q >= 0
    <2>1. q * freq >= 0
      BY <1>0, <1>2
    <2> QED BY <1>0, <1>1, <2>1
  <1>3. CASE q <= -1
    <2>1. (-1 - q) * freq = -freq - q * freq /\ (-1 - q) * freq >= 0
      BY <1>0, <1>3
    <2> QED BY <1>0, <1>1, <2>1
  <1> QED BY <1>1, <1>2, <1>3

(* The block goes on holding the newest samples.                           *)
LEMMA IterationBlock ==
    ASSUME TypesOK, PhasesOK, ContentsOK, Iteration, UNCHANGED newSamples
    PROVE  \A i \in 0 .. count' - 1 : newSamples'[i] = Nth(total', Taken' - count' + i + 1)
  <1>1. /\ Taken \in Nat /\ Taken' = Taken + 1 /\ count \in 0 .. freq - 1 /\ count' = count + 1
        /\ \A k \in 1 .. Taken : Nth(total', k) = Nth(total, k)
        /\ Nth(total', Taken + 1) = newSamples[count]
    BY IterationTotal
  <1>2. freq \in Nat
    BY WholeWindow
  <1>3. Taken >= count
    <2>1. CASE countTempData < L
      <3>1. Taken = countTempData
        BY <2>1 DEF PhasesOK
      <3> QED BY <1>1, <3>1, TakenCoversBlock DEF PhasesOK
    <2>2. CASE countTempData = L
      BY <1>1, <1>2, <2>2, WholeWindow DEF PhasesOK, Base
    <2> QED BY <2>1, <2>2, WholeWindow DEF TypesOK
  <1>4. ASSUME NEW i \in 0 .. count - 1 PROVE newSamples[i] = Nth(total', Taken + 1 - (count + 1) + i + 1)
    <2>1. newSamples[i] = Nth(total, Taken - count + i + 1)
      BY <1>1, <1>2, <1>3, <1>4 DEF ContentsOK
    <2>2. Taken - count + i + 1 \in 1 .. Taken
      BY <1>1, <1>2, <1>3
    <2>3. Taken + 1 - (count + 1) + i + 1 = Taken - count + i + 1
      BY <1>1, <1>2
    <2> QED BY <1>1, <2>1, <2>2, <2>3
  <1>5. newSamples[count] = Nth(total', Taken + 1 - (count + 1) + count + 1)
    <2>1. Taken + 1 - (count + 1) + count + 1 = Taken + 1
      BY <1>1, <1>2
    <2> QED BY <1>1, <2>1
  <1> QED BY <1>1, <1>2, <1>4, <1>5

-----------------------------------------------------------------------------
(* One lemma for each action.                                              *)
LEMMA TakeBlockInv ==
    ASSUME WindowInv, NEW block \in [0 .. freq - 1 -> Int], TakeBlock(block)
    PROVE  WindowInv'
  <1>0. L \in Nat \ {0} /\ freq \in Nat \ {0} /\ lengthSTA \in 1 .. L
    BY WholeWindow
  <1>1. /\ count = freq /\ count' = 0 /\ newSamples' = block
        /\ first = L
        /\ UNCHANGED <<tempData, countTempData, sta, lta, countLTA_STA, first, total>>
    BY DEF TakeBlock, L
  <1>2. Taken \in Nat /\ Taken' = Taken /\ Base = Taken /\ Base' = Taken
    BY <1>0, <1>1 DEF Taken, Base, WindowInv, TypesOK
  <1>3. TypesOK'
    BY <1>0, <1>1 DEF WindowInv, TypesOK, Places
  <1>4. PhasesOK'
    <2>1. Aligned(Taken, 0)
      BY <1>0, <1>1, <1>2, AlignedNext DEF WindowInv, PhasesOK
    <2>2. Aligned(countLTA_STA, 0) \/ countTempData < L
      BY <1>0, <1>1, AlignedNext DEF WindowInv, PhasesOK, TypesOK
    <2>3. Aligned(Taken', count')
      BY <1>1, <1>2, <2>1
    <2>4. Aligned(countLTA_STA', count') \/ countTempData' < L
      BY <1>1, <2>2
    <2> QED BY <1>0, <1>1, <1>2, <2>3, <2>4 DEF WindowInv, PhasesOK, L
  <1>5. ContentsOK'
    BY <1>0, <1>1, <1>2 DEF WindowInv, ContentsOK, Places, L
  <1>6. FirstSumsOK'
    BY <1>0, <1>1 DEF FirstSumsOK
  <1>7. WindowErrorIsFixed'
    <2>1. total' = total /\ sta' = sta /\ lta' = lta /\ countLTA_STA' = countLTA_STA
          /\ countTempData' = countTempData /\ first' = first
      BY <1>1
    <2> QED BY <2>1 DEF WindowInv, WindowErrorIsFixed, Full, Current, Window, First
  <1> QED BY <1>3, <1>4, <1>5, <1>6, <1>7 DEF WindowInv

LEMMA FillInv == WindowInv /\ Fill => WindowInv'
  <1> SUFFICES ASSUME WindowInv, Fill PROVE WindowInv'
    OBVIOUS
  <1> USE DEF WindowInv
  <1>0. L \in Nat \ {0} /\ freq \in Nat \ {0} /\ lengthSTA \in 1 .. L
    BY WholeWindow
  <1>1. /\ countTempData \in 0 .. L - 1 /\ countTempData' = countTempData + 1
        /\ tempData' = [tempData EXCEPT ![countTempData] = newSamples[count]]
        /\ first' = IF countTempData = L - 1 THEN 0 ELSE first
        /\ UNCHANGED <<newSamples, sta, lta, countLTA_STA>>
        /\ Iteration
    BY <1>0 DEF Fill, TypesOK, L
  <1>2. countTempData = Taken /\ first = L /\ countLTA_STA = 0
    BY <1>0, <1>1 DEF PhasesOK
  <1>3. /\ total' \in Seq(Int) /\ Len(total') = Len(total) + 1
        /\ Taken \in Nat /\ Taken' = Taken + 1 /\ Len(total) = Taken + 1
        /\ \A j \in 1 .. Taken + 1 : total'[j] = total[j]
        /\ \A k \in 1 .. Taken : Nth(total', k) = Nth(total, k)
        /\ Nth(total', Taken + 1) = newSamples[count]
        /\ count \in 0 .. freq - 1 /\ count' = count + 1 /\ newSamples[count] \in Int
        /\ Aligned(Taken', count')
    BY <1>1, IterationTotal
  <1>4. TypesOK'
    <2>1. total' \in Seq(Int) /\ Len(total') >= 1 /\ total'[1] = 0
      BY <1>3 DEF TypesOK
    <2>2. tempData' \in [Places -> Int]
      BY <1>1, <1>3 DEF TypesOK
    <2> QED BY <1>0, <1>1, <1>3, <2>1, <2>2 DEF TypesOK
  <1>5. Taken' = L => count' = freq
    <2> SUFFICES ASSUME Taken + 1 = L PROVE count = freq - 1
      BY <1>0, <1>3
    <2>1. Aligned(L - 1, count)
      BY <1>0, <1>3 DEF PhasesOK
    <2> QED BY <1>3, <2>1, AlignedEnd
  <1>6. Aligned(countLTA_STA', count') \/ countTempData' < L
    <2>1. CASE Taken' = L
      <3>1. 0 = (-1) * freq + freq
        BY <1>0
      <3>2. Aligned(0, freq)
        BY <3>1 DEF Aligned
      <3> QED BY <1>1, <1>2, <1>5, <2>1, <3>2
    <2> QED BY <1>0, <1>1, <1>2, <1>3, <2>1
  <1>7. countTempData' = L => Base' = L
    BY <1>0, <1>1, <1>2, <1>3, <1>5 DEF Base
  <1>8. PhasesOK'
    <2>1. countTempData' < L => countTempData' = Taken' /\ first' = L /\ countLTA_STA' = 0
      BY <1>0, <1>1, <1>2, <1>3
    <2>2. countTempData' = L => Base' >= L
      BY <1>0, <1>7
    <2>3. first' < L => /\ count' = freq /\ countTempData' = L
                       /\ Taken' = L /\ countLTA_STA' = 0
      BY <1>0, <1>1, <1>2, <1>3, <1>5
    <2> QED BY <1>3, <1>6, <2>1, <2>2, <2>3 DEF PhasesOK
  <1>9. \A i \in 0 .. countTempData' - 1 : tempData'[i] = Nth(total', i + 1)
    <2>1. ASSUME NEW i \in 0 .. countTempData - 1 PROVE tempData'[i] = Nth(total', i + 1)
      <3>1. tempData[i] = Nth(total, i + 1) /\ tempData'[i] = tempData[i]
        BY <1>0, <1>1, <2>1 DEF ContentsOK, TypesOK
      <3> QED BY <1>2, <1>3, <3>1
    <2>2. tempData'[countTempData] = Nth(total', countTempData + 1)
      BY <1>0, <1>1, <1>2, <1>3 DEF TypesOK, Places, L
    <2> QED BY <1>0, <1>1, <2>1, <2>2
  <1>10. ContentsOK'
    <2>1. \A i \in 0 .. count' - 1 : newSamples'[i] = Nth(total', Taken' - count' + i + 1)
      BY <1>1, IterationBlock
    <2>2. countTempData' = L => \A i \in Places : tempData'[i] = Nth(total', Base' - L + i + 1)
      <3> SUFFICES ASSUME countTempData' = L, NEW i \in Places
                   PROVE  tempData'[i] = Nth(total', Base' - L + i + 1)
        OBVIOUS
      <3>1. i \in 0 .. L - 1 /\ Base' - L + i + 1 = i + 1
        BY <1>0, <1>7 DEF Places, L
      <3> QED BY <1>9, <3>1
    <2> QED BY <1>9, <2>1, <2>2 DEF ContentsOK, Places
  <1>11. FirstSumsOK'
    BY <1>0, <1>1, <1>2 DEF FirstSumsOK
  <1>12. ~Full'
    BY <1>0, <1>1 DEF Full, L
  <1> QED BY <1>4, <1>8, <1>10, <1>11, <1>12 DEF WindowErrorIsFixed

(* What inizializeFirstSamples starts each sum with.                       *)
LEMMA FirstSumType ==
    ASSUME TypesOK, NEW k \in 0 .. L - 1
    PROVE  FirstSum(k) \in Int
  <1>0. L \in Nat \ {0} /\ lengthSTA \in 1 .. L
    BY WholeWindow
  <1>1. tempData \in [0 .. L - 1 -> Int] /\ sta \in [0 .. L - 1 -> Int]
    BY DEF TypesOK, Places, L
  <1>2. CASE k = 0
    BY <1>0, <1>1, <1>2 DEF FirstSum
  <1>3. CASE k # 0 /\ k < lengthSTA
    <2>1. tempData[k] \in Int /\ tempData[k - 1] \in Int
      BY <1>0, <1>1, <1>3
    <2> QED BY <1>3, <2>1 DEF FirstSum
  <1>4. CASE k # 0 /\ k >= lengthSTA
    <2>1. tempData[k] \in Int /\ sta[k - 1] \in Int /\ tempData[k - lengthSTA] \in Int
      BY <1>0, <1>1, <1>4
    <2> QED BY <1>0, <1>4, <2>1 DEF FirstSum
  <1> QED BY <1>0, <1>2, <1>3, <1>4

LEMMA FirstSumValue ==
    ASSUME WindowInv, first < L, first >= lengthSTA - 1
    PROVE  FirstSum(first) = SumOfFirst(first)
  <1>0. L \in Nat \ {0} /\ lengthSTA \in 1 .. L
    BY WholeWindow
  <1>1. first \in 0 .. L - 1 /\ Len(total) = L + 1
    BY <1>0 DEF WindowInv, TypesOK, PhasesOK, Taken
  <1>2. \A i \in 0 .. L - 1 : tempData[i] = total[i + 2] - total[i + 1]
    <2> SUFFICES ASSUME NEW i \in 0 .. L - 1 PROVE tempData[i] = Nth(total, i + 1)
      BY <1>0 DEF Nth
    <2>1. Base = L /\ countTempData = L
      BY DEF WindowInv, PhasesOK, Base
    <2>2. Base - L + i + 1 = i + 1
      BY <1>0, <2>1
    <2> QED BY <2>1, <2>2 DEF WindowInv, ContentsOK, Places, L
  <1>3. \A j \in 1 .. L + 1 : total[j] \in Int
    BY <1>1 DEF WindowInv, TypesOK
  <1>4. total[1] = 0
    BY DEF WindowInv, TypesOK
  <1>5. CASE first = 0
    <2>1. lengthSTA = 1 /\ First(lengthSTA - 2) = 0
      BY <1>0, <1>5 DEF First
    <2> QED BY <1>0, <1>2, <1>3, <1>5, <2>1 DEF FirstSum, SumOfFirst
  <1>6. CASE first # 0 /\ first = lengthSTA - 1
    <2>0. /\ first \in 1 .. L - 1 /\ first - 1 \in 0 .. L - 1
          /\ first \in 1 .. L + 1 /\ first + 1 \in 1 .. L + 1 /\ first + 2 \in 1 .. L + 1
          /\ (first - 1) + 2 = first + 1 /\ (first - 1) + 1 = first
      BY <1>0, <1>1, <1>6
    <2>1. FirstSum(first) = total[first + 2] - total[first]
      <3>1. FirstSum(first) = tempData[first] + tempData[first - 1]
        BY <1>0, <1>1, <1>6 DEF FirstSum
      <3>2. tempData[first] = total[first + 2] - total[first + 1]
            /\ tempData[first - 1] = total[first + 1] - total[first]
        BY <1>1, <1>2, <2>0
      <3>3. /\ total[first + 2] \in Int /\ total[first + 1] \in Int
            /\ total[first] \in Int
        BY <1>3, <2>0
      <3> QED BY <3>1, <3>2, <3>3
    <2>2. First(lengthSTA - 2) = total[first]
      <3>1. CASE first = 1
        BY <1>0, <1>4, <1>6, <3>1 DEF First
      <3>2. CASE first > 1
        BY <1>0, <1>1, <1>6, <3>2 DEF First
      <3> QED BY <2>0, <3>1, <3>2
    <2>3. first + 2 - lengthSTA = 1
      BY <1>0, <1>1, <1>6
    <2>4. total[first + 2] \in Int /\ total[first] \in Int
      BY <1>3, <2>0
    <2> QED BY <1>4, <2>1, <2>2, <2>3, <2>4 DEF SumOfFirst
  <1>7. CASE first >= lengthSTA
    <2>1. FirstSum(first) = sta[first - 1] + tempData[first] - tempData[first - lengthSTA]
      BY <1>0, <1>1, <1>7 DEF FirstSum
    <2>2. sta[first - 1] = SumOfFirst(first - 1)
      BY <1>0, <1>1, <1>7 DEF WindowInv, FirstSumsOK
    <2>3. /\ tempData[first] = total[first + 2] - total[first + 1]
          /\ tempData[first - lengthSTA] = total[first - lengthSTA + 2] - total[first - lengthSTA + 1]
      BY <1>0, <1>1, <1>2, <1>7
    <2>4. /\ first - 1 + 2 = first + 1 /\ first - 1 + 2 - lengthSTA = first - lengthSTA + 1
          /\ first + 2 - lengthSTA = first - lengthSTA + 2
      BY <1>0, <1>1
    <2>5. /\ total[first + 2] \in Int /\ total[first + 1] \in Int
          /\ total[first - lengthSTA + 2] \in Int /\ total[first - lengthSTA + 1] \in Int
      BY <1>0, <1>1, <1>3, <1>7
    <2>6. First(lengthSTA - 2) \in Int
      <3>1. CASE lengthSTA - 2 <= 0
        BY <3>1 DEF First
      <3>2. CASE lengthSTA - 2 > 0
        BY <1>0, <1>3, <3>2 DEF First
      <3> QED BY <1>0, <3>1, <3>2
    <2> QED BY <2>1, <2>2, <2>3, <2>4, <2>5, <2>6 DEF SumOfFirst
  <1> QED BY <1>0, <1>1, <1>5, <1>6, <1>7

LEMMA FirstSamplesInv == WindowInv /\ InizializeFirstSamples => WindowInv'
  <1> SUFFICES ASSUME WindowInv, InizializeFirstSamples PROVE WindowInv'
    OBVIOUS
  <1>0. L \in Nat \ {0} /\ freq \in Nat \ {0} /\ lengthSTA \in 1 .. L
    BY WholeWindow
  <1>1. /\ first < L /\ first' = first + 1
        /\ sta' = [sta EXCEPT ![first] = FirstSum(first)]
        /\ lta' = [lta EXCEPT ![first] = IF first = 0 THEN tempData[0]
                                         ELSE tempData[first] + tempData[first - 1]]
        /\ UNCHANGED <<newSamples, count, tempData, countTempData, countLTA_STA, total>>
    BY DEF InizializeFirstSamples, L
  <1>2. /\ first \in 0 .. L - 1 /\ Taken = L /\ Taken' = L /\ Len(total) = L + 1
        /\ countTempData = L /\ countLTA_STA = 0 /\ count = freq /\ Base = L /\ Base' = L
    BY <1>0, <1>1 DEF WindowInv, TypesOK, PhasesOK, Taken, Base
  <1>3. tempData \in [0 .. L - 1 -> Int] /\ sta \in [0 .. L - 1 -> Int] /\ lta \in [0 .. L - 1 -> Int]
    BY DEF WindowInv, TypesOK, Places, L
  <1>4. (IF first = 0 THEN tempData[0] ELSE tempData[first] + tempData[first - 1]) \in Int
    <2>1. CASE first = 0
      BY <1>0, <1>3, <2>1
    <2>2. CASE first # 0
      <3>1. first - 1 \in 0 .. L - 1
        BY <1>0, <1>2, <2>2
      <3>2. tempData[first] \in Int /\ tempData[first - 1] \in Int
        BY <1>2, <1>3, <3>1
      <3> QED BY <2>2, <3>2
    <2> QED BY <2>1, <2>2
  <1>5. sta' \in [0 .. L - 1 -> Int] /\ lta' \in [0 .. L - 1 -> Int]
    BY <1>1, <1>2, <1>3, <1>4, FirstSumType DEF WindowInv
  <1>6. TypesOK'
    <2>1. sta' \in [Places -> Int] /\ lta' \in [Places -> Int]
      BY <1>5 DEF Places, L
    <2>2. first' \in 0 .. L
      BY <1>0, <1>1, <1>2
    <2> QED BY <1>1, <2>1, <2>2 DEF WindowInv, TypesOK, Places
  <1>7. PhasesOK'
    <2>1. Aligned(Taken, count) /\ Aligned(countLTA_STA, count)
      BY <1>0, <1>2 DEF WindowInv, PhasesOK
    <2>2. Taken' = Taken /\ count' = count /\ countLTA_STA' = countLTA_STA /\ countTempData' = L
      BY <1>1, <1>2
    <2>3. Aligned(Taken', count') /\ Aligned(countLTA_STA', count')
      BY <2>1, <2>2
    <2> QED BY <1>0, <1>1, <1>2, <2>2, <2>3 DEF PhasesOK
  <1>8. ContentsOK'
    BY <1>1, <1>2 DEF WindowInv, ContentsOK, Places
  <1>9. \A k \in lengthSTA - 1 .. first' - 1 : sta'[k] = SumOfFirst(k)
    <2> SUFFICES ASSUME NEW k \in lengthSTA - 1 .. first PROVE sta'[k] = SumOfFirst(k)
      BY <1>1, <1>2
    <2>1. CASE k = first
      BY <1>0, <1>1, <1>2, <1>3, <2>1, FirstSumValue
    <2>2. CASE k # first
      BY <1>0, <1>1, <1>2, <1>3, <2>2 DEF WindowInv, FirstSumsOK
    <2> QED BY <2>1, <2>2
  <1>10. FirstSumsOK'
    BY <1>1, <1>9 DEF FirstSumsOK, SumOfFirst, First
  <1>11. ASSUME first' = L PROVE WindowErrorIsFixed'
    <2>1. first = L - 1 /\ Current' = L - 1
      BY <1>0, <1>1, <1>2, <1>11 DEF Current, L
    <2>2. sta'[L - 1] = SumOfFirst(L - 1)
      BY <1>0, <1>1, <1>2, <1>9, <2>1
    <2>3. sta'[L - 1] = Window(lengthSTA) - First(lengthSTA - 2)
      BY <1>0, <1>2, <2>2 DEF SumOfFirst, Window
    <2>4. \A i \in 0 .. L - 1 : tempData[i] = total[i + 2] - total[i + 1]
      <3> SUFFICES ASSUME NEW i \in 0 .. L - 1 PROVE tempData[i] = Nth(total, i + 1)
        BY <1>0 DEF Nth
      <3>1. Base - L + i + 1 = i + 1
        BY <1>0, <1>2
      <3> QED BY <1>2, <3>1 DEF WindowInv, ContentsOK, Places, L
    <2>5. /\ \A j \in 1 .. L + 1 : total[j] \in Int
          /\ total[1] = 0
      BY <1>2 DEF WindowInv, TypesOK
    <2>6. lta'[L - 1] = Window(L) - First(L - 2)
      <3>1. CASE L = 1
        <4>1. lta'[0] = tempData[0]
          BY <1>1, <1>3, <2>1, <3>1
        <4>2. Window(L) - First(L - 2) = total[2] - total[1]
          BY <1>2, <2>5, <3>1 DEF Window, First
        <4> QED BY <2>4, <3>1, <4>1, <4>2
      <3>2. CASE L > 1
        <4>1. lta'[L - 1] = tempData[L - 1] + tempData[L - 2]
          BY <1>0, <1>1, <1>3, <2>1, <3>2
        <4>2. tempData[L - 1] = total[L + 1] - total[L] /\ tempData[L - 2] = total[L] - total[L - 1]
          BY <1>0, <2>4, <3>2
        <4>3. First(L - 2) = total[L - 1]
          BY <1>0, <2>5, <3>2 DEF First
        <4>4. Window(L) = total[L + 1] - total[1]
          BY <1>0, <1>2 DEF Window
        <4>5. total[L + 1] \in Int /\ total[L] \in Int /\ total[L - 1] \in Int
          BY <1>0, <2>5, <3>2
        <4> QED BY <2>5, <4>1, <4>2, <4>3, <4>4, <4>5
      <3> QED BY <1>0, <3>1, <3>2
    <2>7. UNCHANGED total
      BY <1>1
    <2>8. sta'[Current'] = Window(lengthSTA)' - First(lengthSTA - 2)'
      BY <2>1, <2>3, <2>7 DEF Window, First
    <2>9. lta'[Current'] = Window(lengthLTA)' - First(lengthLTA - 2)'
      BY <2>1, <2>6, <2>7 DEF Window, First, L
    <2> QED BY <2>8, <2>9 DEF WindowErrorIsFixed
  <1>12. first' # L => WindowErrorIsFixed'
    BY DEF WindowErrorIsFixed, Full, L
  <1> QED BY <1>6, <1>7, <1>8, <1>10, <1>11, <1>12 DEF WindowInv

-----------------------------------------------------------------------------
(* The windows slide.  The sample that leaves a window is the one that is  *)
(* window samples older than the one that enters.                          *)
LEMMA SlideFacts ==
    ASSUME WindowInv, Slide
    PROVE  /\ Iteration /\ countTempData = L /\ first = L
           /\ Base = Taken - count /\ Base \in Nat /\ Base >= L
           /\ Place \in 0 .. L - 1 /\ Before = Current /\ Current \in 0 .. L - 1
           /\ Aligned(Place, count) /\ (Place = 0 => count = 0)
           /\ count < L
  <1>0. L \in Nat \ {0} /\ freq \in Nat \ {0} /\ freq <= L /\ lengthSTA \in 1 .. L
    BY WholeWindow
  <1>1. Iteration /\ countTempData = L /\ first = L
    BY DEF Slide, Iteration, L
  <1>2. TypesOK /\ PhasesOK
    BY DEF WindowInv
  <1>3. count \in 0 .. freq - 1 /\ Taken \in Nat
    BY <1>1, <1>2, IterationTotal
  <1>4. Base = Taken - count /\ Base \in Nat /\ Base >= L
    BY <1>0, <1>1, <1>2, <1>3 DEF Base, PhasesOK
  <1>5. countLTA_STA \in 0 .. L /\ Aligned(countLTA_STA, count)
    BY <1>0, <1>1, <1>2 DEF TypesOK, PhasesOK
  <1>6. Place \in 0 .. L - 1 /\ Before = Current /\ Current \in 0 .. L - 1
    BY <1>0, <1>5 DEF Place, Before, Current, L
  <1>7. Aligned(Place, count)
    <2>1. CASE countLTA_STA = L
      <3>1. count = 0
        BY <1>3, <1>5, <2>1, AlignedEnd
      <3>2. 0 = 0 * freq + 0
        BY <1>0
      <3>3. Aligned(0, 0)
        BY <3>2 DEF Aligned
      <3> QED BY <2>1, <3>1, <3>3 DEF Place, L
    <2>2. CASE countLTA_STA # L
      BY <1>5, <2>2 DEF Place, L
    <2> QED BY <2>1, <2>2
  <1>8. Place = 0 => count = 0
    BY <1>3, <1>7, AlignedEnd
  <1> QED BY <1>0, <1>1, <1>3, <1>4, <1>6, <1>7, <1>8

LEMMA Leaving ==
    ASSUME WindowInv, Slide
    PROVE  /\ LeavesSTA = Nth(total, Taken + 1 - lengthSTA)
           /\ LeavesLTA = Nth(total, Taken + 1 - L)
  <1>0. L \in Nat \ {0} /\ freq \in Nat \ {0} /\ freq <= L /\ lengthSTA \in 1 .. L
    BY WholeWindow
  <1>1. /\ Iteration /\ countTempData = L
        /\ Base = Taken - count /\ Base \in Nat /\ Base >= L
        /\ (Place = 0 => count = 0) /\ count < L
    BY SlideFacts
  <1>2. count \in 0 .. freq - 1 /\ Taken \in Nat
    BY <1>1, IterationTotal DEF WindowInv
  <1>3. \A i \in 0 .. L - 1 : tempData[i] = Nth(total, Base - L + i + 1)
    BY <1>1 DEF WindowInv, ContentsOK, Places, L
  <1>4. CASE Place # 0 /\ count >= lengthSTA
    <2>1. LeavesSTA = newSamples[count - lengthSTA]
      BY <1>4 DEF LeavesSTA
    <2>2. count - lengthSTA \in 0 .. count - 1 /\ Taken # 0
      BY <1>0, <1>1, <1>2, <1>4
    <2>3. newSamples[count - lengthSTA] = Nth(total, Taken - count + (count - lengthSTA) + 1)
      BY <2>2 DEF WindowInv, ContentsOK
    <2>4. Taken - count + (count - lengthSTA) + 1 = Taken + 1 - lengthSTA
      BY <1>0, <1>2
    <2>5. LeavesSTA = Nth(total, Taken + 1 - lengthSTA)
      BY <2>1, <2>3, <2>4
    <2>6. LeavesLTA = tempData[count]
      BY <1>4 DEF LeavesLTA
    <2>7. tempData[count] = Nth(total, Base - L + count + 1) /\ Base - L + count + 1 = Taken + 1 - L
      BY <1>0, <1>1, <1>2, <1>3
    <2> QED BY <2>5, <2>6, <2>7
  <1>5. CASE Place = 0 \/ count < lengthSTA
    <2>1. LeavesSTA = tempData[L - lengthSTA + count] /\ LeavesLTA = tempData[count]
      <3>1. CASE Place = 0
        <4>1. L - lengthSTA + count = L - lengthSTA /\ count = 0
          BY <1>0, <1>1, <3>1
        <4> QED BY <3>1, <4>1 DEF LeavesSTA, LeavesLTA, L
      <3>2. CASE Place # 0
        BY <1>0, <1>2, <1>5, <3>2 DEF LeavesSTA, LeavesLTA, L
      <3> QED BY <3>1, <3>2
    <2>2. L - lengthSTA + count \in 0 .. L - 1 /\ count \in 0 .. L - 1
      <3>1. CASE Place = 0
        BY <1>0, <1>1, <3>1
      <3>2. CASE count < lengthSTA
        BY <1>0, <1>1, <1>2, <3>2
      <3> QED BY <1>5, <3>1, <3>2
    <2>3. /\ Base - L + (L - lengthSTA + count) + 1 = Taken + 1 - lengthSTA
          /\ Base - L + count + 1 = Taken + 1 - L
      BY <1>0, <1>1, <1>2
    <2> QED BY <1>3, <2>1, <2>2, <2>3
  <1> QED BY <1>0, <1>2, <1>4, <1>5

(* The register is moved at the end of a block.                            *)
LEMMA SlideContents ==
    ASSUME WindowInv, Slide
    PROVE  ContentsOK'
  <1>0. L \in Nat \ {0} /\ freq \in Nat \ {0} /\ freq <= L
    BY WholeWindow
  <1>1. /\ Iteration /\ countTempData = L
        /\ Base = Taken - count /\ Base \in Nat /\ Base >= L
        /\ TypesOK /\ PhasesOK /\ ContentsOK
    BY SlideFacts DEF WindowInv
  <1>2. /\ tempData' = IF count = freq - 1 THEN Moved ELSE tempData
        /\ UNCHANGED <<newSamples, countTempData>>
    BY DEF Slide
  <1>3. /\ count \in 0 .. freq - 1 /\ Taken \in Nat /\ Taken' = Taken + 1 /\ count' = count + 1
        /\ \A k \in 1 .. Taken : Nth(total', k) = Nth(total, k)
    BY <1>1, IterationTotal
  <1>4. \A i \in 0 .. count' - 1 : newSamples'[i] = Nth(total', Taken' - count' + i + 1)
    BY <1>1, <1>2, IterationBlock
  <1>5. \A i \in 0 .. L - 1 : tempData[i] = Nth(total, Base - L + i + 1)
    BY <1>1 DEF ContentsOK, Places, L
  <1>6. ASSUME NEW i \in 0 .. L - 1 PROVE tempData'[i] = Nth(total', Base' - L + i + 1)
    <2>1. CASE count # freq - 1
      <3>1. Base' = Base
        BY <1>0, <1>1, <1>3, <2>1 DEF Base
      <3>2. Base - L + i + 1 \in 1 .. Taken
        BY <1>0, <1>1, <1>3, <1>6
      <3>3. tempData'[i] = Nth(total, Base - L + i + 1)
        BY <1>2, <1>5, <2>1
      <3> QED BY <1>3, <3>1, <3>2, <3>3
    <2>2. CASE count = freq - 1 /\ i < L - freq
      <3>1. Base' = Taken + 1 /\ Base + freq = Taken + 1
        BY <1>0, <1>1, <1>3, <2>2 DEF Base
      <3>2. tempData'[i] = tempData[i + freq]
        BY <1>0, <1>2, <2>2 DEF Moved, Places, L
      <3>3. i + freq \in 0 .. L - 1 /\ Base - L + (i + freq) + 1 = Base' - L + i + 1
            /\ Base - L + (i + freq) + 1 \in 1 .. Taken
        BY <1>0, <1>1, <1>3, <2>2, <3>1
      <3> QED BY <1>3, <1>5, <3>2, <3>3
    <2>3. CASE count = freq - 1 /\ i >= L - freq
      <3>1. Base' = Taken' /\ count' = freq /\ newSamples' = newSamples
        BY <1>0, <1>2, <1>3, <2>3 DEF Base
      <3>2. tempData'[i] = newSamples[i - (L - freq)]
        BY <1>0, <1>2, <2>3 DEF Moved, Places, L
      <3>3. i - (L - freq) \in 0 .. freq - 1
        BY <1>0, <2>3
      <3>4. Taken' - freq + (i - (L - freq)) + 1 = Taken' - L + i + 1
        BY <1>0, <1>3
      <3> QED BY <1>4, <3>1, <3>2, <3>3, <3>4
    <2> QED BY <1>0, <2>1, <2>2, <2>3
  <1> QED BY <1>0, <1>1, <1>2, <1>4, <1>6 DEF ContentsOK, Places, L

(* A sum with a fixed error keeps it when x enters and y leaves.            *)
LEMMA Slid ==
    ASSUME NEW s \in Int, NEW w \in Int, NEW e \in Int, NEW x \in Int, NEW y \in Int
    PROVE  /\ s + x - y \in Int
           /\ s = w - e => s + x - y = (w + x - y) - e
  OBVIOUS

LEMMA SlideInv == WindowInv /\ Slide => WindowInv'
  <1> SUFFICES ASSUME WindowInv, Slide PROVE WindowInv'
    OBVIOUS
  <1>0. L \in Nat \ {0} /\ freq \in Nat \ {0} /\ freq <= L /\ lengthSTA \in 1 .. L
    BY WholeWindow
  <1>1. /\ Iteration /\ countTempData = L /\ first = L
        /\ Base = Taken - count /\ Base \in Nat /\ Base >= L
        /\ Place \in 0 .. L - 1 /\ Before = Current /\ Current \in 0 .. L - 1
        /\ Aligned(Place, count) /\ count < L
        /\ TypesOK /\ PhasesOK
    BY SlideFacts DEF WindowInv
  <1>2. /\ sta' = [sta EXCEPT ![Place] = sta[Before] + newSamples[count] - LeavesSTA]
        /\ lta' = [lta EXCEPT ![Place] = lta[Before] + newSamples[count] - LeavesLTA]
        /\ tempData' = IF count = freq - 1 THEN Moved ELSE tempData
        /\ countLTA_STA' = Place + 1
        /\ UNCHANGED <<newSamples, countTempData, first>>
    BY DEF Slide
  <1>3. /\ total' \in Seq(Int) /\ Len(total') = Len(total) + 1
        /\ Taken \in Nat /\ Taken' = Taken + 1 /\ Len(total) = Taken + 1
        /\ \A j \in 1 .. Taken + 1 : total'[j] = total[j]
        /\ total'[Taken + 2] = total[Taken + 1] + newSamples[count]
        /\ count \in 0 .. freq - 1 /\ count' = count + 1 /\ newSamples[count] \in Int
        /\ Aligned(Taken', count')
    BY <1>1, IterationTotal
  <1>4. \A j \in 1 .. Taken + 1 : total[j] \in Int
    BY <1>1, <1>3 DEF TypesOK
  <1>5. /\ LeavesSTA = total[Taken + 2 - lengthSTA] - total[Taken + 1 - lengthSTA]
        /\ LeavesLTA = total[Taken + 2 - L] - total[Taken + 1 - L]
        /\ LeavesSTA \in Int /\ LeavesLTA \in Int
    <2>1. Taken >= L
      BY <1>0, <1>1, <1>3
    <2>2. /\ Taken + 1 - lengthSTA + 1 = Taken + 2 - lengthSTA
          /\ Taken + 1 - L + 1 = Taken + 2 - L
          /\ Taken + 2 - lengthSTA \in 1 .. Taken + 1 /\ Taken + 1 - lengthSTA \in 1 .. Taken + 1
          /\ Taken + 2 - L \in 1 .. Taken + 1 /\ Taken + 1 - L \in 1 .. Taken + 1
      BY <1>0, <1>3, <2>1
    <2>3. /\ LeavesSTA = total[Taken + 2 - lengthSTA] - total[Taken + 1 - lengthSTA]
          /\ LeavesLTA = total[Taken + 2 - L] - total[Taken + 1 - L]
      BY <2>2, Leaving DEF Nth
    <2> QED BY <1>4, <2>2, <2>3
  <1>6. /\ sta' \in [Places -> Int] /\ lta' \in [Places -> Int]
        /\ sta'[Place] = sta[Current] + newSamples[count] - LeavesSTA
        /\ lta'[Place] = lta[Current] + newSamples[count] - LeavesLTA
        /\ sta[Current] \in Int /\ lta[Current] \in Int
    <2>1. sta \in [Places -> Int] /\ lta \in [Places -> Int]
      BY <1>1 DEF TypesOK
    <2>2. Place \in Places /\ Current \in Places
      BY <1>1 DEF Places, L
    <2>3. sta[Current] \in Int /\ lta[Current] \in Int
      BY <2>1, <2>2
    <2>4. /\ sta[Current] + newSamples[count] - LeavesSTA \in Int
          /\ lta[Current] + newSamples[count] - LeavesLTA \in Int
      <3>1. newSamples[count] \in Int /\ LeavesSTA \in Int /\ LeavesLTA \in Int
        BY <1>3, <1>5
      <3> QED BY <2>3, <3>1, Slid
    <2> QED BY <1>1, <1>2, <2>1, <2>2, <2>3, <2>4
  <1>7. tempData' \in [Places -> Int]
    <2>1. Moved \in [Places -> Int]
      <3>1. \A i \in 0 .. L - 1 : i >= L - freq => newSamples[i - (L - freq)] \in Int
        BY <1>0, <1>1 DEF TypesOK
      <3>2. \A i \in 0 .. L - 1 : i < L - freq => tempData[i + freq] \in Int
        <4> SUFFICES ASSUME NEW i \in 0 .. L - 1, i < L - freq PROVE tempData[i + freq] \in Int
          OBVIOUS
        <4>1. i + freq \in 0 .. L - 1
          BY <1>0
        <4> QED BY <1>1, <4>1 DEF TypesOK, Places, L
      <3> QED BY <1>0, <3>1, <3>2 DEF Moved, Places, L
    <2> QED BY <1>1, <1>2, <2>1 DEF TypesOK
  <1>8. TypesOK'
    <2>1. total' \in Seq(Int) /\ Len(total') >= 1 /\ total'[1] = 0
      BY <1>1, <1>3 DEF TypesOK
    <2>2. count' \in 0 .. freq /\ countLTA_STA' \in 0 .. L
      BY <1>0, <1>1, <1>2, <1>3
    <2>3. newSamples' = newSamples /\ countTempData' = countTempData /\ first' = first
      BY <1>2
    <2> QED BY <1>1, <1>6, <1>7, <2>1, <2>2, <2>3 DEF TypesOK, Places
  <1>9. PhasesOK'
    <2>1. Aligned(Place + 1, count + 1)
      BY <1>0, <1>1, <1>3, AlignedNext
    <2>2. Aligned(countLTA_STA', count')
      BY <1>2, <1>3, <2>1
    <2>3. Base' >= L
      BY <1>0, <1>1, <1>3 DEF Base
    <2> QED BY <1>0, <1>1, <1>2, <1>3, <2>2, <2>3 DEF PhasesOK
  <1>10. WindowErrorIsFixed'
    <2>1. Current' = Place
      BY <1>0, <1>1, <1>2 DEF Current
    <2>2. /\ sta[Current] = Window(lengthSTA) - First(lengthSTA - 2)
          /\ lta[Current] = Window(L) - First(L - 2)
      BY <1>1 DEF WindowInv, WindowErrorIsFixed, Full, L
    <2>3. ASSUME NEW k \in 1 .. L
          PROVE  /\ Window(k)' = Window(k) + newSamples[count]
                                  - (total[Taken + 2 - k] - total[Taken + 1 - k])
                 /\ First(k - 2)' = First(k - 2)
                 /\ Window(k) \in Int /\ First(k - 2) \in Int
      <3>1. Taken >= L
        BY <1>0, <1>1, <1>3
      <3>2. /\ Taken + 2 - k \in 1 .. Taken + 1 /\ Taken + 1 - k \in 1 .. Taken + 1
            /\ k - 2 > 0 => k - 2 + 1 \in 1 .. Taken + 1
        BY <1>0, <1>3, <2>3, <3>1
      <3>3. Window(k) = total[Taken + 1] - total[Taken + 1 - k]
        BY <1>3 DEF Window
      <3>4. Window(k)' = total'[Taken + 2] - total'[Taken + 2 - k]
        BY <1>3 DEF Window
      <3>5. First(k - 2)' = First(k - 2) /\ First(k - 2) \in Int
        BY <1>3, <1>4, <3>2 DEF First
      <3>6. /\ total[Taken + 1] \in Int /\ total[Taken + 1 - k] \in Int
            /\ total[Taken + 2 - k] \in Int /\ total'[Taken + 2 - k] = total[Taken + 2 - k]
        BY <1>3, <1>4, <3>2
      <3>7. Window(k)' = total[Taken + 1] + newSamples[count] - total[Taken + 2 - k]
        BY <1>3, <3>4, <3>6
      <3>8. Window(k)' = Window(k) + newSamples[count]
                         - (total[Taken + 2 - k] - total[Taken + 1 - k])
        BY <1>3, <3>3, <3>6, <3>7
      <3>9. Window(k) \in Int
        BY <3>3, <3>6
      <3> QED BY <3>5, <3>8, <3>9
    <2>4. sta'[Place] = Window(lengthSTA)' - First(lengthSTA - 2)'
      <3>1. /\ Window(lengthSTA)' = Window(lengthSTA) + newSamples[count] - LeavesSTA
            /\ First(lengthSTA - 2)' = First(lengthSTA - 2)
            /\ Window(lengthSTA) \in Int /\ First(lengthSTA - 2) \in Int
        BY <1>0, <1>5, <2>3
      <3>2. newSamples[count] \in Int /\ LeavesSTA \in Int /\ sta[Current] \in Int
        BY <1>3, <1>5, <1>6
      <3>3. ASSUME NEW s \in Int, NEW w \in Int, NEW e \in Int,
                   s = sta[Current], w = Window(lengthSTA), e = First(lengthSTA - 2)
            PROVE  s + newSamples[count] - LeavesSTA = (w + newSamples[count] - LeavesSTA) - e
        <4>1. s = w - e
          BY <2>2, <3>3
        <4> QED BY <3>2, <4>1, Slid
      <3>4. sta[Current] + newSamples[count] - LeavesSTA
              = (Window(lengthSTA) + newSamples[count] - LeavesSTA) - First(lengthSTA - 2)
        BY <3>1, <3>2, <3>3
      <3> QED BY <1>6, <3>1, <3>4
    <2>5. lta'[Place] = Window(L)' - First(L - 2)'
      <3>1. /\ Window(L)' = Window(L) + newSamples[count] - LeavesLTA
            /\ First(L - 2)' = First(L - 2)
            /\ Window(L) \in Int /\ First(L - 2) \in Int
        BY <1>0, <1>5, <2>3
      <3>2. newSamples[count] \in Int /\ LeavesLTA \in Int /\ lta[Current] \in Int
        BY <1>3, <1>5, <1>6
      <3>3. ASSUME NEW s \in Int, NEW w \in Int, NEW e \in Int,
                   s = lta[Current], w = Window(L), e = First(L - 2)
            PROVE  s + newSamples[count] - LeavesLTA = (w + newSamples[count] - LeavesLTA) - e
        <4>1. s = w - e
          BY <2>2, <3>3
        <4> QED BY <3>2, <4>1, Slid
      <3>4. lta[Current] + newSamples[count] - LeavesLTA
              = (Window(L) + newSamples[count] - LeavesLTA) - First(L - 2)
        BY <3>1, <3>2, <3>3
      <3> QED BY <1>6, <3>1, <3>4
    <2> QED BY <2>1, <2>4, <2>5 DEF WindowErrorIsFixed, L
  <1>11. FirstSumsOK'
    BY <1>0, <1>1, <1>2 DEF FirstSumsOK
  <1> QED BY <1>8, <1>9, <1>10, <1>11, SlideContents DEF WindowInv

LEMMA NextWindowInv == WindowInv /\ [NextWindows]_wvars => WindowInv'
  <1> SUFFICES ASSUME WindowInv, [NextWindows]_wvars PROVE WindowInv'
    OBVIOUS
  <1>1. CASE UNCHANGED wvars
    <2>1. UNCHANGED <<newSamples, count, tempData, countTempData, sta, lta, countLTA_STA,
                      first, total>>
      BY <1>1 DEF wvars
    <2> QED BY <2>1 DEF WindowInv, TypesOK, PhasesOK, ContentsOK, FirstSumsOK, WindowErrorIsFixed,
               Full, Current, Window, First, SumOfFirst, Taken, Base
  <1>2. ASSUME NEW block \in [0 .. freq - 1 -> Samples], TakeBlock(block) PROVE WindowInv'
    <2>1. block \in [0 .. freq - 1 -> Int]
      BY StaLtaAssumption
    <2> QED BY <1>2, <2>1, TakeBlockInv
  <1> QED BY <1>1, <1>2, FillInv, FirstSamplesInv, SlideInv DEF NextWindows, Step

(* The sums follow their windows for ever, with an error that never         *)
(* changes: both lack the first samples of the program.                    *)
THEOREM WindowErrorStaysFixed == SpecWindows => []WindowErrorIsFixed
  <1>1. WindowInv => WindowErrorIsFixed
    BY DEF WindowInv
  <1> QED BY <1>1, InitWindowInv, NextWindowInv, PTL DEF SpecWindows

=============================================================================

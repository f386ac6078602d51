------------------------------- MODULE StaLta -------------------------------
(***************************************************************************)
(* The arithmetic of sta_lta and inizializeFirstSamples of staLta.c for    *)
(* one axis: the short and the long average whose ratio detectEvent        *)
(* compares with its thresholds.  Both are running sums: a sample enters,  *)
(* the one that leaves the window is looked up in the block (newSamples)   *)
(* or in the register of the last lengthLTA samples (tempData).            *)
(*                                                                         *)
(* Samples are integers and an average is kept as its sum, lengthSTA or    *)
(* lengthLTA times what the code keeps; the rounding of the floats is left *)
(* out.  EventDetector says what is done with the ratio.                   *)
(***************************************************************************)
EXTENDS Integers, Sequences

CONSTANTS
    freq,                   \* samples of a block, and of a second
    lengthSTA, lengthLTA,   \* samples of the windows
    thOn,                   \* the threshold of the ratio
    Samples,                \* values of a sample
    MaxBlocks               \* bound: blocks taken in a behaviour

(* lengthLTA is a whole number of seconds; that the short window is no     *)
(* longer is what main means to check.                                     *)
ASSUME StaLtaAssumption ==
    /\ freq \in Nat \ {0}
    /\ lengthLTA \in Nat \ {0}
    /\ lengthLTA % freq = 0
    /\ lengthSTA \in 1 .. lengthLTA
    /\ thOn \in Nat
    /\ Samples \subseteq Int
    /\ MaxBlocks \in Nat

VARIABLES
    newSamples, count,      \* the block, and sta_lta's index in it
    tempData, countTempData,
    sta, lta, countLTA_STA,
    first,                  \* count of inizializeFirstSamples; lengthLTA: it does not run
    total                   \* history: total[n + 1] is the sum of the first n samples

wvars == <<newSamples, count, tempData, countTempData, sta, lta, countLTA_STA,
           first, total>>

Places == 0 .. lengthLTA - 1
Taken == Len(total) - 1

InitWindows ==
    /\ newSamples = [i \in 0 .. freq - 1 |-> 0]
    /\ count = freq
    /\ tempData = [i \in Places |-> 0]
    /\ countTempData = 0
    /\ sta = [i \in Places |-> 0]
    /\ lta = [i \in Places |-> 0]
    /\ countLTA_STA = 0
    /\ first = lengthLTA
    /\ total = <<0>>

-----------------------------------------------------------------------------
(* sta_lta is called with the next block.                                  *)
TakeBlock(block) ==
    /\ count = freq
    /\ first = lengthLTA
    /\ Taken < MaxBlocks * freq
    /\ newSamples' = block
    /\ count' = 0
    /\ UNCHANGED <<tempData, countTempData, sta, lta, countLTA_STA, first, total>>

Iteration ==
    /\ count # freq
    /\ first = lengthLTA
    /\ count' = count + 1
    /\ total' = Append(total, total[Len(total)] + newSamples[count])

(* The register is not full: the sample is kept, the last one starts the   *)
(* sums.                                                                   *)
Fill ==
    /\ Iteration
    /\ countTempData # lengthLTA
    /\ tempData' = [tempData EXCEPT ![countTempData] = newSamples[count]]
    /\ countTempData' = countTempData + 1
    /\ first' = IF countTempData = lengthLTA - 1 THEN 0 ELSE first
    /\ UNCHANGED <<newSamples, sta, lta, countLTA_STA>>

(* An iteration of inizializeFirstSamples.  Two samples start both sums.   *)
FirstSum(place) ==
    IF place = 0 THEN tempData[0]
    ELSE IF place < lengthSTA THEN tempData[place] + tempData[place - 1]
    ELSE sta[place - 1] + tempData[place] - tempData[place - lengthSTA]

InizializeFirstSamples ==
    /\ first < lengthLTA
    /\ sta' = [sta EXCEPT ![first] = FirstSum(first)]
    /\ lta' = [lta EXCEPT ![first] = IF first = 0 THEN tempData[0]
                                     ELSE tempData[first] + tempData[first - 1]]
    /\ first' = first + 1
    /\ UNCHANGED <<newSamples, count, tempData, countTempData, countLTA_STA, total>>

(* The register is full: both windows slide by one place.                  *)
Place == IF countLTA_STA = lengthLTA THEN 0 ELSE countLTA_STA
Before == IF Place = 0 THEN lengthLTA - 1 ELSE Place - 1

(* Mutant: the sample that leaves is always looked up in the register.     *)
LeavesSTA_Register == tempData[(lengthLTA - lengthSTA + count) % lengthLTA]

LeavesSTA ==
    IF Place = 0 THEN tempData[lengthLTA - lengthSTA]
    ELSE IF count >= lengthSTA THEN newSamples[count - lengthSTA]
    ELSE tempData[lengthLTA - lengthSTA + count]

LeavesLTA == IF Place = 0 THEN tempData[0] ELSE tempData[count]

(* moveRegister at the end of a block.                                     *)
Moved == [i \in Places |-> IF i >= lengthLTA - freq
                           THEN newSamples[i - (lengthLTA - freq)]
                           ELSE tempData[i + freq]]

Slide ==
    /\ Iteration
    /\ countTempData = lengthLTA
    /\ sta' = [sta EXCEPT ![Place] = sta[Before] + newSamples[count] - LeavesSTA]
    /\ lta' = [lta EXCEPT ![Place] = lta[Before] + newSamples[count] - LeavesLTA]
    /\ tempData' = IF count = freq - 1 THEN Moved ELSE tempData
    /\ countLTA_STA' = Place + 1
    /\ UNCHANGED <<newSamples, countTempData, first>>

Step == Fill \/ InizializeFirstSamples \/ Slide
Finished == count = freq /\ first = lengthLTA

NextWindows ==
    \/ \E block \in [0 .. freq - 1 -> Samples] : TakeBlock(block)
    \/ Step

SpecWindows == InitWindows /\ [][NextWindows]_wvars

-----------------------------------------------------------------------------
(* What the windows hold: the sums over the last k samples, over the first *)
(* k samples, and the places the ratio is computed from.                   *)
Window(k) == total[Len(total)] - total[Len(total) - k]
First(k) == IF k <= 0 THEN 0 ELSE total[k + 1]

Full == countTempData = lengthLTA /\ first = lengthLTA
Current == IF countLTA_STA = 0 THEN lengthLTA - 1 ELSE countLTA_STA - 1

Abs(x) == IF x < 0 THEN -x ELSE x

(* sta_to_lta >= thOn; the quotient of two zeros is not a number.          *)
Triggers(short, long) ==
    IF long = 0 THEN short # 0
    ELSE Abs(short) * lengthLTA >= thOn * Abs(long) * lengthSTA

(* The running sums follow their windows through every block, wrap and     *)
(* shift of the register, with an error that never changes: for ever they  *)
(* lack the first lengthSTA - 2 and lengthLTA - 2 samples of the program,  *)
(* because the sums were started with two samples each.                    *)
WindowErrorIsFixed ==
    Full => /\ sta[Current] = Window(lengthSTA) - First(lengthSTA - 2)
            /\ lta[Current] = Window(lengthLTA) - First(lengthLTA - 2)

(* What staLta.c says of thOn: an event starts when the ratio of the       *)
(* averages over the two windows reaches it.                               *)
TriggersOnWindows ==
    Full /\ countLTA_STA # 0 =>
        (Triggers(sta[Current], lta[Current])
           <=> Triggers(Window(lengthSTA), Window(lengthLTA)))

=============================================================================

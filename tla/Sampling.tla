------------------------------ MODULE Sampling ------------------------------
(***************************************************************************)
(* From the converter to the detector: a block read by Adc is thinned by   *)
(* subMuestreo_xxx and handed to sta_lta.  The detector of one axis is     *)
(* followed; those of the others are the same and share nothing with it.   *)
(*                                                                         *)
(* The signal on the inputs is a single impulse on that axis: the sums are *)
(* linear in the signal, so other signals add nothing.                     *)
(***************************************************************************)
EXTENDS Adc, StaLta, FiniteSets

CONSTANTS
    Watched,        \* the axis
    Impulses        \* when the impulse may come: pairs of block and round

ASSUME SamplingAssumption ==
    /\ Watched \in Axes
    /\ MAX_SPS % freq = 0
    /\ {0, 1} \subseteq Samples
    /\ LastBlock <= MaxBlocks

VARIABLE impulse

svars == <<avars, wvars, impulse>>

Init ==
    /\ InitAdc
    /\ InitWindows
    /\ impulse \in Impulses

-----------------------------------------------------------------------------
factor == MAX_SPS \div freq

(* subMuestreo_xxx: the first sample of every factor is kept.              *)
Thinned(a) == [i \in 0 .. freq - 1 |-> data[a][i * factor]]

Value(sample) ==
    IF sample.axis = Watched /\ <<sample.block, sample.round>> = impulse THEN 1 ELSE 0

(* The block is full: sta_lta takes it, goes through it, and the next      *)
(* block is read.                                                          *)
Hand ==
    /\ phase = "full"
    /\ Taken = (block - 1) * freq
    /\ TakeBlock([i \in 0 .. freq - 1 |-> Value(Thinned(Watched)[i])])
    /\ UNCHANGED <<avars, impulse>>

Detect == Step /\ UNCHANGED <<avars, impulse>>

Handled == Taken = block * freq /\ Finished

Resume ==
    /\ NextBlock
    /\ Handled
    /\ UNCHANGED <<wvars, impulse>>

Read == ReadBlock /\ UNCHANGED <<wvars, impulse>>
Device == Convert /\ UNCHANGED <<wvars, impulse>>

AllTaken == block = LastBlock /\ phase = "full" /\ Handled
Stop == (AllTaken \/ Stalled \/ Ended) /\ UNCHANGED svars

Next == Read \/ Device \/ Hand \/ Detect \/ Resume \/ Stop

(* The converter ends its conversions and the program goes on.             *)
Spec ==
    /\ Init
    /\ [][Next]_svars
    /\ WF_svars(Device)
    /\ WF_svars(Read /\ faults' = faults)
    /\ WF_svars(Hand \/ Detect \/ Resume)

-----------------------------------------------------------------------------
(* Samples that reach the detector and the files are spoiled when they are *)
(* not the conversion of their own axis at their own time.                 *)
Spoiled == {p \in Axes \X (0 .. freq - 1) :
              Thinned(p[1])[p[2]] # [axis |-> p[1], block |-> block, round |-> p[2] * factor]}

(* Each failed transfer or pin spoils one sample at most, of one axis:     *)
(* neither the multiplexer nor a result that was not read carries it on to *)
(* the samples after.                                                      *)
FaultsSpoilFewSamples == phase = "full" => Cardinality(Spoiled) <= faults

(* Transfers, pins and polls may fail: the blocks are all taken, or there  *)
(* was a failure in the last one and the program polls DRDY for ever or    *)
(* has ended.  Without a failure a block is always finished.               *)
SamplingGoesOn == <>AllTaken \/ <>[]((Stalled \/ Ended) /\ faults > 0)

=============================================================================

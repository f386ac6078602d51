-------------------------------- MODULE Adc ---------------------------------
(***************************************************************************)
(* The samples of a block: readAnalogInputsAndSaveData reads the three     *)
(* axes in turn, MAX_SPS times, with readAIN2_3, readAIN4_5 and            *)
(* readAIN6_7 of adc.c.  Each selects its inputs in INPMUX, pulses START,  *)
(* polls DRDY and reads the result.  The results of the transfers and of   *)
(* the pins are ignored by the callers, so a failure goes on as if all was *)
(* well.  Two failures of a poll are different: when DRDY's file opens but *)
(* cannot be read, getValue looks at a buffer that was never set, so that  *)
(* the poll may see LOW; when it does not open, readGPIO hands a null      *)
(* pointer to fgets and the program ends.                                  *)
(*                                                                         *)
(* Outside: the ADS1262 in pulse conversion mode (Convert).  A sample is   *)
(* named by the inputs it was converted from and by when.                  *)
(***************************************************************************)
EXTENDS Integers

CONSTANTS
    MAX_SPS,
    MaxFaults,      \* bound: transfers and pins that fail in a block
    LastBlock       \* bound: blocks taken

ASSUME AdcAssumption ==
    MAX_SPS \in Nat \ {0} /\ MaxFaults \in Nat /\ LastBlock \in Nat \ {0}

Axes == 1 .. 3      \* X, Y, Z: AIN2_3, AIN4_5, AIN6_7
Zero == [axis |-> 0, block |-> 0, round |-> 0]      \* bytes never received

VARIABLES
    mux, drdy, converting,  \* the ADC: inputs, pin gpio10, a conversion runs
    result,                 \* the ADC's last conversion
    block, round, axis,     \* round: count of the loop; axis: whose turn it is
    phase,                  \* "start", "wait" for DRDY, "full": the block is read;
                            \* "ended": the program
    recv,                   \* recvX, recvY, recvZ
    data,                   \* dataX, dataY, dataZ
    faults                  \* failures in this block

avars == <<mux, drdy, converting, result, block, round, axis, phase, recv,
           data, faults>>

Empty == [a \in Axes |-> [i \in 0 .. MAX_SPS - 1 |-> Zero]]

InitAdc ==
    /\ mux = 1
    /\ drdy = "HIGH"
    /\ converting = FALSE
    /\ result = Zero
    /\ block = 1 /\ round = 0 /\ axis = 1
    /\ phase = "start"
    /\ recv = [a \in Axes |-> Zero]
    /\ data = Empty
    /\ faults = 0

-----------------------------------------------------------------------------
(* Up to MaxFaults things of a block may fail.                             *)
Count(failed) ==
    /\ faults' = faults + failed
    /\ faults' <= MaxFaults

(* Mutants: the inputs are selected once a round; START is pulsed once a   *)
(* round, as if the converter went on by itself.                           *)
StartConversion_SelectsOnce ==
    /\ phase = "start"
    /\ \E pulsed \in BOOLEAN :
         /\ Count(IF pulsed THEN 0 ELSE 1)
         /\ mux' = IF axis = 1 THEN axis ELSE mux
         /\ IF pulsed THEN drdy' = "HIGH" /\ converting' = TRUE
                      ELSE UNCHANGED <<drdy, converting>>
    /\ phase' = "wait"
    /\ UNCHANGED <<result, block, round, axis, recv, data>>

StartConversion_PulsesOnce ==
    /\ phase = "start"
    /\ mux' = axis
    /\ IF axis = 1 THEN drdy' = "HIGH" /\ converting' = TRUE
                   ELSE UNCHANGED <<drdy, converting>>
    /\ phase' = "wait"
    /\ UNCHANGED <<result, block, round, axis, recv, data, faults>>

(* The inputs are selected, START is pulsed: a conversion starts.          *)
StartConversion ==
    /\ phase = "start"
    /\ \E selected, pulsed \in BOOLEAN :
         /\ Count((IF selected THEN 0 ELSE 1) + (IF pulsed THEN 0 ELSE 1))
         /\ mux' = IF selected THEN axis ELSE mux
         /\ IF pulsed THEN drdy' = "HIGH" /\ converting' = TRUE
                      ELSE UNCHANGED <<drdy, converting>>
    /\ phase' = "wait"
    /\ UNCHANGED <<result, block, round, axis, recv, data>>

(* The converter is done.                                                  *)
Convert ==
    /\ converting
    /\ converting' = FALSE
    /\ drdy' = "LOW"
    /\ result' = [axis |-> mux, block |-> block, round |-> round]
    /\ UNCHANGED <<mux, block, round, axis, phase, recv, data, faults>>

(* The next axis, the next round, the end of the block.                    *)
Advance ==
    IF axis < 3
    THEN axis' = axis + 1 /\ phase' = "start" /\ UNCHANGED <<round, data>>
    ELSE /\ data' = [a \in Axes |-> [data[a] EXCEPT ![round] = recv'[a]]]
         /\ axis' = 1
         /\ IF round = MAX_SPS - 1 THEN phase' = "full" /\ UNCHANGED round
            ELSE phase' = "start" /\ round' = round + 1

(* readGPIO cannot open DRDY's file.                                       *)
DrdyNotOpened ==
    /\ phase = "wait"
    /\ Count(1)
    /\ phase' = "ended"
    /\ UNCHANGED <<mux, drdy, converting, result, block, round, axis, recv, data>>

(* DRDY is LOW, or is taken for it: the result is read, which raises DRDY. *)
(* If the transfer fails the bytes of the last one stay.                   *)
ReadResult ==
    /\ phase = "wait"
    /\ \E misread, received \in BOOLEAN :
         /\ Count((IF misread THEN 1 ELSE 0) + (IF received THEN 0 ELSE 1))
         /\ misread # (drdy = "LOW")
         /\ recv' = IF received THEN [recv EXCEPT ![axis] = result] ELSE recv
         /\ drdy' = IF received THEN "HIGH" ELSE drdy
    /\ Advance
    /\ UNCHANGED <<mux, converting, result, block>>

(* The next call of readAnalogInputsAndSaveData.                           *)
NextBlock ==
    /\ phase = "full"
    /\ block < LastBlock
    /\ block' = block + 1
    /\ round' = 0 /\ axis' = 1
    /\ phase' = "start"
    /\ recv' = [a \in Axes |-> Zero]
    /\ data' = Empty
    /\ faults' = 0
    /\ UNCHANGED <<mux, drdy, converting, result>>

ReadBlock == StartConversion \/ ReadResult \/ DrdyNotOpened

-----------------------------------------------------------------------------
(* Nothing that the program waits for will come: DRDY stays HIGH because   *)
(* no conversion runs.                                                     *)
Stalled == phase = "wait" /\ ~converting /\ drdy = "HIGH"

Ended == phase = "ended"

=============================================================================

-------------------------- MODULE MCEventDetector --------------------------
(* Constants for the runs of EventDetector: blocks of a few samples, a day *)
(* of nine seconds.                                                         *)
EXTENDS EventDetector

(* A label repeated, the next one, one second skipped.                      *)
MCLabelSteps == {0, 1, 2}

(* Every block one second after the one before.                            *)
MCOneSecond == {1}

(* getSeconds reads what it was given.                                      *)
MCNoSkew == {0}
=============================================================================

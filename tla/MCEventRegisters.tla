-------------------------- MODULE MCEventRegisters -------------------------
(* Constants for the runs of EventRegisters.                                *)
EXTENDS EventRegisters

MCOneSecond == {1}
MCNoSkew == {0}
=============================================================================

------------------------------ MODULE MCStaLta ------------------------------
(* The windows of defaultParams at ten samples a second, and a signal that *)
(* never changes.                                                          *)
EXTENDS StaLta

MCConstantSignal == {1}
=============================================================================

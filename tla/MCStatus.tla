------------------------------ MODULE MCStatus ------------------------------
(* Limits of two seconds and one in place of 30 and 20, silences up to     *)
(* three seconds beyond the longer one; the two files that the program     *)
(* writes.                                                                 *)
EXTENDS Status
=============================================================================

---------------------------- MODULE MCRtcSetting ----------------------------
(* Minutes of three seconds, two values of every other register: days of   *)
(* twelve seconds, years of 48.  A misread digit is a one.                 *)
EXTENDS RtcSetting

SmallRadix == [r \in Register |-> IF r = "sec" THEN 3 ELSE 2]
NoMisreads == {}
SomeMisreads == {1}
=============================================================================

--------------------------- MODULE MCAcquisition ---------------------------
(* Constants for the run of Acquisition: a receiver that may pulse or not, *)
(* with sentences or without, from one second to the next.                 *)
EXTENDS Acquisition

MCAllModes == {"fix", "nofix", "mute", "nopulse", "dead"}

(* An RTC that is right or a second ahead, and drifts between the two.     *)
MCRtcErrors == {-1, 0}
=============================================================================

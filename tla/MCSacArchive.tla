---------------------------- MODULE MCSacArchive ----------------------------
(* Constants for the runs of SacArchive: hours of a few seconds.           *)
EXTENDS SacArchive

(* An hour back, a label repeated, the next one, one second skipped.       *)
MCAnyStep == {-3, 0, 1, 2}

(* The first second of the second hour is dated rightly or wrongly, as the *)
(* bytes after the two digits have it; the labels after it a day short.    *)
MCSacDate == [t \in 0 .. MaxTime |-> CASE t < HourSeconds -> {t}
                                        [] t = HourSeconds -> {t, t + 100}
                                        [] t > HourSeconds -> {t - 100}]

(* Three axes that overlap, one of them rising, one falling; in the first  *)
(* second nothing moves.                                                   *)
MCTrace == [a \in {"BH2", "BH1", "BHZ"} |-> [t \in 0 .. MaxTime |->
              CASE t <= 1 -> 0 [] a = "BH2" -> 5 + t [] a = "BH1" -> 3 - t [] a = "BHZ" -> 4]]

(* Every block one second after the one before.                            *)
MCOneSecond == {1}
=============================================================================

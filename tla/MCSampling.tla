----------------------------- MODULE MCSampling -----------------------------
(* Three blocks of eight conversions, four of which are kept, so that the  *)
(* first two fill the detector's register of eight and the third one       *)
(* slides the windows; the short window of three is shorter than a block.  *)
EXTENDS Sampling

MCImpulses == {<<1, 0>>, <<2, 4>>, <<3, 2>>}
=============================================================================

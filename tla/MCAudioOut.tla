----------------------------- MODULE MCAudioOut -----------------------------
(***************************************************************************)
(* A stream of a few units for TLC.  The card holds two fragments of three *)
(* units, as many as the silence has; a frame is shorter than a fragment,  *)
(* or longer, or nothing once it is resampled.                             *)
(***************************************************************************)
EXTENDS AudioOut

MCFrameSizes == {0, 1, 4}

MCAsyncs == {-1, 2}
=============================================================================

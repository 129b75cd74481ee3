-------------------------- MODULE MCPlayerThreads --------------------------
(***************************************************************************)
(* PlayerThreads for TLC.  Nothing in it is unbounded: the constants are   *)
(* the streams of the clip, the switches and a queue of three frames (six  *)
(* in the code), enough for it to be empty, filling and full.              *)
(***************************************************************************)
EXTENDS PlayerThreads
=============================================================================

---------------------------- MODULE MCVideoQueue ----------------------------
(***************************************************************************)
(* A queue of a few images for TLC.                                        *)
(***************************************************************************)
EXTENDS VideoQueue
=============================================================================

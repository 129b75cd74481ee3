------------------------------ MODULE MCQRing ------------------------------
(***************************************************************************)
(* Rings of a few slots and three values for TLC.                          *)
(***************************************************************************)
EXTENDS QRing

CONSTANTS a, b, c

MCValues == {a, b, c}
=============================================================================

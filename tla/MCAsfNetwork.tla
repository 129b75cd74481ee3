---------------------------- MODULE MCAsfNetwork ----------------------------
(***************************************************************************)
(* Two streams and a content of twice the cache, for TLC.                  *)
(***************************************************************************)
EXTENDS AsfNetwork

MCIterators == {1, 2}
=============================================================================

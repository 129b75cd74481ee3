--------------------------- MODULE MCStreamCache ---------------------------
(***************************************************************************)
(* Two small streams for TLC: a "video" of three chunks and an "audio" of  *)
(* two, in rings of two packets.  Chunk 1 of each may be unreadable.  The  *)
(* first audio chunk meets the byte limit in a ring with room; the first   *)
(* two of the video stay below it, the last two exceed it.                 *)
(***************************************************************************)
EXTENDS StreamCache

MCTableSize == [s \in Streams |-> IF s = 0 THEN 3 ELSE 2]
MCBefore == [s \in Streams |-> IF s = 0
                               THEN [p \in 0 .. 3 |-> <<0, 1, 3, 6>>[p + 1]]
                               ELSE [p \in 0 .. 2 |-> <<0, 4, 5>>[p + 1]]]
MCMayFail == [s \in Streams |-> {1}]
=============================================================================

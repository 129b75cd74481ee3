----------------------------- MODULE MCAviFile -----------------------------
(***************************************************************************)
(* Files of a few chunks for TLC.                                          *)
(***************************************************************************)
EXTENDS AviFile

Copied == <<[video |-> TRUE, encoder |-> FALSE, sample |-> 0],
            [video |-> FALSE, encoder |-> FALSE, sample |-> 2]>>
Encoded == <<[video |-> TRUE, encoder |-> TRUE, sample |-> 0],
             [video |-> FALSE, encoder |-> TRUE, sample |-> 1]>>
MCSetups == {Copied, Encoded}

MCCell == STRING \X Int

MCMenu == {[stream |-> 1, size |-> 3, key |-> TRUE],
           [stream |-> 1, size |-> 0, key |-> FALSE],
           [stream |-> 1, size |-> 45, key |-> FALSE],
           [stream |-> 2, size |-> 1, key |-> TRUE],
           [stream |-> 2, size |-> 4, key |-> TRUE]}
=============================================================================

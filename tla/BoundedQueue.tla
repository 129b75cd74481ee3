---------------------------- MODULE BoundedQueue ----------------------------
(***************************************************************************)
(* What qring promises ("simple queue ring", "usable for ring buffer with  *)
(* given size"): a sequence of at most Capacity values, used as a queue    *)
(* that also takes values in its middle.                                   *)
(***************************************************************************)
EXTENDS Naturals, SequencesExt

CONSTANTS
    Values,     \* what is queued
    Capacity    \* most values it may hold

VARIABLE queue

Init == queue = <<>>

Push(v) == /\ Len(queue) < Capacity
           /\ queue' = Append(queue, v)

Pop == /\ queue # <<>>
       /\ queue' = Tail(queue)

\* The values at and after position where, counted from 0, move back.
Insert(where, v) == /\ Len(queue) < Capacity
                    /\ queue' = InsertAt(queue, where + 1, v)

Clear == queue' = <<>>

Next == \/ \E v \in Values : \/ Push(v)
                             \/ \E where \in 0 .. Len(queue) : Insert(where, v)
        \/ Pop
        \/ Clear

Spec == Init /\ [][Next]_queue
=============================================================================

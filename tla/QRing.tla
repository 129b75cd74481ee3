------------------------------- MODULE QRing -------------------------------
(***************************************************************************)
(* qring of src/include/avm_stl.h: a queue in an array of Capacity slots,  *)
(* of which m_uiPos is the next one to fill and m_uiSize ones before it,   *)
(* going round, are used.                                                  *)
(***************************************************************************)
EXTENDS Integers, Sequences

CONSTANTS
    Values,     \* the element type
    Capacity,   \* m_uiCapacity
    InsertRoom  \* slots that insert's caller leaves free, and one more: 1 is
                \* what its assertion asks for, 2 what it needs

ASSUME CapacityAssumption == Capacity \in Nat \ {0}
ASSUME RoomAssumption == InsertRoom \in {1, 2}

Slots == 0 .. Capacity - 1

VARIABLES
    slot,   \* m_Type[]
    pos,    \* m_uiPos
    size    \* m_uiSize

vars == <<slot, pos, size>>

\* new Type[] leaves numbers and pointers as they are.
Init == /\ slot \in [Slots -> Values]
        /\ pos = 0
        /\ size = 0

-----------------------------------------------------------------------------
\* An index that has run past the end of the array, at most once.
Wrap(i) == IF i >= Capacity THEN i - Capacity ELSE i

\* Slip: position Capacity is taken for a slot of the array.
AdvanceLate(i) == IF i + 1 > Capacity THEN i + 1 - Capacity ELSE i + 1

\* The next slot to fill.
Advance(i) == Wrap(i + 1)

\* fpos() and operator[]
FrontPos(p, n) == IF n > p THEN p + Capacity - n ELSE p - n
Slot(i) == Wrap(i + FrontPos(pos, size))

Push(v) == /\ size < Capacity
           /\ slot' = [slot EXCEPT ![pos] = v]
           /\ pos' = Advance(pos)
           /\ size' = size + 1

\* The callers look at empty() or size() first.
Pop == /\ size > 0
       /\ size' = size - 1
       /\ UNCHANGED <<slot, pos>>

Clear == pos' = 0 /\ size' = 0 /\ UNCHANGED slot

\* Slip: the first m_uiSize slots are copied.
AssignFirstSlots ==
    /\ \E other \in [Slots -> Values] :
        slot' = [i \in Slots |-> IF i < size THEN slot[i] ELSE other[i]]
    /\ UNCHANGED <<pos, size>>

\* operator=: the new array holds nothing but what was in use.
Assign == /\ \E other \in [Slots -> Values] :
              slot' = [i \in Slots |-> IF \E k \in 0 .. size - 1 : Slot(k) = i
                                       THEN slot[i] ELSE other[i]]
          /\ UNCHANGED <<pos, size>>

\* Steps back from slot p to slot i.
StepsBack(p, i) == IF p >= i THEN p - i ELSE p + Capacity - i

\* Slip: the slot of the new value is copied from as well.
ShiftedTooFar(p, n) ==
    [i \in Slots |-> IF StepsBack(p, i) >= n + 1 THEN slot[i]
                     ELSE slot[Wrap(i + Capacity - 1)]]

\* insert's loop, n turns of it: slot p, then the slot before, and so on, take
\* the value of the slot before them.
Loop(p, n) ==
    LET after[k \in 0 .. n] ==
            IF k = 0 THEN slot
            ELSE LET f == Wrap(p + Capacity - k)
                 IN [after[k - 1] EXCEPT ![Wrap(f + 1)] = after[k - 1][f]]
    IN  after[n]

\* The same at once: turn Capacity is back at slot p, which has its new value
\* already.
Shifted(p, n) ==
    [i \in Slots |-> IF StepsBack(p, i) >= n THEN slot[i]
                     ELSE IF StepsBack(p, i) < Capacity - 1
                     THEN slot[Wrap(i + Capacity - 1)]
                     ELSE slot[Wrap(p + Capacity - 1)]]

Insert(where, v) ==
    LET newPos == Advance(pos)
        newSize == size + 1
        gap == Wrap(where + FrontPos(newPos, newSize))
    IN  /\ size + InsertRoom <= Capacity
        /\ slot' = [Shifted(newPos, newSize - where) EXCEPT ![gap] = v]
        /\ pos' = newPos
        /\ size' = newSize

Next == \/ \E v \in Values : \/ Push(v)
                             \/ \E where \in 0 .. size : Insert(where, v)
        \/ Pop \/ Clear \/ Assign

Spec == Init /\ [][Next]_vars

-----------------------------------------------------------------------------
TypeOK == /\ slot \in [Slots -> Values]
          /\ pos \in Slots
          /\ size \in 0 .. Capacity

\* The values in the ring as operator[] gives them, front() first, back() last.
Contents == [i \in 1 .. size |-> slot[Slot(i - 1)]]

\* The form of insert's loop that Insert uses is the loop.
ShiftsLikeTheLoop ==
    \A p \in Slots, n \in 1 .. Capacity : Shifted(p, n) = Loop(p, n)

Queue == INSTANCE BoundedQueue WITH queue <- Contents

\* Whatever the slots out of use hold, and wherever the ring starts over,
\* each operation does to the contents what it would do to a plain sequence.
IsQueue == Queue!Spec
=============================================================================

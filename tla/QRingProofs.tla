---------------------------- MODULE QRingProofs ----------------------------
(***************************************************************************)
(* The ring of avm_stl.h is a bounded queue, for any capacity and any      *)
(* values.  The lemmas are about positions going round; the theorem        *)
(* compares, operation by operation, what is at each of them.              *)
(***************************************************************************)
EXTENDS QRing, SequenceTheorems, WellFoundedInduction, TLAPS

\* The slot of the value at position i, when the ring has p and n in m_uiPos
\* and m_uiSize.
At(p, n, i) == Wrap(i + FrontPos(p, n))

LEMMA Places ==
    ASSUME NEW p \in Slots, NEW n \in 0 .. Capacity, NEW i \in 0 .. Capacity - 1
    PROVE  At(p, n, i) \in Slots /\ Advance(p) \in Slots
BY CapacityAssumption DEF At, Wrap, FrontPos, Slots, Advance

\* Two positions of the ring never share a slot.
LEMMA PlacesDiffer ==
    ASSUME NEW p \in Slots, NEW n \in 0 .. Capacity,
           NEW i \in 0 .. Capacity - 1, NEW j \in 0 .. Capacity - 1, i # j
    PROVE  At(p, n, i) # At(p, n, j)
BY CapacityAssumption DEF At, Wrap, FrontPos, Slots

\* push fills the slot after the last one and moves nothing.
LEMMA PlacesAfterPush ==
    ASSUME NEW p \in Slots, NEW n \in 0 .. Capacity - 1,
           NEW i \in 0 .. Capacity - 1
    PROVE  At(Advance(p), n + 1, i) = At(p, n, i) /\ At(p, n, n) = p
BY CapacityAssumption DEF At, Wrap, FrontPos, Slots, Advance

\* pop moves each position up by one.
LEMMA PlacesAfterPop ==
    ASSUME NEW p \in Slots, NEW n \in 1 .. Capacity,
           NEW i \in 0 .. Capacity - 2
    PROVE  At(p, n - 1, i) = At(p, n, i + 1)
BY CapacityAssumption DEF At, Wrap, FrontPos, Slots

\* The slot before the one of position i is that of position i - 1.
LEMMA PlaceBefore ==
    ASSUME NEW p \in Slots, NEW n \in 0 .. Capacity,
           NEW i \in 1 .. Capacity - 1
    PROVE  Wrap(At(p, n, i) + Capacity - 1) = At(p, n, i - 1)
BY CapacityAssumption DEF At, Wrap, FrontPos, Slots

LEMMA StepsBackTo ==
    ASSUME NEW p \in Slots, NEW n \in 0 .. Capacity - 1, NEW i \in 0 .. n
    PROVE  StepsBack(p, At(p, n, i)) = n - i
BY CapacityAssumption DEF At, Wrap, FrontPos, Slots, StepsBack

-----------------------------------------------------------------------------
(* Sequences *)

LEMMA SameSequence ==
    ASSUME NEW S, NEW s \in Seq(S), NEW t \in Seq(S), Len(s) = Len(t),
           \A i \in 1 .. Len(s) : s[i] = t[i]
    PROVE  s = t
OBVIOUS

LEMMA AsFunction ==
    ASSUME NEW S, NEW s \in Seq(S)
    PROVE  s = [i \in 1 .. Len(s) |-> s[i]]
OBVIOUS

LEMMA AppendFacts ==
    ASSUME NEW S, NEW q \in Seq(S), NEW v \in S
    PROVE  /\ Append(q, v) \in Seq(S) /\ Len(Append(q, v)) = Len(q) + 1
           /\ \A i \in 1 .. Len(q) + 1 :
                Append(q, v)[i] = IF i <= Len(q) THEN q[i] ELSE v
OBVIOUS

\* What InsertAt makes of q, value by value.
Inserted(q, w, v) ==
    [i \in 1 .. Len(q) + 1 |->
        IF i <= w THEN q[i] ELSE IF i = w + 1 THEN v ELSE q[i - 1]]

LEMMA InsertFacts ==
    ASSUME NEW S, NEW q \in Seq(S), NEW v \in S, NEW w \in 0 .. Len(q)
    PROVE  /\ Queue!InsertAt(q, w + 1, v) \in Seq(S)
           /\ Queue!InsertAt(q, w + 1, v) = Inserted(q, w, v)
<1> DEFINE n == Len(q)
           head == SubSeq(q, 1, w)
           tail == SubSeq(q, w + 1, n)
<1>1. n \in Nat /\ w \in Nat /\ w <= n
    OBVIOUS
<1>2. /\ head \in Seq(S) /\ Len(head) = w
      /\ \A i \in 1 .. w : head[i] = q[i]
    <2>1. \A i \in 1 .. w : q[i] \in S
        BY <1>1
    <2> QED
        BY <1>1, <2>1, SubSeqProperties
<1>3. /\ tail \in Seq(S) /\ Len(tail) = n - w
      /\ \A i \in 1 .. n - w : tail[i] = q[w + i]
    <2>1. \A i \in w + 1 .. n : q[i] \in S
        BY <1>1
    <2>2. /\ tail \in Seq(S)
          /\ Len(tail) = IF w + 1 <= n THEN n - (w + 1) + 1 ELSE 0
          /\ \A i \in 1 .. n - (w + 1) + 1 : tail[i] = q[(w + 1) + i - 1]
        BY <1>1, <2>1, SubSeqProperties
    <2> QED
        BY <1>1, <2>2
<1>4. <<v>> \in Seq(S) /\ Len(<<v>>) = 1 /\ <<v>>[1] = v
    OBVIOUS
<1> HIDE DEF n, head, tail
<1> DEFINE front == head \o <<v>>
<1>5. /\ front \in Seq(S) /\ Len(front) = w + 1
      /\ \A i \in 1 .. w : front[i] = q[i]
      /\ front[w + 1] = v
    <2>1. /\ front \in Seq(S) /\ Len(front) = w + 1
          /\ \A i \in 1 .. w + 1 :
                front[i] = IF i <= w THEN head[i] ELSE <<v>>[i - w]
        BY <1>1, <1>2, <1>4, ConcatProperties
    <2> QED
        BY <1>1, <1>2, <1>4, <2>1
<1> HIDE DEF front
<1>6. /\ front \o tail \in Seq(S) /\ Len(front \o tail) = n + 1
      /\ \A i \in 1 .. n + 1 : (front \o tail)[i] =
                IF i <= w + 1 THEN front[i] ELSE tail[i - (w + 1)]
    <2>1. /\ front \o tail \in Seq(S)
          /\ Len(front \o tail) = Len(front) + Len(tail)
          /\ \A i \in 1 .. Len(front) + Len(tail) : (front \o tail)[i] =
                IF i <= Len(front) THEN front[i] ELSE tail[i - Len(front)]
        BY <1>3, <1>5, ConcatProperties
    <2> QED
        BY <1>1, <1>3, <1>5, <2>1
<1>7. Queue!InsertAt(q, w + 1, v) = front \o tail
    <2>1. (w + 1) - 1 = w
        BY <1>1
    <2> QED
        BY <2>1, Zenon DEF Queue!InsertAt, front, head, tail, n
<1>8. ASSUME NEW i \in 1 .. n + 1
      PROVE  (front \o tail)[i] =
                IF i <= w THEN q[i] ELSE IF i = w + 1 THEN v ELSE q[i - 1]
    <2>1. CASE i <= w
        BY <1>1, <1>5, <1>6, <2>1
    <2>2. CASE i = w + 1
        BY <1>1, <1>5, <1>6, <2>2
    <2>3. CASE i > w + 1
        <3>1. i - (w + 1) \in 1 .. n - w /\ w + (i - (w + 1)) = i - 1
            BY <1>1, <2>3
        <3>2. tail[i - (w + 1)] = q[i - 1]
            BY <1>3, <3>1
        <3> QED
            BY <1>1, <1>6, <2>3, <3>2
    <2>4. i <= w \/ i = w + 1 \/ i > w + 1
        BY <1>1
    <2> QED
        BY <2>1, <2>2, <2>3, <2>4
<1>9. front \o tail = Inserted(q, w, v)
    <2>1. Inserted(q, w, v) = [i \in 1 .. n + 1 |-> (front \o tail)[i]]
        BY <1>8, Zenon DEF Inserted, n
    <2>2. front \o tail = [i \in 1 .. n + 1 |-> (front \o tail)[i]]
        BY <1>6, AsFunction, Zenon
    <2> QED
        BY <2>1, <2>2, Zenon
<1> QED
    BY <1>6, <1>7, <1>9, Zenon

-----------------------------------------------------------------------------
(* The operations *)

LEMMA InitTyped == Init => TypeOK
BY CapacityAssumption DEF Init, TypeOK, Slots

\* Contents in terms of positions.
InPlace == /\ Contents \in Seq(Values) /\ Len(Contents) = size
           /\ \A i \in 1 .. size : Contents[i] = slot[At(pos, size, i - 1)]

LEMMA ContentsInPlace == TypeOK => InPlace
<1> SUFFICES ASSUME TypeOK PROVE InPlace
    OBVIOUS
<1>1. pos \in Slots /\ size \in 0 .. Capacity /\ size \in Nat
    BY CapacityAssumption DEF TypeOK
<1>2. ASSUME NEW i \in 1 .. size
      PROVE  At(pos, size, i - 1) \in Slots /\ Slot(i - 1) = At(pos, size, i - 1)
    <2>1. i - 1 \in 0 .. Capacity - 1
        BY <1>1, CapacityAssumption
    <2> QED
        BY <1>1, <2>1, Places DEF Slot, At
<1>3. Contents \in [1 .. size -> Values]
    BY <1>1, <1>2 DEF Contents, TypeOK
<1> QED
    BY <1>1, <1>2, <1>3 DEF Contents, InPlace

LEMMA PushTyped ==
    ASSUME TypeOK, NEW v \in Values, Push(v)
    PROVE  TypeOK'
<1>1. Advance(pos) \in Slots
    BY CapacityAssumption DEF TypeOK, Advance, Wrap, Slots
<1> QED
    BY <1>1, CapacityAssumption DEF TypeOK, Push, Slots

LEMMA PopTyped == TypeOK /\ Pop => TypeOK'
BY CapacityAssumption DEF TypeOK, Pop, Slots

LEMMA ClearTyped == TypeOK /\ Clear => TypeOK'
BY CapacityAssumption DEF TypeOK, Clear, Slots

LEMMA AssignTyped == TypeOK /\ Assign => TypeOK'
BY CapacityAssumption DEF TypeOK, Assign

LEMMA InsertTyped ==
    ASSUME TypeOK, NEW v \in Values, NEW where \in 0 .. size, Insert(where, v)
    PROVE  TypeOK'
<1>1. Advance(pos) \in Slots /\ pos \in Slots /\ slot \in [Slots -> Values]
    BY CapacityAssumption DEF TypeOK, Advance, Wrap, Slots
<1>2. size + 1 \in 0 .. Capacity
    BY CapacityAssumption, RoomAssumption DEF TypeOK, Insert
<1>3. Shifted(Advance(pos), size + 1 - where) \in [Slots -> Values]
    <2>1. ASSUME NEW i \in Slots
          PROVE  Wrap(i + Capacity - 1) \in Slots
        BY CapacityAssumption DEF Wrap, Slots
    <2> QED
        BY <1>1, <2>1 DEF Shifted
<1>4. \A f \in [Slots -> Values] : \A i :
        [f EXCEPT ![i] = v] \in [Slots -> Values]
    OBVIOUS
<1>5. slot' = [Shifted(Advance(pos), size + 1 - where)
                EXCEPT ![At(Advance(pos), size + 1, where)] = v]
    BY CapacityAssumption DEF Insert, At, TypeOK
<1>6. slot' \in [Slots -> Values]
    BY <1>3, <1>4, <1>5
<1>7. pos' = Advance(pos) /\ size' = size + 1
    BY DEF Insert
<1> QED
    BY <1>1, <1>2, <1>6, <1>7 DEF TypeOK

LEMMA NextTyped == TypeOK /\ [Next]_vars => TypeOK'
<1> SUFFICES ASSUME TypeOK, [Next]_vars PROVE TypeOK'
    OBVIOUS
<1>1. CASE UNCHANGED vars
    BY <1>1 DEF TypeOK, vars
<1> QED
    BY <1>1, PushTyped, PopTyped, ClearTyped, AssignTyped, InsertTyped DEF Next

\* The array has Values in all its slots, m_uiPos lies in it, and m_uiSize is
\* at most the capacity.
THEOREM TypeCorrect == Spec => []TypeOK
BY InitTyped, NextTyped, PTL DEF Spec
-----------------------------------------------------------------------------
(* The contents after each operation *)

\* A value can be followed from its place in the ring to its place in the
\* sequence q that the contents become.
LEMMA ContentsBecome ==
    ASSUME TypeOK', NEW q \in Seq(Values), Len(q) = size',
           \A i \in 1 .. size' : q[i] = slot'[At(pos', size', i - 1)]
    PROVE  Contents' = q
<1>1. InPlace'
    <2>1. TypeOK' => InPlace'
        BY ContentsInPlace, PTL
    <2> QED
        BY <2>1
<1>2. /\ Contents' \in Seq(Values) /\ Len(Contents') = size'
      /\ \A i \in 1 .. size' : Contents'[i] = slot'[At(pos', size', i - 1)]
    BY <1>1 DEF InPlace, At, FrontPos, Wrap
<1> QED
    BY <1>2, SameSequence

LEMMA PushAppends ==
    ASSUME TypeOK, NEW v \in Values, Push(v)
    PROVE  Queue!Push(v)
<1> DEFINE q == Append(Contents, v)
<1>1. /\ pos \in Slots /\ size \in 0 .. Capacity - 1 /\ size \in Nat
      /\ slot \in [Slots -> Values]
      /\ slot' = [slot EXCEPT ![pos] = v]
      /\ pos' = Advance(pos) /\ size' = size + 1
    BY CapacityAssumption DEF TypeOK, Push
<1>2. Contents \in Seq(Values) /\ Len(Contents) = size
    BY ContentsInPlace DEF InPlace
<1>3. /\ q \in Seq(Values) /\ Len(q) = size + 1
      /\ \A i \in 1 .. size + 1 : q[i] = IF i <= size THEN Contents[i] ELSE v
    BY <1>1, <1>2, AppendFacts
<1>4. ASSUME NEW i \in 1 .. size'
      PROVE  q[i] = slot'[At(pos', size', i - 1)]
    <2>1. /\ i - 1 \in 0 .. Capacity - 1 /\ size \in 0 .. Capacity
          /\ i \in 1 .. size + 1
        BY <1>1, CapacityAssumption
    <2>2. At(pos', size', i - 1) = At(pos, size, i - 1) /\ At(pos, size, size) = pos
        BY <1>1, <2>1, PlacesAfterPush
    <2>3. CASE i <= size
        <3>1. At(pos, size, i - 1) # pos /\ At(pos, size, i - 1) \in Slots
            BY <1>1, <2>1, <2>2, <2>3, PlacesDiffer, Places
        <3>2. Contents[i] = slot[At(pos, size, i - 1)]
            BY <1>1, <2>1, <2>3, ContentsInPlace DEF InPlace
        <3>3. q[i] = Contents[i]
            BY <1>3, <2>1, <2>3
        <3> QED
            BY <1>1, <2>2, <3>1, <3>2, <3>3
    <2>4. CASE i = size + 1
        <3>1. q[i] = v
            BY <1>1, <1>3, <2>1, <2>4
        <3>2. At(pos', size', i - 1) = pos
            BY <1>1, <2>2, <2>4
        <3> QED
            BY <1>1, <3>1, <3>2
    <2>5. i <= size \/ i = size + 1
        BY <1>1, <2>1
    <2> QED
        BY <2>3, <2>4, <2>5
<1>5. Contents' = q
    BY <1>1, <1>3, <1>4, PushTyped, ContentsBecome
<1> QED
    BY <1>1, <1>2, <1>5, CapacityAssumption DEF Queue!Push

LEMMA PopTakesFirst ==
    ASSUME TypeOK, Pop
    PROVE  Queue!Pop
<1>1. /\ pos \in Slots /\ size \in 1 .. Capacity /\ size \in Nat
      /\ slot' = slot /\ pos' = pos /\ size' = size - 1
    BY CapacityAssumption DEF TypeOK, Pop
<1>2. Contents \in Seq(Values) /\ Len(Contents) = size /\ Contents # <<>>
    BY <1>1, ContentsInPlace DEF InPlace
<1>3. /\ Tail(Contents) \in Seq(Values) /\ Len(Tail(Contents)) = size - 1
      /\ \A i \in 1 .. size - 1 : Tail(Contents)[i] = Contents[i + 1]
    BY <1>1, <1>2, HeadTailProperties
<1>4. ASSUME NEW i \in 1 .. size'
      PROVE  Tail(Contents)[i] = slot'[At(pos', size', i - 1)]
    <2>1. i - 1 \in 0 .. Capacity - 2 /\ i \in 1 .. size - 1 /\ i + 1 \in 1 .. size
        BY <1>1, CapacityAssumption
    <2>2. At(pos', size', i - 1) = At(pos, size, (i - 1) + 1)
        BY <1>1, <2>1, PlacesAfterPop
    <2>3. (i - 1) + 1 = (i + 1) - 1
        BY <2>1
    <2>4. Contents[i + 1] = slot[At(pos, size, (i + 1) - 1)]
        BY <2>1, ContentsInPlace DEF InPlace
    <2>5. Tail(Contents)[i] = Contents[i + 1]
        BY <1>3, <2>1
    <2> QED
        BY <1>1, <2>2, <2>3, <2>4, <2>5
<1>5. Contents' = Tail(Contents)
    BY <1>1, <1>3, <1>4, PopTyped, ContentsBecome
<1> QED
    BY <1>2, <1>5 DEF Queue!Pop

LEMMA ClearEmpties ==
    ASSUME TypeOK, Clear
    PROVE  Queue!Clear
<1>1. size' = 0
    BY DEF Clear
<1>2. <<>> \in Seq(Values) /\ Len(<<>>) = 0
    OBVIOUS
<1>3. Contents' = <<>>
    <2>1. \A i \in 1 .. size' : <<>>[i] = slot'[At(pos', size', i - 1)]
        BY <1>1
    <2> QED
        BY <1>1, <1>2, <2>1, ClearTyped, ContentsBecome
<1> QED
    BY <1>3 DEF Queue!Clear

LEMMA AssignKeeps ==
    ASSUME TypeOK, Assign
    PROVE  Contents' = Contents
<1>1. pos' = pos /\ size' = size /\ size \in Nat /\ pos \in Slots
      /\ size \in 0 .. Capacity
    BY CapacityAssumption DEF TypeOK, Assign
<1>2. Contents \in Seq(Values) /\ Len(Contents) = size
      /\ \A i \in 1 .. size : Contents[i] = slot[At(pos, size, i - 1)]
    BY ContentsInPlace DEF InPlace
<1>3. ASSUME NEW i \in 1 .. size'
      PROVE  Contents[i] = slot'[At(pos', size', i - 1)]
    <2>1. i - 1 \in 0 .. size - 1 /\ i - 1 \in 0 .. Capacity - 1 /\ i \in 1 .. size
        BY <1>1, CapacityAssumption
    <2>2. At(pos, size, i - 1) \in Slots
        BY <1>1, <2>1, Places
    <2>3. Slot(i - 1) = At(pos, size, i - 1)
        BY DEF Slot, At
    <2>4. slot'[At(pos, size, i - 1)] = slot[At(pos, size, i - 1)]
        BY <2>1, <2>2, <2>3 DEF Assign
    <2> QED
        BY <1>1, <1>2, <2>1, <2>4
<1> QED
    BY <1>1, <1>2, <1>3, AssignTyped, ContentsBecome

LEMMA InsertInserts ==
    ASSUME TypeOK, InsertRoom = 2, NEW v \in Values, NEW where \in 0 .. size,
           Insert(where, v)
    PROVE  Queue!Insert(where, v)
<1> DEFINE p == Advance(pos)
           n == size + 1
           q == Queue!InsertAt(Contents, where + 1, v)
           gap == At(p, n, where)
<1>1. /\ pos \in Slots /\ size \in 0 .. Capacity - 2 /\ size \in Nat
      /\ where \in Nat /\ where <= size
      /\ slot \in [Slots -> Values]
      /\ p \in Slots /\ n \in 1 .. Capacity - 1
    <2>1. pos \in Slots /\ size \in 0 .. Capacity - 2 /\ slot \in [Slots -> Values]
        BY CapacityAssumption DEF TypeOK, Insert
    <2>2. p \in Slots
        BY <2>1, CapacityAssumption DEF Advance, Wrap, Slots
    <2> QED
        BY <2>1, <2>2, CapacityAssumption
<1>2. /\ slot' = [Shifted(p, n - where) EXCEPT ![gap] = v]
      /\ pos' = p /\ size' = n
    BY DEF Insert, At
<1>3. Contents \in Seq(Values) /\ Len(Contents) = size
      /\ \A i \in 1 .. size : Contents[i] = slot[At(pos, size, i - 1)]
    BY ContentsInPlace DEF InPlace
<1>a. /\ n = size + 1 /\ n \in Nat /\ n \in 0 .. Capacity /\ n \in 0 .. Capacity - 1
      /\ size \in 0 .. Capacity - 1 /\ where \in 0 .. Capacity - 1
    BY <1>1, CapacityAssumption
<1>b. ASSUME NEW k \in 0 .. Capacity - 1
      PROVE  At(p, n, k) = At(pos, size, k)
    BY <1>1, <1>a, PlacesAfterPush
<1>c. where \in 0 .. Len(Contents)
    BY <1>1, <1>3
<1>4. /\ q \in Seq(Values) /\ Len(q) = size + 1
      /\ \A i \in 1 .. size + 1 : q[i] = IF i <= where THEN Contents[i]
                                        ELSE IF i = where + 1 THEN v
                                        ELSE Contents[i - 1]
    <2>1. /\ q \in Seq(Values) /\ Len(q) = Len(Contents) + 1
          /\ \A i \in 1 .. Len(Contents) + 1 :
                q[i] = IF i <= where THEN Contents[i]
                       ELSE IF i = where + 1 THEN v
                       ELSE Contents[i - 1]
        <3>1. q \in Seq(Values) /\ q = Inserted(Contents, where, v)
            BY <1>3, <1>c, InsertFacts
        <3> HIDE DEF q
        <3> QED
            BY <1>3, <1>c, <3>1 DEF Inserted
    <2> QED
        BY <1>3, <2>1
<1> HIDE DEF p, n, q
<1>5. ASSUME NEW k \in 0 .. size, k # where
      PROVE  slot'[At(p, n, k)] = Shifted(p, n - where)[At(p, n, k)]
    <2>1. At(p, n, k) \in Slots /\ At(p, n, k) # gap
        <3>1. k \in 0 .. Capacity - 1
            BY <1>1, CapacityAssumption
        <3> QED
            BY <1>1, <1>5, <1>a, <3>1, Places, PlacesDiffer
    <2> QED
        BY <1>2, <2>1, Zenon DEF Shifted
<1>6. ASSUME NEW i \in 1 .. size'
      PROVE  q[i] = slot'[At(pos', size', i - 1)]
    <2> DEFINE place == At(p, n, i - 1)
    <2>1. /\ i - 1 \in 0 .. size /\ i \in 1 .. size + 1 /\ i \in Int
          /\ i - 1 \in 0 .. Capacity - 1 /\ n - (i - 1) \in Int /\ n - where \in Int
        BY <1>1, <1>2, <1>a, CapacityAssumption
    <2>2. place \in Slots /\ StepsBack(p, place) = n - (i - 1)
        <3>1. i - 1 \in 0 .. n
            BY <1>a, <2>1
        <3> QED
            BY <1>1, <1>a, <2>1, <3>1, Places, StepsBackTo
    <2> HIDE DEF place
    <2>3. CASE i <= where
        <3>1. i - 1 # where /\ n - (i - 1) >= n - where /\ i \in 1 .. size
            BY <1>a, <1>1, <2>1, <2>3
        <3>2. Shifted(p, n - where)[place] = slot[place]
            BY <2>2, <3>1 DEF Shifted
        <3>3. place = At(pos, size, i - 1)
            BY <1>b, <2>1 DEF place
        <3>4. q[i] = Contents[i]
            BY <1>4, <2>1, <2>3
        <3> QED
            BY <1>2, <1>3, <1>5, <2>1, <3>1, <3>2, <3>3, <3>4 DEF place
    <2>4. CASE i = where + 1
        <3>1. i - 1 = where /\ ~(i <= where)
            BY <1>a, <1>1, <2>4
        <3>2. q[i] = v
            BY <1>4, <2>1, <2>4, <3>1
        <3>3. slot'[place] = v
            BY <1>2, <2>2, <3>1, Zenon DEF place, Shifted
        <3> QED
            BY <1>2, <1>a, <3>2, <3>3 DEF place
    <2>5. CASE i > where + 1
        <3>1. /\ i - 1 # where /\ n - (i - 1) < n - where
              /\ n - (i - 1) < Capacity - 1 /\ i - 1 \in 1 .. size
              /\ ~(i <= where) /\ i # where + 1
              /\ i - 1 \in 1 .. Capacity - 1
            BY <1>a, <1>1, <2>1, <2>5, CapacityAssumption
        <3>2. Shifted(p, n - where)[place] = slot[Wrap(place + Capacity - 1)]
            BY <2>2, <3>1, CapacityAssumption, <2>1 DEF Shifted
        <3>3. Wrap(place + Capacity - 1) = At(p, n, (i - 1) - 1)
            BY <1>1, <1>a, <3>1, PlaceBefore DEF place
        <3>4. (i - 1) - 1 \in 0 .. Capacity - 1
            BY <2>1, <3>1, CapacityAssumption
        <3>5. At(p, n, (i - 1) - 1) = At(pos, size, (i - 1) - 1)
            BY <1>b, <3>4
        <3>6. q[i] = Contents[i - 1]
            BY <1>4, <2>1, <3>1
        <3>7. Contents[i - 1] = slot[At(pos, size, (i - 1) - 1)]
            BY <1>3, <3>1
        <3>8. slot'[place] = Shifted(p, n - where)[place]
            BY <1>5, <2>1, <3>1 DEF place
        <3> QED
            BY <1>2, <3>2, <3>3, <3>5, <3>6, <3>7, <3>8 DEF place
    <2>6. i <= where \/ i = where + 1 \/ i > where + 1
        BY <1>1, <2>1
    <2> QED
        BY <2>3, <2>4, <2>5, <2>6
<1>7. Contents' = q
    <2>1. TypeOK'
        BY InsertTyped
    <2> QED
        BY <1>2, <1>a, <1>4, <1>6, <2>1, ContentsBecome
<1>8. Len(Contents) < Capacity
    BY <1>1, <1>3, CapacityAssumption
<1> QED
    BY <1>7, <1>8 DEF Queue!Insert, q

-----------------------------------------------------------------------------
LEMMA InitEmpty == Init => Queue!Init
BY InitTyped, ContentsInPlace DEF Init, InPlace, Queue!Init

LEMMA StepIsQueueStep ==
    ASSUME TypeOK, InsertRoom = 2, [Next]_vars
    PROVE  [Queue!Next]_Contents
<1>1. CASE UNCHANGED vars
    BY <1>1 DEF vars, Contents, Slot, FrontPos, Wrap
<1>2. ASSUME NEW v \in Values, Push(v) PROVE Queue!Next
    BY <1>2, PushAppends DEF Queue!Next
<1>3. ASSUME NEW v \in Values, NEW where \in 0 .. size, Insert(where, v)
      PROVE  Queue!Next
    <2>1. where \in 0 .. Len(Contents)
        BY ContentsInPlace DEF InPlace
    <2> QED
        BY <1>3, <2>1, InsertInserts DEF Queue!Next
<1>4. CASE Pop
    BY <1>4, PopTakesFirst DEF Queue!Next
<1>5. CASE Clear
    BY <1>5, ClearEmpties DEF Queue!Next
<1>6. CASE Assign
    BY <1>6, AssignKeeps
<1> QED
    BY <1>1, <1>2, <1>3, <1>4, <1>5, <1>6 DEF Next

\* A ring whose insert is called with two slots free is a bounded queue.
THEOREM Implements ==
    ASSUME InsertRoom = 2
    PROVE  Spec => IsQueue
<1>1. TypeOK /\ [Next]_vars => [Queue!Next]_Contents
    BY StepIsQueueStep
<1> QED
    BY <1>1, InitEmpty, TypeCorrect, PTL DEF Spec, IsQueue, Queue!Spec

-----------------------------------------------------------------------------
(***************************************************************************)
(* The loop of insert, turn by turn: after k turns the array is            *)
(* Shifted(p, k).  A turn after which it were not would have a first one.  *)
(***************************************************************************)
Turn(p, array, k) == LET f == Wrap(p + Capacity - k)
                     IN  [array EXCEPT ![Wrap(f + 1)] = array[f]]

LEMMA TurnPlaces ==
    ASSUME NEW p \in Slots, NEW k \in 1 .. Capacity
    PROVE  LET f == Wrap(p + Capacity - k)
               t == Wrap(f + 1)
           IN  /\ f \in Slots /\ t \in Slots
               /\ StepsBack(p, t) = k - 1 /\ f = Wrap(t + Capacity - 1)
               /\ StepsBack(p, f) = IF k = Capacity THEN 0 ELSE k
               /\ k = Capacity => f = p
               /\ \A i \in Slots : i # t => StepsBack(p, i) # k - 1
BY CapacityAssumption DEF Wrap, Slots, StepsBack

LEMMA OneTurn ==
    ASSUME NEW p \in Slots, NEW k \in 1 .. Capacity
    PROVE  Shifted(p, k) = Turn(p, Shifted(p, k - 1), k)
<1> DEFINE f == Wrap(p + Capacity - k)
           t == Wrap(f + 1)
           a == Shifted(p, k - 1)
<1>1. /\ f \in Slots /\ t \in Slots
      /\ StepsBack(p, t) = k - 1 /\ f = Wrap(t + Capacity - 1)
      /\ StepsBack(p, f) = IF k = Capacity THEN 0 ELSE k
      /\ k = Capacity => f = p
      /\ \A i \in Slots : i # t => StepsBack(p, i) # k - 1
    BY TurnPlaces
<1>2. \A i \in Slots : StepsBack(p, i) \in Nat /\ p = p
    BY CapacityAssumption DEF Slots, StepsBack
<1>3. k \in Nat /\ k >= 1 /\ k <= Capacity /\ Capacity \in Nat
    BY CapacityAssumption
<1> HIDE DEF f, t
<1>4. Turn(p, a, k) = [i \in Slots |-> IF i = t THEN a[f] ELSE a[i]]
    BY DEF Turn, Shifted, f, t
<1>5. a[f] = Shifted(p, k)[t]
    <2>1. CASE k = Capacity
        <3>1. /\ f = p /\ StepsBack(p, f) = 0 /\ StepsBack(p, t) = Capacity - 1
              /\ f = Wrap(t + Capacity - 1)
            BY <1>1, <2>1
        <3>2. a[f] = IF 0 >= k - 1 THEN slot[f]
                     ELSE IF 0 < Capacity - 1 THEN slot[Wrap(f + Capacity - 1)]
                     ELSE slot[Wrap(p + Capacity - 1)]
            BY <1>1, <3>1 DEF Shifted
        <3>3. Shifted(p, k)[t] = slot[Wrap(p + Capacity - 1)]
            BY <1>1, <1>3, <2>1, <3>1 DEF Shifted
        <3>4. k = 1 => Wrap(p + Capacity - 1) = p
            BY <2>1 DEF Slots, Wrap
        <3> QED
            BY <1>3, <2>1, <3>1, <3>2, <3>3, <3>4
    <2>2. CASE k # Capacity
        <3>1. a[f] = slot[f]
            BY <1>1, <1>3, <2>2 DEF Shifted
        <3>2. Shifted(p, k)[t] = slot[Wrap(t + Capacity - 1)]
            BY <1>1, <1>3, <2>2 DEF Shifted
        <3> QED
            BY <1>1, <3>1, <3>2
    <2> QED
        BY <2>1, <2>2
<1>6. ASSUME NEW i \in Slots, i # t PROVE a[i] = Shifted(p, k)[i]
    <2>1. StepsBack(p, i) >= k - 1 <=> StepsBack(p, i) >= k
        BY <1>1, <1>2, <1>3, <1>6
    <2> QED
        BY <2>1 DEF Shifted
<1>7. Shifted(p, k) = [i \in Slots |-> Shifted(p, k)[i]]
    BY DEF Shifted
<1> HIDE DEF a
<1>8. \A i \in Slots : Shifted(p, k)[i] = IF i = t THEN a[f] ELSE a[i]
    BY <1>5, <1>6
<1> QED
    BY <1>4, <1>7, <1>8, Zenon DEF a

\* A set of numbers that is not empty has a least one.
LEMMA LeastNumber ==
    ASSUME NEW T, T \subseteq Nat, T # {}
    PROVE  \E m \in T : \A y \in T : m <= y
<1> DEFINE R == OpToRel(<, Nat)
<1>1. IsWellFoundedOn(R, Nat)
    BY NatLessThanWellFounded
<1>2. \A x, y \in Nat : <<y, x>> \in R <=> y < x
    BY DEF OpToRel
<1> HIDE DEF R
<1>3. PICK x \in T : \A y \in T : ~(<<y, x>> \in R)
    BY <1>1, WFMin
<1>4. T \subseteq Nat /\ \A y \in T : ~(y < x)
    BY <1>2, <1>3, Zenon
<1> QED
    BY ONLY <1>4, x \in T

LEMMA LoopIsShifted ==
    ASSUME TypeOK, NEW p \in Slots, NEW n \in 1 .. Capacity
    PROVE  Loop(p, n) = Shifted(p, n)
<1> DEFINE Table(f) ==
               f = [k \in 0 .. n |-> IF k = 0 THEN slot ELSE Turn(p, f[k - 1], k)]
           g == [k \in 0 .. n |-> Shifted(p, k)]
           f == CHOOSE f : Table(f)
<1>1. n \in Nat /\ Capacity \in Nat /\ n <= Capacity /\ n \in 0 .. n
    BY CapacityAssumption
<1>2. Shifted(p, 0) = slot
    <2>1. \A i \in Slots : StepsBack(p, i) >= 0
        BY CapacityAssumption DEF Slots, StepsBack
    <2>2. slot = [i \in Slots |-> slot[i]]
        BY DEF TypeOK
    <2> QED
        BY <2>1, <2>2 DEF Shifted
<1>3. \A k \in 0 .. n : Shifted(p, k) = IF k = 0 THEN slot
                                        ELSE Turn(p, g[k - 1], k)
    <2> TAKE k \in 0 .. n
    <2>1. CASE k = 0
        BY <1>2, <2>1
    <2>2. CASE k # 0
        <3>1. k \in 1 .. Capacity /\ k - 1 \in 0 .. n
            BY <1>1, <2>2
        <3> QED
            BY <2>2, <3>1, OneTurn
    <2> QED
        BY <2>1, <2>2
<1>4. Table(g)
    BY <1>3
<1>5. Table(f)
    BY <1>4, Zenon
<1>6. Loop(p, n) = f[n]
    BY Zenon DEF Loop, Turn
<1> HIDE DEF f, g
<1>7. \A k \in 0 .. n : f[k] = g[k]
    <2> DEFINE T == {k \in 0 .. n : f[k] # g[k]}
    <2> SUFFICES ASSUME T # {} PROVE FALSE
        OBVIOUS
    <2>1. PICK k \in T : \A y \in T : k <= y
        <3>1. T \subseteq Nat
            OBVIOUS
        <3> HIDE DEF T
        <3> QED
            BY <3>1, LeastNumber
    <2>2. /\ f[k] = IF k = 0 THEN slot ELSE Turn(p, f[k - 1], k)
          /\ g[k] = IF k = 0 THEN slot ELSE Turn(p, g[k - 1], k)
        BY <1>4, <1>5
    <2>3. k # 0
        BY <2>2
    <2>4. k - 1 \in 0 .. n /\ ~(k <= k - 1)
        BY <2>3
    <2>5. k - 1 \notin T
        <3> HIDE DEF T
        <3> QED
            BY <2>1, <2>4
    <2>6. f[k - 1] = g[k - 1]
        BY <2>4, <2>5
    <2> QED
        BY <2>2, <2>3, <2>6
<1> QED
    BY <1>1, <1>6, <1>7 DEF g

\* What insert moves in one formula is what its loop moves, at any capacity and
\* wherever the ring starts over (avm_stl.h, lines 115 to 130).
THEOREM InsertLoops == Spec => []ShiftsLikeTheLoop
<1>1. TypeOK => ShiftsLikeTheLoop
    BY LoopIsShifted DEF ShiftsLikeTheLoop
<1> QED
    BY <1>1, TypeCorrect, PTL
=============================================================================

------------------------- MODULE StreamCacheProofs -------------------------
(***************************************************************************)
(* Theorems about StreamCache, for any number of streams, any chunk table  *)
(* and any limits, each with its proof.                                    *)
(***************************************************************************)
EXTENDS StreamCache, TLAPS

LEMMA StreamFacts ==
    /\ \A s \in Streams : TableSize[s] \in Nat
    /\ \A s \in Streams : \A p \in Chunks(s) :
        /\ p \in Nat /\ p + 1 \in 0 .. TableSize[s] /\ p \in 0 .. TableSize[s]
        /\ Before[s][p] \in Nat /\ Before[s][p + 1] \in Nat
        /\ ChunkSize(s, p) \in Nat
<1>1. ASSUME NEW s \in Streams PROVE TableSize[s] \in Nat
    BY TableAssumption
<1>2. ASSUME NEW s \in Streams, NEW p \in Chunks(s)
      PROVE  /\ p \in Nat /\ p + 1 \in 0 .. TableSize[s] /\ p \in 0 .. TableSize[s]
             /\ Before[s][p] \in Nat /\ Before[s][p + 1] \in Nat
             /\ ChunkSize(s, p) \in Nat
    <2>1. p \in Nat /\ p + 1 \in 0 .. TableSize[s] /\ p \in 0 .. TableSize[s]
        BY <1>1 DEF Chunks
    <2>2. Before[s] \in [0 .. TableSize[s] -> Nat] /\ Before[s][p] <= Before[s][p + 1]
        BY TableAssumption
    <2>3. Before[s][p] \in Nat /\ Before[s][p + 1] \in Nat
        BY <2>1, <2>2
    <2> QED
        BY <2>1, <2>2, <2>3 DEF ChunkSize
<1> QED
    BY <1>1, <1>2

LEMMA ZeroIsStream == 0 \in Streams
BY StreamsAssumption DEF Streams

-----------------------------------------------------------------------------
(* Types *)

LEMMA TypeInit == Init => TypeOK
<1> SUFFICES ASSUME Init PROVE TypeOK
    OBVIOUS
<1>1. /\ packets \in [Streams -> Seq(Nat)]
      /\ \A s \in Streams : packets[s] \in Seq(Chunks(s))
    BY DEF Init
<1>2. /\ last \in [Streams -> Nat \cup {OK}] /\ error \in [Streams -> Nat \cup {OK}]
      /\ reply \in [Streams -> Nat \cup {NoPacket}]
      /\ reader \in [Streams -> Pcs \cup {"idle"}]
    BY DEF Init, Pcs
<1>3. /\ position \in [Streams -> Nat] /\ sum \in [Streams -> Int]
      /\ want \in [Streams -> Nat] /\ filling \in [Streams -> BOOLEAN]
    BY DEF Init
<1>4. /\ uiId \in Streams /\ job \in Streams /\ clears \in 0 .. MaxClears
      /\ quit \in BOOLEAN /\ cacher = "none" /\ owner = "create"
    BY ZeroIsStream, BoundAssumption DEF Init
<1> QED
    BY <1>1, <1>2, <1>3, <1>4 DEF TypeOK

LEMMA TypeOwner ==
    TypeOK /\ (Create \/ CreateReturns \/ Clear \/ Destroy \/ Join) => TypeOK'
<1> SUFFICES ASSUME TypeOK, Create \/ CreateReturns \/ Clear \/ Destroy \/ Join
             PROVE  TypeOK'
    OBVIOUS
<1>1. CASE Create
    BY <1>1 DEF TypeOK, Create, Pcs, entryVars, readerVars
<1>2. CASE CreateReturns
    BY <1>2 DEF TypeOK, CreateReturns, Pcs, entryVars, readerVars
<1>3. ASSUME EmptyRings
      PROVE  /\ packets' \in [Streams -> Seq(Nat)]
             /\ \A s \in Streams : packets'[s] \in Seq(Chunks(s))
             /\ sum' \in [Streams -> Int] /\ position' \in [Streams -> Nat]
             /\ uiId' \in Streams
    BY <1>3, ZeroIsStream DEF EmptyRings
<1>4. CASE Clear
    <2>1. clears' \in 0 .. MaxClears
        BY <1>4, BoundAssumption DEF TypeOK, Clear
    <2>2. /\ cacher' \in Pcs \cup {"none", "start", "io", "done"}
          /\ cacher' = "io" => last'[job'] \in Chunks(job')
        BY <1>4 DEF TypeOK, Clear, Woken, Pcs
    <2>3. reader' \in [Streams -> Pcs \cup {"idle"}]
        BY <1>4 DEF TypeOK, Clear, WakeReaders, Woken, Pcs
    <2> QED
        BY <1>3, <1>4, <2>1, <2>2, <2>3 DEF TypeOK, Clear
<1>5. CASE Destroy
    BY <1>5 DEF TypeOK, Destroy, Woken, Pcs, entryVars, readerVars
<1>6. CASE Join
    BY <1>3, <1>6 DEF TypeOK, Join, Pcs, readerVars
<1> QED
    BY <1>1, <1>2, <1>4, <1>5, <1>6

LEMMA TurnType == TypeOK => \A s \in Streams : Turn(s) \in Int
<1> SUFFICES ASSUME TypeOK, NEW s \in Streams PROVE Turn(s) \in Int
    OBVIOUS
<1>1. uiId \in Int /\ s \in Int /\ NStreams \in Int /\ NStreams > 0
    BY StreamsAssumption DEF TypeOK, Streams
<1> QED
    BY <1>1 DEF Turn

LEMMA TypeCacher == TypeOK /\ Cacher => TypeOK'
<1> SUFFICES ASSUME TypeOK, Cacher PROVE TypeOK'
    OBVIOUS
<1>1. \A s \in Streams : NextChunk(s) \in Nat
    BY DEF TypeOK, NextChunk, BackOf
<1>2. CASE StartThread
    BY <1>2 DEF TypeOK, StartThread, WakeReaders, Woken, Pcs, entryVars
<1>3. CASE Pick
    <2>1. PICK s \in Streams :
            /\ Picks(s)
            /\ last' = [t \in Streams |-> IF Turn(t) <= Turn(s)
                                          THEN NextChunk(t) ELSE last[t]]
            /\ uiId' = s /\ job' = s
        BY <1>3 DEF Pick
    <2>2. last' \in [Streams -> Nat \cup {OK}]
        BY <1>1, <2>1 DEF TypeOK
    <2>3. Turn(s) \in Int
        BY TurnType
    <2>4. last'[s] = NextChunk(s) /\ NextChunk(s) \in Chunks(s)
        BY <1>1, <2>1, <2>3, StreamFacts DEF Picks, Cachable, Chunks
    <2> QED
        BY <1>3, <2>1, <2>2, <2>4 DEF TypeOK, Pick, WakeReaders, Woken, Pcs
<1>4. CASE PickNothing
    BY <1>1, <1>4, ZeroIsStream DEF TypeOK, PickNothing, WakeReaders, Woken, Pcs
<1>5. CASE ReadFails
    BY <1>5, StreamFacts DEF TypeOK, ReadFails, WakeReaders, Woken, Pcs
<1>6. CASE Discard
    BY <1>6 DEF TypeOK, Discard, Pcs, entryVars, readerVars
<1>7. CASE Store
    <2>1. last[job] \in Chunks(job) /\ last[job] \in Nat
        BY <1>7, StreamFacts DEF TypeOK, Store
    <2>2. /\ packets' \in [Streams -> Seq(Nat)]
          /\ \A s \in Streams : packets'[s] \in Seq(Chunks(s))
        BY <1>7, <2>1 DEF TypeOK, Store
    <2>3. sum' \in [Streams -> Int]
        <3>1. ChunkSize(job, last[job]) \in Int
            BY <2>1, StreamFacts DEF TypeOK
        <3> QED
            BY <1>7, <3>1 DEF TypeOK, Store
    <2>4. filling' \in [Streams -> BOOLEAN]
        BY <1>7 DEF TypeOK, Store
    <2> QED
        BY <1>7, <2>2, <2>3, <2>4 DEF TypeOK, Store, Pcs, readerVars
<1>8. CASE LeaveThread
    BY <1>8 DEF TypeOK, LeaveThread, Pcs, entryVars, readerVars
<1> QED
    BY <1>2, <1>3, <1>4, <1>5, <1>6, <1>7, <1>8 DEF Cacher

LEMMA TypeReader ==
    ASSUME TypeOK, NEW s \in Streams,
           (\E p \in Chunks(s) : CallRead(s, p)) \/ RefuseRead(s) \/ ReadStep(s)
    PROVE  TypeOK'
<1>1. ASSUME NEW p \in Chunks(s), CallRead(s, p) PROVE TypeOK'
    BY <1>1, StreamFacts DEF TypeOK, CallRead, Pcs, entryVars
<1>2. CASE RefuseRead(s)
    BY <1>2, StreamFacts DEF TypeOK, RefuseRead, Pcs, entryVars
<1>3. ASSUME PopFront(s)
      PROVE  /\ packets' \in [Streams -> Seq(Nat)]
             /\ \A t \in Streams : packets'[t] \in Seq(Chunks(t))
             /\ sum' \in [Streams -> Int]
    <2>1. packets[s] \in Seq(Chunks(s)) /\ packets[s] # <<>>
        BY <1>3 DEF TypeOK, PopFront
    <2>2. Head(packets[s]) \in Chunks(s) /\ Tail(packets[s]) \in Seq(Chunks(s))
        BY <2>1
    <2>3. packets[s] \in Seq(Nat) /\ Tail(packets[s]) \in Seq(Nat)
        BY <2>1 DEF TypeOK
    <2>4. ChunkSize(s, Head(packets[s])) \in Int
        BY <2>2, StreamFacts
    <2>5. sum' \in [Streams -> Int]
        BY <1>3, <2>4 DEF TypeOK, PopFront
    <2> QED
        BY <1>3, <2>2, <2>3, <2>5 DEF TypeOK, PopFront
<1>4. CASE ReadHit(s)
    BY <1>3, <1>4 DEF TypeOK, ReadHit, PopFront, BroadcastFrom, Woken, Pcs
<1>5. CASE ReadSkip(s)
    BY <1>3, <1>5 DEF TypeOK, ReadSkip, PopFront, Pcs
<1>6. CASE ReadError(s)
    BY <1>6 DEF TypeOK, ReadError, BroadcastFrom, Woken, Pcs, entryVars
<1>7. CASE ReadMiss(s)
    BY <1>7 DEF TypeOK, ReadMiss, BroadcastFrom, Woken, Pcs
<1> QED
    BY <1>1, <1>2, <1>4, <1>5, <1>6, <1>7 DEF ReadStep

LEMMA TypeSpurious == TypeOK /\ SpuriousWakeup => TypeOK'
BY DEF TypeOK, SpuriousWakeup, Pcs, entryVars

\* Every variable keeps its type, and the chunk being read is in the table.
THEOREM TypeCorrect == Spec => []TypeOK
<1>1. TypeOK /\ Next => TypeOK'
    BY TypeOwner, TypeCacher, TypeReader, TypeSpurious DEF Next
<1>2. TypeOK /\ UNCHANGED vars => TypeOK'
    BY DEF TypeOK, vars, entryVars, readerVars
<1> QED
    BY TypeInit, <1>1, <1>2, PTL DEF Spec

-----------------------------------------------------------------------------
(* The two operations of the rings *)

LEMMA AppendFacts ==
    ASSUME NEW S, NEW q \in Seq(S), NEW x \in S
    PROVE  /\ Append(q, x) # <<>>
           /\ Len(Append(q, x)) = Len(q) + 1
           /\ \A i \in 1 .. Len(q) : Append(q, x)[i] = q[i]
           /\ Append(q, x)[Len(q) + 1] = x
           /\ q = <<>> => Append(q, x)[1] = x
           /\ q # <<>> => Append(q, x)[1] = q[1]
OBVIOUS

LEMMA EmptyFacts ==
    ASSUME NEW S, NEW q \in Seq(S)
    PROVE  (q = <<>>) <=> (Len(q) = 0)
OBVIOUS

LEMMA TailFacts ==
    ASSUME NEW S, NEW q \in Seq(S), q # <<>>
    PROVE  /\ Len(q) \in Nat /\ Len(q) >= 1
           /\ Len(Tail(q)) = Len(q) - 1
           /\ (Tail(q) = <<>>) <=> (Len(q) = 1)
           /\ \A i \in 1 .. Len(q) - 1 : Tail(q)[i] = q[i + 1]
<1>1. Len(q) \in Nat /\ Len(q) >= 1
    OBVIOUS
<1>2. Tail(q) \in Seq(S) /\ Len(Tail(q)) = Len(q) - 1
    OBVIOUS
<1>3. (Tail(q) = <<>>) <=> (Len(Tail(q)) = 0)
    BY <1>2, EmptyFacts
<1>4. ASSUME NEW i \in 1 .. Len(q) - 1 PROVE Tail(q)[i] = q[i + 1]
    BY <1>1
<1> QED
    BY <1>1, <1>2, <1>3, <1>4

-----------------------------------------------------------------------------
(* The rings: contiguity, byte counts and limits *)

LEMMA RingInit == Init => RingInv
BY LimitAssumption DEF Init, RingInv, RingContiguous, SumExact, WithinLimits

\* Steps that leave the rings alone and start no read.
LEMMA RingFrame ==
    ASSUME RingInv, UNCHANGED <<packets, sum>>,
           cacher' = "io" => cacher = "io" /\ job' = job /\ last' = last
    PROVE  RingInv'
<1>1. RingContiguous'
    BY DEF RingInv, RingContiguous, FrontOf, BackOf
<1>2. SumExact'
    BY DEF RingInv, SumExact, FrontOf, BackOf
<1>3. WithinLimits'
    BY DEF RingInv, WithinLimits, FrontOf, BackOf
<1> QED
    BY <1>1, <1>2, <1>3 DEF RingInv

\* clear() empties them, even while a chunk is being read.
LEMMA RingEmpty ==
    ASSUME TypeOK, RingInv, EmptyRings, UNCHANGED <<last, job>>,
           cacher' = "io" => cacher = "io"
    PROVE  RingInv'
<1>1. \A s \in Streams : packets'[s] = <<>> /\ sum'[s] = 0
    BY DEF EmptyRings
<1>2. job' \in Streams
    BY DEF TypeOK
<1> QED
    BY <1>1, <1>2, LimitAssumption
    DEF RingInv, RingContiguous, SumExact, WithinLimits

\* A stream is picked only if its next chunk has room.
LEMMA RingPick == TypeOK /\ RingInv /\ Pick => RingInv'
<1> SUFFICES ASSUME TypeOK, RingInv, Pick PROVE RingInv'
    OBVIOUS
<1>1. PICK s \in Streams :
        /\ Picks(s)
        /\ last' = [t \in Streams |-> IF Turn(t) <= Turn(s)
                                      THEN NextChunk(t) ELSE last[t]]
        /\ job' = s
    BY DEF Pick
<1>2. Turn(s) \in Int
    BY TurnType, <1>1
<1>3. last'[s] = NextChunk(s) /\ sum[s] < SizeLimit /\ ~Full(s)
    BY <1>1, <1>2 DEF Picks, Cachable
<1>4. UNCHANGED <<packets, sum>>
    BY DEF Pick
<1>5. RingContiguous'
    BY <1>1, <1>3, <1>4 DEF RingInv, RingContiguous, FrontOf, BackOf, NextChunk
<1>6. SumExact'
    BY <1>4 DEF RingInv, SumExact, FrontOf, BackOf
<1>7. WithinLimits'
    BY <1>1, <1>3, <1>4, LimitAssumption
    DEF RingInv, WithinLimits, FrontOf, BackOf, Full, TypeOK
<1> QED
    BY <1>5, <1>6, <1>7 DEF RingInv

\* The chunk that has been read is appended, if it still joins on.
LEMMA RingStore == TypeOK /\ RingInv /\ Store => RingInv'
<1> SUFFICES ASSUME TypeOK, RingInv, Store PROVE RingInv'
    OBVIOUS
<1> DEFINE p == last[job]
           ring == packets[job]
<1>1. /\ job \in Streams /\ p \in Chunks(job)
      /\ ring \in Seq(Nat) /\ ring \in Seq(Chunks(job))
    BY DEF TypeOK, Store
<1>2. /\ packets'[job] = Append(ring, p)
      /\ \A s \in Streams : s # job => packets'[s] = packets[s]
      /\ sum'[job] = sum[job] + ChunkSize(job, p)
      /\ \A s \in Streams : s # job => sum'[s] = sum[s]
    BY <1>1 DEF TypeOK, Store
<1>3. ring # <<>> => p = BackOf(job) + 1
    BY <1>1 DEF Store, RingInv, RingContiguous
<1>4. /\ packets'[job] # <<>> /\ Len(packets'[job]) = Len(ring) + 1
      /\ BackOf(job)' = packets'[job][Len(packets'[job])]
      /\ packets'[job][Len(packets'[job])] = p
      /\ ring = <<>> => packets'[job][1] = p
      /\ ring # <<>> => packets'[job][1] = FrontOf(job)
    BY <1>1, <1>2 DEF FrontOf, BackOf, Store
<1>5. UNCHANGED job /\ cacher' # "io"
    BY DEF Store
<1>6. RingContiguous'
    <2> SUFFICES ASSUME NEW s \in Streams, packets'[s] # <<>>,
                        NEW i \in 1 .. Len(packets'[s])
                 PROVE  packets'[s][i] = packets'[s][1] + (i - 1)
        BY <1>5 DEF RingContiguous, FrontOf
    <2>1. CASE s # job
        BY <1>2, <2>1 DEF RingInv, RingContiguous, FrontOf
    <2>2. CASE s = job /\ ring = <<>>
        BY <1>1, <1>2, <1>4, <2>2, StreamFacts
    <2>3. CASE s = job /\ ring # <<>>
        <3> \A k \in 1 .. Len(ring) : ring[k] = ring[1] + (k - 1)
            BY <1>1, <2>3 DEF RingInv, RingContiguous, FrontOf
        <3> Len(ring) \in Nat \ {0} /\ ring[1] \in Nat
            BY <1>1, <2>3
        <3>1. CASE i = Len(ring) + 1
            <4>1. packets'[job][i] = BackOf(job) + 1 /\ packets'[job][1] = ring[1]
                BY <1>3, <1>4, <2>3, <3>1 DEF FrontOf
            <4>2. BackOf(job) = ring[1] + (Len(ring) - 1)
                BY DEF BackOf
            <4> QED
                BY <2>3, <3>1, <4>1, <4>2
        <3>2. CASE i \in 1 .. Len(ring)
            <4>1. packets'[job][i] = ring[i]
                BY <1>1, <1>2, <3>2, AppendFacts
            <4> QED
                BY <1>4, <2>3, <3>2, <4>1 DEF FrontOf
        <3> QED
            BY <1>1, <1>4, <2>3, <3>1, <3>2
    <2> QED
        BY <2>1, <2>2, <2>3
<1>7. /\ p \in Nat /\ Before[job][p] \in Nat /\ Before[job][p + 1] \in Nat
      /\ ring # <<>> => Before[job][FrontOf(job)] \in Nat
    <2>1. ring # <<>> => FrontOf(job) \in Chunks(job)
        BY <1>1 DEF FrontOf
    <2> QED
        BY <1>1, <2>1, StreamFacts
<1>8. sum[job] = IF ring = <<>> THEN 0
                 ELSE Before[job][p] - Before[job][FrontOf(job)]
    BY <1>1, <1>3 DEF RingInv, SumExact
<1>9. SumExact'
    <2> SUFFICES ASSUME NEW s \in Streams
                 PROVE  sum'[s] = IF packets'[s] = <<>> THEN 0
                                  ELSE Before[s][packets'[s][Len(packets'[s])] + 1]
                                        - Before[s][packets'[s][1]]
        BY DEF SumExact, FrontOf, BackOf
    <2>1. CASE s # job
        BY <1>2, <2>1 DEF RingInv, SumExact, FrontOf, BackOf
    <2>2. CASE s = job
        <3>1. sum'[job] = Before[job][p + 1] - Before[job][packets'[job][1]]
            <4>1. CASE ring = <<>>
                BY <1>2, <1>4, <1>7, <1>8, <4>1 DEF ChunkSize
            <4>2. CASE ring # <<>>
                <5>1. sum[job] = Before[job][p] - Before[job][FrontOf(job)]
                    BY <1>8, <4>2
                <5>2. sum'[job] = Before[job][p + 1] - Before[job][FrontOf(job)]
                    BY <1>2, <1>7, <4>2, <5>1 DEF ChunkSize
                <5> QED
                    BY <1>4, <4>2, <5>2
            <4> QED
                BY <4>1, <4>2
        <3> QED
            BY <1>4, <2>2, <3>1
    <2> QED
        BY <2>1, <2>2
<1>10. WithinLimits'
    <2> SUFFICES ASSUME NEW s \in Streams
                 PROVE  /\ Len(packets'[s]) <= CacheSize - 1
                        /\ packets'[s] # <<>> =>
                             Before[s][packets'[s][Len(packets'[s])]]
                                - Before[s][packets'[s][1]] < SizeLimit
        BY <1>5 DEF WithinLimits, FrontOf, BackOf
    <2>1. CASE s # job
        BY <1>2, <2>1 DEF RingInv, WithinLimits, FrontOf, BackOf
    <2>2. CASE s = job
        <3>1. sum[job] < SizeLimit /\ Len(ring) < CacheSize - 1
            BY DEF RingInv, WithinLimits, Store
        <3>2. Len(packets'[job]) <= CacheSize - 1
            BY <1>1, <1>4, <3>1, LimitAssumption
        <3>3. Before[job][p] - Before[job][packets'[job][1]] < SizeLimit
            <4>1. CASE ring = <<>>
                BY <1>4, <1>7, <4>1, LimitAssumption
            <4>2. CASE ring # <<>>
                BY <1>4, <1>7, <1>8, <3>1, <4>2
            <4> QED
                BY <4>1, <4>2
        <3> QED
            BY <1>4, <2>2, <3>2, <3>3
    <2> QED
        BY <2>1, <2>2
<1> QED
    BY <1>6, <1>9, <1>10 DEF RingInv

\* A reader takes the front packet, even of the ring being extended.
LEMMA RingPop ==
    ASSUME TypeOK, RingInv, NEW s \in Streams, PopFront(s),
           cacher' = "io" => cacher = "io"
    PROVE  RingInv'
<1> DEFINE ring == packets[s]
<1>0. ring \in Seq(Nat) /\ ring \in Seq(Chunks(s)) /\ ring # <<>>
    BY DEF TypeOK, PopFront
<1>n. PICK n \in Nat : n = Len(ring) /\ n >= 1
    BY <1>0
<1>1. /\ ring \in Seq(Nat) /\ ring \in Seq(Chunks(s)) /\ ring # <<>>
      /\ Len(ring) = n /\ n \in Nat /\ n >= 1
    BY <1>0, <1>n
<1>2. /\ packets'[s] = Tail(ring)
      /\ \A t \in Streams : t # s => packets'[t] = packets[t]
      /\ sum'[s] = sum[s] - ChunkSize(s, ring[1])
      /\ \A t \in Streams : t # s => sum'[t] = sum[t]
      /\ UNCHANGED <<last, job>>
    BY <1>1 DEF TypeOK, PopFront
<1>3. /\ Len(packets'[s]) = n - 1
      /\ packets'[s] # <<>> <=> n > 1
      /\ \A i \in 1 .. n - 1 : packets'[s][i] = ring[i + 1]
    <2>1. /\ Len(Tail(ring)) = n - 1
          /\ (Tail(ring) = <<>>) <=> (n = 1)
          /\ \A i \in 1 .. n - 1 : Tail(ring)[i] = ring[i + 1]
        BY <1>1, TailFacts
    <2> QED
        BY <1>1, <1>2, <2>1
<1>4. \A i \in 1 .. n : ring[i] = ring[1] + (i - 1)
    BY <1>1 DEF RingInv, RingContiguous, FrontOf
<1>5. n > 1 => /\ packets'[s][1] = ring[1] + 1
               /\ packets'[s][n - 1] = ring[n]
    <2> SUFFICES ASSUME n > 1
                 PROVE  packets'[s][1] = ring[1] + 1 /\ packets'[s][n - 1] = ring[n]
        OBVIOUS
    <2>1. 1 \in 1 .. n - 1 /\ n - 1 \in 1 .. n - 1 /\ 2 \in 1 .. n
        BY <1>1
    <2>2. packets'[s][1] = ring[2] /\ packets'[s][n - 1] = ring[(n - 1) + 1]
        BY <1>3, <2>1
    <2>3. ring[2] = ring[1] + (2 - 1) /\ (n - 1) + 1 = n /\ ring[1] \in Nat
        BY <1>1, <1>4, <2>1
    <2> QED
        BY <2>2, <2>3
<1>6. /\ ring[1] \in Chunks(s) /\ ring[n] \in Chunks(s)
      /\ ring[1] \in Nat /\ ring[n] \in Nat
    BY <1>1
<1>7. RingContiguous'
    <2> SUFFICES ASSUME NEW t \in Streams, packets'[t] # <<>>
                 PROVE  /\ \A i \in 1 .. Len(packets'[t]) :
                            packets'[t][i] = packets'[t][1] + (i - 1)
                        /\ (cacher' = "io" /\ job' = t) =>
                            last'[t] = packets'[t][Len(packets'[t])] + 1
        BY DEF RingContiguous, FrontOf, BackOf
    <2>1. CASE t # s
        BY <1>2, <2>1 DEF RingInv, RingContiguous, FrontOf, BackOf
    <2>2. CASE t = s
        <3>1. \A i \in 1 .. n - 1 : packets'[s][i] = packets'[s][1] + (i - 1)
            <4> SUFFICES ASSUME NEW i \in 1 .. n - 1
                         PROVE  packets'[s][i] = packets'[s][1] + (i - 1)
                OBVIOUS
            <4>1. n > 1 /\ i + 1 \in 1 .. n /\ i \in Nat
                BY <1>1
            <4>2. packets'[s][i] = ring[1] + ((i + 1) - 1)
                BY <1>3, <1>4, <4>1
            <4>3. packets'[s][1] = ring[1] + 1
                BY <1>5, <4>1
            <4> QED
                BY <1>6, <4>1, <4>2, <4>3
        <3>2. (cacher' = "io" /\ job' = s) => last'[s] = ring[n] + 1
            BY <1>1, <1>2 DEF RingInv, RingContiguous, BackOf
        <3> QED
            BY <1>3, <1>5, <2>2, <3>1, <3>2
    <2> QED
        BY <2>1, <2>2
<1>8. /\ Before[s][ring[1]] \in Nat /\ Before[s][ring[1] + 1] \in Nat
      /\ Before[s][ring[n]] \in Nat /\ Before[s][ring[n] + 1] \in Nat
      /\ Before[s][ring[1]] <= Before[s][ring[1] + 1]
    BY <1>6, StreamFacts, TableAssumption
<1>9. sum[s] = Before[s][ring[n] + 1] - Before[s][ring[1]]
    BY <1>1 DEF RingInv, SumExact, FrontOf, BackOf
<1>10. SumExact'
    <2> SUFFICES ASSUME NEW t \in Streams
                 PROVE  sum'[t] = IF packets'[t] = <<>> THEN 0
                                  ELSE Before[t][packets'[t][Len(packets'[t])] + 1]
                                        - Before[t][packets'[t][1]]
        BY DEF SumExact, FrontOf, BackOf
    <2>1. CASE t # s
        BY <1>2, <2>1 DEF RingInv, SumExact, FrontOf, BackOf
    <2>2. CASE t = s
        <3>1. sum'[s] = Before[s][ring[n] + 1] - Before[s][ring[1] + 1]
            BY <1>2, <1>8, <1>9 DEF ChunkSize
        <3>2. CASE n = 1
            BY <1>3, <1>8, <2>2, <3>1, <3>2
        <3>3. CASE n > 1
            <4>1. packets'[s] # <<>> /\ Len(packets'[s]) = n - 1
                BY <1>3, <3>3
            <4>2. packets'[s][1] = ring[1] + 1 /\ packets'[s][n - 1] = ring[n]
                BY <1>5, <3>3
            <4> QED
                BY <2>2, <3>1, <4>1, <4>2
        <3>4. n = 1 \/ n > 1
            BY <1>1
        <3> QED
            BY <3>2, <3>3, <3>4
    <2> QED
        BY <2>1, <2>2
<1>11. WithinLimits'
    <2>1. ASSUME NEW t \in Streams
          PROVE  /\ Len(packets'[t]) <= CacheSize - 1
                 /\ packets'[t] # <<>> =>
                      Before[t][packets'[t][Len(packets'[t])]]
                         - Before[t][packets'[t][1]] < SizeLimit
        <3>1. CASE t # s
            BY <1>2, <3>1 DEF RingInv, WithinLimits, FrontOf, BackOf
        <3>2. CASE t = s
            <4>1. n <= CacheSize - 1 /\ Before[s][ring[n]] - Before[s][ring[1]] < SizeLimit
                BY <1>1 DEF RingInv, WithinLimits, FrontOf, BackOf
            <4>2. Before[s][ring[n]] - Before[s][ring[1] + 1] < SizeLimit
                BY <1>8, <4>1, LimitAssumption
            <4>3. Len(packets'[s]) <= CacheSize - 1
                BY <1>1, <1>3, <4>1, LimitAssumption
            <4> QED
                BY <1>3, <1>5, <3>2, <4>2, <4>3
        <3> QED
            BY <3>1, <3>2
    <2>2. cacher' = "io" => sum'[job] < SizeLimit /\ Len(packets'[job]) < CacheSize - 1
        <3> SUFFICES ASSUME cacher = "io"
                     PROVE  sum'[job] < SizeLimit /\ Len(packets'[job]) < CacheSize - 1
            OBVIOUS
        <3>1. job \in Streams /\ sum[job] < SizeLimit /\ Len(packets[job]) < CacheSize - 1
            BY DEF TypeOK, RingInv, WithinLimits
        <3>2. CASE job # s
            BY <1>2, <3>1, <3>2
        <3>3. CASE job = s
            <4>1. ChunkSize(s, ring[1]) \in Nat /\ sum[s] \in Int
                BY <1>6, StreamFacts DEF TypeOK
            <4>2. sum'[s] < SizeLimit
                BY <1>2, <3>1, <3>3, <4>1, LimitAssumption
            <4>3. Len(packets'[s]) < CacheSize - 1
                BY <1>1, <1>3, <3>1, <3>3, LimitAssumption
            <4> QED
                BY <3>3, <4>2, <4>3
        <3> QED
            BY <3>2, <3>3
    <2> QED
        BY <1>2, <2>1, <2>2 DEF WithinLimits, FrontOf, BackOf
<1> QED
    BY <1>7, <1>10, <1>11 DEF RingInv

\* The rings stay contiguous, their byte counts exact, their limits kept.
THEOREM RingsCorrect == Spec => []RingInv
<1>1. ASSUME TypeOK, RingInv, Next PROVE RingInv'
    <2>1. CASE Create
        BY <1>1, <2>1, RingFrame DEF Create, entryVars
    <2>2. CASE CreateReturns
        BY <1>1, <2>2, RingFrame DEF CreateReturns, entryVars
    <2>3. CASE Clear
        BY <1>1, <2>3, RingEmpty DEF Clear, Woken
    <2>4. CASE Destroy
        BY <1>1, <2>4, RingFrame DEF Destroy, entryVars, Woken
    <2>5. CASE Join
        BY <1>1, <2>5, RingEmpty DEF Join
    <2>6. CASE Cacher
        <3>1. CASE StartThread
            BY <1>1, <3>1, RingFrame DEF StartThread, entryVars
        <3>2. CASE PickNothing
            BY <1>1, <3>2, RingFrame DEF PickNothing
        <3>3. CASE ReadFails
            BY <1>1, <3>3, RingFrame DEF ReadFails
        <3>4. CASE Discard
            BY <1>1, <3>4, RingFrame DEF Discard, entryVars
        <3>5. CASE LeaveThread
            BY <1>1, <3>5, RingFrame DEF LeaveThread, entryVars
        <3> QED
            BY <1>1, <2>6, <3>1, <3>2, <3>3, <3>4, <3>5, RingPick, RingStore
            DEF Cacher
    <2>7. ASSUME NEW s \in Streams, NEW p \in Chunks(s), CallRead(s, p)
          PROVE  RingInv'
        BY <1>1, <2>7, RingFrame DEF CallRead, entryVars
    <2>8. ASSUME NEW s \in Streams, RefuseRead(s) PROVE RingInv'
        BY <1>1, <2>8, RingFrame DEF RefuseRead, entryVars
    <2>9. ASSUME NEW s \in Streams, ReadStep(s) PROVE RingInv'
        <3>1. CASE ReadHit(s)
            BY <1>1, <3>1, RingPop DEF ReadHit, BroadcastFrom, Woken
        <3>2. CASE ReadSkip(s)
            BY <1>1, <3>2, RingPop DEF ReadSkip
        <3>3. CASE ReadError(s)
            BY <1>1, <3>3, RingFrame DEF ReadError, BroadcastFrom, Woken, entryVars
        <3>4. CASE ReadMiss(s)
            BY <1>1, <3>4, RingFrame DEF ReadMiss, BroadcastFrom, Woken
        <3> QED
            BY <2>9, <3>1, <3>2, <3>3, <3>4 DEF ReadStep
    <2>10. CASE SpuriousWakeup
        BY <1>1, <2>10, RingFrame DEF SpuriousWakeup, entryVars
    <2> QED
        BY <1>1, <2>1, <2>2, <2>3, <2>4, <2>5, <2>6, <2>7, <2>8, <2>9, <2>10 DEF Next
<1>2. ASSUME RingInv, UNCHANGED vars PROVE RingInv'
    BY <1>2, RingFrame DEF vars, entryVars
<1> QED
    BY RingInit, TypeCorrect, <1>1, <1>2, PTL DEF Spec

-----------------------------------------------------------------------------
(* Sleepers *)

\* The caching thread exists from create() on; once the destructor has begun,
\* and m_bQuit is set only then, nobody is inside readPacket.
Lifecycle == /\ owner = "create" => cacher = "none"
             /\ quit => owner \in {"join", "closed"}
             /\ owner \in {"join", "closed"} =>
                    \A s \in Streams : reader[s] = "idle"

LEMMA LifecycleInv == Spec => []Lifecycle
<1>1. Init => Lifecycle
    BY DEF Init, Lifecycle
<1>2. ASSUME TypeOK, Lifecycle, Next PROVE Lifecycle'
    <2> USE <1>2 DEF Lifecycle
    <2>1. CASE Create \/ CreateReturns \/ Destroy \/ Join
        BY <2>1 DEF Create, CreateReturns, Destroy, Join, Woken, readerVars
    <2>2. CASE Clear
        BY <2>2 DEF Clear, WakeReaders, Woken
    <2>3. CASE Cacher
        BY <2>3 DEF Cacher, StartThread, Pick, PickNothing, ReadFails, Discard,
            Store, LeaveThread, Holds, WakeReaders, Woken, readerVars
    <2>4. ASSUME NEW s \in Streams, NEW p \in Chunks(s), CallRead(s, p)
          PROVE  Lifecycle'
        BY <2>4 DEF CallRead
    <2>5. ASSUME NEW s \in Streams, RefuseRead(s) PROVE Lifecycle'
        BY <2>5 DEF RefuseRead
    <2>6. ASSUME NEW s \in Streams, ReadStep(s) PROVE Lifecycle'
        <3>1. reader[s] # "idle"
            BY <2>6 DEF ReadStep, ReadHit, ReadSkip, ReadError, ReadMiss,
                PopFront, Holds
        <3>2. UNCHANGED <<quit, owner>> /\ (cacher = "none" => cacher' = "none")
            BY <2>6 DEF ReadStep, ReadHit, ReadSkip, ReadError, ReadMiss,
                PopFront, BroadcastFrom, Woken
        <3> QED
            BY <3>1, <3>2
    <2>7. CASE SpuriousWakeup
        BY <2>7 DEF SpuriousWakeup
    <2> QED
        BY <2>1, <2>2, <2>3, <2>4, <2>5, <2>6, <2>7 DEF Next
<1>3. ASSUME Lifecycle, UNCHANGED vars PROVE Lifecycle'
    BY <1>3 DEF Lifecycle, vars, readerVars
<1> QED
    BY TypeCorrect, <1>1, <1>2, <1>3, PTL DEF Spec

\* No wake-up is lost between the caching thread and the readers.
THEOREM NoLostWakeup == Spec => []SleepInv
<1>1. Init => SleepInv
    BY DEF Init, SleepInv, NoMutualSleep, NoMissedAnswer
<1>2. ASSUME TypeOK, Lifecycle, SleepInv, Next PROVE SleepInv'
    <2> USE <1>2 DEF SleepInv, NoMutualSleep, NoMissedAnswer
    <2>1. CASE Create
        BY <2>1 DEF Create, entryVars, readerVars, Lifecycle
    <2>2. CASE CreateReturns
        BY <2>2 DEF CreateReturns, entryVars, readerVars
    <2>3. CASE Clear
        BY <2>3 DEF Clear, WakeReaders, Woken
    <2>4. CASE Destroy
        BY <2>4 DEF Destroy, entryVars, readerVars
    <2>5. CASE Join
        BY <2>5 DEF Join, readerVars, Lifecycle
    <2>6. CASE Cacher
        <3>1. CASE StartThread
            BY <3>1 DEF StartThread, WakeReaders, Woken
        <3>2. CASE Pick \/ PickNothing \/ ReadFails
            BY <3>2 DEF Pick, PickNothing, ReadFails, WakeReaders, Woken
        <3>3. CASE Discard \/ Store
            BY <3>3 DEF Discard, Store
        <3>4. CASE LeaveThread
            BY <3>4 DEF LeaveThread, readerVars, Lifecycle
        <3> QED
            BY <2>6, <3>1, <3>2, <3>3, <3>4 DEF Cacher
    <2>7. ASSUME NEW s \in Streams, NEW p \in Chunks(s), CallRead(s, p)
          PROVE  SleepInv'
        BY <2>7 DEF CallRead, entryVars, TypeOK
    <2>8. ASSUME NEW s \in Streams, RefuseRead(s) PROVE SleepInv'
        BY <2>8 DEF RefuseRead, entryVars, TypeOK
    <2>9. ASSUME NEW s \in Streams, ReadStep(s) PROVE SleepInv'
        <3>1. CASE ReadHit(s)
            BY <3>1 DEF ReadHit, PopFront, BroadcastFrom, Woken, TypeOK
        <3>2. CASE ReadSkip(s)
            BY <3>2 DEF ReadSkip, PopFront, TypeOK
        <3>3. CASE ReadError(s)
            BY <3>3 DEF ReadError, BroadcastFrom, Woken, entryVars, TypeOK
        <3>4. CASE ReadMiss(s)
            BY <3>4 DEF ReadMiss, BroadcastFrom, Woken, TypeOK
        <3> QED
            BY <2>9, <3>1, <3>2, <3>3, <3>4 DEF ReadStep
    <2>10. CASE SpuriousWakeup
        BY <2>10 DEF SpuriousWakeup, entryVars, TypeOK
    <2> QED
        BY <2>1, <2>2, <2>3, <2>4, <2>5, <2>6, <2>7, <2>8, <2>9, <2>10 DEF Next
<1>3. ASSUME SleepInv, UNCHANGED vars PROVE SleepInv'
    BY <1>3 DEF SleepInv, NoMutualSleep, NoMissedAnswer, vars, entryVars, readerVars
<1> QED
    BY TypeCorrect, LifecycleInv, <1>1, <1>2, <1>3, PTL DEF Spec

-----------------------------------------------------------------------------
(* The answers: StreamCache implements PacketSource *)

\* What an answer rests on: the error mark of a stream names a chunk that can
\* fail, and a pending request asks for a chunk of the table.
AnswerInv == \A s \in Streams :
                /\ error[s] = OK \/ error[s] \in MayFail[s]
                /\ reader[s] # "idle" => want[s] \in Chunks(s)

\* How one step of the reader of stream s can look to its caller.
Unseen == UNCHANGED <<[s \in Streams |-> reader[s] # "idle"], want, reply>>

LEMMA UnseenSteps ==
    ASSUME TypeOK, UNCHANGED <<want, reply>>,
           \A s \in Streams : reader'[s] # "idle" <=> reader[s] # "idle"
    PROVE  Unseen
BY DEF Unseen

LEMMA AnswerInit == Init => AnswerInv /\ Source!Init
BY DEF Init, AnswerInv, Source!Init

\* Every thread but the readers leaves requests and answers alone.
LEMMA AnswerOthers ==
    ASSUME TypeOK, AnswerInv,
           Create \/ CreateReturns \/ Clear \/ Destroy \/ Join \/ Cacher
            \/ SpuriousWakeup
    PROVE  AnswerInv' /\ Unseen
<1>1. \A s \in Streams : reader'[s] # "idle" <=> reader[s] # "idle"
    BY DEF TypeOK, Create, CreateReturns, Clear, Destroy, Join, Cacher,
        StartThread, Pick, PickNothing, ReadFails, Discard, Store, LeaveThread,
        SpuriousWakeup, WakeReaders, Woken, readerVars
<1>2. UNCHANGED <<want, reply>>
    BY DEF Create, CreateReturns, Clear, Destroy, Join, Cacher,
        StartThread, Pick, PickNothing, ReadFails, Discard, Store, LeaveThread,
        SpuriousWakeup, readerVars
<1>3. \A s \in Streams : error'[s] = OK \/ error'[s] \in MayFail[s]
    <2>1. CASE ReadFails
        BY <2>1 DEF ReadFails, AnswerInv, TypeOK
    <2>2. CASE Store
        BY <2>2 DEF Store, AnswerInv, TypeOK
    <2>3. CASE ~ReadFails /\ ~Store
        BY <2>3 DEF AnswerInv, Create, CreateReturns, Clear, Destroy, Join, Cacher,
            StartThread, Pick, PickNothing, Discard, LeaveThread,
            SpuriousWakeup, entryVars
    <2> QED
        BY <2>1, <2>2, <2>3
<1> QED
    BY <1>1, <1>2, <1>3, UnseenSteps DEF AnswerInv

\* A call is a request, the step that makes the reader idle its answer.
LEMMA AnswerReader ==
    ASSUME TypeOK, AnswerInv, NEW s \in Streams,
           (\E p \in Chunks(s) : CallRead(s, p)) \/ RefuseRead(s) \/ ReadStep(s)
    PROVE  AnswerInv' /\ (Source!Next \/ Unseen)
<1>1. ASSUME NEW p \in Chunks(s), CallRead(s, p)
      PROVE  AnswerInv' /\ Source!Request(s, p)
    BY <1>1 DEF CallRead, AnswerInv, TypeOK, entryVars, Source!Request,
        Source!Chunks, Chunks
<1>2. ASSUME RefuseRead(s) PROVE AnswerInv' /\ Source!Refuse(s)
    BY <1>2 DEF RefuseRead, AnswerInv, TypeOK, entryVars, Source!Refuse
<1>3. ASSUME reader[s] # "idle",
             \A t \in Streams : reader'[t] # "idle" <=> reader[t] # "idle" /\ t # s,
             UNCHANGED <<want, error>>,
             \/ reply' = [reply EXCEPT ![s] = want[s]]
             \/ want[s] \in MayFail[s] /\ reply' = [reply EXCEPT ![s] = NoPacket]
      PROVE  AnswerInv' /\ Source!Reply(s)
    BY <1>3 DEF AnswerInv, Source!Reply
<1>4. ASSUME UNCHANGED <<want, reply, error>>,
             \A t \in Streams : reader'[t] # "idle" <=> reader[t] # "idle"
      PROVE  AnswerInv' /\ Unseen
    BY <1>4, UnseenSteps DEF AnswerInv
<1>5. CASE ReadHit(s)
    <2>1. \A t \in Streams : reader'[t] # "idle" <=> reader[t] # "idle" /\ t # s
        BY <1>5 DEF ReadHit, BroadcastFrom, Woken, TypeOK
    <2>2. reader[s] # "idle"
        BY <1>5 DEF ReadHit, PopFront, Holds
    <2> QED
        BY <1>3, <1>5, <2>1, <2>2 DEF ReadHit, PopFront, Source!Next
<1>6. CASE ReadSkip(s)
    <2>1. \A t \in Streams : reader'[t] # "idle" <=> reader[t] # "idle"
        BY <1>6 DEF ReadSkip, PopFront, Holds, TypeOK
    <2> QED
        BY <1>4, <1>6, <2>1 DEF ReadSkip, PopFront
<1>7. CASE ReadError(s)
    <2>1. \A t \in Streams : reader'[t] # "idle" <=> reader[t] # "idle" /\ t # s
        BY <1>7 DEF ReadError, BroadcastFrom, Woken, TypeOK
    <2>2. reader[s] # "idle"
        BY <1>7 DEF ReadError, Holds
    <2>3. want[s] \in MayFail[s]
        BY <1>7 DEF ReadError, AnswerInv, TypeOK, OK
    <2> QED
        BY <1>3, <1>7, <2>1, <2>2, <2>3 DEF ReadError, entryVars, Source!Next
<1>8. CASE ReadMiss(s)
    <2>1. \A t \in Streams : reader'[t] # "idle" <=> reader[t] # "idle"
        BY <1>8 DEF ReadMiss, BroadcastFrom, Woken, Holds, TypeOK
    <2> QED
        BY <1>4, <1>8, <2>1 DEF ReadMiss
<1> QED
    BY <1>1, <1>2, <1>5, <1>6, <1>7, <1>8 DEF ReadStep, Source!Next, Source!Chunks, Chunks

\* readPacket returns the packet of the position asked for, or null if that
\* very chunk cannot be read: the safety half of PacketSource.
THEOREM Implements == Spec => Delivers
<1>1. ASSUME TypeOK, AnswerInv, Next PROVE AnswerInv' /\ (Source!Next \/ Unseen)
    BY <1>1, AnswerOthers, AnswerReader DEF Next
<1>2. ASSUME AnswerInv, UNCHANGED vars PROVE AnswerInv' /\ Unseen
    BY <1>2 DEF AnswerInv, Unseen, vars, entryVars, readerVars
<1>3. Unseen => UNCHANGED Source!vars
    BY DEF Unseen, Source!vars
<1> QED
    BY AnswerInit, TypeCorrect, <1>1, <1>2, <1>3, PTL
    DEF Spec, Delivers, Source!SafeSpec
=============================================================================

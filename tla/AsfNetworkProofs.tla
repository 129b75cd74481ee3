-------------------------- MODULE AsfNetworkProofs --------------------------
(***************************************************************************)
(* AsfNetwork, for any number of iterators, any content and any cache.     *)
(***************************************************************************)
EXTENDS AsfNetwork, WellFoundedInduction, TLAPS

Times == 0 .. End

\* Where the thread and the player are.
PlaceInv == /\ at \in {"loop", "header", "data", "last", "first", "begin",
                      "clear", "request", "reply", "start", "left", "leave",
                      "check", "sleep", "wait", "woken", "end", "gone"}
            /\ user \in {"none", "seek", "interrupt", "poll", "set", "wake",
                        "reset", "await", "quit", "join", "gone"}

FlagInv == /\ known \in BOOLEAN /\ finished \in BOOLEAN /\ waiting \in BOOLEAN
           /\ quit \in BOOLEAN /\ headed \in BOOLEAN
           /\ eof \in [Iterators -> BOOLEAN] /\ asking \subseteq Iterators

\* The numbers, with what those of later steps rest on: the time of a seek
\* and that the server has a packet to send.
NumberInv == /\ uiTime \in Times /\ pos \in Times /\ pipe \in 0 .. MaxBytes
             /\ \A s \in seek : s.time \in Times
             /\ at = "data" => pos < End

-----------------------------------------------------------------------------
LEMMA TypeInit == Init => PlaceInv /\ FlagInv /\ NumberInv
<1>1. Init => PlaceInv
    BY DEF Init, PlaceInv
<1>2. Init => FlagInv
    BY DEF Init, FlagInv
<1>3. Init => NumberInv
    BY SizeAssumption DEF Init, NumberInv, Times
<1> QED
    BY <1>1, <1>2, <1>3

LEMMA PlaceStep == PlaceInv /\ Next => PlaceInv'
<1> SUFFICES ASSUME PlaceInv, Next PROVE PlaceInv'
    OBVIOUS
<1> USE DEF PlaceInv
<1>1. CASE Begin \/ Clear \/ Request \/ ConnectFails \/ SkipRequest
    BY <1>1 DEF Begin, Clear, ClearOld, Request, ConnectFails, SkipRequest,
        EmptyAll, SetEof, flagVars, serverVars, iterVars, userVars
<1>2. CASE Reply \/ Start \/ LoopEnds \/ FullCache
    BY <1>2 DEF Reply, Start, LoopEnds, FullCache, flagVars, serverVars,
        iterVars, userVars
<1>3. CASE ReadHead
    BY <1>3 DEF ReadHead, Chunk, flagVars, serverVars, iterVars, userVars
<1>4. CASE ReadHeader \/ ReadLast
    BY <1>4 DEF ReadHeader, ReadLast, flagVars, serverVars, iterVars, userVars
<1>5. CASE ReadData
    BY <1>5 DEF ReadData, userVars
<1>6. CASE Leave \/ Left \/ Check
    BY <1>6 DEF Leave, Left, Check,
        SetEof, flagVars, serverVars, iterVars, userVars
<1>7. CASE Sleep \/ Continue \/ Ends
    BY <1>7 DEF Sleep, Continue, Wake, Ends, EmptyAll,
        SetEof, flagVars, serverVars, iterVars, userVars
<1>8. CASE SeekTime
    BY <1>8 DEF SeekTime, Idle, flagVars, serverVars, iterVars
<1>9. CASE InterruptThread \/ WakeThread \/ Interrupt \/ InterruptLast
    BY <1>9 DEF InterruptThread, WakeThread, Interrupt, InterruptLast,
        interrupt, Broadcast, Woken, Idle, flagVars, serverVars, iterVars,
        userVars
<1>10. CASE CheckWaiting \/ PollEnds \/ ResetWaiting \/ SeekEnds \/ Join
    BY <1>10 DEF CheckWaiting, PollEnds, ResetWaiting, SeekEnds, Join,
        flagVars, serverVars, iterVars
<1>11. CASE SetTime
    BY <1>11 DEF SetTime, flagVars, serverVars, iterVars
<1>12. CASE Await \/ Destroy
    BY <1>12 DEF Await, Destroy, Broadcast, Woken, flagVars, serverVars, iterVars,
        userVars
<1>13. CASE IsValid
    BY <1>13 DEF IsValid, Broadcast, Woken, flagVars, serverVars, iterVars, userVars
<1>14. ASSUME NEW i \in Iterators, Ask(i) \/ WaitForPacket(i) PROVE PlaceInv'
    BY <1>14 DEF Ask, WaitForPacket, Broadcast, Woken, flagVars, serverVars,
        iterVars, userVars
<1>15. ASSUME NEW i \in Iterators, GetPacket(i) PROVE PlaceInv'
    BY <1>15 DEF GetPacket, flagVars, serverVars, userVars
<1> QED
    BY <1>1, <1>2, <1>3, <1>4, <1>5, <1>6, <1>7, <1>8, <1>9, <1>10, <1>11, <1>12, <1>13, <1>14, <1>15
    DEF Next, Thread, User, Seek, Stream

LEMMA FlagStep == FlagInv /\ Next => FlagInv'
<1> SUFFICES ASSUME FlagInv, Next PROVE FlagInv'
    OBVIOUS
<1> USE DEF FlagInv
<1>1. CASE Begin \/ Clear \/ Request \/ ConnectFails \/ SkipRequest
    BY <1>1 DEF Begin, Clear, ClearOld, Request, ConnectFails, SkipRequest,
        EmptyAll, SetEof, flagVars, serverVars, iterVars, userVars
<1>2. CASE Reply \/ Start \/ LoopEnds \/ FullCache
    BY <1>2 DEF Reply, Start, LoopEnds, FullCache, flagVars, serverVars,
        iterVars, userVars
<1>3. CASE ReadHead
    BY <1>3 DEF ReadHead, Chunk, flagVars, serverVars, iterVars, userVars
<1>4. CASE ReadHeader \/ ReadLast
    BY <1>4 DEF ReadHeader, ReadLast, flagVars, serverVars, iterVars, userVars
<1>5. CASE ReadData
    BY <1>5 DEF ReadData, userVars
<1>6. CASE Leave \/ Left \/ Check
    BY <1>6 DEF Leave, Left, Check,
        SetEof, flagVars, serverVars, iterVars, userVars
<1>7. CASE Sleep \/ Continue \/ Ends
    BY <1>7 DEF Sleep, Continue, Wake, Ends, EmptyAll,
        SetEof, flagVars, serverVars, iterVars, userVars
<1>8. CASE SeekTime
    BY <1>8 DEF SeekTime, Idle, flagVars, serverVars, iterVars
<1>9. CASE InterruptThread \/ WakeThread \/ Interrupt \/ InterruptLast
    BY <1>9 DEF InterruptThread, WakeThread, Interrupt, InterruptLast,
        interrupt, Broadcast, Woken, Idle, flagVars, serverVars, iterVars,
        userVars
<1>10. CASE CheckWaiting \/ PollEnds \/ ResetWaiting \/ SeekEnds \/ Join
    BY <1>10 DEF CheckWaiting, PollEnds, ResetWaiting, SeekEnds, Join,
        flagVars, serverVars, iterVars
<1>11. CASE SetTime
    BY <1>11 DEF SetTime, flagVars, serverVars, iterVars
<1>12. CASE Await \/ Destroy
    BY <1>12 DEF Await, Destroy, Broadcast, Woken, flagVars, serverVars, iterVars,
        userVars
<1>13. CASE IsValid
    BY <1>13 DEF IsValid, Broadcast, Woken, flagVars, serverVars, iterVars, userVars
<1>14. ASSUME NEW i \in Iterators, Ask(i) \/ WaitForPacket(i) PROVE FlagInv'
    BY <1>14 DEF Ask, WaitForPacket, Broadcast, Woken, flagVars, serverVars,
        iterVars, userVars
<1>15. ASSUME NEW i \in Iterators, GetPacket(i) PROVE FlagInv'
    BY <1>15 DEF GetPacket, flagVars, serverVars, userVars
<1> QED
    BY <1>1, <1>2, <1>3, <1>4, <1>5, <1>6, <1>7, <1>8, <1>9, <1>10, <1>11, <1>12, <1>13, <1>14, <1>15
    DEF Next, Thread, User, Seek, Stream

LEMMA NumberStep == NumberInv /\ Next => NumberInv'
<1> SUFFICES ASSUME NumberInv, Next PROVE NumberInv'
    OBVIOUS
<1> USE SizeAssumption DEF NumberInv, Times
<1>1. CASE Begin \/ Clear \/ Request \/ ConnectFails \/ SkipRequest
    BY <1>1 DEF Begin, Clear, ClearOld, Request, ConnectFails, SkipRequest,
        EmptyAll, SetEof, flagVars, serverVars, iterVars, userVars
<1>2. CASE Reply \/ Start \/ LoopEnds \/ FullCache
    BY <1>2 DEF Reply, Start, LoopEnds, FullCache, flagVars, serverVars,
        iterVars, userVars
<1>3. CASE ReadHead
    <2>1. Chunk = "data" => pos < End
        BY DEF Chunk
    <2>2. UNCHANGED <<uiTime, pos, seek>> /\ (pipe' = pipe \/ pipe' = 0)
        BY <1>3 DEF ReadHead, serverVars, userVars
    <2>3. at' = "data" => pos < End
        BY <1>3, <2>1 DEF ReadHead
    <2> QED
        BY <2>2, <2>3
<1>4. CASE ReadHeader \/ ReadLast
    <2>1. UNCHANGED <<uiTime, pos, seek>> /\ (pipe' = pipe \/ pipe' = 0)
          /\ at' = "loop"
        BY <1>4 DEF ReadHeader, ReadLast, serverVars, userVars
    <2> QED
        BY <2>1
<1>5. CASE ReadData
    BY <1>5 DEF ReadData, userVars
<1>6. CASE Leave \/ Left \/ Check
    BY <1>6 DEF Leave, Left, Check,
        SetEof, flagVars, serverVars, iterVars, userVars
<1>7. CASE Sleep \/ Continue \/ Ends
    BY <1>7 DEF Sleep, Continue, Wake, Ends, EmptyAll,
        SetEof, flagVars, serverVars, iterVars, userVars
<1>8. CASE SeekTime
    BY <1>8 DEF SeekTime, Idle, flagVars, serverVars, iterVars
<1>9. CASE InterruptThread \/ WakeThread \/ Interrupt \/ InterruptLast
    BY <1>9 DEF InterruptThread, WakeThread, Interrupt, InterruptLast,
        interrupt, Broadcast, Woken, Idle, flagVars, serverVars, iterVars,
        userVars
<1>10. CASE CheckWaiting \/ PollEnds \/ ResetWaiting \/ SeekEnds \/ Join
    BY <1>10 DEF CheckWaiting, PollEnds, ResetWaiting, SeekEnds, Join,
        flagVars, serverVars, iterVars
<1>11. CASE SetTime
    BY <1>11 DEF SetTime, flagVars, serverVars, iterVars
<1>12. CASE Await \/ Destroy
    BY <1>12 DEF Await, Destroy, Broadcast, Woken, flagVars, serverVars, iterVars,
        userVars
<1>13. CASE IsValid
    BY <1>13 DEF IsValid, Broadcast, Woken, flagVars, serverVars, iterVars, userVars
<1>14. ASSUME NEW i \in Iterators, Ask(i) \/ WaitForPacket(i) PROVE NumberInv'
    BY <1>14 DEF Ask, WaitForPacket, Broadcast, Woken, flagVars, serverVars,
        iterVars, userVars
<1>15. ASSUME NEW i \in Iterators, GetPacket(i) PROVE NumberInv'
    BY <1>15 DEF GetPacket, flagVars, serverVars, userVars
<1> QED
    BY <1>1, <1>2, <1>3, <1>4, <1>5, <1>6, <1>7, <1>8, <1>9, <1>10, <1>11, <1>12, <1>13, <1>14, <1>15
    DEF Next, Thread, User, Seek, Stream

LEMMA TypeInvariant == Spec => [](PlaceInv /\ FlagInv /\ NumberInv)
<1>1. PlaceInv /\ UNCHANGED vars => PlaceInv'
    BY DEF PlaceInv, vars, userVars
<1>2. FlagInv /\ UNCHANGED vars => FlagInv'
    BY DEF FlagInv, vars, flagVars, serverVars, iterVars, userVars
<1>3. NumberInv /\ UNCHANGED vars => NumberInv'
    BY DEF NumberInv, vars, flagVars, serverVars, iterVars, userVars
<1> QED
    BY TypeInit, PlaceStep, FlagStep, NumberStep, <1>1, <1>2, <1>3, PTL DEF Spec

\* Every variable keeps its type: of the fields of AsfNetworkInputStream and
\* where its thread and the player's calls are.
THEOREM TypeCorrect == Spec => []TypeOK
<1>1. PlaceInv /\ FlagInv /\ NumberInv => TypeOK
    BY DEF PlaceInv, FlagInv, NumberInv, TypeOK, Reading, Times
<1> QED
    BY TypeInvariant, <1>1, PTL

-----------------------------------------------------------------------------
(***************************************************************************)
(* The queues.  A queue in step is the last n packets before p.            *)
(***************************************************************************)
InStep(s, p) == s = [k \in 1 .. Len(s) |-> p - Len(s) + k]

LEMMA InStepEmpty == \A p \in Int : InStep(<<>>, p)
BY DEF InStep

LEMMA InStepAppend ==
    ASSUME NEW s \in Seq(Int), NEW p \in Int, InStep(s, p)
    PROVE  InStep(Append(s, p + 1), p + 1)
<1> DEFINE a == Append(s, p + 1)
<1>1. a \in Seq(Int) /\ Len(a) = Len(s) + 1
    OBVIOUS
<1>2. \A k \in 1 .. Len(a) : a[k] = p + 1 - Len(a) + k
    BY <1>1 DEF InStep
<1> HIDE DEF a
<1>3. InStep(a, p + 1)
    BY <1>1, <1>2 DEF InStep
<1> QED
    BY <1>3 DEF a

LEMMA RestFacts ==
    ASSUME NEW s \in Seq(Int), NEW m \in Nat, m <= Len(s)
    PROVE  LET r == SubSeq(s, m + 1, Len(s))
           IN  /\ r \in Seq(Int) /\ Len(r) = Len(s) - m
               /\ \A k \in 1 .. Len(s) - m : r[k] = s[m + k]
<1>1. \A k \in 1 .. Len(s) - m : m + k \in 1 .. Len(s) /\ (m + 1) + k - 1 = m + k
    OBVIOUS
<1>2. SubSeq(s, m + 1, Len(s)) = [k \in 1 .. Len(s) - m |-> s[m + k]]
    OBVIOUS
<1> QED
    BY <1>1, <1>2

LEMMA InStepDrop ==
    ASSUME NEW s \in Seq(Int), NEW p \in Int, InStep(s, p), NEW m \in 0 .. Len(s)
    PROVE  InStep(SubSeq(s, m + 1, Len(s)), p)
<1> DEFINE d == SubSeq(s, m + 1, Len(s))
<1>0. m \in Nat /\ Len(s) \in Nat /\ m <= Len(s)
    OBVIOUS
<1>1. /\ d \in Seq(Int) /\ Len(d) = Len(s) - m
      /\ \A k \in 1 .. Len(s) - m : d[k] = s[m + k]
    BY <1>0, RestFacts
<1> HIDE DEF d
<1>2. ASSUME NEW k \in 1 .. Len(d) PROVE d[k] = p - Len(d) + k
    <2>0. k \in 1 .. Len(s) - m /\ m + k \in 1 .. Len(s)
        BY <1>0, <1>1
    <2>1. m + k \in 1 .. Len(s) /\ d[k] = s[m + k]
        BY <1>1, <2>0
    <2>2. s[m + k] = p - Len(s) + (m + k)
        BY <2>1 DEF InStep
    <2>3. k \in Int /\ m \in Int /\ Len(s) \in Int /\ Len(d) = Len(s) - m
        BY <1>0, <1>1
    <2> QED
        BY <2>1, <2>2, <2>3
<1>3. InStep(d, p)
    BY <1>1, <1>2 DEF InStep
<1> QED
    BY <1>3 DEF d

LEMMA InStepTail ==
    ASSUME NEW s \in Seq(Int), NEW p \in Int, InStep(s, p), s # <<>>
    PROVE  InStep(Tail(s), p)
<1>1. Tail(s) = SubSeq(s, 1 + 1, Len(s)) /\ 1 \in 0 .. Len(s)
    OBVIOUS
<1> QED
    BY <1>1, InStepDrop

\* What Kept leaves of a queue that has just got a packet.
LEMMA KeptFacts ==
    ASSUME NEW s \in Seq(Int), NEW p \in Int
    PROVE  /\ Kept(s) \in Seq(Int) /\ Len(Kept(s)) <= Len(s)
           /\ Len(s) <= 2 * Cache => Len(Kept(s)) < 2 * Cache
           /\ InStep(s, p) => InStep(Kept(s), p)
<1> USE SizeAssumption
<1>1. CASE Len(s) >= 2 * Cache /\ Len(s) % 2 = 0
    <2> DEFINE h == Len(s) \div 2
    <2>1. h \in 1 .. Len(s) /\ 2 * h = Len(s)
        BY <1>1
    <2>2. Kept(s) = SubSeq(s, h + 1, Len(s))
        BY <1>1 DEF Kept
    <2> HIDE DEF h
    <2>3. Kept(s) \in Seq(Int) /\ Len(Kept(s)) = Len(s) - h
        BY <2>1, <2>2
    <2>4. Len(s) <= 2 * Cache => Len(Kept(s)) < 2 * Cache
        BY <2>1, <2>3
    <2>5. InStep(s, p) => InStep(Kept(s), p)
        BY <2>1, <2>2, InStepDrop
    <2> QED
        BY <2>1, <2>3, <2>4, <2>5
<1>2. CASE ~(Len(s) >= 2 * Cache /\ Len(s) % 2 = 0)
    <2>1. Kept(s) = s
        BY <1>2 DEF Kept
    <2>2. Len(s) # 2 * Cache
        BY <1>2
    <2> QED
        BY <2>1, <2>2
<1> QED
    BY <1>1, <1>2

LEMMA MinIs ==
    ASSUME NEW S, S \subseteq Nat, S # {}
    PROVE  Min(S) \in S /\ \A y \in S : Min(S) <= y
<1> DEFINE R == OpToRel(<, Nat)
<1>1. IsWellFoundedOn(R, Nat)
    BY NatLessThanWellFounded
<1>2. \A x, y \in Nat : <<y, x>> \in R <=> y < x
    BY DEF OpToRel
<1> HIDE DEF R
<1>3. PICK x \in S : \A y \in S : ~(<<y, x>> \in R)
    BY <1>1, WFMin
<1>4. S \subseteq Nat /\ \A y \in S : ~(y < x)
    BY <1>2, <1>3, Zenon
<1>5. \A y \in S : x <= y
    BY ONLY <1>4, x \in S
<1> QED
    BY <1>5 DEF Min

-----------------------------------------------------------------------------
Empty == \A i \in Iterators : packets[i] = <<>>

\* From the moment the queues are emptied to the first packet of the next
\* transmission nothing is in them.
OrderInv == /\ packets \in [Iterators -> Seq(Int)]
            /\ at \in {"request", "reply", "start"} => Empty
            /\ at \in Reading => \A i \in Iterators : InStep(packets[i], pos)

\* What every step but those of the queues does.
QuietStep == /\ packets' = packets
             /\ at' \in Reading => (at \in Reading /\ pos' = pos) \/ at = "start"
             /\ at' \in {"request", "reply", "start"}
                    => at \in {"request", "reply", "start"}

QueueStep == \/ Clear \/ ReadData \/ Ends
             \/ \E i \in Iterators : GetPacket(i)

LEMMA StepIsQuiet == PlaceInv /\ Next => QueueStep \/ QuietStep
<1> SUFFICES ASSUME PlaceInv, Next PROVE QueueStep \/ QuietStep
    OBVIOUS
<1> USE DEF QuietStep, Reading
<1>1. CASE Begin \/ Request \/ ConnectFails \/ SkipRequest \/ Reply \/ Start
    BY <1>1 DEF Begin, Request, ConnectFails, SkipRequest, Reply, Start, SetEof,
        flagVars, serverVars, iterVars
<1>2. CASE LoopEnds \/ FullCache \/ ReadHead \/ ReadHeader \/ ReadLast
    BY <1>2 DEF LoopEnds, FullCache, ReadHead, Chunk, ReadHeader, ReadLast,
        serverVars, iterVars
<1>3. CASE Leave \/ Left \/ Check \/ Sleep \/ Continue
    BY <1>3 DEF Leave, Left, Check, Sleep, Continue, SetEof, serverVars, iterVars
<1>4. CASE User \/ IsValid
    <2>1. packets' = packets /\ pos' = pos /\ (at' = at \/ at' = Woken(at))
        BY <1>4 DEF User, SeekTime, Seek, CheckWaiting, InterruptThread, PollEnds,
            SetTime, WakeThread, ResetWaiting, SeekEnds, Await, Interrupt, Destroy,
            InterruptLast, Join, IsValid, interrupt, Broadcast,
            serverVars, iterVars
    <2> QED
        BY <2>1 DEF Woken, PlaceInv
<1>5. ASSUME NEW i \in Iterators, Ask(i) \/ WaitForPacket(i) PROVE QuietStep
    <2>1. packets' = packets /\ pos' = pos /\ (at' = at \/ at' = Woken(at))
        BY <1>5 DEF Ask, WaitForPacket, Broadcast, serverVars, iterVars
    <2> QED
        BY <2>1 DEF Woken, PlaceInv
<1> QED
    BY <1>1, <1>2, <1>3, <1>4, <1>5 DEF Next, Thread, Stream, QueueStep

\* A packet is begun by ReadHead only.
LEMMA OnlyReadHead == PlaceInv /\ Next /\ at' = "data" => at = "data" \/ ReadHead
<1> SUFFICES ASSUME PlaceInv, Next, at' = "data", ~ReadHead PROVE at = "data"
    OBVIOUS
<1>1. ~(Begin \/ Clear \/ Request \/ ConnectFails \/ SkipRequest \/ Reply \/ Start
        \/ LoopEnds \/ FullCache \/ ReadHeader \/ ReadData \/ ReadLast \/ Leave
        \/ Left \/ Check \/ Sleep \/ Continue \/ Ends)
    BY DEF Begin, Clear, Request, ConnectFails, SkipRequest, Reply, Start,
        LoopEnds, FullCache, ReadHeader, ReadData, ReadLast, Leave, Left, Check,
        Sleep, Continue, Ends
<1>2. CASE User \/ IsValid
    <2>1. at' = at \/ at' = Woken(at)
        BY <1>2 DEF User, SeekTime, Seek, CheckWaiting, InterruptThread, PollEnds,
            SetTime, WakeThread, ResetWaiting, SeekEnds, Await, Interrupt, Destroy,
            InterruptLast, Join, IsValid, interrupt, Broadcast
    <2> QED
        BY <2>1 DEF Woken, PlaceInv
<1>3. ASSUME NEW i \in Iterators, Stream(i) \/ WaitForPacket(i)
      PROVE  at = "data"
    <2>1. at' = at \/ at' = Woken(at)
        BY <1>3 DEF Stream, Ask, GetPacket, WaitForPacket, Broadcast
    <2> QED
        BY <2>1 DEF Woken, PlaceInv
<1> QED
    BY <1>1, <1>2, <1>3 DEF Next, Thread

LEMMA QuietKeeps ==
    ASSUME NumberInv, NumberInv', OrderInv, QuietStep
    PROVE  OrderInv'
<1>1. at' \in {"request", "reply", "start"} => Empty'
    BY DEF OrderInv, QuietStep, Empty
<1>2. at' \in Reading => \A i \in Iterators : InStep(packets'[i], pos')
    <2>1. CASE at \in Reading /\ pos' = pos
        BY <2>1 DEF OrderInv, QuietStep
    <2>2. CASE at = "start"
        <3>1. pos' \in Int /\ \A i \in Iterators : packets'[i] = <<>>
            BY <2>2 DEF OrderInv, QuietStep, Empty, NumberInv, Times
        <3> QED
            BY <3>1, InStepEmpty
    <2> QED
        BY <2>1, <2>2 DEF QuietStep
<1> QED
    BY <1>1, <1>2 DEF OrderInv, QuietStep

LEMMA QueueKeeps ==
    ASSUME NumberInv, OrderInv, QueueStep
    PROVE  OrderInv'
<1> USE DEF OrderInv, Reading
<1>1. CASE Clear
    BY <1>1 DEF Clear, ClearOld, EmptyAll, Empty
<1>2. CASE Ends
    BY <1>2 DEF Ends, EmptyAll
<1>3. CASE ReadData /\ pos' = pos + 1
    <2>1. at = "data" /\ at' = "loop" /\ pos \in Int
        BY <1>3 DEF ReadData, NumberInv, Times
    <2>2. CASE packets' = [i \in Iterators |-> Kept(Append(packets[i], pos'))]
        <3>1. ASSUME NEW i \in Iterators
              PROVE  packets'[i] \in Seq(Int) /\ InStep(packets'[i], pos')
            <4>1. Append(packets[i], pos') \in Seq(Int)
                  /\ InStep(Append(packets[i], pos'), pos')
                BY <1>3, <2>1, InStepAppend
            <4>2. packets'[i] = Kept(Append(packets[i], pos')) /\ pos' \in Int
                BY <1>3, <2>1, <2>2
            <4> HIDE DEF OrderInv, Reading
            <4> QED
                BY <4>1, <4>2, KeptFacts
        <3> QED
            BY <2>1, <2>2, <3>1
    <2>3. CASE packets' = packets /\ pos' = pos
        BY <1>3, <2>1, <2>3
    <2> QED
        BY <1>3, <2>2, <2>3 DEF ReadData
<1>4. CASE ReadData /\ pos' # pos + 1
    BY <1>4 DEF ReadData
<1>5. ASSUME NEW i \in Iterators, GetPacket(i) PROVE OrderInv'
    <2>1. at' = at /\ pos' = pos /\ pos \in Int
        BY <1>5 DEF GetPacket, serverVars, NumberInv, Times
    <2>2. CASE packets' = packets
        BY <2>1, <2>2 DEF Empty
    <2>3. CASE packets[i] # <<>> /\ packets' = [packets EXCEPT ![i] = Tail(@)]
        <3>1. packets' \in [Iterators -> Seq(Int)]
            BY <2>3
        <3>2. at \notin {"request", "reply", "start"}
            BY <2>3 DEF Empty
        <3>3. at \in Reading => \A j \in Iterators : InStep(packets'[j], pos)
            BY <2>1, <2>3, InStepTail
        <3> QED
            BY <2>1, <3>1, <3>2, <3>3
    <2> QED
        BY <1>5, <2>2, <2>3 DEF GetPacket
<1> QED
    BY <1>1, <1>2, <1>3, <1>4, <1>5 DEF QueueStep

LEMMA OrderInvariant == Spec => []OrderInv
<1>1. Init => OrderInv
    BY DEF Init, OrderInv, Reading
<1>2. ASSUME PlaceInv, NumberInv, NumberInv', OrderInv, Next PROVE OrderInv'
    BY <1>2, StepIsQuiet, QuietKeeps, QueueKeeps
<1>3. OrderInv /\ UNCHANGED vars => OrderInv'
    BY DEF OrderInv, Empty, vars, serverVars, iterVars
<1> QED
    BY TypeInvariant, <1>1, <1>2, <1>3, PTL DEF Spec

\* While a transmission is read every iterator has its last packets, in their
\* order and each once (threadFunc, line 481, readContent, lines 1012 to 1031).
THEOREM QueuesCorrect == Spec => []QueuesInStep
<1>1. OrderInv => QueuesInStep
    BY DEF OrderInv, QueuesInStep, InStep
<1> QED
    BY OrderInvariant, <1>1, PTL

-----------------------------------------------------------------------------
(* How full the queues get *)
Lengths == {Len(packets[i]) : i \in Iterators}

\* The shortest queue; the thread reads a packet only when it found it short
\* of the cache, and only the iterators have changed the queues since.
SizeInv == /\ \A i \in Iterators : Len(packets[i]) < 2 * Cache
           /\ \E i \in Iterators : Len(packets[i]) <= Cache
           /\ at = "data" => \E i \in Iterators : Len(packets[i]) < Cache

LEMMA TypedQueues ==
    ASSUME OrderInv
    PROVE  \A i \in Iterators : packets[i] \in Seq(Int) /\ Len(packets[i]) \in Nat
<1>1. \A i \in Iterators : packets[i] \in Seq(Int)
    BY DEF OrderInv
<1> QED
    BY <1>1

LEMMA LeastFacts ==
    ASSUME OrderInv
    PROVE  /\ \A n \in Nat : Least < n => \E i \in Iterators : Len(packets[i]) < n
           /\ \A i \in Iterators : Least <= Len(packets[i])
           /\ Least \in Nat
<1>1. Lengths \subseteq Nat /\ Lengths # {}
    BY TypedQueues, SizeAssumption DEF Lengths
<1>2. Least \in Lengths /\ \A y \in Lengths : Least <= y
    BY <1>1, MinIs DEF Least, Lengths
<1> QED
    BY <1>1, <1>2 DEF Lengths

LEMMA Shorter ==
    ASSUME SizeInv, at' = "data" => at = "data",
           \A i \in Iterators : /\ Len(packets[i]) \in Nat /\ Len(packets'[i]) \in Nat
                               /\ Len(packets'[i]) <= Len(packets[i])
    PROVE  SizeInv'
<1> USE SizeAssumption DEF SizeInv
<1>1. \A i \in Iterators : Len(packets'[i]) < 2 * Cache
    OBVIOUS
<1>2. \E i \in Iterators : Len(packets'[i]) <= Cache
    OBVIOUS
<1>3. at' = "data" => \E i \in Iterators : Len(packets'[i]) < Cache
    OBVIOUS
<1> QED
    BY <1>1, <1>2, <1>3

LEMMA SizeInvariant == Spec => []SizeInv
<1>1. Init => SizeInv
    BY SizeAssumption DEF Init, SizeInv
<1>2. ASSUME PlaceInv, OrderInv, OrderInv', NumberInv', SizeInv, Next
      PROVE  SizeInv'
    <2>1. \A i \in Iterators : /\ packets[i] \in Seq(Int)
                              /\ Len(packets[i]) \in Nat /\ Len(packets'[i]) \in Nat
        BY <1>2, TypedQueues DEF OrderInv
    <2>2. CASE Clear \/ Ends
        <3>1. at' # "data" /\ \A i \in Iterators : packets'[i] = <<>>
            BY <2>2 DEF Clear, ClearOld, Ends, EmptyAll
        <3> QED
            BY <1>2, <2>1, <3>1, Shorter
    <2>3. CASE ReadData /\ packets' = packets
        BY <1>2, <2>1, <2>3, Shorter DEF ReadData
    <2>4. CASE /\ at = "data" /\ at' = "loop"
               /\ packets' = [i \in Iterators |-> Kept(Append(packets[i], pos'))]
        <3>1. ASSUME NEW i \in Iterators
              PROVE  /\ Len(packets'[i]) <= Len(packets[i]) + 1
                     /\ Len(packets'[i]) < 2 * Cache
            <4> DEFINE s == Append(packets[i], pos')
            <4>1. pos' \in Int /\ s \in Seq(Int) /\ Len(s) = Len(packets[i]) + 1
                BY <1>2, <2>1 DEF NumberInv, Times
            <4>2. packets'[i] = Kept(s)
                BY <2>4
            <4> HIDE DEF s
            <4>3. Len(s) <= 2 * Cache
                BY <1>2, <2>1, <4>1, SizeAssumption DEF SizeInv
            <4>4. Len(Kept(s)) <= Len(s) /\ Len(Kept(s)) < 2 * Cache
                BY <4>1, <4>3, KeptFacts
            <4> QED
                BY <4>1, <4>2, <4>4
        <3>2. PICK i \in Iterators : Len(packets[i]) < Cache
            BY <1>2, <2>4 DEF SizeInv
        <3>3. Len(packets'[i]) <= Cache
            BY <2>1, <3>1, <3>2, SizeAssumption
        <3> QED
            BY <2>4, <3>1, <3>3 DEF SizeInv
    <2>5. ASSUME NEW i \in Iterators, GetPacket(i) PROVE SizeInv'
        <3>1. at' = at /\ \A j \in Iterators : Len(packets'[j]) <= Len(packets[j])
            BY <1>2, <2>1, <2>5 DEF GetPacket, OrderInv
        <3> QED
            BY <1>2, <2>1, <3>1, Shorter
    <2>6. CASE QuietStep /\ (at' = "data" => at = "data")
        BY <1>2, <2>1, <2>6, Shorter DEF QuietStep
    <2>7. CASE ReadHead
        <3>1. packets' = packets /\ Least < Cache
            BY <1>2, <2>7, LeastFacts, SizeAssumption DEF ReadHead, Full, iterVars
        <3>2. \E i \in Iterators : Len(packets[i]) < Cache
            BY <1>2, <3>1, LeastFacts, SizeAssumption
        <3> QED
            BY <1>2, <3>1, <3>2 DEF SizeInv
    <2> QED
        BY <1>2, <2>2, <2>3, <2>4, <2>5, <2>6, <2>7, StepIsQuiet, OnlyReadHead
        DEF QueueStep, ReadData
<1>3. SizeInv /\ UNCHANGED vars => SizeInv'
    BY DEF SizeInv, vars, iterVars
<1> QED
    BY TypeInvariant, OrderInvariant, <1>1, <1>2, <1>3, PTL DEF Spec

\* However the streams are read, none holds twice the cache, and the thread
\* reads no further ahead than the cache (cacheSize, lines 386 to 403).
THEOREM CacheBounded == Spec => []WithinCache
<1>1. ASSUME OrderInv, SizeInv PROVE WithinCache
    <2>1. PICK i \in Iterators : Len(packets[i]) <= Cache
        BY <1>1 DEF SizeInv
    <2>2. Least <= Len(packets[i]) /\ Least \in Nat /\ Len(packets[i]) \in Nat
        BY <1>1, LeastFacts, TypedQueues
    <2>3. Least <= Cache
        BY <2>1, <2>2, SizeAssumption
    <2> QED
        BY <1>1, <2>3 DEF SizeInv, WithinCache
<1> QED
    BY OrderInvariant, SizeInvariant, <1>1, PTL

-----------------------------------------------------------------------------
(* The seek *)

\* A time that was set while the thread waited is still m_uiTime, and the
\* thread has not come past the request since.
SoughtInv == /\ sought \subseteq {uiTime}
             /\ sought # {} => at \notin Reading \union {"reply", "start", "left", "leave"}

LEMMA SoughtStep == ASSUME PlaceInv, SoughtInv, Next PROVE SoughtInv'
<1> USE DEF SoughtInv, Reading
<1>1. CASE Begin \/ Clear \/ ConnectFails \/ SkipRequest \/ Reply \/ Start
    BY <1>1 DEF Begin, Clear, ConnectFails, SkipRequest, Reply, Start, userVars
<1>2. CASE Request
    BY <1>2 DEF Request
<1>3. CASE LoopEnds \/ FullCache \/ ReadHead \/ ReadHeader \/ ReadData \/ ReadLast
    BY <1>3 DEF LoopEnds, FullCache, ReadHead, ReadHeader, ReadData, ReadLast, userVars
<1>4. CASE Leave \/ Left \/ Check \/ Sleep \/ Continue \/ Ends
    BY <1>4 DEF Leave, Left, Check, Sleep, Continue, Wake, Ends, userVars
<1>5. CASE SetTime
    BY <1>5 DEF SetTime
<1>6. CASE \/ User /\ ~SetTime
           \/ IsValid
           \/ \E i \in Iterators : Stream(i) \/ WaitForPacket(i)
    <2>1. UNCHANGED <<sought, uiTime>> /\ (at' = at \/ at' = Woken(at))
        BY <1>6 DEF User, SeekTime, Seek, CheckWaiting, InterruptThread, PollEnds,
            WakeThread, ResetWaiting, SeekEnds, Await, Interrupt, Destroy,
            InterruptLast, Join, IsValid, Stream, Ask, GetPacket, WaitForPacket,
            interrupt, Broadcast, userVars
    <2> QED
        BY <2>1 DEF Woken, PlaceInv
<1> QED
    BY <1>1, <1>2, <1>3, <1>4, <1>5, <1>6 DEF Next, Thread

\* A time that is sought while the thread waits is the one it requests next
\* (seekInternal, lines 356 to 368, threadFunc, line 546).
THEOREM SoughtIsRequested == Spec => SeekLands
<1>1. Init => SoughtInv
    BY DEF Init, SoughtInv
<1>2. SoughtInv /\ UNCHANGED vars => SoughtInv'
    BY DEF SoughtInv, vars, userVars
<1>3. ASSUME PlaceInv, SoughtInv, Next, at = "request", at' = "reply"
      PROVE  sought \subseteq {pos'}
    <2>1. CASE Request
        BY <1>3, <2>1 DEF Request, SoughtInv
    <2>2. CASE Thread /\ ~Request
        BY <1>3, <2>2 DEF Thread, Begin, Clear, ConnectFails, SkipRequest, Reply,
            Start, LoopEnds, FullCache, ReadHead, ReadHeader, ReadData, ReadLast,
            Leave, Left, Check, Sleep, Continue, Ends
    <2>3. CASE ~Thread
        <3>1. at' = at \/ at' = Woken(at)
            BY <1>3, <2>3 DEF Next, User, SeekTime, Seek, CheckWaiting,
                InterruptThread, PollEnds, SetTime, WakeThread, ResetWaiting,
                SeekEnds, Await, Interrupt, Destroy, InterruptLast, Join, IsValid, Stream, Ask, GetPacket,
                WaitForPacket, interrupt, Broadcast
        <3> QED
            BY <1>3, <3>1 DEF Woken
    <2> QED
        BY <2>1, <2>2, <2>3
<1>4. ASSUME PlaceInv, SoughtInv, [Next]_vars
      PROVE  [at = "request" /\ at' = "reply" => sought \subseteq {pos'}]_vars
    BY <1>3, <1>4
<1> QED
    BY TypeInvariant, SoughtStep, <1>1, <1>2, <1>4, PTL DEF Spec, SeekLands
=============================================================================

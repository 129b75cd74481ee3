-------------------------- MODULE VideoQueueProofs --------------------------
(***************************************************************************)
(* VideoQueue, for any number of images and of frames.  What holds of one  *)
(* thread that leaves ReadFrame a free image follows from where each image *)
(* is (Homes), from what m_pFrame points to (ShownInv) and from the order  *)
(* of the frames in the ready ring (OrderInv).  In the player images get   *)
(* lost and doubled, and it takes less to see that no frame is taken back: *)
(* the rings are never both empty (PlayerInv).                             *)
(***************************************************************************)
EXTENDS VideoQueue, FiniteSetTheorems, SequenceTheorems, TLAPS

Distinct(s) == \A i, j \in 1 .. Len(s) : s[i] = s[j] => i = j

-----------------------------------------------------------------------------
(* Rings *)

LEMMA OrderedImages ==
    /\ SetToSeq(Images) \in Seq(Images)
    /\ Len(SetToSeq(Images)) = Size /\ Size \in Nat \ {0}
    /\ Range(SetToSeq(Images)) = Images
    /\ Distinct(SetToSeq(Images))
    /\ SetToSeq(Images) # <<>>
<1> DEFINE s == SetToSeq(Images)
           Numbers == 1 .. Cardinality(Images)
<1>1. IsFiniteSet(Images) /\ Images # {}
    BY ImagesAssumption
<1>2. Size \in Nat /\ ExistsBijection(Numbers, Images)
    BY <1>1, FS_CardinalityType DEF Size
<1>3. Size # 0
    BY <1>1, FS_EmptySet DEF Size
<1>4. \E f \in [Numbers -> Images] : IsInjective(f)
    BY <1>2 DEF ExistsBijection, Bijection, Injection
<1>5. s \in [Numbers -> Images] /\ IsInjective(s)
    BY <1>4 DEF SetToSeq
<1>6. s \in Seq(Images) /\ Len(s) = Size
    BY <1>2, <1>5 DEF Size
<1>7. Distinct(s)
    BY <1>2, <1>5, <1>6 DEF Distinct, IsInjective, Size
<1>8. Range(s) = Images
    <2>1. s \in Injection(Numbers, Images)
        BY <1>5 DEF Injection
    <2>2. IsFiniteSet(Numbers) /\ Cardinality(Numbers) = Cardinality(Images)
        BY <1>2, FS_Interval DEF Size
    <2>3. s \in Surjection(Numbers, Images)
        BY <1>1, <2>1, <2>2, FS_Injection
    <2> QED
        BY <1>5, <2>3 DEF Surjection, Range
<1> QED
    BY <1>2, <1>3, <1>6, <1>7, <1>8

LEMMA TailFacts ==
    ASSUME NEW S, NEW s \in Seq(S), s # <<>>
    PROVE  /\ Head(s) \in S /\ Head(s) = s[1]
           /\ Tail(s) \in Seq(S) /\ Len(Tail(s)) = Len(s) - 1
           /\ Len(s) \in Nat \ {0}
           /\ \A i \in 1 .. Len(s) - 1 : Tail(s)[i] = s[i + 1]
           /\ Range(s) = Range(Tail(s)) \cup {Head(s)}
<1>1. /\ Head(s) \in S /\ Head(s) = s[1]
      /\ Tail(s) \in Seq(S) /\ Len(Tail(s)) = Len(s) - 1
      /\ Len(s) \in Nat \ {0}
      /\ \A i \in 1 .. Len(s) - 1 : Tail(s)[i] = s[i + 1]
    BY HeadTailProperties
<1>2. DOMAIN s = 1 .. Len(s) /\ DOMAIN Tail(s) = 1 .. Len(s) - 1
    BY <1>1
<1>3. \A x \in Range(s) : x \in Range(Tail(s)) \cup {Head(s)}
    <2> SUFFICES ASSUME NEW i \in 1 .. Len(s), i # 1
                 PROVE  s[i] \in Range(Tail(s))
        BY <1>1, <1>2 DEF Range
    <2>1. i - 1 \in 1 .. Len(s) - 1 /\ Tail(s)[i - 1] = s[i]
        BY <1>1
    <2> QED
        BY <1>2, <2>1 DEF Range
<1>4. \A x \in Range(Tail(s)) \cup {Head(s)} : x \in Range(s)
    <2>1. \A i \in 1 .. Len(s) - 1 : Tail(s)[i] \in Range(s)
        BY <1>1, <1>2 DEF Range
    <2>2. Head(s) \in Range(s)
        BY <1>1, <1>2 DEF Range
    <2> QED
        BY <1>2, <2>1, <2>2 DEF Range
<1> QED
    BY <1>1, <1>3, <1>4

LEMMA DistinctTail ==
    ASSUME NEW S, NEW s \in Seq(S), s # <<>>, Distinct(s)
    PROVE  Distinct(Tail(s)) /\ Range(Tail(s)) = Range(s) \ {Head(s)}
<1>1. Distinct(Tail(s))
    BY TailFacts DEF Distinct
<1>2. Head(s) \notin Range(Tail(s))
    <2>1. \A i \in 1 .. Len(s) - 1 : Tail(s)[i] # Head(s)
        BY TailFacts DEF Distinct
    <2>2. DOMAIN Tail(s) = 1 .. Len(s) - 1
        BY TailFacts
    <2> QED
        BY <2>1, <2>2 DEF Range
<1> QED
    BY <1>1, <1>2, TailFacts

LEMMA AppendFacts ==
    ASSUME NEW S, NEW s \in Seq(S), NEW x \in S
    PROVE  /\ Append(s, x) \in Seq(S) /\ Append(s, x) # <<>>
           /\ Len(Append(s, x)) = Len(s) + 1 /\ Len(s) \in Nat
           /\ \A i \in 1 .. Len(s) : Append(s, x)[i] = s[i]
           /\ Append(s, x)[Len(s) + 1] = x
           /\ Range(Append(s, x)) = Range(s) \cup {x}
<1>1. /\ Append(s, x) \in Seq(S) /\ Append(s, x) # <<>>
      /\ Len(Append(s, x)) = Len(s) + 1 /\ Len(s) \in Nat
      /\ \A i \in 1 .. Len(s) : Append(s, x)[i] = s[i]
      /\ Append(s, x)[Len(s) + 1] = x
    BY AppendProperties
<1>2. DOMAIN s = 1 .. Len(s) /\ DOMAIN Append(s, x) = 1 .. Len(s) + 1
    BY <1>1
<1> QED
    BY <1>1, <1>2 DEF Range

LEMMA DistinctAppend ==
    ASSUME NEW S, NEW s \in Seq(S), NEW x \in S, x \notin Range(s), Distinct(s)
    PROVE  Distinct(Append(s, x))
<1>1. \A i \in 1 .. Len(s) : s[i] # x
    BY DEF Range
<1> QED
    BY <1>1, AppendFacts DEF Distinct

LEMMA RingFacts ==
    ASSUME NEW s \in Seq(Pointers), Len(s) <= Size, NEW i \in Pointers
    PROVE  /\ Oldest(s) \in Pointers
           /\ Popped(s) \in Seq(Pointers) /\ Len(Popped(s)) <= Size
           /\ Pushed(s, i) \in Seq(Pointers) /\ Len(Pushed(s, i)) <= Size
<1>1. Size \in Nat
    BY OrderedImages
<1>2. Oldest(s) \in Pointers
    BY TailFacts DEF Oldest, Pointers
<1>3. Popped(s) \in Seq(Pointers) /\ Len(Popped(s)) <= Size
    BY <1>1, TailFacts DEF Popped
<1>4. Pushed(s, i) \in Seq(Pointers) /\ Len(Pushed(s, i)) <= Size
    BY <1>1, AppendFacts DEF Pushed
<1> QED
    BY <1>2, <1>3, <1>4

-----------------------------------------------------------------------------
(* Types *)

LEMMA InitTyped == Init => TypeOK
<1>1. SetToSeq(Images) \in Seq(Pointers) /\ Len(SetToSeq(Images)) <= Size
    BY OrderedImages, SeqMonotonic DEF Pointers
<1>2. <<>> \in Seq(Pointers) /\ Len(<<>>) <= Size
    BY OrderedImages
<1> QED
    BY <1>1, <1>2, FramesAssumption DEF Init, TypeOK, Pointers

LEMMA NewQueue ==
    /\ SetToSeq(Images) \in Seq(Pointers) /\ Len(SetToSeq(Images)) <= Size
    /\ <<>> \in Seq(Pointers) /\ Len(<<>>) <= Size
    /\ Head(SetToSeq(Images)) \in Images
<1>1. SetToSeq(Images) \in Seq(Pointers) /\ Len(SetToSeq(Images)) <= Size
    BY OrderedImages, SeqMonotonic DEF Pointers
<1>2. <<>> \in Seq(Pointers) /\ Len(<<>>) <= Size
    BY OrderedImages
<1>3. Head(SetToSeq(Images)) \in Images
    BY OrderedImages, TailFacts
<1> QED
    BY <1>1, <1>2, <1>3

LEMMA ReadFrameTyped == TypeOK /\ ReadFrame => TypeOK'
<1> SUFFICES ASSUME TypeOK, ReadFrame PROVE TypeOK'
    OBVIOUS
<1> USE DEF TypeOK, readerVars, viewerVars
<1>1. ASSUME NEW r \in BOOLEAN, Call(r) PROVE TypeOK'
    BY <1>1 DEF Call, Pointers
<1>2. CASE AtEnd
    BY <1>2 DEF AtEnd
<1>3. CASE NextPacket
    BY <1>3 DEF NextPacket, Pointers
<1>4. CASE TakeFree
    BY <1>4, TailFacts DEF TakeFree, Pointers
<1>5. CASE TakeReady
    <2>1. /\ ready' \in Seq(Pointers) /\ Len(ready') <= Size
          /\ free' \in Seq(Pointers) /\ Len(free') <= Size
        BY <1>5, RingFacts DEF TakeReady
    <2>2. frame' \in Pointers
        BY <1>5, <2>1, RingFacts DEF TakeReady
    <2> QED
        BY <1>5, <2>1, <2>2 DEF TakeReady, Pointers
<1>6. CASE Renew
    BY <1>6, NewQueue DEF Renew, Pointers
<1>7. CASE DecodeNothing
    BY <1>7, FramesAssumption DEF DecodeNothing
<1>8. CASE Decode
    <2>1. free' \in Seq(Pointers) /\ Len(free') <= Size
        BY <1>8, RingFacts DEF Decode
    <2> QED
        BY <1>8, <2>1, FramesAssumption DEF Decode
<1>9. CASE PutBack
    <2>1. free' \in Seq(Pointers) /\ Len(free') <= Size
        BY <1>9, RingFacts DEF PutBack
    <2> QED
        BY <1>9, <2>1 DEF PutBack
<1>10. CASE PutReady
    <2>1. ready' \in Seq(Pointers) /\ Len(ready') <= Size
        BY <1>10, RingFacts DEF PutReady
    <2> QED
        BY <1>10, <2>1 DEF PutReady
<1>11. CASE ReadFront
    BY <1>11, RingFacts DEF ReadFront
<1>12. CASE ShowFront
    BY <1>12 DEF ShowFront
<1> QED
    BY <1>1, <1>2, <1>3, <1>4, <1>5, <1>6, <1>7, <1>8, <1>9, <1>10, <1>11,
       <1>12 DEF ReadFrame

LEMMA GetFrameTyped == TypeOK /\ GetFrame => TypeOK'
<1> SUFFICES ASSUME TypeOK, GetFrame PROVE TypeOK'
    OBVIOUS
<1> USE DEF TypeOK, readerVars, viewerVars
<1>1. CASE Take
    BY <1>1 DEF Take, Pointers
<1>2. CASE PopReady
    <2>1. ready' \in Seq(Pointers) /\ Len(ready') <= Size
        BY <1>2, RingFacts DEF PopReady
    <2> QED
        BY <1>2, <2>1 DEF PopReady
<1>3. CASE PushFree
    <2>1. free' \in Seq(Pointers) /\ Len(free') <= Size
        BY <1>3, RingFacts DEF PushFree
    <2> QED
        BY <1>3, <2>1 DEF PushFree
<1>4. CASE GetFront
    BY <1>4, RingFacts DEF GetFront
<1>5. CASE StoreFront
    BY <1>5 DEF StoreFront
<1> QED
    BY <1>1, <1>2, <1>3, <1>4, <1>5 DEF GetFrame

LEMMA NextTyped == TypeOK /\ [Next]_vars => TypeOK'
<1> SUFFICES ASSUME TypeOK, [Next]_vars PROVE TypeOK'
    OBVIOUS
<1>1. CASE Flush
    BY <1>1, NewQueue DEF Flush, TypeOK, readerVars, viewerVars, Pointers
<1>2. CASE UNCHANGED vars
    BY <1>2 DEF vars, readerVars, viewerVars, TypeOK
<1> QED
    BY <1>1, <1>2, ReadFrameTyped, GetFrameTyped DEF Next

(***************************************************************************)
(* Every variable keeps its type: the rings hold no more than there are    *)
(* images, and a decoder is given an image to write into, whoever calls    *)
(* and however the two threads meet (ReadStreamV.cpp, lines 30 to 94 and   *)
(* 208 to 441).                                                            *)
(***************************************************************************)
THEOREM TypeCorrect == Spec => []TypeOK
<1>1. TypeOK /\ [Next]_vars => TypeOK'
    BY NextTyped
<1> QED
    BY InitTyped, <1>1, PTL DEF Spec

-----------------------------------------------------------------------------
(***************************************************************************)
(* The player.  Its video thread pops a frame only when there is one, and  *)
(* what either thread has taken from one ring it puts into a ring, so they *)
(* are never both empty.  A decoder thread that has found room has found a *)
(* free image, and nobody else takes images from there.                    *)
(***************************************************************************)
NotBothEmpty ==
    free # <<>> \/ ready # <<>> \/ viewer = "push" \/ reader = "push"

FreeForReader == reader \in {"packet", "decode"} => free # <<>>

PlayerInv ==
    Threads => /\ NotBothEmpty
               /\ FreeForReader
               /\ viewer = "pop" => ready # <<>>

LEMMA UseStays == [Next]_vars => UNCHANGED use
    BY DEF Next, vars, readerVars, viewerVars, Flush, ReadFrame, GetFrame,
           Call, AtEnd, NextPacket, TakeFree, TakeReady, Renew,
           DecodeNothing, Decode, PutBack, PutReady, ReadFront, ShowFront,
           Take, PopReady, PushFree, GetFront, StoreFront

LEMMA PlayerInit == Init => PlayerInv
    BY OrderedImages DEF Init, PlayerInv, NotBothEmpty, FreeForReader

LEMMA PushedIsNot ==
    ASSUME NEW s \in Seq(Pointers), NEW i \in Pointers
    PROVE  Pushed(s, i) # <<>>
<1>1. Len(s) < Size => Append(s, i) # <<>>
    BY AppendFacts
<1>2. ~(Len(s) < Size) => s # <<>>
    BY OrderedImages
<1> QED
    BY <1>1, <1>2 DEF Pushed

LEMMA PlayerStep ==
    ASSUME TypeOK, PlayerInv, [Next]_vars
    PROVE  PlayerInv'
<1> SUFFICES ASSUME Threads PROVE PlayerInv'
    BY UseStays DEF PlayerInv, Threads
<1> USE DEF PlayerInv, NotBothEmpty, FreeForReader, Threads, readerVars,
        viewerVars
<1>1. ASSUME NEW r \in BOOLEAN, Call(r) PROVE PlayerInv'
    <2>1. Room /\ reader = "idle" /\ viewer = "idle"
        BY <1>1 DEF Call
    <2>2. free # <<>>
        <3>1. CASE ready = <<>>
            BY <2>1, <3>1
        <3>2. CASE ready # <<>>
            <4>1. Len(ready) < Len(free) + Len(ready) - 1
                BY <2>1, <3>2 DEF Room, TypeOK
            <4>2. Len(free) # 0
                BY <4>1 DEF TypeOK
            <4> QED
                BY <4>2
        <3> QED
            BY <3>1, <3>2
    <2> QED
        BY <1>1, <2>2 DEF Call
<1>2. CASE AtEnd
    BY <1>2 DEF AtEnd
<1>3. CASE NextPacket
    BY <1>3 DEF NextPacket
<1>4. CASE TakeFree
    BY <1>4 DEF TakeFree
<1>5. CASE TakeReady
    BY <1>5 DEF TakeReady
<1>6. CASE Renew
    BY <1>6 DEF Renew
<1>7. CASE DecodeNothing
    BY <1>7 DEF DecodeNothing
<1>8. CASE Decode
    BY <1>8 DEF Decode
<1>9. CASE PutBack
    <2>1. free' # <<>>
        BY <1>9, PushedIsNot DEF PutBack, TypeOK
    <2> QED
        BY <1>9, <2>1 DEF PutBack
<1>10. CASE PutReady
    <2>1. ready' # <<>>
        BY <1>10, PushedIsNot DEF PutReady, TypeOK
    <2> QED
        BY <1>10, <2>1 DEF PutReady
<1>11. CASE ReadFront
    BY <1>11 DEF ReadFront
<1>12. CASE ShowFront
    BY <1>12 DEF ShowFront
<1>13. CASE Take
    BY <1>13 DEF Take
<1>14. CASE PopReady
    BY <1>14 DEF PopReady
<1>15. CASE PushFree
    <2>1. free' # <<>>
        BY <1>15, PushedIsNot DEF PushFree, TypeOK
    <2> QED
        BY <1>15, <2>1 DEF PushFree
<1>16. CASE GetFront
    BY <1>16 DEF GetFront
<1>17. CASE StoreFront
    BY <1>17 DEF StoreFront
<1>18. CASE Flush
    BY <1>18, OrderedImages DEF Flush
<1>19. CASE UNCHANGED vars
    BY <1>19 DEF vars
<1> QED
    BY <1>1, <1>2, <1>3, <1>4, <1>5, <1>6, <1>7, <1>8, <1>9, <1>10, <1>11,
       <1>12, <1>13, <1>14, <1>15, <1>16, <1>17, <1>18, <1>19
       DEF Next, ReadFrame, GetFrame

(***************************************************************************)
(* A decoder thread that has looked for room finds a free image for its    *)
(* frame and takes no frame back that waits to be shown, whatever the      *)
(* video thread has done since and however often their updates of m_pFrame *)
(* have crossed (aviplayth.cpp, lines 594 to 616; ReadStreamV.cpp, lines   *)
(* 283 to 299).                                                            *)
(***************************************************************************)
THEOREM RoomIsEnough == Spec => []NothingTakenBack
<1>1. PlayerInv => NothingTakenBack
    BY DEF PlayerInv, FreeForReader, NothingTakenBack
<1>2. TypeOK /\ PlayerInv /\ [Next]_vars => PlayerInv'
    BY PlayerStep
<1> QED
    BY PlayerInit, TypeCorrect, <1>1, <1>2, PTL DEF Spec

-----------------------------------------------------------------------------
(***************************************************************************)
(* One thread that leaves ReadFrame a free image.                          *)
(***************************************************************************)
Spaced == use = "spaced"

\* Of the two calls one is running at most.
OneCall == reader = "idle" \/ viewer = "idle"

\* The image that a call has taken out of one ring and not yet put into one.
Loose == IF reader = "push" THEN {frame}
         ELSE IF viewer = "push" THEN {shown} ELSE {}

\* Every image is in one place, once.
Homes == /\ Range(free) \cup Range(ready) \cup Loose = Images
         /\ Range(free) \cap Range(ready) = {}
         /\ Loose \cap (Range(free) \cup Range(ready)) = {}
         /\ Distinct(free) /\ Distinct(ready)
         /\ Len(free) + Len(ready) = IF Loose = {} THEN Size ELSE Size - 1

\* The image that is decoded into is the first free one until it is popped.
InHand == /\ reader = "packet" => free # <<>>
          /\ reader = "decode" \/ (reader = "packet" /\ frame # NoImage)
                => free # <<>> /\ frame = Head(free)

ShownInv ==
    /\ reader \in {"idle", "packet", "decode", "push"} /\ viewer \in {"idle", "pop"}
          => shown = Oldest(ready)
    /\ reader = "store" => first = Oldest(ready)
    /\ viewer = "store" => next = Oldest(ready)
    /\ viewer = "pop" => shown # NoImage

Ascending == \A i, j \in 1 .. Len(ready) :
                 i < j => content[ready[i]] < content[ready[j]]

\* The first ready frame that GetFrame has not returned.
FirstUnseen == IF viewer = "pop" THEN 2 ELSE 1

\* The ready ring is in order; what was returned comes before it, and what is
\* being pushed comes after it.
OrderInv ==
    /\ Ascending
    /\ \A i \in FirstUnseen .. Len(ready) : last < content[ready[i]]
    /\ last <= decoded
    /\ \A i \in Images : content[i] <= decoded
    /\ reader = "push" =>
         /\ content[frame] = decoded /\ last < decoded
         /\ \A i \in 1 .. Len(ready) : content[ready[i]] < decoded

PlacesInv == OneCall /\ Homes /\ InHand /\ ShownInv

LEMMA InTheirPlaces == PlacesInv => QueueInv
<1> SUFFICES ASSUME PlacesInv, Quiet PROVE OneHome /\ ShownIsOldest
    BY DEF QueueInv, OneHome, ShownIsOldest
<1>1. Loose = {}
    BY DEF Quiet, Loose
<1>2. OneHome
    BY <1>1 DEF PlacesInv, Homes, OneHome
<1>3. ShownIsOldest
    BY DEF PlacesInv, ShownInv, ShownIsOldest, Quiet
<1> QED
    BY <1>2, <1>3

\* A queue without a frame, as it is made and flushed
LEMMA EmptyQueue ==
    ASSUME free = SetToSeq(Images), ready = <<>>, reader # "push", viewer = "idle"
    PROVE  Homes
<1>1. Range(ready) = {} /\ Distinct(ready) /\ Len(ready) = 0
    BY DEF Range, Distinct
<1>2. Loose = {}
    BY DEF Loose
<1> QED
    BY <1>1, <1>2, OrderedImages DEF Homes

LEMMA PlacesInit == Init => PlacesInv
<1> SUFFICES ASSUME Init PROVE PlacesInv
    OBVIOUS
<1>1. Homes
    BY EmptyQueue DEF Init
<1> QED
    BY <1>1 DEF Init, PlacesInv, OneCall, InHand, ShownInv, Oldest

LEMMA LastInRing ==
    ASSUME NEW s \in Seq(Pointers), s # <<>>
    PROVE  Last(s) \in Range(s)
<1>1. Len(s) \in 1 .. Len(s) /\ DOMAIN s = 1 .. Len(s)
    BY TailFacts
<1> QED
    BY <1>1 DEF Range, Last

\* In the place where PutReady looks at it, the frame is not ready yet.
LEMMA PutAppends ==
    ASSUME TypeOK, PlacesInv, PutReady
    PROVE  ready' = Append(ready, frame)
<1>1. Loose = {frame}
    BY DEF PutReady, Loose
<1>2. Len(free) + Len(ready) = Size - 1
    BY <1>1 DEF PlacesInv, Homes
<1>3. frame \notin Range(ready)
    BY <1>1 DEF PlacesInv, Homes
<1> QED
    BY <1>2, <1>3, LastInRing, OrderedImages DEF PutReady, Pushed, TypeOK

LEMMA ReadFramePlaces ==
    ASSUME TypeOK, Spaced, PlacesInv, ReadFrame
    PROVE  PlacesInv'
<1> USE DEF PlacesInv, OneCall, InHand, ShownInv, readerVars, viewerVars, Spaced,
        Threads
<1>1. ASSUME NEW r \in BOOLEAN, Call(r) PROVE PlacesInv'
    <2>1. Homes'
        BY <1>1 DEF Call, Homes, Loose
    <2> QED
        BY <1>1, <2>1 DEF Call
<1>2. CASE AtEnd
    <2>1. Homes'
        BY <1>2 DEF AtEnd, Homes, Loose
    <2> QED
        BY <1>2, <2>1 DEF AtEnd
<1>3. CASE NextPacket
    <2>1. Homes'
        BY <1>3 DEF NextPacket, Homes, Loose
    <2> QED
        BY <1>3, <2>1 DEF NextPacket
<1>4. CASE TakeFree
    <2>1. Homes'
        BY <1>4 DEF TakeFree, Homes, Loose
    <2> QED
        BY <1>4, <2>1 DEF TakeFree
<1>5. CASE TakeReady
    BY <1>5 DEF TakeReady
<1>6. CASE Renew
    <2>1. free' = SetToSeq(Images) /\ ready' = <<>> /\ reader' = "decode"
          /\ viewer' = "idle" /\ frame' = Head(free') /\ shown' = NoImage
        BY <1>6 DEF Renew
    <2>2. Homes'
        <3>1. Range(<<>>) = {} /\ Distinct(<<>>) /\ Len(<<>>) = 0
            BY DEF Range, Distinct
        <3>2. Loose' = {}
            BY <2>1 DEF Loose
        <3> QED
            BY <2>1, <3>1, <3>2, OrderedImages DEF Homes
    <2> QED
        BY <2>1, <2>2, OrderedImages DEF Oldest
<1>7. CASE DecodeNothing
    <2>1. Homes'
        BY <1>7 DEF DecodeNothing, Homes, Loose
    <2> QED
        BY <1>7, <2>1 DEF DecodeNothing
<1>8. CASE Decode
    <2>1. free # <<>> /\ frame = Head(free) /\ free' = Tail(free)
          /\ Loose = {} /\ Loose' = {frame} /\ UNCHANGED ready
        BY <1>8 DEF Decode, Popped, Loose
    <2>2. Homes'
        <3>1. /\ Distinct(free') /\ Range(free') = Range(free) \ {frame}
              /\ frame \in Range(free) /\ Len(free') = Len(free) - 1
              /\ Len(free) \in Nat
            BY <2>1, TailFacts, DistinctTail DEF Homes, TypeOK
        <3>2. frame \notin Range(ready) /\ Len(ready) \in Nat
            BY <2>1, <3>1 DEF Homes, TypeOK
        <3> QED
            BY <2>1, <3>1, <3>2, OrderedImages DEF Homes
    <2> QED
        BY <1>8, <2>2 DEF Decode
<1>9. CASE PutBack
    <2>1. /\ Loose = {frame} /\ Loose' = {} /\ frame \in Images
          /\ UNCHANGED ready
        BY <1>9 DEF PutBack, Loose, TypeOK
    <2>2. Len(free) + Len(ready) = Size - 1
        BY <2>1 DEF Homes
    <2>3. free' = Append(free, frame)
        BY <1>9, <2>2, OrderedImages DEF PutBack, Pushed, TypeOK
    <2>4. frame \notin Range(free) /\ frame \in Pointers
        BY <2>1 DEF Homes, Pointers
    <2>5. Homes'
        BY <2>1, <2>2, <2>3, <2>4, AppendFacts, DistinctAppend, OrderedImages
           DEF Homes, TypeOK
    <2> QED
        BY <1>9, <2>5 DEF PutBack
<1>10. CASE PutReady
    <2>1. /\ Loose = {frame} /\ Loose' = {} /\ frame \in Images
          /\ UNCHANGED free
        BY <1>10 DEF PutReady, Loose, TypeOK
    <2>2. Len(free) + Len(ready) = Size - 1
        BY <2>1 DEF Homes
    <2>3. frame \notin Range(ready) /\ frame \in Pointers
        BY <2>1 DEF Homes, Pointers
    <2>4. ready' = Append(ready, frame)
        BY <1>10, PutAppends
    <2>5. Homes'
        BY <2>1, <2>2, <2>3, <2>4, AppendFacts, DistinctAppend, OrderedImages
           DEF Homes, TypeOK
    <2> QED
        BY <1>10, <2>5 DEF PutReady
<1>11. CASE ReadFront
    <2>1. Homes'
        BY <1>11 DEF ReadFront, Homes, Loose
    <2> QED
        BY <1>11, <2>1 DEF ReadFront
<1>12. CASE ShowFront
    <2>1. Homes'
        BY <1>12 DEF ShowFront, Homes, Loose
    <2> QED
        BY <1>12, <2>1 DEF ShowFront
<1> QED
    BY <1>1, <1>2, <1>3, <1>4, <1>5, <1>6, <1>7, <1>8, <1>9, <1>10, <1>11,
       <1>12 DEF ReadFrame

\* The frame that is returned is the one at the front of the ready ring.
LEMMA TakenIsFront ==
    ASSUME TypeOK, Spaced, PlacesInv, viewer = "pop" \/ Take
    PROVE  /\ reader = "idle" /\ shown = Oldest(ready) /\ ready # <<>>
           /\ shown = Head(ready) /\ shown \in Images
<1>1. reader = "idle"
    BY DEF PlacesInv, OneCall, Take, Alone, Spaced, Threads
<1>2. shown = Oldest(ready) /\ shown # NoImage
    BY <1>1 DEF PlacesInv, ShownInv, Take
<1> QED
    BY <1>1, <1>2 DEF Oldest, TypeOK, Pointers

LEMMA GetFramePlaces ==
    ASSUME TypeOK, Spaced, PlacesInv, GetFrame
    PROVE  PlacesInv'
<1> USE DEF PlacesInv, OneCall, InHand, ShownInv, readerVars, viewerVars, Spaced,
        Threads
<1>1. CASE Take
    <2>1. Homes'
        BY <1>1 DEF Take, Homes, Loose
    <2> QED
        BY <1>1, <2>1, TakenIsFront DEF Take
<1>2. CASE PopReady
    <2>1. reader = "idle" /\ ready # <<>> /\ shown = Head(ready)
        BY <1>2, TakenIsFront DEF PopReady
    <2>2. /\ ready' = Tail(ready) /\ Loose = {} /\ Loose' = {shown}
          /\ UNCHANGED free
        BY <1>2, <2>1 DEF PopReady, Popped, Loose
    <2>3. Homes'
        <3>1. /\ Distinct(ready') /\ Range(ready') = Range(ready) \ {shown}
              /\ shown \in Range(ready) /\ Len(ready') = Len(ready) - 1
              /\ Len(ready) \in Nat
            BY <2>1, <2>2, TailFacts, DistinctTail DEF Homes, TypeOK
        <3>2. shown \notin Range(free) /\ Len(free) \in Nat
            BY <2>2, <3>1 DEF Homes, TypeOK
        <3>3. Len(free') + Len(ready') = Size - 1
            <4>1. Len(free) + Len(ready) = Size
                BY <2>2 DEF Homes
            <4>2. Len(free') = Len(free) /\ Size \in Int
                BY <2>2, OrderedImages
            <4> QED
                BY <3>1, <3>2, <4>1, <4>2
        <3>4. Distinct(free') /\ Range(free') = Range(free)
            BY <2>2 DEF Homes
        <3> QED
            BY <2>2, <3>1, <3>2, <3>3, <3>4 DEF Homes
    <2> QED
        BY <1>2, <2>1, <2>3 DEF PopReady
<1>3. CASE PushFree
    <2>1. /\ Loose = {shown} /\ Loose' = {} /\ reader = "idle"
          /\ UNCHANGED ready
        BY <1>3 DEF PushFree, Loose
    <2>2. Len(free) + Len(ready) = Size - 1
        BY <2>1 DEF Homes
    <2>3. free' = Append(free, shown)
        BY <1>3, <2>2, OrderedImages DEF PushFree, Pushed, TypeOK
    <2>4. shown \notin Range(free) /\ shown \in Pointers
        BY <2>1 DEF Homes, Pointers
    <2>5. Homes'
        BY <2>1, <2>2, <2>3, <2>4, AppendFacts, DistinctAppend, OrderedImages
           DEF Homes, TypeOK
    <2> QED
        BY <1>3, <2>1, <2>5 DEF PushFree
<1>4. CASE GetFront
    <2>1. Homes'
        BY <1>4 DEF GetFront, Homes, Loose
    <2> QED
        BY <1>4, <2>1 DEF GetFront
<1>5. CASE StoreFront
    <2>1. Homes'
        BY <1>5 DEF StoreFront, Homes, Loose
    <2> QED
        BY <1>5, <2>1 DEF StoreFront
<1> QED
    BY <1>1, <1>2, <1>3, <1>4, <1>5 DEF GetFrame

LEMMA PlacesStep ==
    ASSUME TypeOK, Spaced, PlacesInv, [Next]_vars
    PROVE  PlacesInv'
<1>1. CASE Flush
    <2>1. /\ free' = SetToSeq(Images) /\ ready' = <<>> /\ shown' = NoImage
          /\ reader' = "idle" /\ viewer' = "idle"
        BY <1>1 DEF Flush, readerVars, viewerVars
    <2>2. Homes'
        <3>1. Range(<<>>) = {} /\ Distinct(<<>>) /\ Len(<<>>) = 0
            BY DEF Range, Distinct
        <3>2. Loose' = {}
            BY <2>1 DEF Loose
        <3> QED
            BY <2>1, <3>1, <3>2, OrderedImages DEF Homes
    <2> QED
        BY <2>1, <2>2 DEF PlacesInv, OneCall, InHand, ShownInv, Oldest
<1>2. CASE UNCHANGED vars
    BY <1>2 DEF vars, readerVars, viewerVars, PlacesInv, OneCall, Homes, Loose,
           InHand, ShownInv
<1> QED
    BY <1>1, <1>2, ReadFramePlaces, GetFramePlaces DEF Next

-----------------------------------------------------------------------------
(* The order of the frames *)

LEMMA OrderInit == Init => OrderInv
<1> SUFFICES ASSUME Init PROVE OrderInv
    OBVIOUS
<1>1. Len(ready) = 0 /\ FirstUnseen = 1
    BY DEF Init, FirstUnseen
<1>2. last <= decoded /\ reader # "push"
    BY DEF Init
<1>3. \A i \in Images : content[i] <= decoded
    BY DEF Init
<1> QED
    BY <1>1, <1>2, <1>3 DEF OrderInv, Ascending

\* A step that changes nothing the order rests upon
LEMMA OrderStays ==
    ASSUME OrderInv, UNCHANGED <<ready, content, last, decoded, viewer>>,
           reader' # "push"
    PROVE  OrderInv'
    BY DEF OrderInv, Ascending, FirstUnseen

\* An empty ring is in order.
LEMMA OrderOfNone ==
    ASSUME TypeOK, OrderInv, ready' = <<>>,
           UNCHANGED <<content, last, decoded, viewer>>, reader' # "push"
    PROVE  OrderInv'
    BY DEF OrderInv, Ascending, FirstUnseen

\* Decoding makes a frame that is newer than any other, in an image that is
\* not ready.
LEMMA DecodedLast ==
    ASSUME TypeOK, Spaced, PlacesInv, OrderInv, DecodeNothing \/ Decode
    PROVE  OrderInv'
<1>1. /\ frame \in Images /\ decoded \in Nat /\ decoded' = decoded + 1
      /\ content' = [content EXCEPT ![frame] = decoded']
      /\ UNCHANGED <<ready, last, viewer>>
    BY DEF DecodeNothing, Decode, TypeOK, viewerVars
<1>2. frame \in Range(free)
    <2>1. free # <<>> /\ frame = Head(free)
        BY DEF PlacesInv, InHand, DecodeNothing, Decode
    <2> QED
        BY <2>1, TailFacts DEF TypeOK
<1>3. \A i \in 1 .. Len(ready) : ready[i] \in Images /\ ready[i] # frame
    <2>1. \A i \in 1 .. Len(ready) : ready[i] \in Range(ready)
        BY DEF Range, TypeOK
    <2> QED
        BY <1>2, <2>1 DEF PlacesInv, Homes
<1>4. /\ \A i \in Images : content[i] \in Nat /\ content'[i] \in Nat
      /\ \A i \in Images : i # frame => content'[i] = content[i]
      /\ content'[frame] = decoded'
    BY <1>1 DEF TypeOK
<1>5. \A i \in 1 .. Len(ready) : content'[ready[i]] = content[ready[i]]
    BY <1>3, <1>4
<1>6. last \in Nat /\ last <= decoded
    BY DEF OrderInv, TypeOK
<1>7. \A i \in Images : content[i] <= decoded
    BY DEF OrderInv
<1>8. Ascending'
    BY <1>1, <1>5 DEF OrderInv, Ascending
<1>9. \A i \in FirstUnseen' .. Len(ready') : last' < content'[ready'[i]]
    BY <1>1, <1>5 DEF OrderInv, FirstUnseen
<1>10. \A i \in Images : content'[i] <= decoded'
    BY <1>1, <1>4, <1>7
<1>11. \A i \in 1 .. Len(ready') : content'[ready'[i]] < decoded'
    <2>1. \A i \in Images : content[i] < decoded'
        BY <1>1, <1>4, <1>7
    <2> QED
        BY <1>1, <1>3, <1>5, <2>1
<1>12. last' <= decoded' /\ last' < decoded'
    BY <1>1, <1>6
<1>13. UNCHANGED frame
    BY DEF DecodeNothing, Decode
<1> QED
    BY <1>4, <1>8, <1>9, <1>10, <1>11, <1>12, <1>13 DEF OrderInv

LEMMA PutLast ==
    ASSUME TypeOK, Spaced, PlacesInv, OrderInv, PutReady
    PROVE  OrderInv'
<1>1. /\ ready' = Append(ready, frame) /\ reader = "push" /\ reader' = "front"
      /\ UNCHANGED <<content, last, decoded, viewer>>
    BY PutAppends DEF PutReady, viewerVars
<1>2. viewer = "idle" /\ FirstUnseen = 1 /\ FirstUnseen' = 1
    BY <1>1 DEF PlacesInv, OneCall, FirstUnseen
<1>3. /\ content[frame] = decoded /\ last < decoded
      /\ \A i \in 1 .. Len(ready) : content[ready[i]] < decoded
    BY <1>1 DEF OrderInv
<1>4. /\ Len(ready') = Len(ready) + 1 /\ Len(ready) \in Nat
      /\ \A i \in 1 .. Len(ready) : ready'[i] = ready[i]
      /\ ready'[Len(ready) + 1] = frame
    BY <1>1, AppendFacts DEF TypeOK
<1>5. \A i \in 1 .. Len(ready') :
          i \in 1 .. Len(ready) \/ (i = Len(ready) + 1 /\ ready'[i] = frame)
    BY <1>4
<1>6. Ascending'
    BY <1>1, <1>3, <1>4, <1>5 DEF OrderInv, Ascending
<1>7. \A i \in FirstUnseen' .. Len(ready') : last' < content'[ready'[i]]
    BY <1>1, <1>2, <1>3, <1>4, <1>5 DEF OrderInv
<1> QED
    BY <1>1, <1>6, <1>7 DEF OrderInv

\* The frame that is returned is later than the one before and earlier than
\* all that stay.
LEMMA TakesNext ==
    ASSUME TypeOK, Spaced, PlacesInv, OrderInv, Take
    PROVE  last' > last /\ OrderInv'
<1>1. /\ reader = "idle" /\ ready # <<>> /\ shown = ready[1] /\ shown \in Images
      /\ Len(ready) \in Nat \ {0}
    BY TakenIsFront, TailFacts DEF TypeOK
<1>2. /\ viewer = "idle" /\ viewer' = "pop" /\ last' = content[ready[1]]
      /\ UNCHANGED <<ready, content, decoded, reader>>
    BY <1>1 DEF Take, readerVars
<1>3. FirstUnseen = 1 /\ FirstUnseen' = 2
    BY <1>2 DEF FirstUnseen
<1>4. last < content[ready[1]] /\ content[ready[1]] <= decoded
    BY <1>1, <1>3 DEF OrderInv
<1>5. \A i \in 2 .. Len(ready) : content[ready[1]] < content[ready[i]]
    BY <1>1 DEF OrderInv, Ascending
<1>6. OrderInv'
    BY <1>1, <1>2, <1>3, <1>4, <1>5 DEF OrderInv, Ascending
<1>7. last' > last
    BY <1>1, <1>2, <1>4 DEF TypeOK
<1> QED
    BY <1>6, <1>7

LEMMA PopKeepsOrder ==
    ASSUME TypeOK, Spaced, PlacesInv, OrderInv, PopReady
    PROVE  OrderInv'
<1>1. reader = "idle" /\ ready # <<>>
    BY TakenIsFront DEF PopReady
<1>2. /\ ready' = Tail(ready) /\ viewer = "pop" /\ viewer' = "push"
      /\ UNCHANGED <<content, last, decoded, reader>>
    BY <1>1 DEF PopReady, Popped, readerVars
<1>3. /\ Len(ready') = Len(ready) - 1 /\ Len(ready) \in Nat \ {0}
      /\ \A i \in 1 .. Len(ready) - 1 : ready'[i] = ready[i + 1]
    BY <1>1, <1>2, TailFacts DEF TypeOK
<1>4. FirstUnseen = 2 /\ FirstUnseen' = 1
    BY <1>2 DEF FirstUnseen
<1>5. \A i \in 1 .. Len(ready') : ready'[i] = ready[i + 1] /\ i + 1 \in 2 .. Len(ready)
    BY <1>3
<1>6. Ascending'
    BY <1>2, <1>3, <1>5 DEF OrderInv, Ascending
<1>7. \A i \in FirstUnseen' .. Len(ready') : last' < content'[ready'[i]]
    BY <1>2, <1>4, <1>5 DEF OrderInv
<1> QED
    BY <1>1, <1>2, <1>6, <1>7 DEF OrderInv

LEMMA OrderStep ==
    ASSUME TypeOK, Spaced, PlacesInv, OrderInv, [Next]_vars
    PROVE  OrderInv'
<1> USE DEF readerVars, viewerVars
<1>1. ASSUME NEW r \in BOOLEAN, Call(r) PROVE OrderInv'
    BY <1>1, OrderStays DEF Call
<1>2. CASE AtEnd \/ NextPacket \/ TakeFree
    BY <1>2, OrderStays DEF AtEnd, NextPacket, TakeFree
<1>3. CASE TakeReady
    BY <1>3 DEF TakeReady, PlacesInv, InHand
<1>4. CASE Renew
    BY <1>4, OrderOfNone DEF Renew
<1>5. CASE PutBack
    BY <1>5, OrderStays DEF PutBack
<1>6. CASE ReadFront \/ ShowFront
    BY <1>6, OrderStays DEF ReadFront, ShowFront
<1>7. CASE PushFree \/ GetFront \/ StoreFront
    <2>1. reader = "idle" /\ viewer # "pop" /\ viewer' # "pop"
        BY <1>7 DEF PushFree, GetFront, StoreFront, PlacesInv, OneCall
    <2>2. UNCHANGED <<ready, content, last, decoded, reader>>
        BY <1>7 DEF PushFree, GetFront, StoreFront
    <2> QED
        BY <2>1, <2>2 DEF OrderInv, Ascending, FirstUnseen
<1>8. CASE Flush
    BY <1>8, OrderOfNone DEF Flush
<1>9. CASE UNCHANGED vars
    BY <1>9 DEF vars, OrderInv, Ascending, FirstUnseen
<1> QED
    BY <1>1, <1>2, <1>3, <1>4, <1>5, <1>6, <1>7, <1>8, <1>9, DecodedLast,
       PutLast, TakesNext, PopKeepsOrder DEF Next, ReadFrame, GetFrame

-----------------------------------------------------------------------------
SpacedInv == Spaced => PlacesInv /\ OrderInv

LEMMA SpacedInvariant == Spec => []SpacedInv
<1>1. Init => SpacedInv
    BY PlacesInit, OrderInit DEF SpacedInv
<1>2. TypeOK /\ SpacedInv /\ [Next]_vars => SpacedInv'
    BY PlacesStep, OrderStep, UseStays DEF SpacedInv, Spaced
<1> QED
    BY TypeCorrect, <1>1, <1>2, PTL DEF Spec

(***************************************************************************)
(* One thread that leaves ReadFrame a free image: between its calls every  *)
(* image is in one of the rings, once, and m_pFrame is the oldest frame of *)
(* the ready ring, after every order of reading, showing, flushing and     *)
(* changing the format (ReadStreamV.cpp, lines 141 to 441).                *)
(***************************************************************************)
THEOREM QueueCorrect == Spec => []QueueInv
<1>1. SpacedInv => QueueInv
    BY InTheirPlaces DEF SpacedInv, Spaced, QueueInv, OneHome, ShownIsOldest
<1> QED
    BY SpacedInvariant, <1>1, PTL

(***************************************************************************)
(* And it gets the frames in the order of the stream, none of them twice   *)
(* (ReadStreamV.cpp, lines 208 to 232).                                    *)
(***************************************************************************)
THEOREM FramesInOrder == Spec => SequentialIfSpaced
<1>1. TypeOK /\ SpacedInv /\ [Next]_vars
          => [use = "spaced" /\ Returns => last' > last]_vars
    <2> SUFFICES ASSUME TypeOK, SpacedInv, Next, Spaced, Returns
                 PROVE  last' > last
        BY DEF Spaced, Returns, vars, viewerVars
    <2>1. Take
        BY DEF Returns, Next, viewerVars, Flush, ReadFrame, GetFrame, Call,
               AtEnd, NextPacket, TakeFree, TakeReady, Renew, DecodeNothing,
               Decode, PutBack, PutReady, ReadFront, ShowFront, PopReady,
               PushFree, GetFront, StoreFront
    <2> QED
        BY <2>1, TakesNext DEF SpacedInv
<1> QED
    BY TypeCorrect, SpacedInvariant, <1>1, PTL DEF Spec, SequentialIfSpaced
=============================================================================

----------------------------- MODULE VideoQueue -----------------------------
(***************************************************************************)
(* The decoded frames of a video stream: class VideoQueue and the calls    *)
(* ReadFrame, GetFrame and Flush of class ReadStreamV                      *)
(* (src/lib/aviread/ReadStreamV.cpp).  The images go round between two     *)
(* rings, one of free images and one of decoded ones; m_pFrame is the next *)
(* to show.                                                                *)
(*                                                                         *)
(* The variable use says who calls.  "spaced" and "eager": one thread calls *)
(* ReadFrame and GetFrame in any order ("direct unbuffered mode", and       *)
(* programs without a player), spaced so that ReadFrame has a free image,   *)
(* or not.  "player": the player's decoder thread calls ReadFrame and its   *)
(* video thread GetFrame; the queue mutex covers GetFrame, but of the       *)
(* decoder's work only the look at the number of ready frames.              *)
(*                                                                         *)
(* Decoders are those that decode into the image they are given and return *)
(* it, or nothing: all but libffmpeg's direct rendering.                   *)
(***************************************************************************)
EXTENDS Integers, SequencesExt

CONSTANTS
    Images,     \* the images of the queue, m_uiQueueSize of them
    NoImage,    \* the null pointer
    Uses,       \* the ways the stream is used
    MaxFrames   \* bound: frames decoded

ASSUME ImagesAssumption == IsFiniteSet(Images) /\ Images # {} /\ NoImage \notin Images
ASSUME UsesAssumption == Uses \subseteq {"spaced", "eager", "player"}
ASSUME FramesAssumption == MaxFrames \in Nat

VARIABLES
    use,        \* how the stream is used; never changes
    free,       \* m_Free
    ready,      \* m_Ready
    shown,      \* m_pFrame
    content,    \* content[i]: number of the frame decoded last into image i
    decoded,    \* number of the frame decoded last
    reader,     \* where ReadFrame is
    frame,      \* its pFrame
    render,     \* its argument
    first,      \* what its FrontReady() returned
    viewer,     \* where GetFrame is
    next,       \* what its FrontReady() returned
    last        \* number of the frame last returned by GetFrame

readerVars == <<use, reader, frame, render, first, content, decoded>>
viewerVars == <<use, viewer, next, last>>
vars == <<free, ready, shown, readerVars, viewerVars>>

Size == Cardinality(Images)

Threads == use = "player"

\* Flush() of a new queue pushes all its images.
Init == /\ use \in Uses
        /\ free = SetToSeq(Images)
        /\ ready = <<>>
        /\ shown = NoImage
        /\ content = [i \in Images |-> 0]
        /\ decoded = 0
        /\ reader = "idle" /\ frame = NoImage /\ render = TRUE /\ first = NoImage
        /\ viewer = "idle" /\ next = NoImage
        /\ last = 0

\* FrontFree() and FrontReady()
Oldest(ring) == IF ring = <<>> THEN NoImage ELSE Head(ring)

\* PopFree() and PopReady()
Popped(ring) == IF ring = <<>> THEN ring ELSE Tail(ring)

\* PushFree() and PushReady()
Pushed(ring, i) == IF Len(ring) < Size THEN Append(ring, i) ELSE ring

-----------------------------------------------------------------------------
(* ReadFrame *)

\* Slip: the decoder thread stops one frame too late.
RoomForOneMore == Len(ready) <= Size

\* "do not stop with one-buffer"; bs is the size of both rings.
Room == ~(Len(ready) >= Len(free) + Len(ready) - 1 /\ ready # <<>>)

Call(r) == /\ reader = "idle"
           /\ decoded < MaxFrames
           /\ viewer = "idle"
           /\ \/ Threads /\ Room /\ r
              \/ use = "spaced" /\ free # <<>>
              \/ use = "eager"
           /\ render' = r
           /\ frame' = NoImage
           /\ reader' = "packet"
           /\ UNCHANGED <<free, ready, shown, first, content, decoded, viewerVars>>

\* ReadPacket has no more packets.
AtEnd == /\ reader = "packet"
         /\ reader' = "idle"
         /\ UNCHANGED <<free, ready, shown, frame, render, first, content,
                        decoded, viewerVars>>

\* Slip: the image is taken to be there already.
DecodeAnyway == /\ reader = "packet"
                /\ reader' = "decode"
                /\ UNCHANGED <<free, ready, shown, frame, render, first, content,
                               decoded, viewerVars>>

\* A packet for the image that a packet before it was decoded into.
NextPacket == /\ reader = "packet" /\ frame # NoImage
              /\ reader' = "decode"
              /\ UNCHANGED <<free, ready, shown, frame, render, first, content,
                             decoded, viewerVars>>

\* The first free image.
TakeFree == /\ reader = "packet" /\ frame = NoImage
            /\ free # <<>>
            /\ frame' = Head(free)
            /\ reader' = IF frame' = NoImage THEN "idle" ELSE "decode"
            /\ UNCHANGED <<free, ready, shown, render, first, content, decoded,
                           viewerVars>>

\* "NO FREE FRAME": give up the oldest ready frame.
TakeReady == /\ reader = "packet" /\ frame = NoImage
             /\ free = <<>>
             /\ ready' = Popped(ready)
             /\ free' = Pushed(free, Oldest(ready))
             /\ frame' = Oldest(free')
             /\ reader' = IF frame' = NoImage THEN "idle" ELSE "decode"
             /\ UNCHANGED <<shown, render, first, content, decoded, viewerVars>>

\* The image is of another format than the decoder's: a new queue.
Renew == /\ reader = "packet" /\ frame = NoImage
         /\ ~Threads
         /\ free' = SetToSeq(Images)
         /\ ready' = <<>>
         /\ shown' = NoImage
         /\ frame' = Head(free')
         /\ reader' = "decode"
         /\ UNCHANGED <<render, first, content, decoded, viewerVars>>

\* DecodeFrame writes into the image, but gives no picture: next packet.
DecodeNothing == /\ reader = "decode"
                 /\ decoded < MaxFrames
                 /\ decoded' = decoded + 1
                 /\ content' = [content EXCEPT ![frame] = decoded']
                 /\ reader' = "packet"
                 /\ UNCHANGED <<free, ready, shown, frame, render, first, viewerVars>>

Decode == /\ reader = "decode"
          /\ decoded < MaxFrames
          /\ decoded' = decoded + 1
          /\ content' = [content EXCEPT ![frame] = decoded']
          /\ free' = Popped(free)
          /\ reader' = "push"
          /\ UNCHANGED <<ready, shown, frame, render, first, viewerVars>>

\* A picture that is not to be rendered.
PutBack == /\ reader = "push" /\ ~render
           /\ free' = Pushed(free, frame)
           /\ reader' = "idle"
           /\ UNCHANGED <<ready, shown, frame, render, first, content, decoded,
                          viewerVars>>

PutReady == /\ reader = "push" /\ render
            /\ ready' = IF ready # <<>> /\ Last(ready) = frame THEN ready
                        ELSE Pushed(ready, frame)
            /\ reader' = "front"
            /\ UNCHANGED <<free, shown, frame, render, first, content, decoded,
                           viewerVars>>

ReadFront == /\ reader = "front"
             /\ first' = Oldest(ready)
             /\ reader' = "store"
             /\ UNCHANGED <<free, ready, shown, frame, render, content, decoded,
                            viewerVars>>

\* Slip: the new frame is the next to show.
ShowNewest == /\ reader = "store"
              /\ shown' = frame
              /\ reader' = "idle"
              /\ UNCHANGED <<free, ready, frame, render, first, content, decoded,
                             viewerVars>>

ShowFront == /\ reader = "store"
             /\ shown' = first
             /\ reader' = "idle"
             /\ UNCHANGED <<free, ready, frame, render, first, content, decoded,
                            viewerVars>>

ReadFrame == \/ \E r \in BOOLEAN : Call(r)
             \/ AtEnd \/ NextPacket \/ TakeFree \/ TakeReady \/ Renew
             \/ DecodeNothing \/ Decode \/ PutBack
             \/ PutReady \/ ReadFront \/ ShowFront

-----------------------------------------------------------------------------
(* GetFrame.  Its call of ReadFrame when there is nothing to show is the    *)
(* same as a call of ReadFrame before it.                                   *)

\* The other call of the same thread is over.
Alone == Threads \/ reader = "idle"

\* The video thread has looked at GetBuffering() first.
Take == /\ viewer = "idle" /\ Alone
        /\ Threads => ready # <<>>
        /\ shown # NoImage
        /\ last' = content[shown]
        /\ viewer' = "pop"
        /\ UNCHANGED <<free, ready, shown, readerVars, next>>

PopReady == /\ viewer = "pop"
            /\ ready' = Popped(ready)
            /\ viewer' = "push"
            /\ UNCHANGED <<free, shown, readerVars, next, last>>

\* The image is free while its caller uses it.
PushFree == /\ viewer = "push"
            /\ free' = Pushed(free, shown)
            /\ viewer' = "front"
            /\ UNCHANGED <<ready, shown, readerVars, next, last>>

GetFront == /\ viewer = "front"
            /\ next' = Oldest(ready)
            /\ viewer' = "store"
            /\ UNCHANGED <<free, ready, shown, readerVars, last>>

StoreFront == /\ viewer = "store"
              /\ shown' = next
              /\ viewer' = "idle"
              /\ UNCHANGED <<free, ready, readerVars, next, last>>

GetFrame == Take \/ PopReady \/ PushFree \/ GetFront \/ StoreFront

-----------------------------------------------------------------------------
\* Slip: m_pFrame is left alone.
FlushRingsOnly == /\ reader = "idle" /\ viewer = "idle"
                  /\ free' = SetToSeq(Images)
                  /\ ready' = <<>>
                  /\ UNCHANGED <<shown, readerVars, viewerVars>>

\* A seek, or another SetBuffering: neither call is running.
Flush == /\ reader = "idle" /\ viewer = "idle"
         /\ free' = SetToSeq(Images)
         /\ ready' = <<>>
         /\ shown' = NoImage
         /\ UNCHANGED <<readerVars, viewerVars>>

Next == ReadFrame \/ GetFrame \/ Flush

Spec == Init /\ [][Next]_vars

-----------------------------------------------------------------------------
(* Properties *)

Pointers == Images \cup {NoImage}

\* Type invariant: the rings hold image pointers, no more than there are images
\* (the sizes of ReadStreamV's m_Free and m_Ready), and a decoder always has an
\* image to write into.
TypeOK == /\ use \in Uses
          /\ free \in Seq(Pointers) /\ Len(free) <= Size
          /\ ready \in Seq(Pointers) /\ Len(ready) <= Size
          /\ shown \in Pointers
          /\ content \in [Images -> 0 .. MaxFrames]
          /\ decoded \in 0 .. MaxFrames
          /\ reader \in {"idle", "packet", "decode", "push", "front", "store"}
          /\ frame \in Pointers
          /\ reader \in {"decode", "push"} => frame \in Images
          /\ render \in BOOLEAN
          /\ first \in Pointers
          /\ viewer \in {"idle", "pop", "push", "front", "store"}
          /\ next \in Pointers
          /\ last \in 0 .. MaxFrames

Quiet == reader \in {"idle", "packet", "decode"} /\ viewer = "idle"

\* Between ReadFrame and GetFrame every image is in one of the two rings, once,
\* as long as ReadFrame finds a free one.
OneHome ==
    use = "spaced" /\ Quiet
          => /\ Len(free) + Len(ready) = Size
             /\ Range(free) \cup Range(ready) = Images

\* m_pFrame, which GetFrame returns, is the oldest frame in the ready ring;
\* nothing is shown from the free ring.
ShownIsOldest == use = "spaced" /\ Quiet => shown = Oldest(ready)

\* The two rings and m_pFrame agree, after every order of the calls.
QueueInv == OneHome /\ ShownIsOldest

\* A decoder thread that has looked for room never takes a frame back that is
\* waiting to be shown, whatever the video thread has done since.
NothingTakenBack ==
    Threads /\ reader = "packet" /\ frame = NoImage => free # <<>>

\* IReadStream "provides means of sequential access": no frame is returned by
\* GetFrame twice, or after a later one.
Returns == viewer # "pop" /\ viewer' = "pop"
Sequential == [][ Returns => last' > last ]_vars

\* That much holds for one thread that gives ReadFrame a free image.
SequentialIfSpaced == [][ use = "spaced" /\ Returns => last' > last ]_vars
=============================================================================

------------------------ MODULE PlayerThreadsProofs ------------------------
(***************************************************************************)
(* The locks of the player, for every clip, queue and way its threads are  *)
(* woken, when the user's first call is Start (StartFirst): before that    *)
(* there are no threads, and a lock does not take their mutexes.           *)
(*                                                                         *)
(* The argument: where a thread is tells which mutexes it has (MutexInv);  *)
(* where the caller is, how deep it has locked and which mutexes it has go *)
(* together (LockInv, CallInv).  Who has a thread's mutex therefore has    *)
(* the thread parked, and what the calls change is safe from it            *)
(* (ThreadInv).                                                            *)
(***************************************************************************)
EXTENDS PlayerThreads, TLAPS

\* Where a thread is without its mutex, with the queue's, with the decoder's.
Away == {"none", "outside", "hung", "resumed", "sleep", "awake"}
WithQueue == {"fetch", "fetched", "drop", "dropped", "seek"}
WithDecoder == {"requeue", "seek"}
InDropFrame == {"drop", "stopdecoder", "requeue", "seek", "dropped"}

MutexInv ==
    /\ \A t \in Threads : holder[t] = t <=> pc[t] \notin Away
    /\ \A t \in Threads : holder["queue"] = t <=> pc[t] \in WithQueue
    /\ \A t \in Droppers : holder["decoder"] = t <=> pc[t] \in WithDecoder
    /\ \A m \in {"video", "audio"} : holder[m] \in {"none", "api", m}

\* The caller has locked the threads completely, or not at all.
Between == {"idle", "locked", "start", "release", "crashed"}

LockInv ==
    /\ hangup <=> lockCount > 0
    /\ api \in Between =>
          /\ lockCount <= IF api \in {"locked", "crashed"} THEN 3 ELSE 2
          /\ Held = (IF lockCount > 0 THEN LockSet ELSE {}) \cup Orphans
    /\ api \in Between /\ constructed => (initialized <=> lockCount = 0)
    /\ api = "lock" => /\ lockCount = 1
                       /\ Orphans \subseteq Held
                       /\ Held \subseteq LockSet \cup Orphans
                       /\ ~(LockSet \subseteq Held)
    /\ api \in {"start", "locked"} => lockCount > 0
    /\ api = "unlock" => /\ lockCount = 0 /\ initialized
                         /\ Orphans \subseteq Held
                         /\ Held \subseteq LockSet \cup Orphans
                         /\ "queue" \notin Held
    /\ api \in {"join", "gone"} => lockCount = 0 /\ Held = Orphans

\* Which calls are running where, and with which locks.
CallInv ==
    /\ ~constructed => /\ api = "idle" /\ lockCount = 0
                       /\ ~initialized /\ ~paused /\ ~lost
                       /\ \A t \in Threads : pc[t] = "none"
    /\ paused => \/ api = "idle" /\ lockCount = 1
                 \/ api = "locked" /\ lockCount = 2
                 \/ api = "crashed"
    /\ lost => HasVideo
    /\ api = "locked" /\ call = "Pause" => lockCount = 1
    /\ api = "locked" /\ call \in {"Stop", "Delete"}
          => lockCount = 1 \/ (paused /\ lockCount = 2)
    /\ call = "Delete" => api \notin {"idle", "start"}
    /\ quit <=> call = "Delete" /\ api \notin {"lock", "locked"}

\* A player that is being deleted has no thread at work; a thread that was
\* hung up is so still, or its broadcast is to come.
ThreadInv ==
    /\ \A t \in Threads : quit => pc[t] \in Parked \cup {"check"}
    /\ \A t \in Threads : pc[t] = "exit" => quit
    /\ \A t \in Threads : pc[t] = "hung" => hangup \/ holder[t] = "api"
    /\ RendererAlive
    /\ "audio" \in Threads /\ pc["audio"] \in InDropFrame => HasVideo
    /\ "decoder" \in Threads /\ pc["decoder"] = "read" => ready <= Buffers - 2

IInv == TypeOK /\ MutexInv /\ LockInv /\ CallInv /\ ThreadInv

-----------------------------------------------------------------------------
LEMMA ThreadNames ==
    /\ Threads \subseteq {"video", "decoder", "audio"}
    /\ Threads \subseteq Mutexes
    /\ Droppers \subseteq {"video", "audio"} /\ Droppers \subseteq Threads
BY DEF Threads, Mutexes, Droppers

-----------------------------------------------------------------------------
(* MutexInv, thread by thread *)

LEMMA CommonMutexes ==
    ASSUME TypeOK, MutexInv, NEW t \in Threads,
           \/ Enter(t) \/ CheckSync(t) \/ Resume(t) \/ LeaveQueue(t)
           \/ SpuriousWakeup(t)
    PROVE  MutexInv' /\ Held' = Held
<1> USE ThreadNames
    DEF Held, MutexInv, Away, WithQueue, WithDecoder, TypeOK, Go, Take, Free,
        Release
<1>1. CASE Enter(t)
    BY <1>1 DEF Enter
<1>2. CASE CheckSync(t)
    BY <1>2 DEF CheckSync, Mutexes
<1>3. CASE Resume(t)
    BY <1>3 DEF Resume
<1>4. CASE LeaveQueue(t)
    BY <1>4 DEF LeaveQueue
<1>5. CASE SpuriousWakeup(t)
    BY <1>5 DEF SpuriousWakeup
<1> QED
    BY <1>1, <1>2, <1>3, <1>4, <1>5

LEMMA DropFrameMutexes ==
    ASSUME TypeOK, MutexInv, NEW t \in Droppers, DropFrame(t)
    PROVE  MutexInv' /\ Held' = Held
<1> USE ThreadNames
    DEF Held, MutexInv, Away, WithQueue, WithDecoder, TypeOK, Go, Take, Free,
        Release
<1>1. CASE DropReady(t)
    BY <1>1 DEF DropReady
<1>2. CASE DropSeek(t)
    BY <1>2 DEF DropSeek, Mutexes
<1>3. CASE StopDecoder(t)
    BY <1>3 DEF StopDecoder, Mutexes
<1>4. CASE LockQueueAgain(t)
    BY <1>4 DEF LockQueueAgain, LockQueue, Mutexes
<1>5. CASE SeekDropped(t)
    BY <1>5 DEF SeekDropped, Resumed, Mutexes
<1>6. CASE EndDrop(t)
    BY <1>6 DEF EndDrop, Notify, Mutexes
<1> QED
    BY <1>1, <1>2, <1>3, <1>4, <1>5, <1>6 DEF DropFrame

LEMMA VideoMutexes ==
    ASSUME TypeOK, MutexInv, "video" \in Threads, Video
    PROVE  MutexInv' /\ Held' = Held
<1> USE ThreadNames
    DEF Held, MutexInv, Away, WithQueue, WithDecoder, TypeOK, Go, Take, Free,
        Release, Mutexes
<1>1. CASE VideoWait
    BY <1>1 DEF VideoWait
<1>2. CASE VideoSync
    BY <1>2 DEF VideoSync
<1>3. CASE VideoDue
    BY <1>3 DEF VideoDue
<1>4. CASE VideoLocksQueue
    BY <1>4 DEF VideoLocksQueue, LockQueue
<1>5. CASE VideoSleeps
    BY <1>5 DEF VideoSleeps, SleepOnQueue, Notify
<1>6. CASE Fetch
    BY <1>6 DEF Fetch
<1>7. CASE Drawn
    BY <1>7 DEF Drawn, LockQueue
<1>8. CASE Fetched
    BY <1>8 DEF Fetched
<1>9. CASE DropFrame("video")
    <2>1. "video" \in Droppers
        BY DEF Droppers
    <2> QED
        BY <1>9, <2>1, DropFrameMutexes
<1> QED
    BY <1>1, <1>2, <1>3, <1>4, <1>5, <1>6, <1>7, <1>8, <1>9 DEF Video

LEMMA AudioMutexes ==
    ASSUME TypeOK, MutexInv, "audio" \in Threads, Audio
    PROVE  MutexInv' /\ Held' = Held
<1> USE ThreadNames
    DEF Held, MutexInv, Away, WithQueue, WithDecoder, TypeOK, Go, Take, Free,
        Release, Mutexes
<1>1. CASE AudioWithoutRenderer
    BY <1>1 DEF AudioWithoutRenderer
<1>2. CASE AudioBody
    BY <1>2 DEF AudioBody
<1>3. CASE Extract
    BY <1>3 DEF Extract
<1>4. CASE DropFrame("audio")
    <2>1. "audio" \in Droppers
        BY DEF Droppers
    <2> QED
        BY <1>4, <2>1, DropFrameMutexes
<1> QED
    BY <1>1, <1>2, <1>3, <1>4 DEF Audio

LEMMA DecoderMutexes ==
    ASSUME TypeOK, MutexInv, "decoder" \in Threads, Decoder
    PROVE  MutexInv' /\ Held' = Held
<1> USE ThreadNames
    DEF Held, MutexInv, Away, WithQueue, WithDecoder, TypeOK, Go, Take, Free,
        Release, Mutexes, Droppers
<1>1. CASE DecoderWait
    BY <1>1 DEF DecoderWait
<1>2. CASE DecoderDue
    BY <1>2 DEF DecoderDue
<1>3. CASE DecoderLocksQueue
    BY <1>3 DEF DecoderLocksQueue, LockQueue
<1>4. CASE DecoderSleeps
    BY <1>4 DEF DecoderSleeps, SleepOnQueue, Notify
<1>5. CASE DecoderMayRead
    BY <1>5 DEF DecoderMayRead
<1>6. CASE ReadFrame
    BY <1>6 DEF ReadFrame
<1>7. CASE Announce
    BY <1>7 DEF Announce, Notify
<1> QED
    BY <1>1, <1>2, <1>3, <1>4, <1>5, <1>6, <1>7 DEF Decoder

-----------------------------------------------------------------------------
(* What the caller locks and unlocks *)

LEMMA SameSequence ==
    ASSUME NEW S, NEW s \in Seq(S), NEW r \in Seq(S), Len(s) = Len(r),
           \A i \in 1 .. Len(s) : s[i] = r[i]
    PROVE  s = r
OBVIOUS

LEMMA TwoAndTwo ==
    ASSUME NEW S, NEW a \in S, NEW b \in S, NEW c \in S, NEW d \in S
    PROVE  <<a, b>> \o <<c, d>> = <<a, b, c, d>>
<1> DEFINE s == <<a, b>> \o <<c, d>>
           r == <<a, b, c, d>>
<1>1. <<a, b>> \in Seq(S) /\ <<c, d>> \in Seq(S)
      /\ r \in Seq(S) /\ Len(r) = 4
    OBVIOUS
<1>2. s \in Seq(S) /\ Len(s) = 4
    BY <1>1
<1>3. \A i \in 1 .. 4 : s[i] = r[i]
    BY <1>1
<1> HIDE DEF s, r
<1>4. s = r
    BY <1>1, <1>2, <1>3, SameSequence
<1> QED
    BY <1>4 DEF s, r

LEMMA LockSetIs ==
    LockSet = IF VideoOpen THEN Mutexes ELSE {"audio", "queue"}
<1>1. CASE VideoOpen
    <2>1. LockOrder = <<"video", "decoder">> \o <<"audio", "queue">>
        BY <1>1 DEF LockOrder
    <2>2. LockOrder = <<"video", "decoder", "audio", "queue">>
        <3>1. /\ "video" \in Mutexes /\ "decoder" \in Mutexes
              /\ "audio" \in Mutexes /\ "queue" \in Mutexes
            BY DEF Mutexes
        <3>2. <<"video", "decoder">> \o <<"audio", "queue">>
                = <<"video", "decoder", "audio", "queue">>
            BY <3>1, TwoAndTwo
        <3> QED
            BY <2>1, <3>2
    <2> QED
        BY <1>1, <2>2 DEF LockSet, Mutexes
<1>2. CASE ~VideoOpen
    <2>1. LockOrder = <<"audio", "queue">>
        BY <1>2 DEF LockOrder
    <2> QED
        BY <1>2, <2>1 DEF LockSet
<1> QED
    BY <1>1, <1>2

\* What a call takes with the mutexes left locked is all there is to take.
LEMMA OrphansAside ==
    ASSUME CallInv
    PROVE  /\ LockSet \cap Orphans = {} /\ "queue" \in LockSet \ Orphans
           /\ LockSet \cup Orphans = IF HasVideo /\ constructed
                                     THEN Mutexes ELSE {"audio", "queue"}
<1>1. lost => HasVideo /\ constructed
    BY DEF CallInv
<1> QED
    BY <1>1, LockSetIs DEF VideoOpen, Orphans, Mutexes

\* The mutex that is taken or released next is one that is to be.
LEMMA FirstOfIn ==
    ASSUME NEW order, DOMAIN order \subseteq 1 .. 4,
           NEW i \in DOMAIN order, NEW S, order[i] \in S,
           \A k \in DOMAIN order : 1 .. k \subseteq DOMAIN order
    PROVE  FirstOf(order, S) \in S
<1> DEFINE First(k) == order[k] \in S /\ \A j \in 1 .. (k - 1) : order[j] \notin S
<1>1. \E k \in DOMAIN order : First(k)
    <2>1. i \in 1 .. 4 /\ \A j \in 1 .. i : j \in DOMAIN order
        OBVIOUS
    <2>2. CASE order[1] \in S
        BY <2>1, <2>2
    <2>3. CASE order[1] \notin S /\ i >= 2 /\ order[2] \in S
        BY <2>1, <2>3
    <2>4. CASE order[1] \notin S /\ order[2] \notin S /\ i >= 3 /\ order[3] \in S
        BY <2>1, <2>4
    <2>5. CASE order[1] \notin S /\ order[2] \notin S /\ order[3] \notin S /\ i = 4
        BY <2>1, <2>5
    <2> QED
        BY <2>1, <2>2, <2>3, <2>4, <2>5
<1> DEFINE k == CHOOSE j \in DOMAIN order : First(j)
<1>2. k \in DOMAIN order /\ First(k)
    BY <1>1
<1> QED
    BY <1>2 DEF FirstOf

LEMMA NextMutexIn ==
    ASSUME ~(LockSet \subseteq Held)
    PROVE  NextMutex \in LockSet \ Held /\ NextMutex \in Mutexes
<1>1. PICK m \in LockSet : m \notin Held
    OBVIOUS
<1>2. PICK i \in DOMAIN LockOrder : LockOrder[i] = m
    BY <1>1 DEF LockSet
<1>3. DOMAIN LockOrder \subseteq 1 .. 4
      /\ \A k \in DOMAIN LockOrder : 1 .. k \subseteq DOMAIN LockOrder
    BY DEF LockOrder
<1>4. LockOrder[i] \in LockSet \ Held
    BY <1>1, <1>2
<1>5. FirstOf(LockOrder, LockSet \ Held) \in LockSet \ Held
    BY <1>3, <1>4, FirstOfIn
<1>6. LockSet \subseteq Mutexes
    BY LockSetIs DEF Mutexes
<1> QED
    BY <1>5, <1>6 DEF NextMutex

LEMMA UnlockedNextIn ==
    ASSUME StillHeld # {}
    PROVE  FirstOf(UnlockOrder, StillHeld) \in StillHeld
<1>1. PICK m \in StillHeld : TRUE
    OBVIOUS
<1>2. m \in Mutexes
    BY <1>1 DEF StillHeld, Held
<1>3. PICK i \in 1 .. 4 : UnlockOrder[i] = m
    BY <1>2 DEF Mutexes, UnlockOrder
<1>4. DOMAIN UnlockOrder = 1 .. 4
    BY DEF UnlockOrder
<1> QED
    BY <1>1, <1>3, <1>4, FirstOfIn

-----------------------------------------------------------------------------
(* The caller: mutexes and locks *)

\* unlockThreads, called with the threads locked; a stream may just be lost.
LEMMA UnlockThreadsDoes ==
    ASSUME TypeOK, MutexInv, CallInv, lockCount > 0,
           Held = LockSet \cup Orphans, hangup, ~initialized,
           constructed, constructed' = constructed,
           lost' = lost \/ (VideoOpen /\ lost' = TRUE),
           NEW place \in {"idle", "release"}, UnlockThreads(place)
    PROVE  MutexInv' /\ LockInv'
<1>1. /\ LockSet' \cup Orphans' = LockSet \cup Orphans
      /\ LockSet' \cap Orphans' = {} /\ "queue" \in LockSet' \ Orphans'
    <2>1. (LockSet = IF VideoOpen THEN Mutexes ELSE {"audio", "queue"})'
        BY LockSetIs, PTL
    <2> QED
        BY <2>1, OrphansAside DEF CallInv, VideoOpen, Orphans, Mutexes
<1>2. lockCount \in 1 .. 3
    BY DEF TypeOK
<1>3. CASE lockCount > 1
    <2>1. /\ lockCount' = lockCount - 1 /\ api' = place
          /\ UNCHANGED <<holder, pc, hangup, initialized>>
        BY <1>3 DEF UnlockThreads
    <2>2. MutexInv'
        BY <2>1 DEF MutexInv
    <2>3. Held' = Held
        BY <2>1 DEF Held
    <2>4. LockInv'
        BY <1>1, <1>2, <1>3, <2>1, <2>3 DEF LockInv, Between
    <2> QED
        BY <2>2, <2>4
<1>4. CASE lockCount = 1
    <2>1. /\ lockCount' = 0 /\ api' = "unlock" /\ ~hangup' /\ initialized'
          /\ pc' = [t \in Threads |-> IF pc[t] = "sleep" THEN "awake" ELSE pc[t]]
          /\ Release({"queue"})
        BY <1>4 DEF UnlockThreads
    <2>2. holder["queue"] = "api"
        BY OrphansAside DEF Held
    <2>3. MutexInv'
        BY <2>1, <2>2, ThreadNames
           DEF MutexInv, Release, TypeOK, Away, WithQueue, WithDecoder, Mutexes
    <2>4. Held' = Held \ {"queue"}
        BY <2>1 DEF Held, Release, Mutexes
    <2>5. LockInv'
        BY <1>1, <2>1, <2>4 DEF LockInv, Between
    <2> QED
        BY <2>3, <2>5
<1> QED
    BY <1>2, <1>3, <1>4

\* A call that locks the threads, or finds them locked.
LEMMA LockThreadsDoes ==
    ASSUME TypeOK, MutexInv, LockInv, CallInv, constructed, api = "idle", NEW c,
           LockThreads(c),
           UNCHANGED <<holder, pc, initialized, constructed, lost>>
    PROVE  MutexInv' /\ LockInv'
<1>1. LockSet' = LockSet /\ Held' = Held /\ Orphans' = Orphans
    BY DEF LockSet, LockOrder, VideoOpen, Held, Orphans
<1>2. ~(LockSet \subseteq Orphans)
    BY OrphansAside
<1>3. MutexInv'
    BY DEF MutexInv
<1>4. LockInv'
    BY <1>1, <1>2 DEF LockInv, LockThreads, TypeOK, Between
<1> QED
    BY <1>3, <1>4

LEMMA LockMutexesKeeps ==
    ASSUME TypeOK, MutexInv, LockInv, CallInv, LockMutexes
    PROVE  MutexInv' /\ LockInv'
<1>1. NextMutex \in LockSet \ Held /\ NextMutex \in Mutexes
    BY NextMutexIn DEF LockInv, LockMutexes
<1>2. LockSet' = LockSet /\ Orphans' = Orphans
    BY DEF LockSet, LockOrder, VideoOpen, Orphans, LockMutexes
<1> DEFINE next == NextMutex
<1>3. /\ holder[next] = "none" /\ holder' = [holder EXCEPT ![next] = "api"]
      /\ pc' = pc
    BY DEF LockMutexes, Take, Free
<1>4. next \in LockSet \ Held /\ next \in Mutexes
    BY <1>1
<1>5. IF LockSet \subseteq Held \cup {next}
      THEN ~initialized' /\ api' \in {"start", "locked"}
      ELSE UNCHANGED <<initialized, api>>
    BY DEF LockMutexes
<1> HIDE DEF next
<1>6. MutexInv'
    BY <1>3, <1>4, ThreadNames DEF MutexInv, TypeOK, Mutexes
<1>7. Held' = Held \cup {next}
    BY <1>3, <1>4 DEF Held, TypeOK
<1>8. api = "lock" /\ UNCHANGED <<lockCount, hangup, constructed>>
    BY DEF LockMutexes, flagVars
<1>9. LockInv'
    <2>1. CASE LockSet \subseteq Held \cup {next}
        <3>1. Held' = LockSet \cup Orphans
            BY <1>4, <1>7, <1>8, <2>1 DEF LockInv
        <3> QED
            BY <1>2, <1>5, <1>8, <2>1, <3>1 DEF LockInv, Between
    <2>2. CASE ~(LockSet \subseteq Held \cup {next})
        BY <1>2, <1>4, <1>5, <1>7, <1>8, <2>2 DEF LockInv, Between
    <2> QED
        BY <2>1, <2>2
<1> QED
    BY <1>6, <1>9

LEMMA UnlockMutexKeeps ==
    ASSUME TypeOK, MutexInv, LockInv, CallInv, UnlockMutex
    PROVE  MutexInv' /\ LockInv'
<1> DEFINE m == FirstOf(UnlockOrder, StillHeld)
<1>1. m \in Held /\ m \in LockSet
    BY UnlockedNextIn DEF UnlockMutex, StillHeld
<1>2. Release({m}) /\ pc' = IF m \in Threads THEN Resumed(m) ELSE pc
    BY DEF UnlockMutex
<1> HIDE DEF m
<1>3. api = "unlock" /\ UNCHANGED <<api, lockCount, hangup, initialized>>
      /\ LockSet' = LockSet /\ Orphans' = Orphans
    BY DEF UnlockMutex, flagVars, stateVars, apiVars, LockSet, LockOrder,
           VideoOpen, Orphans
<1>4. m \in Mutexes /\ holder[m] = "api"
    BY <1>1 DEF Held
<1>5. \A t \in Threads : pc'[t] = pc[t] \/ (pc[t] = "hung" /\ pc'[t] = "resumed")
    BY <1>2 DEF Resumed, TypeOK
<1>6. MutexInv'
    BY <1>2, <1>4, <1>5, ThreadNames
       DEF MutexInv, Release, TypeOK, Away, WithQueue, WithDecoder, Mutexes
<1>7. Held' = Held \ {m} /\ m \notin Orphans
    BY <1>1, <1>2, OrphansAside DEF Held, Release
<1> QED
    BY <1>3, <1>6, <1>7 DEF LockInv, Between

\* StartFirst: no call but Start until there is a player.
LEMMA CallerKeepsLocks ==
    ASSUME StartFirst, TypeOK, MutexInv, LockInv, CallInv, Api
    PROVE  MutexInv' /\ LockInv'
<1>1. CASE LockMutexes
    BY <1>1, LockMutexesKeeps
<1>2. CASE UnlockMutex
    BY <1>2, UnlockMutexKeeps
<1>3. CASE UnlockReturns
    <2>1. /\ MutexInv' /\ Held' = Held /\ Orphans' = Orphans
          /\ UNCHANGED <<lockCount, hangup, initialized>>
        BY <1>3 DEF UnlockReturns, MutexInv, Held, Orphans, flagVars, stateVars
    <2>2. /\ api = "unlock" /\ api' \in {"idle", "release"}
          /\ Held \cap LockSet = {}
        BY <1>3 DEF UnlockReturns, StillHeld
    <2> QED
        BY <2>1, <2>2 DEF LockInv, Between
<1>4. CASE FirstStart
    <2>1. /\ api = "idle" /\ lockCount = 0 /\ ~initialized /\ Held = {}
          /\ \A t \in Threads : pc[t] = "none"
        BY <1>4 DEF FirstStart, CallInv, LockInv, Between, Orphans
    <2>2. MutexInv'
        BY <1>4, <2>1, ThreadNames
           DEF FirstStart, MutexInv, TypeOK, Away, WithQueue, WithDecoder
    <2>3. Held' = {}
        BY <1>4, <2>1 DEF FirstStart, Held
    <2>4. LockSet' # {} /\ Orphans' = {}
        <3>1. (LockSet = IF VideoOpen THEN Mutexes ELSE {"audio", "queue"})'
            BY LockSetIs, PTL
        <3>2. ~lost'
            BY <1>4 DEF FirstStart, CallInv
        <3> QED
            BY <3>1, <3>2 DEF Mutexes, Orphans
    <2>5. LockInv'
        BY <1>4, <2>1, <2>3, <2>4 DEF FirstStart, LockInv, Between
    <2> QED
        BY <2>2, <2>5
<1>5. CASE StartAgain
    <2>1. lockCount > 0 /\ ~initialized
        BY <1>5 DEF StartAgain, LockInv, Between, IsPlaying, TypeOK
    <2> QED
        BY <1>5, <2>1 DEF StartAgain, MutexInv, LockInv, Between, Held, LockSet,
                          LockOrder, VideoOpen, Orphans, flagVars, stateVars
<1>6. CASE Start
    <2>1. /\ lockCount > 0 /\ hangup /\ Held = LockSet \cup Orphans
          /\ constructed /\ ~initialized /\ ~paused
        BY <1>6 DEF Start, LockInv, CallInv, Between, IsPlaying, TypeOK
    <2>2. constructed' = constructed /\ lost' = lost
        BY <1>6 DEF Start
    <2>3. CASE UnlockThreads("idle")
        BY <2>1, <2>2, <2>3, UnlockThreadsDoes
    <2>4. CASE api' = "idle" /\ UNCHANGED <<holder, pc, lockCount, hangup, initialized>>
        BY <2>1, <2>2, <2>4, <1>6
           DEF Start, MutexInv, LockInv, Between, Held, LockSet, LockOrder,
               VideoOpen, Orphans
    <2> QED
        BY <1>6, <2>3, <2>4 DEF Start
<1>7. CASE Call
    <2>1. constructed /\ api = "idle"
        BY <1>7 DEF Call, CallStop, CallPause, CallSeek, CallSet, Ready
    <2>2. PICK c \in Calls : CallLocking(c)
        BY <1>7 DEF Call, CallStop, CallPause, CallSeek, CallSet, Calls
    <2> QED
        BY <2>1, <2>2, LockThreadsDoes DEF CallLocking, stateVars
<1>8. CASE Stop \/ Pause
    <2>1. lockCount > 0 /\ ~initialized /\ constructed
          /\ Held = LockSet \cup Orphans /\ lockCount <= 2
        BY <1>8 DEF Stop, Pause, LockInv, CallInv, Between, TypeOK
    <2>2. /\ api' \in {"idle", "release"}
          /\ UNCHANGED <<holder, pc, hangup, lockCount, initialized, constructed,
                         lost>>
        BY <1>8 DEF Stop, Pause, flagVars
    <2>3. MutexInv' /\ Held' = Held /\ LockSet' = LockSet /\ Orphans' = Orphans
        BY <2>2 DEF MutexInv, Held, LockSet, LockOrder, VideoOpen, Orphans
    <2> QED
        BY <2>1, <2>2, <2>3 DEF LockInv, Between
<1>9. CASE Seek \/ Set \/ SetLosesVideo \/ Unpause
    <2>1. /\ lockCount > 0 /\ hangup /\ Held = LockSet \cup Orphans
          /\ constructed /\ ~initialized
        <3>1. CASE Seek \/ Set \/ SetLosesVideo
            <4>1. api = "locked"
                BY <3>1 DEF Seek, Set, SetLosesVideo
            <4>2. lockCount > 0 /\ lockCount # 0 /\ constructed
                BY <4>1 DEF LockInv, CallInv, TypeOK
            <4> QED
                BY <4>1, <4>2 DEF LockInv, Between
        <3>2. CASE Unpause
            BY <3>2 DEF Unpause, Ready, LockInv, CallInv, Between, TypeOK
        <3> QED
            BY <1>9, <3>1, <3>2
    <2>2. /\ constructed' = constructed
          /\ lost' = lost \/ (VideoOpen /\ lost' = TRUE)
        BY <1>9 DEF Seek, Set, SetLosesVideo, Unpause
    <2>3. CASE UnlockThreads("idle")
        BY <2>1, <2>2, <2>3, UnlockThreadsDoes
    <2>4. CASE ~UnlockThreads("idle")
        <3>1. /\ VideoOpen /\ lost' = TRUE /\ api = "locked" /\ api' = "crashed"
              /\ UNCHANGED <<holder, pc, hangup, initialized, lockCount>>
            BY <1>9, <2>4 DEF Seek, Set, SetLosesVideo, Unpause
        <3>2. MutexInv' /\ Held' = Held
            BY <3>1 DEF MutexInv, Held
        <3>3. LockSet' \cup Orphans' = LockSet \cup Orphans
            <4>1. (LockSet = IF VideoOpen THEN Mutexes ELSE {"audio", "queue"})'
                BY LockSetIs, PTL
            <4> QED
                BY <2>1, <2>2, <3>1, <4>1, OrphansAside
                   DEF VideoOpen, Orphans, Mutexes
        <3> QED
            BY <2>1, <3>1, <3>2, <3>3 DEF LockInv, Between
    <2> QED
        BY <2>3, <2>4
<1>10. CASE Delete
    <2>1. constructed /\ api = "idle"
        BY <1>10 DEF Delete, Ready
    <2>2. CASE LockThreads("Delete")
        BY <1>10, <2>1, <2>2, LockThreadsDoes DEF Delete, stateVars
    <2>3. CASE api' = "release" /\ UNCHANGED <<lockCount, hangup>>
        BY <1>10, <2>1, <2>3
           DEF Delete, MutexInv, LockInv, Between, Held, LockSet, LockOrder,
               VideoOpen, Orphans, stateVars
    <2> QED
        BY <1>10, <2>2, <2>3 DEF Delete
<1>11. CASE ReleaseThreads
    <2>1. constructed /\ constructed' = constructed /\ lost' = lost
        BY <1>11 DEF ReleaseThreads, CallInv
    <2>2. CASE initialized
        BY <1>11, <2>1, <2>2
           DEF ReleaseThreads, MutexInv, LockInv, Between, Held, Orphans
    <2>3. CASE ~initialized
        <3>1. lockCount > 0 /\ hangup /\ Held = LockSet \cup Orphans
            BY <1>11, <2>1, <2>3 DEF ReleaseThreads, LockInv, Between, TypeOK
        <3>2. UnlockThreads("release")
            BY <1>11, <2>3 DEF ReleaseThreads
        <3> QED
            BY <2>1, <2>3, <3>1, <3>2, UnlockThreadsDoes
    <2> QED
        BY <2>2, <2>3
<1>12. CASE Join
    BY <1>12 DEF Join, MutexInv, LockInv, Between, Held, Orphans, flagVars,
                 stateVars
<1> QED
    BY <1>1, <1>2, <1>3, <1>4, <1>5, <1>6, <1>7, <1>8, <1>9, <1>10, <1>11,
       <1>12 DEF Api

-----------------------------------------------------------------------------
(* The threads: types and places *)

LEMMA ThreadsLeave ==
    ASSUME NEW t \in Threads, Step(t) \/ SpuriousWakeup(t)
    PROVE  UNCHANGED <<buffered, hangup, quit, stateVars, apiVars>>
<1> USE DEF flagVars, streamVars
<1>1. ASSUME NEW u, DropFrame(u)
      PROVE  UNCHANGED <<buffered, hangup, quit, stateVars, apiVars>>
    BY <1>1 DEF DropFrame, DropReady, DropSeek, StopDecoder, LockQueueAgain,
                LockQueue, SeekDropped, EndDrop
<1>2. Video => UNCHANGED <<buffered, hangup, quit, stateVars, apiVars>>
    BY <1>1 DEF Video, VideoWait, VideoSync, VideoDue, VideoLocksQueue, LockQueue,
                VideoSleeps, Fetch, Drawn, Fetched
<1>3. Audio => UNCHANGED <<buffered, hangup, quit, stateVars, apiVars>>
    BY <1>1 DEF Audio, AudioWithoutRenderer, AudioBody, Extract
<1>4. Decoder => UNCHANGED <<buffered, hangup, quit, stateVars, apiVars>>
    BY DEF Decoder, DecoderWait, DecoderDue, DecoderLocksQueue, LockQueue,
           DecoderSleeps, DecoderMayRead, ReadFrame, Announce
<1> QED
    BY <1>2, <1>3, <1>4 DEF Step, Enter, CheckSync, Resume, LeaveQueue,
                            SpuriousWakeup

LEMMA CommonPlaces ==
    ASSUME TypeOK, ThreadInv, NEW t \in Threads,
           \/ Enter(t) \/ CheckSync(t) \/ Resume(t) \/ LeaveQueue(t)
           \/ SpuriousWakeup(t)
    PROVE  TypeOK' /\ ThreadInv'
<1> USE ThreadNames DEF ThreadInv, RendererAlive, InDropFrame, TypeOK, Places, Parked, Go,
                        Take, Free, Release, flagVars, streamVars, stateVars,
                        apiVars
<1>1. CASE Enter(t)
    BY <1>1 DEF Enter
<1>2. CASE CheckSync(t)
    BY <1>2 DEF CheckSync
<1>3. CASE Resume(t)
    BY <1>3 DEF Resume
<1>4. CASE LeaveQueue(t)
    BY <1>4 DEF LeaveQueue
<1>5. CASE SpuriousWakeup(t)
    BY <1>5 DEF SpuriousWakeup
<1> QED
    BY <1>1, <1>2, <1>3, <1>4, <1>5

LEMMA DropFramePlaces ==
    ASSUME TypeOK, MutexInv, ThreadInv, NEW t \in Droppers, DropFrame(t)
    PROVE  TypeOK' /\ ThreadInv'
<1> USE ThreadNames, BufferAssumption
    DEF ThreadInv, RendererAlive, InDropFrame, TypeOK, Places, Parked, Go,
        Take, Free, Release, flagVars, streamVars, stateVars, apiVars, Mutexes
<1>1. CASE DropReady(t)
    BY <1>1 DEF DropReady
<1>2. CASE DropSeek(t)
    BY <1>2 DEF DropSeek
<1>3. CASE StopDecoder(t)
    BY <1>3 DEF StopDecoder
<1>4. CASE LockQueueAgain(t)
    BY <1>4 DEF LockQueueAgain, LockQueue
<1>5. CASE SeekDropped(t)
    <2>1. /\ pc' \in [Threads -> Places]
          /\ \A u \in Threads : pc'[u] = IF u = t THEN "dropped"
                                        ELSE IF u = "decoder" /\ pc[u] = "hung"
                                        THEN "resumed" ELSE pc[u]
        BY <1>5 DEF SeekDropped, Resumed
    <2>2. TypeOK'
        <3>1. holder' \in [Mutexes -> Threads \cup {"api", "none"}]
            BY <1>5 DEF SeekDropped
        <3>2. ready' \in 0 .. (Buffers - 1) /\ dropping' = FALSE
              /\ UNCHANGED <<buffered, flagVars, stateVars, apiVars>>
            BY <1>5 DEF SeekDropped
        <3>3. ready' \in 0 .. (Buffers - 1) /\ dropping' \in BOOLEAN
              /\ buffered' \in BOOLEAN /\ timeStarted' \in BOOLEAN
              /\ hangup' \in BOOLEAN /\ quit' \in BOOLEAN
              /\ initialized' \in BOOLEAN /\ paused' \in BOOLEAN
              /\ constructed' \in BOOLEAN /\ renderer' \in BOOLEAN
              /\ lost' \in BOOLEAN /\ lockCount' \in 0 .. 3
              /\ api' \in {"idle", "lock", "locked", "start", "unlock",
                           "release", "join", "gone", "crashed"}
              /\ call' \in Calls \cup {"none"}
            <4>1. lost' \in BOOLEAN
                BY <3>2
            <4> QED
                BY <3>2, <4>1
        <3> QED
            BY <2>1, <3>1, <3>3, Zenon DEF TypeOK
    <2>3. pc[t] = "seek" /\ ready' = 0 /\ holder'["audio"] = holder["audio"]
          /\ holder'["video"] = holder["video"]
          /\ (holder["decoder"] = "api" => t = "decoder")
          /\ UNCHANGED <<quit, hangup, renderer>>
        BY <1>5 DEF SeekDropped, MutexInv, WithDecoder
    <2> QED
        BY <2>1, <2>2, <2>3
<1>6. CASE EndDrop(t)
    BY <1>6 DEF EndDrop, Notify
<1> QED
    BY <1>1, <1>2, <1>3, <1>4, <1>5, <1>6 DEF DropFrame

LEMMA VideoPlaces ==
    ASSUME TypeOK, MutexInv, ThreadInv, "video" \in Threads, Video
    PROVE  TypeOK' /\ ThreadInv'
<1> USE ThreadNames, BufferAssumption
    DEF ThreadInv, RendererAlive, InDropFrame, TypeOK, Places, Parked, Go,
        Take, Free, Release, flagVars, streamVars, stateVars, apiVars, Mutexes
<1>1. CASE VideoWait
    <2>1. TypeOK'
        <3>1. timeStarted' \in BOOLEAN
            BY <1>1, Zenon DEF VideoWait
        <3> QED
            BY <1>1, <3>1 DEF VideoWait
    <2>2. ThreadInv'
        BY <1>1 DEF VideoWait
    <2> QED
        BY <2>1, <2>2
<1>2. CASE VideoSync
    BY <1>2 DEF VideoSync
<1>3. CASE VideoDue
    BY <1>3 DEF VideoDue
<1>4. CASE VideoLocksQueue
    BY <1>4 DEF VideoLocksQueue, LockQueue
<1>5. CASE VideoSleeps
    BY <1>5 DEF VideoSleeps, SleepOnQueue, Notify
<1>6. CASE Fetch
    BY <1>6 DEF Fetch
<1>7. CASE Drawn
    BY <1>7 DEF Drawn, LockQueue
<1>8. CASE Fetched
    BY <1>8 DEF Fetched
<1>9. CASE DropFrame("video")
    <2>1. "video" \in Droppers
        BY DEF Droppers
    <2> QED
        BY <1>9, <2>1, DropFramePlaces
<1> QED
    BY <1>1, <1>2, <1>3, <1>4, <1>5, <1>6, <1>7, <1>8, <1>9 DEF Video

LEMMA AudioPlaces ==
    ASSUME TypeOK, MutexInv, ThreadInv, "audio" \in Threads, Audio
    PROVE  TypeOK' /\ ThreadInv'
<1> USE ThreadNames
    DEF ThreadInv, RendererAlive, InDropFrame, TypeOK, Places, Parked, Go,
        Take, Free, Release, flagVars, streamVars, stateVars, apiVars, Mutexes
<1>1. CASE AudioWithoutRenderer
    BY <1>1 DEF AudioWithoutRenderer
<1>2. CASE AudioBody
    <2>1. VideoOpen => HasVideo
        BY DEF VideoOpen
    <2>2. TypeOK'
        BY <1>2 DEF AudioBody
    <2>3. ThreadInv'
        BY <1>2, <2>1 DEF AudioBody
    <2> QED
        BY <2>2, <2>3
<1>3. CASE Extract
    BY <1>3 DEF Extract
<1>4. CASE DropFrame("audio")
    <2>1. "audio" \in Droppers
        BY DEF Droppers
    <2> QED
        BY <1>4, <2>1, DropFramePlaces
<1> QED
    BY <1>1, <1>2, <1>3, <1>4 DEF Audio

LEMMA DecoderPlaces ==
    ASSUME TypeOK, MutexInv, ThreadInv, "decoder" \in Threads, Decoder
    PROVE  TypeOK' /\ ThreadInv'
<1> USE ThreadNames, BufferAssumption
    DEF ThreadInv, RendererAlive, InDropFrame, TypeOK, Places, Parked, Go,
        Take, Free, Release, flagVars, streamVars, stateVars, apiVars, Mutexes
<1>1. CASE DecoderWait
    BY <1>1 DEF DecoderWait
<1>2. CASE DecoderDue
    BY <1>2 DEF DecoderDue
<1>3. CASE DecoderLocksQueue
    BY <1>3 DEF DecoderLocksQueue, LockQueue
<1>4. CASE DecoderSleeps
    BY <1>4 DEF DecoderSleeps, SleepOnQueue, Notify
<1>5. CASE DecoderMayRead
    BY <1>5 DEF DecoderMayRead, QueueFull
<1>6. CASE ReadFrame
    BY <1>6 DEF ReadFrame
<1>7. CASE Announce
    BY <1>7 DEF Announce, Notify
<1> QED
    BY <1>1, <1>2, <1>3, <1>4, <1>5, <1>6, <1>7 DEF Decoder

\* Nothing but the threads' own business, so what the caller has locked stays
\* locked; and before there are threads none of them moves.
LEMMA ThreadKeepsInv ==
    ASSUME IInv, NEW t \in Threads, Step(t) \/ SpuriousWakeup(t)
    PROVE  IInv'
<1>1. MutexInv' /\ Held' = Held
    BY CommonMutexes, VideoMutexes, AudioMutexes, DecoderMutexes DEF Step, IInv
<1>2. TypeOK' /\ ThreadInv'
    BY CommonPlaces, VideoPlaces, AudioPlaces, DecoderPlaces DEF Step, IInv
<1>3. UNCHANGED <<hangup, quit, stateVars, apiVars>>
    BY ThreadsLeave
<1>4. LockSet' = LockSet /\ Orphans' = Orphans
    BY <1>3 DEF LockSet, LockOrder, VideoOpen, Orphans, stateVars
<1>5. LockInv'
    BY <1>1, <1>3, <1>4 DEF IInv, LockInv, Between, stateVars, apiVars
<1>6. constructed
    <2>1. pc[t] # "none"
        BY DEF Step, Enter, CheckSync, Resume, LeaveQueue, SpuriousWakeup, Video,
               VideoWait, VideoSync, VideoDue, VideoLocksQueue, LockQueue,
               VideoSleeps, Fetch, Drawn, Fetched, Audio, AudioWithoutRenderer,
               AudioBody, Extract, Decoder, DecoderWait, DecoderDue,
               DecoderLocksQueue, DecoderSleeps, DecoderMayRead, ReadFrame,
               Announce, DropFrame, DropReady, DropSeek, StopDecoder,
               LockQueueAgain, SeekDropped, EndDrop
    <2> QED
        BY <2>1 DEF IInv, CallInv
<1>7. CallInv'
    BY <1>3, <1>6 DEF IInv, CallInv, stateVars, apiVars
<1> QED
    BY <1>1, <1>2, <1>5, <1>7 DEF IInv

-----------------------------------------------------------------------------
(* The caller: types, places and calls *)

\* Who has locked the threads has them parked.
LEMMA LockedAreAway ==
    ASSUME TypeOK, MutexInv, LockInv, CallInv, Locked
    PROVE  \A t \in Threads : pc[t] \in Away
<1>1. api \in Between /\ constructed
    BY DEF Locked, LockInv, CallInv, TypeOK, Between
<1>2. Held = LockSet \cup Orphans
    BY <1>1 DEF Locked, LockInv
<1>3. Threads \subseteq LockSet \cup Orphans
    BY <1>1, OrphansAside, ThreadNames DEF Threads
<1>4. \A t \in Threads : holder[t] = "api"
    BY <1>2, <1>3 DEF Held
<1> QED
    BY <1>4, ThreadNames DEF MutexInv

LEMMA UnlockThreadsTypes ==
    ASSUME TypeOK, NEW place \in {"idle", "release"}, UnlockThreads(place)
    PROVE  /\ holder' \in [Mutexes -> Threads \cup {"api", "none"}]
           /\ pc' \in [Threads -> Places]
           /\ timeStarted' \in BOOLEAN /\ hangup' \in BOOLEAN
           /\ initialized' \in BOOLEAN
           /\ lockCount' \in Nat /\ api' \in {place, "unlock"}
<1>1. CASE lockCount > 1
    BY <1>1 DEF UnlockThreads, TypeOK
<1>2. CASE ~(lockCount > 1)
    <2>1. holder' \in [Mutexes -> Threads \cup {"api", "none"}]
        BY <1>2 DEF UnlockThreads, Release, TypeOK
    <2>2. pc' \in [Threads -> Places]
        BY <1>2 DEF UnlockThreads, TypeOK, Places
    <2>3. /\ timeStarted' = FALSE /\ hangup' = FALSE /\ initialized' = TRUE
          /\ lockCount' = 0 /\ api' = "unlock"
        BY <1>2, Zenon DEF UnlockThreads
    <2> QED
        BY <2>1, <2>2, <2>3
<1> QED
    BY <1>1, <1>2

\* How deep the locks are LockInv tells.
LEMMA CallerTypes ==
    ASSUME TypeOK, Api, LockInv'
    PROVE  TypeOK'
<1>0. ASSUME lockCount' \in Nat,
             api' \in {"idle", "lock", "locked", "start", "unlock", "release",
                       "join", "gone", "crashed"}
      PROVE  lockCount' \in 0 .. 3
    BY <1>0 DEF LockInv, Between
<1> USE <1>0, ThreadNames, BufferAssumption
    DEF TypeOK, Calls, streamVars, flagVars, stateVars, apiVars
<1>1. CASE LockMutexes
    <2>1. holder' \in [Mutexes -> Threads \cup {"api", "none"}]
        BY <1>1 DEF LockMutexes, Take
    <2>2. UNCHANGED lockCount
          /\ api' \in {"lock", "start", "locked"} /\ initialized' \in BOOLEAN
        BY <1>1 DEF LockMutexes
    <2> QED
        BY <1>1, <2>1, <2>2 DEF LockMutexes
<1>2. CASE UnlockMutex
    <2>1. holder' \in [Mutexes -> Threads \cup {"api", "none"}]
        BY <1>2 DEF UnlockMutex, Release
    <2>2. pc' \in [Threads -> Places]
        BY <1>2 DEF UnlockMutex, Resumed, Places
    <2> QED
        BY <1>2, <2>1, <2>2 DEF UnlockMutex
<1>3. CASE UnlockReturns \/ Join
    BY <1>3 DEF UnlockReturns, Join
<1>4. CASE FirstStart
    <2>1. pc' \in [Threads -> Places]
        BY <1>4 DEF FirstStart, Places
    <2>2. lockCount' \in Nat /\ api' \in {"lock", "start"}
        BY <1>4 DEF FirstStart
    <2>3. initialized' \in BOOLEAN
        BY <1>4 DEF FirstStart
    <2> QED
        BY <1>4, <2>1, <2>2, <2>3 DEF FirstStart
<1>5. CASE StartAgain
    BY <1>5 DEF StartAgain
<1>6. CASE Start
    <2>1. renderer' \in BOOLEAN
        BY <1>6, Zenon DEF Start
    <2>2. CASE UnlockThreads("idle")
        BY <1>6, <2>1, <2>2, UnlockThreadsTypes DEF Start
    <2>3. CASE ~UnlockThreads("idle")
        BY <1>6, <2>1, <2>3 DEF Start
    <2> QED
        BY <2>2, <2>3
<1>7. CASE Call
    <2>1. PICK c \in Calls : CallLocking(c)
        BY <1>7 DEF Call, CallStop, CallPause, CallSeek, CallSet
    <2> QED
        <3>1. lockCount' \in Nat /\ api' \in {"lock", "locked"}
            BY <2>1 DEF CallLocking, LockThreads
        <3>2. hangup' \in BOOLEAN
            BY <2>1, Zenon DEF CallLocking, LockThreads
        <3>3. call' \in Calls
            BY <2>1 DEF CallLocking, LockThreads
        <3>4. UNCHANGED <<holder, pc, streamVars, timeStarted, quit, stateVars>>
            BY <2>1 DEF CallLocking
        <3> QED
            BY <3>1, <3>2, <3>3, <3>4
<1>8. CASE Stop \/ Pause
    <2>1. CASE Stop
        <3>1. quit' \in BOOLEAN /\ api' \in {"idle", "release"}
            BY <2>1 DEF Stop
        <3>2. /\ renderer' = FALSE /\ paused' = FALSE /\ ready' = 0
              /\ UNCHANGED <<holder, pc, buffered, dropping, timeStarted, hangup,
                             initialized, constructed, lost, call, lockCount>>
            BY <2>1 DEF Stop
        <3>3. ready' \in 0 .. (Buffers - 1) /\ lockCount' \in 0 .. 3
            BY <3>2
        <3> QED
            BY <3>1, <3>2, <3>3
    <2>2. CASE Pause
        BY <2>2 DEF Pause
    <2> QED
        BY <1>8, <2>1, <2>2
<1>9. CASE Seek
    BY <1>9, UnlockThreadsTypes DEF Seek
<1>10. CASE Set
    <2>1. renderer' \in BOOLEAN /\ buffered' \in BOOLEAN
        BY <1>10, Zenon DEF Set
    <2> QED
        <3>1. ready' \in 0 .. (Buffers - 1)
            <4>1. ready' = 0 \/ ready' = ready
                BY <1>10, Zenon DEF Set
            <4> QED
                BY <4>1
        <3>2. /\ UnlockThreads("idle")
              /\ UNCHANGED <<dropping, quit, paused, constructed, lost, call>>
            BY <1>10 DEF Set
        <3> QED
            BY <2>1, <3>1, <3>2, UnlockThreadsTypes
<1>14. CASE SetLosesVideo
    <2>1. /\ lost' \in BOOLEAN /\ ready' \in 0 .. (Buffers - 1)
          /\ UNCHANGED <<buffered, dropping, quit, paused, constructed, renderer,
                         call>>
        BY <1>14 DEF SetLosesVideo
    <2>2. CASE UnlockThreads("idle")
        BY <2>1, <2>2, UnlockThreadsTypes
    <2>3. CASE ~UnlockThreads("idle")
        BY <1>14, <2>1, <2>3 DEF SetLosesVideo
    <2> QED
        BY <2>2, <2>3
<1>11. CASE Unpause
    BY <1>11, UnlockThreadsTypes DEF Unpause
<1>12. CASE Delete
    <2>1. lockCount' \in Nat /\ api' \in {"lock", "locked", "release"}
        BY <1>12 DEF Delete, LockThreads
    <2>2. hangup' \in BOOLEAN /\ quit' \in BOOLEAN
        BY <1>12, Zenon DEF Delete, LockThreads
    <2>3. call' = "Delete"
          /\ UNCHANGED <<holder, pc, streamVars, timeStarted, stateVars>>
        BY <1>12 DEF Delete, LockThreads
    <2> QED
        BY <2>1, <2>2, <2>3
<1>13. CASE ReleaseThreads
    BY <1>13, UnlockThreadsTypes DEF ReleaseThreads
<1> QED
    BY <1>1, <1>2, <1>3, <1>4, <1>5, <1>6, <1>7, <1>8, <1>9, <1>10, <1>11,
       <1>12, <1>13, <1>14 DEF Api

\* Only the first Start, the end of unlockThreads and an unlocked mutex move a
\* thread, and each only from a wait.
LEMMA CallerMoves ==
    ASSUME TypeOK, CallInv, Api, NEW t \in Threads
    PROVE  \/ pc'[t] = pc[t]
           \/ pc[t] = "none" /\ pc'[t] = "outside"
           \/ pc[t] = "sleep" /\ pc'[t] = "awake"
           \/ pc[t] = "hung" /\ pc'[t] = "resumed" /\ api = "unlock"
<1>1. CASE UnlockMutex
    BY <1>1 DEF UnlockMutex, Resumed, TypeOK
<1>2. CASE FirstStart
    BY <1>2 DEF FirstStart, CallInv
<1>3. ASSUME NEW place, UnlockThreads(place)
      PROVE  pc'[t] = pc[t] \/ (pc[t] = "sleep" /\ pc'[t] = "awake")
    BY <1>3 DEF UnlockThreads
<1> QED
    BY <1>1, <1>2, <1>3
       DEF Api, LockMutexes, UnlockReturns, StartAgain, Start, Call, CallStop,
           CallPause, CallSeek, CallSet, CallLocking, Stop, Pause, Seek, Set,
           SetLosesVideo, Unpause, Delete, ReleaseThreads, Join

\* The player is deleted, and the renderer changes, with the threads locked;
\* and no call adds a frame.
LEMMA CallerFlags ==
    ASSUME StartFirst, TypeOK, LockInv, CallInv, Api
    PROVE  /\ quit => quit'
           /\ ~quit /\ quit' => Locked
           /\ renderer' # renderer => Locked
           /\ ready' \in 0 .. ready
<1> USE DEF flagVars, stateVars, streamVars, apiVars
<1>1. CASE Start
    <2>1. ~quit /\ Locked
        BY <1>1 DEF Start, CallInv, LockInv, Locked
    <2> QED
        BY <1>1, <2>1 DEF Start, TypeOK
<1>2. CASE Stop
    <2>1. ~quit /\ Locked
        BY <1>2 DEF Stop, CallInv, LockInv, Locked
    <2> QED
        BY <1>2, <2>1 DEF Stop, TypeOK
<1>3. CASE Seek \/ Set \/ SetLosesVideo
    <2>1. Locked /\ UNCHANGED quit
        BY <1>3 DEF Seek, Set, SetLosesVideo, LockInv, Locked
    <2>2. ready' = 0 \/ ready' = ready \/ ready' \in 0 .. ready
        BY <1>3, Zenon DEF Seek, Set, SetLosesVideo
    <2> QED
        BY <2>1, <2>2 DEF TypeOK
<1>4. CASE Delete
    <2>1. CASE IsPlaying
        BY <1>4, <2>1 DEF Delete, TypeOK
    <2>2. CASE ~IsPlaying
        <3>1. api = "idle" /\ constructed
            BY <1>4 DEF Delete, Ready
        <3> QED
            BY <1>4, <2>2, <3>1
               DEF Delete, IsPlaying, LockInv, Between, Locked, TypeOK
    <2> QED
        BY <2>1, <2>2
<1>5. CASE ~(Start \/ Stop \/ Seek \/ Set \/ SetLosesVideo \/ Delete)
    BY <1>5 DEF Api, LockMutexes, UnlockMutex, UnlockReturns, FirstStart,
                StartAgain, Call, CallStop, CallPause, CallSeek, CallSet,
                CallLocking, Pause, Unpause, ReleaseThreads, Join, TypeOK
<1> QED
    BY <1>1, <1>2, <1>3, <1>4, <1>5

\* The hang-up is lifted with the threads' mutexes in the caller's hands, and
\* who gets its mutex back is woken.
LEMMA CallerResumes ==
    ASSUME StartFirst, TypeOK, MutexInv, LockInv, CallInv, Api,
           NEW t \in Threads, pc[t] = "hung", hangup \/ holder[t] = "api"
    PROVE  hangup' \/ holder'[t] = "api" \/ pc'[t] = "resumed"
<1> USE DEF flagVars
<1>0. t \in Mutexes /\ t # "queue" /\ constructed
    BY ThreadNames DEF Mutexes, CallInv
<1>1. CASE UnlockMutex
    BY <1>0, <1>1 DEF UnlockMutex, Release, Resumed, LockInv, TypeOK
<1>2. ASSUME NEW place, UnlockThreads(place), api \in Between
      PROVE  hangup' \/ holder'[t] = "api"
    <2>1. CASE lockCount > 1
        BY <1>2, <2>1 DEF UnlockThreads
    <2>2. CASE ~(lockCount > 1)
        <3>1. hangup => holder[t] = "api"
            BY <1>0, <1>2, OrphansAside, ThreadNames
               DEF LockInv, Held, Threads
        <3> QED
            BY <1>0, <1>2, <2>2, <3>1 DEF UnlockThreads, Release
    <2> QED
        BY <2>1, <2>2
<1>3. CASE LockMutexes
    BY <1>0, <1>3 DEF LockMutexes, Take, TypeOK
<1>4. CASE Start \/ Seek \/ Set \/ SetLosesVideo \/ Unpause \/ ReleaseThreads
    BY <1>2, <1>4 DEF Start, Seek, Set, SetLosesVideo, Unpause, Ready,
                      ReleaseThreads, Between
<1>5. CASE UnlockReturns \/ FirstStart \/ StartAgain \/ Call \/ Stop \/ Pause
           \/ Delete \/ Join
    BY <1>5 DEF UnlockReturns, FirstStart, StartAgain, Call, CallStop, CallPause,
                CallSeek, CallSet, CallLocking, LockThreads, Stop, Pause, Delete,
                Join
<1> QED
    BY <1>1, <1>3, <1>4, <1>5 DEF Api

LEMMA CallerKeepsPlaces ==
    ASSUME StartFirst, TypeOK, MutexInv, LockInv, CallInv, ThreadInv, Api
    PROVE  ThreadInv'
<1> USE DEF ThreadInv, Parked, Away
<1>1. \A t \in Threads : quit' => pc'[t] \in Parked \cup {"check"}
    BY CallerMoves, CallerFlags, LockedAreAway
<1>2. \A t \in Threads : pc'[t] = "exit" => quit'
    BY CallerMoves, CallerFlags
<1>3. \A t \in Threads : pc'[t] = "hung" => hangup' \/ holder'[t] = "api"
    BY CallerMoves, CallerResumes
<1>4. RendererAlive'
    BY CallerMoves, CallerFlags, LockedAreAway DEF RendererAlive
<1>5. "decoder" \in Threads /\ pc'["decoder"] = "read" => ready' <= Buffers - 2
    BY CallerMoves, CallerFlags, BufferAssumption DEF TypeOK
<1>6. "audio" \in Threads /\ pc'["audio"] \in InDropFrame => HasVideo
    BY CallerMoves DEF InDropFrame
<1> QED
    BY <1>1, <1>2, <1>3, <1>4, <1>5, <1>6

\* Calls begin at "idle" and end there; what each leaves behind.
LEMMA CallerKeepsCalls ==
    ASSUME StartFirst, TypeOK, LockInv, CallInv, Api
    PROVE  CallInv'
<1> USE DEF CallInv, flagVars, stateVars, apiVars
<1>1. CASE LockMutexes
    BY <1>1 DEF LockMutexes, LockInv
<1>2. CASE UnlockMutex \/ UnlockReturns \/ Join
    BY <1>2 DEF UnlockMutex, UnlockReturns, Join
<1>3. CASE FirstStart \/ StartAgain
    BY <1>3 DEF FirstStart, StartAgain, IsPlaying
<1>4. CASE Start
    BY <1>4 DEF Start, UnlockThreads, LockInv
<1>5. CASE CallStop
    BY <1>5 DEF CallStop, CallLocking, LockThreads, Ready, IsPlaying, LockInv,
                Between, TypeOK
<1>6. CASE CallPause
    BY <1>6 DEF CallPause, CallLocking, LockThreads, Ready, IsPlaying, LockInv,
                Between, TypeOK
<1>7. CASE CallSeek \/ CallSet
    BY <1>7 DEF CallSeek, CallSet, CallLocking, LockThreads, Ready, TypeOK
<1>8. CASE Stop \/ Pause
    <2>1. CASE Stop
        <3>1. /\ constructed /\ call \in {"Stop", "Delete"} /\ ~paused'
              /\ api' = IF call = "Delete" THEN "release" ELSE "idle"
              /\ UNCHANGED <<call, constructed, lost>>
            BY <2>1 DEF Stop
        <3>2. quit' <=> call = "Delete"
            BY <2>1 DEF Stop
        <3> QED
            BY <3>1, <3>2
    <2>2. CASE Pause
        BY <2>2 DEF Pause
    <2> QED
        BY <1>8, <2>1, <2>2
<1>9. CASE Seek \/ Set \/ SetLosesVideo
    <2>1. /\ constructed /\ api = "locked" /\ call \in {"Seek", "Set"} /\ ~quit
          /\ UnlockThreads("idle") \/ api' = "crashed"
          /\ UNCHANGED <<call, constructed, quit, paused>>
        <3>1. CASE Seek \/ Set
            BY <3>1 DEF Seek, Set
        <3>2. CASE SetLosesVideo
            BY <3>2 DEF SetLosesVideo
        <3> QED
            BY <1>9, <3>1, <3>2
    <2>2. api' \in {"idle", "unlock", "crashed"}
        BY <2>1 DEF UnlockThreads
    <2>4. lost' => HasVideo
        BY <1>9 DEF Seek, Set, SetLosesVideo, VideoOpen
    <2>3. paused => (api' = "idle" /\ lockCount' = 1) \/ api' = "crashed"
        BY <2>1 DEF UnlockThreads
    <2> QED
        BY <2>1, <2>2, <2>3, <2>4
<1>10. CASE Unpause
    BY <1>10 DEF Unpause, Ready, UnlockThreads
<1>11. CASE Delete
    BY <1>11 DEF Delete, LockThreads, Ready, IsPlaying, LockInv, Between, TypeOK
<1>12. CASE ReleaseThreads
    BY <1>12 DEF ReleaseThreads, UnlockThreads
<1> QED
    BY <1>1, <1>2, <1>3, <1>4, <1>5, <1>6, <1>7, <1>8, <1>9, <1>10, <1>11,
       <1>12 DEF Api, Call

-----------------------------------------------------------------------------
LEMMA InitInv == Init => IInv
<1> SUFFICES ASSUME Init PROVE IInv
    OBVIOUS
<1>1. TypeOK
    <2>1. buffered \in BOOLEAN
        BY DEF Init
    <2>2. /\ dropping = FALSE /\ timeStarted = FALSE /\ hangup = FALSE
          /\ quit = FALSE /\ initialized = FALSE /\ paused = FALSE
          /\ constructed = FALSE /\ renderer = FALSE /\ lost = FALSE
        BY DEF Init
    <2>3. /\ holder \in [Mutexes -> Threads \cup {"api", "none"}]
          /\ pc \in [Threads -> Places]
        BY DEF Init, Places
    <2>4. /\ ready \in 0 .. (Buffers - 1) /\ lockCount \in 0 .. 3
          /\ api = "idle" /\ call = "none"
        BY BufferAssumption DEF Init
    <2> QED
        BY <2>1, <2>2, <2>3, <2>4 DEF TypeOK
<1>2. Held = {}
    BY DEF Init, Held
<1>3. MutexInv
    BY ThreadNames DEF Init, MutexInv, Away, WithQueue, WithDecoder, Mutexes
<1>4. LockInv /\ CallInv
    BY <1>2 DEF Init, LockInv, CallInv, Between, Orphans
<1>5. ThreadInv
    BY BufferAssumption DEF Init, ThreadInv, RendererAlive, InDropFrame, Parked
<1> QED
    BY <1>1, <1>3, <1>4, <1>5 DEF IInv

LEMMA StepKeepsInv ==
    ASSUME StartFirst, IInv, [Next]_vars
    PROVE  IInv'
<1>1. CASE UNCHANGED vars
    BY <1>1 DEF vars, streamVars, flagVars, stateVars, apiVars, IInv, TypeOK,
                MutexInv, LockInv, CallInv, ThreadInv, RendererAlive, Held,
                LockSet, LockOrder, VideoOpen, Orphans, IsPlaying
<1>2. CASE Api
    <2>1. MutexInv' /\ LockInv'
        BY <1>2, CallerKeepsLocks DEF IInv
    <2>2. TypeOK' /\ CallInv' /\ ThreadInv'
        BY <1>2, <2>1, CallerTypes, CallerKeepsCalls, CallerKeepsPlaces DEF IInv
    <2> QED
        BY <2>1, <2>2 DEF IInv
<1>3. ASSUME NEW t \in Threads, Step(t) \/ SpuriousWakeup(t)
      PROVE  IInv'
    BY <1>3, ThreadKeepsInv
<1> QED
    BY <1>1, <1>2, <1>3 DEF Next

LEMMA Invariance ==
    ASSUME StartFirst
    PROVE  Spec => []IInv
<1>1. IInv /\ [Next]_vars => IInv'
    BY StepKeepsInv
<1> QED
    BY <1>1, InitInv, PTL DEF Spec

-----------------------------------------------------------------------------
(* The theorems *)

\* Every variable keeps its type; no more frames are decoded than there are
\* buffers less one, and no call locks more than twice on top of another.
THEOREM TypeCorrect ==
    ASSUME StartFirst
    PROVE  Spec => []TypeOK
<1>1. IInv => TypeOK
    BY DEF IInv
<1> QED
    BY <1>1, Invariance, PTL

\* lockThreads: who has called it is alone with the streams and the renderer.
THEOREM MutualExclusion ==
    ASSUME StartFirst
    PROVE  Spec => []AllParked
<1>1. IInv => AllParked
    BY LockedAreAway DEF IInv, AllParked, Away, Parked
<1> QED
    BY <1>1, Invariance, PTL

\* unlockThreads: the caller has every mutex it is about to release.
THEOREM UnlocksItsOwn ==
    ASSUME StartFirst
    PROVE  Spec => []OwnsWhatItUnlocks
<1>1. ASSUME IInv PROVE OwnsWhatItUnlocks
    <2>1. ASSUME Unlocking PROVE api \in Between /\ lockCount > 0
        BY <1>1, <2>1 DEF IInv, Unlocking, IsPlaying, LockInv, CallInv, Between,
                          TypeOK
    <2> QED
        BY <1>1, <2>1 DEF IInv, LockInv, OwnsWhatItUnlocks
<1> QED
    BY <1>1, Invariance, PTL

\* Between calls m_bInitialized says whether the threads are locked, and a
\* paused player has them locked.
THEOREM LocksPaired ==
    ASSUME StartFirst
    PROVE  Spec => []PlayingUnlocked
<1>1. IInv => PlayingUnlocked
    BY DEF IInv, TypeOK, LockInv, CallInv, Between, PlayingUnlocked
<1> QED
    BY <1>1, Invariance, PTL

\* Stop and Set never take the renderer from the audio thread in a call of it.
THEOREM RendererKept ==
    ASSUME StartFirst
    PROVE  Spec => []RendererAlive
<1>1. IInv => RendererAlive
    BY DEF IInv, ThreadInv
<1> QED
    BY <1>1, Invariance, PTL

\* dropFrame: the decoder whose mutex is taken is at rest, and has not ended.
THEOREM DropFrameCorrect ==
    ASSUME StartFirst
    PROVE  Spec => []DropFrameSafe
<1>1. ASSUME IInv, NEW t \in Droppers, pc[t] \in InDropFrame
      PROVE  "decoder" \in Threads
    <2>1. t = "audio" \/ HasVideo
        BY ThreadNames DEF Droppers, Threads
    <2> QED
        BY <1>1, <2>1 DEF IInv, ThreadInv, Droppers, Threads
<1>2. IInv => DecoderStopped
    <2>1. ASSUME IInv, NEW t \in Droppers, pc[t] \in WithDecoder
          PROVE  pc["decoder"] \in Away
        <3>1. "decoder" \in Threads /\ holder["decoder"] # "decoder"
            BY <1>1, <2>1 DEF IInv, MutexInv, WithDecoder, InDropFrame, Droppers
        <3> QED
            BY <2>1, <3>1 DEF IInv, MutexInv
    <2> QED
        BY <2>1 DEF DecoderStopped, WithDecoder, Away
<1>3. IInv => NoDeadOwner
    BY <1>1 DEF IInv, ThreadInv, NoDeadOwner, Parked, InDropFrame, Droppers
<1> QED
    BY <1>2, <1>3, Invariance, PTL DEF DropFrameSafe

\* checkSync: who sleeps there after the hang-up has its broadcast to come.
THEOREM ResumeKept ==
    ASSUME StartFirst
    PROVE  Spec => []NoLostResume
<1>1. ASSUME IInv, NEW t \in Threads, pc[t] = "hung",
             ~hangup \/ api = "join"
      PROVE  holder[t] = "api" /\ (api = "unlock" \/ t \in Orphans)
    <2>1. ~hangup /\ holder[t] = "api" /\ lockCount = 0
        BY <1>1 DEF IInv, TypeOK, LockInv, ThreadInv
    <2>2. api = "unlock" \/ Held = Orphans
        BY <1>1, <2>1 DEF IInv, TypeOK, LockInv, Between
    <2>3. t \in Held
        BY <2>1, ThreadNames DEF Held
    <2> QED
        BY <2>1, <2>2, <2>3
<1>2. IInv => NoLostResume
    BY <1>1 DEF NoLostResume
<1> QED
    BY <1>2, Invariance, PTL
=============================================================================

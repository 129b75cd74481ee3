---------------------------- MODULE StreamCache ----------------------------
(***************************************************************************)
(* The chunk cache of the AVI reader: class Cache of                       *)
(* src/lib/aviread/Cache.{h,cpp}.  One caching thread (threadfunc) reads   *)
(* chunks ahead into one ring per stream; the threads that play a stream   *)
(* take them with readPacket; one mutex and one condition variable serve   *)
(* all of them.                                                            *)
(*                                                                         *)
(* A stretch of code run with the mutex held is one action.  The caching   *)
(* thread keeps the mutex from storing a chunk to its next pick: there its *)
(* pc is "locked" and every other critical section waits.  A thread asleep *)
(* in cond.Wait has pc "wait"; Broadcast moves it to "lock", where it      *)
(* waits for the mutex.                                                    *)
(***************************************************************************)
EXTENDS Integers, Sequences

CONSTANTS
    NStreams,       \* number of streams; stream ids are 0 .. NStreams - 1
    TableSize,      \* TableSize[s]: number of chunks in the index of stream s
    Before,         \* Before[s][p]: bytes of stream s in the chunks before p
    MayFail,        \* MayFail[s]: the chunks of s whose read may fail
    CacheSize,      \* CACHE_SIZE = m_uiSize: slots of each packet ring
    SizeLimit,      \* STREAM_SIZE_LIMIT: bytes prefetched for each stream
    MaxClears,      \* bound: calls of clear() before the destructor's
    SpuriousWakeups \* whether cond.Wait may return without a broadcast

Streams == 0 .. NStreams - 1
Chunks(s) == 0 .. TableSize[s] - 1

NoPacket == -1      \* the null pointer readPacket returns
OK == -1            \* StreamEntry::OK, ~0U: no chunk has this number

ASSUME StreamsAssumption == NStreams \in Nat \ {0}

\* The index has 32-bit entries, a chunk a length that is not negative.
ASSUME TableAssumption ==
    /\ TableSize \in [Streams -> Nat]
    /\ \A s \in Streams :
        /\ Before[s] \in [0 .. TableSize[s] -> Nat]
        /\ \A p \in Chunks(s) : Before[s][p] <= Before[s][p + 1]
        /\ MayFail[s] \subseteq Chunks(s)

\* An empty ring must be worth filling, whatever the two limits are.
ASSUME LimitAssumption ==
    /\ CacheSize \in Nat /\ CacheSize >= 2
    /\ SizeLimit \in Nat /\ SizeLimit >= 2

ASSUME BoundAssumption == MaxClears \in Nat /\ SpuriousWakeups \in BOOLEAN

\* Bytes of chunk p of stream s, the size of its StreamPacket.
ChunkSize(s, p) == Before[s][p + 1] - Before[s][p]

VARIABLES
    packets,    \* packets[s]: the chunks in the ring of s, front first
    position,   \* position[s]: "needed chunk" of the last miss
    sum,        \* sum[s]: cached bytes of s
    last,       \* last[s]: the chunk of s to read next
    error,      \* error[s]: the chunk whose read failed, or OK
    filling,    \* filling[s]: the prefetch has not yet met the byte limit
    uiId,       \* m_uiId: the stream served first by the next pick
    quit,       \* m_bQuit
    cacher,     \* pc of the caching thread
    job,        \* the stream whose chunk the caching thread is reading
    reader,     \* reader[s]: pc of the thread that reads stream s
    want,       \* want[s]: argument of its current or last readPacket
    reply,      \* reply[s]: result of its last readPacket
    owner,      \* pc of the thread that creates and destroys the cache
    clears      \* calls of clear() so far

entryVars == <<packets, position, sum, last, error, filling>>
readerVars == <<reader, want, reply>>
vars == <<entryVars, uiId, quit, cacher, job, readerVars, owner, clears>>

\* Streams have been added, create() has not been called.
Init == /\ packets = [s \in Streams |-> <<>>]
        /\ position = [s \in Streams |-> 0]
        /\ sum = [s \in Streams |-> 0]
        /\ last = [s \in Streams |-> OK]
        /\ error = [s \in Streams |-> OK]
        /\ filling = [s \in Streams |-> FALSE]
        /\ uiId = 0
        /\ quit = FALSE
        /\ cacher = "none"
        /\ job = 0
        /\ reader = [s \in Streams |-> "idle"]
        /\ want = [s \in Streams |-> 0]
        /\ reply = [s \in Streams |-> NoPacket]
        /\ owner = "create"
        /\ clears = 0

-----------------------------------------------------------------------------
(* The mutex and the condition variable *)

MutexFree == cacher # "locked" /\ \A s \in Streams : reader[s] # "locked"

\* The thread with this pc goes on in its critical section or enters it.
Holds(pc) == pc = "locked" \/ (pc = "lock" /\ MutexFree)

\* A sleeper that has been woken has to take the mutex again.
Woken(pc) == IF pc = "wait" THEN "lock" ELSE pc

\* Broadcast, by the reader of stream s, which goes on with this pc.
BroadcastFrom(s, pc) ==
    /\ reader' = [t \in Streams |-> IF t = s THEN pc ELSE Woken(reader[t])]
    /\ cacher' = Woken(cacher)

\* Slip: the cacher does not broadcast.
WakeNobody == UNCHANGED reader

\* Broadcast by another thread.
WakeReaders == reader' = [t \in Streams |-> Woken(reader[t])]

-----------------------------------------------------------------------------
(* The thread that owns the cache: create(), clear() and the destructor *)

\* The new thread cannot broadcast before the creator sleeps.
Create == /\ owner = "create"
          /\ owner' = "wait"
          /\ cacher' = "start"
          /\ UNCHANGED <<entryVars, uiId, quit, job, readerVars, clears>>

CreateReturns == /\ owner = "lock" /\ MutexFree
                 /\ owner' = "open"
                 /\ UNCHANGED <<entryVars, uiId, quit, cacher, job, readerVars,
                                clears>>

EmptyRings == /\ packets' = [s \in Streams |-> <<>>]
              /\ sum' = [s \in Streams |-> 0]
              /\ position' = [s \in Streams |-> 0]
              /\ uiId' = 0

\* clear() from a thread that is not inside readPacket.
Clear == /\ owner = "open" /\ MutexFree
         /\ \E s \in Streams : reader[s] = "idle"
         /\ clears < MaxClears
         /\ clears' = clears + 1
         /\ EmptyRings
         /\ WakeReaders
         /\ cacher' = Woken(cacher)
         /\ UNCHANGED <<last, error, filling, quit, job, want, reply, owner>>

\* ~Cache(), once the threads that read packets have finished.
Destroy == /\ owner = "open" /\ MutexFree
           /\ \A s \in Streams : reader[s] = "idle"
           /\ quit' = TRUE
           /\ cacher' = Woken(cacher)
           /\ owner' = "join"
           /\ UNCHANGED <<entryVars, uiId, job, readerVars, clears>>

\* delete thread joins the caching thread; clear() then frees the packets.
Join == /\ owner = "join" /\ cacher = "done"
        /\ owner' = "closed"
        /\ EmptyRings
        /\ UNCHANGED <<last, error, filling, quit, cacher, job, readerVars,
                       clears>>

-----------------------------------------------------------------------------
(* The caching thread *)

\* startThreadfunc: tell create() that the thread runs.
StartThread == /\ cacher = "start" /\ MutexFree
               /\ cacher' = "lock"
               /\ owner' = Woken(owner)
               /\ WakeReaders
               /\ UNCHANGED <<entryVars, uiId, quit, job, want, reply, clears>>

\* packets.front() and packets.back()
FrontOf(s) == packets[s][1]
BackOf(s) == packets[s][Len(packets[s])]

\* Slip: count on from the chunk looked at last, read or not.
NextAfterLast(s) == IF packets[s] = <<>> THEN position[s] ELSE last[s] + 1

\* The next needed chunk of a stream, as pickChunk sees it.
NextChunk(s) == IF packets[s] = <<>> THEN position[s] ELSE BackOf(s) + 1

Full(s) == Len(packets[s]) + 1 >= CacheSize

Cachable(s) == /\ sum[s] < SizeLimit
               /\ NextChunk(s) < TableSize[s]
               /\ ~Full(s)
               /\ \/ filling[s]
                  \/ /\ sum[s] < SizeLimit \div 2
                     /\ Len(packets[s]) < CacheSize \div 2

\* How many streams pickChunk tries before s: it goes round from m_uiId.
Turn(s) == (s - uiId + NStreams) % NStreams

Picks(s) == /\ Cachable(s)
            /\ \A t \in Streams : Turn(t) < Turn(s) => ~Cachable(t)

Pick == /\ Holds(cacher) /\ ~quit
        /\ \E s \in Streams :
            /\ Picks(s)
            /\ last' = [t \in Streams |-> IF Turn(t) <= Turn(s)
                                          THEN NextChunk(t) ELSE last[t]]
            /\ uiId' = s
            /\ job' = s
        /\ cacher' = "io"
        /\ WakeReaders
        /\ UNCHANGED <<packets, position, sum, error, filling, quit, want,
                       reply, owner, clears>>

\* Slip: m_uiId is left at WAIT.
PickNothingKeepsWait ==
    /\ Holds(cacher) /\ ~quit
    /\ \A s \in Streams : ~Cachable(s)
    /\ last' = [s \in Streams |-> NextChunk(s)]
    /\ uiId' = -1
    /\ cacher' = "wait"
    /\ WakeReaders
    /\ UNCHANGED <<packets, position, sum, error, filling, quit, job, want,
                   reply, owner, clears>>

\* No stream can take a chunk: sleep, and start over with stream 0.
PickNothing == /\ Holds(cacher) /\ ~quit
               /\ \A s \in Streams : ~Cachable(s)
               /\ last' = [s \in Streams |-> NextChunk(s)]
               /\ uiId' = 0
               /\ cacher' = "wait"
               /\ WakeReaders
               /\ UNCHANGED <<packets, position, sum, error, filling, quit,
                              job, want, reply, owner, clears>>

\* lseek64 or read fails, or the file ends inside the chunk.
ReadFails == /\ cacher = "io" /\ MutexFree
             /\ last[job] \in MayFail[job]
             /\ error' = [error EXCEPT ![job] = last[job]]
             /\ cacher' = "wait"
             /\ WakeReaders
             /\ UNCHANGED <<packets, position, sum, last, filling, uiId, quit,
                            job, want, reply, owner, clears>>

\* "check if we still want same buffer"
Unwanted == packets[job] = <<>> /\ position[job] # last[job]

Discard == /\ cacher = "io" /\ MutexFree
           /\ Unwanted
           /\ cacher' = "locked"
           /\ UNCHANGED <<entryVars, uiId, quit, job, readerVars, owner, clears>>

Store == /\ cacher = "io" /\ MutexFree
         /\ ~Unwanted
         /\ packets' = [packets EXCEPT ![job] = Append(@, last[job])]
         /\ sum' = [sum EXCEPT ![job] = @ + ChunkSize(job, last[job])]
         /\ filling' = [filling EXCEPT ![job] = sum'[job] <= SizeLimit]
         /\ error' = [error EXCEPT ![job] = OK]
         /\ cacher' = "locked"
         /\ UNCHANGED <<position, last, uiId, quit, job, readerVars, owner,
                        clears>>

LeaveThread == /\ Holds(cacher) /\ quit
               /\ cacher' = "done"
               /\ UNCHANGED <<entryVars, uiId, quit, job, readerVars, owner,
                              clears>>

Cacher == \/ StartThread \/ Pick \/ PickNothing
          \/ ReadFails \/ Discard \/ Store \/ LeaveThread

-----------------------------------------------------------------------------
(* readPacket, by the thread that reads stream s *)

CallRead(s, p) == /\ owner = "open" /\ reader[s] = "idle"
                  /\ p \in Chunks(s)
                  /\ reader' = [reader EXCEPT ![s] = "lock"]
                  /\ want' = [want EXCEPT ![s] = p]
                  /\ UNCHANGED <<entryVars, uiId, quit, cacher, job, reply,
                                 owner, clears>>

\* A position past the index.
RefuseRead(s) == /\ owner = "open" /\ reader[s] = "idle"
                 /\ want' = [want EXCEPT ![s] = TableSize[s]]
                 /\ reply' = [reply EXCEPT ![s] = NoPacket]
                 /\ UNCHANGED <<entryVars, uiId, quit, cacher, job, reader,
                                owner, clears>>

\* One turn of the loop takes the front packet off the ring ...
PopFront(s) == /\ Holds(reader[s])
               /\ packets[s] # <<>>
               /\ packets' = [packets EXCEPT ![s] = Tail(@)]
               /\ sum' = [sum EXCEPT ![s] = @ - ChunkSize(s, Head(packets[s]))]
               /\ UNCHANGED <<position, last, error, filling, uiId, quit, job,
                              want, owner, clears>>

\* ... and returns it, waking the others when the buffers are getting low,
ReadHit(s) == /\ PopFront(s)
              /\ Head(packets[s]) = want[s]
              /\ reply' = [reply EXCEPT ![s] = want[s]]
              /\ IF Len(packets[s]) - 1 < CacheSize \div 2
                 THEN BroadcastFrom(s, "idle")
                 ELSE /\ reader' = [reader EXCEPT ![s] = "idle"]
                      /\ UNCHANGED cacher

\* ... or frees it and tries the next one.
ReadSkip(s) == /\ PopFront(s)
               /\ Head(packets[s]) # want[s]
               /\ reader' = [reader EXCEPT ![s] = "locked"]
               /\ UNCHANGED <<cacher, reply>>

\* Slip: any error of the stream ends the read.
ReadAnyError(s) ==
    /\ Holds(reader[s])
    /\ packets[s] = <<>> /\ error[s] # OK
    /\ reply' = [reply EXCEPT ![s] = NoPacket]
    /\ BroadcastFrom(s, "idle")
    /\ UNCHANGED <<entryVars, uiId, quit, job, want, owner, clears>>

ReadError(s) == /\ Holds(reader[s])
                /\ packets[s] = <<>> /\ error[s] = want[s]
                /\ reply' = [reply EXCEPT ![s] = NoPacket]
                /\ BroadcastFrom(s, "idle")
                /\ UNCHANGED <<entryVars, uiId, quit, job, want, owner, clears>>

\* Slip: the reader sleeps without saying what it needs.
ReadMissUnannounced(s) ==
    /\ Holds(reader[s])
    /\ packets[s] = <<>> /\ error[s] # want[s]
    /\ BroadcastFrom(s, "wait")
    /\ UNCHANGED <<entryVars, uiId, quit, job, want, reply, owner, clears>>

ReadMiss(s) == /\ Holds(reader[s])
               /\ packets[s] = <<>> /\ error[s] # want[s]
               /\ uiId' = s
               /\ position' = [position EXCEPT ![s] = want[s]]
               /\ BroadcastFrom(s, "wait")
               /\ UNCHANGED <<packets, sum, last, error, filling, quit, job,
                              want, reply, owner, clears>>

\* The part of readPacket that runs with the mutex.
ReadStep(s) == ReadHit(s) \/ ReadSkip(s) \/ ReadError(s) \/ ReadMiss(s)

-----------------------------------------------------------------------------
\* POSIX lets pthread_cond_wait return unprompted.
SpuriousWakeup ==
    /\ SpuriousWakeups
    /\ \/ /\ cacher = "wait" /\ cacher' = "lock" /\ UNCHANGED <<reader, owner>>
       \/ /\ owner = "wait" /\ owner' = "lock" /\ UNCHANGED <<reader, cacher>>
       \/ /\ \E s \in Streams : /\ reader[s] = "wait"
                                /\ reader' = [reader EXCEPT ![s] = "lock"]
          /\ UNCHANGED <<cacher, owner>>
    /\ UNCHANGED <<entryVars, uiId, quit, job, want, reply, clears>>

Next == \/ Create \/ CreateReturns \/ Clear \/ Destroy \/ Join
        \/ Cacher
        \/ \E s \in Streams : \/ \E p \in Chunks(s) : CallRead(s, p)
                              \/ RefuseRead(s)
                              \/ ReadStep(s)
        \/ SpuriousWakeup

Spec == Init /\ [][Next]_vars

\* Each thread keeps running, and whoever waits for the mutex gets it sooner
\* or later; nobody has to call readPacket, clear() or the destructor.
Fairness == /\ SF_vars(Cacher)
            /\ \A s \in Streams : SF_vars(ReadStep(s))
            /\ WF_vars(Create) /\ SF_vars(CreateReturns) /\ WF_vars(Join)

FairSpec == Spec /\ Fairness

-----------------------------------------------------------------------------
(* Properties *)

Pcs == {"lock", "locked", "wait"}

TypeOK == /\ packets \in [Streams -> Seq(Nat)]
          /\ \A s \in Streams : packets[s] \in Seq(Chunks(s))
          /\ position \in [Streams -> Nat]
          /\ sum \in [Streams -> Int]
          /\ last \in [Streams -> Nat \cup {OK}]
          /\ error \in [Streams -> Nat \cup {OK}]
          /\ filling \in [Streams -> BOOLEAN]
          /\ uiId \in Streams
          /\ quit \in BOOLEAN
          /\ cacher \in Pcs \cup {"none", "start", "io", "done"}
          /\ job \in Streams
          /\ cacher = "io" => last[job] \in Chunks(job)
          /\ reader \in [Streams -> Pcs \cup {"idle"}]
          /\ want \in [Streams -> Nat]
          /\ reply \in [Streams -> Nat \cup {NoPacket}]
          /\ owner \in {"create", "wait", "lock", "open", "join", "closed"}
          /\ clears \in 0 .. MaxClears

\* The ring of a stream holds consecutive chunks, and the chunk being read
\* joins on to them, whatever the reader has taken meanwhile.
RingContiguous ==
    \A s \in Streams : packets[s] # <<>> =>
        /\ \A i \in 1 .. Len(packets[s]) :
            packets[s][i] = FrontOf(s) + (i - 1)
        /\ (cacher = "io" /\ job = s) => last[s] = BackOf(s) + 1

\* stream.sum, kept up by two threads, is the size of what the ring holds.
SumExact ==
    \A s \in Streams :
        sum[s] = IF packets[s] = <<>> THEN 0
                 ELSE Before[s][BackOf(s) + 1] - Before[s][FrontOf(s)]

\* The ring never fills its last slot, only its newest chunk may lie beyond
\* the byte limit, and there is room for the chunk being read.
WithinLimits ==
    /\ \A s \in Streams :
        /\ Len(packets[s]) <= CacheSize - 1
        /\ packets[s] # <<>> =>
            Before[s][BackOf(s)] - Before[s][FrontOf(s)] < SizeLimit
    /\ cacher = "io" => sum[job] < SizeLimit /\ Len(packets[job]) < CacheSize - 1

\* The rings while two threads, clear() and the destructor change them: what
\* is read fits what is there, the bytes are counted and the limits kept.
\* Inductive together with TypeOK.
RingInv == RingContiguous /\ SumExact /\ WithinLimits

\* A reader that sleeps for a chunk never sleeps beside a sleeping cacher.
NoMutualSleep ==
    cacher = "wait" => \A s \in Streams : reader[s] # "wait"

\* A reader sleeps only for what it has announced and nobody has answered:
\* its broadcast is never lost.
NoMissedAnswer ==
    cacher # "locked" =>
        \A s \in Streams : reader[s] = "wait" =>
            /\ position[s] = want[s]
            /\ packets[s] = <<>>
            /\ error[s] # want[s]

\* No wake-up is lost between the caching thread and the readers.
SleepInv == NoMutualSleep /\ NoMissedAnswer

\* The caller of readPacket sees no more than PacketSource promises: its own
\* chunk, or nothing if that very chunk could not be read.
Source == INSTANCE PacketSource
            WITH pending <- [s \in Streams |-> reader[s] # "idle"]

Delivers == Source!SafeSpec

\* While some reader waits, readers go on being answered.
Serves == Source!Spec

\* "quit caching thread": the destructor comes to its end.
QuitTerminates == owner = "join" ~> owner = "closed"
=============================================================================

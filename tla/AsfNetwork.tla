----------------------------- MODULE AsfNetwork -----------------------------
(***************************************************************************)
(* A stream that comes from a server: AsfNetworkInputStream                *)
(* (src/lib/aviread), its thread, the iterators it gives packets to and    *)
(* the pipe by which it is interrupted.                                    *)
(*                                                                         *)
(* The content is of the kind Prerecorded.  A packet is the unit of time   *)
(* it begins at; a request for time t is answered by a header, by the      *)
(* packets t + 1 to End and by the end of the transmission.  Whatever else *)
(* ends it (a closed connection, a wrong size, 20 seconds of silence) is   *)
(* one choice.  Packets that readContent throws away are not counted.      *)
(*                                                                         *)
(* Every section under m_Mutex is one action, and so is what is done       *)
(* without it to the next access of what both sides use.                   *)
(***************************************************************************)
EXTENDS Integers, Sequences, FiniteSetsExt

CONSTANTS
    Iterators,  \* one for each stream that is read, by the same number
    End,        \* packets of the content
    Cache,      \* CACHE_PACKETS: 160
    Near,       \* a seek that goes less far is ignored: 2000 ms
    MaxBytes    \* bound of the model: bytes in the pipe

ASSUME SizeAssumption == /\ Iterators # {}
                         /\ End \in Nat /\ Cache \in Nat \ {0}
                         /\ Near \in Nat /\ MaxBytes \in Nat \ {0}

VARIABLES
    at,         \* where the thread is
    known,      \* m_Ctype is not Unknown
    finished,   \* m_bFinished
    waiting,    \* m_bWaiting
    quit,       \* m_bQuit
    uiTime,     \* m_uiTime
    pipe,       \* bytes in m_iPipeFd
    headed,     \* the server has sent the header
    pos,        \* the last packet it has sent
    packets,    \* m_Packets of each iterator
    eof,        \* m_bEof of each iterator
    asking,     \* the iterators in getPacket
    seekId,     \* m_iSeekId, or {}
    user,       \* where the player is in its seek
    seek,       \* the iterator and the time of the seek, or {}
    sought      \* history: times sought and not yet requested

serverVars == <<headed, pos>>
flagVars == <<known, finished, waiting, quit>>
iterVars == <<packets, eof, asking>>
userVars == <<seekId, user, seek, sought>>
vars == <<at, flagVars, uiTime, pipe, serverVars, iterVars, userVars>>

(* The thread has found the headers, and waits for iterators. *)
Init == /\ at = "first" /\ known = TRUE /\ finished = TRUE
        /\ waiting = FALSE /\ quit = FALSE
        /\ uiTime = 0 /\ pipe = 0 /\ headed = FALSE /\ pos = 0
        /\ packets = [i \in Iterators |-> <<>>]
        /\ eof = [i \in Iterators |-> FALSE]
        /\ asking = {} /\ seekId = {} /\ user = "none"
        /\ seek = {} /\ sought = {}

-----------------------------------------------------------------------------
(* Helpers *)
Woken(t) == CASE t = "first" -> "begin" [] t = "wait" -> "woken" [] OTHER -> t

Broadcast == at' = Woken(at)

interrupt == Broadcast /\ pipe < MaxBytes /\ pipe' = pipe + 1

EmptyAll == packets' = [i \in Iterators |-> <<>>]

SetEof(b) == eof' = [i \in Iterators |-> b]

Least == Min({Len(packets[i]) : i \in Iterators})

\* Slip: the fullest iterator counts.
FullestFull == finished \/ Max({Len(packets[i]) : i \in Iterators}) >= Cache

\* Slip: one packet more.
FullLate == finished \/ Least > Cache

(* cacheSize() >= 1 *)
Full == finished \/ Least >= Cache

(* Of an iterator that is not read only the younger half is kept. *)
Kept(s) == IF Len(s) >= 2 * Cache /\ Len(s) % 2 = 0
           THEN SubSeq(s, Len(s) \div 2 + 1, Len(s))
           ELSE s

-----------------------------------------------------------------------------
(* The thread *)
Begin == /\ at = "begin"
         /\ finished' = TRUE /\ SetEof(FALSE) /\ at' = "clear"
         /\ UNCHANGED <<known, waiting, quit, uiTime, pipe, serverVars, packets,
                        asking, userVars>>

\* Slip: what the last request has left stays.
ClearNothing == UNCHANGED packets

ClearOld == EmptyAll

Clear == /\ at = "clear"
         /\ ClearOld
         /\ at' = "request"
         /\ UNCHANGED <<flagVars, uiTime, pipe, serverVars, eof, asking, userVars>>

Request == /\ at = "request" /\ known
           /\ headed' = FALSE /\ pos' = uiTime
           /\ sought' = {}
           /\ at' = "reply"
           /\ UNCHANGED <<flagVars, uiTime, pipe, iterVars, seekId, user, seek>>

ConnectFails == /\ at = "request"
                /\ quit' = TRUE /\ at' = "end"
                /\ UNCHANGED <<known, finished, waiting, uiTime, pipe, serverVars,
                               iterVars, userVars>>

(* Once the content is unknown nothing is requested any more. *)
SkipRequest == /\ at = "request" /\ ~known
               /\ at' = "check"
               /\ UNCHANGED <<flagVars, uiTime, pipe, serverVars, iterVars, userVars>>

(* checkContent: an interrupted reply is of unknown content. *)
Reply == /\ at = "reply"
         /\ \/ pipe = 0 /\ at' = "start" /\ UNCHANGED <<known, pipe>>
            \/ known' = FALSE /\ pipe' = 0 /\ at' = "check"
         /\ UNCHANGED <<finished, waiting, quit, uiTime, serverVars, iterVars,
                        userVars>>

Start == /\ at = "start"
         /\ finished' = FALSE /\ at' = "loop"
         /\ UNCHANGED <<known, waiting, quit, uiTime, pipe, serverVars, iterVars,
                        userVars>>

\* Slip: a full cache is thought to end it, too.
StopsAtQuit == quit

Stops == quit \/ finished

LoopEnds == /\ at = "loop" /\ Stops
            /\ at' = "left"
            /\ UNCHANGED <<flagVars, uiTime, pipe, serverVars, iterVars, userVars>>

FullCache == /\ at = "loop" /\ ~Stops /\ Full /\ pipe > 0
             /\ pipe' = pipe - 1 /\ at' = "left"
             /\ UNCHANGED <<flagVars, uiTime, serverVars, iterVars, userVars>>

\* Slip: a packet more than the content has.
ChunkPastEnd == CASE ~headed -> "header" [] pos <= End -> "data" [] OTHER -> "last"

Chunk == CASE ~headed -> "header" [] pos < End -> "data" [] OTHER -> "last"

ReadHead == /\ at = "loop" /\ ~Stops /\ ~Full
            /\ \/ pipe = 0 /\ at' = Chunk /\ UNCHANGED pipe
               \/ at' = "left" /\ pipe' = 0
            /\ UNCHANGED <<flagVars, uiTime, serverVars, iterVars, userVars>>

(* Whether the read of the last part of a header fails is not looked at: *)
(* the byte of an interrupt is lost.                                     *)
ReadHeader == /\ at = "header"
              /\ headed' = TRUE /\ pipe' = 0 /\ at' = "loop"
              /\ finished' \in {finished, TRUE}
              /\ UNCHANGED <<known, waiting, quit, uiTime, pos, iterVars, userVars>>

ReadData == /\ at = "data"
            /\ at' = "loop"
            /\ \/ /\ pipe = 0
                  /\ pos' = pos + 1
                  /\ packets' = [i \in Iterators |-> Kept(Append(packets[i], pos'))]
                  /\ UNCHANGED <<finished, pipe>>
               \/ finished' = TRUE /\ pipe' = 0 /\ UNCHANGED <<pos, packets>>
            /\ UNCHANGED <<known, waiting, quit, uiTime, headed, eof, asking, userVars>>

ReadLast == /\ at = "last"
            /\ finished' = TRUE /\ at' = "loop"
            /\ UNCHANGED <<known, waiting, quit, uiTime, pipe, serverVars, iterVars,
                           userVars>>

Leave == /\ at = "left"
         /\ SetEof(TRUE) /\ at' = "leave"
         /\ UNCHANGED <<flagVars, uiTime, pipe, serverVars, packets, asking, userVars>>

Left == /\ at = "leave"
        /\ finished' = TRUE /\ uiTime' = 0 /\ at' = "check"
        /\ UNCHANGED <<known, waiting, quit, pipe, serverVars, iterVars, userVars>>

Check == /\ at = "check"
         /\ at' = IF quit THEN "end" ELSE "sleep"
         /\ UNCHANGED <<flagVars, uiTime, pipe, serverVars, iterVars, userVars>>

Sleep == /\ at = "sleep"
         /\ waiting' = TRUE /\ at' = "wait"
         /\ UNCHANGED <<known, finished, quit, uiTime, pipe, serverVars, iterVars,
                        userVars>>

\* Slip: the time is cleared for the next request here.
WakeAtZero == /\ pipe' = 0 /\ uiTime' = 0

Wake == pipe' = 0 /\ UNCHANGED uiTime

Continue == /\ at = "woken"
            /\ Wake
            /\ at' = IF quit THEN "end" ELSE "begin"
            /\ UNCHANGED <<flagVars, serverVars, iterVars, userVars>>

Ends == /\ at = "end"
        /\ SetEof(TRUE) /\ EmptyAll /\ pipe' = 0 /\ at' = "gone"
        /\ UNCHANGED <<flagVars, uiTime, serverVars, asking, userVars>>

Thread == Begin \/ Clear \/ Request \/ ConnectFails \/ SkipRequest \/ Reply \/ Start \/ LoopEnds
          \/ FullCache \/ ReadHead \/ ReadHeader \/ ReadData \/ ReadLast
          \/ Leave \/ Left \/ Check \/ Sleep \/ Continue \/ Ends

-----------------------------------------------------------------------------
(***************************************************************************)
(* getPacket, by the thread of each stream, while the player does not      *)
(* seek.  It waits for half a second up to twenty times.                   *)
(***************************************************************************)
Ask(i) == /\ user = "none" /\ i \notin asking
          /\ asking' = asking \union {i}
          /\ UNCHANGED <<at, flagVars, uiTime, pipe, serverVars, packets, eof, userVars>>

GetPacket(i) ==
    /\ i \in asking
    /\ asking' = asking \ {i}
    /\ packets' = IF packets[i] = <<>> THEN packets
                  ELSE [packets EXCEPT ![i] = Tail(@)]
    /\ UNCHANGED <<at, flagVars, uiTime, pipe, serverVars, eof, userVars>>

WaitForPacket(i) ==
    /\ i \in asking /\ packets[i] = <<>> /\ ~eof[i] /\ ~waiting
    /\ Broadcast
    /\ UNCHANGED <<flagVars, uiTime, pipe, serverVars, iterVars, userVars>>

IsValid == /\ user # "gone" /\ finished /\ Max({Len(packets[i]) : i \in Iterators}) = 0
           /\ Broadcast
           /\ UNCHANGED <<flagVars, uiTime, pipe, serverVars, iterVars, userVars>>

-----------------------------------------------------------------------------
(***************************************************************************)
(* The player, with the threads of the streams locked: seekTime, which     *)
(* calls seekInternal, the application's interrupt, and the destructor.    *)
(***************************************************************************)
Distance(s, t) == IF s > t THEN s - t ELSE t - s

Idle == user = "none" /\ asking = {}

SeekTime == /\ Idle
            /\ \E i \in Iterators, t \in 0 .. End :
                 /\ seek' = {[by |-> i, time |-> t]}
                 /\ seekId' = IF seekId = {} THEN {i} ELSE seekId
                 /\ IF i \in seekId' /\ Distance(uiTime, t) >= Near
                    THEN finished' = TRUE /\ user' = "seek"
                    ELSE UNCHANGED finished /\ user' = "await"
            /\ UNCHANGED <<at, known, waiting, quit, uiTime, pipe, serverVars,
                           iterVars, sought>>

(* m_bWaiting is looked at without the lock: the thread may wait, or wake, *)
(* before the interrupt.                                                   *)
CheckWaiting == /\ user = "seek"
                /\ user' = IF waiting THEN "set" ELSE "interrupt"
                /\ UNCHANGED <<at, flagVars, uiTime, pipe, serverVars, iterVars,
                               seekId, seek, sought>>

InterruptThread == /\ user = "interrupt"
                   /\ interrupt
                   /\ user' = "poll"
                   /\ UNCHANGED <<flagVars, uiTime, serverVars, iterVars, seekId,
                                  seek, sought>>

PollEnds == /\ user = "poll" /\ (waiting \/ quit)
            /\ user' = "set"
            /\ UNCHANGED <<at, flagVars, uiTime, pipe, serverVars, iterVars, seekId,
                           seek, sought>>

(* A thread that does not wait though m_bWaiting says so will clear it. *)
SetTime == /\ user = "set"
           /\ \E s \in seek : /\ uiTime' = s.time
                            /\ sought' = IF at = "wait" THEN {s.time} ELSE {}
           /\ user' = "wake"
           /\ UNCHANGED <<at, flagVars, pipe, serverVars, iterVars, seekId, seek>>

WakeThread == /\ user = "wake"
              /\ interrupt
              /\ user' = "reset"
              /\ UNCHANGED <<flagVars, uiTime, serverVars, iterVars, seekId, seek,
                             sought>>

ResetWaiting == /\ user = "reset"
                /\ waiting' = FALSE /\ user' = "await"
                /\ UNCHANGED <<at, known, finished, quit, uiTime, pipe, serverVars,
                               iterVars, seekId, seek, sought>>

Await == /\ user = "await"
         /\ ~quit /\ \A s \in seek : ~eof[s.by] /\ packets[s.by] = <<>>
         /\ Broadcast
         /\ UNCHANGED <<flagVars, uiTime, pipe, serverVars, iterVars, userVars>>

SeekEnds == /\ user = "await"
            /\ user' = "none" /\ seek' = {}
            /\ UNCHANGED <<at, flagVars, uiTime, pipe, serverVars, iterVars, seekId,
                           sought>>

Interrupt == /\ Idle
             /\ interrupt
             /\ UNCHANGED <<flagVars, uiTime, serverVars, iterVars, userVars>>

Destroy == /\ Idle
           /\ quit' = TRUE /\ user' = "quit"
           /\ UNCHANGED <<at, known, finished, waiting, uiTime, pipe, serverVars,
                          iterVars, seekId, seek, sought>>

InterruptLast == /\ user = "quit"
                 /\ interrupt
                 /\ user' = "join"
                 /\ UNCHANGED <<flagVars, uiTime, serverVars, iterVars, seekId,
                                seek, sought>>

Join == /\ user = "join" /\ at = "gone"
        /\ user' = "gone"
        /\ UNCHANGED <<at, flagVars, uiTime, pipe, serverVars, iterVars, seekId,
                       seek, sought>>

Seek == CheckWaiting \/ InterruptThread \/ PollEnds \/ SetTime \/ WakeThread \/ ResetWaiting
        \/ SeekEnds

User == SeekTime \/ Seek \/ Await \/ Interrupt \/ Destroy \/ InterruptLast \/ Join

Stream(i) == Ask(i) \/ GetPacket(i)

Next == \/ Thread \/ User \/ IsValid
        \/ \E i \in Iterators : Stream(i) \/ WaitForPacket(i)

Spec == Init /\ [][Next]_vars

(* The threads run, and some stream is read whenever the player does not seek. *)
Fairness == /\ WF_vars(Thread) /\ WF_vars(Seek)
            /\ WF_vars(\E i \in Iterators : Stream(i))

FairSpec == Spec /\ Fairness

-----------------------------------------------------------------------------
Reading == {"loop", "header", "data", "last"}

TypeOK == /\ at \in Reading \union
               {"first", "begin", "clear", "request", "reply", "start", "left",
                "leave", "check", "sleep", "wait", "woken", "end", "gone"}
          /\ user \in {"none", "seek", "interrupt", "poll", "set", "wake", "reset",
                       "await", "quit", "join", "gone"}
          /\ known \in BOOLEAN /\ finished \in BOOLEAN /\ waiting \in BOOLEAN
          /\ quit \in BOOLEAN /\ headed \in BOOLEAN
          /\ uiTime \in 0 .. End /\ pos \in 0 .. End /\ pipe \in 0 .. MaxBytes
          /\ eof \in [Iterators -> BOOLEAN] /\ asking \subseteq Iterators

(***************************************************************************)
(* While a transmission is read every iterator has the packets that were   *)
(* read last, in their order and each once: what an earlier request has    *)
(* left is never before them, and what is given up of an iterator that is  *)
(* not read is the oldest (threadFunc, line 481, readContent, lines 1012   *)
(* to 1031).                                                               *)
(***************************************************************************)
QueuesInStep ==
    at \in Reading =>
        \A i \in Iterators :
            packets[i] = [k \in 1 .. Len(packets[i]) |-> pos - Len(packets[i]) + k]

(***************************************************************************)
(* However the streams are read, one that is not holds no more than twice  *)
(* the cache, and the thread reads no further ahead of all of them than    *)
(* the cache (cacheSize, lines 386 to 403, readContent, line 865).         *)
(***************************************************************************)
WithinCache == /\ \A i \in Iterators : Len(packets[i]) < 2 * Cache
               /\ Least <= Cache

(***************************************************************************)
(* A time that is sought while the thread waits is the time that is        *)
(* requested next: the end of the transmission before, the interrupts and  *)
(* whoever else wakes the thread do not put another in its place           *)
(* (seekInternal, lines 356 to 368, threadFunc, line 546).                 *)
(***************************************************************************)
SeekLands == [][at = "request" /\ at' = "reply" => sought \subseteq {pos'}]_vars

(***************************************************************************)
(* A seek that asks the thread to leave off comes to an end, whatever the  *)
(* thread is at, unless readContent has begun and cleared m_bFinished that *)
(* the seek had set (lines 356 to 365 and 859).                            *)
(***************************************************************************)
SeekReturns == user = "poll" ~> user # "poll" \/ ~finished

(***************************************************************************)
(* A transmission comes to its end though only one of the streams is read: *)
(* the others do not keep the thread waiting for room (cacheSize), unless  *)
(* the player seeks for ever.                                              *)
(***************************************************************************)
ReadToTheEnd ==
    <>[][~SeekTime]_vars =>
        (at \in Reading ~> at \notin Reading \/ user \in {"poll", "join", "gone"})
=============================================================================

--------------------------- MODULE PlayerThreads ---------------------------
(***************************************************************************)
(* The threads of the player: AviPlayer::lockThreads and unlockThreads,    *)
(* checkSync, dropFrame and the three loops of                             *)
(* src/lib/aviplay/aviplayth.cpp, with the calls of aviplay.cpp that start *)
(* and stop them.                                                          *)
(*                                                                         *)
(* Each thread runs with a mutex of its own (m_ThreadMut[t], called t) and *)
(* lets go of it only to sleep.  The decoded frames are under a fourth     *)
(* mutex, "queue".  lockThreads takes all four and leaves them to the      *)
(* caller, who goes on, plays with the streams and releases them at the    *)
(* unlockThreads that ends the outermost pair, or at a later call.         *)
(*                                                                         *)
(* Times (A-V difference, time since the start) are choices; so are the    *)
(* ends of the files.  One thread calls the interface, as its users do.    *)
(***************************************************************************)
EXTENDS Integers, Sequences

CONSTANTS
    HasVideo, HasAudio, \* which streams the clip has and could start
    VideoDropping,      \* m_bVideoDropping: dropFrame may drop
    Buffers,            \* frames of the video queue when it is buffered
    StartFirst,         \* whether the user's first call is Start
    SpuriousWakeups     \* whether an untimed Wait may return by itself

ASSUME StreamAssumption == HasVideo \in BOOLEAN /\ HasAudio \in BOOLEAN
                           /\ (HasVideo \/ HasAudio)
ASSUME BufferAssumption == Buffers \in Nat /\ Buffers >= 2
ASSUME SwitchAssumption == /\ VideoDropping \in BOOLEAN
                           /\ StartFirst \in BOOLEAN
                           /\ SpuriousWakeups \in BOOLEAN

Threads == (IF HasVideo THEN {"video", "decoder"} ELSE {})
           \cup (IF HasAudio THEN {"audio"} ELSE {})
Mutexes == {"video", "decoder", "audio", "queue"}

VARIABLES
    holder,      \* holder[m]: who has locked mutex m, or "none"
    pc,          \* pc[t]: where thread t is
    ready,       \* GetBuffering(): decoded frames in the video queue
    buffered,    \* m_bVideoBuffered
    dropping,    \* m_bDropping
    timeStarted, \* m_lTimeStart # 0
    hangup,      \* m_bHangup
    quit,        \* m_bQuit
    initialized, \* m_bInitialized
    paused,      \* m_bPaused
    constructed, \* m_bConstructed, and the streams are open
    renderer,    \* m_pAudioRenderer # 0
    lost,        \* m_pVideostream has been set to 0 for a failed restart
    lockCount,   \* m_iLockCount
    api,         \* where the thread that calls the interface is
    call         \* the last call that did something

streamVars == <<ready, buffered, dropping>>
stateVars == <<initialized, paused, constructed, renderer, lost>>
apiVars == <<api, call, lockCount>>
flagVars == <<timeStarted, hangup, quit>>
vars == <<holder, pc, streamVars, flagVars, stateVars, apiVars>>

Init == /\ holder = [m \in Mutexes |-> "none"]
        /\ pc = [t \in Threads |-> "none"]
        /\ ready = 0
        /\ buffered \in BOOLEAN
        /\ dropping = FALSE
        /\ timeStarted = FALSE
        /\ hangup = FALSE
        /\ quit = FALSE
        /\ initialized = FALSE
        /\ paused = FALSE
        /\ constructed = FALSE
        /\ renderer = FALSE
        /\ lost = FALSE
        /\ lockCount = 0
        /\ api = "idle"
        /\ call = "none"

\* m_pVideostream # 0; the threads made for the stream outlive it.
VideoOpen == HasVideo /\ constructed /\ ~lost
Opened == IF constructed THEN Threads ELSE {}

-----------------------------------------------------------------------------
(* Mutexes and condition variables *)

Free(m) == holder[m] = "none"
Take(m, who) == Free(m) /\ holder' = [holder EXCEPT ![m] = who]
Release(S) == holder' = [m \in Mutexes |-> IF m \in S THEN "none"
                                                      ELSE holder[m]]

Go(t, place) == pc' = [pc EXCEPT ![t] = place]

\* m_QueueCond.Broadcast by thread t, which goes on at place.
Notify(t, place) ==
    pc' = [u \in Threads |-> IF u = t THEN place
                             ELSE IF pc[u] = "sleep" THEN "awake"
                             ELSE pc[u]]

\* m_ThreadCond[t].Broadcast: only the untimed wait of checkSync needs it.
Resumed(t) == [pc EXCEPT ![t] = IF pc[t] = "hung" THEN "resumed" ELSE pc[t]]

-----------------------------------------------------------------------------
(* What the three loops have in common.  A thread is                       *)
(*   "outside"  about to lock its mutex and then to call checkSync: just   *)
(*              created, in a timed wait, or back from the queue's wait    *)
(*   "check"    in checkSync, with its mutex                               *)
(*   "hung"     in the wait of checkSync, "resumed" when woken there       *)
(*   "body"     past checkSync, with its mutex                             *)
(*   "sleep"    in m_QueueCond.Wait, "awake" when woken there              *)
(*   "exit"     done; it never unlocks its mutex                           *)

Enter(t) == /\ pc[t] = "outside"
            /\ Take(t, t)
            /\ Go(t, "check")
            /\ UNCHANGED <<streamVars, flagVars, stateVars, apiVars>>

CheckSync(t) ==
    /\ pc[t] = "check"
    /\ \/ ~quit /\ hangup /\ Release({t}) /\ Go(t, "hung")
       \/ ~quit /\ ~hangup /\ Go(t, "body") /\ UNCHANGED holder
       \/ quit /\ Go(t, "exit") /\ UNCHANGED holder
    /\ UNCHANGED <<streamVars, flagVars, stateVars, apiVars>>

\* The wait of checkSync returns; m_bHangup is not looked at again.
Resume(t) == /\ pc[t] = "resumed"
             /\ Take(t, t)
             /\ Go(t, IF quit THEN "exit" ELSE "body")
             /\ UNCHANGED <<streamVars, flagVars, stateVars, apiVars>>

\* The queue's wait returns with its mutex, which is unlocked at once.
LeaveQueue(t) == /\ pc[t] = "awake"
                 /\ Free("queue")
                 /\ Go(t, "outside")
                 /\ UNCHANGED <<holder, streamVars, flagVars, stateVars,
                                apiVars>>

SpuriousWakeup(t) ==
    /\ SpuriousWakeups /\ api # "crashed"
    /\ \/ pc[t] = "hung" /\ Go(t, "resumed")
       \/ pc[t] = "sleep" /\ Go(t, "awake")
    /\ UNCHANGED <<holder, streamVars, flagVars, stateVars, apiVars>>

\* m_QueueMutex.Lock() by thread t at one place, to go on at another.
LockQueue(t, from, to) ==
    /\ pc[t] = from
    /\ Take("queue", t)
    /\ Go(t, to)
    /\ UNCHANGED <<streamVars, flagVars, stateVars, apiVars>>

\* Slip: the thread keeps its own mutex when it waits for the queue.
SleepLocked(t) == /\ Notify(t, "sleep")
                  /\ Release({"queue"})

\* m_QueueCond.Wait without the thread's own mutex.
SleepOnQueue(t) == /\ Notify(t, "sleep")
                   /\ Release({"queue", t})

-----------------------------------------------------------------------------
(* dropFrame, called by the video or the audio thread with the queue       *)

Droppers == Threads \ {"decoder"}

\* Nothing dropped, or frames that wait are thrown away.
DropReady(t) ==
    /\ pc[t] = "drop"
    /\ Go(t, "dropped")
    /\ \/ UNCHANGED ready
       \/ /\ VideoDropping
          /\ ready' \in (IF buffered THEN 2 ELSE 1) .. (ready - 1)
    /\ UNCHANGED <<holder, buffered, dropping, flagVars, stateVars, apiVars>>

\* A key frame ahead is worth a seek: the decoder has to be stopped first.
DropSeek(t) ==
    /\ pc[t] = "drop" /\ VideoDropping /\ ready <= 1
    /\ dropping' = TRUE
    /\ Release({"queue"})
    /\ Go(t, "stopdecoder")
    /\ UNCHANGED <<ready, buffered, flagVars, stateVars, apiVars>>

\* Slip: the decoder is not stopped for the seek.
SeekAnyway(t) ==
    /\ pc[t] = "stopdecoder"
    /\ Go(t, "requeue")
    /\ UNCHANGED <<holder, streamVars, flagVars, stateVars, apiVars>>

StopDecoder(t) ==
    /\ pc[t] = "stopdecoder"
    /\ Take("decoder", t)
    /\ Go(t, "requeue")
    /\ UNCHANGED <<streamVars, flagVars, stateVars, apiVars>>

LockQueueAgain(t) == LockQueue(t, "requeue", "seek")

\* SeekToKeyFrame flushes the queue; then the decoder may go on.
SeekDropped(t) ==
    /\ pc[t] = "seek"
    /\ dropping' = FALSE
    /\ ready' = 0
    /\ pc' = [Resumed("decoder") EXCEPT ![t] = "dropped"]
    /\ Release({"decoder"})
    /\ UNCHANGED <<buffered, flagVars, stateVars, apiVars>>

\* Back in the caller: broadcast and unlock.
EndDrop(t) ==
    /\ pc[t] = "dropped"
    /\ Notify(t, IF t = "video" THEN "check" ELSE "extract")
    /\ Release({"queue"})
    /\ UNCHANGED <<streamVars, flagVars, stateVars, apiVars>>

DropFrame(t) == DropReady(t) \/ DropSeek(t) \/ StopDecoder(t)
                \/ LockQueueAgain(t) \/ SeekDropped(t) \/ EndDrop(t)

-----------------------------------------------------------------------------
(* videoThread *)

\* The end of the stream, or a frame that is not due: a timed wait.
VideoWait == /\ pc["video"] = "body"
             /\ timeStarted' \in {timeStarted, TRUE}
             /\ Release({"video"})
             /\ Go("video", "outside")
             /\ UNCHANGED <<streamVars, hangup, quit, stateVars, apiVars>>

\* The same with the vertical-blank device, which blocks without waiting.
VideoSync == /\ pc["video"] = "body"
             /\ timeStarted' = TRUE
             /\ Go("video", "check")
             /\ UNCHANGED <<holder, streamVars, hangup, quit, stateVars,
                            apiVars>>

VideoDue == /\ pc["video"] = "body"
            /\ timeStarted' = TRUE
            /\ Go("video", "toqueue")
            /\ UNCHANGED <<holder, streamVars, hangup, quit, stateVars,
                           apiVars>>

VideoLocksQueue == LockQueue("video", "toqueue", "fetch")

VideoSleeps == /\ pc["video"] = "fetch" /\ buffered /\ ready < 1
               /\ SleepOnQueue("video")
               /\ UNCHANGED <<streamVars, flagVars, stateVars, apiVars>>

\* GetFrame; unbuffered, it decodes the frame itself.  The queue is
\* unlocked while the frame is drawn.
Fetch == /\ pc["video"] = "fetch" /\ (buffered => ready >= 1)
         /\ ready' = IF ready = 0 THEN 0 ELSE ready - 1
         /\ \/ Go("video", "draw") /\ Release({"queue"})
            \/ Go("video", "fetched") /\ UNCHANGED holder
         /\ UNCHANGED <<buffered, dropping, flagVars, stateVars, apiVars>>

Drawn == LockQueue("video", "draw", "fetched")

\* A frame that is late enough calls dropFrame.
Fetched == /\ pc["video"] = "fetched"
           /\ Go("video", "drop") \/ Go("video", "dropped")
           /\ UNCHANGED <<holder, streamVars, flagVars, stateVars, apiVars>>

Video == VideoWait \/ VideoSync \/ VideoDue \/ VideoLocksQueue \/ VideoSleeps
         \/ Fetch \/ Drawn \/ Fetched \/ DropFrame("video")

-----------------------------------------------------------------------------
(* audioThread *)

AudioWithoutRenderer ==
    /\ pc["audio"] = "body" /\ ~renderer
    /\ Release({"audio"})
    /\ Go("audio", "outside")
    /\ UNCHANGED <<streamVars, flagVars, stateVars, apiVars>>

\* Far behind, the thread tries the queue to drop frames.
AudioBody ==
    /\ pc["audio"] = "body" /\ renderer
    /\ timeStarted' = TRUE
    /\ \/ VideoOpen /\ Take("queue", "audio") /\ Go("audio", "drop")
       \/ Go("audio", "extract") /\ UNCHANGED holder
    /\ UNCHANGED <<streamVars, hangup, quit, stateVars, apiVars>>

Extract == /\ pc["audio"] = "extract"
           /\ \/ Go("audio", "outside") /\ Release({"audio"})
              \/ Go("audio", "check") /\ UNCHANGED holder
           /\ UNCHANGED <<streamVars, flagVars, stateVars, apiVars>>

Audio == AudioWithoutRenderer \/ AudioBody \/ Extract \/ DropFrame("audio")

-----------------------------------------------------------------------------
(* decoderThread *)

\* Unbuffered, while frames are dropped, or soon after a seek.
DecoderWait == /\ pc["decoder"] = "body"
               /\ Release({"decoder"})
               /\ Go("decoder", "outside")
               /\ UNCHANGED <<streamVars, flagVars, stateVars, apiVars>>

DecoderDue == /\ pc["decoder"] = "body"
              /\ buffered /\ ~dropping /\ timeStarted
              /\ Go("decoder", "toqueue")
              /\ UNCHANGED <<holder, streamVars, flagVars, stateVars, apiVars>>

DecoderLocksQueue == LockQueue("decoder", "toqueue", "fetch")

\* Slip: the decoder only stops when every buffer is taken.
VeryFull == ready >= Buffers

QueueFull == ready >= Buffers - 1 /\ ready > 0

DecoderSleeps == /\ pc["decoder"] = "fetch" /\ QueueFull
                 /\ SleepOnQueue("decoder")
                 /\ UNCHANGED <<streamVars, flagVars, stateVars, apiVars>>

DecoderMayRead == /\ pc["decoder"] = "fetch" /\ ~QueueFull
                  /\ Release({"queue"})
                  /\ Go("decoder", "read")
                  /\ UNCHANGED <<streamVars, flagVars, stateVars, apiVars>>

\* ReadFrame, without the queue's mutex; it may fail or give no picture.
ReadFrame == /\ pc["decoder"] = "read"
             /\ \/ ready' = ready + 1 /\ Go("decoder", "decoded")
                \/ UNCHANGED ready /\ Go("decoder", "failed")
             /\ UNCHANGED <<holder, buffered, dropping, flagVars, stateVars,
                            apiVars>>

\* Slip: nobody is told of the new frame.
AnnounceNothing ==
    /\ pc["decoder"] \in {"decoded", "failed"} /\ Free("queue")
    /\ Go("decoder", IF pc["decoder"] = "decoded" THEN "check" ELSE "outside")
    /\ Release(IF pc["decoder"] = "decoded" THEN {} ELSE {"decoder"})
    /\ UNCHANGED <<streamVars, flagVars, stateVars, apiVars>>

\* Broadcast with the queue's mutex; after a failure comes a timed wait.
Announce ==
    /\ pc["decoder"] \in {"decoded", "failed"} /\ Free("queue")
    /\ \/ pc["decoder"] = "decoded" /\ Notify("decoder", "check")
          /\ UNCHANGED holder
       \/ pc["decoder"] = "failed" /\ Notify("decoder", "outside")
          /\ Release({"decoder"})
    /\ UNCHANGED <<streamVars, flagVars, stateVars, apiVars>>

Decoder == DecoderWait \/ DecoderDue \/ DecoderLocksQueue \/ DecoderSleeps
           \/ DecoderMayRead \/ ReadFrame \/ Announce

-----------------------------------------------------------------------------
(* lockThreads and unlockThreads, in the thread that calls the interface.  *)
(* That thread is "idle", or for its current call                          *)
(*   "lock"     taking the mutexes, "locked" when it has them              *)
(*   "start"    in Start, with the threads locked                          *)
(*   "unlock"   releasing the mutexes, the queue's being released          *)
(*   "release"  in the loop of the destructor, "join" after it, "gone"     *)
(*   "crashed"  ended, and the process with it, by the use of a null       *)
(*              m_pVideostream                                             *)

\* Slip: the audio thread is forgotten.
LockOrderNoAudio ==
    (IF VideoOpen THEN <<"video", "decoder">> ELSE <<>>)
    \o <<"queue">>

\* Without a video stream its two threads' mutexes are left alone.
LockOrder == (IF VideoOpen THEN <<"video", "decoder">> ELSE <<>>)
             \o <<"audio", "queue">>
UnlockOrder == <<"queue", "audio", "decoder", "video">>

Held == {m \in Mutexes : holder[m] = "api"}
FirstOf(order, S) == order[CHOOSE i \in DOMAIN order :
                             /\ order[i] \in S
                             /\ \A j \in 1 .. (i - 1) : order[j] \notin S]
LockSet == {LockOrder[i] : i \in DOMAIN LockOrder}

IsPlaying == initialized \/ paused

\* lockThreads by the call named c; only the outermost one locks.
LockThreads(c) ==
    /\ call' = c
    /\ lockCount' = lockCount + 1
    /\ IF lockCount = 0 THEN hangup' = TRUE /\ api' = "lock"
                        ELSE UNCHANGED hangup /\ api' = "locked"

NextMutex == FirstOf(LockOrder, LockSet \ Held)

\* With the last mutex the threads are locked; Start then goes on.
LockMutexes ==
    /\ api = "lock"
    /\ Take(NextMutex, "api")
    /\ IF LockSet \subseteq Held \cup {NextMutex}
       THEN /\ initialized' = FALSE
            /\ api' = IF call = "Start" THEN "start" ELSE "locked"
       ELSE UNCHANGED <<initialized, api>>
    /\ UNCHANGED <<pc, streamVars, flagVars, paused, constructed, renderer,
                   lost, call, lockCount>>

\* Slip: an inner unlockThreads unlocks, too.
UnlockAlways(place) ==
    /\ lockCount' = 0
    /\ timeStarted' = FALSE
    /\ hangup' = FALSE
    /\ initialized' = TRUE
    /\ pc' = [t \in Threads |-> IF pc[t] = "sleep" THEN "awake" ELSE pc[t]]
    /\ Release({"queue"})
    /\ api' = "unlock"

\* unlockThreads; an inner one only counts, and the caller is back at place.
UnlockThreads(place) ==
    IF lockCount > 1
    THEN /\ lockCount' = lockCount - 1
         /\ api' = place
         /\ UNCHANGED <<holder, pc, timeStarted, hangup, initialized>>
    ELSE /\ lockCount' = 0
         /\ timeStarted' = FALSE
         /\ hangup' = FALSE
         /\ initialized' = TRUE
         /\ pc' = [t \in Threads |-> IF pc[t] = "sleep" THEN "awake"
                                     ELSE pc[t]]
         /\ Release({"queue"})
         /\ api' = "unlock"

\* unlockThreads, too, leaves the mutexes of a video that is gone alone.
StillHeld == Held \cap LockSet

\* Slip: the thread whose mutex is unlocked is not woken.
UnlockQuietly ==
    /\ api = "unlock" /\ StillHeld # {}
    /\ Release({FirstOf(UnlockOrder, StillHeld)})
    /\ UNCHANGED <<pc, streamVars, flagVars, stateVars, apiVars>>

UnlockMutex ==
    /\ api = "unlock" /\ StillHeld # {}
    /\ LET m == FirstOf(UnlockOrder, StillHeld)
       IN Release({m}) /\ pc' = IF m \in Threads THEN Resumed(m) ELSE pc
    /\ UNCHANGED <<streamVars, flagVars, stateVars, apiVars>>

UnlockReturns ==
    /\ api = "unlock" /\ StillHeld = {}
    /\ api' = IF call = "Delete" THEN "release" ELSE "idle"
    /\ UNCHANGED <<holder, pc, streamVars, flagVars, stateVars, call,
                   lockCount>>

-----------------------------------------------------------------------------
(* The calls *)

\* For a call other than the first Start.
Ready == api = "idle" /\ (StartFirst => constructed)

\* construct() opens the streams, locks and unlocks for the subtitles and
\* creates the threads, which hang up at once; then it locks them.
FirstStart ==
    /\ api = "idle" /\ ~constructed
    /\ constructed' = TRUE
    /\ pc' = [t \in Threads |-> "outside"]
    /\ hangup' = TRUE
    /\ timeStarted' = FALSE
    /\ initialized' = (initialized \/ (HasVideo /\ lockCount = 0))
    /\ call' = "Start"
    /\ lockCount' = lockCount + 1
    /\ api' = IF lockCount = 0 THEN "lock" ELSE "start"
    /\ UNCHANGED <<holder, streamVars, quit, paused, renderer, lost>>

StartAgain ==
    /\ api = "idle" /\ constructed /\ ~IsPlaying
    /\ call' = "Start"
    /\ api' = "start"
    /\ UNCHANGED <<holder, pc, streamVars, flagVars, stateVars, lockCount>>

\* "already started" if the player is playing.  Without a renderer and without
\* video Start returns with the threads locked.
Start ==
    /\ api = "start"
    /\ renderer' \in (IF HasAudio /\ ~IsPlaying THEN BOOLEAN ELSE {renderer})
    /\ IF ~IsPlaying /\ (renderer' \/ VideoOpen)
       THEN quit' = FALSE /\ paused' = FALSE /\ UnlockThreads("idle")
       ELSE api' = "idle" /\ UNCHANGED <<holder, pc, lockCount, timeStarted,
                                         hangup, initialized, quit, paused>>
    /\ UNCHANGED <<streamVars, constructed, lost, call>>

CallLocking(c) ==
    /\ LockThreads(c)
    /\ UNCHANGED <<holder, pc, streamVars, timeStarted, quit, stateVars>>

CallStop == Ready /\ IsPlaying /\ CallLocking("Stop")
CallPause == Ready /\ IsPlaying /\ ~paused /\ CallLocking("Pause")
\* Reseek, NextFrame, PrevKeyFrame, Restart, ...
CallSeek == Ready /\ IsPlaying /\ CallLocking("Seek")
\* Set, SetVideoRenderers, SetAudioFunc: no need to be playing.
CallSet == Ready /\ CallLocking("Set")

Call == CallStop \/ CallPause \/ CallSeek \/ CallSet

\* Stop, whose caller is left with the threads locked.
Stop == /\ api = "locked" /\ call \in {"Stop", "Delete"}
        /\ renderer' = FALSE
        /\ paused' = FALSE
        /\ ready' = 0
        /\ api' = IF call = "Delete" THEN "release" ELSE "idle"
        /\ quit' = (call = "Delete")
        /\ UNCHANGED <<holder, pc, buffered, dropping, timeStarted, hangup,
                       initialized, constructed, lost, call, lockCount>>

Pause == /\ api = "locked" /\ call = "Pause"
         /\ paused' = TRUE
         /\ api' = "idle"
         /\ UNCHANGED <<holder, pc, streamVars, flagVars, initialized,
                        constructed, renderer, lost, call, lockCount>>

\* The queue is flushed, or a frame taken.
Seek == /\ api = "locked" /\ call = "Seek"
        /\ ready' \in 0 .. ready
        /\ UnlockThreads("idle")
        /\ UNCHANGED <<buffered, dropping, quit, paused, constructed, renderer,
                       lost, call>>

\* The buffering may change (a new queue), the renderer be made anew, the
\* video be restarted for other codecs.
Set == /\ api = "locked" /\ call = "Set"
       /\ \/ buffered' \in BOOLEAN /\ ready' = 0 /\ UNCHANGED renderer
          \/ /\ renderer' \in (IF "audio" \in Opened THEN BOOLEAN ELSE {FALSE})
             /\ UNCHANGED <<ready, buffered>>
       /\ UnlockThreads("idle")
       /\ UNCHANGED <<dropping, quit, paused, constructed, lost, call>>

\* restartVideoStreaming fails, which only its own function looks at: what
\* follows seeks in the stream that is gone if there is a renderer.
SetLosesVideo ==
    /\ api = "locked" /\ call = "Set" /\ VideoOpen
    /\ lost' = TRUE /\ ready' = 0
    /\ IF renderer
       THEN api' = "crashed" /\ UNCHANGED <<holder, pc, timeStarted, hangup,
                                            initialized, lockCount>>
       ELSE UnlockThreads("idle")
    /\ UNCHANGED <<buffered, dropping, quit, paused, constructed, renderer,
                   call>>

\* Pause(false) and Play.
Unpause == /\ Ready /\ paused
           /\ call' = "Play"
           /\ paused' = FALSE
           /\ UnlockThreads("idle")
           /\ UNCHANGED <<streamVars, quit, constructed, renderer, lost>>

\* The destructor calls Stop first.
Delete == /\ Ready
          /\ IF IsPlaying
             THEN LockThreads("Delete") /\ UNCHANGED quit
             ELSE /\ call' = "Delete" /\ quit' = TRUE /\ api' = "release"
                  /\ UNCHANGED <<lockCount, hangup>>
          /\ UNCHANGED <<holder, pc, streamVars, timeStarted, stateVars>>

\* while (!m_bInitialized) unlockThreads();
ReleaseThreads ==
    /\ api = "release"
    /\ IF initialized
       THEN api' = "join" /\ UNCHANGED <<holder, pc, timeStarted, hangup,
                                         initialized, lockCount>>
       ELSE UnlockThreads("release")
    /\ UNCHANGED <<streamVars, quit, paused, constructed, renderer, lost,
                   call>>

\* The threads of a stream that is gone are waited for, too.
Join == /\ api = "join"
        /\ \A t \in Opened : pc[t] = "exit"
        /\ api' = "gone"
        /\ UNCHANGED <<holder, pc, streamVars, flagVars, stateVars, call,
                       lockCount>>

Api == LockMutexes \/ UnlockMutex \/ UnlockReturns \/ FirstStart
       \/ StartAgain \/ Start \/ Call \/ Stop \/ Pause \/ Seek \/ Set
       \/ SetLosesVideo \/ Unpause \/ Delete \/ ReleaseThreads \/ Join

-----------------------------------------------------------------------------
Step(t) == /\ api # "crashed"
           /\ \/ Enter(t) \/ CheckSync(t) \/ Resume(t) \/ LeaveQueue(t)
              \/ t = "video" /\ Video
              \/ t = "audio" /\ Audio
              \/ t = "decoder" /\ Decoder

Next == Api \/ \E t \in Threads : Step(t) \/ SpuriousWakeup(t)

Spec == Init /\ [][Next]_vars

\* Every thread runs, timed waits end, and who waits for a mutex that is free
\* again and again gets it.
Scheduling == /\ \A t \in Threads : SF_vars(Step(t))
              /\ SF_vars(api # "idle" /\ Api)

\* The decoder's pause after a seek ends, a decoded frame becomes due.
TimePasses == HasVideo => /\ SF_vars(DecoderDue)
                          /\ SF_vars(ready > 0 /\ VideoDue)

FairSpec == Spec /\ Scheduling

-----------------------------------------------------------------------------
(* Properties *)

Places == {"none", "outside", "check", "hung", "resumed", "body", "toqueue",
           "fetch", "draw", "fetched", "drop", "stopdecoder", "requeue",
           "seek", "dropped", "extract", "read", "decoded", "failed",
           "sleep", "awake", "exit"}
Calls == {"Start", "Stop", "Pause", "Seek", "Set", "Play", "Delete"}

\* Every variable keeps its type; the decoder, which adds a frame without the
\* queue's mutex, leaves one buffer for the image that is being drawn.
TypeOK == /\ holder \in [Mutexes -> Threads \cup {"api", "none"}]
          /\ pc \in [Threads -> Places]
          /\ ready \in 0 .. (Buffers - 1)
          /\ buffered \in BOOLEAN /\ dropping \in BOOLEAN
          /\ timeStarted \in BOOLEAN /\ hangup \in BOOLEAN /\ quit \in BOOLEAN
          /\ initialized \in BOOLEAN /\ paused \in BOOLEAN
          /\ constructed \in BOOLEAN /\ renderer \in BOOLEAN
          /\ lost \in BOOLEAN
          /\ lockCount \in 0 .. 3
          /\ api \in {"idle", "lock", "locked", "start", "unlock", "release",
                      "join", "gone", "crashed"}
          /\ call \in Calls \cup {"none"}

\* Places where a thread touches neither the streams nor the renderer.
Parked == {"none", "outside", "hung", "resumed", "sleep", "awake", "exit"}

\* lockThreads has returned and unlockThreads has not been called since.
Locked == lockCount > 0 /\ api \notin {"lock", "unlock"}

\* "now we have all threads locked": whoever has called lockThreads is alone
\* with the streams and the renderer, whatever the threads were doing.
AllParked == Locked => \A t \in Threads : pc[t] \in Parked

\* A thread that is not parked has its own mutex.
OwnMutex == \A t \in Threads : pc[t] \notin Parked => holder[t] = t

\* While a thread flushes the queue in dropFrame the decoder is not reading
\* into it.
DecoderStopped ==
    \A t \in Droppers : pc[t] \in {"requeue", "seek"}
        => pc["decoder"] \notin {"body", "read"}

\* The audio thread never goes on with a renderer that Stop has deleted.
RendererAlive ==
    "audio" \in Threads /\ pc["audio"] \in {"drop", "stopdecoder", "requeue",
                                          "seek", "dropped", "extract"}
        => renderer

\* Nobody waits for the mutex of a thread that has ended with it.
NoDeadOwner == \A t \in Droppers :
                  pc[t] = "stopdecoder" => holder["decoder"] # "decoder"
                                           \/ pc["decoder"] # "exit"

\* The decoder whose mutex dropFrame takes is neither at work nor gone.
DropFrameSafe == DecoderStopped /\ NoDeadOwner

\* The threads of a stream that is gone keep sleeping, and their mutexes
\* keep locked by a caller who is back.
Orphans == IF lost THEN {"video", "decoder"} ELSE {}

\* A thread that sleeps in checkSync after the hang-up has been lifted, or
\* the player is being deleted, has its broadcast still to come, unless it
\* was made for a stream that is gone: to that one it never comes.
NoLostResume ==
    \A t \in Threads :
        pc[t] = "hung" /\ (~hangup \/ api = "join")
            => holder[t] = "api" /\ (api = "unlock" \/ t \in Orphans)

\* When the outermost unlockThreads comes the mutexes are the caller's.
Unlocking == \/ api = "start" /\ ~IsPlaying
             \/ api = "locked" /\ call \in {"Seek", "Set"}
             \/ api = "idle" /\ paused
             \/ api = "release" /\ ~initialized
OwnsWhatItUnlocks == Unlocking /\ lockCount <= 1 => LockSet \subseteq Held

\* Between calls the player is playing exactly when nobody has its threads
\* locked, and a paused one is locked; of their mutexes the caller then has
\* all or none, but for those that a failed restart has left locked for good.
PlayingUnlocked ==
    api = "idle" /\ constructed
        => /\ initialized <=> lockCount = 0
           /\ paused => lockCount > 0
           /\ Held = (IF lockCount = 0 THEN {} ELSE LockSet) \cup Orphans

\* Start starts: "Player immediately starts playing".
StartPlays == api = "idle" /\ call = "Start" => initialized

\* Every call returns, the destructor too, with two exceptions that both
\* come of a failed restart of the video: the call itself crashes when there
\* is a renderer, and otherwise the destructor, at last, waits for ever for
\* the threads whose mutexes were left locked.
CallsReturn ==
    api # "idle" ~> \/ api \in {"idle", "gone"}
                    \/ lost /\ api \in {"crashed", "join"}

\* A thread that waits for the video queue is woken while the player plays,
\* if time passes.
QueueServed == TimePasses => \A t \in Threads :
    pc[t] = "sleep" /\ initialized ~> pc[t] # "sleep" \/ ~initialized
=============================================================================

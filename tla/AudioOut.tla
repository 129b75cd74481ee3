------------------------------ MODULE AudioOut ------------------------------
(***************************************************************************)
(* The sound of a player: the audio thread extracts chunks of the stream   *)
(* into AudioQueue, the thread of OssAudioRenderer reads them from there   *)
(* into the sound card, which plays them (src/lib/aviplay).                *)
(*                                                                         *)
(* Sound is counted in units, numbered from 1 in the order of the stream,  *)
(* and so are times: a position is the number of units before it.  The     *)
(* queue's mutex needs no variable: the output thread has it from the      *)
(* moment it runs until it waits, and every other section under it is one  *)
(* action.  The user calls Seek, Pause and the destructor with the audio   *)
(* thread locked in checkSync (PlayerThreads).                             *)
(***************************************************************************)
EXTENDS Integers, SequencesExt

CONSTANTS
    End,        \* units in the stream
    FrameSizes, \* how many units ReadFrames may return, resampled
    MaxBufs,    \* chunks that make the queue full: 63
    MaxBuffer,  \* MAX_BUFFER_TIME, 1 second
    Slack,      \* what Eof() takes for an empty queue: less than 0.01 second
    WriteSize,  \* m_uiWriteSize, a fragment of the card: 4096 bytes
    DeviceSize, \* what the card holds: asked are 8 fragments, 32768 bytes
    SilenceSize,\* what is written after a short read: 32768 bytes
    Asyncs      \* the corrections of the sound's time a user may set

(* A queue that is full has a fragment for the card to read.  What the     *)
(* driver gives for the fragments asked for is not checked, so nothing     *)
(* relates the card to the silence.                                        *)
ASSUME SizeAssumption ==
    /\ End \in Nat /\ Slack \in Nat /\ MaxBufs \in Nat \ {0}
    /\ FrameSizes \subseteq Nat
    /\ WriteSize \in 1 .. DeviceSize /\ DeviceSize \in Nat
    /\ SilenceSize \in Nat /\ Asyncs \subseteq Int
    /\ MaxBuffer >= WriteSize
    /\ \A n \in FrameSizes \ {0} : n * MaxBufs >= WriteSize

VARIABLES
    streamPos,  \* units the stream has been read to
    bufs,       \* m_Bufs: of each chunk the units that are not read
    bufSize,    \* m_uiBufSize
    device,     \* what the card still has to play; 0 is silence
    audio,      \* where the audio thread is
    frame,      \* what it has read and not yet written to the queue
    audioPaused,\* `paused' of the audio thread
    out,        \* where the output thread is
    silence,    \* how much silence it has still to write
    initialized,\* m_bInitialized
    paused,     \* m_bPaused
    quit,       \* m_bQuit
    async,      \* m_fAsync
    streamTime, \* m_dStreamTime
    realpos,    \* m_dAudioRealpos
    held,       \* whether m_dPauseTime holds the time
    played      \* history: the unit of the sound that was last heard, or
                \*   dropped with the card's buffer, or sought

queueVars == <<bufs, bufSize>>
audioVars == <<streamPos, audio, frame, audioPaused>>
outVars == <<out, silence>>
stateVars == <<initialized, paused, quit, async>>
timeVars == <<streamTime, realpos, held>>
vars == <<queueVars, device, audioVars, outVars, stateVars, timeVars, played>>

Init == /\ streamPos = 0 /\ bufs = <<>> /\ bufSize = 0 /\ device = <<>>
        /\ audio = "locked" /\ frame = <<>> /\ audioPaused = FALSE
        /\ out = "run" /\ silence = 0
        /\ initialized = FALSE /\ paused = FALSE /\ quit = FALSE
        /\ async \in Asyncs
        /\ streamTime = 0 /\ realpos = 0 /\ held = TRUE /\ played = 0

MutexFree == out \in {"wait", "gone"}

StreamEof == streamPos = End

NotBelow0(time) == IF time < 0 THEN 0 ELSE time

SoundsOf(units) ==
    FlattenSeq([i \in 1 .. Len(units) |->
                   IF units[i] = 0 THEN <<>> ELSE <<units[i]>>])

-----------------------------------------------------------------------------
(***************************************************************************)
(* AudioQueue.  A chunk that resampling has left nothing of is in the      *)
(* queue as any other; Read ends at it, as Mix returns 0.                  *)
(***************************************************************************)
IsFull == Len(bufs) >= MaxBufs \/ bufSize > MaxBuffer

Write(units) == /\ bufs' = Append(bufs, units)
                /\ bufSize' = bufSize + Len(units)

Clear == bufs' = <<>> /\ bufSize' = 0

Readable == LET nothing == {i \in 1 .. Len(bufs) : bufs[i] = <<>>}
            IN  FlattenSeq(IF nothing = {} THEN bufs
                           ELSE SubSeq(bufs, 1, Min(nothing) - 1))

(* The chunks that are left when n readable units are read: of the chunk   *)
(* with the n-th of them what is behind it, if anything, and the others.   *)
UnitsIn(chunks, k) == Len(FlattenSeq(SubSeq(chunks, 1, k)))

After(chunks, n) ==
    LET k    == Min({i \in 0 .. Len(chunks) : UnitsIn(chunks, i) >= n})
        left == UnitsIn(chunks, k) - n
        size == Len(chunks[k])
        rest == SubSeq(chunks, k + 1, Len(chunks))
    IN  IF left = 0 THEN rest
        ELSE <<SubSeq(chunks[k], size - left + 1, size)>> \o rest

Read(count) == SubSeq(Readable, 1,
                      IF Len(Readable) < count THEN Len(Readable) ELSE count)

\* Slip: the bytes asked for are counted, not those that were read.
TakeAsked(count) == /\ bufs' = After(bufs, Len(Read(count)))
                    /\ bufSize' = bufSize - count

Take(count) == /\ bufs' = After(bufs, Len(Read(count)))
               /\ bufSize' = bufSize - Len(Read(count))

-----------------------------------------------------------------------------
(* The sound card. *)
Play == /\ device # <<>>
        /\ device' = Tail(device)
        /\ played' = IF Head(device) = 0 THEN played ELSE Head(device)
        /\ UNCHANGED <<queueVars, audioVars, outVars, stateVars, timeVars>>

(* reset(): what the card has not played is dropped. *)
\* Slip: the card plays it.
KeepPlaying == UNCHANGED device

Reset == device' = <<>>

Dropped == LET sounds == SoundsOf(device)
           IN  IF sounds = <<>> THEN played ELSE sounds[Len(sounds)]

-----------------------------------------------------------------------------
(***************************************************************************)
(* IAudioRenderer.  Eof() compares what the queue and the card have with   *)
(* what the card has.  m_dPauseTime is the time, or -1 when the clock runs *)
(* from m_dAudioRealpos.                                                   *)
(***************************************************************************)
Eof == StreamEof /\ bufSize <= Slack

Pause(state) ==
    IF initialized /\ paused # state
    THEN /\ paused' = state
         /\ IF state THEN held' = TRUE /\ Reset /\ played' = Dropped
            ELSE UNCHANGED <<held, device, played>>
    ELSE UNCHANGED <<paused, held, device, played>>

\* Slip: what the card still has to play is forgotten.
TimerAhead == /\ held' = FALSE
              /\ IF held THEN realpos' = NotBelow0(streamTime - bufSize' - async)
                 ELSE UNCHANGED realpos

updateTimer ==
    /\ held' = FALSE
    /\ IF held
       THEN realpos' = NotBelow0(streamTime - bufSize' - Len(device') - async)
       ELSE UNCHANGED realpos

-----------------------------------------------------------------------------
(***************************************************************************)
(* The audio thread.  How far the video is behind is a choice; frames that *)
(* fail to decode change nothing and are left out.                         *)
(***************************************************************************)
Parked == audio \in {"loop", "locked"}

(* The video is far behind. *)
AudioPauses == /\ audio = "loop" /\ ~audioPaused /\ MutexFree
               /\ Pause(TRUE)
               /\ audioPaused' = TRUE /\ audio' = "extract"
               /\ UNCHANGED <<queueVars, streamPos, frame, outVars, initialized,
                              quit, async, streamTime, realpos>>

(* It has caught up. *)
WantsResume == /\ audio = "loop" /\ audioPaused /\ ~Eof
               /\ audio' = "resume"
               /\ UNCHANGED <<queueVars, device, streamPos, frame, audioPaused,
                              outVars, stateVars, timeVars, played>>

AudioResumes == /\ audio = "resume" /\ MutexFree
                /\ Pause(FALSE)
                /\ audioPaused' = ~initialized /\ audio' = "extract"
                /\ UNCHANGED <<queueVars, streamPos, frame, outVars, initialized,
                               quit, async, streamTime, realpos>>

(* Extract, to where it takes the mutex *)
ReadFrames == /\ audio \in {"loop", "extract"} /\ ~StreamEof /\ ~IsFull
              /\ \E n \in FrameSizes :
                   /\ streamPos + n <= End
                   /\ frame' = [i \in 1 .. n |-> streamPos + i]
                   /\ streamPos' = streamPos + n
              /\ audio' = "write"
              /\ UNCHANGED <<queueVars, device, audioPaused, outVars, stateVars,
                             timeVars, played>>

WriteFrame == /\ audio = "write" /\ MutexFree
              /\ Write(frame)
              /\ streamTime' = streamPos
              /\ frame' = <<>> /\ audio' = "loop"
              /\ UNCHANGED <<device, streamPos, audioPaused, outVars, stateVars,
                             realpos, held, played>>

(* Extract returns -1. *)
NoExtract == /\ audio \in {"loop", "extract"} /\ (StreamEof \/ IsFull)
             /\ audio' = IF Eof /\ ~audioPaused THEN "ending" ELSE "loop"
             /\ UNCHANGED <<queueVars, device, streamPos, frame, audioPaused,
                            outVars, stateVars, timeVars, played>>

PauseAtEnd == /\ audio = "ending" /\ MutexFree
              /\ Pause(TRUE)
              /\ audioPaused' = TRUE /\ audio' = "loop"
              /\ UNCHANGED <<queueVars, streamPos, frame, outVars, initialized,
                             quit, async, streamTime, realpos>>

AudioThread == AudioPauses \/ WantsResume \/ AudioResumes \/ ReadFrames
               \/ WriteFrame \/ NoExtract \/ PauseAtEnd

-----------------------------------------------------------------------------
(***************************************************************************)
(* OssAudioRenderer::doAudioOut.  It waits for 0.02 seconds at most.  The  *)
(* card takes a fragment at once, the silence as it finds room.            *)
(***************************************************************************)
\* Slip: a fragment that is not free to its end is counted.
FragmentsUp == (DeviceSize - Len(device) + WriteSize - 1) \div WriteSize

Fragments == (DeviceSize - Len(device)) \div WriteSize

\* Slip: the rest at the end of the stream is waited upon, too.
TooLittleAlways == bufSize < WriteSize

TooLittle == bufSize < WriteSize /\ (bufSize = 0 \/ ~StreamEof)

MustWait == ~initialized \/ paused \/ TooLittle \/ Fragments = 0

OutWaits == /\ out = "run" /\ ~quit /\ MustWait
            /\ out' = "wait"
            /\ UNCHANGED <<queueVars, device, audioVars, silence, stateVars,
                           timeVars, played>>

OutWakes == /\ out = "wait"
            /\ out' = "run"
            /\ UNCHANGED <<queueVars, device, audioVars, silence, stateVars,
                           timeVars, played>>

OutReads == /\ out = "run" /\ ~quit /\ ~MustWait
            /\ LET wsize == IF bufSize > WriteSize THEN WriteSize ELSE bufSize
                   result == Len(Read(wsize))
               IN  /\ device' = device \o Read(wsize)
                   /\ Take(wsize)
                   /\ IF result < WriteSize
                      THEN /\ out' = "silence" /\ silence' = SilenceSize
                           /\ UNCHANGED timeVars
                      ELSE /\ updateTimer
                           /\ UNCHANGED <<outVars, streamTime>>
            /\ UNCHANGED <<audioVars, stateVars, played>>

\* Slip: a fragment of silence.
ShortSilence == silence <= SilenceSize - WriteSize

SilenceWritten == silence = 0

WriteSilence ==
    /\ out = "silence"
    /\ IF SilenceWritten
       THEN out' = "run" /\ silence' = 0 /\ UNCHANGED device
       ELSE /\ Len(device) < DeviceSize
            /\ device' = Append(device, 0)
            /\ silence' = silence - 1
            /\ UNCHANGED out
    /\ UNCHANGED <<queueVars, audioVars, stateVars, timeVars, played>>

OutEnds == /\ out = "run" /\ quit
           /\ out' = "gone"
           /\ UNCHANGED <<queueVars, device, audioVars, silence, stateVars,
                          timeVars, played>>

OutThread == OutWaits \/ OutWakes \/ OutReads \/ WriteSilence \/ OutEnds

-----------------------------------------------------------------------------
(* The user, by AviPlayer. *)
Start == /\ audio = "locked" /\ ~initialized /\ MutexFree
         /\ initialized' = TRUE /\ paused' = FALSE
         /\ audio' = "loop"
         /\ UNCHANGED <<queueVars, device, streamPos, frame, audioPaused, outVars,
                        quit, async, timeVars, played>>

UserPauses == /\ audio = "loop" /\ initialized /\ MutexFree
              /\ Pause(TRUE)
              /\ audio' = "locked"
              /\ UNCHANGED <<queueVars, streamPos, frame, audioPaused, outVars,
                             initialized, quit, async, streamTime, realpos>>

UserPlays == /\ audio = "locked" /\ initialized /\ MutexFree
             /\ Pause(FALSE)
             /\ audio' = "loop"
             /\ UNCHANGED <<queueVars, streamPos, frame, audioPaused, outVars,
                            initialized, quit, async, streamTime, realpos>>

(* The stream seeks to the beginning of a chunk; only once it is started   *)
(* does the renderer skip to the time itself.                              *)
Sought(pos) == LET target == NotBelow0(pos + async)
                   last   == IF target > End THEN End ELSE target
               IN  IF initialized THEN {last} ELSE 0 .. last

SeekTime == /\ Parked /\ MutexFree
            /\ \E pos \in 0 .. End : \E at \in Sought(pos) :
                 /\ streamPos' = at /\ streamTime' = at /\ realpos' = at
                 /\ played' = at
            /\ held' = TRUE
            /\ IF initialized THEN Clear /\ Reset
               ELSE UNCHANGED <<queueVars, device>>
            /\ UNCHANGED <<audio, frame, audioPaused, outVars, stateVars>>

(* The destructor, to where it joins the output thread, and from there *)
Delete == /\ Parked /\ MutexFree
          /\ quit' = TRUE /\ audio' = "deleting"
          /\ UNCHANGED <<queueVars, device, streamPos, frame, audioPaused,
                         outVars, initialized, paused, async, timeVars, played>>

Join == /\ audio = "deleting" /\ out = "gone"
        /\ audio' = "gone"
        /\ Reset /\ played' = Dropped
        /\ UNCHANGED <<queueVars, streamPos, frame, audioPaused, outVars,
                       stateVars, timeVars>>

(* It takes no lock. *)
SetAsync == /\ audio # "gone"
            /\ async' \in Asyncs
            /\ UNCHANGED <<queueVars, device, audioVars, outVars, initialized,
                           paused, quit, timeVars, played>>

User == Start \/ UserPauses \/ UserPlays \/ SeekTime \/ SetAsync \/ Delete \/ Join

Next == AudioThread \/ OutThread \/ Play \/ User

Spec == Init /\ [][Next]_vars

(***************************************************************************)
(* The threads run, and get the mutex if it is free again and again; the   *)
(* card plays.  Nothing makes the video late, or has it catch up.          *)
(***************************************************************************)
Fairness == /\ SF_vars(ReadFrames) /\ SF_vars(WriteFrame)
            /\ SF_vars(AudioResumes) /\ SF_vars(NoExtract)
            /\ SF_vars(PauseAtEnd)
            /\ WF_vars(OutThread) /\ WF_vars(Play)

FairSpec == Spec /\ Fairness

-----------------------------------------------------------------------------
QueuedUnits == FlattenSeq(bufs)

TypeOK == /\ streamPos \in 0 .. End /\ streamTime \in 0 .. End
          /\ audio \in {"loop", "locked", "resume", "extract", "write",
                        "ending", "deleting", "gone"}
          /\ out \in {"run", "wait", "silence", "gone"}
          /\ silence \in 0 .. SilenceSize
          /\ {initialized, paused, quit, held, audioPaused} \subseteq BOOLEAN
          /\ realpos \in Nat /\ played \in 0 .. End /\ async \in Asyncs
          /\ Len(bufs) <= MaxBufs
          /\ Len(device) <= DeviceSize

(***************************************************************************)
(* m_uiBufSize, by which both threads decide to wait and the time is set,  *)
(* is what is in the queue (AudioQueue.cpp, lines 190 and 232).            *)
(***************************************************************************)
SizeExact == bufSize = Len(QueuedUnits)

(***************************************************************************)
(* What the card still has to play, what is in the queue and what the      *)
(* audio thread has read is the sound from the last unit that was heard to *)
(* where the stream is: nothing is lost, doubled or out of order, nothing  *)
(* from before a seek is heard after it, and a pause loses only what the   *)
(* card had (OssAudioRenderer.cpp, lines 201 to 262, IAudioRenderer.cpp,   *)
(* lines 89 to 132 and 170 to 214).                                        *)
(***************************************************************************)
Continuous ==
    SoundsOf(device) \o QueuedUnits \o frame
        = [i \in 1 .. streamPos - played |-> played + i]

(***************************************************************************)
(* When the clock is set again after a seek or a pause, it is set to the   *)
(* unit that is being heard less the correction, and never below 0, unless *)
(* the card has silence to play before that unit (updateTimer, lines 284   *)
(* to 292).  GetTime (line 162) takes the correction from it again, so the *)
(* time it reports is behind the unit heard by twice the correction.       *)
(***************************************************************************)
TimerTrue == [][held /\ ~held' /\ Len(SoundsOf(device')) = Len(device')
                    => realpos' = NotBelow0(played' - async)]_vars

(***************************************************************************)
(* "this should assure the we will actually hear the very last bytes from  *)
(* buffer": when the silence behind a short read is written, the card has  *)
(* no more sound to play than it is larger than the silence; the card that *)
(* is asked for is as large, and so has none (OssAudioRenderer.cpp, lines  *)
(* 237 to 254 and 275).  A last read of a whole fragment writes no         *)
(* silence, and a pause at the end then drops what the card has.           *)
(***************************************************************************)
SilenceFlushes ==
    [][out = "silence" /\ out' = "run"
           => Len(SoundsOf(device')) <= NotBelow0(DeviceSize - SilenceSize)]_vars

(***************************************************************************)
(* The sound goes on until all but the slack has gone to the card, unless  *)
(* the user or a late video pauses it, the renderer is deleted or the user *)
(* seeks for ever: the threads, the queue and the card do not wait for     *)
(* each other, whether the video is ever late or not                       *)
(* (OssAudioRenderer.cpp, lines 212 to 224).  A chunk that resampling      *)
(* leaves nothing of is the exception; Read never takes it from the queue. *)
(***************************************************************************)
Jammed == <<>> \in Range(bufs)

EndReached ==
    <>[][~SeekTime]_vars => (initialized ~> Eof \/ paused \/ quit \/ Jammed)
=============================================================================

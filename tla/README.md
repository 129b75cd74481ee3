# avifile in TLA+

avifile is a library and a set of programs that play, convert and capture video
on Unix.  This directory holds TLA+ models of the parts of it that are hard to
test, the TLC configurations that check them on small instances, and proofs of
what matters most for every instance.  `PROJECT.json` ties every definition to
the lines it models; paths below are relative to `src/`.

## Inventory

avifile's own code is `lib/` and `include/`; `ffmpeg/`, `drivers/`, most of
`plugins/`, `libmad` and `lame` are other projects' code, and `player/`,
`libavqt/` and `samples/` are programs that call the library.

| part | state | operations | who shares it | what makes it correct |
|---|---|---|---|---|
| **stream cache** `lib/aviread/Cache` | per stream: a ring of packets, needed position, next position, bytes cached, chunk in error; the stream to serve, quit flag | `readPacket`, `clear`, `create`, destructor, the caching thread | the caching thread, one reading thread per stream, the owner; one mutex, one condition | a reader gets the chunk it asked for; rings contiguous and within limits; nobody sleeps on an answer that is there; readers are served |
| **player threads** `lib/aviplay/aviplay*.cpp` | four mutexes and conditions, hang-up, quit, paused, initialized, a lock count | `Start`, `Stop`, `Pause`, `Play`, `Reseek`..., `Set`, destructor; the video, audio and decoder loops; `dropFrame` | three threads and the caller | a caller of `lockThreads` is alone with the streams; every call returns; calls pair up |
| **audio output** `lib/aviplay/*AudioRenderer*`, `AudioQueue` | ring of 64 chunks, byte count, stream time, pause time | `Extract`, `Read`, `Write`, `Clear`, `Pause`, `SeekTime`, timer | audio thread, device thread, video thread (time) | bytes counted exactly, the sound whole and in order, nothing from before a seek heard after it, the clock right when it is set, the end reached |
| **video queue** `lib/aviread/ReadStreamV` | rings of free and ready images, the current image | `ReadFrame`, `GetFrame`, `Flush` | decoder and video thread, without a common lock | an image is in one place; frames in order, each once |
| **ring buffer** `include/avm_stl.h` `qring` | array, size, position | `push`, `pop`, `insert`, `front`, `back`, `[]` | all queues above | it is a bounded sequence |
| **AVI reader** `AviReadHandler`, `AviReadStream` | chunk tables, current chunk, position | `init`, the walk over lists and chunks, index, `addChunk`, `find`, searches for key frames (not modelled), `ReadPacket` | the stream cache | it finds the chunks that were written, in a broken file those that are whole; `find` is the chunk that holds a position |
| read streams `ReadStream`, `ReadStreamA` | current packet, position, last time | `ReadPacket`, `Seek*`, `ReadFrames` | player | positions follow the packets read |
| **ASF network** `AsfNetworkInputStream` | packet iterators, waiting, finished, quit flags, a pipe | the reading thread, `getPacket`, `seekTime`, `interrupt` | reading thread, one thread per stream, player | no packet of before a seek after it, each once and in order; what is sought is requested; seeks return; nobody waits for ever |
| ASF files `AsfReadStream`, ... | fragments | reassembly, seek | player | frames whole and in order |
| FFmpeg reader `FFReadHandler` | packet queues | read, seek | player | packets per stream in order |
| **AVI writer** `lib/aviwrite` | index, lengths, status, write buffer | `AddChunk`, `AddFrame`, `AddData`, `Segment`, `finish`, `WriteHeaders` | one thread, which may die | the file holds what was written, through the buffer too; the reader finds it again, and what is whole of it after a crash |
| configuration, registry, arguments `lib/common` | key-value lists | get, set, load, save | programs | what is set is read back |
| codec registry `lib/codeckeeper.cpp` | codec tables | choose, load | readers, writers | fallbacks in order |
| subtitles, images, rate control, video renderer | text, pixels, numbers, X server | parse, convert, draw | player | numbers, not control |

Parts in bold are modelled.

How they meet: the player opens a file (`ReadFile`), which picks a reader (AVI,
ASF, FFmpeg).  An AVI reader's streams fetch their chunks through the stream
cache.  The player's decoder thread reads video frames into the video queue,
from which the video thread draws; the audio thread extracts sound into the
audio queue, from which the device's thread writes.  The interface's caller
stops all three with `lockThreads` for anything that touches a stream.

What is hard in it: interleavings under condition variables shared by threads
that wait for different things, mutexes taken in several orders, flags read
without a lock, state read before a read of the file and used after it, calls
of the interface in unusual orders, failed reads.  Nothing is persisted that a
crash could tear, except a file being written.  `PROJECT.json` lists each hazard
at its line with the properties that cover it, or why none does.

## Modules

| module | what it is |
|---|---|
| `PacketSource` | what `readPacket` promises: a request for a chunk is answered with that chunk, or with null if it cannot be read |
| `StreamCache` | `class Cache`, with its caching thread, readers and owner; implements `PacketSource` |
| `MCStreamCache` | two small streams for TLC |
| `StreamCacheProofs` | theorems about `StreamCache` |
| `PlayerThreads` | the player's threads, `lockThreads` and the calls of the interface |
| `MCPlayerThreads` | for TLC |
| `PlayerThreadsProofs` | theorems about `PlayerThreads` |
| `BoundedQueue` | what the ring of `avm_stl.h` is used as: a sequence of bounded length |
| `QRing` | `qring`, with its array, position and size; implements `BoundedQueue` |
| `MCQRing` | a ring of four slots for TLC |
| `QRingProofs` | theorems about `QRing` |
| `VideoQueue` | the images of a video stream between `ReadFrame` and `GetFrame` |
| `MCVideoQueue` | a few images for TLC |
| `VideoQueueProofs` | theorems about `VideoQueue` |
| `PlainFile` | a file that is written directly: what `FileBuffer` promises |
| `FileBuffer` | the write buffer of the AVI writer; implements `PlainFile` |
| `AviWriteFile` | the AVI writer and its streams, above `FileBuffer` |
| `AviReadHandler` | what the reader makes of a file: chunk tables by index or by walk |
| `AviReadStream` | a stream of an open file: seeks and reads |
| `AviFile` | composes the writer, a crash, the reader and a stream; `MCAviFile` for TLC |
| `AviProofs` | theorems about `FileBuffer`, `AviWriteFile`, `AviReadStream` and the files that are finished |
| `AviFileProofs` | theorems about `AviFile`: what the writer leaves, finished or not, the reader finds |
| `AudioOut` | audio thread, `AudioQueue`, output thread and sound card; `MCAudioOut` for TLC |
| `AudioOutProofs` | theorems about `AudioOut` |
| `AsfNetwork` | the thread of a network stream, its iterators and the player; `MCAsfNetwork` for TLC |
| `AsfNetworkProofs` | theorems about `AsfNetwork` |

Operators commented `Slip:` are plausible mistakes: each replaces the definition
after it to show that the property it is paired with (`mutants` in
`PROJECT.json`) is really about that code.

### StreamCache

Chunks are numbers and packets are the numbers of their chunks.  A stretch of
code under the mutex is one action; the read of a chunk, which the code makes
without the mutex, is the place between `Pick` and `Store`, `Discard` or
`ReadFails`.  `Pick` is one turn of the loop of `threadfunc`: it chooses the
stream (`m_uiId` first, then the others in turn, as `pickChunk` does), notes the
chunk in `last` and broadcasts.  A reader's `readPacket` is `CallRead` or
`RefuseRead`, then a `ReadHit`, `ReadSkip`, `ReadError` or `ReadMiss` per turn of
its loop.  `filling` is the `prefill` flag of the code.  Left out: the path
without threads (`NOTHREADS`, a debugging build), statistics, and the bytes of
the packets.  A reader is assumed not to be in `readPacket` when the destructor
starts: the player joins its threads before it deletes the file.

### PlayerThreads

`pc[t]` is the place of each player thread, `holder` the owner of each mutex,
`api` the place of the thread that calls the interface (only one does: the
class comment in `include/aviplay.h` forbids calls from callbacks).  Between two
operations on mutexes a thread makes one step.  `Enter` stands for every return
from a timed wait and for the start of a thread: both lock the thread's mutex
and call `checkSync`.  `LockMutexes` takes the mutexes of `lockThreads` one by
one, `UnlockMutex` releases them one by one; a nested call only counts.  Seeking
calls that are alike in this respect (`Reseek`, `ReseekExact`, `NextFrame`,
`PrevKeyFrame`, `Restart`, ...) are one call, `Seek`; so are `Set`,
`SetVideoRenderers` and `SetAudioFunc`.  Times are choices: whether a frame is
due, late, or late enough to drop.  `ready`, the number of decoded frames,
changes atomically here; the code's two rings are `VideoQueue`.

A `Set` that restarts the video may lose it (`SetLosesVideo`): when
`restartVideoStreaming` fails, `m_pVideostream` is 0 from then on (`aviplay.cpp`,
lines 1036 to 1040) while the threads are locked.  `unlockThreads`,
which asks whether there is a video stream, then neither wakes nor unlocks the
video and the decoder thread (`aviplayth.cpp`, lines 147 to 154); they wait for
ever (`Orphans`), and so does the destructor, which joins them.  With a renderer, `Set`
goes on to use the stream (`aviplayprop.cpp`, line 172), and the program dies
(`api = "crashed"`).  `CallsReturn`, `NoLostResume` and `PlayingUnlocked` except
what follows from this, each in its formula, and no more: every other call of a
player that has lost its video still returns.

An unlock of a mutex that is not held is undefined, so nothing is concluded from
what follows it; that it does not happen is `OwnsWhatItUnlocks`.

### QRing

`slot`, `pos` and `size` are `m_Type`, `m_uiPos` and `m_uiSize`; the unused slots
hold anything, as `new Type[]` leaves them.  `Contents` is what `front()`,
`back()` and `operator[]` read, and the refinement mapping to `BoundedQueue`.
`Loop` is the loop of `insert`, turn by turn; `Shifted`, which `Insert` uses, is
its effect in one formula, which is easier to reason about.  That they agree is
`ShiftsLikeTheLoop`.  `InsertRoom` is how much free room
`insert` is called with: one slot, as its assertion says, or two, as it needs.
With 1, TLC finds `IsQueue` violated: the loop moves one slot more than the
values, and if no other slot is free that one is the front's.
`push` and `pop` are called after a look at `size()`, which are the guards here.
The `const` version of `operator[]`, which ignores the position, has no caller
and is left out; so is the copy constructor, which is `operator=`.

### VideoQueue

`free`, `ready` and `shown` are `m_Free`, `m_Ready` and `m_pFrame` of
`ReadStreamV`; `content` numbers the frame an image holds.  `ReadFrame` and
`GetFrame` are cut where they touch these, in the order of the code, so that a
decoder thread and a video thread can meet; with one thread a call ends before
the next begins.  `use` tells these cases apart.  A decoder is given the first
free image and fills it, with or without a picture to show.  The lock of the
player is in the guards: `Call` in the player needs the look for room, under the
mutex that `GetFrame` holds, and what follows it does not.  A `SetBuffering`
empties the queue like a `Flush`.  Each ring operation is one step, although
nothing makes it one in the code.  Left out: `ReadDirect`, which is documented
as incompatible, decoders that return images of their own choice
(`NEXT_PICTURE`), and what the caller does with the image.

When `ReadFrame` finds no free image it decodes over the oldest ready one, on
which `m_pFrame` stays; the model follows it (`TakeReady`).  If that call then
ends without a picture, frames are shown out of order: with `Uses = {"eager"}`
and three images TLC finds `Sequential` violated.  The returned image is in the
free ring while it is drawn, so a caller that keeps it sees it change.

### AviFile: the writer, a crash, the reader

A file is a sequence of cells: a number of 32 bits is one, so is a byte of a
payload.  `AviWriteFile` carries out a call statement by statement: `todo` is
what is left of it, and each step calls `write(2)` once at most, so that the
states between are what a program that dies leaves on the disk.  (`phase` is
"dead" where the code itself goes wrong.)
`HeaderSteps`, `WriteIndex` and the others are the statements of `WriteHeaders`
and `finish` in their order.  A stream copies chunks or encodes them; an audio
encoder may give up buffers when it is stopped.  `init` of `AviReadHandler` is an
operator of the file: it walks over lists and chunks as the code does, reads the
index if there is one and otherwise finds the chunks (`reconstructIndexChunk`).
Its three loops are functions of the number of their turns; a turn is an operator
(`TakePart`, `TakeEntry`, `TakeChunk`), and as it moves on by two cells or more,
half as many turns as cells (`Turns`) end every loop.  `AviFile` opens each
finished file with it, and `CrashRecovers` the disk of every state.  In the finished file
the tables must be those computed from the chunks with no look at an index
(`TableOf`).  Numbers of the headers which the reader needs for nothing but
display are left out, and so are formats, file names and a failing `write(2)`.
The loop of `find` is a function of the number of turns (`search`).
`SeekFindsChunk` speaks of the table of the stream, which `RoundTrip` compares with
the chunks that were written.

`ReadPacket` asks the cache for chunk `m_uiChunk` and counts it.  When the cache has no
packet, because the stream has ended or because the chunk cannot be read, the
position is left alone (`GetsNone`), so that it stays behind by the chunks that were
passed until a packet or a seek sets it again.  `missed` is history: how many they
are.  `PositionTrue` is about the first chunk not given, `chunk - missed`; that
the position is always that of the chunk read next is false of the code.

The searches for key frames are not modelled.  `GetPrevKeyFrame(pos)` of the AVI
stream begins at `pos - 2`, and so passes over a key frame at `pos - 1`.  That fits
`include/aviplay.h`, line 187, "the one before frame drawn last time", and a
position behind the frame drawn; but `ReadHandlers.h`, lines 72 to 78, relates it to
`pos`, `AsfReadStream` begins at `pos - 1`, and `ReadStreamV` (lines 107 and 443 to
451) asks from a position that is not drawn.  No one promise fits all of them.

What the code does and the properties step around, each in `PROJECT.json`: an
encoder's buffer is written after `finish` has freed it when `AddChunk` begins
another file, and an encoder with data left then adds a chunk to no file; the
32-bit offset can wrap behind a long last chunk; an index that is cut is taken
for the whole (`CrashRecovers` ends where the index begins).

### AudioOut

Sound is counted in units, numbered in the order of the stream, so that order,
loss and repetition show.  `bufs` and `bufSize` are the chunks and the byte count
of `AudioQueue`; `device` is what the card holds, 0 is silence; `out` is the
place in `OssAudioRenderer::doAudioOut`, `audio` the place in the player's audio
loop.  The output thread has the queue's mutex from when it runs until it waits;
what others do under it is one action.  `streamTime`, `realpos` and `held` are
`m_dStreamTime`, `m_dAudioRealpos` and whether `m_dPauseTime` holds the time.
Whether the video is late is a choice.  `Read` and what it leaves are closed
formulas (`Readable`, `After`) for the loop that copies chunk after chunk: the
units up to the first chunk that has none, as many as were asked for, and the
chunks behind them.  The user may correct the
sound's time (`async`, `m_fAsync`): `updateTimer` takes it from the time and never
sets the clock below 0 (lines 284 to 286), a seek adds it (lines 197 to 199).
`GetTime` (line 162), which is not modelled, takes it off a second time, so that with
a correction the time it reports jumps whenever the clock is set; `TimerTrue` says
only to what the clock is set.  Silence counts in `updateTimer` as if it were sound,
so `TimerTrue` excepts a card that has silence before the unit heard.

What the code says of the silence, that it makes the last bytes heard, depends on the
card: 32768 bytes are written (8192 words of four, `OssAudioRenderer.cpp`, lines 245 to
251) and 8 fragments of 4096 are asked for (line 275), which is as much, but what
the driver gives is not checked.  So nothing relates `SilenceSize` to `DeviceSize`,
and `SilenceFlushes` says that the sound left is at most what the card holds more.
When the last read is exactly a fragment, no silence is written, and a pause at the end
drops what the card still has.  Left out: the SDL, Sun and copying
renderers, volume, resampling (but that it may return nothing), AC3, the
correction of the clock's drift and `GetTime`.

### AsfNetwork

A packet is the unit of time it begins at; a request is answered by a header, the
packets behind the time requested, and the end.  Whatever else ends a
transmission is a choice.  `at` is the place in `threadFunc`; each section under
`m_Mutex` is one action, and so is what is done without it up to the next access
of shared state.  `pipe` counts the bytes by which others interrupt a read.  The
player's seek is cut between its accesses of what the thread has: it sets
`m_bFinished`, looks at `m_bWaiting`, interrupts, looks at `m_bWaiting` again until it
is set, sets the time, interrupts and clears `m_bWaiting`; the thread may move
between any two of these.
`sought` is history: the time that was set while the thread waited.  Content is
prerecorded; sockets, proxies, redirectors, live content and the copy on disk are
left out.

The model has, and the properties do not hide, what the code does: the interrupt
of the destructor may come between the look at `m_bQuit` and the wait, and is
lost; whoever wakes the thread besides a seek leaves `m_bWaiting` set, so that
the next seek does not wait and its time is cleared (`SeekLands` speaks only of a
time that is set while the thread waits); `readContent` may clear the `m_bFinished`
that a seek has set, which may then wait for ever (`SeekReturns` excepts it); an interrupted reply makes
the content unknown for good; a seek is measured from the last request, so that
seeking back to it is ignored.

## Runs

| run | shows |
|---|---|
| `cache_safety` | All interleavings of the caching thread, two readers that ask for any chunk at any time, one `clear()` and the destructor, with failing reads and spurious wakeups: `RingInv` (each ring is a run of successive chunks that ends before the one being read, its bytes are counted and its limits kept), `SleepInv` (nobody sleeps on an answer that is there, or on each other), `Delivers` (implements `PacketSource`, safety) and, with fairness, `Serves`: while readers wait, some reader is answered again and again. |
| `cache_quit` (violated) | The destructor hangs if its broadcast comes during a read that fails. |
| `player_safety` | Every sequence of calls after a first `Start`, against the three threads: `AllParked`, `DropFrameSafe`, `RendererAlive`, `NoLostResume`, `OwnsWhatItUnlocks`, `PlayingUnlocked`. |
| `player_calls` | With frame dropping switched off (the property `dropping`): `CallsReturn`, no call hangs, and the destructor ends all threads, unless a failed restart has lost the video; `QueueServed`, if time passes no thread is left asleep on the video queue while the player plays. |
| `player_deadlock` (violated) | `CallsReturn` with dropping: the audio thread in `dropFrame` and `lockThreads` take two mutexes in opposite orders. |
| `player_restart` (violated) | `StartPlays`: after `Pause`, `Stop`, `Start` the player does not play. |
| `ring` | Every sequence of `push`, `pop`, `insert`, `clear` and `operator=`: `IsQueue` (implements `BoundedQueue`) and `ShiftsLikeTheLoop`. |
| `video_calls` | Every order of calls.  One thread that leaves `ReadFrame` a free image: `QueueInv` (each image is in one ring, once, and the image shown is the oldest ready one), `SequentialIfSpaced`.  The player: `NothingTakenBack`, the decoder thread's look for room is enough.  One thread without such care: `TypeOK` only (see the module). |
| `video_threads` (violated) | `Sequential` in the player: the two threads' updates of `m_pFrame` cross, and a frame is shown twice. |
| `avi_file` | Files of up to three chunks in one or two segments: `RoundTrip` (a finished file is read back as it was given), `WritesThrough` (the buffer implements `PlainFile`), `CrashRecovers` (what the disk holds before the index can be opened, and every whole chunk is found), and of the opened stream `PositionTrue` (its position is that of the first chunk it has not given, through seeks, skips and reads, some of which fail) and `SeekFindsChunk`. |
| `audio_out` | `SizeExact`, `Continuous` (what is in the card, the queue and the audio thread's hands is the sound from the last unit heard to where the stream is), `TimerTrue`, `SilenceFlushes`, and under fairness `EndReached`. |
| `asf_network` | `QueuesInStep` (each iterator has the last packets, in order), `WithinCache`, `SeekLands` (the time sought is the time requested), and under fairness `SeekReturns` and `ReadToTheEnd`. |

### Bounds

Stream cache: two streams (one more would only be a third turn of the same
search), three and two chunks, rings of three slots (two packets, so that a ring
is empty, partly filled and full), a byte limit that the first audio chunk
meets in a ring with room and the last two video chunks exceed, one `clear()`.  Every chunk may be asked for at any time, so the runs are
unbounded in time.
Player: every run has `StartFirst`, the user's first call is `Start`.  Before it
there are no threads, and `lockThreads` then takes no thread's mutex.  When another
call comes first, as nothing in the code prevents, a lock may be taken without the
threads' mutexes and given back with them: with `StartFirst = FALSE` TLC refutes
`AllParked`, `NoLostResume`, `OwnsWhatItUnlocks` and `TypeOK`, which are about
threads that exist.  The state space is finite as it is; the video queue has three buffers
(two in the liveness runs) instead of six.  Ring: four slots and three values, so that it starts over at every fill level
and values that get lost or doubled show.  Video queue: three
images (one shown, one ready, one free) and six frames (five in
`video_threads`), so that every
image is used again; the runs end when the frames are used up.  Runs with `CHECK_DEADLOCK FALSE` are
those in which the destructor or the end of the content ends everything, or in which the
hang is the finding.
AVI: five kinds of chunks (key frames and others; empty, odd, even, and longer
than two buffers), two sets of streams (copied, with samples of two bytes, and
encoded), headers rewritten after two chunks instead of 1000, and a limit of a
file that the second or third chunk passes; a buffer of 17 cells, so that headers,
chunks and the index end before, at and behind it.
Audio: nine units in frames of none, one or four, a card of two fragments of three
units, a queue of three chunks or five units: every comparison with a fragment, a
full queue and the end comes out both ways, and the stream is more than queue and
card hold.  Silence is as much as the card holds, as in the code if
the driver gives the fragments asked for.  The corrections are -1 and 2: one each
way, and one that meets the clock's bound at 0.
ASF: two iterators, four packets, a cache of two (so that one that is not read
would have twice the cache, and gives up half), and two bytes in the pipe (`MaxBytes`): nobody
interrupts while it holds them, a bound of the model.  Two are enough for a byte
that is left when another has been taken.

### Fairness

Threads run (weak fairness of a step), and a thread that wants a mutex which is
free again and again gets it (strong fairness): POSIX promises no more than
that the mutex is not held for ever, and the code relies on this.  Timed waits
end.  `QueueServed` assumes besides that time passes: the decoder's pause after a
seek ends and a decoded frame becomes due (`TimePasses`).  Nothing makes a user
call, a read succeed or a spurious wakeup happen.  In `audio_out` the output thread
and the card go on (weak), and the audio thread gets the queue's mutex if it is free
again and again (strong: `ReadFrames`, `WriteFrame`, `AudioResumes`, `NoExtract` and
`PauseAtEnd`, which all need it).  That the video is late, `AudioPauses`, is a choice
that no fairness forces; `EndReached` excepts a pause, a player that seeks for ever, and a queue
that holds a chunk of which resampling has left nothing, at which the code stays
(`Jammed`).  In `asf_network` the thread runs, a seek that has begun goes on, and
some stream is read when the player does not seek; `SeekReturns` excepts a seek
whose `m_bFinished` the thread has cleared.  `Serves` claims progress of
the readers together: a single reader may starve while the other keeps asking,
because a pick serves the stream of the last miss first.

## Proofs

`StreamCacheProofs` proves, for any number of streams, any tables of chunks, any
ring size and any byte limit that leaves room for two packets:

* `TypeCorrect`: `Spec => []TypeOK`.
* `RingsCorrect`: `Spec => []RingInv`, that is `RingContiguous`, `SumExact` and
  `WithinLimits`, which are inductive together: while the caching thread reads
  chunk `last[job]`, the ring of `job` ends just before it or has been changed in
  a way `Unwanted` will notice.
* `NoLostWakeup`: `Spec => []SleepInv` (`NoMutualSleep` and `NoMissedAnswer`), from
  `LifecycleInv` (which places of owner, caching thread and readers go together).
* `Implements`: `Spec => Delivers`, step by step under the refinement mapping of
  `StreamCache`.

`QRingProofs` proves, for any capacity and any values:

* `TypeCorrect`: `Spec => []TypeOK`.
* `Implements`: `Spec => IsQueue`, given `InsertRoom = 2`.  The argument is about
  positions: `At(p, n, i)` is the slot of the i-th value in a ring with `m_uiPos`
  p and `m_uiSize` n.  Different positions have different slots
  (`PlacesDiffer`), `push` leaves every value where it is and fills the next
  place (`PlacesAfterPush`), `pop` moves the numbering by one
  (`PlacesAfterPop`), and the slot before a place is the place before
  (`PlaceBefore`), which is what `insert` copies from.
* `InsertLoops`: `Spec => []ShiftsLikeTheLoop`.  `OneTurn`: a turn of the loop
  takes `Shifted(p, k - 1)` to `Shifted(p, k)`, the last of a whole round too,
  which copies a slot that the first has overwritten.

`AviProofs` proves of `FileBuffer`, for any buffer of two cells or more and anything
written: `Implements`: `BufferSpec => WritesThrough`.  What a reader of the file
would see is `Whole`, the disk with the buffer laid over it at the system's
position.  Laying two sequences over one after the other is laying their
concatenation (`OverlayTwice`), and what was laid is found again
(`WrittenIsRead`); so each call writes to `Whole` at `Tell`, seeks in it, or
changes neither.  `FileInv`: the buffer is short of full and the position inside
the file.

It proves of the writer, for any streams, chunks and sizes, when a cell may
be any name of the format with any number (`CellsFit`):

* `WriterTypeCorrect`: `Spec => []TypeOK`; `Statement` says what a statement of a
  call may hold, and every action leaves a call of such statements.
* `WriterImplements`: `Spec => WritesThrough`.  Each action does to the file one
  thing `FileBuffer` does, or nothing, so that the lemmas about it apply: the whole writer, with its headers written over older ones, can think of
  its file as one that is written directly.

and of a stream whose chunks are added while the file is opened and which is then
read and sought (`StreamSpec`):

* `StreamCorrect`: its inductive invariant `StreamInv`.  Positions begin at 0, never
  fall and do not exceed the size (`Begun`, `Ordered`), and the stream reports the
  position of the first chunk it has not given since the last packet or seek
  (`PositionKept`): a read that fails (`ReadKeeps`) moves neither.
* `SeekCorrect`: `StreamSpec => []SeekFindsChunk`.  `TurnSearches`: a turn of the
  loop keeps the position between its limits (`Between`) and brings them nearer, or
  ends where the code breaks (`EndsAt`); so there are not more turns than chunks.

and of the files that are written, with the places of `AviFile`:

* `WriterFiles`: the inductive invariant `FilingInv` of the writer's files.  In the
  middle of a call the file is in no form a reader would know; so the invariant is
  about what the writes that are still in `todo` will make of it.  `Yields` runs
  them on the file with the buffer over it, and `Pending` says that the
  result is in the form of the `Stage` the call is at: headers and chunks one behind
  the other with their bytes and their entries (`AtRest`, `Grown`, `Held`,
  `IndexHas`), a chunk being located or entered (`Amid`), a `finish` at one of its
  four statements (`Finishing`), or a file that is closed.  A step of the file takes
  one statement off (`PutPends`, `WritePends`, ...: here `FileBuffer` is used as a
  plain file); a step of the call appends statements, whose effect is computed:
  `Lays` for a chunk or the index, `HeadersPends` for headers that are written over
  older ones and leave what is behind them.  `DeleteBuffer` then gives up a file
  that is `Finished`, or `Nothing`.

`AviFileProofs` proves of the writer and the reader together (`AllSpec`), for any
streams, chunks, sizes of the buffer and of the headers, under `CellsFit`:

* `ReaderReadsBack`: `AllSpec => RoundTrip`.  From `Finished` alone: `PartsAt` is what
  the tables hold when i chunks are entered; one turn of `readIndexChunk` takes
  `PartsAt(i)` to `PartsAt(i + 1)` (`EntryTaken`, `IndexRead`), and one of
  `init`'s walk takes a `Part` of the file to the next (`HeadersPart`, `StreamPart`,
  `JunkPart`, `MoviePart`, `IndexPart`, `PartsRead`).  The index is read to one entry
  beyond its last, which is where the file ends.  `TableFixed`: after `fixHeader` this
  is `TableOf`.  `PayloadRead`: what is where an entry points is what was given.
* `ReaderFollows`: the invariant of the reader, and from it `PositionIsTrue`
  (`AllSpec => []PositionTrue`) and `ReaderSeeks` (`AllSpec => []SeekFindsChunk`).  `Followed`: while a stream is open no file
  changes and its table is `TableOf` its chunks; `TableHolds` and `OpensWell`: such a
  table is one `StreamInv` holds of.
* `ReaderOnlyReads`: `AllSpec => Spec`, so that the theorems about the writer hold of both.
* `WriterCrashes`: `AllSpec => []CrashRecovers`, when the headers fit in the buffer
  (`HeaderSize <= BufSize`: 0x800 bytes and 131072 in the code).  What a file is while it is
  written: `Good`, its chunks lie one behind the other and each header has its old value
  or its new one, down to the size of the list of chunks, which may end before chunks that
  follow.  `Course` is the invariant: the writes of `todo` append to
  the file, which will be good (`Adding`; the disk is then a beginning of it that holds
  the headers, `Kept`), or they write over headers (`Amending`).  Then the call is a
  `Plan` of parts, each begun by an `lseek` and shorter than the buffer, so that it is on
  the disk as a whole or not at all, and the file is good before and after each
  (`HeadersGood`, `HeadersPlan`); a buffer shorter than the headers could leave half of
  one, which is why they must fit.  `CourseSafe`: a disk in its course has no
  headers, has an index, or can be salvaged (`Salvage`).  `SalvageRecovers` is about the
  reader: `init` walks the headers, old or new, in the order it finds them
  (`PartsWalked`), and `reconstructIndexChunk` takes chunk after chunk and ends at
  the one that is cut or at the end of the file (`ChunkTurn`, `RestTurn`, `ChunksRebuilt`).

`AsfNetworkProofs` proves, for any number of iterators, any content, cache and
bound of the pipe:

* `TypeCorrect`: `Spec => []TypeOK`.  The types are proved in three parts (places,
  flags, numbers); a step's numbers also need that a seek's time is one of the
  content and that a packet is read only if there is one.
* `QueuesCorrect`: `Spec => []QueuesInStep`.  `OrderInv` adds that nothing is in
  the queues from when they are emptied to when the transmission is read.
* `CacheBounded`: `Spec => []WithinCache`.  `SizeInv` adds that some queue was short
  of the cache when the packet being read was begun; only the iterators change
  the queues meanwhile, and they take.
* `SoughtIsRequested`: `Spec => SeekLands`.  `SoughtInv`: a time set while the
  thread waited is still `m_uiTime`, and the thread is not where it clears it.

`PlayerThreadsProofs` proves, for every clip, video queue and way of waking its
threads, given `StartFirst`: `TypeCorrect` (`TypeOK`), `MutualExclusion`
(`AllParked`), `UnlocksItsOwn` (`OwnsWhatItUnlocks`), `LocksPaired`
(`PlayingUnlocked`), `RendererKept` (`RendererAlive`), `DropFrameCorrect`
(`DropFrameSafe`) and `ResumeKept` (`NoLostResume`).  They rest on one inductive
invariant, since none of them is inductive without the others.  `MutexInv`: the
place of a thread tells which mutexes it has.  `LockInv`: the place of the
caller and the depth of its locks tell which it has; when it has locked, that
is all of `LockSet`, and the mutexes of `Orphans` besides, which no call takes
(`OrphansAside`).  So whoever has a thread's mutex has it away from the streams (`LockedAreAway`).  `CallInv`: which depths, pauses and calls go together,
without which a nested unlock could release what an outer call relies on.
`ThreadInv`: a thread that was hung up is so still or the caller has its mutex, and
with it its broadcast to come, unless it is one of `Orphans`; and a decoder that reads has a buffer left.

`VideoQueueProofs` proves, for any number of images and frames:

* `TypeCorrect`: `Spec => []TypeOK`, in every use.
* `RoomIsEnough`: `Spec => []NothingTakenBack`.  With two threads images get lost or
  doubled, so nothing can be said of where each is; but what a thread has taken
  from one ring it puts into a ring, so both are never empty at once
  (`PlayerInv`), and this is all the decoder's look for room needs.
* `QueueCorrect`: `Spec => []QueueInv`, for one thread that leaves a free image.
  `Homes` is about every image at every place of a call: it is in one ring, once,
  or in the hand of the call (`Loose`); `ShownInv` says which of `m_pFrame` and the
  copies of it that a call holds is the oldest ready image.
* `FramesInOrder`: `Spec => SequentialIfSpaced`, from `OrderInv`: frames in the
  ready ring ascend, those returned come before and that being pushed after them.

`AudioOutProofs` proves, for any stream, frames and sizes with a queue that holds
a fragment when it is full (`SizeAssumption`):

* `TypeCorrect`: `Spec => []TypeOK`: the queue and the card keep their limits, and
  the clock is never set below 0, whatever the correction.
* `SizeCorrect`: `Spec => []SizeExact`.
* `SoundContinuous`: `Spec => []Continuous`.  `Line(s, q, f, a, b)` says that the
  sounds of the card, the queue and the frame are the stream from a to b; a lemma
  for each way to change it (sound heard or dropped, moved from the queue to the
  card, a frame written, a frame read).  The invariant adds that there is no
  sound before `Start` (`FreshInv`): a seek clears queue and card only after it.
* `TimerCorrect`: `Spec => TimerTrue`, for every correction, because the length of that line is how far
  the stream is ahead of what is heard.  `TimeInv`: the stream's time is that of the
  last chunk in the queue, not that of the frame that was read.
* `SilenceCorrect`: `Spec => SilenceFlushes`, for any size of the card and of the
  silence.  `SilenceInv`: the last units of the card are the silence written so far.

`ReadFacts` is the lemma they share: what is read from the queue, and what the
chunks hold that are left, are together what the queue held, whether a read ends
in a chunk, between two or at an empty one.

The library's induction theorems cannot be used here, as they take an operator.
Recursive functions (`FlattenSeq` of the community modules, `Loop`, `search`,
`EndOf`, the loops of `AviReadHandler`) are followed instead by least counterexamples: a set of numbers that is
not empty has a least one (`Least`), and where a formula first fails for n it still
holds for n - 1.  Where the recursion is over a prefix, a table of its values up
to n is shown to exist in the same way (`JoinsExist`, `IterationExists`).

Assumptions: only those stated as `ASSUME` in the modules (TLC evaluates them in
the runs), and `StartFirst`, `InsertRoom = 2`, `CellsFit` and `HeaderSize <= BufSize` where a theorem
says so.
Of the AVI modules they are: headers fit before the chunks and are of even size, a
chunk ends before the offset wraps (`WidthAssumption`: in the code a chunk that
begins below `0xffff0000` and is shorter than 64 kilobytes) and no chunk is longer than what
the reader takes for damage (`PacketAssumption`: `MAX_PACKET_SIZE`, 3000000, line
26 of `ReadHandlers.h`); the writer checks neither size.
Model-checked only: liveness (`Serves`, `CallsReturn`, `QueueServed`,
`EndReached`, `SeekReturns`, `ReadToTheEnd`), which the prover does not reach.

## Plan

Done: every module above.  Left, in this order:

1. Overlapping changes of a ring's size by two threads (`VideoQueue`).
2. `ReadStream` and `ReadStreamA` above `AviReadStream`; fragment reassembly of
   `AsfReadStream`.

## Not modelled

Signal processing, colour conversion, parsing of headers and subtitles, codec
tables, plugins, the X11 renderer and the Qt programs: they hold little control
or belong to other systems.  `PROJECT.json` lists each with its reason.

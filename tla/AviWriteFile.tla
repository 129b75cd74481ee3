---------------------------- MODULE AviWriteFile ----------------------------
(***************************************************************************)
(* The AVI writer: AviWriteFile, its streams and the FileBuffer below them *)
(* (src/lib/aviwrite).  A call is carried out one statement at a time:     *)
(* `todo' is what the current call has still to do, so that the program    *)
(* may die between any two writes to the system.                           *)
(*                                                                         *)
(* A stream takes chunks as they are (AddStream) or encodes what it is     *)
(* given.  The numbers of the headers that no reader needs to find the     *)
(* chunks are left out; LIST, a size and a type are two cells, the type    *)
(* with a size that does not count it.                                     *)
(***************************************************************************)
EXTENDS FileBuffer

CONSTANTS
    HeaderSize,  \* cells kept for the headers: 0x800 bytes
    HeaderEvery, \* the headers are written again after that many chunks: 1000
    FileLimit,   \* m_lFlimit, or 0
    MaxOffset,   \* 0xffff0000, the last offset of a chunk that is not refused
    OffsetSpan,  \* 2^32, the width of an offset
    Setups,      \* what streams the file may have: a set of sequences of
                 \*   [video, encoder : BOOLEAN, sample : dwSampleSize]
    Menu,        \* the chunks they may be given: [stream, size, key]
    MaxChunks,   \* how many of them
    MaxFiles     \* how many files the user asks for

(***************************************************************************)
(* Past MaxOffset no chunk begins, and the chunk that goes past it ends    *)
(* before the offset wraps: in the code it is shorter than 64 kilobytes,   *)
(* as is the last one of an encoder, here a cell and its padding.          *)
(***************************************************************************)
ASSUME WidthAssumption ==
    /\ MaxOffset + 2 + 2 < OffsetSpan
    /\ \A m \in Menu : MaxOffset + 2 + m.size + (m.size % 2) < OffsetSpan
ASSUME HeaderAssumption == HeaderSize \in Nat /\ HeaderSize % 2 = 0
ASSUME OffsetAssumption == /\ {MaxOffset, OffsetSpan} \subseteq Nat /\ OffsetSpan > 0
                           /\ HeaderSize <= MaxOffset
ASSUME PeriodAssumption == HeaderEvery \in Nat /\ HeaderEvery >= 2
ASSUME SetupAssumption == \A setup \in Setups :
    /\ setup \in Seq([video : BOOLEAN, encoder : BOOLEAN, sample : Nat])
    /\ Len(setup) >= 1 /\ 4 + 4 * Len(setup) + 4 <= HeaderSize
ASSUME MenuAssumption ==
    \A m \in Menu : m \in [stream : Nat, size : Nat, key : BOOLEAN]

VARIABLES
    setup,       \* m_Streams, what does not change of them
    running,     \* running[s]: the encoder of stream s is started
    encoding,    \* encoding[s]: how many output buffers it has given up
    dwLength,    \* m_Header.dwLength of each stream
    total,       \* m_uiLength of each stream
    index,       \* m_Index
    status,      \* m_iStatus
    segmentFlag, \* segment_flag
    file,        \* "open", or "none": m_pFileBuffer is 0
    phase,       \* "open", "closed" by the destructor, or "dead"
    todo,        \* the statements of the current call
    given,       \* history: the chunks the streams were given
    stored,      \* history: the chunks of the current file
    files        \* history: the files that are finished

streamVars == <<setup, running, encoding, dwLength, total>>
writerVars == <<index, status, segmentFlag, file, phase>>
historyVars == <<given, stored, files>>
vars == <<fileVars, streamVars, writerVars, todo, historyVars>>

Zeros == [s \in DOMAIN setup |-> 0]

Init == /\ Opened
        /\ setup \in Setups
        /\ running = [s \in DOMAIN setup |-> setup[s].encoder]
        /\ encoding = Zeros /\ dwLength = Zeros /\ total = Zeros
        /\ index = <<>> /\ status = 0 /\ segmentFlag = FALSE
        /\ file = "open" /\ phase = "open"
        /\ todo = <<>>
        /\ given = <<>> /\ stored = <<>> /\ files = <<>>

-----------------------------------------------------------------------------
(* Statements. *)
Id(name) == <<name, 0>>
ChunkId(s) == <<"chunk", s>>
Number(n) == <<"number", n>>

Put1(cell) == <<[do |-> "put", cell |-> cell]>>
PutAll(cells) == [i \in DOMAIN cells |-> [do |-> "put", cell |-> cells[i]]]
WriteAll(data) == IF data = <<>> THEN <<>>
                  ELSE <<[do |-> "write", data |-> data]>>
Go(position) == <<[do |-> "seek", to |-> position]>>
Call(name) == <<[do |-> name]>>
ChunkCall(c) == <<[do |-> "chunk", chunk |-> c], [do |-> "count", chunk |-> c]>>
StopAll == [s \in DOMAIN setup |-> [do |-> "stop", stream |-> s]]

Idle == phase = "open" /\ todo = <<>>
Doing(name) == phase = "open" /\ todo # <<>> /\ Head(todo).do = name
Then(statements) == todo' = statements \o Tail(todo)

-----------------------------------------------------------------------------
(* The file. *)
PutNumber == /\ Doing("put") /\ Put(Head(todo).cell) /\ Then(<<>>)
             /\ UNCHANGED <<streamVars, writerVars, historyVars>>

Write == /\ Doing("write")
         /\ LET data == Head(todo).data
                rest == Rest(data)
            IN  /\ Fill(data)
                /\ Then(IF Len(rest) > BufSize
                        THEN <<[do |-> "direct", data |-> rest]>>
                        ELSE WriteAll(rest))
         /\ UNCHANGED <<streamVars, writerVars, historyVars>>

WriteDirect == /\ Doing("direct") /\ Direct(Head(todo).data) /\ Then(<<>>)
               /\ UNCHANGED <<streamVars, writerVars, historyVars>>

Lseek == /\ Doing("seek") /\ SeekSet(Head(todo).to) /\ Then(<<>>)
         /\ UNCHANGED <<streamVars, writerVars, historyVars>>

LseekEnd == /\ Doing("seekEnd") /\ SeekEnd /\ Then(<<>>)
            /\ UNCHANGED <<streamVars, writerVars, historyVars>>

-----------------------------------------------------------------------------
(***************************************************************************)
(* AviWriteFile::AddChunk.  A chunk for a file that is full, or after      *)
(* SegmentAtKeyframe, begins another file when it is a key frame.          *)
(***************************************************************************)
Full == FileLimit > 0 /\ Tell > FileLimit
Segments(c) == (Full \/ segmentFlag) /\ setup[c.stream].video /\ c.key

NextFile == Call("finish") \o Call("init")

ChunkSegments == /\ Doing("chunk") /\ file = "open"
                 /\ Segments(Head(todo).chunk)
                 /\ segmentFlag' = FALSE
                 /\ todo' = NextFile \o todo
                 /\ UNCHANGED <<fileVars, streamVars, index, status, file, phase,
                                historyVars>>

Junk(n) == [i \in 1 .. n |-> Number(0)]

ChunkBegins == /\ Doing("chunk") /\ file = "open"
               /\ ~Segments(Head(todo).chunk)
               /\ IF index = <<>>
                  THEN status' = 1 /\ Then(WriteAll(Junk(HeaderSize))
                                     \o <<[Head(todo) EXCEPT !.do = "locate"]>>)
                  ELSE UNCHANGED status
                       /\ Then(<<[Head(todo) EXCEPT !.do = "locate"]>>)
               /\ UNCHANGED <<fileVars, streamVars, index, segmentFlag, file,
                              phase, historyVars>>

(* finish() has set m_pFileBuffer to 0 when it stops the streams. *)
ChunkWithoutFile == /\ Doing("chunk") /\ file = "none"
                    /\ phase' = "dead"
                    /\ UNCHANGED <<fileVars, streamVars, index, status,
                                   segmentFlag, file, todo, historyVars>>

(***************************************************************************)
(* What AddChunk finds at the pointer it was given.  AddFrame gave it the  *)
(* encoder's output buffer, which Stop deletes when a file is begun.       *)
(***************************************************************************)
Payload(c, byte) == [i \in 1 .. c.size |-> <<"byte", byte>>]
Payloads(c) == {Payload(c, c.number)}
               \cup IF encoding[c.stream] = c.encoding THEN {}
                    ELSE {Payload(c, 0)}
\* Slip: a chunk of odd size is not padded.
NoPadding(data) == <<>>

Padding(data) == IF Len(data) % 2 = 1 THEN <<data[1]>> ELSE <<>>

(* The offset is an unsigned int. *)
Locate == /\ Doing("locate")
          /\ LET c == Head(todo).chunk
                 offset == Tell % OffsetSpan
             IN  /\ offset <= MaxOffset
                 /\ \E data \in Payloads(c) :
                      Then(Put1(ChunkId(c.stream)) \o Put1(Number(c.size))
                           \o WriteAll(data) \o WriteAll(Padding(data))
                           \o <<[do |-> "entry", chunk |-> c,
                                 offset |-> offset - (HeaderSize - 1)]>>)
                 /\ stored' = Append(stored, c)
          /\ UNCHANGED <<fileVars, streamVars, writerVars, given, files>>

(* throw FATAL("Unsupported AVI file size!"), which the destructor catches *)
Refuse == /\ Doing("locate") /\ Tell % OffsetSpan > MaxOffset
          /\ todo' = IF todo[Len(todo)].do = "closed" THEN Call("closed")
                     ELSE <<>>
          /\ UNCHANGED <<fileVars, streamVars, writerVars, historyVars>>

Enter == /\ Doing("entry")
         /\ index' = Append(index, [stream |-> Head(todo).chunk.stream,
                                    key |-> Head(todo).chunk.key,
                                    offset |-> Head(todo).offset,
                                    size |-> Head(todo).chunk.size])
         /\ Then(IF Len(index') % HeaderEvery = 1 THEN Call("headers")
                 ELSE <<>>)
         /\ UNCHANGED <<fileVars, streamVars, status, segmentFlag, file, phase,
                        historyVars>>

(* AviWriteStream::AddChunk, after AviWriteFile's *)
Count == /\ Doing("count")
         /\ LET c == Head(todo).chunk
                s == c.stream
                sample == setup[s].sample
            IN  IF sample > 0
                THEN /\ total' = [total EXCEPT ![s] = @ + c.size]
                     /\ dwLength' = [dwLength EXCEPT ![s] = total'[s] \div sample]
                ELSE /\ dwLength' = [dwLength EXCEPT ![s] = @ + 1]
                     /\ UNCHANGED total
         /\ Then(<<>>)
         /\ UNCHANGED <<fileVars, setup, running, encoding, writerVars,
                        historyVars>>

-----------------------------------------------------------------------------
(***************************************************************************)
(* WriteHeaders, from the end of the file: the size of the list of headers *)
(* is 0 until all of them, and the list of chunks, are written.            *)
(***************************************************************************)
List(type, size) == <<Id(type), Number(size)>>
StreamHeader(s) == List("strl", 2) \o <<Id("strh"), Number(dwLength[s])>>

StreamHeaders == [i \in 1 .. 4 * Len(setup) |->
                    StreamHeader((i + 3) \div 4)[((i - 1) % 4) + 1]]

HeaderCells(endpos) ==
    <<Id("RIFF"), Number(endpos - 2)>> \o List("hdrl", 0)
    \o StreamHeaders

\* Slip: no JUNK behind the headers, and no seek back to the end.
HeaderStepsOnly(endpos) ==
    LET cells == HeaderCells(endpos)
        curpos == Len(cells)
    IN  Go(0) \o PutAll(cells)
        \o Go(HeaderSize - 2)
        \o PutAll(List("movi", endpos - HeaderSize))
        \o Go(3) \o Put1(Number(curpos - 4))

HeaderSteps(endpos) ==
    LET cells == HeaderCells(endpos)
        curpos == Len(cells)
    IN  Go(0) \o PutAll(cells)
        \o PutAll(<<Id("JUNK"), Number(HeaderSize - 2 - (curpos + 2))>>)
        \o Go(HeaderSize - 2)
        \o PutAll(List("movi", endpos - HeaderSize))
        \o Go(3) \o Put1(Number(curpos - 4)) \o Call("seekEnd")

WriteHeaders == /\ Doing("headers")
                /\ IF status = 0
                   THEN Then(<<>>) /\ UNCHANGED fileVars
                   ELSE SeekEnd /\ Then(HeaderSteps(off'))
                /\ UNCHANGED <<streamVars, writerVars, historyVars>>

-----------------------------------------------------------------------------
(* finish, Stop and init *)
EntryCells(e) == <<ChunkId(e.stream), Number(IF e.key THEN 1 ELSE 0),
                   Number(e.offset), Number(e.size)>>

IndexCells == [i \in 1 .. 4 * Len(index) |->
                 EntryCells(index[(i + 3) \div 4])[((i - 1) % 4) + 1]]

Finish == /\ Doing("finish")
          /\ Then((IF Tell % 2 = 1 THEN WriteAll(Junk(1)) ELSE <<>>)
                  \o Call("headers") \o Call("index") \o Call("riffSize")
                  \o Call("delete") \o StopAll)
          /\ UNCHANGED <<fileVars, streamVars, writerVars, historyVars>>

WriteIndex == /\ Doing("index")
              /\ Then(Put1(Id("idx1")) \o Put1(Number(4 * Len(index)))
                      \o WriteAll(IndexCells))
              /\ UNCHANGED <<fileVars, streamVars, writerVars, historyVars>>

WriteRiffSize == /\ Doing("riffSize")
                 /\ SeekEnd
                 /\ Then(Go(1) \o Put1(Number(off' - 2)))
                 /\ UNCHANGED <<streamVars, writerVars, historyVars>>

DeleteBuffer == /\ Doing("delete")
                /\ Close
                /\ file' = "none"
                /\ files' = Append(files, [disk |-> disk', chunks |-> stored])
                /\ Then(<<>>)
                /\ UNCHANGED <<streamVars, index, status, segmentFlag, phase,
                               given, stored>>

(***************************************************************************)
(* Stop of an encoder: the video's deletes its output buffer; the audio's  *)
(* adds what it still holds, if anything, as a chunk.                      *)
(***************************************************************************)
Stop == /\ Doing("stop")
        /\ LET s == Head(todo).stream
               last == [stream |-> s, size |-> 1, key |-> FALSE,
                        number |-> Len(given) + 1, encoding |-> encoding[s]]
           IN  /\ running' = [running EXCEPT ![s] = FALSE]
               /\ IF running[s] /\ setup[s].video
                  THEN encoding' = [encoding EXCEPT ![s] = @ + 1]
                  ELSE UNCHANGED encoding
               /\ \/ Then(<<>>) /\ UNCHANGED given
                  \/ /\ running[s] /\ ~setup[s].video
                     /\ given' = Append(given, last)
                     /\ Then(ChunkCall(last))
        /\ UNCHANGED <<fileVars, setup, dwLength, total, writerVars, stored,
                       files>>

Begin == /\ Doing("init")
         /\ Reopen
         /\ running' = [s \in DOMAIN setup |-> setup[s].encoder]
         /\ dwLength' = Zeros
         /\ index' = <<>> /\ status' = 0 /\ segmentFlag' = FALSE
         /\ file' = "open" /\ stored' = <<>>
         /\ Then(<<>>)
         /\ UNCHANGED <<setup, encoding, total, phase, given, files>>

-----------------------------------------------------------------------------
(***************************************************************************)
(* The user: AddChunk of a stream, or AddFrame and AddData, which encode   *)
(* and call it; SegmentAtKeyframe and Segment; the destructor.             *)
(***************************************************************************)
AddChunk == /\ Idle /\ Len(given) < MaxChunks
            /\ \E m \in Menu :
                 LET c == [stream |-> m.stream, size |-> m.size, key |-> m.key,
                           number |-> Len(given) + 1,
                           encoding |-> encoding[m.stream]]
                 IN  /\ m.stream \in DOMAIN setup
                     /\ given' = Append(given, c)
                     /\ todo' = ChunkCall(c)
            /\ UNCHANGED <<fileVars, streamVars, writerVars, stored, files>>

SegmentAtKeyframe == /\ Idle /\ ~segmentFlag /\ Len(files) + 1 < MaxFiles
                     /\ segmentFlag' = TRUE
                     /\ UNCHANGED <<fileVars, streamVars, index, status, file,
                                    phase, todo, historyVars>>

Segment == /\ Idle /\ Len(files) + 1 < MaxFiles
           /\ segmentFlag' = FALSE
           /\ todo' = NextFile
           /\ UNCHANGED <<fileVars, streamVars, index, status, file, phase,
                          historyVars>>

(* A file that was given nothing stays open, and empty. *)
Destroy == /\ Idle
           /\ IF status = 0
              THEN phase' = "closed" /\ UNCHANGED todo
              ELSE todo' = StopAll \o Call("finish") \o Call("closed")
                   /\ UNCHANGED phase
           /\ UNCHANGED <<fileVars, streamVars, index, status, segmentFlag, file,
                          historyVars>>

Destroyed == /\ Doing("closed")
             /\ phase' = "closed" /\ Then(<<>>)
             /\ UNCHANGED <<fileVars, streamVars, index, status, segmentFlag,
                            file, historyVars>>

FileStep == PutNumber \/ Write \/ WriteDirect \/ Lseek \/ LseekEnd
CallStep == \/ ChunkSegments \/ ChunkBegins \/ ChunkWithoutFile
            \/ Locate \/ Refuse \/ Enter \/ Count \/ WriteHeaders
            \/ Finish \/ WriteIndex \/ WriteRiffSize \/ DeleteBuffer
            \/ Stop \/ Begin \/ Destroyed
UserCall == AddChunk \/ SegmentAtKeyframe \/ Segment \/ Destroy

Next == FileStep \/ CallStep \/ UserCall

Spec == Init /\ [][Next]_vars

(***************************************************************************)
(* What the writer's fields may hold; FileBuffer's buffer is never full    *)
(* between two calls (FileBuffer.h, lines 68 to 107).                      *)
(***************************************************************************)
TypeOK == /\ disk \in Seq(Cell) /\ off \in 0 .. Len(disk)
          /\ Len(buf) < BufSize
          /\ status \in {0, 1} /\ segmentFlag \in BOOLEAN
          /\ file \in {"open", "none"} /\ phase \in {"open", "closed", "dead"}
          /\ \A s \in DOMAIN setup : {dwLength[s], total[s], encoding[s]}
                                      \subseteq Nat
          /\ \A k \in DOMAIN index : index[k].stream \in DOMAIN setup
=============================================================================

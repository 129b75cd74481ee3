------------------------------ MODULE AviFile ------------------------------
(***************************************************************************)
(* An AVI file from the writer to the reader: AviWriteFile writes one or   *)
(* several, AviReadHandler opens one that is finished, or what is left of  *)
(* one when the program dies, and a stream of it is read.                  *)
(***************************************************************************)
EXTENDS AviWriteFile, AviReadHandler, FiniteSets

(* Nobody writes a chunk that the reader takes for damage. *)
ASSUME PacketAssumption == /\ MaxPacketSize \in Nat /\ MaxPacketSize >= 1
                           /\ \A m \in Menu : m.size <= MaxPacketSize

VARIABLE opened \* <<file, stream>> that are read, or <<0, 0>>

allVars == <<vars, readVars, opened>>

AllInit == /\ Init
           /\ table = EmptyTable(0) /\ sample = 0 /\ chunk = 0 /\ position = 0
           /\ missed = 0 /\ opened = <<0, 0>>

Writing == Next /\ UNCHANGED <<readVars, opened>>

Reading == phase = "closed" /\ opened # <<0, 0>>

Open == /\ phase = "closed" /\ opened = <<0, 0>>
        /\ \E f \in DOMAIN files, s \in DOMAIN setup :
             LET found == init(files[f].disk, setup)
             IN  /\ found.opens
                 /\ Opens(found.tables[s], setup[s].sample)
                 /\ opened' = <<f, s>>
        /\ UNCHANGED vars

Read == /\ Reading /\ chunk <= Chunks
        /\ ReadPacket
        /\ UNCHANGED <<vars, opened>>

SeekTo == /\ Reading
          /\ \E pos \in 0 .. GetLength + 1 : Seek(pos)
          /\ UNCHANGED <<vars, opened>>

Skip == /\ Reading
        /\ SkipFrame
        /\ UNCHANGED <<vars, opened>>

AllNext == Writing \/ Open \/ Read \/ SeekTo \/ Skip

AllSpec == AllInit /\ [][AllNext]_allVars

-----------------------------------------------------------------------------
(***************************************************************************)
(* What a file holds by the chunks its streams were given, with no look at *)
(* an index: where chunk k begins and ends, and the table of stream s.     *)
(***************************************************************************)
EndOf(chunks, k) ==
    LET end[n \in 0 .. k] == IF n = 0 THEN HeaderSize
                             ELSE end[n - 1] + 2 + Even(chunks[n].size)
    IN  end[k]
BeginOf(chunks, k) == EndOf(chunks, k - 1)

(* Which of the first n chunks stream s was given. *)
OfStream(chunks, s, n) ==
    LET own[k \in 0 .. n] == IF k = 0 THEN <<>>
                             ELSE IF chunks[k].stream = s
                             THEN Append(own[k - 1], k)
                             ELSE own[k - 1]
    IN  own[n]

(* The bytes of the first n of its chunks. *)
BytesBefore(chunks, s, n) ==
    LET own == OfStream(chunks, s, Len(chunks))
        bytes[k \in 0 .. n] == IF k = 0 THEN 0
                               ELSE bytes[k - 1] + chunks[own[k]].size
    IN  bytes[n]

TableOf(chunks, s) ==
    LET own == OfStream(chunks, s, Len(chunks))
        bytes == BytesBefore(chunks, s, Len(own))
    IN  [length |-> IF setup[s].sample > 0 THEN bytes \div setup[s].sample
                    ELSE Len(own),
         offsets |-> [n \in DOMAIN own |-> BeginOf(chunks, own[n])
                        + IF chunks[own[n]].key THEN 1 ELSE 0],
         positions |-> IF setup[s].sample = 0 THEN <<>>
                       ELSE [n \in DOMAIN own |->
                               BytesBefore(chunks, s, n - 1)],
         size |-> bytes]

-----------------------------------------------------------------------------
(***************************************************************************)
(* A finished file opens, and its index gives the reader the chunks the    *)
(* streams were given: where each begins, whether it is a key frame, how   *)
(* many bytes are before it, and the length of each stream - whatever the  *)
(* sizes, odd and empty ones included, the rewritten headers and the file  *)
(* begun before.  Stored chunks are as they were given where the stream    *)
(* does not encode (AviWrite.cpp, lines 213 to 239 and 367 to 412;         *)
(* AviReadHandler.cpp, lines 503 to 544).                                  *)
(***************************************************************************)
DataOf(f, k) == SubSeq(f.disk, BeginOf(f.chunks, k) + 3,
                       BeginOf(f.chunks, k) + 2 + f.chunks[k].size)

ReadsBack(f) ==
    LET found == init(f.disk, setup)
    IN  /\ found.opens /\ found.ok
        /\ found.tables = [s \in DOMAIN setup |-> TableOf(f.chunks, s)]
        /\ \A k \in DOMAIN f.chunks :
             setup[f.chunks[k].stream].encoder
             \/ DataOf(f, k) = Payload(f.chunks[k], f.chunks[k].number)

RoundTrip == [][\A f \in DOMAIN files' \ DOMAIN files :
                  files'[f].chunks # <<>> => ReadsBack(files'[f])]_files

(***************************************************************************)
(* When the program dies before the index is begun, the reader opens what  *)
(* there is - once headers were written - and its walk finds, in order,    *)
(* every chunk that is there to its last byte, and at most the one behind  *)
(* them, which is cut (reconstructIndexChunk, lines 546 to 684).  It holds *)
(* in the middle of every call: of a chunk, of a header that is written    *)
(* over an older one, or before the list of chunks is.                     *)
(***************************************************************************)
IsWhole(k) == EndOf(stored, k) <= Len(disk)
WholeChunks == {k \in DOMAIN stored : IsWhole(k)}

Recovers ==
    LET found == init(disk, setup)
        offsets(s) == [n \in DOMAIN found.tables[s].offsets |->
                         Even(found.tables[s].offsets[n] - 1)]
        begins(s, n) == [k \in DOMAIN OfStream(stored, s, n) |->
                           BeginOf(stored, OfStream(stored, s, n)[k])]
    IN  /\ found.opens
        /\ DOMAIN found.tables = DOMAIN setup
        /\ \E n \in {Cardinality(WholeChunks), Cardinality(WholeChunks) + 1} :
             /\ n <= Len(stored)
             /\ \A s \in DOMAIN setup : offsets(s) = begins(s, n)

CrashRecovers ==
    /\ disk # <<>> /\ disk[1] = Id("RIFF")
    /\ \A i \in DOMAIN disk : disk[i] # Id("idx1")
    => Recovers

(***************************************************************************)
(* The position a stream reports is the number of the bytes, or chunks,    *)
(* before the first chunk it has not given since the last packet or seek,  *)
(* however it came there by seeks, skips and reads.  That is the chunk it  *)
(* reads next unless reads failed: those it passes over, and the position, *)
(* with it the time of the next packet, stays behind by their chunks until *)
(* that packet or a seek (AviReadStream.cpp, lines 234 to 260).            *)
(***************************************************************************)
Here == files[opened[1]].chunks
NotGiven == chunk - missed
PositionTrue ==
    opened # <<0, 0>> /\ NotGiven < Chunks =>
        position = IF sample > 0 THEN BytesBefore(Here, opened[2], NotGiven)
                   ELSE NotGiven
=============================================================================

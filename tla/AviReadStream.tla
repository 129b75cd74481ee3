--------------------------- MODULE AviReadStream ---------------------------
(***************************************************************************)
(* One stream of an AVI file that is read: AviReadStream of                *)
(* src/lib/aviread/AviReadStream.cpp over the table AviReadHandler made    *)
(* for it.  Positions count chunks, or bytes in a stream of samples.  The  *)
(* first position, dwStart, is 0: the writer writes no other.              *)
(*                                                                         *)
(* The chunk itself comes from the cache (StreamCache), which returns the  *)
(* one it is asked for, or 0 when the stream has no such chunk or the      *)
(* chunk cannot be read.                                                   *)
(***************************************************************************)
EXTENDS Integers, Sequences

VARIABLES
    table,    \* m_Offsets, m_Positions, m_uiStreamSize, m_Header.dwLength
    sample,   \* m_Header.dwSampleSize
    chunk,    \* m_uiChunk
    position, \* m_uiPosition
    missed    \* reads that gave no packet since the last that did, or seek
              \* (not in the code)

readVars == <<table, sample, chunk, position, missed>>

ERR == -1 \* ~0U

Chunks == Len(table.offsets)
GetLength == IF sample > 0 THEN table.length * sample ELSE table.length

(***************************************************************************)
(* m_Positions[c].  Beyond the last chunk the vector has no value: it is   *)
(* what the memory holds, here 0 or the end.                               *)
(***************************************************************************)
PositionsAt(c) == IF c < Len(table.positions) THEN {table.positions[c + 1]}
                  ELSE {0, table.size}

PositionsOf(c) == IF sample > 0 THEN PositionsAt(c) ELSE {c}

(* The table before its first chunk, addChunk, and fixHeader, which is last *)
EmptyTable(length) == [length |-> length, offsets |-> <<>>, positions |-> <<>>,
                       size |-> 0]

AddChunkTo(t, samples, offset, size, key) ==
    [t EXCEPT
        !.offsets = Append(@, IF key THEN offset + 1 - (offset % 2) ELSE offset),
        !.positions = IF samples > 0 THEN Append(@, t.size) ELSE @,
        !.size = @ + size]

fixHeader(t, samples) ==
    [t EXCEPT !.length = IF samples > 0 THEN t.size \div samples
                         ELSE Len(t.offsets)]

(***************************************************************************)
(* The loop of find, for chunks numbered from 0: a turn halves what is     *)
(* between low and high.  Where the code breaks, the turn leaves nothing   *)
(* between them and the next turns change nothing; every other turn brings *)
(* them nearer, so that there are not more turns than chunks.              *)
(***************************************************************************)
halve(limits, pos) ==
    LET middle == (limits.low + limits.high) \div 2
    IN  IF pos < table.positions[middle + 1] THEN [limits EXCEPT !.high = middle]
        ELSE IF middle = limits.low \/ pos < table.positions[middle + 2]
        THEN [low |-> middle, high |-> middle]
        ELSE [limits EXCEPT !.low = middle]

search(last, pos) ==
    LET turns == Len(table.positions)
        limits[n \in 0 .. turns] ==
            IF n = 0 THEN [low |-> 0, high |-> last] ELSE halve(limits[n - 1], pos)
    IN  limits[turns].low

\* Slip: the search leaves out the last chunk once more.
findShort(pos) ==
    LET wanted == IF pos >= GetLength THEN GetLength ELSE pos
    IN  IF pos <= 0 THEN 0
        ELSE IF sample = 0 \/ Chunks < 2 THEN wanted
        ELSE search(Len(table.positions) - 2, wanted)

find(pos) ==
    LET wanted == IF pos >= GetLength THEN GetLength ELSE pos
    IN  IF pos <= 0 THEN 0
        ELSE IF sample = 0 \/ table.positions = <<>> THEN wanted
        ELSE search(Len(table.positions) - 1, wanted)

-----------------------------------------------------------------------------
Opens(t, samples) == /\ table' = t
                     /\ sample' = samples
                     /\ chunk' = 0
                     /\ position' = 0
                     /\ missed' = 0

\* There is no packet: position is left alone.
GetsNone == /\ missed' = missed + 1
            /\ UNCHANGED position

\* Slip: the position of the chunk that was read, not of the next.
ReadPacketBehind == /\ chunk' = chunk + 1
                    /\ \/ /\ chunk < Chunks /\ missed' = 0
                          /\ position' \in PositionsOf(chunk)
                       \/ GetsNone
                    /\ UNCHANGED <<table, sample>>

(* The chunk is counted even when there is none or it cannot be read. *)
ReadPacket == /\ chunk' = chunk + 1
              /\ \/ /\ chunk < Chunks /\ missed' = 0
                    /\ position' \in PositionsOf(chunk')
                 \/ GetsNone
              /\ UNCHANGED <<table, sample>>

Seek(pos) == /\ chunk' = find(pos)
             /\ position' \in PositionsOf(chunk')
             /\ missed' = 0
             /\ UNCHANGED <<table, sample>>

SkipFrame == Seek(position + 1)

(***************************************************************************)
(* A stream on its own: any chunks are added while the file is opened, and *)
(* then it is read.                                                        *)
(***************************************************************************)
addChunk(offset, size, key) ==
    /\ chunk = 0 /\ position = 0 /\ missed = 0
    /\ table' = AddChunkTo(table, sample, offset, size, key)
    /\ UNCHANGED <<sample, chunk, position, missed>>

StreamInit == /\ \E length \in Nat : table = EmptyTable(length)
              /\ sample \in Nat /\ chunk = 0 /\ position = 0 /\ missed = 0

StreamStep == \/ \E offset, size \in Nat, key \in BOOLEAN :
                    addChunk(offset, size, key)
              \/ table' = fixHeader(table, sample)
                 /\ UNCHANGED <<sample, chunk, position, missed>>
              \/ ReadPacket \/ SkipFrame \/ \E pos \in Nat : Seek(pos)

StreamSpec == StreamInit /\ [][StreamStep]_readVars

-----------------------------------------------------------------------------
(***************************************************************************)
(* find's search of a stream of samples ends at the chunk that holds the   *)
(* position, except that it never ends at the last of several chunks: a    *)
(* seek into that one goes to the chunk before it (lines 270 to 303).      *)
(***************************************************************************)
Holding(pos) ==
    CHOOSE n \in 0 .. Chunks - 1 :
        /\ table.positions[n + 1] <= pos
        /\ \A m \in n + 1 .. Chunks - 1 : pos < table.positions[m + 1]

SeekFindsChunk ==
    sample > 0 /\ Chunks > 1 =>
        \A pos \in 1 .. GetLength :
            find(pos) = IF Holding(pos) = Chunks - 1 THEN Chunks - 2
                        ELSE Holding(pos)
=============================================================================

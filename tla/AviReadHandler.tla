--------------------------- MODULE AviReadHandler ---------------------------
(***************************************************************************)
(* What AviReadHandler::init finds in a file: the chunks of each stream,   *)
(* from the index or, without one, from a walk over the chunks themselves  *)
(* (src/lib/aviread/AviReadHandler.cpp, addChunk of AviReadStream.cpp).    *)
(*                                                                         *)
(* A file is a sequence of cells, as in FileBuffer.  A stream's table has  *)
(* the offsets of its chunks, on whose lowest bit a key frame is marked,   *)
(* the positions of the chunks of a stream of samples, and how many bytes  *)
(* they are.  Formats are left out, with what init does for those that     *)
(* show key frames in the data; `setup' says what the streams are.         *)
(***************************************************************************)
EXTENDS AviReadStream

CONSTANT MaxPacketSize \* what no size of a chunk exceeds

(* Past the end readByte returns 255, so that a number read there is -1. *)
Eof == <<"eof", 0>>
At(disk, p) == IF p < Len(disk) THEN disk[p + 1] ELSE Eof
Num(cell) == IF cell[1] = "number" THEN cell[2] ELSE MaxPacketSize + 1
Is(cell, name) == cell = <<name, 0>>
Even(n) == n + (n % 2)

StreamOf(cell) == cell[2]
IsStream(cell, tables) == cell[1] = "chunk" /\ StreamOf(cell) \in DOMAIN tables

(***************************************************************************)
(* The three loops are counted in turns.  Where the code leaves a loop, the *)
(* turn changes nothing, and so do the next ones; every other turn moves on *)
(* by two cells or more, so that half as many turns as cells are enough.    *)
(* The steps over cells that are not looked for are one turn with the next. *)
(***************************************************************************)
Turns(disk) == Len(disk) \div 2 + 1

First(disk, pos, Wanted(_)) ==
    CHOOSE p \in pos .. Len(disk) :
        /\ p = Len(disk) \/ Wanted(At(disk, p))
        /\ \A q \in pos .. p - 1 : ~Wanted(At(disk, q))

(***************************************************************************)
(* reconstructIndexChunk: from `pos', chunk after chunk; what is no chunk   *)
(* is stepped over.  pos() is never beyond the end of the file.             *)
(***************************************************************************)
TakeChunk(disk, setup, at) ==
    LET pos == First(disk, at.pos, LAMBDA cell : \/ Is(cell, "idx1")
                                                \/ IsStream(cell, at.tables))
        id == At(disk, pos)
        size == Num(At(disk, pos + 1))
        next == pos + 2 + Even(size)
        end == IF next > Len(disk) THEN Len(disk) ELSE next
        s == StreamOf(id)
        grown == [at.tables EXCEPT ![s] =
                    AddChunkTo(@, setup[s].sample, pos, size, size > 0)]
    IN  IF at.pos >= Len(disk) \/ ~IsStream(id, at.tables) THEN at
        ELSE IF size > MaxPacketSize THEN [at EXCEPT !.pos = pos + 2]
        ELSE [tables |-> IF end > pos + Even(size) THEN grown ELSE at.tables,
              pos |-> next]

reconstructIndexChunk(disk, setup, tables, pos) ==
    LET at[n \in 0 .. Turns(disk)] == IF n = 0 THEN [tables |-> tables, pos |-> pos]
                                ELSE TakeChunk(disk, setup, at[n - 1])
    IN  at[Turns(disk)].tables

(***************************************************************************)
(* readIndexChunk, with `left' entries still to read at `pos': it reads    *)
(* one more than there are, unless the file ends.  An offset before the    *)
(* chunks means that offsets count from the list of chunks, from then on.  *)
(* A size that cannot be sends it to look for the chunks from the last one *)
(* it knows of the stream; `ok' is FALSE when it knows none, and looks at  *)
(* what is before an empty vector.                                         *)
(***************************************************************************)
TakeEntry(disk, setup, movie, at) ==
    LET id == At(disk, at.pos)
        offset == Num(At(disk, at.pos + 2))
        size == Num(At(disk, at.pos + 3))
        zero == at.zeroBased \/ offset < movie
        s == StreamOf(id)
        offsets == at.tables[s].offsets
        last == offsets[Len(offsets)]
        next == [at EXCEPT !.pos = @ + 4, !.left = @ - 1]
    IN  IF at.left < 0 \/ at.pos > Len(disk) THEN at
        ELSE IF ~IsStream(id, at.tables) THEN next
        ELSE IF size <= MaxPacketSize
        THEN [next EXCEPT !.zeroBased = zero,
                          !.tables[s] =
                AddChunkTo(@, setup[s].sample,
                           IF zero THEN offset + movie - 1 ELSE offset,
                           size, Num(At(disk, at.pos + 1)) = 1)]
        ELSE IF offsets = <<>> THEN [at EXCEPT !.left = -1, !.ok = FALSE]
        ELSE [at EXCEPT !.left = -1,
                        !.tables = reconstructIndexChunk(disk, setup, @,
                                                         last - (last % 2))]

readIndexChunk(disk, setup, tables, movie, pos, left) ==
    LET at[n \in 0 .. Turns(disk)] ==
            IF n = 0 THEN [tables |-> tables, ok |-> TRUE, zeroBased |-> FALSE,
                           pos |-> pos, left |-> left]
            ELSE TakeEntry(disk, setup, movie, at[n - 1])
    IN  at[Turns(disk)]

(***************************************************************************)
(* init: the lists and chunks of the file one after the other; before the  *)
(* first list, cell after cell.                                            *)
(***************************************************************************)
IsList(id) == \E type \in {"hdrl", "strl", "movi"} : Is(id, type)

TakeList(disk, at, pos) ==
    LET id == At(disk, pos)
        size == Num(At(disk, pos + 1))
        inside == pos + 2
        found == [at EXCEPT !.pos = inside + Even(size), !.listed = TRUE]
    IN  IF size < 1 THEN [at EXCEPT !.pos = inside]
        ELSE IF Is(id, "hdrl") THEN [found EXCEPT !.pos = inside]
        ELSE IF Is(id, "movi") THEN [found EXCEPT !.movie = inside]
        ELSE [found EXCEPT !.tables =
                Append(@, EmptyTable(Num(At(disk, inside + 1))))]

WithEntries(at, pos, entries) ==
    [at EXCEPT !.pos = pos, !.indexed = TRUE, !.ok = entries.ok,
               !.tables = entries.tables]

TakeIndex(disk, setup, at, pos) ==
    LET size == Num(At(disk, pos + 1))
        inside == pos + 2
    IN  WithEntries(at, inside + Even(size),
                    readIndexChunk(disk, setup, at.tables, at.movie, inside,
                                   size \div 4))

TakePart(disk, setup, at) ==
    LET pos == IF at.listed THEN at.pos ELSE First(disk, at.pos, IsList)
        id == At(disk, pos)
        size == Num(At(disk, pos + 1))
    IN  IF at.pos >= Len(disk) \/ pos + 1 >= Len(disk) THEN at
        ELSE IF IsList(id) THEN TakeList(disk, at, pos)
        ELSE IF Is(id, "idx1") THEN TakeIndex(disk, setup, at, pos)
        ELSE [at EXCEPT !.pos = pos + 2 + Even(size)]

readChunks(disk, setup) ==
    LET at[n \in 0 .. Turns(disk)] ==
            IF n = 0 THEN [pos |-> 2, listed |-> FALSE, movie |-> 0,
                           indexed |-> FALSE, ok |-> TRUE, tables |-> <<>>]
            ELSE TakePart(disk, setup, at[n - 1])
    IN  at[Turns(disk)]

(* Whether init returns 0, and the tables of the streams it then has. *)
Result(disk, setup, end) ==
    LET tables == IF end.indexed THEN end.tables
                  ELSE reconstructIndexChunk(disk, setup, end.tables, end.movie)
    IN  [opens |-> Is(At(disk, 0), "RIFF") /\ end.tables # <<>>,
         ok |-> end.ok,
         tables |-> [s \in DOMAIN tables |->
                       fixHeader(tables[s], setup[s].sample)]]

init(disk, setup) == Result(disk, setup, readChunks(disk, setup))
=============================================================================

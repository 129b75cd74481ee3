----------------------------- MODULE FileBuffer -----------------------------
(***************************************************************************)
(* FileBuffer of src/lib/aviwrite/FileBuffer.h: what has been written but  *)
(* not yet given to the system is kept in a buffer.  What the system has,  *)
(* `disk', is what remains of the file when the program dies.              *)
(*                                                                         *)
(* The unit is a cell: a number of 32 bits, or a byte of a payload.  Each  *)
(* action calls write(2) once at most, so that the program may die between *)
(* two calls.  write(2) takes all it is given: that it may fail, which     *)
(* sync does not look at, is left out.                                     *)
(***************************************************************************)
EXTENDS Integers, Sequences

CONSTANTS
    Cell,   \* what a file is made of
    BufSize \* _bufsize: 131072

ASSUME BufSizeAssumption == BufSize \in Nat /\ BufSize >= 2

VARIABLES
    disk, \* the file as the system has it
    off,  \* the system's position in it
    buf   \* _buffer, as far as it is _used

fileVars == <<disk, off, buf>>

File == INSTANCE PlainFile WITH content <- disk, pos <- off

Opened == disk = <<>> /\ off = 0 /\ buf = <<>>

(* The position FileBuffer::lseek(0, SEEK_CUR) returns. *)
Tell == off + Len(buf)

(* write(2), and sync, which gives it the whole buffer. *)
Give(data) == File!Write(data)

(***************************************************************************)
(* One turn of the loop of FileBuffer::write: the buffer takes what it has *)
(* room for and is given to the system when that fills it.                 *)
(***************************************************************************)
Room == BufSize - Len(buf)
Taken(data) == SubSeq(data, 1, IF Len(data) < Room THEN Len(data) ELSE Room)
Rest(data) == SubSeq(data, Len(Taken(data)) + 1, Len(data))

Fill(data) == LET all == buf \o Taken(data)
              IN  IF Len(all) = BufSize
                  THEN Give(all) /\ buf' = <<>>
                  ELSE buf' = all /\ UNCHANGED <<disk, off>>

(* The turn ends with what is left going past the empty buffer. *)
Direct(data) == buf = <<>> /\ Give(data) /\ UNCHANGED buf

(* write_le32, write_be32 *)
\* Slip: the buffer is given away only when there is no room for the number,
\* so that it may be left full.
PutLate(number) == IF Len(buf) >= BufSize
                   THEN Give(buf) /\ buf' = <<number>>
                   ELSE buf' = Append(buf, number) /\ UNCHANGED <<disk, off>>

Put(number) == IF Len(buf) >= BufSize - 1
               THEN Give(buf) /\ buf' = <<number>>
               ELSE buf' = Append(buf, number) /\ UNCHANGED <<disk, off>>

(* lseek to a position of the file, and to its end *)
\* Slip: the buffer is not synced before the system's position moves.
SeekUnsynced(position) == /\ position \in 0 .. Len(disk)
                          /\ off' = position
                          /\ UNCHANGED <<disk, buf>>

SeekSet(position) == /\ disk' = File!Overlay(disk, off, buf)
                     /\ position \in 0 .. Len(disk')
                     /\ off' = position
                     /\ buf' = <<>>
SeekEnd == /\ disk' = File!Overlay(disk, off, buf)
           /\ off' = Len(disk')
           /\ buf' = <<>>

(* The destructor, and the constructor for the file that comes next *)
Close == Give(buf) /\ buf' = <<>>
Reopen == disk' = <<>> /\ off' = 0 /\ buf' = <<>>

BufferStep == \/ \E data \in Seq(Cell) : Fill(data) \/ Direct(data)
              \/ \E number \in Cell : Put(number)
              \/ \E position \in Nat : SeekSet(position)
              \/ SeekEnd \/ Close \/ Reopen

BufferSpec == Opened /\ [][BufferStep]_fileVars

(***************************************************************************)
(* Whatever is written and wherever is gone, the file with the buffer laid *)
(* over it is a file that is written directly: no write is lost, doubled   *)
(* or put in another place by a full buffer, by a write longer than it or  *)
(* by a seek back to the header (FileBuffer.h, lines 47 to 110).           *)
(***************************************************************************)
Buffered == INSTANCE PlainFile WITH content <- File!Overlay(disk, off, buf),
                                    pos <- Tell
WritesThrough == Buffered!Spec
=============================================================================

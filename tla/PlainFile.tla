----------------------------- MODULE PlainFile -----------------------------
(***************************************************************************)
(* A file that is written without a buffer, as AviWriteFile may think of   *)
(* its FileBuffer: cells numbered from 0, of which content[i + 1] is       *)
(* number i, and the position of the next write.  A write goes over what   *)
(* was there and makes the file longer when it runs over its end.          *)
(***************************************************************************)
EXTENDS Integers, Sequences

VARIABLES content, pos

(***************************************************************************)
(* A file after `data' has been written to it at `at', which is not beyond *)
(* its end.                                                                *)
(***************************************************************************)
Overlay(file, at, data) ==
    [i \in 1 .. IF at + Len(data) > Len(file) THEN at + Len(data)
                                              ELSE Len(file) |->
        IF i > at /\ i <= at + Len(data) THEN data[i - at] ELSE file[i]]

Init == content = <<>> /\ pos = 0

Write(data) == /\ content' = Overlay(content, pos, data)
               /\ pos' = pos + Len(data)

Seek == UNCHANGED content /\ pos' \in 0 .. Len(content)

(* Another file is begun. *)
Open == content' = <<>> /\ pos' = 0

(***************************************************************************)
(* What a step wrote can be read from the file after it.                   *)
(***************************************************************************)
Next == \/ pos' > pos /\ Write(SubSeq(content', pos + 1, pos'))
        \/ Seek
        \/ Open

Spec == Init /\ [][Next]_<<content, pos>>
=============================================================================

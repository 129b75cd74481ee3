----------------------------- MODULE AviProofs -----------------------------
(***************************************************************************)
(* What an AVI file is written with, for any cells, streams, chunks and    *)
(* calls: FileBuffer implements PlainFile, AviReadStream's tables and      *)
(* searches are right, AviWriteFile keeps its types and writes through,    *)
(* and a finished file has its headers, its chunks and its index in their  *)
(* places.                                                                 *)
(***************************************************************************)
EXTENDS AviFile, SequenceTheorems, WellFoundedInduction, TLAPS

-----------------------------------------------------------------------------
(* Files as functions *)

LEMMA OverlayFacts ==
    ASSUME NEW S, NEW d \in Seq(S), NEW o \in 0 .. Len(d), NEW b \in Seq(S)
    PROVE  LET w == File!Overlay(d, o, b)
               n == IF o + Len(b) > Len(d) THEN o + Len(b) ELSE Len(d)
           IN  /\ w \in Seq(S)
               /\ Len(w) = n
               /\ n \in Nat /\ n >= o + Len(b)
               /\ \A i \in 1 .. n :
                      w[i] = IF i > o /\ i <= o + Len(b) THEN b[i - o] ELSE d[i]
<1> DEFINE w == File!Overlay(d, o, b)
           n == IF o + Len(b) > Len(d) THEN o + Len(b) ELSE Len(d)
           cell(i) == IF i > o /\ i <= o + Len(b) THEN b[i - o] ELSE d[i]
<1>1. Len(d) \in Nat /\ Len(b) \in Nat /\ o \in Nat /\ o <= Len(d)
    OBVIOUS
<1>2. n \in Nat /\ n >= o + Len(b)
    BY <1>1
<1>3. \A i \in 1 .. n : cell(i) \in S
    BY <1>1
<1>4. w = [i \in 1 .. n |-> cell(i)]
    BY DEF File!Overlay
<1> HIDE DEF w, n, cell
<1>5. w \in Seq(S) /\ Len(w) = n /\ \A i \in 1 .. n : w[i] = cell(i)
    BY <1>2, <1>3, <1>4
<1> QED
    BY <1>2, <1>5 DEF w, n, cell

LEMMA SameFiles ==
    ASSUME NEW S, NEW s \in Seq(S), NEW t \in Seq(S), Len(s) = Len(t),
           \A i \in 1 .. Len(s) : s[i] = t[i]
    PROVE  s = t
OBVIOUS

LEMMA PartFacts ==
    ASSUME NEW S, NEW s \in Seq(S), NEW m \in Nat, NEW n \in Nat, m + n <= Len(s)
    PROVE  LET r == SubSeq(s, m + 1, m + n)
           IN  /\ r \in Seq(S) /\ Len(r) = n
               /\ \A i \in 1 .. n : r[i] = s[m + i]
<1>1. \A i \in 1 .. n : m + i \in 1 .. Len(s) /\ (m + 1) + i - 1 = m + i
    OBVIOUS
<1>2. SubSeq(s, m + 1, m + n) = [i \in 1 .. n |-> s[m + i]]
    OBVIOUS
<1> QED
    BY <1>1, <1>2

\* Nothing written changes nothing.
LEMMA OverlayEmpty ==
    ASSUME NEW S, NEW d \in Seq(S), NEW o \in 0 .. Len(d)
    PROVE  File!Overlay(d, o, <<>>) = d
<1> DEFINE e == <<>>
           w == File!Overlay(d, o, e)
<1>0. e \in Seq(S)
    OBVIOUS
<1>1. Len(e) = 0
    OBVIOUS
<1>2. o \in Nat /\ Len(d) \in Nat /\ o <= Len(d)
    OBVIOUS
<1> HIDE DEF e
<1> DEFINE n == IF o + Len(e) > Len(d) THEN o + Len(e) ELSE Len(d)
<1>3. /\ w \in Seq(S) /\ Len(w) = n
      /\ \A i \in 1 .. n :
            w[i] = IF i > o /\ i <= o + Len(e) THEN e[i - o] ELSE d[i]
    BY <1>0, OverlayFacts
<1> HIDE DEF w
<1>4. /\ w \in Seq(S) /\ Len(w) = Len(d)
      /\ \A i \in 1 .. Len(d) : w[i] = d[i]
    BY <1>1, <1>2, <1>3
<1>5. w = d
    BY <1>4, SameFiles
<1> QED
    BY <1>5 DEF w, e

\* Two writes one behind the other are one write.
LEMMA OverlayTwice ==
    ASSUME NEW S, NEW d \in Seq(S), NEW o \in 0 .. Len(d),
           NEW b \in Seq(S), NEW x \in Seq(S)
    PROVE  File!Overlay(File!Overlay(d, o, b), o + Len(b), x)
               = File!Overlay(d, o, b \o x)
<1> DEFINE w == File!Overlay(d, o, b)
           p == o + Len(b)
           u == File!Overlay(w, p, x)
           v == File!Overlay(d, o, b \o x)
           nw == IF p > Len(d) THEN p ELSE Len(d)
           n == IF p + Len(x) > Len(d) THEN p + Len(x) ELSE Len(d)
<1>0. /\ Len(d) \in Nat /\ Len(b) \in Nat /\ Len(x) \in Nat /\ o \in Nat
      /\ o <= Len(d)
    OBVIOUS
<1>1. /\ w \in Seq(S) /\ Len(w) = nw /\ nw >= p
      /\ \A i \in 1 .. nw : w[i] = IF i > o /\ i <= p THEN b[i - o] ELSE d[i]
    BY OverlayFacts
<1>2. /\ b \o x \in Seq(S) /\ Len(b \o x) = Len(b) + Len(x)
      /\ \A i \in 1 .. Len(b) + Len(x) :
            (b \o x)[i] = IF i <= Len(b) THEN b[i] ELSE x[i - Len(b)]
    OBVIOUS
<1>3. p \in 0 .. Len(w)
    BY <1>0, <1>1
<1> HIDE DEF w
<1>4. /\ u \in Seq(S) /\ Len(u) = n
      /\ \A i \in 1 .. n :
            u[i] = IF i > p /\ i <= p + Len(x) THEN x[i - p] ELSE w[i]
    <2>1. (IF p + Len(x) > Len(w) THEN p + Len(x) ELSE Len(w)) = n
        BY <1>0, <1>1
    <2> HIDE DEF p, n
    <2> QED
        BY <1>1, <1>3, <2>1, OverlayFacts
<1>5. /\ v \in Seq(S) /\ Len(v) = n
      /\ \A i \in 1 .. n :
            v[i] = IF i > o /\ i <= p + Len(x) THEN (b \o x)[i - o] ELSE d[i]
    <2> DEFINE c == b \o x
               z == File!Overlay(d, o, c)
    <2>1. /\ c \in Seq(S) /\ o + Len(c) = p + Len(x)
        BY <1>0, <1>2
    <2> HIDE DEF c
    <2>2. /\ z \in Seq(S)
          /\ Len(z) = IF o + Len(c) > Len(d) THEN o + Len(c) ELSE Len(d)
          /\ \A i \in 1 .. Len(z) :
                z[i] = IF i > o /\ i <= o + Len(c) THEN c[i - o] ELSE d[i]
        BY <2>1, OverlayFacts
    <2> HIDE DEF z
    <2>3. /\ z \in Seq(S) /\ Len(z) = n
          /\ \A i \in 1 .. n :
                z[i] = IF i > o /\ i <= p + Len(x) THEN c[i - o] ELSE d[i]
        <3> HIDE DEF p
        <3> QED
            BY <2>1, <2>2
    <2> QED
        BY <2>3 DEF z, c
<1> HIDE DEF u, v
<1>6. ASSUME NEW i \in 1 .. n PROVE u[i] = v[i]
    <2>1. n \in Nat /\ i \in Nat /\ i >= 1
        BY <1>0
    <2>2. CASE i > p /\ i <= p + Len(x)
        <3>1. u[i] = x[i - p]
            BY <1>4, <2>2
        <3>2. i - o \in 1 .. Len(b) + Len(x) /\ ~(i - o <= Len(b)) /\ i > o
            BY <1>0, <2>1, <2>2
        <3>3. (b \o x)[i - o] = x[(i - o) - Len(b)]
            BY <1>2, <3>2
        <3>4. (i - o) - Len(b) = i - p
            BY <1>0, <2>1
        <3>5. v[i] = (b \o x)[i - o]
            BY <1>5, <2>2, <3>2
        <3> QED
            BY <3>1, <3>3, <3>4, <3>5
    <2>3. CASE i > o /\ i <= p
        <3>1. i \in 1 .. nw /\ ~(i > p) /\ i <= p + Len(x)
            BY <1>0, <2>1, <2>3
        <3>2. u[i] = w[i] /\ w[i] = b[i - o]
            BY <1>1, <1>4, <2>3, <3>1
        <3>3. i - o \in 1 .. Len(b) + Len(x) /\ i - o <= Len(b)
            BY <1>0, <2>1, <2>3
        <3>4. v[i] = (b \o x)[i - o] /\ (b \o x)[i - o] = b[i - o]
            BY <1>2, <1>5, <2>3, <3>1, <3>3
        <3> QED
            BY <3>2, <3>4
    <2>4. CASE i <= o \/ i > p + Len(x)
        <3>1. i \in 1 .. nw /\ ~(i > p /\ i <= p + Len(x)) /\ ~(i > o /\ i <= p)
              /\ ~(i > o /\ i <= p + Len(x))
            BY <1>0, <2>1, <2>4
        <3>2. u[i] = w[i] /\ w[i] = d[i] /\ v[i] = d[i]
            BY <1>1, <1>4, <1>5, <3>1
        <3> QED
            BY <3>2
    <2> QED
        BY <1>0, <2>1, <2>2, <2>3, <2>4
<1>7. u = v
    BY <1>4, <1>5, <1>6, SameFiles
<1> QED
    BY <1>7 DEF u, v, w

\* What was written is read at the place it was written to.
LEMMA WrittenIsRead ==
    ASSUME NEW S, NEW d \in Seq(S), NEW o \in 0 .. Len(d), NEW x \in Seq(S)
    PROVE  SubSeq(File!Overlay(d, o, x), o + 1, o + Len(x)) = x
<1> DEFINE w == File!Overlay(d, o, x)
           r == SubSeq(w, o + 1, o + Len(x))
<1>1. /\ w \in Seq(S) /\ Len(w) >= o + Len(x)
      /\ \A i \in 1 .. Len(w) :
            w[i] = IF i > o /\ i <= o + Len(x) THEN x[i - o] ELSE d[i]
    BY OverlayFacts
<1>2. o \in Nat /\ Len(x) \in Nat
    OBVIOUS
<1> HIDE DEF w
<1>3. /\ r \in Seq(S) /\ Len(r) = Len(x)
      /\ \A i \in 1 .. Len(x) : r[i] = w[o + i]
    <2> DEFINE h == Len(x)
    <2>1. h \in Nat /\ o + h <= Len(w)
        BY <1>1, <1>2
    <2> HIDE DEF h
    <2> DEFINE q == SubSeq(w, o + 1, o + h)
    <2>2. w \in Seq(S) /\ o \in Nat
        BY <1>1, <1>2
    <2>3. q \in Seq(S) /\ Len(q) = h /\ \A i \in 1 .. h : q[i] = w[o + i]
        BY <2>1, <2>2, PartFacts
    <2> QED
        BY <2>3 DEF h
<1> HIDE DEF r
<1>4. ASSUME NEW i \in 1 .. Len(x) PROVE r[i] = x[i]
    <2>1. o + i \in 1 .. Len(w) /\ o + i > o /\ o + i <= o + Len(x)
          /\ (o + i) - o = i
        BY <1>1, <1>2
    <2> QED
        BY <1>1, <1>3, <2>1
<1>5. r = x
    BY <1>3, <1>4, SameFiles
<1> QED
    BY <1>5 DEF r, w

-----------------------------------------------------------------------------
(* The buffer *)

\* The system's position is within the file, and the buffer is never full
\* between two steps.
FileInv == /\ disk \in Seq(Cell) /\ buf \in Seq(Cell)
           /\ off \in 0 .. Len(disk)
           /\ Len(buf) < BufSize

\* The file with the buffer laid over it.
Whole == File!Overlay(disk, off, buf)

LEMMA EmptyFile == File!Overlay(<<>>, 0, <<>>) = <<>>
<1> DEFINE d == <<>>
<1>1. d \in Seq(Cell) /\ 0 \in 0 .. Len(d)
    OBVIOUS
<1> HIDE DEF d
<1>2. File!Overlay(d, 0, <<>>) = d
    BY <1>1, OverlayEmpty
<1> QED
    BY <1>2 DEF d

LEMMA WholeFacts ==
    ASSUME FileInv
    PROVE  Whole \in Seq(Cell) /\ Tell \in 0 .. Len(Whole)
<1>1. /\ Len(disk) \in Nat /\ Len(buf) \in Nat /\ off \in Nat
      /\ disk \in Seq(Cell) /\ buf \in Seq(Cell) /\ off \in 0 .. Len(disk)
    BY DEF FileInv
<1>2. Whole \in Seq(Cell) /\ Len(Whole) >= off + Len(buf)
    BY <1>1, OverlayFacts DEF Whole
<1> QED
    BY <1>1, <1>2 DEF Tell

\* A step that puts data at the position of the whole file is a write.
LEMMA WriteStep ==
    ASSUME FileInv, NEW data \in Seq(Cell),
           Whole' = File!Overlay(Whole, Tell, data), Tell' = Tell + Len(data)
    PROVE  Buffered!Next \/ UNCHANGED <<Whole, Tell>>
<1>1. Whole \in Seq(Cell) /\ Tell \in 0 .. Len(Whole) /\ Tell \in Nat
    BY WholeFacts
<1>2. Len(data) \in Nat
    OBVIOUS
<1>3. CASE data = <<>>
    <2>1. Whole' = Whole
        BY <1>1, <1>3, OverlayEmpty
    <2>2. Tell' = Tell
        BY <1>1, <1>3
    <2> QED
        BY <2>1, <2>2
<1>4. CASE data # <<>>
    <2>1. Len(data) > 0
        BY <1>2, <1>4
    <2>2. SubSeq(Whole', Tell + 1, Tell') = data
        BY <1>1, WrittenIsRead
    <2>3. Tell' > Tell
        BY <1>1, <1>2, <2>1
    <2>4. Buffered!Overlay(Whole, Tell, data) = File!Overlay(Whole, Tell, data)
        BY DEF Buffered!Overlay, File!Overlay
    <2>5. Buffered!Write(SubSeq(Whole', Tell + 1, Tell'))
        BY <2>2, <2>4 DEF Buffered!Write, Whole
    <2> QED
        BY <2>3, <2>5 DEF Buffered!Next, Whole
<1> QED
    BY <1>3, <1>4

\* The file is as if data had been written to it.
Wrote(data) == /\ FileInv' /\ data \in Seq(Cell)
               /\ Whole' = File!Overlay(Whole, Tell, data)
               /\ Tell' = Tell + Len(data)

LEMMA FillStep ==
    ASSUME FileInv, NEW data \in Seq(Cell), Fill(data)
    PROVE  Wrote(Taken(data)) /\ Len(Taken(data)) <= Len(data)
<1> DEFINE t == Taken(data)
           all == buf \o t
<1>1. /\ disk \in Seq(Cell) /\ buf \in Seq(Cell) /\ off \in 0 .. Len(disk)
      /\ Len(disk) \in Nat /\ Len(buf) \in Nat /\ off \in Nat
      /\ BufSize \in Nat /\ BufSize >= 2 /\ Len(buf) < BufSize
    BY BufSizeAssumption DEF FileInv
<1>2. t \in Seq(Cell) /\ Len(t) \in Nat /\ Len(t) <= Room /\ Len(t) <= Len(data)
    <2>1. Room \in Nat /\ Len(data) \in Nat
        BY <1>1 DEF Room
    <2>2. CASE Len(data) < Room
        <3>1. /\ SubSeq(data, 0 + 1, 0 + Len(data)) \in Seq(Cell)
              /\ Len(SubSeq(data, 0 + 1, 0 + Len(data))) = Len(data)
            BY <2>1, PartFacts
        <3> QED
            BY <2>1, <2>2, <3>1 DEF Taken
    <2>3. CASE ~(Len(data) < Room)
        <3>1. /\ SubSeq(data, 0 + 1, 0 + Room) \in Seq(Cell)
              /\ Len(SubSeq(data, 0 + 1, 0 + Room)) = Room
            BY <2>1, <2>3, PartFacts
        <3> QED
            BY <2>1, <2>3, <3>1 DEF Taken
    <2> QED
        BY <2>2, <2>3
<1> HIDE DEF t
<1>3. all \in Seq(Cell) /\ Len(all) = Len(buf) + Len(t) /\ Len(all) <= BufSize
    BY <1>1, <1>2 DEF Room
<1>4. File!Overlay(Whole, Tell, t) = File!Overlay(disk, off, all)
    BY <1>1, <1>2, OverlayTwice DEF Whole, Tell
<1> HIDE DEF all
<1>5. CASE Len(all) = BufSize
    <2>1. /\ disk' = File!Overlay(disk, off, all)
          /\ off' = off + Len(all) /\ buf' = <<>>
        BY <1>5 DEF Fill, Give, File!Write, all, t
    <2>2. disk' \in Seq(Cell) /\ Len(disk') >= off + Len(all)
        BY <1>1, <1>3, <2>1, OverlayFacts
    <2>3. FileInv'
        BY <1>1, <1>3, <2>1, <2>2 DEF FileInv
    <2>4. Whole' = disk'
        BY <2>1, <2>3, OverlayEmpty DEF FileInv, Whole
    <2>5. Tell' = Tell + Len(t)
        BY <1>1, <1>2, <1>3, <2>1 DEF Tell
    <2> QED
        BY <1>2, <1>4, <2>1, <2>3, <2>4, <2>5 DEF Wrote, t
<1>6. CASE Len(all) # BufSize
    <2>1. buf' = all /\ disk' = disk /\ off' = off
        BY <1>6 DEF Fill, all, t
    <2>2. FileInv'
        BY <1>1, <1>3, <1>6, <2>1 DEF FileInv
    <2>3. Whole' = File!Overlay(disk, off, all)
        BY <2>1 DEF Whole
    <2>4. Tell' = Tell + Len(t)
        <3>1. Len(buf') = Len(buf) + Len(t) /\ off' = off
            BY <1>3, <2>1
        <3> QED
            BY <1>1, <1>2, <3>1 DEF Tell
    <2> QED
        BY <1>2, <1>4, <2>2, <2>3, <2>4 DEF Wrote, t
<1> QED
    BY <1>5, <1>6

LEMMA DirectStep ==
    ASSUME FileInv, NEW data \in Seq(Cell), Direct(data)
    PROVE  Wrote(data)
<1>1. /\ disk \in Seq(Cell) /\ off \in 0 .. Len(disk) /\ off \in Nat
      /\ Len(data) \in Nat /\ Len(disk) \in Nat
    BY DEF FileInv
<1>2. /\ buf = <<>> /\ buf' = <<>>
      /\ disk' = File!Overlay(disk, off, data) /\ off' = off + Len(data)
    BY DEF Direct, Give, File!Write
<1>3. disk' \in Seq(Cell) /\ Len(disk') >= off + Len(data)
    BY <1>1, <1>2, OverlayFacts
<1>4. FileInv'
    BY <1>1, <1>2, <1>3, BufSizeAssumption DEF FileInv
<1>5. Whole = disk /\ Tell = off
    BY <1>1, <1>2, OverlayEmpty DEF Whole, Tell
<1>6. Whole' = disk' /\ Tell' = off'
    BY <1>2, <1>4, OverlayEmpty DEF FileInv, Whole, Tell
<1> QED
    BY <1>2, <1>4, <1>5, <1>6 DEF Wrote

\* The buffer is given away, and another begun.
LEMMA Synced ==
    ASSUME FileInv, disk' = Whole, NEW rest \in Seq(Cell), buf' = rest,
           Len(rest) < BufSize, off' \in 0 .. Len(disk')
    PROVE  FileInv' /\ Whole' = File!Overlay(Whole, off', rest)
<1>1. disk' \in Seq(Cell)
    BY WholeFacts
<1> QED
    BY <1>1 DEF FileInv, Whole

LEMMA PutStep ==
    ASSUME FileInv, NEW number \in Cell, Put(number)
    PROVE  Wrote(<<number>>)
<1> DEFINE one == <<number>>
<1>1. one \in Seq(Cell) /\ Len(one) = 1
    OBVIOUS
<1>2. /\ disk \in Seq(Cell) /\ buf \in Seq(Cell) /\ off \in 0 .. Len(disk)
      /\ Len(disk) \in Nat /\ Len(buf) \in Nat /\ off \in Nat
      /\ BufSize \in Nat /\ BufSize >= 2 /\ Len(buf) < BufSize
    BY BufSizeAssumption DEF FileInv
<1>3. CASE Len(buf) >= BufSize - 1
    <2>1. disk' = Whole /\ off' = Tell /\ buf' = one
        BY <1>3 DEF Put, Give, File!Write, Whole, Tell
    <2>2. off' \in 0 .. Len(disk')
        BY <2>1, WholeFacts
    <2> HIDE DEF one
    <2>3. FileInv' /\ Whole' = File!Overlay(Whole, off', one)
        BY <1>1, <1>2, <2>1, <2>2, Synced
    <2>4. Tell' = Tell + Len(one)
        BY <2>1 DEF Tell
    <2> QED
        BY <1>1, <2>1, <2>3, <2>4 DEF Wrote, one
<1>4. CASE ~(Len(buf) >= BufSize - 1)
    <2>1. buf' = buf \o one /\ UNCHANGED <<disk, off>>
        <3>1. buf' = Append(buf, number) /\ UNCHANGED <<disk, off>>
            BY <1>4 DEF Put
        <3> QED
            BY <1>2, <3>1
    <2>2. buf \o one \in Seq(Cell) /\ Len(buf \o one) = Len(buf) + 1
        BY <1>1, <1>2
    <2> HIDE DEF one
    <2>3. FileInv'
        BY <1>2, <1>4, <2>1, <2>2 DEF FileInv
    <2>4. Whole' = File!Overlay(Whole, Tell, one)
        BY <1>1, <1>2, <2>1, OverlayTwice DEF Whole, Tell
    <2>5. Tell' = Tell + Len(one)
        BY <1>1, <1>2, <2>1, <2>2 DEF Tell
    <2> QED
        BY <1>1, <2>3, <2>4, <2>5 DEF Wrote, one
<1> QED
    BY <1>3, <1>4

LEMMA PlusNothing == \A n \in Int : n + 0 = n
OBVIOUS

\* A step that gives the buffer away and writes nothing is a seek.
LEMMA SeekStep ==
    ASSUME FileInv, disk' = Whole, buf' = <<>>, off' \in 0 .. Len(disk')
    PROVE  FileInv' /\ Whole' = Whole /\ Tell' = off' /\ Buffered!Next
<1> DEFINE e == <<>>
<1>1. e \in Seq(Cell) /\ Len(e) = 0 /\ Len(e) < BufSize
    BY BufSizeAssumption
<1>2. FileInv' /\ Whole' = File!Overlay(Whole, off', e)
    BY <1>1, Synced
<1>3. Whole' = Whole
    BY <1>2, WholeFacts, OverlayEmpty
<1>4. Tell' = off'
    <2>1. Len(buf') = 0 /\ off' \in Int
        OBVIOUS
    <2>2. Tell' = off' + Len(buf')
        BY Zenon DEF Tell
    <2> QED
        BY <2>1, <2>2, PlusNothing, Zenon
<1>5. Tell' \in 0 .. Len(Whole)
    BY <1>4
<1> QED
    BY <1>2, <1>3, <1>4, <1>5 DEF Buffered!Next, Buffered!Seek, Whole

LEMMA StepIsFileStep ==
    ASSUME FileInv, BufferStep
    PROVE  FileInv' /\ (Buffered!Next \/ UNCHANGED <<Whole, Tell>>)
<1>1. ASSUME NEW to \in Nat, SeekSet(to)
      PROVE  FileInv' /\ Buffered!Next
    BY <1>1, SeekStep DEF SeekSet, Whole
<1>2. ASSUME SeekEnd PROVE FileInv' /\ Buffered!Next
    <2>1. disk' = Whole /\ buf' = <<>> /\ off' = Len(disk')
        BY <1>2 DEF SeekEnd, Whole
    <2>2. Len(disk') \in Nat
        BY <2>1, WholeFacts
    <2> QED
        BY <2>1, <2>2, SeekStep
<1>3. ASSUME Close PROVE FileInv' /\ Buffered!Next
    <2>1. disk' = Whole /\ buf' = <<>> /\ off' = Tell
        BY <1>3 DEF Close, Give, File!Write, Whole, Tell
    <2> QED
        BY <2>1, WholeFacts, SeekStep
<1>4. ASSUME Reopen PROVE FileInv' /\ Buffered!Next
    <2>1. FileInv'
        BY <1>4, BufSizeAssumption DEF Reopen, FileInv
    <2>2. Whole' = <<>> /\ Tell' = 0
        BY <1>4, EmptyFile DEF Reopen, Whole, Tell
    <2> QED
        BY <2>1, <2>2 DEF Buffered!Next, Buffered!Open, Whole
<1>5. ASSUME NEW data, Wrote(data)
      PROVE  FileInv' /\ (Buffered!Next \/ UNCHANGED <<Whole, Tell>>)
    BY <1>5, WriteStep DEF Wrote
<1> QED
    BY <1>1, <1>2, <1>3, <1>4, <1>5, FillStep, DirectStep, PutStep DEF BufferStep

\* Whatever is written and wherever is gone, with a buffer of any size: the
\* file with the buffer laid over it is a file that is written directly
\* (FileBuffer.h, lines 47 to 110).
THEOREM Implements == BufferSpec => WritesThrough
<1>1. Opened => FileInv /\ Buffered!Init
    <2>1. ASSUME Opened PROVE FileInv
        BY <2>1, BufSizeAssumption DEF Opened, FileInv
    <2>2. ASSUME Opened PROVE Whole = <<>> /\ Tell = 0
        BY <2>2, EmptyFile DEF Opened, Whole, Tell
    <2> QED
        BY <2>1, <2>2 DEF Buffered!Init, Whole
<1>2. ASSUME FileInv, [BufferStep]_fileVars
      PROVE  FileInv' /\ [Buffered!Next]_<<Whole, Tell>>
    <2>1. CASE BufferStep
        BY <1>2, <2>1, StepIsFileStep
    <2>2. CASE UNCHANGED fileVars
        BY <1>2, <2>2 DEF fileVars, FileInv, Whole, Tell
    <2> QED
        BY <1>2, <2>1, <2>2
<1> QED
    BY <1>1, <1>2, PTL DEF BufferSpec, WritesThrough, Buffered!Spec, Whole

-----------------------------------------------------------------------------
(***************************************************************************)
(* A loop that is written as a function of the number of its turns.        *)
(***************************************************************************)
LEMMA Smallest ==
    ASSUME NEW T, T \subseteq Nat, T # {}
    PROVE  \E m \in T : \A y \in T : m <= y
<1> DEFINE R == OpToRel(<, Nat)
<1>1. IsWellFoundedOn(R, Nat)
    BY NatLessThanWellFounded
<1>2. \A x, y \in Nat : <<y, x>> \in R <=> y < x
    BY DEF OpToRel
<1> HIDE DEF R
<1>3. PICK x \in T : \A y \in T : ~(<<y, x>> \in R)
    BY <1>1, WFMin
<1>4. T \subseteq Nat /\ \A y \in T : ~(y < x)
    BY <1>2, <1>3, Zenon
<1> QED
    BY ONLY <1>4, x \in T

\* f is what the loop computes: v before its first turn, g in each.
Iterates(f, v, g, n) == /\ f[0] = v
                        /\ \A i \in 1 .. n : f[i] = g[<<i, f[i - 1]>>]

LEMMA IterationExists ==
    ASSUME NEW V, NEW v \in V, NEW n \in Nat, NEW g \in [(1 .. n) \X V -> V]
    PROVE  \E f \in [0 .. n -> V] : Iterates(f, v, g, n)
<1> DEFINE T == {k \in 0 .. n : ~ \E f \in [0 .. k -> V] : Iterates(f, v, g, k)}
<1> SUFFICES ASSUME T # {} PROVE FALSE
    OBVIOUS
<1>1. PICK k \in T : \A y \in T : k <= y
    <2>1. T \subseteq Nat
        OBVIOUS
    <2> HIDE DEF T
    <2> QED
        BY <2>1, Smallest
<1>2. k \in 0 .. n /\ ~ \E f \in [0 .. k -> V] : Iterates(f, v, g, k)
    OBVIOUS
<1>3. k # 0
    <2> DEFINE f == [i \in 0 .. 0 |-> v]
    <2>1. f \in [0 .. 0 -> V] /\ Iterates(f, v, g, 0)
        BY DEF Iterates
    <2> QED
        BY <1>2, <2>1
<1>4. k - 1 \in 0 .. n /\ ~(k <= k - 1)
    BY <1>2, <1>3
<1>5. k - 1 \notin T
    <2> HIDE DEF T
    <2> QED
        BY <1>1, <1>4
<1>6. PICK f \in [0 .. k - 1 -> V] : Iterates(f, v, g, k - 1)
    BY <1>4, <1>5
<1> DEFINE h == [i \in 0 .. k |-> IF i = k THEN g[<<k, f[k - 1]>>] ELSE f[i]]
<1>7. h \in [0 .. k -> V]
    <2>1. f[k - 1] \in V /\ k \in 1 .. n
        BY <1>2, <1>3
    <2>2. g[<<k, f[k - 1]>>] \in V
        BY <2>1
    <2>3. \A i \in 0 .. k : i # k => i \in 0 .. k - 1
        BY <1>2
    <2> QED
        BY <2>2, <2>3
<1>8. h[0] = v
    BY <1>2, <1>3, <1>6 DEF Iterates
<1>9. \A i \in 1 .. k : h[i] = g[<<i, h[i - 1]>>]
    <2> TAKE i \in 1 .. k
    <2>1. i \in 0 .. k /\ i - 1 \in 0 .. k /\ i - 1 # k
        BY <1>2
    <2>2. h[i - 1] = f[i - 1]
        BY <2>1
    <2>3. CASE i = k
        BY <2>1, <2>2, <2>3
    <2>4. CASE i # k
        <3>1. i \in 1 .. k - 1
            BY <1>2, <2>4
        <3> QED
            BY <2>1, <2>2, <2>4, <3>1, <1>6 DEF Iterates
    <2> QED
        BY <2>3, <2>4
<1> QED
    BY <1>2, <1>7, <1>8, <1>9 DEF Iterates

-----------------------------------------------------------------------------
(***************************************************************************)
(* The tables addChunk makes: a position for every chunk of a stream of    *)
(* samples, from 0 on, none before the one in front of it.                 *)
(***************************************************************************)
Table == [length : Nat, offsets : Seq(Nat), positions : Seq(Nat), size : Nat]

\* Of a stream that is opened and read: its table and its numbers have their
\* types (AviReadStream.h, m_Offsets, m_Positions, m_uiChunk, m_uiPosition).
StreamTypeOK == /\ table \in Table /\ sample \in Nat
                /\ chunk \in Nat /\ position \in Nat
                /\ missed \in 0 .. chunk

Begun == /\ sample > 0 => Len(table.positions) = Len(table.offsets)
         /\ table.offsets = <<>> => table.size = 0
         /\ table.positions # <<>> => table.positions[1] = 0

Ordered == \A i, j \in 1 .. Len(table.positions) :
               i <= j => /\ table.positions[i] <= table.positions[j]
                         /\ table.positions[j] <= table.size

\* A stream reports the position of the first chunk it has not given since the
\* last packet or seek, while there is one.
PositionKept == NotGiven < Chunks =>
                    position = IF sample > 0 THEN table.positions[NotGiven + 1]
                               ELSE NotGiven

StreamInv == StreamTypeOK /\ Begun /\ Ordered /\ PositionKept

-----------------------------------------------------------------------------
(***************************************************************************)
(* find.  The loop has ended at `low' when nothing is left between low and *)
(* high; before that, pos is not before low and is before high, unless     *)
(* high is the last chunk.                                                 *)
(***************************************************************************)
EndsAt(last, pos, low) ==
    /\ low \in 0 .. last
    /\ table.positions[low + 1] <= pos
    /\ last > 0 => low < last
    /\ low + 1 < last => pos < table.positions[low + 2]

Between(last, pos, l) ==
    /\ l.low < l.high /\ l.high <= last
    /\ table.positions[l.low + 1] <= pos
    /\ l.high < last => pos < table.positions[l.high + 1]

Limits == [low : Nat, high : Nat]

\* The loop's turns left
TurnsLeft(l) == l.high - l.low

Searches(last, pos, l) == /\ l \in Limits
                          /\ \/ Between(last, pos, l)
                             \/ l.low = l.high /\ EndsAt(last, pos, l.low)

LEMMA TurnSearches ==
    ASSUME NEW last \in Nat, NEW pos \in Nat, NEW l,
           table.positions \in Seq(Nat), Len(table.positions) = last + 1,
           Searches(last, pos, l)
    PROVE  /\ Searches(last, pos, halve(l, pos))
           /\ TurnsLeft(l) > 0 => TurnsLeft(halve(l, pos)) < TurnsLeft(l)
           /\ TurnsLeft(l) = 0 => TurnsLeft(halve(l, pos)) = 0
<1> DEFINE low == l.low
           high == l.high
           middle == (l.low + l.high) \div 2
           next == halve(l, pos)
<1>1. /\ low \in Nat /\ high \in Nat /\ low <= high /\ high <= last
      /\ l = [low |-> low, high |-> high]
      /\ table.positions[low + 1] <= pos
    BY DEF Searches, Between, EndsAt, Limits
<1>2. /\ middle \in Nat /\ low <= middle /\ middle <= high
      /\ low < high => middle < high
      /\ low = high => middle = low
      /\ low < high /\ middle = low => high = low + 1
    <2>1. \A a, b \in Nat :
              LET c == (a + b) \div 2
              IN  a <= b => /\ c \in Nat /\ a <= c /\ c <= b
                            /\ a < b => c < b
                            /\ a = b => c = a
                            /\ a < b /\ c = a => b = a + 1
        OBVIOUS
    <2> QED
        BY <1>1, <2>1
<1>3. \A n \in 0 .. last : table.positions[n + 1] \in Nat
    OBVIOUS
<1>4. next = IF pos < table.positions[middle + 1] THEN [low |-> low, high |-> middle]
             ELSE IF middle = low \/ pos < table.positions[middle + 2]
             THEN [low |-> middle, high |-> middle]
             ELSE [low |-> middle, high |-> high]
    BY <1>1 DEF halve
<1>5. low < high => Between(last, pos, l)
    BY <1>1 DEF Searches
<1>6. low = high => EndsAt(last, pos, low)
    BY <1>1 DEF Searches, Between
<1> HIDE DEF middle, next
<1>7. CASE low = high
    <2>1. next = [low |-> low, high |-> low]
        BY <1>1, <1>2, <1>3, <1>4, <1>7
    <2> QED
        BY <1>1, <1>6, <1>7, <2>1 DEF Searches, TurnsLeft, Limits, next
<1>8. CASE low < high /\ pos < table.positions[middle + 1]
    <2>1. middle # low
        BY <1>1, <1>3, <1>8
    <2>2. next = [low |-> low, high |-> middle]
        BY <1>4, <1>8
    <2>3. Between(last, pos, next)
        BY <1>1, <1>2, <1>8, <2>1, <2>2 DEF Between
    <2> QED
        BY <1>1, <1>2, <1>8, <2>1, <2>2, <2>3 DEF Searches, TurnsLeft, Limits, next
<1>9. CASE /\ low < high /\ ~(pos < table.positions[middle + 1])
           /\ middle = low \/ pos < table.positions[middle + 2]
    <2>1. next = [low |-> middle, high |-> middle]
        BY <1>4, <1>9
    <2>2. middle \in 0 .. last /\ middle < last
        BY <1>1, <1>2, <1>9
    <2>3. table.positions[middle + 1] <= pos
        BY <1>3, <1>9, <2>2
    <2>4. middle + 1 < last => pos < table.positions[middle + 2]
        <3>1. CASE middle = low
            <4>1. high = low + 1
                BY <1>2, <1>9, <3>1
            <4> QED
                BY <1>1, <1>5, <1>9, <3>1, <4>1 DEF Between
        <3>2. CASE pos < table.positions[middle + 2]
            BY <3>2
        <3> QED
            BY <1>9, <3>1, <3>2
    <2>5. EndsAt(last, pos, middle)
        BY <2>2, <2>3, <2>4 DEF EndsAt
    <2> QED
        BY <1>1, <1>2, <1>9, <2>1, <2>5 DEF Searches, TurnsLeft, Limits, next
<1>10. CASE /\ low < high /\ ~(pos < table.positions[middle + 1])
            /\ middle # low /\ ~(pos < table.positions[middle + 2])
    <2>1. next = [low |-> middle, high |-> high]
        BY <1>4, <1>10
    <2>2. Between(last, pos, next)
        <3>0. low < high /\ middle # low
            BY <1>10
        <3>1. middle \in 0 .. last /\ middle < high /\ low < middle
            BY <1>1, <1>2, <3>0
        <3>2. table.positions[middle + 1] <= pos
            BY <1>3, <1>10, <3>1
        <3> QED
            BY <1>1, <1>5, <1>10, <2>1, <3>1, <3>2 DEF Between
    <2>3. middle < high /\ low < middle
        BY <1>1, <1>2, <1>10
    <2> QED
        BY <1>1, <1>2, <2>1, <2>2, <2>3 DEF Searches, TurnsLeft, Limits, next
<1> QED
    BY <1>1, <1>7, <1>8, <1>9, <1>10

LEMMA SearchEnds ==
    ASSUME NEW last \in Nat, NEW pos \in Nat,
           table.positions \in Seq(Nat), Len(table.positions) = last + 1,
           table.positions[1] = 0
    PROVE  EndsAt(last, pos, search(last, pos))
<1> DEFINE turns == Len(table.positions)
           first == [low |-> 0, high |-> last]
           Halves(f) == f = [n \in 0 .. turns |-> IF n = 0 THEN first
                                                 ELSE halve(f[n - 1], pos)]
           f == CHOOSE f : Halves(f)
           Near(n) == /\ Searches(last, pos, f[n])
                      /\ TurnsLeft(f[n]) = 0 \/ TurnsLeft(f[n]) + n <= last
<1>1. turns \in Nat /\ turns = last + 1 /\ first \in Limits
    BY DEF Limits
<1>2. \E h : Halves(h)
    <2> DEFINE g == [x \in (1 .. turns) \X Limits |-> halve(x[2], pos)]
    <2>1. \A l \in Limits : halve(l, pos) \in Limits
        <3> TAKE l \in Limits
        <3>1. (l.low + l.high) \div 2 \in Nat
            BY DEF Limits
        <3> DEFINE middle == (l.low + l.high) \div 2
        <3>2. middle \in Nat
            BY <3>1
        <3> HIDE DEF middle
        <3>3. /\ [l EXCEPT !.high = middle] \in Limits
              /\ [l EXCEPT !.low = middle] \in Limits
              /\ [low |-> middle, high |-> middle] \in Limits
            BY <3>2 DEF Limits
        <3> QED
            BY <3>3 DEF halve, middle
    <2>2. g \in [(1 .. turns) \X Limits -> Limits]
        BY <2>1
    <2> HIDE DEF g, first
    <2>3. PICK h \in [0 .. turns -> Limits] : Iterates(h, first, g, turns)
        BY <1>1, <2>2, IterationExists
    <2>4. ASSUME NEW n \in 0 .. turns
          PROVE  h[n] = IF n = 0 THEN first ELSE halve(h[n - 1], pos)
        <3>1. CASE n = 0
            BY <2>3, <3>1 DEF Iterates
        <3>2. CASE n # 0
            <4>1. n \in 1 .. turns /\ n - 1 \in 0 .. turns
                BY <1>1, <3>2
            <4>2. h[n] = g[<<n, h[n - 1]>>] /\ h[n - 1] \in Limits
                BY <2>3, <4>1 DEF Iterates
            <4> QED
                BY <3>2, <4>1, <4>2 DEF g
        <3> QED
            BY <3>1, <3>2
    <2> QED
        BY <2>3, <2>4
<1>3. Halves(f)
    BY <1>2, Zenon
<1>4. search(last, pos) = f[turns].low
    BY Zenon DEF search
<1> HIDE DEF f
<1>5. Near(0)
    <2>1. f[0] = first
        BY <1>1, <1>3
    <2>2. Searches(last, pos, first)
        BY <1>1 DEF Searches, Between, EndsAt
    <2>3. TurnsLeft(first) = last
        BY DEF TurnsLeft
    <2> QED
        BY <2>1, <2>2, <2>3
<1>6. ASSUME NEW n \in 1 .. turns, Near(n - 1) PROVE Near(n)
    <2> DEFINE l == f[n - 1]
               next == halve(l, pos)
    <2>1. f[n] = next
        <3>1. n \in 0 .. turns /\ n # 0
            BY <1>1
        <3> HIDE DEF turns, first
        <3>2. f[n] = IF n = 0 THEN first ELSE halve(f[n - 1], pos)
            BY <1>3, <3>1, Zenon
        <3> QED
            BY <3>1, <3>2
    <2>2. Searches(last, pos, l) /\ (TurnsLeft(l) = 0 \/ TurnsLeft(l) + (n - 1) <= last)
        BY <1>6
    <2> HIDE DEF l
    <2>3. /\ Searches(last, pos, next)
          /\ TurnsLeft(l) > 0 => TurnsLeft(next) < TurnsLeft(l)
          /\ TurnsLeft(l) = 0 => TurnsLeft(next) = 0
        BY <2>2, TurnSearches
    <2> HIDE DEF next
    <2>4. TurnsLeft(l) \in Nat /\ TurnsLeft(next) \in Nat
        <3>1. \A x : Searches(last, pos, x) => TurnsLeft(x) \in Nat
            <4> TAKE x
            <4> HAVE Searches(last, pos, x)
            <4>1. x.low \in Nat /\ x.high \in Nat
                BY DEF Searches, Limits
            <4>2. x.low <= x.high
                BY <4>1 DEF Searches, Between
            <4> QED
                BY <4>1, <4>2 DEF TurnsLeft
        <3> QED
            BY <2>2, <2>3, <3>1
    <2>5. TurnsLeft(next) = 0 \/ TurnsLeft(next) + n <= last
        BY ONLY <2>2, <2>3, <2>4, n \in 1 .. turns, last \in Nat
    <2> QED
        BY <2>1, <2>3, <2>5
<1>7. Near(turns)
    <2> HIDE DEF Near
    <2> DEFINE T == {n \in 0 .. turns : ~Near(n)}
    <2> SUFFICES ASSUME T # {} PROVE FALSE
        BY <1>1
    <2>1. PICK k \in T : \A y \in T : k <= y
        <3>1. T \subseteq Nat
            BY <1>1
        <3> HIDE DEF T
        <3> QED
            BY <3>1, Smallest
    <2>2. k \in 0 .. turns /\ ~Near(k)
        OBVIOUS
    <2>3. k \in 1 .. turns /\ k - 1 \in 0 .. turns /\ ~(k <= k - 1)
        BY <1>1, <1>5, <2>2
    <2>4. k - 1 \notin T
        <3> HIDE DEF T
        <3> QED
            BY <2>1, <2>3
    <2> QED
        BY <1>6, <2>2, <2>3, <2>4
<1> DEFINE end == f[turns]
<1>8. Searches(last, pos, end) /\ (TurnsLeft(end) = 0 \/ TurnsLeft(end) + turns <= last)
    BY <1>7
<1> HIDE DEF end
<1>9. end.low \in Nat /\ end.high \in Nat /\ end.low = end.high
    BY <1>1, <1>8 DEF Searches, Between, TurnsLeft, Limits
<1>10. EndsAt(last, pos, end.low)
    BY <1>8, <1>9 DEF Searches, Between
<1> QED
    BY <1>4, <1>10 DEF end

\* The chunk that holds a position is where find ends, unless it is the last.
LEMMA FindEnds ==
    ASSUME StreamTypeOK, Begun, Ordered, sample > 0, Chunks > 1,
           NEW pos \in 1 .. GetLength
    PROVE  find(pos) = IF Holding(pos) = Chunks - 1 THEN Chunks - 2
                       ELSE Holding(pos)
<1> DEFINE last == Chunks - 1
           low == search(last, pos)
           held == IF low + 1 = last /\ table.positions[last + 1] <= pos THEN last
                   ELSE low
           Holds(n) == /\ table.positions[n + 1] <= pos
                       /\ \A m \in n + 1 .. last : pos < table.positions[m + 1]
<1>1. /\ table.positions \in Seq(Nat) /\ Len(table.positions) = last + 1
      /\ last \in Nat /\ last > 0 /\ table.positions # <<>>
      /\ table.positions[1] = 0
    BY DEF StreamTypeOK, Table, Begun, Chunks
<1>2. GetLength \in Nat
    BY DEF GetLength, StreamTypeOK, Table
<1>3. pos \in Nat /\ pos > 0 /\ pos <= GetLength
    BY <1>2
<1>4. find(pos) = low
    <2>1. find(pos) = search(last, pos)
        <3>1. (IF pos >= GetLength THEN GetLength ELSE pos) = pos
            BY <1>2, <1>3
        <3>2. ~(pos <= 0) /\ sample # 0 /\ Len(table.positions) - 1 = last
            BY <1>1, <1>3
        <3> HIDE DEF last
        <3> QED
            BY <1>1, <3>1, <3>2 DEF find
    <2> QED
        BY <2>1
<1>5. EndsAt(last, pos, low)
    <2> HIDE DEF last
    <2> QED
        BY <1>1, <1>3, SearchEnds
<1> HIDE DEF low
<1>6. /\ low \in 0 .. last /\ low < last /\ table.positions[low + 1] <= pos
      /\ low + 1 < last => pos < table.positions[low + 2]
    BY <1>1, <1>5 DEF EndsAt
<1>7. /\ \A n \in 0 .. last : table.positions[n + 1] \in Nat
      /\ \A m, n \in 0 .. last :
             m <= n => table.positions[m + 1] <= table.positions[n + 1]
    <2> HIDE DEF last
    <2>1. \A n \in 0 .. last : n + 1 \in 1 .. Len(table.positions)
        BY <1>1
    <2>2. \A m, n \in 0 .. last : m <= n => m + 1 <= n + 1
        BY <1>1
    <2> QED
        BY <1>1, <2>1, <2>2 DEF Ordered
<1> HIDE DEF last
<1>8. held \in 0 .. last /\ Holds(held)
    <2>1. CASE low + 1 = last /\ table.positions[last + 1] <= pos
        BY <1>1, <2>1
    <2>2. CASE ~(low + 1 = last /\ table.positions[last + 1] <= pos)
        <3>1. held = low
            BY <2>2
        <3>2. pos < table.positions[low + 2]
            <4>1. CASE low + 1 < last
                BY <1>6, <4>1
            <4>2. CASE low + 1 = last
                <5>1. last + 1 = low + 2 /\ table.positions[last + 1] \in Nat
                    BY <1>1, <1>6, <1>7, <4>2
                <5> QED
                    BY <1>3, <2>2, <4>2, <5>1
            <4> QED
                BY <1>1, <1>6, <4>1, <4>2
        <3>3. ASSUME NEW m \in low + 1 .. last PROVE pos < table.positions[m + 1]
            <4>1. low + 1 \in 0 .. last /\ m \in 0 .. last /\ low + 1 <= m
                BY <1>1, <1>6
            <4>2. table.positions[(low + 1) + 1] <= table.positions[m + 1]
                BY <1>7, <4>1
            <4>3. (low + 1) + 1 = low + 2 /\ table.positions[m + 1] \in Nat
                  /\ table.positions[(low + 1) + 1] \in Nat
                BY <1>6, <1>7, <4>1
            <4> QED
                BY <1>3, <3>2, <4>2, <4>3
        <3> QED
            BY <1>6, <3>1, <3>3
    <2> QED
        BY <2>1, <2>2
<1>9. \A n \in 0 .. last : Holds(n) => n = held
    <2> SUFFICES ASSUME NEW n \in 0 .. last, Holds(n), n # held PROVE FALSE
        OBVIOUS
    <2> HIDE DEF held
    <2>1. CASE n < held
        <3>1. held \in n + 1 .. last
            BY <1>1, <1>8, <2>1
        <3> QED
            BY <1>3, <1>7, <1>8, <3>1
    <2>2. CASE held < n
        <3>1. n \in held + 1 .. last
            BY <1>1, <1>8, <2>2
        <3> QED
            BY <1>3, <1>7, <1>8, <3>1
    <2> QED
        BY <1>1, <1>8, <2>1, <2>2
<1>10. Holding(pos) = held
    <2>1. Holding(pos) = CHOOSE n \in 0 .. last : Holds(n)
        BY Zenon DEF Holding, last
    <2> HIDE DEF Holds, held
    <2> QED
        BY <1>8, <1>9, <2>1
<1>11. held = IF low + 1 = last /\ table.positions[last + 1] <= pos THEN last ELSE low
    OBVIOUS
<1>12. last = Chunks - 1 /\ last - 1 = Chunks - 2 /\ Chunks \in Nat
    <2>1. Chunks \in Nat
        BY DEF StreamTypeOK, Table, Chunks
    <2> QED
        BY <2>1 DEF last
<1> HIDE DEF held
<1>13. CASE low + 1 = last /\ table.positions[last + 1] <= pos
    <2>1. held = last /\ low = last - 1
        BY <1>1, <1>6, <1>11, <1>13
    <2> QED
        BY <1>4, <1>10, <1>12, <2>1
<1>14. CASE ~(low + 1 = last /\ table.positions[last + 1] <= pos)
    <2>1. held = low /\ low # last
        BY <1>1, <1>6, <1>11, <1>14
    <2> QED
        BY <1>4, <1>10, <1>12, <2>1
<1> QED
    BY <1>13, <1>14

-----------------------------------------------------------------------------
(***************************************************************************)
(* A stream that is opened and read keeps StreamInv.                       *)
(***************************************************************************)
LEMMA LengthIsNat ==
    ASSUME StreamTypeOK PROVE GetLength \in Nat
<1>1. \A a, b \in Nat : a * b \in Nat
    OBVIOUS
<1> QED
    BY <1>1 DEF StreamTypeOK, Table, GetLength

LEMMA FindIsNat ==
    ASSUME StreamTypeOK, Begun, NEW pos \in Nat
    PROVE  find(pos) \in Nat
<1> DEFINE wanted == IF pos >= GetLength THEN GetLength ELSE pos
           last == Len(table.positions) - 1
<1>1. wanted \in Nat
    BY LengthIsNat
<1>2. find(pos) = IF pos <= 0 THEN 0
                  ELSE IF sample = 0 \/ table.positions = <<>> THEN wanted
                  ELSE search(last, wanted)
    BY Zenon DEF find
<1> HIDE DEF wanted
<1>3. CASE table.positions = <<>>
    BY <1>1, <1>2, <1>3
<1>4. CASE table.positions # <<>>
    <2>1. /\ table.positions \in Seq(Nat) /\ last \in Nat
          /\ Len(table.positions) = last + 1 /\ table.positions[1] = 0
        BY <1>4 DEF StreamTypeOK, Table, Begun
    <2> HIDE DEF last
    <2>2. EndsAt(last, wanted, search(last, wanted))
        BY <1>1, <2>1, SearchEnds
    <2>3. search(last, wanted) \in Nat
        BY <2>1, <2>2 DEF EndsAt
    <2> QED
        BY <1>1, <1>2, <2>3
<1> QED
    BY <1>3, <1>4

\* The chunk and the position a read or a seek leaves
LEMMA MoveKeeps ==
    ASSUME StreamInv, UNCHANGED <<table, sample>>, chunk' \in Nat,
           position' \in PositionsOf(chunk'), missed' = 0
    PROVE  StreamInv'
<1>1. /\ table \in Table /\ sample \in Nat
      /\ table.positions \in Seq(Nat) /\ table.offsets \in Seq(Nat)
      /\ table.size \in Nat
    BY DEF StreamInv, StreamTypeOK, Table
<1>2. PositionsOf(chunk') =
          IF sample > 0
          THEN IF chunk' < Len(table.positions) THEN {table.positions[chunk' + 1]}
               ELSE {0, table.size}
          ELSE {chunk'}
    BY DEF PositionsOf, PositionsAt
<1>3. position' \in Nat
    <2>1. chunk' < Len(table.positions) => table.positions[chunk' + 1] \in Nat
        BY <1>1
    <2> QED
        BY <1>1, <1>2, <2>1
<1>4. StreamTypeOK'
    BY <1>1, <1>3 DEF StreamTypeOK
<1>5. Begun' /\ Ordered'
    BY DEF StreamInv, Begun, Ordered
<1>6. PositionKept'
    <2>1. Chunks' = Chunks /\ Chunks = Len(table.offsets)
        BY DEF Chunks
    <2>2. sample > 0 => Len(table.positions) = Chunks
        BY <2>1 DEF StreamInv, Begun
    <2>3. chunk' < Chunks => position' = IF sample > 0 THEN table.positions[chunk' + 1]
                                         ELSE chunk'
        BY <1>2, <2>2
    <2>4. NotGiven' = chunk'
        <3>1. \A n \in Nat : n - 0 = n
            OBVIOUS
        <3> QED
            BY <3>1 DEF NotGiven
    <2> QED
        BY <2>1, <2>3, <2>4 DEF PositionKept
<1> QED
    BY <1>4, <1>5, <1>6 DEF StreamInv

\* A read that gives no packet passes a chunk that is still to be given.
LEMMA ReadKeeps ==
    ASSUME StreamInv, ReadPacket PROVE StreamInv'
<1>1. /\ chunk \in Nat /\ missed \in Nat /\ missed <= chunk
      /\ chunk' = chunk + 1 /\ UNCHANGED <<table, sample>>
    BY DEF ReadPacket, StreamInv, StreamTypeOK
<1>2. CASE missed' = 0 /\ position' \in PositionsOf(chunk')
    BY <1>1, <1>2, MoveKeeps
<1>3. CASE GetsNone
    <2>1. position' = position /\ missed' = missed + 1
        BY <1>3 DEF GetsNone
    <2>2. StreamTypeOK'
        BY <1>1, <2>1 DEF StreamInv, StreamTypeOK
    <2>3. Begun' /\ Ordered'
        BY <1>1 DEF StreamInv, Begun, Ordered
    <2>4. NotGiven' = NotGiven /\ Chunks' = Chunks
        BY <1>1, <2>1 DEF NotGiven, Chunks
    <2>5. PositionKept'
        BY <1>1, <2>1, <2>4 DEF StreamInv, PositionKept
    <2> QED
        BY <2>2, <2>3, <2>5 DEF StreamInv
<1> QED
    BY <1>2, <1>3 DEF ReadPacket

LEMMA AddKeeps ==
    ASSUME StreamInv, NEW offset \in Nat, NEW size \in Nat, NEW key \in BOOLEAN,
           addChunk(offset, size, key)
    PROVE  StreamInv'
<1> DEFINE o == IF key THEN offset + 1 - (offset % 2) ELSE offset
           os == Append(table.offsets, o)
           ps == IF sample > 0 THEN Append(table.positions, table.size)
                 ELSE table.positions
           n == Len(table.positions)
<1>1. /\ table \in Table /\ sample \in Nat /\ table.size \in Nat
      /\ table.positions \in Seq(Nat) /\ table.offsets \in Seq(Nat)
      /\ n \in Nat
    BY DEF StreamInv, StreamTypeOK, Table
<1>2. /\ chunk = 0 /\ position = 0 /\ missed = 0
      /\ UNCHANGED <<sample, chunk, position, missed>>
      /\ NotGiven' = 0
    BY DEF addChunk, NotGiven
<1>3. table' = [length |-> table.length, offsets |-> os, positions |-> ps,
                size |-> table.size + size]
    BY <1>1 DEF addChunk, AddChunkTo, Table
<1>4. o \in Nat
    <2>1. offset % 2 \in 0 .. 1
        OBVIOUS
    <2> QED
        BY <2>1
<1>5. os \in Seq(Nat) /\ ps \in Seq(Nat) /\ Len(os) = Len(table.offsets) + 1
    BY <1>1, <1>4
<1>6. /\ table'.offsets = os /\ table'.positions = ps
      /\ table'.size = table.size + size /\ table' \in Table
    BY <1>1, <1>3, <1>5 DEF Table
<1>7. StreamTypeOK'
    BY <1>1, <1>2, <1>6 DEF StreamTypeOK
<1>8. /\ sample > 0 => Len(ps) = n + 1 /\ ps[n + 1] = table.size
      /\ \A i \in 1 .. n : ps[i] = table.positions[i]
    BY <1>1
<1>9. /\ sample > 0 => Len(table.positions) = Len(table.offsets)
      /\ table.offsets = <<>> => table.size = 0
      /\ table.positions # <<>> => table.positions[1] = 0
    BY DEF StreamInv, Begun
<1> HIDE DEF o, os, n
<1>10. ps # <<>> => ps[1] = 0
    <2>1. CASE n = 0 /\ sample > 0
        <3>1. table.offsets = <<>>
            BY <1>1, <1>9, <2>1 DEF n
        <3> QED
            BY <1>8, <1>9, <2>1, <3>1
    <2>2. CASE n > 0
        BY <1>1, <1>8, <1>9, <2>2 DEF n
    <2>3. CASE n = 0 /\ ~(sample > 0)
        BY <1>1, <2>3 DEF n
    <2> QED
        BY <1>1, <2>1, <2>2, <2>3
<1>11. Begun'
    <2>1. os # <<>>
        BY <1>1, <1>5
    <2>2. sample > 0 => Len(ps) = Len(os)
        BY <1>5, <1>8, <1>9 DEF n
    <2> QED
        BY <1>2, <1>6, <1>10, <2>1, <2>2 DEF Begun
<1>12. \A i, j \in 1 .. n : i <= j => /\ ps[i] <= ps[j] /\ ps[j] <= table.size
    BY <1>8 DEF StreamInv, Ordered, n
<1>13. \A i \in 1 .. Len(ps) : ps[i] \in Nat
    BY <1>5
<1>14. CASE sample > 0
    <2>1. Len(ps) = n + 1 /\ ps[n + 1] = table.size
        BY <1>8, <1>14
    <2> HIDE DEF ps
    <2>2. \A i, j \in 1 .. n + 1 : i <= j => /\ ps[i] <= ps[j]
                                             /\ ps[j] <= table.size + size
        <3> SUFFICES ASSUME NEW i \in 1 .. n + 1, NEW j \in 1 .. n + 1, i <= j
                     PROVE  ps[i] <= ps[j] /\ ps[j] <= table.size + size
            OBVIOUS
        <3>1. ps[i] \in Nat /\ ps[j] \in Nat
            BY <1>13, <2>1
        <3>2. CASE j = n + 1
            <4>1. i = n + 1 \/ i \in 1 .. n
                BY <1>1
            <4>2. i \in 1 .. n => ps[i] <= table.size
                BY <1>12, <1>1
            <4> QED
                BY <1>1, <2>1, <3>1, <3>2, <4>1, <4>2
        <3>3. CASE j # n + 1
            <4>1. i \in 1 .. n /\ j \in 1 .. n
                BY <1>1, <3>3
            <4> QED
                BY <1>1, <1>12, <3>1, <4>1
        <3> QED
            BY <3>2, <3>3
    <2>3. Ordered'
        BY <1>6, <2>1, <2>2 DEF Ordered
    <2>4. ps[1] = 0
        <3>1. ps # <<>>
            BY <1>1, <1>5, <2>1
        <3> QED
            BY <1>10, <3>1
    <2>5. PositionKept'
        BY <1>2, <1>6, <1>14, <2>4 DEF PositionKept
    <2> QED
        BY <1>7, <1>11, <2>3, <2>5 DEF StreamInv
<1>15. CASE ~(sample > 0)
    <2>1. ps = table.positions /\ Len(ps) = n
        BY <1>15 DEF n
    <2> HIDE DEF ps
    <2>2. \A i, j \in 1 .. n : i <= j => /\ ps[i] <= ps[j]
                                         /\ ps[j] <= table.size + size
        BY <1>1, <1>12, <1>13, <2>1
    <2>3. Ordered'
        BY <1>6, <2>1, <2>2 DEF Ordered
    <2>4. PositionKept'
        BY <1>2, <1>15 DEF PositionKept
    <2> QED
        BY <1>7, <1>11, <2>3, <2>4 DEF StreamInv
<1> QED
    BY <1>14, <1>15

LEMMA FixKeeps ==
    ASSUME StreamInv, table' = fixHeader(table, sample),
           UNCHANGED <<sample, chunk, position, missed>>
    PROVE  StreamInv'
<1>1. table \in Table /\ sample \in Nat
    BY DEF StreamInv, StreamTypeOK
<1> DEFINE l == IF sample > 0 THEN table.size \div sample ELSE Len(table.offsets)
<1>2. l \in Nat
    <2>1. \A a, b \in Nat : b > 0 => a \div b \in Nat
        OBVIOUS
    <2>2. table.size \in Nat /\ Len(table.offsets) \in Nat
        BY <1>1 DEF Table
    <2>3. sample > 0 => table.size \div sample \in Nat
        BY ONLY <1>1, <2>1, <2>2
    <2> QED
        BY <2>2, <2>3
<1>3. table' = [table EXCEPT !.length = l]
    BY Zenon DEF fixHeader
<1> HIDE DEF l
<1>4. /\ table' \in Table /\ table'.offsets = table.offsets
      /\ table'.positions = table.positions /\ table'.size = table.size
    BY <1>1, <1>2, <1>3 DEF Table
<1>5. StreamTypeOK'
    BY <1>4 DEF StreamInv, StreamTypeOK
<1>6. Begun' /\ Ordered'
    BY <1>4 DEF StreamInv, Begun, Ordered
<1>7. PositionKept'
    BY <1>4 DEF StreamInv, PositionKept, NotGiven, Chunks
<1> QED
    BY <1>5, <1>6, <1>7 DEF StreamInv

\* The inductive invariant of a stream, with the types of what it keeps.
THEOREM StreamCorrect == StreamSpec => []StreamInv
<1>1. StreamInit => StreamInv
    <2> SUFFICES ASSUME StreamInit PROVE StreamInv
        OBVIOUS
    <2>1. PICK length \in Nat : table = EmptyTable(length)
        BY DEF StreamInit
    <2> DEFINE e == <<>>
    <2>2. e \in Seq(Nat) /\ Len(e) = 0
        OBVIOUS
    <2>3. /\ table.length = length /\ table.offsets = e /\ table.positions = e
          /\ table.size = 0 /\ table = [length |-> length, offsets |-> e,
                                        positions |-> e, size |-> 0]
        BY <2>1 DEF EmptyTable
    <2>4. sample \in Nat /\ chunk = 0 /\ position = 0 /\ missed = 0
        BY DEF StreamInit
    <2> HIDE DEF e
    <2>5. StreamTypeOK
        BY <2>2, <2>3, <2>4 DEF StreamTypeOK, Table
    <2>6. Begun /\ Ordered
        BY <2>2, <2>3 DEF Begun, Ordered, e
    <2>7. PositionKept
        BY <2>2, <2>3, <2>4 DEF PositionKept, NotGiven, Chunks
    <2> QED
        BY <2>5, <2>6, <2>7 DEF StreamInv
<1>2. StreamInv /\ [StreamStep]_readVars => StreamInv'
    <2> SUFFICES ASSUME StreamInv, [StreamStep]_readVars PROVE StreamInv'
        OBVIOUS
    <2>1. ASSUME NEW offset \in Nat, NEW size \in Nat, NEW key \in BOOLEAN,
                 addChunk(offset, size, key)
          PROVE  StreamInv'
        BY <2>1, AddKeeps
    <2>2. CASE table' = fixHeader(table, sample) /\ UNCHANGED <<sample, chunk, position, missed>>
        BY <2>2, FixKeeps
    <2>3. CASE ReadPacket
        BY <2>3, ReadKeeps
    <2>4. ASSUME NEW pos \in Nat, Seek(pos) PROVE StreamInv'
        <3>1. find(pos) \in Nat
            BY FindIsNat DEF StreamInv
        <3>2. /\ chunk' \in Nat /\ position' \in PositionsOf(chunk')
              /\ missed' = 0 /\ UNCHANGED <<table, sample>>
            BY <2>4, <3>1 DEF Seek
        <3> QED
            BY <3>2, MoveKeeps
    <2>5. CASE SkipFrame
        <3>1. position + 1 \in Nat
            BY DEF StreamInv, StreamTypeOK
        <3> QED
            BY <2>4, <2>5, <3>1 DEF SkipFrame
    <2>6. CASE UNCHANGED readVars
        BY <2>6 DEF readVars, StreamInv, StreamTypeOK, Begun, Ordered, PositionKept,
                    NotGiven, Chunks
    <2> QED
        BY <2>1, <2>2, <2>3, <2>4, <2>5, <2>6 DEF StreamStep
<1> QED
    BY <1>1, <1>2, PTL DEF StreamSpec

\* A seek into a stream of samples goes to the chunk that holds the position,
\* or to the one before it when it is the last of several, for any table and
\* any position (AviReadStream.cpp, lines 270 to 303).
THEOREM SeekCorrect == StreamSpec => []SeekFindsChunk
<1>1. StreamInv => SeekFindsChunk
    BY FindEnds DEF StreamInv, SeekFindsChunk
<1> QED
    BY <1>1, StreamCorrect, PTL

-----------------------------------------------------------------------------
(***************************************************************************)
(* The writer: what its fields and the statements of a call may hold.      *)
(***************************************************************************)
Names == {"RIFF", "hdrl", "strl", "strh", "JUNK", "movi", "idx1",
          "chunk", "number", "byte"}

\* A cell is a name and a number.
CellsFit == Names \X Int \subseteq Cell

Streams == DOMAIN setup
Setup == [video : BOOLEAN, encoder : BOOLEAN, sample : Nat]
Chunk == [stream : Streams, size : Nat, key : BOOLEAN, number : Nat, encoding : Nat]
Entry == [stream : Streams, key : BOOLEAN, offset : Int, size : Nat]

Plain == {"seekEnd", "headers", "finish", "init", "index", "riffSize", "delete",
          "closed"}

Statement == [do : {"put"}, cell : Cell]
             \cup [do : {"write", "direct"}, data : Seq(Cell)]
             \cup [do : {"seek"}, to : Nat]
             \cup [do : {"chunk", "locate", "count"}, chunk : Chunk]
             \cup [do : {"entry"}, chunk : Chunk, offset : Int]
             \cup [do : {"stop"}, stream : Streams]
             \cup [do : Plain]

StreamsOK == /\ setup \in Seq(Setup) /\ setup \in Setups
             /\ running \in [Streams -> BOOLEAN]
             /\ encoding \in [Streams -> Nat]
             /\ dwLength \in [Streams -> Nat]
             /\ total \in [Streams -> Nat]

WriterOK == /\ index \in Seq(Entry)
            /\ status \in {0, 1} /\ segmentFlag \in BOOLEAN
            /\ file \in {"open", "none"} /\ phase \in {"open", "closed", "dead"}

CallOK == todo \in Seq(Statement) /\ given \in Seq(Chunk)

WriterInv == StreamsOK /\ WriterOK /\ CallOK

-----------------------------------------------------------------------------
(* Statements: what they may be, and what one that is read holds *)
LEMMA StatementsFit ==
    /\ \A c \in Cell : [do |-> "put", cell |-> c] \in Statement
    /\ \A d \in Seq(Cell) : /\ [do |-> "write", data |-> d] \in Statement
                            /\ [do |-> "direct", data |-> d] \in Statement
    /\ \A n \in Nat : [do |-> "seek", to |-> n] \in Statement
    /\ \A c \in Chunk : /\ [do |-> "chunk", chunk |-> c] \in Statement
                        /\ [do |-> "locate", chunk |-> c] \in Statement
                        /\ [do |-> "count", chunk |-> c] \in Statement
    /\ \A c \in Chunk, n \in Int :
           [do |-> "entry", chunk |-> c, offset |-> n] \in Statement
    /\ \A s \in Streams : [do |-> "stop", stream |-> s] \in Statement
    /\ \A name \in Plain : [do |-> name] \in Statement
<1> HIDE DEF Plain
<1> QED
    BY DEF Statement

LEMMA StatementHolds ==
    ASSUME NEW t \in Statement
    PROVE  /\ t.do = "put" => t.cell \in Cell
           /\ t.do \in {"write", "direct"} => t.data \in Seq(Cell)
           /\ t.do = "seek" => t.to \in Nat
           /\ t.do \in {"chunk", "locate", "count", "entry"} => t.chunk \in Chunk
           /\ t.do = "entry" => t.offset \in Int
           /\ t.do = "stop" => t.stream \in Streams
           /\ t.do = "chunk" =>
                [t EXCEPT !.do = "locate"] = [do |-> "locate", chunk |-> t.chunk]
BY DEF Statement, Plain

LEMMA SameStatements ==
    ASSUME setup' = setup
    PROVE  Streams' = Streams /\ Chunk' = Chunk /\ Entry' = Entry
           /\ Statement' = Statement
BY DEF Streams, Chunk, Entry, Statement

\* The statements of a call, one by one and in groups
LEMMA GroupsFit ==
    /\ \A c \in Cell : Put1(c) \in Seq(Statement)
    /\ \A d \in Seq(Cell) : PutAll(d) \in Seq(Statement) /\ WriteAll(d) \in Seq(Statement)
    /\ \A n \in Nat : Go(n) \in Seq(Statement)
    /\ \A name \in Plain : Call(name) \in Seq(Statement)
    /\ \A c \in Chunk : ChunkCall(c) \in Seq(Statement)
<1>1. \A S : \A x \in S : <<x>> \in Seq(S)
    OBVIOUS
<1>2. \A c \in Cell : Put1(c) \in Seq(Statement)
    BY <1>1, StatementsFit DEF Put1
<1>3. \A d \in Seq(Cell) : PutAll(d) \in Seq(Statement)
    <2> TAKE d \in Seq(Cell)
    <2>1. \A i \in 1 .. Len(d) : [do |-> "put", cell |-> d[i]] \in Statement
        BY StatementsFit
    <2>2. PutAll(d) \in [1 .. Len(d) -> Statement] /\ Len(d) \in Nat
        BY <2>1 DEF PutAll
    <2> QED
        BY <2>2
<1>4. \A d \in Seq(Cell) : WriteAll(d) \in Seq(Statement)
    <2> TAKE d \in Seq(Cell)
    <2>1. [do |-> "write", data |-> d] \in Statement
        BY StatementsFit
    <2>2. <<[do |-> "write", data |-> d]>> \in Seq(Statement) /\ <<>> \in Seq(Statement)
        BY <1>1, <2>1
    <2> QED
        BY <2>2 DEF WriteAll
<1>5. \A n \in Nat : Go(n) \in Seq(Statement)
    BY <1>1, StatementsFit DEF Go
<1>6. \A name \in Plain : Call(name) \in Seq(Statement)
    BY <1>1, StatementsFit DEF Call
<1>7. \A c \in Chunk : ChunkCall(c) \in Seq(Statement)
    <2> TAKE c \in Chunk
    <2>1. [do |-> "chunk", chunk |-> c] \in Statement
          /\ [do |-> "count", chunk |-> c] \in Statement
        BY StatementsFit
    <2> QED
        BY <2>1 DEF ChunkCall
<1> QED
    BY <1>2, <1>3, <1>4, <1>5, <1>6, <1>7

LEMMA StopsFit ==
    ASSUME StreamsOK PROVE StopAll \in Seq(Statement)
<1>1. \A s \in Streams : [do |-> "stop", stream |-> s] \in Statement
    BY StatementsFit
<1>2. Streams = 1 .. Len(setup) /\ Len(setup) \in Nat
    BY DEF StreamsOK, Streams
<1>3. StopAll \in [1 .. Len(setup) -> Statement]
    BY <1>1, <1>2 DEF StopAll, Streams
<1> QED
    BY <1>2, <1>3

LEMMA Joined ==
    ASSUME NEW S, NEW s \in Seq(S), NEW t \in Seq(S)
    PROVE  s \o t \in Seq(S)
OBVIOUS

\* What is left of the call when its first statement is done
LEMMA CallGoesOn ==
    ASSUME WriterInv, NEW name, Doing(name), NEW x \in Seq(Statement), Then(x),
           setup' = setup
    PROVE  todo' \in Seq(Statement')
<1>1. todo \in Seq(Statement) /\ todo # <<>>
    BY DEF WriterInv, CallOK, Doing
<1>2. Tail(todo) \in Seq(Statement)
    BY <1>1
<1>3. x \o Tail(todo) \in Seq(Statement)
    BY <1>2, Joined
<1> QED
    BY <1>3, SameStatements DEF Then

LEMMA HeadFits ==
    ASSUME WriterInv, NEW name, Doing(name)
    PROVE  Head(todo) \in Statement /\ Head(todo).do = name
BY DEF WriterInv, CallOK, Doing

-----------------------------------------------------------------------------
(* Cells *)
LEMMA CellsAre ==
    ASSUME CellsFit
    PROVE  /\ \A name \in Names : Id(name) \in Cell
           /\ \A n \in Int : ChunkId(n) \in Cell /\ Number(n) \in Cell
           /\ \A n \in Int : <<"byte", n>> \in Cell
<1>1. \A name \in Names, n \in Int : <<name, n>> \in Cell
    <2> TAKE name \in Names, n \in Int
    <2>1. <<name, n>> \in Names \X Int
        OBVIOUS
    <2> QED
        BY <2>1 DEF CellsFit
<1>2. \A name \in Names : Id(name) \in Cell
    <2> SUFFICES ASSUME NEW name \in Names PROVE <<name, 0>> \in Cell
        BY DEF Id
    <2> QED
        BY <1>1
<1>3. \A n \in Int : ChunkId(n) \in Cell
    <2>1. "chunk" \in Names
        BY DEF Names
    <2> QED
        BY <1>1, <2>1 DEF ChunkId
<1>4. \A n \in Int : Number(n) \in Cell
    <2>1. "number" \in Names
        BY DEF Names
    <2> QED
        BY <1>1, <2>1 DEF Number
<1>5. \A n \in Int : <<"byte", n>> \in Cell
    <2>1. "byte" \in Names
        BY DEF Names
    <2> QED
        BY <1>1, <2>1
<1> QED
    BY <1>2, <1>3, <1>4, <1>5

LEMMA PairFits == \A a, b \in Cell : <<a, b>> \in Seq(Cell) /\ Len(<<a, b>>) = 2
OBVIOUS

LEMMA PartsFit ==
    ASSUME CellsFit
    PROVE  /\ \A n \in Nat : Junk(n) \in Seq(Cell)
           /\ \A c \in Chunk : \A byte \in Int : Payload(c, byte) \in Seq(Cell)
           /\ \A d \in Seq(Cell) : Padding(d) \in Seq(Cell)
           /\ \A name \in Names, n \in Int : List(name, n) \in Seq(Cell)
<1>1. ASSUME NEW n \in Nat PROVE Junk(n) \in Seq(Cell)
    <2>1. Number(0) \in Cell
        BY CellsAre
    <2>2. Junk(n) \in [1 .. n -> Cell]
        BY <2>1 DEF Junk
    <2> QED
        BY <2>2
<1>2. ASSUME NEW c \in Chunk, NEW byte \in Int PROVE Payload(c, byte) \in Seq(Cell)
    <2>1. <<"byte", byte>> \in Cell
        BY CellsAre
    <2>2. c.size \in Nat
        BY DEF Chunk
    <2>3. Payload(c, byte) \in [1 .. c.size -> Cell]
        BY <2>1 DEF Payload
    <2> QED
        BY <2>2, <2>3
<1>3. ASSUME NEW d \in Seq(Cell) PROVE Padding(d) \in Seq(Cell)
    <2>1. CASE Len(d) % 2 = 1
        <3>1. Len(d) # 0 /\ Len(d) \in Nat
            BY <2>1
        <3>2. d[1] \in Cell
            BY <3>1
        <3> QED
            BY <2>1, <3>2 DEF Padding
    <2>2. CASE Len(d) % 2 # 1
        BY <2>2 DEF Padding
    <2> QED
        BY <2>1, <2>2
<1>4. ASSUME NEW name \in Names, NEW n \in Int PROVE List(name, n) \in Seq(Cell)
    <2>1. Id(name) \in Cell /\ Number(n) \in Cell
        BY CellsAre
    <2> QED
        BY <2>1, PairFits DEF List
<1> QED
    BY <1>1, <1>2, <1>3, <1>4

\* Groups of four cells, one group after the other
LEMMA FoursFit ==
    ASSUME NEW n \in Nat, NEW g \in [1 .. n -> Seq(Cell)],
           \A k \in 1 .. n : Len(g[k]) = 4
    PROVE  [i \in 1 .. 4 * n |-> g[(i + 3) \div 4][((i - 1) % 4) + 1]] \in Seq(Cell)
<1> DEFINE f == [i \in 1 .. 4 * n |-> g[(i + 3) \div 4][((i - 1) % 4) + 1]]
<1>1. ASSUME NEW i \in 1 .. 4 * n
      PROVE  g[(i + 3) \div 4][((i - 1) % 4) + 1] \in Cell
    <2> DEFINE k == (i + 3) \div 4
               j == ((i - 1) % 4) + 1
    <2>1. k \in 1 .. n /\ j \in 1 .. 4
        <3>1. n \in Nat /\ i \in Nat /\ 1 <= i /\ i <= 4 * n
            OBVIOUS
        <3>2. (i + 3) \div 4 \in Nat /\ 1 <= (i + 3) \div 4 /\ (i + 3) \div 4 <= n
            BY ONLY <3>1
        <3>3. (i - 1) % 4 \in 0 .. 3
            BY ONLY <3>1
        <3> QED
            BY ONLY <3>1, <3>2, <3>3
    <2> HIDE DEF k, j
    <2>2. g[k] \in Seq(Cell) /\ Len(g[k]) = 4
        BY <2>1
    <2> DEFINE t == g[k]
    <2>3. t[j] \in Cell
        <3>1. t \in Seq(Cell) /\ Len(t) = 4
            BY <2>2
        <3> HIDE DEF t
        <3>2. j \in 1 .. Len(t)
            BY ONLY <2>1, <3>1
        <3> QED
            BY ONLY <3>1, <3>2, ElementOfSeq
    <2> QED
        BY <2>3 DEF k, j, t
<1>2. f \in [1 .. 4 * n -> Cell] /\ 4 * n \in Nat
    BY <1>1
<1> QED
    BY <1>2

LEMMA HeadersFit ==
    ASSUME CellsFit, StreamsOK, NEW endpos \in Int
    PROVE  HeaderCells(endpos) \in Seq(Cell)
<1> DEFINE n == Len(setup)
           g == [s \in 1 .. n |-> StreamHeader(s)]
           f == [i \in 1 .. 4 * n |-> g[(i + 3) \div 4][((i - 1) % 4) + 1]]
<1>1. n \in Nat /\ Streams = 1 .. n
    BY DEF StreamsOK, Streams
<1>2. ASSUME NEW s \in 1 .. n
      PROVE  StreamHeader(s) \in Seq(Cell) /\ Len(StreamHeader(s)) = 4
    <2> DEFINE a == Id("strl")
               b == Number(2)
               c == Id("strh")
               d == Number(dwLength[s])
    <2>1. dwLength[s] \in Int /\ 2 \in Int /\ "strl" \in Names /\ "strh" \in Names
        BY <1>1 DEF StreamsOK, Names
    <2>2. a \in Cell /\ b \in Cell /\ c \in Cell /\ d \in Cell
        BY <2>1, CellsAre
    <2>3. StreamHeader(s) = <<a, b>> \o <<c, d>>
        BY Zenon DEF StreamHeader, List
    <2> HIDE DEF a, b, c, d
    <2>4. /\ <<a, b>> \in Seq(Cell) /\ <<c, d>> \in Seq(Cell)
          /\ Len(<<a, b>>) = 2 /\ Len(<<c, d>>) = 2
        BY <2>2, PairFits
    <2> DEFINE ab == <<a, b>>
               cd == <<c, d>>
    <2> HIDE DEF ab, cd
    <2>5. ab \o cd \in Seq(Cell) /\ Len(ab \o cd) = 4
        BY <2>4, ConcatProperties DEF ab, cd
    <2> QED
        BY <2>3, <2>5 DEF ab, cd
<1>3. g \in [1 .. n -> Seq(Cell)] /\ \A k \in 1 .. n : Len(g[k]) = 4
    BY <1>2
<1>4. \A i \in 1 .. 4 * n : (i + 3) \div 4 \in 1 .. n
    BY <1>1
<1>5. StreamHeaders = f
    BY <1>4 DEF StreamHeaders
<1> HIDE DEF g
<1>6. f \in Seq(Cell)
    BY <1>1, <1>3, FoursFit
<1> DEFINE x == <<Id("RIFF"), Number(endpos - 2)>>
           y == List("hdrl", 0)
<1>7. x \in Seq(Cell) /\ y \in Seq(Cell)
    <2>1. endpos - 2 \in Int /\ "RIFF" \in Names /\ "hdrl" \in Names /\ 0 \in Int
        BY DEF Names
    <2>2. Id("RIFF") \in Cell /\ Number(endpos - 2) \in Cell
        BY <2>1, CellsAre
    <2> QED
        BY <2>1, <2>2, PairFits, PartsFit
<1>8. HeaderCells(endpos) = (x \o y) \o StreamHeaders
    BY Zenon DEF HeaderCells
<1> HIDE DEF x, y, f
<1>9. x \o y \in Seq(Cell) /\ StreamHeaders \in Seq(Cell)
    BY <1>5, <1>6, <1>7, Joined
<1> QED
    BY <1>8, <1>9, Joined

LEMMA HeaderStepsFit ==
    ASSUME CellsFit, StreamsOK, NEW endpos \in Nat
    PROVE  HeaderSteps(endpos) \in Seq(Statement)
<1> DEFINE cells == HeaderCells(endpos)
           curpos == Len(cells)
           junk == <<Id("JUNK"), Number(HeaderSize - 2 - (curpos + 2))>>
           movi == List("movi", endpos - HeaderSize)
           a == Go(0)
           b == PutAll(cells)
           c == PutAll(junk)
           d == Go(HeaderSize - 2)
           e == PutAll(movi)
           f == Go(3)
           g == Put1(Number(curpos - 4))
           h == Call("seekEnd")
<1>1. HeaderSize \in Nat /\ HeaderSize - 2 \in Nat
    BY SetupAssumption, HeaderAssumption DEF StreamsOK
<1>2. cells \in Seq(Cell) /\ curpos \in Int
    BY HeadersFit
<1>3. junk \in Seq(Cell) /\ movi \in Seq(Cell) /\ Number(curpos - 4) \in Cell
    <2> HIDE DEF cells
    <2> HIDE DEF curpos
    <2>1. /\ "JUNK" \in Names /\ "movi" \in Names
          /\ endpos - HeaderSize \in Int /\ curpos - 4 \in Int
          /\ HeaderSize - 2 - (curpos + 2) \in Int
        BY <1>1, <1>2 DEF Names
    <2>2. Id("JUNK") \in Cell /\ Number(HeaderSize - 2 - (curpos + 2)) \in Cell
          /\ Number(curpos - 4) \in Cell
        BY <2>1, CellsAre
    <2> QED
        BY <2>1, <2>2, PairFits, PartsFit
<1>4. HeaderSteps(endpos) = ((((((a \o b) \o c) \o d) \o e) \o f) \o g) \o h
    BY Zenon DEF HeaderSteps
<1>5. /\ a \in Seq(Statement) /\ b \in Seq(Statement) /\ c \in Seq(Statement)
      /\ d \in Seq(Statement) /\ e \in Seq(Statement) /\ f \in Seq(Statement)
      /\ g \in Seq(Statement) /\ h \in Seq(Statement)
    <2> HIDE DEF cells, junk, movi
    <2>1. "seekEnd" \in Plain /\ 0 \in Nat /\ 3 \in Nat
        BY DEF Plain
    <2> QED
        BY <1>1, <1>2, <1>3, <2>1, GroupsFit
<1> HIDE DEF a, b, c, d, e, f, g, h
<1>6. a \o b \in Seq(Statement)
    BY <1>5, Joined
<1>7. (a \o b) \o c \in Seq(Statement)
    BY <1>5, <1>6, Joined
<1>8. ((a \o b) \o c) \o d \in Seq(Statement)
    BY <1>5, <1>7, Joined
<1>9. (((a \o b) \o c) \o d) \o e \in Seq(Statement)
    BY <1>5, <1>8, Joined
<1>10. ((((a \o b) \o c) \o d) \o e) \o f \in Seq(Statement)
    BY <1>5, <1>9, Joined
<1>11. (((((a \o b) \o c) \o d) \o e) \o f) \o g \in Seq(Statement)
    BY <1>5, <1>10, Joined
<1> QED
    BY <1>4, <1>5, <1>11, Joined

LEMMA IndexFits ==
    ASSUME CellsFit, index \in Seq(Entry), StreamsOK
    PROVE  IndexCells \in Seq(Cell)
<1> DEFINE n == Len(index)
           g == [k \in 1 .. n |-> EntryCells(index[k])]
           f == [i \in 1 .. 4 * n |-> g[(i + 3) \div 4][((i - 1) % 4) + 1]]
<1>1. n \in Nat /\ \A s \in Streams : s \in Int
    BY DEF StreamsOK, Streams
<1>2. ASSUME NEW e \in Entry
      PROVE  EntryCells(e) \in Seq(Cell) /\ Len(EntryCells(e)) = 4
    <2> DEFINE a == ChunkId(e.stream)
               b == Number(IF e.key THEN 1 ELSE 0)
               c == Number(e.offset)
               d == Number(e.size)
    <2>1. e.stream \in Int /\ e.offset \in Int /\ e.size \in Int
        <3>1. e.stream \in Streams /\ e.offset \in Int /\ e.size \in Nat
            BY DEF Entry
        <3> QED
            BY <1>1, <3>1
    <2>2. a \in Cell /\ b \in Cell /\ c \in Cell /\ d \in Cell
        BY <2>1, CellsAre
    <2>3. EntryCells(e) = <<a, b, c, d>>
        BY Zenon DEF EntryCells
    <2> HIDE DEF a, b, c, d
    <2> QED
        BY <2>2, <2>3
<1>3. g \in [1 .. n -> Seq(Cell)] /\ \A k \in 1 .. n : Len(g[k]) = 4
    <2>1. \A k \in 1 .. n : index[k] \in Entry
        OBVIOUS
    <2> QED
        BY <1>2, <2>1
<1>4. \A i \in 1 .. 4 * n : (i + 3) \div 4 \in 1 .. n
    BY <1>1
<1>5. IndexCells = f
    BY <1>4 DEF IndexCells
<1> HIDE DEF g
<1>6. f \in Seq(Cell)
    BY <1>1, <1>3, FoursFit
<1> QED
    BY <1>5, <1>6

-----------------------------------------------------------------------------
(***************************************************************************)
(* Every statement and every call keeps WriterInv, and does to the file    *)
(* what FileBuffer does.                                                   *)
(***************************************************************************)
FileKept == BufferStep \/ UNCHANGED fileVars

LEMMA SameStreams ==
    ASSUME StreamsOK, UNCHANGED streamVars
    PROVE  StreamsOK' /\ setup' = setup
BY DEF streamVars, StreamsOK, Streams

\* Nothing has changed but what is left of the call.
LEMMA OnlyTheCall ==
    ASSUME WriterInv, UNCHANGED <<streamVars, writerVars, historyVars>>,
           todo' \in Seq(Statement')
    PROVE  WriterInv'
<1>1. StreamsOK' /\ setup' = setup
    BY SameStreams DEF WriterInv
<1>2. WriterOK'
    BY <1>1, SameStatements DEF WriterInv, WriterOK, writerVars
<1>3. CallOK'
    BY <1>1, SameStatements DEF WriterInv, CallOK, historyVars
<1> QED
    BY <1>1, <1>2, <1>3 DEF WriterInv

LEMMA NothingFits == <<>> \in Seq(Statement)
OBVIOUS

LEMMA RestFits ==
    ASSUME FileInv, NEW data \in Seq(Cell)
    PROVE  Rest(data) \in Seq(Cell)
<1>1. Len(data) \in Nat /\ Room \in Nat
    BY BufSizeAssumption DEF FileInv, Room
<1> DEFINE n == IF Len(data) < Room THEN Len(data) ELSE Room
<1>2. n \in 0 .. Len(data)
    BY <1>1
<1>3. Taken(data) = SubSeq(data, 1, n)
    BY Zenon DEF Taken
<1> HIDE DEF n
<1>4. Len(SubSeq(data, 1, n)) = n
    BY <1>1, <1>2
<1>5. Rest(data) = SubSeq(data, n + 1, Len(data))
    BY <1>3, <1>4 DEF Rest
<1>6. SubSeq(data, n + 1, Len(data)) \in Seq(Cell)
    BY <1>1, <1>2
<1> QED
    BY <1>5, <1>6

LEMMA FileSteps ==
    ASSUME CellsFit, FileInv, WriterInv, FileStep
    PROVE  WriterInv' /\ FileKept
<1>1. ASSUME UNCHANGED <<streamVars, writerVars, historyVars>>
      PROVE  setup' = setup
    BY <1>1 DEF streamVars
<1>2. ASSUME PutNumber PROVE WriterInv' /\ FileKept
    <2>1. /\ Doing("put") /\ Put(Head(todo).cell) /\ Then(<<>>)
          /\ UNCHANGED <<streamVars, writerVars, historyVars>>
        BY <1>2 DEF PutNumber
    <2>2. Head(todo).cell \in Cell
        BY <2>1, HeadFits, StatementHolds
    <2>3. todo' \in Seq(Statement')
        BY <1>1, <2>1, NothingFits, CallGoesOn
    <2> QED
        BY <2>1, <2>2, <2>3, OnlyTheCall DEF FileKept, BufferStep
<1>3. ASSUME Write PROVE WriterInv' /\ FileKept
    <2> DEFINE data == Head(todo).data
               rest == Rest(data)
               next == IF Len(rest) > BufSize
                       THEN <<[do |-> "direct", data |-> rest]>>
                       ELSE WriteAll(rest)
    <2>1. /\ Doing("write") /\ Fill(data) /\ Then(next)
          /\ UNCHANGED <<streamVars, writerVars, historyVars>>
        BY <1>3 DEF Write
    <2>2. data \in Seq(Cell)
        BY <2>1, HeadFits, StatementHolds
    <2> HIDE DEF data
    <2>3. rest \in Seq(Cell)
        BY <2>2, RestFits
    <2> HIDE DEF rest
    <2>4. next \in Seq(Statement)
        <3>1. [do |-> "direct", data |-> rest] \in Statement
            BY <2>3, StatementsFit
        <3>2. <<[do |-> "direct", data |-> rest]>> \in Seq(Statement)
            BY <3>1
        <3> QED
            BY <2>3, <3>2, GroupsFit
    <2> HIDE DEF next
    <2>5. todo' \in Seq(Statement')
        BY <1>1, <2>1, <2>4, CallGoesOn
    <2> QED
        BY <2>1, <2>2, <2>5, OnlyTheCall DEF FileKept, BufferStep
<1>4. ASSUME WriteDirect PROVE WriterInv' /\ FileKept
    <2>1. /\ Doing("direct") /\ Direct(Head(todo).data) /\ Then(<<>>)
          /\ UNCHANGED <<streamVars, writerVars, historyVars>>
        BY <1>4 DEF WriteDirect
    <2>2. Head(todo).data \in Seq(Cell)
        BY <2>1, HeadFits, StatementHolds
    <2>3. todo' \in Seq(Statement')
        BY <1>1, <2>1, NothingFits, CallGoesOn
    <2> QED
        BY <2>1, <2>2, <2>3, OnlyTheCall DEF FileKept, BufferStep
<1>5. ASSUME Lseek PROVE WriterInv' /\ FileKept
    <2>1. /\ Doing("seek") /\ SeekSet(Head(todo).to) /\ Then(<<>>)
          /\ UNCHANGED <<streamVars, writerVars, historyVars>>
        BY <1>5 DEF Lseek
    <2>2. Head(todo).to \in Nat
        BY <2>1, HeadFits, StatementHolds
    <2>3. todo' \in Seq(Statement')
        BY <1>1, <2>1, NothingFits, CallGoesOn
    <2> QED
        BY <2>1, <2>2, <2>3, OnlyTheCall DEF FileKept, BufferStep
<1>6. ASSUME LseekEnd PROVE WriterInv' /\ FileKept
    <2>1. /\ Doing("seekEnd") /\ SeekEnd /\ Then(<<>>)
          /\ UNCHANGED <<streamVars, writerVars, historyVars>>
        BY <1>6 DEF LseekEnd
    <2>2. todo' \in Seq(Statement')
        BY <1>1, <2>1, NothingFits, CallGoesOn
    <2> QED
        BY <2>1, <2>2, OnlyTheCall DEF FileKept, BufferStep
<1> QED
    BY <1>2, <1>3, <1>4, <1>5, <1>6 DEF FileStep

-----------------------------------------------------------------------------
(* AddChunk *)
LEMMA ChunkSteps ==
    ASSUME CellsFit, FileInv, WriterInv,
           ChunkSegments \/ ChunkBegins \/ ChunkWithoutFile \/ Refuse
    PROVE  WriterInv' /\ FileKept
<1>1. todo \in Seq(Statement) /\ given \in Seq(Chunk) /\ StreamsOK /\ WriterOK
    BY DEF WriterInv, CallOK
<1>2. ASSUME UNCHANGED streamVars, UNCHANGED given, WriterOK',
             todo' \in Seq(Statement'), UNCHANGED fileVars
      PROVE  WriterInv' /\ FileKept
    <2>1. StreamsOK' /\ setup' = setup
        BY <1>1, <1>2, SameStreams
    <2>2. CallOK'
        BY <1>1, <1>2, <2>1, SameStatements DEF CallOK
    <2> QED
        BY <1>2, <2>1, <2>2 DEF WriterInv, FileKept
<1>3. UNCHANGED streamVars => Entry' = Entry /\ Statement' = Statement
    BY SameStatements DEF streamVars
<1>4. ASSUME ChunkSegments PROVE WriterInv' /\ FileKept
    <2>1. /\ segmentFlag' = FALSE /\ todo' = NextFile \o todo
          /\ UNCHANGED <<fileVars, streamVars, index, status, file, phase>>
          /\ UNCHANGED given
        BY <1>4 DEF ChunkSegments, historyVars
    <2>2. NextFile \in Seq(Statement)
        <3>1. Call("finish") \in Seq(Statement) /\ Call("init") \in Seq(Statement)
            BY GroupsFit DEF Plain
        <3> QED
            BY <3>1, Joined DEF NextFile
    <2>3. todo' \in Seq(Statement')
        BY <1>1, <1>3, <2>1, <2>2, Joined
    <2>4. WriterOK'
        BY <1>1, <1>3, <2>1 DEF WriterOK
    <2> QED
        BY <1>2, <2>1, <2>3, <2>4
<1>5. ASSUME ChunkBegins PROVE WriterInv' /\ FileKept
    <2> DEFINE a == WriteAll(Junk(HeaderSize))
               b == <<[Head(todo) EXCEPT !.do = "locate"]>>
    <2>1. /\ Doing("chunk")
          /\ IF index = <<>> THEN status' = 1 /\ Then(a \o b)
             ELSE UNCHANGED status /\ Then(b)
          /\ UNCHANGED <<fileVars, streamVars, index, segmentFlag, file, phase>>
          /\ UNCHANGED given
        BY <1>5 DEF ChunkBegins, historyVars
    <2>2. a \in Seq(Statement)
        BY HeaderAssumption, PartsFit, GroupsFit
    <2>3. b \in Seq(Statement)
        <3>1. /\ Head(todo).chunk \in Chunk
              /\ [Head(todo) EXCEPT !.do = "locate"]
                     = [do |-> "locate", chunk |-> Head(todo).chunk]
            BY <2>1, HeadFits, StatementHolds
        <3>2. [Head(todo) EXCEPT !.do = "locate"] \in Statement
            BY <3>1, StatementsFit
        <3> QED
            BY <3>2
    <2> HIDE DEF a, b
    <2>4. a \o b \in Seq(Statement)
        BY <2>2, <2>3, Joined
    <2>5. setup' = setup
        BY <2>1 DEF streamVars
    <2>6. todo' \in Seq(Statement')
        BY <2>1, <2>3, <2>4, <2>5, CallGoesOn
    <2>7. WriterOK'
        BY <1>1, <1>3, <2>1 DEF WriterOK
    <2> QED
        BY <1>2, <2>1, <2>6, <2>7
<1>6. ASSUME ChunkWithoutFile PROVE WriterInv' /\ FileKept
    <2>1. /\ phase' = "dead"
          /\ UNCHANGED <<fileVars, streamVars, index, status, segmentFlag, file, todo>>
          /\ UNCHANGED given
        BY <1>6 DEF ChunkWithoutFile, historyVars
    <2>2. WriterOK'
        BY <1>1, <1>3, <2>1 DEF WriterOK
    <2>3. todo' \in Seq(Statement')
        BY <1>1, <1>3, <2>1
    <2> QED
        BY <1>2, <2>1, <2>2, <2>3
<1>7. ASSUME Refuse PROVE WriterInv' /\ FileKept
    <2>1. /\ todo' = Call("closed") \/ todo' = <<>>
          /\ UNCHANGED <<fileVars, streamVars, writerVars, historyVars>>
        BY <1>7 DEF Refuse
    <2>2. Call("closed") \in Seq(Statement)
        BY GroupsFit DEF Plain
    <2>3. todo' \in Seq(Statement')
        BY <1>3, <2>1, <2>2, NothingFits
    <2> QED
        BY <2>1, <2>3, OnlyTheCall DEF FileKept
<1> QED
    BY <1>4, <1>5, <1>6, <1>7

LEMMA PayloadsFit ==
    ASSUME CellsFit, NEW c \in Chunk, NEW data \in Payloads(c)
    PROVE  data \in Seq(Cell)
<1>1. data = Payload(c, c.number) \/ data = Payload(c, 0)
    BY DEF Payloads
<1>2. c.number \in Int /\ 0 \in Int
    BY DEF Chunk
<1> QED
    BY <1>1, <1>2, PartsFit

LEMMA LocateStep ==
    ASSUME CellsFit, FileInv, WriterInv, Locate
    PROVE  WriterInv' /\ FileKept
<1> DEFINE c == Head(todo).chunk
           offset == Tell % OffsetSpan
           at == offset - (HeaderSize - 1)
<1>1. /\ Doing("locate")
      /\ UNCHANGED <<fileVars, streamVars, writerVars, given, files>>
    BY DEF Locate
<1>2. PICK data \in Payloads(c) :
          Then(Put1(ChunkId(c.stream)) \o Put1(Number(c.size))
               \o WriteAll(data) \o WriteAll(Padding(data))
               \o <<[do |-> "entry", chunk |-> c, offset |-> at]>>)
    BY DEF Locate
<1>3. c \in Chunk
    BY <1>1, HeadFits, StatementHolds
<1>4. at \in Int
    <2>1. Tell \in Nat
        BY DEF Tell, FileInv
    <2>2. \A a, b \in Nat : b > 0 => a % b \in Nat
        OBVIOUS
    <2>3. offset \in Nat
        BY <2>1, <2>2, OffsetAssumption
    <2> QED
        BY <2>3, HeaderAssumption
<1>5. c.stream \in Int /\ c.size \in Int
    BY <1>3 DEF Chunk, WriterInv, StreamsOK, Streams
<1> HIDE DEF c, offset, at
<1>6. data \in Seq(Cell)
    BY <1>2, <1>3, PayloadsFit
<1> DEFINE p == Put1(ChunkId(c.stream))
           q == Put1(Number(c.size))
           r == WriteAll(data)
           s == WriteAll(Padding(data))
           e == <<[do |-> "entry", chunk |-> c, offset |-> at]>>
<1>7. /\ p \in Seq(Statement) /\ q \in Seq(Statement) /\ r \in Seq(Statement)
      /\ s \in Seq(Statement) /\ e \in Seq(Statement)
    <2>1. ChunkId(c.stream) \in Cell /\ Number(c.size) \in Cell
        BY <1>5, CellsAre
    <2>2. Padding(data) \in Seq(Cell)
        BY <1>6, PartsFit
    <2>3. [do |-> "entry", chunk |-> c, offset |-> at] \in Statement
        BY <1>3, <1>4, StatementsFit
    <2> QED
        BY <1>6, <2>1, <2>2, <2>3, GroupsFit
<1>8. Then((((p \o q) \o r) \o s) \o e)
    BY <1>2
<1> HIDE DEF p, q, r, s, e
<1>9. p \o q \in Seq(Statement)
    BY <1>7, Joined
<1>10. (p \o q) \o r \in Seq(Statement)
    BY <1>7, <1>9, Joined
<1>11. ((p \o q) \o r) \o s \in Seq(Statement)
    BY <1>7, <1>10, Joined
<1>12. (((p \o q) \o r) \o s) \o e \in Seq(Statement)
    BY <1>7, <1>11, Joined
<1>13. StreamsOK' /\ setup' = setup
    BY <1>1, SameStreams DEF WriterInv
<1>14. todo' \in Seq(Statement')
    BY <1>1, <1>8, <1>12, <1>13, CallGoesOn
<1>15. WriterOK'
    BY <1>1, <1>13, SameStatements DEF WriterInv, WriterOK, writerVars
<1>16. CallOK'
    BY <1>1, <1>13, <1>14, SameStatements DEF WriterInv, CallOK
<1> QED
    BY <1>1, <1>13, <1>15, <1>16 DEF WriterInv, FileKept

LEMMA EnterStep ==
    ASSUME CellsFit, FileInv, WriterInv, Enter
    PROVE  WriterInv' /\ FileKept
<1> DEFINE c == Head(todo).chunk
           offset == Head(todo).offset
           entry == [stream |-> c.stream, key |-> c.key, offset |-> offset,
                     size |-> c.size]
           next == IF Len(index') % HeaderEvery = 1 THEN Call("headers") ELSE <<>>
<1>1. /\ Doing("entry") /\ index' = Append(index, entry) /\ Then(next)
      /\ UNCHANGED <<fileVars, streamVars, status, segmentFlag, file, phase,
                     historyVars>>
    BY DEF Enter
<1>2. c \in Chunk /\ offset \in Int
    BY <1>1, HeadFits, StatementHolds
<1> HIDE DEF c, offset
<1>3. entry \in Entry
    BY <1>2 DEF Chunk, Entry
<1>4. next \in Seq(Statement)
    BY GroupsFit, NothingFits DEF Plain
<1> HIDE DEF entry, next
<1>5. StreamsOK' /\ setup' = setup
    BY <1>1, SameStreams DEF WriterInv
<1>6. todo' \in Seq(Statement')
    BY <1>1, <1>4, <1>5, CallGoesOn
<1>7. WriterOK'
    <2>1. index' \in Seq(Entry')
        BY <1>1, <1>3, <1>5, SameStatements DEF WriterInv, WriterOK
    <2> QED
        BY <1>1, <2>1 DEF WriterInv, WriterOK
<1>8. CallOK'
    BY <1>1, <1>5, <1>6, SameStatements DEF WriterInv, CallOK, historyVars
<1> QED
    BY <1>1, <1>5, <1>7, <1>8 DEF WriterInv, FileKept

LEMMA CountStep ==
    ASSUME CellsFit, FileInv, WriterInv, Count
    PROVE  WriterInv' /\ FileKept
<1> DEFINE c == Head(todo).chunk
           s == c.stream
           sample0 == setup[s].sample
<1>1. /\ Doing("count") /\ Then(<<>>)
      /\ UNCHANGED <<fileVars, setup, running, encoding, writerVars, historyVars>>
      /\ IF sample0 > 0
         THEN /\ total' = [total EXCEPT ![s] = @ + c.size]
              /\ dwLength' = [dwLength EXCEPT ![s] = total'[s] \div sample0]
         ELSE /\ dwLength' = [dwLength EXCEPT ![s] = @ + 1]
              /\ UNCHANGED total
    BY DEF Count
<1>2. c \in Chunk
    BY <1>1, HeadFits, StatementHolds
<1> HIDE DEF c
<1>3. s \in Streams /\ c.size \in Nat
    BY <1>2 DEF Chunk
<1>4. /\ setup \in Seq(Setup) /\ total \in [Streams -> Nat]
      /\ dwLength \in [Streams -> Nat]
    BY DEF WriterInv, StreamsOK
<1>5. sample0 \in Nat
    <2>1. setup[s] \in Setup
        BY <1>3, <1>4 DEF Streams
    <2> QED
        BY <2>1 DEF Setup
<1> HIDE DEF s, sample0
<1>6. total' \in [Streams -> Nat] /\ dwLength' \in [Streams -> Nat]
    <2>1. CASE sample0 > 0
        <3>1. total' = [total EXCEPT ![s] = @ + c.size]
              /\ dwLength' = [dwLength EXCEPT ![s] = total'[s] \div sample0]
            BY <1>1, <2>1
        <3>2. total' \in [Streams -> Nat] /\ total'[s] \in Nat
            BY <1>3, <1>4, <3>1
        <3>3. \A a, b \in Nat : b > 0 => a \div b \in Nat
            OBVIOUS
        <3>4. total'[s] \div sample0 \in Nat
            BY <1>5, <2>1, <3>2, <3>3
        <3> QED
            BY <1>4, <3>1, <3>2, <3>4
    <2>2. CASE ~(sample0 > 0)
        BY <1>1, <1>3, <1>4, <2>2
    <2> QED
        BY <2>1, <2>2
<1>7. setup' = setup
    BY <1>1
<1>8. StreamsOK'
    BY <1>1, <1>6 DEF WriterInv, StreamsOK, Streams
<1>9. todo' \in Seq(Statement')
    BY <1>1, <1>7, NothingFits, CallGoesOn
<1>10. WriterOK'
    BY <1>1, <1>7, SameStatements DEF WriterInv, WriterOK, writerVars
<1>11. CallOK'
    BY <1>1, <1>7, <1>9, SameStatements DEF WriterInv, CallOK, historyVars
<1> QED
    BY <1>1, <1>8, <1>10, <1>11 DEF WriterInv, FileKept

-----------------------------------------------------------------------------
(* WriteHeaders and finish *)
LEMMA FinishSteps ==
    ASSUME CellsFit, FileInv, WriterInv,
           WriteHeaders \/ Finish \/ WriteIndex \/ WriteRiffSize
    PROVE  WriterInv' /\ FileKept
<1>1. StreamsOK /\ index \in Seq(Entry)
    BY DEF WriterInv, WriterOK
<1>2. ASSUME SeekEnd PROVE off' \in Nat
    <2>1. FileInv'
        BY <1>2, StepIsFileStep DEF BufferStep
    <2> QED
        BY <2>1 DEF FileInv
<1>3. ASSUME UNCHANGED <<streamVars, writerVars, historyVars>>,
             NEW name, Doing(name), NEW x \in Seq(Statement), Then(x),
             SeekEnd \/ UNCHANGED fileVars
      PROVE  WriterInv' /\ FileKept
    <2>1. setup' = setup
        BY <1>3 DEF streamVars
    <2>2. todo' \in Seq(Statement')
        BY <1>3, <2>1, CallGoesOn
    <2> QED
        BY <1>3, <2>2, OnlyTheCall DEF FileKept, BufferStep
<1>4. ASSUME WriteHeaders PROVE WriterInv' /\ FileKept
    <2>1. /\ Doing("headers")
          /\ UNCHANGED <<streamVars, writerVars, historyVars>>
        BY <1>4 DEF WriteHeaders
    <2>2. CASE status = 0
        <3>1. Then(<<>>) /\ UNCHANGED fileVars
            BY <1>4, <2>2 DEF WriteHeaders
        <3> QED
            BY <1>3, <2>1, <3>1, NothingFits
    <2>3. CASE status # 0
        <3>1. SeekEnd /\ Then(HeaderSteps(off'))
            BY <1>4, <2>3 DEF WriteHeaders
        <3>2. HeaderSteps(off') \in Seq(Statement)
            BY <1>1, <1>2, <3>1, HeaderStepsFit
        <3> QED
            BY <1>3, <2>1, <3>1, <3>2
    <2> QED
        BY <2>2, <2>3
<1>5. ASSUME Finish PROVE WriterInv' /\ FileKept
    <2> DEFINE a == IF Tell % 2 = 1 THEN WriteAll(Junk(1)) ELSE <<>>
               b == Call("headers")
               c == Call("index")
               d == Call("riffSize")
               e == Call("delete")
               f == StopAll
    <2>1. /\ Doing("finish") /\ Then(((((a \o b) \o c) \o d) \o e) \o f)
          /\ UNCHANGED <<fileVars, streamVars, writerVars, historyVars>>
        BY <1>5 DEF Finish
    <2>2. a \in Seq(Statement)
        BY PartsFit, GroupsFit, NothingFits
    <2>3. /\ b \in Seq(Statement) /\ c \in Seq(Statement) /\ d \in Seq(Statement)
          /\ e \in Seq(Statement) /\ f \in Seq(Statement)
        BY <1>1, GroupsFit, StopsFit DEF Plain
    <2> HIDE DEF a, b, c, d, e, f
    <2>4. a \o b \in Seq(Statement)
        BY <2>2, <2>3, Joined
    <2>5. (a \o b) \o c \in Seq(Statement)
        BY <2>3, <2>4, Joined
    <2>6. ((a \o b) \o c) \o d \in Seq(Statement)
        BY <2>3, <2>5, Joined
    <2>7. (((a \o b) \o c) \o d) \o e \in Seq(Statement)
        BY <2>3, <2>6, Joined
    <2>8. ((((a \o b) \o c) \o d) \o e) \o f \in Seq(Statement)
        BY <2>3, <2>7, Joined
    <2> QED
        BY <1>3, <2>1, <2>8
<1>6. ASSUME WriteIndex PROVE WriterInv' /\ FileKept
    <2> DEFINE a == Put1(Id("idx1"))
               b == Put1(Number(4 * Len(index)))
               c == WriteAll(IndexCells)
    <2>1. /\ Doing("index") /\ Then((a \o b) \o c)
          /\ UNCHANGED <<fileVars, streamVars, writerVars, historyVars>>
        BY <1>6 DEF WriteIndex
    <2>2. Id("idx1") \in Cell /\ Number(4 * Len(index)) \in Cell
        <3>1. 4 * Len(index) \in Int /\ "idx1" \in Names
            BY <1>1 DEF Names
        <3> QED
            BY <3>1, CellsAre
    <2>3. a \in Seq(Statement) /\ b \in Seq(Statement) /\ c \in Seq(Statement)
        BY <1>1, <2>2, IndexFits, GroupsFit
    <2> HIDE DEF a, b, c
    <2>4. a \o b \in Seq(Statement)
        BY <2>3, Joined
    <2>5. (a \o b) \o c \in Seq(Statement)
        BY <2>3, <2>4, Joined
    <2> QED
        BY <1>3, <2>1, <2>5
<1>7. ASSUME WriteRiffSize PROVE WriterInv' /\ FileKept
    <2> DEFINE a == Go(1)
               b == Put1(Number(off' - 2))
    <2>1. /\ Doing("riffSize") /\ SeekEnd /\ Then(a \o b)
          /\ UNCHANGED <<streamVars, writerVars, historyVars>>
        BY <1>7 DEF WriteRiffSize
    <2>2. off' - 2 \in Int
        BY <1>2, <2>1
    <2>3. a \in Seq(Statement) /\ b \in Seq(Statement)
        BY <2>2, CellsAre, GroupsFit
    <2> HIDE DEF a, b
    <2>4. a \o b \in Seq(Statement)
        BY <2>3, Joined
    <2> QED
        BY <1>3, <2>1, <2>4
<1> QED
    BY <1>4, <1>5, <1>6, <1>7

LEMMA DeleteStep ==
    ASSUME CellsFit, FileInv, WriterInv, DeleteBuffer
    PROVE  WriterInv' /\ FileKept
<1>1. /\ Doing("delete") /\ Close /\ file' = "none" /\ Then(<<>>)
      /\ UNCHANGED <<streamVars, index, status, segmentFlag, phase, given>>
    BY DEF DeleteBuffer
<1>2. StreamsOK' /\ setup' = setup
    BY <1>1, SameStreams DEF WriterInv
<1>3. todo' \in Seq(Statement')
    BY <1>1, <1>2, NothingFits, CallGoesOn
<1>4. WriterOK'
    BY <1>1, <1>2, SameStatements DEF WriterInv, WriterOK
<1>5. CallOK'
    BY <1>1, <1>2, <1>3, SameStatements DEF WriterInv, CallOK
<1> QED
    BY <1>1, <1>2, <1>4, <1>5 DEF WriterInv, FileKept, BufferStep

LEMMA StopStep ==
    ASSUME CellsFit, FileInv, WriterInv, Stop
    PROVE  WriterInv' /\ FileKept
<1> DEFINE s == Head(todo).stream
           last == [stream |-> s, size |-> 1, key |-> FALSE,
                    number |-> Len(given) + 1, encoding |-> encoding[s]]
<1>1. /\ Doing("stop")
      /\ running' = [running EXCEPT ![s] = FALSE]
      /\ encoding' = [encoding EXCEPT ![s] = @ + 1] \/ UNCHANGED encoding
      /\ \/ Then(<<>>) /\ UNCHANGED given
         \/ given' = Append(given, last) /\ Then(ChunkCall(last))
      /\ UNCHANGED <<fileVars, setup, dwLength, total, writerVars>>
    BY DEF Stop
<1>2. s \in Streams
    BY <1>1, HeadFits, StatementHolds
<1> HIDE DEF s
<1>3. /\ running \in [Streams -> BOOLEAN] /\ encoding \in [Streams -> Nat]
      /\ given \in Seq(Chunk)
    BY DEF WriterInv, StreamsOK, CallOK
<1>4. last \in Chunk
    BY <1>2, <1>3 DEF Chunk
<1> HIDE DEF last
<1>5. setup' = setup
    BY <1>1
<1>6. given' \in Seq(Chunk') /\ todo' \in Seq(Statement')
    <2>1. CASE Then(<<>>) /\ UNCHANGED given
        <3>1. todo' \in Seq(Statement')
            BY <1>1, <1>5, <2>1, NothingFits, CallGoesOn
        <3> QED
            BY <1>3, <1>5, <2>1, <3>1, SameStatements
    <2>2. CASE given' = Append(given, last) /\ Then(ChunkCall(last))
        <3>1. ChunkCall(last) \in Seq(Statement)
            BY <1>4, GroupsFit
        <3>2. todo' \in Seq(Statement')
            BY <1>1, <1>5, <2>2, <3>1, CallGoesOn
        <3>3. given' \in Seq(Chunk)
            BY <1>3, <1>4, <2>2
        <3> QED
            BY <1>5, <3>2, <3>3, SameStatements
    <2> QED
        BY <1>1, <2>1, <2>2
<1>7. running' \in [Streams -> BOOLEAN]
    BY <1>1, <1>2, <1>3
<1>8. encoding' \in [Streams -> Nat]
    BY <1>1, <1>2, <1>3
<1>9. StreamsOK'
    BY <1>1, <1>5, <1>7, <1>8, SameStatements DEF WriterInv, StreamsOK
<1>10. WriterOK'
    BY <1>1, <1>5, SameStatements DEF WriterInv, WriterOK, writerVars
<1> QED
    BY <1>1, <1>6, <1>9, <1>10 DEF WriterInv, CallOK, FileKept

\* The encoders of the streams, as init starts them
LEMMA Started ==
    ASSUME setup \in Seq(Setup)
    PROVE  /\ [s \in DOMAIN setup |-> setup[s].encoder] \in [Streams -> BOOLEAN]
           /\ Zeros \in [Streams -> Nat]
<1>1. \A s \in DOMAIN setup : setup[s].encoder \in BOOLEAN
    <2>1. \A s \in DOMAIN setup : setup[s] \in Setup
        OBVIOUS
    <2>2. \A x \in Setup : x.encoder \in BOOLEAN
        BY DEF Setup
    <2> QED
        BY <2>1, <2>2, Zenon
<1>2. [s \in DOMAIN setup |-> setup[s].encoder] \in [Streams -> BOOLEAN]
    BY <1>1, Zenon DEF Streams
<1> QED
    BY <1>2 DEF Zeros, Streams

LEMMA BeginStep ==
    ASSUME CellsFit, FileInv, WriterInv, Begin
    PROVE  WriterInv' /\ FileKept
<1>1. /\ Doing("init") /\ Reopen /\ Then(<<>>)
      /\ running' = [s \in DOMAIN setup |-> setup[s].encoder]
      /\ dwLength' = Zeros
      /\ index' = <<>> /\ status' = 0 /\ segmentFlag' = FALSE /\ file' = "open"
      /\ UNCHANGED <<setup, encoding, total, phase, given>>
    BY DEF Begin
<1>2. setup' = setup
    BY <1>1
<1>3. /\ setup \in Seq(Setup) /\ setup \in Setups
      /\ encoding \in [Streams -> Nat] /\ total \in [Streams -> Nat]
    BY DEF WriterInv, StreamsOK
<1>4. running' \in [Streams -> BOOLEAN] /\ dwLength' \in [Streams -> Nat]
    BY <1>1, <1>3, Started
<1>5. StreamsOK'
    BY <1>1, <1>3, <1>4, SameStatements DEF StreamsOK
<1>6. todo' \in Seq(Statement')
    BY <1>1, <1>2, NothingFits, CallGoesOn
<1>7. index' \in Seq(Entry')
    BY <1>1
<1>8. WriterOK'
    BY <1>1, <1>7 DEF WriterInv, WriterOK
<1>9. CallOK'
    BY <1>1, <1>6, SameStatements DEF WriterInv, CallOK
<1> QED
    BY <1>1, <1>5, <1>8, <1>9 DEF WriterInv, FileKept, BufferStep

-----------------------------------------------------------------------------
(* The user's calls, and the end of the destructor *)
LEMMA AddChunkStep ==
    ASSUME CellsFit, FileInv, WriterInv, AddChunk
    PROVE  WriterInv' /\ FileKept
<1>1. UNCHANGED <<fileVars, streamVars, writerVars>>
    BY DEF AddChunk
<1>2. PICK m \in Menu :
          LET c == [stream |-> m.stream, size |-> m.size, key |-> m.key,
                    number |-> Len(given) + 1, encoding |-> encoding[m.stream]]
          IN  /\ m.stream \in DOMAIN setup
              /\ given' = Append(given, c)
              /\ todo' = ChunkCall(c)
    BY DEF AddChunk
<1> DEFINE c == [stream |-> m.stream, size |-> m.size, key |-> m.key,
                 number |-> Len(given) + 1, encoding |-> encoding[m.stream]]
<1>3. m.stream \in Streams /\ given' = Append(given, c) /\ todo' = ChunkCall(c)
    BY <1>2 DEF Streams
<1>4. c \in Chunk
    <2>1. m.size \in Nat /\ m.key \in BOOLEAN
        BY MenuAssumption
    <2>2. encoding[m.stream] \in Nat /\ Len(given) + 1 \in Nat
        BY <1>3 DEF WriterInv, StreamsOK, CallOK
    <2> QED
        BY <1>3, <2>1, <2>2 DEF Chunk
<1> HIDE DEF c
<1>5. given' \in Seq(Chunk) /\ todo' \in Seq(Statement)
    BY <1>3, <1>4, GroupsFit DEF WriterInv, CallOK
<1>6. StreamsOK' /\ setup' = setup
    BY <1>1, SameStreams DEF WriterInv
<1>7. WriterOK'
    BY <1>1, <1>6, SameStatements DEF WriterInv, WriterOK, writerVars
<1>8. CallOK'
    BY <1>5, <1>6, SameStatements DEF CallOK
<1> QED
    BY <1>1, <1>6, <1>7, <1>8 DEF WriterInv, FileKept

LEMMA UserSteps ==
    ASSUME CellsFit, FileInv, WriterInv,
           SegmentAtKeyframe \/ Segment \/ Destroy \/ Destroyed
    PROVE  WriterInv' /\ FileKept
<1>1. todo \in Seq(Statement) /\ given \in Seq(Chunk) /\ StreamsOK /\ WriterOK
    BY DEF WriterInv, CallOK
<1>2. ASSUME UNCHANGED <<fileVars, streamVars, index, status, file, given>>,
             segmentFlag' \in BOOLEAN, phase' \in {"open", "closed", "dead"},
             todo' \in Seq(Statement)
      PROVE  WriterInv' /\ FileKept
    <2>1. StreamsOK' /\ setup' = setup
        BY <1>1, <1>2, SameStreams
    <2>2. WriterOK'
        BY <1>1, <1>2, <2>1, SameStatements DEF WriterOK
    <2>3. CallOK'
        BY <1>1, <1>2, <2>1, SameStatements DEF CallOK
    <2> QED
        BY <1>2, <2>1, <2>2, <2>3 DEF WriterInv, FileKept
<1>3. segmentFlag \in BOOLEAN /\ phase \in {"open", "closed", "dead"}
    BY <1>1 DEF WriterOK
<1>4. /\ Call("finish") \in Seq(Statement) /\ Call("init") \in Seq(Statement)
      /\ Call("closed") \in Seq(Statement) /\ StopAll \in Seq(Statement)
    BY <1>1, GroupsFit, StopsFit DEF Plain
<1>5. ASSUME SegmentAtKeyframe PROVE WriterInv' /\ FileKept
    <2>1. /\ segmentFlag' = TRUE
          /\ UNCHANGED <<fileVars, streamVars, index, status, file, phase, todo, given>>
        BY <1>5 DEF SegmentAtKeyframe, historyVars
    <2> QED
        BY <1>1, <1>2, <1>3, <2>1
<1>6. ASSUME Segment PROVE WriterInv' /\ FileKept
    <2>1. /\ segmentFlag' = FALSE /\ todo' = NextFile
          /\ UNCHANGED <<fileVars, streamVars, index, status, file, phase, given>>
        BY <1>6 DEF Segment, historyVars
    <2>2. NextFile \in Seq(Statement)
        BY <1>4, Joined DEF NextFile
    <2> QED
        BY <1>2, <1>3, <2>1, <2>2
<1>7. ASSUME Destroy PROVE WriterInv' /\ FileKept
    <2>1. /\ \/ phase' = "closed" /\ UNCHANGED todo
             \/ todo' = StopAll \o Call("finish") \o Call("closed") /\ UNCHANGED phase
          /\ UNCHANGED <<fileVars, streamVars, index, status, segmentFlag, file, given>>
        BY <1>7 DEF Destroy, historyVars
    <2>2. StopAll \o Call("finish") \in Seq(Statement)
        BY <1>4, Joined
    <2>3. (StopAll \o Call("finish")) \o Call("closed") \in Seq(Statement)
        BY <1>4, <2>2, Joined
    <2> QED
        BY <1>1, <1>2, <1>3, <2>1, <2>3
<1>8. ASSUME Destroyed PROVE WriterInv' /\ FileKept
    <2>1. /\ Doing("closed") /\ Then(<<>>) /\ phase' = "closed"
          /\ UNCHANGED <<fileVars, streamVars, index, status, segmentFlag, file, given>>
        BY <1>8 DEF Destroyed, historyVars
    <2>2. setup' = setup
        BY <2>1 DEF streamVars
    <2>3. todo' \in Seq(Statement)
        BY <2>1, <2>2, NothingFits, CallGoesOn, SameStatements
    <2> QED
        BY <1>2, <1>3, <2>1, <2>3
<1> QED
    BY <1>5, <1>6, <1>7, <1>8

-----------------------------------------------------------------------------
LEMMA InitHolds ==
    ASSUME Init PROVE FileInv /\ WriterInv
<1>1. Opened /\ setup \in Setups
    BY DEF Init
<1>2. FileInv
    BY <1>1, BufSizeAssumption DEF Opened, FileInv
<1>3. setup \in Seq(Setup)
    BY <1>1, SetupAssumption DEF Setup
<1>4. /\ running \in [Streams -> BOOLEAN] /\ encoding \in [Streams -> Nat]
      /\ dwLength \in [Streams -> Nat] /\ total \in [Streams -> Nat]
    BY <1>3, Started DEF Init
<1>5. StreamsOK
    BY <1>1, <1>3, <1>4 DEF StreamsOK
<1>6. WriterOK /\ CallOK
    <2>1. /\ index = <<>> /\ status = 0 /\ segmentFlag = FALSE
          /\ file = "open" /\ phase = "open" /\ todo = <<>> /\ given = <<>>
        BY DEF Init
    <2>2. \A S : <<>> \in Seq(S)
        OBVIOUS
    <2>3. WriterOK
        BY <2>1, <2>2 DEF WriterOK
    <2> QED
        BY <2>1, <2>2, <2>3 DEF CallOK
<1> QED
    BY <1>2, <1>5, <1>6 DEF WriterInv

LEMMA NextKeeps ==
    ASSUME CellsFit, FileInv, WriterInv, [Next]_vars
    PROVE  WriterInv' /\ FileKept
<1>1. CASE FileStep
    BY <1>1, FileSteps
<1>2. CASE CallStep
    BY <1>2, ChunkSteps, LocateStep, EnterStep, CountStep, FinishSteps, DeleteStep,
       StopStep, BeginStep, UserSteps DEF CallStep
<1>3. CASE UserCall
    BY <1>3, AddChunkStep, UserSteps DEF UserCall
<1>4. CASE UNCHANGED vars
    <2>1. /\ UNCHANGED <<streamVars, writerVars, historyVars>>
          /\ UNCHANGED fileVars /\ UNCHANGED todo
        BY <1>4 DEF vars
    <2>2. Statement' = Statement
        BY <2>1, SameStatements DEF streamVars
    <2>3. todo' \in Seq(Statement')
        BY <2>1, <2>2 DEF WriterInv, CallOK
    <2> QED
        BY <2>1, <2>3, OnlyTheCall DEF FileKept
<1> QED
    BY <1>1, <1>2, <1>3, <1>4 DEF Next

LEMMA FileKeptSteps ==
    ASSUME FileInv, FileKept
    PROVE  FileInv' /\ [Buffered!Next]_<<Whole, Tell>>
<1>1. CASE BufferStep
    BY <1>1, StepIsFileStep
<1>2. CASE UNCHANGED fileVars
    BY <1>2 DEF fileVars, FileInv, Whole, Tell
<1> QED
    BY <1>1, <1>2 DEF FileKept

\* The writer's fields keep their types and FileBuffer's buffer its room, for
\* any streams, any chunks and any sizes of the header and of the buffer
\* (AviWrite.cpp, FileBuffer.h).
THEOREM WriterTypeCorrect ==
    ASSUME CellsFit
    PROVE  Spec => []TypeOK
<1>1. Init => FileInv /\ WriterInv
    BY InitHolds
<1>2. FileInv /\ WriterInv /\ [Next]_vars => FileInv' /\ WriterInv'
    BY NextKeeps, FileKeptSteps
<1>3. FileInv /\ WriterInv => TypeOK
    <2> SUFFICES ASSUME FileInv, WriterInv PROVE TypeOK
        OBVIOUS
    <2>1. \A s \in DOMAIN setup : {dwLength[s], total[s], encoding[s]} \subseteq Nat
        BY DEF WriterInv, StreamsOK, Streams
    <2>2. \A k \in DOMAIN index : index[k].stream \in DOMAIN setup
        <3>1. \A k \in DOMAIN index : index[k] \in Entry
            BY DEF WriterInv, WriterOK
        <3>2. \A e \in Entry : e.stream \in Streams
            BY DEF Entry
        <3> QED
            BY <3>1, <3>2 DEF Streams
    <2> QED
        BY <2>1, <2>2 DEF FileInv, WriterInv, WriterOK, TypeOK
<1> QED
    BY <1>1, <1>2, <1>3, PTL DEF Spec

\* Whatever the writer does - chunks, headers written over older ones, indexes,
\* files begun one after the other - the file with the buffer laid over it is
\* one that is written directly (AviWrite.cpp over FileBuffer.h).
THEOREM WriterImplements ==
    ASSUME CellsFit
    PROVE  Spec => WritesThrough
<1>1. Init => FileInv /\ WriterInv /\ Buffered!Init
    <2> SUFFICES ASSUME Init PROVE FileInv /\ WriterInv /\ Buffered!Init
        OBVIOUS
    <2>1. Whole = <<>> /\ Tell = 0
        BY EmptyFile DEF Init, Opened, Whole, Tell
    <2> QED
        BY <2>1, InitHolds DEF Buffered!Init, Whole
<1>2. FileInv /\ WriterInv /\ [Next]_vars
          => FileInv' /\ WriterInv' /\ [Buffered!Next]_<<Whole, Tell>>
    BY NextKeeps, FileKeptSteps
<1> QED
    BY <1>1, <1>2, PTL DEF Spec, WritesThrough, Buffered!Spec, Whole

-----------------------------------------------------------------------------
(***************************************************************************)
(* Recursive functions: two that begin alike and go on alike are the same. *)
(***************************************************************************)
LEMMA SameTurns ==
    \A n \in Nat : \A f, h :
        f[0] = h[0] /\ (\A k \in 1 .. n : f[k - 1] = h[k - 1] => f[k] = h[k])
            => \A k \in 0 .. n : f[k] = h[k]
<1> SUFFICES ASSUME NEW n \in Nat, NEW f, NEW h, f[0] = h[0],
                    \A k \in 1 .. n : f[k - 1] = h[k - 1] => f[k] = h[k]
             PROVE  \A k \in 0 .. n : f[k] = h[k]
    OBVIOUS
<1> DEFINE T == {k \in 0 .. n : f[k] # h[k]}
<1> SUFFICES ASSUME T # {} PROVE FALSE
    OBVIOUS
<1>1. T \subseteq Nat
    OBVIOUS
<1>2. PICK k \in T : \A y \in T : k <= y
    <2> HIDE DEF T
    <2> QED
        BY <1>1, Smallest
<1>3. k \in 1 .. n /\ f[k] # h[k] /\ k - 1 \in 0 .. n /\ ~(k <= k - 1)
    OBVIOUS
<1>4. k - 1 \notin T
    <2> HIDE DEF T
    <2> QED
        BY <1>2, <1>3
<1> QED
    BY <1>3, <1>4

LEMMA EvenIsNat == \A n \in Nat : /\ Even(n) \in Nat /\ Even(n) >= n /\ Even(n) <= n + 1
                                  /\ Even(n) % 2 = 0
<1> SUFFICES ASSUME NEW n \in Nat
             PROVE  /\ Even(n) \in Nat /\ Even(n) >= n /\ Even(n) <= n + 1
                    /\ Even(n) % 2 = 0
    OBVIOUS
<1>1. n % 2 \in 0 .. 1
    OBVIOUS
<1>2. (n + (n % 2)) % 2 = 0
    OBVIOUS
<1> QED
    BY <1>1, <1>2 DEF Even

LEMMA EndSteps ==
    ASSUME NEW chunks, NEW N \in Nat, \A k \in 1 .. N : chunks[k].size \in Nat
    PROVE  /\ EndOf(chunks, 0) = HeaderSize
           /\ \A k \in 0 .. N : EndOf(chunks, k) \in Nat
           /\ \A k \in 1 .. N :
                 EndOf(chunks, k) = EndOf(chunks, k - 1) + 2 + Even(chunks[k].size)
<1> DEFINE g == [x \in (1 .. N) \X Nat |-> x[2] + 2 + Even(chunks[x[1]].size)]
<1>1. g \in [(1 .. N) \X Nat -> Nat]
    BY EvenIsNat
<1>2. HeaderSize \in Nat
    BY HeaderAssumption
<1>3. PICK h \in [0 .. N -> Nat] : Iterates(h, HeaderSize, g, N)
    <2> HIDE DEF g
    <2> QED
        BY <1>1, <1>2, IterationExists
<1>4. \A k \in 1 .. N : h[k] = h[k - 1] + 2 + Even(chunks[k].size)
    <2> SUFFICES ASSUME NEW k \in 1 .. N
                 PROVE  h[k] = h[k - 1] + 2 + Even(chunks[k].size)
        OBVIOUS
    <2>0. k - 1 \in 0 .. N
        OBVIOUS
    <2>1. h[k - 1] \in Nat
        BY <1>3, <2>0
    <2>2. h[k] = g[<<k, h[k - 1]>>]
        BY <1>3 DEF Iterates
    <2> QED
        BY <2>1, <2>2
<1>5. ASSUME NEW n \in 0 .. N PROVE EndOf(chunks, n) = h[n]
    <2> DEFINE L(f) == f = [k \in 0 .. n |->
                              IF k = 0 THEN HeaderSize
                              ELSE f[k - 1] + 2 + Even(chunks[k].size)]
               f == CHOOSE f : L(f)
               d == [k \in 0 .. n |-> h[k]]
    <2>0. n \in Nat /\ n <= N /\ \A k \in 0 .. n : k \in 0 .. N
        OBVIOUS
    <2>1. L(d)
        <3>1. ASSUME NEW k \in 0 .. n
              PROVE  h[k] = IF k = 0 THEN HeaderSize
                            ELSE d[k - 1] + 2 + Even(chunks[k].size)
            <4>1. CASE k = 0
                BY <1>3, <4>1 DEF Iterates
            <4>2. CASE k # 0
                <5>1. k - 1 \in 0 .. n /\ k \in 1 .. N
                    BY <2>0, <4>2
                <5>2. d[k - 1] = h[k - 1]
                    BY <5>1
                <5> QED
                    BY <1>4, <4>2, <5>1, <5>2
            <4> QED
                BY <4>1, <4>2
        <3> QED
            BY <3>1
    <2>2. L(f)
        <3> HIDE DEF L, d
        <3> QED
            BY <2>1, Zenon
    <2>3. EndOf(chunks, n) = f[n]
        BY Zenon DEF EndOf
    <2> HIDE DEF f
    <2>4. f[0] = h[0] /\ \A k \in 1 .. n : f[k - 1] = h[k - 1] => f[k] = h[k]
        <3>1. /\ 0 \in 0 .. n
              /\ \A k \in 1 .. n : k \in 0 .. n /\ k # 0 /\ k \in 1 .. N
            BY <2>0
        <3>2. \A k \in 0 .. n : f[k] = IF k = 0 THEN HeaderSize
                                       ELSE f[k - 1] + 2 + Even(chunks[k].size)
            BY <2>2
        <3>3. f[0] = h[0]
            BY <1>3, <3>1, <3>2 DEF Iterates
        <3> HIDE DEF L
        <3> QED
            BY <1>4, <3>1, <3>2, <3>3
    <2>5. \A k \in 0 .. n : f[k] = h[k]
        <3> HIDE DEF L
        <3>1. \A F, H : F[0] = H[0] /\ (\A k \in 1 .. n : F[k - 1] = H[k - 1] => F[k] = H[k])
                        => \A k \in 0 .. n : F[k] = H[k]
            BY ONLY <2>0, SameTurns, Zenon
        <3> QED
            BY ONLY <2>4, <3>1, Zenon
    <2>6. f[n] = h[n]
        BY ONLY <2>0, <2>5
    <2> QED
        BY <2>3, <2>6
<1> QED
    BY <1>3, <1>4, <1>5 DEF Iterates

LEMMA OwnSteps ==
    ASSUME NEW chunks, NEW N \in Nat, NEW s
    PROVE  /\ OfStream(chunks, s, 0) = <<>>
           /\ \A k \in 0 .. N : OfStream(chunks, s, k) \in Seq(1 .. N)
           /\ \A k \in 1 .. N :
                 OfStream(chunks, s, k) =
                     IF chunks[k].stream = s THEN Append(OfStream(chunks, s, k - 1), k)
                     ELSE OfStream(chunks, s, k - 1)
<1> DEFINE g == [x \in (1 .. N) \X Seq(1 .. N) |->
                   IF chunks[x[1]].stream = s THEN Append(x[2], x[1]) ELSE x[2]]
<1>1. g \in [(1 .. N) \X Seq(1 .. N) -> Seq(1 .. N)]
    <2> SUFFICES ASSUME NEW k \in 1 .. N, NEW q \in Seq(1 .. N)
                 PROVE  (IF chunks[k].stream = s THEN Append(q, k) ELSE q)
                            \in Seq(1 .. N)
        OBVIOUS
    <2>1. \A S : \A r \in Seq(S), x \in S : Append(r, x) \in Seq(S)
        OBVIOUS
    <2>2. Append(q, k) \in Seq(1 .. N)
        BY ONLY <2>1, k \in 1 .. N, q \in Seq(1 .. N)
    <2> QED
        BY <2>2
<1>2. <<>> \in Seq(1 .. N)
    OBVIOUS
<1>3. PICK h \in [0 .. N -> Seq(1 .. N)] : Iterates(h, <<>>, g, N)
    <2> HIDE DEF g
    <2> QED
        BY <1>1, <1>2, IterationExists
<1>4. \A k \in 1 .. N : h[k] = IF chunks[k].stream = s THEN Append(h[k - 1], k)
                               ELSE h[k - 1]
    <2> SUFFICES ASSUME NEW k \in 1 .. N
                 PROVE  h[k] = IF chunks[k].stream = s THEN Append(h[k - 1], k)
                               ELSE h[k - 1]
        OBVIOUS
    <2>0. k - 1 \in 0 .. N
        OBVIOUS
    <2>1. h[k - 1] \in Seq(1 .. N)
        BY <1>3, <2>0
    <2>2. h[k] = g[<<k, h[k - 1]>>]
        BY <1>3 DEF Iterates
    <2> QED
        BY <2>1, <2>2
<1>5. ASSUME NEW n \in 0 .. N PROVE OfStream(chunks, s, n) = h[n]
    <2> DEFINE L(f) == f = [k \in 0 .. n |->
                              IF k = 0 THEN <<>>
                              ELSE IF chunks[k].stream = s
                              THEN Append(f[k - 1], k)
                              ELSE f[k - 1]]
               f == CHOOSE f : L(f)
               d == [k \in 0 .. n |-> h[k]]
    <2>0. n \in Nat /\ n <= N /\ \A k \in 0 .. n : k \in 0 .. N
        OBVIOUS
    <2>1. L(d)
        <3>1. ASSUME NEW k \in 0 .. n
              PROVE  h[k] = IF k = 0 THEN <<>>
                            ELSE IF chunks[k].stream = s
                            THEN Append(d[k - 1], k)
                            ELSE d[k - 1]
            <4>1. CASE k = 0
                BY <1>3, <4>1 DEF Iterates
            <4>2. CASE k # 0
                <5>1. k - 1 \in 0 .. n /\ k \in 1 .. N
                    BY <2>0, <4>2
                <5>2. d[k - 1] = h[k - 1]
                    BY <5>1
                <5> QED
                    BY <1>4, <4>2, <5>1, <5>2
            <4> QED
                BY <4>1, <4>2
        <3> QED
            BY <3>1
    <2>2. L(f)
        <3> HIDE DEF L, d
        <3> QED
            BY <2>1, Zenon
    <2>3. OfStream(chunks, s, n) = f[n]
        BY Zenon DEF OfStream
    <2> HIDE DEF f
    <2>4. f[0] = h[0] /\ \A k \in 1 .. n : f[k - 1] = h[k - 1] => f[k] = h[k]
        <3>1. /\ 0 \in 0 .. n
              /\ \A k \in 1 .. n : k \in 0 .. n /\ k # 0 /\ k \in 1 .. N
            BY <2>0
        <3>2. \A k \in 0 .. n : f[k] = IF k = 0 THEN <<>>
                                       ELSE IF chunks[k].stream = s
                                       THEN Append(f[k - 1], k)
                                       ELSE f[k - 1]
            BY <2>2
        <3>3. f[0] = h[0]
            BY <1>3, <3>1, <3>2 DEF Iterates
        <3> HIDE DEF L
        <3> QED
            BY <1>4, <3>1, <3>2, <3>3
    <2>5. \A k \in 0 .. n : f[k] = h[k]
        <3>1. \A F, H : F[0] = H[0] /\ (\A k \in 1 .. n : F[k - 1] = H[k - 1] => F[k] = H[k])
                        => \A k \in 0 .. n : F[k] = H[k]
            BY ONLY <2>0, SameTurns, Zenon
        <3> QED
            BY ONLY <2>4, <3>1, Zenon
    <2>6. f[n] = h[n]
        BY ONLY <2>0, <2>5
    <2> QED
        BY <2>3, <2>6
<1> HIDE DEF g
<1>6. \A k \in 1 .. N : k \in 0 .. N /\ k - 1 \in 0 .. N
    OBVIOUS
<1>7. h[0] = <<>>
    BY <1>3 DEF Iterates
<1> QED
    BY ONLY <1>3, <1>4, <1>5, <1>6, <1>7, 0 \in 0 .. N

LEMMA BytesSteps ==
    ASSUME NEW chunks, NEW N \in Nat, N = Len(chunks), NEW s,
           \A k \in 1 .. N : chunks[k].size \in Nat
    PROVE  LET own == OfStream(chunks, s, N)
           IN  /\ BytesBefore(chunks, s, 0) = 0
               /\ \A k \in 0 .. Len(own) : BytesBefore(chunks, s, k) \in Nat
               /\ \A k \in 1 .. Len(own) :
                     BytesBefore(chunks, s, k) =
                         BytesBefore(chunks, s, k - 1) + chunks[own[k]].size
<1> DEFINE own == OfStream(chunks, s, N)
           M == Len(own)
           size(k) == chunks[own[k]].size
           g == [x \in (1 .. M) \X Nat |-> x[2] + size(x[1])]
<1>0. own \in Seq(1 .. N)
    <2>1. N \in 0 .. N
        OBVIOUS
    <2>2. \A k \in 0 .. N : OfStream(chunks, s, k) \in Seq(1 .. N)
        BY OwnSteps, Zenon
    <2> QED
        BY <2>1, <2>2
<1> HIDE DEF own
<1>1. M \in Nat /\ \A k \in 1 .. M : size(k) \in Nat
    BY <1>0
<1> HIDE DEF M, size
<1>2. g \in [(1 .. M) \X Nat -> Nat]
    BY <1>1
<1>3. PICK h \in [0 .. M -> Nat] : Iterates(h, 0, g, M)
    <2> HIDE DEF g
    <2> QED
        BY <1>1, <1>2, IterationExists
<1>4. \A k \in 1 .. M : h[k] = h[k - 1] + size(k)
    <2> SUFFICES ASSUME NEW k \in 1 .. M
                 PROVE  h[k] = h[k - 1] + size(k)
        OBVIOUS
    <2>0. k - 1 \in 0 .. M
        BY <1>1
    <2>1. h[k - 1] \in Nat
        BY <1>3, <2>0
    <2>2. h[k] = g[<<k, h[k - 1]>>]
        BY <1>3 DEF Iterates
    <2> QED
        BY <2>1, <2>2
<1>5. ASSUME NEW n \in 0 .. M PROVE BytesBefore(chunks, s, n) = h[n]
    <2> DEFINE L(f) == f = [k \in 0 .. n |->
                              IF k = 0 THEN 0
                              ELSE f[k - 1] + chunks[own[k]].size]
               f == CHOOSE f : L(f)
               d == [k \in 0 .. n |-> h[k]]
    <2>0. n \in Nat /\ n <= M /\ \A k \in 0 .. n : k \in 0 .. M
        BY <1>1
    <2>1. L(d)
        <3>1. ASSUME NEW k \in 0 .. n
              PROVE  h[k] = IF k = 0 THEN 0 ELSE d[k - 1] + size(k)
            <4>1. CASE k = 0
                BY <1>3, <4>1 DEF Iterates
            <4>2. CASE k # 0
                <5>1. k - 1 \in 0 .. n /\ k \in 1 .. M
                    BY <2>0, <4>2
                <5>2. d[k - 1] = h[k - 1]
                    BY <5>1
                <5> QED
                    BY <1>4, <4>2, <5>1, <5>2
            <4> QED
                BY <4>1, <4>2
        <3> QED
            BY <3>1 DEF size
    <2>2. L(f)
        <3> HIDE DEF L, d
        <3> QED
            BY <2>1, Zenon
    <2>3. BytesBefore(chunks, s, n) = f[n]
        <3>1. BytesBefore(chunks, s, n) =
                LET oo == OfStream(chunks, s, Len(chunks))
                    bytes[k \in 0 .. n] == IF k = 0 THEN 0
                                           ELSE bytes[k - 1] + chunks[oo[k]].size
                IN  bytes[n]
            BY Zenon DEF BytesBefore
        <3> QED
            BY <3>1, Zenon DEF own
    <2> HIDE DEF f
    <2>4. f[0] = h[0] /\ \A k \in 1 .. n : f[k - 1] = h[k - 1] => f[k] = h[k]
        <3>1. /\ 0 \in 0 .. n
              /\ \A k \in 1 .. n : k \in 0 .. n /\ k # 0 /\ k \in 1 .. M
            BY <2>0
        <3>2. \A k \in 0 .. n : f[k] = IF k = 0 THEN 0 ELSE f[k - 1] + size(k)
            BY <2>2 DEF size
        <3>3. f[0] = h[0]
            BY <1>3, <3>1, <3>2 DEF Iterates
        <3> HIDE DEF L
        <3> QED
            BY <1>4, <3>1, <3>2, <3>3
    <2>5. \A k \in 0 .. n : f[k] = h[k]
        <3>1. \A F, H : F[0] = H[0] /\ (\A k \in 1 .. n : F[k - 1] = H[k - 1] => F[k] = H[k])
                        => \A k \in 0 .. n : F[k] = H[k]
            BY ONLY <2>0, SameTurns, Zenon
        <3> QED
            BY ONLY <2>4, <3>1, Zenon
    <2>6. f[n] = h[n]
        BY ONLY <2>0, <2>5
    <2> QED
        BY <2>3, <2>6
<1> HIDE DEF g
<1>6. \A k \in 1 .. M : k \in 0 .. M /\ k - 1 \in 0 .. M
    BY <1>1
<1>7. h[0] = 0 /\ 0 \in 0 .. M
    BY <1>1, <1>3 DEF Iterates
<1>8. /\ BytesBefore(chunks, s, 0) = 0
      /\ \A k \in 0 .. M : BytesBefore(chunks, s, k) \in Nat
      /\ \A k \in 1 .. M :
            BytesBefore(chunks, s, k) = BytesBefore(chunks, s, k - 1) + size(k)
    BY ONLY <1>3, <1>4, <1>5, <1>6, <1>7
<1> QED
    BY <1>8 DEF M, size, own

\* What never falls from one turn to the next never falls.
LEMMA Climbs ==
    \A N \in Nat : \A f :
        (\A k \in 0 .. N : f[k] \in Int) /\ (\A k \in 1 .. N : f[k - 1] <= f[k])
            => \A j, k \in 0 .. N : j <= k => f[j] <= f[k]
<1> SUFFICES ASSUME NEW N \in Nat, NEW f, \A k \in 0 .. N : f[k] \in Int,
                    \A k \in 1 .. N : f[k - 1] <= f[k], NEW j \in 0 .. N
             PROVE  \A k \in 0 .. N : j <= k => f[j] <= f[k]
    OBVIOUS
<1> DEFINE T == {k \in 0 .. N : j <= k /\ ~(f[j] <= f[k])}
<1> SUFFICES ASSUME T # {} PROVE FALSE
    OBVIOUS
<1>1. T \subseteq Nat
    OBVIOUS
<1>2. PICK k \in T : \A y \in T : k <= y
    <2> HIDE DEF T
    <2> QED
        BY <1>1, Smallest
<1>3. k \in 0 .. N /\ j <= k /\ ~(f[j] <= f[k]) /\ f[j] \in Int /\ f[k] \in Int
    OBVIOUS
<1>4. j # k /\ k - 1 \in 0 .. N /\ ~(k <= k - 1) /\ j <= k - 1 /\ k \in 1 .. N
    <2>1. j # k
        BY <1>3
    <2> QED
        BY <1>3, <2>1
<1>5. k - 1 \notin T
    <2> HIDE DEF T
    <2> QED
        BY <1>2, <1>4
<1>6. f[j] <= f[k - 1] /\ f[k - 1] <= f[k] /\ f[k - 1] \in Int
    BY <1>4, <1>5
<1> QED
    BY ONLY <1>3, <1>6

\* Chunks lie one behind the other, at even places.
LEMMA EndGrows ==
    ASSUME NEW chunks, NEW N \in Nat, \A k \in 1 .. N : chunks[k].size \in Nat
    PROVE  \A j, k \in 0 .. N : j <= k => EndOf(chunks, j) <= EndOf(chunks, k)
<1> DEFINE f == [k \in 0 .. N |-> EndOf(chunks, k)]
<1>1. \A k \in 0 .. N : EndOf(chunks, k) \in Nat
    BY EndSteps, Zenon
<1>2. \A k \in 1 .. N : EndOf(chunks, k) = EndOf(chunks, k - 1) + 2 + Even(chunks[k].size)
    BY EndSteps, Zenon
<1>3. \A k \in 1 .. N : Even(chunks[k].size) \in Nat
    BY EvenIsNat
<1>4. \A k \in 1 .. N : k \in 0 .. N /\ k - 1 \in 0 .. N
    OBVIOUS
<1>5. \A k \in 1 .. N : EndOf(chunks, k - 1) <= EndOf(chunks, k)
    <2> SUFFICES ASSUME NEW k \in 1 .. N
                 PROVE  EndOf(chunks, k - 1) <= EndOf(chunks, k)
        OBVIOUS
    <2> DEFINE a == EndOf(chunks, k - 1)
               b == EndOf(chunks, k)
               e == Even(chunks[k].size)
    <2>1. a \in Nat /\ b = a + 2 + e /\ e \in Nat
        BY <1>1, <1>2, <1>3, <1>4
    <2> HIDE DEF a, b, e
    <2>2. a <= b
        BY <2>1
    <2> QED
        BY <2>2 DEF a, b
<1>6. \A k \in 0 .. N : f[k] = EndOf(chunks, k)
    OBVIOUS
<1> HIDE DEF f
<1>7. (\A k \in 0 .. N : f[k] \in Int) /\ (\A k \in 1 .. N : f[k - 1] <= f[k])
    <2>1. \A k \in 0 .. N : f[k] \in Int
        BY <1>1, <1>6
    <2>2. \A k \in 1 .. N : f[k - 1] <= f[k]
        BY <1>4, <1>5, <1>6
    <2> QED
        BY <2>1, <2>2
<1>8. \A j, k \in 0 .. N : j <= k => f[j] <= f[k]
    BY <1>7, Climbs, Zenon
<1> QED
    BY <1>6, <1>8

LEMMA EndEven ==
    ASSUME NEW chunks, NEW N \in Nat, \A k \in 1 .. N : chunks[k].size \in Nat
    PROVE  \A k \in 0 .. N : EndOf(chunks, k) % 2 = 0
<1> DEFINE f == [k \in 0 .. N |-> EndOf(chunks, k) % 2]
           h == [k \in 0 .. N |-> 0]
<1>1. \A k \in 0 .. N : EndOf(chunks, k) \in Nat
    BY EndSteps, Zenon
<1>2. \A k \in 1 .. N : EndOf(chunks, k) = EndOf(chunks, k - 1) + 2 + Even(chunks[k].size)
    BY EndSteps, Zenon
<1>3. \A k \in 1 .. N : Even(chunks[k].size) \in Nat /\ Even(chunks[k].size) % 2 = 0
    BY EvenIsNat
<1>4. \A k \in 1 .. N : k \in 0 .. N /\ k - 1 \in 0 .. N
    OBVIOUS
<1>5. \A a, b \in Nat : a % 2 = 0 /\ b % 2 = 0 => (a + 2 + b) % 2 = 0
    OBVIOUS
<1>6. ASSUME NEW k \in 1 .. N, f[k - 1] = h[k - 1] PROVE f[k] = h[k]
    <2> DEFINE a == EndOf(chunks, k - 1)
               b == EndOf(chunks, k)
               e == Even(chunks[k].size)
    <2>1. a \in Nat /\ b = a + 2 + e /\ e \in Nat /\ e % 2 = 0
        BY <1>1, <1>2, <1>3, <1>4
    <2>2. a % 2 = 0
        BY <1>4, <1>6
    <2> HIDE DEF a, b, e
    <2>3. b % 2 = 0
        BY ONLY <1>5, <2>1, <2>2
    <2> QED
        BY <1>4, <2>3 DEF b
<1>7. EndOf(chunks, 0) = HeaderSize
    BY EndSteps, Zenon
<1>8. f[0] = h[0]
    BY <1>7, HeaderAssumption
<1>9. \A k \in 0 .. N : f[k] = EndOf(chunks, k) % 2 /\ h[k] = 0
    OBVIOUS
<1> HIDE DEF f, h
<1>10. \A k \in 0 .. N : f[k] = h[k]
    BY <1>6, <1>8, SameTurns, Zenon
<1> QED
    BY <1>9, <1>10

\* Where chunks end depends only on what is before.
LEMMA EndSame ==
    ASSUME NEW a, NEW b, NEW N \in Nat,
           \A k \in 1 .. N : a[k] = b[k] /\ a[k].size \in Nat
    PROVE  \A k \in 0 .. N : EndOf(a, k) = EndOf(b, k)
<1> DEFINE f == [k \in 0 .. N |-> EndOf(a, k)]
           h == [k \in 0 .. N |-> EndOf(b, k)]
<1>1. \A k \in 1 .. N : b[k].size \in Nat
    OBVIOUS
<1>2. /\ EndOf(a, 0) = HeaderSize
      /\ \A k \in 1 .. N : EndOf(a, k) = EndOf(a, k - 1) + 2 + Even(a[k].size)
    BY EndSteps, Zenon
<1>3. /\ EndOf(b, 0) = HeaderSize
      /\ \A k \in 1 .. N : EndOf(b, k) = EndOf(b, k - 1) + 2 + Even(b[k].size)
    BY <1>1, EndSteps, Zenon
<1>4. \A k \in 1 .. N : k \in 0 .. N /\ k - 1 \in 0 .. N
    OBVIOUS
<1>5. \A k \in 0 .. N : f[k] = EndOf(a, k) /\ h[k] = EndOf(b, k)
    OBVIOUS
<1>6. 0 \in 0 .. N
    OBVIOUS
<1> HIDE DEF f, h
<1>7. f[0] = h[0]
    BY <1>2, <1>3, <1>5, <1>6
<1>8. \A k \in 1 .. N : f[k - 1] = h[k - 1] => f[k] = h[k]
    BY <1>2, <1>3, <1>4, <1>5
<1>9. \A k \in 0 .. N : f[k] = h[k]
    <2>1. \A F, H : F[0] = H[0] /\ (\A k \in 1 .. N : F[k - 1] = H[k - 1] => F[k] = H[k])
                    => \A k \in 0 .. N : F[k] = H[k]
        BY ONLY N \in Nat, SameTurns, Zenon
    <2> QED
        BY ONLY <1>7, <1>8, <2>1, Zenon
<1> QED
    BY <1>5, <1>9

\* The chunks a stream was given first are those it was given later as well.
LEMMA OwnPrefix ==
    ASSUME NEW chunks, NEW N \in Nat, NEW s, NEW k \in 0 .. N
    PROVE  LET part == OfStream(chunks, s, k)
               own == OfStream(chunks, s, N)
           IN  Len(part) <= Len(own) /\ \A m \in 1 .. Len(part) : own[m] = part[m]
<1> DEFINE part == OfStream(chunks, s, k)
           Ext(j) == /\ Len(part) <= Len(OfStream(chunks, s, j))
                     /\ \A m \in 1 .. Len(part) : OfStream(chunks, s, j)[m] = part[m]
           T == {j \in 0 .. N : j >= k /\ ~Ext(j)}
<1>1. \A j \in 0 .. N : OfStream(chunks, s, j) \in Seq(1 .. N)
    BY OwnSteps, Zenon
<1>2. \A j \in 1 .. N : OfStream(chunks, s, j) =
                     IF chunks[j].stream = s THEN Append(OfStream(chunks, s, j - 1), j)
                     ELSE OfStream(chunks, s, j - 1)
    BY OwnSteps, Zenon
<1>3. ASSUME T # {} PROVE FALSE
    <2>1. T \subseteq Nat
        OBVIOUS
    <2>2. PICK j \in T : \A y \in T : j <= y
        <3> HIDE DEF T
        <3> QED
            BY <1>3, <2>1, Smallest
    <2>3. j \in 0 .. N /\ j >= k /\ ~Ext(j)
        OBVIOUS
    <2>4. j # k
        <3>1. Ext(k)
            <4>1. Len(part) \in Nat
                BY <1>1
            <4> QED
                BY <4>1
        <3> HIDE DEF Ext
        <3> QED
            BY <2>3, <3>1
    <2>5. j - 1 \in 0 .. N /\ j - 1 >= k /\ ~(j <= j - 1) /\ j \in 1 .. N
        BY <2>3, <2>4
    <2>6. j - 1 \notin T
        <3> HIDE DEF T
        <3> QED
            BY <2>2, <2>5
    <2>7. Ext(j - 1)
        <3> HIDE DEF Ext
        <3> QED
            BY <2>5, <2>6
    <2> DEFINE q == OfStream(chunks, s, j - 1)
               r == OfStream(chunks, s, j)
    <2>8. q \in Seq(1 .. N) /\ part \in Seq(1 .. N) /\ (r = Append(q, j) \/ r = q)
        BY <1>1, <1>2, <2>5
    <2>9. Len(part) <= Len(q) /\ \A m \in 1 .. Len(part) : q[m] = part[m]
        BY <2>7
    <2> HIDE DEF q, r, part
    <2>10. Len(part) <= Len(r) /\ \A m \in 1 .. Len(part) : r[m] = part[m]
        <3>1. CASE r = q
            BY <2>9, <3>1
        <3>2. CASE r = Append(q, j)
            <4>1. /\ Len(q) \in Nat /\ Len(part) \in Nat /\ Len(r) = Len(q) + 1
                  /\ \A m \in 1 .. Len(q) : r[m] = q[m]
                BY <2>8, <3>2
            <4> QED
                BY ONLY <2>9, <4>1
        <3> QED
            BY <2>8, <3>1, <3>2
    <2> QED
        BY <2>3, <2>10 DEF r
<1>4. N \in 0 .. N /\ N >= k
    OBVIOUS
<1>5. Ext(N)
    <2> HIDE DEF Ext
    <2> QED
        BY <1>3, <1>4
<1> QED
    BY <1>5

LEMMA BytesGrow ==
    ASSUME NEW chunks, NEW N \in Nat, N = Len(chunks), NEW s,
           \A k \in 1 .. N : chunks[k].size \in Nat
    PROVE  \A j, k \in 0 .. Len(OfStream(chunks, s, N)) :
               j <= k => BytesBefore(chunks, s, j) <= BytesBefore(chunks, s, k)
<1> DEFINE own == OfStream(chunks, s, N)
           M == Len(own)
           f == [k \in 0 .. M |-> BytesBefore(chunks, s, k)]
<1>0. own \in Seq(1 .. N)
    <2>1. N \in 0 .. N
        OBVIOUS
    <2>2. \A k \in 0 .. N : OfStream(chunks, s, k) \in Seq(1 .. N)
        BY OwnSteps, Zenon
    <2> QED
        BY <2>1, <2>2
<1>1. /\ \A k \in 0 .. M : BytesBefore(chunks, s, k) \in Nat
      /\ \A k \in 1 .. M : BytesBefore(chunks, s, k) =
                         BytesBefore(chunks, s, k - 1) + chunks[own[k]].size
    BY BytesSteps, Zenon
<1> HIDE DEF own
<1>2. M \in Nat /\ \A k \in 1 .. M : chunks[own[k]].size \in Nat
    BY <1>0
<1> HIDE DEF M
<1>4. \A k \in 1 .. M : k \in 0 .. M /\ k - 1 \in 0 .. M
    BY <1>2
<1>5. \A k \in 1 .. M : BytesBefore(chunks, s, k - 1) <= BytesBefore(chunks, s, k)
    <2> SUFFICES ASSUME NEW k \in 1 .. M
                 PROVE  BytesBefore(chunks, s, k - 1) <= BytesBefore(chunks, s, k)
        OBVIOUS
    <2> DEFINE a == BytesBefore(chunks, s, k - 1)
               b == BytesBefore(chunks, s, k)
               e == chunks[own[k]].size
    <2>1. a \in Nat /\ b = a + e /\ e \in Nat
        BY <1>1, <1>2, <1>4
    <2> HIDE DEF a, b, e
    <2>2. a <= b
        BY <2>1
    <2> QED
        BY <2>2 DEF a, b
<1>6. \A k \in 0 .. M : f[k] = BytesBefore(chunks, s, k)
    OBVIOUS
<1> HIDE DEF f
<1>7. (\A k \in 0 .. M : f[k] \in Int) /\ (\A k \in 1 .. M : f[k - 1] <= f[k])
    <2>1. \A k \in 0 .. M : f[k] \in Int
        BY <1>1, <1>6
    <2>2. \A k \in 1 .. M : f[k - 1] <= f[k]
        BY <1>4, <1>5, <1>6
    <2> QED
        BY <2>1, <2>2
<1>8. \A j, k \in 0 .. M : j <= k => f[j] <= f[k]
    BY <1>2, <1>7, Climbs, Zenon
<1>9. \A j, k \in 0 .. M : j <= k => BytesBefore(chunks, s, j) <= BytesBefore(chunks, s, k)
    BY <1>6, <1>8
<1> QED
    BY <1>9 DEF M, own

-----------------------------------------------------------------------------
(***************************************************************************)
(* What the writes of a call that are still to be done make of the file    *)
(* and of the position in it.                                              *)
(***************************************************************************)
FileNames == {"put", "write", "direct", "seek", "seekEnd"}

Exec(s, x) ==
    IF x.do = "put" THEN <<File!Overlay(s[1], s[2], <<x.cell>>), s[2] + 1>>
    ELSE IF x.do \in {"write", "direct"}
    THEN <<File!Overlay(s[1], s[2], x.data), s[2] + Len(x.data)>>
    ELSE IF x.do = "seek" THEN <<s[1], x.to>>
    ELSE <<s[1], Len(s[1])>>

Runs(f, l) == \A i \in 1 .. Len(l) : f[i] = Exec(f[i - 1], l[i])

Yields(l, s, e) == \E f : f[0] = s /\ f[Len(l)] = e /\ Runs(f, l)

LEMMA YieldsNone == \A s : Yields(<<>>, s, s)
<1> SUFFICES ASSUME NEW s PROVE Yields(<<>>, s, s)
    OBVIOUS
<1> DEFINE f == [i \in {0} |-> s]
<1>1. f[0] = s /\ f[Len(<<>>)] = s /\ Runs(f, <<>>)
    BY DEF Runs
<1> QED
    BY <1>1 DEF Yields

LEMMA YieldsOne == \A x, s : Yields(<<x>>, s, Exec(s, x))
<1> SUFFICES ASSUME NEW x, NEW s PROVE Yields(<<x>>, s, Exec(s, x))
    OBVIOUS
<1> DEFINE e == Exec(s, x)
           l == <<x>>
           f == [i \in {0, 1} |-> IF i = 0 THEN s ELSE e]
<1>1. Len(l) = 1 /\ l[1] = x /\ f[0] = s /\ f[1] = e
    OBVIOUS
<1> HIDE DEF l, f
<1>2. Runs(f, l)
    BY <1>1 DEF Runs, e
<1>3. Yields(l, s, e)
    BY <1>1, <1>2 DEF Yields
<1> QED
    BY <1>3 DEF l, e

LEMMA YieldsJoin ==
    ASSUME NEW S, NEW l \in Seq(S), NEW m \in Seq(S), NEW s, NEW u, NEW e,
           Yields(l, s, u), Yields(m, u, e)
    PROVE  Yields(l \o m, s, e)
<1>1. PICK f : f[0] = s /\ f[Len(l)] = u /\ Runs(f, l)
    BY DEF Yields
<1>2. PICK h : h[0] = u /\ h[Len(m)] = e /\ Runs(h, m)
    BY DEF Yields
<1> DEFINE n == Len(l)
           k == Len(m)
           j == [i \in 0 .. n + k |-> IF i <= n THEN f[i] ELSE h[i - n]]
           a == l \o m
<1>3. /\ n \in Nat /\ k \in Nat /\ Len(a) = n + k
      /\ \A i \in 1 .. n + k : a[i] = IF i <= n THEN l[i] ELSE m[i - n]
    OBVIOUS
<1>4. /\ \A i \in 1 .. n : f[i] = Exec(f[i - 1], l[i])
      /\ \A i \in 1 .. k : h[i] = Exec(h[i - 1], m[i])
    BY <1>1, <1>2 DEF Runs
<1> HIDE DEF a
<1>5. \A i \in 0 .. n + k : j[i] = IF i <= n THEN f[i] ELSE h[i - n]
    OBVIOUS
<1>6. f[0] = s /\ f[n] = u /\ h[0] = u /\ h[k] = e
    BY <1>1, <1>2
<1> HIDE DEF j, n, k
<1>7. \A i \in n .. n + k : j[i] = h[i - n]
    BY <1>3, <1>5, <1>6
<1>8. ASSUME NEW i \in 1 .. n + k PROVE j[i] = Exec(j[i - 1], a[i])
    <2>1. CASE i <= n
        <3>1. i \in 1 .. n /\ i \in 0 .. n + k /\ i - 1 \in 0 .. n + k /\ i - 1 <= n
            BY <1>3, <2>1
        <3> QED
            BY <1>3, <1>4, <1>5, <2>1, <3>1
    <2>2. CASE i > n
        <3>1. /\ i \in n .. n + k /\ i - 1 \in n .. n + k /\ i - n \in 1 .. k
              /\ (i - 1) - n = (i - n) - 1 /\ ~(i <= n)
            BY <1>3, <2>2
        <3>2. j[i] = h[i - n] /\ j[i - 1] = h[(i - n) - 1] /\ a[i] = m[i - n]
            BY <1>3, <1>7, <3>1
        <3>3. h[i - n] = Exec(h[(i - n) - 1], m[i - n])
            BY <1>4, <3>1
        <3> QED
            BY <3>2, <3>3
    <2> QED
        BY <1>3, <2>1, <2>2
<1>9. j[0] = s /\ j[n + k] = e
    <2>1. 0 \in 0 .. n + k /\ 0 <= n /\ n + k \in n .. n + k /\ (n + k) - n = k
        BY <1>3
    <2> QED
        BY <1>5, <1>6, <1>7, <2>1
<1>10. Runs(j, a)
    BY <1>3, <1>8 DEF Runs
<1>11. Yields(a, s, e)
    BY <1>3, <1>9, <1>10 DEF Yields
<1> QED
    BY <1>11 DEF a

LEMMA YieldsRest ==
    ASSUME NEW S, NEW l \in Seq(S), l # <<>>, NEW s, NEW e, Yields(l, s, e)
    PROVE  Yields(Tail(l), Exec(s, Head(l)), e)
<1>1. PICK f : f[0] = s /\ f[Len(l)] = e /\ Runs(f, l)
    BY DEF Yields
<1> DEFINE n == Len(l)
           m == Tail(l)
           h == [i \in 0 .. n - 1 |-> f[i + 1]]
<1>2. /\ n \in Nat /\ n >= 1 /\ Len(m) = n - 1 /\ Head(l) = l[1]
      /\ \A i \in 1 .. n - 1 : m[i] = l[i + 1]
    OBVIOUS
<1>3. \A i \in 0 .. n - 1 : h[i] = f[i + 1]
    OBVIOUS
<1>4. \A i \in 1 .. n : f[i] = Exec(f[i - 1], l[i])
    BY <1>1 DEF Runs
<1>5. f[0] = s /\ f[n] = e
    BY <1>1
<1> HIDE DEF n, m, h
<1>6. h[0] = Exec(s, Head(l)) /\ h[n - 1] = e
    <2>1. 0 \in 0 .. n - 1 /\ n - 1 \in 0 .. n - 1 /\ (n - 1) + 1 = n /\ 1 \in 1 .. n
          /\ 1 - 1 = 0 /\ 0 + 1 = 1
        BY <1>2
    <2>2. h[0] = f[1] /\ h[n - 1] = f[n] /\ f[1] = Exec(f[0], l[1])
        BY <1>3, <1>4, <2>1
    <2> QED
        BY <1>2, <1>5, <2>2
<1>7. ASSUME NEW i \in 1 .. n - 1 PROVE h[i] = Exec(h[i - 1], m[i])
    <2>1. i \in 0 .. n - 1 /\ i - 1 \in 0 .. n - 1 /\ i + 1 \in 1 .. n
          /\ (i - 1) + 1 = i /\ (i + 1) - 1 = i
        BY <1>2
    <2>2. h[i] = f[i + 1] /\ h[i - 1] = f[i] /\ m[i] = l[i + 1]
        BY <1>2, <1>3, <2>1
    <2>3. f[i + 1] = Exec(f[i], l[i + 1])
        BY <1>4, <2>1
    <2> QED
        BY <2>2, <2>3
<1>8. Runs(h, m)
    BY <1>2, <1>7 DEF Runs
<1>9. Yields(m, Exec(s, Head(l)), e)
    BY <1>2, <1>6, <1>8 DEF Yields
<1> QED
    BY <1>9 DEF m

\* One statement, and then the others
LEMMA YieldsThen ==
    ASSUME NEW S, NEW x \in S, NEW m \in Seq(S), NEW s, NEW e,
           Yields(m, Exec(s, x), e)
    PROVE  Yields(<<x>> \o m, s, e)
<1>1. <<x>> \in Seq(S)
    OBVIOUS
<1>2. Yields(<<x>>, s, Exec(s, x))
    BY YieldsOne
<1> DEFINE l == <<x>>
<1> HIDE DEF l
<1>3. Yields(l \o m, s, e)
    BY <1>1, <1>2, YieldsJoin DEF l
<1> QED
    BY <1>3 DEF l

\* Cells that are put one by one are there as if they were written at once.
LEMMA YieldsPuts ==
    ASSUME NEW cells \in Seq(Cell), NEW w \in Seq(Cell), NEW t \in 0 .. Len(w)
    PROVE  Yields(PutAll(cells), <<w, t>>,
                  <<File!Overlay(w, t, cells), t + Len(cells)>>)
<1> DEFINE n == Len(cells)
           part(i) == SubSeq(cells, 1, i)
           over(x) == File!Overlay(w, t, x)
           f == [i \in 0 .. n |-> <<over(part(i)), t + i>>]
           l == PutAll(cells)
<1>0. \A x, y \in Seq(Cell) :
          File!Overlay(File!Overlay(w, t, x), t + Len(x), y) = File!Overlay(w, t, x \o y)
    BY OverlayTwice
<1>1. n \in Nat /\ t \in Nat /\ \A i \in 1 .. n : cells[i] \in Cell
    OBVIOUS
<1>2. \A i \in 0 .. n : part(i) \in Seq(Cell) /\ Len(part(i)) = i
    <2> SUFFICES ASSUME NEW i \in 0 .. n
                 PROVE  part(i) \in Seq(Cell) /\ Len(part(i)) = i
        OBVIOUS
    <2>1. 0 + i = i /\ 0 + 1 = 1 /\ i \in Nat /\ i <= Len(cells)
        OBVIOUS
    <2>2. /\ SubSeq(cells, 0 + 1, 0 + i) \in Seq(Cell)
          /\ Len(SubSeq(cells, 0 + 1, 0 + i)) = i
        BY <2>1, PartFacts
    <2> QED
        BY <2>1, <2>2
<1>3. \A i \in 1 .. n : part(i - 1) \o <<cells[i]>> = part(i)
    <2> SUFFICES ASSUME NEW i \in 1 .. n
                 PROVE  part(i - 1) \o <<cells[i]>> = part(i)
        OBVIOUS
    <2> QED
        OBVIOUS
<1>4. part(0) = <<>> /\ part(n) = cells
    OBVIOUS
<1>5. Len(l) = n /\ \A i \in 1 .. n : l[i] = [do |-> "put", cell |-> cells[i]]
    BY <1>1 DEF PutAll
<1>6. \A i \in 0 .. n : f[i] = <<over(part(i)), t + i>>
    OBVIOUS
<1> HIDE DEF n, part, f, l, over
<1>7. f[0] = <<w, t>>
    <2>1. over(<<>>) = w
        BY OverlayEmpty DEF over
    <2> QED
        BY <1>1, <1>4, <1>6, <2>1
<1>8. f[n] = <<File!Overlay(w, t, cells), t + n>>
    BY <1>1, <1>4, <1>6 DEF over
<1>9. ASSUME NEW i \in 1 .. n PROVE f[i] = Exec(f[i - 1], l[i])
    <2> DEFINE p == part(i - 1)
               c == <<cells[i]>>
    <2>1. i - 1 \in 0 .. n /\ i \in 0 .. n /\ i \in Nat
        BY <1>1
    <2>2. p \in Seq(Cell) /\ Len(p) = i - 1 /\ c \in Seq(Cell)
        BY <1>1, <1>2, <2>1
    <2>3. f[i - 1] = <<over(p), t + (i - 1)>> /\ f[i] = <<over(p \o c), t + i>>
        BY <1>3, <1>6, <2>1
    <2>4. l[i].do = "put" /\ l[i].cell = cells[i]
        BY <1>5
    <2> HIDE DEF p
    <2>5. Exec(f[i - 1], l[i]) =
              <<File!Overlay(over(p), t + (i - 1), c), (t + (i - 1)) + 1>>
        BY <2>3, <2>4 DEF Exec
    <2> HIDE DEF c
    <2>6. File!Overlay(over(p), t + (i - 1), c) = over(p \o c)
        <3>1. File!Overlay(File!Overlay(w, t, p), t + Len(p), c)
                  = File!Overlay(w, t, p \o c)
            BY ONLY <1>0, <2>2
        <3> QED
            BY <2>2, <3>1 DEF over
    <2>7. (t + (i - 1)) + 1 = t + i
        BY <1>1, <2>1
    <2> QED
        BY <2>3, <2>5, <2>6, <2>7
<1>10. Runs(f, l)
    BY <1>5, <1>9 DEF Runs
<1>11. Yields(l, <<w, t>>, <<File!Overlay(w, t, cells), t + n>>)
    BY <1>5, <1>7, <1>8, <1>10 DEF Yields
<1> QED
    BY <1>11 DEF n, l

LEMMA YieldsPut ==
    ASSUME NEW c \in Cell, NEW w \in Seq(Cell), NEW t \in 0 .. Len(w)
    PROVE  Yields(Put1(c), <<w, t>>, <<File!Overlay(w, t, <<c>>), t + 1>>)
<1> DEFINE x == [do |-> "put", cell |-> c]
<1>1. x.do = "put" /\ x.cell = c
    OBVIOUS
<1> HIDE DEF x
<1>2. Exec(<<w, t>>, x) = <<File!Overlay(w, t, <<c>>), t + 1>>
    BY <1>1 DEF Exec
<1>3. Yields(<<x>>, <<w, t>>, Exec(<<w, t>>, x))
    BY YieldsOne
<1> QED
    BY <1>2, <1>3 DEF Put1, x

LEMMA YieldsWrites ==
    ASSUME NEW d \in Seq(Cell), NEW w \in Seq(Cell), NEW t \in 0 .. Len(w)
    PROVE  Yields(WriteAll(d), <<w, t>>, <<File!Overlay(w, t, d), t + Len(d)>>)
<1>1. CASE d = <<>>
    <2>1. WriteAll(d) = <<>> /\ Len(d) = 0 /\ t + 0 = t
        BY <1>1 DEF WriteAll
    <2>2. File!Overlay(w, t, d) = w
        BY <1>1, OverlayEmpty
    <2>3. <<File!Overlay(w, t, d), t + Len(d)>> = <<w, t>>
        BY <2>1, <2>2
    <2> QED
        BY <2>1, <2>3, YieldsNone
<1>2. CASE d # <<>>
    <2> DEFINE x == [do |-> "write", data |-> d]
    <2>1. x.do = "write" /\ x.data = d
        OBVIOUS
    <2>2. WriteAll(d) = <<x>>
        BY <1>2 DEF WriteAll
    <2> HIDE DEF x
    <2>3. Exec(<<w, t>>, x) = <<File!Overlay(w, t, d), t + Len(d)>>
        BY <2>1 DEF Exec
    <2>4. Yields(<<x>>, <<w, t>>, Exec(<<w, t>>, x))
        BY YieldsOne
    <2> QED
        BY <2>2, <2>3, <2>4
<1> QED
    BY <1>1, <1>2

LEMMA YieldsGo == \A n, w, t : Yields(Go(n), <<w, t>>, <<w, n>>)
<1> SUFFICES ASSUME NEW n, NEW w, NEW t
             PROVE  Yields(Go(n), <<w, t>>, <<w, n>>)
    OBVIOUS
<1> DEFINE x == [do |-> "seek", to |-> n]
<1>1. x.do = "seek" /\ x.to = n
    OBVIOUS
<1> HIDE DEF x
<1>2. Exec(<<w, t>>, x) = <<w, n>>
    BY <1>1 DEF Exec
<1>3. Yields(<<x>>, <<w, t>>, Exec(<<w, t>>, x))
    BY YieldsOne
<1> QED
    BY <1>2, <1>3 DEF Go, x

LEMMA YieldsEnd == \A w, t : Yields(Call("seekEnd"), <<w, t>>, <<w, Len(w)>>)
<1> SUFFICES ASSUME NEW w, NEW t
             PROVE  Yields(Call("seekEnd"), <<w, t>>, <<w, Len(w)>>)
    OBVIOUS
<1> DEFINE x == [do |-> "seekEnd"]
<1>1. x.do = "seekEnd"
    OBVIOUS
<1> HIDE DEF x
<1>2. Exec(<<w, t>>, x) = <<w, Len(w)>>
    BY <1>1 DEF Exec
<1>3. Yields(<<x>>, <<w, t>>, Exec(<<w, t>>, x))
    BY YieldsOne
<1> QED
    BY <1>2, <1>3 DEF Call, x

\* Behind the end a write makes the file longer.
LEMMA OverlayEnd ==
    ASSUME NEW w \in Seq(Cell), NEW d \in Seq(Cell)
    PROVE  /\ File!Overlay(w, Len(w), d) \in Seq(Cell)
           /\ Len(File!Overlay(w, Len(w), d)) = Len(w) + Len(d)
           /\ \A i \in 1 .. Len(w) : File!Overlay(w, Len(w), d)[i] = w[i]
           /\ \A i \in 1 .. Len(d) : File!Overlay(w, Len(w), d)[Len(w) + i] = d[i]
<1> DEFINE o == Len(w)
           v == File!Overlay(w, o, d)
           n == IF o + Len(d) > Len(w) THEN o + Len(d) ELSE Len(w)
<1>1. o \in 0 .. Len(w) /\ o \in Nat /\ Len(d) \in Nat /\ n = o + Len(d)
    OBVIOUS
<1>2. /\ v \in Seq(Cell) /\ Len(v) = n
      /\ \A i \in 1 .. n : v[i] = IF i > o /\ i <= o + Len(d) THEN d[i - o] ELSE w[i]
    BY <1>1, OverlayFacts
<1> HIDE DEF v, n
<1>3. \A i \in 1 .. o : v[i] = w[i]
    BY <1>1, <1>2
<1>4. \A i \in 1 .. Len(d) : v[o + i] = d[i]
    <2> SUFFICES ASSUME NEW i \in 1 .. Len(d) PROVE v[o + i] = d[i]
        OBVIOUS
    <2>1. o + i \in 1 .. n /\ o + i > o /\ o + i <= o + Len(d) /\ (o + i) - o = i
        BY <1>1
    <2> QED
        BY <1>2, <2>1
<1> QED
    BY <1>1, <1>2, <1>3, <1>4 DEF v

-----------------------------------------------------------------------------
(***************************************************************************)
(* A file on its way to the reader: what is in it at each stage of a call. *)
(***************************************************************************)
\* A chunk whose size neither the offsets nor the reader's limit refuse; what is
\* given to a stream that does not encode is not taken from an output buffer.
ChunkOK(c) == /\ c \in Chunk
              /\ MaxOffset + 2 + Even(c.size) < OffsetSpan
              /\ c.size <= MaxPacketSize
              /\ setup[c.stream].encoder = FALSE => c.encoding = 0

ChunksOK(chunks) == /\ chunks \in Seq(Chunk)
                    /\ \A k \in 1 .. Len(chunks) : ChunkOK(chunks[k])

Quiet == \A s \in Streams : setup[s].encoder = FALSE =>
                                running[s] = FALSE /\ encoding[s] = 0

\* The payloads of chunks that are not encoded are where they were put.
Held(w, chunks) ==
    \A k \in 1 .. Len(chunks) : setup[chunks[k].stream].encoder = FALSE =>
        \A i \in 1 .. chunks[k].size :
            w[BeginOf(chunks, k) + 2 + i] = <<"byte", chunks[k].number>>

\* The file behind its last chunk
Grown(w, t, chunks) == /\ Len(w) = EndOf(chunks, Len(chunks)) /\ t = Len(w)
                       /\ t < OffsetSpan
                       /\ ChunksOK(chunks) /\ Held(w, chunks)

EntryOf(chunks, k) == [stream |-> chunks[k].stream, key |-> chunks[k].key,
                       offset |-> BeginOf(chunks, k) - (HeaderSize - 1),
                       size |-> chunks[k].size]

IndexHas(n) == /\ Len(index) = n
               /\ \A k \in 1 .. n : index[k] = EntryOf(stored, k)

AtRest(w, t) ==
    IF status = 0 THEN stored = <<>> /\ index = <<>> /\ w = <<>> /\ t = 0
    ELSE stored # <<>> /\ Grown(w, t, stored) /\ IndexHas(Len(stored))

Locating(w, t, x) == /\ x.do = "locate" /\ status = 1 /\ ChunkOK(x.chunk)
                     /\ Grown(w, t, stored) /\ IndexHas(Len(stored))

Entering(w, t, x) == /\ x.do = "entry" /\ status = 1 /\ stored # <<>>
                     /\ x.chunk = stored[Len(stored)]
                     /\ x.offset = BeginOf(stored, Len(stored)) - (HeaderSize - 1)
                     /\ Grown(w, t, stored) /\ IndexHas(Len(stored) - 1)

-----------------------------------------------------------------------------
\* What is left of a call when its writes are done: chunks, stops, a finish
\* that is not behind another, nor behind a chunk that would begin a file.
CallNames == {"chunk", "count", "stop", "finish", "init", "closed"}

Calls(q) == \A i \in 1 .. Len(q) :
                /\ q[i].do \in CallNames
                /\ q[i].do \in {"chunk", "count"} => ChunkOK(q[i].chunk)

NoFinish(q) == \A i \in 1 .. Len(q) : q[i].do # "finish"

Ends(q, n) == \E j \in 1 .. Len(q) : j > n /\ q[j].do \in {"init", "closed"}

\* What may be done before a finish
Before(x) == x.do \in {"stop", "count", "chunk"} /\ (x.do = "chunk" => x.chunk.key = FALSE)

InOrder(q) == \A i \in 1 .. Len(q) : q[i].do = "finish" =>
                  Ends(q, i) /\ \A j \in 1 .. i - 1 : Before(q[j])

Closing(q) == Calls(q) /\ NoFinish(q) /\ Ends(q, 0)

-----------------------------------------------------------------------------
\* The headers as WriteHeaders leaves them in a file of chunks up to `end'
Headed(w, end) ==
    LET n == Len(setup)
    IN  /\ w[1] = Id("RIFF") /\ w[3] = Id("hdrl") /\ w[4] = Number(4 * n)
        /\ \A s \in 1 .. n : w[4 * s + 1] = Id("strl") /\ w[4 * s + 2] = Number(2)
        /\ w[4 * n + 5] = Id("JUNK") /\ w[4 * n + 6] = Number(HeaderSize - 8 - 4 * n)
        /\ w[HeaderSize - 1] = Id("movi") /\ w[HeaderSize] = Number(end - HeaderSize)

\* A finished file: headers, chunks, and the index behind them
Finished(w, chunks) ==
    LET n == Len(chunks)
        end == EndOf(chunks, n)
    IN  /\ n > 0 /\ ChunksOK(chunks) /\ Held(w, chunks)
        /\ Len(w) = end + 2 + 4 * n
        /\ Headed(w, end)
        /\ w[end + 1] = Id("idx1") /\ w[end + 2] = Number(4 * n)
        /\ \A k \in 1 .. n : \A j \in 1 .. 4 :
               w[end + 4 * k - 2 + j] = EntryCells(EntryOf(chunks, k))[j]

\* A file that was given nothing has no headers.
Nothing(w) == Len(w) > 0 /\ w[1] # Id("RIFF")

Ended(w) == IF status = 0 THEN stored = <<>> /\ Nothing(w) ELSE Finished(w, stored)

-----------------------------------------------------------------------------
\* A finish, and what comes behind it
AfterRiffSize(q) == Call("delete") \o q
AfterIndex(q) == Call("riffSize") \o AfterRiffSize(q)
AfterHeaders(q) == Call("index") \o AfterIndex(q)
AfterFinish(q) == Call("headers") \o AfterHeaders(q)

WithoutFile(r) == file = "none" /\ Closing(r)

Resting(w, t, r) == file = "open" /\ Calls(r) /\ InOrder(r) /\ AtRest(w, t)

Amid(w, t, r) == /\ file = "open" /\ r # <<>>
                 /\ Calls(Tail(r)) /\ InOrder(Tail(r))
                 /\ \/ Locating(w, t, Head(r))
                    \/ Entering(w, t, Head(r))
                    \/ Head(r).do = "headers" /\ AtRest(w, t)

Finishing(w, t, r) ==
    /\ file = "open"
    /\ \E q \in Seq(Statement) : Closing(q) /\
          \/ r = AfterFinish(q) /\ AtRest(w, t)
          \/ r = AfterHeaders(q) /\ AtRest(w, t) /\ (status = 1 => Headed(w, Len(w)))
          \/ r = AfterIndex(q) /\ Ended(w)
          \/ r = AfterRiffSize(q) /\ Ended(w)

Stage(w, t, r) == \/ WithoutFile(r) \/ Resting(w, t, r)
                  \/ Amid(w, t, r) \/ Finishing(w, t, r)

FileOK(f) == /\ f.disk \in Seq(Cell)
             /\ IF f.chunks = <<>> THEN Nothing(f.disk) ELSE Finished(f.disk, f.chunks)

FilesOK == \A n \in 1 .. Len(files) : FileOK(files[n])

\* The call has writes still to do, and goes on when they are done.
Pending == \E l, r \in Seq(Statement), w \in Seq(Cell) : \E t \in 0 .. Len(w) :
               /\ todo = l \o r
               /\ \A i \in 1 .. Len(l) : l[i].do \in FileNames
               /\ Yields(l, <<Whole, Tell>>, <<w, t>>)
               /\ Stage(w, t, r)

FilingInv == /\ FileInv /\ WriterInv /\ Quiet
             /\ stored \in Seq(Chunk) /\ files \in Seq([disk : Seq(Cell), chunks : Seq(Chunk)])
             /\ FilesOK
             /\ phase = "open" => Pending

-----------------------------------------------------------------------------
(* Statements that are left *)
LEMMA CallHead ==
    \A S, name : \A q \in Seq(S) :
        Call(name) \o q # <<>> /\ Head(Call(name) \o q) = [do |-> name]
        /\ Tail(Call(name) \o q) = q
<1> SUFFICES ASSUME NEW S, NEW name, NEW q \in Seq(S)
             PROVE  Call(name) \o q # <<>> /\ Head(Call(name) \o q) = [do |-> name]
                    /\ Tail(Call(name) \o q) = q
    OBVIOUS
<1> DEFINE x == [do |-> name]
<1>1. Call(name) = <<x>>
    BY DEF Call
<1> HIDE DEF x
<1>2. <<x>> \o q # <<>> /\ Head(<<x>> \o q) = x /\ Tail(<<x>> \o q) = q
    OBVIOUS
<1> QED
    BY <1>1, <1>2 DEF x

LEMMA AfterFit ==
    ASSUME NEW q \in Seq(Statement)
    PROVE  /\ AfterRiffSize(q) \in Seq(Statement) /\ AfterIndex(q) \in Seq(Statement)
           /\ AfterHeaders(q) \in Seq(Statement) /\ AfterFinish(q) \in Seq(Statement)
<1>1. \A name \in Plain : Call(name) \in Seq(Statement)
    BY GroupsFit
<1>2. /\ Call("delete") \in Seq(Statement) /\ Call("riffSize") \in Seq(Statement)
      /\ Call("index") \in Seq(Statement) /\ Call("headers") \in Seq(Statement)
    BY <1>1 DEF Plain
<1>3. \A a, b \in Seq(Statement) : a \o b \in Seq(Statement)
    BY Joined
<1> DEFINE S == Seq(Statement)
<1> HIDE DEF S
<1>4. AfterRiffSize(q) \in S
    BY <1>2, <1>3 DEF AfterRiffSize, S
<1>5. AfterIndex(q) \in S
    BY <1>2, <1>3, <1>4 DEF AfterIndex, S
<1>6. AfterHeaders(q) \in S
    BY <1>2, <1>3, <1>5 DEF AfterHeaders, S
<1>7. AfterFinish(q) \in S
    BY <1>2, <1>3, <1>6 DEF AfterFinish, S
<1> QED
    BY <1>4, <1>5, <1>6, <1>7 DEF S

\* The stages of a finish are told by the statement that comes next.
LEMMA AfterHeads ==
    ASSUME NEW q \in Seq(Statement)
    PROVE  /\ Head(AfterRiffSize(q)).do = "delete" /\ Tail(AfterRiffSize(q)) = q
           /\ Head(AfterIndex(q)).do = "riffSize" /\ Tail(AfterIndex(q)) = AfterRiffSize(q)
           /\ Head(AfterHeaders(q)).do = "index" /\ Tail(AfterHeaders(q)) = AfterIndex(q)
           /\ Head(AfterFinish(q)).do = "headers" /\ Tail(AfterFinish(q)) = AfterHeaders(q)
           /\ AfterRiffSize(q) # <<>> /\ AfterIndex(q) # <<>>
           /\ AfterHeaders(q) # <<>> /\ AfterFinish(q) # <<>>
<1>1. \A name : [do |-> name].do = name
    OBVIOUS
<1>2. \A name : \A p \in Seq(Statement) :
        Call(name) \o p # <<>> /\ Head(Call(name) \o p) = [do |-> name]
        /\ Tail(Call(name) \o p) = p
    BY CallHead
<1>3. /\ AfterRiffSize(q) \in Seq(Statement) /\ AfterIndex(q) \in Seq(Statement)
      /\ AfterHeaders(q) \in Seq(Statement)
    BY AfterFit
<1>4. AfterRiffSize(q) = Call("delete") \o q
    BY DEF AfterRiffSize
<1>5. AfterIndex(q) = Call("riffSize") \o AfterRiffSize(q)
    BY DEF AfterIndex
<1>6. AfterHeaders(q) = Call("index") \o AfterIndex(q)
    BY DEF AfterHeaders
<1>7. AfterFinish(q) = Call("headers") \o AfterHeaders(q)
    BY DEF AfterFinish
<1>8. ASSUME NEW name, NEW p \in Seq(Statement), NEW y, y = Call(name) \o p
      PROVE  y # <<>> /\ Head(y).do = name /\ Tail(y) = p
    BY <1>1, <1>2, <1>8, Zenon
<1>9. /\ AfterRiffSize(q) # <<>> /\ Head(AfterRiffSize(q)).do = "delete"
      /\ Tail(AfterRiffSize(q)) = q
    BY <1>4, <1>8, Zenon
<1>10. /\ AfterIndex(q) # <<>> /\ Head(AfterIndex(q)).do = "riffSize"
       /\ Tail(AfterIndex(q)) = AfterRiffSize(q)
    BY <1>3, <1>5, <1>8, Zenon
<1>11. /\ AfterHeaders(q) # <<>> /\ Head(AfterHeaders(q)).do = "index"
       /\ Tail(AfterHeaders(q)) = AfterIndex(q)
    BY <1>3, <1>6, <1>8, Zenon
<1>12. /\ AfterFinish(q) # <<>> /\ Head(AfterFinish(q)).do = "headers"
       /\ Tail(AfterFinish(q)) = AfterHeaders(q)
    BY <1>3, <1>7, <1>8, Zenon
<1> QED
    BY <1>9, <1>10, <1>11, <1>12

\* What comes behind the writes is no write.
LEMMA StageHead ==
    ASSUME NEW w, NEW t, NEW r \in Seq(Statement), r # <<>>, Stage(w, t, r)
    PROVE  Head(r).do \notin FileNames
<1>1. Len(r) \in Nat /\ Len(r) >= 1 /\ Head(r) = r[1]
    OBVIOUS
<1>2. CASE Calls(r)
    <2>1. r[1].do \in CallNames
        BY <1>1, <1>2 DEF Calls
    <2> QED
        BY <1>1, <2>1 DEF CallNames, FileNames
<1>3. CASE Amid(w, t, r)
    <2>1. Head(r).do \in {"locate", "entry", "headers"}
        BY <1>3 DEF Amid, Locating, Entering
    <2> QED
        BY <2>1 DEF FileNames
<1>4. CASE Finishing(w, t, r)
    <2>1. Head(r).do \in {"headers", "index", "riffSize", "delete"}
        BY <1>4, AfterHeads DEF Finishing
    <2> QED
        BY <2>1 DEF FileNames
<1> QED
    BY <1>2, <1>3, <1>4 DEF Stage, WithoutFile, Resting, Closing

\* What is left when the first statement is done
LEMMA TailFacts ==
    ASSUME NEW q \in Seq(Statement), q # <<>>
    PROVE  /\ Tail(q) \in Seq(Statement)
           /\ Calls(q) => Calls(Tail(q))
           /\ InOrder(q) => InOrder(Tail(q))
           /\ NoFinish(q) => NoFinish(Tail(q))
           /\ Ends(q, 0) /\ Head(q).do \notin {"init", "closed"} => Ends(Tail(q), 0)
           /\ Calls(q) /\ Head(q).do \in {"chunk", "count"} => ChunkOK(Head(q).chunk)
           /\ InOrder(q) /\ Head(q).do = "finish" => NoFinish(Tail(q)) /\ Ends(Tail(q), 0)
           /\ InOrder(q) /\ ~Before(Head(q)) => NoFinish(Tail(q))
<1> DEFINE n == Len(q)
           p == Tail(q)
<1>1. /\ n \in Nat /\ n >= 1 /\ Len(p) = n - 1 /\ Head(q) = q[1]
      /\ \A i \in 1 .. n - 1 : p[i] = q[i + 1]
      /\ p \in Seq(Statement)
    OBVIOUS
<1> HIDE DEF p
<1>2. Calls(q) => Calls(p)
    <2> SUFFICES ASSUME Calls(q), NEW i \in 1 .. n - 1
                 PROVE  /\ p[i].do \in CallNames
                        /\ p[i].do \in {"chunk", "count"} => ChunkOK(p[i].chunk)
        BY <1>1 DEF Calls
    <2>1. i + 1 \in 1 .. n
        BY <1>1
    <2> QED
        BY <1>1, <2>1 DEF Calls
<1>3. InOrder(q) => InOrder(p)
    <2> SUFFICES ASSUME InOrder(q), NEW i \in 1 .. n - 1, p[i].do = "finish"
                 PROVE  Ends(p, i) /\ \A j \in 1 .. i - 1 : Before(p[j])
        BY <1>1 DEF InOrder
    <2>1. i + 1 \in 1 .. n /\ p[i] = q[i + 1]
        BY <1>1
    <2>2. Ends(q, i + 1) /\ \A j \in 1 .. (i + 1) - 1 : Before(q[j])
        BY <2>1 DEF InOrder
    <2>3. Ends(p, i)
        <3>1. PICK j \in 1 .. n : j > i + 1 /\ q[j].do \in {"init", "closed"}
            BY <2>2 DEF Ends
        <3>2. j - 1 \in 1 .. n - 1 /\ j - 1 > i /\ (j - 1) + 1 = j
            BY <1>1, <3>1
        <3>3. p[j - 1] = q[j]
            BY <1>1, <3>2
        <3> QED
            BY <1>1, <3>1, <3>2, <3>3 DEF Ends
    <2>4. ASSUME NEW j \in 1 .. i - 1 PROVE Before(p[j])
        <3>1. j + 1 \in 1 .. (i + 1) - 1 /\ j \in 1 .. n - 1
            BY <1>1
        <3> QED
            BY <1>1, <2>2, <3>1
    <2> QED
        BY <2>3, <2>4
<1>4. NoFinish(q) => NoFinish(p)
    <2> SUFFICES ASSUME NoFinish(q), NEW i \in 1 .. n - 1
                 PROVE  p[i].do # "finish"
        BY <1>1 DEF NoFinish
    <2>1. i + 1 \in 1 .. n
        BY <1>1
    <2> QED
        BY <1>1, <2>1 DEF NoFinish
<1>5. Ends(q, 0) /\ q[1].do \notin {"init", "closed"} => Ends(p, 0)
    <2> SUFFICES ASSUME Ends(q, 0), q[1].do \notin {"init", "closed"}
                 PROVE  Ends(p, 0)
        OBVIOUS
    <2>1. PICK j \in 1 .. n : j > 0 /\ q[j].do \in {"init", "closed"}
        BY DEF Ends
    <2>2. j # 1
        BY <2>1
    <2>3. j - 1 \in 1 .. n - 1 /\ j - 1 > 0 /\ (j - 1) + 1 = j
        BY <1>1, <2>1, <2>2
    <2>4. p[j - 1] = q[j]
        BY <1>1, <2>3
    <2> QED
        BY <1>1, <2>1, <2>3, <2>4 DEF Ends
<1>6. Calls(q) /\ q[1].do \in {"chunk", "count"} => ChunkOK(q[1].chunk)
    BY <1>1 DEF Calls
<1>7. InOrder(q) /\ ~Before(q[1]) => NoFinish(p)
    <2> SUFFICES ASSUME InOrder(q), ~Before(q[1]), NEW i \in 1 .. n - 1,
                        p[i].do = "finish"
                 PROVE  FALSE
        BY <1>1 DEF NoFinish
    <2>1. i + 1 \in 1 .. n /\ p[i] = q[i + 1] /\ 1 \in 1 .. (i + 1) - 1
        BY <1>1
    <2> QED
        BY <2>1 DEF InOrder
<1>8. InOrder(q) /\ q[1].do = "finish" => NoFinish(p) /\ Ends(p, 0)
    <2> SUFFICES ASSUME InOrder(q), q[1].do = "finish"
                 PROVE  NoFinish(p) /\ Ends(p, 0)
        OBVIOUS
    <2>1. ~Before(q[1])
        BY DEF Before
    <2>2. Ends(q, 1)
        BY <1>1 DEF InOrder
    <2>3. PICK j \in 1 .. n : j > 1 /\ q[j].do \in {"init", "closed"}
        BY <2>2 DEF Ends
    <2>4. j - 1 \in 1 .. n - 1 /\ j - 1 > 0 /\ (j - 1) + 1 = j
        BY <1>1, <2>3
    <2>5. p[j - 1] = q[j]
        BY <1>1, <2>4
    <2>6. Ends(p, 0)
        BY <1>1, <2>3, <2>4, <2>5 DEF Ends
    <2> QED
        BY <1>7, <2>1, <2>6
<1> QED
    BY <1>1, <1>2, <1>3, <1>4, <1>5, <1>6, <1>7, <1>8 DEF p

\* What is put in front of the rest of a call
LEMMA FrontFacts ==
    ASSUME NEW a \in Seq(Statement), NEW q \in Seq(Statement)
    PROVE  /\ Calls(a) /\ Calls(q) => Calls(a \o q)
           /\ NoFinish(a) /\ NoFinish(q) => NoFinish(a \o q)
           /\ Ends(q, 0) => Ends(a \o q, 0)
           /\ (\A i \in 1 .. Len(a) : Before(a[i])) => NoFinish(a)
           /\ (\A i \in 1 .. Len(a) : Before(a[i])) /\ InOrder(q) => InOrder(a \o q)
<1> DEFINE n == Len(a)
           m == Len(q)
           p == a \o q
<1>1. /\ n \in Nat /\ m \in Nat /\ Len(p) = n + m
      /\ \A i \in 1 .. n + m : p[i] = IF i <= n THEN a[i] ELSE q[i - n]
    OBVIOUS
<1> HIDE DEF p, n, m
<1>2. \A i \in 1 .. n : p[i] = a[i] /\ i \in 1 .. n + m
    BY <1>1
<1>3. \A i \in 1 .. m : p[n + i] = q[i] /\ n + i \in 1 .. n + m
    <2> SUFFICES ASSUME NEW i \in 1 .. m PROVE p[n + i] = q[i] /\ n + i \in 1 .. n + m
        OBVIOUS
    <2>1. n + i \in 1 .. n + m /\ ~(n + i <= n) /\ (n + i) - n = i
        BY <1>1
    <2> QED
        BY <1>1, <2>1
<1>4. \A i \in 1 .. n + m : i \in 1 .. n \/ (i - n \in 1 .. m /\ n + (i - n) = i)
    BY <1>1
<1>5. Calls(a) /\ Calls(q) => Calls(p)
    <2> SUFFICES ASSUME Calls(a), Calls(q), NEW i \in 1 .. n + m
                 PROVE  /\ p[i].do \in CallNames
                        /\ p[i].do \in {"chunk", "count"} => ChunkOK(p[i].chunk)
        BY <1>1 DEF Calls
    <2>1. CASE i \in 1 .. n
        BY <1>2, <2>1 DEF Calls, n
    <2>2. CASE i - n \in 1 .. m /\ n + (i - n) = i
        <3>1. p[i] = q[i - n]
            BY <1>3, <2>2
        <3> QED
            BY <2>2, <3>1 DEF Calls, m
    <2> QED
        BY <1>4, <2>1, <2>2
<1>6. NoFinish(a) /\ NoFinish(q) => NoFinish(p)
    <2> SUFFICES ASSUME NoFinish(a), NoFinish(q), NEW i \in 1 .. n + m
                 PROVE  p[i].do # "finish"
        BY <1>1 DEF NoFinish
    <2>1. CASE i \in 1 .. n
        BY <1>2, <2>1 DEF NoFinish, n
    <2>2. CASE i - n \in 1 .. m /\ n + (i - n) = i
        <3>1. p[i] = q[i - n]
            BY <1>3, <2>2
        <3> QED
            BY <2>2, <3>1 DEF NoFinish, m
    <2> QED
        BY <1>4, <2>1, <2>2
<1>7. ASSUME NEW k \in Nat, Ends(q, k) PROVE Ends(p, n + k)
    <2>1. PICK j \in 1 .. m : j > k /\ q[j].do \in {"init", "closed"}
        BY <1>7 DEF Ends, m
    <2>2. p[n + j] = q[j] /\ n + j \in 1 .. n + m /\ n + j > n + k
        BY <1>1, <1>3, <2>1
    <2> QED
        BY <1>1, <2>1, <2>2 DEF Ends
<1>8. Ends(q, 0) => Ends(p, 0)
    <2> SUFFICES ASSUME Ends(q, 0) PROVE Ends(p, 0)
        OBVIOUS
    <2>1. Ends(p, n + 0)
        BY <1>7
    <2>2. PICK j \in 1 .. Len(p) : j > n + 0 /\ p[j].do \in {"init", "closed"}
        BY <2>1 DEF Ends
    <2>3. j > 0
        BY <1>1, <2>2
    <2> QED
        BY <2>2, <2>3 DEF Ends
<1>9. (\A i \in 1 .. n : Before(a[i])) => NoFinish(a)
    BY DEF NoFinish, Before, n
<1>10. (\A i \in 1 .. n : Before(a[i])) /\ InOrder(q) => InOrder(p)
    <2> SUFFICES ASSUME \A i \in 1 .. n : Before(a[i]), InOrder(q),
                        NEW i \in 1 .. n + m, p[i].do = "finish"
                 PROVE  Ends(p, i) /\ \A j \in 1 .. i - 1 : Before(p[j])
        BY <1>1 DEF InOrder
    <2>1. i \notin 1 .. n
        BY <1>2 DEF Before
    <2> DEFINE k == i - n
    <2>2. k \in 1 .. m /\ n + k = i /\ p[i] = q[k]
        BY <1>3, <1>4, <2>1
    <2>3. k \in Nat
        BY <1>1, <2>2
    <2> HIDE DEF k
    <2>4. Ends(q, k) /\ \A j \in 1 .. k - 1 : Before(q[j])
        BY <2>2 DEF InOrder, m
    <2>5. Ends(p, i)
        BY <1>7, <2>2, <2>3, <2>4
    <2>6. ASSUME NEW j \in 1 .. i - 1 PROVE Before(p[j])
        <3>1. CASE j \in 1 .. n
            BY <1>2, <3>1
        <3>2. CASE j \notin 1 .. n
            <4>1. j - n \in 1 .. k - 1 /\ j - n \in 1 .. m /\ n + (j - n) = j
                BY <1>1, <2>2, <2>3, <3>2
            <4>2. p[j] = q[j - n]
                BY <1>3, <4>1
            <4> QED
                BY <2>4, <4>1, <4>2
        <3> QED
            BY <3>1, <3>2
    <2> QED
        BY <2>5, <2>6
<1> QED
    BY <1>5, <1>6, <1>8, <1>9, <1>10 DEF p, n

-----------------------------------------------------------------------------
(* Stages *)
LEMMA SamePlaces ==
    ASSUME setup' = setup
    PROVE  /\ \A c : ChunkOK(c)' <=> ChunkOK(c)
           /\ \A chunks : ChunksOK(chunks)' <=> ChunksOK(chunks)
           /\ \A w, chunks : Held(w, chunks)' <=> Held(w, chunks)
           /\ \A w, t, chunks : Grown(w, t, chunks)' <=> Grown(w, t, chunks)
           /\ \A w, end : Headed(w, end)' <=> Headed(w, end)
           /\ \A w, chunks : Finished(w, chunks)' <=> Finished(w, chunks)
           /\ \A q : Calls(q)' <=> Calls(q)
           /\ \A q : Closing(q)' <=> Closing(q)
<1>1. Chunk' = Chunk /\ Statement' = Statement /\ Streams' = Streams
    BY SameStatements
<1>2. \A c : ChunkOK(c)' <=> ChunkOK(c)
    BY <1>1 DEF ChunkOK
<1>3. \A chunks : ChunksOK(chunks)' <=> ChunksOK(chunks)
    BY <1>1, <1>2 DEF ChunksOK
<1>4. \A w, chunks : Held(w, chunks)' <=> Held(w, chunks)
    BY DEF Held
<1>5. \A w, t, chunks : Grown(w, t, chunks)' <=> Grown(w, t, chunks)
    BY <1>3, <1>4 DEF Grown
<1>6. \A w, end : Headed(w, end)' <=> Headed(w, end)
    BY DEF Headed
<1>7. \A w, chunks : Finished(w, chunks)' <=> Finished(w, chunks)
    BY <1>3, <1>4, <1>6 DEF Finished
<1>8. \A q : Calls(q)' <=> Calls(q)
    BY <1>2 DEF Calls
<1>9. \A q : Closing(q)' <=> Closing(q)
    BY <1>8 DEF Closing
<1> QED
    BY <1>2, <1>3, <1>4, <1>5, <1>6, <1>7, <1>8, <1>9

LEMMA SameStage ==
    ASSUME UNCHANGED <<setup, status, index, stored, file>>
    PROVE  /\ \A w, t : AtRest(w, t)' <=> AtRest(w, t)
           /\ \A w : Ended(w)' <=> Ended(w)
           /\ \A w, t, r : Stage(w, t, r)' <=> Stage(w, t, r)
<1>0. setup' = setup /\ status' = status /\ index' = index /\ stored' = stored
      /\ file' = file
    OBVIOUS
<1>1. Statement' = Statement
    BY SameStatements
<1>2. \A n : IndexHas(n)' <=> IndexHas(n)
    BY DEF IndexHas
<1>3. \A w, t : AtRest(w, t)' <=> AtRest(w, t)
    BY <1>0, <1>2, SamePlaces DEF AtRest
<1>4. \A w, t, x : Locating(w, t, x)' <=> Locating(w, t, x)
    BY <1>0, <1>2, SamePlaces DEF Locating
<1>5. \A w, t, x : Entering(w, t, x)' <=> Entering(w, t, x)
    BY <1>0, <1>2, SamePlaces DEF Entering
<1>6. \A w : Ended(w)' <=> Ended(w)
    BY <1>0, SamePlaces DEF Ended
<1>7. \A r : WithoutFile(r)' <=> WithoutFile(r)
    BY <1>0, SamePlaces DEF WithoutFile
<1>8. \A w, t, r : Resting(w, t, r)' <=> Resting(w, t, r)
    BY <1>0, <1>3, SamePlaces DEF Resting
<1>9. \A w, t, r : Amid(w, t, r)' <=> Amid(w, t, r)
    BY <1>0, <1>3, <1>4, <1>5, SamePlaces DEF Amid
<1>10. \A w, t, r : Finishing(w, t, r)' <=> Finishing(w, t, r)
    BY <1>0, <1>1, <1>3, <1>6, SamePlaces DEF Finishing
<1> QED
    BY <1>3, <1>6, <1>7, <1>8, <1>9, <1>10 DEF Stage

\* A call goes on, or one begins, when nothing is left to write.
LEMMA AtCall ==
    ASSUME Pending, todo = <<>> \/ Head(todo).do \notin FileNames
    PROVE  Stage(Whole, Tell, todo)
<1>1. PICK l \in Seq(Statement), r \in Seq(Statement), w \in Seq(Cell) :
            \E t \in 0 .. Len(w) :
               /\ todo = l \o r
               /\ \A i \in 1 .. Len(l) : l[i].do \in FileNames
               /\ Yields(l, <<Whole, Tell>>, <<w, t>>)
               /\ Stage(w, t, r)
    BY DEF Pending
<1>2. PICK t \in 0 .. Len(w) :
               /\ todo = l \o r
               /\ \A i \in 1 .. Len(l) : l[i].do \in FileNames
               /\ Yields(l, <<Whole, Tell>>, <<w, t>>)
               /\ Stage(w, t, r)
    BY <1>1
<1>3. l = <<>>
    <2> SUFFICES ASSUME l # <<>> PROVE FALSE
        OBVIOUS
    <2>1. 1 \in 1 .. Len(l) /\ l \o r # <<>> /\ Head(l \o r) = l[1]
        OBVIOUS
    <2> QED
        BY <1>2, <2>1
<1>4. todo = r
    BY <1>2, <1>3
<1>5. PICK f : f[0] = <<Whole, Tell>> /\ f[Len(l)] = <<w, t>>
    BY <1>2 DEF Yields
<1>6. Len(l) = 0
    BY <1>3
<1>7. w = Whole /\ t = Tell
    BY <1>5, <1>6
<1> QED
    BY <1>2, <1>4, <1>7

\* A write that is done, and the rest
LEMMA AtWrite ==
    ASSUME Pending, todo # <<>>, Head(todo).do \in FileNames
    PROVE  \E m, r \in Seq(Statement), w \in Seq(Cell) : \E t \in 0 .. Len(w) :
               /\ Tail(todo) = m \o r
               /\ \A i \in 1 .. Len(m) : m[i].do \in FileNames
               /\ Yields(m, Exec(<<Whole, Tell>>, Head(todo)), <<w, t>>)
               /\ Stage(w, t, r)
<1>1. PICK l \in Seq(Statement), r \in Seq(Statement), w \in Seq(Cell) :
            \E t \in 0 .. Len(w) :
               /\ todo = l \o r
               /\ \A i \in 1 .. Len(l) : l[i].do \in FileNames
               /\ Yields(l, <<Whole, Tell>>, <<w, t>>)
               /\ Stage(w, t, r)
    BY DEF Pending
<1>2. PICK t \in 0 .. Len(w) :
               /\ todo = l \o r
               /\ \A i \in 1 .. Len(l) : l[i].do \in FileNames
               /\ Yields(l, <<Whole, Tell>>, <<w, t>>)
               /\ Stage(w, t, r)
    BY <1>1
<1>3. l # <<>>
    <2> SUFFICES ASSUME l = <<>> PROVE FALSE
        OBVIOUS
    <2>1. l \o r = r
        OBVIOUS
    <2>2. todo = r
        BY <1>2, <2>1
    <2> QED
        BY <1>2, <2>2, StageHead
<1>4. /\ Head(l \o r) = Head(l) /\ Tail(l \o r) = Tail(l) \o r
      /\ Tail(l) \in Seq(Statement) /\ Len(Tail(l)) = Len(l) - 1
      /\ \A i \in 1 .. Len(l) - 1 : Tail(l)[i] = l[i + 1] /\ i + 1 \in 1 .. Len(l)
    BY <1>3
<1> DEFINE m == Tail(l)
<1>5. Yields(m, Exec(<<Whole, Tell>>, Head(l)), <<w, t>>)
    BY <1>2, <1>3, YieldsRest
<1>6. \A i \in 1 .. Len(m) : m[i].do \in FileNames
    BY <1>2, <1>4
<1>7. Tail(todo) = m \o r /\ Head(todo) = Head(l) /\ m \in Seq(Statement)
    BY <1>2, <1>4
<1> HIDE DEF m
<1> QED
    BY <1>2, <1>5, <1>6, <1>7

LEMMA PendingNow ==
    ASSUME NEW l \in Seq(Statement), NEW r \in Seq(Statement),
           NEW w \in Seq(Cell), NEW t \in 0 .. Len(w),
           todo' = l \o r, \A i \in 1 .. Len(l) : l[i].do \in FileNames,
           Yields(l, <<Whole', Tell'>>, <<w, t>>), Stage(w, t, r)',
           setup' = setup
    PROVE  Pending'
<1>1. Statement' = Statement
    BY SameStatements
<1>2. Yields(l, <<Whole, Tell>>, <<w, t>>)'
    BY DEF Yields, Runs
<1> QED
    BY <1>1, <1>2 DEF Pending

\* When a statement of the file is done the others are left.
LEMMA WriteDone ==
    ASSUME WriterInv, Pending, NEW name \in FileNames, Doing(name), Then(<<>>),
           UNCHANGED <<setup, status, index, stored, file>>,
           Exec(<<Whole, Tell>>, Head(todo)) = <<Whole', Tell'>>
    PROVE  Pending'
<1>1. todo # <<>> /\ Head(todo).do \in FileNames
    BY DEF Doing
<1>2. PICK m \in Seq(Statement), r \in Seq(Statement), w \in Seq(Cell) :
            \E t \in 0 .. Len(w) :
               /\ Tail(todo) = m \o r
               /\ \A i \in 1 .. Len(m) : m[i].do \in FileNames
               /\ Yields(m, Exec(<<Whole, Tell>>, Head(todo)), <<w, t>>)
               /\ Stage(w, t, r)
    BY <1>1, AtWrite
<1>3. PICK t \in 0 .. Len(w) :
               /\ Tail(todo) = m \o r
               /\ \A i \in 1 .. Len(m) : m[i].do \in FileNames
               /\ Yields(m, <<Whole', Tell'>>, <<w, t>>)
               /\ Stage(w, t, r)
    BY <1>2
<1>4. todo' = m \o r
    <2>1. m \o r \in Seq(Statement)
        OBVIOUS
    <2>2. \A q \in Seq(Statement) : <<>> \o q = q
        OBVIOUS
    <2> QED
        BY <1>3, <2>1, <2>2 DEF Then
<1>5. Stage(w, t, r)'
    BY <1>3, SameStage
<1> QED
    BY <1>3, <1>4, <1>5, PendingNow

LEMMA PutPends ==
    ASSUME FileInv, WriterInv, Pending, PutNumber
    PROVE  Pending'
<1> DEFINE x == Head(todo)
<1>1. Doing("put") /\ Put(x.cell) /\ Then(<<>>)
      /\ UNCHANGED <<setup, status, index, stored, file>>
    BY DEF PutNumber, streamVars, writerVars, historyVars
<1>2. x \in Statement /\ x.do = "put" /\ x.cell \in Cell
    BY <1>1, HeadFits, StatementHolds
<1>3. Wrote(<<x.cell>>)
    BY <1>1, <1>2, PutStep
<1>4. Whole' = File!Overlay(Whole, Tell, <<x.cell>>) /\ Tell' = Tell + 1
    BY <1>3 DEF Wrote
<1>5. Exec(<<Whole, Tell>>, x) = <<Whole', Tell'>>
    BY <1>2, <1>4 DEF Exec
<1>6. "put" \in FileNames
    BY DEF FileNames
<1> QED
    BY <1>1, <1>5, <1>6, WriteDone

LEMMA DirectPends ==
    ASSUME FileInv, WriterInv, Pending, WriteDirect
    PROVE  Pending'
<1> DEFINE x == Head(todo)
<1>1. Doing("direct") /\ Direct(x.data) /\ Then(<<>>)
      /\ UNCHANGED <<setup, status, index, stored, file>>
    BY DEF WriteDirect, streamVars, writerVars, historyVars
<1>2. x \in Statement /\ x.do = "direct" /\ x.data \in Seq(Cell)
    BY <1>1, HeadFits, StatementHolds
<1>3. Wrote(x.data)
    BY <1>1, <1>2, DirectStep
<1>4. Whole' = File!Overlay(Whole, Tell, x.data) /\ Tell' = Tell + Len(x.data)
    BY <1>3 DEF Wrote
<1>5. Exec(<<Whole, Tell>>, x) = <<Whole', Tell'>>
    BY <1>2, <1>4 DEF Exec
<1>6. "direct" \in FileNames
    BY DEF FileNames
<1> QED
    BY <1>1, <1>5, <1>6, WriteDone

LEMMA SeekPends ==
    ASSUME FileInv, WriterInv, Pending, Lseek
    PROVE  Pending'
<1> DEFINE x == Head(todo)
<1>1. Doing("seek") /\ SeekSet(x.to) /\ Then(<<>>)
      /\ UNCHANGED <<setup, status, index, stored, file>>
    BY DEF Lseek, streamVars, writerVars, historyVars
<1>2. x.do = "seek"
    BY <1>1 DEF Doing
<1>3. Whole' = Whole /\ Tell' = x.to
    BY <1>1, SeekStep DEF SeekSet, Whole
<1>4. Exec(<<Whole, Tell>>, x) = <<Whole', Tell'>>
    BY <1>2, <1>3 DEF Exec
<1>5. "seek" \in FileNames
    BY DEF FileNames
<1> QED
    BY <1>1, <1>4, <1>5, WriteDone

\* lseek to the end, by itself or in WriteHeaders and finish
LEMMA ToEnd ==
    ASSUME FileInv, SeekEnd
    PROVE  FileInv' /\ Whole' = Whole /\ Tell' = Len(Whole) /\ off' = Len(Whole)
<1>1. disk' = Whole /\ buf' = <<>> /\ off' = Len(disk')
    BY DEF SeekEnd, Whole
<1>2. Len(disk') \in Nat
    BY <1>1, WholeFacts
<1> QED
    BY <1>1, <1>2, SeekStep

LEMMA SeekEndPends ==
    ASSUME FileInv, WriterInv, Pending, LseekEnd
    PROVE  Pending'
<1> DEFINE x == Head(todo)
<1>1. Doing("seekEnd") /\ SeekEnd /\ Then(<<>>)
      /\ UNCHANGED <<setup, status, index, stored, file>>
    BY DEF LseekEnd, streamVars, writerVars, historyVars
<1>2. x.do = "seekEnd"
    BY <1>1 DEF Doing
<1>3. Whole' = Whole /\ Tell' = Len(Whole)
    BY <1>1, ToEnd
<1>4. Exec(<<Whole, Tell>>, x) = <<Whole', Tell'>>
    BY <1>2, <1>3 DEF Exec
<1>5. "seekEnd" \in FileNames
    BY DEF FileNames
<1> QED
    BY <1>1, <1>4, <1>5, WriteDone

LEMMA SplitFile ==
    ASSUME NEW d \in Seq(Cell), NEW k \in 0 .. Len(d)
    PROVE  /\ SubSeq(d, 1, k) \o SubSeq(d, k + 1, Len(d)) = d
           /\ SubSeq(d, 1, k) \in Seq(Cell) /\ SubSeq(d, k + 1, Len(d)) \in Seq(Cell)
<1> DEFINE a == SubSeq(d, 1, k)
           b == SubSeq(d, k + 1, Len(d))
           n == Len(d)
           j == n - k
<1>1. n \in Nat /\ k \in Nat /\ k <= n /\ j \in Nat /\ 0 + k = k /\ 0 + 1 = 1
      /\ k + j = n
    OBVIOUS
<1>2. /\ SubSeq(d, 0 + 1, 0 + k) \in Seq(Cell) /\ Len(SubSeq(d, 0 + 1, 0 + k)) = k
      /\ \A i \in 1 .. k : SubSeq(d, 0 + 1, 0 + k)[i] = d[0 + i]
    BY <1>1, PartFacts
<1> HIDE DEF j
<1>3. /\ SubSeq(d, k + 1, k + j) \in Seq(Cell)
      /\ Len(SubSeq(d, k + 1, k + j)) = j
      /\ \A i \in 1 .. j : SubSeq(d, k + 1, k + j)[i] = d[k + i]
    BY <1>1, PartFacts
<1>4. a \in Seq(Cell) /\ Len(a) = k /\ \A i \in 1 .. k : a[i] = d[i]
    <2>1. \A i \in 1 .. k : 0 + i = i
        OBVIOUS
    <2> QED
        BY <1>1, <1>2, <2>1
<1>5. b \in Seq(Cell) /\ Len(b) = j /\ \A i \in 1 .. j : b[i] = d[k + i]
    BY <1>1, <1>3
<1> HIDE DEF a, b, n
<1>6. /\ a \o b \in Seq(Cell) /\ Len(a \o b) = n
      /\ \A i \in 1 .. n : (a \o b)[i] = IF i <= k THEN a[i] ELSE b[i - k]
    <2>1. /\ a \o b \in Seq(Cell) /\ Len(a \o b) = Len(a) + Len(b)
          /\ \A i \in 1 .. Len(a) + Len(b) :
                 (a \o b)[i] = IF i <= Len(a) THEN a[i] ELSE b[i - Len(a)]
        <3>1. a \in Seq(Cell) /\ b \in Seq(Cell)
            BY <1>4, <1>5
        <3> QED
            BY ONLY <3>1
    <2> QED
        BY ONLY <1>1, <1>4, <1>5, <2>1
<1>7. ASSUME NEW i \in 1 .. n PROVE (a \o b)[i] = d[i]
    <2>1. CASE i <= k
        BY <1>4, <1>6, <2>1
    <2>2. CASE ~(i <= k)
        <3>1. i - k \in 1 .. j /\ k + (i - k) = i
            BY <1>1, <2>2
        <3> QED
            BY <1>5, <1>6, <2>2, <3>1
    <2> QED
        BY <2>1, <2>2
<1>8. a \o b = d
    BY <1>6, <1>7, SameFiles DEF n
<1> QED
    BY <1>4, <1>5, <1>8 DEF a, b

\* What a turn of write takes and what it leaves are what it was given.
LEMMA TakenAndRest ==
    ASSUME FileInv, NEW data \in Seq(Cell), Len(Taken(data)) <= Len(data)
    PROVE  /\ Taken(data) \o Rest(data) = data
           /\ Rest(data) \in Seq(Cell) /\ Len(Rest(data)) \in Nat
           /\ Taken(data) \in Seq(Cell)
<1> DEFINE k == IF Len(data) < Room THEN Len(data) ELSE Room
<1>1. Room \in Nat /\ Len(data) \in Nat
    BY BufSizeAssumption DEF FileInv, Room
<1>2. k \in 0 .. Len(data) /\ Taken(data) = SubSeq(data, 1, k)
    BY <1>1 DEF Taken
<1> HIDE DEF k
<1>3. Len(SubSeq(data, 1, k)) = k
    BY <1>2
<1>4. Rest(data) = SubSeq(data, k + 1, Len(data))
    BY <1>2, <1>3 DEF Rest
<1>5. /\ SubSeq(data, 1, k) \o SubSeq(data, k + 1, Len(data)) = data
      /\ SubSeq(data, 1, k) \in Seq(Cell)
      /\ SubSeq(data, k + 1, Len(data)) \in Seq(Cell)
    BY <1>2, SplitFile
<1>6. Taken(data) \o Rest(data) = data /\ Rest(data) \in Seq(Cell)
      /\ Taken(data) \in Seq(Cell)
    BY ONLY <1>2, <1>4, <1>5
<1> QED
    BY <1>6

LEMMA WriteTurns ==
    ASSUME FileInv, WriterInv, Write
    PROVE  \E y \in Seq(Statement) :
              /\ todo' = y \o Tail(todo)
              /\ \A i \in 1 .. Len(y) : y[i].do \in {"write", "direct"}
              /\ Yields(y, <<Whole', Tell'>>, Exec(<<Whole, Tell>>, Head(todo)))
<1> DEFINE x == Head(todo)
           data == x.data
           rest == Rest(data)
           took == Taken(data)
<1>0. \A v \in Seq(Cell) : \A o \in 0 .. Len(v) : \A b, y \in Seq(Cell) :
          File!Overlay(File!Overlay(v, o, b), o + Len(b), y) = File!Overlay(v, o, b \o y)
    BY OverlayTwice
<1>1. /\ Doing("write") /\ Fill(data)
      /\ Then(IF Len(rest) > BufSize THEN <<[do |-> "direct", data |-> rest]>>
              ELSE WriteAll(rest))
      /\ UNCHANGED <<setup, status, index, stored, file>>
    BY DEF Write, streamVars, writerVars, historyVars
<1>2. x \in Statement /\ x.do = "write" /\ data \in Seq(Cell)
    BY <1>1, HeadFits, StatementHolds
<1>3. Wrote(took) /\ Len(took) <= Len(data)
    BY <1>1, <1>2, FillStep
<1>4. /\ took \o rest = data /\ rest \in Seq(Cell) /\ Len(rest) \in Nat
      /\ took \in Seq(Cell)
    BY <1>2, <1>3, TakenAndRest
<1>5. Whole' = File!Overlay(Whole, Tell, took) /\ Tell' = Tell + Len(took)
    BY <1>3 DEF Wrote
<1>6. Whole \in Seq(Cell) /\ Tell \in 0 .. Len(Whole) /\ Tell \in Int
    BY WholeFacts
<1>7. File!Overlay(Whole', Tell', rest) = File!Overlay(Whole, Tell, data)
    <2> HIDE DEF took, rest, data
    <2>1. File!Overlay(File!Overlay(Whole, Tell, took), Tell + Len(took), rest)
              = File!Overlay(Whole, Tell, took \o rest)
        BY ONLY <1>0, <1>4, <1>6
    <2> QED
        BY <1>4, <1>5, <2>1
<1>8. Tell' + Len(rest) = Tell + Len(data)
    <2> HIDE DEF took, rest, data
    <2>1. Len(took \o rest) = Len(took) + Len(rest) /\ Len(took) \in Nat
        BY <1>4
    <2>2. Len(data) = Len(took) + Len(rest)
        BY <1>4, <2>1
    <2> QED
        BY ONLY <1>4, <1>5, <1>6, <2>1, <2>2
<1>9. Exec(<<Whole, Tell>>, x) = <<File!Overlay(Whole, Tell, data), Tell + Len(data)>>
    BY <1>2 DEF Exec
<1>10. Exec(<<Whole, Tell>>, x) = <<File!Overlay(Whole', Tell', rest), Tell' + Len(rest)>>
    BY <1>7, <1>8, <1>9
<1> HIDE DEF rest
<1>11. ASSUME NEW y \in Statement, y.do \in {"write", "direct"}, y.data = rest,
              Then(<<y>>)
       PROVE  \E z \in Seq(Statement) :
                 /\ todo' = z \o Tail(todo)
                 /\ \A i \in 1 .. Len(z) : z[i].do \in {"write", "direct"}
                 /\ Yields(z, <<Whole', Tell'>>, Exec(<<Whole, Tell>>, x))
    <2>1. Exec(<<Whole', Tell'>>, y) = Exec(<<Whole, Tell>>, x)
        BY <1>10, <1>11 DEF Exec
    <2>2. PICK z : z = <<y>>
        OBVIOUS
    <2>3. Yields(z, <<Whole', Tell'>>, Exec(<<Whole, Tell>>, x))
        BY <2>1, <2>2, YieldsOne
    <2>4. z \in Seq(Statement) /\ \A i \in 1 .. Len(z) : z[i].do \in {"write", "direct"}
        BY <1>11, <2>2
    <2> QED
        BY <1>11, <2>2, <2>3, <2>4 DEF Then
<1>12. CASE Len(rest) > BufSize
    <2> DEFINE y == [do |-> "direct", data |-> rest]
    <2>1. y \in Statement
        BY <1>4, StatementsFit
    <2>2. y.do \in {"write", "direct"} /\ y.data = rest /\ Then(<<y>>)
        BY <1>1, <1>12 DEF rest
    <2> HIDE DEF y
    <2> QED
        BY <1>11, <2>1, <2>2
<1>13. CASE ~(Len(rest) > BufSize) /\ rest # <<>>
    <2> DEFINE y == [do |-> "write", data |-> rest]
    <2>1. y \in Statement
        BY <1>4, StatementsFit
    <2>2. y.do \in {"write", "direct"} /\ y.data = rest /\ Then(<<y>>)
        BY <1>1, <1>13 DEF rest, WriteAll
    <2> HIDE DEF y
    <2> QED
        BY <1>11, <2>1, <2>2
<1>14. CASE ~(Len(rest) > BufSize) /\ rest = <<>>
    <2>1. PICK z : z = <<>>
        OBVIOUS
    <2>2. todo' = z \o Tail(todo)
        BY <1>1, <1>14, <2>1 DEF rest, WriteAll, Then
    <2>3. data = took
        <3>1. \A q \in Seq(Cell) : q \o <<>> = q
            OBVIOUS
        <3> QED
            BY <1>4, <1>14, <3>1
    <2>4. Exec(<<Whole, Tell>>, x) = <<Whole', Tell'>>
        BY <1>5, <1>9, <2>3
    <2>5. Yields(z, <<Whole', Tell'>>, Exec(<<Whole, Tell>>, x))
        BY <2>1, <2>4, YieldsNone
    <2>6. z \in Seq(Statement) /\ \A i \in 1 .. Len(z) : z[i].do \in {"write", "direct"}
        BY <2>1
    <2> QED
        BY <2>2, <2>5, <2>6
<1> QED
    BY <1>12, <1>13, <1>14

LEMMA WritePends ==
    ASSUME FileInv, WriterInv, Pending, Write
    PROVE  Pending'
<1>1. /\ todo # <<>> /\ Head(todo).do = "write"
      /\ UNCHANGED <<setup, status, index, stored, file>>
    BY DEF Write, Doing, streamVars, writerVars, historyVars
<1>2. PICK y \in Seq(Statement) :
              /\ todo' = y \o Tail(todo)
              /\ \A i \in 1 .. Len(y) : y[i].do \in {"write", "direct"}
              /\ Yields(y, <<Whole', Tell'>>, Exec(<<Whole, Tell>>, Head(todo)))
    BY WriteTurns
<1>3. PICK m \in Seq(Statement), r \in Seq(Statement), w \in Seq(Cell) :
            \E t \in 0 .. Len(w) :
               /\ Tail(todo) = m \o r
               /\ \A i \in 1 .. Len(m) : m[i].do \in FileNames
               /\ Yields(m, Exec(<<Whole, Tell>>, Head(todo)), <<w, t>>)
               /\ Stage(w, t, r)
    BY <1>1, AtWrite DEF FileNames
<1>4. PICK t \in 0 .. Len(w) :
               /\ Tail(todo) = m \o r
               /\ \A i \in 1 .. Len(m) : m[i].do \in FileNames
               /\ Yields(m, Exec(<<Whole, Tell>>, Head(todo)), <<w, t>>)
               /\ Stage(w, t, r)
    BY <1>3
<1>5. PICK l : l = y \o m
    OBVIOUS
<1>6. l \in Seq(Statement) /\ Yields(l, <<Whole', Tell'>>, <<w, t>>)
    BY <1>2, <1>4, <1>5, YieldsJoin
<1>7. todo' = l \o r
    <2>1. (y \o m) \o r = y \o (m \o r)
        BY ONLY y \in Seq(Statement), m \in Seq(Statement), r \in Seq(Statement),
           ConcatAssociative
    <2> QED
        BY <1>2, <1>4, <1>5, <2>1, Zenon
<1>8. \A i \in 1 .. Len(l) : l[i].do \in FileNames
    <2>1. /\ Len(y) \in Nat /\ Len(m) \in Nat /\ Len(l) = Len(y) + Len(m)
          /\ \A i \in 1 .. Len(y) + Len(m) :
                 l[i] = IF i <= Len(y) THEN y[i] ELSE m[i - Len(y)]
        BY <1>5
    <2>2. \A i \in 1 .. Len(y) : y[i].do \in FileNames
        BY <1>2 DEF FileNames
    <2>3. \A i \in 1 .. Len(l) : \/ i \in 1 .. Len(y) /\ i <= Len(y)
                                 \/ ~(i <= Len(y)) /\ i - Len(y) \in 1 .. Len(m)
        BY <2>1
    <2> QED
        BY <1>4, <2>1, <2>2, <2>3
<1>9. Stage(w, t, r)' /\ setup' = setup
    BY <1>1, <1>4, SameStage
<1> QED
    BY <1>6, <1>7, <1>8, <1>9, PendingNow

-----------------------------------------------------------------------------
(* The calls *)

\* The stage a call is at, by its next statement
LEMMA StageNamed ==
    ASSUME NEW w, NEW t, NEW r \in Seq(Statement), r # <<>>, Stage(w, t, r)
    PROVE  LET name == Head(r).do
           IN  /\ name \in CallNames => Resting(w, t, r) \/ WithoutFile(r)
               /\ name = "finish" => Resting(w, t, r)
               /\ name = "locate" => Amid(w, t, r) /\ Locating(w, t, Head(r))
               /\ name = "entry" => Amid(w, t, r) /\ Entering(w, t, Head(r))
               /\ name = "headers" =>
                    file = "open" /\ AtRest(w, t)
                    /\ \/ Calls(Tail(r)) /\ InOrder(Tail(r))
                       \/ \E q \in Seq(Statement) : Closing(q) /\ r = AfterFinish(q)
               /\ name = "index" =>
                    file = "open" /\ AtRest(w, t) /\ (status = 1 => Headed(w, Len(w)))
                    /\ \E q \in Seq(Statement) : Closing(q) /\ r = AfterHeaders(q)
               /\ name = "riffSize" =>
                    file = "open" /\ Ended(w)
                    /\ \E q \in Seq(Statement) : Closing(q) /\ r = AfterIndex(q)
               /\ name = "delete" =>
                    file = "open" /\ Ended(w)
                    /\ \E q \in Seq(Statement) : Closing(q) /\ r = AfterRiffSize(q)
<1> DEFINE name == Head(r).do
<1>1. Len(r) \in Nat /\ Len(r) >= 1 /\ Head(r) = r[1]
    OBVIOUS
<1>2. CASE WithoutFile(r)
    <2>1. name \in CallNames /\ name # "finish"
        BY <1>1, <1>2 DEF WithoutFile, Closing, Calls, NoFinish
    <2> QED
        BY <1>2, <2>1 DEF CallNames
<1>3. CASE Resting(w, t, r)
    <2>1. name \in CallNames
        BY <1>1, <1>3 DEF Resting, Calls
    <2> QED
        BY <1>3, <2>1 DEF CallNames
<1>4. CASE Amid(w, t, r)
    <2>1. \/ name = "locate" /\ Locating(w, t, Head(r))
          \/ name = "entry" /\ Entering(w, t, Head(r))
          \/ name = "headers" /\ AtRest(w, t)
        BY <1>4 DEF Amid, Locating, Entering
    <2> QED
        BY <1>4, <2>1 DEF CallNames, Amid
<1>5. CASE Finishing(w, t, r)
    <2>0. PICK q \in Seq(Statement) :
             /\ file = "open" /\ Closing(q)
             /\ \/ r = AfterFinish(q) /\ AtRest(w, t)
                \/ r = AfterHeaders(q) /\ AtRest(w, t)
                   /\ (status = 1 => Headed(w, Len(w)))
                \/ r = AfterIndex(q) /\ Ended(w)
                \/ r = AfterRiffSize(q) /\ Ended(w)
        BY <1>5 DEF Finishing
    <2>1. CASE r = AfterFinish(q) /\ AtRest(w, t)
        <3>1. name = "headers"
            BY <2>1, AfterHeads
        <3> QED
            BY <2>0, <2>1, <3>1 DEF CallNames
    <2>2. CASE r = AfterHeaders(q) /\ AtRest(w, t) /\ (status = 1 => Headed(w, Len(w)))
        <3>1. name = "index"
            BY <2>2, AfterHeads
        <3> QED
            BY <2>0, <2>2, <3>1 DEF CallNames
    <2>3. CASE r = AfterIndex(q) /\ Ended(w)
        <3>1. name = "riffSize"
            BY <2>3, AfterHeads
        <3> QED
            BY <2>0, <2>3, <3>1 DEF CallNames
    <2>4. CASE r = AfterRiffSize(q) /\ Ended(w)
        <3>1. name = "delete"
            BY <2>4, AfterHeads
        <3> QED
            BY <2>0, <2>4, <3>1 DEF CallNames
    <2> QED
        BY <2>0, <2>1, <2>2, <2>3, <2>4
<1> QED
    BY <1>2, <1>3, <1>4, <1>5 DEF Stage

LEMMA WholeThen ==
    ASSUME FileInv'
    PROVE  Whole' \in Seq(Cell) /\ Tell' \in 0 .. Len(Whole')
<1>1. /\ Len(disk') \in Nat /\ Len(buf') \in Nat /\ off' \in Nat
      /\ disk' \in Seq(Cell) /\ buf' \in Seq(Cell) /\ off' \in 0 .. Len(disk')
    BY DEF FileInv
<1> DEFINE w == File!Overlay(disk', off', buf')
<1>2. w \in Seq(Cell) /\ Len(w) >= off' + Len(buf') /\ Len(w) \in Nat
    <2>1. w \in Seq(Cell) /\ Len(w) >= off' + Len(buf')
        BY <1>1, OverlayFacts
    <2> HIDE DEF w
    <2> QED
        BY <2>1
<1>3. Whole' = w /\ Tell' = off' + Len(buf')
    BY DEF Whole, Tell
<1> HIDE DEF w
<1> QED
    BY <1>1, <1>2, <1>3

LEMMA PendingAt ==
    ASSUME FileInv', NEW r \in Seq(Statement), todo' = r, setup' = setup,
           NEW w, NEW t, Whole' = w, Tell' = t, Stage(w, t, r)'
    PROVE  Pending'
<1>1. w \in Seq(Cell) /\ t \in 0 .. Len(w)
    BY WholeThen
<1> DEFINE e == <<>>
<1>2. e \in Seq(Statement) /\ Len(e) = 0 /\ e \o r = r
    OBVIOUS
<1>3. Yields(e, <<Whole', Tell'>>, <<w, t>>)
    BY YieldsNone
<1> HIDE DEF e
<1>4. \A i \in 1 .. Len(e) : e[i].do \in FileNames
    BY <1>2
<1>5. todo' = e \o r
    BY <1>2
<1> QED
    BY <1>1, <1>2, <1>3, <1>4, <1>5, PendingNow

\* The stage at a statement that is no write
LEMMA Doings ==
    ASSUME WriterInv, Pending, NEW name, Doing(name), name \notin FileNames
    PROVE  /\ todo \in Seq(Statement) /\ todo # <<>> /\ Head(todo).do = name
           /\ Stage(Whole, Tell, todo)
BY AtCall DEF Doing, WriterInv, CallOK

\* A statement that is done, and the rest: nothing in the file changed.
LEMMA RestAt ==
    ASSUME FileInv', NEW r \in Seq(Statement), todo' = r,
           UNCHANGED fileVars, UNCHANGED <<setup, status, index, stored, file>>,
           Stage(Whole, Tell, r)
    PROVE  Pending'
<1>1. Whole' = Whole /\ Tell' = Tell
    BY DEF fileVars, Whole, Tell
<1>2. PICK w, t : w = Whole /\ t = Tell
    OBVIOUS
<1>3. Stage(w, t, r)'
    BY <1>2, SameStage
<1> QED
    BY <1>1, <1>2, <1>3, PendingAt

LEMMA NoStatement == \A q \in Seq(Statement) : <<>> \o q = q
OBVIOUS

LEMMA TwoCells ==
    \A S : \A u, v \in S : <<u>> \o <<v>> = <<u, v>>
<1> SUFFICES ASSUME NEW S, NEW u \in S, NEW v \in S PROVE <<u>> \o <<v>> = <<u, v>>
    OBVIOUS
<1> DEFINE a == <<u>>
           b == <<v>>
           c == <<u, v>>
<1>1. /\ a \in Seq(S) /\ Len(a) = 1 /\ a[1] = u /\ b \in Seq(S) /\ Len(b) = 1
      /\ b[1] = v /\ c \in Seq(S) /\ Len(c) = 2 /\ c[1] = u /\ c[2] = v
    OBVIOUS
<1> HIDE DEF a, b, c
<1>2. a \o b \in Seq(S) /\ Len(a \o b) = 2 /\ (a \o b)[1] = u /\ (a \o b)[2] = v
    BY <1>1
<1>3. \A i \in 1 .. Len(a \o b) : (a \o b)[i] = c[i]
    BY <1>1, <1>2
<1>4. a \o b = c
    BY <1>1, <1>2, <1>3, SameFiles
<1> QED
    BY <1>4 DEF a, b, c

\* A file that is asked for, in front of what has no finish
LEMMA NextFileFacts ==
    ASSUME NEW q \in Seq(Statement), Calls(q), NoFinish(q)
    PROVE  /\ NextFile \o q \in Seq(Statement)
           /\ Calls(NextFile \o q) /\ InOrder(NextFile \o q)
<1> DEFINE x == [do |-> "finish"]
           y == [do |-> "init"]
           p == NextFile \o q
           n == Len(q)
<1>1. x \in Statement /\ y \in Statement
    <2>1. \A name \in Plain : [do |-> name] \in Statement
        BY StatementsFit
    <2>2. "finish" \in Plain /\ "init" \in Plain
        BY DEF Plain
    <2> QED
        BY <2>1, <2>2
<1>2. NextFile = <<x, y>>
    <2>1. \A S : \A u, v \in S : <<u>> \o <<v>> = <<u, v>>
        BY TwoCells
    <2>2. NextFile = <<x>> \o <<y>>
        BY DEF NextFile, Call
    <2> HIDE DEF x, y
    <2> QED
        BY ONLY <1>1, <2>1, <2>2
<1>3. x.do = "finish" /\ y.do = "init"
    OBVIOUS
<1> HIDE DEF x, y
<1>4. /\ p \in Seq(Statement) /\ n \in Nat /\ Len(p) = n + 2 /\ p[1] = x /\ p[2] = y
      /\ \A i \in 3 .. n + 2 : p[i] = q[i - 2] /\ i - 2 \in 1 .. n
    BY <1>1, <1>2
<1> HIDE DEF p
<1>5. \A i \in 1 .. n + 2 : i = 1 \/ i = 2 \/ i \in 3 .. n + 2
    BY <1>4
<1>6. Calls(p)
    <2> SUFFICES ASSUME NEW i \in 1 .. n + 2
                 PROVE  /\ p[i].do \in CallNames
                        /\ p[i].do \in {"chunk", "count"} => ChunkOK(p[i].chunk)
        BY <1>4 DEF Calls
    <2>1. CASE i \in 3 .. n + 2
        BY <1>4, <2>1 DEF Calls
    <2>2. CASE i = 1
        BY <1>3, <1>4, <2>2 DEF CallNames
    <2>3. CASE i = 2
        BY <1>3, <1>4, <2>3 DEF CallNames
    <2> QED
        BY <1>5, <2>1, <2>2, <2>3
<1>7. InOrder(p)
    <2> SUFFICES ASSUME NEW i \in 1 .. n + 2, p[i].do = "finish"
                 PROVE  Ends(p, i) /\ \A j \in 1 .. i - 1 : Before(p[j])
        BY <1>4 DEF InOrder
    <2>1. i = 1
        <3>1. i \notin 3 .. n + 2
            BY <1>4 DEF NoFinish
        <3>2. i # 2
            BY <1>3, <1>4
        <3> QED
            BY <1>5, <3>1, <3>2
    <2>2. 2 \in 1 .. Len(p) /\ 2 > i /\ p[2].do \in {"init", "closed"}
        BY <1>3, <1>4, <2>1
    <2> QED
        BY <2>1, <2>2 DEF Ends
<1> QED
    BY <1>4, <1>6, <1>7 DEF p

LEMMA SegmentsPends ==
    ASSUME WriterInv, Pending, FileInv', ChunkSegments
    PROVE  Pending'
<1> DEFINE x == Head(todo)
           c == x.chunk
<1>1. /\ Doing("chunk") /\ file = "open" /\ Segments(c) /\ todo' = NextFile \o todo
      /\ UNCHANGED fileVars /\ UNCHANGED <<setup, status, index, stored, file>>
    BY DEF ChunkSegments, streamVars, historyVars
<1>2. "chunk" \notin FileNames /\ "chunk" \in CallNames
    BY DEF FileNames, CallNames
<1>3. /\ todo \in Seq(Statement) /\ todo # <<>> /\ x.do = "chunk"
      /\ Stage(Whole, Tell, todo)
    BY <1>1, <1>2, Doings
<1>4. Resting(Whole, Tell, todo)
    BY <1>1, <1>2, <1>3, StageNamed DEF WithoutFile
<1>5. ~Before(x)
    <2>1. c.key
        BY <1>1, Zenon DEF Segments
    <2>2. ~(c.key = FALSE)
        BY <2>1
    <2> QED
        BY <1>3, <2>2 DEF Before
<1>6. Calls(todo) /\ InOrder(todo) /\ AtRest(Whole, Tell)
    BY <1>4 DEF Resting
<1>7. NoFinish(Tail(todo))
    BY <1>3, <1>5, <1>6, TailFacts
<1>8. NoFinish(todo)
    <2> SUFFICES ASSUME NEW i \in 1 .. Len(todo) PROVE todo[i].do # "finish"
        BY DEF NoFinish
    <2>1. CASE i = 1
        BY <1>3, <2>1
    <2>2. CASE i # 1
        <3>1. i - 1 \in 1 .. Len(Tail(todo)) /\ Tail(todo)[i - 1] = todo[i]
            BY <1>3, <2>2
        <3> QED
            BY <1>7, <3>1 DEF NoFinish
    <2> QED
        BY <2>1, <2>2
<1> DEFINE r == NextFile \o todo
<1>9. r \in Seq(Statement) /\ Calls(r) /\ InOrder(r)
    BY <1>3, <1>6, <1>8, NextFileFacts
<1>10. todo' = r
    BY <1>1
<1> HIDE DEF r
<1>11. Stage(Whole, Tell, r)
    BY <1>1, <1>6, <1>9 DEF Stage, Resting
<1> QED
    BY <1>1, <1>9, <1>10, <1>11, RestAt

\* A statement that leaves the file and its chunks as they are is done.
LEMMA CallDone ==
    ASSUME WriterInv, Pending, FileInv', NEW name \in {"count", "stop"},
           Doing(name), NEW x \in Seq(Statement), Then(x),
           \A i \in 1 .. Len(x) : Before(x[i]), Calls(x),
           UNCHANGED fileVars, UNCHANGED <<setup, status, index, stored, file>>
    PROVE  Pending'
<1>2. name \notin FileNames /\ name \in CallNames /\ name \notin {"init", "closed"}
    BY DEF FileNames, CallNames
<1>3. /\ todo \in Seq(Statement) /\ todo # <<>> /\ Head(todo).do = name
      /\ Stage(Whole, Tell, todo)
    BY <1>2, Doings
<1> DEFINE r == x \o Tail(todo)
<1>4. todo' = r /\ r \in Seq(Statement) /\ Tail(todo) \in Seq(Statement)
    BY <1>3 DEF Then
<1>5. CASE Resting(Whole, Tell, todo)
    <2>1. Calls(Tail(todo)) /\ InOrder(Tail(todo))
        BY <1>3, <1>5, TailFacts DEF Resting
    <2>2. Calls(r) /\ InOrder(r)
        BY <1>4, <2>1, FrontFacts
    <2> HIDE DEF r
    <2>3. Stage(Whole, Tell, r)
        BY <1>5, <2>2 DEF Stage, Resting
    <2> QED
        BY <1>4, <2>3, RestAt
<1>6. CASE WithoutFile(todo)
    <2>1. Closing(Tail(todo))
        BY <1>2, <1>3, <1>6, TailFacts DEF WithoutFile, Closing
    <2>2. Closing(r)
        BY <1>4, <2>1, FrontFacts DEF Closing
    <2> HIDE DEF r
    <2>3. Stage(Whole, Tell, r)
        BY <1>6, <2>2 DEF Stage, WithoutFile
    <2> QED
        BY <1>4, <2>3, RestAt
<1> QED
    BY <1>2, <1>3, <1>5, <1>6, StageNamed

LEMMA CountPends ==
    ASSUME WriterInv, Pending, FileInv', Count
    PROVE  Pending'
<1>1. /\ Doing("count") /\ Then(<<>>)
      /\ UNCHANGED fileVars /\ UNCHANGED <<setup, status, index, stored, file>>
    BY DEF Count, writerVars, historyVars
<1> DEFINE e == <<>>
<1>2. e \in Seq(Statement) /\ Len(e) = 0 /\ Then(e)
    BY <1>1
<1> HIDE DEF e
<1>3. (\A i \in 1 .. Len(e) : Before(e[i])) /\ Calls(e)
    BY <1>2 DEF Calls
<1> QED
    BY <1>1, <1>2, <1>3, CallDone

LEMMA StopPends ==
    ASSUME WriterInv, Quiet, Pending, FileInv', Stop
    PROVE  Pending'
<1> DEFINE s == Head(todo).stream
           last == [stream |-> s, size |-> 1, key |-> FALSE,
                    number |-> Len(given) + 1, encoding |-> encoding[s]]
<1>1. /\ Doing("stop")
      /\ \/ Then(<<>>)
         \/ running[s] /\ ~setup[s].video /\ Then(ChunkCall(last))
      /\ UNCHANGED fileVars /\ UNCHANGED <<setup, status, index, stored, file>>
    BY DEF Stop, writerVars
<1>2. CASE Then(<<>>)
    <2> DEFINE e == <<>>
    <2>1. e \in Seq(Statement) /\ Len(e) = 0 /\ Then(e)
        BY <1>2
    <2> HIDE DEF e
    <2>2. (\A i \in 1 .. Len(e) : Before(e[i])) /\ Calls(e)
        BY <2>1 DEF Calls
    <2> QED
        BY <1>1, <2>1, <2>2, CallDone
<1>3. CASE running[s] /\ Then(ChunkCall(last))
    <2>1. s \in Streams
        BY <1>1, HeadFits, StatementHolds
    <2>2. last \in Chunk
        <3>1. encoding[s] \in Nat /\ Len(given) + 1 \in Nat
            BY <2>1 DEF WriterInv, StreamsOK, CallOK
        <3> QED
            BY <2>1, <3>1 DEF Chunk
    <2>3. last.size = 1 /\ last.stream = s /\ last.key = FALSE
        OBVIOUS
    <2>4. ~(setup[s].encoder = FALSE)
        BY <1>3, <2>1, Zenon DEF Quiet
    <2> HIDE DEF last
    <2>5. ChunkOK(last)
        <3>1. MaxOffset + 2 + Even(1) < OffsetSpan
            BY WidthAssumption, OffsetAssumption DEF Even
        <3>2. 1 <= MaxPacketSize
            BY PacketAssumption
        <3> QED
            BY <2>2, <2>3, <2>4, <3>1, <3>2 DEF ChunkOK
    <2> DEFINE x == [do |-> "chunk", chunk |-> last]
               y == [do |-> "count", chunk |-> last]
               z == ChunkCall(last)
    <2>6. x.do = "chunk" /\ x.chunk = last /\ y.do = "count" /\ y.chunk = last
        OBVIOUS
    <2>7. z = <<x, y>>
        BY DEF ChunkCall
    <2>8. z \in Seq(Statement)
        BY <2>2, GroupsFit
    <2> HIDE DEF x, y, z
    <2>9. Len(z) = 2 /\ z[1] = x /\ z[2] = y
        BY <2>7
    <2>10. \A i \in 1 .. Len(z) : i = 1 \/ i = 2
        BY <2>9
    <2>11. \A i \in 1 .. Len(z) : Before(z[i])
        BY <2>3, <2>6, <2>9, <2>10 DEF Before
    <2>12. Calls(z)
        BY <2>5, <2>6, <2>9, <2>10 DEF Calls, CallNames
    <2>13. Then(z)
        BY <1>3 DEF z
    <2> QED
        BY <1>1, <2>8, <2>11, <2>12, <2>13, CallDone
<1> QED
    BY <1>1, <1>2, <1>3

-----------------------------------------------------------------------------
(* Groups of writes *)
Writes(l) == \A i \in 1 .. Len(l) : l[i].do \in FileNames

LEMMA WritesJoin ==
    ASSUME NEW l \in Seq(Statement), NEW m \in Seq(Statement), Writes(l), Writes(m)
    PROVE  l \o m \in Seq(Statement) /\ Writes(l \o m)
<1> DEFINE p == l \o m
<1>1. /\ p \in Seq(Statement) /\ Len(l) \in Nat /\ Len(m) \in Nat
      /\ Len(p) = Len(l) + Len(m)
      /\ \A i \in 1 .. Len(l) + Len(m) :
            p[i] = IF i <= Len(l) THEN l[i] ELSE m[i - Len(l)]
    OBVIOUS
<1> HIDE DEF p
<1>2. \A i \in 1 .. Len(l) + Len(m) :
          \/ i \in 1 .. Len(l) /\ i <= Len(l)
          \/ ~(i <= Len(l)) /\ i - Len(l) \in 1 .. Len(m)
    BY <1>1
<1>3. Writes(p)
    BY <1>1, <1>2 DEF Writes
<1> QED
    BY <1>1, <1>3 DEF p

LEMMA GroupsWrite ==
    /\ \A c : Writes(Put1(c))
    /\ \A d \in Seq(Cell) : Writes(PutAll(d)) /\ Writes(WriteAll(d))
    /\ \A n : Writes(Go(n))
    /\ Writes(Call("seekEnd"))
<1>1. \A x : x.do \in FileNames => Writes(<<x>>)
    BY DEF Writes
<1>2. \A c : Writes(Put1(c))
    <2> TAKE c
    <2>1. [do |-> "put", cell |-> c].do \in FileNames
        BY DEF FileNames
    <2> QED
        BY <1>1, <2>1 DEF Put1
<1>3. \A d \in Seq(Cell) : Writes(PutAll(d))
    <2> TAKE d \in Seq(Cell)
    <2>1. Len(PutAll(d)) = Len(d)
          /\ \A i \in 1 .. Len(d) : PutAll(d)[i] = [do |-> "put", cell |-> d[i]]
        BY DEF PutAll
    <2>2. \A c : [do |-> "put", cell |-> c].do \in FileNames
        BY DEF FileNames
    <2> QED
        BY <2>1, <2>2 DEF Writes
<1>4. \A d \in Seq(Cell) : Writes(WriteAll(d))
    <2> TAKE d \in Seq(Cell)
    <2>1. [do |-> "write", data |-> d].do \in FileNames
        BY DEF FileNames
    <2>2. Writes(<<>>)
        BY DEF Writes
    <2> QED
        BY <1>1, <2>1, <2>2 DEF WriteAll
<1>5. \A n : Writes(Go(n))
    <2> TAKE n
    <2>1. [do |-> "seek", to |-> n].do \in FileNames
        BY DEF FileNames
    <2> QED
        BY <1>1, <2>1 DEF Go
<1>6. Writes(Call("seekEnd"))
    <2>1. [do |-> "seekEnd"].do \in FileNames
        BY DEF FileNames
    <2> QED
        BY <1>1, <2>1 DEF Call
<1> QED
    BY <1>2, <1>3, <1>4, <1>5, <1>6

\* Statements that write where the writer is, and what is left when all that is
\* still to do before the next call r are such
Appends(l) == \A i \in 1 .. Len(l) : l[i].do \in {"put", "write", "direct"}

RestOK(r) == r = <<>> \/ Head(r).do \notin FileNames

Leaves(l, r, v) ==
    /\ l \in Seq(Statement) /\ Appends(l) /\ r \in Seq(Statement) /\ RestOK(r)
    /\ todo' = l \o r /\ v \in Seq(Cell)
    /\ Yields(l, <<Whole', Tell'>>, <<v, Len(v)>>)

LEMMA AppendsWrite == \A l : Appends(l) => Writes(l)
BY DEF Appends, Writes, FileNames

LEMMA AppendsJoin ==
    ASSUME NEW l \in Seq(Statement), NEW m \in Seq(Statement), Appends(l), Appends(m)
    PROVE  l \o m \in Seq(Statement) /\ Appends(l \o m)
<1> DEFINE p == l \o m
<1>1. /\ p \in Seq(Statement) /\ Len(l) \in Nat /\ Len(m) \in Nat
      /\ Len(p) = Len(l) + Len(m)
      /\ \A i \in 1 .. Len(l) + Len(m) :
            p[i] = IF i <= Len(l) THEN l[i] ELSE m[i - Len(l)]
    OBVIOUS
<1> HIDE DEF p
<1>2. \A i \in 1 .. Len(l) + Len(m) :
          \/ i \in 1 .. Len(l) /\ i <= Len(l)
          \/ ~(i <= Len(l)) /\ i - Len(l) \in 1 .. Len(m)
    BY <1>1
<1>3. Appends(p)
    BY <1>1, <1>2 DEF Appends
<1> QED
    BY <1>1, <1>3 DEF p

LEMMA GroupsAppend ==
    /\ \A c : Appends(Put1(c))
    /\ \A d \in Seq(Cell) : Appends(WriteAll(d))
<1>1. \A c : Appends(Put1(c))
    BY DEF Appends, Put1
<1>2. \A d \in Seq(Cell) : Appends(WriteAll(d))
    BY DEF Appends, WriteAll
<1> QED
    BY <1>1, <1>2

\* What is left pends when it fits the stage of that call.
LEMMA LeavesPend ==
    ASSUME NEW l, NEW r, NEW v, Leaves(l, r, v), Stage(v, Len(v), r)', setup' = setup
    PROVE  Pending'
<1>1. /\ l \in Seq(Statement) /\ r \in Seq(Statement) /\ v \in Seq(Cell)
      /\ todo' = l \o r /\ Yields(l, <<Whole', Tell'>>, <<v, Len(v)>>) /\ Appends(l)
    BY DEF Leaves
<1>2. PICK u : u = Len(v) /\ u \in 0 .. Len(v)
    BY <1>1
<1>3. \A i \in 1 .. Len(l) : l[i].do \in FileNames
    BY <1>1, AppendsWrite DEF Writes
<1>4. Yields(l, <<Whole', Tell'>>, <<v, u>>) /\ Stage(v, u, r)'
    BY <1>1, <1>2
<1> QED
    BY <1>1, <1>2, <1>3, <1>4, PendingNow

LEMMA JunkFacts ==
    ASSUME CellsFit, NEW n \in Nat
    PROVE  Junk(n) \in Seq(Cell) /\ Len(Junk(n)) = n
<1>1. Junk(n) \in Seq(Cell)
    BY PartsFit
<1>2. Junk(n) = [i \in 1 .. n |-> Number(0)]
    BY DEF Junk
<1> QED
    BY <1>1, <1>2

\* A new file, or the next chunk of one: the headers' room is written, and the
\* chunk is what comes next.
LEMMA ChunkAdds ==
    ASSUME CellsFit, WriterInv, Pending, stored \in Seq(Chunk), ChunkBegins
    PROVE  /\ index # <<>> =>
                 \E r \in Seq(Statement) :
                    RestOK(r) /\ todo' = r /\ Stage(Whole, Tell, r) /\ status = 1
           /\ index = <<>> =>
                 \E l, r, v :
                    /\ Leaves(l, r, v) /\ Stage(v, Len(v), r)'
                    /\ stored = <<>> /\ Whole = <<>> /\ status' = 1
                    /\ Len(v) = HeaderSize /\ \A i \in 1 .. HeaderSize : v[i] = Number(0)
<1>0. PICK x, q : x = Head(todo) /\ q = Tail(todo)
    OBVIOUS
<1> DEFINE y == [do |-> "locate", chunk |-> x.chunk]
           r == <<y>> \o q
<1>1. /\ Doing("chunk") /\ file = "open"
      /\ IF index = <<>>
         THEN status' = 1 /\ Then(WriteAll(Junk(HeaderSize))
                                     \o <<[x EXCEPT !.do = "locate"]>>)
         ELSE status' = status /\ Then(<<[x EXCEPT !.do = "locate"]>>)
      /\ UNCHANGED fileVars /\ UNCHANGED <<setup, index, stored, file>>
    BY <1>0 DEF ChunkBegins, streamVars, historyVars
<1>2. "chunk" \notin FileNames /\ "chunk" \in CallNames
    BY DEF FileNames, CallNames
<1>3. /\ todo \in Seq(Statement) /\ todo # <<>> /\ x.do = "chunk"
      /\ Stage(Whole, Tell, todo)
    BY <1>0, <1>1, <1>2, Doings
<1>4. Resting(Whole, Tell, todo)
    BY <1>0, <1>1, <1>2, <1>3, StageNamed DEF WithoutFile
<1>5. Calls(todo) /\ InOrder(todo) /\ AtRest(Whole, Tell)
    BY <1>4 DEF Resting
<1>6. q \in Seq(Statement) /\ Calls(q) /\ InOrder(q) /\ ChunkOK(x.chunk)
    BY <1>0, <1>3, <1>5, TailFacts
<1>7. x \in Statement /\ [x EXCEPT !.do = "locate"] = y /\ y \in Statement
    <2>1. x \in Statement
        BY <1>0, <1>3
    <2>2. [x EXCEPT !.do = "locate"] = y /\ x.chunk \in Chunk
        BY <1>3, <2>1, StatementHolds
    <2> QED
        BY <2>1, <2>2, StatementsFit
<1>8. y.do = "locate" /\ y.chunk = x.chunk
    OBVIOUS
<1> HIDE DEF y
<1>9. r \in Seq(Statement) /\ r # <<>> /\ Head(r) = y /\ Tail(r) = q
    BY <1>6, <1>7
<1> HIDE DEF r
<1>10. Whole' = Whole /\ Tell' = Tell
    BY <1>1 DEF fileVars, Whole, Tell
<1>11. index = <<>> => status = 0
    BY <1>5 DEF AtRest, IndexHas
<1>12. index # <<>> => status = 1
    BY <1>5 DEF AtRest, WriterInv, WriterOK
<1>13. CASE index # <<>>
    <2>1. status' = status /\ Then(<<y>>)
        BY <1>1, <1>7, <1>13
    <2>2. todo' = r
        BY <1>0, <2>1 DEF Then, r
    <2>3. Grown(Whole, Tell, stored) /\ IndexHas(Len(stored))
        BY <1>5, <1>12, <1>13 DEF AtRest
    <2>4. Locating(Whole, Tell, y)
        BY <1>6, <1>8, <1>12, <1>13, <2>3 DEF Locating
    <2>5. Stage(Whole, Tell, r)
        BY <1>1, <1>6, <1>9, <2>4 DEF Stage, Amid
    <2>6. RestOK(r)
        BY <1>8, <1>9 DEF RestOK, FileNames
    <2> QED
        BY <1>9, <1>12, <1>13, <2>2, <2>5, <2>6
<1>14. CASE index = <<>>
    <2> DEFINE junk == Junk(HeaderSize)
               l == WriteAll(junk)
               e == <<>>
               w == File!Overlay(e, 0, junk)
    <2>1. HeaderSize \in Nat
        BY HeaderAssumption
    <2>2. junk \in Seq(Cell) /\ Len(junk) = HeaderSize
        BY <2>1, JunkFacts
    <2>3. l \in Seq(Statement) /\ Appends(l)
        BY <2>2, GroupsFit, GroupsAppend
    <2>4. stored = <<>> /\ Whole = <<>> /\ Tell = 0
        BY <1>5, <1>11, <1>14 DEF AtRest
    <2>5. todo' = l \o r
        <3>1. todo' = (l \o <<y>>) \o q
            BY <1>0, <1>1, <1>7, <1>14 DEF Then
        <3>2. \A a, b, c \in Seq(Statement) : (a \o b) \o c = a \o (b \o c)
            BY ConcatAssociative
        <3>3. <<y>> \in Seq(Statement)
            BY <1>7
        <3> DEFINE z == <<y>>
        <3> HIDE DEF z, l
        <3> QED
            BY <1>6, <2>3, <3>1, <3>2, <3>3 DEF r, z
    <2>6. e \in Seq(Cell) /\ 0 \in 0 .. Len(e) /\ Len(e) = 0
        OBVIOUS
    <2> HIDE DEF junk, e, l
    <2>7. Yields(l, <<e, 0>>, <<w, 0 + Len(junk)>>)
        BY <2>2, <2>6, YieldsWrites DEF l
    <2>8. /\ w \in Seq(Cell) /\ Len(w) = HeaderSize
          /\ \A i \in 1 .. HeaderSize : w[i] = Number(0)
        <3> DEFINE v == File!Overlay(e, Len(e), junk)
        <3>1. /\ v \in Seq(Cell) /\ Len(v) = Len(e) + Len(junk)
              /\ \A i \in 1 .. Len(junk) : v[Len(e) + i] = junk[i]
            BY <2>2, <2>6, OverlayEnd
        <3>2. w = v
            BY <2>6
        <3>3. \A i \in 1 .. HeaderSize : junk[i] = Number(0) /\ 0 + i = i
            BY <2>1 DEF junk, Junk
        <3> HIDE DEF v, w
        <3> QED
            BY <2>1, <2>2, <2>6, <3>1, <3>2, <3>3
    <2> HIDE DEF w
    <2>9. Yields(l, <<Whole', Tell'>>, <<w, HeaderSize>>)
        BY <1>10, <2>1, <2>2, <2>4, <2>7 DEF e
    <2>10. Grown(w, HeaderSize, stored)
        <3>1. EndOf(stored, 0) = HeaderSize
            BY <2>4, EndSteps, 0 \in Nat
        <3>2. Len(stored) = 0
            BY <2>4
        <3>3. HeaderSize < OffsetSpan
            BY <2>1, WidthAssumption, OffsetAssumption
        <3>4. ChunksOK(stored) /\ Held(w, stored)
            BY <3>2 DEF ChunksOK, Held
        <3> QED
            BY <2>8, <3>1, <3>2, <3>3, <3>4 DEF Grown
    <2>11. Locating(w, HeaderSize, y)'
        <3>1. status' = 1 /\ stored' = stored /\ index' = index /\ setup' = setup
            BY <1>1, <1>14
        <3>2. Grown(w, HeaderSize, stored)'
            BY <2>10, <3>1, SamePlaces
        <3>3. ChunkOK(y.chunk)'
            BY <1>6, <1>8, <3>1, SamePlaces
        <3>4. IndexHas(Len(stored))'
            BY <1>14, <2>4, <3>1 DEF IndexHas
        <3> QED
            BY <1>8, <3>1, <3>2, <3>3, <3>4 DEF Locating
    <2>12. Stage(w, HeaderSize, r)'
        <3>1. Calls(q)' /\ file' = "open"
            BY <1>1, <1>6, SamePlaces
        <3> QED
            BY <1>6, <1>9, <2>11, <3>1 DEF Stage, Amid
    <2>13. RestOK(r)
        BY <1>8, <1>9 DEF RestOK, FileNames
    <2>14. Leaves(l, r, w)
        BY <1>9, <2>3, <2>5, <2>8, <2>9, <2>13 DEF Leaves
    <2>15. /\ Leaves(l, r, w) /\ Stage(w, Len(w), r)'
           /\ stored = <<>> /\ Whole = <<>> /\ status' = 1
           /\ Len(w) = HeaderSize /\ \A i \in 1 .. HeaderSize : w[i] = Number(0)
        BY <1>1, <1>14, <2>4, <2>8, <2>12, <2>14
    <2> QED
        BY <1>14, <2>15
<1> QED
    BY <1>13, <1>14

LEMMA ChunkPends ==
    ASSUME CellsFit, WriterInv, Pending, FileInv', stored \in Seq(Chunk), ChunkBegins
    PROVE  Pending'
<1>1. /\ UNCHANGED fileVars /\ UNCHANGED <<setup, index, stored, file>>
      /\ index # <<>> => status' = status
    BY DEF ChunkBegins, streamVars, historyVars
<1>2. CASE index # <<>>
    <2>1. PICK r \in Seq(Statement) : todo' = r /\ Stage(Whole, Tell, r)
        BY <1>2, ChunkAdds
    <2> QED
        BY <1>1, <1>2, <2>1, RestAt
<1>3. CASE index = <<>>
    <2>1. PICK l, r, v : Leaves(l, r, v) /\ Stage(v, Len(v), r)'
        BY <1>3, ChunkAdds
    <2> QED
        BY <1>1, <2>1, LeavesPend
<1> QED
    BY <1>2, <1>3

\* l puts the cells d at the position of the file, wherever that is.
Lays(l, d) == \A w \in Seq(Cell) : \A o \in 0 .. Len(w) :
                  Yields(l, <<w, o>>, <<File!Overlay(w, o, d), o + Len(d)>>)

LEMMA LaysJoin ==
    ASSUME NEW l \in Seq(Statement), NEW m \in Seq(Statement), NEW a \in Seq(Cell),
           NEW b \in Seq(Cell), Lays(l, a), Lays(m, b)
    PROVE  Lays(l \o m, a \o b)
<1> SUFFICES ASSUME NEW w \in Seq(Cell), NEW o \in 0 .. Len(w)
             PROVE  Yields(l \o m, <<w, o>>,
                           <<File!Overlay(w, o, a \o b), o + Len(a \o b)>>)
    BY DEF Lays
<1> DEFINE v == File!Overlay(w, o, a)
           p == o + Len(a)
           c == a \o b
<1>1. Yields(l, <<w, o>>, <<v, p>>)
    BY DEF Lays
<1>2. v \in Seq(Cell) /\ p \in 0 .. Len(v)
    <2>1. v \in Seq(Cell) /\ Len(v) >= o + Len(a)
        BY OverlayFacts
    <2>2. o \in Nat /\ Len(a) \in Nat /\ Len(v) \in Nat
        BY <2>1
    <2> HIDE DEF v
    <2> QED
        BY <2>1, <2>2
<1>3. File!Overlay(v, p, b) = File!Overlay(w, o, c)
    BY OverlayTwice
<1>4. p + Len(b) = o + Len(c)
    <2>1. Len(c) = Len(a) + Len(b) /\ Len(a) \in Nat /\ Len(b) \in Nat /\ o \in Nat
        OBVIOUS
    <2> HIDE DEF c
    <2> QED
        BY <2>1
<1> HIDE DEF v, p
<1>5. Yields(m, <<v, p>>, <<File!Overlay(v, p, b), p + Len(b)>>)
    BY <1>2 DEF Lays
<1>6. Yields(m, <<v, p>>, <<File!Overlay(w, o, c), o + Len(c)>>)
    BY <1>3, <1>4, <1>5
<1> HIDE DEF c
<1>7. Yields(l \o m, <<w, o>>, <<File!Overlay(w, o, c), o + Len(c)>>)
    BY <1>1, <1>6, YieldsJoin
<1> QED
    BY <1>7 DEF c

LEMMA GroupsLay ==
    /\ \A c \in Cell : Lays(Put1(c), <<c>>)
    /\ \A d \in Seq(Cell) : Lays(PutAll(d), d) /\ Lays(WriteAll(d), d)
<1>1. \A c \in Cell : Lays(Put1(c), <<c>>)
    <2> SUFFICES ASSUME NEW c \in Cell, NEW w \in Seq(Cell), NEW o \in 0 .. Len(w)
                 PROVE  Yields(Put1(c), <<w, o>>,
                               <<File!Overlay(w, o, <<c>>), o + Len(<<c>>)>>)
        BY DEF Lays
    <2>1. Len(<<c>>) = 1
        OBVIOUS
    <2> QED
        BY <2>1, YieldsPut
<1>2. \A d \in Seq(Cell) : Lays(PutAll(d), d)
    BY YieldsPuts DEF Lays
<1>3. \A d \in Seq(Cell) : Lays(WriteAll(d), d)
    BY YieldsWrites DEF Lays
<1> QED
    BY <1>1, <1>2, <1>3

Follow(d, u, v, data, pad) ==
    /\ d \in Seq(Cell) /\ Len(d) = 2 + Len(data) + Len(pad)
    /\ d[1] = u /\ d[2] = v /\ \A i \in 1 .. Len(data) : d[2 + i] = data[i]

\* The cells of a chunk: what the four writes lay one behind the other
LEMMA ChunkCells ==
    ASSUME NEW u \in Cell, NEW v \in Cell, NEW data \in Seq(Cell), NEW pad \in Seq(Cell)
    PROVE  Follow(<<u>> \o <<v>> \o data \o pad, u, v, data, pad)
<1> DEFINE a == <<u>> \o <<v>>
           b == a \o data
           d == b \o pad
<1>1. a = <<u, v>>
    BY TwoCells
<1>2. a \in Seq(Cell) /\ Len(a) = 2 /\ a[1] = u /\ a[2] = v
    BY ONLY <1>1, u \in Cell, v \in Cell
<1> HIDE DEF a
<1>3. /\ b \in Seq(Cell) /\ Len(b) = 2 + Len(data) /\ b[1] = u /\ b[2] = v
      /\ \A i \in 1 .. Len(data) : b[2 + i] = data[i]
    <2>0. a \in Seq(Cell) /\ data \in Seq(Cell)
        BY <1>2
    <2>1. /\ b \in Seq(Cell) /\ Len(b) = Len(a) + Len(data)
          /\ \A i \in 1 .. Len(a) + Len(data) :
                 b[i] = IF i <= Len(a) THEN a[i] ELSE data[i - Len(a)]
        BY ONLY <2>0
    <2>2. Len(data) \in Nat
        OBVIOUS
    <2> HIDE DEF b
    <2>3. \A i \in 1 .. Len(data) : 2 + i \in 1 .. 2 + Len(data) /\ ~(2 + i <= 2)
                                    /\ (2 + i) - 2 = i
        BY <2>2
    <2> QED
        BY ONLY <1>2, <2>1, <2>2, <2>3
<1> HIDE DEF b
<1>4. /\ d \in Seq(Cell) /\ Len(d) = Len(b) + Len(pad)
      /\ \A i \in 1 .. Len(b) : d[i] = b[i]
    <2>0. b \in Seq(Cell) /\ pad \in Seq(Cell)
        BY <1>3
    <2> QED
        BY ONLY <2>0
<1> HIDE DEF d
<1>5. d[1] = u /\ d[2] = v /\ \A i \in 1 .. Len(data) : d[2 + i] = data[i]
    <2>1. Len(data) \in Nat
        OBVIOUS
    <2>2. 1 \in 1 .. Len(b) /\ 2 \in 1 .. Len(b)
          /\ \A i \in 1 .. Len(data) : 2 + i \in 1 .. Len(b)
        BY <1>3, <2>1
    <2> QED
        BY <1>3, <1>4, <2>2
<1>6. Len(d) = 2 + Len(data) + Len(pad)
    BY <1>3, <1>4
<1>7. Follow(d, u, v, data, pad)
    BY <1>4, <1>5, <1>6 DEF Follow
<1> QED
    BY <1>7 DEF d, b, a

\* A file to which a chunk was written
LEMMA GrownBy ==
    ASSUME setup \in Seq(Setup), NEW w \in Seq(Cell), NEW chunks \in Seq(Chunk),
           Grown(w, Len(w), chunks),
           NEW c, ChunkOK(c), Len(w) <= MaxOffset,
           NEW d \in Seq(Cell), Len(d) = 2 + Even(c.size),
           setup[c.stream].encoder = FALSE =>
               \A i \in 1 .. c.size : d[2 + i] = <<"byte", c.number>>
    PROVE  LET v == File!Overlay(w, Len(w), d)
               more == Append(chunks, c)
           IN  /\ Grown(v, Len(v), more) /\ v \in Seq(Cell)
               /\ BeginOf(more, Len(more)) = Len(w)
               /\ \A k \in 1 .. Len(chunks) : EntryOf(more, k) = EntryOf(chunks, k)
<1> DEFINE v == File!Overlay(w, Len(w), d)
           more == Append(chunks, c)
           n == Len(chunks)
<1>1. c \in Chunk /\ c.size \in Nat /\ MaxOffset + 2 + Even(c.size) < OffsetSpan
      /\ Even(c.size) \in Nat
    BY EvenIsNat DEF ChunkOK, Chunk
<1>2. /\ n \in Nat /\ more \in Seq(Chunk) /\ Len(more) = n + 1 /\ more[n + 1] = c
      /\ \A k \in 1 .. n : more[k] = chunks[k] /\ chunks[k] \in Chunk
    BY <1>1
<1>3. /\ Len(w) = EndOf(chunks, n) /\ Len(w) < OffsetSpan
      /\ ChunksOK(chunks) /\ Held(w, chunks)
    BY DEF Grown
<1>4. \A k \in 1 .. n : chunks[k].size \in Nat
    BY <1>2 DEF Chunk
<1>5. /\ v \in Seq(Cell) /\ Len(v) = Len(w) + Len(d)
      /\ \A i \in 1 .. Len(w) : v[i] = w[i]
      /\ \A i \in 1 .. Len(d) : v[Len(w) + i] = d[i]
    BY OverlayEnd
<1> HIDE DEF v, more, n
<1>6. \A k \in 0 .. n : EndOf(chunks, k) = EndOf(more, k)
    BY <1>2, <1>4, EndSame
<1>7. \A k \in 1 .. n + 1 : more[k].size \in Nat
    <2> SUFFICES ASSUME NEW k \in 1 .. n + 1 PROVE more[k].size \in Nat
        OBVIOUS
    <2>1. CASE k = n + 1
        BY <1>1, <1>2, <2>1
    <2>2. CASE k # n + 1
        <3>1. k \in 1 .. n
            BY <1>2, <2>2
        <3> QED
            BY <1>2, <1>4, <3>1
    <2> QED
        BY <2>1, <2>2
<1>8. /\ n + 1 \in Nat /\ n + 1 \in 1 .. n + 1 /\ n \in 0 .. n
      /\ (n + 1) - 1 = n
    BY <1>2
<1>9. \A k \in 1 .. n + 1 :
         EndOf(more, k) = EndOf(more, k - 1) + 2 + Even(more[k].size)
    BY <1>7, <1>8, EndSteps
<1>10. EndOf(more, n + 1) = Len(w) + 2 + Even(c.size) /\ EndOf(more, n) = Len(w)
    BY <1>2, <1>3, <1>6, <1>8, <1>9
<1>11. Len(v) = EndOf(more, n + 1) /\ Len(v) < OffsetSpan
    <2>1. Len(w) \in Nat /\ MaxOffset \in Nat /\ OffsetSpan \in Nat
        BY OffsetAssumption
    <2> QED
        BY <1>1, <1>5, <1>10, <2>1
<1>12. ChunksOK(more)
    <2> SUFFICES ASSUME NEW k \in 1 .. n + 1 PROVE ChunkOK(more[k])
        BY <1>2 DEF ChunksOK
    <2>1. CASE k = n + 1
        BY <1>2, <2>1
    <2>2. CASE k # n + 1
        <3>1. k \in 1 .. n
            BY <1>2, <2>2
        <3> QED
            BY <1>2, <1>3, <3>1 DEF ChunksOK, n
    <2> QED
        BY <2>1, <2>2
<1>13. Held(v, more)
    <2> SUFFICES ASSUME NEW k \in 1 .. n + 1, setup[more[k].stream].encoder = FALSE,
                        NEW i \in 1 .. more[k].size
                 PROVE  v[BeginOf(more, k) + 2 + i] = <<"byte", more[k].number>>
        BY <1>2 DEF Held
    <2>1. CASE k = n + 1
        <3>1. BeginOf(more, k) = Len(w) /\ more[k] = c
            BY <1>2, <1>8, <1>10, <2>1 DEF BeginOf
        <3>2. 2 + i \in 1 .. Len(d) /\ Len(w) + (2 + i) = Len(w) + 2 + i
            <4>0. c.size <= Even(c.size)
                BY <1>1, EvenIsNat
            <4>2. i \in 1 .. c.size
                BY <3>1
            <4>1. i \in Nat /\ 1 <= i /\ i <= c.size /\ c.size <= Even(c.size)
                  /\ Len(w) \in Nat
                BY ONLY <1>1, <4>0, <4>2, w \in Seq(Cell)
            <4> QED
                BY <1>1, <4>1
        <3>3. v[Len(w) + (2 + i)] = d[2 + i]
            BY <1>5, <3>2
        <3> QED
            BY <3>1, <3>2, <3>3
    <2>2. CASE k # n + 1
        <3>1. k \in 1 .. n /\ k - 1 \in 0 .. n /\ k \in 0 .. n /\ k \in 1 .. n + 1
            BY <1>2, <2>2
        <3>2. more[k] = chunks[k] /\ BeginOf(more, k) = BeginOf(chunks, k)
            BY <1>2, <1>6, <3>1 DEF BeginOf
        <3> DEFINE p == BeginOf(chunks, k) + 2 + i
        <3>3. w[p] = <<"byte", more[k].number>>
            BY <1>3, <3>1, <3>2 DEF Held, n
        <3>4. p \in 1 .. Len(w)
            <4>1. \A j, m \in 0 .. n : j <= m => EndOf(chunks, j) <= EndOf(chunks, m)
                BY <1>2, <1>4, EndGrows
            <4>2. /\ EndOf(chunks, k - 1) \in Nat /\ EndOf(chunks, k) \in Nat
                  /\ EndOf(chunks, k) = EndOf(chunks, k - 1) + 2 + Even(chunks[k].size)
                BY <1>2, <1>4, <3>1, EndSteps
            <4>3. EndOf(chunks, k) <= Len(w)
                BY <1>3, <1>8, <3>1, <4>1
            <4>4. i \in Nat /\ 1 <= i /\ i <= Even(chunks[k].size)
                  /\ Even(chunks[k].size) \in Nat /\ Len(w) \in Nat
                <5>1. /\ chunks[k].size \in Nat /\ Even(chunks[k].size) \in Nat
                      /\ Even(chunks[k].size) >= chunks[k].size
                    BY <1>4, <3>1, EvenIsNat
                <5>2. i \in 1 .. chunks[k].size
                    BY <3>2
                <5> QED
                    BY <5>1, <5>2
            <4>5. \A a, b, e, f, h \in Nat : b = a + 2 + e /\ b <= f /\ 1 <= h /\ h <= e
                        => a + 2 + h \in 1 .. f
                OBVIOUS
            <4> QED
                BY ONLY <4>2, <4>3, <4>4, <4>5 DEF BeginOf
        <3> HIDE DEF p
        <3>5. v[p] = w[p]
            BY <1>5, <3>4
        <3> QED
            BY <3>2, <3>3, <3>5 DEF p
    <2> QED
        BY <2>1, <2>2
<1>14. Grown(v, Len(v), more)
    BY <1>2, <1>11, <1>12, <1>13 DEF Grown
<1>15. BeginOf(more, Len(more)) = Len(w)
    BY <1>2, <1>8, <1>10 DEF BeginOf
<1>16. \A k \in 1 .. n : EntryOf(more, k) = EntryOf(chunks, k)
    <2> SUFFICES ASSUME NEW k \in 1 .. n PROVE EntryOf(more, k) = EntryOf(chunks, k)
        OBVIOUS
    <2>1. k - 1 \in 0 .. n /\ more[k] = chunks[k]
        BY <1>2
    <2>2. BeginOf(more, k) = BeginOf(chunks, k)
        BY <1>6, <2>1 DEF BeginOf
    <2> QED
        BY <2>1, <2>2 DEF EntryOf
<1> QED
    BY <1>5, <1>14, <1>15, <1>16 DEF v, more, n

\* What AddChunk finds at the pointer it was given has the chunk's size.
LEMMA ChunkData ==
    ASSUME CellsFit, Quiet, NEW c, ChunkOK(c), NEW data \in Payloads(c)
    PROVE  /\ data \in Seq(Cell) /\ Len(data) = c.size
           /\ Padding(data) \in Seq(Cell)
           /\ c.size + Len(Padding(data)) = Even(c.size)
           /\ setup[c.stream].encoder = FALSE =>
                 \A i \in 1 .. c.size : data[i] = <<"byte", c.number>>
<1>1. c \in Chunk /\ c.size \in Nat /\ c.stream \in Streams
    BY DEF ChunkOK, Chunk
<1>2. data \in Seq(Cell) /\ Padding(data) \in Seq(Cell)
    BY <1>1, PayloadsFit, PartsFit
<1>3. \E byte : data = Payload(c, byte)
    BY DEF Payloads
<1>4. Len(data) = c.size
    <2>1. \A byte : Len(Payload(c, byte)) = c.size
        BY <1>1 DEF Payload
    <2> QED
        BY <1>3, <2>1
<1>5. c.size + Len(Padding(data)) = Even(c.size)
    <2>1. CASE Len(data) % 2 = 1
        <3>1. Padding(data) = <<data[1]>>
            BY <2>1 DEF Padding
        <3>2. Len(<<data[1]>>) = 1
            OBVIOUS
        <3> QED
            BY <1>4, <2>1, <3>1, <3>2 DEF Even
    <2>2. CASE ~(Len(data) % 2 = 1)
        <3>1. Padding(data) = <<>>
            BY <2>2 DEF Padding
        <3>2. c.size % 2 = 0
            BY <1>1, <1>4, <2>2
        <3> QED
            BY <1>1, <3>1, <3>2 DEF Even
    <2> QED
        BY <2>1, <2>2
<1>6. setup[c.stream].encoder = FALSE =>
          \A i \in 1 .. c.size : data[i] = <<"byte", c.number>>
    <2> SUFFICES ASSUME setup[c.stream].encoder = FALSE
                 PROVE  \A i \in 1 .. c.size : data[i] = <<"byte", c.number>>
        OBVIOUS
    <2>1. encoding[c.stream] = 0 /\ c.encoding = 0
        BY <1>1 DEF Quiet, ChunkOK
    <2>2. data = Payload(c, c.number)
        BY <2>1 DEF Payloads
    <2> QED
        BY <2>2 DEF Payload
<1> QED
    BY <1>2, <1>4, <1>5, <1>6

\* The four writes of a chunk
ChunkWrites(c, data) == Put1(ChunkId(c.stream)) \o Put1(Number(c.size))
                        \o WriteAll(data) \o WriteAll(Padding(data))
CellsOf(c, data) == <<ChunkId(c.stream)>> \o <<Number(c.size)>>
                    \o data \o Padding(data)

LEMMA ChunkLaid ==
    ASSUME CellsFit, Quiet, NEW c, ChunkOK(c), NEW data \in Payloads(c), StreamsOK
    PROVE  LET l == ChunkWrites(c, data)
               d == CellsOf(c, data)
           IN  /\ l \in Seq(Statement) /\ Appends(l) /\ Lays(l, d)
               /\ d \in Seq(Cell) /\ Len(d) = 2 + Even(c.size)
               /\ d[1] = ChunkId(c.stream) /\ d[2] = Number(c.size)
               /\ setup[c.stream].encoder = FALSE =>
                     \A i \in 1 .. c.size : d[2 + i] = <<"byte", c.number>>
<1> DEFINE pad == Padding(data)
           u == ChunkId(c.stream)
           v == Number(c.size)
<1>1. /\ data \in Seq(Cell) /\ Len(data) = c.size /\ pad \in Seq(Cell)
      /\ c.size + Len(pad) = Even(c.size)
      /\ setup[c.stream].encoder = FALSE =>
            \A i \in 1 .. c.size : data[i] = <<"byte", c.number>>
    BY ChunkData
<1>2. u \in Cell /\ v \in Cell /\ c.size \in Nat
    <2>1. c.size \in Nat /\ c.stream \in DOMAIN setup /\ setup \in Seq(Setup)
        BY DEF ChunkOK, Chunk, Streams, StreamsOK
    <2>2. c.stream \in Int
        BY <2>1
    <2> QED
        BY <2>1, <2>2, CellsAre
<1> HIDE DEF pad, u, v
<1> DEFINE l1 == Put1(u)
           l2 == Put1(v)
           l3 == WriteAll(data)
           l4 == WriteAll(pad)
           d1 == <<u>>
           d2 == <<v>>
<1>3. /\ l1 \in Seq(Statement) /\ l2 \in Seq(Statement)
      /\ l3 \in Seq(Statement) /\ l4 \in Seq(Statement)
    BY <1>1, <1>2, GroupsFit
<1>4. Appends(l1) /\ Appends(l2) /\ Appends(l3) /\ Appends(l4)
    BY <1>1, <1>2, GroupsAppend
<1>5. Lays(l1, d1) /\ Lays(l2, d2) /\ Lays(l3, data) /\ Lays(l4, pad)
    BY <1>1, <1>2, GroupsLay
<1>6. d1 \in Seq(Cell) /\ d2 \in Seq(Cell)
    BY <1>2
<1> HIDE DEF l1, l2, l3, l4, d1, d2
<1>7. l1 \o l2 \in Seq(Statement) /\ Appends(l1 \o l2) /\ Lays(l1 \o l2, d1 \o d2)
      /\ d1 \o d2 \in Seq(Cell)
    BY <1>3, <1>4, <1>5, <1>6, AppendsJoin, LaysJoin
<1> DEFINE l5 == l1 \o l2
           d5 == d1 \o d2
<1> HIDE DEF l5, d5
<1>8. l5 \in Seq(Statement) /\ Appends(l5) /\ Lays(l5, d5) /\ d5 \in Seq(Cell)
    BY <1>7 DEF l5, d5
<1>9. l5 \o l3 \in Seq(Statement) /\ Appends(l5 \o l3) /\ Lays(l5 \o l3, d5 \o data)
      /\ d5 \o data \in Seq(Cell)
    BY <1>1, <1>3, <1>4, <1>5, <1>8, AppendsJoin, LaysJoin
<1> DEFINE l6 == l5 \o l3
           d6 == d5 \o data
<1> HIDE DEF l6, d6
<1>10. l6 \in Seq(Statement) /\ Appends(l6) /\ Lays(l6, d6) /\ d6 \in Seq(Cell)
    BY <1>9 DEF l6, d6
<1>11. l6 \o l4 \in Seq(Statement) /\ Appends(l6 \o l4) /\ Lays(l6 \o l4, d6 \o pad)
    BY <1>1, <1>3, <1>4, <1>5, <1>10, AppendsJoin, LaysJoin
<1> DEFINE d == <<u>> \o <<v>> \o data \o pad
<1>12. /\ d \in Seq(Cell) /\ Len(d) = 2 + Len(data) + Len(pad)
       /\ d[1] = u /\ d[2] = v /\ \A i \in 1 .. Len(data) : d[2 + i] = data[i]
    <2>1. Follow(d, u, v, data, pad)
        BY <1>1, <1>2, ChunkCells
    <2> HIDE DEF d
    <2> QED
        BY <2>1 DEF Follow
<1>13. d6 \o pad = d
    BY DEF d6, d5, d1, d2
<1> HIDE DEF d
<1>14. Len(d) = 2 + Even(c.size)
    <2>1. Len(pad) \in Nat /\ Len(data) \in Nat
        BY <1>1
    <2> QED
        BY ONLY <1>1, <1>2, <1>12, <2>1
<1>15. l6 \o l4 = ChunkWrites(c, data)
    BY DEF l6, l5, l4, l3, l2, l1, u, v, pad, ChunkWrites
<1>16. d = CellsOf(c, data)
    BY DEF d, u, v, pad, CellsOf
<1>17. setup[c.stream].encoder = FALSE =>
            \A i \in 1 .. c.size : d[2 + i] = <<"byte", c.number>>
    BY <1>1, <1>12
<1> QED
    BY <1>11, <1>12, <1>13, <1>14, <1>15, <1>16, <1>17 DEF u, v

LEMMA LocateAdds ==
    ASSUME CellsFit, FileInv, WriterInv, Quiet, Pending, Locate
    PROVE  \E c, d, l, r, v :
              /\ Leaves(l, r, v) /\ Stage(v, Len(v), r)'
              /\ stored' = Append(stored, c) /\ ChunkOK(c) /\ Grown(Whole, Len(Whole), stored)
              /\ Grown(v, Len(v), stored') /\ BeginOf(stored', Len(stored')) = Len(Whole)
              /\ d \in Seq(Cell) /\ v = File!Overlay(Whole, Len(Whole), d)
              /\ Len(d) = 2 + Even(c.size)
              /\ d[1] = ChunkId(c.stream) /\ d[2] = Number(c.size)
<1>0. PICK x, q, w, more, n : /\ x = Head(todo) /\ q = Tail(todo) /\ w = Whole
                              /\ more = Append(stored, x.chunk) /\ n = Len(stored)
    OBVIOUS
<1> DEFINE c == x.chunk
<1>1. PICK data \in Payloads(c) :
        /\ Doing("locate") /\ Tell % OffsetSpan <= MaxOffset
        /\ Then(Put1(ChunkId(c.stream)) \o Put1(Number(c.size))
                \o WriteAll(data) \o WriteAll(Padding(data))
                \o <<[do |-> "entry", chunk |-> c,
                      offset |-> (Tell % OffsetSpan) - (HeaderSize - 1)]>>)
        /\ stored' = Append(stored, c)
        /\ UNCHANGED fileVars /\ UNCHANGED <<setup, status, index, file>>
    BY <1>0 DEF Locate, streamVars, writerVars
<1>2. "locate" \notin FileNames
    BY DEF FileNames
<1>3. /\ todo \in Seq(Statement) /\ todo # <<>> /\ x.do = "locate"
      /\ Stage(Whole, Tell, todo)
    BY <1>0, <1>1, <1>2, Doings
<1>4. Amid(w, Tell, todo) /\ Locating(w, Tell, x)
    BY <1>0, <1>3, StageNamed
<1>5. /\ file = "open" /\ Calls(q) /\ InOrder(q) /\ q \in Seq(Statement)
      /\ status = 1 /\ ChunkOK(c) /\ Grown(w, Tell, stored) /\ IndexHas(n)
    BY <1>0, <1>3, <1>4 DEF Amid, Locating
<1>6. w \in Seq(Cell) /\ Tell = Len(w) /\ Len(w) < OffsetSpan /\ stored \in Seq(Chunk)
    BY <1>0, <1>5, WholeFacts DEF Grown, ChunksOK
<1>7. Tell % OffsetSpan = Len(w) /\ Len(w) <= MaxOffset
    <2>1. Len(w) \in Nat /\ OffsetSpan \in Nat /\ OffsetSpan > 0
        BY <1>6, OffsetAssumption
    <2>2. Len(w) % OffsetSpan = Len(w)
        BY <1>6, <2>1
    <2> QED
        BY <1>1, <1>6, <2>2
<1>8. c \in Chunk /\ c.size \in Nat
    BY <1>5 DEF ChunkOK, Chunk
<1> DEFINE l == ChunkWrites(c, data)
           d == CellsOf(c, data)
           y == [do |-> "entry", chunk |-> c, offset |-> Len(w) - (HeaderSize - 1)]
           r == <<y>> \o q
           v == File!Overlay(w, Len(w), d)
<1>9. /\ l \in Seq(Statement) /\ Appends(l) /\ Lays(l, d)
      /\ d \in Seq(Cell) /\ Len(d) = 2 + Even(c.size)
      /\ d[1] = ChunkId(c.stream) /\ d[2] = Number(c.size)
      /\ setup[c.stream].encoder = FALSE =>
            \A i \in 1 .. c.size : d[2 + i] = <<"byte", c.number>>
    BY <1>5, ChunkLaid DEF WriterInv
<1>10. y \in Statement /\ y.do = "entry" /\ y.chunk = c
       /\ y.offset = Len(w) - (HeaderSize - 1)
    <2>1. Len(w) - (HeaderSize - 1) \in Int
        BY <1>6, HeaderAssumption
    <2> QED
        BY <1>8, <2>1, StatementsFit
<1>11. todo' = l \o r
    <2>1. todo' = (l \o <<y>>) \o q
        BY <1>0, <1>1, <1>7 DEF Then, ChunkWrites
    <2> HIDE DEF l, y
    <2>2. \A a, b, e \in Seq(Statement) : (a \o b) \o e = a \o (b \o e)
        BY ConcatAssociative
    <2> DEFINE z == <<y>>
    <2>3. z \in Seq(Statement)
        BY <1>10
    <2> HIDE DEF z
    <2> QED
        BY <1>5, <1>9, <2>1, <2>2, <2>3 DEF z
<1> HIDE DEF y, c, l, d
<1>12. r \in Seq(Statement) /\ r # <<>> /\ Head(r) = y /\ Tail(r) = q
    BY <1>5, <1>10
<1>13. /\ Grown(v, Len(v), more) /\ v \in Seq(Cell)
       /\ BeginOf(more, Len(more)) = Len(w)
       /\ \A k \in 1 .. n : EntryOf(more, k) = EntryOf(stored, k)
    <2>1. more = Append(stored, c) /\ n = Len(stored)
        BY <1>0 DEF c
    <2>2. setup \in Seq(Setup) /\ Grown(w, Len(w), stored)
        BY <1>5, <1>6 DEF WriterInv, StreamsOK
    <2>3. /\ Grown(v, Len(v), Append(stored, c)) /\ v \in Seq(Cell)
          /\ BeginOf(Append(stored, c), Len(Append(stored, c))) = Len(w)
          /\ \A k \in 1 .. Len(stored) :
                EntryOf(Append(stored, c), k) = EntryOf(stored, k)
        BY <1>5, <1>6, <1>7, <1>9, <2>2, GrownBy
    <2> QED
        BY <2>1, <2>3
<1>14. Len(v) = Len(w) + Len(d) /\ Len(v) \in Nat
    <2>1. Len(v) = Len(w) + Len(d)
        BY <1>6, <1>9, OverlayEnd
    <2> QED
        BY <1>6, <1>9, <2>1
<1>15. Whole' = w /\ Tell' = Len(w)
    BY <1>0, <1>1, <1>6 DEF fileVars, Whole, Tell
<1>16. Yields(l, <<Whole', Tell'>>, <<v, Len(v)>>)
    <2>1. Len(w) \in 0 .. Len(w)
        BY <1>6
    <2>2. Yields(l, <<w, Len(w)>>, <<v, Len(w) + Len(d)>>)
        BY <1>6, <1>9, <2>1 DEF Lays
    <2> QED
        BY <1>14, <1>15, <2>2
<1>17. more \in Seq(Chunk) /\ Len(more) = n + 1 /\ more # <<>> /\ more[n + 1] = c
       /\ (n + 1) - 1 = n /\ n \in Nat
    BY <1>0, <1>6, <1>8 DEF c
<1> HIDE DEF v, r
<1>18. Entering(v, Len(v), y)'
    <2>1. stored' = more /\ status' = 1 /\ index' = index /\ setup' = setup
        BY <1>0, <1>1, <1>5 DEF c
    <2>2. Grown(v, Len(v), more)'
        BY <1>13, <2>1, SamePlaces
    <2>3. IndexHas(Len(stored) - 1)'
        <3>1. Len(index) = n /\ \A k \in 1 .. n : index[k] = EntryOf(more, k)
            BY <1>5, <1>13 DEF IndexHas
        <3> QED
            BY <1>17, <2>1, <3>1 DEF IndexHas
    <2> QED
        BY <1>10, <1>13, <1>17, <2>1, <2>2, <2>3 DEF Entering
<1>19. Stage(v, Len(v), r)'
    <2>1. Calls(q)' /\ file' = "open"
        BY <1>1, <1>5, SamePlaces
    <2> QED
        BY <1>5, <1>12, <1>18, <2>1 DEF Stage, Amid
<1>20. RestOK(r)
    BY <1>10, <1>12 DEF RestOK, FileNames
<1>21. Leaves(l, r, v)
    BY <1>9, <1>11, <1>12, <1>13, <1>16, <1>20 DEF Leaves
<1>22. /\ stored' = Append(stored, c) /\ ChunkOK(c) /\ Grown(Whole, Len(Whole), stored)
       /\ Grown(v, Len(v), stored') /\ BeginOf(stored', Len(stored')) = Len(Whole)
       /\ v = File!Overlay(Whole, Len(Whole), d)
    BY <1>0, <1>1, <1>5, <1>6, <1>13 DEF c, v
<1> QED
    BY <1>9, <1>19, <1>21, <1>22

LEMMA LocatePends ==
    ASSUME CellsFit, FileInv, WriterInv, Quiet, Pending, Locate
    PROVE  Pending'
<1>1. setup' = setup
    BY DEF Locate, streamVars
<1>2. PICK l, r, v : Leaves(l, r, v) /\ Stage(v, Len(v), r)'
    BY LocateAdds
<1> QED
    BY <1>1, <1>2, LeavesPend

\* A chunk that is refused is never the first of its file.
LEMMA RefusePends ==
    ASSUME WriterInv, Pending, FileInv', Refuse
    PROVE  Pending'
<1> DEFINE x == Head(todo)
           r == IF todo[Len(todo)].do = "closed" THEN Call("closed") ELSE <<>>
<1>1. /\ Doing("locate") /\ Tell % OffsetSpan > MaxOffset /\ todo' = r
      /\ UNCHANGED fileVars /\ UNCHANGED <<setup, status, index, stored, file>>
    BY DEF Refuse, streamVars, writerVars, historyVars
<1>2. "locate" \notin FileNames
    BY DEF FileNames
<1>3. /\ todo \in Seq(Statement) /\ todo # <<>> /\ x.do = "locate"
      /\ Stage(Whole, Tell, todo)
    BY <1>1, <1>2, Doings
<1>4. Amid(Whole, Tell, todo) /\ Locating(Whole, Tell, x)
    BY <1>3, StageNamed
<1>5. file = "open" /\ status = 1 /\ Grown(Whole, Tell, stored) /\ IndexHas(Len(stored))
    BY <1>4 DEF Amid, Locating
<1>6. stored # <<>>
    <2> SUFFICES ASSUME stored = <<>> PROVE FALSE
        OBVIOUS
    <2>1. Len(stored) = 0
        OBVIOUS
    <2>2. EndOf(stored, 0) = HeaderSize
        BY <2>1, EndSteps, 0 \in Nat
    <2>3. Tell = HeaderSize /\ Tell < OffsetSpan
        BY <1>5, <2>1, <2>2 DEF Grown
    <2>4. HeaderSize \in Nat /\ OffsetSpan \in Nat /\ HeaderSize <= MaxOffset /\ MaxOffset \in Nat
        BY HeaderAssumption, OffsetAssumption
    <2>5. Tell % OffsetSpan = HeaderSize
        BY <2>3, <2>4
    <2> QED
        BY <1>1, <2>4, <2>5
<1>7. AtRest(Whole, Tell)
    BY <1>5, <1>6 DEF AtRest
<1>8. r \in Seq(Statement) /\ Calls(r) /\ InOrder(r)
    <2>1. CASE todo[Len(todo)].do = "closed"
        <3> DEFINE y == [do |-> "closed"]
        <3>1. y \in Statement /\ y.do = "closed"
            <4>1. "closed" \in Plain
                BY DEF Plain
            <4> QED
                BY <4>1, StatementsFit
        <3>2. r = <<y>>
            BY <2>1 DEF Call
        <3> HIDE DEF y, r
        <3>3. r \in Seq(Statement) /\ Len(r) = 1 /\ r[1] = y
            BY <3>1, <3>2
        <3>4. \A i \in 1 .. Len(r) : r[i].do = "closed"
            BY <3>1, <3>3
        <3> QED
            BY <3>3, <3>4 DEF Calls, InOrder, CallNames
    <2>2. CASE ~(todo[Len(todo)].do = "closed")
        <3>1. r = <<>>
            BY <2>2
        <3> HIDE DEF r
        <3>2. r \in Seq(Statement) /\ Len(r) = 0
            BY <3>1
        <3> QED
            BY <3>2 DEF Calls, InOrder
    <2> QED
        BY <2>1, <2>2
<1> HIDE DEF r
<1>9. Stage(Whole, Tell, r)
    BY <1>5, <1>7, <1>8 DEF Stage, Resting
<1> QED
    BY <1>1, <1>8, <1>9, RestAt

\* The entry of the chunk that was written last
LEMMA EnterPends ==
    ASSUME WriterInv, Pending, FileInv', Enter
    PROVE  Pending'
<1>0. PICK x, q, w, t, n, e, r :
         /\ x = Head(todo) /\ q = Tail(todo) /\ w = Whole /\ t = Tell /\ n = Len(stored)
         /\ e = [stream |-> x.chunk.stream, key |-> x.chunk.key,
                 offset |-> x.offset, size |-> x.chunk.size]
         /\ r = todo'
    OBVIOUS
<1>1. /\ Doing("entry") /\ index' = Append(index, e)
      /\ Then(Call("headers")) \/ Then(<<>>)
      /\ UNCHANGED fileVars /\ UNCHANGED <<setup, status, stored, file>>
    <2>1. /\ Doing("entry") /\ index' = Append(index, e)
          /\ Then(IF Len(index') % HeaderEvery = 1 THEN Call("headers") ELSE <<>>)
          /\ UNCHANGED fileVars /\ UNCHANGED <<setup, status, stored, file>>
        BY <1>0 DEF Enter, streamVars, historyVars
    <2> QED
        BY <2>1
<1>2. "entry" \notin FileNames
    BY DEF FileNames
<1>3. /\ todo \in Seq(Statement) /\ todo # <<>> /\ x.do = "entry"
      /\ Stage(Whole, Tell, todo)
    BY <1>0, <1>1, <1>2, Doings
<1>4. Amid(w, t, todo) /\ Entering(w, t, x)
    BY <1>0, <1>3, StageNamed
<1>5. /\ file = "open" /\ Calls(q) /\ InOrder(q) /\ q \in Seq(Statement)
      /\ status = 1 /\ stored # <<>> /\ x.chunk = stored[n]
      /\ x.offset = BeginOf(stored, n) - (HeaderSize - 1)
      /\ Grown(w, t, stored) /\ IndexHas(n - 1)
    BY <1>0, <1>3, <1>4 DEF Amid, Entering
<1>6. stored \in Seq(Chunk) /\ n \in Nat /\ n >= 1
    BY <1>0, <1>5 DEF Grown, ChunksOK
<1>7. e = EntryOf(stored, n)
    BY <1>0, <1>5 DEF EntryOf
<1>8. Len(index') = n /\ \A k \in 1 .. n : index'[k] = EntryOf(stored, k)
    <2>1. /\ index \in Seq(Entry) /\ Len(index) = n - 1
          /\ \A k \in 1 .. n - 1 : index[k] = EntryOf(stored, k)
        BY <1>5 DEF WriterInv, WriterOK, IndexHas
    <2>2. /\ Len(index') = n /\ index'[n] = e
          /\ \A k \in 1 .. n - 1 : index'[k] = index[k]
        BY <1>1, <1>6, <2>1
    <2>3. \A k \in 1 .. n : k = n \/ k \in 1 .. n - 1
        BY <1>6
    <2> QED
        BY <1>7, <2>1, <2>2, <2>3
<1>9. AtRest(w, t)'
    <2>1. setup' = setup /\ status' = 1 /\ stored' = stored /\ stored # <<>>
        BY <1>1, <1>5
    <2>2. Grown(w, t, stored)'
        BY <1>5, <2>1, SamePlaces
    <2>3. IndexHas(Len(stored))'
        BY <1>0, <1>8, <2>1 DEF IndexHas
    <2> QED
        BY <2>1, <2>2, <2>3 DEF AtRest
<1>10. Calls(q)' /\ file' = "open" /\ setup' = setup
    BY <1>1, <1>5, SamePlaces
<1>11. Whole' = w /\ Tell' = t
    BY <1>0, <1>1 DEF fileVars, Whole, Tell
<1>12. CASE Then(<<>>)
    <2>1. todo' = q
        BY <1>0, <1>5, <1>12, NoStatement DEF Then
    <2>2. Stage(w, t, q)'
        BY <1>5, <1>9, <1>10 DEF Stage, Resting
    <2> QED
        BY <1>5, <1>10, <1>11, <2>1, <2>2, PendingAt
<1>13. CASE Then(Call("headers"))
    <2>1. r = Call("headers") \o q
        BY <1>0, <1>13 DEF Then
    <2>2. Call("headers") \in Seq(Statement)
        <3>1. "headers" \in Plain
            BY DEF Plain
        <3> QED
            BY <3>1, GroupsFit
    <2>3. r \in Seq(Statement)
        BY <1>5, <2>1, <2>2, Joined
    <2>4. r # <<>> /\ Head(r) = [do |-> "headers"] /\ Tail(r) = q
        BY <1>5, <2>1, CallHead
    <2>5. Head(r).do = "headers"
        BY <2>4
    <2>6. Stage(w, t, r)'
        BY <1>5, <1>9, <1>10, <2>4, <2>5 DEF Stage, Amid
    <2> QED
        BY <1>0, <1>10, <1>11, <2>3, <2>6, PendingAt
<1> QED
    BY <1>1, <1>12, <1>13

\* The end of the chunks is even: finish has nothing to pad.
LEMMA RestIsEven ==
    ASSUME NEW w, NEW t, AtRest(w, t)
    PROVE  t % 2 = 0
<1>1. CASE status = 0
    BY <1>1 DEF AtRest
<1>2. CASE ~(status = 0)
    <2>1. ChunksOK(stored) /\ t = EndOf(stored, Len(stored))
        BY <1>2 DEF AtRest, Grown
    <2>2. Len(stored) \in Nat /\ \A k \in 1 .. Len(stored) : stored[k].size \in Nat
        <3>1. stored \in Seq(Chunk)
            BY <2>1 DEF ChunksOK
        <3>2. Len(stored) \in Nat /\ \A k \in 1 .. Len(stored) : stored[k] \in Chunk
            BY <3>1
        <3>3. \A c \in Chunk : c.size \in Nat
            BY DEF Chunk
        <3> QED
            BY <3>2, <3>3
    <2>3. \A k \in 0 .. Len(stored) : EndOf(stored, k) % 2 = 0
        BY <2>2, EndEven
    <2> QED
        BY <2>1, <2>2, <2>3
<1> QED
    BY <1>1, <1>2

\* The stops of all streams
LEMMA StopsFacts ==
    ASSUME StreamsOK
    PROVE  StopAll \in Seq(Statement) /\ (\A i \in 1 .. Len(StopAll) : Before(StopAll[i]))
           /\ Calls(StopAll)
<1>1. StopAll \in Seq(Statement)
    BY StopsFit
<1>2. setup \in Seq(Setup) /\ DOMAIN setup = 1 .. Len(setup) /\ Len(setup) \in Nat
    BY DEF StreamsOK
<1>3. Len(StopAll) = Len(setup)
      /\ \A i \in 1 .. Len(setup) : StopAll[i] = [do |-> "stop", stream |-> i]
    BY <1>2 DEF StopAll
<1>4. \A i \in 1 .. Len(StopAll) : StopAll[i].do = "stop"
    <2>1. \A i : [do |-> "stop", stream |-> i].do = "stop"
        OBVIOUS
    <2> QED
        BY <1>3, <2>1
<1>5. Calls(StopAll)
    BY <1>4 DEF Calls, CallNames
<1>6. \A i \in 1 .. Len(StopAll) : Before(StopAll[i])
    BY <1>4 DEF Before
<1> QED
    BY <1>1, <1>5, <1>6

LEMMA FinishGoes ==
    ASSUME WriterInv, Pending, Finish
    PROVE  \E q \in Seq(Statement) :
              /\ todo' = AfterFinish(q) /\ AfterFinish(q) \in Seq(Statement)
              /\ Stage(Whole, Tell, AfterFinish(q))
<1> DEFINE x == Head(todo)
           p == Tail(todo)
           h == Call("headers")
           i == Call("index")
           z == Call("riffSize")
           d == Call("delete")
           q == StopAll \o p
           r == AfterFinish(q)
<1>1. /\ Doing("finish")
      /\ Then((IF Tell % 2 = 1 THEN WriteAll(Junk(1)) ELSE <<>>)
              \o h \o i \o z \o d \o StopAll)
      /\ UNCHANGED fileVars /\ UNCHANGED <<setup, status, index, stored, file>>
    BY DEF Finish, streamVars, writerVars, historyVars
<1>2. "finish" \notin FileNames
    BY DEF FileNames
<1>3. /\ todo \in Seq(Statement) /\ todo # <<>> /\ x.do = "finish"
      /\ Stage(Whole, Tell, todo)
    BY <1>1, <1>2, Doings
<1>4. Resting(Whole, Tell, todo)
    BY <1>3, StageNamed
<1>5. file = "open" /\ AtRest(Whole, Tell) /\ Calls(todo) /\ InOrder(todo)
    BY <1>4 DEF Resting
<1>6. p \in Seq(Statement) /\ Calls(p) /\ NoFinish(p) /\ Ends(p, 0)
    BY <1>3, <1>5, TailFacts
<1>7. StopAll \in Seq(Statement) /\ (\A j \in 1 .. Len(StopAll) : Before(StopAll[j]))
      /\ Calls(StopAll)
    <2>1. StreamsOK
        BY DEF WriterInv
    <2> QED
        BY ONLY <2>1, StopsFacts, Zenon
<1>8. q \in Seq(Statement) /\ Closing(q)
    <2>1. q \in Seq(Statement)
        BY <1>6, <1>7
    <2>2. Calls(q)
        BY <1>6, <1>7, FrontFacts
    <2>3. NoFinish(StopAll)
        BY <1>7, <1>6, FrontFacts
    <2>4. NoFinish(q) /\ Ends(q, 0)
        BY <1>6, <1>7, <2>3, FrontFacts
    <2> HIDE DEF q
    <2> QED
        BY <2>1, <2>2, <2>4 DEF Closing
<1>9. ~(Tell % 2 = 1)
    BY <1>5, RestIsEven
<1>10. todo' = r
    <2> DEFINE s == StopAll
               e == <<>>
    <2>1. todo' = (e \o h \o i \o z \o d \o s) \o p
        BY <1>1, <1>9 DEF Then
    <2>2. /\ h \in Seq(Statement) /\ i \in Seq(Statement) /\ z \in Seq(Statement)
          /\ d \in Seq(Statement) /\ s \in Seq(Statement) /\ p \in Seq(Statement)
        <3>1. {"headers", "index", "riffSize", "delete"} \subseteq Plain
            BY DEF Plain
        <3> QED
            BY <1>6, <1>7, <3>1, GroupsFit
    <2>3. e \o h = h
        BY <2>2, NoStatement
    <2>4. r = h \o (i \o (z \o (d \o (s \o p))))
        BY DEF AfterFinish, AfterHeaders, AfterIndex, AfterRiffSize
    <2> HIDE DEF h, i, z, d, s, p, e, r
    <2>5. todo' = (h \o i \o z \o d \o s) \o p
        BY <2>1, <2>3
    <2>6. (h \o i \o z \o d \o s) \o p = h \o (i \o (z \o (d \o (s \o p))))
        <3> DEFINE T == Seq(Statement)
        <3>1. \A x1, x2 \in T : x1 \o x2 \in T
            BY Joined
        <3>2. \A x1, x2, x3 \in T : (x1 \o x2) \o x3 = x1 \o (x2 \o x3)
            BY ConcatAssociative
        <3>3. h \in T /\ i \in T /\ z \in T /\ d \in T /\ s \in T /\ p \in T
            BY <2>2
        <3> HIDE DEF T
        <3>4. PICK u : u \in T /\ u = h \o i
            BY <3>1, <3>3
        <3>5. PICK v : v \in T /\ v = u \o z
            BY <3>1, <3>3, <3>4
        <3>6. PICK m : m \in T /\ m = v \o d
            BY <3>1, <3>3, <3>5
        <3>7. PICK n : n \in T /\ n = s \o p
            BY <3>1, <3>3
        <3>8. PICK o : o \in T /\ o = d \o n
            BY <3>1, <3>3, <3>7
        <3>9. PICK k : k \in T /\ k = z \o o
            BY <3>1, <3>3, <3>8
        <3>10. s \in T /\ p \in T
            BY <3>3
        <3>11. (m \o s) \o p = m \o (s \o p)
            BY ONLY <3>2, <3>6, <3>10
        <3>12. (v \o d) \o n = v \o (d \o n)
            BY ONLY <3>2, <3>3, <3>5, <3>7
        <3>13. (u \o z) \o o = u \o (z \o o)
            BY ONLY <3>2, <3>3, <3>4, <3>8
        <3>14. (h \o i) \o k = h \o (i \o k)
            <4>1. h \in T /\ i \in T
                BY <3>3
            <4> QED
                BY ONLY <3>2, <3>9, <4>1
        <3> QED
            BY ONLY <3>4, <3>5, <3>6, <3>7, <3>8, <3>9, <3>11, <3>12, <3>13, <3>14
    <2> QED
        BY ONLY <2>4, <2>5, <2>6
<1>11. r \in Seq(Statement)
    BY <1>8, AfterFit
<1> HIDE DEF q
<1>12. Finishing(Whole, Tell, r)
    BY <1>5, <1>8 DEF Finishing
<1> HIDE DEF r
<1>13. Stage(Whole, Tell, r)
    BY <1>12 DEF Stage
<1> QED
    BY <1>8, <1>10, <1>11, <1>13 DEF r

LEMMA FinishPends ==
    ASSUME WriterInv, Pending, FileInv', Finish
    PROVE  Pending'
<1>1. UNCHANGED fileVars /\ UNCHANGED <<setup, status, index, stored, file>>
    BY DEF Finish, streamVars, writerVars, historyVars
<1>2. PICK r \in Seq(Statement) : todo' = r /\ Stage(Whole, Tell, r)
    BY FinishGoes
<1> QED
    BY <1>1, <1>2, RestAt

\* A file is begun.
LEMMA BeginPends ==
    ASSUME WriterInv, Pending, FileInv', Begin
    PROVE  Pending'
<1>0. PICK x, q, e : x = Head(todo) /\ q = Tail(todo) /\ e = <<>>
    OBVIOUS
<1>1. /\ Doing("init") /\ Then(<<>>) /\ disk' = e /\ off' = 0 /\ buf' = e
      /\ status' = 0 /\ index' = <<>> /\ stored' = <<>> /\ file' = "open"
      /\ setup' = setup
    BY <1>0 DEF Begin, Reopen
<1>2. "init" \notin FileNames /\ "init" \in CallNames
    BY DEF FileNames, CallNames
<1>3. /\ todo \in Seq(Statement) /\ todo # <<>> /\ x.do = "init"
      /\ Stage(Whole, Tell, todo)
    BY <1>0, <1>1, <1>2, Doings
<1>4. Resting(Whole, Tell, todo) \/ WithoutFile(todo)
    BY <1>0, <1>2, <1>3, StageNamed
<1>5. q \in Seq(Statement) /\ Calls(q) /\ InOrder(q)
    <2>1. CASE Resting(Whole, Tell, todo)
        BY <1>0, <1>3, <2>1, TailFacts DEF Resting
    <2>2. CASE WithoutFile(todo)
        <3>1. q \in Seq(Statement) /\ Calls(q) /\ NoFinish(q)
            BY <1>0, <1>3, <2>2, TailFacts DEF WithoutFile, Closing
        <3> QED
            BY <3>1 DEF NoFinish, InOrder
    <2> QED
        BY <1>4, <2>1, <2>2
<1>6. todo' = q
    BY <1>0, <1>1, <1>5, NoStatement DEF Then
<1>7. Whole' = e /\ Tell' = 0
    <2>1. Whole' = File!Overlay(<<>>, 0, <<>>)
        BY <1>0, <1>1 DEF Whole
    <2>2. Tell' = 0 + Len(<<>>)
        BY <1>0, <1>1 DEF Tell
    <2>3. Len(<<>>) = 0
        OBVIOUS
    <2> QED
        BY <1>0, <2>1, <2>2, <2>3, EmptyFile
<1>8. AtRest(e, 0)'
    BY <1>0, <1>1 DEF AtRest
<1>9. Calls(q)'
    BY <1>1, <1>5, SamePlaces
<1>10. Stage(e, 0, q)'
    BY <1>1, <1>5, <1>8, <1>9 DEF Stage, Resting
<1>11. PICK w, t : w = e /\ t = 0
    OBVIOUS
<1>12. Stage(w, t, q)'
    BY <1>10, <1>11
<1> QED
    BY <1>1, <1>5, <1>6, <1>7, <1>11, <1>12, PendingAt

-----------------------------------------------------------------------------
(* The user *)
LEMMA IdleRests ==
    ASSUME WriterInv, Pending, Idle
    PROVE  Resting(Whole, Tell, <<>>)
<1>1. todo = <<>>
    BY DEF Idle
<1> DEFINE e == <<>>
<1>2. Len(e) = 0
    OBVIOUS
<1>3. Stage(Whole, Tell, e)
    BY <1>1, AtCall
<1>4. e = <<>>
    OBVIOUS
<1> HIDE DEF e
<1>5. ~WithoutFile(e)
    BY <1>2 DEF WithoutFile, Closing, Ends
<1>6. ~Amid(Whole, Tell, e)
    BY <1>4 DEF Amid
<1>7. ~Finishing(Whole, Tell, e)
    BY <1>4, AfterHeads DEF Finishing
<1> QED
    BY <1>3, <1>4, <1>5, <1>6, <1>7 DEF Stage

LEMMA UserPends ==
    ASSUME WriterInv, Pending, FileInv', Idle, NEW r \in Seq(Statement), todo' = r,
           Calls(r), InOrder(r),
           UNCHANGED fileVars, UNCHANGED <<setup, status, index, stored, file>>
    PROVE  Pending'
<1>1. Resting(Whole, Tell, <<>>)
    BY IdleRests
<1>2. Stage(Whole, Tell, r)
    BY <1>1 DEF Resting, Stage
<1> QED
    BY <1>2, RestAt

LEMMA AddChunkGoes ==
    ASSUME WriterInv, Quiet, AddChunk
    PROVE  \E r \in Seq(Statement) : todo' = r /\ Calls(r) /\ InOrder(r)
<1>1. PICK m, c :
        /\ m \in Menu
        /\ c = [stream |-> m.stream, size |-> m.size, key |-> m.key,
                number |-> Len(given) + 1, encoding |-> encoding[m.stream]]
        /\ Idle /\ m.stream \in DOMAIN setup /\ todo' = ChunkCall(c)
        /\ UNCHANGED fileVars /\ UNCHANGED <<setup, status, index, stored, file>>
    BY DEF AddChunk, streamVars, writerVars
<1>2. m.size \in Nat /\ m.key \in BOOLEAN
    BY <1>1, MenuAssumption
<1>3. Len(given) + 1 \in Nat /\ encoding[m.stream] \in Nat
    BY <1>1 DEF WriterInv, StreamsOK, CallOK, Streams
<1>4. c \in Chunk
    BY <1>1, <1>2, <1>3 DEF Chunk, Streams
<1>5. c.stream = m.stream /\ c.size = m.size /\ c.encoding = encoding[m.stream]
    BY <1>1
<1>6. ChunkOK(c)
    <2>1. MaxOffset + 2 + Even(m.size) < OffsetSpan
        <3>1. /\ MaxOffset + 2 + m.size + (m.size % 2) < OffsetSpan
              /\ MaxOffset \in Nat /\ OffsetSpan \in Nat
            BY <1>1, WidthAssumption, OffsetAssumption
        <3>2. m.size % 2 \in Nat
            BY <1>2
        <3> QED
            BY <1>2, <3>1, <3>2 DEF Even
    <2>2. m.size <= MaxPacketSize
        BY <1>1, PacketAssumption
    <2>3. setup[m.stream].encoder = FALSE => encoding[m.stream] = 0
        BY <1>1 DEF Quiet, Streams
    <2> QED
        BY <1>4, <1>5, <2>1, <2>2, <2>3 DEF ChunkOK
<1> DEFINE x == [do |-> "chunk", chunk |-> c]
           y == [do |-> "count", chunk |-> c]
           z == ChunkCall(c)
<1>7. x.do = "chunk" /\ x.chunk = c /\ y.do = "count" /\ y.chunk = c
    OBVIOUS
<1>8. z = <<x, y>>
    BY DEF ChunkCall
<1>9. z \in Seq(Statement)
    BY <1>4, GroupsFit
<1>10. todo' = z
    BY <1>1
<1> HIDE DEF x, y, z
<1>11. Len(z) = 2 /\ z[1] = x /\ z[2] = y
    BY <1>8
<1>12. \A i \in 1 .. Len(z) : i = 1 \/ i = 2
    BY <1>11
<1>13. Calls(z) /\ InOrder(z)
    BY <1>6, <1>7, <1>11, <1>12 DEF Calls, CallNames, InOrder
<1> QED
    BY <1>9, <1>10, <1>13

LEMMA SegmentGoes ==
    ASSUME Segment
    PROVE  \E r \in Seq(Statement) : todo' = r /\ Calls(r) /\ InOrder(r)
<1> DEFINE e == <<>>
           r == NextFile \o e
<1>1. /\ Idle /\ todo' = NextFile
      /\ UNCHANGED fileVars /\ UNCHANGED <<setup, status, index, stored, file>>
    BY DEF Segment, streamVars, historyVars
<1>2. e \in Seq(Statement) /\ Calls(e) /\ NoFinish(e)
    <2>1. Len(e) = 0
        OBVIOUS
    <2> QED
        BY <2>1 DEF Calls, NoFinish
<1>3. r \in Seq(Statement) /\ Calls(r) /\ InOrder(r)
    BY <1>2, NextFileFacts
<1>4. todo' = r
    <2>1. NextFile \in Seq(Statement)
        <3>1. {"finish", "init"} \subseteq Plain
            BY DEF Plain
        <3>2. Call("finish") \in Seq(Statement) /\ Call("init") \in Seq(Statement)
            BY <3>1, GroupsFit
        <3> QED
            BY <3>2, Joined DEF NextFile
    <2>2. \A a \in Seq(Statement) : a \o <<>> = a
        OBVIOUS
    <2> QED
        BY <1>1, <2>1, <2>2
<1> HIDE DEF r
<1> QED
    BY <1>3, <1>4

LEMMA DestroyGoes ==
    ASSUME WriterInv, Destroy, phase' = "open"
    PROVE  \E r \in Seq(Statement) : todo' = r /\ Calls(r) /\ InOrder(r)
<1> DEFINE x == [do |-> "finish"]
           y == [do |-> "closed"]
           a == Call("finish")
           b == Call("closed")
           z == a \o b
           r == StopAll \o z
<1>1. /\ Idle /\ todo' = StopAll \o a \o b
      /\ UNCHANGED fileVars /\ UNCHANGED <<setup, status, index, stored, file>>
    BY DEF Destroy, streamVars, historyVars
<1>2. x \in Statement /\ y \in Statement /\ x.do = "finish" /\ y.do = "closed"
    <2>1. \A name \in Plain : [do |-> name] \in Statement
        BY StatementsFit
    <2>2. "finish" \in Plain /\ "closed" \in Plain
        BY DEF Plain
    <2> QED
        BY <2>1, <2>2
<1>3. a = <<x>> /\ b = <<y>>
    BY DEF Call
<1>4. StopAll \in Seq(Statement) /\ (\A j \in 1 .. Len(StopAll) : Before(StopAll[j]))
      /\ Calls(StopAll)
    <2>1. StreamsOK
        BY DEF WriterInv
    <2> QED
        BY ONLY <2>1, StopsFacts, Zenon
<1> DEFINE s == StopAll
<1> HIDE DEF x, y, a, b, s
<1>5. a \in Seq(Statement) /\ b \in Seq(Statement) /\ s \in Seq(Statement)
    BY <1>2, <1>3, <1>4 DEF s
<1>6. todo' = r
    <2>1. (s \o a) \o b = s \o (a \o b)
        BY <1>5, ConcatAssociative
    <2> QED
        BY <1>1, <2>1 DEF s
<1>7. z = <<x, y>>
    BY <1>2, <1>3, TwoCells
<1> HIDE DEF z
<1>8. z \in Seq(Statement) /\ Len(z) = 2 /\ z[1] = x /\ z[2] = y
    BY <1>2, <1>7
<1>9. \A i \in 1 .. Len(z) : i = 1 \/ i = 2
    BY <1>8
<1>10. Calls(z)
    BY <1>2, <1>8, <1>9 DEF Calls, CallNames
<1>11. InOrder(z)
    <2> SUFFICES ASSUME NEW i \in 1 .. Len(z), z[i].do = "finish"
                 PROVE  Ends(z, i) /\ \A j \in 1 .. i - 1 : Before(z[j])
        BY DEF InOrder
    <2>1. i = 1
        BY <1>2, <1>8, <1>9
    <2>2. 2 \in 1 .. Len(z) /\ 2 > i /\ z[2].do \in {"init", "closed"}
        BY <1>2, <1>8, <2>1
    <2> QED
        BY <2>1, <2>2 DEF Ends
<1>12. r \in Seq(Statement) /\ Calls(r) /\ InOrder(r)
    BY <1>4, <1>8, <1>10, <1>11, FrontFacts
<1> HIDE DEF r
<1> QED
    BY <1>6, <1>12

\* A call of the user, and what it makes the writer do
Asked == AddChunk \/ Segment \/ Destroy

LEMMA AskedGoes ==
    ASSUME WriterInv, Quiet, Asked, phase' = "open"
    PROVE  /\ Idle /\ UNCHANGED fileVars /\ UNCHANGED <<setup, status, index, stored, file>>
           /\ \E r \in Seq(Statement) : todo' = r /\ Calls(r) /\ InOrder(r)
<1>1. Idle /\ UNCHANGED fileVars /\ UNCHANGED <<setup, status, index, stored, file>>
    BY DEF Asked, AddChunk, Segment, Destroy, streamVars, writerVars, historyVars
<1>2. \E r \in Seq(Statement) : todo' = r /\ Calls(r) /\ InOrder(r)
    BY AddChunkGoes, SegmentGoes, DestroyGoes DEF Asked
<1> QED
    BY <1>1, <1>2

LEMMA AskedPends ==
    ASSUME WriterInv, Quiet, Pending, FileInv', Asked, phase' = "open"
    PROVE  Pending'
<1>1. PICK r \in Seq(Statement) : todo' = r /\ Calls(r) /\ InOrder(r)
    BY AskedGoes
<1> QED
    BY <1>1, AskedGoes, UserPends

-----------------------------------------------------------------------------
(* The headers *)

\* A write inside the file leaves its length.
LEMMA OverlayIn ==
    ASSUME NEW w \in Seq(Cell), NEW o \in Nat, NEW d \in Seq(Cell), o + Len(d) <= Len(w)
    PROVE  LET v == File!Overlay(w, o, d)
           IN  /\ v \in Seq(Cell) /\ Len(v) = Len(w) /\ o \in 0 .. Len(w)
               /\ \A i \in 1 .. Len(w) :
                     v[i] = IF i > o /\ i <= o + Len(d) THEN d[i - o] ELSE w[i]
<1> DEFINE v == File!Overlay(w, o, d)
           n == IF o + Len(d) > Len(w) THEN o + Len(d) ELSE Len(w)
<1>1. o \in 0 .. Len(w) /\ n = Len(w)
    OBVIOUS
<1>2. /\ v \in Seq(Cell) /\ Len(v) = n
      /\ \A i \in 1 .. n : v[i] = IF i > o /\ i <= o + Len(d) THEN d[i - o] ELSE w[i]
    BY <1>1, OverlayFacts
<1> HIDE DEF v, n
<1> QED
    BY <1>1, <1>2 DEF v

\* The cells of the stream headers, four by four
LEMMA StreamHeadersAre ==
    ASSUME CellsFit, StreamsOK
    PROVE  LET n == Len(setup)
           IN  /\ n \in Nat /\ StreamHeaders \in Seq(Cell) /\ Len(StreamHeaders) = 4 * n
               /\ \A s \in 1 .. n : /\ StreamHeaders[4 * s - 3] = Id("strl")
                                    /\ StreamHeaders[4 * s - 2] = Number(2)
<1> DEFINE n == Len(setup)
           g == [s \in 1 .. n |-> StreamHeader(s)]
<1>1. n \in Nat /\ DOMAIN setup = 1 .. n
    BY DEF StreamsOK
<1>2. ASSUME NEW s \in 1 .. n
      PROVE  /\ StreamHeader(s) \in Seq(Cell) /\ Len(StreamHeader(s)) = 4
             /\ StreamHeader(s)[1] = Id("strl") /\ StreamHeader(s)[2] = Number(2)
    <2> DEFINE a == List("strl", 2)
               b == <<Id("strh"), Number(dwLength[s])>>
    <2>1. dwLength[s] \in Int
        BY <1>1 DEF StreamsOK, Streams
    <2>2. Id("strl") \in Cell /\ Number(2) \in Cell /\ Id("strh") \in Cell
          /\ Number(dwLength[s]) \in Cell
        <3>1. "strl" \in Names /\ "strh" \in Names
            BY DEF Names
        <3> QED
            BY <2>1, <3>1, CellsAre
    <2>3. /\ a \in Seq(Cell) /\ Len(a) = 2 /\ a[1] = Id("strl") /\ a[2] = Number(2)
          /\ b \in Seq(Cell) /\ Len(b) = 2
        BY <2>2 DEF List
    <2>4. StreamHeader(s) = a \o b
        BY DEF StreamHeader
    <2> HIDE DEF a, b
    <2>5. a \in Seq(Cell) /\ b \in Seq(Cell)
        BY <2>3
    <2>6. /\ a \o b \in Seq(Cell) /\ Len(a \o b) = Len(a) + Len(b)
          /\ \A i \in 1 .. Len(a) : (a \o b)[i] = a[i]
        BY ONLY <2>5
    <2> QED
        BY <2>3, <2>4, <2>6
<1>3. g \in [1 .. n -> Seq(Cell)] /\ \A s \in 1 .. n : Len(g[s]) = 4
    BY <1>2
<1>4. StreamHeaders = [i \in 1 .. 4 * n |-> g[(i + 3) \div 4][((i - 1) % 4) + 1]]
    <2>1. \A i \in 1 .. 4 * n : (i + 3) \div 4 \in 1 .. n
        BY <1>1
    <2>2. \A i \in 1 .. 4 * n : g[(i + 3) \div 4] = StreamHeader((i + 3) \div 4)
        BY <2>1
    <2> QED
        BY <2>2 DEF StreamHeaders
<1>5. StreamHeaders \in Seq(Cell)
    <2> HIDE DEF g
    <2>1. [i \in 1 .. 4 * n |-> g[(i + 3) \div 4][((i - 1) % 4) + 1]] \in Seq(Cell)
        BY <1>1, <1>3, FoursFit
    <2> QED
        BY <1>4, <2>1
<1>6. Len(StreamHeaders) = 4 * n
    <2>1. 4 * n \in Nat
        BY <1>1
    <2>2. DOMAIN StreamHeaders = 1 .. 4 * n
        BY <1>4
    <2> QED
        BY <1>5, <2>1, <2>2
<1>7. ASSUME NEW s \in 1 .. n
      PROVE  StreamHeaders[4 * s - 3] = Id("strl") /\ StreamHeaders[4 * s - 2] = Number(2)
    <2>1. /\ 4 * s - 3 \in 1 .. 4 * n /\ 4 * s - 2 \in 1 .. 4 * n
          /\ ((4 * s - 3) + 3) \div 4 = s /\ ((4 * s - 2) + 3) \div 4 = s
          /\ (((4 * s - 3) - 1) % 4) + 1 = 1 /\ (((4 * s - 2) - 1) % 4) + 1 = 2
        BY <1>1
    <2>2. StreamHeaders[4 * s - 3] = g[s][1] /\ StreamHeaders[4 * s - 2] = g[s][2]
        BY <1>4, <2>1
    <2> QED
        BY <1>2, <2>2
<1> QED
    BY <1>1, <1>5, <1>6, <1>7

LEMMA HeaderCellsAre ==
    ASSUME CellsFit, StreamsOK, NEW e \in Nat
    PROVE  LET h == HeaderCells(e)
               n == Len(setup)
           IN  /\ n \in Nat /\ h \in Seq(Cell) /\ Len(h) = 4 + 4 * n
               /\ h[1] = Id("RIFF") /\ h[3] = Id("hdrl")
               /\ \A s \in 1 .. n : /\ h[4 * s + 1] = Id("strl")
                                    /\ h[4 * s + 2] = Number(2)
<1> DEFINE n == Len(setup)
           a == <<Id("RIFF"), Number(e - 2)>>
           b == List("hdrl", 0)
           c == StreamHeaders
           ab == a \o b
           h == ab \o c
<1>1. /\ n \in Nat /\ c \in Seq(Cell) /\ Len(c) = 4 * n
      /\ \A s \in 1 .. n : c[4 * s - 3] = Id("strl") /\ c[4 * s - 2] = Number(2)
    BY StreamHeadersAre
<1>2. /\ a \in Seq(Cell) /\ Len(a) = 2 /\ a[1] = Id("RIFF")
      /\ b \in Seq(Cell) /\ Len(b) = 2 /\ b[1] = Id("hdrl")
    <2>1. "RIFF" \in Names /\ "hdrl" \in Names
        BY DEF Names
    <2>2. Id("RIFF") \in Cell /\ Number(e - 2) \in Cell /\ Id("hdrl") \in Cell
          /\ Number(0) \in Cell
        BY <2>1, CellsAre
    <2> QED
        BY <2>2 DEF List
<1> HIDE DEF a, b, c, n
<1>3. a \in Seq(Cell) /\ b \in Seq(Cell)
    BY <1>2
<1>4. /\ ab \in Seq(Cell) /\ Len(ab) = Len(a) + Len(b)
      /\ \A i \in 1 .. Len(a) : ab[i] = a[i]
      /\ \A i \in Len(a) + 1 .. Len(a) + Len(b) : ab[i] = b[i - Len(a)]
    BY ONLY <1>3
<1>5. Len(ab) = 4 /\ ab[1] = Id("RIFF") /\ ab[3] = Id("hdrl")
    <2> HIDE DEF ab
    <2>1. Len(ab) = 4
        BY <1>2, <1>4
    <2>2. ab[1] = a[1] /\ ab[3] = b[1]
        <3>1. 1 \in 1 .. Len(a) /\ 3 \in Len(a) + 1 .. Len(a) + Len(b) /\ 3 - Len(a) = 1
            BY <1>2
        <3> QED
            BY <1>4, <3>1
    <2> QED
        BY <1>2, <2>1, <2>2
<1>6. ab \in Seq(Cell) /\ c \in Seq(Cell)
    BY <1>1, <1>4
<1> HIDE DEF ab
<1>7. /\ h \in Seq(Cell) /\ Len(h) = Len(ab) + Len(c)
      /\ \A i \in 1 .. Len(ab) : h[i] = ab[i]
      /\ \A i \in Len(ab) + 1 .. Len(ab) + Len(c) : h[i] = c[i - Len(ab)]
    BY ONLY <1>6
<1> HIDE DEF h
<1>8. ASSUME NEW s \in 1 .. n
      PROVE  h[4 * s + 1] = Id("strl") /\ h[4 * s + 2] = Number(2)
    <2>1. /\ 4 * s + 1 \in 4 + 1 .. 4 + 4 * n /\ (4 * s + 1) - 4 = 4 * s - 3
          /\ 4 * s + 2 \in 4 + 1 .. 4 + 4 * n /\ (4 * s + 2) - 4 = 4 * s - 2
        BY <1>1
    <2>2. h[4 * s + 1] = c[4 * s - 3] /\ h[4 * s + 2] = c[4 * s - 2]
        BY <1>1, <1>5, <1>7, <2>1
    <2> QED
        BY <1>1, <2>2
<1>9. h[1] = ab[1] /\ h[3] = ab[3]
    BY <1>5, <1>7
<1>10. h = HeaderCells(e)
    BY DEF HeaderCells, h, ab, a, b, c
<1> QED
    BY <1>1, <1>5, <1>7, <1>8, <1>9, <1>10 DEF n

\* Where the room for the headers ends
LEMMA RoomFacts ==
    ASSUME StreamsOK
    PROVE  HeaderSize \in Nat /\ Len(setup) \in Nat /\ Len(setup) >= 1
           /\ 4 + 4 * Len(setup) + 4 <= HeaderSize
<1>1. setup \in Setups /\ setup \in Seq(Setup)
    BY DEF StreamsOK
<1> QED
    BY <1>1, SetupAssumption, HeaderAssumption

JoinedYields ==
    \A l, m \in Seq(Statement) : \A s, u, e :
        Yields(l, s, u) /\ Yields(m, u, e) /\ Writes(l) /\ Writes(m) =>
            l \o m \in Seq(Statement) /\ Writes(l \o m) /\ Yields(l \o m, s, e)

LEMMA JoinsYields == JoinedYields
<1> SUFFICES ASSUME NEW l \in Seq(Statement), NEW m \in Seq(Statement),
                    NEW s, NEW u, NEW e,
                    Yields(l, s, u), Yields(m, u, e), Writes(l), Writes(m)
             PROVE  l \o m \in Seq(Statement) /\ Writes(l \o m) /\ Yields(l \o m, s, e)
    BY DEF JoinedYields
<1>1. l \o m \in Seq(Statement) /\ Writes(l \o m)
    BY WritesJoin
<1>2. Yields(l \o m, s, e)
    BY YieldsJoin
<1> QED
    BY <1>1, <1>2

\* What is written inside the file is there, and the rest as it was.
Lain(v, w, o, d) ==
    /\ v \in Seq(Cell) /\ Len(v) = Len(w)
    /\ \A j \in 1 .. Len(d) : v[o + j] = d[j]
    /\ \A i \in 1 .. Len(w) : i <= o \/ i > o + Len(d) => v[i] = w[i]

LEMMA Lies ==
    \A w, d \in Seq(Cell) : \A o \in Nat :
        o + Len(d) <= Len(w) => Lain(File!Overlay(w, o, d), w, o, d)
<1> SUFFICES ASSUME NEW w \in Seq(Cell), NEW d \in Seq(Cell), NEW o \in Nat,
                    o + Len(d) <= Len(w)
             PROVE  Lain(File!Overlay(w, o, d), w, o, d)
    OBVIOUS
<1> DEFINE v == File!Overlay(w, o, d)
           k == Len(d)
           n == Len(w)
<1>1. k \in Nat /\ n \in Nat /\ o + k <= n
    OBVIOUS
<1>2. /\ v \in Seq(Cell) /\ Len(v) = n
      /\ \A i \in 1 .. n : v[i] = IF i > o /\ i <= o + k THEN d[i - o] ELSE w[i]
    BY OverlayIn
<1> HIDE DEF v, k, n
<1>4. ASSUME NEW j \in 1 .. k PROVE v[o + j] = d[j]
    <2>1. o + j \in 1 .. n /\ o + j > o /\ o + j <= o + k /\ (o + j) - o = j
        BY <1>1
    <2> QED
        BY <1>2, <2>1
<1>5. ASSUME NEW i \in 1 .. n, i <= o \/ i > o + k PROVE v[i] = w[i]
    <2>1. ~(i > o /\ i <= o + k)
        BY <1>1, <1>5
    <2> QED
        BY <1>2, <2>1
<1> QED
    BY <1>2, <1>4, <1>5 DEF Lain, v, k, n

\* The four pieces WriteHeaders writes, and what the file is then
Layers(w, w1, w2, w3, w4) ==
    /\ w1 = File!Overlay(w, 0, HeaderCells(Len(w)))
    /\ w2 = File!Overlay(w1, 4 + 4 * Len(setup),
                <<Id("JUNK"), Number(HeaderSize - 8 - 4 * Len(setup))>>)
    /\ w3 = File!Overlay(w2, HeaderSize - 2, List("movi", Len(w) - HeaderSize))
    /\ w4 = File!Overlay(w3, 3, <<Number(4 * Len(setup))>>)

LEMMA HeadersThere ==
    ASSUME CellsFit, StreamsOK, NEW w \in Seq(Cell), HeaderSize <= Len(w),
           NEW w1, NEW w2, NEW w3, NEW w4,
           Layers(w, w1, w2, w3, w4)
    PROVE  /\ w1 \in Seq(Cell) /\ w2 \in Seq(Cell) /\ w3 \in Seq(Cell) /\ w4 \in Seq(Cell)
           /\ Len(w1) = Len(w) /\ Len(w2) = Len(w) /\ Len(w3) = Len(w) /\ Len(w4) = Len(w)
           /\ Headed(w4, Len(w))
           /\ \A i \in HeaderSize + 1 .. Len(w) : w4[i] = w[i]
<1> DEFINE n == Len(setup)
           e == Len(w)
           c == 4 + 4 * n
           p == HeaderSize - 2
           h == HeaderCells(e)
           j == <<Id("JUNK"), Number(HeaderSize - 8 - 4 * n)>>
           m == List("movi", e - HeaderSize)
           u == <<Number(4 * n)>>
<1>1. /\ HeaderSize \in Nat /\ n \in Nat /\ n >= 1 /\ 4 + 4 * n + 4 <= HeaderSize
      /\ e \in Nat /\ HeaderSize <= e
    BY RoomFacts
<1>2. /\ h \in Seq(Cell) /\ Len(h) = c
      /\ h[1] = Id("RIFF") /\ h[3] = Id("hdrl")
      /\ \A s \in 1 .. n : h[4 * s + 1] = Id("strl") /\ h[4 * s + 2] = Number(2)
    BY <1>1, HeaderCellsAre
<1>3. /\ j \in Seq(Cell) /\ Len(j) = 2 /\ j[1] = Id("JUNK")
      /\ j[2] = Number(HeaderSize - 8 - 4 * n)
      /\ m \in Seq(Cell) /\ Len(m) = 2 /\ m[1] = Id("movi") /\ m[2] = Number(e - HeaderSize)
      /\ u \in Seq(Cell) /\ Len(u) = 1 /\ u[1] = Number(4 * n)
    <2>1. "JUNK" \in Names /\ "movi" \in Names
        BY DEF Names
    <2>2. HeaderSize - 8 - 4 * n \in Int /\ e - HeaderSize \in Int /\ 4 * n \in Int
        BY <1>1
    <2>3. /\ Id("JUNK") \in Cell /\ Number(HeaderSize - 8 - 4 * n) \in Cell
          /\ Id("movi") \in Cell /\ Number(e - HeaderSize) \in Cell /\ Number(4 * n) \in Cell
        BY <2>1, <2>2, CellsAre
    <2> QED
        BY <2>3 DEF List
<1>4. w1 = File!Overlay(w, 0, h) /\ w2 = File!Overlay(w1, c, j)
      /\ w3 = File!Overlay(w2, p, m) /\ w4 = File!Overlay(w3, 3, u)
    BY DEF Layers
<1>5. /\ c \in Nat /\ p \in Nat /\ c >= 8 /\ c = 4 + 4 * n /\ p = HeaderSize - 2
      /\ c + 2 <= p /\ p + 2 <= e /\ 0 + c <= e /\ c + 2 <= e /\ 3 + 1 <= e
      /\ 0 \in Nat /\ 3 \in Nat /\ 2 \in Nat /\ 1 \in Nat
    BY <1>1
<1> HIDE DEF h, j, m, u, c, p, e, n
<1>6. /\ w1 \in Seq(Cell) /\ Len(w1) = e
      /\ \A x \in 1 .. c : w1[0 + x] = h[x]
      /\ \A i \in 1 .. e : i <= 0 \/ i > 0 + c => w1[i] = w[i]
    <2>1. /\ Len(h) = c /\ Len(w) = e /\ 0 + Len(h) <= Len(w)
          /\ h \in Seq(Cell) /\ w \in Seq(Cell) /\ 0 \in Nat
        BY <1>5, <1>2 DEF e
    <2>2. Lain(w1, w, 0, h)
        BY <1>4, <2>1, Lies
    <2> QED
        BY <2>1, <2>2 DEF Lain
<1>7. /\ w2 \in Seq(Cell) /\ Len(w2) = e
      /\ \A x \in 1 .. 2 : w2[c + x] = j[x]
      /\ \A i \in 1 .. e : i <= c \/ i > c + 2 => w2[i] = w1[i]
    <2>1. /\ Len(j) = 2 /\ Len(w1) = e /\ c + Len(j) <= Len(w1)
          /\ j \in Seq(Cell) /\ w1 \in Seq(Cell) /\ c \in Nat
        BY <1>5, <1>3, <1>6
    <2>2. Lain(w2, w1, c, j)
        BY <1>4, <2>1, Lies
    <2> QED
        BY <2>1, <2>2 DEF Lain
<1>8. /\ w3 \in Seq(Cell) /\ Len(w3) = e
      /\ \A x \in 1 .. 2 : w3[p + x] = m[x]
      /\ \A i \in 1 .. e : i <= p \/ i > p + 2 => w3[i] = w2[i]
    <2>1. /\ Len(m) = 2 /\ Len(w2) = e /\ p + Len(m) <= Len(w2)
          /\ m \in Seq(Cell) /\ w2 \in Seq(Cell) /\ p \in Nat
        BY <1>5, <1>3, <1>7
    <2>2. Lain(w3, w2, p, m)
        BY <1>4, <2>1, Lies
    <2> QED
        BY <2>1, <2>2 DEF Lain
<1>9. /\ w4 \in Seq(Cell) /\ Len(w4) = e
      /\ \A x \in 1 .. 1 : w4[3 + x] = u[x]
      /\ \A i \in 1 .. e : i <= 3 \/ i > 3 + 1 => w4[i] = w3[i]
    <2>1. /\ Len(u) = 1 /\ Len(w3) = e /\ 3 + Len(u) <= Len(w3)
          /\ u \in Seq(Cell) /\ w3 \in Seq(Cell) /\ 3 \in Nat
        BY <1>5, <1>3, <1>8
    <2>2. Lain(w4, w3, 3, u)
        BY <1>4, <2>1, Lies
    <2> QED
        BY <2>1, <2>2 DEF Lain
<1>10. \A i \in 1 .. c : i # 4 => w4[i] = h[i]
    <2> SUFFICES ASSUME NEW i \in 1 .. c, i # 4 PROVE w4[i] = h[i]
        OBVIOUS
    <2>1. /\ i \in 1 .. e /\ (i <= 3 \/ i > 3 + 1) /\ i <= p /\ i <= c /\ 0 + i = i
        BY <1>1, <1>5
    <2>2. w4[i] = w3[i] /\ w3[i] = w2[i] /\ w2[i] = w1[i] /\ w1[i] = h[i]
        BY ONLY <1>6, <1>7, <1>8, <1>9, <2>1, i \in 1 .. c
    <2> QED
        BY <2>2
<1>11. w4[4] = Number(4 * n)
    <2>1. 1 \in 1 .. 1 /\ 3 + 1 = 4
        OBVIOUS
    <2> QED
        BY <1>3, <1>9, <2>1
<1>12. w4[c + 1] = Id("JUNK") /\ w4[c + 2] = Number(HeaderSize - 8 - 4 * n)
    <2>1. 1 \in 1 .. 2 /\ 2 \in 1 .. 2
        OBVIOUS
    <2>2. w2[c + 1] = j[1] /\ w2[c + 2] = j[2]
        BY <1>7, <2>1
    <2>3. \A i \in c + 1 .. c + 2 : i \in 1 .. e /\ i <= p /\ i > 3 + 1
        BY <1>5, <1>1
    <2>4. \A i \in c + 1 .. c + 2 : w4[i] = w2[i]
        BY ONLY <1>8, <1>9, <2>3
    <2>5. c + 1 \in c + 1 .. c + 2 /\ c + 2 \in c + 1 .. c + 2
        BY <1>5
    <2> QED
        BY <1>3, <2>2, <2>4, <2>5
<1>13. w4[p + 1] = Id("movi") /\ w4[p + 2] = Number(e - HeaderSize)
    <2>1. 1 \in 1 .. 2 /\ 2 \in 1 .. 2
        OBVIOUS
    <2>2. w3[p + 1] = m[1] /\ w3[p + 2] = m[2]
        BY <1>8, <2>1
    <2>3. \A i \in p + 1 .. p + 2 : i \in 1 .. e /\ i > 3 + 1
        BY <1>5, <1>1
    <2>4. \A i \in p + 1 .. p + 2 : w4[i] = w3[i]
        BY ONLY <1>9, <2>3
    <2>5. p + 1 \in p + 1 .. p + 2 /\ p + 2 \in p + 1 .. p + 2
        BY <1>5
    <2> QED
        BY <1>3, <2>2, <2>4, <2>5
<1>14. Headed(w4, e)
    <2>1. w4[1] = Id("RIFF") /\ w4[3] = Id("hdrl")
        <3>1. 1 \in 1 .. c /\ 3 \in 1 .. c
            BY <1>5
        <3>2. w4[1] = h[1] /\ w4[3] = h[3]
            BY <1>10, <3>1
        <3> QED
            BY <1>2, <3>2
    <2>2. ASSUME NEW s \in 1 .. n
          PROVE  w4[4 * s + 1] = Id("strl") /\ w4[4 * s + 2] = Number(2)
        <3>1. /\ 4 * s + 1 \in 1 .. c /\ 4 * s + 2 \in 1 .. c
              /\ 4 * s + 1 # 4 /\ 4 * s + 2 # 4
            BY <1>1, <1>5
        <3>2. w4[4 * s + 1] = h[4 * s + 1] /\ w4[4 * s + 2] = h[4 * s + 2]
            BY <1>10, <3>1
        <3> QED
            BY <1>2, <3>2
    <2>3. c + 1 = 4 * n + 5 /\ c + 2 = 4 * n + 6 /\ p + 1 = HeaderSize - 1 /\ p + 2 = HeaderSize
        BY <1>1, <1>5
    <2> QED
        BY <1>11, <1>12, <1>13, <2>1, <2>2, <2>3 DEF Headed, n
<1>15. \A i \in HeaderSize + 1 .. e : w4[i] = w[i]
    <2> SUFFICES ASSUME NEW i \in HeaderSize + 1 .. e PROVE w4[i] = w[i]
        OBVIOUS
    <2>1. i \in 1 .. e /\ i > 3 + 1 /\ i > p + 2 /\ i > c + 2 /\ i > 0 + c
        BY <1>1, <1>5
    <2> QED
        BY ONLY <1>6, <1>7, <1>8, <1>9, <2>1
<1> QED
    BY <1>6, <1>7, <1>8, <1>9, <1>14, <1>15 DEF e

LEMMA HeadersLaid ==
    ASSUME CellsFit, StreamsOK, NEW w \in Seq(Cell), HeaderSize <= Len(w), NEW t
    PROVE  \E v \in Seq(Cell) :
              /\ HeaderSteps(Len(w)) \in Seq(Statement) /\ Writes(HeaderSteps(Len(w)))
              /\ Yields(HeaderSteps(Len(w)), <<w, t>>, <<v, Len(v)>>)
              /\ Len(v) = Len(w) /\ Headed(v, Len(w))
              /\ \A i \in HeaderSize + 1 .. Len(w) : v[i] = w[i]
<1> DEFINE n == Len(setup)
           e == Len(w)
           h == HeaderCells(e)
           j == <<Id("JUNK"), Number(HeaderSize - 8 - 4 * n)>>
           m == List("movi", e - HeaderSize)
           u == Number(4 * n)
           c == 4 + 4 * n
           w1 == File!Overlay(w, 0, h)
           w2 == File!Overlay(w1, c, j)
           w3 == File!Overlay(w2, HeaderSize - 2, m)
           w4 == File!Overlay(w3, 3, <<u>>)
<1>1. /\ HeaderSize \in Nat /\ n \in Nat /\ n >= 1 /\ c + 4 <= HeaderSize
      /\ e \in Nat /\ HeaderSize <= e
    BY RoomFacts
<1>2. h \in Seq(Cell) /\ Len(h) = c
    BY <1>1, HeaderCellsAre
<1>3. /\ j \in Seq(Cell) /\ Len(j) = 2
      /\ m \in Seq(Cell) /\ Len(m) = 2
      /\ u \in Cell
    <2>1. "JUNK" \in Names /\ "movi" \in Names
        BY DEF Names
    <2>2. HeaderSize - 8 - 4 * n \in Int /\ e - HeaderSize \in Int /\ 4 * n \in Int
        BY <1>1
    <2>3. /\ Id("JUNK") \in Cell /\ Number(HeaderSize - 8 - 4 * n) \in Cell
          /\ Id("movi") \in Cell /\ Number(e - HeaderSize) \in Cell /\ Number(4 * n) \in Cell
        BY <2>1, <2>2, CellsAre
    <2> QED
        BY <2>3 DEF List
<1>4. /\ w1 \in Seq(Cell) /\ w2 \in Seq(Cell) /\ w3 \in Seq(Cell) /\ w4 \in Seq(Cell)
      /\ Len(w1) = e /\ Len(w2) = e /\ Len(w3) = e /\ Len(w4) = e
      /\ Headed(w4, e) /\ \A i \in HeaderSize + 1 .. e : w4[i] = w[i]
    <2>1. PICK y1, y2, y3, y4 : y1 = w1 /\ y2 = w2 /\ y3 = w3 /\ y4 = w4
        OBVIOUS
    <2>2. Layers(w, y1, y2, y3, y4)
        BY <2>1 DEF Layers
    <2>3. /\ y1 \in Seq(Cell) /\ y2 \in Seq(Cell) /\ y3 \in Seq(Cell) /\ y4 \in Seq(Cell)
          /\ Len(y1) = Len(w) /\ Len(y2) = Len(w) /\ Len(y3) = Len(w) /\ Len(y4) = Len(w)
          /\ Headed(y4, Len(w))
          /\ \A i \in HeaderSize + 1 .. Len(w) : y4[i] = w[i]
        BY <2>2, HeadersThere
    <2> HIDE DEF w1, w2, w3, w4
    <2> QED
        BY <2>1, <2>3
<1> DEFINE g1 == Go(0)
           g2 == PutAll(h)
           g3 == PutAll(j)
           g4 == Go(HeaderSize - 2)
           g5 == PutAll(m)
           g6 == Go(3)
           g7 == Put1(u)
           g8 == Call("seekEnd")
<1>5. HeaderSteps(e) = g1 \o g2 \o g3 \o g4 \o g5 \o g6 \o g7 \o g8
    <2>1. Len(HeaderCells(e)) = 4 + 4 * Len(setup)
        BY <1>2
    <2>2. HeaderSize - 2 - (Len(HeaderCells(e)) + 2) = HeaderSize - 8 - 4 * Len(setup)
          /\ Len(HeaderCells(e)) - 4 = 4 * Len(setup)
        BY <1>1, <2>1
    <2> HIDE DEF e
    <2> QED
        BY <2>2 DEF HeaderSteps
<1> HIDE DEF h, j, m, u, w1, w2, w3, w4
<1>6. /\ g1 \in Seq(Statement) /\ g2 \in Seq(Statement) /\ g3 \in Seq(Statement)
      /\ g4 \in Seq(Statement) /\ g5 \in Seq(Statement) /\ g6 \in Seq(Statement)
      /\ g7 \in Seq(Statement) /\ g8 \in Seq(Statement)
    <2>1. 0 \in Nat /\ 3 \in Nat /\ HeaderSize - 2 \in Nat
        BY <1>1
    <2>2. "seekEnd" \in Plain
        BY DEF Plain
    <2> QED
        BY <1>2, <1>3, <2>1, <2>2, GroupsFit
<1>7. /\ Writes(g1) /\ Writes(g2) /\ Writes(g3) /\ Writes(g4) /\ Writes(g5)
      /\ Writes(g6) /\ Writes(g7) /\ Writes(g8)
    BY <1>2, <1>3, GroupsWrite
<1>8. /\ \A p, x, o : Yields(Go(p), <<x, o>>, <<x, p>>)
      /\ \A x, o : Yields(Call("seekEnd"), <<x, o>>, <<x, Len(x)>>)
    BY YieldsGo, YieldsEnd
<1>9. Yields(g1, <<w, t>>, <<w, 0>>)
    BY ONLY <1>8 DEF g1
<1>10. Yields(g2, <<w, 0>>, <<w1, c>>)
    <2>1. 0 \in 0 .. Len(w) /\ 0 + Len(h) = c
        BY <1>1, <1>2
    <2>2. Yields(g2, <<w, 0>>, <<File!Overlay(w, 0, h), 0 + Len(h)>>)
        BY <1>2, <2>1, YieldsPuts
    <2> QED
        BY <2>1, <2>2 DEF w1
<1>11. Yields(g3, <<w1, c>>, <<w2, c + 2>>)
    <2>1. c \in 0 .. Len(w1)
        BY <1>1, <1>4
    <2>2. Yields(g3, <<w1, c>>, <<File!Overlay(w1, c, j), c + Len(j)>>)
        BY <1>3, <1>4, <2>1, YieldsPuts
    <2> QED
        BY <1>3, <2>2 DEF w2
<1>12. Yields(g4, <<w2, c + 2>>, <<w2, HeaderSize - 2>>)
    BY ONLY <1>8 DEF g4
<1>13. Yields(g5, <<w2, HeaderSize - 2>>, <<w3, HeaderSize>>)
    <2> DEFINE o == HeaderSize - 2
    <2>1. o \in 0 .. Len(w2) /\ o + 2 = HeaderSize
        BY <1>1, <1>4
    <2>2. Yields(g5, <<w2, o>>, <<File!Overlay(w2, o, m), o + Len(m)>>)
        BY <1>3, <1>4, <2>1, YieldsPuts
    <2> QED
        BY <1>3, <2>1, <2>2 DEF w3
<1>14. Yields(g6, <<w3, HeaderSize>>, <<w3, 3>>)
    BY ONLY <1>8 DEF g6
<1>15. Yields(g7, <<w3, 3>>, <<w4, 4>>)
    <2>1. 3 \in 0 .. Len(w3) /\ 3 + 1 = 4
        BY <1>1, <1>4
    <2>2. Yields(g7, <<w3, 3>>, <<File!Overlay(w3, 3, <<u>>), 3 + 1>>)
        BY <1>3, <1>4, <2>1, YieldsPut
    <2> QED
        BY <2>1, <2>2 DEF w4
<1>16. Yields(g8, <<w4, 4>>, <<w4, Len(w4)>>)
    BY ONLY <1>8 DEF g8
<1> HIDE DEF g1, g2, g3, g4, g5, g6, g7, g8, c
<1> DEFINE a2 == g1 \o g2
           a3 == a2 \o g3
           a4 == a3 \o g4
           a5 == a4 \o g5
           a6 == a5 \o g6
           a7 == a6 \o g7
           a8 == a7 \o g8
<1>17. a2 \in Seq(Statement) /\ Writes(a2) /\ Yields(a2, <<w, t>>, <<w1, c>>)
    BY ONLY JoinsYields, <1>6, <1>7, <1>9, <1>10 DEF JoinedYields
<1> HIDE DEF a2
<1>18. a3 \in Seq(Statement) /\ Writes(a3) /\ Yields(a3, <<w, t>>, <<w2, c + 2>>)
    BY ONLY JoinsYields, <1>6, <1>7, <1>11, <1>17 DEF JoinedYields
<1> HIDE DEF a3
<1>19. a4 \in Seq(Statement) /\ Writes(a4) /\ Yields(a4, <<w, t>>, <<w2, HeaderSize - 2>>)
    BY ONLY JoinsYields, <1>6, <1>7, <1>12, <1>18 DEF JoinedYields
<1> HIDE DEF a4
<1>20. a5 \in Seq(Statement) /\ Writes(a5) /\ Yields(a5, <<w, t>>, <<w3, HeaderSize>>)
    BY ONLY JoinsYields, <1>6, <1>7, <1>13, <1>19 DEF JoinedYields
<1> HIDE DEF a5
<1>21. a6 \in Seq(Statement) /\ Writes(a6) /\ Yields(a6, <<w, t>>, <<w3, 3>>)
    BY ONLY JoinsYields, <1>6, <1>7, <1>14, <1>20 DEF JoinedYields
<1> HIDE DEF a6
<1>22. a7 \in Seq(Statement) /\ Writes(a7) /\ Yields(a7, <<w, t>>, <<w4, 4>>)
    BY ONLY JoinsYields, <1>6, <1>7, <1>15, <1>21 DEF JoinedYields
<1> HIDE DEF a7
<1>23. a8 \in Seq(Statement) /\ Writes(a8) /\ Yields(a8, <<w, t>>, <<w4, Len(w4)>>)
    BY ONLY JoinsYields, <1>6, <1>7, <1>16, <1>22 DEF JoinedYields
<1>24. a8 = HeaderSteps(e)
    BY <1>5 DEF a7, a6, a5, a4, a3, a2
<1> HIDE DEF a8
<1>25. /\ HeaderSteps(e) \in Seq(Statement) /\ Writes(HeaderSteps(e))
       /\ Yields(HeaderSteps(e), <<w, t>>, <<w4, Len(w4)>>)
    BY <1>23, <1>24
<1> QED
    BY <1>4, <1>25

-----------------------------------------------------------------------------
(* What the finish of a file writes besides the chunks *)

\* The chunks of a file, and what is in them, are behind the room for the headers.
LEMMA PlaceFacts ==
    ASSUME NEW chunks, ChunksOK(chunks)
    PROVE  LET n == Len(chunks)
           IN  /\ n \in Nat /\ \A k \in 1 .. n : chunks[k] \in Chunk /\ chunks[k].size \in Nat
               /\ \A k \in 0 .. n : EndOf(chunks, k) \in Nat /\ EndOf(chunks, k) >= HeaderSize
                                    /\ EndOf(chunks, k) <= EndOf(chunks, n)
               /\ \A k \in 1 .. n : \A i \in 1 .. chunks[k].size :
                      BeginOf(chunks, k) + 2 + i \in HeaderSize + 1 .. EndOf(chunks, n)
<1> DEFINE n == Len(chunks)
<1>1. chunks \in Seq(Chunk)
    BY DEF ChunksOK
<1>2. n \in Nat /\ \A k \in 1 .. n : chunks[k] \in Chunk
    BY <1>1
<1>3. \A c \in Chunk : c.size \in Nat
    BY DEF Chunk
<1>4. \A k \in 1 .. n : chunks[k].size \in Nat
    BY <1>2, <1>3
<1> HIDE DEF n
<1>5. /\ EndOf(chunks, 0) = HeaderSize
      /\ \A k \in 0 .. n : EndOf(chunks, k) \in Nat
      /\ \A k \in 1 .. n :
            EndOf(chunks, k) = EndOf(chunks, k - 1) + 2 + Even(chunks[k].size)
    BY <1>2, <1>4, EndSteps
<1>6. \A j, k \in 0 .. n : j <= k => EndOf(chunks, j) <= EndOf(chunks, k)
    BY <1>2, <1>4, EndGrows
<1>7. ASSUME NEW k \in 0 .. n
      PROVE  EndOf(chunks, k) \in Nat /\ EndOf(chunks, k) >= HeaderSize
             /\ EndOf(chunks, k) <= EndOf(chunks, n)
    <2>1. 0 \in 0 .. n /\ n \in 0 .. n /\ 0 <= k /\ k <= n
        BY <1>2
    <2>2. EndOf(chunks, 0) <= EndOf(chunks, k) /\ EndOf(chunks, k) <= EndOf(chunks, n)
        BY <1>6, <2>1
    <2> QED
        BY <1>5, <2>2, HeaderAssumption
<1>8. ASSUME NEW k \in 1 .. n, NEW i \in 1 .. chunks[k].size
      PROVE  BeginOf(chunks, k) + 2 + i \in HeaderSize + 1 .. EndOf(chunks, n)
    <2>1. k - 1 \in 0 .. n /\ k \in 0 .. n
        BY <1>2
    <2>2. PICK b, c, d, m : /\ b = EndOf(chunks, k - 1) /\ c = EndOf(chunks, k)
                            /\ d = EndOf(chunks, n) /\ m = chunks[k].size
        OBVIOUS
    <2>3. b \in Nat /\ b >= HeaderSize /\ c <= d /\ c \in Nat /\ d \in Nat
          /\ c = b + 2 + Even(m) /\ m \in Nat
        <3>1. n \in 0 .. n
            BY <1>2
        <3> QED
            BY <1>4, <1>5, <1>7, <2>1, <2>2, <3>1
    <2>4. Even(m) \in Nat /\ Even(m) >= m
        BY <2>3, EvenIsNat
    <2>5. i \in Nat /\ i >= 1 /\ i <= m /\ HeaderSize \in Nat
        BY <2>2, <2>3, HeaderAssumption
    <2>6. b + 2 + i \in HeaderSize + 1 .. d
        BY <2>3, <2>4, <2>5
    <2> QED
        BY <2>2, <2>6 DEF BeginOf
<1> QED
    BY <1>2, <1>4, <1>7, <1>8 DEF n

\* The payloads stay where nothing is written behind the headers.
LEMMA HeldStays ==
    ASSUME NEW chunks, ChunksOK(chunks), NEW w, NEW v, Held(w, chunks),
           \A i \in HeaderSize + 1 .. EndOf(chunks, Len(chunks)) : v[i] = w[i]
    PROVE  Held(v, chunks)
<1> SUFFICES ASSUME NEW k \in 1 .. Len(chunks), setup[chunks[k].stream].encoder = FALSE,
                    NEW i \in 1 .. chunks[k].size
             PROVE  v[BeginOf(chunks, k) + 2 + i] = <<"byte", chunks[k].number>>
    BY DEF Held
<1>1. BeginOf(chunks, k) + 2 + i \in HeaderSize + 1 .. EndOf(chunks, Len(chunks))
    BY PlaceFacts
<1>2. w[BeginOf(chunks, k) + 2 + i] = <<"byte", chunks[k].number>>
    BY DEF Held
<1> QED
    BY <1>1, <1>2

LEMMA HeadersPends ==
    ASSUME CellsFit, FileInv, WriterInv, Pending, FileInv', WriteHeaders
    PROVE  Pending'
<1>0. PICK x, q, w, t : x = Head(todo) /\ q = Tail(todo) /\ w = Whole /\ t = Tell
    OBVIOUS
<1>1. /\ Doing("headers")
      /\ IF status = 0 THEN Then(<<>>) /\ UNCHANGED fileVars
                       ELSE SeekEnd /\ Then(HeaderSteps(off'))
      /\ UNCHANGED <<setup, status, index, stored, file>>
    BY DEF WriteHeaders, streamVars, writerVars, historyVars
<1>2. "headers" \notin FileNames
    BY DEF FileNames
<1>3. /\ todo \in Seq(Statement) /\ todo # <<>> /\ x.do = "headers"
      /\ Stage(w, t, todo) /\ q \in Seq(Statement)
    BY <1>0, <1>1, <1>2, Doings
<1>4. /\ file = "open" /\ AtRest(w, t)
      /\ \/ Calls(q) /\ InOrder(q)
         \/ \E p \in Seq(Statement) : Closing(p) /\ todo = AfterFinish(p)
    BY <1>0, <1>3, StageNamed
<1>5. ASSUME NEW v, NEW u, AtRest(v, u), status = 1 => Headed(v, Len(v))
      PROVE  Stage(v, u, q)
    <2>1. CASE Calls(q) /\ InOrder(q)
        BY <1>4, <1>5, <2>1 DEF Stage, Resting
    <2>2. ASSUME NEW p \in Seq(Statement), Closing(p), todo = AfterFinish(p)
          PROVE  Stage(v, u, q)
        <3>1. q = AfterHeaders(p)
            BY <1>0, <2>2, AfterHeads
        <3> QED
            BY <1>4, <1>5, <2>2, <3>1 DEF Stage, Finishing
    <2> QED
        BY <1>4, <2>1, <2>2
<1>6. CASE status = 0
    <2>1. todo' = q /\ UNCHANGED fileVars
        BY <1>0, <1>1, <1>3, <1>6, NoStatement DEF Then
    <2>2. Stage(w, t, q)
        BY <1>4, <1>5, <1>6
    <2> QED
        BY <1>0, <1>1, <1>3, <2>1, <2>2, RestAt
<1>7. CASE ~(status = 0)
    <2>1. status = 1
        BY <1>7 DEF WriterInv, WriterOK
    <2>2. stored # <<>> /\ Grown(w, t, stored) /\ IndexHas(Len(stored))
        BY <1>4, <1>7 DEF AtRest
    <2>3. /\ SeekEnd /\ todo' = HeaderSteps(off') \o q
        BY <1>0, <1>1, <1>7 DEF Then
    <2>4. Whole' = w /\ Tell' = Len(w) /\ off' = Len(w) /\ w \in Seq(Cell)
        BY <1>0, <2>3, ToEnd, WholeFacts
    <2>5. /\ ChunksOK(stored) /\ Held(w, stored) /\ Len(w) = EndOf(stored, Len(stored))
          /\ t = Len(w) /\ t < OffsetSpan
        BY <2>2 DEF Grown
    <2>6. HeaderSize <= Len(w)
        <3>1. Len(stored) \in 0 .. Len(stored)
            BY <2>5, PlaceFacts
        <3> QED
            BY <2>5, <3>1, PlaceFacts
    <2>7. StreamsOK
        BY DEF WriterInv
    <2>8. PICK v \in Seq(Cell) :
              /\ HeaderSteps(Len(w)) \in Seq(Statement) /\ Writes(HeaderSteps(Len(w)))
              /\ Yields(HeaderSteps(Len(w)), <<w, Len(w)>>, <<v, Len(v)>>)
              /\ Len(v) = Len(w) /\ Headed(v, Len(w))
              /\ \A i \in HeaderSize + 1 .. Len(w) : v[i] = w[i]
        BY <2>4, <2>6, <2>7, HeadersLaid
    <2>9. Held(v, stored)
        BY <2>5, <2>8, HeldStays
    <2>10. AtRest(v, Len(v))
        BY <1>7, <2>2, <2>5, <2>8, <2>9 DEF AtRest, Grown
    <2>11. Stage(v, Len(v), q)
        BY <1>5, <2>8, <2>10
    <2>12. PICK l : l = HeaderSteps(Len(w))
        OBVIOUS
    <2>13. /\ l \in Seq(Statement) /\ (\A i \in 1 .. Len(l) : l[i].do \in FileNames)
           /\ Yields(l, <<w, Len(w)>>, <<v, Len(v)>>) /\ todo' = l \o q
        BY <2>3, <2>4, <2>8, <2>12 DEF Writes
    <2>14. PICK u : u = Len(v) /\ u \in 0 .. Len(v)
        OBVIOUS
    <2>15. Yields(l, <<Whole', Tell'>>, <<v, u>>)
        BY <2>4, <2>13, <2>14
    <2>16. Stage(v, u, q)'
        BY <1>1, <2>11, <2>14, SameStage
    <2> QED
        BY <1>1, <1>3, <2>13, <2>14, <2>15, <2>16, PendingNow
<1> QED
    BY <1>6, <1>7

\* The headers stay where nothing but the size of the file is written in them.
LEMMA HeadedStays ==
    ASSUME StreamsOK, NEW w, NEW v, NEW e, Headed(w, e),
           \A i \in 1 .. HeaderSize : i # 2 => v[i] = w[i]
    PROVE  Headed(v, e)
<1> DEFINE n == Len(setup)
<1>1. /\ HeaderSize \in Nat /\ n \in Nat /\ n >= 1 /\ 4 + 4 * n + 4 <= HeaderSize
    BY RoomFacts
<1>2. /\ w[1] = Id("RIFF") /\ w[3] = Id("hdrl") /\ w[4] = Number(4 * n)
      /\ \A s \in 1 .. n : w[4 * s + 1] = Id("strl") /\ w[4 * s + 2] = Number(2)
      /\ w[4 * n + 5] = Id("JUNK") /\ w[4 * n + 6] = Number(HeaderSize - 8 - 4 * n)
      /\ w[HeaderSize - 1] = Id("movi") /\ w[HeaderSize] = Number(e - HeaderSize)
    BY DEF Headed
<1> HIDE DEF n
<1>3. /\ 1 \in 1 .. HeaderSize /\ 3 \in 1 .. HeaderSize /\ 4 \in 1 .. HeaderSize
      /\ 4 * n + 5 \in 1 .. HeaderSize /\ 4 * n + 6 \in 1 .. HeaderSize
      /\ HeaderSize - 1 \in 1 .. HeaderSize /\ HeaderSize \in 1 .. HeaderSize
      /\ 4 * n + 5 # 2 /\ 4 * n + 6 # 2 /\ HeaderSize - 1 # 2 /\ HeaderSize # 2
    BY <1>1
<1>4. v[1] = w[1] /\ v[3] = w[3] /\ v[4] = w[4]
    BY <1>3
<1>5. v[4 * n + 5] = w[4 * n + 5] /\ v[4 * n + 6] = w[4 * n + 6]
    BY <1>3
<1>6. v[HeaderSize - 1] = w[HeaderSize - 1] /\ v[HeaderSize] = w[HeaderSize]
    BY <1>3
<1>7. ASSUME NEW s \in 1 .. n
      PROVE  v[4 * s + 1] = Id("strl") /\ v[4 * s + 2] = Number(2)
    <2>1. /\ 4 * s + 1 \in 1 .. HeaderSize /\ 4 * s + 2 \in 1 .. HeaderSize
          /\ 4 * s + 1 # 2 /\ 4 * s + 2 # 2
        BY <1>1
    <2>2. v[4 * s + 1] = w[4 * s + 1] /\ v[4 * s + 2] = w[4 * s + 2]
        BY <2>1
    <2> QED
        BY <1>2, <2>2
<1> QED
    BY <1>2, <1>4, <1>5, <1>6, <1>7 DEF Headed, n

\* So does a finished file.
LEMMA FinishedStays ==
    ASSUME StreamsOK, NEW w, NEW v, NEW chunks, Finished(w, chunks), Len(v) = Len(w),
           \A i \in 1 .. Len(w) : i # 2 => v[i] = w[i]
    PROVE  Finished(v, chunks)
<1>0. PICK n, e : n = Len(chunks) /\ e = EndOf(chunks, n)
    OBVIOUS
<1>1. /\ n > 0 /\ ChunksOK(chunks) /\ Held(w, chunks)
      /\ Len(w) = e + 2 + 4 * n
      /\ Headed(w, e)
      /\ w[e + 1] = Id("idx1") /\ w[e + 2] = Number(4 * n)
      /\ \A k \in 1 .. n : \A j \in 1 .. 4 :
             w[e + 4 * k - 2 + j] = EntryCells(EntryOf(chunks, k))[j]
    BY <1>0 DEF Finished
<1>2. n \in Nat /\ e \in Nat /\ e >= HeaderSize
    <2>1. n \in 0 .. n
        BY <1>0, <1>1, PlaceFacts
    <2> QED
        BY <1>0, <1>1, <2>1, PlaceFacts
<1>3. HeaderSize \in Nat /\ HeaderSize >= 12
    BY RoomFacts
<1>4. Headed(v, e)
    <2>1. \A i \in 1 .. HeaderSize : i \in 1 .. Len(w)
        BY <1>1, <1>2, <1>3
    <2> QED
        BY <1>1, <2>1, HeadedStays
<1>5. Held(v, chunks)
    <2>1. \A i \in HeaderSize + 1 .. e : i \in 1 .. Len(w) /\ i # 2
        BY <1>1, <1>2, <1>3
    <2>2. \A i \in HeaderSize + 1 .. e : v[i] = w[i]
        BY <2>1
    <2> QED
        BY <1>0, <1>1, <2>2, HeldStays
<1>6. v[e + 1] = w[e + 1] /\ v[e + 2] = w[e + 2]
    <2>1. e + 1 \in 1 .. Len(w) /\ e + 2 \in 1 .. Len(w) /\ e + 1 # 2 /\ e + 2 # 2
        BY <1>1, <1>2, <1>3
    <2> QED
        BY <2>1
<1>7. ASSUME NEW k \in 1 .. n, NEW j \in 1 .. 4
      PROVE  v[e + 4 * k - 2 + j] = EntryCells(EntryOf(chunks, k))[j]
    <2>1. e + 4 * k - 2 + j \in 1 .. Len(w) /\ e + 4 * k - 2 + j # 2
        <3>1. Len(w) = e + 2 + 4 * n
            BY <1>1
        <3>2. \A y \in 1 .. n : \A z \in 1 .. 4 :
                  e + 4 * y - 2 + z \in 1 .. e + 2 + 4 * n /\ e + 4 * y - 2 + z # 2
            BY ONLY <1>2, <1>3
        <3> QED
            BY <3>1, <3>2
    <2>2. v[e + 4 * k - 2 + j] = w[e + 4 * k - 2 + j]
        BY <2>1
    <2> QED
        BY <1>1, <2>2
<1> QED
    BY <1>0, <1>1, <1>4, <1>5, <1>6, <1>7 DEF Finished

LEMMA RiffSizePends ==
    ASSUME CellsFit, FileInv, WriterInv, Pending, FileInv', WriteRiffSize
    PROVE  Pending'
<1>0. PICK x, q, w, c : /\ x = Head(todo) /\ q = Tail(todo) /\ w = Whole
                        /\ c = Number(Len(Whole) - 2)
    OBVIOUS
<1>1. /\ Doing("riffSize") /\ SeekEnd /\ Then(Go(1) \o Put1(Number(off' - 2)))
      /\ UNCHANGED <<setup, status, index, stored, file>>
    BY DEF WriteRiffSize, streamVars, writerVars, historyVars
<1>2. "riffSize" \notin FileNames
    BY DEF FileNames
<1>3. /\ todo \in Seq(Statement) /\ todo # <<>> /\ x.do = "riffSize"
      /\ Stage(Whole, Tell, todo) /\ q \in Seq(Statement)
    BY <1>0, <1>1, <1>2, Doings
<1>4. file = "open" /\ Ended(w)
      /\ \E p \in Seq(Statement) : Closing(p) /\ todo = AfterIndex(p)
    BY <1>0, <1>3, StageNamed
<1>5. PICK p \in Seq(Statement) : Closing(p) /\ todo = AfterIndex(p)
    BY <1>4
<1>6. q = AfterRiffSize(p)
    BY <1>0, <1>5, AfterHeads
<1>7. Whole' = w /\ Tell' = Len(w) /\ off' = Len(w) /\ w \in Seq(Cell) /\ Len(w) \in Nat
    BY <1>0, <1>1, ToEnd, WholeFacts
<1>8. c \in Cell
    BY <1>0, <1>7, CellsAre
<1>9. todo' = (Go(1) \o Put1(c)) \o q
    BY <1>0, <1>1, <1>7 DEF Then
<1> DEFINE a == Go(1)
           b == Put1(c)
<1>10. a \in Seq(Statement) /\ b \in Seq(Statement) /\ Writes(a) /\ Writes(b)
    <2>1. 1 \in Nat
        OBVIOUS
    <2> QED
        BY <1>8, <2>1, GroupsFit, GroupsWrite
<1>11. Len(w) >= 1
    <2>1. CASE status = 0
        BY <1>4, <1>7, <2>1 DEF Ended, Nothing
    <2>2. CASE ~(status = 0)
        <3>1. Finished(w, stored)
            BY <1>4, <2>2 DEF Ended
        <3>2. /\ ChunksOK(stored) /\ Len(stored) > 0
              /\ Len(w) = EndOf(stored, Len(stored)) + 2 + 4 * Len(stored)
            BY <3>1 DEF Finished
        <3>3. Len(stored) \in Nat /\ Len(stored) \in 0 .. Len(stored)
            BY <3>2, PlaceFacts
        <3>4. EndOf(stored, Len(stored)) \in Nat
            BY <3>2, <3>3, PlaceFacts
        <3> QED
            BY <3>2, <3>3, <3>4
    <2> QED
        BY <2>1, <2>2
<1>12. PICK o, d : o = 1 /\ d = <<c>>
    OBVIOUS
<1>13. o \in 0 .. Len(w) /\ d \in Seq(Cell) /\ Len(d) = 1 /\ d[1] = c
    BY <1>7, <1>8, <1>11, <1>12
<1>14. PICK v : v = File!Overlay(w, o, d)
    OBVIOUS
<1>15. /\ v \in Seq(Cell) /\ Len(v) = IF o + Len(d) > Len(w) THEN o + Len(d) ELSE Len(w)
       /\ \A i \in 1 .. (IF o + Len(d) > Len(w) THEN o + Len(d) ELSE Len(w)) :
             v[i] = IF i > o /\ i <= o + Len(d) THEN d[i - o] ELSE w[i]
    BY <1>7, <1>13, <1>14, OverlayFacts
<1>16. /\ Len(v) >= 2 /\ Len(v) \in Nat /\ v[1] = w[1]
       /\ Len(w) >= 2 => Len(v) = Len(w)
       /\ \A i \in 1 .. Len(w) : i # 2 => v[i] = w[i]
    <2>1. o + Len(d) = 2
        BY <1>12, <1>13
    <2>2. Len(v) = IF 2 > Len(w) THEN 2 ELSE Len(w)
        BY <1>15, <2>1
    <2>3. \A i \in 1 .. Len(v) : ~(i > 1 /\ i <= 2) => v[i] = w[i]
        BY <1>12, <1>15, <2>1
    <2>4. Len(v) >= 2 /\ Len(v) \in Nat /\ (Len(w) >= 2 => Len(v) = Len(w)) /\ Len(v) >= Len(w)
        BY <1>7, <2>2
    <2>5. \A i \in 1 .. Len(w) : i # 2 => i \in 1 .. Len(v) /\ ~(i > 1 /\ i <= 2)
        BY <1>7, <2>4
    <2> QED
        BY <1>7, <1>11, <2>3, <2>4, <2>5
<1>17. Ended(v)
    <2>1. CASE status = 0
        BY <1>4, <1>16, <2>1 DEF Ended, Nothing
    <2>2. CASE ~(status = 0)
        <3>1. Finished(w, stored)
            BY <1>4, <2>2 DEF Ended
        <3>2. /\ ChunksOK(stored) /\ Len(stored) > 0
              /\ Len(w) = EndOf(stored, Len(stored)) + 2 + 4 * Len(stored)
            BY <3>1 DEF Finished
        <3>3. Len(stored) \in Nat /\ Len(stored) \in 0 .. Len(stored)
            BY <3>2, PlaceFacts
        <3>4. EndOf(stored, Len(stored)) \in Nat
            BY <3>2, <3>3, PlaceFacts
        <3>5. Len(v) = Len(w)
            BY <1>16, <3>2, <3>3, <3>4
        <3>6. StreamsOK
            BY DEF WriterInv
        <3> QED
            BY <1>16, <2>2, <3>1, <3>5, <3>6, FinishedStays DEF Ended
    <2> QED
        BY <2>1, <2>2
<1>18. Stage(v, 2, q)
    BY <1>4, <1>5, <1>6, <1>17 DEF Stage, Finishing
<1> HIDE DEF a, b
<1>19. a \o b \in Seq(Statement) /\ Writes(a \o b) /\ Yields(a \o b, <<w, Len(w)>>, <<v, 2>>)
    <2>1. Yields(a, <<w, Len(w)>>, <<w, 1>>)
        BY YieldsGo DEF a
    <2>2. Yields(b, <<w, 1>>, <<v, 2>>)
        <3>1. 1 \in 0 .. Len(w) /\ 1 + 1 = 2
            BY <1>7, <1>11
        <3>2. Yields(Put1(c), <<w, 1>>, <<File!Overlay(w, 1, <<c>>), 1 + 1>>)
            BY <1>7, <1>8, <3>1, YieldsPut
        <3> QED
            BY <1>12, <1>14, <3>1, <3>2 DEF b
    <2> QED
        BY ONLY JoinsYields, <1>10, <2>1, <2>2 DEF JoinedYields
<1>20. PICK l, u : l = a \o b /\ u = 2
    OBVIOUS
<1>21. /\ l \in Seq(Statement) /\ (\A i \in 1 .. Len(l) : l[i].do \in FileNames)
       /\ Yields(l, <<Whole', Tell'>>, <<v, u>>) /\ todo' = l \o q /\ u \in 0 .. Len(v)
    BY <1>7, <1>9, <1>16, <1>19, <1>20 DEF Writes, a, b
<1>22. Stage(v, u, q)'
    BY <1>1, <1>18, <1>20, SameStage
<1> QED
    BY <1>1, <1>3, <1>15, <1>21, <1>22, PendingNow

\* The file is given to the list of those that are finished.
LEMMA DeletePends ==
    ASSUME FileInv, WriterInv, Pending, FileInv', DeleteBuffer, stored \in Seq(Chunk)
    PROVE  Pending' /\ FileOK([disk |-> disk', chunks |-> stored]) /\ disk' \in Seq(Cell)
<1>0. PICK x, q, w, t : x = Head(todo) /\ q = Tail(todo) /\ w = Whole' /\ t = Tell'
    OBVIOUS
<1>1. /\ Doing("delete") /\ disk' = Whole /\ file' = "none" /\ Then(<<>>)
      /\ UNCHANGED <<setup, status, index, stored>>
    BY DEF DeleteBuffer, Close, Give, File!Write, Whole, streamVars
<1>2. "delete" \notin FileNames
    BY DEF FileNames
<1>3. /\ todo \in Seq(Statement) /\ todo # <<>> /\ x.do = "delete"
      /\ Stage(Whole, Tell, todo) /\ q \in Seq(Statement)
    BY <1>0, <1>1, <1>2, Doings
<1>4. Ended(Whole)
      /\ \E p \in Seq(Statement) : Closing(p) /\ todo = AfterRiffSize(p)
    BY <1>0, <1>3, StageNamed
<1>5. PICK p \in Seq(Statement) : Closing(p) /\ todo = AfterRiffSize(p)
    BY <1>4
<1>6. q = p
    BY <1>0, <1>5, AfterHeads
<1>7. todo' = q
    BY <1>0, <1>1, <1>3, NoStatement DEF Then
<1>8. Closing(q)'
    BY <1>1, <1>5, <1>6, SamePlaces
<1>9. Stage(w, t, q)'
    BY <1>1, <1>8 DEF Stage, WithoutFile
<1>10. Pending'
    BY <1>0, <1>1, <1>3, <1>7, <1>9, PendingAt
<1>11. Whole \in Seq(Cell)
    BY WholeFacts
<1>12. FileOK([disk |-> disk', chunks |-> stored])
    <2>1. CASE status = 0
        BY <1>1, <1>4, <1>11, <2>1 DEF Ended, FileOK
    <2>2. CASE ~(status = 0)
        <3>1. Finished(Whole, stored)
            BY <1>4, <2>2 DEF Ended
        <3>2. Len(stored) > 0
            BY <3>1 DEF Finished
        <3>3. stored # <<>>
            <4>1. Len(<<>>) = 0
                OBVIOUS
            <4> QED
                BY <3>2, <4>1
        <3> QED
            BY <1>1, <1>11, <3>1, <3>3 DEF FileOK
    <2> QED
        BY <2>1, <2>2
<1> QED
    BY <1>1, <1>10, <1>11, <1>12

\* The cells of an entry
LEMMA EntryCellsFit ==
    ASSUME CellsFit, StreamsOK, NEW x \in Entry
    PROVE  EntryCells(x) \in Seq(Cell) /\ Len(EntryCells(x)) = 4
<1> DEFINE a == ChunkId(x.stream)
           b == Number(IF x.key THEN 1 ELSE 0)
           c == Number(x.offset)
           d == Number(x.size)
<1>1. x.stream \in Int /\ x.offset \in Int /\ x.size \in Int
    <2>1. x.stream \in Streams /\ x.offset \in Int /\ x.size \in Nat
        BY DEF Entry
    <2> QED
        BY <2>1 DEF StreamsOK, Streams
<1>2. a \in Cell /\ b \in Cell /\ c \in Cell /\ d \in Cell
    BY <1>1, CellsAre
<1>3. EntryCells(x) = <<a, b, c, d>>
    BY Zenon DEF EntryCells
<1> HIDE DEF a, b, c, d
<1> QED
    BY <1>2, <1>3

\* The cells of the index, four by four
LEMMA IndexCellsAre ==
    ASSUME CellsFit, index \in Seq(Entry), StreamsOK
    PROVE  /\ IndexCells \in Seq(Cell) /\ Len(IndexCells) = 4 * Len(index)
           /\ \A k \in 1 .. Len(index) : \A j \in 1 .. 4 :
                  IndexCells[4 * k - 4 + j] = EntryCells(index[k])[j]
<1> DEFINE n == Len(index)
<1>1. n \in Nat /\ IndexCells \in Seq(Cell)
    BY IndexFits
<1>2. DOMAIN IndexCells = 1 .. 4 * n
    BY DEF IndexCells
<1>3. Len(IndexCells) = 4 * n
    <2>1. 4 * n \in Nat
        BY <1>1
    <2> QED
        BY <1>1, <1>2, <2>1
<1>4. ASSUME NEW k \in 1 .. n, NEW j \in 1 .. 4
      PROVE  IndexCells[4 * k - 4 + j] = EntryCells(index[k])[j]
    <2>1. \A y \in 1 .. n : \A z \in 1 .. 4 :
             /\ 4 * y - 4 + z \in 1 .. 4 * n
             /\ ((4 * y - 4 + z) + 3) \div 4 = y
             /\ (((4 * y - 4 + z) - 1) % 4) + 1 = z
        BY <1>1
    <2>2. PICK p : p = 4 * k - 4 + j
        OBVIOUS
    <2>3. p \in 1 .. 4 * n /\ (p + 3) \div 4 = k /\ ((p - 1) % 4) + 1 = j
        BY <2>1, <2>2
    <2>4. IndexCells[p] = EntryCells(index[(p + 3) \div 4])[((p - 1) % 4) + 1]
        BY <2>3 DEF IndexCells
    <2> QED
        BY <2>2, <2>3, <2>4
<1> QED
    BY <1>1, <1>3, <1>4

\* The index that is written behind the last chunk
LEMMA IndexThere ==
    ASSUME CellsFit, StreamsOK, index \in Seq(Entry), NEW w \in Seq(Cell),
           stored # <<>>, Grown(w, Len(w), stored), IndexHas(Len(stored)), Headed(w, Len(w)),
           NEW d \in Seq(Cell), NEW v \in Seq(Cell),
           Len(d) = 2 + 4 * Len(index), d[1] = Id("idx1"), d[2] = Number(4 * Len(index)),
           \A i \in 1 .. 4 * Len(index) : d[2 + i] = IndexCells[i],
           Len(v) = Len(w) + Len(d),
           \A i \in 1 .. Len(w) : v[i] = w[i],
           \A i \in 1 .. Len(d) : v[Len(w) + i] = d[i]
    PROVE  Finished(v, stored)
<1>0. PICK n, e : n = Len(stored) /\ e = EndOf(stored, n)
    OBVIOUS
<1>1. /\ ChunksOK(stored) /\ Held(w, stored) /\ Len(w) = e
      /\ Len(index) = n /\ \A k \in 1 .. n : index[k] = EntryOf(stored, k)
    BY <1>0 DEF Grown, IndexHas
<1>2. n \in Nat /\ n > 0 /\ e \in Nat /\ e >= HeaderSize
    <2>1. stored \in Seq(Chunk)
        BY <1>1 DEF ChunksOK
    <2>2. n \in Nat /\ n > 0
        BY <1>0, <2>1
    <2>3. n \in 0 .. n
        BY <2>2
    <2> QED
        BY <1>0, <1>1, <2>2, <2>3, PlaceFacts
<1>3. HeaderSize \in Nat /\ HeaderSize >= 12
    BY RoomFacts
<1>4. Headed(v, e)
    <2>1. \A i \in 1 .. HeaderSize : i \in 1 .. Len(w)
        BY <1>1, <1>2, <1>3
    <2> QED
        BY <1>1, <2>1, HeadedStays
<1>5. Held(v, stored)
    <2>1. \A i \in HeaderSize + 1 .. e : i \in 1 .. Len(w)
        BY <1>1, <1>2, <1>3
    <2>2. \A i \in HeaderSize + 1 .. e : v[i] = w[i]
        BY <2>1
    <2> QED
        BY <1>0, <1>1, <2>2, HeldStays
<1>6. Len(v) = e + 2 + 4 * n /\ Len(d) = 2 + 4 * n
    BY <1>1, <1>2
<1>7. v[e + 1] = Id("idx1") /\ v[e + 2] = Number(4 * n)
    <2>1. 1 \in 1 .. Len(d) /\ 2 \in 1 .. Len(d)
        BY <1>2, <1>6
    <2>2. v[e + 1] = d[1] /\ v[e + 2] = d[2]
        BY <1>1, <2>1
    <2> QED
        BY <1>1, <2>2
<1>8. ASSUME NEW k \in 1 .. n, NEW j \in 1 .. 4
      PROVE  v[e + 4 * k - 2 + j] = EntryCells(EntryOf(stored, k))[j]
    <2>1. PICK p : p = 4 * k - 4 + j
        OBVIOUS
    <2>2. p \in 1 .. 4 * n /\ 2 + p \in 1 .. 2 + 4 * n /\ e + 4 * k - 2 + j = e + (2 + p)
        <3>1. \A y \in 1 .. n : \A z \in 1 .. 4 :
                 4 * y - 4 + z \in 1 .. 4 * n /\ e + 4 * y - 2 + z = e + (2 + (4 * y - 4 + z))
            BY ONLY <1>2
        <3>2. p \in 1 .. 4 * n /\ e + 4 * k - 2 + j = e + (2 + p)
            BY <2>1, <3>1
        <3>3. \A y \in 1 .. 4 * n : 2 + y \in 1 .. 2 + 4 * n
            BY ONLY <1>2
        <3> QED
            BY <3>2, <3>3
    <2>3. v[e + (2 + p)] = d[2 + p] /\ d[2 + p] = IndexCells[p]
        BY <1>1, <1>6, <2>2
    <2>4. IndexCells[p] = EntryCells(index[k])[j]
        BY <1>1, <2>1, IndexCellsAre
    <2> QED
        BY <1>1, <2>2, <2>3, <2>4
<1> QED
    BY <1>0, <1>1, <1>2, <1>4, <1>5, <1>6, <1>7, <1>8 DEF Finished

LEMMA IndexAdds ==
    ASSUME CellsFit, FileInv, WriterInv, Pending, WriteIndex
    PROVE  \E l, r, v :
              /\ Leaves(l, r, v) /\ Stage(v, Len(v), r)'
              /\ Ended(v) /\ Len(Whole) <= Len(v)
              /\ \A i \in 1 .. Len(Whole) : v[i] = Whole[i]
<1>0. PICK x, q, w, t, m, a, b, c :
        /\ x = Head(todo) /\ q = Tail(todo) /\ w = Whole /\ t = Tell
        /\ m = Len(index) /\ a = Id("idx1") /\ b = Number(4 * m) /\ c = IndexCells
    OBVIOUS
<1>1. /\ Doing("index") /\ Then(Put1(a) \o Put1(b) \o WriteAll(c))
      /\ UNCHANGED fileVars /\ UNCHANGED <<setup, status, index, stored, file>>
    BY <1>0 DEF WriteIndex, streamVars, writerVars, historyVars
<1>2. "index" \notin FileNames
    BY DEF FileNames
<1>3. /\ todo \in Seq(Statement) /\ todo # <<>> /\ x.do = "index"
      /\ Stage(w, t, todo) /\ q \in Seq(Statement)
    BY <1>0, <1>1, <1>2, Doings
<1>4. file = "open" /\ AtRest(w, t) /\ (status = 1 => Headed(w, Len(w)))
      /\ \E p \in Seq(Statement) : Closing(p) /\ todo = AfterHeaders(p)
    BY <1>0, <1>3, StageNamed
<1>5. PICK p \in Seq(Statement) : Closing(p) /\ todo = AfterHeaders(p)
    BY <1>4
<1>6. q = AfterIndex(p)
    BY <1>0, <1>5, AfterHeads
<1>7. w \in Seq(Cell) /\ Len(w) \in Nat /\ t = Len(w)
    <2>1. w \in Seq(Cell)
        BY <1>0, WholeFacts
    <2>2. CASE status = 0
        <3>1. Len(<<>>) = 0
            OBVIOUS
        <3> QED
            BY <1>4, <2>1, <2>2, <3>1 DEF AtRest
    <2>3. CASE ~(status = 0)
        BY <1>4, <2>1, <2>3 DEF AtRest, Grown
    <2> QED
        BY <2>1, <2>2, <2>3
<1>8. StreamsOK /\ index \in Seq(Entry) /\ m \in Nat
    BY <1>0 DEF WriterInv, WriterOK
<1>9. /\ c \in Seq(Cell) /\ Len(c) = 4 * m
      /\ a \in Cell /\ b \in Cell
    <2>1. "idx1" \in Names
        BY DEF Names
    <2>2. 4 * m \in Int
        BY <1>8
    <2> QED
        BY <1>0, <1>8, <2>1, <2>2, IndexCellsAre, CellsAre
<1> DEFINE l1 == Put1(a)
           l2 == Put1(b)
           l3 == WriteAll(c)
           l12 == l1 \o l2
           l == l12 \o l3
           ab == <<a>> \o <<b>>
           d == ab \o c
<1>10. /\ l1 \in Seq(Statement) /\ l2 \in Seq(Statement) /\ l3 \in Seq(Statement)
       /\ Appends(l1) /\ Appends(l2) /\ Appends(l3)
       /\ Lays(l1, <<a>>) /\ Lays(l2, <<b>>) /\ Lays(l3, c)
    BY <1>9, GroupsFit, GroupsAppend, GroupsLay
<1>11. /\ ab = <<a, b>>
       /\ ab \in Seq(Cell) /\ Len(ab) = 2 /\ ab[1] = a /\ ab[2] = b
       /\ <<a>> \in Seq(Cell) /\ <<b>> \in Seq(Cell)
    <2>1. ab = <<a, b>>
        BY <1>9, TwoCells
    <2> HIDE DEF ab
    <2> QED
        BY <1>9, <2>1
<1> HIDE DEF l1, l2, l3
<1>12. l12 \in Seq(Statement) /\ Appends(l12)
    BY <1>10, AppendsJoin
<1>13. Lays(l12, ab)
    BY <1>10, <1>11, LaysJoin
<1> HIDE DEF l12, ab
<1>14. l \in Seq(Statement) /\ Appends(l)
    BY <1>10, <1>12, AppendsJoin
<1>15. Lays(l, d)
    BY <1>9, <1>10, <1>11, <1>12, <1>13, LaysJoin
<1>16. /\ d \in Seq(Cell) /\ Len(d) = 2 + 4 * m /\ d[1] = a /\ d[2] = b
       /\ \A i \in 1 .. 4 * m : d[2 + i] = c[i]
    <2>1. ab \in Seq(Cell) /\ c \in Seq(Cell)
        BY <1>9, <1>11
    <2>2. /\ d \in Seq(Cell) /\ Len(d) = Len(ab) + Len(c)
          /\ \A i \in 1 .. Len(ab) : d[i] = ab[i]
          /\ \A i \in 1 .. Len(c) : d[Len(ab) + i] = c[i]
        BY ONLY <2>1
    <2> HIDE DEF d
    <2>3. 1 \in 1 .. Len(ab) /\ 2 \in 1 .. Len(ab)
        BY <1>11
    <2> QED
        BY <1>9, <1>11, <2>2, <2>3
<1> HIDE DEF l, d
<1>17. PICK v : v = File!Overlay(w, Len(w), d)
    OBVIOUS
<1>18. /\ v \in Seq(Cell) /\ Len(v) = Len(w) + Len(d)
       /\ \A i \in 1 .. Len(w) : v[i] = w[i]
       /\ \A i \in 1 .. Len(d) : v[Len(w) + i] = d[i]
    BY <1>7, <1>16, <1>17, OverlayEnd
<1>19. PICK u : u = Len(v) /\ u \in 0 .. Len(v)
    <2>1. Len(v) \in 0 .. Len(v)
        BY <1>18
    <2> QED
        BY <2>1
<1>20. Yields(l, <<w, t>>, <<v, u>>)
    <2>1. Len(w) \in 0 .. Len(w)
        BY <1>7
    <2>2. Yields(l, <<w, Len(w)>>, <<File!Overlay(w, Len(w), d), Len(w) + Len(d)>>)
        BY <1>7, <1>15, <2>1 DEF Lays
    <2> QED
        BY <1>7, <1>17, <1>18, <1>19, <2>2
<1>21. Ended(v)
    <2>1. CASE status = 0
        <3>1. stored = <<>> /\ w = <<>>
            BY <1>4, <2>1 DEF AtRest
        <3>2. Len(w) = 0
            BY <3>1
        <3>3. Len(v) > 0 /\ v[1] = d[1]
            <4>1. 1 \in 1 .. Len(d) /\ 0 + 1 = 1
                BY <1>8, <1>16
            <4> QED
                BY <1>8, <1>16, <1>18, <3>2, <4>1
        <3>4. Id("idx1") # Id("RIFF")
            BY DEF Id
        <3> QED
            BY <1>0, <1>16, <2>1, <3>1, <3>3, <3>4 DEF Ended, Nothing
    <2>2. CASE ~(status = 0)
        <3>1. stored # <<>> /\ Grown(w, Len(w), stored) /\ IndexHas(Len(stored))
            BY <1>4, <1>7, <2>2 DEF AtRest
        <3>2. Headed(w, Len(w))
            BY <1>4, <2>2 DEF WriterInv, WriterOK
        <3>3. /\ Len(d) = 2 + 4 * Len(index) /\ d[1] = Id("idx1")
              /\ d[2] = Number(4 * Len(index))
              /\ \A i \in 1 .. 4 * Len(index) : d[2 + i] = IndexCells[i]
            BY <1>0, <1>16
        <3>4. Finished(v, stored)
            BY <1>7, <1>8, <1>16, <1>18, <3>1, <3>2, <3>3, IndexThere
        <3> QED
            BY <2>2, <3>4 DEF Ended
    <2> QED
        BY <2>1, <2>2
<1>22. Stage(v, u, q)
    BY <1>4, <1>5, <1>6, <1>21 DEF Stage, Finishing
<1>23. Stage(v, u, q)'
    BY <1>1, <1>22, SameStage
<1>24. todo' = l \o q
    BY <1>0, <1>1 DEF Then, l, l12, l1, l2, l3
<1>25. Whole' = w /\ Tell' = t
    BY <1>0, <1>1 DEF fileVars, Whole, Tell
<1>26. RestOK(q)
    <2>1. Head(q).do = "riffSize"
        BY <1>5, <1>6, AfterHeads
    <2> QED
        BY <2>1 DEF RestOK, FileNames
<1>27. PICK y : y = l
    OBVIOUS
<1>28. /\ y \in Seq(Statement) /\ Appends(y)
       /\ todo' = y \o q /\ Yields(y, <<Whole', Tell'>>, <<v, Len(v)>>)
    BY <1>14, <1>19, <1>20, <1>24, <1>25, <1>27
<1>29. Leaves(y, q, v)
    BY <1>3, <1>18, <1>26, <1>28 DEF Leaves
<1>30. Len(w) <= Len(v) /\ \A i \in 1 .. Len(w) : v[i] = w[i]
    BY <1>7, <1>16, <1>18
<1> QED
    BY <1>0, <1>19, <1>21, <1>23, <1>29, <1>30

LEMMA IndexPends ==
    ASSUME CellsFit, FileInv, WriterInv, Pending, FileInv', WriteIndex
    PROVE  Pending'
<1>1. setup' = setup
    BY DEF WriteIndex, streamVars
<1>2. PICK l, r, v : Leaves(l, r, v) /\ Stage(v, Len(v), r)'
    BY IndexAdds
<1> QED
    BY <1>1, <1>2, LeavesPend

-----------------------------------------------------------------------------
(* Every step keeps it. *)

\* What a step does to the fields FilingInv is about
LEMMA FieldSteps ==
    ASSUME [Next]_vars
    PROVE  /\ setup' = setup
           /\ phase' = "open" => phase = "open"
           /\ stored' = stored \/ Locate \/ Begin
           /\ files' = files \/ DeleteBuffer
           /\ (running' = running /\ encoding' = encoding) \/ Stop \/ Begin
<1>1. CASE FileStep
    BY <1>1 DEF FileStep, PutNumber, Write, WriteDirect, Lseek, LseekEnd,
                streamVars, writerVars, historyVars
<1>2. CASE CallStep
    <2>1. CASE \/ ChunkSegments \/ ChunkBegins \/ ChunkWithoutFile \/ Locate \/ Refuse
               \/ Enter \/ Count
        BY <2>1 DEF ChunkSegments, ChunkBegins, ChunkWithoutFile, Locate, Refuse, Enter,
                    Count, Doing, streamVars, writerVars, historyVars
    <2>2. CASE \/ WriteHeaders \/ Finish \/ WriteIndex \/ WriteRiffSize \/ DeleteBuffer
               \/ Stop \/ Begin \/ Destroyed
        BY <2>2 DEF WriteHeaders, Finish, WriteIndex, WriteRiffSize, DeleteBuffer, Stop,
                    Begin, Destroyed, Doing, streamVars, writerVars, historyVars
    <2> QED
        BY <1>2, <2>1, <2>2 DEF CallStep
<1>3. CASE UserCall
    BY <1>3 DEF UserCall, AddChunk, SegmentAtKeyframe, Segment, Destroy, Idle,
                streamVars, writerVars, historyVars
<1>4. CASE UNCHANGED vars
    BY <1>4 DEF vars, streamVars, writerVars, historyVars
<1> QED
    BY <1>1, <1>2, <1>3, <1>4 DEF Next

\* A stream that does not encode has no encoder to start or to stop.
LEMMA QuietStays ==
    ASSUME StreamsOK, Quiet, [Next]_vars
    PROVE  Quiet'
<1>0. setup' = setup /\ Streams' = Streams
    BY FieldSteps DEF Streams
<1>1. CASE running' = running /\ encoding' = encoding
    BY <1>0, <1>1 DEF Quiet
<1>2. CASE Stop
    <2>1. PICK s : /\ running' = [running EXCEPT ![s] = FALSE]
                   /\ \/ running[s] /\ encoding' = [encoding EXCEPT ![s] = @ + 1]
                      \/ encoding' = encoding
        BY <1>2 DEF Stop
    <2> SUFFICES ASSUME NEW i \in Streams, setup[i].encoder = FALSE
                 PROVE  running'[i] = FALSE /\ encoding'[i] = 0
        BY <1>0 DEF Quiet
    <2>2. running[i] = FALSE /\ encoding[i] = 0
        BY DEF Quiet
    <2>3. running \in [Streams -> BOOLEAN] /\ encoding \in [Streams -> Nat]
        BY DEF StreamsOK
    <2>4. running'[i] = FALSE
        <3>1. CASE i = s
            BY <2>1, <2>3, <3>1, Zenon
        <3>2. CASE i # s
            BY <2>1, <2>2, <2>3, <3>2, Zenon
        <3> QED
            BY <3>1, <3>2
    <2>5. encoding'[i] = 0
        <3>1. CASE running[s] /\ encoding' = [encoding EXCEPT ![s] = @ + 1]
            <4>1. i # s
                BY <2>2, <3>1, Zenon
            <4> QED
                BY <2>2, <2>3, <3>1, <4>1
        <3>2. CASE encoding' = encoding
            BY <2>2, <3>2
        <3> QED
            BY <2>1, <3>1, <3>2
    <2> QED
        BY <2>4, <2>5
<1>3. CASE Begin
    <2>1. running' = [s \in DOMAIN setup |-> setup[s].encoder] /\ encoding' = encoding
        BY <1>3 DEF Begin
    <2> SUFFICES ASSUME NEW i \in Streams, setup[i].encoder = FALSE
                 PROVE  running'[i] = FALSE /\ encoding'[i] = 0
        BY <1>0 DEF Quiet
    <2>2. running'[i] = setup[i].encoder
        BY <2>1 DEF Streams
    <2> QED
        BY <2>1, <2>2, Zenon DEF Quiet
<1> QED
    BY <1>1, <1>2, <1>3, FieldSteps

\* The chunks of the file that is written
LEMMA StoredStays ==
    ASSUME WriterInv, stored \in Seq(Chunk), [Next]_vars
    PROVE  stored' \in Seq(Chunk')
<1>0. Chunk' = Chunk
    BY FieldSteps, SameStatements
<1>1. CASE stored' = stored
    BY <1>0, <1>1
<1>2. CASE Locate
    <2>1. Doing("locate") /\ stored' = Append(stored, Head(todo).chunk)
        BY <1>2 DEF Locate
    <2>2. Head(todo).chunk \in Chunk
        BY <2>1, HeadFits, StatementHolds
    <2> QED
        BY <1>0, <2>1, <2>2
<1>3. CASE Begin
    BY <1>3 DEF Begin
<1> QED
    BY <1>1, <1>2, <1>3, FieldSteps

\* Nothing happens.
LEMMA StillPends ==
    ASSUME Pending, UNCHANGED fileVars, todo' = todo,
           UNCHANGED <<setup, status, index, stored, file>>
    PROVE  Pending'
<1>1. PICK l \in Seq(Statement), r \in Seq(Statement), w \in Seq(Cell) :
          \E t \in 0 .. Len(w) :
               /\ todo = l \o r
               /\ \A i \in 1 .. Len(l) : l[i].do \in FileNames
               /\ Yields(l, <<Whole, Tell>>, <<w, t>>)
               /\ Stage(w, t, r)
    BY DEF Pending
<1>2. PICK t \in 0 .. Len(w) :
               /\ todo = l \o r
               /\ \A i \in 1 .. Len(l) : l[i].do \in FileNames
               /\ Yields(l, <<Whole, Tell>>, <<w, t>>)
               /\ Stage(w, t, r)
    BY <1>1
<1>3. Whole' = Whole /\ Tell' = Tell /\ setup' = setup
    BY DEF fileVars, Whole, Tell
<1>4. Stage(w, t, r)'
    BY <1>2, SameStage
<1>5. Yields(l, <<Whole', Tell'>>, <<w, t>>)
    BY <1>2, <1>3
<1> QED
    BY <1>2, <1>3, <1>4, <1>5, PendingNow

LEMMA FilingSteps ==
    ASSUME CellsFit, FilingInv, FileInv', [Next]_vars, phase' = "open"
    PROVE  Pending'
<1>1. /\ FileInv /\ WriterInv /\ Quiet /\ stored \in Seq(Chunk)
      /\ Pending
    BY FieldSteps DEF FilingInv
<1>2. CASE FileStep
    BY <1>1, <1>2, PutPends, WritePends, DirectPends, SeekPends, SeekEndPends DEF FileStep
<1>3. CASE CallStep
    <2>1. CASE ChunkSegments \/ ChunkBegins \/ Locate \/ Refuse \/ Enter \/ Count
        BY <1>1, <2>1, SegmentsPends, ChunkPends, LocatePends, RefusePends, EnterPends,
           CountPends
    <2>2. CASE WriteHeaders \/ Finish \/ WriteIndex \/ WriteRiffSize \/ DeleteBuffer
        BY <1>1, <2>2, HeadersPends, FinishPends, IndexPends, RiffSizePends, DeletePends
    <2>3. CASE Stop \/ Begin
        BY <1>1, <2>3, StopPends, BeginPends
    <2>4. ~ChunkWithoutFile /\ ~Destroyed
        BY DEF ChunkWithoutFile, Destroyed
    <2> QED
        BY <1>3, <2>1, <2>2, <2>3, <2>4 DEF CallStep
<1>4. CASE UserCall
    <2>1. CASE AddChunk \/ Segment \/ Destroy
        BY <1>1, <2>1, AskedPends DEF Asked
    <2>2. CASE SegmentAtKeyframe
        <3>1. /\ UNCHANGED fileVars /\ todo' = todo
              /\ UNCHANGED <<setup, status, index, stored, file>>
            BY <2>2 DEF SegmentAtKeyframe, streamVars, historyVars
        <3> QED
            BY <1>1, <3>1, StillPends
    <2> QED
        BY <1>4, <2>1, <2>2 DEF UserCall
<1>5. CASE UNCHANGED vars
    <2>1. /\ UNCHANGED fileVars /\ todo' = todo
          /\ UNCHANGED <<setup, status, index, stored, file>>
        BY <1>5 DEF vars, streamVars, writerVars, historyVars
    <2> QED
        BY <1>1, <2>1, StillPends
<1> QED
    BY <1>2, <1>3, <1>4, <1>5 DEF Next

Archived == Seq([disk : Seq(Cell), chunks : Seq(Chunk)])

\* The files that are finished
LEMMA FilesStay ==
    ASSUME CellsFit, FilingInv, FileInv', [Next]_vars
    PROVE  files' \in Archived' /\ FilesOK'
<1>0. setup' = setup /\ Chunk' = Chunk /\ Archived' = Archived
    BY FieldSteps, SameStatements DEF Archived
<1>1. \A f : FileOK(f)' <=> FileOK(f)
    BY <1>0, SamePlaces DEF FileOK
<1>2. files \in Archived /\ FilesOK
    BY DEF FilingInv, Archived
<1>3. CASE files' = files
    BY <1>0, <1>1, <1>2, <1>3 DEF FilesOK
<1>4. CASE DeleteBuffer
    <2>1. FileInv /\ WriterInv /\ Pending /\ stored \in Seq(Chunk)
        BY <1>4 DEF FilingInv, DeleteBuffer, Doing
    <2>2. PICK f : f = [disk |-> disk', chunks |-> stored]
        OBVIOUS
    <2>3. FileOK(f) /\ disk' \in Seq(Cell)
        BY <1>4, <2>1, <2>2, DeletePends
    <2>4. f \in [disk : Seq(Cell), chunks : Seq(Chunk)] /\ files' = Append(files, f)
        BY <1>4, <2>1, <2>2, <2>3 DEF DeleteBuffer
    <2>5. /\ files' \in Archived /\ Len(files') = Len(files) + 1 /\ Len(files) \in Nat
          /\ files'[Len(files) + 1] = f
          /\ \A n \in 1 .. Len(files) : files'[n] = files[n]
        BY <1>2, <2>4 DEF Archived
    <2>6. ASSUME NEW n \in 1 .. Len(files') PROVE FileOK(files'[n])
        <3>1. CASE n = Len(files) + 1
            BY <2>3, <2>5, <3>1
        <3>2. CASE n # Len(files) + 1
            <4>1. n \in 1 .. Len(files)
                BY <2>5, <3>2
            <4> QED
                BY <1>2, <2>5, <4>1 DEF FilesOK
        <3> QED
            BY <3>1, <3>2
    <2>7. PICK g : g = files'
        OBVIOUS
    <2>8. \A n \in 1 .. Len(g) : FileOK(g[n])'
        BY <1>1, <2>6, <2>7
    <2>9. FilesOK'
        BY <2>7, <2>8 DEF FilesOK
    <2> QED
        BY <1>0, <2>5, <2>9
<1> QED
    BY <1>3, <1>4, FieldSteps

LEMMA FilingNext ==
    ASSUME CellsFit, FilingInv, [Next]_vars
    PROVE  FilingInv'
<1>1. FileInv /\ WriterInv /\ Quiet /\ stored \in Seq(Chunk) /\ StreamsOK
    BY DEF FilingInv, WriterInv
<1>2. WriterInv' /\ FileInv'
    BY <1>1, NextKeeps, FileKeptSteps
<1>3. Quiet' /\ stored' \in Seq(Chunk')
    BY <1>1, QuietStays, StoredStays
<1>4. files' \in Archived' /\ FilesOK'
    BY <1>2, FilesStay
<1>5. phase' = "open" => Pending'
    BY <1>2, FilingSteps
<1> QED
    BY <1>2, <1>3, <1>4, <1>5 DEF FilingInv, Archived

LEMMA FilingInit ==
    ASSUME Init
    PROVE  FilingInv
<1>1. FileInv /\ WriterInv
    BY InitHolds
<1>2. Quiet
    <2> SUFFICES ASSUME NEW s \in Streams, setup[s].encoder = FALSE
                 PROVE  running[s] = FALSE /\ encoding[s] = 0
        BY DEF Quiet
    <2>1. running[s] = setup[s].encoder
        BY DEF Init, Streams
    <2>2. encoding[s] = 0
        BY DEF Init, Streams, Zeros
    <2> QED
        BY <2>1, <2>2, Zenon
<1>3. stored \in Seq(Chunk) /\ files \in Seq([disk : Seq(Cell), chunks : Seq(Chunk)])
    BY DEF Init
<1>4. FilesOK
    <2>1. Len(files) = 0
        BY DEF Init
    <2> QED
        BY <2>1 DEF FilesOK
<1>5. Pending
    <2>1. PICK e, t : e = <<>> /\ t = 0
        OBVIOUS
    <2>2. e \in Seq(Statement) /\ e \in Seq(Cell) /\ Len(e) = 0 /\ t \in 0 .. Len(e)
          /\ e \o e = e
        BY <2>1
    <2>3. todo = e /\ file = "open" /\ status = 0 /\ stored = e /\ index = e
        BY <2>1 DEF Init
    <2>4. Whole = e /\ Tell = t
        <3>1. Whole = File!Overlay(<<>>, 0, <<>>) /\ Tell = 0 + Len(<<>>)
            BY DEF Init, Opened, Whole, Tell
        <3>2. Len(<<>>) = 0
            OBVIOUS
        <3> QED
            BY <2>1, <3>1, <3>2, EmptyFile
    <2>5. Yields(e, <<e, t>>, <<e, t>>)
        BY <2>1, YieldsNone
    <2>6. AtRest(e, t)
        BY <2>1, <2>3 DEF AtRest
    <2>7. Calls(e) /\ InOrder(e)
        BY <2>2 DEF Calls, InOrder
    <2>8. Stage(e, t, e)
        BY <2>3, <2>6, <2>7 DEF Stage, Resting
    <2>9. PICK l, r, w : l = e /\ r = e /\ w = e
        OBVIOUS
    <2>10. /\ l \in Seq(Statement) /\ r \in Seq(Statement) /\ w \in Seq(Cell) /\ t \in 0 .. Len(w)
           /\ todo = l \o r /\ (\A i \in 1 .. Len(l) : l[i].do \in FileNames)
           /\ Yields(l, <<Whole, Tell>>, <<w, t>>) /\ Stage(w, t, r)
        <3>1. \A i \in 1 .. Len(l) : FALSE
            BY <2>2, <2>9
        <3>2. Yields(l, <<Whole, Tell>>, <<w, t>>) /\ Stage(w, t, r)
            BY <2>4, <2>5, <2>8, <2>9
        <3> QED
            BY <2>2, <2>3, <2>9, <3>1, <3>2
    <2> QED
        BY <2>10 DEF Pending
<1> QED
    BY <1>1, <1>2, <1>3, <1>4, <1>5 DEF FilingInv

\* What a call leaves in the file fits the stage it is at, and every file that
\* is finished holds its headers, its chunks one behind the other, with the bytes
\* they were given, and an index that names each of them (AviWrite.cpp).
THEOREM WriterFiles ==
    ASSUME CellsFit
    PROVE  Spec => []FilingInv
<1>1. Init => FilingInv
    BY FilingInit
<1>2. FilingInv /\ [Next]_vars => FilingInv'
    BY FilingNext
<1> QED
    BY <1>1, <1>2, PTL DEF Spec
=============================================================================

--------------------------- MODULE AviFileProofs ---------------------------
(***************************************************************************)
(* What the writer leaves the reader, for any files, streams and chunks:   *)
(* the reader's tables of a finished file are those of its chunks, the     *)
(* position of a stream that is read is that of the first chunk it has not *)
(* given, and of a file that was not finished the reader finds the chunks  *)
(* that reached the disk.                                                  *)
(***************************************************************************)
EXTENDS AviProofs, FiniteSetTheorems

-----------------------------------------------------------------------------
(* What the reader finds in a finished file *)

\* The loops of the reader end where their turns lead.
LEMMA ChunksLoop ==
    ASSUME NEW d, NEW T \in Nat, T = Turns(d), NEW H,
           H[0] = [pos |-> 2, listed |-> FALSE, movie |-> 0, indexed |-> FALSE,
                   ok |-> TRUE, tables |-> <<>>],
           \A k \in 1 .. T : H[k] = TakePart(d, setup, H[k - 1])
    PROVE  readChunks(d, setup) = H[T]
<1> DEFINE v == [pos |-> 2, listed |-> FALSE, movie |-> 0, indexed |-> FALSE,
                 ok |-> TRUE, tables |-> <<>>]
           L(f) == f = [n \in 0 .. T |-> IF n = 0 THEN v
                                         ELSE TakePart(d, setup, f[n - 1])]
           f == CHOOSE f : L(f)
           h == [k \in 0 .. T |-> H[k]]
<1>0. H[0] = v
    OBVIOUS
<1> HIDE DEF v
<1>1. L(h)
    <2>1. ASSUME NEW k \in 0 .. T
          PROVE  H[k] = IF k = 0 THEN v ELSE TakePart(d, setup, h[k - 1])
        <3>1. CASE k = 0
            BY <1>0, <3>1
        <3>2. CASE k # 0
            <4>1. k - 1 \in 0 .. T /\ k \in 1 .. T
                BY <3>2
            <4>2. h[k - 1] = H[k - 1]
                BY <4>1
            <4> QED
                BY <3>2, <4>1, <4>2
        <3> QED
            BY <3>1, <3>2
    <2> QED
        BY <2>1
<1>2. L(f)
    <2> HIDE DEF L, h
    <2> QED
        BY <1>1, Zenon
<1>3. readChunks(d, setup) = f[T]
    BY Zenon DEF readChunks, v
<1> HIDE DEF f
<1>4. f[0] = H[0] /\ \A k \in 1 .. T : f[k - 1] = H[k - 1] => f[k] = H[k]
    <2>1. 0 \in 0 .. T /\ \A k \in 1 .. T : k \in 0 .. T /\ k # 0
        OBVIOUS
    <2>2. \A k \in 0 .. T : f[k] = IF k = 0 THEN v ELSE TakePart(d, setup, f[k - 1])
        BY <1>2
    <2>3. f[0] = H[0]
        BY <1>0, <2>1, <2>2
    <2> HIDE DEF L
    <2> QED
        BY <2>1, <2>2, <2>3
<1>5. \A k \in 0 .. T : f[k] = H[k]
    <2> HIDE DEF L
    <2>1. \A F, G : F[0] = G[0] /\ (\A k \in 1 .. T : F[k - 1] = G[k - 1] => F[k] = G[k])
                    => \A k \in 0 .. T : F[k] = G[k]
        BY ONLY T \in Nat, SameTurns, Zenon
    <2> QED
        BY ONLY <1>4, <2>1, Zenon
<1>6. f[T] = H[T]
    <2>1. T \in 0 .. T
        OBVIOUS
    <2> QED
        BY <1>5, <2>1
<1> QED
    BY <1>3, <1>6

LEMMA EntriesLoop ==
    ASSUME NEW d, NEW T \in Nat, T = Turns(d), NEW tables, NEW movie, NEW p, NEW left, NEW H,
           H[0] = [tables |-> tables, ok |-> TRUE, zeroBased |-> FALSE, pos |-> p,
                   left |-> left],
           \A k \in 1 .. T : H[k] = TakeEntry(d, setup, movie, H[k - 1])
    PROVE  readIndexChunk(d, setup, tables, movie, p, left) = H[T]
<1> DEFINE v == [tables |-> tables, ok |-> TRUE, zeroBased |-> FALSE, pos |-> p,
                 left |-> left]
           L(f) == f = [n \in 0 .. T |-> IF n = 0 THEN v
                                         ELSE TakeEntry(d, setup, movie, f[n - 1])]
           f == CHOOSE f : L(f)
           h == [k \in 0 .. T |-> H[k]]
<1>0. H[0] = v
    OBVIOUS
<1> HIDE DEF v
<1>1. L(h)
    <2>1. ASSUME NEW k \in 0 .. T
          PROVE  H[k] = IF k = 0 THEN v ELSE TakeEntry(d, setup, movie, h[k - 1])
        <3>1. CASE k = 0
            BY <1>0, <3>1
        <3>2. CASE k # 0
            <4>1. k - 1 \in 0 .. T /\ k \in 1 .. T
                BY <3>2
            <4>2. h[k - 1] = H[k - 1]
                BY <4>1
            <4> QED
                BY <3>2, <4>1, <4>2
        <3> QED
            BY <3>1, <3>2
    <2> QED
        BY <2>1
<1>2. L(f)
    <2> HIDE DEF L, h
    <2> QED
        BY <1>1, Zenon
<1>3. readIndexChunk(d, setup, tables, movie, p, left) = f[T]
    BY Zenon DEF readIndexChunk, v
<1> HIDE DEF f
<1>4. f[0] = H[0] /\ \A k \in 1 .. T : f[k - 1] = H[k - 1] => f[k] = H[k]
    <2>1. 0 \in 0 .. T /\ \A k \in 1 .. T : k \in 0 .. T /\ k # 0
        OBVIOUS
    <2>2. \A k \in 0 .. T : f[k] = IF k = 0 THEN v
                                   ELSE TakeEntry(d, setup, movie, f[k - 1])
        BY <1>2
    <2>3. f[0] = H[0]
        BY <1>0, <2>1, <2>2
    <2> HIDE DEF L
    <2> QED
        BY <2>1, <2>2, <2>3
<1>5. \A k \in 0 .. T : f[k] = H[k]
    <2> HIDE DEF L
    <2>1. \A F, G : F[0] = G[0] /\ (\A k \in 1 .. T : F[k - 1] = G[k - 1] => F[k] = G[k])
                    => \A k \in 0 .. T : F[k] = G[k]
        BY ONLY T \in Nat, SameTurns, Zenon
    <2> QED
        BY ONLY <1>4, <2>1, Zenon
<1>6. f[T] = H[T]
    <2>1. T \in 0 .. T
        OBVIOUS
    <2> QED
        BY <1>5, <2>1
<1> QED
    BY <1>3, <1>6

\* A sequence is its beginning and its last element.
LEMMA LastApart ==
    ASSUME NEW S, NEW n \in Nat, NEW g \in [1 .. n + 1 -> S]
    PROVE  /\ g = Append([i \in 1 .. n |-> g[i]], g[n + 1])
           /\ g \in Seq(S) /\ Len(g) = n + 1
<1> DEFINE a == [i \in 1 .. n |-> g[i]]
           b == Append(a, g[n + 1])
<1>1. a \in Seq(S) /\ Len(a) = n
    <2>1. \A i \in 1 .. n : i \in 1 .. n + 1
        OBVIOUS
    <2>2. a \in [1 .. n -> S]
        BY <2>1
    <2> HIDE DEF a
    <2> QED
        BY <2>2
<1>2. g \in Seq(S) /\ Len(g) = n + 1 /\ g[n + 1] \in S
    OBVIOUS
<1>3. \A i \in 1 .. n : a[i] = g[i]
    OBVIOUS
<1> HIDE DEF a
<1>4. /\ b \in Seq(S) /\ Len(b) = n + 1 /\ b[n + 1] = g[n + 1]
      /\ \A i \in 1 .. n : b[i] = a[i]
    BY <1>1, <1>2
<1> HIDE DEF b
<1>5. \A i \in 1 .. Len(g) : g[i] = b[i]
    <2>1. \A i \in 1 .. n + 1 : i = n + 1 \/ i \in 1 .. n
        OBVIOUS
    <2> QED
        BY <1>2, <1>3, <1>4, <2>1
<1>6. g = b
    BY <1>2, <1>4, <1>5, SameFiles
<1> QED
    BY <1>2, <1>6 DEF b, a

Shown(chunks, k) == BeginOf(chunks, k) + IF chunks[k].key THEN 1 ELSE 0

\* The table of a stream after the first i entries of the index
PartOf(chunks, s, i, x) ==
    [length |-> x,
     offsets |-> [m \in 1 .. Len(OfStream(chunks, s, i)) |->
                    Shown(chunks, OfStream(chunks, s, i)[m])],
     positions |-> IF setup[s].sample > 0
                   THEN [m \in 1 .. Len(OfStream(chunks, s, i)) |->
                           BytesBefore(chunks, s, m - 1)]
                   ELSE <<>>,
     size |-> BytesBefore(chunks, s, Len(OfStream(chunks, s, i)))]

LEMMA PartBegins ==
    ASSUME NEW chunks, ChunksOK(chunks), NEW s, NEW x
    PROVE  PartOf(chunks, s, 0, x) = EmptyTable(x)
<1>1. Len(chunks) \in Nat /\ \A k \in 1 .. Len(chunks) : chunks[k].size \in Nat
    BY PlaceFacts
<1>2. OfStream(chunks, s, 0) = <<>>
    BY <1>1, OwnSteps
<1>3. BytesBefore(chunks, s, 0) = 0
    BY <1>1, BytesSteps
<1>4. Len(<<>>) = 0
    OBVIOUS
<1> DEFINE a == [m \in 1 .. 0 |-> Shown(chunks, OfStream(chunks, s, 0)[m])]
           b == [m \in 1 .. 0 |-> BytesBefore(chunks, s, m - 1)]
<1>5. a = <<>> /\ b = <<>>
    OBVIOUS
<1>6. PartOf(chunks, s, 0, x) = [length |-> x, offsets |-> a,
                                 positions |-> IF setup[s].sample > 0 THEN b ELSE <<>>,
                                 size |-> 0]
    BY <1>2, <1>3, <1>4 DEF PartOf
<1> HIDE DEF a, b
<1> QED
    BY <1>5, <1>6 DEF EmptyTable

LEMMA PartStays ==
    ASSUME NEW chunks, ChunksOK(chunks), NEW k \in 1 .. Len(chunks), NEW s, NEW x,
           chunks[k].stream # s
    PROVE  PartOf(chunks, s, k, x) = PartOf(chunks, s, k - 1, x)
<1>1. Len(chunks) \in Nat
    BY PlaceFacts
<1>2. OfStream(chunks, s, k) = OfStream(chunks, s, k - 1)
    BY <1>1, OwnSteps
<1> QED
    BY <1>2 DEF PartOf

LEMMA PartGrows ==
    ASSUME NEW chunks, ChunksOK(chunks), NEW k \in 1 .. Len(chunks), NEW s, NEW x,
           chunks[k].stream = s
    PROVE  PartOf(chunks, s, k, x) =
               AddChunkTo(PartOf(chunks, s, k - 1, x), setup[s].sample,
                          BeginOf(chunks, k), chunks[k].size, chunks[k].key)
<1>0. PICK N : N = Len(chunks)
    OBVIOUS
<1>00. /\ Len(OfStream(chunks, s, k)) <= Len(OfStream(chunks, s, N))
       /\ \A i \in 1 .. Len(OfStream(chunks, s, k)) :
             OfStream(chunks, s, N)[i] = OfStream(chunks, s, k)[i]
    <2>1. N \in Nat /\ k \in 0 .. N
        BY <1>0, PlaceFacts
    <2>2. PICK j \in 0 .. N : j = k
        BY <2>1
    <2>3. LET part == OfStream(chunks, s, j)
              wide == OfStream(chunks, s, N)
          IN  Len(part) <= Len(wide) /\ \A i \in 1 .. Len(part) : wide[i] = part[i]
        BY <2>1, OwnPrefix
    <2> QED
        BY <2>2, <2>3
<1> DEFINE own == OfStream(chunks, s, k)
           old == OfStream(chunks, s, k - 1)
           all == OfStream(chunks, s, N)
           m == Len(old)
           b == BeginOf(chunks, k)
           y == IF chunks[k].key THEN b + 1 - (b % 2) ELSE b
<1>1. N \in Nat /\ \A i \in 1 .. N : chunks[i] \in Chunk /\ chunks[i].size \in Nat
    BY <1>0, PlaceFacts
<1>2. k \in 1 .. N /\ k - 1 \in 0 .. N /\ k \in 0 .. N /\ N \in 0 .. N
    BY <1>0, <1>1
<1>3. /\ old \in Seq(1 .. N) /\ own \in Seq(1 .. N) /\ all \in Seq(1 .. N)
      /\ own = Append(old, k)
    BY <1>1, <1>2, OwnSteps
<1>4. Len(own) <= Len(all) /\ \A i \in 1 .. Len(own) : all[i] = own[i]
    BY <1>2, <1>00 DEF own, all
<1>5. /\ \A i \in 0 .. Len(all) : BytesBefore(chunks, s, i) \in Nat
      /\ \A i \in 1 .. Len(all) :
            BytesBefore(chunks, s, i) = BytesBefore(chunks, s, i - 1) + chunks[all[i]].size
    BY <1>0, <1>1, BytesSteps
<1> HIDE DEF own, old, all
<1>6. /\ m \in Nat /\ Len(own) = m + 1 /\ own[m + 1] = k
      /\ \A i \in 1 .. m : own[i] = old[i]
      /\ \A i \in 1 .. m + 1 : own[i] \in 1 .. N
    BY <1>2, <1>3
<1>7. BytesBefore(chunks, s, m + 1) = BytesBefore(chunks, s, m) + chunks[k].size
    <2>1. m + 1 \in 1 .. Len(own) /\ m + 1 \in 1 .. Len(all) /\ (m + 1) - 1 = m
        BY <1>3, <1>4, <1>6
    <2>2. all[m + 1] = k
        BY <1>4, <1>6, <2>1
    <2> QED
        BY <1>5, <2>1, <2>2
<1>8. \A i \in 1 .. N : BeginOf(chunks, i) \in Nat /\ BeginOf(chunks, i) % 2 = 0
    <2>1. \A i \in 1 .. N : i - 1 \in 0 .. N
        BY <1>1
    <2>2. \A i \in 0 .. N : EndOf(chunks, i) \in Nat
        BY <1>1, EndSteps
    <2>3. \A i \in 0 .. N : EndOf(chunks, i) % 2 = 0
        BY <1>1, EndEven
    <2> QED
        BY <2>1, <2>2, <2>3 DEF BeginOf
<1>9. \A i \in 1 .. N : Shown(chunks, i) \in Nat
    BY <1>8 DEF Shown
<1>10. Shown(chunks, k) = y
    BY <1>2, <1>8 DEF Shown
<1> HIDE DEF y, b, m
<1> DEFINE g == [i \in 1 .. m + 1 |-> Shown(chunks, own[i])]
           p == [i \in 1 .. m + 1 |-> BytesBefore(chunks, s, i - 1)]
           g0 == [i \in 1 .. m |-> Shown(chunks, old[i])]
           p0 == [i \in 1 .. m |-> BytesBefore(chunks, s, i - 1)]
<1>11. g = Append(g0, y)
    <2>1. g \in [1 .. m + 1 -> Nat]
        BY <1>6, <1>9
    <2>2. m + 1 \in 1 .. m + 1 /\ \A i \in 1 .. m : i \in 1 .. m + 1
        BY <1>6
    <2>3. g[m + 1] = y /\ \A i \in 1 .. m : g[i] = Shown(chunks, old[i])
        BY <1>6, <1>10, <2>2
    <2>4. g0 = [i \in 1 .. m |-> g[i]]
        BY <2>3
    <2> HIDE DEF g, g0
    <2>5. g = Append([i \in 1 .. m |-> g[i]], g[m + 1])
        BY <1>6, <2>1, LastApart
    <2> QED
        BY <2>3, <2>4, <2>5
<1>12. p = Append(p0, BytesBefore(chunks, s, m))
    <2>1. \A i \in 1 .. m + 1 : i - 1 \in 0 .. Len(all)
        BY <1>3, <1>4, <1>6
    <2>2. p \in [1 .. m + 1 -> Nat]
        BY <1>5, <2>1
    <2>3. m + 1 \in 1 .. m + 1 /\ (m + 1) - 1 = m /\ \A i \in 1 .. m : i \in 1 .. m + 1
        BY <1>6
    <2>4. p[m + 1] = BytesBefore(chunks, s, m)
          /\ \A i \in 1 .. m : p[i] = BytesBefore(chunks, s, i - 1)
        BY <2>3
    <2>5. p0 = [i \in 1 .. m |-> p[i]]
        BY <2>4
    <2> HIDE DEF p, p0
    <2>6. p = Append([i \in 1 .. m |-> p[i]], p[m + 1])
        BY <1>6, <2>2, LastApart
    <2> QED
        BY <2>4, <2>5, <2>6
<1>13. PartOf(chunks, s, k, x) =
           [length |-> x, offsets |-> g,
            positions |-> IF setup[s].sample > 0 THEN p ELSE <<>>,
            size |-> BytesBefore(chunks, s, m + 1)]
    BY <1>6 DEF PartOf, own
<1>14. PartOf(chunks, s, k - 1, x) =
           [length |-> x, offsets |-> g0,
            positions |-> IF setup[s].sample > 0 THEN p0 ELSE <<>>,
            size |-> BytesBefore(chunks, s, m)]
    BY DEF PartOf, old, m
<1> HIDE DEF g, p, g0, p0
<1>15. ASSUME NEW G, NEW P, NEW z, NEW Z, NEW l, NEW c, NEW key, NEW w
       PROVE  AddChunkTo([length |-> l, offsets |-> G, positions |-> P, size |-> z],
                         w, c, Z, key)
                = [length |-> l, offsets |-> Append(G, IF key THEN c + 1 - (c % 2) ELSE c),
                   positions |-> IF w > 0 THEN Append(P, z) ELSE P, size |-> z + Z]
    <2> DEFINE t == [length |-> l, offsets |-> G, positions |-> P, size |-> z]
               o == Append(G, IF key THEN c + 1 - (c % 2) ELSE c)
               q == IF w > 0 THEN Append(P, z) ELSE P
    <2>1. t.size = z /\ t.offsets = G /\ t.positions = P
        OBVIOUS
    <2>2. AddChunkTo(t, w, c, Z, key)
            = [t EXCEPT !.offsets = o, !.positions = q, !.size = z + Z]
        BY <2>1, Zenon DEF AddChunkTo
    <2> HIDE DEF o, q
    <2>3. [t EXCEPT !.offsets = o, !.positions = q, !.size = z + Z]
            = [length |-> l, offsets |-> o, positions |-> q, size |-> z + Z]
        <3>1. PICK y2 : y2 = z + Z
            OBVIOUS
        <3> DEFINE r == [t EXCEPT !.offsets = o, !.positions = q, !.size = y2]
        <3>2. t \in [length : {l}, offsets : {G, o}, positions : {P, q}, size : {z, y2}]
            OBVIOUS
        <3> HIDE DEF t
        <3>3. /\ r \in [length : {l}, offsets : {G, o}, positions : {P, q}, size : {z, y2}]
              /\ r.offsets = o /\ r.positions = q /\ r.size = y2
            BY <3>2
        <3> HIDE DEF r
        <3>4. r = [length |-> l, offsets |-> o, positions |-> q, size |-> y2]
            BY <3>3
        <3> QED
            BY <3>1, <3>4, Zenon DEF r
    <2> QED
        BY <2>2, <2>3 DEF o, q
<1>16. AddChunkTo(PartOf(chunks, s, k - 1, x), setup[s].sample, b, chunks[k].size,
                  chunks[k].key)
         = [length |-> x, offsets |-> Append(g0, y),
            positions |-> IF setup[s].sample > 0
                          THEN Append(IF setup[s].sample > 0 THEN p0 ELSE <<>>,
                                      BytesBefore(chunks, s, m))
                          ELSE IF setup[s].sample > 0 THEN p0 ELSE <<>>,
            size |-> BytesBefore(chunks, s, m) + chunks[k].size]
    BY <1>14, <1>15 DEF y
<1>17. CASE setup[s].sample > 0
    BY <1>7, <1>11, <1>12, <1>13, <1>16, <1>17 DEF b
<1>18. CASE ~(setup[s].sample > 0)
    BY <1>7, <1>11, <1>13, <1>16, <1>18 DEF b
<1> QED
    BY <1>17, <1>18

-----------------------------------------------------------------------------
(* The index of a finished file as the reader takes it *)
State(tables, zero, p, left) ==
    [tables |-> tables, ok |-> TRUE, zeroBased |-> zero, pos |-> p, left |-> left]

\* An entry at p that names a chunk of stream s, of z bytes, that begins at b
NamesChunk(d, movie, p, tables, T, S, V, zero, s, o, b, z, c) ==
    /\ movie \in Int /\ p \in Nat /\ p <= Len(d) /\ zero \in BOOLEAN
    /\ tables \in [S -> V] /\ T \in [S -> V] /\ s \in S
    /\ o \in Int /\ b = o + movie - 1 /\ z \in Nat /\ z <= MaxPacketSize
    /\ At(d, p) = ChunkId(s) /\ Num(At(d, p + 1)) = c
    /\ Num(At(d, p + 2)) = o /\ Num(At(d, p + 3)) = z
    /\ zero \/ o < movie
    /\ T[s] = AddChunkTo(tables[s], setup[s].sample, b, z, c = 1)
    /\ \A t \in S : t # s => T[t] = tables[t]

Takes(d, movie, p, tables, T, zero) ==
    \A left \in Nat : TakeEntry(d, setup, movie, State(tables, zero, p, left))
                        = State(T, TRUE, p + 4, left - 1)

LEMMA GoodEntry ==
    \A d, movie, p, tables, T, S, V, zero, s, o, b, z, c :
        NamesChunk(d, movie, p, tables, T, S, V, zero, s, o, b, z, c) =>
            Takes(d, movie, p, tables, T, zero)
<1> SUFFICES ASSUME NEW d, NEW movie, NEW p, NEW tables, NEW T, NEW S, NEW V, NEW zero, NEW s,
                    NEW o, NEW b, NEW z, NEW c,
                    NamesChunk(d, movie, p, tables, T, S, V, zero, s, o, b, z, c),
                    NEW left \in Nat
             PROVE  TakeEntry(d, setup, movie, State(tables, zero, p, left))
                      = State(T, TRUE, p + 4, left - 1)
    BY DEF Takes
<1> USE DEF NamesChunk
<1> DEFINE at == State(tables, zero, p, left)
           key == Num(At(d, p + 1)) = 1
           y == AddChunkTo(tables[s], setup[s].sample, o + movie - 1, z, key)
           next == [at EXCEPT !.pos = @ + 4, !.left = @ - 1]
           r == [next EXCEPT !.zeroBased = TRUE, !.tables[s] = y]
<1>1. /\ at.tables = tables /\ at.ok = TRUE /\ at.zeroBased = zero /\ at.pos = p
      /\ at.left = left
    BY DEF State
<1>0. T = [tables EXCEPT ![s] = y] /\ s \in DOMAIN tables
    <2>1. T[s] = y
        OBVIOUS
    <2> HIDE DEF y
    <2> QED
        BY <2>1
<1> PICK ok, yes, q, m : ok = TRUE /\ yes = TRUE /\ q = p + 4 /\ m = left - 1
    OBVIOUS
<1> DEFINE R == [tables : {tables, T}, ok : {ok}, zeroBased : {zero, yes}, pos : {p, q},
                 left : {left, m}]
<1>2. at \in R
    <2>1. [tables |-> tables, ok |-> ok, zeroBased |-> zero, pos |-> p, left |-> left] \in R
        OBVIOUS
    <2> QED
        BY <2>1, Zenon DEF State
<1>3. r = State(T, TRUE, p + 4, left - 1)
    <2> HIDE DEF at
    <2>1. next \in R /\ next.pos = q /\ next.left = m /\ next.tables = tables
        BY <1>1, <1>2
    <2> HIDE DEF next, y
    <2> DEFINE r2 == [next EXCEPT !.zeroBased = yes, !.tables = T]
    <2>2. r = r2
        BY <1>0, <2>1
    <2>3. r2 \in R /\ r2.zeroBased = yes /\ r2.tables = T /\ r2.pos = q /\ r2.left = m
        BY <2>1
    <2> HIDE DEF r2
    <2>4. r2 = [tables |-> T, ok |-> ok, zeroBased |-> yes, pos |-> q, left |-> m]
        BY <2>3
    <2>5. r2 = State(T, yes, q, m)
        BY <2>4, Zenon DEF State
    <2> QED
        BY <2>2, <2>5
<1>4. ~(at.left < 0 \/ at.pos > Len(d))
    BY <1>1
<1>5. IsStream(ChunkId(s), tables) /\ StreamOf(ChunkId(s)) = s
    BY DEF IsStream, StreamOf, ChunkId
<1>6. TakeEntry(d, setup, movie, at) = r
    <2> HIDE DEF at, next, key
    <2>1. TakeEntry(d, setup, movie, at)
            = [[at EXCEPT !.pos = @ + 4, !.left = @ - 1]
                 EXCEPT !.zeroBased = (at.zeroBased \/ o < movie),
                        !.tables[s] = AddChunkTo(@, setup[s].sample,
                            IF at.zeroBased \/ o < movie THEN o + movie - 1 ELSE o, z,
                            key)]
        BY <1>1, <1>4, <1>5 DEF TakeEntry, key
    <2> QED
        BY <1>1, <2>1 DEF next
<1> QED
    BY <1>3, <1>6

\* The tables after the first i entries of the index
PartsAt(chunks, i, x) == [s \in Streams |-> PartOf(chunks, s, i, x[s])]

LEMMA RoomForHeaders ==
    ASSUME StreamsOK
    PROVE  /\ Len(setup) \in Nat /\ Len(setup) >= 1 /\ Streams = 1 .. Len(setup)
           /\ HeaderSize \in Nat /\ 8 + 4 * Len(setup) <= HeaderSize
<1>1. setup \in Setups /\ setup \in Seq(Setup)
    BY DEF StreamsOK
<1> QED
    BY <1>1, SetupAssumption, HeaderAssumption DEF Streams

LEMMA EntryReads ==
    ASSUME StreamsOK, NEW d \in Seq(Cell), NEW chunks, Finished(d, chunks),
           NEW k \in 1 .. Len(chunks),
           NEW p, p = EndOf(chunks, Len(chunks)) + 2 + 4 * (k - 1)
    PROVE  /\ p \in Nat /\ p <= Len(d) /\ p + 4 <= Len(d)
           /\ At(d, p) = ChunkId(chunks[k].stream)
           /\ Num(At(d, p + 1)) = IF chunks[k].key THEN 1 ELSE 0
           /\ Num(At(d, p + 2)) = BeginOf(chunks, k) - (HeaderSize - 1)
           /\ Num(At(d, p + 3)) = chunks[k].size
<1> DEFINE c == EntryCells(EntryOf(chunks, k))
<1> PICK n, e : n = Len(chunks) /\ e = EndOf(chunks, n)
    OBVIOUS
<1>1. /\ n \in Nat /\ n > 0 /\ ChunksOK(chunks) /\ Len(d) = e + 2 + 4 * n
      /\ \A j \in 1 .. 4 : d[e + 4 * k - 2 + j] = c[j]
    <2>1. n > 0 /\ ChunksOK(chunks) /\ Len(d) = e + 2 + 4 * n
        BY DEF Finished
    <2>2. \A i \in 1 .. n : \A j \in 1 .. 4 :
               d[e + 4 * i - 2 + j] = EntryCells(EntryOf(chunks, i))[j]
        BY DEF Finished
    <2>3. n \in Nat
        BY <2>1, PlaceFacts
    <2> QED
        BY <2>1, <2>2, <2>3
<1>2. e \in Nat
    <2>1. n \in 0 .. n
        BY <1>1
    <2> QED
        BY <1>1, <2>1, PlaceFacts
<1>3. p = e + 4 * k - 2 /\ p \in Nat /\ p + 4 <= Len(d)
    <2>1. p = e + 2 + 4 * (k - 1) /\ k \in 1 .. n
        OBVIOUS
    <2>2. Len(d) = e + 2 + 4 * n /\ n \in Nat
        BY <1>1
    <2> QED
        BY ONLY <1>2, <2>1, <2>2
<1>4. \A j \in 0 .. 3 : At(d, p + j) = c[j + 1]
    <2>1. \A j \in 0 .. 3 : At(d, p + j) = d[p + j + 1]
        BY <1>3 DEF At
    <2>2. \A j \in 0 .. 3 : d[p + j + 1] = c[j + 1]
        <3>1. \A j \in 0 .. 3 : p + j + 1 = e + 4 * k - 2 + (j + 1) /\ j + 1 \in 1 .. 4
            BY <1>2, <1>3
        <3> HIDE DEF c
        <3> QED
            BY <1>1, <3>1
    <2> QED
        BY <2>1, <2>2
<1>5. /\ c[1] = ChunkId(chunks[k].stream)
      /\ c[2] = Number(IF chunks[k].key THEN 1 ELSE 0)
      /\ c[3] = Number(BeginOf(chunks, k) - (HeaderSize - 1))
      /\ c[4] = Number(chunks[k].size)
    BY Zenon DEF EntryCells, EntryOf
<1>6. \A z : Num(Number(z)) = z
    BY DEF Num, Number
<1>7. /\ At(d, p + 0) = c[1] /\ At(d, p + 1) = c[2] /\ At(d, p + 2) = c[3]
      /\ At(d, p + 3) = c[4]
    <2> HIDE DEF c
    <2> QED
        BY <1>4
<1>8. p + 0 = p
    BY <1>3
<1> HIDE DEF c
<1> QED
    BY <1>1, <1>3, <1>5, <1>6, <1>7, <1>8

\* The turn that takes entry k
TakesEntry(d, chunks, x, k, zero, p) ==
    Takes(d, HeaderSize, p, PartsAt(chunks, k - 1, x), PartsAt(chunks, k, x), zero)

LEMMA EntryTaken ==
    ASSUME StreamsOK, NEW d \in Seq(Cell), NEW chunks, Finished(d, chunks), NEW x,
           NEW k \in 1 .. Len(chunks),
           NEW p, p = EndOf(chunks, Len(chunks)) + 2 + 4 * (k - 1),
           NEW zero \in BOOLEAN, k > 1 => zero
    PROVE  TakesEntry(d, chunks, x, k, zero, p)
<1> DEFINE s == chunks[k].stream
           T0 == PartsAt(chunks, k - 1, x)
           T1 == PartsAt(chunks, k, x)
<1> PICK b, z, o, key : /\ b = BeginOf(chunks, k) /\ z = chunks[k].size
                        /\ o = b - (HeaderSize - 1) /\ key = chunks[k].key
    OBVIOUS
<1>1. /\ p \in Nat /\ p <= Len(d) /\ At(d, p) = ChunkId(s)
      /\ Num(At(d, p + 1)) = (IF chunks[k].key THEN 1 ELSE 0)
      /\ Num(At(d, p + 2)) = o /\ Num(At(d, p + 3)) = z
    BY EntryReads
<1>2. ChunksOK(chunks)
    BY DEF Finished
<1>3. Len(chunks) \in Nat /\ chunks[k] \in Chunk /\ ChunkOK(chunks[k])
    BY <1>2, PlaceFacts DEF ChunksOK
<1>4. s \in Streams /\ z \in Nat /\ z <= MaxPacketSize
    BY <1>3 DEF ChunkOK, Chunk
<1>5. (Num(At(d, p + 1)) = 1) = chunks[k].key
    <2>1. chunks[k].key \in BOOLEAN
        BY <1>3 DEF Chunk
    <2> QED
        BY <1>1, <2>1
<1>6. b \in Nat /\ (k = 1 => b = HeaderSize)
    <2>1. \A i \in 0 .. Len(chunks) : EndOf(chunks, i) \in Nat
        BY <1>2, PlaceFacts
    <2>2. k - 1 \in 0 .. Len(chunks)
        BY <1>3
    <2>3. EndOf(chunks, 0) = HeaderSize
        <3>1. \A i \in 1 .. Len(chunks) : chunks[i].size \in Nat
            BY <1>2, PlaceFacts
        <3> QED
            BY <1>3, <3>1, EndSteps
    <2>4. k = 1 => k - 1 = 0
        OBVIOUS
    <2> QED
        BY <2>1, <2>2, <2>3, <2>4 DEF BeginOf
<1>7. HeaderSize \in Nat /\ HeaderSize >= 12
    BY RoomForHeaders
<1>8. o \in Int /\ o + HeaderSize - 1 = b /\ (zero \/ o < HeaderSize)
    BY <1>6, <1>7
<1> DEFINE V == {T0[t] : t \in Streams} \cup {T1[t] : t \in Streams}
<1>9. T0 \in [Streams -> V] /\ T1 \in [Streams -> V]
    <2>1. /\ T0 = [t \in Streams |-> PartOf(chunks, t, k - 1, x[t])]
          /\ T1 = [t \in Streams |-> PartOf(chunks, t, k, x[t])]
        BY Zenon DEF PartsAt
    <2> HIDE DEF T0, T1
    <2> QED
        BY <2>1
<1>10. T1[s] = AddChunkTo(T0[s], setup[s].sample, b, z, (IF chunks[k].key THEN 1 ELSE 0) = 1)
    <2>1. T0[s] = PartOf(chunks, s, k - 1, x[s]) /\ T1[s] = PartOf(chunks, s, k, x[s])
        BY <1>4 DEF PartsAt
    <2>2. PartOf(chunks, s, k, x[s])
            = AddChunkTo(PartOf(chunks, s, k - 1, x[s]), setup[s].sample, b, z, chunks[k].key)
        BY <1>2, PartGrows
    <2>3. ((IF chunks[k].key THEN 1 ELSE 0) = 1) = chunks[k].key
        BY <1>1, <1>5
    <2> HIDE DEF T0, T1
    <2> QED
        BY <2>1, <2>2, <2>3, Zenon
<1>11. \A t \in Streams : t # s => T1[t] = T0[t]
    <2>1. \A t \in Streams : t # s =>
              PartOf(chunks, t, k, x[t]) = PartOf(chunks, t, k - 1, x[t])
        BY <1>2, PartStays
    <2> QED
        BY <2>1 DEF PartsAt
<1>12. b = o + HeaderSize - 1
    BY <1>8
<1> HIDE DEF T0, T1, s, V
<1> PICK c : c = IF chunks[k].key THEN 1 ELSE 0
    OBVIOUS
<1>13. Num(At(d, p + 1)) = c /\ T1[s] = AddChunkTo(T0[s], setup[s].sample, b, z, c = 1)
    BY <1>1, <1>10, Zenon
<1>14. Takes(d, HeaderSize, p, T0, T1, zero)
    <2>1. NamesChunk(d, HeaderSize, p, T0, T1, Streams, V, zero, s, o, b, z, c)
        <3>1. HeaderSize \in Int /\ p \in Nat /\ p <= Len(d) /\ zero \in BOOLEAN
            BY <1>1, <1>7
        <3>2. T0 \in [Streams -> V] /\ T1 \in [Streams -> V] /\ s \in Streams
            BY <1>4, <1>9
        <3>3. o \in Int /\ b = o + HeaderSize - 1 /\ z \in Nat /\ z <= MaxPacketSize
            BY <1>4, <1>8, <1>12
        <3>4. /\ At(d, p) = ChunkId(s) /\ Num(At(d, p + 1)) = c
              /\ Num(At(d, p + 2)) = o /\ Num(At(d, p + 3)) = z
            BY <1>1, <1>13
        <3>5. zero \/ o < HeaderSize
            BY <1>8
        <3>6. T1[s] = AddChunkTo(T0[s], setup[s].sample, b, z, c = 1)
            BY <1>13
        <3>7. \A t \in Streams : t # s => T1[t] = T0[t]
            BY <1>11
        <3> QED
            BY ONLY <3>1, <3>2, <3>3, <3>4, <3>5, <3>6, <3>7, Zenon DEF NamesChunk
    <2> QED
        BY <2>1, GoodEntry
<1> QED
    BY <1>14, Zenon DEF T0, T1, TakesEntry

\* What the loop over the entries has after i turns
EntriesAfter(chunks, x, i) ==
    LET n == Len(chunks)
        p == EndOf(chunks, n) + 2
    IN  IF i <= n THEN State(PartsAt(chunks, i, x), i > 0, p + 4 * i, n - i)
        ELSE State(PartsAt(chunks, n, x), TRUE, p + 4 * n + 4, 0 - 1)

LEMMA EntriesTurn ==
    ASSUME StreamsOK, NEW d \in Seq(Cell), NEW chunks, Finished(d, chunks), NEW x,
           NEW k \in Nat, k >= 1
    PROVE  EntriesAfter(chunks, x, k)
             = TakeEntry(d, setup, HeaderSize, EntriesAfter(chunks, x, k - 1))
<1> PICK n, p : n = Len(chunks) /\ p = EndOf(chunks, n) + 2
    OBVIOUS
<1>1. n \in Nat /\ n > 0 /\ p \in Nat /\ Len(d) = p + 4 * n
    <2>1. n > 0 /\ ChunksOK(chunks) /\ Len(d) = EndOf(chunks, n) + 2 + 4 * n
        BY DEF Finished
    <2>2. n \in Nat /\ EndOf(chunks, n) \in Nat
        <3>1. Len(chunks) \in Nat /\ \A i \in 0 .. Len(chunks) : EndOf(chunks, i) \in Nat
            BY <2>1, PlaceFacts
        <3> QED
            BY <3>1
    <2> QED
        BY <2>1, <2>2
<1>2. \A i \in Int : EntriesAfter(chunks, x, i)
                       = IF i <= n THEN State(PartsAt(chunks, i, x), i > 0, p + 4 * i, n - i)
                         ELSE State(PartsAt(chunks, n, x), TRUE, p + 4 * n + 4, 0 - 1)
    BY DEF EntriesAfter
<1>3. CASE k <= n
    <2> PICK j, q, left, zero : j = k - 1 /\ q = p + 4 * j /\ left = n - j /\ zero = (j > 0)
        OBVIOUS
    <2>1. /\ EntriesAfter(chunks, x, j) = State(PartsAt(chunks, j, x), zero, q, left)
          /\ EntriesAfter(chunks, x, k) = State(PartsAt(chunks, k, x), TRUE, q + 4, left - 1)
        <3>1. j \in Int /\ j <= n /\ k \in Int /\ k > 0 /\ p + 4 * k = q + 4 /\ n - k = left - 1
            BY <1>1, <1>3
        <3>2. (k > 0) = TRUE
            BY <3>1
        <3>3. EntriesAfter(chunks, x, j) = State(PartsAt(chunks, j, x), j > 0, p + 4 * j, n - j)
            BY <1>2, <3>1
        <3>4. EntriesAfter(chunks, x, k) = State(PartsAt(chunks, k, x), k > 0, p + 4 * k, n - k)
            BY <1>2, <1>3, <3>1
        <3> QED
            BY <3>1, <3>2, <3>3, <3>4, Zenon
    <2>2. /\ left \in Nat /\ zero \in BOOLEAN /\ (k > 1 => zero) /\ k \in 1 .. Len(chunks)
          /\ q = EndOf(chunks, Len(chunks)) + 2 + 4 * (k - 1)
        <3>1. left \in Nat /\ k \in 1 .. n /\ (k > 1 => j > 0)
            BY <1>1, <1>3
        <3>2. (j > 0) \in BOOLEAN
            OBVIOUS
        <3>3. zero \in BOOLEAN /\ (k > 1 => zero)
            BY <3>1, <3>2, Zenon
        <3>4. q = EndOf(chunks, Len(chunks)) + 2 + 4 * (k - 1)
            OBVIOUS
        <3> QED
            BY <3>1, <3>3, <3>4
    <2>3. TakeEntry(d, setup, HeaderSize, State(PartsAt(chunks, k - 1, x), zero, q, left))
             = State(PartsAt(chunks, k, x), TRUE, q + 4, left - 1)
        <3>1. TakesEntry(d, chunks, x, k, zero, q)
            BY <2>2, EntryTaken
        <3> QED
            BY ONLY <2>2, <3>1 DEF TakesEntry, Takes
    <2> QED
        BY <2>1, <2>3
<1>4. CASE k = n + 1
    <2> DEFINE at == State(PartsAt(chunks, n, x), TRUE, Len(d), 0)
    <2>1. at.left = 0 /\ at.pos = Len(d) /\ at.tables = PartsAt(chunks, n, x)
        BY DEF State
    <2>2. EntriesAfter(chunks, x, k - 1) = at
        <3>1. k - 1 = n /\ n \in Int /\ n <= n /\ p + 4 * n = Len(d) /\ n - n = 0
            BY <1>1, <1>4
        <3>2. (n > 0) = TRUE
            BY <1>1
        <3>3. EntriesAfter(chunks, x, n) = State(PartsAt(chunks, n, x), n > 0, p + 4 * n, n - n)
            BY <1>2, <3>1
        <3> QED
            BY <3>1, <3>2, <3>3, Zenon
    <2>3. EntriesAfter(chunks, x, k)
            = State(PartsAt(chunks, n, x), TRUE, p + 4 * n + 4, 0 - 1)
        <3>1. k \in Int /\ ~(k <= n)
            BY <1>1, <1>4
        <3> QED
            BY ONLY <1>2, <3>1
    <2>4. ~IsStream(At(d, Len(d)), PartsAt(chunks, n, x))
        BY <1>1 DEF At, IsStream, Eof
    <2>5. TakeEntry(d, setup, HeaderSize, at) = [at EXCEPT !.pos = @ + 4, !.left = @ - 1]
        <3> HIDE DEF at
        <3> QED
            BY <1>1, <2>1, <2>4 DEF TakeEntry
    <2>6. [at EXCEPT !.pos = @ + 4, !.left = @ - 1]
            = State(PartsAt(chunks, n, x), TRUE, p + 4 * n + 4, 0 - 1)
        <3> PICK T, yes, q, l : /\ T = PartsAt(chunks, n, x) /\ yes = TRUE
                                /\ q = p + 4 * n + 4 /\ l = 0 - 1
            OBVIOUS
        <3> DEFINE r == [at EXCEPT !.pos = q, !.left = l]
                   R == [tables : {T}, ok : {yes}, zeroBased : {yes}, pos : {Len(d), q},
                         left : {0, l}]
        <3>1. at \in R
            <4>1. [tables |-> T, ok |-> yes, zeroBased |-> yes, pos |-> Len(d), left |-> 0] \in R
                OBVIOUS
            <4>2. at = [tables |-> T, ok |-> yes, zeroBased |-> yes, pos |-> Len(d), left |-> 0]
                BY Zenon DEF State
            <4> QED
                BY <4>1, <4>2, Zenon
        <3>2. [at EXCEPT !.pos = @ + 4, !.left = @ - 1] = r
            BY <1>1, <2>1
        <3> HIDE DEF at
        <3>3. r \in R /\ r.pos = q /\ r.left = l
            BY <3>1
        <3> HIDE DEF r
        <3>4. r = [tables |-> T, ok |-> yes, zeroBased |-> yes, pos |-> q, left |-> l]
            BY <3>3
        <3>5. r = State(T, yes, q, l)
            BY <3>4, Zenon DEF State
        <3> QED
            BY <3>2, <3>5
    <2> QED
        BY <2>2, <2>3, <2>5, <2>6
<1>5. CASE k > n + 1
    <2> DEFINE at == State(PartsAt(chunks, n, x), TRUE, p + 4 * n + 4, 0 - 1)
    <2>1. at.left < 0
        BY DEF State
    <2>2. EntriesAfter(chunks, x, k - 1) = at /\ EntriesAfter(chunks, x, k) = at
        <3>1. k - 1 \in Int /\ k \in Int /\ ~(k - 1 <= n) /\ ~(k <= n)
            BY <1>1, <1>5
        <3> HIDE DEF at
        <3> QED
            BY <1>2, <3>1 DEF at
    <2>3. TakeEntry(d, setup, HeaderSize, at) = at
        <3> HIDE DEF at
        <3> QED
            BY <2>1 DEF TakeEntry
    <2> QED
        BY <2>2, <2>3
<1> QED
    BY <1>1, <1>3, <1>4, <1>5

\* The reader takes the index to its end.
IndexRead(d, tables, p, n, U) ==
    LET end == readIndexChunk(d, setup, tables, HeaderSize, p, n)
    IN  end.ok = TRUE /\ end.tables = U

LEMMA EntriesRead ==
    ASSUME StreamsOK, NEW d \in Seq(Cell), NEW chunks, Finished(d, chunks), NEW x,
           NEW p, p = EndOf(chunks, Len(chunks)) + 2, NEW n, n = Len(chunks),
           NEW tables, tables = PartsAt(chunks, 0, x)
    PROVE  IndexRead(d, tables, p, n, PartsAt(chunks, n, x))
<1> PICK T : T = Turns(d)
    OBVIOUS
<1>1. n \in Nat /\ p \in Nat /\ Len(d) = p + 4 * n
    <2>1. ChunksOK(chunks) /\ Len(d) = EndOf(chunks, n) + 2 + 4 * n
        BY DEF Finished
    <2>2. n \in Nat /\ EndOf(chunks, n) \in Nat
        <3>1. Len(chunks) \in Nat /\ \A i \in 0 .. Len(chunks) : EndOf(chunks, i) \in Nat
            BY <2>1, PlaceFacts
        <3> QED
            BY <3>1
    <2> QED
        BY <2>1, <2>2
<1>2. T \in Nat /\ T > n
    <2>1. T = (p + 4 * n) \div 2 + 1
        BY <1>1 DEF Turns
    <2>2. \A a, b \in Nat : (a + 4 * b) \div 2 + 1 \in Nat /\ (a + 4 * b) \div 2 + 1 > b
        OBVIOUS
    <2> QED
        BY <1>1, <2>1, <2>2
<1> DEFINE H == [i \in 0 .. T |-> EntriesAfter(chunks, x, i)]
<1>3. H[0] = [tables |-> tables, ok |-> TRUE, zeroBased |-> FALSE, pos |-> p, left |-> n]
    <2>1. 0 \in 0 .. T
        BY <1>2
    <2>2. EntriesAfter(chunks, x, 0) = State(PartsAt(chunks, 0, x), 0 > 0, p + 4 * 0, n - 0)
        BY <1>1 DEF EntriesAfter
    <2>3. (0 > 0) = FALSE /\ p + 4 * 0 = p /\ n - 0 = n
        BY <1>1
    <2>4. H[0] = State(tables, FALSE, p, n)
        BY <2>1, <2>2, <2>3
    <2> HIDE DEF H
    <2> QED
        BY <2>4, Zenon DEF State
<1>4. \A k \in 1 .. T : H[k] = TakeEntry(d, setup, HeaderSize, H[k - 1])
    <2> SUFFICES ASSUME NEW k \in 1 .. T
                 PROVE  H[k] = TakeEntry(d, setup, HeaderSize, H[k - 1])
        OBVIOUS
    <2>1. k \in Nat /\ k >= 1 /\ k \in 0 .. T /\ k - 1 \in 0 .. T
        BY <1>2
    <2>2. EntriesAfter(chunks, x, k)
             = TakeEntry(d, setup, HeaderSize, EntriesAfter(chunks, x, k - 1))
        BY <2>1, EntriesTurn
    <2> QED
        BY <2>1, <2>2
<1>5. readIndexChunk(d, setup, tables, HeaderSize, p, n) = H[T]
    <2> HIDE DEF H
    <2> QED
        BY <1>2, <1>3, <1>4, EntriesLoop
<1>6. H[T] = State(PartsAt(chunks, n, x), TRUE, p + 4 * n + 4, 0 - 1)
    <2>1. T \in 0 .. T /\ ~(T <= n)
        BY <1>1, <1>2
    <2> QED
        BY <2>1 DEF EntriesAfter
<1> HIDE DEF H
<1> QED
    BY <1>5, <1>6 DEF State, IndexRead

-----------------------------------------------------------------------------
(* The parts of a finished file as init takes them *)
Part(p, m, T) == [pos |-> p, listed |-> TRUE, movie |-> m, indexed |-> FALSE, ok |-> TRUE,
                  tables |-> T]

Leads(d, a, b) == TakePart(d, setup, a) = b

LEMMA PartFields ==
    ASSUME NEW p, NEW m, NEW T
    PROVE  /\ Part(p, m, T).pos = p /\ Part(p, m, T).listed = TRUE
           /\ Part(p, m, T).movie = m /\ Part(p, m, T).tables = T
BY DEF Part

\* What becomes of such a record
Onto(at, q) == [at EXCEPT !.pos = q]
OntoList(at, q, n) == [[at EXCEPT !.pos = q, !.listed = TRUE] EXCEPT !.pos = n]
OntoMovie(at, q, n) == [[at EXCEPT !.pos = q, !.listed = TRUE] EXCEPT !.movie = n]
OntoStream(at, q, U) == [[at EXCEPT !.pos = q, !.listed = TRUE] EXCEPT !.tables = U]

LEMMA PartMoves ==
    /\ \A p, m, T, q : Onto(Part(p, m, T), q) = Part(q, m, T)
    /\ \A p, m, T, q, n : OntoList(Part(p, m, T), q, n) = Part(n, m, T)
    /\ \A p, m, T, q, n : OntoMovie(Part(p, m, T), q, n) = Part(q, n, T)
    /\ \A p, m, T, q, U : OntoStream(Part(p, m, T), q, U) = Part(q, m, U)
<1>1. ASSUME NEW p, NEW m, NEW T, NEW q, NEW n, NEW U
      PROVE  /\ Onto(Part(p, m, T), q) = Part(q, m, T)
             /\ OntoList(Part(p, m, T), q, n) = Part(n, m, T)
             /\ OntoMovie(Part(p, m, T), q, n) = Part(q, n, T)
             /\ OntoStream(Part(p, m, T), q, U) = Part(q, m, U)
    <2> PICK at : at = Part(p, m, T)
        OBVIOUS
    <2> PICK yes, no : yes = TRUE /\ no = FALSE
        OBVIOUS
    <2> DEFINE R == [pos : {p, q, n}, listed : {yes}, movie : {m, n}, indexed : {no}, ok : {yes},
                     tables : {T, U}]
               Rec(a, b, c) == [pos |-> a, listed |-> yes, movie |-> b, indexed |-> no,
                                ok |-> yes, tables |-> c]
    <2>1. \A a, b, c : Rec(a, b, c) = Part(a, b, c)
        BY Zenon DEF Part
    <2>2. at \in R /\ at.pos = p /\ at.movie = m /\ at.tables = T
        <3>1. at = Rec(p, m, T)
            BY <2>1
        <3> QED
            BY <3>1
    <2> DEFINE f == [at EXCEPT !.pos = q, !.listed = yes]
               a1 == [at EXCEPT !.pos = q]
               a2 == [f EXCEPT !.pos = n]
               a3 == [f EXCEPT !.movie = n]
               a4 == [f EXCEPT !.tables = U]
    <2>3. f \in R /\ f.pos = q /\ f.movie = m /\ f.tables = T
        BY <2>2
    <2>4. a1 = Rec(q, m, T)
        <3>1. a1 \in R /\ a1.pos = q /\ a1.movie = m /\ a1.tables = T
            BY <2>2
        <3> HIDE DEF a1
        <3> QED
            BY <3>1
    <2> HIDE DEF f
    <2>5. a2 = Rec(n, m, T)
        <3>1. a2 \in R /\ a2.pos = n /\ a2.movie = m /\ a2.tables = T
            BY <2>3
        <3> HIDE DEF a2
        <3> QED
            BY <3>1
    <2>6. a3 = Rec(q, n, T)
        <3>1. a3 \in R /\ a3.pos = q /\ a3.movie = n /\ a3.tables = T
            BY <2>3
        <3> HIDE DEF a3
        <3> QED
            BY <3>1
    <2>7. a4 = Rec(q, m, U)
        <3>1. a4 \in R /\ a4.pos = q /\ a4.movie = m /\ a4.tables = U
            BY <2>3
        <3> HIDE DEF a4
        <3> QED
            BY <3>1
    <2>8. f = [at EXCEPT !.pos = q, !.listed = TRUE]
        BY Zenon DEF f
    <2>9. a1 = Part(q, m, T) /\ a2 = Part(n, m, T) /\ a3 = Part(q, n, T) /\ a4 = Part(q, m, U)
        <3> HIDE DEF a1, a2, a3, a4, Rec
        <3> QED
            BY <2>1, <2>4, <2>5, <2>6, <2>7
    <2> QED
        BY <2>8, <2>9, Zenon DEF Onto, OntoList, OntoMovie, OntoStream
<1>2. \A p, m, T, q : Onto(Part(p, m, T), q) = Part(q, m, T)
    BY <1>1
<1>3. \A p, m, T, q, n : OntoList(Part(p, m, T), q, n) = Part(n, m, T)
    BY <1>1
<1>4. \A p, m, T, q, n : OntoMovie(Part(p, m, T), q, n) = Part(q, n, T)
    BY <1>1
<1>5. \A p, m, T, q, U : OntoStream(Part(p, m, T), q, U) = Part(q, m, U)
    BY <1>1
<1> QED
    BY <1>2, <1>3, <1>4, <1>5

LEMMA NamesDiffer ==
    /\ \A type \in {"hdrl", "strl", "movi"} : IsList(Id(type))
    /\ \A type \in {"JUNK", "idx1"} : ~IsList(Id(type))
    /\ \A a, b : Is(Id(a), b) <=> a = b
BY DEF IsList, Is, Id

\* A part is taken at its position once the lists are found.
LEMMA PartHere ==
    ASSUME NEW d, NEW p \in Nat, NEW m, NEW T, p + 1 < Len(d), NEW at, at = Part(p, m, T)
    PROVE  TakePart(d, setup, at)
             = IF IsList(At(d, p)) THEN TakeList(d, at, p)
               ELSE IF Is(At(d, p), "idx1") THEN TakeIndex(d, setup, at, p)
               ELSE [at EXCEPT !.pos = p + 2 + Even(Num(At(d, p + 1)))]
<1>1. at.pos = p /\ at.listed
    BY DEF Part
<1>2. ~(p >= Len(d) \/ p + 1 >= Len(d))
    <2>1. p + 1 < Len(d) => ~(p + 1 >= Len(d))
        BY DEF TakePart
    <2> QED
        OBVIOUS
<1> QED
    BY <1>1, <1>2, Zenon DEF TakePart

LEMMA JunkPart ==
    ASSUME NEW d, NEW p \in Nat, NEW m, NEW T, p + 1 < Len(d), At(d, p) = Id("JUNK"),
           NEW q, q = p + 2 + Even(Num(At(d, p + 1)))
    PROVE  Leads(d, Part(p, m, T), Part(q, m, T))
<1> DEFINE at == Part(p, m, T)
<1>1. ~IsList(At(d, p)) /\ ~Is(At(d, p), "idx1")
    BY NamesDiffer
<1>2. TakePart(d, setup, at) = [at EXCEPT !.pos = p + 2 + Even(Num(At(d, p + 1)))]
    BY <1>1, PartHere
<1>3. TakePart(d, setup, at) = Onto(at, q)
    BY <1>2, Zenon DEF Onto
<1>4. Onto(at, q) = Part(q, m, T)
    BY PartMoves
<1> QED
    BY <1>3, <1>4 DEF Leads

\* The list of headers, and the first list there is
LEMMA HeadersPart ==
    ASSUME NEW d \in Seq(Cell), Len(d) >= 4, At(d, 2) = Id("hdrl"),
           NEW z \in Nat, z >= 1, Num(At(d, 3)) = z, NEW T, NEW at,
           at = [pos |-> 2, listed |-> FALSE, movie |-> 0, indexed |-> FALSE, ok |-> TRUE,
                 tables |-> T]
    PROVE  Leads(d, at, Part(4, 0, T))
<1>1. at.pos = 2 /\ ~at.listed
    OBVIOUS
<1>2. First(d, 2, IsList) = 2
    <2> DEFINE G(p) == /\ p \in 2 .. Len(d)
                       /\ p = Len(d) \/ IsList(At(d, p))
                       /\ \A q \in 2 .. p - 1 : ~IsList(At(d, q))
    <2>1. G(2)
        BY NamesDiffer
    <2>2. \A p : G(p) => p = 2
        <3>1. \A p \in 2 .. Len(d) : p # 2 => 2 \in 2 .. p - 1
            OBVIOUS
        <3>2. IsList(At(d, 2))
            BY NamesDiffer
        <3> QED
            BY <3>1, <3>2
    <2>3. First(d, 2, IsList) = CHOOSE p \in 2 .. Len(d) :
                /\ p = Len(d) \/ IsList(At(d, p))
                /\ \A q \in 2 .. p - 1 : ~IsList(At(d, q))
        BY DEF First
    <2>4. First(d, 2, IsList) = CHOOSE p : G(p)
        BY <2>3
    <2> QED
        <3> HIDE DEF G
        <3> QED
            BY <2>1, <2>2, <2>4
<1>3. TakePart(d, setup, at) = TakeList(d, at, 2)
    <2>1. ~(2 >= Len(d) \/ 2 + 1 >= Len(d)) /\ IsList(At(d, 2))
        BY NamesDiffer
    <2> QED
        BY <1>1, <1>2, <2>1, Zenon DEF TakePart
<1>4. TakeList(d, at, 2)
        = [[at EXCEPT !.pos = 2 + 2 + Even(Num(At(d, 2 + 1))), !.listed = TRUE]
              EXCEPT !.pos = 2 + 2]
    <2>1. ~(z < 1) /\ Is(At(d, 2), "hdrl") /\ 2 + 1 = 3
        BY NamesDiffer
    <2> QED
        BY <2>1, Zenon DEF TakeList
<1>5. [[at EXCEPT !.pos = 2 + 2 + Even(Num(At(d, 2 + 1))), !.listed = TRUE]
              EXCEPT !.pos = 2 + 2] = Part(4, 0, T)
    <2> PICK q, yes, no : /\ q = 2 + 2 + Even(Num(At(d, 2 + 1)))
                          /\ yes = TRUE /\ no = FALSE
        OBVIOUS
    <2> DEFINE R == [pos : {2, q, 4}, listed : {yes, no}, movie : {0}, indexed : {no},
                     ok : {yes}, tables : {T}]
               f == [at EXCEPT !.pos = q, !.listed = yes]
               r == [f EXCEPT !.pos = 4]
    <2>1. at \in R
        <3>1. [pos |-> 2, listed |-> no, movie |-> 0, indexed |-> no, ok |-> yes,
               tables |-> T] \in R
            OBVIOUS
        <3>2. at = [pos |-> 2, listed |-> no, movie |-> 0, indexed |-> no, ok |-> yes,
                    tables |-> T]
            BY Zenon
        <3> HIDE DEF R
        <3> QED
            BY <3>1, <3>2, Zenon
    <2>2. f \in R /\ f.listed = yes
        BY <2>1
    <2> HIDE DEF f
    <2>3. r \in R /\ r.pos = 4 /\ r.listed = yes
        BY <2>2
    <2> HIDE DEF r
    <2>4. r = [pos |-> 4, listed |-> yes, movie |-> 0, indexed |-> no, ok |-> yes,
               tables |-> T]
        BY <2>3
    <2>5. r = Part(4, 0, T)
        BY <2>4, Zenon DEF Part
    <2>6. f = [at EXCEPT !.pos = 2 + 2 + Even(Num(At(d, 2 + 1))), !.listed = TRUE]
        BY Zenon DEF f
    <2>7. 2 + 2 = 4
        OBVIOUS
    <2> QED
        BY <2>5, <2>6, <2>7, Zenon DEF r
<1> QED
    BY <1>3, <1>4, <1>5, Zenon DEF Leads

LEMMA StreamPart ==
    ASSUME NEW d, NEW p \in Nat, NEW m, NEW T, p + 1 < Len(d), At(d, p) = Id("strl"),
           Num(At(d, p + 1)) = 2, NEW q, q = p + 4
    PROVE  Leads(d, Part(p, m, T), Part(q, m, Append(T, EmptyTable(Num(At(d, p + 3))))))
<1> DEFINE at == Part(p, m, T)
           U == Append(T, EmptyTable(Num(At(d, p + 3))))
<1>1. IsList(At(d, p))
    BY NamesDiffer
<1>2. TakePart(d, setup, at) = TakeList(d, at, p)
    BY <1>1, PartHere
<1>3. /\ Even(2) = 2 /\ (p + 2) + Even(2) = q /\ (p + 2) + 1 = p + 3
    BY DEF Even
<1>4. TakeList(d, at, p)
        = [[at EXCEPT !.pos = (p + 2) + Even(2), !.listed = TRUE]
             EXCEPT !.tables = Append(@, EmptyTable(Num(At(d, (p + 2) + 1))))]
    <2>1. ~(2 < 1) /\ ~Is(At(d, p), "hdrl") /\ ~Is(At(d, p), "movi")
        BY NamesDiffer
    <2> QED
        BY <2>1, Zenon DEF TakeList
<1>5. [at EXCEPT !.pos = q, !.listed = TRUE].tables = T
    BY DEF Part
<1>6. TakeList(d, at, p) = OntoStream(at, q, U)
    <2>1. [[at EXCEPT !.pos = q, !.listed = TRUE]
             EXCEPT !.tables = Append(@, EmptyTable(Num(At(d, p + 3))))]
          = [[at EXCEPT !.pos = q, !.listed = TRUE] EXCEPT !.tables = U]
        BY <1>5, Zenon
    <2> QED
        BY <1>3, <1>4, <2>1, Zenon DEF OntoStream
<1> QED
    BY <1>2, <1>6, PartMoves DEF Leads

LEMMA MoviePart ==
    ASSUME NEW d, NEW p \in Nat, NEW m, NEW T, p + 1 < Len(d), At(d, p) = Id("movi"),
           NEW z, Num(At(d, p + 1)) = z, z \in Nat, z >= 1, z % 2 = 0,
           NEW n, n = p + 2, NEW q, q = p + 2 + z
    PROVE  Leads(d, Part(p, m, T), Part(q, n, T))
<1> DEFINE at == Part(p, m, T)
<1>1. IsList(At(d, p))
    BY NamesDiffer
<1>2. TakePart(d, setup, at) = TakeList(d, at, p)
    BY <1>1, PartHere
<1>3. (p + 2) + Even(z) = q
    BY DEF Even
<1>4. TakeList(d, at, p)
        = [[at EXCEPT !.pos = (p + 2) + Even(z), !.listed = TRUE] EXCEPT !.movie = p + 2]
    <2>1. ~(z < 1) /\ ~Is(At(d, p), "hdrl") /\ Is(At(d, p), "movi")
        BY NamesDiffer
    <2> QED
        BY <2>1, Zenon DEF TakeList
<1>6. TakeList(d, at, p) = OntoMovie(at, q, n)
    BY <1>3, <1>4, Zenon DEF OntoMovie
<1> QED
    BY <1>2, <1>6, PartMoves DEF Leads

\* What a finished file begins with, and how long it is
Reads(d, n, K, e) ==
    /\ n \in Nat /\ n >= 1 /\ K \in Nat /\ K >= 1 /\ e \in Nat /\ e % 2 = 0
    /\ HeaderSize \in Nat /\ HeaderSize % 2 = 0 /\ 8 + 4 * n <= HeaderSize
    /\ HeaderSize + 2 <= e /\ Len(d) = e + 2 + 4 * K
    /\ At(d, 0) = Id("RIFF") /\ At(d, 2) = Id("hdrl") /\ Num(At(d, 3)) = 4 * n
    /\ \A s \in 1 .. n : At(d, 4 * s) = Id("strl") /\ Num(At(d, 4 * s + 1)) = 2
    /\ At(d, 4 * n + 4) = Id("JUNK")
    /\ Num(At(d, 4 * n + 5)) = HeaderSize - 8 - 4 * n
    /\ At(d, HeaderSize - 2) = Id("movi")
    /\ Num(At(d, HeaderSize - 1)) = e - HeaderSize
    /\ At(d, e) = Id("idx1") /\ Num(At(d, e + 1)) = 4 * K

LEMMA HeaderReads ==
    ASSUME StreamsOK, NEW d \in Seq(Cell), NEW chunks, Finished(d, chunks),
           NEW n, n = Len(setup), NEW K, K = Len(chunks), NEW e, e = EndOf(chunks, K)
    PROVE  Reads(d, n, K, e)
<1>1. /\ K > 0 /\ ChunksOK(chunks) /\ Len(d) = e + 2 + 4 * K /\ Headed(d, e)
      /\ d[e + 1] = Id("idx1") /\ d[e + 2] = Number(4 * K)
    BY DEF Finished
<1>2. n \in Nat /\ n >= 1 /\ HeaderSize \in Nat /\ 8 + 4 * n <= HeaderSize
      /\ HeaderSize % 2 = 0
    BY RoomForHeaders, HeaderAssumption
<1>3. K \in Nat /\ \A k \in 1 .. K : chunks[k].size \in Nat
    BY <1>1, PlaceFacts
<1>4. /\ \A k \in 0 .. K : EndOf(chunks, k) \in Nat /\ EndOf(chunks, k) >= HeaderSize
      /\ \A k \in 0 .. K : EndOf(chunks, k) % 2 = 0
      /\ \A k \in 1 .. K :
            EndOf(chunks, k) = EndOf(chunks, k - 1) + 2 + Even(chunks[k].size)
    <2>1. \A k \in 0 .. K : EndOf(chunks, k) \in Nat /\ EndOf(chunks, k) >= HeaderSize
        BY <1>1, PlaceFacts
    <2>2. \A k \in 0 .. K : EndOf(chunks, k) % 2 = 0
        BY <1>3, EndEven
    <2>3. \A k \in 1 .. K :
            EndOf(chunks, k) = EndOf(chunks, k - 1) + 2 + Even(chunks[k].size)
        BY <1>3, EndSteps
    <2> QED
        BY <2>1, <2>2, <2>3
<1>5. e \in Nat /\ e % 2 = 0 /\ HeaderSize + 2 <= e
    <2>1. K \in 0 .. K /\ K \in 1 .. K /\ K - 1 \in 0 .. K
        BY <1>1, <1>3
    <2>2. PICK z : z = chunks[K].size /\ z \in Nat
        BY <1>3, <2>1
    <2>3. Even(z) \in Nat
        BY <2>2, EvenIsNat
    <2>4. PICK b : b = EndOf(chunks, K - 1) /\ b \in Nat /\ b >= HeaderSize
        BY <1>4, <2>1
    <2>5. e = b + 2 + Even(z)
        BY <1>4, <2>1, <2>2, <2>4
    <2>6. e \in Nat /\ e % 2 = 0
        BY <1>4, <2>1
    <2>7. HeaderSize + 2 <= e
        <3>1. PICK y \in Nat : y = Even(z)
            BY <2>3
        <3>2. e = b + 2 + y /\ b \in Nat /\ b >= HeaderSize /\ HeaderSize \in Nat
            BY <1>2, <2>4, <2>5, <3>1
        <3> QED
            BY ONLY <3>2, y \in Nat
    <2> QED
        BY <2>6, <2>7
<1>6. Len(d) = e + 2 + 4 * K /\ \A p \in 0 .. e + 1 : At(d, p) = d[p + 1]
    <2>1. \A p \in 0 .. e + 1 : p < Len(d)
        BY <1>1, <1>3, <1>5
    <2> QED
        BY <1>1, <2>1 DEF At
<1>7. \A z : Num(Number(z)) = z
    BY DEF Num, Number
<1>8. /\ d[1] = Id("RIFF") /\ d[3] = Id("hdrl") /\ d[4] = Number(4 * n)
      /\ \A s \in 1 .. n : d[4 * s + 1] = Id("strl") /\ d[4 * s + 2] = Number(2)
      /\ d[4 * n + 5] = Id("JUNK") /\ d[4 * n + 6] = Number(HeaderSize - 8 - 4 * n)
      /\ d[HeaderSize - 1] = Id("movi") /\ d[HeaderSize] = Number(e - HeaderSize)
    BY <1>1 DEF Headed
<1>9. /\ At(d, 0) = Id("RIFF") /\ At(d, 2) = Id("hdrl") /\ Num(At(d, 3)) = 4 * n
    <2>1. 0 \in 0 .. e + 1 /\ 2 \in 0 .. e + 1 /\ 3 \in 0 .. e + 1
        BY <1>2, <1>5
    <2>2. At(d, 0) = d[0 + 1] /\ At(d, 2) = d[2 + 1] /\ At(d, 3) = d[3 + 1]
        BY <1>6, <2>1
    <2> QED
        BY <1>7, <1>8, <2>2
<1>10. \A s \in 1 .. n : At(d, 4 * s) = Id("strl") /\ Num(At(d, 4 * s + 1)) = 2
    <2> SUFFICES ASSUME NEW s \in 1 .. n
                 PROVE  At(d, 4 * s) = Id("strl") /\ Num(At(d, 4 * s + 1)) = 2
        OBVIOUS
    <2>1. 4 * s \in 0 .. e + 1 /\ 4 * s + 1 \in 0 .. e + 1 /\ (4 * s + 1) + 1 = 4 * s + 2
        BY <1>2, <1>5
    <2>2. At(d, 4 * s) = d[4 * s + 1] /\ At(d, 4 * s + 1) = d[(4 * s + 1) + 1]
        BY <1>6, <2>1
    <2>3. d[4 * s + 1] = Id("strl") /\ d[4 * s + 2] = Number(2)
        BY <1>8
    <2> QED
        BY <1>7, <2>1, <2>2, <2>3, Zenon
<1>11. At(d, 4 * n + 4) = Id("JUNK") /\ Num(At(d, 4 * n + 5)) = HeaderSize - 8 - 4 * n
    <2>1. /\ 4 * n + 4 \in 0 .. e + 1 /\ 4 * n + 5 \in 0 .. e + 1
          /\ (4 * n + 4) + 1 = 4 * n + 5 /\ (4 * n + 5) + 1 = 4 * n + 6
        BY <1>2, <1>5
    <2>2. At(d, 4 * n + 4) = d[(4 * n + 4) + 1] /\ At(d, 4 * n + 5) = d[(4 * n + 5) + 1]
        BY <1>6, <2>1
    <2> QED
        BY <1>7, <1>8, <2>1, <2>2, Zenon
<1>12. At(d, HeaderSize - 2) = Id("movi") /\ Num(At(d, HeaderSize - 1)) = e - HeaderSize
    <2>1. /\ HeaderSize - 2 \in 0 .. e + 1 /\ HeaderSize - 1 \in 0 .. e + 1
          /\ (HeaderSize - 2) + 1 = HeaderSize - 1 /\ (HeaderSize - 1) + 1 = HeaderSize
        BY <1>2, <1>5
    <2>2. /\ At(d, HeaderSize - 2) = d[(HeaderSize - 2) + 1]
          /\ At(d, HeaderSize - 1) = d[(HeaderSize - 1) + 1]
        BY <1>6, <2>1
    <2> QED
        BY <1>7, <1>8, <2>1, <2>2, Zenon
<1>13. At(d, e) = Id("idx1") /\ Num(At(d, e + 1)) = 4 * K
    <2>1. e \in 0 .. e + 1 /\ e + 1 \in 0 .. e + 1 /\ (e + 1) + 1 = e + 2
        BY <1>5
    <2>2. At(d, e) = d[e + 1] /\ At(d, e + 1) = d[(e + 1) + 1]
        BY <1>6, <2>1
    <2> QED
        BY <1>1, <1>7, <2>1, <2>2, Zenon
<1>14. K >= 1
    BY <1>1, <1>3
<1> QED
    BY <1>2, <1>3, <1>5, <1>6, <1>9, <1>10, <1>11, <1>12, <1>13, <1>14 DEF Reads

\* Where the reader is at the end, with all the tables
PartEnd(d, U) == [pos |-> Len(d), listed |-> TRUE, movie |-> HeaderSize, indexed |-> TRUE,
                  ok |-> TRUE, tables |-> U]

LEMMA IndexPart ==
    ASSUME StreamsOK, NEW d \in Seq(Cell), NEW chunks, Finished(d, chunks), NEW x,
           NEW K, K = Len(chunks), NEW e, e = EndOf(chunks, K)
    PROVE  Leads(d, Part(e, HeaderSize, PartsAt(chunks, 0, x)),
                 PartEnd(d, PartsAt(chunks, K, x)))
<1> DEFINE T == PartsAt(chunks, 0, x)
           U == PartsAt(chunks, K, x)
           at == Part(e, HeaderSize, T)
<1>1. /\ K \in Nat /\ e \in Nat /\ Len(d) = e + 2 + 4 * K
      /\ At(d, e) = Id("idx1") /\ Num(At(d, e + 1)) = 4 * K
    <2>1. Reads(d, Len(setup), K, e)
        BY HeaderReads
    <2> QED
        BY <2>1 DEF Reads
<1> PICK p : p = e + 2
    OBVIOUS
<1>2. /\ e + 1 < Len(d) /\ (4 * K) \div 4 = K /\ p + Even(4 * K) = Len(d)
    <2>1. \A k \in Nat : (4 * k) \div 4 = k /\ (4 * k) % 2 = 0
        OBVIOUS
    <2> QED
        BY <1>1, <2>1 DEF Even
<1>3. ~IsList(At(d, e)) /\ Is(At(d, e), "idx1")
    BY <1>1, NamesDiffer
<1>4. TakePart(d, setup, at) = TakeIndex(d, setup, at, e)
    BY <1>1, <1>2, <1>3, PartHere
<1> DEFINE E == readIndexChunk(d, setup, T, HeaderSize, p, K)
<1>5. E.ok = TRUE /\ E.tables = U
    <2>1. IndexRead(d, T, p, K, U)
        BY EntriesRead
    <2> HIDE DEF T, U
    <2> QED
        BY <2>1, Zenon DEF IndexRead
<1>6. at.tables = T /\ at.movie = HeaderSize
    <2> HIDE DEF T
    <2> QED
        BY DEF Part
<1>7. TakeIndex(d, setup, at, e)
        = [at EXCEPT !.pos = p + Even(4 * K), !.indexed = TRUE, !.ok = E.ok,
                     !.tables = E.tables]
    <2> HIDE DEF at, T
    <2> QED
        BY <1>1, <1>2, <1>6, Zenon DEF TakeIndex, WithEntries
<1>8. TakeIndex(d, setup, at, e)
        = [at EXCEPT !.pos = Len(d), !.indexed = TRUE, !.ok = TRUE, !.tables = U]
    <2> HIDE DEF at, E, U
    <2> QED
        BY <1>2, <1>5, <1>7, Zenon
<1>9. [at EXCEPT !.pos = Len(d), !.indexed = TRUE, !.ok = TRUE, !.tables = U] = PartEnd(d, U)
    <2> PICK yes, no, q : yes = TRUE /\ no = FALSE /\ q = Len(d)
        OBVIOUS
    <2> DEFINE R == [pos : {e, q}, listed : {yes}, movie : {HeaderSize},
                     indexed : {no, yes}, ok : {yes}, tables : {T, U}]
               r == [at EXCEPT !.pos = q, !.indexed = yes, !.ok = yes, !.tables = U]
    <2> HIDE DEF T, U
    <2>1. at \in R
        <3>1. [pos |-> e, listed |-> yes, movie |-> HeaderSize, indexed |-> no, ok |-> yes,
               tables |-> T] \in R
            OBVIOUS
        <3>2. at = [pos |-> e, listed |-> yes, movie |-> HeaderSize, indexed |-> no,
                    ok |-> yes, tables |-> T]
            BY Zenon DEF Part
        <3> HIDE DEF R, at
        <3> QED
            BY <3>1, <3>2, Zenon
    <2> HIDE DEF at
    <2>2. r \in R /\ r.pos = q /\ r.indexed = yes /\ r.tables = U
        BY <2>1
    <2> HIDE DEF r
    <2>3. r = [pos |-> q, listed |-> yes, movie |-> HeaderSize, indexed |-> yes, ok |-> yes,
               tables |-> U]
        BY <2>2
    <2>4. r = PartEnd(d, U)
        BY <2>3, Zenon DEF PartEnd
    <2> QED
        BY <2>4, Zenon DEF r
<1> HIDE DEF at, U
<1>10. TakePart(d, setup, at) = PartEnd(d, U)
    BY <1>4, <1>8, <1>9, Zenon
<1> QED
    BY <1>10, Zenon DEF Leads, at, U

\* The tables of the first i streams before the index
Empties(x, i) == [s \in 1 .. i |-> EmptyTable(x[s])]

LEMMA EmptiesGrow ==
    /\ \A x : Empties(x, 0) = <<>>
    /\ \A i \in Nat : \A x : Append(Empties(x, i), EmptyTable(x[i + 1])) = Empties(x, i + 1)
<1>1. ASSUME NEW x PROVE Empties(x, 0) = <<>>
    BY DEF Empties
<1>2. ASSUME NEW i \in Nat, NEW x
      PROVE  Append(Empties(x, i), EmptyTable(x[i + 1])) = Empties(x, i + 1)
    <2> DEFINE g == Empties(x, i + 1)
               S == {EmptyTable(x[s]) : s \in 1 .. i + 1}
    <2>1. /\ g \in [1 .. i + 1 -> S] /\ g[i + 1] = EmptyTable(x[i + 1])
          /\ \A s \in 1 .. i : g[s] = EmptyTable(x[s])
        BY DEF Empties
    <2>2. [s \in 1 .. i |-> g[s]] = Empties(x, i)
        BY <2>1 DEF Empties
    <2> HIDE DEF g, S
    <2>3. g = Append([s \in 1 .. i |-> g[s]], g[i + 1])
        BY <2>1, LastApart
    <2>4. g = Append(Empties(x, i), EmptyTable(x[i + 1]))
        BY <2>1, <2>2, <2>3, Zenon
    <2> QED
        BY <2>4 DEF g
<1> QED
    BY <1>1, <1>2

LEMMA EmptiesAre ==
    ASSUME StreamsOK, NEW chunks, ChunksOK(chunks), NEW x
    PROVE  PartsAt(chunks, 0, x) = Empties(x, Len(setup))
<1>1. Streams = 1 .. Len(setup)
    BY RoomForHeaders
<1>2. \A s \in Streams : PartOf(chunks, s, 0, x[s]) = EmptyTable(x[s])
    BY PartBegins
<1> QED
    BY <1>1, <1>2 DEF PartsAt, Empties

\* What the walk over the parts has after i turns
PartsAfter(d, chunks, x, i) ==
    LET n == Len(setup)
        K == Len(chunks)
    IN  CASE i = 0 -> [pos |-> 2, listed |-> FALSE, movie |-> 0, indexed |-> FALSE,
                       ok |-> TRUE, tables |-> <<>>]
        []   i \in 1 .. n + 1 -> Part(4 * i, 0, Empties(x, i - 1))
        []   i = n + 2 -> Part(HeaderSize - 2, 0, PartsAt(chunks, 0, x))
        []   i = n + 3 -> Part(EndOf(chunks, K), HeaderSize, PartsAt(chunks, 0, x))
        []   OTHER -> PartEnd(d, PartsAt(chunks, K, x))

Formats(d, x) == \A s \in 1 .. Len(setup) : x[s] = Num(At(d, 4 * s + 3))

Walked(d, chunks, x, n) ==
    /\ PartsAfter(d, chunks, x, 0)
         = [pos |-> 2, listed |-> FALSE, movie |-> 0, indexed |-> FALSE,
            ok |-> TRUE, tables |-> <<>>]
    /\ \A i \in 1 .. n + 1 :
         PartsAfter(d, chunks, x, i) = Part(4 * i, 0, Empties(x, i - 1))
    /\ PartsAfter(d, chunks, x, n + 2)
         = Part(HeaderSize - 2, 0, PartsAt(chunks, 0, x))
    /\ PartsAfter(d, chunks, x, n + 3)
         = Part(EndOf(chunks, Len(chunks)), HeaderSize, PartsAt(chunks, 0, x))
    /\ \A i \in Nat : i >= n + 4 =>
         PartsAfter(d, chunks, x, i) = PartEnd(d, PartsAt(chunks, Len(chunks), x))

LEMMA PartsValues ==
    ASSUME StreamsOK, NEW d, NEW chunks, NEW x, NEW n, n = Len(setup)
    PROVE  Walked(d, chunks, x, n)
<1>1. n \in Nat
    BY RoomForHeaders
<1> DEFINE F(i) == PartsAfter(d, chunks, x, i)
           a == [pos |-> 2, listed |-> FALSE, movie |-> 0, indexed |-> FALSE,
                 ok |-> TRUE, tables |-> <<>>]
           b(i) == Part(4 * i, 0, Empties(x, i - 1))
           c == Part(HeaderSize - 2, 0, PartsAt(chunks, 0, x))
           e == Part(EndOf(chunks, Len(chunks)), HeaderSize, PartsAt(chunks, 0, x))
           o == PartEnd(d, PartsAt(chunks, Len(chunks), x))
<1>2. \A i : F(i) = CASE i = 0 -> a [] i \in 1 .. n + 1 -> b(i) [] i = n + 2 -> c
                    [] i = n + 3 -> e [] OTHER -> o
    BY DEF PartsAfter
<1> HIDE DEF F, a, b, c, e, o
<1>3. F(0) = a
    BY <1>1, <1>2
<1>4. \A i \in 1 .. n + 1 : F(i) = b(i)
    BY <1>1, <1>2
<1>5. F(n + 2) = c
    BY <1>1, <1>2
<1>6. F(n + 3) = e
    BY <1>1, <1>2
<1>7. \A i \in Nat : i >= n + 4 => F(i) = o
    BY <1>1, <1>2
<1> QED
    BY <1>3, <1>4, <1>5, <1>6, <1>7, Zenon DEF F, a, b, c, e, o, Walked

LEMMA PartsTurn ==
    ASSUME StreamsOK, NEW d \in Seq(Cell), NEW chunks, Finished(d, chunks), NEW x,
           Formats(d, x), NEW k \in Nat, k >= 1
    PROVE  Leads(d, PartsAfter(d, chunks, x, k - 1), PartsAfter(d, chunks, x, k))
<1> PICK n, K, e : n = Len(setup) /\ K = Len(chunks) /\ e = EndOf(chunks, K)
    OBVIOUS
<1>1. Reads(d, n, K, e)
    BY HeaderReads
<1>2. /\ n \in Nat /\ n >= 1 /\ K \in Nat /\ K >= 1 /\ e \in Nat /\ e % 2 = 0
      /\ HeaderSize \in Nat /\ HeaderSize % 2 = 0 /\ 8 + 4 * n <= HeaderSize
      /\ HeaderSize + 2 <= e /\ Len(d) = e + 2 + 4 * K
    BY <1>1 DEF Reads
<1>3. ChunksOK(chunks)
    BY DEF Finished
<1> DEFINE F(i) == PartsAfter(d, chunks, x, i)
           T == PartsAt(chunks, 0, x)
           U == PartsAt(chunks, K, x)
<1>4. /\ F(0) = [pos |-> 2, listed |-> FALSE, movie |-> 0, indexed |-> FALSE, ok |-> TRUE,
                 tables |-> <<>>]
      /\ \A i \in 1 .. n + 1 : F(i) = Part(4 * i, 0, Empties(x, i - 1))
      /\ F(n + 2) = Part(HeaderSize - 2, 0, T)
      /\ F(n + 3) = Part(e, HeaderSize, T)
      /\ \A i \in Nat : i >= n + 4 => F(i) = PartEnd(d, U)
    <2>1. Walked(d, chunks, x, n)
        BY PartsValues
    <2> QED
        BY <2>1, Zenon DEF Walked
<1>5. T = Empties(x, n)
    BY <1>3, EmptiesAre
<1> HIDE DEF F, T, U
<1>6. CASE k = 1
    <2>1. Len(d) >= 4 /\ At(d, 2) = Id("hdrl") /\ Num(At(d, 3)) = 4 * n
          /\ 4 * n \in Nat /\ 4 * n >= 1
        <3>1. At(d, 2) = Id("hdrl") /\ Num(At(d, 3)) = 4 * n
            BY <1>1 DEF Reads
        <3>2. PICK l : l = Len(d)
            OBVIOUS
        <3>3. l = e + 2 + 4 * K /\ e \in Nat /\ K \in Nat /\ K >= 1 /\ n \in Nat /\ n >= 1
            BY <1>2, <3>2
        <3>4. l >= 4 /\ 4 * n \in Nat /\ 4 * n >= 1
            BY ONLY <3>3
        <3> QED
            BY <3>1, <3>2, <3>4
    <2>2. F(k - 1) = F(0) /\ F(k) = Part(4, 0, <<>>)
        <3>1. k - 1 = 0 /\ 1 \in 1 .. n + 1 /\ 4 * 1 = 4 /\ 1 - 1 = 0
            BY <1>2, <1>6
        <3>2. F(1) = Part(4 * 1, 0, Empties(x, 1 - 1))
            BY <1>4, <3>1
        <3>3. Empties(x, 0) = <<>>
            BY EmptiesGrow
        <3> QED
            BY <1>6, <3>1, <3>2, <3>3
    <2>3. Leads(d, F(0), Part(4, 0, <<>>))
        BY <1>4, <2>1, HeadersPart
    <2> QED
        BY <2>2, <2>3 DEF F
<1>7. CASE k \in 2 .. n + 1
    <2> PICK s, p, q : s = k - 1 /\ p = 4 * s /\ q = p + 4
        OBVIOUS
    <2>1. /\ s \in 1 .. n /\ s \in 1 .. n + 1 /\ p \in Nat /\ p + 1 < Len(d) /\ q = 4 * k
          /\ s - 1 \in Nat /\ (s - 1) + 1 = s /\ k \in 1 .. n + 1
        <3>1. PICK l : l = Len(d)
            OBVIOUS
        <3>2. /\ l = e + 2 + 4 * K /\ e \in Nat /\ K \in Nat /\ K >= 1 /\ n \in Nat /\ n >= 1
              /\ HeaderSize \in Nat /\ 8 + 4 * n <= HeaderSize /\ HeaderSize + 2 <= e
            BY <1>2, <3>1
        <3>3. s \in 1 .. n /\ s \in Nat /\ s <= n /\ k = s + 1
            BY <1>7, <3>2
        <3>4. p = 4 * s /\ q = p + 4
            OBVIOUS
        <3>5. p \in Nat /\ p + 1 < l /\ q = 4 * k
            BY ONLY <3>2, <3>3, <3>4
        <3>6. s \in 1 .. n + 1 /\ s - 1 \in Nat /\ (s - 1) + 1 = s /\ k \in 1 .. n + 1
            BY <1>7, <3>2, <3>3
        <3> QED
            BY <3>1, <3>3, <3>5, <3>6
    <2>2. /\ At(d, p) = Id("strl") /\ Num(At(d, p + 1)) = 2 /\ Num(At(d, p + 3)) = x[s]
        <3>1. \A i \in 1 .. n : At(d, 4 * i) = Id("strl") /\ Num(At(d, 4 * i + 1)) = 2
            BY <1>1 DEF Reads
        <3>2. \A i \in 1 .. n : x[i] = Num(At(d, 4 * i + 3))
            BY DEF Formats
        <3> QED
            BY <2>1, <3>1, <3>2
    <2>3. F(s) = Part(p, 0, Empties(x, s - 1))
        BY <1>4, <2>1
    <2>4. F(k) = Part(q, 0, Empties(x, s))
        BY <1>4, <2>1
    <2>5. Append(Empties(x, s - 1), EmptyTable(x[s])) = Empties(x, s)
        <3>1. Append(Empties(x, s - 1), EmptyTable(x[(s - 1) + 1])) = Empties(x, (s - 1) + 1)
            BY <2>1, EmptiesGrow
        <3> QED
            BY <2>1, <3>1
    <2> PICK A : A = Empties(x, s - 1)
        OBVIOUS
    <2>6. Leads(d, Part(p, 0, A), Part(q, 0, Append(A, EmptyTable(Num(At(d, p + 3))))))
        BY <2>1, <2>2, StreamPart
    <2>7. Leads(d, F(s), F(k))
        BY <2>2, <2>3, <2>4, <2>5, <2>6
    <2> QED
        BY <2>7 DEF F
<1>8. CASE k = n + 2
    <2> PICK p, q : p = 4 * (n + 1) /\ q = HeaderSize - 2
        OBVIOUS
    <2>1. F(k - 1) = Part(p, 0, T)
        <3>1. k - 1 = n + 1 /\ n + 1 \in 1 .. n + 1 /\ (n + 1) - 1 = n
            BY <1>2, <1>8
        <3>2. F(n + 1) = Part(4 * (n + 1), 0, Empties(x, (n + 1) - 1))
            BY <1>4, <3>1
        <3> QED
            BY <1>5, <3>1, <3>2
    <2>2. F(k) = Part(q, 0, T)
        BY <1>4, <1>8
    <2>3. /\ p \in Nat /\ p + 1 < Len(d) /\ p = 4 * n + 4 /\ p + 1 = 4 * n + 5
          /\ q = p + 2 + Even(HeaderSize - 8 - 4 * n)
        <3>1. \A h, i \in Nat : h % 2 = 0 => (h - 8 - 4 * i) % 2 = 0
            OBVIOUS
        <3>2. (HeaderSize - 8 - 4 * n) % 2 = 0
            BY <1>2, <3>1
        <3> QED
            BY <1>2, <3>2 DEF Even
    <2>4. At(d, p) = Id("JUNK") /\ Num(At(d, p + 1)) = HeaderSize - 8 - 4 * n
        <3>1. At(d, 4 * n + 4) = Id("JUNK") /\ Num(At(d, 4 * n + 5)) = HeaderSize - 8 - 4 * n
            BY <1>1 DEF Reads
        <3> QED
            BY <2>3, <3>1, Zenon
    <2>5. Leads(d, Part(p, 0, T), Part(q, 0, T))
        BY <2>3, <2>4, JunkPart
    <2> QED
        BY <2>1, <2>2, <2>5 DEF F
<1>9. CASE k = n + 3
    <2> PICK p, z : p = HeaderSize - 2 /\ z = e - HeaderSize
        OBVIOUS
    <2>1. F(k - 1) = Part(p, 0, T) /\ F(k) = Part(e, HeaderSize, T)
        <3>1. k - 1 = n + 2
            BY <1>2, <1>9
        <3> QED
            BY <1>4, <1>9, <3>1
    <2>2. /\ p \in Nat /\ p + 1 < Len(d) /\ z \in Nat /\ z >= 1 /\ p + 1 = HeaderSize - 1
          /\ HeaderSize = p + 2 /\ e = p + 2 + z /\ z % 2 = 0
        <3>1. \A g, h \in Nat : g % 2 = 0 /\ h % 2 = 0 => (g - h) % 2 = 0
            OBVIOUS
        <3>2. z % 2 = 0
            BY <1>2, <3>1
        <3>3. PICK l : l = Len(d)
            OBVIOUS
        <3>4. /\ l = e + 2 + 4 * K /\ e \in Nat /\ K \in Nat /\ K >= 1 /\ n \in Nat /\ n >= 1
              /\ HeaderSize \in Nat /\ 8 + 4 * n <= HeaderSize /\ HeaderSize + 2 <= e
            BY <1>2, <3>3
        <3>5. p = HeaderSize - 2 /\ z = e - HeaderSize
            OBVIOUS
        <3>6. /\ p \in Nat /\ p + 1 < l /\ z \in Nat /\ z >= 1 /\ p + 1 = HeaderSize - 1
              /\ HeaderSize = p + 2 /\ e = p + 2 + z
            BY ONLY <3>4, <3>5
        <3> QED
            BY <3>2, <3>3, <3>6
    <2>3. At(d, p) = Id("movi") /\ Num(At(d, p + 1)) = z
        <3>1. At(d, HeaderSize - 2) = Id("movi") /\ Num(At(d, HeaderSize - 1)) = e - HeaderSize
            BY <1>1 DEF Reads
        <3> QED
            BY <2>2, <3>1, Zenon
    <2>4. Leads(d, Part(p, 0, T), Part(e, HeaderSize, T))
        BY <2>2, <2>3, MoviePart
    <2> QED
        BY <2>1, <2>4 DEF F
<1>10. CASE k = n + 4
    <2>1. F(k - 1) = Part(e, HeaderSize, T) /\ F(k) = PartEnd(d, U)
        <3>1. k - 1 = n + 3 /\ k >= n + 4
            BY <1>2, <1>10
        <3> QED
            BY <1>4, <3>1
    <2>2. Leads(d, Part(e, HeaderSize, T), PartEnd(d, U))
        BY IndexPart DEF T, U
    <2> QED
        BY <2>1, <2>2 DEF F
<1>11. CASE k > n + 4
    <2> PICK at : at = PartEnd(d, U)
        OBVIOUS
    <2>1. F(k - 1) = at /\ F(k) = at
        <3>1. k - 1 \in Nat /\ k - 1 >= n + 4 /\ k >= n + 4
            BY <1>2, <1>11
        <3> QED
            BY <1>4, <3>1
    <2>2. at.pos = Len(d) /\ Len(d) >= Len(d)
        BY <1>2 DEF PartEnd
    <2>3. TakePart(d, setup, at) = at
        BY <2>2, Zenon DEF TakePart
    <2>4. Leads(d, at, at)
        BY <2>3 DEF Leads
    <2> QED
        BY <2>1, <2>4 DEF F
<1>12. \/ k = 1 \/ k \in 2 .. n + 1 \/ k = n + 2 \/ k = n + 3 \/ k = n + 4
       \/ k > n + 4
    BY <1>2
<1> QED
    BY <1>6, <1>7, <1>8, <1>9, <1>10, <1>11, <1>12

\* init walks to the end of the file.
LEMMA PartsRead ==
    ASSUME StreamsOK, NEW d \in Seq(Cell), NEW chunks, Finished(d, chunks), NEW x,
           Formats(d, x)
    PROVE  readChunks(d, setup) = PartEnd(d, PartsAt(chunks, Len(chunks), x))
<1> PICK T, n, K, e, l : /\ T = Turns(d) /\ n = Len(setup) /\ K = Len(chunks)
                         /\ e = EndOf(chunks, K) /\ l = Len(d)
    OBVIOUS
<1>1. /\ n \in Nat /\ K \in Nat /\ e \in Nat /\ HeaderSize \in Nat
      /\ 8 + 4 * n <= HeaderSize /\ HeaderSize + 2 <= e /\ l = e + 2 + 4 * K
    <2>1. Reads(d, n, K, e)
        BY HeaderReads
    <2> QED
        BY <2>1 DEF Reads
<1>2. T \in Nat /\ T >= n + 4
    <2>1. l \in Nat /\ l >= 12 + 4 * n
        BY ONLY <1>1
    <2>2. \A a, b \in Nat : b >= 12 + 4 * a => b \div 2 + 1 \in Nat /\ b \div 2 + 1 >= a + 4
        OBVIOUS
    <2>3. T = l \div 2 + 1
        BY DEF Turns
    <2> QED
        BY <1>1, <2>1, <2>2, <2>3
<1> DEFINE H == [i \in 0 .. T |-> PartsAfter(d, chunks, x, i)]
<1>3. Walked(d, chunks, x, n)
    BY PartsValues
<1>4. H[0] = [pos |-> 2, listed |-> FALSE, movie |-> 0, indexed |-> FALSE, ok |-> TRUE,
              tables |-> <<>>]
    <2>1. PartsAfter(d, chunks, x, 0)
            = [pos |-> 2, listed |-> FALSE, movie |-> 0, indexed |-> FALSE, ok |-> TRUE,
               tables |-> <<>>]
        BY <1>3, Zenon DEF Walked
    <2>2. 0 \in 0 .. T
        BY <1>2
    <2> QED
        BY <2>1, <2>2, Zenon
<1>5. \A k \in 1 .. T : H[k] = TakePart(d, setup, H[k - 1])
    <2> SUFFICES ASSUME NEW k \in 1 .. T
                 PROVE  H[k] = TakePart(d, setup, H[k - 1])
        OBVIOUS
    <2>1. k \in Nat /\ k >= 1 /\ k \in 0 .. T /\ k - 1 \in 0 .. T
        BY <1>2
    <2>2. Leads(d, PartsAfter(d, chunks, x, k - 1), PartsAfter(d, chunks, x, k))
        BY <2>1, PartsTurn
    <2>3. H[k] = PartsAfter(d, chunks, x, k) /\ H[k - 1] = PartsAfter(d, chunks, x, k - 1)
        BY <2>1
    <2> HIDE DEF H
    <2> QED
        BY <2>2, <2>3 DEF Leads
<1>6. readChunks(d, setup) = H[T]
    <2> HIDE DEF H
    <2> QED
        BY <1>2, <1>4, <1>5, ChunksLoop
<1>7. H[T] = PartEnd(d, PartsAt(chunks, Len(chunks), x))
    <2>1. H[T] = PartsAfter(d, chunks, x, T)
        BY <1>2
    <2>2. \A i \in Nat : i >= n + 4 =>
               PartsAfter(d, chunks, x, i) = PartEnd(d, PartsAt(chunks, Len(chunks), x))
        BY <1>3 DEF Walked
    <2> HIDE DEF H
    <2> QED
        BY <1>2, <2>1, <2>2
<1> QED
    BY <1>6, <1>7

\* The length of a table is set last.
LEMMA TableFixed ==
    ASSUME StreamsOK, NEW chunks, ChunksOK(chunks), NEW s \in Streams, NEW x
    PROVE  fixHeader(PartOf(chunks, s, Len(chunks), x), setup[s].sample) = TableOf(chunks, s)
<1> PICK N, z : N = Len(chunks) /\ z = setup[s].sample
    OBVIOUS
<1>1. z \in Nat
    <2>1. setup[s] \in Setup
        BY DEF StreamsOK, Streams
    <2> QED
        BY <2>1 DEF Setup
<1>2. N \in Nat
    BY PlaceFacts
<1> DEFINE own == OfStream(chunks, s, N)
           bytes == BytesBefore(chunks, s, Len(own))
           g == [m \in 1 .. Len(own) |-> Shown(chunks, own[m])]
           p == [m \in 1 .. Len(own) |-> BytesBefore(chunks, s, m - 1)]
           P == IF z > 0 THEN p ELSE <<>>
           y == IF z > 0 THEN bytes \div z ELSE Len(own)
<1>3. own \in Seq(1 .. N)
    <2>1. \A k \in 0 .. N : OfStream(chunks, s, k) \in Seq(1 .. N)
        BY <1>2, OwnSteps
    <2> QED
        BY <1>2, <2>1
<1>4. Len(own) \in Nat /\ DOMAIN own = 1 .. Len(own)
    <2> HIDE DEF own
    <2> QED
        BY <1>3
<1>5. Len(g) = Len(own)
    <2> DEFINE L == Len(own)
    <2> HIDE DEF L
    <2>1. Len([m \in 1 .. L |-> Shown(chunks, own[m])]) = L
        BY <1>4 DEF L
    <2> QED
        BY <2>1 DEF L
<1>6. PartOf(chunks, s, N, x) = [length |-> x, offsets |-> g, positions |-> P, size |-> bytes]
    BY DEF PartOf
<1>7. TableOf(chunks, s) = [length |-> y, offsets |-> g, positions |-> P, size |-> bytes]
    <2>1. TableOf(chunks, s) =
            [length |-> IF z > 0 THEN bytes \div z ELSE Len(own),
             offsets |-> [n \in DOMAIN own |-> BeginOf(chunks, own[n])
                            + IF chunks[own[n]].key THEN 1 ELSE 0],
             positions |-> IF z = 0 THEN <<>>
                           ELSE [n \in DOMAIN own |-> BytesBefore(chunks, s, n - 1)],
             size |-> bytes]
        BY DEF TableOf
    <2>2. [n \in DOMAIN own |-> BeginOf(chunks, own[n])
                            + IF chunks[own[n]].key THEN 1 ELSE 0] = g
        <3> HIDE DEF own
        <3> QED
            BY <1>4 DEF Shown
    <2>3. [n \in DOMAIN own |-> BytesBefore(chunks, s, n - 1)] = p
        <3> HIDE DEF own
        <3> QED
            BY <1>4
    <2>4. (z = 0) <=> ~(z > 0)
        BY <1>1
    <2>5. (IF z = 0 THEN <<>> ELSE p) = P
        <3> HIDE DEF p
        <3> QED
            BY <2>4
    <2> HIDE DEF own, bytes, g, p, P
    <2> QED
        BY <2>1, <2>2, <2>3, <2>5, Zenon DEF y
<1> DEFINE t == [length |-> x, offsets |-> g, positions |-> P, size |-> bytes]
<1>8. fixHeader(t, z) = [t EXCEPT !.length = y]
    <2> HIDE DEF own, bytes, g, P
    <2>1. t.size = bytes /\ t.offsets = g
        OBVIOUS
    <2> HIDE DEF t
    <2> QED
        BY <1>5, <2>1, Zenon DEF fixHeader, y
<1>9. [t EXCEPT !.length = y] = [length |-> y, offsets |-> g, positions |-> P, size |-> bytes]
    <2> HIDE DEF own, bytes, g, P, y
    <2> DEFINE r == [t EXCEPT !.length = y]
               R == [length : {x, y}, offsets : {g}, positions : {P}, size : {bytes}]
    <2>1. t \in R
        OBVIOUS
    <2> HIDE DEF t
    <2>2. r \in R /\ r.length = y
        BY <2>1
    <2> HIDE DEF r
    <2>3. r = [length |-> y, offsets |-> g, positions |-> P, size |-> bytes]
        BY <2>2
    <2> QED
        BY <2>3 DEF r
<1> HIDE DEF own, bytes, g, P, y
<1> QED
    BY <1>6, <1>7, <1>8, <1>9, Zenon

\* A finished file opens, with the tables of its chunks.
LEMMA InitReads ==
    ASSUME StreamsOK, NEW d \in Seq(Cell), NEW chunks, Finished(d, chunks)
    PROVE  /\ init(d, setup).opens = TRUE /\ init(d, setup).ok = TRUE
           /\ init(d, setup).tables = [s \in DOMAIN setup |-> TableOf(chunks, s)]
<1> PICK K, n : K = Len(chunks) /\ n = Len(setup)
    OBVIOUS
<1> DEFINE x == [s \in 1 .. n |-> Num(At(d, 4 * s + 3))]
           U == PartsAt(chunks, K, x)
           end == readChunks(d, setup)
<1>1. Formats(d, x)
    BY DEF Formats
<1> HIDE DEF x
<1>2. end = PartEnd(d, U)
    BY <1>1, PartsRead
<1>3. ChunksOK(chunks)
    BY DEF Finished
<1>4. n \in Nat /\ n >= 1 /\ Streams = 1 .. n
    BY RoomForHeaders
<1>5. end.indexed = TRUE /\ end.tables = U /\ end.ok = TRUE
    <2> HIDE DEF end, U
    <2> QED
        BY <1>2 DEF PartEnd
<1>6. DOMAIN U = Streams /\ \A s \in Streams : U[s] = PartOf(chunks, s, K, x[s])
    BY DEF PartsAt
<1>7. U # <<>>
    <2>1. 1 \in DOMAIN U
        BY <1>4, <1>6
    <2> HIDE DEF U
    <2> QED
        BY <2>1
<1>8. \A s \in Streams : fixHeader(U[s], setup[s].sample) = TableOf(chunks, s)
    <2>1. \A s \in Streams : \A y :
             fixHeader(PartOf(chunks, s, Len(chunks), y), setup[s].sample)
               = TableOf(chunks, s)
        BY <1>3, TableFixed
    <2> HIDE DEF U
    <2> QED
        BY <1>6, <2>1
<1>9. At(d, 0) = Id("RIFF")
    <2>1. Reads(d, n, K, EndOf(chunks, K))
        BY HeaderReads
    <2> QED
        BY <2>1 DEF Reads
<1>10. Is(At(d, 0), "RIFF")
    BY <1>9, NamesDiffer
<1>11. init(d, setup)
         = [opens |-> Is(At(d, 0), "RIFF") /\ U # <<>>, ok |-> end.ok,
            tables |-> [s \in DOMAIN U |-> fixHeader(U[s], setup[s].sample)]]
    <2> DEFINE tb == IF end.indexed THEN end.tables
                     ELSE reconstructIndexChunk(d, setup, end.tables, end.movie)
    <2>1. tb = U
        <3> HIDE DEF end, U
        <3> QED
            BY <1>5
    <2>2. init(d, setup)
            = [opens |-> Is(At(d, 0), "RIFF") /\ end.tables # <<>>, ok |-> end.ok,
               tables |-> [s \in DOMAIN tb |-> fixHeader(tb[s], setup[s].sample)]]
        BY DEF init, Result
    <2> HIDE DEF end, U, tb
    <2> QED
        BY <1>5, <2>1, <2>2, Zenon
<1> HIDE DEF U, end
<1> PICK F, A, B, C :
        /\ F = init(d, setup) /\ A = (Is(At(d, 0), "RIFF") /\ U # <<>>) /\ B = end.ok
        /\ C = [s \in DOMAIN U |-> fixHeader(U[s], setup[s].sample)]
    OBVIOUS
<1>12. F.opens = A /\ F.ok = B /\ F.tables = C
    <2>1. F = [opens |-> A, ok |-> B, tables |-> C]
        BY <1>11, Zenon
    <2> QED
        BY ONLY <2>1
<1>13. init(d, setup).opens = TRUE
    BY <1>7, <1>10, <1>12, Zenon
<1>14. init(d, setup).ok = TRUE
    BY <1>5, <1>12, Zenon
<1>15. init(d, setup).tables = [s \in DOMAIN setup |-> TableOf(chunks, s)]
    <2>1. init(d, setup).tables = [s \in DOMAIN U |-> fixHeader(U[s], setup[s].sample)]
        BY <1>12, Zenon
    <2>2. DOMAIN U = DOMAIN setup
        BY <1>6 DEF Streams
    <2>3. [s \in DOMAIN setup |-> fixHeader(U[s], setup[s].sample)]
            = [s \in DOMAIN setup |-> TableOf(chunks, s)]
        BY <1>8 DEF Streams
    <2> QED
        BY <2>1, <2>2, <2>3, Zenon
<1> QED
    BY <1>13, <1>14, <1>15

\* What a stream that does not encode was given is there as it was given.
LEMMA PayloadRead ==
    ASSUME CellsFit, StreamsOK, NEW f, f.disk \in Seq(Cell), Finished(f.disk, f.chunks),
           NEW k \in 1 .. Len(f.chunks), setup[f.chunks[k].stream].encoder = FALSE
    PROVE  DataOf(f, k) = Payload(f.chunks[k], f.chunks[k].number)
<1> PICK d, chunks, c, K : /\ d = f.disk /\ chunks = f.chunks /\ c = chunks[k]
                           /\ K = Len(chunks)
    OBVIOUS
<1> PICK b, z, m : b = BeginOf(chunks, k) /\ z = c.size /\ m = b + 2
    OBVIOUS
<1>1. d \in Seq(Cell) /\ Finished(d, chunks) /\ k \in 1 .. K /\ ChunksOK(chunks)
    BY DEF Finished
<1>2. /\ K \in Nat /\ c \in Chunk /\ z \in Nat
      /\ \A i \in 0 .. K : EndOf(chunks, i) \in Nat
      /\ \A i \in 1 .. K : \A j \in 1 .. chunks[i].size :
             BeginOf(chunks, i) + 2 + j \in HeaderSize + 1 .. EndOf(chunks, K)
    BY <1>1, PlaceFacts
<1>3. b \in Nat /\ m \in Nat
    <2>1. k - 1 \in 0 .. K
        BY <1>1, <1>2
    <2> QED
        BY <1>2, <2>1 DEF BeginOf
<1>4. EndOf(chunks, K) \in Nat /\ EndOf(chunks, K) <= Len(d)
    <2>1. Reads(d, Len(setup), K, EndOf(chunks, K))
        BY <1>1, HeaderReads
    <2>2. K \in Nat /\ EndOf(chunks, K) \in Nat /\ Len(d) = EndOf(chunks, K) + 2 + 4 * K
        BY <2>1 DEF Reads
    <2> QED
        BY <2>2
<1>5. m + z <= Len(d)
    <2>1. EndOf(chunks, k) <= EndOf(chunks, K) /\ EndOf(chunks, k) = b + 2 + Even(z)
        <3>1. \A i \in 1 .. K : chunks[i].size \in Nat
            BY <1>1, PlaceFacts
        <3>2. \A i \in 1 .. K :
                EndOf(chunks, i) = EndOf(chunks, i - 1) + 2 + Even(chunks[i].size)
            BY <1>2, <3>1, EndSteps
        <3>3. \A i \in 0 .. K : EndOf(chunks, i) <= EndOf(chunks, K)
            BY <1>1, PlaceFacts
        <3> QED
            BY <1>1, <3>2, <3>3 DEF BeginOf
    <2>2. Even(z) \in Nat /\ Even(z) >= z
        BY <1>2, EvenIsNat
    <2>3. PICK y : y = Even(z)
        OBVIOUS
    <2>4. PICK e1 : e1 = EndOf(chunks, k)
        OBVIOUS
    <2>5. e1 = b + 2 + y /\ y \in Nat /\ y >= z /\ m = b + 2
        BY <2>1, <2>2, <2>3, <2>4
    <2>6. PICK l, E : l = Len(d) /\ E = EndOf(chunks, K)
        OBVIOUS
    <2>7. E \in Nat /\ E <= l /\ e1 <= E /\ l \in Nat
        BY <1>1, <1>4, <2>1, <2>4, <2>6
    <2>8. m + z <= l
        BY ONLY <1>2, <1>3, <2>5, <2>7
    <2> QED
        BY <2>6, <2>8
<1> PICK p : p = Payload(c, c.number)
    OBVIOUS
<1>6. c.number \in Nat /\ c.number \in Int
    BY <1>2 DEF Chunk
<1>7. p \in Seq(Cell) /\ Len(p) = z /\ \A i \in 1 .. z : p[i] = <<"byte", c.number>>
    <2>1. p \in Seq(Cell)
        BY <1>2, <1>6, PartsFit
    <2>2. p = [i \in 1 .. z |-> <<"byte", c.number>>]
        BY DEF Payload
    <2> QED
        BY <1>2, <2>2, <2>1
<1> PICK r : r = SubSeq(d, m + 1, m + z)
    OBVIOUS
<1>8. r \in Seq(Cell) /\ Len(r) = z /\ \A i \in 1 .. z : r[i] = d[m + i]
    <2>1. d \in Seq(Cell) /\ m \in Nat /\ z \in Nat /\ m + z <= Len(d)
        BY <1>1, <1>2, <1>3, <1>5
    <2>2. LET q == SubSeq(d, m + 1, m + z)
          IN  /\ q \in Seq(Cell) /\ Len(q) = z
              /\ \A i \in 1 .. z : q[i] = d[m + i]
        BY ONLY <2>1, PartFacts
    <2> QED
        BY <2>2
<1>9. \A i \in 1 .. z : d[m + i] = <<"byte", c.number>>
    <2>1. Held(d, chunks)
        BY <1>1 DEF Finished
    <2>2. setup[chunks[k].stream].encoder = FALSE
        OBVIOUS
    <2>3. \A i \in 1 .. chunks[k].size :
              d[BeginOf(chunks, k) + 2 + i] = <<"byte", chunks[k].number>>
        BY <1>1, <2>1, <2>2 DEF Held
    <2>4. m = BeginOf(chunks, k) + 2 /\ z = chunks[k].size /\ c = chunks[k]
        OBVIOUS
    <2> QED
        BY <2>3, <2>4, Zenon
<1>10. r = p
    <2>1. /\ r \in Seq(Cell) /\ p \in Seq(Cell) /\ Len(r) = Len(p)
          /\ \A i \in 1 .. Len(r) : r[i] = p[i]
        <3>1. \A i \in 1 .. z : r[i] = p[i]
            BY ONLY <1>7, <1>8, <1>9, Zenon
        <3> QED
            BY ONLY <1>7, <1>8, <3>1
    <2> QED
        BY ONLY <2>1, SameFiles
<1>11. DataOf(f, k) = r
    <2>1. m + 1 = b + 3 /\ m + z = b + 2 + z
        BY <1>2, <1>3
    <2>2. DataOf(f, k) = SubSeq(d, b + 3, b + 2 + z)
        BY DEF DataOf
    <2> QED
        BY <2>1, <2>2
<1> QED
    BY <1>10, <1>11

LEMMA FinishedReadsBack ==
    ASSUME CellsFit, StreamsOK, NEW f, f.disk \in Seq(Cell), Finished(f.disk, f.chunks)
    PROVE  ReadsBack(f)
<1>1. /\ init(f.disk, setup).opens = TRUE /\ init(f.disk, setup).ok = TRUE
      /\ init(f.disk, setup).tables = [s \in DOMAIN setup |-> TableOf(f.chunks, s)]
    BY InitReads
<1>2. DOMAIN f.chunks = 1 .. Len(f.chunks) /\ ChunksOK(f.chunks)
    <2>1. ChunksOK(f.chunks)
        BY DEF Finished
    <2> QED
        BY <2>1 DEF ChunksOK
<1>3. \A k \in DOMAIN f.chunks : setup[f.chunks[k].stream].encoder \in BOOLEAN
    <2>1. \A k \in 1 .. Len(f.chunks) : f.chunks[k] \in Chunk
        BY <1>2, PlaceFacts
    <2>2. \A s \in Streams : setup[s] \in Setup
        BY DEF StreamsOK, Streams
    <2>3. \A s \in Streams : setup[s].encoder \in BOOLEAN
        BY <2>2 DEF Setup
    <2>4. \A k \in 1 .. Len(f.chunks) : f.chunks[k].stream \in Streams
        BY <2>1 DEF Chunk
    <2> QED
        BY <1>2, <2>3, <2>4
<1>4. \A k \in DOMAIN f.chunks : setup[f.chunks[k].stream].encoder
             \/ DataOf(f, k) = Payload(f.chunks[k], f.chunks[k].number)
    BY <1>2, <1>3, PayloadRead
<1> QED
    BY <1>1, <1>4 DEF ReadsBack

-----------------------------------------------------------------------------
(***************************************************************************)
(* The writer and a reader of what it wrote.                               *)
(***************************************************************************)
LEMMA ReadingWrites ==
    ASSUME [AllNext]_allVars
    PROVE  [Next]_vars
BY DEF AllNext, Writing, Open, Read, SeekTo, Skip, allVars

\* A file that is finished by a step reads back.
LEMMA FinishReadsBack ==
    ASSUME CellsFit, FilingInv, FileInv', DeleteBuffer,
           NEW n \in DOMAIN files' \ DOMAIN files, files'[n].chunks # <<>>
    PROVE  ReadsBack(files'[n])
<1>1. FileInv /\ WriterInv /\ Pending /\ stored \in Seq(Chunk) /\ StreamsOK
    BY DEF FilingInv, DeleteBuffer, Doing, WriterInv
<1> PICK f : f = [disk |-> disk', chunks |-> stored]
    OBVIOUS
<1>2. FileOK(f) /\ disk' \in Seq(Cell)
    BY <1>1, DeletePends
<1>3. files \in Seq([disk : Seq(Cell), chunks : Seq(Chunk)])
    BY DEF FilingInv
<1>4. files' = Append(files, f) /\ f \in [disk : Seq(Cell), chunks : Seq(Chunk)]
    BY <1>1, <1>2 DEF DeleteBuffer
<1>5. files'[n] = f
    <2>1. DOMAIN files = 1 .. Len(files) /\ DOMAIN files' = 1 .. Len(files) + 1
          /\ Len(files) \in Nat /\ files'[Len(files) + 1] = f
        BY <1>3, <1>4
    <2>2. n = Len(files) + 1
        BY <2>1
    <2> QED
        BY <2>1, <2>2
<1>6. Finished(f.disk, f.chunks) /\ f.disk \in Seq(Cell)
    BY <1>2, <1>5 DEF FileOK
<1>7. ReadsBack(f)
    BY <1>1, <1>6, FinishedReadsBack
<1> QED
    BY <1>5, <1>7

\* A finished file opens, and its index gives back the chunks its streams were
\* given, for any chunks, streams and sizes (AviWrite.cpp, AviReadHandler.cpp).
THEOREM ReaderReadsBack ==
    ASSUME CellsFit
    PROVE  AllSpec => RoundTrip
<1>1. AllInit => FilingInv
    BY FilingInit DEF AllInit
<1>2. FilingInv /\ [AllNext]_allVars => FilingInv'
    BY FilingNext, ReadingWrites
<1>3. FilingInv /\ FilingInv' /\ [AllNext]_allVars =>
        [\A f \in DOMAIN files' \ DOMAIN files :
                        files'[f].chunks # <<>> => ReadsBack(files'[f])]_files
    <2> SUFFICES ASSUME FilingInv, FilingInv', [AllNext]_allVars, files' # files,
                        NEW f \in DOMAIN files' \ DOMAIN files, files'[f].chunks # <<>>
                 PROVE  ReadsBack(files'[f])
        OBVIOUS
    <2>1. DeleteBuffer
        BY FieldSteps, ReadingWrites
    <2>2. FileInv'
        BY DEF FilingInv
    <2> QED
        BY <2>1, <2>2, FinishReadsBack
<1> QED
    BY <1>1, <1>2, <1>3, PTL DEF AllSpec, RoundTrip

\* The table of a stream: a chunk at a time, in the order of their positions
Tabled(chunks, s, t, M) ==
    /\ t \in Table /\ M \in Nat /\ Len(t.offsets) = M
    /\ t.size = BytesBefore(chunks, s, M)
    /\ \A k \in 0 .. M : BytesBefore(chunks, s, k) \in Nat
    /\ BytesBefore(chunks, s, 0) = 0
    /\ IF setup[s].sample > 0
       THEN /\ Len(t.positions) = M
            /\ \A n \in 1 .. M : t.positions[n] = BytesBefore(chunks, s, n - 1)
       ELSE t.positions = <<>>

LEMMA TableHolds ==
    ASSUME StreamsOK, NEW chunks, ChunksOK(chunks), NEW s \in Streams
    PROVE  Tabled(chunks, s, TableOf(chunks, s), Len(OfStream(chunks, s, Len(chunks))))
<1> PICK N, z : N = Len(chunks) /\ z = setup[s].sample
    OBVIOUS
<1> PICK own : own = OfStream(chunks, s, N)
    OBVIOUS
<1> PICK M : M = Len(own)
    OBVIOUS
<1>1. z \in Nat
    <2>1. setup[s] \in Setup
        BY DEF StreamsOK, Streams
    <2> QED
        BY <2>1 DEF Setup
<1>2. /\ N \in Nat /\ \A k \in 1 .. N : chunks[k].size \in Nat
      /\ \A k \in 0 .. N : EndOf(chunks, k) \in Nat
    BY PlaceFacts
<1>3. own \in Seq(1 .. N) /\ M \in Nat /\ DOMAIN own = 1 .. M
    <2>1. N \in 0 .. N
        BY <1>2
    <2>2. \A k \in 0 .. N : OfStream(chunks, s, k) \in Seq(1 .. N)
        BY <1>2, OwnSteps, Zenon
    <2> QED
        BY <2>1, <2>2
<1>4. BytesBefore(chunks, s, 0) = 0 /\ \A k \in 0 .. M : BytesBefore(chunks, s, k) \in Nat
    BY <1>2, BytesSteps, Zenon
<1> PICK bytes : bytes = BytesBefore(chunks, s, M)
    OBVIOUS
<1> PICK l : l = IF z > 0 THEN bytes \div z ELSE M
    OBVIOUS
<1>5. bytes \in Nat /\ l \in Nat
    <2>1. \A a, b \in Nat : b > 0 => a \div b \in Nat
        OBVIOUS
    <2>2. bytes \in Nat
        BY <1>3, <1>4
    <2> QED
        BY <1>1, <1>3, <2>1, <2>2
<1> DEFINE g == [n \in 1 .. M |-> BeginOf(chunks, own[n])
                                    + IF chunks[own[n]].key THEN 1 ELSE 0]
           p == [n \in 1 .. M |-> BytesBefore(chunks, s, n - 1)]
<1>6. g \in Seq(Nat) /\ Len(g) = M
    <2>1. ASSUME NEW n \in 1 .. M PROVE g[n] \in Nat
        <3>1. own[n] \in 1 .. N /\ own[n] - 1 \in 0 .. N
            BY <1>2, <1>3
        <3>2. BeginOf(chunks, own[n]) \in Nat
            BY <1>2, <3>1 DEF BeginOf
        <3> QED
            BY <3>2
    <2>2. g \in [1 .. M -> Nat]
        BY <2>1
    <2> QED
        BY <1>3, <2>2
<1>7. p \in Seq(Nat) /\ Len(p) = M /\ \A n \in 1 .. M : p[n] = BytesBefore(chunks, s, n - 1)
    <2>1. ASSUME NEW n \in 1 .. M PROVE p[n] \in Nat
        <3>1. n - 1 \in 0 .. M
            BY <1>3
        <3> QED
            BY <1>4, <3>1
    <2>2. p \in [1 .. M -> Nat]
        BY <2>1
    <2> QED
        BY <1>3, <2>2
<1> DEFINE P == IF z = 0 THEN <<>> ELSE p
<1>8. P \in Seq(Nat)
    BY <1>7
<1> PICK t : t = TableOf(chunks, s)
    OBVIOUS
<1>9. t = [length |-> l, offsets |-> g, positions |-> P, size |-> bytes]
    BY <1>3 DEF TableOf
<1>10. /\ t.offsets = g /\ t.size = bytes /\ t.positions = P
       /\ t \in Table
    <2> HIDE DEF g, P
    <2> QED
        BY <1>5, <1>6, <1>8, <1>9 DEF Table
<1> HIDE DEF g, p
<1>11. IF z > 0 THEN /\ Len(t.positions) = M
                    /\ \A n \in 1 .. M : t.positions[n] = BytesBefore(chunks, s, n - 1)
       ELSE t.positions = <<>>
    BY <1>1, <1>7, <1>10
<1>12. Tabled(chunks, s, t, M)
    BY <1>3, <1>4, <1>6, <1>10, <1>11, Zenon DEF Tabled
<1> QED
    BY <1>12

\* A stream that is opened: its table and its position
LEMMA OpensWell ==
    ASSUME StreamsOK, NEW chunks, ChunksOK(chunks), NEW s \in Streams,
           Opens(TableOf(chunks, s), setup[s].sample)
    PROVE  StreamInv'
<1> PICK N, z : N = Len(chunks) /\ z = setup[s].sample
    OBVIOUS
<1> PICK own, t : own = OfStream(chunks, s, N) /\ t = TableOf(chunks, s)
    OBVIOUS
<1> PICK M : M = Len(own)
    OBVIOUS
<1>1. /\ t \in Table /\ M \in Nat /\ Len(t.offsets) = M /\ t.size = BytesBefore(chunks, s, M)
      /\ \A k \in 0 .. M : BytesBefore(chunks, s, k) \in Nat
      /\ BytesBefore(chunks, s, 0) = 0
      /\ IF z > 0 THEN /\ Len(t.positions) = M
                       /\ \A n \in 1 .. M : t.positions[n] = BytesBefore(chunks, s, n - 1)
         ELSE t.positions = <<>>
    <2>1. Tabled(chunks, s, t, M)
        BY TableHolds
    <2> QED
        BY <2>1 DEF Tabled
<1>2. z \in Nat
    <2>1. setup[s] \in Setup
        BY DEF StreamsOK, Streams
    <2> QED
        BY <2>1 DEF Setup
<1>3. table' = t /\ sample' = z /\ chunk' = 0 /\ position' = 0 /\ missed' = 0
    BY DEF Opens
<1>4. StreamTypeOK'
    BY <1>1, <1>2, <1>3 DEF StreamTypeOK
<1>5. t.offsets \in Seq(Nat) /\ t.positions \in Seq(Nat)
    BY <1>1 DEF Table
<1>6. \A n \in 1 .. M : n - 1 \in 0 .. M
    BY <1>1
<1>7. Begun'
    <2>1. z > 0 => Len(t.positions) = Len(t.offsets)
        BY <1>1
    <2>2. t.offsets = <<>> => t.size = 0
        BY <1>1, <1>5
    <2>3. t.positions # <<>> => t.positions[1] = 0
        <3>1. CASE z > 0
            <4> SUFFICES ASSUME t.positions # <<>> PROVE t.positions[1] = 0
                OBVIOUS
            <4>1. 1 \in 1 .. M /\ 1 - 1 = 0
                BY <1>1, <1>5, <3>1
            <4> QED
                BY <1>1, <3>1, <4>1
        <3> QED
            BY <1>1, <3>1
    <2> QED
        BY <1>3, <2>1, <2>2, <2>3 DEF Begun
<1>8. Ordered'
    <2>1. CASE z > 0
        <3>1. \A j, k \in 0 .. M : j <= k =>
                 BytesBefore(chunks, s, j) <= BytesBefore(chunks, s, k)
            <4>1. N \in Nat /\ \A k \in 1 .. N : chunks[k].size \in Nat
                BY PlaceFacts
            <4> QED
                BY <4>1, BytesGrow, Zenon
        <3>2. ASSUME NEW i \in 1 .. M, NEW j \in 1 .. M, i <= j
              PROVE  t.positions[i] <= t.positions[j] /\ t.positions[j] <= t.size
            <4>1. /\ i - 1 \in 0 .. M /\ j - 1 \in 0 .. M /\ M \in 0 .. M
                  /\ i - 1 <= j - 1 /\ j - 1 <= M
                BY <1>1, <3>2
            <4>2. /\ BytesBefore(chunks, s, i - 1) <= BytesBefore(chunks, s, j - 1)
                  /\ BytesBefore(chunks, s, j - 1) <= BytesBefore(chunks, s, M)
                BY <3>1, <4>1
            <4> QED
                BY <1>1, <2>1, <4>2
        <3>3. \A i, j \in 1 .. Len(t.positions) :
                i <= j => t.positions[i] <= t.positions[j] /\ t.positions[j] <= t.size
            BY <1>1, <2>1, <3>2
        <3> QED
            BY <1>3, <3>3 DEF Ordered
    <2>2. CASE ~(z > 0)
        <3>1. Len(t.positions) = 0
            BY <1>1, <2>2
        <3> QED
            BY <1>3, <3>1 DEF Ordered
    <2> QED
        BY <2>1, <2>2
<1>9. PositionKept'
    <2>1. chunk' < Chunks' =>
            position' = IF sample' > 0 THEN table'.positions[chunk' + 1] ELSE chunk'
        <3>1. Chunks' = M
            BY <1>1, <1>3 DEF Chunks
        <3>2. CASE z > 0
            <4> SUFFICES ASSUME M > 0 PROVE position' = table'.positions[chunk' + 1]
                BY <1>3, <3>1, <3>2
            <4>1. 1 \in 1 .. M /\ 1 - 1 = 0 /\ 0 + 1 = 1
                BY <1>1
            <4> QED
                BY <1>1, <1>3, <3>2, <4>1
        <3> QED
            BY <1>3, <3>2
    <2>2. NotGiven' = chunk'
        BY <1>3 DEF NotGiven
    <2> QED
        BY <2>1, <2>2 DEF PositionKept
<1> QED
    BY <1>4, <1>7, <1>8, <1>9 DEF StreamInv

\* While a stream is read, the writer is gone, and the table is that of the
\* chunks the stream was given.
Followed ==
    opened # <<0, 0>> =>
        /\ phase # "open" /\ opened[1] \in DOMAIN files /\ opened[2] \in Streams
        /\ ChunksOK(Here)
        /\ table = TableOf(Here, opened[2]) /\ sample = setup[opened[2]].sample

ReadingInv == FilingInv /\ StreamInv /\ Followed

\* The chunks of a file do not depend on what the reader does.
LEMMA FollowedStays ==
    ASSUME Followed, setup' = setup, files' = files,
           phase' = "open" => phase = "open", UNCHANGED <<table, sample, opened>>
    PROVE  Followed'
<1> PICK o, F : o = opened /\ F = files
    OBVIOUS
<1>1. \A c : ChunksOK(c)' <=> ChunksOK(c)
    BY SamePlaces
<1>2. \A c, s : TableOf(c, s)' = TableOf(c, s)
    BY DEF TableOf, BytesBefore, OfStream, BeginOf, EndOf
<1>3. Here' = Here /\ Streams' = Streams
    BY DEF Here, Streams
<1> QED
    BY <1>1, <1>2, <1>3 DEF Followed

LEMMA WritingFollows ==
    ASSUME CellsFit, ReadingInv, Writing
    PROVE  ReadingInv'
<1>1. Next /\ UNCHANGED <<readVars, opened>> /\ FilingInv /\ StreamInv /\ Followed
    BY DEF Writing, ReadingInv
<1>2. FilingInv'
    BY <1>1, FilingNext
<1>3. StreamInv'
    BY <1>1 DEF readVars, StreamInv, StreamTypeOK, Begun, Ordered, PositionKept,
                NotGiven, Chunks
<1>4. Followed'
    <2>1. CASE opened = <<0, 0>>
        BY <1>1, <2>1 DEF Followed
    <2>2. CASE opened # <<0, 0>>
        <3>1. phase # "open"
            BY <1>1, <2>2 DEF Followed
        <3>2. files' = files
            <4>1. ~DeleteBuffer
                BY <3>1 DEF DeleteBuffer, Doing
            <4> QED
                BY <1>1, <4>1, FieldSteps
        <3> QED
            BY <1>1, <3>2, FieldSteps, FollowedStays DEF readVars
    <2> QED
        BY <2>1, <2>2
<1> QED
    BY <1>2, <1>3, <1>4 DEF ReadingInv

LEMMA TableRead ==
    ASSUME StreamsOK, NEW d \in Seq(Cell), NEW chunks, Finished(d, chunks),
           NEW i \in DOMAIN setup
    PROVE  init(d, setup).tables[i] = TableOf(chunks, i)
<1>1. /\ init(d, setup).opens = TRUE /\ init(d, setup).ok = TRUE
      /\ init(d, setup).tables = [s \in DOMAIN setup |-> TableOf(chunks, s)]
    BY InitReads
<1> QED
    BY <1>1

LEMMA OpenFollows ==
    ASSUME CellsFit, ReadingInv, Open
    PROVE  ReadingInv'
<1>1. FilingInv /\ StreamsOK /\ files \in Seq([disk : Seq(Cell), chunks : Seq(Chunk)])
      /\ FilesOK
    BY DEF ReadingInv, FilingInv, WriterInv
<1>2. PICK f \in DOMAIN files, s \in DOMAIN setup :
             /\ init(files[f].disk, setup).opens
             /\ Opens(init(files[f].disk, setup).tables[s], setup[s].sample)
             /\ opened' = <<f, s>>
    BY DEF Open
<1>3. phase = "closed" /\ UNCHANGED vars
    BY DEF Open
<1> PICK d, chunks : d = files[f].disk /\ chunks = files[f].chunks
    OBVIOUS
<1>4. d \in Seq(Cell) /\ FileOK(files[f]) /\ f \in 1 .. Len(files) /\ s \in Streams
    <2> DEFINE S == [disk : Seq(Cell), chunks : Seq(Chunk)]
    <2>0. files \in Seq(S) /\ f \in DOMAIN files
        BY <1>1
    <2>1. f \in 1 .. Len(files) /\ files[f] \in S
        <3> HIDE DEF S
        <3> QED
            BY ONLY <2>0
    <2>2. FileOK(files[f])
        BY <1>1, <2>1 DEF FilesOK
    <2>3. s \in Streams
        BY DEF Streams
    <2> QED
        BY <2>1, <2>2, <2>3
<1>5. Finished(d, chunks)
    <2> SUFFICES ASSUME chunks = <<>> PROVE FALSE
        BY <1>4 DEF FileOK
    <2>1. Nothing(d)
        BY <1>4 DEF FileOK
    <2>2. At(d, 0) # Id("RIFF")
        BY <1>4, <2>1 DEF At, Nothing
    <2>3. ~init(d, setup).opens
        <3>1. Is(At(d, 0), "RIFF") = FALSE
            BY <2>2 DEF Is, Id
        <3> DEFINE end == readChunks(d, setup)
                   tables == IF end.indexed THEN end.tables
                             ELSE reconstructIndexChunk(d, setup, end.tables, end.movie)
        <3>2. init(d, setup) = [opens |-> Is(At(d, 0), "RIFF") /\ end.tables # <<>>,
                                ok |-> end.ok,
                                tables |-> [i \in DOMAIN tables |->
                                              fixHeader(tables[i], setup[i].sample)]]
            BY DEF init, Result
        <3> HIDE DEF end, tables
        <3> PICK A, B, C, F :
                /\ A = (Is(At(d, 0), "RIFF") /\ end.tables # <<>>) /\ B = end.ok
                /\ C = [i \in DOMAIN tables |-> fixHeader(tables[i], setup[i].sample)]
                /\ F = init(d, setup)
            OBVIOUS
        <3>3. F = [opens |-> A, ok |-> B, tables |-> C]
            BY <3>2, Zenon
        <3>4. F.opens = A
            BY ONLY <3>3
        <3> QED
            BY <3>1, <3>4
    <2> QED
        BY <1>2, <2>3
<1>6. ChunksOK(chunks)
    BY <1>5 DEF Finished
<1>7. init(d, setup).tables[s] = TableOf(chunks, s)
    <2>1. StreamsOK /\ d \in Seq(Cell) /\ Finished(d, chunks) /\ s \in DOMAIN setup
        BY <1>1, <1>2, <1>4, <1>5
    <2> QED
        BY <2>1, TableRead
<1>8. Opens(TableOf(chunks, s), setup[s].sample)
    BY <1>2, <1>7
<1>9. StreamInv'
    BY <1>1, <1>4, <1>6, <1>8, OpensWell
<1>10. FilingInv'
    BY <1>1, <1>3, FilingNext
<1>11. Followed'
    <2>1. setup' = setup /\ files' = files /\ phase' = phase
        BY <1>3 DEF vars, streamVars, writerVars, historyVars
    <2>2. \A c : ChunksOK(c)' <=> ChunksOK(c)
        BY <2>1, SamePlaces
    <2>3. \A c, i : TableOf(c, i)' = TableOf(c, i)
        BY <2>1 DEF TableOf, BytesBefore, OfStream, BeginOf, EndOf
    <2>4. opened'[1] = f /\ opened'[2] = s
        BY <1>2
    <2>5. Here' = chunks
        BY <2>1, <2>4 DEF Here
    <2>6. table' = TableOf(chunks, s) /\ sample' = setup[s].sample
        BY <1>8 DEF Opens
    <2>7. phase' # "open" /\ f \in DOMAIN files' /\ s \in Streams'
        BY <1>3, <1>4, <2>1 DEF Streams
    <2>8. ChunksOK(chunks)' /\ TableOf(chunks, s)' = TableOf(chunks, s)
        BY <1>6, <2>2, <2>3
    <2> QED
        BY <2>1, <2>4, <2>5, <2>6, <2>7, <2>8 DEF Followed
<1> QED
    BY <1>9, <1>10, <1>11 DEF ReadingInv

\* A step of the reader
LEMMA StreamMoves ==
    ASSUME StreamInv, Read \/ SeekTo \/ Skip \/ UNCHANGED readVars
    PROVE  StreamInv'
<1>1. StreamTypeOK /\ Begun
    BY DEF StreamInv
<1>2. chunk \in Nat /\ position \in Nat /\ GetLength \in Nat
    BY <1>1, LengthIsNat DEF StreamTypeOK
<1>3. ASSUME NEW pos \in Nat, Seek(pos) PROVE StreamInv'
    <2>1. find(pos) \in Nat
        BY <1>1, FindIsNat
    <2>2. /\ chunk' \in Nat /\ position' \in PositionsOf(chunk')
          /\ missed' = 0 /\ UNCHANGED <<table, sample>>
        BY <1>3, <2>1 DEF Seek
    <2> QED
        BY <2>2, MoveKeeps
<1>4. CASE Read
    BY <1>4, ReadKeeps DEF Read
<1>5. CASE SeekTo
    <2>1. PICK pos \in 0 .. GetLength + 1 : Seek(pos)
        BY <1>5 DEF SeekTo
    <2>2. pos \in Nat
        BY <1>2
    <2> QED
        BY <1>3, <2>1, <2>2
<1>6. CASE Skip
    <2>1. position + 1 \in Nat /\ Seek(position + 1)
        BY <1>2, <1>6 DEF Skip, SkipFrame
    <2> QED
        BY <1>3, <2>1
<1>7. CASE UNCHANGED readVars
    BY <1>7 DEF readVars, StreamInv, StreamTypeOK, Begun, Ordered, PositionKept,
                NotGiven, Chunks
<1> QED
    BY <1>4, <1>5, <1>6, <1>7

LEMMA ReadFollows ==
    ASSUME CellsFit, ReadingInv, Read \/ SeekTo \/ Skip \/ UNCHANGED allVars
    PROVE  ReadingInv'
<1>1. FilingInv /\ StreamInv /\ Followed
    BY DEF ReadingInv
<1>2. UNCHANGED <<vars, opened, table, sample>>
    BY DEF Read, SeekTo, Skip, ReadPacket, SkipFrame, Seek, allVars, readVars
<1>3. StreamInv'
    BY <1>1, StreamMoves DEF allVars
<1>4. FilingInv'
    BY <1>1, <1>2, FilingNext
<1>5. Followed'
    <2>1. setup' = setup /\ files' = files /\ phase' = phase
        BY <1>2 DEF vars, streamVars, writerVars, historyVars
    <2> QED
        BY <1>1, <1>2, <2>1, FollowedStays
<1> QED
    BY <1>3, <1>4, <1>5 DEF ReadingInv

LEMMA ReadingInit ==
    ASSUME AllInit
    PROVE  ReadingInv
<1>1. FilingInv
    BY FilingInit DEF AllInit
<1>2. Followed
    BY DEF AllInit, Followed
<1>3. StreamInv
    <2> PICK e : e = <<>>
        OBVIOUS
    <2>1. e \in Seq(Nat) /\ Len(e) = 0
        OBVIOUS
    <2>2. /\ table.length = 0 /\ table.offsets = e /\ table.positions = e
          /\ table.size = 0 /\ table = [length |-> 0, offsets |-> e,
                                        positions |-> e, size |-> 0]
          /\ sample = 0 /\ chunk = 0 /\ position = 0 /\ missed = 0
        BY DEF AllInit, EmptyTable
    <2>3. StreamTypeOK
        BY <2>1, <2>2 DEF StreamTypeOK, Table
    <2>4. Begun /\ Ordered
        BY <2>1, <2>2 DEF Begun, Ordered
    <2>5. PositionKept
        BY <2>1, <2>2 DEF PositionKept, NotGiven, Chunks
    <2> QED
        BY <2>3, <2>4, <2>5 DEF StreamInv
<1> QED
    BY <1>1, <1>2, <1>3 DEF ReadingInv

\* A stream of a file that is read has the table of the chunks it was given, and
\* stays at one of them or behind the last (AviReadHandler.cpp, AviReadStream.cpp).
THEOREM ReaderFollows ==
    ASSUME CellsFit
    PROVE  AllSpec => []ReadingInv
<1>1. AllInit => ReadingInv
    BY ReadingInit
<1>2. ReadingInv /\ [AllNext]_allVars => ReadingInv'
    BY WritingFollows, OpenFollows, ReadFollows DEF AllNext
<1> QED
    BY <1>1, <1>2, PTL DEF AllSpec

\* The position a stream reports is the bytes, or the chunks, that were given to
\* it before the first chunk it has not given since the last packet or seek
\* (AviReadStream.cpp, lines 234 to 260): reads that fail do not move it.
THEOREM PositionIsTrue ==
    ASSUME CellsFit
    PROVE  AllSpec => []PositionTrue
<1>1. ReadingInv => PositionTrue
    <2> PICK c : c = NotGiven
        OBVIOUS
    <2> SUFFICES ASSUME ReadingInv, opened # <<0, 0>>, c < Chunks
                 PROVE  position = IF sample > 0 THEN BytesBefore(Here, opened[2], c)
                                   ELSE c
        BY DEF PositionTrue
    <2> PICK s, chunks, t : s = opened[2] /\ chunks = Here /\ t = table
        OBVIOUS
    <2> PICK M : M = Len(OfStream(chunks, s, Len(chunks)))
        OBVIOUS
    <2>1. /\ StreamsOK /\ StreamInv /\ s \in Streams /\ ChunksOK(chunks)
          /\ t = TableOf(chunks, s) /\ sample = setup[s].sample
        BY DEF ReadingInv, FilingInv, WriterInv, Followed
    <2>2. /\ M \in Nat /\ Len(t.offsets) = M
          /\ IF sample > 0
             THEN \A n \in 1 .. M : t.positions[n] = BytesBefore(chunks, s, n - 1)
             ELSE t.positions = <<>>
        <3>1. Tabled(chunks, s, t, M)
            BY <2>1, TableHolds
        <3> QED
            BY <2>1, <3>1 DEF Tabled
    <2>3. position = IF sample > 0 THEN t.positions[c + 1] ELSE c
        BY <2>1 DEF StreamInv, PositionKept
    <2>4. c \in Nat /\ c < M
        BY <2>1, <2>2 DEF StreamInv, StreamTypeOK, NotGiven, Chunks
    <2>5. c + 1 \in 1 .. M /\ (c + 1) - 1 = c
        BY <2>2, <2>4
    <2> QED
        BY <2>2, <2>3, <2>5
<1> QED
    BY <1>1, ReaderFollows, PTL

\* What a reader does is no step of the writer: what is proved of the writer on its
\* own holds while its files are read.
THEOREM ReaderOnlyReads == AllSpec => Spec
<1>1. AllInit => Init
    BY DEF AllInit
<1>2. [AllNext]_allVars => [Next]_vars
    BY ReadingWrites
<1> QED
    BY <1>1, <1>2, PTL DEF AllSpec, Spec

\* A seek does what it promises in every stream of every file that is read
\* (AviReadStream.cpp, lines 270 to 303).
THEOREM ReaderSeeks ==
    ASSUME CellsFit
    PROVE  AllSpec => []SeekFindsChunk
<1>1. ReadingInv => SeekFindsChunk
    BY FindEnds DEF ReadingInv, StreamInv, SeekFindsChunk
<1> QED
    BY <1>1, ReaderFollows, PTL

-----------------------------------------------------------------------------
(***************************************************************************)
(* What is left of a file that was not finished: the ids and sizes of its  *)
(* chunks as far as it goes, and headers one of whose pieces may be older  *)
(* than the others.                                                        *)
(***************************************************************************)
ChunksLie(d, chunks) ==
    \A k \in 1 .. Len(chunks) :
        /\ BeginOf(chunks, k) + 1 <= Len(d) =>
               d[BeginOf(chunks, k) + 1] = ChunkId(chunks[k].stream)
        /\ BeginOf(chunks, k) + 2 <= Len(d) =>
               d[BeginOf(chunks, k) + 2] = Number(chunks[k].size)

\* The list of chunks, when the headers of the first k were written, or not yet
MovieLies(d, chunks) ==
    \/ d[HeaderSize - 1] = Number(0) /\ d[HeaderSize] = Number(0)
    \/ /\ d[HeaderSize - 1] = Id("movi")
       /\ \E k \in 1 .. Len(chunks) : d[HeaderSize] = Number(EndOf(chunks, k) - HeaderSize)

HeadsLie(d, n) ==
    /\ d[1] = Id("RIFF") /\ d[3] = Id("hdrl") /\ d[4] \in {Number(0), Number(4 * n)}
    /\ \A s \in 1 .. n : d[4 * s + 1] = Id("strl") /\ d[4 * s + 2] = Number(2)
    /\ d[4 * n + 5] = Id("JUNK") /\ d[4 * n + 6] = Number(HeaderSize - 8 - 4 * n)
    /\ \A i \in 1 .. HeaderSize : d[i][1] # "chunk"

Salvage(d, chunks) ==
    /\ ChunksOK(chunks) /\ HeaderSize <= Len(d) /\ Len(d) <= EndOf(chunks, Len(chunks))
    /\ ChunksLie(d, chunks) /\ MovieLies(d, chunks) /\ HeadsLie(d, Len(setup))

\* The same, by the positions the reader looks at; the list of chunks leads it to
\* chunk q + 1, and the chunks begin behind m.
Found(d, chunks, n, K, q, m) ==
    /\ n \in Nat /\ n >= 1 /\ K \in Nat /\ q \in 0 .. K /\ m \in {0, HeaderSize}
    /\ HeaderSize \in Nat /\ HeaderSize % 2 = 0 /\ 8 + 4 * n <= HeaderSize
    /\ Len(d) \in Nat /\ HeaderSize <= Len(d)
    /\ At(d, 0) = Id("RIFF") /\ At(d, 2) = Id("hdrl") /\ Num(At(d, 3)) \in {0, 4 * n}
    /\ \A s \in 1 .. n : At(d, 4 * s) = Id("strl") /\ Num(At(d, 4 * s + 1)) = 2
    /\ At(d, 4 * n + 4) = Id("JUNK")
    /\ Num(At(d, 4 * n + 5)) = HeaderSize - 8 - 4 * n
    /\ \/ m = 0 /\ q = 0 /\ At(d, HeaderSize - 2) = Number(0)
          /\ Num(At(d, HeaderSize - 1)) = 0
       \/ m = HeaderSize /\ q >= 1 /\ At(d, HeaderSize - 2) = Id("movi")
          /\ Num(At(d, HeaderSize - 1)) = EndOf(chunks, q) - HeaderSize

\* Where the chunks are, and what the reader finds there
Placed(d, chunks, K) ==
    /\ EndOf(chunks, 0) = HeaderSize /\ Len(d) <= EndOf(chunks, K)
    /\ \A k \in 0 .. K : /\ EndOf(chunks, k) \in Nat /\ EndOf(chunks, k) >= HeaderSize + 2 * k
                         /\ EndOf(chunks, k) % 2 = 0
    /\ \A k \in 1 .. K :
         /\ chunks[k].size \in Nat /\ chunks[k].size <= MaxPacketSize
         /\ chunks[k].stream \in Streams
         /\ EndOf(chunks, k) = EndOf(chunks, k - 1) + 2 + Even(chunks[k].size)
         /\ EndOf(chunks, k - 1) < Len(d) =>
              At(d, EndOf(chunks, k - 1)) = ChunkId(chunks[k].stream)
         /\ EndOf(chunks, k - 1) + 1 < Len(d) =>
              Num(At(d, EndOf(chunks, k - 1) + 1)) = chunks[k].size

LEMMA SalvagePlaced ==
    ASSUME NEW d \in Seq(Cell), NEW chunks, Salvage(d, chunks),
           NEW K, K = Len(chunks)
    PROVE  K \in Nat /\ Placed(d, chunks, K)
<1>1. /\ ChunksOK(chunks) /\ Len(d) <= EndOf(chunks, K) /\ ChunksLie(d, chunks)
    BY DEF Salvage
<1>2. K \in Nat /\ \A k \in 1 .. K : chunks[k].size \in Nat
    BY <1>1, PlaceFacts
<1>3. /\ EndOf(chunks, 0) = HeaderSize
      /\ \A k \in 0 .. K : EndOf(chunks, k) \in Nat
      /\ \A k \in 1 .. K :
            EndOf(chunks, k) = EndOf(chunks, k - 1) + 2 + Even(chunks[k].size)
    BY <1>2, EndSteps
<1>4. \A k \in 0 .. K : EndOf(chunks, k) % 2 = 0
    BY <1>2, EndEven
<1>5. \A k \in 0 .. K : EndOf(chunks, k) >= HeaderSize + 2 * k
    <2> DEFINE f == [k \in 0 .. K |-> EndOf(chunks, k) - 2 * k]
    <2>1. \A k \in 0 .. K : f[k] \in Int
        BY <1>3
    <2>2. \A k \in 1 .. K : f[k - 1] <= f[k]
        <3> TAKE k \in 1 .. K
        <3>1. k - 1 \in 0 .. K /\ k \in 0 .. K
            BY <1>2
        <3>2. PICK e \in Nat : e = Even(chunks[k].size)
            BY <1>2, EvenIsNat
        <3>3. EndOf(chunks, k) = EndOf(chunks, k - 1) + 2 + e /\ EndOf(chunks, k - 1) \in Nat
            BY <1>3, <3>1, <3>2
        <3> QED
            BY <3>1, <3>3
    <2>3. \A k \in 0 .. K : f[k] = EndOf(chunks, k) - 2 * k
        OBVIOUS
    <2> HIDE DEF f
    <2>4. \A j, k \in 0 .. K : j <= k => f[j] <= f[k]
        BY <1>2, <2>1, <2>2, Climbs
    <2> SUFFICES ASSUME NEW k \in 0 .. K PROVE EndOf(chunks, k) >= HeaderSize + 2 * k
        OBVIOUS
    <2>5. 0 \in 0 .. K /\ 0 <= k
        BY <1>2
    <2>6. f[0] <= f[k] /\ f[0] = EndOf(chunks, 0) - 2 * 0 /\ f[k] = EndOf(chunks, k) - 2 * k
        BY <2>3, <2>4, <2>5
    <2>7. PICK e : e = EndOf(chunks, k)
        OBVIOUS
    <2>8. e \in Nat /\ EndOf(chunks, 0) = HeaderSize /\ HeaderSize \in Nat /\ k \in Nat
        BY <1>2, <1>3, <2>7, HeaderAssumption
    <2>9. HeaderSize - 2 * 0 <= e - 2 * k
        BY <2>6, <2>7, <2>8
    <2> QED
        BY ONLY <2>7, <2>8, <2>9
<1>6. \A k \in 1 .. K : ChunkOK(chunks[k])
    BY <1>1 DEF ChunksOK
<1>7. \A k \in 1 .. K : chunks[k].size <= MaxPacketSize /\ chunks[k].stream \in Streams
    BY <1>6 DEF ChunkOK, Chunk
<1>8. ASSUME NEW k \in 1 .. K
      PROVE  /\ EndOf(chunks, k - 1) < Len(d) =>
                  At(d, EndOf(chunks, k - 1)) = ChunkId(chunks[k].stream)
             /\ EndOf(chunks, k - 1) + 1 < Len(d) =>
                  Num(At(d, EndOf(chunks, k - 1) + 1)) = chunks[k].size
    <2> PICK b, l : b = EndOf(chunks, k - 1) /\ l = Len(d)
        OBVIOUS
    <2>1. b \in Nat /\ l \in Nat
        <3>1. k - 1 \in 0 .. K
            BY <1>2
        <3> QED
            BY <1>3, <3>1
    <2>2. /\ b + 1 <= l => d[b + 1] = ChunkId(chunks[k].stream)
          /\ b + 2 <= l => d[b + 2] = Number(chunks[k].size)
        BY <1>1 DEF ChunksLie, BeginOf
    <2>3. \A p \in Nat : p < l => At(d, p) = d[p + 1]
        BY DEF At
    <2>4. b < l => At(d, b) = d[b + 1] /\ b + 1 <= l
        BY <2>1, <2>3
    <2>5. b + 1 < l => At(d, b + 1) = d[b + 2] /\ b + 2 <= l
        <3>1. b + 1 \in Nat /\ (b + 1) + 1 = b + 2
            BY <2>1
        <3>2. b + 1 < l => At(d, b + 1) = d[(b + 1) + 1]
            BY <2>3, <3>1
        <3> QED
            BY <2>1, <3>1, <3>2
    <2>6. \A z : Num(Number(z)) = z
        BY DEF Num, Number
    <2>7. b < l => At(d, b) = ChunkId(chunks[k].stream)
        BY <2>2, <2>4
    <2>8. b + 1 < l => Num(At(d, b + 1)) = chunks[k].size
        BY <2>2, <2>5, <2>6
    <2> QED
        BY <2>7, <2>8
<1>9. Placed(d, chunks, K)
    <2>1. \A k \in 1 .. K : chunks[k].size \in Nat
        BY <1>2
    <2> QED
        BY <1>1, <1>3, <1>4, <1>5, <1>7, <1>8, <2>1 DEF Placed
<1> QED
    BY <1>2, <1>9

LEMMA SalvageFound ==
    ASSUME StreamsOK, NEW d \in Seq(Cell), NEW chunks, Salvage(d, chunks),
           NEW n, n = Len(setup), NEW K, K = Len(chunks)
    PROVE  \E q, m : Found(d, chunks, n, K, q, m)
<1>1. /\ HeaderSize <= Len(d) /\ MovieLies(d, chunks) /\ HeadsLie(d, n)
    BY DEF Salvage
<1>2. n \in Nat /\ n >= 1 /\ HeaderSize \in Nat /\ 8 + 4 * n <= HeaderSize
      /\ HeaderSize % 2 = 0 /\ Len(d) \in Nat
    BY RoomForHeaders, HeaderAssumption
<1>3. K \in Nat
    BY SalvagePlaced
<1>4. \A p \in 0 .. HeaderSize - 1 : At(d, p) = d[p + 1]
    <2>1. \A p \in 0 .. HeaderSize - 1 : p < Len(d)
        BY <1>1, <1>2
    <2> QED
        BY <2>1 DEF At
<1>5. \A z : Num(Number(z)) = z
    BY DEF Num, Number
<1>6. /\ d[1] = Id("RIFF") /\ d[3] = Id("hdrl") /\ d[4] \in {Number(0), Number(4 * n)}
      /\ \A s \in 1 .. n : d[4 * s + 1] = Id("strl") /\ d[4 * s + 2] = Number(2)
      /\ d[4 * n + 5] = Id("JUNK") /\ d[4 * n + 6] = Number(HeaderSize - 8 - 4 * n)
    BY <1>1 DEF HeadsLie
<1>7. /\ At(d, 0) = Id("RIFF") /\ At(d, 2) = Id("hdrl") /\ Num(At(d, 3)) \in {0, 4 * n}
    <2>1. 0 \in 0 .. HeaderSize - 1 /\ 2 \in 0 .. HeaderSize - 1 /\ 3 \in 0 .. HeaderSize - 1
        BY <1>2
    <2>2. At(d, 0) = d[0 + 1] /\ At(d, 2) = d[2 + 1] /\ At(d, 3) = d[3 + 1]
        BY <1>4, <2>1
    <2> QED
        BY <1>5, <1>6, <2>2
<1>8. \A s \in 1 .. n : At(d, 4 * s) = Id("strl") /\ Num(At(d, 4 * s + 1)) = 2
    <2> SUFFICES ASSUME NEW s \in 1 .. n
                 PROVE  At(d, 4 * s) = Id("strl") /\ Num(At(d, 4 * s + 1)) = 2
        OBVIOUS
    <2>1. /\ 4 * s \in 0 .. HeaderSize - 1 /\ 4 * s + 1 \in 0 .. HeaderSize - 1
          /\ (4 * s + 1) + 1 = 4 * s + 2
        BY <1>2
    <2>2. At(d, 4 * s) = d[4 * s + 1] /\ At(d, 4 * s + 1) = d[(4 * s + 1) + 1]
        BY <1>4, <2>1
    <2>3. d[4 * s + 1] = Id("strl") /\ d[4 * s + 2] = Number(2)
        BY <1>6
    <2> QED
        BY <1>5, <2>1, <2>2, <2>3, Zenon
<1>9. At(d, 4 * n + 4) = Id("JUNK") /\ Num(At(d, 4 * n + 5)) = HeaderSize - 8 - 4 * n
    <2>1. /\ 4 * n + 4 \in 0 .. HeaderSize - 1 /\ 4 * n + 5 \in 0 .. HeaderSize - 1
          /\ (4 * n + 4) + 1 = 4 * n + 5 /\ (4 * n + 5) + 1 = 4 * n + 6
        BY <1>2
    <2>2. At(d, 4 * n + 4) = d[(4 * n + 4) + 1] /\ At(d, 4 * n + 5) = d[(4 * n + 5) + 1]
        BY <1>4, <2>1
    <2> QED
        BY <1>5, <1>6, <2>1, <2>2, Zenon
<1>10. At(d, HeaderSize - 2) = d[HeaderSize - 1] /\ At(d, HeaderSize - 1) = d[HeaderSize]
    <2>1. /\ HeaderSize - 2 \in 0 .. HeaderSize - 1 /\ HeaderSize - 1 \in 0 .. HeaderSize - 1
          /\ (HeaderSize - 2) + 1 = HeaderSize - 1 /\ (HeaderSize - 1) + 1 = HeaderSize
        BY <1>2
    <2>2. /\ At(d, HeaderSize - 2) = d[(HeaderSize - 2) + 1]
          /\ At(d, HeaderSize - 1) = d[(HeaderSize - 1) + 1]
        BY <1>4, <2>1
    <2> QED
        BY <2>1, <2>2
<1>11. CASE d[HeaderSize - 1] = Number(0) /\ d[HeaderSize] = Number(0)
    <2>1. /\ At(d, HeaderSize - 2) = Number(0) /\ Num(At(d, HeaderSize - 1)) = 0
          /\ 0 \in 0 .. K
        BY <1>3, <1>5, <1>10, <1>11
    <2>2. Found(d, chunks, n, K, 0, 0)
        BY <1>1, <1>2, <1>3, <1>7, <1>8, <1>9, <2>1 DEF Found
    <2> QED
        BY <2>2
<1>12. ASSUME d[HeaderSize - 1] = Id("movi"), NEW k \in 1 .. K,
              d[HeaderSize] = Number(EndOf(chunks, k) - HeaderSize)
       PROVE  \E q, m : Found(d, chunks, n, K, q, m)
    <2>1. /\ At(d, HeaderSize - 2) = Id("movi")
          /\ Num(At(d, HeaderSize - 1)) = EndOf(chunks, k) - HeaderSize
          /\ k \in 0 .. K /\ k >= 1
        BY <1>3, <1>5, <1>10, <1>12
    <2>2. Found(d, chunks, n, K, k, HeaderSize)
        BY <1>1, <1>2, <1>3, <1>7, <1>8, <1>9, <2>1 DEF Found
    <2> QED
        BY <2>2
<1> QED
    BY <1>1, <1>11, <1>12 DEF MovieLies

-----------------------------------------------------------------------------
(* The parts of such a file as init takes them *)
Unlisted(p, T) == [pos |-> p, listed |-> FALSE, movie |-> 0, indexed |-> FALSE, ok |-> TRUE,
                   tables |-> T]

FirstList(d, p) == First(d, p, IsList)

LEMMA FirstHere ==
    ASSUME NEW d \in Seq(Cell), NEW p \in Nat, p < Len(d), IsList(At(d, p))
    PROVE  FirstList(d, p) = p
<1> DEFINE G(y) == /\ y \in p .. Len(d)
                   /\ y = Len(d) \/ IsList(At(d, y))
                   /\ \A q \in p .. y - 1 : ~IsList(At(d, q))
<1>1. G(p)
    OBVIOUS
<1>2. \A y : G(y) => y = p
    <2>1. \A y \in p .. Len(d) : y # p => p \in p .. y - 1
        OBVIOUS
    <2> QED
        BY <2>1
<1>3. First(d, p, IsList) = CHOOSE y \in p .. Len(d) :
            /\ y = Len(d) \/ IsList(At(d, y))
            /\ \A q \in p .. y - 1 : ~IsList(At(d, q))
    BY DEF First
<1>4. First(d, p, IsList) = CHOOSE y : G(y)
    BY <1>3
<1> QED
    <2> HIDE DEF G
    <2> QED
        BY <1>1, <1>2, <1>4 DEF FirstList

\* What is no list and no index is stepped over, and the end is not passed.
LEMMA SkipPart ==
    ASSUME NEW d, NEW p \in Nat, NEW m, NEW T, p + 1 < Len(d),
           ~IsList(At(d, p)), ~Is(At(d, p), "idx1"),
           NEW q, q = p + 2 + Even(Num(At(d, p + 1)))
    PROVE  Leads(d, Part(p, m, T), Part(q, m, T))
<1> DEFINE at == Part(p, m, T)
<1>1. TakePart(d, setup, at) = [at EXCEPT !.pos = p + 2 + Even(Num(At(d, p + 1)))]
    BY PartHere
<1>2. TakePart(d, setup, at) = Onto(at, q)
    BY <1>1, Zenon DEF Onto
<1>3. Onto(at, q) = Part(q, m, T)
    BY PartMoves
<1> QED
    BY <1>2, <1>3 DEF Leads

LEMMA StopPart ==
    ASSUME NEW d, NEW p, NEW m, NEW T, p + 1 >= Len(d)
    PROVE  Leads(d, Part(p, m, T), Part(p, m, T))
<1> PICK at : at = Part(p, m, T)
    OBVIOUS
<1>1. at.pos = p /\ at.listed
    BY DEF Part
<1>2. TakePart(d, setup, at) = at
    BY <1>1, Zenon DEF TakePart
<1> QED
    BY <1>2 DEF Leads

LEMMA OthersSkip ==
    /\ \A s : ~IsList(ChunkId(s)) /\ ~Is(ChunkId(s), "idx1")
    /\ \A z : ~IsList(Number(z)) /\ ~Is(Number(z), "idx1")
BY DEF IsList, Is, ChunkId, Number

\* The list of headers before its size is there
LEMMA EarlyHeadersPart ==
    ASSUME NEW d \in Seq(Cell), Len(d) >= 4, At(d, 2) = Id("hdrl"), Num(At(d, 3)) = 0, NEW T
    PROVE  Leads(d, Unlisted(2, T), Unlisted(4, T))
<1> PICK at : at = Unlisted(2, T)
    OBVIOUS
<1>1. at.pos = 2 /\ ~at.listed
    BY DEF Unlisted
<1>2. IsList(At(d, 2))
    BY NamesDiffer
<1>3. First(d, 2, IsList) = 2
    <2>1. FirstList(d, 2) = 2
        BY <1>2, FirstHere
    <2> QED
        BY <2>1 DEF FirstList
<1>4. TakePart(d, setup, at) = TakeList(d, at, 2)
    <2>1. ~(2 >= Len(d) \/ 2 + 1 >= Len(d))
        OBVIOUS
    <2> QED
        BY <1>1, <1>2, <1>3, <2>1, Zenon DEF TakePart
<1>5. TakeList(d, at, 2) = Onto(at, 4)
    <2>1. 0 < 1 /\ 2 + 1 = 3 /\ 2 + 2 = 4
        OBVIOUS
    <2>2. TakeList(d, at, 2) = [at EXCEPT !.pos = 2 + 2]
        BY <2>1, Zenon DEF TakeList
    <2> QED
        BY <2>1, <2>2, Zenon DEF Onto
<1>6. Onto(at, 4) = Unlisted(4, T)
    <2> PICK yes, no : yes = TRUE /\ no = FALSE
        OBVIOUS
    <2> DEFINE R == [pos : {2, 4}, listed : {no}, movie : {0}, indexed : {no}, ok : {yes},
                     tables : {T}]
               Rec(a) == [pos |-> a, listed |-> no, movie |-> 0, indexed |-> no,
                          ok |-> yes, tables |-> T]
               r == [at EXCEPT !.pos = 4]
    <2>1. \A a : Rec(a) = Unlisted(a, T)
        BY Zenon DEF Unlisted
    <2>2. at \in R
        <3>1. Rec(2) \in R
            OBVIOUS
        <3>2. at = Rec(2)
            <4> HIDE DEF Rec
            <4> QED
                BY <2>1
        <3> HIDE DEF R, Rec
        <3> QED
            BY <3>1, <3>2, Zenon
    <2>3. r \in R /\ r.pos = 4
        BY <2>2
    <2> HIDE DEF r
    <2>4. r = Rec(4)
        BY <2>3
    <2> QED
        BY <2>1, <2>4, Zenon DEF Onto, r
<1> QED
    BY <1>4, <1>5, <1>6 DEF Leads

LEMMA FirstStreamPart ==
    ASSUME NEW d \in Seq(Cell), 6 <= Len(d), At(d, 4) = Id("strl"),
           Num(At(d, 5)) = 2, NEW T
    PROVE  Leads(d, Unlisted(4, T), Part(8, 0, Append(T, EmptyTable(Num(At(d, 7))))))
<1> PICK at : at = Unlisted(4, T)
    OBVIOUS
<1> DEFINE U == Append(T, EmptyTable(Num(At(d, 7))))
<1>1. at.pos = 4 /\ ~at.listed /\ at.tables = T
    BY DEF Unlisted
<1>2. IsList(At(d, 4)) /\ ~Is(At(d, 4), "hdrl") /\ ~Is(At(d, 4), "movi")
    BY NamesDiffer
<1>3. First(d, 4, IsList) = 4
    <2>1. FirstList(d, 4) = 4
        BY <1>2, FirstHere
    <2> QED
        BY <2>1 DEF FirstList
<1>4. TakePart(d, setup, at) = TakeList(d, at, 4)
    <2>1. ~(4 >= Len(d) \/ 4 + 1 >= Len(d))
        OBVIOUS
    <2> QED
        BY <1>1, <1>2, <1>3, <2>1, Zenon DEF TakePart
<1>5. /\ Even(2) = 2 /\ (4 + 2) + Even(2) = 8 /\ (4 + 2) + 1 = 7 /\ 4 + 1 = 5
    BY DEF Even
<1>6. TakeList(d, at, 4)
        = [[at EXCEPT !.pos = (4 + 2) + Even(2), !.listed = TRUE]
             EXCEPT !.tables = Append(@, EmptyTable(Num(At(d, (4 + 2) + 1))))]
    <2>1. ~(2 < 1)
        OBVIOUS
    <2> QED
        BY <1>2, <1>5, <2>1, Zenon DEF TakeList
<1>7. [[at EXCEPT !.pos = 8, !.listed = TRUE]
             EXCEPT !.tables = Append(@, EmptyTable(Num(At(d, 7))))] = Part(8, 0, U)
    <2> PICK yes, no : yes = TRUE /\ no = FALSE
        OBVIOUS
    <2> HIDE DEF U
    <2> DEFINE R == [pos : {4, 8}, listed : {yes, no}, movie : {0}, indexed : {no}, ok : {yes},
                     tables : {T, U}]
               f == [at EXCEPT !.pos = 8, !.listed = yes]
               r == [f EXCEPT !.tables = U]
    <2>1. at = [pos |-> 4, listed |-> no, movie |-> 0, indexed |-> no, ok |-> yes,
                tables |-> T]
        BY Zenon DEF Unlisted
    <2>2. at \in R
        <3>1. [pos |-> 4, listed |-> no, movie |-> 0, indexed |-> no, ok |-> yes,
               tables |-> T] \in R
            OBVIOUS
        <3> HIDE DEF R
        <3> QED
            BY <2>1, <3>1, Zenon
    <2>3. f \in R /\ f.pos = 8 /\ f.listed = yes /\ f.tables = T
        BY <2>2, <1>1
    <2>4. f = [at EXCEPT !.pos = 8, !.listed = TRUE]
        BY Zenon DEF f
    <2>5. [f EXCEPT !.tables = Append(@, EmptyTable(Num(At(d, 7))))] = r
        BY <2>3, Zenon DEF U, r
    <2> HIDE DEF f
    <2>6. r \in R /\ r.pos = 8 /\ r.listed = yes /\ r.tables = U
        BY <2>3
    <2>7. r = [pos |-> 8, listed |-> yes, movie |-> 0, indexed |-> no, ok |-> yes,
               tables |-> U]
        <3> HIDE DEF r
        <3> QED
            BY <2>6
    <2>8. r = Part(8, 0, U)
        BY <2>7, Zenon DEF Part
    <2> QED
        BY <2>4, <2>5, <2>8, Zenon
<1> QED
    BY <1>4, <1>5, <1>6, <1>7, Zenon DEF Leads

\* The first chunk, from q + 1 on, that is not there with its id and size is J + 1.
Reach(d, chunks, K, q, J) ==
    /\ J \in q .. K /\ EndOf(chunks, J) + 1 >= Len(d)
    /\ \A j \in q .. J - 1 : EndOf(chunks, j) + 1 < Len(d)

LEMMA Reached ==
    ASSUME NEW d \in Seq(Cell), NEW chunks, NEW K \in Nat, Placed(d, chunks, K),
           NEW q \in 0 .. K
    PROVE  \E J : Reach(d, chunks, K, q, J)
<1> DEFINE S == {j \in q .. K : EndOf(chunks, j) + 1 >= Len(d)}
<1>1. \A k \in 0 .. K : EndOf(chunks, k) \in Nat
    BY DEF Placed
<1>2. K \in S
    <2>1. K \in 0 .. K /\ K \in q .. K
        OBVIOUS
    <2>2. EndOf(chunks, K) \in Nat /\ Len(d) <= EndOf(chunks, K) /\ Len(d) \in Nat
        BY <1>1, <2>1 DEF Placed
    <2> QED
        BY <2>1, <2>2
<1>3. S \subseteq Nat /\ S # {}
    BY <1>2
<1>4. PICK J \in S : \A y \in S : J <= y
    BY <1>3, Smallest
<1>5. \A j \in q .. J - 1 : EndOf(chunks, j) + 1 < Len(d)
    <2> SUFFICES ASSUME NEW j \in q .. J - 1 PROVE EndOf(chunks, j) + 1 < Len(d)
        OBVIOUS
    <2>1. j \in q .. K /\ j \notin S /\ j \in 0 .. K
        BY <1>3, <1>4
    <2>2. EndOf(chunks, j) \in Nat /\ Len(d) \in Nat
        BY <1>1, <2>1
    <2> QED
        BY <2>1, <2>2
<1> QED
    BY <1>4, <1>5 DEF Reach

Stop1(a, J) == IF a <= J THEN a ELSE J

\* What the walk over the parts has after i turns, when there is no index
WalkAfter(d, chunks, x, q, m, J, i) ==
    LET n == Len(setup)
    IN  CASE i = 0 -> Unlisted(2, <<>>)
        []   i = 1 -> IF Num(At(d, 3)) = 0 THEN Unlisted(4, <<>>) ELSE Part(4, 0, <<>>)
        []   i \in 2 .. n + 1 -> Part(4 * i, 0, Empties(x, i - 1))
        []   i = n + 2 -> Part(HeaderSize - 2, 0, Empties(x, n))
        []   OTHER -> Part(EndOf(chunks, Stop1(q + (i - (n + 3)), J)), m, Empties(x, n))

WalkedBy(d, chunks, x, q, m, J, n) ==
    /\ WalkAfter(d, chunks, x, q, m, J, 0) = Unlisted(2, <<>>)
    /\ WalkAfter(d, chunks, x, q, m, J, 1)
         = IF Num(At(d, 3)) = 0 THEN Unlisted(4, <<>>) ELSE Part(4, 0, <<>>)
    /\ \A i \in 2 .. n + 1 :
         WalkAfter(d, chunks, x, q, m, J, i) = Part(4 * i, 0, Empties(x, i - 1))
    /\ WalkAfter(d, chunks, x, q, m, J, n + 2)
         = Part(HeaderSize - 2, 0, Empties(x, n))
    /\ \A i \in Nat : i >= n + 3 =>
         WalkAfter(d, chunks, x, q, m, J, i)
           = Part(EndOf(chunks, Stop1(q + (i - (n + 3)), J)), m, Empties(x, n))

LEMMA WalkValues ==
    ASSUME StreamsOK, NEW d, NEW chunks, NEW x, NEW q, NEW m, NEW J, NEW n, n = Len(setup)
    PROVE  WalkedBy(d, chunks, x, q, m, J, n)
<1>1. n \in Nat /\ n >= 1
    BY RoomForHeaders
<1> DEFINE F(i) == WalkAfter(d, chunks, x, q, m, J, i)
           a == Unlisted(2, <<>>)
           b == IF Num(At(d, 3)) = 0 THEN Unlisted(4, <<>>) ELSE Part(4, 0, <<>>)
           c(i) == Part(4 * i, 0, Empties(x, i - 1))
           e == Part(HeaderSize - 2, 0, Empties(x, n))
           o(i) == Part(EndOf(chunks, Stop1(q + (i - (n + 3)), J)), m, Empties(x, n))
<1>2. \A i : F(i) = CASE i = 0 -> a [] i = 1 -> b [] i \in 2 .. n + 1 -> c(i)
                    [] i = n + 2 -> e [] OTHER -> o(i)
    BY DEF WalkAfter
<1> HIDE DEF F, a, b, c, e, o
<1>3. F(0) = a /\ F(1) = b
    BY <1>1, <1>2
<1>4. \A i \in 2 .. n + 1 : F(i) = c(i)
    BY <1>1, <1>2
<1>5. F(n + 2) = e
    BY <1>1, <1>2
<1>6. \A i \in Nat : i >= n + 3 => F(i) = o(i)
    BY <1>1, <1>2
<1> QED
    BY <1>3, <1>4, <1>5, <1>6, Zenon DEF F, a, b, c, e, o, WalkedBy

LEMMA WalkTurn ==
    ASSUME StreamsOK, NEW d \in Seq(Cell), NEW chunks, NEW n, n = Len(setup), NEW K \in Nat,
           Placed(d, chunks, K), NEW q, NEW m, Found(d, chunks, n, K, q, m), NEW x,
           Formats(d, x), NEW J, Reach(d, chunks, K, q, J), NEW k \in Nat, k >= 1
    PROVE  Leads(d, WalkAfter(d, chunks, x, q, m, J, k - 1),
                 WalkAfter(d, chunks, x, q, m, J, k))
<1>1. /\ n \in Nat /\ n >= 1 /\ q \in 0 .. K
      /\ HeaderSize \in Nat /\ HeaderSize % 2 = 0 /\ 8 + 4 * n <= HeaderSize
      /\ Len(d) \in Nat /\ HeaderSize <= Len(d)
    BY DEF Found
<1>2. /\ At(d, 2) = Id("hdrl") /\ Num(At(d, 3)) \in {0, 4 * n}
      /\ \A s \in 1 .. n : At(d, 4 * s) = Id("strl") /\ Num(At(d, 4 * s + 1)) = 2
      /\ At(d, 4 * n + 4) = Id("JUNK")
      /\ Num(At(d, 4 * n + 5)) = HeaderSize - 8 - 4 * n
    BY DEF Found
<1>3. \A s \in 1 .. n : x[s] = Num(At(d, 4 * s + 3))
    BY DEF Formats
<1>r. J \in q .. K /\ EndOf(chunks, J) + 1 >= Len(d)
      /\ \A j \in q .. J - 1 : EndOf(chunks, j) + 1 < Len(d)
    BY DEF Reach
<1> DEFINE F(i) == WalkAfter(d, chunks, x, q, m, J, i)
           E == Empties(x, n)
<1>4. /\ F(0) = Unlisted(2, <<>>)
      /\ F(1) = IF Num(At(d, 3)) = 0 THEN Unlisted(4, <<>>) ELSE Part(4, 0, <<>>)
      /\ \A i \in 2 .. n + 1 : F(i) = Part(4 * i, 0, Empties(x, i - 1))
      /\ F(n + 2) = Part(HeaderSize - 2, 0, E)
      /\ \A i \in Nat : i >= n + 3 =>
           F(i) = Part(EndOf(chunks, Stop1(q + (i - (n + 3)), J)), m, E)
    <2>1. WalkedBy(d, chunks, x, q, m, J, n)
        BY WalkValues
    <2> QED
        BY <2>1, Zenon DEF WalkedBy
<1> HIDE DEF F, E
<1>6. CASE k = 1
    <2>1. Len(d) >= 4 /\ k - 1 = 0
        BY <1>1, <1>6
    <2>2. CASE Num(At(d, 3)) = 0
        <3>1. Leads(d, Unlisted(2, <<>>), Unlisted(4, <<>>))
            BY <1>2, <2>1, <2>2, EarlyHeadersPart
        <3>2. F(1) = Unlisted(4, <<>>)
            BY <1>4, <2>2
        <3> QED
            BY <1>4, <1>6, <2>1, <3>1, <3>2 DEF F
    <2>3. CASE Num(At(d, 3)) # 0
        <3>1. Num(At(d, 3)) = 4 * n /\ 4 * n \in Nat /\ 4 * n >= 1
            BY <1>1, <1>2, <2>3
        <3>2. Unlisted(2, <<>>) = [pos |-> 2, listed |-> FALSE, movie |-> 0,
                                   indexed |-> FALSE, ok |-> TRUE, tables |-> <<>>]
            BY Zenon DEF Unlisted
        <3>3. Leads(d, Unlisted(2, <<>>), Part(4, 0, <<>>))
            BY <1>2, <2>1, <3>1, <3>2, HeadersPart
        <3>4. F(1) = Part(4, 0, <<>>)
            BY <1>4, <2>3
        <3> QED
            BY <1>4, <1>6, <2>1, <3>3, <3>4 DEF F
    <2> QED
        BY <2>2, <2>3
<1>7. CASE k = 2
    <2>1. /\ 1 \in 1 .. n /\ 2 \in 2 .. n + 1 /\ 4 * 1 = 4 /\ 4 * 1 + 1 = 5 /\ 4 * 1 + 3 = 7
          /\ 6 <= Len(d) /\ k - 1 = 1 /\ 4 * 2 = 8 /\ 2 - 1 = 1 /\ 0 \in Nat /\ 0 + 1 = 1
        BY <1>1, <1>7
    <2>2. At(d, 4) = Id("strl") /\ Num(At(d, 5)) = 2
        <3>1. At(d, 4 * 1) = Id("strl") /\ Num(At(d, 4 * 1 + 1)) = 2
            BY <1>2, <2>1
        <3> QED
            BY <2>1, <3>1
    <2>3. Num(At(d, 7)) = x[1]
        <3>1. x[1] = Num(At(d, 4 * 1 + 3))
            BY <1>3, <2>1
        <3> QED
            BY <2>1, <3>1
    <2>4. Append(<<>>, EmptyTable(Num(At(d, 7)))) = Empties(x, 1)
        <3>1. Append(Empties(x, 0), EmptyTable(x[0 + 1])) = Empties(x, 0 + 1)
            BY <2>1, EmptiesGrow
        <3>2. Empties(x, 0) = <<>>
            BY EmptiesGrow
        <3> QED
            BY <2>1, <2>3, <3>1, <3>2
    <2>5. F(2) = Part(8, 0, Empties(x, 1))
        <3>1. F(2) = Part(4 * 2, 0, Empties(x, 2 - 1))
            BY <1>4, <2>1
        <3> QED
            BY <2>1, <3>1
    <2>6. Leads(d, F(1), F(2))
        <3>1. CASE Num(At(d, 3)) = 0
            <4>1. Leads(d, Unlisted(4, <<>>),
                        Part(8, 0, Append(<<>>, EmptyTable(Num(At(d, 7))))))
                BY <2>1, <2>2, FirstStreamPart
            <4>2. F(1) = Unlisted(4, <<>>)
                BY <1>4, <3>1
            <4> QED
                BY <2>4, <2>5, <4>1, <4>2
        <3>2. CASE Num(At(d, 3)) # 0
            <4>1. 4 \in Nat /\ 4 + 1 < Len(d) /\ 4 + 1 = 5 /\ 4 + 3 = 7 /\ 8 = 4 + 4
                BY <2>1
            <4>2. Leads(d, Part(4, 0, <<>>),
                        Part(8, 0, Append(<<>>, EmptyTable(Num(At(d, 4 + 3))))))
                BY <2>2, <4>1, StreamPart
            <4>3. F(1) = Part(4, 0, <<>>)
                BY <1>4, <3>2
            <4> QED
                BY <2>4, <2>5, <4>1, <4>2, <4>3
        <3> QED
            BY <3>1, <3>2
    <2> QED
        BY <1>7, <2>1, <2>6 DEF F
<1>8. CASE k \in 3 .. n + 1
    <2> PICK s, p, u : s = k - 1 /\ p = 4 * s /\ u = p + 4
        OBVIOUS
    <2>1. /\ s \in 1 .. n /\ s \in 2 .. n + 1 /\ p \in Nat /\ p + 1 < Len(d) /\ u = 4 * k
          /\ s - 1 \in Nat /\ (s - 1) + 1 = s /\ k \in 2 .. n + 1
        BY <1>1, <1>8
    <2>2. /\ At(d, p) = Id("strl") /\ Num(At(d, p + 1)) = 2 /\ Num(At(d, p + 3)) = x[s]
        BY <1>2, <1>3, <2>1
    <2>3. F(s) = Part(p, 0, Empties(x, s - 1))
        BY <1>4, <2>1
    <2>4. F(k) = Part(u, 0, Empties(x, s))
        BY <1>4, <2>1
    <2>5. Append(Empties(x, s - 1), EmptyTable(x[s])) = Empties(x, s)
        <3>1. Append(Empties(x, s - 1), EmptyTable(x[(s - 1) + 1])) = Empties(x, (s - 1) + 1)
            BY <2>1, EmptiesGrow
        <3> QED
            BY <2>1, <3>1
    <2> PICK A : A = Empties(x, s - 1)
        OBVIOUS
    <2>6. Leads(d, Part(p, 0, A), Part(u, 0, Append(A, EmptyTable(Num(At(d, p + 3))))))
        BY <2>1, <2>2, StreamPart
    <2>7. Leads(d, F(s), F(k))
        BY <2>2, <2>3, <2>4, <2>5, <2>6
    <2> QED
        BY <2>7 DEF F
<1>9. CASE k = n + 2
    <2> PICK p, u : p = 4 * (n + 1) /\ u = HeaderSize - 2
        OBVIOUS
    <2>1. F(k - 1) = Part(p, 0, E)
        <3>1. k - 1 = n + 1 /\ n + 1 \in 2 .. n + 1 /\ (n + 1) - 1 = n
            BY <1>1, <1>9
        <3>2. F(n + 1) = Part(4 * (n + 1), 0, Empties(x, (n + 1) - 1))
            BY <1>4, <3>1
        <3> QED
            BY <3>1, <3>2 DEF E
    <2>2. F(k) = Part(u, 0, E)
        BY <1>4, <1>9
    <2>3. /\ p \in Nat /\ p + 1 < Len(d) /\ p = 4 * n + 4 /\ p + 1 = 4 * n + 5
          /\ u = p + 2 + Even(HeaderSize - 8 - 4 * n)
        <3>1. \A h, i \in Nat : h % 2 = 0 => (h - 8 - 4 * i) % 2 = 0
            OBVIOUS
        <3>2. (HeaderSize - 8 - 4 * n) % 2 = 0
            BY <1>1, <3>1
        <3> QED
            BY <1>1, <3>2 DEF Even
    <2>4. At(d, p) = Id("JUNK") /\ Num(At(d, p + 1)) = HeaderSize - 8 - 4 * n
        BY <1>2, <2>3, Zenon
    <2>5. Leads(d, Part(p, 0, E), Part(u, 0, E))
        BY <2>3, <2>4, JunkPart
    <2> QED
        BY <2>1, <2>2, <2>5 DEF F
<1>10. CASE k = n + 3
    <2> PICK p, e : p = HeaderSize - 2 /\ e = EndOf(chunks, q)
        OBVIOUS
    <2>1. F(k - 1) = Part(p, 0, E) /\ F(k) = Part(e, m, E)
        <3>1. k - 1 = n + 2 /\ k \in Nat /\ k >= n + 3 /\ q + (k - (n + 3)) = q
            BY <1>1, <1>10
        <3>2. F(k) = Part(EndOf(chunks, Stop1(q, J)), m, E)
            BY <1>4, <3>1
        <3>3. Stop1(q, J) = q
            BY <1>1, <1>r DEF Stop1
        <3>4. F(n + 2) = Part(HeaderSize - 2, 0, E)
            BY <1>4
        <3> QED
            BY <3>1, <3>2, <3>3, <3>4
    <2>2. p \in Nat /\ p + 1 < Len(d) /\ p + 1 = HeaderSize - 1 /\ p + 2 = HeaderSize
        BY <1>1
    <2>3. e \in Nat /\ e >= HeaderSize + 2 * q /\ e % 2 = 0
        BY <1>1 DEF Placed
    <2>4. CASE m = 0 /\ q = 0 /\ At(d, p) = Number(0) /\ Num(At(d, p + 1)) = 0
        <3>1. e = p + 2 + Even(Num(At(d, p + 1)))
            <4>1. e = HeaderSize
                BY <2>4 DEF Placed
            <4>2. Even(0) = 0
                BY DEF Even
            <4> QED
                BY <2>2, <2>4, <4>1, <4>2
        <3>2. Leads(d, Part(p, 0, E), Part(e, 0, E))
            BY <2>2, <2>4, <3>1, OthersSkip, SkipPart
        <3> QED
            BY <2>1, <2>4, <3>2 DEF F
    <2>5. CASE m = HeaderSize /\ q >= 1 /\ At(d, p) = Id("movi")
               /\ Num(At(d, p + 1)) = e - HeaderSize
        <3> PICK z : z = e - HeaderSize
            OBVIOUS
        <3>1. z \in Nat /\ z >= 1 /\ e = p + 2 + z
            BY <1>1, <2>2, <2>3, <2>5
        <3>2. z % 2 = 0
            <4>1. \A g, h \in Nat : g % 2 = 0 /\ h % 2 = 0 => (g - h) % 2 = 0
                OBVIOUS
            <4> QED
                BY <1>1, <2>3, <4>1
        <3>3. Leads(d, Part(p, 0, E), Part(e, HeaderSize, E))
            BY <2>2, <2>5, <3>1, <3>2, MoviePart
        <3> QED
            BY <2>1, <2>5, <3>3 DEF F
    <2>6. \/ m = 0 /\ q = 0 /\ At(d, HeaderSize - 2) = Number(0)
             /\ Num(At(d, HeaderSize - 1)) = 0
          \/ m = HeaderSize /\ q >= 1 /\ At(d, HeaderSize - 2) = Id("movi")
             /\ Num(At(d, HeaderSize - 1)) = EndOf(chunks, q) - HeaderSize
        BY DEF Found
    <2> QED
        BY <2>2, <2>4, <2>5, <2>6
<1>11. CASE k > n + 3
    <2> PICK a : a = q + ((k - 1) - (n + 3))
        OBVIOUS
    <2>1. /\ a \in Nat /\ a >= q /\ k - 1 \in Nat /\ k - 1 >= n + 3 /\ k >= n + 3
          /\ q + (k - (n + 3)) = a + 1
        BY <1>1, <1>11
    <2>2. /\ F(k - 1) = Part(EndOf(chunks, Stop1(a, J)), m, E)
          /\ F(k) = Part(EndOf(chunks, Stop1(a + 1, J)), m, E)
        BY <1>4, <2>1
    <2>3. CASE a + 1 <= J
        <3>1. /\ a \in q .. J - 1 /\ a \in 0 .. K /\ a + 1 \in 1 .. K
              /\ (a + 1) - 1 = a
            BY <1>1, <1>r, <2>1, <2>3
        <3>2. Stop1(a, J) = a /\ Stop1(a + 1, J) = a + 1
            BY <1>1, <1>r, <2>1, <2>3 DEF Stop1
        <3> PICK p, u, z, s : /\ p = EndOf(chunks, a) /\ u = EndOf(chunks, a + 1)
                              /\ z = chunks[a + 1].size /\ s = chunks[a + 1].stream
            OBVIOUS
        <3>3. p \in Nat /\ p + 1 < Len(d) /\ p < Len(d)
            <4>1. p \in Nat
                BY <3>1 DEF Placed
            <4>2. p + 1 < Len(d)
                BY <1>r, <3>1
            <4> QED
                BY <1>1, <4>1, <4>2
        <3>4. /\ u = p + 2 + Even(z) /\ At(d, p) = ChunkId(s) /\ Num(At(d, p + 1)) = z
            <4>1. \A i \in 1 .. K :
                    /\ EndOf(chunks, i) = EndOf(chunks, i - 1) + 2 + Even(chunks[i].size)
                    /\ EndOf(chunks, i - 1) < Len(d) =>
                         At(d, EndOf(chunks, i - 1)) = ChunkId(chunks[i].stream)
                    /\ EndOf(chunks, i - 1) + 1 < Len(d) =>
                         Num(At(d, EndOf(chunks, i - 1) + 1)) = chunks[i].size
                BY DEF Placed
            <4> QED
                BY <3>1, <3>3, <4>1
        <3>5. Leads(d, Part(p, m, E), Part(u, m, E))
            BY <3>3, <3>4, OthersSkip, SkipPart
        <3> QED
            BY <2>2, <3>2, <3>5 DEF F
    <2>4. CASE a + 1 > J
        <3>1. Stop1(a, J) = J /\ Stop1(a + 1, J) = J
            BY <1>1, <1>r, <2>1, <2>4 DEF Stop1
        <3>2. Leads(d, Part(EndOf(chunks, J), m, E), Part(EndOf(chunks, J), m, E))
            BY <1>r, StopPart
        <3> QED
            BY <2>2, <3>1, <3>2 DEF F
    <2> QED
        BY <1>1, <1>r, <2>1, <2>3, <2>4
<1>12. \/ k = 1 \/ k = 2 \/ k \in 3 .. n + 1 \/ k = n + 2 \/ k = n + 3 \/ k > n + 3
    BY <1>1
<1> QED
    BY <1>6, <1>7, <1>8, <1>9, <1>10, <1>11, <1>12

LEMMA PartsWalked ==
    ASSUME StreamsOK, NEW d \in Seq(Cell), NEW chunks, NEW n, n = Len(setup), NEW K \in Nat,
           Placed(d, chunks, K), NEW q, NEW m, Found(d, chunks, n, K, q, m), NEW x,
           Formats(d, x)
    PROVE  \E p : readChunks(d, setup) = Part(p, m, Empties(x, n))
<1> PICK T : T = Turns(d)
    OBVIOUS
<1>1. /\ n \in Nat /\ n >= 1 /\ q \in 0 .. K
      /\ HeaderSize \in Nat /\ 8 + 4 * n <= HeaderSize
      /\ Len(d) \in Nat /\ HeaderSize <= Len(d)
    BY DEF Found
<1>2. T \in Nat /\ T >= n + 3
    <2>1. Len(d) >= 8 + 4 * n
        BY ONLY <1>1
    <2>2. \A a, b \in Nat : b >= 8 + 4 * a => b \div 2 + 1 \in Nat /\ b \div 2 + 1 >= a + 3
        OBVIOUS
    <2>3. T = Len(d) \div 2 + 1
        BY DEF Turns
    <2> QED
        BY <1>1, <2>1, <2>2, <2>3
<1> PICK J : Reach(d, chunks, K, q, J)
    BY <1>1, Reached
<1> DEFINE H == [i \in 0 .. T |-> WalkAfter(d, chunks, x, q, m, J, i)]
<1>3. WalkedBy(d, chunks, x, q, m, J, n)
    BY WalkValues
<1>4. H[0] = [pos |-> 2, listed |-> FALSE, movie |-> 0, indexed |-> FALSE, ok |-> TRUE,
              tables |-> <<>>]
    <2>1. WalkAfter(d, chunks, x, q, m, J, 0)
            = [pos |-> 2, listed |-> FALSE, movie |-> 0, indexed |-> FALSE, ok |-> TRUE,
               tables |-> <<>>]
        BY <1>3, Zenon DEF WalkedBy, Unlisted
    <2>2. 0 \in 0 .. T
        BY <1>2
    <2> QED
        BY <2>1, <2>2, Zenon
<1>5. \A k \in 1 .. T : H[k] = TakePart(d, setup, H[k - 1])
    <2> SUFFICES ASSUME NEW k \in 1 .. T
                 PROVE  H[k] = TakePart(d, setup, H[k - 1])
        OBVIOUS
    <2>1. k \in Nat /\ k >= 1 /\ k \in 0 .. T /\ k - 1 \in 0 .. T
        BY <1>2
    <2>2. Leads(d, WalkAfter(d, chunks, x, q, m, J, k - 1), WalkAfter(d, chunks, x, q, m, J, k))
        BY <2>1, WalkTurn
    <2>3. /\ H[k] = WalkAfter(d, chunks, x, q, m, J, k)
          /\ H[k - 1] = WalkAfter(d, chunks, x, q, m, J, k - 1)
        BY <2>1
    <2> HIDE DEF H
    <2> QED
        BY <2>2, <2>3 DEF Leads
<1>6. readChunks(d, setup) = H[T]
    <2> HIDE DEF H
    <2> QED
        BY <1>2, <1>4, <1>5, ChunksLoop
<1>7. H[T] = Part(EndOf(chunks, Stop1(q + (T - (n + 3)), J)), m, Empties(x, n))
    <2>1. H[T] = WalkAfter(d, chunks, x, q, m, J, T)
        BY <1>2
    <2>2. \A i \in Nat : i >= n + 3 =>
            WalkAfter(d, chunks, x, q, m, J, i)
              = Part(EndOf(chunks, Stop1(q + (i - (n + 3)), J)), m, Empties(x, n))
        BY <1>3, Zenon DEF WalkedBy
    <2> HIDE DEF H
    <2> QED
        BY <1>2, <2>1, <2>2
<1> HIDE DEF H
<1> QED
    BY <1>6, <1>7

LEMMA RebuildLoop ==
    ASSUME NEW d, NEW T \in Nat, T = Turns(d), NEW tables, NEW p, NEW H,
           H[0] = [tables |-> tables, pos |-> p],
           \A k \in 1 .. T : H[k] = TakeChunk(d, setup, H[k - 1])
    PROVE  reconstructIndexChunk(d, setup, tables, p) = H[T].tables
<1> DEFINE v == [tables |-> tables, pos |-> p]
           L(f) == f = [n \in 0 .. T |-> IF n = 0 THEN v
                                         ELSE TakeChunk(d, setup, f[n - 1])]
           f == CHOOSE f : L(f)
           h == [k \in 0 .. T |-> H[k]]
<1>0. H[0] = v
    OBVIOUS
<1> HIDE DEF v
<1>1. L(h)
    <2>1. ASSUME NEW k \in 0 .. T
          PROVE  H[k] = IF k = 0 THEN v ELSE TakeChunk(d, setup, h[k - 1])
        <3>1. CASE k = 0
            BY <1>0, <3>1
        <3>2. CASE k # 0
            <4>1. k - 1 \in 0 .. T /\ k \in 1 .. T
                BY <3>2
            <4>2. h[k - 1] = H[k - 1]
                BY <4>1
            <4> QED
                BY <3>2, <4>1, <4>2
        <3> QED
            BY <3>1, <3>2
    <2> QED
        BY <2>1
<1>2. L(f)
    <2> HIDE DEF L, h
    <2> QED
        BY <1>1, Zenon
<1>3. reconstructIndexChunk(d, setup, tables, p) = f[T].tables
    BY Zenon DEF reconstructIndexChunk, v
<1> HIDE DEF f
<1>4. f[0] = H[0] /\ \A k \in 1 .. T : f[k - 1] = H[k - 1] => f[k] = H[k]
    <2>1. 0 \in 0 .. T /\ \A k \in 1 .. T : k \in 0 .. T /\ k # 0
        OBVIOUS
    <2>2. \A k \in 0 .. T : f[k] = IF k = 0 THEN v ELSE TakeChunk(d, setup, f[k - 1])
        BY <1>2
    <2>3. f[0] = H[0]
        BY <1>0, <2>1, <2>2
    <2> HIDE DEF L
    <2> QED
        BY <2>1, <2>2, <2>3
<1>5. \A k \in 0 .. T : f[k] = H[k]
    <2> HIDE DEF L
    <2>1. \A F, G : F[0] = G[0] /\ (\A k \in 1 .. T : F[k - 1] = G[k - 1] => F[k] = G[k])
                    => \A k \in 0 .. T : F[k] = G[k]
        BY ONLY T \in Nat, SameTurns, Zenon
    <2> QED
        BY ONLY <1>4, <2>1, Zenon
<1>6. f[T] = H[T]
    <2>1. T \in 0 .. T
        OBVIOUS
    <2> QED
        BY <1>5, <2>1
<1> QED
    BY <1>3, <1>6

-----------------------------------------------------------------------------
\* Without an index, a chunk of any bytes is taken for a key frame.
Rekeyed(chunks) == [k \in 1 .. Len(chunks) |-> [chunks[k] EXCEPT !.key = chunks[k].size > 0]]

LEMMA EndSizes ==
    ASSUME NEW a, NEW b, NEW N \in Nat,
           \A k \in 1 .. N : a[k].size = b[k].size /\ a[k].size \in Nat
    PROVE  \A k \in 0 .. N : EndOf(a, k) = EndOf(b, k)
<1> DEFINE f == [k \in 0 .. N |-> EndOf(a, k)]
           h == [k \in 0 .. N |-> EndOf(b, k)]
<1>1. \A k \in 1 .. N : b[k].size \in Nat
    OBVIOUS
<1>2. /\ EndOf(a, 0) = HeaderSize
      /\ \A k \in 1 .. N : EndOf(a, k) = EndOf(a, k - 1) + 2 + Even(a[k].size)
    BY EndSteps, Zenon
<1>3. /\ EndOf(b, 0) = HeaderSize
      /\ \A k \in 1 .. N : EndOf(b, k) = EndOf(b, k - 1) + 2 + Even(b[k].size)
    BY <1>1, EndSteps, Zenon
<1>4. \A k \in 1 .. N : k \in 0 .. N /\ k - 1 \in 0 .. N
    OBVIOUS
<1>5. \A k \in 0 .. N : f[k] = EndOf(a, k) /\ h[k] = EndOf(b, k)
    OBVIOUS
<1>6. 0 \in 0 .. N
    OBVIOUS
<1> HIDE DEF f, h
<1>7. f[0] = h[0]
    BY <1>2, <1>3, <1>5, <1>6
<1>8. \A k \in 1 .. N : f[k - 1] = h[k - 1] => f[k] = h[k]
    BY <1>2, <1>3, <1>4, <1>5
<1>9. \A k \in 0 .. N : f[k] = h[k]
    <2>1. \A F, H : F[0] = H[0] /\ (\A k \in 1 .. N : F[k - 1] = H[k - 1] => F[k] = H[k])
                    => \A k \in 0 .. N : F[k] = H[k]
        BY ONLY N \in Nat, SameTurns, Zenon
    <2> QED
        BY ONLY <1>7, <1>8, <2>1, Zenon
<1> QED
    BY <1>5, <1>9

LEMMA OwnSame ==
    ASSUME NEW a, NEW b, NEW N \in Nat, NEW s,
           \A k \in 1 .. N : a[k].stream = b[k].stream
    PROVE  \A k \in 0 .. N : OfStream(a, s, k) = OfStream(b, s, k)
<1> DEFINE f == [k \in 0 .. N |-> OfStream(a, s, k)]
           h == [k \in 0 .. N |-> OfStream(b, s, k)]
<1>2. /\ OfStream(a, s, 0) = <<>>
      /\ \A k \in 1 .. N : OfStream(a, s, k) =
                     IF a[k].stream = s THEN Append(OfStream(a, s, k - 1), k)
                     ELSE OfStream(a, s, k - 1)
    BY ONLY N \in Nat, OwnSteps
<1>3. /\ OfStream(b, s, 0) = <<>>
      /\ \A k \in 1 .. N : OfStream(b, s, k) =
                     IF b[k].stream = s THEN Append(OfStream(b, s, k - 1), k)
                     ELSE OfStream(b, s, k - 1)
    BY ONLY N \in Nat, OwnSteps
<1>4. \A k \in 1 .. N : k \in 0 .. N /\ k - 1 \in 0 .. N
    OBVIOUS
<1>5. \A k \in 0 .. N : f[k] = OfStream(a, s, k) /\ h[k] = OfStream(b, s, k)
    OBVIOUS
<1>6. 0 \in 0 .. N
    OBVIOUS
<1> HIDE DEF f, h
<1>7. f[0] = h[0]
    BY <1>2, <1>3, <1>5, <1>6
<1>8. \A k \in 1 .. N : f[k - 1] = h[k - 1] => f[k] = h[k]
    <2> SUFFICES ASSUME NEW k \in 1 .. N, f[k - 1] = h[k - 1] PROVE f[k] = h[k]
        OBVIOUS
    <2>1. /\ f[k] = OfStream(a, s, k) /\ f[k - 1] = OfStream(a, s, k - 1)
          /\ h[k] = OfStream(b, s, k) /\ h[k - 1] = OfStream(b, s, k - 1)
        BY <1>4, <1>5
    <2>2. CASE a[k].stream = s
        <3>1. /\ OfStream(a, s, k) = Append(OfStream(a, s, k - 1), k)
              /\ OfStream(b, s, k) = Append(OfStream(b, s, k - 1), k)
            BY <1>2, <1>3, <2>2
        <3> QED
            BY <2>1, <3>1
    <2>3. CASE a[k].stream # s
        BY <1>2, <1>3, <2>1, <2>3
    <2> QED
        BY <2>2, <2>3
<1>9. \A k \in 0 .. N : f[k] = h[k]
    <2>1. \A F, H : F[0] = H[0] /\ (\A k \in 1 .. N : F[k - 1] = H[k - 1] => F[k] = H[k])
                    => \A k \in 0 .. N : F[k] = H[k]
        BY ONLY N \in Nat, SameTurns, Zenon
    <2> QED
        BY ONLY <1>7, <1>8, <2>1, Zenon
<1> QED
    BY <1>5, <1>9

LEMMA RekeyedSame ==
    ASSUME NEW chunks, ChunksOK(chunks), NEW K, K = Len(chunks), NEW u, u = Rekeyed(chunks)
    PROVE  /\ K \in Nat /\ ChunksOK(u) /\ Len(u) = K
           /\ \A k \in 1 .. K : /\ u[k].size = chunks[k].size /\ u[k].stream = chunks[k].stream
                                /\ u[k].key = (chunks[k].size > 0)
           /\ \A k \in 0 .. K : EndOf(u, k) = EndOf(chunks, k)
           /\ \A s : \A k \in 0 .. K : OfStream(u, s, k) = OfStream(chunks, s, k)
<1>1. K \in Nat /\ \A k \in 1 .. K : chunks[k] \in Chunk /\ chunks[k].size \in Nat
    BY PlaceFacts
<1>2. \A k \in 1 .. K : ChunkOK(chunks[k])
    BY DEF ChunksOK
<1>3. ASSUME NEW k \in 1 .. K
      PROVE  /\ u[k] \in Chunk /\ u[k].size = chunks[k].size /\ u[k].stream = chunks[k].stream
             /\ u[k].encoding = chunks[k].encoding
             /\ u[k].key = (chunks[k].size > 0)
    <2> PICK c : c = chunks[k]
        OBVIOUS
    <2> PICK y : y = (c.size > 0)
        OBVIOUS
    <2> DEFINE r == [c EXCEPT !.key = y]
    <2>1. u[k] = r
        BY DEF Rekeyed
    <2>2. c \in Chunk
        BY <1>1
    <2>3. y \in BOOLEAN
        BY <1>1
    <2>4. r \in Chunk /\ r.size = c.size /\ r.stream = c.stream /\ r.encoding = c.encoding
        BY <2>2, <2>3 DEF Chunk
    <2>5. r.key = y
        BY <2>2, Zenon DEF Chunk
    <2> HIDE DEF r
    <2> QED
        BY <2>1, <2>4, <2>5
<1>4. u \in Seq(Chunk) /\ Len(u) = K
    <2>1. u = [k \in 1 .. K |-> u[k]]
        BY DEF Rekeyed
    <2>2. \A k \in 1 .. K : u[k] \in Chunk
        BY <1>3
    <2>3. u \in [1 .. K -> Chunk]
        BY <2>1, <2>2
    <2> QED
        BY <1>1, <2>3
<1>5. \A k \in 1 .. K : ChunkOK(u[k])
    <2> SUFFICES ASSUME NEW k \in 1 .. K PROVE ChunkOK(u[k])
        OBVIOUS
    <2>1. ChunkOK(chunks[k])
        BY <1>2
    <2> QED
        BY <1>3, <2>1 DEF ChunkOK
<1>6. ChunksOK(u)
    BY <1>4, <1>5 DEF ChunksOK
<1>7. \A k \in 0 .. K : EndOf(u, k) = EndOf(chunks, k)
    <2>1. \A k \in 1 .. K : u[k].size = chunks[k].size /\ u[k].size \in Nat
        BY <1>1, <1>3
    <2> QED
        BY <1>1, <2>1, EndSizes
<1>8. ASSUME NEW s PROVE \A k \in 0 .. K : OfStream(u, s, k) = OfStream(chunks, s, k)
    <2>1. \A k \in 1 .. K : u[k].stream = chunks[k].stream
        BY <1>3
    <2> QED
        BY ONLY <1>1, <2>1, OwnSame
<1> QED
    BY <1>1, <1>3, <1>4, <1>6, <1>7, <1>8

-----------------------------------------------------------------------------
(* One turn of the walk over the chunks *)
Wanted(cell, tables) == Is(cell, "idx1") \/ IsStream(cell, tables)

ChunkFrom(d, at) ==
    CHOOSE p \in at.pos .. Len(d) :
        /\ p = Len(d) \/ Wanted(At(d, p), at.tables)
        /\ \A q \in at.pos .. p - 1 : ~Wanted(At(d, q), at.tables)

Taking(tables, p) == [tables |-> tables, pos |-> p]

TurnFrom(d, at, pos) ==
    LET id == At(d, pos)
        size == Num(At(d, pos + 1))
        next == pos + 2 + Even(size)
        end == IF next > Len(d) THEN Len(d) ELSE next
        s == StreamOf(id)
        grown == [at.tables EXCEPT ![s] =
                    AddChunkTo(@, setup[s].sample, pos, size, size > 0)]
    IN  IF at.pos >= Len(d) \/ ~IsStream(id, at.tables) THEN at
        ELSE IF size > MaxPacketSize THEN [at EXCEPT !.pos = pos + 2]
        ELSE [tables |-> IF end > pos + Even(size) THEN grown ELSE at.tables,
              pos |-> next]

LEMMA TurnIs ==
    ASSUME NEW d, NEW at
    PROVE  TakeChunk(d, setup, at) = TurnFrom(d, at, ChunkFrom(d, at))
BY DEF TakeChunk, TurnFrom, ChunkFrom, First, Wanted

LEMMA ChunkFromIs ==
    ASSUME NEW d \in Seq(Cell), NEW at, NEW p \in Nat, at.pos = p, NEW y \in p .. Len(d),
           y = Len(d) \/ Wanted(At(d, y), at.tables),
           \A q \in p .. y - 1 : ~Wanted(At(d, q), at.tables)
    PROVE  ChunkFrom(d, at) = y
<1> DEFINE G(z) == /\ z \in p .. Len(d)
                   /\ z = Len(d) \/ Wanted(At(d, z), at.tables)
                   /\ \A q \in p .. z - 1 : ~Wanted(At(d, q), at.tables)
<1>1. G(y)
    OBVIOUS
<1>2. \A z : G(z) => z = y
    <2> SUFFICES ASSUME NEW z, G(z) PROVE z = y
        OBVIOUS
    <2>1. z \in p .. Len(d) /\ Len(d) \in Nat
        OBVIOUS
    <2>2. CASE z < y
        <3>1. z \in p .. y - 1 /\ z # Len(d)
            BY <2>1, <2>2
        <3> QED
            BY <3>1
    <2>3. CASE y < z
        <3>1. y \in p .. z - 1 /\ y # Len(d)
            BY <2>1, <2>3
        <3> QED
            BY <3>1
    <2> QED
        BY <2>1, <2>2, <2>3
<1>3. ChunkFrom(d, at) = CHOOSE z : G(z)
    BY DEF ChunkFrom
<1> QED
    <2> HIDE DEF G
    <2> QED
        BY <1>1, <1>2, <1>3

LEMMA TakingFields ==
    ASSUME NEW tables, NEW p
    PROVE  Taking(tables, p).tables = tables /\ Taking(tables, p).pos = p
BY DEF Taking

\* At a chunk that is there, and is the last cell of it not cut, or one cell is
Meets(d, tables, T, S, V, p, b, s, z, e) ==
    /\ p \in Nat /\ p < Len(d) /\ b \in Nat /\ Len(d) \in Nat
    /\ tables \in [S -> V] /\ T \in [S -> V] /\ s \in S
    /\ At(d, b) = ChunkId(s) /\ Num(At(d, b + 1)) = z /\ z \in Nat /\ z <= MaxPacketSize
    /\ e = b + 2 + Even(z)
    /\ T[s] = AddChunkTo(tables[s], setup[s].sample, b, z, z > 0)
    /\ \A t \in S : t # s => T[t] = tables[t]

Turned(d, tables, p, b, T, e) == TurnFrom(d, Taking(tables, p), b) = Taking(T, e)

LEMMA ChunkIds == \A s : StreamOf(ChunkId(s)) = s
BY DEF StreamOf, ChunkId

LEMMA TurnTakes ==
    \A d, tables, T, S, V, p, b, s, z, e :
        Meets(d, tables, T, S, V, p, b, s, z, e) /\ e <= Len(d) + 1
            => Turned(d, tables, p, b, T, e)
<1> SUFFICES ASSUME NEW d, NEW tables, NEW T, NEW S, NEW V, NEW p, NEW b, NEW s, NEW z, NEW e,
                    Meets(d, tables, T, S, V, p, b, s, z, e), e <= Len(d) + 1
             PROVE  Turned(d, tables, p, b, T, e)
    OBVIOUS
<1> USE DEF Meets
<1> DEFINE y == AddChunkTo(tables[s], setup[s].sample, b, z, z > 0)
<1>1. T = [tables EXCEPT ![s] = y] /\ s \in DOMAIN tables
    <2>1. T[s] = y
        OBVIOUS
    <2> HIDE DEF y
    <2> QED
        BY <2>1
<1> PICK at : at = Taking(tables, p)
    OBVIOUS
<1>2. at.tables = tables /\ at.pos = p
    BY TakingFields
<1>3. Even(z) \in Nat
    BY EvenIsNat
<1>4. ~(at.pos >= Len(d)) /\ IsStream(At(d, b), at.tables) /\ ~(z > MaxPacketSize)
    <2>1. IsStream(At(d, b), at.tables)
        <3>1. DOMAIN tables = S
            OBVIOUS
        <3>2. IsStream(ChunkId(s), tables)
            BY <3>1 DEF IsStream, ChunkId, StreamOf
        <3> QED
            BY <1>2, <3>2
    <2>2. ~(at.pos >= Len(d))
        BY <1>2
    <2>3. ~(z > MaxPacketSize)
        BY PacketAssumption
    <2> QED
        BY <2>1, <2>2, <2>3
<1>5. StreamOf(At(d, b)) = s
    BY ChunkIds
<1> PICK f : f = IF e > Len(d) THEN Len(d) ELSE e
    OBVIOUS
<1>6. f > b + Even(z)
    <2> PICK v \in Nat : v = Even(z)
        BY <1>3
    <2>1. e = b + 2 + v
        OBVIOUS
    <2> QED
        BY <2>1
<1>7. TurnFrom(d, at, b)
        = [tables |-> IF f > b + Even(z)
                      THEN [at.tables EXCEPT ![s] = AddChunkTo(@, setup[s].sample, b, z, z > 0)]
                      ELSE at.tables,
           pos |-> e]
    BY <1>4, <1>5, Zenon DEF TurnFrom
<1>8. [at.tables EXCEPT ![s] = AddChunkTo(@, setup[s].sample, b, z, z > 0)] = T
    <2>1. [tables EXCEPT ![s] = AddChunkTo(@, setup[s].sample, b, z, z > 0)]
            = [tables EXCEPT ![s] = y]
        BY Zenon
    <2> HIDE DEF y
    <2> QED
        BY <1>1, <1>2, <2>1
<1>9. TurnFrom(d, at, b) = [tables |-> T, pos |-> e]
    BY <1>6, <1>7, <1>8, Zenon
<1> QED
    BY <1>9 DEF Turned, Taking

LEMMA TurnCuts ==
    \A d, tables, T, S, V, p, b, s, z, e :
        Meets(d, tables, T, S, V, p, b, s, z, e) /\ ~(e <= Len(d) + 1)
            => Turned(d, tables, p, b, tables, e)
<1> SUFFICES ASSUME NEW d, NEW tables, NEW T, NEW S, NEW V, NEW p, NEW b, NEW s, NEW z, NEW e,
                    Meets(d, tables, T, S, V, p, b, s, z, e), ~(e <= Len(d) + 1)
             PROVE  Turned(d, tables, p, b, tables, e)
    OBVIOUS
<1> USE DEF Meets
<1> PICK at : at = Taking(tables, p)
    OBVIOUS
<1>2. at.tables = tables /\ at.pos = p
    BY TakingFields
<1>3. Even(z) \in Nat
    BY EvenIsNat
<1>4. ~(at.pos >= Len(d)) /\ IsStream(At(d, b), at.tables) /\ ~(z > MaxPacketSize)
    <2>1. IsStream(At(d, b), at.tables)
        <3>1. DOMAIN tables = S
            OBVIOUS
        <3>2. IsStream(ChunkId(s), tables)
            BY <3>1 DEF IsStream, ChunkId, StreamOf
        <3> QED
            BY <1>2, <3>2
    <2>2. ~(at.pos >= Len(d))
        BY <1>2
    <2>3. ~(z > MaxPacketSize)
        BY PacketAssumption
    <2> QED
        BY <2>1, <2>2, <2>3
<1>5. StreamOf(At(d, b)) = s
    BY ChunkIds
<1> PICK f : f = IF e > Len(d) THEN Len(d) ELSE e
    OBVIOUS
<1>6. ~(f > b + Even(z))
    <2> PICK v \in Nat : v = Even(z)
        BY <1>3
    <2>1. e = b + 2 + v
        OBVIOUS
    <2> QED
        BY <2>1
<1>7. TurnFrom(d, at, b)
        = [tables |-> IF f > b + Even(z)
                      THEN [at.tables EXCEPT ![s] = AddChunkTo(@, setup[s].sample, b, z, z > 0)]
                      ELSE at.tables,
           pos |-> e]
    BY <1>4, <1>5, Zenon DEF TurnFrom
<1>9. TurnFrom(d, at, b) = [tables |-> tables, pos |-> e]
    BY <1>2, <1>6, <1>7, Zenon
<1> QED
    BY <1>9 DEF Turned, Taking

\* Only the id of the chunk is there.
LEMMA TurnShort ==
    ASSUME NEW d, NEW tables, NEW p, NEW b \in Nat, NEW e, p < Len(d), p \in Nat, Len(d) \in Nat,
           IsStream(At(d, b), tables), ~(b + 1 < Len(d)), e = b + 2
    PROVE  Turned(d, tables, p, b, tables, e)
<1> PICK at : at = Taking(tables, p)
    OBVIOUS
<1>2. at.tables = tables /\ at.pos = p
    BY TakingFields
<1>3. Num(At(d, b + 1)) = MaxPacketSize + 1
    BY DEF At, Num, Eof
<1>4. MaxPacketSize + 1 > MaxPacketSize
    BY PacketAssumption
<1>5. ~(at.pos >= Len(d) \/ ~IsStream(At(d, b), at.tables))
    <2>1. ~(at.pos >= Len(d))
        BY <1>2
    <2> QED
        BY <1>2, <2>1
<1>6. TurnFrom(d, at, b) = [at EXCEPT !.pos = b + 2]
    BY <1>3, <1>4, <1>5, Zenon DEF TurnFrom
<1>7. [at EXCEPT !.pos = e] = Taking(tables, e)
    <2> DEFINE R == [tables : {tables}, pos : {p, e}]
               r == [at EXCEPT !.pos = e]
    <2>1. at \in R
        BY DEF Taking
    <2>2. r \in R /\ r.pos = e
        BY <2>1
    <2> HIDE DEF r
    <2>3. r = [tables |-> tables, pos |-> e]
        BY <2>2
    <2> QED
        BY <2>3 DEF r, Taking
<1> QED
    BY <1>6, <1>7 DEF Turned

LEMMA TurnStops ==
    ASSUME NEW d, NEW tables, NEW p, NEW b,
           p >= Len(d) \/ ~IsStream(At(d, b), tables)
    PROVE  Turned(d, tables, p, b, tables, p)
<1> PICK at : at = Taking(tables, p)
    OBVIOUS
<1>2. at.tables = tables /\ at.pos = p
    BY TakingFields
<1>3. at.pos >= Len(d) \/ ~IsStream(At(d, b), at.tables)
    BY <1>2
<1>4. TurnFrom(d, at, b) = at
    BY <1>3, Zenon DEF TurnFrom
<1> QED
    BY <1>4 DEF Turned

\* The first N chunks are those that the walk takes: at most one cell is cut.
Got(d, chunks, K, N) ==
    /\ N \in 0 .. K
    /\ \A k \in 1 .. N : /\ EndOf(chunks, k - 1) + 1 < Len(d)
                         /\ EndOf(chunks, k) <= Len(d) + 1
    /\ N < K => ~(/\ EndOf(chunks, N) + 1 < Len(d)
                  /\ EndOf(chunks, N + 1) <= Len(d) + 1)

LEMMA GotSome ==
    ASSUME NEW d, NEW chunks, NEW K \in Nat
    PROVE  \E N : Got(d, chunks, K, N)
<1> DEFINE Y(k) == /\ EndOf(chunks, k - 1) + 1 < Len(d)
                   /\ EndOf(chunks, k) <= Len(d) + 1
           S == {k \in 1 .. K + 1 : k = K + 1 \/ ~Y(k)}
<1>1. S \subseteq Nat /\ S # {}
    <2> HIDE DEF Y
    <2>1. K + 1 \in S /\ S \subseteq Nat
        OBVIOUS
    <2> HIDE DEF S
    <2> QED
        BY <2>1
<1>2. PICK j \in S : \A y \in S : j <= y
    <2> HIDE DEF S
    <2> QED
        BY <1>1, Smallest
<1> PICK N : N = j - 1
    OBVIOUS
<1>3. N \in 0 .. K /\ N + 1 = j /\ (N < K => ~Y(N + 1))
    <2>1. j \in 1 .. K + 1 /\ (j = K + 1 \/ ~Y(j))
        OBVIOUS
    <2> HIDE DEF S, Y
    <2>2. N \in 0 .. K /\ N + 1 = j /\ (N < K => j # K + 1)
        BY <2>1
    <2> QED
        BY <2>1, <2>2
<1>4. \A k \in 1 .. N : Y(k)
    <2> SUFFICES ASSUME NEW k \in 1 .. N PROVE Y(k)
        OBVIOUS
    <2>1. k \in 1 .. K + 1 /\ ~(j <= k)
        BY <1>3
    <2>2. k \notin S
        BY <1>2, <2>1
    <2> QED
        BY <2>1, <2>2
<1>5. (N + 1) - 1 = N
    BY <1>3
<1>6. Got(d, chunks, K, N)
    BY <1>3, <1>4, <1>5 DEF Got
<1> QED
    BY <1>6

\* No cell of the headers is taken for a chunk or for the index.
Clear(d) == \A p \in 0 .. HeaderSize - 1 : ~Is(At(d, p), "idx1") /\ At(d, p)[1] # "chunk"

Start(chunks, m, i) == IF i = 0 THEN m ELSE EndOf(chunks, i)

LEMMA EofIsNone == \A tables : ~Wanted(Eof, tables) /\ ~IsStream(Eof, tables)
BY DEF Wanted, IsStream, Is, Eof

LEMMA TurnBegins ==
    ASSUME NEW d \in Seq(Cell), NEW chunks, NEW K \in Nat, Placed(d, chunks, K), Clear(d),
           HeaderSize \in Nat,
           NEW m \in {0, HeaderSize}, NEW i \in 0 .. K, NEW tables, DOMAIN tables = Streams,
           NEW p, p = Start(chunks, m, i), p < Len(d), NEW b, b = EndOf(chunks, i), b <= Len(d)
    PROVE  /\ ChunkFrom(d, Taking(tables, p)) = b /\ p \in Nat /\ b \in Nat
           /\ b < Len(d) => IsStream(At(d, b), tables)
<1>1. b \in Nat /\ EndOf(chunks, 0) = HeaderSize /\ Len(d) \in Nat
      /\ Len(d) <= EndOf(chunks, K)
    BY DEF Placed
<1>2. p \in Nat /\ b \in p .. Len(d)
    BY <1>1 DEF Start
<1>3. \A q \in p .. b - 1 : ~Wanted(At(d, q), tables)
    <2>1. CASE i = 0
        <3>1. b = HeaderSize /\ \A q \in p .. b - 1 : q \in 0 .. HeaderSize - 1
            BY <1>1, <1>2, <2>1
        <3> QED
            BY <3>1 DEF Clear, Wanted, IsStream
    <2>2. CASE i # 0
        <3>1. p = b
            BY <2>2 DEF Start
        <3> QED
            BY <1>1, <3>1
    <2> QED
        BY <2>1, <2>2
<1>4. b < Len(d) => IsStream(At(d, b), tables)
    <2> HAVE b < Len(d)
    <2>1. i # K
        BY <1>1
    <2>2. i + 1 \in 1 .. K /\ (i + 1) - 1 = i
        BY <2>1
    <2>3. At(d, b) = ChunkId(chunks[i + 1].stream) /\ chunks[i + 1].stream \in Streams
        BY <2>2 DEF Placed
    <2> QED
        BY <2>3 DEF IsStream, StreamOf, ChunkId
<1>5. b = Len(d) \/ Wanted(At(d, b), tables)
    BY <1>1, <1>4 DEF Wanted
<1> PICK at : at = Taking(tables, p)
    OBVIOUS
<1>6. at.pos = p /\ at.tables = tables
    BY TakingFields
<1>7. ChunkFrom(d, at) = b
    <2>1. b = Len(d) \/ Wanted(At(d, b), at.tables)
        BY <1>5, <1>6
    <2>2. \A q \in p .. b - 1 : ~Wanted(At(d, q), at.tables)
        BY <1>3, <1>6
    <2> QED
        BY <1>2, <1>6, <2>1, <2>2, ChunkFromIs
<1> QED
    BY <1>1, <1>2, <1>4, <1>7

Keyed(chunks) == \A k \in 1 .. Len(chunks) : chunks[k].key = (chunks[k].size > 0)

LEMMA MeetsChunk ==
    ASSUME NEW d \in Seq(Cell), NEW chunks, NEW K, K = Len(chunks),
           Placed(d, chunks, K), ChunksOK(chunks), Keyed(chunks), NEW x,
           NEW k \in 1 .. K, NEW p \in Nat, p < Len(d),
           NEW b, b = EndOf(chunks, k - 1), b + 1 < Len(d), NEW e, e = EndOf(chunks, k)
    PROVE  \E V, s, z : Meets(d, PartsAt(chunks, k - 1, x), PartsAt(chunks, k, x),
                              Streams, V, p, b, s, z, e)
<1> PICK s, z : s = chunks[k].stream /\ z = chunks[k].size
    OBVIOUS
<1> DEFINE T0 == PartsAt(chunks, k - 1, x)
           T1 == PartsAt(chunks, k, x)
           V == {T0[t] : t \in Streams} \cup {T1[t] : t \in Streams}
<1>0. K \in Nat
    BY PlaceFacts
<1>1. k - 1 \in 0 .. K
    BY <1>0
<1>2. b \in Nat /\ Len(d) \in Nat
    <2>1. \A i \in 0 .. K : EndOf(chunks, i) \in Nat
        BY DEF Placed
    <2> QED
        BY <1>1, <2>1
<1>3. b < Len(d)
    BY <1>2
<1>4. /\ s \in Streams /\ z \in Nat /\ z <= MaxPacketSize /\ e = b + 2 + Even(z)
      /\ At(d, b) = ChunkId(s) /\ Num(At(d, b + 1)) = z
    <2>1. \A i \in 1 .. K :
            /\ chunks[i].size \in Nat /\ chunks[i].size <= MaxPacketSize
            /\ chunks[i].stream \in Streams
            /\ EndOf(chunks, i) = EndOf(chunks, i - 1) + 2 + Even(chunks[i].size)
            /\ EndOf(chunks, i - 1) < Len(d) =>
                 At(d, EndOf(chunks, i - 1)) = ChunkId(chunks[i].stream)
            /\ EndOf(chunks, i - 1) + 1 < Len(d) =>
                 Num(At(d, EndOf(chunks, i - 1) + 1)) = chunks[i].size
        BY DEF Placed
    <2> QED
        BY <1>3, <2>1
<1>9. T0 \in [Streams -> V] /\ T1 \in [Streams -> V]
    <2>1. /\ T0 = [t \in Streams |-> PartOf(chunks, t, k - 1, x[t])]
          /\ T1 = [t \in Streams |-> PartOf(chunks, t, k, x[t])]
        BY Zenon DEF PartsAt
    <2> HIDE DEF T0, T1
    <2> QED
        BY <2>1
<1>10. T1[s] = AddChunkTo(T0[s], setup[s].sample, b, z, z > 0)
    <2>1. T0[s] = PartOf(chunks, s, k - 1, x[s]) /\ T1[s] = PartOf(chunks, s, k, x[s])
        BY <1>4 DEF PartsAt
    <2>2. PartOf(chunks, s, k, x[s])
            = AddChunkTo(PartOf(chunks, s, k - 1, x[s]), setup[s].sample, BeginOf(chunks, k),
                         z, chunks[k].key)
        BY PartGrows
    <2>3. chunks[k].key = (z > 0) /\ BeginOf(chunks, k) = b
        BY DEF Keyed, BeginOf
    <2> HIDE DEF T0, T1
    <2> QED
        BY <2>1, <2>2, <2>3, Zenon
<1>11. \A t \in Streams : t # s => T1[t] = T0[t]
    <2>1. \A t \in Streams : t # s =>
              PartOf(chunks, t, k, x[t]) = PartOf(chunks, t, k - 1, x[t])
        BY PartStays
    <2> QED
        BY <2>1 DEF PartsAt
<1> HIDE DEF T0, T1, V
<1>12. Meets(d, T0, T1, Streams, V, p, b, s, z, e)
    BY <1>2, <1>4, <1>9, <1>10, <1>11, Zenon DEF Meets
<1> QED
    BY <1>12 DEF T0, T1

Walks(d, a, b) == TakeChunk(d, setup, a) = b

LEMMA WalksIs ==
    ASSUME NEW d, NEW tables, NEW p, NEW b, b = ChunkFrom(d, Taking(tables, p)), NEW T, NEW e,
           Turned(d, tables, p, b, T, e)
    PROVE  Walks(d, Taking(tables, p), Taking(T, e))
<1>1. TakeChunk(d, setup, Taking(tables, p))
        = TurnFrom(d, Taking(tables, p), ChunkFrom(d, Taking(tables, p)))
    BY TurnIs
<1> QED
    BY <1>1 DEF Turned, Walks

LEMMA PartsOver ==
    ASSUME NEW chunks, NEW i, NEW T, NEW x, T = PartsAt(chunks, i, x)
    PROVE  DOMAIN T = Streams
BY Zenon DEF PartsAt

LEMMA ChunkTurn ==
    ASSUME NEW d \in Seq(Cell), NEW chunks, NEW K, K = Len(chunks),
           Placed(d, chunks, K), ChunksOK(chunks), Keyed(chunks), Clear(d),
           HeaderSize \in Nat, NEW m \in {0, HeaderSize}, NEW x,
           NEW N, Got(d, chunks, K, N), NEW k \in 1 .. N
    PROVE  Walks(d, Taking(PartsAt(chunks, k - 1, x), Start(chunks, m, k - 1)),
                 Taking(PartsAt(chunks, k, x), Start(chunks, m, k)))
<1>1. K \in Nat /\ N \in 0 .. K
    BY PlaceFacts DEF Got
<1>2. k \in 1 .. K /\ k - 1 \in 0 .. K /\ k # 0 /\ k \in 0 .. K
    BY <1>1
<1> PICK p, b, e : p = Start(chunks, m, k - 1) /\ b = EndOf(chunks, k - 1) /\ e = EndOf(chunks, k)
    OBVIOUS
<1>3. \A i \in 0 .. K : EndOf(chunks, i) \in Nat /\ EndOf(chunks, i) >= HeaderSize + 2 * i
    BY DEF Placed
<1>4. b \in Nat /\ e \in Nat /\ Len(d) \in Nat /\ EndOf(chunks, 0) = HeaderSize
    BY <1>2, <1>3 DEF Placed
<1>5. b + 1 < Len(d) /\ e <= Len(d) + 1
    BY DEF Got
<1>6. p \in Nat /\ p <= b /\ p < Len(d) /\ b <= Len(d)
    BY <1>4, <1>5 DEF Start
<1> PICK T0, T1 : T0 = PartsAt(chunks, k - 1, x) /\ T1 = PartsAt(chunks, k, x)
    OBVIOUS
<1>7. DOMAIN T0 = Streams
    <2> PICK i : i = k - 1
        OBVIOUS
    <2> QED
        BY PartsOver
<1>8. ChunkFrom(d, Taking(T0, p)) = b
    <2> PICK j : j = k - 1
        OBVIOUS
    <2>1. j \in 0 .. K /\ p = Start(chunks, m, j) /\ b = EndOf(chunks, j)
        BY <1>2
    <2> QED
        BY <1>1, <1>6, <1>7, <2>1, TurnBegins
<1>9. PICK W, s, z : Meets(d, T0, T1, Streams, W, p, b, s, z, e)
    BY <1>2, <1>5, <1>6, MeetsChunk
<1>10. Turned(d, T0, p, b, T1, e)
    BY <1>5, <1>9, TurnTakes
<1>11. Walks(d, Taking(T0, p), Taking(T1, e))
    BY <1>8, <1>10, WalksIs
<1>12. Start(chunks, m, k) = e
    BY <1>2 DEF Start
<1> QED
    BY <1>11, <1>12

LEMMA RestTurn ==
    ASSUME NEW d \in Seq(Cell), NEW chunks, NEW K, K = Len(chunks),
           Placed(d, chunks, K), ChunksOK(chunks), Keyed(chunks), Clear(d),
           HeaderSize \in Nat, HeaderSize <= Len(d), NEW m \in {0, HeaderSize}, NEW x,
           NEW N, Got(d, chunks, K, N), NEW T, T = PartsAt(chunks, N, x)
    PROVE  \E u : /\ Walks(d, Taking(T, Start(chunks, m, N)), Taking(T, u))
                  /\ Walks(d, Taking(T, u), Taking(T, u))
<1>1. K \in Nat /\ N \in 0 .. K
    BY PlaceFacts DEF Got
<1> PICK p, b : p = Start(chunks, m, N) /\ b = EndOf(chunks, N)
    OBVIOUS
<1>3. \A i \in 0 .. K : EndOf(chunks, i) \in Nat /\ EndOf(chunks, i) >= HeaderSize + 2 * i
    BY DEF Placed
<1>4. b \in Nat /\ Len(d) \in Nat /\ EndOf(chunks, 0) = HeaderSize /\ Len(d) <= EndOf(chunks, K)
    BY <1>1, <1>3 DEF Placed
<1>5. \A u : u >= Len(d) => Walks(d, Taking(T, u), Taking(T, u))
    <2> SUFFICES ASSUME NEW u, u >= Len(d) PROVE Walks(d, Taking(T, u), Taking(T, u))
        OBVIOUS
    <2> PICK c : c = ChunkFrom(d, Taking(T, u))
        OBVIOUS
    <2>1. Turned(d, T, u, c, T, u)
        BY TurnStops
    <2> QED
        BY <2>1, WalksIs
<1>6. CASE p >= Len(d)
    BY <1>5, <1>6
<1>7. CASE p < Len(d)
    <2>1. p \in Nat /\ b <= Len(d)
        <3>1. CASE N = 0
            BY <1>4, <3>1 DEF Start
        <3>2. CASE N # 0
            BY <1>4, <1>7, <3>2 DEF Start
        <3> QED
            BY <3>1, <3>2
    <2>2. DOMAIN T = Streams
        BY PartsOver
    <2>3. ChunkFrom(d, Taking(T, p)) = b /\ (b < Len(d) => IsStream(At(d, b), T))
        BY <1>1, <1>7, <2>1, <2>2, TurnBegins
    <2>4. CASE b = Len(d)
        <3>1. ~IsStream(At(d, b), T)
            <4>1. At(d, b) = Eof
                BY <1>4, <2>4 DEF At
            <4> QED
                BY <4>1, EofIsNone
        <3>2. Turned(d, T, p, b, T, p)
            BY <3>1, TurnStops
        <3>3. Walks(d, Taking(T, p), Taking(T, p))
            BY <2>3, <3>2, WalksIs
        <3> QED
            BY <3>3
    <2>5. CASE b < Len(d) /\ b + 1 < Len(d)
        <3> PICK k, e : k = N + 1 /\ e = EndOf(chunks, k)
            OBVIOUS
        <3>1. N < K
            <4>1. N # K
                BY <1>4, <2>5
            <4> QED
                BY <1>1, <4>1
        <3>2. k \in 1 .. K /\ k - 1 = N /\ k \in 0 .. K
            BY <1>1, <3>1
        <3>3. ~(e <= Len(d) + 1)
            BY <2>5, <3>1 DEF Got
        <3>4. e \in Nat
            BY <1>3, <3>2
        <3> PICK T1 : T1 = PartsAt(chunks, k, x)
            OBVIOUS
        <3>5. PICK W, s, z : Meets(d, T, T1, Streams, W, p, b, s, z, e)
            <4>1. \E W, s, z : Meets(d, PartsAt(chunks, k - 1, x), PartsAt(chunks, k, x),
                                     Streams, W, p, b, s, z, e)
                BY <1>7, <2>1, <2>5, <3>2, MeetsChunk
            <4> QED
                BY <3>2, <4>1
        <3>6. Turned(d, T, p, b, T, e)
            BY <3>3, <3>5, TurnCuts
        <3>7. Walks(d, Taking(T, p), Taking(T, e))
            BY <2>3, <3>6, WalksIs
        <3>8. e >= Len(d)
            BY <1>4, <3>3, <3>4
        <3> QED
            BY <1>5, <3>7, <3>8
    <2>6. CASE b < Len(d) /\ ~(b + 1 < Len(d))
        <3> PICK e : e = b + 2
            OBVIOUS
        <3>1. Turned(d, T, p, b, T, e)
            BY <1>4, <1>7, <2>1, <2>3, <2>6, TurnShort
        <3>2. Walks(d, Taking(T, p), Taking(T, e))
            BY <2>3, <3>1, WalksIs
        <3>3. e >= Len(d)
            BY <1>4, <2>6
        <3> QED
            BY <1>5, <3>2, <3>3
    <2> QED
        BY <1>4, <2>1, <2>4, <2>5, <2>6
<1> QED
    BY <1>1, <1>3, <1>4, <1>6, <1>7 DEF Start

LEMMA ChunksRebuilt ==
    ASSUME NEW d \in Seq(Cell), NEW chunks, NEW K, K = Len(chunks),
           Placed(d, chunks, K), ChunksOK(chunks), Keyed(chunks), Clear(d),
           HeaderSize \in Nat, HeaderSize <= Len(d), NEW m \in {0, HeaderSize}, NEW x,
           NEW N, Got(d, chunks, K, N)
    PROVE  reconstructIndexChunk(d, setup, PartsAt(chunks, 0, x), m) = PartsAt(chunks, N, x)
<1> PICK t : t = Turns(d)
    OBVIOUS
<1> PICK U : U = PartsAt(chunks, N, x)
    OBVIOUS
<1>1. K \in Nat /\ N \in 0 .. K
    BY PlaceFacts DEF Got
<1>2. t \in Nat /\ t >= N
    <2>1. t = Len(d) \div 2 + 1 /\ Len(d) \in Nat
        BY DEF Turns
    <2>2. CASE N = 0
        BY <2>1, <2>2
    <2>3. CASE N # 0
        <3>1. N \in 1 .. N /\ N - 1 \in 0 .. K
            BY <1>1, <2>3
        <3>2. EndOf(chunks, N - 1) + 1 < Len(d)
            BY <3>1 DEF Got
        <3>3. \A i \in 0 .. K : EndOf(chunks, i) \in Nat /\ EndOf(chunks, i) >= HeaderSize + 2 * i
            BY DEF Placed
        <3> PICK b : b = EndOf(chunks, N - 1)
            OBVIOUS
        <3>4. b \in Nat /\ b >= HeaderSize + 2 * (N - 1) /\ b + 1 < Len(d)
            BY <3>1, <3>2, <3>3
        <3>5. 2 * N <= Len(d)
            BY <1>1, <2>1, <3>4
        <3> QED
            BY <1>1, <2>1, <3>5
    <2> QED
        BY <2>2, <2>3
<1>3. PICK u : /\ Walks(d, Taking(U, Start(chunks, m, N)), Taking(U, u))
               /\ Walks(d, Taking(U, u), Taking(U, u))
    BY RestTurn
<1> DEFINE A(i) == Taking(PartsAt(chunks, i, x), Start(chunks, m, i))
           H == [i \in 0 .. t |-> IF i <= N THEN A(i) ELSE Taking(U, u)]
<1>4. \A i \in 0 .. t : H[i] = IF i <= N THEN A(i) ELSE Taking(U, u)
    BY Zenon
<1> HIDE DEF H
<1>5. H[0] = [tables |-> PartsAt(chunks, 0, x), pos |-> m]
    <2>1. 0 \in 0 .. t /\ 0 <= N
        BY <1>1, <1>2
    <2>2. H[0] = A(0)
        BY <1>4, <2>1
    <2> QED
        BY <2>2 DEF Taking, Start
<1>6. \A k \in 1 .. t : H[k] = TakeChunk(d, setup, H[k - 1])
    <2> SUFFICES ASSUME NEW k \in 1 .. t PROVE Walks(d, H[k - 1], H[k])
        BY DEF Walks
    <2>1. k \in 0 .. t /\ k - 1 \in 0 .. t
        BY <1>2
    <2>2. CASE k <= N
        <3>1. k \in 1 .. N /\ k - 1 <= N
            BY <1>1, <2>2
        <3>2. H[k - 1] = A(k - 1) /\ H[k] = A(k)
            BY <1>4, <2>1, <2>2, <3>1
        <3>3. Walks(d, A(k - 1), A(k))
            BY <3>1, ChunkTurn
        <3> HIDE DEF A
        <3> QED
            BY <3>2, <3>3
    <2>3. CASE k = N + 1
        <3>1. k - 1 = N /\ N <= N /\ ~(k <= N)
            BY <1>1, <2>3
        <3>2. H[k - 1] = A(N) /\ H[k] = Taking(U, u)
            BY <1>4, <2>1, <3>1
        <3>3. A(N) = Taking(U, Start(chunks, m, N))
            OBVIOUS
        <3> HIDE DEF A
        <3> QED
            BY <1>3, <3>2, <3>3
    <2>4. CASE k > N + 1
        <3>1. ~(k - 1 <= N) /\ ~(k <= N)
            BY <1>1, <2>4
        <3>2. H[k - 1] = Taking(U, u) /\ H[k] = Taking(U, u)
            BY <1>4, <2>1, <3>1
        <3> QED
            BY <1>3, <3>2
    <2> QED
        BY <1>1, <2>2, <2>3, <2>4
<1>7. reconstructIndexChunk(d, setup, PartsAt(chunks, 0, x), m) = H[t].tables
    BY <1>2, <1>5, <1>6, RebuildLoop
<1>8. H[t].tables = U
    <2>1. t \in 0 .. t
        BY <1>2
    <2>2. CASE t <= N
        <3>1. t = N
            BY <1>1, <1>2, <2>2
        <3>2. H[t] = A(N)
            BY <1>4, <2>1, <2>2, <3>1
        <3> QED
            BY <3>2, TakingFields
    <2>3. CASE ~(t <= N)
        <3>1. H[t] = Taking(U, u)
            BY <1>4, <2>1, <2>3
        <3> QED
            BY <3>1, TakingFields
    <2> QED
        BY <2>2, <2>3
<1> QED
    BY <1>7, <1>8

LEMMA RekeyedSalvage ==
    ASSUME NEW d \in Seq(Cell), NEW chunks, Salvage(d, chunks), NEW u, u = Rekeyed(chunks)
    PROVE  Salvage(d, u) /\ Keyed(u)
<1> PICK K : K = Len(chunks)
    OBVIOUS
<1>1. /\ ChunksOK(chunks) /\ HeaderSize <= Len(d) /\ Len(d) <= EndOf(chunks, K)
      /\ ChunksLie(d, chunks) /\ MovieLies(d, chunks) /\ HeadsLie(d, Len(setup))
    BY DEF Salvage
<1>2. /\ K \in Nat /\ ChunksOK(u) /\ Len(u) = K
      /\ \A k \in 1 .. K : /\ u[k].size = chunks[k].size /\ u[k].stream = chunks[k].stream
                           /\ u[k].key = (chunks[k].size > 0)
      /\ \A k \in 0 .. K : EndOf(u, k) = EndOf(chunks, k)
    BY <1>1, RekeyedSame
<1>3. \A k \in 1 .. K : BeginOf(u, k) = BeginOf(chunks, k)
    <2>1. \A k \in 1 .. K : k - 1 \in 0 .. K
        BY <1>2
    <2> QED
        BY <1>2, <2>1 DEF BeginOf
<1>4. ChunksLie(d, u)
    <2>1. \A k \in 1 .. K :
            /\ BeginOf(chunks, k) + 1 <= Len(d) =>
                   d[BeginOf(chunks, k) + 1] = ChunkId(chunks[k].stream)
            /\ BeginOf(chunks, k) + 2 <= Len(d) =>
                   d[BeginOf(chunks, k) + 2] = Number(chunks[k].size)
        BY <1>1 DEF ChunksLie
    <2> SUFFICES ASSUME NEW k \in 1 .. K
                 PROVE  /\ BeginOf(u, k) + 1 <= Len(d) =>
                             d[BeginOf(u, k) + 1] = ChunkId(u[k].stream)
                        /\ BeginOf(u, k) + 2 <= Len(d) =>
                             d[BeginOf(u, k) + 2] = Number(u[k].size)
        BY <1>2 DEF ChunksLie
    <2>2. /\ BeginOf(u, k) = BeginOf(chunks, k)
          /\ u[k].size = chunks[k].size /\ u[k].stream = chunks[k].stream
        BY <1>2, <1>3
    <2> QED
        BY <2>1, <2>2
<1>5. MovieLies(d, u)
    <2>1. \A k \in 1 .. K : EndOf(u, k) = EndOf(chunks, k)
        BY <1>2
    <2> QED
        BY <1>1, <1>2, <2>1 DEF MovieLies
<1>6. Len(d) <= EndOf(u, K)
    <2>1. K \in 0 .. K
        BY <1>2
    <2> QED
        BY <1>1, <1>2, <2>1
<1>7. Salvage(d, u)
    BY <1>1, <1>2, <1>4, <1>5, <1>6 DEF Salvage
<1>8. Keyed(u)
    BY <1>2 DEF Keyed
<1> QED
    BY <1>7, <1>8

LEMMA HeadsClear ==
    ASSUME NEW d \in Seq(Cell), NEW chunks, Salvage(d, chunks),
           \A i \in DOMAIN d : d[i] # Id("idx1")
    PROVE  Clear(d)
<1>1. HeaderSize <= Len(d) /\ \A i \in 1 .. HeaderSize : d[i][1] # "chunk"
    BY DEF Salvage, HeadsLie
<1>2. SUFFICES ASSUME NEW p \in 0 .. HeaderSize - 1
               PROVE  ~Is(At(d, p), "idx1") /\ At(d, p)[1] # "chunk"
    BY DEF Clear
<1>3. HeaderSize \in Nat /\ Len(d) \in Nat
    BY HeaderAssumption
<1>4. p + 1 \in 1 .. HeaderSize /\ p < Len(d) /\ p + 1 \in DOMAIN d
    BY <1>1, <1>3
<1>5. At(d, p) = d[p + 1]
    BY <1>4 DEF At
<1>6. d[p + 1] # Id("idx1") /\ d[p + 1][1] # "chunk"
    BY <1>1, <1>4
<1> QED
    BY <1>5, <1>6 DEF Is, Id

\* The chunks that are there to their last cell: all but the last that are taken
LEMMA WholeAre ==
    ASSUME NEW d \in Seq(Cell), NEW chunks, NEW K \in Nat, Placed(d, chunks, K),
           NEW N, Got(d, chunks, K, N),
           NEW S, S = {k \in 1 .. K : EndOf(chunks, k) <= Len(d)}
    PROVE  N \in {Cardinality(S), Cardinality(S) + 1}
<1>1. \A k \in 0 .. K : EndOf(chunks, k) \in Nat
    BY DEF Placed
<1>2. \A k \in 1 .. K : EndOf(chunks, k) = EndOf(chunks, k - 1) + 2 + Even(chunks[k].size)
                        /\ Even(chunks[k].size) \in Nat
    <2>1. \A k \in 1 .. K : chunks[k].size \in Nat
            /\ EndOf(chunks, k) = EndOf(chunks, k - 1) + 2 + Even(chunks[k].size)
        BY DEF Placed
    <2> QED
        BY <2>1, EvenIsNat
<1>3. \A k \in 1 .. K : EndOf(chunks, k - 1) + 2 <= EndOf(chunks, k)
    <2> SUFFICES ASSUME NEW k \in 1 .. K PROVE EndOf(chunks, k - 1) + 2 <= EndOf(chunks, k)
        OBVIOUS
    <2>1. k - 1 \in 0 .. K
        OBVIOUS
    <2>2. EndOf(chunks, k - 1) \in Nat
        BY <1>1, <2>1
    <2> PICK e \in Nat : e = Even(chunks[k].size)
        BY <1>2
    <2>3. EndOf(chunks, k) = EndOf(chunks, k - 1) + 2 + e
        BY <1>2
    <2> QED
        BY <2>2, <2>3
<1>4. \A j, k \in 0 .. K : j <= k => EndOf(chunks, j) <= EndOf(chunks, k)
    <2>1. \A k \in 1 .. K : chunks[k].size \in Nat
        BY DEF Placed
    <2> QED
        BY <2>1, EndGrows
<1>5. /\ N \in 0 .. K
      /\ \A k \in 1 .. N : EndOf(chunks, k) <= Len(d) + 1
      /\ N < K => ~(EndOf(chunks, N) + 1 < Len(d) /\ EndOf(chunks, N + 1) <= Len(d) + 1)
    BY DEF Got
<1>6. Len(d) \in Nat
    OBVIOUS
<1>7. \A k \in 1 .. N : k # N => k \in S
    <2> SUFFICES ASSUME NEW k \in 1 .. N, k # N PROVE k \in S
        OBVIOUS
    <2>1. k + 1 \in 1 .. N /\ k + 1 \in 1 .. K /\ k \in 1 .. K /\ (k + 1) - 1 = k
          /\ k \in 0 .. K /\ k + 1 \in 0 .. K
        BY <1>5
    <2>2. EndOf(chunks, (k + 1) - 1) + 2 <= EndOf(chunks, k + 1)
        BY <1>3, <2>1
    <2>3. EndOf(chunks, k) + 2 <= EndOf(chunks, k + 1) /\ EndOf(chunks, k + 1) <= Len(d) + 1
        BY <1>5, <2>1, <2>2
    <2>4. EndOf(chunks, k) \in Nat /\ EndOf(chunks, k + 1) \in Nat
        BY <1>1, <2>1
    <2>5. EndOf(chunks, k) <= Len(d)
        BY <1>6, <2>3, <2>4
    <2> QED
        BY <2>1, <2>5
<1>8. \A k \in S : k \in 1 .. N
    <2> SUFFICES ASSUME NEW k \in S, k > N PROVE FALSE
        BY <1>5
    <2>1. /\ N < K /\ N + 1 \in 1 .. K /\ N + 1 \in 0 .. K /\ N \in 0 .. K /\ k \in 0 .. K
          /\ N + 1 <= k /\ (N + 1) - 1 = N
        BY <1>5
    <2>2. EndOf(chunks, N + 1) <= EndOf(chunks, k) /\ EndOf(chunks, k) <= Len(d)
        BY <1>4, <2>1
    <2>3. EndOf(chunks, (N + 1) - 1) + 2 <= EndOf(chunks, N + 1)
        BY <1>3, <2>1
    <2>4. EndOf(chunks, N) + 2 <= EndOf(chunks, N + 1)
        BY <2>1, <2>3
    <2>5. EndOf(chunks, k) \in Nat /\ EndOf(chunks, N + 1) \in Nat /\ EndOf(chunks, N) \in Nat
        BY <1>1, <2>1
    <2>6. EndOf(chunks, N) + 1 < Len(d) /\ EndOf(chunks, N + 1) <= Len(d) + 1
        BY <1>6, <2>2, <2>4, <2>5
    <2> QED
        BY <1>5, <2>1, <2>6
<1>9. CASE N \in S
    <2>1. S = 1 .. N
        BY <1>7, <1>8, <1>9
    <2>2. Cardinality(1 .. N) = N
        <3>1. 1 \in Int /\ N \in Int /\ N >= 1
            BY <1>5, <1>8, <1>9
        <3>2. Cardinality(1 .. N) = IF 1 > N THEN 0 ELSE N - 1 + 1
            BY ONLY <3>1, FS_Interval
        <3> QED
            BY <3>1, <3>2
    <2> QED
        BY <2>1, <2>2
<1>10. CASE N \notin S /\ N # 0
    <2>1. S = 1 .. N - 1
        <3>1. \A k \in 1 .. N : k # N <=> k \in 1 .. N - 1
            BY <1>5
        <3>2. \A k \in 1 .. N - 1 : k \in 1 .. N
            BY <1>5
        <3> QED
            BY <1>7, <1>8, <1>10, <3>1, <3>2
    <2>2. Cardinality(1 .. N - 1) = N - 1
        <3>1. 1 \in Int /\ N - 1 \in Int /\ N - 1 >= 0
            BY <1>5, <1>10
        <3>2. Cardinality(1 .. N - 1) = IF 1 > N - 1 THEN 0 ELSE (N - 1) - 1 + 1
            BY ONLY <3>1, FS_Interval
        <3> QED
            BY <3>1, <3>2
    <2> PICK c : c = Cardinality(S)
        OBVIOUS
    <2>3. c = N - 1
        BY <2>1, <2>2
    <2>4. N = c + 1
        BY <1>5, <2>3
    <2> QED
        BY <2>4
<1>11. CASE N = 0
    <2>1. S = {}
        BY <1>8, <1>11
    <2>2. Cardinality({}) = 0
        BY FS_EmptySet
    <2> QED
        BY <1>11, <2>1, <2>2
<1> QED
    BY <1>9, <1>10, <1>11

\* What init has of such a file
Opened1(d, u, N, x) ==
    /\ init(d, setup).opens = TRUE
    /\ init(d, setup).tables
         = [s \in DOMAIN setup |-> fixHeader(PartOf(u, s, N, x[s]), setup[s].sample)]

LEMMA InitSalvages ==
    ASSUME StreamsOK, NEW d \in Seq(Cell), NEW u, Salvage(d, u), Keyed(u), Clear(d),
           NEW K, K = Len(u), NEW N, Got(d, u, K, N)
    PROVE  \E x : Opened1(d, u, N, x)
<1> PICK n : n = Len(setup)
    OBVIOUS
<1>1. K \in Nat /\ Placed(d, u, K)
    BY SalvagePlaced
<1>2. PICK q, m : Found(d, u, n, K, q, m)
    BY SalvageFound
<1>3. n \in Nat /\ n >= 1 /\ Streams = 1 .. n
    BY RoomForHeaders
<1> DEFINE x0 == [s \in 1 .. n |-> Num(At(d, 4 * s + 3))]
<1> PICK x : x = x0
    OBVIOUS
<1>4. Formats(d, x)
    BY DEF Formats
<1> PICK E, U : E = Empties(x, n) /\ U = PartsAt(u, N, x)
    OBVIOUS
<1>5. PICK p : readChunks(d, setup) = Part(p, m, E)
    <2>1. \E p : readChunks(d, setup) = Part(p, m, Empties(x, n))
        BY ONLY StreamsOK, d \in Seq(Cell), n = Len(setup), <1>1, <1>2, <1>4, PartsWalked
    <2> QED
        BY <2>1
<1>6. ChunksOK(u) /\ HeaderSize \in Nat /\ HeaderSize <= Len(d) /\ m \in {0, HeaderSize}
      /\ At(d, 0) = Id("RIFF")
    BY <1>2 DEF Salvage, Found
<1>7. PartsAt(u, 0, x) = E
    BY <1>6, EmptiesAre
<1>8. reconstructIndexChunk(d, setup, E, m) = U
    <2>1. reconstructIndexChunk(d, setup, PartsAt(u, 0, x), m) = PartsAt(u, N, x)
        BY <1>1, <1>6, ChunksRebuilt
    <2> QED
        BY <1>7, <2>1
<1> PICK end : end = readChunks(d, setup)
    OBVIOUS
<1>9. end.indexed = FALSE /\ end.tables = E /\ end.movie = m
    BY <1>5 DEF Part
<1>10. E # <<>>
    <2>1. 1 \in DOMAIN E
        BY <1>3 DEF Empties
    <2> QED
        BY <2>1
<1>11. Is(At(d, 0), "RIFF")
    BY <1>6, NamesDiffer
<1>12. init(d, setup)
         = [opens |-> Is(At(d, 0), "RIFF") /\ E # <<>>, ok |-> end.ok,
            tables |-> [s \in DOMAIN U |-> fixHeader(U[s], setup[s].sample)]]
    <2> DEFINE tb == IF end.indexed THEN end.tables
                     ELSE reconstructIndexChunk(d, setup, end.tables, end.movie)
    <2>1. tb = U
        BY <1>8, <1>9
    <2>2. init(d, setup)
            = [opens |-> Is(At(d, 0), "RIFF") /\ end.tables # <<>>, ok |-> end.ok,
               tables |-> [s \in DOMAIN tb |-> fixHeader(tb[s], setup[s].sample)]]
        BY DEF init, Result
    <2> HIDE DEF tb
    <2> QED
        BY <1>9, <2>1, <2>2, Zenon
<1> PICK F, A, B, C :
        /\ F = init(d, setup) /\ A = (Is(At(d, 0), "RIFF") /\ E # <<>>) /\ B = end.ok
        /\ C = [s \in DOMAIN U |-> fixHeader(U[s], setup[s].sample)]
    OBVIOUS
<1>13. F.opens = A /\ F.tables = C
    <2>1. F = [opens |-> A, ok |-> B, tables |-> C]
        BY <1>12, Zenon
    <2> QED
        BY ONLY <2>1
<1>14. init(d, setup).opens = TRUE
    BY <1>10, <1>11, <1>13, Zenon
<1>15. init(d, setup).tables
         = [s \in DOMAIN setup |-> fixHeader(PartOf(u, s, N, x[s]), setup[s].sample)]
    <2>1. DOMAIN U = Streams /\ \A s \in Streams : U[s] = PartOf(u, s, N, x[s])
        BY DEF PartsAt
    <2>2. C = [s \in DOMAIN setup |-> fixHeader(U[s], setup[s].sample)]
        BY <2>1 DEF Streams
    <2>3. [s \in DOMAIN setup |-> fixHeader(U[s], setup[s].sample)]
            = [s \in DOMAIN setup |-> fixHeader(PartOf(u, s, N, x[s]), setup[s].sample)]
        BY <2>1 DEF Streams
    <2> QED
        BY <1>13, <2>2, <2>3, Zenon
<1>16. Opened1(d, u, N, x)
    BY <1>14, <1>15, Zenon DEF Opened1
<1> QED
    BY <1>16

\* The offset of a chunk, with the mark of a key frame or not, leads to it.
LEMMA OffsetLeads ==
    ASSUME NEW chunks, NEW K \in Nat, NEW k \in 1 .. K, NEW b, b = EndOf(chunks, k - 1),
           b \in Nat, b >= 1, b % 2 = 0
    PROVE  Even(Shown(chunks, k) - 1) = b
<1>1. Shown(chunks, k) = b + IF chunks[k].key THEN 1 ELSE 0
    BY DEF Shown, BeginOf
<1>2. CASE chunks[k].key
    <2>1. Shown(chunks, k) - 1 = b
        BY <1>1, <1>2
    <2> QED
        BY <2>1 DEF Even
<1>3. CASE ~chunks[k].key
    <2>1. Shown(chunks, k) - 1 = b - 1 /\ (b - 1) % 2 = 1
        BY <1>1, <1>3
    <2> QED
        BY <2>1 DEF Even
<1> QED
    BY <1>2, <1>3

OffsetsLead(t, chunks, own) ==
    [n \in DOMAIN t.offsets |-> Even(t.offsets[n] - 1)]
      = [k \in DOMAIN own |-> BeginOf(chunks, own[k])]

LEMMA OffsetsFound ==
    ASSUME NEW u, NEW chunks, NEW K \in Nat, NEW N \in 0 .. K, NEW s, NEW own, NEW t, NEW x,
           NEW z, own = OfStream(chunks, s, N), own = OfStream(u, s, N),
           \A k \in 1 .. K : /\ EndOf(u, k - 1) = EndOf(chunks, k - 1)
                             /\ EndOf(u, k - 1) \in Nat /\ EndOf(u, k - 1) >= 1
                             /\ EndOf(u, k - 1) % 2 = 0,
           t = fixHeader(PartOf(u, s, N, x), z)
    PROVE  OffsetsLead(t, chunks, own)
<1>1. own \in Seq(1 .. N)
    <2>1. N \in Nat /\ N \in 0 .. N
        OBVIOUS
    <2>2. \A k \in 0 .. N : OfStream(chunks, s, k) \in Seq(1 .. N)
        BY <2>1, OwnSteps
    <2> QED
        BY <2>1, <2>2
<1> PICK L : L = Len(own)
    OBVIOUS
<1>2. L \in Nat /\ DOMAIN own = 1 .. L /\ \A m \in 1 .. L : own[m] \in 1 .. K
    BY <1>1
<1> DEFINE g == [m \in 1 .. L |-> Shown(u, own[m])]
<1>3. t.offsets = g
    <2>1. PartOf(u, s, N, x).offsets = g
        <3> HIDE DEF g
        <3> PICK a, b, c, e : PartOf(u, s, N, x) = [length |-> a, offsets |-> b, positions |-> c,
                                                    size |-> e] /\ b = g
            BY DEF PartOf, g
        <3> QED
            OBVIOUS
    <2> PICK r : r = PartOf(u, s, N, x)
        OBVIOUS
    <2>2. r.offsets = g
        BY <2>1
    <2>3. t.offsets = r.offsets
        <3> PICK y : t = [r EXCEPT !.length = y]
            BY Zenon DEF fixHeader
        <3> QED
            OBVIOUS
    <2> QED
        BY <2>2, <2>3
<1>4. \A m \in 1 .. L : Even(g[m] - 1) = BeginOf(chunks, own[m])
    <2> SUFFICES ASSUME NEW m \in 1 .. L PROVE Even(g[m] - 1) = BeginOf(chunks, own[m])
        OBVIOUS
    <2> PICK k : k = own[m]
        OBVIOUS
    <2> PICK b : b = EndOf(u, k - 1)
        OBVIOUS
    <2>1. k \in 1 .. K /\ g[m] = Shown(u, k)
        BY <1>2
    <2>2. b = EndOf(chunks, k - 1) /\ b \in Nat /\ b >= 1 /\ b % 2 = 0
        BY <2>1
    <2>3. Even(Shown(u, k) - 1) = b
        BY <2>1, <2>2, OffsetLeads
    <2> QED
        BY <2>1, <2>2, <2>3 DEF BeginOf
<1>5. DOMAIN g = 1 .. L
    OBVIOUS
<1> HIDE DEF g
<1> QED
    BY <1>2, <1>3, <1>4, <1>5 DEF OffsetsLead

\* The reader finds the chunks of what is left.
LEMMA SalvageRecovers ==
    ASSUME StreamsOK, disk \in Seq(Cell), Salvage(disk, stored),
           \A i \in DOMAIN disk : disk[i] # Id("idx1")
    PROVE  Recovers
<1> PICK d, chunks, K, u : /\ d = disk /\ chunks = stored /\ K = Len(chunks)
                           /\ u = Rekeyed(chunks)
    OBVIOUS
<1>1. d \in Seq(Cell) /\ Salvage(d, chunks)
    OBVIOUS
<1>2. Clear(d)
    BY <1>1, HeadsClear
<1>3. Salvage(d, u) /\ Keyed(u)
    BY <1>1, RekeyedSalvage
<1>4. ChunksOK(chunks)
    BY <1>1 DEF Salvage
<1>5. /\ K \in Nat /\ Len(u) = K
      /\ \A k \in 0 .. K : EndOf(u, k) = EndOf(chunks, k)
      /\ \A s : \A k \in 0 .. K : OfStream(u, s, k) = OfStream(chunks, s, k)
    BY <1>4, RekeyedSame
<1>6. Placed(d, chunks, K)
    BY <1>1, SalvagePlaced
<1>7. PICK N : Got(d, chunks, K, N)
    BY <1>5, GotSome
<1>8. N \in 0 .. K
    BY <1>7 DEF Got
<1>9. Got(d, u, K, N)
    <2>1. /\ \A k \in 1 .. N : k - 1 \in 0 .. K /\ k \in 0 .. K
          /\ N < K => N + 1 \in 0 .. K
        BY <1>5, <1>8
    <2>2. /\ \A k \in 1 .. N : EndOf(u, k - 1) = EndOf(chunks, k - 1)
                               /\ EndOf(u, k) = EndOf(chunks, k)
          /\ N < K => EndOf(u, N + 1) = EndOf(chunks, N + 1)
          /\ EndOf(u, N) = EndOf(chunks, N)
        BY <1>5, <1>8, <2>1
    <2> QED
        BY <1>7, <2>2 DEF Got
<1>10. PICK x : Opened1(d, u, N, x)
    BY <1>1, <1>2, <1>3, <1>5, <1>9, InitSalvages
<1> PICK found : found = init(disk, setup)
    OBVIOUS
<1>11. /\ found.opens
       /\ found.tables
            = [s \in DOMAIN setup |-> fixHeader(PartOf(u, s, N, x[s]), setup[s].sample)]
    BY <1>10, Zenon DEF Opened1
<1>12. DOMAIN found.tables = DOMAIN setup
    BY <1>11
<1>13. \A k \in 1 .. K : /\ EndOf(u, k - 1) = EndOf(chunks, k - 1)
                         /\ EndOf(u, k - 1) \in Nat /\ EndOf(u, k - 1) >= 1
                         /\ EndOf(u, k - 1) % 2 = 0
    <2>1. \A k \in 0 .. K : /\ EndOf(chunks, k) \in Nat /\ EndOf(chunks, k) >= HeaderSize + 2 * k
                            /\ EndOf(chunks, k) % 2 = 0
        BY <1>6 DEF Placed
    <2>2. HeaderSize \in Nat /\ HeaderSize >= 1
        <3>1. Len(setup) \in Nat /\ HeaderSize \in Nat /\ 8 + 4 * Len(setup) <= HeaderSize
            BY RoomForHeaders
        <3> QED
            BY <3>1
    <2> SUFFICES ASSUME NEW k \in 1 .. K
                 PROVE  /\ EndOf(u, k - 1) = EndOf(chunks, k - 1)
                        /\ EndOf(u, k - 1) \in Nat /\ EndOf(u, k - 1) >= 1
                        /\ EndOf(u, k - 1) % 2 = 0
        OBVIOUS
    <2> PICK j : j = k - 1
        OBVIOUS
    <2>3. j \in 0 .. K
        BY <1>5
    <2> QED
        BY <1>5, <2>1, <2>2, <2>3
<1> DEFINE offsets(s) == [n \in DOMAIN found.tables[s].offsets |->
                            Even(found.tables[s].offsets[n] - 1)]
           begins(s, n) == [k \in DOMAIN OfStream(chunks, s, n) |->
                              BeginOf(chunks, OfStream(chunks, s, n)[k])]
<1>14. \A s \in DOMAIN setup : offsets(s) = begins(s, N)
    <2> SUFFICES ASSUME NEW s \in DOMAIN setup PROVE offsets(s) = begins(s, N)
        OBVIOUS
    <2> PICK t, own, z, y : /\ t = found.tables[s] /\ own = OfStream(chunks, s, N)
                            /\ z = setup[s].sample /\ y = x[s]
        OBVIOUS
    <2>1. t = fixHeader(PartOf(u, s, N, y), z)
        BY <1>11
    <2>2. own = OfStream(u, s, N)
        BY <1>5, <1>8
    <2>3. OffsetsLead(t, chunks, own)
        BY <1>5, <1>8, <1>13, <2>1, <2>2, OffsetsFound
    <2>4. offsets(s) = [n \in DOMAIN t.offsets |-> Even(t.offsets[n] - 1)]
        BY Zenon
    <2>5. begins(s, N) = [k \in DOMAIN own |-> BeginOf(chunks, own[k])]
        BY Zenon
    <2> HIDE DEF offsets, begins
    <2> QED
        BY <2>3, <2>4, <2>5, Zenon DEF OffsetsLead
<1>15. N \in {Cardinality(WholeChunks), Cardinality(WholeChunks) + 1}
    <2>1. chunks \in Seq(Chunk)
        BY <1>4 DEF ChunksOK
    <2>2. DOMAIN chunks = 1 .. K
        BY <2>1
    <2>3. WholeChunks = {k \in 1 .. K : EndOf(chunks, k) <= Len(d)}
        BY <2>2 DEF WholeChunks, IsWhole
    <2> QED
        BY <1>5, <1>6, <1>7, <2>3, WholeAre
<1>16. N <= Len(stored)
    BY <1>5, <1>8
<1> HIDE DEF offsets
<1>17. /\ found.opens /\ DOMAIN found.tables = DOMAIN setup
       /\ \E n \in {Cardinality(WholeChunks), Cardinality(WholeChunks) + 1} :
            /\ n <= Len(stored)
            /\ \A s \in DOMAIN setup : offsets(s) = begins(s, n)
    <2> HIDE DEF begins
    <2> QED
        BY <1>11, <1>12, <1>14, <1>15, <1>16, Zenon
<1> QED
    BY <1>17, Zenon DEF Recovers, offsets

-----------------------------------------------------------------------------
(***************************************************************************)
(* What is on the disk while a file is written.  It is good when every     *)
(* part of it that is there is; it is safe when the chunks that are there  *)
(* can be found, or nothing asks for them.                                 *)
(***************************************************************************)
Prefix(d, w) == Len(d) <= Len(w) /\ \A i \in 1 .. Len(d) : d[i] = w[i]

NoChunk(w) == \A i \in 1 .. HeaderSize : w[i][1] # "chunk"

Body(w, chunks) ==
    LET end == EndOf(chunks, Len(chunks))
    IN  /\ ChunksOK(chunks) /\ HeaderSize <= Len(w)
        /\ Len(w) <= end \/ w[end + 1] = Id("idx1")
        /\ ChunksLie(w, chunks) /\ MovieLies(w, chunks) /\ NoChunk(w)
        /\ w[1] = Id("RIFF") => HeadsLie(w, Len(setup))

Good(w, chunks, st) == IF st = 0 THEN w = <<>> \/ w[1] # Id("RIFF") ELSE Body(w, chunks)

Safe(d, chunks) == \/ d = <<>> \/ d[1] # Id("RIFF")
                   \/ \E i \in DOMAIN d : d[i] = Id("idx1")
                   \/ Salvage(d, chunks)

\* The headers are on the disk, if they are in the file.
Kept(d, w, st) == st # 0 /\ w[1] = Id("RIFF") => HeaderSize <= Len(d)

\* What is said of the headers is said of their cells.
LEMMA SameHeads ==
    ASSUME StreamsOK, NEW w, NEW v, \A i \in 1 .. HeaderSize : v[i] = w[i]
    PROVE  /\ NoChunk(w) => NoChunk(v)
           /\ HeadsLie(w, Len(setup)) => HeadsLie(v, Len(setup))
           /\ \A chunks : MovieLies(w, chunks) => MovieLies(v, chunks)
           /\ v[1] = w[1]
<1>0. PICK n : n = Len(setup)
    OBVIOUS
<1>1. HeaderSize \in Nat /\ n \in Nat /\ n >= 1 /\ 4 + 4 * n + 4 <= HeaderSize
    BY <1>0, RoomFacts
<1>2. /\ 1 \in 1 .. HeaderSize /\ 3 \in 1 .. HeaderSize /\ 4 \in 1 .. HeaderSize
      /\ \A s \in 1 .. n : 4 * s + 1 \in 1 .. HeaderSize /\ 4 * s + 2 \in 1 .. HeaderSize
      /\ 4 * n + 5 \in 1 .. HeaderSize /\ 4 * n + 6 \in 1 .. HeaderSize
      /\ HeaderSize - 1 \in 1 .. HeaderSize /\ HeaderSize \in 1 .. HeaderSize
    BY <1>1
<1>3. NoChunk(w) => NoChunk(v)
    BY DEF NoChunk
<1>4. HeadsLie(w, n) => HeadsLie(v, n)
    BY <1>2 DEF HeadsLie
<1>5. \A chunks : MovieLies(w, chunks) => MovieLies(v, chunks)
    BY <1>2 DEF MovieLies
<1> QED
    BY <1>0, <1>2, <1>3, <1>4, <1>5

LEMMA PrefixSafe ==
    ASSUME StreamsOK, NEW w \in Seq(Cell), NEW d \in Seq(Cell), NEW chunks, NEW st,
           Good(w, chunks, st), Prefix(d, w), Kept(d, w, st)
    PROVE  Safe(d, chunks)
<1>1. /\ Len(d) \in Nat /\ Len(w) \in Nat /\ Len(d) <= Len(w)
      /\ \A i \in 1 .. Len(d) : d[i] = w[i]
      /\ DOMAIN d = 1 .. Len(d)
    BY DEF Prefix
<1>2. CASE w = <<>> \/ w[1] # Id("RIFF") \/ d = <<>>
    <2>1. CASE w = <<>>
        <3>1. Len(d) = 0
            BY <1>1, <2>1
        <3>2. d = <<>>
            BY <3>1
        <3> QED
            BY <3>2 DEF Safe
    <2>2. CASE w[1] # Id("RIFF") /\ d # <<>>
        <3>1. 1 \in 1 .. Len(d)
            BY <2>2
        <3> QED
            BY <1>1, <2>2, <3>1 DEF Safe
    <2> QED
        BY <1>2, <2>1, <2>2 DEF Safe
<1>3. CASE ~(w = <<>> \/ w[1] # Id("RIFF") \/ d = <<>>)
    <2>1. PICK n, K, e : n = Len(setup) /\ K = Len(chunks) /\ e = EndOf(chunks, K)
        OBVIOUS
    <2>2. /\ ChunksOK(chunks) /\ HeaderSize <= Len(w)
          /\ Len(w) <= e \/ w[e + 1] = Id("idx1")
          /\ ChunksLie(w, chunks) /\ MovieLies(w, chunks) /\ HeadsLie(w, n)
        BY <1>3, <2>1 DEF Good, Body
    <2>3. HeaderSize <= Len(d)
        BY <1>3 DEF Kept, Good
    <2>4. HeaderSize \in Nat /\ n \in Nat /\ n >= 1 /\ 4 + 4 * n + 4 <= HeaderSize
        BY <2>1, RoomFacts
    <2>5. K \in Nat /\ \A k \in 0 .. K : EndOf(chunks, k) \in Nat
        BY <2>1, <2>2, PlaceFacts
    <2>6. e \in Nat
        BY <2>1, <2>5
    <2>7. CASE Len(d) > e
        <3>1. e + 1 \in 1 .. Len(d) /\ ~(Len(w) <= e)
            BY <1>1, <2>6, <2>7
        <3>2. d[e + 1] = Id("idx1")
            BY <1>1, <2>2, <3>1
        <3> QED
            BY <1>1, <3>1, <3>2 DEF Safe
    <2>8. CASE ~(Len(d) > e)
        <3>1. Len(d) <= e
            BY <1>1, <2>6, <2>8
        <3>2. ChunksLie(d, chunks)
            <4> SUFFICES ASSUME NEW k \in 1 .. K
                         PROVE  /\ BeginOf(chunks, k) + 1 <= Len(d) =>
                                      d[BeginOf(chunks, k) + 1] = ChunkId(chunks[k].stream)
                                /\ BeginOf(chunks, k) + 2 <= Len(d) =>
                                      d[BeginOf(chunks, k) + 2] = Number(chunks[k].size)
                BY <2>1 DEF ChunksLie
            <4>1. k - 1 \in 0 .. K
                BY <2>5
            <4>2. PICK b : b = BeginOf(chunks, k) /\ b \in Nat
                BY <2>5, <4>1 DEF BeginOf
            <4>3. /\ b + 1 <= Len(w) => w[b + 1] = ChunkId(chunks[k].stream)
                  /\ b + 2 <= Len(w) => w[b + 2] = Number(chunks[k].size)
                BY <2>1, <2>2, <4>2 DEF ChunksLie
            <4>4. /\ b + 1 <= Len(d) => b + 1 \in 1 .. Len(d) /\ b + 1 <= Len(w)
                  /\ b + 2 <= Len(d) => b + 2 \in 1 .. Len(d) /\ b + 2 <= Len(w)
                BY <1>1, <4>2
            <4> QED
                BY <1>1, <4>2, <4>3, <4>4
        <3>3. \A i \in 1 .. HeaderSize : d[i] = w[i]
            BY <1>1, <2>3, <2>4
        <3>5. MovieLies(d, chunks) /\ HeadsLie(d, n)
            BY <2>1, <2>2, <3>3, SameHeads
        <3> QED
            BY <2>1, <2>2, <2>3, <3>1, <3>2, <3>5 DEF Safe, Salvage
    <2> QED
        BY <2>7, <2>8
<1> QED
    BY <1>2, <1>3

LEMMA PrefixItself ==
    ASSUME StreamsOK, NEW w \in Seq(Cell), NEW chunks, NEW st, Good(w, chunks, st)
    PROVE  Safe(w, chunks)
<1>1. Prefix(w, w)
    BY DEF Prefix
<1>2. Kept(w, w, st)
    BY DEF Kept, Good, Body
<1> QED
    BY <1>1, <1>2, PrefixSafe

LEMMA SameGood ==
    ASSUME setup' = setup
    PROVE  /\ \A w, chunks, st : Good(w, chunks, st)' <=> Good(w, chunks, st)
           /\ \A d, chunks : Safe(d, chunks)' <=> Safe(d, chunks)
<1>1. \A chunks : ChunksOK(chunks)' <=> ChunksOK(chunks)
    BY SamePlaces
<1>2. \A w, chunks : Body(w, chunks)' <=> Body(w, chunks)
    BY <1>1 DEF Body
<1>3. \A w, chunks : Salvage(w, chunks)' <=> Salvage(w, chunks)
    BY <1>1 DEF Salvage
<1> QED
    BY <1>2, <1>3 DEF Good, Safe

\* Statements that append make the file longer.
LEMMA AppendsGrow ==
    ASSUME NEW l \in Seq(Statement), Appends(l), NEW v \in Seq(Cell), NEW w, NEW t,
           Yields(l, <<v, Len(v)>>, <<w, t>>)
    PROVE  w \in Seq(Cell) /\ Prefix(v, w) /\ t = Len(w)
<1>1. PICK f : f[0] = <<v, Len(v)>> /\ f[Len(l)] = <<w, t>> /\ Runs(f, l)
    BY DEF Yields
<1>2. PICK n : n = Len(l) /\ n \in Nat
    OBVIOUS
<1>3. \A i \in 1 .. n : f[i] = Exec(f[i - 1], l[i])
    BY <1>1, <1>2 DEF Runs
<1> DEFINE P(x) == \E u \in Seq(Cell) : x = <<u, Len(u)>> /\ Prefix(v, u)
<1>4. P(f[0])
    BY <1>1 DEF Prefix
<1>5. ASSUME NEW i \in 1 .. n, NEW x, P(x) PROVE P(Exec(x, l[i]))
    <2>1. PICK u \in Seq(Cell) : x = <<u, Len(u)>> /\ Prefix(v, u)
        BY <1>5
    <2>2. PICK y \in Statement : y = l[i] /\ y.do \in {"put", "write", "direct"}
        <3>1. i \in 1 .. Len(l)
            BY <1>2
        <3>2. l[i] \in Statement
            BY ONLY <3>1, l \in Seq(Statement)
        <3>3. l[i].do \in {"put", "write", "direct"}
            BY <3>1 DEF Appends
        <3> QED
            BY <3>2, <3>3
    <2>3. ASSUME NEW d \in Seq(Cell), NEW e, e = <<File!Overlay(u, Len(u), d), Len(u) + Len(d)>>
          PROVE  P(e)
        <3>1. PICK z : z = File!Overlay(u, Len(u), d)
            OBVIOUS
        <3>2. /\ z \in Seq(Cell) /\ Len(z) = Len(u) + Len(d)
              /\ \A j \in 1 .. Len(u) : z[j] = u[j]
            BY <3>1, OverlayEnd
        <3>3. Prefix(v, z)
            <4>1. Len(v) \in Nat /\ Len(u) \in Nat /\ Len(d) \in Nat
                OBVIOUS
            <4>2. Len(v) <= Len(u) /\ \A j \in 1 .. Len(v) : v[j] = u[j]
                BY <2>1 DEF Prefix
            <4> QED
                BY <3>2, <4>1, <4>2 DEF Prefix
        <3>4. e = <<z, Len(z)>>
            BY <2>3, <3>1, <3>2
        <3> QED
            BY <3>2, <3>3, <3>4
    <2>4. CASE y.do = "put"
        <3>1. PICK c \in Cell : c = y.cell
            BY <2>4, StatementHolds
        <3>2. PICK d, e : d = <<c>> /\ e = Exec(x, y)
            OBVIOUS
        <3>3. d \in Seq(Cell) /\ Len(d) = 1
            BY <3>2
        <3>4. e = <<File!Overlay(u, Len(u), d), Len(u) + Len(d)>>
            BY <2>1, <2>4, <3>1, <3>2, <3>3 DEF Exec
        <3> HIDE DEF P
        <3> QED
            BY <2>2, <2>3, <3>2, <3>3, <3>4
    <2>5. CASE y.do \in {"write", "direct"}
        <3>1. PICK d : d = y.data /\ d \in Seq(Cell)
            BY <2>2, <2>5, StatementHolds
        <3>2. PICK e : e = Exec(x, y)
            OBVIOUS
        <3>3. e = <<File!Overlay(u, Len(u), d), Len(u) + Len(d)>>
            BY <2>1, <2>5, <3>1, <3>2 DEF Exec
        <3> HIDE DEF P
        <3> QED
            BY <2>2, <2>3, <3>1, <3>2, <3>3
    <2> HIDE DEF P
    <2> QED
        BY <2>2, <2>4, <2>5
<1> HIDE DEF P
<1> DEFINE T == {i \in 0 .. n : ~P(f[i])}
<1>6. T = {}
    <2> SUFFICES ASSUME T # {} PROVE FALSE
        OBVIOUS
    <2>1. T \subseteq Nat
        BY <1>2
    <2> HIDE DEF T
    <2>2. PICK k \in T : \A y \in T : k <= y
        BY <2>1, Smallest
    <2>3. k \in 0 .. n /\ ~P(f[k])
        BY <2>2 DEF T
    <2>4. k # 0
        BY <1>4, <2>3
    <2>5. PICK j : j = k - 1
        OBVIOUS
    <2>6. k \in 1 .. n /\ j \in 0 .. n /\ ~(k <= j)
        BY <1>2, <2>3, <2>4, <2>5
    <2>7. P(f[j])
        BY <2>2, <2>6 DEF T
    <2>8. f[k] = Exec(f[j], l[k])
        BY <1>3, <2>5, <2>6
    <2>9. P(f[k])
        BY <1>5, <2>6, <2>7, <2>8
    <2> QED
        BY <2>3, <2>9
<1>7. P(f[n])
    BY <1>2, <1>6
<1>8. P(<<w, t>>)
    BY <1>1, <1>2, <1>7
<1> QED
    BY <1>8 DEF P

(***************************************************************************)
(* The statements l the writer still has to do before the next call, r:    *)
(* the file is closed; or they append to it; or they write parts of it     *)
(* over, one seek and then the cells of one part for each.  No part fills  *)
(* the buffer, so that it is on the disk as a whole or not at all; and the *)
(* file is good before and after each.                                     *)
(***************************************************************************)
Shut(l) == l = <<>> /\ file = "none" /\ Good(disk, stored, status)

Adding(l) ==
    /\ Appends(l) /\ off = Len(disk)
    /\ \E w \in Seq(Cell) : /\ Yields(l, <<Whole, Tell>>, <<w, Len(w)>>)
                            /\ Good(w, stored, status) /\ Kept(disk, w, status)

\* The file is B[j] before the part C[j] is written at p[j], and the statements
\* T[j] come behind.
Plan(m, B, p, C, T) ==
    /\ m \in Nat
    /\ \A j \in 0 .. m :
          /\ B[j] \in Seq(Cell) /\ Good(B[j], stored, status)
          /\ p[j] \in 0 .. Len(B[j])
          /\ C[j] \in Seq(Cell) /\ Len(C[j]) < HeaderSize
          /\ B[j + 1] = File!Overlay(B[j], p[j], C[j]) /\ Good(B[j + 1], stored, status)
          /\ T[j] \in Seq(Statement)
    /\ \A j \in 1 .. m : T[j - 1] = Go(p[j]) \o (PutAll(C[j]) \o T[j])

Ending(t, r) == \/ t = Call("seekEnd")
                \/ t = <<>> /\ r # <<>> /\ Head(r).do = "delete"

Laying(B, p, C, T, j, D, l) ==
    /\ D \in Seq(Cell) /\ disk = B[j] /\ off = p[j] /\ buf \o D = C[j]
    /\ l = PutAll(D) \o T[j]

Amending(l, r) ==
    \E m, B, p, C, T, j, D :
        /\ Plan(m, B, p, C, T) /\ Ending(T[m], r)
        /\ j \in 0 .. m /\ Laying(B, p, C, T, j, D, l)

Course == \E l, r \in Seq(Statement) :
              /\ todo = l \o r /\ Writes(l) /\ RestOK(r)
              /\ Shut(l) \/ Adding(l) \/ Amending(l, r)

LEMMA CourseSafe ==
    ASSUME FileInv, StreamsOK, Course
    PROVE  Safe(disk, stored)
<1>0. disk \in Seq(Cell) /\ buf \in Seq(Cell)
    BY DEF FileInv
<1>1. PICK l \in Seq(Statement), r \in Seq(Statement) : Shut(l) \/ Adding(l) \/ Amending(l, r)
    BY DEF Course
<1>2. CASE Shut(l)
    BY <1>0, <1>2, PrefixItself DEF Shut
<1>3. CASE Adding(l)
    <2>1. PICK w \in Seq(Cell) : /\ Yields(l, <<Whole, Tell>>, <<w, Len(w)>>)
                                 /\ Good(w, stored, status) /\ Kept(disk, w, status)
        BY <1>3 DEF Adding
    <2>2. /\ Appends(l) /\ Whole = File!Overlay(disk, Len(disk), buf)
          /\ Tell = Len(disk) + Len(buf)
        BY <1>3 DEF Adding, Whole, Tell
    <2>3. PICK v : v = Whole
        OBVIOUS
    <2>4. /\ v \in Seq(Cell) /\ Len(v) = Len(disk) + Len(buf)
          /\ \A i \in 1 .. Len(disk) : v[i] = disk[i]
        BY <1>0, <2>2, <2>3, OverlayEnd
    <2>5. Yields(l, <<v, Len(v)>>, <<w, Len(w)>>)
        BY <2>1, <2>2, <2>3, <2>4
    <2>6. Prefix(v, w)
        BY <2>2, <2>4, <2>5, AppendsGrow
    <2>7. Prefix(disk, w)
        <3>1. Len(disk) \in Nat /\ Len(buf) \in Nat /\ Len(w) \in Nat
            BY <1>0
        <3> QED
            BY <2>4, <2>6, <3>1 DEF Prefix
    <2> QED
        BY <1>0, <2>1, <2>7, PrefixSafe
<1>4. CASE Amending(l, r)
    <2>1. Good(disk, stored, status)
        BY <1>4 DEF Amending, Plan, Laying
    <2> QED
        BY <1>0, <2>1, PrefixItself
<1> QED
    BY <1>1, <1>2, <1>3, <1>4

LEMMA FrontHead ==
    ASSUME NEW S, NEW l \in Seq(S), NEW r \in Seq(S)
    PROVE  IF l = <<>> THEN l \o r = r
           ELSE /\ l \o r # <<>> /\ Head(l \o r) = Head(l) /\ Tail(l \o r) = Tail(l) \o r
                /\ Tail(l) \in Seq(S) /\ Head(l) \in S
OBVIOUS

LEMMA TailWrites ==
    ASSUME NEW l \in Seq(Statement), l # <<>>
    PROVE  /\ Writes(l) => Writes(Tail(l)) /\ Head(l).do \in FileNames
           /\ Appends(l) => Appends(Tail(l)) /\ Head(l).do \in {"put", "write", "direct"}
<1>1. /\ Len(Tail(l)) = Len(l) - 1 /\ Len(l) \in Nat /\ Head(l) = l[1] /\ 1 \in 1 .. Len(l)
      /\ \A i \in 1 .. Len(l) - 1 : Tail(l)[i] = l[i + 1] /\ i + 1 \in 1 .. Len(l)
    OBVIOUS
<1> QED
    BY <1>1 DEF Writes, Appends

\* What the next statement is
LEMMA LayingHead ==
    ASSUME NEW m, NEW B, NEW p, NEW C, NEW T, NEW j \in 0 .. m, NEW D, NEW l, NEW r,
           Plan(m, B, p, C, T), Ending(T[m], r), Laying(B, p, C, T, j, D, l)
    PROVE  \/ /\ D # <<>> /\ l # <<>> /\ Head(l).do = "put" /\ Head(l).cell = Head(D)
              /\ Tail(l) = PutAll(Tail(D)) \o T[j]
           \/ /\ D = <<>> /\ j # m /\ l # <<>> /\ Head(l).do = "seek" /\ Head(l).to = p[j + 1]
              /\ Tail(l) = PutAll(C[j + 1]) \o T[j + 1]
           \/ /\ D = <<>> /\ j = m /\ l # <<>> /\ Head(l).do = "seekEnd" /\ Tail(l) = <<>>
           \/ /\ D = <<>> /\ j = m /\ l = <<>> /\ r # <<>> /\ Head(r).do = "delete"
<1>1. PICK t : t = T[j] /\ t \in Seq(Statement)
    BY DEF Plan
<1>2. D \in Seq(Cell) /\ l = PutAll(D) \o t
    BY <1>1 DEF Laying
<1>3. CASE D # <<>>
    <2>1. PICK c, R, a, b : c = Head(D) /\ R = Tail(D) /\ a = PutAll(D) /\ b = PutAll(R)
        OBVIOUS
    <2>2. R \in Seq(Cell) /\ Len(R) = Len(D) - 1 /\ c = D[1] /\ Len(D) \in Nat /\ Len(D) >= 1
          /\ \A i \in 1 .. Len(R) : R[i] = D[i + 1]
        BY <1>2, <1>3, <2>1
    <2>3. a \in Seq(Statement) /\ b \in Seq(Statement)
        BY <1>2, <2>1, <2>2, GroupsFit
    <2>4. /\ Len(a) = Len(D) /\ \A i \in 1 .. Len(D) : a[i] = [do |-> "put", cell |-> D[i]]
          /\ Len(b) = Len(R) /\ \A i \in 1 .. Len(R) : b[i] = [do |-> "put", cell |-> R[i]]
        <3>1. DOMAIN D = 1 .. Len(D) /\ DOMAIN R = 1 .. Len(R)
            BY <1>2, <2>2
        <3> QED
            BY <1>2, <2>1, <2>2, <3>1 DEF PutAll
    <2>5. a # <<>> /\ Head(a) = a[1] /\ Len(Tail(a)) = Len(a) - 1 /\ Tail(a) \in Seq(Statement)
          /\ \A i \in 1 .. Len(a) - 1 : Tail(a)[i] = a[i + 1]
        BY <2>2, <2>3, <2>4
    <2>6. Tail(a) = b
        <3>1. Len(Tail(a)) = Len(b)
            BY <2>2, <2>4, <2>5
        <3>2. ASSUME NEW i \in 1 .. Len(b) PROVE Tail(a)[i] = b[i]
            <4>1. i + 1 \in 1 .. Len(D) /\ i \in 1 .. Len(R) /\ i \in 1 .. Len(a) - 1
                BY <2>2, <2>4
            <4> QED
                BY <2>2, <2>4, <2>5, <4>1
        <3> QED
            BY <2>3, <2>5, <3>1, <3>2, SameFiles
    <2>7. Head(a) = [do |-> "put", cell |-> c]
        <3>1. 1 \in 1 .. Len(D)
            BY <2>2
        <3>2. a[1] = [do |-> "put", cell |-> D[1]]
            BY <2>4, <3>1
        <3> QED
            BY <2>2, <2>5, <3>2
    <2>8. l # <<>> /\ Head(l) = Head(a) /\ Tail(l) = Tail(a) \o t
        <3>1. a \o t # <<>> /\ Head(a \o t) = Head(a) /\ Tail(a \o t) = Tail(a) \o t
            BY ONLY <1>1, <2>3, <2>5, FrontHead
        <3> QED
            BY <1>2, <2>1, <3>1
    <2>9. Head(l).do = "put" /\ Head(l).cell = Head(D)
        BY <2>1, <2>7, <2>8
    <2>10. Tail(l) = PutAll(Tail(D)) \o T[j]
        BY <1>1, <2>1, <2>6, <2>8, Zenon
    <2> QED
        BY <1>3, <2>8, <2>9, <2>10
<1>4. CASE D = <<>>
    <2>1. l = t
        <3>1. PutAll(D) \in Seq(Statement) /\ Len(PutAll(D)) = 0
            <4>1. Len(D) = 0 /\ DOMAIN D = 1 .. 0
                BY <1>4
            <4> QED
                BY <1>2, <4>1, GroupsFit DEF PutAll
        <3>2. PutAll(D) = <<>>
            BY <3>1
        <3> QED
            BY <1>1, <1>2, <3>2
    <2>2. CASE j # m
        <3>1. PICK k : k = j + 1
            OBVIOUS
        <3>2. k \in 1 .. m /\ k - 1 = j /\ k \in 0 .. m
            BY <2>2, <3>1 DEF Plan
        <3>3. PICK u, y, n : u = PutAll(C[k]) \o T[k] /\ y = Go(n) /\ n = p[k]
            OBVIOUS
        <3>4. t = y \o u
            BY <1>1, <3>2, <3>3 DEF Plan
        <3>5. u \in Seq(Statement)
            <4>1. C[k] \in Seq(Cell) /\ T[k] \in Seq(Statement)
                BY <3>2 DEF Plan
            <4>2. PutAll(C[k]) \in Seq(Statement)
                BY <4>1, GroupsFit
            <4> QED
                BY <3>3, <4>1, <4>2
        <3>6. n \in Nat
            <4>1. n \in 0 .. Len(B[k]) /\ B[k] \in Seq(Cell)
                BY <3>2, <3>3 DEF Plan
            <4> QED
                BY <4>1
        <3>7. y \in Seq(Statement) /\ y = <<[do |-> "seek", to |-> n]>>
            BY <3>3, <3>6, GroupsFit DEF Go
        <3>8. t # <<>> /\ Head(t) = [do |-> "seek", to |-> n] /\ Tail(t) = u
            BY <3>4, <3>5, <3>7
        <3>9. l # <<>> /\ Head(l).do = "seek" /\ Head(l).to = p[j + 1]
            BY <2>1, <3>1, <3>3, <3>8
        <3>10. Tail(l) = PutAll(C[j + 1]) \o T[j + 1]
            BY <2>1, <3>1, <3>3, <3>8, Zenon
        <3> QED
            BY <1>4, <2>2, <3>9, <3>10
    <2>3. CASE j = m
        <3>1. CASE t = Call("seekEnd")
            <4>1. t # <<>> /\ Head(t).do = "seekEnd" /\ Tail(t) = <<>>
                BY <3>1 DEF Call
            <4> QED
                BY <1>4, <2>1, <2>3, <4>1
        <3>2. CASE t = <<>> /\ r # <<>> /\ Head(r).do = "delete"
            BY <1>4, <2>1, <2>3, <3>2
        <3> QED
            BY <1>1, <2>3, <3>1, <3>2 DEF Ending
    <2> QED
        BY <2>2, <2>3
<1> QED
    BY <1>3, <1>4

\* What is on the disk when a part is, and the buffer is given away
LEMMA LaidOut ==
    ASSUME NEW m, NEW B, NEW p, NEW C, NEW T, NEW j \in 0 .. m, NEW D, NEW l,
           Plan(m, B, p, C, T), Laying(B, p, C, T, j, D, l), D = <<>>, FileInv
    PROVE  File!Overlay(disk, off, buf) = B[j + 1]
<1>1. buf \in Seq(Cell)
    BY DEF FileInv
<1>2. buf \o D = buf
    BY <1>1
<1>3. disk = B[j] /\ off = p[j] /\ buf = C[j]
    BY <1>2 DEF Laying
<1> QED
    BY <1>3 DEF Plan

LEMMA CourseNow ==
    ASSUME NEW l \in Seq(Statement), NEW r \in Seq(Statement), setup' = setup,
           todo' = l \o r, Writes(l), RestOK(r),
           Shut(l)' \/ Adding(l)' \/ Amending(l, r)'
    PROVE  Course'
<1>1. Statement' = Statement
    BY SameStatements
<1> QED
    BY <1>1 DEF Course

LEMMA AddingNow ==
    ASSUME NEW l, Appends(l), off' = Len(disk'), setup' = setup, NEW w \in Seq(Cell),
           Yields(l, <<Whole', Tell'>>, <<w, Len(w)>>),
           Good(w, stored', status'), Kept(disk', w, status')
    PROVE  Adding(l)'
<1>1. Good(w, stored, status)'
    BY SameGood
<1>2. Yields(l, <<Whole, Tell>>, <<w, Len(w)>>)'
    BY DEF Yields, Runs
<1> QED
    BY <1>1, <1>2 DEF Adding

LEMMA AmendingNow ==
    ASSUME UNCHANGED <<setup, stored, status>>,
           NEW m, NEW B, NEW p, NEW C, NEW T, NEW j \in 0 .. m, NEW D, NEW l, NEW r,
           Plan(m, B, p, C, T), Ending(T[m], r), Laying(B, p, C, T, j, D, l)'
    PROVE  Amending(l, r)'
<1>1. Plan(m, B, p, C, T)'
    <2>1. \A w : Good(w, stored, status)' <=> Good(w, stored, status)
        BY SameGood
    <2>2. Statement' = Statement
        BY SameStatements
    <2> QED
        BY <2>1, <2>2 DEF Plan
<1> QED
    BY <1>1 DEF Amending

\* Whose turn it is
LEMMA CourseAt ==
    ASSUME WriterInv, Course, NEW name \in FileNames, Doing(name)
    PROVE  \E l, r \in Seq(Statement) :
              /\ l # <<>> /\ RestOK(r) /\ Head(l) = Head(todo)
              /\ Tail(l) \in Seq(Statement) /\ Tail(todo) = Tail(l) \o r /\ Writes(Tail(l))
              /\ Adding(l) \/ Amending(l, r)
<1>1. todo # <<>> /\ Head(todo).do \in FileNames
    BY DEF Doing
<1>2. PICK l \in Seq(Statement), r \in Seq(Statement) :
              /\ todo = l \o r /\ Writes(l) /\ RestOK(r)
              /\ Shut(l) \/ Adding(l) \/ Amending(l, r)
    BY DEF Course
<1>3. l # <<>>
    <2> SUFFICES ASSUME l = <<>> PROVE FALSE
        OBVIOUS
    <2>1. l \o r = r
        OBVIOUS
    <2> QED
        BY <1>1, <1>2, <2>1 DEF RestOK
<1>4. Head(l \o r) = Head(l) /\ Tail(l \o r) = Tail(l) \o r /\ Tail(l) \in Seq(Statement)
    BY <1>3, FrontHead
<1>5. Writes(Tail(l))
    BY <1>2, <1>3, TailWrites
<1>6. Adding(l) \/ Amending(l, r)
    BY <1>2, <1>3 DEF Shut
<1> QED
    BY <1>2, <1>3, <1>4, <1>5, <1>6

\* A statement of an appending writer
LEMMA AddingStep ==
    ASSUME FileInv, NEW l \in Seq(Statement), Adding(l), l # <<>>, Tail(l) \in Seq(Statement),
           NEW y \in Seq(Statement), Appends(y),
           Yields(y, <<Whole', Tell'>>, Exec(<<Whole, Tell>>, Head(l))),
           off' = Len(disk'), Len(disk) <= Len(disk'), Len(disk') \in Nat,
           UNCHANGED <<setup, stored, status>>, HeaderSize \in Nat
    PROVE  Adding(y \o Tail(l))'
<1>1. PICK w \in Seq(Cell) : /\ Yields(l, <<Whole, Tell>>, <<w, Len(w)>>)
                             /\ Good(w, stored, status) /\ Kept(disk, w, status)
    BY DEF Adding
<1>2. PICK m : m = Tail(l) /\ m \in Seq(Statement) /\ Appends(m)
    BY TailWrites DEF Adding
<1>3. PICK e : e = Exec(<<Whole, Tell>>, Head(l))
    OBVIOUS
<1>4. Yields(m, e, <<w, Len(w)>>)
    BY <1>1, <1>2, <1>3, YieldsRest
<1>5. PICK l2 : l2 = y \o m
    OBVIOUS
<1>6. Yields(l2, <<Whole', Tell'>>, <<w, Len(w)>>)
    BY <1>2, <1>3, <1>4, <1>5, YieldsJoin
<1>7. Appends(l2)
    BY <1>2, <1>5, AppendsJoin
<1>8. Kept(disk', w, status')
    <2>1. Len(disk) \in Nat
        BY DEF FileInv
    <2> QED
        BY <1>1, <2>1 DEF Kept
<1>9. Adding(l2)'
    BY <1>1, <1>6, <1>7, <1>8, AddingNow
<1> QED
    BY <1>2, <1>5, <1>9

\* Cells that are given to the system at the end
LEMMA GivenAtEnd ==
    ASSUME FileInv, off = Len(disk), NEW data \in Seq(Cell), Give(data)
    PROVE  off' = Len(disk') /\ Len(disk) <= Len(disk') /\ Len(disk') \in Nat
<1>1. disk \in Seq(Cell) /\ Len(disk) \in Nat /\ Len(data) \in Nat
    BY DEF FileInv
<1>2. disk' = File!Overlay(disk, Len(disk), data) /\ off' = Len(disk) + Len(data)
    BY DEF Give, File!Write
<1>3. PICK v : v = File!Overlay(disk, Len(disk), data)
    OBVIOUS
<1>4. Len(v) = Len(disk) + Len(data)
    BY <1>1, <1>3, OverlayEnd
<1> QED
    BY <1>1, <1>2, <1>3, <1>4

LEMMA PutCourse ==
    ASSUME FileInv, WriterInv, Course, HeaderSize <= BufSize, PutNumber
    PROVE  Course'
<1>1. /\ Doing("put") /\ Put(Head(todo).cell) /\ Then(<<>>)
      /\ UNCHANGED <<setup, stored, status>>
    BY DEF PutNumber, streamVars, writerVars, historyVars
<1>2. PICK l \in Seq(Statement), r \in Seq(Statement) :
              /\ l # <<>> /\ RestOK(r) /\ Head(l) = Head(todo)
              /\ Tail(l) \in Seq(Statement) /\ Tail(todo) = Tail(l) \o r /\ Writes(Tail(l))
              /\ Adding(l) \/ Amending(l, r)
    BY <1>1, CourseAt DEF FileNames
<1>3. PICK c, n : c = Head(l).cell /\ n = Tail(l)
    OBVIOUS
<1>4. c \in Cell /\ Head(l).do = "put" /\ Put(c)
    BY <1>1, <1>2, <1>3, HeadFits, StatementHolds
<1>5. todo' = n \o r /\ n \in Seq(Statement) /\ Writes(n)
    <2>1. n \o r \in Seq(Statement)
        BY <1>2, <1>3
    <2> QED
        BY <1>1, <1>2, <1>3, <2>1, NoStatement DEF Then
<1>6. HeaderSize \in Nat /\ BufSize \in Nat /\ BufSize >= 2
    BY HeaderAssumption, BufSizeAssumption
<1>7. CASE Adding(l)
    <2>1. off = Len(disk)
        BY <1>7 DEF Adding
    <2>2. off' = Len(disk') /\ Len(disk) <= Len(disk') /\ Len(disk') \in Nat
        <3>1. CASE Give(buf)
            BY <2>1, <3>1, GivenAtEnd DEF FileInv
        <3>2. CASE UNCHANGED <<disk, off>>
            BY <2>1, <3>2 DEF FileInv
        <3> QED
            BY <1>4, <3>1, <3>2 DEF Put
    <2>3. Wrote(<<c>>)
        BY <1>4, PutStep
    <2>4. Exec(<<Whole, Tell>>, Head(l)) = <<Whole', Tell'>>
        <3>1. Whole' = File!Overlay(Whole, Tell, <<c>>) /\ Tell' = Tell + 1
            BY <2>3 DEF Wrote
        <3> QED
            BY <1>3, <1>4, <3>1 DEF Exec
    <2>5. PICK y, e : y = <<>> /\ e = <<Whole', Tell'>>
        OBVIOUS
    <2>6. y \in Seq(Statement) /\ Appends(y)
          /\ Yields(y, <<Whole', Tell'>>, Exec(<<Whole, Tell>>, Head(l)))
        <3>1. Yields(y, e, e)
            BY <2>5, YieldsNone
        <3>2. y \in Seq(Statement) /\ Appends(y)
            BY <2>5 DEF Appends
        <3> QED
            BY <2>4, <2>5, <3>1, <3>2
    <2>7. y \o n = n
        BY <1>5, <2>5
    <2>8. Adding(y \o Tail(l))'
        BY <1>1, <1>2, <1>6, <1>7, <2>2, <2>6, AddingStep
    <2>9. Adding(n)'
        BY <1>3, <2>7, <2>8
    <2> QED
        BY <1>1, <1>2, <1>5, <2>9, CourseNow
<1>8. CASE Amending(l, r)
    <2>1. PICK m, B, p, C, T, j, D :
            /\ Plan(m, B, p, C, T) /\ Ending(T[m], r)
            /\ j \in 0 .. m /\ Laying(B, p, C, T, j, D, l)
        BY <1>8 DEF Amending
    <2>2. D # <<>> /\ c = Head(D) /\ n = PutAll(Tail(D)) \o T[j]
        BY <1>2, <1>3, <1>4, <2>1, LayingHead
    <2>3. D \in Seq(Cell) /\ disk = B[j] /\ off = p[j] /\ buf \o D = C[j]
        BY <2>1 DEF Laying
    <2>4. Len(C[j]) < HeaderSize
        BY <2>1 DEF Plan
    <2>5. buf \in Seq(Cell)
        BY DEF FileInv
    <2>6. PICK R : R = Tail(D)
        OBVIOUS
    <2>7. R \in Seq(Cell) /\ Append(buf, c) \o R = buf \o D
          /\ Len(buf \o D) = Len(buf) + Len(D) /\ Len(D) >= 1 /\ Len(D) \in Nat
          /\ Len(buf) \in Nat
        <3>1. R \in Seq(Cell) /\ Len(D) >= 1 /\ Len(D) \in Nat /\ Len(buf) \in Nat
            BY <2>2, <2>3, <2>5, <2>6
        <3>2. PICK u : u = <<c>> /\ u \in Seq(Cell)
            <4>1. c \in Cell
                BY <1>4
            <4>2. <<c>> \in Seq(Cell)
                BY ONLY <4>1
            <4> QED
                BY <4>2
        <3>3. D = u \o R
            BY <2>2, <2>3, <2>6, <3>2
        <3>4. Append(buf, c) = buf \o u
            BY <1>4, <2>5, <3>2
        <3>5. (buf \o u) \o R = buf \o (u \o R)
            BY ONLY <2>5, <3>1, <3>2, ConcatAssociative
        <3>6. Len(buf \o D) = Len(buf) + Len(D)
            <4>1. D \in Seq(Cell)
                BY <2>3
            <4> QED
                BY ONLY <4>1, <2>5
        <3> QED
            BY <3>1, <3>3, <3>4, <3>5, <3>6
    <2>8. ~(Len(buf) >= BufSize - 1)
        BY <1>6, <2>3, <2>4, <2>7
    <2>9. buf' = Append(buf, c) /\ UNCHANGED <<disk, off>>
        BY <1>4, <2>8 DEF Put
    <2>10. Laying(B, p, C, T, j, R, n)'
        BY <2>2, <2>3, <2>6, <2>7, <2>9 DEF Laying
    <2>11. Amending(n, r)'
        BY <1>1, <2>1, <2>10, AmendingNow
    <2> QED
        BY <1>1, <1>2, <1>5, <2>11, CourseNow
<1> QED
    BY <1>2, <1>7, <1>8

LEMMA AmendingHead ==
    ASSUME NEW l, NEW r, Amending(l, r), l # <<>>
    PROVE  Head(l).do \in {"put", "seek", "seekEnd"}
<1>1. PICK m, B, p, C, T, j, D :
            /\ Plan(m, B, p, C, T) /\ Ending(T[m], r)
            /\ j \in 0 .. m /\ Laying(B, p, C, T, j, D, l)
    BY DEF Amending
<1> QED
    BY <1>1, LayingHead

LEMMA WriteCourse ==
    ASSUME FileInv, WriterInv, Course, Write
    PROVE  Course'
<1>1. /\ Doing("write") /\ Fill(Head(todo).data)
      /\ UNCHANGED <<setup, stored, status>>
    BY DEF Write, streamVars, writerVars, historyVars
<1>2. PICK l \in Seq(Statement), r \in Seq(Statement) :
              /\ l # <<>> /\ RestOK(r) /\ Head(l) = Head(todo)
              /\ Tail(l) \in Seq(Statement) /\ Tail(todo) = Tail(l) \o r /\ Writes(Tail(l))
              /\ Adding(l) \/ Amending(l, r)
    BY <1>1, CourseAt DEF FileNames
<1>3. PICK n : n = Tail(l)
    OBVIOUS
<1>4. Head(l).do = "write"
    BY <1>1, <1>2 DEF Doing
<1>5. Adding(l)
    BY <1>2, <1>4, AmendingHead
<1>6. PICK y \in Seq(Statement) :
              /\ todo' = y \o Tail(todo)
              /\ \A i \in 1 .. Len(y) : y[i].do \in {"write", "direct"}
              /\ Yields(y, <<Whole', Tell'>>, Exec(<<Whole, Tell>>, Head(todo)))
    BY WriteTurns
<1>7. off = Len(disk)
    BY <1>5 DEF Adding
<1>8. off' = Len(disk') /\ Len(disk) <= Len(disk') /\ Len(disk') \in Nat
    <2>1. PICK data : data = Head(todo).data /\ data \in Seq(Cell) /\ Fill(data)
        BY <1>1, HeadFits, StatementHolds
    <2>2. Wrote(Taken(data))
        BY <2>1, FillStep
    <2>3. PICK all, a : all = buf \o a /\ a = Taken(data)
        OBVIOUS
    <2>4. all \in Seq(Cell)
        BY <2>2, <2>3 DEF Wrote, FileInv
    <2>5. Give(all) \/ UNCHANGED <<disk, off>>
        BY <2>1, <2>3 DEF Fill
    <2>6. CASE Give(all)
        BY <1>7, <2>4, <2>6, GivenAtEnd
    <2>7. CASE UNCHANGED <<disk, off>>
        BY <1>7, <2>7 DEF FileInv
    <2> QED
        BY <2>5, <2>6, <2>7
<1>9. HeaderSize \in Nat
    BY HeaderAssumption
<1>10. Appends(y)
    BY <1>6 DEF Appends
<1>11. PICK k : k = y \o n
    OBVIOUS
<1>12. Adding(y \o Tail(l))'
    BY <1>1, <1>2, <1>5, <1>6, <1>8, <1>9, <1>10, AddingStep
<1>13. Adding(k)'
    BY <1>3, <1>11, <1>12
<1>14. k \in Seq(Statement) /\ Writes(k)
    BY <1>2, <1>3, <1>10, <1>11, AppendsWrite, WritesJoin
<1>15. todo' = k \o r
    <2>0. y \in Seq(Statement) /\ n \in Seq(Statement) /\ r \in Seq(Statement)
        BY <1>2, <1>3, <1>6
    <2>1. (y \o n) \o r = y \o (n \o r)
        BY ONLY <2>0, ConcatAssociative
    <2> QED
        BY <1>2, <1>3, <1>6, <1>11, <2>1, Zenon
<1> QED
    BY <1>1, <1>2, <1>13, <1>14, <1>15, CourseNow

LEMMA DirectCourse ==
    ASSUME FileInv, WriterInv, Course, WriteDirect
    PROVE  Course'
<1>1. /\ Doing("direct") /\ Direct(Head(todo).data) /\ Then(<<>>)
      /\ UNCHANGED <<setup, stored, status>>
    BY DEF WriteDirect, streamVars, writerVars, historyVars
<1>2. PICK l \in Seq(Statement), r \in Seq(Statement) :
              /\ l # <<>> /\ RestOK(r) /\ Head(l) = Head(todo)
              /\ Tail(l) \in Seq(Statement) /\ Tail(todo) = Tail(l) \o r /\ Writes(Tail(l))
              /\ Adding(l) \/ Amending(l, r)
    BY <1>1, CourseAt DEF FileNames
<1>3. PICK n, data : n = Tail(l) /\ data = Head(l).data
    OBVIOUS
<1>4. Head(l).do = "direct" /\ data \in Seq(Cell) /\ Direct(data)
    BY <1>1, <1>2, <1>3, HeadFits, StatementHolds
<1>5. Adding(l)
    BY <1>2, <1>4, AmendingHead
<1>6. off = Len(disk)
    BY <1>5 DEF Adding
<1>7. off' = Len(disk') /\ Len(disk) <= Len(disk') /\ Len(disk') \in Nat
    BY <1>4, <1>6, GivenAtEnd DEF Direct
<1>8. Exec(<<Whole, Tell>>, Head(l)) = <<Whole', Tell'>>
    <2>1. Wrote(data)
        BY <1>4, DirectStep
    <2>2. Whole' = File!Overlay(Whole, Tell, data) /\ Tell' = Tell + Len(data)
        BY <2>1 DEF Wrote
    <2> QED
        BY <1>3, <1>4, <2>2 DEF Exec
<1>9. PICK y, e : y = <<>> /\ e = <<Whole', Tell'>>
    OBVIOUS
<1>10. y \in Seq(Statement) /\ Appends(y)
       /\ Yields(y, <<Whole', Tell'>>, Exec(<<Whole, Tell>>, Head(l)))
    <2>1. Yields(y, e, e)
        BY <1>9, YieldsNone
    <2>2. y \in Seq(Statement) /\ Appends(y)
        BY <1>9 DEF Appends
    <2> QED
        BY <1>8, <1>9, <2>1, <2>2
<1>11. HeaderSize \in Nat
    BY HeaderAssumption
<1>12. Adding(y \o Tail(l))'
    BY <1>1, <1>2, <1>5, <1>7, <1>10, <1>11, AddingStep
<1>13. y \o n = n /\ n \in Seq(Statement)
    BY <1>2, <1>3, <1>9
<1>14. Adding(n)'
    BY <1>3, <1>12, <1>13
<1>15. todo' = n \o r
    <2>1. n \o r \in Seq(Statement)
        BY <1>13
    <2> QED
        BY <1>1, <1>2, <1>3, <2>1, NoStatement DEF Then
<1> QED
    BY <1>1, <1>2, <1>3, <1>13, <1>14, <1>15, CourseNow

LEMMA SeekCourse ==
    ASSUME FileInv, WriterInv, Course, Lseek
    PROVE  Course'
<1>1. /\ Doing("seek") /\ SeekSet(Head(todo).to) /\ Then(<<>>)
      /\ UNCHANGED <<setup, stored, status>>
    BY DEF Lseek, streamVars, writerVars, historyVars
<1>2. PICK l \in Seq(Statement), r \in Seq(Statement) :
              /\ l # <<>> /\ RestOK(r) /\ Head(l) = Head(todo)
              /\ Tail(l) \in Seq(Statement) /\ Tail(todo) = Tail(l) \o r /\ Writes(Tail(l))
              /\ Adding(l) \/ Amending(l, r)
    BY <1>1, CourseAt DEF FileNames
<1>3. PICK n : n = Tail(l)
    OBVIOUS
<1>4. Head(l).do = "seek"
    BY <1>1, <1>2 DEF Doing
<1>5. Amending(l, r)
    BY <1>2, <1>4, TailWrites DEF Adding
<1>6. PICK m, B, p, C, T, j, D :
            /\ Plan(m, B, p, C, T) /\ Ending(T[m], r)
            /\ j \in 0 .. m /\ Laying(B, p, C, T, j, D, l)
    BY <1>5 DEF Amending
<1>7. D = <<>> /\ j # m /\ Head(l).to = p[j + 1] /\ n = PutAll(C[j + 1]) \o T[j + 1]
    <2>1. \/ D # <<>> /\ Head(l).do = "put"
          \/ /\ D = <<>> /\ j # m /\ Head(l).to = p[j + 1]
             /\ Tail(l) = PutAll(C[j + 1]) \o T[j + 1]
          \/ Head(l).do = "seekEnd"
          \/ l = <<>>
        BY <1>6, LayingHead
    <2>2. D = <<>> /\ j # m /\ Head(l).to = p[j + 1]
          /\ Tail(l) = PutAll(C[j + 1]) \o T[j + 1]
        BY <1>2, <1>4, <2>1
    <2> QED
        BY <1>3, <2>2
<1>8. disk' = File!Overlay(disk, off, buf) /\ off' = p[j + 1] /\ buf' = <<>>
    BY <1>1, <1>2, <1>7 DEF SeekSet
<1>9. PICK k, e : k = j + 1 /\ e = <<>>
    OBVIOUS
<1>10. k \in 0 .. m
    BY <1>6, <1>7, <1>9 DEF Plan
<1>11. disk' = B[k] /\ off' = p[k] /\ buf' = e
    BY <1>6, <1>7, <1>8, <1>9, LaidOut
<1>12. C[k] \in Seq(Cell) /\ e \o C[k] = C[k]
    <2>1. C[k] \in Seq(Cell)
        BY <1>6, <1>10 DEF Plan
    <2>2. \A q \in Seq(Cell) : <<>> \o q = q
        OBVIOUS
    <2> QED
        BY <1>9, <2>1, <2>2
<1>13. PICK c : c = C[k]
    OBVIOUS
<1>14. Laying(B, p, C, T, k, c, n)'
    BY <1>7, <1>9, <1>11, <1>12, <1>13 DEF Laying
<1>15. Amending(n, r)'
    BY <1>1, <1>6, <1>10, <1>14, AmendingNow
<1>16. todo' = n \o r /\ n \in Seq(Statement) /\ Writes(n)
    <2>1. n \o r \in Seq(Statement)
        BY <1>2, <1>3
    <2> QED
        BY <1>1, <1>2, <1>3, <2>1, NoStatement DEF Then
<1> QED
    BY <1>1, <1>2, <1>15, <1>16, CourseNow

LEMMA KeptLong ==
    ASSUME NEW w \in Seq(Cell), NEW chunks, NEW st, Good(w, chunks, st)
    PROVE  Kept(w, w, st)
BY DEF Kept, Good, Body

LEMMA YieldsSame == \A s, e : Yields(<<>>, s, e) => s = e
<1> SUFFICES ASSUME NEW s, NEW e, Yields(<<>>, s, e) PROVE s = e
    OBVIOUS
<1>1. PICK f : f[0] = s /\ f[Len(<<>>)] = e
    BY DEF Yields
<1>2. Len(<<>>) = 0
    OBVIOUS
<1> QED
    BY <1>1, <1>2

\* The file and the buffer are as they should, between two calls.
LEMMA SettledNow ==
    ASSUME FileInv', setup' = setup, off' = Len(disk'), NEW w \in Seq(Cell),
           Whole' = w, Tell' = Len(w), Good(w, stored', status'), Kept(disk', w, status'),
           NEW r \in Seq(Statement), RestOK(r), todo' = r
    PROVE  Course'
<1>1. PICK l, e : l = <<>> /\ e = <<w, Len(w)>>
    OBVIOUS
<1>2. l \in Seq(Statement) /\ Appends(l) /\ Writes(l) /\ l \o r = r
    <2>1. \A q \in Seq(Statement) : <<>> \o q = q
        OBVIOUS
    <2> QED
        BY <1>1, <2>1 DEF Appends, Writes
<1>3. Yields(l, e, e)
    BY <1>1, YieldsNone
<1>4. Yields(l, <<Whole', Tell'>>, <<w, Len(w)>>)
    BY <1>1, <1>3
<1>5. Adding(l)'
    BY <1>2, <1>4, AddingNow
<1>6. todo' = l \o r
    BY <1>2
<1> QED
    BY <1>2, <1>5, <1>6, CourseNow

LEMMA ShutNow ==
    ASSUME setup' = setup, file' = "none", Good(disk', stored', status'),
           NEW r \in Seq(Statement), RestOK(r), todo' = r
    PROVE  Course'
<1>1. PICK l : l = <<>>
    OBVIOUS
<1>2. l \in Seq(Statement) /\ Writes(l) /\ l \o r = r
    <2>1. \A q \in Seq(Statement) : <<>> \o q = q
        OBVIOUS
    <2> QED
        BY <1>1, <2>1 DEF Writes
<1>3. PICK d, ch, st : d = disk' /\ ch = stored' /\ st = status'
    OBVIOUS
<1>4. Good(d, ch, st)'
    BY <1>3, SameGood
<1>5. Shut(l)'
    BY <1>1, <1>3, <1>4 DEF Shut
<1>6. todo' = l \o r
    BY <1>2
<1> QED
    BY <1>2, <1>5, <1>6, CourseNow

\* What there is when the next statement is of a call
CallCourse ==
    \/ file = "none" /\ Good(disk, stored, status)
    \/ off = Len(disk) /\ Good(Whole, stored, status) /\ Kept(disk, Whole, status)
    \/ /\ todo # <<>> /\ Head(todo).do = "delete"
       /\ Good(File!Overlay(disk, off, buf), stored, status)

LEMMA AtCallCourse ==
    ASSUME FileInv, Course, todo = <<>> \/ Head(todo).do \notin FileNames
    PROVE  todo \in Seq(Statement) /\ RestOK(todo) /\ CallCourse
<1>1. PICK l \in Seq(Statement), r \in Seq(Statement) :
              /\ todo = l \o r /\ Writes(l) /\ RestOK(r)
              /\ Shut(l) \/ Adding(l) \/ Amending(l, r)
    BY DEF Course
<1>2. l = <<>>
    <2> SUFFICES ASSUME l # <<>> PROVE FALSE
        OBVIOUS
    <2>1. l \o r # <<>> /\ Head(l \o r) = Head(l)
        BY FrontHead
    <2>2. Head(l).do \in FileNames
        BY <1>1, TailWrites
    <2> QED
        BY <1>1, <2>1, <2>2
<1>3. todo = r
    <2>1. \A q \in Seq(Statement) : <<>> \o q = q
        OBVIOUS
    <2> QED
        BY <1>1, <1>2, <2>1
<1>4. CASE Shut(l)
    BY <1>1, <1>3, <1>4 DEF Shut, CallCourse
<1>5. CASE Adding(l)
    <2>1. PICK w \in Seq(Cell) : /\ Yields(l, <<Whole, Tell>>, <<w, Len(w)>>)
                                 /\ Good(w, stored, status) /\ Kept(disk, w, status)
        BY <1>5 DEF Adding
    <2>2. PICK s, e : s = <<Whole, Tell>> /\ e = <<w, Len(w)>>
        OBVIOUS
    <2>3. s = e
        BY <1>2, <2>1, <2>2, YieldsSame
    <2>4. Whole = w
        BY <2>2, <2>3
    <2>5. off = Len(disk)
        BY <1>5 DEF Adding
    <2> QED
        BY <1>1, <1>3, <2>1, <2>4, <2>5 DEF CallCourse
<1>6. CASE Amending(l, r)
    <2>1. PICK m, B, p, C, T, j, D :
            /\ Plan(m, B, p, C, T) /\ Ending(T[m], r)
            /\ j \in 0 .. m /\ Laying(B, p, C, T, j, D, l)
        BY <1>6 DEF Amending
    <2>2. D = <<>> /\ r # <<>> /\ Head(r).do = "delete"
        <3>1. \/ l # <<>>
              \/ D = <<>> /\ r # <<>> /\ Head(r).do = "delete"
            BY <2>1, LayingHead
        <3> QED
            BY <1>2, <3>1
    <2>3. File!Overlay(disk, off, buf) = B[j + 1]
        BY <2>1, <2>2, LaidOut
    <2>4. Good(B[j + 1], stored, status)
        BY <2>1 DEF Plan
    <2> QED
        BY <1>1, <1>3, <2>2, <2>3, <2>4 DEF CallCourse
<1> QED
    BY <1>1, <1>3, <1>4, <1>5, <1>6

\* A call that neither writes nor begins or ends a file
LEMMA CourseRests ==
    ASSUME FileInv, FileInv', Course, todo = <<>> \/ Head(todo).do \notin FileNames \cup {"delete"},
           UNCHANGED fileVars, UNCHANGED <<setup, stored, status, file>>,
           NEW r \in Seq(Statement), RestOK(r), todo' = r
    PROVE  Course'
<1>1. CallCourse
    BY AtCallCourse
<1>2. disk' = disk /\ off' = off /\ buf' = buf /\ Whole' = Whole /\ Tell' = Tell
    BY DEF fileVars, Whole, Tell
<1>3. CASE file = "none" /\ Good(disk, stored, status)
    BY <1>2, <1>3, ShutNow
<1>4. CASE off = Len(disk) /\ Good(Whole, stored, status) /\ Kept(disk, Whole, status)
    <2>1. PICK w \in Seq(Cell) : w = Whole
        BY WholeFacts
    <2>2. Tell = Len(w)
        <3>1. /\ disk \in Seq(Cell) /\ buf \in Seq(Cell)
              /\ Whole = File!Overlay(disk, Len(disk), buf) /\ Tell = Len(disk) + Len(buf)
            BY <1>4 DEF FileInv, Whole, Tell
        <3>2. PICK v : v = Whole
            OBVIOUS
        <3>3. Len(v) = Len(disk) + Len(buf)
            BY <3>1, <3>2, OverlayEnd
        <3> QED
            BY <2>1, <3>1, <3>2, <3>3
    <2>3. Good(w, stored', status') /\ Kept(disk', w, status')
        BY <1>2, <1>4, <2>1
    <2> QED
        BY <1>2, <1>4, <2>1, <2>2, <2>3, SettledNow
<1> QED
    BY <1>1, <1>3, <1>4 DEF CallCourse

LEMMA SeekEndCourse ==
    ASSUME FileInv, FileInv', WriterInv, Course, LseekEnd
    PROVE  Course'
<1>1. /\ Doing("seekEnd") /\ SeekEnd /\ Then(<<>>)
      /\ UNCHANGED <<setup, stored, status>>
    BY DEF LseekEnd, streamVars, writerVars, historyVars
<1>2. PICK l \in Seq(Statement), r \in Seq(Statement) :
              /\ l # <<>> /\ RestOK(r) /\ Head(l) = Head(todo)
              /\ Tail(l) \in Seq(Statement) /\ Tail(todo) = Tail(l) \o r /\ Writes(Tail(l))
              /\ Adding(l) \/ Amending(l, r)
    BY <1>1, CourseAt DEF FileNames
<1>4. Head(l).do = "seekEnd"
    BY <1>1, <1>2 DEF Doing
<1>5. Amending(l, r)
    BY <1>2, <1>4, TailWrites DEF Adding
<1>6. PICK m, B, p, C, T, j, D :
            /\ Plan(m, B, p, C, T) /\ Ending(T[m], r)
            /\ j \in 0 .. m /\ Laying(B, p, C, T, j, D, l)
    BY <1>5 DEF Amending
<1>7. D = <<>> /\ Tail(l) = <<>>
    <2>1. \/ D # <<>> /\ Head(l).do = "put"
          \/ Head(l).do = "seek"
          \/ D = <<>> /\ Tail(l) = <<>>
          \/ l = <<>>
        BY <1>6, LayingHead
    <2> QED
        BY <1>2, <1>4, <2>1
<1>8. File!Overlay(disk, off, buf) = B[j + 1] /\ Good(B[j + 1], stored, status)
    <2>1. File!Overlay(disk, off, buf) = B[j + 1]
        BY <1>6, <1>7, LaidOut
    <2>2. Good(B[j + 1], stored, status)
        BY <1>6 DEF Plan
    <2> QED
        BY <2>1, <2>2
<1>9. PICK w : w = disk'
    OBVIOUS
<1>10. w \in Seq(Cell) /\ off' = Len(w) /\ buf' = <<>>
    BY <1>1, <1>9 DEF SeekEnd, FileInv
<1>11. Good(w, stored, status)
    BY <1>1, <1>8, <1>9 DEF SeekEnd
<1>12. Kept(w, w, status)
    BY <1>10, <1>11, KeptLong
<1>13. Whole' = w /\ Tell' = Len(w)
    BY <1>1, <1>9, <1>10, ToEnd DEF SeekEnd, Whole
<1>14. todo' = r
    <2>1. <<>> \o r = r
        OBVIOUS
    <2> QED
        BY <1>1, <1>2, <1>7, <2>1 DEF Then
<1> QED
    BY <1>1, <1>2, <1>9, <1>10, <1>11, <1>12, <1>13, <1>14, SettledNow

-----------------------------------------------------------------------------
(* Calls that do not write: what comes next is a call again. *)

LEMMA CallsRest ==
    ASSUME NEW q \in Seq(Statement), Calls(q)
    PROVE  RestOK(q)
<1>1. q # <<>> => Head(q) = q[1] /\ 1 \in 1 .. Len(q)
    OBVIOUS
<1>2. \A name \in CallNames : name \notin FileNames
    BY DEF CallNames, FileNames
<1> QED
    BY <1>1, <1>2 DEF Calls, RestOK

LEMMA TailCalls ==
    ASSUME WriterInv, Pending, NEW name \in CallNames, Doing(name)
    PROVE  /\ todo \in Seq(Statement) /\ todo # <<>> /\ Head(todo).do = name
           /\ Tail(todo) \in Seq(Statement) /\ Calls(Tail(todo)) /\ RestOK(Tail(todo))
<1>1. name \notin FileNames
    BY DEF CallNames, FileNames
<1>2. /\ todo \in Seq(Statement) /\ todo # <<>> /\ Head(todo).do = name
      /\ Stage(Whole, Tell, todo)
    BY <1>1, Doings
<1>3. Resting(Whole, Tell, todo) \/ WithoutFile(todo)
    BY <1>2, StageNamed
<1>4. Calls(todo)
    BY <1>3 DEF Resting, WithoutFile, Closing
<1>5. Tail(todo) \in Seq(Statement) /\ Calls(Tail(todo))
    BY <1>2, <1>4, TailFacts
<1> QED
    BY <1>2, <1>5, CallsRest

LEMMA HeadRests ==
    ASSUME NEW S, NEW x, NEW m, NEW q \in Seq(S), NEW r, r = <<x>> \o (m \o q), m \in Seq(S),
           x \in S, x.do \notin FileNames
    PROVE  RestOK(r)
<1>1. m \o q \in Seq(S)
    OBVIOUS
<1>2. PICK u : u = m \o q
    OBVIOUS
<1>3. u \in Seq(S) /\ r = <<x>> \o u
    BY <1>1, <1>2
<1>4. Head(r) = x
    BY <1>3
<1> QED
    BY <1>4 DEF RestOK

LEMMA SegmentsCourse ==
    ASSUME FileInv, FileInv', WriterInv, Pending, Course, ChunkSegments
    PROVE  Course'
<1>1. /\ Doing("chunk") /\ todo' = NextFile \o todo
      /\ UNCHANGED fileVars /\ UNCHANGED <<setup, stored, status, file>>
    BY DEF ChunkSegments, streamVars, historyVars
<1>2. "chunk" \notin FileNames \cup {"delete"} /\ "chunk" \in CallNames
    BY DEF FileNames, CallNames
<1>3. todo \in Seq(Statement) /\ Head(todo).do = "chunk"
    BY <1>1, <1>2, TailCalls
<1>4. PICK r : r = NextFile \o todo
    OBVIOUS
<1>5. r \in Seq(Statement) /\ RestOK(r)
    <2>1. PICK x, y : x = [do |-> "finish"] /\ y = Call("init")
        OBVIOUS
    <2>2. x \in Statement /\ y \in Seq(Statement) /\ x.do = "finish" /\ Call("finish") = <<x>>
        <3>1. "finish" \in Plain /\ "init" \in Plain
            BY DEF Plain
        <3>2. x \in Statement
            BY <2>1, <3>1, StatementsFit
        <3>3. y \in Seq(Statement)
            BY <2>1, <3>1, GroupsFit
        <3> QED
            BY <2>1, <3>2, <3>3 DEF Call
    <2>3. PICK u : u = <<x>> /\ u \in Seq(Statement)
        <3>1. x \in Statement
            BY <2>2
        <3>2. <<x>> \in Seq(Statement)
            BY ONLY <3>1
        <3> QED
            BY <3>2
    <2>4. y \in Seq(Statement)
        BY <2>2
    <2>5. (u \o y) \o todo = u \o (y \o todo)
        BY ONLY <1>3, <2>3, <2>4, ConcatAssociative
    <2>6. r = <<x>> \o (y \o todo)
        BY <1>4, <2>1, <2>2, <2>3, <2>5 DEF NextFile
    <2>7. r \in Seq(Statement)
        BY <1>3, <2>3, <2>4, <2>6
    <2>8. "finish" \notin FileNames
        BY DEF FileNames
    <2> QED
        BY <1>3, <2>2, <2>4, <2>6, <2>7, <2>8, HeadRests
<1> QED
    BY <1>1, <1>2, <1>3, <1>4, <1>5, CourseRests

LEMMA NextChunkCourse ==
    ASSUME CellsFit, FileInv, FileInv', WriterInv, Pending, Course, stored \in Seq(Chunk),
           ChunkBegins, index # <<>>
    PROVE  Course'
<1>1. /\ Doing("chunk") /\ UNCHANGED fileVars /\ UNCHANGED <<setup, stored, status, file>>
    BY DEF ChunkBegins, streamVars, historyVars
<1>2. "chunk" \notin FileNames \cup {"delete"}
    BY DEF FileNames
<1>3. PICK r \in Seq(Statement) : RestOK(r) /\ todo' = r
    BY ChunkAdds
<1> QED
    BY <1>1, <1>2, <1>3, CourseRests DEF Doing

LEMMA RefuseCourse ==
    ASSUME FileInv, FileInv', WriterInv, Pending, Course, Refuse
    PROVE  Course'
<1>1. /\ Doing("locate")
      /\ todo' = Call("closed") \/ todo' = <<>>
      /\ UNCHANGED fileVars /\ UNCHANGED <<setup, stored, status, file>>
    BY DEF Refuse, streamVars, writerVars, historyVars
<1>2. "locate" \notin FileNames \cup {"delete"}
    BY DEF FileNames
<1>3. PICK r : r = todo'
    OBVIOUS
<1>4. CASE r = <<>>
    <2>1. r \in Seq(Statement) /\ RestOK(r)
        BY <1>4 DEF RestOK
    <2> QED
        BY <1>1, <1>2, <1>3, <2>1, CourseRests DEF Doing
<1>5. CASE r = Call("closed")
    <2>1. "closed" \in Plain
        BY DEF Plain
    <2>2. r \in Seq(Statement)
        BY <1>5, <2>1, GroupsFit
    <2>3. Head(r).do = "closed"
        BY <1>5 DEF Call
    <2>4. RestOK(r)
        BY <2>3 DEF RestOK, FileNames
    <2> QED
        BY <1>1, <1>2, <1>3, <2>2, <2>4, CourseRests DEF Doing
<1> QED
    BY <1>1, <1>3, <1>4, <1>5

LEMMA EnterCourse ==
    ASSUME FileInv, FileInv', WriterInv, Pending, Course, Enter
    PROVE  Course'
<1>0. PICK q : q = Tail(todo)
    OBVIOUS
<1>1. /\ Doing("entry")
      /\ Then(Call("headers")) \/ Then(<<>>)
      /\ UNCHANGED fileVars /\ UNCHANGED <<setup, stored, status, file>>
    BY DEF Enter, streamVars, historyVars
<1>2. "entry" \notin FileNames \cup {"delete"} /\ "entry" \notin FileNames
    BY DEF FileNames
<1>3. /\ todo \in Seq(Statement) /\ todo # <<>> /\ Head(todo).do = "entry"
      /\ Stage(Whole, Tell, todo)
    BY <1>1, <1>2, Doings
<1>4. Amid(Whole, Tell, todo)
    BY <1>3, StageNamed
<1>5. q \in Seq(Statement) /\ Calls(q)
    BY <1>0, <1>3, <1>4 DEF Amid
<1>6. CASE Then(<<>>)
    <2>1. todo' = q
        BY <1>0, <1>5, <1>6, NoStatement DEF Then
    <2>2. RestOK(q)
        BY <1>5, CallsRest
    <2> QED
        BY <1>1, <1>2, <1>3, <1>5, <2>1, <2>2, CourseRests
<1>7. CASE Then(Call("headers"))
    <2>1. PICK r : r = Call("headers") \o q
        OBVIOUS
    <2>2. Call("headers") \in Seq(Statement)
        <3>1. "headers" \in Plain
            BY DEF Plain
        <3> QED
            BY <3>1, GroupsFit
    <2>3. r \in Seq(Statement)
        BY <1>5, <2>1, <2>2, Joined
    <2>4. Head(r) = [do |-> "headers"]
        BY <1>5, <2>1, CallHead
    <2>5. Head(r).do = "headers"
        BY <2>4
    <2>6. RestOK(r)
        BY <2>5 DEF RestOK, FileNames
    <2>7. todo' = r
        BY <1>0, <1>7, <2>1 DEF Then
    <2> QED
        BY <1>1, <1>2, <1>3, <2>3, <2>6, <2>7, CourseRests
<1> QED
    BY <1>1, <1>6, <1>7

LEMMA CountCourse ==
    ASSUME FileInv, FileInv', WriterInv, Pending, Course, Count
    PROVE  Course'
<1>1. /\ Doing("count") /\ Then(<<>>)
      /\ UNCHANGED fileVars /\ UNCHANGED <<setup, stored, status, file>>
    BY DEF Count, writerVars, historyVars
<1>2. "count" \notin FileNames \cup {"delete"} /\ "count" \in CallNames
    BY DEF FileNames, CallNames
<1>3. PICK q : q = Tail(todo) /\ q \in Seq(Statement) /\ RestOK(q)
    BY <1>1, <1>2, TailCalls
<1>4. todo' = q
    BY <1>1, <1>3, NoStatement DEF Then
<1> QED
    BY <1>1, <1>2, <1>3, <1>4, CourseRests DEF Doing

LEMMA StopCourse ==
    ASSUME FileInv, FileInv', WriterInv, WriterInv', Pending, Course, Stop
    PROVE  Course'
<1>1. PICK last : /\ Doing("stop")
                  /\ Then(<<>>) \/ Then(ChunkCall(last))
                  /\ UNCHANGED fileVars /\ UNCHANGED <<setup, stored, status, file>>
    BY DEF Stop, writerVars
<1>2. "stop" \notin FileNames \cup {"delete"} /\ "stop" \in CallNames
    BY DEF FileNames, CallNames
<1>3. PICK q : q = Tail(todo) /\ q \in Seq(Statement) /\ RestOK(q)
    BY <1>1, <1>2, TailCalls
<1>4. CASE Then(<<>>)
    <2>1. todo' = q
        BY <1>3, <1>4, NoStatement DEF Then
    <2> QED
        BY <1>1, <1>2, <1>3, <2>1, CourseRests DEF Doing
<1>5. CASE Then(ChunkCall(last))
    <2>1. PICK r : r = todo'
        OBVIOUS
    <2>2. r \in Seq(Statement)
        BY <1>1, <2>1, SameStatements DEF WriterInv, CallOK
    <2>3. PICK x, y : x = [do |-> "chunk", chunk |-> last] /\ y = [do |-> "count", chunk |-> last]
        OBVIOUS
    <2>4. r = <<x, y>> \o q
        BY <1>3, <1>5, <2>1, <2>3 DEF Then, ChunkCall
    <2>5. Head(r) = x
        BY <1>3, <2>4
    <2>6. x.do = "chunk"
        BY <2>3
    <2>7. RestOK(r)
        BY <2>5, <2>6 DEF RestOK, FileNames
    <2> QED
        BY <1>1, <1>2, <2>1, <2>2, <2>7, CourseRests DEF Doing
<1> QED
    BY <1>1, <1>4, <1>5

\* What comes behind the headers
LEMMA HeadersThen ==
    ASSUME NEW w, NEW t, todo \in Seq(Statement), todo # <<>>, Head(todo).do = "headers",
           Stage(w, t, todo), NEW q, q = Tail(todo)
    PROVE  RestOK(q)
<1>1. q \in Seq(Statement)
    OBVIOUS
<1>2. \/ Calls(q)
      \/ \E p \in Seq(Statement) : Closing(p) /\ todo = AfterFinish(p)
    BY StageNamed
<1>3. CASE Calls(q)
    BY <1>1, <1>3, CallsRest
<1>4. ASSUME NEW p \in Seq(Statement), todo = AfterFinish(p) PROVE RestOK(q)
    <2>1. q = AfterHeaders(p)
        BY <1>4, AfterHeads
    <2>2. Head(q).do = "index"
        BY <2>1, AfterHeads
    <2> QED
        BY <2>2 DEF RestOK, FileNames
<1> QED
    BY <1>2, <1>3, <1>4

LEMMA NoHeadersCourse ==
    ASSUME FileInv, FileInv', WriterInv, Pending, Course, WriteHeaders, status = 0
    PROVE  Course'
<1>0. PICK q : q = Tail(todo)
    OBVIOUS
<1>1. /\ Doing("headers") /\ Then(<<>>)
      /\ UNCHANGED fileVars /\ UNCHANGED <<setup, stored, status, file>>
    BY DEF WriteHeaders, streamVars, writerVars, historyVars
<1>2. "headers" \notin FileNames \cup {"delete"} /\ "headers" \notin FileNames
    BY DEF FileNames
<1>3. /\ todo \in Seq(Statement) /\ todo # <<>> /\ Head(todo).do = "headers"
      /\ Stage(Whole, Tell, todo) /\ q \in Seq(Statement)
    BY <1>0, <1>1, <1>2, Doings
<1>4. RestOK(q)
    BY <1>0, <1>3, HeadersThen
<1>5. todo' = q
    BY <1>0, <1>1, <1>3, NoStatement DEF Then
<1> QED
    BY <1>1, <1>2, <1>3, <1>4, <1>5, CourseRests

LEMMA FinishCourse ==
    ASSUME FileInv, FileInv', WriterInv, WriterInv', Pending, Course, Finish
    PROVE  Course'
<1>1. /\ Doing("finish")
      /\ Then((IF Tell % 2 = 1 THEN WriteAll(Junk(1)) ELSE <<>>)
              \o Call("headers") \o Call("index") \o Call("riffSize")
              \o Call("delete") \o StopAll)
      /\ UNCHANGED fileVars /\ UNCHANGED <<setup, stored, status, file>>
    BY DEF Finish, streamVars, writerVars, historyVars
<1>2. "finish" \notin FileNames \cup {"delete"} /\ "finish" \notin FileNames
    BY DEF FileNames
<1>3. PICK r : r = todo'
    OBVIOUS
<1>4. r \in Seq(Statement)
    BY <1>1, <1>3, SameStatements DEF WriterInv, CallOK
<1>5. \E q \in Seq(Statement) : r = AfterFinish(q)
    BY <1>3, FinishGoes
<1>6. RestOK(r)
    <2>1. PICK q \in Seq(Statement) : r = AfterFinish(q)
        BY <1>5
    <2>2. Head(r).do = "headers"
        BY <2>1, AfterHeads
    <2> QED
        BY <2>2 DEF RestOK, FileNames
<1> QED
    BY <1>1, <1>2, <1>3, <1>4, <1>6, CourseRests DEF Doing

\* The user
LEMMA AskedCourse ==
    ASSUME FileInv, FileInv', WriterInv, Quiet, Course, Asked, phase' = "open"
    PROVE  Course'
<1>1. Idle /\ UNCHANGED fileVars /\ UNCHANGED <<setup, stored, status, file>>
    BY AskedGoes
<1>2. PICK r \in Seq(Statement) : todo' = r /\ Calls(r)
    BY AskedGoes
<1>3. todo = <<>> /\ RestOK(r)
    BY <1>1, <1>2, CallsRest DEF Idle
<1> QED
    BY <1>1, <1>2, <1>3, CourseRests

\* Nothing happens.
LEMMA StillCourse ==
    ASSUME Course, UNCHANGED fileVars, todo' = todo,
           UNCHANGED <<setup, stored, status, file>>
    PROVE  Course'
<1>1. PICK l \in Seq(Statement), r \in Seq(Statement) :
              /\ todo = l \o r /\ Writes(l) /\ RestOK(r)
              /\ Shut(l) \/ Adding(l) \/ Amending(l, r)
    BY DEF Course
<1>2. disk' = disk /\ off' = off /\ buf' = buf /\ Whole' = Whole /\ Tell' = Tell
    BY DEF fileVars, Whole, Tell
<1>3. CASE Shut(l)
    <2>1. Shut(l)'
        <3>1. Good(disk', stored', status')
            BY <1>2, <1>3 DEF Shut
        <3>2. PICK d, ch, st : d = disk' /\ ch = stored' /\ st = status'
            OBVIOUS
        <3>3. Good(d, ch, st)'
            BY <3>1, <3>2, SameGood
        <3> QED
            BY <1>3, <3>2, <3>3 DEF Shut
    <2> QED
        BY <1>1, <2>1, CourseNow
<1>4. CASE Adding(l)
    <2>1. PICK w \in Seq(Cell) : /\ Yields(l, <<Whole, Tell>>, <<w, Len(w)>>)
                                 /\ Good(w, stored, status) /\ Kept(disk, w, status)
        BY <1>4 DEF Adding
    <2>2. /\ Yields(l, <<Whole', Tell'>>, <<w, Len(w)>>)
          /\ Good(w, stored', status') /\ Kept(disk', w, status')
        BY <1>2, <2>1
    <2>3. Appends(l) /\ off' = Len(disk')
        BY <1>2, <1>4 DEF Adding
    <2>4. Adding(l)'
        BY <2>2, <2>3, AddingNow
    <2> QED
        BY <1>1, <2>4, CourseNow
<1>5. CASE Amending(l, r)
    <2>1. PICK m, B, p, C, T, j, D :
            /\ Plan(m, B, p, C, T) /\ Ending(T[m], r)
            /\ j \in 0 .. m /\ Laying(B, p, C, T, j, D, l)
        BY <1>5 DEF Amending
    <2>2. Laying(B, p, C, T, j, D, l)'
        BY <1>2, <2>1 DEF Laying
    <2>3. Amending(l, r)'
        BY <2>1, <2>2, AmendingNow
    <2> QED
        BY <1>1, <2>3, CourseNow
<1> QED
    BY <1>1, <1>3, <1>4, <1>5

\* A file is ended, and another is begun.
LEMMA DeleteCourse ==
    ASSUME FileInv, FileInv', WriterInv, Pending, Course, DeleteBuffer
    PROVE  Course'
<1>0. PICK q : q = Tail(todo)
    OBVIOUS
<1>1. /\ Doing("delete") /\ disk' = File!Overlay(disk, off, buf) /\ file' = "none"
      /\ Then(<<>>) /\ UNCHANGED <<setup, status, stored>>
    BY DEF DeleteBuffer, Close, Give, File!Write, streamVars
<1>2. "delete" \notin FileNames
    BY DEF FileNames
<1>3. /\ todo \in Seq(Statement) /\ todo # <<>> /\ Head(todo).do = "delete"
      /\ Stage(Whole, Tell, todo) /\ q \in Seq(Statement)
    BY <1>0, <1>1, <1>2, Doings
<1>4. RestOK(q)
    <2>1. PICK p \in Seq(Statement) : Closing(p) /\ todo = AfterRiffSize(p)
        BY <1>3, StageNamed
    <2>2. q = p
        BY <1>0, <2>1, AfterHeads
    <2> QED
        BY <1>3, <2>1, <2>2, CallsRest DEF Closing
<1>5. todo' = q
    BY <1>0, <1>1, <1>3, NoStatement DEF Then
<1>6. CallCourse /\ file = "open"
    BY <1>2, <1>3, AtCallCourse, StageNamed
<1>7. Good(Whole, stored, status)
    BY <1>6 DEF CallCourse, Whole
<1>8. Good(disk', stored', status')
    BY <1>1, <1>7 DEF Whole
<1> QED
    BY <1>1, <1>3, <1>4, <1>5, <1>8, ShutNow

LEMMA BeginCourse ==
    ASSUME FileInv', WriterInv, Pending, Begin
    PROVE  Course'
<1>0. PICK e : e = <<>>
    OBVIOUS
<1>1. /\ Doing("init") /\ Then(<<>>) /\ disk' = e /\ off' = 0 /\ buf' = e
      /\ status' = 0 /\ stored' = <<>> /\ setup' = setup
    BY <1>0 DEF Begin, Reopen
<1>2. "init" \in CallNames
    BY DEF CallNames
<1>3. PICK q : q = Tail(todo) /\ q \in Seq(Statement) /\ RestOK(q)
    BY <1>1, <1>2, TailCalls
<1>4. todo' = q
    BY <1>1, <1>3, NoStatement DEF Then
<1>5. Whole' = e /\ Tell' = 0 /\ Len(e) = 0 /\ e \in Seq(Cell)
    <2>1. Whole' = File!Overlay(<<>>, 0, <<>>)
        BY <1>0, <1>1 DEF Whole
    <2>2. Tell' = 0 + Len(<<>>)
        BY <1>0, <1>1 DEF Tell
    <2>3. Len(<<>>) = 0
        OBVIOUS
    <2> QED
        BY <1>0, <2>1, <2>2, <2>3, EmptyFile
<1>6. Good(e, stored', status') /\ Kept(disk', e, status')
    BY <1>0, <1>1 DEF Good, Kept
<1>7. off' = Len(disk')
    BY <1>1, <1>5
<1> QED
    BY <1>1, <1>3, <1>4, <1>5, <1>6, <1>7, SettledNow

LEMMA InitCourse ==
    ASSUME Init
    PROVE  Course
<1>0. PICK e : e = <<>>
    OBVIOUS
<1>1. /\ disk = e /\ off = 0 /\ buf = e /\ status = 0 /\ stored = e /\ todo = e
    BY <1>0 DEF Init, Opened
<1>2. Whole = e /\ Tell = 0 /\ Len(e) = 0 /\ e \in Seq(Cell) /\ e \in Seq(Statement)
      /\ e \o e = e
    <2>1. Whole = File!Overlay(<<>>, 0, <<>>)
        BY <1>0, <1>1 DEF Whole
    <2>2. Tell = 0 + Len(<<>>)
        BY <1>0, <1>1 DEF Tell
    <2>3. Len(<<>>) = 0 /\ <<>> \o <<>> = <<>>
        OBVIOUS
    <2> QED
        BY <1>0, <2>1, <2>2, <2>3, EmptyFile
<1>3. Good(e, stored, status) /\ Kept(disk, e, status)
    BY <1>0, <1>1 DEF Good, Kept
<1>4. PICK s : s = <<e, 0>>
    OBVIOUS
<1>5. Yields(e, s, s)
    BY <1>0, YieldsNone
<1>6. Yields(e, <<Whole, Tell>>, <<e, Len(e)>>)
    BY <1>2, <1>4, <1>5
<1>7. Appends(e) /\ Writes(e) /\ RestOK(e) /\ off = Len(disk)
    BY <1>0, <1>1, <1>2 DEF Appends, Writes, RestOK
<1>8. Adding(e)
    BY <1>2, <1>3, <1>6, <1>7 DEF Adding
<1>9. PICK l, r : l = e /\ r = e
    OBVIOUS
<1>10. /\ l \in Seq(Statement) /\ r \in Seq(Statement) /\ todo = l \o r /\ Writes(l) /\ RestOK(r)
       /\ Adding(l)
    BY <1>1, <1>2, <1>7, <1>8, <1>9
<1> QED
    BY <1>10 DEF Course

LEMMA LeavesCourse ==
    ASSUME NEW l, NEW r, NEW v, Leaves(l, r, v), setup' = setup, off = Len(disk),
           UNCHANGED fileVars, Good(v, stored', status'), Kept(disk', v, status')
    PROVE  Course'
<1>1. /\ l \in Seq(Statement) /\ Appends(l) /\ r \in Seq(Statement) /\ RestOK(r)
      /\ todo' = l \o r /\ v \in Seq(Cell)
      /\ Yields(l, <<Whole', Tell'>>, <<v, Len(v)>>)
    BY DEF Leaves
<1>2. off' = Len(disk')
    BY DEF fileVars
<1>3. Adding(l)'
    BY <1>1, <1>2, AddingNow
<1> QED
    BY <1>1, <1>3, AppendsWrite, CourseNow

\* The room for the headers
LEMMA RoomGood ==
    ASSUME StreamsOK, NEW v, Len(v) = HeaderSize, \A i \in 1 .. HeaderSize : v[i] = Number(0)
    PROVE  v[1] # Id("RIFF") /\ Body(v, <<>>)
<1>1. HeaderSize \in Nat /\ HeaderSize >= 12
    BY RoomFacts
<1>2. 1 \in 1 .. HeaderSize /\ HeaderSize - 1 \in 1 .. HeaderSize /\ HeaderSize \in 1 .. HeaderSize
    BY <1>1
<1>3. PICK e : e = <<>>
    OBVIOUS
<1>4. Len(e) = 0 /\ e \in Seq(Chunk)
    BY <1>3
<1>5. EndOf(e, 0) = HeaderSize
    <2>1. 0 \in Nat /\ \A k \in 1 .. 0 : e[k].size \in Nat
        OBVIOUS
    <2> QED
        BY <2>1, EndSteps
<1>6. v[1] # Id("RIFF")
    BY <1>2 DEF Number, Id
<1>7. ChunksOK(e) /\ ChunksLie(v, e)
    BY <1>4 DEF ChunksOK, ChunksLie
<1>8. MovieLies(v, e)
    BY <1>2 DEF MovieLies
<1>9. NoChunk(v)
    <2>1. Number(0)[1] = "number"
        BY DEF Number
    <2> QED
        BY <2>1 DEF NoChunk
<1>10. Body(v, e)
    BY <1>1, <1>4, <1>5, <1>6, <1>7, <1>8, <1>9 DEF Body
<1> QED
    BY <1>3, <1>6, <1>10

LEMMA FirstChunkCourse ==
    ASSUME CellsFit, FileInv, FileInv', WriterInv, Pending, Course, stored \in Seq(Chunk),
           ChunkBegins, index = <<>>
    PROVE  Course'
<1>1. /\ Doing("chunk") /\ file = "open" /\ UNCHANGED fileVars
      /\ UNCHANGED <<setup, stored>>
    BY DEF ChunkBegins, streamVars, historyVars
<1>2. "chunk" \notin FileNames \cup {"delete"}
    BY DEF FileNames
<1>3. PICK l, r, v :
        /\ Leaves(l, r, v) /\ stored = <<>> /\ status' = 1
        /\ Len(v) = HeaderSize /\ \A i \in 1 .. HeaderSize : v[i] = Number(0)
    BY ChunkAdds
<1>4. CallCourse /\ Head(todo).do = "chunk"
    BY <1>1, <1>2, AtCallCourse DEF Doing
<1>5. off = Len(disk)
    BY <1>1, <1>4 DEF CallCourse
<1>6. v[1] # Id("RIFF") /\ Body(v, <<>>)
    BY <1>3, RoomGood DEF WriterInv
<1>7. stored' = <<>> /\ status' = 1
    BY <1>1, <1>3
<1>8. Good(v, stored', status')
    BY <1>6, <1>7 DEF Good
<1>9. Kept(disk', v, status')
    BY <1>6 DEF Kept
<1> QED
    BY <1>1, <1>3, <1>5, <1>8, <1>9, LeavesCourse

\* A chunk is added behind the others.
LEMMA BodyAdds ==
    ASSUME StreamsOK, NEW w \in Seq(Cell), NEW v \in Seq(Cell), NEW chunks, NEW c, NEW d \in Seq(Cell),
           NEW more, more = Append(chunks, c),
           Body(w, chunks), Grown(w, Len(w), chunks), Grown(v, Len(v), more),
           BeginOf(more, Len(more)) = Len(w), v = File!Overlay(w, Len(w), d),
           Len(d) >= 2, d[1] = ChunkId(c.stream), d[2] = Number(c.size)
    PROVE  Body(v, more) /\ v[1] = w[1]
<1>1. PICK K : K = Len(chunks)
    OBVIOUS
<1>2. /\ ChunksOK(chunks) /\ HeaderSize <= Len(w)
      /\ ChunksLie(w, chunks) /\ MovieLies(w, chunks) /\ NoChunk(w)
      /\ w[1] = Id("RIFF") => HeadsLie(w, Len(setup))
    BY DEF Body
<1>3. /\ K \in Nat /\ chunks \in Seq(Chunk) /\ Len(more) = K + 1 /\ more[K + 1] = c
      /\ \A k \in 1 .. K : more[k] = chunks[k]
    BY <1>1, <1>2 DEF ChunksOK
<1>4. /\ \A k \in 1 .. K : chunks[k].size \in Nat
      /\ \A k \in 0 .. K : EndOf(chunks, k) \in Nat
    BY <1>1, <1>2, PlaceFacts
<1>5. \A k \in 0 .. K : EndOf(more, k) = EndOf(chunks, k)
    BY <1>3, <1>4, EndSame
<1>6. /\ Len(v) = Len(w) + Len(d) /\ Len(w) \in Nat /\ Len(d) \in Nat
      /\ \A i \in 1 .. Len(w) : v[i] = w[i]
      /\ \A i \in 1 .. Len(d) : v[Len(w) + i] = d[i]
    <2>1. /\ Len(v) = Len(w) + Len(d)
          /\ \A i \in 1 .. Len(w) : v[i] = w[i]
          /\ \A i \in 1 .. Len(d) : v[Len(w) + i] = d[i]
        <3>0. w \in Seq(Cell) /\ d \in Seq(Cell)
            OBVIOUS
        <3>1. PICK u : u = File!Overlay(w, Len(w), d)
            OBVIOUS
        <3>2. /\ u \in Seq(Cell) /\ Len(u) = Len(w) + Len(d)
              /\ \A i \in 1 .. Len(w) : u[i] = w[i]
              /\ \A i \in 1 .. Len(d) : u[Len(w) + i] = d[i]
            BY ONLY <3>0, <3>1, OverlayEnd
        <3>3. v = u
            BY <3>1
        <3> QED
            BY ONLY <3>2, <3>3
    <2>2. Len(w) \in Nat /\ Len(d) \in Nat
        OBVIOUS
    <2> QED
        BY <2>1, <2>2
<1>7. Len(w) = EndOf(chunks, K)
    BY <1>1 DEF Grown
<1>8. HeaderSize \in Nat
    BY RoomFacts
<1>9. \A i \in 1 .. HeaderSize : v[i] = w[i]
    BY <1>2, <1>6, <1>8
<1>10. ChunksLie(v, more)
    <2> SUFFICES ASSUME NEW k \in 1 .. K + 1
                 PROVE  /\ v[BeginOf(more, k) + 1] = ChunkId(more[k].stream)
                        /\ v[BeginOf(more, k) + 2] = Number(more[k].size)
        BY <1>3 DEF ChunksLie
    <2>1. CASE k = K + 1
        <3>1. BeginOf(more, k) = Len(w) /\ more[k] = c
            BY <1>3, <2>1
        <3>2. 1 \in 1 .. Len(d) /\ 2 \in 1 .. Len(d)
            BY <1>6
        <3> QED
            BY <1>6, <3>1, <3>2
    <2>2. CASE k # K + 1
        <3>1. k \in 1 .. K /\ k - 1 \in 0 .. K /\ k \in 0 .. K /\ K \in 0 .. K /\ k <= K
            BY <1>3, <2>2
        <3>2. PICK b, e : /\ b = BeginOf(chunks, k) /\ b \in Nat
                          /\ e = Even(chunks[k].size) /\ e \in Nat
            BY <1>4, <3>1, EvenIsNat DEF BeginOf
        <3>3. BeginOf(more, k) = b /\ more[k] = chunks[k]
            BY <1>3, <1>5, <3>1, <3>2 DEF BeginOf
        <3>4. EndOf(chunks, k) = b + 2 + e /\ EndOf(chunks, k) <= EndOf(chunks, K)
            BY <1>3, <1>4, <3>1, <3>2, EndSteps, EndGrows DEF BeginOf
        <3>5. b + 1 \in 1 .. Len(w) /\ b + 2 \in 1 .. Len(w) /\ b + 1 <= Len(w) /\ b + 2 <= Len(w)
            BY <1>6, <1>7, <3>2, <3>4
        <3>6. w[b + 1] = ChunkId(chunks[k].stream) /\ w[b + 2] = Number(chunks[k].size)
            BY <1>1, <1>2, <3>1, <3>2, <3>5 DEF ChunksLie
        <3> QED
            BY <1>6, <3>3, <3>5, <3>6
    <2> QED
        BY <2>1, <2>2
<1>11. MovieLies(v, more)
    <2>1. MovieLies(v, chunks)
        BY <1>2, <1>9, SameHeads
    <2>2. \A k \in 1 .. K : k \in 1 .. K + 1 /\ k \in 0 .. K
        BY <1>3
    <2> QED
        BY <1>1, <1>3, <1>5, <2>1, <2>2 DEF MovieLies
<1>12. NoChunk(v) /\ v[1] = w[1] /\ (HeadsLie(w, Len(setup)) => HeadsLie(v, Len(setup)))
    BY <1>2, <1>9, SameHeads
<1>13. ChunksOK(more) /\ Len(v) = EndOf(more, Len(more))
    BY DEF Grown
<1>14. HeaderSize <= Len(v)
    BY <1>2, <1>6, <1>8
<1>15. Len(v) <= EndOf(more, Len(more))
    BY <1>6, <1>13
<1> QED
    BY <1>2, <1>10, <1>11, <1>12, <1>13, <1>14, <1>15 DEF Body

LEMMA LocateCourse ==
    ASSUME CellsFit, FileInv, FileInv', WriterInv, Quiet, Pending, Course, Locate
    PROVE  Course'
<1>1. Doing("locate") /\ UNCHANGED fileVars /\ UNCHANGED <<setup, status, file>>
    BY DEF Locate, streamVars, writerVars
<1>2. "locate" \notin FileNames
    BY DEF FileNames
<1>3. PICK c, d, l, r, v :
        /\ Leaves(l, r, v) /\ stored' = Append(stored, c)
        /\ Grown(Whole, Len(Whole), stored) /\ Grown(v, Len(v), stored')
        /\ BeginOf(stored', Len(stored')) = Len(Whole)
        /\ d \in Seq(Cell) /\ v = File!Overlay(Whole, Len(Whole), d)
        /\ Len(d) = 2 + Even(c.size) /\ d[1] = ChunkId(c.stream) /\ d[2] = Number(c.size)
        /\ ChunkOK(c)
    BY LocateAdds
<1>4. CallCourse /\ Head(todo).do = "locate" /\ file = "open" /\ status = 1
    <2>1. CallCourse
        BY <1>1, <1>2, AtCallCourse DEF Doing
    <2>2. /\ todo \in Seq(Statement) /\ todo # <<>> /\ Head(todo).do = "locate"
          /\ Stage(Whole, Tell, todo)
        BY <1>1, <1>2, Doings
    <2>3. Amid(Whole, Tell, todo) /\ Locating(Whole, Tell, Head(todo))
        BY <2>2, StageNamed
    <2> QED
        BY <2>1, <2>2, <2>3 DEF Amid, Locating
<1>5. off = Len(disk) /\ Good(Whole, stored, status) /\ Kept(disk, Whole, status)
    BY <1>4 DEF CallCourse
<1>6. PICK w, more : w = Whole /\ more = stored'
    OBVIOUS
<1>7. w \in Seq(Cell) /\ v \in Seq(Cell) /\ StreamsOK
    BY <1>3, <1>6, WholeFacts DEF Leaves, WriterInv
<1>8. Len(d) >= 2
    <2>1. c.size \in Nat
        BY <1>3 DEF ChunkOK, Chunk
    <2>2. PICK e \in Nat : e = Even(c.size)
        BY <2>1, EvenIsNat
    <2> QED
        BY <1>3, <2>2
<1>9. Body(w, stored)
    BY <1>4, <1>5, <1>6 DEF Good
<1>10. /\ more = Append(stored, c) /\ Grown(w, Len(w), stored) /\ Grown(v, Len(v), more)
       /\ BeginOf(more, Len(more)) = Len(w) /\ v = File!Overlay(w, Len(w), d)
       /\ d \in Seq(Cell) /\ d[1] = ChunkId(c.stream) /\ d[2] = Number(c.size)
    BY <1>3, <1>6
<1>11. Body(v, more) /\ v[1] = w[1]
    BY <1>7, <1>8, <1>9, <1>10, BodyAdds
<1>12. Good(v, stored', status')
    BY <1>1, <1>4, <1>6, <1>11 DEF Good
<1>13. Kept(disk', v, status')
    BY <1>1, <1>5, <1>6, <1>11 DEF Kept, fileVars
<1> QED
    BY <1>1, <1>3, <1>5, <1>12, <1>13, LeavesCourse

\* The cells of the headers are names and numbers, and the size of their list is 0.
LEMMA FourCells ==
    ASSUME NEW a, NEW b, NEW c, NEW d, NEW q, q = <<a, b>> \o <<c, d>>
    PROVE  /\ Len(q) = 4 /\ q[1] = a /\ q[2] = b /\ q[3] = c /\ q[4] = d
           /\ \A S : a \in S /\ b \in S /\ c \in S /\ d \in S => q \in Seq(S)
<1>1. PICK x, y, S : x = <<a, b>> /\ y = <<c, d>> /\ S = {a, b, c, d}
    OBVIOUS
<1>2. /\ x \in Seq(S) /\ y \in Seq(S) /\ Len(x) = 2 /\ Len(y) = 2
      /\ x[1] = a /\ x[2] = b /\ y[1] = c /\ y[2] = d
    BY <1>1
<1>3. q = x \o y
    BY <1>1
<1>4. /\ Len(q) = 4 /\ q \in Seq(S) /\ \A i \in 1 .. 2 : q[i] = x[i]
      /\ \A i \in 3 .. 4 : q[i] = y[i - 2]
    BY <1>2, <1>3
<1>5. q[1] = a /\ q[2] = b /\ q[3] = c /\ q[4] = d
    BY <1>2, <1>4
<1>6. ASSUME NEW T, a \in T, b \in T, c \in T, d \in T PROVE q \in Seq(T)
    <2>1. S \subseteq T
        BY <1>1, <1>6
    <2> QED
        BY <1>4, <2>1
<1> QED
    BY <1>4, <1>5, <1>6

LEMMA HeaderCellsPlain ==
    ASSUME CellsFit, StreamsOK, NEW e \in Nat, NEW h, h = HeaderCells(e)
    PROVE  h[4] = Number(0) /\ \A i \in 1 .. Len(h) : h[i][1] # "chunk"
<1>1. (\A x : Number(x)[1] = "number") /\ (\A x : Id(x)[1] = x)
    BY DEF Number, Id
<1>2. PICK a, s : /\ a = <<Id("RIFF"), Number(e - 2)>> \o List("hdrl", 0) /\ s = StreamHeaders
    OBVIOUS
<1>3. PICK n \in Nat : n = Len(setup) /\ s \in Seq(Cell) /\ Len(s) = 4 * n
    BY <1>2, StreamHeadersAre
<1>4. /\ a \in Seq(Cell) /\ Len(a) = 4 /\ a[1] = Id("RIFF") /\ a[2] = Number(e - 2)
      /\ a[3] = Id("hdrl") /\ a[4] = Number(0)
    <2>1. "RIFF" \in Names /\ "hdrl" \in Names /\ e - 2 \in Int /\ 0 \in Int
        BY DEF Names
    <2>2. PICK u1, u2, u3, u4 : /\ u1 = Id("RIFF") /\ u2 = Number(e - 2)
                                /\ u3 = Id("hdrl") /\ u4 = Number(0)
        OBVIOUS
    <2>3. u1 \in Cell /\ u2 \in Cell /\ u3 \in Cell /\ u4 \in Cell
        BY <2>1, <2>2, CellsAre
    <2>4. a = <<u1, u2>> \o <<u3, u4>>
        BY <1>2, <2>2 DEF List
    <2> QED
        BY <2>2, <2>3, <2>4, FourCells
<1>5. h = a \o s
    BY <1>2 DEF HeaderCells
<1>6. /\ Len(h) = 4 + 4 * n /\ \A i \in 1 .. 4 : h[i] = a[i]
      /\ \A i \in 5 .. 4 + 4 * n : h[i] = s[i - 4]
    <2>1. /\ Len(h) = 4 + 4 * n /\ \A i \in 1 .. Len(a) : h[i] = a[i]
          /\ \A i \in Len(a) + 1 .. Len(a) + Len(s) : h[i] = s[i - Len(a)]
        <3>1. a \in Seq(Cell) /\ s \in Seq(Cell) /\ h = a \o s
            BY <1>3, <1>4, <1>5
        <3>2. Len(a) \in Nat /\ Len(s) \in Nat
            BY <3>1
        <3>3. Len(h) = Len(a) + Len(s)
            BY ONLY <3>1
        <3>4. \A i \in 1 .. Len(a) : h[i] = a[i]
            BY ONLY <3>1
        <3>5. \A i \in Len(a) + 1 .. Len(a) + Len(s) : h[i] = s[i - Len(a)]
            BY ONLY <3>1
        <3>6. Len(h) = 4 + 4 * n
            BY <1>3, <1>4, <3>3
        <3> QED
            BY <3>4, <3>5, <3>6
    <2>2. Len(a) = 4 /\ Len(a) + 1 = 5 /\ Len(a) + Len(s) = 4 + 4 * n
        BY <1>3, <1>4
    <2> QED
        BY <2>1, <2>2
<1>7. ASSUME NEW i \in 1 .. 4 * n PROVE s[i][1] # "chunk"
    <2>1. PICK k, r : k = (i + 3) \div 4 /\ r = ((i - 1) % 4) + 1
        OBVIOUS
    <2>2. s[i] = StreamHeader(k)[r]
        BY <1>2, <1>3, <2>1 DEF StreamHeaders
    <2>3. r \in 1 .. 4
        BY <1>3, <2>1
    <2>4. PICK u1, u2, u3, u4 : /\ u1 = Id("strl") /\ u2 = Number(2)
                                /\ u3 = Id("strh") /\ u4 = Number(dwLength[k])
        OBVIOUS
    <2>5. StreamHeader(k) = <<u1, u2>> \o <<u3, u4>>
        BY <2>4 DEF StreamHeader, List
    <2>6. PICK g : g = StreamHeader(k)
        OBVIOUS
    <2>7. s[i] \in {u1, u2, u3, u4}
        <3>1. g[1] = u1 /\ g[2] = u2 /\ g[3] = u3 /\ g[4] = u4
            BY <2>5, <2>6, FourCells
        <3> QED
            BY <2>2, <2>3, <2>6, <3>1
    <2> QED
        BY <1>1, <2>4, <2>7
<1>8. ASSUME NEW i \in 1 .. 4 + 4 * n PROVE h[i][1] # "chunk"
    <2>1. CASE i \in 1 .. 4
        BY <1>1, <1>4, <1>6, <2>1
    <2>2. CASE i \notin 1 .. 4
        <3>1. i \in 5 .. 4 + 4 * n /\ i - 4 \in 1 .. 4 * n
            BY <1>3, <2>2
        <3> QED
            BY <1>6, <1>7, <3>1
    <2> QED
        BY <2>1, <2>2
<1> QED
    BY <1>4, <1>6, <1>8

\* The chunks stay where nothing is written behind the headers.
LEMMA BodyStays ==
    ASSUME StreamsOK, NEW w \in Seq(Cell), NEW v \in Seq(Cell), NEW chunks,
           Len(v) = Len(w), \A i \in HeaderSize + 1 .. Len(w) : v[i] = w[i],
           Body(w, chunks), MovieLies(v, chunks), NoChunk(v),
           v[1] = Id("RIFF") => HeadsLie(v, Len(setup))
    PROVE  Body(v, chunks)
<1>1. PICK K, e : K = Len(chunks) /\ e = EndOf(chunks, K)
    OBVIOUS
<1>2. /\ ChunksOK(chunks) /\ HeaderSize <= Len(w)
      /\ Len(w) <= e \/ w[e + 1] = Id("idx1")
      /\ ChunksLie(w, chunks)
    BY <1>1 DEF Body
<1>3. /\ K \in Nat /\ Len(w) \in Nat /\ HeaderSize \in Nat
      /\ \A k \in 0 .. K : EndOf(chunks, k) \in Nat /\ EndOf(chunks, k) >= HeaderSize
    BY <1>1, <1>2, PlaceFacts, RoomFacts
<1>4. \A b \in Nat : b >= HeaderSize =>
          /\ b + 1 <= Len(w) => v[b + 1] = w[b + 1]
          /\ b + 2 <= Len(w) => v[b + 2] = w[b + 2]
    <2> SUFFICES ASSUME NEW b \in Nat, b >= HeaderSize
                 PROVE  /\ b + 1 <= Len(w) => v[b + 1] = w[b + 1]
                        /\ b + 2 <= Len(w) => v[b + 2] = w[b + 2]
        OBVIOUS
    <2>1. /\ b + 1 <= Len(w) => b + 1 \in HeaderSize + 1 .. Len(w)
          /\ b + 2 <= Len(w) => b + 2 \in HeaderSize + 1 .. Len(w)
        BY <1>3
    <2> QED
        BY <2>1
<1>5. Len(v) <= e \/ v[e + 1] = Id("idx1")
    <2>1. e \in Nat /\ e >= HeaderSize
        BY <1>1, <1>3
    <2>2. Len(w) <= e \/ e + 1 <= Len(w)
        BY <1>3, <2>1
    <2>3. Len(w) <= e \/ v[e + 1] = w[e + 1]
        BY <1>4, <2>1, <2>2
    <2> QED
        BY <1>2, <2>3
<1>6. ChunksLie(v, chunks)
    <2> SUFFICES ASSUME NEW k \in 1 .. K
                 PROVE  /\ BeginOf(chunks, k) + 1 <= Len(v) =>
                              v[BeginOf(chunks, k) + 1] = ChunkId(chunks[k].stream)
                        /\ BeginOf(chunks, k) + 2 <= Len(v) =>
                              v[BeginOf(chunks, k) + 2] = Number(chunks[k].size)
        BY <1>1 DEF ChunksLie
    <2>1. k - 1 \in 0 .. K
        BY <1>3
    <2>2. PICK b : b = BeginOf(chunks, k) /\ b \in Nat /\ b >= HeaderSize
        BY <1>3, <2>1 DEF BeginOf
    <2>3. /\ b + 1 <= Len(w) => w[b + 1] = ChunkId(chunks[k].stream)
          /\ b + 2 <= Len(w) => w[b + 2] = Number(chunks[k].size)
        BY <1>1, <1>2, <2>2 DEF ChunksLie
    <2>4. /\ b + 1 <= Len(w) => v[b + 1] = w[b + 1]
          /\ b + 2 <= Len(w) => v[b + 2] = w[b + 2]
        BY <1>4, <2>2
    <2> QED
        BY <2>2, <2>3, <2>4
<1> QED
    BY <1>1, <1>2, <1>5, <1>6 DEF Body

\* The headers are those of the file, before and after each part is written over.
LEMMA HeadersGood ==
    ASSUME CellsFit, StreamsOK, NEW w \in Seq(Cell), NEW chunks, Body(w, chunks),
           chunks # <<>>, Len(w) = EndOf(chunks, Len(chunks)),
           NEW w1, NEW w2, NEW w3, NEW w4, Layers(w, w1, w2, w3, w4)
    PROVE  /\ w1 \in Seq(Cell) /\ w2 \in Seq(Cell) /\ w3 \in Seq(Cell) /\ w4 \in Seq(Cell)
           /\ Len(w2) = Len(w) /\ Len(w3) = Len(w) /\ Len(w4) = Len(w)
           /\ Body(w2, chunks) /\ Body(w3, chunks) /\ Body(w4, chunks)
<1>1. PICK n, e, c, p, h, j, m, u :
        /\ n = Len(setup) /\ e = Len(w) /\ c = 4 + 4 * n /\ p = HeaderSize - 2
        /\ h = HeaderCells(e) /\ j = <<Id("JUNK"), Number(HeaderSize - 8 - 4 * n)>>
        /\ m = List("movi", e - HeaderSize) /\ u = <<Number(4 * n)>>
    OBVIOUS
<1>2. /\ HeaderSize \in Nat /\ n \in Nat /\ n >= 1 /\ c + 4 <= HeaderSize /\ e \in Nat
      /\ c \in Nat /\ p \in Nat /\ c = 4 + 4 * n /\ p = HeaderSize - 2
    BY <1>1, RoomFacts
<1>3. /\ ChunksOK(chunks) /\ HeaderSize <= e /\ MovieLies(w, chunks) /\ NoChunk(w)
    BY <1>1 DEF Body
<1>4. /\ h \in Seq(Cell) /\ Len(h) = c
      /\ h[1] = Id("RIFF") /\ h[3] = Id("hdrl")
      /\ \A s \in 1 .. n : h[4 * s + 1] = Id("strl") /\ h[4 * s + 2] = Number(2)
    BY <1>1, <1>2, HeaderCellsAre
<1>5. h[4] = Number(0) /\ \A i \in 1 .. c : h[i][1] # "chunk"
    BY <1>1, <1>2, <1>4, HeaderCellsPlain
<1>6. /\ j \in Seq(Cell) /\ Len(j) = 2 /\ j[1] = Id("JUNK")
      /\ j[2] = Number(HeaderSize - 8 - 4 * n)
      /\ m \in Seq(Cell) /\ Len(m) = 2 /\ m[1] = Id("movi") /\ m[2] = Number(e - HeaderSize)
      /\ u \in Seq(Cell) /\ Len(u) = 1 /\ u[1] = Number(4 * n)
    <2>1. "JUNK" \in Names /\ "movi" \in Names
        BY DEF Names
    <2>2. HeaderSize - 8 - 4 * n \in Int /\ e - HeaderSize \in Int /\ 4 * n \in Int
        BY <1>2
    <2>3. /\ Id("JUNK") \in Cell /\ Number(HeaderSize - 8 - 4 * n) \in Cell
          /\ Id("movi") \in Cell /\ Number(e - HeaderSize) \in Cell /\ Number(4 * n) \in Cell
        BY <2>1, <2>2, CellsAre
    <2> QED
        BY <1>1, <2>3 DEF List
<1>7. w1 = File!Overlay(w, 0, h) /\ w2 = File!Overlay(w1, c, j)
      /\ w3 = File!Overlay(w2, p, m) /\ w4 = File!Overlay(w3, 3, u)
    BY <1>1 DEF Layers
<1>8. /\ c >= 8 /\ c + 2 <= p /\ p + 2 <= e /\ 0 + c <= e /\ c + 2 <= e /\ 3 + 1 <= e
      /\ 0 \in Nat /\ 3 \in Nat
    BY <1>2, <1>3
<1>9. /\ w1 \in Seq(Cell) /\ Len(w1) = e
      /\ \A x \in 1 .. c : w1[0 + x] = h[x]
      /\ \A i \in 1 .. e : i <= 0 \/ i > 0 + c => w1[i] = w[i]
    <2>1. Len(h) = c /\ Len(w) = e /\ 0 + Len(h) <= Len(w)
        BY <1>1, <1>4, <1>8
    <2>2. Lain(w1, w, 0, h)
        BY <1>4, <1>7, <1>8, <2>1, Lies
    <2> QED
        BY <2>1, <2>2 DEF Lain
<1>10. /\ w2 \in Seq(Cell) /\ Len(w2) = e
       /\ \A x \in 1 .. 2 : w2[c + x] = j[x]
       /\ \A i \in 1 .. e : i <= c \/ i > c + 2 => w2[i] = w1[i]
    <2>1. Len(j) = 2 /\ Len(w1) = e /\ c + Len(j) <= Len(w1) /\ c \in Nat
        BY <1>2, <1>6, <1>8, <1>9
    <2>2. Lain(w2, w1, c, j)
        BY <1>6, <1>7, <1>9, <2>1, Lies
    <2> QED
        BY <2>1, <2>2 DEF Lain
<1>11. /\ w3 \in Seq(Cell) /\ Len(w3) = e
       /\ \A x \in 1 .. 2 : w3[p + x] = m[x]
       /\ \A i \in 1 .. e : i <= p \/ i > p + 2 => w3[i] = w2[i]
    <2>1. Len(m) = 2 /\ Len(w2) = e /\ p + Len(m) <= Len(w2) /\ p \in Nat
        BY <1>2, <1>6, <1>8, <1>10
    <2>2. Lain(w3, w2, p, m)
        BY <1>6, <1>7, <1>10, <2>1, Lies
    <2> QED
        BY <2>1, <2>2 DEF Lain
<1>12. /\ w4 \in Seq(Cell) /\ Len(w4) = e
       /\ \A x \in 1 .. 1 : w4[3 + x] = u[x]
       /\ \A i \in 1 .. e : i <= 3 \/ i > 3 + 1 => w4[i] = w3[i]
    <2>1. Len(u) = 1 /\ Len(w3) = e /\ 3 + Len(u) <= Len(w3) /\ 3 \in Nat
        BY <1>6, <1>8, <1>11
    <2>2. Lain(w4, w3, 3, u)
        BY <1>6, <1>7, <1>11, <2>1, Lies
    <2> QED
        BY <2>1, <2>2 DEF Lain
\* The first part
<1>13. /\ \A i \in 1 .. c : w2[i] = h[i]
       /\ w2[c + 1] = Id("JUNK") /\ w2[c + 2] = Number(HeaderSize - 8 - 4 * n)
       /\ \A i \in c + 3 .. e : w2[i] = w[i]
    <2>1. ASSUME NEW i \in 1 .. c PROVE w2[i] = h[i]
        <3>1. i \in 1 .. e /\ i <= c /\ 0 + i = i
            BY <1>2, <1>8
        <3>2. w2[i] = w1[i]
            BY <1>10, <3>1
        <3>3. w1[i] = h[i]
            BY <1>9, <3>1
        <3> QED
            BY <3>2, <3>3
    <2>2. 1 \in 1 .. 2 /\ 2 \in 1 .. 2
        OBVIOUS
    <2>3. ASSUME NEW i \in c + 3 .. e PROVE w2[i] = w[i]
        <3>1. i \in 1 .. e /\ i > c + 2 /\ i > 0 + c
            BY <1>2
        <3>2. w2[i] = w1[i]
            BY <1>10, <3>1
        <3>3. w1[i] = w[i]
            BY <1>9, <3>1
        <3> QED
            BY <3>2, <3>3
    <2> QED
        BY <1>6, <1>10, <2>1, <2>2, <2>3
<1>14. HeadsLie(w2, n) /\ NoChunk(w2)
    <2>1. \A x : Id(x)[1] = x /\ Number(x)[1] = "number"
        BY DEF Id, Number
    <2>2. ASSUME NEW i \in 1 .. HeaderSize PROVE w2[i][1] # "chunk"
        <3>1. i \in 1 .. c \/ i = c + 1 \/ i = c + 2 \/ i \in c + 3 .. e
            BY <1>2, <1>3
        <3>2. CASE i \in 1 .. c
            BY <1>5, <1>13, <3>2
        <3>3. CASE i = c + 1 \/ i = c + 2
            BY <1>13, <2>1, <3>3
        <3>4. CASE i \in c + 3 .. e
            BY <1>3, <1>13, <3>4 DEF NoChunk
        <3> QED
            BY <3>1, <3>2, <3>3, <3>4
    <2>3. \A s \in 1 .. n : 4 * s + 1 \in 1 .. c /\ 4 * s + 2 \in 1 .. c
        BY <1>2
    <2>4. 1 \in 1 .. c /\ 3 \in 1 .. c /\ 4 \in 1 .. c
          /\ c + 1 = 4 * n + 5 /\ c + 2 = 4 * n + 6
        BY <1>2
    <2>5. w2[1] = Id("RIFF") /\ w2[3] = Id("hdrl") /\ w2[4] = Number(0)
        BY <1>4, <1>5, <1>13, <2>4
    <2>6. \A s \in 1 .. n : w2[4 * s + 1] = Id("strl") /\ w2[4 * s + 2] = Number(2)
        BY <1>4, <1>13, <2>3
    <2>7. w2[4 * n + 5] = Id("JUNK") /\ w2[4 * n + 6] = Number(HeaderSize - 8 - 4 * n)
        BY <1>13, <2>4
    <2> QED
        BY <2>2, <2>5, <2>6, <2>7 DEF HeadsLie, NoChunk
<1>15. MovieLies(w2, chunks)
    <2>1. HeaderSize - 1 \in c + 3 .. e /\ HeaderSize \in c + 3 .. e
        BY <1>2, <1>3
    <2>2. w2[HeaderSize - 1] = w[HeaderSize - 1] /\ w2[HeaderSize] = w[HeaderSize]
        BY <1>13, <2>1
    <2> QED
        BY <1>3, <2>2 DEF MovieLies
<1>16. \A i \in HeaderSize + 1 .. e : w2[i] = w[i]
    <2>1. \A i \in HeaderSize + 1 .. e : i \in c + 3 .. e
        BY <1>2
    <2> QED
        BY <1>13, <2>1
<1>17. Body(w2, chunks)
    BY <1>1, <1>10, <1>14, <1>15, <1>16, BodyStays
\* The second
<1>18. w3[HeaderSize - 1] = Id("movi") /\ w3[HeaderSize] = Number(e - HeaderSize)
    <2>1. 1 \in 1 .. 2 /\ 2 \in 1 .. 2 /\ p + 1 = HeaderSize - 1 /\ p + 2 = HeaderSize
        BY <1>2
    <2> QED
        BY <1>6, <1>11, <2>1
<1>19. MovieLies(w3, chunks)
    <2>1. Len(chunks) \in 1 .. Len(chunks)
        <3>1. chunks \in Seq(Chunk)
            BY <1>3 DEF ChunksOK
        <3> QED
            BY <3>1
    <2> QED
        BY <1>1, <1>18, <2>1 DEF MovieLies
<1>20. \A i \in 1 .. p : w3[i] = w2[i]
    <2>1. \A i \in 1 .. p : i \in 1 .. e /\ i <= p
        BY <1>2, <1>3
    <2> QED
        BY <1>11, <2>1
<1>21. NoChunk(w3)
    <2> SUFFICES ASSUME NEW i \in 1 .. HeaderSize PROVE w3[i][1] # "chunk"
        BY DEF NoChunk
    <2>1. \A x : Id(x)[1] = x /\ Number(x)[1] = "number"
        BY DEF Id, Number
    <2>2. i \in 1 .. p \/ i = HeaderSize - 1 \/ i = HeaderSize
        BY <1>2
    <2>3. CASE i \in 1 .. p
        BY <1>14, <1>20, <2>3 DEF NoChunk
    <2>4. CASE i = HeaderSize - 1 \/ i = HeaderSize
        BY <1>18, <2>1, <2>4
    <2> QED
        BY <2>2, <2>3, <2>4
<1>22. HeadsLie(w3, n)
    <2>1. /\ 1 \in 1 .. p /\ 3 \in 1 .. p /\ 4 \in 1 .. p
          /\ \A s \in 1 .. n : 4 * s + 1 \in 1 .. p /\ 4 * s + 2 \in 1 .. p
          /\ 4 * n + 5 \in 1 .. p /\ 4 * n + 6 \in 1 .. p
        BY <1>2
    <2>2. \A i \in 1 .. HeaderSize : w3[i][1] # "chunk"
        BY <1>21 DEF NoChunk
    <2>3. /\ w2[1] = Id("RIFF") /\ w2[3] = Id("hdrl") /\ w2[4] \in {Number(0), Number(4 * n)}
          /\ \A s \in 1 .. n : w2[4 * s + 1] = Id("strl") /\ w2[4 * s + 2] = Number(2)
          /\ w2[4 * n + 5] = Id("JUNK") /\ w2[4 * n + 6] = Number(HeaderSize - 8 - 4 * n)
        BY <1>14 DEF HeadsLie
    <2> QED
        BY <1>20, <2>1, <2>2, <2>3 DEF HeadsLie
<1>23. \A i \in HeaderSize + 1 .. e : w3[i] = w[i]
    <2>1. \A i \in HeaderSize + 1 .. e : i \in 1 .. e /\ i > p + 2
        BY <1>2
    <2> QED
        BY <1>11, <1>16, <2>1
<1>24. Body(w3, chunks)
    BY <1>1, <1>11, <1>19, <1>21, <1>22, <1>23, BodyStays
\* The third
<1>25. w4[4] = Number(4 * n)
    <2>1. 1 \in 1 .. 1 /\ 3 + 1 = 4
        OBVIOUS
    <2> QED
        BY <1>6, <1>12, <2>1
<1>26. \A i \in 1 .. e : i # 4 => w4[i] = w3[i]
    <2>1. \A i \in 1 .. e : i # 4 => i <= 3 \/ i > 3 + 1
        BY <1>2
    <2> QED
        BY <1>12, <2>1
<1>27. MovieLies(w4, chunks)
    <2>1. HeaderSize - 1 \in 1 .. e /\ HeaderSize \in 1 .. e /\ HeaderSize - 1 # 4 /\ HeaderSize # 4
        BY <1>2, <1>3
    <2> QED
        BY <1>19, <1>26, <2>1 DEF MovieLies
<1>28. NoChunk(w4)
    <2> SUFFICES ASSUME NEW i \in 1 .. HeaderSize PROVE w4[i][1] # "chunk"
        BY DEF NoChunk
    <2>1. Number(4 * n)[1] = "number"
        BY DEF Number
    <2>2. i \in 1 .. e
        BY <1>2, <1>3
    <2> QED
        BY <1>21, <1>25, <1>26, <2>1, <2>2 DEF NoChunk
<1>29. HeadsLie(w4, n)
    <2>1. /\ 1 \in 1 .. e /\ 3 \in 1 .. e
          /\ \A s \in 1 .. n : /\ 4 * s + 1 \in 1 .. e /\ 4 * s + 2 \in 1 .. e
                               /\ 4 * s + 1 # 4 /\ 4 * s + 2 # 4
          /\ 4 * n + 5 \in 1 .. e /\ 4 * n + 6 \in 1 .. e /\ 4 * n + 5 # 4 /\ 4 * n + 6 # 4
        BY <1>2, <1>3
    <2>2. \A i \in 1 .. HeaderSize : w4[i][1] # "chunk"
        BY <1>28 DEF NoChunk
    <2>3. /\ w3[1] = Id("RIFF") /\ w3[3] = Id("hdrl")
          /\ \A s \in 1 .. n : w3[4 * s + 1] = Id("strl") /\ w3[4 * s + 2] = Number(2)
          /\ w3[4 * n + 5] = Id("JUNK") /\ w3[4 * n + 6] = Number(HeaderSize - 8 - 4 * n)
        BY <1>22 DEF HeadsLie
    <2>4. \A s \in 1 .. n : w4[4 * s + 1] = Id("strl") /\ w4[4 * s + 2] = Number(2)
        BY <1>26, <2>1, <2>3
    <2>5. w4[4 * n + 5] = Id("JUNK") /\ w4[4 * n + 6] = Number(HeaderSize - 8 - 4 * n)
        BY <1>26, <2>1, <2>3
    <2> QED
        BY <1>25, <1>26, <2>1, <2>2, <2>3, <2>4, <2>5 DEF HeadsLie
<1>30. \A i \in HeaderSize + 1 .. e : w4[i] = w[i]
    <2>1. \A i \in HeaderSize + 1 .. e : i \in 1 .. e /\ i # 4
        BY <1>2
    <2> QED
        BY <1>23, <1>26, <2>1
<1>31. Body(w4, chunks)
    BY <1>1, <1>12, <1>27, <1>28, <1>29, <1>30, BodyStays
<1> QED
    BY <1>1, <1>9, <1>10, <1>11, <1>12, <1>17, <1>24, <1>31

LEMMA PutsJoin ==
    ASSUME NEW a \in Seq(Cell), NEW b \in Seq(Cell)
    PROVE  PutAll(a \o b) = PutAll(a) \o PutAll(b)
<1>1. PICK c, x, y, z : c = a \o b /\ x = PutAll(a) /\ y = PutAll(b) /\ z = PutAll(c)
    OBVIOUS
<1>2. /\ c \in Seq(Cell) /\ Len(c) = Len(a) + Len(b) /\ Len(a) \in Nat /\ Len(b) \in Nat
      /\ \A i \in 1 .. Len(a) : c[i] = a[i]
      /\ \A i \in Len(a) + 1 .. Len(a) + Len(b) : c[i] = b[i - Len(a)]
    BY <1>1
<1>3. x \in Seq(Statement) /\ y \in Seq(Statement) /\ z \in Seq(Statement)
    BY <1>1, <1>2, GroupsFit
<1>4. /\ Len(x) = Len(a) /\ \A i \in 1 .. Len(a) : x[i] = [do |-> "put", cell |-> a[i]]
      /\ Len(y) = Len(b) /\ \A i \in 1 .. Len(b) : y[i] = [do |-> "put", cell |-> b[i]]
      /\ Len(z) = Len(c) /\ \A i \in 1 .. Len(c) : z[i] = [do |-> "put", cell |-> c[i]]
    <2>1. DOMAIN a = 1 .. Len(a) /\ DOMAIN b = 1 .. Len(b) /\ DOMAIN c = 1 .. Len(c)
        BY <1>2
    <2> QED
        BY <1>1, <1>2, <1>3, <2>1 DEF PutAll
<1>5. PICK k : k = x \o y
    OBVIOUS
<1>6. /\ k \in Seq(Statement) /\ Len(k) = Len(x) + Len(y)
      /\ \A i \in 1 .. Len(x) : k[i] = x[i]
      /\ \A i \in Len(x) + 1 .. Len(x) + Len(y) : k[i] = y[i - Len(x)]
    BY <1>3, <1>5
<1>7. Len(z) = Len(k)
    BY <1>2, <1>4, <1>6
<1>8. ASSUME NEW i \in 1 .. Len(z) PROVE z[i] = k[i]
    <2>1. CASE i \in 1 .. Len(a)
        BY <1>2, <1>4, <1>6, <2>1
    <2>2. CASE i \notin 1 .. Len(a)
        <3>1. /\ i \in Len(a) + 1 .. Len(a) + Len(b) /\ i - Len(a) \in 1 .. Len(b)
              /\ i \in Len(x) + 1 .. Len(x) + Len(y) /\ i \in 1 .. Len(c)
            BY <1>2, <1>4, <2>2
        <3>2. c[i] = b[i - Len(a)] /\ k[i] = y[i - Len(x)]
            BY <1>2, <1>6, <3>1
        <3> QED
            BY <1>4, <3>1, <3>2
    <2> QED
        BY <2>1, <2>2
<1>9. z = k
    BY <1>3, <1>6, <1>7, <1>8, SameFiles
<1> QED
    BY <1>1, <1>5, <1>9

Cat(x, y) == x \o y

LEMMA CatJoins ==
    ASSUME NEW S
    PROVE  /\ \A x, y \in Seq(S) : Cat(x, y) \in Seq(S)
           /\ \A x, y, z \in Seq(S) : Cat(Cat(x, y), z) = Cat(x, Cat(y, z))
<1>1. ASSUME NEW x \in Seq(S), NEW y \in Seq(S) PROVE Cat(x, y) \in Seq(S)
    BY Joined DEF Cat
<1>2. ASSUME NEW x \in Seq(S), NEW y \in Seq(S), NEW z \in Seq(S)
      PROVE  Cat(Cat(x, y), z) = Cat(x, Cat(y, z))
    BY ConcatAssociative DEF Cat
<1> QED
    BY <1>1, <1>2

EightJoin(a, b, c, d, e, f, g, h) ==
    Cat(Cat(Cat(Cat(Cat(Cat(Cat(a, b), c), d), e), f), g), h)
        = Cat(a, Cat(Cat(b, c), Cat(d, Cat(e, Cat(f, Cat(g, h))))))

LEMMA EightJoined ==
    \A a, b, c, d, e, f, g, h \in Seq(Statement) : EightJoin(a, b, c, d, e, f, g, h)
<1> TAKE a, b, c, d, e, f, g, h \in Seq(Statement)
<1> DEFINE T == Seq(Statement)
<1>1. \A x, y \in T : Cat(x, y) \in T
    BY CatJoins
<1>2. \A x, y, z \in T : Cat(Cat(x, y), z) = Cat(x, Cat(y, z))
    BY CatJoins
<1>3. a \in T /\ b \in T /\ c \in T /\ d \in T /\ e \in T /\ f \in T /\ g \in T /\ h \in T
    OBVIOUS
<1> HIDE DEF T
<1>4. PICK m3 : m3 \in T /\ m3 = Cat(Cat(a, b), c)
    BY ONLY <1>1, <1>3
<1>5. PICK l2 : l2 \in T /\ l2 = Cat(b, c) /\ m3 = Cat(a, l2)
    BY ONLY <1>1, <1>2, <1>3, <1>4
<1>6. PICK m4 : m4 \in T /\ m4 = Cat(m3, d)
    BY ONLY <1>1, <1>3, <1>4
<1>7. PICK m5 : m5 \in T /\ m5 = Cat(m4, e)
    BY ONLY <1>1, <1>3, <1>6
<1>8. PICK m6 : m6 \in T /\ m6 = Cat(m5, f)
    BY ONLY <1>1, <1>3, <1>7
<1>9. PICK r6 : r6 \in T /\ r6 = Cat(g, h) /\ Cat(Cat(m6, g), h) = Cat(m6, r6)
    BY ONLY <1>1, <1>2, <1>3, <1>8
<1>10. PICK r5 : r5 \in T /\ r5 = Cat(f, r6) /\ Cat(m6, r6) = Cat(m5, r5)
    <2>1. /\ m5 \in T /\ f \in T /\ r6 \in T
        BY <1>3, <1>7, <1>8, <1>9
    <2>2. Cat(f, r6) \in T
        BY ONLY <1>1, <2>1
    <2>3. Cat(Cat(m5, f), r6) = Cat(m5, Cat(f, r6))
        BY ONLY <1>2, <2>1, Zenon
    <2> QED
        BY ONLY <2>2, <2>3, <1>7, <1>8, <1>9
<1>11. PICK r4 : r4 \in T /\ r4 = Cat(e, r5) /\ Cat(m5, r5) = Cat(m4, r4)
    <2>1. /\ m4 \in T /\ e \in T /\ r5 \in T
        BY <1>3, <1>6, <1>7, <1>10
    <2>2. Cat(e, r5) \in T
        BY ONLY <1>1, <2>1
    <2>3. Cat(Cat(m4, e), r5) = Cat(m4, Cat(e, r5))
        BY ONLY <1>2, <2>1, Zenon
    <2> QED
        BY ONLY <2>2, <2>3, <1>6, <1>7, <1>10
<1>12. PICK r3 : r3 \in T /\ r3 = Cat(d, r4) /\ Cat(m4, r4) = Cat(m3, r3)
    <2>1. /\ m3 \in T /\ d \in T /\ r4 \in T
        BY <1>3, <1>4, <1>6, <1>11
    <2>2. Cat(d, r4) \in T
        BY ONLY <1>1, <2>1
    <2>3. Cat(Cat(m3, d), r4) = Cat(m3, Cat(d, r4))
        BY ONLY <1>2, <2>1, Zenon
    <2> QED
        BY ONLY <2>2, <2>3, <1>4, <1>6, <1>11
<1>13. Cat(m3, r3) = Cat(a, Cat(l2, r3))
    BY ONLY <1>1, <1>2, <1>3, <1>5, <1>12
<1> QED
    BY ONLY <1>4, <1>5, <1>6, <1>7, <1>8, <1>9, <1>10, <1>11, <1>12, <1>13 DEF EightJoin

\* What WriteHeaders does, part by part
Steps(p, c, t) == Go(p) \o (PutAll(c) \o t)

LEMMA StepsFit ==
    ASSUME NEW p \in Nat, NEW c \in Seq(Cell), NEW t \in Seq(Statement)
    PROVE  Steps(p, c, t) \in Seq(Statement)
<1>1. PutAll(c) \in Seq(Statement) /\ Go(p) \in Seq(Statement)
    BY GroupsFit
<1>2. PutAll(c) \o t \in Seq(Statement)
    BY <1>1, Joined
<1> QED
    BY <1>1, <1>2, Joined DEF Steps

HeadGroups(e, n, h, j, m, u, t2, t1) ==
    /\ e \in Nat /\ n = Len(setup) /\ h = HeaderCells(e)
    /\ j = <<Id("JUNK"), Number(HeaderSize - 8 - 4 * n)>>
    /\ m = List("movi", e - HeaderSize) /\ u = <<Number(4 * n)>>
    /\ t2 = Steps(3, u, Call("seekEnd")) /\ t1 = Steps(HeaderSize - 2, m, t2)

LEMMA HeaderParts ==
    ASSUME CellsFit, StreamsOK, NEW e, NEW n, NEW h, NEW j, NEW m, NEW u, NEW t2, NEW t1,
           HeadGroups(e, n, h, j, m, u, t2, t1)
    PROVE  /\ HeaderSteps(e) = Steps(0, h \o j, t1)
           /\ h \in Seq(Cell) /\ j \in Seq(Cell) /\ m \in Seq(Cell) /\ u \in Seq(Cell)
           /\ Len(h) = 4 + 4 * n /\ Len(j) = 2 /\ Len(m) = 2 /\ Len(u) = 1
           /\ Call("seekEnd") \in Seq(Statement)
           /\ t2 \in Seq(Statement) /\ t1 \in Seq(Statement)
<1>0. /\ e \in Nat /\ n = Len(setup) /\ h = HeaderCells(e)
      /\ j = <<Id("JUNK"), Number(HeaderSize - 8 - 4 * n)>>
      /\ m = List("movi", e - HeaderSize) /\ u = <<Number(4 * n)>>
      /\ t2 = Steps(3, u, Call("seekEnd")) /\ t1 = Steps(HeaderSize - 2, m, t2)
    BY DEF HeadGroups
<1>1. HeaderSize \in Nat /\ n \in Nat /\ n >= 1 /\ 8 + 4 * n <= HeaderSize
    BY <1>0, RoomFacts
<1>2. h \in Seq(Cell) /\ Len(h) = 4 + 4 * n
    BY <1>0, <1>1, HeaderCellsAre
<1>3. /\ j \in Seq(Cell) /\ Len(j) = 2 /\ m \in Seq(Cell) /\ Len(m) = 2
      /\ u \in Seq(Cell) /\ Len(u) = 1
    <2>1. "JUNK" \in Names /\ "movi" \in Names
        BY DEF Names
    <2>2. HeaderSize - 8 - 4 * n \in Int /\ e - HeaderSize \in Int /\ 4 * n \in Int
        BY <1>0, <1>1
    <2>3. /\ Id("JUNK") \in Cell /\ Number(HeaderSize - 8 - 4 * n) \in Cell
          /\ Id("movi") \in Cell /\ Number(e - HeaderSize) \in Cell /\ Number(4 * n) \in Cell
        BY <2>1, <2>2, CellsAre
    <2> QED
        BY <1>0, <2>3 DEF List
<1>4. PICK g1, g2, g3, g4, g5, g6, g7, g8 :
        /\ g1 = Go(0) /\ g2 = PutAll(h) /\ g3 = PutAll(j) /\ g4 = Go(HeaderSize - 2)
        /\ g5 = PutAll(m) /\ g6 = Go(3) /\ g7 = PutAll(u) /\ g8 = Call("seekEnd")
    OBVIOUS
<1>5. 0 \in Nat /\ 3 \in Nat /\ HeaderSize - 2 \in Nat /\ "seekEnd" \in Plain
    BY <1>1 DEF Plain
<1>6. /\ g1 \in Seq(Statement) /\ g2 \in Seq(Statement) /\ g3 \in Seq(Statement)
      /\ g4 \in Seq(Statement) /\ g5 \in Seq(Statement) /\ g6 \in Seq(Statement)
      /\ g7 \in Seq(Statement) /\ g8 \in Seq(Statement)
    BY <1>2, <1>3, <1>4, <1>5, GroupsFit
<1>7. HeaderSteps(e) = g1 \o g2 \o g3 \o g4 \o g5 \o g6 \o g7 \o g8
    <2>1. /\ HeaderSize - 2 - (Len(HeaderCells(e)) + 2) = HeaderSize - 8 - 4 * n
          /\ Len(HeaderCells(e)) - 4 = 4 * n
        BY <1>0, <1>1, <1>2
    <2>2. Put1(Number(4 * n)) = g7
        BY <1>0, <1>4 DEF Put1, PutAll
    <2> QED
        BY <1>0, <1>4, <2>1, <2>2 DEF HeaderSteps
<1>8. g1 \o g2 \o g3 \o g4 \o g5 \o g6 \o g7 \o g8
          = g1 \o ((g2 \o g3) \o (g4 \o (g5 \o (g6 \o (g7 \o g8)))))
    <2>1. EightJoin(g1, g2, g3, g4, g5, g6, g7, g8)
        BY ONLY <1>6, EightJoined
    <2> QED
        BY ONLY <2>1 DEF EightJoin, Cat
<1>9. g2 \o g3 = PutAll(h \o j)
    BY <1>2, <1>3, <1>4, PutsJoin
<1>10. t2 = g6 \o (g7 \o g8) /\ t1 = g4 \o (g5 \o t2)
    BY <1>0, <1>4 DEF Steps
<1>11. HeaderSteps(e) = Steps(0, h \o j, t1)
    BY ONLY <1>4, <1>7, <1>8, <1>9, <1>10 DEF Steps
<1>12. t2 \in Seq(Statement) /\ Call("seekEnd") \in Seq(Statement)
    BY <1>0, <1>3, <1>4, <1>5, <1>6, StepsFit
<1>13. t1 \in Seq(Statement)
    BY <1>0, <1>3, <1>5, <1>12, StepsFit
<1> QED
    BY <1>2, <1>3, <1>11, <1>12, <1>13

\* One part of a plan
Piece(b, p, c, d) == /\ b \in Seq(Cell) /\ Good(b, stored, status) /\ p \in 0 .. Len(b)
                    /\ c \in Seq(Cell) /\ Len(c) < HeaderSize
                    /\ d = File!Overlay(b, p, c) /\ Good(d, stored, status)

LEMMA NoPart ==
    ASSUME NEW w \in Seq(Cell), Good(w, stored, status), HeaderSize \in Nat, HeaderSize > 0,
           NEW n, n = Len(w), NEW e, e = <<>>
    PROVE  Piece(w, n, e, w)
<1>1. n \in 0 .. Len(w) /\ e \in Seq(Cell) /\ Len(e) = 0
    OBVIOUS
<1>2. File!Overlay(w, n, e) = w
    BY <1>1, OverlayEmpty
<1> QED
    BY <1>1, <1>2 DEF Piece

LEMMA ThreeParts ==
    ASSUME NEW w, NEW w2, NEW w3, NEW w4, NEW c1, NEW c2, NEW c3,
           NEW p0, NEW p1, NEW p2, NEW p3, NEW e,
           Piece(w, p0, e, w), Piece(w, p1, c1, w2), Piece(w2, p2, c2, w3), Piece(w3, p3, c3, w4),
           NEW t0 \in Seq(Statement), NEW t1 \in Seq(Statement), NEW t2 \in Seq(Statement),
           NEW t3 \in Seq(Statement),
           t0 = Steps(p1, c1, t1), t1 = Steps(p2, c2, t2), t2 = Steps(p3, c3, t3)
    PROVE  \E B, p, C, T : /\ Plan(3, B, p, C, T) /\ T[3] = t3
                           /\ B[0] = w /\ p[0] = p0 /\ C[0] = e /\ T[0] = t0
<1> DEFINE B == [k \in 0 .. 4 |-> IF k = 0 THEN w ELSE IF k = 1 THEN w ELSE IF k = 2 THEN w2
                                  ELSE IF k = 3 THEN w3 ELSE w4]
           p == [k \in 0 .. 3 |-> IF k = 0 THEN p0 ELSE IF k = 1 THEN p1 ELSE IF k = 2 THEN p2 ELSE p3]
           C == [k \in 0 .. 3 |-> IF k = 0 THEN e ELSE IF k = 1 THEN c1 ELSE IF k = 2 THEN c2 ELSE c3]
           T == [k \in 0 .. 3 |-> IF k = 0 THEN t0 ELSE IF k = 1 THEN t1 ELSE IF k = 2 THEN t2 ELSE t3]
<1>1. B[0] = w /\ B[1] = w /\ B[2] = w2 /\ B[3] = w3 /\ B[4] = w4
    OBVIOUS
<1>2. p[0] = p0 /\ p[1] = p1 /\ p[2] = p2 /\ p[3] = p3
    OBVIOUS
<1>3. C[0] = e /\ C[1] = c1 /\ C[2] = c2 /\ C[3] = c3
    OBVIOUS
<1>4. T[0] = t0 /\ T[1] = t1 /\ T[2] = t2 /\ T[3] = t3
    OBVIOUS
<1> HIDE DEF B, p, C, T
<1>5. ASSUME NEW j \in 0 .. 3 PROVE Piece(B[j], p[j], C[j], B[j + 1]) /\ T[j] \in Seq(Statement)
    <2>1. j = 0 \/ j = 1 \/ j = 2 \/ j = 3
        OBVIOUS
    <2>2. 0 + 1 = 1 /\ 1 + 1 = 2 /\ 2 + 1 = 3 /\ 3 + 1 = 4
        OBVIOUS
    <2> QED
        BY <1>1, <1>2, <1>3, <1>4, <2>1, <2>2
<1>6. ASSUME NEW j \in 1 .. 3 PROVE T[j - 1] = Go(p[j]) \o (PutAll(C[j]) \o T[j])
    <2>1. j = 1 \/ j = 2 \/ j = 3
        OBVIOUS
    <2>2. 1 - 1 = 0 /\ 2 - 1 = 1 /\ 3 - 1 = 2
        OBVIOUS
    <2>3. T[j - 1] = Steps(p[j], C[j], T[j])
        BY <1>2, <1>3, <1>4, <2>1, <2>2
    <2> QED
        BY <2>3 DEF Steps
<1>7. Plan(3, B, p, C, T)
    BY <1>5, <1>6 DEF Plan, Piece
<1> QED
    BY <1>1, <1>2, <1>3, <1>4, <1>7

LEMMA SinglePart ==
    ASSUME NEW w, NEW w2, NEW c1, NEW p0, NEW p1, NEW e,
           Piece(w, p0, e, w), Piece(w, p1, c1, w2),
           NEW t0 \in Seq(Statement), NEW t1 \in Seq(Statement), t0 = Steps(p1, c1, t1)
    PROVE  \E B, p, C, T : /\ Plan(1, B, p, C, T) /\ T[1] = t1
                           /\ B[0] = w /\ p[0] = p0 /\ C[0] = e /\ T[0] = t0
<1> DEFINE B == [k \in 0 .. 2 |-> IF k = 0 THEN w ELSE IF k = 1 THEN w ELSE w2]
           p == [k \in 0 .. 1 |-> IF k = 0 THEN p0 ELSE p1]
           C == [k \in 0 .. 1 |-> IF k = 0 THEN e ELSE c1]
           T == [k \in 0 .. 1 |-> IF k = 0 THEN t0 ELSE t1]
<1>1. B[0] = w /\ B[1] = w /\ B[2] = w2
    OBVIOUS
<1>2. /\ p[0] = p0 /\ p[1] = p1 /\ C[0] = e /\ C[1] = c1 /\ T[0] = t0 /\ T[1] = t1
    OBVIOUS
<1> HIDE DEF B, p, C, T
<1>3. ASSUME NEW j \in 0 .. 1 PROVE Piece(B[j], p[j], C[j], B[j + 1]) /\ T[j] \in Seq(Statement)
    <2>1. j = 0 \/ j = 1
        OBVIOUS
    <2>2. 0 + 1 = 1 /\ 1 + 1 = 2
        OBVIOUS
    <2> QED
        BY <1>1, <1>2, <2>1, <2>2
<1>4. ASSUME NEW j \in 1 .. 1 PROVE T[j - 1] = Go(p[j]) \o (PutAll(C[j]) \o T[j])
    <2>1. j = 1 /\ 1 - 1 = 0
        OBVIOUS
    <2>2. T[j - 1] = Steps(p[j], C[j], T[j])
        BY <1>2, <2>1
    <2> QED
        BY <2>2 DEF Steps
<1>5. Plan(1, B, p, C, T)
    BY <1>3, <1>4 DEF Plan, Piece
<1> QED
    BY <1>1, <1>2, <1>5

\* The plan is begun when the file has been sought to its end.
LEMMA PlanBegins ==
    ASSUME FileInv, SeekEnd, UNCHANGED <<setup, stored, status>>,
           NEW m \in Nat, NEW B, NEW p, NEW C, NEW T, Plan(m, B, p, C, T),
           B[0] = Whole, p[0] = Len(Whole), C[0] = <<>>, NEW r \in Seq(Statement), RestOK(r),
           NEW l \in Seq(Statement), l = T[0], Ending(T[m], r), Writes(l), todo' = l \o r
    PROVE  Course'
<1>1. disk' = Whole /\ off' = Len(Whole) /\ buf' = <<>>
    BY ToEnd DEF SeekEnd, Whole
<1>2. PICK D : D = <<>>
    OBVIOUS
<1>3. D \in Seq(Cell) /\ buf' \o D = C[0]
    <2>1. D \o D = D
        BY <1>2
    <2> QED
        BY <1>1, <1>2, <2>1
<1>4. l = PutAll(D) \o T[0]
    <2>1. PutAll(D) = <<>>
        BY <1>2 DEF PutAll
    <2>2. \A q \in Seq(Statement) : <<>> \o q = q
        OBVIOUS
    <2> QED
        BY <2>1, <2>2
<1>5. PICK j : j = 0
    OBVIOUS
<1>6. j \in 0 .. m
    BY <1>5
<1>7. Laying(B, p, C, T, j, D, l)'
    BY <1>1, <1>3, <1>4, <1>5 DEF Laying
<1>8. Amending(l, r)'
    BY <1>6, <1>7, AmendingNow
<1> QED
    BY <1>8, CourseNow

\* The parts of the headers
LEMMA HeadersPlan ==
    ASSUME CellsFit, StreamsOK, NEW w \in Seq(Cell), Body(w, stored), status # 0,
           stored # <<>>, Len(w) = EndOf(stored, Len(stored))
    PROVE  \E B, p, C, T : /\ Plan(3, B, p, C, T) /\ T[3] = Call("seekEnd")
                           /\ B[0] = w /\ p[0] = Len(w) /\ C[0] = <<>>
                           /\ T[0] = HeaderSteps(Len(w))
<1>1. PICK n, e, h, j, m, u, q :
        /\ n = Len(setup) /\ e = Len(w) /\ h = HeaderCells(e)
        /\ j = <<Id("JUNK"), Number(HeaderSize - 8 - 4 * n)>>
        /\ m = List("movi", e - HeaderSize) /\ u = <<Number(4 * n)>> /\ q = HeaderSize - 2
    OBVIOUS
<1>2. PICK t0, t1, t2, t3 : /\ t3 = Call("seekEnd") /\ t2 = Steps(3, u, t3)
                            /\ t1 = Steps(q, m, t2) /\ t0 = Steps(0, h \o j, t1)
    OBVIOUS
<1>3. HeaderSize \in Nat /\ n \in Nat /\ n >= 1 /\ 8 + 4 * n <= HeaderSize /\ e \in Nat
    BY <1>1, RoomFacts
<1>4. HeaderSize <= e
    BY <1>1 DEF Body
<1>5. /\ HeaderSteps(e) = t0 /\ t1 \in Seq(Statement) /\ t2 \in Seq(Statement)
      /\ t3 \in Seq(Statement)
      /\ h \in Seq(Cell) /\ j \in Seq(Cell) /\ m \in Seq(Cell) /\ u \in Seq(Cell)
      /\ Len(h) = 4 + 4 * n /\ Len(j) = 2 /\ Len(m) = 2 /\ Len(u) = 1
    <2>1. HeadGroups(e, n, h, j, m, u, t2, t1)
        BY <1>1, <1>2, <1>3 DEF HeadGroups
    <2>2. /\ HeaderSteps(e) = Steps(0, h \o j, t1)
          /\ t1 \in Seq(Statement) /\ t2 \in Seq(Statement)
          /\ h \in Seq(Cell) /\ j \in Seq(Cell) /\ m \in Seq(Cell) /\ u \in Seq(Cell)
          /\ Len(h) = 4 + 4 * n /\ Len(j) = 2 /\ Len(m) = 2 /\ Len(u) = 1
          /\ Call("seekEnd") \in Seq(Statement)
        BY <2>1, HeaderParts
    <2> QED
        BY <1>2, <2>2
<1>6. PICK g : g = h \o j /\ g \in Seq(Cell) /\ Len(g) = 6 + 4 * n
    <2>1. PICK g : g = h \o j
        OBVIOUS
    <2>2. h \in Seq(Cell) /\ j \in Seq(Cell)
        BY <1>5
    <2>3. g \in Seq(Cell) /\ Len(g) = Len(h) + Len(j)
        BY ONLY <2>1, <2>2
    <2>4. Len(g) = 6 + 4 * n
        BY <1>3, <1>5, <2>3
    <2> QED
        BY <2>1, <2>3, <2>4
<1>7. t0 \in Seq(Statement)
    <2>1. 0 \in Nat
        OBVIOUS
    <2> QED
        BY <1>2, <1>5, <1>6, <2>1, StepsFit
<1>8. PICK w1, w2, w3, w4 :
        /\ w1 = File!Overlay(w, 0, h) /\ w2 = File!Overlay(w1, 4 + 4 * n, j)
        /\ w3 = File!Overlay(w2, q, m) /\ w4 = File!Overlay(w3, 3, u)
    OBVIOUS
<1>9. Layers(w, w1, w2, w3, w4)
    BY <1>1, <1>8 DEF Layers
<1>10. /\ w2 \in Seq(Cell) /\ w3 \in Seq(Cell) /\ w4 \in Seq(Cell)
       /\ Len(w2) = e /\ Len(w3) = e /\ Len(w4) = e
       /\ Body(w2, stored) /\ Body(w3, stored) /\ Body(w4, stored)
    BY <1>1, <1>9, HeadersGood
<1>11. w2 = File!Overlay(w, 0, g)
    <2>1. PICK o : o = 0 /\ o \in 0 .. Len(w)
        BY <1>1, <1>3
    <2>2. o + Len(h) = 4 + 4 * n
        BY <1>3, <1>5, <2>1
    <2>3. File!Overlay(File!Overlay(w, o, h), o + Len(h), j) = File!Overlay(w, o, h \o j)
        <3>1. w \in Seq(Cell) /\ h \in Seq(Cell) /\ j \in Seq(Cell) /\ o \in 0 .. Len(w)
            BY <1>5, <2>1
        <3> QED
            BY ONLY <3>1, OverlayTwice
    <2> QED
        BY <1>6, <1>8, <2>1, <2>2, <2>3
<1>12. Good(w, stored, status) /\ Good(w2, stored, status) /\ Good(w3, stored, status)
       /\ Good(w4, stored, status)
    BY <1>10 DEF Good
<1>13. PICK x : x = <<>>
    OBVIOUS
<1>14. Piece(w, e, x, w)
    BY <1>1, <1>3, <1>12, <1>13, NoPart
<1>15. Piece(w, 0, g, w2)
    <2>1. 0 \in 0 .. Len(w) /\ Len(g) < HeaderSize
        BY <1>1, <1>3, <1>6
    <2> QED
        BY <1>6, <1>11, <1>12, <2>1 DEF Piece
<1>16. Piece(w2, q, m, w3)
    <2>1. q \in 0 .. Len(w2) /\ Len(m) < HeaderSize
        BY <1>1, <1>3, <1>4, <1>5, <1>10
    <2> QED
        BY <1>5, <1>8, <1>10, <1>12, <2>1 DEF Piece
<1>17. Piece(w3, 3, u, w4)
    <2>1. 3 \in 0 .. Len(w3) /\ Len(u) < HeaderSize
        BY <1>3, <1>4, <1>5, <1>10
    <2> QED
        BY <1>5, <1>8, <1>10, <1>12, <2>1 DEF Piece
<1>18. t0 = Steps(0, g, t1)
    BY <1>2, <1>6
<1>19. PICK k0, k3 : k0 = 0 /\ k3 = 3
    OBVIOUS
<1>20. \E B, p, C, T : /\ Plan(3, B, p, C, T) /\ T[3] = t3
                       /\ B[0] = w /\ p[0] = e /\ C[0] = x /\ T[0] = t0
    <2>1. Piece(w, k0, g, w2) /\ Piece(w3, k3, u, w4)
        BY <1>15, <1>17, <1>19
    <2>2. t0 = Steps(k0, g, t1) /\ t2 = Steps(k3, u, t3)
        BY <1>2, <1>18, <1>19
    <2>3. t1 = Steps(q, m, t2)
        BY <1>2
    <2> QED
        BY <1>5, <1>7, <1>14, <1>16, <2>1, <2>2, <2>3, ThreeParts
<1> QED
    BY <1>1, <1>2, <1>5, <1>13, <1>20

LEMMA HeadersCourse ==
    ASSUME CellsFit, FileInv, FileInv', WriterInv, Pending, Course, WriteHeaders
    PROVE  Course'
<1>1. CASE status = 0
    BY <1>1, NoHeadersCourse
<1>2. CASE ~(status = 0)
    <2>0. PICK q, w : q = Tail(todo) /\ w = Whole
        OBVIOUS
    <2>1. /\ Doing("headers") /\ SeekEnd /\ Then(HeaderSteps(off'))
          /\ UNCHANGED <<setup, status, stored, file>>
        BY <1>2 DEF WriteHeaders, streamVars, writerVars, historyVars
    <2>2. "headers" \notin FileNames \cup {"delete"} /\ "headers" \notin FileNames
        BY DEF FileNames
    <2>3. /\ todo \in Seq(Statement) /\ todo # <<>> /\ Head(todo).do = "headers"
          /\ Stage(Whole, Tell, todo)
        BY <2>1, <2>2, Doings
    <2>4. file = "open" /\ AtRest(Whole, Tell)
        BY <2>3, StageNamed
    <2>5. RestOK(q) /\ q \in Seq(Statement)
        <3>1. PICK x, t : x = Whole /\ t = Tell /\ Stage(x, t, todo)
            BY <2>3
        <3>2. RestOK(q)
            BY <2>0, <2>3, <3>1, HeadersThen
        <3> QED
            BY <2>0, <2>3, <3>2
    <2>6. CallCourse
        BY <2>2, <2>3, AtCallCourse
    <2>7. Good(w, stored, status)
        BY <2>0, <2>2, <2>3, <2>4, <2>6 DEF CallCourse
    <2>8. w \in Seq(Cell) /\ StreamsOK
        BY <2>0, WholeFacts DEF WriterInv
    <2>9. Body(w, stored) /\ stored # <<>> /\ Len(w) = EndOf(stored, Len(stored))
        BY <1>2, <2>0, <2>4, <2>7 DEF Good, AtRest, Grown
    <2>10. off' = Len(w)
        BY <2>0, <2>1, ToEnd
    <2>11. PICK l : l = HeaderSteps(Len(w))
        OBVIOUS
    <2>12. todo' = l \o q
        BY <2>0, <2>1, <2>10, <2>11 DEF Then
    <2>13. l \in Seq(Statement) /\ Writes(l)
        <3>1. HeaderSize <= Len(w)
            BY <2>9 DEF Body
        <3> QED
            BY <2>8, <2>11, <3>1, HeadersLaid
    <2>14. PICK m : m = 3 /\ m \in Nat
        OBVIOUS
    <2>15. PICK B, p, C, T : /\ Plan(m, B, p, C, T) /\ T[m] = Call("seekEnd")
                             /\ B[0] = w /\ p[0] = Len(w) /\ C[0] = <<>>
                             /\ T[0] = l
        BY <1>2, <2>8, <2>9, <2>11, <2>14, HeadersPlan
    <2>16. Ending(T[m], q)
        BY <2>15 DEF Ending
    <2> QED
        BY <2>0, <2>1, <2>5, <2>12, <2>13, <2>14, <2>15, <2>16, PlanBegins
<1> QED
    BY <1>1, <1>2

\* The index behind the chunks
LEMMA IndexedBody ==
    ASSUME StreamsOK, NEW w \in Seq(Cell), NEW v \in Seq(Cell), NEW chunks, Body(w, chunks),
           Len(w) = EndOf(chunks, Len(chunks)), Finished(v, chunks),
           \A i \in 1 .. Len(w) : v[i] = w[i]
    PROVE  Body(v, chunks) /\ v[1] = w[1]
<1>1. PICK n, K, e : n = Len(setup) /\ K = Len(chunks) /\ e = EndOf(chunks, K)
    OBVIOUS
<1>2. /\ ChunksOK(chunks) /\ HeaderSize <= Len(w) /\ ChunksLie(w, chunks) /\ NoChunk(w)
      /\ Len(w) = e
    BY <1>1 DEF Body
<1>3. /\ K > 0 /\ Len(v) = e + 2 + 4 * K /\ Headed(v, e) /\ v[e + 1] = Id("idx1")
    BY <1>1 DEF Finished
<1>4. HeaderSize \in Nat /\ n \in Nat /\ n >= 1 /\ 4 + 4 * n + 4 <= HeaderSize
    BY <1>1, RoomFacts
<1>5. /\ K \in Nat /\ \A k \in 1 .. K : chunks[k].size \in Nat
      /\ \A k \in 0 .. K : EndOf(chunks, k) \in Nat /\ EndOf(chunks, k) <= e
    BY <1>1, <1>2, PlaceFacts
<1>6. e \in Nat /\ K \in 0 .. K /\ K \in 1 .. K
    BY <1>2, <1>3, <1>5
<1>7. \A i \in 1 .. HeaderSize : v[i] = w[i]
    BY <1>2, <1>4, <1>6
<1>8. NoChunk(v) /\ v[1] = w[1]
    BY <1>2, <1>7, SameHeads
<1>9. /\ v[1] = Id("RIFF") /\ v[3] = Id("hdrl") /\ v[4] = Number(4 * n)
      /\ \A s \in 1 .. n : v[4 * s + 1] = Id("strl") /\ v[4 * s + 2] = Number(2)
      /\ v[4 * n + 5] = Id("JUNK") /\ v[4 * n + 6] = Number(HeaderSize - 8 - 4 * n)
      /\ v[HeaderSize - 1] = Id("movi") /\ v[HeaderSize] = Number(e - HeaderSize)
    BY <1>1, <1>3 DEF Headed
<1>10. HeadsLie(v, n)
    BY <1>8, <1>9 DEF HeadsLie, NoChunk
<1>11. MovieLies(v, chunks)
    BY <1>1, <1>6, <1>9 DEF MovieLies
<1>12. ChunksLie(v, chunks)
    <2> SUFFICES ASSUME NEW k \in 1 .. K
                 PROVE  /\ v[BeginOf(chunks, k) + 1] = ChunkId(chunks[k].stream)
                        /\ v[BeginOf(chunks, k) + 2] = Number(chunks[k].size)
        BY <1>1 DEF ChunksLie
    <2>1. k - 1 \in 0 .. K /\ k \in 0 .. K
        BY <1>5
    <2>2. PICK b, d : b = BeginOf(chunks, k) /\ b \in Nat /\ d = Even(chunks[k].size) /\ d \in Nat
        BY <1>5, <2>1, EvenIsNat DEF BeginOf
    <2>3. EndOf(chunks, k) = b + 2 + d /\ EndOf(chunks, k) <= e
        BY <1>1, <1>5, <2>1, <2>2, EndSteps DEF BeginOf
    <2>4. b + 1 \in 1 .. e /\ b + 2 \in 1 .. e /\ b + 1 <= e /\ b + 2 <= e
        BY <1>6, <2>2, <2>3
    <2>5. w[b + 1] = ChunkId(chunks[k].stream) /\ w[b + 2] = Number(chunks[k].size)
        BY <1>1, <1>2, <2>2, <2>4 DEF ChunksLie
    <2> QED
        BY <1>2, <2>2, <2>4, <2>5
<1>13. HeaderSize <= Len(v)
    BY <1>2, <1>3, <1>4, <1>5, <1>6
<1> QED
    BY <1>1, <1>2, <1>3, <1>8, <1>10, <1>11, <1>12, <1>13 DEF Body

LEMMA IndexCourse ==
    ASSUME CellsFit, FileInv, FileInv', WriterInv, Pending, Course, WriteIndex
    PROVE  Course'
<1>0. PICK w : w = Whole
    OBVIOUS
<1>1. Doing("index") /\ UNCHANGED fileVars /\ UNCHANGED <<setup, status, stored, file>>
    BY DEF WriteIndex, streamVars, writerVars, historyVars
<1>2. "index" \notin FileNames
    BY DEF FileNames
<1>3. /\ todo \in Seq(Statement) /\ todo # <<>> /\ Head(todo).do = "index"
      /\ Stage(Whole, Tell, todo)
    BY <1>1, <1>2, Doings
<1>4. file = "open" /\ AtRest(Whole, Tell)
    BY <1>3, StageNamed
<1>5. CallCourse
    BY <1>2, <1>3, AtCallCourse
<1>6. off = Len(disk) /\ Good(w, stored, status) /\ Kept(disk, w, status)
    BY <1>0, <1>3, <1>4, <1>5 DEF CallCourse
<1>7. PICK l, r, v : /\ Leaves(l, r, v) /\ Ended(v)
                     /\ \A i \in 1 .. Len(w) : v[i] = w[i]
    BY <1>0, IndexAdds
<1>8. w \in Seq(Cell) /\ v \in Seq(Cell) /\ StreamsOK
    BY <1>0, <1>7, WholeFacts DEF Leaves, WriterInv
<1>9. Good(v, stored, status) /\ Kept(disk, v, status)
    <2>1. CASE status = 0
        BY <1>7, <2>1 DEF Ended, Nothing, Good, Kept
    <2>2. CASE ~(status = 0)
        <3>1. Body(w, stored) /\ Len(w) = EndOf(stored, Len(stored)) /\ Finished(v, stored)
            BY <1>0, <1>4, <1>6, <1>7, <2>2 DEF Good, AtRest, Grown, Ended
        <3>2. Body(v, stored) /\ v[1] = w[1]
            BY <1>7, <1>8, <3>1, IndexedBody
        <3> QED
            BY <1>6, <2>2, <3>2 DEF Good, Kept
    <2> QED
        BY <2>1, <2>2
<1>10. Good(v, stored', status') /\ Kept(disk', v, status')
    BY <1>1, <1>9 DEF fileVars
<1> QED
    BY <1>1, <1>6, <1>7, <1>10, LeavesCourse

\* The size of the file
LEMMA SizedBody ==
    ASSUME StreamsOK, NEW w \in Seq(Cell), NEW v \in Seq(Cell), NEW chunks, Body(w, chunks),
           Len(v) = Len(w), \A i \in 1 .. Len(w) : i # 2 => v[i] = w[i],
           NEW x, v[2] = Number(x)
    PROVE  Body(v, chunks)
<1>1. PICK n : n = Len(setup)
    OBVIOUS
<1>2. /\ HeaderSize \in Nat /\ n \in Nat /\ n >= 1 /\ 4 + 4 * n + 4 <= HeaderSize
      /\ HeaderSize <= Len(w) /\ Len(w) \in Nat
    BY <1>1, RoomFacts DEF Body
<1>3. MovieLies(w, chunks) /\ NoChunk(w) /\ (w[1] = Id("RIFF") => HeadsLie(w, n))
    BY <1>1 DEF Body
<1>4. \A i \in 1 .. HeaderSize : i # 2 => v[i] = w[i]
    BY <1>2
<1>5. MovieLies(v, chunks)
    <2>1. HeaderSize - 1 \in 1 .. HeaderSize /\ HeaderSize \in 1 .. HeaderSize
          /\ HeaderSize - 1 # 2 /\ HeaderSize # 2
        BY <1>2
    <2>2. v[HeaderSize - 1] = w[HeaderSize - 1] /\ v[HeaderSize] = w[HeaderSize]
        BY <1>4, <2>1
    <2> QED
        BY <1>3, <2>2 DEF MovieLies
<1>6. NoChunk(v)
    <2>1. Number(x)[1] = "number"
        BY DEF Number
    <2> QED
        BY <1>3, <1>4, <2>1 DEF NoChunk
<1>7. v[1] = Id("RIFF") => HeadsLie(v, n)
    <2> SUFFICES ASSUME v[1] = Id("RIFF") PROVE HeadsLie(v, n)
        OBVIOUS
    <2>1. /\ 1 \in 1 .. HeaderSize /\ 3 \in 1 .. HeaderSize /\ 4 \in 1 .. HeaderSize
          /\ \A s \in 1 .. n : /\ 4 * s + 1 \in 1 .. HeaderSize /\ 4 * s + 2 \in 1 .. HeaderSize
                               /\ 4 * s + 1 # 2 /\ 4 * s + 2 # 2
          /\ 4 * n + 5 \in 1 .. HeaderSize /\ 4 * n + 6 \in 1 .. HeaderSize
          /\ 4 * n + 5 # 2 /\ 4 * n + 6 # 2
        BY <1>2
    <2>2. v[1] = w[1] /\ v[3] = w[3] /\ v[4] = w[4]
        BY <1>4, <2>1
    <2>3. HeadsLie(w, n)
        BY <1>3, <2>2
    <2>4. /\ w[1] = Id("RIFF") /\ w[3] = Id("hdrl") /\ w[4] \in {Number(0), Number(4 * n)}
          /\ \A s \in 1 .. n : w[4 * s + 1] = Id("strl") /\ w[4 * s + 2] = Number(2)
          /\ w[4 * n + 5] = Id("JUNK") /\ w[4 * n + 6] = Number(HeaderSize - 8 - 4 * n)
        BY <2>3 DEF HeadsLie
    <2>5. \A s \in 1 .. n : v[4 * s + 1] = Id("strl") /\ v[4 * s + 2] = Number(2)
        BY <1>4, <2>1, <2>4
    <2>6. v[4 * n + 5] = Id("JUNK") /\ v[4 * n + 6] = Number(HeaderSize - 8 - 4 * n)
        BY <1>4, <2>1, <2>4
    <2> QED
        BY <1>6, <2>2, <2>4, <2>5, <2>6 DEF HeadsLie, NoChunk
<1>8. \A i \in HeaderSize + 1 .. Len(w) : v[i] = w[i]
    <2>1. \A i \in HeaderSize + 1 .. Len(w) : i \in 1 .. Len(w) /\ i # 2
        BY <1>2
    <2> QED
        BY <2>1
<1> QED
    BY <1>1, <1>5, <1>6, <1>7, <1>8, BodyStays

LEMMA RiffSizeCourse ==
    ASSUME CellsFit, FileInv, FileInv', WriterInv, Pending, Course, WriteRiffSize
    PROVE  Course'
<1>0. PICK q, w, c, x : /\ q = Tail(todo) /\ w = Whole /\ x = Len(Whole) - 2 /\ c = Number(x)
    OBVIOUS
<1>1. /\ Doing("riffSize") /\ SeekEnd /\ Then(Go(1) \o Put1(Number(off' - 2)))
      /\ UNCHANGED <<setup, status, stored, file>>
    BY DEF WriteRiffSize, streamVars, writerVars, historyVars
<1>2. "riffSize" \notin FileNames
    BY DEF FileNames
<1>3. /\ todo \in Seq(Statement) /\ todo # <<>> /\ Head(todo).do = "riffSize"
      /\ Stage(Whole, Tell, todo) /\ q \in Seq(Statement)
    BY <1>0, <1>1, <1>2, Doings
<1>4. file = "open" /\ Ended(w)
      /\ \E p \in Seq(Statement) : Closing(p) /\ todo = AfterIndex(p)
    BY <1>0, <1>3, StageNamed
<1>5. PICK p \in Seq(Statement) : Closing(p) /\ todo = AfterIndex(p)
    BY <1>4
<1>6. q = AfterRiffSize(p)
    BY <1>0, <1>5, AfterHeads
<1>7. q # <<>> /\ Head(q).do = "delete"
    BY <1>6, AfterHeads
<1>8. RestOK(q)
    BY <1>7 DEF RestOK, FileNames
<1>9. w \in Seq(Cell) /\ Len(w) \in Nat /\ off' = Len(w) /\ x \in Int /\ StreamsOK
    BY <1>0, <1>1, ToEnd, WholeFacts DEF WriterInv
<1>10. c \in Cell
    BY <1>0, <1>9, CellsAre
<1>11. CallCourse
    BY <1>2, <1>3, AtCallCourse
<1>12. Good(w, stored, status)
    BY <1>0, <1>3, <1>4, <1>11 DEF CallCourse
<1>13. HeaderSize \in Nat /\ HeaderSize >= 12
    BY <1>9, RoomFacts
<1>14. Len(w) >= 1 /\ (status # 0 => Len(w) >= 2)
    <2>1. CASE status = 0
        BY <1>4, <1>9, <2>1 DEF Ended, Nothing
    <2>2. CASE status # 0
        BY <1>9, <1>12, <1>13, <2>2 DEF Good, Body
    <2> QED
        BY <2>1, <2>2
<1>15. PICK o, d : o = 1 /\ d = <<c>>
    OBVIOUS
<1>16. o \in 0 .. Len(w) /\ d \in Seq(Cell) /\ Len(d) = 1 /\ d[1] = c
    BY <1>9, <1>10, <1>14, <1>15
<1>17. PICK v : v = File!Overlay(w, o, d)
    OBVIOUS
<1>18. /\ v \in Seq(Cell) /\ Len(v) = IF o + Len(d) > Len(w) THEN o + Len(d) ELSE Len(w)
       /\ \A i \in 1 .. (IF o + Len(d) > Len(w) THEN o + Len(d) ELSE Len(w)) :
             v[i] = IF i > o /\ i <= o + Len(d) THEN d[i - o] ELSE w[i]
    BY <1>9, <1>16, <1>17, OverlayFacts
<1>19. /\ v[1] = w[1] /\ v[2] = c
       /\ Len(w) >= 2 => Len(v) = Len(w)
       /\ \A i \in 1 .. Len(w) : i # 2 => v[i] = w[i]
    <2>1. o + Len(d) = 2
        BY <1>15, <1>16
    <2>2. Len(v) = IF 2 > Len(w) THEN 2 ELSE Len(w)
        BY <1>18, <2>1
    <2>3. \A i \in 1 .. Len(v) : ~(i > 1 /\ i <= 2) => v[i] = w[i]
        BY <1>15, <1>18, <2>1
    <2>4. Len(v) >= 2 /\ Len(v) \in Nat /\ (Len(w) >= 2 => Len(v) = Len(w)) /\ Len(v) >= Len(w)
        BY <1>9, <2>2
    <2>5. \A i \in 1 .. Len(w) : i # 2 => i \in 1 .. Len(v) /\ ~(i > 1 /\ i <= 2)
        BY <1>9, <2>4
    <2>6. v[2] = c
        <3>1. 2 \in 1 .. Len(v) /\ 2 - 1 = 1
            BY <2>4
        <3> QED
            BY <1>15, <1>16, <1>18, <2>1, <3>1
    <2> QED
        BY <1>9, <1>14, <2>3, <2>4, <2>5, <2>6
<1>20. Good(v, stored, status)
    <2>1. CASE status = 0
        <3>1. w[1] # Id("RIFF")
            BY <1>4, <2>1 DEF Ended, Nothing
        <3> QED
            BY <1>19, <2>1, <3>1 DEF Good
    <2>2. CASE status # 0
        <3>1. Body(w, stored) /\ Len(v) = Len(w) /\ v[2] = Number(x)
            BY <1>0, <1>12, <1>14, <1>19, <2>2 DEF Good
        <3>2. Body(v, stored)
            BY <1>9, <1>18, <1>19, <3>1, SizedBody
        <3> QED
            BY <2>2, <3>2 DEF Good
    <2> QED
        BY <2>1, <2>2
<1>21. PICK e, n : e = <<>> /\ n = Len(w)
    OBVIOUS
<1>22. Piece(w, n, e, w)
    BY <1>9, <1>12, <1>13, <1>21, NoPart
<1>23. Piece(w, o, d, v)
    <2>1. Len(d) < HeaderSize
        BY <1>13, <1>16
    <2> QED
        BY <1>9, <1>12, <1>16, <1>17, <1>20, <2>1 DEF Piece
<1>24. PICK l : l = Steps(o, d, e)
    OBVIOUS
<1>25. e \in Seq(Statement) /\ l \in Seq(Statement)
    <2>1. e \in Seq(Statement) /\ o \in Nat
        BY <1>15, <1>21
    <2> QED
        BY <1>16, <1>24, <2>1, StepsFit
<1>26. l = Go(1) \o Put1(c)
    <2>1. PICK g : g = PutAll(d) /\ g \in Seq(Statement)
        BY <1>16, GroupsFit
    <2>2. g \o <<>> = g
        BY <2>1
    <2>3. g = Put1(c)
        BY <1>15, <2>1 DEF PutAll, Put1
    <2> QED
        BY <1>15, <1>21, <1>24, <2>1, <2>2, <2>3 DEF Steps
<1>27. Writes(l)
    <2>1. Go(1) \in Seq(Statement) /\ Put1(c) \in Seq(Statement)
        <3>1. 1 \in Nat
            OBVIOUS
        <3> QED
            BY <1>10, <3>1, GroupsFit
    <2>2. Writes(Go(1)) /\ Writes(Put1(c))
        BY GroupsWrite
    <2> QED
        BY <1>26, <2>1, <2>2, WritesJoin
<1>28. todo' = l \o q
    <2>1. off' - 2 = x
        BY <1>0, <1>9
    <2> QED
        BY <1>0, <1>1, <1>26, <2>1 DEF Then
<1>29. PICK m : m = 1 /\ m \in Nat
    OBVIOUS
<1>30. PICK B, P, C, T : /\ Plan(m, B, P, C, T) /\ T[m] = e
                         /\ B[0] = w /\ P[0] = n /\ C[0] = e /\ T[0] = l
    BY <1>22, <1>23, <1>24, <1>25, <1>29, SinglePart
<1>31. Ending(T[m], q)
    BY <1>7, <1>21, <1>30 DEF Ending
<1> QED
    BY <1>0, <1>1, <1>3, <1>8, <1>21, <1>25, <1>27, <1>28, <1>29, <1>30, <1>31, PlanBegins

-----------------------------------------------------------------------------
(* Every step leaves a file that can be salvaged. *)

LEMMA ChunkCourse ==
    ASSUME CellsFit, FileInv, FileInv', WriterInv, Pending, Course, stored \in Seq(Chunk),
           ChunkBegins
    PROVE  Course'
<1>1. CASE index = <<>>
    BY <1>1, FirstChunkCourse
<1>2. CASE index # <<>>
    BY <1>2, NextChunkCourse
<1> QED
    BY <1>1, <1>2

LEMMA CourseSteps ==
    ASSUME CellsFit, HeaderSize <= BufSize, FilingInv, Course, FileInv', WriterInv',
           [Next]_vars, phase' = "open"
    PROVE  Course'
<1>1. /\ FileInv /\ WriterInv /\ Quiet /\ stored \in Seq(Chunk)
      /\ Pending
    BY FieldSteps DEF FilingInv
<1>2. CASE FileStep
    BY <1>1, <1>2, PutCourse, WriteCourse, DirectCourse, SeekCourse, SeekEndCourse DEF FileStep
<1>3. CASE CallStep
    <2>1. CASE ChunkSegments \/ ChunkBegins \/ Locate \/ Refuse \/ Enter \/ Count
        BY <1>1, <2>1, SegmentsCourse, ChunkCourse, LocateCourse, RefuseCourse, EnterCourse,
           CountCourse
    <2>2. CASE WriteHeaders \/ Finish \/ WriteIndex \/ WriteRiffSize \/ DeleteBuffer
        BY <1>1, <2>2, HeadersCourse, FinishCourse, IndexCourse, RiffSizeCourse, DeleteCourse
    <2>3. CASE Stop \/ Begin
        BY <1>1, <2>3, StopCourse, BeginCourse
    <2>4. ~ChunkWithoutFile /\ ~Destroyed
        BY DEF ChunkWithoutFile, Destroyed
    <2> QED
        BY <1>3, <2>1, <2>2, <2>3, <2>4 DEF CallStep
<1>4. CASE UserCall
    <2>1. CASE AddChunk \/ Segment \/ Destroy
        BY <1>1, <2>1, AskedCourse DEF Asked
    <2>2. CASE SegmentAtKeyframe
        <3>1. /\ UNCHANGED fileVars /\ todo' = todo
              /\ UNCHANGED <<setup, stored, status, file>>
            BY <2>2 DEF SegmentAtKeyframe, streamVars, historyVars
        <3> QED
            BY <3>1, StillCourse
    <2> QED
        BY <1>4, <2>1, <2>2 DEF UserCall
<1>5. CASE UNCHANGED vars
    <2>1. /\ UNCHANGED fileVars /\ todo' = todo
          /\ UNCHANGED <<setup, stored, status, file>>
        BY <1>5 DEF vars, streamVars, writerVars, historyVars
    <2> QED
        BY <2>1, StillCourse
<1> QED
    BY <1>2, <1>3, <1>4, <1>5 DEF Next

\* A step that closes the file, or the program, leaves the disk alone.
LEMMA ClosedStill ==
    ASSUME [Next]_vars, phase' # "open"
    PROVE  UNCHANGED <<disk, stored, setup>>
<1>1. CASE FileStep
    BY <1>1 DEF FileStep, PutNumber, Write, WriteDirect, Lseek, LseekEnd, Doing,
                streamVars, writerVars, historyVars
<1>2. CASE CallStep
    <2>1. CASE ChunkWithoutFile \/ Destroyed
        BY <2>1 DEF ChunkWithoutFile, Destroyed, fileVars, streamVars, historyVars
    <2>2. CASE \/ ChunkSegments \/ ChunkBegins \/ Locate \/ Refuse \/ Enter \/ Count
        BY <2>2 DEF ChunkSegments, ChunkBegins, Locate, Refuse, Enter, Count, Doing,
                    streamVars, writerVars, historyVars
    <2>3. CASE \/ WriteHeaders \/ Finish \/ WriteIndex \/ WriteRiffSize \/ DeleteBuffer
               \/ Stop \/ Begin
        BY <2>3 DEF WriteHeaders, Finish, WriteIndex, WriteRiffSize, DeleteBuffer, Stop,
                    Begin, Doing, streamVars, writerVars, historyVars
    <2> QED
        BY <1>2, <2>1, <2>2, <2>3 DEF CallStep
<1>3. CASE UserCall
    BY <1>3 DEF UserCall, AddChunk, SegmentAtKeyframe, Segment, Destroy, Idle,
                fileVars, streamVars, writerVars, historyVars
<1>4. CASE UNCHANGED vars
    BY <1>4 DEF vars, fileVars, streamVars, writerVars, historyVars
<1> QED
    BY <1>1, <1>2, <1>3, <1>4 DEF Next

\* While the file is open, its course; afterwards, what is on the disk.
CrashInv == /\ FilingInv
            /\ phase = "open" => Course
            /\ phase # "open" => Safe(disk, stored)

LEMMA CrashInvSafe ==
    ASSUME CrashInv
    PROVE  Safe(disk, stored)
<1>1. FileInv /\ StreamsOK
    BY DEF CrashInv, FilingInv, WriterInv
<1> QED
    BY <1>1, CourseSafe DEF CrashInv

LEMMA CrashInit ==
    ASSUME Init
    PROVE  CrashInv
<1>1. phase = "open"
    BY DEF Init
<1> QED
    BY <1>1, FilingInit, InitCourse DEF CrashInv

LEMMA CrashNext ==
    ASSUME CellsFit, HeaderSize <= BufSize, CrashInv, [Next]_vars
    PROVE  CrashInv'
<1>1. FilingInv /\ FilingInv'
    BY FilingNext DEF CrashInv
<1>2. FileInv' /\ WriterInv'
    BY <1>1 DEF FilingInv
<1>3. CASE phase' = "open"
    <2>1. Course
        BY <1>3, FieldSteps DEF CrashInv
    <2>2. Course'
        BY <1>1, <1>2, <1>3, <2>1, CourseSteps
    <2> QED
        BY <1>1, <1>3, <2>2 DEF CrashInv
<1>4. CASE phase' # "open"
    <2>1. disk' = disk /\ stored' = stored /\ setup' = setup
        BY <1>4, ClosedStill
    <2>2. PICK d, chunks : d = disk /\ chunks = stored
        OBVIOUS
    <2>3. Safe(d, chunks)
        BY <2>2, CrashInvSafe
    <2>4. Safe(d, chunks)'
        BY <2>1, <2>3, SameGood
    <2>5. Safe(disk, stored)'
        BY <2>1, <2>2, <2>4
    <2> QED
        BY <1>1, <1>4, <2>5 DEF CrashInv
<1> QED
    BY <1>3, <1>4

LEMMA CrashInvRecovers ==
    ASSUME CrashInv
    PROVE  CrashRecovers
<1> SUFFICES ASSUME disk # <<>>, disk[1] = Id("RIFF"),
                    \A i \in DOMAIN disk : disk[i] # Id("idx1")
             PROVE  Recovers
    BY DEF CrashRecovers
<1>1. StreamsOK /\ disk \in Seq(Cell)
    BY DEF CrashInv, FilingInv, WriterInv, FileInv
<1>2. Salvage(disk, stored)
    BY CrashInvSafe DEF Safe
<1> QED
    BY <1>1, <1>2, SalvageRecovers

\* Whenever the program dies, of a file whose headers reached the disk and whose
\* index did not the reader finds exactly the chunks that did
\* (AviReadHandler.cpp, reconstructIndexChunk; AviWrite.cpp, FileBuffer.h).
THEOREM WriterCrashes ==
    ASSUME CellsFit, HeaderSize <= BufSize
    PROVE  AllSpec => []CrashRecovers
<1>1. AllInit => CrashInv
    BY CrashInit DEF AllInit
<1>2. CrashInv /\ [AllNext]_allVars => CrashInv'
    BY CrashNext, ReadingWrites
<1>3. CrashInv => CrashRecovers
    BY CrashInvRecovers
<1> QED
    BY <1>1, <1>2, <1>3, PTL DEF AllSpec
=============================================================================

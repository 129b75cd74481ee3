--------------------------- MODULE AudioOutProofs ---------------------------
(***************************************************************************)
(* AudioOut, for any stream, any sizes of the queue, the card and its      *)
(* fragments, and any frames.                                              *)
(***************************************************************************)
EXTENDS AudioOut, SequenceTheorems, WellFoundedInduction, TLAPS

-----------------------------------------------------------------------------
(***************************************************************************)
(* What FlattenSeq computes.  Its recursion is followed by least           *)
(* counterexamples: a set of numbers that is not empty has a least one.    *)
(***************************************************************************)
LEMMA Least ==
    ASSUME NEW T, T \subseteq Nat, T # {}
    PROVE  \E m \in T : \A y \in T : m <= y
<1> DEFINE R == OpToRel(<, Nat)
<1>1. IsWellFoundedOn(R, Nat)
    BY NatLessThanWellFounded
<1>2. \A x, y \in Nat : <<y, x>> \in R <=> y < x
    BY DEF OpToRel
<1> HIDE DEF R
<1>3. PICK x \in T : \A y \in T : ~(<<y, x>> \in R)
    BY <1>1, WFMin
<1>4. T \subseteq Nat /\ \A y \in T : ~(y < x)
    BY <1>2, <1>3, Zenon
<1> QED
    BY ONLY <1>4, x \in T

\* f[i] is the first i sequences of s, joined, for the numbers in I.
Joins(f, s, I) ==
    \A i \in I : f[i] = IF i = 1 THEN s[i] ELSE f[i - 1] \o s[i]

Alike(s, t, I) == \A i \in I : s[i] = t[i]

\* 1, 2, 3, ..., some or all
Initial(I) == I \subseteq Nat /\ \A i \in I : i = 1 \/ i - 1 \in I

LEMMA JoinsExist ==
    ASSUME NEW S, NEW s \in Seq(Seq(S)), NEW n \in 0 .. Len(s)
    PROVE  \E f \in [1 .. n -> Seq(S)] : Joins(f, s, 1 .. n)
<1> DEFINE T == {k \in 0 .. Len(s) :
                    ~ \E f \in [1 .. k -> Seq(S)] : Joins(f, s, 1 .. k)}
<1> SUFFICES ASSUME T # {} PROVE FALSE
    OBVIOUS
<1>1. PICK k \in T : \A y \in T : k <= y
    <2>1. T \subseteq Nat
        OBVIOUS
    <2> HIDE DEF T
    <2> QED
        BY <2>1, Least
<1>2. k # 0
    <2> SUFFICES 0 \notin T
        BY <1>1
    <2> DEFINE f == [i \in 1 .. 0 |-> <<>>]
    <2>1. f \in [1 .. 0 -> Seq(S)]
        OBVIOUS
    <2>2. Joins(f, s, 1 .. 0)
        BY DEF Joins
    <2> HIDE DEF f
    <2> QED
        BY <2>1, <2>2
<1>3. PICK f \in [1 .. (k - 1) -> Seq(S)] : Joins(f, s, 1 .. (k - 1))
    <2>1. k \in 0 .. Len(s)
        OBVIOUS
    <2>2. k - 1 \notin T
        <3> HIDE DEF T
        <3> QED
            BY <1>1, <2>1
    <2>3. k - 1 \in 0 .. Len(s)
        BY <1>2, <2>1
    <2> QED
        BY <2>2, <2>3
<1> DEFINE g == [i \in 1 .. k |-> IF i = k
                                  THEN IF i = 1 THEN s[i] ELSE f[i - 1] \o s[i]
                                  ELSE f[i]]
<1>4. s[k] \in Seq(S) /\ k \in 1 .. Len(s)
    BY <1>2, ElementOfSeq
<1>5. g \in [1 .. k -> Seq(S)]
    BY <1>3, <1>4, ConcatProperties
<1>6. \A i \in 1 .. k : g[i] = IF i = 1 THEN s[i] ELSE g[i - 1] \o s[i]
    <2> TAKE i \in 1 .. k
    <2>1. CASE i = k
        BY <1>3, <1>4, <2>1
    <2>2. CASE i # k
        <3>1. i \in 1 .. (k - 1) /\ (i # 1 => i - 1 \in 1 .. (k - 1))
            BY <1>4, <2>2
        <3>2. f[i] = IF i = 1 THEN s[i] ELSE f[i - 1] \o s[i]
            BY <1>3, <3>1 DEF Joins
        <3>3. g[i] = f[i] /\ (i # 1 => g[i - 1] = f[i - 1])
            BY <3>1, <2>2
        <3> QED
            BY <3>2, <3>3
    <2> QED
        BY <2>1, <2>2
<1>7. Joins(g, s, 1 .. k)
    BY <1>6 DEF Joins
<1> QED
    BY <1>5, <1>7

LEMMA JoinsAlike ==
    ASSUME NEW s, NEW t, NEW f, NEW g, NEW I, Initial(I),
           Joins(f, s, I), Joins(g, t, I), Alike(s, t, I)
    PROVE  Alike(f, g, I)
<1> DEFINE T == {i \in I : f[i] # g[i]}
<1> SUFFICES ASSUME T # {} PROVE FALSE
    BY DEF Alike
<1>1. PICK i \in T : \A y \in T : i <= y
    <2>1. T \subseteq Nat
        BY DEF Initial
    <2> HIDE DEF T
    <2> QED
        BY <2>1, Least
<1>2. /\ f[i] = IF i = 1 THEN s[i] ELSE f[i - 1] \o s[i]
      /\ g[i] = IF i = 1 THEN t[i] ELSE g[i - 1] \o t[i]
    BY DEF Joins
<1>3. i # 1 => f[i - 1] = g[i - 1]
    <2> SUFFICES ASSUME i # 1 PROVE i - 1 \in I /\ i - 1 \notin T
        OBVIOUS
    <2>1. i \in Nat /\ i - 1 \in I /\ i - 1 \in Nat
        BY DEF Initial
    <2>2. i - 1 \notin T
        <3> HIDE DEF T
        <3> QED
            BY <1>1, <2>1
    <2> QED
        BY <2>1, <2>2
<1>4. s[i] = t[i]
    BY DEF Alike
<1> QED
    BY <1>2, <1>3, <1>4

LEMMA InitialRange == \A n \in Nat : Initial(1 .. n)
    BY DEF Initial

LEMMA FlattenIs ==
    ASSUME NEW S, NEW s \in Seq(Seq(S)), s # <<>>
    PROVE  \E f \in [1 .. Len(s) -> Seq(S)] :
               Joins(f, s, 1 .. Len(s)) /\ FlattenSeq(s) = f[Len(s)]
<1> DEFINE n == Len(s)
           Table(f) == f = [i \in 1 .. n |-> IF i = 1 THEN s[i]
                                             ELSE f[i - 1] \o s[i]]
           f == CHOOSE f : Table(f)
<1>1. n \in Nat \ {0} /\ n \in 1 .. n
    OBVIOUS
<1>2. PICK g \in [1 .. n -> Seq(S)] : Joins(g, s, 1 .. n)
    <2>1. n \in 0 .. n
        BY <1>1
    <2> QED
        BY <2>1, JoinsExist
<1>3. Table(g)
    BY <1>2 DEF Joins
<1>4. Table(f)
    BY <1>3, Zenon
<1>5. FlattenSeq(s) = f[n]
    BY <1>1, Zenon DEF FlattenSeq
<1> HIDE DEF f
<1>6. Joins(f, s, 1 .. n)
    BY <1>4 DEF Joins
<1> HIDE DEF n, Table
<1>7. Initial(1 .. n) /\ Alike(s, s, 1 .. n)
    BY <1>1, InitialRange DEF Alike
<1>8. Alike(f, g, 1 .. n)
    BY <1>2, <1>6, <1>7, JoinsAlike
<1>9. FlattenSeq(s) = g[n]
    BY <1>1, <1>5, <1>8 DEF Alike
<1> QED
    BY <1>2, <1>9 DEF n

LEMMA FlattenNone == FlattenSeq(<<>>) = <<>>
    BY DEF FlattenSeq

LEMMA FlattenType ==
    ASSUME NEW S, NEW s \in Seq(Seq(S))
    PROVE  FlattenSeq(s) \in Seq(S)
<1>1. CASE s = <<>>
    <2>1. FlattenSeq(s) = <<>>
        BY <1>1, FlattenNone, Zenon
    <2> QED
        BY <2>1, EmptySeq
<1>2. CASE s # <<>>
    <2>1. PICK f \in [1 .. Len(s) -> Seq(S)] :
              Joins(f, s, 1 .. Len(s)) /\ FlattenSeq(s) = f[Len(s)]
        BY <1>2, FlattenIs
    <2>2. Len(s) \in 1 .. Len(s)
        BY <1>2
    <2> QED
        BY <2>1, <2>2
<1> QED
    BY <1>1, <1>2

LEMMA FlattenAppend ==
    ASSUME NEW S, NEW s \in Seq(Seq(S)), NEW c \in Seq(S)
    PROVE  FlattenSeq(Append(s, c)) = FlattenSeq(s) \o c
<1> DEFINE t == Append(s, c)
           n == Len(s)
<1>1. /\ t \in Seq(Seq(S)) /\ t # <<>> /\ Len(t) = n + 1 /\ n \in Nat
      /\ \A i \in 1 .. n : t[i] = s[i]
      /\ t[n + 1] = c
    BY AppendProperties
<1> HIDE DEF t
<1>2. PICK g \in [1 .. (n + 1) -> Seq(S)] :
          Joins(g, t, 1 .. (n + 1)) /\ FlattenSeq(t) = g[n + 1]
    BY <1>1, FlattenIs
<1>3. FlattenSeq(t) = IF n + 1 = 1 THEN c ELSE g[n] \o c
    <2>1. n + 1 \in 1 .. (n + 1) /\ (n + 1) - 1 = n
        BY <1>1
    <2>2. g[n + 1] = IF n + 1 = 1 THEN t[n + 1] ELSE g[(n + 1) - 1] \o t[n + 1]
        BY <1>2, <2>1, Zenon DEF Joins
    <2> QED
        BY <1>1, <1>2, <2>1, <2>2
<1>4. CASE s = <<>>
    <2>1. FlattenSeq(s) = <<>>
        BY <1>4, FlattenNone, Zenon
    <2>2. FlattenSeq(t) = c
        BY <1>3, <1>4
    <2> QED
        BY <2>1, <2>2, ConcatEmptySeq DEF t
<1>5. CASE s # <<>>
    <2>1. PICK f \in [1 .. n -> Seq(S)] :
              Joins(f, s, 1 .. n) /\ FlattenSeq(s) = f[n]
        BY <1>5, FlattenIs
    <2>2. Joins(g, t, 1 .. n)
        <3>1. \A i \in 1 .. n : i \in 1 .. (n + 1)
            BY <1>1
        <3> QED
            BY <1>2, <3>1, Zenon DEF Joins
    <2>3. Alike(t, s, 1 .. n) /\ Initial(1 .. n)
        BY <1>1, InitialRange DEF Alike
    <2>4. Alike(g, f, 1 .. n)
        BY <2>1, <2>2, <2>3, JoinsAlike
    <2>5. n \in 1 .. n /\ n + 1 # 1
        BY <1>5
    <2>6. g[n] = f[n]
        BY <2>4, <2>5 DEF Alike
    <2> QED
        BY <1>3, <2>1, <2>5, <2>6 DEF t
<1> QED
    BY <1>4, <1>5

LEMMA FlattenOne ==
    ASSUME NEW S, NEW c \in Seq(S)
    PROVE  FlattenSeq(<<c>>) = c
<1>1. <<>> \in Seq(Seq(S)) /\ Append(<<>>, c) = <<c>>
    OBVIOUS
<1>2. FlattenSeq(Append(<<>>, c)) = FlattenSeq(<<>>) \o c
    BY <1>1, FlattenAppend
<1>3. FlattenSeq(<<>>) \o c = c
    BY FlattenNone, ConcatEmptySeq
<1> QED
    BY <1>1, <1>2, <1>3

\* The first k elements, and one more
LEMMA Prefix ==
    ASSUME NEW S, NEW s \in Seq(S), NEW k \in 1 .. Len(s)
    PROVE  /\ SubSeq(s, 1, k - 1) \in Seq(S) /\ Len(SubSeq(s, 1, k - 1)) = k - 1
           /\ \A i \in 1 .. k - 1 : SubSeq(s, 1, k - 1)[i] = s[i]
           /\ SubSeq(s, 1, k) = Append(SubSeq(s, 1, k - 1), s[k]) /\ s[k] \in S
<1> DEFINE p == SubSeq(s, 1, k - 1)
           q == SubSeq(s, 1, k)
<1>1. k \in Nat /\ \A i \in 1 .. k : s[i] \in S
    BY ElementOfSeq
<1>2. /\ p \in Seq(S) /\ Len(p) = k - 1
      /\ \A i \in 1 .. k - 1 : p[i] = s[i]
    BY <1>1, SubSeqProperties
<1>3. /\ q \in Seq(S) /\ Len(q) = k
      /\ \A i \in 1 .. k : q[i] = s[i]
    BY <1>1, SubSeqProperties
<1> HIDE DEF p, q
<1>4. q = Append(p, s[k])
    <2>1. /\ Append(p, s[k]) \in Seq(S) /\ Len(Append(p, s[k])) = k
          /\ \A i \in 1 .. k - 1 : Append(p, s[k])[i] = p[i]
          /\ Append(p, s[k])[k] = s[k]
        BY <1>1, <1>2, AppendProperties
    <2>2. \A i \in 1 .. k : q[i] = Append(p, s[k])[i]
        BY <1>1, <1>2, <1>3, <2>1
    <2> QED
        BY <1>3, <2>1, <2>2, SeqEqual
<1>5. s[k] \in S
    BY <1>1
<1> QED
    BY <1>2, <1>4, <1>5, Zenon DEF p, q

LEMMA WholePrefix ==
    ASSUME NEW S, NEW s \in Seq(S)
    PROVE  SubSeq(s, 1, Len(s)) = s /\ SubSeq(s, 1, 0) = <<>>
    BY SubSeqFull, SubSeqEmpty

LEMMA AppendBehind ==
    ASSUME NEW S, NEW s \in Seq(S), NEW t \in Seq(S), NEW x \in S
    PROVE  s \o Append(t, x) = Append(s \o t, x)
<1> DEFINE a == s \o Append(t, x)
           b == Append(s \o t, x)
<1>1. Append(t, x) \in Seq(S) /\ Len(Append(t, x)) = Len(t) + 1
      /\ (\A i \in 1 .. Len(t) : Append(t, x)[i] = t[i])
      /\ Append(t, x)[Len(t) + 1] = x /\ Len(t) \in Nat /\ Len(s) \in Nat
    BY AppendProperties
<1>2. /\ a \in Seq(S) /\ Len(a) = Len(s) + Len(t) + 1
      /\ \A i \in 1 .. Len(s) + Len(t) + 1 :
             a[i] = IF i <= Len(s) THEN s[i] ELSE Append(t, x)[i - Len(s)]
    BY <1>1, ConcatProperties
<1>3. /\ s \o t \in Seq(S) /\ Len(s \o t) = Len(s) + Len(t)
      /\ \A i \in 1 .. Len(s) + Len(t) :
             (s \o t)[i] = IF i <= Len(s) THEN s[i] ELSE t[i - Len(s)]
    BY ConcatProperties
<1>4. /\ b \in Seq(S) /\ Len(b) = Len(s) + Len(t) + 1
      /\ \A i \in 1 .. Len(s) + Len(t) : b[i] = (s \o t)[i]
      /\ b[Len(s) + Len(t) + 1] = x
    BY <1>3, AppendProperties
<1> HIDE DEF a, b
<1>5. \A i \in 1 .. Len(s) + Len(t) + 1 : a[i] = b[i]
    <2> TAKE i \in 1 .. Len(s) + Len(t) + 1
    <2>1. CASE i <= Len(s)
        <3>1. i \in 1 .. Len(s) + Len(t)
            BY <1>1, <2>1
        <3> QED
            BY <1>2, <1>3, <1>4, <2>1, <3>1
    <2>2. CASE i > Len(s) /\ i <= Len(s) + Len(t)
        <3>1. i - Len(s) \in 1 .. Len(t) /\ i \in 1 .. Len(s) + Len(t)
            BY <1>1, <2>2
        <3>2. a[i] = t[i - Len(s)]
            BY <1>1, <1>2, <2>2, <3>1
        <3>3. b[i] = t[i - Len(s)]
            BY <1>1, <1>3, <1>4, <2>2, <3>1
        <3> QED
            BY <3>2, <3>3
    <2>3. CASE i = Len(s) + Len(t) + 1
        <3>1. i - Len(s) = Len(t) + 1 /\ ~(i <= Len(s))
            BY <1>1, <2>3
        <3> QED
            BY <1>1, <1>2, <1>4, <2>3, <3>1
    <2> QED
        BY <1>1, <2>1, <2>2, <2>3
<1> QED
    BY <1>2, <1>4, <1>5, SeqEqual DEF a, b

LEMMA FlattenConcat ==
    ASSUME NEW S, NEW s \in Seq(Seq(S)), NEW t \in Seq(Seq(S))
    PROVE  FlattenSeq(s \o t) = FlattenSeq(s) \o FlattenSeq(t)
<1> DEFINE Holds(k) == FlattenSeq(s \o SubSeq(t, 1, k))
                           = FlattenSeq(s) \o FlattenSeq(SubSeq(t, 1, k))
           T == {k \in 0 .. Len(t) : ~Holds(k)}
<1> SUFFICES T = {}
    <2>1. Len(t) \in 0 .. Len(t)
        OBVIOUS
    <2>2. Holds(Len(t))
        BY <2>1
    <2> QED
        BY <2>2, WholePrefix
<1> SUFFICES ASSUME T # {} PROVE FALSE
    OBVIOUS
<1>1. PICK k \in T : \A y \in T : k <= y
    <2>1. T \subseteq Nat
        OBVIOUS
    <2> HIDE DEF T
    <2> QED
        BY <2>1, Least
<1>2. k \in 0 .. Len(t) /\ ~Holds(k)
    OBVIOUS
<1>3. Holds(0)
    <2>1. SubSeq(t, 1, 0) = <<>> /\ s \o <<>> = s
        BY WholePrefix, ConcatEmptySeq
    <2>2. FlattenSeq(s) \o <<>> = FlattenSeq(s)
        BY FlattenType, ConcatEmptySeq
    <2> QED
        BY <2>1, <2>2, FlattenNone
<1>4. k \in 1 .. Len(t) /\ Holds(k - 1)
    <2>1. k # 0
        BY <1>2, <1>3
    <2>2. k \in 1 .. Len(t) /\ k - 1 \in 0 .. Len(t)
        BY <1>2, <2>1
    <2>3. k - 1 \notin T
        <3> HIDE DEF T
        <3> QED
            BY <1>1, <2>2
    <2> QED
        BY <2>2, <2>3
<1> DEFINE p == SubSeq(t, 1, k - 1)
           c == t[k]
           fs == FlattenSeq(s)
           fp == FlattenSeq(p)
<1>5. /\ p \in Seq(Seq(S)) /\ SubSeq(t, 1, k) = Append(p, c) /\ c \in Seq(S)
      /\ FlattenSeq(s \o p) = fs \o fp
    BY <1>4, Prefix
<1> HIDE DEF p, c
<1>6. s \o p \in Seq(Seq(S))
    BY <1>5, ConcatProperties
<1>7. s \o Append(p, c) = Append(s \o p, c)
    <2> DEFINE E == Seq(S)
    <2>1. s \in Seq(E) /\ p \in Seq(E) /\ c \in E
        BY <1>5
    <2> HIDE DEF E
    <2> QED
        BY ONLY <2>1, AppendBehind
<1>8. FlattenSeq(Append(s \o p, c)) = (fs \o fp) \o c
    BY <1>5, <1>6, FlattenAppend
<1>9. FlattenSeq(Append(p, c)) = fp \o c
    BY <1>5, FlattenAppend
<1>10. (fs \o fp) \o c = fs \o (fp \o c)
    <2>1. fs \in Seq(S) /\ fp \in Seq(S) /\ c \in Seq(S)
        BY <1>5, FlattenType
    <2> HIDE DEF fs, fp
    <2> QED
        BY ONLY <2>1, ConcatAssociative
<1>11. Holds(k)
    BY <1>5, <1>7, <1>8, <1>9, <1>10
<1> QED
    BY <1>2, <1>11

-----------------------------------------------------------------------------
(* Sequences, cut and joined *)

LEMMA MinIs ==
    ASSUME NEW T, T \subseteq Nat, T # {}
    PROVE  Min(T) \in T /\ \A y \in T : Min(T) <= y
    BY Least DEF Min

LEMMA FirstOfConcat ==
    ASSUME NEW S, NEW x \in Seq(S), NEW y \in Seq(S)
    PROVE  SubSeq(x \o y, 1, Len(x)) = x
<1> DEFINE z == x \o y
           p == SubSeq(z, 1, Len(x))
<1>1. /\ z \in Seq(S) /\ Len(z) = Len(x) + Len(y)
      /\ Len(x) \in Nat /\ Len(y) \in Nat
      /\ \A i \in 1 .. Len(x) : z[i] = x[i] /\ z[i] \in S
    BY ConcatProperties
<1> HIDE DEF z
<1>2. p \in Seq(S) /\ Len(p) = Len(x) /\ \A i \in 1 .. Len(x) : p[i] = z[i]
    BY <1>1, SubSeqProperties
<1> HIDE DEF p
<1> QED
    BY <1>1, <1>2, SeqEqual DEF p, z

LEMMA CutAt ==
    ASSUME NEW S, NEW s \in Seq(S), NEW k \in 0 .. Len(s)
    PROVE  /\ SubSeq(s, 1, k) \in Seq(S) /\ Len(SubSeq(s, 1, k)) = k
           /\ SubSeq(s, k + 1, Len(s)) \in Seq(S)
           /\ Len(SubSeq(s, k + 1, Len(s))) = Len(s) - k
           /\ s = SubSeq(s, 1, k) \o SubSeq(s, k + 1, Len(s))
<1> DEFINE x == SubSeq(s, 1, k)
           y == SubSeq(s, k + 1, Len(s))
<1>1. k \in Nat /\ Len(s) \in Nat /\ \A i \in 1 .. Len(s) : s[i] \in S
    OBVIOUS
<1>2. x \in Seq(S) /\ Len(x) = k /\ \A i \in 1 .. k : x[i] = s[i]
    BY <1>1, SubSeqProperties
<1>3. /\ y \in Seq(S) /\ Len(y) = Len(s) - k
      /\ \A i \in 1 .. Len(s) - k : y[i] = s[i + k]
    BY <1>1, SubSeqProperties
<1> HIDE DEF x, y
<1>4. /\ x \o y \in Seq(S) /\ Len(x \o y) = Len(s)
      /\ \A i \in 1 .. Len(s) :
             (x \o y)[i] = IF i <= k THEN x[i] ELSE y[i - k]
    BY <1>1, <1>2, <1>3, ConcatProperties
<1>5. \A i \in 1 .. Len(s) : (x \o y)[i] = s[i]
    <2> TAKE i \in 1 .. Len(s)
    <2>1. CASE i <= k
        <3>1. i \in 1 .. k
            BY <1>1, <2>1
        <3> QED
            BY <1>2, <1>4, <2>1, <3>1
    <2>2. CASE ~(i <= k)
        <3>1. i - k \in 1 .. Len(s) - k /\ (i - k) + k = i
            BY <1>1, <2>2
        <3> QED
            BY <1>3, <1>4, <2>2, <3>1
    <2> QED
        BY <2>1, <2>2
<1>6. x \o y = s
    BY <1>4, <1>5, SeqEqual
<1> QED
    BY <1>2, <1>3, <1>6 DEF x, y

-----------------------------------------------------------------------------
(* The queue *)

LEMMA UnitsFacts ==
    ASSUME NEW S, NEW b \in Seq(Seq(S)), NEW k \in 0 .. Len(b)
    PROVE  /\ UnitsIn(b, k) \in Nat
           /\ UnitsIn(b, 0) = 0
           /\ UnitsIn(b, Len(b)) = Len(FlattenSeq(b))
           /\ k # 0 => /\ FlattenSeq(SubSeq(b, 1, k))
                              = FlattenSeq(SubSeq(b, 1, k - 1)) \o b[k]
                       /\ b[k] \in Seq(S)
                       /\ FlattenSeq(SubSeq(b, 1, k - 1)) \in Seq(S)
<1>1. SubSeq(b, 1, k) \in Seq(Seq(S))
    BY CutAt
<1>2. UnitsIn(b, k) \in Nat
    <2>1. FlattenSeq(SubSeq(b, 1, k)) \in Seq(S)
        BY <1>1, FlattenType
    <2> QED
        BY <2>1 DEF UnitsIn
<1>3. UnitsIn(b, 0) = 0
    <2>1. SubSeq(b, 1, 0) = <<>>
        BY WholePrefix
    <2>2. UnitsIn(b, 0) = Len(FlattenSeq(<<>>))
        BY <2>1, Zenon DEF UnitsIn
    <2> QED
        BY <2>2, FlattenNone
<1>4. UnitsIn(b, Len(b)) = Len(FlattenSeq(b))
    BY WholePrefix DEF UnitsIn
<1>5. ASSUME k # 0
      PROVE  /\ FlattenSeq(SubSeq(b, 1, k))
                    = FlattenSeq(SubSeq(b, 1, k - 1)) \o b[k]
             /\ b[k] \in Seq(S)
             /\ FlattenSeq(SubSeq(b, 1, k - 1)) \in Seq(S)
    <2> DEFINE p == SubSeq(b, 1, k - 1)
               c == b[k]
    <2>1. k \in 1 .. Len(b)
        BY <1>5
    <2>2. p \in Seq(Seq(S)) /\ SubSeq(b, 1, k) = Append(p, c) /\ c \in Seq(S)
        <3> DEFINE E == Seq(S)
        <3>1. b \in Seq(E)
            OBVIOUS
        <3> HIDE DEF E
        <3>2. p \in Seq(E) /\ SubSeq(b, 1, k) = Append(p, c) /\ c \in E
            BY <2>1, <3>1, Prefix
        <3> QED
            BY <3>2 DEF E
    <2> HIDE DEF p, c
    <2>3. FlattenSeq(Append(p, c)) = FlattenSeq(p) \o c
        BY <2>2, FlattenAppend
    <2>4. FlattenSeq(p) \in Seq(S)
        BY <2>2, FlattenType
    <2> QED
        BY <2>2, <2>3, <2>4 DEF p, c
<1> QED
    BY <1>2, <1>3, <1>4, <1>5

\* The chunks that are left hold the units behind the n first.
LEMMA AfterFacts ==
    ASSUME NEW S, NEW b \in Seq(Seq(S)), NEW n \in 0 .. Len(FlattenSeq(b))
    PROVE  /\ After(b, n) \in Seq(Seq(S)) /\ Len(After(b, n)) <= Len(b)
           /\ FlattenSeq(b) = SubSeq(FlattenSeq(b), 1, n) \o FlattenSeq(After(b, n))
<1> DEFINE K    == {i \in 0 .. Len(b) : UnitsIn(b, i) >= n}
           k    == Min(K)
           left == UnitsIn(b, k) - n
           c    == b[k]
           size == Len(c)
           head == SubSeq(b, 1, k)
           rest == SubSeq(b, k + 1, Len(b))
           fr   == FlattenSeq(rest)
<1>1. k \in 0 .. Len(b) /\ UnitsIn(b, k) >= n
      /\ \A i \in 0 .. Len(b) : UnitsIn(b, i) >= n => k <= i
    <2>1. K \subseteq Nat
        OBVIOUS
    <2>2. Len(b) \in K
        <3>1. Len(b) \in 0 .. Len(b)
            OBVIOUS
        <3>2. UnitsIn(b, Len(b)) = Len(FlattenSeq(b))
            BY <3>1, UnitsFacts
        <3> QED
            BY <3>1, <3>2
    <2>3. Min(K) \in K /\ \A y \in K : Min(K) <= y
        <3> HIDE DEF K
        <3> QED
            BY <2>1, <2>2, MinIs
    <2> QED
        BY <2>3
<1>2. After(b, n) = IF left = 0 THEN rest
                    ELSE <<SubSeq(c, size - left + 1, size)>> \o rest
    BY DEF After
<1> HIDE DEF K, k
<1>3. /\ b = head \o rest /\ head \in Seq(Seq(S)) /\ rest \in Seq(Seq(S))
      /\ Len(head) = k /\ Len(rest) = Len(b) - k
    BY <1>1, CutAt
<1>4. /\ UnitsIn(b, k) = Len(FlattenSeq(head)) /\ UnitsIn(b, k) \in Nat
      /\ UnitsIn(b, 0) = 0
    BY <1>1, UnitsFacts DEF UnitsIn
<1>5. n \in Nat /\ Len(b) \in Nat /\ k \in Nat
    BY <1>1, FlattenType
<1>6. FlattenSeq(head) \in Seq(S) /\ fr \in Seq(S)
    BY <1>3, FlattenType
<1>7. FlattenSeq(b) = FlattenSeq(head) \o fr
    BY <1>3, FlattenConcat
<1>8. CASE left = 0
    <2>1. After(b, n) = rest
        BY <1>2, <1>8
    <2>2. Len(FlattenSeq(head)) = n
        BY <1>4, <1>5, <1>8
    <2>3. SubSeq(FlattenSeq(b), 1, n) = FlattenSeq(head)
        <3> DEFINE fh == FlattenSeq(head)
        <3>1. fh \in Seq(S) /\ fr \in Seq(S) /\ Len(fh) = n
              /\ FlattenSeq(b) = fh \o fr
            BY <1>6, <1>7, <2>2
        <3> HIDE DEF fh, fr
        <3> QED
            BY <3>1, FirstOfConcat DEF fh
    <2>4. Len(After(b, n)) <= Len(b) /\ After(b, n) \in Seq(Seq(S))
        <3> HIDE DEF rest, head
        <3>1. Len(rest) <= Len(b) /\ rest \in Seq(Seq(S))
            BY <1>1, <1>3, <1>5
        <3> QED
            BY <2>1, <3>1
    <2> QED
        BY <1>7, <2>1, <2>3, <2>4
<1>9. CASE left # 0
    <2> DEFINE fp  == FlattenSeq(SubSeq(b, 1, k - 1))
               c1  == SubSeq(c, 1, size - left)
               c2  == SubSeq(c, size - left + 1, size)
    <2>1. k # 0
        BY <1>1, <1>4, <1>5, <1>9
    <2>2. /\ FlattenSeq(head) = fp \o c /\ c \in Seq(S) /\ fp \in Seq(S)
          /\ size \in Nat /\ Len(fp) \in Nat
        <3>1. /\ FlattenSeq(head) = fp \o c /\ c \in Seq(S)
              /\ fp \in Seq(S)
            BY <1>1, <2>1, UnitsFacts
        <3> HIDE DEF fp, c
        <3> QED
            BY <3>1
    <2>3. UnitsIn(b, k) = Len(fp) + size
        BY <1>4, <2>2, ConcatProperties
    <2>4. Len(fp) < n
        <3>1. k - 1 \in 0 .. Len(b) /\ ~(k <= k - 1)
            BY <1>1, <1>5, <2>1
        <3>2. ~(UnitsIn(b, k - 1) >= n)
            BY <1>1, <3>1
        <3>3. UnitsIn(b, k - 1) = Len(fp)
            BY DEF UnitsIn
        <3> QED
            BY <1>5, <2>2, <3>2, <3>3
    <2>5. size - left \in 0 .. size /\ Len(fp) + (size - left) = n
        <3> DEFINE u == UnitsIn(b, k)
        <3>1. /\ u \in Nat /\ u >= n /\ u = Len(fp) + size /\ Len(fp) < n
              /\ n \in Nat /\ size \in Nat /\ Len(fp) \in Nat
              /\ left = u - n
            BY <1>1, <1>4, <1>5, <2>2, <2>3, <2>4
        <3> HIDE DEF u, size, fp, left
        <3> QED
            BY <3>1
    <2>6. /\ c = c1 \o c2 /\ c1 \in Seq(S) /\ c2 \in Seq(S)
          /\ Len(c1) = size - left
        BY <2>2, <2>5, CutAt
    <2>7. After(b, n) = <<c2>> \o rest
        BY <1>2, <1>9
    <2> HIDE DEF c, c1, c2, rest, fr, fp, left, size
    <2>8. /\ <<c2>> \in Seq(Seq(S)) /\ After(b, n) \in Seq(Seq(S))
          /\ Len(After(b, n)) = 1 + Len(rest)
        <3>1. <<c2>> \in Seq(Seq(S)) /\ Len(<<c2>>) = 1
            BY <2>6
        <3> DEFINE o == <<c2>>
        <3>2. o \in Seq(Seq(S)) /\ Len(o) = 1 /\ After(b, n) = o \o rest
            BY <2>7, <3>1
        <3> HIDE DEF o
        <3>3. o \o rest \in Seq(Seq(S)) /\ Len(o \o rest) = Len(o) + Len(rest)
            BY <1>3, <3>2, ConcatProperties
        <3> QED
            BY <3>1, <3>2, <3>3
    <2>9. FlattenSeq(After(b, n)) = c2 \o fr
        <3>1. FlattenSeq(<<c2>> \o rest) = FlattenSeq(<<c2>>) \o fr
            BY <1>3, <2>8, FlattenConcat DEF fr
        <3>2. FlattenSeq(<<c2>>) = c2
            BY <2>6, FlattenOne
        <3> QED
            BY <2>7, <3>1, <3>2
    <2>10. FlattenSeq(b) = (fp \o c1) \o (c2 \o fr)
        <3> DEFINE x == fp \o c1
        <3>1. /\ fp \in Seq(S) /\ c1 \in Seq(S) /\ c2 \in Seq(S)
              /\ fr \in Seq(S) /\ x \in Seq(S)
            BY <1>6, <2>2, <2>6, ConcatProperties DEF fr
        <3>2. fp \o (c1 \o c2) = (fp \o c1) \o c2
            <4>1. fp \in Seq(S) /\ c1 \in Seq(S) /\ c2 \in Seq(S)
                BY <3>1
            <4> QED
                BY ONLY <4>1, ConcatAssociative
        <3>3. FlattenSeq(b) = x \o c2 \o fr
            BY <1>7, <2>2, <2>6, <3>2 DEF fr
        <3> HIDE DEF x
        <3>4. (x \o c2) \o fr = x \o (c2 \o fr)
            BY ONLY <3>1, ConcatAssociative
        <3> QED
            BY <3>3, <3>4 DEF x
    <2>11. SubSeq(FlattenSeq(b), 1, n) = fp \o c1
        <3> DEFINE x == fp \o c1
                   y == c2 \o fr
        <3>1. x \in Seq(S) /\ Len(x) = n /\ y \in Seq(S)
            BY <1>6, <2>2, <2>5, <2>6, ConcatProperties
        <3>2. FlattenSeq(b) = x \o y
            BY <2>10
        <3> HIDE DEF x, y
        <3> QED
            BY <3>1, <3>2, FirstOfConcat DEF x
    <2>12. Len(After(b, n)) <= Len(b)
        BY <1>3, <1>5, <2>1, <2>8
    <2> QED
        BY <2>8, <2>9, <2>10, <2>11, <2>12
<1> QED
    BY <1>8, <1>9

LEMMA ReadableIs ==
    ASSUME NEW S, bufs \in Seq(Seq(S))
    PROVE  \E k \in 0 .. Len(bufs) : Readable = FlattenSeq(SubSeq(bufs, 1, k))
<1> DEFINE nothing == {i \in 1 .. Len(bufs) : bufs[i] = <<>>}
<1>1. CASE nothing = {}
    <2>1. Readable = FlattenSeq(bufs)
        BY <1>1 DEF Readable
    <2>2. SubSeq(bufs, 1, Len(bufs)) = bufs /\ Len(bufs) \in 0 .. Len(bufs)
        BY WholePrefix
    <2> QED
        BY <2>1, <2>2
<1>2. CASE nothing # {}
    <2>1. Readable = FlattenSeq(SubSeq(bufs, 1, Min(nothing) - 1))
        BY <1>2 DEF Readable
    <2>2. Min(nothing) \in nothing
        <3>1. nothing \subseteq Nat
            OBVIOUS
        <3> HIDE DEF nothing
        <3> QED
            BY <1>2, <3>1, MinIs
    <2>3. Min(nothing) - 1 \in 0 .. Len(bufs)
        BY <2>2
    <2> QED
        BY <2>1, <2>3
<1> QED
    BY <1>1, <1>2

LEMMA FirstOfFirst ==
    ASSUME NEW S, NEW x \in Seq(S), NEW y \in Seq(S), NEW n \in 0 .. Len(x)
    PROVE  SubSeq(x \o y, 1, n) = SubSeq(x, 1, n)
<1> DEFINE z == x \o y
           p == SubSeq(z, 1, n)
           q == SubSeq(x, 1, n)
<1>1. /\ z \in Seq(S) /\ Len(z) = Len(x) + Len(y)
      /\ Len(x) \in Nat /\ Len(y) \in Nat /\ n \in Nat
      /\ \A i \in 1 .. Len(x) : z[i] = x[i] /\ z[i] \in S /\ x[i] \in S
    BY ConcatProperties
<1> HIDE DEF z
<1>2. p \in Seq(S) /\ Len(p) = n /\ \A i \in 1 .. n : p[i] = z[i]
    BY <1>1, SubSeqProperties
<1>3. q \in Seq(S) /\ Len(q) = n /\ \A i \in 1 .. n : q[i] = x[i]
    BY <1>1, SubSeqProperties
<1> HIDE DEF p, q
<1> QED
    BY <1>1, <1>2, <1>3, SeqEqual DEF p, q, z

(***************************************************************************)
(* What is read are the first units of the queue, as many as were asked    *)
(* for at most, and the chunks that are left hold the others.              *)
(***************************************************************************)
LEMMA ReadFacts ==
    ASSUME NEW S, bufs \in Seq(Seq(S)), NEW count \in Nat
    PROVE  LET r    == Read(count)
               left == After(bufs, Len(r))
           IN  /\ r \in Seq(S) /\ Len(r) <= count
               /\ left \in Seq(Seq(S)) /\ Len(left) <= Len(bufs)
               /\ QueuedUnits = r \o FlattenSeq(left)
<1>1. PICK k \in 0 .. Len(bufs) : Readable = FlattenSeq(SubSeq(bufs, 1, k))
    BY ReadableIs
<1> DEFINE x    == FlattenSeq(SubSeq(bufs, 1, k))
           rest == SubSeq(bufs, k + 1, Len(bufs))
           y    == FlattenSeq(rest)
           n    == IF Len(x) < count THEN Len(x) ELSE count
           r    == Read(count)
<1>2. x \in Seq(S) /\ y \in Seq(S) /\ FlattenSeq(bufs) = x \o y
    <2>1. /\ SubSeq(bufs, 1, k) \in Seq(Seq(S)) /\ rest \in Seq(Seq(S))
          /\ bufs = SubSeq(bufs, 1, k) \o rest
        BY CutAt
    <2> QED
        BY <2>1, FlattenType, FlattenConcat
<1>3. r = SubSeq(x, 1, n)
    BY <1>1 DEF Read
<1> HIDE DEF x, y
<1>4. n \in 0 .. Len(x) /\ n <= count /\ n \in 0 .. Len(x \o y)
    BY <1>2, ConcatProperties
<1>5. r \in Seq(S) /\ Len(r) = n
    BY <1>2, <1>3, <1>4, CutAt
<1>6. SubSeq(FlattenSeq(bufs), 1, n) = r
    BY <1>2, <1>3, <1>4, FirstOfFirst
<1>7. n \in 0 .. Len(FlattenSeq(bufs))
    BY <1>2, <1>4
<1> HIDE DEF n, r
<1> DEFINE left == After(bufs, n)
<1>8. /\ left \in Seq(Seq(S)) /\ Len(left) <= Len(bufs)
      /\ FlattenSeq(bufs) = SubSeq(FlattenSeq(bufs), 1, n) \o FlattenSeq(left)
    BY <1>7, AfterFacts
<1> HIDE DEF left
<1>9. /\ r \in Seq(S) /\ Len(r) <= count
      /\ left \in Seq(Seq(S)) /\ Len(left) <= Len(bufs)
      /\ QueuedUnits = r \o FlattenSeq(left)
    BY <1>4, <1>5, <1>6, <1>8 DEF QueuedUnits
<1>10. left = After(bufs, Len(r))
    BY <1>5 DEF left
<1> QED
    BY <1>9, <1>10 DEF r

-----------------------------------------------------------------------------
(* What is heard of what the card has: all but the silence *)

\* As chunks of one unit or none
Chunks(units) == [i \in 1 .. Len(units) |->
                     IF units[i] = 0 THEN <<>> ELSE <<units[i]>>]

LEMMA SoundsOfIs == \A units : SoundsOf(units) = FlattenSeq(Chunks(units))
    BY DEF SoundsOf, Chunks

LEMMA ChunksType ==
    ASSUME NEW S, NEW u \in Seq(S)
    PROVE  /\ Chunks(u) \in Seq(Seq(S)) /\ Len(Chunks(u)) = Len(u)
           /\ \A i \in 1 .. Len(u) :
                  Chunks(u)[i] = IF u[i] = 0 THEN <<>> ELSE <<u[i]>>
<1>1. \A i \in 1 .. Len(u) :
          (IF u[i] = 0 THEN <<>> ELSE <<u[i]>>) \in Seq(S)
    OBVIOUS
<1>2. Chunks(u) \in [1 .. Len(u) -> Seq(S)] /\ Len(u) \in Nat
    BY <1>1 DEF Chunks
<1> QED
    BY <1>2 DEF Chunks

LEMMA SoundsType ==
    ASSUME NEW S, NEW u \in Seq(S)
    PROVE  SoundsOf(u) \in Seq(S)
    BY SoundsOfIs, ChunksType, FlattenType

LEMMA SoundsConcat ==
    ASSUME NEW S, NEW u \in Seq(S), NEW v \in Seq(S)
    PROVE  SoundsOf(u \o v) = SoundsOf(u) \o SoundsOf(v)
<1> DEFINE w == u \o v
           a == Chunks(w)
           b == Chunks(u)
           c == Chunks(v)
           E == Seq(S)
<1>1. /\ w \in Seq(S) /\ Len(w) = Len(u) + Len(v)
      /\ Len(u) \in Nat /\ Len(v) \in Nat
      /\ \A i \in 1 .. Len(w) :
             w[i] = IF i <= Len(u) THEN u[i] ELSE v[i - Len(u)]
    BY ConcatProperties
<1> HIDE DEF w
<1>2. /\ a \in Seq(E) /\ Len(a) = Len(w)
      /\ \A i \in 1 .. Len(w) : a[i] = IF w[i] = 0 THEN <<>> ELSE <<w[i]>>
    BY <1>1, ChunksType
<1>3. /\ b \in Seq(E) /\ Len(b) = Len(u)
      /\ \A i \in 1 .. Len(u) : b[i] = IF u[i] = 0 THEN <<>> ELSE <<u[i]>>
    BY ChunksType
<1>4. /\ c \in Seq(E) /\ Len(c) = Len(v)
      /\ \A i \in 1 .. Len(v) : c[i] = IF v[i] = 0 THEN <<>> ELSE <<v[i]>>
    BY ChunksType
<1> HIDE DEF a, b, c, E
<1>5. a = b \o c
    <2>1. /\ b \o c \in Seq(E) /\ Len(b \o c) = Len(u) + Len(v)
          /\ \A i \in 1 .. Len(u) + Len(v) :
                 (b \o c)[i] = IF i <= Len(u) THEN b[i] ELSE c[i - Len(u)]
        <3>1. /\ b \in Seq(E) /\ c \in Seq(E)
              /\ Len(b) = Len(u) /\ Len(c) = Len(v)
            BY <1>3, <1>4
        <3>2. /\ b \o c \in Seq(E) /\ Len(b \o c) = Len(b) + Len(c)
              /\ \A i \in 1 .. Len(b) + Len(c) :
                     (b \o c)[i] = IF i <= Len(b) THEN b[i] ELSE c[i - Len(b)]
            BY ONLY <3>1, ConcatProperties
        <3> QED
            BY <3>1, <3>2
    <2>2. \A i \in 1 .. Len(w) : a[i] = (b \o c)[i]
        <3> TAKE i \in 1 .. Len(w)
        <3>1. CASE i <= Len(u)
            <4>1. i \in 1 .. Len(u)
                BY <1>1, <3>1
            <4> QED
                BY <1>1, <1>2, <1>3, <2>1, <3>1, <4>1
        <3>2. CASE ~(i <= Len(u))
            <4>1. i - Len(u) \in 1 .. Len(v)
                BY <1>1, <3>2
            <4> QED
                BY <1>1, <1>2, <1>4, <2>1, <3>2, <4>1
        <3> QED
            BY <3>1, <3>2
    <2> QED
        BY <1>1, <1>2, <2>1, <2>2, SeqEqual
<1>6. FlattenSeq(b \o c) = FlattenSeq(b) \o FlattenSeq(c)
    BY <1>3, <1>4, FlattenConcat DEF E
<1> QED
    BY <1>5, <1>6, SoundsOfIs DEF a, b, c, w

LEMMA SoundsNone == SoundsOf(<<>>) = <<>>
<1>1. Chunks(<<>>) = <<>>
    BY DEF Chunks
<1> QED
    BY <1>1, FlattenNone, SoundsOfIs, Zenon

LEMMA SoundsOne ==
    ASSUME NEW x
    PROVE  SoundsOf(<<x>>) = IF x = 0 THEN <<>> ELSE <<x>>
<1> DEFINE c == IF x = 0 THEN <<>> ELSE <<x>>
<1>1. c \in Seq({x})
    <2>1. <<>> \in Seq({x}) /\ <<x>> \in Seq({x})
        OBVIOUS
    <2> QED
        BY <2>1, Zenon
<1>2. Chunks(<<x>>) = <<c>>
    BY DEF Chunks
<1> HIDE DEF c
<1>3. FlattenSeq(<<c>>) = c
    BY <1>1, FlattenOne
<1> QED
    BY <1>2, <1>3, SoundsOfIs, Zenon DEF c

LEMMA SoundsAppend ==
    ASSUME NEW S, NEW u \in Seq(S), NEW x \in S
    PROVE  SoundsOf(Append(u, x)) = IF x = 0 THEN SoundsOf(u)
                                    ELSE Append(SoundsOf(u), x)
<1>1. Append(u, x) = u \o <<x>> /\ <<x>> \in Seq(S)
    BY AppendIsConcat
<1>2. SoundsOf(u \o <<x>>) = SoundsOf(u) \o SoundsOf(<<x>>)
    <2> DEFINE o == <<x>>
    <2>1. o \in Seq(S)
        OBVIOUS
    <2> HIDE DEF o
    <2>2. SoundsOf(u \o o) = SoundsOf(u) \o SoundsOf(o)
        BY <2>1, SoundsConcat
    <2> QED
        BY <2>2 DEF o
<1>3. SoundsOf(u) \in Seq(S)
    BY SoundsType
<1> DEFINE s == SoundsOf(u)
<1>4. s \o <<>> = s /\ s \o <<x>> = Append(s, x)
    <2>1. s \in Seq(S)
        BY <1>3
    <2> HIDE DEF s
    <2> QED
        BY <2>1, ConcatEmptySeq, AppendIsConcat
<1> HIDE DEF s
<1> QED
    BY <1>1, <1>2, <1>4, SoundsOne DEF s

LEMMA SoundsSame ==
    ASSUME NEW S, NEW u \in Seq(S), \A i \in 1 .. Len(u) : u[i] # 0
    PROVE  SoundsOf(u) = u
<1> DEFINE Holds(k) == SoundsOf(SubSeq(u, 1, k)) = SubSeq(u, 1, k)
           T == {k \in 0 .. Len(u) : ~Holds(k)}
<1> SUFFICES T = {}
    <2>1. Len(u) \in 0 .. Len(u)
        OBVIOUS
    <2>2. Holds(Len(u))
        BY <2>1
    <2> QED
        BY <2>2, WholePrefix
<1> SUFFICES ASSUME T # {} PROVE FALSE
    OBVIOUS
<1>1. PICK k \in T : \A y \in T : k <= y
    <2>1. T \subseteq Nat
        OBVIOUS
    <2> HIDE DEF T
    <2> QED
        BY <2>1, Least
<1>2. k \in 0 .. Len(u) /\ ~Holds(k)
    OBVIOUS
<1>3. Holds(0)
    <2>1. SubSeq(u, 1, 0) = <<>>
        BY WholePrefix
    <2> QED
        BY <2>1, SoundsNone, Zenon
<1>4. k \in 1 .. Len(u) /\ Holds(k - 1)
    <2>1. k # 0
        BY <1>2, <1>3
    <2>2. k \in 1 .. Len(u) /\ k - 1 \in 0 .. Len(u)
        BY <1>2, <2>1
    <2>3. k - 1 \notin T
        <3> HIDE DEF T
        <3> QED
            BY <1>1, <2>2
    <2> QED
        BY <2>2, <2>3
<1> DEFINE p == SubSeq(u, 1, k - 1)
           x == u[k]
<1>5. /\ p \in Seq(S) /\ SubSeq(u, 1, k) = Append(p, x) /\ x \in S /\ x # 0
      /\ SoundsOf(p) = p
    BY <1>4, Prefix
<1> HIDE DEF p, x
<1>6. SoundsOf(Append(p, x)) = Append(p, x)
    BY <1>5, SoundsAppend
<1> QED
    BY <1>2, <1>5, <1>6

LEMMA SoundsSilent ==
    ASSUME NEW S, NEW u \in Seq(S), \A i \in 1 .. Len(u) : u[i] = 0
    PROVE  SoundsOf(u) = <<>>
<1> DEFINE Holds(k) == SoundsOf(SubSeq(u, 1, k)) = <<>>
           T == {k \in 0 .. Len(u) : ~Holds(k)}
<1> SUFFICES T = {}
    <2>1. Len(u) \in 0 .. Len(u)
        OBVIOUS
    <2>2. Holds(Len(u))
        BY <2>1
    <2> QED
        BY <2>2, WholePrefix
<1> SUFFICES ASSUME T # {} PROVE FALSE
    OBVIOUS
<1>1. PICK k \in T : \A y \in T : k <= y
    <2>1. T \subseteq Nat
        OBVIOUS
    <2> HIDE DEF T
    <2> QED
        BY <2>1, Least
<1>2. k \in 0 .. Len(u) /\ ~Holds(k)
    OBVIOUS
<1>3. Holds(0)
    <2>1. SubSeq(u, 1, 0) = <<>>
        BY WholePrefix
    <2> QED
        BY <2>1, SoundsNone, Zenon
<1>4. k \in 1 .. Len(u) /\ Holds(k - 1)
    <2>1. k # 0
        BY <1>2, <1>3
    <2>2. k \in 1 .. Len(u) /\ k - 1 \in 0 .. Len(u)
        BY <1>2, <2>1
    <2>3. k - 1 \notin T
        <3> HIDE DEF T
        <3> QED
            BY <1>1, <2>2
    <2> QED
        BY <2>2, <2>3
<1> DEFINE p == SubSeq(u, 1, k - 1)
           x == u[k]
<1>5. /\ p \in Seq(S) /\ SubSeq(u, 1, k) = Append(p, x) /\ x \in S /\ x = 0
      /\ SoundsOf(p) = <<>>
    BY <1>4, Prefix
<1> HIDE DEF p, x
<1>6. SoundsOf(Append(p, x)) = <<>>
    BY <1>5, SoundsAppend
<1> QED
    BY <1>2, <1>5, <1>6

(* The sounds are not more than what they are the sounds of. *)
LEMMA SoundsLength ==
    ASSUME NEW S, NEW u \in Seq(S)
    PROVE  Len(SoundsOf(u)) <= Len(u) /\ Len(SoundsOf(u)) \in Nat
<1> DEFINE Holds(k) == Len(SoundsOf(SubSeq(u, 1, k))) <= k
           T == {k \in 0 .. Len(u) : ~Holds(k)}
<1>0. SoundsOf(u) \in Seq(S) /\ Len(u) \in Nat
    BY SoundsType
<1> SUFFICES T = {}
    <2>1. Len(u) \in 0 .. Len(u)
        OBVIOUS
    <2>2. Holds(Len(u))
        BY <2>1
    <2>3. SubSeq(u, 1, Len(u)) = u
        BY WholePrefix
    <2>4. Len(SoundsOf(u)) <= Len(u)
        BY <2>2, <2>3, Zenon
    <2> QED
        BY <1>0, <2>4, LenProperties
<1> SUFFICES ASSUME T # {} PROVE FALSE
    OBVIOUS
<1>1. PICK k \in T : \A y \in T : k <= y
    <2>1. T \subseteq Nat
        OBVIOUS
    <2> HIDE DEF T
    <2> QED
        BY <2>1, Least
<1>2. k \in 0 .. Len(u) /\ ~Holds(k)
    OBVIOUS
<1>3. Holds(0)
    <2>1. SubSeq(u, 1, 0) = <<>>
        BY WholePrefix
    <2>2. SoundsOf(SubSeq(u, 1, 0)) = <<>>
        BY <2>1, SoundsNone, Zenon
    <2> QED
        BY <2>2
<1>4. k \in 1 .. Len(u) /\ Holds(k - 1)
    <2>1. k # 0
        BY <1>2, <1>3
    <2>2. k \in 1 .. Len(u) /\ k - 1 \in 0 .. Len(u)
        BY <1>2, <2>1
    <2>3. k - 1 \notin T
        <3> HIDE DEF T
        <3> QED
            BY <1>1, <2>2
    <2> QED
        BY <2>2, <2>3
<1> DEFINE p == SubSeq(u, 1, k - 1)
           x == u[k]
<1>5. /\ p \in Seq(S) /\ SubSeq(u, 1, k) = Append(p, x) /\ x \in S
      /\ Len(SoundsOf(p)) <= k - 1
    BY <1>4, Prefix
<1> HIDE DEF p, x
<1>6. SoundsOf(p) \in Seq(S)
    BY <1>5, SoundsType
<1> DEFINE t == SoundsOf(p)
<1>7. t \in Seq(S) /\ Len(t) <= k - 1
    BY <1>5, <1>6
<1>8. SoundsOf(Append(p, x)) = t \/ SoundsOf(Append(p, x)) = Append(t, x)
    BY <1>5, SoundsAppend
<1> HIDE DEF t
<1>9. Len(SoundsOf(Append(p, x))) <= k
    <2>1. Len(t) \in Nat /\ Len(Append(t, x)) = Len(t) + 1
        BY <1>5, <1>7
    <2>2. Len(SoundsOf(Append(p, x))) = Len(t)
          \/ Len(SoundsOf(Append(p, x))) = Len(t) + 1
        BY <1>8, <2>1
    <2> QED
        BY <1>4, <1>7, <2>1, <2>2
<1> QED
    BY <1>2, <1>5, <1>9

(* Behind a unit there is only silence. *)
LEMMA SoundsBefore ==
    ASSUME NEW S, NEW u \in Seq(S), NEW k \in 0 .. Len(u),
           \A i \in k + 1 .. Len(u) : u[i] = 0
    PROVE  Len(SoundsOf(u)) <= k /\ Len(SoundsOf(u)) \in Nat
<1> DEFINE a == SubSeq(u, 1, k)
           b == SubSeq(u, k + 1, Len(u))
<1>1. /\ a \in Seq(S) /\ Len(a) = k
      /\ b \in Seq(S) /\ Len(b) = Len(u) - k
      /\ \A i \in 1 .. Len(b) : b[i] = u[k + i]
      /\ k \in Nat /\ Len(u) \in Nat
    OBVIOUS
<1>2. u = a \o b
    BY CutAt
<1>3. \A i \in 1 .. Len(b) : b[i] = 0
    <2> TAKE i \in 1 .. Len(b)
    <2>1. k + i \in k + 1 .. Len(u)
        BY <1>1
    <2> QED
        BY <1>1, <2>1
<1> HIDE DEF a, b
<1>4. SoundsOf(b) = <<>>
    BY <1>1, <1>3, SoundsSilent
<1>5. SoundsOf(u) = SoundsOf(a) \o SoundsOf(b)
    BY <1>1, <1>2, SoundsConcat
<1> DEFINE t == SoundsOf(a)
<1>6. t \in Seq(S) /\ Len(t) <= k /\ Len(t) \in Nat
    BY <1>1, SoundsLength, SoundsType
<1>7. SoundsOf(u) = t \o <<>>
    BY <1>4, <1>5
<1> HIDE DEF t
<1>8. t \o <<>> = t
    BY <1>6, ConcatEmptySeq
<1> QED
    BY <1>6, <1>7, <1>8

-----------------------------------------------------------------------------
(* A unit of the stream, or silence *)
Unit == Nat

(* The stream, from behind the a-th unit to the b-th *)
Run(a, b) == [i \in 1 .. b - a |-> a + i]

LEMMA RunFacts ==
    ASSUME NEW a \in Nat, NEW b \in Nat, a <= b
    PROVE  /\ Run(a, b) \in Seq(Nat \ {0}) /\ Len(Run(a, b)) = b - a
           /\ \A i \in 1 .. b - a : Run(a, b)[i] = a + i
<1>1. b - a \in Nat /\ \A i \in 1 .. b - a : a + i \in Nat \ {0}
    OBVIOUS
<1> QED
    BY <1>1 DEF Run

LEMMA RunJoin ==
    ASSUME NEW a \in Nat, NEW b \in Nat, NEW c \in Nat, a <= b, b <= c
    PROVE  Run(a, b) \o Run(b, c) = Run(a, c)
<1> DEFINE x == Run(a, b)
           y == Run(b, c)
           z == Run(a, c)
           S == Nat \ {0}
<1>1. /\ x \in Seq(S) /\ Len(x) = b - a /\ \A i \in 1 .. b - a : x[i] = a + i
      /\ y \in Seq(S) /\ Len(y) = c - b /\ \A i \in 1 .. c - b : y[i] = b + i
      /\ z \in Seq(S) /\ Len(z) = c - a /\ \A i \in 1 .. c - a : z[i] = a + i
    <2>1. x \in Seq(S) /\ Len(x) = b - a /\ \A i \in 1 .. b - a : x[i] = a + i
        BY RunFacts
    <2>2. y \in Seq(S) /\ Len(y) = c - b /\ \A i \in 1 .. c - b : y[i] = b + i
        BY RunFacts
    <2>3. z \in Seq(S) /\ Len(z) = c - a /\ \A i \in 1 .. c - a : z[i] = a + i
        <3>1. a <= c
            OBVIOUS
        <3> QED
            BY <3>1, RunFacts
    <2> HIDE DEF x, y, z, S
    <2> QED
        BY <2>1, <2>2, <2>3
<1> HIDE DEF x, y, z, S
<1>2. /\ x \o y \in Seq(S) /\ Len(x \o y) = c - a
      /\ \A i \in 1 .. c - a :
             (x \o y)[i] = IF i <= b - a THEN x[i] ELSE y[i - (b - a)]
    <2>1. /\ x \o y \in Seq(S) /\ Len(x \o y) = Len(x) + Len(y)
          /\ \A i \in 1 .. Len(x) + Len(y) :
                 (x \o y)[i] = IF i <= Len(x) THEN x[i] ELSE y[i - Len(x)]
        BY <1>1, ConcatProperties
    <2>2. Len(x) + Len(y) = c - a
        BY <1>1
    <2> QED
        BY <1>1, <2>1, <2>2
<1>3. \A i \in 1 .. c - a : (x \o y)[i] = z[i]
    <2> TAKE i \in 1 .. c - a
    <2>1. CASE i <= b - a
        BY <1>1, <1>2, <2>1
    <2>2. CASE ~(i <= b - a)
        <3>1. i - (b - a) \in 1 .. c - b /\ b + (i - (b - a)) = a + i
            BY <2>2
        <3> QED
            BY <1>1, <1>2, <2>2, <3>1
    <2> QED
        BY <2>1, <2>2
<1>4. x \o y = z
    BY <1>1, <1>2, <1>3, SeqEqual
<1> QED
    BY <1>4 DEF x, y, z

\* x and y are the stream from a to m and from m to b.
Cut(x, y, a, b, m) ==
    /\ x \in Seq(Unit) /\ y \in Seq(Unit) /\ a \in Nat /\ b \in Nat
    /\ a <= b /\ x \o y = Run(a, b) /\ m = a + Len(x)

LEMMA RunCut ==
    ASSUME NEW x, NEW y, NEW a, NEW b, NEW m, Cut(x, y, a, b, m)
    PROVE  m \in Nat /\ m <= b /\ x = Run(a, m) /\ y = Run(m, b)
<1>0. /\ x \in Seq(Unit) /\ y \in Seq(Unit) /\ a \in Nat /\ b \in Nat
      /\ a <= b /\ x \o y = Run(a, b) /\ m = a + Len(x)
    BY DEF Cut
<1> USE <1>0
<1> DEFINE z == x \o y
<1>1. /\ z \in Seq(Unit) /\ Len(z) = Len(x) + Len(y)
      /\ Len(x) \in Nat /\ Len(y) \in Nat
      /\ \A i \in 1 .. Len(z) :
             z[i] = IF i <= Len(x) THEN x[i] ELSE y[i - Len(x)]
    <2>1. /\ x \o y \in Seq(Unit) /\ Len(x \o y) = Len(x) + Len(y)
          /\ \A i \in 1 .. Len(x) + Len(y) :
                 (x \o y)[i] = IF i <= Len(x) THEN x[i] ELSE y[i - Len(x)]
        BY ONLY <1>0, ConcatProperties
    <2> QED
        BY <2>1
<1>2. z = Run(a, b)
    OBVIOUS
<1> HIDE DEF z
<1>3. Len(x) + Len(y) = b - a /\ \A i \in 1 .. b - a : z[i] = a + i
    BY <1>1, <1>2, RunFacts
<1>4. m \in Nat /\ m <= b /\ Len(x) = m - a /\ Len(y) = b - m /\ a <= m
    BY <1>1, <1>3
<1>5. \A i \in 1 .. m - a : x[i] = a + i
    <2> TAKE i \in 1 .. m - a
    <2>1. i \in 1 .. Len(z) /\ i <= Len(x) /\ i \in 1 .. b - a
        BY <1>1, <1>3, <1>4
    <2> QED
        BY <1>1, <1>3, <2>1
<1>6. \A i \in 1 .. b - m : y[i] = m + i
    <2> TAKE i \in 1 .. b - m
    <2> DEFINE j == i + Len(x)
    <2>1. /\ j \in 1 .. Len(z) /\ ~(j <= Len(x)) /\ j \in 1 .. b - a
          /\ j - Len(x) = i /\ a + j = m + i
        BY <1>1, <1>3, <1>4
    <2> HIDE DEF j
    <2> QED
        BY <1>1, <1>3, <2>1
<1>7. x = Run(a, m)
    <2>1. x = [i \in 1 .. Len(x) |-> x[i]]
        OBVIOUS
    <2> QED
        BY <1>4, <1>5, <2>1 DEF Run
<1>8. y = Run(m, b)
    <2>1. y = [i \in 1 .. Len(y) |-> y[i]]
        OBVIOUS
    <2> QED
        BY <1>4, <1>6, <2>1 DEF Run
<1> QED
    BY <1>4, <1>7, <1>8

-----------------------------------------------------------------------------
(***************************************************************************)
(* The inductive invariant.  A unit that is no silence is a Sound.         *)
(***************************************************************************)
Sound == Unit \ {0}

DataInv == /\ bufs \in Seq(Seq(Sound)) /\ frame \in Seq(Sound)
           /\ device \in Seq(Unit)
           /\ played <= streamPos

(* The queue has room for the frame that the audio thread has read. *)
Room == audio = "write" => Len(bufs) < MaxBufs

FrameInv == audio # "write" => frame = <<>>

(* Before Start() there is no sound, and none is read or written. *)
FreshInv == ~initialized => /\ bufs = <<>> /\ device = <<>> /\ frame = <<>>
                            /\ audio \in {"locked", "deleting", "gone"}
                            /\ out # "silence"

(* The stream's time is that of the last chunk in the queue. *)
TimeInv == streamTime = streamPos - Len(frame)

(* What the card will play last is the silence that was written. *)
SilenceInv ==
    out = "silence" =>
        \A i \in 1 .. Len(device) :
            i > Len(device) - (SilenceSize - silence) => device[i] = 0

IInv == /\ TypeOK /\ DataInv /\ SizeExact /\ Continuous
        /\ Room /\ FrameInv /\ FreshInv /\ TimeInv /\ SilenceInv

LEMMA SoundIsUnit == \A s : s \in Seq(Sound) => s \in Seq(Unit)
<1> SUFFICES ASSUME NEW s, s \in Seq(Sound) PROVE s \in Seq(Unit)
    OBVIOUS
<1>1. \A i \in 1 .. Len(s) : s[i] \in Unit
    BY DEF Sound
<1> QED
    BY <1>1

LEMMA RunSound ==
    ASSUME NEW a \in Nat, NEW n \in Nat
    PROVE  /\ [i \in 1 .. n |-> a + i] \in Seq(Sound)
           /\ Len([i \in 1 .. n |-> a + i]) = n
           /\ [i \in 1 .. n |-> a + i] = Run(a, a + n)
<1>1. a <= a + n /\ (a + n) - a = n /\ a + n \in Nat
    OBVIOUS
<1>2. [i \in 1 .. n |-> a + i] = Run(a, a + n)
    BY <1>1 DEF Run
<1> QED
    BY <1>1, <1>2, RunFacts DEF Sound, Unit

LEMMA InitHolds == Init => IInv
<1> SUFFICES ASSUME Init PROVE IInv
    OBVIOUS
<1> USE DEF Init
<1>1. TypeOK
    <2>1. /\ streamPos \in 0 .. End /\ streamTime \in 0 .. End
          /\ silence \in 0 .. SilenceSize
          /\ realpos \in Nat /\ played \in 0 .. End /\ async \in Asyncs
          /\ Len(bufs) <= MaxBufs /\ Len(device) <= DeviceSize
        BY SizeAssumption
    <2>2. {initialized, paused, quit, held, audioPaused} \subseteq BOOLEAN
        OBVIOUS
    <2> QED
        BY <2>1, <2>2, Zenon DEF TypeOK
<1>2. <<>> \in Seq(Seq(Sound)) /\ <<>> \in Seq(Sound) /\ <<>> \in Seq(Unit)
    OBVIOUS
<1>3. DataInv
    BY <1>2 DEF DataInv
<1>4. SizeExact
    BY FlattenNone DEF SizeExact, QueuedUnits
<1>5. Continuous
    <2>1. SoundsOf(<<>>) = <<>> /\ FlattenSeq(<<>>) = <<>>
        BY SoundsNone, FlattenNone, Zenon
    <2>2. SoundsOf(device) = <<>> /\ QueuedUnits = <<>>
        BY <2>1, Zenon DEF QueuedUnits
    <2>3. [i \in 1 .. streamPos - played |-> played + i] = <<>>
        OBVIOUS
    <2>4. (<<>> \o <<>>) \o <<>> = <<>>
        OBVIOUS
    <2> QED
        BY <2>2, <2>3, <2>4 DEF Continuous
<1>6. Room /\ FrameInv /\ FreshInv /\ SilenceInv
    BY DEF Room, FrameInv, FreshInv, SilenceInv
<1>7. TimeInv
    <2>1. Len(frame) = 0 /\ streamTime = 0 /\ streamPos = 0 /\ 0 - 0 = 0
        OBVIOUS
    <2> QED
        BY <2>1, Zenon DEF TimeInv
<1> QED
    BY <1>1, <1>3, <1>4, <1>5, <1>6, <1>7 DEF IInv

-----------------------------------------------------------------------------
(* The step that moves sound from the queue to the card *)

LEMMA FragmentFits ==
    ASSUME IInv, Fragments # 0
    PROVE  Len(device) + WriteSize <= DeviceSize
<1>1. /\ Len(device) \in Nat /\ Len(device) <= DeviceSize
      /\ DeviceSize \in Nat /\ WriteSize \in Nat \ {0}
    BY SizeAssumption DEF IInv, TypeOK, DataInv
<1> DEFINE m == DeviceSize - Len(device)
<1>2. m \in Nat /\ m \div WriteSize # 0
    BY <1>1 DEF Fragments
<1> HIDE DEF m
<1>3. m >= WriteSize
    BY <1>1, <1>2
<1> QED
    BY <1>1, <1>3 DEF m

LEMMA SizeIs ==
    ASSUME IInv
    PROVE  /\ bufSize = Len(FlattenSeq(bufs)) /\ bufSize \in Nat
           /\ FlattenSeq(bufs) \in Seq(Sound)
    BY FlattenType DEF IInv, SizeExact, QueuedUnits, DataInv

LEMMA OutReadsFacts ==
    ASSUME IInv, OutReads
    PROVE  \E r \in Seq(Sound) :
               /\ device' = device \o r
               /\ bufs' \in Seq(Seq(Sound)) /\ Len(bufs') <= Len(bufs)
               /\ FlattenSeq(bufs) = r \o FlattenSeq(bufs')
               /\ bufSize' = bufSize - Len(r)
               /\ Len(device) + Len(r) <= DeviceSize
<1> DEFINE wsize == IF bufSize > WriteSize THEN WriteSize ELSE bufSize
           r     == Read(wsize)
<1>1. wsize \in Nat /\ wsize <= WriteSize /\ WriteSize \in Nat
    BY SizeIs, SizeAssumption
<1>2. /\ device' = device \o r /\ bufs' = After(bufs, Len(r))
      /\ bufSize' = bufSize - Len(r) /\ Fragments # 0
    BY DEF OutReads, Take, MustWait
<1> HIDE DEF wsize
<1>3. /\ r \in Seq(Sound) /\ Len(r) <= wsize
      /\ After(bufs, Len(r)) \in Seq(Seq(Sound))
      /\ Len(After(bufs, Len(r))) <= Len(bufs)
      /\ FlattenSeq(bufs) = r \o FlattenSeq(After(bufs, Len(r)))
    <2>1. bufs \in Seq(Seq(Sound))
        BY DEF IInv, DataInv
    <2> QED
        BY <1>1, <2>1, ReadFacts DEF QueuedUnits
<1> HIDE DEF r
<1>4. Len(device) + Len(r) <= DeviceSize
    <2>1. Len(r) \in Nat /\ Len(device) \in Nat
        BY <1>3 DEF IInv, DataInv
    <2>2. Len(device) + WriteSize <= DeviceSize
        BY <1>2, FragmentFits
    <2> QED
        BY <1>1, <1>3, <2>1, <2>2, SizeAssumption
<1> QED
    BY <1>2, <1>3, <1>4

-----------------------------------------------------------------------------
(* What each step keeps *)

LEMMA PauseFacts ==
    ASSUME NEW state, Pause(state)
    PROVE  /\ \/ held' = held /\ device' = device /\ played' = played
              \/ held' = TRUE /\ device' = <<>> /\ played' = Dropped
           /\ paused' = paused \/ paused' = state
    BY DEF Pause, Reset

LEMMA ThreadsKept ==
    ASSUME IInv, [Next]_vars
    PROVE  /\ audio' \in {"loop", "locked", "resume", "extract", "write",
                          "ending", "deleting", "gone"}
           /\ out' \in {"run", "wait", "silence", "gone"}
           /\ silence' \in 0 .. SilenceSize
           /\ FrameInv'
<1>1. /\ audio \in {"loop", "locked", "resume", "extract", "write",
                    "ending", "deleting", "gone"}
      /\ out \in {"run", "wait", "silence", "gone"}
      /\ silence \in 0 .. SilenceSize /\ SilenceSize \in Nat
      /\ (audio # "write" => frame = <<>>)
    BY SizeAssumption DEF IInv, TypeOK, FrameInv
<1> SUFFICES /\ audio' \in {"loop", "locked", "resume", "extract", "write",
                            "ending", "deleting", "gone"}
             /\ out' \in {"run", "wait", "silence", "gone"}
             /\ silence' \in 0 .. SilenceSize
             /\ (audio' # "write" => frame' = <<>>)
    BY DEF FrameInv
<1> USE <1>1 DEF outVars
<1>2. CASE AudioPauses
    BY <1>2 DEF AudioPauses
<1>3. CASE WantsResume
    BY <1>3 DEF WantsResume
<1>4. CASE AudioResumes
    BY <1>4 DEF AudioResumes
<1>5. CASE ReadFrames
    BY <1>5 DEF ReadFrames
<1>6. CASE WriteFrame
    BY <1>6 DEF WriteFrame
<1>7. CASE NoExtract
    BY <1>7 DEF NoExtract
<1>8. CASE PauseAtEnd
    BY <1>8 DEF PauseAtEnd
<1>9. CASE OutWaits
    BY <1>9 DEF OutWaits, audioVars
<1>10. CASE OutWakes
    BY <1>10 DEF OutWakes, audioVars
<1>11. CASE OutReads
    BY <1>11 DEF OutReads, audioVars
<1>12. CASE WriteSilence
    BY <1>12 DEF WriteSilence, audioVars, SilenceWritten
<1>13. CASE OutEnds
    BY <1>13 DEF OutEnds, audioVars
<1>14. CASE Play
    BY <1>14 DEF Play, audioVars
<1>15. CASE Start
    BY <1>15 DEF Start
<1>16. CASE UserPauses
    BY <1>16 DEF UserPauses
<1>17. CASE UserPlays
    BY <1>17 DEF UserPlays
<1>18. CASE SeekTime
    BY <1>18 DEF SeekTime
<1>19. CASE Delete
    BY <1>19 DEF Delete, Parked
<1>20. CASE Join
    BY <1>20 DEF Join
<1>21. CASE UNCHANGED vars
    BY <1>21 DEF vars, audioVars
<1>22. CASE SetAsync
    BY <1>22 DEF SetAsync, audioVars
<1> QED
    BY <1>2, <1>3, <1>4, <1>5, <1>6, <1>7, <1>8, <1>9, <1>10, <1>11, <1>12,
       <1>13, <1>14, <1>15, <1>16, <1>17, <1>18, <1>19, <1>20, <1>21, <1>22
    DEF Next, AudioThread, OutThread, User

LEMMA BooleansKept ==
    ASSUME IInv, [Next]_vars
    PROVE  {initialized, paused, quit, held, audioPaused}' \subseteq BOOLEAN
<1>1. /\ initialized \in BOOLEAN /\ paused \in BOOLEAN /\ quit \in BOOLEAN
      /\ held \in BOOLEAN /\ audioPaused \in BOOLEAN
    BY DEF IInv, TypeOK
<1>2. ASSUME NEW state \in BOOLEAN, Pause(state)
      PROVE  held' \in BOOLEAN /\ paused' \in BOOLEAN
    BY <1>1, <1>2, Zenon DEF Pause
<1>3. TRUE \in BOOLEAN /\ FALSE \in BOOLEAN /\ (~initialized) \in BOOLEAN
    OBVIOUS
<1> USE <1>1, <1>3
<1>4. /\ initialized' \in BOOLEAN /\ paused' \in BOOLEAN /\ quit' \in BOOLEAN
      /\ held' \in BOOLEAN /\ audioPaused' \in BOOLEAN
    <2>2. CASE AudioPauses
        BY <1>2, <2>2, Zenon DEF AudioPauses
    <2>3. CASE WantsResume
        BY <2>3, Zenon DEF WantsResume, stateVars, timeVars
    <2>4. CASE AudioResumes
        BY <1>2, <2>4, Zenon DEF AudioResumes
    <2>5. CASE ReadFrames
        BY <2>5, Zenon DEF ReadFrames, stateVars, timeVars
    <2>6. CASE WriteFrame
        BY <2>6, Zenon DEF WriteFrame, stateVars
    <2>7. CASE NoExtract
        BY <2>7, Zenon DEF NoExtract, stateVars, timeVars
    <2>8. CASE PauseAtEnd
        BY <1>2, <2>8, Zenon DEF PauseAtEnd
    <2>9. CASE OutWaits
        BY <2>9, Zenon DEF OutWaits, stateVars, timeVars, audioVars
    <2>10. CASE OutWakes
        BY <2>10, Zenon DEF OutWakes, stateVars, timeVars, audioVars
    <2>11. CASE OutReads
        BY <2>11, Zenon DEF OutReads, stateVars, timeVars, audioVars, updateTimer
    <2>12. CASE WriteSilence
        BY <2>12, Zenon DEF WriteSilence, stateVars, timeVars, audioVars
    <2>13. CASE OutEnds
        BY <2>13, Zenon DEF OutEnds, stateVars, timeVars, audioVars
    <2>14. CASE Play
        BY <2>14, Zenon DEF Play, stateVars, timeVars, audioVars
    <2>15. CASE Start
        BY <2>15, Zenon DEF Start, timeVars
    <2>16. CASE UserPauses
        BY <1>2, <2>16, Zenon DEF UserPauses
    <2>17. CASE UserPlays
        BY <1>2, <2>17, Zenon DEF UserPlays
    <2>18. CASE SeekTime
        BY <2>18, Zenon DEF SeekTime, stateVars
    <2>19. CASE Delete
        BY <2>19, Zenon DEF Delete, timeVars
    <2>20. CASE Join
        BY <2>20, Zenon DEF Join, stateVars, timeVars
    <2>21. CASE UNCHANGED vars
        BY <2>21, Zenon DEF vars, stateVars, timeVars, audioVars
    <2>22. CASE SetAsync
        BY <2>22, Zenon DEF SetAsync, timeVars, audioVars
    <2> QED
        BY <2>2, <2>3, <2>4, <2>5, <2>6, <2>7, <2>8, <2>9, <2>10, <2>11, <2>12,
           <2>13, <2>14, <2>15, <2>16, <2>17, <2>18, <2>19, <2>20, <2>21, <2>22,
           Zenon
        DEF Next, AudioThread, OutThread, User
<1> QED
    BY <1>4, Zenon

LEMMA ReadFramesFacts ==
    ASSUME IInv, ReadFrames
    PROVE  \E n \in Nat :
               /\ streamPos + n <= End /\ streamPos' = streamPos + n
               /\ frame' \in Seq(Sound) /\ Len(frame') = n
               /\ frame' = Run(streamPos, streamPos + n)
               /\ frame = <<>>
<1>1. PICK n \in FrameSizes : /\ streamPos + n <= End
                              /\ frame' = [i \in 1 .. n |-> streamPos + i]
                              /\ streamPos' = streamPos + n
    BY DEF ReadFrames
<1>2. n \in Nat /\ streamPos \in Nat
    BY SizeAssumption DEF IInv, TypeOK
<1>3. frame = <<>>
    BY DEF IInv, FrameInv, ReadFrames
<1> QED
    BY <1>1, <1>2, <1>3, RunSound

(* A seek ends in the stream. *)
LEMMA SeekFacts ==
    ASSUME IInv, SeekTime
    PROVE  \E at \in 0 .. End : /\ streamPos' = at /\ streamTime' = at
                               /\ realpos' = at /\ played' = at
<1>1. PICK pos \in 0 .. End :
          \E at \in Sought(pos) : /\ streamPos' = at /\ streamTime' = at
                                  /\ realpos' = at /\ played' = at
    BY DEF SeekTime
<1>5. PICK at \in Sought(pos) : /\ streamPos' = at /\ streamTime' = at
                                /\ realpos' = at /\ played' = at
    BY <1>1
<1> DEFINE target == NotBelow0(pos + async)
           last   == IF target > End THEN End ELSE target
<1>2. End \in Nat /\ pos \in Nat
    BY SizeAssumption
<1>3. last \in 0 .. End
    <2>1. async \in Int
        BY SizeAssumption DEF IInv, TypeOK
    <2> QED
        BY <1>2, <2>1 DEF NotBelow0
<1> HIDE DEF last
<1>4. at \in 0 .. End
    BY <1>2, <1>3 DEF Sought, last
<1> QED
    BY <1>4, <1>5

LEMMA TimesKept ==
    ASSUME IInv, [Next]_vars
    PROVE  /\ streamPos' \in 0 .. End /\ streamTime' \in 0 .. End
           /\ TimeInv'
<1>1. /\ streamPos \in 0 .. End /\ streamTime \in 0 .. End /\ End \in Nat
      /\ streamTime = streamPos - Len(frame) /\ Len(frame) \in Nat
      /\ Len(<<>>) = 0
    BY SizeAssumption DEF IInv, TypeOK, TimeInv, DataInv
<1>2. ASSUME UNCHANGED <<streamPos, streamTime, frame>>
      PROVE  /\ streamPos' \in 0 .. End /\ streamTime' \in 0 .. End
             /\ TimeInv'
    BY <1>1, <1>2 DEF TimeInv
<1>3. CASE AudioThread
    <2>1. CASE ReadFrames
        <3>1. PICK n \in Nat : /\ streamPos + n <= End
                               /\ streamPos' = streamPos + n
                               /\ Len(frame') = n /\ frame = <<>>
            BY <2>1, ReadFramesFacts
        <3>2. streamTime' = streamTime
            BY <2>1 DEF ReadFrames, timeVars
        <3> QED
            BY <1>1, <3>1, <3>2 DEF TimeInv
    <2>2. CASE WriteFrame
        <3>1. streamTime' = streamPos /\ streamPos' = streamPos /\ frame' = <<>>
            BY <2>2 DEF WriteFrame
        <3> QED
            BY <1>1, <3>1 DEF TimeInv
    <2>3. CASE ~ReadFrames /\ ~WriteFrame
        <3>1. UNCHANGED <<streamPos, streamTime, frame>>
            BY <1>3, <2>3
            DEF AudioThread, AudioPauses, WantsResume, AudioResumes, NoExtract,
                PauseAtEnd, timeVars
        <3> QED
            BY <1>2, <3>1
    <2> QED
        BY <2>1, <2>2, <2>3
<1>4. CASE OutThread \/ Play
    <2>1. UNCHANGED <<streamPos, streamTime, frame>>
        BY <1>4 DEF OutThread, OutWaits, OutWakes, OutReads, WriteSilence,
                    OutEnds, Play, audioVars, timeVars
    <2> QED
        BY <1>2, <2>1
<1>5. CASE User
    <2>1. CASE SeekTime
        <3>1. PICK at \in 0 .. End : streamPos' = at /\ streamTime' = at
            BY <2>1, SeekFacts
        <3>2. frame' = <<>>
            BY <2>1 DEF SeekTime, Parked, IInv, FrameInv
        <3> QED
            BY <1>1, <3>1, <3>2 DEF TimeInv
    <2>2. CASE ~SeekTime
        <3>1. UNCHANGED <<streamPos, streamTime, frame>>
            BY <1>5, <2>2 DEF User, Start, UserPauses, UserPlays, SetAsync,
                              Delete, Join, timeVars, audioVars
        <3> QED
            BY <1>2, <3>1
    <2> QED
        BY <2>1, <2>2
<1>6. CASE UNCHANGED vars
    <2>1. UNCHANGED <<streamPos, streamTime, frame>>
        BY <1>6 DEF vars, audioVars, timeVars
    <2> QED
        BY <1>2, <2>1
<1> QED
    BY <1>3, <1>4, <1>5, <1>6 DEF Next

(***************************************************************************)
(* The queue changes when a frame is written, when the output thread reads *)
(* and when a seek clears it.                                              *)
(***************************************************************************)
LEMMA QueueSteps ==
    ASSUME IInv, [Next]_vars
    PROVE  \/ WriteFrame \/ OutReads
           \/ bufs' = <<>> /\ bufSize' = 0 /\ SeekTime
           \/ UNCHANGED queueVars
    BY DEF Next, AudioThread, OutThread, User, vars, AudioPauses, WantsResume,
           AudioResumes, ReadFrames, NoExtract, PauseAtEnd, OutWaits, OutWakes,
           WriteSilence, OutEnds, Play, Start, UserPauses, UserPlays, SeekTime,
           SetAsync, Delete, Join, Clear, queueVars

LEMMA QueueKept ==
    ASSUME IInv, [Next]_vars
    PROVE  /\ bufs' \in Seq(Seq(Sound)) /\ frame' \in Seq(Sound)
           /\ Len(bufs') <= MaxBufs
           /\ SizeExact'
<1>1. /\ bufs \in Seq(Seq(Sound)) /\ frame \in Seq(Sound)
      /\ Len(bufs) <= MaxBufs /\ MaxBufs \in Nat
      /\ bufSize = Len(FlattenSeq(bufs)) /\ bufSize \in Nat
      /\ FlattenSeq(bufs) \in Seq(Sound)
    BY SizeAssumption, SizeIs DEF IInv, TypeOK, DataInv
<1>2. frame' \in Seq(Sound)
    <2>1. CASE ReadFrames
        BY <2>1, ReadFramesFacts
    <2>2. CASE ~ReadFrames
        <3>1. frame' = frame \/ frame' = <<>>
            BY <2>2
            DEF Next, AudioThread, OutThread, User, vars, AudioPauses, WantsResume,
                AudioResumes, WriteFrame, NoExtract, PauseAtEnd, OutWaits,
                OutWakes, OutReads, WriteSilence, OutEnds, Play, Start,
                UserPauses, UserPlays, SeekTime, SetAsync, Delete, Join, audioVars
        <3>2. frame \in Seq(Sound) /\ <<>> \in Seq(Sound)
            BY <1>1
        <3> QED
            BY <3>1, <3>2, Zenon
    <2> QED
        BY <2>1, <2>2
<1>3. CASE WriteFrame
    <2>1. /\ bufs' = Append(bufs, frame) /\ bufSize' = bufSize + Len(frame)
          /\ Len(bufs) < MaxBufs
        BY <1>3 DEF WriteFrame, Write, IInv, Room
    <2>2. FlattenSeq(bufs') = FlattenSeq(bufs) \o frame
        BY <1>1, <2>1, FlattenAppend
    <2>3. bufs' \in Seq(Seq(Sound)) /\ Len(bufs') <= MaxBufs
        BY <1>1, <2>1
    <2>4. Len(FlattenSeq(bufs) \o frame) = bufSize + Len(frame)
        BY <1>1, ConcatProperties
    <2>5. SizeExact'
        BY <2>1, <2>2, <2>4 DEF SizeExact, QueuedUnits
    <2> QED
        BY <1>2, <2>3, <2>5
<1>4. CASE OutReads
    <2>1. PICK r \in Seq(Sound) :
              /\ bufs' \in Seq(Seq(Sound)) /\ Len(bufs') <= Len(bufs)
              /\ FlattenSeq(bufs) = r \o FlattenSeq(bufs')
              /\ bufSize' = bufSize - Len(r)
        BY <1>4, OutReadsFacts
    <2>2. FlattenSeq(bufs') \in Seq(Sound)
        BY <2>1, FlattenType
    <2> DEFINE q == FlattenSeq(bufs')
    <2>3. Len(r \o q) = Len(r) + Len(q) /\ Len(r) \in Nat /\ Len(q) \in Nat
        <3>1. q \in Seq(Sound)
            BY <2>2
        <3> HIDE DEF q
        <3> QED
            BY <3>1, ConcatProperties
    <2>4. bufSize' = Len(q)
        BY <1>1, <2>1, <2>3
    <2>5. SizeExact'
        BY <2>4 DEF SizeExact, QueuedUnits
    <2>6. Len(bufs') <= MaxBufs
        BY <1>1, <2>1
    <2> QED
        BY <1>2, <2>1, <2>5, <2>6
<1>5. CASE bufs' = <<>> /\ bufSize' = 0
    BY <1>1, <1>2, <1>5, FlattenNone DEF SizeExact, QueuedUnits
<1>6. CASE UNCHANGED queueVars
    <2>1. bufs' = bufs /\ bufSize' = bufSize
        BY <1>6 DEF queueVars
    <2> QED
        BY <1>1, <1>2, <2>1 DEF SizeExact, QueuedUnits
<1> QED
    BY <1>3, <1>4, <1>5, <1>6, QueueSteps

LEMMA RoomKept ==
    ASSUME IInv, [Next]_vars
    PROVE  Room'
<1>1. CASE ReadFrames
    <2>1. ~(Len(bufs) >= MaxBufs) /\ bufs' = bufs
        BY <1>1 DEF ReadFrames, IsFull, queueVars
    <2>2. Len(bufs) \in Nat /\ MaxBufs \in Nat
        BY SizeAssumption DEF IInv, DataInv
    <2> QED
        BY <2>1, <2>2 DEF Room
<1>2. CASE ~ReadFrames
    <2>1. SUFFICES ASSUME audio' = "write" PROVE Len(bufs') < MaxBufs
        BY DEF Room
    <2>2. audio = "write" /\ ~WriteFrame
        BY <1>2, <2>1
        DEF Next, AudioThread, OutThread, User, vars, AudioPauses, WantsResume,
            AudioResumes, WriteFrame, NoExtract, PauseAtEnd, OutWaits, OutWakes,
            OutReads, WriteSilence, OutEnds, Play, Start, UserPauses, UserPlays,
            SeekTime, SetAsync, Delete, Join, audioVars
    <2>3. Len(bufs) < MaxBufs /\ Len(bufs) \in Nat /\ MaxBufs \in Nat
        BY <2>2, SizeAssumption DEF IInv, Room, DataInv
    <2>4. CASE OutReads
        <3>1. Len(bufs') <= Len(bufs) /\ Len(bufs') \in Nat
            BY <2>4, OutReadsFacts
        <3> QED
            BY <2>3, <3>1
    <2>5. CASE bufs' = <<>> /\ bufSize' = 0
        BY <2>5, SizeAssumption
    <2>6. CASE UNCHANGED queueVars
        BY <2>3, <2>6 DEF queueVars
    <2> QED
        BY <2>2, <2>4, <2>5, <2>6, QueueSteps
<1> QED
    BY <1>1, <1>2

(***************************************************************************)
(* What the card has changes when it plays, takes a fragment or a unit of  *)
(* silence, and when it is reset.                                          *)
(***************************************************************************)
LEMMA DeviceSteps ==
    ASSUME IInv, [Next]_vars
    PROVE  \/ Play \/ OutReads
           \/ WriteSilence /\ ~SilenceWritten
           \/ device' = <<>> /\ out' = out /\ silence' = silence
           \/ device' = device /\ out' = out /\ silence' = silence
           \/ device' = device /\ out # "silence" /\ out' # "silence"
           \/ device' = device /\ WriteSilence /\ SilenceWritten
<1>1. CASE AudioPauses \/ AudioResumes \/ PauseAtEnd \/ UserPauses \/ UserPlays
    <2>1. (Pause(TRUE) \/ Pause(FALSE)) /\ out' = out /\ silence' = silence
        BY <1>1 DEF AudioPauses, AudioResumes, PauseAtEnd, UserPauses, UserPlays,
                    outVars
    <2>2. device' = device \/ device' = <<>>
        BY <2>1, PauseFacts
    <2> QED
        BY <2>1, <2>2
<1>2. CASE SeekTime \/ Join
    BY <1>2 DEF SeekTime, Join, Reset, outVars
<1>3. CASE WantsResume \/ ReadFrames \/ WriteFrame \/ NoExtract
    BY <1>3 DEF WantsResume, ReadFrames, WriteFrame, NoExtract, outVars
<1>4. CASE OutWaits \/ OutWakes \/ OutEnds
    BY <1>4 DEF OutWaits, OutWakes, OutEnds
<1>5. CASE Start \/ Delete \/ SetAsync
    BY <1>5 DEF Start, Delete, SetAsync, outVars
<1>6. CASE WriteSilence
    BY <1>6 DEF WriteSilence
<1>7. CASE UNCHANGED vars
    BY <1>7 DEF vars, outVars
<1> QED
    BY <1>1, <1>2, <1>3, <1>4, <1>5, <1>6, <1>7
    DEF Next, AudioThread, OutThread, User

LEMMA PlayFacts ==
    ASSUME IInv, Play
    PROVE  /\ device # <<>> /\ Head(device) \in Unit /\ device' \in Seq(Unit)
           /\ Len(device') = Len(device) - 1 /\ Len(device) \in Nat
           /\ \A i \in 1 .. Len(device') : device'[i] = device[i + 1]
           /\ device = <<Head(device)>> \o device'
           /\ out' = out /\ silence' = silence
<1>1. device # <<>> /\ device' = Tail(device) /\ device \in Seq(Unit)
    BY DEF Play, IInv, DataInv
<1>2. out' = out /\ silence' = silence
    BY DEF Play, outVars
<1>3. device = <<Head(device)>> \o Tail(device)
    BY <1>1, HeadTailProperties
<1> QED
    BY <1>1, <1>2, <1>3, HeadTailProperties

LEMMA DeviceKept ==
    ASSUME IInv, [Next]_vars
    PROVE  device' \in Seq(Unit) /\ Len(device') <= DeviceSize
<1>1. /\ device \in Seq(Unit) /\ Len(device) \in Nat
      /\ Len(device) <= DeviceSize /\ DeviceSize \in Nat
    BY SizeAssumption DEF IInv, TypeOK, DataInv
<1>2. CASE Play
    BY <1>1, <1>2, PlayFacts
<1>3. CASE OutReads
    <2>1. PICK r \in Seq(Sound) : /\ device' = device \o r
                                  /\ Len(device) + Len(r) <= DeviceSize
        BY <1>3, OutReadsFacts
    <2>2. r \in Seq(Unit)
        BY SoundIsUnit
    <2> QED
        BY <1>1, <2>1, <2>2, ConcatProperties
<1>4. CASE WriteSilence /\ ~SilenceWritten
    <2>1. /\ device' = Append(device, 0) /\ Len(device) < DeviceSize
          /\ 0 \in Unit
        BY <1>4 DEF WriteSilence, Unit
    <2> QED
        BY <1>1, <2>1
<1>5. CASE device' = <<>>
    BY <1>1, <1>5
<1>6. CASE device' = device
    BY <1>1, <1>6
<1> QED
    BY <1>2, <1>3, <1>4, <1>5, <1>6, DeviceSteps

LEMMA SilenceKept ==
    ASSUME IInv, [Next]_vars
    PROVE  SilenceInv'
<1>1. /\ device \in Seq(Unit) /\ Len(device) \in Nat
      /\ silence \in Nat /\ SilenceSize \in Nat /\ silence <= SilenceSize
    BY SizeAssumption DEF IInv, TypeOK, DataInv
<1>2. SilenceInv
    BY DEF IInv
<1>3. CASE Play
    <2> SUFFICES ASSUME out' = "silence", NEW i \in 1 .. Len(device'),
                        i > Len(device') - (SilenceSize - silence')
                 PROVE  device'[i] = 0
        BY DEF SilenceInv
    <2>1. i + 1 \in 1 .. Len(device)
          /\ i + 1 > Len(device) - (SilenceSize - silence)
          /\ out = "silence" /\ device'[i] = device[i + 1]
        BY <1>1, <1>3, PlayFacts
    <2> QED
        BY <1>2, <2>1 DEF SilenceInv
<1>4. CASE OutReads
    <2>1. out' = "run" \/ silence' = SilenceSize
        BY <1>4 DEF OutReads, outVars
    <2>2. Len(device') \in Nat
        BY DeviceKept
    <2> QED
        BY <1>1, <2>1, <2>2 DEF SilenceInv
<1>5. CASE WriteSilence /\ ~SilenceWritten
    <2> SUFFICES ASSUME NEW i \in 1 .. Len(device'),
                        i > Len(device') - (SilenceSize - silence')
                 PROVE  device'[i] = 0
        BY DEF SilenceInv
    <2>1. /\ device' = Append(device, 0) /\ silence' = silence - 1
          /\ out = "silence"
        BY <1>5 DEF WriteSilence
    <2>2. /\ Len(device') = Len(device) + 1 /\ device'[Len(device) + 1] = 0
          /\ \A j \in 1 .. Len(device) : device'[j] = device[j]
        BY <1>1, <2>1, AppendProperties
    <2>3. CASE i = Len(device) + 1
        BY <2>2, <2>3
    <2>4. CASE i # Len(device) + 1
        <3>1. i \in 1 .. Len(device) /\ i > Len(device) - (SilenceSize - silence)
            BY <1>1, <2>1, <2>2, <2>4
        <3> QED
            BY <1>2, <2>1, <2>2, <3>1 DEF SilenceInv
    <2> QED
        BY <2>3, <2>4
<1>6. CASE device' = <<>>
    BY <1>6 DEF SilenceInv
<1>7. CASE device' = device /\ out' = out /\ silence' = silence
    BY <1>2, <1>7 DEF SilenceInv
<1>8. CASE out' # "silence"
    BY <1>8 DEF SilenceInv
<1>9. CASE WriteSilence /\ SilenceWritten
    BY <1>8, <1>9 DEF WriteSilence
<1> QED
    BY <1>3, <1>4, <1>5, <1>6, <1>7, <1>8, <1>9, DeviceSteps

LEMMA FreshKept ==
    ASSUME IInv, [Next]_vars
    PROVE  FreshInv'
<1> SUFFICES ASSUME ~initialized'
             PROVE  /\ bufs' = <<>> /\ device' = <<>> /\ frame' = <<>>
                    /\ audio' \in {"locked", "deleting", "gone"}
                    /\ out' # "silence"
    BY DEF FreshInv
<1>1. ~initialized
    BY DEF Next, AudioThread, OutThread, User, vars, AudioPauses, WantsResume,
           AudioResumes, ReadFrames, WriteFrame, NoExtract, PauseAtEnd, OutWaits,
           OutWakes, OutReads, WriteSilence, OutEnds, Play, Start, UserPauses,
           UserPlays, SeekTime, SetAsync, Delete, Join, stateVars
<1>2. /\ bufs = <<>> /\ device = <<>> /\ frame = <<>>
      /\ audio \in {"locked", "deleting", "gone"} /\ out # "silence"
    BY <1>1 DEF IInv, FreshInv
<1>3. CASE SeekTime
    BY <1>1, <1>2, <1>3 DEF SeekTime, queueVars, outVars
<1>4. CASE Delete
    BY <1>2, <1>4 DEF Delete, queueVars, outVars
<1>5. CASE Join
    BY <1>2, <1>5 DEF Join, queueVars, outVars, Reset
<1>6. CASE OutWaits \/ OutWakes \/ OutEnds
    BY <1>2, <1>6 DEF OutWaits, OutWakes, OutEnds, queueVars, audioVars
<1>7. CASE UNCHANGED vars
    BY <1>2, <1>7 DEF vars, queueVars, audioVars, outVars
<1>8. ~AudioThread
    BY <1>2 DEF AudioThread, AudioPauses, WantsResume, AudioResumes, ReadFrames,
                WriteFrame, NoExtract, PauseAtEnd
<1>9. ~OutReads /\ ~WriteSilence /\ ~Play
    BY <1>1, <1>2 DEF OutReads, MustWait, WriteSilence, Play
<1>11. CASE SetAsync
    BY <1>2, <1>11 DEF SetAsync, queueVars, audioVars, outVars
<1>10. ~Start /\ ~UserPauses /\ ~UserPlays
    BY <1>1 DEF Start, UserPauses, UserPlays
<1> QED
    BY <1>3, <1>4, <1>5, <1>6, <1>7, <1>8, <1>9, <1>10,
       <1>11
    DEF Next, OutThread, User

-----------------------------------------------------------------------------
(***************************************************************************)
(* The line of sound: what is heard of what the card has, then the queue,  *)
(* then the frame, are the stream from one position to another.            *)
(***************************************************************************)
Line(s, q, f, a, b) == /\ s \in Seq(Unit) /\ q \in Seq(Unit) /\ f \in Seq(Unit)
                       /\ a \in Nat /\ b \in Nat /\ a <= b
                       /\ s \o q \o f = Run(a, b)

LEMMA LineLength ==
    ASSUME NEW s, NEW q, NEW f, NEW a, NEW b, Line(s, q, f, a, b)
    PROVE  Len(s) + Len(q) + Len(f) = b - a
<1>1. /\ s \in Seq(Unit) /\ q \in Seq(Unit) /\ f \in Seq(Unit)
      /\ a \in Nat /\ b \in Nat /\ a <= b /\ s \o q \o f = Run(a, b)
    BY DEF Line
<1>2. s \o q \in Seq(Unit) /\ Len(s \o q) = Len(s) + Len(q)
    BY <1>1, ConcatProperties
<1>3. Len((s \o q) \o f) = Len(s \o q) + Len(f)
    <2> DEFINE x == s \o q
    <2>1. x \in Seq(Unit)
        BY <1>2
    <2> HIDE DEF x
    <2>2. Len(x \o f) = Len(x) + Len(f)
        BY <1>1, <2>1, ConcatProperties
    <2> QED
        BY <2>2 DEF x
<1>4. Len(Run(a, b)) = b - a
    BY <1>1, RunFacts
<1> QED
    BY <1>1, <1>2, <1>3, <1>4

\* x is the sound from a to m, y what is behind it.
Foremost(s, x, y, a, m) == /\ x \in Seq(Unit) /\ y \in Seq(Unit)
                           /\ s = x \o y /\ m = a + Len(x)

\* The sound at the front is dropped, or a part of it.
LEMMA LineCut ==
    ASSUME NEW s, NEW q, NEW f, NEW a, NEW b, NEW x, NEW y, NEW m,
           Line(s, q, f, a, b), Foremost(s, x, y, a, m)
    PROVE  Line(y, q, f, m, b) /\ x = Run(a, m)
<1>0. /\ x \in Seq(Unit) /\ y \in Seq(Unit)
      /\ s = x \o y /\ m = a + Len(x)
    BY DEF Foremost
<1> USE <1>0
<1>1. /\ s \in Seq(Unit) /\ q \in Seq(Unit) /\ f \in Seq(Unit)
      /\ a \in Nat /\ b \in Nat /\ a <= b /\ ((x \o y) \o q) \o f = Run(a, b)
    BY DEF Line
<1> DEFINE xy == x \o y
           yq == y \o q
           yqf == yq \o f
<1>2. xy \in Seq(Unit) /\ yq \in Seq(Unit)
    BY <1>1, ConcatProperties
<1>3. xy \o q = x \o yq
    <2>1. x \in Seq(Unit) /\ y \in Seq(Unit) /\ q \in Seq(Unit)
        BY <1>0, <1>1
    <2> QED
        BY ONLY <2>1, ConcatAssociative
<1> HIDE DEF yq
<1>4. (x \o yq) \o f = x \o (yq \o f)
    <2>1. x \in Seq(Unit) /\ yq \in Seq(Unit) /\ f \in Seq(Unit)
        BY <1>1, <1>2
    <2> QED
        BY ONLY <2>1, ConcatAssociative
<1>5. yqf \in Seq(Unit)
    BY <1>1, <1>2, ConcatProperties
<1>6. x \o yqf = Run(a, b)
    BY <1>1, <1>3, <1>4
<1> HIDE DEF yqf
<1>7. m \in Nat /\ m <= b /\ x = Run(a, m) /\ yqf = Run(m, b)
    <2>1. /\ x \in Seq(Unit) /\ yqf \in Seq(Unit) /\ a \in Nat /\ b \in Nat
          /\ a <= b /\ x \o yqf = Run(a, b)
        BY <1>1, <1>5, <1>6
    <2>2. Cut(x, yqf, a, b, m)
        BY <2>1 DEF Cut
    <2> QED
        BY ONLY <2>2, RunCut
<1> QED
    BY <1>1, <1>7 DEF Line, yqf, yq

\* The sound at the front of the queue goes to the card.
LEMMA LineMove ==
    ASSUME NEW s, NEW q, NEW f, NEW a, NEW b,
           NEW x \in Seq(Unit), NEW y \in Seq(Unit),
           q = x \o y, Line(s, q, f, a, b)
    PROVE  Line(s \o x, y, f, a, b)
<1>1. /\ s \in Seq(Unit) /\ f \in Seq(Unit)
      /\ a \in Nat /\ b \in Nat /\ a <= b /\ (s \o (x \o y)) \o f = Run(a, b)
    BY DEF Line
<1>2. s \o (x \o y) = (s \o x) \o y
    <2>1. s \in Seq(Unit) /\ x \in Seq(Unit) /\ y \in Seq(Unit)
        BY <1>1
    <2> QED
        BY ONLY <2>1, ConcatAssociative
<1>3. s \o x \in Seq(Unit)
    BY <1>1, ConcatProperties
<1> QED
    BY <1>1, <1>2, <1>3 DEF Line

\* The frame goes to the queue.
LEMMA LineWrite ==
    ASSUME NEW s, NEW q, NEW f, NEW a, NEW b, Line(s, q, f, a, b)
    PROVE  Line(s, q \o f, <<>>, a, b)
<1>1. /\ s \in Seq(Unit) /\ q \in Seq(Unit) /\ f \in Seq(Unit)
      /\ a \in Nat /\ b \in Nat /\ a <= b /\ (s \o q) \o f = Run(a, b)
    BY DEF Line
<1> DEFINE qf == q \o f
<1>2. (s \o q) \o f = s \o qf
    <2>1. s \in Seq(Unit) /\ q \in Seq(Unit) /\ f \in Seq(Unit)
        BY <1>1
    <2> QED
        BY ONLY <2>1, ConcatAssociative
<1>3. qf \in Seq(Unit)
    BY <1>1, ConcatProperties
<1> HIDE DEF qf
<1> DEFINE sqf == s \o qf
<1>4. sqf \in Seq(Unit) /\ sqf = Run(a, b)
    BY <1>1, <1>2, <1>3, ConcatProperties
<1> HIDE DEF sqf
<1>5. sqf \o <<>> = sqf /\ <<>> \in Seq(Unit)
    BY <1>4, ConcatEmptySeq
<1>6. Line(s, qf, <<>>, a, b)
    BY <1>1, <1>3, <1>4, <1>5 DEF Line, sqf
<1> QED
    BY <1>6 DEF qf

\* A frame is read.
LEMMA LineRead ==
    ASSUME NEW s, NEW q, NEW f, NEW a, NEW b, Line(s, q, f, a, b), f = <<>>,
           NEW n \in Nat
    PROVE  Line(s, q, Run(b, b + n), a, b + n)
<1>1. /\ s \in Seq(Unit) /\ q \in Seq(Unit)
      /\ a \in Nat /\ b \in Nat /\ a <= b /\ (s \o q) \o <<>> = Run(a, b)
    BY DEF Line
<1> DEFINE sq == s \o q
<1>2. sq \in Seq(Unit)
    BY <1>1, ConcatProperties
<1>3. sq = Run(a, b)
    <2> HIDE DEF sq
    <2>1. sq \o <<>> = sq
        BY <1>2, ConcatEmptySeq
    <2> QED
        BY <1>1, <2>1 DEF sq
<1>4. b + n \in Nat /\ b <= b + n /\ a <= b + n
    BY <1>1
<1>5. Run(a, b) \o Run(b, b + n) = Run(a, b + n)
    BY <1>1, <1>4, RunJoin
<1>6. Run(b, b + n) \in Seq(Unit)
    BY <1>1, <1>4, RunFacts, SoundIsUnit DEF Sound, Unit
<1> QED
    BY <1>1, <1>3, <1>4, <1>5, <1>6 DEF Line

LEMMA LineNone ==
    ASSUME NEW a \in Nat
    PROVE  Line(<<>>, <<>>, <<>>, a, a)
<1>1. Run(a, a) = <<>> /\ <<>> \in Seq(Unit) /\ (<<>> \o <<>>) \o <<>> = <<>>
    BY DEF Run
<1> QED
    BY <1>1 DEF Line

NowLine == Line(SoundsOf(device), FlattenSeq(bufs), frame, played, streamPos)

LEMMA NowLineHolds == IInv => NowLine
<1> SUFFICES ASSUME IInv PROVE NowLine
    OBVIOUS
<1>1. /\ SoundsOf(device) \in Seq(Unit)
      /\ FlattenSeq(bufs) \in Seq(Unit) /\ frame \in Seq(Unit)
    <2>1. SoundsOf(device) \in Seq(Unit)
        BY SoundsType DEF IInv, DataInv
    <2>2. FlattenSeq(bufs) \in Seq(Sound) /\ frame \in Seq(Sound)
        BY SizeIs DEF IInv, DataInv
    <2> QED
        BY <2>1, <2>2, SoundIsUnit
<1>2. played \in Nat /\ streamPos \in Nat /\ played <= streamPos
    BY SizeAssumption DEF IInv, TypeOK, DataInv
<1>3. SoundsOf(device) \o FlattenSeq(bufs) \o frame = Run(played, streamPos)
    BY Zenon DEF IInv, Continuous, QueuedUnits, Run
<1> QED
    BY <1>1, <1>2, <1>3, Zenon DEF NowLine, Line

LEMMA DroppedFacts ==
    ASSUME IInv
    PROVE  /\ Dropped \in Nat /\ Dropped <= streamPos
           /\ Line(<<>>, FlattenSeq(bufs), frame, Dropped, streamPos)
<1> DEFINE s == SoundsOf(device)
           q == FlattenSeq(bufs)
           m == played + Len(s)
<1>1. Line(s, q, frame, played, streamPos)
    BY NowLineHolds DEF NowLine
<1>2. /\ s \in Seq(Unit) /\ <<>> \in Seq(Unit) /\ s = s \o <<>>
      /\ played \in Nat /\ streamPos \in Nat
    <2>1. s \in Seq(Unit)
        BY <1>1 DEF Line
    <2>2. played \in Nat /\ streamPos \in Nat /\ <<>> \in Seq(Unit)
        BY <1>1 DEF Line
    <2> HIDE DEF s
    <2> QED
        BY <2>1, <2>2, ConcatEmptySeq
<1>3. Dropped = IF s = <<>> THEN played ELSE s[Len(s)]
    BY DEF Dropped
<1> HIDE DEF s, q
<1>4. Line(<<>>, q, frame, m, streamPos) /\ s = Run(played, m)
    <2> HIDE DEF m
    <2>1. m = played + Len(s)
        BY DEF m
    <2>2. Foremost(s, s, <<>>, played, m)
        BY <1>2, <2>1, Zenon DEF Foremost
    <2> QED
        BY <1>1, <2>2, LineCut
<1>5. m \in Nat /\ m <= streamPos /\ played <= m
    <2>1. m \in Nat /\ m <= streamPos
        BY <1>4 DEF Line
    <2> QED
        BY <1>2, <2>1
<1>6. Dropped = m
    <2>1. CASE s = <<>>
        BY <1>2, <1>3, <2>1
    <2>2. CASE s # <<>>
        <3>1. Len(s) \in 1 .. m - played /\ played + Len(s) = m
            BY <1>2, <1>5, <2>2
        <3>2. s[Len(s)] = played + Len(s)
            BY <1>2, <1>4, <1>5, <3>1, RunFacts
        <3> QED
            BY <1>3, <2>2, <3>1, <3>2
    <2> QED
        BY <2>1, <2>2
<1> HIDE DEF m
<1> QED
    BY <1>4, <1>5, <1>6 DEF q

LEMMA PlayLine == ASSUME IInv, Play PROVE NowLine'
<1> DEFINE h == Head(device)
           d == device'
           s == SoundsOf(device)
           t == SoundsOf(d)
           q == FlattenSeq(bufs)
<1>1. Line(s, q, frame, played, streamPos)
    BY NowLineHolds DEF NowLine
<1>2. h \in Unit /\ d \in Seq(Unit) /\ device = <<h>> \o d
    BY PlayFacts
<1>3. /\ bufs' = bufs /\ frame' = frame /\ streamPos' = streamPos
      /\ played' = IF h = 0 THEN played ELSE h
    BY DEF Play, queueVars, audioVars
<1> SUFFICES Line(t, q, frame, IF h = 0 THEN played ELSE h, streamPos)
    BY <1>3 DEF NowLine
<1>4. s = SoundsOf(<<h>>) \o t
    <2> DEFINE o == <<h>>
    <2>1. o \in Seq(Unit) /\ device = o \o d
        BY <1>2
    <2> HIDE DEF o, d, h
    <2>2. SoundsOf(o \o d) = SoundsOf(o) \o SoundsOf(d)
        BY <1>2, <2>1, SoundsConcat
    <2> QED
        BY <2>1, <2>2 DEF o
<1>5. t \in Seq(Unit)
    BY <1>2, SoundsType
<1>6. SoundsOf(<<h>>) = IF h = 0 THEN <<>> ELSE <<h>>
    BY SoundsOne
<1> HIDE DEF s, t, q, h, d
<1>7. CASE h = 0
    <2>1. s = t
        BY <1>4, <1>5, <1>6, <1>7, ConcatEmptySeq
    <2> QED
        BY <1>1, <1>7, <2>1
<1>8. CASE h # 0
    <2> DEFINE x == <<h>>
               m == played + 1
    <2>1. x \in Seq(Unit) /\ s = x \o t /\ Len(x) = 1 /\ x[1] = h
        <3>1. x \in Seq(Unit) /\ Len(x) = 1 /\ x[1] = h
            BY <1>2
        <3>2. s = x \o t
            BY <1>4, <1>6, <1>8
        <3> QED
            BY <3>1, <3>2
    <2>2. played \in Nat
        BY <1>1 DEF Line
    <2> HIDE DEF x
    <2>3. Line(t, q, frame, m, streamPos) /\ x = Run(played, m)
        <3> HIDE DEF m
        <3>1. m = played + Len(x)
            BY <2>1 DEF m
        <3>2. Foremost(s, x, t, played, m)
            BY <1>5, <2>1, <3>1, Zenon DEF Foremost
        <3> QED
            BY <1>1, <3>2, LineCut
    <2>4. h = m
        <3>1. m \in Nat /\ played <= m /\ 1 \in 1 .. m - played
            BY <2>2
        <3>2. x[1] = played + 1
            BY <2>2, <2>3, <3>1, RunFacts
        <3> QED
            BY <2>1, <3>2
    <2> QED
        BY <1>8, <2>3, <2>4
<1> QED
    BY <1>7, <1>8

LEMMA OutReadsLine == ASSUME IInv, OutReads PROVE NowLine'
<1> DEFINE s == SoundsOf(device)
           q == FlattenSeq(bufs)
           p == FlattenSeq(bufs')
<1>1. Line(s, q, frame, played, streamPos)
    BY NowLineHolds DEF NowLine
<1>2. frame' = frame /\ streamPos' = streamPos /\ played' = played
    BY DEF OutReads, audioVars
<1>3. PICK r \in Seq(Sound) : /\ device' = device \o r
                              /\ bufs' \in Seq(Seq(Sound)) /\ q = r \o p
    BY OutReadsFacts
<1>4. r \in Seq(Unit) /\ p \in Seq(Unit)
    BY <1>3, FlattenType, SoundIsUnit
<1>5. SoundsOf(device') = s \o r
    <2>1. device \in Seq(Unit)
        BY DEF IInv, DataInv
    <2>2. SoundsOf(r) = r
        <3>1. \A i \in 1 .. Len(r) : r[i] # 0
            BY <1>3 DEF Sound
        <3> QED
            BY <1>3, <3>1, SoundsSame
    <2>3. SoundsOf(device \o r) = SoundsOf(device) \o SoundsOf(r)
        BY <1>4, <2>1, SoundsConcat
    <2> QED
        BY <1>3, <2>2, <2>3
<1> HIDE DEF s, q, p
<1>6. Line(s \o r, p, frame, played, streamPos)
    BY <1>1, <1>3, <1>4, LineMove
<1> QED
    BY <1>2, <1>5, <1>6 DEF NowLine, p

LEMMA WriteFrameLine == ASSUME IInv, WriteFrame PROVE NowLine'
<1> DEFINE s == SoundsOf(device)
           q == FlattenSeq(bufs)
<1>1. Line(s, q, frame, played, streamPos)
    BY NowLineHolds DEF NowLine
<1>2. /\ device' = device /\ streamPos' = streamPos /\ played' = played
      /\ bufs' = Append(bufs, frame) /\ frame' = <<>>
    BY DEF WriteFrame, Write
<1>3. FlattenSeq(bufs') = q \o frame
    <2>1. bufs \in Seq(Seq(Sound)) /\ frame \in Seq(Sound)
        BY DEF IInv, DataInv
    <2> QED
        BY <1>2, <2>1, FlattenAppend
<1> HIDE DEF s, q
<1>4. Line(s, q \o frame, <<>>, played, streamPos)
    BY <1>1, LineWrite
<1> QED
    BY <1>2, <1>3, <1>4 DEF NowLine, s

LEMMA ReadFramesLine == ASSUME IInv, ReadFrames PROVE NowLine'
<1> DEFINE s == SoundsOf(device)
           q == FlattenSeq(bufs)
<1>1. Line(s, q, frame, played, streamPos)
    BY NowLineHolds DEF NowLine
<1>2. device' = device /\ bufs' = bufs /\ played' = played
    BY DEF ReadFrames, queueVars
<1>3. PICK n \in Nat : /\ streamPos' = streamPos + n
                       /\ frame' = Run(streamPos, streamPos + n)
                       /\ frame = <<>>
    BY ReadFramesFacts
<1> HIDE DEF s, q
<1>4. Line(s, q, Run(streamPos, streamPos + n), played, streamPos + n)
    BY <1>1, <1>3, LineRead
<1> QED
    BY <1>2, <1>3, <1>4 DEF NowLine, s, q

LEMMA SilenceLine ==
    ASSUME IInv, WriteSilence, ~SilenceWritten
    PROVE  NowLine'
<1>1. Line(SoundsOf(device), FlattenSeq(bufs), frame, played, streamPos)
    BY NowLineHolds DEF NowLine
<1>2. /\ device' = Append(device, 0) /\ bufs' = bufs /\ frame' = frame
      /\ streamPos' = streamPos /\ played' = played
    BY DEF WriteSilence, queueVars, audioVars
<1>3. device \in Seq(Unit) /\ 0 \in Unit
    BY DEF IInv, DataInv, Unit
<1>4. SoundsOf(device') = SoundsOf(device)
    BY <1>2, <1>3, SoundsAppend
<1> QED
    BY <1>1, <1>2, <1>4 DEF NowLine

LEMMA SeekLine == ASSUME IInv, SeekTime PROVE NowLine'
<1>1. PICK pos \in 0 .. End : streamPos' = pos /\ played' = pos
    BY SeekFacts
<1>2. frame' = <<>>
    BY DEF SeekTime, Parked, IInv, FrameInv
<1>3. bufs' = <<>> /\ device' = <<>>
    <2>1. CASE initialized
        BY <2>1 DEF SeekTime, Clear, Reset
    <2>2. CASE ~initialized
        BY <2>2 DEF SeekTime, IInv, FreshInv, queueVars
    <2> QED
        BY <2>1, <2>2
<1>4. SoundsOf(device') = <<>> /\ FlattenSeq(bufs') = <<>>
    BY <1>3, SoundsNone, FlattenNone, Zenon
<1>5. pos \in Nat
    BY <1>1
<1>6. Line(<<>>, <<>>, <<>>, pos, pos)
    BY <1>5, LineNone
<1> QED
    BY <1>1, <1>2, <1>4, <1>6, Zenon DEF NowLine

LEMMA NowLineKept == ASSUME IInv, [Next]_vars PROVE NowLine'
<1>1. ASSUME device' = <<>>, played' = Dropped,
             UNCHANGED <<bufs, frame, streamPos>>
      PROVE  NowLine'
    <2>1. SoundsOf(device') = <<>>
        BY <1>1, SoundsNone, Zenon
    <2>2. Line(<<>>, FlattenSeq(bufs), frame, Dropped, streamPos)
        BY DroppedFacts
    <2> QED
        BY <1>1, <2>1, <2>2, Zenon DEF NowLine
<1>2. ASSUME UNCHANGED <<device, played, bufs, frame, streamPos>>
      PROVE  NowLine'
    <2>1. NowLine
        BY NowLineHolds
    <2> QED
        BY <1>2, <2>1, Zenon DEF NowLine
<1>3. CASE AudioPauses \/ AudioResumes \/ PauseAtEnd \/ UserPauses \/ UserPlays
    <2>1. /\ Pause(TRUE) \/ Pause(FALSE)
          /\ UNCHANGED <<bufs, frame, streamPos>>
        BY <1>3 DEF AudioPauses, AudioResumes, PauseAtEnd, UserPauses, UserPlays,
                    queueVars
    <2>2. \/ device' = device /\ played' = played
          \/ device' = <<>> /\ played' = Dropped
        BY <2>1, PauseFacts
    <2> QED
        BY <1>1, <1>2, <2>1, <2>2
<1>4. CASE Join
    BY <1>1, <1>4 DEF Join, Reset, queueVars
<1>5. CASE \/ WantsResume \/ NoExtract \/ OutWaits \/ OutWakes \/ OutEnds
           \/ WriteSilence /\ SilenceWritten
           \/ Start \/ Delete \/ SetAsync \/ UNCHANGED vars
    <2>1. UNCHANGED <<device, played, bufs, frame, streamPos>>
        BY <1>5 DEF WantsResume, NoExtract, OutWaits, OutWakes, OutEnds, Start,
                    WriteSilence, Delete, SetAsync, vars, queueVars, audioVars
    <2> QED
        BY <1>2, <2>1
<1>6. CASE \/ Play \/ OutReads \/ WriteFrame \/ ReadFrames \/ SeekTime
           \/ WriteSilence /\ ~SilenceWritten
    BY <1>6, PlayLine, OutReadsLine, WriteFrameLine, ReadFramesLine, SeekLine,
       SilenceLine
<1> QED
    BY <1>3, <1>4, <1>5, <1>6 DEF Next, AudioThread, OutThread, User

LEMMA ContinuousKept ==
    ASSUME IInv, [Next]_vars
    PROVE  /\ Continuous'
           /\ played' \in 0 .. End /\ played' <= streamPos'
<1>1. NowLine'
    BY NowLineKept
<1>2. /\ SoundsOf(device') \o FlattenSeq(bufs') \o frame'
             = Run(played', streamPos')
      /\ played' \in Nat /\ streamPos' \in Nat /\ played' <= streamPos'
    BY <1>1, Zenon DEF NowLine, Line
<1>3. Continuous'
    BY <1>2, Zenon DEF Continuous, QueuedUnits, Run
<1>4. streamPos' <= End /\ End \in Nat
    BY TimesKept, SizeAssumption
<1> QED
    BY <1>2, <1>3, <1>4

(***************************************************************************)
(* The time is set to the unit that is being heard, less the silence that  *)
(* the card has, which it counts as sound.                                 *)
(***************************************************************************)
LEMMA TimerFacts ==
    ASSUME IInv, OutReads, updateTimer, held
    PROVE  realpos' = NotBelow0(played' + Len(SoundsOf(device'))
                                        - Len(device') - async)
<1> DEFINE s == Len(SoundsOf(device'))
           d == Len(device')
<1>1. realpos' = NotBelow0(streamTime - bufSize' - d - async)
    BY DEF updateTimer
<1>2. /\ streamPos' = streamPos /\ frame' = frame
      /\ streamTime = streamPos - Len(frame)
    BY DEF OutReads, audioVars, IInv, TimeInv
<1>3. [Next]_vars
    BY DEF Next, OutThread
<1>4. Line(SoundsOf(device'), FlattenSeq(bufs'), frame', played', streamPos')
    BY <1>3, NowLineKept DEF NowLine
<1>5. s + Len(FlattenSeq(bufs')) + Len(frame') = streamPos' - played'
    BY <1>4, LineLength
<1>6. bufSize' = Len(FlattenSeq(bufs'))
    BY <1>3, QueueKept DEF SizeExact, QueuedUnits
<1>7. /\ s \in Nat /\ d \in Nat /\ Len(frame') \in Nat /\ bufSize' \in Nat
      /\ played' \in Nat /\ streamPos' \in Nat
    <2>1. /\ SoundsOf(device') \in Seq(Unit) /\ FlattenSeq(bufs') \in Seq(Unit)
          /\ frame' \in Seq(Unit) /\ played' \in Nat /\ streamPos' \in Nat
        BY <1>4 DEF Line
    <2>2. device' \in Seq(Unit)
        BY <1>3, DeviceKept
    <2> QED
        BY <1>6, <2>1, <2>2
<1> HIDE DEF s, d
<1>8. streamTime - bufSize' - d - async = played' + s - d - async
    <2>1. async \in Int
        BY SizeAssumption DEF IInv, TypeOK
    <2> QED
        BY <1>2, <1>5, <1>6, <1>7, <2>1
<1> QED
    BY <1>1, <1>8 DEF s, d

LEMMA RealposKept ==
    ASSUME IInv, [Next]_vars
    PROVE  realpos' \in Nat /\ async' \in Asyncs
<1>1. realpos \in Nat /\ async \in Asyncs /\ async \in Int
    BY SizeAssumption DEF IInv, TypeOK
<1>2. async' \in Asyncs
    BY <1>1 DEF Next, AudioThread, OutThread, User, vars, AudioPauses, WantsResume,
                AudioResumes, ReadFrames, WriteFrame, NoExtract, PauseAtEnd,
                OutWaits, OutWakes, OutReads, WriteSilence, OutEnds, Play, Start,
                UserPauses, UserPlays, SeekTime, SetAsync, Delete, Join, stateVars
<1>3. CASE OutReads /\ updateTimer /\ held
    <2>1. realpos' = NotBelow0(streamTime - bufSize' - Len(device') - async)
        BY <1>3 DEF updateTimer
    <2>2. streamTime \in Int /\ bufSize' \in Nat /\ Len(device') \in Nat
        <3>1. bufSize' = Len(FlattenSeq(bufs'))
            BY QueueKept DEF SizeExact, QueuedUnits
        <3>2. FlattenSeq(bufs') \in Seq(Sound) /\ device' \in Seq(Unit)
            BY QueueKept, FlattenType, DeviceKept
        <3> QED
            BY <3>1, <3>2 DEF IInv, TypeOK
    <2> DEFINE d == Len(device')
    <2>3. realpos' = NotBelow0(streamTime - bufSize' - d - async) /\ d \in Nat
        BY <2>1, <2>2
    <2> HIDE DEF d
    <2> DEFINE n == streamTime - bufSize' - d - async
    <2>4. n \in Int /\ realpos' = NotBelow0(n)
        BY <1>1, <2>2, <2>3
    <2> HIDE DEF n
    <2>5. NotBelow0(n) \in Nat
        BY <2>4 DEF NotBelow0
    <2> QED
        BY <1>2, <2>4, <2>5
<1>4. CASE SeekTime
    <2>1. realpos' \in 0 .. End
        BY <1>4, SeekFacts
    <2> QED
        BY <1>2, <2>1
<1>5. CASE ~(OutReads /\ updateTimer /\ held) /\ ~SeekTime
    <2>1. realpos' = realpos
        BY <1>5
        DEF Next, AudioThread, OutThread, User, vars, AudioPauses, WantsResume,
            AudioResumes, ReadFrames, WriteFrame, NoExtract, PauseAtEnd,
            OutWaits, OutWakes, OutReads, WriteSilence, OutEnds, Play, Start,
            UserPauses, UserPlays, SetAsync, Delete, Join, timeVars, updateTimer
    <2> QED
        BY <1>1, <1>2, <2>1
<1> QED
    BY <1>3, <1>4, <1>5

-----------------------------------------------------------------------------
LEMMA Inductive == IInv /\ [Next]_vars => IInv'
<1> SUFFICES ASSUME IInv, [Next]_vars PROVE IInv'
    OBVIOUS
<1>1. TypeOK'
    BY ThreadsKept, BooleansKept, TimesKept, RealposKept, ContinuousKept,
       QueueKept, DeviceKept, Zenon
    DEF TypeOK
<1>2. DataInv'
    BY QueueKept, DeviceKept, ContinuousKept, Zenon DEF DataInv
<1> QED
    BY <1>1, <1>2, QueueKept, ContinuousKept, RoomKept, ThreadsKept, FreshKept,
       TimesKept, SilenceKept, Zenon
    DEF IInv

LEMMA Invariant == Spec => []IInv
    BY InitHolds, Inductive, PTL DEF Spec

(***************************************************************************)
(* The state has its types: the queue never has more than its chunks, the  *)
(* card never more than it holds, the positions are in the stream, and the *)
(* clock is never set below 0, whatever the correction.                    *)
(***************************************************************************)
THEOREM TypeCorrect == Spec => []TypeOK
<1>1. IInv => TypeOK
    BY DEF IInv
<1> QED
    BY <1>1, Invariant, PTL

(***************************************************************************)
(* m_uiBufSize is the number of units in the queue: Read takes from it     *)
(* what it returned, and no more (AudioQueue.cpp, lines 190 and 232).      *)
(***************************************************************************)
THEOREM SizeCorrect == Spec => []SizeExact
<1>1. IInv => SizeExact
    BY DEF IInv
<1> QED
    BY <1>1, Invariant, PTL

(***************************************************************************)
(* No sound is lost, doubled or out of order between the stream and the    *)
(* card, at any sizes (OssAudioRenderer.cpp, lines 201 to 262).            *)
(***************************************************************************)
THEOREM SoundContinuous == Spec => []Continuous
<1>1. IInv => Continuous
    BY DEF IInv
<1> QED
    BY <1>1, Invariant, PTL

(***************************************************************************)
(* The clock is set to the unit that is being heard less the correction,   *)
(* and not below 0, unless the card has silence to play before it          *)
(* (updateTimer, IAudioRenderer.cpp, lines 284 to 292).                    *)
(***************************************************************************)
THEOREM TimerCorrect == Spec => TimerTrue
<1>1. ASSUME IInv, [Next]_vars, held, ~held',
             Len(SoundsOf(device')) = Len(device')
      PROVE  realpos' = NotBelow0(played' - async)
    <2>1. OutReads /\ updateTimer
        <3>1. ASSUME NEW state, Pause(state) PROVE held'
            BY <1>1, <3>1, Zenon DEF Pause
        <3> QED
            BY <1>1, <3>1
            DEF Next, AudioThread, OutThread, User, vars, AudioPauses,
                WantsResume, AudioResumes, ReadFrames, WriteFrame, NoExtract,
                PauseAtEnd, OutWaits, OutWakes, OutReads, WriteSilence, OutEnds,
                Play, Start, UserPauses, UserPlays, SeekTime, SetAsync, Delete,
                Join, timeVars
    <2> DEFINE s == Len(SoundsOf(device'))
               d == Len(device')
               p == played'
    <2>2. realpos' = NotBelow0(p + s - d - async)
        BY <1>1, <2>1, TimerFacts
    <2>3. s = d /\ p \in Nat /\ d \in Nat /\ async \in Int
        <3>1. device' \in Seq(Unit)
            BY <1>1, DeviceKept
        <3>2. async \in Int
            BY <1>1, SizeAssumption DEF IInv, TypeOK
        <3> QED
            BY <1>1, <3>1, <3>2, ContinuousKept
    <2> HIDE DEF s, d, p
    <2>4. p + s - d - async = p - async
        BY <2>3
    <2> QED
        BY <2>2, <2>4 DEF p
<1>2. IInv /\ [Next]_vars
         => [held /\ ~held' /\ Len(SoundsOf(device')) = Len(device')
                => realpos' = NotBelow0(played' - async)]_vars
    BY <1>1
<1> QED
    BY <1>2, Invariant, PTL DEF Spec, TimerTrue

(***************************************************************************)
(* When the silence is written, the card holds no more sound than it is    *)
(* larger than the silence, for any size of the card and of the silence    *)
(* (OssAudioRenderer.cpp, lines 237 to 254).                               *)
(***************************************************************************)
THEOREM SilenceCorrect == Spec => SilenceFlushes
<1>1. ASSUME IInv, [Next]_vars, out = "silence", out' = "run"
      PROVE  Len(SoundsOf(device')) <= NotBelow0(DeviceSize - SilenceSize)
    <2>1. WriteSilence /\ SilenceWritten
        BY <1>1
        DEF Next, AudioThread, OutThread, User, vars, AudioPauses, WantsResume,
            AudioResumes, ReadFrames, WriteFrame, NoExtract, PauseAtEnd,
            OutWaits, OutWakes, OutReads, WriteSilence, OutEnds, Play, Start,
            UserPauses, UserPlays, SeekTime, SetAsync, Delete, Join, outVars,
            MutexFree
    <2>2. device' = device /\ silence = 0
        BY <2>1 DEF WriteSilence, SilenceWritten
    <2>3. /\ device \in Seq(Unit) /\ Len(device) \in Nat
          /\ Len(device) <= DeviceSize /\ DeviceSize \in Nat
          /\ SilenceSize \in Nat
        BY <1>1, SizeAssumption DEF IInv, TypeOK, DataInv
    <2> DEFINE k == NotBelow0(Len(device) - SilenceSize)
    <2>4. /\ k \in 0 .. Len(device) /\ k <= NotBelow0(DeviceSize - SilenceSize)
          /\ k >= Len(device) - SilenceSize
        BY <2>3 DEF NotBelow0
    <2> HIDE DEF k
    <2>5. \A i \in k + 1 .. Len(device) : device[i] = 0
        <3> TAKE i \in k + 1 .. Len(device)
        <3>1. i \in 1 .. Len(device) /\ i > Len(device) - (SilenceSize - silence)
            BY <2>2, <2>3, <2>4
        <3> QED
            BY <1>1, <3>1 DEF IInv, SilenceInv
    <2>6. Len(SoundsOf(device)) <= k /\ Len(SoundsOf(device)) \in Nat
        BY <2>3, <2>4, <2>5, SoundsBefore
    <2>7. NotBelow0(DeviceSize - SilenceSize) \in Nat /\ k \in Nat
        BY <2>3, <2>4 DEF NotBelow0
    <2> QED
        BY <2>2, <2>4, <2>6, <2>7
<1>2. IInv /\ [Next]_vars
         => [out = "silence" /\ out' = "run"
                => Len(SoundsOf(device')) <= NotBelow0(DeviceSize - SilenceSize)]_vars
    BY <1>1
<1> QED
    BY <1>2, Invariant, PTL DEF Spec, SilenceFlushes
=============================================================================

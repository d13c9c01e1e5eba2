--------------------------- MODULE Telemetry_proofs ---------------------------
(***************************************************************************)
(* Theorems about Telemetry, for logs of any length, chunks and dumps of   *)
(* any size, on a network that may lose, reorder and duplicate.            *)
(***************************************************************************)
EXTENDS Telemetry, TLAPS, WellFoundedInduction, FiniteSetTheorems, SequenceTheorems

--------------------------------------------------------------------------------
(* Induction.  The induction theorems of the library take a predicate, which *)
(* the provers cannot be given; here the predicate is a set.  They follow    *)
(* from the well-foundedness of < on the naturals.                           *)

LEMMA LeastNumber ==
    ASSUME NEW T, T \subseteq Nat, T # {}
    PROVE  \E x \in T : \A y \in T : x <= y
<1> DEFINE less == OpToRel(<, Nat)
<1>1. IsWellFoundedOn(less, Nat)
  BY NatLessThanWellFounded
<1>2. \A x, y \in Nat : x < y => <<x, y>> \in less
  BY DEF OpToRel
<1> HIDE DEF less
<1>3. \E x \in T : \A y \in T : ~(<<y, x>> \in less)
  BY <1>1, WFMin
<1>4. PICK x \in T : \A y \in T : ~(<<y, x>> \in less)
  BY <1>3
<1>5. \A y \in T : ~(y < x)
  BY <1>2, <1>4
<1>6. QED
  BY <1>5

LEMMA NumbersBySuccessor ==
    ASSUME NEW P, 0 \in P, \A n \in Nat : n \in P => n + 1 \in P
    PROVE  Nat \subseteq P
<1> DEFINE T == Nat \ P
<1>1. SUFFICES ASSUME T # {} PROVE FALSE
  OBVIOUS
<1>2. PICK x \in T : \A y \in T : x <= y
  <2>1. T \subseteq Nat
    OBVIOUS
  <2> HIDE DEF T
  <2>2. QED
    BY <1>1, <2>1, LeastNumber
<1>3. x \in Nat /\ x \notin P /\ x # 0
  OBVIOUS
<1>4. x - 1 \in Nat /\ x - 1 < x
  BY <1>3
<1>5. x - 1 \in P
  BY <1>2, <1>3, <1>4
<1>6. QED
  BY <1>3, <1>4, <1>5

LEMMA SequencesByAppend ==
    ASSUME NEW S, NEW P, <<>> \in P,
           \A s \in Seq(S), c \in S : s \in P => Append(s, c) \in P
    PROVE  Seq(S) \subseteq P
<1> DEFINE N == {n \in Nat : \A s \in Seq(S) : Len(s) = n => s \in P}
<1>1. 0 \in N
  OBVIOUS
<1>2. ASSUME NEW n \in Nat, n \in N PROVE n + 1 \in N
  <2> SUFFICES ASSUME NEW s \in Seq(S), Len(s) = n + 1 PROVE s \in P
    OBVIOUS
  <2> DEFINE front == SubSeq(s, 1, n)
  <2>1. front \in Seq(S) /\ Len(front) = n /\ s[n + 1] \in S
    OBVIOUS
  <2>2. s = Append(front, s[n + 1])
    OBVIOUS
  <2>3. front \in P
    BY <1>2, <2>1
  <2> HIDE DEF front
  <2>4. QED
    BY <2>1, <2>2, <2>3
<1>3. Nat \subseteq N
  <2> HIDE DEF N
  <2> QED
    BY <1>1, <1>2, NumbersBySuccessor
<1>4. QED
  BY <1>3

LEMMA GreatestNumber ==
    ASSUME NEW n \in Nat, NEW T, T \subseteq 0 .. n, T # {}
    PROVE  \E x \in T : \A y \in T : y <= x
<1> DEFINE U == {n - x : x \in T}
<1>1. U \subseteq Nat /\ U # {}
  <2>1. \A x \in T : n - x \in Nat
    OBVIOUS
  <2>2. QED
    BY <2>1
<1>2. PICK u \in U : \A v \in U : u <= v
  <2> HIDE DEF U
  <2> QED
    BY <1>1, LeastNumber
<1>3. PICK x \in T : u = n - x
  OBVIOUS
<1>4. ASSUME NEW y \in T PROVE y <= x
  <2>1. n - y \in U
    OBVIOUS
  <2>2. n - x <= n - y
    BY <1>2, <1>3, <2>1
  <2>3. x \in Int /\ y \in Int
    OBVIOUS
  <2>4. QED
    BY <2>2, <2>3
<1>5. QED
  BY <1>4

LEMMA JoinedLength ==
    ASSUME NEW S, NEW s \in Seq(S), NEW t \in Seq(S)
    PROVE  s \o t \in Seq(S) /\ Len(s \o t) = Len(s) + Len(t)
OBVIOUS

LEMMA JoinedAt ==
    ASSUME NEW S, NEW s \in Seq(S), NEW t \in Seq(S)
    PROVE  /\ s \o t \in Seq(S) /\ Len(s) \in Nat /\ Len(t) \in Nat
           /\ Len(s \o t) = Len(s) + Len(t)
           /\ \A i \in 1 .. Len(s) : (s \o t)[i] = s[i]
           /\ \A i \in 1 .. Len(t) : (s \o t)[Len(s) + i] = t[i]
           /\ \A i \in 1 .. Len(s) + Len(t) :
                 \/ i \in 1 .. Len(s)
                 \/ i - Len(s) \in 1 .. Len(t) /\ (s \o t)[i] = t[i - Len(s)]
OBVIOUS

LEMMA JoinedFront ==
    ASSUME NEW S, NEW s \in Seq(S), NEW t \in Seq(S), NEW i \in 1 .. Len(s)
    PROVE  (s \o t)[i] = s[i]
OBVIOUS

LEMMA JoinedBack ==
    ASSUME NEW S, NEW s \in Seq(S), NEW t \in Seq(S),
           NEW i \in 1 .. Len(s) + Len(t), i \notin 1 .. Len(s)
    PROVE  i - Len(s) \in 1 .. Len(t) /\ (s \o t)[i] = t[i - Len(s)]
OBVIOUS

Associates(S) == \A u, v, x \in Seq(S) : (u \o v) \o x = u \o (v \o x)

LEMMA JoinAssociative == \A S : Associates(S)
BY ConcatAssociative DEF Associates

--------------------------------------------------------------------------------
(* The loop over the characters of a dump.                                  *)

Before == [from |-> 0, out |-> <<>>]

IsLoop(acc, s, n) ==
    acc = [i \in 0 .. n |-> IF i = 0 THEN Before ELSE Decode(acc[i - 1], s[i])]

LEMMA LoopExists ==
    ASSUME NEW s, NEW n \in Nat
    PROVE  \E acc : IsLoop(acc, s, n)
<1> DEFINE N == {k \in Nat : \E acc : IsLoop(acc, s, k)}
<1>1. 0 \in N
  <2> DEFINE acc == [i \in 0 .. 0 |-> Before]
  <2>1. IsLoop(acc, s, 0)
    BY DEF IsLoop
  <2>2. QED
    BY <2>1
<1>2. ASSUME NEW k \in Nat, k \in N PROVE k + 1 \in N
  <2>1. PICK acc : IsLoop(acc, s, k)
    BY <1>2
  <2> DEFINE longer == [i \in 0 .. k + 1 |->
                           IF i = k + 1 THEN Decode(acc[k], s[k + 1]) ELSE acc[i]]
  <2>2. ASSUME NEW i \in 0 .. k + 1
        PROVE  longer[i] = IF i = 0 THEN Before ELSE Decode(longer[i - 1], s[i])
    <3>1. CASE i = 0
      BY <2>1, <3>1 DEF IsLoop
    <3>2. CASE i \in 1 .. k
      <4>1. /\ i \in 0 .. k /\ i - 1 \in 0 .. k /\ i - 1 \in 0 .. k + 1
            /\ i # 0 /\ i # k + 1 /\ i - 1 # k + 1
        BY <3>2
      <4>2. longer[i] = acc[i] /\ longer[i - 1] = acc[i - 1]
        BY <4>1
      <4>3. acc[i] = Decode(acc[i - 1], s[i])
        BY <2>1, <4>1 DEF IsLoop
      <4>4. QED
        BY <4>1, <4>2, <4>3
    <3>3. CASE i = k + 1
      BY <3>3
    <3>4. QED
      BY <3>1, <3>2, <3>3
  <2>3. longer = [i \in 0 .. k + 1 |->
                     IF i = 0 THEN Before ELSE Decode(longer[i - 1], s[i])]
    BY <2>2, Zenon
  <2>4. IsLoop(longer, s, k + 1)
    BY <2>3 DEF IsLoop
  <2>5. QED
    BY <2>4
<1>3. Nat \subseteq N
  <2> HIDE DEF N
  <2> QED
    BY <1>1, <1>2, NumbersBySuccessor
<1>4. QED
  BY <1>3

LEMMA LoopUnique ==
    ASSUME NEW s, NEW t, NEW m \in Nat, NEW n \in Nat, NEW g, NEW h,
           IsLoop(g, s, m), IsLoop(h, t, n), m <= n,
           \A i \in 1 .. m : s[i] = t[i]
    PROVE  g[m] = h[m]
<1> DEFINE N == {k \in Nat : k <= m => g[k] = h[k]}
<1>1. 0 \in N
  BY DEF IsLoop
<1>2. ASSUME NEW k \in Nat, k \in N PROVE k + 1 \in N
  <2> SUFFICES ASSUME k + 1 <= m PROVE g[k + 1] = h[k + 1]
    OBVIOUS
  <2>1. g[k] = h[k] /\ s[k + 1] = t[k + 1]
    BY <1>2
  <2>2. /\ k + 1 \in 0 .. m /\ k + 1 \in 0 .. n
        /\ k + 1 # 0 /\ (k + 1) - 1 = k
    OBVIOUS
  <2>3. g[k + 1] = Decode(g[(k + 1) - 1], s[k + 1])
    BY <2>2, Zenon DEF IsLoop
  <2>4. h[k + 1] = Decode(h[(k + 1) - 1], t[k + 1])
    BY <2>2, Zenon DEF IsLoop
  <2>5. QED
    BY <2>1, <2>2, <2>3, <2>4, Zenon
<1>3. Nat \subseteq N
  <2> HIDE DEF N
  <2> QED
    BY <1>1, <1>2, NumbersBySuccessor
<1>4. QED
  BY <1>3

LEMMA DecodeAllIsLoop ==
    ASSUME NEW S, NEW s \in Seq(S), NEW acc, IsLoop(acc, s, Len(s))
    PROVE  DecodeAll(s) = acc[Len(s)]
<1> DEFINE chosen == CHOOSE a : IsLoop(a, s, Len(s))
<1>1. DecodeAll(s) = chosen[Len(s)]
  BY DEF DecodeAll, IsLoop, Before
<1>2. IsLoop(chosen, s, Len(s))
  BY Zenon
<1> HIDE DEF chosen
<1>3. Len(s) \in Nat
  OBVIOUS
<1>4. chosen[Len(s)] = acc[Len(s)]
  BY <1>2, <1>3, LoopUnique
<1>5. QED
  BY <1>1, <1>4

LEMMA DecodeNothing == DecodeAll(<<>>) = Before
<1>1. PICK acc : IsLoop(acc, <<>>, 0)
  BY LoopExists
<1>2. <<>> \in Seq(Nat) /\ Len(<<>>) = 0
  OBVIOUS
<1>3. DecodeAll(<<>>) = acc[0]
  BY <1>1, <1>2, DecodeAllIsLoop
<1>4. QED
  BY <1>1, <1>3 DEF IsLoop

LEMMA DecodeOneMore ==
    ASSUME NEW S, NEW s \in Seq(S), NEW c \in S
    PROVE  DecodeAll(Append(s, c)) = Decode(DecodeAll(s), c)
<1> DEFINE t == Append(s, c)
           n == Len(s)
<1>1. /\ n \in Nat /\ n + 1 \in Nat
      /\ t \in Seq(S) /\ Len(t) = n + 1 /\ t[n + 1] = c
      /\ \A i \in 1 .. n : s[i] = t[i]
  OBVIOUS
<1> HIDE DEF t, n
<1>2. PICK h : IsLoop(h, t, n + 1)
  BY <1>1, LoopExists
<1>3. PICK g : IsLoop(g, s, n)
  BY <1>1, LoopExists
<1>4. DecodeAll(t) = h[n + 1]
  BY <1>1, <1>2, DecodeAllIsLoop
<1>5. DecodeAll(s) = g[n]
  BY <1>3, DecodeAllIsLoop DEF n
<1>6. n <= n + 1
  BY <1>1
<1>7. g[n] = h[n]
  BY <1>1, <1>2, <1>3, <1>6, LoopUnique
<1>8. n + 1 \in 0 .. n + 1 /\ n + 1 # 0 /\ (n + 1) - 1 = n
  BY <1>1
<1>9. h[n + 1] = Decode(h[(n + 1) - 1], t[n + 1])
  BY <1>2, <1>8, Zenon DEF IsLoop
<1>10. QED
  BY <1>1, <1>4, <1>5, <1>7, <1>8, <1>9 DEF t

--------------------------------------------------------------------------------
(* Types.                                                                   *)

\* Cells of the lines 1, ..., w, lines put together from them, and what the loop
\* over such cells carries.
CellsTo(w) == {Hole} \cup [line : 1 .. w, part : {"head", "tail"}]
LinesTo(w) == (1 .. w) \X (1 .. w)
AccTo(w)   == [from : 0 .. w, out : Seq(LinesTo(w))]
ChunkOf(S) == {c \in [data : Seq(S), last : BOOLEAN] : Len(c.data) <= ChunkSize}

LEMMA DecodeType ==
    ASSUME NEW w \in Nat, NEW acc \in AccTo(w), NEW c \in CellsTo(w)
    PROVE  Decode(acc, c) \in AccTo(w)
<1>1. acc.from \in 0 .. w /\ acc.out \in Seq(LinesTo(w))
  BY DEF AccTo
<1>2. CASE c = Hole
  <2>1. c.part = "nul"
    BY <1>2 DEF Hole
  <2>2. QED
    BY <2>1 DEF Decode
<1>3. CASE c.part = "head" /\ c.line \in 1 .. w
  BY <1>1, <1>3 DEF Decode, AccTo
<1>4. CASE c.part = "tail" /\ c.line \in 1 .. w
  <2> DEFINE out == IF acc.from = 0 THEN acc.out
                                    ELSE Append(acc.out, Line(acc.from, c.line))
  <2>1. Decode(acc, c) = [from |-> 0, out |-> out]
    BY <1>4 DEF Decode
  <2>2. CASE acc.from = 0
    BY <1>1, <2>1, <2>2 DEF AccTo
  <2>3. CASE acc.from # 0
    <3>1. Line(acc.from, c.line) \in LinesTo(w)
      BY <1>1, <1>4, <2>3 DEF Line, LinesTo
    <3>2. out \in Seq(LinesTo(w))
      BY <1>1, <2>3, <3>1
    <3>3. QED
      BY <2>1, <3>2 DEF AccTo
  <2>4. QED
    BY <2>2, <2>3
<1>5. QED
  BY <1>2, <1>3, <1>4 DEF CellsTo

LEMMA DecodeAllType ==
    ASSUME NEW w \in Nat, NEW s \in Seq(CellsTo(w))
    PROVE  DecodeAll(s) \in AccTo(w)
<1> DEFINE P == {t \in Seq(CellsTo(w)) : DecodeAll(t) \in AccTo(w)}
<1>1. <<>> \in P
  <2>1. <<>> \in Seq(LinesTo(w)) /\ 0 \in 0 .. w
    OBVIOUS
  <2>2. Before \in AccTo(w)
    BY <2>1 DEF Before, AccTo
  <2>3. QED
    BY <2>2, DecodeNothing
<1>2. ASSUME NEW t \in Seq(CellsTo(w)), NEW c \in CellsTo(w), t \in P
      PROVE  Append(t, c) \in P
  BY <1>2, DecodeOneMore, DecodeType
<1>3. Seq(CellsTo(w)) \subseteq P
  <2> HIDE DEF P
  <2> QED
    BY <1>1, <1>2, SequencesByAppend
<1>4. QED
  BY <1>3

LEMMA LinesType ==
    ASSUME NEW w \in Nat, NEW s \in Seq(CellsTo(w))
    PROVE  LinesOf(s) \in Seq(LinesTo(w))
BY DecodeAllType DEF LinesOf, AccTo

\* A later line changes nothing about the earlier ones.
LEMMA TypesGrow ==
    ASSUME NEW v \in Nat, NEW w \in Nat, v <= w
    PROVE  /\ CellsTo(v) \subseteq CellsTo(w)
           /\ Seq(CellsTo(v)) \subseteq Seq(CellsTo(w))
           /\ Seq(LinesTo(v)) \subseteq Seq(LinesTo(w))
           /\ Seq(ChunkOf(CellsTo(v))) \subseteq Seq(ChunkOf(CellsTo(w)))
<1>1. 1 .. v \subseteq 1 .. w
  OBVIOUS
<1>2. CellsTo(v) \subseteq CellsTo(w) /\ LinesTo(v) \subseteq LinesTo(w)
  BY <1>1 DEF CellsTo, LinesTo
<1>3. Seq(CellsTo(v)) \subseteq Seq(CellsTo(w))
  BY <1>2
<1>4. ChunkOf(CellsTo(v)) \subseteq ChunkOf(CellsTo(w))
  BY <1>3 DEF ChunkOf
<1>5. QED
  BY <1>2, <1>3, <1>4

LEMMA RemovedType ==
    ASSUME NEW S, NEW s \in Seq(S), NEW i \in DOMAIN s
    PROVE  RemoveAt(s, i) \in Seq(S)
BY DEF RemoveAt

--------------------------------------------------------------------------------
(* Where chunks begin and end.                                              *)

\* Chunk i starts where chunk i - 1 ends, and neither is longer than ChunkSize.
LEMMA ChunkBounds ==
    ASSUME NEW i \in Nat, NEW j \in Nat, i < j
    PROVE  /\ i * ChunkSize \in Nat /\ (j - 1) * ChunkSize \in Nat
           /\ j * ChunkSize = (j - 1) * ChunkSize + ChunkSize
           /\ i * ChunkSize <= (j - 1) * ChunkSize
<1>1. ChunkSize \in Nat \ {0}
  BY TelemetryAssumption
<1>2. j - 1 - i \in Nat /\ j - 1 \in Nat
  OBVIOUS
<1>3. (j - 1 - i) * ChunkSize \in Nat
  BY <1>1, <1>2
<1>4. (j - 1) * ChunkSize = i * ChunkSize + (j - 1 - i) * ChunkSize
  BY <1>1, <1>2
<1>5. j * ChunkSize = (j - 1) * ChunkSize + ChunkSize
  BY <1>1, <1>2
<1>6. i * ChunkSize \in Nat /\ (j - 1) * ChunkSize \in Nat
  BY <1>1, <1>2
<1>7. QED
  BY <1>3, <1>4, <1>5, <1>6

LEMMA Quotient ==
    ASSUME NEW n \in Nat
    PROVE  /\ n \div ChunkSize \in Nat
           /\ (n \div ChunkSize) * ChunkSize \in Nat
           /\ (n \div ChunkSize) * ChunkSize <= n
           /\ n < (n \div ChunkSize + 1) * ChunkSize
<1>1. ChunkSize \in Nat \ {0}
  BY TelemetryAssumption
<1>2. QED
  BY <1>1

\* How many chunks are made of n cells.
ChunkCount(n) == Least(MAX_FILE_CHUNKS, n \div ChunkSize + 1)

LEMMA ChunkCountType ==
    ASSUME NEW n \in Nat
    PROVE  /\ ChunkCount(n) \in Nat \ {0}
           /\ ChunkCount(n) <= n \div ChunkSize + 1
BY Quotient, TelemetryAssumption DEF ChunkCount, Least

LEMMA ChunkStarts ==
    ASSUME NEW n \in Nat, NEW i \in 1 .. ChunkCount(n)
    PROVE  /\ (i - 1) * ChunkSize \in Nat /\ i * ChunkSize \in Nat
           /\ (i - 1) * ChunkSize <= n
           /\ i * ChunkSize = (i - 1) * ChunkSize + ChunkSize
<1> DEFINE q == n \div ChunkSize
<1>1. q \in Nat /\ q * ChunkSize <= n /\ ChunkSize \in Nat
  BY Quotient, TelemetryAssumption
<1>2. i \in Nat /\ i - 1 \in Nat /\ i - 1 <= q
  BY <1>1, ChunkCountType
<1> HIDE DEF q
<1>3. q + 1 \in Nat /\ i - 1 < q + 1 /\ (q + 1) - 1 = q
  BY <1>1, <1>2
<1>4. (i - 1) * ChunkSize \in Nat /\ (i - 1) * ChunkSize <= q * ChunkSize
  BY <1>2, <1>3, ChunkBounds
<1>5. i - 1 < i
  BY <1>2
<1>6. i * ChunkSize = (i - 1) * ChunkSize + ChunkSize
  BY <1>2, <1>5, ChunkBounds
<1>7. q * ChunkSize \in Nat
  BY <1>1
<1>8. QED
  BY <1>1, <1>4, <1>6, <1>7

LEMMA ChunksAre ==
    ASSUME NEW S, NEW s \in Seq(S)
    PROVE  /\ Chunks(s) \in Seq(ChunkOf(S))
           /\ Len(Chunks(s)) = ChunkCount(Len(s))
           /\ \A i \in 1 .. ChunkCount(Len(s)) :
                 /\ Chunks(s)[i].data = SubSeq(s, (i - 1) * ChunkSize + 1,
                                                  Least(i * ChunkSize, Len(s)))
                 /\ Chunks(s)[i].last <=> i * ChunkSize > Len(s)
<1> DEFINE n == ChunkCount(Len(s))
           piece(i) == SubSeq(s, (i - 1) * ChunkSize + 1, Least(i * ChunkSize, Len(s)))
           chunk(i) == [data |-> piece(i), last |-> i * ChunkSize > Len(s)]
<1>1. Len(s) \in Nat /\ n \in Nat
  BY ChunkCountType
<1>2. Chunks(s) = [i \in 1 .. n |-> chunk(i)]
  BY DEF Chunks, ChunkCount
<1>3. ASSUME NEW i \in 1 .. n
      PROVE  chunk(i) \in ChunkOf(S)
  <2> DEFINE a == (i - 1) * ChunkSize
             b == Least(i * ChunkSize, Len(s))
  <2>1. a \in Nat /\ i * ChunkSize \in Nat /\ i * ChunkSize = a + ChunkSize
    BY <1>1, ChunkStarts
  <2>2. ChunkSize \in Nat
    BY TelemetryAssumption
  <2>3. b \in Nat /\ b <= Len(s) /\ b <= a + ChunkSize
    BY <1>1, <2>1 DEF Least
  <2>4. piece(i) = SubSeq(s, a + 1, b) /\ (i * ChunkSize > Len(s)) \in BOOLEAN
    OBVIOUS
  <2> HIDE DEF a, b
  <2>5. SubSeq(s, a + 1, b) \in Seq(S) /\ Len(SubSeq(s, a + 1, b)) <= ChunkSize
    BY <1>1, <2>1, <2>2, <2>3
  <2>6. QED
    BY <2>4, <2>5 DEF ChunkOf
<1> HIDE DEF chunk, n
<1>4. Chunks(s) \in Seq(ChunkOf(S)) /\ Len(Chunks(s)) = n
  BY <1>1, <1>2, <1>3
<1>5. \A i \in 1 .. n : Chunks(s)[i] = chunk(i)
  BY <1>2
<1>6. \A i \in 1 .. n : /\ Chunks(s)[i].data = piece(i)
                        /\ Chunks(s)[i].last <=> i * ChunkSize > Len(s)
  <2> HIDE DEF piece
  <2>1. \A i : chunk(i).data = piece(i) /\ (chunk(i).last <=> i * ChunkSize > Len(s))
    BY DEF chunk
  <2>2. QED
    BY <1>5, <2>1, Zenon
<1>7. QED
  BY <1>4, <1>6, Zenon DEF n

--------------------------------------------------------------------------------
(* The type invariant, with what makes it inductive: sequences of cells and  *)
(* chunks, and a stream that stands behind what is in the file.              *)

FileType ==
    /\ written \in Nat /\ written <= MaxLines
    /\ pos \in Nat
    /\ file \in Seq(CellsTo(written))
    /\ Len(file) <= pos

SenderType ==
    /\ sender \in {"idle", "reading", "read", "sending"}
    /\ data \in Seq(CellsTo(written))
    /\ chunks \in Seq(ChunkOf(CellsTo(written)))
    /\ waiting \in BOOLEAN /\ clearing \in BOOLEAN

NetType ==
    /\ net \in Seq(ChunkOf(CellsTo(written)))
    /\ acks \in 0 .. MaxAcks
    /\ overtaken \in BOOLEAN /\ duplicates \in 0 .. MaxDuplicates
    /\ ~Unreliable => ~overtaken /\ duplicates = 0

GroundType ==
    /\ buffer \in Seq(CellsTo(written))
    /\ stored \in Seq(LinesTo(written))
    /\ taken \in Seq(LinesTo(written))
    /\ shown \in 0 .. written
    /\ packets \in Nat

TypeInv == FileType /\ SenderType /\ NetType /\ GroundType

LEMMA TypeInvInit == Init => TypeInv
<1> SUFFICES ASSUME Init PROVE TypeInv
  OBVIOUS
<1>1. FileType
  BY TelemetryAssumption DEF Init, FileType
<1>2. SenderType
  <2>1. \A T : <<>> \in Seq(T)
    OBVIOUS
  <2>2. chunks \in Seq(ChunkOf(CellsTo(written))) /\ data \in Seq(CellsTo(written))
    BY <2>1 DEF Init
  <2>3. sender = "idle" /\ waiting \in BOOLEAN /\ clearing \in BOOLEAN
    BY DEF Init
  <2>4. QED
    BY <2>2, <2>3 DEF SenderType
<1>3. NetType
  <2>1. \A T : <<>> \in Seq(T)
    OBVIOUS
  <2>2. net \in Seq(ChunkOf(CellsTo(written)))
    BY <2>1 DEF Init
  <2>3. acks \in 0 .. MaxAcks /\ duplicates = 0 /\ duplicates \in 0 .. MaxDuplicates
    BY TelemetryAssumption DEF Init
  <2>4. ~overtaken /\ overtaken \in BOOLEAN
    BY DEF Init
  <2>5. QED
    BY <2>2, <2>3, <2>4, Zenon DEF NetType
<1>4. GroundType
  BY DEF Init, GroundType
<1>5. QED
  BY <1>1, <1>2, <1>3, <1>4 DEF TypeInv

LEMMA LineIsCells ==
    ASSUME NEW n \in Nat \ {0}
    PROVE  CellsOf(n) \in Seq(CellsTo(n)) /\ Len(CellsOf(n)) = 2
<1>1. LineHead(n) \in CellsTo(n) /\ LineTail(n) \in CellsTo(n)
  BY DEF LineHead, LineTail, CellsTo
<1>2. QED
  BY <1>1 DEF CellsOf

LEMMA HolesAreCells ==
    ASSUME NEW n \in Nat, NEW w \in Nat
    PROVE  /\ [i \in 1 .. n |-> Hole] \in Seq(CellsTo(w))
           /\ Len([i \in 1 .. n |-> Hole]) = n
<1>1. Hole \in CellsTo(w)
  BY DEF CellsTo
<1>2. QED
  BY <1>1

\* A stream that stands behind the file appends, after a hole.
LEMMA WrittenBehind ==
    ASSUME NEW w \in Nat, NEW s \in Seq(CellsTo(w)), NEW t \in Seq(CellsTo(w)),
           NEW at \in Nat, Len(s) <= at, Len(t) # 0
    PROVE  WriteAt(s, at, t) = (s \o [i \in 1 .. at - Len(s) |-> Hole]) \o t
<1> DEFINE S    == CellsTo(w)
           gap  == at - Len(s)
           nuls == [i \in 1 .. gap |-> Hole]
           padded == s \o nuls
           left  == WriteAt(s, at, t)
           right == padded \o t
           n     == at + Len(t)
<1>1. Len(s) \in Nat /\ Len(t) \in Nat /\ gap \in Nat /\ Len(s) + gap = at /\ n \in Nat
  OBVIOUS
<1>2. nuls \in Seq(S) /\ Len(nuls) = gap /\ \A i \in 1 .. gap : nuls[i] = Hole
  BY <1>1, HolesAreCells
<1> HIDE DEF S, nuls, gap
<1>3. /\ padded \in Seq(S) /\ Len(padded) = at
      /\ \A i \in 1 .. Len(s) : padded[i] = s[i]
      /\ \A i \in 1 .. at : i \in 1 .. Len(s) \/ padded[i] = Hole
  <2>1. s \in Seq(S) /\ nuls \in Seq(S)
    BY <1>2 DEF S
  <2>2. padded \in Seq(S) /\ Len(padded) = at
    BY <1>1, <1>2, <2>1, JoinedAt
  <2>3. \A i \in 1 .. Len(s) : padded[i] = s[i]
    BY <2>1, JoinedAt
  <2>4. ASSUME NEW i \in 1 .. at, i \notin 1 .. Len(s) PROVE padded[i] = Hole
    <3>1. i \in 1 .. Len(s) + Len(nuls)
      BY <1>1, <1>2
    <3>2. i - Len(s) \in 1 .. Len(nuls) /\ padded[i] = nuls[i - Len(s)]
      BY <2>1, <2>4, <3>1, JoinedBack
    <3>3. QED
      BY <1>2, <3>2
  <2>5. QED
    BY <2>2, <2>3, <2>4
<1> HIDE DEF padded
<1>4. /\ right \in Seq(S) /\ Len(right) = n
      /\ \A i \in 1 .. at : right[i] = padded[i]
      /\ \A i \in 1 .. Len(t) : right[at + i] = t[i]
  <2>1. padded \in Seq(S) /\ t \in Seq(S)
    BY <1>3 DEF S
  <2>2. /\ right \in Seq(S) /\ Len(right) = Len(padded) + Len(t)
        /\ \A i \in 1 .. Len(padded) : right[i] = padded[i]
        /\ \A i \in 1 .. Len(t) : right[Len(padded) + i] = t[i]
    BY <2>1, JoinedAt
  <2> HIDE DEF right
  <2>3. QED
    BY <1>3, <2>2
<1>5. right = [i \in 1 .. n |-> right[i]]
  <2> HIDE DEF right
  <2>1. QED
    BY <1>4
<1> HIDE DEF right
<1>6. left = [i \in 1 .. n |-> IF i \in at + 1 .. n
                                THEN t[i - at]
                                ELSE IF i <= Len(s) THEN s[i] ELSE Hole]
  <2>1. (IF at + Len(t) > Len(s) THEN at + Len(t) ELSE Len(s)) = n
    BY <1>1
  <2>2. QED
    BY <2>1 DEF WriteAt
<1>7. ASSUME NEW i \in 1 .. n
      PROVE  right[i] = IF i \in at + 1 .. n
                          THEN t[i - at]
                          ELSE IF i <= Len(s) THEN s[i] ELSE Hole
  <2>1. CASE i \in at + 1 .. n
    <3>1. i - at \in 1 .. Len(t) /\ at + (i - at) = i
      BY <1>1, <2>1
    <3>2. QED
      BY <1>4, <2>1, <3>1
  <2>2. CASE i \notin at + 1 .. n
    <3>1. i \in 1 .. at
      BY <1>1, <2>2
    <3>2. i <= Len(s) <=> i \in 1 .. Len(s)
      BY <1>1, <3>1
    <3>3. QED
      BY <1>3, <1>4, <2>2, <3>1, <3>2
  <2>3. QED
    BY <2>1, <2>2
<1>8. left = right
  BY <1>5, <1>6, <1>7, Zenon
<1>9. QED
  BY <1>8, Zenon DEF right, padded, nuls, gap

LEMMA WriteAppends ==
    ASSUME FileType, Write
    PROVE  file' = (file \o [i \in 1 .. pos - Len(file) |-> Hole]) \o CellsOf(written + 1)
<1>1. written \in Nat /\ written + 1 \in Nat \ {0} /\ written <= written + 1
  BY DEF FileType
<1>2. CellsOf(written + 1) \in Seq(CellsTo(written + 1)) /\ Len(CellsOf(written + 1)) # 0
  <2>1. CellsOf(written + 1) \in Seq(CellsTo(written + 1)) /\ Len(CellsOf(written + 1)) = 2
    BY <1>1, LineIsCells
  <2>2. QED
    BY <2>1
<1>3. file \in Seq(CellsTo(written + 1)) /\ pos \in Nat /\ Len(file) <= pos
  BY <1>1, TypesGrow DEF FileType
<1>4. file' = WriteAt(file, pos, CellsOf(written + 1))
  BY DEF Write
<1>5. QED
  BY <1>1, <1>2, <1>3, <1>4, WrittenBehind

\* A line that is written ends where the logger's stream then stands.
LEMMA WriteFills ==
    ASSUME FileType, Write
    PROVE  FileType' /\ Len(file') = pos'
<1> DEFINE w == written + 1
           gap  == pos - Len(file)
           nuls == [i \in 1 .. gap |-> Hole]
           text == CellsOf(w)
<1>1. /\ gap \in Nat /\ written \in Nat /\ w \in Nat \ {0} /\ written <= w
      /\ w <= MaxLines
  BY TelemetryAssumption DEF FileType, Write
<1>2. nuls \in Seq(CellsTo(w)) /\ Len(nuls) = gap
  BY <1>1, HolesAreCells
<1>3. text \in Seq(CellsTo(w)) /\ Len(text) = 2
  BY <1>1, LineIsCells
<1>4. file' = (file \o nuls) \o text /\ pos' = pos + 2 /\ written' = w
  BY WriteAppends DEF Write
<1>5. Len(file) \in Nat /\ gap = pos - Len(file) /\ pos \in Nat
  BY DEF FileType
<1>6. file \in Seq(CellsTo(w))
  BY <1>1, TypesGrow DEF FileType
<1> HIDE DEF gap, nuls, text, w
<1>7. file \o nuls \in Seq(CellsTo(w)) /\ Len(file \o nuls) = Len(file) + gap
  BY <1>2, <1>6, JoinedLength
<1>8. file' \in Seq(CellsTo(w)) /\ Len(file') = Len(file) + gap + 2
  <2> DEFINE padded == file \o nuls
  <2>1. padded \in Seq(CellsTo(w)) /\ file' = padded \o text
    BY <1>4, <1>7
  <2> HIDE DEF padded
  <2>2. file' \in Seq(CellsTo(w)) /\ Len(file') = Len(padded) + Len(text)
    BY <1>3, <2>1, JoinedLength
  <2>3. QED
    BY <1>3, <1>7, <2>2 DEF padded
<1>9. Len(file') = pos' /\ pos' \in Nat
  BY <1>4, <1>5, <1>8
<1>10. QED
  BY <1>1, <1>4, <1>8, <1>9 DEF FileType

LEMMA WriteTypes ==
    ASSUME TypeInv, Write
    PROVE  TypeInv'
<1>1. FileType'
  BY WriteFills DEF TypeInv
<1>2. written \in Nat /\ written' = written + 1 /\ written' \in Nat /\ written <= written'
  BY DEF TypeInv, FileType, Write
<1>3. /\ Seq(CellsTo(written)) \subseteq Seq(CellsTo(written'))
      /\ Seq(LinesTo(written)) \subseteq Seq(LinesTo(written'))
      /\ Seq(ChunkOf(CellsTo(written))) \subseteq Seq(ChunkOf(CellsTo(written')))
  BY <1>2, TypesGrow
<1>4. UNCHANGED <<sender, data, chunks, waiting, clearing, net, acks, gcVars, taken,
                  overtaken, duplicates>>
  BY DEF Write, history
<1>5. SenderType'
  BY <1>3, <1>4 DEF TypeInv, SenderType
<1>6. NetType'
  BY <1>3, <1>4 DEF TypeInv, NetType
<1>7. GroundType'
  <2>1. shown' \in 0 .. written'
    BY <1>2, <1>4 DEF TypeInv, GroundType, gcVars
  <2>2. QED
    BY <1>3, <1>4, <2>1 DEF TypeInv, GroundType, gcVars
<1>8. QED
  BY <1>1, <1>5, <1>6, <1>7 DEF TypeInv

\* createDataDump goes on where it stopped, and not beyond the end of the file.
LEMMA BlockRead ==
    ASSUME FileType, SenderType, ReadBlock
    PROVE  \E end \in Nat :
              /\ end <= Len(file)
              /\ data' = data \o SubSeq(file, Len(data) + 1, end)
              /\ sender' \in {"read", sender}
<1> DEFINE upTo == Least(Len(data) + BlockSize, DumpLimit)
           end  == Least(Len(file), upTo)
<1>1. Len(data) \in Nat /\ Len(file) \in Nat /\ DumpLimit \in Nat
  BY TelemetryAssumption DEF SenderType, FileType, DumpLimit
<1>2. Len(data) + BlockSize \in Nat
  BY <1>1, TelemetryAssumption
<1>3. upTo \in Nat
  BY <1>1, <1>2 DEF Least
<1>4. /\ data' = data \o SubSeq(file, Len(data) + 1, end)
      /\ sender' \in {"read", sender}
  BY Zenon DEF ReadBlock
<1> HIDE DEF upTo
<1>5. end \in Nat /\ end <= Len(file)
  BY <1>1, <1>3 DEF Least
<1>6. QED
  BY <1>4, <1>5

LEMMA SenderTypes ==
    ASSUME TypeInv, BeginDump \/ ReadBlock \/ Truncate \/ FinishDump \/ HearAnswer
                    \/ ClearFile
    PROVE  TypeInv'
<1>1. written' = written /\ UNCHANGED <<net, gcVars, overtaken, duplicates>>
  BY DEF BeginDump, ReadBlock, Truncate, FinishDump, HearAnswer, ClearFile, history
<1>2. FileType'
  <2>1. UNCHANGED <<file, pos>> \/ (file' = <<>> /\ pos' = pos) \/ (file' = <<>> /\ pos' = 0)
    BY DEF BeginDump, ReadBlock, Truncate, FinishDump, HearAnswer, ClearFile
  <2>2. CASE UNCHANGED <<file, pos>>
    BY <1>1, <2>2 DEF TypeInv, FileType
  <2>3. CASE file' = <<>> /\ pos' \in {pos, 0}
    <3>1. pos' \in Nat /\ file' \in Seq(CellsTo(written)) /\ Len(file') = 0
      BY <2>3 DEF TypeInv, FileType
    <3>2. QED
      BY <1>1, <3>1 DEF TypeInv, FileType
  <2>4. QED
    BY <2>1, <2>2, <2>3
<1>3. NetType'
  <2>1. acks' = acks \/ (acks > 0 /\ acks' = acks - 1)
    BY DEF BeginDump, ReadBlock, Truncate, FinishDump, HearAnswer, ClearFile
  <2>2. QED
    BY <1>1, <2>1, TelemetryAssumption DEF TypeInv, NetType
<1>4. SenderType'
  <2>1. CASE BeginDump \/ FinishDump \/ HearAnswer \/ ClearFile
    <3>1. /\ data' \in {data, <<>>} /\ chunks' = chunks
          /\ sender' \in {sender, "reading", "idle"}
          /\ waiting' \in {waiting, TRUE, FALSE} /\ clearing' \in {clearing, waiting, FALSE}
      BY <2>1 DEF BeginDump, FinishDump, HearAnswer, ClearFile
    <3>2. data' \in Seq(CellsTo(written))
      <4>1. data \in Seq(CellsTo(written)) /\ <<>> \in Seq(CellsTo(written))
        BY DEF TypeInv, SenderType
      <4>2. QED
        BY <3>1, <4>1
    <3>3. QED
      BY <1>1, <3>1, <3>2 DEF TypeInv, SenderType
  <2>2. CASE ReadBlock
    <3>1. PICK end \in Nat :
              /\ end <= Len(file)
              /\ data' = data \o SubSeq(file, Len(data) + 1, end)
              /\ sender' \in {"read", sender}
      BY <2>2, BlockRead DEF TypeInv
    <3> DEFINE more == SubSeq(file, Len(data) + 1, end)
    <3>2. more \in Seq(CellsTo(written))
      BY <3>1 DEF TypeInv, FileType, SenderType
    <3>3. UNCHANGED <<chunks, waiting, clearing>>
      BY <2>2 DEF ReadBlock
    <3> HIDE DEF more
    <3>4. data' \in Seq(CellsTo(written))
      BY <3>1, <3>2, JoinedAt DEF TypeInv, SenderType, more
    <3>5. QED
      BY <1>1, <3>1, <3>3, <3>4 DEF TypeInv, SenderType
  <2>3. CASE Truncate
    <3>1. chunks' \in Seq(ChunkOf(CellsTo(written)))
      BY <2>3, ChunksAre DEF Truncate, TypeInv, SenderType
    <3>2. QED
      BY <1>1, <2>3, <3>1 DEF Truncate, TypeInv, SenderType
  <2>4. QED
    BY <2>1, <2>2, <2>3
<1>5. GroundType'
  <2>1. taken' = taken \/ taken' = taken \o LinesOf(data)
    BY DEF BeginDump, ReadBlock, Truncate, FinishDump, HearAnswer, ClearFile, history
  <2>2. LinesOf(data) \in Seq(LinesTo(written))
    BY LinesType DEF TypeInv, FileType, SenderType
  <2>3. taken' \in Seq(LinesTo(written))
    <3>1. taken \in Seq(LinesTo(written))
      BY DEF TypeInv, GroundType
    <3>2. taken \o LinesOf(data) \in Seq(LinesTo(written))
      BY <2>2, <3>1, JoinedLength
    <3>3. QED
      BY <2>1, <3>1, <3>2
  <2>4. QED
    BY <1>1, <2>3 DEF TypeInv, GroundType, gcVars
<1>6. QED
  BY <1>2, <1>3, <1>4, <1>5 DEF TypeInv

LEMMA HeadAndTail ==
    ASSUME NEW S, NEW s \in Seq(S), s # <<>>
    PROVE  /\ Head(s) \in S /\ Tail(s) \in Seq(S)
           /\ Len(s) \in Nat \ {0} /\ Len(Tail(s)) = Len(s) - 1 /\ s[1] = Head(s)
           /\ \A i \in 1 .. Len(s) - 1 : Tail(s)[i] = s[i + 1]
OBVIOUS

LEMMA ChunkParts ==
    ASSUME NEW S, NEW c \in ChunkOf(S)
    PROVE  c.data \in Seq(S) /\ Len(c.data) <= ChunkSize /\ c.last \in BOOLEAN
BY DEF ChunkOf

\* A sequence with two neighbours exchanged.
Swapped(s, i) == [s EXCEPT ![i] = s[i + 1], ![i + 1] = s[i]]

LEMMA SwappedAt ==
    ASSUME NEW S, NEW s \in Seq(S), NEW i \in 1 .. Len(s) - 1
    PROVE  /\ Swapped(s, i) \in Seq(S) /\ DOMAIN Swapped(s, i) = DOMAIN s
           /\ DOMAIN s \subseteq Nat /\ i \in Nat
           /\ i \in DOMAIN s /\ i + 1 \in DOMAIN s
           /\ \A k \in DOMAIN s : Swapped(s, i)[k] = IF k = i THEN s[i + 1]
                                                    ELSE IF k = i + 1 THEN s[i]
                                                    ELSE s[k]
<1>1. i \in DOMAIN s /\ i + 1 \in DOMAIN s /\ s[i] \in S /\ s[i + 1] \in S /\ i # i + 1
      /\ DOMAIN s \subseteq Nat /\ i \in Nat
  OBVIOUS
<1>2. QED
  BY <1>1 DEF Swapped

LEMMA NetworkTypes ==
    ASSUME TypeInv,
           Send \/ OtherAnswer \/ LoseChunk \/ Overtake \/ Duplicate \/ LoseAnswer
    PROVE  TypeInv'
<1>1. written' = written /\ UNCHANGED <<file, pos, sender, data, waiting, clearing, gcVars, taken>>
  BY DEF Send, OtherAnswer, LoseChunk, Overtake, Duplicate, LoseAnswer, satVars, history
<1>2. FileType' /\ GroundType'
  BY <1>1 DEF TypeInv, FileType, GroundType, gcVars
<1>3. chunks \in Seq(ChunkOf(CellsTo(written))) /\ net \in Seq(ChunkOf(CellsTo(written)))
  BY DEF TypeInv, SenderType, NetType
<1>4. chunks' \in Seq(ChunkOf(CellsTo(written))) /\ net' \in Seq(ChunkOf(CellsTo(written)))
  <2>1. CASE Send
    <3>1. /\ chunks # <<>> /\ chunks' = Tail(chunks)
          /\ net' = Append(net, Head(chunks)) \/ net' = net
      BY <2>1 DEF Send
    <3>2. Head(chunks) \in ChunkOf(CellsTo(written)) /\ chunks' \in Seq(ChunkOf(CellsTo(written)))
      BY <1>3, <3>1, HeadAndTail
    <3>3. Append(net, Head(chunks)) \in Seq(ChunkOf(CellsTo(written)))
      <4> DEFINE T == ChunkOf(CellsTo(written))
      <4>1. net \in Seq(T) /\ Head(chunks) \in T
        BY <1>3, <3>2
      <4> HIDE DEF T
      <4>2. \A c \in T : Append(net, c) \in Seq(T)
        BY <4>1
      <4>3. QED
        BY <4>1, <4>2 DEF T
    <3>4. QED
      BY <1>3, <3>1, <3>2, <3>3, Zenon
  <2>2. CASE LoseChunk
    BY <1>3, <2>2, RemovedType DEF LoseChunk, satVars
  <2>3. CASE OtherAnswer \/ LoseAnswer
    BY <1>3, <2>3 DEF OtherAnswer, LoseAnswer, satVars
  <2>4. CASE Overtake
    <3>1. chunks' = chunks /\ \E i \in 1 .. Len(net) - 1 : net' = Swapped(net, i)
      BY <2>4 DEF Overtake, Swapped, satVars
    <3>2. QED
      BY <1>3, <3>1, SwappedAt
  <2>5. CASE Duplicate
    <3>1. chunks' = chunks /\ \E i \in DOMAIN net : net' = Append(net, net[i])
      BY <2>5 DEF Duplicate, satVars
    <3> DEFINE T == ChunkOf(CellsTo(written))
    <3>2. net \in Seq(T) /\ \A i \in DOMAIN net : net[i] \in T
      BY <1>3
    <3> HIDE DEF T
    <3>3. \A c \in T : Append(net, c) \in Seq(T)
      BY <3>2
    <3>4. net' \in Seq(T)
      BY <3>1, <3>2, <3>3
    <3>5. QED
      BY <1>3, <3>1, <3>4 DEF T
  <2>6. QED
    BY <2>1, <2>2, <2>3, <2>4, <2>5
<1>5. acks' \in 0 .. MaxAcks
  <2>1. acks' = acks \/ acks' = 1 \/ (acks > 0 /\ acks' = acks - 1)
    BY DEF Send, OtherAnswer, LoseChunk, Overtake, Duplicate, LoseAnswer
  <2>2. QED
    BY <2>1, TelemetryAssumption DEF TypeInv, NetType
<1>6. /\ overtaken' \in BOOLEAN /\ duplicates' \in 0 .. MaxDuplicates
      /\ ~Unreliable => ~overtaken' /\ duplicates' = 0
  <2>1. /\ overtaken \in BOOLEAN /\ duplicates \in 0 .. MaxDuplicates
        /\ ~Unreliable => ~overtaken /\ duplicates = 0
    BY DEF TypeInv, NetType
  <2>2. CASE Overtake
    BY <2>1, <2>2 DEF Overtake
  <2>3. CASE Duplicate
    BY <2>1, <2>3, TelemetryAssumption DEF Duplicate
  <2>4. CASE UNCHANGED <<overtaken, duplicates>>
    BY <2>1, <2>4
  <2>5. QED
    BY <2>2, <2>3, <2>4 DEF Send, OtherAnswer, LoseChunk, LoseAnswer, history
<1>7. QED
  BY <1>1, <1>2, <1>4, <1>5, <1>6 DEF TypeInv, SenderType, NetType

\* A table entry is about one of the lines of the dump.
LEMMA LastPosition ==
    ASSUME NEW S, NEW lines \in Seq(S)
    PROVE  /\ Cardinality(Positions(lines)) \in Nat
           /\ Cardinality(Positions(lines)) <= Len(lines)
           /\ Positions(lines) # {} =>
                 /\ Max(Positions(lines)) \in Positions(lines)
                 /\ \A i \in Positions(lines) : i <= Max(Positions(lines))
<1> DEFINE ps == Positions(lines)
           n  == Len(lines)
<1>1. n \in Nat /\ ps \subseteq 1 .. n
  BY DEF Positions
<1>2. IsFiniteSet(1 .. n) /\ Cardinality(1 .. n) = n
  <2>1. 1 \in Int /\ n \in Int /\ (1 > n => n = 0) /\ n - 1 + 1 = n
    BY <1>1
  <2>2. Cardinality(1 .. n) = IF 1 > n THEN 0 ELSE n - 1 + 1
    BY <2>1, FS_Interval
  <2>3. QED
    BY <2>1, <2>2, FS_Interval
<1>3. Cardinality(ps) \in Nat /\ Cardinality(ps) <= n
  BY <1>1, <1>2, FS_Subset, FS_CardinalityType
<1>4. ASSUME ps # {}
      PROVE  Max(ps) \in ps /\ \A i \in ps : i <= Max(ps)
  <2> HIDE DEF ps
  <2>1. ps \subseteq 0 .. n
    BY <1>1
  <2>2. \E x \in ps : \A y \in ps : x >= y
    BY <1>1, <1>4, <2>1, GreatestNumber
  <2>3. Max(ps) \in ps /\ \A y \in ps : Max(ps) >= y
    BY <2>2 DEF Max
  <2>4. QED
    BY <1>1, <2>3
<1>5. QED
  BY <1>3, <1>4

LEMMA DisplayTypes ==
    ASSUME GroundType, written \in Nat, NEW lines \in Seq(LinesTo(written)), Display(lines)
    PROVE  /\ stored' \in Seq(LinesTo(written))
           /\ shown' \in 0 .. written
           /\ packets' \in Nat
<1>1. stored' \in Seq(LinesTo(written))
  BY DEF GroundType, Display
<1> DEFINE ps == Positions(lines)
<1>2. CASE ps = {}
  BY <1>1, <1>2 DEF GroundType, Display, UpdateTable
<1>3. CASE ps # {}
  <2>1. shown' = lines[Max(ps)][1] /\ packets' = packets + (Len(lines) - Cardinality(ps))
    BY <1>3 DEF Display, UpdateTable
  <2>2. Max(ps) \in DOMAIN lines
    BY <1>3, LastPosition DEF Positions
  <2>3. lines[Max(ps)] \in LinesTo(written)
    BY <2>2
  <2>4. shown' \in 1 .. written
    BY <2>1, <2>3 DEF LinesTo
  <2>5. Cardinality(ps) \in Nat /\ Cardinality(ps) <= Len(lines) /\ Len(lines) \in Nat
    BY LastPosition
  <2>6. packets' \in Nat
    BY <2>1, <2>5 DEF GroundType
  <2>7. QED
    BY <1>1, <2>4, <2>6
<1>4. QED
  BY <1>2, <1>3

LEMMA ReceiveTypes ==
    ASSUME TypeInv, ReceiveChunk
    PROVE  TypeInv'
<1> DEFINE whole == buffer \o Head(net).data
<1>1. /\ UNCHANGED <<satVars, taken, overtaken, duplicates>>
      /\ net # <<>> /\ net' = Tail(net) /\ acks < MaxAcks /\ acks' = acks + 1
  BY DEF ReceiveChunk, history
<1>2. FileType' /\ SenderType'
  BY <1>1 DEF TypeInv, FileType, SenderType, satVars
<1>3. written' = written /\ written \in Nat
  BY <1>1 DEF TypeInv, FileType, satVars
<1>4. Head(net) \in ChunkOf(CellsTo(written)) /\ net' \in Seq(ChunkOf(CellsTo(written)))
  BY <1>1, HeadAndTail DEF TypeInv, NetType
<1>5. NetType'
  BY <1>1, <1>3, <1>4, TelemetryAssumption DEF TypeInv, NetType
<1>6. whole \in Seq(CellsTo(written))
  BY <1>4, ChunkParts DEF TypeInv, GroundType
<1>7. \/ buffer' = <<>> /\ Display(LinesOf(whole))
      \/ buffer' = whole /\ UNCHANGED <<stored, shown, packets>>
  BY Zenon DEF ReceiveChunk
<1> HIDE DEF whole
<1>8. LinesOf(whole) \in Seq(LinesTo(written))
  BY <1>3, <1>6, LinesType
<1>9. GroundType'
  <2>1. buffer' \in Seq(CellsTo(written))
    <3>1. buffer' = <<>> \/ buffer' = whole
      BY <1>7
    <3>2. <<>> \in Seq(CellsTo(written))
      OBVIOUS
    <3>3. QED
      BY <1>6, <3>1, <3>2
  <2>2. stored' \in Seq(LinesTo(written)) /\ shown' \in 0 .. written /\ packets' \in Nat
    BY <1>3, <1>7, <1>8, DisplayTypes DEF TypeInv, GroundType
  <2>3. QED
    BY <1>1, <1>3, <2>1, <2>2 DEF TypeInv, GroundType
<1>10. QED
  BY <1>2, <1>5, <1>9 DEF TypeInv

LEMMA RestartTypes ==
    ASSUME TypeInv, Restart
    PROVE  TypeInv'
<1>1. /\ written' = written
      /\ UNCHANGED <<net, acks, gcVars, taken, overtaken, duplicates>>
      /\ file' = <<>> /\ pos' = 0 /\ sender' = "idle" /\ data' = <<>> /\ chunks' = <<>>
      /\ waiting' = FALSE /\ clearing' = FALSE
  BY DEF Restart, history
<1>2. file' \in Seq(CellsTo(written)) /\ Len(file') = 0
  BY <1>1
<1>3. FileType'
  BY <1>1, <1>2 DEF TypeInv, FileType
<1>4. SenderType'
  <2>1. data' \in Seq(CellsTo(written)) /\ chunks' \in Seq(ChunkOf(CellsTo(written)))
    BY <1>1
  <2>2. QED
    BY <1>1, <2>1 DEF SenderType
<1>5. NetType' /\ GroundType'
  BY <1>1 DEF TypeInv, NetType, GroundType, gcVars
<1>6. QED
  BY <1>3, <1>4, <1>5 DEF TypeInv

LEMMA TypeInvStep == TypeInv /\ [Next]_vars => TypeInv'
<1> SUFFICES ASSUME TypeInv, [Next]_vars PROVE TypeInv'
  OBVIOUS
<1>1. CASE Next
  BY <1>1, WriteTypes, SenderTypes, NetworkTypes, ReceiveTypes, RestartTypes DEF Next
<1>2. CASE UNCHANGED vars
  BY <1>2 DEF vars, satVars, gcVars, history, TypeInv, FileType, SenderType, NetType,
              GroundType
<1>3. QED
  BY <1>1, <1>2

LEMMA TypeInvHolds == Spec => []TypeInv
BY TypeInvInit, TypeInvStep, PTL DEF Spec

\* Every cell on its way belongs to a line that was logged or is a hole, no chunk
\* is longer than its array, and what is stored or shown is about lines that were
\* logged, however often the log is emptied and the satellite is restarted, and
\* whatever the network does.
THEOREM TelemetryTypeCorrect == Spec => []TypeOK
<1>1. TypeInv => TypeOK
  <2> SUFFICES ASSUME TypeInv PROVE TypeOK
    OBVIOUS
  <2>1. Cell = CellsTo(written)
    BY DEF Cell, CellsTo
  <2>2. \A s \in {file, data, buffer} : \A i \in DOMAIN s : s[i] \in Cell
    BY <2>1 DEF TypeInv, FileType, SenderType, GroundType
  <2>3. \A s \in {chunks, net} : \A i \in DOMAIN s : s[i] \in ChunkOf(CellsTo(written))
    BY DEF TypeInv, SenderType, NetType
  <2>4. \A s \in {chunks, net} : \A i \in DOMAIN s :
            Len(s[i].data) <= ChunkSize /\ s[i].last \in BOOLEAN
    BY <2>3, ChunkParts
  <2>5. \A i \in DOMAIN stored : stored[i] \in (1 .. written) \X (1 .. written)
    BY DEF TypeInv, GroundType, LinesTo
  <2>6. written \in 0 .. MaxLines /\ pos \in Nat
    BY TelemetryAssumption DEF TypeInv, FileType
  <2>7. QED
    BY <2>2, <2>4, <2>5, <2>6 DEF TypeOK, TypeInv, SenderType, NetType, GroundType
<1>2. QED
  BY <1>1, TypeInvHolds, PTL

\* Whoever empties the log, and through whichever stream: a cell that is in the file
\* stays as it is until the file is emptied.  The logger never stands inside it.
THEOREM LoggerOverwritesNothing == Spec => OverwritesNothing
<1> DEFINE Undamaged(f, g) == g = <<>> \/ \A i \in DOMAIN f : i \in DOMAIN g /\ g[i] = f[i]
<1>1. TypeInv /\ [Next]_vars => Undamaged(file, file')
  <2> SUFFICES ASSUME TypeInv, [Next]_vars PROVE Undamaged(file, file')
    OBVIOUS
  <2>1. CASE Write
    <3> DEFINE w    == written + 1
               nuls == [i \in 1 .. pos - Len(file) |-> Hole]
               text == CellsOf(w)
               padded == file \o nuls
    <3>1. /\ pos - Len(file) \in Nat /\ w \in Nat \ {0} /\ written \in Nat /\ written <= w
      BY DEF TypeInv, FileType
    <3>2. nuls \in Seq(CellsTo(w)) /\ text \in Seq(CellsTo(w)) /\ file \in Seq(CellsTo(w))
      BY <3>1, HolesAreCells, LineIsCells, TypesGrow DEF TypeInv, FileType
    <3>3. file' = padded \o text
      BY <2>1, WriteAppends DEF TypeInv
    <3> HIDE DEF nuls, text, w
    <3>4. /\ padded \in Seq(CellsTo(w)) /\ Len(padded) = Len(file) + Len(nuls)
          /\ Len(file) \in Nat /\ Len(nuls) \in Nat
          /\ \A i \in 1 .. Len(file) : padded[i] = file[i]
      BY <3>2, JoinedAt
    <3> HIDE DEF padded
    <3>5. /\ file' \in Seq(CellsTo(w)) /\ Len(file') = Len(padded) + Len(text)
          /\ Len(text) \in Nat
          /\ \A i \in 1 .. Len(padded) : file'[i] = padded[i]
      <4>1. /\ padded \o text \in Seq(CellsTo(w)) /\ Len(text) \in Nat
            /\ Len(padded \o text) = Len(padded) + Len(text)
            /\ \A i \in 1 .. Len(padded) : (padded \o text)[i] = padded[i]
        <5>1. padded \in Seq(CellsTo(w)) /\ text \in Seq(CellsTo(w))
          BY <3>2, <3>4
        <5>2. QED
          BY <5>1, JoinedAt
      <4>2. QED
        BY <3>3, <4>1
    <3>6. DOMAIN file = 1 .. Len(file) /\ DOMAIN file' = 1 .. Len(file')
      BY <3>2, <3>5
    <3>7. \A i \in 1 .. Len(file) : i \in 1 .. Len(padded) /\ i \in 1 .. Len(file')
      BY <3>4, <3>5
    <3>8. QED
      BY <3>4, <3>5, <3>6, <3>7
  <2>2. CASE Truncate \/ ClearFile \/ Restart
    BY <2>2 DEF Truncate, ClearFile, Restart
  <2>3. CASE UNCHANGED file
    BY <2>3
  <2>4. QED
    BY <2>1, <2>2, <2>3 DEF Next, BeginDump, ReadBlock, Send, FinishDump, ReceiveChunk,
       OtherAnswer, HearAnswer, LoseChunk, Overtake, Duplicate, LoseAnswer, satVars, vars
<1>2. QED
  BY <1>1, TypeInvHolds, PTL DEF Spec, OverwritesNothing

--------------------------------------------------------------------------------
(* The order of the lines.  Only the tails of lines matter: what ground      *)
(* control stores ends with a tail it has just taken off the network.  R is  *)
(* how two lines are related of which the first is further on its way: it    *)
(* was logged before the other (Earlier), or is at least not the same        *)
(* (Apart), which survives a network that changes the order.                 *)

Earlier == {p \in Nat \X Nat : p[1] < p[2]}
Apart   == {p \in Nat \X Nat : p[1] # p[2]}

\* What an R must satisfy: lines are logged in order.
Climbs(R) == \A a, b \in Nat : a < b => <<a, b>> \in R

LEMMA BothClimb == Climbs(Earlier) /\ Climbs(Apart)
BY DEF Climbs, Earlier, Apart

\* What it must satisfy where chunks overtake each other.
Symmetric(R) == \A a, b : <<a, b>> \in R => <<b, a>> \in R

LEMMA ApartSymmetric == Symmetric(Apart)
BY DEF Symmetric, Apart

Ends(s) == {s[i].line : i \in {j \in DOMAIN s : s[j].part = "tail"}}

Rising(R, s) == \A i, j \in DOMAIN s :
    i < j /\ s[i].part = "tail" /\ s[j].part = "tail" => <<s[i].line, s[j].line>> \in R

Below(R, A, B) == \A a \in A, b \in B : <<a, b>> \in R

EndsIn(cs) == UNION {Ends(cs[i].data) : i \in DOMAIN cs}

InOrder(R, cs) ==
    /\ \A i \in DOMAIN cs : Rising(R, cs[i].data)
    /\ \A i, j \in DOMAIN cs : i < j => Below(R, Ends(cs[i].data), Ends(cs[j].data))

LineEnds(ls)  == {ls[i][2] : i \in DOMAIN ls}
LinesRise(R, ls) == \A i, j \in DOMAIN ls : i < j => <<ls[i][2], ls[j][2]>> \in R

LEMMA EndsJoined ==
    ASSUME NEW S, NEW s \in Seq(S), NEW t \in Seq(S)
    PROVE  Ends(s \o t) = Ends(s) \cup Ends(t)
<1> DEFINE st == s \o t
           m  == Len(s)
           n  == Len(t)
<1>1. /\ DOMAIN s = 1 .. m /\ DOMAIN t = 1 .. n /\ DOMAIN st = 1 .. m + n
      /\ m \in Nat /\ n \in Nat
  BY JoinedAt
<1>2. \A i \in 1 .. m : st[i] = s[i] /\ i \in 1 .. m + n
  BY <1>1, JoinedAt
<1>3. \A i \in 1 .. n : st[m + i] = t[i] /\ m + i \in 1 .. m + n
  BY <1>1, JoinedAt
<1>4. \A i \in 1 .. m + n : i \in 1 .. m \/ (i - m \in 1 .. n /\ st[i] = t[i - m])
  BY JoinedAt
<1> HIDE DEF st, m, n
<1>5. Ends(st) \subseteq Ends(s) \cup Ends(t)
  <2> SUFFICES ASSUME NEW i \in DOMAIN st, st[i].part = "tail"
               PROVE  st[i].line \in Ends(s) \cup Ends(t)
    BY DEF Ends
  <2>1. CASE i \in 1 .. m
    BY <1>1, <1>2, <2>1 DEF Ends
  <2>2. CASE i - m \in 1 .. n /\ st[i] = t[i - m]
    BY <1>1, <2>2 DEF Ends
  <2>3. QED
    BY <1>1, <1>4, <2>1, <2>2
<1>6. Ends(s) \subseteq Ends(st)
  BY <1>1, <1>2 DEF Ends
<1>7. Ends(t) \subseteq Ends(st)
  BY <1>1, <1>3 DEF Ends
<1>8. QED
  BY <1>5, <1>6, <1>7 DEF st

LEMMA RisingJoined ==
    ASSUME NEW R, NEW S, NEW s \in Seq(S), NEW t \in Seq(S),
           Rising(R, s), Rising(R, t), Below(R, Ends(s), Ends(t))
    PROVE  Rising(R, s \o t)
<1> DEFINE st == s \o t
           m  == Len(s)
           n  == Len(t)
<1>1. /\ DOMAIN s = 1 .. m /\ DOMAIN t = 1 .. n /\ DOMAIN st = 1 .. m + n
      /\ m \in Nat /\ n \in Nat
  BY JoinedAt
<1>2. \A i \in 1 .. m : st[i] = s[i]
  BY JoinedAt
<1>3. \A i \in 1 .. m + n : i \in 1 .. m \/ (i - m \in 1 .. n /\ st[i] = t[i - m])
  BY JoinedAt
<1> HIDE DEF st, m, n
<1> SUFFICES ASSUME NEW i \in 1 .. m + n, NEW j \in 1 .. m + n, i < j,
                    st[i].part = "tail", st[j].part = "tail"
             PROVE  <<st[i].line, st[j].line>> \in R
  BY <1>1 DEF Rising, st
<1>4. CASE j \in 1 .. m
  <2>1. i \in 1 .. m
    BY <1>1, <1>4
  <2>2. QED
    BY <1>1, <1>2, <1>4, <2>1 DEF Rising
<1>5. CASE i \in 1 .. m /\ j \notin 1 .. m
  <2>1. st[i] = s[i] /\ j - m \in 1 .. n /\ st[j] = t[j - m]
    BY <1>2, <1>3, <1>5
  <2>2. s[i].line \in Ends(s) /\ t[j - m].line \in Ends(t)
    BY <1>1, <1>5, <2>1 DEF Ends
  <2>3. QED
    BY <2>1, <2>2 DEF Below
<1>6. CASE i \notin 1 .. m
  <2>1. j \notin 1 .. m
    BY <1>1, <1>6
  <2>2. /\ i - m \in 1 .. n /\ st[i] = t[i - m]
        /\ j - m \in 1 .. n /\ st[j] = t[j - m]
    BY <1>3, <1>6, <2>1
  <2>3. i - m < j - m
    BY <1>1
  <2>4. QED
    BY <1>1, <2>2, <2>3 DEF Rising
<1>7. QED
  BY <1>4, <1>5, <1>6

LEMMA PieceAt ==
    ASSUME NEW S, NEW s \in Seq(S), NEW a \in Nat, NEW b \in Nat, b <= Len(s)
    PROVE  /\ SubSeq(s, a + 1, b) \in Seq(S)
           /\ \A i \in DOMAIN SubSeq(s, a + 1, b) :
                 /\ a + i \in DOMAIN s /\ a + i <= b
                 /\ SubSeq(s, a + 1, b)[i] = s[a + i]
OBVIOUS

\* Part of a sequence, and where its tails come from.
LEMMA PieceEnds ==
    ASSUME NEW R, NEW S, NEW s \in Seq(S), NEW a \in Nat, NEW b \in Nat, b <= Len(s)
    PROVE  /\ Ends(SubSeq(s, a + 1, b)) \subseteq Ends(s)
           /\ \A e \in Ends(SubSeq(s, a + 1, b)) : \E i \in DOMAIN s :
                 a < i /\ i <= b /\ s[i].part = "tail" /\ s[i].line = e
           /\ Rising(R, s) => Rising(R, SubSeq(s, a + 1, b))
<1> DEFINE t == SubSeq(s, a + 1, b)
<1>1. \A i \in DOMAIN t : a + i \in DOMAIN s /\ a + i <= b /\ t[i] = s[a + i]
  BY PieceAt
<1>2. DOMAIN t \subseteq Nat \ {0}
  BY PieceAt
<1> HIDE DEF t
<1>3. ASSUME NEW e \in Ends(t)
      PROVE  \E i \in DOMAIN s :
                 a < i /\ i <= b /\ s[i].part = "tail" /\ s[i].line = e
  <2>1. PICK i \in DOMAIN t : t[i].part = "tail" /\ t[i].line = e
    BY DEF Ends
  <2>2. a < a + i
    BY <1>2
  <2>3. QED
    BY <1>1, <2>1, <2>2
<1>4. Ends(t) \subseteq Ends(s)
  BY <1>3 DEF Ends
<1>5. ASSUME Rising(R, s) PROVE Rising(R, t)
  <2> SUFFICES ASSUME NEW i \in DOMAIN t, NEW j \in DOMAIN t, i < j,
                      t[i].part = "tail", t[j].part = "tail"
               PROVE  <<t[i].line, t[j].line>> \in R
    BY DEF Rising
  <2>1. a + i < a + j
    BY <1>2
  <2>2. QED
    BY <1>1, <1>5, <2>1 DEF Rising
<1>6. QED
  BY <1>3, <1>4, <1>5 DEF t

\* What is cut into chunks stays in order.
LEMMA ChunksInOrder ==
    ASSUME NEW R, NEW S, NEW s \in Seq(S), Rising(R, s)
    PROVE  InOrder(R, Chunks(s)) /\ EndsIn(Chunks(s)) \subseteq Ends(s)
<1> DEFINE cs == Chunks(s)
           n  == ChunkCount(Len(s))
           a(i) == (i - 1) * ChunkSize
           b(i) == Least(i * ChunkSize, Len(s))
<1>1. /\ DOMAIN cs = 1 .. n /\ n \in Nat /\ Len(s) \in Nat
      /\ \A i \in 1 .. n : cs[i].data = SubSeq(s, a(i) + 1, b(i))
  <2>1. Len(s) \in Nat
    OBVIOUS
  <2>2. cs \in Seq(ChunkOf(S)) /\ Len(cs) = n
    BY ChunksAre
  <2>3. DOMAIN cs = 1 .. n
    BY <2>2
  <2>4. \A i \in 1 .. n : cs[i].data = SubSeq(s, a(i) + 1, b(i))
    BY ChunksAre
  <2>5. QED
    BY <2>1, <2>3, <2>4, ChunkCountType
<1>2. \A i \in 1 .. n : a(i) \in Nat /\ b(i) \in Nat /\ b(i) <= Len(s)
  BY <1>1, ChunkStarts DEF Least
<1>3. ASSUME NEW i \in 1 .. n, NEW j \in 1 .. n, i < j
      PROVE  b(i) <= a(j)
  <2>1. i * ChunkSize <= (j - 1) * ChunkSize /\ i * ChunkSize \in Nat
    BY <1>1, <1>3, ChunkBounds
  <2>2. b(i) <= i * ChunkSize
    BY <1>1, <2>1 DEF Least
  <2>3. QED
    BY <1>2, <2>1, <2>2
<1> HIDE DEF a, b, n, cs
<1>4. ASSUME NEW i \in 1 .. n
      PROVE  /\ Rising(R, cs[i].data) /\ Ends(cs[i].data) \subseteq Ends(s)
             /\ \A e \in Ends(cs[i].data) : \E k \in DOMAIN s :
                   a(i) < k /\ k <= b(i) /\ s[k].part = "tail" /\ s[k].line = e
  <2> DEFINE t == SubSeq(s, a(i) + 1, b(i))
  <2>1. cs[i].data = t
    BY <1>1
  <2>2. a(i) \in Nat /\ b(i) \in Nat /\ b(i) <= Len(s)
    BY <1>2
  <2>3. /\ Rising(R, t) /\ Ends(t) \subseteq Ends(s)
        /\ \A e \in Ends(t) : \E k \in DOMAIN s :
              a(i) < k /\ k <= b(i) /\ s[k].part = "tail" /\ s[k].line = e
    BY <2>2, PieceEnds
  <2> HIDE DEF t
  <2>4. QED
    BY <2>1, <2>3
<1>5. ASSUME NEW i \in 1 .. n, NEW j \in 1 .. n, i < j
      PROVE  Below(R, Ends(cs[i].data), Ends(cs[j].data))
  <2> SUFFICES ASSUME NEW e \in Ends(cs[i].data), NEW f \in Ends(cs[j].data)
               PROVE  <<e, f>> \in R
    BY DEF Below
  <2>1. PICK k \in DOMAIN s :
            a(i) < k /\ k <= b(i) /\ s[k].part = "tail" /\ s[k].line = e
    BY <1>4
  <2>2. PICK l \in DOMAIN s :
            a(j) < l /\ l <= b(j) /\ s[l].part = "tail" /\ s[l].line = f
    BY <1>4
  <2>3. k \in Nat /\ l \in Nat
    OBVIOUS
  <2>4. k < l
    BY <1>2, <1>3, <1>5, <2>1, <2>2, <2>3
  <2>5. QED
    BY <2>1, <2>2, <2>4 DEF Rising
<1>6. QED
  BY <1>1, <1>4, <1>5 DEF InOrder, EndsIn, cs

LEMMA AppendedAt ==
    ASSUME NEW S, NEW s \in Seq(S), NEW c \in S
    PROVE  /\ Append(s, c) \in Seq(S) /\ Len(s) \in Nat
           /\ DOMAIN s = 1 .. Len(s) /\ DOMAIN Append(s, c) = 1 .. Len(s) + 1
           /\ \A i \in 1 .. Len(s) : Append(s, c)[i] = s[i]
           /\ Append(s, c)[Len(s) + 1] = c
OBVIOUS

LEMMA RisingPrefix ==
    ASSUME NEW R, NEW S, NEW s \in Seq(S), NEW c \in S, Rising(R, Append(s, c))
    PROVE  /\ Rising(R, s)
           /\ Ends(s) \subseteq Ends(Append(s, c))
           /\ c.part = "tail" => /\ c.line \in Ends(Append(s, c))
                                 /\ \A e \in Ends(s) : <<e, c.line>> \in R
<1> DEFINE t == Append(s, c)
           n == Len(s)
<1>1. /\ n \in Nat /\ DOMAIN s = 1 .. n /\ DOMAIN t = 1 .. n + 1
      /\ t[n + 1] = c
      /\ \A i \in 1 .. n : t[i] = s[i] /\ i \in 1 .. n + 1
  BY AppendedAt
<1> HIDE DEF t, n
<1>2. Rising(R, t)
  BY DEF t
<1>3. Rising(R, s)
  BY <1>1, <1>2 DEF Rising
<1>4. Ends(s) \subseteq Ends(t)
  BY <1>1 DEF Ends
<1>5. n + 1 \in 1 .. n + 1 /\ \A i \in 1 .. n : i < n + 1
  BY <1>1
<1>6. ASSUME c.part = "tail"
      PROVE  c.line \in Ends(t) /\ \A e \in Ends(s) : <<e, c.line>> \in R
  <2>1. c.line \in Ends(t)
    BY <1>1, <1>5, <1>6 DEF Ends
  <2>2. ASSUME NEW e \in Ends(s) PROVE <<e, c.line>> \in R
    <3>1. PICK i \in 1 .. n : s[i].part = "tail" /\ s[i].line = e
      BY <1>1 DEF Ends
    <3>2. QED
      BY <1>1, <1>2, <1>5, <1>6, <3>1 DEF Rising
  <2>3. QED
    BY <2>1, <2>2
<1>7. QED
  BY <1>3, <1>4, <1>6 DEF t

LEMMA LinesRiseAppended ==
    ASSUME NEW R, NEW S, NEW ls \in Seq(S), NEW l \in S, LinesRise(R, ls),
           \A e \in LineEnds(ls) : <<e, l[2]>> \in R
    PROVE  LinesRise(R, Append(ls, l)) /\ LineEnds(Append(ls, l)) = LineEnds(ls) \cup {l[2]}
<1> DEFINE t == Append(ls, l)
           n == Len(ls)
<1>1. /\ n \in Nat /\ DOMAIN ls = 1 .. n /\ DOMAIN t = 1 .. n + 1
      /\ t[n + 1] = l
      /\ \A i \in 1 .. n : t[i] = ls[i] /\ i \in 1 .. n + 1
      /\ \A i \in 1 .. n + 1 : i \in 1 .. n \/ i = n + 1
      /\ \A i \in 1 .. n : ~(n + 1 < i)
      /\ ~(n + 1 < n + 1)
  BY AppendedAt
<1> HIDE DEF t, n
<1>2. LineEnds(t) = LineEnds(ls) \cup {l[2]}
  <2>1. n + 1 \in 1 .. n + 1
    BY <1>1
  <2>2. QED
    BY <1>1, <2>1 DEF LineEnds
<1>3. \A i \in 1 .. n : <<ls[i][2], l[2]>> \in R
  BY <1>1 DEF LineEnds
<1>4. LinesRise(R, t)
  BY <1>1, <1>3 DEF LinesRise
<1>5. QED
  BY <1>2, <1>4 DEF t

\* The loop keeps the order, and every line it makes ends with a tail of its input.
LEMMA LinesOfRising ==
    ASSUME NEW R, NEW w \in Nat, NEW s \in Seq(CellsTo(w)), Rising(R, s)
    PROVE  LinesRise(R, LinesOf(s)) /\ LineEnds(LinesOf(s)) \subseteq Ends(s)
<1> DEFINE Fine(t) == LinesRise(R, LinesOf(t)) /\ LineEnds(LinesOf(t)) \subseteq Ends(t)
           P == {t \in Seq(CellsTo(w)) : Rising(R, t) => Fine(t)}
<1>1. <<>> \in P
  <2>1. LinesOf(<<>>) = <<>>
    BY DecodeNothing DEF LinesOf, Before
  <2>2. QED
    BY <2>1 DEF LinesRise, LineEnds
<1>2. ASSUME NEW t \in Seq(CellsTo(w)), NEW c \in CellsTo(w), t \in P
      PROVE  Append(t, c) \in P
  <2> DEFINE u   == Append(t, c)
             acc == DecodeAll(t)
  <2>1. u \in Seq(CellsTo(w))
    OBVIOUS
  <2> SUFFICES ASSUME Rising(R, u) PROVE Fine(u)
    BY <2>1
  <2>2. /\ Rising(R, t) /\ Ends(t) \subseteq Ends(u)
        /\ c.part = "tail" => c.line \in Ends(u) /\ \A e \in Ends(t) : <<e, c.line>> \in R
    BY RisingPrefix
  <2>3. LinesRise(R, acc.out) /\ LineEnds(acc.out) \subseteq Ends(t)
    BY <1>2, <2>2 DEF LinesOf
  <2>4. LinesOf(u) = Decode(acc, c).out
    BY DecodeOneMore DEF LinesOf
  <2>5. acc.out \in Seq(LinesTo(w)) /\ acc \in AccTo(w)
    BY DecodeAllType DEF AccTo
  <2> HIDE DEF acc, u
  <2>6. CASE c.part # "tail" \/ acc.from = 0
    <3>1. c.part \in {"nul", "head", "tail"}
      BY DEF CellsTo, Hole
    <3>2. Decode(acc, c).out = acc.out
      BY <2>5, <2>6, <3>1 DEF Decode, AccTo
    <3>3. QED
      BY <2>2, <2>3, <2>4, <3>2
  <2>7. CASE c.part = "tail" /\ acc.from # 0
    <3> DEFINE l == Line(acc.from, c.line)
    <3>1. Decode(acc, c).out = Append(acc.out, l)
      BY <2>7 DEF Decode
    <3>2. l \in LinesTo(w) /\ l[2] = c.line
      <4>1. c.line \in 1 .. w
        BY <2>7 DEF CellsTo, Hole
      <4>2. QED
        BY <2>5, <2>7, <4>1 DEF Line, LinesTo, AccTo
    <3> HIDE DEF l
    <3>3. \A e \in LineEnds(acc.out) : <<e, l[2]>> \in R
      BY <2>2, <2>3, <2>7, <3>2
    <3>4. LinesRise(R, Append(acc.out, l)) /\ LineEnds(Append(acc.out, l)) = LineEnds(acc.out) \cup {l[2]}
      BY <2>3, <2>5, <3>2, <3>3, LinesRiseAppended
    <3>5. QED
      BY <2>2, <2>3, <2>4, <2>7, <3>1, <3>2, <3>4
  <2>8. QED
    BY <2>6, <2>7
<1>3. Seq(CellsTo(w)) \subseteq P
  <2> HIDE DEF P
  <2> QED
    BY <1>1, <1>2, SequencesByAppend
<1>4. QED
  BY <1>3

LEMMA LinesRiseJoined ==
    ASSUME NEW R, NEW S, NEW s \in Seq(S), NEW t \in Seq(S),
           LinesRise(R, s), LinesRise(R, t), Below(R, LineEnds(s), LineEnds(t))
    PROVE  LinesRise(R, s \o t) /\ LineEnds(s \o t) = LineEnds(s) \cup LineEnds(t)
<1> DEFINE st == s \o t
           m  == Len(s)
           n  == Len(t)
<1>1. /\ DOMAIN s = 1 .. m /\ DOMAIN t = 1 .. n /\ DOMAIN st = 1 .. m + n
      /\ m \in Nat /\ n \in Nat
  BY JoinedAt
<1>2. \A i \in 1 .. m : st[i] = s[i] /\ i \in 1 .. m + n
  BY <1>1, JoinedAt
<1>3. \A i \in 1 .. n : st[m + i] = t[i] /\ m + i \in 1 .. m + n
  BY <1>1, JoinedAt
<1>4. \A i \in 1 .. m + n : i \in 1 .. m \/ (i - m \in 1 .. n /\ st[i] = t[i - m])
  BY JoinedAt
<1> HIDE DEF st, m, n
<1>5. LineEnds(st) \subseteq LineEnds(s) \cup LineEnds(t)
  <2> SUFFICES ASSUME NEW i \in 1 .. m + n
               PROVE  st[i][2] \in LineEnds(s) \cup LineEnds(t)
    BY <1>1 DEF LineEnds
  <2>1. CASE i \in 1 .. m
    BY <1>1, <1>2, <2>1 DEF LineEnds
  <2>2. CASE i - m \in 1 .. n /\ st[i] = t[i - m]
    BY <1>1, <2>2 DEF LineEnds
  <2>3. QED
    BY <1>4, <2>1, <2>2
<1>6. LineEnds(s) \cup LineEnds(t) \subseteq LineEnds(st)
  <2>1. ASSUME NEW i \in 1 .. m PROVE s[i][2] \in LineEnds(st)
    <3>1. st[i] = s[i] /\ i \in DOMAIN st
      BY <1>1, <1>2
    <3>2. st[i][2] \in LineEnds(st)
      BY <3>1 DEF LineEnds
    <3>3. QED
      BY <3>1, <3>2
  <2>2. ASSUME NEW i \in 1 .. n PROVE t[i][2] \in LineEnds(st)
    <3>1. st[m + i] = t[i] /\ m + i \in DOMAIN st
      BY <1>1, <1>3
    <3>2. st[m + i][2] \in LineEnds(st)
      BY <3>1 DEF LineEnds
    <3>3. QED
      BY <3>1, <3>2
  <2>3. QED
    BY <1>1, <2>1, <2>2 DEF LineEnds
<1>7. ASSUME NEW i \in 1 .. m + n, NEW j \in 1 .. m + n, i < j
      PROVE  <<st[i][2], st[j][2]>> \in R
  <2>1. CASE j \in 1 .. m
    <3>1. i \in 1 .. m
      BY <1>1, <1>7, <2>1
    <3>2. QED
      BY <1>1, <1>2, <1>7, <2>1, <3>1 DEF LinesRise
  <2>2. CASE i \in 1 .. m /\ j \notin 1 .. m
    <3>1. st[i] = s[i] /\ j - m \in 1 .. n /\ st[j] = t[j - m]
      BY <1>2, <1>4, <2>2
    <3>2. s[i][2] \in LineEnds(s) /\ t[j - m][2] \in LineEnds(t)
      BY <1>1, <2>2, <3>1 DEF LineEnds
    <3>3. QED
      BY <3>1, <3>2 DEF Below
  <2>3. CASE i \notin 1 .. m
    <3>1. j \notin 1 .. m
      BY <1>1, <1>7, <2>3
    <3>2. /\ i - m \in 1 .. n /\ st[i] = t[i - m]
          /\ j - m \in 1 .. n /\ st[j] = t[j - m]
      BY <1>4, <2>3, <3>1
    <3>3. i - m < j - m
      BY <1>1, <1>7
    <3>4. QED
      BY <1>1, <3>2, <3>3 DEF LinesRise
  <2>4. QED
    BY <2>1, <2>2, <2>3
<1>8. LinesRise(R, st)
  BY <1>1, <1>7 DEF LinesRise
<1>9. QED
  BY <1>5, <1>6, <1>8 DEF st

LEMMA InOrderHead ==
    ASSUME NEW R, NEW S, NEW cs \in Seq(S), cs # <<>>, InOrder(R, cs)
    PROVE  /\ Rising(R, Head(cs).data) /\ InOrder(R, Tail(cs))
           /\ Ends(Head(cs).data) \subseteq EndsIn(cs)
           /\ EndsIn(Tail(cs)) \subseteq EndsIn(cs)
           /\ Below(R, Ends(Head(cs).data), EndsIn(Tail(cs)))
<1> DEFINE n == Len(cs)
           t == Tail(cs)
<1>1. /\ n \in Nat \ {0} /\ DOMAIN cs = 1 .. n /\ cs[1] = Head(cs)
      /\ DOMAIN t = 1 .. n - 1 /\ \A i \in 1 .. n - 1 : t[i] = cs[i + 1]
  <2>1. t \in Seq(S) /\ Len(t) = n - 1
    BY HeadAndTail
  <2>2. DOMAIN t = 1 .. n - 1
    BY <2>1
  <2>3. QED
    BY <2>2, HeadAndTail
<1> HIDE DEF n, t
<1>2. 1 \in 1 .. n
  BY <1>1
<1>3. \A i \in 1 .. n - 1 : i + 1 \in 1 .. n /\ 1 < i + 1
  BY <1>1
<1>4. \A i, j \in 1 .. n - 1 : i < j => i + 1 < j + 1
  BY <1>1
<1>5. InOrder(R, t)
  BY <1>1, <1>3, <1>4 DEF InOrder
<1>6. EndsIn(t) \subseteq EndsIn(cs) /\ Ends(cs[1].data) \subseteq EndsIn(cs)
  BY <1>1, <1>2, <1>3 DEF EndsIn
<1>7. Below(R, Ends(cs[1].data), EndsIn(t))
  <2>1. \A i \in 1 .. n - 1 : Below(R, Ends(cs[1].data), Ends(t[i].data))
    BY <1>1, <1>2, <1>3 DEF InOrder
  <2>2. QED
    BY <1>1, <2>1 DEF EndsIn, Below
<1>8. Rising(R, cs[1].data)
  BY <1>1, <1>2 DEF InOrder
<1>9. QED
  BY <1>1, <1>5, <1>6, <1>7, <1>8 DEF t

LEMMA InOrderAppended ==
    ASSUME NEW R, NEW S, NEW cs \in Seq(S), NEW c \in S,
           InOrder(R, cs), Rising(R, c.data), Below(R, EndsIn(cs), Ends(c.data))
    PROVE  /\ InOrder(R, Append(cs, c))
           /\ EndsIn(Append(cs, c)) \subseteq EndsIn(cs) \cup Ends(c.data)
<1> DEFINE t == Append(cs, c)
           n == Len(cs)
<1>1. /\ n \in Nat /\ DOMAIN cs = 1 .. n /\ DOMAIN t = 1 .. n + 1
      /\ t[n + 1] = c
      /\ \A i \in 1 .. n : t[i] = cs[i]
      /\ \A i \in 1 .. n + 1 : i \in 1 .. n \/ i = n + 1
      /\ \A i \in 1 .. n : ~(n + 1 < i)
      /\ ~(n + 1 < n + 1)
  BY AppendedAt
<1> HIDE DEF t, n
<1>2. \A i \in 1 .. n : Below(R, Ends(cs[i].data), Ends(c.data))
  BY <1>1 DEF EndsIn, Below
<1>3. \A i \in 1 .. n + 1 : Rising(R, t[i].data)
  BY <1>1 DEF InOrder
<1>4. \A i, j \in 1 .. n + 1 : i < j => Below(R, Ends(t[i].data), Ends(t[j].data))
  BY <1>1, <1>2 DEF InOrder
<1>5. EndsIn(t) \subseteq EndsIn(cs) \cup Ends(c.data)
  BY <1>1 DEF EndsIn
<1>6. QED
  BY <1>1, <1>3, <1>4, <1>5 DEF InOrder, t

LEMMA RemovedAt ==
    ASSUME NEW S, NEW s \in Seq(S), NEW i \in DOMAIN s
    PROVE  \A k \in DOMAIN RemoveAt(s, i) :
              /\ k \in Nat /\ k + 1 \in Nat
              /\ \/ k \in DOMAIN s /\ k < i /\ RemoveAt(s, i)[k] = s[k]
                 \/ k + 1 \in DOMAIN s /\ i <= k /\ RemoveAt(s, i)[k] = s[k + 1]
<1> DEFINE n == Len(s)
           l == SubSeq(s, 1, i - 1)
           r == SubSeq(s, i + 1, n)
<1>1. n \in Nat /\ i \in 1 .. n /\ DOMAIN s = 1 .. n
  OBVIOUS
<1>2. l \in Seq(S) /\ Len(l) = i - 1 /\ \A k \in 1 .. i - 1 : l[k] = s[k]
  BY <1>1
<1>3. r \in Seq(S) /\ Len(r) = n - i /\ \A k \in 1 .. n - i : r[k] = s[i + k]
  BY <1>1
<1>4. RemoveAt(s, i) = l \o r
  BY DEF RemoveAt
<1> HIDE DEF l, r, n
<1>5. /\ l \o r \in Seq(S) /\ Len(l \o r) = Len(l) + Len(r)
      /\ \A k \in 1 .. Len(l) : (l \o r)[k] = l[k]
      /\ \A k \in 1 .. Len(r) : (l \o r)[Len(l) + k] = r[k]
  <2>1. l \in Seq(S) /\ r \in Seq(S)
    BY <1>2, <1>3
  <2>2. QED
    BY <2>1, JoinedAt
<1>6. (i - 1) + (n - i) = n - 1 /\ i \in Nat
  BY <1>1
<1>7. DOMAIN (l \o r) = 1 .. n - 1
  BY <1>2, <1>3, <1>5, <1>6
<1> SUFFICES ASSUME NEW k \in 1 .. n - 1
             PROVE  /\ k \in Nat /\ k + 1 \in Nat
                    /\ \/ k \in DOMAIN s /\ k < i /\ (l \o r)[k] = s[k]
                       \/ k + 1 \in DOMAIN s /\ i <= k /\ (l \o r)[k] = s[k + 1]
  BY <1>4, <1>7
<1>8. CASE k < i
  <2>1. k \in 1 .. i - 1 /\ k \in 1 .. n
    BY <1>1, <1>8
  <2>2. (l \o r)[k] = l[k]
    BY <1>2, <1>5, <2>1
  <2>3. QED
    BY <1>1, <1>2, <1>8, <2>1, <2>2
<1>9. CASE i <= k
  <2>1. k - (i - 1) \in 1 .. n - i /\ k + 1 \in 1 .. n /\ (i - 1) + (k - (i - 1)) = k
        /\ i + (k - (i - 1)) = k + 1
    BY <1>1, <1>9
  <2>2. (l \o r)[(i - 1) + (k - (i - 1))] = r[k - (i - 1)]
    BY <1>2, <1>3, <1>5, <2>1
  <2>3. r[k - (i - 1)] = s[i + (k - (i - 1))]
    BY <1>3, <2>1
  <2>4. (l \o r)[k] = s[k + 1]
    BY <2>1, <2>2, <2>3
  <2>5. QED
    BY <1>1, <1>9, <2>1, <2>4
<1>10. k < i \/ i <= k
  BY <1>6
<1>11. QED
  BY <1>8, <1>9, <1>10

LEMMA InOrderRemoved ==
    ASSUME NEW R, NEW S, NEW cs \in Seq(S), NEW i \in DOMAIN cs, InOrder(R, cs)
    PROVE  InOrder(R, RemoveAt(cs, i)) /\ EndsIn(RemoveAt(cs, i)) \subseteq EndsIn(cs)
<1> DEFINE t == RemoveAt(cs, i)
           from(k) == IF k < i THEN k ELSE k + 1
<1>0. i \in Nat
  OBVIOUS
<1>1. \A k \in DOMAIN t : k \in Nat /\ from(k) \in DOMAIN cs /\ t[k] = cs[from(k)]
  BY <1>0, RemovedAt
<1>2. \A k, l \in DOMAIN t : k < l => from(k) < from(l)
  BY <1>0, <1>1
<1> HIDE DEF t, from
<1>3. InOrder(R, t)
  BY <1>1, <1>2 DEF InOrder
<1>4. EndsIn(t) \subseteq EndsIn(cs)
  BY <1>1 DEF EndsIn
<1>5. QED
  BY <1>3, <1>4 DEF t

\* Five stages a line goes through; it is never behind one that was logged later.
Ordered(R, A, B, C, D, E) ==
    /\ Below(R, A, B) /\ Below(R, A, C) /\ Below(R, A, D) /\ Below(R, A, E)
    /\ Below(R, B, C) /\ Below(R, B, D) /\ Below(R, B, E)
    /\ Below(R, C, D) /\ Below(R, C, E)
    /\ Below(R, D, E)

StageOrder(R) ==
    Ordered(R, LineEnds(stored), Ends(buffer), EndsIn(net), EndsIn(chunks),
            Ends(data) \cup Ends(file))

PartsOrder(R) ==
    /\ Rising(R, file) /\ Rising(R, data) /\ Rising(R, buffer)
    /\ InOrder(R, net) /\ InOrder(R, chunks)
    /\ LinesRise(R, stored)

\* What has been read may still be in the file; what has not comes after it.
ReadOrder(R) == \A i \in DOMAIN data, j \in DOMAIN file :
    j > Len(data) /\ data[i].part = "tail" /\ file[j].part = "tail"
        => <<data[i].line, file[j].line>> \in R

SenderOrder ==
    /\ sender # "sending" => chunks = <<>>
    /\ sender \in {"idle", "sending"} => data = <<>>

Arranged(R) == StageOrder(R) /\ PartsOrder(R) /\ ReadOrder(R) /\ SenderOrder

LEMMA NothingRises ==
    ASSUME NEW R
    PROVE
    /\ Ends(<<>>) = {} /\ EndsIn(<<>>) = {} /\ LineEnds(<<>>) = {}
    /\ Rising(R, <<>>) /\ InOrder(R, <<>>) /\ LinesRise(R, <<>>)
BY DEF Ends, EndsIn, LineEnds, Rising, InOrder, LinesRise

LEMMA ArrangedInit ==
    ASSUME NEW R, Init
    PROVE  Arranged(R)
<1>1. StageOrder(R)
  BY NothingRises DEF Init, StageOrder, Ordered, Below
<1>2. PartsOrder(R)
  BY NothingRises DEF Init, PartsOrder
<1>3. ReadOrder(R) /\ SenderOrder
  BY DEF Init, ReadOrder, SenderOrder
<1>4. QED
  BY <1>1, <1>2, <1>3 DEF Arranged

LEMMA OrderedLess ==
    ASSUME NEW R, NEW A, NEW B, NEW C, NEW D, NEW E, Ordered(R, A, B, C, D, E),
           NEW A2, NEW B2, NEW C2, NEW D2, NEW E2,
           A2 \subseteq A, B2 \subseteq B, C2 \subseteq C, D2 \subseteq D, E2 \subseteq E
    PROVE  Ordered(R, A2, B2, C2, D2, E2)
BY DEF Ordered, Below

\* A line is written: the last of all.
LEMMA OrderedWrite ==
    ASSUME NEW R, NEW w \in Nat, NEW A, NEW B, NEW C, NEW D, NEW E, Ordered(R, A, B, C, D, E),
           Climbs(R),
           A \subseteq 1 .. w, B \subseteq 1 .. w, C \subseteq 1 .. w, D \subseteq 1 .. w
    PROVE  Ordered(R, A, B, C, D, E \cup {w + 1})
<1>1. \A a \in 1 .. w : <<a, w + 1>> \in R
  <2>1. \A a \in 1 .. w : a \in Nat /\ w + 1 \in Nat /\ a < w + 1
    OBVIOUS
  <2>2. QED
    BY <2>1 DEF Climbs
<1>2. QED
  BY <1>1 DEF Ordered, Below

\* The file becomes chunks, when there are none.
LEMMA OrderedTruncate ==
    ASSUME NEW R, NEW A, NEW B, NEW C, NEW D, NEW E, Ordered(R, A, B, C, D, E),
           NEW D2, D2 \subseteq E
    PROVE  Ordered(R, A, B, C, D2, {})
BY DEF Ordered, Below

\* A chunk is sent.
LEMMA OrderedSend ==
    ASSUME NEW R, NEW A, NEW B, NEW C, NEW D, NEW E, Ordered(R, A, B, C, D, E),
           NEW H, NEW C2, NEW D2, H \subseteq D, D2 \subseteq D, Below(R, H, D2),
           C2 \subseteq C \cup H
    PROVE  Ordered(R, A, B, C2, D2, E)
BY DEF Ordered, Below

\* A chunk is put into the buffer.
LEMMA OrderedReceive ==
    ASSUME NEW R, NEW A, NEW B, NEW C, NEW D, NEW E, Ordered(R, A, B, C, D, E),
           NEW H, NEW B2, NEW C2, H \subseteq C, C2 \subseteq C, Below(R, H, C2),
           B2 \subseteq B \cup H
    PROVE  Ordered(R, A, B2, C2, D, E)
BY DEF Ordered, Below

\* The buffer is stored.
LEMMA OrderedStore ==
    ASSUME NEW R, NEW A, NEW B, NEW C, NEW D, NEW E, Ordered(R, A, B, C, D, E),
           NEW A2, A2 \subseteq A \cup B
    PROVE  Ordered(R, A2, {}, C, D, E)
BY DEF Ordered, Below

LEMMA EndsTo ==
    ASSUME NEW w \in Nat, NEW s \in Seq(CellsTo(w))
    PROVE  Ends(s) \subseteq 1 .. w
<1>1. \A i \in DOMAIN s : s[i].part = "tail" => s[i].line \in 1 .. w
  BY DEF CellsTo, Hole
<1>2. QED
  BY <1>1 DEF Ends

LEMMA EndsInTo ==
    ASSUME NEW w \in Nat, NEW cs \in Seq(ChunkOf(CellsTo(w)))
    PROVE  EndsIn(cs) \subseteq 1 .. w
<1>1. \A i \in DOMAIN cs : cs[i].data \in Seq(CellsTo(w))
  BY ChunkParts
<1>2. QED
  BY <1>1, EndsTo DEF EndsIn

LEMMA LineEndsTo ==
    ASSUME NEW w \in Nat, NEW ls \in Seq(LinesTo(w))
    PROVE  LineEnds(ls) \subseteq 1 .. w
<1>1. \A i \in DOMAIN ls : ls[i][2] \in 1 .. w
  BY DEF LinesTo
<1>2. QED
  BY <1>1 DEF LineEnds

LEMMA WrittenEnds ==
    ASSUME NEW R, NEW n \in Nat, NEW w \in Nat \ {0}
    PROVE  /\ Rising(R, [i \in 1 .. n |-> Hole]) /\ Ends([i \in 1 .. n |-> Hole]) = {}
           /\ Rising(R, CellsOf(w)) /\ Ends(CellsOf(w)) = {w}
<1>1. Hole.part # "tail"
  BY DEF Hole
<1>2. Rising(R, [i \in 1 .. n |-> Hole]) /\ Ends([i \in 1 .. n |-> Hole]) = {}
  BY <1>1 DEF Rising, Ends
<1> DEFINE t == CellsOf(w)
<1>3. /\ DOMAIN t = {1, 2} /\ t[1].part = "head" /\ t[2].part = "tail" /\ t[2].line = w
  BY DEF CellsOf, LineHead, LineTail
<1> HIDE DEF t
<1>4. Rising(R, t) /\ Ends(t) = {w}
  BY <1>3 DEF Rising, Ends
<1>5. QED
  BY <1>2, <1>4 DEF t

LEMMA WriteOrder ==
    ASSUME NEW R, Climbs(R), TypeInv, Arranged(R), Write
    PROVE  Arranged(R)'
<1> DEFINE w == written + 1
           gap  == pos - Len(file)
           nuls == [i \in 1 .. gap |-> Hole]
           text == CellsOf(w)
           more == nuls \o text
<1>1. /\ gap \in Nat /\ written \in Nat /\ w \in Nat \ {0} /\ written <= w
  BY DEF TypeInv, FileType
<1>2. /\ nuls \in Seq(CellsTo(w)) /\ text \in Seq(CellsTo(w)) /\ file \in Seq(CellsTo(w))
      /\ file \in Seq(CellsTo(written)) /\ data \in Seq(CellsTo(written))
  BY <1>1, HolesAreCells, LineIsCells, TypesGrow DEF TypeInv, FileType, SenderType
<1>3. /\ Rising(R, nuls) /\ Ends(nuls) = {} /\ Rising(R, text) /\ Ends(text) = {w}
  BY <1>1, WrittenEnds
<1>4. file' = (file \o nuls) \o text
  BY WriteAppends DEF TypeInv
<1>5. UNCHANGED <<sender, data, chunks, net, buffer, stored>>
  BY DEF Write, gcVars
<1> HIDE DEF gap, nuls, text
<1>6. more \in Seq(CellsTo(w)) /\ Rising(R, more) /\ Ends(more) = {w}
  <2>1. Below(R, Ends(nuls), Ends(text))
    BY <1>3 DEF Below
  <2>2. QED
    <3>1. nuls \o text \in Seq(CellsTo(w))
      BY <1>2
    <3>2. Ends(nuls \o text) = Ends(nuls) \cup Ends(text)
      BY <1>2, EndsJoined
    <3>3. Rising(R, nuls \o text)
      BY <1>2, <1>3, <2>1, RisingJoined
    <3>4. QED
      BY <1>3, <3>1, <3>2, <3>3
<1>7. file' = file \o more
  BY <1>2, <1>4
<1> HIDE DEF more
<1>8. Below(R, Ends(file), {w}) /\ Below(R, Ends(data), {w})
  <2>1. Ends(file) \subseteq 1 .. written /\ Ends(data) \subseteq 1 .. written
    BY <1>1, <1>2, EndsTo
  <2>2. \A a \in 1 .. written : a \in Nat /\ w \in Nat /\ a < w
    BY <1>1
  <2>3. \A a \in 1 .. written : <<a, w>> \in R
    BY <2>2 DEF Climbs
  <2>4. QED
    BY <2>1, <2>3 DEF Below
<1>9. Rising(R, file') /\ Ends(file') = Ends(file) \cup {w}
  <2>1. Ends(file \o more) = Ends(file) \cup Ends(more)
    BY <1>2, <1>6, EndsJoined
  <2>2. Rising(R, file) /\ Below(R, Ends(file), Ends(more))
    BY <1>6, <1>8 DEF Arranged, PartsOrder
  <2>3. Rising(R, file \o more)
    BY <1>2, <1>6, <2>2, RisingJoined
  <2>4. QED
    BY <1>6, <1>7, <2>1, <2>3
<1>10. PartsOrder(R)' /\ SenderOrder'
  BY <1>5, <1>9 DEF Arranged, PartsOrder, SenderOrder
<1>11. StageOrder(R)'
  <2>1. /\ LineEnds(stored) \subseteq 1 .. written /\ Ends(buffer) \subseteq 1 .. written
        /\ EndsIn(net) \subseteq 1 .. written /\ EndsIn(chunks) \subseteq 1 .. written
    BY <1>1, EndsTo, EndsInTo, LineEndsTo DEF TypeInv, GroundType, NetType, SenderType
  <2>2. Ordered(R, LineEnds(stored), Ends(buffer), EndsIn(net), EndsIn(chunks),
                (Ends(data) \cup Ends(file)) \cup {written + 1})
    BY <1>1, <2>1, OrderedWrite DEF Arranged, StageOrder
  <2>3. (Ends(data) \cup Ends(file)) \cup {written + 1} = Ends(data') \cup Ends(file')
    BY <1>5, <1>9
  <2>4. QED
    BY <1>5, <2>2, <2>3 DEF StageOrder
<1>12. ReadOrder(R)'
  <2> SUFFICES ASSUME NEW i \in DOMAIN data, NEW j \in DOMAIN file', j > Len(data),
                      data[i].part = "tail", file'[j].part = "tail"
               PROVE  <<data[i].line, file'[j].line>> \in R
    BY <1>5 DEF ReadOrder
  <2>1. j \in 1 .. Len(file) + Len(more)
    BY <1>2, <1>6, <1>7
  <2>2. CASE j \in 1 .. Len(file)
    <3>1. file'[j] = file[j] /\ j \in DOMAIN file
      BY <1>2, <1>6, <1>7, <2>2, JoinedAt
    <3>2. QED
      BY <3>1 DEF Arranged, ReadOrder
  <2>3. CASE j - Len(file) \in 1 .. Len(more) /\ file'[j] = more[j - Len(file)]
    <3>1. file'[j].line \in Ends(more)
      BY <1>6, <2>3 DEF Ends
    <3>2. data[i].line \in Ends(data)
      BY DEF Ends
    <3>3. QED
      BY <1>6, <1>8, <3>1, <3>2 DEF Below
  <2>4. CASE j \notin 1 .. Len(file)
    <3>1. j - Len(file) \in 1 .. Len(more) /\ (file \o more)[j] = more[j - Len(file)]
      BY <1>2, <1>6, <2>1, <2>4, JoinedBack
    <3>2. QED
      BY <1>7, <2>3, <3>1
  <2>5. QED
    BY <2>2, <2>4
<1>13. QED
  BY <1>10, <1>11, <1>12 DEF Arranged

LEMMA ReadOrderKept ==
    ASSUME NEW R, TypeInv, Arranged(R), ReadBlock
    PROVE  Arranged(R)'
<1>1. PICK end \in Nat :
          /\ end <= Len(file)
          /\ data' = data \o SubSeq(file, Len(data) + 1, end)
          /\ sender' \in {"read", sender}
  BY BlockRead DEF TypeInv
<1>2. UNCHANGED <<file, chunks, net, buffer, stored>> /\ sender = "reading"
  BY DEF ReadBlock, gcVars
<1> DEFINE n    == Len(data)
           more == SubSeq(file, n + 1, end)
           S    == CellsTo(written)
<1>3. file \in Seq(S) /\ data \in Seq(S) /\ n \in Nat /\ DOMAIN data = 1 .. n
  BY DEF TypeInv, FileType, SenderType
<1>4. Rising(R, file) /\ Rising(R, data)
  BY DEF Arranged, PartsOrder
<1>5. /\ more \in Seq(S)
      /\ \A i \in DOMAIN more : n + i \in DOMAIN file /\ n + i <= end /\ more[i] = file[n + i]
  BY <1>1, <1>3, PieceAt
<1>6. /\ Ends(more) \subseteq Ends(file) /\ Rising(R, more)
      /\ \A e \in Ends(more) : \E i \in DOMAIN file :
             n < i /\ i <= end /\ file[i].part = "tail" /\ file[i].line = e
  BY <1>1, <1>3, <1>4, PieceEnds
<1> HIDE DEF more, S
<1>7. data' = data \o more
  BY <1>1 DEF more
<1>8. Below(R, Ends(data), Ends(more))
  <2> SUFFICES ASSUME NEW e \in Ends(data), NEW f \in Ends(more) PROVE <<e, f>> \in R
    BY DEF Below
  <2>1. PICK i \in DOMAIN data : data[i].part = "tail" /\ data[i].line = e
    BY DEF Ends
  <2>2. PICK j \in DOMAIN file : n < j /\ file[j].part = "tail" /\ file[j].line = f
    BY <1>6
  <2>3. j > Len(data)
    BY <1>3, <2>2
  <2>4. QED
    BY <2>1, <2>2, <2>3 DEF Arranged, ReadOrder
<1>9. Rising(R, data')
  BY <1>3, <1>4, <1>5, <1>6, <1>7, <1>8, RisingJoined
<1>10. Ends(data') = Ends(data) \cup Ends(more)
  BY <1>3, <1>5, <1>7, EndsJoined
<1>11. PartsOrder(R)'
  BY <1>2, <1>9 DEF Arranged, PartsOrder
<1>12. StageOrder(R)'
  <2>1. Ends(data') \cup Ends(file') \subseteq Ends(data) \cup Ends(file)
    BY <1>2, <1>6, <1>10
  <2>2. QED
    BY <1>2, <2>1, OrderedLess DEF Arranged, StageOrder
<1>13. ReadOrder(R)'
  <2>1. /\ data' \in Seq(S) /\ DOMAIN data' = 1 .. n + Len(more) /\ Len(data') = n + Len(more)
        /\ Len(more) \in Nat
        /\ \A i \in 1 .. n : data'[i] = data[i]
        /\ \A i \in 1 .. n + Len(more) :
              i \in 1 .. n \/ (i - n \in 1 .. Len(more) /\ data'[i] = more[i - n])
    BY <1>3, <1>5, <1>7, JoinedAt
  <2> SUFFICES ASSUME NEW i \in DOMAIN data', NEW j \in DOMAIN file, j > Len(data'),
                      data'[i].part = "tail", file[j].part = "tail"
               PROVE  <<data'[i].line, file[j].line>> \in R
    BY <1>2 DEF ReadOrder
  <2>2. j \in Nat /\ j > n /\ i \in 1 .. n + Len(more) /\ i < j
    BY <1>3, <2>1
  <2>3. CASE i \in 1 .. n
    BY <1>3, <2>1, <2>2, <2>3 DEF Arranged, ReadOrder
  <2>4. CASE i - n \in 1 .. Len(more) /\ data'[i] = more[i - n]
    <3>1. n + (i - n) = i /\ i - n \in DOMAIN more
      BY <1>3, <1>5, <2>2, <2>4
    <3>2. i \in DOMAIN file /\ data'[i] = file[i]
      BY <1>5, <2>4, <3>1
    <3>3. QED
      BY <1>4, <2>2, <3>2 DEF Rising
  <2>5. QED
    BY <2>1, <2>2, <2>3, <2>4
<1>14. SenderOrder'
  BY <1>1, <1>2 DEF Arranged, SenderOrder
<1>15. QED
  BY <1>11, <1>12, <1>13, <1>14 DEF Arranged

LEMMA TruncateOrder ==
    ASSUME NEW R, TypeInv, Arranged(R), Truncate
    PROVE  Arranged(R)'
<1>1. /\ chunks' = Chunks(data) /\ data' = <<>> /\ file' = <<>> /\ sender' = "sending"
      /\ UNCHANGED <<net, buffer, stored>>
  BY DEF Truncate, gcVars
<1>2. InOrder(R, Chunks(data)) /\ EndsIn(Chunks(data)) \subseteq Ends(data)
  BY ChunksInOrder DEF TypeInv, SenderType, Arranged, PartsOrder
<1>3. PartsOrder(R)'
  BY <1>1, <1>2, NothingRises DEF Arranged, PartsOrder
<1>4. StageOrder(R)'
  <2>1. Ordered(R, LineEnds(stored), Ends(buffer), EndsIn(net), EndsIn(chunks'), {})
    BY <1>1, <1>2, OrderedTruncate DEF Arranged, StageOrder
  <2>2. Ends(data') \cup Ends(file') = {}
    BY <1>1, NothingRises
  <2>3. QED
    BY <1>1, <2>1, <2>2 DEF StageOrder
<1>5. ReadOrder(R)' /\ SenderOrder'
  BY <1>1 DEF ReadOrder, SenderOrder
<1>6. QED
  BY <1>3, <1>4, <1>5 DEF Arranged

LEMMA SendOrder ==
    ASSUME NEW R, TypeInv, Arranged(R), Send
    PROVE  Arranged(R)'
<1> DEFINE h == Head(chunks)
           T == ChunkOf(CellsTo(written))
<1>1. /\ chunks # <<>> /\ chunks' = Tail(chunks)
      /\ net' = Append(net, h) \/ net' = net
      /\ UNCHANGED <<file, data, sender, buffer, stored>>
      /\ sender = "sending"
  BY DEF Send, gcVars
<1>2. chunks \in Seq(T) /\ net \in Seq(T) /\ h \in T
  BY <1>1, HeadAndTail DEF TypeInv, SenderType, NetType
<1>3. InOrder(R, chunks) /\ InOrder(R, net)
  BY DEF Arranged, PartsOrder
<1>4. /\ Rising(R, h.data) /\ InOrder(R, chunks')
      /\ Ends(h.data) \subseteq EndsIn(chunks) /\ EndsIn(chunks') \subseteq EndsIn(chunks)
      /\ Below(R, Ends(h.data), EndsIn(chunks'))
  BY <1>1, <1>2, <1>3, InOrderHead
<1>5. Below(R, EndsIn(net), EndsIn(chunks))
  BY DEF Arranged, StageOrder, Ordered
<1>6. Below(R, EndsIn(net), Ends(h.data))
  BY <1>4, <1>5 DEF Below
<1> HIDE DEF h, T
<1>7. InOrder(R, net') /\ EndsIn(net') \subseteq EndsIn(net) \cup Ends(h.data)
  <2>1. InOrder(R, Append(net, h)) /\ EndsIn(Append(net, h)) \subseteq EndsIn(net) \cup Ends(h.data)
    BY <1>2, <1>3, <1>4, <1>6, InOrderAppended
  <2>2. QED
    BY <1>1, <1>3, <2>1
<1>8. PartsOrder(R)'
  BY <1>1, <1>4, <1>7 DEF Arranged, PartsOrder
<1>9. StageOrder(R)'
  <2>1. Ordered(R, LineEnds(stored), Ends(buffer), EndsIn(net'), EndsIn(chunks'),
                Ends(data) \cup Ends(file))
    BY <1>4, <1>7, OrderedSend DEF Arranged, StageOrder
  <2>2. QED
    BY <1>1, <2>1 DEF StageOrder
<1>10. ReadOrder(R)' /\ SenderOrder'
  BY <1>1 DEF Arranged, ReadOrder, SenderOrder
<1>11. QED
  BY <1>8, <1>9, <1>10 DEF Arranged

LEMMA ReceiveOrder ==
    ASSUME NEW R, TypeInv, Arranged(R), ReceiveChunk
    PROVE  Arranged(R)'
<1> DEFINE h     == Head(net)
           S     == CellsTo(written)
           whole == buffer \o h.data
<1>1. /\ net # <<>> /\ net' = Tail(net)
      /\ UNCHANGED <<file, data, sender, chunks, written>>
  BY DEF ReceiveChunk, satVars
<1>2. \/ buffer' = <<>> /\ stored' = stored \o LinesOf(whole)
      \/ buffer' = whole /\ stored' = stored
  <2>1. \/ buffer' = <<>> /\ Display(LinesOf(whole))
        \/ buffer' = whole /\ UNCHANGED <<stored, shown, packets>>
    BY Zenon DEF ReceiveChunk
  <2>2. QED
    BY <2>1 DEF Display
<1>3. /\ written \in Nat /\ buffer \in Seq(S) /\ stored \in Seq(LinesTo(written))
      /\ net \in Seq(ChunkOf(S))
  BY DEF TypeInv, FileType, GroundType, NetType
<1>4. h.data \in Seq(S)
  <2>1. h \in ChunkOf(S)
    BY <1>1, <1>3, HeadAndTail
  <2>2. QED
    BY <2>1, ChunkParts
<1>5. InOrder(R, net) /\ Rising(R, buffer) /\ LinesRise(R, stored)
  BY DEF Arranged, PartsOrder
<1>6. /\ Rising(R, h.data) /\ InOrder(R, net')
      /\ Ends(h.data) \subseteq EndsIn(net) /\ EndsIn(net') \subseteq EndsIn(net)
      /\ Below(R, Ends(h.data), EndsIn(net'))
  BY <1>1, <1>3, <1>5, InOrderHead
<1>7. Below(R, Ends(buffer), Ends(h.data))
  <2>1. Below(R, Ends(buffer), EndsIn(net))
    BY DEF Arranged, StageOrder, Ordered
  <2>2. QED
    BY <1>6, <2>1 DEF Below
<1>8. /\ whole \in Seq(S) /\ Rising(R, whole)
      /\ Ends(whole) = Ends(buffer) \cup Ends(h.data)
  <2>1. Rising(R, whole)
    BY <1>3, <1>4, <1>5, <1>6, <1>7, RisingJoined
  <2>2. Ends(whole) = Ends(buffer) \cup Ends(h.data)
    BY <1>3, <1>4, EndsJoined
  <2>3. QED
    BY <1>3, <1>4, <2>1, <2>2
<1> HIDE DEF h, whole, S
<1>9. Ordered(R, LineEnds(stored), Ends(whole), EndsIn(net'), EndsIn(chunks),
              Ends(data) \cup Ends(file))
  BY <1>6, <1>8, OrderedReceive DEF Arranged, StageOrder
<1>10. CASE buffer' = whole /\ stored' = stored
  <2>1. StageOrder(R)'
    BY <1>1, <1>9, <1>10 DEF StageOrder
  <2>2. PartsOrder(R)'
    BY <1>1, <1>6, <1>8, <1>10 DEF Arranged, PartsOrder
  <2>3. ReadOrder(R)' /\ SenderOrder'
    BY <1>1 DEF Arranged, ReadOrder, SenderOrder
  <2>4. QED
    BY <2>1, <2>2, <2>3 DEF Arranged
<1>11. CASE buffer' = <<>> /\ stored' = stored \o LinesOf(whole)
  <2>1. /\ LinesOf(whole) \in Seq(LinesTo(written)) /\ LinesRise(R, LinesOf(whole))
        /\ LineEnds(LinesOf(whole)) \subseteq Ends(whole)
    BY <1>3, <1>8, LinesType, LinesOfRising DEF S
  <2>2. Below(R, LineEnds(stored), LineEnds(LinesOf(whole)))
    <3>1. Below(R, LineEnds(stored), Ends(whole))
      BY <1>9 DEF Ordered
    <3>2. QED
      BY <2>1, <3>1 DEF Below
  <2>3. LinesRise(R, stored') /\ LineEnds(stored') \subseteq LineEnds(stored) \cup Ends(whole)
    <3>1. /\ LinesRise(R, stored \o LinesOf(whole))
          /\ LineEnds(stored \o LinesOf(whole)) = LineEnds(stored) \cup LineEnds(LinesOf(whole))
      BY <1>3, <1>5, <2>1, <2>2, LinesRiseJoined
    <3>2. QED
      BY <1>11, <2>1, <3>1
  <2>4. Ends(buffer') = {} /\ Rising(R, buffer')
    BY <1>11, NothingRises
  <2>5. StageOrder(R)'
    <3>1. Ordered(R, LineEnds(stored'), {}, EndsIn(net'), EndsIn(chunks),
                  Ends(data) \cup Ends(file))
      BY <1>9, <2>3, OrderedStore
    <3>2. QED
      BY <1>1, <2>4, <3>1 DEF StageOrder
  <2>6. PartsOrder(R)'
    BY <1>1, <1>6, <2>3, <2>4 DEF Arranged, PartsOrder
  <2>7. ReadOrder(R)' /\ SenderOrder'
    BY <1>1 DEF Arranged, ReadOrder, SenderOrder
  <2>8. QED
    BY <2>5, <2>6, <2>7 DEF Arranged
<1>12. QED
  BY <1>2, <1>10, <1>11

\* What is forgotten cannot come out of order.
LEMMA ForgetOrder ==
    ASSUME NEW R, TypeInv, Arranged(R), BeginDump \/ ClearFile \/ LoseChunk \/ Restart
    PROVE  Arranged(R)'
<1> DEFINE T == ChunkOf(CellsTo(written))
<1>1. /\ file' = file \/ file' = <<>>
      /\ data' = data \/ data' = <<>>
      /\ chunks' = chunks \/ chunks' = <<>>
      /\ net' = net \/ \E i \in DOMAIN net : net' = RemoveAt(net, i)
      /\ UNCHANGED <<buffer, stored>>
  BY DEF BeginDump, ClearFile, LoseChunk, Restart, satVars, gcVars
<1>2. /\ Rising(R, file') /\ Ends(file') \subseteq Ends(file)
      /\ Rising(R, data') /\ Ends(data') \subseteq Ends(data)
      /\ InOrder(R, chunks') /\ EndsIn(chunks') \subseteq EndsIn(chunks)
  BY <1>1, NothingRises DEF Arranged, PartsOrder
<1>3. InOrder(R, net') /\ EndsIn(net') \subseteq EndsIn(net)
  <2>1. net \in Seq(T) /\ InOrder(R, net)
    BY DEF TypeInv, NetType, Arranged, PartsOrder
  <2> HIDE DEF T
  <2>2. CASE net' = net
    BY <2>1, <2>2
  <2>3. CASE \E i \in DOMAIN net : net' = RemoveAt(net, i)
    BY <2>1, <2>3, InOrderRemoved
  <2>4. QED
    BY <1>1, <2>2, <2>3
<1>4. PartsOrder(R)'
  BY <1>1, <1>2, <1>3 DEF Arranged, PartsOrder
<1>5. StageOrder(R)'
  <2>1. Ends(data') \cup Ends(file') \subseteq Ends(data) \cup Ends(file)
    BY <1>2
  <2>2. QED
    BY <1>1, <1>2, <1>3, <2>1, OrderedLess DEF Arranged, StageOrder
<1>6. ReadOrder(R)'
  <2>1. CASE BeginDump
    BY <2>1 DEF BeginDump, Arranged, SenderOrder, ReadOrder
  <2>2. CASE ClearFile \/ Restart
    BY <2>2 DEF ClearFile, Restart, ReadOrder
  <2>3. CASE LoseChunk
    BY <2>3 DEF LoseChunk, satVars, Arranged, ReadOrder
  <2>4. QED
    BY <2>1, <2>2, <2>3
<1>7. SenderOrder'
  BY DEF BeginDump, ClearFile, LoseChunk, Restart, satVars, Arranged, SenderOrder
<1>8. QED
  BY <1>4, <1>5, <1>6, <1>7 DEF Arranged

LEMMA OtherOrder ==
    ASSUME NEW R, Arranged(R),
           FinishDump \/ OtherAnswer \/ HearAnswer \/ LoseAnswer \/ UNCHANGED vars
    PROVE  Arranged(R)'
<1>1. UNCHANGED <<file, data, chunks, net, buffer, stored>>
  BY DEF FinishDump, OtherAnswer, HearAnswer, LoseAnswer, vars, satVars, gcVars
<1>2. SenderOrder'
  BY DEF FinishDump, OtherAnswer, HearAnswer, LoseAnswer, vars, satVars, Arranged, SenderOrder
<1>3. StageOrder(R)' /\ PartsOrder(R)' /\ ReadOrder(R)'
  BY <1>1 DEF Arranged, StageOrder, PartsOrder, ReadOrder
<1>4. QED
  BY <1>2, <1>3 DEF Arranged

\* Chunks that change places are related as before if it does not matter how.
LEMMA InOrderSwapped ==
    ASSUME NEW R, Symmetric(R), NEW S, NEW cs \in Seq(S), NEW i \in 1 .. Len(cs) - 1,
           InOrder(R, cs)
    PROVE  InOrder(R, Swapped(cs, i)) /\ EndsIn(Swapped(cs, i)) \subseteq EndsIn(cs)
<1> DEFINE t == Swapped(cs, i)
           from(k) == IF k = i THEN i + 1 ELSE IF k = i + 1 THEN i ELSE k
<1>1. /\ DOMAIN t = DOMAIN cs /\ DOMAIN cs \subseteq Nat
      /\ \A k \in DOMAIN t : from(k) \in DOMAIN cs /\ t[k] = cs[from(k)]
  BY SwappedAt
<1>2. \A k, l \in DOMAIN t : k < l => from(k) < from(l) \/ from(l) < from(k)
  <2>1. \A k \in Nat : k < i \/ k = i \/ k = i + 1 \/ i + 1 < k
    BY <1>1
  <2>2. \A k \in DOMAIN t : k \in Nat
    BY <1>1
  <2>3. i \in Nat /\ i \in Int
    OBVIOUS
  <2> HIDE DEF t
  <2>4. \A k, l \in Nat : k < l => from(k) < from(l) \/ from(l) < from(k)
    BY <2>3
  <2>5. QED
    BY <2>2, <2>4
<1> HIDE DEF t, from
<1>3. \A A, B : Below(R, A, B) => Below(R, B, A)
  BY DEF Below, Symmetric
<1>4. \A k, l \in DOMAIN t : k < l => Below(R, Ends(t[k].data), Ends(t[l].data))
  BY <1>1, <1>2, <1>3 DEF InOrder
<1>5. InOrder(R, t)
  BY <1>1, <1>4 DEF InOrder
<1>6. EndsIn(t) \subseteq EndsIn(cs)
  BY <1>1 DEF EndsIn
<1>7. QED
  BY <1>5, <1>6 DEF t

LEMMA OvertakeOrder ==
    ASSUME NEW R, Symmetric(R), TypeInv, Arranged(R), Overtake
    PROVE  Arranged(R)'
<1>1. PICK i \in 1 .. Len(net) - 1 : net' = Swapped(net, i)
  BY DEF Overtake, Swapped
<1>2. UNCHANGED <<file, sender, data, chunks, buffer, stored>>
  BY DEF Overtake, satVars, gcVars
<1>3. net \in Seq(ChunkOf(CellsTo(written))) /\ InOrder(R, net)
  BY DEF TypeInv, NetType, Arranged, PartsOrder
<1>4. InOrder(R, net') /\ EndsIn(net') \subseteq EndsIn(net)
  BY <1>1, <1>3, InOrderSwapped
<1>5. StageOrder(R)'
  BY <1>2, <1>4, OrderedLess DEF Arranged, StageOrder
<1>6. PartsOrder(R)' /\ ReadOrder(R)' /\ SenderOrder'
  BY <1>2, <1>4 DEF Arranged, PartsOrder, ReadOrder, SenderOrder
<1>7. QED
  BY <1>5, <1>6 DEF Arranged

\* Every step but a duplication keeps the lines apart, and every other but an
\* overtaking in order.
LEMMA ArrangedStep ==
    ASSUME NEW R, Climbs(R), TypeInv, Arranged(R), [Next]_vars,
           ~Duplicate, Overtake => Symmetric(R)
    PROVE  Arranged(R)'
<1>1. CASE Write
  BY <1>1, WriteOrder
<1>2. CASE ReadBlock
  BY <1>2, ReadOrderKept
<1>3. CASE Truncate
  BY <1>3, TruncateOrder
<1>4. CASE Send
  BY <1>4, SendOrder
<1>5. CASE ReceiveChunk
  BY <1>5, ReceiveOrder
<1>6. CASE BeginDump \/ ClearFile \/ LoseChunk \/ Restart
  BY <1>6, ForgetOrder
<1>7. CASE FinishDump \/ OtherAnswer \/ HearAnswer \/ LoseAnswer \/ UNCHANGED vars
  BY <1>7, OtherOrder
<1>8. CASE Overtake
  BY <1>8, OvertakeOrder
<1>9. QED
  BY <1>1, <1>2, <1>3, <1>4, <1>5, <1>6, <1>7, <1>8 DEF Next

LEMMA SenderOrderStep == SenderOrder /\ [Next]_vars => SenderOrder'
BY DEF SenderOrder, Next, Write, BeginDump, ReadBlock, Truncate, Send, FinishDump,
       ReceiveChunk, OtherAnswer, HearAnswer, ClearFile, LoseChunk, Overtake, Duplicate,
       LoseAnswer, Restart, vars, satVars

\* Lines are apart while nothing is duplicated, and in order while no chunk
\* overtakes another either.
OrderInv ==
    /\ SenderOrder
    /\ duplicates = 0 => Arranged(Apart)
    /\ duplicates = 0 /\ ~overtaken => Arranged(Earlier)

LEMMA OrderInvInit == Init => OrderInv
BY ArrangedInit DEF OrderInv, Arranged

LEMMA OrderInvStep == TypeInv /\ OrderInv /\ [Next]_vars => OrderInv'
<1> SUFFICES ASSUME TypeInv, OrderInv, [Next]_vars PROVE OrderInv'
  OBVIOUS
<1>1. SenderOrder'
  BY SenderOrderStep DEF OrderInv
<1>2. CASE Duplicate
  <2>1. duplicates' # 0
    BY <1>2 DEF Duplicate, TypeInv, NetType
  <2>2. QED
    BY <1>1, <2>1 DEF OrderInv
<1>3. CASE Overtake /\ ~Duplicate
  <2>1. duplicates' = duplicates /\ overtaken'
    BY <1>3 DEF Overtake
  <2>2. duplicates = 0 => Arranged(Apart)'
    BY <1>3, ArrangedStep, BothClimb, ApartSymmetric DEF OrderInv
  <2>3. QED
    BY <1>1, <2>1, <2>2 DEF OrderInv
<1>4. CASE ~Overtake /\ ~Duplicate
  <2>1. UNCHANGED <<overtaken, duplicates>>
    BY <1>4 DEF Next, Write, BeginDump, ReadBlock, Truncate, Send, FinishDump,
       ReceiveChunk, OtherAnswer, HearAnswer, ClearFile, LoseChunk, LoseAnswer, Restart,
       vars, history
  <2>2. duplicates = 0 => Arranged(Apart)'
    BY <1>4, ArrangedStep, BothClimb DEF OrderInv
  <2>3. duplicates = 0 /\ ~overtaken => Arranged(Earlier)'
    BY <1>4, ArrangedStep, BothClimb DEF OrderInv
  <2>4. QED
    BY <1>1, <2>1, <2>2, <2>3 DEF OrderInv
<1>5. QED
  BY <1>2, <1>3, <1>4

\* Whatever is lost or comes out of order, whoever empties the file and however often
\* the satellite is restarted: unless the network duplicates, ground control stores
\* no line twice.
THEOREM LinesStoredOnce == Spec => []StoredOnce
<1>1. TypeInv /\ OrderInv => StoredOnce
  <2> SUFFICES ASSUME TypeInv, OrderInv, duplicates = 0,
                      NEW i \in Whole, NEW j \in Whole, i # j
               PROVE  stored[i][1] # stored[j][1]
    BY DEF StoredOnce
  <2>1. /\ i \in DOMAIN stored /\ j \in DOMAIN stored
        /\ stored[i][1] = stored[i][2] /\ stored[j][1] = stored[j][2]
    BY DEF Whole, IsWhole
  <2>2. LinesRise(Apart, stored)
    BY DEF OrderInv, Arranged, PartsOrder
  <2>3. \A k, l \in DOMAIN stored : k < l => stored[k][2] # stored[l][2]
    BY <2>2 DEF LinesRise, Apart
  <2>4. i \in Nat /\ j \in Nat
    BY <2>1 DEF TypeInv, GroundType
  <2>5. QED
    BY <2>1, <2>3, <2>4
<1>2. QED
  BY <1>1, TypeInvHolds, OrderInvInit, OrderInvStep, PTL DEF Spec

\* And unless it also changes the order, none after a later one.
THEOREM LinesStoredInOrder == Spec => []StoredInOrder
<1>1. OrderInv => StoredInOrder
  <2> SUFFICES ASSUME OrderInv, duplicates = 0, ~overtaken,
                      NEW i \in Whole, NEW j \in Whole, i < j
               PROVE  stored[i][1] < stored[j][1]
    BY DEF StoredInOrder
  <2>1. LinesRise(Earlier, stored)
    BY DEF OrderInv, Arranged, PartsOrder
  <2>2. stored[i][2] < stored[j][2]
    BY <2>1 DEF LinesRise, Earlier, Whole
  <2>3. QED
    BY <2>2 DEF Whole, IsWhole
<1>2. QED
  BY <1>1, TypeInvHolds, OrderInvInit, OrderInvStep, PTL DEF Spec

--------------------------------------------------------------------------------
(* The contents of several chunks, one after the other.                     *)

IsJoin(acc, s, n) ==
    acc = [i \in 0 .. n |-> IF i = 0 THEN <<>> ELSE acc[i - 1] \o s[i].data]

LEMMA JoinExists ==
    ASSUME NEW s, NEW n \in Nat
    PROVE  \E acc : IsJoin(acc, s, n)
<1> DEFINE N == {k \in Nat : \E acc : IsJoin(acc, s, k)}
<1>1. 0 \in N
  <2> DEFINE acc == [i \in 0 .. 0 |-> <<>>]
  <2>1. IsJoin(acc, s, 0)
    BY DEF IsJoin
  <2>2. QED
    BY <2>1
<1>2. ASSUME NEW k \in Nat, k \in N PROVE k + 1 \in N
  <2>1. PICK acc : IsJoin(acc, s, k)
    BY <1>2
  <2> DEFINE longer == [i \in 0 .. k + 1 |->
                           IF i = k + 1 THEN acc[k] \o s[k + 1].data ELSE acc[i]]
  <2>2. ASSUME NEW i \in 0 .. k + 1
        PROVE  longer[i] = IF i = 0 THEN <<>> ELSE longer[i - 1] \o s[i].data
    <3>1. CASE i = 0
      BY <2>1, <3>1 DEF IsJoin
    <3>2. CASE i \in 1 .. k
      <4>1. /\ i \in 0 .. k /\ i - 1 \in 0 .. k /\ i - 1 \in 0 .. k + 1
            /\ i # 0 /\ i # k + 1 /\ i - 1 # k + 1
        BY <3>2
      <4>2. longer[i] = acc[i] /\ longer[i - 1] = acc[i - 1]
        BY <4>1
      <4>3. acc[i] = acc[i - 1] \o s[i].data
        BY <2>1, <4>1 DEF IsJoin
      <4>4. QED
        BY <4>1, <4>2, <4>3
    <3>3. CASE i = k + 1
      <4>1. k \in 0 .. k + 1 /\ k # k + 1 /\ i - 1 = k /\ i # 0
        BY <3>3
      <4>2. longer[k] = acc[k] /\ longer[i] = acc[k] \o s[k + 1].data
        BY <3>3, <4>1
      <4>3. QED
        BY <3>3, <4>1, <4>2, Zenon
    <3>4. QED
      BY <3>1, <3>2, <3>3
  <2>3. longer = [i \in 0 .. k + 1 |->
                     IF i = 0 THEN <<>> ELSE longer[i - 1] \o s[i].data]
    BY <2>2, Zenon
  <2>4. IsJoin(longer, s, k + 1)
    BY <2>3 DEF IsJoin
  <2>5. QED
    BY <2>4
<1>3. Nat \subseteq N
  <2> HIDE DEF N
  <2> QED
    BY <1>1, <1>2, NumbersBySuccessor
<1>4. QED
  BY <1>3

LEMMA JoinUnique ==
    ASSUME NEW s, NEW t, NEW m \in Nat, NEW n \in Nat, NEW g, NEW h,
           IsJoin(g, s, m), IsJoin(h, t, n), m <= n,
           \A i \in 1 .. m : s[i] = t[i]
    PROVE  g[m] = h[m]
<1> DEFINE N == {k \in Nat : k <= m => g[k] = h[k]}
<1>1. 0 \in N
  BY DEF IsJoin
<1>2. ASSUME NEW k \in Nat, k \in N PROVE k + 1 \in N
  <2> SUFFICES ASSUME k + 1 <= m PROVE g[k + 1] = h[k + 1]
    OBVIOUS
  <2>1. g[k] = h[k] /\ s[k + 1] = t[k + 1]
    BY <1>2
  <2>2. /\ k + 1 \in 0 .. m /\ k + 1 \in 0 .. n
        /\ k + 1 # 0 /\ (k + 1) - 1 = k
    OBVIOUS
  <2>3. g[k + 1] = g[(k + 1) - 1] \o s[k + 1].data
    BY <2>2, Zenon DEF IsJoin
  <2>4. h[k + 1] = h[(k + 1) - 1] \o t[k + 1].data
    BY <2>2, Zenon DEF IsJoin
  <2>5. QED
    BY <2>1, <2>2, <2>3, <2>4, Zenon
<1>3. Nat \subseteq N
  <2> HIDE DEF N
  <2> QED
    BY <1>1, <1>2, NumbersBySuccessor
<1>4. QED
  BY <1>3

LEMMA PendingIsJoin ==
    ASSUME NEW S, NEW s \in Seq(S), NEW acc, IsJoin(acc, s, Len(s))
    PROVE  Pending(s) = acc[Len(s)]
<1> DEFINE chosen == CHOOSE a : IsJoin(a, s, Len(s))
<1>1. Pending(s) = chosen[Len(s)]
  BY DEF Pending, IsJoin
<1>2. IsJoin(chosen, s, Len(s))
  BY Zenon
<1> HIDE DEF chosen
<1>3. Len(s) \in Nat
  OBVIOUS
<1>4. chosen[Len(s)] = acc[Len(s)]
  BY <1>2, <1>3, JoinUnique
<1>5. QED
  BY <1>1, <1>4

LEMMA PendingNothing == Pending(<<>>) = <<>>
<1>1. PICK acc : IsJoin(acc, <<>>, 0)
  BY JoinExists
<1>2. <<>> \in Seq(Nat) /\ Len(<<>>) = 0
  OBVIOUS
<1>3. Pending(<<>>) = acc[0]
  BY <1>1, <1>2, PendingIsJoin
<1>4. QED
  BY <1>1, <1>3 DEF IsJoin

LEMMA PendingOneMore ==
    ASSUME NEW S, NEW s \in Seq(S), NEW c \in S
    PROVE  Pending(Append(s, c)) = Pending(s) \o c.data
<1> DEFINE t == Append(s, c)
           n == Len(s)
<1>1. /\ n \in Nat /\ n + 1 \in Nat
      /\ t \in Seq(S) /\ Len(t) = n + 1 /\ t[n + 1] = c
      /\ \A i \in 1 .. n : s[i] = t[i]
  OBVIOUS
<1> HIDE DEF t, n
<1>2. PICK h : IsJoin(h, t, n + 1)
  BY <1>1, JoinExists
<1>3. PICK g : IsJoin(g, s, n)
  BY <1>1, JoinExists
<1>4. Pending(t) = h[n + 1]
  BY <1>1, <1>2, PendingIsJoin
<1>5. Pending(s) = g[n]
  BY <1>3, PendingIsJoin DEF n
<1>6. n <= n + 1
  BY <1>1
<1>7. g[n] = h[n]
  BY <1>1, <1>2, <1>3, <1>6, JoinUnique
<1>8. n + 1 \in 0 .. n + 1 /\ n + 1 # 0 /\ (n + 1) - 1 = n
  BY <1>1
<1>9. h[n + 1] = h[(n + 1) - 1] \o t[n + 1].data
  BY <1>2, <1>8, Zenon DEF IsJoin
<1>10. QED
  BY <1>1, <1>4, <1>5, <1>7, <1>8, <1>9 DEF t

LEMMA PendingType ==
    ASSUME NEW S, NEW cs \in Seq(ChunkOf(S))
    PROVE  Pending(cs) \in Seq(S)
<1> DEFINE T == ChunkOf(S)
           P == {t \in Seq(T) : Pending(t) \in Seq(S)}
<1>1. <<>> \in P
  <2>1. <<>> \in Seq(T) /\ <<>> \in Seq(S)
    OBVIOUS
  <2>2. QED
    BY <2>1, PendingNothing, Zenon
<1>2. ASSUME NEW t \in Seq(T), NEW c \in T, t \in P PROVE Append(t, c) \in P
  <2>1. c.data \in Seq(S) /\ Pending(t) \in Seq(S)
    BY <1>2, ChunkParts
  <2>2. Pending(Append(t, c)) = Pending(t) \o c.data
    BY PendingOneMore
  <2>3. Pending(t) \o c.data \in Seq(S)
    BY <2>1, JoinedLength
  <2>4. Append(t, c) \in Seq(T)
    OBVIOUS
  <2>5. QED
    BY <2>2, <2>3, <2>4
<1>3. Seq(T) \subseteq P
  <2> HIDE DEF P, T
  <2> QED
    BY <1>1, <1>2, SequencesByAppend
<1>4. QED
  BY <1>3

LEMMA PendingJoined ==
    ASSUME NEW S, NEW bs \in Seq(ChunkOf(S)), NEW cs \in Seq(ChunkOf(S))
    PROVE  Pending(bs \o cs) = Pending(bs) \o Pending(cs)
<1> DEFINE T == ChunkOf(S)
           P == {t \in Seq(T) : Pending(bs \o t) = Pending(bs) \o Pending(t)}
<1>1. <<>> \in P
  <2>1. bs \o <<>> = bs /\ Pending(bs) \in Seq(S)
    BY PendingType
  <2>2. Pending(bs) \o <<>> = Pending(bs)
    BY <2>1
  <2>3. QED
    BY <2>1, <2>2, PendingNothing
<1>2. ASSUME NEW t \in Seq(T), NEW c \in T, t \in P PROVE Append(t, c) \in P
  <2>1. bs \o t \in Seq(T) /\ bs \o Append(t, c) = Append(bs \o t, c)
    OBVIOUS
  <2>2. Pending(bs \o Append(t, c)) = Pending(bs \o t) \o c.data
    BY <2>1, PendingOneMore
  <2>3. Pending(Append(t, c)) = Pending(t) \o c.data
    BY PendingOneMore
  <2>4. c.data \in Seq(S) /\ Pending(t) \in Seq(S) /\ Pending(bs) \in Seq(S)
    BY ChunkParts, PendingType
  <2>5. (Pending(bs) \o Pending(t)) \o c.data = Pending(bs) \o (Pending(t) \o c.data)
    <3>1. Associates(S)
      BY JoinAssociative
    <3>2. QED
      BY <2>4, <3>1, Zenon DEF Associates
  <2>6. Append(t, c) \in Seq(T) /\ Pending(bs \o t) = Pending(bs) \o Pending(t)
    BY <1>2
  <2>7. QED
    BY <2>2, <2>3, <2>5, <2>6
<1>3. Seq(T) \subseteq P
  <2> HIDE DEF P, T
  <2> QED
    BY <1>1, <1>2, SequencesByAppend
<1>4. QED
  BY <1>3

\* Chunks put together again are what they were cut from, up to the end of each.
LEMMA PendingChunks ==
    ASSUME NEW S, NEW s \in Seq(S), NEW k \in 0 .. ChunkCount(Len(s))
    PROVE  Pending(SubSeq(Chunks(s), 1, k)) = SubSeq(s, 1, Least(k * ChunkSize, Len(s)))
<1> DEFINE cs == Chunks(s)
           n  == ChunkCount(Len(s))
           b(i) == Least(i * ChunkSize, Len(s))
           N  == {i \in Nat : i <= n =>
                     Pending(SubSeq(cs, 1, i)) = SubSeq(s, 1, b(i))}
<1>1. /\ cs \in Seq(ChunkOf(S)) /\ Len(cs) = n /\ n \in Nat /\ Len(s) \in Nat
      /\ \A i \in 1 .. n : cs[i].data = SubSeq(s, (i - 1) * ChunkSize + 1, b(i))
  <2>1. Len(s) \in Nat
    OBVIOUS
  <2>2. QED
    BY <2>1, ChunksAre, ChunkCountType
<1>2. 0 \in N
  <2>1. SubSeq(cs, 1, 0) = <<>>
    BY <1>1
  <2>2. b(0) = 0
    BY <1>1, TelemetryAssumption DEF Least
  <2> HIDE DEF b
  <2>3. SubSeq(s, 1, b(0)) = <<>>
    BY <2>2
  <2>4. QED
    BY <2>1, <2>3, PendingNothing
<1>3. ASSUME NEW i \in Nat, i \in N PROVE i + 1 \in N
  <2> SUFFICES ASSUME i + 1 <= n
               PROVE  Pending(SubSeq(cs, 1, i + 1)) = SubSeq(s, 1, b(i + 1))
    OBVIOUS
  <2>1. i + 1 \in 1 .. n /\ i <= n /\ (i + 1) - 1 = i
    BY <1>1
  <2>2. i * ChunkSize \in Nat /\ i * ChunkSize <= Len(s)
    BY <1>1, <2>1, ChunkStarts
  <2>3. (i + 1) * ChunkSize = i * ChunkSize + ChunkSize /\ ChunkSize \in Nat
    BY <1>1, <2>1, ChunkStarts, TelemetryAssumption
  <2>4. b(i) = i * ChunkSize
    BY <2>2 DEF Least
  <2>5. b(i + 1) \in Nat /\ b(i) <= b(i + 1) /\ b(i + 1) <= Len(s)
    BY <1>1, <2>2, <2>3, <2>4 DEF Least
  <2>6. Pending(SubSeq(cs, 1, i)) = SubSeq(s, 1, b(i))
    BY <1>3, <2>1
  <2>7. cs[i + 1].data = SubSeq(s, b(i) + 1, b(i + 1))
    BY <1>1, <2>1, <2>4
  <2>8. b(i) \in Nat
    BY <2>2, <2>4
  <2> HIDE DEF b, cs, n
  <2>9. /\ SubSeq(cs, 1, i) \in Seq(ChunkOf(S)) /\ cs[i + 1] \in ChunkOf(S)
        /\ SubSeq(cs, 1, i + 1) = Append(SubSeq(cs, 1, i), cs[i + 1])
    BY <1>1, <2>1
  <2>10. Pending(SubSeq(cs, 1, i + 1)) = SubSeq(s, 1, b(i)) \o SubSeq(s, b(i) + 1, b(i + 1))
    BY <2>6, <2>7, <2>9, PendingOneMore
  <2>11. SubSeq(s, 1, b(i)) \o SubSeq(s, b(i) + 1, b(i + 1)) = SubSeq(s, 1, b(i + 1))
    <3>1. /\ 1 \in 1 .. Len(s) + 1 /\ b(i) \in 1 - 1 .. Len(s) /\ b(i + 1) \in b(i) .. Len(s)
      BY <1>1, <2>5, <2>8
    <3>2. QED
      BY <3>1, ConcatAdjacentSubSeq
  <2>12. QED
    BY <2>10, <2>11
<1>4. Nat \subseteq N
  <2> HIDE DEF N
  <2> QED
    BY <1>2, <1>3, NumbersBySuccessor
<1>5. k \in Nat /\ k <= n
  BY <1>1
<1>6. QED
  BY <1>4, <1>5

--------------------------------------------------------------------------------
(* A dump that ends with a whole line can be decoded by itself.              *)

EndsWhole(s) == DecodeAll(s).from = 0

LEMMA DecodeAfter ==
    ASSUME NEW w \in Nat, NEW before \in Seq(LinesTo(w)), NEW acc \in AccTo(w),
           NEW c \in CellsTo(w)
    PROVE  Decode([from |-> acc.from, out |-> before \o acc.out], c)
             = [from |-> Decode(acc, c).from, out |-> before \o Decode(acc, c).out]
<1> DEFINE joined == [from |-> acc.from, out |-> before \o acc.out]
<1>1. /\ acc.from \in 0 .. w /\ acc.out \in Seq(LinesTo(w))
      /\ acc = [from |-> acc.from, out |-> acc.out]
  BY DEF AccTo
<1>2. CASE c.part = "nul"
  BY <1>1, <1>2 DEF Decode
<1>3. CASE c.part = "head"
  BY <1>1, <1>3 DEF Decode
<1>4. CASE c.part = "tail" /\ acc.from = 0
  BY <1>4 DEF Decode
<1>5. CASE c.part = "tail" /\ acc.from # 0
  <2> DEFINE l == Line(acc.from, c.line)
  <2>1. l \in LinesTo(w)
    BY <1>1, <1>5 DEF Line, LinesTo, CellsTo, Hole
  <2>2. /\ Decode(joined, c) = [from |-> 0, out |-> Append(before \o acc.out, l)]
        /\ Decode(acc, c) = [from |-> 0, out |-> Append(acc.out, l)]
    BY <1>5 DEF Decode
  <2> HIDE DEF l
  <2>3. Append(before \o acc.out, l) = before \o Append(acc.out, l)
    <3> DEFINE S == LinesTo(w)
               out == acc.out
    <3>1. before \in Seq(S) /\ out \in Seq(S) /\ l \in S
      BY <1>1, <2>1
    <3> HIDE DEF S, out
    <3>2. Append(before \o out, l) = before \o Append(out, l)
      BY <3>1
    <3>3. QED
      BY <3>2 DEF out
  <2>4. QED
    BY <2>2, <2>3
<1>6. QED
  BY <1>2, <1>3, <1>4, <1>5 DEF CellsTo, Hole

LEMMA DecodeJoined ==
    ASSUME NEW w \in Nat, NEW s \in Seq(CellsTo(w)), NEW t \in Seq(CellsTo(w)),
           EndsWhole(s)
    PROVE  /\ LinesOf(s \o t) = LinesOf(s) \o LinesOf(t)
           /\ EndsWhole(s \o t) <=> EndsWhole(t)
<1> DEFINE S == CellsTo(w)
           After(u) == [from |-> DecodeAll(u).from, out |-> LinesOf(s) \o DecodeAll(u).out]
           P == {u \in Seq(S) : DecodeAll(s \o u) = After(u)}
<1>1. <<>> \in P
  <2>1. s \o <<>> = s /\ <<>> \in Seq(S)
    OBVIOUS
  <2>2. DecodeAll(s) \in AccTo(w) /\ DecodeAll(s).from = 0
    BY DecodeAllType DEF EndsWhole
  <2>3. DecodeAll(s) = [from |-> 0, out |-> LinesOf(s)] /\ LinesOf(s) \in Seq(LinesTo(w))
    BY <2>2 DEF AccTo, LinesOf
  <2>4. After(<<>>) = [from |-> 0, out |-> LinesOf(s) \o <<>>]
    <3>1. DecodeAll(<<>>).from = 0 /\ DecodeAll(<<>>).out = <<>>
      BY DecodeNothing DEF Before
    <3>2. QED
      BY <3>1, Zenon
  <2>5. LinesOf(s) \o <<>> = LinesOf(s)
    BY <2>3
  <2>6. QED
    BY <2>1, <2>3, <2>4, <2>5
<1>2. ASSUME NEW u \in Seq(S), NEW c \in S, u \in P PROVE Append(u, c) \in P
  <2>1. s \o u \in Seq(S) /\ s \o Append(u, c) = Append(s \o u, c) /\ Append(u, c) \in Seq(S)
    OBVIOUS
  <2>2. DecodeAll(s \o Append(u, c)) = Decode(DecodeAll(s \o u), c)
    BY <2>1, DecodeOneMore
  <2>3. DecodeAll(Append(u, c)) = Decode(DecodeAll(u), c)
    BY DecodeOneMore
  <2>4. DecodeAll(u) \in AccTo(w) /\ LinesOf(s) \in Seq(LinesTo(w))
    BY DecodeAllType, LinesType
  <2>5. DecodeAll(s \o u) = After(u)
    BY <1>2
  <2>6. Decode(After(u), c) = After(Append(u, c))
    BY <2>3, <2>4, DecodeAfter
  <2>7. QED
    BY <2>1, <2>2, <2>5, <2>6
<1>3. Seq(S) \subseteq P
  <2> HIDE DEF P, S
  <2> QED
    BY <1>1, <1>2, SequencesByAppend
<1>4. DecodeAll(s \o t) = After(t)
  BY <1>3
<1>5. After(t).from = DecodeAll(t).from /\ After(t).out = LinesOf(s) \o DecodeAll(t).out
  <2> HIDE DEF S
  <2> QED
    OBVIOUS
<1> HIDE DEF After
<1>6. /\ DecodeAll(s \o t).from = DecodeAll(t).from
      /\ DecodeAll(s \o t).out = LinesOf(s) \o DecodeAll(t).out
  BY <1>4, <1>5
<1>7. LinesOf(s \o t) = LinesOf(s) \o LinesOf(t)
  BY <1>6, Zenon DEF LinesOf
<1>8. EndsWhole(s \o t) <=> EndsWhole(t)
  BY <1>6, Zenon DEF EndsWhole
<1>9. QED
  BY <1>7, <1>8

LEMMA HolesDecode ==
    ASSUME NEW n \in Nat
    PROVE  EndsWhole([i \in 1 .. n |-> Hole]) /\ LinesOf([i \in 1 .. n |-> Hole]) = <<>>
<1> DEFINE P == {u \in Seq({Hole}) : DecodeAll(u) = Before}
<1>1. <<>> \in P
  BY DecodeNothing
<1>2. ASSUME NEW u \in Seq({Hole}), NEW c \in {Hole}, u \in P PROVE Append(u, c) \in P
  <2>1. DecodeAll(Append(u, c)) = Decode(Before, Hole)
    BY <1>2, DecodeOneMore
  <2>2. Decode(Before, Hole) = Before
    BY DEF Decode, Hole
  <2>3. QED
    BY <2>1, <2>2
<1>3. Seq({Hole}) \subseteq P
  <2> HIDE DEF P
  <2> QED
    BY <1>1, <1>2, SequencesByAppend
<1>4. [i \in 1 .. n |-> Hole] \in Seq({Hole})
  OBVIOUS
<1>5. QED
  BY <1>3, <1>4 DEF EndsWhole, LinesOf, Before

LEMMA LineDecodes ==
    ASSUME NEW n \in Nat \ {0}
    PROVE  EndsWhole(CellsOf(n)) /\ LinesOf(CellsOf(n)) = <<Line(n, n)>>
<1> DEFINE h == LineHead(n)
           t == LineTail(n)
           S == CellsTo(n)
           first == Append(<<>>, h)
<1>1. h \in S /\ t \in S
  BY DEF LineHead, LineTail, CellsTo
<1>2. CellsOf(n) = Append(first, t)
  BY DEF CellsOf
<1>3. h.part = "head" /\ h.line = n /\ t.part = "tail" /\ t.line = n
  BY DEF LineHead, LineTail
<1>4. <<>> \in Seq(S) /\ first \in Seq(S)
  BY <1>1
<1> HIDE DEF h, t, S, first
<1>5. DecodeAll(first) = Decode(Before, h)
  BY <1>1, <1>4, DecodeOneMore, DecodeNothing DEF first
<1>6. DecodeAll(CellsOf(n)) = Decode(DecodeAll(first), t)
  BY <1>1, <1>2, <1>4, DecodeOneMore
<1>7. Decode(Before, h) = [from |-> n, out |-> <<>>]
  BY <1>3 DEF Decode, Before
<1>8. DecodeAll(CellsOf(n)) = [from |-> 0, out |-> Append(<<>>, Line(n, n))]
  BY <1>3, <1>5, <1>6, <1>7 DEF Decode
<1>9. QED
  BY <1>8 DEF EndsWhole, LinesOf

\* A file that fits a dump is cut into chunks of which just the last one says so.
LEMMA WholeDump ==
    ASSUME NEW S, NEW s \in Seq(S), Len(s) < DumpLimit
    PROVE  /\ Pending(Chunks(s)) = s
           /\ \A i \in 1 .. Len(Chunks(s)) : Chunks(s)[i].last <=> i = Len(Chunks(s))
<1> DEFINE q  == Len(s) \div ChunkSize
           n  == ChunkCount(Len(s))
           cs == Chunks(s)
<1>1. /\ Len(s) \in Nat /\ q \in Nat /\ q * ChunkSize \in Nat /\ q * ChunkSize <= Len(s)
      /\ Len(s) < (q + 1) * ChunkSize
  BY Quotient
<1>2. MAX_FILE_CHUNKS \in Nat /\ ChunkSize \in Nat /\ Len(s) < MAX_FILE_CHUNKS * ChunkSize
  BY TelemetryAssumption DEF DumpLimit
<1>3. n = q + 1 /\ n \in Nat \ {0}
  <2>1. q < MAX_FILE_CHUNKS
    <3> SUFFICES ASSUME MAX_FILE_CHUNKS <= q PROVE FALSE
      BY <1>1, <1>2
    <3> HIDE DEF q
    <3>1. MAX_FILE_CHUNKS < q + 1 /\ q + 1 \in Nat /\ (q + 1) - 1 = q
      BY <1>1, <1>2
    <3>2. MAX_FILE_CHUNKS * ChunkSize <= q * ChunkSize /\ MAX_FILE_CHUNKS * ChunkSize \in Nat
      BY <1>2, <3>1, ChunkBounds
    <3>3. QED
      BY <1>1, <1>2, <3>2
  <2>2. QED
    BY <1>1, <1>2, <2>1 DEF ChunkCount, Least
<1>4. /\ cs \in Seq(ChunkOf(S)) /\ Len(cs) = n
      /\ \A i \in 1 .. n : cs[i].last <=> i * ChunkSize > Len(s)
  BY ChunksAre
<1>5. n * ChunkSize \in Nat /\ n * ChunkSize > Len(s)
  BY <1>1, <1>2, <1>3
<1>6. ASSUME NEW i \in 1 .. n PROVE i * ChunkSize > Len(s) <=> i = n
  <2>1. CASE i = n
    BY <1>5, <2>1
  <2>2. CASE i < n
    <3>1. i \in Nat /\ n \in Nat /\ n - 1 = q
      BY <1>1, <1>3
    <3> HIDE DEF q, n
    <3>2. i * ChunkSize <= q * ChunkSize /\ i * ChunkSize \in Nat
      BY <2>2, <3>1, ChunkBounds
    <3>3. ~(i * ChunkSize > Len(s)) /\ i # n
      BY <1>1, <2>2, <3>1, <3>2
    <3>4. QED
      BY <3>3
  <2>3. QED
    BY <1>3, <2>1, <2>2
<1>7. Pending(cs) = s
  <2>1. Least(n * ChunkSize, Len(s)) = Len(s)
    BY <1>1, <1>5 DEF Least
  <2>2. n \in 0 .. n
    BY <1>3
  <2>3. Pending(SubSeq(cs, 1, n)) = SubSeq(s, 1, Len(s))
    BY <2>1, <2>2, PendingChunks
  <2> HIDE DEF cs, n
  <2>4. SubSeq(cs, 1, n) = cs /\ SubSeq(s, 1, Len(s)) = s
    BY <1>4
  <2>5. QED
    BY <2>3, <2>4
<1>8. QED
  BY <1>4, <1>6, <1>7

\* The first chunk, and what follows it.
LEMMA PendingHead ==
    ASSUME NEW S, NEW cs \in Seq(ChunkOf(S)), cs # <<>>, NEW k \in 0 .. Len(Tail(cs))
    PROVE  Pending(SubSeq(cs, 1, k + 1)) = Head(cs).data \o Pending(SubSeq(Tail(cs), 1, k))
<1> DEFINE T == ChunkOf(S)
           h == Head(cs)
           t == SubSeq(Tail(cs), 1, k)
<1>1. h \in T /\ Tail(cs) \in Seq(T) /\ h.data \in Seq(S)
  BY HeadAndTail, ChunkParts
<1>2. t \in Seq(T) /\ SubSeq(cs, 1, k + 1) = <<h>> \o t
  <2> HIDE DEF T
  <2> QED
    BY <1>1
<1>3. Pending(<<h>>) = h.data
  <2>1. <<>> \in Seq(T) /\ Append(<<>>, h) = <<h>>
    OBVIOUS
  <2>2. Pending(Append(<<>>, h)) = Pending(<<>>) \o h.data
    BY <1>1, <2>1, PendingOneMore
  <2>3. <<>> \o h.data = h.data
    BY <1>1
  <2>4. QED
    BY <2>1, <2>2, <2>3, PendingNothing
<1> HIDE DEF h, t
<1>4. <<h>> \in Seq(T)
  BY <1>1
<1>5. Pending(<<h>> \o t) = Pending(<<h>>) \o Pending(t)
  BY <1>2, <1>4, PendingJoined
<1>6. QED
  BY <1>2, <1>3, <1>5 DEF h, t

\* b is in the buffer, cs under way, st stored and tk taken: everything taken
\* arrives, and what is put together when a last chunk arrives ends with a line.
Delivered(b, cs, st, tk) ==
    /\ tk = st \o LinesOf(b \o Pending(cs))
    /\ \A k \in 1 .. Len(cs) : cs[k].last => EndsWhole(b \o Pending(SubSeq(cs, 1, k)))
    /\ cs = <<>> => b = <<>>
    /\ cs # <<>> => cs[Len(cs)].last

LEMMA DeliveredWhole ==
    ASSUME NEW w \in Nat, NEW b \in Seq(CellsTo(w)), NEW cs \in Seq(ChunkOf(CellsTo(w))),
           NEW st, NEW tk, Delivered(b, cs, st, tk)
    PROVE  EndsWhole(b \o Pending(cs))
<1>1. CASE cs = <<>>
  <2>1. b = <<>> /\ Pending(cs) = <<>>
    BY <1>1, PendingNothing DEF Delivered
  <2>2. b \o Pending(cs) = <<>>
    BY <2>1
  <2>3. QED
    BY <2>2, DecodeNothing DEF EndsWhole, Before
<1>2. CASE cs # <<>>
  <2> DEFINE T == ChunkOf(CellsTo(w))
  <2> HIDE DEF T
  <2>1. Len(cs) \in 1 .. Len(cs) /\ SubSeq(cs, 1, Len(cs)) = cs
    BY <1>2 DEF T
  <2>2. QED
    BY <1>2, <2>1 DEF Delivered
<1>3. QED
  BY <1>1, <1>2

LEMMA DeliveredTruncate ==
    ASSUME NEW w \in Nat, NEW b \in Seq(CellsTo(w)), NEW cs \in Seq(ChunkOf(CellsTo(w))),
           NEW st \in Seq(LinesTo(w)), NEW tk, Delivered(b, cs, st, tk),
           NEW d \in Seq(CellsTo(w)), EndsWhole(d), Len(d) < DumpLimit
    PROVE  Delivered(b, cs \o Chunks(d), st, tk \o LinesOf(d))
<1> DEFINE S == CellsTo(w)
           T == ChunkOf(S)
           ds == Chunks(d)
           all == cs \o ds
           n == Len(cs)
           m == Len(ds)
           old == b \o Pending(cs)
<1>1. ds \in Seq(T) /\ Pending(ds) = d /\ m \in Nat \ {0}
      /\ \A i \in 1 .. m : ds[i].last <=> i = m
  <2>1. ds \in Seq(T) /\ m = ChunkCount(Len(d)) /\ Len(d) \in Nat
    BY ChunksAre
  <2>2. m \in Nat \ {0}
    BY <2>1, ChunkCountType
  <2>3. QED
    BY <2>1, <2>2, WholeDump
<1>2. Pending(cs) \in Seq(S) /\ old \in Seq(S)
  <2>1. Pending(cs) \in Seq(S)
    BY PendingType
  <2>2. QED
    BY <2>1, JoinedLength
<1>3. EndsWhole(old)
  BY DeliveredWhole
<1>4. b \o Pending(all) = old \o d
  <2>1. Pending(all) = Pending(cs) \o d
    BY <1>1, PendingJoined
  <2>2. b \in Seq(S) /\ Pending(cs) \in Seq(S) /\ d \in Seq(S)
    BY <1>2
  <2> HIDE DEF S, all
  <2>3. (b \o Pending(cs)) \o d = b \o (Pending(cs) \o d)
    <3>1. Associates(S)
      BY JoinAssociative
    <3>2. QED
      BY <2>2, <3>1, Zenon DEF Associates
  <2>4. QED
    BY <2>1, <2>3
<1>5. LinesOf(old \o d) = LinesOf(old) \o LinesOf(d) /\ EndsWhole(old \o d)
  BY <1>2, <1>3, DecodeJoined
<1>6. /\ all \in Seq(T) /\ Len(all) = n + m /\ n \in Nat
      /\ \A k \in 1 .. n : all[k] = cs[k]
      /\ \A k \in 1 .. n + m : k \in 1 .. n \/ (k - n \in 1 .. m /\ all[k] = ds[k - n])
  BY <1>1, JoinedAt
<1>7. \A k \in 1 .. n : SubSeq(all, 1, k) = SubSeq(cs, 1, k)
  <2> HIDE DEF all, ds, T
  <2> QED
    BY <1>6
<1>8. SubSeq(all, 1, n + m) = all
  <2> HIDE DEF all, ds, T
  <2> QED
    BY <1>6
<1>9. \A k \in 1 .. n + m : all[k].last => EndsWhole(b \o Pending(SubSeq(all, 1, k)))
  <2> SUFFICES ASSUME NEW k \in 1 .. n + m, all[k].last
               PROVE  EndsWhole(b \o Pending(SubSeq(all, 1, k)))
    OBVIOUS
  <2>1. CASE k \in 1 .. n
    BY <1>6, <1>7, <2>1 DEF Delivered
  <2>2. CASE k - n \in 1 .. m /\ all[k] = ds[k - n]
    <3>1. k - n = m
      BY <1>1, <2>2
    <3>2. k = n + m
      BY <1>1, <1>6, <3>1
    <3>3. QED
      BY <1>4, <1>5, <1>8, <3>2
  <2>3. QED
    BY <1>6, <2>1, <2>2
<1>10. all # <<>> /\ all[Len(all)].last
  <2>1. Len(all) \in 1 .. n + m /\ Len(all) \notin 1 .. n /\ Len(all) - n = m
    BY <1>1, <1>6
  <2>2. \A k \in 1 .. n + m :
            k \in 1 .. n \/ (k - n \in 1 .. m /\ all[k] = ds[k - n])
    BY <1>6
  <2>3. all[Len(all)] = ds[m] /\ m \in 1 .. m
    <3> HIDE DEF all, ds, n, m
    <3>1. all[Len(all)] = ds[Len(all) - n]
      BY <2>1, <2>2, Zenon
    <3>2. QED
      BY <1>1, <2>1, <3>1
  <2>4. all # <<>>
    BY <1>1, <1>6
  <2>5. QED
    BY <1>1, <2>3, <2>4
<1>11. tk \o LinesOf(d) = st \o LinesOf(b \o Pending(all))
  <2>1. LinesOf(old) \in Seq(LinesTo(w)) /\ LinesOf(d) \in Seq(LinesTo(w))
    BY <1>2, LinesType
  <2>2. tk = st \o LinesOf(old)
    BY DEF Delivered
  <2> HIDE DEF old
  <2>3. (st \o LinesOf(old)) \o LinesOf(d) = st \o (LinesOf(old) \o LinesOf(d))
    <3>1. Associates(LinesTo(w))
      BY JoinAssociative
    <3>2. QED
      BY <2>1, <3>1, Zenon DEF Associates
  <2>4. QED
    BY <1>4, <1>5, <2>2, <2>3
<1>12. QED
  BY <1>6, <1>9, <1>10, <1>11 DEF Delivered

LEMMA DeliveredReceive ==
    ASSUME NEW w \in Nat, NEW b \in Seq(CellsTo(w)), NEW cs \in Seq(ChunkOf(CellsTo(w))),
           NEW st \in Seq(LinesTo(w)), NEW tk, Delivered(b, cs, st, tk), cs # <<>>
    PROVE  IF Head(cs).last
             THEN Delivered(<<>>, Tail(cs), st \o LinesOf(b \o Head(cs).data), tk)
             ELSE Delivered(b \o Head(cs).data, Tail(cs), st, tk)
<1> DEFINE S == CellsTo(w)
           T == ChunkOf(S)
           h == Head(cs)
           t == Tail(cs)
           n == Len(t)
           first == b \o h.data
           rest(k) == Pending(SubSeq(t, 1, k))
<1>1. /\ h \in T /\ t \in Seq(T) /\ n \in Nat /\ Len(cs) = n + 1 /\ cs[1] = h
      /\ \A k \in 1 .. n : t[k] = cs[k + 1]
  <2>1. h \in T /\ t \in Seq(T) /\ Len(cs) \in Nat \ {0} /\ n = Len(cs) - 1 /\ cs[1] = h
        /\ \A k \in 1 .. Len(cs) - 1 : t[k] = cs[k + 1]
    BY HeadAndTail
  <2>2. QED
    BY <2>1
<1>2. h.data \in Seq(S) /\ first \in Seq(S)
  <2>1. h.data \in Seq(S)
    BY <1>1, ChunkParts
  <2>2. QED
    BY <2>1, JoinedLength
<1>3. \A k \in 0 .. n : rest(k) \in Seq(S)
  <2>1. \A k \in 0 .. n : SubSeq(t, 1, k) \in Seq(T)
    <3> HIDE DEF T, t
    <3> QED
      BY <1>1
  <2>2. QED
    BY <2>1, PendingType
<1>4. \A k \in 0 .. n : b \o Pending(SubSeq(cs, 1, k + 1)) = first \o rest(k)
  <2> SUFFICES ASSUME NEW k \in 0 .. n
               PROVE  b \o Pending(SubSeq(cs, 1, k + 1)) = first \o rest(k)
    OBVIOUS
  <2>1. Pending(SubSeq(cs, 1, k + 1)) = h.data \o rest(k)
    BY PendingHead
  <2>2. rest(k) \in Seq(S) /\ b \in Seq(S)
    BY <1>3
  <2> HIDE DEF rest, h, S
  <2>3. Associates(S)
    BY JoinAssociative
  <2>4. h.data \in Seq(S)
    BY <1>2
  <2>5. (b \o h.data) \o rest(k) = b \o (h.data \o rest(k))
    BY <2>2, <2>3, <2>4, Zenon DEF Associates
  <2>6. QED
    BY <2>1, <2>5
<1>5. SubSeq(cs, 1, n + 1) = cs /\ SubSeq(t, 1, n) = t
  <2> HIDE DEF T, t, h
  <2>1. SubSeq(cs, 1, Len(cs)) = cs
    OBVIOUS
  <2>2. QED
    BY <1>1, <2>1
<1>6. tk = st \o LinesOf(first \o Pending(t))
  <2>1. n \in 0 .. n
    BY <1>1
  <2>2. b \o Pending(cs) = first \o Pending(t)
    BY <1>4, <1>5, <2>1
  <2>3. QED
    BY <2>2 DEF Delivered
<1>7. \A k \in 1 .. n : t[k].last => EndsWhole(first \o rest(k))
  <2> SUFFICES ASSUME NEW k \in 1 .. n, t[k].last PROVE EndsWhole(first \o rest(k))
    OBVIOUS
  <2>1. k + 1 \in 1 .. Len(cs) /\ cs[k + 1].last /\ k \in 0 .. n
    BY <1>1
  <2>2. EndsWhole(b \o Pending(SubSeq(cs, 1, k + 1)))
    BY <2>1 DEF Delivered
  <2>3. QED
    BY <1>4, <2>1, <2>2
<1>8. t # <<>> => t[Len(t)].last
  <2> SUFFICES ASSUME t # <<>> PROVE t[n].last
    OBVIOUS
  <2>1. n \in 1 .. n
    <3> HIDE DEF T, t
    <3> QED
      BY <1>1
  <2>2. cs[Len(cs)].last
    BY DEF Delivered
  <2>3. QED
    BY <1>1, <2>1, <2>2
<1>9. t = <<>> => h.last
  <2> SUFFICES ASSUME t = <<>> PROVE h.last
    OBVIOUS
  <2>1. Len(<<>>) = 0
    OBVIOUS
  <2>2. Len(cs) = 1
    <3>1. n = 0
      BY <2>1
    <3>2. Len(cs) = n + 1
      BY <1>1
    <3> HIDE DEF n
    <3>3. QED
      BY <3>1, <3>2
  <2>3. QED
    BY <1>1, <2>2 DEF Delivered
<1>10. CASE ~h.last
  BY <1>6, <1>7, <1>8, <1>9, <1>10 DEF Delivered
<1>11. CASE h.last
  <2>1. EndsWhole(first)
    <3>1. 0 \in 0 .. n /\ 1 \in 1 .. Len(cs) /\ 0 + 1 = 1
      BY <1>1
    <3>2. EndsWhole(b \o Pending(SubSeq(cs, 1, 1)))
      BY <1>1, <1>11, <3>1 DEF Delivered
    <3>3. SubSeq(t, 1, 0) = <<>>
      <4> HIDE DEF T, t
      <4> QED
        BY <1>1
    <3>4. first \o rest(0) = first
      <4>1. rest(0) = <<>>
        BY <3>3, PendingNothing
      <4> HIDE DEF first, rest
      <4>2. QED
        BY <1>2, <4>1
    <3>5. QED
      BY <1>4, <3>1, <3>2, <3>4
  <2>2. \A k \in 0 .. n :
            /\ LinesOf(first \o rest(k)) = LinesOf(first) \o LinesOf(rest(k))
            /\ EndsWhole(first \o rest(k)) <=> EndsWhole(rest(k))
    BY <1>2, <1>3, <2>1, DecodeJoined
  <2>3. \A k \in 0 .. n : <<>> \o rest(k) = rest(k)
    <3> HIDE DEF rest
    <3> QED
      BY <1>3
  <2>4. \A k \in 1 .. n : t[k].last => EndsWhole(<<>> \o rest(k))
    <3>1. \A k \in 1 .. n : k \in 0 .. n
      OBVIOUS
    <3>2. QED
      BY <1>7, <2>2, <2>3, <3>1
  <2>5. tk = (st \o LinesOf(first)) \o LinesOf(<<>> \o Pending(t))
    <3>1. n \in 0 .. n /\ rest(n) = Pending(t)
      <4>1. n \in 0 .. n
        BY <1>1
      <4>2. rest(n) = Pending(t)
        BY <1>5
      <4>3. QED
        BY <4>1, <4>2
    <3>2. LinesOf(first) \in Seq(LinesTo(w)) /\ LinesOf(Pending(t)) \in Seq(LinesTo(w))
      BY <1>2, <1>3, <3>1, LinesType
    <3>3. LinesOf(first \o Pending(t)) = LinesOf(first) \o LinesOf(Pending(t))
      BY <2>2, <3>1
    <3>4. <<>> \o Pending(t) = Pending(t)
      BY <2>3, <3>1
    <3> HIDE DEF first, t
    <3>5. Associates(LinesTo(w))
      BY JoinAssociative
    <3>6. (st \o LinesOf(first)) \o LinesOf(Pending(t))
            = st \o (LinesOf(first) \o LinesOf(Pending(t)))
      BY <3>2, <3>5, Zenon DEF Associates
    <3>7. QED
      BY <1>6, <3>3, <3>4, <3>6
  <2>6. QED
    BY <1>8, <1>11, <2>4, <2>5 DEF Delivered
<1>12. QED
  BY <1>10, <1>11

--------------------------------------------------------------------------------
(* On a reliable network, and while a dump is read in one piece, what is read from  *)
(* the file arrives.                                                         *)

\* The whole log fits the buffer of the stream that reads it, and a dump.
ShortLog == Len(file) < BlockSize /\ Len(file) < DumpLimit

DumpWhole ==
    /\ EndsWhole(file)
    /\ sender = "reading" => data = <<>>
    /\ sender = "read" => EndsWhole(data) /\ Len(data) < DumpLimit

DeliveryInv == DumpWhole /\ Delivered(buffer, net \o chunks, stored, taken)

LEMMA NothingWhole == EndsWhole(<<>>)
BY DecodeNothing DEF EndsWhole, Before

LEMMA DeliveryInvInit == Init => DeliveryInv
<1> SUFFICES ASSUME Init PROVE DeliveryInv
  OBVIOUS
<1>1. DumpWhole
  BY NothingWhole DEF Init, DumpWhole
<1>2. net \o chunks = <<>> /\ buffer = <<>> /\ stored = <<>> /\ taken = <<>>
  BY DEF Init
<1>3. <<>> \o <<>> = <<>> /\ Len(<<>>) = 0
  OBVIOUS
<1>4. LinesOf(<<>> \o Pending(<<>>)) = <<>>
  <2>1. Pending(<<>>) = <<>> /\ LinesOf(<<>>) = <<>>
    BY PendingNothing, DecodeNothing DEF LinesOf, Before
  <2>2. QED
    BY <1>3, <2>1
<1>5. Delivered(<<>>, <<>>, <<>>, <<>>)
  BY <1>3, <1>4 DEF Delivered
<1>6. QED
  BY <1>1, <1>2, <1>5 DEF DeliveryInv

\* A line, and the hole in front of it, leave whole lines.
LEMMA WriteDelivers ==
    ASSUME TypeInv, DeliveryInv, Write
    PROVE  DeliveryInv'
<1> DEFINE w == written + 1
           nuls == [i \in 1 .. pos - Len(file) |-> Hole]
           text == CellsOf(w)
<1>1. /\ pos - Len(file) \in Nat /\ w \in Nat \ {0} /\ written \in Nat /\ written <= w
  BY DEF TypeInv, FileType
<1>2. nuls \in Seq(CellsTo(w)) /\ text \in Seq(CellsTo(w)) /\ file \in Seq(CellsTo(w))
  BY <1>1, HolesAreCells, LineIsCells, TypesGrow DEF TypeInv, FileType
<1>3. EndsWhole(nuls) /\ EndsWhole(text) /\ EndsWhole(file)
  BY <1>1, HolesDecode, LineDecodes DEF DeliveryInv, DumpWhole
<1>4. /\ file' = (file \o nuls) \o text
      /\ UNCHANGED <<sender, data, chunks, net, buffer, stored, taken>>
  BY WriteAppends DEF TypeInv, Write, gcVars, history
<1> HIDE DEF nuls, text, w
<1>5. EndsWhole(file \o nuls)
  BY <1>1, <1>2, <1>3, DecodeJoined
<1>6. file \o nuls \in Seq(CellsTo(w))
  BY <1>2, JoinedLength
<1>7. EndsWhole((file \o nuls) \o text)
  <2> DEFINE padded == file \o nuls
  <2>1. padded \in Seq(CellsTo(w)) /\ EndsWhole(padded)
    BY <1>5, <1>6
  <2> HIDE DEF padded
  <2>2. EndsWhole(padded \o text)
    BY <1>1, <1>2, <1>3, <2>1, DecodeJoined
  <2>3. QED
    BY <2>2 DEF padded
<1>8. DumpWhole'
  BY <1>4, <1>7 DEF DeliveryInv, DumpWhole
<1>9. QED
  BY <1>4, <1>8 DEF DeliveryInv

\* A short log is read in one piece.
LEMMA ReadWhole ==
    ASSUME TypeInv, DeliveryInv, ShortLog, ReadBlock
    PROVE  data' = file /\ sender' = "read"
<1> DEFINE upTo == Least(Len(data) + BlockSize, DumpLimit)
           end  == Least(Len(file), upTo)
<1>1. /\ file \in Seq(CellsTo(written)) /\ Len(file) \in Nat
      /\ BlockSize \in Nat /\ DumpLimit \in Nat
  BY TelemetryAssumption DEF TypeInv, FileType, DumpLimit
<1>2. data = <<>>
  BY DEF DeliveryInv, DumpWhole, ReadBlock
<1>3. Len(data) = 0
  BY <1>2
<1>4. Len(data) + BlockSize = BlockSize /\ Len(data) + 1 = 1
  BY <1>1, <1>3
<1>5. end = Len(file) /\ Len(file) < upTo
  BY <1>1, <1>4 DEF Least, ShortLog
<1>6. /\ data' = data \o SubSeq(file, Len(data) + 1, end)
      /\ sender' = IF Len(data') < upTo \/ upTo = DumpLimit THEN "read" ELSE sender
  BY Zenon DEF ReadBlock
<1> HIDE DEF upTo, end
<1>7. SubSeq(file, Len(data) + 1, end) = file
  <2>1. SubSeq(file, 1, Len(file)) = file
    BY <1>1
  <2>2. QED
    BY <1>4, <1>5, <2>1
<1>8. data' = file
  <2>1. <<>> \o file = file
    BY <1>1
  <2>2. QED
    BY <1>2, <1>6, <1>7, <2>1
<1>9. QED
  BY <1>5, <1>6, <1>8

LEMMA ReadDelivers ==
    ASSUME TypeInv, DeliveryInv, ShortLog, ReadBlock
    PROVE  DeliveryInv'
<1>1. data' = file /\ sender' = "read"
  BY ReadWhole
<1>2. UNCHANGED <<file, chunks, net, buffer, stored, taken>>
  BY DEF ReadBlock, gcVars, history
<1>3. DumpWhole'
  BY <1>1, <1>2 DEF DeliveryInv, DumpWhole, ShortLog
<1>4. QED
  BY <1>2, <1>3 DEF DeliveryInv

\* The dump that is cut into chunks is one more piece under way.
LEMMA TruncateDelivers ==
    ASSUME TypeInv, OrderInv, DeliveryInv, Truncate
    PROVE  DeliveryInv'
<1> DEFINE S == CellsTo(written)
<1>1. /\ chunks = <<>> /\ EndsWhole(data) /\ Len(data) < DumpLimit
  BY DEF OrderInv, SenderOrder, DeliveryInv, DumpWhole, Truncate
<1>2. /\ written \in Nat /\ buffer \in Seq(S) /\ net \in Seq(ChunkOf(S))
      /\ stored \in Seq(LinesTo(written)) /\ data \in Seq(S)
  BY DEF TypeInv, FileType, SenderType, NetType, GroundType
<1>3. net \o chunks = net
  BY <1>1, <1>2
<1>4. Delivered(buffer, net, stored, taken)
  BY <1>3 DEF DeliveryInv
<1>5. Delivered(buffer, net \o Chunks(data), stored, taken \o LinesOf(data))
  BY <1>1, <1>2, <1>4, DeliveredTruncate
<1>6. /\ sender' = "sending" /\ file' = <<>> /\ chunks' = Chunks(data)
      /\ taken' = taken \o LinesOf(data) /\ UNCHANGED <<net, buffer, stored>>
  BY DEF Truncate, gcVars, history
<1>7. DumpWhole'
  BY <1>6, NothingWhole DEF DumpWhole
<1>8. QED
  BY <1>5, <1>6, <1>7 DEF DeliveryInv

\* Sending moves a chunk, it does not change what is under way.
LEMMA SendDelivers ==
    ASSUME TypeInv, DeliveryInv, ~Unreliable, Send
    PROVE  DeliveryInv'
<1> DEFINE T == ChunkOf(CellsTo(written))
<1>1. /\ net \in Seq(T) /\ chunks \in Seq(T) /\ chunks # <<>>
  BY DEF TypeInv, SenderType, NetType, Send
<1>2. /\ net' = Append(net, Head(chunks)) /\ chunks' = Tail(chunks)
      /\ UNCHANGED <<sender, file, data, buffer, stored, taken>>
  BY DEF Send, gcVars, history
<1> HIDE DEF T
<1>3. net' \o chunks' = net \o chunks
  BY <1>1, <1>2
<1>4. DumpWhole'
  BY <1>2 DEF DeliveryInv, DumpWhole
<1>5. QED
  BY <1>2, <1>3, <1>4 DEF DeliveryInv

\* The first chunk under way arrives.
LEMMA ReceiveDelivers ==
    ASSUME TypeInv, DeliveryInv, ReceiveChunk
    PROVE  DeliveryInv'
<1> DEFINE S == CellsTo(written)
           T == ChunkOf(S)
           cs == net \o chunks
           whole == buffer \o Head(net).data
<1>1. /\ net # <<>> /\ net' = Tail(net) /\ UNCHANGED <<satVars, taken>>
      /\ IF Head(net).last
           THEN buffer' = <<>> /\ stored' = stored \o LinesOf(whole)
           ELSE buffer' = whole /\ stored' = stored
  BY Zenon DEF ReceiveChunk, Display, history
<1>2. /\ written \in Nat /\ buffer \in Seq(S) /\ net \in Seq(T) /\ chunks \in Seq(T)
      /\ stored \in Seq(LinesTo(written))
  BY DEF TypeInv, FileType, SenderType, NetType, GroundType
<1>3. cs \in Seq(T) /\ cs # <<>> /\ Head(cs) = Head(net) /\ Tail(cs) = Tail(net) \o chunks
  <2> HIDE DEF T
  <2> QED
    BY <1>1, <1>2
<1>4. Delivered(buffer, cs, stored, taken)
  BY DEF DeliveryInv
<1> HIDE DEF cs
<1>5. IF Head(cs).last
        THEN Delivered(<<>>, Tail(cs), stored \o LinesOf(buffer \o Head(cs).data), taken)
        ELSE Delivered(buffer \o Head(cs).data, Tail(cs), stored, taken)
  BY <1>2, <1>3, <1>4, DeliveredReceive
<1>6. chunks' = chunks /\ taken' = taken /\ UNCHANGED <<sender, data, file>>
  BY <1>1 DEF satVars
<1>7. net' \o chunks' = Tail(cs)
  BY <1>1, <1>3, <1>6
<1>8. Delivered(buffer', net' \o chunks', stored', taken')
  BY <1>1, <1>3, <1>5, <1>6, <1>7
<1>9. DumpWhole'
  BY <1>6 DEF DeliveryInv, DumpWhole
<1>10. QED
  BY <1>8, <1>9 DEF DeliveryInv

LEMMA OtherDelivers ==
    ASSUME DeliveryInv,
           BeginDump \/ FinishDump \/ OtherAnswer \/ HearAnswer \/ ClearFile
           \/ UNCHANGED vars
    PROVE  DeliveryInv'
<1>1. UNCHANGED <<net, chunks, buffer, stored, taken>>
  BY DEF BeginDump, FinishDump, OtherAnswer, HearAnswer, ClearFile, vars, satVars, gcVars, history
<1>2. DumpWhole'
  BY NothingWhole DEF BeginDump, FinishDump, OtherAnswer, HearAnswer, ClearFile, vars,
                      satVars, DeliveryInv, DumpWhole
<1>3. QED
  BY <1>1, <1>2 DEF DeliveryInv

LEMMA DeliveryInvStep ==
    ASSUME ~Unreliable
    PROVE  TypeInv /\ OrderInv /\ ShortLog /\ DeliveryInv /\ [Next]_vars => DeliveryInv'
<1> SUFFICES ASSUME TypeInv, OrderInv, ShortLog, DeliveryInv, [Next]_vars
             PROVE  DeliveryInv'
  OBVIOUS
<1>1. CASE Write
  BY <1>1, WriteDelivers
<1>2. CASE ReadBlock
  BY <1>2, ReadDelivers
<1>3. CASE Truncate
  BY <1>3, TruncateDelivers
<1>4. CASE Send
  BY <1>4, SendDelivers
<1>5. CASE ReceiveChunk
  BY <1>5, ReceiveDelivers
<1>6. CASE BeginDump \/ FinishDump \/ OtherAnswer \/ HearAnswer \/ ClearFile \/ UNCHANGED vars
  BY <1>6, OtherDelivers
<1>7. ~LoseChunk /\ ~Overtake /\ ~Duplicate /\ ~LoseAnswer /\ ~Restart
  BY DEF LoseChunk, Overtake, Duplicate, LoseAnswer, Restart
<1>8. QED
  BY <1>1, <1>2, <1>3, <1>4, <1>5, <1>6, <1>7 DEF Next

LEMMA DeliveryInvArrives == TypeInv /\ DeliveryInv => WhatIsReadArrives
<1> SUFFICES ASSUME TypeInv, DeliveryInv PROVE WhatIsReadArrives
  OBVIOUS
<1> DEFINE S == CellsTo(written)
<1>1. buffer \in Seq(S) /\ net \in Seq(ChunkOf(S)) /\ chunks \in Seq(ChunkOf(S))
  BY DEF TypeInv, SenderType, NetType, GroundType
<1>2. Pending(net) \in Seq(S) /\ Pending(chunks) \in Seq(S)
  BY <1>1, PendingType
<1>3. Pending(net \o chunks) = Pending(net) \o Pending(chunks)
  BY <1>1, PendingJoined
<1>4. taken = stored \o LinesOf(buffer \o Pending(net \o chunks))
  BY DEF DeliveryInv, Delivered
<1> HIDE DEF S
<1>5. Associates(S)
  BY JoinAssociative
<1>6. (buffer \o Pending(net)) \o Pending(chunks) = buffer \o (Pending(net) \o Pending(chunks))
  BY <1>1, <1>2, <1>5, Zenon DEF Associates
<1>7. QED
  BY <1>3, <1>4, <1>6 DEF WhatIsReadArrives

\* On a reliable network, without restarts, and while the log fits the reader's buffer and a
\* dump: every line that is read, and then removed from the file, is on its way
\* or stored, however dumps, answers and new lines fall together.
THEOREM ReadLinesArrive ==
    ASSUME ~Unreliable
    PROVE  Spec /\ []ShortLog => []WhatIsReadArrives
<1>1. TypeInv /\ DeliveryInv => WhatIsReadArrives
  BY DeliveryInvArrives
<1>2. TypeInv /\ OrderInv /\ ShortLog /\ DeliveryInv /\ [Next]_vars => DeliveryInv'
  BY DeliveryInvStep
<1>3. QED
  BY <1>1, <1>2, TypeInvHolds, OrderInvInit, OrderInvStep, DeliveryInvInit, PTL DEF Spec

--------------------------------------------------------------------------------
(* The transfer keeps its promise.  A dump that is read in one piece consists *)
(* of whole lines, and so does what is stored of it.                         *)

AllWhole(lines) == \A i \in DOMAIN lines : IsWhole(lines[i])

WholeInv ==
    /\ AllWhole(LinesOf(file))
    /\ sender = "read" => AllWhole(LinesOf(data))
    /\ AllWhole(taken)

LEMMA WholeJoined ==
    ASSUME NEW S, NEW s \in Seq(S), NEW t \in Seq(S)
    PROVE  AllWhole(s \o t) <=> AllWhole(s) /\ AllWhole(t)
<1> DEFINE st == s \o t
           m  == Len(s)
           n  == Len(t)
<1>1. /\ DOMAIN s = 1 .. m /\ DOMAIN t = 1 .. n /\ DOMAIN st = 1 .. m + n
      /\ m \in Nat /\ n \in Nat
  BY JoinedAt
<1>2. \A i \in 1 .. m : st[i] = s[i] /\ i \in 1 .. m + n
  BY <1>1, JoinedAt
<1>3. \A i \in 1 .. n : st[m + i] = t[i] /\ m + i \in 1 .. m + n
  BY <1>1, JoinedAt
<1>4. \A i \in 1 .. m + n : i \in 1 .. m \/ (i - m \in 1 .. n /\ st[i] = t[i - m])
  BY JoinedAt
<1> HIDE DEF st, m, n
<1>5. QED
  BY <1>1, <1>2, <1>3, <1>4 DEF AllWhole, st

LEMMA NothingWholeLines == LinesOf(<<>>) = <<>> /\ AllWhole(<<>>)
BY DecodeNothing DEF LinesOf, Before, AllWhole

LEMMA WholeInvInit == Init => WholeInv
BY NothingWholeLines DEF Init, WholeInv

\* The line that is written is whole, holes leave no line.
LEMMA WriteWhole ==
    ASSUME TypeInv, DeliveryInv, WholeInv, Write
    PROVE  WholeInv'
<1> DEFINE w == written + 1
           nuls == [i \in 1 .. pos - Len(file) |-> Hole]
           text == CellsOf(w)
           padded == file \o nuls
<1>1. /\ pos - Len(file) \in Nat /\ w \in Nat \ {0} /\ written \in Nat /\ written <= w
  BY DEF TypeInv, FileType
<1>2. nuls \in Seq(CellsTo(w)) /\ text \in Seq(CellsTo(w)) /\ file \in Seq(CellsTo(w))
  BY <1>1, HolesAreCells, LineIsCells, TypesGrow DEF TypeInv, FileType
<1>3. EndsWhole(nuls) /\ EndsWhole(file) /\ AllWhole(LinesOf(file))
  BY <1>1, HolesDecode DEF DeliveryInv, DumpWhole, WholeInv
<1>4. LinesOf(nuls) = <<>> /\ LinesOf(text) = <<Line(w, w)>>
  BY <1>1, HolesDecode, LineDecodes
<1>5. AllWhole(<<>>) /\ AllWhole(<<Line(w, w)>>)
  <2>1. IsWhole(Line(w, w))
    BY DEF IsWhole, Line
  <2>2. DOMAIN <<Line(w, w)>> = {1} /\ <<Line(w, w)>>[1] = Line(w, w)
    OBVIOUS
  <2>3. QED
    BY <2>1, <2>2, NothingWholeLines DEF AllWhole
<1>6. /\ file' = padded \o text
      /\ UNCHANGED <<sender, data, taken>>
  BY WriteAppends DEF TypeInv, Write, history
<1> HIDE DEF nuls, text, w
<1>7. /\ padded \in Seq(CellsTo(w))
      /\ LinesOf(padded) = LinesOf(file) \o LinesOf(nuls)
      /\ EndsWhole(padded)
  BY <1>1, <1>2, <1>3, JoinedLength, DecodeJoined
<1>8. LinesOf(file) \in Seq(LinesTo(w)) /\ LinesOf(nuls) \in Seq(LinesTo(w))
      /\ LinesOf(text) \in Seq(LinesTo(w))
  BY <1>1, <1>2, LinesType
<1>9. LinesOf(padded) \in Seq(LinesTo(w)) /\ AllWhole(LinesOf(padded))
  <2>1. AllWhole(LinesOf(file) \o LinesOf(nuls))
    BY <1>3, <1>4, <1>5, <1>8, WholeJoined
  <2>2. LinesOf(file) \o LinesOf(nuls) \in Seq(LinesTo(w))
    BY <1>8, JoinedLength
  <2>3. QED
    BY <1>7, <2>1, <2>2
<1> HIDE DEF padded
<1>10. LinesOf(padded \o text) = LinesOf(padded) \o LinesOf(text)
  BY <1>1, <1>2, <1>7, DecodeJoined
<1>11. AllWhole(LinesOf(padded) \o LinesOf(text))
  BY <1>4, <1>5, <1>8, <1>9, WholeJoined
<1>12. QED
  BY <1>6, <1>10, <1>11 DEF WholeInv

LEMMA WholeInvStep ==
    ASSUME ~Unreliable
    PROVE  TypeInv /\ OrderInv /\ ShortLog /\ DeliveryInv /\ WholeInv /\ [Next]_vars
             => WholeInv'
<1> SUFFICES ASSUME TypeInv, OrderInv, ShortLog, DeliveryInv, WholeInv, [Next]_vars
             PROVE  WholeInv'
  OBVIOUS
<1>1. CASE Write
  BY <1>1, WriteWhole
<1>2. CASE ReadBlock
  <2>1. data' = file /\ UNCHANGED <<file, taken>>
    BY <1>2, ReadWhole DEF ReadBlock, history
  <2>2. QED
    BY <2>1 DEF WholeInv
<1>3. CASE Truncate
  <2>1. /\ file' = <<>> /\ sender' = "sending" /\ taken' = taken \o LinesOf(data)
        /\ AllWhole(LinesOf(data)) /\ AllWhole(taken)
    BY <1>3 DEF Truncate, WholeInv
  <2>2. /\ taken \in Seq(LinesTo(written)) /\ LinesOf(data) \in Seq(LinesTo(written))
    BY LinesType DEF TypeInv, FileType, SenderType, GroundType
  <2>3. AllWhole(taken')
    BY <2>1, <2>2, WholeJoined
  <2>4. QED
    BY <2>1, <2>3, NothingWholeLines DEF WholeInv
<1>4. CASE BeginDump \/ Send \/ FinishDump \/ ReceiveChunk \/ OtherAnswer \/ HearAnswer
           \/ ClearFile \/ UNCHANGED vars
  <2>1. /\ file' \in {file, <<>>} /\ taken' = taken
        /\ sender' = "read" => sender = "read" /\ data' = data
    BY <1>4 DEF BeginDump, Send, FinishDump, ReceiveChunk, OtherAnswer, HearAnswer,
                ClearFile, vars, satVars, history
  <2>2. QED
    BY <2>1, NothingWholeLines DEF WholeInv
<1>5. ~LoseChunk /\ ~Overtake /\ ~Duplicate /\ ~LoseAnswer /\ ~Restart
  BY DEF LoseChunk, Overtake, Duplicate, LoseAnswer, Restart
<1>6. QED
  BY <1>1, <1>2, <1>3, <1>4, <1>5 DEF Next

\* What is stored is a part of what was read.
LEMMA StoredWhole ==
    ASSUME TypeInv, DeliveryInv, WholeInv
    PROVE  AllWhole(stored)
<1> DEFINE S == CellsTo(written)
           rest == LinesOf(buffer \o Pending(net \o chunks))
<1>1. /\ buffer \in Seq(S) /\ net \in Seq(ChunkOf(S)) /\ chunks \in Seq(ChunkOf(S))
      /\ stored \in Seq(LinesTo(written)) /\ written \in Nat
  BY DEF TypeInv, FileType, SenderType, NetType, GroundType
<1>2. net \o chunks \in Seq(ChunkOf(S))
  BY <1>1, JoinedLength
<1>3. Pending(net \o chunks) \in Seq(S)
  BY <1>2, PendingType
<1>4. buffer \o Pending(net \o chunks) \in Seq(S)
  BY <1>1, <1>3, JoinedLength
<1>5. rest \in Seq(LinesTo(written))
  BY <1>1, <1>4, LinesType
<1>6. taken = stored \o rest /\ AllWhole(taken)
  BY DEF DeliveryInv, Delivered, WholeInv
<1> HIDE DEF rest
<1>7. QED
  BY <1>1, <1>5, <1>6, WholeJoined

\* What the refinement mapping makes of the lines that are stored.
Kept(s) == [i \in DOMAIN s |-> IF IsWhole(s[i]) THEN s[i][1] ELSE 0]

LEMMA KeptNothing == Kept(<<>>) = <<>>
BY DEF Kept

LEMMA KeptType ==
    ASSUME NEW w \in Nat, NEW s \in Seq(LinesTo(w)), AllWhole(s)
    PROVE  /\ Kept(s) \in Seq(1 .. w) /\ Len(Kept(s)) = Len(s) /\ Len(s) \in Nat
           /\ DOMAIN s = 1 .. Len(s) /\ DOMAIN Kept(s) = 1 .. Len(s)
           /\ \A i \in 1 .. Len(s) :
                 /\ Kept(s)[i] = s[i][2] /\ s[i][2] \in 1 .. w
                 /\ s[i][1] = s[i][2]
<1> DEFINE g == Kept(s)
           n == Len(s)
<1>1. n \in Nat /\ DOMAIN s = 1 .. n /\ \A i \in 1 .. n : s[i] \in LinesTo(w)
  OBVIOUS
<1>2. \A i \in 1 .. n : s[i][2] \in 1 .. w /\ s[i][1] = s[i][2]
  BY <1>1 DEF AllWhole, IsWhole, LinesTo
<1>3. g = [i \in 1 .. n |-> IF IsWhole(s[i]) THEN s[i][1] ELSE 0]
  BY <1>1 DEF Kept
<1>4. \A i \in 1 .. n : g[i] = s[i][2]
  BY <1>1, <1>2, <1>3 DEF AllWhole
<1>5. g \in [1 .. n -> 1 .. w]
  BY <1>2, <1>3, <1>4
<1> HIDE DEF g, n
<1>6. g \in Seq(1 .. w) /\ Len(g) = n /\ DOMAIN g = 1 .. n
  BY <1>1, <1>5
<1>7. QED
  BY <1>1, <1>2, <1>4, <1>6 DEF g, n

LEMMA KeptJoined ==
    ASSUME NEW w \in Nat, NEW s \in Seq(LinesTo(w)), NEW t \in Seq(LinesTo(w)),
           AllWhole(s), AllWhole(t)
    PROVE  Kept(s \o t) = Kept(s) \o Kept(t)
<1> DEFINE st == s \o t
           m  == Len(s)
           n  == Len(t)
           u  == Kept(s) \o Kept(t)
<1>1. /\ st \in Seq(LinesTo(w)) /\ Len(st) = m + n /\ m \in Nat /\ n \in Nat
      /\ \A i \in 1 .. m : st[i] = s[i]
      /\ \A i \in 1 .. n : st[m + i] = t[i]
      /\ \A i \in 1 .. m + n :
            \/ i \in 1 .. m
            \/ i - m \in 1 .. n /\ st[i] = t[i - m]
  BY JoinedAt
<1>2. AllWhole(st)
  BY WholeJoined
<1>3. /\ Kept(s) \in Seq(1 .. w) /\ Len(Kept(s)) = m
      /\ \A i \in 1 .. m : Kept(s)[i] = s[i][2]
  BY KeptType
<1>4. /\ Kept(t) \in Seq(1 .. w) /\ Len(Kept(t)) = n
      /\ \A i \in 1 .. n : Kept(t)[i] = t[i][2]
  BY KeptType
<1>5. /\ u \in Seq(1 .. w) /\ Len(u) = m + n
      /\ \A i \in 1 .. m : u[i] = Kept(s)[i]
      /\ \A i \in 1 .. m + n :
            \/ i \in 1 .. m
            \/ i - m \in 1 .. n /\ u[i] = Kept(t)[i - m]
  <2> DEFINE a == Kept(s)
             b == Kept(t)
             T == 1 .. w
  <2>1. a \in Seq(T) /\ b \in Seq(T) /\ Len(a) = m /\ Len(b) = n
    BY <1>3, <1>4
  <2> HIDE DEF a, b, m, n, T
  <2>2. a \o b \in Seq(T) /\ Len(a \o b) = Len(a) + Len(b)
    BY <2>1, JoinedLength, Zenon
  <2>3. \A i \in 1 .. Len(a) : (a \o b)[i] = a[i]
    BY <2>1, JoinedFront, Zenon
  <2>4. \A i \in 1 .. Len(a) + Len(b) : i \notin 1 .. Len(a) =>
          i - Len(a) \in 1 .. Len(b) /\ (a \o b)[i] = b[i - Len(a)]
    BY <2>1, JoinedBack, Zenon
  <2>5. QED
    BY <2>1, <2>2, <2>3, <2>4 DEF a, b, T
<1>6. /\ Kept(st) \in Seq(1 .. w) /\ Len(Kept(st)) = m + n
      /\ \A i \in 1 .. m + n : Kept(st)[i] = st[i][2]
  <2> HIDE DEF st, m, n
  <2>1. /\ Kept(st) \in Seq(1 .. w) /\ Len(Kept(st)) = Len(st)
        /\ \A i \in 1 .. Len(st) : Kept(st)[i] = st[i][2]
    BY <1>1, <1>2, KeptType, Zenon
  <2>2. QED
    BY <1>1, <2>1
<1> HIDE DEF st, u, m, n
<1>7. \A i \in 1 .. m + n : Kept(st)[i] = u[i]
  <2> SUFFICES ASSUME NEW i \in 1 .. m + n PROVE Kept(st)[i] = u[i]
    OBVIOUS
  <2>1. CASE i \in 1 .. m
    <3>1. st[i] = s[i] /\ u[i] = Kept(s)[i] /\ Kept(s)[i] = s[i][2]
      BY <1>1, <1>3, <1>5, <2>1
    <3>2. QED
      BY <1>6, <3>1
  <2>2. CASE i \notin 1 .. m
    <3>1. /\ i - m \in 1 .. n /\ st[i] = t[i - m] /\ u[i] = Kept(t)[i - m]
          /\ Kept(t)[i - m] = t[i - m][2]
      BY <1>1, <1>4, <1>5, <2>2
    <3>2. QED
      BY <1>6, <3>1
  <2>3. QED
    BY <2>1, <2>2
<1>8. Kept(st) = u
  BY <1>1, <1>5, <1>6, <1>7, SeqEqual
<1>9. QED
  BY <1>8 DEF st, u

RisesOn(f, D) ==
    /\ \A i \in D : f[i] \in Nat
    /\ \A i, j \in D : i < j => f[i] < f[j]

ValuesOn(f, D) == {f[i] : i \in D}

\* As many numbers as places.
LEMMA RisingImage ==
    ASSUME NEW n \in Nat, NEW D, D \subseteq 1 .. n, NEW f, RisesOn(f, D)
    PROVE  Cardinality(ValuesOn(f, D)) = Cardinality(D)
<1> USE DEF RisesOn
<1> DEFINE T == {f[i] : i \in D}
           g == [i \in D |-> f[i]]
<1>1. IsFiniteSet(D)
  <2>1. IsFiniteSet(1 .. n)
    BY FS_Interval
  <2>2. QED
    BY <2>1, FS_Subset
<1>2. g \in [D -> T] /\ DOMAIN g = D /\ \A i \in D : g[i] = f[i]
  OBVIOUS
<1>3. \A t \in T : \E i \in D : g[i] = t
  OBVIOUS
<1>4. \A i, j \in D : g[i] = g[j] => i = j
  <2>1. \A i \in D : i \in Int
    OBVIOUS
  <2> SUFFICES ASSUME NEW i \in D, NEW j \in D, g[i] = g[j] PROVE i = j
    OBVIOUS
  <2>2. f[i] = f[j] /\ f[i] \in Nat /\ f[j] \in Nat
    BY <1>2
  <2>3. ~(i < j) /\ ~(j < i)
    BY <2>2
  <2>4. QED
    BY <2>1, <2>3
<1> HIDE DEF T, g
<1>5. g \in Surjection(D, T)
  BY <1>2, <1>3 DEF Surjection
<1>6. g \in Injection(D, T)
  BY <1>2, <1>4 DEF Injection, IsInjective
<1>7. Cardinality(T) = Cardinality(D)
  BY <1>1, <1>5, <1>6, FS_Surjection
<1>8. QED
  BY <1>7 DEF T, ValuesOn

\* A dump of whole lines, as the promise counts it.
LEMMA DumpCounts ==
    ASSUME NEW w \in Nat, NEW lines \in Seq(LinesTo(w)), AllWhole(lines), LinesRise(Earlier, lines)
    PROVE  LET E  == LineEnds(lines)
               ps == Positions(lines)
           IN  /\ E \subseteq 1 .. w
               /\ Cardinality(E) = Len(lines)
               /\ Kept(lines) \in [1 .. Cardinality(E) -> E]
               /\ Promise!Rising(Kept(lines))
               /\ E \subseteq PacketLines <=> ps = {}
               /\ Cardinality(E \cap PacketLines) = Len(lines) - Cardinality(ps)
<1> DEFINE E    == LineEnds(lines)
           ps   == Positions(lines)
           n    == Len(lines)
           g    == Kept(lines)
           rest == (1 .. n) \ ps
<1>1. /\ n \in Nat /\ DOMAIN lines = 1 .. n /\ DOMAIN g = 1 .. n /\ g \in Seq(1 .. w)
      /\ \A i \in 1 .. n : /\ g[i] = lines[i][2] /\ lines[i][2] \in 1 .. w
                           /\ lines[i][1] = lines[i][2]
  BY KeptType
<1>2. ps = {i \in 1 .. n : g[i] \notin PacketLines}
  BY <1>1 DEF Positions
<1>3. E = {g[i] : i \in 1 .. n}
  BY <1>1 DEF LineEnds
<1>4. \A i, j \in 1 .. n : i < j => g[i] < g[j]
  <2>1. \A i, j \in DOMAIN lines : i < j => <<lines[i][2], lines[j][2]>> \in Earlier
    BY DEF LinesRise
  <2>2. \A i, j \in DOMAIN lines : i < j => lines[i][2] < lines[j][2]
    BY <2>1 DEF Earlier
  <2>3. QED
    BY <1>1, <2>2
<1>5. \A i \in 1 .. n : g[i] \in Nat /\ g[i] \in 1 .. w
  BY <1>1
<1> HIDE DEF n, g, E, ps
<1>6. Cardinality(1 .. n) = n /\ IsFiniteSet(1 .. n)
  <2>1. 1 \in Int /\ n \in Int /\ (1 > n => n = 0) /\ n - 1 + 1 = n
    BY <1>1
  <2>2. Cardinality(1 .. n) = IF 1 > n THEN 0 ELSE n - 1 + 1
    BY <2>1, FS_Interval
  <2>3. QED
    BY <2>1, <2>2, FS_Interval
<1>7. Cardinality(E) = n
  <2>1. RisesOn(g, 1 .. n)
    BY <1>4, <1>5 DEF RisesOn
  <2>2. Cardinality(ValuesOn(g, 1 .. n)) = Cardinality(1 .. n)
    BY <1>1, <2>1, RisingImage
  <2>3. QED
    BY <1>3, <1>6, <2>2 DEF ValuesOn
<1>8. E \subseteq 1 .. w
  BY <1>3, <1>5
<1>9. g \in [1 .. n -> E]
  BY <1>1, <1>3
<1>10. Promise!Rising(g)
  BY <1>1, <1>4 DEF Promise!Rising
<1>11. E \subseteq PacketLines <=> ps = {}
  BY <1>2, <1>3
<1>12. Cardinality(E \cap PacketLines) = n - Cardinality(ps)
  <2>1. rest \subseteq 1 .. n /\ ps \subseteq 1 .. n /\ rest \cup ps = 1 .. n
        /\ rest \cap ps = {}
    BY <1>2
  <2>2. E \cap PacketLines = {g[i] : i \in rest}
    BY <1>2, <1>3
  <2> HIDE DEF rest
  <2>3. RisesOn(g, rest)
    BY <1>4, <1>5, <2>1 DEF RisesOn
  <2>4. Cardinality(ValuesOn(g, rest)) = Cardinality(rest)
    BY <1>1, <2>1, <2>3, RisingImage
  <2>5. Cardinality(E \cap PacketLines) = Cardinality(rest)
    BY <2>2, <2>4 DEF ValuesOn
  <2>6. IsFiniteSet(rest) /\ IsFiniteSet(ps)
    BY <1>6, <2>1, FS_Subset
  <2>7. Cardinality(rest) \in Nat /\ Cardinality(ps) \in Nat
    BY <2>6, FS_CardinalityType
  <2>8. Cardinality(rest \cap ps) = 0
    BY <2>1, FS_EmptySet
  <2>9. n = Cardinality(rest) + Cardinality(ps) - Cardinality(rest \cap ps)
    BY <1>6, <2>1, <2>6, FS_Union
  <2>10. QED
    BY <1>1, <2>5, <2>7, <2>8, <2>9
<1>13. QED
  BY <1>7, <1>8, <1>9, <1>10, <1>11, <1>12 DEF n, g, E, ps

\* The display shows the newest position.
LEMMA DumpNewest ==
    ASSUME NEW w \in Nat, NEW lines \in Seq(LinesTo(w)), AllWhole(lines), LinesRise(Earlier, lines),
           Positions(lines) # {}
    PROVE  Promise!Newest(LineEnds(lines) \ PacketLines) = lines[Max(Positions(lines))][1]
<1> DEFINE S  == LineEnds(lines) \ PacketLines
           ps == Positions(lines)
           k  == Max(ps)
           x  == lines[k][2]
<1>1. /\ Len(lines) \in Nat /\ DOMAIN lines = 1 .. Len(lines)
      /\ \A i \in 1 .. Len(lines) : lines[i][2] \in 1 .. w /\ lines[i][1] = lines[i][2]
  BY KeptType
<1>2. ps = {i \in 1 .. Len(lines) : lines[i][2] \notin PacketLines}
  BY <1>1 DEF Positions
<1>3. S = {lines[i][2] : i \in ps}
  BY <1>1, <1>2 DEF LineEnds
<1>4. k \in ps /\ \A i \in ps : i <= k
  BY LastPosition
<1> HIDE DEF ps, k, S
<1>5. k \in 1 .. Len(lines) /\ x \in Nat
  BY <1>1, <1>2, <1>4
<1>6. \A i \in ps : lines[i][2] <= x
  <2> SUFFICES ASSUME NEW i \in ps PROVE lines[i][2] <= x
    OBVIOUS
  <2>1. i \in 1 .. Len(lines) /\ lines[i][2] \in Nat
    BY <1>1, <1>2
  <2>2. CASE i = k
    BY <1>5, <2>2
  <2>3. CASE i # k
    <3>1. i < k
      BY <1>1, <1>4, <1>5, <2>1, <2>3
    <3>2. lines[i][2] < x
      BY <1>1, <1>5, <2>1, <3>1 DEF LinesRise, Earlier
    <3>3. QED
      BY <1>5, <2>1, <3>2
  <2>4. QED
    BY <2>2, <2>3
<1>7. x \in S /\ S \subseteq Nat /\ \A m \in S : m <= x
  BY <1>1, <1>2, <1>3, <1>4, <1>6
<1> HIDE DEF x
<1>8. Promise!Newest(S) \in S /\ \A m \in S : m <= Promise!Newest(S)
  BY <1>7 DEF Promise!Newest
<1>9. Promise!Newest(S) = x
  <2> DEFINE v == Promise!Newest(S)
  <2>1. v \in S /\ \A m \in S : m <= v
    BY <1>8
  <2> HIDE DEF v
  <2>2. v \in Nat /\ x \in Nat /\ v <= x /\ x <= v
    BY <1>7, <2>1
  <2>3. v = x
    BY <2>2
  <2>4. QED
    BY <2>3 DEF v
<1>10. x = lines[k][1]
  BY <1>1, <1>5 DEF x
<1>11. QED
  BY <1>9, <1>10 DEF k, ps, S

\* The instance has a Cardinality of its own, which is the same.
LEMMA SameCardinality == \A S : Promise!Cardinality(S) = Cardinality(S)
BY Zenon DEF Promise!Cardinality, Cardinality

\* What is appended in order is in order, and comes after what was there.
LEMMA RiseJoined ==
    ASSUME NEW w \in Nat, NEW s \in Seq(LinesTo(w)), NEW t \in Seq(LinesTo(w)),
           LinesRise(Earlier, s \o t)
    PROVE  /\ LinesRise(Earlier, t)
           /\ \A i \in 1 .. Len(s), j \in 1 .. Len(t) : s[i][2] < t[j][2]
<1> DEFINE st == s \o t
           m  == Len(s)
           n  == Len(t)
<1>1. /\ DOMAIN t = 1 .. n /\ DOMAIN st = 1 .. m + n /\ m \in Nat /\ n \in Nat
      /\ \A i \in 1 .. m : st[i] = s[i]
      /\ \A i \in 1 .. n : st[m + i] = t[i]
  BY JoinedAt
<1> HIDE DEF st, m, n
<1>2. \A i, j \in 1 .. m + n : i < j => st[i][2] < st[j][2]
  BY <1>1 DEF LinesRise, Earlier, st
<1>3. ASSUME NEW i \in 1 .. n, NEW j \in 1 .. n, i < j
      PROVE  t[i][2] < t[j][2]
  <2>1. m + i \in 1 .. m + n /\ m + j \in 1 .. m + n /\ m + i < m + j
    BY <1>1, <1>3
  <2>2. st[m + i] = t[i] /\ st[m + j] = t[j]
    BY <1>1
  <2>3. st[m + i][2] < st[m + j][2]
    BY <1>2, <2>1
  <2>4. QED
    BY <2>2, <2>3
<1>4. ASSUME NEW i \in 1 .. m, NEW j \in 1 .. n
      PROVE  s[i][2] < t[j][2]
  <2>1. i \in 1 .. m + n /\ m + j \in 1 .. m + n /\ i < m + j
    BY <1>1
  <2>2. st[i] = s[i] /\ st[m + j] = t[j]
    BY <1>1
  <2>3. st[i][2] < st[m + j][2]
    BY <1>2, <2>1
  <2>4. QED
    BY <2>2, <2>3
<1>5. \A i \in 1 .. m : s[i][2] \in Nat
  BY DEF m, LinesTo
<1>6. \A i \in 1 .. n : t[i][2] \in Nat
  BY DEF n, LinesTo
<1>7. LinesRise(Earlier, t)
  <2>1. \A i, j \in DOMAIN t : i < j => <<t[i][2], t[j][2]>> \in Earlier
    BY <1>1, <1>3, <1>6 DEF Earlier
  <2>2. QED
    BY <2>1 DEF LinesRise
<1>8. QED
  BY <1>4, <1>7 DEF m, n

\* The last chunk of a dump delivers its lines, if it completes any.
LEMMA DumpDelivered ==
    ASSUME ~Unreliable, TypeInv, TypeInv', OrderInv', AllWhole(stored), AllWhole(stored'),
           NEW lines \in Seq(LinesTo(written)), Display(lines), written' = written
    PROVE  Promise!Deliver \/ UNCHANGED <<written, Kept(stored), shown, packets>>
<1> DEFINE w  == written
           E  == LineEnds(lines)
           ps == Positions(lines)
           m  == Len(stored)
<1>1. /\ w \in Nat /\ stored \in Seq(LinesTo(w)) /\ stored' = stored \o lines
      /\ LinesRise(Earlier, stored')
  BY DEF TypeInv, FileType, NetType, GroundType, Display, OrderInv, Arranged, PartsOrder
<1>2. AllWhole(lines)
  BY <1>1, WholeJoined
<1>3. LinesRise(Earlier, lines) /\ \A i \in 1 .. m, j \in 1 .. Len(lines) : stored[i][2] < lines[j][2]
  BY <1>1, RiseJoined
<1>4. Kept(stored)' = Kept(stored) \o Kept(lines)
  <2>1. Kept(stored)' = Kept(stored \o lines)
    BY <1>1 DEF Kept
  <2>2. Kept(stored \o lines) = Kept(stored) \o Kept(lines)
    BY <1>1, <1>2, KeptJoined
  <2>3. QED
    BY <2>1, <2>2
<1>5. /\ Len(lines) \in Nat /\ DOMAIN lines = 1 .. Len(lines)
      /\ \A i \in 1 .. Len(lines) : lines[i][2] \in 1 .. w
  BY <1>1, <1>2, KeptType
<1>6. /\ Kept(stored) \in Seq(1 .. w) /\ Len(Kept(stored)) = m /\ m \in Nat
      /\ \A i \in 1 .. m : Kept(stored)[i] = stored[i][2] /\ stored[i][2] \in 1 .. w
  BY <1>1, KeptType
<1>7. CASE lines = <<>>
  <2>1. ps = {}
    BY <1>7 DEF Positions
  <2>2. UNCHANGED <<shown, packets>>
    BY <2>1 DEF Display, UpdateTable
  <2>3. stored' = stored
    BY <1>1, <1>7
  <2>4. Kept(stored)' = Kept(stored)
    BY <2>3 DEF Kept
  <2>5. QED
    BY <2>2, <2>4
<1>8. CASE lines # <<>>
  <2>1. /\ E \subseteq 1 .. w
        /\ Kept(lines) \in [1 .. Cardinality(E) -> E]
        /\ Promise!Rising(Kept(lines))
        /\ E \subseteq PacketLines <=> ps = {}
        /\ Cardinality(E \cap PacketLines) = Len(lines) - Cardinality(ps)
    BY <1>1, <1>2, <1>3, DumpCounts
  <2>2. ps # {} => Promise!Newest(E \ PacketLines) = lines[Max(ps)][1]
    BY <1>1, <1>2, <1>3, DumpNewest
  <2>3. E # {}
    <3>1. 1 \in DOMAIN lines
      BY <1>5, <1>8
    <3>2. QED
      BY <3>1 DEF LineEnds
  <2>4. E \subseteq (Promise!Reached + 1) .. w
    <3>1. CASE m = 0
      <4>1. Kept(stored) = <<>>
        BY <1>6, <3>1
      <4>2. Promise!Reached = 0
        BY <4>1 DEF Promise!Reached, Kept
      <4>3. QED
        BY <1>1, <2>1, <4>2
    <3>2. CASE m # 0
      <4>1. m \in 1 .. m /\ Kept(stored) # <<>>
        BY <1>6, <3>2
      <4>2. Promise!Reached = Kept(stored)[m]
        BY <1>6, <4>1 DEF Promise!Reached, Kept
      <4>3. Promise!Reached = stored[m][2] /\ stored[m][2] \in Nat
        BY <1>6, <4>1, <4>2
      <4>4. \A e \in E : e \in 1 .. w /\ stored[m][2] < e
        BY <1>3, <1>5, <4>1 DEF LineEnds
      <4> HIDE DEF E
      <4>5. QED
        BY <1>1, <4>3, <4>4
    <3>3. QED
      BY <3>1, <3>2
  <2>5. IF E \subseteq PacketLines
          THEN UNCHANGED <<shown, packets>>
          ELSE /\ shown' = Promise!Newest(E \ PacketLines)
               /\ packets' = packets + Cardinality(E \cap PacketLines)
    <3>1. IF ps = {}
            THEN UNCHANGED <<shown, packets>>
            ELSE /\ shown' = lines[Max(ps)][1]
                 /\ packets' = packets + (Len(lines) - Cardinality(ps))
      BY Zenon DEF Display, UpdateTable
    <3> HIDE DEF E, ps
    <3>2. CASE ps = {}
      BY <2>1, <3>1, <3>2
    <3>3. CASE ps # {}
      BY <2>1, <2>2, <3>1, <3>3
    <3>4. QED
      BY <3>2, <3>3
  <2> HIDE DEF E, ps
  <2>6. \E ls \in [1 .. Cardinality(E) -> E] :
           Promise!Rising(ls) /\ Kept(stored)' = Kept(stored) \o ls
    BY <1>4, <2>1
  <2>7. Promise!Deliver
    <3>1. E \in SUBSET ((Promise!Reached + 1) .. written)
      BY <2>4
    <3>2. UNCHANGED written
      OBVIOUS
    <3>3. /\ E # {}
          /\ \E ls \in [1 .. Cardinality(E) -> E] :
                Promise!Rising(ls) /\ Kept(stored)' = Kept(stored) \o ls
          /\ IF E \subseteq PacketLines
               THEN UNCHANGED <<shown, packets>>
               ELSE /\ shown' = Promise!Newest(E \ PacketLines)
                    /\ packets' = packets + Cardinality(E \cap PacketLines)
          /\ UNCHANGED written
      BY <2>3, <2>5, <2>6, <3>2
    <3>4. \E A \in SUBSET ((Promise!Reached + 1) .. written) :
            /\ A # {}
            /\ \E ls \in [1 .. Cardinality(A) -> A] :
                  Promise!Rising(ls) /\ Kept(stored)' = Kept(stored) \o ls
            /\ IF A \subseteq PacketLines
                 THEN UNCHANGED <<shown, packets>>
                 ELSE /\ shown' = Promise!Newest(A \ PacketLines)
                      /\ packets' = packets + Cardinality(A \cap PacketLines)
            /\ UNCHANGED written
      BY <3>1, <3>3, Zenon
    <3>5. QED
      BY <3>4, SameCardinality DEF Promise!Deliver, Kept
  <2>8. QED
    BY <2>7
<1>9. QED
  BY <1>7, <1>8

LEMMA TransferStep ==
    ASSUME ~Unreliable
    PROVE  /\ TypeInv /\ OrderInv /\ ShortLog /\ DeliveryInv /\ WholeInv
           /\ TypeInv' /\ OrderInv' /\ DeliveryInv' /\ WholeInv'
           /\ [Next]_vars
           => [Promise!Next]_<<written, Kept(stored), shown, packets>>
<1> SUFFICES ASSUME TypeInv, OrderInv, ShortLog, DeliveryInv, WholeInv,
                    TypeInv', OrderInv', DeliveryInv', WholeInv', [Next]_vars
             PROVE  [Promise!Next]_<<written, Kept(stored), shown, packets>>
  OBVIOUS
<1>1. CASE Write
  <2>1. written' = written + 1 /\ UNCHANGED <<stored, shown, packets>>
    BY <1>1 DEF Write, gcVars
  <2>2. Promise!Write
    BY <2>1 DEF Promise!Write
  <2>3. QED
    BY <2>2 DEF Promise!Next
<1>2. CASE ReceiveChunk
  <2> DEFINE whole == buffer \o Head(net).data
  <2>1. AllWhole(stored) /\ AllWhole(stored')
    <3>1. AllWhole(stored)
      BY StoredWhole
    <3>2. AllWhole(stored)'
      BY StoredWhole, PTL
    <3>3. QED
      BY <3>1, <3>2 DEF AllWhole, IsWhole
  <2>2. CASE Head(net).last
    <3>1. Display(LinesOf(whole)) /\ written' = written
      BY <1>2, <2>2, Zenon DEF ReceiveChunk, satVars
    <3>2. buffer \in Seq(CellsTo(written)) /\ net \in Seq(ChunkOf(CellsTo(written)))
          /\ net # <<>> /\ written \in Nat
      BY <1>2 DEF TypeInv, FileType, NetType, GroundType, ReceiveChunk
    <3>3. Head(net).data \in Seq(CellsTo(written))
      BY <3>2, HeadAndTail, ChunkParts
    <3>4. whole \in Seq(CellsTo(written))
      BY <3>2, <3>3, JoinedLength
    <3>5. LinesOf(whole) \in Seq(LinesTo(written))
      BY <3>2, <3>4, LinesType
    <3> HIDE DEF whole
    <3>6. Promise!Deliver \/ UNCHANGED <<written, Kept(stored), shown, packets>>
      BY <2>1, <3>1, <3>5, DumpDelivered
    <3>7. QED
      BY <3>6 DEF Promise!Next
  <2>3. CASE ~Head(net).last
    <3>1. UNCHANGED <<written, stored, shown, packets>>
      BY <1>2, <2>3, Zenon DEF ReceiveChunk, satVars
    <3>2. QED
      BY <3>1 DEF Kept
  <2>4. QED
    BY <2>2, <2>3
<1>3. CASE BeginDump \/ ReadBlock \/ Truncate \/ Send \/ FinishDump \/ OtherAnswer
           \/ HearAnswer \/ ClearFile \/ UNCHANGED vars
  <2>1. UNCHANGED <<written, stored, shown, packets>>
    BY <1>3 DEF BeginDump, ReadBlock, Truncate, Send, FinishDump, OtherAnswer,
                HearAnswer, ClearFile, vars, satVars, gcVars, history
  <2>2. QED
    BY <2>1 DEF Kept
<1>4. ~LoseChunk /\ ~Overtake /\ ~Duplicate /\ ~LoseAnswer /\ ~Restart
  BY DEF LoseChunk, Overtake, Duplicate, LoseAnswer, Restart
<1>5. QED
  BY <1>1, <1>2, <1>3, <1>4 DEF Next

LEMMA WholeInvHolds ==
    ASSUME ~Unreliable
    PROVE  Spec /\ []ShortLog => [](TypeInv /\ OrderInv /\ DeliveryInv /\ WholeInv)
<1>1. TypeInv /\ OrderInv /\ ShortLog /\ DeliveryInv /\ [Next]_vars => DeliveryInv'
  BY DeliveryInvStep
<1>2. TypeInv /\ OrderInv /\ ShortLog /\ DeliveryInv /\ WholeInv /\ [Next]_vars => WholeInv'
  BY WholeInvStep
<1>3. QED
  BY <1>1, <1>2, TypeInvHolds, OrderInvInit, OrderInvStep, DeliveryInvInit, WholeInvInit,
     PTL DEF Spec

\* On a reliable network, without restarts, and while the log is read in one piece,
\* ground control stores nothing but lines the satellite has logged: none is put together
\* from two.
THEOREM LoggedLinesStored ==
    ASSUME ~Unreliable
    PROVE  Spec /\ []ShortLog => []StoredIsLogged
<1>1. TypeInv /\ DeliveryInv /\ WholeInv => StoredIsLogged
  <2> SUFFICES ASSUME TypeInv, DeliveryInv, WholeInv PROVE StoredIsLogged
    OBVIOUS
  <2>1. AllWhole(stored)
    BY StoredWhole
  <2>2. QED
    BY <2>1 DEF AllWhole, StoredIsLogged
<1>2. QED
  BY <1>1, WholeInvHolds, PTL

\* Under the same conditions broadcast(), Receiver and the display thread together
\* implement LogTransfer: every dump is a delivery of lines that follow all those
\* delivered before, counted and displayed as it promises, or no step of it at all.
THEOREM TransferImplemented ==
    ASSUME ~Unreliable
    PROVE  Spec /\ []ShortLog => KeepsTransfer
<1> DEFINE mapped == [i \in DOMAIN stored |-> IF IsWhole(stored[i]) THEN stored[i][1] ELSE 0]
           All    == TypeInv /\ OrderInv /\ DeliveryInv /\ WholeInv
<1>1. Init => Promise!Init
  BY KeptNothing DEF Init, Promise!Init, Kept
<1>2. All /\ All' /\ ShortLog /\ [Next]_vars
        => [Promise!Next]_<<written, mapped, shown, packets>>
  BY TransferStep DEF Kept
<1>3. Spec /\ []ShortLog => []All
  BY WholeInvHolds
<1> HIDE DEF All
<1>4. QED
  BY <1>1, <1>2, <1>3, PTL DEF Spec, KeepsTransfer, Promise!Spec

================================================================================

---------------------------- MODULE Protocol_proofs ----------------------------
(***************************************************************************)
(* Theorems about Protocol, for buffers and chunks of any size, any field  *)
(* contents and any messages.                                              *)
(***************************************************************************)
EXTENDS Protocol, TLAPS, WellFoundedInduction, SequenceTheorems

--------------------------------------------------------------------------------
(* Induction, with a set for the predicate.                                 *)

LEMMA LeastNumber ==
    ASSUME NEW T, T \subseteq Nat, T # {}
    PROVE  \E x \in T : \A y \in T : x <= y
<1> DEFINE less == OpToRel(<, Nat)
<1>1. IsWellFoundedOn(less, Nat)
  BY NatLessThanWellFounded
<1>2. \A x, y \in Nat : x < y => <<x, y>> \in less
  BY DEF OpToRel
<1> HIDE DEF less
<1>3. \E x \in T : \A y \in T : ~(<<y, x>> \in less)
  BY <1>1, WFMin
<1>4. PICK x \in T : \A y \in T : ~(<<y, x>> \in less)
  BY <1>3
<1>5. \A y \in T : ~(y < x)
  BY <1>2, <1>4
<1>6. QED
  BY <1>5

LEMMA NumbersBySuccessor ==
    ASSUME NEW P, 0 \in P, \A n \in Nat : n \in P => n + 1 \in P
    PROVE  Nat \subseteq P
<1> DEFINE T == Nat \ P
<1>1. SUFFICES ASSUME T # {} PROVE FALSE
  OBVIOUS
<1>2. PICK x \in T : \A y \in T : x <= y
  <2>1. T \subseteq Nat
    OBVIOUS
  <2> HIDE DEF T
  <2>2. QED
    BY <1>1, <2>1, LeastNumber
<1>3. x \in Nat /\ x \notin P /\ x # 0
  OBVIOUS
<1>4. x - 1 \in Nat /\ x - 1 < x
  BY <1>3
<1>5. x - 1 \in P
  BY <1>2, <1>3, <1>4
<1>6. QED
  BY <1>3, <1>4, <1>5

LEMMA SequencesByAppend ==
    ASSUME NEW S, NEW P, <<>> \in P,
           \A s \in Seq(S), c \in S : s \in P => Append(s, c) \in P
    PROVE  Seq(S) \subseteq P
<1> DEFINE N == {n \in Nat : \A s \in Seq(S) : Len(s) = n => s \in P}
<1>1. 0 \in N
  OBVIOUS
<1>2. ASSUME NEW n \in Nat, n \in N PROVE n + 1 \in N
  <2> SUFFICES ASSUME NEW s \in Seq(S), Len(s) = n + 1 PROVE s \in P
    OBVIOUS
  <2> DEFINE front == SubSeq(s, 1, n)
  <2>1. front \in Seq(S) /\ Len(front) = n /\ s[n + 1] \in S
    OBVIOUS
  <2>2. s = Append(front, s[n + 1])
    OBVIOUS
  <2>3. front \in P
    BY <1>2, <2>1
  <2> HIDE DEF front
  <2>4. QED
    BY <2>1, <2>2, <2>3
<1>3. Nat \subseteq N
  <2> HIDE DEF N
  <2> QED
    BY <1>1, <1>2, NumbersBySuccessor
<1>4. QED
  BY <1>3

LEMMA JoinedAt ==
    ASSUME NEW S, NEW s \in Seq(S), NEW t \in Seq(S)
    PROVE  /\ s \o t \in Seq(S) /\ Len(s) \in Nat /\ Len(t) \in Nat
           /\ Len(s \o t) = Len(s) + Len(t)
           /\ \A i \in 1 .. Len(s) : (s \o t)[i] = s[i]
           /\ \A i \in 1 .. Len(t) : (s \o t)[Len(s) + i] = t[i]
           /\ \A i \in 1 .. Len(s) + Len(t) :
                 \/ i \in 1 .. Len(s)
                 \/ i - Len(s) \in 1 .. Len(t) /\ (s \o t)[i] = t[i - Len(s)]
OBVIOUS

--------------------------------------------------------------------------------
(* The widths of several fields, one after the other.                       *)

IsSum(acc, s, n) ==
    acc = [i \in 0 .. n |-> IF i = 0 THEN 0 ELSE acc[i - 1] + s[i].width]

LEMMA SumExists ==
    ASSUME NEW s, NEW n \in Nat
    PROVE  \E acc : IsSum(acc, s, n)
<1> DEFINE N == {k \in Nat : \E acc : IsSum(acc, s, k)}
<1>1. 0 \in N
  <2> DEFINE acc == [i \in 0 .. 0 |-> 0]
  <2>1. IsSum(acc, s, 0)
    BY DEF IsSum
  <2>2. QED
    BY <2>1
<1>2. ASSUME NEW k \in Nat, k \in N PROVE k + 1 \in N
  <2>1. PICK acc : IsSum(acc, s, k)
    BY <1>2
  <2> DEFINE longer == [i \in 0 .. k + 1 |->
                           IF i = k + 1 THEN acc[k] + s[k + 1].width ELSE acc[i]]
  <2>2. ASSUME NEW i \in 0 .. k + 1
        PROVE  longer[i] = IF i = 0 THEN 0 ELSE longer[i - 1] + s[i].width
    <3>1. CASE i = 0
      BY <2>1, <3>1 DEF IsSum
    <3>2. CASE i \in 1 .. k
      <4>1. /\ i \in 0 .. k /\ i - 1 \in 0 .. k /\ i - 1 \in 0 .. k + 1
            /\ i # 0 /\ i # k + 1 /\ i - 1 # k + 1
        BY <3>2
      <4>2. longer[i] = acc[i] /\ longer[i - 1] = acc[i - 1]
        BY <4>1
      <4>3. acc[i] = acc[i - 1] + s[i].width
        BY <2>1, <4>1 DEF IsSum
      <4>4. QED
        BY <4>1, <4>2, <4>3
    <3>3. CASE i = k + 1
      <4>1. k \in 0 .. k + 1 /\ k # k + 1 /\ i - 1 = k /\ i # 0
        BY <3>3
      <4>2. longer[k] = acc[k] /\ longer[i] = acc[k] + s[k + 1].width
        BY <3>3, <4>1
      <4>3. QED
        BY <3>3, <4>1, <4>2, Zenon
    <3>4. QED
      BY <3>1, <3>2, <3>3
  <2>3. longer = [i \in 0 .. k + 1 |->
                     IF i = 0 THEN 0 ELSE longer[i - 1] + s[i].width]
    BY <2>2, Zenon
  <2>4. IsSum(longer, s, k + 1)
    BY <2>3 DEF IsSum
  <2>5. QED
    BY <2>4
<1>3. Nat \subseteq N
  <2> HIDE DEF N
  <2> QED
    BY <1>1, <1>2, NumbersBySuccessor
<1>4. QED
  BY <1>3

LEMMA SumUnique ==
    ASSUME NEW s, NEW t, NEW m \in Nat, NEW n \in Nat, NEW g, NEW h,
           IsSum(g, s, m), IsSum(h, t, n), m <= n,
           \A i \in 1 .. m : s[i] = t[i]
    PROVE  g[m] = h[m]
<1> DEFINE N == {k \in Nat : k <= m => g[k] = h[k]}
<1>1. 0 \in N
  BY DEF IsSum
<1>2. ASSUME NEW k \in Nat, k \in N PROVE k + 1 \in N
  <2> SUFFICES ASSUME k + 1 <= m PROVE g[k + 1] = h[k + 1]
    OBVIOUS
  <2>1. g[k] = h[k] /\ s[k + 1] = t[k + 1]
    BY <1>2
  <2>2. /\ k + 1 \in 0 .. m /\ k + 1 \in 0 .. n
        /\ k + 1 # 0 /\ (k + 1) - 1 = k
    OBVIOUS
  <2>3. g[k + 1] = g[(k + 1) - 1] + s[k + 1].width
    BY <2>2, Zenon DEF IsSum
  <2>4. h[k + 1] = h[(k + 1) - 1] + t[k + 1].width
    BY <2>2, Zenon DEF IsSum
  <2>5. QED
    BY <2>1, <2>2, <2>3, <2>4, Zenon
<1>3. Nat \subseteq N
  <2> HIDE DEF N
  <2> QED
    BY <1>1, <1>2, NumbersBySuccessor
<1>4. QED
  BY <1>3

LEMMA WidthsIsSum ==
    ASSUME NEW S, NEW s \in Seq(S), NEW acc, IsSum(acc, s, Len(s))
    PROVE  Widths(s) = acc[Len(s)]
<1> DEFINE chosen == CHOOSE a : IsSum(a, s, Len(s))
<1>1. Widths(s) = chosen[Len(s)]
  BY DEF Widths, IsSum
<1>2. IsSum(chosen, s, Len(s))
  BY Zenon
<1> HIDE DEF chosen
<1>3. Len(s) \in Nat
  OBVIOUS
<1>4. chosen[Len(s)] = acc[Len(s)]
  BY <1>2, <1>3, SumUnique
<1>5. QED
  BY <1>1, <1>4

LEMMA WidthsNothing == Widths(<<>>) = 0
<1>1. PICK acc : IsSum(acc, <<>>, 0)
  BY SumExists
<1>2. <<>> \in Seq(Nat) /\ Len(<<>>) = 0
  OBVIOUS
<1>3. Widths(<<>>) = acc[0]
  BY <1>1, <1>2, WidthsIsSum
<1>4. QED
  BY <1>1, <1>3 DEF IsSum

LEMMA WidthsOneMore ==
    ASSUME NEW S, NEW s \in Seq(S), NEW c \in S
    PROVE  Widths(Append(s, c)) = Widths(s) + c.width
<1> DEFINE t == Append(s, c)
           n == Len(s)
<1>1. /\ n \in Nat /\ n + 1 \in Nat
      /\ t \in Seq(S) /\ Len(t) = n + 1 /\ t[n + 1] = c
      /\ \A i \in 1 .. n : s[i] = t[i]
  OBVIOUS
<1> HIDE DEF t, n
<1>2. PICK h : IsSum(h, t, n + 1)
  BY <1>1, SumExists
<1>3. PICK g : IsSum(g, s, n)
  BY <1>1, SumExists
<1>4. Widths(t) = h[n + 1]
  BY <1>1, <1>2, WidthsIsSum
<1>5. Widths(s) = g[n]
  BY <1>3, WidthsIsSum DEF n
<1>6. n <= n + 1
  BY <1>1
<1>7. g[n] = h[n]
  BY <1>1, <1>2, <1>3, <1>6, SumUnique
<1>8. n + 1 \in 0 .. n + 1 /\ n + 1 # 0 /\ (n + 1) - 1 = n
  BY <1>1
<1>9. h[n + 1] = h[(n + 1) - 1] + t[n + 1].width
  BY <1>2, <1>8, Zenon DEF IsSum
<1>10. QED
  BY <1>1, <1>4, <1>5, <1>7, <1>8, <1>9 DEF t

--------------------------------------------------------------------------------
(* The bytes of several fields, one after the other.                        *)

IsBytes(acc, m, s, n) ==
    acc = [i \in 0 .. n |->
              IF i = 0 THEN <<>> ELSE acc[i - 1] \o BytesOf(m[s[i].name], s[i].width)]

LEMMA BytesExist ==
    ASSUME NEW m, NEW s, NEW n \in Nat
    PROVE  \E acc : IsBytes(acc, m, s, n)
<1> DEFINE N == {k \in Nat : \E acc : IsBytes(acc, m, s, k)}
<1>1. 0 \in N
  <2> DEFINE acc == [i \in 0 .. 0 |-> <<>>]
  <2>1. IsBytes(acc, m, s, 0)
    BY DEF IsBytes
  <2>2. QED
    BY <2>1
<1>2. ASSUME NEW k \in Nat, k \in N PROVE k + 1 \in N
  <2>1. PICK acc : IsBytes(acc, m, s, k)
    BY <1>2
  <2> DEFINE longer == [i \in 0 .. k + 1 |->
                           IF i = k + 1
                             THEN acc[k] \o BytesOf(m[s[k + 1].name], s[k + 1].width)
                             ELSE acc[i]]
  <2>2. ASSUME NEW i \in 0 .. k + 1
        PROVE  longer[i] = IF i = 0 THEN <<>>
                           ELSE longer[i - 1] \o BytesOf(m[s[i].name], s[i].width)
    <3>1. CASE i = 0
      BY <2>1, <3>1 DEF IsBytes
    <3>2. CASE i \in 1 .. k
      <4>1. /\ i \in 0 .. k /\ i - 1 \in 0 .. k /\ i - 1 \in 0 .. k + 1
            /\ i # 0 /\ i # k + 1 /\ i - 1 # k + 1
        BY <3>2
      <4>2. longer[i] = acc[i] /\ longer[i - 1] = acc[i - 1]
        BY <4>1
      <4>3. acc[i] = acc[i - 1] \o BytesOf(m[s[i].name], s[i].width)
        BY <2>1, <4>1 DEF IsBytes
      <4>4. QED
        BY <4>1, <4>2, <4>3
    <3>3. CASE i = k + 1
      <4>1. k \in 0 .. k + 1 /\ k # k + 1 /\ i - 1 = k /\ i # 0
        BY <3>3
      <4>2. /\ longer[k] = acc[k]
            /\ longer[i] = acc[k] \o BytesOf(m[s[k + 1].name], s[k + 1].width)
        BY <3>3, <4>1
      <4>3. QED
        BY <3>3, <4>1, <4>2, Zenon
    <3>4. QED
      BY <3>1, <3>2, <3>3
  <2>3. longer = [i \in 0 .. k + 1 |->
                     IF i = 0 THEN <<>>
                     ELSE longer[i - 1] \o BytesOf(m[s[i].name], s[i].width)]
    BY <2>2, Zenon
  <2>4. IsBytes(longer, m, s, k + 1)
    BY <2>3 DEF IsBytes
  <2>5. QED
    BY <2>4
<1>3. Nat \subseteq N
  <2> HIDE DEF N
  <2> QED
    BY <1>1, <1>2, NumbersBySuccessor
<1>4. QED
  BY <1>3

LEMMA BytesUnique ==
    ASSUME NEW m, NEW s, NEW t, NEW k1 \in Nat, NEW n \in Nat, NEW g, NEW h,
           IsBytes(g, m, s, k1), IsBytes(h, m, t, n), k1 <= n,
           \A i \in 1 .. k1 : s[i] = t[i]
    PROVE  g[k1] = h[k1]
<1> DEFINE N == {k \in Nat : k <= k1 => g[k] = h[k]}
<1>1. 0 \in N
  BY DEF IsBytes
<1>2. ASSUME NEW k \in Nat, k \in N PROVE k + 1 \in N
  <2> SUFFICES ASSUME k + 1 <= k1 PROVE g[k + 1] = h[k + 1]
    OBVIOUS
  <2>1. g[k] = h[k] /\ s[k + 1] = t[k + 1]
    BY <1>2
  <2>2. /\ k + 1 \in 0 .. k1 /\ k + 1 \in 0 .. n
        /\ k + 1 # 0 /\ (k + 1) - 1 = k
    OBVIOUS
  <2>3. g[k + 1] = g[(k + 1) - 1] \o BytesOf(m[s[k + 1].name], s[k + 1].width)
    BY <2>2, Zenon DEF IsBytes
  <2>4. h[k + 1] = h[(k + 1) - 1] \o BytesOf(m[t[k + 1].name], t[k + 1].width)
    BY <2>2, Zenon DEF IsBytes
  <2>5. QED
    BY <2>1, <2>2, <2>3, <2>4, Zenon
<1>3. Nat \subseteq N
  <2> HIDE DEF N
  <2> QED
    BY <1>1, <1>2, NumbersBySuccessor
<1>4. QED
  BY <1>3

LEMMA AppendedIsBytes ==
    ASSUME NEW m, NEW S, NEW s \in Seq(S), NEW acc, IsBytes(acc, m, s, Len(s))
    PROVE  Appended(m, s) = acc[Len(s)]
<1> DEFINE chosen == CHOOSE a : IsBytes(a, m, s, Len(s))
<1>1. Appended(m, s) = chosen[Len(s)]
  BY DEF Appended, IsBytes
<1>2. IsBytes(chosen, m, s, Len(s))
  BY Zenon
<1> HIDE DEF chosen
<1>3. Len(s) \in Nat
  OBVIOUS
<1>4. chosen[Len(s)] = acc[Len(s)]
  BY <1>2, <1>3, BytesUnique
<1>5. QED
  BY <1>1, <1>4

LEMMA AppendedNothing == ASSUME NEW m PROVE Appended(m, <<>>) = <<>>
<1>1. PICK acc : IsBytes(acc, m, <<>>, 0)
  BY BytesExist
<1>2. <<>> \in Seq(Nat) /\ Len(<<>>) = 0
  OBVIOUS
<1>3. Appended(m, <<>>) = acc[0]
  BY <1>1, <1>2, AppendedIsBytes
<1>4. QED
  BY <1>1, <1>3 DEF IsBytes

LEMMA AppendedOneMore ==
    ASSUME NEW m, NEW S, NEW s \in Seq(S), NEW c \in S
    PROVE  Appended(m, Append(s, c)) = Appended(m, s) \o BytesOf(m[c.name], c.width)
<1> DEFINE t == Append(s, c)
           n == Len(s)
<1>1. /\ n \in Nat /\ n + 1 \in Nat
      /\ t \in Seq(S) /\ Len(t) = n + 1 /\ t[n + 1] = c
      /\ \A i \in 1 .. n : s[i] = t[i]
  OBVIOUS
<1> HIDE DEF t, n
<1>2. PICK h : IsBytes(h, m, t, n + 1)
  BY <1>1, BytesExist
<1>3. PICK g : IsBytes(g, m, s, n)
  BY <1>1, BytesExist
<1>4. Appended(m, t) = h[n + 1]
  BY <1>1, <1>2, AppendedIsBytes
<1>5. Appended(m, s) = g[n]
  BY <1>3, AppendedIsBytes DEF n
<1>6. n <= n + 1
  BY <1>1
<1>7. g[n] = h[n]
  BY <1>1, <1>2, <1>3, <1>6, BytesUnique
<1>8. n + 1 \in 0 .. n + 1 /\ n + 1 # 0 /\ (n + 1) - 1 = n
  BY <1>1
<1>9. h[n + 1] = h[(n + 1) - 1] \o BytesOf(m[t[n + 1].name], t[n + 1].width)
  BY <1>2, <1>8, Zenon DEF IsBytes
<1>10. QED
  BY <1>1, <1>4, <1>5, <1>7, <1>8, <1>9 DEF t

--------------------------------------------------------------------------------
(* Every field lies where decode() looks for it: behind the fields in front. *)

FieldsOf(m) == [name : DOMAIN m, width : Nat \ {0}]

ByteOf(m) == {m[n] : n \in DOMAIN m} \X Nat

Start(fields, k) == Widths(SubSeq(fields, 1, k - 1))

Laid(m, fields) ==
    /\ Widths(fields) \in Nat
    /\ Appended(m, fields) \in Seq(ByteOf(m))
    /\ Len(Appended(m, fields)) = Widths(fields)
    /\ \A k \in 1 .. Len(fields) :
          /\ Start(fields, k) \in Nat
          /\ Start(fields, k) + fields[k].width <= Widths(fields)
          /\ \A i \in 1 .. fields[k].width :
                Appended(m, fields)[Start(fields, k) + i] = <<m[fields[k].name], i>>

LEMMA EmptyFront == ASSUME NEW S, NEW s \in Seq(S) PROVE SubSeq(s, 1, 0) = <<>>
OBVIOUS

LEMMA FieldBytes ==
    ASSUME NEW m, NEW c \in FieldsOf(m)
    PROVE  /\ c.width \in Nat \ {0}
           /\ BytesOf(m[c.name], c.width) \in Seq(ByteOf(m))
           /\ Len(BytesOf(m[c.name], c.width)) = c.width
           /\ \A i \in 1 .. c.width : BytesOf(m[c.name], c.width)[i] = <<m[c.name], i>>
<1>1. c.name \in DOMAIN m /\ c.width \in Nat \ {0}
  BY DEF FieldsOf
<1>2. \A i \in 1 .. c.width : <<m[c.name], i>> \in ByteOf(m)
  BY <1>1 DEF ByteOf
<1>3. QED
  BY <1>1, <1>2 DEF BytesOf

LEMMA LaidNothing == ASSUME NEW m PROVE Laid(m, <<>>)
<1>1. Widths(<<>>) = 0 /\ Appended(m, <<>>) = <<>>
  BY WidthsNothing, AppendedNothing
<1>2. <<>> \in Seq(ByteOf(m)) /\ Len(<<>>) = 0 /\ 1 .. 0 = {}
  OBVIOUS
<1>3. 0 \in Nat /\ \A k \in 1 .. Len(<<>>) : FALSE
  BY <1>2
<1>4. QED
  BY <1>1, <1>2, <1>3, Zenon DEF Laid

LEMMA LaidOneMore ==
    ASSUME NEW m, NEW u \in Seq(FieldsOf(m)), NEW c \in FieldsOf(m), Laid(m, u)
    PROVE  Laid(m, Append(u, c))
<1> DEFINE t == Append(u, c)
           n == Len(u)
           A == Appended(m, u)
           B == BytesOf(m[c.name], c.width)
<1>1. /\ c.width \in Nat \ {0} /\ B \in Seq(ByteOf(m)) /\ Len(B) = c.width
      /\ \A i \in 1 .. c.width : B[i] = <<m[c.name], i>>
  BY FieldBytes
<1>2. /\ Widths(u) \in Nat /\ A \in Seq(ByteOf(m)) /\ Len(A) = Widths(u)
  BY DEF Laid
<1>3. Widths(t) = Widths(u) + c.width /\ Appended(m, t) = A \o B
  BY WidthsOneMore, AppendedOneMore
<1>4. /\ n \in Nat /\ t \in Seq(FieldsOf(m)) /\ Len(t) = n + 1 /\ t[n + 1] = c
      /\ \A k \in 1 .. n : t[k] = u[k]
  OBVIOUS
<1>5. \A k \in 1 .. n + 1 : SubSeq(t, 1, k - 1) = SubSeq(u, 1, k - 1)
  OBVIOUS
<1>6. SubSeq(u, 1, (n + 1) - 1) = u
  OBVIOUS
<1>7. \A k \in 1 .. n + 1 : Start(t, k) = Start(u, k)
  <2> HIDE DEF t, n
  <2> QED
    BY <1>5 DEF Start
<1>8. Start(u, n + 1) = Widths(u)
  <2> HIDE DEF n
  <2> QED
    BY <1>6 DEF Start
<1> HIDE DEF t, n, A, B
<1>9. /\ A \o B \in Seq(ByteOf(m)) /\ Len(A \o B) = Widths(u) + c.width
      /\ \A i \in 1 .. Widths(u) : (A \o B)[i] = A[i]
      /\ \A i \in 1 .. c.width : (A \o B)[Widths(u) + i] = B[i]
  <2> DEFINE T == ByteOf(m)
  <2>1. A \in Seq(T) /\ B \in Seq(T)
    BY <1>1, <1>2
  <2> HIDE DEF T
  <2>2. /\ A \o B \in Seq(T) /\ Len(A \o B) = Len(A) + Len(B)
        /\ \A i \in 1 .. Len(A) : (A \o B)[i] = A[i]
        /\ \A i \in 1 .. Len(B) : (A \o B)[Len(A) + i] = B[i]
    BY <2>1, JoinedAt
  <2>3. Len(A) = Widths(u) /\ Len(B) = c.width
    BY <1>1, <1>2
  <2>4. QED
    BY <2>2, <2>3 DEF T
<1>10. ASSUME NEW k \in 1 .. n + 1
       PROVE  /\ Start(t, k) \in Nat
              /\ Start(t, k) + t[k].width <= Widths(t)
              /\ \A i \in 1 .. t[k].width :
                    Appended(m, t)[Start(t, k) + i] = <<m[t[k].name], i>>
  <2>1. CASE k = n + 1
    <3>1. Start(t, k) = Widths(u) /\ t[k] = c
      BY <1>4, <1>7, <1>8, <2>1
    <3>2. Start(t, k) \in Nat /\ Start(t, k) + t[k].width <= Widths(t)
      BY <1>1, <1>2, <1>3, <3>1
    <3>3. \A i \in 1 .. c.width : Appended(m, t)[Widths(u) + i] = <<m[c.name], i>>
      BY <1>1, <1>3, <1>9
    <3>4. QED
      BY <3>1, <3>2, <3>3
  <2>2. CASE k \in 1 .. n
    <3>1. Start(t, k) = Start(u, k) /\ t[k] = u[k]
      BY <1>4, <1>7, <2>2
    <3>2. /\ Start(u, k) \in Nat
          /\ Start(u, k) + u[k].width <= Widths(u)
          /\ \A i \in 1 .. u[k].width : A[Start(u, k) + i] = <<m[u[k].name], i>>
      BY <2>2 DEF Laid, A, n
    <3>3. u[k].width \in Nat
      <4>1. u[k] \in FieldsOf(m)
        BY <2>2 DEF n
      <4>2. QED
        BY <4>1, FieldBytes
    <3>4. Start(t, k) \in Nat /\ Start(t, k) + t[k].width <= Widths(t)
      BY <1>1, <1>2, <1>3, <3>1, <3>2, <3>3
    <3>5. ASSUME NEW i \in 1 .. u[k].width
          PROVE  Appended(m, t)[Start(u, k) + i] = <<m[u[k].name], i>>
      <4>1. Start(u, k) + i \in 1 .. Widths(u)
        BY <1>2, <3>2, <3>3
      <4>2. (A \o B)[Start(u, k) + i] = A[Start(u, k) + i]
        BY <1>9, <4>1
      <4>3. QED
        BY <1>3, <3>2, <4>2
    <3>6. QED
      BY <3>1, <3>4, <3>5
  <2>3. QED
    BY <1>4, <2>1, <2>2
<1>11. Laid(m, t)
  <2>1. Widths(t) \in Nat
    BY <1>1, <1>2, <1>3
  <2>2. Appended(m, t) \in Seq(ByteOf(m)) /\ Len(Appended(m, t)) = Widths(t)
    BY <1>3, <1>9
  <2>3. QED
    BY <1>4, <1>10, <2>1, <2>2 DEF Laid
<1>12. QED
  BY <1>11 DEF t

LEMMA FieldsLaid ==
    ASSUME NEW m, NEW fields \in Seq(FieldsOf(m))
    PROVE  Laid(m, fields)
<1> DEFINE S == FieldsOf(m)
           P == {u \in Seq(S) : Laid(m, u)}
<1>1. <<>> \in P
  BY LaidNothing
<1>2. ASSUME NEW u \in Seq(S), NEW c \in S, u \in P PROVE Append(u, c) \in P
  BY <1>2, LaidOneMore
<1>3. Seq(S) \subseteq P
  <2> HIDE DEF P, S
  <2> QED
    BY <1>1, <1>2, SequencesByAppend
<1>4. QED
  BY <1>3

Holds(buf, offset, width, v) == \A i \in 1 .. width : buf[offset + i] = <<v, i>>

\* What memcpy takes out of a buffer that holds the bytes of v there.
LEMMA CopiedField ==
    ASSUME NEW V, NEW buf \in Seq(V), NEW offset \in Nat, NEW width \in Nat \ {0},
           offset + width <= Len(buf), NEW v, Holds(buf, offset, width, v)
    PROVE  Copied(buf, offset, width) = v
<1>1. buf[offset + 1] = <<v, 1>>
  BY DEF Holds
<1>2. SubSeq(buf, offset + 1, offset + width) = BytesOf(v, width)
  <2> DEFINE part == SubSeq(buf, offset + 1, offset + width)
  <2>1. part \in Seq(V) /\ Len(part) = width
    OBVIOUS
  <2>2. \A i \in 1 .. width : part[i] = buf[offset + i]
    OBVIOUS
  <2> HIDE DEF part
  <2>3. DOMAIN part = 1 .. width /\ part = [i \in DOMAIN part |-> part[i]]
    BY <2>1
  <2>4. \A i \in 1 .. width : part[i] = <<v, i>>
    BY <2>2 DEF Holds
  <2>5. part = [i \in 1 .. width |-> <<v, i>>]
    BY <2>3, <2>4
  <2>6. QED
    BY <2>5 DEF part, BytesOf
<1>3. QED
  BY <1>1, <1>2 DEF Copied

--------------------------------------------------------------------------------
(* The fields of the four messages.                                         *)

FieldNames == {"header", "senderId", "senderPort", "alive", "data", "len", "last",
               "received", "x", "y", "z", "vx", "vy", "vz"}

AnyField == [name : FieldNames, width : Nat \ {0}]

\* The two sides agree on the layout.
LEMMA ReadAsWritten ==
    ASSUME NEW type \in MessageType
    PROVE  /\ Written(type) = Prefix \o ReadBy(type)
           /\ Written(type) = ReadFirst \o ReadBy(type)
<1>1. Written(type) = Prefix \o ReadBy(type)
  BY DEF Written, ReadBy, MessageType
<1>2. ReadFirst = Prefix
  BY Zenon DEF ReadFirst, Prefix
<1>3. QED
  BY <1>1, <1>2

LEMMA ShortLists ==
    ASSUME NEW F, NEW a \in F, NEW b \in F, NEW c \in F, NEW d \in F, NEW e \in F, NEW f \in F
    PROVE  /\ <<a>> \in Seq(F)
           /\ <<a, b, c>> \in Seq(F) /\ Len(<<a, b, c>>) = 3 /\ <<a, b, c>>[1] = a
           /\ <<a, b, c, d, e, f>> \in Seq(F)
OBVIOUS

LEMMA FieldTypes ==
    ASSUME NEW type \in MessageType
    PROVE  /\ Written(type) \in Seq(AnyField)
           /\ Len(Written(type)) > 0 /\ Written(type)[1] = Field("header", 8)
<1>1. /\ Field("header", 8) \in AnyField /\ Field("senderId", 4) \in AnyField
      /\ Field("senderPort", 4) \in AnyField
  BY DEF Field, AnyField, FieldNames
<1>2. ReadBy(type) \in Seq(AnyField)
  <2>1. CASE type = "HEARTBEAT"
    <3>1. Field("alive", 1) \in AnyField
      BY DEF Field, AnyField, FieldNames
    <3>2. <<Field("alive", 1)>> \in Seq(AnyField)
      BY <3>1, ShortLists
    <3>3. QED
      BY <2>1, <3>2 DEF ReadBy
  <2>2. CASE type = "FILE_MSG"
    <3>1. FILE_CHUNK_SIZE \in Nat \ {0}
      BY ProtocolAssumption
    <3>2. /\ Field("data", FILE_CHUNK_SIZE) \in AnyField
          /\ Field("len", 2) \in AnyField /\ Field("last", 1) \in AnyField
      BY <3>1 DEF Field, AnyField, FieldNames
    <3>3. <<Field("data", FILE_CHUNK_SIZE), Field("len", 2), Field("last", 1)>>
            \in Seq(AnyField)
      BY <3>2, ShortLists
    <3>4. QED
      BY <2>2, <3>3 DEF ReadBy
  <2>3. CASE type = "ACK"
    <3>1. Field("received", 1) \in AnyField
      BY DEF Field, AnyField, FieldNames
    <3>2. <<Field("received", 1)>> \in Seq(AnyField)
      BY <3>1, ShortLists
    <3>3. QED
      BY <2>3, <3>2 DEF ReadBy
  <2>4. CASE type = "COMMAND"
    <3>1. /\ Field("x", 8) \in AnyField /\ Field("vx", 8) \in AnyField
          /\ Field("y", 8) \in AnyField /\ Field("vy", 8) \in AnyField
          /\ Field("z", 8) \in AnyField /\ Field("vz", 8) \in AnyField
      BY DEF Field, AnyField, FieldNames
    <3>2. <<Field("x", 8), Field("y", 8), Field("z", 8),
            Field("vx", 8), Field("vy", 8), Field("vz", 8)>> \in Seq(AnyField)
      BY <3>1, ShortLists
    <3>3. QED
      BY <2>4, <3>2 DEF ReadBy
  <2>5. QED
    BY <2>1, <2>2, <2>3, <2>4 DEF MessageType
<1>3. Prefix \in Seq(AnyField) /\ Len(Prefix) = 3 /\ Prefix[1] = Field("header", 8)
  <2>1. /\ <<Field("header", 8), Field("senderId", 4), Field("senderPort", 4)>> \in Seq(AnyField)
        /\ Len(<<Field("header", 8), Field("senderId", 4), Field("senderPort", 4)>>) = 3
        /\ <<Field("header", 8), Field("senderId", 4), Field("senderPort", 4)>>[1]
              = Field("header", 8)
    BY <1>1, ShortLists
  <2>2. QED
    BY <2>1 DEF Prefix
<1>4. /\ Prefix \o ReadBy(type) \in Seq(AnyField) /\ Len(Prefix \o ReadBy(type)) > 0
      /\ (Prefix \o ReadBy(type))[1] = Prefix[1]
  <2>1. /\ Prefix \o ReadBy(type) \in Seq(AnyField) /\ Len(ReadBy(type)) \in Nat
        /\ Len(Prefix \o ReadBy(type)) = Len(Prefix) + Len(ReadBy(type))
        /\ \A i \in 1 .. Len(Prefix) : (Prefix \o ReadBy(type))[i] = Prefix[i]
    <3>1. Prefix \in Seq(AnyField)
      BY <1>3
    <3>2. QED
      BY <1>2, <3>1, JoinedAt
  <2>2. 1 \in 1 .. Len(Prefix) /\ Len(Prefix) + Len(ReadBy(type)) > 0
    BY <1>3, <2>1
  <2>3. QED
    BY <2>1, <2>2
<1>5. Written(type) = Prefix \o ReadBy(type)
  BY ReadAsWritten
<1>6. QED
  BY <1>3, <1>4, <1>5

\* A struct is not smaller than a header.
LEMMA StructHoldsHeader ==
    ASSUME NEW type \in MessageType, Widths(Written(type)) \in Nat
    PROVE  StructSize(type) \in Nat /\ StructSize(type) >= 8
<1> DEFINE w == Widths(Written(type))
<1>1. w \in Nat
  OBVIOUS
<1>2. StructSize(type) = ((8 + w + 7) \div 8) * 8
  BY DEF StructSize
<1> HIDE DEF w
<1>3. (8 + w + 7) \div 8 \in Nat /\ (8 + w + 7) \div 8 >= 1
  BY <1>1
<1>4. QED
  BY <1>2, <1>3

LEMMA Exchanged ==
    ASSUME NEW m \in Messages, Exchange(m)
    PROVE  received' = m
<1>1. PICK type \in MessageType :
          /\ DOMAIN m = Names(Written(type))
          /\ m["header"] = HeaderOf(type)
          /\ m = [n \in DOMAIN m |-> m[n]]
  <2>1. m \in AllMessages
    BY ProtocolAssumption
  <2>2. PICK type \in MessageType : \E v \in [Names(Written(type)) -> Payload] :
            m = [n \in Names(Written(type)) |->
                    IF n = "header" THEN HeaderOf(type) ELSE v[n]]
    BY <2>1 DEF AllMessages
  <2>3. "header" \in Names(Written(type))
    <3>1. /\ 1 \in DOMAIN Written(type) /\ Written(type)[1] = Field("header", 8)
      BY FieldTypes
    <3>2. Field("header", 8).name = "header"
      BY DEF Field
    <3>3. QED
      BY <3>1, <3>2 DEF Names
  <2>4. QED
    BY <2>2, <2>3
<1> DEFINE fields == Written(type)
           bytes == Appended(m, fields)
           n == Len(bytes)
<1>2. /\ fields \in Seq(AnyField)
      /\ Len(fields) > 0 /\ fields[1] = Field("header", 8)
  BY FieldTypes
<1>3. fields \in Seq(FieldsOf(m))
  <2>1. \A i \in DOMAIN fields : fields[i] \in FieldsOf(m)
    <3> SUFFICES ASSUME NEW i \in DOMAIN fields PROVE fields[i] \in FieldsOf(m)
      OBVIOUS
    <3>1. fields[i].name \in DOMAIN m
      BY <1>1 DEF Names
    <3> HIDE DEF fields
    <3>2. fields[i] \in AnyField
      BY <1>2
    <3>3. QED
      BY <3>1, <3>2 DEF FieldsOf, AnyField
  <2> HIDE DEF fields
  <2>2. QED
    BY <1>2, <2>1
<1>4. Laid(m, fields)
  BY <1>3, FieldsLaid
<1>5. /\ HeaderOf(type).type = type /\ HeaderOf(type).size = StructSize(type)
  BY DEF HeaderOf
<1>6. Serialize(m) = bytes
  BY <1>1, <1>5 DEF Serialize
<1>7. /\ n \in Nat /\ n = Widths(fields) /\ n <= BUFFER_SIZE /\ BUFFER_SIZE \in Nat
      /\ StructSize(type) <= MAX_SIZE
  BY <1>4, ProtocolAssumption DEF Laid
<1> HIDE DEF bytes, n, fields
<1>8. Taken(bytes) = n
  BY <1>7 DEF Taken, n
<1> DEFINE buf == Filled(bytes)
           V == {buf[i] : i \in 1 .. BUFFER_SIZE}
<1>9. /\ buf \in Seq(V) /\ Len(buf) = BUFFER_SIZE
      /\ \A i \in 1 .. n : buf[i] = bytes[i]
  <2>1. buf = [i \in 1 .. BUFFER_SIZE |-> IF i <= n THEN bytes[i] ELSE buffer[i]]
    BY <1>8 DEF Filled
  <2>2. \A i \in 1 .. n : i \in 1 .. BUFFER_SIZE /\ i <= n
    BY <1>7
  <2>3. \A i \in 1 .. n : buf[i] = bytes[i]
    BY <2>1, <2>2
  <2>4. \A i \in 1 .. BUFFER_SIZE : buf[i] \in V
    OBVIOUS
  <2> HIDE DEF V
  <2>5. buf \in Seq(V) /\ Len(buf) = BUFFER_SIZE
    <3> DEFINE g == [i \in 1 .. BUFFER_SIZE |-> IF i <= n THEN bytes[i] ELSE buffer[i]]
    <3>1. \A i \in 1 .. BUFFER_SIZE : g[i] \in V
      BY <2>1, <2>4
    <3>2. g \in Seq(V) /\ Len(g) = BUFFER_SIZE
      BY <1>7, <3>1
    <3>3. QED
      BY <2>1, <3>2
  <2>6. QED
    BY <2>3, <2>5
<1> HIDE DEF buf, V
<1>10. ASSUME NEW k \in DOMAIN fields
       PROVE  Copied(buf, Start(fields, k), fields[k].width) = m[fields[k].name]
  <2>1. k \in 1 .. Len(fields) /\ fields[k] \in FieldsOf(m)
    BY <1>3
  <2>2. fields[k].width \in Nat \ {0}
    BY <2>1, FieldBytes
  <2>3. /\ Start(fields, k) \in Nat
        /\ Start(fields, k) + fields[k].width <= n
        /\ \A i \in 1 .. fields[k].width :
              bytes[Start(fields, k) + i] = <<m[fields[k].name], i>>
    BY <1>4, <1>7, <2>1 DEF Laid, bytes
  <2>4. \A i \in 1 .. fields[k].width : Start(fields, k) + i \in 1 .. n
    BY <1>7, <2>2, <2>3
  <2>5. \A i \in 1 .. fields[k].width :
            buf[Start(fields, k) + i] = <<m[fields[k].name], i>>
    BY <1>9, <2>3, <2>4
  <2>6. Start(fields, k) + fields[k].width <= Len(buf)
    BY <1>7, <1>9, <2>2, <2>3
  <2> DEFINE offset == Start(fields, k)
             width == fields[k].width
             value == m[fields[k].name]
  <2>7. /\ offset \in Nat /\ width \in Nat \ {0} /\ offset + width <= Len(buf)
        /\ buf \in Seq(V) /\ Holds(buf, offset, width, value)
    BY <1>9, <2>2, <2>3, <2>5, <2>6 DEF Holds
  <2> HIDE DEF offset, width, value
  <2>8. Copied(buf, offset, width) = value
    BY <2>7, CopiedField
  <2>9. QED
    BY <2>8 DEF offset, width, value
<1>11. Copied(buf, 0, 8) = HeaderOf(type)
  <2>1. 1 \in DOMAIN fields
    BY <1>2
  <2>2. SubSeq(fields, 1, 1 - 1) = <<>>
    <3>1. SubSeq(fields, 1, 0) = <<>>
      BY <1>3, EmptyFront
    <3>2. QED
      BY <3>1
  <2>3. Start(fields, 1) = 0
    BY <2>2, WidthsNothing DEF Start
  <2>4. fields[1].name = "header" /\ fields[1].width = 8
    BY <1>2 DEF Field
  <2>5. QED
    BY <1>1, <1>10, <2>1, <2>3, <2>4
<1>12. n >= 8
  <2>1. 1 \in 1 .. Len(fields) /\ fields[1].width = 8
    BY <1>2 DEF Field
  <2>2. Start(fields, 1) \in Nat /\ Start(fields, 1) + 8 <= Widths(fields)
    BY <1>4, <2>1 DEF Laid
  <2>3. QED
    BY <1>7, <2>2
<1>13. StructSize(type) \in Nat /\ StructSize(type) >= 8 /\ MAX_SIZE \in Nat
  BY <1>7, StructHoldsHeader, ProtocolAssumption DEF fields
<1>14. Decode(buf, n) = Decoded(buf, fields)
  <2>1. ReadFirst \o ReadBy(type) = fields
    BY ReadAsWritten DEF fields
  <2>2. ~(n < 8 \/ StructSize(type) < 8 \/ StructSize(type) > MAX_SIZE)
    BY <1>7, <1>12, <1>13
  <2>3. QED
    BY <1>5, <1>11, <2>1, <2>2 DEF Decode
<1>15. Decoded(buf, fields) = m
  <2> DEFINE index(name) == CHOOSE i \in DOMAIN fields : fields[i].name = name
  <2>1. DOMAIN m = Names(fields)
    BY <1>1 DEF fields
  <2>2. ASSUME NEW name \in Names(fields)
        PROVE  Copied(buf, Widths(SubSeq(fields, 1, index(name) - 1)),
                      fields[index(name)].width) = m[name]
    <3>1. \E i \in DOMAIN fields : fields[i].name = name
      BY DEF Names
    <3>2. index(name) \in DOMAIN fields /\ fields[index(name)].name = name
      BY <3>1
    <3> HIDE DEF index
    <3>3. QED
      BY <1>10, <3>2 DEF Start
  <2>3. Decoded(buf, fields)
          = [name \in Names(fields) |->
                Copied(buf, Widths(SubSeq(fields, 1, index(name) - 1)),
                       fields[index(name)].width)]
    BY DEF Decoded
  <2> HIDE DEF index
  <2>4. Decoded(buf, fields) = [name \in Names(fields) |-> m[name]]
    BY <2>2, <2>3
  <2>5. QED
    BY <1>1, <2>1, <2>4
<1>16. buffer' = buf /\ received' = Decode(buf, n)
  BY <1>6, <1>8 DEF Exchange, buf
<1>17. QED
  BY <1>14, <1>15, <1>16

\* Every message of the four types comes out of decode() as it went into
\* serialize(), whatever the datagrams before it have left in the listener's
\* buffer, and however long the chunk of a dump is, as long as the sizes of
\* Config.h agree with each other.
THEOREM MessagesComeBack == Spec => []RoundTrip
<1>1. Init => RoundTrip
  BY DEF Init, RoundTrip
<1>2. RoundTrip /\ [Next]_vars => RoundTrip'
  <2> SUFFICES ASSUME RoundTrip, [Next]_vars PROVE RoundTrip'
    OBVIOUS
  <2>1. CASE UNCHANGED vars
    BY <2>1 DEF vars, RoundTrip
  <2>2. ASSUME NEW m \in Messages, Exchange(m) PROVE RoundTrip'
    <3>1. received' = m
      BY <2>2, Exchanged
    <3>2. QED
      BY <2>2, <3>1 DEF Exchange, RoundTrip
  <2>3. QED
    BY <2>1, <2>2 DEF Next
<1>3. QED
  BY <1>1, <1>2, PTL DEF Spec

================================================================================

---------------------------- MODULE SequenceLemmas ----------------------------
(***************************************************************************)
(* Facts that the proofs about several modules rest on: least and greatest *)
(* numbers, and FlattenSeq, which the models use to join and to filter     *)
(* sequences.  FlattenSeq is a recursive function; what it computes is     *)
(* shown from the least index at which a claim about it would fail.        *)
(***************************************************************************)
EXTENDS Integers, FiniteSets, Sequences, SequencesExt,
        FiniteSetTheorems, SequenceTheorems, WellFoundedInduction, TLAPS

\* A nonempty set of natural numbers has a least element.
LEMMA NaturalsHaveMinima ==
  ASSUME NEW S \in SUBSET Nat, S # {}
  PROVE  \E x \in S : \A y \in S : x <= y
<1> DEFINE R == {p \in Nat \X Nat : p[1] < p[2]}
<1>1. IsWellFoundedOn(R, Nat)
  BY NatLessThanWellFounded DEF OpToRel
<1>2. PICK x \in S : \A y \in S : <<y, x>> \notin R
  <2> HIDE DEF R
  <2> QED BY <1>1, WFMin
<1>3. \A y \in S : ~(y < x)
  BY <1>2
<1> QED BY <1>3

\* One that is bounded has a greatest.
LEMMA BoundedHaveMaxima ==
  ASSUME NEW T \in SUBSET Nat, T # {}, NEW b \in Nat, \A x \in T : x <= b
  PROVE  Max(T) \in T /\ \A x \in T : x <= Max(T)
<1> DEFINE Bounds == {n \in Nat : \A x \in T : x <= n}
<1>1. PICK m \in Bounds : \A n \in Bounds : m <= n
  <2>1. Bounds \in SUBSET Nat /\ b \in Bounds
    OBVIOUS
  <2> HIDE DEF Bounds
  <2> QED BY <2>1, NaturalsHaveMinima
<1>2. m \in Nat /\ \A x \in T : x <= m
  OBVIOUS
<1>3. m \in T
  <2>1. SUFFICES ASSUME m \notin T PROVE FALSE
    OBVIOUS
  <2>2. \A x \in T : x \in Nat /\ x < m
    BY <1>2, <2>1
  <2>3. m - 1 \in Nat
    <3>1. PICK x : x \in T
      OBVIOUS
    <3>2. x \in Nat /\ x < m
      BY <2>2, <3>1
    <3> HIDE DEF Bounds
    <3> QED BY <1>2, <3>2
  <2>4. m - 1 \in Bounds
    BY <1>2, <2>2, <2>3
  <2> HIDE DEF Bounds
  <2> QED BY <1>1, <1>2, <2>4
<1>4. \E x \in T : \A y \in T : x >= y
  BY <1>2, <1>3
<1>5. Max(T) \in T /\ \A y \in T : Max(T) >= y
  BY <1>4 DEF Max
<1> QED BY <1>2, <1>5

\* Finitely many numbers are bounded.
LEMMA SequencesAreBounded ==
  ASSUME NEW n \in Nat, NEW g \in [1..n -> Nat]
  PROVE  \E b \in Nat : \A i \in 1..n : g[i] <= b
<1> DEFINE Open == {k \in Nat : k <= n /\ ~ \E b \in Nat : \A i \in 1..k : g[i] <= b}
<1>1. Open = {}
  <2>1. SUFFICES ASSUME Open # {} PROVE FALSE
    OBVIOUS
  <2>2. PICK k \in Open : \A m \in Open : k <= m
    <3>1. Open \in SUBSET Nat
      OBVIOUS
    <3> HIDE DEF Open
    <3> QED BY <2>1, <3>1, NaturalsHaveMinima, Zenon
  <2>3. k \in Nat /\ k <= n /\ ~ \E b \in Nat : \A i \in 1..k : g[i] <= b
    OBVIOUS
  <2>4. k # 0
    BY <2>3
  <2>5. k - 1 \in Nat /\ k - 1 \notin Open
    <3> HIDE DEF Open
    <3> QED BY <2>2, <2>3, <2>4
  <2>6. PICK b \in Nat : \A i \in 1..(k - 1) : g[i] <= b
    BY <2>3, <2>5
  <2>7. g[k] \in Nat
    BY <2>3, <2>4
  <2>8. PICK c \in Nat : b <= c /\ g[k] <= c
    BY <2>6, <2>7
  <2>9. ASSUME NEW i \in 1..k PROVE g[i] <= c
    <3>1. i = k \/ i \in 1..(k - 1)
      BY <2>3
    <3>2. g[i] \in Nat
      BY <2>3
    <3> HIDE DEF Open
    <3> QED BY <2>6, <2>8, <3>1, <3>2
  <2> QED BY <2>3, <2>9
<1>2. n \notin Open
  BY <1>1, Zenon
<1> QED BY <1>2

LEMMA Concatenations ==
  ASSUME NEW S, NEW a \in Seq(S), NEW b \in Seq(S)
  PROVE  /\ a \o b \in Seq(S)
         /\ Len(a \o b) = Len(a) + Len(b)
OBVIOUS

LEMMA ConcatenationElements ==
  ASSUME NEW S, NEW a \in Seq(S), NEW b \in Seq(S), NEW j \in 1..Len(b)
  PROVE  (a \o b)[Len(a) + j] = b[j]
OBVIOUS

LEMMA NonemptyConcatenations ==
  ASSUME NEW S, NEW a \in Seq(S), NEW b \in Seq(S), Len(a) > 0 \/ Len(b) > 0
  PROVE  Len(a \o b) > 0
OBVIOUS

\* The function by which FlattenSeq is defined.
Joins(s, g) == g = [i \in 1..Len(s) |-> IF i = 1 THEN s[i] ELSE g[i-1] \o s[i]]

LEMMA FlattenIsLast ==
  ASSUME NEW s, Len(s) # 0
  PROVE  LET h == CHOOSE h : Joins(s, h) IN FlattenSeq(s) = h[Len(s)]
BY DEF FlattenSeq, Joins

LEMMA JoinsStep ==
  ASSUME NEW S, NEW s \in Seq(Seq(S)), NEW g, Joins(s, g), NEW i \in 1..Len(s)
  PROVE  g[i] = IF i = 1 THEN s[i] ELSE g[i-1] \o s[i]
BY DEF Joins

\* It takes one value after the other,
LEMMA JoinsExists ==
  ASSUME NEW S, NEW s \in Seq(Seq(S))
  PROVE  \E g : Joins(s, g)
<1> DEFINE Open == {n \in Nat : n <= Len(s) /\ ~ \E g : Joins(SubSeq(s, 1, n), g)}
<1>1. Open = {}
  <2>1. SUFFICES ASSUME Open # {} PROVE FALSE
    OBVIOUS
  <2>2. PICK n \in Open : \A m \in Open : n <= m
    <3>1. Open \in SUBSET Nat
      OBVIOUS
    <3> HIDE DEF Open
    <3> QED BY <2>1, <3>1, NaturalsHaveMinima, Zenon
  <2>3. n \in Nat /\ n <= Len(s) /\ ~ \E g : Joins(SubSeq(s, 1, n), g)
    OBVIOUS
  <2> DEFINE u == SubSeq(s, 1, n)
  <2>4. Len(u) = n /\ \A i \in 1..n : u[i] = s[i]
    BY <2>3, SubSeqProperties
  <2>5. CASE n = 0
    <3>1. Joins(u, [i \in 1..0 |-> <<>>])
      BY <2>4, <2>5 DEF Joins
    <3> QED BY <2>3, <3>1
  <2>6. CASE n > 0
    <3>1. n - 1 \in Nat /\ n - 1 \notin Open
      <4>1. n \in Nat /\ n > 0
        BY <2>3, <2>6
      <4> HIDE DEF Open
      <4> QED BY <2>2, <4>1
    <3>2. PICK g : Joins(SubSeq(s, 1, n - 1), g)
      BY <2>3, <3>1
    <3> DEFINE t == SubSeq(s, 1, n - 1)
    <3>3. Len(t) = n - 1 /\ \A i \in 1..(n-1) : t[i] = s[i]
      BY <2>3, <2>6, SubSeqProperties
    <3>4. g = [i \in 1..(n-1) |-> IF i = 1 THEN s[i] ELSE g[i-1] \o s[i]]
      BY <3>2, <3>3 DEF Joins
    <3> DEFINE h == [i \in 1..n |-> IF i < n THEN g[i] ELSE IF n = 1 THEN s[1] ELSE g[n-1] \o s[n]]
    <3>5. \A i \in 1..n : h[i] = IF i = 1 THEN s[i] ELSE h[i-1] \o s[i]
      <4>1. ASSUME NEW i \in 1..n PROVE h[i] = IF i = 1 THEN s[i] ELSE h[i-1] \o s[i]
        <5>1. CASE i < n
          <6>1. i \in 1..(n-1) /\ h[i] = g[i]
            BY <2>3, <5>1
          <6>2. i # 1 => i - 1 \in 1..n /\ h[i-1] = g[i-1]
            BY <2>3, <5>1
          <6>3. g[i] = IF i = 1 THEN s[i] ELSE g[i-1] \o s[i]
            BY <3>4, <6>1
          <6> HIDE DEF h
          <6> QED BY <6>1, <6>2, <6>3
        <5>2. CASE i = n
          <6>1. h[i] = IF n = 1 THEN s[1] ELSE g[n-1] \o s[n]
            BY <5>2
          <6>2. i # 1 => i - 1 \in 1..n /\ h[i-1] = g[n-1]
            BY <2>3, <5>2
          <6> HIDE DEF h
          <6> QED BY <5>2, <6>1, <6>2
        <5> QED BY <2>3, <5>1, <5>2
      <4> QED BY <4>1
    <3>6. \A i \in 1..n : h[i] = IF i = 1 THEN u[i] ELSE h[i-1] \o u[i]
      <4> HIDE DEF h, u
      <4> QED BY <3>5, <2>4
    <3>7. h = [i \in 1..n |-> h[i]]
      OBVIOUS
    <3> HIDE DEF h, u
    <3>8. h = [i \in 1..n |-> IF i = 1 THEN u[i] ELSE h[i-1] \o u[i]]
      BY <3>6, <3>7
    <3>9. Joins(u, h)
      BY <2>4, <3>8 DEF Joins
    <3> QED BY <2>3, <3>9 DEF u
  <2> QED BY <2>3, <2>5, <2>6
<1>2. SubSeq(s, 1, Len(s)) = s /\ Len(s) \in Nat
  BY SubSeqFull
<1>3. \E g : Joins(SubSeq(s, 1, Len(s)), g)
  BY <1>1, <1>2
<1> QED BY <1>2, <1>3, Zenon

\* and the values of a longer sequence are those of a shorter one, as far as
\* that goes.
LEMMA JoinsAgree ==
  ASSUME NEW S, NEW s \in Seq(Seq(S)), NEW x \in Seq(S), NEW g, NEW h, Joins(s, g), Joins(Append(s, x), h)
  PROVE  \A i \in 1..Len(s) : g[i] = h[i]
<1> DEFINE Open == {n \in Nat : n \in 1..Len(s) /\ g[n] # h[n]}
<1>1. Len(Append(s, x)) = Len(s) + 1 /\ \A i \in 1..Len(s) : Append(s, x)[i] = s[i]
  BY AppendProperties
<1>2. \A i \in 1..Len(s) : g[i] = IF i = 1 THEN s[i] ELSE g[i-1] \o s[i]
  BY DEF Joins
<1>3. \A i \in 1..Len(s) : h[i] = IF i = 1 THEN s[i] ELSE h[i-1] \o s[i]
  <2> DEFINE u == Append(s, x)
  <2>1. Joins(u, h) /\ Len(u) = Len(s) + 1 /\ \A i \in 1..Len(s) : u[i] = s[i]
    BY <1>1
  <2>2. Len(s) \in Nat
    OBVIOUS
  <2> HIDE DEF u
  <2>3. h = [i \in 1..Len(u) |-> IF i = 1 THEN u[i] ELSE h[i-1] \o u[i]]
    BY <2>1 DEF Joins
  <2>4. \A i \in 1..Len(s) : i \in 1..Len(u)
    BY <2>1, <2>2
  <2>5. \A i \in 1..Len(u) : h[i] = IF i = 1 THEN u[i] ELSE h[i-1] \o u[i]
    BY <2>3
  <2> QED BY <2>1, <2>4, <2>5
<1>4. Open = {}
  <2>1. SUFFICES ASSUME Open # {} PROVE FALSE
    OBVIOUS
  <2>2. PICK n \in Open : \A m \in Open : n <= m
    <3>1. Open \in SUBSET Nat
      OBVIOUS
    <3> HIDE DEF Open
    <3> QED BY <2>1, <3>1, NaturalsHaveMinima, Zenon
  <2>3. n \in 1..Len(s) /\ g[n] # h[n]
    OBVIOUS
  <2>4. n # 1 => n - 1 \in 1..Len(s) /\ n - 1 \notin Open
    BY <2>2, <2>3
  <2>5. n # 1 => g[n-1] = h[n-1]
    BY <2>4
  <2> QED BY <1>2, <1>3, <2>3, <2>5
<1> QED BY <1>4, SMTT(30)

LEMMA FlattenEmpty == FlattenSeq(<<>>) = <<>>
BY DEF FlattenSeq

LEMMA FlattenType ==
  ASSUME NEW S, NEW s \in Seq(Seq(S))
  PROVE  FlattenSeq(s) \in Seq(S)
<1>1. CASE Len(s) = 0
  <2>1. s = <<>>
    BY <1>1
  <2>2. FlattenSeq(s) = <<>>
    BY <2>1, FlattenEmpty, Zenon
  <2> QED BY <2>2
<1>2. CASE Len(s) # 0
  <2> DEFINE h == CHOOSE h : Joins(s, h)
             Open == {n \in Nat : n \in 1..Len(s) /\ h[n] \notin Seq(S)}
  <2>1. Joins(s, h)
    BY JoinsExists
  <2>2. FlattenSeq(s) = h[Len(s)]
    BY <1>2, FlattenIsLast
  <2> HIDE DEF h
  <2>3. \A i \in 1..Len(s) : h[i] = IF i = 1 THEN s[i] ELSE h[i-1] \o s[i]
    BY <2>1 DEF Joins
  <2>4. Open = {}
    <3>1. SUFFICES ASSUME Open # {} PROVE FALSE
      OBVIOUS
    <3>2. PICK n \in Open : \A m \in Open : n <= m
      <4>1. Open \in SUBSET Nat
        OBVIOUS
      <4> HIDE DEF Open
      <4> QED BY <3>1, <4>1, NaturalsHaveMinima, Zenon
    <3>3. n \in 1..Len(s) /\ h[n] \notin Seq(S) /\ s[n] \in Seq(S)
      OBVIOUS
    <3>4. n # 1 => n - 1 \in 1..Len(s) /\ n - 1 \notin Open
      BY <3>2, <3>3
    <3>5. n # 1 => h[n-1] \in Seq(S)
      BY <3>4
    <3>6. n # 1 => h[n-1] \o s[n] \in Seq(S)
      BY <3>3, <3>5
    <3> QED BY <2>3, <3>3, <3>6
  <2>5. Len(s) \in 1..Len(s)
    BY <1>2
  <2> QED BY <2>2, <2>4, <2>5
<1> QED BY <1>1, <1>2

LEMMA FlattenNonempty ==
  ASSUME NEW S, NEW s \in Seq(Seq(S)), NEW k \in 1..Len(s), s[k] # <<>>
  PROVE  FlattenSeq(s) # <<>>
<1> DEFINE h == CHOOSE h : Joins(s, h)
           Open == {n \in Nat : n \in k..Len(s) /\ ~(h[n] \in Seq(S) /\ Len(h[n]) > 0)}
           Early == {n \in Nat : n \in 1..Len(s) /\ h[n] \notin Seq(S)}
<1>1. Joins(s, h)
  BY JoinsExists
<1>2. FlattenSeq(s) = h[Len(s)]
  BY FlattenIsLast
<1> HIDE DEF h
<1>3. \A i \in 1..Len(s) : h[i] = IF i = 1 THEN s[i] ELSE h[i-1] \o s[i]
  BY <1>1 DEF Joins
<1>4. Early = {}
  <2>1. SUFFICES ASSUME Early # {} PROVE FALSE
    OBVIOUS
  <2>2. PICK n \in Early : \A m \in Early : n <= m
    <3>1. Early \in SUBSET Nat
      OBVIOUS
    <3> HIDE DEF Early
    <3> QED BY <2>1, <3>1, NaturalsHaveMinima, Zenon
  <2>3. n \in 1..Len(s) /\ h[n] \notin Seq(S) /\ s[n] \in Seq(S)
    OBVIOUS
  <2>4. n # 1 => n - 1 \in 1..Len(s) /\ n - 1 \notin Early
    BY <2>2, <2>3
  <2>5. n # 1 => h[n-1] \in Seq(S)
    BY <2>4
  <2>6. n # 1 => h[n-1] \o s[n] \in Seq(S)
    BY <2>3, <2>5
  <2> QED BY <1>3, <2>3, <2>6
<1>5. \A n \in 1..Len(s) : h[n] \in Seq(S) /\ s[n] \in Seq(S)
  <2>1. ASSUME NEW n \in 1..Len(s) PROVE h[n] \in Seq(S) /\ s[n] \in Seq(S)
    <3>1. n \notin Early
      BY <1>4, Zenon
    <3> QED BY <3>1
  <2> QED BY <2>1
<1>6. Open = {}
  <2>1. SUFFICES ASSUME Open # {} PROVE FALSE
    OBVIOUS
  <2>2. PICK n \in Open : \A m \in Open : n <= m
    <3>1. Open \in SUBSET Nat
      OBVIOUS
    <3> HIDE DEF Open
    <3> QED BY <2>1, <3>1, NaturalsHaveMinima, Zenon
  <2>3. n \in k..Len(s) /\ n \in 1..Len(s) /\ ~(Len(h[n]) > 0)
    BY <1>5
  <2>4. CASE n = k
    <3>1. s[n] \in Seq(S) /\ Len(s[n]) > 0
      BY <1>5, <2>3, <2>4
    <3>2. h[n] = IF n = 1 THEN s[n] ELSE h[n-1] \o s[n]
      BY <1>3, <2>3
    <3>3. n # 1 => n - 1 \in 1..Len(s)
      BY <2>3
    <3>4. n # 1 => h[n-1] \in Seq(S)
      BY <1>5, <3>3
    <3>5. n # 1 => Len(h[n-1] \o s[n]) > 0
      <4>1. SUFFICES ASSUME n # 1 PROVE Len(h[n-1] \o s[n]) > 0
        OBVIOUS
      <4>2. h[n-1] \in Seq(S) /\ s[n] \in Seq(S)
        BY <3>1, <3>4, <4>1
      <4> QED BY ONLY <3>1, <4>2, NonemptyConcatenations
    <3> QED BY <2>3, <3>1, <3>2, <3>5
  <2>5. CASE n # k
    <3>1. n - 1 \in k..Len(s) /\ n - 1 \in 1..Len(s) /\ n - 1 \notin Open
      BY <2>2, <2>3, <2>5
    <3>2. h[n-1] \in Seq(S) /\ Len(h[n-1]) > 0 /\ s[n] \in Seq(S)
      <4>1. h[n-1] \in Seq(S) /\ s[n] \in Seq(S)
        BY <1>5, <2>3, <3>1, Zenon
      <4>2. n - 1 \in Nat
        BY <3>1
      <4>3. Len(h[n-1]) > 0
        BY <3>1, <4>1, <4>2, Zenon
      <4> QED BY <4>1, <4>3
    <3>3. n # 1
      BY <2>3, <2>5
    <3>4. h[n] = h[n-1] \o s[n]
      BY <1>3, <2>3, <3>3
    <3>5. Len(h[n-1] \o s[n]) > 0
      BY ONLY <3>2, NonemptyConcatenations
    <3> QED BY <2>3, <3>4, <3>5
  <2> QED BY <2>4, <2>5
<1>7. Len(s) \in k..Len(s)
  OBVIOUS
<1>8. Len(h[Len(s)]) > 0
  <2>1. Len(s) \notin Open
    BY <1>6, Zenon
  <2> QED BY <1>5, <1>7, <2>1
<1> QED BY <1>2, <1>8

LEMMA FlattenAppend ==
  ASSUME NEW S, NEW s \in Seq(Seq(S)), NEW x \in Seq(S)
  PROVE  FlattenSeq(Append(s, x)) = FlattenSeq(s) \o x
<1> DEFINE u == Append(s, x)
           h == CHOOSE h : Joins(u, h)
<1>1. u \in Seq(Seq(S)) /\ Len(u) = Len(s) + 1 /\ u[Len(s) + 1] = x /\ Len(s) \in Nat
  BY AppendProperties
<1>2. Joins(u, h)
  BY <1>1, JoinsExists
<1>3. FlattenSeq(u) = h[Len(s) + 1]
  <2>1. Len(u) # 0
    BY <1>1
  <2>2. FlattenSeq(u) = h[Len(u)]
    <3> HIDE DEF u
    <3> QED BY <2>1, FlattenIsLast
  <2> HIDE DEF h, u
  <2> QED BY <1>1, <2>2
<1> HIDE DEF h
<1>4. h[Len(s) + 1] = IF Len(s) + 1 = 1 THEN u[Len(s) + 1] ELSE h[Len(s)] \o u[Len(s) + 1]
  <2>1. Len(s) + 1 \in 1..Len(u) /\ Len(s) + 1 - 1 = Len(s)
    BY <1>1
  <2> HIDE DEF u
  <2> QED BY <1>1, <1>2, <2>1, JoinsStep
<1>5. CASE Len(s) = 0
  <2>0. s = <<>>
    BY <1>5
  <2>1. FlattenSeq(s) = <<>>
    BY <2>0, FlattenEmpty, Zenon
  <2> QED BY <1>1, <1>3, <1>4, <1>5, <2>1
<1>6. CASE Len(s) # 0
  <2> DEFINE g == CHOOSE g : Joins(s, g)
  <2>1. Joins(s, g)
    BY JoinsExists
  <2>2. FlattenSeq(s) = g[Len(s)]
    BY <1>6, FlattenIsLast
  <2> HIDE DEF g
  <2>3. g[Len(s)] = h[Len(s)]
    BY <1>1, <1>2, <1>6, <2>1, JoinsAgree
  <2> QED BY <1>1, <1>3, <1>4, <1>6, <2>2, <2>3
<1> QED BY <1>5, <1>6

LEMMA Associative ==
  ASSUME NEW S, NEW a \in Seq(S), NEW b \in Seq(S), NEW c \in Seq(S)
  PROVE  (a \o b) \o c = a \o (b \o c)
OBVIOUS

\* Concatenated sequences have concatenated texts.
LEMMA FlattenConcat ==
  ASSUME NEW S, NEW s \in Seq(Seq(S)), NEW t \in Seq(Seq(S))
  PROVE  FlattenSeq(s \o t) = FlattenSeq(s) \o FlattenSeq(t)
<1> DEFINE P(n) == FlattenSeq(s \o SubSeq(t, 1, n)) = FlattenSeq(s) \o FlattenSeq(SubSeq(t, 1, n))
           Open == {n \in Nat : n <= Len(t) /\ ~P(n)}
<1>1. FlattenSeq(s) \in Seq(S)
  BY FlattenType
<1>2. P(0)
  <2>1. SubSeq(t, 1, 0) = <<>>
    BY SubSeqEmpty
  <2>2. s \o <<>> = s
    OBVIOUS
  <2>3. FlattenSeq(s) \o <<>> = FlattenSeq(s)
    BY <1>1
  <2> QED BY <2>1, <2>2, <2>3, FlattenEmpty, Zenon
<1>3. ASSUME NEW n \in Nat, n + 1 <= Len(t), P(n) PROVE P(n + 1)
  <2> DEFINE u == SubSeq(t, 1, n)
  <2>1. u \in Seq(Seq(S)) /\ t[n + 1] \in Seq(S)
    BY <1>3, SubSeqProperties
  <2>2. SubSeq(t, 1, n + 1) = Append(u, t[n + 1])
    BY <1>3
  <2>3. FlattenSeq(s \o u) = FlattenSeq(s) \o FlattenSeq(u) /\ FlattenSeq(u) \in Seq(S)
    BY <1>3, <2>1, FlattenType
  <2> HIDE DEF u
  <2>4. s \o Append(u, t[n + 1]) = Append(s \o u, t[n + 1])
    BY <2>1, SMTT(30)
  <2>5. s \o u \in Seq(Seq(S))
    BY <2>1
  <2>6. FlattenSeq(s \o SubSeq(t, 1, n + 1)) = (FlattenSeq(s) \o FlattenSeq(u)) \o t[n + 1]
    <3>1. FlattenSeq(Append(s \o u, t[n + 1])) = FlattenSeq(s \o u) \o t[n + 1]
      BY <2>1, <2>5, FlattenAppend
    <3> QED BY <2>2, <2>3, <2>4, <3>1, Zenon
  <2>7. FlattenSeq(SubSeq(t, 1, n + 1)) = FlattenSeq(u) \o t[n + 1]
    BY <2>1, <2>2, FlattenAppend
  <2> DEFINE a == FlattenSeq(s)
             b == FlattenSeq(u)
             c == t[n + 1]
  <2>8. a \in Seq(S) /\ b \in Seq(S) /\ c \in Seq(S)
    BY <1>1, <2>1, <2>3
  <2>9. (a \o b) \o c = a \o (b \o c)
    <3> HIDE DEF a, b, c
    <3> QED BY ONLY <2>8, Associative
  <2> QED BY <2>6, <2>7, <2>9
<1> HIDE DEF P
<1>4. Open = {}
  <2>1. SUFFICES ASSUME Open # {} PROVE FALSE
    OBVIOUS
  <2>2. PICK n \in Open : \A m \in Open : n <= m
    <3>1. Open \in SUBSET Nat
      OBVIOUS
    <3> HIDE DEF Open
    <3> QED BY <2>1, <3>1, NaturalsHaveMinima, Zenon
  <2>3. n \in Nat /\ n <= Len(t) /\ ~P(n) /\ n # 0
    BY <1>2
  <2>4. n - 1 \in Nat /\ n - 1 \notin Open /\ n - 1 <= Len(t)
    BY <2>2, <2>3
  <2>5. P(n - 1) /\ (n - 1) + 1 = n
    BY <2>3, <2>4
  <2>6. P((n - 1) + 1)
    BY <1>3, <2>3, <2>4, <2>5
  <2> QED BY <2>3, <2>5, <2>6
<1>5. Len(t) \in Nat /\ Len(t) \notin Open /\ SubSeq(t, 1, Len(t)) = t
  BY <1>4, SubSeqFull
<1>6. P(Len(t))
  BY <1>5
<1> QED BY <1>5, <1>6 DEF P
=============================================================================

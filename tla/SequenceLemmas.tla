---------------------------- MODULE SequenceLemmas ----------------------------
(***************************************************************************)
(* What the proofs about rankings, selections and counts keep needing: the *)
(* least natural number and induction over sets of them, the greatest      *)
(* integer of a finite set, folds over a sequence, selections by a fold,   *)
(* that a finite set can be put in order, sequences taken apart and joined, *)
(* and what Ranking makes of a list.                                       *)
(*                                                                         *)
(* Induction is stated with sets for predicates, a step of a fold with a   *)
(* function for an operator: the provers instantiate sets and functions.   *)
(***************************************************************************)
EXTENDS Ranking, FiniteSetTheorems, SequenceTheorems, TLAPS

-----------------------------------------------------------------------------
\* Of the intervals 1..n with n in B one is minimal under inclusion.
LEMMA LeastNatural ==
    ASSUME NEW B \in SUBSET Nat, B # {}
    PROVE  \E m \in B : \A n \in B : m <= n
<1> DEFINE T == {1..n : n \in B}
<1>1. IsWellFoundedOn(StrictSubsetOrdering(Nat), FiniteSubsetsOf(Nat))
  BY FS_StrictSubsetOrderingWellFounded
<1>2. \A n \in B : IsFiniteSet(1..n) /\ 1..n \in SUBSET Nat
  BY FS_Interval
<1>3. T \subseteq FiniteSubsetsOf(Nat) /\ T # {}
  BY <1>2 DEF FiniteSubsetsOf
<1> HIDE DEF T
<1>4. PICK x \in T : \A y \in T : ~(<<y, x>> \in StrictSubsetOrdering(Nat))
  BY <1>1, <1>3, WFMin
<1>5. PICK m \in B : x = 1..m
  BY DEF T
<1>6. ASSUME NEW n \in B, n < m PROVE FALSE
  <2>1. 1..n \in T /\ 1..n \subseteq 1..m /\ 1..n # 1..m
    BY <1>6 DEF T
  <2>2. <<1..n, 1..m>> \in StrictSubsetOrdering(Nat)
    BY <2>1, <1>2 DEF StrictSubsetOrdering
  <2> QED
    BY <2>1, <2>2, <1>4, <1>5
<1> QED
  BY <1>6

\* A set of numbers that has 0 and with each number below n the next one has
\* all numbers up to n.
LEMMA Induction ==
    ASSUME NEW n \in Nat, NEW P, 0 \in P, \A k \in 0 .. n - 1 : k \in P => k + 1 \in P
    PROVE  \A k \in 0..n : k \in P
<1> DEFINE B == {k \in 0..n : k \notin P}
<1> SUFFICES ASSUME B # {} PROVE FALSE
  OBVIOUS
<1>0. B \in SUBSET Nat
  OBVIOUS
<1>1. PICK m \in B : \A k \in B : m <= k
  <2> HIDE DEF B
  <2> QED
    BY <1>0, LeastNatural
<1>2. m # 0 /\ m - 1 \in 0 .. n - 1 /\ m - 1 \notin B
  BY <1>1
<1> QED
  BY <1>1, <1>2

\* A finite set of integers has a greatest and a least element.
LEMMA Extremes ==
    ASSUME NEW S \in SUBSET Int, IsFiniteSet(S), S # {}
    PROVE  /\ Max(S) \in S /\ \A x \in S : x <= Max(S)
           /\ Min(S) \in S /\ \A x \in S : Min(S) <= x
<1> DEFINE Up(x) == {y \in S : x < y}
           Down(x) == {y \in S : y < x}
<1>1. IsWellFoundedOn(StrictSubsetOrdering(S), FiniteSubsetsOf(S))
  BY FS_StrictSubsetOrderingWellFounded
<1>2. FiniteSubsetsOf(S) = SUBSET S
  BY FS_FiniteSubsetsOfFinite
<1>3. \E x \in S : \A y \in S : y <= x
  <2> DEFINE T == {Up(x) : x \in S}
  <2>0. \A x \in S : Up(x) \in FiniteSubsetsOf(S)
    BY <1>2
  <2> HIDE DEF Up
  <2>1. T \subseteq FiniteSubsetsOf(S) /\ T # {}
    BY <2>0
  <2> HIDE DEF T
  <2>2. PICK U \in T : \A V \in T : ~(<<V, U>> \in StrictSubsetOrdering(S))
    BY <1>1, <2>1, WFMin
  <2>3. PICK x \in S : U = Up(x)
    BY DEF T
  <2>4. ASSUME NEW y \in S, x < y PROVE FALSE
    <3>1. Up(y) \in T
      BY DEF T
    <3>3. Up(y) \subseteq Up(x) /\ Up(y) # Up(x)
      <4>1. y \in Up(x) /\ y \notin Up(y) /\ \A z \in Up(y) : z \in Up(x)
        BY <2>4 DEF Up
      <4> QED
        BY <4>1
    <3>4. Up(y) \in SUBSET S /\ Up(x) \in SUBSET S
      BY DEF Up
    <3>2. <<Up(y), Up(x)>> \in StrictSubsetOrdering(S)
      BY <3>3, <3>4 DEF StrictSubsetOrdering
    <3> QED
      BY <2>2, <2>3, <3>1, <3>2
  <2> QED
    BY <2>4
<1>4. \E x \in S : \A y \in S : x <= y
  <2> DEFINE T == {Down(x) : x \in S}
  <2>0. \A x \in S : Down(x) \in FiniteSubsetsOf(S)
    BY <1>2
  <2> HIDE DEF Down
  <2>1. T \subseteq FiniteSubsetsOf(S) /\ T # {}
    BY <2>0
  <2> HIDE DEF T
  <2>2. PICK U \in T : \A V \in T : ~(<<V, U>> \in StrictSubsetOrdering(S))
    BY <1>1, <2>1, WFMin
  <2>3. PICK x \in S : U = Down(x)
    BY DEF T
  <2>4. ASSUME NEW y \in S, y < x PROVE FALSE
    <3>1. Down(y) \in T
      BY DEF T
    <3>3. Down(y) \subseteq Down(x) /\ Down(y) # Down(x)
      <4>1. y \in Down(x) /\ y \notin Down(y) /\ \A z \in Down(y) : z \in Down(x)
        BY <2>4 DEF Down
      <4> QED
        BY <4>1
    <3>4. Down(y) \in SUBSET S /\ Down(x) \in SUBSET S
      BY DEF Down
    <3>2. <<Down(y), Down(x)>> \in StrictSubsetOrdering(S)
      BY <3>3, <3>4 DEF StrictSubsetOrdering
    <3> QED
      BY <2>2, <2>3, <3>1, <3>2
  <2> QED
    BY <2>4
<1>5. Max(S) \in S /\ \A x \in S : x <= Max(S)
  BY <1>3 DEF Max
<1>6. Min(S) \in S /\ \A x \in S : Min(S) <= x
  BY <1>4 DEF Min
<1> QED
  BY <1>5, <1>6

\* The values of a function on a finite set are finitely many.
LEMMA FiniteImage ==
    ASSUME NEW S, IsFiniteSet(S), NEW f
    PROVE  IsFiniteSet({f[x] : x \in S})
<1> DEFINE T == {f[x] : x \in S}
           g == [x \in S |-> f[x]]
<1>1. g \in Surjection(S, T)
  BY DEF Surjection
<1> HIDE DEF g
<1> QED
  BY <1>1, FS_Surjection

-----------------------------------------------------------------------------
\* The non-empty sets of positions: taking out the greatest leaves one less.
LEMMA TakeGreatest ==
    ASSUME NEW n \in Nat, NEW s \in SUBSET (1..n)
    PROVE  /\ IsFiniteSet(s) /\ Cardinality(s) \in 0..n
           /\ Cardinality(s) = 0 <=> s = {}
           /\ s # {} => /\ Max(s) \in s
                        /\ s \ {Max(s)} \in SUBSET (1..n)
                        /\ Cardinality(s \ {Max(s)}) = Cardinality(s) - 1
<1>1. IsFiniteSet(1..n) /\ Cardinality(1..n) = n
  BY FS_Interval
<1>2. IsFiniteSet(s) /\ Cardinality(s) <= n
  BY <1>1, FS_Subset
<1>3. Cardinality(s) \in Nat /\ (Cardinality(s) = 0 <=> s = {})
  BY <1>2, FS_CardinalityType, FS_EmptySet
<1>4. ASSUME s # {}
      PROVE  Max(s) \in s /\ Cardinality(s \ {Max(s)}) = Cardinality(s) - 1
  <2>1. Max(s) \in s
    BY <1>2, <1>4, Extremes
  <2> QED
    BY <1>2, <2>1, FS_RemoveElement
<1>5. s \ {Max(s)} \in SUBSET (1..n)
  OBVIOUS
<1>6. Cardinality(s) \in 0..n
  BY <1>2, <1>3
<1> QED
  BY <1>2, <1>3, <1>4, <1>5, <1>6

\* The recursive function inside FoldLeft, over the positions of a sequence.
FoldFunctions(n, T, base, step) ==
    {iter \in [SUBSET (1..n) -> T] : \A s \in SUBSET (1..n) :
        iter[s] = IF s = {} THEN base ELSE step[<<Max(s), iter[s \ {Max(s)}]>>]}

\* It exists if its step keeps to a set.
LEMMA FoldExists ==
    ASSUME NEW n \in Nat, NEW T, NEW base \in T, NEW step \in [(1..n) \X T -> T]
    PROVE  \E iter : iter \in FoldFunctions(n, T, base, step)
<1> DEFINE Folds(iter, s) ==
             iter[s] = IF s = {} THEN base ELSE step[<<Max(s), iter[s \ {Max(s)}]>>]
           P == {k \in 0..n : \E iter \in [SUBSET (1..n) -> T] :
                   \A s \in SUBSET (1..n) : Cardinality(s) <= k => Folds(iter, s)}
<1>1. 0 \in P
  <2> DEFINE iter == [s \in SUBSET (1..n) |-> base]
  <2>1. ASSUME NEW s \in SUBSET (1..n), Cardinality(s) <= 0 PROVE Folds(iter, s)
    <3>1. Cardinality(s) \in 0..n /\ (Cardinality(s) = 0 <=> s = {})
      BY TakeGreatest
    <3> QED
      BY <2>1, <3>1
  <2>2. iter \in [SUBSET (1..n) -> T]
    OBVIOUS
  <2> HIDE DEF iter, Folds
  <2> QED
    BY <2>1, <2>2
<1>2. ASSUME NEW k \in 0 .. n - 1, k \in P PROVE k + 1 \in P
  <2>1. PICK g \in [SUBSET (1..n) -> T] :
          \A s \in SUBSET (1..n) : Cardinality(s) <= k => Folds(g, s)
    BY <1>2
  <2> DEFINE Next(s) == step[<<Max(s), g[s \ {Max(s)}]>>]
             h == [s \in SUBSET (1..n) |->
                     IF Cardinality(s) <= k THEN g[s] ELSE Next(s)]
  <2>2. ASSUME NEW s \in SUBSET (1..n), ~(Cardinality(s) <= k)
        PROVE  /\ s # {} /\ Max(s) \in 1..n /\ s \ {Max(s)} \in SUBSET (1..n)
               /\ Next(s) \in T
    <3>0. Cardinality(s) \in 0..n /\ (Cardinality(s) = 0 <=> s = {})
      BY TakeGreatest
    <3>a. s # {}
      BY <2>2, <3>0
    <3>1. s # {} /\ Max(s) \in 1..n /\ s \ {Max(s)} \in SUBSET (1..n)
      BY <3>a, TakeGreatest
    <3>2. <<Max(s), g[s \ {Max(s)}]>> \in (1..n) \X T
      BY <3>1
    <3> QED
      BY <3>1, <3>2
  <2>3. h \in [SUBSET (1..n) -> T]
    BY <2>2
  <2>4. ASSUME NEW s \in SUBSET (1..n), Cardinality(s) <= k + 1 PROVE Folds(h, s)
    <3> DEFINE r == s \ {Max(s)}
    <3>1. CASE s = {}
      BY <2>1, <3>1, TakeGreatest
    <3>2. CASE s # {}
      <4>1. r \in SUBSET (1..n) /\ Cardinality(r) = Cardinality(s) - 1 /\ Cardinality(s) \in 0..n
        BY <3>2, TakeGreatest
      <4>2. h[r] = g[r]
        BY <2>4, <4>1
      <4>3. h[s] = step[<<Max(s), g[r]>>]
        <5>1. CASE Cardinality(s) <= k
          BY <2>1, <3>2, <5>1
        <5>2. CASE ~(Cardinality(s) <= k)
          BY <5>2
        <5> QED
          BY <5>1, <5>2
      <4> QED
        BY <3>2, <4>2, <4>3
    <3> QED
      BY <3>1, <3>2
  <2> HIDE DEF h, Folds
  <2> QED
    BY <2>3, <2>4
<1>3. n \in P
  <2> HIDE DEF P
  <2> QED
    BY <1>1, <1>2, Induction
<1>4. PICK iter \in [SUBSET (1..n) -> T] :
        \A s \in SUBSET (1..n) : Cardinality(s) <= n => Folds(iter, s)
  BY <1>3
<1>5. ASSUME NEW s \in SUBSET (1..n) PROVE Folds(iter, s)
  <2>1. Cardinality(s) \in 0..n
    BY TakeGreatest
  <2> QED
    BY <1>4, <2>1
<1> QED
  BY <1>5 DEF FoldFunctions

\* The sets of positions that a fold from the left goes through are the prefixes.
LEMMA PrefixOf ==
    ASSUME NEW n \in Nat, NEW k \in 1..n
    PROVE  /\ 1..k \in SUBSET (1..n) /\ 1..k # {} /\ Max(1..k) = k
           /\ (1..k) \ {k} = 1 .. k - 1
<1>0. IsFiniteSet(1..k)
  BY FS_Interval
<1>1. IsFiniteSet(1..k) /\ 1..k \in SUBSET Int /\ 1..k # {} /\ k \in 1..k
  BY <1>0
<1>2. Max(1..k) \in 1..k /\ k <= Max(1..k)
  BY <1>1, Extremes
<1>3. Max(1..k) = k
  BY <1>2
<1>4. 1..k \in SUBSET (1..n) /\ (1..k) \ {k} = 1 .. k - 1
  OBVIOUS
<1> QED
  BY <1>1, <1>3, <1>4

-----------------------------------------------------------------------------
\* Each pair of elements, in their order, is in R.
Ordered(s, R) == \A i, j \in DOMAIN s : i < j => <<s[i], s[j]>> \in R

\* A fold that appends what is in P has the elements of P, in their order.
LEMMA Filter ==
    ASSUME NEW T, NEW s \in Seq(T), NEW P, NEW R, Ordered(s, R), NEW f,
           f[0] = <<>>,
           \A k \in 1 .. Len(s) :
             f[k] = IF s[k] \in P THEN Append(f[k - 1], s[k]) ELSE f[k - 1]
    PROVE  /\ f[Len(s)] \in Seq(T)
           /\ ToSet(f[Len(s)]) = ToSet(s) \cap P
           /\ Ordered(f[Len(s)], R)
<1> DEFINE Selected(k) ==
             /\ f[k] \in Seq(T)
             /\ \A x : x \in ToSet(f[k]) <=> x \in P /\ \E i \in 1..k : x = s[i]
             /\ Ordered(f[k], R)
           B == {k \in 0 .. Len(s) : Selected(k)}
<1>0. Len(s) \in Nat
  OBVIOUS
<1>1. 0 \in B
  <2>1. <<>> \in Seq(T)
    BY EmptySeq
  <2>2. DOMAIN <<>> = {}
    OBVIOUS
  <2>3. ToSet(<<>>) = {} /\ Ordered(<<>>, R)
    BY <2>2 DEF ToSet, Ordered
  <2>4. f[0] \in Seq(T) /\ ToSet(f[0]) = {} /\ Ordered(f[0], R)
    BY <2>1, <2>3
  <2>5. Selected(0)
    BY <2>4
  <2> HIDE DEF Selected
  <2> QED
    BY <1>0, <2>5
<1>2. ASSUME NEW k \in 0 .. Len(s) - 1, k \in B PROVE k + 1 \in B
  <2>1. Selected(k)
    BY <1>2
  <2>2. k + 1 \in 1 .. Len(s) /\ (k + 1) - 1 = k /\ s[k + 1] \in T
    OBVIOUS
  <2>3. f[k + 1] = IF s[k + 1] \in P THEN Append(f[k], s[k + 1]) ELSE f[k]
    BY <2>2
  <2>4. \A x : (\E i \in 1 .. k + 1 : x = s[i]) <=> x = s[k + 1] \/ \E i \in 1..k : x = s[i]
    OBVIOUS
  <2>5. CASE s[k + 1] \notin P
    <3>1. Selected(k + 1)
      BY <2>1, <2>3, <2>4, <2>5
    <3> QED
      BY <2>2, <3>1
  <2>6. CASE s[k + 1] \in P
    <3> DEFINE g == f[k]
               h == Append(g, s[k + 1])
    <3>1. g \in Seq(T) /\ f[k + 1] = h
      BY <2>1, <2>3, <2>6
    <3>2. /\ h \in Seq(T) /\ Len(h) = Len(g) + 1 /\ DOMAIN h = 1 .. Len(g) + 1
          /\ \A i \in DOMAIN g : h[i] = g[i]
          /\ h[Len(g) + 1] = s[k + 1] /\ DOMAIN g = 1 .. Len(g) /\ Len(g) \in Nat
      BY <2>2, <3>1, AppendProperties
    <3>a. \A x : x \in ToSet(g) <=> x \in P /\ \E i \in 1..k : x = s[i]
      BY <2>1
    <3>b. Ordered(g, R)
      BY <2>1
    <3> HIDE DEF g, h, Selected
    <3>3. ToSet(h) = ToSet(g) \cup {s[k + 1]}
      BY <3>2 DEF ToSet
    <3>4. ASSUME NEW i \in DOMAIN h, NEW j \in DOMAIN h, i < j PROVE <<h[i], h[j]>> \in R
      <4>1. CASE j \in DOMAIN g
        BY <3>2, <3>4, <3>b, <4>1 DEF Ordered
      <4>2. CASE j \notin DOMAIN g
        <5>1. i \in DOMAIN g /\ h[j] = s[k + 1] /\ h[i] = g[i]
          BY <3>2, <3>4, <4>2
        <5>2. g[i] \in ToSet(g)
          BY <5>1 DEF ToSet
        <5>3. PICK m \in 1..k : g[i] = s[m]
          BY <5>2, <3>a
        <5> QED
          BY <2>2, <5>1, <5>3 DEF Ordered
      <4> QED
        BY <4>1, <4>2
    <3>5. \A x : x \in ToSet(h) <=> x \in P /\ \E i \in 1 .. k + 1 : x = s[i]
      BY <2>4, <2>6, <3>3, <3>a
    <3>6. Selected(k + 1)
      BY <3>1, <3>2, <3>4, <3>5 DEF Selected, Ordered
    <3> QED
      BY <2>2, <3>6
  <2> QED
    BY <2>5, <2>6
<1>3. Selected(Len(s))
  <2> HIDE DEF Selected
  <2>1. \A k \in 0 .. Len(s) : k \in B
    <3> HIDE DEF B
    <3> QED
      BY <1>0, <1>1, <1>2, Induction
  <2> QED
    BY <1>0, <2>1
<1>4. ToSet(f[Len(s)]) = ToSet(s) \cap P
  BY <1>3 DEF ToSet
<1> QED
  BY <1>3, <1>4

-----------------------------------------------------------------------------
\* An enumeration of a finite set has each of its elements.
LEMMA Enumerates ==
    ASSUME NEW S, IsFiniteSet(S), NEW q \in SetToSeqs(S)
    PROVE  /\ q \in Seq(S) /\ Len(q) = Cardinality(S) /\ ToSet(q) = S
           /\ Cardinality(S) \in Nat /\ DOMAIN q = 1 .. Cardinality(S)
           /\ \A i, j \in DOMAIN q : i # j => q[i] # q[j]
<1> DEFINE D == 1 .. Cardinality(S)
<1>1. Cardinality(S) \in Nat
  BY FS_CardinalityType
<1>2. q \in [D -> S] /\ \A i, j \in D : i # j => q[i] # q[j]
  BY DEF SetToSeqs
<1>3. IsFiniteSet(D) /\ Cardinality(D) = Cardinality(S)
  BY <1>1, FS_Interval
<1>4. q \in Injection(D, S)
  BY <1>2 DEF Injection, IsInjective
<1>5. q \in Surjection(D, S)
  BY <1>3, <1>4, FS_Injection
<1>6. \A x \in S : \E i \in D : q[i] = x
  BY <1>5 DEF Surjection
<1>7. q \in Seq(S) /\ Len(q) = Cardinality(S) /\ DOMAIN q = D
  BY <1>1, <1>2
<1>8. ToSet(q) = S
  BY <1>2, <1>6, <1>7 DEF ToSet
<1> QED
  BY <1>1, <1>2, <1>7, <1>8

\* A finite set can be enumerated in the order of a strict total order: an
\* element's position is the number of those before it, plus one.
LEMMA Sorting ==
    ASSUME NEW S, IsFiniteSet(S), NEW R,
           \A x \in S : <<x, x>> \notin R,
           \A x, y, z \in S : <<x, y>> \in R /\ <<y, z>> \in R => <<x, z>> \in R,
           \A x, y \in S : x # y => <<x, y>> \in R \/ <<y, x>> \in R
    PROVE  \E q \in SetToSeqs(S) : Ordered(q, R)
<1> DEFINE Before(x) == {y \in S : <<y, x>> \in R}
           D == 1 .. Cardinality(S)
           rank == [x \in S |-> Cardinality(Before(x)) + 1]
<1>1. Cardinality(S) \in Nat /\ IsFiniteSet(D) /\ Cardinality(D) = Cardinality(S)
  BY FS_CardinalityType, FS_Interval
<1>2. ASSUME NEW x \in S
      PROVE  IsFiniteSet(Before(x)) /\ Cardinality(Before(x)) \in Nat
  BY FS_Subset, FS_CardinalityType
<1>3. ASSUME NEW x \in S, NEW y \in S, <<x, y>> \in R PROVE rank[x] < rank[y]
  <2>1. Before(x) \in SUBSET Before(y)
    BY <1>3
  <2>2. Before(x) # Before(y)
    BY <1>3
  <2>3. /\ Cardinality(Before(x)) <= Cardinality(Before(y))
        /\ Cardinality(Before(x)) # Cardinality(Before(y))
    <3> HIDE DEF Before
    <3> QED
      BY <1>2, <2>1, <2>2, FS_Subset
  <2> QED
    BY <1>2, <2>3
<1>4. rank \in [S -> D]
  <2>1. ASSUME NEW x \in S PROVE rank[x] \in D
    <3>1. Before(x) \in SUBSET S /\ Before(x) # S
      OBVIOUS
    <3>2. Cardinality(Before(x)) <= Cardinality(S) /\ Cardinality(Before(x)) # Cardinality(S)
      <4> HIDE DEF Before
      <4> QED
        BY <3>1, FS_Subset
    <3> QED
      BY <1>1, <1>2, <3>2
  <2> QED
    BY <2>1
<1> HIDE DEF rank, Before, D
<1>5. rank \in Injection(S, D)
  <2>1. \A x \in S : rank[x] \in Int
    BY <1>4 DEF D
  <2>2. ASSUME NEW x \in S, NEW y \in S, rank[x] = rank[y], x # y PROVE FALSE
    <3>1. CASE <<x, y>> \in R
      BY <1>3, <2>1, <2>2, <3>1
    <3>2. CASE <<y, x>> \in R
      BY <1>3, <2>1, <2>2, <3>2
    <3> QED
      BY <2>2, <3>1, <3>2
  <2> QED
    BY <1>4, <2>2 DEF Injection, IsInjective
<1>6. rank \in Surjection(S, D)
  BY <1>1, <1>5, FS_Injection
<1>7. \A i \in D : \E x \in S : rank[x] = i
  BY <1>6 DEF Surjection
<1> DEFINE q == [i \in D |-> CHOOSE x \in S : rank[x] = i]
<1>8. q \in [D -> S] /\ \A i \in D : rank[q[i]] = i
  BY <1>7
<1> HIDE DEF q
<1>9. q \in SetToSeqs(S)
  BY <1>8 DEF SetToSeqs, D
<1>10. ASSUME NEW i \in D, NEW j \in D, i < j PROVE <<q[i], q[j]>> \in R
  <2>1. q[i] \in S /\ q[j] \in S /\ rank[q[i]] = i /\ rank[q[j]] = j
    BY <1>8
  <2>2. i \in Int /\ j \in Int
    BY <1>1 DEF D
  <2>4. q[i] # q[j] /\ ~(rank[q[j]] < rank[q[i]])
    BY <1>10, <2>1, <2>2
  <2>3. <<q[j], q[i]>> \notin R
    BY <1>3, <2>1, <2>4
  <2> QED
    BY <2>1, <2>3, <2>4
<1> QED
  BY <1>8, <1>9, <1>10 DEF Ordered, D

-----------------------------------------------------------------------------
\* A sequence that is not empty has its head and the elements of its tail.
LEMMA HeadAndTail ==
    ASSUME NEW T, NEW s \in Seq(T), s # <<>>
    PROVE  Tail(s) \in Seq(T) /\ Head(s) \in T /\ ToSet(s) = {Head(s)} \cup ToSet(Tail(s))
<1>1. /\ Tail(s) \in Seq(T) /\ Head(s) \in T /\ Len(s) \in Nat \ {0}
      /\ Len(Tail(s)) = Len(s) - 1 /\ Head(s) = s[1]
      /\ DOMAIN s = 1 .. Len(s) /\ DOMAIN Tail(s) = 1 .. Len(s) - 1
      /\ \A i \in 1 .. Len(s) - 1 : Tail(s)[i] = s[i + 1]
  BY HeadTailProperties
<1>2. ASSUME NEW i \in DOMAIN s PROVE s[i] \in {Head(s)} \cup ToSet(Tail(s))
  <2>1. CASE i = 1
    BY <1>1, <2>1
  <2>2. CASE i # 1
    <3>1. i - 1 \in DOMAIN Tail(s) /\ Tail(s)[i - 1] = s[i]
      BY <1>1, <2>2
    <3> QED
      BY <3>1 DEF ToSet
  <2> QED
    BY <2>1, <2>2
<1>3. ASSUME NEW i \in DOMAIN Tail(s) PROVE Tail(s)[i] \in ToSet(s)
  <2>1. i + 1 \in DOMAIN s /\ Tail(s)[i] = s[i + 1]
    BY <1>1
  <2> QED
    BY <2>1 DEF ToSet
<1>4. Head(s) \in ToSet(s)
  BY <1>1 DEF ToSet
<1> QED
  BY <1>1, <1>2, <1>3, <1>4 DEF ToSet

\* Two sequences one after the other have the elements of both.
LEMMA ElementsOfBoth ==
    ASSUME NEW T, NEW x \in Seq(T), NEW y \in Seq(T)
    PROVE  ToSet(x \o y) = ToSet(x) \cup ToSet(y)
<1>1. /\ DOMAIN x = 1 .. Len(x) /\ DOMAIN y = 1 .. Len(y) /\ Len(x) \in Nat /\ Len(y) \in Nat
      /\ DOMAIN (x \o y) = 1 .. Len(x) + Len(y)
  OBVIOUS
<1> DEFINE z == x \o y
<1>2. /\ \A i \in 1 .. Len(x) : i \in DOMAIN z /\ z[i] = x[i]
      /\ \A i \in 1 .. Len(y) : Len(x) + i \in DOMAIN z /\ z[Len(x) + i] = y[i]
  OBVIOUS
<1> HIDE DEF z
<1>3. ASSUME NEW i \in DOMAIN z PROVE z[i] \in ToSet(x) \cup ToSet(y)
  <2>1. i \in 1 .. Len(x) + Len(y)
    BY <1>1 DEF z
  <2>2. CASE i <= Len(x)
    <3>1. i \in DOMAIN x /\ z[i] = x[i]
      BY <1>1, <1>2, <2>1, <2>2
    <3> QED
      BY <3>1 DEF ToSet
  <2>3. CASE i > Len(x)
    <3>1. i - Len(x) \in 1 .. Len(y) /\ Len(x) + (i - Len(x)) = i
      BY <1>1, <2>1, <2>3
    <3>2. i - Len(x) \in DOMAIN y /\ z[i] = y[i - Len(x)]
      BY <1>1, <1>2, <3>1
    <3> QED
      BY <3>2 DEF ToSet
  <2> QED
    BY <1>1, <2>1, <2>2, <2>3
<1>4. ASSUME NEW i \in DOMAIN x PROVE x[i] \in ToSet(z)
  BY <1>1, <1>2 DEF ToSet
<1>5. ASSUME NEW i \in DOMAIN y PROVE y[i] \in ToSet(z)
  BY <1>1, <1>2 DEF ToSet
<1>6. ToSet(z) = ToSet(x) \cup ToSet(y)
  BY <1>3, <1>4, <1>5 DEF ToSet
<1> QED
  BY <1>6 DEF z

\* Three sequences one after the other need no parentheses.
Joined(x, y, w) == (x \o y) \o w = x \o (y \o w)

\* Three sequences can be joined in either order.
LEMMA Regrouped ==
    ASSUME NEW T, NEW x \in Seq(T), NEW y \in Seq(T), NEW w \in Seq(T)
    PROVE  Joined(x, y, w)
BY ConcatAssociative DEF Joined

\* The length of the positions p + 1 to p + l.
LEMMA IntervalLength ==
    ASSUME NEW p \in Nat, NEW l \in Nat
    PROVE  Cardinality(p + 1 .. p + l) = l
<1>1. p + 1 \in Int /\ p + l \in Int
  OBVIOUS
<1>2. Cardinality(p + 1 .. p + l) = IF p + 1 > p + l THEN 0 ELSE (p + l) - (p + 1) + 1
  BY <1>1, FS_Interval
<1> QED
  BY <1>2

\* b is the part of z that lies in S, as a set and in length.
PartIn(z, S, b) ==
    /\ Cardinality({i \in DOMAIN z : z[i] \in S}) = Len(b)
    /\ \A i \in DOMAIN z : z[i] \in S => z[i] \in ToSet(b)
    /\ ToSet(b) \subseteq ToSet(z)

\* Between two sequences without elements of S, one with elements of S only.
LEMMA OneAfterTheOther ==
    ASSUME NEW T, NEW a \in Seq(T), NEW b \in Seq(T), NEW c \in Seq(T), NEW S,
           ToSet(a) \cap S = {}, ToSet(b) \subseteq S, ToSet(c) \cap S = {}, NEW z, z = (a \o b) \o c
    PROVE  PartIn(z, S, b)
<1> DEFINE n == Len(a) + Len(b) + Len(c)
<1>1. /\ Len(a) \in Nat /\ Len(b) \in Nat /\ Len(c) \in Nat
      /\ DOMAIN a = 1 .. Len(a) /\ DOMAIN b = 1 .. Len(b) /\ DOMAIN c = 1 .. Len(c)
  OBVIOUS
<1>2. DOMAIN z = 1..n
  OBVIOUS
<1>3. /\ \A i \in 1 .. Len(a) : z[i] = a[i]
      /\ \A i \in 1 .. Len(b) : z[Len(a) + i] = b[i]
      /\ \A i \in 1 .. Len(c) : z[Len(a) + Len(b) + i] = c[i]
  OBVIOUS
<1>4. /\ \A i \in 1 .. Len(a) : a[i] \notin S
      /\ \A i \in 1 .. Len(b) : b[i] \in S /\ b[i] \in ToSet(b)
      /\ \A i \in 1 .. Len(c) : c[i] \notin S
  BY <1>1 DEF ToSet
<1>5. ASSUME NEW i \in 1..n
      PROVE  /\ i <= Len(a) => z[i] \notin S
             /\ Len(a) < i /\ i <= Len(a) + Len(b) => z[i] \in S /\ z[i] \in ToSet(b)
             /\ Len(a) + Len(b) < i => z[i] \notin S
  <2>1. CASE i <= Len(a)
    <3>1. i \in 1 .. Len(a)
      BY <1>1, <2>1
    <3> QED
      BY <1>1, <1>3, <1>4, <2>1, <3>1
  <2>2. CASE Len(a) < i /\ i <= Len(a) + Len(b)
    <3>1. i - Len(a) \in 1 .. Len(b) /\ Len(a) + (i - Len(a)) = i
      BY <1>1, <2>2
    <3>2. z[i] = b[i - Len(a)]
      BY <1>3, <3>1
    <3> QED
      BY <1>1, <1>4, <2>2, <3>1, <3>2
  <2>3. CASE Len(a) + Len(b) < i
    <3> DEFINE k == i - (Len(a) + Len(b))
    <3>1. k \in 1 .. Len(c) /\ Len(a) + Len(b) + k = i
      BY <1>1, <2>3
    <3> HIDE DEF k
    <3>2. z[i] = c[k]
      BY <1>3, <3>1
    <3> QED
      BY <1>1, <1>4, <2>3, <3>1, <3>2
  <2> QED
    BY <1>1, <2>1, <2>2, <2>3
<1>6. \A i \in 1..n : (z[i] \in S) <=> (Len(a) < i /\ i <= Len(a) + Len(b))
  BY <1>1, <1>5
<1>7. n \in Nat /\ Len(a) + Len(b) <= n
  BY <1>1
<1> HIDE DEF n
<1>8. Cardinality({i \in DOMAIN z : z[i] \in S}) = Len(b)
  <2> DEFINE p == Len(a)
             l == Len(b)
  <2>1. /\ p \in Nat /\ l \in Nat /\ n \in Nat /\ p + l <= n /\ DOMAIN z = 1..n
        /\ \A i \in 1..n : (z[i] \in S) <=> (p < i /\ i <= p + l)
    BY <1>1, <1>2, <1>6, <1>7
  <2> HIDE DEF p, l
  <2>2. Cardinality({i \in DOMAIN z : z[i] \in S}) = l
    <3>1. {i \in DOMAIN z : z[i] \in S} = p + 1 .. p + l
      <4>1. \A i \in 1..n : z[i] \in S <=> i \in p + 1 .. p + l
        BY <2>1
      <4>2. p + 1 .. p + l \subseteq 1..n
        BY <2>1
      <4>3. DOMAIN z = 1..n
        BY <2>1
      <4> QED
        BY <4>1, <4>2, <4>3, Zenon
    <3> QED
      BY <2>1, <3>1, IntervalLength
  <2> QED
    BY <2>2 DEF l
<1>9. \A i \in DOMAIN z : z[i] \in S => z[i] \in ToSet(b)
  BY <1>2, <1>5, <1>6
<1>10. ToSet(b) \subseteq ToSet(z)
  <2>1. ASSUME NEW i \in 1 .. Len(b) PROVE Len(a) + i \in DOMAIN z /\ z[Len(a) + i] = b[i]
    BY <1>1, <1>2, <1>3 DEF n
  <2> QED
    BY <1>1, <2>1 DEF ToSet
<1> QED
  BY <1>8, <1>9, <1>10 DEF PartIn

-----------------------------------------------------------------------------
\* What is selected from a list: the elements of the set, in the list's order.
LEMMA Selecting ==
    ASSUME NEW T, NEW s \in Seq(T), NEW S, NEW R, Ordered(s, R)
    PROVE  /\ Select(s, S) \in Seq(T)
           /\ ToSet(Select(s, S)) = ToSet(s) \cap S
           /\ Ordered(Select(s, S), R)
<1> DEFINE n == Len(s)
           step == [p \in (1..n) \X Seq(T) |->
                      IF s[p[1]] \in S THEN Append(p[2], s[p[1]]) ELSE p[2]]
           Folded(g) == g = [X \in SUBSET (1..n) |->
                               IF X = {} THEN <<>>
                               ELSE IF s[Max(X)] \in S
                                    THEN Append(g[X \ {Max(X)}], s[Max(X)])
                                    ELSE g[X \ {Max(X)}]]
           fold == CHOOSE g : Folded(g)
           f == [k \in 0..n |-> fold[1..k]]
<1>1. n \in Nat /\ DOMAIN s = 1..n
  OBVIOUS
<1>2. Select(s, S) = fold[1..n]
  BY <1>1 DEF Select, FoldLeft, MapThenFoldSet
<1>3. Folded(fold)
  <2>1. <<>> \in Seq(T) /\ step \in [(1..n) \X Seq(T) -> Seq(T)]
    BY EmptySeq, AppendProperties
  <2>2. PICK g \in FoldFunctions(n, Seq(T), <<>>, step) : TRUE
    <3> HIDE DEF step, n
    <3> QED
      BY <1>1, <2>1, FoldExists
  <2>3. ASSUME NEW X \in SUBSET (1..n), X # {}
        PROVE  step[<<Max(X), g[X \ {Max(X)}]>>] =
                 IF s[Max(X)] \in S THEN Append(g[X \ {Max(X)}], s[Max(X)]) ELSE g[X \ {Max(X)}]
    <3>1. Max(X) \in 1..n /\ X \ {Max(X)} \in SUBSET (1..n)
      BY <1>1, <2>3, TakeGreatest
    <3>2. g[X \ {Max(X)}] \in Seq(T)
      BY <3>1 DEF FoldFunctions
    <3> QED
      BY <3>1, <3>2
  <2>4. Folded(g)
    <3> HIDE DEF step
    <3> QED
      BY <2>2, <2>3 DEF FoldFunctions
  <2> HIDE DEF Folded
  <2> QED
    BY <2>4
<1>4. f[0] = <<>>
  <2>1. fold[{}] = <<>>
    <3> HIDE DEF fold
    <3> QED
      BY <1>3
  <2>2. 1..0 = {} /\ 0 \in 0..n
    BY <1>1
  <2> HIDE DEF fold
  <2> QED
    BY <2>1, <2>2
<1>5. ASSUME NEW k \in 1..n
      PROVE  f[k] = IF s[k] \in S THEN Append(f[k - 1], s[k]) ELSE f[k - 1]
  <2>1. /\ 1..k \in SUBSET (1..n) /\ 1..k # {} /\ Max(1..k) = k
        /\ (1..k) \ {k} = 1 .. k - 1
    BY <1>1, PrefixOf
  <2>2. fold[1..k] = IF s[k] \in S THEN Append(fold[1 .. k - 1], s[k]) ELSE fold[1 .. k - 1]
    <3> HIDE DEF fold
    <3> QED
      BY <1>3, <2>1
  <2>3. k \in 0..n /\ k - 1 \in 0..n
    OBVIOUS
  <2> HIDE DEF fold
  <2> QED
    BY <2>2, <2>3
<1>6. f[n] = Select(s, S)
  <2> HIDE DEF fold
  <2> QED
    BY <1>1, <1>2
<1> HIDE DEF f
<1> QED
  BY <1>4, <1>5, <1>6, Filter

\* Sorting by score rearranges a list, and puts no candidate behind a lower one.
LEMMA ScoresDescend ==
    ASSUME NEW T, NEW s \in Seq(T), \A x \in T : x.score \in Int
    PROVE  /\ ByScore(s) \in Seq(T) /\ Len(ByScore(s)) = Len(s)
           /\ ToSet(ByScore(s)) = ToSet(s)
           /\ \A i, j \in DOMAIN ByScore(s) : i < j => ByScore(s)[j].score <= ByScore(s)[i].score
<1> DEFINE D == DOMAIN s
           R == {p \in D \X D : \/ s[p[1]].score > s[p[2]].score
                                \/ s[p[1]].score = s[p[2]].score /\ p[1] < p[2]}
           Sorts(q) == \A i, j \in DOMAIN q :
                         i < j => \/ s[q[i]].score > s[q[j]].score
                                  \/ s[q[i]].score = s[q[j]].score /\ q[i] < q[j]
           order == CHOOSE q \in SetToSeqs(D) : Sorts(q)
           b == [k \in D |-> s[order[k]]]
<1>1. /\ Len(s) \in Nat /\ D = 1 .. Len(s) /\ IsFiniteSet(D) /\ Cardinality(D) = Len(s)
      /\ \A i \in D : s[i].score \in Int /\ i \in Int
  <2>1. Len(s) \in Nat /\ D = 1 .. Len(s) /\ \A i \in D : s[i] \in T /\ i \in Int
    OBVIOUS
  <2>2. IsFiniteSet(1 .. Len(s)) /\ Cardinality(1 .. Len(s)) = Len(s)
    BY <2>1, FS_Interval
  <2> QED
    BY <2>1, <2>2
<1>2. ByScore(s) = b
  BY DEF ByScore
<1>3. order \in SetToSeqs(D) /\ Sorts(order)
  <2>1. \A i, j \in D :
          (<<i, j>> \in R) <=> (s[i].score > s[j].score \/ (s[i].score = s[j].score /\ i < j))
    <3> HIDE DEF D
    <3>1. ASSUME NEW i \in D, NEW j \in D
          PROVE  (<<i, j>> \in R) <=> (s[i].score > s[j].score \/ (s[i].score = s[j].score /\ i < j))
      <4>1. <<i, j>> \in D \X D /\ <<i, j>>[1] = i /\ <<i, j>>[2] = j
        OBVIOUS
      <4> QED
        BY <4>1
    <3> QED
      BY <3>1
  <2> HIDE DEF R, D
  <2>2. \A i \in D : <<i, i>> \notin R
    BY <1>1, <2>1
  <2>3. \A i, j, k \in D : <<i, j>> \in R /\ <<j, k>> \in R => <<i, k>> \in R
    BY <1>1, <2>1
  <2>4. \A i, j \in D : i # j => <<i, j>> \in R \/ <<j, i>> \in R
    BY <1>1, <2>1
  <2>5. PICK q \in SetToSeqs(D) : Ordered(q, R)
    BY <1>1, <2>2, <2>3, <2>4, Sorting
  <2>6. Sorts(q)
    <3>1. q \in Seq(D)
      BY <1>1, Enumerates
    <3>2. ASSUME NEW i \in DOMAIN q, NEW j \in DOMAIN q, i < j
          PROVE  s[q[i]].score > s[q[j]].score \/ (s[q[i]].score = s[q[j]].score /\ q[i] < q[j])
      <4>1. <<q[i], q[j]>> \in R /\ q[i] \in D /\ q[j] \in D
        BY <2>5, <3>1, <3>2 DEF Ordered
      <4> QED
        BY <2>1, <4>1
    <3> QED
      BY <3>2
  <2> HIDE DEF Sorts
  <2> QED
    BY <2>6
<1>4. /\ order \in Seq(D) /\ Len(order) = Len(s) /\ ToSet(order) = D
  <2> HIDE DEF D, order
  <2> QED
    BY <1>1, <1>3, Enumerates
<1> HIDE DEF order
<1>5. /\ b \in Seq(T) /\ Len(b) = Len(s) /\ DOMAIN b = D
      /\ \A k \in D : order[k] \in D /\ b[k] = s[order[k]]
  BY <1>1, <1>4
<1>6. ToSet(b) = ToSet(s)
  <2>1. \A i \in D : \E k \in D : order[k] = i
    <3> HIDE DEF D, b
    <3>1. DOMAIN order = D
      BY <1>1, <1>4
    <3> QED
      BY <1>4, <3>1 DEF ToSet
  <2> HIDE DEF b, D
  <2> QED
    BY <1>5, <2>1 DEF ToSet, D
<1>7. ASSUME NEW i \in DOMAIN b, NEW j \in DOMAIN b, i < j PROVE b[j].score <= b[i].score
  <2>1. i \in DOMAIN order /\ j \in DOMAIN order
    BY <1>1, <1>4, <1>5
  <2>2. s[order[i]].score > s[order[j]].score \/ s[order[i]].score = s[order[j]].score
    BY <1>3, <1>7, <2>1
  <2>3. order[i] \in D /\ order[j] \in D /\ b[i] = s[order[i]] /\ b[j] = s[order[j]]
    BY <1>5
  <2> HIDE DEF D, b
  <2> QED
    BY <1>1, <2>2, <2>3
<1> HIDE DEF b
<1> QED
  BY <1>2, <1>5, <1>6, <1>7

\* The first elements are no more than asked for.
LEMMA FirstOfList ==
    ASSUME NEW T, NEW s \in Seq(T), NEW n \in Nat
    PROVE  /\ First(s, n) \in Seq(T) /\ Len(First(s, n)) <= n
           /\ \A i \in DOMAIN First(s, n) : i \in DOMAIN s /\ First(s, n)[i] = s[i]
<1> DEFINE m == IF n < Len(s) THEN n ELSE Len(s)
<1>1. Len(s) \in Nat /\ DOMAIN s = 1 .. Len(s)
  OBVIOUS
<1>2. m \in 0 .. Len(s) /\ m \in Nat /\ m <= n
  <2>1. \A l \in Nat : LET k == IF n < l THEN n ELSE l IN k \in 0..l /\ k \in Nat /\ k <= n
    OBVIOUS
  <2> QED
    BY <1>1, <2>1
<1>3. First(s, n) = SubSeq(s, 1, m)
  BY DEF First
<1> HIDE DEF m
<1>4. \A i \in 1..m : s[i] \in T /\ i \in 1 .. Len(s)
  BY <1>1, <1>2
<1>5. SubSeq(s, 1, m) = [i \in 1..m |-> s[i]]
  BY <1>1, <1>2, SubSeqProperties
<1> QED
  BY <1>1, <1>2, <1>3, <1>4, <1>5

\* Who is not among the first has as many ahead, none of them lower.
LEMMA FirstOutdo ==
    ASSUME NEW T, NEW s \in Seq(T), \A x \in T : x.score \in Int, NEW n \in Nat,
           \A i, j \in DOMAIN s : i < j => s[j].score <= s[i].score
    PROVE  /\ First(s, n) \in Seq(T) /\ ToSet(First(s, n)) \subseteq ToSet(s)
           /\ Len(s) <= n => First(s, n) = s
           /\ \A c \in ToSet(s) \ ToSet(First(s, n)) :
                /\ Len(First(s, n)) = n
                /\ \A i \in DOMAIN First(s, n) : c.score <= First(s, n)[i].score
<1> DEFINE m == IF n < Len(s) THEN n ELSE Len(s)
           g == First(s, n)
<1>1. Len(s) \in Nat /\ DOMAIN s = 1 .. Len(s)
  OBVIOUS
<1>a. /\ m \in 0 .. Len(s)
      /\ m <= n /\ (m < n => m >= Len(s)) /\ (n >= Len(s) => m >= Len(s))
  <2>2. \A l \in Nat : LET k == IF n < l THEN n ELSE l
                       IN  k \in 0..l /\ k <= n /\ (k < n => k >= l) /\ (n >= l => k >= l)
    OBVIOUS
  <2> HIDE DEF g
  <2> QED
    BY <1>1, <2>2
<1>2. g = SubSeq(s, 1, m)
  BY DEF First
<1> HIDE DEF m, g
<1>3. /\ g \in Seq(T) /\ Len(g) = m /\ DOMAIN g = 1..m
      /\ \A i \in 1..m : g[i] = s[i]
  <2>1. m \in 0 .. Len(s) /\ m \in Nat
    BY <1>1, <1>a
  <2>2. \A i \in 1..m : s[i] \in T /\ i \in 1 .. Len(s)
    BY <1>1, <1>a
  <2>3. SubSeq(s, 1, m) = [i \in 1..m |-> s[i]]
    BY <1>1, <2>1, SubSeqProperties
  <2>4. g = [i \in 1..m |-> s[i]]
    BY <1>2, <2>3
  <2> QED
    BY <2>1, <2>2, <2>4
<1>4. ToSet(g) \subseteq ToSet(s)
  <2>1. \A i \in 1..m : i \in DOMAIN s
    BY <1>1, <1>a
  <2> QED
    BY <1>3, <2>1 DEF ToSet
<1>5. Len(s) <= n => g = s
  <2>1. \A i, j \in Int : i <= j /\ j <= i => i = j
    OBVIOUS
  <2>2. SubSeq(s, 1, Len(s)) = s
    BY <1>1
  <2>3. Len(s) <= n => m <= Len(s) /\ Len(s) <= m /\ m \in Int /\ Len(s) \in Int
    BY <1>1, <1>a
  <2> QED
    BY <1>2, <2>1, <2>2, <2>3
<1>6. ASSUME NEW c \in ToSet(s) \ ToSet(g)
      PROVE  Len(g) = n /\ \A i \in DOMAIN g : c.score <= g[i].score
  <2>1. PICK k \in DOMAIN s : c = s[k]
    BY DEF ToSet
  <2>2. ~(k <= m)
    <3>1. k <= m => k \in 1..m
      BY <1>1, <1>a
    <3> QED
      BY <1>3, <2>1, <3>1 DEF ToSet
  <2>3. m = n /\ \A i \in 1..m : i \in DOMAIN s /\ i < k
    BY <1>1, <1>a, <2>1, <2>2
  <2> QED
    BY <1>3, <2>1, <2>3
<1> QED
  BY <1>3, <1>4, <1>5, <1>6 DEF g
=============================================================================

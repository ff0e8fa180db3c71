----------------------------- MODULE Induction ------------------------------
(***************************************************************************)
(* Induction over the natural numbers, in the form that needs no operator  *)
(* as a parameter, and what it gives for the folds of the community        *)
(* modules: FoldLeft of a sequence is the last of a chain of values, one   *)
(* for each prefix.                                                        *)
(***************************************************************************)
EXTENDS Integers, SequencesExt, FiniteSetTheorems, WellFoundedInduction, TLAPS

-----------------------------------------------------------------------------
(* Induction. *)

LessThan == {p \in Nat \X Nat : p[1] < p[2]}

LEMMA LessIsWellFounded == IsWellFoundedOn(LessThan, Nat)
  BY NatLessThanWellFounded DEF OpToRel, LessThan

LEMMA LeastNumber ==
    ASSUME NEW T \in SUBSET Nat, T # {}
    PROVE  \E n \in T : \A m \in T : n <= m
  <1>1. PICK n \in T : \A m \in T : <<m, n>> \notin LessThan
    BY LessIsWellFounded, WFMin
  <1>2. ASSUME NEW m \in T PROVE n <= m
    <2>1. SUFFICES ASSUME m < n PROVE <<m, n>> \in LessThan
      BY <1>1
    <2>2. QED
      BY <2>1 DEF LessThan
  <1>3. QED
    BY <1>2

\* What holds of zero and of each successor holds of every number; a property
\* is the set of the numbers that have it.
LEMMA SetInduction ==
    ASSUME NEW T \in SUBSET Nat, 0 \in T, \A n \in T : n + 1 \in T
    PROVE  T = Nat
  <1> SUFFICES ASSUME Nat \ T # {} PROVE FALSE
    OBVIOUS
  <1>1. PICK n \in Nat \ T : \A m \in Nat \ T : n <= m
    <2>1. (Nat \ T) \in SUBSET Nat
      OBVIOUS
    <2>2. QED
      BY <2>1, LeastNumber
  <1>2. n - 1 \in Nat /\ n - 1 \in T
    BY <1>1
  <1>3. (n - 1) + 1 \in T
    BY <1>2
  <1>4. QED
    BY <1>3

-----------------------------------------------------------------------------
(* Folds. *)

\* The function that MapThenFoldSet iterates, for FoldLeft over n elements: step
\* is the operation on a value and the i-th element.
IsFold(f, n, base, step) ==
    f = [T \in SUBSET (1..n) |-> IF T = {} THEN base ELSE step[<<f[T \ {Max(T)}], Max(T)>>]]

LEMMA MaxOfInterval ==
    ASSUME NEW n \in Nat, NEW T \in SUBSET (1..(n + 1)), n + 1 \in T
    PROVE  Max(T) = n + 1
  <1>1. \E x \in T : \A y \in T : x >= y
    <2>1. \A y \in T : n + 1 >= y
      OBVIOUS
    <2>2. QED
      BY <2>1
  <1>2. Max(T) \in T /\ \A y \in T : Max(T) >= y
    BY <1>1, Zenon DEF Max
  <1>3. Max(T) \in 1..(n + 1) /\ Max(T) >= n + 1
    <2> DEFINE m == Max(T)
    <2>1. m \in T /\ \A y \in T : m >= y
      BY <1>2
    <2> HIDE DEF m
    <2>2. m \in 1..(n + 1) /\ m >= n + 1
      BY <2>1
    <2>3. QED
      BY <2>2 DEF m
  <1>4. QED
    BY <1>3

LEMMA MaxIsIn ==
    ASSUME NEW n \in Nat, NEW T \in SUBSET (1..n), T # {}
    PROVE  Max(T) \in T
  <1> DEFINE P(k) == \A S \in SUBSET (1..k) : S # {} => \E x \in S : \A y \in S : x >= y
             G == {k \in Nat : P(k)}
  <1>1. 0 \in G
    <2>1. ASSUME NEW S \in SUBSET (1..0) PROVE S = {}
      OBVIOUS
    <2>2. QED
      BY <2>1
  <1>2. ASSUME NEW k \in G PROVE k + 1 \in G
    <2>1. ASSUME NEW S \in SUBSET (1..(k + 1)), S # {} PROVE \E x \in S : \A y \in S : x >= y
      <3>1. CASE k + 1 \in S
        BY <3>1
      <3>2. CASE k + 1 \notin S
        <4>1. S \in SUBSET (1..k)
          BY <3>2
        <4>2. QED
          BY <2>1, <4>1
      <3>3. QED
        BY <3>1, <3>2
    <2>2. QED
      BY <2>1
  <1>3. G = Nat
    <2> HIDE DEF G
    <2>1. G \in SUBSET Nat
      BY DEF G
    <2>2. QED
      BY <1>1, <1>2, <2>1, SetInduction
  <1>4. \E x \in T : \A y \in T : x >= y
    BY <1>3
  <1>5. QED
    BY <1>4, Zenon DEF Max

LEMMA FoldExists ==
    ASSUME NEW n \in Nat, NEW base, NEW step
    PROVE  \E f : IsFold(f, n, base, step)
  <1> DEFINE G == {k \in Nat : \E f : IsFold(f, k, base, step)}
  <1>1. 0 \in G
    <2> DEFINE f == [T \in SUBSET (1..0) |-> base]
    <2>1. f = [T \in SUBSET (1..0) |-> IF T = {} THEN base ELSE step[<<f[T \ {Max(T)}], Max(T)>>]]
      OBVIOUS
    <2>2. QED
      BY <2>1 DEF IsFold
  <1>2. ASSUME NEW k \in G PROVE k + 1 \in G
    <2>1. PICK f : IsFold(f, k, base, step)
      OBVIOUS
    <2> DEFINE g == [T \in SUBSET (1..(k + 1)) |->
                        IF k + 1 \in T THEN step[<<f[T \ {k + 1}], k + 1>>] ELSE f[T]]
               h == [T \in SUBSET (1..(k + 1)) |->
                        IF T = {} THEN base ELSE step[<<g[T \ {Max(T)}], Max(T)>>]]
    <2>2. ASSUME NEW T \in SUBSET (1..(k + 1)) PROVE g[T] = h[T]
      <3>1. CASE k + 1 \in T
        <4>1. Max(T) = k + 1
          BY <3>1, MaxOfInterval
        <4>2. T \ {k + 1} \in SUBSET (1..(k + 1)) /\ k + 1 \notin T \ {k + 1}
          OBVIOUS
        <4>3. g[T \ {k + 1}] = f[T \ {k + 1}]
          BY <4>2
        <4>4. h[T] = step[<<g[T \ {k + 1}], k + 1>>] /\ g[T] = step[<<f[T \ {k + 1}], k + 1>>]
          BY <3>1, <4>1
        <4>5. QED
          BY <4>3, <4>4
      <3>2. CASE k + 1 \notin T
        <4>1. T \in SUBSET (1..k)
          BY <3>2
        <4>2. f[T] = IF T = {} THEN base ELSE step[<<f[T \ {Max(T)}], Max(T)>>]
          BY <2>1, <4>1 DEF IsFold
        <4>3. T \ {Max(T)} \in SUBSET (1..(k + 1)) /\ k + 1 \notin T \ {Max(T)}
          BY <3>2
        <4>4. g[T \ {Max(T)}] = f[T \ {Max(T)}] /\ g[T] = f[T]
          BY <3>2, <4>3
        <4>5. h[T] = IF T = {} THEN base ELSE step[<<g[T \ {Max(T)}], Max(T)>>]
          OBVIOUS
        <4>6. QED
          BY <4>2, <4>4, <4>5
      <3>3. QED
        BY <3>1, <3>2
    <2>3. g = h
      BY <2>2
    <2>4. IsFold(g, k + 1, base, step)
      BY <2>3 DEF IsFold
    <2>5. QED
      BY <2>4
  <1>3. G = Nat
    <2> HIDE DEF G
    <2>1. G \in SUBSET Nat
      BY DEF G
    <2>2. QED
      BY <1>1, <1>2, <2>1, SetInduction
  <1>4. QED
    BY <1>3

\* The places that are left when the fold of a prefix takes its last one.
LEMMA PrefixPlaces ==
    ASSUME NEW n \in Nat, NEW k \in 1..n
    PROVE  1..k \in SUBSET (1..n) /\ 1..k # {} /\ (1..k) \ {k} = 1..(k - 1) /\ Max(1..k) = k
  <1>1. k - 1 \in Nat /\ 1..k \in SUBSET (1..((k - 1) + 1)) /\ (k - 1) + 1 \in 1..k
    OBVIOUS
  <1>2. Max(1..k) = (k - 1) + 1
    BY <1>1, MaxOfInterval
  <1>3. Max(1..k) = k
    BY <1>2
  <1>4. 1..k \in SUBSET (1..n) /\ 1..k # {} /\ (1..k) \ {k} = 1..(k - 1)
    OBVIOUS
  <1>5. QED
    BY <1>3, <1>4

\* Values of the fold, of any set of places, are of the type that the operation
\* keeps.
LEMMA FoldType ==
    ASSUME NEW n \in Nat, NEW V, NEW base \in V, NEW step,
           \A v \in V, i \in 1..n : step[<<v, i>>] \in V,
           NEW f, IsFold(f, n, base, step)
    PROVE  \A T \in SUBSET (1..n) : f[T] \in V
  <1> DEFINE P(k) == \A T \in SUBSET (1..k) : f[T] \in V
             G == {k \in Nat : k <= n => P(k)}
  <1>1. 0 \in G
    <2>1. ASSUME NEW T \in SUBSET (1..0) PROVE f[T] \in V
      <3>1. T = {}
        OBVIOUS
      <3>2. QED
        BY <3>1 DEF IsFold
    <2>2. QED
      BY <2>1
  <1>2. ASSUME NEW k \in G PROVE k + 1 \in G
    <2>1. ASSUME k + 1 <= n, NEW T \in SUBSET (1..(k + 1)) PROVE f[T] \in V
      <3>1. k \in Nat /\ P(k)
        BY <2>1
      <3> HIDE DEF G
      <3>2. CASE k + 1 \in T
        <4>1. Max(T) = k + 1
          BY <3>1, <3>2, MaxOfInterval
        <4>2. T \in SUBSET (1..n) /\ T # {} /\ T \ {k + 1} \in SUBSET (1..k) /\ k + 1 \in 1..n
          BY <2>1, <3>1, <3>2
        <4>3. f[T \ {k + 1}] \in V
          BY <3>1, <4>2
        <4>4. f[T] = step[<<f[T \ {k + 1}], k + 1>>]
          BY <4>1, <4>2 DEF IsFold
        <4>5. QED
          BY <4>2, <4>3, <4>4
      <3>3. CASE k + 1 \notin T
        <4>1. T \in SUBSET (1..k)
          BY <3>1, <3>3
        <4>2. QED
          BY <3>1, <4>1
      <3>4. QED
        BY <3>2, <3>3
    <2>2. QED
      BY <2>1
  <1>3. G = Nat
    <2> HIDE DEF G
    <2>1. G \in SUBSET Nat
      BY DEF G
    <2>2. QED
      BY <1>1, <1>2, <2>1, SetInduction
  <1>4. QED
    BY <1>3

-----------------------------------------------------------------------------
(* Finite sets and their order. *)

\* The image of a finite set is finite.
LEMMA FiniteImage ==
    ASSUME NEW S, IsFiniteSet(S), NEW f
    PROVE  IsFiniteSet({f[i] : i \in S})
  <1> DEFINE T == {f[i] : i \in S}
             g == [i \in S |-> f[i]]
  <1>1. g \in Surjection(S, T)
    BY DEF Surjection
  <1>2. IsFiniteSet(T)
    BY <1>1, FS_Surjection
  <1>3. QED
    BY <1>2

\* R is an order of S, strict: a set of pairs.
Orders(R, S) ==
    /\ \A a \in S : <<a, a>> \notin R
    /\ \A a, b, c \in S : <<a, b>> \in R /\ <<b, c>> \in R => <<a, c>> \in R

\* In a finite set that is ordered by R, what comes later has more before it.
LEMMA RanksGrow ==
    ASSUME NEW S, IsFiniteSet(S), NEW R, Orders(R, S), NEW a \in S
    PROVE  /\ IsFiniteSet({b \in S : <<b, a>> \in R})
           /\ Cardinality({b \in S : <<b, a>> \in R}) \in 0..(Cardinality(S) - 1)
           /\ \A d \in S : <<d, a>> \in R =>
                 Cardinality({b \in S : <<b, d>> \in R}) < Cardinality({b \in S : <<b, a>> \in R})
  <1> DEFINE n == Cardinality(S)
             B(e) == {b \in S : <<b, e>> \in R}
  <1>1. n \in Nat
    BY FS_CardinalityType
  <1>2. ASSUME NEW e \in S PROVE IsFiniteSet(B(e)) /\ Cardinality(B(e)) \in 0..(n - 1)
    <2>1. IsFiniteSet(S \ {e}) /\ Cardinality(S \ {e}) = n - 1
      BY FS_RemoveElement
    <2>2. B(e) \in SUBSET (S \ {e})
      BY DEF Orders
    <2> HIDE DEF B, n
    <2>3. IsFiniteSet(B(e)) /\ Cardinality(B(e)) \in Nat /\ Cardinality(B(e)) <= n - 1
      BY <2>1, <2>2, FS_Subset, FS_CardinalityType
    <2>4. QED
      BY <1>1, <2>3
  <1>3. ASSUME NEW d \in S, <<d, a>> \in R PROVE Cardinality(B(d)) < Cardinality(B(a))
    <2>1. B(d) \in SUBSET B(a) /\ B(d) # B(a)
      BY <1>3 DEF Orders
    <2>2. Cardinality(B(d)) <= Cardinality(B(a)) /\ Cardinality(B(d)) # Cardinality(B(a))
      <3> HIDE DEF B
      <3>1. QED
        BY <1>2, <2>1, FS_Subset
    <2>3. Cardinality(B(d)) \in Nat /\ Cardinality(B(a)) \in Nat
      <3> HIDE DEF B, n
      <3>1. QED
        BY <1>1, <1>2
    <2> HIDE DEF B, n
    <2>4. QED
      BY <2>2, <2>3
  <1>4. QED
    BY <1>2, <1>3

\* A strict order of all of S, and each place taken in it.
OrdersAll(R, S) ==
    /\ Orders(R, S)
    /\ \A a, b \in S : a = b \/ <<a, b>> \in R \/ <<b, a>> \in R

Ranked(R, S) ==
    \A i \in 1..Cardinality(S) : \E a \in S : Cardinality({b \in S : <<b, a>> \in R}) = i - 1

\* A finite set that is ordered has an element at each place.
LEMMA RankedSet ==
    ASSUME NEW S, IsFiniteSet(S), NEW R, OrdersAll(R, S)
    PROVE  Ranked(R, S)
  <1> DEFINE n == Cardinality(S)
             B(a) == {b \in S : <<b, a>> \in R}
             g == [a \in S |-> Cardinality(B(a)) + 1]
  <1>1. n \in Nat
    BY FS_CardinalityType
  <1>o. /\ Orders(R, S)
        /\ \A a, b \in S : a = b \/ <<a, b>> \in R \/ <<b, a>> \in R
    BY DEF OrdersAll
  <1>2. ASSUME NEW a \in S PROVE IsFiniteSet(B(a)) /\ Cardinality(B(a)) \in Nat /\ Cardinality(B(a)) <= n - 1
    <2>1. IsFiniteSet(B(a)) /\ Cardinality(B(a)) \in 0..(n - 1)
      BY <1>o, RanksGrow
    <2> HIDE DEF B, n
    <2>2. QED
      BY <1>1, <2>1
  <1>3. ASSUME NEW a \in S, NEW b \in S, <<a, b>> \in R PROVE Cardinality(B(a)) < Cardinality(B(b))
    <2>1. \A d \in S : <<d, b>> \in R => Cardinality(B(d)) < Cardinality(B(b))
      BY <1>o, RanksGrow
    <2>2. QED
      BY <1>3, <2>1
  <1>4. g \in Injection(S, 1..n)
    <2> HIDE DEF B
    <2>1. g \in [S -> 1..n]
      BY <1>1, <1>2
    <2>2. ASSUME NEW a \in S, NEW b \in S, a # b PROVE g[a] # g[b]
      <3>1. Cardinality(B(a)) < Cardinality(B(b)) \/ Cardinality(B(b)) < Cardinality(B(a))
        BY <1>o, <1>3, <2>2
      <3>2. g[a] = Cardinality(B(a)) + 1 /\ g[b] = Cardinality(B(b)) + 1
        OBVIOUS
      <3>3. Cardinality(B(a)) \in Nat /\ Cardinality(B(b)) \in Nat
        BY <1>2
      <3> HIDE DEF g
      <3>4. QED
        BY <3>1, <3>2, <3>3
    <2> HIDE DEF g, n
    <2>3. QED
      BY <2>1, <2>2 DEF Injection, IsInjective
  <1>5. g \in Surjection(S, 1..n)
    <2>1. IsFiniteSet(1..n) /\ Cardinality(1..n) = n
      BY <1>1, FS_Interval
    <2> HIDE DEF g
    <2>2. QED
      BY <1>4, <2>1, FS_Injection
  <1>6. ASSUME NEW i \in 1..n PROVE \E a \in S : Cardinality(B(a)) = i - 1
    <2>1. PICK a \in S : g[a] = i
      <3> HIDE DEF g, n
      <3>1. QED
        BY <1>5 DEF Surjection
    <2> HIDE DEF B
    <2>2. QED
      BY <1>2, <2>1
  <1>7. QED
    BY <1>6 DEF Ranked

\* Numbers have one place each.
LEMMA NumbersInOrder ==
    ASSUME NEW P \in SUBSET Int, IsFiniteSet(P)
    PROVE  \A k \in 1..Cardinality(P) : \E p \in P : Cardinality({q \in P : q <= p}) = k
  <1> DEFINE R == {q \in P \X P : q[1] < q[2]}
  <1>1. OrdersAll(R, P)
    BY DEF OrdersAll, Orders
  <1>2. \A a, b \in P : <<a, b>> \in R <=> a < b
    OBVIOUS
  <1> HIDE DEF R
  <1>3. \A k \in 1..Cardinality(P) : \E a \in P : Cardinality({b \in P : <<b, a>> \in R}) = k - 1
    <2>1. Ranked(R, P)
      BY <1>1, RankedSet
    <2>2. QED
      BY <2>1 DEF Ranked
  <1>4. ASSUME NEW k \in 1..Cardinality(P) PROVE \E p \in P : Cardinality({q \in P : q <= p}) = k
    <2>1. PICK a \in P : Cardinality({b \in P : <<b, a>> \in R}) = k - 1
      BY <1>3
    <2> DEFINE T == {b \in P : <<b, a>> \in R}
    <2>2. {q \in P : q <= a} = T \cup {a} /\ a \notin T
      <3>1. T = {b \in P : b < a}
        BY <1>2
      <3> HIDE DEF T
      <3>2. a \in Int /\ \A b \in P : b \in Int
        OBVIOUS
      <3>3. \A b \in P : b <= a <=> b < a \/ b = a
        BY <3>2
      <3>4. a \notin T
        BY <3>1, <3>2
      <3>5. {q \in P : q <= a} = T \cup {a}
        BY <3>1, <3>3
      <3>6. QED
        BY <3>4, <3>5
    <2>3. IsFiniteSet(T)
      BY FS_Subset
    <2>4. Cardinality(T) = k - 1
      BY <2>1
    <2> HIDE DEF T
    <2>5. Cardinality(T \cup {a}) = k
      <3>1. Cardinality(P) \in Nat
        BY FS_CardinalityType
      <3>2. k \in Int
        BY <3>1
      <3>3. Cardinality(T \cup {a}) = Cardinality(T) + 1
        BY <2>2, <2>3, FS_AddElement
      <3>4. QED
        BY <2>4, <3>2, <3>3
    <2>6. QED
      BY <2>2, <2>5
  <1>5. QED
    BY <1>4

\* q has the elements of S, each once, at its place in the order R.
Numbered(q, S, R) ==
    /\ q \in Seq(S) /\ Len(q) = Cardinality(S) /\ Len(q) \in Nat
    /\ \A i, j \in 1..Len(q) : q[i] = q[j] => i = j
    /\ \A a \in S : \E i \in 1..Len(q) : q[i] = a
    /\ \A i, j \in 1..Len(q) : <<q[i], q[j]>> \in R => i < j

\* What has as many before it as its index says is at its place.
LEMMA ElementsByPlace ==
    ASSUME NEW S, IsFiniteSet(S), NEW R, OrdersAll(R, S),
           NEW q \in [1..Cardinality(S) -> S],
           \A i \in 1..Cardinality(S) : Cardinality({b \in S : <<b, q[i]>> \in R}) = i - 1
    PROVE  Numbered(q, S, R)
  <1> DEFINE n == Cardinality(S)
             C(a) == Cardinality({b \in S : <<b, a>> \in R})
  <1>1. n \in Nat
    BY FS_CardinalityType
  <1>2. /\ Orders(R, S)
        /\ \A a, b \in S : a = b \/ <<a, b>> \in R \/ <<b, a>> \in R
    BY DEF OrdersAll
  <1>3. \A a \in S : C(a) \in 0..(n - 1)
    BY <1>1, <1>2, RanksGrow
  <1>4. \A a, b \in S : <<b, a>> \in R => C(b) < C(a)
    BY <1>1, <1>2, RanksGrow
  <1>5. q \in [1..n -> S] /\ \A i \in 1..n : q[i] \in S /\ C(q[i]) = i - 1
    OBVIOUS
  <1> HIDE DEF C
  <1>6. q \in Seq(S) /\ Len(q) = n
    <2> HIDE DEF n
    <2>1. QED
      BY <1>1, <1>5
  <1>7. ASSUME NEW a \in S PROVE \E i \in 1..n : q[i] = a
    <2> DEFINE i == C(a) + 1
    <2>1. i \in 1..n /\ C(a) = i - 1
      <3> HIDE DEF n
      <3>1. QED
        BY <1>1, <1>3
    <2> HIDE DEF i
    <2>2. q[i] \in S /\ C(q[i]) = C(a) /\ C(a) \in Int
      BY <1>3, <1>5, <2>1
    <2>3. <<q[i], a>> \notin R /\ <<a, q[i]>> \notin R
      BY <1>4, <2>2
    <2>4. QED
      BY <1>2, <2>1, <2>2, <2>3
  <1>8. ASSUME NEW i \in 1..n, NEW j \in 1..n, <<q[i], q[j]>> \in R PROVE i < j
    <2>1. C(q[i]) < C(q[j]) /\ C(q[i]) = i - 1 /\ C(q[j]) = j - 1
      BY <1>4, <1>5, <1>8
    <2>2. i \in Int /\ j \in Int /\ i - 1 < j - 1
      BY <1>1, <2>1
    <2>3. QED
      BY <2>2
  <1>9. ASSUME NEW i \in 1..n, NEW j \in 1..n, q[i] = q[j] PROVE i = j
    <2>1. i - 1 = j - 1 /\ i \in Int /\ j \in Int
      BY <1>1, <1>5, <1>9
    <2>2. QED
      BY <2>1
  <1>10. QED
    BY <1>1, <1>6, <1>7, <1>8, <1>9 DEF Numbered
=============================================================================

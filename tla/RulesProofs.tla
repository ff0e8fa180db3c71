----------------------------- MODULE RulesProofs -----------------------------
(***************************************************************************)
(* Proofs about Rules, for any input: cleanup, the plan diff, the rules    *)
(* file, the migration plan of the topology, the configuration of the LLM, *)
(* the near-duplicate and shadow scans, and the retire plan.               *)
(***************************************************************************)
EXTENDS Rules, Induction, SequenceTheorems

-----------------------------------------------------------------------------
(* The sets and orders of the rules. *)

LEMMA SameCardinality == \A T : CL!Cardinality(T) = Cardinality(T)
  BY DEF CL!Cardinality, Cardinality

LEMMA SameMax == \A T : CL!Max(T) = Max(T)
  BY DEF CL!Max, Max

LEMMA SameCardinality2 == \A T : CO!Cardinality(T) = Cardinality(T)
  BY DEF CO!Cardinality, Cardinality

LEMMA SameCardinality3 == \A T : LC!Cardinality(T) = Cardinality(T)
  BY DEF LC!Cardinality, Cardinality

LEMMA SameMax2 == \A T : CO!Max(T) = Max(T)
  BY DEF CO!Max, Max

-----------------------------------------------------------------------------
(* The order of paths. *)

\* p and q agree in their first n segments and no further, and p comes first.
Splits(p, q, n) ==
    /\ n <= Len(p) /\ n < Len(q)
    /\ \A m \in 1..n : p[m] = q[m]
    /\ n < Len(p) => p[n + 1] < q[n + 1]

LEMMA SameStart ==
    ASSUME NEW p \in Seq(Int), NEW q \in Seq(Int), NEW n \in Nat, n <= Len(p), n <= Len(q)
    PROVE  SubSeq(p, 1, n) = SubSeq(q, 1, n) <=> \A m \in 1..n : p[m] = q[m]
  <1>1. SubSeq(p, 1, n) = [m \in 1..n |-> p[m]]
    OBVIOUS
  <1>2. SubSeq(q, 1, n) = [m \in 1..n |-> q[m]]
    OBVIOUS
  <1>3. QED
    BY <1>1, <1>2

LEMMA LessSplits ==
    ASSUME NEW p \in Seq(Int), NEW q \in Seq(Int)
    PROVE  CL!Less(p, q) <=> \E n \in Nat : Splits(p, q, n)
  <1>1. Len(p) \in Nat /\ Len(q) \in Nat /\ DOMAIN p = 1..Len(p) /\ DOMAIN q = 1..Len(q)
    BY LenProperties
  <1>2. CL!IsStrictPrefix(p, q) <=> Splits(p, q, Len(p))
    <2>1. CL!IsStrictPrefix(p, q) <=> Len(p) <= Len(q) /\ SubSeq(p, 1, Len(p)) = SubSeq(q, 1, Len(p)) /\ p # q
      BY Zenon DEF CL!IsStrictPrefix, CL!IsPrefix
    <2>2. Len(p) <= Len(q) => (SubSeq(p, 1, Len(p)) = SubSeq(q, 1, Len(p)) <=> \A m \in 1..Len(p) : p[m] = q[m])
      <3> DEFINE l == Len(p)
      <3>1. l \in Nat /\ l <= Len(p)
        BY <1>1
      <3> HIDE DEF l
      <3>2. ASSUME l <= Len(q) PROVE SubSeq(p, 1, l) = SubSeq(q, 1, l) <=> \A m \in 1..l : p[m] = q[m]
        BY <3>1, <3>2, SameStart
      <3>3. QED
        BY <3>2 DEF l
    <2>3. Len(p) = Len(q) /\ (\A m \in 1..Len(p) : p[m] = q[m]) => p = q
      BY <1>1, SeqEqual
    <2>4. Splits(p, q, Len(p)) <=> Len(p) < Len(q) /\ \A m \in 1..Len(p) : p[m] = q[m]
      BY <1>1 DEF Splits
    <2>5. p = q => ~(Len(p) < Len(q))
      BY <1>1
    <2>6. Len(p) <= Len(q) <=> Len(p) < Len(q) \/ Len(p) = Len(q)
      <3> DEFINE l == Len(p)
                 k == Len(q)
      <3>1. l \in Nat /\ k \in Nat
        BY <1>1
      <3> HIDE DEF l, k
      <3>2. l <= k <=> l < k \/ l = k
        BY <3>1
      <3>3. QED
        BY <3>2 DEF l, k
    <2>7. QED
      BY <2>1, <2>2, <2>3, <2>4, <2>5, <2>6
  <1>3. ASSUME NEW i \in 1..Len(p), i \in 1..Len(q)
       PROVE  p[i] < q[i] /\ SubSeq(p, 1, i - 1) = SubSeq(q, 1, i - 1) <=> Splits(p, q, i - 1)
    <2>1. i - 1 \in Nat /\ (i - 1) + 1 = i /\ i - 1 < Len(p) /\ i - 1 < Len(q)
      BY <1>1, <1>3
    <2>2. SubSeq(p, 1, i - 1) = SubSeq(q, 1, i - 1) <=> \A m \in 1..(i - 1) : p[m] = q[m]
      BY <1>1, <2>1, SameStart
    <2>3. QED
      BY <1>1, <2>1, <2>2 DEF Splits
  <1>4. ASSUME CL!Less(p, q) PROVE \E n \in Nat : Splits(p, q, n)
    <2>1. CASE CL!IsStrictPrefix(p, q)
      BY <1>1, <1>2, <2>1
    <2>2. CASE ~CL!IsStrictPrefix(p, q)
      <3>1. PICK i \in DOMAIN p \cap DOMAIN q : p[i] < q[i] /\ SubSeq(p, 1, i - 1) = SubSeq(q, 1, i - 1)
        BY <1>4, <2>2, Zenon DEF CL!Less
      <3>2. i \in 1..Len(p) /\ i \in 1..Len(q) /\ i - 1 \in Nat
        BY <1>1
      <3>3. QED
        BY <1>3, <3>1, <3>2
    <2>3. QED
      BY <2>1, <2>2
  <1>5. ASSUME NEW n \in Nat, Splits(p, q, n) PROVE CL!Less(p, q)
    <2>1. CASE n = Len(p)
      BY <1>2, <1>5, <2>1 DEF CL!Less
    <2>2. CASE n # Len(p)
      <3> DEFINE i == n + 1
      <3>1. i \in 1..Len(p) /\ i \in 1..Len(q) /\ i - 1 = n
        <4>1. n <= Len(p) /\ n < Len(q)
          BY <1>5, Zenon DEF Splits
        <4> DEFINE l == Len(p)
                   k == Len(q)
        <4>2. l \in Nat /\ k \in Nat /\ n <= l /\ n < k /\ n # l
          BY <1>1, <2>2, <4>1, Zenon
        <4> HIDE DEF l, k
        <4>3. i \in 1..l /\ i \in 1..k /\ i - 1 = n
          BY <4>2
        <4>4. QED
          BY <4>3 DEF l, k
      <3> HIDE DEF i
      <3>2. p[i] < q[i] /\ SubSeq(p, 1, i - 1) = SubSeq(q, 1, i - 1)
        BY <1>3, <1>5, <3>1
      <3>3. QED
        BY <1>1, <3>1, <3>2, Zenon DEF CL!Less
    <2>3. QED
      BY <2>1, <2>2
  <1>6. QED
    BY <1>4, <1>5

LEMMA LessOrders ==
    /\ \A p \in Seq(Int) : ~CL!Less(p, p)
    /\ \A p, q, r \in Seq(Int) : CL!Less(p, q) /\ CL!Less(q, r) => CL!Less(p, r)
    /\ \A p, q \in Seq(Int) : p = q \/ CL!Less(p, q) \/ CL!Less(q, p)
  <1>1. ASSUME NEW p \in Seq(Int) PROVE ~CL!Less(p, p)
    <2>1. Len(p) \in Nat /\ \A m \in 1..Len(p) : p[m] \in Int
      BY LenProperties, ElementOfSeq
    <2>2. ASSUME NEW n \in Nat PROVE ~Splits(p, p, n)
      BY <2>1 DEF Splits
    <2>3. QED
      BY <2>2, LessSplits
  <1>2. ASSUME NEW p \in Seq(Int), NEW q \in Seq(Int), NEW r \in Seq(Int), CL!Less(p, q), CL!Less(q, r)
       PROVE  CL!Less(p, r)
    <2>1. PICK n \in Nat : Splits(p, q, n)
      BY <1>2, LessSplits
    <2>2. PICK k \in Nat : Splits(q, r, k)
      BY <1>2, LessSplits
    <2>3. /\ Len(p) \in Nat /\ Len(q) \in Nat /\ Len(r) \in Nat
          /\ \A m \in 1..Len(p) : p[m] \in Int
          /\ \A m \in 1..Len(q) : q[m] \in Int
          /\ \A m \in 1..Len(r) : r[m] \in Int
      BY LenProperties, ElementOfSeq
    <2>4. CASE n <= k
      <3>1. n < Len(r) /\ \A m \in 1..n : p[m] = r[m]
        BY <2>1, <2>2, <2>3, <2>4 DEF Splits
      <3>2. CASE n < k
        <4>1. n + 1 \in 1..k
          BY <3>2
        <4>2. q[n + 1] = r[n + 1]
          BY <2>2, <4>1 DEF Splits
        <4>3. Splits(p, r, n)
          BY <2>1, <3>1, <4>2 DEF Splits
        <4>4. QED
          BY <4>3, LessSplits
      <3>3. CASE n = k
        <4>1. /\ n < Len(q) /\ (n < Len(p) => p[n + 1] < q[n + 1])
              /\ n < Len(r) /\ (n < Len(q) => q[n + 1] < r[n + 1])
          BY <2>1, <2>2, <3>3, Zenon DEF Splits
        <4>2. ASSUME n < Len(p) PROVE p[n + 1] < r[n + 1]
          <5>1. p[n + 1] < q[n + 1] /\ q[n + 1] < r[n + 1]
            BY <4>1, <4>2, Zenon
          <5>2. n + 1 \in 1..Len(p) /\ n + 1 \in 1..Len(q) /\ n + 1 \in 1..Len(r)
            BY <2>3, <4>1, <4>2
          <5>3. p[n + 1] \in Int /\ q[n + 1] \in Int /\ r[n + 1] \in Int
            BY <2>3, <5>2, Zenon
          <5>4. QED
            BY <5>1, <5>3
        <4>3. Splits(p, r, n)
          BY <2>1, <3>1, <4>2 DEF Splits
        <4>4. QED
          BY <4>3, LessSplits
      <3>4. QED
        BY <2>4, <3>2, <3>3
    <2>5. CASE k < n
      <3>1. k < Len(p) /\ k < Len(r) /\ k + 1 \in 1..n /\ k < Len(q)
        BY <2>1, <2>2, <2>3, <2>5 DEF Splits
      <3>2. \A m \in 1..k : p[m] = r[m]
        BY <2>1, <2>2, <2>5 DEF Splits
      <3>3. p[k + 1] = q[k + 1] /\ q[k + 1] < r[k + 1]
        BY <2>1, <2>2, <3>1 DEF Splits
      <3>4. Splits(p, r, k)
        BY <2>3, <3>1, <3>2, <3>3 DEF Splits
      <3>5. QED
        BY <3>4, LessSplits
    <2>6. QED
      BY <2>4, <2>5
  <1>3. ASSUME NEW p \in Seq(Int), NEW q \in Seq(Int), p # q PROVE CL!Less(p, q) \/ CL!Less(q, p)
    <2> DEFINE T == {n \in Nat : n = Len(p) \/ n = Len(q) \/ p[n + 1] # q[n + 1]}
    <2>1. /\ Len(p) \in Nat /\ Len(q) \in Nat
          /\ \A m \in 1..Len(p) : p[m] \in Int
          /\ \A m \in 1..Len(q) : q[m] \in Int
      BY LenProperties, ElementOfSeq
    <2>2. PICK n \in T : \A m \in T : n <= m
      <3>1. T \in SUBSET Nat /\ T # {}
        BY <2>1
      <3> HIDE DEF T
      <3>2. QED
        BY <3>1, LeastNumber
    <2>3. n <= Len(p) /\ n <= Len(q) /\ n \in Nat
      BY <2>1, <2>2
    <2>4. \A m \in 1..n : p[m] = q[m]
      <3>1. ASSUME NEW m \in 1..n PROVE p[m] = q[m]
        <4>1. m - 1 \in Nat /\ m - 1 \notin T
          <5> HIDE DEF T
          <5>1. m - 1 \in Nat /\ ~(n <= m - 1)
            BY <2>3
          <5>2. QED
            BY <2>2, <5>1
        <4>2. (m - 1) + 1 = m
          OBVIOUS
        <4>3. QED
          BY <4>1, <4>2
      <3>2. QED
        BY <3>1
    <2>5. ~(n = Len(p) /\ n = Len(q))
      BY <1>3, <2>4, SeqEqual
    <2>6. CASE n = Len(p)
      <3>1. Splits(p, q, n)
        BY <2>1, <2>3, <2>4, <2>5, <2>6 DEF Splits
      <3>2. QED
        BY <2>3, <3>1, LessSplits
    <2>7. CASE n = Len(q)
      <3>1. Splits(q, p, n)
        BY <2>1, <2>3, <2>4, <2>5, <2>7 DEF Splits
      <3>2. QED
        BY <2>3, <3>1, LessSplits
    <2>8. CASE n # Len(p) /\ n # Len(q)
      <3>1. p[n + 1] # q[n + 1] /\ n + 1 \in 1..Len(p) /\ n + 1 \in 1..Len(q)
        BY <2>1, <2>3, <2>8
      <3>2. p[n + 1] < q[n + 1] \/ q[n + 1] < p[n + 1]
        BY <2>1, <3>1
      <3>3. Splits(p, q, n) \/ Splits(q, p, n)
        BY <2>1, <2>3, <2>4, <2>8, <3>2 DEF Splits
      <3>4. QED
        BY <2>3, <3>3, LessSplits
    <2>9. QED
      BY <2>6, <2>7, <2>8
  <1>4. QED
    BY <1>1, <1>2, <1>3

-----------------------------------------------------------------------------
(* Cleanup: the moves of autofix lose no file. *)

Outcomes == {"applied", "blocked", "skipped"}

\* The states that the disk can be in: of the paths A, the directories D and
\* the files F.
DiskStates(A, D, F) ==
    [files : UNION {[P -> F] : P \in SUBSET A}, dirs : SUBSET D, done : Seq(Outcomes), raised : BOOLEAN]

\* The disk before the first move and after each of them.
IsFunction(f) == f = [p \in DOMAIN f |-> f[p]]

MovesOf(c, n, files, actions) ==
    /\ c[0] = CL!Disk(files)
    /\ \A k \in 1..n : c[k] = CL!ApplyMove(c[k - 1], actions[k])

LEMMA DiskStep ==
    ASSUME NEW A, NEW D, NEW F, NEW s \in DiskStates(A, D, F), NEW a, a.to \in A, CL!Parents(a.to) \in SUBSET D
    PROVE  CL!ApplyMove(s, a) \in DiskStates(A, D, F)
  <1>1. PICK P \in SUBSET A : s.files \in [P -> F]
    BY DEF DiskStates
  <1>2. s.dirs \in SUBSET D /\ s.done \in Seq(Outcomes) /\ s.raised \in BOOLEAN
    BY DEF DiskStates
  <1>3. \A t \in Outcomes : Append(s.done, t) \in Seq(Outcomes)
    BY <1>2, AppendProperties
  <1>4. \A t \in Outcomes : [s EXCEPT !.done = Append(@, t)] \in DiskStates(A, D, F)
    BY <1>3 DEF DiskStates
  <1>5. [s EXCEPT !.raised = TRUE] \in DiskStates(A, D, F)
    BY DEF DiskStates
  <1>6. ASSUME a.from \in DOMAIN s.files PROVE CL!Moved(s, a) \in DiskStates(A, D, F)
    <2> DEFINE Q == (DOMAIN s.files \ {a.from}) \cup {a.to}
               g == [p \in Q |-> IF p = a.to THEN s.files[a.from] ELSE s.files[p]]
    <2>1. Q \in SUBSET A /\ g \in [Q -> F]
      BY <1>1, <1>6
    <2>2. CL!Moved(s, a) = [files |-> g, dirs |-> s.dirs \cup CL!Parents(a.to), done |-> Append(s.done, "applied"), raised |-> FALSE]
      BY DEF CL!Moved
    <2> HIDE DEF g, Q
    <2>3. g \in UNION {[R -> F] : R \in SUBSET A}
      BY <2>1
    <2>4. s.dirs \cup CL!Parents(a.to) \in SUBSET D
      BY <1>2
    <2>5. Append(s.done, "applied") \in Seq(Outcomes)
      <3>1. "applied" \in Outcomes
        BY DEF Outcomes
      <3>2. QED
        BY <1>2, <3>1, AppendProperties
    <2>6. QED
      BY <2>2, <2>3, <2>4, <2>5 DEF DiskStates
  <1>7. [s EXCEPT !.done = Append(@, "skipped")] \in DiskStates(A, D, F)
    BY <1>4 DEF Outcomes
  <1>8. [s EXCEPT !.done = Append(@, "blocked")] \in DiskStates(A, D, F)
    BY <1>4 DEF Outcomes
  <1>9. QED
    BY <1>5, <1>6, <1>7, <1>8 DEF CL!ApplyMove

LEMMA MovesOneByOne ==
    ASSUME NEW files, IsFunction(files), NEW actions, NEW n \in Nat, DOMAIN actions = 1..n
    PROVE  \E c : MovesOf(c, n, files, actions) /\ CL!FoldLeft(CL!ApplyMove, CL!Disk(files), actions) = c[n]
  <1> DEFINE A == DOMAIN files \cup {actions[i].to : i \in 1..n}
             D == UNION {CL!Parents(p) : p \in A}
             F == {files[p] : p \in DOMAIN files}
             V == DiskStates(A, D, F)
             base == CL!Disk(files)
             step == [p \in V \X (1..n) |-> CL!ApplyMove(p[1], actions[p[2]])]
             Iterates(h) == h = [T \in SUBSET DOMAIN actions |->
                                   IF T = {} THEN base ELSE CL!ApplyMove(h[T \ {CL!Max(T)}], actions[CL!Max(T)])]
             h == CHOOSE h : Iterates(h)
             last == CL!FoldLeft(CL!ApplyMove, CL!Disk(files), actions)
  <1>1. last = h[1..n]
    <2> HIDE DEF base
    <2>1. last = CL!FoldLeft(CL!ApplyMove, base, actions)
      BY DEF base
    <2>2. CL!FoldLeft(CL!ApplyMove, base, actions) = h[DOMAIN actions]
      BY DEF CL!FoldLeft, CL!MapThenFoldSet
    <2> HIDE DEF last
    <2>3. QED
      BY <2>1, <2>2
  <1>2. base \in V
    <2>1. files \in UNION {[P -> F] : P \in SUBSET A}
      BY DEF IsFunction
    <2>2. UNION {CL!Parents(p) : p \in DOMAIN files} \in SUBSET D
      OBVIOUS
    <2>3. <<>> \in Seq(Outcomes) /\ FALSE \in BOOLEAN
      BY EmptySeq
    <2> HIDE DEF A, D, F
    <2>4. QED
      BY <2>1, <2>2, <2>3 DEF CL!Disk, DiskStates
  <1>3. \A v \in V, i \in 1..n : step[<<v, i>>] = CL!ApplyMove(v, actions[i]) /\ step[<<v, i>>] \in V
    BY DiskStep
  <1>4. PICK g : IsFold(g, n, base, step)
    BY FoldExists
  <1> HIDE DEF step, V, base, last
  <1>5. \A T \in SUBSET (1..n) : g[T] \in V
    BY <1>2, <1>3, <1>4, FoldType
  <1>6. Iterates(g)
    <2>1. ASSUME NEW T \in SUBSET (1..n), T # {}
         PROVE  step[<<g[T \ {Max(T)}], Max(T)>>] = CL!ApplyMove(g[T \ {CL!Max(T)}], actions[CL!Max(T)])
      <3>1. Max(T) \in 1..n /\ CL!Max(T) = Max(T)
        BY <2>1, MaxIsIn, SameMax
      <3>2. QED
        BY <1>3, <1>5, <3>1
    <2>2. QED
      BY <1>4, <2>1 DEF IsFold
  <1>7. Iterates(h)
    BY <1>6
  <1> HIDE DEF h
  <1> DEFINE c == [m \in 0..n |-> h[1..m]]
  <1>8. c[0] = base
    BY <1>7
  <1>9. ASSUME NEW m \in 1..n PROVE c[m] = CL!ApplyMove(c[m - 1], actions[m])
    <2>1. 1..m \in SUBSET (1..n) /\ 1..m # {} /\ (1..m) \ {m} = 1..(m - 1) /\ CL!Max(1..m) = m
      BY PrefixPlaces, SameMax
    <2>2. h[1..m] = CL!ApplyMove(h[(1..m) \ {CL!Max(1..m)}], actions[CL!Max(1..m)])
      BY <1>7, <2>1
    <2>3. h[1..m] = CL!ApplyMove(h[1..(m - 1)], actions[m])
      BY <2>1, <2>2
    <2>4. c[m] = h[1..m] /\ c[m - 1] = h[1..(m - 1)]
      OBVIOUS
    <2> HIDE DEF c
    <2>5. QED
      BY <2>3, <2>4
  <1>10. MovesOf(c, n, files, actions)
    BY <1>8, <1>9 DEF MovesOf, base
  <1>11. last = c[n]
    BY <1>1
  <1>12. QED
    BY <1>10, <1>11 DEF last

\* The actions are applied at the places that their texts name.
LEMMA Applications ==
    ASSUME NEW files, IsFunction(files), NEW actions, NEW n \in Nat, DOMAIN actions = 1..n
    PROVE  \E c : MovesOf(c, n, files, CL!OnDisk(actions)) /\ CL!Applied(files, actions) = c[n]
  <1> DEFINE moves == CL!OnDisk(actions)
  <1>1. DOMAIN moves = 1..n
    BY DEF CL!OnDisk
  <1>2. CL!Applied(files, actions) = CL!FoldLeft(CL!ApplyMove, CL!Disk(files), moves)
    BY DEF CL!Applied
  <1> HIDE DEF moves
  <1>3. PICK c : MovesOf(c, n, files, moves) /\ CL!FoldLeft(CL!ApplyMove, CL!Disk(files), moves) = c[n]
    BY <1>1, MovesOneByOne
  <1>4. QED
    BY <1>2, <1>3 DEF moves

\* A disk with the files of another one, each at a place of its own, and its
\* directories.
Intact(s, files) ==
    /\ s \in [files : {s.files}, dirs : {s.dirs}, done : {s.done}, raised : BOOLEAN]
    /\ s.done \in Seq(Outcomes)
    /\ IsFunction(s.files) /\ IsFiniteSet(DOMAIN s.files)
    /\ CL!Contents(s.files) = CL!Contents(files)
    /\ Cardinality(DOMAIN s.files) = Cardinality(DOMAIN files)
    /\ CL!Disk(files).dirs \subseteq s.dirs

LEMMA MovedIntact ==
    ASSUME NEW files, NEW s, Intact(s, files), NEW a, a.from \in DOMAIN s.files, a.to \notin DOMAIN s.files
    PROVE  Intact(CL!Moved(s, a), files)
  <1> DEFINE P == DOMAIN s.files
             Q == (P \ {a.from}) \cup {a.to}
             g == [p \in Q |-> IF p = a.to THEN s.files[a.from] ELSE s.files[p]]
             m == CL!Moved(s, a)
  <1>1. m = [files |-> g, dirs |-> s.dirs \cup CL!Parents(a.to), done |-> Append(s.done, "applied"), raised |-> FALSE]
    BY DEF CL!Moved
  <1>2. m.files = g /\ m \in [files : {m.files}, dirs : {m.dirs}, done : {m.done}, raised : BOOLEAN]
    <2> HIDE DEF g, m
    <2>1. QED
      BY <1>1
  <1>6. m.done \in Seq(Outcomes)
    <2>1. m.done = Append(s.done, "applied") /\ s.done \in Seq(Outcomes) /\ "applied" \in Outcomes
      BY <1>1 DEF Intact, Outcomes
    <2> HIDE DEF m
    <2>2. QED
      BY <2>1, AppendProperties
  <1>3. IsFiniteSet(Q) /\ Cardinality(Q) = Cardinality(P)
    <2>1. IsFiniteSet(P) /\ IsFiniteSet(P \ {a.from})
      BY FS_RemoveElement DEF Intact
    <2>2. Cardinality(P \ {a.from}) = Cardinality(P) - 1 /\ Cardinality(P) \in Nat
      BY <2>1, FS_RemoveElement, FS_CardinalityType
    <2>3. a.to \notin P \ {a.from}
      OBVIOUS
    <2>4. IsFiniteSet(Q) /\ Cardinality(Q) = Cardinality(P \ {a.from}) + 1
      BY <2>1, <2>3, FS_AddElement
    <2>5. QED
      BY <2>2, <2>4
  <1>4. CL!Contents(g) = CL!Contents(s.files)
    <2>1. ASSUME NEW p \in Q PROVE \E q \in P : g[p] = s.files[q]
      OBVIOUS
    <2>2. ASSUME NEW q \in P PROVE \E p \in Q : g[p] = s.files[q]
      <3>1. CASE q = a.from
        BY <3>1
      <3>2. CASE q # a.from
        BY <3>2
      <3>3. QED
        BY <3>1, <3>2
    <2>3. DOMAIN g = Q
      OBVIOUS
    <2> HIDE DEF g, Q, P
    <2>4. QED
      BY <2>1, <2>2, <2>3 DEF CL!Contents, P
  <1>5. IsFunction(g) /\ DOMAIN g = Q
    BY DEF IsFunction
  <1>8. CL!Disk(files).dirs \subseteq m.dirs
    <2>1. m.dirs = s.dirs \cup CL!Parents(a.to) /\ CL!Disk(files).dirs \subseteq s.dirs
      BY <1>1 DEF Intact
    <2> HIDE DEF m
    <2>2. QED
      BY <2>1
  <1> HIDE DEF m, g, Q
  <1>7. QED
    BY <1>2, <1>3, <1>4, <1>5, <1>6, <1>8 DEF Intact, m

LEMMA MoveIntact ==
    ASSUME NEW files, NEW s, Intact(s, files), NEW a
    PROVE  Intact(CL!ApplyMove(s, a), files)
  <1>1. ASSUME NEW t \in Outcomes PROVE Intact([s EXCEPT !.done = Append(@, t)], files)
    <2>1. Append(s.done, t) \in Seq(Outcomes)
      BY AppendProperties DEF Intact
    <2>2. QED
      BY <2>1 DEF Intact
  <1>2. Intact([s EXCEPT !.raised = TRUE], files)
    BY DEF Intact
  <1>3. Intact([s EXCEPT !.done = Append(@, "skipped")], files) /\ Intact([s EXCEPT !.done = Append(@, "blocked")], files)
    <2>1. "skipped" \in Outcomes /\ "blocked" \in Outcomes
      BY DEF Outcomes
    <2>2. QED
      BY <1>1, <2>1
  <1>4. a.from \in DOMAIN s.files /\ a.to \notin DOMAIN s.files => Intact(CL!Moved(s, a), files)
    BY MovedIntact
  <1>5. QED
    BY <1>2, <1>3, <1>4 DEF CL!ApplyMove

LEMMA MovesIntact ==
    ASSUME NEW files, IsFunction(files), IsFiniteSet(DOMAIN files), NEW actions, NEW n \in Nat,
           NEW c, MovesOf(c, n, files, actions)
    PROVE  \A k \in 0..n : Intact(c[k], files)
  <1> DEFINE G == {k \in Nat : k <= n => Intact(c[k], files)}
  <1>1. 0 \in G
    <2>1. Intact(CL!Disk(files), files)
      <3>1. <<>> \in Seq(Outcomes)
        BY EmptySeq
      <3>2. QED
        BY <3>1 DEF Intact, CL!Disk
    <2>2. QED
      BY <2>1 DEF MovesOf
  <1>2. ASSUME NEW k \in G PROVE k + 1 \in G
    <2>1. SUFFICES ASSUME k + 1 <= n PROVE Intact(c[k + 1], files)
      OBVIOUS
    <2>2. k + 1 \in 1..n /\ (k + 1) - 1 = k /\ Intact(c[k], files)
      BY <2>1
    <2>3. c[k + 1] = CL!ApplyMove(c[k], actions[k + 1])
      BY <2>2 DEF MovesOf
    <2>4. QED
      BY <2>2, <2>3, MoveIntact
  <1>3. G = Nat
    <2> HIDE DEF G
    <2>1. G \in SUBSET Nat
      BY DEF G
    <2>2. QED
      BY <1>1, <1>2, <2>1, SetInduction
  <1>4. QED
    BY <1>3

\* There are finitely many actions.
LEMMA ActionsFinite ==
    ASSUME NEW judge, IsFiniteSet(DOMAIN judge.judgments)
    PROVE  \E n \in Nat : DOMAIN CL!Actions(judge) = 1..n
  <1> DEFINE J == judge.judgments
             K == {k \in CL!ToSet(J) : k.decision = "archive_first" /\ k.kind # "source"}
             Act(j) == [from |-> CL!SafeRelpath(j.path), to |-> CL!SafeRelpath(j.hint)]
             of == {Act(j) : j \in K}
             T == {a \in of : a.from # <<>> /\ CL!ArchiveText(a.to)}
             Before(a, b) == CL!Less(a.from, b.from) \/ (a.from = b.from /\ CL!Less(a.to, b.to))
  <1>1. IsFiniteSet(CL!ToSet(J))
    <2> DEFINE D == DOMAIN J
    <2>1. CL!ToSet(J) = {J[i] : i \in D}
      BY DEF CL!ToSet
    <2> HIDE DEF J, D
    <2>2. IsFiniteSet(D)
      BY DEF D, J
    <2>3. QED
      BY <2>1, <2>2, FiniteImage
  <1>2. IsFiniteSet(K)
    BY <1>1, FS_Subset
  <1>3. IsFiniteSet(T)
    <2> HIDE DEF K, Act
    <2> DEFINE f == [j \in K |-> Act(j)]
    <2>1. of = {f[j] : j \in K}
      OBVIOUS
    <2> HIDE DEF f, of
    <2>2. IsFiniteSet(of)
      BY <1>2, <2>1, FiniteImage
    <2>3. QED
      BY <2>2, FS_Subset
  <1>4. CL!Actions(judge) = CL!Sorted(T, Before)
    BY Zenon DEF CL!Actions
  <1>5. DOMAIN CL!Actions(judge) = 1..Cardinality(T)
    <2> HIDE DEF T, Before
    <2>1. DOMAIN CL!Actions(judge) = 1..CL!Cardinality(T)
      BY <1>4, Zenon DEF CL!Sorted
    <2>2. QED
      BY <2>1, SameCardinality
  <1>6. QED
    BY <1>3, <1>5, FS_CardinalityType

LEMMA KeptFinite ==
    ASSUME NEW pool, NEW raw, IsFiniteSet(DOMAIN raw.judgments)
    PROVE  IsFiniteSet(DOMAIN CL!Normalized(raw, pool).judgments)
  <1> DEFINE N == CL!Normalized(raw, pool)
             J == raw.judgments
             inPool == {i \in DOMAIN J : \E k \in DOMAIN pool : pool[k].path = J[i].path}
             kept == {i \in inPool : \A j \in inPool : J[j].path = J[i].path => i <= j}
             Source(i) == pool[CHOOSE k \in DOMAIN pool : pool[k].path = J[i].path]
             Rank(d) == CHOOSE n \in DOMAIN CL!Decisions : CL!Decisions[n] = d
             Before(a, b) == \/ Rank(a.decision) < Rank(b.decision)
                             \/ /\ a.decision = b.decision
                                /\ a.confidence > b.confidence \/ (a.confidence = b.confidence /\ CL!Less(a.path, b.path))
             S == {CL!JudgmentItem(J[i], Source(i)) : i \in kept}
  <1>1. IsFiniteSet(S)
    <2>1. IsFiniteSet(kept)
      BY FS_Subset
    <2> DEFINE f == [i \in kept |-> CL!JudgmentItem(J[i], Source(i))]
    <2> HIDE DEF kept
    <2>2. S = {f[i] : i \in kept}
      OBVIOUS
    <2> HIDE DEF f, S
    <2>3. QED
      BY <2>1, <2>2, FiniteImage
  <1>2. CASE raw.status \in {"none", "unavailable", "skipped"}
    <2>1. N.judgments = <<>>
      BY <1>2 DEF CL!Normalized, CL!Unavailable
    <2>2. DOMAIN N.judgments = 1..0
      BY <2>1
    <2>3. QED
      BY <2>2, FS_Interval
  <1>3. CASE raw.status \notin {"none", "unavailable", "skipped"}
    <2>1. N = [status |-> "ok", judgments |-> CL!Sorted(S, Before)]
      <3>1. raw.status # "none" /\ raw.status \notin {"unavailable", "skipped"}
        BY <1>3
      <3>2. QED
        BY <3>1, Zenon DEF CL!Normalized
    <2> HIDE DEF S, Before, N
    <2>2. N.judgments = CL!Sorted(S, Before)
      <3> DEFINE q == CL!Sorted(S, Before)
      <3>1. N = [status |-> "ok", judgments |-> q]
        BY <2>1
      <3> HIDE DEF q
      <3>2. N.judgments = q
        BY <3>1
      <3>3. QED
        BY <3>2 DEF q
    <2>3. DOMAIN N.judgments = 1..CL!Cardinality(S)
      BY <2>2, Zenon DEF CL!Sorted
    <2>4. DOMAIN N.judgments = 1..Cardinality(S) /\ Cardinality(S) \in Nat
      BY <1>1, <2>3, SameCardinality, FS_CardinalityType
    <2>5. QED
      BY <2>4, FS_Interval DEF N
  <1>4. QED
    BY <1>2, <1>3

\* Inputs of cleanup: any tree, a disk, and any finite answer.
DiskInput ==
    rule = "cleanup" => IsFunction(x.files) /\ IsFiniteSet(DOMAIN x.files) /\ IsFiniteSet(DOMAIN x.raw.judgments)

\* autofix.py: whatever the LLM answers and whatever changed on disk since the tree was
\* taken, no file is lost or overwritten, of any number of files and moves.
THEOREM NoFileIsLost == DiskInput => FilesSurvive
  <1> SUFFICES ASSUME DiskInput, rule = "cleanup"
               PROVE  CL!FilesSurvive(x.tree, x.files, CL!NoAnswer, x.raw)
    BY DEF FilesSurvive
  <1> DEFINE files == x.files
             raw == x.raw
             pool == CL!Pool(CL!Inventory(x.tree))
             judge == CL!Judgement(x.tree, CL!NoAnswer, raw)
             actions == CL!Actions(judge)
             after == CL!Run(x.tree, files, CL!NoAnswer, raw)
  <1>1. IsFunction(files) /\ IsFiniteSet(DOMAIN files) /\ IsFiniteSet(DOMAIN raw.judgments)
    BY DEF DiskInput
  <1>2. IsFiniteSet(DOMAIN judge.judgments)
    <2>1. judge = CL!Unavailable("skipped") \/ judge = CL!Normalized(raw, pool)
      BY DEF CL!Judgement, CL!Judged, CL!NoAnswer
    <2>2. IsFiniteSet(DOMAIN CL!Normalized(raw, pool).judgments)
      BY <1>1, KeptFinite
    <2>3. DOMAIN CL!Unavailable("skipped").judgments = 1..0
      BY DEF CL!Unavailable
    <2>4. IsFiniteSet(DOMAIN CL!Unavailable("skipped").judgments)
      <3>1. IsFiniteSet(1..0)
        BY FS_Interval
      <3>2. QED
        BY <2>3, <3>1
    <2>5. QED
      BY <2>1, <2>2, <2>4
  <1>3. after = CL!Applied(files, actions)
    BY DEF CL!Run
  <1> HIDE DEF files, raw, judge, actions, after
  <1>4. PICK n \in Nat : DOMAIN actions = 1..n
    BY <1>2, ActionsFinite DEF actions
  <1>5. PICK c : MovesOf(c, n, files, CL!OnDisk(actions)) /\ CL!Applied(files, actions) = c[n]
    BY <1>1, <1>4, Applications
  <1>6. Intact(after, files)
    <2>1. Intact(c[n], files)
      BY <1>1, <1>5, MovesIntact
    <2>2. QED
      BY <1>3, <1>5, <2>1
  <1>7. QED
    BY <1>6, SameCardinality DEF Intact, CL!FilesSurvive, after, files, raw

-----------------------------------------------------------------------------
(* Cleanup: the inventory of candidates. *)

\* The rules and their confidence.
LEMMA RuleWords ==
    /\ DOMAIN CL!CleanupRules = 1..7
    /\ \A i \in 1..7 : IsFiniteSet(CL!CleanupRules[i].path) /\ IsFiniteSet(CL!CleanupRules[i].content)
  <1> DEFINE W == {"legacy", "deprecated", "compat", "fallback"}
             r == CL!CleanupRules
  <1>1. IsFiniteSet(W)
    <2>1. IsFiniteSet({}) /\ IsFiniteSet({"legacy"})
      BY FS_EmptySet, FS_Singleton
    <2>2. IsFiniteSet({"legacy"} \cup {"deprecated"})
      BY <2>1, FS_AddElement
    <2>3. IsFiniteSet(({"legacy"} \cup {"deprecated"}) \cup {"compat"})
      BY <2>2, FS_AddElement
    <2>4. IsFiniteSet((({"legacy"} \cup {"deprecated"}) \cup {"compat"}) \cup {"fallback"})
      BY <2>3, FS_AddElement
    <2>5. W = (({"legacy"} \cup {"deprecated"}) \cup {"compat"}) \cup {"fallback"}
      OBVIOUS
    <2>6. QED
      BY <2>4, <2>5
  <1>2. DOMAIN r = 1..7
    BY DEF CL!CleanupRules
  <1>3. ASSUME NEW i \in 1..7 PROVE r[i].path \in SUBSET W /\ r[i].content \in SUBSET W
    BY DEF CL!CleanupRules, CL!Old
  <1> HIDE DEF W, r
  <1>4. ASSUME NEW i \in 1..7 PROVE IsFiniteSet(r[i].path) /\ IsFiniteSet(r[i].content)
    BY <1>1, <1>3, FS_Subset
  <1>5. QED
    BY <1>2, <1>4 DEF r

LEMMA ConfidenceIsInt ==
    ASSUME NEW f, NEW i \in DOMAIN CL!CleanupRules
    PROVE  CL!Confidence(f, CL!CleanupRules[i]) \in Int
  <1> DEFINE r == CL!CleanupRules[i]
             P == r.path \cap f.words
             T == r.content \cap f.text
  <1>1. IsFiniteSet(r.path) /\ IsFiniteSet(r.content)
    BY RuleWords
  <1>2. IsFiniteSet(P) /\ IsFiniteSet(T)
    <2> HIDE DEF r
    <2>1. QED
      BY <1>1, FS_Subset
  <1>3. CL!Cardinality(P) \in Nat /\ CL!Cardinality(T) \in Nat
    <2> HIDE DEF P, T
    <2>1. QED
      BY <1>2, FS_CardinalityType, SameCardinality
  <1>4. CL!Confidence(f, r) = LET n == 55 + 12 * CL!Cardinality(P) + 18 * CL!Cardinality(T) IN IF n > 95 THEN 95 ELSE n
    BY DEF CL!Confidence
  <1> HIDE DEF P, T, r
  <1>5. QED
    BY <1>3, <1>4 DEF r

\* The best of the rules that match is one of them.
LEMMA BestIsRule ==
    ASSUME NEW f, \E i \in DOMAIN CL!CleanupRules : CL!Matches(f, CL!CleanupRules[i])
    PROVE  \E i \in DOMAIN CL!CleanupRules : CL!Best(f) = CL!CleanupRules[i]
  <1> DEFINE D == DOMAIN CL!CleanupRules
             of == {i \in D : CL!Matches(f, CL!CleanupRules[i])}
             C(i) == CL!Confidence(f, CL!CleanupRules[i])
             R == {p \in of \X of : C(p[2]) < C(p[1]) \/ (C(p[2]) = C(p[1]) /\ p[1] < p[2])}
             First(i) == \A j \in of : C(j) < C(i) \/ (C(j) = C(i) /\ i <= j)
  <1>1. IsFiniteSet(of) /\ of # {} /\ of \in SUBSET Int /\ \A i \in of : C(i) \in Int
    <2>1. D = 1..7 /\ IsFiniteSet(1..7)
      <3>1. D = 1..7
        BY RuleWords
      <3>2. IsFiniteSet(1..7)
        <4>1. 1 \in Int /\ 7 \in Int
          OBVIOUS
        <4>2. QED
          BY <4>1, FS_Interval, Zenon
      <3>3. QED
        BY <3>1, <3>2
    <2>2. IsFiniteSet(of)
      BY <2>1, FS_Subset
    <2> HIDE DEF C
    <2>3. \A i \in of : C(i) \in Int
      BY ConfidenceIsInt DEF C
    <2>4. QED
      BY <2>1, <2>2, <2>3
  <1> HIDE DEF of, C
  <1>2. \A i \in 1..Cardinality(of) : \E a \in of : Cardinality({b \in of : <<b, a>> \in R}) = i - 1
    <2>1. \A a \in of : <<a, a>> \notin R
      BY <1>1
    <2>2. ASSUME NEW a \in of, NEW b \in of, NEW c \in of, <<a, b>> \in R, <<b, c>> \in R PROVE <<a, c>> \in R
      BY <1>1, <2>2
    <2>3. \A a, b \in of : a = b \/ <<a, b>> \in R \/ <<b, a>> \in R
      BY <1>1
    <2> HIDE DEF R
    <2>4. OrdersAll(R, of)
      BY <2>1, <2>2, <2>3 DEF OrdersAll, Orders
    <2>5. Ranked(R, of)
      BY <1>1, <2>4, RankedSet
    <2>6. QED
      BY <2>5 DEF Ranked
  <1>3. 1 \in 1..Cardinality(of)
    BY <1>1, FS_CardinalityType, FS_EmptySet
  <1>4. PICK a \in of : Cardinality({b \in of : <<b, a>> \in R}) = 0
    BY <1>2, <1>3
  <1>5. First(a)
    <2> DEFINE B == {b \in of : <<b, a>> \in R}
    <2>1. IsFiniteSet(B)
      BY <1>1, FS_Subset
    <2>2. B = {}
      <3>1. Cardinality(B) = 0
        BY <1>4
      <3> HIDE DEF B
      <3>2. QED
        BY <2>1, <3>1, FS_EmptySet
    <2>3. ASSUME NEW j \in of PROVE C(j) < C(a) \/ (C(j) = C(a) /\ a <= j)
      <3>1. <<j, a>> \notin R
        BY <2>2
      <3>2. QED
        BY <1>1, <3>1
    <2>4. QED
      BY <2>3
  <1>6. CL!Best(f) = CL!CleanupRules[CHOOSE i \in of : First(i)]
    BY Zenon DEF CL!Best, of, C
  <1>7. (CHOOSE i \in of : First(i)) \in of
    <2> HIDE DEF First
    <2>1. QED
      BY <1>5, Zenon
  <1>8. QED
    BY <1>6, <1>7 DEF of

\* The inventory is of candidates for the files of the tree.
LEMMA InventoryElements ==
    ASSUME NEW tree, IsFiniteSet(DOMAIN tree), DOMAIN tree \in SUBSET Seq(Int)
    PROVE  \E n \in Nat : /\ DOMAIN CL!Inventory(tree) = 1..n
                          /\ \A i \in 1..n : \E p \in DOMAIN tree :
                                CL!Inventory(tree)[i] = CL!Candidate(p, tree[p])
  <1> DEFINE found == {p \in DOMAIN tree :
                         /\ CL!Classify(tree[p]) \in {"source"} \cup CL!CleanupExtraKinds
                         /\ \E i \in DOMAIN CL!CleanupRules : CL!Matches(tree[p], CL!CleanupRules[i])}
             c(p) == CL!Candidate(p, tree[p])
             S == {c(p) : p \in found}
             Before(a, b) == a.confidence > b.confidence \/ (a.confidence = b.confidence /\ CL!Less(a.path, b.path))
             R == {p \in S \X S : Before(p[1], p[2])}
             C(a) == CL!Cardinality({b \in S : Before(b, a)})
             n == Cardinality(S)
             q == CL!Inventory(tree)
  <1>1. ASSUME NEW p \in found PROVE c(p).path = p /\ c(p).confidence \in Int
    <2>1. c(p).path = p /\ c(p).confidence = CL!Confidence(tree[p], CL!Best(tree[p]))
      BY DEF CL!Candidate
    <2>2. CL!Confidence(tree[p], CL!Best(tree[p])) \in Int
      BY BestIsRule, ConfidenceIsInt
    <2>3. QED
      BY <2>1, <2>2
  <1>2. IsFiniteSet(S) /\ n \in Nat
    <2>1. IsFiniteSet(found)
      BY FS_Subset
    <2> DEFINE f == [p \in found |-> c(p)]
    <2> HIDE DEF found, c
    <2>2. S = {f[p] : p \in found}
      OBVIOUS
    <2> HIDE DEF f, S
    <2>3. QED
      BY <2>1, <2>2, FiniteImage, FS_CardinalityType
  <1>3. ASSUME NEW a \in S PROVE a.path \in Seq(Int) /\ a.confidence \in Int /\ a = c(a.path) /\ a.path \in DOMAIN tree
    <2>1. PICK p \in found : a = c(p)
      OBVIOUS
    <2>2. p \in DOMAIN tree
      OBVIOUS
    <2> HIDE DEF found, c
    <2>3. QED
      BY <1>1, <2>1, <2>2
  <1>4. \A i \in 1..n : \E a \in S : C(a) = i - 1
    <2> HIDE DEF S, c
    <2>1. \A a \in S : <<a, a>> \notin R
      BY <1>3, LessOrders
    <2>2. ASSUME NEW a \in S, NEW b \in S, NEW d \in S, <<a, b>> \in R, <<b, d>> \in R PROVE <<a, d>> \in R
      <3>1. Before(a, b) /\ Before(b, d)
        BY <2>2
      <3>2. Before(a, d)
        BY <1>3, <3>1, LessOrders
      <3>3. QED
        BY <3>2
    <2>3. ASSUME NEW a \in S, NEW b \in S PROVE a = b \/ <<a, b>> \in R \/ <<b, a>> \in R
      <3>1. a.path = b.path => a = b
        BY <1>3
      <3>2. a = b \/ Before(a, b) \/ Before(b, a)
        BY <1>3, <3>1, LessOrders
      <3>3. QED
        BY <3>2
    <2>4. \A a \in S : {b \in S : <<b, a>> \in R} = {b \in S : Before(b, a)}
      OBVIOUS
    <2> HIDE DEF R
    <2>5. OrdersAll(R, S)
      BY <2>1, <2>2, <2>3 DEF OrdersAll, Orders
    <2>6. Ranked(R, S)
      BY <1>2, <2>5, RankedSet
    <2> HIDE DEF Before
    <2>7. QED
      BY <2>4, <2>6, SameCardinality DEF Ranked
  <1>5. q = [i \in 1..CL!Cardinality(S) |-> CHOOSE a \in S : C(a) = i - 1]
    BY Zenon DEF CL!Inventory, CL!Sorted
  <1>6. \A i \in 1..n : q[i] \in S
    <2> HIDE DEF S, C, q
    <2>1. QED
      BY <1>4, <1>5, SameCardinality
  <1>7. DOMAIN q = 1..n
    <2> HIDE DEF S, C, q
    <2>1. QED
      BY <1>5, SameCardinality
  <1>8. \A i \in 1..n : \E p \in DOMAIN tree : q[i] = c(p)
    <2> HIDE DEF S, q, c
    <2>1. QED
      BY <1>3, <1>6
  <1>9. QED
    BY <1>2, <1>7, <1>8

LEMMA PoolElements ==
    ASSUME NEW tree, IsFiniteSet(DOMAIN tree), DOMAIN tree \in SUBSET Seq(Int)
    PROVE  \A k \in DOMAIN CL!Pool(CL!Inventory(tree)) :
              \E p \in DOMAIN tree : /\ CL!Pool(CL!Inventory(tree))[k] = CL!Candidate(p, tree[p])
                                     /\ \E i \in DOMAIN CL!Inventory(tree) : CL!Inventory(tree)[i].path = p
  <1> DEFINE q == CL!Inventory(tree)
             S == {CL!Candidate(p, tree[p]) : p \in DOMAIN tree}
  <1>1. PICK n \in Nat : DOMAIN q = 1..n /\ \A i \in 1..n : \E p \in DOMAIN tree : q[i] = CL!Candidate(p, tree[p])
    BY InventoryElements
  <1>2. Len(q) = n
    BY <1>1
  <1> DEFINE m == IF 10 < n THEN 10 ELSE n
             u == SubSeq(q, 1, m)
  <1>3. CL!Pool(q) = u
    <2> HIDE DEF q
    <2>1. QED
      BY <1>2 DEF CL!Pool, CL!First, CL!MaxCandidates
  <1> HIDE DEF q
  <1>4. m \in Nat /\ m <= n /\ \A i \in 1..m : q[i] \in S
    BY <1>1
  <1>5. DOMAIN u = 1..m /\ \A k \in 1..m : u[k] = q[k]
    <2> HIDE DEF m, S
    <2>1. /\ u \in Seq(S) /\ Len(u) = IF 1 <= m THEN m - 1 + 1 ELSE 0
          /\ \A k \in 1..(m - 1 + 1) : u[k] = q[1 + k - 1]
      BY <1>4, SubSeqProperties
    <2> HIDE DEF u
    <2>2. DOMAIN u = 1..Len(u) /\ Len(u) = m
      BY <1>4, <2>1, LenProperties
    <2>3. \A k \in 1..m : u[k] = q[k]
      BY <1>4, <2>1
    <2>4. QED
      BY <2>2, <2>3
  <1> HIDE DEF u, m
  <1>6. ASSUME NEW k \in 1..m
       PROVE  \E p \in DOMAIN tree : /\ u[k] = CL!Candidate(p, tree[p])
                                     /\ \E i \in DOMAIN q : q[i].path = p
    <2>1. k \in 1..n
      BY <1>4
    <2>2. PICK p \in DOMAIN tree : q[k] = CL!Candidate(p, tree[p])
      BY <1>1, <2>1
    <2>3. q[k].path = p
      BY <2>2 DEF CL!Candidate
    <2>4. QED
      BY <1>1, <1>5, <2>1, <2>2, <2>3
  <1>7. QED
    BY <1>3, <1>5, <1>6 DEF q

-----------------------------------------------------------------------------
(* Cleanup: what is judged. *)

\* Answers with paths in the places of paths.
IsAnswer(raw) ==
    /\ IsFiniteSet(DOMAIN raw.judgments) /\ DOMAIN raw.judgments \in SUBSET Int
    /\ \A i \in DOMAIN raw.judgments :
          /\ raw.judgments[i].path \in Seq(Int) /\ raw.judgments[i].hint \in Seq(Int)
          /\ raw.judgments[i].confidence \in Int

\* The order of the decisions.
Rank(d) == CHOOSE n \in DOMAIN CL!Decisions : CL!Decisions[n] = d

LEMMA RankOfDecision ==
    ASSUME NEW d, NEW kind
    PROVE  LET e == CL!NormalizedDecision(d, kind)
           IN  Rank(e) \in 1..4 /\ CL!Decisions[Rank(e)] = e
  <1> DEFINE e == CL!NormalizedDecision(d, kind)
             D == CL!Decisions
  <1>1. DOMAIN D = 1..4 /\ D[3] = "review"
    BY DEF CL!Decisions
  <1>2. \E n \in DOMAIN D : D[n] = e
    <2>1. CL!ToSet(D) = {D[n] : n \in DOMAIN D}
      BY DEF CL!ToSet
    <2>2. e = "review" \/ e \in CL!ToSet(D)
      <3> HIDE DEF D
      <3>1. QED
        BY DEF CL!NormalizedDecision, D
    <2> HIDE DEF D, e
    <2>3. QED
      BY <1>1, <2>1, <2>2
  <1> HIDE DEF D, e
  <1>3. Rank(e) \in DOMAIN D /\ D[Rank(e)] = e
    BY <1>2, Zenon DEF Rank, D
  <1>4. QED
    BY <1>1, <1>3 DEF D, e

\* A judgment kept is one of the answer, about a candidate in the pool.
IsKept(j, raw, pool) ==
    \E h \in DOMAIN raw.judgments, k \in DOMAIN pool :
       pool[k].path = raw.judgments[h].path /\ j = CL!JudgmentItem(raw.judgments[h], pool[k])

\* What is judged of an answer: its judgments of candidates in the pool.
LEMMA JudgmentElements ==
    ASSUME NEW pool, \A k \in DOMAIN pool : pool[k].path \in Seq(Int), NEW raw, IsAnswer(raw)
    PROVE  \A i \in DOMAIN CL!Normalized(raw, pool).judgments :
              IsKept(CL!Normalized(raw, pool).judgments[i], raw, pool)
  <1> DEFINE N == CL!Normalized(raw, pool)
             J == raw.judgments
             named == {i \in DOMAIN J : \E k \in DOMAIN pool : pool[k].path = J[i].path}
             kept == {i \in named : \A j \in named : J[j].path = J[i].path => i <= j}
             Source(i) == pool[CHOOSE k \in DOMAIN pool : pool[k].path = J[i].path]
             Before(a, b) == \/ Rank(a.decision) < Rank(b.decision)
                             \/ /\ a.decision = b.decision
                                /\ a.confidence > b.confidence \/ (a.confidence = b.confidence /\ CL!Less(a.path, b.path))
             c(i) == CL!JudgmentItem(J[i], Source(i))
             S == {c(i) : i \in kept}
             R == {p \in S \X S : Before(p[1], p[2])}
             C(a) == CL!Cardinality({b \in S : Before(b, a)})
             n == Cardinality(S)
             Is(a) == IsKept(a, raw, pool)
  <1>1. ASSUME NEW i \in named
       PROVE  \E k \in DOMAIN pool : Source(i) = pool[k] /\ pool[k].path = J[i].path
    <2> DEFINE k == CHOOSE k \in DOMAIN pool : pool[k].path = J[i].path
    <2>1. k \in DOMAIN pool /\ pool[k].path = J[i].path
      BY Zenon
    <2> HIDE DEF k
    <2>2. QED
      BY <2>1 DEF k
  <1>2. IsFiniteSet(S) /\ n \in Nat
    <2>1. IsFiniteSet(kept)
      BY FS_Subset DEF IsAnswer
    <2> DEFINE f == [i \in kept |-> c(i)]
    <2> HIDE DEF kept, c
    <2>2. S = {f[i] : i \in kept}
      OBVIOUS
    <2> HIDE DEF f, S
    <2>3. QED
      BY <2>1, <2>2, FiniteImage, FS_CardinalityType
  <1>3. ASSUME NEW i \in kept
       PROVE  /\ c(i).path = J[i].path /\ c(i).path \in Seq(Int) /\ c(i).confidence \in Int
              /\ Rank(c(i).decision) \in 1..4 /\ CL!Decisions[Rank(c(i).decision)] = c(i).decision
              /\ Is(c(i))
    <2>1. i \in named /\ i \in DOMAIN J
      OBVIOUS
    <2>2. PICK k \in DOMAIN pool : Source(i) = pool[k] /\ pool[k].path = J[i].path
      BY <1>1, <2>1
    <2>3. c(i) = CL!JudgmentItem(J[i], pool[k])
      BY <2>2
    <2>4. /\ c(i).path = pool[k].path /\ c(i).confidence = J[i].confidence
          /\ c(i).decision = CL!NormalizedDecision(J[i].decision, pool[k].kind)
      <3> HIDE DEF c
      <3>1. QED
        BY <2>3 DEF CL!JudgmentItem
    <2>5. Is(c(i))
      BY <2>1, <2>2, <2>3 DEF IsKept
    <2> HIDE DEF c, Source, kept, Is
    <2>6. QED
      BY <2>1, <2>2, <2>4, <2>5, RankOfDecision DEF IsAnswer
  <1>4. ASSUME NEW i \in kept, NEW j \in kept, J[i].path = J[j].path PROVE i = j
    <2>1. i \in named /\ j \in named /\ i \in Int /\ j \in Int
      BY DEF IsAnswer
    <2>2. i <= j /\ j <= i
      BY <1>4, <2>1
    <2>3. QED
      BY <2>1, <2>2
  <1>5. ASSUME NEW a \in S
       PROVE  /\ a.path \in Seq(Int) /\ a.confidence \in Int
              /\ Rank(a.decision) \in 1..4 /\ CL!Decisions[Rank(a.decision)] = a.decision /\ Is(a)
    <2>1. PICK i \in kept : a = c(i)
      OBVIOUS
    <2> HIDE DEF c, kept, Is
    <2>2. QED
      BY <1>3, <2>1
  <1>6. ASSUME NEW a \in S, NEW b \in S, a.path = b.path PROVE a = b
    <2>1. PICK i \in kept : a = c(i)
      OBVIOUS
    <2>2. PICK j \in kept : b = c(j)
      OBVIOUS
    <2> HIDE DEF c, kept, S, Is
    <2>3. J[i].path = J[j].path
      BY <1>3, <1>6, <2>1, <2>2
    <2>4. QED
      BY <1>4, <2>1, <2>2, <2>3
  <1>7. \A i \in 1..n : \E a \in S : C(a) = i - 1
    <2> HIDE DEF S, c, Is
    <2>1. \A a \in S : <<a, a>> \notin R
      BY <1>5, LessOrders
    <2>2. ASSUME NEW a \in S, NEW b \in S, NEW d \in S, <<a, b>> \in R, <<b, d>> \in R PROVE <<a, d>> \in R
      <3>1. Before(a, b) /\ Before(b, d)
        BY <2>2
      <3>2. CL!Less(a.path, b.path) /\ CL!Less(b.path, d.path) => CL!Less(a.path, d.path)
        BY <1>5, LessOrders
      <3>3. /\ a.confidence \in Int /\ b.confidence \in Int /\ d.confidence \in Int
            /\ Rank(a.decision) \in Int /\ Rank(b.decision) \in Int /\ Rank(d.decision) \in Int
        BY <1>5
      <3>4. Before(a, d)
        BY <3>1, <3>2, <3>3
      <3>5. QED
        BY <3>4
    <2>3. ASSUME NEW a \in S, NEW b \in S PROVE a = b \/ <<a, b>> \in R \/ <<b, a>> \in R
      <3>1. a.path = b.path => a = b
        BY <1>6
      <3>2. Rank(a.decision) = Rank(b.decision) => a.decision = b.decision
        BY <1>5
      <3>3. a = b \/ Before(a, b) \/ Before(b, a)
        BY <1>5, <3>1, <3>2, LessOrders
      <3>4. QED
        BY <3>3
    <2>4. \A a \in S : {b \in S : <<b, a>> \in R} = {b \in S : Before(b, a)}
      OBVIOUS
    <2> HIDE DEF R
    <2>5. OrdersAll(R, S)
      BY <2>1, <2>2, <2>3 DEF OrdersAll, Orders
    <2>6. Ranked(R, S)
      BY <1>2, <2>5, RankedSet
    <2> HIDE DEF Before
    <2>7. QED
      BY <2>4, <2>6, SameCardinality DEF Ranked
  <1>8. CASE raw.status \in {"none", "unavailable", "skipped"}
    <2>1. N.judgments = <<>>
      BY <1>8 DEF CL!Normalized, CL!Unavailable
    <2>2. DOMAIN N.judgments = {}
      BY <2>1
    <2>3. QED
      BY <2>2
  <1>9. CASE raw.status \notin {"none", "unavailable", "skipped"}
    <2> DEFINE q == [i \in 1..CL!Cardinality(S) |-> CHOOSE a \in S : C(a) = i - 1]
    <2>1. N = [status |-> "ok", judgments |-> q]
      <3>1. raw.status # "none" /\ raw.status \notin {"unavailable", "skipped"}
        BY <1>9
      <3>2. QED
        BY <3>1, Zenon DEF CL!Normalized, CL!Sorted, Rank
    <2> HIDE DEF S, C, N, Is
    <2>2. DOMAIN q = 1..n /\ \A i \in 1..n : q[i] \in S
      BY <1>7, SameCardinality
    <2> HIDE DEF q
    <2>3. N.judgments = q
      BY <2>1
    <2>4. \A i \in DOMAIN N.judgments : Is(N.judgments[i])
      BY <1>5, <2>2, <2>3
    <2>5. QED
      BY <2>4 DEF Is, N
  <1>10. QED
    BY <1>8, <1>9

-----------------------------------------------------------------------------
(* Cleanup: the actions of a judgment, and the files they move. *)

\* An action is of a judgment to archive something that is no source, to a text
\* that begins with the archive.
IsActionOf(a, j) ==
    /\ a.from = j.path /\ a.to \in Seq(Int) /\ CL!ArchiveText(a.to)
    /\ j.decision = "archive_first" /\ j.kind # "source"

LEMMA SafePaths ==
    ASSUME NEW p \in Seq(Int)
    PROVE  CL!SafeRelpath(p) \in Seq(Int) /\ (CL!SafeRelpath(p) # <<>> => CL!SafeRelpath(p) = p)
  BY EmptySeq DEF CL!SafeRelpath

LEMMA ActionElements ==
    ASSUME NEW judge, IsFiniteSet(DOMAIN judge.judgments),
           \A i \in DOMAIN judge.judgments :
              judge.judgments[i].path \in Seq(Int) /\ judge.judgments[i].hint \in Seq(Int)
    PROVE  \E n \in Nat :
              /\ DOMAIN CL!Actions(judge) = 1..n
              /\ \A k \in 1..n : \E i \in DOMAIN judge.judgments :
                    IsActionOf(CL!Actions(judge)[k], judge.judgments[i])
  <1> DEFINE J == judge.judgments
             K == {k \in CL!ToSet(J) : k.decision = "archive_first" /\ k.kind # "source"}
             Act(j) == [from |-> CL!SafeRelpath(j.path), to |-> CL!SafeRelpath(j.hint)]
             of == {Act(j) : j \in K}
             S == {a \in of : a.from # <<>> /\ CL!ArchiveText(a.to)}
             Before(a, b) == CL!Less(a.from, b.from) \/ (a.from = b.from /\ CL!Less(a.to, b.to))
             R == {p \in S \X S : Before(p[1], p[2])}
             C(a) == CL!Cardinality({b \in S : Before(b, a)})
             n == Cardinality(S)
             q == CL!Actions(judge)
             Is(a) == \E i \in DOMAIN J : IsActionOf(a, J[i])
  <1>1. IsFiniteSet(CL!ToSet(J)) /\ CL!ToSet(J) = {J[i] : i \in DOMAIN J}
    <2> DEFINE D == DOMAIN J
    <2>1. CL!ToSet(J) = {J[i] : i \in D}
      BY DEF CL!ToSet
    <2> HIDE DEF J, D
    <2>2. IsFiniteSet(D)
      BY DEF D, J
    <2>3. IsFiniteSet({J[i] : i \in D})
      BY <2>2, FiniteImage
    <2>4. QED
      BY <2>1, <2>3 DEF D
  <1>2. IsFiniteSet(S) /\ n \in Nat
    <2>1. IsFiniteSet(K)
      BY <1>1, FS_Subset
    <2> HIDE DEF K, Act
    <2> DEFINE f == [j \in K |-> Act(j)]
    <2>2. of = {f[j] : j \in K}
      OBVIOUS
    <2> HIDE DEF f, of
    <2>3. IsFiniteSet(of)
      BY <2>1, <2>2, FiniteImage
    <2>4. IsFiniteSet(S)
      BY <2>3, FS_Subset
    <2> HIDE DEF S
    <2>5. QED
      BY <2>4, FS_CardinalityType
  <1>3. ASSUME NEW a \in S
       PROVE  a.from \in Seq(Int) /\ a.to \in Seq(Int) /\ a = [from |-> a.from, to |-> a.to] /\ Is(a)
    <2>1. PICK j \in K : a = Act(j)
      OBVIOUS
    <2>2. j \in CL!ToSet(J) /\ j.decision = "archive_first" /\ j.kind # "source" /\ a.from # <<>> /\ CL!ArchiveText(a.to)
      OBVIOUS
    <2> HIDE DEF K
    <2>3. PICK i \in DOMAIN J : j = J[i]
      BY <1>1, <2>2
    <2>4. j.path \in Seq(Int) /\ j.hint \in Seq(Int)
      BY <2>3
    <2>5. a.from = CL!SafeRelpath(j.path) /\ a.to = CL!SafeRelpath(j.hint)
      BY <2>1
    <2>6. a = [from |-> a.from, to |-> a.to]
      BY <2>1
    <2> HIDE DEF S
    <2>7. a.from \in Seq(Int) /\ a.to \in Seq(Int) /\ a.from = j.path
      BY <2>2, <2>4, <2>5, SafePaths
    <2>8. QED
      BY <2>2, <2>3, <2>6, <2>7 DEF IsActionOf
  <1>4. \A i \in 1..n : \E a \in S : C(a) = i - 1
    <2> HIDE DEF S, Is
    <2>1. \A a \in S : <<a, a>> \notin R
      BY <1>3, LessOrders
    <2>2. ASSUME NEW a \in S, NEW b \in S, NEW d \in S, <<a, b>> \in R, <<b, d>> \in R PROVE <<a, d>> \in R
      <3>1. Before(a, b) /\ Before(b, d)
        BY <2>2
      <3>2. CL!Less(a.from, b.from) /\ CL!Less(b.from, d.from) => CL!Less(a.from, d.from)
        BY <1>3, LessOrders
      <3>3. CL!Less(a.to, b.to) /\ CL!Less(b.to, d.to) => CL!Less(a.to, d.to)
        BY <1>3, LessOrders
      <3>4. Before(a, d)
        BY <3>1, <3>2, <3>3
      <3>5. QED
        BY <3>4
    <2>3. ASSUME NEW a \in S, NEW b \in S PROVE a = b \/ <<a, b>> \in R \/ <<b, a>> \in R
      <3>1. a.from = b.from /\ a.to = b.to => a = b
        BY <1>3
      <3>2. a.from = b.from \/ CL!Less(a.from, b.from) \/ CL!Less(b.from, a.from)
        BY <1>3, LessOrders
      <3>3. a.to = b.to \/ CL!Less(a.to, b.to) \/ CL!Less(b.to, a.to)
        BY <1>3, LessOrders
      <3>4. a = b \/ Before(a, b) \/ Before(b, a)
        BY <3>1, <3>2, <3>3
      <3>5. QED
        BY <3>4
    <2>4. \A a \in S : {b \in S : <<b, a>> \in R} = {b \in S : Before(b, a)}
      OBVIOUS
    <2> HIDE DEF R
    <2>5. OrdersAll(R, S)
      BY <2>1, <2>2, <2>3 DEF OrdersAll, Orders
    <2>6. Ranked(R, S)
      BY <1>2, <2>5, RankedSet
    <2> HIDE DEF Before
    <2>7. QED
      BY <2>4, <2>6, SameCardinality DEF Ranked
  <1>5. q = [i \in 1..CL!Cardinality(S) |-> CHOOSE a \in S : C(a) = i - 1]
    BY Zenon DEF CL!Actions, CL!Sorted
  <1>6. DOMAIN q = 1..n /\ \A i \in 1..n : q[i] \in S
    <2> HIDE DEF S, C, q
    <2>1. QED
      BY <1>4, <1>5, SameCardinality
  <1>7. \A i \in 1..n : Is(q[i])
    <2> HIDE DEF S, q, Is
    <2>1. QED
      BY <1>3, <1>6
  <1>8. QED
    BY <1>2, <1>6, <1>7

\* The place that such a text names is the archive or below it.
ToArchive(q) == q[1] = CL!Archive /\ (q = <<CL!Archive>> \/ Len(q) >= 2)

LEMMA ArchivePlaces ==
    ASSUME NEW p \in Seq(Int), CL!ArchiveText(p)
    PROVE  ToArchive(CL!Place(p))
  <1> DEFINE I == {i \in DOMAIN p : p[i] # CL!Here}
             n == Cardinality(I)
             C(i) == Cardinality({j \in I : j <= i})
             q == CL!Place(p)
  <1>1. Len(p) \in Nat /\ DOMAIN p = 1..Len(p) /\ Len(p) >= 2 /\ p[1] = CL!Archive
    BY LenProperties DEF CL!ArchiveText
  <1>2. IsFiniteSet(I) /\ 1 \in I /\ I \in SUBSET Nat /\ \A i \in I : i >= 1
    <2>1. IsFiniteSet(1..Len(p)) /\ I \in SUBSET (1..Len(p))
      BY <1>1, FS_Interval
    <2>2. 1 \in I
      BY <1>1 DEF CL!Archive, CL!Here
    <2> HIDE DEF I
    <2>3. IsFiniteSet(I)
      BY <2>1, FS_Subset
    <2>4. QED
      BY <1>1, <2>1, <2>2, <2>3
  <1>3. n \in Nat /\ n >= 1
    <2> HIDE DEF I
    <2>1. n \in Nat /\ n # 0
      BY <1>2, FS_CardinalityType, FS_EmptySet
    <2>2. QED
      BY <2>1
  <1>4. q = [k \in 1..n |-> p[CHOOSE i \in I : C(i) = k]]
    <2> HIDE DEF I
    <2>1. q = [k \in 1..CL!Cardinality(I) |-> p[CHOOSE i \in I : CL!Cardinality({j \in I : j <= i}) = k]]
      BY Zenon DEF CL!Place, CL!Picked, I
    <2>2. QED
      BY <2>1, SameCardinality
  <1>5. C(1) = 1
    <2> HIDE DEF I
    <2>1. {j \in I : j <= 1} = {1}
      <3>1. \A j \in I : j \in Nat /\ j >= 1
        BY <1>2
      <3>2. \A j \in I : j <= 1 <=> j = 1
        BY <3>1
      <3>3. QED
        BY <1>2, <3>2, Zenon
    <2>2. QED
      BY <2>1, FS_Singleton
  <1>6. ASSUME NEW i \in I, C(i) = 1 PROVE i = 1
    <2> HIDE DEF I
    <2>1. {1, i} \subseteq {j \in I : j <= i}
      BY <1>2
    <2>2. IsFiniteSet({j \in I : j <= i})
      BY <1>2, FS_Subset
    <2>3. PICK e : {j \in I : j <= i} = {e}
      BY <1>6, <2>2, FS_Singleton
    <2>4. QED
      BY <2>1, <2>3
  <1>7. q[1] = CL!Archive
    <2>1. (CHOOSE i \in I : C(i) = 1) = 1
      <3> HIDE DEF I, C
      <3>1. QED
        BY <1>2, <1>5, <1>6
    <2> HIDE DEF I, C, q, n
    <2>2. q[1] = p[CHOOSE i \in I : C(i) = 1]
      BY <1>3, <1>4
    <2>3. QED
      BY <1>1, <2>1, <2>2
  <1>8. Len(q) = n /\ DOMAIN q = 1..n /\ q = [k \in 1..n |-> q[k]]
    <2> HIDE DEF I, n, C, q
    <2> DEFINE V == {q[k] : k \in 1..n}
    <2>1. DOMAIN q = 1..n
      BY <1>4
    <2>2. q \in [1..n -> V]
      BY <1>4
    <2> HIDE DEF V
    <2>3. q \in Seq(V) /\ Len(q) = n
      BY <1>3, <2>2
    <2>4. QED
      BY <2>1, <2>2, <2>3
  <1>9. CASE n = 1
    <2> HIDE DEF I, n, C, q
    <2>1. q = <<CL!Archive>>
      BY <1>7, <1>8, <1>9
    <2>2. QED
      BY <1>7, <2>1 DEF ToArchive, q
  <1>10. CASE n # 1
    <2> HIDE DEF I, n, C, q
    <2>1. Len(q) >= 2
      BY <1>3, <1>8, <1>10
    <2>2. QED
      BY <1>7, <2>1 DEF ToArchive, q
  <1>11. QED
    BY <1>9, <1>10

\* Where a file of the start can be, and a plan of which every action was done.
InPlace(p, files, s) == p \in DOMAIN s.files /\ s.files[p] = files[p]

Archived(p, files, s) == \E q \in DOMAIN s.files : CL!InArchive(q, files) /\ s.files[q] = files[p]

AllDone(s) == ~s.raised /\ "blocked" \notin CL!ToSet(s.done) /\ "skipped" \notin CL!ToSet(s.done)

LEMMA DoneAppended ==
    ASSUME NEW done \in Seq(Outcomes), NEW t \in Outcomes
    PROVE  CL!ToSet(Append(done, t)) = CL!ToSet(done) \cup {t}
  <1> DEFINE u == Append(done, t)
             n == Len(done)
  <1>1. n \in Nat /\ DOMAIN done = 1..n /\ DOMAIN u = 1..(n + 1) /\ u[n + 1] = t /\ \A i \in 1..n : u[i] = done[i]
    BY AppendProperties, LenProperties
  <1> HIDE DEF u, n
  <1>2. ASSUME NEW i \in 1..(n + 1) PROVE u[i] \in {done[j] : j \in 1..n} \cup {t}
    <2>1. i \in 1..n \/ i = n + 1
      BY <1>1
    <2>2. QED
      BY <1>1, <2>1
  <1>3. ASSUME NEW i \in 1..n PROVE done[i] \in {u[j] : j \in 1..(n + 1)}
    <2>1. i \in 1..(n + 1)
      BY <1>1
    <2>2. QED
      BY <1>1, <2>1
  <1>4. t \in {u[j] : j \in 1..(n + 1)}
    BY <1>1
  <1>5. QED
    BY <1>1, <1>2, <1>3, <1>4 DEF CL!ToSet, u

\* A move takes a file that is in place to the archive, and leaves no other
\* less in place or archived than it was.
LEMMA MovedArchives ==
    ASSUME NEW files, NEW s, Intact(s, files), NEW a, ToArchive(a.to),
           a.from \in DOMAIN s.files, a.to \notin DOMAIN s.files, a.to \notin s.dirs, NEW p
    PROVE  LET t == CL!Moved(s, a)
           IN  /\ Archived(p, files, s) => Archived(p, files, t)
               /\ InPlace(p, files, s) => IF a.from = p THEN Archived(p, files, t) ELSE InPlace(p, files, t)
  <1> DEFINE t == CL!Moved(s, a)
             Q == (DOMAIN s.files \ {a.from}) \cup {a.to}
             g == [q \in Q |-> IF q = a.to THEN s.files[a.from] ELSE s.files[q]]
  <1>1. t.files = g
    BY DEF CL!Moved
  <1>2. DOMAIN g = Q /\ g[a.to] = s.files[a.from] /\ \A q \in DOMAIN s.files : q # a.from => q \in Q /\ g[q] = s.files[q]
    OBVIOUS
  <1>7. CL!InArchive(a.to, files)
    BY DEF CL!InArchive, ToArchive, Intact
  <1> HIDE DEF g, Q, t
  <1>3. ASSUME Archived(p, files, s) PROVE Archived(p, files, t)
    <2>1. PICK q \in DOMAIN s.files : CL!InArchive(q, files) /\ s.files[q] = files[p]
      BY <1>3 DEF Archived
    <2>2. a.to \in DOMAIN g
      BY <1>2 DEF Q
    <2>3. CASE q = a.from
      BY <1>1, <1>2, <1>7, <2>1, <2>2, <2>3 DEF Archived
    <2>4. CASE q # a.from
      BY <1>1, <1>2, <2>1, <2>4 DEF Archived
    <2>5. QED
      BY <2>3, <2>4
  <1>4. ASSUME InPlace(p, files, s), a.from = p PROVE Archived(p, files, t)
    <2>1. a.to \in DOMAIN g
      BY <1>2 DEF Q
    <2>2. QED
      BY <1>1, <1>2, <1>4, <1>7, <2>1 DEF Archived, InPlace
  <1>5. ASSUME InPlace(p, files, s), a.from # p PROVE InPlace(p, files, t)
    BY <1>1, <1>2, <1>5 DEF InPlace
  <1>6. QED
    BY <1>3, <1>4, <1>5 DEF t

LEMMA MoveArchives ==
    ASSUME NEW files, NEW s, Intact(s, files), NEW a, ToArchive(a.to), NEW p
    PROVE  LET t == CL!ApplyMove(s, a)
           IN  /\ Archived(p, files, s) => Archived(p, files, t)
               /\ InPlace(p, files, s) => InPlace(p, files, t) \/ (a.from = p /\ Archived(p, files, t))
               /\ AllDone(t) => AllDone(s)
               /\ AllDone(t) /\ InPlace(p, files, s) /\ a.from = p => Archived(p, files, t)
  <1> DEFINE t == CL!ApplyMove(s, a)
             skipped == [s EXCEPT !.done = Append(@, "skipped")]
             blocked == [s EXCEPT !.done = Append(@, "blocked")]
             raised == [s EXCEPT !.raised = TRUE]
             moved == CL!Moved(s, a)
  <1>1. s.done \in Seq(Outcomes) /\ "skipped" \in Outcomes /\ "blocked" \in Outcomes /\ "applied" \in Outcomes
    BY DEF Intact, Outcomes
  <1>2. \/ s.raised /\ t = s
        \/ t = skipped \/ t = blocked \/ t = raised
        \/ t = moved /\ ~s.raised /\ a.from \in DOMAIN s.files /\ a.to \notin DOMAIN s.files /\ a.to \notin s.dirs
    BY DEF CL!ApplyMove
  <1>3. /\ skipped.files = s.files /\ skipped.done = Append(s.done, "skipped")
        /\ blocked.files = s.files /\ blocked.done = Append(s.done, "blocked")
        /\ raised.files = s.files /\ raised.raised = TRUE
    BY DEF Intact
  <1>4. moved.done = Append(s.done, "applied")
    BY DEF CL!Moved
  <1> HIDE DEF skipped, blocked, raised, moved, t
  <1>5. CASE s.raised /\ t = s
    BY <1>5 DEF AllDone, t
  <1>6. CASE t = skipped
    <2>1. "skipped" \in CL!ToSet(t.done)
      BY <1>1, <1>3, <1>6, DoneAppended
    <2>2. QED
      BY <1>3, <1>6, <2>1 DEF AllDone, Archived, InPlace, t
  <1>7. CASE t = blocked
    <2>1. "blocked" \in CL!ToSet(t.done)
      BY <1>1, <1>3, <1>7, DoneAppended
    <2>2. QED
      BY <1>3, <1>7, <2>1 DEF AllDone, Archived, InPlace, t
  <1>8. CASE t = raised
    BY <1>3, <1>8 DEF AllDone, Archived, InPlace, t
  <1>9. CASE t = moved /\ ~s.raised /\ a.from \in DOMAIN s.files /\ a.to \notin DOMAIN s.files /\ a.to \notin s.dirs
    <2>1. CL!ToSet(t.done) = CL!ToSet(s.done) \cup {"applied"}
      BY <1>1, <1>4, <1>9, DoneAppended
    <2>2. AllDone(t) => AllDone(s)
      BY <1>9, <2>1 DEF AllDone
    <2>3. /\ Archived(p, files, s) => Archived(p, files, t)
          /\ InPlace(p, files, s) => IF a.from = p THEN Archived(p, files, t) ELSE InPlace(p, files, t)
      BY <1>9, MovedArchives DEF moved
    <2>4. QED
      BY <2>2, <2>3 DEF t
  <1>10. QED
    BY <1>2, <1>5, <1>6, <1>7, <1>8, <1>9

LEMMA MovesArchive ==
    ASSUME NEW files, IsFunction(files), IsFiniteSet(DOMAIN files), NEW actions, NEW n \in Nat,
           NEW c, MovesOf(c, n, files, actions), \A k \in 1..n : ToArchive(actions[k].to)
    PROVE  /\ \A p \in DOMAIN files : \/ InPlace(p, files, c[n])
                                      \/ Archived(p, files, c[n]) /\ \E i \in 1..n : actions[i].from = p
           /\ AllDone(c[n]) => \A i \in 1..n : actions[i].from \in DOMAIN files => Archived(actions[i].from, files, c[n])
  <1> DEFINE Placed(k) == \A p \in DOMAIN files :
                             \/ InPlace(p, files, c[k])
                             \/ Archived(p, files, c[k]) /\ \E i \in 1..k : actions[i].from = p
             Finished(k) == AllDone(c[k]) => \A i \in 1..k : actions[i].from \in DOMAIN files => Archived(actions[i].from, files, c[k])
             G == {k \in Nat : k <= n => Placed(k) /\ Finished(k)}
  <1>1. 0 \in G
    <2>1. c[0].files = files
      BY DEF MovesOf, CL!Disk
    <2>2. Placed(0) /\ Finished(0)
      BY <2>1 DEF InPlace
    <2>3. QED
      BY <2>2
  <1>2. ASSUME NEW k \in G PROVE k + 1 \in G
    <2>1. SUFFICES ASSUME k + 1 <= n PROVE Placed(k + 1) /\ Finished(k + 1)
      OBVIOUS
    <2>2. k \in Nat /\ k + 1 \in 1..n /\ (k + 1) - 1 = k /\ k \in 0..n /\ Placed(k) /\ Finished(k)
      BY <2>1
    <2> DEFINE a == actions[k + 1]
               s == c[k]
               t == c[k + 1]
    <2>3. t = CL!ApplyMove(s, a)
      BY <2>2 DEF MovesOf
    <2>4. Intact(s, files) /\ ToArchive(a.to)
      BY <2>2, MovesIntact
    <2> HIDE DEF G, s, t, a
    <2>5. ASSUME NEW p
          PROVE  /\ Archived(p, files, s) => Archived(p, files, t)
                 /\ InPlace(p, files, s) => InPlace(p, files, t) \/ (a.from = p /\ Archived(p, files, t))
                 /\ AllDone(t) => AllDone(s)
                 /\ AllDone(t) /\ InPlace(p, files, s) /\ a.from = p => Archived(p, files, t)
      BY <2>3, <2>4, MoveArchives
    <2>6. Placed(k + 1)
      <3>1. ASSUME NEW p \in DOMAIN files
           PROVE  InPlace(p, files, t) \/ (Archived(p, files, t) /\ \E i \in 1..(k + 1) : actions[i].from = p)
        <4>1. InPlace(p, files, s) \/ (Archived(p, files, s) /\ \E i \in 1..k : actions[i].from = p)
          BY <2>2 DEF s
        <4>2. CASE InPlace(p, files, s)
          <5>1. k + 1 \in 1..(k + 1)
            BY <2>2
          <5>2. QED
            BY <2>5, <4>2, <5>1 DEF a
        <4>3. CASE Archived(p, files, s) /\ \E i \in 1..k : actions[i].from = p
          <5>1. PICK i \in 1..k : actions[i].from = p
            BY <4>3
          <5>2. i \in 1..(k + 1)
            BY <2>2
          <5>3. QED
            BY <2>5, <4>3, <5>1, <5>2
        <4>4. QED
          BY <4>1, <4>2, <4>3
      <3>2. QED
        BY <3>1 DEF t
    <2>7. Finished(k + 1)
      <3>1. ASSUME AllDone(t), NEW i \in 1..(k + 1), actions[i].from \in DOMAIN files
           PROVE  Archived(actions[i].from, files, t)
        <4>1. AllDone(s)
          BY <2>5, <3>1
        <4>2. CASE i = k + 1
          <5>1. InPlace(a.from, files, s) \/ Archived(a.from, files, s)
            BY <2>2, <3>1, <4>2 DEF a, s
          <5>2. actions[i].from = a.from
            BY <4>2 DEF a
          <5>3. QED
            BY <2>5, <3>1, <5>1, <5>2
        <4>3. CASE i # k + 1
          <5>1. i \in 1..k
            BY <2>2, <4>3
          <5>2. Archived(actions[i].from, files, s)
            BY <2>2, <3>1, <4>1, <5>1 DEF s
          <5>3. QED
            BY <2>5, <5>2
        <4>4. QED
          BY <4>2, <4>3
      <3>2. QED
        BY <3>1 DEF t
    <2>8. QED
      BY <2>6, <2>7
  <1>3. G = Nat
    <2> HIDE DEF G
    <2>1. G \in SUBSET Nat
      BY DEF G
    <2>2. QED
      BY <1>1, <1>2, <2>1, SetInduction
  <1>4. QED
    BY <1>3

\* A judgment in use is of a candidate of the inventory and of the answer.
IsJudgmentOf(j, tree, answer) ==
    /\ j.path \in DOMAIN tree /\ j.path \in Seq(Int) /\ j.hint \in Seq(Int)
    /\ j.kind = CL!Classify(tree[j.path])
    /\ \E i \in DOMAIN CL!Inventory(tree) : CL!Inventory(tree)[i].path = j.path
    /\ \E i \in DOMAIN answer.judgments :
          /\ answer.judgments[i].path = j.path
          /\ j.decision = "archive_first" => answer.judgments[i].decision = "archive_first"

\* A judgment kept of an answer is of a candidate in the pool.
LEMMA KeptJudgment ==
    ASSUME NEW tree, DOMAIN tree \in SUBSET Seq(Int), NEW pool,
           \A k \in DOMAIN pool :
              \E p \in DOMAIN tree : /\ pool[k] = CL!Candidate(p, tree[p])
                                     /\ \E i \in DOMAIN CL!Inventory(tree) : CL!Inventory(tree)[i].path = p,
           NEW raw, IsAnswer(raw), NEW i \in DOMAIN CL!Normalized(raw, pool).judgments
    PROVE  IsJudgmentOf(CL!Normalized(raw, pool).judgments[i], tree, raw)
  <1> DEFINE inv == CL!Inventory(tree)
             j == CL!Normalized(raw, pool).judgments[i]
  <1>1. ASSUME NEW k \in DOMAIN pool PROVE pool[k].path \in Seq(Int)
    <2>1. PICK p \in DOMAIN tree : pool[k] = CL!Candidate(p, tree[p])
      OBVIOUS
    <2>2. QED
      BY <2>1 DEF CL!Candidate
  <1>2. PICK h \in DOMAIN raw.judgments, k \in DOMAIN pool :
           pool[k].path = raw.judgments[h].path /\ j = CL!JudgmentItem(raw.judgments[h], pool[k])
    <2>1. IsKept(CL!Normalized(raw, pool).judgments[i], raw, pool)
      BY <1>1, JudgmentElements
    <2>2. QED
      BY <2>1 DEF IsKept
  <1>3. PICK p \in DOMAIN tree : pool[k] = CL!Candidate(p, tree[p]) /\ \E m \in DOMAIN inv : inv[m].path = p
    OBVIOUS
  <1> HIDE DEF j, inv
  <1> DEFINE r == raw.judgments[h]
             d == pool[k]
  <1>4. /\ j.path = d.path /\ j.kind = d.kind /\ j.decision = CL!NormalizedDecision(r.decision, d.kind)
        /\ j.hint = IF r.hint # <<>> THEN r.hint ELSE CL!ArchiveHint(d)
    BY <1>2 DEF CL!JudgmentItem
  <1>5. d.path = p /\ d.kind = CL!Classify(tree[p])
    BY <1>3 DEF CL!Candidate
  <1>6. r.path = p /\ r.hint \in Seq(Int) /\ p \in Seq(Int)
    BY <1>2, <1>5 DEF IsAnswer
  <1> HIDE DEF d, r
  <1>7. j.hint \in Seq(Int)
    <2>1. <<>> \in Seq(Int)
      BY EmptySeq
    <2>2. <<0>> \in Seq(Int)
      OBVIOUS
    <2>3. <<0>> \o p \in Seq(Int)
      BY <1>6, <2>2, ConcatProperties
    <2>4. CL!ArchiveHint(d) \in Seq(Int)
      BY <1>5, <2>1, <2>3 DEF CL!ArchiveHint, CL!Archive
    <2>5. QED
      BY <1>4, <1>6, <2>4
  <1>8. j.decision = "archive_first" => r.decision = "archive_first"
    BY <1>4 DEF CL!NormalizedDecision
  <1>9. \E m \in DOMAIN raw.judgments :
           /\ raw.judgments[m].path = j.path
           /\ j.decision = "archive_first" => raw.judgments[m].decision = "archive_first"
    BY <1>4, <1>5, <1>6, <1>8 DEF r
  <1>10. IsJudgmentOf(j, tree, raw)
    BY <1>3, <1>4, <1>5, <1>6, <1>7, <1>9 DEF IsJudgmentOf, inv
  <1>11. QED
    BY <1>10 DEF j

LEMMA Judgments ==
    ASSUME NEW tree, IsFiniteSet(DOMAIN tree), DOMAIN tree \in SUBSET Seq(Int), NEW cache_, NEW raw,
           NEW answer, answer = (IF cache_.status = "ok" THEN cache_ ELSE raw), IsAnswer(answer)
    PROVE  LET judge == CL!Judgement(tree, cache_, raw)
           IN  /\ IsFiniteSet(DOMAIN judge.judgments)
               /\ \A i \in DOMAIN judge.judgments : IsJudgmentOf(judge.judgments[i], tree, answer)
  <1> DEFINE pool == CL!Pool(CL!Inventory(tree))
             judge == CL!Judgement(tree, cache_, raw)
             N == CL!Normalized(answer, pool)
  <1>1. CASE judge = CL!Unavailable("skipped")
    <2> HIDE DEF judge
    <2>1. judge.judgments = <<>>
      BY <1>1 DEF CL!Unavailable
    <2>2. DOMAIN judge.judgments = {} /\ IsFiniteSet({})
      BY <2>1, FS_EmptySet
    <2>3. QED
      BY <2>2 DEF judge
  <1>2. CASE judge = N
    <2>1. \A k \in DOMAIN pool :
             \E p \in DOMAIN tree : /\ pool[k] = CL!Candidate(p, tree[p])
                                    /\ \E i \in DOMAIN CL!Inventory(tree) : CL!Inventory(tree)[i].path = p
      BY PoolElements
    <2> HIDE DEF pool, judge
    <2>2. \A i \in DOMAIN N.judgments : IsJudgmentOf(N.judgments[i], tree, answer)
      BY <2>1, KeptJudgment
    <2>3. IsFiniteSet(DOMAIN N.judgments)
      BY KeptFinite DEF IsAnswer
    <2> HIDE DEF N
    <2>4. QED
      BY <1>2, <2>2, <2>3 DEF judge
  <1>3. judge = CL!Unavailable("skipped") \/ judge = N
    BY DEF CL!Judgement, CL!Judged
  <1>4. QED
    BY <1>1, <1>2, <1>3

\* The run of autofix over a judgment: what it does to each file of the start.
LEMMA RunArchives ==
    ASSUME NEW tree, IsFiniteSet(DOMAIN tree), DOMAIN tree \in SUBSET Seq(Int), NEW cache_, NEW raw,
           NEW answer, answer = (IF cache_.status = "ok" THEN cache_ ELSE raw), IsAnswer(answer),
           NEW files, IsFunction(files), IsFiniteSet(DOMAIN files)
    PROVE  LET after == CL!Run(tree, files, cache_, raw)
               judge == CL!Judgement(tree, cache_, raw)
               actions == CL!Actions(judge)
           IN  /\ \A p \in DOMAIN files :
                     \/ p \in DOMAIN after.files
                     \/ /\ Archived(p, files, after)
                        /\ \E i \in DOMAIN judge.judgments : /\ judge.judgments[i].path = p
                                                             /\ judge.judgments[i].decision = "archive_first"
                                                             /\ judge.judgments[i].kind # "source"
               /\ AllDone(after) => \A i \in DOMAIN actions :
                                       actions[i].from \in DOMAIN files => Archived(actions[i].from, files, after)
               /\ \A i \in DOMAIN judge.judgments : IsJudgmentOf(judge.judgments[i], tree, answer)
  <1> DEFINE judge == CL!Judgement(tree, cache_, raw)
             actions == CL!Actions(judge)
             after == CL!Run(tree, files, cache_, raw)
  <1>1. /\ IsFiniteSet(DOMAIN judge.judgments)
        /\ \A i \in DOMAIN judge.judgments : IsJudgmentOf(judge.judgments[i], tree, answer)
    BY Judgments
  <1>2. after = CL!Applied(files, actions)
    BY DEF CL!Run
  <1> HIDE DEF judge, after
  <1>3. PICK n \in Nat : /\ DOMAIN actions = 1..n
                         /\ \A k \in 1..n : \E i \in DOMAIN judge.judgments : IsActionOf(actions[k], judge.judgments[i])
    BY <1>1, ActionElements DEF IsJudgmentOf
  <1> HIDE DEF actions
  <1> DEFINE moves == CL!OnDisk(actions)
  <1>4. PICK c : MovesOf(c, n, files, moves) /\ after = c[n]
    BY <1>2, <1>3, Applications
  <1>9. \A k \in 1..n : moves[k].from = actions[k].from /\ moves[k].to = CL!Place(actions[k].to)
    BY <1>3 DEF CL!OnDisk
  <1>5. ASSUME NEW k \in 1..n PROVE ToArchive(moves[k].to)
    <2>1. actions[k].to \in Seq(Int) /\ CL!ArchiveText(actions[k].to)
      BY <1>3 DEF IsActionOf
    <2>2. moves[k].to = CL!Place(actions[k].to)
      BY <1>9
    <2> HIDE DEF moves
    <2>3. QED
      BY <2>1, <2>2, ArchivePlaces
  <1> HIDE DEF moves
  <1>10. /\ \A p \in DOMAIN files : \/ InPlace(p, files, after)
                                    \/ Archived(p, files, after) /\ \E i \in 1..n : moves[i].from = p
         /\ AllDone(after) => \A i \in 1..n : moves[i].from \in DOMAIN files => Archived(moves[i].from, files, after)
    BY <1>4, <1>5, MovesArchive
  <1>6. /\ \A p \in DOMAIN files : \/ InPlace(p, files, after)
                                   \/ Archived(p, files, after) /\ \E i \in 1..n : actions[i].from = p
        /\ AllDone(after) => \A i \in 1..n : actions[i].from \in DOMAIN files => Archived(actions[i].from, files, after)
    BY <1>9, <1>10
  <1>7. ASSUME NEW p \in DOMAIN files
       PROVE  \/ p \in DOMAIN after.files
              \/ /\ Archived(p, files, after)
                 /\ \E i \in DOMAIN judge.judgments : /\ judge.judgments[i].path = p
                                                      /\ judge.judgments[i].decision = "archive_first"
                                                      /\ judge.judgments[i].kind # "source"
    <2>1. CASE InPlace(p, files, after)
      BY <2>1 DEF InPlace
    <2>2. CASE ~InPlace(p, files, after)
      <3>1. PICK k \in 1..n : actions[k].from = p
        BY <1>6, <2>2
      <3>2. PICK i \in DOMAIN judge.judgments : IsActionOf(actions[k], judge.judgments[i])
        BY <1>3
      <3>3. QED
        BY <1>6, <2>2, <3>1, <3>2 DEF IsActionOf
    <2>3. QED
      BY <2>1, <2>2
  <1>8. QED
    BY <1>1, <1>3, <1>6, <1>7 DEF judge, actions, after

\* Inputs of cleanup: any tree of paths, a disk, and any two answers.
CleanupInput ==
    rule = "cleanup" =>
       /\ IsFunction(x.files) /\ IsFiniteSet(DOMAIN x.files)
       /\ IsFiniteSet(DOMAIN x.tree) /\ DOMAIN x.tree \in SUBSET Seq(Int)
       /\ IsAnswer(x.raw) /\ IsAnswer(x.other)

\* semantic_judge.py and autofix.py: only candidates of the inventory that the answer
\* in use says to archive move, and into the archive, or where there is no such
\* directory to be the file of that name, as a hint of "archive/" has it; an
\* applied plan moved every file it names; a usable answer is kept; of trees,
\* answers and disks of any size.
THEOREM OnlyTheJudgedMove == CleanupInput => MovesFollowTheJudge
  <1> SUFFICES ASSUME CleanupInput, rule = "cleanup"
               PROVE  /\ CL!OnlyJudgedFilesMove(x.tree, x.files, x.other, x.raw)
                      /\ CL!AppliedMeansMoved(x.tree, x.files, CL!NoAnswer, x.raw)
                      /\ CL!GoodAnswersKept(x.tree, x.raw, x.other)
    BY DEF MovesFollowTheJudge
  <1> DEFINE tree == x.tree
             files == x.files
             raw == x.raw
             other == x.other
  <1>1. /\ IsFunction(files) /\ IsFiniteSet(DOMAIN files) /\ IsFiniteSet(DOMAIN tree)
        /\ DOMAIN tree \in SUBSET Seq(Int) /\ IsAnswer(raw) /\ IsAnswer(other)
    BY DEF CleanupInput
  <1> HIDE DEF tree, files, raw, other
  <1>2. CL!OnlyJudgedFilesMove(tree, files, other, raw)
    <2> DEFINE after == CL!Run(tree, files, other, raw)
               judge == CL!Judgement(tree, other, raw)
               answer == IF other.status = "ok" THEN other ELSE raw
    <2>1. IsAnswer(answer)
      BY <1>1
    <2> HIDE DEF answer
    <2>2. answer = (IF other.status = "ok" THEN other ELSE raw)
      BY DEF answer
    <2>3. ASSUME NEW p \in DOMAIN files, p \notin DOMAIN after.files
         PROVE  /\ p \in DOMAIN tree /\ CL!Classify(tree[p]) # "source"
                /\ \E i \in DOMAIN CL!Inventory(tree) : CL!Inventory(tree)[i].path = p
                /\ \E i \in DOMAIN answer.judgments :
                      answer.judgments[i].path = p /\ answer.judgments[i].decision = "archive_first"
                /\ \E q \in DOMAIN after.files : CL!InArchive(q, files) /\ after.files[q].id = files[p].id
      <3>1. /\ Archived(p, files, after)
            /\ \E i \in DOMAIN judge.judgments : /\ judge.judgments[i].path = p
                                                 /\ judge.judgments[i].decision = "archive_first"
                                                 /\ judge.judgments[i].kind # "source"
            /\ \A i \in DOMAIN judge.judgments : IsJudgmentOf(judge.judgments[i], tree, answer)
        BY <1>1, <2>1, <2>2, <2>3, RunArchives
      <3> HIDE DEF judge, after
      <3>2. PICK i \in DOMAIN judge.judgments : /\ judge.judgments[i].path = p
                                                /\ judge.judgments[i].decision = "archive_first"
                                                /\ judge.judgments[i].kind # "source"
                                                /\ IsJudgmentOf(judge.judgments[i], tree, answer)
        BY <3>1
      <3>3. QED
        BY <3>1, <3>2 DEF IsJudgmentOf, Archived
    <2>4. QED
      BY <2>3 DEF CL!OnlyJudgedFilesMove, answer
  <1>3. CL!AppliedMeansMoved(tree, files, CL!NoAnswer, raw)
    <2> DEFINE after == CL!Run(tree, files, CL!NoAnswer, raw)
               judge == CL!Judgement(tree, CL!NoAnswer, raw)
               actions == CL!Actions(judge)
    <2>1. AllDone(after) => \A i \in DOMAIN actions :
             actions[i].from \in DOMAIN files => Archived(actions[i].from, files, after)
      <3>1. raw = (IF CL!NoAnswer.status = "ok" THEN CL!NoAnswer ELSE raw)
        BY DEF CL!NoAnswer
      <3>2. QED
        BY <1>1, <3>1, RunArchives
    <2> HIDE DEF actions, after
    <2>2. CL!PlanStatus(after) = "applied" =>
             "blocked" \notin CL!ToSet(after.done) /\ "skipped" \notin CL!ToSet(after.done)
      BY DEF CL!PlanStatus
    <2>3. QED
      BY <2>1, <2>2 DEF CL!AppliedMeansMoved, AllDone, Archived, after, actions
  <1>4. CL!GoodAnswersKept(tree, raw, other)
    BY DEF CL!GoodAnswersKept, CL!Judged, CL!NoAnswer
  <1>5. QED
    BY <1>2, <1>3, <1>4 DEF tree, files, raw, other

-----------------------------------------------------------------------------
(* The plan diff. *)

\* A path without a bracket matches itself as a pattern.
LEMMA MatchesItself ==
    ASSUME NEW p \in Seq(STRING), p # <<>>, \A i \in DOMAIN p : p[i] \notin DOMAIN ClassOf
    PROVE  PD!PathMatches(p, p)
  <1>1. CASE PD!IsGlob(p)
    <2>1. \A i \in DOMAIN p : PD!SegmentMatches(p[i], p[i])
      BY DEF PD!SegmentMatches
    <2>2. PD!FnMatch(p, p)
      <3> DEFINE at == [i \in DOMAIN p |-> i]
      <3>1. at \in [DOMAIN p -> DOMAIN p] /\ \A i \in DOMAIN p : at[i] = i
        OBVIOUS
      <3> HIDE DEF at
      <3>2. QED
        BY <2>1, <3>1 DEF PD!FnMatch
    <2>3. QED
      BY <1>1, <2>2 DEF PD!PathMatches
  <1>2. CASE ~PD!IsGlob(p)
    <2>1. PD!IsPrefix(p, p)
      <3>1. Len(p) \in Nat
        BY LenProperties
      <3>2. QED
        BY <3>1 DEF PD!IsPrefix
    <2>2. QED
      BY <1>2, <2>1 DEF PD!PathMatches
  <1>3. QED
    BY <1>1, <1>2

\* The concerns of a scan, by what their ids begin with.
PathIds(plan, changed) == PD!UnexpectedChanges(plan, changed) \cup PD!MissingPaths(plan, changed)

LEMMA PathConcerns ==
    ASSUME NEW plan, NEW changed, PD!Literal(PD!Paths(changed)), PD!Paths(changed) \in SUBSET Seq(STRING),
           NEW c \in PathIds(plan, changed), NEW d \in PathIds(plan, changed), c.id = d.id
    PROVE  c = d
  <1>1. ASSUME NEW e \in PD!UnexpectedChanges(plan, changed)
       PROVE  \E p : /\ e = PD!Concern("unexpected_changed_file", <<"path", p>>, p) /\ p \in PD!Paths(changed)
                     /\ \A q \in PD!Planned(plan) : ~PD!PathMatches(p, q)
    BY DEF PD!UnexpectedChanges
  <1>2. ASSUME NEW e \in PD!MissingPaths(plan, changed)
       PROVE  \E p : /\ e = PD!Concern("planned_path_not_changed", <<"path", p>>, p) /\ p \in PD!Planned(plan)
    BY DEF PD!MissingPaths, PD!Untouched
  <1>3. ASSUME NEW p \in PD!Paths(changed), p \in PD!Planned(plan) PROVE PD!PathMatches(p, p)
    BY <1>3, MatchesItself DEF PD!Planned, PD!Literal
  <1>4. \A e \in PathIds(plan, changed) :
           \E p : \/ /\ e = PD!Concern("unexpected_changed_file", <<"path", p>>, p) /\ p \in PD!Paths(changed)
                     /\ \A q \in PD!Planned(plan) : ~PD!PathMatches(p, q)
                  \/ /\ e = PD!Concern("planned_path_not_changed", <<"path", p>>, p) /\ p \in PD!Planned(plan)
    BY <1>1, <1>2 DEF PathIds
  <1>5. PICK p : \/ /\ c = PD!Concern("unexpected_changed_file", <<"path", p>>, p) /\ p \in PD!Paths(changed)
                    /\ \A q \in PD!Planned(plan) : ~PD!PathMatches(p, q)
                 \/ /\ c = PD!Concern("planned_path_not_changed", <<"path", p>>, p) /\ p \in PD!Planned(plan)
    BY <1>4
  <1>6. PICK q : \/ /\ d = PD!Concern("unexpected_changed_file", <<"path", q>>, q) /\ q \in PD!Paths(changed)
                    /\ \A r \in PD!Planned(plan) : ~PD!PathMatches(q, r)
                 \/ /\ d = PD!Concern("planned_path_not_changed", <<"path", q>>, q) /\ q \in PD!Planned(plan)
    BY <1>4
  <1>7. p = q
    BY <1>5, <1>6 DEF PD!Concern
  <1>8. QED
    BY <1>3, <1>5, <1>6, <1>7

\* The other concerns, each with its id.
OfKind(plan, changed, root, c) ==
    \/ c \in PathIds(plan, changed)
    \/ \E p : c = PD!Concern("planned_test_not_observed", <<"test", p>>, p)
    \/ \E p : c = PD!Concern("planned_public_api_migration_not_observed", <<"migration", p>>, p)
    \/ \E e : c = PD!Concern("planned_import_not_observed", <<"import", e>>, e.source)
    \/ \E e, o : /\ o \in {"planned_intent_terms_not_observed", "planned_intent_conflict_observed"}
                 /\ c = PD!Concern(o, <<o, e>>, e.source)

LEMMA KindsOfConcerns ==
    ASSUME NEW plan, NEW changed, NEW root, NEW c \in PD!Scan(plan, changed, root)
    PROVE  OfKind(plan, changed, root, c)
  <1>1. c \in UNION {PD!UnexpectedChanges(plan, changed), PD!MissingPaths(plan, changed),
                     PD!MissingImports(plan, changed, root), PD!MissingTests(plan, changed),
                     PD!MissingMigrations(plan, changed), PD!IntentConcerns(plan, changed, root)}
    BY DEF PD!Scan
  <1>2. CASE c \in PD!UnexpectedChanges(plan, changed) \/ c \in PD!MissingPaths(plan, changed)
    BY <1>2 DEF OfKind, PathIds
  <1>3. CASE c \in PD!MissingImports(plan, changed, root)
    BY <1>3 DEF OfKind, PD!MissingImports
  <1>4. CASE c \in PD!MissingTests(plan, changed)
    BY <1>4 DEF OfKind, PD!MissingTests
  <1>5. CASE c \in PD!MissingMigrations(plan, changed)
    BY <1>5 DEF OfKind, PD!MissingMigrations
  <1>6. CASE c \in PD!IntentConcerns(plan, changed, root)
    <2>1. PICK e, o : o \in PD!IntentResult(e, changed) \ {"observed"} /\ c = PD!Concern(o, <<o, e>>, e.source)
      BY <1>6 DEF PD!IntentConcerns
    <2>2. PD!IntentResult(e, changed) \in
             SUBSET {"observed", "planned_intent_terms_not_observed", "planned_intent_conflict_observed"}
      BY DEF PD!IntentResult
    <2>3. QED
      BY <2>1, <2>2 DEF OfKind
  <1>7. QED
    BY <1>1, <1>2, <1>3, <1>4, <1>5, <1>6

LEMMA IdsDiffer ==
    ASSUME NEW plan, NEW changed, NEW root, PD!Paths(changed) \in SUBSET Seq(STRING)
    PROVE  PD!ConcernsIdentified(plan, changed, root)
  <1> SUFFICES ASSUME PD!Literal(PD!Paths(changed)), NEW c \in PD!Scan(plan, changed, root),
                      NEW d \in PD!Scan(plan, changed, root), c.id = d.id
               PROVE  c = d
    BY DEF PD!ConcernsIdentified
  <1>1. OfKind(plan, changed, root, c) /\ OfKind(plan, changed, root, d)
    BY KindsOfConcerns
  <1>2. \A e \in PathIds(plan, changed) : \E p : e.id = <<"path", p>>
    BY DEF PathIds, PD!UnexpectedChanges, PD!MissingPaths, PD!Concern
  <1>3. CASE c \in PathIds(plan, changed) /\ d \in PathIds(plan, changed)
    BY <1>3, PathConcerns
  <1>4. CASE c \notin PathIds(plan, changed) \/ d \notin PathIds(plan, changed)
    BY <1>1, <1>2, <1>4 DEF OfKind, PD!Concern
  <1>5. QED
    BY <1>3, <1>4

LEMMA ChangesMissLess ==
    ASSUME NEW plan, NEW changed, NEW more, NEW root
    PROVE  PD!MoreChangesMissLess(plan, changed, more, root)
  <1> DEFINE all == changed \cup more
             first == PD!Scan(plan, changed, root)
             second == PD!Scan(plan, all, root)
             sets == {PD!UnexpectedChanges(plan, all), PD!MissingPaths(plan, all),
                      PD!MissingImports(plan, all, root), PD!MissingTests(plan, all),
                      PD!MissingMigrations(plan, all), PD!IntentConcerns(plan, all, root)}
             kinds == {"planned_path_not_changed", "planned_test_not_observed",
                       "planned_public_api_migration_not_observed"}
  <1>1. \A patterns : PD!Untouched(patterns, all) \subseteq PD!Untouched(patterns, changed)
    BY DEF PD!Untouched
  <1>2. ASSUME NEW c \in second
       PROVE  /\ ~PD!NamesNothing(plan)
              /\ c \in PathIds(plan, all) \/ c \in PD!MissingTests(plan, all) \/ c \in PD!MissingMigrations(plan, all)
                   \/ c.observation \notin kinds \cup {"unexpected_changed_file"}
    <2>1. ~PD!NamesNothing(plan) /\ c \in UNION sets
      BY DEF PD!Scan
    <2>2. ASSUME c \in PD!MissingImports(plan, all, root) PROVE c.observation = "planned_import_not_observed"
      BY <2>2 DEF PD!MissingImports, PD!Concern
    <2>3. ASSUME c \in PD!IntentConcerns(plan, all, root)
         PROVE  c.observation \in {"planned_intent_terms_not_observed", "planned_intent_conflict_observed"}
      <3>1. PICK e, o : o \in PD!IntentResult(e, all) \ {"observed"} /\ c = PD!Concern(o, <<o, e>>, e.source)
        BY <2>3 DEF PD!IntentConcerns
      <3>2. PD!IntentResult(e, all) \in
               SUBSET {"observed", "planned_intent_terms_not_observed", "planned_intent_conflict_observed"}
        BY DEF PD!IntentResult
      <3>3. QED
        BY <3>1, <3>2 DEF PD!Concern
    <2>4. QED
      BY <2>1, <2>2, <2>3 DEF PathIds
  <1>3. ASSUME NEW c \in second, c.observation \in kinds PROVE c \in first
    <2>1. c \notin PD!UnexpectedChanges(plan, all)
      BY <1>3 DEF PD!UnexpectedChanges, PD!Concern
    <2>2. c \in PD!MissingPaths(plan, all) \/ c \in PD!MissingTests(plan, all) \/ c \in PD!MissingMigrations(plan, all)
      BY <1>2, <1>3, <2>1 DEF PathIds
    <2>3. c \in PD!MissingPaths(plan, changed) \/ c \in PD!MissingTests(plan, changed)
             \/ c \in PD!MissingMigrations(plan, changed)
      BY <1>1, <2>2 DEF PD!MissingPaths, PD!MissingTests, PD!MissingMigrations
    <2>4. QED
      BY <1>2, <2>3 DEF PD!Scan
  <1>4. ASSUME NEW c \in second, c.observation = "unexpected_changed_file", c.at \in PD!Paths(changed)
       PROVE  c \in first
    <2>1. c \in PD!UnexpectedChanges(plan, all)
      <3>1. c \notin PD!MissingPaths(plan, all) /\ c \notin PD!MissingTests(plan, all)
              /\ c \notin PD!MissingMigrations(plan, all)
        BY <1>4 DEF PD!MissingPaths, PD!MissingTests, PD!MissingMigrations, PD!Concern
      <3>2. QED
        BY <1>2, <1>4, <3>1 DEF PathIds
    <2>2. c \in PD!UnexpectedChanges(plan, changed)
      BY <1>4, <2>1 DEF PD!UnexpectedChanges, PD!Concern
    <2>3. QED
      BY <1>2, <2>2 DEF PD!Scan
  <1>5. QED
    BY <1>3, <1>4 DEF PD!MoreChangesMissLess

LEMMA ImportsAreFound ==
    ASSUME NEW plan, NEW changed,
           \A f \in changed : \A s \in f.statements : s.module \in Seq(STRING),
           \A e \in PD!ImportExpectations(plan) : e.modules \in SUBSET (Seq(STRING) \ {<<>>})
    PROVE  PD!ImportsResolve(plan, changed)
  <1> SUFFICES ASSUME NEW e \in PD!ImportExpectations(plan), NEW f \in PD!Scoped(changed, e.source),
                      f.kind = "python", NEW s \in f.statements, s.from, s.level = 0,
                      NEW p \in e.modules, ~PD!IsGlob(p), PD!IsPrefix(p, s.module)
               PROVE  PD!ImportResult(e, changed) = "observed"
    BY DEF PD!ImportsResolve
  <1> DEFINE m == s.module
             scoped == PD!Scoped({g \in changed : g.kind \in {"python", "broken"}}, e.source)
  <1>1. f \in changed /\ f \in scoped
    BY DEF PD!Scoped
  <1>2. p \in Seq(STRING) /\ p # <<>> /\ m \in Seq(STRING)
    BY <1>1
  <1>3. m # <<>>
    <2>1. Len(p) <= Len(m)
      BY DEF PD!IsPrefix
    <2>2. Len(p) \in Nat /\ Len(p) # 0
      BY <1>2, EmptySeq, LenProperties
    <2>3. m = <<>> => Len(m) = 0
      OBVIOUS
    <2>4. QED
      BY <2>1, <2>2, <2>3
  <1>4. m \in PD!ImportRecords(f)
    <2> DEFINE n(t) == IF t.level > 0 THEN PD!Resolved(f, t) ELSE t.module
               Of(t) == IF ~t.from THEN t.names
                        ELSE IF n(t) = <<>> THEN {} ELSE {n(t)} \cup {n(t) \o k : k \in t.names \ {<<"*">>}}
    <2>1. n(s) = m
      <3>1. ~(0 > 0)
        OBVIOUS
      <3>2. QED
        BY <3>1
    <2>2. m \in Of(s)
      BY <1>3, <2>1
    <2>3. PD!ImportRecords(f) = UNION {Of(t) : t \in f.statements}
      <3>1. f.kind # "broken"
        OBVIOUS
      <3>2. QED
        BY <3>1, Zenon DEF PD!ImportRecords
    <2> HIDE DEF Of
    <2>4. QED
      BY <2>2, <2>3
  <1>5. PD!ModuleMatches(m, p)
    BY <1>2, <1>3 DEF PD!ModuleMatches
  <1>6. QED
    BY <1>1, <1>4, <1>5 DEF PD!ImportResult

\* Plans that name no module by nothing; names are sequences of segments.
ModuleKeys == {"imports", "modules", "module", "import", "target", "dependency", "any_of", "alternatives",
               "alternative_imports"}

PlanInput ==
    rule = "plan" =>
       /\ PD!Paths(x.changed) \in SUBSET Seq(STRING)
       /\ \A f \in x.changed : \A s \in f.statements : s.module \in Seq(STRING)
       /\ \A i \in x.plan.dependencies : \A k \in DOMAIN i \cap ModuleKeys : i[k] \in SUBSET (Seq(STRING) \ {<<>>})

\* plan_diff_consistency.py: ids tell concerns apart, more changes miss less, and an
\* import below a planned module is never missing; of plans and changes of any size.
THEOREM PlansAreCompared == PlanInput => PlanGaps
  <1> SUFFICES ASSUME PlanInput, rule = "plan"
               PROVE  /\ PD!ConcernsIdentified(x.plan, x.changed, x.root)
                      /\ PD!MoreChangesMissLess(x.plan, x.changed, x.more, x.root)
                      /\ PD!ImportsResolve(x.plan, x.changed)
    BY DEF PlanGaps
  <1>1. PD!ConcernsIdentified(x.plan, x.changed, x.root)
    BY IdsDiffer DEF PlanInput
  <1>2. PD!MoreChangesMissLess(x.plan, x.changed, x.more, x.root)
    BY ChangesMissLess
  <1>3. ASSUME NEW e \in PD!ImportExpectations(x.plan)
       PROVE  e.modules \in SUBSET (Seq(STRING) \ {<<>>})
    <2> DEFINE G == Seq(STRING) \ {<<>>}
    <2> HIDE DEF G
    <2>1. ASSUME NEW i \in x.plan.dependencies, NEW keys \in SUBSET ModuleKeys
         PROVE  PD!AllOf(i, keys) \in SUBSET G
      <3>1. \A k \in keys \cap DOMAIN i : i[k] \in SUBSET G
        BY DEF PlanInput, G
      <3>2. QED
        BY <3>1 DEF PD!AllOf
    <2>2. \A i \in x.plan.dependencies :
             /\ PD!AllOf(i, {"imports", "modules", "module", "import", "target", "dependency"}) \in SUBSET G
             /\ PD!AllOf(i, {"any_of", "alternatives", "alternative_imports"}) \in SUBSET G
      BY <2>1 DEF ModuleKeys
    <2>3. e.modules \in SUBSET G
      BY <2>2 DEF PD!ImportExpectations
    <2>4. QED
      BY <2>3 DEF G
  <1>4. PD!ImportsResolve(x.plan, x.changed)
    BY <1>3, ImportsAreFound DEF PlanInput
  <1>5. QED
    BY <1>1, <1>2, <1>4

-----------------------------------------------------------------------------
(* The sections of the rules file. *)

\* Sections of the rules file, however many entries they have.
IsSection(raw) ==
    /\ raw \in [paths : {raw.paths}, globs : {raw.globs}, extensions : {raw.extensions},
                metadata : {raw.metadata}, contracts : {raw.contracts}]
    /\ IsFiniteSet(DOMAIN raw.metadata) /\ IsFiniteSet(DOMAIN raw.contracts)

\* The contracts and the metadata that are read are lists.
LEMMA SectionLists ==
    ASSUME NEW raw, IsSection(raw)
    PROVE  LET S == CO!SectionRules(raw)
           IN  /\ S.paths = raw.paths /\ S.globs = raw.globs /\ S.extensions = raw.extensions
               /\ \E n \in Nat : S.contracts = [i \in 1..n |-> S.contracts[i]]
               /\ \E n \in Nat : S.metadata = [i \in 1..n |-> S.metadata[i]]
  <1> DEFINE S == CO!SectionRules(raw)
             C == CO!ContractRules(raw.contracts)
             M == CO!MetadataRules(raw.metadata)
  <1>1. \A s, P : CO!Picked(s, P) = [k \in 1..Cardinality(P) |-> CO!Picked(s, P)[k]]
    <2>1. \A s, P : CO!Picked(s, P) = [k \in 1..CO!Cardinality(P) |-> CO!Picked(s, P)[k]]
      BY DEF CO!Picked
    <2>2. QED
      BY <2>1, SameCardinality2
  <1>2. \E n \in Nat : C = [i \in 1..n |-> C[i]]
    <2> DEFINE P == {i \in DOMAIN raw.contracts : raw.contracts[i].source # <<>> /\ raw.contracts[i].imports # {}}
               s == [i \in DOMAIN raw.contracts |->
                        [raw.contracts[i] EXCEPT !.id = IF @ = 0 THEN -i ELSE @]]
    <2>1. C = CO!Picked(s, P)
      BY Zenon DEF CO!ContractRules
    <2>2. Cardinality(P) \in Nat
      BY FS_Subset, FS_CardinalityType DEF IsSection
    <2> HIDE DEF s, P, C
    <2>3. QED
      BY <1>1, <2>1, <2>2
  <1>3. \E n \in Nat : M = [i \in 1..n |-> M[i]]
    <2> DEFINE P == {i \in DOMAIN raw.metadata :
                       /\ raw.metadata[i].path # <<>> \/ raw.metadata[i].glob # <<>>
                       /\ raw.metadata[i].owner # "" \/ raw.metadata[i].expires # 0}
    <2>1. M = CO!Picked(raw.metadata, P)
      BY Zenon DEF CO!MetadataRules
    <2>2. Cardinality(P) \in Nat
      BY FS_Subset, FS_CardinalityType DEF IsSection
    <2> HIDE DEF P, M
    <2>3. QED
      BY <1>1, <2>1, <2>2
  <1> HIDE DEF C, M
  <1>4. S = [raw EXCEPT !.metadata = M, !.contracts = C]
    BY DEF CO!SectionRules, C, M
  <1>5. /\ S.paths = raw.paths /\ S.globs = raw.globs /\ S.extensions = raw.extensions
        /\ S.contracts = C /\ S.metadata = M
    <2> HIDE DEF S
    <2>1. QED
      BY <1>4 DEF IsSection
  <1> HIDE DEF S
  <1>6. QED
    BY <1>2, <1>3, <1>5 DEF S

\* What one list has is in the front of the two.
LEMMA FrontOfConcat ==
    ASSUME NEW m \in Nat, NEW a, a = [i \in 1..m |-> a[i]], NEW n \in Nat, NEW b, b = [i \in 1..n |-> b[i]]
    PROVE  /\ DOMAIN (a \o b) = 1..(m + n)
           /\ \A i \in 1..m : (a \o b)[i] = a[i]
           /\ \A i \in 1..n : (a \o b)[m + i] = b[i]
  <1> DEFINE T == {a[i] : i \in 1..m} \cup {b[i] : i \in 1..n}
  <1>0. a \in [1..m -> T] /\ b \in [1..n -> T]
    <2>1. \A i \in 1..m : a[i] \in T
      OBVIOUS
    <2>2. \A i \in 1..n : b[i] \in T
      OBVIOUS
    <2> HIDE DEF T
    <2>3. QED
      BY <2>1, <2>2
  <1> HIDE DEF T
  <1>1. a \in Seq(T) /\ b \in Seq(T) /\ Len(a) = m /\ Len(b) = n
    <2>1. a \in Seq(T) /\ b \in Seq(T)
      BY <1>0, SeqDef
    <2>2. DOMAIN a = 1..m /\ DOMAIN b = 1..n
      BY <1>0
    <2>3. QED
      BY <2>1, <2>2, LenProperties
  <1>2. a \o b \in Seq(T) /\ Len(a \o b) = m + n
    BY <1>1, ConcatProperties
  <1>3. DOMAIN (a \o b) = 1..(m + n)
    BY <1>2, LenProperties
  <1>4. \A i \in 1..(m + n) : (a \o b)[i] = IF i <= m THEN a[i] ELSE b[i - m]
    BY <1>1, ConcatProperties
  <1>5. ASSUME NEW i \in 1..n PROVE (a \o b)[m + i] = b[i]
    <2>1. m + i \in 1..(m + n) /\ ~(m + i <= m) /\ (m + i) - m = i
      OBVIOUS
    <2>2. QED
      BY <1>4, <2>1
  <1>6. \A i \in 1..m : (a \o b)[i] = a[i]
    BY <1>4
  <1>7. QED
    BY <1>3, <1>5, <1>6

\* architecture_contracts.py over both sections.
LEMMA SharedStand ==
    ASSUME NEW shared, NEW mine, IsSection(shared), IsSection(mine), NEW changed
    PROVE  CO!SharedContractsStand(shared, mine, changed)
  <1> DEFINE S == CO!SectionRules(shared)
             O == CO!SectionRules(mine)
             B == CO!Rules(shared, mine)
             hidden == {f.path : f \in {g \in changed : CO!Ignored(g.path, g.extension, O)}}
  <1>1. PICK m \in Nat : S.contracts = [i \in 1..m |-> S.contracts[i]]
    BY SectionLists
  <1>2. PICK n \in Nat : O.contracts = [i \in 1..n |-> O.contracts[i]]
    BY SectionLists
  <1>3. /\ B.paths = S.paths \cup O.paths /\ B.globs = S.globs \cup O.globs
        /\ B.extensions = S.extensions \cup O.extensions /\ B.contracts = S.contracts \o O.contracts
    BY DEF CO!Rules, CO!MergeSections
  <1> HIDE DEF S, O, B
  <1>4. DOMAIN S.contracts = 1..m /\ \A i \in 1..m : i \in DOMAIN B.contracts /\ B.contracts[i] = S.contracts[i]
    <2>1. 1..m \in SUBSET (1..(m + n))
      OBVIOUS
    <2>2. QED
      BY <1>1, <1>2, <1>3, <2>1, FrontOfConcat
  <1>5. ASSUME NEW c \in CO!Concerns(changed, S), c.path \notin hidden PROVE c \in CO!Concerns(changed, B)
    <2>1. PICK f \in changed : CO!Checked(f, S) /\ f.kind # "unreadable" /\ c \in CO!FileConcerns(f, S.contracts)
      BY DEF CO!Concerns
    <2>2. c.path = f.path
      <3>1. PICK s \in f.statements, i \in DOMAIN S.contracts : c \in CO!Breaches(f, s, S.contracts[i])
        BY <2>1 DEF CO!FileConcerns
      <3>2. QED
        BY <3>1 DEF CO!Breaches
    <2>3. ~CO!Ignored(f.path, f.extension, O)
      BY <1>5, <2>2
    <2>4. CO!Checked(f, B)
      BY <1>3, <2>1, <2>3 DEF CO!Checked, CO!Ignored
    <2>5. c \in CO!FileConcerns(f, B.contracts)
      BY <1>4, <2>1 DEF CO!FileConcerns
    <2>6. QED
      BY <2>1, <2>4, <2>5 DEF CO!Concerns
  <1>6. QED
    BY <1>5 DEF CO!SharedContractsStand, S, O, B

LEMMA NoMetadataFields == CO!NoMetadata.owner = "" /\ CO!NoMetadata.expires = 0 /\ CO!NoMetadata.expired = FALSE
  BY DEF CO!NoMetadata

\* A rule over what was said before it, by fields.
HasFields(w, r, v, now) ==
    /\ w.owner = IF r.owner # "" THEN r.owner ELSE v.owner
    /\ w.expires = IF r.expires # 0 THEN r.expires ELSE v.expires
    /\ r.expires # 0 /\ r.expires < now => w.expired = TRUE
    /\ r.expires # 0 /\ ~(r.expires < now) => w.expired = FALSE
    /\ r.expires = 0 => w.expired = v.expired
    /\ w = [owner |-> w.owner, expires |-> w.expires, expired |-> w.expired]

LEMMA LayeredFields ==
    ASSUME NEW r, NEW v, NEW now, NEW w, w = CO!Layered(r, v, now)
    PROVE  HasFields(w, r, v, now)
  <1> DEFINE owner == IF r.owner # "" THEN r.owner ELSE v.owner
             expires == IF r.expires # 0 THEN r.expires ELSE v.expires
             expired == IF r.expires # 0 THEN r.expires < now ELSE v.expired
  <1>1. w = [owner |-> owner, expires |-> expires, expired |-> expired]
    BY Zenon DEF CO!Layered
  <1>2. /\ r.expires # 0 /\ r.expires < now => expired = TRUE
        /\ r.expires # 0 /\ ~(r.expires < now) => expired = FALSE
        /\ r.expires = 0 => expired = v.expired
    BY SMT
  <1> HIDE DEF owner, expires, expired
  <1>3. w.owner = owner /\ w.expires = expires /\ w.expired = expired
    BY <1>1
  <1>4. w = [owner |-> w.owner, expires |-> w.expires, expired |-> w.expired]
    BY <1>1, <1>3
  <1>5. QED
    BY <1>2, <1>3, <1>4 DEF owner, expires, HasFields

\* One rule of the metadata over what the rules before it say.
Layer(v, r, path, kind, now) == IF CO!MetadataMatches(r, path, kind) THEN CO!Layered(r, v, now) ELSE v

LayersOf(c, n, s, path, kind, now) ==
    /\ c[0] = CO!NoMetadata
    /\ \A k \in 1..n : c[k] = Layer(c[k - 1], s[k], path, kind, now)

LEMMA LayersOneByOne ==
    ASSUME NEW n \in Nat, NEW rules, DOMAIN rules.metadata = 1..n, NEW path, NEW kind, NEW now \in Int,
           \A i \in 1..n : rules.metadata[i].expires \in Int
    PROVE  \E c : /\ LayersOf(c, n, rules.metadata, path, kind, now)
                  /\ CO!Metadata(path, kind, rules, now) = c[n]
  <1> DEFINE s == rules.metadata
             V == [owner : {""} \cup {s[i].owner : i \in 1..n}, expires : Int, expired : BOOLEAN]
             base == CO!NoMetadata
             L(v, r) == Layer(v, r, path, kind, now)
             step == [p \in V \X (1..n) |-> L(p[1], s[p[2]])]
             Iterates(h) == h = [T \in SUBSET DOMAIN s |->
                                   IF T = {} THEN base ELSE L(h[T \ {CO!Max(T)}], s[CO!Max(T)])]
             h == CHOOSE h : Iterates(h)
  <1>1. CO!Metadata(path, kind, rules, now) = h[1..n]
    <2> HIDE DEF base
    <2>1. CO!Metadata(path, kind, rules, now) = CO!FoldLeft(L, base, s)
      BY DEF CO!Metadata, base, Layer
    <2>2. CO!FoldLeft(L, base, s) = h[DOMAIN s]
      BY DEF CO!FoldLeft, CO!MapThenFoldSet
    <2>3. QED
      BY <2>1, <2>2
  <1>2. base \in V
    BY DEF CO!NoMetadata
  <1>3. \A v \in V, i \in 1..n : step[<<v, i>>] = L(v, s[i]) /\ step[<<v, i>>] \in V
    <2>1. ASSUME NEW v \in V, NEW i \in 1..n PROVE L(v, s[i]) \in V
      <3>1. s[i].owner \in {s[j].owner : j \in 1..n} /\ s[i].expires \in Int
        OBVIOUS
      <3> DEFINE w == CO!Layered(s[i], v, now)
      <3>3. w = CO!Layered(s[i], v, now)
        OBVIOUS
      <3> HIDE DEF w
      <3>2. HasFields(w, s[i], v, now)
        BY <3>3, LayeredFields
      <3>4. w.expired \in BOOLEAN
        <4>1. v.expired \in BOOLEAN
          OBVIOUS
        <4>2. TRUE \in BOOLEAN /\ FALSE \in BOOLEAN
          OBVIOUS
        <4> HIDE DEF V, s
        <4>3. QED
          BY <3>2, <4>1, <4>2 DEF HasFields
      <3>5. w.owner \in {""} \cup {s[j].owner : j \in 1..n} /\ w.expires \in Int
        <4>1. v.owner \in {""} \cup {s[j].owner : j \in 1..n} /\ v.expires \in Int
          OBVIOUS
        <4> HIDE DEF V, s
        <4>2. QED
          BY <3>1, <3>2, <4>1 DEF HasFields
      <3>6. w \in V
        BY <3>2, <3>4, <3>5 DEF HasFields
      <3>7. QED
        BY <3>6 DEF Layer, w
    <2> HIDE DEF V
    <2>2. QED
      BY <2>1
  <1>4. PICK g : IsFold(g, n, base, step)
    BY FoldExists
  <1> HIDE DEF step, V, base, L
  <1>5. \A T \in SUBSET (1..n) : g[T] \in V
    BY <1>2, <1>3, <1>4, FoldType
  <1>6. Iterates(g)
    <2>1. ASSUME NEW T \in SUBSET (1..n), T # {}
         PROVE  step[<<g[T \ {Max(T)}], Max(T)>>] = L(g[T \ {CO!Max(T)}], s[CO!Max(T)])
      <3>1. Max(T) \in 1..n /\ CO!Max(T) = Max(T)
        BY <2>1, MaxIsIn, SameMax2
      <3>2. QED
        BY <1>3, <1>5, <3>1
    <2>2. QED
      BY <1>4, <2>1 DEF IsFold
  <1>7. Iterates(h)
    BY <1>6
  <1> HIDE DEF h
  <1> DEFINE c == [m \in 0..n |-> h[1..m]]
  <1>8. c[0] = base
    BY <1>7
  <1>9. ASSUME NEW m \in 1..n PROVE c[m] = L(c[m - 1], s[m])
    <2>1. 1..m \in SUBSET (1..n) /\ 1..m # {} /\ (1..m) \ {m} = 1..(m - 1) /\ CO!Max(1..m) = m
      BY PrefixPlaces, SameMax2
    <2>2. h[1..m] = L(h[(1..m) \ {CO!Max(1..m)}], s[CO!Max(1..m)])
      BY <1>7, <2>1
    <2>3. h[1..m] = L(h[1..(m - 1)], s[m])
      BY <2>1, <2>2
    <2>4. c[m] = h[1..m] /\ c[m - 1] = h[1..(m - 1)]
      OBVIOUS
    <2> HIDE DEF c
    <2>5. QED
      BY <2>3, <2>4
  <1>10. LayersOf(c, n, s, path, kind, now)
    <2> HIDE DEF c
    <2>1. QED
      BY <1>8, <1>9 DEF LayersOf, base, L
  <1>11. CO!Metadata(path, kind, rules, now) = c[n]
    BY <1>1
  <1>12. QED
    BY <1>10, <1>11

\* What expired is told of the date that is shown.
Dated(v, now) ==
    /\ v.expires # 0 /\ v.expires < now => v.expired = TRUE
    /\ ~(v.expires # 0 /\ v.expires < now) => v.expired = FALSE

LEMMA LayerIsDated ==
    ASSUME NEW v, NEW r, NEW path, NEW kind, NEW now, Dated(v, now)
    PROVE  Dated(Layer(v, r, path, kind, now), now)
  <1> DEFINE w == CO!Layered(r, v, now)
  <1>1. w = CO!Layered(r, v, now)
    OBVIOUS
  <1> HIDE DEF w
  <1>2. HasFields(w, r, v, now)
    BY <1>1, LayeredFields
  <1>3. Dated(w, now)
    BY <1>2 DEF HasFields, Dated
  <1>4. QED
    BY <1>3, Zenon DEF Layer, w

LEMMA LayersAreDated ==
    ASSUME NEW n \in Nat, NEW s, NEW path, NEW kind, NEW now, NEW c, LayersOf(c, n, s, path, kind, now)
    PROVE  \A k \in 0..n : Dated(c[k], now)
  <1> DEFINE G == {k \in Nat : k <= n => Dated(c[k], now)}
  <1>1. 0 \in G
    <2>1. Dated(CO!NoMetadata, now)
      <3>1. ~(0 # 0)
        OBVIOUS
      <3>2. QED
        BY <3>1, NoMetadataFields, Zenon DEF Dated
    <2>2. QED
      BY <2>1 DEF LayersOf
  <1>2. ASSUME NEW k \in G PROVE k + 1 \in G
    <2>1. ASSUME k + 1 <= n PROVE Dated(c[k + 1], now)
      <3>1. Dated(c[k], now) /\ k + 1 \in 1..n /\ (k + 1) - 1 = k
        BY <2>1
      <3>2. c[k + 1] = Layer(c[k], s[k + 1], path, kind, now)
        BY <3>1 DEF LayersOf
      <3>3. QED
        BY <3>1, <3>2, LayerIsDated
    <2>2. QED
      BY <2>1
  <1>3. G = Nat
    <2> HIDE DEF G
    <2>1. G \in SUBSET Nat
      BY DEF G
    <2>2. QED
      BY <1>1, <1>2, <2>1, SetInduction
  <1>4. QED
    BY <1>3

\* The rules of a list after another one decide over it, field by field.
Over(v, mine, theirs) ==
    /\ v.owner = IF mine.owner # "" THEN mine.owner ELSE theirs.owner
    /\ v.expires = IF mine.expires # 0 THEN mine.expires ELSE theirs.expires

LEMMA LayerOver ==
    ASSUME NEW v, NEW mine, NEW theirs, Over(v, mine, theirs), NEW r, NEW path, NEW kind, NEW now
    PROVE  Over(Layer(v, r, path, kind, now), Layer(mine, r, path, kind, now), theirs)
  <1> DEFINE w == CO!Layered(r, v, now)
             u == CO!Layered(r, mine, now)
  <1>1. w = CO!Layered(r, v, now) /\ u = CO!Layered(r, mine, now)
    OBVIOUS
  <1> HIDE DEF w, u
  <1>2. HasFields(w, r, v, now) /\ HasFields(u, r, mine, now)
    BY <1>1, LayeredFields
  <1>3. Over(w, u, theirs)
    BY <1>2 DEF HasFields, Over
  <1>4. QED
    BY <1>3, Zenon DEF Layer, w, u

LEMMA LayersOver ==
    ASSUME NEW m \in Nat, NEW n \in Nat, NEW a, NEW b, NEW ab, NEW path, NEW kind, NEW now,
           \A i \in 1..m : ab[i] = a[i], \A i \in 1..n : ab[m + i] = b[i],
           NEW c, LayersOf(c, m, a, path, kind, now), NEW d, LayersOf(d, n, b, path, kind, now),
           NEW e, LayersOf(e, m + n, ab, path, kind, now)
    PROVE  Over(e[m + n], d[n], c[m])
  <1> DEFINE G == {k \in Nat : k <= m => e[k] = c[k]}
             H == {k \in Nat : k <= n => Over(e[m + k], d[k], c[m])}
  <1>1. e[m] = c[m]
    <2>1. 0 \in G
      BY DEF LayersOf
    <2>2. ASSUME NEW k \in G PROVE k + 1 \in G
      <3>1. ASSUME k + 1 <= m PROVE e[k + 1] = c[k + 1]
        <4>1. e[k] = c[k] /\ k + 1 \in 1..m /\ k + 1 \in 1..(m + n) /\ (k + 1) - 1 = k
          BY <3>1
        <4>2. QED
          BY <4>1 DEF LayersOf
      <3>2. QED
        BY <3>1
    <2>3. G = Nat
      <3> HIDE DEF G
      <3>1. G \in SUBSET Nat
        BY DEF G
      <3>2. QED
        BY <2>1, <2>2, <3>1, SetInduction
    <2>4. QED
      BY <2>3
  <1>2. 0 \in H
    <2>1. d[0] = CO!NoMetadata /\ e[m + 0] = c[m]
      BY <1>1 DEF LayersOf
    <2>2. QED
      BY <2>1, NoMetadataFields DEF Over
  <1>3. ASSUME NEW k \in H PROVE k + 1 \in H
    <2>1. ASSUME k + 1 <= n PROVE Over(e[m + (k + 1)], d[k + 1], c[m])
      <3>1. Over(e[m + k], d[k], c[m]) /\ k + 1 \in 1..n /\ (k + 1) - 1 = k
            /\ m + (k + 1) \in 1..(m + n) /\ (m + (k + 1)) - 1 = m + k
        BY <2>1
      <3> HIDE DEF H
      <3>2. d[k + 1] = Layer(d[k], b[k + 1], path, kind, now)
        BY <3>1 DEF LayersOf
      <3>3. e[m + (k + 1)] = Layer(e[m + k], b[k + 1], path, kind, now)
        BY <3>1 DEF LayersOf
      <3>4. QED
        BY <3>1, <3>2, <3>3, LayerOver
    <2>2. QED
      BY <2>1
  <1>4. H = Nat
    <2> HIDE DEF H
    <2>1. H \in SUBSET Nat
      BY DEF H
    <2>2. QED
      BY <1>2, <1>3, <2>1, SetInduction
  <1>5. QED
    BY <1>4

\* The rules of a section are entries of it.
LEMMA MetadataElements ==
    ASSUME NEW raw, IsSection(raw), DOMAIN raw.metadata \in SUBSET Int,
           NEW i \in DOMAIN CO!SectionRules(raw).metadata
    PROVE  \E j \in DOMAIN raw.metadata : CO!SectionRules(raw).metadata[i] = raw.metadata[j]
  <1> DEFINE M == CO!MetadataRules(raw.metadata)
             P == {k \in DOMAIN raw.metadata :
                     /\ raw.metadata[k].path # <<>> \/ raw.metadata[k].glob # <<>>
                     /\ raw.metadata[k].owner # "" \/ raw.metadata[k].expires # 0}
             place(k) == CHOOSE p \in P : CO!Cardinality({q \in P : q <= p}) = k
  <1>1. CO!SectionRules(raw).metadata = M
    BY DEF IsSection, CO!SectionRules
  <1>2. M = CO!Picked(raw.metadata, P)
    BY Zenon DEF CO!MetadataRules
  <1>3. M = [k \in 1..Cardinality(P) |-> raw.metadata[place(k)]]
    <2>1. M = [k \in 1..CO!Cardinality(P) |-> raw.metadata[place(k)]]
      <3> HIDE DEF P, M
      <3>1. QED
        BY <1>2, Zenon DEF CO!Picked
    <2> HIDE DEF M, P, place
    <2>2. QED
      BY <2>1, SameCardinality2
  <1>4. IsFiniteSet(P)
    BY FS_Subset DEF IsSection
  <1>5. \A k \in 1..Cardinality(P) : \E p \in P : CO!Cardinality({q \in P : q <= p}) = k
    <2>1. P \in SUBSET Int
      OBVIOUS
    <2> HIDE DEF P
    <2>2. \A k \in 1..Cardinality(P) : \E p \in P : Cardinality({q \in P : q <= p}) = k
      BY <1>4, <2>1, NumbersInOrder
    <2>3. QED
      BY <2>2, SameCardinality2
  <1>6. i \in 1..Cardinality(P)
    <2> HIDE DEF M, P, place
    <2>1. QED
      BY <1>1, <1>3
  <1>7. place(i) \in P
    <2> DEFINE c(p) == CO!Cardinality({q \in P : q <= p})
    <2> HIDE DEF P, c
    <2>1. \E p \in P : c(p) = i
      BY <1>5, <1>6 DEF c
    <2>2. QED
      BY <2>1, Zenon DEF c
  <1> HIDE DEF M, place
  <1>8. CO!SectionRules(raw).metadata[i] = raw.metadata[place(i)]
    <2> HIDE DEF P
    <2>1. QED
      BY <1>1, <1>3, <1>6
  <1>9. QED
    BY <1>7, <1>8

\* architecture_rules.py: what both sections say of a candidate.
LEMMA OwnDecides ==
    ASSUME NEW shared, NEW mine, IsSection(shared), IsSection(mine),
           DOMAIN shared.metadata \in SUBSET Int, DOMAIN mine.metadata \in SUBSET Int,
           \A i \in DOMAIN shared.metadata : shared.metadata[i].expires \in Int,
           \A i \in DOMAIN mine.metadata : mine.metadata[i].expires \in Int,
           NEW path, NEW kind, NEW now \in Int
    PROVE  CO!OwnMetadataDecides(shared, mine, path, kind, now)
  <1> DEFINE S == CO!SectionRules(shared)
             O == CO!SectionRules(mine)
             B == CO!Rules(shared, mine)
             theirs == CO!Metadata(path, kind, S, now)
             own_ == CO!Metadata(path, kind, O, now)
             both == CO!Metadata(path, kind, B, now)
  <1>1. PICK m \in Nat : S.metadata = [i \in 1..m |-> S.metadata[i]]
    BY SectionLists
  <1>2. PICK n \in Nat : O.metadata = [i \in 1..n |-> O.metadata[i]]
    BY SectionLists
  <1>3. B.metadata = S.metadata \o O.metadata
    BY DEF CO!Rules, CO!MergeSections
  <1>4. DOMAIN S.metadata = 1..m /\ \A i \in 1..m : S.metadata[i].expires \in Int
    <2>1. DOMAIN S.metadata = 1..m
      <3> HIDE DEF S
      <3>1. QED
        BY <1>1
    <2>2. ASSUME NEW i \in 1..m PROVE S.metadata[i].expires \in Int
      <3>1. \E j \in DOMAIN shared.metadata : S.metadata[i] = shared.metadata[j]
        BY <2>1, MetadataElements
      <3> HIDE DEF S
      <3>2. QED
        BY <3>1
    <2>3. QED
      BY <2>1, <2>2
  <1>5. DOMAIN O.metadata = 1..n /\ \A i \in 1..n : O.metadata[i].expires \in Int
    <2>1. DOMAIN O.metadata = 1..n
      <3> HIDE DEF O
      <3>1. QED
        BY <1>2
    <2>2. ASSUME NEW i \in 1..n PROVE O.metadata[i].expires \in Int
      <3>1. \E j \in DOMAIN mine.metadata : O.metadata[i] = mine.metadata[j]
        BY <2>1, MetadataElements
      <3> HIDE DEF O
      <3>2. QED
        BY <3>1
    <2>3. QED
      BY <2>1, <2>2
  <1> HIDE DEF S, O, B
  <1>6. /\ DOMAIN B.metadata = 1..(m + n)
        /\ \A i \in 1..m : B.metadata[i] = S.metadata[i]
        /\ \A i \in 1..n : B.metadata[m + i] = O.metadata[i]
    BY <1>1, <1>2, <1>3, FrontOfConcat
  <1>7. \A i \in 1..(m + n) : B.metadata[i].expires \in Int
    <2>1. ASSUME NEW i \in 1..(m + n) PROVE B.metadata[i].expires \in Int
      <3>1. CASE i <= m
        <4>1. i \in 1..m
          BY <3>1
        <4>2. B.metadata[i] = S.metadata[i] /\ S.metadata[i].expires \in Int
          BY <1>4, <1>6, <4>1
        <4>3. QED
          BY <4>2
      <3>2. CASE ~(i <= m)
        <4>1. i - m \in 1..n /\ m + (i - m) = i
          BY <3>2
        <4>2. B.metadata[i] = O.metadata[i - m] /\ O.metadata[i - m].expires \in Int
          BY <1>5, <1>6, <4>1
        <4>3. QED
          BY <4>2
      <3>3. QED
        BY <3>1, <3>2
    <2>2. QED
      BY <2>1
  <1>8. PICK c : LayersOf(c, m, S.metadata, path, kind, now) /\ theirs = c[m]
    BY <1>4, LayersOneByOne
  <1>9. PICK d : LayersOf(d, n, O.metadata, path, kind, now) /\ own_ = d[n]
    BY <1>5, LayersOneByOne
  <1>10. PICK e : LayersOf(e, m + n, B.metadata, path, kind, now) /\ both = e[m + n]
    <2> DEFINE t == m + n
    <2>1. t \in Nat
      OBVIOUS
    <2>2. DOMAIN B.metadata = 1..t /\ \A i \in 1..t : B.metadata[i].expires \in Int
      BY <1>6, <1>7
    <2> HIDE DEF t
    <2>3. PICK e : LayersOf(e, t, B.metadata, path, kind, now) /\ both = e[t]
      BY <2>1, <2>2, LayersOneByOne
    <2>4. QED
      BY <2>3 DEF t
  <1> HIDE DEF theirs, own_, both
  <1>11. Over(both, own_, theirs)
    BY <1>6, <1>8, <1>9, <1>10, LayersOver
  <1>12. Dated(both, now)
    <2>1. m + n \in Nat /\ m + n \in 0..(m + n)
      OBVIOUS
    <2>2. QED
      BY <1>10, <2>1, LayersAreDated
  <1>13. both.expired = (both.expires # 0 /\ both.expires < now)
    BY <1>12 DEF Dated
  <1>14. QED
    BY <1>11, <1>13 DEF CO!OwnMetadataDecides, Over, both, own_, theirs, S, O, B

\* Rules files of any two sections, whose dates are moments.
SectionsInput ==
    rule \in {"contracts", "metadata"} =>
       /\ IsSection(x.shared) /\ IsSection(x.own)
       /\ rule = "metadata" =>
             /\ DOMAIN x.shared.metadata \in SUBSET Int /\ DOMAIN x.own.metadata \in SUBSET Int
             /\ \A i \in DOMAIN x.shared.metadata : x.shared.metadata[i].expires \in Int
             /\ \A i \in DOMAIN x.own.metadata : x.own.metadata[i].expires \in Int
             /\ x.now \in Int

\* architecture_rules.py: the tool's section hides no breach of a shared contract, and
\* decides over the shared metadata field by field; of sections of any size.
THEOREM OwnSectionCombines == SectionsInput => SectionsCombine
  <1>1. ASSUME SectionsInput, rule = "contracts" PROVE CO!SharedContractsStand(x.shared, x.own, x.changed)
    BY <1>1, SharedStand DEF SectionsInput
  <1>2. ASSUME SectionsInput, rule = "metadata"
       PROVE  CO!OwnMetadataDecides(x.shared, x.own, x.path, x.kind, x.now)
    BY <1>2, OwnDecides DEF SectionsInput
  <1>3. QED
    BY <1>1, <1>2 DEF SectionsCombine

-----------------------------------------------------------------------------
(* The migration plan of the topology. *)

\* Phrases begin with a word, which is no blank.
LEMMA PhraseFacts ==
    ASSUME NEW p \in Phrases
    PROVE  /\ p \in Seq(Words) /\ Len(p) \in Nat /\ Len(p) >= 1
           /\ p[1] \in Words /\ p[1] # " " /\ p # <<>> /\ p # TP!Blank
  <1>1. p \in Seq(Words) /\ p # <<>>
    BY DEF Phrases
  <1>2. " " \notin Words
    BY Zenon DEF Words
  <1>3. Len(p) \in Nat /\ Len(p) >= 1 /\ p[1] \in Words
    BY <1>1
  <1>4. p # <<" ">>
    <2>1. <<" ">>[1] = " "
      OBVIOUS
    <2>2. ASSUME p = <<" ">> PROVE FALSE
      BY <1>2, <1>3, <2>1, <2>2
    <2>3. QED
      BY <2>2
  <1>5. QED
    BY <1>1, <1>2, <1>3, <1>4 DEF TP!Blank

\* The rows of a table that fit, if any, have a first one.
LEMMA FirstRowFits ==
    ASSUME NEW S, NEW table \in Seq(S), NEW stem
    PROVE  TP!FirstRow(table, stem) = 0 \/ TP!FirstRow(table, stem) \in 1..Len(table)
  <1> DEFINE n == Len(table)
  <1>0. n \in Nat /\ DOMAIN table = 1..n
    OBVIOUS
  <1> DEFINE T == {j \in DOMAIN table : TP!IsPrefix(table[j].prefix, stem)}
             Fits(i) == /\ i > 0 => TP!IsPrefix(table[i].prefix, stem)
                        /\ \A j \in DOMAIN table : TP!IsPrefix(table[j].prefix, stem) => i # 0 /\ i <= j
  <1>1. \E i \in 0..n : Fits(i)
    <2>1. CASE T = {}
      <3>1. Fits(0)
        BY <2>1
      <3>2. QED
        BY <1>0, <3>1
    <2>2. CASE T # {}
      <3>1. T \in SUBSET Nat
        BY <1>0
      <3>2. PICK i \in T : \A j \in T : i <= j
        BY <2>2, <3>1, LeastNumber
      <3>3. i \in 1..n /\ Fits(i)
        BY <1>0, <3>2
      <3>4. QED
        BY <3>3
    <2>3. QED
      BY <2>1, <2>2
  <1>2. TP!FirstRow(table, stem) = CHOOSE i \in 0..n : Fits(i)
    BY DEF TP!FirstRow
  <1> HIDE DEF Fits, T
  <1>3. TP!FirstRow(table, stem) \in 0..n
    BY <1>1, <1>2
  <1>4. QED
    BY <1>0, <1>3

\* A first word, and what is picked of the others, are not nothing and no blank.
LEMMA FirstWordStays ==
    ASSUME NEW group \in Phrases
    PROVE  LET rest == Tail(group)
           IN  <<group[1]>> \o TP!Picked(rest, {i \in DOMAIN rest : rest[i] # "llm"}) \notin {<<>>, TP!Blank}
  <1> DEFINE rest == Tail(group)
             places == {i \in DOMAIN rest : rest[i] # "llm"}
             u == TP!Picked(rest, places)
             g == <<group[1]>> \o u
  <1>1. group \in Seq(Words) /\ Len(group) \in Nat /\ Len(group) >= 1 /\ group[1] # " "
    BY PhraseFacts
  <1>2. rest \in Seq(Words) /\ Len(rest) \in Nat /\ DOMAIN rest = 1..Len(rest)
    <2>1. rest \in Seq(Words)
      BY <1>1, PhraseFacts, HeadTailProperties
    <2> HIDE DEF rest
    <2>2. QED
      BY <2>1
  <1> HIDE DEF rest
  <1>3. PICK m \in Nat : DOMAIN u = 1..m /\ u = [k \in 1..m |-> u[k]]
    <2>1. IsFiniteSet(places)
      <3>1. places \in SUBSET (1..Len(rest)) /\ IsFiniteSet(1..Len(rest))
        BY <1>2, FS_Interval
      <3>2. QED
        BY <3>1, FS_Subset
    <2>2. TP!Cardinality(places) \in Nat
      <3>1. \A T : TP!Cardinality(T) = Cardinality(T)
        BY DEF TP!Cardinality, Cardinality
      <3>2. QED
        BY <2>1, <3>1, FS_CardinalityType
    <2> HIDE DEF places, rest
    <2>3. QED
      BY <2>2 DEF TP!Picked
  <1> HIDE DEF u
  <1>4. u \in Seq({u[k] : k \in 1..m})
    BY <1>3
  <1>5. <<group[1]>> \in Seq({group[1]})
    OBVIOUS
  <1>6. Len(g) > 0 /\ g[1] = group[1]
    BY <1>4, <1>5, ConcatProperties
  <1>7. g # <<>> /\ g # <<" ">>
    <2>1. Len(<<>>) = 0 /\ <<" ">>[1] = " "
      OBVIOUS
    <2> HIDE DEF g
    <2>2. ASSUME g = <<>> PROVE FALSE
      BY <1>6, <2>1, <2>2
    <2>3. ASSUME g = <<" ">> PROVE FALSE
      BY <1>1, <1>6, <2>1, <2>3
    <2>4. QED
      BY <2>2, <2>3
  <1>8. QED
    BY <1>7 DEF TP!Blank, g, u, rest

\* Modules whose names have words, in a tree.
IsTree(files) == \A f \in files : f.stem \in Phrases

\* Every module votes for a folder that has a name.
LEMMA VotesAreNamed ==
    ASSUME NEW f, f.stem \in Phrases
    PROVE  TP!FolderVote(f).folder \notin {<<>>, TP!Blank}
  <1> DEFINE group == TP!DomainToken(f.stem)
             hint == TP!FirstRow(FolderHints, f.stem)
             rows == {i \in DOMAIN TermRules : TermRules[i].terms \cap f.terms # {}}
             first == CHOOSE i \in rows : \A j \in rows : i <= j
  <1>1. \A p \in Phrases : p \notin {<<>>, TP!Blank}
    BY PhraseFacts
  <1>2. group \in Phrases
    <2> DEFINE row == TP!FirstRow(GroupPrefixes, f.stem)
    <2>1. row = 0 \/ GroupPrefixes[row].group \in Phrases
      <3> DEFINE R == [prefix : Phrases, group : Phrases]
      <3>1. GroupPrefixes \in Seq(R) /\ \A r \in R : r.group \in Phrases
        BY TablesAssumption
      <3> HIDE DEF R
      <3>2. row = 0 \/ row \in 1..Len(GroupPrefixes)
        BY <3>1, FirstRowFits
      <3>3. QED
        BY <3>1, <3>2
    <2>2. TP!First(1, f.stem) \in Phrases /\ TP!First(2, f.stem) \in Phrases
      <3>1. ASSUME NEW n \in {1, 2} PROVE TP!First(n, f.stem) \in Phrases
        <4>1. f.stem \in Seq(Words) /\ Len(f.stem) \in Nat /\ Len(f.stem) >= 1
          BY PhraseFacts
        <4> DEFINE m == IF n < Len(f.stem) THEN n ELSE Len(f.stem)
        <4>2. m \in Nat /\ m >= 1 /\ m <= Len(f.stem)
          BY <4>1
        <4> HIDE DEF m
        <4>3. SubSeq(f.stem, 1, m) \in Seq(Words) /\ Len(SubSeq(f.stem, 1, m)) = m
          BY <4>1, <4>2, SubSeqProperties
        <4>4. TP!First(n, f.stem) = SubSeq(f.stem, 1, m)
          BY DEF TP!First, m
        <4>5. QED
          BY <4>2, <4>3, <4>4 DEF Phrases
      <3>2. QED
        BY <3>1
    <2> HIDE DEF row
    <2>3. QED
      BY <2>1, <2>2 DEF TP!DomainToken, row
  <1> HIDE DEF group
  <1>3. TP!PreferredFolder(group) \notin {<<>>, TP!Blank}
    <2>1. group \in DOMAIN PreferredTable => PreferredTable[group] \in Phrases
      BY TablesAssumption
    <2>2. group \in DOMAIN Aliases => Aliases[group] \in Phrases
      BY TablesAssumption
    <2> DEFINE rest == Tail(group)
               short == <<group[1]>> \o TP!Picked(rest, {i \in DOMAIN rest : rest[i] # "llm"})
    <2>3. short \notin {<<>>, TP!Blank}
      BY <1>2, FirstWordStays
    <2> HIDE DEF short
    <2>4. TP!PreferredFolder(group) = IF group \in DOMAIN PreferredTable THEN PreferredTable[group]
                                      ELSE IF group \in DOMAIN Aliases THEN Aliases[group] ELSE short
      BY DEF TP!PreferredFolder, short
    <2>5. QED
      BY <1>1, <2>1, <2>2, <2>3, <2>4
  <1>4. hint # 0 => FolderHints[hint].folder \in Phrases
    <2> DEFINE R == [prefix : Phrases, folder : Phrases]
    <2>1. FolderHints \in Seq(R) /\ \A r \in R : r.folder \in Phrases
      BY TablesAssumption
    <2> HIDE DEF R
    <2>2. hint = 0 \/ hint \in 1..Len(FolderHints)
      BY <2>1, FirstRowFits
    <2>3. QED
      BY <2>1, <2>2
  <1>5. rows # {} => TermRules[first].folder \in Phrases
    <2> DEFINE R == [terms : SUBSET STRING, folder : Phrases, confidence : Nat]
    <2>1. TermRules \in Seq(R) /\ \A r \in R : r.folder \in Phrases
      BY TablesAssumption
    <2> HIDE DEF R
    <2>2. ASSUME rows # {} PROVE first \in rows
      <3>1. rows \in SUBSET Nat
        BY <2>1
      <3> HIDE DEF rows
      <3>2. \E i \in rows : \A j \in rows : i <= j
        BY <2>2, <3>1, LeastNumber
      <3>3. QED
        BY <3>2
    <2>3. ASSUME NEW i \in rows PROVE TermRules[i].folder \in Phrases
      BY <2>1
    <2>4. QED
      BY <2>2, <2>3
  <1>6. <<"support">> \notin {<<>>, TP!Blank}
    BY DEF TP!Blank
  <1> HIDE DEF hint, rows, first
  <1>7. \/ TP!FolderVote(f).folder = TP!PreferredFolder(group)
        \/ TP!FolderVote(f).folder = <<"support">>
        \/ hint # 0 /\ TP!FolderVote(f).folder = FolderHints[hint].folder
        \/ rows # {} /\ TP!FolderVote(f).folder = TermRules[first].folder
    BY DEF TP!FolderVote, TP!Vote, hint, rows, first, group
  <1>8. QED
    BY <1>1, <1>3, <1>4, <1>5, <1>6, <1>7

\* A file is a candidate of one group, the one that its name asks for.
LEMMA OneGroupEach ==
    ASSUME NEW direct, NEW g \in TP!DomainGroups(direct), NEW f \in g.candidates
    PROVE  /\ f \in direct
           /\ \A h \in TP!DomainGroups(direct) : f \in h.candidates => h = g
  <1>1. ASSUME NEW h \in TP!DomainGroups(direct), f \in h.candidates
       PROVE  f \in direct /\ h = TP!GroupRecord(direct, TP!DomainToken(f.stem))
    <2>1. PICK id : h = TP!GroupRecord(direct, id)
      BY DEF TP!DomainGroups
    <2>2. h.candidates = TP!FirstOf(TP!CandidateLimit, TP!MembersOf(direct, id))
      BY <2>1 DEF TP!GroupRecord
    <2>3. f \in TP!MembersOf(direct, id)
      BY <1>1, <2>2 DEF TP!FirstOf
    <2>4. QED
      BY <2>1, <2>3 DEF TP!MembersOf
  <1>2. QED
    BY <1>1

\* What becomes of a file of a group.
LEMMA FateInGroup ==
    ASSUME NEW direct, NEW g \in TP!DomainGroups(direct), NEW f \in g.candidates, NEW answer
    PROVE  TP!FateOf(f, TP!DomainGroups(direct), answer) =
              IF TP!Placement(f, answer).decision = "keep_root" THEN TP!Fate("keep", <<>>)
              ELSE TP!GroupFate(g, TP!Placement(f, answer), answer)
  <1> DEFINE own == {h \in TP!DomainGroups(direct) : f \in h.candidates}
  <1>1. own = {g}
    BY OneGroupEach
  <1>2. own # {} /\ (CHOOSE h \in own : TRUE) = g
    BY <1>1
  <1>3. TP!FateOf(f, TP!DomainGroups(direct), answer) =
           IF TP!Placement(f, answer).decision = "keep_root" THEN TP!Fate("keep", <<>>)
           ELSE IF own # {} THEN TP!GroupFate(CHOOSE h \in own : TRUE, TP!Placement(f, answer), answer)
           ELSE TP!SingleFate(TP!Placement(f, answer))
    BY DEF TP!FateOf
  <1> HIDE DEF own
  <1>4. QED
    BY <1>2, <1>3

\* And of one that is in none.
LEMMA FateAlone ==
    ASSUME NEW groups, NEW f, \A g \in groups : f \notin g.candidates, NEW answer
    PROVE  TP!FateOf(f, groups, answer) =
              IF TP!Placement(f, answer).decision = "keep_root" THEN TP!Fate("keep", <<>>)
              ELSE TP!SingleFate(TP!Placement(f, answer))
  <1>1. {h \in groups : f \in h.candidates} = {}
    OBVIOUS
  <1>2. QED
    BY <1>1 DEF TP!FateOf

\* A file is kept if and only if it is so placed.
LEMMA KeptAtRoot ==
    ASSUME NEW f, NEW groups, NEW answer
    PROVE  TP!FateOf(f, groups, answer).kind = "keep" <=> TP!Placement(f, answer).decision = "keep_root"
  <1>1. \A g, p : TP!GroupFate(g, p, answer).kind \in {"review", "move"}
    BY DEF TP!GroupFate, TP!Fate
  <1>2. \A p : TP!SingleFate(p).kind \in {"review", "move"}
    BY DEF TP!SingleFate, TP!Fate
  <1>3. TP!Fate("keep", <<>>).kind = "keep"
    BY DEF TP!Fate
  <1>4. QED
    BY <1>1, <1>2, <1>3 DEF TP!FateOf

\* A file that the answer does not speak of is placed by the program.
LEMMA UnreviewedPlacement ==
    ASSUME NEW f, NEW answer, TP!FileReviews(answer, f) = {}
    PROVE  TP!Placement(f, answer) = TP!Placed(f)
  BY DEF TP!Placement

LEMMA NothingReviewed ==
    /\ \A f : TP!FileReviews(TP!NoAnswer, f) = {}
    /\ \A id : TP!GroupReviews(TP!NoAnswer, id) = {}
  <1>1. TP!NoAnswer.groups = <<>> /\ TP!NoAnswer.files = <<>>
    BY DEF TP!NoAnswer
  <1>2. DOMAIN <<>> = {}
    OBVIOUS
  <1>3. QED
    BY <1>1, <1>2 DEF TP!FileReviews, TP!GroupReviews

\* A group that the answer does not speak of is resolved as it was voted.
LEMMA UnreviewedGroup ==
    ASSUME NEW g, NEW answer, TP!GroupReviews(answer, g.id) = {}
    PROVE  TP!Resolved(g, answer) = [folder |-> g.folder, decision |-> "accept"]
  BY DEF TP!Resolved

\* The groups and files that an answer speaks of are in a list.
IsReview(answer) ==
    \E m, n \in Nat : DOMAIN answer.groups = 1..m /\ DOMAIN answer.files = 1..n

LEMMA LatestIsOne ==
    ASSUME NEW n \in Nat, NEW S \in SUBSET (1..n), S # {}
    PROVE  TP!Latest(S) \in S
  <1>1. \E i \in S : \A j \in S : j <= i
    <2> DEFINE T == {n - i : i \in S}
    <2>1. T \in SUBSET Nat /\ T # {}
      <3>1. \A i \in S : n - i \in Nat
        OBVIOUS
      <3>2. QED
        BY <3>1
    <2>2. PICK t \in T : \A u \in T : t <= u
      BY <2>1, LeastNumber
    <2>3. PICK i \in S : t = n - i
      BY <2>2
    <2>4. ASSUME NEW j \in S PROVE j <= i
      <3>1. n - j \in T
        OBVIOUS
      <3>2. t <= n - j
        BY <2>2, <3>1
      <3>3. i \in Int /\ j \in Int
        OBVIOUS
      <3> HIDE DEF T
      <3>4. QED
        BY <2>3, <3>2, <3>3
    <2>5. QED
      BY <2>4
  <1>2. QED
    BY <1>1 DEF TP!Latest

\* Inputs: trees of modules whose names have words, and lists of reviews.
TopologyInput == rule = "topology" => IsTree(x.tree) /\ IsReview(x.answer)

\* repo_topology_migration.py: facades stay, what the LLM doubts does not move, and what
\* it says nothing of, or agrees to, stays as it was; of trees and answers of any size.
THEOREM MigrationIsSound == TopologyInput => PlanIsSound
  <1> SUFFICES ASSUME TopologyInput, rule = "topology" PROVE TP!PlanIsSound(x.tree, x.answer)
    BY DEF PlanIsSound
  <1> DEFINE answer == x.answer
             direct == TP!Direct(x.tree)
             groups == TP!DomainGroups(direct)
             used == IF groups = {} THEN TP!NoAnswer ELSE answer
             plan == TP!MigrationPlan(direct, groups, answer)
             alone == TP!MigrationPlan(direct, groups, TP!NoAnswer)
  <1>1. IsReview(answer) /\ \A f \in direct : f.stem \in Phrases
    BY DEF TopologyInput, IsTree, TP!Direct
  <1>2. /\ plan.fates = [f \in direct |-> TP!FateOf(f, groups, used)] /\ plan.groups = groups
        /\ alone.fates = [f \in direct |-> TP!FateOf(f, groups, TP!NoAnswer)]
    BY DEF TP!MigrationPlan
  <1>3. TP!PlanIsSound(x.tree, x.answer) <=>
           /\ TP!FacadesStay(alone) /\ TP!DoubtedGroupsHeld(plan, answer)
           /\ TP!AnswersAreLocal(plan, alone, answer) /\ TP!AgreementChangesNothing(plan, alone, answer)
    BY DEF TP!PlanIsSound
  <1> HIDE DEF answer, direct, plan, alone
  <1>4. TP!FacadesStay(alone)
    <2>1. ASSUME NEW f \in direct PROVE TP!StaysAtRoot(f) <=> alone.fates[f].kind = "keep"
      <3>1. alone.fates[f].kind = "keep" <=> TP!Placement(f, TP!NoAnswer).decision = "keep_root"
        BY <1>2, KeptAtRoot
      <3>2. TP!Placement(f, TP!NoAnswer) = TP!Placed(f)
        BY NothingReviewed, UnreviewedPlacement
      <3>3. TP!Placed(f).decision = "keep_root" <=> TP!StaysAtRoot(f)
        BY DEF TP!Placed
      <3>4. QED
        BY <3>1, <3>2, <3>3
    <2>2. QED
      BY <1>2, <2>1 DEF TP!FacadesStay
  <1>5. TP!DoubtedGroupsHeld(plan, answer)
    <2>1. ASSUME NEW g \in groups, NEW f \in g.candidates,
                 TP!Resolved(g, answer).decision \in {"split", "review"}, TP!FileReviews(answer, f) = {}
         PROVE  plan.fates[f].kind # "move"
      <3>1. f \in direct /\ used = answer
        BY OneGroupEach
      <3>2. TP!Placement(f, answer).source = "programmatic"
        BY <2>1, UnreviewedPlacement DEF TP!Placed
      <3>3. TP!GroupFate(g, TP!Placement(f, answer), answer).kind = "review"
        BY <2>1, <3>2 DEF TP!GroupFate, TP!Fate
      <3>4. TP!Fate("keep", <<>>).kind = "keep"
        BY DEF TP!Fate
      <3>5. plan.fates[f] = TP!FateOf(f, groups, answer)
        BY <1>2, <3>1
      <3>6. QED
        BY <3>3, <3>4, <3>5, FateInGroup
    <2>2. QED
      BY <1>2, <2>1 DEF TP!DoubtedGroupsHeld
  <1>6. TP!AnswersAreLocal(plan, alone, answer)
    <2>1. ASSUME NEW f \in direct, TP!FileReviews(answer, f) = {},
                 \A g \in groups : f \in g.candidates => TP!GroupReviews(answer, g.id) = {}
         PROVE  TP!FateOf(f, groups, used) = TP!FateOf(f, groups, TP!NoAnswer)
      <3>1. /\ TP!Placement(f, answer) = TP!Placed(f)
            /\ TP!Placement(f, TP!NoAnswer) = TP!Placed(f)
        BY <2>1, NothingReviewed, UnreviewedPlacement
      <3>2. CASE \A g \in groups : f \notin g.candidates
        BY <3>1, <3>2, FateAlone
      <3>3. CASE \E g \in groups : f \in g.candidates
        <4>1. PICK g \in groups : f \in g.candidates
          BY <3>3
        <4>2. TP!Resolved(g, answer) = TP!Resolved(g, TP!NoAnswer)
          BY <2>1, <4>1, NothingReviewed, UnreviewedGroup
        <4>3. \A p : TP!GroupFate(g, p, answer) = TP!GroupFate(g, p, TP!NoAnswer)
          BY <4>2 DEF TP!GroupFate
        <4>4. QED
          BY <3>1, <4>1, <4>3, FateInGroup
      <3>4. QED
        BY <3>2, <3>3
    <2>2. QED
      BY <1>2, <2>1 DEF TP!AnswersAreLocal
  <1>7. TP!AgreementChangesNothing(plan, alone, answer)
    <2>1. ASSUME TP!Agrees(plan, answer), NEW f \in direct
         PROVE  TP!FateOf(f, groups, used) = TP!FateOf(f, groups, TP!NoAnswer)
      <3> DEFINE place == TP!Placement(f, answer)
      <3>1. TP!Placed(f).folder \notin {<<>>, TP!Blank}
        BY <1>1, VotesAreNamed DEF TP!Placed
      <3>2. place.decision = TP!Placed(f).decision /\ place.folder = TP!Placed(f).folder
        <4>1. CASE TP!FileReviews(answer, f) = {}
          BY <4>1, UnreviewedPlacement
        <4>2. CASE TP!FileReviews(answer, f) # {}
          <5> DEFINE i == TP!Latest(TP!FileReviews(answer, f))
                     review == answer.files[i]
          <5>1. i \in TP!FileReviews(answer, f)
            <6>1. PICK n \in Nat : DOMAIN answer.files = 1..n
              BY <1>1 DEF IsReview
            <6>2. TP!FileReviews(answer, f) \in SUBSET (1..n)
              BY <6>1 DEF TP!FileReviews
            <6>3. QED
              BY <4>2, <6>2, LatestIsOne
          <5> HIDE DEF i
          <5>2. /\ review.keep = TP!StaysAtRoot(f)
                /\ review.decision \in {"", TP!Placed(f).decision}
                /\ review.folder \in {<<>>, TP!Placed(f).folder}
            BY <1>2, <2>1, <5>1 DEF TP!Agrees, TP!FileReviews
          <5> HIDE DEF review
          <5>3. TP!StaysAtRoot(f) => TP!Placed(f).decision = "keep_root"
            BY DEF TP!Placed
          <5>4. place = [decision |-> IF review.keep THEN "keep_root"
                                      ELSE TP!Default(review.decision, "", TP!Placed(f).decision),
                         folder |-> TP!Default(TP!Default(review.folder, <<>>, TP!Placed(f).folder), TP!Blank, <<>>),
                         source |-> "llm"]
            BY <4>2 DEF TP!Placement, review, i
          <5>5. TP!Default(review.decision, "", TP!Placed(f).decision) = TP!Placed(f).decision
            BY <5>2 DEF TP!Default
          <5>6. TP!Default(TP!Default(review.folder, <<>>, TP!Placed(f).folder), TP!Blank, <<>>) = TP!Placed(f).folder
            BY <3>1, <5>2 DEF TP!Default
          <5> HIDE DEF place
          <5>7. CASE review.keep
            BY <5>2, <5>3, <5>4, <5>6, <5>7
          <5>8. CASE ~review.keep
            BY <5>4, <5>5, <5>6, <5>8
          <5>9. QED
            BY <5>7, <5>8
        <4>3. QED
          BY <4>1, <4>2
      <3>3. TP!Placement(f, TP!NoAnswer) = TP!Placed(f)
        BY NothingReviewed, UnreviewedPlacement
      <3>4. CASE \A g \in groups : f \notin g.candidates
        <4>1. TP!Placement(f, used).decision = TP!Placed(f).decision /\ TP!Placement(f, used).folder = TP!Placed(f).folder
          BY <3>2, <3>3
        <4>2. TP!SingleFate(TP!Placement(f, used)) = TP!SingleFate(TP!Placed(f))
          BY <4>1 DEF TP!SingleFate
        <4> HIDE DEF used, groups
        <4>3. QED
          BY <3>3, <3>4, <4>1, <4>2, FateAlone
      <3>5. CASE \E g \in groups : f \in g.candidates
        <4>1. PICK g \in groups : f \in g.candidates
          BY <3>5
        <4>2. TP!Resolved(g, answer).decision = "accept" /\ TP!Resolved(g, TP!NoAnswer).decision = "accept"
          <5>1. TP!GroupReviews(answer, g.id) # {} =>
                   answer.groups[TP!Latest(TP!GroupReviews(answer, g.id))].decision = "accept"
            <6>1. PICK n \in Nat : DOMAIN answer.groups = 1..n
              BY <1>1 DEF IsReview
            <6>2. TP!GroupReviews(answer, g.id) \in SUBSET (1..n)
              BY <6>1 DEF TP!GroupReviews
            <6>3. TP!GroupReviews(answer, g.id) # {} => TP!Latest(TP!GroupReviews(answer, g.id)) \in 1..n
              BY <6>2, LatestIsOne
            <6>4. QED
              BY <2>1, <6>1, <6>3 DEF TP!Agrees
          <5>2. TP!Resolved(g, answer).decision = "accept"
            BY <5>1 DEF TP!Resolved, TP!Default
          <5>3. QED
            BY <5>2, NothingReviewed, UnreviewedGroup
        <4>3. TP!GroupFate(g, place, answer) = TP!Fate("move", place.folder)
          BY <3>1, <3>2, <4>2 DEF TP!GroupFate, TP!Default
        <4>4. TP!GroupFate(g, TP!Placed(f), TP!NoAnswer) = TP!Fate("move", TP!Placed(f).folder)
          BY <3>1, <4>2 DEF TP!GroupFate, TP!Default
        <4>5. used = answer
          BY <4>1
        <4> HIDE DEF used, groups, place
        <4>6. QED
          BY <3>2, <3>3, <4>1, <4>3, <4>4, <4>5, FateInGroup DEF groups, place
      <3>6. QED
        BY <3>4, <3>5
    <2>2. QED
      BY <1>2, <2>1 DEF TP!AgreementChangesNothing
  <1>8. QED
    BY <1>3, <1>4, <1>5, <1>6, <1>7

-----------------------------------------------------------------------------
(* The configuration of the LLM. *)

\* The tasks of the package, each with its tier.
LEMMA TaskList ==
    /\ \A c \in LC!Tasks : c.tier \in {"strong", "weak"} /\ c = LC!Call(c.task, c.tier)
    /\ \A c, d \in LC!Tasks : c.task = d.task => c = d
  <1>1. LC!Tasks = {LC!Summary, LC!History, LC!Topology, LC!Judge, LC!Scoring, LC!Call("architect_folder_naming", "weak")}
    BY DEF LC!Tasks, LC!Calls, LC!RequiredChecks
  <1>2. QED
    BY <1>1 DEF LC!Call, LC!Summary, LC!History, LC!Topology, LC!Judge, LC!Scoring

\* The package has the tier of each of its tasks.
LEMMA DefaultTier ==
    ASSUME NEW call \in LC!Tasks
    PROVE  LET at == <<"tasks", call.task, "tier">>
           IN  at \in DOMAIN LC!DefaultFile /\ LC!DefaultFile[at] = LC!Text(call.tier)
  <1> DEFINE at == <<"tasks", call.task, "tier">>
  <1>1. at \in {<<"tasks", c.task, "tier">> : c \in LC!Tasks}
    OBVIOUS
  <1>2. at[1] = "tasks" /\ at[2] = call.task
    OBVIOUS
  <1>3. (CHOOSE c \in LC!Tasks : c.task = call.task) = call
    BY TaskList
  <1> HIDE DEF at
  <1>4. at \in DOMAIN LC!DefaultFile /\ LC!DefaultFile[at] = LC!Text(call.tier)
    BY <1>1, <1>2, <1>3 DEF LC!DefaultFile
  <1>5. QED
    BY <1>4 DEF at

\* What the chosen file says nothing of is as in the package.
LEMMA UntouchedIsKept ==
    ASSUME NEW files, NEW call \in LC!Tasks, files.default = LC!DefaultFile, LC!Untouched(files, call)
    PROVE  LC!Plain(LC!Raw(files), <<"tasks", call.task, "tier">>) = call.tier
  <1> DEFINE at == <<"tasks", call.task, "tier">>
             file == LC!Chosen(files)
             raw == LC!Raw(files)
  <1>1. \A p \in DOMAIN file : ~LC!IsPrefix(p, at) /\ ~LC!IsPrefix(at, p)
    BY DEF LC!Untouched, LC!SaysNothing
  <1>2. LC!IsPrefix(at, at)
    BY DEF LC!IsPrefix
  <1>3. at \in DOMAIN LC!DefaultFile /\ LC!DefaultFile[at] = LC!Text(call.tier)
    BY DefaultTier
  <1> HIDE DEF at
  <1>4. raw = LC!Merge(LC!DefaultFile, file)
    BY DEF LC!Raw
  <1> HIDE DEF file, raw
  <1>5. at \in DOMAIN raw /\ raw[at] = LC!DefaultFile[at]
    BY <1>1, <1>2, <1>3, <1>4 DEF LC!Merge
  <1>6. raw[at].is # "list" /\ raw[at].text = call.tier
    BY <1>3, <1>5 DEF LC!Text, LC!Value
  <1>7. QED
    BY <1>5, <1>6 DEF LC!Plain, at, raw

\* Its task asks for the tier of the package, whatever tier the caller asks for.
LEMMA UntouchedTier ==
    ASSUME NEW files, NEW call \in LC!Tasks, files.default = LC!DefaultFile, LC!Untouched(files, call),
           NEW cfg, cfg.raw = LC!Raw(files), NEW tier
    PROVE  /\ LC!Tier(cfg, call) = call.tier
           /\ LC!Tier(cfg, LC!Call(call.task, tier)) = call.tier
  <1>1. LC!Plain(cfg.raw, <<"tasks", call.task, "tier">>) = call.tier
    BY UntouchedIsKept
  <1>2. call.tier # ""
    BY TaskList
  <1>3. LC!Call(call.task, tier).task = call.task
    BY DEF LC!Call
  <1>4. QED
    BY <1>1, <1>2, <1>3 DEF LC!Tier, LC!Or

\* The calls of a command are checked, but those for which another call of
\* their tier is checked.
LEMMA CheckedInTier ==
    ASSUME NEW command \in LC!Commands, NEW calls,
           calls = IF command = "check" THEN LC!Calls("diff") ELSE LC!Calls(command),
           NEW call \in calls, NEW c \in calls, c # call, c.tier = call.tier
    PROVE  call \in LC!Checks(command) \/ c \in LC!Checks(command)
  <1>1. CASE command = "incremental"
    BY <1>1 DEF LC!Calls, LC!Checks, LC!IncrementalChecks
  <1>2. CASE command # "incremental"
    <2>1. calls \in SUBSET {LC!Summary, LC!History, LC!Topology, LC!Judge, LC!Scoring}
      BY <1>2 DEF LC!Calls, LC!Commands
    <2>2. LC!Checks(command) = {LC!Summary, LC!History, LC!Topology, LC!Call("architect_folder_naming", "weak")}
      BY <1>2 DEF LC!Checks, LC!RequiredChecks
    <2>3. LC!Judge.tier # LC!Scoring.tier
      BY DEF LC!Judge, LC!Scoring, LC!Call
    <2>4. QED
      BY <2>1, <2>2, <2>3
  <1>3. QED
    BY <1>1, <1>2

\* Every call of a command is of a task of the package.
LEMMA CallsAreTasks ==
    ASSUME NEW command \in LC!Commands
    PROVE  LC!Calls(command) \in SUBSET LC!Tasks /\ LC!Calls("diff") \in SUBSET LC!Tasks
  BY DEF LC!Calls, LC!Tasks, LC!Commands

\* What a call that is checked finds.
LEMMA CheckedIsServed ==
    ASSUME NEW cfg, NEW checks, LC!Passes(cfg, checks), NEW c \in checks
    PROVE  /\ ~LC!Unavailable(cfg, c)
           /\ \A i \in DOMAIN LC!Candidates(cfg, c) : LC!Candidates(cfg, c)[i].provider["api_key"] # ""
  BY DEF LC!Passes, LC!Unavailable, LC!Problem

\* A preflight that passes is enough for what is asked after it.
LEMMA CoveredCalls ==
    ASSUME NEW files, files.default = LC!DefaultFile, NEW cfg, cfg.raw = LC!Raw(files)
    PROVE  LC!PreflightCovers(files, cfg)
  <1> DEFINE CallsOf(command) == IF command = "check" THEN LC!Calls("diff") ELSE LC!Calls(command)
             Served(call) == /\ ~LC!Unavailable(cfg, call)
                             /\ \A i \in DOMAIN LC!Candidates(cfg, call) :
                                   LC!Candidates(cfg, call)[i].provider["api_key"] # ""
  <1>1. ASSUME NEW command \in LC!Commands, LC!Passes(cfg, LC!Checks(command)),
               NEW call \in CallsOf(command),
               call \in LC!Checks(command) \/ LC!LeftInTier(files, call, CallsOf(command))
       PROVE  Served(call)
    <2>1. CASE call \in LC!Checks(command)
      BY <1>1, <2>1, CheckedIsServed
    <2>2. CASE call \notin LC!Checks(command)
      <3> DEFINE calls == CallsOf(command)
      <3>1. LC!Untouched(files, call)
        BY <1>1, <2>2 DEF LC!LeftInTier
      <3>2. PICK c \in calls \ {call} : c.tier = call.tier /\ LC!Untouched(files, c)
        BY <1>1, <2>2 DEF LC!LeftInTier
      <3>3. c \in LC!Checks(command)
        BY <1>1, <2>2, <3>2, CheckedInTier
      <3>4. call \in LC!Tasks /\ c \in LC!Tasks
        BY <1>1, <3>2, CallsAreTasks
      <3>5. LC!Tier(cfg, call) = LC!Tier(cfg, c)
        BY <3>1, <3>2, <3>4, UntouchedTier
      <3>6. LC!Candidates(cfg, call) = LC!Candidates(cfg, c)
        BY <3>5 DEF LC!Candidates
      <3>7. Served(c)
        BY <1>1, <3>3, CheckedIsServed
      <3>8. QED
        BY <3>6, <3>7 DEF LC!Unavailable
    <2>3. QED
      BY <2>1, <2>2
  <1>2. QED
    BY <1>1 DEF LC!PreflightCovers

\* What the file says nothing of has its default.
LEMMA DefaultsStay ==
    ASSUME NEW files, files.default = LC!DefaultFile, NEW cfg, cfg.raw = LC!Raw(files)
    PROVE  LC!DefaultsKept(files, cfg)
  <1>1. ASSUME NEW call \in LC!Calls("diff"), LC!Untouched(files, call), NEW tier
       PROVE  LC!Tier(cfg, LC!Call(call.task, tier)) = LC!DefaultFile[<<"tasks", call.task, "tier">>].text
    <2>1. call \in LC!Tasks
      BY DEF LC!Tasks
    <2>2. LC!Tier(cfg, LC!Call(call.task, tier)) = call.tier
      BY <1>1, <2>1, UntouchedTier
    <2>3. LC!DefaultFile[<<"tasks", call.task, "tier">>] = LC!Text(call.tier)
      BY <2>1, DefaultTier
    <2>4. QED
      BY <2>2, <2>3 DEF LC!Text, LC!Value
  <1>2. QED
    BY <1>1 DEF LC!DefaultsKept

\* The k-th candidate of a tier is of the i-th item of its list of n, which is the
\* k-th of those that name a model.
OfItem(raw, tier, providers, n, k, i) ==
    /\ LC!TierCandidates(raw, tier, providers)[k] = LC!Candidate(tier, i - 1, LC!Specs(raw, tier)[i], providers)
    /\ Cardinality({q \in {r \in 1..n : LC!Specs(raw, tier)[r].model # ""} : q <= i}) = k

\* The candidates of a tier are of items of its list, each of one of its own.
LEMMA ItemsInOrder ==
    ASSUME NEW raw, NEW tier, NEW providers, NEW n \in Nat, DOMAIN LC!Specs(raw, tier) = 1..n,
           NEW k \in DOMAIN LC!TierCandidates(raw, tier, providers)
    PROVE  \E i \in 1..n : OfItem(raw, tier, providers, n, k, i)
  <1> DEFINE specs == LC!Specs(raw, tier)
             P == {i \in 1..n : specs[i].model # ""}
             id == [i \in 1..n |-> i]
             place(l) == CHOOSE i \in P : LC!Cardinality({q \in P : q <= i}) = l
             named == LC!Picked(id, P)
             cs == LC!TierCandidates(raw, tier, providers)
  <1>1. P \in SUBSET Int /\ P \in SUBSET (1..n) /\ IsFiniteSet(P)
    <2>1. IsFiniteSet(1..n)
      BY FS_Interval
    <2>2. \A i \in P : i \in 1..n
      OBVIOUS
    <2> HIDE DEF P
    <2>3. QED
      BY <2>1, <2>2, FS_Subset
  <1>2. cs = [l \in DOMAIN named |-> LC!Candidate(tier, named[l] - 1, specs[named[l]], providers)]
    BY DEF LC!TierCandidates
  <1> HIDE DEF P, cs, specs
  <1>3. named = [l \in 1..Cardinality(P) |-> id[place(l)]]
    <2>1. named = [l \in 1..LC!Cardinality(P) |-> id[place(l)]]
      BY Zenon DEF LC!Picked
    <2> HIDE DEF named, place, id
    <2>2. QED
      BY <2>1, SameCardinality3
  <1>4. ASSUME NEW l \in 1..Cardinality(P)
       PROVE  place(l) \in P /\ Cardinality({q \in P : q <= place(l)}) = l
    <2> DEFINE c(p) == LC!Cardinality({q \in P : q <= p})
    <2>1. \A p : c(p) = Cardinality({q \in P : q <= p})
      BY SameCardinality3
    <2>2. \E p \in P : Cardinality({q \in P : q <= p}) = l
      BY <1>1, NumbersInOrder
    <2> HIDE DEF c
    <2>3. \E p \in P : c(p) = l
      BY <2>1, <2>2
    <2>4. place(l) \in P /\ c(place(l)) = l
      BY <2>3, Zenon DEF c
    <2> HIDE DEF place
    <2>5. QED
      BY <2>1, <2>4
  <1> HIDE DEF named, place, id
  <1>5. k \in 1..Cardinality(P) /\ DOMAIN named = 1..Cardinality(P)
    BY <1>2, <1>3 DEF cs
  <1>6. place(k) \in 1..n /\ named[k] = place(k)
    BY <1>1, <1>3, <1>4, <1>5 DEF id
  <1>7. cs[k] = LC!Candidate(tier, place(k) - 1, specs[place(k)], providers)
    BY <1>2, <1>5, <1>6
  <1>8. Cardinality({q \in P : q <= place(k)}) = k
    BY <1>4, <1>5
  <1>9. OfItem(raw, tier, providers, n, k, place(k))
    BY <1>7, <1>8 DEF OfItem, cs, P, specs
  <1>10. QED
    BY <1>6, <1>9

\* A key that nobody gave tells the tier and the place in its list.
LEMMA KeyOfCandidate ==
    ASSUME NEW tier, NEW index, NEW item, NEW providers
    PROVE  LET key == LC!Candidate(tier, index, item, providers).key
           IN  Len(key) > 1 => key[1] = tier /\ key[3] = index
  <1> DEFINE key == LC!Candidate(tier, index, item, providers).key
  <1>1. key = <<item.key>> \/ \E name : key = <<tier, name, index>>
    BY DEF LC!Candidate, LC!Key
  <1> HIDE DEF key
  <1>2. ASSUME key = <<item.key>> PROVE ~(Len(key) > 1)
    BY <1>2
  <1>3. ASSUME NEW name, key = <<tier, name, index>> PROVE key[1] = tier /\ key[3] = index
    BY <1>3
  <1>4. QED
    BY <1>1, <1>2, <1>3 DEF key

\* The lists of a file are lists.
ListsOf(file) ==
    \A p \in DOMAIN file : file[p].is = "list" => \E n \in Nat : DOMAIN file[p].items = 1..n

\* So are those of the tiers, when the files are merged.
LEMMA SpecsAreListed ==
    ASSUME NEW files, files.default = LC!DefaultFile, ListsOf(LC!Chosen(files)), NEW tier
    PROVE  \E n \in Nat : DOMAIN LC!Specs(LC!Raw(files), tier) = 1..n
  <1> DEFINE raw == LC!Raw(files)
             file == LC!Chosen(files)
             list == <<"tiers", tier, "candidates">>
  <1>1. ASSUME NEW p \in DOMAIN LC!DefaultFile PROVE LC!DefaultFile[p].is # "list"
    <2>1. \/ \E t : LC!DefaultFile[p] = LC!Text(t)
          \/ LC!DefaultFile[p] = LC!Number
      BY DEF LC!DefaultFile
    <2>2. QED
      BY <2>1 DEF LC!Text, LC!Number, LC!Value
  <1>2. raw = LC!Merge(LC!DefaultFile, file)
    BY DEF LC!Raw
  <1> HIDE DEF file
  <1>3. ASSUME NEW p \in DOMAIN raw
       PROVE  (p \in DOMAIN file /\ raw[p] = file[p]) \/ (p \in DOMAIN LC!DefaultFile /\ raw[p] = LC!DefaultFile[p])
    <2> HIDE DEF raw
    <2>1. QED
      BY <1>2, <1>3 DEF LC!Merge
  <1> HIDE DEF raw
  <1>4. ASSUME list \in DOMAIN raw, raw[list].is = "list" PROVE \E n \in Nat : DOMAIN raw[list].items = 1..n
    BY <1>1, <1>3, <1>4 DEF ListsOf, file
  <1>5. \/ list \in DOMAIN raw /\ raw[list].is = "list" /\ LC!Specs(raw, tier) = raw[list].items
        \/ \E item : LC!Specs(raw, tier) = <<item>>
        \/ LC!Specs(raw, tier) = <<>>
    BY DEF LC!Specs
  <1>6. 0 \in Nat /\ 1 \in Nat /\ DOMAIN <<>> = 1..0 /\ \A item : DOMAIN <<item>> = 1..1
    OBVIOUS
  <1>7. QED
    BY <1>4, <1>5, <1>6 DEF raw

\* Those of one tier, by the key and the place.
LEMMA TierKeysDiffer ==
    ASSUME NEW raw, NEW tier, NEW u, NEW providers,
           \A t : \E n \in Nat : DOMAIN LC!Specs(raw, t) = 1..n,
           NEW i \in DOMAIN LC!TierCandidates(raw, tier, providers),
           NEW j \in DOMAIN LC!TierCandidates(raw, u, providers),
           LC!TierCandidates(raw, tier, providers)[i].key = LC!TierCandidates(raw, u, providers)[j].key,
           Len(LC!TierCandidates(raw, tier, providers)[i].key) > 1
    PROVE  tier = u /\ i = j
  <1> DEFINE a == LC!TierCandidates(raw, tier, providers)[i]
             b == LC!TierCandidates(raw, u, providers)[j]
  <1>1. PICK n \in Nat : DOMAIN LC!Specs(raw, tier) = 1..n
    OBVIOUS
  <1>2. PICK m \in Nat : DOMAIN LC!Specs(raw, u) = 1..m
    OBVIOUS
  <1> HIDE DEF a, b
  <1>3. PICK p \in 1..n : OfItem(raw, tier, providers, n, i, p)
    BY <1>1, ItemsInOrder
  <1>4. PICK r \in 1..m : OfItem(raw, u, providers, m, j, r)
    BY <1>2, ItemsInOrder
  <1>5. a.key = b.key /\ Len(a.key) > 1
    BY DEF a, b
  <1>6. a.key[1] = tier /\ a.key[3] = p - 1
    <2>1. a = LC!Candidate(tier, p - 1, LC!Specs(raw, tier)[p], providers)
      BY <1>3 DEF OfItem, a
    <2>2. QED
      BY <1>5, <2>1, KeyOfCandidate
  <1>7. b.key[1] = u /\ b.key[3] = r - 1
    <2>1. b = LC!Candidate(u, r - 1, LC!Specs(raw, u)[r], providers)
      BY <1>4 DEF OfItem, b
    <2>2. QED
      BY <1>5, <2>1, KeyOfCandidate
  <1>8. tier = u
    BY <1>5, <1>6, <1>7
  <1>9. p = r
    <2>1. p - 1 = r - 1
      BY <1>5, <1>6, <1>7
    <2>2. p \in Int /\ r \in Int
      OBVIOUS
    <2>3. QED
      BY <2>1, <2>2
  <1>10. n = m
    <2>1. 1..n = 1..m
      BY <1>1, <1>2, <1>8
    <2>2. QED
      BY <2>1
  <1>11. QED
    BY <1>3, <1>4, <1>8, <1>9, <1>10 DEF OfItem

\* Two candidates without a key of the user's never share one.
LEMMA KeysDiffer ==
    ASSUME NEW files, files.default = LC!DefaultFile, ListsOf(LC!Chosen(files)), NEW env, NEW gateway,
           NEW cfg, cfg.candidates = LC!CandidatesByTier(LC!Raw(files), env, gateway)
    PROVE  LC!KeysTellApart(cfg)
  <1> DEFINE raw == LC!Raw(files)
             providers == LC!Providers(raw, env, gateway)
             own == {t \in LC!Names(raw, "tiers") : LC!TierCandidates(raw, t, providers) # <<>>}
             from == {t \in {"strong", "weak"} : gateway.present /\ gateway.models[t] # ""}
             cs == cfg.candidates
  <1>1. \A t : \E n \in Nat : DOMAIN LC!Specs(raw, t) = 1..n
    BY SpecsAreListed
  <1>2. cs = IF own # {} THEN [t \in own |-> LC!TierCandidates(raw, t, providers)]
             ELSE [t \in from |-> <<LC!GatewayCandidate(t, gateway)>>]
    BY DEF LC!CandidatesByTier
  <1> HIDE DEF raw, providers, own, from
  <1>3. ASSUME NEW t \in DOMAIN cs, NEW u \in DOMAIN cs, NEW i \in DOMAIN cs[t], NEW j \in DOMAIN cs[u],
               cs[t][i].key = cs[u][j].key, Len(cs[t][i].key) > 1
       PROVE  t = u /\ i = j
    <2> HIDE DEF cs
    <2>1. CASE own # {}
      <3>1. \A v \in DOMAIN cs : cs[v] = LC!TierCandidates(raw, v, providers)
        BY <1>2, <2>1
      <3>2. QED
        BY <1>1, <1>3, <3>1, TierKeysDiffer
    <2>2. CASE own = {}
      <3>1. \A v \in DOMAIN cs : cs[v] = <<LC!GatewayCandidate(v, gateway)>>
        BY <1>2, <2>2
      <3>2. i = 1 /\ j = 1
        BY <3>1
      <3>3. cs[t][i].key = <<t, "llmgateway", 0>> /\ cs[u][j].key = <<u, "llmgateway", 0>>
        BY <3>1, <3>2 DEF LC!GatewayCandidate, LC!Key
      <3>4. QED
        BY <1>3, <3>2, <3>3
    <2>3. QED
      BY <2>1, <2>2
  <1>4. QED
    BY <1>3 DEF LC!KeysTellApart

\* Inputs: files of the user and of the project whose lists are lists.
ConfigInput == rule = "config" => ListsOf(x.user) /\ ListsOf(x.project)

\* config.py, llm_preflight.py, cli.py: a preflight that passes is enough, keys tell
\* the candidates apart and defaults stay; of files, environments and gateways of any content.
THEOREM PreflightIsEnough == ConfigInput => PreflightCovers
  <1> DEFINE files == [default |-> LC!DefaultFile, user |-> x.user, project |-> x.project, hasProject |-> x.hasProject]
             cfg == LC!Load(files, x.env, x.gateway)
  <1>1. ASSUME ConfigInput, rule = "config" PROVE files.default = LC!DefaultFile /\ ListsOf(LC!Chosen(files))
    BY <1>1 DEF ConfigInput, LC!Chosen
  <1>2. ASSUME LC!PreflightCovers(files, cfg), LC!KeysTellApart(cfg), LC!DefaultsKept(files, cfg)
       PROVE  PreflightCovers
    BY <1>2 DEF PreflightCovers
  <1> HIDE DEF files
  <1>3. /\ cfg.raw = LC!Raw(files)
        /\ cfg.candidates = LC!CandidatesByTier(LC!Raw(files), x.env, x.gateway)
    BY DEF LC!Load
  <1> HIDE DEF cfg
  <1>4. ASSUME ConfigInput, rule = "config" PROVE LC!PreflightCovers(files, cfg)
    BY <1>1, <1>3, <1>4, CoveredCalls
  <1>5. ASSUME ConfigInput, rule = "config" PROVE LC!KeysTellApart(cfg)
    BY <1>1, <1>3, <1>5, KeysDiffer
  <1>6. ASSUME ConfigInput, rule = "config" PROVE LC!DefaultsKept(files, cfg)
    BY <1>1, <1>3, <1>6, DefaultsStay
  <1>7. rule # "config" => PreflightCovers
    BY DEF PreflightCovers
  <1>8. QED
    BY <1>2, <1>4, <1>5, <1>6, <1>7
-----------------------------------------------------------------------------
(* Duplicates. *)

LEMMA SameCardinality4 == \A T : ND!Cardinality(T) = Cardinality(T)
  BY DEF ND!Cardinality, Cardinality

\* Functions that are told apart by where they are.
Located(fs) ==
    /\ IsFiniteSet(fs)
    /\ \A f \in fs : f.path \in Int /\ f.line \in Int
    /\ \A f, g \in fs : f.path = g.path /\ f.line = g.line => f = g

\* s has the functions, each once, and begins with the first of them.
Lists(s, fs) ==
    /\ s \in Seq(fs) /\ Len(s) = Cardinality(fs) /\ Len(s) \in Nat
    /\ \A i, j \in 1..Len(s) : s[i] = s[j] => i = j
    /\ \A f \in fs : \E i \in 1..Len(s) : s[i] = f
    /\ \A f \in fs : ~ND!Before(f, s[1])

LEMMA InOrderLists ==
    ASSUME NEW fs, Located(fs)
    PROVE  Lists(ND!InOrder(fs), fs)
  <1> DEFINE n == Cardinality(fs)
             R == {p \in fs \X fs : ND!Before(p[1], p[2])}
             B(a) == {b \in fs : <<b, a>> \in R}
             C(a) == ND!Cardinality({b \in fs : ND!Before(b, a)})
             q == ND!InOrder(fs)
  <1>1. IsFiniteSet(fs) /\ n \in Nat
    BY FS_CardinalityType DEF Located
  <1>2. \A a, b \in fs : <<a, b>> \in R <=> ND!Before(a, b)
    OBVIOUS
  <1>3. \A a, b \in fs : a = b \/ <<a, b>> \in R \/ <<b, a>> \in R
    <2>1. ASSUME NEW a \in fs, NEW b \in fs PROVE a = b \/ ND!Before(a, b) \/ ND!Before(b, a)
      BY DEF Located, ND!Before
    <2>2. QED
      BY <1>2, <2>1
  <1>4. Orders(R, fs)
    <2>1. ASSUME NEW a \in fs PROVE <<a, a>> \notin R
      BY <1>2 DEF Located, ND!Before
    <2>2. ASSUME NEW a \in fs, NEW b \in fs, NEW c \in fs, <<a, b>> \in R, <<b, c>> \in R PROVE <<a, c>> \in R
      <3>1. ND!Before(a, b) /\ ND!Before(b, c)
        BY <1>2, <2>2
      <3>2. ND!Before(a, c)
        BY <3>1 DEF Located, ND!Before
      <3>3. QED
        BY <1>2, <3>2
    <2> HIDE DEF R
    <2>3. QED
      BY <2>1, <2>2 DEF Orders
  <1>5. \A a \in fs : C(a) = Cardinality(B(a))
    <2>1. \A a \in fs : B(a) = {b \in fs : ND!Before(b, a)}
      BY <1>2
    <2> HIDE DEF B
    <2>2. QED
      BY <2>1, SameCardinality4
  <1> HIDE DEF R
  <1>6. OrdersAll(R, fs)
    BY <1>3, <1>4 DEF OrdersAll
  <1>7. \A i \in 1..n : \E a \in fs : C(a) = i - 1
    <2>1. Ranked(R, fs)
      BY <1>1, <1>6, RankedSet
    <2>2. QED
      BY <1>5, <2>1 DEF Ranked
  <1>8. q = [i \in 1..n |-> CHOOSE a \in fs : C(a) = i - 1]
    <2>1. q = [i \in 1..ND!Cardinality(fs) |-> CHOOSE a \in fs : C(a) = i - 1]
      BY Zenon DEF ND!InOrder, ND!Sorted
    <2> HIDE DEF C, q
    <2>2. QED
      BY <2>1, SameCardinality4
  <1> HIDE DEF B, C, q
  <1>9. q \in [1..n -> fs] /\ \A i \in 1..n : C(q[i]) = i - 1
    BY <1>7, <1>8
  <1>10. Numbered(q, fs, R)
    <2>1. \A i \in 1..n : Cardinality({b \in fs : <<b, q[i]>> \in R}) = i - 1
      BY <1>5, <1>9 DEF B
    <2>2. QED
      BY <1>1, <1>6, <1>9, <2>1, ElementsByPlace
  <1>11. ASSUME NEW f \in fs PROVE ~ND!Before(f, q[1])
    <2>1. PICK i \in 1..Len(q) : q[i] = f
      BY <1>10 DEF Numbered
    <2>2. 1 \in 1..Len(q) /\ q[1] \in fs /\ ~(i < 1)
      BY <1>10, <2>1 DEF Numbered
    <2>3. <<f, q[1]>> \notin R
      BY <1>10, <2>1, <2>2 DEF Numbered
    <2>4. QED
      BY <1>2, <2>2, <2>3
  <1>12. Lists(q, fs)
    BY <1>10, <1>11 DEF Lists, Numbered
  <1>13. QED
    BY <1>12 DEF q

LEMMA PartLocated ==
    ASSUME NEW fs, Located(fs), NEW m \in SUBSET fs
    PROVE  Located(m)
  <1>1. IsFiniteSet(m)
    BY FS_Subset DEF Located
  <1>2. QED
    BY <1>1 DEF Located

\* A family is of one group and one file; of two families none shares a member.
LEMMA FamilyMembers ==
    ASSUME NEW group, NEW m \in ND!Families(group)
    PROVE  /\ m \in SUBSET group /\ Cardinality(m) >= 2
           /\ \A f \in m : m = ND!FamilyOf(f, group)
           /\ \A f, g \in m : f.path = g.path
  <1>1. PICK f \in group : m = ND!FamilyOf(f, group) /\ ND!Cardinality(ND!FamilyOf(f, group)) >= 2
    BY DEF ND!Families
  <1>2. m = {g \in group : g.path = f.path /\ ND!FamilyKey(g) = ND!FamilyKey(f)}
    BY <1>1 DEF ND!FamilyOf
  <1>3. Cardinality(m) >= 2
    BY <1>1, SameCardinality4
  <1>4. ASSUME NEW g \in m PROVE m = ND!FamilyOf(g, group)
    <2>1. g.path = f.path /\ ND!FamilyKey(g) = ND!FamilyKey(f)
      BY <1>2
    <2>2. QED
      BY <1>2, <2>1 DEF ND!FamilyOf
  <1>5. \A g, h \in m : g.path = h.path
    BY <1>2
  <1>6. QED
    BY <1>2, <1>3, <1>4, <1>5

\* Of pairs of numbers there is a first one.
LEMMA FirstPair ==
    ASSUME NEW n \in Nat, NEW ok \in SUBSET ((1..n) \X (1..n)), ok # {}
    PROVE  \E p \in ok : \A q \in ok : p[1] < q[1] \/ (p[1] = q[1] /\ p[2] <= q[2])
  <1> DEFINE T == {p[1] : p \in ok}
  <1>1. T \in SUBSET Nat /\ T # {}
    OBVIOUS
  <1>2. PICK a \in T : \A b \in T : a <= b
    <2> HIDE DEF T
    <2>1. QED
      BY <1>1, LeastNumber
  <1> DEFINE U == {p[2] : p \in {q \in ok : q[1] = a}}
  <1>3. U \in SUBSET Nat /\ U # {}
    OBVIOUS
  <1>4. PICK c \in U : \A d \in U : c <= d
    <2> HIDE DEF U
    <2>1. QED
      BY <1>3, LeastNumber
  <1>5. PICK p \in ok : p[1] = a /\ p[2] = c
    OBVIOUS
  <1>6. ASSUME NEW q \in ok PROVE p[1] < q[1] \/ (p[1] = q[1] /\ p[2] <= q[2])
    <2>1. a <= q[1]
      BY <1>2
    <2>2. q[1] = a => c <= q[2]
      BY <1>4
    <2>3. a \in Nat /\ q[1] \in Nat
      BY <1>1
    <2>4. QED
      BY <1>5, <2>1, <2>2, <2>3
  <1>7. QED
    BY <1>6

\* A list of two or more is of functions that differ, and has one that is not f.
LEMMA ListOfTwo ==
    ASSUME NEW fs, NEW s, Lists(s, fs), Cardinality(fs) >= 2
    PROVE  /\ s[1] \in fs /\ s[2] \in fs /\ s[1] # s[2]
           /\ \A f \in fs : ND!FirstOther(f, s) \in fs /\ ND!FirstOther(f, s) # f
  <1>1. s \in Seq(fs) /\ Len(s) \in Nat /\ Len(s) >= 2 /\ DOMAIN s = 1..Len(s)
    BY DEF Lists
  <1>2. \A i \in 1..Len(s) : s[i] \in fs
    BY <1>1
  <1>3. s[1] \in fs /\ s[2] \in fs /\ s[1] # s[2]
    <2>1. 1 \in 1..Len(s) /\ 2 \in 1..Len(s) /\ 1 # 2
      BY <1>1
    <2>2. QED
      BY <1>2, <2>1 DEF Lists
  <1>4. ASSUME NEW f \in fs PROVE ND!FirstOther(f, s) \in fs /\ ND!FirstOther(f, s) # f
    <2> DEFINE T == {i \in 1..Len(s) : s[i] # f}
    <2>1. T \in SUBSET Nat /\ T # {}
      <3>1. 1 \in 1..Len(s) /\ 2 \in 1..Len(s)
        BY <1>1
      <3>2. QED
        BY <1>1, <1>3, <3>1
    <2>2. PICK i \in T : \A k \in T : i <= k
      <3> HIDE DEF T
      <3>1. QED
        BY <2>1, LeastNumber
    <2>3. \A j \in 1..(i - 1) : s[j] = f
      <3>1. ASSUME NEW j \in 1..(i - 1) PROVE s[j] = f
        <4>1. j \in 1..Len(s) /\ j < i
          BY <1>1, <2>1
        <4>2. j \notin T
          <5> HIDE DEF T
          <5>1. T \in SUBSET Nat /\ j \in Nat
            BY <2>1, <4>1
          <5>2. QED
            BY <2>2, <4>1, <5>1
        <4>3. QED
          BY <4>1, <4>2
      <3>2. QED
        BY <3>1
    <2> DEFINE other == CHOOSE k \in DOMAIN s : s[k] # f /\ \A j \in 1..(k - 1) : s[j] = f
    <2>4. other \in DOMAIN s /\ s[other] # f
      <3>1. \E k \in DOMAIN s : s[k] # f /\ \A j \in 1..(k - 1) : s[j] = f
        BY <1>1, <2>3
      <3>2. QED
        BY <3>1, Zenon
    <2>5. ND!FirstOther(f, s) = s[other]
      BY DEF ND!FirstOther
    <2>6. QED
      BY <1>1, <1>2, <2>4, <2>5
  <1>5. QED
    BY <1>3, <1>4

\* The pair that stands for a family is of two members, and the one that is
\* reported is not the first.
LEMMA ChosenPair ==
    ASSUME NEW m, Lists(ND!InOrder(m), m), Cardinality(m) >= 2,
           ND!Representatives(m) # <<>>
    PROVE  LET pair == ND!Representatives(m)
           IN  /\ pair[1] \in m /\ pair[2] \in m
               /\ pair[1] # pair[2] /\ pair[2] # ND!InOrder(m)[1]
  <1> DEFINE s == ND!InOrder(m)
             n == Len(s)
             ok == {p \in (1..n) \X (1..n) : p[1] # p[2] /\ ~ND!ThinPair(s[p[2]], s[p[1]])}
             first == CHOOSE p \in ok : \A q \in ok :
                         p[1] < q[1] \/ (p[1] = q[1] /\ p[2] <= q[2])
  <1>1. n \in Nat /\ n >= 2
    BY DEF Lists
  <1>2. ND!Representatives(m) = IF ok = {} THEN <<>> ELSE <<s[first[1]], s[first[2]]>>
    BY DEF ND!Representatives
  <1>3. ok # {}
    BY <1>2
  <1>4. ok \in SUBSET ((1..n) \X (1..n))
    OBVIOUS
  <1>5. first \in ok /\ \A q \in ok : first[1] < q[1] \/ (first[1] = q[1] /\ first[2] <= q[2])
    <2> HIDE DEF ok, n
    <2>1. \E p \in ok : \A q \in ok : p[1] < q[1] \/ (p[1] = q[1] /\ p[2] <= q[2])
      BY <1>1, <1>3, <1>4, FirstPair
    <2>2. QED
      BY <2>1, Zenon
  <1> HIDE DEF first
  <1>6. first[1] \in 1..n /\ first[2] \in 1..n /\ first[1] # first[2]
        /\ ~ND!ThinPair(s[first[2]], s[first[1]])
    BY <1>5
  <1>7. first[2] # 1
    <2> SUFFICES ASSUME first[2] = 1 PROVE FALSE
      OBVIOUS
    <2>1. ~ND!ThinPair(s[first[1]], s[1])
      BY <1>6 DEF ND!ThinPair
    <2>2. <<1, first[1]>> \in ok
      BY <1>1, <1>6, <2>1
    <2>3. first[1] < 1 \/ first[1] = 1
      BY <1>5, <2>2
    <2>4. QED
      BY <1>1, <1>6, <2>3
  <1>8. /\ s[first[1]] \in m /\ s[first[2]] \in m
        /\ s[first[1]] # s[first[2]] /\ s[first[2]] # s[1]
    <2>1. 1 \in 1..n
      BY <1>1
    <2>2. Lists(s, m)
      OBVIOUS
    <2> HIDE DEF s
    <2>3. \A i \in 1..n : s[i] \in m
      BY <2>2 DEF Lists
    <2>4. \A i, j \in 1..n : s[i] = s[j] => i = j
      BY <2>2 DEF Lists
    <2>5. QED
      BY <1>6, <1>7, <2>1, <2>3, <2>4
  <1>9. ND!Representatives(m) = <<s[first[1]], s[first[2]]>>
    BY <1>2, <1>3
  <1> HIDE DEF ok, s
  <1>10. QED
    BY <1>8, <1>9 DEF s

-----------------------------------------------------------------------------
(* What the scan of one group reports. *)

\* A group has two functions at least, all those of one fingerprint.
LEMMA GroupMembers ==
    ASSUME NEW tree, Located(ND!Candidates(tree)), NEW g \in ND!Groups(tree)
    PROVE  /\ Located(g) /\ Cardinality(g) >= 2 /\ g \in SUBSET ND!Candidates(tree)
           /\ \A f \in g : g = {e \in ND!Candidates(tree) : ND!Fingerprint(e) = ND!Fingerprint(f)}
           /\ \A e, f \in g : ND!Fingerprint(e) = ND!Fingerprint(f)
           /\ Lists(ND!InOrder(g), g)
  <1>1. PICK f \in ND!Candidates(tree) :
           /\ g = {e \in ND!Candidates(tree) : ND!Fingerprint(e) = ND!Fingerprint(f)}
           /\ ND!Cardinality(g) >= 2
    BY DEF ND!Groups
  <1>2. Cardinality(g) >= 2
    BY <1>1, SameCardinality4
  <1>3. \A e \in g : ND!Fingerprint(e) = ND!Fingerprint(f)
    BY <1>1
  <1>4. g \in SUBSET ND!Candidates(tree)
    BY <1>1
  <1>5. Located(g)
    BY <1>4, PartLocated
  <1>6. Lists(ND!InOrder(g), g)
    BY <1>5, InOrderLists
  <1>7. \A e \in g : g = {d \in ND!Candidates(tree) : ND!Fingerprint(d) = ND!Fingerprint(e)}
    BY <1>1, <1>3
  <1>8. QED
    BY <1>2, <1>3, <1>4, <1>5, <1>6, <1>7

\* The families that are in the scope, and the functions that are looked at on
\* their own, each with its reference.
Scoped(g, scope) == {m \in ND!Families(g) : \A f \in m : ND!InScope(f.path, scope)}
RefOf(f, g, scope) ==
    IF scope.full THEN ND!InOrder(g)[1] ELSE ND!FirstOther(f, ND!InOrder(g))
Alone(g, scope) ==
    {f \in ND!Looked(g, scope) : /\ ~ND!SameFamily(f, RefOf(f, g, scope), ND!Families(g))
                              /\ f \notin ND!Reported(Scoped(g, scope))}

LEMMA ResultForms ==
    ASSUME NEW g, NEW scope
    PROVE  ND!GroupResults(g, scope) =
              {ND!FamilyResult(m) : m \in Scoped(g, scope)} \cup
              {ND!PairResult(f, RefOf(f, g, scope)) : f \in Alone(g, scope)}
  BY DEF ND!GroupResults, Scoped, RefOf, Alone

LEMMA PairForm ==
    ASSUME NEW f, NEW ref
    PROVE  LET r == ND!PairResult(f, ref)
           IN  /\ r.at = f /\ r.ref = ref
               /\ ND!IsConcern(r) => r.about = {f, ref}
  BY DEF ND!PairResult, ND!Offer, ND!Concern, ND!IsConcern

LEMMA FamilyForm ==
    ASSUME NEW g, Located(g), NEW m \in ND!Families(g)
    PROVE  LET r == ND!FamilyResult(m)
           IN  /\ r.at \in m /\ r.ref \in m /\ r.at # r.ref
               /\ ND!IsConcern(r) => /\ r.about = m /\ ND!Representatives(m) # <<>>
                                     /\ r.at # ND!InOrder(m)[1]
  <1>1. m \in SUBSET g /\ Cardinality(m) >= 2
    BY FamilyMembers
  <1>2. Located(m)
    BY <1>1, PartLocated
  <1>3. Lists(ND!InOrder(m), m)
    BY <1>2, InOrderLists
  <1> DEFINE pair == ND!Representatives(m)
             s == ND!InOrder(m)
             r == ND!FamilyResult(m)
  <1>4. s[1] \in m /\ s[2] \in m /\ s[1] # s[2]
    BY <1>1, <1>3, ListOfTwo
  <1>5. pair # <<>> => pair[1] \in m /\ pair[2] \in m /\ pair[1] # pair[2] /\ pair[2] # s[1]
    BY <1>1, <1>3, ChosenPair
  <1>6. r = IF pair = <<>>
            THEN [reason |-> "variant_family_thin_wrapper_different_target", at |-> s[1], ref |-> s[2]]
            ELSE [at |-> pair[2], ref |-> pair[1], about |-> m]
    BY DEF ND!FamilyResult, ND!Offer, ND!Concern
  <1> HIDE DEF pair, s, r
  <1>7. /\ r.at \in m /\ r.ref \in m /\ r.at # r.ref
        /\ ND!IsConcern(r) => r.about = m /\ pair # <<>> /\ r.at # s[1]
    <2>1. CASE pair = <<>>
      <3>1. ~ND!IsConcern(r)
        BY <1>6, <2>1 DEF ND!IsConcern
      <3>2. QED
        BY <1>4, <1>6, <2>1, <3>1
    <2>2. CASE pair # <<>>
      BY <1>5, <1>6, <2>2
    <2>3. QED
      BY <2>1, <2>2
  <1>8. QED
    BY <1>7 DEF pair, s, r

\* The reference of a function that is looked at is another of its group.
LEMMA ReferenceIsOther ==
    ASSUME NEW tree, Located(ND!Candidates(tree)), NEW g \in ND!Groups(tree),
           NEW scope, scope.full \in BOOLEAN, NEW f \in ND!Looked(g, scope)
    PROVE  f \in g /\ RefOf(f, g, scope) \in g /\ RefOf(f, g, scope) # f
  <1> DEFINE s == ND!InOrder(g)
  <1>1. Lists(s, g) /\ Cardinality(g) >= 2
    BY GroupMembers
  <1>2. f \in g
    BY DEF ND!Looked
  <1>3. /\ s[1] \in g
        /\ ND!FirstOther(f, s) \in g /\ ND!FirstOther(f, s) # f
    <2> HIDE DEF s
    <2>1. QED
      BY <1>1, <1>2, ListOfTwo
  <1>4. CASE scope.full
    BY <1>2, <1>3, <1>4 DEF ND!Looked, RefOf
  <1>5. CASE ~scope.full
    BY <1>2, <1>3, <1>5 DEF RefOf
  <1>6. QED
    BY <1>4, <1>5

LEMMA SomethingIsFound ==
    ASSUME NEW tree, Located(ND!Candidates(tree)), NEW scope, scope.full \in BOOLEAN,
           NEW g \in ND!Groups(tree), NEW f \in g, ND!InScope(f.path, scope)
    PROVE  ND!GroupResults(g, scope) # {}
  <1>1. CASE Scoped(g, scope) # {}
    BY <1>1, ResultForms
  <1>2. CASE Scoped(g, scope) = {}
    <2>1. ND!Reported(Scoped(g, scope)) = {}
      BY <1>2 DEF ND!Reported
    <2>2. ASSUME NEW e \in ND!Looked(g, scope), ~ND!SameFamily(e, RefOf(e, g, scope), ND!Families(g))
          PROVE  ND!GroupResults(g, scope) # {}
      <3>1. e \in Alone(g, scope)
        BY <2>1, <2>2 DEF Alone
      <3>2. QED
        BY <3>1, ResultForms
    <2>3. CASE scope.full
      <3> DEFINE s == ND!InOrder(g)
      <3>1. Lists(s, g) /\ Cardinality(g) >= 2
        BY GroupMembers
      <3>2. s[1] \in g /\ s[2] \in g /\ s[1] # s[2]
        <4> HIDE DEF s
        <4>1. QED
          BY <3>1, ListOfTwo
      <3>3. s[2] \in ND!Looked(g, scope)
        BY <2>3, <3>2 DEF ND!Looked
      <3>4. ND!Families(g) = {}
        BY <1>2, <2>3 DEF Scoped, ND!InScope
      <3>5. ~ND!SameFamily(s[2], RefOf(s[2], g, scope), ND!Families(g))
        BY <3>4 DEF ND!SameFamily
      <3>6. QED
        BY <2>2, <3>3, <3>5
    <2>4. CASE ~scope.full
      <3>1. f.path \in ND!Named(scope)
        BY <2>4 DEF ND!InScope
      <3>2. f \in ND!Looked(g, scope)
        BY <2>4, <3>1 DEF ND!Looked
      <3>3. ASSUME NEW m \in ND!Families(g), f \in m PROVE FALSE
        <4>1. \A e \in m : e.path = f.path
          BY <3>3, FamilyMembers
        <4>2. m \in Scoped(g, scope)
          BY <3>1, <4>1 DEF Scoped, ND!InScope
        <4>3. QED
          BY <1>2, <4>2
      <3>4. ~ND!SameFamily(f, RefOf(f, g, scope), ND!Families(g))
        BY <3>3 DEF ND!SameFamily
      <3>5. QED
        BY <2>2, <3>2, <3>4
    <2>5. QED
      BY <2>3, <2>4
  <1>3. QED
    BY <1>1, <1>2

\* What is not a concern is counted, and a concern is shown unless the limit is
\* reached.
LEMMA NothingIsDropped ==
    ASSUME NEW tree, Located(ND!Candidates(tree)), NEW scope, scope.full \in BOOLEAN
    PROVE  ND!GroupsAreReported(tree, scope)
  <1> SUFFICES ASSUME NEW shown \in ND!Shown(tree, scope), NEW g \in ND!Groups(tree),
                      NEW f \in g, ND!InScope(f.path, scope), ND!Cardinality(shown) # ScanLimit
               PROVE  \E r \in ND!GroupResults(g, scope) : r \in shown \/ ~ND!IsConcern(r)
    BY DEF ND!GroupsAreReported
  <1>1. shown = ND!Concerns(tree, scope)
    BY DEF ND!Shown
  <1>2. PICK r \in ND!GroupResults(g, scope) : TRUE
    BY SomethingIsFound
  <1>3. r \in ND!Scan(tree, scope)
    BY <1>2 DEF ND!Scan
  <1>4. QED
    BY <1>1, <1>2, <1>3 DEF ND!Concerns

\* What is found in a group relates two of its members, the first in the scope.
LEMMA FoundInGroup ==
    ASSUME NEW tree, Located(ND!Candidates(tree)), NEW scope, scope.full \in BOOLEAN,
           NEW g \in ND!Groups(tree), NEW r \in ND!GroupResults(g, scope)
    PROVE  /\ r.at \in g /\ r.ref \in g /\ r.at # r.ref
           /\ ND!InScope(r.at.path, scope)
  <1>1. Located(g)
    BY GroupMembers
  <1>2. ASSUME NEW m \in Scoped(g, scope), r = ND!FamilyResult(m)
        PROVE  /\ r.at \in m /\ r.ref \in m /\ r.at # r.ref
               /\ m \in SUBSET g /\ ND!InScope(r.at.path, scope)
    <2>1. m \in ND!Families(g) /\ \A f \in m : ND!InScope(f.path, scope)
      BY DEF Scoped
    <2>2. m \in SUBSET g
      BY <2>1, FamilyMembers
    <2>3. r.at \in m /\ r.ref \in m /\ r.at # r.ref
      BY <1>1, <1>2, <2>1, FamilyForm
    <2>4. QED
      BY <2>1, <2>2, <2>3
  <1>3. ASSUME NEW f \in Alone(g, scope), r = ND!PairResult(f, RefOf(f, g, scope))
        PROVE  /\ r.at \in g /\ r.ref \in g /\ r.at # r.ref /\ ND!InScope(r.at.path, scope)
    <2>1. f \in ND!Looked(g, scope)
      BY DEF Alone
    <2>2. f \in g /\ RefOf(f, g, scope) \in g /\ RefOf(f, g, scope) # f
      BY <2>1, ReferenceIsOther
    <2>3. r.at = f /\ r.ref = RefOf(f, g, scope)
      BY <1>3, PairForm
    <2>4. ND!InScope(f.path, scope)
      BY <2>1 DEF ND!Looked, ND!InScope
    <2>5. QED
      BY <2>2, <2>3, <2>4
  <1>4. \/ \E m \in Scoped(g, scope) : r = ND!FamilyResult(m)
        \/ \E f \in Alone(g, scope) : r = ND!PairResult(f, RefOf(f, g, scope))
    BY ResultForms
  <1>5. CASE \E m \in Scoped(g, scope) : r = ND!FamilyResult(m)
    BY <1>1, <1>2, <1>5
  <1>6. CASE \E f \in Alone(g, scope) : r = ND!PairResult(f, RefOf(f, g, scope))
    BY <1>1, <1>3, <1>6
  <1>7. QED
    BY <1>4, <1>5, <1>6

LEMMA AllOfTheScope ==
    ASSUME NEW tree, Located(ND!Candidates(tree)), NEW scope, scope.full \in BOOLEAN
    PROVE  ND!FindingsAreOfTheScope(tree, scope)
  <1> SUFFICES ASSUME NEW g \in ND!Groups(tree), NEW r \in ND!GroupResults(g, scope)
               PROVE  /\ ND!InScope(r.at.path, scope)
                      /\ r.at # r.ref /\ ND!Fingerprint(r.at) = ND!Fingerprint(r.ref)
    BY DEF ND!FindingsAreOfTheScope, ND!Scan
  <1>1. \A e, f \in g : ND!Fingerprint(e) = ND!Fingerprint(f)
    BY GroupMembers
  <1>2. r.at \in g /\ r.ref \in g /\ r.at # r.ref /\ ND!InScope(r.at.path, scope)
    BY FoundInGroup
  <1>3. QED
    BY <1>1, <1>2

\* What a concern of a full run is: a family, or a function with the first of
\* its group.
LEMMA ConcernForms ==
    ASSUME NEW tree, Located(ND!Candidates(tree)), NEW g \in ND!Groups(tree),
           NEW r \in ND!GroupResults(g, ND!Everything), ND!IsConcern(r)
    PROVE  \/ \E m \in ND!Families(g) :
                 /\ r = ND!FamilyResult(m) /\ r.about = m /\ r.at \in m
                 /\ ND!Representatives(m) # <<>> /\ r.at # ND!InOrder(m)[1]
           \/ \E f \in g :
                 /\ r = ND!PairResult(f, ND!InOrder(g)[1]) /\ r.about = {f, ND!InOrder(g)[1]}
                 /\ r.at = f /\ f # ND!InOrder(g)[1]
                 /\ \A m \in ND!Families(g) : ND!Representatives(m) # <<>> => f \notin m
  <1> DEFINE all == ND!Everything
  <1>1. all.full = TRUE
    BY DEF ND!Everything
  <1>2. Scoped(g, all) = ND!Families(g)
    BY <1>1 DEF Scoped, ND!InScope
  <1>3. \A f : RefOf(f, g, all) = ND!InOrder(g)[1]
    BY <1>1 DEF RefOf
  <1>4. Located(g)
    BY GroupMembers
  <1>5. ASSUME NEW m \in ND!Families(g), r = ND!FamilyResult(m)
        PROVE  /\ r.about = m /\ r.at \in m
               /\ ND!Representatives(m) # <<>> /\ r.at # ND!InOrder(m)[1]
    BY <1>4, <1>5, FamilyForm
  <1>6. ASSUME NEW f \in Alone(g, all), r = ND!PairResult(f, ND!InOrder(g)[1])
        PROVE  /\ f \in g /\ r.about = {f, ND!InOrder(g)[1]}
               /\ r.at = f /\ f # ND!InOrder(g)[1]
               /\ \A m \in ND!Families(g) : ND!Representatives(m) # <<>> => f \notin m
    <2>1. f \in g /\ f # ND!InOrder(g)[1]
      BY <1>1 DEF Alone, ND!Looked
    <2>2. r.at = f /\ r.about = {f, ND!InOrder(g)[1]}
      BY <1>6, PairForm
    <2>3. \A m \in ND!Families(g) : ND!Representatives(m) # <<>> => f \notin m
      BY <1>2 DEF Alone, ND!Reported
    <2>4. QED
      BY <2>1, <2>2, <2>3
  <1> HIDE DEF all
  <1>7. \/ \E m \in ND!Families(g) : r = ND!FamilyResult(m)
        \/ \E f \in Alone(g, all) : r = ND!PairResult(f, ND!InOrder(g)[1])
    BY <1>2, <1>3, ResultForms DEF all
  <1>8. CASE \E m \in ND!Families(g) : r = ND!FamilyResult(m)
    BY <1>5, <1>8
  <1>9. CASE \E f \in Alone(g, all) : r = ND!PairResult(f, ND!InOrder(g)[1])
    BY <1>6, <1>9
  <1>10. QED
    BY <1>7, <1>8, <1>9

\* The first of a family that has the first of the group is that function.
LEMMA FirstOfFamily ==
    ASSUME NEW g, Located(g), Lists(ND!InOrder(g), g), NEW m \in ND!Families(g),
           ND!InOrder(g)[1] \in m
    PROVE  ND!InOrder(m)[1] = ND!InOrder(g)[1]
  <1> DEFINE a == ND!InOrder(g)[1]
             b == ND!InOrder(m)[1]
  <1>1. m \in SUBSET g /\ Cardinality(m) >= 2
    BY FamilyMembers
  <1>2. Located(m)
    BY <1>1, PartLocated
  <1>3. Lists(ND!InOrder(m), m)
    BY <1>2, InOrderLists
  <1>4. b \in m
    BY <1>1, <1>3, ListOfTwo
  <1>5. ~ND!Before(b, a) /\ ~ND!Before(a, b)
    BY <1>1, <1>3, <1>4 DEF Lists
  <1>6. a \in g /\ b \in g
    BY <1>1, <1>4
  <1> HIDE DEF a, b
  <1>7. a = b
    BY <1>5, <1>6 DEF Located, ND!Before
  <1>8. QED
    BY <1>7 DEF a, b

LEMMA ReportedOnceInAGroup ==
    ASSUME NEW tree, Located(ND!Candidates(tree)), NEW g \in ND!Groups(tree),
           NEW r \in ND!GroupResults(g, ND!Everything), ND!IsConcern(r),
           NEW q \in ND!GroupResults(g, ND!Everything), ND!IsConcern(q),
           q.at \in r.about
    PROVE  r = q
  <1> DEFINE a == ND!InOrder(g)[1]
             Chosen(m) == ND!Representatives(m) # <<>>
             Family(c, m) == /\ m \in ND!Families(g) /\ c = ND!FamilyResult(m)
                             /\ c.about = m /\ c.at \in m
                             /\ Chosen(m) /\ c.at # ND!InOrder(m)[1]
             Pair(c, f) == /\ f \in g /\ c = ND!PairResult(f, a) /\ c.about = {f, a}
                           /\ c.at = f /\ f # a
                           /\ \A m \in ND!Families(g) : Chosen(m) => f \notin m
  <1>1. (\E m : Family(r, m)) \/ (\E f : Pair(r, f))
    BY ConcernForms
  <1>2. (\E m : Family(q, m)) \/ (\E f : Pair(q, f))
    BY ConcernForms
  <1>3. ASSUME NEW m, Family(r, m), NEW k, Family(q, k) PROVE r = q
    <2>1. q.at \in m /\ q.at \in k
      BY <1>3
    <2>2. m = k
      BY <1>3, <2>1, FamilyMembers
    <2>3. QED
      BY <1>3, <2>2
  <1>4. ASSUME NEW m, Family(r, m), NEW e, Pair(q, e) PROVE r = q
    BY <1>4
  <1>5. ASSUME NEW f, Pair(r, f), NEW k, Family(q, k) PROVE r = q
    <2>1. f \notin k
      BY <1>5
    <2>2. q.at = a /\ a \in k
      BY <1>5, <2>1
    <2>3. Located(g) /\ Lists(ND!InOrder(g), g)
      BY GroupMembers
    <2>4. ND!InOrder(k)[1] = a
      BY <1>5, <2>2, <2>3, FirstOfFamily
    <2>5. QED
      BY <1>5, <2>2, <2>4
  <1>6. ASSUME NEW f, Pair(r, f), NEW e, Pair(q, e) PROVE r = q
    BY <1>6
  <1> HIDE DEF Family, Pair
  <1>7. QED
    BY <1>1, <1>2, <1>3, <1>4, <1>5, <1>6

LEMMA ReportedOnce ==
    ASSUME NEW tree, Located(ND!Candidates(tree))
    PROVE  ND!NoMemberReportedTwice(tree)
  <1> SUFFICES ASSUME NEW r \in ND!Concerns(tree, ND!Everything),
                      NEW q \in ND!Concerns(tree, ND!Everything), q.at \in r.about
               PROVE  r = q
    BY DEF ND!NoMemberReportedTwice
  <1>1. PICK g \in ND!Groups(tree) : r \in ND!GroupResults(g, ND!Everything)
    BY DEF ND!Concerns, ND!Scan
  <1>2. PICK h \in ND!Groups(tree) : q \in ND!GroupResults(h, ND!Everything)
    BY DEF ND!Concerns, ND!Scan
  <1>3. ND!IsConcern(r) /\ ND!IsConcern(q)
    BY DEF ND!Concerns
  <1>4. ASSUME NEW k \in ND!Groups(tree), NEW c \in ND!GroupResults(k, ND!Everything), ND!IsConcern(c)
        PROVE  c.at \in k /\ c.about \subseteq k
    <2>1. Lists(ND!InOrder(k), k) /\ Cardinality(k) >= 2
      BY GroupMembers
    <2>2. ND!InOrder(k)[1] \in k
      BY <2>1, ListOfTwo
    <2>3. \A m \in ND!Families(k) : m \in SUBSET k
      BY FamilyMembers
    <2>4. QED
      BY <1>4, <2>2, <2>3, ConcernForms
  <1>5. q.at \in g /\ q.at \in h
    <2>1. r.about \subseteq g
      BY <1>1, <1>3, <1>4
    <2>2. q.at \in h
      BY <1>2, <1>3, <1>4
    <2>3. QED
      BY <2>1, <2>2
  <1> DEFINE same == {e \in ND!Candidates(tree) : ND!Fingerprint(e) = ND!Fingerprint(q.at)}
  <1>6. g = h
    <2>1. \A k \in ND!Groups(tree) : q.at \in k => k = same
      BY GroupMembers
    <2> HIDE DEF same
    <2>2. QED
      BY <1>5, <2>1
  <1>7. QED
    BY <1>1, <1>2, <1>3, <1>6, ReportedOnceInAGroup

\* What a rule of duplicates is given: functions that differ in their path or
\* their line, as the functions of parsed files do.
DuplicatesInput ==
    rule = "duplicates" => /\ Located(ND!Candidates(x.tree))
                           /\ \A scope \in x.scopes : scope.full \in BOOLEAN

\* near_duplicate.py: for every tree and every set of scopes, whatever the
\* names, bodies and fingerprints of the functions are, and whatever name each
\* changed path has without its leading dots, a group that the scope so names is
\* left out by nothing but the limit, each finding is of the files so named and
\* relates two functions of one fingerprint, and no function is found twice.
THEOREM DuplicatesAreReportedOnce == DuplicatesInput => GroupsReportedOnce
  <1> SUFFICES ASSUME DuplicatesInput, rule = "duplicates"
               PROVE  /\ ND!NoMemberReportedTwice(x.tree)
                      /\ \A scope \in x.scopes :
                            ND!GroupsAreReported(x.tree, scope) /\ ND!FindingsAreOfTheScope(x.tree, scope)
    BY DEF GroupsReportedOnce
  <1>1. Located(ND!Candidates(x.tree)) /\ \A scope \in x.scopes : scope.full \in BOOLEAN
    BY DEF DuplicatesInput
  <1>2. ND!NoMemberReportedTwice(x.tree)
    BY <1>1, ReportedOnce
  <1>3. ASSUME NEW scope \in x.scopes
        PROVE  ND!GroupsAreReported(x.tree, scope) /\ ND!FindingsAreOfTheScope(x.tree, scope)
    BY <1>1, NothingIsDropped, AllOfTheScope
  <1>4. QED
    BY <1>2, <1>3

-----------------------------------------------------------------------------
(* Shadow implementations. *)

LEMMA SameCardinality5 == \A T : SI!Cardinality(T) = Cardinality(T)
  BY DEF SI!Cardinality, Cardinality

\* What shadow_implementation.py scans: finitely many files and definitions, each
\* told apart by its path or its line, and each with finitely many nodes.
Scannable(tree) ==
    /\ IsFiniteSet(tree)
    /\ \A f, g \in tree : f.path = g.path => f = g
    /\ \A f \in tree :
          /\ f.path \in Int /\ IsFiniteSet(f.definitions) /\ IsFiniteSet(DOMAIN f.ast)
          /\ \A d \in f.definitions : d.line \in Int /\ IsFiniteSet(DOMAIN d.ast)
          /\ \A d, e \in f.definitions : d.line = e.line => d = e

\* The product of two vectors of counts has no order, and is a number.
LEMMA DotIsSymmetric ==
    ASSUME NEW a, NEW b, IsFiniteSet(DOMAIN a), IsFiniteSet(DOMAIN b)
    PROVE  SI!Dot(a, b) \in Nat /\ SI!Dot(a, b) = SI!Dot(b, a)
  <1> DEFINE S == {p \in (DOMAIN a) \X (DOMAIN b) : a[p[1]].k = b[p[2]].k}
             T == {p \in (DOMAIN b) \X (DOMAIN a) : b[p[1]].k = a[p[2]].k}
             swap == [p \in S |-> <<p[2], p[1]>>]
  <1>1. IsFiniteSet((DOMAIN a) \X (DOMAIN b))
    BY FS_Product
  <1>2. IsFiniteSet(S)
    BY <1>1, FS_Subset
  <1>3. swap \in Bijection(S, T)
    <2>1. swap \in [S -> T]
      OBVIOUS
    <2>2. ASSUME NEW p \in S, NEW q \in S, swap[p] = swap[q] PROVE p = q
      BY <2>2
    <2>3. ASSUME NEW t \in T PROVE \E p \in S : swap[p] = t
      <3>1. <<t[2], t[1]>> \in S
        OBVIOUS
      <3>2. swap[<<t[2], t[1]>>] = t
        BY <3>1
      <3>3. QED
        BY <3>1, <3>2
    <2> HIDE DEF S, T, swap
    <2>4. QED
      BY <2>1, <2>2, <2>3 DEF Bijection, Injection, Surjection, IsInjective
  <1> HIDE DEF swap
  <1>4. Cardinality(S) \in Nat /\ Cardinality(S) = Cardinality(T)
    <2> HIDE DEF S, T
    <2>1. ExistsBijection(S, T)
      BY <1>3 DEF ExistsBijection
    <2>2. QED
      BY <1>2, <2>1, FS_CardinalityType, FS_Bijection
  <1>5. SI!Dot(a, b) = Cardinality(S) /\ SI!Dot(b, a) = Cardinality(T)
    BY SameCardinality5 DEF SI!Dot
  <1>6. QED
    BY <1>4, <1>5

LEMMA CosineIsSymmetric ==
    ASSUME NEW a, NEW b, IsFiniteSet(DOMAIN a), IsFiniteSet(DOMAIN b)
    PROVE  SI!CosineSquare(a, b) = SI!CosineSquare(b, a)
  <1>1. SI!Dot(a, b) = SI!Dot(b, a)
    BY DotIsSymmetric
  <1>2. SI!Dot(a, a) \in Nat /\ SI!Dot(b, b) \in Nat
    BY DotIsSymmetric
  <1>3. SI!Dot(a, a) * SI!Dot(b, b) = SI!Dot(b, b) * SI!Dot(a, a)
    BY <1>2
  <1>4. QED
    BY <1>1, <1>3, Zenon DEF SI!CosineSquare

LEMMA JaccardIsSymmetric ==
    ASSUME NEW S, NEW T
    PROVE  SI!Jaccard(S, T) = SI!Jaccard(T, S)
  <1>1. S \cap T = T \cap S /\ S \cup T = T \cup S
    OBVIOUS
  <1>2. QED
    BY <1>1, Zenon DEF SI!Jaccard

LEMMA ClosenessIsSymmetric ==
    ASSUME NEW a, NEW b
    PROVE  SI!Closeness(a, b) = SI!Closeness(b, a)
  <1>1. {a, b} = {b, a} /\ {a, b, 1} = {b, a, 1}
    OBVIOUS
  <1>2. QED
    BY <1>1, Zenon DEF SI!Closeness

\* A match has no direction.
LEMMA PairHasNoOrder ==
    ASSUME NEW l, NEW r, IsFiniteSet(DOMAIN l.d.ast), IsFiniteSet(DOMAIN r.d.ast),
           SI!ShadowMatch(l, r)
    PROVE  SI!ShadowMatch(r, l)
  <1>1. SI!NameOverlap(l, r) = SI!NameOverlap(r, l)
    BY JaccardIsSymmetric DEF SI!NameOverlap
  <1>2. SI!AstSimilarity(l, r) = SI!AstSimilarity(r, l)
    BY CosineIsSymmetric DEF SI!AstSimilarity
  <1>3. SI!SignatureSimilarity(l, r) = SI!SignatureSimilarity(r, l)
    BY JaccardIsSymmetric, ClosenessIsSymmetric DEF SI!SignatureSimilarity
  <1>4. SI!ClassSimilarity(l, r) = SI!ClassSimilarity(r, l)
    BY JaccardIsSymmetric, ClosenessIsSymmetric DEF SI!ClassSimilarity
  <1>5. l.d.kind = r.d.kind
    BY DEF SI!ShadowMatch
  <1>6. SI!Similarity(l, r) = SI!Similarity(r, l)
    BY <1>3, <1>4, <1>5 DEF SI!Similarity
  <1>7. SI!IntentionalSplit(r, l) => SI!IntentionalSplit(l, r)
    BY DEF SI!IntentionalSplit
  <1>8. SI!SubdomainSplit(r, l) => SI!SubdomainSplit(l, r)
    BY DEF SI!SubdomainSplit
  <1>9. (SI!CandidateRoles(l) \cap SI!CandidateRoles(r)) = (SI!CandidateRoles(r) \cap SI!CandidateRoles(l))
    OBVIOUS
  <1>10. QED
    BY <1>1, <1>2, <1>5, <1>6, <1>7, <1>8, <1>9 DEF SI!ShadowMatch

LEMMA ModulesHaveNoOrder ==
    ASSUME NEW f, NEW g, IsFiniteSet(DOMAIN f.ast), IsFiniteSet(DOMAIN g.ast),
           SI!ModulePair(f, g)
    PROVE  SI!ModulePair(g, f)
  <1>1. SI!Jaccard(SI!Shape(f), SI!Shape(g)) = SI!Jaccard(SI!Shape(g), SI!Shape(f))
    BY JaccardIsSymmetric
  <1>2. SI!Closeness(SI!Cardinality(SI!Publics(f)), SI!Cardinality(SI!Publics(g))) =
          SI!Closeness(SI!Cardinality(SI!Publics(g)), SI!Cardinality(SI!Publics(f)))
    BY ClosenessIsSymmetric
  <1>3. SI!Jaccard(SI!PublicApi(f), SI!PublicApi(g)) = SI!Jaccard(SI!PublicApi(g), SI!PublicApi(f))
    BY JaccardIsSymmetric
  <1>4. SI!Jaccard(f.imports, g.imports) = SI!Jaccard(g.imports, f.imports)
    BY JaccardIsSymmetric
  <1>5. SI!CosineSquare(f.ast, g.ast) = SI!CosineSquare(g.ast, f.ast)
    BY CosineIsSymmetric
  <1> DEFINE Roles(h) == SI!RoleTokens(SI!ModuleWords(h))
  <1>6. (Roles(f) \cap Roles(g)) = (Roles(g) \cap Roles(f))
    OBVIOUS
  <1>7. QED
    BY <1>1, <1>2, <1>3, <1>4, <1>5, <1>6 DEF SI!ModulePair

LEMMA CandidateIsDefined ==
    ASSUME NEW tree, Scannable(tree), NEW c \in SI!Candidates(tree)
    PROVE  /\ c.file \in tree /\ c.d \in c.file.definitions
           /\ c = [file |-> c.file, d |-> c.d] /\ IsFiniteSet(DOMAIN c.d.ast)
  BY DEF SI!Candidates, SI!ScannedFiles, Scannable

LEMMA MatchesHaveNoOrder ==
    ASSUME NEW tree, Scannable(tree)
    PROVE  SI!MatchIsSymmetric(tree)
  <1>1. ASSUME NEW l \in SI!Candidates(tree), NEW r \in SI!Candidates(tree)
        PROVE  SI!ShadowMatch(l, r) <=> SI!ShadowMatch(r, l)
    <2>1. IsFiniteSet(DOMAIN l.d.ast) /\ IsFiniteSet(DOMAIN r.d.ast)
      BY CandidateIsDefined
    <2>2. QED
      BY <2>1, PairHasNoOrder
  <1>2. ASSUME NEW f \in SI!DryRun(tree).candidates, NEW g \in SI!DryRun(tree).candidates
        PROVE  SI!ModulePair(f, g) <=> SI!ModulePair(g, f)
    <2>1. SI!DryRun(tree).candidates \subseteq tree
      BY DEF SI!DryRun, SI!ScannedFiles
    <2>2. IsFiniteSet(DOMAIN f.ast) /\ IsFiniteSet(DOMAIN g.ast)
      BY <2>1 DEF Scannable
    <2>3. QED
      BY <2>2, ModulesHaveNoOrder
  <1>3. QED
    BY <1>1, <1>2 DEF SI!MatchIsSymmetric

\* The concern of a pair is about the pair, however it is oriented, and is
\* located in a changed file when there is one.
LEMMA ConcernOfPair ==
    ASSUME NEW l, NEW r, NEW scope
    PROVE  LET c == SI!Concern(l, r, scope)
           IN  /\ SI!Pair(c) = {SI!Key(l), SI!Key(r)}
               /\ c.confidence = SI!Confidence(l, r)
               /\ SI!ChangedBy(l, scope) \/ SI!ChangedBy(r, scope) => c.at[1] \in SI!ND!Named(scope)
  <1> DEFINE dup == IF SI!ChangedBy(l, scope) /\ ~SI!ChangedBy(r, scope) THEN l
                    ELSE IF SI!ChangedBy(r, scope) /\ ~SI!ChangedBy(l, scope) THEN r
                    ELSE IF SI!Before(l, r) THEN r ELSE l
             other == IF dup = l THEN r ELSE l
             c == SI!Concern(l, r, scope)
  <1>1. c = [at |-> SI!Key(dup), ref |-> SI!Key(other), kind |-> l.d.kind,
             confidence |-> SI!Confidence(l, r)]
    BY DEF SI!Concern
  <1>2. (dup = l /\ other = r) \/ (dup = r /\ other = l)
    <2>1. dup = l \/ dup = r
      OBVIOUS
    <2> HIDE DEF dup
    <2>2. QED
      BY <2>1
  <1>3. SI!ChangedBy(l, scope) \/ SI!ChangedBy(r, scope) => SI!ChangedBy(dup, scope)
    OBVIOUS
  <1> HIDE DEF dup, other, c
  <1>4. SI!ChangedBy(dup, scope) => SI!Key(dup)[1] \in SI!ND!Named(scope)
    BY DEF SI!ChangedBy, SI!Key
  <1>5. c.at = SI!Key(dup) /\ c.ref = SI!Key(other) /\ c.confidence = SI!Confidence(l, r)
    BY <1>1
  <1>6. {SI!Key(dup), SI!Key(other)} = {SI!Key(l), SI!Key(r)}
    BY <1>2
  <1>7. SI!Pair(c) = {SI!Key(l), SI!Key(r)}
    BY <1>5, <1>6 DEF SI!Pair
  <1>8. QED
    BY <1>3, <1>4, <1>5, <1>7 DEF c

LEMMA ScopeSelects ==
    ASSUME NEW tree, NEW scope
    PROVE  SI!ScopeSelectsPairs(tree, scope)
  <1> SUFFICES ASSUME ~scope.full PROVE SI!ScopeSelectsPairs(tree, scope)
    BY DEF SI!ScopeSelectsPairs
  <1> DEFINE Sees(c) == SI!Seen(c)
             Touched(p) == SI!ChangedBy(p[1], scope) \/ SI!ChangedBy(p[2], scope)
             Here(p) == SI!Concern(p[1], p[2], scope)
             All(p) == SI!Concern(p[1], p[2], SI!Everything)
             M == SI!Matches(tree)
  <1>1. SI!Concerns(tree, scope) = {Here(p) : p \in {q \in M : Touched(q)}}
    BY DEF SI!Concerns
  <1>2. SI!Concerns(tree, SI!Everything) = {All(p) : p \in M}
    BY DEF SI!Concerns, SI!Everything, SI!ND!Everything
  <1>3. \A p \in M : Sees(Here(p)) = Sees(All(p))
    BY ConcernOfPair DEF SI!Seen
  <1>4. \A p \in M : Touched(p) => Here(p).at[1] \in SI!ND!Named(scope)
    BY ConcernOfPair
  <1>5. \A p \in M : Touched(p) <=> \E k \in SI!Pair(All(p)) : k[1] \in SI!ND!Named(scope)
    <2>1. \A p \in M : SI!Pair(All(p)) = {SI!Key(p[1]), SI!Key(p[2])}
      BY ConcernOfPair
    <2>2. \A c : SI!ChangedBy(c, scope) <=> SI!Key(c)[1] \in SI!ND!Named(scope)
      BY DEF SI!ChangedBy, SI!Key
    <2> HIDE DEF All
    <2>3. QED
      BY <2>1, <2>2
  <1> DEFINE TouchedOf(C) == {d \in C : \E k \in SI!Pair(d) : k[1] \in SI!ND!Named(scope)}
  <1> HIDE DEF Here, All, Touched, M
  <1>6. {Sees(c) : c \in {Here(p) : p \in {q \in M : Touched(q)}}} = {Sees(c) : c \in TouchedOf({All(p) : p \in M})}
    <2>1. ASSUME NEW p \in M, Touched(p) PROVE \E d \in TouchedOf({All(q) : q \in M}) : Sees(d) = Sees(Here(p))
      <3>1. All(p) \in TouchedOf({All(q) : q \in M})
        BY <1>5, <2>1
      <3>2. QED
        BY <1>3, <3>1
    <2>2. ASSUME NEW d \in TouchedOf({All(q) : q \in M}) PROVE \E p \in {q \in M : Touched(q)} : Sees(d) = Sees(Here(p))
      <3>1. PICK p \in M : d = All(p)
        OBVIOUS
      <3>2. Touched(p)
        BY <1>5, <3>1
      <3>3. QED
        BY <1>3, <3>1, <3>2
    <2> DEFINE A == {Here(p) : p \in {q \in M : Touched(q)}}
               B == TouchedOf({All(p) : p \in M})
    <2>3. \A c \in A : \E d \in B : Sees(d) = Sees(c)
      BY <2>1
    <2>4. \A d \in B : \E c \in A : Sees(d) = Sees(c)
      BY <2>2
    <2> HIDE DEF Sees, A, B
    <2>5. {Sees(c) : c \in A} = {Sees(d) : d \in B}
      BY <2>3, <2>4
    <2>6. QED
      BY <2>5 DEF A, B
  <1>7. \A c \in SI!Concerns(tree, scope) : c.at[1] \in SI!ND!Named(scope)
    BY <1>1, <1>4
  <1>8. SI!Touched(tree, scope) = TouchedOf({All(p) : p \in M})
    BY <1>2 DEF SI!Touched
  <1> HIDE DEF TouchedOf
  <1>9. QED
    BY <1>1, <1>6, <1>7, <1>8 DEF SI!ScopeSelectsPairs

\* What the limit leaves out comes after what is returned, which is at the limit.
LEMMA LimitLeavesOut ==
    ASSUME NEW tree, NEW scope
    PROVE  SI!OnlyTheLimitLeavesOut(tree, scope)
  <1> SUFFICES ASSUME ~scope.full, NEW shown \in SI!Shown(tree, scope), NEW d \in SI!Touched(tree, scope),
                      \A c \in shown : SI!Seen(c) # SI!Seen(d)
               PROVE  SI!Cardinality(shown) = ScanLimit /\ \A c \in shown : ~(d.confidence > c.confidence)
    BY DEF SI!OnlyTheLimitLeavesOut
  <1>1. {SI!Seen(c) : c \in SI!Concerns(tree, scope)} = {SI!Seen(c) : c \in SI!Touched(tree, scope)}
    BY ScopeSelects DEF SI!ScopeSelectsPairs
  <1>2. PICK e \in SI!Concerns(tree, scope) : SI!Seen(e) = SI!Seen(d)
    BY <1>1
  <1>3. e \notin shown
    BY <1>2
  <1>4. SI!Cardinality(shown) = ScanLimit /\ \A c \in shown : ~SI!Ahead(e, c)
    BY <1>2, <1>3 DEF SI!Shown
  <1>5. e.confidence = d.confidence
    BY <1>2 DEF SI!Seen
  <1>6. QED
    BY <1>4, <1>5 DEF SI!Ahead

-----------------------------------------------------------------------------
(* Duplicates and shadow implementations. *)

\* A definition as near_duplicate sees it.
AsFunction(file, d) ==
    [path |-> file.path, line |-> d.line, parent |-> d.parent, leaf |-> d.leaf, size |-> d.size,
     ast |-> d.ast, body |-> d.body]

LEMMA FunctionIsDefined ==
    ASSUME NEW tree, NEW f \in ND!Candidates(SI!FunctionTree(tree))
    PROVE  \E file \in tree : \E d \in file.definitions : f = AsFunction(file, d)
  <1>1. PICK t \in SI!FunctionTree(tree) : f \in t.functions
    BY DEF ND!Candidates
  <1>2. PICK file \in tree : t.functions = SI!Functions(file)
    BY DEF SI!FunctionTree
  <1>3. PICK d \in file.definitions : f = AsFunction(file, d)
    BY <1>1, <1>2 DEF SI!Functions, AsFunction
  <1>4. QED
    BY <1>3

LEMMA FunctionsLocated ==
    ASSUME NEW tree, Scannable(tree)
    PROVE  Located(ND!Candidates(SI!FunctionTree(tree)))
  <1> DEFINE C == ND!Candidates(SI!FunctionTree(tree))
             Of == [file \in tree |-> {AsFunction(file, d) : d \in file.definitions}]
             All == {Of[file] : file \in tree}
  <1>1. \A f \in C : \E file \in tree : \E d \in file.definitions : f = AsFunction(file, d)
    BY FunctionIsDefined
  <1> HIDE DEF C
  <1>2. ASSUME NEW file \in tree PROVE IsFiniteSet(Of[file])
    <2> DEFINE D == file.definitions
               g == [d \in D |-> AsFunction(file, d)]
    <2>1. Of[file] = {g[d] : d \in D}
      OBVIOUS
    <2>2. IsFiniteSet(D)
      BY DEF Scannable
    <2> HIDE DEF D, g, Of
    <2>3. QED
      BY <2>1, <2>2, FiniteImage
  <1>3. IsFiniteSet(All)
    <2> HIDE DEF Of
    <2>1. QED
      BY FiniteImage DEF Scannable
  <1>4. IsFiniteSet(UNION All)
    <2>1. \A T \in All : IsFiniteSet(T)
      BY <1>2
    <2> HIDE DEF All
    <2>2. QED
      BY <1>3, <2>1, FS_UNION
  <1>5. C \in SUBSET (UNION All)
    BY <1>1
  <1>6. IsFiniteSet(C)
    <2> HIDE DEF All
    <2>1. QED
      BY <1>4, <1>5, FS_Subset
  <1>7. \A f \in C : f.path \in Int /\ f.line \in Int
    BY <1>1 DEF AsFunction, Scannable
  <1>8. ASSUME NEW f \in C, NEW g \in C, f.path = g.path, f.line = g.line PROVE f = g
    <2>1. PICK a \in tree : \E d \in a.definitions : f = AsFunction(a, d)
      BY <1>1
    <2>2. PICK d \in a.definitions : f = AsFunction(a, d)
      BY <2>1
    <2>3. PICK b \in tree : \E e \in b.definitions : g = AsFunction(b, e)
      BY <1>1
    <2>4. PICK e \in b.definitions : g = AsFunction(b, e)
      BY <2>3
    <2>5. a.path = b.path /\ d.line = e.line
      BY <1>8, <2>2, <2>4 DEF AsFunction
    <2>6. a = b
      BY <2>5 DEF Scannable
    <2>7. d = e
      BY <2>5, <2>6 DEF Scannable
    <2>8. QED
      BY <2>2, <2>4, <2>6, <2>7
  <1>9. QED
    BY <1>6, <1>7, <1>8 DEF Located, C

\* The fingerprint of a shadow is made from that of a duplicate.
LEMMA SameFingerprint ==
    ASSUME NEW a, NEW b, ND!Normalized(a) = ND!Normalized(b)
    PROVE  SI!Fingerprint(a) = SI!Fingerprint(b)
  <1>1. \A c : SI!ND!Normalized(c) = ND!Normalized(c)
    BY DEF SI!ND!Normalized, ND!Normalized
  <1>2. QED
    BY <1>1 DEF SI!Fingerprint

\* A candidate and a function at the same place have the same nodes.
LEMMA SamePlace ==
    ASSUME NEW tree, Scannable(tree), NEW c \in SI!Candidates(tree),
           NEW f \in ND!Candidates(SI!FunctionTree(tree)), <<f.path, f.line>> = SI!Key(c)
    PROVE  c.d.ast = f.ast
  <1>1. c.file \in tree /\ c.d \in c.file.definitions
    BY CandidateIsDefined
  <1>2. PICK file \in tree : \E d \in file.definitions : f = AsFunction(file, d)
    BY FunctionIsDefined
  <1>3. PICK d \in file.definitions : f = AsFunction(file, d)
    BY <1>2
  <1>4. f.path = file.path /\ f.line = d.line /\ f.ast = d.ast
    BY <1>3 DEF AsFunction
  <1>5. f.path = c.file.path /\ f.line = c.d.line
    BY DEF SI!Key
  <1>6. file = c.file
    BY <1>1, <1>4, <1>5 DEF Scannable
  <1>7. d = c.d
    BY <1>1, <1>4, <1>5, <1>6 DEF Scannable
  <1>8. QED
    BY <1>4, <1>7

LEMMA ShadowsAreNoDuplicates ==
    ASSUME NEW tree, Scannable(tree), NEW scope, scope.full \in BOOLEAN
    PROVE  NotAlsoDuplicates(tree, scope)
  <1> DEFINE F == SI!FunctionTree(tree)
             Place(f) == <<f.path, f.line>>
  <1> SUFFICES ASSUME NEW c \in ND!Concerns(F, scope), NEW s \in SI!Concerns(tree, scope),
                      {Place(c.at), Place(c.ref)} = SI!Pair(s)
               PROVE  FALSE
    BY DEF NotAlsoDuplicates
  <1>1. Located(ND!Candidates(F))
    BY FunctionsLocated
  <1>2. PICK g \in ND!Groups(F) : c \in ND!GroupResults(g, scope)
    BY DEF ND!Concerns, ND!Scan
  <1> HIDE DEF F
  <1>3. c.at \in g /\ c.ref \in g
    BY <1>1, <1>2, FoundInGroup
  <1>4. /\ g \in SUBSET ND!Candidates(F)
        /\ \A e, f \in g : ND!Fingerprint(e) = ND!Fingerprint(f)
    BY <1>1, GroupMembers
  <1>5. c.at \in ND!Candidates(F) /\ c.ref \in ND!Candidates(F)
    BY <1>3, <1>4
  <1>6. ND!Normalized(c.at.ast) = ND!Normalized(c.ref.ast)
    BY <1>3, <1>4 DEF ND!Fingerprint
  <1>7. SI!Fingerprint(c.at.ast) = SI!Fingerprint(c.ref.ast)
    BY <1>6, SameFingerprint
  <1>8. PICK p \in SI!Matches(tree) : s = SI!Concern(p[1], p[2], scope)
    BY DEF SI!Concerns
  <1> DEFINE l == p[1]
             r == p[2]
  <1>9. l \in SI!Candidates(tree) /\ r \in SI!Candidates(tree) /\ SI!ShadowMatch(l, r)
    BY DEF SI!Matches
  <1>10. SI!Pair(s) = {SI!Key(l), SI!Key(r)}
    BY <1>8, ConcernOfPair
  <1>11. SI!Key(l) # SI!Key(r) /\ SI!Fingerprint(l.d.ast) # SI!Fingerprint(r.d.ast)
    BY <1>9 DEF SI!ShadowMatch, SI!Key
  <1> HIDE DEF l, r, Place
  <1>12. \/ Place(c.at) = SI!Key(l) /\ Place(c.ref) = SI!Key(r)
         \/ Place(c.at) = SI!Key(r) /\ Place(c.ref) = SI!Key(l)
    <2>1. {Place(c.at), Place(c.ref)} = {SI!Key(l), SI!Key(r)}
      BY <1>10
    <2>2. QED
      BY <1>11, <2>1
  <1>13. \A k \in SI!Candidates(tree), f \in ND!Candidates(F) : Place(f) = SI!Key(k) => k.d.ast = f.ast
    BY SamePlace DEF F, Place
  <1>14. \/ l.d.ast = c.at.ast /\ r.d.ast = c.ref.ast
         \/ r.d.ast = c.at.ast /\ l.d.ast = c.ref.ast
    BY <1>5, <1>9, <1>12, <1>13
  <1>15. QED
    BY <1>7, <1>11, <1>14

\* What a rule of shadows is given: a tree that can be scanned.
ShadowsInput ==
    rule = "shadows" => Scannable(x.tree) /\ \A scope \in x.scopes : scope.full \in BOOLEAN

\* shadow_implementation.py: for every tree, whatever its definitions are named and
\* do, a match has no direction, so that a scan of changed files finds exactly the
\* pairs of the full scan that they name, less the dots they begin with, each in a
\* file so named; the limit leaves out only the least certain of them; and no pair
\* of functions that it finds is one that near_duplicate.py finds.
THEOREM ScopeSelectsShadows == ShadowsInput => ScopeSelectsPairs
  <1> SUFFICES ASSUME ShadowsInput, rule = "shadows"
               PROVE  /\ SI!MatchIsSymmetric(x.tree)
                      /\ \A scope \in x.scopes :
                            /\ SI!ScopeSelectsPairs(x.tree, scope) /\ SI!OnlyTheLimitLeavesOut(x.tree, scope)
                            /\ NotAlsoDuplicates(x.tree, scope)
    BY DEF ScopeSelectsPairs
  <1>1. Scannable(x.tree) /\ \A scope \in x.scopes : scope.full \in BOOLEAN
    BY DEF ShadowsInput
  <1>2. SI!MatchIsSymmetric(x.tree)
    BY <1>1, MatchesHaveNoOrder
  <1>3. ASSUME NEW scope \in x.scopes
        PROVE  /\ SI!ScopeSelectsPairs(x.tree, scope) /\ SI!OnlyTheLimitLeavesOut(x.tree, scope)
               /\ NotAlsoDuplicates(x.tree, scope)
    BY <1>1, ScopeSelects, LimitLeavesOut, ShadowsAreNoDuplicates
  <1>4. QED
    BY <1>2, <1>3

-----------------------------------------------------------------------------
(* The retire plan. *)

LEMMA SameCardinality6 == \A T : RP!Cardinality(T) = Cardinality(T)
  BY DEF RP!Cardinality, Cardinality

\* The first n of s.
LEMMA FirstOnes ==
    ASSUME NEW S, NEW s \in Seq(S), NEW n \in Nat
    PROVE  /\ RP!First(n, s) \in Seq(S) /\ Len(RP!First(n, s)) \in Nat
           /\ Len(RP!First(n, s)) = IF n < Len(s) THEN n ELSE Len(s)
           /\ \A i \in 1..Len(RP!First(n, s)) : i \in 1..Len(s) /\ RP!First(n, s)[i] = s[i]
  <1> DEFINE m == IF n < Len(s) THEN n ELSE Len(s)
  <1>1. m \in Nat /\ m <= Len(s) /\ Len(s) \in Nat
    OBVIOUS
  <1>2. RP!First(n, s) = SubSeq(s, 1, m)
    BY DEF RP!First
  <1> HIDE DEF m
  <1>3. SubSeq(s, 1, m) \in Seq(S) /\ Len(SubSeq(s, 1, m)) = m /\ \A i \in 1..m : SubSeq(s, 1, m)[i] = s[i]
    BY <1>1
  <1>4. QED
    BY <1>1, <1>2, <1>3 DEF m

\* What is picked of s is at one of the places.
LEMMA PickedElements ==
    ASSUME NEW S, NEW s \in Seq(S), NEW P \in SUBSET (1..Len(s))
    PROVE  /\ RP!Picked(s, P) \in Seq(S) /\ Len(RP!Picked(s, P)) \in Nat
           /\ P # {} => Len(RP!Picked(s, P)) > 0
           /\ \A k \in 1..Len(RP!Picked(s, P)) : \E i \in P : RP!Picked(s, P)[k] = s[i]
  <1> DEFINE n == Cardinality(P)
             C(i) == RP!Cardinality({j \in P : j <= i})
             q == RP!Picked(s, P)
  <1>1. IsFiniteSet(P) /\ P \in SUBSET Int
    <2>1. IsFiniteSet(1..Len(s))
      BY FS_Interval
    <2>2. IsFiniteSet(P)
      BY <2>1, FS_Subset
    <2>3. QED
      BY <2>2
  <1>2. n \in Nat /\ (P # {} => n > 0)
    BY <1>1, FS_CardinalityType, FS_EmptySet
  <1>3. \A k \in 1..n : \E p \in P : C(p) = k
    BY <1>1, NumbersInOrder, SameCardinality6
  <1>4. q = [k \in 1..n |-> s[CHOOSE i \in P : C(i) = k]]
    <2>1. q = [k \in 1..RP!Cardinality(P) |-> s[CHOOSE i \in P : C(i) = k]]
      BY Zenon DEF RP!Picked
    <2> HIDE DEF q, C
    <2>2. QED
      BY <2>1, SameCardinality6
  <1> HIDE DEF n, C, q
  <1>5. \A k \in 1..n : \E i \in P : q[k] = s[i]
    BY <1>3, <1>4
  <1>6. q \in [1..n -> S]
    BY <1>4, <1>5
  <1>7. q \in Seq(S) /\ Len(q) = n
    BY <1>2, <1>6
  <1>8. QED
    BY <1>2, <1>5, <1>7 DEF q

\* The changed files of a diff, each of one component.
IsDiff(diff) ==
    /\ \E S : diff \in Seq(S)
    /\ \A i \in DOMAIN diff : \E P : diff[i].changed \in Seq(P)
    /\ \A i, j \in DOMAIN diff : \A k \in DOMAIN diff[i].changed, l \in DOMAIN diff[j].changed :
          diff[i].changed[k] = diff[j].changed[l] => i = j

\* A component stands for its transient files, if it has some.
LEMMA FilesOfEntry ==
    ASSUME NEW e, NEW P, e.changed \in Seq(P), NEW k \in DOMAIN RP!DiffFiles(e)
    PROVE  \E i \in DOMAIN e.changed :
              /\ RP!DiffFiles(e)[k] = e.changed[i]
              /\ RP!TransientAt(e.changed) # {} => RP!IsTransient(e.changed[i])
  <1> DEFINE s == e.changed
             T == RP!TransientAt(s)
             u == RP!Picked(s, T)
  <1>1. s \in Seq(P) /\ DOMAIN s = 1..Len(s)
    OBVIOUS
  <1>2. T \in SUBSET (1..Len(s)) /\ \A i \in T : RP!IsTransient(s[i])
    BY DEF RP!TransientAt
  <1>3. RP!DiffFiles(e) = IF T # {} THEN RP!First(6, u) ELSE RP!First(3, s)
    BY Zenon DEF RP!DiffFiles
  <1> HIDE DEF T
  <1>4. u \in Seq(P) /\ \A j \in 1..Len(u) : \E i \in T : u[j] = s[i]
    BY <1>1, <1>2, PickedElements
  <1> HIDE DEF u
  <1>5. CASE T # {}
    <2> DEFINE f == RP!First(6, u)
    <2>1. f \in Seq(P) /\ \A i \in 1..Len(f) : i \in 1..Len(u) /\ f[i] = u[i]
      BY <1>4, FirstOnes
    <2>2. RP!DiffFiles(e) = f /\ k \in DOMAIN f
      BY <1>3, <1>5
    <2> HIDE DEF f
    <2>3. k \in 1..Len(u) /\ f[k] = u[k]
      BY <2>1, <2>2
    <2>4. PICK i \in T : u[k] = s[i]
      BY <1>4, <2>3
    <2>5. QED
      BY <1>1, <1>2, <2>2, <2>3, <2>4
  <1>6. CASE T = {}
    <2> DEFINE f == RP!First(3, s)
    <2>1. f \in Seq(P) /\ \A i \in 1..Len(f) : i \in 1..Len(s) /\ f[i] = s[i]
      BY <1>1, FirstOnes
    <2>2. RP!DiffFiles(e) = f /\ k \in DOMAIN f
      BY <1>3, <1>6
    <2> HIDE DEF f
    <2>3. QED
      BY <1>1, <1>6, <2>1, <2>2 DEF T
  <1>7. QED
    BY <1>5, <1>6

\* What stands in the plan of a diff is of the entries that are flagged.
LEMMA FlaggedEntries ==
    ASSUME NEW diff, IsDiff(diff)
    PROVE  LET items == RP!DiffAddItems(diff)
           IN  /\ \A k \in DOMAIN items : \E i \in DOMAIN diff : items[k].files = RP!DiffFiles(diff[i])
               /\ Len(diff) <= 10 /\ (\E i \in DOMAIN diff : RP!Flagged(diff[i])) => items # <<>>
  <1> DEFINE looked == RP!First(10, diff)
             F == {i \in DOMAIN looked : RP!Flagged(looked[i])}
             u == RP!Picked(looked, F)
             flagged == RP!First(5, u)
             items == RP!DiffAddItems(diff)
  <1>1. PICK S : diff \in Seq(S)
    BY DEF IsDiff
  <1>2. items = [k \in DOMAIN flagged |-> RP!AddItem(flagged[k].component, RP!DiffFiles(flagged[k]))]
    BY Zenon DEF RP!DiffAddItems
  <1>3. /\ looked \in Seq(S) /\ Len(looked) = IF 10 < Len(diff) THEN 10 ELSE Len(diff)
        /\ \A i \in 1..Len(looked) : i \in 1..Len(diff) /\ looked[i] = diff[i]
    BY <1>1, FirstOnes
  <1> HIDE DEF items, looked
  <1>4. F \in SUBSET (1..Len(looked)) /\ \A i \in F : RP!Flagged(looked[i])
    BY <1>3
  <1>5. \A i \in 1..Len(looked) : RP!Flagged(looked[i]) => i \in F
    BY <1>3
  <1> HIDE DEF F
  <1>6. /\ u \in Seq(S) /\ Len(u) \in Nat /\ (F # {} => Len(u) > 0)
        /\ \A k \in 1..Len(u) : \E i \in F : u[k] = looked[i]
    BY <1>3, <1>4, PickedElements
  <1> HIDE DEF u
  <1>7. /\ flagged \in Seq(S) /\ Len(flagged) = IF 5 < Len(u) THEN 5 ELSE Len(u)
        /\ \A k \in 1..Len(flagged) : k \in 1..Len(u) /\ flagged[k] = u[k]
    BY <1>6, FirstOnes
  <1> HIDE DEF flagged
  <1>8. DOMAIN items = 1..Len(flagged)
    <2>1. DOMAIN flagged = 1..Len(flagged)
      BY <1>7, LenProperties
    <2>2. DOMAIN items = DOMAIN flagged
      BY <1>2
    <2>3. QED
      BY <2>1, <2>2
  <1>9. ASSUME NEW k \in DOMAIN items PROVE \E i \in DOMAIN diff : items[k].files = RP!DiffFiles(diff[i])
    <2>1. k \in 1..Len(flagged) /\ k \in DOMAIN flagged
      BY <1>7, <1>8
    <2>2. PICK i \in F : flagged[k] = looked[i]
      BY <1>6, <1>7, <2>1
    <2>3. i \in DOMAIN diff /\ flagged[k] = diff[i]
      BY <1>1, <1>3, <1>4, <2>2
    <2>4. items[k].files = RP!DiffFiles(flagged[k])
      BY <1>2, <2>1 DEF RP!AddItem
    <2>5. QED
      BY <2>3, <2>4
  <1>10. ASSUME Len(diff) <= 10, NEW i \in DOMAIN diff, RP!Flagged(diff[i]) PROVE items # <<>>
    <2>1. i \in 1..Len(diff) /\ Len(diff) \in Nat /\ Len(looked) = Len(diff)
      BY <1>1, <1>3, <1>10
    <2>2. i \in F
      BY <1>3, <1>5, <1>10, <2>1
    <2>3. Len(u) \in Nat /\ Len(u) > 0
      BY <1>6, <2>2
    <2>4. 1 \in 1..Len(flagged)
      BY <1>7, <2>3
    <2>5. QED
      BY <1>8, <2>4
  <1>11. QED
    BY <1>9, <1>10 DEF items

LEMMA TransientAreNamed ==
    ASSUME NEW diff, IsDiff(diff)
    PROVE  RP!TransientFilesNamed(diff)
  <1> DEFINE items == RP!DiffAddItems(diff)
             named == UNION {RP!ToSet(items[k].files) : k \in DOMAIN items}
  <1>1. \A k \in DOMAIN items : \E i \in DOMAIN diff : items[k].files = RP!DiffFiles(diff[i])
    BY FlaggedEntries
  <1>2. Len(diff) <= 10 /\ (\E i \in DOMAIN diff : RP!Flagged(diff[i])) => items # <<>>
    BY FlaggedEntries
  <1>3. \A s : RP!ToSet(s) = {s[i] : i \in DOMAIN s}
    BY DEF RP!ToSet
  <1>4. RP!TransientFilesNamed(diff) <=>
           /\ Len(diff) <= 10 /\ (\E i \in DOMAIN diff : \E p \in RP!ToSet(diff[i].changed) : RP!IsTransient(p))
                => items # <<>>
           /\ \A i \in DOMAIN diff :
                 (\E p \in named \cap RP!ToSet(diff[i].changed) : RP!IsTransient(p)) =>
                    \A q \in named \cap RP!ToSet(diff[i].changed) : RP!IsTransient(q)
    BY Zenon DEF RP!TransientFilesNamed
  <1>5. ASSUME NEW q \in named, NEW j \in DOMAIN diff, q \in RP!ToSet(diff[j].changed),
               RP!TransientAt(diff[j].changed) # {}
        PROVE  RP!IsTransient(q)
    <2>1. PICK k \in DOMAIN items : q \in RP!ToSet(items[k].files)
      BY <1>5
    <2> HIDE DEF items, named
    <2>2. PICK i \in DOMAIN diff : items[k].files = RP!DiffFiles(diff[i])
      BY <1>1
    <2>3. PICK m \in DOMAIN RP!DiffFiles(diff[i]) : q = RP!DiffFiles(diff[i])[m]
      BY <1>3, <2>1, <2>2
    <2>4. PICK P : diff[i].changed \in Seq(P)
      BY DEF IsDiff
    <2>5. PICK l \in DOMAIN diff[i].changed :
             /\ q = diff[i].changed[l]
             /\ RP!TransientAt(diff[i].changed) # {} => RP!IsTransient(diff[i].changed[l])
      BY <2>3, <2>4, FilesOfEntry
    <2>6. PICK r \in DOMAIN diff[j].changed : q = diff[j].changed[r]
      BY <1>3, <1>5
    <2>7. i = j
      BY <2>5, <2>6 DEF IsDiff
    <2>8. QED
      BY <1>5, <2>5, <2>7
  <1>6. \A j \in DOMAIN diff : \A p \in RP!ToSet(diff[j].changed) :
           RP!IsTransient(p) => RP!TransientAt(diff[j].changed) # {}
    BY <1>3 DEF RP!TransientAt
  <1>7. \A e : RP!TransientAt(e.changed) # {} => RP!Flagged(e)
    BY DEF RP!Flagged
  <1> HIDE DEF items, named
  <1>8. QED
    BY <1>2, <1>4, <1>5, <1>6, <1>7

\* A candidate of the inventory.
IsCandidate(c) == c.path # <<>> /\ c.confidence \in Nat /\ IsFiniteSet(RP!Tokens(c.path))

LEMMA Relevances ==
    ASSUME NEW c, IsCandidate(c), NEW focus
    PROVE  /\ RP!Relevance(c, focus) \in Nat
           /\ RP!SharesComponent(c, focus) => RP!Relevance(c, focus) >= 300
           /\ RP!Unrelated(c, focus) => RP!Relevance(c, focus) <= 260
  <1> DEFINE w == RP!SharedWords(c, focus)
             words == 50 * w
             t == IF c.category \in RP!TemporaryCategories THEN 120 ELSE 0
             r == IF c.replaced THEN 40 ELSE 0
             sure == IF c.confidence > 100 THEN 100 ELSE c.confidence
             same == IF RP!SharesComponent(c, focus) THEN 300 ELSE 0
             top == IF RP!SharesTop(c, focus) THEN 150 ELSE 0
             said == IF words > 200 THEN 200 ELSE words
  <1>1. w \in Nat
    <2>1. RP!Tokens(c.path) \cap focus.words \in SUBSET RP!Tokens(c.path)
      OBVIOUS
    <2>2. IsFiniteSet(RP!Tokens(c.path) \cap focus.words)
      BY <2>1, FS_Subset DEF IsCandidate
    <2>3. QED
      BY <2>2, FS_CardinalityType, SameCardinality6 DEF RP!SharedWords
  <1>2. RP!Relevance(c, focus) = t + r + sure + same + top + said
    BY DEF RP!Relevance, IsCandidate
  <1>3. RP!Unrelated(c, focus) => same = 0 /\ top = 0 /\ w = 0
    BY DEF RP!Unrelated
  <1>4. t \in {0, 120} /\ r \in {0, 40} /\ same \in {0, 300} /\ top \in {0, 150}
    OBVIOUS
  <1>5. sure \in Nat /\ sure <= 100
    BY DEF IsCandidate
  <1>6. RP!SharesComponent(c, focus) => same = 300
    OBVIOUS
  <1> HIDE DEF w, t, r, sure, same, top
  <1>7. said \in Nat /\ (w = 0 => said = 0)
    BY <1>1
  <1> HIDE DEF said
  <1>8. QED
    BY <1>2, <1>3, <1>4, <1>5, <1>6, <1>7

LEMMA FocusComesFirst ==
    ASSUME NEW candidates, \E S : candidates \in Seq(S), NEW focus,
           \A i \in DOMAIN candidates : IsCandidate(candidates[i])
    PROVE  RP!FocusBeatsUnrelated(candidates, focus)
  <1> DEFINE D == DOMAIN candidates
             R == [i \in D |-> RP!Relevance(candidates[i], focus)]
             sure(i) == candidates[i].confidence
             Before(i, j) == \/ R[i] > R[j]
                             \/ R[i] = R[j] /\ sure(i) > sure(j)
                             \/ R[i] = R[j] /\ sure(i) = sure(j) /\ i < j
             rel == {i \in D : R[i] > 0}
             C(a) == RP!Cardinality({b \in rel : Before(b, a)})
             s == RP!Sorted(rel, Before)
             ranked == RP!First(5, s)
             items == RP!RetireItems(candidates, focus)
  <1>1. D = 1..Len(candidates) /\ Len(candidates) \in Nat
    BY LenProperties
  <1>2. rel # {} => items = [k \in DOMAIN ranked |-> candidates[ranked[k]]]
    BY DEF RP!RetireItems
  <1>3. \A i \in D : R[i] \in Nat /\ sure(i) \in Nat /\ i \in Nat
    BY <1>1, Relevances DEF IsCandidate
  <1> DEFINE n == Cardinality(rel)
             Q == {p \in rel \X rel : Before(p[1], p[2])}
  <1>4. s = [i \in 1..RP!Cardinality(rel) |-> CHOOSE a \in rel : C(a) = i - 1]
    BY Zenon DEF RP!Sorted
  <1>5. \A a, b \in rel : <<a, b>> \in Q <=> Before(a, b)
    OBVIOUS
  <1>6. \A i \in rel : i \in D /\ R[i] \in Nat /\ sure(i) \in Nat /\ i \in Nat
    BY <1>3
  <1>7. \A i \in D : R[i] > 0 => i \in rel
    OBVIOUS
  <1>8. IsFiniteSet(rel)
    <2>1. IsFiniteSet(1..Len(candidates))
      BY <1>1, FS_Interval
    <2>2. rel \in SUBSET (1..Len(candidates))
      BY <1>1
    <2>3. QED
      BY <2>1, <2>2, FS_Subset
  <1> HIDE DEF items, s
  <1>9. OrdersAll(Q, rel)
    <2>1. ASSUME NEW a \in rel PROVE ~Before(a, a)
      BY <1>6
    <2>2. ASSUME NEW a \in rel, NEW b \in rel, NEW c \in rel, Before(a, b), Before(b, c) PROVE Before(a, c)
      <3> HIDE DEF R, rel, sure
      <3>1. QED
        BY <1>6, <2>2
    <2>3. ASSUME NEW a \in rel, NEW b \in rel PROVE a = b \/ Before(a, b) \/ Before(b, a)
      <3> HIDE DEF R, rel, sure
      <3>1. QED
        BY <1>6
    <2> HIDE DEF Q, Before, rel
    <2>4. QED
      BY <1>5, <2>1, <2>2, <2>3 DEF OrdersAll, Orders
  <1>10. \A a \in rel : C(a) = Cardinality({b \in rel : <<b, a>> \in Q})
    <2>1. \A a \in rel : {b \in rel : Before(b, a)} = {b \in rel : <<b, a>> \in Q}
      <3> HIDE DEF Q, Before, rel
      <3>1. QED
        BY <1>5
    <2> HIDE DEF Q, Before, rel
    <2>2. QED
      BY <2>1, SameCardinality6
  <1> HIDE DEF Q, C, rel, n
  <1>11. s \in [1..n -> rel] /\ \A i \in 1..n : C(s[i]) = i - 1
    <2>1. Ranked(Q, rel)
      BY <1>8, <1>9, RankedSet
    <2>2. \A i \in 1..n : \E a \in rel : C(a) = i - 1
      BY <1>10, <2>1 DEF Ranked, n
    <2>3. s = [i \in 1..n |-> CHOOSE a \in rel : C(a) = i - 1]
      BY <1>4, SameCardinality6 DEF n
    <2>4. QED
      BY <2>2, <2>3
  <1>12. Numbered(s, rel, Q)
    <2>1. \A i \in 1..n : Cardinality({b \in rel : <<b, s[i]>> \in Q}) = i - 1
      BY <1>10, <1>11
    <2>2. QED
      BY <1>8, <1>9, <1>11, <2>1, ElementsByPlace DEF n
  <1>13. /\ ranked \in Seq(rel) /\ Len(ranked) = IF 5 < Len(s) THEN 5 ELSE Len(s)
         /\ \A i \in 1..Len(ranked) : i \in 1..Len(s) /\ ranked[i] = s[i]
    <2>1. s \in Seq(rel) /\ 5 \in Nat
      BY <1>12 DEF Numbered
    <2>2. QED
      BY <2>1, FirstOnes
  <1>14. DOMAIN ranked = 1..Len(ranked) /\ Len(ranked) \in Nat
    BY <1>13, LenProperties
  <1> HIDE DEF ranked
  <1>15. ASSUME NEW i \in D, NEW j \in D, RP!SharesComponent(candidates[i], focus),
                RP!Unrelated(candidates[j], focus), candidates[j] \in RP!ToSet(items)
         PROVE  candidates[i] \in RP!ToSet(items)
    <2>1. R[i] >= 300 /\ R[j] <= 260
      BY <1>15, Relevances
    <2>2. i \in rel
      BY <1>3, <1>7, <2>1
    <2>3. items = [k \in DOMAIN ranked |-> candidates[ranked[k]]]
      BY <1>2, <2>2
    <2>4. PICK k \in 1..Len(ranked) : candidates[j] = candidates[ranked[k]]
      BY <1>14, <1>15, <2>3 DEF RP!ToSet
    <2>5. ranked[k] = s[k] /\ k \in 1..Len(s) /\ s[k] \in rel
      <3>1. ranked[k] = s[k] /\ k \in 1..Len(s)
        BY <1>13, <2>4, Zenon
      <3>2. s \in Seq(rel)
        BY <1>12 DEF Numbered
      <3>3. QED
        BY <3>1, <3>2, ElementOfSeq
    <2>6. s[k] \in D /\ R[s[k]] = R[j]
      BY <1>6, <2>4, <2>5
    <2>7. PICK l \in 1..Len(s) : s[l] = i
      BY <1>12, <2>2 DEF Numbered
    <2>8. <<s[l], s[k]>> \in Q
      <3> HIDE DEF R
      <3>1. R[i] > R[s[k]]
        BY <1>3, <2>1, <2>6
      <3>2. Before(i, s[k])
        BY <3>1
      <3>3. QED
        BY <1>5, <2>2, <2>5, <2>7, <3>2
    <2>9. l < k
      BY <1>12, <2>5, <2>7, <2>8 DEF Numbered
    <2>10. l \in 1..Len(ranked)
      BY <1>14, <2>4, <2>7, <2>9
    <2>11. ranked[l] = i
      BY <1>13, <2>7, <2>10
    <2>12. candidates[i] = items[l] /\ l \in DOMAIN items
      BY <1>14, <2>3, <2>10, <2>11
    <2>13. QED
      BY <2>12 DEF RP!ToSet
  <1>16. QED
    BY <1>15, Zenon DEF RP!FocusBeatsUnrelated, items

\* The candidates of the inventory have a path and a confidence, and finitely
\* many words; and a changed file is of one component.
RetireInput ==
    rule = "retire" =>
       /\ (\E S : x.candidates \in Seq(S)) /\ \A i \in DOMAIN x.candidates : IsCandidate(x.candidates[i])
       /\ IsDiff(x.diff)

\* Whatever the inventory and the work: what belongs to it is retired before
\* what does not, and the plan of a diff names its transient files.
THEOREM WorkComesFirst == RetireInput => PlanFitsTheWork
  <1>1. ASSUME RetireInput, rule = "retire" PROVE RP!FocusBeatsUnrelated(x.candidates, x.focus)
    BY <1>1, FocusComesFirst DEF RetireInput
  <1>2. ASSUME RetireInput, rule = "retire" PROVE RP!TransientFilesNamed(x.diff)
    BY <1>2, TransientAreNamed DEF RetireInput
  <1>3. QED
    BY <1>1, <1>2 DEF PlanFitsTheWork
=============================================================================

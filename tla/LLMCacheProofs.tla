--------------------------- MODULE LLMCacheProofs ---------------------------
(***************************************************************************)
(* Proofs about LLMCache, for any processes, keys, and cache size.         *)
(***************************************************************************)
EXTENDS LLMCache, FiniteSetTheorems, WellFoundedInduction, TLAPS

\* Stamps come from the clock, and from the pruning on the entry being saved
\* is among those to be written.
StampInv ==
    /\ \A k \in Keys : items[k] <= clock
    /\ \A p \in Procs, k \in Keys : held[p][k] <= clock
    /\ \A p \in Procs : pc[p] \in {"truncate", "write"} => held[p][key[p]] # 0

IInv == TypeOK /\ StampInv

-----------------------------------------------------------------------------
\* _prune_items keeps the newest entry, whatever the others and however small
\* the cache, and invents none.
LEMMA PruningKeepsNewest ==
    ASSUME NEW all \in Held, NEW k \in Keys,
           \A j \in Keys : all[j] <= all[k]
    PROVE  Pruned(all)[k] = all[k]
<1>1. NewerThan(all, k) = {}
  BY DEF NewerThan, Held
<1>2. Cardinality(NewerThan(all, k)) = 0
  BY <1>1, FS_EmptySet
<1>3. Cardinality(NewerThan(all, k)) < MaxEntries
  BY <1>2, CacheAssumption
<1> QED
  BY <1>3 DEF Pruned

LEMMA PruningType ==
    ASSUME NEW all \in Held
    PROVE  /\ Pruned(all) \in Held
           /\ \A k \in Keys : Pruned(all)[k] <= all[k]
<1>1. ASSUME NEW k \in Keys
      PROVE  Pruned(all)[k] \in {0, all[k]}
  BY DEF Pruned
<1>2. DOMAIN Pruned(all) = Keys /\ Pruned(all) = [k \in Keys |-> Pruned(all)[k]]
  BY DEF Pruned
<1>3. 0 \in 0..MaxSaves
  BY CacheAssumption
<1>4. \A k \in Keys : Pruned(all)[k] \in 0..MaxSaves
  BY <1>1, <1>3 DEF Held
<1>5. Pruned(all) \in Held
  BY <1>2, <1>4 DEF Held
<1>6. \A k \in Keys : Pruned(all)[k] <= all[k]
  BY <1>1, CacheAssumption DEF Held
<1> QED
  BY <1>5, <1>6

LEMMA NoItemsType == NoItems \in Held /\ \A k \in Keys : NoItems[k] = 0
  BY CacheAssumption DEF NoItems, Held

-----------------------------------------------------------------------------
LEMMA InitIInv == Init => IInv
<1> SUFFICES ASSUME Init
             PROVE  IInv
  OBVIOUS
<1>0. 0 \in 0..MaxSaves
  BY CacheAssumption
<1>1. TypeOK
  <2>1. clock \in 0..MaxSaves
    BY <1>0 DEF Init
  <2>2. items \in Held /\ newest \in Held /\ held \in [Procs -> Held]
    BY NoItemsType DEF Init
  <2>3. pc \in [Procs -> {"idle", "stamp", "truncate", "write"}]
    BY DEF Init
  <2> QED
    BY <2>1, <2>2, <2>3 DEF Init, TypeOK
<1>2. clock = 0 /\ \A k \in Keys : items[k] = 0 /\ \A p \in Procs : held[p][k] = 0
  BY NoItemsType DEF Init
<1>3. \A p \in Procs : pc[p] = "idle"
  BY DEF Init
<1>4. StampInv
  BY <1>2, <1>3 DEF StampInv
<1> QED
  BY <1>1, <1>4 DEF IInv

LEMMA ReadIInv ==
    ASSUME IInv, NEW p \in Procs, NEW k \in Keys, Read(p, k)
    PROVE  IInv'
<1>1. Items \in Held /\ \A j \in Keys : Items[j] <= clock
  BY NoItemsType, CacheAssumption DEF IInv, TypeOK, StampInv, Items
<1>2. TypeOK'
  BY <1>1 DEF IInv, TypeOK, Read, Goto
<1>3. \A q \in Procs, j \in Keys : held'[q][j] <= clock
  BY <1>1 DEF IInv, TypeOK, StampInv, Read
<1>4. \A q \in Procs : pc'[q] \in {"truncate", "write"} => held'[q][key'[q]] # 0
  BY DEF IInv, TypeOK, StampInv, Read, Goto
<1> QED
  BY <1>2, <1>3, <1>4 DEF IInv, StampInv, Read

LEMMA StampIInv ==
    ASSUME IInv, NEW p \in Procs, Stamp(p)
    PROVE  IInv'
<1> DEFINE all == [held[p] EXCEPT ![key[p]] = clock']
<1>1. clock' \in 0..MaxSaves /\ clock' # 0 /\ clock' = clock + 1 /\ clock \in Nat
  BY CacheAssumption DEF IInv, TypeOK, Stamp
<1>2. held[p] \in Held /\ key[p] \in Keys
  BY DEF IInv, TypeOK
<1>3. all \in Held /\ all[key[p]] = clock'
  BY <1>1, <1>2 DEF Held
<1>4. \A j \in Keys : held[p][j] <= clock /\ held[p][j] \in 0..MaxSaves
  BY <1>2 DEF IInv, StampInv, Held
<1>5. \A j \in Keys : all[j] <= clock'
  <2>1. \A j \in Keys : j # key[p] => all[j] = held[p][j]
    BY <1>2 DEF Held
  <2>2. \A j \in Keys : j # key[p] => all[j] <= clock'
    BY <2>1, <1>4, <1>1, CacheAssumption
  <2> QED
    BY <2>2, <1>3, <1>1
<1>6. Pruned(all)[key[p]] = clock'
  BY <1>2, <1>3, <1>5, PruningKeepsNewest
<1>7. Pruned(all) \in Held /\ \A j \in Keys : Pruned(all)[j] <= all[j]
  BY <1>3, PruningType
<1>8. held' = [held EXCEPT ![p] = Pruned(all)]
  BY DEF Stamp
<1> HIDE DEF all
<1>9. TypeOK'
  BY <1>1, <1>7, <1>8 DEF IInv, TypeOK, Stamp, Goto
<1>10. \A j \in Keys : items'[j] <= clock'
  BY <1>1, CacheAssumption DEF IInv, TypeOK, StampInv, Stamp, Held
<1>11. ASSUME NEW q \in Procs, NEW j \in Keys
       PROVE  held'[q][j] <= clock'
  <2>1. held[q][j] \in 0..MaxSaves /\ held[q][j] <= clock
    BY DEF IInv, TypeOK, StampInv, Held
  <2>2. all[j] \in 0..MaxSaves /\ Pruned(all)[j] \in 0..MaxSaves
    BY <1>3, <1>7 DEF Held
  <2>3. Pruned(all)[j] <= clock'
    BY <1>1, <1>5, <1>7, <2>2, CacheAssumption
  <2>4. CASE q = p
    BY <2>3, <2>4, <1>8 DEF IInv, TypeOK
  <2>5. CASE q # p
    <3>1. held'[q] = held[q]
      BY <2>5, <1>8 DEF IInv, TypeOK
    <3> QED
      BY <3>1, <2>1, <1>1, CacheAssumption
  <2> QED
    BY <2>4, <2>5
<1>12. ASSUME NEW q \in Procs, pc'[q] \in {"truncate", "write"}
       PROVE  held'[q][key'[q]] # 0
  <2>1. CASE q = p
    BY <2>1, <1>6, <1>8, <1>1 DEF IInv, TypeOK, Stamp
  <2>2. CASE q # p
    BY <2>2, <1>8, <1>12 DEF IInv, TypeOK, StampInv, Stamp, Goto
  <2> QED
    BY <2>1, <2>2
<1> QED
  BY <1>9, <1>10, <1>11, <1>12 DEF IInv, StampInv

LEMMA TruncateIInv ==
    ASSUME IInv, NEW p \in Procs, Truncate(p)
    PROVE  IInv'
<1>1. TypeOK'
  BY NoItemsType DEF IInv, TypeOK, Truncate, Goto
<1>2. clock' = clock /\ 0 <= clock
  BY CacheAssumption DEF IInv, TypeOK, Truncate
<1>3. StampInv'
  BY <1>2, NoItemsType DEF IInv, TypeOK, StampInv, Truncate, Goto
<1> QED
  BY <1>1, <1>3 DEF IInv

\* Write and Kill alike leave the process idle with nothing held.
LEMMA WriteIInv ==
    ASSUME IInv, NEW p \in Procs, Write(p)
    PROVE  IInv'
<1>1. held[p] \in Held /\ key[p] \in Keys /\ \A k \in Keys : held[p][k] <= clock
  BY DEF IInv, TypeOK, StampInv
<1>2. clock' = clock /\ 0 <= clock
  BY CacheAssumption DEF IInv, TypeOK, Write
<1>3. items' \in Held /\ \A k \in Keys : items'[k] <= clock'
  BY <1>1, <1>2, NoItemsType DEF Write
<1>4. newest' \in Held
  BY <1>1 DEF IInv, TypeOK, Write, Held
<1>5. held' \in [Procs -> Held]
  BY NoItemsType DEF IInv, TypeOK, Write
<1>6. TypeOK'
  BY <1>3, <1>4, <1>5 DEF IInv, TypeOK, Write, Goto
<1>7. \A q \in Procs, k \in Keys : held'[q][k] <= clock'
  BY <1>2, NoItemsType DEF IInv, TypeOK, StampInv, Write
<1>8. \A q \in Procs : pc'[q] \in {"truncate", "write"} => held'[q][key'[q]] # 0
  BY DEF IInv, TypeOK, StampInv, Write, Goto
<1> QED
  BY <1>3, <1>6, <1>7, <1>8 DEF IInv, StampInv

LEMMA KillIInv ==
    ASSUME IInv, NEW p \in Procs, Kill(p)
    PROVE  IInv'
<1>1. clock' = clock /\ 0 <= clock
  BY CacheAssumption DEF IInv, TypeOK, Kill
<1>2. TypeOK'
  BY NoItemsType DEF IInv, TypeOK, Kill, Goto
<1>3. StampInv'
  BY <1>1, NoItemsType DEF IInv, TypeOK, StampInv, Kill, Goto
<1> QED
  BY <1>2, <1>3 DEF IInv

LEMMA NextIInv == IInv /\ [Next]_vars => IInv'
<1> SUFFICES ASSUME IInv, [Next]_vars
             PROVE  IInv'
  OBVIOUS
<1>1. CASE Next
  <2> PICK p \in Procs :
        \/ \E k \in Keys : Read(p, k)
        \/ Stamp(p) \/ Truncate(p) \/ Write(p) \/ Kill(p)
    BY <1>1 DEF Next
  <2> QED
    BY ReadIInv, StampIInv, TruncateIInv, WriteIInv, KillIInv
<1>2. CASE UNCHANGED vars
  BY <1>2 DEF vars, IInv, TypeOK, StampInv
<1> QED
  BY <1>1, <1>2

\* The types of the state, for every size of the system.
THEOREM TypeCorrect == Spec => []TypeOK
<1>1. IInv => TypeOK
  BY DEF IInv
<1> QED
  BY InitIInv, NextIInv, <1>1, PTL DEF Spec

-----------------------------------------------------------------------------
\* A save that writes an empty file leaves a readable one with the entry it
\* was to save: neither pruning nor any race before it takes that entry away.
THEOREM SaveRepairs == Spec => UndisturbedSaveReadable
<1> DEFINE Act ==
        \A p \in Procs :
            pc[p] = "write" /\ pc'[p] = "idle" /\ text = "empty" /\ newest' # newest =>
                text' = "json" /\ items'[key[p]] = newest'[key[p]] /\ items'[key[p]] # 0
<1>1. ASSUME IInv, [Next]_vars
      PROVE  [Act]_vars
  <2> SUFFICES ASSUME NEW p \in Procs,
                      pc[p] = "write", pc'[p] = "idle", text = "empty", newest' # newest
               PROVE  text' = "json" /\ items'[key[p]] = newest'[key[p]] /\ items'[key[p]] # 0
    OBVIOUS
  <2>1. PICK q \in Procs :
          \/ \E k \in Keys : Read(q, k)
          \/ Stamp(q) \/ Truncate(q) \/ Write(q) \/ Kill(q)
    BY <1>1 DEF Next, vars
  <2>2. Write(q)
    BY <2>1 DEF Read, Stamp, Truncate, Kill
  <2>3. q = p
    BY <2>2, <1>1 DEF Write, Goto, IInv, TypeOK
  <2>4. text' = "json" /\ items' = held[p]
    BY <2>2, <2>3 DEF Write
  <2>5. newest'[key[p]] = held[p][key[p]]
    BY <2>2, <2>3, <1>1 DEF Write, IInv, TypeOK, Held
  <2>6. held[p][key[p]] # 0
    BY <1>1 DEF IInv, StampInv
  <2> QED
    BY <2>4, <2>5, <2>6
<1>2. [][Act]_vars <=> UndisturbedSaveReadable
  BY DEF UndisturbedSaveReadable
<1> QED
  BY InitIInv, NextIInv, <1>1, <1>2, PTL DEF Spec

-----------------------------------------------------------------------------
(* What pruning leaves, of entries with stamps of their own. *)

Live(f) == {k \in Keys : f[k] # 0}
Distinct(f) == \A j, k \in Keys : f[j] = f[k] /\ f[j] # 0 => j = k

\* The saves that f still holds, of those that n has.
Keeps(f, n) ==
    /\ \A k \in Keys : f[k] \in {0, n[k]}
    /\ \A j, k \in Keys : f[j] = 0 /\ f[k] # 0 => n[j] < n[k]
    /\ Size(f) = IF Size(n) < MaxEntries THEN Size(n) ELSE MaxEntries

\* The stamps in the file and in what the processes hold are distinct, and no
\* process holds more than it may write.
SizeInv ==
    /\ Distinct(items) /\ Size(items) <= MaxEntries
    /\ \A p \in Procs :
          /\ Distinct(held[p])
          /\ pc[p] \in {"truncate", "write"} => Size(held[p]) <= MaxEntries

\* One save after the other: the file, or what the process has of it between
\* Truncate and Write, keeps the newest saves.
SerialInv ==
    ~raced =>
       /\ \A p, q \in Procs : pc[p] # "idle" /\ pc[q] # "idle" => p = q
       /\ Distinct(newest) /\ \A k \in Keys : newest[k] <= clock
       /\ text # "torn"
       /\ (\A p \in Procs : pc[p] # "write") => Keeps(Items, newest)
       /\ \A p \in Procs :
             /\ pc[p] = "stamp" => held[p] = Items
             /\ pc[p] = "write" => text = "empty"
             /\ pc[p] \in {"truncate", "write"} =>
                   /\ \A k \in Keys : newest[k] < held[p][key[p]]
                   /\ Keeps(held[p], [newest EXCEPT ![key[p]] = held[p][key[p]]])

LEMMA LiveFacts ==
    ASSUME NEW f \in Held
    PROVE  IsFiniteSet(Live(f)) /\ Size(f) = Cardinality(Live(f)) /\ Size(f) \in Nat
<1>1. Live(f) \in SUBSET Keys /\ Size(f) = Cardinality(Live(f))
  BY DEF Live, Size
<1>2. IsFiniteSet(Live(f)) /\ Cardinality(Live(f)) \in Nat
  BY <1>1, CacheAssumption, FS_Subset, FS_CardinalityType
<1> QED
  BY <1>1, <1>2

LEMMA StampsAreNat == \A f \in Held : \A k \in Keys : f[k] \in Nat
BY CacheAssumption DEF Held

\* Of some entries one is the oldest.
LEMMA OldestEntry ==
    ASSUME NEW f \in Held, NEW S \in SUBSET Keys, S # {}
    PROVE  \E m \in S : \A j \in S : f[m] <= f[j]
<1> DEFINE T == {f[k] : k \in S}
<1>1. T \subseteq Nat /\ T # {}
  BY StampsAreNat
<1>2. PICK x \in T : \A y \in T : <<y, x>> \notin OpToRel(<, Nat)
  <2> HIDE DEF T
  <2> QED
    BY <1>1, WFMin, NatLessThanWellFounded
<1>3. \A y \in T : ~(y < x)
  BY <1>1, <1>2 DEF OpToRel
<1>4. PICK m \in S : x = f[m]
  OBVIOUS
<1>5. \A j \in S : f[m] <= f[j]
  BY <1>1, <1>3, <1>4
<1> QED
  BY <1>5

\* An entry is among those that stay if few others are live.
LEMMA FewNewer ==
    ASSUME NEW f \in Held, NEW k \in Keys, NEW S, IsFiniteSet(S), Cardinality(S) < MaxEntries,
           NewerThan(f, k) \subseteq S
    PROVE  Pruned(f)[k] = f[k]
<1>1. Cardinality(NewerThan(f, k)) <= Cardinality(S)
  BY FS_Subset
<1>2. Cardinality(NewerThan(f, k)) \in Nat /\ Cardinality(S) \in Nat
  BY FS_Subset, FS_CardinalityType
<1> QED
  BY <1>1, <1>2, CacheAssumption DEF Pruned

\* A cache that is not too large loses nothing.
LEMMA PruningSmall ==
    ASSUME NEW f \in Held, Size(f) <= MaxEntries
    PROVE  Pruned(f) = f
<1>1. ASSUME NEW k \in Keys PROVE Pruned(f)[k] = f[k]
  <2>1. CASE k \in Live(f)
    <3>1. NewerThan(f, k) \subseteq Live(f) \ {k}
      BY StampsAreNat DEF NewerThan, Live
    <3>2. IsFiniteSet(Live(f) \ {k}) /\ Cardinality(Live(f) \ {k}) = Size(f) - 1
      BY <2>1, LiveFacts, FS_RemoveElement
    <3>3. Cardinality(Live(f) \ {k}) < MaxEntries
      BY <3>2, LiveFacts, CacheAssumption
    <3> QED
      BY <3>1, <3>2, <3>3, FewNewer
  <2>2. CASE k \notin Live(f)
    BY <2>2 DEF Live, Pruned
  <2> QED
    BY <2>1, <2>2
<1> QED
  BY <1>1 DEF Pruned, Held

\* One that has an entry too many loses the oldest one.
LEMMA PruningOneTooMany ==
    ASSUME NEW f \in Held, Distinct(f), Size(f) = MaxEntries + 1
    PROVE  \E m \in Live(f) :
              /\ \A j \in Live(f) \ {m} : f[m] < f[j]
              /\ Pruned(f) = [f EXCEPT ![m] = 0]
              /\ Size(Pruned(f)) = MaxEntries
<1>1. Live(f) # {} /\ Live(f) \in SUBSET Keys
  <2>1. Cardinality(Live(f)) # 0
    BY LiveFacts, CacheAssumption
  <2> QED
    BY <2>1, FS_EmptySet DEF Live
<1>2. PICK m \in Live(f) : \A j \in Live(f) : f[m] <= f[j]
  BY <1>1, OldestEntry
<1>3. m \in Keys /\ f[m] # 0 /\ \A j \in Live(f) \ {m} : f[m] < f[j]
  <2>1. m \in Keys /\ f[m] # 0 /\ \A j \in Live(f) \ {m} : j \in Keys /\ f[m] # f[j]
    BY DEF Distinct, Live
  <2> QED
    BY <1>2, <2>1, StampsAreNat
<1>4. IsFiniteSet(Live(f) \ {m}) /\ Cardinality(Live(f) \ {m}) = MaxEntries
  <2>1. Cardinality(Live(f) \ {m}) = Cardinality(Live(f)) - 1 /\ IsFiniteSet(Live(f) \ {m})
    BY LiveFacts, FS_RemoveElement
  <2> QED
    BY <2>1, LiveFacts, CacheAssumption
<1>5. Pruned(f)[m] = 0
  <2>1. NewerThan(f, m) = Live(f) \ {m}
    BY <1>3, StampsAreNat DEF NewerThan, Live
  <2> QED
    BY <1>3, <1>4, <2>1, CacheAssumption DEF Pruned
<1>6. ASSUME NEW k \in Keys, k # m PROVE Pruned(f)[k] = f[k]
  <2>1. CASE k \in Live(f)
    <3>1. NewerThan(f, k) \subseteq (Live(f) \ {m}) \ {k}
      BY <1>3, <1>6, <2>1, StampsAreNat DEF NewerThan, Live
    <3>2. IsFiniteSet((Live(f) \ {m}) \ {k}) /\ Cardinality((Live(f) \ {m}) \ {k}) = MaxEntries - 1
      BY <1>4, <1>6, <2>1, FS_RemoveElement
    <3>3. Cardinality((Live(f) \ {m}) \ {k}) < MaxEntries
      BY <3>2, CacheAssumption
    <3> QED
      BY <3>1, <3>2, <3>3, FewNewer
  <2>2. CASE k \notin Live(f)
    BY <2>2 DEF Live, Pruned
  <2> QED
    BY <2>1, <2>2
<1>7. Pruned(f) = [f EXCEPT ![m] = 0]
  BY <1>3, <1>5, <1>6 DEF Pruned, Held
<1>8. {k \in Keys : Pruned(f)[k] # 0} = Live(f) \ {m}
  BY <1>3, <1>5, <1>6 DEF Live
<1>9. Size(Pruned(f)) = MaxEntries
  BY <1>4, <1>8 DEF Size
<1> QED
  BY <1>3, <1>7, <1>9

\* Whatever there was, no more than max_entries are left: the oldest of those
\* that stay has all the others before it.
LEMMA PruningBounds ==
    ASSUME NEW f \in Held, Distinct(f)
    PROVE  Size(Pruned(f)) <= MaxEntries
<1> DEFINE g == Pruned(f)
<1>0. g \in Held /\ \A k \in Keys : g[k] \in {0, f[k]}
  BY PruningType DEF Pruned
<1>1. CASE Live(g) = {}
  BY <1>0, <1>1, LiveFacts, FS_EmptySet, CacheAssumption
<1>2. CASE Live(g) # {}
  <2>1. PICK m \in Live(g) : \A j \in Live(g) : g[m] <= g[j]
    BY <1>0, <1>2, OldestEntry DEF Live
  <2>2. m \in Keys /\ Cardinality(NewerThan(f, m)) < MaxEntries
    BY <2>1 DEF Live, Pruned
  <2>3. Live(g) \ {m} \subseteq NewerThan(f, m)
    <3> SUFFICES ASSUME NEW j \in Live(g), j # m PROVE f[j] > f[m]
      BY DEF NewerThan, Live
    <3>1. j \in Keys /\ m \in Keys /\ g[j] = f[j] /\ g[m] = f[m] /\ f[j] # 0
      BY <1>0, <2>1 DEF Live
    <3>2. f[j] # f[m] /\ f[m] <= f[j]
      BY <2>1, <3>1 DEF Distinct
    <3> QED
      BY <3>1, <3>2, StampsAreNat
  <2>4. IsFiniteSet(NewerThan(f, m)) /\ Cardinality(NewerThan(f, m)) \in Nat
    BY CacheAssumption, FS_Subset, FS_CardinalityType DEF NewerThan
  <2>5. Cardinality(Live(g) \ {m}) <= Cardinality(NewerThan(f, m))
    BY <2>3, <2>4, FS_Subset
  <2>6. Cardinality(Live(g) \ {m}) = Cardinality(Live(g)) - 1
    BY <1>0, <2>1, LiveFacts, FS_RemoveElement
  <2>7. Size(g) \in Nat /\ Size(g) = Cardinality(Live(g))
    BY <1>0, LiveFacts
  <2>8. Cardinality(Live(g)) - 1 < MaxEntries
    BY <2>2, <2>4, <2>5, <2>6, <2>7, CacheAssumption
  <2> QED
    BY <2>7, <2>8, CacheAssumption
<1> QED
  BY <1>1, <1>2

\* A save adds its entry and prunes: what it leaves are the newest of the saves
\* with it, if what it found were the newest of those without it.
LEMMA SaveKeeps ==
    ASSUME NEW f \in Held, NEW n \in Held, Keeps(f, n), Distinct(n),
           NEW k \in Keys, NEW c \in 1..MaxSaves, \A j \in Keys : n[j] < c
    PROVE  Keeps(Pruned([f EXCEPT ![k] = c]), [n EXCEPT ![k] = c])
<1> DEFINE g == [f EXCEPT ![k] = c]
           new == [n EXCEPT ![k] = c]
<1>1. g \in Held /\ new \in Held /\ c # 0 /\ c \in Nat
  BY CacheAssumption DEF Held
<1>2. /\ g[k] = c /\ new[k] = c
      /\ \A j \in Keys \ {k} : g[j] = f[j] /\ new[j] = n[j]
  BY DEF Held
<1>3. \A j \in Keys : f[j] \in {0, n[j]} /\ f[j] < c /\ n[j] < c
  BY <1>1 DEF Keeps
<1> HIDE DEF g, new
<1>4. \A j \in Keys : g[j] \in {0, new[j]}
  BY <1>2, <1>3
<1>5. Distinct(g)
  <2> SUFFICES ASSUME NEW i \in Keys, NEW j \in Keys, g[i] = g[j], g[i] # 0 PROVE i = j
    BY DEF Distinct
  <2>1. CASE i = k \/ j = k
    BY <1>1, <1>2, <1>3, <2>1, StampsAreNat
  <2>2. CASE i # k /\ j # k
    BY <1>2, <1>3, <2>2 DEF Distinct
  <2> QED
    BY <2>1, <2>2
<1>6. \A i, j \in Keys : g[i] = 0 /\ g[j] # 0 => new[i] < new[j]
  <2> SUFFICES ASSUME NEW i \in Keys, NEW j \in Keys, g[i] = 0, g[j] # 0 PROVE new[i] < new[j]
    OBVIOUS
  <2>1. i # k
    BY <1>1, <1>2
  <2> QED
    BY <1>2, <1>3, <2>1 DEF Keeps
<1>7. Live(g) = Live(f) \union {k} /\ Live(new) = Live(n) \union {k}
  BY <1>1, <1>2 DEF Live
<1>8. /\ Size(g) = IF k \in Live(f) THEN Size(f) ELSE Size(f) + 1
      /\ Size(new) = IF k \in Live(n) THEN Size(n) ELSE Size(n) + 1
      /\ Size(f) \in Nat /\ Size(n) \in Nat
  <2>1. /\ Cardinality(Live(g)) = IF k \in Live(f) THEN Cardinality(Live(f)) ELSE Cardinality(Live(f)) + 1
        /\ Cardinality(Live(new)) = IF k \in Live(n) THEN Cardinality(Live(n)) ELSE Cardinality(Live(n)) + 1
    <3>1. IsFiniteSet(Live(f)) /\ IsFiniteSet(Live(n))
      BY LiveFacts
    <3> QED
      BY <1>7, <3>1, FS_AddElement
  <2> QED
    BY <1>1, <2>1, LiveFacts
<1>9. Size(f) = IF Size(n) < MaxEntries THEN Size(n) ELSE MaxEntries
  BY DEF Keeps
<1>10. Live(f) \subseteq Live(n) /\ (Size(f) = Size(n) => Live(f) = Live(n))
  <2>1. Live(f) \in SUBSET Live(n)
    BY <1>3 DEF Live
  <2> QED
    BY <2>1, LiveFacts, FS_Subset
<1>11. CASE Size(g) <= MaxEntries
  <2>1. Pruned(g) = g
    BY <1>1, <1>11, PruningSmall
  <2>2. Size(g) = IF Size(new) < MaxEntries THEN Size(new) ELSE MaxEntries
    <3>1. CASE Size(n) < MaxEntries
      <4>1. Size(g) = Size(new)
        BY <1>8, <1>9, <1>10, <3>1
      <4> QED
        BY <1>11, <4>1, <1>8, CacheAssumption
    <3>2. CASE ~(Size(n) < MaxEntries)
      BY <1>8, <1>9, <1>11, <3>2, CacheAssumption
    <3> QED
      BY <3>1, <3>2
  <2> QED
    BY <1>4, <1>6, <2>1, <2>2 DEF Keeps, g, new
<1>12. CASE ~(Size(g) <= MaxEntries)
  <2>1. Size(g) = MaxEntries + 1 /\ ~(Size(new) < MaxEntries)
    BY <1>8, <1>9, <1>12, CacheAssumption
  <2>2. PICK m \in Live(g) :
          /\ \A j \in Live(g) \ {m} : g[m] < g[j]
          /\ Pruned(g) = [g EXCEPT ![m] = 0]
          /\ Size(Pruned(g)) = MaxEntries
    BY <1>1, <1>5, <2>1, PruningOneTooMany
  <2>3. /\ m \in Keys /\ g[m] # 0 /\ Pruned(g)[m] = 0
        /\ \A j \in Keys \ {m} : Pruned(g)[j] = g[j]
    BY <1>1, <2>2 DEF Live, Held
  <2>4. ASSUME NEW i \in Keys, NEW j \in Keys, Pruned(g)[i] = 0, Pruned(g)[j] # 0
        PROVE  new[i] < new[j]
    <3>1. j # m /\ g[j] # 0 /\ j \in Live(g)
      BY <2>3, <2>4 DEF Live
    <3>2. CASE i = m
      BY <1>4, <2>2, <2>3, <3>1, <3>2
    <3>3. CASE i # m
      BY <1>6, <2>3, <2>4, <3>1, <3>3
    <3> QED
      BY <3>2, <3>3
  <2>5. \A j \in Keys : Pruned(g)[j] \in {0, new[j]}
    BY <1>4, <2>3
  <2> QED
    BY <2>1, <2>2, <2>4, <2>5 DEF Keeps, g, new
<1> QED
  BY <1>11, <1>12

-----------------------------------------------------------------------------
(* How large the file gets. *)

LEMMA NoItemsSize == Distinct(NoItems) /\ Size(NoItems) = 0 /\ Size(NoItems) <= MaxEntries
<1>1. {k \in Keys : NoItems[k] # 0} = {}
  BY NoItemsType
<1>2. Size(NoItems) = 0
  BY <1>1, FS_EmptySet DEF Size
<1> QED
  BY <1>2, NoItemsType, CacheAssumption DEF Distinct

LEMMA SizeStep == IInv /\ SizeInv /\ [Next]_vars => SizeInv'
<1> SUFFICES ASSUME IInv, SizeInv, [Next]_vars PROVE SizeInv'
  OBVIOUS
<1>0. items \in Held /\ held \in [Procs -> Held] /\ key \in [Procs -> Keys]
  BY DEF IInv, TypeOK
<1>1. ASSUME NEW p \in Procs, NEW k \in Keys, Read(p, k) PROVE SizeInv'
  <2>1. Distinct(Items)
    BY NoItemsSize DEF SizeInv, Items
  <2> QED
    BY <1>0, <1>1, <2>1 DEF Read, Goto, SizeInv, Distinct, Size, IInv, TypeOK
<1>2. ASSUME NEW p \in Procs, Stamp(p) PROVE SizeInv'
  <2> DEFINE all == [held[p] EXCEPT ![key[p]] = clock']
  <2>1. clock' = clock + 1 /\ clock' \in 0..MaxSaves /\ \A k \in Keys : held[p][k] <= clock /\ held[p][k] \in Nat
    BY <1>0, <1>2, StampsAreNat, CacheAssumption DEF Stamp, IInv, TypeOK, StampInv
  <2>2. all \in Held /\ Distinct(all)
    <3>1. all \in Held /\ all[key[p]] = clock' /\ \A k \in Keys \ {key[p]} : all[k] = held[p][k]
      BY <1>0, <2>1 DEF Held
    <3>2. \A k \in Keys : held[p][k] # clock'
      BY <2>1, CacheAssumption DEF IInv, TypeOK
    <3>3. Distinct(held[p])
      BY DEF SizeInv
    <3> HIDE DEF all
    <3> QED
      BY <1>0, <3>1, <3>2, <3>3 DEF Distinct
  <2>3. Pruned(all) \in Held /\ \A k \in Keys : Pruned(all)[k] \in {0, all[k]}
    BY <2>2, PruningType DEF Pruned
  <2>4. Distinct(Pruned(all)) /\ Size(Pruned(all)) <= MaxEntries
    BY <2>2, <2>3, PruningBounds DEF Distinct
  <2>5. held' = [held EXCEPT ![p] = Pruned(all)] /\ pc' = [pc EXCEPT ![p] = "truncate"] /\ items' = items
    BY <1>2 DEF Stamp, Goto
  <2> HIDE DEF all
  <2> QED
    BY <1>0, <2>4, <2>5 DEF SizeInv, Distinct, Size, IInv, TypeOK
<1>3. ASSUME NEW p \in Procs, Truncate(p) PROVE SizeInv'
  <2>1. Distinct(items') /\ Size(items') <= MaxEntries
    BY <1>3, NoItemsSize DEF Truncate
  <2>2. UNCHANGED held /\ \A q \in Procs : pc'[q] \in {"truncate", "write"} => pc[q] \in {"truncate", "write"}
    BY <1>3 DEF Truncate, Goto, IInv, TypeOK
  <2> QED
    BY <2>1, <2>2 DEF SizeInv, Distinct, Size
<1>4. ASSUME NEW p \in Procs, Write(p) \/ Kill(p) PROVE SizeInv'
  <2>1. Distinct(items') /\ Size(items') <= MaxEntries
    BY <1>4, NoItemsSize DEF Write, Kill, SizeInv
  <2>2. held' = [held EXCEPT ![p] = NoItems] /\ pc' = [pc EXCEPT ![p] = "idle"]
    BY <1>4 DEF Write, Kill, Goto
  <2>3. ASSUME NEW q \in Procs
        PROVE  Distinct(held'[q]) /\ (pc'[q] \in {"truncate", "write"} => Size(held'[q]) <= MaxEntries)
    <3>1. CASE q = p
      BY <1>0, <2>2, <3>1, NoItemsSize
    <3>2. CASE q # p
      BY <1>0, <2>2, <3>2 DEF SizeInv, IInv, TypeOK
    <3> QED
      BY <3>1, <3>2
  <2> QED
    BY <2>1, <2>3 DEF SizeInv, Distinct, Size
<1>5. CASE UNCHANGED vars
  BY <1>5 DEF vars, SizeInv, Distinct, Size
<1> QED
  BY <1>1, <1>2, <1>3, <1>4, <1>5 DEF Next

\* No interleaving of saves, whole or cut short, makes the file hold more than
\* max_entries items.
THEOREM FileIsBounded == Spec => []SizeBounded
<1>1. Init => SizeInv
  BY NoItemsSize DEF Init, SizeInv, Distinct, Size
<1>2. IInv /\ SizeInv => SizeBounded
  BY DEF IInv, SizeInv, SizeBounded
<1> QED
  BY InitIInv, NextIInv, SizeStep, <1>1, <1>2, PTL DEF Spec

-----------------------------------------------------------------------------
(* Saves one after the other. *)

LEMMA NothingKept == Keeps(NoItems, NoItems)
<1>1. Size(NoItems) = IF Size(NoItems) < MaxEntries THEN Size(NoItems) ELSE MaxEntries
  BY NoItemsSize, CacheAssumption
<1> QED
  BY <1>1, NoItemsType DEF Keeps

LEMMA SerialStep == IInv /\ SerialInv /\ [Next]_vars => SerialInv'
<1> SUFFICES ASSUME IInv, SerialInv, [Next]_vars, ~raced' PROVE SerialInv'
  BY DEF SerialInv
<1>0. TypeOK /\ clock \in Nat
  BY CacheAssumption DEF IInv, TypeOK
<1>a. ASSUME NEW p \in Procs, pc[p] # "idle", ~raced
      PROVE  \A q \in Procs \ {p} : pc[q] = "idle"
  BY <1>a DEF SerialInv
<1>1. ASSUME NEW p \in Procs, NEW k \in Keys, Read(p, k) PROVE SerialInv'
  <2>1. ~raced /\ \A q \in Procs : pc[q] = "idle"
    BY <1>1 DEF Read
  <2>2. held' = [held EXCEPT ![p] = Items] /\ pc' = [pc EXCEPT ![p] = "stamp"]
    BY <1>1 DEF Read, Goto
  <2>3. UNCHANGED <<text, items, clock, newest>> /\ Items' = Items
    BY <1>1 DEF Read, Items
  <2>4. Keeps(Items', newest')
    BY <2>1, <2>3 DEF SerialInv
  <2>5. \A q \in Procs : pc'[q] = IF q = p THEN "stamp" ELSE "idle"
    BY <1>0, <2>1, <2>2 DEF TypeOK
  <2>6. held'[p] = Items'
    BY <1>0, <2>2, <2>3 DEF TypeOK
  <2> QED
    BY <2>1, <2>3, <2>4, <2>5, <2>6 DEF SerialInv, Distinct, Keeps, Size
<1>2. ASSUME NEW p \in Procs, Stamp(p) PROVE SerialInv'
  <2>1. ~raced /\ pc[p] = "stamp" /\ \A q \in Procs \ {p} : pc[q] = "idle"
    BY <1>2, <1>a DEF Stamp
  <2>2. held[p] = Items /\ Keeps(Items, newest) /\ Distinct(newest) /\ text # "torn"
    BY <2>1 DEF SerialInv
  <2>3. clock' = clock + 1 /\ clock' \in 1..MaxSaves
    BY <1>0, <1>2, CacheAssumption DEF Stamp, TypeOK
  <2>4. \A k \in Keys : newest[k] <= clock' /\ newest[k] < clock' /\ newest[k] \in Nat
    BY <1>0, <2>1, <2>3, StampsAreNat DEF SerialInv, TypeOK
  <2> DEFINE all == [held[p] EXCEPT ![key[p]] = clock']
  <2>5. held' = [held EXCEPT ![p] = Pruned(all)] /\ pc' = [pc EXCEPT ![p] = "truncate"]
    BY <1>2 DEF Stamp, Goto
  <2>6. Pruned(all)[key[p]] = clock'
    <3>1. all \in Held /\ all[key[p]] = clock' /\ \A j \in Keys \ {key[p]} : all[j] = held[p][j]
      BY <1>0, <2>3 DEF TypeOK, Held
    <3>2. \A j \in Keys : held[p][j] <= clock /\ held[p][j] \in Nat
      BY <1>0, StampsAreNat DEF IInv, StampInv, TypeOK
    <3>3. \A j \in Keys : all[j] <= all[key[p]]
      BY <1>0, <2>3, <3>1, <3>2
    <3> QED
      BY <1>0, <3>1, <3>3, PruningKeepsNewest DEF TypeOK
  <2>7. Keeps(Pruned(all), [newest EXCEPT ![key[p]] = clock'])
    BY <1>0, <2>2, <2>3, <2>4, SaveKeeps DEF TypeOK
  <2> HIDE DEF all
  <2>8. UNCHANGED <<text, items, key, newest>> /\ Items' = Items
    BY <1>2 DEF Stamp, Items
  <2>9. Keeps(Items', newest')
    BY <2>2, <2>8
  <2>10. held'[p] = Pruned(all) /\ \A q \in Procs : pc'[q] = IF q = p THEN "truncate" ELSE "idle"
    BY <1>0, <2>1, <2>5 DEF TypeOK
  <2>11. Keeps(held'[p], [newest' EXCEPT ![key'[p]] = held'[p][key'[p]]])
    BY <2>6, <2>7, <2>8, <2>10
  <2>12. \A k \in Keys : newest'[k] < held'[p][key'[p]] /\ newest'[k] <= clock'
    BY <2>4, <2>6, <2>8, <2>10
  <2> QED
    <3>1. Keeps(Items, newest)' /\ Distinct(newest)'
      BY <2>2, <2>8, <2>9 DEF Keeps, Size, Distinct
    <3>2. Keeps(held[p], [newest EXCEPT ![key[p]] = held[p][key[p]]])'
      BY <2>11 DEF Keeps, Size
    <3> QED
      BY <2>2, <2>8, <2>10, <2>12, <3>1, <3>2 DEF SerialInv
<1>3. ASSUME NEW p \in Procs, Truncate(p) PROVE SerialInv'
  <2>1. ~raced /\ pc[p] = "truncate" /\ \A q \in Procs \ {p} : pc[q] = "idle"
    BY <1>3, <1>a DEF Truncate
  <2>2. text' = "empty" /\ UNCHANGED <<clock, key, held, newest>>
    BY <1>3 DEF Truncate
  <2>3. \A q \in Procs : pc'[q] = IF q = p THEN "write" ELSE "idle"
    BY <1>0, <1>3, <2>1 DEF Truncate, Goto, TypeOK
  <2> QED
    BY <2>1, <2>2, <2>3 DEF SerialInv, Distinct, Keeps, Size
<1>4. ASSUME NEW p \in Procs, Write(p) PROVE SerialInv'
  <2>1. ~raced /\ pc[p] = "write" /\ text = "empty" /\ \A q \in Procs \ {p} : pc[q] = "idle"
    BY <1>4, <1>a DEF Write, SerialInv
  <2>2. text' = "json" /\ items' = held[p] /\ Items' = held[p]
    BY <1>4, <2>1 DEF Write, Items
  <2>3. newest' = [newest EXCEPT ![key[p]] = held[p][key[p]]] /\ clock' = clock
    BY <1>4 DEF Write
  <2>4. Keeps(held[p], newest') /\ \A k \in Keys : newest[k] < held[p][key[p]]
    BY <2>1, <2>3 DEF SerialInv
  <2>5. \A q \in Procs : pc'[q] = "idle"
    BY <1>0, <1>4, <2>1 DEF Write, Goto, TypeOK
  <2>6. key[p] \in Keys /\ newest \in Held /\ held[p][key[p]] \in Nat /\ held[p][key[p]] <= clock
    BY <1>0, StampsAreNat DEF IInv, StampInv, TypeOK
  <2>7. \A k \in Keys : newest'[k] = IF k = key[p] THEN held[p][key[p]] ELSE newest[k]
    BY <2>3, <2>6 DEF Held
  <2>8. Distinct(newest') /\ \A k \in Keys : newest'[k] <= clock'
    BY <2>1, <2>3, <2>4, <2>6, <2>7, StampsAreNat DEF SerialInv, Distinct
  <2>9. Keeps(Items', newest')
    BY <2>2, <2>4
  <2> QED
    BY <2>2, <2>5, <2>8, <2>9 DEF SerialInv, Distinct, Keeps, Size
<1>5. ASSUME NEW p \in Procs, Kill(p) PROVE SerialInv'
  BY <1>5 DEF Kill
<1>6. CASE UNCHANGED vars
  <2>1. UNCHANGED <<text, clock, pc, key, held, newest, raced>> /\ Items' = Items
    BY <1>6 DEF vars, Items
  <2>2. Distinct(newest)' = Distinct(newest) /\ Keeps(Items, newest)' = Keeps(Items, newest)
    BY <2>1 DEF Distinct, Keeps, Size
  <2>3. ASSUME NEW p \in Procs
        PROVE  Keeps(held[p], [newest EXCEPT ![key[p]] = held[p][key[p]]])'
                  = Keeps(held[p], [newest EXCEPT ![key[p]] = held[p][key[p]]])
    BY <2>1 DEF Keeps, Size
  <2> QED
    BY <2>1, <2>2, <2>3 DEF SerialInv
<1> QED
  BY <1>1, <1>2, <1>3, <1>4, <1>5, <1>6 DEF Next

\* Saves that do not overlap keep the last value of each of the max_entries
\* keys saved last, and nothing else.
THEOREM SerialSavesAreKept == Spec => []SerialSavesKept
<1>1. Init => SerialInv
  <2> SUFFICES ASSUME Init PROVE SerialInv
    OBVIOUS
  <2>1. Items = NoItems /\ newest = NoItems /\ clock = 0 /\ text # "torn" /\ \A p \in Procs : pc[p] = "idle"
    BY DEF Init, Items
  <2> QED
    BY <2>1, NothingKept, NoItemsSize, NoItemsType DEF SerialInv
<1>2. IInv /\ SerialInv => SerialSavesKept
  BY DEF SerialInv, SerialSavesKept, Keeps
<1> QED
  BY InitIInv, NextIInv, SerialStep, <1>1, <1>2, PTL DEF Spec
=============================================================================

------------------------------ MODULE LLMCache ------------------------------
(***************************************************************************)
(* The LLM result cache of backend_llm/cache.py: one JSON file per project *)
(* that every process working on the project reads, changes and rewrites   *)
(* as a whole, without a lock.  Only save_cached_result changes it;        *)
(* load_cached_result returns what Items says of a key at the time.        *)
(*                                                                         *)
(* An entry is its updated_at stamp, which also tells the saves apart.     *)
(***************************************************************************)
EXTENDS Integers, FiniteSets

CONSTANTS
    Procs,
    Keys,          \* _cache_key of task, tier, provider hint and prompt
    MaxEntries,    \* _resolve_max_entries()
    MaxSaves       \* bound: saves in all

ASSUME CacheAssumption ==
    /\ IsFiniteSet(Keys)
    /\ MaxEntries \in Nat \ {0}
    /\ MaxSaves \in Nat

VARIABLES
    text,      \* the file: "empty" (or missing), "json", or "torn"
    items,     \* its items, key -> stamp, where 0 is no entry
    clock,     \* the last updated_at given
    pc,        \* the next step of each process
    key,       \* the key it saves
    held,      \* the items it will write
    newest,    \* key -> stamp of the last save that was completed
    raced      \* a save overlapped another, or was cut short

vars == <<text, items, clock, pc, key, held, newest, raced>>

NoItems == [k \in Keys |-> 0]

\* _read_cache_data and _cache_items: what cannot be parsed has no items.
Items == IF text = "json" THEN items ELSE NoItems

NewerThan(held_, k) == {j \in Keys : held_[j] > held_[k]}

\* _prune_items: the max_entries newest stay.
PrunedTooLate(all) ==
    [k \in Keys |-> IF Cardinality(NewerThan(all, k)) <= MaxEntries THEN all[k] ELSE 0]

PrunedTooEarly(all) ==
    [k \in Keys |-> IF Cardinality(NewerThan(all, k)) < MaxEntries - 1 THEN all[k] ELSE 0]

PrunedOldestStay(all) ==
    [k \in Keys |->
        IF Cardinality({j \in Keys : all[j] \in 1..(all[k] - 1)}) < MaxEntries THEN all[k] ELSE 0]

Pruned(all) ==
    [k \in Keys |-> IF Cardinality(NewerThan(all, k)) < MaxEntries THEN all[k] ELSE 0]

Init ==
    /\ text = "empty"
    /\ items = NoItems
    /\ clock = 0
    /\ pc = [p \in Procs |-> "idle"]
    /\ key \in [Procs -> Keys]
    /\ held = [p \in Procs |-> NoItems]
    /\ newest = NoItems
    /\ raced = FALSE

Goto(p, l) == pc' = [pc EXCEPT ![p] = l]

\* save_cached_result reads the file,
Read(p, k) ==
    /\ pc[p] = "idle"
    /\ clock < MaxSaves
    /\ key' = [key EXCEPT ![p] = k]
    /\ held' = [held EXCEPT ![p] = Items]
    /\ raced' = (raced \/ \E q \in Procs : pc[q] # "idle")
    /\ Goto(p, "stamp")
    /\ UNCHANGED <<text, items, clock, newest>>

\* adds its entry and prunes,
Stamp(p) ==
    /\ pc[p] = "stamp"
    /\ clock < MaxSaves
    /\ clock' = clock + 1
    /\ held' = [held EXCEPT ![p] = Pruned([@ EXCEPT ![key[p]] = clock'])]
    /\ Goto(p, "truncate")
    /\ UNCHANGED <<text, items, key, newest, raced>>

\* opens the file for writing, which empties it,
Truncate(p) ==
    /\ pc[p] = "truncate"
    /\ text' = "empty"
    /\ items' = NoItems
    /\ Goto(p, "write")
    /\ UNCHANGED <<clock, key, held, newest, raced>>

\* and writes from its beginning.  Where another process has written in
\* between, the shorter text leaves the end of the longer one behind it.
Write(p) ==
    /\ pc[p] = "write"
    /\ \/ text' = "json" /\ items' = held[p]
       \/ text # "empty" /\ text' = "torn" /\ items' = NoItems
    /\ newest' = [newest EXCEPT ![key[p]] = held[p][key[p]]]
    /\ held' = [held EXCEPT ![p] = NoItems]
    /\ Goto(p, "idle")
    /\ UNCHANGED <<clock, key, raced>>

\* The process is killed.
Kill(p) ==
    /\ pc[p] # "idle"
    /\ held' = [held EXCEPT ![p] = NoItems]
    /\ raced' = TRUE
    /\ Goto(p, "idle")
    /\ UNCHANGED <<text, items, clock, key, newest>>

Next ==
    \E p \in Procs :
        \/ \E k \in Keys : Read(p, k)
        \/ Stamp(p)
        \/ Truncate(p)
        \/ Write(p)
        \/ Kill(p)

Spec == Init /\ [][Next]_vars
-----------------------------------------------------------------------------
Held == [Keys -> 0..MaxSaves]

TypeOK ==
    /\ text \in {"empty", "json", "torn"}
    /\ items \in Held
    /\ clock \in 0..MaxSaves
    /\ pc \in [Procs -> {"idle", "stamp", "truncate", "write"}]
    /\ key \in [Procs -> Keys]
    /\ held \in [Procs -> Held]
    /\ newest \in Held
    /\ raced \in BOOLEAN
    /\ text # "json" => items = NoItems

Size(held_) == Cardinality({k \in Keys : held_[k] # 0})

\* However the saves of several processes overlap, the file never holds more
\* than max_entries items: the file is always what one process pruned, never a
\* union of what several wrote.
SizeBounded == TypeOK /\ Size(items) <= MaxEntries

\* Saves that do not overlap lose nothing but the oldest: between them the
\* file holds, for each of the max_entries keys saved last, the last value.
SerialSavesKept ==
    ~raced /\ (\A p \in Procs : pc[p] = "idle") =>
        /\ \A k \in Keys : Items[k] \in {0, newest[k]}
        /\ \A j, k \in Keys : Items[j] = 0 /\ Items[k] # 0 => newest[j] < newest[k]
        /\ Size(Items) = IF Size(newest) < MaxEntries THEN Size(newest) ELSE MaxEntries

\* A save that nobody disturbs repairs the file, whatever state earlier races
\* and kills left it in, and its own entry is among what it wrote: pruning
\* never takes the entry being saved.
UndisturbedSaveReadable ==
    [][\A p \in Procs :
          pc[p] = "write" /\ pc'[p] = "idle" /\ text = "empty" /\ newest' # newest =>
              text' = "json" /\ items'[key[p]] = newest'[key[p]] /\ items'[key[p]] # 0]_vars
=============================================================================

----------------------------- MODULE ScanCache -----------------------------
(***************************************************************************)
(* The scan cache of architec/code_review/scan_cache.py, as the scanners   *)
(* of near_duplicate.py and shadow_implementation.py use it: runs of one   *)
(* scanner take the candidates of each file from the cache while its       *)
(* signature is unchanged, and write a new cache at the end, while files   *)
(* are edited and a run may be killed.                                     *)
(*                                                                         *)
(* A file is what its last edit made it, NoFile when deleted: edits are    *)
(* numbered, and the number stands for the content, for the candidates in  *)
(* it, and for the signature, the mtime and size, that came with it.       *)
(* The shadow scanner reads a file twice, and the other one is the case    *)
(* that both reads find the same.  Reading a file that exists succeeds.    *)
(***************************************************************************)
EXTENDS Integers, SequencesExt

CONSTANTS Scanners, Files, MaxEdits

VARIABLES
    disk,    \* the last edit of each file
    edits,   \* the edits so far
    cache,   \* the cache file: a function from some files to entries
    scans    \* what each scanner is doing

NoFile == 0
scVars == <<disk, edits, cache, scans>>

Entries == [signature : 1..MaxEdits, candidates : (0..MaxEdits) \X (0..MaxEdits)]
NoEntries == [f \in {} |-> 0]
Partial(S) == UNION {[T -> S] : T \in SUBSET Files}
Idle == [step |-> "idle"]

TypeOK ==
    /\ disk \in [Files -> 0..edits]
    /\ edits \in 0..MaxEdits
    /\ cache \in Partial(Entries)
    /\ \A s \in Scanners : scans[s].step \in {"idle", "stat", "functions", "classes", "write"}

\* collect_file_scan_cache begins: the cache is read, one that cannot be read
\* as empty, and the Python files are listed.
Begin(s) ==
    /\ scans[s].step = "idle"
    /\ scans' = [scans EXCEPT ![s] =
          [step |-> "stat", left |-> {f \in Files : disk[f] # NoFile}, cached |-> cache,
           next |-> NoEntries, missed |-> FALSE, now |-> <<>>, found |-> NoFile]]
    /\ UNCHANGED <<disk, edits, cache>>

\* _file_signature: a file that is gone is passed over.
Stat(s) ==
    /\ scans[s].step = "stat"
    /\ \E f \in scans[s].left :
          scans' = [scans EXCEPT ![s].left = @ \ {f},
                       ![s].step = IF disk[f] = NoFile THEN "stat" ELSE "functions",
                       ![s].now = IF disk[f] = NoFile THEN @ ELSE <<f, disk[f]>>]
    /\ UNCHANGED <<disk, edits, cache>>

\* The entry of the cache that is a hit for the file in hand, if there is one.
Hit(s) ==
    LET f == scans[s].now[1]
    IN  f \in DOMAIN scans[s].cached /\ scans[s].cached[f].signature = scans[s].now[2]

\* A miss reads the file, for its functions: there are none in one that is gone.
Functions(s) ==
    /\ scans[s].step = "functions"
    /\ scans' = [scans EXCEPT ![s].step = "classes",
                    ![s].found = IF Hit(s) THEN NoFile ELSE disk[scans[s].now[1]]]
    /\ UNCHANGED <<disk, edits, cache>>

\* Mutant: the signature is that of the file after it was read.
SignatureAfterRead(f, signature) == IF disk[f] = NoFile THEN signature ELSE disk[f]

\* An entry is kept under the signature of before the file was read.
SignatureKept(f, signature) == signature

\* And again for its classes; a hit takes both from the cache.
Classes(s) ==
    LET f == scans[s].now[1]
        entry == IF Hit(s) THEN scans[s].cached[f]
                 ELSE [signature |-> SignatureKept(f, scans[s].now[2]), candidates |-> <<scans[s].found, disk[f]>>]
    IN  /\ scans[s].step = "classes"
        /\ scans' = [scans EXCEPT ![s].step = "stat", ![s].now = <<>>, ![s].found = NoFile,
                        ![s].missed = @ \/ ~Hit(s),
                        ![s].next = [g \in DOMAIN @ \cup {f} |-> IF g = f THEN entry ELSE @[g]]]
        /\ UNCHANGED <<disk, edits, cache>>

\* The cache is written again when a file was missed or the files differ.  It
\* is truncated first: until all of it is written, it cannot be read, and one
\* that another scanner wrote meanwhile may be spoilt for both.
OpenCache(s) ==
    /\ scans[s].step = "stat" /\ scans[s].left = {}
    /\ IF scans[s].missed \/ DOMAIN scans[s].cached # DOMAIN scans[s].next
       THEN /\ cache' = NoEntries
            /\ scans' = [scans EXCEPT ![s].step = "write"]
       ELSE /\ scans' = [scans EXCEPT ![s] = Idle]
            /\ UNCHANGED cache
    /\ UNCHANGED <<disk, edits>>
WriteCache(s) ==
    /\ scans[s].step = "write"
    /\ cache' \in {scans[s].next} \cup (IF cache = NoEntries THEN {} ELSE {NoEntries})
    /\ scans' = [scans EXCEPT ![s] = Idle]
    /\ UNCHANGED <<disk, edits>>

Kill(s) ==
    /\ scans[s].step # "idle"
    /\ scans' = [scans EXCEPT ![s] = Idle]
    /\ UNCHANGED <<disk, edits, cache>>

-----------------------------------------------------------------------------
(* The files: an edit changes the signature, and none returns. *)

Edit(f) ==
    /\ edits < MaxEdits
    /\ edits' = edits + 1
    /\ disk' = [disk EXCEPT ![f] = edits + 1]
    /\ UNCHANGED <<cache, scans>>
Delete(f) ==
    /\ disk[f] # NoFile
    /\ disk' = [disk EXCEPT ![f] = NoFile]
    /\ UNCHANGED <<edits, cache, scans>>

Init ==
    /\ disk = [f \in Files |-> NoFile]
    /\ edits = 0
    /\ cache = NoEntries
    /\ scans = [s \in Scanners |-> Idle]
Next == \/ \E s \in Scanners : Begin(s) \/ Stat(s) \/ Functions(s) \/ Classes(s) \/ OpenCache(s) \/ WriteCache(s) \/ Kill(s)
        \/ \E f \in Files : Edit(f) \/ Delete(f)
Spec == Init /\ [][Next]_scVars

-----------------------------------------------------------------------------
(* Properties. *)

\* What a scanner would take from the cache for a file is what the file holds,
\* whatever was edited while the entry was made and whichever scanner made it.
HitsAreCurrent ==
    \A f \in DOMAIN cache :
       disk[f] # NoFile /\ cache[f].signature = disk[f] =>
          cache[f].candidates = <<disk[f], disk[f]>>
=============================================================================

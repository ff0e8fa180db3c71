---------------------------- MODULE MachinesProofs ----------------------------
(***************************************************************************)
(* Proofs about Machines, for any constants: scanners over their cache,    *)
(* the npm dispatcher, and what one review leaves for the next; and about  *)
(* ReviewCommand, one run of archi or archi code-review: a degraded review *)
(* is printed only by the user's leave, and the event and the artifact it  *)
(* leaves are those of the review that was printed, for every command line *)
(* and every failure on the way.                                           *)
(*                                                                         *)
(* The three properties of ReviewCommand speak of the end of a run, so the *)
(* invariant says of each list of steps that is left how far the run has   *)
(* come: which kind of review it may be of, and what of it is on disk      *)
(* already.                                                                *)
(***************************************************************************)
EXTENDS Machines, ReviewCommand, FiniteSetTheorems, TLAPS

-----------------------------------------------------------------------------
(* The scan cache. *)

\* An entry never becomes wrong: its signature is of an edit that was made,
\* and only while that is the last one must it have been collected from it.
Sound(f, entry) ==
    /\ entry.signature \in 1..edits
    /\ entry.signature = disk[f] => entry.candidates = <<disk[f], disk[f]>>
SoundEntries(entries) == \A f \in DOMAIN entries : f \in Files /\ Sound(f, entries[f])

ScanFields == {"step", "left", "cached", "next", "missed", "now", "found"}
ScanSteps == {"stat", "functions", "classes", "write"}

\* What a scanner holds: sound entries, and in its hand a file with a signature
\* that it had, whose functions are of that edit if it still is the last one.
SoundScan(scan) ==
    /\ DOMAIN scan = ScanFields
    /\ scan.step \in ScanSteps
    /\ scan.left \subseteq Files
    /\ SoundEntries(scan.cached) /\ SoundEntries(scan.next)
    /\ scan.step \in {"functions", "classes"} =>
          scan.now[1] \in Files /\ scan.now[2] \in 1..edits
    /\ scan.step = "classes" =>
          \/ scan.now[1] \in DOMAIN scan.cached /\ scan.cached[scan.now[1]].signature = scan.now[2]
          \/ scan.now[2] = disk[scan.now[1]] => scan.found = disk[scan.now[1]]

CacheInv ==
    /\ edits \in 0..MaxEdits
    /\ disk \in [Files -> 0..edits]
    /\ SoundEntries(cache)
    /\ scans = [s \in Scanners |-> scans[s]]
    /\ \A s \in Scanners : scans[s] = SC!Idle \/ SoundScan(scans[s])

-----------------------------------------------------------------------------
(* What keeps entries sound. *)

LEMMA NothingIsSound == SoundEntries(SC!NoEntries)
BY DEF SoundEntries, SC!NoEntries

\* Edits get new numbers and deleted files none, so that no signature of before
\* is that of a file again.
LEMMA EditsKeepSound ==
    ASSUME edits \in Nat, edits' \in Nat, edits <= edits',
           \A f \in Files : disk'[f] = disk[f] \/ disk'[f] = 0 \/ disk'[f] = edits + 1,
           NEW entries, SoundEntries(entries)
    PROVE  \A f \in DOMAIN entries :
              /\ f \in Files
              /\ entries[f].signature \in 1..edits'
              /\ entries[f].signature = disk'[f] => entries[f].candidates = <<disk'[f], disk'[f]>>
<1> SUFFICES ASSUME NEW f \in DOMAIN entries
             PROVE  /\ f \in Files
                    /\ entries[f].signature \in 1..edits'
                    /\ entries[f].signature = disk'[f] => entries[f].candidates = <<disk'[f], disk'[f]>>
  OBVIOUS
<1>1. /\ f \in Files /\ entries[f].signature \in 1..edits
      /\ entries[f].signature = disk[f] => entries[f].candidates = <<disk[f], disk[f]>>
  BY DEF SoundEntries, Sound
<1>2. entries[f].signature = disk'[f] => disk'[f] = disk[f]
  BY <1>1
<1> QED
  BY <1>1, <1>2

\* A step of a scanner, while no file changes.
LEMMA ScannerStep ==
    ASSUME CacheInv, UNCHANGED <<disk, edits>>,
           NEW s \in Scanners, NEW scan, scans' = [scans EXCEPT ![s] = scan],
           scan = SC!Idle \/ SoundScan(scan),
           cache' = cache \/ SoundEntries(cache')
    PROVE  CacheInv'
<1>1. SoundEntries(cache)'
  BY DEF CacheInv, SoundEntries, Sound
<1>2. scans' = [t \in Scanners |-> scans'[t]]
  BY DEF CacheInv
<1>3. ASSUME NEW t \in Scanners
      PROVE  (scans[t] = SC!Idle \/ SoundScan(scans[t]))'
  <2>1. scans'[t] = SC!Idle \/ SoundScan(scans'[t])
    BY DEF CacheInv
  <2> QED
    BY <2>1 DEF SoundScan, SoundEntries, Sound
<1> QED
  BY <1>1, <1>2, <1>3 DEF CacheInv

-----------------------------------------------------------------------------
(* The inductive invariant. *)

LEMMA InitCacheInv == SC!Init => CacheInv
BY NothingIsSound, MachinesAssumption DEF SC!Init, CacheInv, SC!NoFile

LEMMA BeginCacheInv ==
    ASSUME CacheInv, NEW s \in Scanners, SC!Begin(s)
    PROVE  CacheInv'
<1> DEFINE scan == [step |-> "stat", left |-> {f \in Files : disk[f] # SC!NoFile}, cached |-> cache,
                    next |-> SC!NoEntries, missed |-> FALSE, now |-> <<>>, found |-> SC!NoFile]
<1>1. SoundScan(scan)
  BY NothingIsSound DEF CacheInv, SoundScan, ScanSteps, ScanFields
<1>2. scans' = [scans EXCEPT ![s] = scan] /\ UNCHANGED <<disk, edits, cache>>
  BY DEF SC!Begin
<1> HIDE DEF scan
<1> QED
  BY <1>1, <1>2, ScannerStep

LEMMA StatCacheInv ==
    ASSUME CacheInv, NEW s \in Scanners, SC!Stat(s)
    PROVE  CacheInv'
<1>1. SoundScan(scans[s]) /\ scans[s].step = "stat"
  BY DEF CacheInv, SC!Stat, SC!Idle
<1>2. PICK f \in scans[s].left :
        scans' = [scans EXCEPT ![s].left = @ \ {f},
                     ![s].step = IF disk[f] = SC!NoFile THEN "stat" ELSE "functions",
                     ![s].now = IF disk[f] = SC!NoFile THEN @ ELSE <<f, disk[f]>>]
  BY DEF SC!Stat
<1> DEFINE scan == [scans[s] EXCEPT !.left = @ \ {f},
                       !.step = IF disk[f] = SC!NoFile THEN "stat" ELSE "functions",
                       !.now = IF disk[f] = SC!NoFile THEN @ ELSE <<f, disk[f]>>]
<1>3. scans' = [scans EXCEPT ![s] = scan]
  BY <1>2 DEF CacheInv
<1>4. f \in Files /\ (disk[f] # SC!NoFile => disk[f] \in 1..edits)
  BY <1>1 DEF CacheInv, SoundScan, SC!NoFile
<1>5. SoundScan(scan)
  <2>1. /\ DOMAIN scan = ScanFields
        /\ scan.left = scans[s].left \ {f} /\ scan.cached = scans[s].cached /\ scan.next = scans[s].next
        /\ scan.step = IF disk[f] = SC!NoFile THEN "stat" ELSE "functions"
        /\ disk[f] # SC!NoFile => scan.now = <<f, disk[f]>>
    BY <1>1 DEF SoundScan, ScanFields
  <2> HIDE DEF scan
  <2>2. SoundEntries(scan.cached) /\ SoundEntries(scan.next) /\ scan.left \subseteq Files
    BY <1>1, <2>1 DEF SoundScan
  <2>3. /\ scan.step \in {"stat", "functions"}
        /\ scan.step = "functions" => scan.now[1] \in Files /\ scan.now[2] \in 1..edits
    BY <1>4, <2>1
  <2> QED
    BY <2>1, <2>2, <2>3 DEF SoundScan, ScanSteps
<1> HIDE DEF scan
<1> QED
  BY <1>3, <1>5, ScannerStep DEF SC!Stat

LEMMA FunctionsCacheInv ==
    ASSUME CacheInv, NEW s \in Scanners, SC!Functions(s)
    PROVE  CacheInv'
<1>1. SoundScan(scans[s]) /\ scans[s].step = "functions"
  BY DEF CacheInv, SC!Functions, SC!Idle
<1> DEFINE f == scans[s].now[1]
           scan == [scans[s] EXCEPT !.step = "classes", !.found = IF SC!Hit(s) THEN SC!NoFile ELSE disk[f]]
<1>2. scans' = [scans EXCEPT ![s] = scan]
  BY DEF CacheInv, SC!Functions
<1>3. SC!Hit(s) <=> f \in DOMAIN scans[s].cached /\ scans[s].cached[f].signature = scans[s].now[2]
  BY DEF SC!Hit
<1>4. SoundScan(scan)
  <2>1. /\ DOMAIN scan = ScanFields
        /\ scan.left = scans[s].left /\ scan.cached = scans[s].cached /\ scan.next = scans[s].next
        /\ scan.step = "classes" /\ scan.now = scans[s].now
        /\ scan.found = IF SC!Hit(s) THEN SC!NoFile ELSE disk[f]
    BY <1>1 DEF SoundScan, ScanFields
  <2>2. /\ SoundEntries(scans[s].cached) /\ SoundEntries(scans[s].next) /\ scans[s].left \subseteq Files
        /\ scans[s].now[1] \in Files /\ scans[s].now[2] \in 1..edits
    BY <1>1 DEF SoundScan
  <2> HIDE DEF scan
  <2>3. \/ scan.now[1] \in DOMAIN scan.cached /\ scan.cached[scan.now[1]].signature = scan.now[2]
        \/ scan.found = disk[scan.now[1]]
    BY <1>3, <2>1
  <2> QED
    BY <2>1, <2>2, <2>3 DEF SoundScan, ScanSteps
<1> HIDE DEF scan
<1> QED
  BY <1>2, <1>4, ScannerStep DEF SC!Functions

\* A hit is passed on as it is; a miss is kept under the signature of before
\* both reads, which is that of the file only if nothing came between.
LEMMA ClassesCacheInv ==
    ASSUME CacheInv, NEW s \in Scanners, SC!Classes(s)
    PROVE  CacheInv'
<1>1. SoundScan(scans[s]) /\ scans[s].step = "classes"
  BY DEF CacheInv, SC!Classes, SC!Idle
<1> DEFINE f == scans[s].now[1]
           entry == IF SC!Hit(s) THEN scans[s].cached[f]
                    ELSE [signature |-> scans[s].now[2], candidates |-> <<scans[s].found, disk[f]>>]
           next == [g \in DOMAIN scans[s].next \cup {f} |-> IF g = f THEN entry ELSE scans[s].next[g]]
           scan == [scans[s] EXCEPT !.step = "stat", !.now = <<>>, !.found = SC!NoFile,
                       !.missed = @ \/ ~SC!Hit(s), !.next = next]
<1>2. scans' = [scans EXCEPT ![s] = scan]
  BY DEF CacheInv, SC!Classes, SC!SignatureKept
<1>3. f \in Files /\ scans[s].now[2] \in 1..edits
  BY <1>1 DEF SoundScan
<1>4. Sound(f, entry)
  <2>1. CASE SC!Hit(s)
    <3>1. f \in DOMAIN scans[s].cached /\ entry = scans[s].cached[f]
      BY <2>1 DEF SC!Hit
    <3> QED
      BY <1>1, <3>1 DEF SoundScan, SoundEntries
  <2>2. CASE ~SC!Hit(s)
    <3>1. scans[s].now[2] = disk[f] => scans[s].found = disk[f]
      BY <1>1, <2>2 DEF SoundScan, SC!Hit
    <3>2. entry = [signature |-> scans[s].now[2], candidates |-> <<scans[s].found, disk[f]>>]
      BY <2>2
    <3> QED
      BY <1>3, <3>1, <3>2 DEF Sound
  <2> QED
    BY <2>1, <2>2
<1>5. SoundEntries(next)
  <2> HIDE DEF entry, f
  <2> QED
    BY <1>1, <1>3, <1>4 DEF SoundScan, SoundEntries
<1>6. SoundScan(scan)
  <2> HIDE DEF next
  <2>1. /\ DOMAIN scan = ScanFields
        /\ scan.left = scans[s].left /\ scan.cached = scans[s].cached /\ scan.next = next
        /\ scan.step = "stat"
    BY <1>1 DEF SoundScan, ScanFields
  <2>2. SoundEntries(scans[s].cached) /\ scans[s].left \subseteq Files
    BY <1>1 DEF SoundScan
  <2> HIDE DEF scan
  <2> QED
    BY <1>5, <2>1, <2>2 DEF SoundScan, ScanSteps
<1> HIDE DEF scan
<1> QED
  BY <1>2, <1>6, ScannerStep DEF SC!Classes

LEMMA OpenCacheInv ==
    ASSUME CacheInv, NEW s \in Scanners, SC!OpenCache(s)
    PROVE  CacheInv'
<1>1. SoundScan(scans[s])
  BY DEF CacheInv, SC!OpenCache, SC!Idle
<1>2. CASE cache' = SC!NoEntries /\ scans' = [scans EXCEPT ![s].step = "write"]
  <2> DEFINE scan == [scans[s] EXCEPT !.step = "write"]
  <2>1. scans' = [scans EXCEPT ![s] = scan]
    BY <1>2 DEF CacheInv
  <2>2. SoundScan(scan)
    BY <1>1 DEF SoundScan, ScanSteps
  <2> HIDE DEF scan
  <2>3. SoundEntries(cache')
    BY <1>2, NothingIsSound
  <2> QED
    BY <2>1, <2>2, <2>3, ScannerStep DEF SC!OpenCache
<1>3. CASE scans' = [scans EXCEPT ![s] = SC!Idle] /\ UNCHANGED cache
  BY <1>3, ScannerStep DEF SC!OpenCache
<1> QED
  BY <1>2, <1>3 DEF SC!OpenCache

LEMMA WriteCacheInv ==
    ASSUME CacheInv, NEW s \in Scanners, SC!WriteCache(s)
    PROVE  CacheInv'
<1>1. SoundScan(scans[s])
  BY DEF CacheInv, SC!WriteCache, SC!Idle
<1>2. SoundEntries(scans[s].next)
  BY <1>1 DEF SoundScan
<1>3. cache' \in {scans[s].next, SC!NoEntries}
  BY DEF SC!WriteCache
<1>4. SoundEntries(cache')
  BY <1>2, <1>3, NothingIsSound
<1> QED
  BY <1>4, ScannerStep DEF SC!WriteCache

LEMMA KillCacheInv ==
    ASSUME CacheInv, NEW s \in Scanners, SC!Kill(s)
    PROVE  CacheInv'
BY ScannerStep DEF SC!Kill

\* An edit or a deletion, while no scanner moves.
LEMMA EditCacheInv ==
    ASSUME CacheInv, NEW f \in Files, SC!Edit(f) \/ SC!Delete(f)
    PROVE  CacheInv'
<1>1. /\ edits' \in 0..MaxEdits /\ edits <= edits' /\ disk' \in [Files -> 0..edits']
      /\ \A g \in Files : disk'[g] = disk[g] \/ disk'[g] = 0 \/ disk'[g] = edits + 1
      /\ UNCHANGED <<cache, scans>>
  BY MachinesAssumption DEF CacheInv, SC!Edit, SC!Delete, SC!NoFile
<1>2. ASSUME NEW entries, SoundEntries(entries)
      PROVE  \A g \in DOMAIN entries :
                /\ g \in Files
                /\ entries[g].signature \in 1..edits'
                /\ entries[g].signature = disk'[g] => entries[g].candidates = <<disk'[g], disk'[g]>>
  BY <1>1, <1>2, EditsKeepSound DEF CacheInv
<1>3. SoundEntries(cache)'
  BY <1>1, <1>2 DEF CacheInv, SoundEntries, Sound
<1>4. ASSUME NEW s \in Scanners, scans[s] # SC!Idle
      PROVE  SoundScan(scans[s])'
  <2>1. SoundScan(scans[s])
    BY <1>4 DEF CacheInv
  <2>2. SoundEntries(scans[s].cached)' /\ SoundEntries(scans[s].next)'
    <3>1. SoundEntries(scans[s].cached) /\ SoundEntries(scans[s].next)
      BY <2>1 DEF SoundScan
    <3> QED
      BY <1>1, <1>2, <3>1 DEF SoundEntries, Sound
  <2>3. scans[s].step \in {"functions", "classes"} =>
           /\ scans[s].now[1] \in Files
           /\ scans[s].now[2] \in 1..edits /\ scans[s].now[2] \in 1..edits'
    BY <1>1, <2>1 DEF SoundScan, CacheInv
  <2>4. scans[s].step = "classes" /\ scans[s].now[2] = disk'[scans[s].now[1]] =>
           disk'[scans[s].now[1]] = disk[scans[s].now[1]]
    BY <1>1, <2>3 DEF CacheInv
  <2> QED
    BY <1>1, <2>1, <2>2, <2>3, <2>4 DEF SoundScan
<1> QED
  BY <1>1, <1>3, <1>4 DEF CacheInv

LEMMA NextCacheInv == CacheInv /\ [SC!Next]_scVars => CacheInv'
<1> SUFFICES ASSUME CacheInv, [SC!Next]_scVars
             PROVE  CacheInv'
  OBVIOUS
<1>1. ASSUME NEW s \in Scanners,
             \/ SC!Begin(s) \/ SC!Stat(s) \/ SC!Functions(s) \/ SC!Classes(s)
             \/ SC!OpenCache(s) \/ SC!WriteCache(s) \/ SC!Kill(s)
      PROVE  CacheInv'
  BY <1>1, BeginCacheInv, StatCacheInv, FunctionsCacheInv, ClassesCacheInv, OpenCacheInv,
     WriteCacheInv, KillCacheInv
<1>2. ASSUME NEW f \in Files, SC!Edit(f) \/ SC!Delete(f)
      PROVE  CacheInv'
  BY <1>2, EditCacheInv
<1>3. CASE UNCHANGED scVars
  BY <1>3 DEF scVars, CacheInv, SoundScan, SoundEntries, Sound
<1> QED
  BY <1>1, <1>2, <1>3 DEF SC!Next

\* The shape of the entries, wherever they are.
Saved == SC!Partial(SC!Entries)
SavedInv ==
    /\ cache \in Saved
    /\ \A s \in Scanners : scans[s] # SC!Idle =>
          scans[s].cached \in Saved /\ scans[s].next \in Saved /\ scans[s].found \in 0..MaxEdits

LEMMA NothingSaved == SC!NoEntries \in Saved
<1>1. SC!NoEntries \in [{} -> SC!Entries]
  BY DEF SC!NoEntries
<1> QED
  BY <1>1 DEF Saved, SC!Partial

LEMMA SavedWithOne ==
    ASSUME NEW entries \in Saved, NEW f \in Files, NEW entry \in SC!Entries
    PROVE  [g \in DOMAIN entries \cup {f} |-> IF g = f THEN entry ELSE entries[g]] \in Saved
<1>1. PICK T \in SUBSET Files : entries \in [T -> SC!Entries]
  BY DEF Saved, SC!Partial
<1>2. [g \in DOMAIN entries \cup {f} |-> IF g = f THEN entry ELSE entries[g]] \in [T \cup {f} -> SC!Entries]
  BY <1>1
<1>3. T \cup {f} \in SUBSET Files
  OBVIOUS
<1> QED
  BY <1>2, <1>3 DEF Saved, SC!Partial

LEMMA SavedEntry ==
    ASSUME NEW entries \in Saved, NEW f \in DOMAIN entries
    PROVE  f \in Files /\ entries[f] \in SC!Entries
<1>1. PICK T \in SUBSET Files : entries \in [T -> SC!Entries]
  BY DEF Saved, SC!Partial
<1> QED
  BY <1>1

LEMMA NextSavedInv == CacheInv /\ SavedInv /\ [SC!Next]_scVars => SavedInv'
<1> SUFFICES ASSUME CacheInv, SavedInv, [SC!Next]_scVars
             PROVE  SavedInv'
  OBVIOUS
<1>1. /\ scans = [s \in Scanners |-> scans[s]]
      /\ edits \in 0..MaxEdits /\ \A f \in Files : disk[f] \in 0..MaxEdits
  BY MachinesAssumption DEF CacheInv
<1>2. ASSUME NEW s \in Scanners, SC!Begin(s) PROVE SavedInv'
  <2>1. /\ scans'[s].cached = cache /\ scans'[s].next = SC!NoEntries /\ scans'[s].found = 0
        /\ cache' = cache /\ \A t \in Scanners \ {s} : scans'[t] = scans[t]
    BY <1>1, <1>2 DEF SC!Begin, SC!NoFile
  <2> QED
    BY <2>1, NothingSaved, MachinesAssumption DEF SavedInv
<1>3. ASSUME NEW s \in Scanners, SC!Stat(s) PROVE SavedInv'
  <2>1. scans[s] # SC!Idle /\ DOMAIN scans[s] = ScanFields
    BY <1>3 DEF SC!Stat, SC!Idle, CacheInv, SoundScan
  <2>2. /\ scans'[s].cached = scans[s].cached /\ scans'[s].next = scans[s].next
        /\ scans'[s].found = scans[s].found
        /\ cache' = cache /\ \A t \in Scanners \ {s} : scans'[t] = scans[t]
    BY <1>1, <1>3, <2>1 DEF SC!Stat, ScanFields
  <2> QED
    BY <2>1, <2>2 DEF SavedInv
<1>4. ASSUME NEW s \in Scanners, SC!Functions(s) PROVE SavedInv'
  <2>1. scans[s] # SC!Idle /\ SoundScan(scans[s]) /\ scans[s].step = "functions"
    BY <1>4 DEF SC!Functions, SC!Idle, CacheInv
  <2>2. DOMAIN scans[s] = ScanFields /\ scans[s].now[1] \in Files
    BY <2>1 DEF SoundScan
  <2>3. /\ scans'[s].cached = scans[s].cached /\ scans'[s].next = scans[s].next
        /\ scans'[s].found \in {0, disk[scans[s].now[1]]}
        /\ cache' = cache /\ \A t \in Scanners \ {s} : scans'[t] = scans[t]
    BY <1>1, <1>4, <2>2 DEF SC!Functions, ScanFields, SC!NoFile
  <2> QED
    BY <1>1, <2>1, <2>2, <2>3, MachinesAssumption DEF SavedInv
<1>5. ASSUME NEW s \in Scanners, SC!Classes(s) PROVE SavedInv'
  <2>1. scans[s] # SC!Idle /\ SoundScan(scans[s]) /\ scans[s].step = "classes"
    BY <1>5 DEF SC!Classes, SC!Idle, CacheInv
  <2>2. /\ DOMAIN scans[s] = ScanFields /\ scans[s].now[1] \in Files
        /\ scans[s].now[2] \in 1..MaxEdits
    BY <1>1, <2>1, MachinesAssumption DEF SoundScan
  <2>3. scans[s].cached \in Saved /\ scans[s].next \in Saved /\ scans[s].found \in 0..MaxEdits
    BY <2>1 DEF SavedInv
  <2> DEFINE f == scans[s].now[1]
             entry == IF SC!Hit(s) THEN scans[s].cached[f]
                      ELSE [signature |-> scans[s].now[2], candidates |-> <<scans[s].found, disk[f]>>]
             next == [g \in DOMAIN scans[s].next \cup {f} |-> IF g = f THEN entry ELSE scans[s].next[g]]
  <2>4. entry \in SC!Entries
    <3>1. CASE SC!Hit(s)
      BY <2>3, <3>1, SavedEntry DEF SC!Hit
    <3>2. CASE ~SC!Hit(s)
      BY <1>1, <2>2, <2>3, <3>2 DEF SC!Entries
    <3> QED
      BY <3>1, <3>2
  <2>5. next \in Saved
    <3> HIDE DEF entry, f
    <3> QED
      BY <2>2, <2>3, <2>4, SavedWithOne DEF f
  <2>6. /\ scans'[s].cached = scans[s].cached /\ scans'[s].next = next /\ scans'[s].found = 0
        /\ cache' = cache /\ \A t \in Scanners \ {s} : scans'[t] = scans[t]
    BY <1>1, <1>5, <2>2 DEF SC!Classes, SC!SignatureKept, ScanFields, SC!NoFile
  <2> HIDE DEF next
  <2> QED
    BY <2>3, <2>5, <2>6, MachinesAssumption DEF SavedInv
<1>6. ASSUME NEW s \in Scanners, SC!OpenCache(s) PROVE SavedInv'
  <2>1. scans[s] # SC!Idle /\ DOMAIN scans[s] = ScanFields
    BY <1>6 DEF SC!OpenCache, SC!Idle, CacheInv, SoundScan
  <2>2. /\ cache' \in {cache, SC!NoEntries}
        /\ \A t \in Scanners \ {s} : scans'[t] = scans[t]
        /\ \/ scans'[s] = SC!Idle
           \/ /\ scans'[s].cached = scans[s].cached /\ scans'[s].next = scans[s].next
              /\ scans'[s].found = scans[s].found
    BY <1>1, <1>6, <2>1 DEF SC!OpenCache, ScanFields
  <2> QED
    BY <2>1, <2>2, NothingSaved DEF SavedInv
<1>7. ASSUME NEW s \in Scanners, SC!WriteCache(s) PROVE SavedInv'
  <2>1. scans[s] # SC!Idle
    BY <1>7 DEF SC!WriteCache, SC!Idle
  <2>2. /\ cache' \in {scans[s].next, SC!NoEntries}
        /\ scans'[s] = SC!Idle /\ \A t \in Scanners \ {s} : scans'[t] = scans[t]
    BY <1>1, <1>7 DEF SC!WriteCache
  <2> QED
    BY <2>1, <2>2, NothingSaved DEF SavedInv
<1>8. ASSUME NEW s \in Scanners, SC!Kill(s) PROVE SavedInv'
  <2>1. /\ cache' = cache
        /\ scans'[s] = SC!Idle /\ \A t \in Scanners \ {s} : scans'[t] = scans[t]
    BY <1>1, <1>8 DEF SC!Kill
  <2> QED
    BY <2>1 DEF SavedInv
<1>9. CASE UNCHANGED <<cache, scans>>
  BY <1>9 DEF SavedInv
<1> QED
  BY <1>2, <1>3, <1>4, <1>5, <1>6, <1>7, <1>8, <1>9 DEF SC!Next, SC!Edit, SC!Delete, scVars

LEMMA CacheIsKept == SC!Spec => [](CacheInv /\ SavedInv)
<1>1. SC!Init => CacheInv /\ SavedInv
  BY InitCacheInv, NothingSaved DEF SC!Init, SavedInv
<1> QED
  BY <1>1, NextCacheInv, NextSavedInv, PTL DEF SC!Spec, scVars, SC!scVars

\* near_duplicate.py and shadow_implementation.py over scan_cache.py: a scanner
\* that finds the signature of a file in the cache finds what is in that file,
\* for any number of scanners, files and edits.
THEOREM CacheIsCurrent == SC!Spec => []HitsAreCurrent
<1>1. CacheInv /\ SavedInv => SC!TypeOK
  <2> SUFFICES ASSUME CacheInv, SavedInv PROVE SC!TypeOK
    OBVIOUS
  <2>1. ASSUME NEW s \in Scanners
        PROVE  scans[s].step \in {"idle", "stat", "functions", "classes", "write"}
    <3>1. SC!Idle.step = "idle"
      BY DEF SC!Idle
    <3>2. SoundScan(scans[s]) => scans[s].step \in ScanSteps
      BY DEF SoundScan
    <3> QED
      BY <3>1, <3>2 DEF CacheInv, ScanSteps
  <2> QED
    BY <2>1 DEF CacheInv, SavedInv, Saved, SC!TypeOK
<1>2. CacheInv => SC!HitsAreCurrent
  BY DEF CacheInv, SC!HitsAreCurrent, SoundEntries, Sound
<1> QED
  BY <1>1, <1>2, CacheIsKept, PTL DEF HitsAreCurrent

-----------------------------------------------------------------------------
(* The dispatcher. *)

\* The steps after FetchChecksum: before the target is known to be good, after.
Verifying == {"look", "hash", "download", "receive", "verify", "rename"}
Good == {"mark", "marked", "spawn"}
DispatchSteps == {"idle", "config", "create", "fill", "fetch"} \cup Verifying \cup Good

\* The checksum of a binary is uploaded after it.
DispatchTypes == DP!TypeOK /\ pc \in [Dispatchers -> DispatchSteps] /\ sums <= asset

\* What a process fetched is a checksum of the release, and its temporary file,
\* which no other process writes, has it once it was verified.
Fetched ==
    \A p \in Dispatchers :
        /\ pc[p] \in Verifying \cup Good => expected[p] \in DP!Uploads /\ expected[p] <= sums
        /\ pc[p] = "rename" => temp[p] = expected[p]

\* The binary in the cache is never a part of one, nor newer than the checksums.
Target ==
    /\ target \in {DP!None} \cup DP!Uploads /\ target <= sums
    /\ \A p \in Dispatchers : pc[p] \in Good => target \in DP!Uploads

\* Processes that come one after the other: none fetched a checksum older than
\* the binary, and the marker is not newer than the binary, which a kill
\* between Rename and Mark leaves behind it.
OneByOne ==
    overlap \/
    /\ \A p, q \in Dispatchers : pc[p] # "idle" /\ pc[q] # "idle" => p = q
    /\ marker <= target
    /\ \A p \in Dispatchers :
          /\ pc[p] \in Verifying => target <= expected[p]
          /\ pc[p] \in Good => target = expected[p]

\* No process is about to fill a configuration that the user wrote.
Config ==
    /\ own => config = "user"
    /\ \A p \in Dispatchers : pc[p] = "fill" => ~own

DispatchInv == DispatchTypes /\ Fetched /\ Target /\ OneByOne /\ Config

-----------------------------------------------------------------------------
(* Each part is kept by every step, from the parts before it. *)

\* The types, and the order of the two uploads.
LEMMA DispatchTypesStep ==
    ASSUME DispatchTypes, [DP!Next]_dpVars
    PROVE  DispatchTypes'
<1> USE MachinesAssumption DEF DispatchTypes, DP!TypeOK, DP!Uploads, DP!None, DP!Torn, DispatchSteps,
            Verifying, Good
<1>1. ASSUME NEW p \in Dispatchers, DP!Start(p) PROVE DispatchTypes'
  BY <1>1 DEF DP!Start, DP!Goto, DP!files, DP!release
<1>2. ASSUME NEW p \in Dispatchers, DP!LookForConfig(p) PROVE DispatchTypes'
  BY <1>2 DEF DP!LookForConfig, DP!Goto, DP!files, DP!release, DP!Prepared
<1>3. ASSUME NEW p \in Dispatchers, DP!CreateConfig(p) PROVE DispatchTypes'
  BY <1>3 DEF DP!CreateConfig, DP!Goto, DP!release, DP!Prepared
<1>4. ASSUME NEW p \in Dispatchers, DP!FillConfig(p) PROVE DispatchTypes'
  BY <1>4 DEF DP!FillConfig, DP!Goto, DP!release, DP!Prepared
<1>5. ASSUME NEW p \in Dispatchers, DP!FetchChecksum(p) PROVE DispatchTypes'
  BY <1>5 DEF DP!FetchChecksum, DP!Goto, DP!files, DP!release
<1>6. ASSUME NEW p \in Dispatchers, DP!Look(p) PROVE DispatchTypes'
  BY <1>6 DEF DP!Look, DP!Goto, DP!files, DP!release
<1>7. ASSUME NEW p \in Dispatchers, DP!Hash(p) PROVE DispatchTypes'
  BY <1>7 DEF DP!Hash, DP!Goto, DP!files, DP!release
<1>8. ASSUME NEW p \in Dispatchers, DP!Download(p) PROVE DispatchTypes'
  BY <1>8 DEF DP!Download, DP!Goto, DP!release, DP!TempOf
<1>9. ASSUME NEW p \in Dispatchers, DP!Receive(p) PROVE DispatchTypes'
  BY <1>9 DEF DP!Receive, DP!Goto, DP!release, DP!TempOf
<1>10. ASSUME NEW p \in Dispatchers, DP!Verify(p) PROVE DispatchTypes'
  BY <1>10 DEF DP!Verify, DP!Goto, DP!release, DP!TempOf
<1>11. ASSUME NEW p \in Dispatchers, DP!Rename(p) PROVE DispatchTypes'
  BY <1>11 DEF DP!Rename, DP!Goto, DP!release, DP!TempOf
<1>12. ASSUME NEW p \in Dispatchers, DP!Mark(p) PROVE DispatchTypes'
  BY <1>12 DEF DP!Mark, DP!Goto, DP!release
<1>13. ASSUME NEW p \in Dispatchers, DP!Marked(p) PROVE DispatchTypes'
  BY <1>13 DEF DP!Marked, DP!Goto, DP!release
<1>14. ASSUME NEW p \in Dispatchers, DP!Spawn(p) PROVE DispatchTypes'
  BY <1>14 DEF DP!Spawn, DP!Goto, DP!files, DP!release
<1>15. ASSUME NEW p \in Dispatchers, DP!Kill(p) PROVE DispatchTypes'
  BY <1>15 DEF DP!Kill, DP!Goto, DP!files, DP!release
<1>16. ASSUME DP!Upload PROVE DispatchTypes'
  BY <1>16 DEF DP!Upload, DP!files
<1>17. ASSUME DP!EditConfig PROVE DispatchTypes'
  BY <1>17 DEF DP!EditConfig, DP!release
<1>18. CASE UNCHANGED dpVars
  BY <1>18 DEF dpVars
<1> QED
  BY <1>1, <1>2, <1>3, <1>4, <1>5, <1>6, <1>7, <1>8, <1>9, <1>10, <1>11, <1>12, <1>13, <1>14, <1>15,
     <1>16, <1>17, <1>18
  DEF DP!Next, DP!Step, DP!Ensure

\* A temporary file is written by its own process only, which verifies it last.
LEMMA FetchedStep ==
    ASSUME DispatchTypes, Fetched, [DP!Next]_dpVars
    PROVE  Fetched'
<1> USE DEF DispatchTypes, DP!TypeOK, DP!Uploads, DP!None, DP!Torn, DispatchSteps, Verifying, Good, Fetched
<1>1. ASSUME NEW p \in Dispatchers, DP!Start(p) PROVE Fetched'
  BY <1>1 DEF DP!Start, DP!Goto, DP!files, DP!release
<1>2. ASSUME NEW p \in Dispatchers, DP!LookForConfig(p) PROVE Fetched'
  BY <1>2 DEF DP!LookForConfig, DP!Goto, DP!files, DP!release, DP!Prepared
<1>3. ASSUME NEW p \in Dispatchers, DP!CreateConfig(p) PROVE Fetched'
  BY <1>3 DEF DP!CreateConfig, DP!Goto, DP!release, DP!Prepared
<1>4. ASSUME NEW p \in Dispatchers, DP!FillConfig(p) PROVE Fetched'
  BY <1>4 DEF DP!FillConfig, DP!Goto, DP!release, DP!Prepared
<1>5. ASSUME NEW p \in Dispatchers, DP!FetchChecksum(p) PROVE Fetched'
  BY <1>5 DEF DP!FetchChecksum, DP!Goto, DP!files, DP!release
<1>6. ASSUME NEW p \in Dispatchers, DP!Look(p) PROVE Fetched'
  BY <1>6 DEF DP!Look, DP!Goto, DP!files, DP!release
<1>7. ASSUME NEW p \in Dispatchers, DP!Hash(p) PROVE Fetched'
  BY <1>7 DEF DP!Hash, DP!Goto, DP!files, DP!release
<1>8. ASSUME NEW p \in Dispatchers, DP!Download(p) PROVE Fetched'
  BY <1>8 DEF DP!Download, DP!Goto, DP!release, DP!TempOf
<1>9. ASSUME NEW p \in Dispatchers, DP!Receive(p) PROVE Fetched'
  BY <1>9 DEF DP!Receive, DP!Goto, DP!release, DP!TempOf
<1>10. ASSUME NEW p \in Dispatchers, DP!Verify(p) PROVE Fetched'
  BY <1>10 DEF DP!Verify, DP!Goto, DP!release, DP!TempOf
<1>11. ASSUME NEW p \in Dispatchers, DP!Rename(p) PROVE Fetched'
  BY <1>11 DEF DP!Rename, DP!Goto, DP!release, DP!TempOf
<1>12. ASSUME NEW p \in Dispatchers, DP!Mark(p) PROVE Fetched'
  BY <1>12 DEF DP!Mark, DP!Goto, DP!release
<1>13. ASSUME NEW p \in Dispatchers, DP!Marked(p) PROVE Fetched'
  BY <1>13 DEF DP!Marked, DP!Goto, DP!release
<1>14. ASSUME NEW p \in Dispatchers, DP!Spawn(p) PROVE Fetched'
  BY <1>14 DEF DP!Spawn, DP!Goto, DP!files, DP!release
<1>15. ASSUME NEW p \in Dispatchers, DP!Kill(p) PROVE Fetched'
  BY <1>15 DEF DP!Kill, DP!Goto, DP!files, DP!release
<1>16. ASSUME DP!Upload PROVE Fetched'
  BY <1>16 DEF DP!Upload, DP!files
<1>17. ASSUME DP!EditConfig PROVE Fetched'
  BY <1>17 DEF DP!EditConfig, DP!release
<1>18. CASE UNCHANGED dpVars
  BY <1>18 DEF dpVars
<1> QED
  BY <1>1, <1>2, <1>3, <1>4, <1>5, <1>6, <1>7, <1>8, <1>9, <1>10, <1>11, <1>12, <1>13, <1>14, <1>15,
     <1>16, <1>17, <1>18
  DEF DP!Next, DP!Step, DP!Ensure

\* The binary in the cache is replaced only by a file that was verified.
LEMMA TargetStep ==
    ASSUME DispatchTypes, Fetched, Target, [DP!Next]_dpVars
    PROVE  Target'
<1> USE DEF DispatchTypes, DP!TypeOK, DP!Uploads, DP!None, DP!Torn, DispatchSteps, Verifying, Good, Fetched, Target
<1>1. ASSUME NEW p \in Dispatchers, DP!Start(p) PROVE Target'
  BY <1>1 DEF DP!Start, DP!Goto, DP!files, DP!release
<1>2. ASSUME NEW p \in Dispatchers, DP!LookForConfig(p) PROVE Target'
  BY <1>2 DEF DP!LookForConfig, DP!Goto, DP!files, DP!release, DP!Prepared
<1>3. ASSUME NEW p \in Dispatchers, DP!CreateConfig(p) PROVE Target'
  BY <1>3 DEF DP!CreateConfig, DP!Goto, DP!release, DP!Prepared
<1>4. ASSUME NEW p \in Dispatchers, DP!FillConfig(p) PROVE Target'
  BY <1>4 DEF DP!FillConfig, DP!Goto, DP!release, DP!Prepared
<1>5. ASSUME NEW p \in Dispatchers, DP!FetchChecksum(p) PROVE Target'
  BY <1>5 DEF DP!FetchChecksum, DP!Goto, DP!files, DP!release
<1>6. ASSUME NEW p \in Dispatchers, DP!Look(p) PROVE Target'
  BY <1>6 DEF DP!Look, DP!Goto, DP!files, DP!release
<1>7. ASSUME NEW p \in Dispatchers, DP!Hash(p) PROVE Target'
  BY <1>7 DEF DP!Hash, DP!Goto, DP!files, DP!release
<1>8. ASSUME NEW p \in Dispatchers, DP!Download(p) PROVE Target'
  BY <1>8 DEF DP!Download, DP!Goto, DP!release, DP!TempOf
<1>9. ASSUME NEW p \in Dispatchers, DP!Receive(p) PROVE Target'
  BY <1>9 DEF DP!Receive, DP!Goto, DP!release, DP!TempOf
<1>10. ASSUME NEW p \in Dispatchers, DP!Verify(p) PROVE Target'
  BY <1>10 DEF DP!Verify, DP!Goto, DP!release, DP!TempOf
<1>11. ASSUME NEW p \in Dispatchers, DP!Rename(p) PROVE Target'
  BY <1>11 DEF DP!Rename, DP!Goto, DP!release, DP!TempOf
<1>12. ASSUME NEW p \in Dispatchers, DP!Mark(p) PROVE Target'
  BY <1>12 DEF DP!Mark, DP!Goto, DP!release
<1>13. ASSUME NEW p \in Dispatchers, DP!Marked(p) PROVE Target'
  BY <1>13 DEF DP!Marked, DP!Goto, DP!release
<1>14. ASSUME NEW p \in Dispatchers, DP!Spawn(p) PROVE Target'
  BY <1>14 DEF DP!Spawn, DP!Goto, DP!files, DP!release
<1>15. ASSUME NEW p \in Dispatchers, DP!Kill(p) PROVE Target'
  BY <1>15 DEF DP!Kill, DP!Goto, DP!files, DP!release
<1>16. ASSUME DP!Upload PROVE Target'
  BY <1>16 DEF DP!Upload, DP!files
<1>17. ASSUME DP!EditConfig PROVE Target'
  BY <1>17 DEF DP!EditConfig, DP!release
<1>18. CASE UNCHANGED dpVars
  BY <1>18 DEF dpVars
<1> QED
  BY <1>1, <1>2, <1>3, <1>4, <1>5, <1>6, <1>7, <1>8, <1>9, <1>10, <1>11, <1>12, <1>13, <1>14, <1>15,
     <1>16, <1>17, <1>18
  DEF DP!Next, DP!Step, DP!Ensure

\* Without overlap, the steps of a process find the files as its last one left
\* them; a process that starts finds the binary no newer than the checksum that
\* it will fetch, and the marker no newer than the binary.
LEMMA OneByOneStep ==
    ASSUME DispatchTypes, Fetched, Target, OneByOne, [DP!Next]_dpVars
    PROVE  OneByOne'
<1> USE DEF DispatchTypes, DP!TypeOK, DP!Uploads, DP!None, DP!Torn, DispatchSteps, Verifying, Good, Fetched, Target, OneByOne
<1>1. ASSUME NEW p \in Dispatchers, DP!Start(p) PROVE OneByOne'
  BY <1>1 DEF DP!Start, DP!Goto, DP!files, DP!release
<1>2. ASSUME NEW p \in Dispatchers, DP!LookForConfig(p) PROVE OneByOne'
  BY <1>2 DEF DP!LookForConfig, DP!Goto, DP!files, DP!release, DP!Prepared
<1>3. ASSUME NEW p \in Dispatchers, DP!CreateConfig(p) PROVE OneByOne'
  BY <1>3 DEF DP!CreateConfig, DP!Goto, DP!release, DP!Prepared
<1>4. ASSUME NEW p \in Dispatchers, DP!FillConfig(p) PROVE OneByOne'
  BY <1>4 DEF DP!FillConfig, DP!Goto, DP!release, DP!Prepared
<1>5. ASSUME NEW p \in Dispatchers, DP!FetchChecksum(p) PROVE OneByOne'
  BY <1>5 DEF DP!FetchChecksum, DP!Goto, DP!files, DP!release
<1>6. ASSUME NEW p \in Dispatchers, DP!Look(p) PROVE OneByOne'
  BY <1>6 DEF DP!Look, DP!Goto, DP!files, DP!release
<1>7. ASSUME NEW p \in Dispatchers, DP!Hash(p) PROVE OneByOne'
  BY <1>7 DEF DP!Hash, DP!Goto, DP!files, DP!release
<1>8. ASSUME NEW p \in Dispatchers, DP!Download(p) PROVE OneByOne'
  BY <1>8 DEF DP!Download, DP!Goto, DP!release, DP!TempOf
<1>9. ASSUME NEW p \in Dispatchers, DP!Receive(p) PROVE OneByOne'
  BY <1>9 DEF DP!Receive, DP!Goto, DP!release, DP!TempOf
<1>10. ASSUME NEW p \in Dispatchers, DP!Verify(p) PROVE OneByOne'
  BY <1>10 DEF DP!Verify, DP!Goto, DP!release, DP!TempOf
<1>11. ASSUME NEW p \in Dispatchers, DP!Rename(p) PROVE OneByOne'
  BY <1>11 DEF DP!Rename, DP!Goto, DP!release, DP!TempOf
<1>12. ASSUME NEW p \in Dispatchers, DP!Mark(p) PROVE OneByOne'
  BY <1>12 DEF DP!Mark, DP!Goto, DP!release
<1>13. ASSUME NEW p \in Dispatchers, DP!Marked(p) PROVE OneByOne'
  BY <1>13 DEF DP!Marked, DP!Goto, DP!release
<1>14. ASSUME NEW p \in Dispatchers, DP!Spawn(p) PROVE OneByOne'
  BY <1>14 DEF DP!Spawn, DP!Goto, DP!files, DP!release
<1>15. ASSUME NEW p \in Dispatchers, DP!Kill(p) PROVE OneByOne'
  BY <1>15 DEF DP!Kill, DP!Goto, DP!files, DP!release
<1>16. ASSUME DP!Upload PROVE OneByOne'
  BY <1>16 DEF DP!Upload, DP!files
<1>17. ASSUME DP!EditConfig PROVE OneByOne'
  BY <1>17 DEF DP!EditConfig, DP!release
<1>18. CASE UNCHANGED dpVars
  BY <1>18 DEF dpVars
<1> QED
  BY <1>1, <1>2, <1>3, <1>4, <1>5, <1>6, <1>7, <1>8, <1>9, <1>10, <1>11, <1>12, <1>13, <1>14, <1>15,
     <1>16, <1>17, <1>18
  DEF DP!Next, DP!Step, DP!Ensure

\* Only the process that created the configuration fills it.
LEMMA ConfigStep ==
    ASSUME DispatchTypes, Config, [DP!Next]_dpVars
    PROVE  Config'
<1> USE DEF DispatchTypes, DP!TypeOK, DP!Uploads, DP!None, DP!Torn, DispatchSteps, Verifying, Good, Config
<1>1. ASSUME NEW p \in Dispatchers, DP!Start(p) PROVE Config'
  BY <1>1 DEF DP!Start, DP!Goto, DP!files, DP!release
<1>2. ASSUME NEW p \in Dispatchers, DP!LookForConfig(p) PROVE Config'
  BY <1>2 DEF DP!LookForConfig, DP!Goto, DP!files, DP!release, DP!Prepared
<1>3. ASSUME NEW p \in Dispatchers, DP!CreateConfig(p) PROVE Config'
  BY <1>3 DEF DP!CreateConfig, DP!Goto, DP!release, DP!Prepared
<1>4. ASSUME NEW p \in Dispatchers, DP!FillConfig(p) PROVE Config'
  BY <1>4 DEF DP!FillConfig, DP!Goto, DP!release, DP!Prepared
<1>5. ASSUME NEW p \in Dispatchers, DP!FetchChecksum(p) PROVE Config'
  BY <1>5 DEF DP!FetchChecksum, DP!Goto, DP!files, DP!release
<1>6. ASSUME NEW p \in Dispatchers, DP!Look(p) PROVE Config'
  BY <1>6 DEF DP!Look, DP!Goto, DP!files, DP!release
<1>7. ASSUME NEW p \in Dispatchers, DP!Hash(p) PROVE Config'
  BY <1>7 DEF DP!Hash, DP!Goto, DP!files, DP!release
<1>8. ASSUME NEW p \in Dispatchers, DP!Download(p) PROVE Config'
  BY <1>8 DEF DP!Download, DP!Goto, DP!release, DP!TempOf
<1>9. ASSUME NEW p \in Dispatchers, DP!Receive(p) PROVE Config'
  BY <1>9 DEF DP!Receive, DP!Goto, DP!release, DP!TempOf
<1>10. ASSUME NEW p \in Dispatchers, DP!Verify(p) PROVE Config'
  BY <1>10 DEF DP!Verify, DP!Goto, DP!release, DP!TempOf
<1>11. ASSUME NEW p \in Dispatchers, DP!Rename(p) PROVE Config'
  BY <1>11 DEF DP!Rename, DP!Goto, DP!release, DP!TempOf
<1>12. ASSUME NEW p \in Dispatchers, DP!Mark(p) PROVE Config'
  BY <1>12 DEF DP!Mark, DP!Goto, DP!release
<1>13. ASSUME NEW p \in Dispatchers, DP!Marked(p) PROVE Config'
  BY <1>13 DEF DP!Marked, DP!Goto, DP!release
<1>14. ASSUME NEW p \in Dispatchers, DP!Spawn(p) PROVE Config'
  BY <1>14 DEF DP!Spawn, DP!Goto, DP!files, DP!release
<1>15. ASSUME NEW p \in Dispatchers, DP!Kill(p) PROVE Config'
  BY <1>15 DEF DP!Kill, DP!Goto, DP!files, DP!release
<1>16. ASSUME DP!Upload PROVE Config'
  BY <1>16 DEF DP!Upload, DP!files
<1>17. ASSUME DP!EditConfig PROVE Config'
  BY <1>17 DEF DP!EditConfig, DP!release
<1>18. CASE UNCHANGED dpVars
  BY <1>18 DEF dpVars
<1> QED
  BY <1>1, <1>2, <1>3, <1>4, <1>5, <1>6, <1>7, <1>8, <1>9, <1>10, <1>11, <1>12, <1>13, <1>14, <1>15,
     <1>16, <1>17, <1>18
  DEF DP!Next, DP!Step, DP!Ensure

LEMMA DispatchInit == DP!Init => DispatchInv
<1> SUFFICES ASSUME DP!Init PROVE DispatchInv
  OBVIOUS
<1>1. 1 \in DP!Uploads
  BY MachinesAssumption DEF DP!Uploads
<1>2. DP!TypeOK
  BY <1>1 DEF DP!Init, DP!TypeOK
<1>3. DispatchTypes /\ Fetched
  BY <1>2 DEF DP!Init, DispatchTypes, Fetched, DispatchSteps, Verifying, Good
<1>4. Target /\ OneByOne /\ Config
  BY DEF DP!Init, Target, OneByOne, Config, DP!None, Verifying, Good
<1> QED
  BY <1>3, <1>4 DEF DispatchInv

LEMMA DispatchIsKept == DP!Spec => []DispatchInv
<1>1. DispatchInv /\ [DP!Next]_dpVars => DispatchInv'
  BY DispatchTypesStep, FetchedStep, TargetStep, OneByOneStep, ConfigStep DEF DispatchInv
<1> QED
  BY <1>1, DispatchInit, PTL DEF DP!Spec, dpVars, DP!dpVars

\* archi-dispatcher.js: what runBinary starts is a whole binary, whatever other
\* processes do and wherever they are killed; and it has the checksum that its
\* own dispatcher fetched, as long as no two processes were under way at once.
THEOREM BinaryIsVerified == DP!Spec => []VerifiedBinaryRuns
<1>1. DispatchInv => DP!TypeOK
  BY DEF DispatchInv, DispatchTypes
<1>2. DispatchInv => DP!VerifiedBinaryRuns
  BY DEF DispatchInv, Target, OneByOne, DP!VerifiedBinaryRuns, Good
<1> QED
  BY <1>1, <1>2, DispatchIsKept, PTL DEF VerifiedBinaryRuns

\* archi-dispatcher.js: a configuration that the user wrote stays, whichever
\* steps of ensureLlmGatewayConfig it came between.
THEOREM UserConfigIsKept == DP!Spec => []CredentialsKept
<1>1. DispatchInv => DP!CredentialsKept
  BY DEF DispatchInv, Config, DP!CredentialsKept
<1> QED
  BY <1>1, DispatchIsKept, PTL DEF CredentialsKept

-----------------------------------------------------------------------------
(* The ledger and the registry. *)

ReviewFields == {"step", "diff", "alone", "before", "found", "issues", "delta", "trend", "scores"}
HistorySteps == {"idle", "history", "ledger", "scoring", "components", "registry", "told"}

Shape ==
    /\ project \in [Components -> Findings]
    /\ DOMAIN registry \subseteq Components
    /\ begun \in 0..MaxReviews
    /\ DOMAIN known = {"issues", "scores"}
    /\ DOMAIN review = Reviewers
    /\ \A p \in Reviewers :
          /\ DOMAIN review[p] = ReviewFields
          /\ review[p].step \in HistorySteps
          /\ SH!Active(p) => DOMAIN review[p].found = Components
          /\ review[p].step = "registry" => DOMAIN review[p].scores \subseteq Components

\* One file has the scores of the other, and maybe more.
Agrees(scores, all) == \A n \in DOMAIN scores : n \in DOMAIN all /\ all[n] = scores[n]

\* What is known is in the files.
KnownInv == (\A issues \in known.issues : ledger = issues) /\ Agrees(known.scores, registry)

\* A review that is not alone is told of nothing.
AloneInv ==
    \A p \in Reviewers :
       /\ SH!Active(p) /\ review[p].alone => \A q \in Reviewers \ {p} : ~SH!Active(q)
       /\ ~review[p].alone => review[p].before = SH!Nothing

\* A review that is alone finds the files as the last ones left them, until it
\* opens them, and empty until it writes.
FilesInv ==
    \A p \in Reviewers : SH!Active(p) /\ review[p].alone =>
       /\ review[p].step = "history" => \A issues \in review[p].before.issues : ledger = issues
       /\ review[p].step = "ledger" => ledger = {}
       /\ review[p].step \in {"history", "ledger", "scoring", "components"} =>
             Agrees(review[p].before.scores, registry)
       /\ review[p].step = "registry" =>
             /\ registry = SH!NoScores
             /\ Agrees(SH!LastScores(review[p].before.scores, review[p].found), review[p].scores)

\* What a review is going to tell.
ToldInv ==
    \A p \in Reviewers :
       /\ review[p].step \notin {"idle", "history"} =>
             \A issues \in review[p].before.issues : review[p].delta = SH!Delta(review[p].issues, issues)
       /\ review[p].step = "registry" \/ (review[p].step = "told" /\ review[p].diff) =>
             \A n \in DOMAIN review[p].trend \cap DOMAIN review[p].before.scores :
                review[p].trend[n] = SH!Trend(review[p].before.scores, review[p].found)[n]

HistoryInv == Shape /\ KnownInv /\ AloneInv /\ FilesInv /\ ToldInv

-----------------------------------------------------------------------------
(* Scores and trends. *)

LEMMA TrendOfAgreeing ==
    ASSUME NEW s, NEW r, NEW found, Agrees(s, r), NEW n \in SH!Changed(found), n \in DOMAIN s
    PROVE  SH!Trend(r, found)[n] = SH!Trend(s, found)[n]
BY DEF Agrees, SH!Trend

LEMMA UpdatesAgree ==
    ASSUME NEW s, NEW r, NEW found, Agrees(s, r)
    PROVE  Agrees(SH!LastScores(s, found), SH!Updated(r, found))
BY DEF Agrees, SH!Updated, SH!LastScores, SH!Scores

LEMMA ChangedOfFound ==
    /\ \A found : SH!Changed(found) \subseteq DOMAIN found
    /\ \A r, found : DOMAIN SH!Trend(r, found) = SH!Changed(found)
    /\ \A r, found : DOMAIN SH!Updated(r, found) = SH!Changed(found) \cup DOMAIN r
    /\ \A r : Agrees(SH!NoScores, r)
    /\ DOMAIN SH!NoScores = {} /\ SH!Nothing.issues = {} /\ SH!Nothing.scores = SH!NoScores
BY DEF SH!Changed, SH!Trend, SH!Updated, Agrees, SH!NoScores, SH!Nothing, SH!Unknown

-----------------------------------------------------------------------------
(* Every action keeps the invariant. *)

LEMMA CompareIssuesKeeps ==
    ASSUME HistoryInv, NEW p \in Reviewers, SH!CompareIssues(p)
    PROVE  HistoryInv'
<1> USE DEF HistoryInv, SH!CompareIssues
<1>1. /\ DOMAIN review' = Reviewers /\ DOMAIN review'[p] = ReviewFields /\ review[p].step = "history"
      /\ \A q \in Reviewers \ {p} : review'[q] = review[q]
      /\ review'[p].step = "ledger"
      /\ review'[p].issues = SH!Issues(review[p].found)
      /\ review'[p].delta = SH!Delta(SH!Issues(review[p].found), ledger)
      /\ review'[p].diff = review[p].diff /\ review'[p].alone = review[p].alone
      /\ review'[p].before = review[p].before /\ review'[p].found = review[p].found
      /\ review'[p].trend = review[p].trend /\ review'[p].scores = review[p].scores
  BY DEF Shape, ReviewFields
<1>2. SH!Active(p)
  BY <1>1 DEF SH!Active
<1>3. known' = [known EXCEPT !.issues = known'.issues] /\ DOMAIN known = {"issues", "scores"}
  BY DEF Shape
<1>4. known'.issues = {} /\ known'.scores = known.scores /\ ledger' = {} /\ registry' = registry
  BY <1>1, <1>2, <1>3 DEF SH!Written, SH!LedgerIssues, SH!Unknown, FilesInv
<1>5. \A q \in Reviewers : SH!Active(q)' = SH!Active(q)
  BY <1>1, <1>2 DEF SH!Active
<1>6. review[p].alone => \A q \in Reviewers \ {p} : ~SH!Active(q)
  BY <1>2 DEF AloneInv
<1>7. \A q \in Reviewers \ {p} : SH!Active(q) => ~review[q].alone
  BY <1>2 DEF AloneInv
<1>8. Shape'
  BY <1>1, <1>3, <1>4, <1>5 DEF Shape, HistorySteps, SH!Active
<1>9. KnownInv'
  BY <1>1, <1>2, <1>4, ChangedOfFound DEF KnownInv, FilesInv, Agrees
<1>10. AloneInv'
  BY <1>1, <1>5 DEF AloneInv
<1>11. FilesInv'
  BY <1>1, <1>2, <1>4, <1>5, <1>6, <1>7 DEF FilesInv
<1>12. ToldInv'
  BY <1>1, <1>2, <1>4, ChangedOfFound DEF ToldInv, FilesInv, AloneInv
<1>13. QED
  BY <1>8, <1>9, <1>10, <1>11, <1>12

LEMMA WriteLedgerKeeps ==
    ASSUME HistoryInv, NEW p \in Reviewers, SH!WriteLedger(p)
    PROVE  HistoryInv'
<1> USE DEF HistoryInv, SH!WriteLedger, SH!Goto
<1>1. /\ DOMAIN review' = Reviewers /\ DOMAIN review'[p] = ReviewFields /\ review[p].step = "ledger"
      /\ \A q \in Reviewers \ {p} : review'[q] = review[q]
      /\ review'[p].step = IF review[p].diff THEN "scoring" ELSE "told"
      /\ review'[p].diff = review[p].diff /\ review'[p].alone = review[p].alone
      /\ review'[p].before = review[p].before /\ review'[p].found = review[p].found
      /\ review'[p].issues = review[p].issues /\ review'[p].delta = review[p].delta
      /\ review'[p].trend = review[p].trend /\ review'[p].scores = review[p].scores
  BY DEF Shape, ReviewFields
<1>2. SH!Active(p)
  BY <1>1 DEF SH!Active
<1>3. known' = [known EXCEPT !.issues = known'.issues] /\ DOMAIN known = {"issues", "scores"}
  BY DEF Shape
<1>4. /\ known'.issues = (IF review[p].alone THEN {review[p].issues} ELSE {})
      /\ known'.scores = known.scores /\ registry' = registry
      /\ review[p].alone => ledger' = review[p].issues
  BY <1>1, <1>2, <1>3 DEF SH!Written, SH!LedgerIssues, SH!Unknown, FilesInv
<1>5. \A q \in Reviewers : SH!Active(q)' = SH!Active(q)
  BY <1>1, <1>2 DEF SH!Active
<1>6. review[p].alone => \A q \in Reviewers \ {p} : ~SH!Active(q)
  BY <1>2 DEF AloneInv
<1>7. \A q \in Reviewers \ {p} : SH!Active(q) => ~review[q].alone
  BY <1>2 DEF AloneInv
<1>8. Shape'
  BY <1>1, <1>3, <1>4, <1>5 DEF Shape, HistorySteps, SH!Active
<1>9. KnownInv'
  BY <1>1, <1>2, <1>4, ChangedOfFound DEF KnownInv, FilesInv, Agrees
<1>10. AloneInv'
  BY <1>1, <1>5 DEF AloneInv
<1>11. FilesInv'
  BY <1>1, <1>2, <1>4, <1>5, <1>6, <1>7 DEF FilesInv
<1>12. ToldInv'
  BY <1>1, <1>2, <1>4, <1>6 DEF ToldInv, FilesInv
<1>13. QED
  BY <1>8, <1>9, <1>10, <1>11, <1>12

LEMMA LoadComponentsKeeps ==
    ASSUME HistoryInv, NEW p \in Reviewers, SH!LoadComponents(p)
    PROVE  HistoryInv'
<1> USE DEF HistoryInv, SH!LoadComponents
<1>1. /\ DOMAIN review' = Reviewers /\ DOMAIN review'[p] = ReviewFields /\ review[p].step = "scoring"
      /\ \A q \in Reviewers \ {p} : review'[q] = review[q]
      /\ review'[p].step = "components"
      /\ review'[p].found = project
      /\ review'[p].diff = review[p].diff /\ review'[p].alone = review[p].alone
      /\ review'[p].before = review[p].before /\ review'[p].issues = review[p].issues
      /\ review'[p].delta = review[p].delta /\ review'[p].trend = review[p].trend
      /\ review'[p].scores = review[p].scores
  BY DEF Shape, ReviewFields
<1>2. SH!Active(p)
  BY <1>1 DEF SH!Active
<1>3. known' = known /\ ledger' = ledger /\ registry' = registry
  OBVIOUS
<1>4. known'.issues = known.issues /\ known'.scores = known.scores
  BY <1>3
<1>5. \A q \in Reviewers : SH!Active(q)' = SH!Active(q)
  BY <1>1, <1>2 DEF SH!Active
<1>6. review[p].alone => \A q \in Reviewers \ {p} : ~SH!Active(q)
  BY <1>2 DEF AloneInv
<1>7. \A q \in Reviewers \ {p} : SH!Active(q) => ~review[q].alone
  BY <1>2 DEF AloneInv
<1>8. Shape'
  BY <1>1, <1>3, <1>4, <1>5 DEF Shape, HistorySteps, SH!Active
<1>9. KnownInv'
  BY <1>1, <1>2, <1>4 DEF KnownInv, FilesInv, Agrees
<1>10. AloneInv'
  BY <1>1, <1>5 DEF AloneInv
<1>11. FilesInv'
  BY <1>1, <1>2, <1>4, <1>5, <1>6, <1>7 DEF FilesInv
<1>12. ToldInv'
  BY <1>1, <1>2, <1>4, <1>6 DEF ToldInv, FilesInv
<1>13. QED
  BY <1>8, <1>9, <1>10, <1>11, <1>12

LEMMA CompareScoresKeeps ==
    ASSUME HistoryInv, NEW p \in Reviewers, SH!CompareScores(p)
    PROVE  HistoryInv'
<1> USE DEF HistoryInv, SH!CompareScores
<1>1. /\ DOMAIN review' = Reviewers /\ DOMAIN review'[p] = ReviewFields /\ review[p].step = "components"
      /\ \A q \in Reviewers \ {p} : review'[q] = review[q]
      /\ review'[p].step = "registry"
      /\ review'[p].trend = SH!Trend(registry, review[p].found)
      /\ review'[p].scores = SH!Updated(registry, review[p].found)
      /\ review'[p].diff = review[p].diff /\ review'[p].alone = review[p].alone
      /\ review'[p].before = review[p].before /\ review'[p].found = review[p].found
      /\ review'[p].issues = review[p].issues /\ review'[p].delta = review[p].delta
  BY DEF Shape, ReviewFields
<1>2. SH!Active(p)
  BY <1>1 DEF SH!Active
<1>3. known' = [known EXCEPT !.scores = known'.scores] /\ DOMAIN known = {"issues", "scores"}
  BY DEF Shape
<1>4. known'.issues = known.issues /\ known'.scores = SH!NoScores /\ ledger' = ledger /\ registry' = SH!NoScores
  BY <1>1, <1>2, <1>3 DEF SH!Written, SH!LedgerIssues, SH!Unknown, FilesInv
<1>5. \A q \in Reviewers : SH!Active(q)' = SH!Active(q)
  BY <1>1, <1>2 DEF SH!Active
<1>6. review[p].alone => \A q \in Reviewers \ {p} : ~SH!Active(q)
  BY <1>2 DEF AloneInv
<1>7. \A q \in Reviewers \ {p} : SH!Active(q) => ~review[q].alone
  BY <1>2 DEF AloneInv
<1>8. Shape'
  <2>1. DOMAIN review'[p].scores \subseteq Components
    <3>1. DOMAIN review[p].found = Components /\ DOMAIN registry \subseteq Components
      BY <1>2 DEF Shape
    <3>2. DOMAIN SH!Updated(registry, review[p].found) = SH!Changed(review[p].found) \cup DOMAIN registry
      BY DEF SH!Updated
    <3>3. SH!Changed(review[p].found) \subseteq DOMAIN review[p].found
      BY DEF SH!Changed
    <3>4. DOMAIN review'[p].scores = SH!Changed(review[p].found) \cup DOMAIN registry
      BY <1>1, <3>2
    <3>5. QED
      BY <3>1, <3>3, <3>4
  <2>2. DOMAIN registry' \subseteq Components
    BY <1>4, ChangedOfFound
  <2>3. QED
    BY <1>1, <1>3, <1>5, <2>1, <2>2 DEF Shape, HistorySteps, SH!Active
<1>9. KnownInv'
  BY <1>1, <1>2, <1>4, ChangedOfFound DEF KnownInv, FilesInv, Agrees
<1>10. AloneInv'
  BY <1>1, <1>5 DEF AloneInv
<1>11. FilesInv'
  <2>1. review[p].alone => Agrees(SH!LastScores(review[p].before.scores, review[p].found), review'[p].scores)
    BY <1>1, <1>2, UpdatesAgree DEF FilesInv
  <2>2. QED
    BY <1>1, <1>2, <1>4, <1>5, <1>6, <1>7, <2>1 DEF FilesInv
<1>12. ToldInv'
  BY <1>1, <1>2, <1>4, <1>6, TrendOfAgreeing, ChangedOfFound DEF ToldInv, FilesInv, AloneInv
<1>13. QED
  BY <1>8, <1>9, <1>10, <1>11, <1>12

LEMMA WriteRegistryKeeps ==
    ASSUME HistoryInv, NEW p \in Reviewers, SH!WriteRegistry(p)
    PROVE  HistoryInv'
<1> USE DEF HistoryInv, SH!WriteRegistry, SH!Goto
<1>1. /\ DOMAIN review' = Reviewers /\ DOMAIN review'[p] = ReviewFields /\ review[p].step = "registry"
      /\ \A q \in Reviewers \ {p} : review'[q] = review[q]
      /\ review'[p].step = "told"
      /\ review'[p].diff = review[p].diff /\ review'[p].alone = review[p].alone
      /\ review'[p].before = review[p].before /\ review'[p].found = review[p].found
      /\ review'[p].issues = review[p].issues /\ review'[p].delta = review[p].delta
      /\ review'[p].trend = review[p].trend /\ review'[p].scores = review[p].scores
  BY DEF Shape, ReviewFields
<1>2. SH!Active(p)
  BY <1>1 DEF SH!Active
<1>3. known' = [known EXCEPT !.scores = known'.scores] /\ DOMAIN known = {"issues", "scores"}
  BY DEF Shape
<1>4. /\ known'.issues = known.issues /\ ledger' = ledger
      /\ known'.scores =
            (IF review[p].alone THEN SH!LastScores(review[p].before.scores, review[p].found) ELSE SH!NoScores)
      /\ registry' \in {review[p].scores, SH!NoScores} /\ (review[p].alone => registry' = review[p].scores)
  BY <1>1, <1>2, <1>3 DEF SH!Written, SH!LedgerIssues, SH!Unknown, FilesInv
<1>5. \A q \in Reviewers : SH!Active(q)' = SH!Active(q)
  BY <1>1, <1>2 DEF SH!Active
<1>6. review[p].alone => \A q \in Reviewers \ {p} : ~SH!Active(q)
  BY <1>2 DEF AloneInv
<1>7. \A q \in Reviewers \ {p} : SH!Active(q) => ~review[q].alone
  BY <1>2 DEF AloneInv
<1>8. Shape'
  BY <1>1, <1>3, <1>4, <1>5, ChangedOfFound DEF Shape, HistorySteps, SH!Active
<1>9. KnownInv'
  BY <1>1, <1>2, <1>4, ChangedOfFound DEF KnownInv, FilesInv, Agrees
<1>10. AloneInv'
  BY <1>1, <1>5 DEF AloneInv
<1>11. FilesInv'
  BY <1>1, <1>2, <1>4, <1>5, <1>6, <1>7 DEF FilesInv
<1>12. ToldInv'
  BY <1>1, <1>2, <1>4, <1>6 DEF ToldInv, FilesInv
<1>13. QED
  BY <1>8, <1>9, <1>10, <1>11, <1>12

LEMMA BeginKeeps ==
    ASSUME HistoryInv, NEW p \in Reviewers, SH!Begin(p)
    PROVE  HistoryInv'
<1> USE DEF HistoryInv
<1>1. PICK diff \in BOOLEAN, alone \in BOOLEAN :
         /\ alone <=> \A q \in Reviewers \ {p} : ~SH!Active(q)
         /\ review' = [q \in Reviewers |->
               IF q = p THEN [SH!Idle EXCEPT !.step = "history", !.diff = diff, !.found = project,
                                          !.alone = alone, !.before = IF alone THEN known ELSE SH!Nothing]
               ELSE IF SH!Active(q) THEN [review[q] EXCEPT !.alone = FALSE, !.before = SH!Nothing]
               ELSE SH!Idle]
  BY DEF SH!Begin
<1>2. /\ DOMAIN review' = Reviewers /\ DOMAIN review'[p] = ReviewFields /\ review'[p].step = "history"
      /\ review'[p].alone = alone /\ review'[p].found = project
      /\ review'[p].before = IF alone THEN known ELSE SH!Nothing
  BY <1>1 DEF SH!Idle, ReviewFields
<1>3. /\ review[p].step = "idle" /\ begun \in 0..MaxReviews /\ begun' = begun + 1 /\ begun < MaxReviews
      /\ UNCHANGED <<project, ledger, registry, known>>
  BY DEF SH!Begin, Shape
<1>4. ASSUME NEW q \in Reviewers \ {p}, SH!Active(q)
      PROVE  /\ DOMAIN review'[q] = ReviewFields /\ review'[q].step = review[q].step
             /\ review'[q].alone = FALSE /\ review'[q].before = SH!Nothing
             /\ review'[q].found = review[q].found /\ review'[q].scores = review[q].scores
  BY <1>1, <1>4 DEF Shape, ReviewFields
<1>5. ASSUME NEW q \in Reviewers \ {p}, ~SH!Active(q)
      PROVE  review'[q] = SH!Idle
  BY <1>1, <1>5
<1>6. /\ DOMAIN SH!Idle = ReviewFields /\ SH!Idle.step = "idle" /\ SH!Idle.alone = FALSE /\ SH!Idle.before = SH!Nothing
  BY DEF SH!Idle, ReviewFields
<1>7. Shape'
  <2>1. /\ project' \in [Components -> Findings] /\ DOMAIN registry' \subseteq Components
        /\ DOMAIN known' = {"issues", "scores"}
    BY <1>3 DEF Shape
  <2>2. begun' \in 0..MaxReviews
    BY <1>3, MachinesAssumption
  <2>3. ASSUME NEW q \in Reviewers
        PROVE  /\ DOMAIN review'[q] = ReviewFields /\ review'[q].step \in HistorySteps
               /\ review'[q].step # "idle" => DOMAIN review'[q].found = Components
               /\ review'[q].step = "registry" => DOMAIN review'[q].scores \subseteq Components
    BY <1>2, <1>4, <1>5, <1>6 DEF Shape, HistorySteps, SH!Active
  <2>4. QED
    BY <1>2, <2>1, <2>2, <2>3 DEF Shape, SH!Active
<1>8. KnownInv'
  BY <1>3 DEF KnownInv, Agrees
<1>9. \A q \in Reviewers \ {p} : review'[q].alone = FALSE /\ review'[q].before = SH!Nothing
  BY <1>4, <1>5, <1>6
<1>10. alone => \A q \in Reviewers \ {p} : review'[q].step = "idle"
  BY <1>1, <1>5, <1>6
<1>11. AloneInv'
  BY <1>2, <1>9, <1>10 DEF AloneInv, SH!Active
<1>12. FilesInv'
  BY <1>2, <1>3, <1>9, ChangedOfFound DEF FilesInv, KnownInv
<1>13. ToldInv'
  BY <1>2, <1>9, ChangedOfFound DEF ToldInv
<1>14. QED
  BY <1>7, <1>8, <1>11, <1>12, <1>13

LEMMA StopKeeps ==
    ASSUME HistoryInv, NEW p \in Reviewers, SH!Stop(p)
    PROVE  HistoryInv'
<1> USE DEF HistoryInv, SH!Stop
<1>1. /\ DOMAIN review' = Reviewers /\ review'[p] = SH!Idle
      /\ \A q \in Reviewers \ {p} : review'[q] = review[q]
  BY DEF Shape
<1>2. /\ DOMAIN SH!Idle = ReviewFields /\ SH!Idle.step = "idle" /\ SH!Idle.alone = FALSE /\ SH!Idle.before = SH!Nothing
  BY DEF SH!Idle, ReviewFields
<1>3. Shape'
  BY <1>1, <1>2 DEF Shape, HistorySteps, SH!Active
<1>4. KnownInv' /\ AloneInv'
  BY <1>1, <1>2 DEF KnownInv, AloneInv, Agrees, SH!Active
<1>5. FilesInv'
  BY <1>1, <1>2 DEF FilesInv, SH!Active
<1>6. ToldInv'
  BY <1>1, <1>2 DEF ToldInv
<1>7. QED
  BY <1>3, <1>4, <1>5, <1>6

LEMMA HistoryInit == SH!Init => HistoryInv
<1> SUFFICES ASSUME SH!Init PROVE HistoryInv
  OBVIOUS
<1>1. /\ DOMAIN SH!Idle = ReviewFields
      /\ SH!Idle.step = "idle" /\ SH!Idle.alone = FALSE /\ SH!Idle.before = SH!Nothing
  BY DEF SH!Idle, ReviewFields
<1>2. DOMAIN SH!Nothing = {"issues", "scores"}
  BY DEF SH!Nothing
<1>3. Shape
  BY <1>1, <1>2, ChangedOfFound, MachinesAssumption DEF SH!Init, Shape, HistorySteps, SH!Active
<1>4. KnownInv /\ AloneInv /\ FilesInv /\ ToldInv
  BY <1>1, ChangedOfFound DEF SH!Init, KnownInv, AloneInv, FilesInv, ToldInv, SH!Active
<1>5. QED
  BY <1>3, <1>4 DEF HistoryInv

LEMMA HistoryStep == HistoryInv /\ [SH!Next]_shVars => HistoryInv'
<1> SUFFICES ASSUME HistoryInv, [SH!Next]_shVars PROVE HistoryInv'
  OBVIOUS
<1>1. ASSUME NEW p \in Reviewers, SH!Begin(p) \/ SH!CompareIssues(p) \/ SH!WriteLedger(p)
      PROVE  HistoryInv'
  BY <1>1, BeginKeeps, CompareIssuesKeeps, WriteLedgerKeeps
<1>2. ASSUME NEW p \in Reviewers,
             SH!LoadComponents(p) \/ SH!CompareScores(p) \/ SH!WriteRegistry(p) \/ SH!Stop(p)
      PROVE  HistoryInv'
  BY <1>2, LoadComponentsKeeps, CompareScoresKeeps, WriteRegistryKeeps, StopKeeps
<1>3. ASSUME NEW n \in Components, SH!Edit(n) PROVE HistoryInv'
  BY <1>3 DEF SH!Edit, HistoryInv, Shape, KnownInv, AloneInv, FilesInv, ToldInv, SH!Active, Agrees
<1>4. CASE UNCHANGED shVars
  BY <1>4 DEF shVars, HistoryInv, Shape, KnownInv, AloneInv, FilesInv, ToldInv, SH!Active, Agrees
<1>5. QED
  BY <1>1, <1>2, <1>3, <1>4 DEF SH!Next

LEMMA HistoryIsKept == SH!Spec => []HistoryInv
<1> QED
  BY HistoryInit, HistoryStep, PTL DEF SH!Spec, shVars, SH!historyVars

\* history_analyzer.py and component_scoring.py: a review that no other overlapped
\* tells what changed since the last such reviews, of any number of reviews,
\* components and findings, whatever ended early or was spoilt in between.
THEOREM ToldIsSinceLastReview == SH!Spec => []ToldSinceLastReview
<1>1. HistoryInv => SH!TypeOK
  BY DEF HistoryInv, Shape, HistorySteps, SH!TypeOK
<1>2. HistoryInv => SH!ToldSinceLastReview
  BY DEF HistoryInv, ToldInv, SH!ToldSinceLastReview
<1>3. QED
  BY <1>1, <1>2, HistoryIsKept, PTL DEF ToldSinceLastReview

-----------------------------------------------------------------------------
(* The review command: the lists of steps that can be left, each named for what comes next. *)

Starting == <<"validate", "feedback", "bundle", "preflight">>
Reading == <<"feedback", "bundle", "preflight">>
Bundling == <<"bundle", "preflight">>
Trying == <<"preflight">>
Opening == {Starting, Reading, Bundling, Trying}

\* Only the review that asks the LLM has these left.
Diffing == <<"collect", "contexts", "artifacts", "summary", "event", "emit">>
Framing == <<"contexts", "artifacts", "summary", "event", "emit">>
Noting == <<"artifacts", "summary", "event", "emit">>
Analyzing == <<"analysis", "contexts", "artifacts", "event", "emit">>
Summarizing == <<"summary", "event", "emit">>
Judging == {Diffing, Framing, Noting, Analyzing, Summarizing}

\* These the static one has left, too.
Collecting == <<"collect", "contexts", "artifacts", "event", "emit">>
Loading == <<"contexts", "artifacts", "event", "emit">>
Saving == <<"artifacts", "event", "emit">>
Logging == <<"event", "emit">>
Sharing == {Loading, Saving, Logging}

Checking == <<"checked", "emit">>
Emitting == <<"emit">>

Full == {"review", "static"}

\* The kind of the review is settled by the steps that are left.
Route ==
    \/ todo \in Opening /\ kind = "none"
    \/ todo = Checking /\ kind = "check"
    \/ todo \in Judging /\ kind = "review"
    \/ todo = Collecting /\ kind = "static"
    \/ todo \in Sharing /\ kind \in Full
    \/ todo = Emitting /\ kind \in Full \union {"check", "empty"}
    \/ todo = <<>>

\* The reasons for which a run goes over to the static review.
Leave ==
    kind = "static" =>
        \/ FullReview /\ "bundle" \in failed
        \/ Has("allow") /\ "llm" \in failed

\* The errors that end a run.
Unspoilt ==
    exit \in {Running, 0} => failed \intersect {"arguments", "input", "preflight", "out", "crash"} = {}

\* The review has all its steps behind it.
Complete == todo = Emitting \/ exit = 0

Written ==
    todo \in {Summarizing, Logging} \/ (Complete /\ kind \in Full) =>
        artifact = kind \/ "artifact" \in failed

Logged ==
    /\ todo # <<>> /\ todo # Emitting => event = "none"
    /\ Complete => event \in {kind, "none"}
    /\ Complete /\ kind \in Full => event = kind \/ "event" \in failed
    /\ exit = 2 /\ event # "none" => "out" \in failed

Printed == output = IF exit = 0 THEN kind ELSE "none"

IInv == TypeOK /\ Route /\ Leave /\ Unspoilt /\ Written /\ Logged /\ Printed

-----------------------------------------------------------------------------
(* What the lists are.  The steps of the proof use these facts alone. *)

LEMMA NextSteps ==
    /\ Head(Starting) = "validate" /\ Head(Reading) = "feedback" /\ Head(Bundling) = "bundle"
    /\ Head(Trying) = "preflight" /\ Head(Diffing) = "collect" /\ Head(Framing) = "contexts"
    /\ Head(Noting) = "artifacts" /\ Head(Analyzing) = "analysis" /\ Head(Summarizing) = "summary"
    /\ Head(Collecting) = "collect" /\ Head(Loading) = "contexts" /\ Head(Saving) = "artifacts"
    /\ Head(Logging) = "event" /\ Head(Checking) = "checked" /\ Head(Emitting) = "emit"
  BY DEF Starting, Reading, Bundling, Trying, Diffing, Framing, Noting, Analyzing, Summarizing,
         Collecting, Loading, Saving, Logging, Checking, Emitting

LEMMA LaterSteps ==
    /\ Tail(Starting) = Reading /\ Tail(Reading) = Bundling /\ Tail(Bundling) = Trying
    /\ Tail(Diffing) = Framing /\ Tail(Framing) = Noting /\ Tail(Noting) = Summarizing
    /\ Tail(Analyzing) = Loading /\ Tail(Summarizing) = Logging /\ Tail(Collecting) = Loading
    /\ Tail(Loading) = Saving /\ Tail(Saving) = Logging /\ Tail(Logging) = Emitting
    /\ Tail(Checking) = Emitting
  BY DEF Starting, Reading, Bundling, Trying, Diffing, Framing, Noting, Analyzing, Summarizing,
         Collecting, Loading, Saving, Logging, Checking, Emitting

LEMMA StepsLeft ==
    /\ Starting # <<>> /\ Reading # <<>> /\ Bundling # <<>> /\ Trying # <<>> /\ Diffing # <<>>
    /\ Framing # <<>> /\ Noting # <<>> /\ Analyzing # <<>> /\ Summarizing # <<>>
    /\ Collecting # <<>> /\ Loading # <<>> /\ Saving # <<>> /\ Logging # <<>> /\ Checking # <<>>
    /\ Emitting # <<>>
  BY DEF Starting, Reading, Bundling, Trying, Diffing, Framing, Noting, Analyzing, Summarizing,
         Collecting, Loading, Saving, Logging, Checking, Emitting

\* Where the choice of the review, and the static review, begin.
LEMMA FirstSteps ==
    /\ ReviewSteps = IF Has("check") THEN Checking
                     ELSE IF opts.name = "archi" /\ ~Has("full") THEN Diffing ELSE Analyzing
    /\ StaticSteps = IF FullReview THEN Loading ELSE Collecting
    /\ <<"emit">> = Emitting
  BY DEF ReviewSteps, StaticSteps, Checking, Diffing, Analyzing, Loading, Collecting, Emitting

-----------------------------------------------------------------------------
(* Ends and detours, which several actions have in common. *)

LEMMA FailsKeeps ==
    ASSUME IInv, todo # <<>>, event = "none",
           NEW what, Fails(what)
    PROVE  IInv'
  <1> USE DEF IInv, Fails, Exit, left, Running
  <1>1. TypeOK'
    BY DEF TypeOK, Kinds
  <1>2. Route'
    BY DEF Route
  <1>3. Leave'
    BY DEF Leave, Has, FullReview
  <1>4. Unspoilt'
    BY DEF Unspoilt, TypeOK
  <1>5. Written'
    BY StepsLeft DEF Written, Complete, TypeOK
  <1>6. Logged'
    BY StepsLeft DEF Logged, Complete
  <1>7. Printed'
    BY DEF Printed, TypeOK
  <1>8. QED
    BY <1>1, <1>2, <1>3, <1>4, <1>5, <1>6, <1>7

LEMMA GoStaticKeeps ==
    ASSUME IInv, todo # <<>>, event = "none",
           NEW what \in {"bundle", "llm"}, GoStatic(what),
           what = "bundle" => FullReview, what = "llm" => Has("allow")
    PROVE  IInv'
  BY FirstSteps, NextSteps, StepsLeft
     DEF IInv, TypeOK, Route, Sharing, Leave, Unspoilt, Complete, Written, Logged, Printed, Full, Kinds,
         GoStatic, Goto, left, Running, Has, FullReview

LEMMA EmptyRangeKeeps ==
    ASSUME IInv, todo # <<>>, event = "none",
           NEW what \in {"git", "analysis", "llm"}, EmptyRange(what)
    PROVE  IInv'
  BY FirstSteps, NextSteps, StepsLeft
     DEF IInv, TypeOK, Route, Leave, Unspoilt, Complete, Written, Logged, Printed, Full, Kinds,
         EmptyRange, Goto, left, Running, Has, FullReview

\* A step that only lets the run go on, unless the next step is to log or emit.
LEMMA PassesKeeps ==
    ASSUME IInv, Passes,
           todo \in {Starting, Reading, Bundling, Diffing, Framing, Analyzing, Collecting, Loading, Summarizing, Checking}
    PROVE  IInv'
  <1> USE DEF IInv, Passes, Advance, Goto, left, Running, Opening
  <1>1. /\ todo # <<>> /\ kind' = kind
        /\ \/ todo' \in {Reading, Bundling, Trying} /\ kind = "none"
           \/ todo' \in {Framing, Noting} /\ kind = "review"
           \/ todo' \in {Loading, Saving} /\ kind \in Full
           \/ todo' = Logging /\ kind = "review" /\ todo = Summarizing
           \/ todo' = Emitting /\ kind = "check" /\ todo = Checking
    <2>1. CASE todo = Starting
      BY <2>1, NextSteps, LaterSteps, StepsLeft DEF Route, Judging, Sharing, Full
    <2>2. CASE todo = Reading
      BY <2>2, NextSteps, LaterSteps, StepsLeft DEF Route, Judging, Sharing, Full
    <2>3. CASE todo = Bundling
      BY <2>3, NextSteps, LaterSteps, StepsLeft DEF Route, Judging, Sharing, Full
    <2>4. CASE todo = Diffing
      BY <2>4, NextSteps, LaterSteps, StepsLeft DEF Route, Judging, Sharing, Full
    <2>5. CASE todo = Framing
      BY <2>5, NextSteps, LaterSteps, StepsLeft DEF Route, Judging, Sharing, Full
    <2>6. CASE todo = Analyzing
      BY <2>6, NextSteps, LaterSteps, StepsLeft DEF Route, Judging, Sharing, Full
    <2>7. CASE todo = Collecting
      BY <2>7, NextSteps, LaterSteps, StepsLeft DEF Route, Judging, Sharing, Full
    <2>8. CASE todo = Loading
      BY <2>8, NextSteps, LaterSteps, StepsLeft DEF Route, Judging, Sharing, Full
    <2>9. CASE todo = Summarizing
      BY <2>9, NextSteps, LaterSteps, StepsLeft DEF Route, Judging, Sharing, Full
    <2>10. CASE todo = Checking
      BY <2>10, NextSteps, LaterSteps, StepsLeft DEF Route, Judging, Sharing, Full
    <2>11. QED
      BY <2>1, <2>2, <2>3, <2>4, <2>5, <2>6, <2>7, <2>8, <2>9, <2>10
  <1>2. TypeOK'
    BY <1>1, NextSteps, LaterSteps, StepsLeft DEF TypeOK, Kinds
  <1>3. Route'
    BY <1>1 DEF Route, Judging, Sharing, Full
  <1>4. Leave'
    BY DEF Leave, Has, FullReview
  <1>5. Unspoilt'
    BY DEF Unspoilt
  <1>6. Written'
    <2>1. todo' \in {Summarizing, Logging, Emitting} /\ kind' \in Full => todo = Summarizing
      BY <1>1, NextSteps DEF Full
    <2>2. todo' = Summarizing => FALSE
      BY <1>1, NextSteps
    <2>3. exit # 0 /\ exit' = exit
      BY <1>1 DEF TypeOK
    <2>4. todo = Summarizing => kind' \in Full
      BY <1>1, NextSteps DEF Route, Judging, Sharing, Full
    <2>5. QED
      BY <2>1, <2>2, <2>3, <2>4, <1>1, NextSteps DEF Written, Complete
  <1>7. Logged'
    BY <1>1, NextSteps, LaterSteps, StepsLeft DEF Logged, Complete, TypeOK, Full
  <1>8. Printed'
    BY <1>1 DEF Printed
  <1>9. QED
    BY <1>2, <1>3, <1>4, <1>5, <1>6, <1>7, <1>8

-----------------------------------------------------------------------------
(* Where a step of the code stands on the route. *)

LEMMA WhereAt ==
    ASSUME IInv
    PROVE  /\ At("validate") => todo = Starting /\ kind = "none"
           /\ At("feedback") => todo = Reading /\ kind = "none"
           /\ At("bundle") => todo = Bundling /\ kind = "none"
           /\ At("preflight") => todo = Trying /\ kind = "none"
           /\ At("checked") => todo = Checking /\ kind = "check"
           /\ At("collect") => (todo = Diffing /\ kind = "review") \/ (todo = Collecting /\ kind = "static")
           /\ At("analysis") => todo = Analyzing /\ kind = "review"
           /\ At("contexts") => todo \in {Framing, Loading} /\ kind \in Full
           /\ At("artifacts") => (todo = Noting /\ kind = "review") \/ (todo = Saving /\ kind \in Full)
           /\ At("summary") => todo = Summarizing /\ kind = "review"
           /\ At("event") => todo = Logging /\ kind \in Full
           /\ At("emit") => todo = Emitting /\ kind \in Full \union {"check", "empty"}
  <1>1. At("validate") => todo = Starting /\ kind = "none"
    BY NextSteps DEF IInv, Route, Opening, Judging, Sharing, At, Full
  <1>2. At("feedback") => todo = Reading /\ kind = "none"
    BY NextSteps DEF IInv, Route, Opening, Judging, Sharing, At, Full
  <1>3. At("bundle") => todo = Bundling /\ kind = "none"
    BY NextSteps DEF IInv, Route, Opening, Judging, Sharing, At, Full
  <1>4. At("preflight") => todo = Trying /\ kind = "none"
    BY NextSteps DEF IInv, Route, Opening, Judging, Sharing, At, Full
  <1>5. At("checked") => todo = Checking /\ kind = "check"
    BY NextSteps DEF IInv, Route, Opening, Judging, Sharing, At, Full
  <1>6. At("collect") => (todo = Diffing /\ kind = "review") \/ (todo = Collecting /\ kind = "static")
    BY NextSteps DEF IInv, Route, Opening, Judging, Sharing, At, Full
  <1>7. At("analysis") => todo = Analyzing /\ kind = "review"
    BY NextSteps DEF IInv, Route, Opening, Judging, Sharing, At, Full
  <1>8. At("contexts") => todo \in {Framing, Loading} /\ kind \in Full
    BY NextSteps DEF IInv, Route, Opening, Judging, Sharing, At, Full
  <1>9. At("artifacts") => (todo = Noting /\ kind = "review") \/ (todo = Saving /\ kind \in Full)
    BY NextSteps DEF IInv, Route, Opening, Judging, Sharing, At, Full
  <1>10. At("summary") => todo = Summarizing /\ kind = "review"
    BY NextSteps DEF IInv, Route, Opening, Judging, Sharing, At, Full
  <1>11. At("event") => todo = Logging /\ kind \in Full
    BY NextSteps DEF IInv, Route, Opening, Judging, Sharing, At, Full
  <1>12. At("emit") => todo = Emitting /\ kind \in Full \union {"check", "empty"}
    BY NextSteps DEF IInv, Route, Opening, Judging, Sharing, At, Full
  <1>13. QED
    BY <1>1, <1>2, <1>3, <1>4, <1>5, <1>6, <1>7, <1>8, <1>9, <1>10, <1>11, <1>12

\* Before the event is appended there is none.
LEMMA NoEventYet ==
    ASSUME IInv, todo # <<>>, todo # Emitting
    PROVE  event = "none"
  BY DEF IInv, Logged

-----------------------------------------------------------------------------
(* The three properties follow from the invariant, which every step keeps. *)

LEMMA InitKeeps == Init => IInv
  <1> USE DEF Init, Running
  <1>1. Init => TypeOK /\ todo = Starting
    BY DEF TypeOK, Kinds, Starting
  <1>2. Init => Route /\ Leave /\ Unspoilt /\ Printed
    BY <1>1 DEF Route, Opening, Leave, Unspoilt, Printed
  <1>3. Init => Written /\ Logged
    BY <1>1, NextSteps DEF Written, Logged, Complete
  <1>4. QED
    BY <1>1, <1>2, <1>3 DEF IInv

\* The preflight chooses the steps of a check or of a review.
LEMMA ChosenKeeps ==
    ASSUME IInv, At("preflight"), Chosen
    PROVE  IInv'
  <1> USE DEF IInv, Chosen, Goto, left, Running
  <1>1. todo = Trying /\ kind = "none" /\ todo # <<>> /\ event = "none"
    BY WhereAt, StepsLeft, NextSteps, NoEventYet
  <1>2. \/ todo' = Checking /\ kind' = "check"
        \/ todo' \in {Diffing, Analyzing} /\ kind' = "review"
    BY FirstSteps
  <1>3. todo' # <<>> /\ todo' \notin {Summarizing, Logging, Emitting}
    BY <1>2, NextSteps, StepsLeft
  <1>4. TypeOK'
    BY <1>1, <1>2, <1>3 DEF TypeOK, Kinds
  <1>5. Route' /\ Leave' /\ Unspoilt' /\ Printed'
    BY <1>1, <1>2 DEF Route, Judging, Leave, Unspoilt, Printed, TypeOK
  <1>6. Written' /\ Logged'
    BY <1>1, <1>3 DEF Written, Logged, Complete, TypeOK
  <1>7. QED
    BY <1>4, <1>5, <1>6

LEMMA WriteArtifactsKeeps ==
    ASSUME IInv, WriteArtifacts
    PROVE  IInv'
  <1> USE DEF IInv, WriteArtifacts, Advance, Goto, Running
  <1>1. /\ todo # <<>> /\ event = "none" /\ kind \in Full
        /\ (todo' = Summarizing /\ kind = "review") \/ todo' = Logging
    BY WhereAt, StepsLeft, NextSteps, LaterSteps, NoEventYet DEF Full
  <1>2. todo' # <<>> /\ todo' # Emitting
    BY <1>1, NextSteps, StepsLeft
  <1>3. TypeOK'
    BY <1>1, <1>2 DEF TypeOK, Kinds
  <1>4. Route' /\ Leave' /\ Unspoilt' /\ Printed'
    BY <1>1 DEF Route, Judging, Sharing, Leave, Unspoilt, Printed, Has, FullReview
  <1>5. Written' /\ Logged'
    BY <1>1, <1>2 DEF Written, Logged, Complete, TypeOK
  <1>6. QED
    BY <1>3, <1>4, <1>5

LEMMA AppendEventKeeps ==
    ASSUME IInv, AppendEvent
    PROVE  IInv'
  <1> USE DEF IInv, AppendEvent, Advance, Goto, Running
  <1>1. /\ todo = Logging /\ todo # <<>> /\ event = "none" /\ kind \in Full
        /\ todo' = Emitting /\ todo' # <<>> /\ exit = -1
    BY WhereAt, StepsLeft, NextSteps, LaterSteps, NoEventYet DEF TypeOK
  <1>2. TypeOK'
    BY <1>1 DEF TypeOK, Kinds, Full
  <1>3. Route' /\ Leave' /\ Unspoilt' /\ Printed'
    BY <1>1 DEF Route, Leave, Unspoilt, Printed, Has, FullReview
  <1>4. Written' /\ Logged'
    BY <1>1 DEF Written, Logged, Complete
  <1>5. QED
    BY <1>2, <1>3, <1>4

LEMMA EmitKeeps ==
    ASSUME IInv, Emit
    PROVE  IInv'
  <1> USE DEF IInv, Emit, Exit, Running
  <1>1. /\ todo = Emitting /\ todo # <<>> /\ kind \in Full \union {"check", "empty"} /\ todo' = <<>>
        /\ exit = -1 /\ Complete /\ exit' \in {0, 2} /\ todo' \notin {Summarizing, Logging, Emitting}
    BY WhereAt, StepsLeft DEF TypeOK, Fails, Complete
  <1>2. TypeOK' /\ Route'
    BY <1>1 DEF TypeOK, Route, Kinds, Full, Fails, left
  <1>3. Leave' /\ Unspoilt' /\ Printed'
    BY <1>1 DEF Leave, Unspoilt, Printed, Has, FullReview, Fails, left
  <1>4. Written' /\ Logged'
    <2>1. CASE exit' = 0
      BY <1>1, <2>1 DEF Written, Logged, Complete, Fails
    <2>2. CASE exit' = 2
      BY <1>1, <2>2 DEF Written, Logged, Complete, Fails, left
    <2>3. QED
      BY <1>1, <2>1, <2>2
  <1>5. QED
    BY <1>2, <1>3, <1>4

LEMMA CrashKeeps ==
    ASSUME IInv, Crash
    PROVE  IInv'
  <1> USE DEF IInv, Crash, Exit, left, Running
  <1>1. todo' = <<>> /\ exit' = 1 /\ todo' \notin {Summarizing, Logging, Emitting} /\ output = "none"
    BY StepsLeft DEF Printed, TypeOK
  <1>2. TypeOK' /\ Route'
    BY <1>1 DEF TypeOK, Route, Kinds
  <1>3. Leave' /\ Unspoilt' /\ Printed'
    BY <1>1 DEF Leave, Unspoilt, Printed, Has, FullReview
  <1>4. Written' /\ Logged'
    BY <1>1 DEF Written, Logged, Complete
  <1>5. QED
    BY <1>2, <1>3, <1>4

LEMMA NextKeeps ==
    ASSUME IInv, [Next]_vars
    PROVE  IInv'
  <1>1. \A what : (todo # <<>> /\ todo # Emitting /\ Fails(what)) => IInv'
    BY FailsKeeps, NoEventYet
  <1>2. CASE Validate
    BY <1>1, <1>2, PassesKeeps, WhereAt, NextSteps, StepsLeft DEF Validate
  <1>3. CASE ReadFeedback
    BY <1>1, <1>3, PassesKeeps, WhereAt, NextSteps, StepsLeft DEF ReadFeedback
  <1>4. CASE EnsureBundle
    BY <1>1, <1>4, PassesKeeps, GoStaticKeeps, NoEventYet, WhereAt, NextSteps, StepsLeft
       DEF EnsureBundle
  <1>5. CASE Preflight
    BY <1>1, <1>5, ChosenKeeps, WhereAt, NextSteps, StepsLeft DEF Preflight
  <1>6. CASE Checked
    BY <1>6, PassesKeeps, WhereAt DEF Checked
  <1>7. CASE Collect
    BY <1>1, <1>7, PassesKeeps, EmptyRangeKeeps, NoEventYet, WhereAt, NextSteps, StepsLeft DEF Collect
  <1>8. CASE Analysis
    BY <1>1, <1>8, PassesKeeps, EmptyRangeKeeps, GoStaticKeeps, NoEventYet, WhereAt, NextSteps,
       StepsLeft
       DEF Analysis, Fallback
  <1>9. CASE LoadContexts
    BY <1>1, <1>9, PassesKeeps, WhereAt, NextSteps, StepsLeft DEF LoadContexts
  <1>10. CASE WriteArtifacts
    BY <1>10, WriteArtifactsKeeps
  <1>11. CASE Summary
    BY <1>1, <1>11, PassesKeeps, GoStaticKeeps, NoEventYet, WhereAt, NextSteps, StepsLeft
       DEF Summary, Fallback
  <1>12. CASE AppendEvent
    BY <1>12, AppendEventKeeps
  <1>13. CASE Emit
    BY <1>13, EmitKeeps
  <1>14. CASE Crash
    BY <1>14, CrashKeeps
  <1>15. CASE UNCHANGED vars
    BY <1>15 DEF vars, IInv, TypeOK, Route, Leave, Unspoilt, Complete, Written, Logged, Printed, Has,
       FullReview
  <1>16. QED
    BY <1>2, <1>3, <1>4, <1>5, <1>6, <1>7, <1>8, <1>9, <1>10, <1>11, <1>12, <1>13, <1>14, <1>15 DEF Next

LEMMA IInvHolds == Spec => []IInv
  <1>1. Init => IInv
    BY InitKeeps
  <1>2. IInv /\ [Next]_vars => IInv'
    BY NextKeeps
  <1>3. QED
    BY <1>1, <1>2, PTL DEF Spec

\* cli.py main: a static review is printed only when the user allowed it and the
\* LLM failed at run time, or for a full review without a bundle; and no command
\* ends with 0 after an error that ends a command.
THEOREM DegradedByLeave == Spec => []DegradedOnlyAsAllowed
  <1>1. IInv => DegradedOnlyAsAllowed
    BY DEF IInv, TypeOK, Leave, Unspoilt, Printed, DegradedOnlyAsAllowed
  <1>2. QED
    BY <1>1, IInvHolds, PTL

\* code_review/public.py _with_review_event: the log never has an event of a
\* review that was given up.
THEOREM EventMatchesOutput == Spec => []EventIsOfTheOutput
  <1>1. IInv => EventIsOfTheOutput
    BY DEF IInv, Logged, Printed, Complete, Full, EventIsOfTheOutput
  <1>2. QED
    BY <1>1, IInvHolds, PTL

\* code_review/public.py _result_from_report: the concerns on disk are those of
\* the review that was printed, though an earlier attempt wrote its own.
THEOREM ArtifactMatchesOutput == Spec => []ArtifactIsOfTheOutput
  <1>1. IInv => ArtifactIsOfTheOutput
    BY DEF IInv, Written, Printed, Complete, Full, ArtifactIsOfTheOutput
  <1>2. QED
    BY <1>1, IInvHolds, PTL
=============================================================================

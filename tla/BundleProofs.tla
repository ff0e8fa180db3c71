---------------------------- MODULE BundleProofs ----------------------------
(***************************************************************************)
(* Proofs about Bundle: a refresh that is left alone is never refused and  *)
(* leaves nothing stale, for any number of processes, files and refreshes. *)
(***************************************************************************)
EXTENDS Bundle, TLAPS

\* A refresh that nobody disturbs is the only one running.
Alone ==
    \A p, q \in Procs : clean[p] /\ pc[p] # "idle" /\ q # p => pc[q] = "idle"

\* What such a refresh has achieved once it has passed a step.
SigDone(p) == pc[p] \in {"tree", "index", "prompt", "scan", "metrics", "require"}
IndexDone(p) == pc[p] \in {"prompt", "scan", "metrics", "require"}
PromptDone(p) == pc[p] \in {"scan", "metrics", "require"}
ScanDone(p) == pc[p] \in {"metrics", "require"}

NewerThanSources(at) == \A f \in Files : mtime[f] <= at

Achieved(p) ==
    /\ SigDone(p) => sig = src
    /\ IndexDone(p) =>
          /\ index = src /\ manifest = src
          /\ state # Missing => state.fp = <<src, src, src>> /\ NewerThanSources(state.at)
    /\ PromptDone(p) => prompt = src
    /\ ScanDone(p) => seen[p] = src
    /\ pc[p] = "require" =>
          /\ metrics = [seen |-> src, fp |-> <<src, src, src>>, at |-> metrics.at]
          /\ metrics.at \in Nat
          /\ NewerThanSources(metrics.at)

CleanInv == \A p \in Procs : clean[p] => Achieved(p) /\ ~refused[p]

IInv == TypeOK /\ Alone /\ CleanInv
-----------------------------------------------------------------------------
\* The types of the model's state, with the bundle state only where this hippos
\* writes one, and no time later than the clock.
LEMMA TypeInit == Init => TypeOK
<1> SUFFICES ASSUME Init PROVE TypeOK
  OBVIOUS
<1>1. src \in Snapshots /\ writes \in BOOLEAN
  BY BundleAssumption DEF Init, Snapshots
<1>2. clock = 0 /\ 0 \in 0..0 /\ 0 \in Nat
  BY DEF Init
<1> QED
  BY <1>1, <1>2 DEF Init, TypeOK, Steps

LEMMA TypeStep == TypeOK /\ [Next]_vars => TypeOK'
<1> SUFFICES ASSUME TypeOK, [Next]_vars PROVE TypeOK'
  OBVIOUS
<1> USE DEF TypeOK
<1>1. ASSUME NEW f \in Files, NEW text \in Texts \union {Absent}, Edit(f, text)
      PROVE  TypeOK'
  <2>1. src' \in Snapshots
    BY <1>1 DEF Edit, Snapshots
  <2>2. clock' \in Nat /\ mtime' \in [Files -> 0..clock'] /\ 0..clock \subseteq 0..clock'
    BY <1>1 DEF Edit
  <2>3. disturbed' \in BOOLEAN /\ clean' \in [Procs -> BOOLEAN]
    BY <1>1 DEF Edit, Running
  <2>4. UNCHANGED <<sig, index, manifest, prompt, state, metrics, writes, pc, seen, refused>>
    BY <1>1 DEF Edit, parts
  <2> QED
    BY <2>1, <2>2, <2>3, <2>4
<1>2. ASSUME NEW p \in Procs, Start(p) PROVE TypeOK'
  BY <1>2 DEF Start, sources, parts, Steps
<1>3. ASSUME NEW p \in Procs, InitStep(p) PROVE TypeOK'
  BY <1>3 DEF InitStep, Succeed, After, sources, parts, ghosts, Steps
<1>4. ASSUME NEW p \in Procs, SigExtract(p) PROVE TypeOK'
  BY <1>4 DEF SigExtract, Succeed, After, sources, ghosts, Steps
<1>5. ASSUME NEW p \in Procs, Index(p) PROVE TypeOK'
  <2>1. clock' \in Nat /\ clock' \in 0..clock' /\ 0..clock \subseteq 0..clock'
    BY <1>5 DEF Index
  <2>2. mtime' \in [Files -> 0..clock']
    BY <1>5, <2>1 DEF Index, Succeed, sources
  <2>3. state' # Missing => writes' /\ state' \in [fp : Fingerprints, at : 0..clock']
    <3>1. <<src, sig, src>> \in Fingerprints
      BY DEF Fingerprints
    <3>2. writes' = writes
      BY <1>5 DEF Index, Succeed
    <3> QED
      BY <1>5, <2>1, <3>1, <3>2 DEF Index
  <2>4. metrics' # Missing =>
            metrics' \in [seen : Snapshots, fp : Fingerprints, at : 0..clock']
    BY <1>5, <2>1 DEF Index
  <2>5. pc' \in [Procs -> Steps]
    BY <1>5 DEF Index, Succeed, After, Steps
  <2> QED
    BY <1>5, <2>1, <2>2, <2>3, <2>4, <2>5 DEF Index, Succeed, sources, ghosts
<1>6. ASSUME NEW p \in Procs, StructurePrompt(p) PROVE TypeOK'
  BY <1>6 DEF StructurePrompt, Succeed, After, sources, ghosts, Steps
<1>7. ASSUME NEW p \in Procs, Scan(p) PROVE TypeOK'
  BY <1>7 DEF Scan, Succeed, After, sources, parts, ghosts, Steps
<1>8. ASSUME NEW p \in Procs, WriteMetrics(p) PROVE TypeOK'
  <2>1. clock' \in Nat /\ clock' \in 0..clock' /\ 0..clock \subseteq 0..clock'
    BY <1>8 DEF WriteMetrics
  <2>2. mtime' \in [Files -> 0..clock']
    BY <1>8, <2>1 DEF WriteMetrics, Succeed, sources
  <2>3. metrics' \in [seen : Snapshots, fp : Fingerprints, at : 0..clock']
    <3>1. Fingerprint \in Fingerprints
      BY DEF Fingerprints, Fingerprint
    <3> QED
      BY <1>8, <2>1, <3>1 DEF WriteMetrics
  <2>4. state' # Missing => writes' /\ state' \in [fp : Fingerprints, at : 0..clock']
    BY <1>8, <2>1 DEF WriteMetrics, Succeed
  <2>5. pc' \in [Procs -> Steps]
    BY <1>8 DEF WriteMetrics, Succeed, After, Steps
  <2> QED
    BY <1>8, <2>1, <2>2, <2>3, <2>4, <2>5 DEF WriteMetrics, Succeed, sources, ghosts
<1>9. ASSUME NEW p \in Procs, Require(p) PROVE TypeOK'
  <2>1. refused' \in [Procs -> BOOLEAN]
    BY <1>9 DEF Require, Accepted
  <2>2. disturbed' \in BOOLEAN
    BY <1>9 DEF Require
  <2> QED
    BY <1>9, <2>1, <2>2 DEF Require, sources, parts, Steps
<1>10. ASSUME NEW p \in Procs, Fail(p) PROVE TypeOK'
  BY <1>10 DEF Fail, sources, parts, ghosts, Steps
<1>11. CASE UNCHANGED vars
  BY <1>11 DEF vars, sources, parts, ghosts
<1> QED
  BY <1>1, <1>2, <1>3, <1>4, <1>5, <1>6, <1>7, <1>8, <1>9, <1>10, <1>11 DEF Next

\* The types of the bundle's state, of the sources and of the refreshes.
THEOREM TypeCorrect == Spec => []TypeOK
BY TypeInit, TypeStep, PTL DEF Spec
-----------------------------------------------------------------------------
\* What a clean refresh achieves is what inspect_bundle asks for.
LEMMA AcceptedWhenAchieved ==
    ASSUME TypeOK, NEW p \in Procs, Achieved(p), pc[p] = "require"
    PROVE  Accepted /\ Current
<1>1. sig = src /\ index = src /\ manifest = src /\ prompt = src
  BY DEF Achieved, SigDone, IndexDone, PromptDone
<1>2. /\ metrics = [seen |-> src, fp |-> <<src, src, src>>, at |-> metrics.at]
      /\ metrics.at \in Nat
      /\ NewerThanSources(metrics.at)
  BY DEF Achieved
<1>3. state # Missing => state.fp = <<src, src, src>> /\ NewerThanSources(state.at)
  BY DEF Achieved, IndexDone
<1>4. src \in Snapshots
  BY DEF TypeOK
<1>5. metrics.seen = src /\ metrics.fp = <<src, src, src>>
  BY <1>2
<1>6. metrics # Missing /\ src # Missing
  <2>1. metrics \in [seen : Snapshots, fp : Snapshots \X Snapshots \X Snapshots, at : Nat]
    BY <1>2, <1>4
  <2> QED
    BY <1>4, <2>1, BundleAssumption
<1>7. Missing \notin {metrics, index, sig, prompt}
  BY <1>1, <1>6
<1>8. Fingerprint = <<src, src, src>>
  BY <1>1 DEF Fingerprint
<1>9. \A f \in Files : mtime[f] <= Reference
  BY <1>2, <1>3 DEF Reference, NewerThanSources
<1>10. Accepted
  BY <1>1, <1>3, <1>5, <1>7, <1>8, <1>9 DEF Accepted, Paths
<1> QED
  BY <1>1, <1>5, <1>10 DEF Current
-----------------------------------------------------------------------------
\* A refresh stays alone or stops being clean, whoever takes the step.
LEMMA AloneStep == TypeOK /\ Alone /\ [Next]_vars => Alone'
<1> SUFFICES ASSUME TypeOK, Alone, [Next]_vars,
                    NEW p \in Procs, NEW q \in Procs, q # p, clean'[p], pc'[p] # "idle"
             PROVE  pc'[q] = "idle"
  BY DEF Alone
<1> USE DEF TypeOK, Alone
<1>1. ASSUME NEW f \in Files, NEW text \in Texts \union {Absent}, Edit(f, text)
      PROVE  pc'[q] = "idle"
  BY <1>1 DEF Edit
<1>2. ASSUME NEW r \in Procs, Start(r) PROVE pc'[q] = "idle"
  BY <1>2 DEF Start, Running
<1>3. ASSUME NEW r \in Procs, NEW step, Succeed(r, step), step # "idle"
      PROVE  pc'[q] = "idle"
  BY <1>3 DEF Succeed, ghosts
<1>4. ASSUME NEW r \in Procs,
             InitStep(r) \/ SigExtract(r) \/ Index(r) \/ StructurePrompt(r)
                \/ Scan(r) \/ WriteMetrics(r)
      PROVE  pc'[q] = "idle"
  BY <1>3, <1>4 DEF InitStep, SigExtract, Index, StructurePrompt, Scan, WriteMetrics
<1>5. ASSUME NEW r \in Procs, Require(r) \/ Fail(r) PROVE pc'[q] = "idle"
  BY <1>5 DEF Require, Fail, ghosts
<1>6. CASE UNCHANGED vars
  BY <1>6 DEF vars, ghosts
<1> QED
  BY <1>1, <1>2, <1>4, <1>5, <1>6 DEF Next

\* What a clean refresh achieved stays, and each of its steps adds to it.
LEMMA CleanStep == IInv /\ [Next]_vars => CleanInv'
<1> SUFFICES ASSUME IInv, [Next]_vars, NEW p \in Procs, clean'[p]
             PROVE  Achieved(p)' /\ ~refused'[p]
  BY DEF CleanInv
<1> USE DEF IInv
<1>1. ASSUME NEW f \in Files, NEW text \in Texts \union {Absent}, Edit(f, text)
      PROVE  Achieved(p)' /\ ~refused'[p]
  BY <1>1 DEF Edit
<1>2. ASSUME NEW r \in Procs, Start(r) PROVE Achieved(p)' /\ ~refused'[p]
  <2>1. r = p /\ pc'[p] = "init" /\ ~refused'[p]
    BY <1>2 DEF Start, TypeOK
  <2> QED
    BY <2>1 DEF Achieved, SigDone, IndexDone, PromptDone, ScanDone
<1>a. ASSUME NEW r \in Procs, NEW step, Succeed(r, step), step # "idle"
      PROVE  /\ clean[p] /\ ~refused'[p]
             /\ r # p => pc'[p] = "idle"
             /\ UNCHANGED <<src, mtime, writes>>
  BY <1>a DEF Succeed, ghosts, sources, Alone, TypeOK, CleanInv
<1>b. pc'[p] = "idle" => Achieved(p)'
  BY DEF Achieved, SigDone, IndexDone, PromptDone, ScanDone
<1>3. ASSUME InitStep(p) PROVE Achieved(p)' /\ ~refused'[p]
  <2>1. clean[p] /\ ~refused'[p] /\ UNCHANGED <<src, mtime, writes>>
    BY <1>a, <1>3 DEF InitStep
  <2>2. pc'[p] \in {"sig", "index"} /\ (pc'[p] = "index" => pc[p] = "tree")
    BY <1>3 DEF InitStep, Succeed, After, TypeOK
  <2>3. pc[p] = "tree" => sig' = src'
    BY <1>3, <2>1 DEF CleanInv, Achieved, SigDone, InitStep, parts
  <2> QED
    BY <2>1, <2>2, <2>3 DEF Achieved, SigDone, IndexDone, PromptDone, ScanDone
<1>4. ASSUME SigExtract(p) PROVE Achieved(p)' /\ ~refused'[p]
  <2>1. ~refused'[p] /\ UNCHANGED <<src, mtime, writes>>
    BY <1>a, <1>4 DEF SigExtract
  <2>2. pc'[p] = "tree" /\ sig' = src
    BY <1>4 DEF SigExtract, Succeed, After, TypeOK
  <2> QED
    BY <2>1, <2>2 DEF Achieved, SigDone, IndexDone, PromptDone, ScanDone
<1>5. ASSUME Index(p) PROVE Achieved(p)' /\ ~refused'[p]
  <2>1. clean[p] /\ ~refused'[p] /\ UNCHANGED <<src, mtime, writes>>
    BY <1>a, <1>5 DEF Index
  <2>2. pc[p] = "index" /\ pc'[p] = "prompt"
    BY <1>5 DEF Index, Succeed, After, TypeOK
  <2>3. sig = src /\ sig' = sig /\ index' = src /\ manifest' = src
    BY <1>5, <2>1, <2>2 DEF CleanInv, Achieved, SigDone, Index
  <2>4. state' # Missing => state' = [fp |-> <<src, src, src>>, at |-> clock + 1]
    BY <1>5, <2>3 DEF Index, TypeOK
  <2>5. \A f \in Files : mtime[f] <= clock + 1
    BY DEF TypeOK
  <2>6. state' # Missing => state'.fp = <<src, src, src>> /\ NewerThanSources(state.at)'
    BY <2>1, <2>4, <2>5 DEF NewerThanSources
  <2> QED
    BY <2>1, <2>2, <2>3, <2>6 DEF Achieved, SigDone, IndexDone, PromptDone, ScanDone
<1>6. ASSUME StructurePrompt(p) PROVE Achieved(p)' /\ ~refused'[p]
  <2>1. clean[p] /\ ~refused'[p] /\ UNCHANGED <<src, mtime, writes>>
    BY <1>a, <1>6 DEF StructurePrompt
  <2>2. pc[p] = "prompt" /\ pc'[p] = "scan"
    BY <1>6 DEF StructurePrompt, Succeed, After, TypeOK
  <2>3. UNCHANGED <<sig, index, manifest, state>> /\ prompt' = index
    BY <1>6 DEF StructurePrompt
  <2> QED
    BY <2>1, <2>2, <2>3
    DEF CleanInv, Achieved, NewerThanSources, SigDone, IndexDone, PromptDone, ScanDone
<1>7. ASSUME Scan(p) PROVE Achieved(p)' /\ ~refused'[p]
  <2>1. clean[p] /\ ~refused'[p] /\ UNCHANGED <<src, mtime, writes>>
    BY <1>a, <1>7 DEF Scan
  <2>2. pc[p] = "scan" /\ pc'[p] = "metrics"
    BY <1>7 DEF Scan, Succeed, After, TypeOK
  <2>3. UNCHANGED parts /\ seen'[p] = src
    BY <1>7 DEF Scan, TypeOK
  <2> QED
    BY <2>1, <2>2, <2>3
    DEF CleanInv, Achieved, NewerThanSources, SigDone, IndexDone, PromptDone, ScanDone, parts
<1>8. ASSUME WriteMetrics(p) PROVE Achieved(p)' /\ ~refused'[p]
  <2>1. clean[p] /\ ~refused'[p] /\ UNCHANGED <<src, mtime, writes>>
    BY <1>a, <1>8 DEF WriteMetrics
  <2>2. pc[p] = "metrics" /\ pc'[p] = "require"
    BY <1>8 DEF WriteMetrics, Succeed, After, TypeOK
  <2>3. UNCHANGED <<sig, index, manifest, prompt, state, seen>>
    BY <1>8 DEF WriteMetrics
  <2>4. seen[p] = src /\ Fingerprint = <<src, src, src>>
    BY <2>1, <2>2 DEF CleanInv, Achieved, SigDone, IndexDone, ScanDone, Fingerprint
  <2>5. metrics' = [seen |-> src, fp |-> <<src, src, src>>, at |-> clock + 1]
    BY <1>8, <2>4 DEF WriteMetrics
  <2>6. clock + 1 \in Nat /\ \A f \in Files : mtime[f] <= clock + 1
    BY DEF TypeOK
  <2>7. /\ metrics' = [seen |-> src', fp |-> <<src', src', src'>>, at |-> metrics'.at]
        /\ metrics'.at \in Nat
        /\ NewerThanSources(metrics.at)'
    BY <2>1, <2>5, <2>6 DEF NewerThanSources
  <2>8. /\ sig' = src' /\ index' = src' /\ manifest' = src' /\ prompt' = src' /\ seen'[p] = src'
        /\ state' # Missing =>
              state'.fp = <<src', src', src'>> /\ NewerThanSources(state.at)'
    BY <2>1, <2>2, <2>3
    DEF CleanInv, Achieved, NewerThanSources, SigDone, IndexDone, PromptDone, ScanDone
  <2> QED
    BY <2>1, <2>7, <2>8 DEF Achieved
<1>9. ASSUME NEW r \in Procs, r # p,
             InitStep(r) \/ SigExtract(r) \/ Index(r) \/ StructurePrompt(r)
                \/ Scan(r) \/ WriteMetrics(r)
      PROVE  Achieved(p)' /\ ~refused'[p]
  <2>1. \E step : step # "idle" /\ Succeed(r, step)
    BY <1>9 DEF InitStep, SigExtract, Index, StructurePrompt, Scan, WriteMetrics
  <2> QED
    BY <1>9, <1>a, <1>b, <2>1
<1>10. ASSUME NEW r \in Procs, Require(r) PROVE Achieved(p)' /\ ~refused'[p]
  <2>1. clean[p] /\ UNCHANGED <<src, mtime, parts, seen>>
    BY <1>10 DEF Require, sources
  <2>2. pc'[p] = pc[p] \/ pc'[p] = "idle"
    BY <1>10 DEF Require, TypeOK
  <2>3. Achieved(p)'
    BY <1>b, <2>1, <2>2
    DEF CleanInv, Achieved, NewerThanSources, SigDone, IndexDone, PromptDone, ScanDone, parts
  <2>4. CASE r = p
    <3>1. Achieved(p) /\ pc[p] = "require"
      BY <1>10, <2>1, <2>4 DEF Require, CleanInv
    <3>2. Accepted
      BY <3>1, AcceptedWhenAchieved DEF IInv
    <3> QED
      BY <1>10, <2>3, <2>4, <3>2 DEF Require, TypeOK
  <2>5. CASE r # p
    BY <1>10, <2>1, <2>3, <2>5 DEF Require, TypeOK, CleanInv
  <2> QED
    BY <2>4, <2>5
<1>11. ASSUME NEW r \in Procs, Fail(r) PROVE Achieved(p)' /\ ~refused'[p]
  <2>1. clean[p] /\ UNCHANGED <<src, mtime, parts, seen, refused>>
    BY <1>11 DEF Fail, sources, ghosts
  <2>2. pc'[p] = pc[p] \/ pc'[p] = "idle"
    BY <1>11 DEF Fail, TypeOK
  <2> QED
    BY <1>b, <2>1, <2>2
    DEF CleanInv, Achieved, NewerThanSources, SigDone, IndexDone, PromptDone, ScanDone, parts
<1>12. CASE UNCHANGED vars
  BY <1>12
  DEF vars, sources, parts, ghosts, CleanInv, Achieved, NewerThanSources,
      SigDone, IndexDone, PromptDone, ScanDone
<1> QED
  BY <1>1, <1>2, <1>3, <1>4, <1>5, <1>6, <1>7, <1>8, <1>9, <1>10, <1>11, <1>12 DEF Next

\* A refresh that has the bundle to itself, from its start to require_bundle,
\* is not refused, and the bundle it leaves describes the sources in every
\* part, whatever state it found the bundle in.
THEOREM UndisturbedRefreshRepairs == Spec => []RefreshRepairs
<1>1. Init => IInv
  <2>1. Init => Alone /\ CleanInv
    BY DEF Init, Alone, CleanInv
  <2> QED
    BY <2>1, TypeInit DEF IInv
<1>2. IInv /\ [Next]_vars => IInv'
  BY TypeStep, AloneStep, CleanStep DEF IInv
<1>3. IInv => RefreshRepairs
  <2> SUFFICES ASSUME IInv, NEW p \in Procs
               PROVE  /\ pc[p] = "require" /\ clean[p] => Accepted /\ Current
                      /\ refused[p] => ~clean[p]
    BY DEF RefreshRepairs
  <2>1. refused[p] => ~clean[p]
    BY DEF IInv, CleanInv
  <2>2. ASSUME pc[p] = "require", clean[p] PROVE Accepted /\ Current
    BY <2>2, AcceptedWhenAchieved DEF IInv, CleanInv
  <2> QED
    BY <2>1, <2>2
<1> QED
  BY <1>1, <1>2, <1>3, PTL DEF Spec
-----------------------------------------------------------------------------
(* Accepted bundles, where sources do not return to an earlier snapshot. *)

\* A snapshot that was seen is one the sources have had.
PastInv ==
    /\ src \in past /\ past \subseteq Snapshots
    /\ \A p \in Procs : seen[p] \in past
    /\ metrics # Missing => metrics.seen \in past

\* A source no younger than the bundle state is as it was for the index.
StateDates ==
    state # Missing => \A f \in Files : mtime[f] <= state.at => src[f] = state.fp[1][f]

\* What a refresh, alone or not, has achieved if no source was edited meanwhile.
Progress(p) ==
    /\ SigDone(p) => sig = src
    /\ IndexDone(p) => index = src /\ manifest = src
    /\ PromptDone(p) => prompt = src
    /\ ScanDone(p) => seen[p] = src

\* The metrics describe one snapshot; the prompt is of that snapshot too, while
\* it still is the one of the sources, or of the index.
MetricsOf(s) ==
    /\ metrics.fp = <<s, s, s>>
    /\ index = s \/ src = s => prompt = s
    /\ \A f \in Files : mtime[f] <= metrics.at => src[f] = s[f]

Undisturbed ==
    ~disturbed =>
       /\ \A p \in Procs : Progress(p)
       /\ metrics # Missing => MetricsOf(metrics.seen)

CurrentInv == IInv /\ PastInv /\ StateDates /\ Undisturbed

LEMMA PastStep == TypeOK /\ PastInv /\ [Next]_vars => PastInv'
<1> SUFFICES ASSUME TypeOK, PastInv, [Next]_vars PROVE PastInv'
  OBVIOUS
<1> USE DEF PastInv
<1>1. ASSUME NEW f \in Files, NEW text \in Texts \union {Absent}, Edit(f, text)
      PROVE  PastInv'
  <2>1. src' \in Snapshots
    BY <1>1 DEF Edit, Snapshots, TypeOK
  <2> QED
    BY <1>1, <2>1 DEF Edit, parts
<1>2. ASSUME NEW p \in Procs, Scan(p) PROVE PastInv'
  BY <1>2 DEF Scan, Succeed, sources, parts, TypeOK
<1>3. ASSUME NEW p \in Procs, WriteMetrics(p) PROVE PastInv'
  BY <1>3 DEF WriteMetrics, Succeed, sources
<1>4. ASSUME NEW p \in Procs,
             Start(p) \/ InitStep(p) \/ SigExtract(p) \/ Index(p) \/ StructurePrompt(p)
                \/ Require(p) \/ Fail(p)
      PROVE  PastInv'
  <2>1. UNCHANGED <<src, past, seen>> /\ (metrics' = metrics)
    BY <1>4 DEF Start, InitStep, SigExtract, Index, StructurePrompt, Require, Fail, Succeed, sources,
       parts
  <2> QED
    BY <2>1
<1>5. CASE UNCHANGED vars
  BY <1>5 DEF vars, sources, parts
<1> QED
  BY <1>1, <1>2, <1>3, <1>4, <1>5 DEF Next

\* Every edit has a time of its own, after that of the bundle state.
LEMMA DatesStep == TypeOK /\ StateDates /\ [Next]_vars => StateDates'
<1> SUFFICES ASSUME TypeOK, StateDates, [Next]_vars PROVE StateDates'
  OBVIOUS
<1> USE DEF StateDates
<1>1. ASSUME NEW f \in Files, NEW text \in Texts \union {Absent}, Edit(f, text)
      PROVE  StateDates'
  <2>1. state' = state /\ (state # Missing => state.at \in 0..clock)
    BY <1>1 DEF Edit, parts, TypeOK
  <2>2. ASSUME NEW g \in Files, g # f PROVE mtime'[g] = mtime[g] /\ src'[g] = src[g]
    BY <1>1, <2>2 DEF Edit, TypeOK, Snapshots
  <2>3. mtime'[f] = clock + 1 /\ clock \in Nat
    BY <1>1 DEF Edit, TypeOK
  <2> QED
    BY <2>1, <2>2, <2>3
<1>2. ASSUME NEW p \in Procs, Index(p) PROVE StateDates'
  <2>1. UNCHANGED <<src, mtime>> /\ (state' = state \/ state'.fp[1] = src)
    BY <1>2 DEF Index, Succeed, sources
  <2> QED
    BY <2>1
<1>3. ASSUME NEW p \in Procs,
             Start(p) \/ InitStep(p) \/ SigExtract(p) \/ StructurePrompt(p)
                \/ Scan(p) \/ WriteMetrics(p) \/ Require(p) \/ Fail(p)
      PROVE  StateDates'
  <2>1. UNCHANGED <<src, mtime, state>>
    BY <1>3 DEF Start, InitStep, SigExtract, StructurePrompt, Scan, WriteMetrics, Require, Fail,
       Succeed, sources, parts
  <2> QED
    BY <2>1
<1>4. CASE UNCHANGED vars
  BY <1>4 DEF vars, sources, parts
<1> QED
  BY <1>1, <1>2, <1>3, <1>4 DEF Next

\* The end of a clean refresh: what it leaves is all there is to know.
LEMMA ResetStep ==
    ASSUME CurrentInv, NEW p \in Procs, Require(p), clean[p]
    PROVE  Undisturbed'
<1>1. \A q \in Procs : pc'[q] = "idle"
  BY DEF Require, CurrentInv, IInv, Alone, TypeOK
<1>2. \A q \in Procs : Progress(q)'
  BY <1>1 DEF Progress, SigDone, IndexDone, PromptDone, ScanDone
<1>3. index = src /\ prompt = src /\ metrics.seen = src /\ metrics.fp = <<src, src, src>>
  BY DEF Require, CurrentInv, IInv, CleanInv, Achieved, IndexDone, PromptDone
<1>4. UNCHANGED <<src, mtime, index, prompt, metrics>>
  BY DEF Require, sources, parts
<1>5. MetricsOf(metrics.seen)'
  BY <1>3, <1>4 DEF MetricsOf
<1> QED
  BY <1>2, <1>5 DEF Undisturbed

LEMMA ProgressStep ==
    ASSUME CurrentInv, ~disturbed, ~disturbed', [Next]_vars, NEW p \in Procs
    PROVE  Progress(p)'
<1> USE DEF Progress, SigDone, IndexDone, PromptDone, ScanDone
<1>0. TypeOK /\ \A q \in Procs : Progress(q)
  BY DEF CurrentInv, IInv, Undisturbed
<1>1. ASSUME NEW f \in Files, NEW text \in Texts \union {Absent}, Edit(f, text)
      PROVE  Progress(p)'
  <2>1. pc'[p] = "idle"
    BY <1>1 DEF Edit, Running
  <2> QED
    BY <2>1
<1>2. ASSUME NEW q \in Procs, Start(q) PROVE Progress(p)'
  BY <1>0, <1>2 DEF Start, sources, parts, TypeOK
<1>3. ASSUME NEW q \in Procs, InitStep(q) PROVE Progress(p)'
  BY <1>0, <1>3 DEF InitStep, Succeed, After, sources, parts, TypeOK
<1>4. ASSUME NEW q \in Procs, SigExtract(q) PROVE Progress(p)'
  BY <1>0, <1>4 DEF SigExtract, Succeed, After, sources, TypeOK
<1>5. ASSUME NEW q \in Procs, Index(q) PROVE Progress(p)'
  BY <1>0, <1>5 DEF Index, Succeed, After, sources, TypeOK
<1>6. ASSUME NEW q \in Procs, StructurePrompt(q) PROVE Progress(p)'
  BY <1>0, <1>6 DEF StructurePrompt, Succeed, After, sources, TypeOK
<1>7. ASSUME NEW q \in Procs, Scan(q) PROVE Progress(p)'
  BY <1>0, <1>7 DEF Scan, Succeed, After, sources, parts, TypeOK
<1>8. ASSUME NEW q \in Procs, WriteMetrics(q) PROVE Progress(p)'
  BY <1>0, <1>8 DEF WriteMetrics, Succeed, After, sources, TypeOK
<1>9. ASSUME NEW q \in Procs, Require(q) PROVE Progress(p)'
  BY <1>0, <1>9 DEF Require, sources, parts, TypeOK
<1>10. ASSUME NEW q \in Procs, Fail(q) PROVE Progress(p)'
  BY <1>0, <1>10 DEF Fail, sources, parts, TypeOK
<1>11. CASE UNCHANGED vars
  BY <1>0, <1>11 DEF vars, sources, parts
<1> QED
  BY <1>1, <1>2, <1>3, <1>4, <1>5, <1>6, <1>7, <1>8, <1>9, <1>10, <1>11 DEF Next

\* New metrics are of the sources as they are, and so is the prompt; an edit
\* leaves the snapshot of the metrics for good, and only then do the parts.
LEMMA MetricsStep ==
    ASSUME CurrentInv, Returns = FALSE, ~disturbed, ~disturbed', [Next]_vars, metrics' # Missing
    PROVE  MetricsOf(metrics.seen)'
<1> USE DEF MetricsOf
<1>0. /\ TypeOK /\ PastInv
      /\ \A q \in Procs : Progress(q)
      /\ metrics # Missing => MetricsOf(metrics.seen)
  BY DEF CurrentInv, IInv, Undisturbed
<1>1. ASSUME NEW f \in Files, NEW text \in Texts \union {Absent}, Edit(f, text)
      PROVE  MetricsOf(metrics.seen)'
  <2>1. UNCHANGED <<index, prompt, metrics>> /\ metrics.at \in 0..clock
    BY <1>0, <1>1 DEF Edit, parts, TypeOK
  <2>2. metrics.seen # src'
    BY <1>0, <1>1, <2>1 DEF Edit, PastInv
  <2>3. ASSUME NEW g \in Files, g # f PROVE mtime'[g] = mtime[g] /\ src'[g] = src[g]
    BY <1>0, <1>1, <2>3 DEF Edit, TypeOK, Snapshots
  <2>4. mtime'[f] = clock + 1 /\ clock \in Nat
    BY <1>0, <1>1 DEF Edit, TypeOK
  <2> QED
    BY <1>0, <2>1, <2>2, <2>3, <2>4
<1>2. ASSUME NEW q \in Procs, Index(q) PROVE MetricsOf(metrics.seen)'
  <2>1. index' = src /\ UNCHANGED <<src, mtime, prompt, metrics>>
    BY <1>2 DEF Index, Succeed, sources
  <2> QED
    BY <1>0, <2>1
<1>3. ASSUME NEW q \in Procs, StructurePrompt(q) PROVE MetricsOf(metrics.seen)'
  <2>1. prompt' = index /\ UNCHANGED <<src, mtime, index, metrics>> /\ index = src
    BY <1>0, <1>3 DEF StructurePrompt, Succeed, sources, Progress, IndexDone
  <2> QED
    BY <1>0, <2>1
<1>4. ASSUME NEW q \in Procs, WriteMetrics(q) PROVE MetricsOf(metrics.seen)'
  <2>1. sig = src /\ index = src /\ manifest = src /\ prompt = src /\ seen[q] = src
    BY <1>0, <1>4 DEF WriteMetrics, Succeed, Progress, SigDone, IndexDone, PromptDone, ScanDone
  <2>2. metrics'.seen = src /\ metrics'.fp = <<src, src, src>> /\ UNCHANGED <<src, mtime, index, prompt>>
    BY <1>4, <2>1 DEF WriteMetrics, Succeed, Fingerprint, sources
  <2> QED
    BY <2>1, <2>2
<1>5. ASSUME NEW q \in Procs,
             Start(q) \/ InitStep(q) \/ SigExtract(q) \/ Scan(q) \/ Require(q) \/ Fail(q)
      PROVE  MetricsOf(metrics.seen)'
  <2>1. UNCHANGED <<src, mtime, index, prompt, metrics>>
    BY <1>5 DEF Start, InitStep, SigExtract, Scan, Require, Fail, Succeed, sources, parts
  <2> QED
    BY <1>0, <2>1
<1>6. CASE UNCHANGED vars
  BY <1>0, <1>6 DEF vars, sources, parts
<1> QED
  BY <1>1, <1>2, <1>3, <1>4, <1>5, <1>6 DEF Next

LEMMA UndisturbedStep == CurrentInv /\ Returns = FALSE /\ [Next]_vars => Undisturbed'
<1> SUFFICES ASSUME CurrentInv, Returns = FALSE, [Next]_vars, ~disturbed' PROVE Undisturbed'
  BY DEF Undisturbed
<1>1. CASE disturbed
  <2>1. \E p \in Procs : Require(p) /\ clean[p]
    BY <1>1 DEF Next, vars, ghosts, Edit, Start, InitStep, SigExtract, Index, StructurePrompt,
                Scan, WriteMetrics, Require, Fail, Succeed, CurrentInv, IInv, TypeOK
  <2> QED
    BY <2>1, ResetStep
<1>2. CASE ~disturbed
  BY <1>2, ProgressStep, MetricsStep DEF Undisturbed
<1> QED
  BY <1>1, <1>2

\* What is accepted is current: the fingerprint ties the parts to the metrics,
\* and the dates tie the metrics, or the bundle state, to the sources.
LEMMA AcceptedMeansCurrent == CurrentInv => AcceptedCurrent
<1> SUFFICES ASSUME CurrentInv, Accepted, ~disturbed PROVE Current
  BY DEF AcceptedCurrent
<1>1. metrics # Missing /\ MetricsOf(metrics.seen)
  BY DEF Accepted, CurrentInv, Undisturbed
<1> DEFINE s == metrics.seen
<1>2. index = s /\ sig = s /\ manifest = s /\ (state # Missing => state.fp = <<s, s, s>>)
  BY <1>1 DEF Accepted, MetricsOf, Fingerprint
<1>3. prompt = s
  BY <1>1, <1>2 DEF MetricsOf
<1>4. src \in Snapshots /\ s \in Snapshots
  BY <1>1 DEF CurrentInv, IInv, TypeOK
<1>5. Paths(s) = Paths(src)
  BY <1>2, <1>4, BundleAssumption DEF Accepted
<1>6. ASSUME NEW f \in Files PROVE src[f] = s[f]
  <2>1. CASE f \in Paths(src)
    <3>1. mtime[f] <= Reference
      BY <2>1 DEF Accepted
    <3>2. CASE state = Missing
      BY <1>1, <3>1, <3>2 DEF Reference, MetricsOf
    <3>3. CASE state # Missing
      BY <1>2, <3>1, <3>3 DEF Reference, CurrentInv, StateDates
    <3> QED
      BY <3>2, <3>3
  <2>2. CASE f \notin Paths(src)
    BY <2>2, <1>5 DEF Paths
  <2> QED
    BY <2>1, <2>2
<1>7. src = s
  BY <1>4, <1>6 DEF Snapshots
<1> QED
  BY <1>2, <1>3, <1>7 DEF Current

\* Whatever refreshes fail, follow one another and overlap, the bundle that
\* inspect_bundle accepts describes the sources in every part, unless somebody
\* edited during a refresh; provided that the sources do not come back to an
\* earlier snapshot, which the fingerprint cannot tell from a bundle in which
\* the prompt is of another one.
THEOREM AcceptedIsCurrent == ASSUME Returns = FALSE PROVE Spec => []AcceptedCurrent
<1>1. Init => CurrentInv
  <2>1. Init => IInv
    BY TypeInit DEF Init, Alone, CleanInv, IInv
  <2>2. Init => PastInv /\ StateDates /\ Undisturbed
    <3> SUFFICES ASSUME Init PROVE PastInv /\ StateDates /\ Undisturbed
      OBVIOUS
    <3>1. src \in Snapshots
      BY TypeInit DEF TypeOK
    <3> QED
      BY <3>1 DEF Init, PastInv, StateDates, Undisturbed, Progress, SigDone, IndexDone, PromptDone,
         ScanDone
  <2> QED
    BY <2>1, <2>2 DEF CurrentInv
<1>2. CurrentInv /\ [Next]_vars => CurrentInv'
  BY TypeStep, AloneStep, CleanStep, PastStep, DatesStep, UndisturbedStep DEF CurrentInv, IInv
<1> QED
  BY <1>1, <1>2, AcceptedMeansCurrent, PTL DEF Spec
=============================================================================

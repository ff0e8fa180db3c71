------------------------------- MODULE Bundle -------------------------------
(***************************************************************************)
(* The Hippos bundle under .hippos/ : what a refresh writes, step by step, *)
(* and when Architec accepts what it finds there (integration/             *)
(* bundle_loader.py and hippo_bridge.py, tools/collect_repo_metrics.py).   *)
(*                                                                         *)
(* The hippos commands are external; what they write is taken from what    *)
(* bundle_loader.py reads and from the bundle the tests of the bridge      *)
(* build.  Every part is the snapshot of the sources it was derived from.  *)
(***************************************************************************)
EXTENDS Integers

CONSTANTS
    Procs,
    Files,         \* the architecture source paths
    Texts,         \* the contents a source can have
    Absent,        \* a path with no file
    Missing,       \* a bundle file that does not exist
    WriterKinds,   \* {TRUE}: hippos writes bundle-state.json; {FALSE}: an old one
    Returns,       \* the sources may come back to an earlier snapshot
    MaxEdits,      \* bound: edits of a source
    MaxRefreshes   \* bound: refreshes in all

Snapshots == [Files -> Texts \union {Absent}]

ASSUME BundleAssumption ==
    /\ Absent \notin Texts
    /\ Missing \notin Snapshots
    /\ Missing \notin [seen : Snapshots, fp : Snapshots \X Snapshots \X Snapshots, at : Nat]
    /\ WriterKinds \subseteq BOOLEAN
    /\ Returns \in BOOLEAN
    /\ MaxEdits \in Nat
    /\ MaxRefreshes \in Nat

VARIABLES
    src,         \* the sources
    mtime,       \* path -> st_mtime_ns
    clock,       \* the time; every edit and every stamp has its own
    sig,         \* code-signatures.json
    index,       \* hippos-index.json
    manifest,    \* file-manifest.json
    prompt,      \* structure-prompt.md
    state,       \* bundle-state.json
    metrics,     \* architect-metrics.json
    writes,      \* this hippos writes bundle-state.json
    pc,          \* the next step of each process's refresh
    seen,        \* the sources collect_repo_metrics scanned
    refused,     \* the last refresh of the process ended in "bundle is stale"
    clean,       \* nothing else touched sources or bundle during its refresh
    disturbed,   \* a source was edited during a refresh, none clean since
    past,        \* the snapshots the sources have had
    edits, refreshes

sources == <<src, mtime, past, edits>>
parts == <<sig, index, manifest, prompt, state, metrics>>
ghosts == <<clean, disturbed, refreshes>>
vars == <<sources, clock, parts, writes, pc, seen, refused, ghosts>>

Paths(snapshot) == {f \in Files : snapshot[f] # Absent}

\* compute_bundle_fingerprint: the structure prompt and the metrics are not in it.
Fingerprint == <<index, sig, manifest>>

\* source_tree_reference in inspect_bundle.
Reference == IF state # Missing THEN state.at ELSE metrics.at

\* inspect_bundle: no missing files and no stale reasons.
AcceptedWithoutManifest ==
    /\ Missing \notin {metrics, index, sig, prompt}
    /\ state # Missing => state.fp = Fingerprint
    /\ metrics.fp = IF state # Missing THEN state.fp ELSE Fingerprint
    /\ \A f \in Paths(src) : mtime[f] <= Reference

Accepted ==
    /\ Missing \notin {metrics, index, sig, prompt}
    /\ state # Missing => state.fp = Fingerprint
    /\ metrics.fp = IF state # Missing THEN state.fp ELSE Fingerprint
    /\ manifest # Missing => Paths(manifest) = Paths(src)
    /\ \A f \in Paths(src) : mtime[f] <= Reference

Init ==
    /\ src \in [Files -> Texts]
    /\ mtime = [f \in Files |-> 0]
    /\ clock = 0
    /\ sig = Missing /\ index = Missing /\ manifest = Missing /\ prompt = Missing
    /\ state = Missing /\ metrics = Missing
    /\ writes \in WriterKinds
    /\ pc = [p \in Procs |-> "idle"]
    /\ seen = [p \in Procs |-> src]
    /\ refused = [p \in Procs |-> FALSE]
    /\ clean = [p \in Procs |-> FALSE]
    /\ disturbed = FALSE
    /\ past = {src}
    /\ edits = 0
    /\ refreshes = 0

Running == {p \in Procs : pc[p] # "idle"}
-----------------------------------------------------------------------------
\* Someone changes, creates or deletes a source; a deletion leaves no mtime.
Edit(f, text) ==
    /\ edits < MaxEdits
    /\ text # src[f]
    /\ src' = [src EXCEPT ![f] = text]
    /\ Returns \/ src' \notin past
    /\ past' = past \union {src'}
    /\ edits' = edits + 1
    /\ clock' = clock + 1
    /\ mtime' = [mtime EXCEPT ![f] = clock']
    /\ clean' = [p \in Procs |-> FALSE]
    /\ disturbed' = (disturbed \/ Running # {})
    /\ UNCHANGED <<parts, writes, pc, seen, refused, refreshes>>

\* refresh_bundle_from_hippo, called by _ensure_bundle when the bundle is not
\* accepted, and always with --refresh-from-hippo.
Start(p) ==
    /\ pc[p] = "idle"
    /\ refreshes < MaxRefreshes
    /\ refreshes' = refreshes + 1
    /\ pc' = [pc EXCEPT ![p] = "init"]
    /\ refused' = [refused EXCEPT ![p] = FALSE]
    /\ clean' = [q \in Procs |-> q = p /\ Running = {}]
    /\ UNCHANGED <<sources, clock, parts, writes, seen, disturbed>>

\* The steps in their order; a step is followed by After[step].
AfterIndexLast ==
    [init |-> "sig", sig |-> "tree", tree |-> "prompt", prompt |-> "index",
     index |-> "scan", scan |-> "metrics", metrics |-> "require"]

After ==
    [init |-> "sig", sig |-> "tree", tree |-> "index", index |-> "prompt",
     prompt |-> "scan", scan |-> "metrics", metrics |-> "require"]

\* A step that succeeds is followed by the next one.
Succeed(p, step) ==
    /\ pc[p] = step
    /\ pc' = [pc EXCEPT ![p] = After[step]]
    /\ UNCHANGED <<sources, writes, refused, ghosts>>

\* hippos init and hippos tree write nothing that is read here.
InitStep(p) ==
    /\ \E step \in {"init", "tree"} : Succeed(p, step)
    /\ UNCHANGED <<clock, parts, seen>>

SigExtract(p) ==
    /\ Succeed(p, "sig")
    /\ sig' = src
    /\ UNCHANGED <<clock, index, manifest, prompt, state, metrics, seen>>

\* hippos index, which also writes the manifest and the bundle state.
IndexAlwaysState(p) ==
    /\ Succeed(p, "index")
    /\ index' = src
    /\ manifest' = src
    /\ clock' = clock + 1
    /\ state' = [fp |-> <<src, sig, src>>, at |-> clock']
    /\ UNCHANGED <<sig, prompt, metrics, seen>>

Index(p) ==
    /\ Succeed(p, "index")
    /\ index' = src
    /\ manifest' = src
    /\ clock' = clock + 1
    /\ state' = IF writes THEN [fp |-> <<src, sig, src>>, at |-> clock'] ELSE state
    /\ UNCHANGED <<sig, prompt, metrics, seen>>

\* hippos structure-prompt, which is derived from the index.
StructurePrompt(p) ==
    /\ Succeed(p, "prompt")
    /\ prompt' = index
    /\ UNCHANGED <<clock, sig, index, manifest, state, metrics, seen>>

\* collect_metrics looks at every source,
Scan(p) ==
    /\ Succeed(p, "scan")
    /\ seen' = [seen EXCEPT ![p] = src]
    /\ UNCHANGED <<clock, parts>>

\* and after that takes the time and the fingerprint.
WriteMetrics(p) ==
    /\ Succeed(p, "metrics")
    /\ clock' = clock + 1
    /\ metrics' = [seen |-> seen[p], fp |-> Fingerprint, at |-> clock']
    /\ UNCHANGED <<sig, index, manifest, prompt, state, seen>>

\* require_bundle at the end of the refresh.
Require(p) ==
    /\ pc[p] = "require"
    /\ pc' = [pc EXCEPT ![p] = "idle"]
    /\ refused' = [refused EXCEPT ![p] = ~Accepted]
    /\ disturbed' = (disturbed /\ ~clean[p])
    /\ UNCHANGED <<sources, clock, parts, writes, seen, clean, refreshes>>

\* A step ends with a return code that is not 0, or the process is killed.
Fail(p) ==
    /\ pc[p] \notin {"idle", "require"}
    /\ pc' = [pc EXCEPT ![p] = "idle"]
    /\ UNCHANGED <<sources, clock, parts, writes, seen, refused, ghosts>>

Next ==
    \/ \E f \in Files, text \in Texts \union {Absent} : Edit(f, text)
    \/ \E p \in Procs :
          \/ Start(p) \/ InitStep(p) \/ SigExtract(p) \/ Index(p) \/ StructurePrompt(p)
          \/ Scan(p) \/ WriteMetrics(p) \/ Require(p) \/ Fail(p)

Spec == Init /\ [][Next]_vars
-----------------------------------------------------------------------------
Fingerprints == (Snapshots \union {Missing}) \X (Snapshots \union {Missing})
                    \X (Snapshots \union {Missing})

Steps == {"idle", "init", "sig", "tree", "index", "prompt", "scan", "metrics", "require"}

TypeOK ==
    /\ src \in Snapshots
    /\ clock \in Nat
    /\ mtime \in [Files -> 0..clock]
    /\ {sig, index, manifest, prompt} \subseteq Snapshots \union {Missing}
    /\ state # Missing => writes /\ state \in [fp : Fingerprints, at : 0..clock]
    /\ metrics # Missing => metrics \in [seen : Snapshots, fp : Fingerprints, at : 0..clock]
    /\ writes \in BOOLEAN
    /\ pc \in [Procs -> Steps]
    /\ seen \in [Procs -> Snapshots]
    /\ refused \in [Procs -> BOOLEAN]
    /\ clean \in [Procs -> BOOLEAN]
    /\ disturbed \in BOOLEAN

Current == sig = src /\ index = src /\ manifest = src /\ prompt = src /\ metrics.seen = src

\* Refreshes may fail or be killed at any step, follow one another and
\* overlap, and sources may change between them: the bundle that inspect_bundle
\* then accepts, and that the analysis reads, describes the sources as they are,
\* in every part, unless somebody edited during a refresh.
AcceptedCurrent == Accepted /\ ~disturbed => Current

\* A refresh during which nobody else touches the sources or the bundle is not
\* refused by the require_bundle at its end, and all it leaves is current,
\* whatever state of the bundle it began with.
RefreshRepairs ==
    \A p \in Procs :
        /\ pc[p] = "require" /\ clean[p] => Accepted /\ Current
        /\ refused[p] => ~clean[p]

\* docs/progressive-architectural-cleanup.md: a stale bundle no longer enters
\* the analysis silently.  Here, of the part this repository writes itself.
MetricsNeverStale == Accepted => metrics.seen = src
=============================================================================

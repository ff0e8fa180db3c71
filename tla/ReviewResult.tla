---------------------------- MODULE ReviewResult ----------------------------
(***************************************************************************)
(* How architec/code_review/public.py builds the result of a review from   *)
(* the report of the analysis and the concerns of the scanners: which      *)
(* concerns are generated, what the semantic judge and the risk context    *)
(* change, which few are shown, and which signals go with them.            *)
(*                                                                         *)
(* A concern is [source, kind, level, confidence, path, category, facts,   *)
(* hidden]: levels are 3 (high-concern), 2 (caution), 1 (info); confidence *)
(* is in percent; path 0 is no path; facts counts its evidence; hidden     *)
(* says that the evidence is of a small flat topology or that the file is  *)
(* a changelog in use.  A report is [sections, cleanup, archive, hotspots, *)
(* topology, judge], sections naming the parts it has; paths are numbers   *)
(* in the order of their strings.                                          *)
(***************************************************************************)
EXTENDS Integers, SequencesExt

LOCAL INSTANCE FiniteSets
RC == INSTANCE RiskContext

ConcernLimit == 5
KindSoftCap == 2
EvidenceLimit == 8
ReviewFloor == 76
ArchiveFirstFloor == 80
RetireNowFloor == 86
SmallFlat == 10
Promotable == {"thin_wrapper_different_target", "variant_family_thin_wrapper_different_target"}

First(n, s) == SubSeq(s, 1, IF n < Len(s) THEN n ELSE Len(s))
MaxOf(a, b) == IF a > b THEN a ELSE b

Indices(s) == [i \in 1..Len(s) |-> i]

Concern(source, kind, level, confidence, path, facts) ==
    [source |-> source, kind |-> kind, level |-> level, confidence |-> confidence,
     path |-> path, category |-> "", facts |-> facts, hidden |-> FALSE]

-----------------------------------------------------------------------------
(* Concerns of the report. *)

HasPath(item) == item.path # 0

FileConcerns(items, source, default) ==
    LET Of(i) == [Concern(source, "cleanup", 2, i.confidence, i.path, i.facts)
                    EXCEPT !.category = IF i.category = "" THEN default ELSE i.category,
                           !.hidden = i.category = "stale_doc" /\ i.changelog]
        kept == SelectSeq(First(5, items), HasPath)
    IN  [i \in DOMAIN kept |-> Of(kept[i])]

CleanupConcerns(r) == FileConcerns(r.cleanup, "cleanup", "cleanup")
ArchiveConcerns(r) == FileConcerns(r.archive, "archive", "archive_candidate")

HotspotConcerns(r) ==
    LET kept == SelectSeq(First(8, r.hotspots), HasPath)
    IN  [i \in DOMAIN kept |->
           Concern("hotspot", "hotspot", 2, kept[i].confidence, kept[i].path, kept[i].facts)]

\* Four files of each list of the topology, and three of four groups.
TopologyConcerns(r) ==
    LET t == r.topology
        lists == <<First(4, t.misplaced), First(4, t.review), First(4, t.moves),
                   First(4, t.reviewFiles)>>
        groups == [i \in 1..Len(First(4, t.groups)) |-> First(3, t.groups[i])]
        IsPath(p) == p # 0
        paths == SelectSeq(FlattenSeq(lists \o groups), IsPath)
    IN  IF "topology" \notin r.sections THEN <<>>
        ELSE [i \in DOMAIN paths |->
                [Concern("topology", "boundary", 2, t.confidence, paths[i], 4)
                   EXCEPT !.hidden = ~t.needs /\ t.flat <= SmallFlat]]

-----------------------------------------------------------------------------
(* Discovery candidates and their promotion. *)

\* _advisory_discovery_scan_for_review: full reviews add the module dry run.
Discovery(type, near, modules) ==
    IF type = "full" THEN near \o modules ELSE near

\* _promote_discovery_candidates: a candidate of the near-duplicate scan, with
\* some factor of the risk context at its path.
Promotion(c, factors) == Concern("promoted", "duplication", 1, 68, c.path, 4 + Cardinality(factors))
Promoted(candidates, context) ==
    LET Reinforced(c) == /\ RC!Factors(context, c.path) # {} /\ c.path # 0
                         /\ c.source = "near_duplicate" /\ c.reason \in Promotable
        Take(done, c) == IF Reinforced(c) THEN Append(done, Promotion(c, RC!Factors(context, c.path))) ELSE done
    IN  IF context = <<>> THEN <<>> ELSE FoldLeft(Take, <<>>, candidates)

-----------------------------------------------------------------------------
(* The semantic judge. *)

Decided(r, decision) ==
    IF ~r.judge.ok THEN {}
    ELSE {r.judge.judgments[i].path : i \in {j \in DOMAIN r.judge.judgments :
            r.judge.judgments[j].decision = decision}} \ {0}

\* _semantic_archive_retire_decisions: retire_now stays, whatever follows it.
Floor(r, path) ==
    IF path \in Decided(r, "review") THEN ReviewFloor
    ELSE IF path \in Decided(r, "retire_now") THEN RetireNowFloor
    ELSE IF path \in Decided(r, "archive_first") THEN ArchiveFirstFloor ELSE 0

\* _is_cleanup_archive_display_concern.
IsFileConcern(c) == c.kind = "cleanup"

\* _apply_semantic_review_context.
Judged(r, concerns) ==
    LET Raise(c) == IF c.path = 0 \/ ~IsFileConcern(c) \/ Floor(r, c.path) = 0 THEN c
                    ELSE [c EXCEPT !.confidence = MaxOf(@, Floor(r, c.path)),
                                   !.facts = @ + 1]
    IN  [i \in DOMAIN concerns |-> Raise(concerns[i])]

\* apply_risk_context adds facts.
Enriched(concerns, context) ==
    IF context = <<>> THEN concerns
    ELSE [i \in DOMAIN concerns |->
            [concerns[i] EXCEPT !.facts = @ + RC!Facts(context, concerns[i].path)]]

-----------------------------------------------------------------------------
(* What is shown. *)

Better(a, b) ==
    \/ a.level > b.level
    \/ a.level = b.level /\ \/ a.confidence > b.confidence
                            \/ /\ a.confidence = b.confidence
                               /\ \/ a.path # 0 /\ b.path = 0
                                  \/ a.path < b.path /\ a.path # 0
Equal(a, b) == ~Better(a, b) /\ ~Better(b, a)

\* sorted() is stable: what is equal keeps its order.
SortedConcerns(cs) ==
    LET Before(i, j) == Better(cs[i], cs[j]) \/ (Equal(cs[i], cs[j]) /\ i < j)
        order == SortSeq(Indices(cs), Before)
    IN  [k \in DOMAIN cs |-> cs[order[k]]]

\* One level: first the best two of each kind, then the rest in order.
Portfolio(group) ==
    LET Early(i) ==
            Cardinality({j \in 1..i : group[j].kind = group[i].kind}) <= KindSoftCap
        Late(i) == ~Early(i)
        order == SelectSeq(Indices(group), Early) \o SelectSeq(Indices(group), Late)
    IN  [k \in DOMAIN group |-> group[order[k]]]

\* _ranked_concerns.
ByLevel(sorted) ==
    LET Level(n) == LET AtLevel(c) == c.level = n IN Portfolio(SelectSeq(sorted, AtLevel))
    IN  Level(3) \o Level(2) \o Level(1)
Ranked(cs) == First(ConcernLimit, ByLevel(SortedConcerns(cs)))

\* _dedupe_cleanup_archive_display_concerns: one concern for a file and a
\* category, after those that are not about files; the ids that break ties
\* are hashes, so any of the best may stay.

\* Mutant: the category of a file is not looked at.
DedupedByPath(cs) ==
    LET NotFile(c) == ~IsFileConcern(c)
        New(i) == IsFileConcern(cs[i]) /\ \A j \in 1..(i - 1) :
                     ~(IsFileConcern(cs[j]) /\ cs[j].path = cs[i].path)
        files == SelectSeq(Indices(cs), New)
    IN  SelectSeq(cs, NotFile) \o [k \in DOMAIN files |-> cs[files[k]]]

TwinOf(a, b) == IsFileConcern(a) /\ IsFileConcern(b) /\ a.path = b.path /\ a.category = b.category
Deduped(cs) ==
    LET Preferred(i) ==
            IsFileConcern(cs[i]) /\ \A j \in DOMAIN cs : TwinOf(cs[i], cs[j]) =>
               cs[j].confidence < cs[i].confidence \/ (cs[j].confidence = cs[i].confidence /\ i <= j)
        NotFile(c) == ~IsFileConcern(c)
        Seen(i) == CHOOSE j \in DOMAIN cs : /\ TwinOf(cs[i], cs[j])
                                            /\ \A k \in 1..(j - 1) : ~TwinOf(cs[i], cs[k])
        Sooner(i, j) == Seen(i) < Seen(j)
        files == SortSeq(SelectSeq(Indices(cs), Preferred), Sooner)
    IN  SelectSeq(cs, NotFile) \o [k \in DOMAIN files |-> cs[files[k]]]

\* _calibrated_full_review_display_concerns.
Calibrated(r, cs) ==
    LET Kept(c) == ~c.hidden /\ ~(c.category = "stale_doc" /\ c.path \in Decided(r, "keep_active"))
    IN  Deduped(SelectSeq(cs, Kept))

\* _is_incremental_selected_scope_concern.
InScope(c, changed) ==
    c.kind \in {"architecture-contract", "plan-diff-consistency"} \/ (c.path # 0 /\ c.path \in changed)

Displayed(r, type, changed, cs) ==
    LET Scoped(c) == InScope(c, changed)
    IN  IF type = "full" THEN Ranked(Calibrated(r, cs))
        ELSE Ranked(Deduped(SelectSeq(cs, Scoped)))

\* _compact_concern_payload.
Compacted(c) == [c EXCEPT !.facts = IF @ > EvidenceLimit THEN EvidenceLimit ELSE @]

-----------------------------------------------------------------------------
(* Signals, by kind with their count. *)

CountOf(cs, Test(_)) == Cardinality({i \in DOMAIN cs : Test(cs[i])})
Signal(kind, n) == [kind |-> kind, total |-> n]
When(holds, signal) == IF holds THEN {signal} ELSE {}

ReportSignals(r) ==
    When("cleanup" \in r.sections, Signal("cleanup", Len(r.cleanup))) \cup
    When("archive" \in r.sections, Signal("archive", Len(r.archive))) \cup
    When("judge" \in r.sections, Signal("semantic_judge", Len(r.judge.judgments))) \cup
    When(r.hotspots # <<>>, Signal("hotspot", Len(r.hotspots))) \cup
    When("topology" \in r.sections, Signal("topology", r.topology.flat))

\* A promoted candidate keeps the facts of the near-duplicate scan, and counts
\* as one of its concerns.
DuplicateSignals(cs) ==
    LET Near(c) == c.kind = "duplication"
        Shadow(c) == c.kind = "shadow-implementation"
    IN  When(CountOf(cs, Near) > 0, Signal("near_duplicate", CountOf(cs, Near))) \cup
        When(CountOf(cs, Shadow) > 0, Signal("shadow_implementation", CountOf(cs, Shadow)))

\* rules: the rules of the contract; expected: what the plan expects in all.
ScanSignals(cs, rules, expected, candidates, context) ==
    LET Contract(c) == c.kind = "architecture-contract"
        Plan(c) == c.kind = "plan-diff-consistency"
        Known(c) == RC!Facts(context, c.path) > 0
    IN  When(rules > 0, Signal("architecture_contract", CountOf(cs, Contract))) \cup
        When(candidates # <<>>, Signal("advisory_discovery", Len(candidates))) \cup
        When(expected > 0, Signal("plan_diff_consistency", CountOf(cs, Plan))) \cup
        (IF context = <<>> THEN {} ELSE {Signal("risk_context", CountOf(cs, Known))})

-----------------------------------------------------------------------------
(* The result.  x is [report, type, changed, scans, near, modules, rules,  *)
(* expected, context]: scans are the concerns of the scanners, near and    *)
(* modules the discovery candidates, context <<>> when none is given.      *)

Candidates(x) == Discovery(x.type, x.near, x.modules)

Generated(x) ==
    LET all == CleanupConcerns(x.report) \o ArchiveConcerns(x.report)
                 \o HotspotConcerns(x.report) \o TopologyConcerns(x.report)
                 \o x.scans \o Promoted(Candidates(x), x.context)
    IN  Enriched(Judged(x.report, all), x.context)

ScopeCounts(x, all) ==
    LET Scoped(c) == InScope(c, x.changed)
        n == CountOf(all, Scoped)
    IN  [scoped |-> n, global |-> Len(all) - n]

\* all is Generated(x).
Result(x, all) ==
    LET shown == Displayed(x.report, x.type, x.changed, all)
    IN  [concerns |-> [i \in DOMAIN shown |-> Compacted(shown[i])],
         signals |-> ReportSignals(x.report) \cup DuplicateSignals(all) \cup
                     ScanSignals(all, x.rules, x.expected, Candidates(x), x.context),
         total |-> Len(all), counts |-> ScopeCounts(x, all)]

-----------------------------------------------------------------------------
(* The snapshot context of an incremental review.  A file is [dotted,      *)
(* exists, mtime]; a path that starts with a dot loses it (lstrip), and    *)
(* its stat fails.                                                         *)

NoTime == -1    \* no generated_at
BadTime == -2   \* one that is no date

SnapshotContext(present, bundleTime, metricsTime, files) ==
    LET at == IF bundleTime # NoTime THEN bundleTime ELSE metricsTime
        after == {f \in files : ~f.dotted /\ f.exists /\ f.mtime > at}
    IN  [present |-> present, unknown |-> present /\ at \in {NoTime, BadTime},
         stale |-> present /\ at \notin {NoTime, BadTime} /\ after # {}]

-----------------------------------------------------------------------------
(* Properties. *)

Size(cs, kind, level) ==
    LET Is(c) == c.kind = kind /\ c.level = level IN CountOf(cs, Is)

\* The portfolio: a level is shown only once the levels above it are shown in
\* full; within a level a kind gets more than its two places only when every
\* other kind has its own; and of one kind and level the best are shown.
PortfolioRanking(cs) ==
    LET shown == Ranked(cs)
        kinds == {cs[i].kind : i \in DOMAIN cs}
    IN  /\ Len(shown) = IF Len(cs) < ConcernLimit THEN Len(cs) ELSE ConcernLimit
        /\ \A k \in kinds, n, m \in 1..3 :
              n > m /\ Size(shown, k, n) < Size(cs, k, n) => \A l \in kinds : Size(shown, l, m) = 0
        /\ \A k, l \in kinds, n \in 1..3 :
              Size(shown, k, n) > KindSoftCap => Size(shown, l, n) >= KindSoftCap \/ Size(shown, l, n) = Size(cs, l, n)
        /\ \A i \in DOMAIN shown, j \in DOMAIN cs :
              /\ cs[j].kind = shown[i].kind
              /\ Better(cs[j], shown[i])
              => cs[j] \in {shown[k] : k \in DOMAIN shown}

\* What the result leaves out: while there is room, a concern is missing only
\* because it is hidden, out of scope or kept active by the judge, or because
\* the same file and category is shown; and none is shown twice.
DisplayAccounts(x, all, shown) ==
    LET Twin(c, d) == IF IsFileConcern(c) THEN TwinOf(c, d) ELSE Compacted(c) = d
        Left(c) == IF x.type = "full"
                   THEN c.hidden \/ (c.category = "stale_doc" /\ c.path \in Decided(x.report, "keep_active"))
                   ELSE ~InScope(c, x.changed)
    IN  /\ Len(shown) < ConcernLimit =>
              \A i \in DOMAIN all : Left(all[i]) \/ \E j \in DOMAIN shown : Twin(all[i], shown[j])
        /\ \A i, j \in DOMAIN shown : i # j => ~TwinOf(shown[i], shown[j])
        /\ \A j \in DOMAIN shown : \E i \in DOMAIN all : ~Left(all[i]) /\ Compacted(all[i]) = shown[j]

\* A concern never goes without the signal of the scan it comes from, also
\* when it is not among the few that are shown.
ConcernsHaveSignals(all, signals) ==
    LET SignalOf(c) == CASE c.source = "plan" -> "plan_diff_consistency"
                         [] c.source = "contract" -> "architecture_contract"
                         [] c.source = "shadow" -> "shadow_implementation"
                         [] c.source = "promoted" -> "advisory_discovery"
                         [] OTHER -> c.source
    IN  \A i \in DOMAIN all : \E s \in signals : s.kind = SignalOf(all[i])

ResultAccounts(x, all, result) ==
    DisplayAccounts(x, all, result.concerns) /\ ConcernsHaveSignals(all, result.signals)

\* A selected file newer than the bundle makes the snapshot stale or its
\* freshness unknown, unless its path starts with a dot.
NewerFilesSeen(present, bundleTime, metricsTime, files) ==
    LET c == SnapshotContext(present, bundleTime, metricsTime, files)
    IN  \A f \in files :
           present /\ f.exists /\ ~f.dotted /\ f.mtime > bundleTime /\ f.mtime > metricsTime
              => c.stale \/ c.unknown
=============================================================================

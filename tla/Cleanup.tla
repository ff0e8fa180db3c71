------------------------------ MODULE Cleanup ------------------------------
(***************************************************************************)
(* Cleanup, from architec/cleanup: the inventory of files that look        *)
(* obsolete, the archive candidates among them, the semantic judge that    *)
(* asks the LLM about the first ten, and autofix, which moves the files it *)
(* says to archive.                                                        *)
(*                                                                         *)
(* A path is a sequence of numbers, in the order of the segments they      *)
(* stand for.  A tree is a function from paths to files [id, base, prompt, *)
(* config, script, words, text]: base is the kind path_policy gives, and   *)
(* words and text are the signals in the path and in the content.  An      *)
(* answer of the LLM is [status, judgments], a judgment [path, decision,   *)
(* confidence, hint] with the path of the archive as its hint: a text,     *)
(* which may end in "/" or have "." and ".." in it.                        *)
(***************************************************************************)
EXTENDS Integers, FiniteSets, SequencesExt, Selections

Archive == 0
Parent == -1     \* ".."
Absolute == -2   \* a leading "/"
Here == -4       \* "" or ".", as after a trailing "/"
MaxCandidates == 10
CleanupExtraKinds == {"doc", "config", "prompt", "script"}
Decisions == <<"retire_now", "archive_first", "review", "keep_active">>

\* _CLEANUP_RULES, by category.
Old == {"legacy", "deprecated"}
CleanupRules ==
    << [category |-> "compat_layer", kinds |-> {"source", "script"}, path |-> {"compat"}, content |-> {"compat"}],
       [category |-> "fallback_branch", kinds |-> {"source"}, path |-> {"fallback"}, content |-> {"fallback"}],
       [category |-> "legacy_impl", kinds |-> {"source"}, path |-> Old, content |-> {"deprecated"}],
       [category |-> "obsolete_script", kinds |-> {"script"}, path |-> Old, content |-> {"deprecated"}],
       [category |-> "stale_config", kinds |-> {"config"}, path |-> Old, content |-> Old],
       [category |-> "stale_doc", kinds |-> {"doc"}, path |-> Old, content |-> Old],
       [category |-> "stale_prompt", kinds |-> {"prompt"}, path |-> Old, content |-> Old] >>

\* The order of paths.
Less(p, q) ==
    \/ IsStrictPrefix(p, q)
    \/ \E i \in (DOMAIN p \cap DOMAIN q) :
          p[i] < q[i] /\ SubSeq(p, 1, i - 1) = SubSeq(q, 1, i - 1)

First(n, s) == SubSeq(s, 1, IF n < Len(s) THEN n ELSE Len(s))

-----------------------------------------------------------------------------
(* The inventory. *)

\* classify_cleanup_path, "" for None.
Classify(f) ==
    IF f.base \in {"hidden", "excluded", "fixture", "generated", "infra", "test"} THEN ""
    ELSE IF f.prompt THEN "prompt" ELSE IF f.config THEN "config"
    ELSE IF f.script THEN "script"
    ELSE IF f.base \in {"doc", "source"} THEN f.base ELSE ""

\* A rule matches by its path signals, its content signals or both.
Matches(f, rule) == Classify(f) \in rule.kinds /\ ((rule.path \cap f.words) \cup (rule.content \cap f.text)) # {}
Confidence(f, rule) ==
    LET n == 55 + 12 * Cardinality(rule.path \cap f.words) + 18 * Cardinality(rule.content \cap f.text)
    IN  IF n > 95 THEN 95 ELSE n

\* The rule of the highest confidence; of equal ones the first by category.
Best(f) ==
    LET of == {i \in DOMAIN CleanupRules : Matches(f, CleanupRules[i])}
        C(i) == Confidence(f, CleanupRules[i])
    IN  CleanupRules[CHOOSE i \in of : \A j \in of : C(j) < C(i) \/ (C(j) = C(i) /\ i <= j)]

Candidate(p, f) ==
    [path |-> p, kind |-> Classify(f), category |-> Best(f).category, confidence |-> Confidence(f, Best(f))]
Inventory(tree) ==
    LET found == {p \in DOMAIN tree : /\ Classify(tree[p]) \in {"source"} \cup CleanupExtraKinds
                                      /\ \E i \in DOMAIN CleanupRules : Matches(tree[p], CleanupRules[i])}
        Before(a, b) == a.confidence > b.confidence \/ (a.confidence = b.confidence /\ Less(a.path, b.path))
    IN  Sorted({Candidate(p, tree[p]) : p \in found}, Before)

\* _archive_candidate: "" for no tier.
Tier(c) ==
    IF c.kind \notin CleanupExtraKinds THEN ""
    ELSE CASE c.category \in {"obsolete_script", "stale_config"} -> "review"
           [] c.category \in {"stale_doc", "stale_prompt"} -> "ready"
           [] OTHER -> ""
ArchiveHint(c) == IF Tier(c) = "" THEN <<>> ELSE <<Archive>> \o c.path

-----------------------------------------------------------------------------
(* The semantic judge. *)

Pool(inventory) == First(MaxCandidates, inventory)

NormalizedDecision(d, kind) ==
    IF d \notin ToSet(Decisions) \/ (d = "archive_first" /\ kind = "source") THEN "review" ELSE d

\* _judgment_item: only decision, hint and confidence are of the answer.
JudgmentItem(raw, c) ==
    [path |-> c.path, kind |-> c.kind, decision |-> NormalizedDecision(raw.decision, c.kind),
     confidence |-> raw.confidence, hint |-> IF raw.hint # <<>> THEN raw.hint ELSE ArchiveHint(c)]

Unavailable(status) == [status |-> status, judgments |-> <<>>]

\* Mutant: a file the LLM names itself is judged as well.
NormalizedAnyPath(raw, pool) ==
    LET Item(j) == [path |-> j.path, kind |-> "doc", decision |-> j.decision,
                    confidence |-> j.confidence, hint |-> j.hint]
    IN  IF raw.status \in {"none", "unavailable", "skipped"} THEN Unavailable("unavailable")
        ELSE [status |-> "ok", judgments |-> [i \in DOMAIN raw.judgments |-> Item(raw.judgments[i])]]

\* _normalized_semantic_judge: the first judgment of each candidate, sorted.
Normalized(raw, pool) ==
    LET known == {i \in DOMAIN raw.judgments : \E k \in DOMAIN pool : pool[k].path = raw.judgments[i].path}
        kept == {i \in known : \A j \in known : raw.judgments[j].path = raw.judgments[i].path => i <= j}
        Source(i) == pool[CHOOSE k \in DOMAIN pool : pool[k].path = raw.judgments[i].path]
        Rank(d) == CHOOSE n \in DOMAIN Decisions : Decisions[n] = d
        Before(a, b) == \/ Rank(a.decision) < Rank(b.decision)
                        \/ /\ a.decision = b.decision
                           /\ a.confidence > b.confidence \/ (a.confidence = b.confidence /\ Less(a.path, b.path))
    IN  IF raw.status = "none" THEN Unavailable("unavailable")
        ELSE IF raw.status \in {"unavailable", "skipped"} THEN Unavailable(raw.status)
        ELSE [status |-> "ok",
              judgments |-> Sorted({JudgmentItem(raw.judgments[i], Source(i)) : i \in kept}, Before)]

\* run_semantic_judge: cache is the saved answer to this very pool (status
\* "none" for none), raw what the LLM would answer.
NoAnswer == [status |-> "none", judgments |-> <<>>]

Judged(pool, cache, raw) ==
    IF pool = <<>> THEN [result |-> Unavailable("skipped"), cache |-> cache]
    ELSE IF cache.status = "ok" THEN [result |-> Normalized(cache, pool), cache |-> cache]
    ELSE [result |-> Normalized(raw, pool), cache |-> IF raw.status = "ok" THEN raw ELSE cache]

-----------------------------------------------------------------------------
(* Autofix. *)

\* The place of the file that a text names.
Place(p) == Picked(p, {i \in DOMAIN p : p[i] # Here})

SafeRelpath(p) ==
    IF Place(p) = <<>> \/ p[1] = Absolute \/ Parent \in ToSet(p) THEN <<>> ELSE p

\* startswith("archive/"), which "archive/" alone does too.
ArchiveText(p) == Len(p) >= 2 /\ p[1] = Archive

Actions(judge) ==
    LET of == {[from |-> SafeRelpath(j.path), to |-> SafeRelpath(j.hint)] :
                 j \in {k \in ToSet(judge.judgments) : k.decision = "archive_first" /\ k.kind # "source"}}
        Before(a, b) == Less(a.from, b.from) \/ (a.from = b.from /\ Less(a.to, b.to))
    IN  Sorted({a \in of : a.from # <<>> /\ ArchiveText(a.to)}, Before)

Parents(p) == {SubSeq(p, 1, k) : k \in 1..(Len(p) - 1)}
Disk(files) == [files |-> files, dirs |-> UNION {Parents(p) : p \in DOMAIN files}, done |-> <<>>, raised |-> FALSE]

\* The move itself: the directories of the target are made, those of the
\* source stay, empty or not.
Moved(s, a) ==
    LET files == [p \in (DOMAIN s.files \ {a.from}) \cup {a.to} |-> IF p = a.to THEN s.files[a.from] ELSE s.files[p]]
    IN  [files |-> files, dirs |-> s.dirs \cup Parents(a.to), done |-> Append(s.done, "applied"), raised |-> FALSE]

\* Mutant: a target that exists is replaced.
ApplyMoveOver(s, a) ==
    IF s.raised \/ a.from \notin DOMAIN s.files THEN [s EXCEPT !.done = Append(@, "skipped")]
    ELSE Moved(s, a)

\* _apply_archive_move: no directory can be made below a file, and that
\* exception ends the whole run.
ApplyMove(s, a) ==
    IF s.raised THEN s
    ELSE IF a.from \notin DOMAIN s.files THEN [s EXCEPT !.done = Append(@, "skipped")]
    ELSE IF a.to \in (DOMAIN s.files \cup s.dirs) THEN [s EXCEPT !.done = Append(@, "blocked")]
    ELSE IF Parents(a.to) \cap DOMAIN s.files # {} THEN [s EXCEPT !.raised = TRUE]
    ELSE Moved(s, a)
OnDisk(actions) == [i \in DOMAIN actions |-> [from |-> actions[i].from, to |-> Place(actions[i].to)]]
Applied(files, actions) == FoldLeft(ApplyMove, Disk(files), OnDisk(actions))

\* apply_autofix_plan: the status of the plan; there is none when it raised.
PlanStatus(s) ==
    LET Some(status) == status \in ToSet(s.done)
    IN  CASE Some("blocked") /\ ~Some("applied") -> "blocked"
          [] Some("blocked") \/ Some("skipped") -> "partial"
          [] ~Some("applied") -> "noop"
          [] OTHER -> "applied"

-----------------------------------------------------------------------------
(* Properties of the way from a tree, a saved and a new answer to the moved *)
(* files.                                                                   *)

Judgement(tree, cache, raw) == Judged(Pool(Inventory(tree)), cache, raw).result
Run(tree, files, cache, raw) == Applied(files, Actions(Judgement(tree, cache, raw)))
Contents(files) == {files[p].id : p \in DOMAIN files}

\* Below the directory archive, or the file archive where there was no such
\* directory: a hint of "archive/" makes the first file moved that file.
InArchive(q, files) ==
    \/ Len(q) >= 2 /\ q[1] = Archive
    \/ q = <<Archive>> /\ q \notin Disk(files).dirs

\* Whatever the LLM answers, and whatever changed on disk since, autofix loses
\* no file and overwrites none, also when an exception ends it half way.
FilesSurvive(tree, files, cache, raw) ==
    LET after == Run(tree, files, cache, raw).files
    IN  Contents(after) = Contents(files) /\ Cardinality(DOMAIN after) = Cardinality(DOMAIN files)

\* When the plan is reported as applied, every file it names that was on disk
\* is in the archive, or is the file of that name.
AppliedMeansMoved(tree, files, cache, raw) ==
    LET after == Run(tree, files, cache, raw)
        actions == Actions(Judgement(tree, cache, raw))
    IN  ~after.raised /\ PlanStatus(after) = "applied" =>
          \A i \in DOMAIN actions : actions[i].from \in DOMAIN files =>
             \E q \in DOMAIN after.files :
                InArchive(q, files) /\ after.files[q].id = files[actions[i].from].id

\* The only files that move are candidates of the inventory that are no
\* source, that the answer in use says to archive; and into the archive, or to be
\* the file of that name.
OnlyJudgedFilesMove(tree, files, cache, raw) ==
    LET after == Run(tree, files, cache, raw).files
        answer == IF cache.status = "ok" THEN cache ELSE raw
    IN  \A p \in DOMAIN files : p \notin DOMAIN after =>
          /\ p \in DOMAIN tree /\ Classify(tree[p]) # "source"
          /\ \E i \in DOMAIN Inventory(tree) : Inventory(tree)[i].path = p
          /\ \E i \in DOMAIN answer.judgments :
                answer.judgments[i].path = p /\ answer.judgments[i].decision = "archive_first"
          /\ \E q \in DOMAIN after : InArchive(q, files) /\ after[q].id = files[p].id

\* An answer that was not usable is asked for again, and one that was is kept:
\* two runs over an unchanged tree judge alike if the first could judge.
GoodAnswersKept(tree, first, second) ==
    LET pool == Pool(Inventory(tree))
        one == Judged(pool, NoAnswer, first)
        two == Judged(pool, one.cache, second)
    IN  pool # <<>> => IF first.status = "ok" THEN two.result = one.result
                       ELSE two.result = Normalized(second, pool)
=============================================================================

------------------------------ MODULE MCRules ------------------------------
(***************************************************************************)
(* The rules of the review over bounded inputs: an action per rule picks   *)
(* one of its inputs, and the invariants hold the rule to its properties.  *)
(* Beside them, one of the machines of Machines runs when it is picked.    *)
(***************************************************************************)
EXTENDS Machines, Rules, Integers, Sequences, FiniteSets, TLC

vars == <<rule, x, scVars, dpVars, shVars>>

\* What a component may be, in the instance that TLC checks: good and changed,
\* worse and changed, worse and unchanged.
Change(critical, warning, churn, changed) ==
    [critical |-> critical, warning |-> warning, info |-> 0, churn |-> churn, files |-> changed,
     role |-> "plain", neighbours |-> 0]
GoodOrWorse == {Change(0, 0, 0, 1), Change(1, 0, 0, 1), Change(1, 0, 0, 0)}

RR == INSTANCE ReviewResult
RC == INSTANCE RiskContext
FB == INSTANCE Feedback

NameWords(name) == IF name \in {"old_api", "old_core"} THEN {"old", "api"} ELSE {name}
ComponentOfPath(path) == IF path[1] \in {"core", "lib"} THEN "core" ELSE IF path[1] = "web" THEN "old_core" ELSE ""

TablePrefixes == << [prefix |-> <<"component", "selection">>, group |-> <<"component", "scoring">>],
                    [prefix |-> <<"hippo">>, group |-> <<"hippo">>] >>
TableHints == << [prefix |-> <<"hippo">>, folder |-> <<"integration">>],
                 [prefix |-> <<"orchestrator">>, folder |-> <<"orchestrator">>] >>
TableTerms == << [terms |-> {"bundle", "resource"}, folder |-> <<"integration">>, confidence |-> 68] >>
TablePreferred == <<"hippo">> :> <<"integration">>
TableAliases == <<"component", "scoring">> :> <<"scoring">>

\* Path 0 is that of path 1 in a directory with a dot before its name.
StrippedPath(p) == IF p = 0 THEN 1 ELSE p

ClassOfGlob == "[id]" :> {"i", "d"}

\* A rule is chosen, then one of its inputs.
RuleNames == {"duplicates", "shadows", "plan", "coverage", "ranking", "review", "snapshot", "cleanup",
              "contracts", "metadata", "feedback", "retire", "topology", "config", "scores"}
Choose == rule = "none" /\ x = <<>> /\ rule' = rule /\ x' \in {<<r>> : r \in RuleNames}
Turn(r) == rule = "none" /\ x = <<r>> /\ rule' = r

Small(S, n) == {T \in SUBSET S : Cardinality(T) <= n}

-----------------------------------------------------------------------------
(* Trees for the near-duplicate scan. *)

W(w) == [w |-> w, n |-> "", kind |-> "word"]
N(w, n) == [w |-> w, n |-> n, kind |-> "suffixed"]
Num(n) == [w |-> "", n |-> n, kind |-> "number"]

Plain == [control |-> TRUE, nested |-> FALSE, stmts |-> <<>>]
Thin(call) == [control |-> FALSE, nested |-> FALSE,
               stmts |-> << [simple |-> TRUE, ends |-> FALSE, call |-> ""],
                            [simple |-> TRUE, ends |-> TRUE, call |-> call] >>]
Ast(name, kind) == << [k |-> "def", v |-> name], [k |-> "name", v |-> name], [k |-> kind, v |-> "1"] >>

Fn(line, parent, leaf, body) ==
    [line |-> line, parent |-> parent, leaf |-> leaf, size |-> 30, ast |-> Ast("n", "number"), body |-> body]

Templates ==
    { Fn(1, <<>>, <<W("load"), N("step", "1")>>, Plain),
      Fn(2, <<>>, <<W("load"), N("step", "2")>>, Plain),
      Fn(3, <<W("upper"), W("reader")>>, <<W("read")>>, Thin("a")),
      Fn(4, <<W("lower"), W("reader")>>, <<W("read")>>, Thin("b")),
      Fn(5, <<>>, <<W("dev")>>, Plain),
      Fn(6, <<>>, <<W("post")>>, Plain),
      Fn(10, <<>>, <<W("load"), N("step", "3")>>, Plain),
      Fn(7, <<>>, <<W("send"), W("all"), Num("2")>>, Thin("b")),
      [Fn(8, <<>>, <<W("keep")>>, Plain) EXCEPT !.ast = Ast("n", "text")],
      [Fn(9, <<>>, <<W("tiny")>>, Plain) EXCEPT !.size = 24] }

At(p, fs) == {[f EXCEPT !.path = p] : f \in {[path |-> 0] @@ g : g \in fs}}
DupFile(p, fs) == [path |-> p, dirs |-> {}, parses |-> TRUE, functions |-> At(p, fs)]
Rest == { [path |-> 3, dirs |-> {"tests"}, parses |-> TRUE, functions |-> At(3, Templates)],
          [path |-> 4, dirs |-> {}, parses |-> FALSE, functions |-> At(4, Templates)] }

Scopes == {ND!Everything} \cup {[full |-> FALSE, paths |-> P] : P \in {{}, {0}, {1}, {2}, {1, 2}}}

PickDuplicates ==
    /\ Turn("duplicates")
    /\ \E a \in Small(Templates, 3), b \in Small(Templates, 1), p \in {0, 2} :
          x' = [tree |-> {DupFile(1, a), DupFile(p, b)} \cup Rest, scopes |-> Scopes]

-----------------------------------------------------------------------------
(* Trees for the shadow-implementation scan. *)

Node(k, v) == [k |-> k, v |-> v]
Body1 == <<Node("def", "f"), Node("name", "a"), Node("name", "b"), Node("call", "")>>
Body2 == <<Node("def", "f"), Node("name", "a"), Node("name", "b"), Node("if", "")>>
Body3 == <<Node("class", "C"), Node("def", "f"), Node("def", "g"), Node("name", "a")>>
Body4 == <<Node("class", "D"), Node("def", "f"), Node("def", "g"), Node("name", "a"), Node("name", "b")>>

Arg(w) == [words |-> {w}, kind |-> "plain"]
Self == [words |-> {"self"}, kind |-> "self"]
Method(w) == [words |-> {w}, kind |-> "method", args |-> <<Self, Arg("row")>>]

Definition(line, words, ast) ==
    [kind |-> "function", line |-> line, name |-> "parse_config", words |-> words,
     nested |-> FALSE, public |-> TRUE, size |-> 45, ast |-> ast, args |-> <<Arg("text")>>,
     refs |-> {}, members |-> <<>>, parent |-> <<>>, leaf |-> <<W("parse")>>, body |-> Plain]
Class(line, words, ast) ==
    [Definition(line, words, ast) EXCEPT !.kind = "class", !.size = 90, !.args = <<>>,
        !.members = <<Method("parse"), Method("reset"),
                      [words |-> {"init"}, kind |-> "init", args |-> <<Self, Arg("text")>>],
                      [words |-> {"repr"}, kind |-> "special", args |-> <<Self>>],
                      [words |-> {"rows"}, kind |-> "attribute", args |-> <<>>]>>]

Definitions ==
    { Definition(1, {"parse", "config"}, Body1),
      Definition(2, {"parse", "the", "config", "old"}, Body2),
      [Definition(3, {"parse", "config"}, Body2) EXCEPT !.refs = {"parse_config"}],
      [Definition(4, {"parse", "config", "cli"}, Body2) EXCEPT !.args = <<Arg("text"), Arg("line")>>],
      [Definition(5, {"parse", "config"}, Body1) EXCEPT !.nested = TRUE],
      Definition(6, {"parse", "config", "adapter"}, Body2),
      Class(7, {"config", "parser"}, Body3),
      [Class(8, {"config", "parser"}, Body4) EXCEPT !.members = Tail(@)] }

ShadowFile(p, stem, words, size, imports, ds) ==
    [path |-> p, stem |-> stem, stemWords |-> words, words |-> words, dirs |-> {}, parses |-> TRUE,
     size |-> size, ast |-> Body1, refs |-> {}, imports |-> imports, definitions |-> ds]
OtherFiles == { [ShadowFile(3, "old", {}, 300, {}, Definitions) EXCEPT !.dirs = {"vendor"}],
                [ShadowFile(4, "bad", {}, 300, {}, {}) EXCEPT !.parses = FALSE],
                ShadowFile(5, "grammar", {"grammar"}, 100, {}, {Definition(1, {"parse", "config"}, Body2)}) }

PickShadows ==
    /\ Turn("shadows")
    /\ \E a, b \in Small(Definitions, 2), imports \in {{"os"}, {"os", "beta"}} :
          x' = [tree |-> {ShadowFile(1, "alpha", {"alpha"}, 300, imports, a),
                          ShadowFile(2, "beta", {"beta"}, 300, {"os"}, b)} \cup OtherFiles,
                scopes |-> Scopes]

-----------------------------------------------------------------------------
(* Plans and changed files. *)

Py(path, stem, statements, terms) ==
    [path |-> path, stem |-> stem, kind |-> "python", statements |-> statements, terms |-> terms]
From(level, module, names) == [from |-> TRUE, level |-> level, module |-> module, names |-> names]

ChangedFiles ==
    { Py(<<"src", "app", "db.py">>, "db", {From(0, <<"core", "model">>, {<<"Row">>}), From(0, <<"net">>, {<<"*">>})}, {"cache"}),
      Py(<<"src", "app", "__init__.py">>, "__init__", {From(1, <<"db">>, {<<"*">>})}, {}),
      Py(<<"tests", "db.py">>, "db", {[From(0, <<>>, {<<"core">>}) EXCEPT !.from = FALSE]}, {"cache", "legacy"}),
      [Py(<<"docs", "db.md">>, "db", {}, {"legacy"}) EXCEPT !.kind = "text"],
      [Py(<<"src", "gone.py">>, "gone", {}, {}) EXCEPT !.kind = "deleted"],
      [Py(<<"src", "bad.py">>, "bad", {}, {"cache"}) EXCEPT !.kind = "broken"] }

Changes == {{}, {<<"src", "app">>}, {<<"src", "*">>, <<"src", "gone.py">>, <<>>}}
Dependencies ==
    { {}, {[source |-> <<"src">>, imports |-> {<<"core">>}]},
      {[path |-> <<"src", "app">>, any_of |-> {<<"app", "db">>, <<"core", "*">>}]},
      {[source |-> <<"src">>, imports |-> {<<"core">>}], [source |-> <<>>, modules |-> {<<"core">>, <<"net">>}]} }
PlannedTests == {{}, {[test_path |-> <<"tests">>], [path |-> <<"src", "gone.py">>]}}
PlannedMigrations == {{}, {[path |-> <<"src", "gone.py">>], [glob |-> <<"docs", "*">>]}}
PlannedIntents ==
    { {}, {[source |-> <<"tests">>, required_terms |-> {"cache"}, forbidden_terms |-> {"legacy"}],
           [path |-> <<>>, all_of |-> {"cache"}, any_of |-> {"hit"}, must_not_include |-> {"legacy"}]} }
Plans == [changes : Changes, dependencies : Dependencies, tests : PlannedTests,
          migrations : PlannedMigrations, intents : PlannedIntents]

PickPlan ==
    /\ Turn("plan")
    /\ \E plan \in Plans, changed \in SUBSET ChangedFiles, root \in BOOLEAN :
          x' = [plan |-> plan, changed |-> changed, root |-> root,
                more |-> ChangedFiles]

-----------------------------------------------------------------------------
(* Coverage contexts. *)

Rates == [{1, 2} -> {RC!NoValue, 0, 50, 60, 100, 5900, 6000, 20000}]
Report == UNION {[P -> {RC!NoValue, 50, 60, 5900, 10000}] : P \in SUBSET {1, 2}}
Context(reports, rates) ==
    [reports |-> reports, rates |-> rates, churn |-> <<[p \in {1} |-> 10]>>,
     complexity |-> <<[p \in {2} |-> <<3, 15>>]>>, explicit |-> [p \in {2} |-> 9], api |-> {1},
     recurrence |-> [p \in {1} |-> 1], tests |-> [p \in {2} |-> {}]]

PickCoverage ==
    /\ Turn("coverage")
    /\ \E r \in Report, rates \in Rates : x' = Context(<<r, [p \in {2} |-> 6000]>>, rates)

-----------------------------------------------------------------------------
(* Results. *)

Found(source, kind, level, confidence, path) == RR!Concern(source, kind, level, confidence, path, 4)
RankingInputs ==
    { Found("cleanup", "cleanup", 2, 80, 1), Found("cleanup", "cleanup", 2, 70, 2),
      Found("hotspot", "hotspot", 2, 75, 3), Found("shadow", "shadow-implementation", 3, 60, 0),
      Found("hotspot", "hotspot", 1, 90, 1) }

PickRanking ==
    /\ Turn("ranking")
    /\ \E n \in 0..6 : x' \in [1..n -> RankingInputs]

Item(p, category) == [path |-> p, category |-> category, confidence |-> 70, changelog |-> p = 2, facts |-> 3]
Judgment(p, decision) == [path |-> p, decision |-> decision]
Judgments ==
    { <<>>, <<Judgment(1, "keep_active"), Judgment(2, "retire_now")>>,
      <<Judgment(1, "archive_first"), Judgment(1, "review"), Judgment(2, "retire_now"), Judgment(0, "review")>> }
Topology(needs) ==
    [misplaced |-> <<1, 0, 2>>, review |-> <<>>, moves |-> <<3>>, reviewFiles |-> <<>>,
     groups |-> << <<1, 2, 3, 4>> >>, confidence |-> 72, needs |-> needs, flat |-> 10]
Reports ==
    [sections : {{"cleanup", "archive", "judge"}, {"cleanup", "archive", "judge", "topology"}},
     cleanup : {<<>>, <<Item(1, "stale_doc"), Item(2, "stale_doc"), Item(0, "")>>},
     archive : {<<>>, <<Item(1, "stale_doc"), Item(2, ""), Item(1, "")>>},
     hotspots : {<<>>, <<[path |-> 1, confidence |-> 75, facts |-> 9]>>},
     topology : {Topology(TRUE), Topology(FALSE)},
     judge : [ok : BOOLEAN, judgments : Judgments]]
Scans ==
    { <<>>, <<Found("plan", "plan-diff-consistency", 2, 90, 4), Found("shadow", "shadow-implementation", 2, 80, 1)>>,
      <<Found("near_duplicate", "duplication", 2, 82, 0), Found("contract", "architecture-contract", 3, 90, 3)>> }
Near == { <<>>, <<[source |-> "near_duplicate", reason |-> "thin_wrapper_different_target", path |-> 1],
                  [source |-> "near_duplicate", reason |-> "paired_api_variant", path |-> 1]>> }
Modules == <<[source |-> "shadow_implementation", reason |-> "module_pair", path |-> 1]>>

Reviews ==
    [report : Reports, type : {"full", "incremental"}, changed : {{1, 3}}, scans : Scans, near : Near,
     modules : {Modules}, rules : {1}, expected : {1}, context : {<<>>, Context(<<>>, [p \in {1} |-> 50])}]

PickReview ==
    /\ Turn("review")
    /\ \E input \in Reviews : x' = [input |-> input, all |-> RR!Generated(input)]

SnapshotFile == [dotted : BOOLEAN, exists : BOOLEAN, mtime : 0..2]
PickSnapshot ==
    /\ Turn("snapshot")
    /\ \E present \in BOOLEAN, bundle, metrics \in {RR!NoTime, RR!BadTime, 0, 1}, files \in Small(SnapshotFile, 2) :
          x' = [present |-> present, bundle |-> bundle, metrics |-> metrics, files |-> files]

-----------------------------------------------------------------------------

(* Trees, answers and disks for cleanup. *)

Stale(id, base) ==
    [id |-> id, base |-> base, prompt |-> FALSE, config |-> FALSE, script |-> FALSE,
     words |-> {"legacy"}, text |-> IF id = 1 THEN {"deprecated"} ELSE {}]
Stales ==
    <<1>> :> Stale(1, "doc") @@ <<2, 1>> :> [Stale(2, "source") EXCEPT !.script = TRUE]
    @@ <<3>> :> Stale(3, "source") @@ <<0, 1>> :> Stale(4, "doc") @@ <<4>> :> Stale(5, "test")
    @@ <<5>> :> [Stale(6, "doc") EXCEPT !.words = {}] @@ <<-3>> :> Stale(8, "doc")
Only(f, P) == [p \in (DOMAIN f \cap P) |-> f[p]]
StaleTrees == {Stales, Only(Stales, DOMAIN Stales \ {<<0, 1>>}), Only(Stales, {<<4>>, <<5>>})}
Disks(tree) == {tree, Only(tree, DOMAIN tree \ {<<1>>, <<0, 1>>}), (<<0, 2>> :> Stale(7, "doc")) @@ tree}

Says(p, decision, hint) == [path |-> p, decision |-> decision, confidence |-> 50 + Len(p), hint |-> hint]
Sayings ==
    {Says(p, "archive_first", h) : p \in {<<1>>, <<2, 1>>, <<0, 1>>, <<-3>>},
                                   h \in {<<>>, <<0, 1>>, <<0, 1, 2>>, <<0, CL!Parent, 7>>}}
    \cup {Says(p, "archive_first", h) : p \in {<<3>>, <<5>>}, h \in {<<0, 2>>, <<7>>}}
    \cup {Says(p, "archive_first", h) : p \in {<<1>>, <<-3>>}, h \in {<<0, CL!Here>>, <<0, CL!Here, 1>>}}
    \cup {Says(<<1>>, "keep_active", <<>>), Says(<<2, 1>>, "move", <<>>)}
Answer(status, judgments) == [status |-> status, judgments |-> judgments]
OtherAnswers ==
    {CL!NoAnswer} \cup {Answer(status, <<Says(<<1>>, "archive_first", <<>>)>>) : status \in {"ok", "unavailable", "partial"}}
OtherOk == {a \in OtherAnswers : a.status = "ok"}
Answers == {Answer("ok", j) : j \in UNION {[1..n -> Sayings] : n \in 0..2}} \cup OtherAnswers

PickCleanup ==
    /\ Turn("cleanup")
    /\ \E tree \in StaleTrees : \E files \in Disks(tree), raw \in Answers, other \in {CL!NoAnswer} \cup OtherOk :
          x' = [tree |-> tree, files |-> files, raw |-> raw, other |-> other]

-----------------------------------------------------------------------------
(* Sections of the rules file, and files under them. *)

Contract(id, source, imports) == [id |-> id, source |-> source, imports |-> imports]
Contracts ==
    { Contract(0, <<"src">>, {<<"core">>}), Contract(0, <<"*", "app", "*">>, {<<"core", "model">>, <<"net">>}),
      Contract(0, <<>>, {<<"core">>}), Contract(7, <<"db.py">>, {<<"src", "app">>, <<"app", "*">>}) }
Metadatum(path, kind, owner, expires) ==
    [path |-> path, glob |-> <<>>, kind |-> kind, owner |-> owner, expires |-> expires]
Metadata ==
    { Metadatum(<<"src">>, "", "core team", 2), Metadatum(<<"src", "app">>, "source", "", 4),
      [Metadatum(<<>>, "", "docs team", 0) EXCEPT !.glob = <<"src", "*">>], Metadatum(<<"src">>, "", "", 0) }
Ignores == {[paths |-> {}, globs |-> {}, extensions |-> {}],
            [paths |-> {<<"tests">>}, globs |-> {<<"app", "*">>}, extensions |-> {"md"}]}
Sections ==
    {i @@ [metadata |-> <<>>, contracts |-> c] : i \in Ignores, c \in UNION {[1..n -> Contracts] : n \in 0..2}}
MetadataSections ==
    {[paths |-> {}, globs |-> {}, extensions |-> {}, contracts |-> <<>>, metadata |-> d] :
        d \in UNION {[1..n -> Metadata] : n \in 0..2}}

Lined(f) == [f EXCEPT !.statements = {[line |-> Cardinality(s.names)] @@ s : s \in f.statements}]
ContractFiles ==
    {[extension |-> IF f.kind = "text" THEN "md" ELSE "py"] @@ Lined(f) : f \in ChangedFiles}

PickContracts ==
    /\ Turn("contracts")
    /\ \E shared, tool \in Sections : x' = [shared |-> shared, own |-> tool, changed |-> ContractFiles]

PickMetadata ==
    /\ Turn("metadata")
    /\ \E shared, tool \in MetadataSections, path \in {<<"src", "app", "db.py">>, <<"docs", "db.md">>}, now \in 1..5 :
          x' = [shared |-> shared, own |-> tool, path |-> path, kind |-> "source", now |-> now]

-----------------------------------------------------------------------------
(* Concerns, the feedback about them, and recommendations. *)

Evidence(key, word) == [key |-> key, words |-> <<word>>]
Reviewed(id, kind, path, evidence, references) ==
    [id |-> id, kind |-> kind, path |-> path, symbol |-> <<"load">>, evidence |-> evidence, references |-> references]
Ref(role, path) == [role |-> role, path |-> path]
Copy == Reviewed("dup", "duplication", <<"src", "db">>,
                 <<Evidence("near_duplicate.fingerprint", "f"), Evidence("near_duplicate.reference", "src/legacy")>>,
                 <<Ref("reference", <<"src", "legacy">>)>>)
Shadow == Reviewed("shadow", "shadow_implementation", <<".", "src", "db">>,
                   [i \in 1..8 |-> Evidence("shadow_implementation.overlap", "o")],
                   <<Ref("existing_implementation", <<"src", "old">>)>>)
Breach == Reviewed("breach", "architecture_contract", <<"src", "cleanup">>,
                   <<Evidence("architecture_contract.rule_id", "no-core")>>, <<>>)
Stays == Reviewed("stays", "cleanup", <<"src", "db", "old">>, <<Evidence("cleanup.category", "legacy_impl")>>, <<>>)
NoFacts == Reviewed("none", "hotspot", <<>>, <<>>, <<>>)
ReviewConcerns == <<Copy, Shadow, Breach, Stays, NoFacts>>

Entry(status, scope, concern, kind, path, pattern) ==
    [status |-> status, scope |-> scope, advice |-> "", concern |-> concern, kind |-> kind,
     path |-> path, pattern |-> pattern]
Entries ==
    { Entry(status, "", "", kind, path, <<>>) : status \in {"rejected", "accepted"}, kind \in {"", "cleanup"},
                                                path \in {<<"src", "db">>, <<"cleanup">>, <<"..", "src">>} }
    \cup { Entry("superseded", "", "shadow", "", <<>>, <<>>), Entry("deferred", "exact_advice", "dup", "", <<>>, <<>>),
           Entry("not_applicable", "pattern", "", "", <<>>, <<"load">>), Entry("rejected", "", "", "", <<>>, <<>>),
           Entry("noted", "pattern", "", "", <<>>, <<"src">>), Entry("rejected", "", "", "duplication", <<>>, <<"src">>),
           [Entry("rejected", "exact_advice", "", "", <<>>, <<>>) EXCEPT !.advice = "a1"] }
Focus == {[file |-> f, kind |-> k, concern |-> c] : f \in {<<>>, <<"db">>}, k \in {"", "cleanup"}, c \in {"", "dup"}}
Recommendation(advice, path, title) ==
    [advice |-> advice, kind |-> "recommendation", path |-> path, title |-> title, scope |-> <<"src">>, why |-> <<"load">>]
Recommendations == <<Recommendation("a1", <<>>, <<"db">>), Recommendation("a2", <<"src", "db">>, <<>>), Recommendation("a3", <<>>, <<>>)>>

PickFeedback ==
    /\ Turn("feedback")
    /\ \E n \in 0..1 : \E feedback \in [1..n -> Entries], entry \in Entries, focus \in Focus,
          facts \in IF n = 0 THEN {0, 2, 8} ELSE {0} :
          x' = [feedback |-> feedback, entry |-> entry, focus |-> focus,
                facts |-> [i \in 1..facts |-> Evidence("risk_context.coverage", "low")]]

-----------------------------------------------------------------------------
(* Goals and diffs, and candidates to retire. *)

Retirable(path, category, replaced, confidence) ==
    [path |-> path, category |-> category, replaced |-> replaced, confidence |-> confidence]
Unsure == <<Retirable(<<"lib", "shim">>, "compat_layer", FALSE, 67), Retirable(<<"web", "old_api">>, "stale_doc", FALSE, 55)>>
RetirableLists ==
    { <<>>, Unsure, [i \in 1..6 |-> Retirable(<<"docs", "legacy", ToString(i)>>, "stale_doc", TRUE, 95)] \o Unsure,
      [i \in 1..6 |-> Retirable(<<"tests", "api", ToString(i)>>, "legacy_impl", TRUE, 95 - i)] \o Unsure }

Targets == {[component |-> c, evidence |-> e] : c \in {"", "core", "old_core"}, e \in {<<>>, << <<"app", "main">> >>}}
GoalFiles == {<<>>, <<[path |-> <<"app", "api">>, component |-> "core"], [path |-> <<"web", "ui">>, component |-> ""]>>}
Goals == [words : {{}, {"api"}}, targets : UNION {[1..n -> Targets] : n \in 0..2}, files : GoalFiles]

ChangedLists ==
    { <<>>, << <<"app", "main">>, <<"app", "shim">> >>,
      << <<"app", "a">>, <<"app", "b">>, <<"app", "c">>, <<"app", "legacy">>, <<"app", "d">> >> }
Diffs == UNION {[1..n -> [component : {"core", "old_core"}, changed : ChangedLists]] : n \in 0..1}
           \cup {<<[component |-> "core", changed |-> a], [component |-> "old_core", changed |-> << <<"web", "x">> >>]>> :
                    a \in ChangedLists}

PickGoal ==
    /\ Turn("retire")
    /\ \E goal \in Goals, candidates \in RetirableLists :
          x' = [focus |-> RP!GoalFocus(goal), diff |-> <<>>, candidates |-> candidates,
                plan |-> RP!GoalPlan(goal, candidates)]
PickDiff ==
    /\ Turn("retire")
    /\ \E diff \in Diffs, candidates \in RetirableLists :
          x' = [focus |-> RP!DiffFocus(diff), diff |-> diff, candidates |-> candidates,
                plan |-> RP!DiffPlan(diff, candidates)]

-----------------------------------------------------------------------------
(* Configurations of the LLM. *)

ProviderParts ==
    { <<>>, <<"providers", "llmgateway", "base_url">> :> LC!Text("url"),
      <<"providers", "own", "api_style">> :> LC!Text("chat") @@ <<"providers", "own", "base_url">> :> LC!Env("U", "")
        @@ <<"providers", "own", "api_key">> :> LC!Env("K", "key") }
TierPart(tier, items) == <<"tiers", tier, "candidates">> :> LC!List(items)
TierParts ==
    { <<>>, <<"tiers">> :> LC!Null, <<"tiers", "strong", "model">> :> LC!Text("m"),
      TierPart("strong", <<LC!Item("own", "", ""), LC!Item("own", "m", ""), LC!Item("", "m", "")>>),
      TierPart("strong", <<LC!Item("own", "m", "k"), LC!Item("own", "m", "k")>>)
        @@ TierPart("weak", <<LC!Item("own", "m", ""), LC!Item("own", "n", "")>>),
      TierPart("turbo", <<LC!Item("", "m", "")>>)
        @@ <<"tiers", "weak", "candidates">> :> LC!Null @@ <<"tiers", "weak", "model">> :> LC!Text("m") }
TaskParts ==
    { <<>>, <<"tasks">> :> LC!Null, <<"tasks">> :> LC!Empty,
      <<"tasks", "architect_component_scoring", "tier">> :> LC!Text("turbo"),
      <<"tasks", "architect_history", "tier">> :> LC!Text("weak") @@ <<"tasks", "architec_summary", "tier">> :> LC!Text("weak"),
      <<"tasks", "architect_history">> :> LC!Text("weak") @@ <<"tasks", "architec_summary", "tier">> :> LC!Text("turbo") }
PolicyParts == {<<>>, <<"failover", "cooldown_sec">> :> LC!Text("soon")}

Gateway(key, weak) ==
    [present |-> TRUE, provider |-> [api_key |-> key, base_url |-> "url", api_style |-> "chat"],
     models |-> [strong |-> "m", weak |-> weak]]
Gateways == {Gateway(key, weak) : key \in {"", "key"}, weak \in {"", "m"}} \cup {[Gateway("", "") EXCEPT !.present = FALSE]}
Environments == {<<>>, [v \in {"K"} |-> ""], [v \in {"U"} |-> "url"]}

PickConfig ==
    /\ Turn("config")
    /\ \E a \in ProviderParts, b \in TierParts, c \in TaskParts, d \in PolicyParts :
       \E gateway \in Gateways, env \in Environments, hasProject \in BOOLEAN :
          x' = [user |-> a @@ b @@ c @@ d, project |-> <<>>, hasProject |-> hasProject, env |-> env, gateway |-> gateway]

-----------------------------------------------------------------------------
(* Source trees, and answers about their topology. *)

Module(name, stem) ==
    [path |-> <<TP!Src, 5, name>>, stem |-> stem, kind |-> "module", wrapper |-> FALSE, terms |-> {}, imports |-> 0]
RootModules ==
    { [Module(1, <<"init">>) EXCEPT !.kind = "dunder"], [Module(2, <<"env">>) EXCEPT !.kind = "private"],
      Module(3, <<"cache", "disk">>), [Module(4, <<"cache", "memory">>) EXCEPT !.terms = {"bundle"}],
      Module(5, <<"cli">>), Module(6, <<"component", "selection">>), [Module(7, <<"compat">>) EXCEPT !.wrapper = TRUE],
      Module(8, <<"hippo", "adapter">>), [Module(9, <<"hippo", "bridge">>) EXCEPT !.imports = 6],
      Module(10, <<"orchestrator">>), [Module(11, <<"orchestrator", "flow">>) EXCEPT !.imports = 6],
      [Module(12, <<"scoring", "llm", "guard">>) EXCEPT !.terms = {"llm", "guard"}] }
Jobs == {Module(20 + i, <<"hippo", ToString(i)>>) : i \in 1..13}
Elsewhere == {[Module(1, <<"hippo", "job">>) EXCEPT !.path = <<3, i>>] : i \in 1..4}
               \cup {[Module(1, <<"setup">>) EXCEPT !.path = <<1>>]}
SourceTrees ==
    {Elsewhere \cup T : T \in {{}, RootModules, RootModules \cup Jobs}
                               \cup {{m \in RootModules : m.path[3] # n} : n \in {3, 4, 9, 11}}}
    \cup {{f \in RootModules : f.path[3] \in Names} : Names \in {1..2, {3, 6, 9, 11, 12}, 10..12}}

GroupSays ==
    [id : {<<"cache">>, <<"hippo">>, <<"orchestrator">>}, decision : {"", "accept", "split"},
     folder : {<<>>, TP!Blank, <<"runtime">>}]
FileSays ==
    [path : {<<TP!Src, 5, n>> : n \in {1, 4, 9, 33}}, decision : {"", "move", "review"}, keep : BOOLEAN,
     folder : {<<>>, TP!Blank}]
TopologyAnswers ==
    [groups : {<<>>} \cup {<<g>> : g \in GroupSays}, files : {<<>>}]
    \cup [groups : {<<>>, <<[id |-> <<"hippo">>, decision |-> "split", folder |-> <<"runtime">>]>>,
                    <<[id |-> <<"hippo">>, decision |-> "split", folder |-> <<>>],
                      [id |-> <<"hippo">>, decision |-> "accept", folder |-> <<>>]>>},
          files : {<<f>> : f \in FileSays} \cup {<<f, f>> : f \in {g \in FileSays : g.keep}}]

PickTopology ==
    /\ Turn("topology")
    /\ \E tree \in SourceTrees, answer \in TopologyAnswers : x' = [tree |-> tree, answer |-> answer]

-----------------------------------------------------------------------------
(* Changes that are scored. *)

ChangedApi ==
    {[Change(c, w, churn, 1) EXCEPT !.role = "adapter", !.neighbours = 5] : c \in {0, 2}, w \in {0, 1, 6}, churn \in {0, 500}}
    \cup {Change(2, 5, 500, 4)}
ChangedDb == {Change(0, 0, 20, 0), Change(0, 0, 20, 1), Change(0, 12, 2, 1), Change(2, 5, 30, 1), Change(5, 0, 0, 1)}
Registries == {<<>>, [n \in {"api"} |-> 50000], [n \in {"api", "db"} |-> 90000], [n \in {"api", "db"} |-> 10000]}
Elsewheres == {[critical |-> c, warning |-> w, info |-> 26] : c \in {0, 119, 399}, w \in {10, 400}}
ShippedPolicy ==
    [full |-> [pass_min |-> 78000, warn_min |-> 62000, critical_hard_limit |-> 120, pass_relief |-> 12, warn_relief |-> 8,
               max_pass_relief |-> 8000, max_warn_relief |-> 6000, pass_floor |-> 72000, warn_floor |-> 58000,
               max |-> [critical |-> 45000, warning |-> 24000, info |-> 6000]]]
Worse(components) ==
    {[components EXCEPT ![n][s] = @ + 1] : n \in DOMAIN components, s \in {"critical", "warning"}}

PickScores ==
    /\ Turn("scores")
    /\ \E api \in ChangedApi, db \in ChangedDb, last \in Registries, elsewhere \in Elsewheres, file \in {<<>>, ShippedPolicy} :
          x' = [components |-> [api |-> api, db |-> db], last |-> last, elsewhere |-> elsewhere, file |-> file]

-----------------------------------------------------------------------------

Done == rule \notin {"none", "cache", "dispatch", "history"} /\ rule' = "none" /\ x' = <<>>

Init == rule = "none" /\ x = <<>> /\ SC!Init /\ DP!Init /\ SH!Init
Picks == \/ Choose \/ PickDuplicates \/ PickShadows \/ PickPlan \/ PickCoverage
         \/ PickRanking \/ PickReview \/ PickSnapshot \/ PickCleanup
         \/ PickContracts \/ PickMetadata \/ PickFeedback
         \/ PickGoal \/ PickDiff \/ PickTopology \/ PickConfig \/ PickScores \/ Done
PickMachine == rule = "none" /\ x = <<>> /\ rule' \in {"cache", "dispatch", "history"} /\ UNCHANGED <<x, scVars, dpVars, shVars>>
StepCache == rule = "cache" /\ SC!Next /\ UNCHANGED <<rule, x, dpVars, shVars>>
StepDispatch == rule = "dispatch" /\ DP!Next /\ UNCHANGED <<rule, x, scVars, shVars>>
StepHistory == rule = "history" /\ SH!Next /\ UNCHANGED <<rule, x, scVars, dpVars>>
Next == (Picks /\ UNCHANGED <<scVars, dpVars, shVars>>) \/ PickMachine \/ StepCache \/ StepDispatch \/ StepHistory
Spec == Init /\ [][Next]_vars

\* Feedback alone.
FeedbackSpec == Init /\ [][((Choose /\ x' = <<"feedback">>) \/ PickFeedback \/ Done) /\ UNCHANGED <<scVars, dpVars, shVars>>]_vars

\* The near-duplicate scan alone.
DuplicatesSpec == Init /\ [][((Choose /\ x' = <<"duplicates">>) \/ PickDuplicates \/ Done) /\ UNCHANGED <<scVars, dpVars, shVars>>]_vars

-----------------------------------------------------------------------------
(* The properties, each stated with its rule. *)

\* public.py and risk_context.py: the result accounts for what was found and
\* told: what is not shown is left out for a reason, every concern has the signal
\* of its scan, a selected file newer than the bundle is noticed, and an explicit
\* coverage rate decides over the reports; and which the five that are shown are.
ResultAccounts ==
    /\ rule = "ranking" => RR!PortfolioRanking(x)
    /\ rule = "review" => RR!ResultAccounts(x.input, x.all, RR!Result(x.input, x.all))
    /\ rule = "snapshot" => RR!NewerFilesSeen(x.present, x.bundle, x.metrics, x.files)
    /\ rule = "coverage" => RC!ExplicitRateDecides(x)

\* advice_feedback.py: what is listed by path and kind is demoted, and more
\* feedback never brings advice back, of concerns or of recommendations.
FeedbackHonoured ==
    rule = "feedback" =>
       /\ FB!ListedAdviceDemoted(ReviewConcerns, x.feedback)
       /\ FB!FeedbackMonotone(ReviewConcerns, x.focus, x.feedback, x.entry)
       /\ FB!ToSet(FB!Kept(Recommendations, Append(x.feedback, x.entry))) \subseteq
             FB!ToSet(FB!Kept(Recommendations, x.feedback))

\* fix_advice/public.py: the advice names what the concern is about.
AdviceNamesTheCause ==
    rule = "feedback" => \A i \in DOMAIN ReviewConcerns : FB!AdviceNamesTheCause(ReviewConcerns[i], x.facts)

\* advice_feedback.py: an entry for a path and a kind demotes nothing else.
FeedbackScope == rule = "feedback" => \A i \in DOMAIN ReviewConcerns : FB!FeedbackScope(ReviewConcerns[i], x.feedback)

\* near_duplicate.py: in a run over changed files, a concern lies in one of them.
ScopedConcernsAreChanged ==
    rule = "duplicates" =>
       \A scope \in {s \in x.scopes : ~s.full} :
          \A c \in ND!Concerns(x.tree, scope) : c.at.path \in scope.paths

\* scoring: more findings never give a better score or recommendation, and the
\* progress since the last review counts in one review.
ScoresAreFair ==
    rule = "scores" =>
       LET policy == SH!Policy(x.file)
       IN  /\ \A worse \in Worse(x.components) :
                 SH!WorseNeverBetter(worse, x.components, x.last, x.elsewhere, policy)
           /\ SH!ProgressCountsOnce(x.components, x.last, x.elsewhere, policy)
=============================================================================

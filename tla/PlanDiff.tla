------------------------------ MODULE PlanDiff ------------------------------
(***************************************************************************)
(* The plan/diff consistency scan of                                       *)
(* architec/code_review/plan_diff_consistency.py, with the import records  *)
(* of architec/code_review/python_imports.py: what a saved plan-review     *)
(* names is compared with the files that changed.                          *)
(*                                                                         *)
(* Paths and dotted modules are sequences of segments; "*" is a segment    *)
(* that matches any other, and ClassOf gives what a segment with a bracket *)
(* class matches.  An entry of the plan is a function from the keys it has *)
(* to their values, and Lookup reads the first key that has one.  A file   *)
(* is [path, stem, kind, statements, terms]: its kind is "python", "text", *)
(* "broken" (Python that does not parse), "bytes" (not UTF-8, Python),     *)
(* "unreadable" or "deleted".                                              *)
(***************************************************************************)
EXTENDS Integers, SequencesExt

LOCAL INSTANCE FiniteSets

CONSTANT ClassOf   \* bracket segments, and the segments each matches

IsGlob(pattern) == \E i \in DOMAIN pattern : pattern[i] = "*" \/ pattern[i] \in DOMAIN ClassOf

SegmentMatches(s, p) ==
    p = "*" \/ (IF p \in DOMAIN ClassOf THEN s \in ClassOf[p] ELSE s = p)
AllMatch(s, p) == Len(s) = Len(p) /\ \A i \in DOMAIN p : SegmentMatches(s[i], p[i])

\* fnmatchcase over the whole text: every star reaches over separators, so that
\* it stands for one segment or several in a row.
FnMatch(s, p) ==
    \E at \in [DOMAIN s -> DOMAIN p] :
       /\ \A k \in DOMAIN p : \E i \in DOMAIN s : at[i] = k
       /\ \A i, j \in DOMAIN s : i < j => at[i] < at[j] \/ (at[i] = at[j] /\ p[at[i]] = "*")
       /\ \A i \in DOMAIN s : SegmentMatches(s[i], p[at[i]])
\* PurePosixPath.match: the pattern's segments against the last of the path.
TailMatch(s, p) == Len(p) <= Len(s) /\ AllMatch(SubSeq(s, Len(s) - Len(p) + 1, Len(s)), p)

PathMatches(path, pattern) ==
    /\ path # <<>> /\ pattern # <<>>
    /\ IF IsGlob(pattern) THEN FnMatch(path, pattern) \/ TailMatch(path, pattern)
       ELSE IsPrefix(pattern, path)

ModuleMatches(module, pattern) ==
    /\ module # <<>> /\ pattern # <<>>
    /\ IF IsGlob(pattern) THEN FnMatch(module, pattern) ELSE IsPrefix(pattern, module)

-----------------------------------------------------------------------------
(* Import records of a Python file.  A statement is [from, level, module,  *)
(* names]; a plain import has from = FALSE and its modules as names.       *)

ModuleOfPath(f) ==
    LET parts == Front(f.path) \o <<f.stem>>
        rooted == IF Len(parts) >= 2 /\ parts[1] = "src" THEN Tail(parts) ELSE parts
    IN  IF f.stem = "__init__" THEN Front(rooted) ELSE rooted

Resolved(f, s) ==
    LET module == ModuleOfPath(f)
        package == IF f.stem = "__init__" \/ module = <<>> THEN module ELSE Front(module)
        up == Len(package) - (s.level - 1)
    IN  SubSeq(package, 1, IF up > 0 THEN up ELSE 0) \o s.module

ImportRecords(f) ==
    LET Of(s) == IF ~s.from THEN s.names
                 ELSE LET m == IF s.level > 0 THEN Resolved(f, s) ELSE s.module
                      IN  IF m = <<>> THEN {}
                          ELSE {m} \cup {m \o n : n \in s.names \ {<<"*">>}}
    IN  IF f.kind = "broken" THEN {} ELSE UNION {Of(s) : s \in f.statements}

-----------------------------------------------------------------------------
(* What the plan expects. *)

Lookup(item, keys, none) ==
    LET Given(k) == k \in DOMAIN item /\ item[k] # none
        found == SelectSeq(keys, Given)
    IN  IF found = <<>> THEN none ELSE item[found[1]]

AllOf(item, keys) == UNION {item[k] : k \in (keys \cap DOMAIN item)}

DependencySource(i) == Lookup(i, <<"source_glob", "source", "path", "from_path">>, <<>>)
TestPath(i) == Lookup(i, <<"test_path", "test_glob", "path", "glob", "test">>, <<>>)
MigrationPath(i) == Lookup(i, <<"path", "api_path", "public_api_path", "glob", "api_glob">>, <<>>)
IntentSource(i) ==
    Lookup(i, <<"source_glob", "source", "path", "path_glob", "for_path", "from_path">>, <<>>)

Planned(plan) == {p \in plan.changes : p # <<>>}

\* One listed alternative is a plain expectation; entries are kept once.
ImportExpectations(plan) ==
    LET Plain(i) == AllOf(i, {"imports", "modules", "module", "import", "target", "dependency"})
        Either(i) == AllOf(i, {"any_of", "alternatives", "alternative_imports"})
        Of(i) == {[source |-> DependencySource(i), modules |-> {m}] : m \in Plain(i)} \cup
                 (IF Either(i) = {} THEN {}
                  ELSE {[source |-> DependencySource(i), modules |-> Either(i)]})
    IN  UNION {Of(i) : i \in plan.dependencies}

Tests(plan) == {TestPath(i) : i \in plan.tests} \ {<<>>}
Migrations(plan) == {MigrationPath(i) : i \in plan.migrations} \ {<<>>}

Intents(plan) ==
    LET Of(i) == [source |-> IntentSource(i),
                  all |-> AllOf(i, {"required_terms", "requires_terms", "all_of", "must_include"}),
                  some |-> AllOf(i, {"any_of_terms", "requires_any", "any_of"}),
                  none |-> AllOf(i, {"forbidden_terms", "must_not_include", "disallowed_terms"})]
    IN  {e \in {Of(i) : i \in plan.intents} : (e.all \cup e.some \cup e.none) # {}}

-----------------------------------------------------------------------------
(* The scan.  changed is a set of files; root says whether the project is  *)
(* at hand, so that files can be read.                                     *)

Concern(observation, id, at) == [observation |-> observation, id |-> id, at |-> at]
Paths(files) == {f.path : f \in files}
Scoped(files, source) == {f \in files : source = <<>> \/ PathMatches(f.path, source)}

\* Mutant: a changed file that does not match is enough.
UntouchedByOne(patterns, changed) ==
    {p \in patterns : \E f \in changed : ~PathMatches(f.path, p)}

Untouched(patterns, changed) ==
    {p \in patterns : ~\E f \in changed : PathMatches(f.path, p)}

\* The concern ids of these two share their fields, and name no observation.
UnexpectedChanges(plan, changed) ==
    {Concern("unexpected_changed_file", <<"path", p>>, p) : p \in {q \in Paths(changed) :
        ~\E e \in Planned(plan) \cup Tests(plan) \cup Migrations(plan) : PathMatches(q, e)}}
MissingPaths(plan, changed) ==
    {Concern("planned_path_not_changed", <<"path", p>>, p) : p \in Untouched(Planned(plan), changed)}

MissingTests(plan, changed) ==
    {Concern("planned_test_not_observed", <<"test", p>>, p) : p \in Untouched(Tests(plan), changed)}
MissingMigrations(plan, changed) ==
    {Concern("planned_public_api_migration_not_observed", <<"migration", p>>, p) :
        p \in Untouched(Migrations(plan), changed)}

\* _imports_by_changed_file reads the Python files that exist.  It handles an
\* OSError only: a file that is not UTF-8 ends the scan with an exception.
Raises(plan, changed, root) ==
    root /\ ImportExpectations(plan) # {} /\ \E f \in changed : f.kind = "bytes"

ImportResult(e, changed) ==
    LET scoped == Scoped({f \in changed : f.kind \in {"python", "broken"}}, e.source)
    IN  IF scoped = {} THEN "unscoped"
        ELSE IF \E f \in scoped : \E m \in ImportRecords(f) : \E p \in e.modules : ModuleMatches(m, p)
        THEN "observed" ELSE "missing"
MissingImports(plan, changed, root) ==
    {Concern("planned_import_not_observed", <<"import", e>>, e.source) :
        e \in {x \in ImportExpectations(plan) : root /\ ImportResult(x, changed) = "missing"}}

\* _semantic_intent_scan: what is missing and what conflicts are reported
\* apart, and only an intent with neither is observed.
Readable(changed) == {f \in changed : f.kind \in {"python", "text", "broken"}}
IntentResult(e, changed) ==
    LET scoped == Scoped(Readable(changed), e.source)
        content == UNION {f.terms : f \in scoped}
    IN  IF scoped = {} THEN {}
        ELSE LET bad == (IF e.all \subseteq content /\ (e.some = {} \/ (e.some \cap content) # {})
                         THEN {} ELSE {"planned_intent_terms_not_observed"}) \cup
                        (IF (e.none \cap content) = {} THEN {}
                         ELSE {"planned_intent_conflict_observed"})
             IN  IF bad = {} THEN {"observed"} ELSE bad
IntentConcerns(plan, changed, root) ==
    UNION {{Concern(o, <<o, e>>, e.source) : o \in IntentResult(e, changed) \ {"observed"}} :
             e \in {x \in Intents(plan) : root}}

NamesNothing(plan) ==
    (Planned(plan) \cup Tests(plan) \cup Migrations(plan)) = {}
      /\ ImportExpectations(plan) = {} /\ Intents(plan) = {}

Scan(plan, changed, root) ==
    IF NamesNothing(plan) THEN {}
    ELSE UNION {UnexpectedChanges(plan, changed), MissingPaths(plan, changed),
                MissingImports(plan, changed, root), MissingTests(plan, changed),
                MissingMigrations(plan, changed), IntentConcerns(plan, changed, root)}

-----------------------------------------------------------------------------
(* Properties of the scan. *)

Literal(paths) == \A p \in paths : \A i \in DOMAIN p : p[i] \notin DOMAIN ClassOf

\* Feedback and displays know a concern by its id: two concerns of a scan have
\* different ids, as long as no file has a bracket in its name.
ConcernsIdentified(plan, changed, root) ==
    Literal(Paths(changed)) =>
       \A c, d \in Scan(plan, changed, root) : c.id = d.id => c = d

\* Changing more files never makes a planned path, test or migration missing,
\* and never makes a file that was expected unexpected.
MoreChangesMissLess(plan, changed, more, root) ==
    LET kinds == {"planned_path_not_changed", "planned_test_not_observed",
                  "planned_public_api_migration_not_observed"}
        first == Scan(plan, changed, root)
        second == Scan(plan, changed \cup more, root)
    IN  /\ {c \in second : c.observation \in kinds} \subseteq first
        /\ {c \in second : c.observation = "unexpected_changed_file" /\ c.at \in Paths(changed)}
             \subseteq first

\* A plan that names modules by a folder is satisfied by exactly the imports
\* below it: an import that resolves to a planned module is never missing.
ImportsResolve(plan, changed) ==
    \A e \in ImportExpectations(plan) : \A f \in Scoped(changed, e.source) :
       /\ f.kind = "python"
       /\ \E s \in f.statements : s.from /\ s.level = 0 /\ \E p \in e.modules :
             ~IsGlob(p) /\ IsPrefix(p, s.module)
       => ImportResult(e, changed) = "observed"
=============================================================================

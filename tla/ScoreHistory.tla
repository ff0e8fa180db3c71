---------------------------- MODULE ScoreHistory ----------------------------
(***************************************************************************)
(* What a review says has changed since the last one: the debt ledger of   *)
(* analysis/history_analyzer.py and the component registry of scoring/,    *)
(* two files that every review reads, compares its own findings with, and  *)
(* replaces before it asks the LLM.  Reviews overlap, end early, because   *)
(* the LLM fails or the process is killed, and the project changes between *)
(* them and between their parts.                                           *)
(*                                                                         *)
(* The issues of a component are numbered within their severity.  A file   *)
(* that cannot be read, because it is missing or being written, is empty.  *)
(***************************************************************************)
EXTENDS Scoring

CONSTANTS
    Procs,
    Components,
    Findings,      \* the records that a component may be
    MaxReviews     \* bound: the reviews that begin

VARIABLES
    project,       \* the components, as the bundle and the diff have them
    ledger,        \* the issues in the ledger
    registry,      \* the last scores in the registry
    review,        \* what each process is doing
    begun,
    known          \* what the last reviews that were alone wrote, for the property

historyVars == <<project, ledger, registry, review, begun, known>>

Unknown == {}      \* known.issues is this, or the set of the set of issues
NoScores == [n \in {} |-> 0]
Nothing == [issues |-> Unknown, scores |-> NoScores]
Idle ==
    [step |-> "idle", diff |-> FALSE, alone |-> FALSE, before |-> Nothing, found |-> <<>>,
     issues |-> {}, delta |-> [new |-> {}, resolved |-> {}], trend |-> NoScores, scores |-> NoScores]
Active(p) == review[p].step # "idle"

TypeOK ==
    /\ project \in [Components -> Findings]
    /\ \A p \in Procs : review[p].step \in {"idle", "history", "ledger", "scoring", "components", "registry", "told"}
    /\ DOMAIN registry \subseteq Components
    /\ begun \in 0..MaxReviews

\* issue_catalog
Issues(components) == UNION {{<<n, s, i>> : i \in 1..components[n][s]} : n \in DOMAIN components, s \in Severities}

Goto(p, step) == review' = [review EXCEPT ![p].step = step]

\* analyze_history_and_iterate begins, with the snapshot.
Begin(p) ==
    /\ review[p].step = "idle" /\ begun < MaxReviews
    /\ begun' = begun + 1
    /\ \E diff \in BOOLEAN :
          LET alone == \A q \in Procs \ {p} : ~Active(q)
          IN  review' = [q \in Procs |->
                 IF q = p THEN [Idle EXCEPT !.step = "history", !.diff = diff, !.found = project, !.alone = alone,
                                            !.before = IF alone THEN known ELSE Nothing]
                 ELSE IF Active(q) THEN [review[q] EXCEPT !.alone = FALSE, !.before = Nothing]
                 ELSE Idle]
    /\ UNCHANGED <<project, ledger, registry, known>>

\* build_debt_ledger: the delta; then the file is opened to be written.
Delta(issues, previous) == [new |-> issues \ previous, resolved |-> previous \ issues]
CompareIssues(p) ==
    /\ review[p].step = "history"
    /\ LET issues == Issues(review[p].found)
       IN  review' = [review EXCEPT ![p].step = "ledger", ![p].issues = issues, ![p].delta = Delta(issues, ledger)]
    /\ ledger' = {}
    /\ known' = [known EXCEPT !.issues = Unknown]
    /\ UNCHANGED <<project, registry, begun>>

\* What another review wrote meanwhile may spoil the file for both.
Written(content, empty, file) == {content} \cup (IF file = empty THEN {} ELSE {empty})

\* Mutant: an issue stays in the ledger.
LedgerIssuesGrow(issues, delta) == issues \cup delta.resolved

\* The ledger holds the issues of the last review alone.
LedgerIssues(issues, delta) == issues

\* The LLM is asked after this; a review that ends here is one of Stop.
WriteLedger(p) ==
    /\ review[p].step = "ledger"
    /\ ledger' \in Written(LedgerIssues(review[p].issues, review[p].delta), {}, ledger)
    /\ known' = [known EXCEPT !.issues = IF review[p].alone THEN {review[p].issues} ELSE Unknown]
    /\ Goto(p, IF review[p].diff THEN "scoring" ELSE "told")
    /\ UNCHANGED <<project, registry, begun>>

\* score_changed_components begins, with a snapshot of its own and the diff.
LoadComponents(p) ==
    /\ review[p].step = "scoring"
    /\ review' = [review EXCEPT ![p].step = "components", ![p].found = project]
    /\ UNCHANGED <<project, ledger, registry, begun, known>>

\* update_component_registry: the trends; then the file is opened.
CompareScores(p) ==
    /\ review[p].step = "components"
    /\ review' = [review EXCEPT ![p].step = "registry", ![p].trend = Trend(registry, review[p].found),
                                ![p].scores = Updated(registry, review[p].found)]
    /\ registry' = NoScores
    /\ known' = [known EXCEPT !.scores = NoScores]
    /\ UNCHANGED <<project, ledger, begun>>

\* For the property: the score of each component in the last review that had it.
LastScores(before, components) ==
    [n \in Changed(components) \cup DOMAIN before |->
        IF n \in Changed(components) THEN component_score(components[n]) ELSE before[n]]

WriteRegistry(p) ==
    /\ review[p].step = "registry"
    /\ registry' \in Written(review[p].scores, NoScores, registry)
    /\ known' = [known EXCEPT !.scores =
          IF review[p].alone THEN LastScores(review[p].before.scores, review[p].found) ELSE NoScores]
    /\ Goto(p, "told")
    /\ UNCHANGED <<project, ledger, begun>>

\* A review is over: told in its report, or ended by an LLM or a kill anywhere.
Stop(p) ==
    /\ Active(p)
    /\ review' = [review EXCEPT ![p] = Idle]
    /\ UNCHANGED <<project, ledger, registry, begun, known>>

Edit(n) ==
    /\ \E c \in Findings : project' = [project EXCEPT ![n] = c]
    /\ UNCHANGED <<ledger, registry, review, begun, known>>

\* Edits lead from any project to any other.
Init ==
    /\ project = [n \in Components |-> CHOOSE c \in Findings : TRUE]
    /\ ledger = {} /\ registry = NoScores
    /\ review = [p \in Procs |-> Idle]
    /\ begun = 0
    /\ known = Nothing
Next == \/ \E p \in Procs : Begin(p) \/ CompareIssues(p) \/ WriteLedger(p) \/ LoadComponents(p)
                            \/ CompareScores(p) \/ WriteRegistry(p) \/ Stop(p)
        \/ \E n \in Components : Edit(n)
Spec == Init /\ [][Next]_historyVars

-----------------------------------------------------------------------------
(* Properties. *)

\* A review that was alone tells what changed since the last reviews before it
\* that were alone, of each component since the last that scored it, whatever
\* was killed, spoilt or failed before those and whatever was not asked between.
ToldSinceLastReview ==
    \A p \in Procs :
       review[p].step = "told" =>
          LET before == review[p].before
              told == review[p]
          IN  /\ \A issues \in before.issues : told.delta = Delta(told.issues, issues)
              /\ told.diff => \A n \in DOMAIN told.trend \cap DOMAIN before.scores :
                    told.trend[n] = Trend(before.scores, told.found)[n]
=============================================================================

-------------------------------- MODULE Rules --------------------------------
(***************************************************************************)
(* The rules of the review that are proved for every input: the            *)
(* near-duplicate, shadow and plan-diff scans, the sections of the rules   *)
(* file, cleanup up to the moved files, the migration plan of the          *)
(* topology, the retire plan, and the configuration of the LLM.            *)
(* MCRules picks the inputs that TLC checks, and has the other rules.      *)
(***************************************************************************)
EXTENDS Integers, Sequences

CONSTANTS
    ClassOf,                                                          \* of PlanDiff
    GroupPrefixes, FolderHints, TermRules, PreferredTable, Aliases,   \* of RepoTopology
    WordsOf(_), ComponentOf(_),                                       \* of RetirePlan
    Stripped(_), ScanLimit                                            \* of NearDuplicate

\* The tables of repo_topology_rule_data.py have names and words in them.
Words == STRING \ {" "}
Phrases == Seq(Words) \ {<<>>}
ASSUME TablesAssumption ==
    /\ GroupPrefixes \in Seq([prefix : Phrases, group : Phrases])
    /\ FolderHints \in Seq([prefix : Phrases, folder : Phrases])
    /\ TermRules \in Seq([terms : SUBSET STRING, folder : Phrases, confidence : Nat])
    /\ \A g \in DOMAIN PreferredTable : PreferredTable[g] \in Phrases
    /\ \A g \in DOMAIN Aliases : Aliases[g] \in Phrases

ASSUME LimitAssumption == ScanLimit \in Nat

VARIABLES
    rule, x    \* the rule, and its input

ND == INSTANCE NearDuplicate
SI == INSTANCE ShadowImplementation
PD == INSTANCE PlanDiff
CL == INSTANCE Cleanup
CO == INSTANCE Contracts
TP == INSTANCE RepoTopology
RP == INSTANCE RetirePlan
LC == INSTANCE LLMConfig

\* near_duplicate.py: a group of duplicates that the scope names is left out by
\* nothing but the limit, no function is found for its family and again on its
\* own, and every finding is of the scope.
GroupsReportedOnce ==
    rule = "duplicates" =>
       /\ ND!NoMemberReportedTwice(x.tree)
       /\ \A scope \in x.scopes :
             ND!GroupsAreReported(x.tree, scope) /\ ND!FindingsAreOfTheScope(x.tree, scope)

\* A pair of functions is never found both as a duplicate and as a shadow
\* implementation.
NotAlsoDuplicates(tree, scope) ==
    LET PairOf(c) == {<<c.at.path, c.at.line>>, <<c.ref.path, c.ref.line>>}
    IN  ({PairOf(c) : c \in ND!Concerns(SI!FunctionTree(tree), scope)} \cap
         {SI!Pair(c) : c \in SI!Concerns(tree, scope)}) = {}

\* shadow_implementation.py: changed files select the pairs of the full run
\* that they name, and orient them, because a match has no direction; only the
\* limit leaves some of them out; and no pair is one that near_duplicate.py finds.
ScopeSelectsPairs ==
    rule = "shadows" =>
       /\ SI!MatchIsSymmetric(x.tree)
       /\ \A scope \in x.scopes :
             /\ SI!ScopeSelectsPairs(x.tree, scope) /\ SI!OnlyTheLimitLeavesOut(x.tree, scope)
             /\ NotAlsoDuplicates(x.tree, scope)

\* plan_diff_consistency.py: with more changed files nothing more is missing,
\* told by the ids of the concerns, which are all different; and an import below
\* a planned module is not missing.
PlanGaps ==
    rule = "plan" =>
       /\ PD!ConcernsIdentified(x.plan, x.changed, x.root)
       /\ PD!MoreChangesMissLess(x.plan, x.changed, x.more, x.root)
       /\ PD!ImportsResolve(x.plan, x.changed)

\* autofix.py: no file is lost or overwritten.
FilesSurvive == rule = "cleanup" => CL!FilesSurvive(x.tree, x.files, CL!NoAnswer, x.raw)

\* semantic_judge.py and autofix.py: only candidates that were judged so move,
\* into the archive or, where it has nothing, to be the file of that name; a plan
\* that was applied moved every file it names, and a usable answer is kept, no
\* other is.
MovesFollowTheJudge ==
    rule = "cleanup" =>
       /\ CL!OnlyJudgedFilesMove(x.tree, x.files, x.other, x.raw)
       /\ CL!AppliedMeansMoved(x.tree, x.files, CL!NoAnswer, x.raw)
       /\ CL!GoodAnswersKept(x.tree, x.raw, x.other)

\* architecture_rules.py: the tool's section hides no breach of a shared
\* contract, and decides over the shared metadata field by field.
SectionsCombine ==
    /\ rule = "contracts" => CO!SharedContractsStand(x.shared, x.own, x.changed)
    /\ rule = "metadata" => CO!OwnMetadataDecides(x.shared, x.own, x.path, x.kind, x.now)

\* repo_topology_migration.py: what the LLM doubts does not move, what it says
\* nothing of, or agrees to, stays as it was, and facades stay at the root.
PlanIsSound == rule = "topology" => TP!PlanIsSound(x.tree, x.answer)

\* retire_plan.py: what belongs to the work is retired before what does not,
\* and the plan of a diff names its transient files.
PlanFitsTheWork ==
    rule = "retire" => RP!FocusBeatsUnrelated(x.candidates, x.focus) /\ RP!TransientFilesNamed(x.diff)

\* config.py, llm_preflight.py, cli.py: what a passed preflight promises, the keys
\* of the candidates, and the defaults under the user's file.
PreflightCovers ==
    rule = "config" =>
        LET files == [default |-> LC!DefaultFile, user |-> x.user, project |-> x.project, hasProject |-> x.hasProject]
            config == LC!Load(files, x.env, x.gateway)
        IN  /\ LC!PreflightCovers(files, config)
            /\ LC!KeysTellApart(config)
            /\ LC!DefaultsKept(files, config)
=============================================================================

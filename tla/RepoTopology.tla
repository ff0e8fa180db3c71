---------------------------- MODULE RepoTopology ----------------------------
(***************************************************************************)
(* The review of the folder topology in architec/analysis: the modules     *)
(* that lie directly in the main source folder, the groups that their      *)
(* names form, the folder that each one votes for, what the LLM answers    *)
(* about groups and files, and the migration plan that comes out of it.    *)
(*                                                                         *)
(* A path is a sequence of numbers, in the order of the segments they      *)
(* stand for.  A file is [path, stem, kind, wrapper, terms, imports]: its  *)
(* stem is the words of its name, kind is "module", "dunder" or "private", *)
(* terms are those of its descriptor.  Names of groups and folders are     *)
(* sequences of words too.  An answer is [groups, files]: reviews of       *)
(* groups [id, decision, folder] and of files [path, decision, keep,       *)
(* folder], with "" and <<>> for what they leave out.                      *)
(* The tables of repo_topology_rule_data.py are constants; each has only   *)
(* the rows that an instance needs.                                        *)
(***************************************************************************)
EXTENDS Integers, SequencesExt, Selections

CONSTANTS
    GroupPrefixes,   \* a sequence of [prefix, group]
    FolderHints,     \* a sequence of [prefix, folder]
    TermRules,       \* a sequence of [terms, folder, confidence]
    PreferredTable,  \* from some groups to folders
    Aliases          \* from some groups to folders

Src == 1
Blank == <<" ">>
NoAnswer == [groups |-> <<>>, files |-> <<>>]
CandidateLimit == 12
FacadeStems == {<<"analysis", "runner">>, <<"backend", "llm">>, <<"component", "descriptors">>,
                <<"orchestrator">>, <<"scoring", "policy">>}
DoubleTokens == {"backend", "scoring", "architecture"}
VagueGroups == {<<"misc">>, <<"component">>, <<"report">>, <<"paths">>}

First(n, s) == SubSeq(s, 1, IF n < Len(s) THEN n ELSE Len(s))

-----------------------------------------------------------------------------
(* The modules that lie in the source root. *)

RootOf(path) ==
    IF Len(path) >= 3 /\ path[1] = Src THEN SubSeq(path, 1, 2) ELSE SubSeq(path, 1, 1)

Before(a, b) == a[1] < b[1] \/ (a[1] = b[1] /\ (Len(a) < Len(b) \/ (Len(a) = 2 /\ Len(b) = 2 /\ a[2] < b[2])))

\* The candidate with the most files; a file at the top of the project is of none.
SourceRoot(files) ==
    LET placed == {f \in files : Len(f.path) >= 2}
        roots == {RootOf(f.path) : f \in placed}
        Size(r) == Cardinality({f \in placed : RootOf(f.path) = r})
    IN  CHOOSE r \in roots : \A q \in roots \ {r} : Size(q) < Size(r) \/ (Size(q) = Size(r) /\ Before(r, q))

\* direct_module_paths, less the wrappers that only reexport.
Direct(files) ==
    {f \in files : /\ Len(f.path) >= 2 /\ Front(f.path) = SourceRoot(files)
                   /\ f.kind # "private" /\ ~f.wrapper}
FirstOf(n, fs) == {f \in fs : Cardinality({g \in fs : Last(g.path) < Last(f.path)}) < n}

-----------------------------------------------------------------------------
(* The folder a name asks for. *)

FirstRow(table, stem) ==
    CHOOSE i \in 0..Len(table) :
       /\ i > 0 => IsPrefix(table[i].prefix, stem)
       /\ \A j \in DOMAIN table : IsPrefix(table[j].prefix, stem) => i # 0 /\ i <= j

DomainToken(stem) ==
    LET row == FirstRow(GroupPrefixes, stem)
    IN  IF row # 0 THEN GroupPrefixes[row].group
        ELSE First(IF stem[1] \in DoubleTokens THEN 2 ELSE 1, stem)

PreferredFolder(group) ==
    LET rest == Tail(group)
    IN  IF group \in DOMAIN PreferredTable THEN PreferredTable[group]
        ELSE IF group \in DOMAIN Aliases THEN Aliases[group]
        ELSE <<group[1]>> \o Picked(rest, {i \in DOMAIN rest : rest[i] # "llm"})

Vote(folder, confidence) == [folder |-> folder, confidence |-> confidence]

\* file_folder_vote: by the name, by the terms, or by the group.
FolderVote(f) ==
    LET hint == FirstRow(FolderHints, f.stem)
        rows == {i \in DOMAIN TermRules : TermRules[i].terms \cap f.terms # {}}
        rule == TermRules[CHOOSE i \in rows : \A j \in rows : i <= j]
        group == DomainToken(f.stem)
    IN  IF hint # 0 THEN Vote(FolderHints[hint].folder,
                              IF FolderHints[hint].folder = FolderHints[hint].prefix THEN 90 ELSE 84)
        ELSE IF rows # {} THEN Vote(rule.folder, rule.confidence)
        ELSE IF "llm" \in f.terms /\ {"guard", "preflight"} \cap f.terms # {} THEN Vote(<<"support">>, 66)
        ELSE Vote(PreferredFolder(group), IF group \in VagueGroups THEN 55 ELSE 72)

-----------------------------------------------------------------------------
(* Groups.  Ties of the votes are decided by the folders' names, here by   *)
(* CHOOSE.                                                                 *)

MembersOf(direct, id) == {f \in direct : f.kind = "module" /\ DomainToken(f.stem) = id}

VotesFor(members, folder) == Cardinality({f \in members : FolderVote(f).folder = folder})
VotedFolders(members) == {FolderVote(f).folder : f \in members}
Dominant(members) ==
    CHOOSE d \in VotedFolders(members) : \A e \in VotedFolders(members) : VotesFor(members, e) <= VotesFor(members, d)

\* secondary_token_share < 0.45.
Scattered(members) ==
    LET seconds == {f \in members : Len(f.stem) >= 2}
        Share(f) == Cardinality({g \in seconds : g.stem[2] = f.stem[2]})
    IN  seconds # {} /\ \A f \in seconds : 100 * Share(f) < 45 * Cardinality(seconds)

Mixed(members) ==
    LET n == Cardinality(members)
    IN  \/ n >= 5 /\ Scattered(members)
        \/ Cardinality(VotedFolders(members)) >= 2 /\ 5 * VotesFor(members, Dominant(members)) < 4 * n

GroupRecord(direct, id) ==
    LET members == MembersOf(direct, id)
        n == Cardinality(members)
        votes == VotesFor(members, Dominant(members))
    IN  [id |-> id, size |-> n,
         candidates |-> FirstOf(CandidateLimit, members),
         folder |-> IF votes >= 2 /\ votes >= n \div 2 THEN Dominant(members) ELSE PreferredFolder(id),
         mixed |-> Mixed(members)]

DomainGroups(direct) ==
    LET ids == {DomainToken(f.stem) : f \in {g \in direct : g.kind = "module"}}
    IN  {GroupRecord(direct, id) : id \in {i \in ids : Cardinality(MembersOf(direct, i)) >= 2}}

-----------------------------------------------------------------------------
(* Where a file belongs: root_role_for_path and _placement_decision. *)

StaysAtRoot(f) == f.kind = "dunder" \/ f.stem = <<"cli">> \/ f.stem \in FacadeStems
Gate(f) == IF f.imports >= 6 THEN 84 ELSE 76
Placed(f) ==
    [decision |-> IF StaysAtRoot(f) THEN "keep_root"
                  ELSE IF FolderVote(f).confidence >= Gate(f) THEN "move" ELSE "review",
     folder |-> FolderVote(f).folder, source |-> "programmatic"]

-----------------------------------------------------------------------------
(* The answer of the LLM. *)

GroupReviews(answer, id) == {i \in DOMAIN answer.groups : answer.groups[i].id = id}
FileReviews(answer, f) == {i \in DOMAIN answer.files : answer.files[i].path = f.path}
Latest(S) == CHOOSE i \in S : \A j \in S : j <= i
Default(value, none, other) == IF value = none THEN other ELSE value

\* apply_llm_reviews and resolved_group_folder: the last review of a group
\* counts, unless the folder it recommends is white space.
Resolved(group, answer) ==
    LET review == answer.groups[Latest(GroupReviews(answer, group.id))]
        none == GroupReviews(answer, group.id) = {}
    IN  IF none \/ review.folder = Blank
        THEN [folder |-> group.folder, decision |-> "accept"]
        ELSE [folder |-> Default(review.folder, <<>>, group.folder),
              decision |-> Default(review.decision, "", "review")]

\* effective_file_placement.
Placement(f, answer) ==
    LET review == answer.files[Latest(FileReviews(answer, f))]
        named == Default(review.folder, <<>>, Placed(f).folder)
    IN  IF FileReviews(answer, f) = {} THEN Placed(f)
        ELSE [decision |-> IF review.keep THEN "keep_root" ELSE Default(review.decision, "", Placed(f).decision),
              folder |-> Default(named, Blank, <<>>), source |-> "llm"]

-----------------------------------------------------------------------------
(* The migration plan. *)

Fate(kind, folder) == [kind |-> kind, folder |-> folder]

\* _append_group_move_or_review.
GroupFate(group, place, answer) ==
    LET resolved == Resolved(group, answer)
        folder == Default(place.folder, <<>>, resolved.folder)
    IN  IF resolved.decision \in {"split", "review"} /\ place.source # "llm"
        THEN Fate("review", folder) ELSE Fate("move", folder)

\* _append_singleton_move_or_review.
SingleFate(place) ==
    IF place.decision = "move" /\ place.folder # <<>> THEN Fate("move", place.folder)
    ELSE Fate("review", place.folder)

\* Mutant: the group of a file is asked before the file.
FateOfByGroup(f, groups, answer) ==
    LET place == Placement(f, answer)
        own == {g \in groups : f \in g.candidates}
    IN  IF own # {} THEN GroupFate(CHOOSE g \in own : TRUE, place, answer)
        ELSE IF place.decision = "keep_root" THEN Fate("keep", <<>>) ELSE SingleFate(place)

FateOf(f, groups, answer) ==
    LET place == Placement(f, answer)
        own == {g \in groups : f \in g.candidates}
    IN  IF place.decision = "keep_root" THEN Fate("keep", <<>>)
        ELSE IF own # {} THEN GroupFate(CHOOSE g \in own : TRUE, place, answer)
        ELSE SingleFate(place)

\* build_migration_plan and finalize_migration_plan, for the modules of Direct
\* and their DomainGroups; the LLM is asked only when there are groups.
MigrationPlan(direct, groups, llm) ==
    LET answer == IF groups = {} THEN NoAnswer ELSE llm
        fates == [f \in direct |-> FateOf(f, groups, answer)]
        grouped == UNION {g.candidates : g \in groups}
        moved == {f \in direct : fates[f].kind = "move"}
        first == {g \in groups : ~g.mixed /\ g.size >= 3}
    IN  [fates |-> fates, groups |-> groups,
         folders |-> {Resolved(g, answer).folder : g \in groups} \cup {fates[f].folder : f \in moved \ grouped},
         largest |-> {g.id : g \in first}, later |-> {g.id : g \in groups \ first}]

-----------------------------------------------------------------------------
(* Properties of the plan with an answer, and of the plan alone, without.  *)

\* Without the LLM, entry points and facades stay, however many modules of
\* their family move.
FacadesStay(alone) == \A f \in DOMAIN alone.fates : StaysAtRoot(f) <=> alone.fates[f].kind = "keep"

\* The files of a group that is to be split or reviewed do not move, except
\* those the answer speaks of one by one.
DoubtedGroupsHeld(plan, answer) ==
    \A g \in plan.groups : \A f \in g.candidates :
       /\ Resolved(g, answer).decision \in {"split", "review"}
       /\ FileReviews(answer, f) = {}
       => plan.fates[f].kind # "move"

\* An answer changes nothing for the files it says nothing of.
AnswersAreLocal(plan, alone, answer) ==
    \A f \in DOMAIN plan.fates :
       /\ FileReviews(answer, f) = {}
       /\ \A g \in plan.groups : f \in g.candidates => GroupReviews(answer, g.id) = {}
       => plan.fates[f] = alone.fates[f]

\* An answer that agrees with the decisions of the program changes nothing.
Agrees(plan, answer) ==
    /\ \A i \in DOMAIN answer.groups : answer.groups[i].decision = "accept"
    /\ \A i \in DOMAIN answer.files : \A f \in DOMAIN plan.fates : answer.files[i].path = f.path =>
          /\ answer.files[i].keep = StaysAtRoot(f)
          /\ answer.files[i].decision \in {"", Placed(f).decision}
          /\ answer.files[i].folder \in {<<>>, Placed(f).folder}
AgreementChangesNothing(plan, alone, answer) == Agrees(plan, answer) => plan.fates = alone.fates

PlanIsSound(files, answer) ==
    LET direct == Direct(files)
        groups == DomainGroups(direct)
        plan == MigrationPlan(direct, groups, answer)
        alone == MigrationPlan(direct, groups, NoAnswer)
    IN  /\ FacadesStay(alone)
        /\ DoubtedGroupsHeld(plan, answer)
        /\ AnswersAreLocal(plan, alone, answer)
        /\ AgreementChangesNothing(plan, alone, answer)
=============================================================================

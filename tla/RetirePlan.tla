----------------------------- MODULE RetirePlan -----------------------------
(***************************************************************************)
(* The retire plan of architec/cleanup/retire_plan.py: what a goal or a    *)
(* diff adds, and which cleanup candidates to retire along with it.        *)
(*                                                                         *)
(* A path is a sequence of names, WordsOf gives the words of a name, and   *)
(* ComponentOf the component of a path, "" for none.  A goal is [words,    *)
(* targets, files], a target [component, evidence] and a file [path,       *)
(* component]; a diff is a sequence of [component, changed].  A candidate  *)
(* is [path, category, replaced, confidence], the confidence in hundredths *)
(* as the relevance is.                                                    *)
(***************************************************************************)
EXTENDS Integers, SequencesExt, Selections

CONSTANTS WordsOf(_), ComponentOf(_)

TransientTokens == {"compat", "deprecated", "fallback", "legacy", "migration", "old", "shim", "temp", "temporary"}
TemporaryCategories ==
    {"compat_layer", "fallback_branch", "legacy_impl", "obsolete_script", "stale_config", "stale_doc", "stale_prompt"}

Tokens(path) == UNION {WordsOf(path[i]) : i \in DOMAIN path}
First(n, s) == SubSeq(s, 1, IF n < Len(s) THEN n ELSE Len(s))
Once(s) == FoldLeft(LAMBDA kept, e : IF e \in ToSet(kept) THEN kept ELSE Append(kept, e), <<>>, s)

-----------------------------------------------------------------------------
(* What is added. *)

AddItem(component, files) == [component |-> component, files |-> files]

\* _goal_add_items: the first five target components with their files, or the
\* first three candidate files when there is no target.
FocusFiles(target, files) ==
    LET own == Picked(files, {i \in DOMAIN files : files[i].component = target.component})
    IN  First(6, Once(target.evidence \o [i \in DOMAIN own |-> own[i].path]))
GoalAddItems(goal) ==
    LET targets == First(5, goal.targets)
        named == Picked(targets, {i \in DOMAIN targets : targets[i].component # ""})
        items == [i \in DOMAIN named |-> AddItem(named[i].component, FocusFiles(named[i], goal.files))]
        fallback == First(3, goal.files)
    IN  IF items # <<>> THEN items
        ELSE [i \in DOMAIN fallback |-> AddItem(fallback[i].component, <<fallback[i].path>>)]

IsTransient(path) == Tokens(path) \cap TransientTokens # {}
TransientAt(paths) == {i \in DOMAIN paths : IsTransient(paths[i])}

\* _diff_add_items: the components of the first ten with a transient name, or
\* with transient files, which then stand for it.
DiffFiles(entry) ==
    LET transient == TransientAt(entry.changed)
    IN  IF transient # {} THEN First(6, Picked(entry.changed, transient)) ELSE First(3, entry.changed)
Flagged(entry) == TransientAt(entry.changed) # {} \/ WordsOf(entry.component) \cap TransientTokens # {}
DiffAddItems(diff) ==
    LET looked == First(10, diff)
        flagged == First(5, Picked(looked, {i \in DOMAIN looked : Flagged(looked[i])}))
    IN  [i \in DOMAIN flagged |-> AddItem(flagged[i].component, DiffFiles(flagged[i]))]

-----------------------------------------------------------------------------
(* What is retired.  A focus is [components, paths, words]. *)

GoalFocus(goal) ==
    LET add == GoalAddItems(goal)
        components == {add[i].component : i \in DOMAIN add} \ {""}
    IN  [components |-> components,
         paths |-> UNION {ToSet(add[i].files) : i \in DOMAIN add},
         words |-> goal.words \cup UNION {WordsOf(c) : c \in components}]
DiffFocus(diff) ==
    LET components == {diff[i].component : i \in DOMAIN diff} \ {""}
        paths == UNION {ToSet(diff[i].changed) : i \in DOMAIN diff}
    IN  [components |-> components, paths |-> paths,
         words |-> UNION ({WordsOf(c) : c \in components} \cup {Tokens(p) : p \in paths})]

\* The relations of a candidate to the focus.
SharesComponent(c, focus) == ComponentOf(c.path) # "" /\ ComponentOf(c.path) \in focus.components
SharesTop(c, focus) == \E p \in focus.paths : p # <<>> /\ Head(p) = Head(c.path)
SharedWords(c, focus) == Cardinality(Tokens(c.path) \cap focus.words)

\* Mutant: the component is not looked at.
RelevanceOfPaths(c, focus) ==
    LET If(b, n) == IF b THEN n ELSE 0
    IN  If(c.category \in TemporaryCategories, 120) + If(c.replaced, 40) + c.confidence
          + 50 * SharedWords(c, focus) + If(SharesTop(c, focus), 150)

\* _cleanup_relevance.
Relevance(c, focus) ==
    LET If(b, n) == IF b THEN n ELSE 0
        words == 50 * SharedWords(c, focus)
    IN  IF c.path = <<>> THEN 0
        ELSE If(c.category \in TemporaryCategories, 120) + If(c.replaced, 40)
               + (IF c.confidence > 100 THEN 100 ELSE c.confidence)
               + If(SharesComponent(c, focus), 300) + If(SharesTop(c, focus), 150)
               + (IF words > 200 THEN 200 ELSE words)

\* _retire_items: the five most relevant, or the first three when none is.  The
\* candidates come in the order of the inventory, which decides between equals.
RetireItems(candidates, focus) ==
    LET R == [i \in DOMAIN candidates |-> Relevance(candidates[i], focus)]
        Before(i, j) == \/ R[i] > R[j]
                        \/ R[i] = R[j] /\ candidates[i].confidence > candidates[j].confidence
                        \/ R[i] = R[j] /\ candidates[i].confidence = candidates[j].confidence /\ i < j
        relevant == {i \in DOMAIN candidates : R[i] > 0}
        ranked == First(5, Sorted(relevant, Before))
    IN  IF relevant # {} THEN [k \in DOMAIN ranked |-> candidates[ranked[k]]]
        ELSE First(3, Picked(candidates, {i \in DOMAIN candidates : candidates[i].path # <<>>}))

GoalPlan(goal, candidates) ==
    [add |-> GoalAddItems(goal), retire |-> RetireItems(candidates, GoalFocus(goal))]
DiffPlan(diff, candidates) ==
    [add |-> DiffAddItems(diff), retire |-> RetireItems(candidates, DiffFocus(diff))]

-----------------------------------------------------------------------------
(* Properties. *)

Unrelated(c, focus) ==
    ~SharesComponent(c, focus) /\ ~SharesTop(c, focus) /\ SharedWords(c, focus) = 0

\* A candidate of a component that is worked on is never left out for one that
\* has nothing to do with the work, however sure cleanup is of that one.
FocusBeatsUnrelated(candidates, focus) ==
    LET retired == ToSet(RetireItems(candidates, focus))
    IN  \A i, j \in DOMAIN candidates :
           /\ SharesComponent(candidates[i], focus) /\ Unrelated(candidates[j], focus)
           /\ candidates[j] \in retired
           => candidates[i] \in retired

\* A diff that touches a transient file names one in its plan, and the files a
\* plan names for a component are all transient when one of them is.
TransientFilesNamed(diff) ==
    LET items == DiffAddItems(diff)
        named == UNION {ToSet(items[i].files) : i \in DOMAIN items}
    IN  /\ Len(diff) <= 10 /\ (\E i \in DOMAIN diff : \E p \in ToSet(diff[i].changed) : IsTransient(p))
             => items # <<>>
        /\ \A i \in DOMAIN diff :
              LET here == named \cap ToSet(diff[i].changed)
              IN  (\E p \in here : IsTransient(p)) => \A q \in here : IsTransient(q)
=============================================================================

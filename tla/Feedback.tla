------------------------------ MODULE Feedback ------------------------------
(***************************************************************************)
(* The reviewers' feedback of architec/advice_feedback.py, and the advice  *)
(* that architec/fix_advice/public.py gives for the concerns of a review.  *)
(*                                                                         *)
(* A text is a sequence of words, "|" between its fields, and contains     *)
(* another that is a contiguous part of it; case and separators inside a   *)
(* field are left out, and so is a match of part of a word.  An entry of   *)
(* the feedback is [status, scope, advice, concern, kind, path, pattern];  *)
(* a concern is [id, kind, path, symbol, evidence, references], its        *)
(* evidence a sequence of [key, words] and its references of [role, path]. *)
(***************************************************************************)
EXTENDS Integers, SequencesExt

DemoteStatuses == {"rejected", "not_applicable", "superseded"}
KnownStatuses == DemoteStatuses \cup {"accepted", "deferred"}
KnownScopes == {"exact_advice", "same_path_kind", "pattern"}
LegacyCompatTokens ==
    {"backcompat", "compat", "compatibility", "deprecated", "deprecation", "legacy", "migrate", "migration", "shim"}
EvidenceLimit == 8
ReferencesLimit == 3

First(n, s) == SubSeq(s, 1, IF n < Len(s) THEN n ELSE Len(s))
Joined(fields) ==
    LET Add(text, f) == text \o <<"|">> \o f IN FoldLeft(Add, <<>>, fields)
HasPart(text, part) == part # <<>> /\ part \in SubSeqs(text)

-----------------------------------------------------------------------------
(* The feedback. *)

\* _norm_path: the dots before the first name of a path are dropped.
NormPath(path) ==
    LET first == SelectInSeq(path, LAMBDA w : w \notin {".", ".."})
    IN  IF first = 0 THEN <<>> ELSE SubSeq(path, first, Len(path))

\* _feedback_items: entries of no known status are no feedback, and a scope
\* that is not known follows from what the entry names.
Scope(e) ==
    CASE e.scope \in KnownScopes -> e.scope
      [] e.advice # "" \/ e.concern # "" -> "exact_advice"
      [] e.path # <<>> -> "same_path_kind"
      [] e.pattern # <<>> -> "pattern"
      [] OTHER -> ""
FeedbackItems(feedback) ==
    LET Usable(e) == e.status \in KnownStatuses /\ Scope(e) # ""
        Item(e) == [e EXCEPT !.scope = Scope(e), !.path = NormPath(@)]
        usable == SelectSeq(feedback, Usable)
    IN  [i \in DOMAIN usable |-> Item(usable[i])]

\* recommendation_target: a recommendation without a path goes by its title,
\* or by its scope.
RecommendationTarget(r) ==
    LET path == IF r.path # <<>> THEN r.path ELSE IF r.title # <<>> THEN r.title ELSE r.scope
    IN  [advice |-> r.advice, concern |-> "", kind |-> r.kind, path |-> NormPath(path),
         text |-> Joined(<< <<r.advice>>, <<r.kind>>, r.title, r.scope, r.why >>)]
ConcernTarget(c) ==
    [advice |-> "", concern |-> c.id, kind |-> c.kind, path |-> NormPath(c.path),
     text |-> Joined(<< <<c.id>>, <<c.kind>>, NormPath(c.path), c.symbol >>)]

\* The path of an entry may be anywhere in the texts of the target, and so may
\* its kind.
EntryPathMatches(path, t) == path # <<>> /\ (t.path = path \/ HasPart(Joined(<<t.path, t.text>>), path))
KindMatches(kind, t) == kind = "" \/ kind = t.kind \/ HasPart(t.text, <<kind>>)

Applies(item, t) ==
    CASE item.scope = "exact_advice" -> \/ item.advice # "" /\ item.advice = t.advice
                                        \/ item.concern # "" /\ item.concern = t.concern
      [] item.scope = "same_path_kind" -> EntryPathMatches(item.path, t) /\ KindMatches(item.kind, t)
      [] item.scope = "pattern" -> HasPart(t.text, item.pattern) /\ KindMatches(item.kind, t)

\* Mutant: the first entry about the target decides, whatever its status.
DemotingFirst(t, feedback) ==
    LET about == SelectSeq(FeedbackItems(feedback), LAMBDA i : Applies(i, t))
    IN  IF about # <<>> /\ about[1].status \in DemoteStatuses THEN <<about[1]>> ELSE <<>>

\* demoting_feedback_for_target: the first entry that demotes it, if any.
Demoting(t, feedback) ==
    First(1, SelectSeq(FeedbackItems(feedback), LAMBDA i : i.status \in DemoteStatuses /\ Applies(i, t)))

\* apply_feedback_to_recommendations.
Kept(recommendations, feedback) ==
    IF FeedbackItems(feedback) = <<>> THEN recommendations
    ELSE SelectSeq(recommendations, LAMBDA r : Demoting(RecommendationTarget(r), feedback) = <<>>)

-----------------------------------------------------------------------------
(* The advice. *)

\* _evidence_value: of the first piece of evidence with the key.
EvidenceValue(c, key) ==
    LET of == SelectSeq(c.evidence, LAMBDA e : e.key = key)
    IN  IF of = <<>> THEN <<>> ELSE of[1].words

\* A reference of one of the roles, or else the one in the evidence.
ReferenceOf(c, roles, key) ==
    LET of == SelectSeq(c.references, LAMBDA r : r.role \in roles /\ r.path # <<>>)
    IN  IF of = <<>> THEN EvidenceValue(c, key) ELSE of[1].path

\* _has_legacy_compat_intent.
CompatIntent(c, reference) ==
    LET words == ToSet(c.path) \cup ToSet(c.symbol) \cup ToSet(reference)
                   \cup UNION {ToSet(c.evidence[i].words) : i \in DOMAIN c.evidence}
    IN  words \cap LegacyCompatTokens # {}

Advice(form, about, compat) == [form |-> form, about |-> about, compat |-> compat]

\* For the two kinds about two places, it matters whether the other is known.
DuplicationSuggestion(c) ==
    LET other == ReferenceOf(c, {"", "reference"}, "near_duplicate.reference")
    IN  IF other = <<>> THEN Advice("identify", <<>>, FALSE)
        ELSE Advice("compare", other, CompatIntent(c, other))
ShadowSuggestion(c) ==
    LET other == ReferenceOf(c, {"existing_implementation"}, "shadow_implementation.existing")
    IN  Advice(IF other = <<>> THEN "identify" ELSE "compare", other, FALSE)
ContractSuggestion(c) ==
    Advice("contract", EvidenceValue(c, "architecture_contract.rule_id"), FALSE)

\* _suggestion: the kind of the concern decides.
Suggestion(c) ==
    CASE c.kind = "duplication" -> DuplicationSuggestion(c)
      [] c.kind = "shadow_implementation" -> ShadowSuggestion(c)
      [] c.kind = "architecture_contract" /\ c.evidence # <<>> -> ContractSuggestion(c)
      [] OTHER -> Advice(IF c.evidence = <<>> THEN "insufficient" ELSE c.kind, <<>>, FALSE)

\* build_fix_advice: the concerns in focus that no feedback demotes.
InFocus(c, focus) ==
    /\ focus.file = <<>> \/ HasPart(c.path, focus.file)
    /\ focus.kind \in {"", c.kind}
    /\ focus.concern \in {"", c.id}
FixAdvice(concerns, focus, feedback) ==
    LET matching == SelectSeq(concerns, LAMBDA c : InFocus(c, focus))
        shown == SelectSeq(matching, LAMBDA c : Demoting(ConcernTarget(c), feedback) = <<>>)
    IN  [suggestions |-> [i \in DOMAIN shown |-> Suggestion(shown[i])],
         source |-> Len(matching), demoted |-> Len(matching) - Len(shown)]

\* Mutant: the facts of the risk context come first.
WrittenFactsFirst(c, facts) ==
    [c EXCEPT !.evidence = First(EvidenceLimit, facts \o @), !.references = First(ReferencesLimit, @)]

\* A concern as the review writes it: the facts of the risk context are added,
\* and the lists are cut.
Written(c, facts) ==
    [c EXCEPT !.evidence = First(EvidenceLimit, @ \o facts), !.references = First(ReferencesLimit, @)]

-----------------------------------------------------------------------------
(* Properties. *)

\* More feedback never brings back advice that some of it demotes: an entry
\* that accepts advice has no say against one that rejects it.
FeedbackMonotone(concerns, focus, feedback, entry) ==
    LET before == FixAdvice(concerns, focus, feedback)
    IN  \A more \in {Append(feedback, entry), <<entry>> \o feedback} :
           LET after == FixAdvice(concerns, focus, more)
           IN  after.demoted >= before.demoted /\ ToSet(after.suggestions) \subseteq ToSet(before.suggestions)

\* A rejection of a concern's own path and kind demotes it, however the path is
\* written, and in whatever company.
ListedAdviceDemoted(concerns, feedback) ==
    \A i \in DOMAIN concerns : \A path \in {concerns[i].path, <<".">> \o concerns[i].path} :
       LET c == concerns[i]
           entry == [status |-> "rejected", scope |-> "", advice |-> "", concern |-> "",
                     kind |-> c.kind, path |-> path, pattern |-> <<>>]
       IN  c.path # <<>> => Demoting(ConcernTarget(c), Append(feedback, entry)) # <<>>

\* The other place of a duplicate or a shadow, and the rule of a contract, is
\* in the advice, however much of the risk context the review adds.
AdviceNamesTheCause(c, facts) ==
    LET advice == Suggestion(Written(c, facts))
    IN  c.kind \in {"duplication", "shadow_implementation", "architecture_contract"} =>
          /\ advice.about = Suggestion(c).about /\ advice.about # <<>>
          /\ Suggestion(c).compat => advice.compat

\* An entry for a path and a kind demotes no concern of another path or kind.
FeedbackScope(c, feedback) ==
    LET by == Demoting(ConcernTarget(c), feedback)
    IN  by # <<>> /\ by[1].scope = "same_path_kind" =>
          by[1].path = NormPath(c.path) /\ by[1].kind \in {"", c.kind}
=============================================================================

--------------------------- MODULE NearDuplicate ---------------------------
(***************************************************************************)
(* The near-duplicate scan of architec/code_review/near_duplicate.py: the  *)
(* functions of a Python tree are grouped by the fingerprint of their      *)
(* normalized AST, and a group yields concerns or discovery candidates.    *)
(*                                                                         *)
(* A file is [path, dirs, parses, functions].  A function is [path, line,  *)
(* parent, leaf, size, ast, body]: parent is the tokens of the enclosing   *)
(* class or function and leaf those of its name, ast the nodes of its      *)
(* definition and body its statements.  A token is [w, n, kind]: a word w, *)
(* a number n ("" for none) and the pattern of _variant_family_key that it *)
(* matches.  Paths are numbers, in the order of the strings they stand for.*)
(***************************************************************************)
EXTENDS Integers, Sequences, Selections

CONSTANTS
    Stripped(_),   \* the path without the dots and slashes it begins with
    ScanLimit      \* how many concerns a scan returns, 20 in the code

SkipDirs == {"tests", "vendor", ".venv"}
MinNodes == 25
PairedNames == {{"and", "or"}, {"dev", "post"}}
PairedTokens == {{"decimal", "thousands"}, {"dev", "post"}}
MemberVariants == {"base", "lower", "upper", "source", "wheel"}
VersionSegments == {"major", "minor", "micro"}

-----------------------------------------------------------------------------
(* Fingerprints. *)

\* Names lose their text and a constant keeps its class; a node the
\* transformer does not visit (a keyword, an import alias) keeps its value.
Normalized(ast) ==
    LET Text(node) == CASE node.k \in {"name", "arg", "attr", "def"} -> "_"
                        [] node.k = "number" -> "0"
                        [] node.k = "text" -> "_str"
                        [] OTHER -> node.v
    IN  [i \in DOMAIN ast |-> [k |-> ast[i].k, v |-> Text(ast[i])]]

Fingerprint(f) == Normalized(f.ast)

\* The call a thin wrapper ends in; "" when the function is not one.  body is
\* [control, nested, doc, stmts]; a statement is [simple, ends, call].
ThinCall(f) ==
    LET last == f.body.stmts[Len(f.body.stmts)]
    IN  IF \/ f.body.control \/ f.body.nested
           \/ Len(f.body.stmts) \notin 1..4
           \/ \E i \in DOMAIN f.body.stmts : ~f.body.stmts[i].simple
           \/ ~last.ends \/ last.call = "super"
        THEN "" ELSE last.call

\* _iter_python_files and _collect_functions: a file that does not parse has
\* no candidates.
Candidates(tree) ==
    UNION {{f \in file.functions : f.size >= MinNodes} :
             file \in {x \in tree : x.parses /\ (x.dirs \cap SkipDirs) = {}}}

\* _candidate_key orders by path, then line.
Before(f, g) == f.path < g.path \/ (f.path = g.path /\ f.line < g.line)
InOrder(fs) == Sorted(fs, Before)

-----------------------------------------------------------------------------
(* Families of variants. *)

Text(t) == <<t.w, t.n>>
Base(t) == <<t.w, "">>
Texts(tokens) == [i \in DOMAIN tokens |-> Text(tokens[i])]

\* _member_variant_family_key: members of classes named as variants of one
\* another; <<>> stands for no key.
MemberFamily(f) ==
    LET Kept(t) == ~(t.n = "" /\ t.w \in MemberVariants)
        family == Texts(SelectSeq(f.parent, Kept))
    IN  IF family = <<>> \/ f.leaf = <<>> THEN <<>>
        ELSE IF Len(f.leaf) = 1 /\ f.leaf[1].w \in VersionSegments
        THEN family \o << <<"version", "">>, <<"segment", "">> >>
        ELSE family \o Texts(f.leaf)

\* _variant_family_key: numbers go, and words lose the number that ends them.
NumberFamily(f) ==
    LET NoNumber(t) == t.kind # "number"
        Stem(t) == IF t.kind = "word" THEN Text(t) ELSE Base(t)
        kept == SelectSeq(f.leaf, NoNumber)
    IN  IF Len(kept) >= 2 /\ \E i \in DOMAIN f.leaf : f.leaf[i].kind # "word"
        THEN [i \in DOMAIN kept |-> Stem(kept[i])] ELSE <<>>

FamilyKey(f) == IF MemberFamily(f) # <<>> THEN MemberFamily(f) ELSE NumberFamily(f)

\* _variant_family_groups.
FamilyOf(f, group) ==
    {g \in group : g.path = f.path /\ FamilyKey(g) = FamilyKey(f)}
Families(group) ==
    {FamilyOf(f, group) : f \in {x \in group : /\ FamilyKey(x) # <<>>
                                               /\ Cardinality(FamilyOf(x, group)) >= 2}}

\* Mutant: the file of a family is forgotten.
SameFamilyAnywhere(f, g, families) ==
    FamilyKey(f) = FamilyKey(g) /\ FamilyKey(f) # <<>>

\* _same_variant_family, with the keys of the families as they were grouped.
SameFamily(f, g, families) == \E m \in families : {f, g} \subseteq m

-----------------------------------------------------------------------------
(* Pairs that are not reported as duplicates. *)

ThinPair(f, g) ==
    ThinCall(f) # "" /\ ThinCall(g) # "" /\ ThinCall(f) # ThinCall(g)

\* _is_paired_api_variant_pair.
PairedApi(f, g) ==
    LET differ == {i \in DOMAIN f.leaf : Text(f.leaf[i]) # Text(g.leaf[i])}
    IN  /\ f.path = g.path /\ f.parent = g.parent
        /\ Len(f.leaf) = Len(g.leaf)
        /\ Cardinality(differ) = 1
        /\ LET i == CHOOSE j \in differ : TRUE
               pair == {f.leaf[i].w, g.leaf[i].w}
           IN  pair \in (IF Len(f.leaf) = 1 THEN PairedNames ELSE PairedTokens)

\* _variant_family_representative_pair: the first pair that is not thin.
Representatives(members) ==
    LET s == InOrder(members)
        ok == {p \in (1..Len(s)) \X (1..Len(s)) :
                 p[1] # p[2] /\ ~ThinPair(s[p[2]], s[p[1]])}
        first == CHOOSE p \in ok : \A q \in ok :
                   p[1] < q[1] \/ (p[1] = q[1] /\ p[2] <= q[2])
    IN  IF ok = {} THEN <<>> ELSE <<s[first[1]], s[first[2]]>>

\* _reference_for_scoped_candidate.
FirstOther(f, s) == s[CHOOSE i \in DOMAIN s : s[i] # f /\ \A j \in 1..(i - 1) : s[j] = f]

-----------------------------------------------------------------------------
(* The scan.  A scope is [full, paths]: everything, or the changed paths. *)

Everything == [full |-> TRUE, paths |-> {}]

\* _normalized_changed_files: a changed file in a dot-directory gets the name
\* of a file that may not exist, or of another one.
Named(scope) == {Stripped(p) : p \in scope.paths}
InScope(path, scope) == scope.full \/ path \in Named(scope)

\* The functions of a group that the loop goes over.
Looked(group, scope) ==
    {f \in group : IF scope.full THEN f # InOrder(group)[1] ELSE f.path \in Named(scope)}

Concern(f, ref, about) == [at |-> f, ref |-> ref, about |-> about]
Offer(reason, f, ref) == [reason |-> reason, at |-> f, ref |-> ref]

FamilyResult(members) ==
    LET pair == Representatives(members)
    IN  IF pair = <<>>
        THEN Offer("variant_family_thin_wrapper_different_target",
                   InOrder(members)[1], InOrder(members)[2])
        ELSE Concern(pair[2], pair[1], members)

Reported(families) == UNION {m \in families : Representatives(m) # <<>>}

\* The loop over the candidates of one group.
PairResult(f, ref) ==
    IF PairedApi(f, ref) THEN Offer("paired_api_variant", f, ref)
    ELSE IF ThinPair(f, ref) THEN Offer("thin_wrapper_different_target", f, ref)
    ELSE Concern(f, ref, {f, ref})

GroupResults(group, scope) ==
    LET s == InOrder(group)
        families == Families(group)
        scoped == {m \in families : \A f \in m : InScope(f.path, scope)}
        Ref(f) == IF scope.full THEN s[1] ELSE FirstOther(f, s)
    IN  {FamilyResult(m) : m \in scoped} \cup
        {PairResult(f, Ref(f)) : f \in {x \in Looked(group, scope) :
            ~SameFamily(x, Ref(x), families) /\ x \notin Reported(scoped)}}

Groups(tree) ==
    LET all == Candidates(tree)
    IN  {g \in {{x \in all : Fingerprint(x) = Fingerprint(f)} : f \in all} :
           Cardinality(g) >= 2}

\* Everything the scan finds, before the limits on how much is shown.
Scan(tree, scope) == UNION {GroupResults(g, scope) : g \in Groups(tree)}

IsConcern(r) == "about" \in DOMAIN r
Concerns(tree, scope) == {r \in Scan(tree, scope) : IsConcern(r)}

\* concerns[:limit]: what a scan may return of them.  The groups come in the
\* order of their hashes, which is none that a caller could know.
Shown(tree, scope) ==
    {S \in SUBSET Concerns(tree, scope) :
        /\ Cardinality(S) <= ScanLimit
        /\ S # Concerns(tree, scope) => Cardinality(S) = ScanLimit}

\* Discovery candidates are counted once for a pair, whichever comes first.
PairKey(r) == <<r.reason, {r.at, r.ref}>>
OfferKeys(tree, scope) == {PairKey(r) : r \in {x \in Scan(tree, scope) : ~IsConcern(x)}}

\* candidate_total_before_scope: the members of the groups but the first.
CandidateTotal(tree) ==
    Cardinality(UNION Groups(tree)) - Cardinality(Groups(tree))

-----------------------------------------------------------------------------
(* Properties of one run over a tree and a scope. *)

\* A group of duplicates that the scope names is left out only by the limit: the
\* exceptions for families, thin wrappers and paired names each return it as a
\* concern or count it as a discovery candidate, unless as many concerns are
\* returned as may be.
GroupsAreReported(tree, scope) ==
    \A shown \in Shown(tree, scope), g \in Groups(tree) :
       (\E f \in g : InScope(f.path, scope)) =>
          \/ \E r \in GroupResults(g, scope) : r \in shown \/ ~IsConcern(r)
          \/ Cardinality(shown) = ScanLimit

\* What a run over changed files finds lies in a file named as a changed one is
\* without its leading dots, and its reference is another function with the same
\* fingerprint.
FindingsAreOfTheScope(tree, scope) ==
    \A r \in Scan(tree, scope) :
       /\ InScope(r.at.path, scope)
       /\ r.at # r.ref /\ Fingerprint(r.at) = Fingerprint(r.ref)

\* A function that a full run finds inside a family, or as the duplicate of
\* another, is not found a second time on its own.
NoMemberReportedTwice(tree) ==
    \A r, q \in Concerns(tree, Everything) : q.at \in r.about => r = q
=============================================================================

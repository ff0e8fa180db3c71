------------------------ MODULE ShadowImplementation ------------------------
(***************************************************************************)
(* The shadow-implementation scan of                                       *)
(* architec/code_review/shadow_implementation.py: two functions or classes *)
(* of different files that do the same job in a similar way and do not use *)
(* each other; and its dry run over whole modules.                         *)
(*                                                                         *)
(* A file is [path, stem, stemWords, words, dirs, parses, size, ast, refs, *)
(* imports, definitions]; words are the tokens of its path and refs the    *)
(* names, attributes and calls in it.  A definition is [kind, line, name,  *)
(* words, nested, public, size, ast, args, refs, members].  An argument is *)
(* [words, kind], a member [words, init, dunder, args].  Similarities are  *)
(* compared as fractions, exactly.                                         *)
(***************************************************************************)
EXTENDS Integers, Sequences, FiniteSets, FiniteSetsExt

CONSTANTS Stripped(_), ScanLimit   \* of NearDuplicate

ND == INSTANCE NearDuplicate

Alias == [parse |-> "parser", map |-> "mapper", score |-> "scoring"]
Roles == {"component", "mapper", "parser", "scoring", "status"}
Stopwords == {"get", "the", "utils"}
AdapterWords == {"adapter", "wrapper"}
SplitWords == {"helper", "runtime", "view"}
RenderWords == {"render", "renderer"}
AssemblyWords == {"assemble", "context"}
Visual == {"color", "badge"}
Migration == {"migration", "schema"}
RuntimeParser == {"cli", "stream"}
LocalParser == {"local"}
GrammarParser == {"grammar"}
VersionParser == {"version"}

Everything == ND!Everything

-----------------------------------------------------------------------------
(* Similarity. *)

\* Two fractions over a common measure: a/b is at least x/y.
AtLeast(a, b, x, y) == a * y >= x * b

\* _jaccard as <<numerator, denominator>>.
Jaccard(S, T) ==
    IF S = {} /\ T = {} THEN <<1, 1>>
    ELSE <<Cardinality(S \cap T), Cardinality(S \cup T)>>

\* _feature_vector counts the kinds of nodes.  The product of two such vectors
\* is the number of pairs of nodes of the same kind; the square of _cosine.
Dot(a, b) == Cardinality({p \in (DOMAIN a) \X (DOMAIN b) : a[p[1]].k = b[p[2]].k})
CosineSquare(left, right) ==
    IF left = <<>> \/ right = <<>> THEN <<0, 1>>
    ELSE <<Dot(left, right) * Dot(left, right), Dot(left, left) * Dot(right, right)>>

\* Closeness of two counts: 1 - |a - b| / max(a, b, 1).
Closeness(a, b) ==
    LET largest == Max({a, b, 1})
    IN  <<largest - (Max({a, b}) - Min({a, b})), largest>>

\* A weighted sum of fractions: weights out of 100.
Weighted(u, p, v, q) == <<u * p[1] * q[2] + v * q[1] * p[2], 100 * p[2] * q[2]>>

Percent(p) == (100 * p[1]) \div p[2]
RootPercent(p) == CHOOSE c \in 0..100 : /\ c * c * p[2] <= 10000 * p[1]
                                        /\ (c + 1) * (c + 1) * p[2] > 10000 * p[1]

-----------------------------------------------------------------------------
(* Candidates. *)

Meaningful(words) == words \ Stopwords
RoleTokens(words) ==
    {IF w \in DOMAIN Alias THEN Alias[w] ELSE w : w \in words} \cap Roles

\* _signature_tokens.
Counted(args) == {i \in DOMAIN args : args[i].kind # "self"}
SignatureTokens(args) ==
    UNION {IF args[i].kind \in {"vararg", "kwarg"} THEN {args[i].kind}
           ELSE Meaningful(args[i].words) : i \in Counted(args)}

\* _class_members: special methods other than the initializer do not count.
Members(d, kinds) == {i \in DOMAIN d.members : d.members[i].kind \in kinds}
Methods(d) == Members(d, {"method", "init"})
ApiTokens(d) == UNION {Meaningful(d.members[i].words) : i \in Methods(d)}
MemberTokens(d) ==
    UNION {Meaningful(d.members[i].words) : i \in Methods(d) \cup Members(d, {"attribute"})}
      \cup UNION {SignatureTokens(d.members[i].args) : i \in Methods(d)}
Initializer(d) ==
    LET inits == Members(d, {"init"})
    IN  IF inits = {} THEN <<>> ELSE d.members[Max(inits)].args
Signature(d) == IF d.kind = "class" THEN Initializer(d) ELSE d.args

\* Names of classes are normalized here, and not by the near-duplicate scan.
Fingerprint(ast) ==
    LET n == ND!Normalized(ast)
    IN  [i \in DOMAIN n |-> IF n[i].k = "class" THEN [n[i] EXCEPT !.v = "_"] ELSE n[i]]

\* A definition with its file; path words count for its role.
AllWords(c) == Meaningful(c.d.words \cup c.file.words)
CandidateRoles(c) == RoleTokens(AllWords(c))

IsCandidate(c) ==
    /\ ~c.d.nested
    /\ c.d.size >= (IF c.d.kind = "class" THEN 90 ELSE 45)
    /\ (AllWords(c) \cap AdapterWords) = {}
    /\ CandidateRoles(c) # {}
    /\ c.d.kind = "class" => Cardinality(Methods(c.d)) >= 2

ScannedFiles(tree) == {f \in tree : (f.dirs \cap ND!SkipDirs) = {}}
Candidates(tree) ==
    {c \in UNION {{[file |-> f, d |-> x] : x \in f.definitions} :
                    f \in {g \in ScannedFiles(tree) : g.parses}} : IsCandidate(c)}

-----------------------------------------------------------------------------
(* Pairs. *)

\* _has_intentional_split_role_pair.
Pure(c, plus, minus) == (AllWords(c) \cap plus) # {} /\ (AllWords(c) \cap minus) = {}
IntentionalSplit(l, r) ==
    \/ Pure(l, RenderWords, AssemblyWords) /\ Pure(r, AssemblyWords, RenderWords)
    \/ Pure(r, RenderWords, AssemblyWords) /\ Pure(l, AssemblyWords, RenderWords)

Has(c, words) == ((c.d.words \cup c.file.words) \cap words) # {}

MapperSubdomain(c) ==
    IF "mapper" \notin CandidateRoles(c) \/ (Has(c, Visual) <=> Has(c, Migration)) THEN ""
    ELSE IF Has(c, Visual) THEN "visual" ELSE "migration"

ParserSubdomain(c) ==
    LET runtime == Has(c, RuntimeParser)
        local == Has(c, LocalParser)
        grammar == Has(c, GrammarParser)
    IN  IF "parser" \notin CandidateRoles(c) \/ (runtime /\ (local \/ grammar)) \/ (local /\ grammar)
        THEN ""
        ELSE IF runtime THEN "runtime"
        ELSE IF local THEN "local_version"
        ELSE IF grammar \/ Has(c, VersionParser) THEN "version_grammar" ELSE ""

SubdomainSplit(l, r) ==
    \/ {MapperSubdomain(l), MapperSubdomain(r)} = {"visual", "migration"}
    \/ /\ ParserSubdomain(l) # "" /\ ParserSubdomain(r) # ""
       /\ ParserSubdomain(l) # ParserSubdomain(r)

\* _has_reuse_edge: l mentions the name of r or the module it is in.
ReuseEdge(l, r) == ({r.d.name, r.file.stem} \cap (l.d.refs \cup l.file.imports)) # {}

NameOverlap(l, r) == Jaccard(Meaningful(l.d.words), Meaningful(r.d.words))
SignatureSimilarity(l, r) ==
    LET a == Signature(l.d)
        b == Signature(r.d)
    IN  Weighted(60, Closeness(Cardinality(Counted(a)), Cardinality(Counted(b))),
                 40, Jaccard(SignatureTokens(a), SignatureTokens(b)))
ClassSimilarity(l, r) ==
    LET sets == Weighted(45, Jaccard(ApiTokens(l.d), ApiTokens(r.d)),
                         35, Jaccard(MemberTokens(l.d), MemberTokens(r.d)))
    IN  Weighted(100, sets, 20, Closeness(Cardinality(Methods(l.d)), Cardinality(Methods(r.d))))
Similarity(l, r) == IF l.d.kind = "class" THEN ClassSimilarity(l, r) ELSE SignatureSimilarity(l, r)
AstSimilarity(l, r) == CosineSquare(l.d.ast, r.d.ast)

\* _shadow_match.  Its last test, of the confidence, never fails: Confidence
\* starts from the least one that is accepted.
ShadowMatch(l, r) ==
    /\ l.file.path # r.file.path /\ l.d.kind = r.d.kind
    /\ Fingerprint(l.d.ast) # Fingerprint(r.d.ast)
    /\ (CandidateRoles(l) \cap CandidateRoles(r)) # {}
    /\ ~IntentionalSplit(l, r) /\ ~SubdomainSplit(l, r)
    /\ AtLeast(NameOverlap(l, r)[1], NameOverlap(l, r)[2], 45, 100)
    /\ AtLeast(Similarity(l, r)[1], Similarity(l, r)[2], 60, 100)
    /\ AtLeast(AstSimilarity(l, r)[1], AstSimilarity(l, r)[2], 1681, 2500)
    /\ ~ReuseEdge(l, r) /\ ~ReuseEdge(r, l)

\* _confidence and _class_confidence, to the percent.
Confidence(l, r) ==
    LET ast == Max({0, RootPercent(AstSimilarity(l, r)) - 82})
        api == Max({0, Percent(Similarity(l, r)) - 60})
        name == Max({0, Percent(NameOverlap(l, r)) - 45})
    IN  IF l.d.kind = "class" THEN Min({97, 78 + (40 * ast + 25 * api + 20 * name) \div 100})
        ELSE Min({97, 78 + (45 * ast + 20 * api + 20 * name) \div 100})

-----------------------------------------------------------------------------
(* The scan. *)

Key(c) == <<c.file.path, c.d.line>>
Before(l, r) == Key(l)[1] < Key(r)[1] \/ (Key(l)[1] = Key(r)[1] /\ Key(l)[2] < Key(r)[2])
ChangedBy(c, scope) == ~scope.full /\ c.file.path \in ND!Named(scope)

\* Mutant: the one that sorts last is the duplicate, changed or not.
ConcernLast(l, r, scope) ==
    [at |-> Key(r), ref |-> Key(l), kind |-> l.d.kind, confidence |-> Confidence(l, r)]

\* _changed_primary and _build_concern: the changed one of the two is the
\* duplicate; when both are, or none has to be, the one that sorts last.
Concern(l, r, scope) ==
    LET dup == IF ChangedBy(l, scope) /\ ~ChangedBy(r, scope) THEN l
               ELSE IF ChangedBy(r, scope) /\ ~ChangedBy(l, scope) THEN r
               ELSE IF Before(l, r) THEN r ELSE l
    IN  [at |-> Key(dup), ref |-> Key(IF dup = l THEN r ELSE l), kind |-> l.d.kind,
         confidence |-> Confidence(l, r)]

\* combinations() of the sorted candidates: each pair once, the first first.
Matches(tree) ==
    LET all == Candidates(tree)
    IN  {p \in all \X all : Before(p[1], p[2]) /\ ShadowMatch(p[1], p[2])}

Concerns(tree, scope) ==
    {Concern(p[1], p[2], scope) :
        p \in {q \in Matches(tree) : \/ scope.full
                                     \/ ChangedBy(q[1], scope) \/ ChangedBy(q[2], scope)}}

\* The order of the concerns; what is equal is ordered by its hash.
Ahead(c, d) ==
    c.confidence > d.confidence \/ (c.confidence = d.confidence /\ c.at[1] < d.at[1])

\* sorted(...)[:limit]: what a scan may return of them.
Shown(tree, scope) ==
    LET all == Concerns(tree, scope)
    IN  {S \in SUBSET all : /\ Cardinality(S) <= ScanLimit
                            /\ S # all => Cardinality(S) = ScanLimit
                            /\ \A c \in S, d \in all \ S : ~Ahead(d, c)}

-----------------------------------------------------------------------------
(* The dry run over modules. *)

Publics(f) == {d \in f.definitions : d.public /\ ~d.nested}
PublicApi(f) == UNION {Meaningful(d.words) : d \in Publics(f)}
Shape(f) == UNION {{<<d.kind, w>> : w \in Meaningful(d.words)} \cup {<<d.kind, "">>} : d \in Publics(f)}
ModuleWords(f) == Meaningful(f.words) \cup PublicApi(f)

\* _module_candidate: why a module is no candidate, "" when it is one.
Excluded(f) ==
    IF ~f.parses THEN "parse_error"
    ELSE IF f.size < 220 /\ Cardinality(Publics(f)) < 5 THEN "too_small"
    ELSE IF (ModuleWords(f) \cap AdapterWords) # {} THEN "adapter_like"
    ELSE IF (ModuleWords(f) \cap SplitWords) # {} THEN "split_module_name"
    ELSE IF RoleTokens(ModuleWords(f)) = {} THEN "no_role" ELSE ""

ModuleReuse(f, g) == (({g.stem} \cup g.stemWords) \cap (f.imports \cup f.refs)) # {}

\* _module_pair_summary.
ModulePair(f, g) ==
    LET shape == Weighted(70, Jaccard(Shape(f), Shape(g)),
                          30, Closeness(Cardinality(Publics(f)), Cardinality(Publics(g))))
        api == Jaccard(PublicApi(f), PublicApi(g))
        ast == CosineSquare(f.ast, g.ast)
        imports == Jaccard(f.imports, g.imports)
    IN  /\ (RoleTokens(ModuleWords(f)) \cap RoleTokens(ModuleWords(g))) # {}
        /\ AtLeast(api[1], api[2], 55, 100) /\ AtLeast(shape[1], shape[2], 65, 100)
        /\ AtLeast(ast[1], ast[2], 484, 625) /\ AtLeast(imports[1], imports[2], 45, 100)
        /\ ~ModuleReuse(f, g) /\ ~ModuleReuse(g, f)

DryRun(tree) ==
    LET modules == {f \in ScannedFiles(tree) : Excluded(f) = ""}
    IN  [candidates |-> modules,
         pairs |-> {p \in modules \X modules : p[1].path < p[2].path /\ ModulePair(p[1], p[2])},
         excluded |-> [why \in {Excluded(f) : f \in ScannedFiles(tree) \ modules} |->
                         Cardinality({f \in ScannedFiles(tree) : Excluded(f) = why})]]

-----------------------------------------------------------------------------
(* The functions of the tree, as near_duplicate sees them. *)

Functions(f) ==
    {[path |-> f.path, line |-> d.line, parent |-> d.parent, leaf |-> d.leaf, size |-> d.size,
      ast |-> d.ast, body |-> d.body] : d \in {e \in f.definitions : e.kind = "function"}}
FunctionTree(tree) ==
    {[path |-> f.path, dirs |-> f.dirs, parses |-> f.parses, functions |-> Functions(f)] : f \in tree}

-----------------------------------------------------------------------------
(* Properties of one run over a tree and a scope. *)

Pair(c) == {c.at, c.ref}

Seen(c) == <<Pair(c), c.confidence>>
Touched(tree, scope) ==
    {c \in Concerns(tree, Everything) : \E k \in Pair(c) : k[1] \in ND!Named(scope)}

\* Changed files select and orient: a run over them finds exactly the pairs of
\* the full run that they name, each located in a file so named, with the same
\* confidence.
ScopeSelectsPairs(tree, scope) ==
    LET scoped == Concerns(tree, scope)
    IN  ~scope.full =>
          /\ \A c \in scoped : c.at[1] \in ND!Named(scope)
          /\ {Seen(c) : c \in scoped} = {Seen(c) : c \in Touched(tree, scope)}

\* Of these pairs one is left out only for as many others as may be returned,
\* none of them less certain.
OnlyTheLimitLeavesOut(tree, scope) ==
    ~scope.full =>
       \A shown \in Shown(tree, scope), d \in Touched(tree, scope) :
          \/ \E c \in shown : Seen(c) = Seen(d)
          \/ Cardinality(shown) = ScanLimit /\ \A c \in shown : ~(d.confidence > c.confidence)

\* Whether two implementations, or two modules, shadow each other does not
\* depend on which of them sorts first: every test of a match is symmetric.
MatchIsSymmetric(tree) ==
    /\ \A l, r \in Candidates(tree) : ShadowMatch(l, r) <=> ShadowMatch(r, l)
    /\ \A f, g \in DryRun(tree).candidates : ModulePair(f, g) <=> ModulePair(g, f)
=============================================================================

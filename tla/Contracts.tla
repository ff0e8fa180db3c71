----------------------------- MODULE Contracts -----------------------------
(***************************************************************************)
(* The rules of a repository, .architecture-rules.toml, as they are read   *)
(* by architec/support/architecture_rules.py, the architecture contract    *)
(* scan of architec/code_review/architecture_contracts.py over them, and   *)
(* the owner and expiry they give to cleanup candidates.                   *)
(*                                                                         *)
(* The file has a shared section and one of the tool.  A section is        *)
(* [paths, globs, extensions, metadata, contracts]; a contract is [id,     *)
(* source, imports], id 0 for none, and an entry of metadata is [path,     *)
(* glob, kind, owner, expires], with <<>>, "" and 0 for what it leaves     *)
(* out.  Paths, modules and files are those of PlanDiff; a statement also  *)
(* has its line, and a file its extension.  What is found is the total     *)
(* before the limit of twenty concerns.                                    *)
(***************************************************************************)
EXTENDS Integers, SequencesExt, Selections

CONSTANT ClassOf

LOCAL PD == INSTANCE PlanDiff

-----------------------------------------------------------------------------
(* The rules. *)

\* _architecture_contract_rules: an entry without an id is numbered by its
\* place, in the section it is in.
ContractRules(raw) ==
    LET Complete(i) == raw[i].source # <<>> /\ raw[i].imports # {}
        Numbered(i) == [raw[i] EXCEPT !.id = IF @ = 0 THEN -i ELSE @]
    IN  Picked([i \in DOMAIN raw |-> Numbered(i)], {i \in DOMAIN raw : Complete(i)})

\* _cleanup_metadata_rules: an entry for no path, or that says nothing, is none.
MetadataRules(raw) ==
    LET Says(r) == (r.path # <<>> \/ r.glob # <<>>) /\ (r.owner # "" \/ r.expires # 0)
    IN  Picked(raw, {i \in DOMAIN raw : Says(raw[i])})

SectionRules(raw) ==
    [raw EXCEPT !.metadata = MetadataRules(@), !.contracts = ContractRules(@)]

\* Mutant: the tool's contract replaces the shared one of the same id.
MergeById(base, override) ==
    LET Kept(r) == \A i \in DOMAIN override.contracts : override.contracts[i].id # r.id
    IN  [paths |-> base.paths \cup override.paths, globs |-> base.globs \cup override.globs,
         extensions |-> base.extensions \cup override.extensions,
         metadata |-> base.metadata \o override.metadata,
         contracts |-> SelectSeq(base.contracts, Kept) \o override.contracts]

\* _merge_rule_sections.
MergeSections(base, override) ==
    [paths |-> base.paths \cup override.paths, globs |-> base.globs \cup override.globs,
     extensions |-> base.extensions \cup override.extensions,
     metadata |-> base.metadata \o override.metadata,
     contracts |-> base.contracts \o override.contracts]

Rules(shared, own) == MergeSections(SectionRules(shared), SectionRules(own))

GlobMatches(path, glob) == PD!FnMatch(path, glob) \/ PD!TailMatch(path, glob)

\* path_is_ignored.
Ignored(path, extension, rules) ==
    \/ extension \in rules.extensions
    \/ \E p \in rules.paths : IsPrefix(p, path)
    \/ \E g \in rules.globs : GlobMatches(path, g)

-----------------------------------------------------------------------------
(* The contract scan. *)

\* A source that is no glob matches the end of a path as well as its start.
SourceMatches(path, source) == GlobMatches(path, source) \/ IsPrefix(source, path)

\* What an import of a file breaches of a contract: of the records of one line
\* that the same pattern of the same rule id matches, the first is reported.
Breaches(f, s, r) ==
    LET records == PD!ImportRecords([f EXCEPT !.statements = {s}])
        patterns == {p \in r.imports : \E m \in records : PD!ModuleMatches(m, p)}
    IN  {[path |-> f.path, line |-> s.line, rule |-> r.id, pattern |-> p] : p \in patterns}

FileConcerns(f, contracts) ==
    LET about == {i \in DOMAIN contracts : SourceMatches(f.path, contracts[i].source)}
    IN  UNION {Breaches(f, s, contracts[i]) : s \in f.statements, i \in about}

\* What is looked at: a Python file that exists and no rule ignores.
Checked(f, rules) == f.extension = "py" /\ f.kind # "deleted" /\ ~Ignored(f.path, f.extension, rules)

Concerns(changed, rules) ==
    UNION {FileConcerns(f, rules.contracts) : f \in {g \in changed : Checked(g, rules) /\ g.kind # "unreadable"}}

-----------------------------------------------------------------------------
(* The metadata of a cleanup candidate. *)

\* One rule over the ones before it.  A date without a time is its first
\* moment: fromisoformat of datetime reads it, and the date branch is never
\* reached.
Layered(r, m, now) ==
    [owner |-> IF r.owner # "" THEN r.owner ELSE m.owner,
     expires |-> IF r.expires # 0 THEN r.expires ELSE m.expires,
     expired |-> IF r.expires # 0 THEN r.expires < now ELSE m.expired]

MetadataMatches(r, path, kind) ==
    /\ r.kind \in {"", kind}
    /\ r.path # <<>> => IsPrefix(r.path, path)
    /\ r.glob # <<>> => GlobMatches(path, r.glob)

NoMetadata == [owner |-> "", expires |-> 0, expired |-> FALSE]
Metadata(path, kind, rules, now) ==
    LET Layer(m, r) == IF MetadataMatches(r, path, kind) THEN Layered(r, m, now) ELSE m
    IN  FoldLeft(Layer, NoMetadata, rules.metadata)

-----------------------------------------------------------------------------
(* Properties of the two sections. *)

\* A tool's own section hides no breach of a shared contract, whatever ids its
\* contracts have, unless it ignores the file.
SharedContractsStand(shared, own, changed) ==
    LET both == Rules(shared, own)
        ignored == {f.path : f \in {g \in changed : Ignored(g.path, g.extension, SectionRules(own))}}
    IN  \A c \in Concerns(changed, SectionRules(shared)) :
           c.path \in ignored \/ c \in Concerns(changed, both)

\* What the tool's own section says of a candidate replaces what the shared one
\* says, field by field, and whether it expired is told of the date it shows.
OwnMetadataDecides(shared, own, path, kind, now) ==
    LET both == Metadata(path, kind, Rules(shared, own), now)
        mine == Metadata(path, kind, SectionRules(own), now)
        theirs == Metadata(path, kind, SectionRules(shared), now)
    IN  /\ both.owner = IF mine.owner # "" THEN mine.owner ELSE theirs.owner
        /\ both.expires = IF mine.expires # 0 THEN mine.expires ELSE theirs.expires
        /\ both.expired = (both.expires # 0 /\ both.expires < now)
=============================================================================

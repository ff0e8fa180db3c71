----------------------------- MODULE LLMConfig -----------------------------
(***************************************************************************)
(* The LLM configuration of backend_llm/config.py: which candidates a task *)
(* may ask, from the packaged default file, the file of the project or     *)
(* else of the user over it, and the configuration of llmgateway under it; *)
(* the preflight of support/llm_preflight.py; and the calls that a command *)
(* makes after it.                                                         *)
(*                                                                         *)
(* A file is a function from paths, sequences of keys, to the values that  *)
(* are no dictionaries (or are empty ones); a file that cannot be read is  *)
(* the empty function.  Keys and texts are without surrounding white       *)
(* space, and a scalar where a text is asked for is its text.              *)
(***************************************************************************)
EXTENDS Integers, SequencesExt, Selections

Value(is, text, items) == [is |-> is, text |-> text, items |-> items]
Text(t) == Value("text", t, <<>>)
Env(name, default) == Value("env", name, <<default>>)    \* ${name:-default}, env:name
List(items) == Value("list", "", items)
Number == Value("number", "1", <<>>)
Null == Value("null", "", <<>>)
Empty == Value("empty", "", <<>>)                        \* the dictionary without a key

\* An item of a candidate list; one that is no dictionary has no model.
Item(provider, model, key) == [provider |-> provider, model |-> model, key |-> key]

-----------------------------------------------------------------------------
(* The merged file. *)

\* _merge_dicts: dictionaries are merged, anything else takes the place of what
\* was there.
Merge(base, override) ==
    LET Said(q) == override[q].is = "empty" => ~\E p \in DOMAIN base : IsStrictPrefix(q, p)
        said == {q \in DOMAIN override : Said(q)}
        kept == {p \in DOMAIN base : ~\E q \in said : IsPrefix(p, q) \/ IsPrefix(q, p)}
    IN  [p \in kept \cup said |-> IF p \in said THEN override[p] ELSE base[p]]

\* resolve_architect_llm_config_file: the user's file counts when the project
\* has none.
Chosen(files) == IF files.hasProject THEN files.project ELSE files.user
Raw(files) == Merge(files.default, Chosen(files))

Present(raw, path) == \E p \in DOMAIN raw : IsPrefix(path, p)
Names(raw, section) == {p[2] : p \in {q \in DOMAIN raw : Len(q) > 1 /\ q[1] = section}}
Plain(raw, path) == IF path \in DOMAIN raw /\ raw[path].is # "list" THEN raw[path].text ELSE ""

\* _resolve_env_value: a variable that is set, though to nothing, hides the default.
Resolved(raw, path, env) ==
    IF path \in DOMAIN raw /\ raw[path].is = "env"
    THEN IF raw[path].text \in DOMAIN env THEN env[raw[path].text] ELSE raw[path].items[1]
    ELSE Plain(raw, path)

-----------------------------------------------------------------------------
(* Providers and candidates. *)

\* _provider_dict, of the fields that the preflight looks at.
ProviderFields == {"api_key", "base_url", "api_style"}
NoProvider == [f \in ProviderFields |-> ""]
ProviderOf(raw, name, env) == [f \in ProviderFields |-> Resolved(raw, <<"providers", name, f>>, env)]

\* _providers_from_raw: that of llmgateway is there unless the file has its own.
Providers(raw, env, gateway) ==
    LET own == Names(raw, "providers")
        from == IF gateway.present THEN {"llmgateway"} ELSE {}
    IN  [n \in own \cup from |-> IF n \in own THEN ProviderOf(raw, n, env) ELSE gateway.provider]

Or(text, default) == IF text # "" THEN text ELSE default

Key(tier, provider, index) == <<tier, provider, index>>

\* _candidate_from_spec
Candidate(tier, index, item, providers) ==
    LET ref == Or(item.provider, IF "llmgateway" \in DOMAIN providers THEN "llmgateway" ELSE "")
        name == Or(ref, "llmgateway")
    IN  [key |-> IF item.key # "" THEN <<item.key>> ELSE Key(tier, name, index),
         provider |-> IF ref \in DOMAIN providers THEN providers[ref] ELSE NoProvider,
         model |-> item.model]

\* The specifications of a tier: its list, or the tier itself when there is
\* something else in the place of the list.  A tier without that place has none.
Specs(raw, tier) ==
    LET At(key) == <<"tiers", tier, key>>
        list == At("candidates")
    IN  IF list \in DOMAIN raw /\ raw[list].is = "list" THEN raw[list].items
        ELSE IF Present(raw, list) /\ \E key \in {"model", "reasoning_effort"} : Present(raw, At(key))
        THEN << Item(Plain(raw, At("provider")), Plain(raw, At("model")), Plain(raw, At("key"))) >>
        ELSE <<>>

TierCandidates(raw, tier, providers) ==
    LET specs == Specs(raw, tier)
        named == Picked([i \in DOMAIN specs |-> i], {i \in DOMAIN specs : specs[i].model # ""})
    IN  [k \in DOMAIN named |-> Candidate(tier, named[k] - 1, specs[named[k]], providers)]

GatewayCandidate(tier, gateway) ==
    [key |-> Key(tier, "llmgateway", 0), provider |-> gateway.provider, model |-> gateway.models[tier]]

\* _candidates_by_tier: the tiers of llmgateway only when the file has none.
CandidatesByTier(raw, env, gateway) ==
    LET providers == Providers(raw, env, gateway)
        own == {t \in Names(raw, "tiers") : TierCandidates(raw, t, providers) # <<>>}
        from == {t \in {"strong", "weak"} : gateway.present /\ gateway.models[t] # ""}
    IN  IF own # {} THEN [t \in own |-> TierCandidates(raw, t, providers)]
        ELSE [t \in from |-> <<GatewayCandidate(t, gateway)>>]

-----------------------------------------------------------------------------
(* Loading, and asking for the candidates of a task. *)

PolicyKeys == {"transport_failures_before_switch", "parse_failures_before_switch", "cooldown_sec"}

\* _parse_policy, which raises for what is no number.
BadPolicy(raw) ==
    \E k \in PolicyKeys : \E p \in DOMAIN raw :
        /\ IsPrefix(<<"failover", k>>, p)
        /\ raw[p].is \notin {"number", "null", "empty"}

\* load_tiered_llm_config: without candidates it answers None, before the
\* policy is read.
Load(files, env, gateway) ==
    LET raw == Raw(files)
        candidates == CandidatesByTier(raw, env, gateway)
    IN  [raw |-> raw, candidates |-> candidates,
         raises |-> DOMAIN candidates # {} /\ BadPolicy(raw)]

\* resolve_tier_candidates
Tier(config, call) == Or(Plain(config.raw, <<"tasks", call.task, "tier">>), call.tier)
Candidates(config, call) ==
    IF Tier(config, call) \in DOMAIN config.candidates THEN config.candidates[Tier(config, call)] ELSE <<>>

\* resolve_runtime_context_strict raises, or finds nothing to ask.
Unavailable(config, call) == config.raises \/ Candidates(config, call) = <<>>

\* _candidate_problems
Problem(candidate) ==
    \/ candidate.provider["api_key"] = ""
    \/ candidate.provider["api_style"] # "" /\ candidate.provider["base_url"] = ""

\* preflight_backend_llm; the checks of a command are never without a task.
Passes(config, checks) ==
    /\ ~config.raises
    /\ \A c \in checks :
          /\ Candidates(config, c) # <<>>
          /\ \A i \in DOMAIN Candidates(config, c) : ~Problem(Candidates(config, c)[i])

-----------------------------------------------------------------------------
(* The commands: what they check, and what the review then asks. *)

Call(task, tier) == [task |-> task, tier |-> tier]
Summary == Call("architec_summary", "strong")
History == Call("architect_history", "strong")
Topology == Call("architect_topology_review", "weak")
Judge == Call("architect_semantic_judge", "strong")
Scoring == Call("architect_component_scoring", "weak")

RequiredChecksStrong == {History, Summary}
RequiredChecks == {History, Summary, Call("architect_folder_naming", "weak"), Topology}
IncrementalChecks == {Summary}

Commands == {"check", "incremental", "full", "diff", "since"}
Checks(command) == IF command = "incremental" THEN IncrementalChecks ELSE RequiredChecks

\* run_analysis, and the summary that is all an incremental review asks for.
Calls(command) ==
    CASE command = "check" -> {}
      [] command = "incremental" -> {Summary}
      [] command = "full" -> {Summary, History, Topology, Judge}
      [] OTHER -> {Summary, History, Topology, Judge, Scoring}

\* The file of the package gives each of the tasks its tier.
Tasks == Calls("diff") \cup RequiredChecks
DefaultFile ==
    [p \in {<<"tasks", c.task, "tier">> : c \in Tasks} \cup {<<"failover", "cooldown_sec">>} |->
        IF p[1] = "tasks" THEN Text((CHOOSE c \in Tasks : c.task = p[2]).tier) ELSE Number]

-----------------------------------------------------------------------------
(* Properties. *)

SaysNothing(file, path) == ~\E p \in DOMAIN file : IsPrefix(p, path) \/ IsPrefix(path, p)
Untouched(files, call) == SaysNothing(Chosen(files), <<"tasks", call.task, "tier">>)

\* A command whose preflight passes finds candidates for every call that it
\* makes afterwards, all of them with credentials, and so does every review
\* after `archi --check`.  A task that is not checked is spared while the user
\* leaves its tier, and that of another task in this tier, as the package has it.
LeftInTier(files, call, calls) ==
    Untouched(files, call) /\ \E c \in calls \ {call} : c.tier = call.tier /\ Untouched(files, c)
PreflightCovers(files, config) ==
    \A command \in Commands : Passes(config, Checks(command)) =>
        LET calls == IF command = "check" THEN Calls("diff") ELSE Calls(command)
        IN  \A call \in calls : call \in Checks(command) \/ LeftInTier(files, call, calls) =>
                /\ ~Unavailable(config, call)
                /\ \A i \in DOMAIN Candidates(config, call) :
                      Candidates(config, call)[i].provider["api_key"] # ""

\* The health of a candidate is kept by its key: those that nobody gave a key
\* never share one, in a tier or across tiers.
KeysTellApart(config) ==
    \A t, u \in DOMAIN config.candidates :
        \A i \in DOMAIN config.candidates[t], j \in DOMAIN config.candidates[u] :
            LET key == config.candidates[t][i].key
            IN  key = config.candidates[u][j].key /\ Len(key) > 1 => t = u /\ i = j

\* What the user's file does not speak of is as the package has it, whatever
\* tier is asked for, also when the file speaks of a sibling.
DefaultsKept(files, config) ==
    \A call \in Calls("diff") :
        LET at == <<"tasks", call.task, "tier">>
        IN  at \in DOMAIN files.default /\ Untouched(files, call) =>
               \A tier \in {"strong", "weak"} :
                  Tier(config, Call(call.task, tier)) = files.default[at].text
=============================================================================

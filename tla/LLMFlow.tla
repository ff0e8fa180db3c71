------------------------------ MODULE LLMFlow -------------------------------
(***************************************************************************)
(* One process making backend LLM calls, one after the other:              *)
(* guard_llm_result around complete_json, its attempt loop, complete_text  *)
(* with its second run, the candidate chain with the routes of each        *)
(* candidate, the failover tracker they all update, and the result cache.  *)
(* Time passes, the user edits the configuration, and other processes      *)
(* clobber the cache file at any moment.                                   *)
(***************************************************************************)
EXTENDS Failover

CONSTANTS
    Options,            \* options of the calls, see LLMContract
    ConfiguredPolicy,   \* the failover section of the configuration file
    DefaultPolicy,      \* default_failover_policy()
    GatewayProxy,       \* candidates with gateway_proxy_enabled
    FallbackToDirect,   \* candidates with gateway_fallback_to_direct
    ConfigStates,       \* what the configuration file may be edited to
    CacheEnabled,       \* ARCH_BACKEND_LLM_CACHE
    MaxFailures         \* bound: no call starts while a counter exceeds it

ASSUME OptionsAssumption ==
    Options \subseteq [required : BOOLEAN, failOpen : BOOLEAN, requireResult : BOOLEAN]
ASSUME PolicyAssumption ==
    ConfiguredPolicy \in Policies /\ DefaultPolicy \in Policies /\ DefaultPolicy.parse = 1
ASSUME RouteAssumption == GatewayProxy \subseteq Candidates /\ FallbackToDirect \subseteq Candidates
ASSUME ConfigAssumption == ConfigStates \subseteq {"tiers", "none", "broken"} /\ CacheEnabled \in BOOLEAN
ASSUME BoundAssumption == MaxFailures \in Nat

VARIABLES
    tracker,    \* _TRACKER
    config,     \* "tiers", or "none" (no candidates), or "broken" (resolving raises)
    cache,      \* hint of the call that saved a result -> candidate that gave it
    pc,         \* where the call is
    opts,       \* its options
    hint,       \* the candidate that came first when the call began
    attempts,   \* iterations of the complete_json loop left
    second,     \* complete_text is in the run after except RuntimeError
    order,      \* the candidates of this run, in the order to be asked
    pos,        \* the candidate being asked: order[pos]
    route,      \* the route of that candidate being tried
    answer,     \* the candidate whose text is being parsed
    lastParse,  \* the candidate of last_parse_error
    result      \* how the last call ended, before guard_llm_result maps it

callVars == <<pc, opts, hint, attempts, second, order, pos, route, answer, lastParse, result>>
vars == <<tracker, config, cache, callVars>>

\* No candidate: no hint, no parse error, nothing cached.
None == 0

Hints == Candidates \cup {None}
Results == {"nothing", "payload", "none", "unavailable", "unconfigured", "parse_error", "unsaved"}
EmptyCache == [h \in Hints |-> None]

\* provider_attempt_chain: gateway first, direct as well only where allowed.
RouteCount(c) == IF c \in GatewayProxy \cap FallbackToDirect THEN 2 ELSE 1

\* The policy complete_json holds for its parse failures: that of the
\* configuration if it could be resolved when the call began.
ParsePolicy == IF hint = None THEN DefaultPolicy ELSE ConfiguredPolicy

\* guard_llm_result
Outcome ==
    CASE result \in {"nothing", "payload"} -> result
      [] result = "none" /\ ~opts.requireResult -> "none"
      [] OTHER -> IF opts.failOpen THEN "advisory" ELSE "raised"
-----------------------------------------------------------------------------
Init ==
    /\ tracker = [c \in Candidates |-> Fresh]
    /\ config \in ConfigStates
    /\ cache = EmptyCache
    /\ pc = "idle"
    /\ opts \in Options
    /\ hint = None
    /\ attempts = 0
    /\ second = FALSE
    /\ order = [i \in Candidates |-> i]
    /\ pos = 1
    /\ route = 1
    /\ answer = None
    /\ lastParse = None
    /\ result = "nothing"

\* The loop of complete_json runs max(1, len(candidates)) times.
CandidateCountUnclamped == IF config = "tiers" THEN N ELSE 0

CandidateCount == IF config = "tiers" THEN N ELSE 1

\* The locals of a run of acomplete_text, when it is over.
EndRun ==
    /\ order' = [i \in Candidates |-> i]
    /\ pos' = 1
    /\ route' = 1

\* The call is over, with its locals; only its result is left.
Return(r) ==
    /\ pc' = "idle"
    /\ result' = r
    /\ hint' = None
    /\ attempts' = 0
    /\ second' = FALSE
    /\ answer' = None
    /\ lastParse' = None
    /\ EndRun
    /\ UNCHANGED opts

\* complete_json begins: resolve_provider_hint_context orders the candidates
\* (and so purges the tracker), then the cache is asked under that hint.
BeginCall(o) ==
    /\ pc = "idle"
    /\ \A c \in Candidates : Purged(tracker)[c].transport <= MaxFailures
    /\ opts' = o
    /\ \E h \in Hints :
          /\ IF config = "tiers"
             THEN /\ tracker' = Purged(tracker)
                  /\ \E ranking \in Orderings(tracker') : h = ranking[1]
             ELSE h = None /\ UNCHANGED tracker
          /\ IF cache[h] # None
             THEN /\ result' = "payload"
                  /\ UNCHANGED <<pc, hint, attempts>>
             ELSE /\ result' = "nothing"
                  /\ pc' = "attempt"
                  /\ hint' = h
                  /\ attempts' = CandidateCount
    /\ UNCHANGED <<config, cache, second, order, pos, route, answer, lastParse>>

\* BackendLLMUnavailableError is a RuntimeError, so complete_text answers the
\* first one by running the whole of acomplete_text again.
RaiseUnavailable(r) ==
    IF second
    THEN Return(r)
    ELSE /\ second' = TRUE
         /\ pc' = "attempt"
         /\ EndRun
         /\ UNCHANGED <<opts, hint, attempts, answer, lastParse, result>>

\* resolve_runtime_context_strict, at the start of each run of acomplete_text.
Resolve ==
    /\ pc = "attempt"
    /\ attempts > 0
    /\ CASE config = "tiers" ->
              /\ tracker' = Purged(tracker)
              /\ order' \in Orderings(tracker')
              /\ pos' = 1
              /\ route' = 1
              /\ pc' = "route"
              /\ UNCHANGED <<opts, hint, attempts, second, answer, lastParse, result>>
         [] config = "none" /\ ~opts.required -> Return("none") /\ UNCHANGED tracker
         [] OTHER -> RaiseUnavailable("unconfigured") /\ UNCHANGED tracker
    /\ UNCHANGED <<config, cache>>
-----------------------------------------------------------------------------
\* A route of the current candidate answers, with whatever text.
RouteAnswers ==
    /\ pc = "route"
    /\ tracker' = RecordSuccess(tracker, order[pos])
    /\ answer' = order[pos]
    /\ pc' = "parse"
    /\ EndRun
    /\ UNCHANGED <<config, cache, opts, hint, attempts, second, lastParse, result>>

\* A route fails and the candidate has another one.
NextRoute ==
    /\ pc = "route"
    /\ route < RouteCount(order[pos])
    /\ route' = route + 1
    /\ UNCHANGED <<tracker, config, cache, pc, opts, hint, attempts, second, order, pos, answer, lastParse, result>>

LastCandidateTooSoon == pos >= N - 1

LastCandidate == pos >= N

\* The last route of the candidate fails: a transport failure, and on to the
\* next candidate or out of the chain.
CandidateFails ==
    /\ pc = "route"
    /\ route = RouteCount(order[pos])
    /\ tracker' = RecordTransportFailure(tracker, order[pos], ConfiguredPolicy)
    /\ CASE ~LastCandidate ->
              /\ pos' = pos + 1
              /\ route' = 1
              /\ UNCHANGED <<pc, opts, hint, attempts, second, order, answer, lastParse, result>>
         [] LastCandidate /\ opts.required -> RaiseUnavailable("unavailable")
         [] OTHER -> Return("none")
    /\ UNCHANGED <<config, cache>>

\* process_json_attempt finds an object: it is cached under the hint and
\* returned.
Parsed ==
    /\ pc = "parse"
    /\ Return("payload")
    /\ cache' = IF CacheEnabled THEN [cache EXCEPT ![hint] = answer] ELSE cache
    /\ UNCHANGED <<tracker, config>>

\* The same, but writing the cache file fails: the error leaves complete_json,
\* the answer is lost, and the file may have been truncated.
ParsedNotSaved ==
    /\ pc = "parse"
    /\ CacheEnabled
    /\ Return("unsaved")
    /\ cache' \in {cache, EmptyCache}
    /\ UNCHANGED <<tracker, config>>

\* process_json_attempt finds no object.
Unparsed ==
    /\ pc = "parse"
    /\ tracker' = RecordParseFailure(tracker, answer, ParsePolicy)
    /\ IF opts.required
       THEN /\ lastParse' = answer
            /\ attempts' = attempts - 1
            /\ second' = FALSE
            /\ pc' = "attempt"
            /\ answer' = None
            /\ UNCHANGED <<opts, hint, order, pos, route, result>>
       ELSE Return("none")
    /\ UNCHANGED <<config, cache>>

\* The loop of complete_json is exhausted.
EndLoop ==
    /\ pc = "attempt"
    /\ attempts = 0
    /\ Return(IF opts.required /\ lastParse # None THEN "parse_error" ELSE "none")
    /\ UNCHANGED <<tracker, config, cache>>
-----------------------------------------------------------------------------
\* The environment.
Tick ==
    /\ tracker' = Elapsed(tracker)
    /\ UNCHANGED <<config, cache, callVars>>

EditConfig ==
    /\ config' \in ConfigStates \ {config}
    /\ UNCHANGED <<tracker, cache, callVars>>

LoseCache ==
    /\ cache' = EmptyCache
    /\ UNCHANGED <<tracker, config, callVars>>

CallStep ==
    \/ Resolve
    \/ RouteAnswers
    \/ NextRoute
    \/ CandidateFails
    \/ Parsed
    \/ ParsedNotSaved
    \/ Unparsed
    \/ EndLoop

Next ==
    \/ \E o \in Options : BeginCall(o)
    \/ CallStep
    \/ Tick
    \/ EditConfig
    \/ LoseCache

\* A call once begun goes on: every request to a provider ends, by an answer
\* or by its timeout.  New calls, the clock and the user owe nothing.
Spec == Init /\ [][Next]_vars /\ WF_vars(CallStep)
-----------------------------------------------------------------------------
\* Properties.

\* Types, and which locals are live where: an attempt is being spent while a
\* candidate is asked, there is a text to parse only in "parse", and a required
\* call that has spent its attempts has a parse error to raise.
TypeOK ==
    /\ tracker \in [Candidates -> Entries]
    /\ config \in ConfigStates
    /\ cache \in [Hints -> Hints]
    /\ pc \in {"idle", "attempt", "route", "parse"}
    /\ opts \in Options
    /\ hint \in Hints
    /\ attempts \in Nat
    /\ second \in BOOLEAN
    /\ order \in [Candidates -> Candidates]
    /\ pos \in Candidates
    /\ route \in Nat \ {0}
    /\ answer \in Hints
    /\ lastParse \in Hints
    /\ result \in Results
    /\ pc \in {"route", "parse"} => attempts > 0
    /\ pc = "parse" => answer # None
    /\ pc = "attempt" /\ attempts = 0 => lastParse # None

\* A candidate has at most one parse failure on record: the text that cannot
\* be parsed was itself a success for the chain, which cleared the record.
ParseFailuresBounded == \A c \in Candidates : tracker[c].parse <= 1

\* A candidate is suspended only for having reached a threshold, and one that
\* reached the transport threshold is suspended; counters and deadline, which
\* are written apart, never disagree.
SuspensionJustified ==
    \A c \in Candidates :
        /\ Suspended(tracker[c]) =>
              \/ tracker[c].transport >= ConfiguredPolicy.transport
              \/ tracker[c].parse >= 1
        /\ tracker[c].transport >= ConfiguredPolicy.transport => Suspended(tracker[c])
        /\ tracker[c].parse >= ConfiguredPolicy.parse => Suspended(tracker[c])

\* A suspended candidate is asked only when no ready one is left to ask: the
\* order was fixed before the earlier candidates of the run were asked, and
\* stays right while they fail and while time passes.
SuspendedAskedLast ==
    pc = "route" /\ Suspended(tracker[order[pos]]) =>
        \A j \in Candidates : j > pos => Suspended(tracker[order[j]])

\* When the chain is given up as unavailable, every candidate, the suspended
\* ones included, has a transport failure on record.
UnavailableMeansAllFailed ==
    result = "unavailable" => \A c \in Candidates : tracker[c].transport >= 1

\* A suspension ends only by its deadline or by an answer of that candidate.
SuspensionServed ==
    [][\A c \in Candidates :
          Suspended(tracker[c]) /\ ~Suspended(tracker'[c]) =>
              tracker[c].cool = 0 \/ (pc' = "parse" /\ answer' = c)]_vars

\* The calls keep the contract: whatever fails, each one returns, and with a
\* result its options permit.
Contract == INSTANCE LLMContract WITH
    phase <- IF pc = "idle" THEN "idle" ELSE "busy",
    outcome <- Outcome

CallContract == Contract!Spec
=============================================================================

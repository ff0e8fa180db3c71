---------------------------- MODULE ReviewCommand ----------------------------
(***************************************************************************)
(* One run of archi or archi code-review: the main of cli.py, the review   *)
(* functions of code_review/public.py it calls, and what they leave: an    *)
(* exit code, an output, the concerns artifact and a review event.         *)
(*                                                                         *)
(* The bundle (Bundle) and the LLM (LLMFlow) answer or fail.  Of a failure *)
(* only its class matters, and whether its text contains one of the        *)
(* markers that _is_since_range_error looks for.                           *)
(***************************************************************************)
EXTENDS Integers, Sequences

VARIABLES
    opts,       \* the options of the command
    todo,       \* the steps that are left
    kind,       \* the result so far: "none", "check", "review", "static", "empty"
    exit,       \* the exit code, or Running
    output,     \* the kind of result that was printed
    artifact,   \* the kind of review code-review-concerns.json is of
    event,      \* the kind of review the event log got an event of
    failed      \* what has failed so far

vars == <<opts, todo, kind, exit, output, artifact, event, failed>>

Running == -1

Flags == {"check", "full", "diff", "since", "base", "plan", "risk", "feedback",
          "allow", "refresh"}

\* What the two argument parsers let pass.
Commands ==
    {[name |-> "archi", flags |-> fs] : fs \in SUBSET (Flags \ {"since"})} \union
    {[name |-> "code-review", flags |-> fs \union {mode}] :
        fs \in SUBSET (Flags \ {"check", "full", "diff", "since"}),
        mode \in {"full", "diff", "since"}}

Has(flag) == flag \in opts.flags

\* _validate_args and _validate_code_review_args.
Valid ==
    /\ opts.name = "archi" => ~(Has("full") /\ Has("diff"))
    /\ Has("base") => Has("diff")
    /\ Has("plan") => ~Has("check") /\ ~Has("full")
    /\ Has("risk") => ~Has("check")
    /\ Has("feedback") => ~Has("check") /\ Has("full")

\* _is_full_code_review_args
FullReview == Has("full") /\ {"check", "diff", "since"} \intersect opts.flags = {}

\* code-review always looks at the bundle, archi as _should_ensure_bundle says.
NeedsBundle ==
    opts.name = "code-review" \/ {"check", "full", "refresh"} \intersect opts.flags # {}

\* The steps of the review functions: run_code_review_incremental_llm; the
\* functions that call run_analysis; and the static ones.
EventBeforeSummary ==
    IF Has("check") THEN <<"checked", "emit">>
    ELSE IF opts.name = "archi" /\ ~Has("full")
         THEN <<"collect", "contexts", "artifacts", "event", "summary", "emit">>
         ELSE <<"analysis", "contexts", "artifacts", "event", "emit">>

ReviewSteps ==
    IF Has("check") THEN <<"checked", "emit">>
    ELSE IF opts.name = "archi" /\ ~Has("full")
         THEN <<"collect", "contexts", "artifacts", "summary", "event", "emit">>
         ELSE <<"analysis", "contexts", "artifacts", "event", "emit">>

StaticStepsKeepArtifact ==
    IF FullReview THEN <<"contexts", "event", "emit">>
    ELSE <<"collect", "contexts", "event", "emit">>

StaticSteps ==
    IF FullReview THEN <<"contexts", "artifacts", "event", "emit">>
    ELSE <<"collect", "contexts", "artifacts", "event", "emit">>

Init ==
    /\ opts \in Commands
    /\ todo = <<"validate", "feedback", "bundle", "preflight">>
    /\ kind = "none"
    /\ exit = Running
    /\ output = "none"
    /\ artifact = "none"
    /\ event = "none"
    /\ failed = {}

-----------------------------------------------------------------------------
left == <<output, artifact, event>>

At(step) == todo # <<>> /\ Head(todo) = step

Goto(steps) == todo' = steps /\ exit' = exit

Advance == Goto(Tail(todo))

Exit(code) == todo' = <<>> /\ exit' = code

\* The exceptions main expects end the command with 2.
Fails(what) ==
    /\ failed' = failed \union {what}
    /\ Exit(2)
    /\ UNCHANGED <<opts, kind, left>>

Passes == Advance /\ UNCHANGED <<opts, kind, left, failed>>

\* The run goes over to a static review.
GoStatic(what) ==
    /\ failed' = failed \union {what}
    /\ kind' = "static"
    /\ Goto(StaticSteps)
    /\ UNCHANGED <<opts, left>>

Validate ==
    /\ At("validate")
    /\ IF Valid THEN Passes ELSE Fails("arguments")

\* _validate_advice_feedback_arg reads the file before anything is run.
ReadFeedback ==
    /\ At("feedback")
    /\ \/ Passes
       \/ Has("feedback") /\ Fails("input")

\* _ensure_bundle; only a full review goes on without a bundle.
EnsureBundle ==
    /\ At("bundle")
    /\ \/ Passes
       \/ NeedsBundle /\ ~FullReview /\ Fails("bundle")
       \/ NeedsBundle /\ FullReview /\ GoStatic("bundle")

\* preflight_backend_llm, after which the review is chosen.
Chosen ==
    /\ kind' = IF Has("check") THEN "check" ELSE "review"
    /\ Goto(ReviewSteps)
    /\ UNCHANGED <<opts, left, failed>>

PreflightFallsBack ==
    /\ At("preflight")
    /\ \/ Chosen
       \/ ~Has("allow") /\ Fails("preflight")
       \/ Has("allow") /\ GoStatic("preflight")

Preflight ==
    /\ At("preflight")
    /\ Chosen \/ Fails("preflight")

\* _checked_result
Checked ==
    /\ At("checked")
    /\ Passes

\* The handler of ArchitectLLMUnavailableError in main.
Fallback ==
    \/ ~Has("allow") /\ Fails("llm")
    \/ Has("allow") /\ GoStatic("llm")

\* _empty_since_range_result, which is printed as it is: no artifact, no event.
EmptyRange(what) ==
    /\ Has("since")
    /\ failed' = failed \union {what}
    /\ kind' = "empty"
    /\ Goto(<<"emit">>)
    /\ UNCHANGED <<opts, left>>

\* git_changed_files in _static_incremental_report.  A static since review
\* answers a range error with the empty result.
Collect ==
    /\ At("collect")
    /\ \/ Passes
       \/ Fails("git")
       \/ kind = "static" /\ EmptyRange("git")

\* run_analysis.  A since review takes whatever error has a marker in its text
\* for a range error, the unavailable LLM's too: that error is a RuntimeError,
\* and its text quotes the provider's.
Analysis ==
    /\ At("analysis")
    /\ \/ Passes
       \/ Fails("analysis")
       \/ EmptyRange("analysis")
       \/ Fallback
       \/ EmptyRange("llm")

\* load_plan_review and load_risk_context.
LoadContexts ==
    /\ At("contexts")
    /\ \/ Passes
       \/ (Has("plan") \/ Has("risk")) /\ Fails("input")

\* _result_from_report writes the concerns of this review, or notes that it
\* could not.
WriteArtifacts ==
    /\ At("artifacts")
    /\ \/ artifact' = kind /\ failed' = failed
       \/ artifact' = artifact /\ failed' = failed \union {"artifact"}
    /\ Advance
    /\ UNCHANGED <<opts, kind, output, event>>

\* incremental_llm_summary
Summary ==
    /\ At("summary")
    /\ Passes \/ Fallback

\* _with_review_event appends the event, or notes that it could not.
AppendEvent ==
    /\ At("event")
    /\ \/ event' = kind /\ failed' = failed
       \/ event' = event /\ failed' = failed \union {"event"}
    /\ Advance
    /\ UNCHANGED <<opts, kind, output, artifact>>

\* _emit or _emit_json; --out may name a path that does not exist.
Emit ==
    /\ At("emit")
    /\ \/ /\ output' = kind
          /\ Exit(0)
          /\ UNCHANGED <<opts, kind, artifact, event, failed>>
       \/ Fails("out")

\* Any other exception ends in a traceback, at any step.
Crash ==
    /\ todo # <<>>
    /\ failed' = failed \union {"crash"}
    /\ Exit(1)
    /\ UNCHANGED <<opts, kind, left>>

Next ==
    \/ Validate \/ ReadFeedback \/ EnsureBundle \/ Preflight \/ Checked \/ Collect
    \/ Analysis \/ LoadContexts \/ WriteArtifacts \/ Summary \/ AppendEvent \/ Emit
    \/ Crash

Spec == Init /\ [][Next]_vars
-----------------------------------------------------------------------------
Kinds == {"none", "check", "review", "static", "empty"}

TypeOK ==
    /\ opts \in Commands
    /\ {kind, output, artifact, event} \subseteq Kinds
    /\ exit \in {Running, 0, 1, 2}
    /\ exit = Running <=> todo # <<>>

\* A static review is printed only by the user's leave (--allow-static) and
\* when the LLM failed after a passed preflight, or for a full review without
\* a bundle; every other failure on the way leaves no result at all, neither
\* an output nor exit code 0 (decisions 058 and 071).  The rest of the state has
\* its shape.
DegradedOnlyAsAllowed ==
    /\ TypeOK
    /\ output = "static" =>
          \/ FullReview /\ "bundle" \in failed
          \/ Has("allow") /\ "llm" \in failed
    /\ exit = 0 => failed \intersect {"arguments", "input", "preflight", "out", "crash"} = {}

\* The log has at most one event of a command, of the review that was printed,
\* and none of an attempt that was given up: not of the LLM review that a
\* static one replaced, nor of one that ended with an error before its output.
EventIsOfTheOutput ==
    /\ exit = 0 => event \in {output, "none"}
    /\ exit = 2 /\ event # "none" => "out" \in failed
    /\ output \in {"review", "static"} /\ event = "none" => "event" \in failed

\* The concerns on disk after a command are those of the review it printed, even
\* when an earlier attempt had written its own, or the result says they are not.
ArtifactIsOfTheOutput ==
    output \in {"review", "static"} => artifact = output \/ "artifact" \in failed

\* docs/usage-manual.md: a result without the LLM, after it failed at run time,
\* has to be accepted with --allow-static.
LLMFailureNeedsConsent == "llm" \in failed /\ exit = 0 => Has("allow")
=============================================================================

---------------------------- MODULE LLMContract -----------------------------
(***************************************************************************)
(* What a caller of guard_llm_result(complete_json(...)) may rely on,      *)
(* whatever the providers, the configuration file, the cache and the clock *)
(* do: every call comes back, and with one of the results its options      *)
(* allow.                                                                  *)
(*   required      of complete_json: a missing answer is an error          *)
(*   failOpen      of guard_llm_result: an error becomes an advisory       *)
(*   requireResult of guard_llm_result: None is an error                   *)
(***************************************************************************)
CONSTANT Options      \* the option combinations callers use

VARIABLES phase, opts, outcome

contractVars == <<phase, opts, outcome>>

\* The results a call with options o may end with.
Permitted(o) ==
    {"payload", IF o.failOpen THEN "advisory" ELSE "raised"}
        \cup (IF o.required \/ o.requireResult THEN {} ELSE {"none"})

Init ==
    /\ phase = "idle"
    /\ opts \in Options
    /\ outcome = "nothing"

Start ==
    /\ phase = "idle"
    /\ phase' = "busy"
    /\ opts' \in Options
    /\ outcome' = "nothing"

\* The cache answers: the call starts and ends in one step.
AnswerAtOnce ==
    /\ phase = "idle"
    /\ opts' \in Options
    /\ outcome' = "payload"
    /\ UNCHANGED phase

Return ==
    /\ phase = "busy"
    /\ phase' = "idle"
    /\ outcome' \in Permitted(opts)
    /\ UNCHANGED opts

Next == Start \/ AnswerAtOnce \/ Return

Spec == Init /\ [][Next]_contractVars /\ WF_contractVars(Return)
=============================================================================

----------------------------- MODULE MCLLMFlow ------------------------------
(***************************************************************************)
(* Values for model-checking LLMFlow.                                      *)
(***************************************************************************)
EXTENDS LLMFlow

Opt(required, failOpen, requireResult) ==
    [required |-> required, failOpen |-> failOpen, requireResult |-> requireResult]

\* The options of the commands (advisory or not), and of complete_json called
\* without the guard, requiring an answer or not.
MCOptions ==
    {Opt(TRUE, FALSE, TRUE), Opt(TRUE, TRUE, TRUE),
     Opt(TRUE, FALSE, FALSE), Opt(FALSE, FALSE, FALSE)}

RequiredOnly == {Opt(TRUE, FALSE, TRUE)}

MCPolicy == [transport |-> 2, parse |-> 1, cooldown |-> 2]
=============================================================================

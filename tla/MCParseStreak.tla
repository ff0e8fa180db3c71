---------------------------- MODULE MCParseStreak ----------------------------
(***************************************************************************)
(* LLMFlow with a history variable: how many texts in a row of a candidate *)
(* could not be parsed.                                                    *)
(***************************************************************************)
EXTENDS MCLLMFlow

VARIABLE streak

TwoParseFailures == [transport |-> 2, parse |-> 2, cooldown |-> 2]

StreakInit == Init /\ streak = [c \in Candidates |-> 0]

\* A parse step that touches the tracker is a parse failure.  The streak ends
\* with a text that parses, or when the record of the candidate expires.
NextStreak(c) ==
    CASE pc = "parse" /\ pc' # "parse" /\ answer = c ->
            IF tracker' = tracker THEN 0 ELSE streak[c] + 1
      [] tracker[c].cool = 0 /\ tracker'[c] = Fresh -> 0
      [] OTHER -> streak[c]

StreakNext ==
    /\ Next
    /\ \A c \in Candidates : streak[c] < ConfiguredPolicy.parse
    /\ streak' = [c \in Candidates |-> NextStreak(c)]

StreakSpec == StreakInit /\ [][StreakNext]_<<vars, streak>>

\* parse_failures_before_switch unparseable texts in a row suspend the
\* candidate, as the option of config.example.yaml promises.
ParsePolicyHonoured ==
    \A c \in Candidates :
        streak[c] >= ConfiguredPolicy.parse => Suspended(tracker[c])
=============================================================================

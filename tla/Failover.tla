------------------------------ MODULE Failover ------------------------------
(***************************************************************************)
(* The candidate health tracker of backend_llm/failover.py: a dictionary   *)
(* from candidate keys to failure counters and a suspension deadline, and  *)
(* the order in which the candidates of a tier are to be asked.            *)
(*                                                                         *)
(* A tracker is a function from candidate positions to entries.  A key     *)
(* with no entry in the dictionary is the entry Fresh: ordered_candidates  *)
(* treats both alike, and record_failure creates one from zero counters.   *)
(* The deadline suspended_until is kept as the time left until it, so that *)
(* no clock is needed: Never stands for suspended_until = 0.0, and 0 for a *)
(* deadline that has been reached.                                         *)
(***************************************************************************)
EXTENDS Integers

CONSTANT
    N                 \* candidates configured for the tier, in file order

ASSUME NAssumption == N \in Nat \ {0}

Candidates == 1..N

Never == -1

\* FailoverPolicy; _parse_policy clamps every field to at least one.
Policies == [transport : Nat \ {0}, parse : Nat \ {0}, cooldown : Nat \ {0}]

Entries == [transport : Nat, parse : Nat, cool : Nat \cup {Never}]

Fresh == [transport |-> 0, parse |-> 0, cool |-> Never]

Suspended(entry) == entry.cool # Never

\* (Definitions whose name extends that of the definition after them are
\* faulty variants of it: a check that no property is vacuous uses them.)
\* _get_state, which ordered_candidates calls for every candidate: an entry
\* whose deadline is reached is dropped, counters included.
PurgedKeepsCounters(tracker) ==
    [c \in Candidates |->
        IF tracker[c].cool = 0 THEN [tracker[c] EXCEPT !.cool = Never] ELSE tracker[c]]

Purged(tracker) ==
    [c \in Candidates |-> IF tracker[c].cool = 0 THEN Fresh ELSE tracker[c]]

Penalty(entry) == entry.transport + entry.parse

\* The sort keys of ordered_candidates.  Never is below every time left, so
\* ready candidates come first, by penalty and position; the cooling ones
\* follow, the earliest deadline first.
PrecedesByPenalty(tracker, c, d) ==
    \/ Penalty(tracker[c]) < Penalty(tracker[d])
    \/ Penalty(tracker[c]) = Penalty(tracker[d]) /\ c < d

Precedes(tracker, c, d) ==
    \/ tracker[c].cool < tracker[d].cool
    \/ /\ tracker[c].cool = tracker[d].cool
       /\ PrecedesByPenalty(tracker, c, d)

\* The list ordered_candidates returns (there is exactly one such order).
Orderings(tracker) ==
    {order \in [Candidates -> Candidates] :
        /\ \A c \in Candidates : \E i \in Candidates : order[i] = c
        /\ \A i, j \in Candidates : i < j => Precedes(tracker, order[i], order[j])}

RecordSuccessKeepsCounters(tracker, c) ==
    [tracker EXCEPT ![c].cool = Never]

RecordSuccess(tracker, c) == [tracker EXCEPT ![c] = Fresh]

\* _record_failure: count, and suspend (or suspend anew) at the threshold.
RecordTransportFailureUnsuspends(tracker, c, policy) ==
    LET count == tracker[c].transport + 1
    IN  [tracker EXCEPT ![c] =
            [transport |-> count,
             parse |-> @.parse,
             cool |-> IF count >= policy.transport THEN policy.cooldown ELSE Never]]

RecordTransportFailure(tracker, c, policy) ==
    LET count == tracker[c].transport + 1
    IN  [tracker EXCEPT ![c] =
            [transport |-> count,
             parse |-> @.parse,
             cool |-> IF count >= policy.transport THEN policy.cooldown ELSE @.cool]]

RecordParseFailure(tracker, c, policy) ==
    LET count == tracker[c].parse + 1
    IN  [tracker EXCEPT ![c] =
            [transport |-> @.transport,
             parse |-> count,
             cool |-> IF count >= policy.parse THEN policy.cooldown ELSE @.cool]]

\* One unit of time: every deadline still ahead comes nearer.
Elapsed(tracker) ==
    [c \in Candidates |->
        IF tracker[c].cool > 0 THEN [tracker[c] EXCEPT !.cool = @ - 1] ELSE tracker[c]]
=============================================================================

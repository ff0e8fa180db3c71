----------------------------- MODULE Selections -----------------------------
(***************************************************************************)
(* Sequences of what is selected: Python's filtered and sorted lists.  They *)
(* are functions of sets of places and elements, where SelectSeq and       *)
(* SortSeq of the libraries are recursive or have no definition to reason  *)
(* about.                                                                  *)
(***************************************************************************)
EXTENDS Integers, FiniteSets

\* What a sequence has at these places, in their order.
Picked(s, places) ==
    [k \in 1..Cardinality(places) |->
        s[CHOOSE i \in places : Cardinality({j \in places : j <= i}) = k]]

\* sorted, of what has no equals: the i-th is the one that i - 1 come before.
Sorted(S, Before(_, _)) ==
    [i \in 1..Cardinality(S) |-> CHOOSE a \in S : Cardinality({b \in S : Before(b, a)}) = i - 1]
=============================================================================

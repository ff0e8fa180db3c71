----------------------------- MODULE MCLLMCache -----------------------------
(***************************************************************************)
(* Values for model-checking LLMCache.                                     *)
(***************************************************************************)
EXTENDS LLMCache, TLC

CONSTANTS p1, p2, k1, k2, k3

MCProcs == {p1, p2}
MCKeys == {k1, k2, k3}
\* Neither processes nor keys are told apart.
Symmetry == Permutations(MCProcs) \cup Permutations(MCKeys)
=============================================================================

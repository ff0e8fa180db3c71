----------------------------- MODULE MCEventLog -----------------------------
(***************************************************************************)
(* Values for model-checking EventLog.                                     *)
(***************************************************************************)
EXTENDS EventLog, TLC

CONSTANTS w1, w2

MCWriters == {w1, w2}

Symmetry == Permutations(MCWriters)
=============================================================================

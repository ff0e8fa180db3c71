------------------------------ MODULE MCBundle ------------------------------
(***************************************************************************)
(* Small instances of Bundle.                                              *)
(***************************************************************************)
EXTENDS Bundle, TLC

Symmetric == Permutations(Procs)
=============================================================================

--------------------------- MODULE MCAuthSession ---------------------------
(***************************************************************************)
(* A small instance of AuthSession.                                        *)
(***************************************************************************)
EXTENDS AuthSession, TLC

Symmetric == Permutations(Procs)
=============================================================================

----------------------------- MODULE MCRecovery -----------------------------
(* An instance of Recovery for TLC. *)
EXTENDS Recovery, TLC

Symmetry == Permutations(Callers)
=============================================================================

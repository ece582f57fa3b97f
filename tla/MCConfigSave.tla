---------------------------- MODULE MCConfigSave ----------------------------
(* Instances of ConfigSave for TLC. *)
EXTENDS ConfigSave, TLC

CONSTANTS A, B

\* Names that differ in more than case.
OwnKey(n) == n

Symmetry == Permutations(Puts)
=============================================================================

---------------------------- MODULE MCStatusFlow ----------------------------
(* Instances of StatusFlow for TLC. *)
EXTENDS StatusFlow
=============================================================================

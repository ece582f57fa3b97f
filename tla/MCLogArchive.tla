---------------------------- MODULE MCLogArchive ----------------------------
(* Instances of LogArchive for TLC. *)
EXTENDS LogArchive
=============================================================================

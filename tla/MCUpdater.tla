----------------------------- MODULE MCUpdater -----------------------------
(* Instances of Updater for TLC. *)
EXTENDS Updater

\* The second release does not start; the third is the same version built again.
Rebuilt == <<0, 1, 1, 2>>
=============================================================================

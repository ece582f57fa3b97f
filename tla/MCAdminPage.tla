---------------------------- MODULE MCAdminPage ----------------------------
(* Instances of AdminPage for TLC. *)
EXTENDS AdminPage
=============================================================================

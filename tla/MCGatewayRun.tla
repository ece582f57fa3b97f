---------------------------- MODULE MCGatewayRun ----------------------------
(* Instances of GatewayRun for TLC. *)
EXTENDS GatewayRun
=============================================================================

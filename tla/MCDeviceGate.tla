---------------------------- MODULE MCDeviceGate ----------------------------
(* An instance of DeviceGate for TLC. *)
EXTENDS DeviceGate
=============================================================================

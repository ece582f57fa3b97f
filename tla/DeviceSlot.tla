----------------------------- MODULE DeviceSlot -----------------------------
(***************************************************************************)
(* What the per-device request gate of internal/shelly/client.go promises  *)
(* its callers: at most one RPC uses a Shelly, a production (FBS) call that *)
(* waits is never overtaken by an Admin probe, and an Admin probe never    *)
(* waits.  DeviceGate implements this specification.                       *)
(***************************************************************************)
CONSTANTS FBSCalls,    \* production /status, /on, /off and Reboot calls
          AdminCalls   \* opportunistic status probes of the Admin UI

VARIABLES using,       \* the calls whose RPC may be active at the device
          waiting      \* the FBS calls that announced themselves and wait

slotVars == <<using, waiting>>

SlotInit == using = {} /\ waiting = {}

Announce(f) ==
  /\ f \notin using \cup waiting
  /\ waiting' = waiting \cup {f}
  /\ UNCHANGED using

\* The deadline of a waiting call passes.
Withdraw(f) ==
  /\ f \in waiting
  /\ waiting' = waiting \ {f}
  /\ UNCHANGED using

GrantFBS(f) ==
  /\ f \in waiting
  /\ using = {}
  /\ using' = {f}
  /\ waiting' = waiting \ {f}

\* A probe takes a free slot that nobody waits for, or it is deferred.
GrantAdmin(a) ==
  /\ using = {}
  /\ waiting = {}
  /\ using' = {a}
  /\ UNCHANGED waiting

Return(c) ==
  /\ using = {c}
  /\ using' = {}
  /\ UNCHANGED waiting

SlotNext ==
  \/ \E f \in FBSCalls : Announce(f) \/ Withdraw(f) \/ GrantFBS(f) \/ Return(f)
  \/ \E a \in AdminCalls : GrantAdmin(a) \/ Return(a)

SlotSpec == SlotInit /\ [][SlotNext]_slotVars
=============================================================================

----------------------------- MODULE StatusFlow -----------------------------
(***************************************************************************)
(* The status row of one tool and everybody who writes it: FBS handlers    *)
(* (internal/fbs/server.go), the fleet refresh of the Admin server         *)
(* (internal/admin/server.go) with its probe of this tool, and the         *)
(* recovery reboot, which writes nothing.  They share the revision counter *)
(* and the row (internal/status/store.go) and meet at the device in the    *)
(* slot DeviceGate implements.                                             *)
(*                                                                         *)
(* The relay is the number of Switch.Set commands it has carried out, so a *)
(* row that shows an old state is told from one that shows the present.    *)
(***************************************************************************)
EXTENDS Naturals

CONSTANTS Handlers,     \* concurrent FBS requests to the tool
          Probe,        \* the admin call of the refresh for this tool
          Reboot,       \* the reboot goroutine's call
          MaxRevision,  \* bound: no request begins beyond it
          MaxWrites     \* bound on the commands

ASSUME FlowAssumption ==
  /\ Probe \notin Handlers /\ Reboot \notin Handlers /\ Probe # Reboot
  /\ MaxRevision \in Nat /\ MaxWrites \in Nat

VARIABLES using, waiting,         \* the device slot
          writes,                 \* commands the relay has carried out
          owed,                   \* commands without an answer that it still may
          revision, row,          \* status.Store: next and the tool's row
          pc, op, got, rev,       \* the handlers
          scanning, scanRev,      \* statusRefreshInFlight, refreshRevision
          probe, probeGot,        \* the worker that has this tool's job
          reboot,                 \* the reboot goroutine
          unpublished,            \* history: a probe gave way to an FBS request,
                                  \* no record since
          asked,                  \* history: the scan was asked for while no FBS
                                  \* call was open; no call began, no probe failed
          overlapped,             \* history: an FBS request began during another
          late                    \* history: the relay has carried out a command
                                  \* late, no FBS exchange has succeeded since

slotVars    == <<using, waiting>>
relayVars   == <<writes, owed>>
storeVars   == <<revision, row>>
handlerVars == <<pc, op, got, rev>>
scanVars    == <<scanning, scanRev, probe, probeGot>>
historyVars == <<unpublished, asked, overlapped, late>>
vars == <<slotVars, relayVars, storeVars, handlerVars, scanVars, reboot, historyVars>>

Slot == INSTANCE DeviceSlot
          WITH FBSCalls <- Handlers \cup {Reboot}, AdminCalls <- {Probe}

Failed   == [ok |-> FALSE, seen |-> 0, kind |-> "none"]
Outcome  == [ok : BOOLEAN, seen : 0..MaxWrites, kind : {"none", "command", "read"}]

Init ==
  /\ Slot!SlotInit
  /\ writes = 0 /\ owed = 0
  /\ revision = 0
  /\ row = [rev |-> 0, result |-> Failed]      \* "status not yet refreshed"
  /\ pc = [h \in Handlers |-> "idle"]
  /\ op = [h \in Handlers |-> "status"]
  /\ got = [h \in Handlers |-> Failed]
  /\ rev = [h \in Handlers |-> 0]
  /\ scanning = FALSE /\ scanRev = 0
  /\ probe = "none" /\ probeGot = Failed
  /\ reboot = "none"
  /\ unpublished = FALSE /\ asked = FALSE /\ overlapped = FALSE /\ late = FALSE

\* Mutant: the revision is not compared.
RecordLatest(revn, result) == row' = [rev |-> revn, result |-> result]

\* status.Store.Record: an older revision is dropped.
Record(revn, result) ==
  row' = IF revn < row.rev THEN row ELSE [rev |-> revn, result |-> result]

\* Bound: one more command may be sent.
MaySend == writes + owed < MaxWrites

-----------------------------------------------------------------------------
(* FBS handlers: GetStatus or Set, then recordSuccess or recordFailure *)

BeginFBS(h, o) ==
  /\ pc[h] = "idle"
  /\ revision < MaxRevision
  /\ o = "set" => MaySend
  /\ Slot!Announce(h)
  /\ pc' = [pc EXCEPT ![h] = "wait"]
  /\ op' = [op EXCEPT ![h] = o]
  /\ asked' = FALSE
  /\ overlapped' = (overlapped \/ \E other \in Handlers : pc[other] # "idle")
  /\ UNCHANGED <<relayVars, storeVars, got, rev, scanVars, reboot, unpublished, late>>

\* Mutant: a request that was not granted the slot is not recorded.
GiveUpWaitUnrecorded(h) ==
  /\ pc[h] = "wait"
  /\ Slot!Withdraw(h)
  /\ pc' = [pc EXCEPT ![h] = "idle"]
  /\ op' = [op EXCEPT ![h] = "status"]
  /\ UNCHANGED <<relayVars, storeVars, got, rev, scanVars, reboot, historyVars>>

\* The device slot is not granted in time.
GiveUpWait(h) ==
  /\ pc[h] = "wait"
  /\ Slot!Withdraw(h)
  /\ got' = [got EXCEPT ![h] = Failed]
  /\ pc' = [pc EXCEPT ![h] = "release"]
  /\ UNCHANGED <<relayVars, storeVars, op, rev, scanVars, reboot, historyVars>>

TakeSlot(h) ==
  /\ pc[h] = "wait"
  /\ Slot!GrantFBS(h)
  /\ pc' = [pc EXCEPT ![h] = "exchange"]
  /\ UNCHANGED <<relayVars, storeVars, op, got, rev, scanVars, reboot, historyVars>>

\* What the exchange did at the device and told the handler.  A command whose
\* answer is lost may have been carried out, or may still be: the client gives
\* the slot back when its deadline passes, whatever the device does later.
ExchangeFBS(h) ==
  /\ pc[h] = "exchange"
  /\ \/ /\ op[h] = "status"
        /\ got' = [got EXCEPT ![h] = [ok |-> TRUE, seen |-> writes, kind |-> "read"]]
        /\ late' = FALSE
        /\ UNCHANGED relayVars
     \/ /\ op[h] = "set" /\ MaySend
        /\ writes' = writes + 1
        /\ got' = [got EXCEPT ![h] = [ok |-> TRUE, seen |-> writes', kind |-> "command"]]
        /\ late' = FALSE
        /\ UNCHANGED owed
     \/ /\ got' = [got EXCEPT ![h] = Failed]
        /\ \/ UNCHANGED relayVars
           \/ op[h] = "set" /\ MaySend /\ writes' = writes + 1 /\ UNCHANGED owed
           \/ op[h] = "set" /\ MaySend /\ owed' = owed + 1 /\ UNCHANGED writes
        /\ UNCHANGED late
  /\ pc' = [pc EXCEPT ![h] = "body"]
  /\ UNCHANGED <<slotVars, storeVars, op, rev, scanVars, reboot, unpublished, asked,
                 overlapped>>

\* The device carries out a command nobody waits for any more.
LateCommand ==
  /\ owed > 0
  /\ owed' = owed - 1
  /\ writes' = writes + 1
  /\ late' = TRUE
  /\ UNCHANGED <<slotVars, storeVars, handlerVars, scanVars, reboot, unpublished, asked,
                 overlapped>>

\* 423 or the second 429: handleHTTPError schedules a reboot (Recovery decides
\* whether it is suppressed) while the response, and so the slot, is held.
RecoverableError(h) ==
  /\ pc[h] = "exchange"
  /\ got' = [got EXCEPT ![h] = Failed]
  /\ reboot' \in IF reboot = "none" THEN {"none", "scheduled"} ELSE {reboot}
  /\ pc' = [pc EXCEPT ![h] = "body"]
  /\ UNCHANGED <<slotVars, relayVars, storeVars, op, rev, scanVars, historyVars>>

\* The deferred Body.Close gives the slot back.
GiveSlotBack(h) ==
  /\ pc[h] = "body"
  /\ Slot!Return(h)
  /\ pc' = [pc EXCEPT ![h] = "release"]
  /\ UNCHANGED <<relayVars, storeVars, op, got, rev, scanVars, reboot, historyVars>>

TakeRevision(h) ==
  /\ pc[h] = "release"
  /\ revision' = revision + 1
  /\ rev' = [rev EXCEPT ![h] = revision']
  /\ pc' = [pc EXCEPT ![h] = "record"]
  /\ UNCHANGED <<slotVars, relayVars, row, op, got, scanVars, reboot, historyVars>>

RecordFBS(h) ==
  /\ pc[h] = "record"
  /\ Record(rev[h], got[h])
  /\ unpublished' = FALSE
  /\ pc' = [pc EXCEPT ![h] = "idle"]
  /\ op' = [op EXCEPT ![h] = "status"]       \* the locals end with the handler
  /\ got' = [got EXCEPT ![h] = Failed]
  /\ rev' = [rev EXCEPT ![h] = 0]
  /\ UNCHANGED <<slotVars, relayVars, revision, scanVars, reboot, asked, overlapped, late>>

-----------------------------------------------------------------------------
(* The reboot goroutine: an FBS-priority call that records nothing *)

RebootQueues ==
  /\ reboot = "scheduled"
  /\ Slot!Announce(Reboot)
  /\ reboot' = "wait"
  /\ UNCHANGED <<relayVars, storeVars, handlerVars, scanVars, historyVars>>

RebootTakesSlot ==
  /\ reboot = "wait"
  /\ Slot!GrantFBS(Reboot)
  /\ reboot' = "exchange"
  /\ UNCHANGED <<relayVars, storeVars, handlerVars, scanVars, historyVars>>

RebootEnds ==
  /\ \/ reboot = "wait" /\ Slot!Withdraw(Reboot)
     \/ reboot = "exchange" /\ Slot!Return(Reboot)
  /\ reboot' = "none"
  /\ UNCHANGED <<relayVars, storeVars, handlerVars, scanVars, historyVars>>

-----------------------------------------------------------------------------
(* GET /api/status?refresh=1 and the scan it starts *)

\* statusSnapshot: a request joins the scan that is under way.
RequestRefresh ==
  /\ revision < MaxRevision
  /\ IF scanning
     THEN UNCHANGED <<revision, scanVars, asked>>
     ELSE /\ asked' = \A h \in Handlers : pc[h] = "idle"
          /\ scanning' = TRUE
          /\ revision' = revision + 1
          /\ scanRev' = revision'
          /\ probe' = "job" /\ probeGot' = Failed
  /\ UNCHANGED <<slotVars, relayVars, row, handlerVars, reboot, unpublished, overlapped, late>>

StartProbe ==
  /\ probe = "job"
  /\ Slot!GrantAdmin(Probe)
  /\ probe' = "exchange"
  /\ UNCHANGED <<relayVars, storeVars, handlerVars, scanning, scanRev, probeGot, reboot,
                 historyVars>>

\* The slot is taken or wanted: the row is preserved.
DeferProbe ==
  /\ probe = "job"
  /\ using # {} \/ waiting # {}
  /\ probe' = "done"
  /\ unpublished' = (unpublished \/ (using \cup waiting) \cap Handlers # {})
  /\ asked' = FALSE
  /\ UNCHANGED <<slotVars, relayVars, storeVars, handlerVars, scanning, scanRev, probeGot,
                 reboot, overlapped, late>>

\* The two-minute context ends before the worker reaches the tool.
SkipProbe ==
  /\ probe = "job"
  /\ probe' = "done"
  /\ asked' = FALSE
  /\ UNCHANGED <<slotVars, relayVars, storeVars, handlerVars, scanning, scanRev, probeGot,
                 reboot, unpublished, overlapped, late>>

\* A probe's own 423 or second 429 asks for a reboot too.
ProbeAnswers ==
  /\ probe = "exchange"
  /\ probe' = "answered"
  /\ \/ /\ probeGot' = [ok |-> TRUE, seen |-> writes, kind |-> "read"]
        /\ UNCHANGED <<asked, reboot>>
     \/ /\ probeGot' = Failed
        /\ asked' = FALSE
        /\ reboot' \in IF reboot = "none" THEN {"none", "scheduled"} ELSE {reboot}
  /\ UNCHANGED <<slotVars, relayVars, storeVars, handlerVars, scanning, scanRev,
                 unpublished, overlapped, late>>

\* A call that announces itself cancels the probe's exchange.
DisplaceProbe ==
  /\ probe = "exchange"
  /\ waiting # {}
  /\ probe' = "displaced"
  /\ unpublished' = (unpublished \/ waiting \cap Handlers # {})
  /\ asked' = FALSE
  /\ UNCHANGED <<slotVars, relayVars, storeVars, handlerVars, scanning, scanRev, probeGot,
                 reboot, overlapped, late>>

\* Mutant: an answered probe defers to a call that is waiting by now.
ProbeReturnsSlotDeferred ==
  /\ probe \in {"answered", "displaced"}
  /\ Slot!Return(Probe)
  /\ probe' = IF probe = "answered" /\ waiting = {} THEN "record" ELSE "done"
  /\ UNCHANGED <<relayVars, storeVars, handlerVars, scanning, scanRev, probeGot, reboot,
                 historyVars>>

ProbeReturnsSlot ==
  /\ probe \in {"answered", "displaced"}
  /\ Slot!Return(Probe)
  /\ probe' = IF probe = "answered" THEN "record" ELSE "done"
  /\ UNCHANGED <<relayVars, storeVars, handlerVars, scanning, scanRev, probeGot, reboot,
                 historyVars>>

RecordProbe ==
  /\ probe = "record"
  /\ Record(scanRev, probeGot)
  /\ probe' = "done"
  /\ UNCHANGED <<slotVars, relayVars, revision, handlerVars, scanning, scanRev, probeGot,
                 reboot, historyVars>>

\* All workers are done: the deferred function clears the flag.
EndScan ==
  /\ probe = "done"
  /\ scanning' = FALSE
  /\ probe' = "none" /\ probeGot' = Failed /\ scanRev' = 0
  /\ UNCHANGED <<slotVars, relayVars, storeVars, handlerVars, reboot, historyVars>>

-----------------------------------------------------------------------------
HandlerStep(h) ==
  \/ GiveUpWait(h) \/ TakeSlot(h) \/ ExchangeFBS(h) \/ RecoverableError(h)
  \/ GiveSlotBack(h) \/ TakeRevision(h) \/ RecordFBS(h)

RebootStep == RebootQueues \/ RebootTakesSlot \/ RebootEnds

ScanStep ==
  \/ StartProbe \/ DeferProbe \/ SkipProbe \/ ProbeAnswers \/ DisplaceProbe
  \/ ProbeReturnsSlot \/ RecordProbe \/ EndScan

Next ==
  \/ \E h \in Handlers : (\E o \in {"set", "status"} : BeginFBS(h, o)) \/ HandlerStep(h)
  \/ LateCommand
  \/ RebootStep
  \/ RequestRefresh
  \/ ScanStep

Spec == Init /\ [][Next]_vars

-----------------------------------------------------------------------------
TypeOK ==
  /\ using \subseteq Handlers \cup {Probe, Reboot}
  /\ waiting \subseteq Handlers \cup {Reboot}
  /\ writes \in 0..MaxWrites /\ owed \in 0..MaxWrites /\ writes + owed <= MaxWrites
  /\ revision \in Nat
  /\ row \in [rev : Nat, result : Outcome]
  /\ pc \in [Handlers -> {"idle", "wait", "exchange", "body", "release", "record"}]
  /\ op \in [Handlers -> {"set", "status"}]
  /\ got \in [Handlers -> Outcome]
  /\ rev \in [Handlers -> Nat]
  /\ scanning \in BOOLEAN /\ scanRev \in Nat
  /\ probe \in {"none", "job", "exchange", "answered", "displaced", "record", "done"}
  /\ probeGot \in Outcome
  /\ reboot \in {"none", "scheduled", "wait", "exchange"}
  /\ unpublished \in BOOLEAN /\ asked \in BOOLEAN
  /\ overlapped \in BOOLEAN /\ late \in BOOLEAN

Quiet ==
  /\ \A h \in Handlers : pc[h] = "idle"
  /\ reboot = "none"
  /\ ~scanning

\* README 897: a slow refresh that started earlier cannot overwrite a newer FBS
\* result.  The record of a probe never replaces a result that was read or
\* commanded at the device after the probe read it.
ScanYieldsToFBS ==
  [][ probe = "record" /\ probe' = "done" /\ row' # row
        /\ row'.result.ok /\ row.result.ok =>
        row'.result.seen >= row.result.seen ]_vars

\* When nothing is under way, a row that reports a result shows the state the
\* relay is in.  Overlapping FBS requests break it (README, section 5).
RowIsCurrent == Quiet /\ row.result.ok => row.result.seen = writes

\* RowIsCurrent holds as long as the FBS requests of the tool come one by one,
\* whatever probes, lost answers and reboots come between.  When the device has
\* carried out a command after its deadline it holds again from the next FBS
\* exchange on, also with a scan that began before it: no older reading of a
\* probe survives that exchange.
SerialRowIsCurrent == ~overlapped /\ ~late => RowIsCurrent

\* internal/admin/server.go 584-585: the FBS operation that displaced a probe
\* publishes the result.  Once everything is quiet, a record has followed every
\* probe that gave way to an FBS request, also one that timed out.  (The
\* recovery reboot displaces probes too, and records nothing.)
DisplacedIsPublished == Quiet => ~unpublished

\* README 899: Refresh Status verifies a command.  A refresh that starts its own
\* scan after the last FBS call ended, and whose probe reads the device, leaves
\* a row that a GetStatus produced.  (A refresh that joins a scan under way has
\* no such effect: that scan's revision is older than the command's.)
RefreshVerifies ==
  [][ scanning /\ ~scanning' /\ asked => row.result.kind = "read" ]_vars
=============================================================================

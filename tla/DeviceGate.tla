----------------------------- MODULE DeviceGate -----------------------------
(***************************************************************************)
(* deviceAuthState of internal/shelly/client.go: the gate (a channel that  *)
(* holds one token), the fbsWaiters counter and activeAdminCancel, with    *)
(* every critical section and channel operation of acquireFBS,             *)
(* acquireAdmin and the two release functions as a step of its own, and    *)
(* the attempt loop of getStatus around them.                              *)
(*                                                                         *)
(* A call is a process that runs again and again.  Each acquisition of an  *)
(* Admin call has a context of its own in the code; here the call names    *)
(* the context.  That is sound because no probe begins while an FBS call   *)
(* may hold the cancel function of an earlier acquisition                  *)
(* (NoProbeOvertakes).                                                     *)
(***************************************************************************)
EXTENDS Naturals, FiniteSets

CONSTANTS StatusCalls,   \* FBS GetStatus: up to MaxStatusAttempts attempts
          CommandCalls,  \* FBS Set and recovery Reboot: a single attempt
          AdminCalls,    \* GetStatusAdmin: up to MaxStatusAttempts attempts
          MaxStatusAttempts,
          NoCall

FBSCalls == StatusCalls \cup CommandCalls
Calls    == FBSCalls \cup AdminCalls

ASSUME GateAssumption ==
  /\ IsFiniteSet(FBSCalls)
  /\ FBSCalls \cap AdminCalls = {}
  /\ NoCall \notin Calls
  /\ MaxStatusAttempts \in Nat \ {0}

VARIABLES gate,               \* the token is in the channel
          fbsWaiters,
          activeAdminCancel,  \* the probe whose cancel function is published
          cancelled,          \* probes cancelled with ErrAdminStatusDeferred
          captured,           \* the local cancelAdmin of acquireFBS
          pc,
          attempt

vars == <<gate, fbsWaiters, activeAdminCancel, cancelled, captured, pc, attempt>>

FBSStates   == {"idle", "cancel", "queue", "granted", "holding", "expired", "backoff"}
AdminStates == {"idle", "probing", "clearing", "returning", "backoff"}

Init ==
  /\ gate = TRUE
  /\ fbsWaiters = 0
  /\ activeAdminCancel = NoCall
  /\ cancelled = {}
  /\ captured = [f \in FBSCalls |-> NoCall]
  /\ pc = [c \in Calls |-> "idle"]
  /\ attempt = [c \in Calls |-> 0]

Goto(c, label) == pc' = [pc EXCEPT ![c] = label]

MaxAttempts(c) == IF c \in CommandCalls THEN 1 ELSE MaxStatusAttempts

-----------------------------------------------------------------------------
(* acquireFBS *)

\* Mutant: a retry does not count as an attempt.
AnnounceFBSUncounted(f) ==
  /\ pc[f] \in {"idle", "backoff"}
  /\ attempt' = [attempt EXCEPT ![f] = IF pc[f] = "idle" THEN 1 ELSE @]
  /\ fbsWaiters' = fbsWaiters + 1
  /\ captured' = [captured EXCEPT ![f] = activeAdminCancel]
  /\ Goto(f, "cancel")
  /\ UNCHANGED <<gate, activeAdminCancel, cancelled>>

\* First critical section: count the waiter, read the published cancel.
AnnounceFBS(f) ==
  /\ pc[f] \in {"idle", "backoff"}
  /\ attempt' = [attempt EXCEPT ![f] = IF pc[f] = "idle" THEN 1 ELSE @ + 1]
  /\ fbsWaiters' = fbsWaiters + 1
  /\ captured' = [captured EXCEPT ![f] = activeAdminCancel]
  /\ Goto(f, "cancel")
  /\ UNCHANGED <<gate, activeAdminCancel, cancelled>>

\* Mutant: the captured cancel function is not called.
CancelAdminForgotten(f) ==
  /\ pc[f] = "cancel"
  /\ Goto(f, "queue")
  /\ UNCHANGED <<gate, fbsWaiters, activeAdminCancel, cancelled, captured, attempt>>

CancelAdmin(f) ==
  /\ pc[f] = "cancel"
  /\ cancelled' = cancelled \cup ({captured[f]} \ {NoCall})
  /\ Goto(f, "queue")
  /\ UNCHANGED <<gate, fbsWaiters, activeAdminCancel, captured, attempt>>

\* Mutant: the gate is a closed channel, a receive takes no token.
ReceiveGateFree(f) ==
  /\ pc[f] = "queue"
  /\ gate
  /\ Goto(f, "granted")
  /\ UNCHANGED <<gate, fbsWaiters, activeAdminCancel, cancelled, captured, attempt>>

ReceiveGate(f) ==
  /\ pc[f] = "queue"
  /\ gate
  /\ gate' = FALSE
  /\ Goto(f, "granted")
  /\ UNCHANGED <<fbsWaiters, activeAdminCancel, cancelled, captured, attempt>>

StopWaiting(f) ==
  /\ pc[f] = "granted"
  /\ fbsWaiters' = fbsWaiters - 1
  /\ Goto(f, "holding")
  /\ UNCHANGED <<gate, activeAdminCancel, cancelled, captured, attempt>>

\* ctx.Done() wins the select.
DeadlinePasses(f) ==
  /\ pc[f] = "queue"
  /\ Goto(f, "expired")
  /\ UNCHANGED <<gate, fbsWaiters, activeAdminCancel, cancelled, captured, attempt>>

\* An error shouldRetryStatus accepts leads to the next attempt, while there
\* is one; an answer, another error or the last attempt ends the call.
AfterAttempt(c, mayRetry) ==
  \/ Goto(c, "idle")
  \/ mayRetry /\ attempt[c] < MaxAttempts(c) /\ Goto(c, "backoff")

\* Mutant: the waiter that timed out stays counted.
LeaveQueueCounted(f) ==
  /\ pc[f] = "expired"
  /\ AfterAttempt(f, TRUE)
  /\ UNCHANGED <<gate, fbsWaiters, activeAdminCancel, cancelled, captured, attempt>>

\* context.DeadlineExceeded is a net.Error whose Timeout() holds: retryable.
LeaveQueue(f) ==
  /\ pc[f] = "expired"
  /\ fbsWaiters' = fbsWaiters - 1
  /\ AfterAttempt(f, TRUE)
  /\ UNCHANGED <<gate, activeAdminCancel, cancelled, captured, attempt>>

\* The exchange is over (answer, error or timeout) and the body is closed.
ReleaseFBS(f) ==
  /\ pc[f] = "holding"
  /\ ~gate                     \* the send would block on a full channel
  /\ gate' = TRUE
  /\ AfterAttempt(f, TRUE)
  /\ UNCHANGED <<fbsWaiters, activeAdminCancel, cancelled, captured, attempt>>

\* The caller's context ends while getStatus waits to retry.
AbandonRetry(c) ==
  /\ pc[c] = "backoff"
  /\ Goto(c, "idle")
  /\ UNCHANGED <<gate, fbsWaiters, activeAdminCancel, cancelled, captured, attempt>>

-----------------------------------------------------------------------------
(* acquireAdmin and its release function *)

CanProbe == fbsWaiters = 0 /\ gate

\* The whole body runs under mu, the select has a default branch.
AcquireAdmin(a) ==
  /\ pc[a] \in {"idle", "backoff"}
  /\ CanProbe
  /\ gate' = FALSE
  /\ activeAdminCancel' = a
  /\ cancelled' = cancelled \ {a}       \* a new context
  /\ attempt' = [attempt EXCEPT ![a] = IF pc[a] = "idle" THEN 1 ELSE @ + 1]
  /\ Goto(a, "probing")
  /\ UNCHANGED <<fbsWaiters, captured>>

\* ErrAdminStatusDeferred is final: shouldRetryStatus refuses it.
DeferAdmin(a) ==
  /\ pc[a] = "backoff"
  /\ ~CanProbe
  /\ Goto(a, "idle")
  /\ UNCHANGED <<gate, fbsWaiters, activeAdminCancel, cancelled, captured, attempt>>

\* The exchange ends: an answer, an error, its timeout or its cancellation.
ProbeEnds(a) ==
  /\ pc[a] = "probing"
  /\ Goto(a, "clearing")
  /\ UNCHANGED <<gate, fbsWaiters, activeAdminCancel, cancelled, captured, attempt>>

ClearCancel(a) ==
  /\ pc[a] = "clearing"
  /\ activeAdminCancel' = NoCall
  /\ Goto(a, "returning")
  /\ UNCHANGED <<gate, fbsWaiters, cancelled, captured, attempt>>

\* Mutant: a cancelled probe keeps the token.
ReleaseAdminUncancelled(a) ==
  /\ pc[a] = "returning"
  /\ ~gate
  /\ gate' = (a \notin cancelled)
  /\ AfterAttempt(a, a \notin cancelled)
  /\ UNCHANGED <<fbsWaiters, activeAdminCancel, cancelled, captured, attempt>>

\* cancel(nil) and the send; requestError reads the cause afterwards, so an
\* error of a cancelled probe is a deferral and is not retried.
ReleaseAdmin(a) ==
  /\ pc[a] = "returning"
  /\ ~gate
  /\ gate' = TRUE
  /\ AfterAttempt(a, a \notin cancelled)
  /\ UNCHANGED <<fbsWaiters, activeAdminCancel, cancelled, captured, attempt>>

-----------------------------------------------------------------------------
BeginFBS(f) == pc[f] = "idle" /\ AnnounceFBS(f)
RetryFBS(f) == pc[f] = "backoff" /\ AnnounceFBS(f)

\* What the code of a call does next, the two branches of the select aside.
ProceedFBS(f) ==
  CancelAdmin(f) \/ StopWaiting(f) \/ LeaveQueue(f) \/ ReleaseFBS(f)
    \/ RetryFBS(f) \/ AbandonRetry(f)

BeginAdmin(a) == pc[a] = "idle" /\ AcquireAdmin(a)
RetryAdmin(a) == pc[a] = "backoff" /\ AcquireAdmin(a)

ProceedAdmin(a) ==
  ProbeEnds(a) \/ ClearCancel(a) \/ ReleaseAdmin(a)
    \/ RetryAdmin(a) \/ DeferAdmin(a) \/ AbandonRetry(a)

Next ==
  \/ \E f \in FBSCalls :
       BeginFBS(f) \/ ProceedFBS(f) \/ ReceiveGate(f) \/ DeadlinePasses(f)
  \/ \E a \in AdminCalls : BeginAdmin(a) \/ ProceedAdmin(a)

Spec == Init /\ [][Next]_vars

\* A call that has begun keeps running: exchanges and retry delays have a time
\* limit.  The runtime serves the receivers of a channel first come first
\* served, which gives a waiting receiver strong fairness.  Nothing is assumed
\* of the deadline of a waiting call: it may never pass.
FairSpec ==
  /\ Spec
  /\ \A f \in FBSCalls : WF_vars(ProceedFBS(f)) /\ SF_vars(ReceiveGate(f))
  /\ \A a \in AdminCalls : WF_vars(ProceedAdmin(a))

-----------------------------------------------------------------------------
TypeOK ==
  /\ gate \in BOOLEAN
  /\ fbsWaiters \in Nat
  /\ activeAdminCancel \in AdminCalls \cup {NoCall}
  /\ cancelled \in SUBSET AdminCalls
  /\ captured \in [FBSCalls -> AdminCalls \cup {NoCall}]
  /\ pc \in [Calls -> FBSStates \cup AdminStates]
  /\ \A f \in FBSCalls : pc[f] \in FBSStates
  /\ \A a \in AdminCalls : pc[a] \in AdminStates
  /\ attempt \in [Calls -> Nat]

\* The calls that own the token, and the FBS calls counted as waiters.
Holds(c) == pc[c] \in {"granted", "holding", "probing", "clearing", "returning"}
Holders  == {c \in Calls : Holds(c)}
Queued   == {f \in FBSCalls : pc[f] \in {"cancel", "queue"}}
Counted  == {f \in FBSCalls : pc[f] \in {"cancel", "queue", "granted", "expired"}}

\* Requests to one Shelly are serialized, and the token is never lost or
\* doubled: it is in the channel exactly when no call owns it, so that no
\* release can block (lines 853-855) and the digest session next to the gate
\* has one user.
SlotExclusive ==
  /\ \A c, d \in Holders : c = d
  /\ gate <=> Holders = {}

\* fbsWaiters, incremented and decremented on three paths, is exact.
WaitersExact == fbsWaiters = Cardinality(Counted)

\* An FBS call that has passed its cancel step never waits behind a probe
\* that still runs undisturbed: the probe's context is cancelled already.
ProbeIsPreempted ==
  \A f \in FBSCalls, a \in AdminCalls :
    pc[f] = "queue" /\ pc[a] = "probing" => a \in cancelled

\* While FBS calls are counted no probe begins, whatever the order in which
\* they arrive, time out and are granted.
NoProbeOvertakes ==
  [][ \A a \in AdminCalls :
        pc[a] # "probing" /\ pc'[a] = "probing" => Counted = {} ]_vars

Slot == INSTANCE DeviceSlot WITH using <- Holders, waiting <- Queued

\* The gate implements the abstract slot.
ImplementsSlot == Slot!SlotSpec

\* A call that began ends, and leaves the device to others: a waiting production
\* call is served even if its deadline never passes and whatever stream of
\* probes and other production calls competes with it.
EveryCallEnds == \A c \in Calls : pc[c] # "idle" ~> pc[c] = "idle"
=============================================================================

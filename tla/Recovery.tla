------------------------------ MODULE Recovery ------------------------------
(***************************************************************************)
(* Automatic recovery of one Shelly: scheduleReboot of                     *)
(* internal/shelly/client.go, called by status and set handlers that got   *)
(* 423 or a second 429, and the goroutine it starts, which queues for the  *)
(* device slot, sends Shelly.Reboot and clears inFlight.  Time is counted  *)
(* in ticks.                                                               *)
(***************************************************************************)
EXTENDS Integers

CONSTANTS Callers,         \* handlers that report a recoverable status
          Cooldown,        \* rebootCooldown
          RebootTimeout,   \* rebootRequestTimeout: no request is sent later
          MaxLag,          \* longest time a goroutine that can run is held up
          MaxTime          \* bound on the clock

ASSUME RecoveryAssumption ==
  /\ Cooldown \in Nat /\ RebootTimeout \in Nat /\ MaxLag \in Nat
  /\ MaxTime \in Nat

VARIABLES now,
          inFlight, lastAttempt,   \* recoveryByIP[ip]; lastAttempt 0: zero time
          stamp,                   \* the local now of a caller; 0: not calling
          reboots,                 \* the reboot goroutines: "due", "begun" with the
                                   \* context, or "sent", and since when
          lastRebootSent           \* when a reboot request last left; 0: never

recoveryVars == <<now, inFlight, lastAttempt, stamp, reboots, lastRebootSent>>

RecoveryInit ==
  /\ now = 1
  /\ inFlight = FALSE /\ lastAttempt = 0
  /\ stamp = [c \in Callers |-> 0]
  /\ reboots = {}
  /\ lastRebootSent = 0

\* A caller is in its critical section within MaxLag of reading the clock, and a
\* goroutine begins within MaxLag of the go statement.
Tick ==
  /\ now < MaxTime
  /\ \A c \in Callers : stamp[c] # 0 => now - stamp[c] < MaxLag
  /\ \A r \in reboots : r.state = "due" => now - r.since < MaxLag
  /\ now' = now + 1
  /\ UNCHANGED <<inFlight, lastAttempt, stamp, reboots, lastRebootSent>>

\* now := time.Now(), read before recoveryMu is taken.
ReadClock(c) ==
  /\ stamp[c] = 0
  /\ stamp' = [stamp EXCEPT ![c] = now]
  /\ UNCHANGED <<now, inFlight, lastAttempt, reboots, lastRebootSent>>

\* Mutant: the flag is not looked at.
SuppressedByCooldown(c) == lastAttempt # 0 /\ stamp[c] - lastAttempt < Cooldown

Suppressed(c) ==
  inFlight \/ (lastAttempt # 0 /\ stamp[c] - lastAttempt < Cooldown)

\* The critical section and, when nothing suppresses it, the go statement.
ScheduleReboot(c) ==
  /\ stamp[c] # 0
  /\ stamp' = [stamp EXCEPT ![c] = 0]
  /\ IF Suppressed(c)
     THEN UNCHANGED <<inFlight, lastAttempt, reboots>>
     ELSE /\ inFlight' = TRUE
          /\ lastAttempt' = stamp[c]
          /\ reboots' = reboots \cup {[since |-> now, state |-> "due"]}
  /\ UNCHANGED <<now, lastRebootSent>>

\* The goroutine runs and makes its context.
StartReboot(r) ==
  /\ r \in reboots
  /\ r.state = "due"
  /\ reboots' = (reboots \ {r}) \cup {[since |-> now, state |-> "begun"]}
  /\ UNCHANGED <<now, inFlight, lastAttempt, stamp, lastRebootSent>>

\* The reboot request leaves, at once or after a wait for the slot, before the
\* context of the goroutine ends.
SendReboot(r) ==
  /\ r \in reboots
  /\ r.state = "begun"
  /\ now <= r.since + RebootTimeout
  /\ reboots' = (reboots \ {r}) \cup {[since |-> r.since, state |-> "sent"]}
  /\ lastRebootSent' = now
  /\ UNCHANGED <<now, inFlight, lastAttempt, stamp>>

\* Mutant: a reboot that returns gives up its cooldown too.
RebootReturnsForgotten(r) ==
  /\ r \in reboots
  /\ r.state # "due"
  /\ reboots' = reboots \ {r}
  /\ inFlight' = FALSE
  /\ lastAttempt' = 0
  /\ UNCHANGED <<now, stamp, lastRebootSent>>

\* Reboot returned: an answer, an error or its timeout, sent or not.  A failed
\* reboot is not followed by another one.
RebootReturns(r) ==
  /\ r \in reboots
  /\ r.state # "due"
  /\ reboots' = reboots \ {r}
  /\ inFlight' = FALSE
  /\ UNCHANGED <<now, lastAttempt, stamp, lastRebootSent>>

RecoveryNext ==
  \/ Tick
  \/ \E c \in Callers : ReadClock(c) \/ ScheduleReboot(c)
  \/ \E r \in reboots : StartReboot(r) \/ SendReboot(r) \/ RebootReturns(r)

RecoverySpec == RecoveryInit /\ [][RecoveryNext]_recoveryVars

-----------------------------------------------------------------------------
RecoveryTypeOK ==
  /\ now \in Nat \ {0}
  /\ inFlight \in BOOLEAN
  /\ lastAttempt \in 0..now
  /\ stamp \in [Callers -> 0..now]
  /\ reboots \subseteq [since : Nat, state : {"due", "begun", "sent"}]
  /\ lastRebootSent \in 0..now

\* At most one reboot is under way, and inFlight says so: the flag is neither
\* lost nor left behind by any order of handlers and goroutines.
OneRebootAtATime ==
  /\ inFlight <=> reboots # {}
  /\ \A r, s \in reboots : r = s

\* lastAttempt never moves back, although each caller reads the clock before
\* it takes the lock.
LastAttemptAdvances == [][lastAttempt' >= lastAttempt]_recoveryVars

\* What the cooldown gives the device: two reboot requests are at least
\* Cooldown apart, less the time the first one may have waited for its slot,
\* the lag of the clock reading and the lag of the goroutine.
RebootsAreSpaced ==
  [][ lastRebootSent' # lastRebootSent /\ lastRebootSent # 0 =>
        lastRebootSent' - lastRebootSent >= Cooldown - RebootTimeout - 2 * MaxLag ]_recoveryVars
=============================================================================

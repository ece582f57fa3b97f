---------------------------- MODULE Shelly_proofs ----------------------------
(***************************************************************************)
(* Proofs about the three parts of internal/shelly/client.go: the gate of  *)
(* one device (DeviceGate), the exchange that holds it (DigestExchange)    *)
(* and the automatic reboot (Recovery), each for every value of its        *)
(* constants.                                                              *)
(***************************************************************************)
EXTENDS DeviceGate, DigestExchange, Recovery, TLAPS, FiniteSetTheorems

-----------------------------------------------------------------------------
(* The gate is exclusive, its counter exact, a probe in the way of an FBS  *)
(* call is cancelled, and the gate implements DeviceSlot.                  *)

\* The published cancel function is that of the probe between its acquisition
\* and the first critical section of its release.
CancelIsPublished ==
  \A a \in AdminCalls : activeAdminCancel = a <=> pc[a] \in {"probing", "clearing"}

\* An FBS call about to cancel holds the cancel function of the probe that
\* runs: none can have begun since the call was counted.
CaptureIsCurrent ==
  \A f \in FBSCalls, a \in AdminCalls :
    pc[f] = "cancel" /\ pc[a] = "probing" => captured[f] = a

GateInv ==
  /\ TypeOK
  /\ SlotExclusive
  /\ WaitersExact
  /\ CancelIsPublished
  /\ CaptureIsCurrent
  /\ ProbeIsPreempted

-----------------------------------------------------------------------------
\* A step that moves call c to a label and leaves the others alone.
LEMMA GotoFact ==
  ASSUME TypeOK, NEW c \in Calls, NEW label \in FBSStates \cup AdminStates,
         Goto(c, label)
  PROVE  /\ pc' \in [Calls -> FBSStates \cup AdminStates]
         /\ pc'[c] = label
         /\ \A d \in Calls \ {c} : pc'[d] = pc[d]
  BY DEF TypeOK, Goto

\* The outcome of an attempt leaves the call idle or waiting to retry.
LEMMA AfterAttemptFact ==
  ASSUME TypeOK, NEW c \in Calls, NEW mayRetry \in BOOLEAN,
         AfterAttempt(c, mayRetry)
  PROVE  /\ pc' \in [Calls -> FBSStates \cup AdminStates]
         /\ pc'[c] \in {"idle", "backoff"}
         /\ \A d \in Calls \ {c} : pc'[d] = pc[d]
  BY DEF TypeOK, Goto, AfterAttempt, FBSStates, AdminStates

\* The counter follows the set of counted calls when one call enters it,
\* leaves it or does neither.
LEMMA CountedFacts ==
  /\ IsFiniteSet(Counted)
  /\ Cardinality(Counted) \in Nat
  /\ Cardinality(Counted) = 0 <=> Counted = {}
  /\ \A f \in FBSCalls \ Counted :
       Cardinality(Counted \cup {f}) = Cardinality(Counted) + 1
  /\ \A f \in Counted :
       Cardinality(Counted \ {f}) = Cardinality(Counted) - 1
  <1>1. IsFiniteSet(FBSCalls)
    BY GateAssumption
  <1>2. Counted \subseteq FBSCalls
    BY DEF Counted
  <1>3. IsFiniteSet(Counted)
    BY <1>1, <1>2, FS_Subset
  <1>4. QED
    BY <1>3, FS_CardinalityType, FS_EmptySet, FS_AddElement, FS_RemoveElement
    DEF Counted

\* What a step of an FBS call preserves follows from where the call goes.
LEMMA FBSStepInv ==
  ASSUME GateInv, NEW f \in FBSCalls,
         BeginFBS(f) \/ ProceedFBS(f) \/ ReceiveGate(f) \/ DeadlinePasses(f)
  PROVE  GateInv'
  <1> USE DEF GateInv
  <1> f \in Calls /\ f \notin AdminCalls
    BY GateAssumption DEF Calls
  <1>1. CASE AnnounceFBS(f)
    <2> USE <1>1 DEF AnnounceFBS
    <2>1. /\ pc' \in [Calls -> FBSStates \cup AdminStates]
          /\ pc'[f] = "cancel"
          /\ \A d \in Calls \ {f} : pc'[d] = pc[d]
      BY GotoFact DEF FBSStates
    <2>2. TypeOK'
      <3>1. (IF pc[f] = "idle" THEN 1 ELSE attempt[f] + 1) \in Nat
        BY DEF TypeOK
      <3>2. attempt' \in [Calls -> Nat]
        BY <3>1 DEF TypeOK
      <3>3. QED
        BY <2>1, <3>2 DEF TypeOK, Calls, FBSStates, AdminStates
    <2>3. SlotExclusive'
      BY <2>1 DEF TypeOK, SlotExclusive, Holders, Holds
    <2>4. WaitersExact'
      <3>1. f \notin Counted /\ Counted' = Counted \cup {f}
        BY <2>1 DEF Counted, TypeOK, Calls
      <3>2. QED
        BY <3>1, CountedFacts DEF WaitersExact
    <2>5. CancelIsPublished'
      BY <2>1 DEF CancelIsPublished, Calls
    <2>6. CaptureIsCurrent' /\ ProbeIsPreempted'
      BY <2>1, GateAssumption
      DEF CaptureIsCurrent, ProbeIsPreempted, CancelIsPublished, TypeOK, Calls
    <2>7. QED
      BY <2>2, <2>3, <2>4, <2>5, <2>6
  <1>2. CASE CancelAdmin(f)
    <2> USE <1>2 DEF CancelAdmin
    <2>1. /\ pc' \in [Calls -> FBSStates \cup AdminStates]
          /\ pc'[f] = "queue"
          /\ \A d \in Calls \ {f} : pc'[d] = pc[d]
      BY GotoFact DEF FBSStates
    <2>2. TypeOK'
      BY <2>1, CountedFacts DEF TypeOK, WaitersExact, Counted, Calls, FBSStates, AdminStates
    <2>3. SlotExclusive'
      BY <2>1 DEF TypeOK, SlotExclusive, Holders, Holds
    <2>4. WaitersExact'
      <3>1. Counted' = Counted
        BY <2>1 DEF Counted, TypeOK, Calls
      <3>2. QED
        BY <3>1 DEF WaitersExact
    <2>5. CancelIsPublished'
      BY <2>1 DEF CancelIsPublished, Calls
    <2>6. CaptureIsCurrent' /\ ProbeIsPreempted'
      BY <2>1, GateAssumption
      DEF CaptureIsCurrent, ProbeIsPreempted, CancelIsPublished, TypeOK, Calls
    <2>7. QED
      BY <2>2, <2>3, <2>4, <2>5, <2>6
  <1>3. CASE ReceiveGate(f)
    <2> USE <1>3 DEF ReceiveGate
    <2>1. /\ pc' \in [Calls -> FBSStates \cup AdminStates]
          /\ pc'[f] = "granted"
          /\ \A d \in Calls \ {f} : pc'[d] = pc[d]
      BY GotoFact DEF FBSStates
    <2>2. TypeOK'
      BY <2>1, CountedFacts DEF TypeOK, WaitersExact, Counted, Calls, FBSStates, AdminStates
    <2>3. SlotExclusive'
      BY <2>1 DEF TypeOK, SlotExclusive, Holders, Holds
    <2>4. WaitersExact'
      <3>1. Counted' = Counted
        BY <2>1 DEF Counted, TypeOK, Calls
      <3>2. QED
        BY <3>1 DEF WaitersExact
    <2>5. CancelIsPublished'
      BY <2>1 DEF CancelIsPublished, Calls
    <2>6. CaptureIsCurrent' /\ ProbeIsPreempted'
      BY <2>1, GateAssumption
      DEF CaptureIsCurrent, ProbeIsPreempted, CancelIsPublished, TypeOK, Calls
    <2>7. QED
      BY <2>2, <2>3, <2>4, <2>5, <2>6
  <1>4. CASE StopWaiting(f)
    <2> USE <1>4 DEF StopWaiting
    <2>1. /\ pc' \in [Calls -> FBSStates \cup AdminStates]
          /\ pc'[f] = "holding"
          /\ \A d \in Calls \ {f} : pc'[d] = pc[d]
      BY GotoFact DEF FBSStates
    <2>2. TypeOK'
      BY <2>1, CountedFacts DEF TypeOK, WaitersExact, Counted, Calls, FBSStates, AdminStates
    <2>3. SlotExclusive'
      BY <2>1 DEF TypeOK, SlotExclusive, Holders, Holds
    <2>4. WaitersExact'
      <3>1. f \in Counted /\ Counted' = Counted \ {f}
        BY <2>1 DEF Counted, TypeOK, Calls
      <3>2. QED
        BY <3>1, CountedFacts DEF WaitersExact
    <2>5. CancelIsPublished'
      BY <2>1 DEF CancelIsPublished, Calls
    <2>6. CaptureIsCurrent' /\ ProbeIsPreempted'
      BY <2>1, GateAssumption
      DEF CaptureIsCurrent, ProbeIsPreempted, CancelIsPublished, TypeOK, Calls
    <2>7. QED
      BY <2>2, <2>3, <2>4, <2>5, <2>6
  <1>5. CASE DeadlinePasses(f)
    <2> USE <1>5 DEF DeadlinePasses
    <2>1. /\ pc' \in [Calls -> FBSStates \cup AdminStates]
          /\ pc'[f] = "expired"
          /\ \A d \in Calls \ {f} : pc'[d] = pc[d]
      BY GotoFact DEF FBSStates
    <2>2. TypeOK'
      BY <2>1, CountedFacts DEF TypeOK, WaitersExact, Counted, Calls, FBSStates, AdminStates
    <2>3. SlotExclusive'
      BY <2>1 DEF TypeOK, SlotExclusive, Holders, Holds
    <2>4. WaitersExact'
      <3>1. Counted' = Counted
        BY <2>1 DEF Counted, TypeOK, Calls
      <3>2. QED
        BY <3>1 DEF WaitersExact
    <2>5. CancelIsPublished'
      BY <2>1 DEF CancelIsPublished, Calls
    <2>6. CaptureIsCurrent' /\ ProbeIsPreempted'
      BY <2>1, GateAssumption
      DEF CaptureIsCurrent, ProbeIsPreempted, CancelIsPublished, TypeOK, Calls
    <2>7. QED
      BY <2>2, <2>3, <2>4, <2>5, <2>6
  <1>6. CASE LeaveQueue(f)
    <2> USE <1>6 DEF LeaveQueue
    <2>1. /\ pc' \in [Calls -> FBSStates \cup AdminStates]
          /\ pc'[f] \in {"idle", "backoff"}
          /\ \A d \in Calls \ {f} : pc'[d] = pc[d]
      BY AfterAttemptFact
    <2>2. TypeOK'
      BY <2>1, CountedFacts DEF TypeOK, WaitersExact, Counted, Calls, FBSStates, AdminStates
    <2>3. SlotExclusive'
      BY <2>1 DEF TypeOK, SlotExclusive, Holders, Holds
    <2>4. WaitersExact'
      <3>1. f \in Counted /\ Counted' = Counted \ {f}
        BY <2>1 DEF Counted, TypeOK, Calls
      <3>2. QED
        BY <3>1, CountedFacts DEF WaitersExact
    <2>5. CancelIsPublished'
      BY <2>1 DEF CancelIsPublished, Calls
    <2>6. CaptureIsCurrent' /\ ProbeIsPreempted'
      BY <2>1, GateAssumption
      DEF CaptureIsCurrent, ProbeIsPreempted, CancelIsPublished, TypeOK, Calls
    <2>7. QED
      BY <2>2, <2>3, <2>4, <2>5, <2>6
  <1>7. CASE ReleaseFBS(f)
    <2> USE <1>7 DEF ReleaseFBS
    <2>1. /\ pc' \in [Calls -> FBSStates \cup AdminStates]
          /\ pc'[f] \in {"idle", "backoff"}
          /\ \A d \in Calls \ {f} : pc'[d] = pc[d]
      BY AfterAttemptFact
    <2>2. TypeOK'
      BY <2>1, CountedFacts DEF TypeOK, WaitersExact, Counted, Calls, FBSStates, AdminStates
    <2>3. SlotExclusive'
      BY <2>1 DEF TypeOK, SlotExclusive, Holders, Holds
    <2>4. WaitersExact'
      <3>1. Counted' = Counted
        BY <2>1 DEF Counted, TypeOK, Calls
      <3>2. QED
        BY <3>1 DEF WaitersExact
    <2>5. CancelIsPublished'
      BY <2>1 DEF CancelIsPublished, Calls
    <2>6. CaptureIsCurrent' /\ ProbeIsPreempted'
      BY <2>1, GateAssumption
      DEF CaptureIsCurrent, ProbeIsPreempted, CancelIsPublished, TypeOK, Calls
    <2>7. QED
      BY <2>2, <2>3, <2>4, <2>5, <2>6
  <1>8. CASE AbandonRetry(f)
    <2> USE <1>8 DEF AbandonRetry
    <2>1. /\ pc' \in [Calls -> FBSStates \cup AdminStates]
          /\ pc'[f] = "idle"
          /\ \A d \in Calls \ {f} : pc'[d] = pc[d]
      BY GotoFact DEF FBSStates
    <2>2. TypeOK'
      BY <2>1, CountedFacts DEF TypeOK, WaitersExact, Counted, Calls, FBSStates, AdminStates
    <2>3. SlotExclusive'
      BY <2>1 DEF TypeOK, SlotExclusive, Holders, Holds
    <2>4. WaitersExact'
      <3>1. Counted' = Counted
        BY <2>1 DEF Counted, TypeOK, Calls
      <3>2. QED
        BY <3>1 DEF WaitersExact
    <2>5. CancelIsPublished'
      BY <2>1 DEF CancelIsPublished, Calls
    <2>6. CaptureIsCurrent' /\ ProbeIsPreempted'
      BY <2>1, GateAssumption
      DEF CaptureIsCurrent, ProbeIsPreempted, CancelIsPublished, TypeOK, Calls
    <2>7. QED
      BY <2>2, <2>3, <2>4, <2>5, <2>6
  <1>9. QED
    BY <1>1, <1>2, <1>3, <1>4, <1>5, <1>6, <1>7, <1>8 DEF BeginFBS, ProceedFBS, RetryFBS

\* The same for a step of a probe, which leaves the counted calls alone.
LEMMA AdminStepInv ==
  ASSUME GateInv, NEW a \in AdminCalls, BeginAdmin(a) \/ ProceedAdmin(a)
  PROVE  GateInv'
  <1> USE DEF GateInv
  <1> a \in Calls /\ a \notin FBSCalls
    BY GateAssumption DEF Calls
  <1>1. CASE AcquireAdmin(a)
    <2> USE <1>1 DEF AcquireAdmin
    <2>1. /\ pc' \in [Calls -> FBSStates \cup AdminStates]
          /\ pc'[a] = "probing"
          /\ \A d \in Calls \ {a} : pc'[d] = pc[d]
      BY GotoFact DEF AdminStates
    <2>2. TypeOK'
      <3>1. (IF pc[a] = "idle" THEN 1 ELSE attempt[a] + 1) \in Nat
        BY DEF TypeOK
      <3>2. attempt' \in [Calls -> Nat]
        BY <3>1 DEF TypeOK
      <3>3. QED
        BY <2>1, <3>2 DEF TypeOK, Calls, FBSStates, AdminStates
    <2>3. SlotExclusive'
      BY <2>1 DEF TypeOK, SlotExclusive, Holders, Holds, CanProbe
    <2>4. Counted' = Counted
      BY <2>1 DEF Counted, Calls
    <2>5. WaitersExact'
      BY <2>4 DEF WaitersExact
    <2>6. CancelIsPublished'
      BY <2>1, GateAssumption DEF CancelIsPublished, SlotExclusive, Holders, Holds, Calls, CanProbe
    <2>7. Counted = {}
      BY CountedFacts DEF CanProbe, WaitersExact
    <2>8. \A f \in FBSCalls : pc'[f] \notin {"cancel", "queue"}
      BY <2>4, <2>7 DEF Counted
    <2>9. CaptureIsCurrent' /\ ProbeIsPreempted'
      <3> HIDE DEF AcquireAdmin
      <3> QED
        BY <2>8 DEF CaptureIsCurrent, ProbeIsPreempted
    <2>10. QED
      BY <2>2, <2>3, <2>5, <2>6, <2>9
  <1>2. CASE DeferAdmin(a)
    <2> USE <1>2 DEF DeferAdmin
    <2>1. /\ pc' \in [Calls -> FBSStates \cup AdminStates]
          /\ pc'[a] = "idle"
          /\ \A d \in Calls \ {a} : pc'[d] = pc[d]
      BY GotoFact DEF AdminStates
    <2>2. TypeOK'
      BY <2>1 DEF TypeOK, Calls, FBSStates, AdminStates
    <2>3. SlotExclusive'
      BY <2>1 DEF TypeOK, SlotExclusive, Holders, Holds
    <2>4. Counted' = Counted
      BY <2>1 DEF Counted, Calls
    <2>5. WaitersExact'
      BY <2>4 DEF WaitersExact
    <2>6. CancelIsPublished'
      BY <2>1, GateAssumption DEF CancelIsPublished, SlotExclusive, Holders, Holds, Calls
    <2>7. CaptureIsCurrent' /\ ProbeIsPreempted'
      BY <2>1 DEF CaptureIsCurrent, ProbeIsPreempted, Calls
    <2>8. QED
      BY <2>2, <2>3, <2>5, <2>6, <2>7
  <1>3. CASE ProbeEnds(a)
    <2> USE <1>3 DEF ProbeEnds
    <2>1. /\ pc' \in [Calls -> FBSStates \cup AdminStates]
          /\ pc'[a] = "clearing"
          /\ \A d \in Calls \ {a} : pc'[d] = pc[d]
      BY GotoFact DEF AdminStates
    <2>2. TypeOK'
      BY <2>1 DEF TypeOK, Calls, FBSStates, AdminStates
    <2>3. SlotExclusive'
      BY <2>1 DEF TypeOK, SlotExclusive, Holders, Holds
    <2>4. Counted' = Counted
      BY <2>1 DEF Counted, Calls
    <2>5. WaitersExact'
      BY <2>4 DEF WaitersExact
    <2>6. CancelIsPublished'
      BY <2>1, GateAssumption DEF CancelIsPublished, SlotExclusive, Holders, Holds, Calls
    <2>7. CaptureIsCurrent' /\ ProbeIsPreempted'
      BY <2>1 DEF CaptureIsCurrent, ProbeIsPreempted, Calls
    <2>8. QED
      BY <2>2, <2>3, <2>5, <2>6, <2>7
  <1>4. CASE ClearCancel(a)
    <2> USE <1>4 DEF ClearCancel
    <2>1. /\ pc' \in [Calls -> FBSStates \cup AdminStates]
          /\ pc'[a] = "returning"
          /\ \A d \in Calls \ {a} : pc'[d] = pc[d]
      BY GotoFact DEF AdminStates
    <2>2. TypeOK'
      BY <2>1 DEF TypeOK, Calls, FBSStates, AdminStates
    <2>3. SlotExclusive'
      BY <2>1 DEF TypeOK, SlotExclusive, Holders, Holds
    <2>4. Counted' = Counted
      BY <2>1 DEF Counted, Calls
    <2>5. WaitersExact'
      BY <2>4 DEF WaitersExact
    <2>6. CancelIsPublished'
      BY <2>1, GateAssumption DEF CancelIsPublished, SlotExclusive, Holders, Holds, Calls
    <2>7. CaptureIsCurrent' /\ ProbeIsPreempted'
      BY <2>1 DEF CaptureIsCurrent, ProbeIsPreempted, Calls
    <2>8. QED
      BY <2>2, <2>3, <2>5, <2>6, <2>7
  <1>5. CASE ReleaseAdmin(a)
    <2> USE <1>5 DEF ReleaseAdmin
    <2>1. /\ pc' \in [Calls -> FBSStates \cup AdminStates]
          /\ pc'[a] \in {"idle", "backoff"}
          /\ \A d \in Calls \ {a} : pc'[d] = pc[d]
      BY AfterAttemptFact
    <2>2. TypeOK'
      BY <2>1 DEF TypeOK, Calls, FBSStates, AdminStates
    <2>3. SlotExclusive'
      BY <2>1 DEF TypeOK, SlotExclusive, Holders, Holds
    <2>4. Counted' = Counted
      BY <2>1 DEF Counted, Calls
    <2>5. WaitersExact'
      BY <2>4 DEF WaitersExact
    <2>6. CancelIsPublished'
      BY <2>1, GateAssumption DEF CancelIsPublished, SlotExclusive, Holders, Holds, Calls
    <2>7. CaptureIsCurrent' /\ ProbeIsPreempted'
      BY <2>1 DEF CaptureIsCurrent, ProbeIsPreempted, Calls
    <2>8. QED
      BY <2>2, <2>3, <2>5, <2>6, <2>7
  <1>6. CASE AbandonRetry(a)
    <2> USE <1>6 DEF AbandonRetry
    <2>1. /\ pc' \in [Calls -> FBSStates \cup AdminStates]
          /\ pc'[a] = "idle"
          /\ \A d \in Calls \ {a} : pc'[d] = pc[d]
      BY GotoFact DEF AdminStates
    <2>2. TypeOK'
      BY <2>1 DEF TypeOK, Calls, FBSStates, AdminStates
    <2>3. SlotExclusive'
      BY <2>1 DEF TypeOK, SlotExclusive, Holders, Holds
    <2>4. Counted' = Counted
      BY <2>1 DEF Counted, Calls
    <2>5. WaitersExact'
      BY <2>4 DEF WaitersExact
    <2>6. CancelIsPublished'
      BY <2>1, GateAssumption DEF CancelIsPublished, SlotExclusive, Holders, Holds, Calls
    <2>7. CaptureIsCurrent' /\ ProbeIsPreempted'
      BY <2>1 DEF CaptureIsCurrent, ProbeIsPreempted, Calls
    <2>8. QED
      BY <2>2, <2>3, <2>5, <2>6, <2>7
  <1>7. QED
    BY <1>1, <1>2, <1>3, <1>4, <1>5, <1>6 DEF BeginAdmin, ProceedAdmin, RetryAdmin

-----------------------------------------------------------------------------
\* The gate's invariant, one step per action.
LEMMA GateInvHolds == Spec => []GateInv
  <1>1. Init => GateInv
    <2> SUFFICES ASSUME Init PROVE GateInv
      OBVIOUS
    <2>1. Counted = {} /\ Holders = {}
      BY DEF Init, Counted, Holders, Holds, Calls
    <2>2. TypeOK
      BY DEF Init, TypeOK, Calls, FBSStates, AdminStates
    <2>3. SlotExclusive /\ WaitersExact
      BY <2>1, FS_EmptySet DEF Init, SlotExclusive, WaitersExact
    <2>4. CancelIsPublished /\ CaptureIsCurrent /\ ProbeIsPreempted
      BY GateAssumption
      DEF Init, CancelIsPublished, CaptureIsCurrent, ProbeIsPreempted, Calls
    <2>5. QED
      BY <2>2, <2>3, <2>4 DEF GateInv
  <1>2. GateInv /\ [Next]_vars => GateInv'
    <2>1. CASE UNCHANGED vars
      BY <2>1 DEF vars, GateInv, TypeOK, SlotExclusive, WaitersExact, Counted,
         Holders, Holds, CancelIsPublished, CaptureIsCurrent, ProbeIsPreempted
    <2>2. CASE Next
      BY <2>2, FBSStepInv, AdminStepInv DEF Next
    <2>3. QED
      BY <2>1, <2>2
  <1>3. QED
    BY <1>1, <1>2, PTL DEF Spec

\* Every reachable state is well typed.
THEOREM TypeCorrect == Spec => []TypeOK
  BY GateInvHolds, PTL DEF GateInv

\* RPCs to one Shelly are serialized and the token is conserved (release,
\* client.go 853-855, never blocks).
THEOREM MutualExclusion == Spec => []SlotExclusive
  BY GateInvHolds, PTL DEF GateInv

\* fbsWaiters counts the FBS calls between their announcement and the end of
\* their wait on every path of acquireFBS.
THEOREM WaitersAreCounted == Spec => []WaitersExact
  BY GateInvHolds, PTL DEF GateInv

\* An FBS call that waits finds a running probe cancelled.
THEOREM Preemption == Spec => []ProbeIsPreempted
  BY GateInvHolds, PTL DEF GateInv

-----------------------------------------------------------------------------
\* Only AcquireAdmin starts a probe, and it reads fbsWaiters = 0.
LEMMA ProbeStart ==
  ASSUME GateInv, [Next]_vars, NEW a \in AdminCalls,
         pc[a] # "probing", pc'[a] = "probing"
  PROVE  AcquireAdmin(a) /\ Counted = {}
  <1> USE GateAssumption DEF GateInv
  <1>1. ASSUME NEW f \in FBSCalls, BeginFBS(f) \/ ProceedFBS(f)
                                     \/ ReceiveGate(f) \/ DeadlinePasses(f)
        PROVE  FALSE
    BY <1>1 DEF BeginFBS, ProceedFBS, RetryFBS, AnnounceFBS, CancelAdmin,
       ReceiveGate, StopWaiting, DeadlinePasses, LeaveQueue, ReleaseFBS,
       AbandonRetry, AfterAttempt, Goto, TypeOK, Calls
  <1>2. ASSUME NEW b \in AdminCalls, ProceedAdmin(b), ~AcquireAdmin(b)
        PROVE  FALSE
    BY <1>2 DEF ProceedAdmin, RetryAdmin, DeferAdmin, ProbeEnds, ClearCancel,
       ReleaseAdmin, AbandonRetry, AfterAttempt, Goto, TypeOK, Calls
  <1>3. ASSUME NEW b \in AdminCalls, AcquireAdmin(b)
        PROVE  b = a
    BY <1>3 DEF AcquireAdmin, Goto, TypeOK, Calls
  <1>4. AcquireAdmin(a)
    BY <1>1, <1>2, <1>3 DEF Next, vars, BeginAdmin
  <1>5. QED
    BY <1>4, CountedFacts DEF AcquireAdmin, CanProbe, WaitersExact

\* No probe begins while a production call is counted.
THEOREM FBSHasPriority == Spec => NoProbeOvertakes
  <1>1. GateInv /\ [Next]_vars =>
          [\A a \in AdminCalls :
             pc[a] # "probing" /\ pc'[a] = "probing" => Counted = {}]_vars
    BY ProbeStart
  <1>2. QED
    BY <1>1, GateInvHolds, PTL DEF Spec, NoProbeOvertakes

-----------------------------------------------------------------------------
\* A call under way is at one of its attempts, and waits for the next only if there
\* is one.
AttemptsCounted ==
  \A c \in Calls :
    /\ attempt[c] <= MaxAttempts(c)
    /\ pc[c] # "idle" => attempt[c] > 0
    /\ pc[c] = "backoff" => attempt[c] < MaxAttempts(c)

\* The bound of the loop, and no loop at all around a command.
RetriesRunOut ==
  \A c \in Calls :
    /\ attempt[c] <= MaxStatusAttempts
    /\ c \in CommandCalls => pc[c] # "backoff"

\* What a step may do to the attempts of a call: begin at the first, go on to the
\* next from a retry, or leave them as they are.
LEMMA AttemptsCount ==
  ASSUME GateInv, AttemptsCounted, [Next]_vars
  PROVE  AttemptsCounted'
  <1>1. /\ attempt \in [Calls -> Nat] /\ \A c \in Calls : pc[c] \in FBSStates \cup AdminStates
        /\ pc \in [Calls -> FBSStates \cup AdminStates]
    BY DEF GateInv, TypeOK
  <1>2. \A c \in Calls : MaxAttempts(c) \in Nat \ {0}
    BY GateAssumption DEF MaxAttempts
  <1>3. ASSUME NEW c \in Calls, \A d \in Calls \ {c} : pc'[d] = pc[d] /\ attempt'[d] = attempt[d],
               \/ /\ attempt'[c] = attempt[c]
                  /\ pc[c] # "idle" \/ pc'[c] = "idle"
                  /\ pc'[c] = "backoff" => attempt[c] < MaxAttempts(c)
               \/ /\ attempt'[c] = (IF pc[c] = "idle" THEN 1 ELSE attempt[c] + 1)
                  /\ pc[c] \in {"idle", "backoff"} /\ pc'[c] # "backoff"
        PROVE  AttemptsCounted'
    <2>1. /\ attempt'[c] <= MaxAttempts(c)
          /\ pc'[c] # "idle" => attempt'[c] > 0
          /\ pc'[c] = "backoff" => attempt'[c] < MaxAttempts(c)
      BY <1>1, <1>2, <1>3 DEF AttemptsCounted
    <2>2. QED
      BY <1>3, <2>1 DEF AttemptsCounted, MaxAttempts
  <1>4. ASSUME NEW c \in Calls, AnnounceFBS(c) \/ AcquireAdmin(c)
        PROVE  AttemptsCounted'
    <2>1. /\ attempt' = [attempt EXCEPT ![c] = IF pc[c] = "idle" THEN 1 ELSE @ + 1]
          /\ pc[c] \in {"idle", "backoff"}
          /\ \E label \in {"cancel", "probing"} : pc' = [pc EXCEPT ![c] = label]
      BY <1>4 DEF AnnounceFBS, AcquireAdmin, Goto
    <2>2. QED
      BY <1>1, <1>3, <2>1
  <1>5. ASSUME NEW c \in Calls, UNCHANGED attempt, pc[c] # "idle",
               NEW label \in (FBSStates \cup AdminStates) \ {"backoff"},
               Goto(c, label)
        PROVE  AttemptsCounted'
    BY <1>1, <1>3, <1>5 DEF Goto
  <1>6. ASSUME NEW c \in Calls, UNCHANGED attempt, pc[c] # "idle",
               NEW mayRetry \in BOOLEAN, AfterAttempt(c, mayRetry)
        PROVE  AttemptsCounted'
    <2>1. \/ pc' = [pc EXCEPT ![c] = "idle"]
          \/ pc' = [pc EXCEPT ![c] = "backoff"] /\ attempt[c] < MaxAttempts(c)
      BY <1>6 DEF AfterAttempt, Goto
    <2>2. QED
      BY <1>1, <1>3, <1>6, <2>1
  <1>7. ASSUME NEW f \in FBSCalls,
               BeginFBS(f) \/ ProceedFBS(f) \/ ReceiveGate(f) \/ DeadlinePasses(f)
        PROVE  AttemptsCounted'
    <2>1. f \in Calls
      BY DEF Calls
    <2>2. CASE AnnounceFBS(f)
      BY <1>4, <2>1, <2>2
    <2>3. CASE CancelAdmin(f) \/ ReceiveGate(f) \/ StopWaiting(f) \/ DeadlinePasses(f)
                 \/ AbandonRetry(f)
      BY <1>5, <2>1, <2>3 DEF CancelAdmin, ReceiveGate, StopWaiting, DeadlinePasses,
         AbandonRetry, FBSStates
    <2>4. CASE LeaveQueue(f) \/ ReleaseFBS(f)
      BY <1>6, <2>1, <2>4 DEF LeaveQueue, ReleaseFBS
    <2>5. QED
      BY <1>7, <2>2, <2>3, <2>4 DEF BeginFBS, ProceedFBS, RetryFBS
  <1>8. ASSUME NEW a \in AdminCalls, BeginAdmin(a) \/ ProceedAdmin(a)
        PROVE  AttemptsCounted'
    <2>1. a \in Calls
      BY DEF Calls
    <2>2. CASE AcquireAdmin(a)
      BY <1>4, <2>1, <2>2
    <2>3. CASE ProbeEnds(a) \/ ClearCancel(a) \/ DeferAdmin(a) \/ AbandonRetry(a)
      BY <1>5, <2>1, <2>3 DEF ProbeEnds, ClearCancel, DeferAdmin, AbandonRetry, AdminStates
    <2>4. CASE ReleaseAdmin(a)
      BY <1>6, <2>1, <2>4 DEF ReleaseAdmin
    <2>5. QED
      BY <1>8, <2>2, <2>3, <2>4 DEF BeginAdmin, ProceedAdmin, RetryAdmin
  <1>9. CASE UNCHANGED vars
    BY <1>9 DEF vars, AttemptsCounted, MaxAttempts
  <1>10. QED
    BY <1>7, <1>8, <1>9 DEF Next

\* A call ends after at most MaxStatusAttempts attempts, whatever its device and its
\* deadline do, and a command is sent to the device at most once: switching a relay
\* again because an answer was lost could undo what was asked for since.
THEOREM AttemptsRunOut == Spec => []RetriesRunOut
  <1>1. Init => AttemptsCounted
    BY GateAssumption DEF Init, AttemptsCounted, MaxAttempts
  <1>2. ASSUME GateInv, AttemptsCounted
        PROVE  RetriesRunOut
    <2>1. /\ attempt \in [Calls -> Nat] /\ MaxStatusAttempts \in Nat \ {0}
          /\ \A c \in Calls : MaxAttempts(c) <= MaxStatusAttempts /\ MaxAttempts(c) \in Nat
      BY <1>2, GateAssumption DEF GateInv, TypeOK, MaxAttempts
    <2>2. ASSUME NEW c \in CommandCalls PROVE pc[c] # "backoff"
      <3>1. c \in Calls /\ MaxAttempts(c) = 1
        BY DEF Calls, FBSCalls, MaxAttempts
      <3>2. QED
        BY <1>2, <2>1, <3>1 DEF AttemptsCounted
    <2>3. QED
      BY <1>2, <2>1, <2>2 DEF AttemptsCounted, RetriesRunOut
  <1>3. QED
    BY <1>1, <1>2, AttemptsCount, GateInvHolds, PTL DEF Spec

-----------------------------------------------------------------------------
\* A step of an FBS call is a step of the abstract slot or a stutter.
LEMMA FBSStepSimulates ==
  ASSUME GateInv, NEW f \in FBSCalls,
         BeginFBS(f) \/ ProceedFBS(f) \/ ReceiveGate(f) \/ DeadlinePasses(f)
  PROVE  [Slot!SlotNext]_(Slot!slotVars)
  <1> USE DEF GateInv
  <1> DEFINE GoesTo(S) ==
        /\ pc' \in [Calls -> FBSStates \cup AdminStates]
        /\ pc'[f] \in S
        /\ \A d \in Calls \ {f} : pc'[d] = pc[d]
  <1> f \in Calls /\ f \notin AdminCalls
    BY GateAssumption DEF Calls
  <1>1. CASE AnnounceFBS(f)
    <2>1. GoesTo({"cancel"}) /\ pc[f] \in {"idle", "backoff"}
      BY <1>1, GotoFact DEF AnnounceFBS, FBSStates
    <2>2. Holders' = Holders /\ Queued' = Queued \cup {f}
      BY <2>1 DEF Holders, Holds, Queued, Calls
    <2>3. f \notin Holders \cup Queued
      BY <2>1 DEF Holders, Holds, Queued
    <2>4. QED
      BY <2>2, <2>3 DEF Slot!SlotNext, Slot!Announce
  <1>2. CASE ReceiveGate(f)
    <2>1. GoesTo({"granted"}) /\ pc[f] = "queue" /\ gate
      BY <1>2, GotoFact DEF ReceiveGate, FBSStates
    <2>2. Holders = {} /\ f \in Queued
      BY <2>1 DEF SlotExclusive, Queued
    <2>3. Holders' = {f} /\ Queued' = Queued \ {f}
      BY <2>1, <2>2 DEF Holders, Holds, Queued, Calls
    <2>4. QED
      BY <2>2, <2>3 DEF Slot!SlotNext, Slot!GrantFBS
  <1>3. CASE DeadlinePasses(f)
    <2>1. GoesTo({"expired"}) /\ pc[f] = "queue"
      BY <1>3, GotoFact DEF DeadlinePasses, FBSStates
    <2>2. Holders' = Holders /\ f \in Queued /\ Queued' = Queued \ {f}
      BY <2>1 DEF Holders, Holds, Queued, Calls
    <2>3. QED
      BY <2>2 DEF Slot!SlotNext, Slot!Withdraw
  <1>4. CASE ReleaseFBS(f)
    <2>1. GoesTo({"idle", "backoff"}) /\ pc[f] = "holding"
      BY <1>4, AfterAttemptFact DEF ReleaseFBS
    <2>2. Holders = {f}
      BY <2>1 DEF SlotExclusive, Holders, Holds
    <2>3. Holders' = {} /\ Queued' = Queued
      BY <2>1, <2>2 DEF Holders, Holds, Queued, Calls
    <2>4. QED
      BY <2>2, <2>3 DEF Slot!SlotNext, Slot!Return
  <1>5. CASE CancelAdmin(f) \/ StopWaiting(f)
    <2>1. \/ GoesTo({"queue"}) /\ pc[f] = "cancel"
          \/ GoesTo({"holding"}) /\ pc[f] = "granted"
      BY <1>5, GotoFact DEF CancelAdmin, StopWaiting, FBSStates
    <2>2. Holders' = Holders /\ Queued' = Queued
      BY <2>1 DEF Holders, Holds, Queued, Calls
    <2>3. QED
      BY <2>2 DEF Slot!slotVars
  <1>6. CASE LeaveQueue(f) \/ AbandonRetry(f)
    <2>1. GoesTo({"idle", "backoff"}) /\ pc[f] \in {"expired", "backoff"}
      BY <1>6, AfterAttemptFact, GotoFact DEF LeaveQueue, AbandonRetry, FBSStates
    <2>2. Holders' = Holders /\ Queued' = Queued
      BY <2>1 DEF Holders, Holds, Queued, Calls
    <2>3. QED
      BY <2>2 DEF Slot!slotVars
  <1>7. QED
    BY <1>1, <1>2, <1>3, <1>4, <1>5, <1>6 DEF BeginFBS, ProceedFBS, RetryFBS

\* So is a step of a probe: it is granted a free slot nobody waits for.
LEMMA AdminStepSimulates ==
  ASSUME GateInv, NEW a \in AdminCalls, BeginAdmin(a) \/ ProceedAdmin(a)
  PROVE  [Slot!SlotNext]_(Slot!slotVars)
  <1> USE DEF GateInv
  <1> DEFINE GoesTo(S) ==
        /\ pc' \in [Calls -> FBSStates \cup AdminStates]
        /\ pc'[a] \in S
        /\ \A d \in Calls \ {a} : pc'[d] = pc[d]
  <1> a \in Calls /\ a \notin FBSCalls
    BY GateAssumption DEF Calls
  <1>1. CASE AcquireAdmin(a)
    <2>1. GoesTo({"probing"}) /\ CanProbe
      BY <1>1, GotoFact DEF AcquireAdmin, AdminStates
    <2>2. Holders = {} /\ Counted = {}
      BY <2>1, CountedFacts DEF CanProbe, SlotExclusive, WaitersExact
    <2>3. Queued = {} /\ Queued' = {}
      BY <2>1, <2>2 DEF Queued, Counted, Calls
    <2>4. Holders' = {a}
      BY <2>1, <2>2 DEF Holders, Holds
    <2>5. QED
      BY <2>2, <2>3, <2>4 DEF Slot!SlotNext, Slot!GrantAdmin
  <1>2. CASE ReleaseAdmin(a)
    <2>1. GoesTo({"idle", "backoff"}) /\ pc[a] = "returning"
      BY <1>2, AfterAttemptFact DEF ReleaseAdmin
    <2>2. Holders = {a}
      BY <2>1 DEF SlotExclusive, Holders, Holds
    <2>3. Holders' = {} /\ Queued' = Queued
      BY <2>1, <2>2 DEF Holders, Holds, Queued, Calls
    <2>4. QED
      BY <2>2, <2>3 DEF Slot!SlotNext, Slot!Return
  <1>3. CASE ProbeEnds(a) \/ ClearCancel(a)
    <2>1. GoesTo({"clearing", "returning"}) /\ pc[a] \in {"probing", "clearing"}
      BY <1>3, GotoFact DEF ProbeEnds, ClearCancel, AdminStates
    <2>2. Holders' = Holders /\ Queued' = Queued
      BY <2>1 DEF Holders, Holds, Queued, Calls
    <2>3. QED
      BY <2>2 DEF Slot!slotVars
  <1>4. CASE DeferAdmin(a) \/ AbandonRetry(a)
    <2>1. GoesTo({"idle"}) /\ pc[a] = "backoff"
      BY <1>4, GotoFact DEF DeferAdmin, AbandonRetry, AdminStates
    <2>2. Holders' = Holders /\ Queued' = Queued
      BY <2>1 DEF Holders, Holds, Queued, Calls
    <2>3. QED
      BY <2>2 DEF Slot!slotVars
  <1>5. QED
    BY <1>1, <1>2, <1>3, <1>4 DEF BeginAdmin, ProceedAdmin, RetryAdmin

\* acquireFBS, acquireAdmin and their releases implement the exclusive,
\* FBS-first slot of DeviceSlot.
THEOREM GateImplementsSlot == Spec => ImplementsSlot
  <1>1. Init => Slot!SlotInit
    BY DEF Init, Slot!SlotInit, Holders, Holds, Queued, Calls
  <1>2. GateInv /\ [Next]_vars => [Slot!SlotNext]_(Slot!slotVars)
    <2>1. CASE UNCHANGED vars
      BY <2>1 DEF vars, Slot!slotVars, Holders, Holds, Queued
    <2>2. CASE Next
      BY <2>2, FBSStepSimulates, AdminStepSimulates DEF Next
    <2>3. QED
      BY <2>1, <2>2
  <1>3. QED
    BY <1>1, <1>2, GateInvHolds, PTL DEF Spec, ImplementsSlot, Slot!SlotSpec

-----------------------------------------------------------------------------
(* The retry loop of an exchange is bounded by the failures it counts,     *)
(* whatever the device answers.                                            *)

\* The session of this exchange (created by its own challenge).
Fresh == session # NoSession /\ ~session.old

Bit(b) == IF b THEN 1 ELSE 0

\* Every round behind the loop was spent on one of three things, each of
\* which happens once: an unauthorized request that fetched a challenge, a
\* rejected header, a throttle wait.
AttemptsAccounted ==
  phase # "idle" =>
    IF hasPassword
    THEN /\ authAttempt <= authFailures + Bit(throttleRetried) + Bit(Fresh)
         /\ authFailures <= 1
         /\ authFailures = 1 => Fresh
    ELSE authAttempt <= Bit(throttleRetried)

\* A plain request of the authenticated loop is sent without a session.
PlainHasNoSession ==
  phase \in {"sent", "throttled"} /\ hasPassword /\ ~authorized => session = NoSession

WaitIsFirst == phase = "throttled" => ~throttleRetried

\* A fresh session is used at most twice, the second time after a throttle
\* wait, and does not age.
FreshIsUsable ==
  Fresh /\ phase # "idle" =>
    /\ ~session.aged
    /\ phase = "top" => session.uses <= Bit(throttleRetried)
    /\ phase \in {"sent", "throttled"} => session.uses <= 1 + Bit(throttleRetried)

DigestInv ==
  /\ DigestTypeOK
  /\ AtMostFourSends
  /\ AttemptsAccounted
  /\ PlainHasNoSession
  /\ WaitIsFirst
  /\ FreshIsUsable

-----------------------------------------------------------------------------
\* The exchange's invariant, one step per action.
LEMMA DigestInvHolds == DigestSpec => []DigestInv
  <1> USE DigestAssumption
      DEF DigestInv, AtMostFourSends, Results, Final
  <1> USE DEF AttemptsAccounted, PlainHasNoSession, WaitIsFirst, FreshIsUsable, Fresh, Bit
  <1>1. DigestInit => DigestInv
    <2>1. DigestInit => DigestTypeOK
      <3>1. DigestInit => throttleRetried \in BOOLEAN /\ authorized \in BOOLEAN
                    /\ hasPassword \in BOOLEAN
        BY DEF DigestInit
      <3>2. DigestInit => authAttempt \in Nat /\ authFailures \in 0..2
                    /\ issued \in 0..MaxNonces /\ lastSent \in [nonce : Nat, uses : Nat, auth : BOOLEAN]
        BY DEF DigestInit
      <3>3. DigestInit => session \in Session \cup {NoSession} /\ result \in Results
                    /\ phase \in {"idle", "top", "sent", "throttled"}
        BY DEF DigestInit
      <3>4. QED
        BY <3>1, <3>2, <3>3 DEF DigestTypeOK
    <2>2. DigestInit => ~Fresh /\ phase = "idle"
      BY DEF DigestInit
    <2>3. DigestInit => AtMostFourSends
      BY DEF DigestInit
    <2>4. QED
      BY <2>1, <2>2, <2>3
  <1>2. ASSUME DigestInv, [DigestNext]_digestVars PROVE DigestInv'
    <2> USE <1>2
    <2>1. ASSUME NEW p \in BOOLEAN, BeginExchange(p) PROVE DigestInv'
      <3> USE <2>1 DEF BeginExchange
      <3>1. throttleRetried' \in BOOLEAN /\ authorized' \in BOOLEAN
              /\ hasPassword' \in BOOLEAN
        OBVIOUS
      <3>2. session' \in Session \cup {NoSession} /\ ~Fresh'
        BY DEF DigestTypeOK, Session
      <3>3. DigestTypeOK'
        BY <3>1, <3>2 DEF DigestTypeOK
      <3>4. QED
        BY <3>2, <3>3
    <2>2. CASE SessionAges
      <3> USE <2>2 DEF SessionAges
      <3>1. session' \in Session \cup {NoSession}
              /\ (Fresh' => Fresh /\ phase = "idle") /\ (session = NoSession => session' = NoSession)
        BY DEF DigestTypeOK, Session
      <3>2. DigestTypeOK'
        BY <3>1 DEF DigestTypeOK, loop
      <3>3. AttemptsAccounted' /\ FreshIsUsable' /\ PlainHasNoSession'
        BY <3>1 DEF loop, DigestTypeOK, Session
      <3>4. QED
        BY <3>2, <3>3 DEF loop
    <2>3. CASE LoopTop
      <3> USE <2>3 DEF LoopTop
      <3>1. CASE authAttempt >= Limit
        BY <3>1 DEF LoopEnds, Limit, DigestTypeOK, Session, loop
      <3>2. CASE authAttempt < Limit /\ (~hasPassword \/ Usable = NoSession)
        <4>1. SendPlain /\ UNCHANGED <<loop, issued>>
          BY <3>2 DEF DigestTypeOK, Limit
        <4> USE <4>1 DEF SendPlain
        <4>2. authorized' \in BOOLEAN
          OBVIOUS
        <4>3. hasPassword => ~Fresh /\ session' = NoSession
          BY <3>2 DEF Usable, Expired, DigestTypeOK, Session
        <4>4. ~hasPassword => session' = session
          OBVIOUS
        <4>5. DigestTypeOK'
          BY <4>2, <4>3, <4>4 DEF DigestTypeOK, loop
        <4>6. AttemptsAccounted' /\ AtMostFourSends'
          BY <4>3, <4>4 DEF loop, DigestTypeOK
        <4>7. FreshIsUsable' /\ PlainHasNoSession'
          BY <4>3, <4>4 DEF loop, DigestTypeOK, Session
        <4>8. QED
          BY <4>5, <4>6, <4>7 DEF loop
      <3>3. CASE authAttempt < Limit /\ hasPassword /\ Usable # NoSession
        <4>1. session # NoSession /\ session \in Session /\ session.uses < MaxNonceUses
          BY <3>3 DEF Usable, Expired, DigestTypeOK, Session
        <4>2. SendAuthorized /\ UNCHANGED <<loop, issued>>
          BY <3>3, <4>1 DEF DigestTypeOK, Session, Limit
        <4> USE <4>2 DEF SendAuthorized
        <4>3. authorized' \in BOOLEAN /\ session.auth \in BOOLEAN
          BY <4>1 DEF Session
        <4>4. /\ session' \in Session /\ session' # NoSession
              /\ lastSent' \in [nonce : Nat, uses : Nat, auth : BOOLEAN]
          BY <4>1 DEF Session
        <4>5. DigestTypeOK'
          BY <4>3, <4>4 DEF DigestTypeOK, loop
        <4>6. (Fresh' <=> Fresh) /\ session'.uses = session.uses + 1
                /\ session'.aged = session.aged
          BY <4>1, <4>4 DEF Session
        <4>7. AttemptsAccounted' /\ AtMostFourSends'
          BY <4>6 DEF loop, DigestTypeOK
        <4>8. FreshIsUsable' /\ PlainHasNoSession'
          BY <4>6, <4>1 DEF loop, DigestTypeOK, Session
        <4>9. QED
          BY <4>5, <4>7, <4>8 DEF loop
      <3>4. QED
        BY <3>1, <3>2, <3>3 DEF Limit, DigestTypeOK
    <2>4. ASSUME NEW ch \in {"auth", "legacy", "unusable"}, Unauthorized(ch)
          PROVE  DigestInv'
      <3> USE <2>4 DEF Unauthorized
      <3>1. UNCHANGED <<throttleRetried, authorized, hasPassword, lastSent>>
        OBVIOUS
      <3>2. CASE phase' = "idle"
        <4>1. /\ result' \in {"unauthorized", "error"}
              /\ session' \in {session, NoSession}
              /\ UNCHANGED <<authAttempt, issued>>
              /\ authFailures' \in {authFailures, authFailures + 1}
          BY <3>2 DEF End
        <4>2. DigestTypeOK'
          BY <3>1, <3>2, <4>1 DEF DigestTypeOK
        <4>3. QED
          BY <3>2, <4>1, <4>2
      <3>3. CASE phase' # "idle"
        <4>1. /\ hasPassword
              /\ authFailures' = IF authorized THEN authFailures + 1 ELSE authFailures
              /\ authFailures' <= 1
              /\ issued < MaxNonces /\ issued' = issued + 1
              /\ session' = [nonce |-> issued + 1, uses |-> 0,
                             auth |-> ch = "auth",
                             old |-> FALSE, aged |-> FALSE]
              /\ authAttempt' = authAttempt + 1 /\ phase' = "top" /\ UNCHANGED result
          <5>1. hasPassword /\ ~Final(authFailures')
                  /\ authFailures' = IF authorized THEN authFailures + 1 ELSE authFailures
            BY <3>3 DEF End
          <5>2. authFailures' <= 1
            BY <5>1 DEF DigestTypeOK
          <5>3. QED
            BY <3>3, <5>1, <5>2 DEF End
        <4>2. session' \in Session /\ session' # NoSession /\ Fresh'
          <5>1. issued + 1 \in Nat
            BY DEF DigestTypeOK
          <5>2. session' \in Session
            BY <4>1, <5>1 DEF Session
          <5>3. QED
            BY <4>1, <5>2
        <4>3. DigestTypeOK'
          BY <3>1, <4>1, <4>2 DEF DigestTypeOK
        <4>4. AttemptsAccounted'
          <5>1. CASE authorized
            BY <3>1, <4>1, <4>2, <5>1 DEF DigestTypeOK
          <5>2. CASE ~authorized
            BY <3>1, <4>1, <4>2, <5>2 DEF DigestTypeOK
          <5>3. QED
            BY <5>1, <5>2
        <4>5. AtMostFourSends'
          BY <4>1, <4>4, <4>3 DEF DigestTypeOK
        <4>6. FreshIsUsable' /\ PlainHasNoSession' /\ WaitIsFirst'
          BY <4>1
        <4>7. QED
          BY <4>1, <4>3, <4>4, <4>5, <4>6
      <3>4. QED
        BY <3>2, <3>3
    <2>5. CASE TooManyRequests
      BY <2>5 DEF TooManyRequests, End, DigestTypeOK, loop
    <2>6. CASE ThrottleWaitOver
      BY <2>6 DEF ThrottleWaitOver, DigestTypeOK
    <2>7. CASE ExchangeFails \/ Answer
      BY <2>7 DEF ExchangeFails, Answer, End, DigestTypeOK, loop
    <2>8. CASE UNCHANGED digestVars
      BY <2>8 DEF digestVars, DigestTypeOK
    <2>9. QED
      BY <1>2, <2>1, <2>2, <2>3, <2>4, <2>5, <2>6, <2>7, <2>8 DEF DigestNext
  <1>3. QED
    BY <1>1, <1>2, PTL DEF DigestSpec

\* Whatever the device answers, no exchange sends more than four requests: the
\* cap of six attempts and its error are never reached, and the last status
\* comes back to the caller.
THEOREM FourSends == DigestSpec => []AtMostFourSends
  BY DigestInvHolds, PTL DEF DigestInv

\* The cached session has the latest nonce, and has counted every header sent with
\* it.
HeadersCounted ==
  /\ lastSent.nonce <= issued
  /\ session # NoSession =>
       /\ session.nonce = issued
       /\ lastSent.nonce = issued => lastSent.uses <= session.uses

\* A session counts before it sends, and a newer nonce replaces it.
LEMMA HeadersCountedHolds == DigestSpec => []HeadersCounted
  <1> USE DigestAssumption DEF HeadersCounted
  <1>1. DigestInit => HeadersCounted
    BY DEF DigestInit
  <1>2. ASSUME DigestTypeOK, HeadersCounted, [DigestNext]_digestVars PROVE HeadersCounted'
    <2> USE <1>2 DEF DigestTypeOK, Session
    <2>1. ASSUME NEW p \in BOOLEAN, BeginExchange(p) PROVE HeadersCounted'
      BY <2>1 DEF BeginExchange
    <2>2. CASE SessionAges
      BY <2>2 DEF SessionAges
    <2>3. CASE LoopTop
      <3>1. CASE SendAuthorized /\ session # NoSession
        BY <2>3, <3>1 DEF LoopTop, SendAuthorized
      <3>2. CASE SendPlain \/ LoopEnds
        BY <2>3, <3>2 DEF LoopTop, SendPlain, LoopEnds
      <3>3. QED
        BY <2>3, <3>1, <3>2 DEF LoopTop, Usable
    <2>4. ASSUME NEW ch \in {"auth", "legacy", "unusable"}, Unauthorized(ch)
          PROVE  HeadersCounted'
      <3>1. \/ issued' = issued /\ session' \in {session, NoSession}
            \/ /\ issued' = issued + 1
               /\ session' = [nonce |-> issued + 1, uses |-> 0, auth |-> ch = "auth",
                              old |-> FALSE, aged |-> FALSE]
        BY <2>4 DEF Unauthorized
      <3>2. lastSent' = lastSent
        BY <2>4 DEF Unauthorized
      <3>3. QED
        BY <3>1, <3>2
    <2>5. CASE TooManyRequests \/ ThrottleWaitOver \/ ExchangeFails \/ Answer
      BY <2>5 DEF TooManyRequests, ThrottleWaitOver, ExchangeFails, Answer
    <2>6. CASE UNCHANGED digestVars
      BY <2>6 DEF digestVars
    <2>7. QED
      BY <1>2, <2>1, <2>2, <2>3, <2>4, <2>5, <2>6 DEF DigestNext
  <1>3. DigestInv => DigestTypeOK
    BY DEF DigestInv
  <1>4. QED
    BY <1>1, <1>2, <1>3, DigestInvHolds, PTL DEF DigestSpec

\* No Authorization header with qop=auth repeats the nonce and count of another.
THEOREM HeadersAreFresh == DigestSpec => NoReplayedHeader
  <1>1. DigestInv /\ HeadersCounted /\ [DigestNext]_digestVars =>
          [phase = "top" /\ phase' = "sent" /\ authorized' /\ lastSent'.auth =>
             \/ lastSent'.nonce > lastSent.nonce
             \/ lastSent'.nonce = lastSent.nonce /\ lastSent'.uses > lastSent.uses]_digestVars
    <2> SUFFICES ASSUME DigestInv, HeadersCounted, DigestNext, phase = "top", phase' = "sent",
                        authorized', lastSent'.auth
                 PROVE  \/ lastSent'.nonce > lastSent.nonce
                        \/ lastSent'.nonce = lastSent.nonce /\ lastSent'.uses > lastSent.uses
      BY DEF digestVars
    <2>1. LoopTop
      BY DEF DigestNext, BeginExchange, SessionAges, Unauthorized, TooManyRequests,
         ThrottleWaitOver, ExchangeFails, Answer
    <2>2. SendAuthorized /\ session # NoSession
      BY <2>1 DEF LoopTop, LoopEnds, SendPlain, End, Usable
    <2>3. session \in Session /\ lastSent \in [nonce : Nat, uses : Nat, auth : BOOLEAN]
      BY <2>2 DEF DigestInv, DigestTypeOK
    <2>4. lastSent'.nonce = session.nonce /\ lastSent'.uses = session.uses + 1
      BY <2>2 DEF SendAuthorized
    <2>5. QED
      BY <2>2, <2>3, <2>4 DEF DigestInv, DigestTypeOK, HeadersCounted, Session
  <1>2. QED
    BY <1>1, DigestInvHolds, HeadersCountedHolds, PTL DEF DigestSpec, NoReplayedHeader

-----------------------------------------------------------------------------
(* The recovery reboot, for every cooldown, timeout, lag and set of        *)
(* callers.                                                                *)

\* A caller's reading of the clock is at most MaxLag old.
StampIsRecent ==
  \A c \in Callers :
    stamp[c] # 0 => stamp[c] <= now /\ now - stamp[c] <= MaxLag

\* A goroutine begins no earlier than the recorded attempt, and soon after it.
StartFollowsAttempt ==
  \A r \in reboots :
    /\ lastAttempt # 0 /\ lastAttempt <= r.since
    /\ r.since <= lastAttempt + MaxLag + MaxLag
    /\ r.state = "due" => r.since <= lastAttempt + MaxLag /\ now <= r.since + MaxLag
    /\ r.since <= now

\* A request left no later than the slot wait of its attempt allows, and an
\* attempt that has yet to send is a full cooldown after the one before it.
SentFollowsAttempt ==
  lastRebootSent # 0 =>
    /\ lastAttempt # 0
    /\ lastRebootSent <= lastAttempt + MaxLag + MaxLag + RebootTimeout
    /\ \A r \in reboots :
         r.state # "sent" =>
           lastAttempt - lastRebootSent >= Cooldown - RebootTimeout - 2 * MaxLag

RecoveryInv ==
  /\ RecoveryTypeOK
  /\ OneRebootAtATime
  /\ StampIsRecent
  /\ StartFollowsAttempt
  /\ SentFollowsAttempt

-----------------------------------------------------------------------------
\* The recovery's invariant, one step per action.
LEMMA RecoveryInvHolds == RecoverySpec => []RecoveryInv
  <1> USE RecoveryAssumption
  <1>1. RecoveryInit => RecoveryInv
    <2>1. RecoveryInit => RecoveryTypeOK
      <3>1. RecoveryInit => now \in Nat \ {0} /\ lastAttempt \in 0..now /\ lastRebootSent \in 0..now
                    /\ stamp \in [Callers -> 0..now]
        BY DEF RecoveryInit
      <3>2. RecoveryInit => inFlight \in BOOLEAN
        BY DEF RecoveryInit
      <3>3. RecoveryInit => reboots \subseteq [since : Nat, state : {"due", "begun", "sent"}]
        BY DEF RecoveryInit
      <3>4. QED
        BY <3>1, <3>2, <3>3 DEF RecoveryTypeOK
    <2>2. RecoveryInit => OneRebootAtATime /\ StampIsRecent
      BY DEF RecoveryInit, OneRebootAtATime, StampIsRecent
    <2>3. RecoveryInit => StartFollowsAttempt /\ SentFollowsAttempt
      BY DEF RecoveryInit, StartFollowsAttempt, SentFollowsAttempt
    <2>4. QED
      BY <2>1, <2>2, <2>3 DEF RecoveryInv
  <1>2. ASSUME RecoveryInv, [RecoveryNext]_recoveryVars PROVE RecoveryInv'
    <2> USE <1>2 DEF RecoveryInv
    <2>1. CASE Tick
      BY <2>1 DEF Tick, RecoveryTypeOK, OneRebootAtATime, StampIsRecent,
         StartFollowsAttempt, SentFollowsAttempt
    <2>2. ASSUME NEW c \in Callers, ReadClock(c) PROVE RecoveryInv'
      BY <2>2 DEF ReadClock, RecoveryTypeOK, OneRebootAtATime, StampIsRecent,
         StartFollowsAttempt, SentFollowsAttempt
    <2>3. ASSUME NEW c \in Callers, ScheduleReboot(c) PROVE RecoveryInv'
      <3> USE <2>3 DEF ScheduleReboot, RecoveryTypeOK
      <3>1. CASE Suppressed(c)
        BY <3>1 DEF OneRebootAtATime, StampIsRecent,
           StartFollowsAttempt, SentFollowsAttempt
      <3>2. CASE ~Suppressed(c)
        <4>1. reboots = {} /\ reboots' = {[since |-> now, state |-> "due"]}
          BY <3>2 DEF Suppressed, OneRebootAtATime
        <4>2. OneRebootAtATime' /\ StampIsRecent'
          BY <3>2, <4>1 DEF OneRebootAtATime, StampIsRecent
        <4>2a. RecoveryTypeOK'
          BY <3>2, <4>1
        <4>3. StartFollowsAttempt'
          BY <3>2, <4>1 DEF StampIsRecent, StartFollowsAttempt
        <4>4. SentFollowsAttempt'
          BY <3>2, <4>1 DEF Suppressed, SentFollowsAttempt
        <4>5. QED
          BY <4>2, <4>2a, <4>3, <4>4
      <3>3. QED
        BY <3>1, <3>2
    <2>4. ASSUME NEW r \in reboots, SendReboot(r) PROVE RecoveryInv'
      <3> USE <2>4 DEF SendReboot, RecoveryTypeOK
      <3>1. reboots = {r} /\ reboots' = {[since |-> r.since, state |-> "sent"]}
        BY DEF OneRebootAtATime
      <3>2. RecoveryTypeOK'
        <4>1. [since |-> r.since, state |-> "sent"] \in [since : Nat, state : {"due", "begun", "sent"}]
          <5>1. r \in [since : Nat, state : {"due", "begun", "sent"}]
            OBVIOUS
          <5>2. QED
            BY <5>1
        <4>2. reboots' \subseteq [since : Nat, state : {"due", "begun", "sent"}]
          BY <3>1, <4>1
        <4>3. now' \in Nat \ {0} /\ lastRebootSent' \in 0..now' /\ lastAttempt' \in 0..now'
                /\ stamp' \in [Callers -> 0..now']
          OBVIOUS
        <4>4. QED
          BY <4>2, <4>3
      <3>2a. OneRebootAtATime' /\ StampIsRecent'
        BY <3>1 DEF OneRebootAtATime, StampIsRecent
      <3>3. StartFollowsAttempt' /\ SentFollowsAttempt'
        BY <3>1 DEF StartFollowsAttempt, SentFollowsAttempt
      <3>4. QED
        BY <3>2, <3>2a, <3>3
    <2>4a. ASSUME NEW r \in reboots, StartReboot(r) PROVE RecoveryInv'
      <3> USE <2>4a DEF StartReboot, RecoveryTypeOK
      <3>1. reboots = {r} /\ reboots' = {[since |-> now, state |-> "begun"]}
        BY DEF OneRebootAtATime
      <3>2. RecoveryTypeOK'
        <4>1. reboots' \subseteq [since : Nat, state : {"due", "begun", "sent"}]
          BY <3>1
        <4>2. QED
          BY <4>1
      <3>3. OneRebootAtATime' /\ StampIsRecent'
        BY <3>1 DEF OneRebootAtATime, StampIsRecent
      <3>4. StartFollowsAttempt' /\ SentFollowsAttempt'
        BY <3>1 DEF StartFollowsAttempt, SentFollowsAttempt
      <3>5. QED
        BY <3>2, <3>3, <3>4
    <2>5. ASSUME NEW r \in reboots, RebootReturns(r) PROVE RecoveryInv'
      BY <2>5 DEF RebootReturns, RecoveryTypeOK, OneRebootAtATime, StampIsRecent,
         StartFollowsAttempt, SentFollowsAttempt
    <2>6. CASE UNCHANGED recoveryVars
      BY <2>6 DEF recoveryVars, RecoveryTypeOK, OneRebootAtATime, StampIsRecent,
         StartFollowsAttempt, SentFollowsAttempt
    <2>7. QED
      BY <1>2, <2>1, <2>2, <2>3, <2>4, <2>4a, <2>5, <2>6 DEF RecoveryNext
  <1>3. QED
    BY <1>1, <1>2, PTL DEF RecoverySpec

\* inFlight mirrors the single reboot goroutine of a device.
THEOREM OneReboot == RecoverySpec => []OneRebootAtATime
  BY RecoveryInvHolds, PTL DEF RecoveryInv

\* The recorded attempt never moves back.
THEOREM AttemptAdvances == RecoverySpec => LastAttemptAdvances
  <1>1. RecoveryInv /\ [RecoveryNext]_recoveryVars => [lastAttempt' >= lastAttempt]_recoveryVars
    BY RecoveryAssumption
    DEF RecoveryInv, RecoveryTypeOK, RecoveryNext, Tick, ReadClock, ScheduleReboot, Suppressed,
        StartReboot, SendReboot, RebootReturns, recoveryVars
  <1>2. QED
    BY <1>1, RecoveryInvHolds, PTL DEF RecoverySpec, LastAttemptAdvances

\* Consecutive reboot requests are Cooldown - RebootTimeout - 2 * MaxLag apart.
THEOREM RebootSpacing == RecoverySpec => RebootsAreSpaced
  <1>1. RecoveryInv /\ [RecoveryNext]_recoveryVars =>
          [lastRebootSent' # lastRebootSent /\ lastRebootSent # 0 =>
             lastRebootSent' - lastRebootSent >= Cooldown - RebootTimeout - 2 * MaxLag]_recoveryVars
    <2> SUFFICES ASSUME RecoveryInv, RecoveryNext, lastRebootSent' # lastRebootSent, lastRebootSent # 0
                 PROVE  lastRebootSent' - lastRebootSent >= Cooldown - RebootTimeout - 2 * MaxLag
      BY DEF recoveryVars
    <2>1. PICK r \in reboots : SendReboot(r)
      BY DEF RecoveryNext, Tick, ReadClock, ScheduleReboot, StartReboot, RebootReturns
    <2>2. QED
      BY <2>1, RecoveryAssumption
      DEF SendReboot, RecoveryInv, RecoveryTypeOK, StartFollowsAttempt, SentFollowsAttempt
  <1>2. QED
    BY <1>1, RecoveryInvHolds, PTL DEF RecoverySpec, RebootsAreSpaced
=============================================================================

-------------------------- MODULE StatusFlow_proofs --------------------------
(***************************************************************************)
(* Proofs about StatusFlow for any number of concurrent FBS requests:      *)
(* which result the row of a tool shows, and when it is the present one.   *)
(***************************************************************************)
EXTENDS StatusFlow, TLAPS

\* The slot, seen from its users: who waits in it and who uses it.
SlotOK ==
  /\ \A h \in Handlers : h \in waiting <=> pc[h] = "wait"
  /\ \A h \in Handlers : h \in using <=> pc[h] \in {"exchange", "body"}
  /\ Reboot \in waiting <=> reboot = "wait"
  /\ Reboot \in using <=> reboot = "exchange"
  /\ Probe \in using <=> probe \in {"exchange", "answered", "displaced"}
  /\ \A c, d \in using : c = d

\* The revisions handed out, and the states of the relay that were seen, lie in
\* the past.
PastOK ==
  /\ row.rev <= revision /\ scanRev <= revision
  /\ \A h \in Handlers :
       pc[h] = "record" => rev[h] \in 1..revision /\ rev[h] # scanRev
  /\ row.result.seen <= writes /\ probeGot.seen <= writes
  /\ \A h \in Handlers : got[h].seen <= writes

\* A probe is under way exactly during a scan, and holds a result only after
\* it was answered.
ProbeOK ==
  /\ scanning <=> probe # "none"
  /\ probe \in {"none", "job", "exchange", "displaced"} => probeGot = Failed

\* What an answered probe read is at least as new as every result with an older
\* revision, the recorded one and those on their way.
ProbeReadsLater ==
  probeGot.ok =>
    /\ row.rev <= scanRev /\ row.result.ok => row.result.seen <= probeGot.seen
    /\ \A h \in Handlers :
         pc[h] = "record" /\ rev[h] <= scanRev /\ got[h].ok =>
           got[h].seen <= probeGot.seen

\* FBS requests come one by one.
OneByOne ==
  ~overlapped => \A g, h \in Handlers : pc[g] # "idle" /\ pc[h] # "idle" => g = h

\* Then the row, and a probe that may still replace it, show the relay as it is,
\* until the one request is at the device; from then on the request's result
\* does, and whatever has a newer revision.  A late command ends this until a
\* request has reached the device again.
PresentOK ==
  ~overlapped /\ ~late =>
    /\ (\A h \in Handlers : pc[h] \in {"idle", "wait", "exchange"}) =>
         /\ row.result.ok => row.result.seen = writes
         /\ probeGot.ok /\ scanRev >= row.rev => probeGot.seen = writes
    /\ \A h \in Handlers :
         pc[h] \in {"body", "release", "record"} /\ got[h].ok => got[h].seen = writes
    /\ \A h \in Handlers : pc[h] = "record" =>
         /\ row.rev > rev[h] /\ row.result.ok => row.result.seen = writes
         /\ scanRev > rev[h] /\ probeGot.ok => probeGot.seen = writes

SerialOK == OneByOne /\ PresentOK

\* The FBS request a probe gave way to has its record before it.
PublishedLater == unpublished => \E h \in Handlers : pc[h] # "idle"

\* A scan that was asked for in quiet: nobody else takes a revision, and what its
\* probe reads gets into the row.
AskedOK ==
  asked =>
    /\ \A h \in Handlers : pc[h] = "idle"
    /\ scanning => row.rev <= scanRev /\ probe # "displaced"
    /\ probe \in {"answered", "record", "done"} => probeGot.kind = "read"
    /\ probe = "done" => row.result.kind = "read"

FlowInv ==
  /\ TypeOK
  /\ SlotOK
  /\ PastOK
  /\ ProbeOK
  /\ ProbeReadsLater
  /\ SerialOK
  /\ PublishedLater
  /\ AskedOK

\* What a probe that is not to be answered changes.
ProbeGivesWay(to) ==
  /\ probe' = to /\ asked' = FALSE /\ unpublished' \in BOOLEAN
  /\ UNCHANGED <<slotVars, relayVars, storeVars, handlerVars, scanning, scanRev, probeGot,
                 reboot, overlapped, late>>

\* A probe that is not to be answered leaves the types as they are.
LEMMA GivingWayIsTyped ==
  ASSUME TypeOK, NEW to \in {"displaced", "done"}, ProbeGivesWay(to)
  PROVE  TypeOK'
BY DEF TypeOK, ProbeGivesWay, slotVars, relayVars, storeVars, handlerVars

-----------------------------------------------------------------------------
\* The steps of an FBS handler.
LEMMA HandlerStepInv ==
  ASSUME FlowInv, NEW h \in Handlers
  PROVE  (\E o \in {"set", "status"} : BeginFBS(h, o)) \/ HandlerStep(h) => FlowInv'
  <1> USE FlowAssumption DEF FlowInv, Outcome, Failed,
          slotVars, relayVars, storeVars, handlerVars, scanVars, historyVars
  <1>1. ASSUME NEW o \in {"set", "status"}, BeginFBS(h, o) PROVE FlowInv'
    <2> USE <1>1 DEF BeginFBS, Slot!Announce
    <2>1. TypeOK'
      <3>1. pc' \in [Handlers -> {"idle", "wait", "exchange", "body", "release", "record"}]
              /\ op' \in [Handlers -> {"set", "status"}] /\ waiting' \subseteq Handlers \cup {Reboot}
        BY DEF TypeOK
      <3>2. asked' \in BOOLEAN /\ overlapped' \in BOOLEAN
        OBVIOUS
      <3>3. QED
        BY <3>1, <3>2 DEF TypeOK
    <2>2. SlotOK'
      BY DEF TypeOK, SlotOK
    <2>3. (PastOK /\ ProbeOK)'
      BY DEF TypeOK, PastOK, ProbeOK
    <2>4. ProbeReadsLater'
      BY DEF TypeOK, PastOK, ProbeOK, ProbeReadsLater
    <2>5. SerialOK'
      <3>1. ~overlapped' => ~overlapped /\ \A g \in Handlers : pc[g] = "idle"
        BY DEF TypeOK
      <3>2. pc'[h] = "wait" /\ \A g \in Handlers \ {h} : pc'[g] = pc[g]
        BY DEF TypeOK
      <3>3. UNCHANGED <<got, rev, row, writes, scanRev, probeGot, late>>
        OBVIOUS
      <3>4. ~overlapped' => \A g \in Handlers : pc'[g] \in {"idle", "wait"}
        BY <3>1, <3>2
      <3>5. ~overlapped' => \A g, k \in Handlers : pc'[g] # "idle" /\ pc'[k] # "idle" => g = k
        BY <3>1, <3>2
      <3>6. QED
        BY <3>1, <3>3, <3>4, <3>5 DEF SerialOK, OneByOne, PresentOK
    <2>6. (PublishedLater /\ AskedOK)'
      BY DEF TypeOK, SlotOK, PastOK, ProbeOK, PublishedLater, AskedOK
    <2>7. QED
      BY <2>1, <2>2, <2>3, <2>4, <2>5, <2>6
  <1>2. ASSUME GiveUpWait(h) PROVE FlowInv'
    <2> USE <1>2 DEF GiveUpWait, Slot!Withdraw
    <2>1. TypeOK'
      BY DEF TypeOK
    <2>2. SlotOK'
      BY DEF TypeOK, SlotOK
    <2>3. (PastOK /\ ProbeOK)'
      BY DEF TypeOK, PastOK, ProbeOK
    <2>4. ProbeReadsLater'
      BY DEF TypeOK, PastOK, ProbeOK, ProbeReadsLater
    <2>5. SerialOK'
      <3>1. ~overlapped => \A g \in Handlers : pc[g] # "idle" => g = h
        BY DEF SerialOK, OneByOne, PresentOK
      <3>2. /\ pc'[h] = "release" /\ \A g \in Handlers \ {h} : pc'[g] = pc[g]
            /\ ~got'[h].ok
        BY DEF TypeOK, Failed
      <3>3. UNCHANGED <<writes, row, rev, scanRev, probeGot, overlapped, late>>
        OBVIOUS
      <3>4. QED
        BY <3>1, <3>2, <3>3 DEF SerialOK, OneByOne, PresentOK
    <2>6. (PublishedLater /\ AskedOK)'
      BY DEF TypeOK, SlotOK, PastOK, ProbeOK, PublishedLater, AskedOK
    <2>7. QED
      BY <2>1, <2>2, <2>3, <2>4, <2>5, <2>6
  <1>3. ASSUME TakeSlot(h) PROVE FlowInv'
    <2> USE <1>3 DEF TakeSlot, Slot!GrantFBS
    <2>1. TypeOK'
      BY DEF TypeOK
    <2>2. SlotOK'
      BY DEF TypeOK, SlotOK
    <2>3. (PastOK /\ ProbeOK)'
      BY DEF TypeOK, PastOK, ProbeOK
    <2>4. ProbeReadsLater'
      BY DEF TypeOK, PastOK, ProbeOK, ProbeReadsLater
    <2>5. SerialOK'
      <3>1. ~overlapped => \A g \in Handlers : pc[g] # "idle" => g = h
        BY DEF SerialOK, OneByOne, PresentOK
      <3>2. /\ pc'[h] = "exchange" /\ \A g \in Handlers \ {h} : pc'[g] = pc[g]
            /\ got' = got
        BY DEF TypeOK
      <3>3. UNCHANGED <<writes, row, rev, scanRev, probeGot, overlapped, late>>
        OBVIOUS
      <3>4. QED
        BY <3>1, <3>2, <3>3 DEF SerialOK, OneByOne, PresentOK
    <2>6. (PublishedLater /\ AskedOK)'
      BY DEF TypeOK, SlotOK, PastOK, ProbeOK, PublishedLater, AskedOK
    <2>7. QED
      BY <2>1, <2>2, <2>3, <2>4, <2>5, <2>6
  <1>4. ASSUME ExchangeFBS(h) PROVE FlowInv'
    <2> USE <1>4 DEF ExchangeFBS
    <2>1. TypeOK'
      <3>1. /\ writes' \in 0..MaxWrites /\ owed' \in 0..MaxWrites
            /\ writes' + owed' <= MaxWrites
        BY DEF TypeOK, MaySend
      <3>2. \E r \in Outcome : got' = [got EXCEPT ![h] = r]
        <4>1. writes \in 0..MaxWrites /\ Failed \in Outcome
          BY DEF TypeOK
        <4>2. /\ [ok |-> TRUE, seen |-> writes, kind |-> "read"] \in Outcome
              /\ [ok |-> TRUE, seen |-> writes', kind |-> "command"] \in Outcome
          BY <3>1, <4>1
        <4>3. QED
          BY <4>1, <4>2
      <3>3. got' \in [Handlers -> Outcome]
        BY <3>2 DEF TypeOK
      <3>4. late' \in BOOLEAN
        BY DEF TypeOK
      <3>5. pc' \in [Handlers -> {"idle", "wait", "exchange", "body", "release", "record"}]
        BY DEF TypeOK
      <3>6. UNCHANGED <<slotVars, storeVars, op, rev, scanVars, reboot, unpublished, asked,
                        overlapped>>
        OBVIOUS
      <3>7. /\ scanning' \in BOOLEAN /\ unpublished' \in BOOLEAN /\ asked' \in BOOLEAN
            /\ overlapped' \in BOOLEAN
        BY <3>6 DEF TypeOK
      <3>8. /\ using' \subseteq Handlers \cup {Probe, Reboot}
            /\ waiting' \subseteq Handlers \cup {Reboot} /\ revision' \in Nat
            /\ row' \in [rev : Nat, result : Outcome]
            /\ op' \in [Handlers -> {"set", "status"}] /\ rev' \in [Handlers -> Nat]
            /\ scanRev' \in Nat /\ probeGot' \in Outcome
            /\ probe' \in {"none", "job", "exchange", "answered", "displaced", "record", "done"}
            /\ reboot' \in {"none", "scheduled", "wait", "exchange"}
        BY <3>6 DEF TypeOK
      <3>9. QED
        BY <3>1, <3>3, <3>4, <3>5, <3>7, <3>8, Zenon DEF TypeOK
    <2>2. SlotOK'
      BY DEF TypeOK, SlotOK
    <2>3. (PastOK /\ ProbeOK)'
      <3>1. /\ writes \in Nat /\ writes' \in {writes, writes + 1}
            /\ got'[h].seen <= writes' /\ \A g \in Handlers \ {h} : got'[g] = got[g]
        BY DEF TypeOK, Failed
      <3>2. /\ UNCHANGED <<revision, row, rev, scanning, scanRev, probe, probeGot>>
            /\ \A g \in Handlers : pc'[g] = "record" => pc[g] = "record"
        BY DEF TypeOK
      <3>3. /\ row.result.seen \in Nat /\ probeGot.seen \in Nat
            /\ \A g \in Handlers : got[g].seen \in Nat
        BY DEF TypeOK
      <3>4. PastOK'
        BY <3>1, <3>2, <3>3 DEF PastOK
      <3>5. ProbeOK'
        BY <3>2 DEF ProbeOK
      <3>6. QED
        BY <3>4, <3>5
    <2>4. ProbeReadsLater'
      BY DEF TypeOK, PastOK, ProbeOK, ProbeReadsLater
    <2>5. SerialOK'
      <3>1. ~overlapped => \A g \in Handlers : pc[g] # "idle" => g = h
        BY DEF SerialOK, OneByOne, PresentOK
      <3>2. /\ pc'[h] = "body" /\ \A g \in Handlers \ {h} : pc'[g] = pc[g]
            /\ got'[h].ok => got'[h].seen = writes'
        BY DEF TypeOK, Failed
      <3>3. overlapped' = overlapped
        OBVIOUS
      <3>4. QED
        BY <3>1, <3>2, <3>3 DEF SerialOK, OneByOne, PresentOK
    <2>6. (PublishedLater /\ AskedOK)'
      BY DEF TypeOK, SlotOK, PastOK, ProbeOK, PublishedLater, AskedOK
    <2>7. QED
      BY <2>1, <2>2, <2>3, <2>4, <2>5, <2>6
  <1>5. ASSUME RecoverableError(h) PROVE FlowInv'
    <2> USE <1>5 DEF RecoverableError
    <2>1. TypeOK'
      BY DEF TypeOK
    <2>2. SlotOK'
      BY DEF TypeOK, SlotOK
    <2>3. (PastOK /\ ProbeOK)'
      BY DEF TypeOK, PastOK, ProbeOK
    <2>4. ProbeReadsLater'
      BY DEF TypeOK, PastOK, ProbeOK, ProbeReadsLater
    <2>5. SerialOK'
      <3>1. ~overlapped => \A g \in Handlers : pc[g] # "idle" => g = h
        BY DEF SerialOK, OneByOne, PresentOK
      <3>2. /\ pc'[h] = "body" /\ \A g \in Handlers \ {h} : pc'[g] = pc[g]
            /\ ~got'[h].ok
        BY DEF TypeOK, Failed
      <3>3. UNCHANGED <<writes, row, rev, scanRev, probeGot, overlapped, late>>
        OBVIOUS
      <3>4. QED
        BY <3>1, <3>2, <3>3 DEF SerialOK, OneByOne, PresentOK
    <2>6. (PublishedLater /\ AskedOK)'
      BY DEF TypeOK, SlotOK, PastOK, ProbeOK, PublishedLater, AskedOK
    <2>7. QED
      BY <2>1, <2>2, <2>3, <2>4, <2>5, <2>6
  <1>6. ASSUME GiveSlotBack(h) PROVE FlowInv'
    <2> USE <1>6 DEF GiveSlotBack, Slot!Return
    <2>1. TypeOK'
      BY DEF TypeOK
    <2>2. SlotOK'
      BY DEF TypeOK, SlotOK
    <2>3. (PastOK /\ ProbeOK)'
      BY DEF TypeOK, PastOK, ProbeOK
    <2>4. ProbeReadsLater'
      BY DEF TypeOK, PastOK, ProbeOK, ProbeReadsLater
    <2>5. SerialOK'
      <3>1. ~overlapped => \A g \in Handlers : pc[g] # "idle" => g = h
        BY DEF SerialOK, OneByOne, PresentOK
      <3>2. /\ pc'[h] = "release" /\ \A g \in Handlers \ {h} : pc'[g] = pc[g]
            /\ got' = got
        BY DEF TypeOK
      <3>3. UNCHANGED <<writes, row, rev, scanRev, probeGot, overlapped, late>>
        OBVIOUS
      <3>4. QED
        BY <3>1, <3>2, <3>3 DEF SerialOK, OneByOne, PresentOK
    <2>6. (PublishedLater /\ AskedOK)'
      BY DEF TypeOK, SlotOK, PastOK, ProbeOK, PublishedLater, AskedOK
    <2>7. QED
      BY <2>1, <2>2, <2>3, <2>4, <2>5, <2>6
  <1>7. ASSUME TakeRevision(h) PROVE FlowInv'
    <2> USE <1>7 DEF TakeRevision
    <2>1. TypeOK'
      BY DEF TypeOK
    <2>2. SlotOK'
      BY DEF TypeOK, SlotOK
    <2>3. (PastOK /\ ProbeOK)'
      BY DEF TypeOK, PastOK, ProbeOK
    <2>4. ProbeReadsLater'
      BY DEF TypeOK, PastOK, ProbeOK, ProbeReadsLater
    <2>5. SerialOK'
      BY DEF TypeOK, PastOK, ProbeOK, SerialOK, OneByOne, PresentOK
    <2>6. (PublishedLater /\ AskedOK)'
      BY DEF TypeOK, SlotOK, PastOK, ProbeOK, PublishedLater, AskedOK
    <2>7. QED
      BY <2>1, <2>2, <2>3, <2>4, <2>5, <2>6
  <1>8. ASSUME RecordFBS(h) PROVE FlowInv'
    <2> USE <1>8 DEF RecordFBS, Record
    <2>1. TypeOK'
      <3>1. row' \in [rev : Nat, result : Outcome]
        BY DEF TypeOK
      <3>2. Failed \in Outcome
        OBVIOUS
      <3>3. unpublished' \in BOOLEAN
        OBVIOUS
      <3>4. QED
        BY <3>1, <3>2, <3>3 DEF TypeOK
    <2>2. SlotOK'
      BY DEF TypeOK, SlotOK
    <2>3. (PastOK /\ ProbeOK)'
      BY DEF TypeOK, PastOK, ProbeOK
    <2>4. ProbeReadsLater'
      BY DEF TypeOK, PastOK, ProbeOK, ProbeReadsLater
    <2>5. SerialOK'
      <3> SUFFICES ASSUME ~overlapped PROVE SerialOK'
        BY DEF SerialOK, OneByOne, PresentOK
      <3>1. \A g \in Handlers : pc'[g] = "idle"
        BY DEF TypeOK, SerialOK, OneByOne, PresentOK
      <3>2. row.rev > rev[h] \/ row' = [rev |-> rev[h], result |-> got[h]]
        BY DEF TypeOK
      <3>3. row'.rev >= rev[h] /\ (~late /\ row'.result.ok => row'.result.seen = writes)
        BY <3>2 DEF TypeOK, SerialOK, OneByOne, PresentOK
      <3>4. ~late /\ probeGot.ok /\ scanRev >= row'.rev => probeGot.seen = writes
        <4>1. row'.rev \in Nat /\ rev[h] \in Nat /\ scanRev \in Nat
          BY <3>2 DEF TypeOK
        <4>2. scanRev >= row'.rev => scanRev > rev[h]
          BY <3>3, <4>1 DEF PastOK
        <4>3. QED
          BY <4>2 DEF SerialOK, OneByOne, PresentOK
      <3>5. QED
        BY <3>1, <3>3, <3>4 DEF SerialOK, OneByOne, PresentOK
    <2>6. (PublishedLater /\ AskedOK)'
      BY DEF TypeOK, SlotOK, PastOK, ProbeOK, PublishedLater, AskedOK
    <2>7. QED
      BY <2>1, <2>2, <2>3, <2>4, <2>5, <2>6
  <1>9. QED
    BY <1>1, <1>2, <1>3, <1>4, <1>5, <1>6, <1>7, <1>8 DEF HandlerStep

\* The steps of the device, the reboot goroutine and a scan.
LEMMA OtherStepInv ==
  ASSUME FlowInv
  PROVE  LateCommand \/ RebootStep \/ RequestRefresh \/ ScanStep \/ UNCHANGED vars => FlowInv'
  <1> USE FlowAssumption DEF FlowInv, Outcome, Failed,
          slotVars, relayVars, storeVars, handlerVars, scanVars, historyVars
  <1>1. ASSUME RebootQueues PROVE FlowInv'
    <2> USE <1>1 DEF RebootQueues, Slot!Announce
    <2>1. TypeOK'
      BY DEF TypeOK
    <2>2. SlotOK'
      BY DEF TypeOK, SlotOK
    <2>3. (PastOK /\ ProbeOK)'
      BY DEF TypeOK, PastOK, ProbeOK
    <2>4. ProbeReadsLater'
      BY DEF TypeOK, PastOK, ProbeOK, ProbeReadsLater
    <2>5. SerialOK'
      BY DEF TypeOK, PastOK, ProbeOK, SerialOK, OneByOne, PresentOK
    <2>6. (PublishedLater /\ AskedOK)'
      BY DEF TypeOK, SlotOK, PastOK, ProbeOK, PublishedLater, AskedOK
    <2>7. QED
      BY <2>1, <2>2, <2>3, <2>4, <2>5, <2>6
  <1>2. ASSUME RebootTakesSlot PROVE FlowInv'
    <2> USE <1>2 DEF RebootTakesSlot, Slot!GrantFBS
    <2>1. TypeOK'
      BY DEF TypeOK
    <2>2. SlotOK'
      BY DEF TypeOK, SlotOK
    <2>3. (PastOK /\ ProbeOK)'
      BY DEF TypeOK, PastOK, ProbeOK
    <2>4. ProbeReadsLater'
      BY DEF TypeOK, PastOK, ProbeOK, ProbeReadsLater
    <2>5. SerialOK'
      BY DEF TypeOK, PastOK, ProbeOK, SerialOK, OneByOne, PresentOK
    <2>6. (PublishedLater /\ AskedOK)'
      BY DEF TypeOK, SlotOK, PastOK, ProbeOK, PublishedLater, AskedOK
    <2>7. QED
      BY <2>1, <2>2, <2>3, <2>4, <2>5, <2>6
  <1>3. ASSUME RebootEnds PROVE FlowInv'
    <2> USE <1>3 DEF RebootEnds, Slot!Withdraw, Slot!Return
    <2>1. TypeOK'
      BY DEF TypeOK
    <2>2. SlotOK'
      BY DEF TypeOK, SlotOK
    <2>3. (PastOK /\ ProbeOK)'
      BY DEF TypeOK, PastOK, ProbeOK
    <2>4. ProbeReadsLater'
      BY DEF TypeOK, PastOK, ProbeOK, ProbeReadsLater
    <2>5. SerialOK'
      BY DEF TypeOK, PastOK, ProbeOK, SerialOK, OneByOne, PresentOK
    <2>6. (PublishedLater /\ AskedOK)'
      BY DEF TypeOK, SlotOK, PastOK, ProbeOK, PublishedLater, AskedOK
    <2>7. QED
      BY <2>1, <2>2, <2>3, <2>4, <2>5, <2>6
  <1>4. ASSUME RequestRefresh PROVE FlowInv'
    <2> USE <1>4 DEF RequestRefresh
    <2>1. CASE scanning
      <3>1. UNCHANGED vars
        BY <2>1 DEF vars
      <3>2. TypeOK' /\ SlotOK' /\ PastOK' /\ ProbeOK'
        BY <3>1 DEF vars, TypeOK, SlotOK, PastOK, ProbeOK
      <3>3. ProbeReadsLater' /\ SerialOK'
        BY <3>1 DEF vars, ProbeReadsLater, SerialOK, OneByOne, PresentOK
      <3>4. PublishedLater' /\ AskedOK'
        BY <3>1 DEF vars, PublishedLater, AskedOK
      <3>5. QED
        BY <3>2, <3>3, <3>4
    <2>2. CASE ~scanning
      <3>1. /\ UNCHANGED <<slotVars, relayVars, row, handlerVars, reboot, unpublished, overlapped, late>>
            /\ probe = "none" /\ probe' = "job" /\ probeGot' = Failed /\ scanning'
            /\ revision' = revision + 1 /\ scanRev' = revision + 1
            /\ asked' = \A h \in Handlers : pc[h] = "idle"
        BY <2>2 DEF TypeOK, ProbeOK
      <3>2. TypeOK'
        <4>1. asked' \in BOOLEAN
          BY <3>1
        <4>2. scanning' \in BOOLEAN
          BY <2>2
        <4>3. probeGot' \in Outcome
          BY <3>1
        <4>4. QED
          BY <3>1, <4>1, <4>2, <4>3 DEF TypeOK
      <3>3. SlotOK' /\ PublishedLater'
        BY <3>1 DEF SlotOK, PublishedLater
      <3>4. PastOK' /\ ProbeOK' /\ ProbeReadsLater'
        BY <3>1 DEF TypeOK, PastOK, ProbeOK, ProbeReadsLater
      <3>5. SerialOK'
        BY <3>1 DEF TypeOK, PastOK, SerialOK, OneByOne, PresentOK
      <3>6. AskedOK'
        <4>1. asked' => \A h \in Handlers : pc'[h] = "idle"
          BY <3>1
        <4>2. row'.rev <= scanRev' /\ probe' = "job"
          BY <3>1 DEF TypeOK, PastOK
        <4>3. QED
          BY <4>1, <4>2 DEF AskedOK
      <3>7. QED
        BY <3>2, <3>3, <3>4, <3>5, <3>6
    <2>3. QED
      BY <2>1, <2>2
  <1>5. ASSUME StartProbe PROVE FlowInv'
    <2> USE <1>5 DEF StartProbe, Slot!GrantAdmin
    <2>1. TypeOK'
      BY DEF TypeOK
    <2>2. SlotOK'
      BY DEF TypeOK, SlotOK
    <2>3. (PastOK /\ ProbeOK)'
      BY DEF TypeOK, PastOK, ProbeOK
    <2>4. ProbeReadsLater'
      BY DEF TypeOK, PastOK, ProbeOK, ProbeReadsLater
    <2>5. SerialOK'
      BY DEF TypeOK, PastOK, ProbeOK, SerialOK, OneByOne, PresentOK
    <2>6. (PublishedLater /\ AskedOK)'
      BY DEF TypeOK, SlotOK, PastOK, ProbeOK, PublishedLater, AskedOK
    <2>7. QED
      BY <2>1, <2>2, <2>3, <2>4, <2>5, <2>6
  <1>6. ASSUME DeferProbe PROVE FlowInv'
    <2>1. TypeOK'
      <3>1. unpublished \in BOOLEAN
        BY DEF TypeOK
      <3>2. ProbeGivesWay("done")
        BY <1>6, <3>1 DEF DeferProbe, ProbeGivesWay
      <3>3. QED
        BY <3>2, GivingWayIsTyped
    <2> USE <1>6 DEF DeferProbe
    <2>2. SlotOK'
      BY DEF TypeOK, SlotOK
    <2>3. (PastOK /\ ProbeOK)'
      BY DEF TypeOK, PastOK, ProbeOK
    <2>4. ProbeReadsLater'
      BY DEF TypeOK, PastOK, ProbeOK, ProbeReadsLater
    <2>5. SerialOK'
      BY DEF TypeOK, PastOK, ProbeOK, SerialOK, OneByOne, PresentOK
    <2>6. (PublishedLater /\ AskedOK)'
      BY DEF TypeOK, SlotOK, PastOK, ProbeOK, PublishedLater, AskedOK
    <2>7. QED
      BY <2>1, <2>2, <2>3, <2>4, <2>5, <2>6
  <1>7. ASSUME SkipProbe PROVE FlowInv'
    <2>1. TypeOK'
      <3>1. unpublished \in BOOLEAN
        BY DEF TypeOK
      <3>2. ProbeGivesWay("done")
        BY <1>7, <3>1 DEF SkipProbe, ProbeGivesWay
      <3>3. QED
        BY <3>2, GivingWayIsTyped
    <2> USE <1>7 DEF SkipProbe
    <2>2. SlotOK'
      BY DEF TypeOK, SlotOK
    <2>3. (PastOK /\ ProbeOK)'
      BY DEF TypeOK, PastOK, ProbeOK
    <2>4. ProbeReadsLater'
      BY DEF TypeOK, PastOK, ProbeOK, ProbeReadsLater
    <2>5. SerialOK'
      BY DEF TypeOK, PastOK, ProbeOK, SerialOK, OneByOne, PresentOK
    <2>6. (PublishedLater /\ AskedOK)'
      BY DEF TypeOK, SlotOK, PastOK, ProbeOK, PublishedLater, AskedOK
    <2>7. QED
      BY <2>1, <2>2, <2>3, <2>4, <2>5, <2>6
  <1>8. ASSUME ProbeAnswers PROVE FlowInv'
    <2> USE <1>8 DEF ProbeAnswers
    <2>1. TypeOK'
      <3>1. probeGot' \in Outcome
        <4>1. [ok |-> TRUE, seen |-> writes, kind |-> "read"] \in Outcome
          BY DEF TypeOK
        <4>2. Failed \in Outcome
          OBVIOUS
        <4>3. QED
          BY <4>1, <4>2
      <3>2. asked' \in BOOLEAN
        BY DEF TypeOK
      <3>3. QED
        BY <3>1, <3>2 DEF TypeOK
    <2>2. SlotOK'
      BY DEF TypeOK, SlotOK
    <2>3. (PastOK /\ ProbeOK)'
      BY DEF TypeOK, PastOK, ProbeOK
    <2>4. ProbeReadsLater'
      BY DEF TypeOK, PastOK, ProbeOK, ProbeReadsLater
    <2>5. SerialOK'
      BY DEF TypeOK, PastOK, ProbeOK, SerialOK, OneByOne, PresentOK
    <2>6. (PublishedLater /\ AskedOK)'
      BY DEF TypeOK, SlotOK, PastOK, ProbeOK, PublishedLater, AskedOK
    <2>7. QED
      BY <2>1, <2>2, <2>3, <2>4, <2>5, <2>6
  <1>9. ASSUME DisplaceProbe PROVE FlowInv'
    <2>1. TypeOK'
      <3>1. unpublished \in BOOLEAN
        BY DEF TypeOK
      <3>2. ProbeGivesWay("displaced")
        BY <1>9, <3>1 DEF DisplaceProbe, ProbeGivesWay
      <3>3. QED
        BY <3>2, GivingWayIsTyped
    <2> USE <1>9 DEF DisplaceProbe
    <2>2. SlotOK'
      BY DEF TypeOK, SlotOK
    <2>3. (PastOK /\ ProbeOK)'
      BY DEF TypeOK, PastOK, ProbeOK
    <2>4. ProbeReadsLater'
      BY DEF TypeOK, PastOK, ProbeOK, ProbeReadsLater
    <2>5. SerialOK'
      BY DEF TypeOK, PastOK, ProbeOK, SerialOK, OneByOne, PresentOK
    <2>6. (PublishedLater /\ AskedOK)'
      BY DEF TypeOK, SlotOK, PastOK, ProbeOK, PublishedLater, AskedOK
    <2>7. QED
      BY <2>1, <2>2, <2>3, <2>4, <2>5, <2>6
  <1>10. ASSUME ProbeReturnsSlot PROVE FlowInv'
    <2> USE <1>10 DEF ProbeReturnsSlot, Slot!Return
    <2>1. TypeOK'
      BY DEF TypeOK
    <2>2. SlotOK'
      BY DEF TypeOK, SlotOK
    <2>3. (PastOK /\ ProbeOK)'
      BY DEF TypeOK, PastOK, ProbeOK
    <2>4. ProbeReadsLater'
      BY DEF TypeOK, PastOK, ProbeOK, ProbeReadsLater
    <2>5. SerialOK'
      BY DEF TypeOK, PastOK, ProbeOK, SerialOK, OneByOne, PresentOK
    <2>6. (PublishedLater /\ AskedOK)'
      BY DEF TypeOK, SlotOK, PastOK, ProbeOK, PublishedLater, AskedOK
    <2>7. QED
      BY <2>1, <2>2, <2>3, <2>4, <2>5, <2>6
  <1>11. ASSUME RecordProbe PROVE FlowInv'
    <2> USE <1>11 DEF RecordProbe, Record
    <2>1. TypeOK'
      BY DEF TypeOK
    <2>2. SlotOK'
      BY DEF TypeOK, SlotOK
    <2>3. (PastOK /\ ProbeOK)'
      BY DEF TypeOK, PastOK, ProbeOK
    <2>4. ProbeReadsLater'
      BY DEF TypeOK, PastOK, ProbeOK, ProbeReadsLater
    <2>5. SerialOK'
      BY DEF TypeOK, PastOK, ProbeOK, SerialOK, OneByOne, PresentOK
    <2>6. (PublishedLater /\ AskedOK)'
      BY DEF TypeOK, SlotOK, PastOK, ProbeOK, PublishedLater, AskedOK
    <2>7. QED
      BY <2>1, <2>2, <2>3, <2>4, <2>5, <2>6
  <1>12. ASSUME EndScan PROVE FlowInv'
    <2> USE <1>12 DEF EndScan
    <2>1. TypeOK'
      <3>1. probeGot' \in Outcome
        OBVIOUS
      <3>2. scanning' \in BOOLEAN
        OBVIOUS
      <3>3. QED
        BY <3>1, <3>2 DEF TypeOK
    <2>2. SlotOK'
      BY DEF TypeOK, SlotOK
    <2>3. (PastOK /\ ProbeOK)'
      BY DEF TypeOK, PastOK, ProbeOK
    <2>4. ProbeReadsLater'
      BY DEF TypeOK, PastOK, ProbeOK, ProbeReadsLater
    <2>5. SerialOK'
      BY DEF TypeOK, PastOK, ProbeOK, SerialOK, OneByOne, PresentOK
    <2>6. (PublishedLater /\ AskedOK)'
      BY DEF TypeOK, SlotOK, PastOK, ProbeOK, PublishedLater, AskedOK
    <2>7. QED
      BY <2>1, <2>2, <2>3, <2>4, <2>5, <2>6
  <1>13. ASSUME UNCHANGED vars PROVE FlowInv'
    <2> USE <1>13 DEF vars
    <2>1. TypeOK'
      BY DEF TypeOK
    <2>2. SlotOK'
      BY DEF TypeOK, SlotOK
    <2>3. (PastOK /\ ProbeOK)'
      BY DEF TypeOK, PastOK, ProbeOK
    <2>4. ProbeReadsLater'
      BY DEF TypeOK, PastOK, ProbeOK, ProbeReadsLater
    <2>5. SerialOK'
      BY DEF TypeOK, PastOK, ProbeOK, SerialOK, OneByOne, PresentOK
    <2>6. (PublishedLater /\ AskedOK)'
      BY DEF TypeOK, SlotOK, PastOK, ProbeOK, PublishedLater, AskedOK
    <2>7. QED
      BY <2>1, <2>2, <2>3, <2>4, <2>5, <2>6
  <1>14. ASSUME LateCommand PROVE FlowInv'
    <2> USE <1>14 DEF LateCommand
    <2>1. TypeOK'
      <3>1. /\ writes' \in 0..MaxWrites /\ owed' \in 0..MaxWrites
            /\ writes' + owed' <= MaxWrites
        BY DEF TypeOK
      <3>2. late' \in BOOLEAN
        OBVIOUS
      <3>3. QED
        BY <3>1, <3>2 DEF TypeOK
    <2>2. SlotOK'
      BY DEF SlotOK
    <2>3. (PastOK /\ ProbeOK)'
      <3>1. /\ writes \in Nat /\ row.result.seen \in Nat /\ probeGot.seen \in Nat
            /\ \A g \in Handlers : got[g].seen \in Nat
        BY DEF TypeOK
      <3>2. QED
        BY <3>1 DEF PastOK, ProbeOK
    <2>4. ProbeReadsLater'
      BY DEF ProbeReadsLater
    <2>5. SerialOK'
      BY DEF SerialOK, OneByOne, PresentOK
    <2>6. (PublishedLater /\ AskedOK)'
      BY DEF PublishedLater, AskedOK
    <2>7. QED
      BY <2>1, <2>2, <2>3, <2>4, <2>5, <2>6
  <1>15. QED
    BY <1>1, <1>2, <1>3, <1>4, <1>5, <1>6, <1>7, <1>8, <1>9, <1>10, <1>11, <1>12, <1>13,
       <1>14 DEF RebootStep, ScanStep

\* FlowInv is inductive.
LEMMA FlowInvHolds == Spec => []FlowInv
  <1>1. Init => FlowInv
    <2> USE FlowAssumption DEF Outcome, Failed
    <2>1. Init => TypeOK
      <3>1. Init => /\ using = {} /\ waiting = {} /\ writes = 0 /\ owed = 0
                    /\ revision \in Nat /\ scanRev \in Nat
                    /\ row \in [rev : Nat, result : Outcome] /\ probeGot \in Outcome
        BY DEF Init, Slot!SlotInit
      <3>2. Init => /\ pc \in [Handlers -> {"idle", "wait", "exchange", "body", "release", "record"}]
                    /\ op \in [Handlers -> {"set", "status"}]
                    /\ got \in [Handlers -> Outcome] /\ rev \in [Handlers -> Nat]
        BY DEF Init
      <3>3. Init => scanning \in BOOLEAN /\ unpublished \in BOOLEAN /\ asked \in BOOLEAN
                    /\ overlapped \in BOOLEAN /\ late \in BOOLEAN
        BY DEF Init
      <3>4. Init => probe = "none" /\ reboot = "none"
        BY DEF Init
      <3>5. QED
        BY <3>1, <3>2, <3>3, <3>4 DEF TypeOK
    <2>2. Init => SlotOK /\ PastOK /\ ProbeOK /\ ProbeReadsLater
      BY DEF Init, Slot!SlotInit, SlotOK, PastOK, ProbeOK, ProbeReadsLater
    <2>3. Init => SerialOK /\ PublishedLater /\ AskedOK
      BY DEF Init, SerialOK, OneByOne, PresentOK, PublishedLater, AskedOK
    <2>4. QED
      BY <2>1, <2>2, <2>3 DEF FlowInv
  <1>2. FlowInv /\ [Next]_vars => FlowInv'
    BY HandlerStepInv, OtherStepInv DEF Next
  <1>3. QED
    BY <1>1, <1>2, PTL DEF Spec

-----------------------------------------------------------------------------
\* The variables keep their types for any number of concurrent requests.
THEOREM TypeCorrect == Spec => []TypeOK
  BY FlowInvHolds, PTL DEF FlowInv

\* Handlers, probe and reboot ask of the device no more than DeviceSlot promises,
\* which is what DeviceGate implements.
THEOREM UsesTheSlot == Spec => Slot!SlotSpec
  <1>1. Init => Slot!SlotInit
    BY DEF Init
  <1>2. [Next]_vars => [Slot!SlotNext]_(Slot!slotVars)
    <2> USE DEF Slot!SlotNext
    <2>1. ASSUME NEW h \in Handlers, (\E o \in {"set", "status"} : BeginFBS(h, o)) \/ HandlerStep(h)
          PROVE  Slot!SlotNext \/ UNCHANGED slotVars
      BY <2>1 DEF BeginFBS, HandlerStep, GiveUpWait, TakeSlot, ExchangeFBS,
         RecoverableError, GiveSlotBack, TakeRevision, RecordFBS, slotVars
    <2>2. ASSUME RebootStep
          PROVE  Slot!SlotNext
      BY <2>2 DEF RebootStep, RebootQueues, RebootTakesSlot, RebootEnds
    <2>3. ASSUME LateCommand \/ RequestRefresh \/ ScanStep
          PROVE  Slot!SlotNext \/ UNCHANGED slotVars
      BY <2>3 DEF LateCommand, RequestRefresh, ScanStep, StartProbe, DeferProbe, SkipProbe,
         ProbeAnswers, DisplaceProbe, ProbeReturnsSlot, RecordProbe, EndScan, slotVars
    <2>4. QED
      BY <2>1, <2>2, <2>3 DEF Next, vars, slotVars, Slot!slotVars
  <1>3. QED
    BY <1>1, <1>2, PTL DEF Spec, Slot!SlotSpec

\* The FBS operation that displaced a probe publishes the result.
THEOREM DisplacementIsPublished == Spec => []DisplacedIsPublished
  <1>1. FlowInv => DisplacedIsPublished
    BY DEF FlowInv, PublishedLater, DisplacedIsPublished, Quiet
  <1>2. QED
    BY <1>1, FlowInvHolds, PTL

\* While the FBS requests of a tool come one by one, its row is the present one
\* whenever nothing is under way, up to a command the device carries out late and
\* again from the next request on.
THEOREM SerialRow == Spec => []SerialRowIsCurrent
  <1>1. FlowInv => SerialRowIsCurrent
    BY DEF FlowInv, SerialOK, PresentOK, SerialRowIsCurrent, RowIsCurrent, Quiet
  <1>2. QED
    BY <1>1, FlowInvHolds, PTL

\* The record of a probe never puts an older result in the place of a newer one.
THEOREM ProbesYield == Spec => ScanYieldsToFBS
  <1>1. FlowInv /\ [Next]_vars =>
          [probe = "record" /\ probe' = "done" /\ row' # row
             /\ row'.result.ok /\ row.result.ok =>
             row'.result.seen >= row.result.seen]_vars
    <2> SUFFICES ASSUME FlowInv, Next, probe = "record", probe' = "done", row' # row,
                        row'.result.ok, row.result.ok
                 PROVE  row'.result.seen >= row.result.seen
      BY DEF vars
    <2>1. RecordProbe
      BY DEF Next, BeginFBS, HandlerStep, GiveUpWait, TakeSlot, ExchangeFBS,
         RecoverableError, GiveSlotBack, TakeRevision, RecordFBS, LateCommand, RebootStep,
         RebootQueues, RebootTakesSlot, RebootEnds, RequestRefresh, ScanStep,
         StartProbe, DeferProbe, SkipProbe, ProbeAnswers, DisplaceProbe,
         ProbeReturnsSlot, EndScan, scanVars
    <2>2. row' = [rev |-> scanRev, result |-> probeGot] /\ row.rev <= scanRev
      BY <2>1 DEF RecordProbe, Record, FlowInv, TypeOK
    <2>3. QED
      BY <2>2 DEF FlowInv, TypeOK, Outcome, ProbeReadsLater
  <1>2. QED
    BY <1>1, FlowInvHolds, PTL DEF Spec, ScanYieldsToFBS

\* A refresh asked for in quiet leaves a row that a GetStatus produced.
THEOREM RefreshIsVerification == Spec => RefreshVerifies
  <1>1. FlowInv /\ [Next]_vars =>
          [scanning /\ ~scanning' /\ asked => row.result.kind = "read"]_vars
    <2> SUFFICES ASSUME FlowInv, Next, scanning, ~scanning', asked
                 PROVE  row.result.kind = "read"
      BY DEF vars
    <2>1. probe = "done"
      BY DEF Next, BeginFBS, HandlerStep, GiveUpWait, TakeSlot, ExchangeFBS,
         RecoverableError, GiveSlotBack, TakeRevision, RecordFBS, LateCommand, RebootStep,
         RebootQueues, RebootTakesSlot, RebootEnds, RequestRefresh, ScanStep,
         StartProbe, DeferProbe, SkipProbe, ProbeAnswers, DisplaceProbe,
         ProbeReturnsSlot, RecordProbe, EndScan, scanVars
    <2>2. QED
      BY <2>1 DEF FlowInv, AskedOK
  <1>2. QED
    BY <1>1, FlowInvHolds, PTL DEF Spec, RefreshVerifies
=============================================================================

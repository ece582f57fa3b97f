-------------------------- MODULE AsyncStore_proofs --------------------------
(***************************************************************************)
(* For any number of writers and flushes and any limits: the types, with   *)
(* both limits of the queue, that no writer waits for queue space, that    *)
(* the byte count is exact, that Flush and Close leave nothing behind, and *)
(* that neither can be left waiting by the worker.                         *)
(***************************************************************************)
EXTENDS AsyncStore, SequenceTheorems, TLAPS

\* A writer keeps the lock only for a record that was not refused.  The limit on
\* the bytes needs it too: they are added a step after they were looked at.
WriterMayGo ==
  mu # Free =>
    /\ call[mu] \in Lengths
    /\ Len(queue) < QueueRecords /\ ~closed
    /\ queuedBytes + call[mu] <= QueueBytes

\* The worker counts a record it has in hand.
InHand == worker \in {"writing", "counting"} => job \in Lengths

\* The queue and its counters, one part of the type invariant, ...
QueueTyped ==
  /\ mu \in Writers \cup {Free}
  /\ queue \in Seq(Lengths \cup Flushes) /\ Len(queue) <= QueueRecords
  /\ queuedBytes \in Int /\ queuedBytes <= QueueBytes
  /\ call \in [Writers -> Lengths \cup {NoRecord}]
  /\ worker \in {"receiving", "writing", "counting", "done"}
  /\ job \in Lengths \cup {NoRecord}

\* ... and where everyone is, the other.
CallsTyped ==
  /\ closed \in BOOLEAN
  /\ barrier \subseteq Flushes
  /\ flush \in [Flushes -> {"idle", "trying", "waiting", "flushed", "failed"}]
  /\ closer \in {"idle", "draining", "closed", "expired"}
  /\ accepted \in Nat /\ handed \in Nat
  /\ due \in [Flushes -> Nat]

QueueInv == QueueTyped /\ InHand /\ WriterMayGo

-----------------------------------------------------------------------------
\* The queue starts empty and unlocked.
LEMMA InitInv == Init => QueueInv
BY ArchiveAssumption DEF Init, QueueInv, QueueTyped, InHand, WriterMayGo

\* A step that leaves what the invariant is about alone.
LEMMA Elsewhere ==
  ASSUME QueueInv, UNCHANGED <<mu, queue, queuedBytes, closed, call, worker, job>>
  PROVE  QueueInv'
BY DEF QueueInv, QueueTyped, InHand, WriterMayGo

\* One step per action; only Send and the barriers add to the queue.
LEMMA QueueInvNext ==
  ASSUME QueueInv, [Next]_vars
  PROVE  QueueInv'
<1>1. QueueTyped /\ InHand /\ WriterMayGo
  BY DEF QueueInv
<1>2. /\ Lengths \subseteq Nat /\ QueueRecords \in Nat /\ QueueBytes \in Nat
      /\ Free \notin Writers /\ NoRecord \notin Lengths
      /\ Lengths \cap Flushes = {}
  BY ArchiveAssumption
<1>3. ASSUME NEW w \in Writers, NEW length \in Lengths, BeginWrite(w, length)
      PROVE  QueueInv'
  <2>1. /\ call[w] = NoRecord
        /\ call' = [call EXCEPT ![w] = length]
        /\ UNCHANGED <<mu, queue, queuedBytes, closed, worker, job>>
    BY <1>3 DEF BeginWrite
  <2>2. mu # w
    BY <1>1, <1>2, <2>1 DEF WriterMayGo
  <2> QED BY <1>1, <1>2, <2>1, <2>2 DEF QueueInv, QueueTyped, InHand, WriterMayGo
<1>4. ASSUME NEW w \in Writers, Refuse(w)
      PROVE  QueueInv'
  BY <1>1, <1>2, <1>4 DEF Refuse, QueueInv, QueueTyped, InHand, WriterMayGo
<1>5. ASSUME NEW w \in Writers, Admit(w)
      PROVE  QueueInv'
  <2>1. /\ call[w] \in Lengths
        /\ ~closed /\ ~(queuedBytes + call[w] > QueueBytes) /\ Len(queue) # QueueRecords
        /\ mu' = w
        /\ UNCHANGED <<queue, queuedBytes, closed, call, worker, job>>
    BY <1>1, <1>5 DEF Admit, Refused, Full, QueueTyped
  <2>2. Len(queue) \in Nat
    BY <1>1, LenProperties DEF QueueTyped
  <2>3. QueueTyped' /\ InHand'
    BY <1>1, <2>1 DEF QueueTyped, InHand
  <2>4. queuedBytes + call[w] <= QueueBytes
    <3>1. call[w] \in Nat /\ queuedBytes \in Int /\ QueueBytes \in Nat
      BY <1>1, <1>2, <2>1 DEF QueueTyped
    <3> QED BY <2>1, <3>1
  <2>5. Len(queue) < QueueRecords
    BY <1>1, <1>2, <2>1, <2>2 DEF QueueTyped
  <2>6. WriterMayGo'
    BY <2>1, <2>4, <2>5 DEF WriterMayGo
  <2> QED BY <2>3, <2>6 DEF QueueInv
<1>6. ASSUME NEW w \in Writers, Send(w)
      PROVE  QueueInv'
  <2>1. /\ mu = w /\ mu' = Free
        /\ queue' = Append(queue, call[w])
        /\ queuedBytes' = queuedBytes + call[w]
        /\ call' = [call EXCEPT ![w] = NoRecord]
        /\ UNCHANGED <<closed, worker, job>>
    BY <1>6 DEF Send
  <2>2. /\ call[w] \in Lengths /\ Len(queue) < QueueRecords
        /\ queuedBytes + call[w] <= QueueBytes
    BY <1>1, <1>2, <2>1 DEF WriterMayGo
  <2>3. /\ Append(queue, call[w]) \in Seq(Lengths \cup Flushes)
        /\ Len(Append(queue, call[w])) = Len(queue) + 1 /\ Len(queue) \in Nat
    BY <1>1, <2>2, AppendProperties, LenProperties DEF QueueTyped
  <2>4. QueueTyped'
    BY <1>1, <1>2, <2>1, <2>2, <2>3 DEF QueueTyped
  <2> QED BY <1>1, <2>1, <2>4 DEF QueueInv, InHand, WriterMayGo
<1>7. CASE Receive
  <2>1. /\ queue # <<>> /\ queue' = Tail(queue)
        /\ UNCHANGED <<mu, queuedBytes, closed, call>>
        /\ worker = "receiving"
        /\ \/ UNCHANGED <<worker, job>>
           \/ job' = Head(queue) /\ Head(queue) \notin Flushes /\ worker' = "writing"
    BY <1>7 DEF Receive
  <2>2. /\ Head(queue) \in Lengths \cup Flushes
        /\ Tail(queue) \in Seq(Lengths \cup Flushes)
        /\ Len(Tail(queue)) = Len(queue) - 1 /\ Len(queue) \in Nat
    BY <1>1, <2>1, HeadTailProperties, LenProperties DEF QueueTyped
  <2>3. QueueTyped' /\ InHand'
    BY <1>1, <1>2, <2>1, <2>2 DEF QueueTyped, InHand
  <2>4. WriterMayGo'
    BY <1>1, <1>2, <2>1, <2>2 DEF QueueTyped, WriterMayGo
  <2> QED BY <2>3, <2>4 DEF QueueInv
<1>8. CASE Store \/ Stop
  BY <1>1, <1>8 DEF Store, Stop, QueueInv, QueueTyped, InHand, WriterMayGo
<1>9. CASE Count
  <2>1. job \in Lengths
    BY <1>1, <1>9 DEF Count, InHand
  <2> QED
    BY <1>1, <1>2, <1>9, <2>1 DEF Count, QueueInv, QueueTyped, InHand, WriterMayGo
<1>10. ASSUME NEW f \in Flushes, QueueBarrier(f)
       PROVE  QueueInv'
  <2>1. /\ mu = Free /\ Len(queue) # QueueRecords
        /\ queue' = Append(queue, f)
        /\ UNCHANGED <<mu, queuedBytes, closed, call, worker, job>>
    BY <1>10 DEF QueueBarrier, Full
  <2>2. /\ Append(queue, f) \in Seq(Lengths \cup Flushes)
        /\ Len(Append(queue, f)) = Len(queue) + 1 /\ Len(queue) \in Nat
    BY <1>1, AppendProperties, LenProperties DEF QueueTyped
  <2>3. QueueTyped'
    BY <1>1, <1>2, <2>1, <2>2 DEF QueueTyped
  <2> QED BY <1>1, <2>1, <2>3 DEF QueueInv, InHand, WriterMayGo
<1>11. CASE BeginClose
  BY <1>1, <1>11 DEF BeginClose, QueueInv, QueueTyped, InHand, WriterMayGo
<1>12. ASSUME NEW f \in Flushes,
              BeginFlush(f) \/ FlushRefused(f) \/ FlushReturns(f) \/ FlushExpires(f)
       PROVE  QueueInv'
  BY <1>12, Elsewhere DEF BeginFlush, FlushRefused, FlushReturns, FlushExpires
<1>13. CASE CloseStore \/ CloseExpires \/ UNCHANGED vars
  BY <1>13, Elsewhere DEF CloseStore, CloseExpires, vars
<1> QED
  BY <1>3, <1>4, <1>5, <1>6, <1>7, <1>8, <1>9, <1>10, <1>11, <1>12, <1>13
  DEF Next, WriteStep, FlushStep

-----------------------------------------------------------------------------
\* Everyone starts idle.
LEMMA CallsInit == Init => CallsTyped
<1>1. Init => closed \in BOOLEAN
  BY DEF Init
<1> QED BY <1>1 DEF Init, CallsTyped

\* Every step leaves the calls, the flushes and the history their types.
LEMMA CallsNext ==
  ASSUME CallsTyped, QueueTyped, [Next]_vars
  PROVE  CallsTyped'
<1>1. closed' \in BOOLEAN
  BY Zenon DEF CallsTyped, Next, vars, BeginWrite, WriteStep, Refuse, Admit, Send,
     Receive, Store, Count, Stop, BeginFlush, FlushStep, FlushRefused, QueueBarrier,
     FlushReturns, FlushExpires, BeginClose, CloseStore, CloseExpires
<1>2. barrier' \subseteq Flushes
  BY DEF CallsTyped, Next, vars, BeginWrite, WriteStep, Refuse, Admit, Send,
     Receive, Store, Count, Stop, BeginFlush, FlushStep, FlushRefused, QueueBarrier,
     FlushReturns, FlushExpires, BeginClose, CloseStore, CloseExpires
<1>3. /\ flush' \in [Flushes -> {"idle", "trying", "waiting", "flushed", "failed"}]
      /\ due' \in [Flushes -> Nat]
  BY DEF CallsTyped, Next, vars, BeginWrite, WriteStep, Refuse, Admit, Send,
     Receive, Store, Count, Stop, BeginFlush, FlushStep, FlushRefused, QueueBarrier,
     FlushReturns, FlushExpires, BeginClose, CloseStore, CloseExpires
<1>4. closer' \in {"idle", "draining", "closed", "expired"}
  BY DEF CallsTyped, Next, vars, BeginWrite, WriteStep, Refuse, Admit, Send,
     Receive, Store, Count, Stop, BeginFlush, FlushStep, FlushRefused, QueueBarrier,
     FlushReturns, FlushExpires, BeginClose, CloseStore, CloseExpires
<1>5. accepted' \in Nat /\ handed' \in Nat
  <2>1. accepted' \in {accepted, accepted + 1} /\ handed' \in {handed, handed + 1}
    BY DEF Next, vars, BeginWrite, WriteStep, Refuse, Admit, Send,
       Receive, Store, Count, Stop, BeginFlush, FlushStep, FlushRefused, QueueBarrier,
       FlushReturns, FlushExpires, BeginClose, CloseStore, CloseExpires
  <2> QED BY <2>1 DEF CallsTyped
<1> QED BY <1>1, <1>2, <1>3, <1>4, <1>5 DEF CallsTyped

\* Both parts of the types, with what a writer and the worker rely on.
LEMMA SpecInv == Spec => [](QueueInv /\ CallsTyped)
<1>1. Init => QueueInv /\ CallsTyped
  BY InitInv, CallsInit
<1>2. QueueInv /\ CallsTyped /\ [Next]_vars => QueueInv' /\ CallsTyped'
  BY QueueInvNext, CallsNext DEF QueueInv
<1> QED BY <1>1, <1>2, PTL DEF Spec

-----------------------------------------------------------------------------
\* The queue keeps both of its limits, and everything its type.
THEOREM TypeCorrect == Spec => []TypeOK
<1>1. CallsTyped => closed \in BOOLEAN
  BY DEF CallsTyped
<1>2. QueueInv /\ CallsTyped => TypeOK
  BY <1>1 DEF QueueInv, QueueTyped, CallsTyped, TypeOK
<1> QED BY <1>2, SpecInv, PTL

\* Write's send never blocks: every barrier goes through the lock too.
THEOREM WritersNeverBlock == Spec => []SendHasRoom
<1>1. QueueInv => SendHasRoom
  <2>1. SUFFICES ASSUME QueueInv, mu # Free PROVE ~Full /\ ~closed
    BY DEF SendHasRoom
  <2>2. Len(queue) < QueueRecords /\ ~closed /\ Len(queue) \in Nat
    BY <2>1, LenProperties DEF QueueInv, QueueTyped, WriterMayGo
  <2> QED BY <2>2, ArchiveAssumption DEF Full
<1> QED BY <1>1, SpecInv, PTL

-----------------------------------------------------------------------------
(* What is in the queue, counted without a recursion: a running total n over  *)
(* the queue's places, of whatever each entry weighs.  A send extends it, a   *)
(* receive drops its first step.                                              *)

Jobs == Lengths \cup Flushes
Bytes == [j \in Jobs |-> IF j \in Flushes THEN 0 ELSE j]
Records == [j \in Jobs |-> IF j \in Flushes THEN 0 ELSE 1]

Running(n, s, weight) ==
  /\ n \in [0..Len(s) -> Nat]
  /\ \A i \in 1..Len(s) : n[i] = n[i - 1] + weight[s[i]]
  /\ \A i, k \in 0..Len(s) : i <= k => n[i] <= n[k]

\* A total of a longer queue goes on from the old one.
LEMMA RunningAppend ==
  ASSUME NEW s \in Seq(Jobs), NEW e \in Jobs, NEW weight \in [Jobs -> Nat], NEW n,
         Running(n, s, weight)
  PROVE  \E m : /\ Running(m, Append(s, e), weight)
                /\ \A i \in 0..Len(s) : m[i] = n[i]
                /\ m[Len(s) + 1] = n[Len(s)] + weight[e]
<1> DEFINE top == Len(s) + 1
           m == [i \in 0..top |-> IF i = top THEN n[Len(s)] + weight[e] ELSE n[i]]
<1>1. /\ Len(s) \in Nat /\ Len(Append(s, e)) = top
      /\ \A i \in 1..Len(s) : Append(s, e)[i] = s[i]
      /\ Append(s, e)[top] = e
  BY AppendProperties, LenProperties
<1>2. /\ n \in [0..Len(s) -> Nat]
      /\ \A i \in 1..Len(s) : n[i] = n[i - 1] + weight[s[i]]
      /\ \A i, k \in 0..Len(s) : i <= k => n[i] <= n[k]
  BY DEF Running
<1>3. weight[e] \in Nat /\ n[Len(s)] \in Nat
  <2>1. Len(s) \in 0..Len(s)
    BY <1>1
  <2>2. n[Len(s)] \in Nat
    BY <1>2, <2>1
  <2> QED BY <2>2
<1>4. /\ \A i \in 0..Len(s) : m[i] = n[i]
      /\ m[top] = n[Len(s)] + weight[e]
      /\ m \in [0..top -> Nat]
  BY <1>1, <1>2, <1>3
<1>5. \A i \in 1..top : m[i] = m[i - 1] + weight[Append(s, e)[i]]
  <2>1. TAKE i \in 1..top
  <2>2. CASE i = top
    <3>1. i - 1 = Len(s) /\ Len(s) \in 0..Len(s)
      BY <1>1, <2>2
    <3> QED BY <1>1, <1>4, <2>2, <3>1
  <2>3. CASE i # top
    <3>1. i \in 1..Len(s) /\ i \in 0..Len(s) /\ i - 1 \in 0..Len(s)
      BY <1>1, <2>1, <2>3
    <3> QED BY <1>1, <1>2, <1>4, <3>1
  <2> QED BY <2>2, <2>3
<1>6. \A i, k \in 0..top : i <= k => m[i] <= m[k]
  <2>1. SUFFICES ASSUME NEW i \in 0..top, NEW k \in 0..top, i <= k
                 PROVE  m[i] <= m[k]
    OBVIOUS
  <2>2. CASE k # top
    <3>1. i \in 0..Len(s) /\ k \in 0..Len(s)
      BY <1>1, <2>1, <2>2
    <3> QED BY <1>2, <1>4, <2>1, <3>1
  <2>3. CASE i = top
    BY <1>1, <1>4, <2>1, <2>3
  <2>4. CASE k = top /\ i # top
    <3>1. i \in 0..Len(s) /\ Len(s) \in 0..Len(s) /\ i <= Len(s)
      BY <1>1, <2>1, <2>4
    <3>2. n[i] \in Nat /\ n[i] <= n[Len(s)]
      BY <1>2, <3>1
    <3> QED BY <1>3, <1>4, <2>4, <3>1, <3>2
  <2> QED BY <2>2, <2>3, <2>4
<1>7. Running(m, Append(s, e), weight)
  BY <1>1, <1>4, <1>5, <1>6 DEF Running
<1> QED BY <1>4, <1>7

\* A total of the rest of a queue is the old one without its first step.
LEMMA RunningTail ==
  ASSUME NEW s \in Seq(Jobs), s # <<>>, NEW weight \in [Jobs -> Nat], NEW n,
         Running(n, s, weight)
  PROVE  /\ n[1] = n[0] + weight[Head(s)]
         /\ \E m : /\ Running(m, Tail(s), weight)
                   /\ \A i \in 0..Len(Tail(s)) : m[i] = n[i + 1]
<1> DEFINE m == [i \in 0..Len(Tail(s)) |-> n[i + 1]]
<1>1. /\ Len(s) \in Nat /\ Len(s) # 0 /\ Len(Tail(s)) = Len(s) - 1
      /\ \A i \in 1..Len(Tail(s)) : Tail(s)[i] = s[i + 1]
      /\ Head(s) = s[1]
  BY HeadTailProperties, LenProperties
<1>2. /\ n \in [0..Len(s) -> Nat]
      /\ \A i \in 1..Len(s) : n[i] = n[i - 1] + weight[s[i]]
      /\ \A i, k \in 0..Len(s) : i <= k => n[i] <= n[k]
  BY DEF Running
<1>3. n[1] = n[0] + weight[Head(s)]
  BY <1>1, <1>2
<1>4. \A i \in 0..Len(Tail(s)) : m[i] = n[i + 1] /\ i + 1 \in 0..Len(s)
  BY <1>1
<1>5. m \in [0..Len(Tail(s)) -> Nat]
  BY <1>1, <1>2
<1>6. \A i \in 1..Len(Tail(s)) : m[i] = m[i - 1] + weight[Tail(s)[i]]
  <2>1. TAKE i \in 1..Len(Tail(s))
  <2>2. /\ i + 1 \in 1..Len(s) /\ i \in 0..Len(Tail(s)) /\ i - 1 \in 0..Len(Tail(s))
        /\ (i + 1) - 1 = i /\ (i - 1) + 1 = i
    BY <1>1, <2>1
  <2>3. n[i + 1] = n[i] + weight[s[i + 1]]
    BY <1>2, <2>2
  <2>4. m[i] = n[i + 1] /\ m[i - 1] = n[i] /\ Tail(s)[i] = s[i + 1]
    BY <1>1, <1>4, <2>1, <2>2
  <2> QED BY <2>3, <2>4
<1>7. \A i, k \in 0..Len(Tail(s)) : i <= k => m[i] <= m[k]
  BY <1>1, <1>2, <1>4
<1>8. Running(m, Tail(s), weight)
  BY <1>5, <1>6, <1>7 DEF Running
<1> QED BY <1>3, <1>4, <1>8

\* What a record counted off leaves of the totals behind it.
LEMMA RunningLess ==
  ASSUME NEW s \in Seq(Jobs), NEW weight \in [Jobs -> Nat], NEW n,
         Running(n, s, weight), NEW c \in Nat, c <= n[0]
  PROVE  \E m : /\ Running(m, s, weight)
                /\ \A i \in 0..Len(s) : m[i] = n[i] - c
<1> DEFINE m == [i \in 0..Len(s) |-> n[i] - c]
<1>1. /\ Len(s) \in Nat
      /\ n \in [0..Len(s) -> Nat]
      /\ \A i \in 1..Len(s) : n[i] = n[i - 1] + weight[s[i]]
      /\ \A i, k \in 0..Len(s) : i <= k => n[i] <= n[k]
  BY LenProperties DEF Running
<1>2. \A i \in 0..Len(s) : m[i] = n[i] - c /\ n[i] \in Nat /\ c <= n[i]
  <2>1. TAKE i \in 0..Len(s)
  <2>2. 0 \in 0..Len(s) /\ 0 <= i
    BY <1>1, <2>1
  <2>3. n[0] <= n[i] /\ n[0] \in Nat /\ n[i] \in Nat
    BY <1>1, <2>1, <2>2
  <2> QED BY <2>1, <2>3
<1>3. m \in [0..Len(s) -> Nat]
  BY <1>2
<1>4. \A i \in 1..Len(s) : m[i] = m[i - 1] + weight[s[i]]
  <2>1. TAKE i \in 1..Len(s)
  <2>2. i \in 0..Len(s) /\ i - 1 \in 0..Len(s)
    BY <1>1, <2>1
  <2>3. s[i] \in Jobs
    BY <2>1, ElementOfSeq
  <2>4. weight[s[i]] \in Nat
    BY <2>3
  <2>5. n[i] = n[i - 1] + weight[s[i]]
    BY <1>1, <2>1
  <2>6. m[i] = n[i] - c /\ m[i - 1] = n[i - 1] - c
    BY <2>2
  <2>7. n[i] \in Nat /\ n[i - 1] \in Nat
    BY <1>2, <2>2
  <2> HIDE DEF m
  <2>8. \A x, y, z \in Nat : x = y + z => x - c = (y - c) + z
    OBVIOUS
  <2>9. n[i] - c = (n[i - 1] - c) + weight[s[i]]
    BY <2>4, <2>5, <2>7, <2>8, Zenon
  <2> QED BY <2>6, <2>9, Zenon
<1>5. \A i, k \in 0..Len(s) : i <= k => m[i] <= m[k]
  BY <1>1, <1>2
<1>6. Running(m, s, weight)
  BY <1>3, <1>4, <1>5 DEF Running
<1> QED BY <1>2, <1>6

-----------------------------------------------------------------------------
\* The worker has no record in hand when it goes to the queue.
IdleHand == worker \in {"receiving", "done"} => job = NoRecord

\* The bytes counted are those in hand and, on top, those of the queue.
BytesRun ==
  \E n : /\ Running(n, queue, Bytes)
        /\ n[0] = (IF job = NoRecord THEN 0 ELSE job)
        /\ n[Len(queue)] = queuedBytes

\* The records accepted are those handed over, the one on its way to the disk and
\* those of the queue; a barrier stands behind those it is due.
RecordsRun ==
  \E n : /\ Running(n, queue, Records)
        /\ n[0] = handed + (IF worker = "writing" THEN 1 ELSE 0)
        /\ n[Len(queue)] = accepted
        /\ \A i \in 1..Len(queue) : queue[i] \in Flushes => due[queue[i]] = n[i]

\* A barrier is queued once; it is closed, and its Flush returns, when what it is
\* due has been handed over.
BarrierInv ==
  /\ \A i \in 1..Len(queue) :
       queue[i] \in Flushes => flush[queue[i]] \notin {"idle", "trying"}
  /\ \A f \in barrier : flush[f] \notin {"idle", "trying"} /\ due[f] <= handed
  /\ \A f \in Flushes : flush[f] = "flushed" => f \in barrier

\* A worker that is done leaves an empty queue that stays closed.
DoneInv ==
  /\ worker = "done" => closed /\ queue = <<>>
  /\ closer = "closed" => worker = "done"

Weights == Bytes \in [Jobs -> Nat] /\ Records \in [Jobs -> Nat]

\* Both weights are naturals.
LEMMA WeightsTyped == Weights
<1>1. Lengths \subseteq Nat
  BY ArchiveAssumption
<1> QED BY <1>1 DEF Weights, Bytes, Records, Jobs

\* A step that neither moves a record nor changes a total.
LEMMA Uncounted ==
  ASSUME QueueInv, [Next]_vars, UNCHANGED queue
  PROVE  \/ UNCHANGED <<queuedBytes, job, worker, accepted, handed, due>>
         \/ Store \/ Count \/ Stop
<1>1. queue \in Seq(Jobs) /\ Len(queue) \in Nat
  BY LenProperties DEF QueueInv, QueueTyped, Jobs
<1>2. ASSUME NEW w \in Writers, Send(w) PROVE FALSE
  <2>1. mu = w /\ queue' = Append(queue, call[w])
    BY <1>2 DEF Send
  <2>2. call[w] \in Jobs
    BY <2>1, ArchiveAssumption DEF QueueInv, WriterMayGo, Jobs
  <2>3. Len(queue') = Len(queue) + 1
    BY <1>1, <2>1, <2>2, AppendProperties
  <2> QED BY <1>1, <2>3
<1>3. ASSUME NEW f \in Flushes, QueueBarrier(f) PROVE FALSE
  <2>1. queue' = Append(queue, f) /\ f \in Jobs
    BY <1>3 DEF QueueBarrier, Jobs
  <2>2. Len(queue') = Len(queue) + 1
    BY <1>1, <2>1, AppendProperties
  <2> QED BY <1>1, <2>2
<1>4. CASE Receive
  <2>1. queue # <<>> /\ queue' = Tail(queue)
    BY <1>4 DEF Receive
  <2>2. Len(queue') = Len(queue) - 1
    BY <1>1, <2>1, HeadTailProperties
  <2> QED BY <1>1, <2>2
<1> QED
  BY <1>2, <1>3, <1>4 DEF Next, WriteStep, FlushStep, vars, BeginWrite, Refuse, Admit,
     BeginFlush, FlushRefused, FlushReturns, FlushExpires, BeginClose, CloseStore,
     CloseExpires

\* The three steps that change the queue.
LEMMA QueueMoves ==
  ASSUME QueueInv, [Next]_vars, queue' # queue
  PROVE  \/ \E w \in Writers : Send(w)
         \/ \E f \in Flushes : QueueBarrier(f)
         \/ Receive
BY DEF Next, WriteStep, FlushStep, vars, BeginWrite, Refuse, Admit, Store, Count, Stop,
   BeginFlush, FlushRefused, FlushReturns, FlushExpires, BeginClose, CloseStore,
   CloseExpires

\* A send, as the totals see it.
LEMMA Sent ==
  ASSUME QueueInv, NEW w \in Writers, Send(w)
  PROVE  /\ call[w] \in Lengths /\ call[w] \in Jobs
         /\ Bytes[call[w]] = call[w] /\ Records[call[w]] = 1
         /\ queue' = Append(queue, call[w])
         /\ queuedBytes' = queuedBytes + call[w] /\ accepted' = accepted + 1
         /\ UNCHANGED <<worker, job, handed, due, flush, barrier, closed, closer>>
<1>1. call[w] \in Lengths
  <2>1. mu = w /\ Free \notin Writers
    BY ArchiveAssumption DEF Send
  <2> QED BY <2>1 DEF QueueInv, WriterMayGo
<1>2. call[w] \notin Flushes /\ call[w] \in Jobs
  BY <1>1, ArchiveAssumption DEF Jobs
<1> QED BY <1>1, <1>2 DEF Send, Bytes, Records

-----------------------------------------------------------------------------
\* The bytes are those in hand and in the queue after every step.
LEMMA BytesNext ==
  ASSUME QueueInv, IdleHand, BytesRun, [Next]_vars
  PROVE  BytesRun'
<1>1. /\ queue \in Seq(Jobs) /\ Len(queue) \in Nat
      /\ Bytes \in [Jobs -> Nat]
      /\ job \in Lengths \cup {NoRecord} /\ queuedBytes \in Int
  BY LenProperties, WeightsTyped DEF QueueInv, QueueTyped, Jobs, Weights
<1>2. Lengths \subseteq Nat /\ NoRecord \notin Lengths
  BY ArchiveAssumption
<1>3. PICK n : /\ Running(n, queue, Bytes)
               /\ n[0] = (IF job = NoRecord THEN 0 ELSE job)
               /\ n[Len(queue)] = queuedBytes
  BY DEF BytesRun
<1>4. ASSUME NEW w \in Writers, Send(w) PROVE BytesRun'
  <2>1. PICK m : /\ Running(m, Append(queue, call[w]), Bytes)
                 /\ \A i \in 0..Len(queue) : m[i] = n[i]
                 /\ m[Len(queue) + 1] = n[Len(queue)] + Bytes[call[w]]
    <3>1. /\ queue \in Seq(Jobs) /\ call[w] \in Jobs /\ Bytes \in [Jobs -> Nat]
          /\ Running(n, queue, Bytes)
      BY <1>1, <1>3, <1>4, Sent
    <3> QED BY <3>1, RunningAppend
  <2>2. Len(queue') = Len(queue) + 1
    BY <1>1, <1>4, Sent, AppendProperties
  <2>3. m[0] = n[0]
    BY <1>1, <2>1
  <2>4. UNCHANGED job /\ queue' = Append(queue, call[w])
        /\ queuedBytes' = queuedBytes + call[w] /\ Bytes[call[w]] = call[w]
    BY <1>4, Sent
  <2> QED BY <1>3, <2>1, <2>2, <2>3, <2>4 DEF BytesRun
<1>5. ASSUME NEW f \in Flushes, QueueBarrier(f) PROVE BytesRun'
  <2>1. f \in Jobs /\ Bytes[f] = 0 /\ queue' = Append(queue, f)
        /\ UNCHANGED <<job, queuedBytes>>
    BY <1>5 DEF QueueBarrier, Bytes, Jobs
  <2>2. PICK m : /\ Running(m, Append(queue, f), Bytes)
                 /\ \A i \in 0..Len(queue) : m[i] = n[i]
                 /\ m[Len(queue) + 1] = n[Len(queue)] + Bytes[f]
    <3>1. /\ queue \in Seq(Jobs) /\ f \in Jobs /\ Bytes \in [Jobs -> Nat]
          /\ Running(n, queue, Bytes)
      BY <1>1, <1>3, <2>1
    <3> QED BY <3>1, RunningAppend
  <2>3. Len(queue') = Len(queue) + 1 /\ m[0] = n[0]
    BY <1>1, <2>1, <2>2, AppendProperties
  <2> QED BY <1>1, <1>3, <2>1, <2>2, <2>3 DEF BytesRun
<1>6. CASE Receive
  <2>1. /\ queue # <<>> /\ queue' = Tail(queue) /\ worker = "receiving"
        /\ UNCHANGED queuedBytes
        /\ \/ Head(queue) \in Flushes /\ UNCHANGED job
           \/ Head(queue) \notin Flushes /\ job' = Head(queue)
    BY <1>6 DEF Receive
  <2>2. job = NoRecord /\ n[0] = 0
    BY <1>3, <2>1 DEF IdleHand
  <2>3. /\ queue \in Seq(Jobs) /\ queue # <<>> /\ Bytes \in [Jobs -> Nat]
        /\ Running(n, queue, Bytes)
    BY <1>1, <1>3, <2>1
  <2>4. n[1] = n[0] + Bytes[Head(queue)]
    BY <2>3, RunningTail
  <2>5. PICK m : /\ Running(m, Tail(queue), Bytes)
                 /\ \A i \in 0..Len(Tail(queue)) : m[i] = n[i + 1]
    BY <2>3, RunningTail
  <2>6. Head(queue) \in Jobs /\ Len(Tail(queue)) = Len(queue) - 1 /\ Len(queue) # 0
    BY <1>1, <2>1, HeadTailProperties, EmptySeq
  <2>7. m[0] = n[1] /\ m[Len(Tail(queue))] = n[Len(queue)]
    <3>1. 0 \in 0..Len(Tail(queue)) /\ Len(Tail(queue)) \in 0..Len(Tail(queue))
      BY <1>1, <2>6
    <3> QED BY <1>1, <2>5, <2>6, <3>1
  <2>8. n[1] = (IF job' = NoRecord THEN 0 ELSE job')
    <3>1. CASE Head(queue) \in Flushes
      BY <2>1, <2>2, <2>4, <2>6, <3>1 DEF Bytes
    <3>2. CASE Head(queue) \notin Flushes
      <4>1. job' = Head(queue) /\ Head(queue) \in Lengths
        BY <2>1, <2>6, <3>2 DEF Jobs
      <4>2. Bytes[Head(queue)] = Head(queue) /\ Head(queue) \in Nat
        BY <1>2, <2>6, <3>2, <4>1 DEF Bytes
      <4> QED BY <1>2, <2>2, <2>4, <4>1, <4>2
    <3> QED BY <3>1, <3>2
  <2> QED BY <1>3, <2>1, <2>5, <2>7, <2>8 DEF BytesRun
<1>7. CASE Count
  <2>1. /\ queuedBytes' = queuedBytes - job /\ job' = NoRecord /\ UNCHANGED queue
        /\ worker = "counting"
    BY <1>7 DEF Count
  <2>2. job \in Nat /\ n[0] = job
    BY <1>2, <1>3, <2>1 DEF QueueInv, InHand
  <2>3. PICK m : /\ Running(m, queue, Bytes)
                 /\ \A i \in 0..Len(queue) : m[i] = n[i] - job
    <3>1. /\ queue \in Seq(Jobs) /\ Bytes \in [Jobs -> Nat] /\ Running(n, queue, Bytes)
          /\ job \in Nat /\ job <= n[0]
      BY <1>1, <1>3, <2>2
    <3> QED BY <3>1, RunningLess
  <2>4. m[0] = 0 /\ m[Len(queue)] = queuedBytes - job
    BY <1>1, <1>3, <2>2, <2>3
  <2> QED BY <2>1, <2>3, <2>4 DEF BytesRun
<1>8. CASE Store \/ Stop
  BY <1>3, <1>8 DEF Store, Stop, BytesRun
<1>9. CASE UNCHANGED <<queue, queuedBytes, job>>
  BY <1>3, <1>9 DEF BytesRun
<1> QED BY <1>4, <1>5, <1>6, <1>7, <1>8, <1>9, Uncounted, QueueMoves

\* The records accepted are handed over, in hand or in the queue after every step,
\* and a barrier stays behind what it is due.
LEMMA RecordsNext ==
  ASSUME QueueInv, CallsTyped, RecordsRun, BarrierInv, [Next]_vars
  PROVE  RecordsRun'
<1>1. /\ queue \in Seq(Jobs) /\ Len(queue) \in Nat
      /\ Records \in [Jobs -> Nat]
      /\ due \in [Flushes -> Nat] /\ accepted \in Nat /\ handed \in Nat
  BY LenProperties, WeightsTyped DEF QueueInv, QueueTyped, CallsTyped, Jobs, Weights
<1>2. PICK n : /\ Running(n, queue, Records)
               /\ n[0] = handed + (IF worker = "writing" THEN 1 ELSE 0)
               /\ n[Len(queue)] = accepted
               /\ \A i \in 1..Len(queue) : queue[i] \in Flushes => due[queue[i]] = n[i]
  BY DEF RecordsRun
<1>3. ASSUME NEW w \in Writers, Send(w) PROVE RecordsRun'
  <2>1. PICK m : /\ Running(m, Append(queue, call[w]), Records)
                 /\ \A i \in 0..Len(queue) : m[i] = n[i]
                 /\ m[Len(queue) + 1] = n[Len(queue)] + Records[call[w]]
    <3>1. /\ queue \in Seq(Jobs) /\ call[w] \in Jobs /\ Records \in [Jobs -> Nat]
          /\ Running(n, queue, Records)
      BY <1>1, <1>2, <1>3, Sent
    <3> QED BY <3>1, RunningAppend
  <2>2. /\ Len(queue') = Len(queue) + 1
        /\ \A i \in 1..Len(queue) : queue'[i] = queue[i]
        /\ queue'[Len(queue) + 1] = call[w]
    <3>1. queue' = Append(queue, call[w]) /\ call[w] \in Jobs
      BY <1>3, Sent
    <3> QED BY <1>1, <3>1, AppendProperties
  <2>3. m[0] = n[0]
    BY <1>1, <2>1
  <2>4. /\ UNCHANGED <<worker, handed, due>> /\ queue' = Append(queue, call[w])
        /\ accepted' = accepted + 1 /\ Records[call[w]] = 1
        /\ call[w] \notin Flushes
    BY <1>3, Sent, ArchiveAssumption
  <2>5. ASSUME NEW i \in 1..Len(queue'), queue'[i] \in Flushes
        PROVE  due'[queue'[i]] = m[i]
    <3>1. i # Len(queue) + 1
      BY <2>2, <2>4, <2>5
    <3>2. i \in 1..Len(queue) /\ i \in 0..Len(queue)
      BY <1>1, <2>2, <3>1
    <3> QED BY <1>2, <2>1, <2>2, <2>4, <2>5, <3>2
  <2> QED BY <1>2, <2>1, <2>2, <2>3, <2>4, <2>5 DEF RecordsRun
<1>4. ASSUME NEW f \in Flushes, QueueBarrier(f) PROVE RecordsRun'
  <2>1. f \in Jobs /\ Records[f] = 0
    BY DEF Records, Jobs
  <2>2. /\ queue' = Append(queue, f) /\ flush[f] = "trying"
        /\ due' = [due EXCEPT ![f] = accepted]
        /\ UNCHANGED <<worker, handed, accepted>>
    BY <1>4 DEF QueueBarrier
  <2>3. PICK m : /\ Running(m, Append(queue, f), Records)
                 /\ \A i \in 0..Len(queue) : m[i] = n[i]
                 /\ m[Len(queue) + 1] = n[Len(queue)] + Records[f]
    <3>1. /\ queue \in Seq(Jobs) /\ f \in Jobs /\ Records \in [Jobs -> Nat]
          /\ Running(n, queue, Records)
      BY <1>1, <1>2, <2>1
    <3> QED BY <3>1, RunningAppend
  <2>4. /\ Len(queue') = Len(queue) + 1
        /\ \A i \in 1..Len(queue) : queue'[i] = queue[i]
        /\ queue'[Len(queue) + 1] = f
    BY <1>1, <2>1, <2>2, AppendProperties
  <2>5. m[0] = n[0] /\ m[Len(queue) + 1] = accepted
    BY <1>1, <1>2, <2>1, <2>3
  <2>6. ASSUME NEW i \in 1..Len(queue'), queue'[i] \in Flushes
        PROVE  due'[queue'[i]] = m[i]
    <3>1. CASE i = Len(queue) + 1
      BY <1>1, <2>2, <2>4, <2>5, <3>1
    <3>2. CASE i # Len(queue) + 1
      <4>1. i \in 1..Len(queue) /\ i \in 0..Len(queue)
        BY <1>1, <2>4, <3>2
      <4>2. queue[i] # f
        BY <2>2, <2>4, <2>6, <4>1 DEF BarrierInv
      <4> QED BY <1>1, <1>2, <2>2, <2>3, <2>4, <2>6, <4>1, <4>2
    <3> QED BY <3>1, <3>2
  <2> QED BY <1>2, <2>2, <2>3, <2>4, <2>5, <2>6 DEF RecordsRun
<1>5. CASE Receive
  <2>1. /\ queue # <<>> /\ queue' = Tail(queue) /\ worker = "receiving"
        /\ UNCHANGED <<handed, accepted, due>>
        /\ \/ Head(queue) \in Flushes /\ UNCHANGED worker
           \/ Head(queue) \notin Flushes /\ worker' = "writing"
    BY <1>5 DEF Receive
  <2>2. /\ queue \in Seq(Jobs) /\ queue # <<>> /\ Records \in [Jobs -> Nat]
        /\ Running(n, queue, Records)
    BY <1>1, <1>2, <2>1
  <2>3. n[1] = n[0] + Records[Head(queue)]
    BY <2>2, RunningTail
  <2>4. PICK m : /\ Running(m, Tail(queue), Records)
                 /\ \A i \in 0..Len(Tail(queue)) : m[i] = n[i + 1]
    BY <2>2, RunningTail
  <2>5. /\ Head(queue) \in Jobs /\ Len(Tail(queue)) = Len(queue) - 1 /\ Len(queue) # 0
        /\ \A i \in 1..Len(Tail(queue)) : Tail(queue)[i] = queue[i + 1]
    BY <1>1, <2>1, HeadTailProperties, EmptySeq
  <2>6. m[0] = n[1] /\ m[Len(Tail(queue))] = n[Len(queue)]
    <3>1. 0 \in 0..Len(Tail(queue)) /\ Len(Tail(queue)) \in 0..Len(Tail(queue))
      BY <1>1, <2>5
    <3> QED BY <1>1, <2>4, <2>5, <3>1
  <2>7. n[1] = handed + (IF worker' = "writing" THEN 1 ELSE 0)
    <3>1. n[0] = handed
      BY <1>1, <1>2, <2>1
    <3> QED BY <1>1, <2>1, <2>3, <2>5, <3>1 DEF Records
  <2>8. ASSUME NEW i \in 1..Len(queue'), queue'[i] \in Flushes
        PROVE  due'[queue'[i]] = m[i]
    <3>1. i + 1 \in 1..Len(queue) /\ i \in 0..Len(Tail(queue)) /\ i \in 1..Len(Tail(queue))
      BY <1>1, <2>1, <2>5
    <3> QED BY <1>2, <2>1, <2>4, <2>5, <2>8, <3>1
  <2> QED BY <1>2, <2>1, <2>4, <2>6, <2>7, <2>8 DEF RecordsRun
<1>6. CASE Store \/ Count \/ Stop
  <2>1. /\ UNCHANGED <<queue, accepted, due>>
        /\ handed' + (IF worker' = "writing" THEN 1 ELSE 0)
             = handed + (IF worker = "writing" THEN 1 ELSE 0)
    BY <1>1, <1>6 DEF Store, Count, Stop
  <2> QED BY <1>2, <2>1 DEF RecordsRun
<1>7. CASE UNCHANGED <<queue, worker, accepted, handed, due>>
  BY <1>2, <1>7 DEF RecordsRun
<1> QED BY <1>3, <1>4, <1>5, <1>6, <1>7, Uncounted, QueueMoves

\* The flushes of the queue after a step, when nothing was added to it.
LEMMA ShorterQueue ==
  ASSUME QueueInv, BarrierInv, [Next]_vars,
         \A w \in Writers : ~Send(w), \A f \in Flushes : ~QueueBarrier(f)
  PROVE  \A i \in 1..Len(queue') :
           queue'[i] \in Flushes => flush[queue'[i]] \notin {"idle", "trying"}
<1>1. queue \in Seq(Jobs) /\ Len(queue) \in Nat
  BY LenProperties DEF QueueInv, QueueTyped, Jobs
<1>2. CASE queue' = queue
  BY <1>2 DEF BarrierInv
<1>3. CASE Receive
  <2>1. queue # <<>> /\ queue' = Tail(queue)
    BY <1>3 DEF Receive
  <2>2. /\ Len(queue') = Len(queue) - 1
        /\ \A i \in 1..Len(queue') : queue'[i] = queue[i + 1]
    BY <1>1, <2>1, HeadTailProperties
  <2>3. \A i \in 1..Len(queue') : i + 1 \in 1..Len(queue)
    BY <1>1, <2>2
  <2> QED BY <2>2, <2>3 DEF BarrierInv
<1> QED BY <1>2, <1>3, QueueMoves

\* A barrier that is closed was at the front of the queue, behind what it is due.
LEMMA BarrierNext ==
  ASSUME QueueInv, CallsTyped, IdleHand, RecordsRun, BarrierInv, [Next]_vars
  PROVE  BarrierInv'
<1>1. /\ queue \in Seq(Jobs) /\ Len(queue) \in Nat
      /\ flush \in [Flushes -> {"idle", "trying", "waiting", "flushed", "failed"}]
      /\ due \in [Flushes -> Nat] /\ handed \in Nat /\ barrier \subseteq Flushes
  BY LenProperties DEF QueueInv, QueueTyped, CallsTyped, Jobs
<1>2. ASSUME NEW w \in Writers, Send(w) PROVE BarrierInv'
  <2>1. /\ Len(queue') = Len(queue) + 1
        /\ \A i \in 1..Len(queue) : queue'[i] = queue[i]
        /\ queue'[Len(queue) + 1] = call[w]
    <3>1. call[w] \in Jobs /\ queue' = Append(queue, call[w])
      BY <1>2, Sent
    <3> QED BY <1>1, <3>1, AppendProperties
  <2>2. call[w] \notin Flushes /\ UNCHANGED <<flush, due, handed, barrier>>
    BY <1>2, Sent, ArchiveAssumption
  <2>3. \A i \in 1..Len(queue') : i \in 1..Len(queue) \/ i = Len(queue) + 1
    BY <1>1, <2>1
  <2> QED BY <2>1, <2>2, <2>3 DEF BarrierInv
<1>3. ASSUME NEW f \in Flushes, QueueBarrier(f) PROVE BarrierInv'
  <2>1. /\ queue' = Append(queue, f) /\ f \in Jobs
        /\ flush[f] = "trying" /\ flush' = [flush EXCEPT ![f] = "waiting"]
        /\ due' = [due EXCEPT ![f] = accepted]
        /\ UNCHANGED <<handed, barrier>>
    BY <1>3 DEF QueueBarrier, Jobs
  <2>2. /\ Len(queue') = Len(queue) + 1
        /\ \A i \in 1..Len(queue) : queue'[i] = queue[i]
        /\ queue'[Len(queue) + 1] = f
    BY <1>1, <2>1, AppendProperties
  <2>3. \A i \in 1..Len(queue') : i \in 1..Len(queue) \/ i = Len(queue) + 1
    BY <1>1, <2>2
  <2>4. \A i \in 1..Len(queue') :
          queue'[i] \in Flushes => flush'[queue'[i]] \notin {"idle", "trying"}
    BY <1>1, <2>1, <2>2, <2>3 DEF BarrierInv
  <2>5. \A g \in barrier : g # f /\ g \in Flushes
    BY <1>1, <2>1 DEF BarrierInv
  <2>6. \A g \in barrier' : flush'[g] \notin {"idle", "trying"} /\ due'[g] <= handed'
    BY <1>1, <2>1, <2>5 DEF BarrierInv
  <2>7. \A g \in Flushes : flush'[g] = "flushed" => g \in barrier'
    BY <1>1, <2>1 DEF BarrierInv
  <2> QED BY <2>4, <2>6, <2>7 DEF BarrierInv
<1>4. CASE Receive
  <2>1. UNCHANGED <<flush, due, handed>> /\ queue # <<>> /\ worker = "receiving"
        /\ barrier' = (IF Head(queue) \in Flushes THEN barrier \cup {Head(queue)}
                       ELSE barrier)
    BY <1>4 DEF Receive
  <2>2. /\ 1 \in 1..Len(queue) /\ Head(queue) = queue[1] /\ Head(queue) \in Jobs
    BY <1>1, <2>1, EmptySeq, HeadTailProperties
  <2>3. ASSUME Head(queue) \in Flushes
        PROVE  /\ flush[Head(queue)] \notin {"idle", "trying"}
               /\ due[Head(queue)] <= handed
    <3>1. flush[Head(queue)] \notin {"idle", "trying"}
      BY <2>2, <2>3 DEF BarrierInv
    <3>2. PICK n : /\ Running(n, queue, Records)
                   /\ n[0] = handed
                   /\ due[queue[1]] = n[1]
      BY <1>1, <2>1, <2>2, <2>3 DEF RecordsRun
    <3>3. n[1] = n[0] + Records[Head(queue)]
      BY <1>1, <2>1, <3>2, RunningTail, WeightsTyped DEF Weights
    <3>4. Records[Head(queue)] = 0
      BY <2>2, <2>3 DEF Records
    <3> QED BY <1>1, <2>2, <3>1, <3>2, <3>3, <3>4
  <2>4. \A i \in 1..Len(queue') :
          queue'[i] \in Flushes => flush'[queue'[i]] \notin {"idle", "trying"}
    <3>1. (\A w \in Writers : ~Send(w)) /\ (\A f \in Flushes : ~QueueBarrier(f))
      <4>1. Len(queue') = Len(queue) - 1
        BY <1>1, <1>4, HeadTailProperties DEF Receive
      <4>2. ASSUME NEW w \in Writers, Send(w) PROVE FALSE
        BY <1>1, <4>1, <4>2, Sent, AppendProperties
      <4>3. ASSUME NEW f \in Flushes, QueueBarrier(f) PROVE FALSE
        <5>1. queue' = Append(queue, f) /\ f \in Jobs
          BY <4>3 DEF QueueBarrier, Jobs
        <5> QED BY <1>1, <4>1, <5>1, AppendProperties
      <4> QED BY <4>2, <4>3
    <3> QED BY <2>1, <3>1, ShorterQueue
  <2> QED BY <2>1, <2>3, <2>4 DEF BarrierInv
<1>5. ASSUME UNCHANGED <<queue, barrier, due>>, handed' \in Nat, handed <= handed',
             \A f \in Flushes :
               /\ flush'[f] \in {"idle", "trying"} => flush[f] \in {"idle", "trying"}
               /\ flush'[f] = "flushed" => flush[f] = "flushed" \/ f \in barrier
      PROVE  BarrierInv'
  <2>1. \A f \in barrier : f \in Flushes /\ due[f] \in Nat
    BY <1>1
  <2>2. \A f \in barrier : due[f] <= handed'
    BY <1>1, <1>5, <2>1 DEF BarrierInv
  <2> QED BY <1>5, <2>1, <2>2 DEF BarrierInv
<1>6. CASE Store \/ Count \/ Stop
  BY <1>1, <1>5, <1>6 DEF Store, Count, Stop
<1>7. ASSUME NEW f \in Flushes,
             BeginFlush(f) \/ FlushRefused(f) \/ FlushReturns(f) \/ FlushExpires(f)
      PROVE  BarrierInv'
  BY <1>1, <1>5, <1>7 DEF BeginFlush, FlushRefused, FlushReturns, FlushExpires
<1>8. CASE UNCHANGED <<queue, barrier, due, handed, flush>>
  BY <1>1, <1>5, <1>8
<1> QED
  BY <1>2, <1>3, <1>4, <1>6, <1>7, <1>8 DEF Next, WriteStep, FlushStep, vars, BeginWrite,
     Refuse, Admit, BeginClose, CloseStore, CloseExpires

\* Nothing is queued once the store is closed, and the worker ends with the queue
\* empty.
LEMMA DoneNext ==
  ASSUME QueueInv, CallsTyped, IdleHand, DoneInv, [Next]_vars
  PROVE  IdleHand' /\ DoneInv'
<1>1. job' = NoRecord \/ worker' \notin {"receiving", "done"}
  <2>1. CASE Receive
    BY <2>1 DEF Receive, IdleHand
  <2>2. CASE Store \/ Count \/ Stop
    BY <2>2 DEF Store, Count, Stop, IdleHand
  <2>3. CASE UNCHANGED <<worker, job>>
    BY <2>3 DEF IdleHand
  <2> QED
    BY <2>1, <2>2, <2>3 DEF Next, WriteStep, FlushStep, vars, BeginWrite, Refuse, Admit,
       Send, BeginFlush, FlushRefused, QueueBarrier, FlushReturns, FlushExpires,
       BeginClose, CloseStore, CloseExpires
<1>2. ASSUME worker' = "done" PROVE closed' /\ queue' = <<>>
  <2>1. CASE Stop
    BY <2>1 DEF Stop
  <2>2. CASE worker = "done"
    <3>1. closed /\ queue = <<>>
      BY <2>2 DEF DoneInv
    <3>2. \A w \in Writers : ~Send(w)
      BY <3>1, ArchiveAssumption DEF Send, QueueInv, WriterMayGo
    <3>3. UNCHANGED queue /\ closed'
      BY <2>2, <3>1, <3>2 DEF Next, WriteStep, FlushStep, vars, BeginWrite, Refuse, Admit,
         Receive, Store, Count, Stop, BeginFlush, FlushRefused, QueueBarrier,
         FlushReturns, FlushExpires, BeginClose, CloseStore, CloseExpires
    <3> QED BY <3>1, <3>3
  <2>3. worker' = worker \/ Stop
    BY <1>2 DEF Next, WriteStep, FlushStep, vars, BeginWrite, Refuse, Admit, Send,
       Receive, Store, Count, BeginFlush, FlushRefused, QueueBarrier, FlushReturns,
       FlushExpires, BeginClose, CloseStore, CloseExpires
  <2> QED BY <1>2, <2>1, <2>2, <2>3
<1>3. ASSUME closer' = "closed" PROVE worker' = "done"
  <2>1. worker = "done"
    <3>1. closer = "closed" \/ CloseStore
      BY <1>3 DEF Next, WriteStep, FlushStep, vars, BeginWrite, Refuse, Admit, Send,
         Receive, Store, Count, Stop, BeginFlush, FlushRefused, QueueBarrier,
         FlushReturns, FlushExpires, BeginClose, CloseExpires
    <3> QED BY <3>1 DEF DoneInv, CloseStore
  <2>2. worker' = "done"
    BY <2>1 DEF Next, WriteStep, FlushStep, vars, BeginWrite, Refuse, Admit, Send,
       Receive, Store, Count, Stop, BeginFlush, FlushRefused, QueueBarrier, FlushReturns,
       FlushExpires, BeginClose, CloseStore, CloseExpires
  <2> QED BY <2>2
<1> QED BY <1>1, <1>2, <1>3 DEF IdleHand, DoneInv

-----------------------------------------------------------------------------
CountInv == IdleHand /\ BytesRun /\ RecordsRun /\ BarrierInv /\ DoneInv

\* Nothing is counted in an empty queue.
LEMMA CountInit == Init => CountInv
<1> SUFFICES ASSUME Init PROVE CountInv
  OBVIOUS
<1>1. queue = <<>> /\ Len(queue) = 0
  BY DEF Init
<1>2. \A weight : Running([i \in 0..0 |-> 0], queue, weight)
  BY <1>1 DEF Running
<1>3. BytesRun /\ RecordsRun
  BY <1>1, <1>2 DEF Init, BytesRun, RecordsRun
<1>4. BarrierInv /\ IdleHand /\ DoneInv
  BY <1>1 DEF Init, BarrierInv, IdleHand, DoneInv
<1> QED BY <1>3, <1>4 DEF CountInv

\* The whole invariant.
LEMMA SpecCountInv == Spec => [](QueueInv /\ CallsTyped /\ CountInv)
<1>1. Init => CountInv
  BY CountInit
<1>2. QueueInv /\ CallsTyped /\ CountInv /\ [Next]_vars => CountInv'
  BY BytesNext, RecordsNext, BarrierNext, DoneNext DEF CountInv
<1> QED BY <1>1, <1>2, SpecInv, PTL DEF Spec

\* queuedBytes neither leaks nor runs over: whatever is refused, abandoned or
\* drained, it is the length of what is queued and in hand.
THEOREM BytesAreCounted == Spec => []BytesAreExact
<1>1. ASSUME QueueInv, BytesRun PROVE BytesAreExact
  <2>1. /\ queue \in Seq(Jobs) /\ Len(queue) \in Nat
        /\ queuedBytes <= QueueBytes /\ QueueBytes \in Nat
    BY <1>1, LenProperties, ArchiveAssumption DEF QueueInv, QueueTyped, Jobs
  <2>2. PICK n : /\ Running(n, queue, Bytes)
                 /\ n[0] = (IF job = NoRecord THEN 0 ELSE job)
                 /\ n[Len(queue)] = queuedBytes
    BY <1>1 DEF BytesRun
  <2>3. \A i \in 0..Len(queue) : n[i] \in 0..QueueBytes
    <3>1. TAKE i \in 0..Len(queue)
    <3>2. Len(queue) \in 0..Len(queue) /\ i <= Len(queue)
      BY <2>1, <3>1
    <3>3. n[i] <= n[Len(queue)] /\ n[i] \in Nat /\ n[Len(queue)] \in Nat
      BY <2>2, <3>1, <3>2 DEF Running
    <3> QED BY <2>1, <2>2, <3>3
  <2>4. n \in [0..Len(queue) -> 0..QueueBytes]
    BY <2>2, <2>3 DEF Running
  <2>5. \A i \in 1..Len(queue) :
          n[i] = n[i - 1] + (IF queue[i] \in Lengths THEN queue[i] ELSE 0)
    <3>1. TAKE i \in 1..Len(queue)
    <3>2. queue[i] \in Jobs
      BY <2>1, <3>1, ElementOfSeq
    <3>3. Bytes[queue[i]] = (IF queue[i] \in Lengths THEN queue[i] ELSE 0)
      BY <3>2, ArchiveAssumption DEF Bytes, Jobs
    <3> QED BY <2>2, <3>1, <3>3 DEF Running
  <2> QED BY <2>2, <2>4, <2>5 DEF BytesAreExact
<1> QED BY <1>1, SpecCountInv, PTL DEF CountInv

\* A Flush that succeeds finds every record accepted before its barrier with the
\* Store.
THEOREM FlushIsComplete == Spec => []FlushCovers
<1>1. ASSUME CallsTyped, BarrierInv PROVE FlushCovers
  BY <1>1 DEF CallsTyped, BarrierInv, FlushCovers
<1> QED BY <1>1, SpecCountInv, PTL DEF CountInv

\* The Store is closed with every accepted record in it and no worker behind it.
THEOREM CloseIsComplete == Spec => []ClosedIsComplete
<1>1. ASSUME QueueInv, CallsTyped, RecordsRun, DoneInv PROVE ClosedIsComplete
  <2>1. SUFFICES ASSUME closer = "closed"
                 PROVE  handed = accepted /\ worker = "done"
    BY DEF ClosedIsComplete
  <2>2. worker = "done" /\ queue = <<>> /\ Len(queue) = 0
    BY <1>1, <2>1 DEF DoneInv
  <2> QED BY <1>1, <2>2 DEF RecordsRun, CallsTyped
<1> QED BY <1>1, SpecCountInv, PTL DEF CountInv

-----------------------------------------------------------------------------
(* What QueueDrains, and a Flush without a deadline, rest on.              *)

\* The barrier of a waiting Flush is closed, or on its way to a worker.
BarriersArrive ==
  \A f \in Flushes :
    flush[f] = "waiting" =>
      \/ f \in barrier
      \/ worker # "done" /\ \E i \in 1..Len(queue) : queue[i] = f

\* The steps the worker has before it.
Stage == IF worker = "writing" THEN 3
         ELSE IF worker = "counting" THEN 2
         ELSE IF worker = "receiving" THEN 1 ELSE 0

Work == 3 * Len(queue) + Stage

\* The worker of a closed store is at the disk, at the queue or finds the lock free.
WorkerMayGo == closed /\ worker = "counting" => mu = Free

\* No step loses a barrier: it leaves the queue by being closed.
LEMMA BarriersNext ==
  ASSUME QueueInv, CallsTyped, BarriersArrive, DoneInv, DoneInv', [Next]_vars
  PROVE  BarriersArrive'
<1>1. /\ queue \in Seq(Jobs) /\ Len(queue) \in Nat
      /\ flush \in [Flushes -> {"idle", "trying", "waiting", "flushed", "failed"}]
  BY LenProperties DEF QueueInv, QueueTyped, CallsTyped, Jobs
<1>2. SUFFICES ASSUME NEW f \in Flushes, flush'[f] = "waiting", f \notin barrier'
               PROVE  \E i \in 1..Len(queue') : queue'[i] = f
  <2>1. ASSUME NEW i \in 1..Len(queue') PROVE worker' # "done"
    <3>1. queue' # <<>>
      BY <2>1
    <3> QED BY <3>1 DEF DoneInv
  <2> QED BY <2>1 DEF BarriersArrive
<1>3. CASE QueueBarrier(f)
  <2>1. queue' = Append(queue, f) /\ f \in Jobs
    BY <1>3 DEF QueueBarrier, Jobs
  <2>2. Len(queue') = Len(queue) + 1 /\ queue'[Len(queue) + 1] = f
    BY <1>1, <2>1, AppendProperties
  <2> QED BY <1>1, <2>2
<1>4. ASSUME ~QueueBarrier(f)
      PROVE  f \notin barrier /\ \E i \in 1..Len(queue) : queue[i] = f
  <2>1. barrier \subseteq barrier' /\ flush[f] = "waiting"
    <3>1. CASE Receive
      BY <1>2, <3>1 DEF Receive
    <3>2. ASSUME NEW g \in Flushes,
                 \/ BeginFlush(g) \/ FlushRefused(g) \/ QueueBarrier(g)
                 \/ FlushReturns(g) \/ FlushExpires(g)
          PROVE  barrier \subseteq barrier' /\ flush[f] = "waiting"
      BY <1>1, <1>2, <1>4, <3>2 DEF BeginFlush, FlushRefused, QueueBarrier, FlushReturns,
         FlushExpires
    <3>3. CASE UNCHANGED <<barrier, flush>>
      BY <1>2, <3>3
    <3> QED
      BY <3>1, <3>2, <3>3 DEF Next, WriteStep, FlushStep, vars, BeginWrite, Refuse, Admit,
         Send, Store, Count, Stop, BeginClose, CloseStore, CloseExpires
  <2>2. f \notin barrier
    BY <1>2, <2>1
  <2> QED BY <2>1, <2>2 DEF BarriersArrive
<1>5. ASSUME ~QueueBarrier(f) PROVE \E i \in 1..Len(queue') : queue'[i] = f
  <2>1. PICK i \in 1..Len(queue) : queue[i] = f
    BY <1>4, <1>5
  <2>2. CASE queue' = queue
    BY <2>1, <2>2
  <2>3. CASE Receive
    <3>1. queue # <<>> /\ queue' = Tail(queue)
          /\ (Head(queue) \in Flushes => Head(queue) \in barrier')
      BY <2>3 DEF Receive
    <3>2. /\ Len(queue') = Len(queue) - 1 /\ Head(queue) = queue[1]
          /\ \A j \in 1..Len(queue') : queue'[j] = queue[j + 1]
      BY <1>1, <3>1, HeadTailProperties
    <3>3. i # 1
      BY <1>2, <2>1, <3>1, <3>2
    <3>4. i - 1 \in 1..Len(queue') /\ (i - 1) + 1 = i
      BY <1>1, <2>1, <3>2, <3>3
    <3>5. queue'[i - 1] = f
      BY <2>1, <3>2, <3>4
    <3> QED BY <3>4, <3>5
  <2>4. ASSUME NEW item \in Jobs, queue' = Append(queue, item)
        PROVE  \E j \in 1..Len(queue') : queue'[j] = f
    <3>1. Len(queue') = Len(queue) + 1 /\ queue'[i] = queue[i]
      BY <1>1, <2>1, <2>4, AppendProperties
    <3>2. i \in 1..Len(queue')
      BY <1>1, <2>1, <3>1
    <3> QED BY <2>1, <3>1, <3>2
  <2>5. ASSUME NEW w \in Writers, Send(w)
        PROVE  \E j \in 1..Len(queue') : queue'[j] = f
    BY <2>4, <2>5, Sent
  <2>6. ASSUME NEW g \in Flushes, QueueBarrier(g)
        PROVE  \E j \in 1..Len(queue') : queue'[j] = f
    BY <2>4, <2>6 DEF QueueBarrier, Jobs
  <2> QED BY <2>2, <2>3, <2>5, <2>6, QueueMoves
<1> QED BY <1>3, <1>5

\* No Flush is left waiting for a barrier nobody will close: not even one that was
\* queued just before Close, since the worker does not end over a queued barrier.
THEOREM NoFlushIsStranded == Spec => []BarriersArrive
<1>1. Init => BarriersArrive
  BY DEF Init, BarriersArrive
<1>2. ASSUME QueueInv /\ CallsTyped /\ CountInv, (QueueInv /\ CallsTyped /\ CountInv)',
             BarriersArrive, [Next]_vars
      PROVE  BarriersArrive'
  BY <1>2, BarriersNext DEF CountInv
<1> QED BY <1>1, <1>2, SpecCountInv, PTL DEF Spec

\* Once the store is closed nothing is put before the worker, and each of its steps
\* is one nearer its end; only the disk may hold it up, for no writer has the lock.
\* A worker that never ended would have to be at the disk for ever.
THEOREM CloseDrains ==
  Spec => /\ [][closed => closed' /\ (Work' < Work \/ UNCHANGED <<queue, worker>>)]_vars
          /\ [](WorkerMayGo /\ Work \in Nat /\ (Work = 0 => worker = "done"))
<1>1. ASSUME QueueInv, CallsTyped, closed, [Next]_vars
      PROVE  closed' /\ (Work' < Work \/ UNCHANGED <<queue, worker>>)
  <2>1. queue \in Seq(Jobs) /\ Len(queue) \in Nat
    BY <1>1, LenProperties DEF QueueInv, QueueTyped, Jobs
  <2>2. \A w \in Writers : ~Send(w)
    BY <1>1, ArchiveAssumption DEF Send, QueueInv, WriterMayGo
  <2>3. closed'
    BY <1>1, <2>2 DEF Next, WriteStep, FlushStep, vars, BeginWrite, Refuse, Admit,
       Receive, Store, Count, Stop, BeginFlush, FlushRefused, QueueBarrier,
       FlushReturns, FlushExpires, BeginClose, CloseStore, CloseExpires
  <2>4. CASE Receive
    <3>1. /\ queue # <<>> /\ queue' = Tail(queue) /\ worker = "receiving"
          /\ worker' \in {"receiving", "writing"}
      BY <2>4 DEF Receive
    <3>2. Len(queue') = Len(queue) - 1
      BY <2>1, <3>1, HeadTailProperties
    <3>3. Stage = 1 /\ Stage' \in {1, 3}
      BY <3>1 DEF Stage
    <3>4. 3 * (Len(queue) - 1) + 3 < 3 * Len(queue) + 1
      BY <2>1
    <3> QED BY <2>1, <2>3, <3>2, <3>3, <3>4 DEF Work
  <2>5. CASE Store \/ Count \/ Stop
    <3>1. /\ queue' = queue
          /\ \/ worker = "writing" /\ worker' = "counting"
             \/ worker = "counting" /\ worker' = "receiving"
             \/ worker = "receiving" /\ worker' = "done"
      BY <2>5 DEF Store, Count, Stop
    <3> QED BY <2>1, <2>3, <3>1 DEF Work, Stage
  <2>6. CASE UNCHANGED <<queue, worker>>
    BY <2>3, <2>6
  <2> QED
    BY <1>1, <2>2, <2>4, <2>5, <2>6 DEF Next, WriteStep, FlushStep, vars, BeginWrite,
       Refuse, Admit, BeginFlush, FlushRefused, QueueBarrier, FlushReturns, FlushExpires,
       BeginClose, CloseStore, CloseExpires
<1>2. ASSUME QueueInv, CallsTyped
      PROVE  WorkerMayGo /\ Work \in Nat /\ (Work = 0 => worker = "done")
  <2>1. Len(queue) \in Nat /\ worker \in {"receiving", "writing", "counting", "done"}
    BY <1>2, LenProperties DEF QueueInv, QueueTyped
  <2>2. WorkerMayGo
    BY <1>2 DEF QueueInv, WriterMayGo, WorkerMayGo
  <2> QED BY <2>1, <2>2 DEF Work, Stage
<1> QED BY <1>1, <1>2, SpecInv, PTL DEF Spec
=============================================================================

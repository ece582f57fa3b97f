----------------------------- MODULE AsyncStore -----------------------------
(***************************************************************************)
(* The queue between the process's loggers and the log archive             *)
(* (internal/applog/async.go): callers of Write that must not wait for the *)
(* disk, the worker that writes to the Store, the barriers of Flush, and   *)
(* Close with its deadline.  A record is its length; the counter of        *)
(* dropped records, which is only reported, is left out.                   *)
(***************************************************************************)
EXTENDS Integers, Sequences

CONSTANTS Writers,      \* goroutines that log
          Flushes,      \* calls of Flush
          Lengths,      \* lengths of records
          QueueRecords, \* asyncQueueRecords
          QueueBytes,   \* asyncQueueBytes
          MaxRecords,   \* bound on the records accepted
          Free, NoRecord

ASSUME ArchiveAssumption ==
  /\ Lengths \subseteq Nat
  /\ QueueRecords \in Nat \ {0} /\ QueueBytes \in Nat /\ MaxRecords \in Nat
  /\ Writers \cap Flushes = {} /\ Free \notin Writers
  /\ Lengths \cap Flushes = {} /\ NoRecord \notin Lengths

VARIABLES mu,          \* the writer that holds the lock over its two steps
          queue,       \* records and barriers
          queuedBytes,
          closed,
          call,        \* the record a writer is at
          worker,      \* run(): receiving, writing, counting or done
          job,         \* the record the worker has in hand
          barrier,     \* the flushes whose barrier is closed
          flush,       \* where each Flush is
          closer,      \* where Close is
          accepted,    \* history: records accepted,
          handed,      \*          records the Store has been given,
          due          \*          accepted when a barrier was queued

vars == <<mu, queue, queuedBytes, closed, call, worker, job, barrier, flush,
          closer, accepted, handed, due>>

Init ==
  /\ mu = Free
  /\ queue = <<>> /\ queuedBytes = 0 /\ closed = FALSE
  /\ call = [w \in Writers |-> NoRecord]
  /\ worker = "receiving" /\ job = NoRecord
  /\ barrier = {}
  /\ flush = [f \in Flushes |-> "idle"]
  /\ closer = "idle"
  /\ accepted = 0 /\ handed = 0
  /\ due = [f \in Flushes |-> 0]

Full == Len(queue) = QueueRecords

-----------------------------------------------------------------------------
(* Write *)

BeginWrite(w, length) ==
  /\ call[w] = NoRecord
  /\ accepted < MaxRecords
  /\ call' = [call EXCEPT ![w] = length]
  /\ UNCHANGED <<mu, queue, queuedBytes, closed, worker, job, barrier, flush,
                 closer, accepted, handed, due>>

Refused(length) == closed \/ queuedBytes + length > QueueBytes \/ Full

Refuse(w) ==
  /\ call[w] # NoRecord
  /\ mu = Free
  /\ Refused(call[w])
  /\ call' = [call EXCEPT ![w] = NoRecord]
  /\ UNCHANGED <<mu, queue, queuedBytes, closed, worker, job, barrier, flush,
                 closer, accepted, handed, due>>

\* The capacity is looked at, and the lock kept for the send.
Admit(w) ==
  /\ call[w] # NoRecord
  /\ mu = Free
  /\ ~Refused(call[w])
  /\ mu' = w
  /\ UNCHANGED <<queue, queuedBytes, closed, call, worker, job, barrier, flush,
                 closer, accepted, handed, due>>

\* The send blocks, with the lock, while the queue is full.
Send(w) ==
  /\ mu = w
  /\ ~Full
  /\ queue' = Append(queue, call[w])
  /\ queuedBytes' = queuedBytes + call[w]
  /\ accepted' = accepted + 1
  /\ call' = [call EXCEPT ![w] = NoRecord]
  /\ mu' = Free
  /\ UNCHANGED <<closed, worker, job, barrier, flush, closer, handed, due>>

-----------------------------------------------------------------------------
(* run *)

\* Mutant: the worker takes nothing more once the store is closing.
ReceiveOpen ==
  /\ worker = "receiving"
  /\ queue # <<>> /\ ~closed
  /\ queue' = Tail(queue)
  /\ \/ /\ Head(queue) \in Flushes
        /\ barrier' = barrier \cup {Head(queue)}
        /\ UNCHANGED <<worker, job>>
     \/ /\ Head(queue) \notin Flushes
        /\ job' = Head(queue)
        /\ worker' = "writing"
        /\ UNCHANGED barrier
  /\ UNCHANGED <<mu, queuedBytes, closed, call, flush, closer, accepted, handed, due>>

Receive ==
  /\ worker = "receiving"
  /\ queue # <<>>
  /\ queue' = Tail(queue)
  /\ \/ /\ Head(queue) \in Flushes
        /\ barrier' = barrier \cup {Head(queue)}
        /\ UNCHANGED <<worker, job>>
     \/ /\ Head(queue) \notin Flushes
        /\ job' = Head(queue)
        /\ worker' = "writing"
        /\ UNCHANGED barrier
  /\ UNCHANGED <<mu, queuedBytes, closed, call, flush, closer, accepted, handed, due>>

\* store.Write, which may take for ever.
Store ==
  /\ worker = "writing"
  /\ worker' = "counting"
  /\ handed' = handed + 1
  /\ UNCHANGED <<mu, queue, queuedBytes, closed, call, job, barrier, flush, closer,
                 accepted, due>>

\* Mutant: a record counts as one byte when it leaves.
CountOne ==
  /\ worker = "counting"
  /\ mu = Free
  /\ queuedBytes' = queuedBytes - 1
  /\ job' = NoRecord
  /\ worker' = "receiving"
  /\ UNCHANGED <<mu, queue, closed, call, barrier, flush, closer, accepted, handed, due>>

Count ==
  /\ worker = "counting"
  /\ mu = Free
  /\ queuedBytes' = queuedBytes - job
  /\ job' = NoRecord
  /\ worker' = "receiving"
  /\ UNCHANGED <<mu, queue, closed, call, barrier, flush, closer, accepted, handed, due>>

Stop ==
  /\ worker = "receiving"
  /\ closed /\ queue = <<>>
  /\ worker' = "done"
  /\ UNCHANGED <<mu, queue, queuedBytes, closed, call, job, barrier, flush, closer,
                 accepted, handed, due>>

-----------------------------------------------------------------------------
(* Flush *)

BeginFlush(f) ==
  /\ flush[f] = "idle"
  /\ flush' = [flush EXCEPT ![f] = "trying"]
  /\ UNCHANGED <<mu, queue, queuedBytes, closed, call, worker, job, barrier, closer,
                 accepted, handed, due>>

FlushRefused(f) ==
  /\ flush[f] = "trying"
  /\ mu = Free
  /\ closed
  /\ flush' = [flush EXCEPT ![f] = "failed"]
  /\ UNCHANGED <<mu, queue, queuedBytes, closed, call, worker, job, barrier, closer,
                 accepted, handed, due>>

\* Mutant: the barrier is sent without the lock.
QueueBarrierUnlocked(f) ==
  /\ flush[f] = "trying"
  /\ ~closed /\ ~Full
  /\ queue' = Append(queue, f)
  /\ due' = [due EXCEPT ![f] = accepted]
  /\ flush' = [flush EXCEPT ![f] = "waiting"]
  /\ UNCHANGED <<mu, queuedBytes, closed, call, worker, job, barrier, closer,
                 accepted, handed>>

\* Mutant: barriers have a way of their own past the queued records.
QueueBarrierAside(f) ==
  /\ flush[f] = "trying"
  /\ mu = Free
  /\ ~closed /\ ~Full
  /\ queue' = <<f>> \o queue
  /\ due' = [due EXCEPT ![f] = accepted]
  /\ flush' = [flush EXCEPT ![f] = "waiting"]
  /\ UNCHANGED <<mu, queuedBytes, closed, call, worker, job, barrier, closer,
                 accepted, handed>>

\* While the queue is full Flush lets go of the lock and tries again at the next
\* tick.
QueueBarrier(f) ==
  /\ flush[f] = "trying"
  /\ mu = Free
  /\ ~closed /\ ~Full
  /\ queue' = Append(queue, f)
  /\ due' = [due EXCEPT ![f] = accepted]
  /\ flush' = [flush EXCEPT ![f] = "waiting"]
  /\ UNCHANGED <<mu, queuedBytes, closed, call, worker, job, barrier, closer,
                 accepted, handed>>

FlushReturns(f) ==
  /\ flush[f] = "waiting"
  /\ f \in barrier
  /\ flush' = [flush EXCEPT ![f] = "flushed"]
  /\ UNCHANGED <<mu, queue, queuedBytes, closed, call, worker, job, barrier, closer,
                 accepted, handed, due>>

\* ctx is done; a queued barrier stays in the queue.
FlushExpires(f) ==
  /\ flush[f] \in {"trying", "waiting"}
  /\ flush' = [flush EXCEPT ![f] = "failed"]
  /\ UNCHANGED <<mu, queue, queuedBytes, closed, call, worker, job, barrier, closer,
                 accepted, handed, due>>

-----------------------------------------------------------------------------
(* Close *)

BeginClose ==
  /\ closer = "idle"
  /\ mu = Free
  /\ closed' = TRUE
  /\ closer' = "draining"
  /\ UNCHANGED <<mu, queue, queuedBytes, call, worker, job, barrier, flush, accepted,
                 handed, due>>

\* store.Close.
CloseStore ==
  /\ closer = "draining"
  /\ worker = "done"
  /\ closer' = "closed"
  /\ UNCHANGED <<mu, queue, queuedBytes, closed, call, worker, job, barrier, flush,
                 accepted, handed, due>>

\* Mutant: the Store is closed at the deadline as well.
CloseExpiresClosing ==
  /\ closer = "draining"
  /\ closer' = "closed"
  /\ UNCHANGED <<mu, queue, queuedBytes, closed, call, worker, job, barrier, flush,
                 accepted, handed, due>>

\* The deadline; the Store is left open under the worker.
CloseExpires ==
  /\ closer = "draining"
  /\ closer' = "expired"
  /\ UNCHANGED <<mu, queue, queuedBytes, closed, call, worker, job, barrier, flush,
                 accepted, handed, due>>

-----------------------------------------------------------------------------
WriteStep(w) == Refuse(w) \/ Admit(w)
FlushStep(f) == FlushRefused(f) \/ QueueBarrier(f) \/ FlushReturns(f)

Next ==
  \/ \E w \in Writers :
       \/ \E length \in Lengths : BeginWrite(w, length)
       \/ WriteStep(w) \/ Send(w)
  \/ Receive \/ Store \/ Count \/ Stop
  \/ \E f \in Flushes : BeginFlush(f) \/ FlushStep(f) \/ FlushExpires(f)
  \/ BeginClose \/ CloseStore \/ CloseExpires

Spec == Init /\ [][Next]_vars

\* The goroutines run, and Go's mutex does not pass over the worker for ever.
\* Nothing is assumed of the disk, nor of a deadline.
FairSpec ==
  /\ Spec
  /\ \A w \in Writers : WF_vars(Send(w))
  /\ WF_vars(Receive) /\ SF_vars(Count) /\ WF_vars(Stop)

-----------------------------------------------------------------------------
TypeOK ==
  /\ mu \in Writers \cup {Free}
  /\ queue \in Seq(Lengths \cup Flushes) /\ Len(queue) <= QueueRecords
  /\ queuedBytes \in Int /\ queuedBytes <= QueueBytes
  /\ closed \in BOOLEAN
  /\ call \in [Writers -> Lengths \cup {NoRecord}]
  /\ worker \in {"receiving", "writing", "counting", "done"}
  /\ job \in Lengths \cup {NoRecord}
  /\ barrier \subseteq Flushes
  /\ flush \in [Flushes -> {"idle", "trying", "waiting", "flushed", "failed"}]
  /\ closer \in {"idle", "draining", "closed", "expired"}
  /\ accepted \in Nat /\ handed \in Nat
  /\ due \in [Flushes -> Nat]

\* queuedBytes is what the queue and the worker hold, whatever was refused,
\* abandoned or drained: the limit neither leaks away nor is exceeded.  total adds
\* the lengths up, from the record in hand to the end of the queue.
BytesAreExact ==
  \E total \in [0..Len(queue) -> 0..QueueBytes] :
    /\ total[0] = (IF job = NoRecord THEN 0 ELSE job)
    /\ \A i \in 1..Len(queue) :
         total[i] = total[i - 1] + (IF queue[i] \in Lengths THEN queue[i] ELSE 0)
    /\ queuedBytes = total[Len(queue)]

\* async.go:60 "No disk I/O or waiting for queue space": a writer that keeps the
\* lock finds room when it sends, although the length of the queue was read
\* before (async.go:27 "It never waits for archive disk I/O on the logging
\* caller's goroutine").  Waiting there it would hold up every logger of the process, and
\* the worker, which needs the lock, could not make room.
SendHasRoom == mu # Free => ~Full /\ ~closed

\* async.go:103 "It includes every record accepted before the barrier": a Flush
\* that succeeds finds those records with the Store.
FlushCovers == \A f \in Flushes : flush[f] = "flushed" => handed >= due[f]

\* async.go:156 "do NOT close Store under a live worker": a Store is closed when
\* it has been given every accepted record, and no record comes later.
ClosedIsComplete == closer = "closed" => handed = accepted /\ worker = "done"

\* If the disk answers, what was queued at Close is written and the worker ends.
QueueDrains == WF_vars(Store) => (closed ~> worker = "done")
=============================================================================

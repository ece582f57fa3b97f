-------------------------- MODULE GatewayRun_proofs --------------------------
(***************************************************************************)
(* For any number of tools, enabled or disabled: the types, the room every *)
(* error finds in errCh, that no error is lost before Run has seen one,    *)
(* and that wg.Wait waits only for what can still happen.                  *)
(***************************************************************************)
EXTENDS GatewayRun, FiniteSetTheorems, TLAPS

\* The listeners that may still report an error.
Unfinished == {s \in Servers : server[s] # "done"}

\* Run leaves its loop over the tools only when each has its goroutine, and
\* wg.Wait only when each goroutine has ended.
Progressed ==
  /\ run \in {"selecting", "waiting"} => \A s \in Servers : server[s] # "new"
  /\ run \in {"returned", "exited"} =>
       \/ \A s \in Servers : server[s] = "new"
       \/ \A s \in Servers : server[s] = "done"

\* What is in errCh and what may still come fit in it.
RoomLeft == errors + Cardinality(Unfinished) <= Capacity

\* The type invariant in two parts, the one for each prover.
Flags == cancelled \in BOOLEAN /\ signalled \in BOOLEAN /\ token \in BOOLEAN

Shape ==
  /\ run \in {"starting", "selecting", "waiting", "returned", "exited"}
  /\ cause \in {"none", "signal", "restart", "error"}
  /\ server \in [Servers -> {"new", "opening", "serving", "failed", "done"}]
  /\ watcher \in [Servers -> {"none", "waiting", "draining", "over"}]
  /\ errors \in 0..Capacity
  /\ timers \in 0..MaxPosts /\ posts \in 0..MaxPosts /\ timers <= posts
  /\ inflight \subseteq Servers

RunInv == Flags /\ Shape /\ Progressed /\ RoomLeft

-----------------------------------------------------------------------------
\* The tools and the Admin server are finitely many.
LEMMA ServersFinite ==
  /\ IsFiniteSet(Servers)
  /\ Cardinality(Servers) = Cardinality(Tools) + 1
  /\ Capacity \in Nat
<1>1. IsFiniteSet(Servers) /\ Cardinality(Servers) = Cardinality(Tools) + 1
  BY FS_AddElement, RunAssumption DEF Servers
<1>2. Cardinality(Tools) \in Nat
  BY FS_CardinalityType, RunAssumption
<1> QED BY <1>1, <1>2, RunAssumption DEF Capacity

\* So are those that have not ended.
LEMMA UnfinishedFinite == IsFiniteSet(Unfinished) /\ Cardinality(Unfinished) \in Nat
BY ServersFinite, FS_Subset, FS_CardinalityType DEF Unfinished

\* A goroutine that does not end leaves the set alone; one that does is one
\* sender less.
LEMMA StillUnfinished ==
  ASSUME NEW s \in Servers, server[s] # "done",
         server \in [Servers -> {"new", "opening", "serving", "failed", "done"}],
         NEW next \in {"new", "opening", "serving", "failed"},
         server' = [server EXCEPT ![s] = next]
  PROVE  Unfinished' = Unfinished
BY DEF Unfinished

\* A server that ends is no longer one of them.
LEMMA OneLess ==
  ASSUME NEW s \in Servers, server[s] # "done",
         server \in [Servers -> {"new", "opening", "serving", "failed", "done"}],
         server' = [server EXCEPT ![s] = "done"]
  PROVE  Cardinality(Unfinished') = Cardinality(Unfinished) - 1
<1>1. Unfinished' = Unfinished \ {s} /\ s \in Unfinished
  BY DEF Unfinished
<1> QED BY <1>1, UnfinishedFinite, FS_RemoveElement

-----------------------------------------------------------------------------
\* Nothing has started.
LEMMA InitInv == Init => RunInv
<1> SUFFICES ASSUME Init PROVE RunInv
  OBVIOUS
<1>0. Flags
  BY Zenon DEF Init, Flags
<1>1. Shape
  BY ServersFinite, RunAssumption DEF Init, Shape
<1>2. Progressed
  BY DEF Init, Progressed
<1>3. Unfinished = Servers
  BY DEF Init, Unfinished
<1>4. Cardinality(Unfinished) <= Capacity
  <2>1. Cardinality(Tools) \in Nat
    BY FS_CardinalityType, RunAssumption
  <2> QED BY <2>1, <1>3, ServersFinite, RunAssumption DEF Capacity
<1>5. RoomLeft
  BY <1>4, UnfinishedFinite DEF Init, RoomLeft
<1> QED BY <1>0, <1>1, <1>2, <1>5 DEF RunInv

\* The types are part of the invariant.
LEMMA TypeOfInv == RunInv => TypeOK
<1>1. RunInv => Flags
  BY DEF RunInv
<1>2. RunInv /\ Flags => TypeOK
  BY DEF RunInv, Flags, Shape, TypeOK
<1> QED BY <1>1, <1>2

\* A step that leaves server and errors alone leaves the room as it is.
LEMMA SameRoom ==
  ASSUME RunInv, UNCHANGED <<server, errors>>
  PROVE  RoomLeft'
<1>1. Capacity' = Capacity
  BY DEF Capacity
<1>2. Unfinished' = Unfinished
  BY DEF Unfinished
<1> QED BY <1>1, <1>2 DEF RunInv, RoomLeft

-----------------------------------------------------------------------------
\* The flags of the run keep their types.
LEMMA FlagsNext ==
  ASSUME Flags, [Next]_vars
  PROVE  Flags'
<1> USE DEF Flags
<1>1. CASE Refuse \/ AllStarted \/ Return \/ Exit
  BY <1>1, Zenon DEF Refuse, AllStarted, Return, Exit
<1>2. CASE SelectAny
  <2>1. PICK branch \in {"signal", "restart", "error"} : Select(branch)
    BY <1>2 DEF SelectAny
  <2>2. cancelled' = TRUE /\ signalled' = signalled
    BY <2>1, Zenon DEF Select
  <2>3. token' = token \/ token' = FALSE
    <3>1. CASE branch = "signal"
      BY <2>1, <3>1 DEF Select
    <3>2. CASE branch = "restart"
      BY <2>1, <3>2 DEF Select
    <3>3. CASE branch = "error"
      BY <2>1, <3>3 DEF Select
    <3> QED BY <2>1, <3>1, <3>2, <3>3
  <2> QED BY <2>2, <2>3, Zenon
<1>3. CASE Signal \/ ReleaseWatcher \/ PostRestart \/ TimerFires
  BY <1>3, Zenon DEF Signal, ReleaseWatcher, PostRestart, TimerFires
<1>4. CASE \E s \in Servers : ServeStep(s) \/ ShutdownStep(s) \/ Accept(s)
                                \/ Request(s) \/ Respond(s)
  BY <1>4, Zenon DEF ServeStep, ShutdownStep, StartServer, Listen, Accept,
     ReportError, BeginShutdown, EndShutdown, Request, Respond
<1>5. CASE UNCHANGED vars
  BY <1>5, Zenon DEF vars
<1> QED BY <1>1, <1>2, <1>3, <1>4, <1>5, Zenon DEF Next

\* One case per action: whoever reports an error has ended.
LEMMA InvNext ==
  ASSUME RunInv, [Next]_vars
  PROVE  RunInv'
<1> USE ServersFinite
<1>1. Shape /\ Progressed /\ RoomLeft /\ Capacity' = Capacity
  BY DEF RunInv, Capacity
<1>2. Flags'
  BY FlagsNext DEF RunInv
<1> SUFFICES Shape' /\ Progressed' /\ RoomLeft'
  BY <1>2 DEF RunInv
<1>3. CASE Refuse \/ AllStarted \/ Signal \/ Return \/ Exit
  <2>1. UNCHANGED <<server, errors>>
    BY <1>3 DEF Refuse, AllStarted, Signal, Return, Exit
  <2>2. Shape'
    BY <1>1, <1>3, RunAssumption DEF Refuse, AllStarted, Signal, Return, Exit, Shape
  <2>3. Progressed'
    BY <1>1, <1>3 DEF Refuse, AllStarted, Signal, Return, Exit, Progressed
  <2> QED BY <2>1, <2>2, <2>3, SameRoom
<1>4. CASE SelectAny
  <2>1. PICK branch \in {"signal", "restart", "error"} : Select(branch)
    BY <1>4 DEF SelectAny
  <2>2. /\ UNCHANGED <<server, watcher, timers, posts, inflight>>
        /\ run = "selecting" /\ run' = "waiting" /\ cause' = branch
    BY <2>1 DEF Select
  <2>3. errors' = errors \/ (errors > 0 /\ errors' = errors - 1)
    <3>1. CASE branch = "signal"
      BY <2>1, <3>1 DEF Select
    <3>2. CASE branch = "restart"
      BY <2>1, <3>2 DEF Select
    <3>3. CASE branch = "error"
      BY <2>1, <3>3 DEF Select
    <3> QED BY <2>1, <3>1, <3>2, <3>3
  <2>4. Shape'
    BY <1>1, <2>2, <2>3 DEF Shape
  <2>5. Progressed'
    BY <1>1, <2>2 DEF Progressed
  <2>6. RoomLeft'
    <3>1. Unfinished' = Unfinished
      BY <2>2 DEF Unfinished
    <3> QED BY <1>1, <2>3, <3>1, UnfinishedFinite DEF RoomLeft, Shape
  <2> QED BY <2>4, <2>5, <2>6
<1>5. ASSUME NEW s \in Servers, NEW next \in {"new", "opening", "serving", "failed"},
             Alive, server[s] # "done", run = "starting" \/ next # "new",
             server[s] # "new" \/ run = "starting",
             server' = [server EXCEPT ![s] = next],
             watcher' \in [Servers -> {"none", "waiting", "draining", "over"}],
             UNCHANGED <<run, cause, errors, timers, posts, inflight>>
      PROVE  Shape' /\ Progressed' /\ RoomLeft'
  <2>1. Shape'
    BY <1>1, <1>5 DEF Shape
  <2>2. Progressed'
    BY <1>1, <1>5 DEF Progressed, Shape, Alive
  <2>3. RoomLeft'
    <3>1. Unfinished' = Unfinished
      BY <1>1, <1>5, StillUnfinished DEF Shape
    <3> QED BY <1>1, <1>5, <3>1 DEF RoomLeft
  <2> QED BY <2>1, <2>2, <2>3
<1>6. ASSUME NEW s \in Servers, Alive, server[s] \notin {"new", "done"},
             server' = [server EXCEPT ![s] = "done"],
             errors' \in {errors, errors + 1}, errors' <= Capacity,
             UNCHANGED <<run, cause, watcher, timers, posts, inflight>>
      PROVE  Shape' /\ Progressed' /\ RoomLeft'
  <2>1. Shape'
    BY <1>1, <1>6 DEF Shape
  <2>2. Progressed'
    BY <1>1, <1>6 DEF Progressed, Shape, Alive
  <2>3. RoomLeft'
    <3>1. Cardinality(Unfinished') = Cardinality(Unfinished) - 1
      BY <1>1, <1>6, OneLess DEF Shape
    <3> QED BY <1>1, <1>6, <3>1, UnfinishedFinite DEF RoomLeft, Shape
  <2> QED BY <2>1, <2>2, <2>3
<1>7. ASSUME NEW s \in Servers, StartServer(s)
      PROVE  Shape' /\ Progressed' /\ RoomLeft'
  <2>1. /\ Alive /\ server[s] # "done" /\ run = "starting"
        /\ server' = [server EXCEPT ![s] = "opening"]
        /\ UNCHANGED <<run, cause, errors, timers, posts, inflight>>
    BY <1>7 DEF StartServer, Alive
  <2>2. watcher' \in [Servers -> {"none", "waiting", "draining", "over"}]
    BY <1>1, <1>7 DEF StartServer, Shape
  <2> QED BY <1>5, <2>1, <2>2
<1>8. ASSUME NEW s \in Servers, Listen(s) \/ Accept(s)
      PROVE  Shape' /\ Progressed' /\ RoomLeft'
  <2>1. /\ Alive /\ server[s] \notin {"new", "done"}
        /\ UNCHANGED <<run, cause, watcher, errors, timers, posts, inflight>>
        /\ \E next \in {"serving", "failed", "done"} :
              server' = [server EXCEPT ![s] = next]
    BY <1>8 DEF Listen, Accept
  <2>2. PICK next \in {"serving", "failed", "done"} :
          server' = [server EXCEPT ![s] = next]
    BY <2>1
  <2>3. CASE next = "done"
    <3>1. errors' \in {errors, errors + 1} /\ errors' <= Capacity
      BY <1>1, <2>1 DEF Shape
    <3>2. server' = [server EXCEPT ![s] = "done"]
      BY <2>2, <2>3
    <3> QED BY <1>6, <2>1, <3>1, <3>2
  <2>4. CASE next # "done"
    BY <1>1, <1>5, <2>1, <2>2, <2>4 DEF Shape
  <2> QED BY <2>3, <2>4
<1>9. ASSUME NEW s \in Servers, ReportError(s)
      PROVE  Shape' /\ Progressed' /\ RoomLeft'
  <2>1. /\ Alive /\ server[s] \notin {"new", "done"}
        /\ server' = [server EXCEPT ![s] = "done"]
        /\ errors' = errors + 1 /\ errors < Capacity
        /\ UNCHANGED <<run, cause, watcher, timers, posts, inflight>>
    BY <1>9 DEF ReportError
  <2>2. errors' <= Capacity
    BY <1>1, <2>1 DEF Shape
  <2> QED BY <1>6, <2>1, <2>2
<1>10. ASSUME UNCHANGED <<run, server, errors>>, Shape'
       PROVE  Shape' /\ Progressed' /\ RoomLeft'
  BY <1>1, <1>10, SameRoom DEF Progressed
<1>11. ASSUME NEW s \in Servers, ShutdownStep(s) \/ Request(s) \/ Respond(s)
       PROVE  Shape' /\ Progressed' /\ RoomLeft'
  <2>1. UNCHANGED <<run, server, errors>>
    BY <1>11 DEF ShutdownStep, BeginShutdown, EndShutdown, Request, Respond
  <2>2. Shape'
    BY <1>1, <1>11 DEF ShutdownStep, BeginShutdown, EndShutdown, Request, Respond, Shape
  <2> QED BY <1>10, <2>1, <2>2
<1>12. CASE ReleaseWatcher \/ PostRestart \/ TimerFires
  <2>1. UNCHANGED <<run, server, errors>>
    BY <1>12 DEF ReleaseWatcher, PostRestart, TimerFires
  <2>2. Shape'
    BY <1>1, <1>12, RunAssumption DEF ReleaseWatcher, PostRestart, TimerFires, Shape
  <2> QED BY <1>10, <2>1, <2>2
<1>13. CASE UNCHANGED vars
  <2>1. UNCHANGED <<run, server, errors>>
    BY <1>13 DEF vars
  <2>2. Shape'
    BY <1>1, <1>13 DEF vars, Shape
  <2> QED BY <1>10, <2>1, <2>2
<1> QED
  BY <1>3, <1>4, <1>7, <1>8, <1>9, <1>11, <1>12, <1>13 DEF Next, ServeStep

\* The invariant, in every reachable state.
LEMMA SpecInv == Spec => []RunInv
BY InitInv, InvNext, PTL DEF Spec

-----------------------------------------------------------------------------
\* Gateway.Run and its listeners keep to their types; errCh never holds more
\* errors than gateway.go:116 gives it room for.
THEOREM TypeCorrect == Spec => []TypeOK
BY SpecInv, TypeOfInv, PTL

\* A failed listener can always send its error and end, for any number of
\* listeners: wg.Wait never waits for a blocked sender.
THEOREM SendersNeverBlock == Spec => []NoSenderBlocks
<1>1. ASSUME RunInv, NEW s \in Servers, server[s] = "failed"
      PROVE  errors < Capacity
  <2>1. s \in Unfinished
    BY <1>1 DEF Unfinished
  <2>2. Cardinality(Unfinished) # 0
    BY <2>1, UnfinishedFinite, FS_EmptySet
  <2> QED BY <1>1, <2>2, UnfinishedFinite, ServersFinite DEF RunInv, RoomLeft, Shape
<1>2. RunInv => NoSenderBlocks
  BY <1>1 DEF NoSenderBlocks
<1> QED BY <1>2, SpecInv, PTL

-----------------------------------------------------------------------------
(* What FailedListenerEndsRun and ShutdownEnds rest on *)

\* Every listener that was started has its watcher, and a watcher that is past its
\* wait saw the end of the run, or its listener's own end.
Watched ==
  /\ \A s \in Servers : watcher[s] = "none" => server[s] = "new"
  /\ \A s \in Servers : ShuttingDown(s) => cancelled \/ server[s] \in {"failed", "done"}

\* Before the end of the run a listener has ended only with its error in errCh, and
\* nobody has taken it out.
ErrorsKept ==
  run \in {"starting", "selecting"} /\ (\E s \in Servers : server[s] = "done") =>
    cancelled \/ errors > 0

EndIsCalled == run = "waiting" => cancelled

\* What wg.Wait waits for comes: each listener has ended, or has room for its
\* error, or sees its Shutdown, begun or about to.
WaitGoesOn ==
  run = "waiting" =>
    \A s \in Servers :
      \/ server[s] = "done"
      \/ server[s] = "failed" /\ errors < Capacity
      \/ server[s] \in {"opening", "serving"} /\ (ShuttingDown(s) \/ (watcher[s] = "waiting" /\ cancelled))

\* One case per group of actions; only a report and an end of Shutdown end a
\* listener.
LEMMA WatchedNext ==
  ASSUME RunInv, Watched, ErrorsKept, EndIsCalled, [Next]_vars
  PROVE  Watched' /\ ErrorsKept' /\ EndIsCalled'
<1>1. /\ server \in [Servers -> {"new", "opening", "serving", "failed", "done"}]
      /\ watcher \in [Servers -> {"none", "waiting", "draining", "over"}]
      /\ errors \in Nat
  BY ServersFinite DEF RunInv, Shape
<1>2. ASSUME UNCHANGED <<server, watcher, errors>>, cancelled => cancelled',
             \/ run' = run
             \/ run = "starting" /\ run' = "selecting"
             \/ run' \in {"returned", "exited"}
      PROVE  Watched' /\ ErrorsKept' /\ EndIsCalled'
  BY <1>2 DEF Watched, ErrorsKept, EndIsCalled, ShuttingDown
<1>3. CASE Refuse \/ AllStarted \/ Return \/ Exit \/ Signal
  BY <1>2, <1>3 DEF Refuse, AllStarted, Return, Exit, Signal
<1>4. CASE SelectAny
  <2>1. cancelled' = TRUE /\ run' = "waiting" /\ UNCHANGED <<server, watcher>>
    BY <1>4 DEF SelectAny, Select
  <2> QED BY <2>1 DEF Watched, ErrorsKept, EndIsCalled, ShuttingDown
<1>5. ASSUME NEW s \in Servers, StartServer(s)
      PROVE  Watched' /\ ErrorsKept' /\ EndIsCalled'
  <2>1. /\ server' = [server EXCEPT ![s] = "opening"]
        /\ watcher' = [watcher EXCEPT ![s] = "waiting"]
        /\ UNCHANGED <<run, cancelled, errors>>
    BY <1>5 DEF StartServer
  <2> QED BY <1>1, <2>1 DEF Watched, ErrorsKept, EndIsCalled, ShuttingDown
<1>6. ASSUME NEW s \in Servers, Listen(s) \/ Accept(s)
      PROVE  Watched' /\ ErrorsKept' /\ EndIsCalled'
  <2>1. PICK next \in {"serving", "failed", "done"} :
          /\ server' = [server EXCEPT ![s] = next]
          /\ IF ShuttingDown(s) THEN next = "done" ELSE next # "done"
    BY <1>6 DEF Listen, Accept
  <2>2. server[s] \in {"opening", "serving"} /\ UNCHANGED <<run, cancelled, watcher, errors>>
    BY <1>6 DEF Listen, Accept
  <2>3. ShuttingDown(s) => cancelled
    BY <2>2 DEF Watched
  <2>4. Watched'
    BY <1>1, <2>1, <2>2, <2>3 DEF Watched, ShuttingDown
  <2>5. ErrorsKept'
    BY <1>1, <2>1, <2>2, <2>3 DEF ErrorsKept
  <2> QED BY <2>2, <2>4, <2>5 DEF EndIsCalled
<1>7. ASSUME NEW s \in Servers, ReportError(s)
      PROVE  Watched' /\ ErrorsKept' /\ EndIsCalled'
  <2>1. /\ server' = [server EXCEPT ![s] = "done"] /\ server[s] = "failed"
        /\ errors' = errors + 1 /\ UNCHANGED <<run, cancelled, watcher>>
    BY <1>7 DEF ReportError
  <2>2. Watched'
    BY <1>1, <2>1 DEF Watched, ShuttingDown
  <2> QED BY <1>1, <2>1, <2>2 DEF ErrorsKept, EndIsCalled
<1>8. ASSUME NEW s \in Servers, ShutdownStep(s)
      PROVE  Watched' /\ ErrorsKept' /\ EndIsCalled'
  <2>1. PICK next \in {"draining", "over"} : watcher' = [watcher EXCEPT ![s] = next]
    BY <1>8 DEF ShutdownStep, BeginShutdown, EndShutdown
  <2>2. UNCHANGED <<run, cancelled, server, errors>> /\ (cancelled \/ ShuttingDown(s))
        /\ watcher[s] # "none"
    BY <1>8 DEF ShutdownStep, BeginShutdown, EndShutdown, ShuttingDown
  <2>3. Watched'
    BY <1>1, <2>1, <2>2 DEF Watched, ShuttingDown
  <2> QED BY <2>2, <2>3 DEF ErrorsKept, EndIsCalled
<1>9. CASE ReleaseWatcher
  <2>1. /\ server[Admin] \in {"failed", "done"} /\ Admin \in Servers
        /\ watcher' = [watcher EXCEPT ![Admin] = "over"]
        /\ UNCHANGED <<run, cancelled, server, errors>>
    BY <1>9 DEF ReleaseWatcher, Servers
  <2>2. Watched'
    BY <1>1, <2>1 DEF Watched, ShuttingDown
  <2> QED BY <2>1, <2>2 DEF ErrorsKept, EndIsCalled
<1>10. ASSUME \/ \E s \in Servers : Request(s) \/ Respond(s)
              \/ PostRestart \/ TimerFires \/ UNCHANGED vars
       PROVE  Watched' /\ ErrorsKept' /\ EndIsCalled'
  BY <1>2, <1>10 DEF Request, Respond, PostRestart, TimerFires, vars
<1> QED
  BY <1>3, <1>4, <1>5, <1>6, <1>7, <1>8, <1>9, <1>10 DEF Next, ServeStep

\* In every reachable state.
LEMMA SpecWatched == Spec => [](RunInv /\ Watched /\ ErrorsKept /\ EndIsCalled)
<1>1. Init => Watched /\ ErrorsKept /\ EndIsCalled
  BY DEF Init, Watched, ErrorsKept, EndIsCalled, ShuttingDown
<1> QED BY <1>1, WatchedNext, SpecInv, PTL DEF Spec

\* The error of a listener that failed is not lost: it is in errCh as long as Run
\* has not left its loop and its select, unless the run is over anyway.
THEOREM ErrorsReachRun == Spec => []ErrorsKept
BY SpecWatched, PTL

\* wg.Wait waits for nothing that cannot happen: whatever a listener was doing when
\* the run was cancelled, its Shutdown is begun or about to be, or its error has
\* room.
THEOREM WaitIsServed == Spec => []WaitGoesOn
<1>1. ASSUME RunInv, Watched, EndIsCalled, NoSenderBlocks
      PROVE  WaitGoesOn
  <2> SUFFICES ASSUME run = "waiting", NEW s \in Servers, server[s] # "done"
               PROVE  \/ server[s] = "failed" /\ errors < Capacity
                      \/ /\ server[s] \in {"opening", "serving"}
                         /\ ShuttingDown(s) \/ (watcher[s] = "waiting" /\ cancelled)
    BY DEF WaitGoesOn
  <2>1. cancelled /\ server[s] # "new"
    BY <1>1 DEF EndIsCalled, RunInv, Progressed
  <2>2. /\ server[s] \in {"opening", "serving", "failed"}
        /\ watcher[s] \in {"waiting", "draining", "over"}
    BY <1>1, <2>1 DEF RunInv, Shape, Watched
  <2> QED BY <1>1, <2>1, <2>2 DEF NoSenderBlocks, ShuttingDown
<1> QED BY <1>1, SpecWatched, SendersNeverBlock, PTL
=============================================================================

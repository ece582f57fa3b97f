----------------------------- MODULE GatewayRun -----------------------------
(***************************************************************************)
(* One run of the gateway process, from the start of its listeners to its  *)
(* exit: Gateway.Run (internal/gateway/gateway.go), RunToolServer          *)
(* (internal/fbs/server.go), Server.Run and handleRestart                  *)
(* (internal/admin/server.go), and the end of runGateway                   *)
(* (cmd/fbs-interlock-gateway/main.go).  Each listener has a goroutine     *)
(* that serves, one that waits for the end of the run to shut it down, and *)
(* handlers that outlive both.                                             *)
(***************************************************************************)
EXTENDS Naturals, FiniteSets

CONSTANTS Tools,      \* the enabled tools, each with a listener
          Disabled,   \* how many tools of the configuration are disabled
          Admin,      \* the Admin listener
          MaxPosts    \* bound on the restart requests

Servers == Tools \cup {Admin}

ASSUME RunAssumption ==
  /\ IsFiniteSet(Tools) /\ Admin \notin Tools
  /\ Disabled \in Nat /\ MaxPosts \in Nat

VARIABLES run,        \* where Gateway.Run and its caller are
          cause,      \* the branch its select took
          cancelled,  \* runCtx is done
          signalled,  \* the parent context is: SIGINT or SIGTERM
          server,     \* the goroutine that serves
          watcher,    \* the goroutine that shuts it down
          errors,     \* errors in errCh
          token,      \* restartRequested holds a request
          timers,     \* restart requests whose delay runs
          posts,      \* restart requests made
          inflight    \* the listeners with a request in flight

vars == <<run, cause, cancelled, signalled, server, watcher, errors, token,
          timers, posts, inflight>>

Init ==
  /\ run = "starting" /\ cause = "none"
  /\ cancelled = FALSE /\ signalled = FALSE
  /\ server = [s \in Servers |-> "new"]
  /\ watcher = [s \in Servers |-> "none"]
  /\ errors = 0
  /\ token = FALSE /\ timers = 0 /\ posts = 0
  /\ inflight = {}

Alive == run # "exited"

\* Mutant: room for the tools' errors, none for the Admin listener's.
CapacityTools == Cardinality(Tools) + Disabled

Capacity == Cardinality(Tools) + Disabled + 1

-----------------------------------------------------------------------------
(* Gateway.Run *)

\* The Shelly client or the enabled tools are refused before anything starts.
Refuse ==
  /\ run = "starting"
  /\ \A s \in Servers : server[s] = "new"
  /\ run' = "returned" /\ cause' = "error"
  /\ UNCHANGED <<cancelled, signalled, server, watcher, errors, token, timers,
                 posts, inflight>>

\* The Admin listener first; before each tool its port is cleared, which takes
\* time.
StartServer(s) ==
  /\ run = "starting"
  /\ server[s] = "new"
  /\ s = Admin \/ server[Admin] # "new"
  /\ server' = [server EXCEPT ![s] = "opening"]
  /\ watcher' = [watcher EXCEPT ![s] = "waiting"]
  /\ UNCHANGED <<run, cause, cancelled, signalled, errors, token, timers, posts,
                 inflight>>

AllStarted ==
  /\ run = "starting"
  /\ \A s \in Servers : server[s] # "new"
  /\ run' = "selecting"
  /\ UNCHANGED <<cause, cancelled, signalled, server, watcher, errors, token,
                 timers, posts, inflight>>

\* The select, which chooses freely among what is ready, and cancel().
Select(branch) ==
  /\ run = "selecting"
  /\ CASE branch = "signal"  -> signalled /\ UNCHANGED <<token, errors>>
       [] branch = "restart" -> token /\ token' = FALSE /\ UNCHANGED errors
       [] branch = "error"   -> errors > 0 /\ errors' = errors - 1 /\ UNCHANGED token
  /\ cause' = branch
  /\ cancelled' = TRUE
  /\ run' = "waiting"
  /\ UNCHANGED <<signalled, server, watcher, timers, posts, inflight>>

\* wg.Wait is over.
Return ==
  /\ run = "waiting"
  /\ \A s \in Servers : server[s] = "done"
  /\ run' = "returned"
  /\ UNCHANGED <<cause, cancelled, signalled, server, watcher, errors, token,
                 timers, posts, inflight>>

\* runGateway closes the database and the log archive and the process ends,
\* with every goroutine that is left.
Exit ==
  /\ run = "returned"
  /\ run' = "exited"
  /\ timers' = 0 /\ inflight' = {}
  /\ UNCHANGED <<cause, cancelled, signalled, server, watcher, errors, token, posts>>

\* runCtx is derived from the context the signal ends.
Signal ==
  /\ Alive
  /\ ~signalled
  /\ signalled' = TRUE
  /\ cancelled' = TRUE
  /\ UNCHANGED <<run, cause, server, watcher, errors, token, timers, posts, inflight>>

-----------------------------------------------------------------------------
(* A listener *)

ShuttingDown(s) == watcher[s] \in {"draining", "over"}

\* ListenAndServe binds the port, fails to, or finds the server shut down.
Listen(s) ==
  /\ Alive
  /\ server[s] = "opening"
  /\ server' \in {[server EXCEPT ![s] = next] :
                    next \in IF ShuttingDown(s) THEN {"done"} ELSE {"serving", "failed"}}
  /\ UNCHANGED <<run, cause, cancelled, signalled, watcher, errors, token, timers,
                 posts, inflight>>

\* It returns: with an error, or with ErrServerClosed as soon as Shutdown is
\* called, which still waits for the handlers.
Accept(s) ==
  /\ Alive
  /\ server[s] = "serving"
  /\ server' = [server EXCEPT ![s] = IF ShuttingDown(s) THEN "done" ELSE "failed"]
  /\ UNCHANGED <<run, cause, cancelled, signalled, watcher, errors, token, timers,
                 posts, inflight>>

\* Mutant: the error is logged and not reported.
ReportErrorNowhere(s) ==
  /\ Alive
  /\ server[s] = "failed"
  /\ server' = [server EXCEPT ![s] = "done"]
  /\ UNCHANGED <<run, cause, cancelled, signalled, watcher, errors, token, timers,
                 posts, inflight>>

ReportError(s) ==
  /\ Alive
  /\ server[s] = "failed"
  /\ errors < Capacity            \* the send would block on a full channel
  /\ errors' = errors + 1
  /\ server' = [server EXCEPT ![s] = "done"]
  /\ UNCHANGED <<run, cause, cancelled, signalled, watcher, token, timers, posts,
                 inflight>>

BeginShutdown(s) ==
  /\ Alive
  /\ watcher[s] = "waiting"
  /\ cancelled
  /\ watcher' = [watcher EXCEPT ![s] = "draining"]
  /\ UNCHANGED <<run, cause, cancelled, signalled, server, errors, token, timers,
                 posts, inflight>>

\* No handler is left, or the time limit of Shutdown has passed.
EndShutdown(s) ==
  /\ Alive
  /\ watcher[s] = "draining"
  /\ watcher' = [watcher EXCEPT ![s] = "over"]
  /\ UNCHANGED <<run, cause, cancelled, signalled, server, errors, token, timers,
                 posts, inflight>>

\* serverFinished: only the Admin listener releases its watcher.
ReleaseWatcher ==
  /\ Alive
  /\ server[Admin] \in {"failed", "done"}
  /\ watcher[Admin] = "waiting"
  /\ watcher' = [watcher EXCEPT ![Admin] = "over"]
  /\ UNCHANGED <<run, cause, cancelled, signalled, server, errors, token, timers,
                 posts, inflight>>

Request(s) ==
  /\ Alive
  /\ server[s] = "serving" /\ ~ShuttingDown(s)
  /\ s \notin inflight
  /\ inflight' = inflight \cup {s}
  /\ UNCHANGED <<run, cause, cancelled, signalled, server, watcher, errors, token,
                 timers, posts>>

Respond(s) ==
  /\ Alive
  /\ s \in inflight
  /\ inflight' = inflight \ {s}
  /\ UNCHANGED <<run, cause, cancelled, signalled, server, watcher, errors, token,
                 timers, posts>>

\* handleRestart answers, then starts the goroutine with the delay.
PostRestart ==
  /\ Alive
  /\ Admin \in inflight
  /\ posts < MaxPosts
  /\ posts' = posts + 1
  /\ timers' = timers + 1
  /\ inflight' = inflight \ {Admin}
  /\ UNCHANGED <<run, cause, cancelled, signalled, server, watcher, errors, token>>

\* Mutant: the channel has no buffer, so a request is dropped while Run is not
\* in its select.
TimerFiresUnbuffered ==
  /\ Alive
  /\ timers > 0
  /\ timers' = timers - 1
  /\ token' = (token \/ run = "selecting")
  /\ UNCHANGED <<run, cause, cancelled, signalled, server, watcher, errors, posts,
                 inflight>>

\* A send that gives way when a request is waiting already.
TimerFires ==
  /\ Alive
  /\ timers > 0
  /\ timers' = timers - 1
  /\ token' = TRUE
  /\ UNCHANGED <<run, cause, cancelled, signalled, server, watcher, errors, posts,
                 inflight>>

-----------------------------------------------------------------------------
SelectAny == \E branch \in {"signal", "restart", "error"} : Select(branch)

ServeStep(s) ==
  \/ StartServer(s) \/ Listen(s) \/ ReportError(s)
  \/ ShuttingDown(s) /\ Accept(s)

ShutdownStep(s) == BeginShutdown(s) \/ EndShutdown(s)

Next ==
  \/ Refuse \/ AllStarted \/ SelectAny \/ Return \/ Exit
  \/ Signal
  \/ \E s \in Servers : ServeStep(s) \/ ShutdownStep(s) \/ Accept(s)
                          \/ Request(s) \/ Respond(s)
  \/ ReleaseWatcher
  \/ PostRestart \/ TimerFires

Spec == Init /\ [][Next]_vars

\* The process keeps running its goroutines and its timers.  Nothing is assumed
\* of requests, of handlers, or that a listener fails.
FairSpec ==
  /\ Spec
  /\ WF_vars(AllStarted) /\ WF_vars(SelectAny) /\ WF_vars(Return) /\ WF_vars(Exit)
  /\ \A s \in Servers : WF_vars(ServeStep(s)) /\ WF_vars(ShutdownStep(s))
  /\ WF_vars(TimerFires)

-----------------------------------------------------------------------------
TypeOK ==
  /\ run \in {"starting", "selecting", "waiting", "returned", "exited"}
  /\ cause \in {"none", "signal", "restart", "error"}
  /\ cancelled \in BOOLEAN /\ signalled \in BOOLEAN /\ token \in BOOLEAN
  /\ server \in [Servers -> {"new", "opening", "serving", "failed", "done"}]
  /\ watcher \in [Servers -> {"none", "waiting", "draining", "over"}]
  /\ errors \in 0..Capacity
  /\ timers \in 0..MaxPosts /\ posts \in 0..MaxPosts
  /\ inflight \subseteq Servers

\* A listener that failed finds room in errCh, however many fail before Run
\* looks, and whether or not it ever looks: nobody receives once a signal or a
\* restart has ended the select, and wg.Wait waits for the senders.
NoSenderBlocks == \A s \in Servers : server[s] = "failed" => errors < Capacity

\* The gateway does not live on without one of its listeners: when one fails,
\* the process ends and the supervisor starts it again.  The other listeners
\* may fail too, before or after the first error was received.
FailedListenerEndsRun == \A s \in Servers : server[s] = "failed" ~> run = "exited"

\* Once the run is cancelled the process ends, and so it does once a restart was
\* accepted, also one that was posted while Run was still starting listeners, or
\* twice: no goroutine blocks on errCh or on the restart, and no listener that was
\* opening at that time is left waiting.
ShutdownEnds == cancelled \/ timers > 0 ~> run = "exited"

\* README 2299: the gateway "shuts down cleanly" on a signal or an Admin
\* restart: a request it had accepted is answered, or given its three seconds,
\* before Run reports that the shutdown is complete.  An error is left out.
\* The code does not keep it (README, section 5).
NoRequestIsCut ==
  [][run' = "returned" /\ cause \in {"signal", "restart"} =>
       \A s \in inflight : watcher[s] = "over"]_run
=============================================================================

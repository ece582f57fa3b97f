---------------------------- MODULE FleetRefresh ----------------------------
(***************************************************************************)
(* A fleet refresh over all tools: statusSnapshot, refreshStatuses and     *)
(* collectStatuses with its workers (internal/admin/server.go), the rows   *)
(* of the status store (internal/status/store.go), and the FBS calls that  *)
(* take precedence over its probes.                                        *)
(*                                                                         *)
(* Two configurations meet here.  The listeners serve the configuration    *)
(* the process was started with, "running"; a scan takes the one that was  *)
(* saved last, "saved"; both write the rows, by port.  StatusFlow has the  *)
(* steps of a request and of a probe for one tool; a call and the record   *)
(* of its result are two steps here.                                       *)
(***************************************************************************)
EXTENDS Naturals, FiniteSets

CONSTANTS Fleet,        \* the configurations: version -> tools [port, device, enabled]
          MaxWorkers,   \* maxConcurrentStatusRequests
          MaxRevision,  \* bound: no call or scan begins beyond it
          NoTool

Versions == DOMAIN Fleet
Tools    == UNION {Fleet[v] : v \in Versions}
Ports    == {t.port : t \in Tools}

ASSUME FleetAssumption ==
  /\ MaxWorkers \in Nat \ {0}
  /\ \A v \in DOMAIN Fleet : IsFiniteSet(Fleet[v])
  /\ \A v \in DOMAIN Fleet : \A s, t \in Fleet[v] :
       s.port = t.port \/ s.device = t.device => s = t
  /\ \A t \in Tools : t.enabled \in BOOLEAN
  /\ NoTool \notin Tools

Workers  == 1..MaxWorkers
Enabled(v) == {t \in Fleet[v] : t.enabled}

VARIABLES saved, running,  \* Gateway.cfg; what its listeners and rows started from
          rows, revision,  \* status.Store
          calls,           \* the running tools with an FBS call under way
          scanning,        \* statusRefreshInFlight
          scan,            \* where collectStatuses is
          scanRev, cfg,    \* its revision, its configuration,
          unsent,          \* the tools it has not handed out,
          expired,         \* and its context
          worker, job,     \* the workers, the tool each has in hand
          handled          \* history: tools of the scan that are through

rowVars   == <<rows, revision>>
poolVars  == <<worker, job>>
scanVars  == <<scanning, scan, scanRev, cfg, unsent, expired, handled>>
fleetVars == <<saved, running, rowVars, calls, scanVars, poolVars>>

\* status.New: one row for each tool.
NewRows(v) ==
  [p \in Ports |->
     IF \E t \in Fleet[v] : t.port = p
     THEN [tool |-> CHOOSE t \in Fleet[v] : t.port = p, rev |-> 0]
     ELSE [tool |-> NoTool, rev |-> 0]]

Init ==
  /\ saved \in Versions /\ running = saved
  /\ rows = NewRows(running) /\ revision = 0
  /\ calls = {}
  /\ scanning = FALSE /\ scan = "none" /\ scanRev = 0 /\ cfg = saved
  /\ unsent = {} /\ expired = FALSE /\ handled = {}
  /\ worker = [w \in Workers |-> "out"] /\ job = [w \in Workers |-> NoTool]

\* Mutant of Recorded: a result replaces whatever the row holds.
RecordedLatest(tools, rev) ==
  [p \in Ports |->
     IF \E t \in tools : t.port = p
     THEN [tool |-> CHOOSE t \in tools : t.port = p, rev |-> rev]
     ELSE rows[p]]

\* Store.Record of one result for each of the tools.
Recorded(tools, rev) ==
  [p \in Ports |->
     IF \E t \in tools : t.port = p /\ rev >= rows[p].rev
     THEN [tool |-> CHOOSE t \in tools : t.port = p, rev |-> rev]
     ELSE rows[p]]

-----------------------------------------------------------------------------
(* FBS calls *)

Busy(device)      == \E t \in calls : t.device = device
Probes(w, device) == worker[w] = "probing" /\ job[w].device = device

\* A call is counted, and cancels a probe of its device.
BeginCall(t) ==
  /\ t \in Enabled(running) \ calls
  /\ revision < MaxRevision
  /\ calls' = calls \cup {t}
  /\ worker' = [w \in Workers |-> IF Probes(w, t.device) THEN "displaced" ELSE worker[w]]
  /\ UNCHANGED <<saved, running, rowVars, scanVars, job>>

\* The call has had the device, or has given up waiting for a cancelled probe to
\* let go of it, and is recorded.
EndCall(t) ==
  /\ t \in calls
  /\ calls' = calls \ {t}
  /\ revision' = revision + 1
  /\ rows' = Recorded({t}, revision')
  /\ UNCHANGED <<saved, running, scanVars, poolVars>>

-----------------------------------------------------------------------------
(* The scan *)

\* Mutant of RequestRefresh: a refresh of its own for every request, which shares
\* the flag.
RequestRefreshAgain ==
  /\ revision < MaxRevision
  /\ scan \in {"none", "closed"}
  /\ scanning' = TRUE
  /\ revision' = revision + 1
  /\ scanRev' = revision'
  /\ scan' = "starting"
  /\ handled' = {} /\ expired' = FALSE
  /\ UNCHANGED <<saved, running, rows, calls, cfg, unsent, poolVars>>

\* statusSnapshot: a request starts a scan or joins the one under way.
RequestRefresh ==
  /\ revision < MaxRevision
  /\ ~scanning
  /\ scanning' = TRUE
  /\ revision' = revision + 1
  /\ scanRev' = revision'
  /\ scan' = "starting"
  /\ UNCHANGED <<saved, running, rows, calls, cfg, unsent, expired, handled, poolVars>>

\* collectStatuses takes the configuration, records the disabled tools and starts
\* its workers.
Collect ==
  /\ scan = "starting"
  /\ cfg' = saved
  /\ rows' = Recorded(Fleet[saved] \ Enabled(saved), scanRev)
  /\ unsent' = Enabled(saved)
  /\ worker' = [w \in Workers |-> IF w <= Cardinality(Enabled(saved)) THEN "ready" ELSE "out"]
  /\ scan' = "sending"
  /\ UNCHANGED <<saved, running, revision, calls, scanning, scanRev, expired, handled, job>>

\* The two-minute context.
Expire ==
  /\ scan \in {"sending", "closed"} /\ ~expired
  /\ expired' = TRUE
  /\ UNCHANGED <<saved, running, rowVars, calls, scanning, scan, scanRev, cfg, unsent, handled,
                 poolVars>>

\* jobs is unbuffered: a tool goes to a worker that is ready for it.
Send(t, w) ==
  /\ scan = "sending" /\ t \in unsent
  /\ worker[w] = "ready"
  /\ unsent' = unsent \ {t}
  /\ worker' = [worker EXCEPT ![w] = "received"]
  /\ job' = [job EXCEPT ![w] = t]
  /\ UNCHANGED <<saved, running, rowVars, calls, scanning, scan, scanRev, cfg, expired,
                 handled>>

\* Mutant of CloseJobs: the producer does not look at the context.
CloseJobsWhenSent ==
  /\ scan = "sending"
  /\ unsent = {}
  /\ scan' = "closed"
  /\ UNCHANGED <<saved, running, rowVars, calls, scanning, scanRev, cfg, unsent, expired,
                 handled, poolVars>>

\* Every tool is sent, or the context is done.
CloseJobs ==
  /\ scan = "sending"
  /\ unsent = {} \/ expired
  /\ scan' = "closed"
  /\ UNCHANGED <<saved, running, rowVars, calls, scanning, scanRev, cfg, unsent, expired,
                 handled, poolVars>>

\* All workers are done; the deferred function clears the flag.
EndScan ==
  /\ scan = "closed"
  /\ \A w \in Workers : worker[w] = "out"
  /\ scanning' = FALSE /\ scan' = "none" /\ scanRev' = 0
  /\ unsent' = {} /\ expired' = FALSE /\ handled' = {}
  /\ UNCHANGED <<saved, running, rowVars, calls, cfg, poolVars>>

-----------------------------------------------------------------------------
(* A worker *)

ToReady(w) ==
  /\ worker' = [worker EXCEPT ![w] = "ready"]
  /\ job' = [job EXCEPT ![w] = NoTool]
  /\ handled' = handled \cup {job[w]}

\* Mutant of Leave: a worker stops at the first probe that may not begin.
LeaveBusy(w) ==
  /\ \/ worker[w] = "received" /\ (expired \/ Busy(job[w].device))
     \/ worker[w] = "ready" /\ scan = "closed"
  /\ worker' = [worker EXCEPT ![w] = "out"]
  /\ job' = [job EXCEPT ![w] = NoTool]
  /\ UNCHANGED <<saved, running, rowVars, calls, scanVars>>

\* The context is looked at before the probe; the job is dropped.
Leave(w) ==
  /\ \/ worker[w] = "received" /\ expired
     \/ worker[w] = "ready" /\ scan = "closed"
  /\ worker' = [worker EXCEPT ![w] = "out"]
  /\ job' = [job EXCEPT ![w] = NoTool]
  /\ UNCHANGED <<saved, running, rowVars, calls, scanVars>>

\* GetStatusAdmin takes the device, if it is free.
StartProbe(w) ==
  /\ worker[w] = "received" /\ ~expired
  /\ ~Busy(job[w].device)
  /\ worker' = [worker EXCEPT ![w] = "probing"]
  /\ UNCHANGED <<saved, running, rowVars, calls, scanVars, job>>

\* An FBS call has the device, or has taken it from the probe: nothing is recorded.
GiveWay(w) ==
  /\ \/ worker[w] = "received" /\ ~expired /\ Busy(job[w].device)
     \/ worker[w] = "displaced"
  /\ ToReady(w)
  /\ UNCHANGED <<saved, running, rowVars, calls, scanning, scan, scanRev, cfg, unsent,
                 expired>>

\* The device answers, or the probe fails, at the latest at the deadline; an answer
\* may be there when the probe is cancelled.
ProbeEnds(w) ==
  /\ worker[w] \in {"probing", "displaced"}
  /\ worker' = [worker EXCEPT ![w] = "answered"]
  /\ UNCHANGED <<saved, running, rowVars, calls, scanVars, job>>

RecordProbe(w) ==
  /\ worker[w] = "answered"
  /\ rows' = Recorded({job[w]}, scanRev)
  /\ ToReady(w)
  /\ UNCHANGED <<saved, running, revision, calls, scanning, scan, scanRev, cfg, unsent,
                 expired>>

-----------------------------------------------------------------------------
\* A save was committed and published (ConfigSave); what runs stays as it is.
Save(v) ==
  /\ v # saved
  /\ saved' = v
  /\ UNCHANGED <<running, rowVars, calls, scanVars, poolVars>>

\* The process ends and the supervisor starts it again.
Restart ==
  /\ running' = saved
  /\ rows' = NewRows(saved) /\ revision' = 0
  /\ calls' = {}
  /\ scanning' = FALSE /\ scan' = "none" /\ scanRev' = 0 /\ cfg' = saved
  /\ unsent' = {} /\ expired' = FALSE /\ handled' = {}
  /\ worker' = [w \in Workers |-> "out"] /\ job' = [w \in Workers |-> NoTool]
  /\ UNCHANGED saved

CallStep == \E t \in Tools : BeginCall(t) \/ EndCall(t)

ScanStep == Collect \/ CloseJobs \/ EndScan \/ \E t \in Tools, w \in Workers : Send(t, w)

WorkerStep(w) ==
  Leave(w) \/ StartProbe(w) \/ GiveWay(w) \/ ProbeEnds(w) \/ RecordProbe(w)

FleetStep == CallStep \/ ScanStep \/ Expire \/ \E w \in Workers : WorkerStep(w)

Next ==
  \/ FleetStep
  \/ RequestRefresh
  \/ \E v \in Versions : Save(v)
  \/ Restart

Spec == Init /\ [][Next]_fleetVars

\* The producer and the workers run; a probe ends by its timeout.
FairSpec ==
  /\ Spec
  /\ WF_fleetVars(ScanStep)
  /\ \A w \in Workers : WF_fleetVars(WorkerStep(w))

-----------------------------------------------------------------------------
\* The Admin server as a page sees it.
Service == INSTANCE StatusService
  WITH table <- [p \in Ports |-> rows[p].rev], Revisions <- Nat

TypeOK ==
  /\ saved \in Versions /\ running \in Versions /\ cfg \in Versions
  /\ rows \in [Ports -> [tool : Tools \cup {NoTool}, rev : Nat]]
  /\ revision \in Nat /\ scanRev \in 0..revision
  /\ calls \subseteq Tools /\ unsent \subseteq Tools /\ handled \subseteq Tools
  /\ scanning \in BOOLEAN /\ expired \in BOOLEAN
  /\ scan \in {"none", "starting", "sending", "closed"}
  /\ worker \in [Workers -> {"out", "ready", "received", "probing", "displaced", "answered"}]
  /\ job \in [Workers -> Tools \cup {NoTool}]

InHand == {w \in Workers : job[w] # NoTool}

\* README 1042 "Additional explicit refresh requests share the in-progress scan
\* rather than creating duplicate Shelly traffic": within a scan no tool is
\* handed out twice, and outside of one no worker is left at a device.
ProbedOnce ==
  /\ \A w \in InHand : job[w] \notin unsent \cup handled
  /\ \A w, v \in InHand : job[w] = job[v] => w = v
  /\ ~scanning => InHand = {}

\* A scan that ends before its deadline is through with every enabled tool of
\* the configuration it took (a restart, which sets revision back, cuts it off),
\* however few the workers are and however many
\* probes gave way.
ScanIsComplete ==
  [][ scanning /\ ~scanning' /\ ~expired /\ revision' = revision
        => handled = Enabled(cfg) ]_fleetVars

\* A scan ends: at the deadline neither the producer waits for workers that have
\* left, nor they for it.
ScanEnds == scanning ~> ~scanning

\* To a page the server is StatusService: whatever calls, workers and scans
\* write at the same time, rows only get newer while a process runs, one scan
\* follows the other, and what a save changes runs from the next start.
ImplementsService == Service!ServiceSpec
=============================================================================

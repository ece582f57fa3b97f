------------------------- MODULE FleetRefresh_proofs -------------------------
(***************************************************************************)
(* For any fleet, any number of workers and any saves: a scan probes each  *)
(* tool once and misses none, never stalls, and the server a page sees is  *)
(* StatusService.                                                          *)
(***************************************************************************)
EXTENDS FleetRefresh, FiniteSetTheorems, TLAPS

Working == scan \in {"sending", "closed"}
Jobs    == {job[w] : w \in InHand}

\* Where the parts of a scan are: a tool of its configuration is with the
\* producer, with one worker, or through, unless the context has ended.
ScanOK ==
  /\ scan = "none" <=> ~scanning
  /\ scanning => revision > 0
  /\ ~Working => /\ unsent = {} /\ handled = {} /\ ~expired
                 /\ \A w \in Workers : worker[w] = "out"
  /\ scan = "closed" /\ ~expired => unsent = {}
  /\ Working => unsent \cup handled \cup Jobs \subseteq Enabled(cfg)
  /\ Working /\ ~expired => Enabled(cfg) \subseteq unsent \cup handled \cup Jobs

WorkersOK ==
  /\ unsent \cap handled = {}
  /\ \A w \in Workers : job[w] = NoTool <=> worker[w] \in {"out", "ready"}
  /\ \A w \in Workers : job[w] # NoTool => job[w] \notin unsent \cup handled
  /\ \A w, v \in Workers : job[w] # NoTool /\ job[w] = job[v] => w = v

Inv == TypeOK /\ ScanOK /\ WorkersOK

-----------------------------------------------------------------------------
\* The tools of a configuration, all and enabled.
LEMMA ToolsOfAVersion ==
  ASSUME NEW v \in Versions
  PROVE  Fleet[v] \subseteq Tools /\ Enabled(v) \subseteq Tools
BY DEF Versions, Tools, Enabled

\* The rows of a new process.
LEMMA NewRowsTyped ==
  ASSUME NEW v \in Versions
  PROVE  /\ NewRows(v) \in [Ports -> [tool : Tools \cup {NoTool}, rev : Nat]]
         /\ \A p \in Ports : NewRows(v)[p].rev = 0
<1> SUFFICES ASSUME NEW p \in Ports
             PROVE  /\ NewRows(v)[p] \in [tool : Tools \cup {NoTool}, rev : Nat]
                    /\ NewRows(v)[p].rev = 0
  BY DEF NewRows
<1>1. CASE \E t \in Fleet[v] : t.port = p
  <2>1. (CHOOSE t \in Fleet[v] : t.port = p) \in Fleet[v]
    BY <1>1
  <2>2. NewRows(v)[p] = [tool |-> CHOOSE t \in Fleet[v] : t.port = p, rev |-> 0]
    BY <1>1 DEF NewRows
  <2> QED
    BY <2>1, <2>2, ToolsOfAVersion
<1>2. CASE ~\E t \in Fleet[v] : t.port = p
  BY <1>2 DEF NewRows
<1> QED
  BY <1>1, <1>2

\* A record never takes a row back.
LEMMA RecordedTyped ==
  ASSUME TypeOK, NEW tools \in SUBSET Tools, NEW rev \in Nat
  PROVE  /\ Recorded(tools, rev) \in [Ports -> [tool : Tools \cup {NoTool}, rev : Nat]]
         /\ \A p \in Ports : Recorded(tools, rev)[p].rev >= rows[p].rev
<1> SUFFICES ASSUME NEW p \in Ports
             PROVE  /\ Recorded(tools, rev)[p] \in [tool : Tools \cup {NoTool}, rev : Nat]
                    /\ Recorded(tools, rev)[p].rev >= rows[p].rev
  BY DEF Recorded
<1>1. rows[p] \in [tool : Tools \cup {NoTool}, rev : Nat]
  BY DEF TypeOK
<1>2. CASE \E t \in tools : t.port = p /\ rev >= rows[p].rev
  <2>1. (CHOOSE t \in tools : t.port = p) \in tools
    BY <1>2
  <2>2. Recorded(tools, rev)[p] = [tool |-> CHOOSE t \in tools : t.port = p, rev |-> rev]
    BY <1>2 DEF Recorded
  <2>3. rev >= rows[p].rev
    BY <1>2
  <2> QED
    BY <2>1, <2>2, <2>3
<1>3. CASE ~\E t \in tools : t.port = p /\ rev >= rows[p].rev
  <2>1. Recorded(tools, rev)[p] = rows[p]
    BY <1>3 DEF Recorded
  <2> QED
    BY <1>1, <2>1
<1> QED
  BY <1>2, <1>3

-----------------------------------------------------------------------------
\* No scan is under way at first.
LEMMA InitInv == Init => Inv
<1> SUFFICES ASSUME Init PROVE Inv
  OBVIOUS
<1>1. TypeOK
  <2>1. saved \in Versions /\ running = saved /\ cfg = saved /\ rows = NewRows(running)
    BY DEF Init
  <2>2. rows \in [Ports -> [tool : Tools \cup {NoTool}, rev : Nat]]
    BY <2>1, NewRowsTyped
  <2>3. /\ worker \in [Workers -> {"out", "ready", "received", "probing", "displaced", "answered"}]
        /\ job \in [Workers -> Tools \cup {NoTool}]
    BY DEF Init
  <2>4. /\ revision = 0 /\ scanRev = 0 /\ calls = {} /\ unsent = {} /\ handled = {}
        /\ scanning = FALSE /\ expired = FALSE /\ scan = "none"
    BY DEF Init
  <2>5. revision \in Nat /\ scanRev \in 0..revision
    BY <2>4
  <2>6. /\ scanning \in BOOLEAN /\ expired \in BOOLEAN
        /\ scan \in {"none", "starting", "sending", "closed"}
        /\ calls \subseteq Tools /\ unsent \subseteq Tools /\ handled \subseteq Tools
    BY <2>4, Zenon
  <2>7. saved \in Versions /\ running \in Versions /\ cfg \in Versions
    BY <2>1
  <2> QED
    BY <2>2, <2>3, <2>5, <2>6, <2>7, Zenon DEF TypeOK
<1>2. ScanOK
  BY DEF Init, ScanOK, Working
<1>3. WorkersOK
  BY DEF Init, WorkersOK
<1> QED
  BY <1>1, <1>2, <1>3 DEF Inv

\* A call does nothing to the workers but cancel a probe.
LEMMA CallOnWorkers ==
  ASSUME TypeOK, NEW t \in Tools, BeginCall(t)
  PROVE  /\ worker' \in [Workers -> {"out", "ready", "received", "probing", "displaced", "answered"}]
         /\ \A w \in Workers : \/ worker'[w] = worker[w]
                               \/ worker[w] = "probing" /\ worker'[w] = "displaced"
<1>1. worker' = [w \in Workers |-> IF Probes(w, t.device) THEN "displaced" ELSE worker[w]]
  BY DEF BeginCall
<1>2. \A w \in Workers : Probes(w, t.device) => worker[w] = "probing"
  BY DEF Probes
<1> QED
  BY <1>1, <1>2 DEF TypeOK

\* Calls, saves and the clock leave the scan alone.
LEMMA CallInv ==
  ASSUME Inv, \/ \E t \in Tools : BeginCall(t) \/ EndCall(t)
              \/ \E v \in Versions : Save(v)
              \/ Expire
  PROVE  Inv'
<1>1. UNCHANGED <<scanning, scan, scanRev, cfg, unsent, handled, job, running>>
  BY DEF BeginCall, EndCall, Save, Expire, scanVars, poolVars
<1>a. /\ worker' \in [Workers -> {"out", "ready", "received", "probing", "displaced", "answered"}]
      /\ \A w \in Workers : \/ worker'[w] = worker[w]
                            \/ worker[w] = "probing" /\ worker'[w] = "displaced"
  BY CallOnWorkers DEF Inv, TypeOK, EndCall, Save, Expire, poolVars
<1>2. TypeOK'
  <2>1. ASSUME NEW t \in Tools, BeginCall(t)
        PROVE  TypeOK'
    <3>1. calls' \subseteq Tools /\ UNCHANGED <<saved, running, rowVars, scanVars, job>>
      BY <2>1 DEF Inv, TypeOK, BeginCall
    <3> QED
      BY <1>a, <3>1 DEF Inv, TypeOK, scanVars, rowVars
  <2>2. ASSUME NEW t \in Tools, EndCall(t)
        PROVE  TypeOK'
    <3>1. revision' \in Nat /\ revision <= revision' /\ rows' = Recorded({t}, revision')
      BY <2>2 DEF EndCall, Inv, TypeOK
    <3>2. rows' \in [Ports -> [tool : Tools \cup {NoTool}, rev : Nat]]
      BY <3>1, RecordedTyped DEF Inv
    <3>3. scanRev \in Nat /\ revision \in Nat /\ scanRev <= revision
      BY DEF Inv, TypeOK
    <3>4. scanRev' \in 0..revision'
      BY <1>1, <3>1, <3>3
    <3> QED
      BY <2>2, <3>1, <3>2, <3>4 DEF Inv, TypeOK, EndCall, scanVars, poolVars
  <2>3. ASSUME NEW v \in Versions, Save(v)
        PROVE  TypeOK'
    BY <2>3 DEF Inv, TypeOK, Save, scanVars, poolVars, rowVars
  <2>4. CASE Expire
    BY <2>4 DEF Inv, TypeOK, Expire, poolVars, rowVars
  <2> QED
    BY <2>1, <2>2, <2>3, <2>4
<1>3. expired' = expired \/ (expired' = TRUE /\ Working)
  BY DEF BeginCall, EndCall, Save, Expire, scanVars, Working
<1>4. scanning => revision' > 0
  <2>1. revision' = revision \/ revision' = revision + 1
    BY Zenon DEF BeginCall, EndCall, Save, Expire, rowVars
  <2> QED
    BY <2>1 DEF Inv, ScanOK, TypeOK
<1>5. ScanOK'
  <2>1. ~Working => \A w \in Workers : worker'[w] = "out"
    BY <1>a DEF Inv, ScanOK
  <2>2. Jobs' = Jobs /\ Enabled(cfg)' = Enabled(cfg) /\ Working' = Working
    BY <1>1 DEF Jobs, InHand, Enabled, Working
  <2> QED
    BY <1>1, <1>3, <1>4, <2>1, <2>2 DEF Inv, ScanOK
<1>6. WorkersOK'
  <2>1. \A w \in Workers : worker'[w] \in {"out", "ready"} <=> worker[w] \in {"out", "ready"}
    BY <1>a
  <2> QED
    BY <1>1, <2>1 DEF Inv, WorkersOK
<1> QED
  BY <1>2, <1>5, <1>6 DEF Inv

\* A scan begins, and no worker has anything.
LEMMA ScanBeginsInv ==
  ASSUME Inv, RequestRefresh \/ Collect
  PROVE  Inv'
<1>1. CASE RequestRefresh
  <2>1. /\ scan = "none" /\ scan' = "starting" /\ scanning' = TRUE
        /\ revision \in Nat /\ revision' = revision + 1 /\ scanRev' = revision'
        /\ UNCHANGED <<saved, running, rows, calls, cfg, unsent, expired, handled, poolVars>>
    BY <1>1 DEF RequestRefresh, Inv, ScanOK, TypeOK
  <2>2. revision' \in Nat /\ revision' > 0 /\ scanRev' \in 0..revision'
    BY <2>1
  <2>3. TypeOK'
    BY <2>1, <2>2 DEF Inv, TypeOK, poolVars
  <2>4. ScanOK'
    BY <2>1, <2>2 DEF Inv, ScanOK, Working, poolVars
  <2>5. WorkersOK'
    BY <2>1 DEF Inv, WorkersOK, poolVars
  <2> QED
    BY <2>3, <2>4, <2>5 DEF Inv
<1>2. CASE Collect
  <2>1. /\ scan = "starting" /\ scan' = "sending"
        /\ cfg' = saved /\ unsent' = Enabled(saved)
        /\ rows' = Recorded(Fleet[saved] \ Enabled(saved), scanRev)
        /\ worker' = [w \in Workers |->
                        IF w <= Cardinality(Enabled(saved)) THEN "ready" ELSE "out"]
        /\ UNCHANGED <<saved, running, revision, calls, scanning, scanRev, expired, handled, job>>
    BY <1>2 DEF Collect
  <2>2. /\ saved \in Versions /\ scanRev \in Nat
        /\ Fleet[saved] \ Enabled(saved) \in SUBSET Tools /\ Enabled(saved) \subseteq Tools
    BY ToolsOfAVersion DEF Inv, TypeOK
  <2>3. rows' \in [Ports -> [tool : Tools \cup {NoTool}, rev : Nat]]
    BY <2>1, <2>2, RecordedTyped DEF Inv
  <2>4. /\ worker' \in [Workers -> {"out", "ready", "received", "probing", "displaced", "answered"}]
        /\ \A w \in Workers : worker'[w] \in {"out", "ready"}
    BY <2>1
  <2>5. TypeOK'
    BY <2>1, <2>2, <2>3, <2>4 DEF Inv, TypeOK
  <2>6. \A w \in Workers : job[w] = NoTool
    BY <2>1 DEF Inv, ScanOK, WorkersOK, Working
  <2>7. handled = {} /\ ~expired
    BY <2>1 DEF Inv, ScanOK, Working
  <2>8. ScanOK'
    <3>1. Enabled(cfg)' = Enabled(saved) /\ Jobs' = {}
      BY <2>1, <2>6 DEF Enabled, Jobs, InHand
    <3> QED
      BY <2>1, <2>7, <3>1 DEF Inv, ScanOK, Working
  <2>9. WorkersOK'
    BY <2>1, <2>4, <2>6, <2>7 DEF WorkersOK
  <2> QED
    BY <2>5, <2>8, <2>9 DEF Inv
<1> QED
  BY <1>1, <1>2

\* A tool passes from the producer to a worker.
LEMMA SendInv ==
  ASSUME Inv, NEW t \in Tools, NEW w \in Workers, Send(t, w)
  PROVE  Inv'
<1>1. /\ scan = "sending" /\ t \in unsent /\ worker[w] = "ready"
      /\ unsent' = unsent \ {t}
      /\ worker' = [worker EXCEPT ![w] = "received"]
      /\ job' = [job EXCEPT ![w] = t]
      /\ UNCHANGED <<saved, running, rowVars, calls, scanning, scan, scanRev, cfg, expired, handled>>
  BY DEF Send
<1>2. /\ worker \in [Workers -> {"out", "ready", "received", "probing", "displaced", "answered"}]
      /\ job \in [Workers -> Tools \cup {NoTool}] /\ NoTool \notin Tools
  BY FleetAssumption DEF Inv, TypeOK
<1>3. TypeOK'
  BY <1>1, <1>2 DEF Inv, TypeOK, rowVars
<1>4. job[w] = NoTool /\ t # NoTool
  BY <1>1, <1>2 DEF Inv, WorkersOK
<1>5. job'[w] = t /\ \A v \in Workers \ {w} : job'[v] = job[v]
  BY <1>1, <1>2
<1>6. Jobs' = Jobs \cup {t}
  BY <1>2, <1>4, <1>5 DEF Jobs, InHand
<1>7. ScanOK'
  BY <1>1, <1>6 DEF Inv, ScanOK, Working, rowVars, Enabled
<1>8. WorkersOK'
  <2>1. \A v \in Workers : job'[v] = NoTool <=> worker'[v] \in {"out", "ready"}
    BY <1>1, <1>2, <1>4, <1>5 DEF Inv, WorkersOK
  <2>2. \A v \in Workers : job[v] # t
    BY <1>1, <1>4 DEF Inv, WorkersOK
  <2>3. t \notin handled
    BY <1>1 DEF Inv, WorkersOK
  <2> QED
    BY <1>1, <1>5, <2>1, <2>2, <2>3 DEF Inv, WorkersOK
<1> QED
  BY <1>3, <1>7, <1>8 DEF Inv

\* The end of the sending and of the scan.
LEMMA ScanClosesInv ==
  ASSUME Inv, CloseJobs \/ EndScan
  PROVE  Inv'
<1>1. CASE CloseJobs
  <2>1. /\ scan = "sending" /\ scan' = "closed" /\ (unsent = {} \/ expired)
        /\ UNCHANGED <<saved, running, rowVars, calls, scanning, scanRev, cfg, unsent, expired,
                       handled, poolVars>>
    BY <1>1 DEF CloseJobs
  <2>2. TypeOK'
    BY <2>1 DEF Inv, TypeOK, rowVars, poolVars
  <2>3. ScanOK'
    BY <2>1 DEF Inv, ScanOK, Working, Jobs, InHand, rowVars, poolVars, Enabled
  <2>4. WorkersOK'
    BY <2>1 DEF Inv, WorkersOK, poolVars
  <2> QED
    BY <2>2, <2>3, <2>4 DEF Inv
<1>2. CASE EndScan
  <2>1. /\ \A w \in Workers : worker[w] = "out"
        /\ scanning' = FALSE /\ scan' = "none" /\ scanRev' = 0
        /\ unsent' = {} /\ expired' = FALSE /\ handled' = {}
        /\ UNCHANGED <<saved, running, rowVars, calls, cfg, poolVars>>
    BY <1>2 DEF EndScan
  <2>2. scanRev' \in 0..revision'
    BY <2>1 DEF Inv, TypeOK, rowVars
  <2>3. TypeOK'
    BY <2>1, <2>2 DEF Inv, TypeOK, rowVars, poolVars
  <2>4. ScanOK'
    BY <2>1 DEF ScanOK, Working, poolVars
  <2>5. WorkersOK'
    BY <2>1 DEF Inv, WorkersOK, poolVars
  <2> QED
    BY <2>3, <2>4, <2>5 DEF Inv
<1> QED
  BY <1>1, <1>2

\* A new process starts with no scan and new rows.
LEMMA RestartInv ==
  ASSUME Inv, Restart
  PROVE  Inv'
<1>1. /\ running' = saved /\ saved' = saved /\ cfg' = saved
      /\ rows' = NewRows(saved) /\ revision' = 0 /\ calls' = {}
      /\ scanning' = FALSE /\ scan' = "none" /\ scanRev' = 0
      /\ unsent' = {} /\ expired' = FALSE /\ handled' = {}
      /\ worker' = [w \in Workers |-> "out"] /\ job' = [w \in Workers |-> NoTool]
  BY DEF Restart
<1>2. saved \in Versions
  BY DEF Inv, TypeOK
<1>3. TypeOK'
  <2>1. rows' \in [Ports -> [tool : Tools \cup {NoTool}, rev : Nat]]
    BY <1>1, <1>2, NewRowsTyped
  <2>2. /\ worker' \in [Workers -> {"out", "ready", "received", "probing", "displaced", "answered"}]
        /\ job' \in [Workers -> Tools \cup {NoTool}]
    BY <1>1
  <2>3. revision' \in Nat /\ scanRev' \in 0..revision'
    BY <1>1
  <2>4. /\ scanning' \in BOOLEAN /\ expired' \in BOOLEAN
        /\ scan' \in {"none", "starting", "sending", "closed"}
        /\ calls' \subseteq Tools /\ unsent' \subseteq Tools /\ handled' \subseteq Tools
    BY <1>1, Zenon
  <2>5. saved' \in Versions /\ running' \in Versions /\ cfg' \in Versions
    BY <1>1, <1>2
  <2> QED
    BY <2>1, <2>2, <2>3, <2>4, <2>5, Zenon DEF TypeOK
<1>4. ScanOK'
  BY <1>1 DEF ScanOK, Working
<1>5. WorkersOK'
  BY <1>1 DEF WorkersOK
<1> QED
  BY <1>3, <1>4, <1>5 DEF Inv

\* A worker that is through with its tool, recorded or not.
LEMMA ReadyInv ==
  ASSUME Inv, NEW w \in Workers, job[w] # NoTool, ToReady(w),
         rows' \in [Ports -> [tool : Tools \cup {NoTool}, rev : Nat]],
         UNCHANGED <<saved, running, revision, calls, scanning, scan, scanRev, cfg, unsent, expired>>
  PROVE  Inv'
<1>1. /\ worker' = [worker EXCEPT ![w] = "ready"]
      /\ job' = [job EXCEPT ![w] = NoTool]
      /\ handled' = handled \cup {job[w]}
  BY DEF ToReady
<1>2. /\ worker \in [Workers -> {"out", "ready", "received", "probing", "displaced", "answered"}]
      /\ job \in [Workers -> Tools \cup {NoTool}] /\ job[w] \in Tools
  BY DEF Inv, TypeOK
<1>3. TypeOK'
  BY <1>1, <1>2 DEF Inv, TypeOK
<1>4. job'[w] = NoTool /\ worker'[w] = "ready" /\ \A v \in Workers \ {w} : job'[v] = job[v] /\ worker'[v] = worker[v]
  BY <1>1, <1>2
<1>5. \A v \in Workers \ {w} : job[v] # job[w]
  BY DEF Inv, WorkersOK
<1>6. Jobs' = Jobs \ {job[w]} /\ job[w] \in Jobs
  BY <1>4, <1>5 DEF Jobs, InHand
<1>7. Working
  BY <1>2 DEF Inv, ScanOK, WorkersOK
<1>8. ScanOK'
  BY <1>1, <1>6, <1>7 DEF Inv, ScanOK, Working, Enabled
<1>9. WorkersOK'
  BY <1>1, <1>4, <1>5 DEF Inv, WorkersOK
<1> QED
  BY <1>3, <1>8, <1>9 DEF Inv

\* A tool goes from a worker's hand to the tools that are through.
LEMMA WorkerInv ==
  ASSUME Inv, NEW w \in Workers, WorkerStep(w)
  PROVE  Inv'
<1>1. /\ worker \in [Workers -> {"out", "ready", "received", "probing", "displaced", "answered"}]
      /\ job \in [Workers -> Tools \cup {NoTool}]
  BY DEF Inv, TypeOK
<1>2. CASE Leave(w)
  <2>1. /\ worker' = [worker EXCEPT ![w] = "out"]
        /\ job' = [job EXCEPT ![w] = NoTool]
        /\ UNCHANGED <<saved, running, rowVars, calls, scanVars>>
    BY <1>2 DEF Leave
  <2>2. \/ worker[w] = "received" /\ expired
        \/ worker[w] = "ready" /\ scan = "closed"
    BY <1>2, Zenon DEF Leave
  <2>3. TypeOK'
    BY <1>1, <2>1 DEF Inv, TypeOK, rowVars, scanVars
  <2>4. job'[w] = NoTool /\ worker'[w] = "out" /\ \A v \in Workers \ {w} : job'[v] = job[v] /\ worker'[v] = worker[v]
    BY <1>1, <2>1
  <2>5. Jobs' \subseteq Jobs
    BY <2>4 DEF Jobs, InHand
  <2>6. ~expired => Jobs' = Jobs
    BY <2>2, <2>1, <2>4 DEF Jobs, InHand, Inv, WorkersOK
  <2>7. Working
    BY <2>2 DEF Inv, ScanOK
  <2>8. ScanOK'
    BY <2>1, <2>5, <2>6, <2>7 DEF Inv, ScanOK, Working, Enabled, scanVars, rowVars
  <2>9. WorkersOK'
    BY <2>1, <2>4 DEF Inv, WorkersOK, scanVars
  <2> QED
    BY <2>3, <2>8, <2>9 DEF Inv
<1>3. CASE StartProbe(w) \/ ProbeEnds(w)
  <2>1. /\ worker[w] \in {"received", "probing", "displaced"}
        /\ \E next \in {"probing", "answered"} : worker' = [worker EXCEPT ![w] = next]
        /\ UNCHANGED <<saved, running, rowVars, calls, scanVars, job>>
    BY <1>3 DEF StartProbe, ProbeEnds
  <2>2. TypeOK'
    BY <1>1, <2>1 DEF Inv, TypeOK, rowVars, scanVars
  <2>3. worker'[w] \in {"probing", "answered"} /\ \A v \in Workers \ {w} : worker'[v] = worker[v]
    BY <1>1, <2>1
  <2>4. Working
    BY <2>1 DEF Inv, ScanOK
  <2>5. ScanOK'
    BY <2>1, <2>4 DEF Inv, ScanOK, Working, Jobs, InHand, Enabled, scanVars, rowVars
  <2>6. WorkersOK'
    BY <2>1, <2>3 DEF Inv, WorkersOK, scanVars
  <2> QED
    BY <2>2, <2>5, <2>6 DEF Inv
<1>4. CASE GiveWay(w)
  <2>1. job[w] # NoTool
    BY <1>4 DEF GiveWay, Inv, WorkersOK
  <2> QED
    BY <1>4, <2>1, ReadyInv DEF GiveWay, Inv, TypeOK, rowVars
<1>5. CASE RecordProbe(w)
  <2>1. job[w] # NoTool
    BY <1>5 DEF RecordProbe, Inv, WorkersOK
  <2>2. {job[w]} \in SUBSET Tools /\ scanRev \in Nat
    BY <1>1, <2>1 DEF Inv, TypeOK
  <2>3. rows' \in [Ports -> [tool : Tools \cup {NoTool}, rev : Nat]]
    BY <1>5, <2>2, RecordedTyped DEF RecordProbe, Inv
  <2> QED
    BY <1>5, <2>1, <2>3, ReadyInv DEF RecordProbe
<1> QED
  BY <1>2, <1>3, <1>4, <1>5 DEF WorkerStep

\* One case per action.
LEMMA InvNext ==
  ASSUME Inv, [Next]_fleetVars
  PROVE  Inv'
<1>1. CASE FleetStep
  <2>1. CASE CallStep \/ Expire
    BY <2>1, CallInv DEF CallStep
  <2>2. CASE ScanStep
    BY <2>2, ScanBeginsInv, ScanClosesInv, SendInv DEF ScanStep
  <2>3. CASE \E w \in Workers : WorkerStep(w)
    BY <2>3, WorkerInv
  <2> QED
    BY <1>1, <2>1, <2>2, <2>3 DEF FleetStep
<1>2. CASE RequestRefresh \/ Restart \/ \E v \in Versions : Save(v)
  BY <1>2, ScanBeginsInv, RestartInv, CallInv
<1>3. CASE UNCHANGED fleetVars
  BY <1>3 DEF fleetVars, rowVars, scanVars, poolVars, Inv, TypeOK, ScanOK, WorkersOK, Working,
     Jobs, InHand, Enabled
<1> QED
  BY <1>1, <1>2, <1>3 DEF Next

\* The types and where every tool of a scan is, in every reachable state.
THEOREM InvHolds == Spec => []Inv
BY InitInv, InvNext, PTL DEF Spec

-----------------------------------------------------------------------------
\* The variables of a refresh keep their types, for any fleet and any number of
\* workers.
THEOREM TypeCorrect == Spec => []TypeOK
<1>1. Inv => TypeOK
  BY DEF Inv
<1> QED
  BY <1>1, InvHolds, PTL

\* No scan hands a tool out twice, and none leaves a worker at a device.
THEOREM EachToolOnce == Spec => []ProbedOnce
<1>1. ASSUME Inv
      PROVE  ProbedOnce
  <2>1. ~scanning => InHand = {}
    BY <1>1 DEF Inv, ScanOK, WorkersOK, Working, InHand
  <2> QED
    BY <1>1, <2>1 DEF Inv, WorkersOK, ProbedOnce, InHand
<1> QED
  BY <1>1, InvHolds, PTL

\* A scan that ends before its deadline has been through all its tools.
THEOREM ScansAreComplete == Spec => ScanIsComplete
<1>1. ASSUME Inv, [Next]_fleetVars, scanning, ~scanning', ~expired, revision' = revision
      PROVE  handled = Enabled(cfg)
  <2>1. revision > 0
    BY <1>1 DEF Inv, ScanOK
  <2>2. EndScan
    <3>1. ~Restart
      BY <1>1, <2>1 DEF Restart
    <3>2. ASSUME NEW w \in Workers, WorkerStep(w)
          PROVE  scanning' = scanning
      BY <3>2 DEF WorkerStep, Leave, StartProbe, GiveWay, ProbeEnds, RecordProbe, scanVars
    <3>3. ASSUME NEW t \in Tools, BeginCall(t) \/ EndCall(t) \/ \E w \in Workers : Send(t, w)
          PROVE  scanning' = scanning
      BY <3>3 DEF BeginCall, EndCall, Send, scanVars
    <3>4. Collect \/ CloseJobs \/ Expire \/ (\E v \in Versions : Save(v)) => scanning' = scanning
      BY DEF Collect, CloseJobs, Expire, Save, scanVars
    <3>5. RequestRefresh => scanning'
      BY DEF RequestRefresh
    <3>6. UNCHANGED fleetVars => scanning' = scanning
      BY DEF fleetVars, scanVars
    <3> QED
      BY <1>1, <3>1, <3>2, <3>3, <3>4, <3>5, <3>6 DEF Next, FleetStep, CallStep, ScanStep
  <2>3. scan = "closed" /\ InHand = {}
    BY <1>1, <2>2 DEF EndScan, Inv, WorkersOK, InHand
  <2>4. unsent = {} /\ Jobs = {}
    BY <1>1, <2>3 DEF Inv, ScanOK, Jobs
  <2> QED
    BY <1>1, <2>3, <2>4 DEF Inv, ScanOK, Working
<1>2. Inv /\ [Next]_fleetVars =>
        [scanning /\ ~scanning' /\ ~expired /\ revision' = revision
           => handled = Enabled(cfg)]_fleetVars
  BY <1>1
<1> QED
  BY <1>2, InvHolds, PTL DEF Spec, ScanIsComplete

\* Every step of the refresh is a step of StatusService, or one a page does not
\* see.
THEOREM FleetIsAService == Spec => ImplementsService
<1> DEFINE table == [p \in Ports |-> rows[p].rev]
<1>1. Init => Service!ServiceInit
  <2> SUFFICES ASSUME Init PROVE Service!ServiceInit
    OBVIOUS
  <2>1. saved \in Versions /\ running = saved /\ rows = NewRows(running) /\ scanning = FALSE
    BY DEF Init
  <2>2. \A p \in Ports : rows[p].rev = 0
    BY <2>1, NewRowsTyped
  <2> QED
    BY <2>1, <2>2 DEF Service!ServiceInit
<1>2. ASSUME Inv, UNCHANGED <<rows, scanning, saved, running>>
      PROVE  UNCHANGED Service!serviceVars
  BY <1>2 DEF Service!serviceVars
<1>3. ASSUME Inv, NEW tools \in SUBSET Tools, NEW rev \in Nat, rows' = Recorded(tools, rev),
             UNCHANGED <<scanning, saved, running>>
      PROVE  Service!Update
  <2>1. /\ \A p \in Ports : rows'[p].rev \in Nat
        /\ \A p \in Ports : rows'[p].rev >= rows[p].rev
    BY <1>3, RecordedTyped DEF Inv
  <2> QED
    BY <1>3, <2>1 DEF Service!Update
<1>4. ASSUME Inv, [Next]_fleetVars
      PROVE  [Service!ServiceNext]_(Service!serviceVars)
  <2>1. CASE RequestRefresh
    BY <2>1 DEF RequestRefresh, Service!ServiceNext, Service!StartScan
  <2>2. CASE Collect
    <3>1. Fleet[saved] \ Enabled(saved) \in SUBSET Tools /\ scanRev \in Nat
      BY <1>4, ToolsOfAVersion DEF Inv, TypeOK
    <3> QED
      BY <1>3, <1>4, <2>2, <3>1 DEF Collect, Service!ServiceNext
  <2>3. CASE EndScan
    BY <1>4, <2>3 DEF EndScan, Inv, ScanOK, rowVars, Service!ServiceNext, Service!FinishScan
  <2>4. ASSUME NEW v \in Versions, Save(v)
        PROVE  Service!ServiceNext
    BY <2>4 DEF Save, scanVars, rowVars, Service!ServiceNext, Service!SaveVersion
  <2>5. CASE Restart
    <3>1. running' = saved /\ saved' = saved /\ rows' = NewRows(saved) /\ scanning' = FALSE
      BY <2>5 DEF Restart
    <3>2. \A p \in Ports : rows'[p].rev = 0
      BY <1>4, <3>1, NewRowsTyped DEF Inv, TypeOK
    <3> QED
      BY <3>1, <3>2 DEF Service!ServiceNext, Service!StartAgain
  <2>6. ASSUME NEW t \in Tools, EndCall(t)
        PROVE  Service!ServiceNext
    <3>1. revision' \in Nat /\ {t} \in SUBSET Tools
      BY <1>4, <2>6 DEF EndCall, Inv, TypeOK
    <3> QED
      BY <1>3, <1>4, <2>6, <3>1 DEF EndCall, scanVars, Service!ServiceNext
  <2>7. ASSUME NEW w \in Workers, RecordProbe(w)
        PROVE  Service!ServiceNext
    <3>1. {job[w]} \in SUBSET Tools /\ scanRev \in Nat
      <4>1. job[w] # NoTool /\ job[w] \in Tools \cup {NoTool}
        BY <1>4, <2>7 DEF RecordProbe, Inv, TypeOK, WorkersOK
      <4> QED
        BY <1>4, <4>1 DEF Inv, TypeOK
    <3> QED
      BY <1>3, <1>4, <2>7, <3>1 DEF RecordProbe, Service!ServiceNext
  <2>8. ASSUME NEW w \in Workers, Leave(w) \/ StartProbe(w) \/ GiveWay(w) \/ ProbeEnds(w)
        PROVE  UNCHANGED Service!serviceVars
    BY <1>2, <1>4, <2>8 DEF Leave, StartProbe, GiveWay, ProbeEnds, scanVars, rowVars
  <2>9. ASSUME NEW t \in Tools, BeginCall(t) \/ \E w \in Workers : Send(t, w)
        PROVE  UNCHANGED Service!serviceVars
    BY <1>2, <1>4, <2>9 DEF BeginCall, Send, scanVars, rowVars
  <2>10. CASE CloseJobs \/ Expire \/ UNCHANGED fleetVars
    BY <1>2, <1>4, <2>10 DEF CloseJobs, Expire, fleetVars, scanVars, rowVars
  <2> QED
    BY <1>4, <2>1, <2>2, <2>3, <2>4, <2>5, <2>6, <2>7, <2>8, <2>9, <2>10
    DEF Next, FleetStep, CallStep, ScanStep, WorkerStep
<1> QED
  BY <1>1, <1>4, InvHolds, PTL DEF Spec, ImplementsService, Service!ServiceSpec

-----------------------------------------------------------------------------
(* What ScanEnds rests on.                                                 *)

\* While the producer may have a tool to send, the first worker is there.
FirstWorks ==
  scan = "sending" /\ ~expired /\ Enabled(cfg) # {} => worker[1] # "out"

\* A scan has a next step that waits neither for a request nor for its deadline.
ScanGoesOn ==
  scanning =>
    \/ scan = "starting"
    \/ \E w \in Workers : worker[w] \in {"received", "probing", "displaced", "answered"}
    \/ scan = "sending" /\ (unsent = {} \/ expired \/ \E w \in Workers : worker[w] = "ready")
    \/ scan = "closed" /\ \E w \in Workers : worker[w] = "ready"
    \/ scan = "closed" /\ \A w \in Workers : worker[w] = "out"

\* A worker is started if there is a tool, and leaves only after the end.
LEMMA FirstWorksNext ==
  ASSUME Inv, FirstWorks, [Next]_fleetVars
  PROVE  FirstWorks'
<1>1. 1 \in Workers
  BY FleetAssumption DEF Workers
<1>2. worker \in [Workers -> {"out", "ready", "received", "probing", "displaced", "answered"}]
  BY DEF Inv, TypeOK
<1>3. CASE Collect
  <2>1. /\ cfg' = saved /\ saved \in Versions
        /\ worker' = [w \in Workers |->
                        IF w <= Cardinality(Enabled(saved)) THEN "ready" ELSE "out"]
    BY <1>3 DEF Collect, Inv, TypeOK
  <2>2. IsFiniteSet(Enabled(saved))
    <3>1. IsFiniteSet(Fleet[saved]) /\ Enabled(saved) \subseteq Fleet[saved]
      BY <2>1, FleetAssumption DEF Versions, Enabled
    <3> QED BY <3>1, FS_Subset
  <2>3. Enabled(saved) # {} => 1 <= Cardinality(Enabled(saved))
    <3>1. /\ Cardinality(Enabled(saved)) \in Nat
          /\ Cardinality(Enabled(saved)) = 0 <=> Enabled(saved) = {}
      BY <2>2, FS_CardinalityType, FS_EmptySet
    <3> QED BY <3>1
  <2>4. Enabled(cfg)' = Enabled(saved)
    BY <2>1 DEF Enabled
  <2> QED BY <1>1, <2>1, <2>3, <2>4 DEF FirstWorks
<1>4. ASSUME scan' = scan, cfg' = cfg, expired => expired',
             worker'[1] = "out" => worker[1] = "out" \/ expired
      PROVE  FirstWorks'
  BY <1>4 DEF FirstWorks, Enabled
<1>5. CASE scan' # "sending"
  BY <1>5 DEF FirstWorks
<1>6. ASSUME NEW w \in Workers, WorkerStep(w) PROVE FirstWorks'
  <2>1. UNCHANGED <<scan, cfg, expired>>
    BY <1>6 DEF WorkerStep, Leave, StartProbe, GiveWay, ProbeEnds, RecordProbe, scanVars
  <2>2. CASE Leave(w)
    <3>1. expired \/ scan = "closed"
      BY <2>2 DEF Leave
    <3> QED BY <1>4, <1>5, <2>1, <3>1
  <2>3. ASSUME ~Leave(w) PROVE worker'[1] = "out" => worker[1] = "out"
    <3>1. \E next \in {"ready", "probing", "answered"} : worker' = [worker EXCEPT ![w] = next]
      BY <1>6, <2>3 DEF WorkerStep, StartProbe, GiveWay, ProbeEnds, RecordProbe, ToReady
    <3> QED BY <1>1, <1>2, <3>1
  <2> QED BY <1>4, <2>1, <2>2, <2>3
<1>7. ASSUME NEW t \in Tools, NEW w \in Workers, Send(t, w) PROVE FirstWorks'
  <2>1. UNCHANGED <<scan, cfg, expired>> /\ worker' = [worker EXCEPT ![w] = "received"]
    BY <1>7 DEF Send
  <2>2. worker'[1] = "out" => worker[1] = "out"
    BY <1>1, <1>2, <2>1
  <2> QED BY <1>4, <2>1, <2>2
<1>8. CASE RequestRefresh \/ CloseJobs \/ EndScan \/ Restart
  BY <1>5, <1>8 DEF RequestRefresh, CloseJobs, EndScan, Restart
<1>9. ASSUME \/ \E t \in Tools : BeginCall(t) \/ EndCall(t)
             \/ \E v \in Versions : Save(v)
             \/ Expire \/ UNCHANGED fleetVars
      PROVE  FirstWorks'
  <2>1. UNCHANGED <<scan, cfg>> /\ (expired => expired') /\ (worker'[1] = "out" => worker[1] = "out")
    <3>1. CASE Expire
      BY <3>1 DEF Expire, poolVars
    <3>2. ASSUME NEW t \in Tools, BeginCall(t)
          PROVE  UNCHANGED <<scan, cfg, expired>> /\ (worker'[1] = "out" => worker[1] = "out")
      BY <1>1, <3>2, CallOnWorkers DEF BeginCall, scanVars, Inv
    <3>5. ASSUME NEW t \in Tools, EndCall(t)
          PROVE  UNCHANGED <<scan, cfg, worker, expired>>
      BY <3>5 DEF EndCall, scanVars, poolVars
    <3>3. ASSUME NEW v \in Versions, Save(v)
          PROVE  UNCHANGED <<scan, cfg, worker, expired>>
      BY <3>3 DEF Save, scanVars, poolVars
    <3>4. ASSUME UNCHANGED fleetVars
          PROVE  UNCHANGED <<scan, cfg, worker, expired>>
      BY <3>4 DEF fleetVars, scanVars, poolVars
    <3> QED BY <1>9, <3>1, <3>2, <3>3, <3>4, <3>5
  <2> QED BY <1>4, <2>1
<1> QED
  BY <1>3, <1>6, <1>7, <1>8, <1>9 DEF Next, FleetStep, CallStep, ScanStep

\* No scan waits for a worker that has left, nor a worker for a producer that has
\* stopped: before its deadline and after it, however few the workers are, one of
\* them or the producer has a step to take.
THEOREM ScanNeverStalls == Spec => []ScanGoesOn
<1>1. Init => FirstWorks
  BY DEF Init, FirstWorks
<1>2. ASSUME Inv, FirstWorks PROVE ScanGoesOn
  <2>1. SUFFICES ASSUME scanning, scan # "starting",
                        \A w \in Workers : worker[w] \notin {"received", "probing", "displaced", "answered"}
                 PROVE  \/ /\ scan = "sending"
                           /\ unsent = {} \/ expired \/ \E w \in Workers : worker[w] = "ready"
                        \/ scan = "closed" /\ \E w \in Workers : worker[w] = "ready"
                        \/ scan = "closed" /\ \A w \in Workers : worker[w] = "out"
    BY DEF ScanGoesOn
  <2>2. \A w \in Workers : worker[w] \in {"out", "ready"}
    BY <1>2, <2>1 DEF Inv, TypeOK
  <2>3. scan \in {"sending", "closed"}
    BY <1>2, <2>1 DEF Inv, TypeOK, ScanOK
  <2>4. ASSUME scan = "sending", unsent # {}, ~expired
        PROVE  \E w \in Workers : worker[w] = "ready"
    <3>1. Enabled(cfg) # {}
      BY <1>2, <2>4 DEF Inv, ScanOK, Working
    <3>2. 1 \in Workers /\ worker[1] # "out"
      BY <1>2, <2>4, <3>1, FleetAssumption DEF FirstWorks, Workers
    <3> QED BY <2>2, <3>2
  <2> QED BY <2>2, <2>3, <2>4
<1> QED BY <1>1, <1>2, FirstWorksNext, InvHolds, PTL DEF Spec
=============================================================================

------------------------------ MODULE AdminPage ------------------------------
(***************************************************************************)
(* An open page of the Admin UI (internal/admin/web/app.js) with the       *)
(* server it talks to, which is StatusService, and the restart that a save *)
(* asks for (GatewayRun carries it out).  The script is single-threaded:   *)
(* what stands between two awaits is one step.  The server handles a       *)
(* request at some moment between its sending and its answer, or never.    *)
(***************************************************************************)
EXTENDS StatusService, FiniteSets

CONSTANTS Fresh    \* no table: nothing loaded since the process started

ASSUME PageAssumption == Revisions \subseteq Nat /\ 0 \in Revisions

VARIABLES hidden,        \* document.hidden
          flow,          \* refreshStatus: idle, loading or in its delay
          loading,       \* statusRequestInProgress
          requests,      \* the status requests under way
          shown,         \* the rows of the last answer
          saveStep,      \* saveConfig: idle, putting or posting
          notice,        \* the last notification of a save
          restartAsked   \* a POST /api/restart was accepted

pageVars == <<hidden, flow, loading, requests, shown, saveStep, notice, restartAsked>>
allVars     == <<serviceVars, pageVars>>

\* A request of the workflow or of a poll, and its answer: the snapshot and the
\* header X-Status-Refresh-In-Progress.
Request(refresh, owner) ==
  [state |-> "sent", refresh |-> refresh, owner |-> owner, rows |-> Fresh, busy |-> FALSE]

PageInit ==
  /\ ServiceInit
  /\ hidden \in BOOLEAN
  /\ flow = "idle" /\ loading = FALSE /\ requests = {} /\ shown = Fresh
  /\ saveStep = "idle" /\ notice = "none"
  /\ restartAsked = FALSE

-----------------------------------------------------------------------------
(* loadStatus and its callers *)

MayLoad == ~loading /\ ~hidden

\* The button, or the first load of the page.  While a poll is under way
\* loadStatus does nothing, and the workflow is over before it began.
ClickRefresh ==
  /\ flow = "idle" /\ MayLoad
  /\ flow' = "loading"
  /\ loading' = TRUE
  /\ requests' = requests \cup {Request(TRUE, "flow")}
  /\ UNCHANGED <<serviceVars, hidden, shown, saveStep, notice, restartAsked>>

\* Mutant of Poll: every timer sends a request of its own.
PollAnyway ==
  /\ flow = "idle" /\ ~hidden
  /\ loading' = TRUE
  /\ requests' = requests \cup {Request(FALSE, "poll")}
  /\ UNCHANGED <<serviceVars, hidden, flow, shown, saveStep, notice, restartAsked>>

\* The three-second timer, or the page becomes visible.
Poll ==
  /\ flow = "idle" /\ MayLoad
  /\ loading' = TRUE
  /\ requests' = requests \cup {Request(FALSE, "poll")}
  /\ UNCHANGED <<serviceVars, hidden, flow, shown, saveStep, notice, restartAsked>>

\* After a second the workflow looks again, and ends if it may not.
LookAgain ==
  /\ flow = "delay"
  /\ IF MayLoad
     THEN /\ flow' = "loading"
          /\ loading' = TRUE
          /\ requests' = requests \cup {Request(FALSE, "flow")}
     ELSE flow' = "idle" /\ UNCHANGED <<loading, requests>>
  /\ UNCHANGED <<serviceVars, hidden, shown, saveStep, notice, restartAsked>>

\* handleStatus.
Serve(r) ==
  /\ r.state = "sent"
  /\ IF r.refresh /\ ~scanning THEN StartScan ELSE UNCHANGED serviceVars
  /\ requests' = (requests \ {r}) \cup
       {[r EXCEPT !.state = "answered", !.rows = table, !.busy = scanning']}
  /\ UNCHANGED <<hidden, flow, loading, shown, saveStep, notice, restartAsked>>

\* What loadStatus returned lets the workflow go on or ends it.
Continue(r, busy) ==
  flow' = IF r.owner = "poll" THEN flow ELSE IF busy /\ ~hidden THEN "delay" ELSE "idle"

Render(r) ==
  /\ r.state = "answered"
  /\ shown' = r.rows
  /\ loading' = FALSE
  /\ requests' = requests \ {r}
  /\ Continue(r, r.busy)
  /\ UNCHANGED <<serviceVars, hidden, saveStep, notice, restartAsked>>

\* Mutant of LoadFails: the workflow takes a failure for a scan under way.
LoadFailsGoesOn(r) ==
  /\ shown' = Fresh
  /\ loading' = FALSE
  /\ requests' = requests \ {r}
  /\ Continue(r, TRUE)
  /\ UNCHANGED <<serviceVars, hidden, saveStep, notice, restartAsked>>

\* No answer, or one that cannot be used: the error takes the table's place.
LoadFails(r) ==
  /\ shown' = Fresh
  /\ loading' = FALSE
  /\ requests' = requests \ {r}
  /\ Continue(r, FALSE)
  /\ UNCHANGED <<serviceVars, hidden, saveStep, notice, restartAsked>>

\* The user turns to the page or away from it.
Turn ==
  /\ hidden' = ~hidden
  /\ UNCHANGED <<serviceVars, flow, loading, requests, shown, saveStep, notice, restartAsked>>

-----------------------------------------------------------------------------
(* saveConfig *)

ClickSave ==
  /\ saveStep = "idle"
  /\ saveStep' = "putting"
  /\ UNCHANGED <<serviceVars, hidden, flow, loading, requests, shown, notice, restartAsked>>

\* Mutant of Put: the restart is announced before it was asked for.
PutAnnounced(v) ==
  /\ saveStep = "putting"
  /\ SaveVersion(v)
  /\ saveStep' = "posting"
  /\ notice' = "restarting"
  /\ UNCHANGED <<hidden, flow, loading, requests, shown, restartAsked>>

\* PUT /api/config is answered: the configuration is saved, and a restart needed.
Put(v) ==
  /\ saveStep = "putting"
  /\ SaveVersion(v)
  /\ saveStep' = "posting"
  /\ notice' = "saved"
  /\ UNCHANGED <<hidden, flow, loading, requests, shown, restartAsked>>

\* POST /api/restart is answered; its timer runs.
PostRestart ==
  /\ saveStep = "posting"
  /\ restartAsked' = TRUE
  /\ saveStep' = "idle"
  /\ notice' = "restarting"
  /\ UNCHANGED <<serviceVars, hidden, flow, loading, requests, shown>>

\* One of the two is refused or gets no answer, although it may have been
\* carried out.
SaveFails ==
  /\ \/ /\ saveStep = "putting"
        /\ UNCHANGED serviceVars \/ \E v \in Versions : SaveVersion(v)
        /\ UNCHANGED restartAsked
     \/ /\ saveStep = "posting"
        /\ restartAsked' \in {restartAsked, TRUE}
        /\ UNCHANGED serviceVars
  /\ saveStep' = "idle"
  /\ notice' = "failed"
  /\ UNCHANGED <<hidden, flow, loading, requests, shown>>

-----------------------------------------------------------------------------
\* The process ends, for the restart or for another reason, and starts again.
\* Requests under way get no answer any more.
RestartGateway ==
  /\ StartAgain
  /\ restartAsked' = FALSE
  /\ requests' = {[r EXCEPT !.state = "lost", !.rows = Fresh, !.busy = FALSE] : r \in requests}
  /\ shown' = Fresh
  /\ UNCHANGED <<hidden, flow, loading, saveStep, notice>>

ServerWorks == (Update \/ FinishScan) /\ UNCHANGED pageVars

PageNext ==
  \/ ClickRefresh \/ Poll \/ LookAgain \/ Turn
  \/ \E r \in requests : Serve(r) \/ Render(r) \/ LoadFails(r)
  \/ ClickSave \/ PostRestart \/ SaveFails
  \/ \E v \in Versions : Put(v)
  \/ RestartGateway \/ ServerWorks

PageSpec == PageInit /\ [][PageNext]_allVars

\* Timers fire, a request is answered or fails, and a scan ends (ScanEnds of
\* FleetRefresh).
FairPageSpec ==
  /\ PageSpec
  /\ WF_allVars(LookAgain)
  /\ WF_allVars(\E r \in requests : Serve(r) \/ Render(r) \/ LoadFails(r))
  /\ WF_allVars(FinishScan /\ UNCHANGED pageVars)

-----------------------------------------------------------------------------
Tables == [Ports -> Revisions]

PageTypeOK ==
  /\ table \in Tables /\ shown \in Tables \cup {Fresh}
  /\ scanning \in BOOLEAN /\ hidden \in BOOLEAN /\ loading \in BOOLEAN
  /\ saved \in Versions /\ running \in Versions
  /\ flow \in {"idle", "loading", "delay"}
  /\ requests \subseteq [state : {"sent", "answered", "lost"}, refresh : BOOLEAN,
                         owner : {"flow", "poll"}, rows : Tables \cup {Fresh}, busy : BOOLEAN]
  /\ saveStep \in {"idle", "putting", "posting"}
  /\ notice \in {"none", "saved", "restarting", "failed"}
  /\ restartAsked \in BOOLEAN

\* Polls, refreshes and the looks of a workflow never put an older row in the
\* place of a newer one: answers cannot overtake each other.
TableGetsNewer ==
  [][ shown # Fresh /\ shown' # Fresh => \A p \in Ports : shown'[p] >= shown[p] ]_allVars

\* The refresh button comes back: the workflow ends whatever fails, whenever the
\* page is hidden and the gateway restarted.  (Another page that asks for one scan
\* after the other may keep it going; there is one page here.)
WorkflowEnds == flow # "idle" ~> flow = "idle"

\* "Gateway is restarting" is only said when what was saved is running or is about
\* to: the restart is not asked for before the save is in the database.
AnnouncedIsApplied == notice = "restarting" => restartAsked \/ running = saved
=============================================================================

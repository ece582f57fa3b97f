---------------------------- MODULE StatusService ----------------------------
(***************************************************************************)
(* What the Admin server promises a page: a table whose rows only get      *)
(* newer while one process runs, at most one scan at a time, and a saved   *)
(* configuration that runs from the next start.  FleetRefresh implements   *)
(* it; AdminPage is built on it.  A row is its revision.                   *)
(***************************************************************************)
EXTENDS Naturals

CONSTANTS Ports, Versions, Revisions

VARIABLES table, scanning, saved, running

serviceVars == <<table, scanning, saved, running>>

ServiceInit ==
  /\ table = [p \in Ports |-> 0]
  /\ scanning = FALSE
  /\ saved \in Versions /\ running = saved

StartScan ==
  /\ ~scanning
  /\ scanning' = TRUE
  /\ UNCHANGED <<table, saved, running>>

\* Results of the scan or of FBS requests.
Update ==
  /\ table' \in [Ports -> Revisions]
  /\ \A p \in Ports : table'[p] >= table[p]
  /\ UNCHANGED <<scanning, saved, running>>

FinishScan ==
  /\ scanning
  /\ scanning' = FALSE
  /\ UNCHANGED <<table, saved, running>>

SaveVersion(v) ==
  /\ saved' = v
  /\ UNCHANGED <<table, scanning, running>>

StartAgain ==
  /\ running' = saved
  /\ table' = [p \in Ports |-> 0]
  /\ scanning' = FALSE
  /\ UNCHANGED saved

ServiceNext ==
  \/ StartScan \/ Update \/ FinishScan \/ StartAgain
  \/ \E v \in Versions : SaveVersion(v)

ServiceSpec == ServiceInit /\ [][ServiceNext]_serviceVars
=============================================================================

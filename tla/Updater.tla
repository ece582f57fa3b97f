------------------------------ MODULE Updater ------------------------------
(***************************************************************************)
(* The hourly updater of a Linux host (services/linux/update-linux.sh.in)  *)
(* and the gateway it replaces: what the service does to the database when *)
(* it opens it (internal/configstore/store.go, loadOrMigrate in            *)
(* cmd/fbs-interlock-gateway/main.go).  The script runs under "set -e": a  *)
(* command that fails ends it there.  A copy that fails or is cut short    *)
(* leaves a torn file.  A binary is the release it was built for, which    *)
(* its checksum tells apart; two releases may have the same version.  A    *)
(* version may bring a new schema, so a database is the newest version     *)
(* that opened it and the number of saves in it.                           *)
(***************************************************************************)
EXTENDS Naturals

CONSTANTS VersionOf,   \* the version of each release
          Broken,      \* the releases whose gateway never becomes ready
          MaxSaves,    \* bound on the Admin saves
          MaxFaults,   \* bound on failing commands and power losses
          Torn, Absent

Releases  == DOMAIN VersionOf
Versions  == {VersionOf[r] : r \in Releases}
Databases == [by : Versions, saves : 0..MaxSaves]

ASSUME UpdaterAssumption ==
  /\ \A r \in Releases : VersionOf[r] \in Nat
  /\ MaxSaves \in Nat /\ MaxFaults \in Nat
  /\ Broken \subseteq Releases
  /\ Torn \notin Releases \cup Databases /\ Absent \notin Releases \cup Databases
  /\ Torn # Absent

VARIABLES latest,     \* the release the project offers
          bin, db,    \* CURRENT_BIN and DB_PATH
          active,     \* systemd keeps the service up
          pc,         \* the updater's next command
          candidate,  \* the release it verified and downloaded
          backup,     \* BACKUP, the copy of this run
          backups,    \* the intact copies of all runs
          dbBackup,   \* DB_BACKUP
          wasActive, dbWasPresent,
          outcome,    \* how the last run ended
          before,     \* history: bin and db when it stopped the service
          faults      \* failing commands and power losses so far

files  == <<bin, db, backup, backups, dbBackup>>
notes  == <<candidate, wasActive, dbWasPresent, before>>
vars == <<latest, files, active, pc, notes, outcome, faults>>

Init ==
  /\ latest \in Releases
  /\ bin \in Releases
  /\ db \in {Absent, [by |-> VersionOf[bin], saves |-> 0]}
  /\ active \in BOOLEAN
  /\ pc = "idle"
  /\ candidate = bin
  /\ backup = Absent /\ backups = {} /\ dbBackup = Absent
  /\ wasActive = FALSE /\ dbWasPresent = FALSE
  /\ outcome = "none"
  /\ before = [bin |-> bin, db |-> db]
  /\ faults = 0

-----------------------------------------------------------------------------
(* The service and the world *)

\* What the binary in place can open: a schema that is not newer than its own.
CanOpen == bin \in Releases /\ (db \in Databases => db.by <= VersionOf[bin]) /\ db # Torn

\* Open, migrate and loadOrMigrate: an absent database is made from the YAML file.
OpenDatabase ==
  /\ active
  /\ CanOpen
  /\ db' = [by |-> VersionOf[bin], saves |-> IF db = Absent THEN 0 ELSE db.saves]
  /\ db' # db
  /\ UNCHANGED <<latest, bin, backup, backups, dbBackup, active, pc, notes, outcome, faults>>

Ready ==
  active /\ CanOpen /\ bin \notin Broken /\ db \in Databases /\ db.by = VersionOf[bin]

AdminSave ==
  /\ Ready
  /\ db.saves < MaxSaves
  /\ db' = [db EXCEPT !.saves = @ + 1]
  /\ UNCHANGED <<latest, bin, backup, backups, dbBackup, active, pc, notes, outcome, faults>>

Release ==
  /\ \E r \in Releases : latest' = r
  /\ UNCHANGED <<files, active, pc, notes, outcome, faults>>

-----------------------------------------------------------------------------
(* The updater *)

\* Another checksum, and a version that is no older; the same version is accepted.
Acceptable == latest # bin /\ VersionOf[latest] >= VersionOf[bin]

\* Everything up to the version check; the binary in place verifies the
\* checksum, so it must be intact.  Where it refuses, nothing changes.
Check ==
  /\ pc = "idle"
  /\ bin \in Releases /\ Acceptable
  /\ candidate' = latest
  /\ wasActive' = active
  /\ dbWasPresent' = FALSE
  /\ pc' = "stop"
  /\ outcome' = "none"
  /\ UNCHANGED <<latest, files, active, before, faults>>

StopService ==
  /\ pc = "stop"
  /\ active' = FALSE
  /\ before' = [bin |-> bin, db |-> db]
  /\ pc' = "backUpBinary"
  /\ UNCHANGED <<latest, files, candidate, wasActive, dbWasPresent, outcome, faults>>

\* Mutant: the copy is a link, and changes with the file.
BackUpBinaryLink ==
  /\ pc = "backUpBinary"
  /\ backup' = bin
  /\ pc' = "clearBackup"
  /\ UNCHANGED <<latest, bin, db, backups, dbBackup, active, notes, outcome, faults>>

BackUpBinary ==
  /\ pc = "backUpBinary"
  /\ backup' = bin
  /\ backups' = backups \cup {bin}
  /\ pc' = "clearBackup"
  /\ UNCHANGED <<latest, bin, db, dbBackup, active, notes, outcome, faults>>

ClearBackup ==
  /\ pc = "clearBackup"
  /\ dbBackup' = Absent
  /\ pc' = "backUpDatabase"
  /\ UNCHANGED <<latest, bin, db, backup, backups, active, notes, outcome, faults>>

\* Mutant: the database is moved, not copied.
BackUpDatabaseMoved ==
  /\ pc = "backUpDatabase"
  /\ IF db = Absent
     THEN UNCHANGED <<db, dbBackup, dbWasPresent>>
     ELSE dbBackup' = db /\ dbWasPresent' = TRUE /\ db' = Absent
  /\ pc' = "install"
  /\ UNCHANGED <<latest, bin, backup, backups, active, candidate, wasActive, before,
                 outcome, faults>>

BackUpDatabase ==
  /\ pc = "backUpDatabase"
  /\ IF db = Absent
     THEN UNCHANGED <<dbBackup, dbWasPresent>>
     ELSE dbBackup' = db /\ dbWasPresent' = TRUE
  /\ pc' = "install"
  /\ UNCHANGED <<latest, bin, db, backup, backups, active, candidate, wasActive, before,
                 outcome, faults>>

\* install may also write a file that is not what it read.
Install ==
  /\ pc = "install"
  /\ bin' \in {candidate, Torn}
  /\ pc' = "verify"
  /\ UNCHANGED <<latest, db, backup, backups, dbBackup, active, notes, outcome, faults>>

VerifyInstalled ==
  /\ pc = "verify"
  /\ pc' = IF bin # candidate THEN "rollBack" ELSE IF wasActive THEN "start" ELSE "finish"
  /\ UNCHANGED <<latest, files, active, notes, outcome, faults>>

\* systemctl start succeeds or fails; the Admin API answers in time only from a
\* gateway that is ready, and not always.
StartService ==
  /\ pc = "start"
  /\ active' = TRUE
  /\ pc' \in {"wait", "rollBack"}
  /\ UNCHANGED <<latest, files, notes, outcome, faults>>

WaitForAdmin ==
  /\ pc = "wait"
  /\ pc' \in IF Ready THEN {"finish", "rollBack"} ELSE {"rollBack"}
  /\ UNCHANGED <<latest, files, active, notes, outcome, faults>>

\* The database is not missing or empty; its backup is removed.
Finish ==
  /\ pc = "finish"
  /\ IF wasActive /\ db = Absent
     THEN pc' = "rollBack" /\ UNCHANGED <<dbBackup, outcome>>
     ELSE pc' = "idle" /\ dbBackup' = Absent /\ outcome' = "updated"
  /\ UNCHANGED <<latest, bin, db, backup, backups, active, notes, faults>>

\* rollback_update: stop, the binary, the database, start.  The stop is taken
\* to end the service.
RollBackStop ==
  /\ pc = "rollBack"
  /\ active' = FALSE
  /\ pc' = "restoreBinary"
  /\ UNCHANGED <<latest, files, notes, outcome, faults>>

RestoreBinary ==
  /\ pc = "restoreBinary"
  /\ bin' = backup
  /\ pc' = "restoreDatabase"
  /\ UNCHANGED <<latest, db, backup, backups, dbBackup, active, notes, outcome, faults>>

\* Mutant: only the binary is restored.
RestoreDatabaseNot ==
  /\ pc = "restoreDatabase"
  /\ pc' = "restart"
  /\ UNCHANGED <<latest, files, active, notes, outcome, faults>>

RestoreDatabase ==
  /\ pc = "restoreDatabase"
  /\ db' = IF dbWasPresent THEN dbBackup ELSE Absent
  /\ pc' = "restart"
  /\ UNCHANGED <<latest, bin, backup, backups, dbBackup, active, notes, outcome, faults>>

\* A start that fails is ignored.
Restart ==
  /\ pc = "restart"
  /\ active' \in IF wasActive THEN BOOLEAN ELSE {FALSE}
  /\ pc' = "idle"
  /\ outcome' = "rolledBack"
  /\ UNCHANGED <<latest, files, notes, faults>>

-----------------------------------------------------------------------------
(* Failing commands and power losses *)

\* The copy that is under way leaves a torn file.
CutShort ==
  /\ bin' = IF pc \in {"install", "restoreBinary"} THEN Torn ELSE bin
  /\ db' = IF pc = "restoreDatabase" /\ dbWasPresent THEN Torn ELSE db
  /\ dbBackup' = IF pc = "backUpDatabase" /\ db # Absent THEN Torn ELSE dbBackup
  /\ UNCHANGED <<backup, backups>>

\* set -e: the script ends where it is.
CommandFails ==
  /\ pc \in {"stop", "backUpBinary", "clearBackup", "backUpDatabase", "install", "verify",
             "finish", "restoreBinary", "restoreDatabase"}
  /\ faults < MaxFaults
  /\ CutShort
  /\ faults' = faults + 1
  /\ pc' = "idle"
  /\ outcome' = "aborted"
  /\ UNCHANGED <<latest, active, notes>>

\* The host comes up again and systemd starts the enabled service.  A copy that was
\* complete is taken to be on the disk, though the script never syncs one; the
\* copy under way is torn, or there as a whole or not at all.
PowerLoss ==
  /\ faults < MaxFaults
  /\ CutShort \/ UNCHANGED files
  /\ faults' = faults + 1
  /\ pc' = "idle"
  /\ active' = TRUE
  /\ outcome' = IF pc = "idle" THEN outcome ELSE "crashed"
  /\ UNCHANGED <<latest, notes>>

-----------------------------------------------------------------------------
UpdaterStep ==
  \/ StopService \/ BackUpBinary \/ ClearBackup \/ BackUpDatabase \/ Install
  \/ VerifyInstalled \/ StartService \/ WaitForAdmin \/ Finish
  \/ RollBackStop \/ RestoreBinary \/ RestoreDatabase \/ Restart

Next ==
  \/ OpenDatabase \/ AdminSave \/ Release
  \/ Check \/ UpdaterStep
  \/ CommandFails \/ PowerLoss

Spec == Init /\ [][Next]_vars

-----------------------------------------------------------------------------
TypeOK ==
  /\ latest \in Releases /\ candidate \in Releases
  /\ bin \in Releases \cup {Torn}
  /\ db \in Databases \cup {Torn, Absent}
  /\ active \in BOOLEAN /\ wasActive \in BOOLEAN /\ dbWasPresent \in BOOLEAN
  /\ pc \in {"idle", "stop", "backUpBinary", "clearBackup", "backUpDatabase", "install",
             "verify", "start", "wait", "finish", "rollBack", "restoreBinary",
             "restoreDatabase", "restart"}
  /\ backup \in Releases \cup {Torn, Absent} /\ backups \subseteq Releases
  /\ dbBackup \in Databases \cup {Torn, Absent}
  /\ outcome \in {"none", "updated", "rolledBack", "aborted", "crashed"}
  /\ before \in [bin : Releases, db : Databases \cup {Torn, Absent}]
  /\ faults \in 0..MaxFaults

\* A run that ends in its rollback, for whatever reason, gives back the binary
\* and the database, schema and saves, of the moment it stopped the service.
RollbackRestores ==
  [][outcome' = "rolledBack" /\ outcome # "rolledBack" =>
       bin' = before.bin /\ db' = before.db]_vars

\* Wherever a command fails or the power goes, in this run, the binary that was
\* in place is in place or in an intact copy, ...
BinaryIsRecoverable ==
  bin \in Releases \/ before.bin \in backups

\* ... and so is a database that was intact when the run stopped the service:
\* no step destroys one copy before the other is complete, and no later
\* database has fewer saves.  (It is about one run: the next one removes the
\* backup a failed restore has left and copies the torn database over it.)
DatabaseIsRecoverable ==
  before.db \in Databases =>
    \/ dbBackup = before.db
    \/ db \in Databases /\ db.saves >= before.db.saves

\* The binary goes back to an older version only by a rollback, whatever the
\* project offers in the meantime.
NoDowngrade ==
  [][ (bin \in Releases /\ bin' \in Releases /\ VersionOf[bin'] < VersionOf[bin])
        => bin' = before.bin ]_vars

\* As long as no command fails and the power stays on, a gateway that is up can
\* open its database: no trial, timeout or rollback leaves the old binary with
\* the schema of the new one.
ServiceCanOpen == faults = 0 /\ active => CanOpen

\* docs, Linux Install Instructions 880: the updater restores "both the previous
\* executable and previous SQLite database when replacement, startup, Admin
\* health validation, or database validation fails".  The script does not keep it
\* when the replacement itself fails (README, section 5).
FailedReplacementIsRestored ==
  [][pc = "install" /\ outcome' = "aborted" => bin' = before.bin /\ db' = before.db]_vars
=============================================================================

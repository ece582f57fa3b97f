--------------------------- MODULE Updater_proofs ---------------------------
(***************************************************************************)
(* Proofs about Updater for every number of releases, saves and faults and *)
(* every set of broken releases.                                           *)
(***************************************************************************)
EXTENDS Updater, TLAPS

\* The commands of a run before it replaces the binary, ...
Preparing == {"backUpBinary", "clearBackup", "backUpDatabase", "install"}

\* ... and from there to the end of its rollback.
Trying == {"verify", "start", "wait", "finish", "rollBack", "restoreBinary",
           "restoreDatabase"}

\* The service is down while the script works on its files.
Down == pc \in Preparing \cup {"verify", "restoreBinary", "restoreDatabase", "restart"} => ~active

\* Until then both files are as they were found, and the candidate is no older.
Untouched ==
  /\ pc \in Preparing => bin = before.bin /\ db = before.db
  /\ pc \in Preparing \cup {"stop"} => bin \in Releases /\ VersionOf[candidate] >= VersionOf[bin]

\* The copy of the binary exists as long as it may be needed.
BinaryCopied ==
  pc \in {"clearBackup", "backUpDatabase", "install", "restart"} \cup Trying =>
    backup = before.bin /\ before.bin \in backups

\* So does the copy of the database.
DatabaseCopied ==
  pc \in {"install"} \cup Trying =>
    IF dbWasPresent THEN dbBackup = before.db /\ before.db # Absent ELSE before.db = Absent

NotCopied == pc \in {"stop", "backUpBinary", "clearBackup", "backUpDatabase"} => ~dbWasPresent

\* The trial keeps the saves of the database it found.
SavesKept ==
  pc \in Trying /\ before.db \in Databases =>
    db \in Databases /\ db.saves >= before.db.saves

\* A finished restore.
Restored ==
  /\ pc = "restoreDatabase" => bin = before.bin
  /\ pc = "restart" => bin = before.bin /\ db = before.db

\* Without faults the binary in place can open the database, except while the
\* service is down for a rollback.
Sound ==
  faults = 0 =>
    /\ db # Torn /\ before.db # Torn
    /\ before.db \in Databases => before.db.by <= VersionOf[before.bin]
    /\ \/ active
       \/ /\ pc \notin {"rollBack", "restoreBinary", "restoreDatabase"}
          /\ pc = "verify" => bin = candidate
       => CanOpen

UpdaterInv ==
  /\ TypeOK
  /\ Down /\ Untouched
  /\ BinaryCopied /\ NotCopied /\ DatabaseCopied
  /\ SavesKept /\ Restored
  /\ BinaryIsRecoverable /\ DatabaseIsRecoverable
  /\ Sound
-----------------------------------------------------------------------------
\* What a database and a release are.
LEMMA DatabaseFields ==
  /\ \A d \in Databases : d.by \in Versions /\ d.saves \in 0..MaxSaves
  /\ \A v \in Versions : v \in Nat
  /\ \A r \in Releases : VersionOf[r] \in Versions
  /\ Torn \notin Databases /\ Absent \notin Databases
  /\ Torn \notin Releases /\ Absent \notin Releases
  BY UpdaterAssumption DEF Databases, Versions

Flags == active \in BOOLEAN /\ wasActive \in BOOLEAN /\ dbWasPresent \in BOOLEAN

Files ==
  /\ bin \in Releases \cup {Torn}
  /\ db \in Databases \cup {Torn, Absent}
  /\ backup \in Releases \cup {Torn, Absent} /\ backups \subseteq Releases
  /\ dbBackup \in Databases \cup {Torn, Absent}
  /\ before \in [bin : Releases, db : Databases \cup {Torn, Absent}]

Control ==
  /\ latest \in Releases /\ candidate \in Releases
  /\ pc \in {"idle", "stop", "backUpBinary", "clearBackup", "backUpDatabase", "install",
             "verify", "start", "wait", "finish", "rollBack", "restoreBinary",
             "restoreDatabase", "restart"}
  /\ outcome \in {"none", "updated", "rolledBack", "aborted", "crashed"}
  /\ faults \in 0..MaxFaults

\* The types in three parts.
LEMMA TypeParts == TypeOK <=> Flags /\ Files /\ Control
  BY DEF TypeOK, Flags, Files, Control

\* Before the first run.
LEMMA UpdaterInvInit == Init => UpdaterInv
  <1> SUFFICES ASSUME Init PROVE UpdaterInv
    OBVIOUS
  <1> USE UpdaterAssumption, DatabaseFields
  <1>1. Flags
    BY Zenon DEF Init, Flags
  <1>2. Files /\ Control
    BY DEF Init, Files, Control, Databases
  <1>3. Down /\ Untouched /\ BinaryCopied /\ NotCopied /\ DatabaseCopied /\ SavesKept /\ Restored
    BY DEF Init, Down, Untouched, BinaryCopied, NotCopied, DatabaseCopied, SavesKept, Restored,
       Preparing, Trying
  <1>4. BinaryIsRecoverable /\ DatabaseIsRecoverable
    BY DEF Init, BinaryIsRecoverable, DatabaseIsRecoverable, Databases
  <1>5. Sound
    BY DEF Init, Sound, CanOpen, Databases
  <1>6. QED
    BY <1>1, <1>2, <1>3, <1>4, <1>5, TypeParts DEF UpdaterInv

\* The first part of the types.
LEMMA FlagsStep == Flags /\ [Next]_vars => Flags'
  <1> SUFFICES ASSUME Flags, [Next]_vars PROVE Flags'
    OBVIOUS
  <1> USE DEF Flags, files, notes
  <1>1. CASE OpenDatabase \/ AdminSave \/ Release
    BY <1>1, Zenon DEF OpenDatabase, AdminSave, Release
  <1>2. CASE Check \/ CommandFails \/ PowerLoss
    BY <1>2, Zenon DEF Check, CommandFails, PowerLoss
  <1>3. CASE StopService \/ BackUpBinary \/ ClearBackup \/ Install
    BY <1>3, Zenon DEF StopService, BackUpBinary, ClearBackup, Install
  <1>4. CASE BackUpDatabase
    BY <1>4, Zenon DEF BackUpDatabase
  <1>5. CASE VerifyInstalled \/ StartService \/ WaitForAdmin \/ Finish
    BY <1>5, Zenon DEF VerifyInstalled, StartService, WaitForAdmin, Finish
  <1>6. CASE RollBackStop \/ RestoreBinary \/ RestoreDatabase
    BY <1>6, Zenon DEF RollBackStop, RestoreBinary, RestoreDatabase
  <1>7. CASE Restart
    <2>1. active' \in BOOLEAN
      <3>1. CASE wasActive
        BY <1>7, <3>1, Zenon DEF Restart
      <3>2. CASE ~wasActive
        BY <1>7, <3>2, Zenon DEF Restart
      <3>3. QED
        BY <3>1, <3>2
    <2>2. QED
      BY <1>7, <2>1, Zenon DEF Restart
  <1>8. CASE UNCHANGED vars
    BY <1>8, Zenon DEF vars
  <1>9. QED
    BY <1>1, <1>2, <1>3, <1>4, <1>5, <1>6, <1>7, <1>8, Zenon DEF Next, UpdaterStep

\* The second part of the types.
LEMMA FilesStep == UpdaterInv /\ [Next]_vars => Files'
  <1> SUFFICES ASSUME UpdaterInv, [Next]_vars PROVE Files'
    OBVIOUS
  <1>0. Files /\ Control /\ Untouched
    BY TypeParts DEF UpdaterInv
  <1> USE <1>0, UpdaterAssumption, DatabaseFields DEF Files, files, notes
  <1>1. CASE OpenDatabase
    BY <1>1 DEF OpenDatabase, CanOpen, Databases
  <1>2. CASE AdminSave
    BY <1>2 DEF AdminSave, Ready, CanOpen, Databases
  <1>3. CASE Release \/ Check \/ VerifyInstalled \/ StartService \/ WaitForAdmin
             \/ RollBackStop \/ Restart
    BY <1>3 DEF Release, Check, VerifyInstalled, StartService, WaitForAdmin, RollBackStop, Restart
  <1>4. CASE StopService \/ BackUpBinary \/ ClearBackup \/ BackUpDatabase
    BY <1>4 DEF StopService, BackUpBinary, ClearBackup, BackUpDatabase, Untouched, Preparing
  <1>5. CASE Install \/ Finish \/ RestoreBinary \/ RestoreDatabase
    BY <1>5 DEF Install, Finish, RestoreBinary, RestoreDatabase, Control, BinaryCopied,
       DatabaseCopied, Trying, UpdaterInv
  <1>6. CASE CommandFails \/ PowerLoss
    BY <1>6 DEF CommandFails, PowerLoss, CutShort
  <1>7. CASE UNCHANGED vars
    BY <1>7 DEF vars
  <1>8. QED
    BY <1>1, <1>2, <1>3, <1>4, <1>5, <1>6, <1>7 DEF Next, UpdaterStep

\* The third part of the types.
LEMMA ControlStep == UpdaterInv /\ [Next]_vars => Control'
  <1> SUFFICES ASSUME UpdaterInv, [Next]_vars PROVE Control'
    OBVIOUS
  <1>0. Control
    BY TypeParts DEF UpdaterInv
  <1> USE <1>0, UpdaterAssumption DEF Control, files, notes
  <1>1. CASE OpenDatabase \/ AdminSave \/ Release \/ Check
    BY <1>1 DEF OpenDatabase, AdminSave, Release, Check
  <1>2. CASE StopService \/ BackUpBinary \/ ClearBackup \/ BackUpDatabase \/ Install
    BY <1>2 DEF StopService, BackUpBinary, ClearBackup, BackUpDatabase, Install
  <1>3. CASE VerifyInstalled \/ StartService \/ WaitForAdmin \/ Finish
    BY <1>3 DEF VerifyInstalled, StartService, WaitForAdmin, Finish
  <1>4. CASE RollBackStop \/ RestoreBinary \/ RestoreDatabase \/ Restart
    BY <1>4 DEF RollBackStop, RestoreBinary, RestoreDatabase, Restart
  <1>5. CASE CommandFails \/ PowerLoss
    BY <1>5 DEF CommandFails, PowerLoss
  <1>6. CASE UNCHANGED vars
    BY <1>6 DEF vars
  <1>7. QED
    BY <1>1, <1>2, <1>3, <1>4, <1>5, <1>6 DEF Next, UpdaterStep

\* The position in the script says which copies there are.
LEMMA ProgressStep ==
  UpdaterInv /\ [Next]_vars =>
    (Down /\ Untouched /\ BinaryCopied /\ NotCopied /\ DatabaseCopied /\ Restored)'
  <1> SUFFICES ASSUME UpdaterInv, [Next]_vars
               PROVE  (Down /\ Untouched /\ BinaryCopied /\ NotCopied /\ DatabaseCopied
                         /\ Restored)'
    OBVIOUS
  <1>0. Files /\ Control
    BY TypeParts DEF UpdaterInv
  <1> USE <1>0, UpdaterAssumption, DatabaseFields
      DEF Down, Untouched, BinaryCopied, NotCopied, DatabaseCopied, Restored, UpdaterInv,
          Preparing, Trying, files, notes
  <1>1. CASE OpenDatabase
    BY <1>1 DEF OpenDatabase, Control
  <1>2. CASE AdminSave
    BY <1>2 DEF AdminSave, Ready, Control
  <1>3. CASE Release \/ UNCHANGED vars
    BY <1>3 DEF Release, vars
  <1>4. CASE Check
    BY <1>4 DEF Check, Acceptable
  <1>5. CASE StopService
    BY <1>5 DEF StopService
  <1>6. CASE BackUpBinary \/ ClearBackup
    BY <1>6 DEF BackUpBinary, ClearBackup
  <1>7. CASE BackUpDatabase
    BY <1>7 DEF BackUpDatabase
  <1>8. CASE Install
    BY <1>8 DEF Install
  <1>9. CASE VerifyInstalled \/ StartService \/ WaitForAdmin
    BY <1>9 DEF VerifyInstalled, StartService, WaitForAdmin
  <1>10. CASE Finish
    BY <1>10 DEF Finish
  <1>11. CASE RollBackStop
    BY <1>11 DEF RollBackStop
  <1>12. CASE RestoreBinary
    BY <1>12 DEF RestoreBinary
  <1>13. CASE RestoreDatabase
    BY <1>13 DEF RestoreDatabase
  <1>14. CASE Restart \/ CommandFails \/ PowerLoss
    BY <1>14 DEF Restart, CommandFails, PowerLoss
  <1>15. QED
    BY <1>1, <1>2, <1>3, <1>4, <1>5, <1>6, <1>7, <1>8, <1>9, <1>10, <1>11, <1>12, <1>13, <1>14
    DEF Next, UpdaterStep

\* Whatever fails where, the binary and the database or their copies are intact.
LEMMA RecoverableStep ==
  UpdaterInv /\ [Next]_vars => (SavesKept /\ BinaryIsRecoverable /\ DatabaseIsRecoverable)'
  <1> SUFFICES ASSUME UpdaterInv, [Next]_vars
               PROVE  (SavesKept /\ BinaryIsRecoverable /\ DatabaseIsRecoverable)'
    OBVIOUS
  <1>0. Files /\ Control
    BY TypeParts DEF UpdaterInv
  <1> USE <1>0, UpdaterAssumption, DatabaseFields
      DEF SavesKept, BinaryIsRecoverable, DatabaseIsRecoverable, UpdaterInv, Trying, files, notes
  <1>1. CASE OpenDatabase
    BY <1>1 DEF OpenDatabase, CanOpen, Files, Databases
  <1>2. CASE AdminSave
    BY <1>2 DEF AdminSave, Ready, CanOpen, Files, Databases
  <1>3. CASE Release \/ UNCHANGED vars \/ Check
    BY <1>3 DEF Release, vars, Check
  <1>4. CASE StopService
    BY <1>4 DEF StopService, Untouched
  <1>5. CASE BackUpBinary \/ ClearBackup \/ BackUpDatabase \/ Install
    BY <1>5 DEF BackUpBinary, ClearBackup, BackUpDatabase, Install, Untouched, BinaryCopied,
       Preparing
  <1>6. CASE VerifyInstalled \/ StartService \/ WaitForAdmin \/ Finish
    BY <1>6 DEF VerifyInstalled, StartService, WaitForAdmin, Finish
  <1>7. CASE RollBackStop \/ RestoreBinary \/ RestoreDatabase \/ Restart
    BY <1>7 DEF RollBackStop, RestoreBinary, RestoreDatabase, Restart, BinaryCopied, DatabaseCopied
  <1>8. CASE CommandFails \/ PowerLoss
    BY <1>8 DEF CommandFails, PowerLoss, CutShort, Untouched, Preparing, BinaryCopied,
       DatabaseCopied
  <1>9. QED
    BY <1>1, <1>2, <1>3, <1>4, <1>5, <1>6, <1>7, <1>8 DEF Next, UpdaterStep

\* The schema follows the binary while nothing fails.
LEMMA SoundStep == UpdaterInv /\ [Next]_vars => Sound'
  <1> SUFFICES ASSUME UpdaterInv, [Next]_vars PROVE Sound'
    OBVIOUS
  <1>0. Files /\ Control
    BY TypeParts DEF UpdaterInv
  <1> USE <1>0, UpdaterAssumption, DatabaseFields DEF Sound, CanOpen, UpdaterInv, files, notes
  <1>1. CASE OpenDatabase
    BY <1>1 DEF OpenDatabase, Files, Databases
  <1>2. CASE AdminSave
    BY <1>2 DEF AdminSave, Ready, Files, Databases
  <1>3. CASE Release \/ UNCHANGED vars \/ Check
    BY <1>3 DEF Release, vars, Check
  <1>4. CASE StopService
    BY <1>4 DEF StopService
  <1>5. CASE BackUpBinary \/ ClearBackup \/ BackUpDatabase
    BY <1>5 DEF BackUpBinary, ClearBackup, BackUpDatabase
  <1>6. CASE Install
    <2>1. ~active' /\ faults' = faults /\ db' = db /\ before' = before /\ bin \in Releases
          /\ candidate \in Releases /\ VersionOf[candidate] >= VersionOf[bin]
          /\ candidate' = candidate
      BY <1>6 DEF Install, Untouched, Preparing, Down, Control
    <2>2. faults = 0 /\ db \in Databases => db.by <= VersionOf[candidate]
      <3>1. faults = 0 /\ db \in Databases => db.by <= VersionOf[bin]
        BY <1>6, <2>1 DEF Install
      <3>2. VersionOf[bin] \in Nat /\ VersionOf[candidate] \in Nat
        BY <2>1
      <3>3. db \in Databases => db.by \in Nat
        OBVIOUS
      <3>4. QED
        BY <2>1, <3>1, <3>2, <3>3
    <2>3. pc = "install" /\ pc' = "verify"
      BY <1>6 DEF Install
    <2>4. faults' = 0 => db # Torn /\ before.db # Torn
                         /\ (before.db \in Databases => before.db.by <= VersionOf[before.bin])
      BY <2>1
    <2>5. faults' = 0 /\ bin' = candidate' => CanOpen'
      BY <2>1, <2>2, <2>4
    <2>6. QED
      BY <2>1, <2>3, <2>4, <2>5
  <1>7. CASE VerifyInstalled \/ StartService \/ WaitForAdmin \/ Finish
    <2>1. CASE VerifyInstalled
      <3>1. ~active' /\ ~active
        BY <2>1 DEF VerifyInstalled, Down
      <3>2. pc = "verify" /\ (bin # candidate => pc' = "rollBack")
        BY <2>1 DEF VerifyInstalled
      <3>3. UNCHANGED <<faults, bin, db, before, candidate>>
        BY <2>1 DEF VerifyInstalled
      <3>4. QED
        BY <3>1, <3>2, <3>3
    <2>2. CASE StartService
      BY <2>2 DEF StartService
    <2>3. CASE WaitForAdmin
      BY <2>3 DEF WaitForAdmin
    <2>4. CASE Finish
      BY <2>4 DEF Finish
    <2>5. QED
      BY <1>7, <2>1, <2>2, <2>3, <2>4
  <1>8. CASE RollBackStop \/ RestoreBinary \/ RestoreDatabase
    BY <1>8 DEF RollBackStop, RestoreBinary, RestoreDatabase, Down, Restored, DatabaseCopied,
       Trying, Files
  <1>9. CASE Restart
    BY <1>9 DEF Restart
  <1>10. CASE CommandFails \/ PowerLoss
    BY <1>10 DEF CommandFails, PowerLoss, Control
  <1>11. QED
    BY <1>1, <1>2, <1>3, <1>4, <1>5, <1>6, <1>7, <1>8, <1>9, <1>10 DEF Next, UpdaterStep

\* The invariant, in every reachable state.
LEMMA UpdaterInvHolds == Spec => []UpdaterInv
  <1>1. UpdaterInv /\ [Next]_vars => UpdaterInv'
    BY TypeParts, FlagsStep, FilesStep, ControlStep, ProgressStep, RecoverableStep, SoundStep
    DEF UpdaterInv, TypeOK, Flags, Files, Control
  <1>2. QED
    BY UpdaterInvInit, <1>1, PTL DEF Spec

-----------------------------------------------------------------------------
\* The variables keep their types for every number of releases and faults.
THEOREM TypeCorrect == Spec => []TypeOK
  BY UpdaterInvHolds, PTL DEF UpdaterInv

\* Wherever a command fails or the power goes, the binary that was in place is
\* in place or in an intact copy.
THEOREM BinaryRecoverable == Spec => []BinaryIsRecoverable
  BY UpdaterInvHolds, PTL DEF UpdaterInv

\* So is the database that was in place, without the loss of a save.
THEOREM DatabaseRecoverable == Spec => []DatabaseIsRecoverable
  BY UpdaterInvHolds, PTL DEF UpdaterInv

\* Without faults the binary in place can open the database in place.
THEOREM OpensItsDatabase == Spec => []ServiceCanOpen
  <1>1. UpdaterInv => ServiceCanOpen
    BY DEF UpdaterInv, Sound, ServiceCanOpen
  <1>2. QED
    BY <1>1, UpdaterInvHolds, PTL

\* A completed rollback gives back both files: only Restart completes one, and
\* the restored files are in place by then.
THEOREM RollbackIsComplete == Spec => RollbackRestores
  <1>1. ASSUME UpdaterInv, [Next]_vars
        PROVE  [outcome' = "rolledBack" /\ outcome # "rolledBack" =>
                  bin' = before.bin /\ db' = before.db]_vars
    <2> SUFFICES ASSUME outcome' = "rolledBack", outcome # "rolledBack"
                 PROVE  bin' = before.bin /\ db' = before.db
      OBVIOUS
    <2>1. Restart
      BY <1>1 DEF Next, UpdaterStep, OpenDatabase, AdminSave, Release, Check, StopService,
         BackUpBinary, ClearBackup, BackUpDatabase, Install, VerifyInstalled, StartService,
         WaitForAdmin, Finish, RollBackStop, RestoreBinary, RestoreDatabase, CommandFails,
         PowerLoss, vars, notes
    <2>2. QED
      BY <1>1, <2>1 DEF Restart, UpdaterInv, Restored, files
  <1>2. QED
    BY <1>1, UpdaterInvHolds, PTL DEF Spec, RollbackRestores

\* Only a rollback brings an older version back: the candidate is no older than
\* the binary it replaces, from the version check to the replacement.
THEOREM NoOlderRelease == Spec => NoDowngrade
  <1>1. ASSUME UpdaterInv, [Next]_vars
        PROVE  [(bin \in Releases /\ bin' \in Releases /\ VersionOf[bin'] < VersionOf[bin])
                  => bin' = before.bin]_vars
    <2> SUFFICES ASSUME bin \in Releases, bin' \in Releases, VersionOf[bin'] < VersionOf[bin]
                 PROVE  bin' = before.bin
      OBVIOUS
    <2>1. \A r \in Releases : VersionOf[r] \in Nat
      BY DatabaseFields
    <2>2. Torn \notin Releases
      BY DatabaseFields
    <2>3. bin' # bin
      BY <2>1
    <2>4. Install \/ RestoreBinary
      BY <1>1, <2>2, <2>3 DEF Next, UpdaterStep, OpenDatabase, AdminSave, Release, Check,
         StopService, BackUpBinary, ClearBackup, BackUpDatabase, VerifyInstalled, StartService,
         WaitForAdmin, Finish, RollBackStop, RestoreDatabase, Restart, CommandFails, PowerLoss,
         CutShort, vars, notes, files
    <2>5. CASE Install
      <3>1. candidate \in Releases /\ VersionOf[candidate] >= VersionOf[bin]
        BY <1>1, <2>5 DEF Install, UpdaterInv, Untouched, Preparing, TypeOK
      <3>2. bin' = candidate
        BY <2>2, <2>5 DEF Install
      <3>3. QED
        BY <2>1, <3>1, <3>2
    <2>6. CASE RestoreBinary
      BY <1>1, <2>6 DEF RestoreBinary, UpdaterInv, BinaryCopied, Trying
    <2>7. QED
      BY <2>4, <2>5, <2>6
  <1>2. QED
    BY <1>1, UpdaterInvHolds, PTL DEF Spec, NoDowngrade
=============================================================================

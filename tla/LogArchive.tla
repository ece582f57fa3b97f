----------------------------- MODULE LogArchive -----------------------------
(***************************************************************************)
(* The files of the log archive (internal/applog/store.go): the worker of  *)
(* AsyncStore writes records and rotates and prunes the files, exports of  *)
(* the Admin server (internal/admin/server.go) read them, Close ends it,   *)
(* and the process may stop anywhere and open the archive again.           *)
(*                                                                         *)
(* The bytes written are numbered 1, 2, ... over all runs of the process.  *)
(* A file holds the bytes lo+1 .. hi; its name is its rank in the order of *)
(* creation, which is the order of the listing: names begin with the time  *)
(* and the clock does not go back.  A tick of the clock is a day.          *)
(***************************************************************************)
EXTENDS Integers, Sequences, FiniteSets, FiniteSetsExt

CONSTANTS Exports,            \* handlers of POST /api/logs/export
          Lengths,            \* lengths of records
          MaxAge, PreferredMinAge, MaxFileBytes, MaxTotalBytes, MaxRecordBytes,
          CleanupEveryBytes,  \* Options
          Horizon,            \* bound on the clock
          MaxBytes,           \* bound on the bytes written
          MaxOpens,           \* bound on the starts of the process
          MaxFaults,          \* bound on the failing file operations
          None

ValidOptions ==
  /\ MaxAge \in Nat \ {0} /\ PreferredMinAge \in 0..MaxAge
  /\ MaxTotalBytes \in Nat \ {0} /\ MaxFileBytes \in 1..MaxTotalBytes
  /\ MaxRecordBytes \in 1..MaxFileBytes /\ CleanupEveryBytes \in Nat \ {0}

\* Open refuses other options.
ASSUME OptionsAssumption == ValidOptions

ASSUME BoundsAssumption ==
  /\ Lengths \subseteq Nat \ {0}
  /\ Horizon \in Nat /\ MaxBytes \in Nat /\ MaxOpens \in Nat /\ MaxFaults \in Nat
  /\ None \notin Nat /\ None \notin {"worker", "closer"}

VARIABLES disk,          \* the files: durable
          today,         \* the clock
          names,         \* files created so far
          archived,      \* bytes written so far
          opens, faults, \* starts and failures so far
          up,            \* the process has an archive
          file,          \* the name of the open file
          currentPath,   \* the name of the file cleanup keeps
          currentDay, currentSize, bytesSinceGC, closed, writeDisabled,
          readers,       \* who holds archiveMu shared
          writer,        \* who has asked for archiveMu: it has it when no reader is left
          worker,        \* inside Write: idle, before cleanup, before disableWrites
          closer,        \* where Close is
          export,        \* where each export is,
          left, out,     \*   the files it has yet to copy, the bytes it has sent
          from, upto     \* history: the bytes on disk at its snapshot

diskVars   == <<disk, names, archived>>
fileVars   == <<file, currentPath, currentDay, currentSize>>
storeVars  == <<fileVars, bytesSinceGC, closed, writeDisabled>>
worldVars  == <<today, opens, faults, up>>
exportVars == <<export, left, out, from, upto>>
vars == <<diskVars, storeVars, worldVars, readers, writer, worker, closer, exportVars>>

Size(f) == f.hi - f.lo

\* What files hold: every byte, with the name of its file.
Held(files)  == UNION {{f.name} \X ((f.lo + 1)..f.hi) : f \in files}
Bytes(files) == Cardinality(Held(files))

\* The bytes a+1 .. b.
Span(a, b) == [i \in 1..(b - a) |-> a + i]

EmptyFile(name) == [name |-> name, lo |-> archived, hi |-> archived, mod |-> today]

Init ==
  /\ disk = {} /\ names = 0 /\ archived = 0
  /\ today = 0 /\ opens = 0 /\ faults = 0 /\ up = FALSE
  /\ file = None /\ currentPath = None /\ currentDay = 0 /\ currentSize = 0
  /\ bytesSinceGC = 0 /\ closed = FALSE /\ writeDisabled = FALSE
  /\ readers = {} /\ writer = None
  /\ worker = "idle" /\ closer = "idle"
  /\ export = [e \in Exports |-> "idle"]
  /\ left = [e \in Exports |-> {}] /\ out = [e \in Exports |-> <<>>]
  /\ from = [e \in Exports |-> 0] /\ upto = [e \in Exports |-> 0]

Fault == faults < MaxFaults /\ faults' = faults + 1

Tick ==
  /\ today < Horizon
  /\ today' = today + 1
  /\ UNCHANGED <<diskVars, storeVars, opens, faults, up, readers, writer, worker, closer,
                 exportVars>>

-----------------------------------------------------------------------------
(* What cleanup removes *)

Expired(f) == f.mod < today - MaxAge
Recent(f)  == f.mod >= today - PreferredMinAge

\* Mutant: the two passes of the loop in the other order.
PrecedesRecentFirst(f, g) ==
  \/ Expired(f) /\ ~Expired(g)
  \/ Recent(f) /\ ~Recent(g)
  \/ (Expired(f) <=> Expired(g)) /\ (Recent(f) <=> Recent(g)) /\ f.name < g.name

\* Expired files go first, then old ones and, if they are not enough, recent
\* ones, each in the order of the listing.
Precedes(f, g) ==
  \/ Expired(f) /\ ~Expired(g)
  \/ ~Recent(f) /\ Recent(g)
  \/ (Expired(f) <=> Expired(g)) /\ (Recent(f) <=> Recent(g)) /\ f.name < g.name

Others(active) == {f \in disk : f.name # active}

\* The sets of files a cleanup may have removed at some point of its work: one
\* that is not expired goes only while what is left is above the limit.
Removals(active) ==
  {gone \in SUBSET Others(active) :
     \A f \in gone :
       LET before == {g \in Others(active) : Precedes(g, f)}
       IN  before \subseteq gone /\ (Expired(f) \/ Bytes(disk \ before) > MaxTotalBytes)}

WithinLimit(files) == Bytes(files) <= MaxTotalBytes

Removed(active, gone) ==
  /\ gone \in Removals(active)
  /\ disk' = disk \ gone

\* cleanup went through: every expired file is removed, and enough others.
CleanedUp(active) ==
  \E gone \in SUBSET Others(active) :
    /\ Removed(active, gone)
    /\ \A f \in Others(active) \ gone : ~Expired(f)
    /\ WithinLimit(disk \ gone)

\* It returned an error: a file operation failed, or everything that may go is
\* gone and the limit is still exceeded.
CleanupFailed(active) ==
  \E gone \in SUBSET Others(active) :
    /\ Removed(active, gone)
    /\ \/ Fault
       \/ gone = Others(active) /\ ~WithinLimit(disk \ gone) /\ UNCHANGED faults

-----------------------------------------------------------------------------
(* Open and the end of the process *)

Opened(path) ==
  /\ up' = TRUE
  /\ names' = names + 1
  /\ file' = path /\ currentPath' = path /\ currentDay' = today /\ currentSize' = 0
  /\ bytesSinceGC' = 0 /\ closed' = FALSE /\ writeDisabled' = FALSE

\* cleanup, with no file to keep, and the first file.
Open ==
  /\ ~up
  /\ opens < MaxOpens
  /\ opens' = opens + 1
  /\ \E gone \in Removals(None) :
       /\ \A f \in disk \ gone : ~Expired(f)
       /\ WithinLimit(disk \ gone)
       /\ disk' = (disk \ gone) \cup {EmptyFile(names + 1)}
  /\ Opened(names + 1)
  /\ UNCHANGED <<archived, today, faults, readers, writer, worker, closer, exportVars>>

\* The process goes on without an archive (main.go:82).
OpenFails ==
  /\ ~up
  /\ opens < MaxOpens
  /\ opens' = opens + 1
  /\ CleanupFailed(None)
  /\ UNCHANGED <<names, archived, storeVars, today, up, readers, writer, worker, closer,
                 exportVars>>

\* The process stops or is stopped, wherever it is.
ProcessEnds ==
  /\ up
  /\ up' = FALSE
  /\ file' = None /\ currentPath' = None /\ currentDay' = 0 /\ currentSize' = 0
  /\ bytesSinceGC' = 0 /\ closed' = FALSE /\ writeDisabled' = FALSE
  /\ readers' = {} /\ writer' = None
  /\ worker' = "idle" /\ closer' = "idle"
  /\ export' = [e \in Exports |-> "idle"]
  /\ left' = [e \in Exports |-> {}] /\ out' = [e \in Exports |-> <<>>]
  /\ from' = [e \in Exports |-> 0] /\ upto' = [e \in Exports |-> 0]
  /\ UNCHANGED <<diskVars, today, opens, faults>>

-----------------------------------------------------------------------------
(* Write, by the worker of AsyncStore.  The part under archiveMu, held shared,  *)
(* and mu is one step.                                                          *)

Data(length) == Min({length, MaxRecordBytes})     \* truncateRecord

NeedsRotation(data) ==
  \/ file = None
  \/ currentDay # today
  \/ currentSize > 0 /\ currentSize + data > MaxFileBytes

MayWrite ==
  /\ up /\ worker = "idle" /\ closer = "idle"
  /\ writer = None
  /\ ~closed /\ ~writeDisabled

\* The open file, or the one rotateLocked creates and opens in its place.
Target(data) ==
  IF NeedsRotation(data) THEN EmptyFile(names + 1)
  ELSE CHOOSE f \in disk : f.name = file

\* n of the bytes of a record reach the disk.
Put(data, n) ==
  LET target == Target(data)
      grown  == [name |-> target.name, lo |-> target.lo, hi |-> target.hi + n,
                 mod |-> IF n > 0 THEN today ELSE target.mod]
  IN  /\ disk' = (disk \ {target}) \cup {grown}
      /\ names' = IF NeedsRotation(data) THEN names + 1 ELSE names
      /\ archived' = archived + n
      /\ currentPath' = target.name
      /\ currentDay' = today
      /\ currentSize' = (IF NeedsRotation(data) THEN 0 ELSE currentSize) + n

Write(length) ==
  LET data  == Data(length)
      since == bytesSinceGC + data
      due   == since >= CleanupEveryBytes
  IN  /\ MayWrite
      /\ archived + data <= MaxBytes
      /\ Put(data, data)
      /\ file' = currentPath'
      /\ bytesSinceGC' = IF due THEN 0 ELSE since
      /\ worker' = IF due THEN "cleanup" ELSE "idle"
      /\ UNCHANGED <<closed, writeDisabled, worldVars, readers, writer, closer, exportVars>>

\* A failing or short write ends the writing of this run.
WriteFails(length) ==
  /\ MayWrite
  /\ Fault
  /\ \E n \in 0..(Data(length) - 1) :
       archived + n <= MaxBytes /\ Put(Data(length), n)
  /\ file' = None /\ writeDisabled' = TRUE
  /\ UNCHANGED <<bytesSinceGC, closed, today, opens, up, readers, writer, worker, closer,
                 exportVars>>

\* So does a rotation that cannot create its file, or close the old one.
RotateFails(length) ==
  /\ MayWrite
  /\ NeedsRotation(Data(length))
  /\ Fault
  /\ \/ UNCHANGED <<diskVars, currentPath, currentDay, currentSize>>
     \/ Put(Data(length), 0)
  /\ file' = None /\ writeDisabled' = TRUE
  /\ UNCHANGED <<bytesSinceGC, closed, today, opens, up, readers, writer, worker, closer,
                 exportVars>>

-----------------------------------------------------------------------------
(* archiveMu.  Whoever asks for it alone keeps new readers out, and has it when *)
(* the present ones are gone.                                                   *)

AskForLock(p) ==
  /\ \/ p = "worker" /\ worker # "idle"
     \/ p = "closer" /\ closer = "closing"
  /\ writer = None
  /\ writer' = p
  /\ UNCHANGED <<diskVars, storeVars, worldVars, readers, worker, closer, exportVars>>

Holds(p) == writer = p /\ readers = {}

Cleanup ==
  /\ worker = "cleanup" /\ Holds("worker")
  /\ \/ CleanedUp(currentPath) /\ worker' = "idle" /\ UNCHANGED faults
     \/ CleanupFailed(currentPath) /\ worker' = "disabling"
  /\ writer' = None
  /\ UNCHANGED <<names, archived, storeVars, today, opens, up, readers, closer, exportVars>>

\* Mutant: the failed cleanup is only reported.
DisableWritesNot ==
  /\ worker = "disabling" /\ Holds("worker")
  /\ worker' = "idle"
  /\ writer' = None
  /\ UNCHANGED <<diskVars, storeVars, worldVars, readers, closer, exportVars>>

\* An archive that cannot be pruned is no longer written.
DisableWrites ==
  /\ worker = "disabling" /\ Holds("worker")
  /\ writeDisabled' = TRUE
  /\ file' = None
  /\ worker' = "idle"
  /\ writer' = None
  /\ UNCHANGED <<diskVars, currentPath, currentDay, currentSize, bytesSinceGC, closed,
                 worldVars, readers, closer, exportVars>>

\* AsyncStore.Close calls Close when its worker is done.
BeginClose ==
  /\ up /\ worker = "idle" /\ closer = "idle"
  /\ closer' = "closing"
  /\ UNCHANGED <<diskVars, storeVars, worldVars, readers, writer, worker, exportVars>>

Close ==
  /\ closer = "closing" /\ Holds("closer")
  /\ closed' = TRUE
  /\ file' = None
  /\ closer' = "closed"
  /\ writer' = None
  /\ UNCHANGED <<diskVars, currentPath, currentDay, currentSize, bytesSinceGC,
                 writeDisabled, worldVars, readers, worker, exportVars>>

-----------------------------------------------------------------------------
(* Export.  archiveMu is held shared from the snapshot to the end. *)

BeginExport(e) ==
  /\ up /\ export[e] # "reading"
  /\ writer = None
  /\ readers' = readers \cup {e}
  /\ export' = [export EXCEPT ![e] = "reading"]
  /\ left' = [left EXCEPT ![e] = disk]
  /\ out' = [out EXCEPT ![e] = <<>>]
  /\ from' = [from EXCEPT ![e] = Min({archived} \cup {f.lo : f \in disk})]
  /\ upto' = [upto EXCEPT ![e] = archived]
  /\ UNCHANGED <<diskVars, storeVars, worldVars, writer, worker, closer>>

\* Mutant: a file is copied to its end.
ExportFileWhole(e) ==
  /\ export[e] = "reading"
  /\ \E f \in left[e] :
       /\ \A g \in left[e] : f.name <= g.name
       /\ \E g \in disk :
            /\ g.name = f.name
            /\ out' = [out EXCEPT ![e] = @ \o Span(g.lo, g.hi)]
       /\ left' = [left EXCEPT ![e] = @ \ {f}]
  /\ UNCHANGED <<diskVars, storeVars, worldVars, readers, writer, worker, closer, export,
                 from, upto>>

\* The oldest file that is left is opened by its name and copied up to its size
\* in the snapshot.
ExportFile(e) ==
  /\ export[e] = "reading"
  /\ \E f \in left[e] :
       /\ \A g \in left[e] : f.name <= g.name
       /\ \E g \in disk :
            /\ g.name = f.name
            /\ out' = [out EXCEPT ![e] = @ \o Span(g.lo, Min({g.hi, g.lo + Size(f)}))]
       /\ left' = [left EXCEPT ![e] = @ \ {f}]
  /\ UNCHANGED <<diskVars, storeVars, worldVars, readers, writer, worker, closer, export,
                 from, upto>>

EndExport(e) ==
  /\ export[e] = "reading" /\ left[e] = {}
  /\ export' = [export EXCEPT ![e] = "done"]
  /\ readers' = readers \ {e}
  /\ UNCHANGED <<diskVars, storeVars, worldVars, writer, worker, closer, left, out, from,
                 upto>>

\* Mutant: the return on an error keeps the lock.
ExportFailsLocked(e) ==
  /\ export[e] = "reading"
  /\ export' = [export EXCEPT ![e] = "idle"]
  /\ left' = [left EXCEPT ![e] = {}]
  /\ out' = [out EXCEPT ![e] = <<>>]
  /\ from' = [from EXCEPT ![e] = 0] /\ upto' = [upto EXCEPT ![e] = 0]
  /\ UNCHANGED <<diskVars, storeVars, worldVars, readers, writer, worker, closer>>

\* The client is gone, the five minutes are over, or a file cannot be read.
ExportFails(e) ==
  /\ export[e] = "reading"
  /\ export' = [export EXCEPT ![e] = "idle"]
  /\ readers' = readers \ {e}
  /\ left' = [left EXCEPT ![e] = {}]
  /\ out' = [out EXCEPT ![e] = <<>>]
  /\ from' = [from EXCEPT ![e] = 0] /\ upto' = [upto EXCEPT ![e] = 0]
  /\ UNCHANGED <<diskVars, storeVars, worldVars, writer, worker, closer>>

-----------------------------------------------------------------------------
ExportStep(e) == ExportFile(e) \/ EndExport(e) \/ ExportFails(e)

LockStep ==
  \/ AskForLock("worker") \/ AskForLock("closer")
  \/ Cleanup \/ DisableWrites \/ Close

Next ==
  \/ Tick \/ Open \/ OpenFails \/ ProcessEnds
  \/ \E length \in Lengths : Write(length) \/ WriteFails(length) \/ RotateFails(length)
  \/ LockStep \/ BeginClose
  \/ \E e \in Exports : BeginExport(e) \/ ExportStep(e)

Spec == Init /\ [][Next]_vars

\* The goroutines run, and an export ends: its context and the write deadline of
\* its connection end it after five minutes.
FairSpec ==
  /\ Spec
  /\ WF_vars(LockStep)
  /\ \A e \in Exports : WF_vars(ExportStep(e))

-----------------------------------------------------------------------------
File == [name : Nat, lo : Nat, hi : Nat, mod : Nat]

TypeOK ==
  /\ disk \subseteq File /\ names \in Nat /\ archived \in Nat
  /\ today \in Nat /\ opens \in Nat /\ faults \in Nat /\ up \in BOOLEAN
  /\ file \in Nat \cup {None} /\ currentPath \in Nat \cup {None}
  /\ currentDay \in Nat /\ currentSize \in Nat
  /\ bytesSinceGC \in Nat /\ closed \in BOOLEAN /\ writeDisabled \in BOOLEAN
  /\ readers \subseteq Exports /\ writer \in {None, "worker", "closer"}
  /\ worker \in {"idle", "cleanup", "disabling"}
  /\ closer \in {"idle", "closing", "closed"}
  /\ export \in [Exports -> {"idle", "reading", "done"}]
  /\ left \in [Exports -> SUBSET File] /\ out \in [Exports -> Seq(Nat)]
  /\ from \in [Exports -> Nat] /\ upto \in [Exports -> Nat]

\* What is on disk is the end of what was written, without a gap: a file is
\* followed by the next one, or is the last and ends with the last byte.
KeptIsTail ==
  \A f \in disk :
    IF f.name = names THEN f.hi = archived
    ELSE \E g \in disk : g.name = f.name + 1 /\ g.lo = f.hi

\* No file outgrows MaxFileBytes, so a cleanup that may remove the others always
\* gets below MaxTotalBytes ...
FilesFit == \A f \in disk : Size(f) <= MaxFileBytes

\* ... and the archive exceeds MaxTotalBytes by no more than is written between
\* two cleanups, whatever fails and whenever the process starts again.
DiskIsBounded ==
  /\ Bytes(disk) < MaxTotalBytes + CleanupEveryBytes + MaxRecordBytes
  /\ up /\ worker = "idle" /\ ~writeDisabled => Bytes(disk) <= MaxTotalBytes + bytesSinceGC

\* An export finds each of its files, and one that ends has sent every byte that
\* was on disk at its snapshot, in the order of the writing, and no other,
\* whatever was written, rotated, pruned or closed since.
ExportIsExact ==
  \A e \in Exports :
    /\ export[e] = "reading" =>
         \A f \in left[e] : \E g \in disk : g.name = f.name /\ g.lo = f.lo /\ g.hi >= f.hi
    /\ export[e] = "done" => out[e] = Span(from[e], upto[e])

\* A cleanup, a disabling and a Close that wait for archiveMu get it, however
\* many exports come: neither the worker nor the end of the process hangs.
MaintenanceEnds == worker # "idle" \/ closer = "closing" ~> worker = "idle" /\ closer # "closing"
=============================================================================

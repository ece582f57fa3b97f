# TLA+ models of the FBS interlock gateway

The gateway is a Go service between a facility booking system (FBS) and the
Shelly relays that switch laboratory tools on and off.  This directory holds
TLA+ modules that model its concurrent and fallible parts, the TLC
configurations that check them, and proofs checked by TLAPS.  Paths below are
relative to `src/`, the repository.

Run, in this directory: `tlc -workers 2 -config DeviceGate.cfg MCDeviceGate.tla`
(one line per row of the table of runs) and `tlapm AsyncStore_proofs.tla`
(one per module of the table of proofs).

## 1. The system

| Part | Source | State | Operations | Talks to |
|---|---|---|---|---|
| FBS servers | `internal/fbs/server.go` | one HTTP listener per enabled tool | `GET /status`, `/on`, `/off` | Shelly client (calls), status store (records) |
| Shelly client | `internal/shelly/client.go`, `digest.go`, `error.go` | per device: gate, `fbsWaiters`, `activeAdminCancel`, digest session; per IP: `recoveryState` | `GetStatus`, `GetStatusAdmin`, `Set`, `Reboot`, `scheduleReboot` | the device over HTTP(S) |
| Status store | `internal/status/store.go` | revision counter, one row per port | `NextRevision`, `Record*`, `Snapshot` | FBS handlers and fleet refresh write, the page reads |
| Admin server | `internal/admin/server.go` | `statusRefreshInFlight`; restart channel | config GET/PUT, status with optional refresh, log export, restart | gateway (config), Shelly client (probes), status store |
| Admin UI | `internal/admin/web/app.js` | flags of open requests, edited rows | load, save, refresh, poll | Admin server |
| Gateway | `internal/gateway/gateway.go` | current configuration, servers, error channel | `Run`, `ConfigSnapshot`, `UpdateConfig` | starts both servers, calls the store |
| Configuration store | `internal/configstore/store.go`, `internal/config/config.go` | SQLite tables, generated `config.yaml` and `.bak` | `Load`, `Initialize`, `Replace` | file system |
| Log archive | `internal/applog/async.go`, `store.go` | bounded queue, worker, rotating files | `Write`, `Flush`, `Export`, `Close`, cleanup | every logger, log export |
| Process | `cmd/fbs-interlock-gateway/main.go`, `internal/process` | none of its own | start, migrate, run, drain the archive, exit | all of the above; the platform's supervisor |
| Updaters | `services/*/update-*`, `internal/updateauth` | installed binary, backups, service state | download, verify, stop, replace, start, roll back | supervisor, file system, network |
| Installers, TLS and build scripts | `services/*/install*`, `scripts`, `Makefile` | files | run by a person | - |

Interaction.  An FBS request calls the Shelly client, which takes the device's
slot, runs the HTTP exchange (with digest authentication and a throttle wait),
gives the slot back when the body is closed, and then records the outcome in the
row of the tool under a fresh revision.  A fleet refresh takes one revision and
sends low-priority probes through the same slots; an arriving FBS call cancels
the probe of its device.  A response 423 or a second 429 starts a reboot
goroutine that competes for the slot like an FBS call.  Saving a configuration
goes from the Admin server through the gateway to SQLite and the YAML mirror; the
running listeners keep the configuration they started with until the process
restarts, while a refresh already probes the devices of the saved one.

### What is hard, and what makes each part correct

The list with lines is `hazards` in `PROJECT.json`; in short:

* *Gate.*  Three pieces of state (token, counter, published cancel function)
  are changed under two synchronisation means (a mutex and a channel).  Correct
  when the token has one owner and is never lost, the counter is exact, a probe
  never overtakes or delays a production call, and no call waits for ever.
* *Digest exchange.*  A loop led by the device's answers, and a session kept
  across exchanges.  Correct when it is bounded, in whatever order the device asks
  for a retry, and never repeats a nonce count.
* *Recovery.*  A clock read outside the lock, a flag cleared by a goroutine, a
  cooldown that counts from the decision.  Correct when one reboot is under way
  at a time and reboots are spaced.
* *Status rows.*  Results recorded out of the order in which they were obtained.
  Correct when a scan never undoes a newer result, when a refresh verifies, ends,
  and the row of a quiet tool shows the relay.
* *Fleet refresh.*  A producer, a pool of workers and an unbuffered channel, with a
  deadline, production calls that take devices away, and a configuration that may
  be replaced meanwhile.  Correct when every tool gets its turn once, the scan ends,
  and rows never get older.
* *Page.*  A single-threaded script whose timers, clicks and answers interleave
  between its awaits, and a server that may restart.  Correct when an older answer
  never replaces a newer one, the refresh workflow ends, and a restart is announced
  only when the save it belongs to is in the database.
* *Saves.*  A read of shared state, a transaction, two file operations and a
  write of shared state with nothing that spans them, and stops in between.
  Correct when identities and passwords go to the same tool, memory agrees with the
  database, and memory and mirror only hold what was committed.

* *Run and shutdown.*  Listeners that open, fail and shut down while the run is
  being started or cancelled, and one channel for all their errors.  Correct when
  no goroutine blocks on that channel, and a failed listener, a restart and a
  signal each end the process.
* *Archive queue.*  Writers that must never wait, a worker that may hang on the
  disk, barriers and a deadline.  Correct when the limits and the byte count are
  exact, a flush covers what came before it, and the files are closed only when
  they have everything.
* *Archive files.*  Rotation, pruning, exports and the end of the process around one
  read-write lock, on a disk that may fail and a process that may stop.  Correct when
  what is left is the end of the log, the disk stays within its limit, an export
  is exact, and no export keeps the worker or `Close` waiting for ever.
* *Updater.*  A script that replaces a binary and a database another process
  migrates, any command of which may fail.  Correct when a rollback gives back
  both files, and no stop leaves the host without an intact copy of either.

## 2. Modules

Each module names the functions it models in its header, keeps the names of the
source where TLA+ allows it, and puts the mutated forms of a definition (comment
"Mutant:") in front of it: they show that a property notices the bug.  `map` in
`PROJECT.json` gives the lines of every definition.

| Module | Models | State | Actions |
|---|---|---|---|
| `DeviceGate` | `deviceAuthState` of one Shelly, `acquireFBS`, `acquireAdmin`, `release`, attempts of `getStatus` | `gate` (token in the channel), `fbsWaiters`, `activeAdminCancel`, cancelled contexts, position and attempt of each call | one per critical section or channel operation: announce, cancel the probe, receive, stop waiting, expire, leave the queue, release; acquire, defer, end, clear, release for probes |
| `DeviceSlot` | the abstract slot the gate promises | users and waiters | announce, withdraw, grant, return |
| `DigestExchange` | `doUnauthenticatedGET`, `doAuthenticatedGETLocked`, `digestSession` | the cached session, the loop's variables | begin, top of the loop, 401 with each kind of challenge, 429 and its wait, failure, answer |
| `Recovery` | `scheduleReboot`, its goroutine and `Reboot` | clock, `recoveryState`, goroutines | tick, read the clock, critical section, start, send, return |
| `StatusFlow` | `handleStatus`, `handleSet`, `statusSnapshot`, `collectStatuses`, `status.Store`, for one tool; uses `DeviceSlot` for the device | relay, commands it still owes, slot, revision, row, handlers, scan and its probe, reboot | every step between two shared accesses; a late command by the device |
| `FleetRefresh` | `statusSnapshot`, `refreshStatuses`, `collectStatuses` and its workers, the rows, for all tools | saved and running configuration, rows by port, FBS calls, the scan, its producer, workers and deadline | request, collect, send, close, end; leave, start, give way, answer, record; call, save, restart |
| `StatusService` | the abstract Admin server: rows that only get newer, one scan at a time, a saved and a running configuration | table, scan flag, saved, running | start and finish a scan, update, save, start again |
| `AdminPage` | `app.js`: `loadStatus`, `refreshStatus`, polling, visibility, `saveConfig`; on `StatusService` | flags of the page, requests under way, the table shown, the notice | click, poll, look again, serve, render, fail, turn; save, put, post, restart |
| `ConfigSave` | `handlePutConfig`, `UpdateConfig`, `Replace` and the mirror, `loadOrMigrate` | tables, `config.yaml`, `.bak`, memory, saves under way | migrate; build, commit, open, write and rename the mirror, fail, publish, restart |
| `GatewayRun` | `Gateway.Run`, `RunToolServer`, Admin `Run`, `handleRestart`, end of `runGateway` | run, serving goroutines, watchers, `errCh`, restart channel, requests in flight | start, listen, accept or fail, report, select, shut down, return, exit; signal, post, timer |
| `AsyncStore` | `Write`, the worker, `Flush`, `Close` of the archive queue | lock, queue, byte count, worker, flushes, closer | the two steps of a write, receive, store, count, stop; barriers, deadlines, close |
| `LogArchive` | `applog.Store`: `Open`, `Write`, cleanup, `disableWrites`, `Export`, `Close`; `handleLogExport` | the files on disk, the open one, counters, `archiveMu`, the worker, exports | write, fail, rotate, ask for the lock, clean up, disable, close; begin, copy a file, end, fail; open, stop, a day passes |
| `Updater` | `update-linux.sh.in`, and `Open`/`loadOrMigrate` of the gateway it replaces | binary, database, their copies, service, position in the script | one per command; open, save and release by the world; failing command, power loss |

`MC<module>` instantiates a module for TLC, `<module>_proofs` holds its theorems;
those of the three Shelly client modules are together in `Shelly_proofs`, those of
`ConfigSave` and `AdminPage` in `Admin_proofs`.  Where modules meet in one proof
module, the names of their specifications say which is meant (`DigestSpec`,
`RecoverySpec`, `PageSpec`).

Composition.  `DeviceGate` is shown to implement `DeviceSlot` (refinement mapping:
`using` is the set of calls that own the token, `waiting` the calls that have
passed their cancel step), and `StatusFlow` is built on `DeviceSlot`: what holds of
the row there holds for the device the gate of `client.go` gives it.  `Recovery`
decides when a reboot starts; `StatusFlow` has what it does to the slot.
`FleetRefresh` implements `StatusService` (the table is the revisions of the
rows), and `AdminPage` is built on that, as `StatusFlow` is on `DeviceSlot`: the
page needs of the server only what the refinement gives.  The scans' end, which
`AdminPage` assumes as fairness, is `ScanEnds` of `FleetRefresh`.  `LogArchive` is
the Store that `AsyncStore` calls: one writer, and a `Close` after its worker is
done.  `Updater` treats the gateway as a process that opens, migrates and saves.

### Abstractions that matter

* `DeviceGate`: contexts and timeouts are choices (a deadline may pass at any
  time).  The body of the critical section of `acquireAdmin` is one step, as the
  mutex makes it; the cancel function is called in a step of its own, as the code
  calls it after unlocking.
* `DigestExchange`: a nonce stands for nonce and client nonce; hashes, realms and
  the parsing of a challenge are the choice of a usable or an unusable one.  A
  legacy session (no `qop`) repeats its header by design; `NoReplayedHeader` is
  about `qop=auth`.
* `StatusFlow`: the first, retried attempt of a status request is part of the
  wait for the slot.  The relay counts the commands it carried out, so an old
  state differs from a present one; whether a reboot changes the relay is a
  setting of the device and left out.  A command whose answer is lost was carried
  out, was not, or is later, when the client has long given the slot back.  One tool is followed; the worker pool is
  the choice that the scan's deadline passes before this tool's turn.
* `FleetRefresh`: the other way round: all tools, and a request or a probe in two
  steps.  A row is its tool and its revision.  Devices are distinct within a
  configuration (`UNIQUE(ip)`).  The recovery reboot, which holds a device like a
  call but records nothing, is in `StatusFlow`.
* `AdminPage`: one page.  A request is handled at some moment between its sending
  and its answer, or never; it fails without an answer or after being carried
  out.  Tables and their editing are left out; a save is the version it makes.
* `Recovery`: a goroutine that can run is held up by no more than `MaxLag`, before its
  critical section as before its first statement.
* `ConfigSave`: `os.WriteFile` of the backup truncates the file in one step and writes
  it in another, at its own offset, so that two of them can leave parts of both
  (`Mixed`) and one that is cut short a beginning (`Torn`).  A tool is a name, a port and a password; `UNIQUE(ip)` and the
  one-value rules of `Validate` are left out.  `Key` stands for the lower-case
  name.  `NoTable` stands in the place of the rows of a database that was not
  initialized.  A restart loses the saves that are under way.  The `config` commands,
  which another process runs, are left out.
* `GatewayRun`: the Admin listener is always enabled.  A listener's port is free
  exactly when its goroutine is done.
* `AsyncStore`: a record is its length; the number of dropped records, which is
  only reported, is left out.  The last step of `Close` calls `Store.Close`,
  whose wait for the disk is not bounded by `Close`'s deadline.  `BytesAreExact` adds
  the lengths up by a running total over the places of the queue.
* `LogArchive`: the bytes written are numbered, and a file holds a range of them.
  The clock does not go back, so the listing by time and name is the order of
  creation; a tick is a day.  The size of a set of files is the number of the
  bytes they hold.  The part of `Write` under its locks is one step:
  cleanup and `Close` are kept out by `archiveMu`, and a snapshot by `mu`.  A
  cleanup that is cut off by an error has removed what the passes reach first.
* `Updater`: a binary is the release it comes from, which its checksum tells apart;
  releases have versions, two may have the same, and every version brings a new
  schema, the worst case for a rollback.  A copy that fails leaves a torn file.  A copy
  that is complete is taken to survive a power loss, although the script never syncs
  one (`update-linux.sh.in:279-295`): the properties are about the order of its
  steps, not about the cache of the file system.  The
  `systemctl stop` of a rollback is taken to end the service, and after a power
  loss systemd starts the enabled service.

## 3. Runs

| Run | Bounds | States | What it shows |
|---|---|---|---|
| `gate` | 1 status call, 1 command, 2 probes, 2 attempts | 36 thousand | `WaitersExact`, `ProbeIsPreempted`, `ImplementsSlot` (one owner, no probe overtakes a waiting call); every call ends although deadlines may never pass |
| `digest` | 6 attempts, nonces used 3 times, 6 challenges | 3 thousand | four requests at most in an exchange, no replayed header |
| `recovery` | 3 callers, cooldown 8, timeout 2, lag 2, 20 ticks | 183 thousand | one reboot at a time, the spacing the cooldown gives |
| `status` | 2 handlers, 1 probe, reboot, 4 revisions, 3 commands | 4.1 million | a scan never undoes a newer result; the row of a quiet tool is current unless FBS requests overlapped or a late command was not followed by an exchange yet; every probe displaced by an FBS request is followed by a record; a refresh verifies |
| `fleet` | 2 configurations of 3 tools (two change places, one is disabled), 2 workers, 2 revisions | 602 thousand | no tool handed out twice or left out, scans end, the service a page sees |
| `page` | 1 page, 2 ports, 2 versions, revisions 0 to 2 | 118 thousand | the table never gets older, the refresh workflow ends, an announced restart applies the save |
| `save` | a first start or a database, 2 saves, 2 names, 2 ports, keep or new password | 2.9 million | identities follow names, memory and mirror hold committed configurations, only overlapping saves mix the backup; memory is the database, and passwords follow identities, while saves do not overlap |
| `save_ids` | 1 save | violation | a valid configuration is refused |
| `gateway` | Admin and 1 tool, 2 restart requests | 20 thousand | no blocked sender; failure, restart and signal end the process |
| `archive` | 2 writers, 1 flush, queue of 2 records and 3 bytes, 4 records | 22 thousand | exact byte count, no writer finds the queue full when it sends, flush and close cover what they promise, the queue drains if the disk answers |
| `logs` | 1 export, records of 1 and 3 bytes, files of 2, archive of 3, 5 bytes, 3 days, 2 starts, 1 fault | 914 thousand | what is kept is the end of the log, the disk is bounded, exports are exact, maintenance ends |
| `updater` | 4 releases of 3 versions (one never ready, and the same version built again), 2 saves, 2 faults | 181 thousand | rollback restores, both files recoverable after every fault, no schema newer than the gateway |

`PROJECT.json` lists the properties of each run, and for each a mutant that
violates it.  `CHECK_DEADLOCK FALSE` stands where the system stops: when a bound
on revisions or records is used up, or the process has exited.

### Bounds

* *Gate.*  Two probes give every order in which one ends and the next begins
  while the cancel function of the first is still in an FBS call's hands.  Two
  FBS calls give a waiter beside an owner, a status call with its second attempt
  and a command without one.  The proofs cover every number.
* *Digest.*  The attempts of the source; a nonce limit of 3 in place of the
  source's large one reaches the limit within and across exchanges; 6 challenges
  are more than one exchange can consume.
* *Recovery.*  `Cooldown` exceeds `RebootTimeout + 2 * MaxLag`, as 5 minutes exceed the
  request timeout; 20 ticks hold two cooldowns and what follows them; three
  callers read the clock in one order and enter in another.
* *Status.*  `MaxRevision` stops new requests, not those under way: four
  revisions are a scan before, between or after two requests, and one request more;
  of three commands one may be late and another follow it.
* *Fleet.*  Two workers for three tools: a worker takes a second tool, and the
  producer waits for one.  The second configuration swaps the devices of two
  ports and disables the third tool; two revisions are a call before, during or
  after a scan, and rows of the running configuration under a scan of the saved
  one.
* *Page.*  One poll or refresh at a time is what the script's flags give; two
  ports and three revisions tell a row that gets older from one that does not.
* *Saves.*  Two saves of any of the configurations with at most two tools: every
  exchange of names, ports and rows between two tools, and every overlap of two
  saves.  Clearing a password (`"clear"`) is in the model and left out of the run
  for its size.
* *Run.*  One tool and the Admin listener fail, open and shut down in every
  order; two posts fill the restart channel.
* *Archive.*  Both limits of the queue (records, bytes) are reached by either
  writer; four records cover a full queue, one in the worker's hand and one refused.
* *Files.*  A record of 3 is longer than `MaxRecordBytes`; files of 2 in an archive
  of 3 rotate by size and exceed the limit at the second file; the ages of 1 and 2
  days make files recent, old and expired within 3 ticks; two starts put a
  failed or stopped run before another.
* *Updater.*  A good release after a broken one and the reverse, of the same version
  and of another; any of them installed at first; two faults hit a
  run and the next one, or a power loss hits after a failed command.

### Fairness

* *Gate.*  Weak fairness of the steps of a call that has begun (an exchange and a
  retry delay end by their timeouts); strong fairness of a waiting receive: the
  Go runtime queues the receivers of a channel first in, first out.  None for
  deadlines, arrivals or new probes.
* *Fleet.*  Weak fairness of the producer and of each worker; a probe ends by its
  timeout.  None for the deadline, calls, saves or restarts: a scan ends although
  FBS calls may hold devices for ever.
* *Page.*  Weak fairness of the workflow's timer, of requests (a fetch ends or
  fails) and of the end of a scan.  None for polls, clicks, saves or the user's
  turning to the page.
* *Files.*  Weak fairness of whoever asks for `archiveMu` (a waiting `Lock` keeps new
  readers out) and of each export (its context and write deadline end it).
* *Run.*  Weak fairness of the goroutines of the process and its timers; none for
  requests, handlers, signals or failures.
* *Archive.*  Weak fairness of the worker and of a writer that holds the lock;
  strong fairness of `Count`, which needs the lock: `sync.Mutex` hands over to a
  waiter after a millisecond.  `QueueDrains` assumes of the disk only what it says
  in its premise.

## 4. Proofs

| Module | Theorems | Assumption | Inductive invariant |
|---|---|---|---|
| `Shelly_proofs`, gate | `TypeCorrect`, `MutualExclusion`, `WaitersAreCounted`, `Preemption`, `FBSHasPriority`, `GateImplementsSlot`, `AttemptsRunOut` | `GateAssumption`: finite set of FBS calls, disjoint from the probes | `GateInv`, `AttemptsCounted` |
| digest | `FourSends`, `HeadersAreFresh` | `DigestAssumption`: at least 4 attempts, a nonce usable twice | `DigestInv`, `HeadersCounted` |
| recovery | `OneReboot`, `AttemptAdvances`, `RebootSpacing` | `RecoveryAssumption`: the times are naturals | `RecoveryInv` |
| `StatusFlow_proofs` | `TypeCorrect`, `UsesTheSlot`, `DisplacementIsPublished`, `SerialRow`, `ProbesYield`, `RefreshIsVerification` | `FlowAssumption`: the probe and the reboot are no handlers, natural bounds | `FlowInv` |
| `Admin_proofs`, saves | `MemoryFollowsDatabase`, `MirrorHoldsCommitted`, `NamesKeepIdentity`, `PasswordsPreserved` | `ConfigAssumption`: a natural bound on tools, the marker `Uninitialized` is no row; `PasswordsPreserved` also `KeysAreNames` | `ConfigInv` |
| page | `AnnouncementHolds`, `RowsGetNewer`, `PageUsesService`, `WorkflowHasItsRequest` | `PageAssumption`: natural revisions, 0 among them | `PageInv`, `WorkflowGoesOn` |
| `FleetRefresh_proofs` | `TypeCorrect`, `EachToolOnce`, `ScansAreComplete`, `FleetIsAService`, `ScanNeverStalls` | `FleetAssumption`: a configuration has finitely many tools, ports and devices are distinct within a configuration, at least one worker | `ScanOK`, `WorkersOK`, `FirstWorks` |
| `GatewayRun_proofs` | `TypeCorrect`, `SendersNeverBlock`, `ErrorsReachRun`, `WaitIsServed` | `RunAssumption`: finitely many tools | `RunInv`, `Watched`, `ErrorsKept` |
| `AsyncStore_proofs` | `TypeCorrect`, `WritersNeverBlock`, `BytesAreCounted`, `FlushIsComplete`, `CloseIsComplete`, `NoFlushIsStranded`, `CloseDrains` | `ArchiveAssumption`: natural lengths and limits, disjoint names | `QueueInv`, `CountInv`, `BarriersArrive` |
| `LogArchive_proofs` | `TypeCorrect`, `TailIsKept`, `NoFileOutgrows`, `ArchiveIsBounded`, `ExportsAreExact`, `ArchiveIsALog`, `LockIsServed`, `CleanupHasAnOutcome` | `OptionsAssumption` (what `Open` accepts), `BoundsAssumption` | `DiskOK`, `CurrentOK`, `ReadingOK`, `SizeInv`, `LockKept` |
| `Updater_proofs` | `TypeCorrect`, `BinaryRecoverable`, `DatabaseRecoverable`, `RollbackIsComplete`, `NoOlderRelease`, `OpensItsDatabase` | `UpdaterAssumption`: natural bounds, the markers are no files | `UpdaterInv` |

They hold for every number of calls, listeners, saves, writers, releases and
faults, and every limit the assumptions allow.  Every invariant and every safety
property of the passing runs is a theorem.

* *Gate.*  `SlotExclusive` and `WaitersExact` say where the token is and what the
  counter counts; preemption is not inductive alone.  `CancelIsPublished` adds
  that a probe that runs undisturbed has its cancel function published, and
  `CaptureIsCurrent` that a call about to cancel holds that function: so when it
  has cancelled, no undisturbed probe is left, and none can begin because the
  call is counted.  The refinement follows action by action from the invariant.
* *Digest.*  `AtMostFourSends` needs the account of the attempts: each one is paid
  for by an authorization failure, the throttle retry or the first challenge
  (`AttemptsAccounted`), and a session fetched in the exchange is not dropped before it is
  used (`FreshIsUsable`).  `HeadersCounted` keeps the
  last header sent at or below the session's nonce and count, which a failing
  exchange leaves behind as well; so the next header is beyond it.
* *Recovery.*  The spacing relates four times, the attempt, the go statement, the
  goroutine's start and the send; each is bounded by the one before.
* *Status.*  `SlotOK` ties the slot to where its users are, so two of them are
  never between the device and the body's end.  `ProbeReadsLater` carries the order of
  the slot over to the revisions: what an answered probe has read is at least as
  new as every result with an older revision, the recorded one and those a handler
  has yet to record.  Only a record with an older revision may be replaced by the
  probe's, hence `ScanYieldsToFBS`.  `SerialOK` says, while requests come one by one,
  that the result a handler carries, and from its record on the row, is the relay's
  state unless a late command has come between; and `AskedOK` that a
  refresh asked for while no handler is active has a revision no lower than the row's
  and is not displaced, so what its probe reads gets into the row.  While the record
  of a request that displaced a probe is due, a handler is still active
  (`PublishedLater`).
* *Saves.*  With one save at a time, the open one was built from what the database
  still holds, or has put it there (`SerialSaves`): the memory is behind the
  database exactly between a commit and its publication, and the save is the only one
  at the backup (`AloneStaysAlone`).  `CommittedOK` keeps what
  each save has in hand for the mirror and its backup among the configurations
  that were committed.  That a tool keeps its identity is a lemma about the
  choice of identities (`IdentitiesFact`: an identity is inherited by name first,
  and the new ones lie above the greatest of the table, which a finite table has).
  `CommitKeepsPasswords` compares the two searches, by name and by port, of the
  password merge over the memory and of the identities over the table: while saves do
  not overlap both are the same configuration, whose ports and, with the hypothesis
  that no two names share a key (section 5), names have one row each.
* *Page.*  `OneRequest`: the flags let one status request be under way; so its
  rows, wherever it is, are at least as new as those shown (`AnswersInOrder`), as
  the service's rows only get newer.  `PageUsesService` shows that every step of page
  and server is a step of `StatusService` or leaves it alone: what the page needs of
  the server is what `FleetIsAService` gives.
* *Run.*  `RoomLeft` counts: the errors in `errCh` and the listeners that may
  still report fit the capacity together, so a failed one always finds room;
  `Progressed` says how far each listener is at each stage of the run.  `Watched` pairs
  each listener under way with the goroutine that will shut it down, and `ErrorsKept`
  the failure of one with an error in `errCh` that only the `select` takes out.
* *Archive.*  `WriterMayGo` keeps what the writer saw: until it sends, the lock it
  holds keeps every other sender out, and the worker only makes room.  `InHand`
  ties the record of the worker to the byte count.  What is in the queue is counted
  without a recursion: `Running` is a total over its places, which a send extends
  and a receive shortens at the front.  `BytesRun` is such a total from the record
  in hand to `queuedBytes`, `RecordsRun` one from the records handed over to those
  accepted, in which a queued barrier stands at what it is due.  A barrier that
  reaches the front is therefore due what was handed over (`BarrierInv`), and an
  empty queue under a worker that is done has handed over everything (`DoneInv`).
* *Updater.*  The copies follow the position in the script: intact from the step
  that makes them until nothing can need them (`BinaryCopied`, `DatabaseCopied`),
  and a trial keeps the saves of the database it found (`SavesKept`).  `Sound`
  follows the schema number through trial and rollback.

* *Fleet.*  `WorkersOK` keeps what a scan has in hand apart from what it has yet to
  send and what is through, and `ScanOK` that together they are the enabled tools
  of its configuration as long as the deadline has not passed: so when nothing is left,
  everything is through.  The refinement is by action; a record may be refused by
  the row, and then the step is a stutter.
* *Files.*  `DiskOK` lays the files out as an interval of creation ranks with
  adjoining ranges and times that do not go back; then whatever a cleanup removes
  of them, cut off anywhere, is a beginning of the log, because expired precede
  old and old precede recent files in the listing too.  `ReadingOK` ties an export to
  the disk: no file of its snapshot can go while it holds `archiveMu`, files only
  grow, and what it has sent is the range up to the next file it copies.
  `DiskIsBounded` is inductive with the bound on `bytesSinceGC`; a write adds as many
  bytes to the disk as to the counter (`MoreBytes`), or the cleanup follows.

* *A log.*  `ArchiveIsALog` leaves the files out altogether: what is on disk is a set
  of bytes, a step adds the bytes it wrote at the end or forgets a beginning of them,
  or leaves them alone.  That the bytes kept are always an end of those written needs no
  induction over the files: of the files that begin before a missing byte the newest
  would have no next (`FilesAreAnEnd`).
* *Cleanup.*  The two passes of the loop are one order, since an expired file is an old
  one (`PrecedesOrders`); the removal stops at the first file of that order before which
  enough has gone (`FirstKept`), or nowhere (`CleanupHasAnOutcome`).

Liveness itself is only model-checked, since it needs fairness and ENABLED
(`EveryCallEnds`, `ScanEnds`, `WorkflowEnds`, `FailedListenerEndsRun`, `ShutdownEnds`,
`QueueDrains`, `MaintenanceEnds`).  What it rests on is safety, and is proved: that
whoever waits, waits for something that can still happen, and where the argument needs
it that no step undoes another.

| Liveness (TLC) | Proved for every instance |
|---|---|
| `EveryCallEnds` | `MutualExclusion`: the slot is free or one call has it, whose release does not block; `Preemption`: if that is a probe it is cancelled; `AttemptsRunOut`: the attempts of a call run out |
| `ScanEnds` | `ScanNeverStalls`: the producer or a worker has a step that waits neither for a request nor for the deadline (`FirstWorks`: while there may be something to send the first worker has not left) |
| `WorkflowEnds` | `WorkflowHasItsRequest`: a workflow that loads has a request of its own, the only one, which a restart does not take away |
| `FailedListenerEndsRun` | `ErrorsReachRun`, `SendersNeverBlock`: the error of a failed listener has room, and is kept for the `select` |
| `ShutdownEnds` | `WaitIsServed`: each listener `wg.Wait` waits for has its Shutdown begun or due, or an error to report with room for it |
| `QueueDrains` | `CloseDrains`: after Close every step of the worker lowers `Work`, nothing raises it, and the lock it needs is free; `NoFlushIsStranded`: it does not end over a queued barrier |
| `MaintenanceEnds` | `LockIsServed`: who asked for `archiveMu` waits for exports that had begun before, each of which may end; `CleanupHasAnOutcome`: with the lock, the removal loop reaches one of its two ends |

What the fairness of section 3 adds is that these possible steps are taken.

The theorems of this table, `ArchiveIsALog`, type invariants, and
invariants that others imply (`SlotExclusive` and `NoProbeOvertakes` in
`ImplementsSlot`) or that restate a bound of the code
(`LastAttemptAdvances`, `NoDowngrade`, `FilesFit`) are proved and not repeated in the runs.

## 5. Where the code departs from its documents

`save_ids` ends in the counterexample: a tool that moves to another port and a
new one on its old port inherit one identity (`internal/configstore/store.go:348`);
the valid configuration is refused with a constraint error.

Three more are stated as properties that no run checks; TLC violates each within
seconds when it is added to the configuration named here.

* `RowIsCurrent` (`StatusFlow.cfg`): a revision is taken after the device was given
  back (`internal/fbs/server.go:178`), so two overlapping requests can record in the
  opposite order of their commands; `status/store.go:63-65` promises that an older
  result cannot overwrite a newer one.
* `NoRequestIsCut` (`GatewayRun.cfg`): `ListenAndServe` returns when `Shutdown` begins,
  and nobody waits for `Shutdown` (`internal/fbs/server.go:83-94`, `gateway.go:180`):
  the three seconds for requests in flight are cut off by the exit of the process.
* `FailedReplacementIsRestored` (`Updater.cfg`): a failing `install` ends the script
  under `set -e` (`services/linux/update-linux.sh.in:290`) with the service stopped and
  the binary torn or missing; the guide promises a rollback.

Others are visible in the models and in the comments of their properties:

* Of saves that overlap, the one built from the older snapshot writes the older
  password back (`SerialPasswordsPreserved` is about saves that do not), the memory
  may be left on another committed configuration than the database
  (`MemoryIsDatabase`, `MirrorWasCommitted`), and two that write `config.yaml.bak` at
  the same time may leave parts of both in it (`configstore/store.go:477`, `Mixed`).
* Of two tools whose names differ only in case, both of which keep their password, a
  save gives both the later one (`admin/server.go:338`, `KeysAreNames`).
* A command whose answer did not come in time is recorded as failed, and the device
  may carry it out after that, while the row stays as it is or shows what a probe read
  before (`LateCommand`, `late`).
* A refresh that joins a scan which began before the last command verifies nothing
  (`admin/server.go:493`), though README 899 says that Refresh Status does
  (`RefreshVerifies` is about a refresh that starts its scan).
* A probe displaced by the recovery reboot gets no result from it, although the
  comment at `admin/server.go:584` says that who displaces it publishes one
  (`DisplacedIsPublished` is about FBS requests).
* The run of the updater after a failed restore removes the intact copy of the
  database (`DatabaseIsRecoverable` is about one run).
* A power loss between the two restores of a rollback (`update-linux.sh.in:72-84`) leaves
  the old binary with the schema of the new one, which it refuses to open
  (`ServiceCanOpen` is about runs without faults); the copy of the database is intact.
* Between a save and the restart, a scan takes the devices of the saved
  configuration while the listeners serve the running one, and both write the rows by
  port (`FleetRefresh`: `cfg` and `running`).
* A click on the refresh button while a poll is under way starts no refresh
  (`app.js:388`, `ClickRefresh`), and a save whose answer is lost is announced as
  failed and not followed by a restart, though it is in the database (`SaveFails`).
* A log export that fails after its first bytes ends as a complete response
  (`admin/server.go:698-701`, `ExportFails`).
* `Store.Close` waits for every export and for the disk outside the five seconds of
  `AsyncStore.Close` (`applog/async.go:171`, `MaintenanceEnds`); what ends the exports is
  the end of the Admin server before it.
* A `config.yaml` with a name that occurs twice passes `Validate` and is refused by the
  database at the first start (`Migrate`).

## 6. Not modelled

* Transport, TLS, URL building, error wording: libraries and formatting.
* Static files and headers of the Admin server; the tables, row editing and field
  validation of the page: they keep no state that another actor reads.
* `updateauth`: a pure check whose verdict the updater takes as given.
* The rules of `Validate` for one value at a time; the `config export` and `config
  import` commands.
* Port clearing, installers, build and TLS scripts: external programs run once.
* The macOS and Windows updaters: the Linux one in other languages.

## 7. Plan

What would extend the development:

1. The abstract side of a save, an atomic replacement of the configuration of which a
   crash shows either side, and the refinement by `ConfigSave`.
2. `config import` as a second process beside a running gateway, in `ConfigSave`.

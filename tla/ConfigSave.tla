----------------------------- MODULE ConfigSave -----------------------------
(***************************************************************************)
(* PUT /api/config from the request to the reply: handlePutConfig and its  *)
(* password merge (internal/admin/server.go), Gateway.UpdateConfig         *)
(* (internal/gateway/gateway.go), and Store.replace with the tool          *)
(* identities and the YAML mirror (internal/configstore/store.go).         *)
(* Requests run concurrently; the process may stop at any point and start  *)
(* again from the database, and the first start takes the configuration of *)
(* a config.yaml (loadOrMigrate in cmd/fbs-interlock-gateway/main.go).     *)
(***************************************************************************)
EXTENDS Integers, FiniteSets, FiniteSetsExt

CONSTANTS Puts,       \* the save requests, each made once
          Names,      \* interlock names, as written
          Key(_),     \* a name trimmed and in lower case
          ToolPorts,
          MaxTools,   \* bound on the tools of a configuration
          Changes,    \* what a request may ask for a password
          NoPw, OldPw,
          Uninitialized, \* in place of the rows of a database without configuration
          Empty,      \* no file, or an empty one
          Torn,       \* the beginning of one configuration
          Mixed       \* parts of two

VARIABLES db,          \* the tools table: durable
          mirror, bak, \* config.yaml and config.yaml.bak: durable
          mem,         \* g.cfg
          pc,          \* where a save is
          request,     \* its request
          built,       \* the configuration it builds
          oldData,     \* what it read of config.yaml
          committed,   \* history: the configurations the database has held
          overlapped   \* history: a save was built while another was open

vars == <<db, mirror, bak, mem, pc, request, built, oldData, committed, overlapped>>

Passwords == {NoPw, OldPw} \cup Puts        \* a new one is named after its save
Tools     == [name : Names, port : ToolPorts, pw : Passwords]
Rows      == [id : Nat, name : Names, port : ToolPorts, pw : Passwords]

NoTable   == {Uninitialized}

ASSUME ConfigAssumption ==
  /\ MaxTools \in Nat
  /\ Changes \subseteq {"keep", "clear", "new"}
  /\ Uninitialized \notin Rows

\* A table or a request is a finite list.
Pick(S, T) == {s \in UNION {kSubset(n, S) : n \in 0..T} : IsFiniteSet(s)}

\* config.Validate: duplicate ports are refused.  The table also refuses
\* duplicate names.
DistinctPorts(tools) == \A s, t \in tools : s.port = t.port => s = t
DistinctNames(tools) == \A s, t \in tools : s.name = t.name => s = t

Requests ==
  {r \in Pick([name : Names, port : ToolPorts, pw : Changes], MaxTools) : DistinctPorts(r)}

\* The configuration a table holds.
Config(rows) == {[name |-> r.name, port |-> r.port, pw |-> r.pw] : r \in rows}

StartRows ==
  {rows \in Pick([id : 1..MaxTools, name : Names, port : ToolPorts, pw : {NoPw, OldPw}], MaxTools) :
     /\ DistinctPorts(rows) /\ DistinctNames(rows)
     /\ \A r, s \in rows : r.id = s.id => r = s}

\* What config.yaml may hold when the database is made.
LegacyConfigs ==
  {c \in Pick([name : Names, port : ToolPorts, pw : {NoPw, OldPw}], MaxTools) : DistinctPorts(c)}

Init ==
  /\ \/ /\ db \in StartRows
        /\ mem = Config(db) /\ mirror = Config(db) /\ committed = {Config(db)}
     \/ /\ db = NoTable
        /\ mem = {} /\ mirror \in LegacyConfigs /\ committed = {}
  /\ bak = Empty
  /\ pc = [p \in Puts |-> "idle"]
  /\ request = [p \in Puts |-> {}]
  /\ built = [p \in Puts |-> {}]
  /\ oldData = [p \in Puts |-> {}]
  /\ overlapped = FALSE

-----------------------------------------------------------------------------
\* Mutant: the port is not looked at.
KeptByNameOnly(snapshot, t, p, pw) ==
  LET heirs == {s \in snapshot : Key(s.name) = Key(t.name)}
  IN \/ t.pw = "clear" /\ pw = NoPw
     \/ t.pw = "new" /\ pw = p
     \/ t.pw = "keep" /\ IF heirs = {} THEN pw = NoPw ELSE \E s \in heirs : pw = s.pw

\* requestedPassword over the snapshot: cleared, replaced, or kept by
\* normalized name, else by port.  When two names of the snapshot share a key
\* the later one wins; their order is arbitrary here.
Kept(snapshot, t, p, pw) ==
  LET sameKey  == {s \in snapshot : Key(s.name) = Key(t.name)}
      samePort == {s \in snapshot : s.port = t.port}
      heirs    == IF sameKey # {} THEN sameKey ELSE samePort
  IN \/ t.pw = "clear" /\ pw = NoPw
     \/ t.pw = "new" /\ pw = p
     \/ t.pw = "keep" /\ IF heirs = {} THEN pw = NoPw ELSE \E s \in heirs : pw = s.pw

Open(p) == pc[p] \notin {"idle", "saved", "refused", "lost"}

\* ConfigSnapshot and buildUpdatedConfig: the only read of the shared state.
Build(p) ==
  /\ pc[p] = "idle" /\ db # NoTable
  /\ \E r \in Requests : \E pw \in [r -> Passwords] :
       /\ \A t \in r : Kept(mem, t, p, pw[t])
       /\ request' = [request EXCEPT ![p] = r]
       /\ built' = [built EXCEPT ![p] =
                      {[name |-> t.name, port |-> t.port, pw |-> pw[t]] : t \in r}]
  /\ pc' = [pc EXCEPT ![p] = "built"]
  /\ overlapped' = (overlapped \/ \E other \in Puts : Open(other))
  /\ UNCHANGED <<db, mirror, bak, mem, oldData, committed>>

\* Mutant: the row on the same port is preferred.
InheritsPort(rows, t) ==
  LET samePort == {r \in rows : r.port = t.port}
  IN IF samePort # {} THEN samePort ELSE {r \in rows : Key(r.name) = Key(t.name)}

\* The row whose identity a tool inherits: the one whose name has the same key,
\* if that is unique, else the one on the same port.
Inherits(rows, t) ==
  LET sameKey == {r \in rows : Key(r.name) = Key(t.name)}
  IN IF Cardinality(sameKey) = 1 THEN sameKey ELSE {r \in rows : r.port = t.port}

NextId(rows) == 1 + Max({0} \cup {r.id : r \in rows})

\* The ids replace gives the tools: inherited, or new ones in some order.
Identities(rows, tools) ==
  LET new == {t \in tools : Inherits(rows, t) = {}}
  IN {id \in [tools -> 1..(NextId(rows) + Cardinality(new) - 1)] :
        /\ \A t \in tools \ new : \E r \in Inherits(rows, t) : id[t] = r.id
        /\ \A t \in new : id[t] >= NextId(rows)
        /\ \A s, t \in new : id[s] = id[t] => s = t}

\* The table with these tools and identities.
Stored(tools, id) ==
  {[id |-> id[t], name |-> t.name, port |-> t.port, pw |-> t.pw] : t \in tools}

UniqueIds(id) == \A s, t \in DOMAIN id : id[s] = id[t] => s = t

\* Mutant: the error of the transaction is ignored.
CommitIgnoringErrors(p) ==
  /\ pc[p] = "built"
  /\ \E id \in Identities(db, built[p]) :
       IF DistinctNames(built[p]) /\ UniqueIds(id)
       THEN /\ db' = Stored(built[p], id)
            /\ committed' = committed \cup {built[p]}
       ELSE UNCHANGED <<db, committed>>
  /\ pc' = [pc EXCEPT ![p] = "committed"]
  /\ UNCHANGED <<mirror, bak, mem, request, built, oldData, overlapped>>

\* Mutant: the memory is replaced before the database is asked.
CommitAfterPublish(p) ==
  /\ pc[p] = "built"
  /\ mem' = built[p]
  /\ \E id \in Identities(db, built[p]) :
       IF DistinctNames(built[p]) /\ UniqueIds(id)
       THEN /\ db' = Stored(built[p], id)
            /\ committed' = committed \cup {built[p]}
            /\ pc' = [pc EXCEPT ![p] = "committed"]
       ELSE /\ pc' = [pc EXCEPT ![p] = "refused"]
            /\ UNCHANGED <<db, committed>>
  /\ UNCHANGED <<mirror, bak, request, built, oldData, overlapped>>

\* The transaction: the table is replaced, or a constraint fails and it is
\* rolled back.  The database has one connection, so it is atomic.
Commit(p) ==
  /\ pc[p] = "built"
  /\ \E id \in Identities(db, built[p]) :
       IF DistinctNames(built[p]) /\ UniqueIds(id)
       THEN /\ db' = Stored(built[p], id)
            /\ committed' = committed \cup {built[p]}
            /\ pc' = [pc EXCEPT ![p] = "committed"]
       ELSE /\ pc' = [pc EXCEPT ![p] = "refused"]
            /\ UNCHANGED <<db, committed>>
  /\ UNCHANGED <<mirror, bak, mem, request, built, oldData, overlapped>>

\* What os.WriteFile leaves when it writes data from offset 0 of the file it has
\* opened: when others have written since it truncated the file, a longer text
\* of theirs shows behind its own.
Written(file, data) == IF file \in {Empty, data} THEN {data} ELSE {data, Mixed}

\* And when its writing is cut short.
CutShort(file, data) ==
  IF file = Empty THEN {Empty, Torn}
  ELSE IF file = data THEN {data} ELSE {file, Torn, Mixed}

\* writeGeneratedMirror, after the transaction and outside any lock: read the
\* old file, truncate the backup, write the old file there, then rename the
\* new file over the old one.  A failure is only logged.
OpenBackup(p) ==
  /\ pc[p] = "committed"
  /\ oldData' = [oldData EXCEPT ![p] = mirror]
  /\ bak' = Empty
  /\ pc' = [pc EXCEPT ![p] = "backingUp"]
  /\ UNCHANGED <<db, mirror, mem, request, built, committed, overlapped>>

WriteBackup(p) ==
  /\ pc[p] = "backingUp"
  /\ bak' \in Written(bak, oldData[p])
  /\ pc' = [pc EXCEPT ![p] = "backedUp"]
  /\ UNCHANGED <<db, mirror, mem, request, built, oldData, committed, overlapped>>

RenameMirror(p) ==
  /\ pc[p] = "backedUp"
  /\ mirror' = built[p]
  /\ pc' = [pc EXCEPT ![p] = "replaced"]
  /\ UNCHANGED <<db, bak, mem, request, built, oldData, committed, overlapped>>

MirrorFails(p) ==
  /\ pc[p] \in {"committed", "backingUp", "backedUp"}
  /\ bak' \in IF pc[p] = "backingUp" THEN CutShort(bak, oldData[p]) ELSE {bak}
  /\ pc' = [pc EXCEPT ![p] = "replaced"]
  /\ UNCHANGED <<db, mirror, mem, request, built, oldData, committed, overlapped>>

\* g.cfg = newCfg under the mutex, and the reply.
Publish(p) ==
  /\ pc[p] = "replaced"
  /\ mem' = built[p]
  /\ pc' = [pc EXCEPT ![p] = "saved"]
  /\ oldData' = [oldData EXCEPT ![p] = {}]      \* the locals end with the call
  /\ UNCHANGED <<db, mirror, bak, request, built, committed, overlapped>>

\* The first start: Initialize in one transaction, without a mirror, so that the
\* human's file stays as it is.  With a name that occurs twice, which Validate
\* does not look at, it is refused, and the gateway does not start.
Migrate ==
  /\ db = NoTable
  /\ IF DistinctNames(mirror)
     THEN /\ \E id \in Identities({}, mirror) : db' = Stored(mirror, id)
          /\ mem' = mirror /\ committed' = {mirror}
     ELSE UNCHANGED <<db, mem, committed>>
  /\ UNCHANGED <<mirror, bak, pc, request, built, oldData, overlapped>>

\* The process stops while nobody writes the backup, or one save, or several.
BackupStops ==
  \/ UNCHANGED bak
  \/ \E p \in Puts : pc[p] = "backingUp" /\ bak' \in CutShort(bak, oldData[p])
  \/ /\ \E p, q \in Puts : p # q /\ pc[p] = "backingUp" /\ pc[q] = "backingUp"
     /\ bak' \in {Torn, Mixed}

\* The process stops anywhere and starts again: open saves are gone, the
\* configuration is loaded from the database.
Restart ==
  /\ db # NoTable
  /\ mem' = Config(db)
  /\ BackupStops
  /\ pc' = [p \in Puts |-> IF Open(p) THEN "lost" ELSE pc[p]]
  /\ oldData' = [p \in Puts |-> {}]
  /\ UNCHANGED <<db, mirror, request, built, committed, overlapped>>

Save(p) ==
  \/ Build(p) \/ Commit(p) \/ OpenBackup(p) \/ WriteBackup(p) \/ RenameMirror(p)
  \/ MirrorFails(p) \/ Publish(p)

Next == Migrate \/ Restart \/ \E p \in Puts : Save(p)

Spec == Init /\ [][Next]_vars

-----------------------------------------------------------------------------
TypeOK ==
  /\ db \in (SUBSET Rows) \cup {NoTable}
  /\ mirror \in SUBSET Tools /\ mem \in SUBSET Tools
  /\ bak \in (SUBSET Tools) \cup {Empty, Torn, Mixed}
  /\ pc \in [Puts -> {"idle", "built", "committed", "backingUp", "backedUp", "replaced",
                      "saved", "refused", "lost"}]
  /\ request \in [Puts -> SUBSET [name : Names, port : ToolPorts, pw : Changes]]
  /\ built \in [Puts -> SUBSET Tools] /\ oldData \in [Puts -> SUBSET Tools]
  /\ committed \subseteq SUBSET Tools
  /\ overlapped \in BOOLEAN

\* Rows of the same name, if it occurs once, have the same identity.
KeepsIdentities ==
  \A r \in db, s \in db' :
    /\ Key(r.name) = Key(s.name)
    /\ Cardinality({q \in db : Key(q.name) = Key(r.name)}) = 1
    => r.id = s.id

\* A tool that keeps its name keeps its identity in every save, whatever other
\* tools are renamed, moved or take over its port.
IdentityFollowsName == [][db # NoTable => KeepsIdentities]_vars

\* What the gateway runs on and the mirror are whole configurations that were
\* committed, through failures and restarts and however saves interleave: with
\* two, not always the last one.  So is the backup, which is written in place,
\* unless its writing was cut short.  Only saves that overlap can leave parts of
\* two configurations in it.  What the database refused is in none of them.
MirrorWasCommitted ==
  db # NoTable =>
    /\ mem \in committed /\ mirror \in committed
    /\ bak \in committed \cup {Empty, Torn} \cup (IF overlapped THEN {Mixed} ELSE {})

\* While no save is between its commit and its reply, the gateway runs on what
\* the database holds, as long as saves come one by one: a refused, failed or
\* interrupted save leaves no trace.
MemoryIsDatabase ==
  ~overlapped /\ db # NoTable
    /\ (\A p \in Puts : pc[p] \notin {"committed", "backingUp", "backedUp", "replaced"})
      => mem = Config(db)

\* The commit of p leaves every tool whose password it was asked to keep with the
\* password of the row whose identity it inherits, and a new tool with none.
KeepsPasswords(p) ==
  pc[p] = "built" /\ pc'[p] = "committed" =>
    \A t \in request[p], s \in db' :
      t.pw = "keep" /\ s.port = t.port =>
        \/ \E r \in db : r.id = s.id /\ r.pw = s.pw
        \/ s.pw = NoPw /\ \A r \in db : r.id # s.id

\* No two names differ in nothing but case and surrounding space.
KeysAreNames == \A a, b \in Names : Key(a) = Key(b) => a = b

\* README 996: a save preserves the password of a tool that the request does
\* not ask to replace or clear.  Two pieces of code decide which tool that is,
\* requestedPassword over the memory (server.go:391-402) and replace over the
\* table (store.go:340-356), and they agree: the password and the identity of a
\* tool come from one row, whatever is renamed, moved or exchanged, and after
\* refused saves and restarts.  It holds while saves come one by one and no two
\* names differ only in case: of two saves that overlap, the one built from the
\* older snapshot writes the older password back.
SerialPasswordsPreserved == [][~overlapped => \A p \in Puts : KeepsPasswords(p)]_vars

\* README 996: a valid configuration is accepted; a save is refused only for a
\* name that occurs twice.
ValidIsAccepted == \A p \in Puts : pc[p] = "refused" => ~DistinctNames(built[p])
=============================================================================

---------------------------- MODULE Admin_proofs ----------------------------
(***************************************************************************)
(* Proofs about the Admin server's saves (ConfigSave) and the page that    *)
(* asks for them (AdminPage), for any number of saves and requests, any    *)
(* names, ports and key, and every crash and restart.                      *)
(***************************************************************************)
EXTENDS ConfigSave, AdminPage, TLAPS, FiniteSetTheorems, FunctionTheorems,
        WellFoundedInduction

-----------------------------------------------------------------------------
(* Saves *)

\* A save between its commit and its reply.
Committing == {"committed", "backingUp", "backedUp", "replaced"}

\* One row to an identity.
DistinctIds(rows) == \A r, s \in rows : r.id = s.id => r = s

\* The table is finite and keeps its constraints, and no port occurs twice, as
\* in the requests.  Before there is one, nothing was saved.
TableOK ==
  /\ db # NoTable =>
       IsFiniteSet(db) /\ DistinctNames(db) /\ DistinctIds(db) /\ DistinctPorts(db)
  /\ db = NoTable =>
       /\ IsFiniteSet(mirror) /\ DistinctPorts(mirror)
       /\ bak = Empty /\ \A p \in Puts : pc[p] = "idle"
  /\ \A p \in Puts :
       IsFiniteSet(built[p]) /\ DistinctPorts(request[p]) /\ DistinctPorts(built[p])

\* What the database holds, what a save has committed, and what it read of the
\* mirror, was committed.
CommittedOK ==
  /\ db # NoTable => Config(db) \in committed
  /\ \A p \in Puts :
       /\ pc[p] \in Committing => built[p] \in committed
       /\ pc[p] \in {"backingUp", "backedUp"} => oldData[p] \in committed

\* A set of tools that answers a request made over the snapshot.
Answers(tools, req, snapshot, p) ==
  \E pw \in [req -> Passwords] :
    /\ \A t \in req : Kept(snapshot, t, p, pw[t])
    /\ tools = {[name |-> t.name, port |-> t.port, pw |-> pw[t]] : t \in req}

\* While saves come one by one, the open one has built its configuration from what
\* the database still holds, or has put it there, and is alone in the backup.
SerialSaves ==
  ~overlapped =>
    /\ \A p, q \in Puts : Open(p) /\ Open(q) => p = q
    /\ \A p \in Puts : pc[p] = "built" => Answers(built[p], request[p], Config(db), p)
    /\ \A p \in Puts : pc[p] \in Committing => built[p] = Config(db)
    /\ \A p \in Puts : pc[p] = "backingUp" => bak = Empty

ConfigInv ==
  /\ TypeOK
  /\ TableOK
  /\ CommittedOK
  /\ MirrorWasCommitted
  /\ SerialSaves
  /\ MemoryIsDatabase

-----------------------------------------------------------------------------
\* A finite set of natural numbers has a greatest element.
LEMMA FiniteHasMax ==
  ASSUME NEW S \in SUBSET Nat, IsFiniteSet(S), S # {}
  PROVE  \E m \in S : \A n \in S : m >= n
  <1> DEFINE HasMax(T) == \E m \in T : \A n \in T : m >= n
             Bad == {c \in Nat : \E T \in SUBSET Nat :
                       IsFiniteSet(T) /\ Cardinality(T) = c /\ T # {} /\ ~HasMax(T)}
  <1>1. SUFFICES ASSUME Bad # {} PROVE FALSE
    <2>1. Cardinality(S) \in Nat
      BY FS_CardinalityType
    <2>2. QED
      BY <2>1
  <1>2. PICK c \in Bad : \A b \in Bad : ~ (<<b, c>> \in OpToRel(<, Nat))
    BY <1>1, NatLessThanWellFounded, WFMin
  <1>3. PICK T \in SUBSET Nat : IsFiniteSet(T) /\ Cardinality(T) = c /\ T # {} /\ ~HasMax(T)
    OBVIOUS
  <1>4. PICK x \in T : TRUE
    BY <1>3
  <1>5. IsFiniteSet(T \ {x}) /\ Cardinality(T \ {x}) = c - 1
    BY <1>3, FS_RemoveElement
  <1>6. Cardinality(T \ {x}) \in Nat
    BY <1>5, FS_CardinalityType
  <1>7. <<c - 1, c>> \in OpToRel(<, Nat)
    BY <1>5, <1>6 DEF OpToRel
  <1>8. c - 1 \notin Bad
    BY <1>2, <1>7
  <1>9. T \ {x} = {} \/ HasMax(T \ {x})
    BY <1>5, <1>6, <1>8
  <1>10. HasMax(T)
    <2>1. CASE T \ {x} = {}
      BY <2>1
    <2>2. CASE HasMax(T \ {x})
      <3>1. PICK m \in T \ {x} : \A n \in T \ {x} : m >= n
        BY <2>2
      <3>2. (\A n \in T : m >= n) \/ (\A n \in T : x >= n)
        BY <3>1
      <3>3. QED
        BY <3>2
    <2>3. QED
      BY <1>9, <2>1, <2>2
  <1>11. QED
    BY <1>3, <1>10

\* The image of a finite set.
LEMMA ImageIsFinite ==
  ASSUME NEW S, NEW T, NEW f \in [S -> T], IsFiniteSet(S), \A y \in T : \E x \in S : f[x] = y
  PROVE  IsFiniteSet(T)
  <1>1. f \in Surjection(S, T)
    BY DEF Surjection
  <1>2. QED
    BY <1>1, FS_Surjection

\* NextId is a number above every identity of the table.
LEMMA NextIdFact ==
  ASSUME NEW rows \in SUBSET Rows, IsFiniteSet(rows)
  PROVE  NextId(rows) \in Nat /\ \A r \in rows : r.id < NextId(rows)
  <1> DEFINE ids == {r.id : r \in rows}
  <1>1. ids \in SUBSET Nat
    BY DEF Rows
  <1>2. IsFiniteSet(ids)
    <2>1. [r \in rows |-> r.id] \in [rows -> ids]
      OBVIOUS
    <2>2. \A y \in ids : \E x \in rows : [r \in rows |-> r.id][x] = y
      OBVIOUS
    <2>3. QED
      BY <2>1, <2>2, ImageIsFinite
  <1>3. IsFiniteSet({0} \cup ids)
    <2>1. IsFiniteSet(ids \cup {0})
      BY <1>2, FS_AddElement
    <2>2. ids \cup {0} = {0} \cup ids
      OBVIOUS
    <2>3. QED
      BY <2>1, <2>2
  <1> HIDE DEF ids
  <1>4. \E m \in {0} \cup ids : \A n \in {0} \cup ids : m >= n
    <2>1. {0} \cup ids \in SUBSET Nat /\ {0} \cup ids # {}
      BY <1>1
    <2>2. QED
      BY <2>1, <1>3, FiniteHasMax
  <1>5. /\ Max({0} \cup ids) \in {0} \cup ids
        /\ \A n \in {0} \cup ids : Max({0} \cup ids) >= n
    BY <1>4 DEF Max
  <1>6. NextId(rows) = 1 + Max({0} \cup ids)
    BY DEF NextId, ids
  <1>7. \A r \in rows : r.id \in ids
    BY DEF ids
  <1>8. Max({0} \cup ids) \in Nat
    <2>1. \A n \in {0} \cup ids : n \in Nat
      BY <1>1
    <2>2. QED
      BY <1>5, <2>1, Zenon
  <1>9. \A n \in ids : n \in Nat /\ n < 1 + Max({0} \cup ids)
    BY <1>1, <1>5, <1>8
  <1>10. QED
    BY <1>6, <1>7, <1>8, <1>9

\* The identities of a finite configuration are numbers.
LEMMA IdentitiesFact ==
  ASSUME NEW rows \in SUBSET Rows, IsFiniteSet(rows),
         NEW tools \in SUBSET Tools, IsFiniteSet(tools),
         NEW id \in Identities(rows, tools)
  PROVE  /\ id \in [tools -> Nat]
         /\ \A t \in tools : Inherits(rows, t) # {} =>
              \E r \in Inherits(rows, t) : id[t] = r.id
  <1> DEFINE new == {t \in tools : Inherits(rows, t) = {}}
  <1>1. Cardinality(new) \in Nat
    BY FS_Subset, FS_CardinalityType
  <1>2. NextId(rows) \in Nat
    BY NextIdFact
  <1>3. 1..(NextId(rows) + Cardinality(new) - 1) \subseteq Nat
    BY <1>1, <1>2
  <1>4. id \in [tools -> 1..(NextId(rows) + Cardinality(new) - 1)]
    BY DEF Identities
  <1>5. \A t \in tools \ new : \E r \in Inherits(rows, t) : id[t] = r.id
    BY DEF Identities
  <1>6. QED
    BY <1>3, <1>4, <1>5

\* The table that stores a configuration: it holds that configuration, it is a
\* finite table, and its names, ports and identities are distinct if the
\* configuration's are.
LEMMA StoredFact ==
  ASSUME NEW tools \in SUBSET Tools, IsFiniteSet(tools), NEW id \in [tools -> Nat]
  PROVE  /\ Config(Stored(tools, id)) = tools
         /\ Stored(tools, id) \in SUBSET Rows /\ Stored(tools, id) # NoTable
         /\ IsFiniteSet(Stored(tools, id))
         /\ DistinctNames(tools) => DistinctNames(Stored(tools, id))
         /\ DistinctPorts(tools) => DistinctPorts(Stored(tools, id))
         /\ UniqueIds(id) => DistinctIds(Stored(tools, id))
  <1> DEFINE Row(t) == [id |-> id[t], name |-> t.name, port |-> t.port, pw |-> t.pw]
  <1>1. Stored(tools, id) = {Row(t) : t \in tools}
    BY DEF Stored
  <1>2. \A t \in tools : /\ Row(t) \in Rows
                         /\ t = [name |-> t.name, port |-> t.port, pw |-> t.pw]
    BY DEF Tools, Rows
  <1>3. Config(Stored(tools, id)) = tools
    <2>1. \A c : c \in Config(Stored(tools, id)) <=> \E t \in tools :
                  c = [name |-> Row(t).name, port |-> Row(t).port, pw |-> Row(t).pw]
      BY <1>1 DEF Config
    <2>2. \A t \in tools : t = [name |-> Row(t).name, port |-> Row(t).port, pw |-> Row(t).pw]
      BY <1>2
    <2> HIDE DEF Row
    <2>3. QED
      BY <2>1, <2>2
  <1>4. Stored(tools, id) \in SUBSET Rows /\ Stored(tools, id) # NoTable
    BY <1>1, <1>2, ConfigAssumption DEF NoTable
  <1>5. IsFiniteSet(Stored(tools, id))
    <2>1. [t \in tools |-> Row(t)] \in [tools -> Stored(tools, id)]
      BY <1>1
    <2>2. \A y \in Stored(tools, id) : \E x \in tools : [t \in tools |-> Row(t)][x] = y
      BY <1>1
    <2>3. QED
      BY <2>1, <2>2, ImageIsFinite
  <1>6. ASSUME DistinctNames(tools) PROVE DistinctNames(Stored(tools, id))
    BY <1>1, <1>6 DEF DistinctNames
  <1>7. ASSUME DistinctPorts(tools) PROVE DistinctPorts(Stored(tools, id))
    BY <1>1, <1>7 DEF DistinctPorts
  <1>8. ASSUME UniqueIds(id) PROVE DistinctIds(Stored(tools, id))
    BY <1>1, <1>8 DEF UniqueIds, DistinctIds
  <1>9. QED
    BY <1>3, <1>4, <1>5, <1>6, <1>7, <1>8

\* The database starts empty, or with tables that are in order.
LEMMA ConfigInit == Init => ConfigInv
  <1> SUFFICES ASSUME Init PROVE ConfigInv
    OBVIOUS
  <1>1. \A S, T : \A s \in Pick(S, T) : s \in SUBSET S /\ IsFiniteSet(s)
    BY DEF Pick, kSubset
  <1>2. \A s \in SUBSET Rows : Config(s) \in SUBSET Tools /\ s # NoTable
    BY ConfigAssumption DEF Config, Rows, Tools, NoTable
  <1>3. IsFiniteSet({})
    BY FS_EmptySet
  <1>4. /\ pc = [p \in Puts |-> "idle"] /\ request = [p \in Puts |-> {}]
        /\ built = [p \in Puts |-> {}] /\ oldData = [p \in Puts |-> {}]
        /\ bak = Empty /\ ~overlapped /\ overlapped \in BOOLEAN
    BY DEF Init
  <1>5. SerialSaves /\ ((db # NoTable => Config(db) \in committed) => CommittedOK)
    BY <1>4 DEF SerialSaves, CommittedOK, Committing, Open
  <1>6. \A p \in Puts :
          IsFiniteSet(built[p]) /\ DistinctPorts(request[p]) /\ DistinctPorts(built[p])
    BY <1>3, <1>4 DEF DistinctPorts
  <1>7. CASE db \in StartRows /\ mem = Config(db) /\ mirror = Config(db) /\ committed = {Config(db)}
    <2>1. /\ db \in SUBSET Rows /\ IsFiniteSet(db) /\ DistinctNames(db)
          /\ DistinctIds(db) /\ DistinctPorts(db)
      <3>1. db \in SUBSET [id : 1..MaxTools, name : Names, port : ToolPorts, pw : {NoPw, OldPw}]
              /\ IsFiniteSet(db)
        BY <1>1, <1>7 DEF StartRows
      <3>2. \A r \in [id : 1..MaxTools, name : Names, port : ToolPorts, pw : {NoPw, OldPw}] : r \in Rows
        BY ConfigAssumption DEF Rows, Passwords
      <3>3. QED
        BY <1>7, <3>1, <3>2 DEF StartRows, DistinctIds
    <2>2. db # NoTable /\ Config(db) \in SUBSET Tools
      BY <1>2, <2>1
    <2>3. TypeOK
      BY <1>4, <1>7, <2>1, <2>2 DEF TypeOK
    <2>4. TableOK /\ MirrorWasCommitted /\ MemoryIsDatabase
      BY <1>6, <1>4, <1>7, <2>1, <2>2 DEF TableOK, MirrorWasCommitted, MemoryIsDatabase
    <2>5. QED
      BY <1>5, <1>7, <2>3, <2>4 DEF ConfigInv
  <1>8. CASE db = NoTable /\ mem = {} /\ mirror \in LegacyConfigs /\ committed = {}
    <2>1. mirror \in SUBSET Tools /\ IsFiniteSet(mirror) /\ DistinctPorts(mirror)
      <3>1. mirror \in SUBSET [name : Names, port : ToolPorts, pw : {NoPw, OldPw}]
              /\ IsFiniteSet(mirror) /\ DistinctPorts(mirror)
        BY <1>1, <1>8 DEF LegacyConfigs
      <3>2. \A t \in [name : Names, port : ToolPorts, pw : {NoPw, OldPw}] : t \in Tools
        BY DEF Tools, Passwords
      <3>3. QED
        BY <3>1, <3>2
    <2>2. TypeOK
      <3>1. db \in (SUBSET Rows) \cup {NoTable}
        BY <1>8
      <3>2. mem \in SUBSET Tools /\ committed \subseteq SUBSET Tools /\ bak = Empty
        BY <1>4, <1>8
      <3>3. /\ pc \in [Puts -> {"idle"}]
            /\ request \in [Puts -> SUBSET [name : Names, port : ToolPorts, pw : Changes]]
            /\ built \in [Puts -> SUBSET Tools] /\ oldData \in [Puts -> SUBSET Tools]
        BY <1>4
      <3>4. QED
        BY <1>4, <2>1, <3>1, <3>2, <3>3 DEF TypeOK
    <2>3. TableOK /\ MirrorWasCommitted /\ MemoryIsDatabase
      BY <1>6, <1>4, <1>8, <2>1 DEF TableOK, MirrorWasCommitted, MemoryIsDatabase
    <2>4. QED
      BY <1>5, <1>8, <2>2, <2>3 DEF ConfigInv
  <1>9. QED
    BY <1>7, <1>8 DEF Init

\* What a stop leaves of the backup: with one writer, what it was, or the
\* beginning of a configuration.
LEMMA InterruptedFact ==
  ASSUME ConfigInv, Restart
  PROVE  bak' \in {bak, Empty, Torn} \cup (IF overlapped THEN {Mixed} ELSE {})
  <1> USE DEF Restart, BackupStops
  <1>1. CASE overlapped
    <2>1. \A p \in Puts : CutShort(bak, oldData[p]) \subseteq {bak, Empty, Torn, Mixed}
      BY DEF CutShort
    <2>2. QED
      BY <1>1, <2>1
  <1>2. CASE ~overlapped
    <2>1. \A p, q \in Puts : pc[p] = "backingUp" /\ pc[q] = "backingUp" => p = q
      BY <1>2 DEF ConfigInv, SerialSaves, Open
    <2>2. \A p \in Puts : pc[p] = "backingUp" => CutShort(bak, oldData[p]) \subseteq {Empty, Torn}
      BY <1>2 DEF ConfigInv, SerialSaves, CutShort
    <2>3. QED
      BY <2>1, <2>2
  <1>3. QED
    BY <1>1, <1>2

\* The steps that replace the table or the memory as a whole.
LEMMA ProcessStepInv ==
  ASSUME ConfigInv, Migrate \/ Restart \/ UNCHANGED vars
  PROVE  ConfigInv'
  <1> USE DEF ConfigInv
  <1>1. CASE Migrate
    <2> USE <1>1 DEF Migrate
    <2>1. CASE DistinctNames(mirror)
      <3>1. PICK id \in Identities({}, mirror) : db' = Stored(mirror, id)
        BY <2>1
      <3>2. mirror \in SUBSET Tools /\ IsFiniteSet(mirror) /\ DistinctPorts(mirror)
              /\ bak = Empty /\ \A p \in Puts : pc[p] = "idle"
        BY DEF TypeOK, TableOK
      <3>3. id \in [mirror -> Nat]
        <4>1. {} \in SUBSET Rows /\ IsFiniteSet({})
          BY FS_EmptySet
        <4>2. QED
          BY <3>1, <3>2, <4>1, IdentitiesFact
      <3>4. UniqueIds(id)
        <4>1. {r \in {} : TRUE} = {}
          OBVIOUS
        <4>2. \A t \in mirror : Inherits({}, t) = {}
          BY <4>1 DEF Inherits
        <4>3. {t \in mirror : Inherits({}, t) = {}} = mirror
          BY <4>2
        <4>4. \A s, t \in mirror : id[s] = id[t] => s = t
          BY <3>1, <4>3 DEF Identities
        <4>5. QED
          BY <3>3, <4>4 DEF UniqueIds
      <3>9. /\ Config(db') = mirror /\ db' \in SUBSET Rows /\ db' # NoTable
            /\ IsFiniteSet(db') /\ DistinctNames(db')
            /\ DistinctIds(db') /\ DistinctPorts(db')
        BY <2>1, <3>1, <3>2, <3>3, <3>4, StoredFact
      <3>5. TypeOK'
        BY <2>1, <3>2, <3>9 DEF TypeOK
      <3>6. TableOK' /\ CommittedOK'
        BY <3>2, <3>9 DEF TableOK, CommittedOK, Committing
      <3>7. MirrorWasCommitted' /\ SerialSaves' /\ MemoryIsDatabase'
        BY <2>1, <3>2, <3>9 DEF MirrorWasCommitted, SerialSaves, MemoryIsDatabase, Open, Committing
      <3>8. QED
        BY <3>5, <3>6, <3>7
    <2>2. CASE ~DistinctNames(mirror)
      BY <2>2 DEF TypeOK, TableOK, CommittedOK, MirrorWasCommitted, SerialSaves,
         MemoryIsDatabase, Open
    <2>3. QED
      BY <2>1, <2>2
  <1>2. CASE Restart
    <2> USE <1>2 DEF Restart
    <2>1. \A p \in Puts : ~Open(p)' /\ pc'[p] \notin Committing /\ pc'[p] # "built"
      BY DEF TypeOK, Open, Committing
    <2>7. bak' \in {bak, Empty, Torn} \cup (IF overlapped THEN {Mixed} ELSE {})
      BY InterruptedFact
    <2>2. TypeOK'
      <3>1. mem' \in SUBSET Tools
        <4>1. db \in SUBSET Rows
          BY DEF TypeOK
        <4>2. QED
          BY <4>1 DEF Config, Rows, Tools
      <3>2. pc' \in [Puts -> {"idle", "built", "committed", "backingUp", "backedUp", "replaced",
                             "saved", "refused", "lost"}]
        BY DEF TypeOK
      <3>3. bak' \in (SUBSET Tools) \cup {Empty, Torn, Mixed}
        BY <2>7 DEF TypeOK
      <3>4. QED
        BY <3>1, <3>2, <3>3 DEF TypeOK
    <2>3. TableOK' /\ CommittedOK'
      BY <2>1 DEF TableOK, CommittedOK, Committing
    <2>4. MirrorWasCommitted' /\ MemoryIsDatabase'
      BY <2>7 DEF MirrorWasCommitted, MemoryIsDatabase, CommittedOK
    <2>5. SerialSaves'
      BY <2>1 DEF SerialSaves, Committing
    <2>6. QED
      BY <2>2, <2>3, <2>4, <2>5
  <1>3. CASE UNCHANGED vars
    BY <1>3 DEF vars, TypeOK, TableOK, CommittedOK, MirrorWasCommitted, SerialSaves,
       MemoryIsDatabase, Open
  <1>4. QED
    BY <1>1, <1>2, <1>3

\* A request is finite, and so is the configuration built for it.
LEMMA BuiltFact ==
  ASSUME NEW p \in Puts, NEW r \in Requests, NEW pw \in [r -> Passwords]
  PROVE  LET tools == {[name |-> t.name, port |-> t.port, pw |-> pw[t]] : t \in r}
         IN  /\ r \in SUBSET [name : Names, port : ToolPorts, pw : Changes] /\ DistinctPorts(r)
             /\ tools \in SUBSET Tools /\ IsFiniteSet(tools) /\ DistinctPorts(tools)
  <1> DEFINE Tool(t) == [name |-> t.name, port |-> t.port, pw |-> pw[t]]
             tools == {Tool(t) : t \in r}
  <1>1. r \in SUBSET [name : Names, port : ToolPorts, pw : Changes] /\ IsFiniteSet(r)
          /\ DistinctPorts(r)
    BY DEF Requests, Pick, kSubset
  <1>2. tools \in SUBSET Tools
    BY <1>1 DEF Tools
  <1>3. IsFiniteSet(tools)
    <2>1. [t \in r |-> Tool(t)] \in [r -> tools]
      OBVIOUS
    <2>2. \A y \in tools : \E x \in r : [t \in r |-> Tool(t)][x] = y
      OBVIOUS
    <2> HIDE DEF tools
    <2>3. QED
      BY <1>1, <2>1, <2>2, ImageIsFinite
  <1>4. DistinctPorts(tools)
    BY <1>1 DEF DistinctPorts
  <1>5. QED
    BY <1>1, <1>2, <1>3, <1>4

\* A configuration built from a request and the memory: its passwords are the ones
\* asked for.
LEMMA BuildInv ==
  ASSUME ConfigInv, NEW p \in Puts, Build(p)
  PROVE  ConfigInv'
  <1> USE DEF ConfigInv, Build
  <1>0. PICK r \in Requests : \E pw \in [r -> Passwords] :
          /\ \A t \in r : Kept(mem, t, p, pw[t])
          /\ request' = [request EXCEPT ![p] = r]
          /\ built' = [built EXCEPT ![p] =
                         {[name |-> t.name, port |-> t.port, pw |-> pw[t]] : t \in r}]
    OBVIOUS
  <1>1. PICK pw \in [r -> Passwords] :
          /\ \A t \in r : Kept(mem, t, p, pw[t])
          /\ request' = [request EXCEPT ![p] = r]
          /\ built' = [built EXCEPT ![p] =
                         {[name |-> t.name, port |-> t.port, pw |-> pw[t]] : t \in r}]
    BY <1>0
  <1> DEFINE tools == {[name |-> t.name, port |-> t.port, pw |-> pw[t]] : t \in r}
  <1>2. /\ r \in SUBSET [name : Names, port : ToolPorts, pw : Changes] /\ DistinctPorts(r)
        /\ tools \in SUBSET Tools /\ IsFiniteSet(tools) /\ DistinctPorts(tools)
    BY BuiltFact
  <1>3. /\ built'[p] = tools /\ request'[p] = r /\ pc'[p] = "built"
        /\ \A q \in Puts \ {p} : built'[q] = built[q] /\ request'[q] = request[q] /\ pc'[q] = pc[q]
    BY <1>1 DEF TypeOK
  <1>4. Answers(tools, r, mem, p)
    BY <1>1 DEF Answers
  <1> HIDE DEF tools
  <1>5. TypeOK'
    <2>1. request' \in [Puts -> SUBSET [name : Names, port : ToolPorts, pw : Changes]]
            /\ built' \in [Puts -> SUBSET Tools]
      BY <1>1, <1>2 DEF TypeOK, tools
    <2>2. overlapped' \in BOOLEAN
      OBVIOUS
    <2>3. QED
      BY <2>1, <2>2 DEF TypeOK
  <1>6. TableOK' /\ CommittedOK'
    BY <1>2, <1>3 DEF TableOK, CommittedOK, Committing
  <1>7. MirrorWasCommitted' /\ MemoryIsDatabase'
    BY <1>3 DEF MirrorWasCommitted, MemoryIsDatabase
  <1>8. SerialSaves'
    <2> SUFFICES ASSUME ~overlapped' PROVE SerialSaves'
      BY DEF SerialSaves
    <2>1. ~overlapped /\ \A q \in Puts : ~Open(q)
      OBVIOUS
    <2>2. mem = Config(db)
      BY <2>1 DEF MemoryIsDatabase, Open
    <2>3. \A q \in Puts \ {p} : ~Open(q)' /\ pc'[q] # "built" /\ pc'[q] \notin Committing
      BY <1>3, <2>1 DEF Open, Committing
    <2>4. QED
      BY <1>3, <1>4, <2>2, <2>3 DEF SerialSaves, Committing
  <1>9. QED
    BY <1>5, <1>6, <1>7, <1>8

\* What a successful commit does to the table.
LEMMA CommitFact ==
  ASSUME ConfigInv, NEW p \in Puts, Commit(p)
  PROVE  \/ /\ pc' = [pc EXCEPT ![p] = "refused"] /\ UNCHANGED <<db, committed>>
         \/ /\ pc' = [pc EXCEPT ![p] = "committed"]
            /\ committed' = committed \cup {built[p]}
            /\ Config(db') = built[p] /\ db' \in SUBSET Rows /\ db' # NoTable
            /\ IsFiniteSet(db') /\ DistinctNames(db')
            /\ DistinctIds(db') /\ DistinctPorts(db')
            /\ \E id \in Identities(db, built[p]) : db' = Stored(built[p], id)
  <1>1. PICK id \in Identities(db, built[p]) :
          IF DistinctNames(built[p]) /\ UniqueIds(id)
          THEN /\ db' = Stored(built[p], id)
               /\ committed' = committed \cup {built[p]}
               /\ pc' = [pc EXCEPT ![p] = "committed"]
          ELSE /\ pc' = [pc EXCEPT ![p] = "refused"]
               /\ UNCHANGED <<db, committed>>
    BY DEF Commit
  <1>2. db \in SUBSET Rows /\ IsFiniteSet(db)
    BY DEF ConfigInv, TypeOK, TableOK, Commit
  <1>3. built[p] \in SUBSET Tools /\ IsFiniteSet(built[p]) /\ DistinctPorts(built[p])
    BY DEF ConfigInv, TypeOK, TableOK
  <1>4. id \in [built[p] -> Nat]
    BY <1>2, <1>3, IdentitiesFact
  <1>5. QED
    BY <1>1, <1>3, <1>4, StoredFact

\* The transaction: what it stores is in order, and is committed.
LEMMA CommitInv ==
  ASSUME ConfigInv, NEW p \in Puts, Commit(p)
  PROVE  ConfigInv'
  <1> USE DEF ConfigInv, Commit
  <1>1. db # NoTable
    BY DEF TableOK
  <1>2. CASE pc' = [pc EXCEPT ![p] = "refused"] /\ UNCHANGED <<db, committed>>
    <2>1. TypeOK' /\ TableOK' /\ CommittedOK'
      BY <1>1, <1>2 DEF TypeOK, TableOK, CommittedOK, Committing
    <2>2. MirrorWasCommitted' /\ SerialSaves'
      BY <1>2 DEF TypeOK, MirrorWasCommitted, SerialSaves, Open, Committing
    <2>3. MemoryIsDatabase'
      BY <1>2 DEF TypeOK, MemoryIsDatabase
    <2>4. QED
      BY <2>1, <2>2, <2>3
  <1>3. CASE /\ pc' = [pc EXCEPT ![p] = "committed"]
             /\ committed' = committed \cup {built[p]}
             /\ Config(db') = built[p] /\ db' \in SUBSET Rows /\ db' # NoTable
             /\ IsFiniteSet(db') /\ DistinctNames(db')
             /\ DistinctIds(db') /\ DistinctPorts(db')
    <2>1. TypeOK'
      BY <1>3 DEF TypeOK
    <2>2. TableOK' /\ CommittedOK' /\ MirrorWasCommitted'
      BY <1>1, <1>3 DEF TypeOK, TableOK, CommittedOK, Committing, MirrorWasCommitted
    <2>3. SerialSaves'
      <3>1. pc'[p] = "committed" /\ \A q \in Puts \ {p} : pc'[q] = pc[q]
        BY <1>3 DEF TypeOK
      <3>2. Open(p) /\ (Open(p))' /\ \A q \in Puts \ {p} : Open(q)' <=> Open(q)
        BY <3>1 DEF Open
      <3>3. \A q \in Puts : pc[q] = "built" \/ pc[q] \in Committing => Open(q)
        BY DEF Open, Committing
      <3>4. QED
        BY <1>3, <3>1, <3>2, <3>3 DEF SerialSaves
    <2>4. MemoryIsDatabase'
      BY <1>3 DEF TypeOK, MemoryIsDatabase
    <2>5. QED
      BY <2>1, <2>2, <2>3, <2>4
  <1>4. QED
    BY <1>2, <1>3, CommitFact

\* A save that writes the backup, or gives up the mirror, goes on alone.
LEMMA AloneStaysAlone ==
  ASSUME ConfigInv, NEW p \in Puts, WriteBackup(p) \/ MirrorFails(p)
  PROVE  SerialSaves'
  <1> SUFFICES ASSUME ~overlapped PROVE SerialSaves'
    BY DEF SerialSaves, WriteBackup, MirrorFails
  <1>1. /\ Open(p) /\ (Open(p))' /\ pc[p] \in Committing /\ pc'[p] \in Committing
        /\ pc'[p] # "backingUp" /\ pc'[p] # "built"
        /\ \A q \in Puts \ {p} : pc'[q] = pc[q]
    BY DEF ConfigInv, TypeOK, WriteBackup, MirrorFails, Open, Committing
  <1>2. \A q \in Puts \ {p} : ~Open(q) /\ ~(Open(q))'
    BY <1>1 DEF ConfigInv, SerialSaves, Open
  <1>3. \A q \in Puts \ {p} : pc'[q] \notin Committing /\ pc'[q] \notin {"built", "backingUp"}
    BY <1>2 DEF Open, Committing
  <1>4. UNCHANGED <<db, built>> /\ built[p] = Config(db)
    BY <1>1 DEF ConfigInv, SerialSaves, WriteBackup, MirrorFails
  <1>5. QED
    BY <1>1, <1>2, <1>3, <1>4 DEF SerialSaves

\* The mirror and the reply.
LEMMA FileStepInv ==
  ASSUME ConfigInv, NEW p \in Puts,
         OpenBackup(p) \/ WriteBackup(p) \/ RenameMirror(p) \/ MirrorFails(p) \/ Publish(p)
  PROVE  ConfigInv'
  <1> USE DEF ConfigInv
  <1>1. db # NoTable
    BY DEF TableOK, OpenBackup, WriteBackup, RenameMirror, MirrorFails, Publish
  <1>2. CASE OpenBackup(p)
    BY <1>1, <1>2 DEF OpenBackup, TypeOK, TableOK, CommittedOK, Committing,
       MirrorWasCommitted, SerialSaves, Open, MemoryIsDatabase
  <1>3. CASE WriteBackup(p)
    <2> USE <1>3 DEF WriteBackup
    <2>1. bak' \in {oldData[p], Mixed} /\ (~overlapped => bak' = oldData[p])
      BY DEF Written, SerialSaves
    <2>2. oldData[p] \in committed /\ oldData[p] \in SUBSET Tools
      BY DEF CommittedOK, TypeOK
    <2>3. TypeOK' /\ TableOK' /\ CommittedOK'
      BY <1>1, <2>1, <2>2 DEF TypeOK, TableOK, CommittedOK, Committing
    <2>4. MirrorWasCommitted' /\ MemoryIsDatabase'
      BY <2>1, <2>2 DEF TypeOK, MirrorWasCommitted, MemoryIsDatabase
    <2>5. SerialSaves'
      BY AloneStaysAlone
    <2>6. QED
      BY <2>3, <2>4, <2>5
  <1>4. CASE RenameMirror(p)
    BY <1>1, <1>4 DEF RenameMirror, TypeOK, TableOK, CommittedOK, Committing,
       MirrorWasCommitted, SerialSaves, Open, MemoryIsDatabase
  <1>5. CASE MirrorFails(p)
    <2> USE <1>5 DEF MirrorFails
    <2>1. bak' \in {bak, Empty, Torn, Mixed} /\ (~overlapped => bak' \in {bak, Empty, Torn})
      BY DEF CutShort, SerialSaves
    <2>2. TypeOK' /\ TableOK' /\ CommittedOK'
      BY <1>1, <2>1 DEF TypeOK, TableOK, CommittedOK, Committing
    <2>3. MirrorWasCommitted' /\ MemoryIsDatabase'
      BY <2>1 DEF TypeOK, MirrorWasCommitted, MemoryIsDatabase
    <2>4. SerialSaves'
      BY AloneStaysAlone
    <2>5. QED
      BY <2>2, <2>3, <2>4
  <1>6. CASE Publish(p)
    BY <1>1, <1>6 DEF Publish, TypeOK, TableOK, CommittedOK, Committing,
       MirrorWasCommitted, SerialSaves, Open, MemoryIsDatabase
  <1>7. QED
    BY <1>2, <1>3, <1>4, <1>5, <1>6

\* ConfigInv is inductive.
LEMMA ConfigInvHolds == Spec => []ConfigInv
  <1>1. ConfigInv /\ [Next]_vars => ConfigInv'
    BY ProcessStepInv, BuildInv, CommitInv, FileStepInv DEF Next, Save
  <1>2. QED
    BY <1>1, ConfigInit, PTL DEF Spec

\* A refused, failed or interrupted save leaves no trace in what the gateway runs on.
THEOREM MemoryFollowsDatabase == Spec => []MemoryIsDatabase
  BY ConfigInvHolds, PTL DEF ConfigInv

\* The memory and the mirror are whole configurations that were committed; so is
\* the backup, or it is the beginning of one, or saves overlapped.
THEOREM MirrorHoldsCommitted == Spec => []MirrorWasCommitted
  BY ConfigInvHolds, PTL DEF ConfigInv

\* Only a commit replaces a table.
LEMMA TableChange ==
  ASSUME ConfigInv, Next, db # NoTable, db' # db
  PROVE  \E p \in Puts : /\ Commit(p)
                        /\ \E id \in Identities(db, built[p]) : db' = Stored(built[p], id)
  <1>1. PICK p \in Puts : Commit(p)
    BY DEF Next, Migrate, Restart, Save, Build, OpenBackup, WriteBackup, RenameMirror,
       MirrorFails, Publish
  <1>2. QED
    BY <1>1, CommitFact

\* A tool that keeps its name keeps its identity in every save.
THEOREM NamesKeepIdentity == Spec => IdentityFollowsName
  <1>1. ConfigInv /\ [Next]_vars => [db # NoTable => KeepsIdentities]_vars
    <2> DEFINE sameKey(r) == {q \in db : Key(q.name) = Key(r.name)}
    <2> SUFFICES ASSUME ConfigInv, Next, db # NoTable, NEW r \in db, NEW s \in db',
                        Key(r.name) = Key(s.name), Cardinality(sameKey(r)) = 1
                 PROVE  r.id = s.id
      BY DEF vars, KeepsIdentities
    <2>1. IsFiniteSet(db) /\ db \in SUBSET Rows
      BY DEF ConfigInv, TypeOK, TableOK
    <2>2. sameKey(r) = {r}
      <3>1. IsFiniteSet(sameKey(r)) /\ r \in sameKey(r)
        BY <2>1, FS_Subset
      <3>2. \E x : sameKey(r) = {x}
        BY <3>1, FS_Singleton
      <3>3. QED
        BY <3>1, <3>2
    <2>3. CASE db' = db
      BY <2>2, <2>3
    <2>4. CASE db' # db
      <3>1. PICK p \in Puts : /\ Commit(p)
                             /\ \E id \in Identities(db, built[p]) : db' = Stored(built[p], id)
        BY <2>4, TableChange
      <3>2. PICK id \in Identities(db, built[p]) : db' = Stored(built[p], id)
        BY <3>1
      <3>3. PICK t \in built[p] :
              s = [id |-> id[t], name |-> t.name, port |-> t.port, pw |-> t.pw]
        BY <3>2 DEF Stored
      <3>4. Inherits(db, t) = {r}
        <4>1. {q \in db : Key(q.name) = Key(t.name)} = {r}
          BY <2>2, <3>3
        <4>2. Cardinality({r}) = 1
          BY FS_Singleton
        <4>3. QED
          BY <4>1, <4>2 DEF Inherits
      <3>5. built[p] \in SUBSET Tools /\ IsFiniteSet(built[p])
        BY DEF ConfigInv, TypeOK, TableOK
      <3>6. id[t] = r.id
        <4>1. \A u \in built[p] : Inherits(db, u) # {} => \E q \in Inherits(db, u) : id[u] = q.id
          BY <2>1, <3>5, IdentitiesFact
        <4>2. QED
          BY <3>4, <4>1
      <3>7. QED
        BY <3>3, <3>6
    <2>5. QED
      BY <2>3, <2>4
  <1>2. QED
    BY <1>1, ConfigInvHolds, PTL DEF Spec, IdentityFollowsName

\* One save at a time: the password merge over the memory and the choice of the
\* identity over the table look at the same row.
LEMMA CommitKeepsPasswords ==
  ASSUME ConfigInv, Next, KeysAreNames, ~overlapped, NEW p \in Puts
  PROVE  KeepsPasswords(p)
  <1> SUFFICES ASSUME pc[p] = "built", pc'[p] = "committed",
                      NEW t \in request[p], NEW s \in db',
                      t.pw = "keep", s.port = t.port
               PROVE  \/ \E r \in db : r.id = s.id /\ r.pw = s.pw
                      \/ s.pw = NoPw /\ \A r \in db : r.id # s.id
    BY DEF KeepsPasswords
  <1>1. Commit(p)
    BY DEF ConfigInv, TypeOK, Next, Migrate, Restart, Save, Build, Commit, OpenBackup, WriteBackup,
       RenameMirror, MirrorFails, Publish, Open
  <1>2. /\ built[p] = Config(db') /\ db # NoTable /\ db \in SUBSET Rows /\ IsFiniteSet(db)
        /\ DistinctNames(db) /\ DistinctPorts(db)
        /\ built[p] \in SUBSET Tools /\ IsFiniteSet(built[p])
        /\ \E id \in Identities(db, built[p]) : db' = Stored(built[p], id)
    BY <1>1, CommitFact DEF ConfigInv, TypeOK, TableOK, Commit
  <1>3. PICK pw \in [request[p] -> Passwords] :
          /\ \A u \in request[p] : Kept(Config(db), u, p, pw[u])
          /\ built[p] = {[name |-> u.name, port |-> u.port, pw |-> pw[u]] : u \in request[p]}
    BY DEF ConfigInv, SerialSaves, Answers
  <1>4. PICK u \in request[p] :
          [name |-> s.name, port |-> s.port, pw |-> s.pw] = [name |-> u.name, port |-> u.port, pw |-> pw[u]]
    <2>1. [name |-> s.name, port |-> s.port, pw |-> s.pw] \in built[p]
      BY <1>2 DEF Config
    <2>2. QED
      BY <1>3, <2>1
  <1>5. u = t
    BY <1>4 DEF ConfigInv, TableOK, DistinctPorts
  <1>6. s.name = t.name /\ s.pw = pw[t] /\ Kept(Config(db), t, p, pw[t])
    BY <1>3, <1>4, <1>5
  <1> DEFINE sameKey  == {q \in db : Key(q.name) = Key(t.name)}
             samePort == {q \in db : q.port = t.port}
             keyHeirs  == {c \in Config(db) : Key(c.name) = Key(t.name)}
             portHeirs == {c \in Config(db) : c.port = t.port}
  \* The identity replace gives the tool.
  <1>7. /\ Inherits(db, s) # {} => \E q \in Inherits(db, s) : s.id = q.id
        /\ Inherits(db, s) = {} => \A r \in db : r.id # s.id
    <2>1. PICK id \in Identities(db, built[p]) : db' = Stored(built[p], id)
      BY <1>2
    <2>2. PICK c \in built[p] : s = [id |-> id[c], name |-> c.name, port |-> c.port, pw |-> c.pw]
      BY <2>1 DEF Stored
    <2>3. Inherits(db, c) = Inherits(db, s)
      BY <2>2 DEF Inherits
    <2>4. Inherits(db, c) # {} => \E q \in Inherits(db, c) : id[c] = q.id
      BY <1>2, IdentitiesFact
    <2>5. Inherits(db, c) = {} => id[c] \in Nat /\ id[c] >= NextId(db)
      <3>1. id[c] \in Nat
        BY <1>2, IdentitiesFact
      <3>2. \A v \in {v \in built[p] : Inherits(db, v) = {}} : id[v] >= NextId(db)
        BY DEF Identities
      <3>3. QED
        BY <3>1, <3>2
    <2>6. NextId(db) \in Nat /\ \A r \in db : r.id \in Nat /\ r.id < NextId(db)
      BY <1>2, NextIdFact DEF Rows
    <2>7. Inherits(db, c) = {} => \A r \in db : r.id # id[c]
      BY <2>5, <2>6
    <2>8. QED
      BY <2>2, <2>3, <2>4, <2>7
  \* The rows both look at.
  <1>8. /\ Inherits(db, s) = IF Cardinality(sameKey) = 1 THEN sameKey ELSE samePort
        /\ LET heirs == IF keyHeirs # {} THEN keyHeirs ELSE portHeirs
           IN  IF heirs = {} THEN s.pw = NoPw ELSE \E c \in heirs : s.pw = c.pw
    BY <1>6 DEF Inherits, Kept
  <1>9. \A q \in db : [name |-> q.name, port |-> q.port, pw |-> q.pw] \in Config(db)
    BY DEF Config
  <1>10. CASE \E q \in db : Key(q.name) = Key(t.name)
    <2>1. PICK q \in db : Key(q.name) = Key(t.name)
      BY <1>10
    <2>2. \A r \in db : Key(r.name) = Key(t.name) => r = q
      BY <1>2, <2>1 DEF KeysAreNames, Rows, DistinctNames
    <2>3. sameKey = {q}
      BY <2>1, <2>2
    <2>4. Inherits(db, s) = {q}
      BY <1>8, <2>3, FS_Singleton
    <2>5. keyHeirs # {}
      <3>1. [name |-> q.name, port |-> q.port, pw |-> q.pw] \in keyHeirs
        BY <1>9, <2>1
      <3>2. QED
        BY <3>1
    <2>6. \A c \in keyHeirs : c.pw = q.pw
      BY <2>2 DEF Config
    <2>7. s.id = q.id /\ s.pw = q.pw
      BY <1>7, <1>8, <2>4, <2>5, <2>6
    <2>8. QED
      BY <2>7
  <1>11. CASE ~ \E q \in db : Key(q.name) = Key(t.name)
    <2>1. sameKey = {} /\ keyHeirs = {}
      BY <1>11 DEF Config
    <2>2. Inherits(db, s) = samePort
      <3>1. Cardinality({}) = 0
        BY FS_EmptySet
      <3>2. Cardinality(sameKey) = 0
        BY <2>1, <3>1, Zenon
      <3> HIDE DEF sameKey, samePort
      <3>3. QED
        BY <1>8, <3>2
    <2>3. IF portHeirs = {} THEN s.pw = NoPw ELSE \E c \in portHeirs : s.pw = c.pw
      BY <1>8, <2>1
    <2>4. CASE samePort = {}
      <3>1. portHeirs = {}
        BY <2>4 DEF Config
      <3>2. QED
        BY <1>7, <2>2, <2>3, <2>4, <3>1
    <2>5. CASE samePort # {}
      <3>1. PICK q \in samePort : samePort = {q}
        BY <1>2, <2>5 DEF DistinctPorts
      <3>2. portHeirs # {} /\ \A c \in portHeirs : c.pw = q.pw
        <4>1. [name |-> q.name, port |-> q.port, pw |-> q.pw] \in portHeirs
          BY <1>9
        <4>2. \A c \in portHeirs : \E r \in samePort : c.pw = r.pw
          BY DEF Config
        <4>3. QED
          BY <3>1, <4>1, <4>2
      <3>3. s.id = q.id /\ s.pw = q.pw
        BY <1>7, <2>2, <2>3, <3>1, <3>2
      <3>4. QED
        BY <3>3
    <2>6. QED
      BY <2>4, <2>5
  <1>12. QED
    BY <1>10, <1>11

\* A save leaves every tool it was not asked to change with the password of the
\* row whose identity the tool inherits, while saves come one by one and no two
\* names differ in nothing but case.
THEOREM PasswordsPreserved == KeysAreNames => (Spec => SerialPasswordsPreserved)
  <1> SUFFICES ASSUME KeysAreNames PROVE Spec => SerialPasswordsPreserved
    OBVIOUS
  <1>1. ConfigInv /\ [Next]_vars =>
          [~overlapped => \A p \in Puts : KeepsPasswords(p)]_vars
    BY CommitKeepsPasswords
  <1>2. QED
    BY <1>1, ConfigInvHolds, PTL DEF Spec, SerialPasswordsPreserved

-----------------------------------------------------------------------------
(* The page *)

\* loadStatus has at most one request under way, and the flag says so.
OneRequest ==
  /\ loading <=> requests # {}
  /\ \A r, s \in requests : r = s

\* What is shown is no newer than an answer under way, which is no newer than the
\* table.
AnswersInOrder ==
  /\ shown # Fresh => \A p \in Ports : shown[p] <= table[p]
  /\ \A r \in requests : r.state = "answered" =>
       /\ r.rows \in Tables
       /\ \A p \in Ports : r.rows[p] <= table[p] /\ (shown # Fresh => shown[p] <= r.rows[p])

PageInv ==
  /\ PageTypeOK
  /\ OneRequest
  /\ AnswersInOrder
  /\ AnnouncedIsApplied

\* What a status request may be.
Asked == [state : {"sent", "answered", "lost"}, refresh : BOOLEAN, owner : {"flow", "poll"},
          rows : Tables \cup {Fresh}, busy : BOOLEAN]

\* What is sent is a request.
LEMMA RequestFact ==
  ASSUME NEW refresh \in BOOLEAN, NEW owner \in {"flow", "poll"}
  PROVE  Request(refresh, owner) \in Asked /\ Request(refresh, owner).state = "sent"
  BY DEF Request, Asked

\* A new request is the only one.
LEMMA SendInv ==
  ASSUME PageInv, ClickRefresh \/ Poll \/ LookAgain
  PROVE  PageInv'
  <1> USE DEF PageInv, serviceVars
  <1>1. \/ /\ requests = {} /\ loading'
           /\ \E b \in BOOLEAN, o \in {"flow", "poll"} : requests' = {Request(b, o)}
        \/ loading' = loading /\ requests' = requests
    BY DEF ClickRefresh, Poll, LookAgain, MayLoad, OneRequest
  <1>2. UNCHANGED <<serviceVars, hidden, shown, saveStep, notice, restartAsked>>
          /\ flow' \in {flow, "loading", "idle"} /\ loading' \in {loading, TRUE}
    BY DEF ClickRefresh, Poll, LookAgain
  <1>3. requests' \subseteq Asked
    BY <1>1, RequestFact DEF PageTypeOK, Asked
  <1>4. loading' \in BOOLEAN
    BY <1>2 DEF PageTypeOK
  <1>5. PageTypeOK'
    BY <1>2, <1>3, <1>4 DEF PageTypeOK, Asked
  <1>6. OneRequest'
    BY <1>1 DEF OneRequest
  <1>7. AnswersInOrder'
    BY <1>1, <1>2, RequestFact DEF AnswersInOrder
  <1>8. AnnouncedIsApplied'
    BY <1>2 DEF AnnouncedIsApplied
  <1>9. QED
    BY <1>5, <1>6, <1>7, <1>8

\* The server answers the request.
LEMMA ServeInv ==
  ASSUME PageInv, NEW r \in requests, Serve(r)
  PROVE  PageInv'
  <1> USE DEF PageInv, serviceVars
  <1> DEFINE answer == [r EXCEPT !.state = "answered", !.rows = table, !.busy = scanning']
  <1>1. scanning' \in BOOLEAN /\ UNCHANGED <<table, saved, running>>
    BY DEF Serve, StartScan, PageTypeOK
  <1>2. r \in Asked
    BY DEF PageTypeOK, Asked
  <1>3. answer \in Asked /\ answer.state = "answered" /\ answer.rows = table
    BY <1>1, <1>2 DEF PageTypeOK, Asked
  <1>4. requests' = {answer}
    BY DEF Serve, OneRequest
  <1> HIDE DEF answer
  <1>5. UNCHANGED <<hidden, flow, loading, shown, saveStep, notice, restartAsked>>
    BY DEF Serve
  <1>6. PageTypeOK'
    BY <1>1, <1>3, <1>4, <1>5 DEF PageTypeOK, Asked
  <1>7. OneRequest' /\ AnnouncedIsApplied'
    BY <1>1, <1>4, <1>5 DEF OneRequest, AnnouncedIsApplied
  <1>8. AnswersInOrder'
    <2>1. \A p \in Ports : table[p] \in Nat
      BY PageAssumption DEF PageTypeOK, Tables
    <2>2. QED
      BY <1>1, <1>3, <1>4, <1>5, <2>1 DEF AnswersInOrder, PageTypeOK
  <1>9. QED
    BY <1>6, <1>7, <1>8

\* The page takes the answer, or its failure.
LEMMA LoadInv ==
  ASSUME PageInv, NEW r \in requests, Render(r) \/ LoadFails(r)
  PROVE  PageInv'
  <1> USE DEF PageInv, serviceVars
  <1>1. /\ requests' = {} /\ loading' = FALSE
        /\ UNCHANGED <<serviceVars, hidden, saveStep, notice, restartAsked>>
    BY DEF Render, LoadFails, OneRequest
  <1>2. flow' \in {flow, "delay", "idle"}
    BY DEF Render, LoadFails, Continue
  <1>3. \/ shown' = Fresh
        \/ shown' \in Tables /\ \A p \in Ports : shown'[p] <= table[p]
    BY DEF Render, LoadFails, AnswersInOrder
  <1>4. loading' \in BOOLEAN
    BY <1>1
  <1>5. PageTypeOK'
    BY <1>1, <1>2, <1>3, <1>4 DEF PageTypeOK
  <1>6. OneRequest' /\ AnnouncedIsApplied'
    BY <1>1 DEF OneRequest, AnnouncedIsApplied
  <1>7. AnswersInOrder'
    BY <1>1, <1>3 DEF AnswersInOrder
  <1>8. QED
    BY <1>5, <1>6, <1>7

\* The save of the page.
LEMMA SaveStepInv ==
  ASSUME PageInv, ClickSave \/ PostRestart \/ SaveFails \/ \E v \in Versions : Put(v)
  PROVE  PageInv'
  <1> USE DEF PageInv, serviceVars, ClickSave, PostRestart, SaveFails, Put, SaveVersion
  <1>1. UNCHANGED <<table, scanning, running, hidden, flow, loading, requests, shown>>
    OBVIOUS
  <1>2. saved' \in Versions /\ saveStep' \in {"idle", "putting", "posting"}
          /\ notice' \in {"none", "saved", "restarting", "failed"}
    BY DEF PageTypeOK
  <1>3. restartAsked' \in BOOLEAN
    BY DEF PageTypeOK
  <1>4. PageTypeOK'
    BY <1>1, <1>2, <1>3 DEF PageTypeOK
  <1>5. OneRequest' /\ AnswersInOrder'
    BY <1>1 DEF OneRequest, AnswersInOrder
  <1>6. AnnouncedIsApplied'
    BY <1>1 DEF AnnouncedIsApplied
  <1>7. QED
    BY <1>4, <1>5, <1>6

\* What a restart leaves of a request.
Lost(r) == [r EXCEPT !.state = "lost", !.rows = Fresh, !.busy = FALSE]

\* A request that was lost is still one.
LEMMA LostIsAsked ==
  ASSUME NEW r \in Asked
  PROVE  Lost(r) \in Asked /\ Lost(r).state = "lost"
BY DEF Asked, Lost

\* The restart and the server's own steps.
LEMMA ServerStepInv ==
  ASSUME PageInv, Turn \/ RestartGateway \/ ServerWorks \/ UNCHANGED allVars
  PROVE  PageInv'
  <1> USE DEF PageInv, serviceVars
  <1>1. CASE Turn
    <2>1. hidden' \in BOOLEAN
      BY <1>1 DEF Turn
    <2>2. QED
      BY <1>1, <2>1 DEF Turn, PageTypeOK, OneRequest, AnswersInOrder, AnnouncedIsApplied
  <1>2. CASE RestartGateway
    <2>0. requests' = {Lost(r) : r \in requests} /\ loading' = loading
      BY <1>2 DEF RestartGateway, Lost
    <2>1. \A r \in requests' : r \in Asked /\ r.state = "lost"
      <3>1. requests \subseteq Asked
        BY DEF PageTypeOK, Asked
      <3> HIDE DEF PageInv
      <3>2. QED
        BY <2>0, <3>1, LostIsAsked
    <2> USE <1>2 DEF RestartGateway, StartAgain
    <2>2. table' \in Tables
      BY PageAssumption DEF Tables
    <2>3. PageTypeOK'
      <3>1. scanning' \in BOOLEAN /\ restartAsked' \in BOOLEAN
        OBVIOUS
      <3>2. requests' \subseteq Asked
        BY <2>1
      <3>3. QED
        BY <2>2, <3>1, <3>2 DEF PageTypeOK, Asked
    <2>4. OneRequest'
      <3>1. OneRequest
        OBVIOUS
      <3> HIDE <1>2 DEF PageInv
      <3>2. QED
        BY <2>0, <3>1 DEF OneRequest
    <2>5. AnnouncedIsApplied'
      BY DEF AnnouncedIsApplied
    <2>6. AnswersInOrder'
      BY <2>1 DEF AnswersInOrder
    <2>7. QED
      BY <2>3, <2>4, <2>5, <2>6
  <1>3. CASE ServerWorks
    <2> USE <1>3 DEF ServerWorks, pageVars
    <2>1. UNCHANGED <<saved, running, pageVars>> /\ scanning' \in {scanning, FALSE}
            /\ table' \in Tables /\ \A p \in Ports : table'[p] >= table[p]
      <3>1. \A p \in Ports : table[p] \in Nat
        BY PageAssumption DEF PageTypeOK, Tables
      <3>2. CASE Update
        BY <3>2, PageAssumption DEF Update, Tables
      <3>3. CASE FinishScan
        <4>1. scanning' \in {scanning, FALSE}
          BY <3>3 DEF FinishScan
        <4>2. table' = table /\ table \in Tables
          BY <3>3 DEF FinishScan, PageTypeOK
        <4>3. \A p \in Ports : table'[p] >= table[p]
          BY <3>1, <4>2
        <4>4. UNCHANGED <<saved, running, pageVars>>
          BY <3>3 DEF FinishScan
        <4>5. QED
          BY <4>1, <4>2, <4>3, <4>4, Zenon
      <3>4. QED
        BY <3>2, <3>3
    <2>2. PageTypeOK'
      <3>1. scanning' \in BOOLEAN
        BY <2>1 DEF PageTypeOK
      <3>2. QED
        BY <2>1, <3>1 DEF PageTypeOK
    <2>3. OneRequest' /\ AnnouncedIsApplied'
      BY <2>1 DEF OneRequest, AnnouncedIsApplied
    <2>4. AnswersInOrder'
      <3>1. \A p \in Ports : table[p] \in Nat /\ table'[p] \in Nat
        BY <2>1, PageAssumption DEF PageTypeOK, Tables
      <3>2. shown # Fresh => \A p \in Ports : shown[p] \in Nat
        BY PageAssumption DEF PageTypeOK, Tables
      <3>3. \A r \in requests : r.rows \in Tables => \A p \in Ports : r.rows[p] \in Nat
        BY PageAssumption DEF Tables
      <3>4. QED
        BY <2>1, <3>1, <3>2, <3>3 DEF AnswersInOrder
    <2>5. QED
      BY <2>2, <2>3, <2>4
  <1>4. CASE UNCHANGED allVars
    BY <1>4 DEF allVars, pageVars, PageTypeOK, OneRequest, AnswersInOrder, AnnouncedIsApplied
  <1>5. QED
    BY <1>1, <1>2, <1>3, <1>4

\* PageInv is inductive.
LEMMA PageInvHolds == PageSpec => []PageInv
  <1>1. PageInit => PageInv
    <2> SUFFICES ASSUME PageInit PROVE PageInv
      OBVIOUS
    <2> USE DEF PageInit, ServiceInit
    <2>1. table \in Tables
      BY PageAssumption DEF Tables
    <2>2. scanning \in BOOLEAN /\ hidden \in BOOLEAN /\ loading \in BOOLEAN /\ restartAsked \in BOOLEAN
      OBVIOUS
    <2>3. PageTypeOK
      BY <2>1, <2>2 DEF PageTypeOK
    <2>4. OneRequest /\ AnswersInOrder /\ AnnouncedIsApplied
      BY DEF OneRequest, AnswersInOrder, AnnouncedIsApplied
    <2>5. QED
      BY <2>3, <2>4 DEF PageInv
  <1>2. PageInv /\ [PageNext]_allVars => PageInv'
    BY SendInv, ServeInv, LoadInv, SaveStepInv, ServerStepInv DEF PageNext
  <1>3. QED
    BY <1>1, <1>2, PTL DEF PageSpec

\* A restart that was announced is on its way, or what was saved runs.
THEOREM AnnouncementHolds == PageSpec => []AnnouncedIsApplied
  BY PageInvHolds, PTL DEF PageInv

\* The page never puts an older row in the place of a newer one.
THEOREM RowsGetNewer == PageSpec => TableGetsNewer
  <1>1. PageInv /\ [PageNext]_allVars =>
          [shown # Fresh /\ shown' # Fresh => \A p \in Ports : shown'[p] >= shown[p]]_allVars
    <2> SUFFICES ASSUME PageInv, PageNext, shown # Fresh, shown' # Fresh, NEW p \in Ports
                 PROVE  shown'[p] >= shown[p]
      BY DEF allVars, pageVars
    <2>1. shown' = shown \/ \E r \in requests : Render(r)
      BY DEF PageNext, ClickRefresh, Poll, LookAgain, Turn, Serve, Render, LoadFails, ClickSave,
         PostRestart, SaveFails, Put, RestartGateway, ServerWorks, pageVars
    <2>2. shown[p] \in Nat
      BY PageAssumption DEF PageInv, PageTypeOK, Tables
    <2>3. CASE shown' = shown
      BY <2>2, <2>3
    <2>4. ASSUME NEW r \in requests, Render(r) PROVE shown'[p] >= shown[p]
      <3>1. shown' = r.rows /\ r.rows \in Tables /\ shown[p] <= r.rows[p]
        BY <2>4 DEF Render, PageInv, AnswersInOrder
      <3>2. r.rows[p] \in Nat
        BY <3>1, PageAssumption DEF Tables
      <3>3. QED
        BY <2>2, <3>1, <3>2
    <2>5. QED
      BY <2>1, <2>3, <2>4
  <1>2. QED
    BY <1>1, PageInvHolds, PTL DEF PageSpec, TableGetsNewer

\* The page, its saves and restarts use the server as StatusService allows, which
\* is what FleetRefresh implements.
THEOREM PageUsesService == PageSpec => ServiceSpec
  <1>1. PageInit => ServiceInit
    BY DEF PageInit
  <1>2. [PageNext]_allVars => [ServiceNext]_serviceVars
    BY DEF PageNext, ClickRefresh, Poll, LookAgain, Turn, Serve, Render, LoadFails, ClickSave,
       PostRestart, SaveFails, Put, RestartGateway, ServerWorks, allVars, ServiceNext
  <1>3. QED
    BY <1>1, <1>2, PTL DEF PageSpec, ServiceSpec

\* A workflow that loads has its request under way; a poll's request never stands in
\* for it.
WorkflowGoesOn == flow = "loading" => \E r \in requests : r.owner = "flow"

\* The owner of a request stays what it is; its end is the end of what it was sent
\* for.
LEMMA WorkflowNext ==
  ASSUME PageInv, WorkflowGoesOn, [PageNext]_allVars
  PROVE  WorkflowGoesOn'
  <1>1. requests \subseteq Asked
    BY DEF PageInv, PageTypeOK, Asked
  <1>2. CASE ClickRefresh \/ Poll \/ LookAgain
    <2>1. \/ flow' # "loading"
          \/ \E b \in BOOLEAN : Request(b, "flow") \in requests'
      BY <1>2 DEF ClickRefresh, Poll, LookAgain
    <2>2. \A b \in BOOLEAN : Request(b, "flow").owner = "flow"
      BY DEF Request
    <2>3. QED
      BY <2>1, <2>2 DEF WorkflowGoesOn
  <1>3. ASSUME NEW r \in requests, Serve(r) PROVE WorkflowGoesOn'
    <2> DEFINE answer == [r EXCEPT !.state = "answered", !.rows = table, !.busy = scanning']
    <2>1. flow' = flow /\ answer \in requests'
      BY <1>3 DEF Serve
    <2>2. answer.owner = r.owner
      BY <1>1, <1>3 DEF Asked
    <2>3. flow = "loading" => r.owner = "flow"
      BY <1>3 DEF WorkflowGoesOn, PageInv, OneRequest
    <2>4. QED
      BY <2>1, <2>2, <2>3 DEF WorkflowGoesOn
  <1>4. ASSUME NEW r \in requests, Render(r) \/ LoadFails(r) PROVE WorkflowGoesOn'
    <2>1. (flow' = flow /\ r.owner = "poll") \/ flow' \in {"delay", "idle"}
      BY <1>4 DEF Render, LoadFails, Continue
    <2>2. flow = "loading" => r.owner = "flow"
      BY <1>4 DEF WorkflowGoesOn, PageInv, OneRequest
    <2>3. QED
      BY <2>1, <2>2 DEF WorkflowGoesOn
  <1>5. CASE RestartGateway
    <2>1. flow' = flow /\ requests' = {Lost(r) : r \in requests}
      BY <1>5 DEF RestartGateway, Lost
    <2>2. \A r \in requests : Lost(r) \in requests' /\ Lost(r).owner = r.owner
      BY <1>1, <2>1 DEF Asked, Lost
    <2>3. QED
      BY <2>1, <2>2 DEF WorkflowGoesOn
  <1>6. CASE UNCHANGED <<flow, requests>>
    BY <1>6 DEF WorkflowGoesOn
  <1>7. QED
    BY <1>2, <1>3, <1>4, <1>5, <1>6 DEF PageNext, Turn, ClickSave, PostRestart, SaveFails, Put,
       ServerWorks, allVars, pageVars

\* The refresh button comes back because a workflow that loads has a request of its
\* own, the only one under way, and a restart of the gateway does not take it from
\* it: whatever its answer, the workflow goes on with it.
THEOREM WorkflowHasItsRequest == PageSpec => [](OneRequest /\ WorkflowGoesOn)
  <1>1. PageInit => WorkflowGoesOn
    BY DEF PageInit, WorkflowGoesOn
  <1>2. PageInv => OneRequest
    BY DEF PageInv
  <1>3. QED
    BY <1>1, <1>2, WorkflowNext, PageInvHolds, PTL DEF PageSpec
=============================================================================

---------------------------- MODULE Vault_proofs ----------------------------
(* Theorems about secrets at rest, for any number of keys, versions, master *)
(* keys, instances, requests and rotations.                                 *)
EXTENDS Vault, SequenceTheorems, TLAPS

(* The facts about constants every step needs. *)
LEMMA Constants ==
  /\ Public \subseteq Key
  /\ MaxVersion \in Nat \ {0} /\ MaxKek \in Nat \ {0}
  /\ None \notin Key /\ None \notin Value /\ None \notin Master /\ None \notin Instance
BY ConstantsAssumption

(* What is in the registry is complete. *)
RegistryFilled == \A v \in KekVersion : registry[v] # Absent =>
  registry[v].st \in {"active", "retired"} /\ registry[v].master \in Master

(* What an instance knows at each point of its boot, and after it. *)
Booted ==
  \A i \in Instance :
    /\ server[i].pc # "down" => server[i].master \in Master
    /\ server[i].pc = "match" => server[i].old \in Master
    /\ server[i].pc # "serving" => server[i].oldVersion = 0
    /\ server[i].pc \in {"match", "serving"} =>
         server[i].active \in KekVersion /\ registry[server[i].active].master = server[i].master
    /\ server[i].pc = "serving" /\ server[i].oldVersion # 0 =>
         /\ server[i].oldVersion \in KekVersion
         /\ server[i].old \in Master /\ registry[server[i].oldVersion].master = server[i].old

(* A request is handled by an instance that serves, and has the locals its  *)
(* next statement needs.                                                    *)
Handled ==
  \A r \in Request : req[r].pc # "idle" =>
    /\ req[r].inst \in Instance /\ Serving(req[r].inst)
    /\ req[r].key \in Key
    /\ req[r].pc \in {"max", "add"} => req[r].value \in Value
    /\ req[r].pc \in {"add", "point"} => req[r].n \in Version

(* A rotation past its check has a registered version to rotate from. *)
Checked ==
  \A j \in Job :
    /\ job[j].pc # "idle" => job[j].master \in Master
    /\ job[j].pc \in {"select", "commit"} =>
         job[j].from \in KekVersion /\ job[j].from < MaxKek /\ registry[job[j].from] # Absent

Inv == TypeOK /\ RegistryFilled /\ LastIsActive /\ Booted /\ Handled /\ Checked
         /\ WrapsMatchRegistry

(* The bounds as sets of naturals. *)
LEMMA Bounds ==
  /\ 1 \in Version /\ 1 \in KekVersion /\ 0 \in 0 .. MaxVersion /\ 0 \in 0 .. MaxKek
  /\ Version \subseteq 0 .. MaxVersion /\ KekVersion \subseteq 0 .. MaxKek
  /\ \A v \in KekVersion : v \in Nat /\ (v < MaxKek => v + 1 \in KekVersion)
  /\ \A v \in Version : v \in Nat
  /\ 0 \notin Version /\ 0 \notin KekVersion
BY Constants DEF Version, KekVersion

(* Empty slots have their types. *)
LEMMA EmptyTypes == Down \in ServerState /\ NoJob \in JobState /\ Idle \in RequestState
BY Bounds DEF Down, ServerState, NoJob, JobState, Idle, RequestState

(* The invariant holds in the empty database. *)
LEMMA InitInv == Init => Inv
<1> SUFFICES ASSUME Init PROVE Inv
  OBVIOUS
<1>1. TypeOK
  BY EmptyTypes, Bounds DEF Init, TypeOK, KeyRow, Row, KekRow, Absent
<1>2. RegistryFilled /\ LastIsActive
  BY DEF Init, RegistryFilled, LastIsActive, Absent
<1>3. Booted /\ Handled /\ Checked
  BY DEF Init, Booted, Handled, Checked, Down, Idle, NoJob
<1>4. WrapsMatchRegistry
  BY Constants DEF Init, WrapsMatchRegistry, Stored
<1>. QED
  BY <1>1, <1>2, <1>3, <1>4 DEF Inv

-----------------------------------------------------------------------------
(* Types.                                                                   *)

(* A step of an instance's boot keeps the types. *)
LEMMA BootType ==
  ASSUME Inv, NEW i \in Instance, Boot(i)
  PROVE  TypeOK'
<1>0. TypeOK /\ server[i] \in ServerState
  BY DEF Inv, TypeOK
<1>1. ASSUME NEW new \in ServerState, Becomes(i, new)
      PROVE  server' \in [Instance -> ServerState]
  BY <1>0, <1>1 DEF Becomes, TypeOK
<1>2. ASSUME NEW m \in Master, NEW o \in Master \cup {None}, Start(i, m, o)
      PROVE  TypeOK'
  <2>1. [Down EXCEPT !.pc = "read", !.master = m, !.old = o] \in ServerState
    BY EmptyTypes DEF ServerState
  <2>. QED
    BY <1>0, <1>1, <1>2, <2>1 DEF Start, TypeOK
<1>3. CASE BootRead(i)
  <2>1. [server[i] EXCEPT !.pc = "seed"] \in ServerState
    BY <1>0 DEF ServerState
  <2>2. ASSUME NEW v \in ActiveVersions
        PROVE  [server[i] EXCEPT !.active = v,
                  !.pc = IF server[i].old = None THEN "serving" ELSE "match"] \in ServerState
    <3>1. v \in 0 .. MaxKek
      BY Bounds DEF ActiveVersions
    <3>. QED
      BY <1>0, <3>1 DEF ServerState
  <2>. QED
    BY <1>0, <1>1, <1>3, <2>1, <2>2, EmptyTypes DEF BootRead, TypeOK
<1>4. CASE BootSeed(i)
  <2>1. [server[i] EXCEPT !.active = 1, !.old = None, !.pc = "serving"] \in ServerState
    BY <1>0, Bounds DEF ServerState
  <2>2. server[i].master \in Master
    BY <1>4 DEF Inv, Booted, BootSeed
  <2>3. registry' \in [KekVersion -> KekRow]
    BY <1>0, <1>4, <2>2 DEF BootSeed, TypeOK, KekRow
  <2>. QED
    BY <1>0, <1>1, <1>4, <2>1, <2>3, EmptyTypes DEF BootSeed, TypeOK
<1>5. CASE BootMatch(i)
  <2>1. ASSUME NEW v \in 0 .. MaxKek
        PROVE  [server[i] EXCEPT !.oldVersion = v, !.pc = "serving"] \in ServerState
    BY <1>0 DEF ServerState
  <2>2. [server[i] EXCEPT !.old = None, !.pc = "serving"] \in ServerState
    BY <1>0 DEF ServerState
  <2>. QED
    BY <1>0, <1>1, <1>5, <2>1, <2>2, Bounds DEF BootMatch, TypeOK
<1>6. CASE Stop(i)
  BY <1>0, <1>1, <1>6, EmptyTypes DEF Stop, TypeOK
<1>. QED
  BY <1>2, <1>3, <1>4, <1>5, <1>6 DEF Boot

(* A sealed value is a version row, wrapped under the registered key. *)
LEMMA SealedRow ==
  ASSUME Inv, NEW i \in Instance, Serving(i), NEW k \in Key, NEW v \in Value
  PROVE  /\ Sealed(i, k, v) \in Row
         /\ k \notin Public =>
              /\ Sealed(i, k, v).kek \in KekVersion /\ Sealed(i, k, v).master \in Master
              /\ Sealed(i, k, v).master = registry[Sealed(i, k, v).kek].master
<1>1. /\ server[i].master \in Master /\ server[i].active \in KekVersion
      /\ registry[server[i].active].master = server[i].master
  BY DEF Inv, Booted, Serving
<1>2. [value |-> v, kek |-> server[i].active, master |-> server[i].master] \in Row
  BY <1>1, Bounds DEF Row
<1>3. [value |-> v, kek |-> 0, master |-> None] \in Row
  BY Bounds DEF Row
<1>. QED
  BY <1>1, <1>2, <1>3 DEF Sealed

(* The steps that write values keep the types. *)
LEMMA WriteType ==
  ASSUME Inv, Write
  PROVE  TypeOK'
<1>0. TypeOK
  BY DEF Inv
<1>1. ASSUME NEW r \in Request, NEW new \in RequestState, req' = [req EXCEPT ![r] = new]
      PROVE  req' \in [Request -> RequestState]
  BY <1>0, <1>1 DEF TypeOK
<1>2. ASSUME NEW i \in Instance, NEW k \in Key, NEW v \in Value, CreateKey(i, k, v)
      PROVE  TypeOK'
  <2>1. Sealed(i, k, v) \in Row
    BY <1>2, SealedRow DEF CreateKey
  <2>2. [st |-> "live", current |-> 1] \in KeyRow
    BY Bounds DEF KeyRow
  <2>. QED
    BY <1>0, <1>2, <2>1, <2>2, Bounds DEF CreateKey, TypeOK
<1>3. ASSUME NEW r \in Request, NEW i \in Instance, NEW k \in Key, NEW v \in Value,
             SetFind(r, i, k, v)
      PROVE  TypeOK'
  <2>1. [Idle EXCEPT !.pc = "max", !.inst = i, !.key = k, !.value = v] \in RequestState
    BY EmptyTypes DEF RequestState
  <2>. QED
    BY <1>0, <1>1, <1>3, <2>1 DEF SetFind, TypeOK
<1>4. ASSUME NEW r \in Request, SetMax(r)
      PROVE  TypeOK'
  <2>1. ASSUME NEW n \in Version
        PROVE  [req[r] EXCEPT !.pc = "add", !.n = n] \in RequestState
    BY <1>0, Bounds DEF TypeOK, RequestState
  <2>2. PICK n \in Version : req' = [req EXCEPT ![r].pc = "add", ![r].n = n]
    BY <1>4 DEF SetMax
  <2>3. req' = [req EXCEPT ![r] = [req[r] EXCEPT !.pc = "add", !.n = n]]
    BY <1>0, <2>2 DEF TypeOK, RequestState
  <2>. QED
    BY <1>0, <1>1, <1>4, <2>1, <2>3 DEF SetMax, TypeOK
<1>5. ASSUME NEW r \in Request, SetAdd(r)
      PROVE  TypeOK'
  <2>1. /\ req[r].inst \in Instance /\ Serving(req[r].inst)
        /\ req[r].key \in Key /\ req[r].value \in Value /\ req[r].n \in Version
    BY <1>5 DEF Inv, Handled, SetAdd
  <2>2. Sealed(req[r].inst, req[r].key, req[r].value) \in Row
    BY <2>1, SealedRow
  <2>3. key' \in [Key -> KeyRow]
    BY <1>0, <1>5, <2>1 DEF SetAdd, Insertable, TypeOK, KeyRow
  <2>4. versions' \in [Key -> [Version -> Row]]
    <3>1. ASSUME NEW k \in Key, NEW n \in Version, NEW x \in Row
          PROVE  [versions EXCEPT ![k][n] = x] \in [Key -> [Version -> Row]]
      BY <1>0 DEF TypeOK
    <3>2. CASE versions' = versions
      BY <1>0, <3>2 DEF TypeOK
    <3>3. CASE versions' = [versions EXCEPT ![req[r].key][req[r].n] =
                              Sealed(req[r].inst, req[r].key, req[r].value)]
      BY <2>1, <2>2, <3>1, <3>3
    <3>. QED
      BY <1>5, <3>2, <3>3 DEF SetAdd
  <2>5. req' \in [Request -> RequestState]
    BY <1>1, <1>5, EmptyTypes DEF SetAdd, Reply
  <2>. QED
    BY <1>0, <1>5, <2>3, <2>4, <2>5 DEF SetAdd, TypeOK
<1>6. ASSUME NEW r \in Request, NEW i \in Instance, NEW k \in Key, NEW n \in Version,
             RollbackFind(r, i, k, n)
      PROVE  TypeOK'
  <2>1. [Idle EXCEPT !.pc = "point", !.inst = i, !.key = k, !.n = n] \in RequestState
    BY EmptyTypes, Bounds DEF RequestState
  <2>. QED
    BY <1>0, <1>1, <1>6, <2>1 DEF RollbackFind, TypeOK
<1>7. ASSUME NEW r \in Request, RollbackPoint(r)
      PROVE  TypeOK'
  <2>1. req[r].key \in Key /\ req[r].n \in Version
    BY <1>7 DEF Inv, Handled, RollbackPoint
  <2>2. key' \in [Key -> KeyRow]
    BY <1>0, <1>7, <2>1 DEF RollbackPoint, TypeOK, KeyRow
  <2>3. req' \in [Request -> RequestState]
    BY <1>1, <1>7, EmptyTypes DEF RollbackPoint, Reply
  <2>. QED
    BY <1>0, <1>7, <2>2, <2>3 DEF RollbackPoint, TypeOK
<1>8. ASSUME NEW k \in Key, DeleteKey(k)
      PROVE  TypeOK'
  <2>1. [st |-> "gone", current |-> 0] \in KeyRow /\ NoRow \in Row
    BY DEF KeyRow, Row
  <2>. QED
    BY <1>0, <1>8, <2>1 DEF DeleteKey, TypeOK
<1>. QED
  BY <1>2, <1>3, <1>4, <1>5, <1>6, <1>7, <1>8 DEF Write

(* A rotation keeps the types. *)
LEMMA RotateType ==
  ASSUME Inv, NEW j \in Job, Rotate(j)
  PROVE  TypeOK'
<1>0. TypeOK /\ job[j] \in JobState
  BY DEF Inv, TypeOK
<1>1. ASSUME NEW new \in JobState, job' = [job EXCEPT ![j] = new]
      PROVE  job' \in [Job -> JobState]
  BY <1>0, <1>1 DEF TypeOK
<1>2. ASSUME NEW m \in Master, NEW o \in Master, RotateBegin(j, m, o)
      PROVE  TypeOK'
  <2>1. [NoJob EXCEPT !.pc = "check", !.master = m, !.old = o] \in JobState
    BY EmptyTypes DEF JobState
  <2>. QED
    BY <1>0, <1>1, <1>2, <2>1 DEF RotateBegin, TypeOK
<1>3. CASE RotateCheck(j)
  <2>1. ASSUME NEW v \in ActiveVersions, job' = [job EXCEPT ![j].pc = "select", ![j].from = v]
        PROVE  job' \in [Job -> JobState]
    <3>1. v \in 0 .. MaxKek
      BY Bounds DEF ActiveVersions
    <3>2. [job[j] EXCEPT !.pc = "select", !.from = v] \in JobState
      BY <1>0, <3>1 DEF JobState
    <3>3. job' = [job EXCEPT ![j] = [job[j] EXCEPT !.pc = "select", !.from = v]]
      BY <1>0, <2>1 DEF TypeOK, JobState
    <3>. QED
      BY <1>1, <3>2, <3>3
  <2>. QED
    BY <1>0, <1>1, <1>3, <2>1, EmptyTypes DEF RotateCheck, TypeOK
<1>4. CASE RotateSelect(j)
  <2>1. WrappedBy(job[j].from) \in SUBSET (Key \X Version)
    BY DEF WrappedBy
  <2>2. [job[j] EXCEPT !.pc = "commit", !.rows = WrappedBy(job[j].from)] \in JobState
    BY <1>0, <2>1 DEF JobState
  <2>3. job' = [job EXCEPT ![j] = [job[j] EXCEPT !.pc = "commit", !.rows = WrappedBy(job[j].from)]]
    BY <1>0, <1>4 DEF RotateSelect, TypeOK, JobState
  <2>. QED
    BY <1>0, <1>1, <1>4, <2>2, <2>3 DEF RotateSelect, TypeOK
<1>5. CASE RotateCommit(j)
  <2>1. job[j].master \in Master /\ job[j].from \in KekVersion /\ job[j].from + 1 \in KekVersion
    BY <1>5, Bounds DEF RotateCommit, Inv, Checked
  <2>2. ASSUME NEW k \in Key, NEW n \in Version, Stored(k, n)
        PROVE  [versions[k][n] EXCEPT !.kek = job[j].from + 1, !.master = job[j].master] \in Row
    <3>1. versions[k][n] \in [value : Value, kek : 0 .. MaxKek, master : Master \cup {None}]
      BY <1>0, <2>2 DEF TypeOK, Row, Stored
    <3>2. job[j].from + 1 \in 0 .. MaxKek
      BY <2>1, Bounds
    <3>. QED
      BY <2>1, <3>1, <3>2 DEF Row
  <2>3. versions' \in [Key -> [Version -> Row]]
    <3>1. \A k \in Key, n \in Version : versions[k][n] \in Row
      BY <1>0 DEF TypeOK
    <3>. QED
      BY <1>5, <2>2, <3>1 DEF RotateCommit, Rewrapped
  <2>4. registry' \in [KekVersion -> KekRow]
    BY <1>0, <1>5, <2>1 DEF RotateCommit, RotatedRegistry, TypeOK, KekRow
  <2>. QED
    BY <1>0, <1>1, <1>5, <2>3, <2>4, EmptyTypes DEF RotateCommit, TypeOK
<1>6. CASE RotateAbort(j)
  BY <1>0, <1>1, <1>6, EmptyTypes DEF RotateAbort, TypeOK
<1>. QED
  BY <1>2, <1>3, <1>4, <1>5, <1>6 DEF Rotate

(* The three together. *)
LEMMA NextType == Inv /\ [Next]_vars => TypeOK'
<1>1. Inv /\ UNCHANGED vars => TypeOK'
  BY DEF Inv, TypeOK, vars
<1>. QED
  BY <1>1, BootType, WriteType, RotateType DEF Next

-----------------------------------------------------------------------------
(* The registry.  Only the first boot and a committed rotation write it.    *)

(* The registry grows at its end and forgets no master key.                 *)
Grows ==
  \A v \in KekVersion : registry[v] # Absent =>
    registry'[v] # Absent /\ registry'[v].master = registry[v].master

(* A first boot that wins the race finds no version at all. *)
LEMMA SeedRegistry ==
  ASSUME Inv, NEW i \in Instance, BootSeed(i)
  PROVE  RegistryFilled' /\ LastIsActive' /\ Grows
<1>0. /\ TypeOK /\ RegistryFilled /\ LastIsActive /\ server[i].master \in Master
      /\ Absent.st = "absent" /\ Absent.master = None
  BY DEF Inv, Booted, BootSeed, Absent
<1>1. CASE UNCHANGED registry
  BY <1>0, <1>1 DEF RegistryFilled, LastIsActive, Grows
<1>2. CASE registry[1] = Absent /\
           registry' = [registry EXCEPT ![1] = [st |-> "active", master |-> server[i].master]]
  <2>1. ASSUME NEW v \in KekVersion
        PROVE  registry[v] = Absent
    <3>1. v = 1 \/ 1 < v
      BY Bounds, Constants DEF KekVersion
    <3>2. CASE 1 < v
      BY <1>0, <1>2, <3>2, Bounds DEF LastIsActive
    <3>. QED
      BY <1>2, <3>1, <3>2
  <2>2. /\ registry'[1] = [st |-> "active", master |-> server[i].master]
        /\ \A v \in KekVersion : v # 1 => registry'[v] = Absent
    BY <1>0, <1>2, <2>1, Bounds DEF TypeOK
  <2>3. registry'[1] # Absent /\ registry'[1].st = "active" /\ registry'[1].master = server[i].master
    BY <1>0, <2>2
  <2>4. \A v \in KekVersion : v = 1 \/ (v > 1 /\ ~(v < 1))
    BY Constants DEF KekVersion
  <2>5. LastIsActive'
    BY <1>0, <2>2, <2>3, <2>4 DEF LastIsActive
  <2>. QED
    BY <1>0, <2>1, <2>2, <2>3, <2>5 DEF RegistryFilled, Grows
<1>. QED
  BY <1>1, <1>2 DEF BootSeed

(* A rotation that commits started from the last version. *)
LEMMA CommitRegistry ==
  ASSUME Inv, NEW j \in Job, RotateCommit(j)
  PROVE  RegistryFilled' /\ LastIsActive' /\ Grows
<1>w. PICK w : w = job[j].from
  OBVIOUS
<1>0. /\ TypeOK /\ RegistryFilled /\ LastIsActive /\ job[j].master \in Master
      /\ Absent.st = "absent" /\ Absent.master = None
  BY DEF Inv, Checked, RotateCommit, Absent
<1>1. /\ w \in KekVersion /\ w < MaxKek /\ registry[w] # Absent
      /\ w + 1 \in KekVersion /\ registry[w + 1] = Absent
  BY <1>w, Bounds DEF Inv, Checked, RotateCommit
<1>2. \A v \in KekVersion : v \in Nat /\ (v < w \/ v = w \/ v = w + 1 \/ v > w + 1)
  BY <1>1, Constants DEF KekVersion
<1>3. registry[w].st = "active"
  BY <1>0, <1>1 DEF RegistryFilled, LastIsActive
<1>4a. \A v \in KekVersion : v < w => registry[v].st = "retired"
  BY <1>0, <1>1, <1>3 DEF LastIsActive
<1>4. \A v \in KekVersion : v > w => registry[v] = Absent
  BY <1>0, <1>1, <1>3 DEF LastIsActive
<1>5. ActiveVersions = {w}
  <2>1. \A v \in KekVersion : v # w => v < w \/ v > w
    BY <1>1, Constants DEF KekVersion
  <2>2. \A v \in KekVersion : v # w => registry[v].st # "active"
    <3>1. "retired" # "active" /\ Absent.st # "active"
      BY <1>0
    <3>2. SUFFICES ASSUME NEW v \in KekVersion, v # w
                   PROVE  registry[v].st # "active"
      OBVIOUS
    <3>3. CASE v < w
      BY <1>4a, <3>2, <3>3
    <3>4. CASE v > w
      BY <1>0, <1>4, <3>2, <3>4
    <3>. QED
      BY <2>1, <3>2, <3>3, <3>4
  <2>. QED
    BY <1>1, <1>3, <2>2 DEF ActiveVersions
<1>6. /\ registry'[w + 1] = [st |-> "active", master |-> job[j].master]
      /\ registry'[w] = [registry[w] EXCEPT !.st = "retired"]
      /\ \A v \in KekVersion : v # w /\ v # w + 1 => registry'[v] = registry[v]
  BY <1>w, <1>1, <1>2, <1>5 DEF RotateCommit, RotatedRegistry
<1>7. /\ registry'[w + 1].st = "active" /\ registry'[w + 1].master = job[j].master
      /\ registry'[w].st = "retired" /\ registry'[w].master = registry[w].master
      /\ registry'[w + 1] # Absent /\ registry'[w] # Absent
  BY <1>0, <1>1, <1>6 DEF TypeOK, KekRow
<1>8. RegistryFilled' /\ Grows
  BY <1>0, <1>1, <1>2, <1>6, <1>7 DEF RegistryFilled, Grows
<1>9. LastIsActive'
  <2>1. \A v \in KekVersion : v < w =>
          /\ v + 1 \in KekVersion /\ (v + 1 < w \/ v + 1 = w)
          /\ v < MaxKek /\ v # w /\ v # w + 1
    BY <1>1, Constants DEF KekVersion
  <2>2a. \A v \in KekVersion : v < w => registry'[v].st = "retired" /\ registry'[v] # Absent
    <3>1. SUFFICES ASSUME NEW v \in KekVersion, v < w
                   PROVE  registry'[v].st = "retired" /\ registry'[v] # Absent
      OBVIOUS
    <3>2. registry'[v] = registry[v]
      BY <1>6, <2>1, <3>1
    <3>3. registry[v].st = "retired" /\ registry[v].st # Absent.st
      BY <1>0, <1>4a, <3>1
    <3>. QED
      BY <3>2, <3>3
  <2>2b. \A v \in KekVersion : v < w => registry'[v].st = "retired"
    BY <2>2a
  <2>2. \A v \in KekVersion : v < w => /\ registry'[v].st = "retired"
                                       /\ v < MaxKek /\ registry'[v + 1] # Absent
    BY <1>7, <2>1, <2>2a
  <2>3. \A v \in KekVersion : v > w + 1 => registry'[v] = Absent
    BY <1>1, <1>2, <1>4, <1>6
  <2>4. \A u, v \in KekVersion : /\ u > w + 1 \/ u = w + 1 \/ u = w \/ u < w
                                 /\ u < v /\ v = w => u < w
                                 /\ u < v /\ v = w + 1 => u < w \/ u = w
                                 /\ u < v /\ v < w => u < w
                                 /\ u > v /\ v = w + 1 => u > w + 1
    BY <1>1, <1>2
  <2>5. SUFFICES ASSUME NEW v \in KekVersion
        PROVE  /\ registry'[v].st = "active" => \A u \in KekVersion : u > v => registry'[u] = Absent
               /\ registry'[v].st = "retired" => v < MaxKek /\ registry'[v + 1] # Absent
               /\ registry'[v] # Absent => \A u \in KekVersion : u < v => registry'[u].st = "retired"
    BY DEF LastIsActive
  <2>6. CASE v < w
    <3>1. registry'[v].st = "retired" /\ registry'[v].st # "active"
      BY <2>2, <2>6
    <3>2. \A u \in KekVersion : u < v => registry'[u].st = "retired"
      <4>1. SUFFICES ASSUME NEW u \in KekVersion, u < v
                     PROVE  registry'[u].st = "retired"
        OBVIOUS
      <4>2. u < w
        BY <1>1, <1>2, <2>6, <4>1
      <4>. QED
        BY <2>2b, <4>1, <4>2
    <3>. QED
      BY <2>2, <2>6, <3>1, <3>2
  <2>7. CASE v = w
    BY <1>1, <1>7, <2>2, <2>4, <2>7
  <2>8. CASE v = w + 1
    <3>1. registry'[v].st = "active" /\ registry'[v].st # "retired"
      BY <1>7, <2>8
    <3>2. \A u \in KekVersion : u < v => registry'[u].st = "retired"
      <4>1. SUFFICES ASSUME NEW u \in KekVersion, u < v
                     PROVE  registry'[u].st = "retired"
        OBVIOUS
      <4>2. u < w \/ u = w
        BY <1>1, <1>2, <2>8, <4>1
      <4>. QED
        BY <1>7, <2>2b, <4>1, <4>2
    <3>3. \A u \in KekVersion : u > v => registry'[u] = Absent
      BY <2>3, <2>4, <2>8
    <3>. QED
      BY <3>1, <3>2, <3>3
  <2>9. CASE v > w + 1
    BY <1>0, <2>3, <2>9
  <2>. QED
    BY <1>2, <2>6, <2>7, <2>8, <2>9
<1>. QED
  BY <1>8, <1>9

(* Every other step leaves the registry alone. *)
LEMMA NextRegistry ==
  ASSUME Inv, [Next]_vars
  PROVE  RegistryFilled' /\ LastIsActive' /\ Grows
<1>1. CASE UNCHANGED registry
  BY <1>1 DEF Inv, RegistryFilled, LastIsActive, Grows
<1>2. \/ UNCHANGED registry
      \/ \E i \in Instance : BootSeed(i)
      \/ \E j \in Job : RotateCommit(j)
  BY DEF Next, vars, Boot, Write, Rotate, Start, BootRead, BootMatch, Stop, CreateKey, SetFind,
         SetMax, SetAdd, RollbackFind, RollbackPoint, DeleteKey, RotateBegin, RotateCheck,
         RotateSelect, RotateAbort
<1>. QED
  BY <1>1, <1>2, SeedRegistry, CommitRegistry

-----------------------------------------------------------------------------
(* Instances, requests and rotations.                                       *)

(* What an instance knows stays true while the registry grows. *)
LEMMA BootedKept ==
  ASSUME Inv, Grows, NEW i \in Instance, server'[i] = server[i]
  PROVE  /\ server[i].pc \in {"match", "serving"} =>
              registry'[server[i].active].master = server[i].master
         /\ server[i].pc = "serving" /\ server[i].oldVersion # 0 =>
              registry'[server[i].oldVersion].master = server[i].old
<1>1. /\ server[i].pc \in {"match", "serving"} => registry[server[i].active] # Absent
      /\ server[i].pc = "serving" /\ server[i].oldVersion # 0 =>
           registry[server[i].oldVersion] # Absent
  BY Constants DEF Inv, Booted, Absent
<1>. QED
  BY <1>1 DEF Inv, Booted, Grows

(* An instance that boots learns only what the registry holds. *)
LEMMA NextBooted ==
  ASSUME Inv, [Next]_vars
  PROVE  Booted'
<1>0. TypeOK /\ Booted /\ Grows
  BY NextRegistry DEF Inv
<1>. SUFFICES ASSUME NEW i \in Instance
              PROVE  /\ server'[i].pc # "down" => server'[i].master \in Master
                     /\ server'[i].pc = "match" => server'[i].old \in Master
                     /\ server'[i].pc # "serving" => server'[i].oldVersion = 0
                     /\ server'[i].pc \in {"match", "serving"} =>
                          /\ server'[i].active \in KekVersion
                          /\ registry'[server'[i].active].master = server'[i].master
                     /\ server'[i].pc = "serving" /\ server'[i].oldVersion # 0 =>
                          /\ server'[i].oldVersion \in KekVersion
                          /\ server'[i].old \in Master
                          /\ registry'[server'[i].oldVersion].master = server'[i].old
  BY DEF Booted
<1>1. CASE server'[i] = server[i]
  BY <1>0, <1>1, BootedKept DEF Booted
<1>2. CASE server'[i] = Down
  BY <1>2 DEF Down
<1>3. CASE \E m \in Master, o \in Master \cup {None} : Start(i, m, o)
  BY <1>0, <1>3 DEF Start, Becomes, Down, TypeOK
<1>4. CASE BootRead(i)
  <2>1. \/ server'[i] = Down
        \/ server'[i] = [server[i] EXCEPT !.pc = "seed"]
        \/ \E v \in ActiveVersions : /\ FingerprintMatches(server[i].master, v)
                                     /\ server'[i] = [server[i] EXCEPT !.active = v,
                                          !.pc = IF server[i].old = None THEN "serving" ELSE "match"]
    BY <1>0, <1>4 DEF BootRead, Becomes, TypeOK
  <2>2. /\ server[i] \in ServerState /\ server[i].oldVersion = 0
        /\ server[i].master \in Master /\ registry' = registry
    BY <1>0, <1>4 DEF BootRead, Booted, TypeOK
  <2>3. ASSUME NEW v \in ActiveVersions, FingerprintMatches(server[i].master, v),
               server'[i] = [server[i] EXCEPT !.active = v,
                               !.pc = IF server[i].old = None THEN "serving" ELSE "match"]
        PROVE  /\ server'[i].master = server[i].master /\ server'[i].old = server[i].old
               /\ server'[i].active = v /\ server'[i].oldVersion = 0
               /\ server'[i].pc = (IF server[i].old = None THEN "serving" ELSE "match")
               /\ v \in KekVersion /\ registry[v].master = server[i].master
    BY <2>2, <2>3 DEF ServerState, ActiveVersions, FingerprintMatches
  <2>4. server[i].old # None => server[i].old \in Master
    BY <2>2 DEF ServerState
  <2>5. server'[i] = [server[i] EXCEPT !.pc = "seed"] =>
          /\ server'[i].master = server[i].master /\ server'[i].pc = "seed"
          /\ server'[i].oldVersion = 0
    BY <2>2 DEF ServerState
  <2>. QED
    BY <1>2, <2>1, <2>2, <2>3, <2>4, <2>5
<1>5. CASE BootSeed(i)
  <2>1. CASE server'[i] = [server[i] EXCEPT !.active = 1, !.old = None, !.pc = "serving"] /\
             registry' = [registry EXCEPT ![1] = [st |-> "active", master |-> server[i].master]]
    <3>1. /\ server[i] \in ServerState /\ server[i].oldVersion = 0 /\ server[i].master \in Master
      BY <1>0, <1>5 DEF BootSeed, Booted, TypeOK
    <3>2. registry'[1].master = server[i].master
      BY <1>0, <2>1, Bounds DEF TypeOK
    <3>3. /\ server'[i].pc = "serving" /\ server'[i].active = 1 /\ server'[i].oldVersion = 0
          /\ server'[i].master = server[i].master
      BY <2>1, <3>1 DEF ServerState
    <3>. QED
      BY <3>1, <3>2, <3>3, Bounds
  <2>. QED
    BY <1>0, <1>2, <1>5, <2>1 DEF BootSeed, Becomes, TypeOK
<1>6. CASE BootMatch(i)
  <2>1. /\ server[i] \in ServerState /\ server[i].master \in Master /\ server[i].old \in Master
        /\ server[i].active \in KekVersion /\ registry[server[i].active].master = server[i].master
        /\ registry' = registry
    BY <1>0, <1>6 DEF BootMatch, Booted, TypeOK
  <2>2. CASE server'[i] = [server[i] EXCEPT !.old = None, !.pc = "serving"]
    <3>1. server[i].oldVersion = 0
      BY <1>0, <1>6 DEF BootMatch, Booted
    <3>2. /\ server'[i].pc = "serving" /\ server'[i].oldVersion = 0
          /\ server'[i].master = server[i].master /\ server'[i].active = server[i].active
      BY <2>1, <2>2, <3>1 DEF ServerState
    <3>. QED
      BY <2>1, <3>2
  <2>3. CASE \E v \in KekVersion :
               /\ registry[v].master = server[i].old
               /\ server'[i] = [server[i] EXCEPT !.oldVersion = v, !.pc = "serving"]
    <3>1. PICK v \in KekVersion :
               /\ registry[v].master = server[i].old
               /\ server'[i] = [server[i] EXCEPT !.oldVersion = v, !.pc = "serving"]
      BY <2>3
    <3>2. /\ server'[i].pc = "serving" /\ server'[i].oldVersion = v
          /\ server'[i].master = server[i].master /\ server'[i].old = server[i].old
          /\ server'[i].active = server[i].active
      BY <2>1, <3>1 DEF ServerState
    <3>. QED
      BY <2>1, <3>1, <3>2
  <2>. QED
    BY <1>0, <1>6, <2>2, <2>3 DEF BootMatch, Becomes, TypeOK
<1>7. CASE Stop(i)
  BY <1>0, <1>2, <1>7 DEF Stop, Becomes, TypeOK
<1>8. CASE \E h \in Instance : h # i /\ Boot(h)
  BY <1>0, <1>1, <1>8 DEF Boot, Start, BootRead, BootSeed, BootMatch, Stop, Becomes, TypeOK
<1>9. CASE UNCHANGED server
  BY <1>1, <1>9
<1>10. UNCHANGED server \/ \E h \in Instance : Boot(h)
  BY DEF Next, vars, Write, Rotate, CreateKey, SetFind, SetMax, SetAdd, RollbackFind,
         RollbackPoint, DeleteKey, RotateBegin, RotateCheck, RotateSelect, RotateCommit, RotateAbort
<1>. QED
  BY <1>3, <1>4, <1>5, <1>6, <1>7, <1>8, <1>9, <1>10 DEF Boot

(* Only its own statements, or the end of its instance, move a request. *)
LEMMA NextHandled ==
  ASSUME Inv, [Next]_vars
  PROVE  Handled'
<1>0. TypeOK /\ Handled
  BY DEF Inv
<1>. SUFFICES ASSUME NEW r \in Request, req'[r].pc # "idle"
              PROVE  /\ req'[r].inst \in Instance /\ server'[req'[r].inst].pc = "serving"
                     /\ req'[r].key \in Key
                     /\ req'[r].pc \in {"max", "add"} => req'[r].value \in Value
                     /\ req'[r].pc \in {"add", "point"} => req'[r].n \in Version
  BY DEF Handled, Serving
<1>1. CASE UNCHANGED <<req, server>>
  BY <1>0, <1>1 DEF Handled, Serving
<1>2. ASSUME NEW i \in Instance, Boot(i), ~Stop(i)
      PROVE  req' = req /\ server[i].pc # "serving" /\ \A h \in Instance : h # i => server'[h] = server[h]
  <2>1. req' = req /\ server[i].pc \in {"down", "read", "seed", "match"}
    <3>1. CASE \E m \in Master, o \in Master \cup {None} : Start(i, m, o)
      BY <3>1 DEF Start, Down
    <3>2. CASE BootRead(i)
      BY <3>2 DEF BootRead
    <3>3. CASE BootSeed(i)
      BY <3>3 DEF BootSeed
    <3>4. CASE BootMatch(i)
      BY <3>4 DEF BootMatch
    <3>. QED
      BY <1>2, <3>1, <3>2, <3>3, <3>4 DEF Boot
  <2>2. \E new : Becomes(i, new)
    <3>1. \/ \E m \in Master, o \in Master \cup {None} : Start(i, m, o)
          \/ BootRead(i) \/ BootSeed(i) \/ BootMatch(i)
      BY <1>2 DEF Boot
    <3>2. (\E m \in Master, o \in Master \cup {None} : Start(i, m, o)) => \E new : Becomes(i, new)
      BY DEF Start
    <3>3. BootRead(i) => \E new : Becomes(i, new)
      BY DEF BootRead
    <3>4. BootSeed(i) => \E new : Becomes(i, new)
      BY DEF BootSeed
    <3>5. BootMatch(i) => \E new : Becomes(i, new)
      BY DEF BootMatch
    <3>. QED
      BY <3>1, <3>2, <3>3, <3>4, <3>5
  <2>. QED
    BY <1>0, <2>1, <2>2 DEF Becomes, TypeOK
<1>3. ASSUME NEW i \in Instance, Stop(i)
      PROVE  /\ req[r].inst # i /\ req'[r] = req[r]
             /\ \A h \in Instance : h # i => server'[h] = server[h]
  BY <1>0, <1>3 DEF Stop, Becomes, Idle, TypeOK
<1>4. CASE \E i \in Instance : Boot(i)
  <2>1. PICK i \in Instance : Boot(i)
    BY <1>4
  <2>2. /\ req'[r] = req[r] /\ req[r].inst \in Instance /\ server[req[r].inst].pc = "serving"
        /\ server'[req[r].inst] = server[req[r].inst]
    BY <1>0, <1>2, <1>3, <2>1 DEF Handled, Serving
  <2>. QED
    BY <1>0, <2>2 DEF Handled
<1>5. CASE UNCHANGED server /\ Write
  <2>1. CASE req'[r] = req[r]
    BY <1>0, <1>5, <2>1 DEF Handled, Serving
  <2>2. CASE \E i \in Instance, k \in Key, v \in Value : SetFind(r, i, k, v)
    BY <1>0, <1>5, <2>2 DEF SetFind, Serving, Idle, TypeOK
  <2>3. CASE \E i \in Instance, k \in Key, n \in Version : RollbackFind(r, i, k, n)
    BY <1>0, <1>5, <2>3 DEF RollbackFind, Serving, Idle, TypeOK
  <2>4. CASE SetMax(r)
    <3>1. PICK n \in Version : req'[r] = [req[r] EXCEPT !.pc = "add", !.n = n]
      BY <1>0, <2>4 DEF SetMax, TypeOK, RequestState
    <3>2. /\ req'[r].inst = req[r].inst /\ req'[r].key = req[r].key
          /\ req'[r].value = req[r].value /\ req'[r].n = n /\ req'[r].pc = "add"
      BY <1>0, <3>1 DEF TypeOK, RequestState
    <3>. QED
      BY <1>0, <1>5, <2>4, <3>2 DEF Handled, Serving, SetMax
  <2>5. CASE SetAdd(r) \/ RollbackPoint(r)
    BY <1>0, <2>5 DEF SetAdd, RollbackPoint, Reply, Idle, TypeOK
  <2>. QED
    BY <1>0, <1>5, <2>1, <2>2, <2>3, <2>4, <2>5
    DEF Write, CreateKey, DeleteKey, SetFind, SetMax, SetAdd, Reply, RollbackFind, RollbackPoint,
        TypeOK
<1>6. UNCHANGED <<req, server>> \/ (UNCHANGED server /\ Write) \/ \E i \in Instance : Boot(i)
  BY DEF Next, vars, Write, Rotate, CreateKey, SetFind, SetMax, SetAdd, RollbackFind,
         RollbackPoint, DeleteKey, RotateBegin, RotateCheck, RotateSelect, RotateCommit, RotateAbort
<1>. QED
  BY <1>1, <1>4, <1>5, <1>6

(* A rotation keeps the version it checked while the registry grows. *)
LEMMA NextChecked ==
  ASSUME Inv, [Next]_vars
  PROVE  Checked'
<1>0. TypeOK /\ Checked /\ Grows
  BY NextRegistry DEF Inv
<1>. SUFFICES ASSUME NEW j \in Job
              PROVE  /\ job'[j].pc # "idle" => job'[j].master \in Master
                     /\ job'[j].pc \in {"select", "commit"} =>
                          /\ job'[j].from \in KekVersion /\ job'[j].from < MaxKek
                          /\ registry'[job'[j].from] # Absent
  BY DEF Checked
<1>1. CASE job'[j] = job[j]
  BY <1>0, <1>1 DEF Checked, Grows
<1>2. CASE job'[j] = NoJob
  BY <1>2 DEF NoJob
<1>3. CASE \E m, o \in Master : RotateBegin(j, m, o)
  BY <1>0, <1>3 DEF RotateBegin, NoJob, TypeOK
<1>4. CASE RotateCheck(j)
  <2>1. ASSUME NEW v \in ActiveVersions, v < MaxKek,
               job'[j] = [job[j] EXCEPT !.pc = "select", !.from = v]
        PROVE  /\ job'[j].master = job[j].master /\ job'[j].from = v
               /\ v \in KekVersion /\ registry[v] # Absent
    BY <1>0, <2>1 DEF TypeOK, JobState, ActiveVersions, Absent
  <2>2. \/ job'[j] = NoJob
        \/ \E v \in ActiveVersions : /\ v < MaxKek
                                     /\ job'[j] = [job[j] EXCEPT !.pc = "select", !.from = v]
    BY <1>0, <1>4 DEF RotateCheck, TypeOK, JobState
  <2>3. job[j].master \in Master /\ registry' = registry
    BY <1>0, <1>4 DEF RotateCheck, Checked
  <2>. QED
    BY <1>2, <2>1, <2>2, <2>3
<1>5. CASE RotateSelect(j)
  <2>1. /\ job'[j].master = job[j].master /\ job'[j].from = job[j].from /\ registry' = registry
    BY <1>0, <1>5 DEF RotateSelect, TypeOK, JobState
  <2>. QED
    BY <1>0, <1>5, <2>1 DEF RotateSelect, Checked
<1>6. CASE RotateCommit(j) \/ RotateAbort(j)
  BY <1>0, <1>2, <1>6 DEF RotateCommit, RotateAbort, TypeOK
<1>7. CASE \E h \in Job : h # j /\ Rotate(h)
  BY <1>0, <1>1, <1>7 DEF Rotate, RotateBegin, RotateCheck, RotateSelect, RotateCommit,
                          RotateAbort, TypeOK
<1>8. UNCHANGED job \/ \E h \in Job : Rotate(h)
  BY DEF Next, vars, Boot, Write, Start, BootRead, BootSeed, BootMatch, Stop, CreateKey, SetFind,
         SetMax, SetAdd, RollbackFind, RollbackPoint, DeleteKey
<1>. QED
  BY <1>1, <1>3, <1>4, <1>5, <1>6, <1>7, <1>8 DEF Rotate

-----------------------------------------------------------------------------
(* Wraps.                                                                   *)

(* Every row that is inserted or re-wrapped is wrapped with the master key  *)
(* the registry has, or gets in the same transaction, under its number.     *)
LEMMA NextWraps ==
  ASSUME Inv, [Next]_vars
  PROVE  WrapsMatchRegistry'
<1>0. TypeOK /\ WrapsMatchRegistry /\ Grows
  BY NextRegistry DEF Inv
<1>. SUFFICES ASSUME NEW k \in Key \ Public, NEW n \in Version, versions'[k][n] # NoRow
              PROVE  /\ versions'[k][n].kek \in KekVersion /\ versions'[k][n].master # None
                     /\ versions'[k][n].master = registry'[versions'[k][n].kek].master
  BY DEF WrapsMatchRegistry, Stored
<1>1. CASE versions'[k][n] = versions[k][n]
  <2>1. /\ versions[k][n].kek \in KekVersion /\ versions[k][n].master # None
        /\ versions[k][n].master = registry[versions[k][n].kek].master
    BY <1>0, <1>1 DEF WrapsMatchRegistry, Stored
  <2>2. registry[versions[k][n].kek] # Absent
    BY <2>1 DEF Absent
  <2>. QED
    BY <1>0, <1>1, <2>1, <2>2 DEF Grows
<1>2. ASSUME NEW i \in Instance, Serving(i), NEW v \in Value, versions'[k][n] = Sealed(i, k, v)
      PROVE  /\ versions'[k][n].kek \in KekVersion /\ versions'[k][n].master # None
             /\ versions'[k][n].master = registry'[versions'[k][n].kek].master
  <2>1. /\ Sealed(i, k, v).kek \in KekVersion /\ Sealed(i, k, v).master \in Master
        /\ Sealed(i, k, v).master = registry[Sealed(i, k, v).kek].master
    BY <1>2, SealedRow
  <2>2. Sealed(i, k, v).master # None /\ registry[Sealed(i, k, v).kek] # Absent
    BY <2>1, Constants DEF Absent
  <2>. QED
    BY <1>0, <1>2, <2>1, <2>2 DEF Grows
<1>3. CASE \E i \in Instance, h \in Key, v \in Value : CreateKey(i, h, v)
  BY <1>0, <1>1, <1>2, <1>3 DEF CreateKey, TypeOK
<1>4. CASE \E r \in Request : SetAdd(r)
  <2>1. PICK r \in Request : SetAdd(r)
    BY <1>4
  <2>2. /\ req[r].inst \in Instance /\ Serving(req[r].inst) /\ req[r].value \in Value
        /\ req[r].key \in Key /\ req[r].n \in Version
    BY <2>1 DEF Inv, Handled, SetAdd
  <2>3. \/ versions'[k][n] = versions[k][n]
        \/ k = req[r].key /\ versions'[k][n] = Sealed(req[r].inst, req[r].key, req[r].value)
    BY <1>0, <2>1, <2>2 DEF SetAdd, TypeOK
  <2>. QED
    BY <1>1, <1>2, <2>2, <2>3
<1>5. CASE \E h \in Key : DeleteKey(h)
  BY <1>0, <1>1, <1>5 DEF DeleteKey, TypeOK
<1>6. CASE \E j \in Job : RotateCommit(j)
  <2>1. PICK j \in Job : RotateCommit(j)
    BY <1>6
  <2>2. /\ job[j].master \in Master /\ job[j].from + 1 \in KekVersion
        /\ registry'[job[j].from + 1].master = job[j].master
    BY <2>1, Bounds DEF RotateCommit, RotatedRegistry, Inv, Checked
  <2>3. \/ versions'[k][n] = versions[k][n]
        \/ /\ versions[k][n] # NoRow
           /\ versions'[k][n] = [versions[k][n] EXCEPT !.kek = job[j].from + 1, !.master = job[j].master]
    BY <2>1 DEF RotateCommit, Rewrapped, Stored
  <2>4. ASSUME versions[k][n] # NoRow,
               versions'[k][n] = [versions[k][n] EXCEPT !.kek = job[j].from + 1, !.master = job[j].master]
        PROVE  versions'[k][n].kek = job[j].from + 1 /\ versions'[k][n].master = job[j].master
    <3>1. versions[k][n] \in [value : Value, kek : 0 .. MaxKek, master : Master \cup {None}]
      BY <1>0, <2>4 DEF TypeOK, Row
    <3>. QED
      BY <2>4, <3>1
  <2>. QED
    BY <1>1, <2>2, <2>3, <2>4, Constants
<1>7. \/ UNCHANGED versions
      \/ \E i \in Instance, h \in Key, v \in Value : CreateKey(i, h, v)
      \/ \E r \in Request : SetAdd(r)
      \/ \E h \in Key : DeleteKey(h)
      \/ \E j \in Job : RotateCommit(j)
  BY DEF Next, vars, Boot, Write, Rotate, Start, BootRead, BootSeed, BootMatch, Stop, SetFind,
         SetMax, RollbackFind, RollbackPoint, RotateBegin, RotateCheck, RotateSelect, RotateAbort
<1>. QED
  BY <1>1, <1>3, <1>4, <1>5, <1>6, <1>7

(* The invariant is inductive. *)
LEMMA NextInv == Inv /\ [Next]_vars => Inv'
BY NextType, NextRegistry, NextBooted, NextHandled, NextChecked, NextWraps DEF Inv

(* Every reachable state of the vault is well typed. *)
THEOREM VaultTypeCorrect == Spec => []TypeOK
<1>1. Inv => TypeOK
  BY DEF Inv
<1>. QED
  BY <1>1, InitInv, NextInv, PTL DEF Spec

(* No secret is ever wrapped in a key that the registry does not name: with *)
(* the master keys of the registry every version of every key can be opened.*)
THEOREM EveryWrapIsRegistered == Spec => []WrapsMatchRegistry
<1>1. Inv => WrapsMatchRegistry
  BY DEF Inv
<1>. QED
  BY <1>1, InitInv, NextInv, PTL DEF Spec

(* An instance that serves holds the master key its version number names,   *)
(* through any boots, seeds and rotations beside it.                        *)
THEOREM ServersHoldTheRegistered == Spec => []ServersMatchRegistry
<1>1. Inv => ServersMatchRegistry
  BY DEF Inv, Booted, ServersMatchRegistry, Serving
<1>. QED
  BY <1>1, InitInv, NextInv, PTL DEF Spec

(* First boots and rotations that race leave one active master key, the     *)
(* last of a gapless sequence.                                              *)
THEOREM RegistryInOrder == Spec => []LastIsActive
<1>1. Inv => LastIsActive
  BY DEF Inv
<1>. QED
  BY <1>1, InitInv, NextInv, PTL DEF Spec
-----------------------------------------------------------------------------
(* The versions of a key implement VersionedStore.                          *)

(* The rows of a key are the versions 1 .. len. *)
Filled(k, len) == \A n \in Version : Stored(k, n) <=> n <= len

(* A key that is there has a history, and points into it. *)
Histories ==
  \A k \in Key : \E len \in 0 .. MaxVersion :
    /\ Filled(k, len)
    /\ IF key[k].st = "live" THEN key[k].current \in 1 .. len ELSE len = 0

(* What a request has found is still so, unless its key is gone: the        *)
(* versions it saw are there, and there may be more.                        *)
Foresaw ==
  \A r \in Request : req[r].pc # "idle" =>
    /\ key[req[r].key].st # "unborn"
    /\ key[req[r].key].st = "live" =>
         /\ req[r].pc = "add" => req[r].n = 1 \/ Stored(req[r].key, req[r].n - 1)
         /\ req[r].pc = "point" => Stored(req[r].key, req[r].n)

History(k) == [n \in 1 .. Length(k) |-> versions[k][n].value]

(* The length of a history is what it says. *)
LEMMA LengthIs ==
  \A k \in Key : \A len \in 0 .. MaxVersion :
    /\ Filled(k, len) => Length(k) = len
    /\ Filled(k, len)' => Length(k)' = len
<1>. SUFFICES ASSUME NEW k \in Key, NEW len \in 0 .. MaxVersion
              PROVE  /\ Filled(k, len) => Length(k) = len
                     /\ Filled(k, len)' => Length(k)' = len
  OBVIOUS
<1>1. MaxVersion \in Nat
  BY Constants
<1>2. ASSUME NEW n \in 0 .. MaxVersion, Filled(k, n), Filled(k, len)
      PROVE  n = len
  <2>1. n < len => len \in Version /\ Stored(k, len)
    BY <1>1, <1>2 DEF Filled, Version
  <2>2. len < n => n \in Version /\ Stored(k, n)
    BY <1>1, <1>2 DEF Filled, Version
  <2>. QED
    BY <1>1, <1>2, <2>1, <2>2 DEF Filled
<1>3. ASSUME NEW n \in 0 .. MaxVersion, Filled(k, n)', Filled(k, len)'
      PROVE  n = len
  <2>1. n < len => len \in Version /\ Stored(k, len)'
    BY <1>1, <1>3 DEF Filled, Version
  <2>2. len < n => n \in Version /\ Stored(k, n)'
    BY <1>1, <1>3 DEF Filled, Version
  <2>. QED
    BY <1>1, <1>3, <2>1, <2>2 DEF Filled
<1>. QED
  BY <1>2, <1>3 DEF Length, Filled

(* A history is a sequence of values. *)
LEMMA HistoryOf ==
  \A k \in Key : \A len \in 0 .. MaxVersion :
    TypeOK /\ Filled(k, len) =>
      /\ History(k) = [n \in 1 .. len |-> versions[k][n].value]
      /\ History(k) \in Seq(Value) /\ Len(History(k)) = len
<1>. SUFFICES ASSUME NEW k \in Key, NEW len \in 0 .. MaxVersion, TypeOK, Filled(k, len)
              PROVE  /\ History(k) = [n \in 1 .. len |-> versions[k][n].value]
                     /\ History(k) \in Seq(Value) /\ Len(History(k)) = len
  OBVIOUS
<1>1. len \in Nat /\ 1 .. len \subseteq Version
  BY Constants DEF Version
<1>2. History(k) = [n \in 1 .. len |-> versions[k][n].value]
  BY LengthIs DEF History
<1>3. \A n \in 1 .. len : versions[k][n].value \in Value
  <2>. SUFFICES ASSUME NEW n \in 1 .. len
                PROVE  versions[k][n].value \in Value
    OBVIOUS
  <2>1. n \in Version /\ n <= len
    BY <1>1
  <2>2. versions[k][n] # NoRow
    BY <2>1 DEF Filled, Stored
  <2>. QED
    BY <2>1, <2>2 DEF TypeOK, Row
<1>4. [n \in 1 .. len |-> versions[k][n].value] \in [1 .. len -> Value]
  BY <1>3
<1>. QED
  BY <1>1, <1>2, <1>4, LenProperties, IsASeq

(* A step that moves no version and changes no value. *)
LEMMA SameHistory ==
  \A k \in Key : \A len \in 0 .. MaxVersion :
    /\ TypeOK /\ TypeOK' /\ Filled(k, len) /\ Filled(k, len)'
    /\ \A n \in 1 .. len : versions'[k][n].value = versions[k][n].value
    => History(k)' = History(k)
<1>. SUFFICES ASSUME NEW k \in Key, NEW len \in 0 .. MaxVersion, Filled(k, len), Filled(k, len)',
                     \A n \in 1 .. len : versions'[k][n].value = versions[k][n].value
              PROVE  History(k)' = History(k)
  OBVIOUS
<1>1. Length(k) = len /\ Length(k)' = len
  BY LengthIs
<1>. QED
  BY <1>1 DEF History

(* A step that adds a version. *)
LEMMA LongerHistory ==
  \A k \in Key : \A len \in 0 .. MaxVersion : \A v \in Value :
    /\ TypeOK /\ Filled(k, len) /\ len + 1 \in Version /\ Filled(k, len + 1)'
    /\ versions'[k][len + 1].value = v
    /\ \A n \in 1 .. len : versions'[k][n].value = versions[k][n].value
    => History(k)' = Append(History(k), v) /\ Len(History(k)) = len
<1>. SUFFICES ASSUME NEW k \in Key, NEW len \in 0 .. MaxVersion, NEW v \in Value, TypeOK,
                     Filled(k, len), len + 1 \in Version, Filled(k, len + 1)',
                     versions'[k][len + 1].value = v,
                     \A n \in 1 .. len : versions'[k][n].value = versions[k][n].value
              PROVE  History(k)' = Append(History(k), v) /\ Len(History(k)) = len
  OBVIOUS
<1>1. len \in Nat /\ len + 1 \in 0 .. MaxVersion
  BY Constants DEF Version
<1>2. /\ History(k) = [n \in 1 .. len |-> versions[k][n].value]
      /\ History(k) \in Seq(Value) /\ Len(History(k)) = len
  BY HistoryOf
<1>3. History(k)' = [n \in 1 .. len + 1 |-> versions'[k][n].value]
  <2>1. Length(k)' = len + 1
    BY <1>1, LengthIs
  <2>. QED
    BY <2>1 DEF History
<1>4. \A n \in 1 .. len + 1 :
        versions'[k][n].value = IF n = len + 1 THEN v ELSE History(k)[n]
  BY <1>1, <1>2
<1>5. /\ Append(History(k), v) \in Seq(Value) /\ Len(Append(History(k), v)) = len + 1
      /\ \A n \in 1 .. len : Append(History(k), v)[n] = History(k)[n]
      /\ Append(History(k), v)[len + 1] = v
  BY <1>2, AppendProperties
<1>6. Append(History(k), v) = [n \in 1 .. len + 1 |-> Append(History(k), v)[n]]
  BY <1>5, LenProperties
<1>7. \A n \in 1 .. len + 1 : Append(History(k), v)[n] = versions'[k][n].value
  BY <1>1, <1>4, <1>5
<1>. QED
  BY <1>2, <1>3, <1>6, <1>7

(* What a step may do to the tables: nothing that the store would notice,   *)
(* add the next version of a key, point it at one that is there, or delete  *)
(* it with all its versions.                                                *)
Rewraps ==
  /\ key' = key
  /\ \A k \in Key : \A n \in Version :
       Stored(k, n)' = Stored(k, n) /\ versions'[k][n].value = versions[k][n].value

Adds(k, v) ==
  \E len \in 0 .. MaxVersion : \E row \in Row :
    /\ Filled(k, len) /\ len + 1 \in Version /\ key[k].st # "gone"
    /\ row # NoRow /\ row.value = v
    /\ versions' = [versions EXCEPT ![k][len + 1] = row]
    /\ key' = [key EXCEPT ![k] = [st |-> "live", current |-> len + 1]]

Points(k, n) ==
  /\ key[k].st = "live" /\ Stored(k, n)
  /\ key' = [key EXCEPT ![k] = [st |-> "live", current |-> n]]
  /\ versions' = versions

Removes(k) ==
  /\ key[k].st = "live"
  /\ key' = [key EXCEPT ![k] = [st |-> "gone", current |-> 0]]
  /\ versions' = [versions EXCEPT ![k] = [n \in Version |-> NoRow]]

Effect ==
  \/ Rewraps
  \/ \E k \in Key : \/ \E v \in Value : Adds(k, v)
                    \/ \E n \in Version : Points(k, n)
                    \/ Removes(k)

StoreInv == Inv /\ Histories /\ Foresaw

(* A key is created with its first version. *)
LEMMA CreateAdds ==
  \A i \in Instance : \A k \in Key : \A v \in Value :
    StoreInv /\ CreateKey(i, k, v) => Adds(k, v)
<1>. SUFFICES ASSUME NEW i \in Instance, NEW k \in Key, NEW v \in Value, StoreInv,
                     CreateKey(i, k, v)
              PROVE  Adds(k, v)
  OBVIOUS
<1>1. key[k].st = "unborn" /\ Filled(k, 0)
  BY DEF CreateKey, StoreInv, Histories
<1>2. Sealed(i, k, v) \in Row /\ Sealed(i, k, v).value = v
  BY SealedRow DEF CreateKey, StoreInv, Sealed
<1>3. Sealed(i, k, v) # NoRow
  BY <1>2, Constants DEF NoRow
<1>4. /\ versions' = [versions EXCEPT ![k][0 + 1] = Sealed(i, k, v)]
      /\ key' = [key EXCEPT ![k] = [st |-> "live", current |-> 0 + 1]]
  BY DEF CreateKey
<1>5. 0 \in 0 .. MaxVersion /\ 0 + 1 \in Version /\ key[k].st # "gone"
  BY <1>1, Bounds
<1>. QED
  BY <1>1, <1>2, <1>3, <1>4, <1>5 DEF Adds

(* A new value is inserted only as the next version. *)
LEMMA SetAdds ==
  \A r \in Request :
    StoreInv /\ SetAdd(r) => (key' = key /\ versions' = versions) \/ Adds(req[r].key, req[r].value)
<1>. SUFFICES ASSUME NEW r \in Request, StoreInv, SetAdd(r), ~(key' = key /\ versions' = versions)
              PROVE  Adds(req[r].key, req[r].value)
  OBVIOUS
<1>. DEFINE k == req[r].key
            n == req[r].n
            row == Sealed(req[r].inst, req[r].key, req[r].value)
<1>1. /\ req[r].inst \in Instance /\ Serving(req[r].inst)
      /\ k \in Key /\ n \in Version /\ req[r].value \in Value /\ req[r].pc = "add"
  BY DEF StoreInv, Inv, Handled, SetAdd
<1>2. /\ key[k].st = "live" /\ ~Stored(k, n)
      /\ versions' = [versions EXCEPT ![k][n] = row]
      /\ key' = [key EXCEPT ![k].current = n]
  BY DEF SetAdd, Insertable
<1>3. row \in Row /\ row.value = req[r].value /\ row # NoRow
  <2>1. row \in Row /\ row.value = req[r].value
    BY <1>1, SealedRow DEF StoreInv, Sealed
  <2>. QED
    BY <1>1, <2>1, Constants DEF NoRow
<1>4. n = 1 \/ Stored(k, n - 1)
  BY <1>1, <1>2 DEF StoreInv, Foresaw
<1>5. PICK len \in 0 .. MaxVersion : Filled(k, len)
  BY <1>1 DEF StoreInv, Histories
<1>6. n = len + 1
  <2>1. ~(n <= len)
    BY <1>1, <1>2, <1>5 DEF Filled
  <2>2. n = 1 \/ n - 1 <= len
    BY <1>4, <1>5 DEF Filled, Stored
  <2>. QED
    BY <1>1, <2>1, <2>2, Constants DEF Version
<1>7. key' = [key EXCEPT ![k] = [st |-> "live", current |-> n]]
  <2>1. key[k] \in [st : {"live"}, current : Version]
    BY <1>1, <1>2 DEF StoreInv, Inv, TypeOK, KeyRow
  <2>2. [key[k] EXCEPT !.current = n] = [st |-> "live", current |-> n]
    BY <2>1
  <2>3. key' = [key EXCEPT ![k] = [key[k] EXCEPT !.current = n]]
    BY <1>2
  <2>. QED
    BY <2>2, <2>3
<1>. QED
  BY <1>1, <1>2, <1>3, <1>5, <1>6, <1>7 DEF Adds

(* A rotation changes wraps, never values. *)
LEMMA CommitRewraps == \A j \in Job : StoreInv /\ RotateCommit(j) => Rewraps
<1>. SUFFICES ASSUME NEW j \in Job, StoreInv, RotateCommit(j)
              PROVE  Rewraps
  OBVIOUS
<1>1. key' = key
  BY DEF RotateCommit
<1>2. ASSUME NEW k \in Key, NEW n \in Version
      PROVE  Stored(k, n)' = Stored(k, n) /\ versions'[k][n].value = versions[k][n].value
  <2>1. \/ versions'[k][n] = versions[k][n]
        \/ /\ versions[k][n] # NoRow
           /\ versions'[k][n] = [versions[k][n] EXCEPT !.kek = job[j].from + 1, !.master = job[j].master]
    BY DEF RotateCommit, Rewrapped, Stored
  <2>2. ASSUME versions[k][n] # NoRow,
               versions'[k][n] = [versions[k][n] EXCEPT !.kek = job[j].from + 1, !.master = job[j].master]
        PROVE  versions'[k][n].value = versions[k][n].value /\ versions'[k][n] # NoRow
    <3>1. versions[k][n] \in [value : Value, kek : 0 .. MaxKek, master : Master \cup {None}]
      BY <2>2 DEF StoreInv, Inv, TypeOK, Row
    <3>2. versions'[k][n].value = versions[k][n].value /\ versions[k][n].value \in Value
      BY <2>2, <3>1
    <3>. QED
      BY <3>2, Constants DEF NoRow
  <2>3. CASE versions'[k][n] = versions[k][n]
    BY <2>3 DEF Stored
  <2>. QED
    BY <2>1, <2>2, <2>3 DEF Stored
<1>. QED
  BY <1>1, <1>2 DEF Rewraps

(* A rollback points its key at a version that is there, if it still is.    *)
LEMMA RollbackPoints ==
  \A r \in Request :
    StoreInv /\ RollbackPoint(r) =>
      (key' = key /\ versions' = versions) \/ (req[r].n \in Version /\ Points(req[r].key, req[r].n))
<1>. SUFFICES ASSUME NEW r \in Request, StoreInv, RollbackPoint(r),
                     ~(key' = key /\ versions' = versions)
              PROVE  req[r].n \in Version /\ Points(req[r].key, req[r].n)
  OBVIOUS
<1>. DEFINE k == req[r].key
            n == req[r].n
<1>1. k \in Key /\ n \in Version /\ req[r].pc = "point"
  BY DEF StoreInv, Inv, Handled, RollbackPoint
<1>2. key[k].st = "live" /\ key' = [key EXCEPT ![k].current = n] /\ versions' = versions
  BY DEF RollbackPoint
<1>3. Stored(k, n)
  BY <1>1, <1>2 DEF StoreInv, Foresaw
<1>4. key[k] \in [st : {"live"}, current : Version]
  BY <1>1, <1>2 DEF StoreInv, Inv, TypeOK, KeyRow
<1>5. [key[k] EXCEPT !.current = n] = [st |-> "live", current |-> n]
  BY <1>4
<1>6. key' = [key EXCEPT ![k] = [key[k] EXCEPT !.current = n]]
  BY <1>2
<1>. QED
  BY <1>1, <1>2, <1>3, <1>5, <1>6 DEF Points

(* Every step has one of these effects. *)
LEMMA StepEffect == StoreInv /\ [Next]_vars => Effect
<1>. SUFFICES ASSUME StoreInv, [Next]_vars
              PROVE  Effect
  OBVIOUS
<1>1. CASE UNCHANGED <<key, versions>>
  BY <1>1 DEF Effect, Rewraps, Stored
<1>2. ASSUME NEW r \in Request, SetAdd(r)
      PROVE  Effect
  <2>1. req[r].key \in Key /\ req[r].value \in Value
    BY <1>2 DEF StoreInv, Inv, Handled, SetAdd
  <2>. QED
    BY <1>1, <1>2, <2>1, SetAdds DEF Effect
<1>3. ASSUME NEW r \in Request, RollbackPoint(r)
      PROVE  Effect
  <2>1. req[r].key \in Key
    BY <1>3 DEF StoreInv, Inv, Handled, RollbackPoint
  <2>. QED
    BY <1>1, <1>3, <2>1, RollbackPoints DEF Effect
<1>4. ASSUME NEW i \in Instance, NEW k \in Key, NEW v \in Value, CreateKey(i, k, v)
      PROVE  Effect
  BY <1>4, CreateAdds DEF Effect
<1>5. ASSUME NEW k \in Key, DeleteKey(k)
      PROVE  Effect
  BY <1>5 DEF DeleteKey, Removes, Effect
<1>6. ASSUME NEW j \in Job, RotateCommit(j)
      PROVE  Effect
  BY <1>6, CommitRewraps DEF Effect
<1>7. \/ UNCHANGED <<key, versions>>
      \/ \E r \in Request : SetAdd(r) \/ RollbackPoint(r)
      \/ \E i \in Instance, k \in Key, v \in Value : CreateKey(i, k, v)
      \/ \E k \in Key : DeleteKey(k)
      \/ \E j \in Job : RotateCommit(j)
  BY DEF Next, vars, Boot, Write, Rotate, Start, BootRead, BootSeed, BootMatch, Stop, SetFind,
         SetMax, RollbackFind, RotateBegin, RotateCheck, RotateSelect, RotateAbort
<1>. QED
  BY <1>1, <1>2, <1>3, <1>4, <1>5, <1>6, <1>7

(* Versions stay as long as their key does, and no key comes back.          *)
Lasting ==
  \A k \in Key : key[k].st # "unborn" =>
    /\ key'[k].st # "unborn"
    /\ key'[k].st = "live" => key[k].st = "live" /\ \A n \in Version : Stored(k, n) => Stored(k, n)'

(* A version that is added is there afterwards, beside all others. *)
LEMMA AddedRows ==
  \A k \in Key : \A v \in Value :
    TypeOK /\ Adds(k, v) =>
      \E len \in 0 .. MaxVersion :
        /\ Filled(k, len) /\ len + 1 \in Version /\ Filled(k, len + 1)'
        /\ versions'[k][len + 1].value = v
        /\ \A n \in Version : n # len + 1 => versions'[k][n] = versions[k][n]
        /\ \A h \in Key : h # k => versions'[h] = versions[h] /\ key'[h] = key[h]
        /\ key'[k] = [st |-> "live", current |-> len + 1] /\ key[k].st # "gone"
<1>. SUFFICES ASSUME NEW k \in Key, NEW v \in Value, TypeOK, Adds(k, v)
              PROVE  \E len \in 0 .. MaxVersion :
                       /\ Filled(k, len) /\ len + 1 \in Version /\ Filled(k, len + 1)'
                       /\ versions'[k][len + 1].value = v
                       /\ \A n \in Version : n # len + 1 => versions'[k][n] = versions[k][n]
                       /\ \A h \in Key : h # k => versions'[h] = versions[h] /\ key'[h] = key[h]
                       /\ key'[k] = [st |-> "live", current |-> len + 1] /\ key[k].st # "gone"
  OBVIOUS
<1>1. PICK len \in 0 .. MaxVersion : \E row \in Row :
        /\ Filled(k, len) /\ len + 1 \in Version /\ key[k].st # "gone"
        /\ row # NoRow /\ row.value = v
        /\ versions' = [versions EXCEPT ![k][len + 1] = row]
        /\ key' = [key EXCEPT ![k] = [st |-> "live", current |-> len + 1]]
  BY DEF Adds
<1>2. PICK row \in Row :
        /\ Filled(k, len) /\ len + 1 \in Version /\ key[k].st # "gone"
        /\ row # NoRow /\ row.value = v
        /\ versions' = [versions EXCEPT ![k][len + 1] = row]
        /\ key' = [key EXCEPT ![k] = [st |-> "live", current |-> len + 1]]
  BY <1>1
<1>3. /\ versions'[k][len + 1] = row
      /\ \A n \in Version : n # len + 1 => versions'[k][n] = versions[k][n]
      /\ \A h \in Key : h # k => versions'[h] = versions[h] /\ key'[h] = key[h]
      /\ key'[k] = [st |-> "live", current |-> len + 1]
  BY <1>2 DEF TypeOK
<1>4. ASSUME NEW n \in Version
      PROVE  Stored(k, n)' <=> n <= len + 1
  <2>1. n \in Nat /\ len \in Nat
    BY Bounds, Constants
  <2>2. CASE n = len + 1
    BY <1>2, <1>3, <2>1, <2>2 DEF Stored
  <2>3. CASE n # len + 1
    <3>1. Stored(k, n)' <=> Stored(k, n)
      BY <1>3, <2>3 DEF Stored
    <3>. QED
      BY <1>2, <2>1, <2>3, <3>1 DEF Filled
  <2>. QED
    BY <2>2, <2>3
<1>5. Filled(k, len + 1)'
  BY <1>4 DEF Filled
<1>. QED
  BY <1>2, <1>3, <1>5

(* A key whose rows stay keeps its history. *)
LEMMA Untouched ==
  \A k \in Key : \A len \in 0 .. MaxVersion :
    Filled(k, len) /\ (\A n \in Version : Stored(k, n)' = Stored(k, n)) => Filled(k, len)'
BY DEF Filled

(* The rows of another key. *)
LEMMA OtherKeys ==
  \A k \in Key :
    versions'[k] = versions[k] => \A n \in Version : Stored(k, n)' = Stored(k, n)
BY DEF Stored

(* A deleted key has no rows. *)
LEMMA RemovedRows ==
  \A k \in Key :
    TypeOK /\ Removes(k) =>
      /\ Filled(k, 0)' /\ key'[k] = [st |-> "gone", current |-> 0]
      /\ \A h \in Key : h # k => versions'[h] = versions[h] /\ key'[h] = key[h]
<1>. SUFFICES ASSUME NEW k \in Key, TypeOK, Removes(k)
              PROVE  /\ Filled(k, 0)' /\ key'[k] = [st |-> "gone", current |-> 0]
                     /\ \A h \in Key : h # k => versions'[h] = versions[h] /\ key'[h] = key[h]
  OBVIOUS
<1>1. /\ versions'[k] = [n \in Version |-> NoRow] /\ key'[k] = [st |-> "gone", current |-> 0]
      /\ \A h \in Key : h # k => versions'[h] = versions[h] /\ key'[h] = key[h]
  BY DEF Removes, TypeOK
<1>2. \A n \in Version : ~Stored(k, n)' /\ ~(n <= 0)
  BY <1>1 DEF Stored, Version
<1>. QED
  BY <1>1, <1>2 DEF Filled

(* Whatever a step does, versions last. *)
LEMMA EffectLasts == TypeOK /\ Effect => Lasting
<1>. SUFFICES ASSUME TypeOK, Effect, NEW h \in Key, key[h].st # "unborn"
              PROVE  /\ key'[h].st # "unborn"
                     /\ key'[h].st = "live" =>
                          key[h].st = "live" /\ \A n \in Version : Stored(h, n) => Stored(h, n)'
  BY DEF Lasting
<1>1. CASE Rewraps
  BY <1>1 DEF Rewraps
<1>2. ASSUME NEW k \in Key, NEW v \in Value, Adds(k, v)
      PROVE  /\ key'[h].st # "unborn"
             /\ key'[h].st = "live" =>
                  key[h].st = "live" /\ \A n \in Version : Stored(h, n) => Stored(h, n)'
  <2>1. PICK len \in 0 .. MaxVersion :
          /\ Filled(k, len) /\ len + 1 \in Version /\ Filled(k, len + 1)'
          /\ \A o \in Key : o # k => versions'[o] = versions[o] /\ key'[o] = key[o]
          /\ key'[k] = [st |-> "live", current |-> len + 1] /\ key[k].st # "gone"
    BY <1>2, AddedRows
  <2>2. CASE h = k
    <3>1. key[h].st = "live" /\ key'[h].st = "live"
      BY <2>1, <2>2 DEF TypeOK, KeyRow
    <3>2. \A n \in Version : Stored(h, n) => Stored(h, n)'
      <4>1. \A n \in Version : n <= len => n <= len + 1
        BY Bounds, Constants
      <4>. QED
        BY <2>1, <2>2, <4>1 DEF Filled
    <3>. QED
      BY <3>1, <3>2
  <2>3. CASE h # k
    BY <2>1, <2>3, OtherKeys DEF TypeOK, KeyRow
  <2>. QED
    BY <2>2, <2>3
<1>3. ASSUME NEW k \in Key, NEW n \in Version, Points(k, n)
      PROVE  /\ key'[h].st # "unborn"
             /\ key'[h].st = "live" =>
                  key[h].st = "live" /\ \A m \in Version : Stored(h, m) => Stored(h, m)'
  BY <1>3, OtherKeys DEF Points, TypeOK, KeyRow
<1>4. ASSUME NEW k \in Key, Removes(k)
      PROVE  /\ key'[h].st # "unborn"
             /\ key'[h].st = "live" =>
                  key[h].st = "live" /\ \A n \in Version : Stored(h, n) => Stored(h, n)'
  BY <1>4, RemovedRows, OtherKeys
<1>. QED
  BY <1>1, <1>2, <1>3, <1>4 DEF Effect

(* Whatever a step does, every key has a history. *)
LEMMA EffectHistories == TypeOK /\ Histories /\ Effect => Histories'
<1>. SUFFICES ASSUME TypeOK, Histories, Effect, NEW h \in Key
              PROVE  \E len \in 0 .. MaxVersion :
                       /\ Filled(h, len)'
                       /\ IF key'[h].st = "live" THEN key'[h].current \in 1 .. len ELSE len = 0
  BY DEF Histories
<1>1. PICK len \in 0 .. MaxVersion :
        /\ Filled(h, len)
        /\ IF key[h].st = "live" THEN key[h].current \in 1 .. len ELSE len = 0
  BY DEF Histories
<1>2. ASSUME key'[h] = key[h], \A n \in Version : Stored(h, n)' = Stored(h, n)
      PROVE  /\ Filled(h, len)'
             /\ IF key'[h].st = "live" THEN key'[h].current \in 1 .. len ELSE len = 0
  BY <1>1, <1>2, Untouched
<1>3. CASE Rewraps
  BY <1>2, <1>3 DEF Rewraps
<1>4. ASSUME NEW k \in Key, NEW v \in Value, Adds(k, v)
      PROVE  \E l \in 0 .. MaxVersion :
               /\ Filled(h, l)'
               /\ IF key'[h].st = "live" THEN key'[h].current \in 1 .. l ELSE l = 0
  <2>1. PICK l \in 0 .. MaxVersion :
          /\ l + 1 \in Version /\ Filled(k, l + 1)'
          /\ \A o \in Key : o # k => versions'[o] = versions[o] /\ key'[o] = key[o]
          /\ key'[k] = [st |-> "live", current |-> l + 1]
    BY <1>4, AddedRows
  <2>2. CASE h = k
    <3>1. l + 1 \in 0 .. MaxVersion /\ l + 1 \in 1 .. l + 1
      BY <2>1, Bounds, Constants
    <3>. QED
      BY <2>1, <2>2, <3>1
  <2>3. CASE h # k
    BY <1>2, <2>1, <2>3, OtherKeys
  <2>. QED
    BY <2>2, <2>3
<1>5. ASSUME NEW k \in Key, NEW n \in Version, Points(k, n)
      PROVE  /\ Filled(h, len)'
             /\ IF key'[h].st = "live" THEN key'[h].current \in 1 .. len ELSE len = 0
  <2>1. CASE h = k
    <3>1. n \in 1 .. len
      BY <1>1, <1>5, <2>1, Bounds, Constants DEF Points, Filled, Version
    <3>2. key'[h].st = "live" /\ key'[h].current = n
      BY <1>5, <2>1 DEF Points, TypeOK
    <3>3. Filled(h, len)'
      BY <1>1, <1>5, OtherKeys, Untouched DEF Points
    <3>. QED
      BY <3>1, <3>2, <3>3
  <2>2. CASE h # k
    BY <1>2, <1>5, <2>2, OtherKeys DEF Points, TypeOK
  <2>. QED
    BY <2>1, <2>2
<1>6. ASSUME NEW k \in Key, Removes(k)
      PROVE  \E l \in 0 .. MaxVersion :
               /\ Filled(h, l)'
               /\ IF key'[h].st = "live" THEN key'[h].current \in 1 .. l ELSE l = 0
  <2>1. CASE h = k
    BY <1>6, <2>1, RemovedRows, Bounds
  <2>2. CASE h # k
    BY <1>2, <1>6, <2>2, RemovedRows, OtherKeys
  <2>. QED
    BY <2>1, <2>2
<1>. QED
  BY <1>3, <1>4, <1>5, <1>6 DEF Effect

(* How a step moves a request. *)
LEMMA RequestMoves ==
  Inv /\ [Next]_vars => \A r \in Request :
    \/ req'[r] \in {req[r], Idle}
    \/ \E i \in Instance, k \in Key, v \in Value : SetFind(r, i, k, v)
    \/ SetMax(r)
    \/ \E i \in Instance, k \in Key, n \in Version : RollbackFind(r, i, k, n)
<1>. SUFFICES ASSUME Inv, [Next]_vars, NEW r \in Request, req'[r] \notin {req[r], Idle}
              PROVE  \/ \E i \in Instance, k \in Key, v \in Value : SetFind(r, i, k, v)
                     \/ SetMax(r)
                     \/ \E i \in Instance, k \in Key, n \in Version : RollbackFind(r, i, k, n)
  OBVIOUS
<1>1. req \in [Request -> RequestState]
  BY DEF Inv, TypeOK
<1>2. ASSUME NEW o \in Request, NEW q, req' = [req EXCEPT ![o] = q]
      PROVE  o = r
  BY <1>1, <1>2
<1>3. ASSUME NEW o \in Request, Reply(o)
      PROVE  FALSE
  BY <1>1, <1>3 DEF Reply
<1>4. ASSUME NEW o \in Request, SetMax(o)
      PROVE  o = r
  BY <1>1, <1>4 DEF SetMax
<1>5. ASSUME NEW i \in Instance, Stop(i)
      PROVE  FALSE
  BY <1>5 DEF Stop
<1>6. req' = req => FALSE
  OBVIOUS
<1>7. CASE Write
  BY <1>2, <1>3, <1>4, <1>6, <1>7
     DEF Write, CreateKey, SetFind, SetAdd, RollbackFind, RollbackPoint, DeleteKey
<1>. QED
  BY <1>5, <1>6, <1>7
     DEF Next, vars, Boot, Rotate, Start, BootRead, BootSeed, BootMatch, RotateBegin,
         RotateCheck, RotateSelect, RotateCommit, RotateAbort

(* Rows that are there after a step. *)
StoredThen(k, n) == n \in Version /\ versions'[k][n] # NoRow

(* What a request has found lasts. *)
LEMMA NextForesaw == StoreInv /\ [Next]_vars /\ Lasting => Foresaw'
<1>. SUFFICES ASSUME StoreInv, [Next]_vars, Lasting, NEW r \in Request, req'[r].pc # "idle"
              PROVE  /\ key'[req'[r].key].st # "unborn"
                     /\ key'[req'[r].key].st = "live" =>
                          /\ req'[r].pc = "add" =>
                               req'[r].n = 1 \/ StoredThen(req'[r].key, req'[r].n - 1)
                          /\ req'[r].pc = "point" => StoredThen(req'[r].key, req'[r].n)
  BY DEF Foresaw, Stored, StoredThen
<1>1. Inv /\ Foresaw /\ req \in [Request -> RequestState]
  BY DEF StoreInv, Inv, TypeOK
<1>2. CASE req'[r] = req[r]
  <2>1. /\ req[r].key \in Key /\ key[req[r].key].st # "unborn"
        /\ key[req[r].key].st = "live" =>
             /\ req[r].pc = "add" => req[r].n = 1 \/ Stored(req[r].key, req[r].n - 1)
             /\ req[r].pc = "point" => Stored(req[r].key, req[r].n)
    BY <1>1, <1>2 DEF Foresaw, Inv, Handled
  <2>2. PICK k \in Key : k = req[r].key /\ k = req'[r].key
    BY <1>2, <2>1
  <2>3. PICK n : n = req[r].n /\ n = req'[r].n
    BY <1>2
  <2>4. /\ key'[k].st # "unborn"
        /\ key'[k].st = "live" =>
             /\ req[r].pc = "add" => n = 1 \/ Stored(k, n - 1)'
             /\ req[r].pc = "point" => Stored(k, n)'
    BY <2>1, <2>2, <2>3 DEF Lasting, Stored
  <2>5. /\ StoredThen(req'[r].key, req'[r].n - 1) <=> Stored(k, n - 1)'
        /\ StoredThen(req'[r].key, req'[r].n) <=> Stored(k, n)'
    BY <2>2, <2>3 DEF Stored, StoredThen
  <2>. QED
    BY <1>2, <2>2, <2>3, <2>4, <2>5
<1>3. CASE req'[r] = Idle
  BY <1>3 DEF Idle
<1>4. ASSUME NEW i \in Instance, NEW k \in Key, NEW v \in Value, SetFind(r, i, k, v)
      PROVE  req'[r].pc = "max" /\ req'[r].key = k /\ key'[k].st = "live"
  BY <1>1, <1>4, EmptyTypes DEF SetFind, Idle
<1>5. ASSUME SetMax(r)
      PROVE  /\ req'[r].pc = "add" /\ req'[r].key = req[r].key /\ key' = key
             /\ key[req[r].key].st # "unborn"
             /\ req'[r].n = 1 \/ StoredThen(req'[r].key, req'[r].n - 1)
  <2>1. PICK n \in Version : /\ n = 1 \/ Stored(req[r].key, n - 1)
                             /\ req' = [req EXCEPT ![r].pc = "add", ![r].n = n]
    BY <1>5 DEF SetMax
  <2>2. req'[r].pc = "add" /\ req'[r].key = req[r].key /\ req'[r].n = n
    BY <1>1, <2>1 DEF RequestState
  <2>3. key' = key /\ versions' = versions /\ key[req[r].key].st # "unborn"
    BY <1>1, <1>5 DEF SetMax, Foresaw
  <2>4. Stored(req[r].key, n - 1) => StoredThen(req'[r].key, req'[r].n - 1)
    BY <2>2, <2>3 DEF Stored, StoredThen
  <2>. QED
    BY <2>1, <2>2, <2>3, <2>4
<1>6. ASSUME NEW i \in Instance, NEW k \in Key, NEW n \in Version, RollbackFind(r, i, k, n)
      PROVE  /\ req'[r].pc = "point" /\ req'[r].key = k /\ key'[k].st = "live"
             /\ StoredThen(req'[r].key, req'[r].n)
  <2>1. req'[r].pc = "point" /\ req'[r].key = k /\ req'[r].n = n
    BY <1>1, <1>6 DEF RollbackFind, Idle
  <2>2. key' = key /\ versions' = versions /\ key[k].st = "live" /\ Stored(k, n)
    BY <1>6 DEF RollbackFind
  <2>. QED
    BY <2>1, <2>2 DEF Stored, StoredThen
<1>. QED
  BY <1>1, <1>2, <1>3, <1>4, <1>5, <1>6, RequestMoves

(* The invariant with its histories is inductive. *)
LEMMA StoreInvNext == StoreInv /\ [Next]_vars => StoreInv' /\ Effect
<1>. SUFFICES ASSUME StoreInv, [Next]_vars
              PROVE  StoreInv' /\ Effect
  OBVIOUS
<1>1. Effect /\ TypeOK /\ Histories
  BY StepEffect DEF StoreInv, Inv
<1>2. Inv' /\ Histories' /\ Lasting
  BY <1>1, NextInv, EffectHistories, EffectLasts DEF StoreInv
<1>. QED
  BY <1>1, <1>2, NextForesaw DEF StoreInv

(* Initially there are no keys, and no requests. *)
LEMMA StoreInvInit == Init => StoreInv
<1>. SUFFICES ASSUME Init
              PROVE  StoreInv
  OBVIOUS
<1>1. \A k \in Key : Filled(k, 0) /\ key[k].st = "unborn"
  <2>1. \A n \in Version : ~(n <= 0)
    BY DEF Version
  <2>. QED
    BY <2>1 DEF Init, Filled, Stored
<1>2. Histories /\ Foresaw
  BY <1>1, Bounds DEF Histories, Foresaw, Init, Idle
<1>. QED
  BY <1>2, InitInv DEF StoreInv

(* The state of the store, as the tables have it. *)
Written == [k \in Key |-> History(k)]
Pointed == [k \in Key |-> key[k].current]

(* The steps of the store, on that state. *)
LEMMA StoreSteps ==
  /\ \A k \in Key : \A v \in Value :
       /\ Written' = [Written EXCEPT ![k] = Append(Written[k], v)]
       /\ Pointed' = [Pointed EXCEPT ![k] = Len(Written[k]) + 1]
       => Store!Next
  /\ \A k \in Key : \A n \in DOMAIN Written[k] :
       Pointed' = [Pointed EXCEPT ![k] = n] /\ Written' = Written => Store!Next
  /\ \A k \in Key :
       Written' = [Written EXCEPT ![k] = <<>>] /\ Pointed' = [Pointed EXCEPT ![k] = 0] => Store!Next
<1>1. ASSUME NEW k \in Key, NEW v \in Value,
             Written' = [Written EXCEPT ![k] = Append(Written[k], v)],
             Pointed' = [Pointed EXCEPT ![k] = Len(Written[k]) + 1]
      PROVE  Store!Next
  <2>1. Store!Write(k, v)
    BY <1>1 DEF Store!Write, Written, Pointed, History
  <2>. QED
    BY <2>1 DEF Store!Next
<1>2. ASSUME NEW k \in Key, NEW n \in DOMAIN Written[k],
             Pointed' = [Pointed EXCEPT ![k] = n], Written' = Written
      PROVE  Store!Next
  <2>1. Store!Rollback(k, n)
    BY <1>2 DEF Store!Rollback, Written, Pointed, History
  <2>. QED
    BY <2>1 DEF Store!Next, Written, History
<1>3. ASSUME NEW k \in Key, Written' = [Written EXCEPT ![k] = <<>>],
             Pointed' = [Pointed EXCEPT ![k] = 0]
      PROVE  Store!Next
  <2>1. Store!Delete(k)
    BY <1>3 DEF Store!Delete, Written, Pointed, History
  <2>. QED
    BY <2>1 DEF Store!Next
<1>. QED
  BY <1>1, <1>2, <1>3

(* A key without rows has an empty history. *)
LEMMA EmptyHistory ==
  \A k \in Key :
    /\ Filled(k, 0) => History(k) = <<>>
    /\ Filled(k, 0)' => History(k)' = <<>>
<1>. SUFFICES ASSUME NEW k \in Key
              PROVE  /\ Filled(k, 0) => History(k) = <<>>
                     /\ Filled(k, 0)' => History(k)' = <<>>
  OBVIOUS
<1>1. 0 \in 0 .. MaxVersion /\ 1 .. 0 = {}
  BY Bounds
<1>2. \A f : f = [n \in {} |-> f[n]] => f = <<>>
  OBVIOUS
<1>3. Filled(k, 0) => History(k) = [n \in {} |-> versions[k][n].value]
  BY <1>1, LengthIs DEF History
<1>4. Filled(k, 0)' => History(k)' = [n \in {} |-> versions'[k][n].value]
  BY <1>1, LengthIs DEF History
<1>. QED
  BY <1>2, <1>3, <1>4

(* Keys that a step leaves alone. *)
LEMMA SameKey ==
  \A k \in Key :
    /\ TypeOK /\ TypeOK' /\ Histories
    /\ \A n \in Version :
         Stored(k, n)' = Stored(k, n) /\ versions'[k][n].value = versions[k][n].value
    => History(k)' = History(k)
<1>. SUFFICES ASSUME NEW k \in Key, TypeOK, TypeOK', Histories,
                     \A n \in Version : Stored(k, n)' = Stored(k, n)
                                          /\ versions'[k][n].value = versions[k][n].value
              PROVE  History(k)' = History(k)
  OBVIOUS
<1>1. PICK len \in 0 .. MaxVersion : Filled(k, len)
  BY DEF Histories
<1>2. Filled(k, len)' /\ 1 .. len \subseteq Version
  BY <1>1, Untouched, Constants DEF Version
<1>. QED
  BY <1>1, <1>2, SameHistory

(* Every effect is a step of the store, or none. *)
LEMMA EffectRefines ==
  TypeOK /\ TypeOK' /\ Histories /\ Effect => Store!Next \/ UNCHANGED <<Written, Pointed>>
<1>. SUFFICES ASSUME TypeOK, TypeOK', Histories, Effect
              PROVE  Store!Next \/ UNCHANGED <<Written, Pointed>>
  OBVIOUS
<1>1. ASSUME NEW h \in Key, versions'[h] = versions[h]
      PROVE  History(h)' = History(h)
  BY <1>1, OtherKeys, SameKey
<1>2. CASE Rewraps
  BY <1>2, SameKey DEF Rewraps, Written, Pointed
<1>3. ASSUME NEW k \in Key, NEW v \in Value, Adds(k, v)
      PROVE  Store!Next
  <2>1. PICK len \in 0 .. MaxVersion :
          /\ Filled(k, len) /\ len + 1 \in Version /\ Filled(k, len + 1)'
          /\ versions'[k][len + 1].value = v
          /\ \A n \in Version : n # len + 1 => versions'[k][n] = versions[k][n]
          /\ \A h \in Key : h # k => versions'[h] = versions[h] /\ key'[h] = key[h]
          /\ key'[k] = [st |-> "live", current |-> len + 1]
    BY <1>3, AddedRows
  <2>2. \A n \in 1 .. len : n \in Version /\ n # len + 1
    BY Constants DEF Version
  <2>3. History(k)' = Append(History(k), v) /\ Len(History(k)) = len
    BY <2>1, <2>2, LongerHistory
  <2>4. Written' = [Written EXCEPT ![k] = Append(Written[k], v)]
    BY <1>1, <2>1, <2>3 DEF Written
  <2>5. Pointed' = [Pointed EXCEPT ![k] = Len(Written[k]) + 1]
    <3>1. /\ key'[k].current = Len(Written[k]) + 1
          /\ \A h \in Key : h # k => key'[h].current = key[h].current
      BY <2>1, <2>3 DEF Written
    <3>. QED
      BY <3>1 DEF Pointed
  <2>. QED
    BY <2>4, <2>5, StoreSteps
<1>4. ASSUME NEW k \in Key, NEW n \in Version, Points(k, n)
      PROVE  Store!Next
  <2>1. PICK len \in 0 .. MaxVersion : Filled(k, len)
    BY DEF Histories
  <2>2. n \in 1 .. len
    BY <1>4, <2>1, Bounds, Constants DEF Points, Filled, Version
  <2>3. n \in DOMAIN Written[k]
    BY <2>1, <2>2, HistoryOf DEF Written
  <2>4. Written' = Written
    BY <1>1, <1>4 DEF Written, Points
  <2>5. Pointed' = [Pointed EXCEPT ![k] = n]
    BY <1>4 DEF Pointed, Points, TypeOK
  <2>. QED
    BY <2>3, <2>4, <2>5, StoreSteps
<1>5. ASSUME NEW k \in Key, Removes(k)
      PROVE  Store!Next
  <2>1. /\ Filled(k, 0)' /\ key'[k] = [st |-> "gone", current |-> 0]
        /\ \A h \in Key : h # k => versions'[h] = versions[h] /\ key'[h] = key[h]
    BY <1>5, RemovedRows
  <2>2. History(k)' = <<>>
    BY <2>1, EmptyHistory
  <2>3. Written' = [Written EXCEPT ![k] = <<>>]
    BY <1>1, <2>1, <2>2 DEF Written
  <2>4. Pointed' = [Pointed EXCEPT ![k] = 0]
    <3>1. key'[k].current = 0 /\ \A h \in Key : h # k => key'[h].current = key[h].current
      BY <2>1
    <3>. QED
      BY <3>1 DEF Pointed
  <2>. QED
    BY <2>3, <2>4, StoreSteps
<1>. QED
  BY <1>2, <1>3, <1>4, <1>5 DEF Effect

(* The tables of the vault implement the versioned store: whatever requests *)
(* race, instances crash and rotations commit, a key's values are a history *)
(* that only grows by its next version, and its pointer names one of them.  *)
THEOREM VaultImplementsStore == Spec => ImplementsStore
<1>1. Init => Store!Init
  <2>. SUFFICES ASSUME Init
                PROVE  Store!Init
    OBVIOUS
  <2>1. \A k \in Key : Filled(k, 0)
    BY StoreInvInit DEF StoreInv, Histories, Init
  <2>2. \A k \in Key : History(k) = <<>> /\ key[k].current = 0
    BY <2>1, EmptyHistory DEF Init
  <2>. QED
    BY <2>2 DEF Store!Init, History
<1>2. StoreInv /\ [Next]_vars =>
        [Store!Next]_<<[k \in Key |-> [n \in 1 .. Length(k) |-> versions[k][n].value]],
                       [k \in Key |-> key[k].current]>>
  <2>. SUFFICES ASSUME StoreInv, [Next]_vars
                PROVE  Store!Next \/ UNCHANGED <<Written, Pointed>>
    BY DEF Written, Pointed, History
  <2>1. TypeOK /\ TypeOK' /\ Histories /\ Effect
    BY StoreInvNext DEF StoreInv, Inv
  <2>. QED
    BY <2>1, EffectRefines
<1>3. StoreInv /\ [Next]_vars => StoreInv'
  BY StoreInvNext
<1>. QED
  BY <1>1, <1>2, <1>3, StoreInvInit, PTL DEF Spec, ImplementsStore, Store!Spec

-----------------------------------------------------------------------------
(* A value that was written is there, unchanged, until its key is deleted. *)
ValuesStay ==
  \A k \in Key : \A n \in Version :
    Stored(k, n) =>
      \/ key'[k].st = "gone"
      \/ Stored(k, n)' /\ versions'[k][n].value = versions[k][n].value

(* So it is for whatever a step may do. *)
LEMMA EffectStays == TypeOK /\ Effect => ValuesStay
<1>. SUFFICES ASSUME TypeOK, Effect, NEW k \in Key, NEW n \in Version, Stored(k, n)
              PROVE  \/ key'[k].st = "gone"
                     \/ Stored(k, n)' /\ versions'[k][n].value = versions[k][n].value
  BY DEF ValuesStay
<1>1. CASE Rewraps
  BY <1>1 DEF Rewraps
<1>2. ASSUME NEW h \in Key, NEW v \in Value, Adds(h, v)
      PROVE  Stored(k, n)' /\ versions'[k][n].value = versions[k][n].value
  <2>1. PICK len \in 0 .. MaxVersion :
          /\ Filled(h, len)
          /\ \A m \in Version : m # len + 1 => versions'[h][m] = versions[h][m]
          /\ \A g \in Key : g # h => versions'[g] = versions[g]
    BY <1>2, AddedRows
  <2>2. h = k => n # len + 1
    <3>1. h = k => n <= len
      BY <2>1 DEF Filled
    <3>. QED
      BY <3>1, Bounds DEF Version
  <2>3. versions'[k][n] = versions[k][n]
    BY <2>1, <2>2
  <2>. QED
    BY <2>3 DEF Stored
<1>3. ASSUME NEW h \in Key, NEW m \in Version, Points(h, m)
      PROVE  Stored(k, n)' /\ versions'[k][n].value = versions[k][n].value
  BY <1>3 DEF Points, Stored
<1>4. ASSUME NEW h \in Key, Removes(h)
      PROVE  \/ key'[k].st = "gone"
             \/ Stored(k, n)' /\ versions'[k][n].value = versions[k][n].value
  BY <1>4 DEF Removes, Stored, TypeOK
<1>. QED
  BY <1>1, <1>2, <1>3, <1>4 DEF Effect

(* Whatever requests race, the versions of a key that is there are numbered *)
(* from 1 without a gap and its pointer names one of them, and a key that   *)
(* is gone left no version behind (create, set, rollback and delete, and    *)
(* the rotation, key.service.ts and app.ts).                                *)
THEOREM HistoriesHaveNoGaps == Spec => []Histories
<1>1. StoreInv => Histories
  BY DEF StoreInv
<1>2. StoreInv /\ [Next]_vars => StoreInv'
  BY StoreInvNext
<1>. QED
  BY <1>1, <1>2, StoreInvInit, PTL DEF Spec

(* No step changes a value once it was written, nor takes it away without   *)
(* its key: what a rotation seals again is the same value, and a write that *)
(* was overtaken by another does not land on its version.                   *)
THEOREM ValuesAreNeverRewritten == Spec => [][ValuesStay]_vars
<1>1. StoreInv /\ [Next]_vars => StoreInv' /\ ValuesStay
  BY StoreInvNext, EffectStays DEF StoreInv, Inv
<1>. QED
  BY <1>1, StoreInvInit, PTL DEF Spec
=============================================================================

------------------------------- MODULE Vault -------------------------------
(***************************************************************************)
(* Secrets at rest: the versions of every key, and the master keys (KEKs)  *)
(* that wrap them.  Dashboard requests create, set, roll back and delete   *)
(* keys on any of several server instances; `cuki kek rotate` re-wraps all *)
(* versions under a new master key while the instances run.                *)
(*                                                                         *)
(* Grain of atomicity: one SQL statement or transaction.  Encryption,      *)
(* decryption and fingerprints are computed in memory in between: an AEAD  *)
(* opens exactly with the key and the context it was sealed with, and a    *)
(* fingerprint identifies its master key.                                  *)
(*                                                                         *)
(* Left out: names and descriptions of keys, who wrote a version, RBAC.    *)
(***************************************************************************)
EXTENDS Integers

CONSTANTS
  Key,         \* keys.id; an id is never drawn twice
  Public,      \* those of type "public"
  Value,       \* plaintexts
  Master,      \* 32-byte master keys, known by their fingerprints
  Instance,    \* `cuki serve` processes
  Job,         \* `cuki kek rotate` processes
  Request,     \* slots for management requests in flight
  MaxVersion,  \* bound: versions of a key
  MaxKek,      \* bound: versions of the master key
  None         \* no value

ASSUME ConstantsAssumption ==
  /\ Public \subseteq Key
  /\ MaxVersion \in Nat \ {0} /\ MaxKek \in Nat \ {0}
  /\ None \notin Key \cup Value \cup Master \cup Instance

VARIABLES
  key,        \* table keys
  versions,   \* table key_versions
  registry,   \* table kek_versions
  server,     \* each instance: KekProvider's state, and how far its boot is
  job,        \* local state of each rotation
  req         \* local state of each request

vars == <<key, versions, registry, server, job, req>>

-----------------------------------------------------------------------------
Version == 1 .. MaxVersion
KekVersion == 1 .. MaxKek

(* A version row: its value and the master key that wraps its DEK, by the   *)
(* number stored in the row and by the bytes that did it.                   *)
NoRow == [value |-> None, kek |-> 0, master |-> None]
Row == {NoRow} \cup [value : Value, kek : 0 .. MaxKek, master : Master \cup {None}]
Stored(k, n) == n \in Version /\ versions[k][n] # NoRow

KeyRow == [st : {"live"}, current : Version] \cup [st : {"unborn", "gone"}, current : {0}]
KekRow == [st : {"absent", "active", "retired"}, master : Master \cup {None}]
Absent == [st |-> "absent", master |-> None]

(* An instance was started with a master key and maybe an old one, and maps *)
(* the versions active and oldVersion to them once it serves.               *)
ServerState ==
  [pc : {"down", "read", "seed", "match", "serving"}, master : Master \cup {None},
   old : Master \cup {None}, active : 0 .. MaxKek, oldVersion : 0 .. MaxKek]
Down == [pc |-> "down", master |-> None, old |-> None, active |-> 0, oldVersion |-> 0]

JobState ==
  [pc : {"idle", "check", "select", "commit"}, master : Master \cup {None},
   old : Master \cup {None}, from : 0 .. MaxKek, rows : SUBSET (Key \X Version)]
NoJob == [pc |-> "idle", master |-> None, old |-> None, from |-> 0, rows |-> {}]

RequestState ==
  [pc : {"idle", "max", "add", "point"}, inst : Instance \cup {None},
   key : Key \cup {None}, value : Value \cup {None}, n : 0 .. MaxVersion]
Idle == [pc |-> "idle", inst |-> None, key |-> None, value |-> None, n |-> 0]

TypeOK ==
  /\ key \in [Key -> KeyRow]
  /\ versions \in [Key -> [Version -> Row]]
  /\ registry \in [KekVersion -> KekRow]
  /\ server \in [Instance -> ServerState]
  /\ job \in [Job -> JobState]
  /\ req \in [Request -> RequestState]

Init ==
  /\ key = [k \in Key |-> [st |-> "unborn", current |-> 0]]
  /\ versions = [k \in Key |-> [n \in Version |-> NoRow]]
  /\ registry = [v \in KekVersion |-> Absent]
  /\ server = [i \in Instance |-> Down]
  /\ job = [j \in Job |-> NoJob]
  /\ req = [r \in Request |-> Idle]

-----------------------------------------------------------------------------
(* Boot.                                                                    *)

ActiveVersions == {v \in KekVersion : registry[v].st = "active"}
Becomes(i, new) == server' = [server EXCEPT ![i] = new]

Start(i, m, o) ==
  /\ server[i] = Down
  /\ Becomes(i, [Down EXCEPT !.pc = "read", !.master = m, !.old = o])
  /\ UNCHANGED <<key, versions, registry, job, req>>

(* Mutant: boot with any key. *)
AnyKeyMatches(m, v) == m \in Master

(* The fingerprint guard: refuse to start with another key than the active. *)
FingerprintMatches(m, v) == registry[v].master = m

BootRead(i) ==
  /\ server[i].pc = "read"
  /\ \/ ActiveVersions = {} /\ Becomes(i, [server[i] EXCEPT !.pc = "seed"])
     \/ \E v \in ActiveVersions :
          IF ~FingerprintMatches(server[i].master, v) THEN Becomes(i, Down)
          ELSE Becomes(i, [server[i] EXCEPT !.active = v,
                             !.pc = IF server[i].old = None THEN "serving" ELSE "match"])
  /\ UNCHANGED <<key, versions, registry, job, req>>

(* First boot.  The primary key lets one of several instances in.  An old   *)
(* key that is mapped to no version, here and below, is never looked at.    *)
BootSeed(i) ==
  /\ server[i].pc = "seed"
  /\ \/ /\ registry[1] = Absent
        /\ registry' = [registry EXCEPT ![1] = [st |-> "active", master |-> server[i].master]]
        /\ Becomes(i, [server[i] EXCEPT !.active = 1, !.old = None, !.pc = "serving"])
     \/ registry[1] # Absent /\ Becomes(i, Down) /\ UNCHANGED registry
  /\ UNCHANGED <<key, versions, job, req>>

(* The old key is mapped to a version that has its fingerprint, if any. *)
BootMatch(i) ==
  /\ server[i].pc = "match"
  /\ LET matching == {v \in KekVersion : registry[v].master = server[i].old} IN
     \/ \E v \in matching :
          Becomes(i, [server[i] EXCEPT !.oldVersion = v, !.pc = "serving"])
     \/ matching = {} /\ Becomes(i, [server[i] EXCEPT !.old = None, !.pc = "serving"])
  /\ UNCHANGED <<key, versions, registry, job, req>>

(* An instance stops or crashes with the requests it is handling. *)
Stop(i) ==
  /\ server[i] # Down
  /\ Becomes(i, Down)
  /\ req' = [r \in Request |-> IF req[r].inst = i THEN Idle ELSE req[r]]
  /\ UNCHANGED <<key, versions, registry, job>>

-----------------------------------------------------------------------------
(* Values.                                                                  *)

Serving(i) == server[i].pc = "serving"
Reply(r) == req' = [req EXCEPT ![r] = Idle]

(* versionRowFor on an instance. *)
Sealed(i, k, v) ==
  IF k \in Public THEN [value |-> v, kek |-> 0, master |-> None]
  ELSE [value |-> v, kek |-> server[i].active, master |-> server[i].master]

(* decryptRow on an instance. *)
Opens(i, row) ==
  \/ row.kek = 0
  \/ row.kek = server[i].active /\ row.master = server[i].master
  \/ row.kek = server[i].oldVersion /\ row.master = server[i].old

(* create: the key and version 1, in one transaction. *)
CreateKey(i, k, v) ==
  /\ Serving(i)
  /\ key[k].st = "unborn"
  /\ key' = [key EXCEPT ![k] = [st |-> "live", current |-> 1]]
  /\ versions' = [versions EXCEPT ![k][1] = Sealed(i, k, v)]
  /\ UNCHANGED <<registry, server, job, req>>

(* setValue: find the key, read the highest version, encrypt with the next  *)
(* one as context, insert it and point the key at it.                       *)
SetFind(r, i, k, v) ==
  /\ req[r] = Idle
  /\ Serving(i)
  /\ key[k].st = "live"
  /\ req' = [req EXCEPT ![r] = [Idle EXCEPT !.pc = "max", !.inst = i, !.key = k, !.value = v]]
  /\ UNCHANGED <<key, versions, registry, server, job>>

(* The key may be gone by now: then there is no version and the next is 1.  *)
SetMax(r) ==
  /\ req[r].pc = "max"
  /\ \E n \in Version :
       /\ n = 1 \/ Stored(req[r].key, n - 1)
       /\ \A m \in Version : m >= n => ~Stored(req[r].key, m)
       /\ req' = [req EXCEPT ![r].pc = "add", ![r].n = n]
  /\ UNCHANGED <<key, versions, registry, server, job>>

(* Mutant: without the unique index. *)
InsertableAgain(k, n) == key[k].st = "live"

(* The unique index and the foreign key decide; a conflict is a 409. *)
Insertable(k, n) == key[k].st = "live" /\ ~Stored(k, n)

SetAdd(r) ==
  /\ req[r].pc = "add"
  /\ LET k == req[r].key  n == req[r].n IN
     \/ /\ Insertable(k, n)
        /\ versions' = [versions EXCEPT ![k][n] = Sealed(req[r].inst, k, req[r].value)]
        /\ key' = [key EXCEPT ![k].current = n]
     \/ UNCHANGED <<key, versions>>       \* refused, or the transaction failed
  /\ Reply(r)
  /\ UNCHANGED <<registry, server, job>>

(* rollback: find the version, then point the key at it. *)
RollbackFind(r, i, k, n) ==
  /\ req[r] = Idle
  /\ Serving(i)
  /\ key[k].st = "live"
  /\ Stored(k, n)
  /\ req' = [req EXCEPT ![r] = [Idle EXCEPT !.pc = "point", !.inst = i, !.key = k, !.n = n]]
  /\ UNCHANGED <<key, versions, registry, server, job>>

(* Mutant: to the version before the one asked for. *)
RollbackBefore(r) ==
  /\ req[r].pc = "point"
  /\ key' = IF key[req[r].key].st = "live" THEN [key EXCEPT ![req[r].key].current = req[r].n - 1]
            ELSE key
  /\ Reply(r)
  /\ UNCHANGED <<versions, registry, server, job>>

RollbackPoint(r) ==
  /\ req[r].pc = "point"
  /\ key' = IF key[req[r].key].st = "live" THEN [key EXCEPT ![req[r].key].current = req[r].n]
            ELSE key
  /\ Reply(r)
  /\ UNCHANGED <<versions, registry, server, job>>

(* The versions cascade. *)
DeleteKey(k) ==
  /\ key[k].st = "live"
  /\ key' = [key EXCEPT ![k] = [st |-> "gone", current |-> 0]]
  /\ versions' = [versions EXCEPT ![k] = [n \in Version |-> NoRow]]
  /\ UNCHANGED <<registry, server, job, req>>

-----------------------------------------------------------------------------
(* cuki kek rotate.                                                         *)

RotateBegin(j, m, o) ==
  /\ job[j] = NoJob
  /\ job' = [job EXCEPT ![j] = [NoJob EXCEPT !.pc = "check", !.master = m, !.old = o]]
  /\ UNCHANGED <<key, versions, registry, server, req>>

(* The active row is read; the old key must be the active one. *)
RotateCheck(j) ==
  /\ job[j].pc = "check"
  /\ \/ \E v \in ActiveVersions :
          /\ FingerprintMatches(job[j].old, v)
          /\ v < MaxKek
          /\ job' = [job EXCEPT ![j].pc = "select", ![j].from = v]
     \/ job' = [job EXCEPT ![j] = NoJob]
  /\ UNCHANGED <<key, versions, registry, server, req>>

(* The rows to re-wrap are read outside the transaction. *)
WrappedBy(v) == {p \in Key \X Version : Stored(p[1], p[2]) /\ versions[p[1]][p[2]].kek = v}

RotateSelect(j) ==
  /\ job[j].pc = "select"
  /\ job' = [job EXCEPT ![j].pc = "commit", ![j].rows = WrappedBy(job[j].from)]
  /\ UNCHANGED <<key, versions, registry, server, req>>

(* The transaction: unwrap every row read with the old key, wrap it with    *)
(* the new one; retire what is active; insert the new version.              *)
Rewrapped(j) ==
  [k \in Key |-> [n \in Version |->
     IF <<k, n>> \in job[j].rows /\ Stored(k, n)
     THEN [versions[k][n] EXCEPT !.kek = job[j].from + 1, !.master = job[j].master]
     ELSE versions[k][n]]]

(* Mutant: the old version is not retired. *)
RotatedWithoutRetiring(j) ==
  [registry EXCEPT ![job[j].from + 1] = [st |-> "active", master |-> job[j].master]]

RotatedRegistry(j) ==
  [v \in KekVersion |->
     IF v = job[j].from + 1 THEN [st |-> "active", master |-> job[j].master]
     ELSE IF v \in ActiveVersions THEN [registry[v] EXCEPT !.st = "retired"]
     ELSE registry[v]]

(* Mutant: no transaction, so the rows may be re-wrapped and no more. *)
RotateCommitTorn(j) ==
  /\ job[j].pc = "commit"
  /\ versions' = Rewrapped(j)
  /\ registry' \in {RotatedRegistry(j), registry}
  /\ job' = [job EXCEPT ![j] = NoJob]
  /\ UNCHANGED <<key, server, req>>

RotateCommit(j) ==
  /\ job[j].pc = "commit"
  /\ registry[job[j].from + 1] = Absent
  /\ \A p \in job[j].rows : Stored(p[1], p[2]) => versions[p[1]][p[2]].master = job[j].old
  /\ versions' = Rewrapped(j)
  /\ registry' = RotatedRegistry(j)
  /\ job' = [job EXCEPT ![j] = NoJob]
  /\ UNCHANGED <<key, server, req>>

(* A rotation that conflicts, fails or is killed changes nothing. *)
RotateAbort(j) ==
  /\ job[j] # NoJob
  /\ job' = [job EXCEPT ![j] = NoJob]
  /\ UNCHANGED <<key, versions, registry, server, req>>

-----------------------------------------------------------------------------
Boot(i) ==
  \/ \E m \in Master, o \in Master \cup {None} : Start(i, m, o)
  \/ BootRead(i) \/ BootSeed(i) \/ BootMatch(i) \/ Stop(i)

Write ==
  \/ \E i \in Instance, k \in Key, v \in Value : CreateKey(i, k, v)
  \/ \E r \in Request : \/ \E i \in Instance, k \in Key, v \in Value : SetFind(r, i, k, v)
                        \/ SetMax(r) \/ SetAdd(r)
                        \/ \E i \in Instance, k \in Key, n \in Version : RollbackFind(r, i, k, n)
                        \/ RollbackPoint(r)
  \/ \E k \in Key : DeleteKey(k)

Rotate(j) ==
  \/ \E m, o \in Master : RotateBegin(j, m, o)
  \/ RotateCheck(j) \/ RotateSelect(j) \/ RotateCommit(j) \/ RotateAbort(j)

Next ==
  \/ \E i \in Instance : Boot(i)
  \/ Write
  \/ \E j \in Job : Rotate(j)

Spec == Init /\ [][Next]_vars

-----------------------------------------------------------------------------
(* Properties.                                                              *)

(* No interleaving of boots, writes and rotations, committed or not, leaves *)
(* a secret that nothing can open: the number in a row names, in the        *)
(* registry, the master key that really wraps it.                           *)
WrapsMatchRegistry ==
  \A k \in Key \ Public, n \in Version : Stored(k, n) =>
    LET row == versions[k][n] IN
    row.kek \in KekVersion /\ row.master # None /\ row.master = registry[row.kek].master

(* However many instances boot for the first time and rotations run at      *)
(* once, the versions are numbered from 1 without a gap and exactly the     *)
(* last one is active.                                                      *)
LastIsActive ==
  \A v \in KekVersion :
    /\ registry[v].st = "active" => \A u \in KekVersion : u > v => registry[u] = Absent
    /\ registry[v].st = "retired" => v < MaxKek /\ registry[v + 1] # Absent
    /\ registry[v] # Absent => \A u \in KekVersion : u < v => registry[u].st = "retired"

(* An instance that got past its boot seals with the key that the registry  *)
(* has under the number it writes into the row, also when a rotation has    *)
(* overtaken it.                                                            *)
ServersMatchRegistry ==
  \A i \in Instance : Serving(i) =>
    /\ registry[server[i].active].master = server[i].master
    /\ server[i].oldVersion # 0 => registry[server[i].oldVersion].master = server[i].old

(* The rows of a key are a history without gaps, and current points into    *)
(* it: the tables implement VersionedStore.                                 *)
Length(k) == CHOOSE n \in 0 .. MaxVersion : \A m \in Version : Stored(k, m) <=> m <= n
Store == INSTANCE VersionedStore WITH
  history <- [k \in Key |-> [n \in 1 .. Length(k) |-> versions[k][n].value]],
  current <- [k \in Key |-> key[k].current]
ImplementsStore == Store!Spec

(* What the repository says and the code does not do.                       *)

(* "values remain readable throughout": every instance that serves can open *)
(* the current version of every key.                                        *)
ReadableThroughout ==
  \A i \in Instance, k \in Key :
    Serving(i) /\ key[k].st = "live" => Opens(i, versions[k][key[k].current])

(* "For each key_versions row where kekVersion = old": no version is left   *)
(* under a retired master key.                                              *)
RotationMovesEveryRow ==
  \A v \in KekVersion : registry[v].st = "retired" => WrappedBy(v) = {}
=============================================================================

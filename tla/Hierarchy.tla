----------------------------- MODULE Hierarchy -----------------------------
(***************************************************************************)
(* The management plane's hierarchy: projects of an organization, their    *)
(* environments, the keys and services of an environment, and the grants   *)
(* that tie a service to keys.  A request names one row by its id; the     *)
(* handler resolves the organization that owns it by joins, authorizes the *)
(* user there, and changes the row by a later statement.  Deleting a row   *)
(* cascades to everything below it, at once.                               *)
(*                                                                         *)
(* Grain of atomicity: one SQL statement; two reads of columns that never  *)
(* change are one step.  A request brings the roles its session was        *)
(* admitted with (module Members), and is there from the statement that    *)
(* admits it on: one that is refused changes nothing.  Left out: names and *)
(* their unique indexes (one more way for an insert to fail), what a key   *)
(* holds (module Vault), a service's keypair and tokens (module            *)
(* ServiceAuth), and the audit row a handler ends with, which no handler   *)
(* here reads.                                                             *)
(***************************************************************************)
EXTENDS Integers, FiniteSets

CONSTANTS
  Org,      \* organizations.id; none is ever deleted
  Project,  \* projects.id; a ULID is never drawn twice
  Env,      \* environments.id, likewise
  Key,      \* keys.id
  Svc,      \* services.id
  Grant,    \* grants.id
  Role,     \* the roles of the instance
  Rights,   \* the roles sessions were admitted with, by organization
  Request,  \* slots for HTTP requests in flight
  None      \* no value

Rank == [viewer |-> 0, member |-> 1, admin |-> 2, owner |-> 3]

ASSUME ConstantsAssumption ==
  /\ Role \subseteq DOMAIN Rank
  /\ Rights \subseteq [Org -> Role \cup {None}]
  /\ None \notin Org \cup Project \cup Env \cup Key \cup Svc \cup Grant \cup Role

VARIABLES
  project,  \* table projects
  env,      \* table environments
  key,      \* table keys; val stands for the key's current value
  svc,      \* table services
  grant,    \* table grants
  req       \* local state of every request in flight

vars == <<project, env, key, svc, grant, req>>
tables == <<project, env, key, svc, grant>>

-----------------------------------------------------------------------------
(* An id that is not in its table has no columns; "gone" ids are not reused. *)

ProjectRow == [st : {"live"}, org : Org]
EnvRow     == [st : {"live"}, project : Project, protected : BOOLEAN]
KeyRow     == [st : {"live"}, env : Env, val : 0 .. 1]
SvcRow     == [st : {"live"}, env : Env]
GrantRow   == [st : {"live"}, svc : Svc, key : Key]
Absent     == [st : {"unborn", "gone"}]
Unborn     == [st |-> "unborn"]
Gone       == [st |-> "gone"]

Live(row) == row.st = "live"

(* The operations, by what the path names and what the payload holds. *)
Operation ==
  [kind : {"createProject"}, on : Org]
    \cup [kind : {"deleteProject"}, on : Project]
    \cup [kind : {"createEnvironment"}, on : Project, protected : BOOLEAN]
    \cup [kind : {"deleteEnvironment", "createKey", "createService"}, on : Env]
    \cup [kind : {"setKeyValue", "deleteKey"}, on : Key]
    \cup [kind : {"deleteService"}, on : Svc]
    \cup [kind : {"addGrants"}, on : Svc, keys : SUBSET Key]
    \cup [kind : {"deleteGrant"}, on : Grant]

(* A request that is not there has no locals.  new: the keys to be granted.  *)
Idle == [pc |-> "idle"]
RequestState ==
  {Idle}
    \cup [pc : {"write", "keys", "existing"}, op : Operation, roles : Rights]
    \cup [pc : {"insert"}, op : [kind : {"addGrants"}, on : Svc, keys : SUBSET Key],
          roles : Rights, new : SUBSET Key]

ForeignKeys ==
  /\ \A e \in Env : Live(env[e]) => Live(project[env[e].project])
  /\ \A k \in Key : Live(key[k]) => Live(env[key[k].env])
  /\ \A s \in Svc : Live(svc[s]) => Live(env[svc[s].env])
  /\ \A g \in Grant : Live(grant[g]) => Live(svc[grant[g].svc]) /\ Live(key[grant[g].key])

TypeOK ==
  /\ project \in [Project -> ProjectRow \cup Absent]
  /\ env \in [Env -> EnvRow \cup Absent]
  /\ key \in [Key -> KeyRow \cup Absent]
  /\ svc \in [Svc -> SvcRow \cup Absent]
  /\ grant \in [Grant -> GrantRow \cup Absent]
  /\ req \in [Request -> RequestState]
  /\ ForeignKeys

Init ==
  /\ project = [p \in Project |-> Unborn]
  /\ env = [e \in Env |-> Unborn]
  /\ key = [k \in Key |-> Unborn]
  /\ svc = [s \in Svc |-> Unborn]
  /\ grant = [g \in Grant |-> Unborn]
  /\ req = [r \in Request |-> Idle]

-----------------------------------------------------------------------------
(* The joins that find the environment and the organization of a row.       *)
OrgOfEnv(e) == project[env[e].project].org

Resolvable(op) ==
  CASE op.kind = "createProject" -> TRUE
    [] op.kind \in {"deleteProject", "createEnvironment"} -> Live(project[op.on])
    [] op.kind \in {"deleteEnvironment", "createKey", "createService"} -> Live(env[op.on])
    [] op.kind \in {"setKeyValue", "deleteKey"} -> Live(key[op.on])
    [] op.kind \in {"deleteService", "addGrants"} -> Live(svc[op.on])
    [] op.kind = "deleteGrant" -> Live(grant[op.on])

EnvOf(op) ==
  CASE op.kind \in {"deleteEnvironment", "createKey", "createService"} -> op.on
    [] op.kind \in {"setKeyValue", "deleteKey"} -> key[op.on].env
    [] op.kind \in {"deleteService", "addGrants"} -> svc[op.on].env
    [] op.kind = "deleteGrant" -> svc[grant[op.on].svc].env

OrgOf(op) ==
  CASE op.kind = "createProject" -> op.on
    [] op.kind \in {"deleteProject", "createEnvironment"} -> project[op.on].org
    [] OTHER -> OrgOfEnv(EnvOf(op))

(* The least role each handler asks for.  A protected environment asks for   *)
(* more where the handler calls authorizeWrite.                             *)
MinRoleUnprotected(op) ==   \* mutant: addGrants asks for a member, whatever the environment
  CASE op.kind = "deleteProject" -> "owner"
    [] op.kind \in {"deleteEnvironment", "deleteService"} -> "admin"
    [] op.kind \in {"createKey", "setKeyValue", "deleteKey"} ->
         IF env[EnvOf(op)].protected THEN "admin" ELSE "member"
    [] OTHER -> "member"

MinRole(op) ==
  CASE op.kind = "deleteProject" -> "owner"
    [] op.kind \in {"deleteEnvironment", "deleteService"} -> "admin"
    [] op.kind \in {"createKey", "setKeyValue", "deleteKey", "addGrants"} ->
         IF env[EnvOf(op)].protected THEN "admin" ELSE "member"
    [] OTHER -> "member"

AtLeast(role, min) == role # None /\ Rank[role] >= Rank[min]

AuthorizeAnywhere(roles, o, min) == \E other \in Org : AtLeast(roles[other], min)   \* mutant

Authorize(roles, o, min) == AtLeast(roles[o], min)

-----------------------------------------------------------------------------
Reply(r) == req' = [req EXCEPT ![r] = Idle]
Goto(r, pc) == req' = [req EXCEPT ![r].pc = pc]

(* The request's first statements: the row's organization, whether its      *)
(* environment is protected, and the role the user has there.               *)
Resolve(r, op, roles) ==
  /\ req[r] = Idle
  /\ Resolvable(op) /\ Authorize(roles, OrgOf(op), MinRole(op))
  /\ req' = [req EXCEPT ![r] = [pc |-> IF op.kind = "addGrants" THEN "keys" ELSE "write",
                                op |-> op, roles |-> roles]]
  /\ UNCHANGED tables

-----------------------------------------------------------------------------
(* Inserts: the foreign key refuses a row whose parent is gone.             *)
CreateProject(r, p) ==
  /\ req[r].pc = "write" /\ req[r].op.kind = "createProject" /\ project[p] = Unborn
  /\ project' = [project EXCEPT ![p] = [st |-> "live", org |-> req[r].op.on]]
  /\ Reply(r)
  /\ UNCHANGED <<env, key, svc, grant>>

CreateEnvironment(r, e) ==
  LET op == req[r].op IN
  /\ req[r].pc = "write" /\ op.kind = "createEnvironment"
  /\ env[e] = Unborn /\ Live(project[op.on])
  /\ env' = [env EXCEPT ![e] = [st |-> "live", project |-> op.on, protected |-> op.protected]]
  /\ Reply(r)
  /\ UNCHANGED <<project, key, svc, grant>>

CreateKey(r, k) ==
  LET op == req[r].op IN
  /\ req[r].pc = "write" /\ op.kind = "createKey" /\ key[k] = Unborn /\ Live(env[op.on])
  /\ key' = [key EXCEPT ![k] = [st |-> "live", env |-> op.on, val |-> 0]]
  /\ Reply(r)
  /\ UNCHANGED <<project, env, svc, grant>>

CreateService(r, s) ==
  LET op == req[r].op IN
  /\ req[r].pc = "write" /\ op.kind = "createService" /\ svc[s] = Unborn /\ Live(env[op.on])
  /\ svc' = [svc EXCEPT ![s] = [st |-> "live", env |-> op.on]]
  /\ Reply(r)
  /\ UNCHANGED <<project, env, key, grant>>

(* PUT /v1/keys/:id and rollback. *)
SetKeyValue(r) ==
  LET op == req[r].op IN
  /\ req[r].pc = "write" /\ op.kind = "setKeyValue" /\ Live(key[op.on])
  /\ key' = [key EXCEPT ![op.on].val = 1 - @]
  /\ Reply(r)
  /\ UNCHANGED <<project, env, svc, grant>>

-----------------------------------------------------------------------------
(* Deletes: the row and, by the foreign keys' cascade, all that is below it. *)
EnvsUnder(op) ==
  {e \in Env : /\ Live(env[e])
               /\ \/ op.kind = "deleteEnvironment" /\ e = op.on
                  \/ op.kind = "deleteProject" /\ env[e].project = op.on}
KeysUnder(op) ==
  {k \in Key : Live(key[k]) /\ (key[k].env \in EnvsUnder(op)
                                  \/ (op.kind = "deleteKey" /\ k = op.on))}
SvcsUnder(op) ==
  {s \in Svc : Live(svc[s]) /\ (svc[s].env \in EnvsUnder(op)
                                  \/ (op.kind = "deleteService" /\ s = op.on))}
GrantsUnderServices(op) ==   \* mutant: grants.key_id does not cascade
  {g \in Grant : /\ Live(grant[g])
                 /\ grant[g].svc \in SvcsUnder(op) \/ (op.kind = "deleteGrant" /\ g = op.on)}

GrantsUnder(op) ==
  {g \in Grant : /\ Live(grant[g])
                 /\ \/ grant[g].key \in KeysUnder(op)
                    \/ grant[g].svc \in SvcsUnder(op)
                    \/ op.kind = "deleteGrant" /\ g = op.on}

Cascade(table, ids) == [x \in DOMAIN table |-> IF x \in ids THEN Gone ELSE table[x]]

Deletes == {"deleteProject", "deleteEnvironment", "deleteKey", "deleteService", "deleteGrant"}

Delete(r) ==
  LET op == req[r].op IN
  /\ req[r].pc = "write" /\ op.kind \in Deletes
  /\ project' = Cascade(project, IF op.kind = "deleteProject" THEN {op.on} ELSE {})
  /\ env' = Cascade(env, EnvsUnder(op))
  /\ key' = Cascade(key, KeysUnder(op))
  /\ svc' = Cascade(svc, SvcsUnder(op))
  /\ grant' = Cascade(grant, GrantsUnder(op))
  /\ Reply(r)

-----------------------------------------------------------------------------
(* addGrants: which of the keys are in the service's environment (all must  *)
(* be), which are granted already, and one insert for the rest.             *)
InEnvironmentAnyway(s, ks) == \A k \in ks : Live(key[k])   \* mutant: any environment

InEnvironment(s, ks) == \A k \in ks : Live(key[k]) /\ key[k].env = svc[s].env

CheckKeys(r) ==
  LET op == req[r].op IN
  /\ req[r].pc = "keys"
  /\ IF Live(svc[op.on]) /\ InEnvironment(op.on, op.keys) THEN Goto(r, "existing") ELSE Reply(r)
  /\ UNCHANGED tables

GrantedTo(s) == {grant[g].key : g \in {h \in Grant : Live(grant[h]) /\ grant[h].svc = s}}

ReadExisting(r) ==
  LET op == req[r].op IN
  /\ req[r].pc = "existing"
  /\ req' = [req EXCEPT ![r] = [pc |-> "insert", op |-> op, roles |-> req[r].roles,
                                new |-> op.keys \ GrantedTo(op.on)]]
  /\ UNCHANGED tables

(* All rows or none: the foreign keys and the unique index on (service_id,  *)
(* key_id) refuse the statement as a whole.  at: the id of each new row.    *)
InsertGrants(r, at) ==
  LET op == req[r].op
      new == req[r].new
  IN
  /\ req[r].pc = "insert" /\ DOMAIN at = new
  /\ new # {} => Live(svc[op.on])
  /\ \A k \in new : Live(key[k]) /\ k \notin GrantedTo(op.on) /\ grant[at[k]] = Unborn
  /\ \A j, k \in new : at[j] = at[k] => j = k
  /\ grant' = [g \in Grant |->
                 IF \E k \in new : at[k] = g
                   THEN [st |-> "live", svc |-> op.on, key |-> CHOOSE k \in new : at[k] = g]
                   ELSE grant[g]]
  /\ Reply(r)
  /\ UNCHANGED <<project, env, key, svc>>

(* A statement fails or is refused, or the instance stops. *)
Fail(r) ==
  /\ req[r] # Idle
  /\ Reply(r)
  /\ UNCHANGED tables

-----------------------------------------------------------------------------
Next == \E r \in Request :
  \/ \E op \in Operation, roles \in Rights : Resolve(r, op, roles)
  \/ \E p \in Project : CreateProject(r, p)
  \/ \E e \in Env : CreateEnvironment(r, e)
  \/ \E k \in Key : CreateKey(r, k)
  \/ \E s \in Svc : CreateService(r, s)
  \/ SetKeyValue(r) \/ Delete(r) \/ CheckKeys(r) \/ ReadExisting(r)
  \/ \E ks \in SUBSET Key : \E at \in [ks -> Grant] : InsertGrants(r, at)
  \/ Fail(r)

Spec == Init /\ [][Next]_vars

-----------------------------------------------------------------------------
(* The env-match invariant (service-registry.ts:15, "a service can only be  *)
(* granted keys in its own environment"), though keys, services and whole   *)
(* environments go between addGrants' check and its insert.                 *)
GrantsWithinEnvironment ==
  \A g \in Grant : Live(grant[g]) => key[grant[g].key].env = svc[grant[g].svc].env

(* The request that takes a step. *)
By(r) == req'[r] # req[r]

(* What an environment holds. *)
KeysOf(e) == {<<k, key[k]>> : k \in {j \in Key : Live(key[j]) /\ key[j].env = e}}
SvcsOf(e) == {s \in Svc : Live(svc[s]) /\ svc[s].env = e}
GrantsOf(e) == {g \in Grant : Live(grant[g]) /\ grant[g].svc \in SvcsOf(e)}
Contents(e) == <<env[e], KeysOf(e), SvcsOf(e), GrantsOf(e)>>

(* Tenants are apart: nothing in an environment changes but by a request of *)
(* a member of the organization that owns it at that moment, whatever ids   *)
(* the request names and whatever was deleted since they were resolved      *)
(* (04-auth.md:45: every access resolves the owning org and checks there).  *)
TenantsApart ==
  [][\A e \in Env : Live(env[e]) /\ Contents(e)' # Contents(e) =>
       \E r \in Request : By(r) /\ AtLeast(req[r].roles[OrgOfEnv(e)], "member")]_vars

(* In a protected environment, keys change and grants appear only at the    *)
(* word of an admin (management.ts:52, authorizeWrite).                     *)
ProtectedKeysGuarded ==
  [][\A e \in Env :
       /\ Live(env[e]) /\ env[e].protected
       /\ KeysOf(e)' # KeysOf(e) \/ ~(GrantsOf(e)' \subseteq GrantsOf(e))
       => \E r \in Request : By(r) /\ AtLeast(req[r].roles[OrgOfEnv(e)], "admin")]_vars

(* Every write in a protected environment is an admin's (04-auth.md:47).    *)
(* False: members create services there and take grants away.               *)
ProtectedWritesByAdmins ==
  [][\A e \in Env : Live(env[e]) /\ env[e].protected /\ Contents(e)' # Contents(e) =>
       \E r \in Request : By(r) /\ AtLeast(req[r].roles[OrgOfEnv(e)], "admin")]_vars
============================================================================

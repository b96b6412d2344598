-------------------------- MODULE Hierarchy_proofs --------------------------
(***************************************************************************)
(* Theorems about the hierarchy of projects, environments, keys, services  *)
(* and grants, for any number of rows, members and requests.               *)
(***************************************************************************)
EXTENDS Hierarchy, TLAPS

-----------------------------------------------------------------------------
(* Has the row that an operation names been in its table?                   *)
Born(op) ==
  CASE op.kind = "createProject" -> TRUE
    [] op.kind \in {"deleteProject", "createEnvironment"} -> project[op.on] # Unborn
    [] op.kind \in {"deleteEnvironment", "createKey", "createService"} -> env[op.on] # Unborn
    [] op.kind \in {"setKeyValue", "deleteKey"} -> key[op.on] # Unborn
    [] op.kind \in {"deleteService", "addGrants"} -> svc[op.on] # Unborn
    [] op.kind = "deleteGrant" -> grant[op.on] # Unborn

(* What authorization is good for: as long as the row is there, its         *)
(* organization is the one in which the user was found to have the role.    *)
Entitled(q) ==
  /\ Born(q.op)
  /\ Resolvable(q.op) => Authorize(q.roles, OrgOf(q.op), MinRole(q.op))

(* What the check of the keys is good for: as long as key and service are   *)
(* there, they are of one environment.                                      *)
Matching(s, ks) ==
  \A k \in ks : key[k] # Unborn /\ (Live(key[k]) /\ Live(svc[s]) => key[k].env = svc[s].env)

Placed(q) ==
  /\ q.pc = "idle" => q = Idle
  /\ q.pc = "write" => q.op.kind # "addGrants" /\ Entitled(q)
  /\ q.pc \in {"keys", "existing", "insert"} => q.op.kind = "addGrants" /\ Entitled(q)
  /\ q.pc \in {"existing", "insert"} => svc[q.op.on] # Unborn /\ Matching(q.op.on, q.op.keys)
  /\ q.pc = "insert" => q.new \subseteq q.op.keys

Inv ==
  /\ TypeOK
  /\ GrantsWithinEnvironment
  /\ \A r \in Request : Placed(req[r])

-----------------------------------------------------------------------------
(* Rows come, keep their parents while they are there, and go for good.     *)
RowsKept ==
  /\ \A p \in Project : project[p] # Unborn => project'[p] \in {project[p], Gone}
  /\ \A e \in Env : env[e] # Unborn => env'[e] \in {env[e], Gone}
  /\ \A k \in Key : key[k] # Unborn =>
       key'[k] = Gone \/ (Live(key[k]) /\ Live(key'[k]) /\ key'[k].env = key[k].env)
  /\ \A s \in Svc : svc[s] # Unborn => svc'[s] \in {svc[s], Gone}
  /\ \A g \in Grant : grant[g] # Unborn => grant'[g] \in {grant[g], Gone}

TablesTyped ==
  /\ project \in [Project -> ProjectRow \cup Absent]
  /\ env \in [Env -> EnvRow \cup Absent]
  /\ key \in [Key -> KeyRow \cup Absent]
  /\ svc \in [Svc -> SvcRow \cup Absent]
  /\ grant \in [Grant -> GrantRow \cup Absent]
  /\ ForeignKeys

(* What a state says of its rows. *)
LEMMA Rows ==
  TypeOK =>
    /\ TablesTyped
    /\ \A p \in Project : Live(project[p]) => project[p] \in ProjectRow
    /\ \A e \in Env : Live(env[e]) => env[e] \in EnvRow /\ Live(project[env[e].project])
    /\ \A k \in Key : Live(key[k]) => key[k] \in KeyRow /\ Live(env[key[k].env])
    /\ \A s \in Svc : Live(svc[s]) => svc[s] \in SvcRow /\ Live(env[svc[s].env])
    /\ \A g \in Grant : Live(grant[g]) =>
         grant[g] \in GrantRow /\ Live(svc[grant[g].svc]) /\ Live(key[grant[g].key])
BY DEF TypeOK, TablesTyped, ForeignKeys, Absent, Live

(* A row that is gone, or never was, is not there. *)
LEMMA NotThere == ~Live(Gone) /\ ~Live(Unborn) /\ Gone \in Absent /\ Unborn \in Absent
BY DEF Live, Gone, Unborn, Absent

(* Rows that are kept are there afterwards only if they were before, with   *)
(* the same columns.                                                        *)
LEMMA KeptRows ==
  TypeOK /\ RowsKept =>
    /\ \A p \in Project : project[p] # Unborn /\ Live(project'[p]) =>
         Live(project[p]) /\ project'[p] = project[p]
    /\ \A e \in Env : env[e] # Unborn /\ Live(env'[e]) => Live(env[e]) /\ env'[e] = env[e]
    /\ \A k \in Key : key[k] # Unborn /\ Live(key'[k]) =>
         Live(key[k]) /\ key'[k].env = key[k].env
    /\ \A s \in Svc : svc[s] # Unborn /\ Live(svc'[s]) => Live(svc[s]) /\ svc'[s] = svc[s]
    /\ \A g \in Grant : grant[g] # Unborn /\ Live(grant'[g]) =>
         Live(grant[g]) /\ grant'[g] = grant[g]
BY NotThere DEF RowsKept

(* What the kind of an operation says of the row it names. *)
LEMMA OperationFields ==
  \A op \in Operation :
    /\ op.kind \in {"createProject", "deleteProject", "createEnvironment", "deleteEnvironment",
                    "createKey", "createService", "setKeyValue", "deleteKey", "deleteService",
                    "addGrants", "deleteGrant"}
    /\ op.kind = "createProject" => op.on \in Org
    /\ op.kind \in {"deleteProject", "createEnvironment"} => op.on \in Project
    /\ op.kind = "createEnvironment" => op.protected \in BOOLEAN
    /\ op.kind \in {"deleteEnvironment", "createKey", "createService"} => op.on \in Env
    /\ op.kind \in {"setKeyValue", "deleteKey"} => op.on \in Key
    /\ op.kind \in {"deleteService", "addGrants"} => op.on \in Svc
    /\ op.kind = "addGrants" => op \in [kind : {"addGrants"}, on : Svc, keys : SUBSET Key]
    /\ op.kind = "deleteGrant" => op.on \in Grant
<1>. SUFFICES ASSUME NEW op \in Operation
              PROVE  /\ op.kind \in {"createProject", "deleteProject", "createEnvironment",
                                     "deleteEnvironment", "createKey", "createService",
                                     "setKeyValue", "deleteKey", "deleteService", "addGrants",
                                     "deleteGrant"}
                     /\ op.kind = "createProject" => op.on \in Org
                     /\ op.kind \in {"deleteProject", "createEnvironment"} => op.on \in Project
                     /\ op.kind = "createEnvironment" => op.protected \in BOOLEAN
                     /\ op.kind \in {"deleteEnvironment", "createKey", "createService"} =>
                          op.on \in Env
                     /\ op.kind \in {"setKeyValue", "deleteKey"} => op.on \in Key
                     /\ op.kind \in {"deleteService", "addGrants"} => op.on \in Svc
                     /\ op.kind = "addGrants" =>
                          op \in [kind : {"addGrants"}, on : Svc, keys : SUBSET Key]
                     /\ op.kind = "deleteGrant" => op.on \in Grant
  OBVIOUS
<1>1. \/ op \in [kind : {"createProject"}, on : Org]
      \/ op \in [kind : {"deleteProject"}, on : Project]
      \/ op \in [kind : {"createEnvironment"}, on : Project, protected : BOOLEAN]
      \/ op \in [kind : {"deleteEnvironment", "createKey", "createService"}, on : Env]
      \/ op \in [kind : {"setKeyValue", "deleteKey"}, on : Key]
      \/ op \in [kind : {"deleteService"}, on : Svc]
      \/ op \in [kind : {"addGrants"}, on : Svc, keys : SUBSET Key]
      \/ op \in [kind : {"deleteGrant"}, on : Grant]
  BY DEF Operation
<1>. QED
  BY <1>1

(* The fields of a request in flight. *)
LEMMA RequestFields ==
  \A q \in RequestState :
    /\ q.pc \in {"idle", "write", "keys", "existing", "insert"}
    /\ q.pc # "idle" => q.op \in Operation /\ q.roles \in Rights
    /\ q.pc \in {"write", "keys", "existing"} =>
         q \in [pc : {"write", "keys", "existing"}, op : Operation, roles : Rights]
    /\ q.pc = "insert" => q.op.kind = "addGrants" /\ q.new \in SUBSET Key
<1>. SUFFICES ASSUME NEW q \in RequestState
              PROVE  /\ q.pc \in {"idle", "write", "keys", "existing", "insert"}
                     /\ q.pc # "idle" => q.op \in Operation /\ q.roles \in Rights
                     /\ q.pc \in {"write", "keys", "existing"} =>
                          q \in [pc : {"write", "keys", "existing"},
                                 op : Operation, roles : Rights]
                     /\ q.pc = "insert" => q.op.kind = "addGrants" /\ q.new \in SUBSET Key
  OBVIOUS
<1>1. CASE q = Idle
  BY <1>1 DEF Idle
<1>2. CASE q \in [pc : {"write", "keys", "existing"}, op : Operation, roles : Rights]
  BY <1>2
<1>3. CASE q \in [pc : {"insert"}, op : [kind : {"addGrants"}, on : Svc, keys : SUBSET Key],
                  roles : Rights, new : SUBSET Key]
  <2>1. q.op \in Operation
    BY <1>3 DEF Operation
  <2>. QED
    BY <1>3, <2>1
<1>. QED
  BY <1>1, <1>2, <1>3 DEF RequestState

-----------------------------------------------------------------------------
(* While the row it names is there, an operation keeps its environment,     *)
(* its organization and the role it takes.                                  *)
LEMMA Resolved ==
  \A op \in Operation :
    TypeOK /\ TablesTyped' /\ RowsKept /\ Born(op) =>
      /\ Born(op)'
      /\ Resolvable(op)' =>
           /\ Resolvable(op)
           /\ OrgOf(op)' = OrgOf(op)
           /\ MinRole(op)' = MinRole(op)
<1>. SUFFICES ASSUME NEW op \in Operation, TypeOK, TablesTyped', RowsKept, Born(op)
              PROVE  /\ Born(op)'
                     /\ Resolvable(op)' =>
                          /\ Resolvable(op)
                          /\ OrgOf(op)' = OrgOf(op)
                          /\ MinRole(op)' = MinRole(op)
  OBVIOUS
<1>1. Gone # Unborn
  BY DEF Gone, Unborn
<1>2. ASSUME NEW e \in Env, Live(env[e]), Live(env'[e])
      PROVE  /\ env'[e] = env[e] /\ OrgOfEnv(e)' = OrgOfEnv(e)
             /\ project'[env'[e].project].org = project[env[e].project].org
  <2>1. env'[e] = env[e]
    BY <1>2, NotThere, KeptRows
  <2>2. env[e].project \in Project /\ Live(project[env[e].project])
    BY <1>2, Rows DEF EnvRow
  <2>3. Live(project'[env[e].project])
    BY <1>2, <2>1 DEF TablesTyped, ForeignKeys
  <2>4. project'[env[e].project] = project[env[e].project]
    BY <2>2, <2>3, NotThere, KeptRows
  <2>. QED
    BY <2>1, <2>4 DEF OrgOfEnv
<1>3. ASSUME NEW k \in Key, key[k] # Unborn, Live(key'[k])
      PROVE  /\ Live(key[k]) /\ key'[k].env = key[k].env /\ key[k].env \in Env
             /\ Live(env[key[k].env]) /\ Live(env'[key[k].env])
  BY <1>3, KeptRows, Rows DEF KeyRow, TablesTyped, ForeignKeys
<1>4. ASSUME NEW s \in Svc, svc[s] # Unborn, Live(svc'[s])
      PROVE  /\ Live(svc[s]) /\ svc'[s].env = svc[s].env /\ svc[s].env \in Env
             /\ Live(env[svc[s].env]) /\ Live(env'[svc[s].env])
  BY <1>4, KeptRows, Rows DEF SvcRow, TablesTyped, ForeignKeys
<1>5. CASE op.kind = "createProject"
  BY <1>5 DEF Born, Resolvable, OrgOf, MinRole
<1>6. CASE op.kind \in {"deleteProject", "createEnvironment"}
  <2>1. op.on \in Project /\ project[op.on] # Unborn
    BY <1>6, OperationFields DEF Born
  <2>2. project'[op.on] # Unborn
    BY <1>1, <2>1 DEF RowsKept
  <2>3. Live(project'[op.on]) => Live(project[op.on]) /\ project'[op.on] = project[op.on]
    BY <2>1, KeptRows
  <2>. QED
    BY <1>6, <2>2, <2>3 DEF Born, Resolvable, OrgOf, MinRole
<1>7. CASE op.kind \in {"deleteEnvironment", "createKey", "createService"}
  <2>1. op.on \in Env /\ env[op.on] # Unborn
    BY <1>7, OperationFields DEF Born
  <2>2. env'[op.on] # Unborn
    BY <1>1, <2>1 DEF RowsKept
  <2>3. Live(env'[op.on]) =>
          Live(env[op.on]) /\ env'[op.on] = env[op.on] /\ OrgOfEnv(op.on)' = OrgOfEnv(op.on)
    BY <1>2, <2>1, KeptRows
  <2>4. Born(op)' /\ (Resolvable(op)' <=> Live(env'[op.on])) /\ (Resolvable(op) <=> Live(env[op.on]))
    BY <1>7, <2>2 DEF Born, Resolvable
  <2>5. OrgOf(op) = OrgOfEnv(op.on) /\ OrgOf(op)' = OrgOfEnv(op.on)'
    BY <1>7 DEF OrgOf, EnvOf
  <2>6. env'[op.on] = env[op.on] => MinRole(op)' = MinRole(op)
    BY <1>7 DEF MinRole, EnvOf
  <2>. QED
    BY <2>3, <2>4, <2>5, <2>6
<1>8. CASE op.kind \in {"setKeyValue", "deleteKey"}
  <2>1. op.on \in Key /\ key[op.on] # Unborn
    BY <1>8, OperationFields DEF Born
  <2>2. key'[op.on] # Unborn
    BY <1>1, <2>1, NotThere DEF RowsKept
  <2>3. Born(op)' /\ (Resolvable(op)' <=> Live(key'[op.on])) /\ (Resolvable(op) <=> Live(key[op.on]))
    BY <1>8, <2>2 DEF Born, Resolvable
  <2>4. /\ OrgOf(op) = project[env[key[op.on].env].project].org
        /\ OrgOf(op)' = project'[env'[key'[op.on].env].project].org
    BY <1>8 DEF OrgOf, EnvOf, OrgOfEnv
  <2>5. key'[op.on].env = key[op.on].env /\ env'[key[op.on].env] = env[key[op.on].env] =>
          MinRole(op)' = MinRole(op)
    BY <1>8 DEF MinRole, EnvOf
  <2>. QED
    BY <1>2, <1>3, <2>1, <2>3, <2>4, <2>5
<1>9. CASE op.kind \in {"deleteService", "addGrants"}
  <2>1. op.on \in Svc /\ svc[op.on] # Unborn
    BY <1>9, OperationFields DEF Born
  <2>2. svc'[op.on] # Unborn
    BY <1>1, <2>1 DEF RowsKept
  <2>3. Born(op)' /\ (Resolvable(op)' <=> Live(svc'[op.on])) /\ (Resolvable(op) <=> Live(svc[op.on]))
    BY <1>9, <2>2 DEF Born, Resolvable
  <2>4. /\ OrgOf(op) = project[env[svc[op.on].env].project].org
        /\ OrgOf(op)' = project'[env'[svc'[op.on].env].project].org
    BY <1>9 DEF OrgOf, EnvOf, OrgOfEnv
  <2>5. svc'[op.on].env = svc[op.on].env /\ env'[svc[op.on].env] = env[svc[op.on].env] =>
          MinRole(op)' = MinRole(op)
    BY <1>9 DEF MinRole, EnvOf
  <2>. QED
    BY <1>2, <1>4, <2>1, <2>3, <2>4, <2>5
<1>10. CASE op.kind = "deleteGrant"
  <2>1. op.on \in Grant /\ grant[op.on] # Unborn
    BY <1>10, OperationFields DEF Born
  <2>2. grant'[op.on] # Unborn
    BY <1>1, <2>1 DEF RowsKept
  <2>3. /\ Born(op)' /\ (Resolvable(op)' <=> Live(grant'[op.on]))
        /\ Resolvable(op) <=> Live(grant[op.on])
    BY <1>10, <2>2 DEF Born, Resolvable
  <2>4. OrgOf(op) = project[env[svc[grant[op.on].svc].env].project].org
    BY <1>10 DEF OrgOf, EnvOf, OrgOfEnv
  <2>5. OrgOf(op)' = project'[env'[svc'[grant'[op.on].svc].env].project].org
    BY <1>10 DEF OrgOf, EnvOf, OrgOfEnv
  <2>6. MinRole(op)' = MinRole(op)
    BY <1>10 DEF MinRole
  <2>7. ASSUME Live(grant'[op.on])
        PROVE  Live(grant[op.on]) /\ OrgOf(op)' = OrgOf(op)
    <3>1. Live(grant[op.on]) /\ grant'[op.on] = grant[op.on]
      BY <2>1, <2>7, KeptRows
    <3>2. PICK s \in Svc : s = grant[op.on].svc /\ s = grant'[op.on].svc /\ Live(svc[s])
      BY <2>1, <3>1, Rows DEF GrantRow
    <3>3. Live(svc'[s])
      BY <2>1, <2>7, <3>1, <3>2 DEF TablesTyped, ForeignKeys
    <3>4. svc[s] # Unborn
      BY <3>2, NotThere
    <3>5. PICK e \in Env : /\ e = svc[s].env /\ e = svc'[s].env
                           /\ Live(env[e]) /\ Live(env'[e])
      BY <1>4, <3>3, <3>4
    <3>6. project'[env'[e].project].org = project[env[e].project].org
      BY <1>2, <3>5
    <3>. QED
      BY <2>4, <2>5, <3>1, <3>2, <3>5, <3>6
  <2>. QED
    BY <2>3, <2>6, <2>7
<1>. QED
  BY <1>5, <1>6, <1>7, <1>8, <1>9, <1>10, OperationFields

(* What a request may rely on, it may rely on after any step. *)
LEMMA PlacedKept ==
  \A q \in RequestState : TypeOK /\ TablesTyped' /\ RowsKept /\ Placed(q) => Placed(q)'
<1>. SUFFICES ASSUME NEW q \in RequestState, TypeOK, TablesTyped', RowsKept, Placed(q)
              PROVE  Placed(q)'
  OBVIOUS
<1>1. q.pc \in {"write", "keys", "existing", "insert"} => Entitled(q) /\ q.op \in Operation
  BY RequestFields DEF Placed
<1>2. q.pc \in {"write", "keys", "existing", "insert"} => Entitled(q)'
  BY <1>1, Resolved DEF Entitled, Authorize, AtLeast
<1>3. ASSUME q.pc \in {"existing", "insert"}
      PROVE  (svc[q.op.on] # Unborn /\ Matching(q.op.on, q.op.keys))'
  <2>1. /\ q.op.on \in Svc /\ svc[q.op.on] # Unborn /\ q.op.keys \subseteq Key
        /\ Matching(q.op.on, q.op.keys)
    BY <1>1, <1>3, OperationFields DEF Placed
  <2>2. Gone # Unborn
    BY DEF Gone, Unborn
  <2>3. svc'[q.op.on] # Unborn
    BY <2>1, <2>2 DEF RowsKept
  <2>4. ASSUME NEW k \in q.op.keys
        PROVE  key'[k] # Unborn /\ (Live(key'[k]) /\ Live(svc'[q.op.on]) => key'[k].env = svc'[q.op.on].env)
    <3>1. k \in Key /\ key[k] # Unborn
      BY <2>1 DEF Matching
    <3>2. key'[k] # Unborn
      BY <2>2, <3>1, NotThere DEF RowsKept
    <3>. QED
      BY <2>1, <3>1, <3>2, KeptRows DEF Matching
  <2>. QED
    BY <2>3, <2>4 DEF Matching
<1>. QED
  BY <1>2, <1>3 DEF Placed

(* A step that keeps the rows, and leaves its request well placed, keeps    *)
(* the invariant, if the grants are still within their environments.        *)
LEMMA StepsKeep ==
  \A r \in Request : \A q \in RequestState :
    /\ Inv /\ RowsKept /\ TablesTyped' /\ GrantsWithinEnvironment'
    /\ req' = [req EXCEPT ![r] = q] /\ Placed(q)'
    => Inv'
<1>. SUFFICES ASSUME NEW r \in Request, NEW q \in RequestState, Inv, RowsKept, TablesTyped',
                     GrantsWithinEnvironment', req' = [req EXCEPT ![r] = q], Placed(q)'
              PROVE  Inv'
  OBVIOUS
<1>1. /\ TypeOK /\ req' \in [Request -> RequestState]
      /\ req'[r] = q /\ \A o \in Request : o # r => req'[o] = req[o]
  BY DEF Inv, TypeOK
<1>2. TypeOK'
  BY <1>1 DEF TypeOK, TablesTyped
<1>3. ASSUME NEW o \in Request
      PROVE  Placed(req[o])'
  <2>1. CASE o = r
    BY <1>1, <2>1 DEF Placed, Entitled, Matching, Authorize, AtLeast
  <2>2. CASE o # r
    <3>1. PICK p \in RequestState : p = req[o] /\ Placed(p)
      BY DEF Inv, TypeOK
    <3>2. Placed(p)'
      BY <1>1, <3>1, PlacedKept
    <3>. QED
      BY <1>1, <2>2, <3>1, <3>2 DEF Placed, Entitled, Matching, Authorize, AtLeast
  <2>. QED
    BY <2>1, <2>2
<1>. QED
  BY <1>2, <1>3 DEF Inv

(* A step that changes no table keeps the rows. *)
LEMMA NothingChanges ==
  Inv /\ UNCHANGED tables => RowsKept /\ TablesTyped' /\ GrantsWithinEnvironment'
<1>. SUFFICES ASSUME Inv, UNCHANGED tables
              PROVE  RowsKept /\ TablesTyped' /\ GrantsWithinEnvironment'
  OBVIOUS
<1>1. project' = project /\ env' = env /\ key' = key /\ svc' = svc /\ grant' = grant
  BY DEF tables
<1>2. \A k \in Key : key[k] = Unborn \/ key[k] = Gone \/ Live(key[k])
  BY DEF Inv, TypeOK, KeyRow, Absent, Unborn, Gone, Live
<1>. QED
  BY <1>1, <1>2 DEF Inv, TypeOK, TablesTyped, ForeignKeys, RowsKept, GrantsWithinEnvironment

(* A request that ends. *)
LEMMA IdlePlaced == Idle \in RequestState /\ Placed(Idle) /\ Placed(Idle)'
BY DEF Idle, RequestState, Placed
-----------------------------------------------------------------------------
(* Requests that come, are refused, fail, or only read.                     *)
LEMMA ReadSteps ==
  \A r \in Request :
    Inv /\ (\/ \E op \in Operation, roles \in Rights : Resolve(r, op, roles)
            \/ CheckKeys(r) \/ ReadExisting(r) \/ Fail(r))
      => Inv'
<1>. SUFFICES ASSUME NEW r \in Request, Inv,
                     \/ \E op \in Operation, roles \in Rights : Resolve(r, op, roles)
                     \/ CheckKeys(r) \/ ReadExisting(r) \/ Fail(r)
              PROVE  Inv'
  OBVIOUS
<1>1. UNCHANGED tables
  BY DEF Resolve, CheckKeys, ReadExisting, Fail
<1>2. RowsKept /\ TablesTyped' /\ GrantsWithinEnvironment'
  BY <1>1, NothingChanges
<1>3. TypeOK /\ req[r] \in RequestState /\ Placed(req[r]) /\ req \in [Request -> RequestState]
  BY DEF Inv, TypeOK
<1>4. ASSUME NEW q \in RequestState, Placed(q), req' = [req EXCEPT ![r] = q]
      PROVE  Inv'
  BY <1>2, <1>3, <1>4, PlacedKept, StepsKeep
<1>5. CASE Reply(r)
  BY <1>4, <1>5, IdlePlaced DEF Reply
<1>6. ASSUME NEW op \in Operation, NEW roles \in Rights, Resolve(r, op, roles)
      PROVE  Inv'
  <2>1. PICK q : q = [pc |-> IF op.kind = "addGrants" THEN "keys" ELSE "write",
                      op |-> op, roles |-> roles]
    OBVIOUS
  <2>2. q \in RequestState
    BY <2>1 DEF RequestState
  <2>3. Resolvable(op) /\ Authorize(roles, OrgOf(op), MinRole(op))
    BY <1>6 DEF Resolve
  <2>4. Born(op)
    BY <2>3, NotThere, OperationFields DEF Born, Resolvable
  <2>5. Placed(q)
    BY <2>1, <2>3, <2>4 DEF Entitled, Placed
  <2>. QED
    BY <1>4, <1>6, <2>1, <2>2, <2>5 DEF Resolve
<1>7. ASSUME req[r].pc = "keys", Goto(r, "existing")
      PROVE  \E q \in RequestState :
               /\ q.pc = "existing" /\ q.op = req[r].op /\ q.roles = req[r].roles
               /\ req' = [req EXCEPT ![r] = q]
  <2>1. PICK q : q = [req[r] EXCEPT !.pc = "existing"]
    OBVIOUS
  <2>2. req[r] \in [pc : {"write", "keys", "existing"}, op : Operation, roles : Rights]
    BY <1>3, <1>7, RequestFields
  <2>3. /\ q \in [pc : {"write", "keys", "existing"}, op : Operation, roles : Rights]
        /\ q.pc = "existing" /\ q.op = req[r].op /\ q.roles = req[r].roles
    BY <2>1, <2>2
  <2>4. req' = [req EXCEPT ![r] = q]
    BY <1>3, <1>7, <2>1 DEF Goto
  <2>. QED
    BY <2>3, <2>4 DEF RequestState
<1>9. CASE CheckKeys(r) /\ ~Reply(r)
  <2>1. /\ Live(svc[req[r].op.on]) /\ InEnvironment(req[r].op.on, req[r].op.keys)
        /\ Goto(r, "existing") /\ req[r].pc = "keys"
    BY <1>9 DEF CheckKeys
  <2>2. PICK q \in RequestState :
               /\ q.pc = "existing" /\ q.op = req[r].op /\ q.roles = req[r].roles
               /\ req' = [req EXCEPT ![r] = q]
    BY <1>7, <2>1
  <2>3. svc[q.op.on] # Unborn /\ Matching(q.op.on, q.op.keys)
    BY <2>1, <2>2, NotThere DEF InEnvironment, Matching
  <2>4. q.op.kind = "addGrants" /\ Entitled(q)
    BY <1>3, <2>1, <2>2 DEF Placed, Entitled
  <2>5. Placed(q)
    BY <2>2, <2>3, <2>4 DEF Placed
  <2>. QED
    BY <1>4, <2>2, <2>5
<1>10. CASE ReadExisting(r)
  <2>1. PICK q : q = [pc |-> "insert", op |-> req[r].op, roles |-> req[r].roles,
                      new |-> req[r].op.keys \ GrantedTo(req[r].op.on)]
    OBVIOUS
  <2>2. /\ req[r].pc = "existing" /\ req[r].op.kind = "addGrants" /\ Entitled(req[r])
        /\ svc[req[r].op.on] # Unborn /\ Matching(req[r].op.on, req[r].op.keys)
        /\ req[r].roles \in Rights
        /\ req[r].op \in [kind : {"addGrants"}, on : Svc, keys : SUBSET Key]
    BY <1>3, <1>10, RequestFields, OperationFields DEF ReadExisting, Placed
  <2>3. q \in RequestState
    BY <2>1, <2>2 DEF RequestState
  <2>4. Placed(q)
    BY <2>1, <2>2 DEF Placed, Entitled
  <2>. QED
    BY <1>4, <1>10, <2>1, <2>3, <2>4 DEF ReadExisting
<1>. QED
  BY <1>5, <1>6, <1>9, <1>10 DEF Fail
-----------------------------------------------------------------------------
(* A request at its last statement is entitled to it. *)
LEMMA Writers ==
  Inv => \A r \in Request :
    req[r].pc \in {"write", "insert"} =>
      /\ req[r].op \in Operation /\ req[r].roles \in Rights /\ Entitled(req[r])
      /\ req[r].pc = "insert" <=> req[r].op.kind = "addGrants"
BY RequestFields DEF Inv, TypeOK, Placed

(* A request that ends with a change to the tables. *)
LEMMA WritersEnd ==
  \A r \in Request :
    Inv /\ Reply(r) /\ RowsKept /\ TablesTyped' /\ GrantsWithinEnvironment' => Inv'
BY IdlePlaced, StepsKeep DEF Reply

(* Every row that is in no table was never there, or is gone. *)
LEMMA KeyStates == Inv => \A k \in Key : key[k] = Unborn \/ key[k] = Gone \/ Live(key[k])
BY DEF Inv, TypeOK, KeyRow, Absent, Unborn, Gone, Live

(* Creating a project or an environment. *)
LEMMA CreateAbove ==
  \A r \in Request :
    Inv /\ ((\E p \in Project : CreateProject(r, p)) \/ (\E e \in Env : CreateEnvironment(r, e)))
      => Inv'
<1>. SUFFICES ASSUME NEW r \in Request, Inv,
                     \/ \E p \in Project : CreateProject(r, p)
                     \/ \E e \in Env : CreateEnvironment(r, e)
              PROVE  Inv'
  OBVIOUS
<1>1. TypeOK /\ TablesTyped
  BY Rows DEF Inv
<1>2. ASSUME NEW p \in Project, CreateProject(r, p)
      PROVE  Inv'
  <2>1. PICK row : row = [st |-> "live", org |-> req[r].op.on]
    OBVIOUS
  <2>2. row \in ProjectRow /\ Live(row)
    BY <1>2, <2>1, Writers, OperationFields DEF CreateProject, ProjectRow, Live
  <2>3. /\ project[p] = Unborn /\ project' = [project EXCEPT ![p] = row]
        /\ env' = env /\ key' = key /\ svc' = svc /\ grant' = grant /\ Reply(r)
    BY <1>2, <2>1 DEF CreateProject
  <2>4. TablesTyped'
    BY <1>1, <2>2, <2>3, NotThere DEF TablesTyped, ForeignKeys
  <2>5. RowsKept
    BY <1>1, <2>3, KeyStates DEF RowsKept, TablesTyped
  <2>6. GrantsWithinEnvironment'
    BY <2>3 DEF Inv, GrantsWithinEnvironment
  <2>. QED
    BY <2>3, <2>4, <2>5, <2>6, WritersEnd
<1>3. ASSUME NEW e \in Env, CreateEnvironment(r, e)
      PROVE  Inv'
  <2>1. PICK row : row = [st |-> "live", project |-> req[r].op.on, protected |-> req[r].op.protected]
    OBVIOUS
  <2>2. row \in EnvRow /\ Live(row) /\ Live(project[row.project])
    BY <1>3, <2>1, Writers, OperationFields DEF CreateEnvironment, EnvRow, Live
  <2>3. /\ env[e] = Unborn /\ env' = [env EXCEPT ![e] = row]
        /\ project' = project /\ key' = key /\ svc' = svc /\ grant' = grant /\ Reply(r)
    BY <1>3, <2>1 DEF CreateEnvironment
  <2>4. TablesTyped'
    BY <1>1, <2>2, <2>3, NotThere DEF TablesTyped, ForeignKeys
  <2>5. RowsKept
    BY <1>1, <2>3, KeyStates DEF RowsKept, TablesTyped
  <2>6. GrantsWithinEnvironment'
    BY <2>3 DEF Inv, GrantsWithinEnvironment
  <2>. QED
    BY <2>3, <2>4, <2>5, <2>6, WritersEnd
<1>. QED
  BY <1>2, <1>3

(* Creating a service or a key, and giving a key another value. *)
LEMMA CreateBelow ==
  \A r \in Request :
    Inv /\ (\/ \E k \in Key : CreateKey(r, k)
            \/ \E s \in Svc : CreateService(r, s)
            \/ SetKeyValue(r))
      => Inv'
<1>. SUFFICES ASSUME NEW r \in Request, Inv,
                     \/ \E k \in Key : CreateKey(r, k)
                     \/ \E s \in Svc : CreateService(r, s)
                     \/ SetKeyValue(r)
              PROVE  Inv'
  OBVIOUS
<1>1. TypeOK /\ TablesTyped
  BY Rows DEF Inv
<1>2. ASSUME NEW k \in Key, CreateKey(r, k)
      PROVE  Inv'
  <2>1. PICK row : row = [st |-> "live", env |-> req[r].op.on, val |-> 0]
    OBVIOUS
  <2>2. row \in KeyRow /\ Live(row) /\ Live(env[row.env])
    BY <1>2, <2>1, Writers, OperationFields DEF CreateKey, KeyRow, Live
  <2>3. /\ key[k] = Unborn /\ key' = [key EXCEPT ![k] = row]
        /\ project' = project /\ env' = env /\ svc' = svc /\ grant' = grant /\ Reply(r)
    BY <1>2, <2>1 DEF CreateKey
  <2>4. TablesTyped'
    BY <1>1, <2>2, <2>3, NotThere DEF TablesTyped, ForeignKeys
  <2>5. RowsKept
    BY <1>1, <2>3, KeyStates DEF RowsKept, TablesTyped
  <2>6. GrantsWithinEnvironment'
    BY <1>1, <2>3, Rows, NotThere DEF Inv, GrantsWithinEnvironment, GrantRow, TablesTyped
  <2>. QED
    BY <2>3, <2>4, <2>5, <2>6, WritersEnd
<1>3. ASSUME NEW s \in Svc, CreateService(r, s)
      PROVE  Inv'
  <2>1. PICK row : row = [st |-> "live", env |-> req[r].op.on]
    OBVIOUS
  <2>2. row \in SvcRow /\ Live(row) /\ Live(env[row.env])
    BY <1>3, <2>1, Writers, OperationFields DEF CreateService, SvcRow, Live
  <2>3. /\ svc[s] = Unborn /\ svc' = [svc EXCEPT ![s] = row]
        /\ project' = project /\ env' = env /\ key' = key /\ grant' = grant /\ Reply(r)
    BY <1>3, <2>1 DEF CreateService
  <2>4. TablesTyped'
    BY <1>1, <2>2, <2>3, NotThere DEF TablesTyped, ForeignKeys
  <2>5. RowsKept
    BY <1>1, <2>3, KeyStates DEF RowsKept, TablesTyped
  <2>6. GrantsWithinEnvironment'
    BY <1>1, <2>3, Rows, NotThere DEF Inv, GrantsWithinEnvironment, GrantRow, TablesTyped
  <2>. QED
    BY <2>3, <2>4, <2>5, <2>6, WritersEnd
<1>4. ASSUME SetKeyValue(r)
      PROVE  Inv'
  <2>1. PICK k : k = req[r].op.on
    OBVIOUS
  <2>2. k \in Key /\ Live(key[k]) /\ key[k] \in KeyRow
    BY <1>1, <1>4, <2>1, Writers, OperationFields, Rows DEF SetKeyValue
  <2>3. PICK row : row = [key[k] EXCEPT !.val = 1 - @]
    OBVIOUS
  <2>4. row \in KeyRow /\ Live(row) /\ row.env = key[k].env
    BY <2>2, <2>3 DEF KeyRow, Live
  <2>5. /\ key' = [key EXCEPT ![k] = row]
        /\ project' = project /\ env' = env /\ svc' = svc /\ grant' = grant /\ Reply(r)
    BY <1>4, <2>1, <2>3 DEF SetKeyValue
  <2>6. TablesTyped'
    BY <1>1, <2>2, <2>4, <2>5, NotThere DEF TablesTyped, ForeignKeys
  <2>7. RowsKept
    BY <1>1, <2>2, <2>4, <2>5, KeyStates DEF RowsKept, TablesTyped
  <2>8. GrantsWithinEnvironment'
    BY <1>1, <2>4, <2>5, Rows DEF Inv, GrantsWithinEnvironment, GrantRow, TablesTyped
  <2>. QED
    BY <2>5, <2>6, <2>7, <2>8, WritersEnd
<1>. QED
  BY <1>2, <1>3, <1>4

(* Deleting a row, and all that is below it. *)
LEMMA DeleteStep == \A r \in Request : Inv /\ Delete(r) => Inv'
<1>. SUFFICES ASSUME NEW r \in Request, Inv, Delete(r)
              PROVE  Inv'
  OBVIOUS
<1>. DEFINE op == req[r].op
            projects == IF op.kind = "deleteProject" THEN {op.on} ELSE {}
<1>1. TypeOK /\ TablesTyped /\ GrantsWithinEnvironment /\ Reply(r)
  BY Rows DEF Inv, Delete
<1>2. /\ project' = [p \in Project |-> IF p \in projects THEN Gone ELSE project[p]]
      /\ env' = [e \in Env |-> IF e \in EnvsUnder(op) THEN Gone ELSE env[e]]
      /\ key' = [k \in Key |-> IF k \in KeysUnder(op) THEN Gone ELSE key[k]]
      /\ svc' = [s \in Svc |-> IF s \in SvcsUnder(op) THEN Gone ELSE svc[s]]
      /\ grant' = [g \in Grant |-> IF g \in GrantsUnder(op) THEN Gone ELSE grant[g]]
  BY <1>1 DEF Delete, Cascade, TablesTyped
<1>3. /\ \A e \in Env : Live(env[e]) /\ env[e].project \in projects => e \in EnvsUnder(op)
      /\ \A k \in Key : Live(key[k]) /\ key[k].env \in EnvsUnder(op) => k \in KeysUnder(op)
      /\ \A s \in Svc : Live(svc[s]) /\ svc[s].env \in EnvsUnder(op) => s \in SvcsUnder(op)
      /\ \A g \in Grant : /\ Live(grant[g])
                          /\ grant[g].svc \in SvcsUnder(op) \/ grant[g].key \in KeysUnder(op)
                          => g \in GrantsUnder(op)
  BY DEF EnvsUnder, KeysUnder, SvcsUnder, GrantsUnder
<1>4. /\ \A p \in Project : Live(project'[p]) => p \notin projects /\ project'[p] = project[p]
      /\ \A e \in Env : Live(env'[e]) => e \notin EnvsUnder(op) /\ env'[e] = env[e]
      /\ \A k \in Key : Live(key'[k]) => k \notin KeysUnder(op) /\ key'[k] = key[k]
      /\ \A s \in Svc : Live(svc'[s]) => s \notin SvcsUnder(op) /\ svc'[s] = svc[s]
      /\ \A g \in Grant : Live(grant'[g]) => g \notin GrantsUnder(op) /\ grant'[g] = grant[g]
  BY <1>2, NotThere
<1>5. /\ \A e \in Env : Live(env'[e]) => Live(project'[env'[e].project])
      /\ \A k \in Key : Live(key'[k]) => Live(env'[key'[k].env])
      /\ \A s \in Svc : Live(svc'[s]) => Live(env'[svc'[s].env])
      /\ \A g \in Grant : Live(grant'[g]) => Live(svc'[grant'[g].svc]) /\ Live(key'[grant'[g].key])
  <2>1. ASSUME NEW e \in Env, Live(env'[e])
        PROVE  Live(project'[env'[e].project])
    BY <1>1, <1>2, <1>3, <1>4, <2>1, Rows DEF EnvRow
  <2>2. ASSUME NEW k \in Key, Live(key'[k])
        PROVE  Live(env'[key'[k].env])
    BY <1>1, <1>2, <1>3, <1>4, <2>2, Rows DEF KeyRow
  <2>3. ASSUME NEW s \in Svc, Live(svc'[s])
        PROVE  Live(env'[svc'[s].env])
    BY <1>1, <1>2, <1>3, <1>4, <2>3, Rows DEF SvcRow
  <2>4. ASSUME NEW g \in Grant, Live(grant'[g])
        PROVE  Live(svc'[grant'[g].svc]) /\ Live(key'[grant'[g].key])
    BY <1>1, <1>2, <1>3, <1>4, <2>4, Rows DEF GrantRow
  <2>. QED
    BY <2>1, <2>2, <2>3, <2>4
<1>6. TablesTyped'
  <2>1. /\ project' \in [Project -> ProjectRow \cup Absent]
        /\ env' \in [Env -> EnvRow \cup Absent]
        /\ key' \in [Key -> KeyRow \cup Absent]
        /\ svc' \in [Svc -> SvcRow \cup Absent]
        /\ grant' \in [Grant -> GrantRow \cup Absent]
    BY <1>1, <1>2, NotThere DEF TablesTyped
  <2>. QED
    BY <1>5, <2>1 DEF TablesTyped, ForeignKeys
<1>7. RowsKept
  <2>1. \A k \in Key : key[k] # Unborn =>
          key'[k] = Gone \/ (Live(key[k]) /\ Live(key'[k]) /\ key'[k].env = key[k].env)
    BY <1>2, KeyStates
  <2>. QED
    BY <1>2, <2>1 DEF RowsKept
<1>8. GrantsWithinEnvironment'
  <2>. SUFFICES ASSUME NEW g \in Grant, Live(grant'[g])
                PROVE  key'[grant'[g].key].env = svc'[grant'[g].svc].env
    BY DEF GrantsWithinEnvironment
  <2>1. grant'[g] = grant[g] /\ Live(grant[g]) /\ grant[g] \in GrantRow
    BY <1>1, <1>4, Rows
  <2>2. key'[grant[g].key] = key[grant[g].key] /\ svc'[grant[g].svc] = svc[grant[g].svc]
    BY <1>4, <1>5, <2>1 DEF GrantRow
  <2>. QED
    BY <1>1, <2>1, <2>2 DEF GrantsWithinEnvironment
<1>. QED
  BY <1>1, <1>6, <1>7, <1>8, WritersEnd

(* The keys are granted: those that were checked, if all are still there.   *)
LEMMA InsertFacts ==
  \A r \in Request : \A ks \in SUBSET Key : \A at \in [ks -> Grant] :
    Inv /\ InsertGrants(r, at) =>
      /\ grant' \in [Grant -> GrantRow \cup Absent]
      /\ \A g \in Grant :
           \/ grant'[g] = grant[g]
           \/ /\ grant[g] = Unborn /\ grant'[g] \in GrantRow
              /\ grant'[g].svc = req[r].op.on
              /\ Live(svc[grant'[g].svc]) /\ Live(key[grant'[g].key])
              /\ key[grant'[g].key].env = svc[grant'[g].svc].env
<1>. SUFFICES ASSUME NEW r \in Request, NEW ks \in SUBSET Key, NEW at \in [ks -> Grant], Inv,
                     InsertGrants(r, at)
              PROVE  /\ grant' \in [Grant -> GrantRow \cup Absent]
                     /\ \A g \in Grant :
                          \/ grant'[g] = grant[g]
                          \/ /\ grant[g] = Unborn /\ grant'[g] \in GrantRow
                             /\ grant'[g].svc = req[r].op.on
                             /\ Live(svc[grant'[g].svc]) /\ Live(key[grant'[g].key])
                             /\ key[grant'[g].key].env = svc[grant'[g].svc].env
  OBVIOUS
<1>1. TypeOK /\ TablesTyped
  BY Rows DEF Inv
<1>2. ks = req[r].new /\ req[r].pc = "insert"
  BY DEF InsertGrants
<1>3. /\ req[r].op.on \in Svc /\ ks \subseteq req[r].op.keys /\ ks \subseteq Key
      /\ Matching(req[r].op.on, req[r].op.keys)
  BY <1>2, Writers, OperationFields DEF Inv, Placed
<1>4. ASSUME NEW g \in Grant, grant'[g] # grant[g]
      PROVE  /\ grant[g] = Unborn /\ grant'[g] \in GrantRow
             /\ grant'[g].svc = req[r].op.on
             /\ Live(svc[grant'[g].svc]) /\ Live(key[grant'[g].key])
             /\ key[grant'[g].key].env = svc[grant'[g].svc].env
  <2>1. PICK k \in ks : /\ at[k] = g
                        /\ grant'[g] = [st |-> "live", svc |-> req[r].op.on, key |-> k]
    BY <1>2, <1>4 DEF InsertGrants
  <2>2. Live(svc[req[r].op.on]) /\ Live(key[k]) /\ grant[g] = Unborn
    BY <1>2, <2>1 DEF InsertGrants
  <2>3. key[k].env = svc[req[r].op.on].env
    BY <1>3, <2>2 DEF Matching
  <2>. QED
    BY <1>3, <2>1, <2>2, <2>3 DEF GrantRow
<1>5. grant' \in [Grant -> GrantRow \cup Absent]
  <2>1. \A g \in Grant : grant'[g] \in GrantRow \cup Absent
    BY <1>1, <1>4 DEF TablesTyped
  <2>. QED
    BY <2>1 DEF InsertGrants
<1>. QED
  BY <1>4, <1>5

(* Granting keys keeps the invariant. *)
LEMMA InsertStep ==
  \A r \in Request :
    Inv /\ (\E ks \in SUBSET Key : \E at \in [ks -> Grant] : InsertGrants(r, at)) => Inv'
<1>. SUFFICES ASSUME NEW r \in Request, NEW ks \in SUBSET Key, NEW at \in [ks -> Grant], Inv,
                     InsertGrants(r, at)
              PROVE  Inv'
  OBVIOUS
<1>1. TypeOK /\ TablesTyped
  BY Rows DEF Inv
<1>2. project' = project /\ env' = env /\ key' = key /\ svc' = svc /\ Reply(r)
  BY DEF InsertGrants
<1>3. /\ grant' \in [Grant -> GrantRow \cup Absent]
      /\ \A g \in Grant :
           \/ grant'[g] = grant[g]
           \/ /\ grant[g] = Unborn
              /\ Live(svc[grant'[g].svc]) /\ Live(key[grant'[g].key])
              /\ key[grant'[g].key].env = svc[grant'[g].svc].env
  BY InsertFacts
<1>4. TablesTyped'
  BY <1>1, <1>2, <1>3 DEF TablesTyped, ForeignKeys
<1>5. RowsKept
  BY <1>2, <1>3, KeyStates DEF RowsKept
<1>6. GrantsWithinEnvironment'
  BY <1>2, <1>3 DEF Inv, GrantsWithinEnvironment
<1>. QED
  BY <1>2, <1>4, <1>5, <1>6, WritersEnd

-----------------------------------------------------------------------------
(* Initially there is nothing. *)
LEMMA InitInv == Init => Inv
<1>. SUFFICES ASSUME Init
              PROVE  Inv
  OBVIOUS
<1>1. TypeOK
  BY NotThere, IdlePlaced DEF Init, TypeOK, ForeignKeys
<1>2. GrantsWithinEnvironment
  BY NotThere DEF Init, GrantsWithinEnvironment
<1>. QED
  BY <1>1, <1>2, IdlePlaced DEF Init, Inv

(* The invariant is inductive. *)
LEMMA NextInv == Inv /\ [Next]_vars => Inv'
<1>. SUFFICES ASSUME Inv, [Next]_vars
              PROVE  Inv'
  OBVIOUS
<1>1. CASE UNCHANGED vars
  <2>1. UNCHANGED tables /\ req' = req /\ TypeOK
    BY <1>1 DEF vars, tables, Inv
  <2>2. RowsKept /\ TablesTyped' /\ GrantsWithinEnvironment'
    BY <2>1, NothingChanges
  <2>3. TypeOK'
    BY <2>1, <2>2 DEF TypeOK, TablesTyped
  <2>4. ASSUME NEW r \in Request
        PROVE  Placed(req[r])'
    <3>1. PICK q \in RequestState : q = req[r] /\ Placed(q)
      BY DEF Inv, TypeOK
    <3>2. Placed(q)'
      BY <2>1, <2>2, <3>1, PlacedKept
    <3>. QED
      BY <2>1, <3>1, <3>2 DEF Placed, Entitled, Matching, Authorize, AtLeast
  <2>. QED
    BY <2>2, <2>3, <2>4 DEF Inv
<1>2. CASE Next
  BY <1>2, ReadSteps, CreateAbove, CreateBelow, DeleteStep, InsertStep DEF Next
<1>. QED
  BY <1>1, <1>2

(* Every reachable state of the hierarchy is well typed, and no row is      *)
(* there without its parents.                                               *)
THEOREM HierarchyTypeCorrect == Spec => []TypeOK
<1>1. Inv => TypeOK
  BY DEF Inv
<1>. QED
  BY <1>1, InitInv, NextInv, PTL DEF Spec

(* No grant ever ties a service to a key of another environment, whatever   *)
(* is deleted between the check of the keys and the insert.                 *)
THEOREM GrantsStayWithin == Spec => []GrantsWithinEnvironment
<1>1. Inv => GrantsWithinEnvironment
  BY DEF Inv
<1>. QED
  BY <1>1, InitInv, NextInv, PTL DEF Spec
-----------------------------------------------------------------------------
(* Who may change what.  An operation concerns an environment if the row it *)
(* names is there, and is that environment, or below it, or its project.    *)
Concerns(op, e) ==
  /\ Resolvable(op)
  /\ \/ op.kind = "deleteProject" /\ env[e].project = op.on
     \/ /\ op.kind \notin {"createProject", "deleteProject", "createEnvironment"}
        /\ EnvOf(op) = e

ByMember(r, e) == By(r) /\ AtLeast(req[r].roles[OrgOfEnv(e)], "member")
ByAdmin(r, e) == By(r) /\ AtLeast(req[r].roles[OrgOfEnv(e)], "admin")

(* A step of r changes an environment as a member may, and what is          *)
(* protected there as an admin may.                                         *)
Guarded(r, e) ==
  \/ Contents(e)' = Contents(e)
  \/ /\ ByMember(r, e)
     /\ \/ ByAdmin(r, e) \/ ~env[e].protected
        \/ KeysOf(e)' = KeysOf(e) /\ GrantsOf(e)' \subseteq GrantsOf(e)

(* An environment belongs to an organization. *)
LEMMA OwningOrg == TypeOK => \A e \in Env : Live(env[e]) => OrgOfEnv(e) \in Org
BY Rows DEF EnvRow, ProjectRow, OrgOfEnv

(* An admin may do what a member may, and an owner what an admin may.       *)
LEMMA RolesRanked ==
  \A role \in Role \cup {None} :
    /\ AtLeast(role, "owner") => AtLeast(role, "admin")
    /\ AtLeast(role, "admin") => AtLeast(role, "member")
BY ConstantsAssumption DEF AtLeast, Rank

(* An operation that concerns an environment is authorized in the           *)
(* organization that owns it, there as an admin unless it creates a service *)
(* or takes a grant away.                                                   *)
LEMMA ConcernsOrg ==
  \A op \in Operation : \A e \in Env :
    TypeOK /\ Live(env[e]) /\ Concerns(op, e) =>
      /\ Resolvable(op) /\ OrgOf(op) = OrgOfEnv(e)
      /\ MinRole(op) \in {"member", "admin", "owner"}
      /\ env[e].protected /\ op.kind \notin {"createService", "deleteGrant"} =>
           MinRole(op) \in {"admin", "owner"}
<1>. SUFFICES ASSUME NEW op \in Operation, NEW e \in Env, Live(env[e]), Concerns(op, e)
              PROVE  /\ Resolvable(op) /\ OrgOf(op) = OrgOfEnv(e)
                     /\ MinRole(op) \in {"member", "admin", "owner"}
                     /\ env[e].protected /\ op.kind \notin {"createService", "deleteGrant"} =>
                          MinRole(op) \in {"admin", "owner"}
  OBVIOUS
<1>1. CASE op.kind = "deleteProject"
  BY <1>1 DEF Concerns, OrgOf, OrgOfEnv, MinRole
<1>2. CASE op.kind # "deleteProject"
  <2>1. /\ op.kind \in {"deleteEnvironment", "createKey", "createService", "setKeyValue",
                        "deleteKey", "deleteService", "addGrants", "deleteGrant"}
        /\ EnvOf(op) = e /\ Resolvable(op)
    BY <1>2, OperationFields DEF Concerns
  <2>2. OrgOf(op) = OrgOfEnv(e)
    BY <2>1 DEF OrgOf
  <2>3. /\ MinRole(op) \in {"member", "admin"}
        /\ env[e].protected /\ op.kind \notin {"createService", "deleteGrant"} =>
             MinRole(op) = "admin"
    BY <2>1 DEF MinRole
  <2>. QED
    BY <2>1, <2>2, <2>3
<1>. QED
  BY <1>1, <1>2

(* A request that writes, and whose operation concerns an environment, is   *)
(* of a member, or of an admin where it takes one.                          *)
LEMMA WritersMay ==
  \A r \in Request : \A e \in Env :
    /\ Inv /\ Live(env[e]) /\ Reply(r)
    /\ req[r].pc \in {"write", "insert"} /\ Concerns(req[r].op, e)
    => /\ ByMember(r, e)
       /\ env[e].protected /\ req[r].op.kind \notin {"createService", "deleteGrant"} => ByAdmin(r, e)
<1>. SUFFICES ASSUME NEW r \in Request, NEW e \in Env, Inv, Live(env[e]), Reply(r),
                     req[r].pc \in {"write", "insert"}, Concerns(req[r].op, e)
              PROVE  /\ ByMember(r, e)
                     /\ env[e].protected /\ req[r].op.kind \notin {"createService", "deleteGrant"} =>
                          ByAdmin(r, e)
  OBVIOUS
<1>1. TypeOK /\ req \in [Request -> RequestState] /\ OrgOfEnv(e) \in Org
  BY OwningOrg DEF Inv, TypeOK
<1>2. req[r].op \in Operation /\ req[r].roles \in Rights /\ Entitled(req[r])
  BY Writers
<1>3. By(r)
  <2>1. req'[r] = Idle
    BY <1>1 DEF Reply
  <2>. QED
    BY <2>1 DEF By, Idle
<1>4. PICK role : role = req[r].roles[OrgOfEnv(e)]
  OBVIOUS
<1>5. role \in Role \cup {None}
  BY <1>1, <1>2, <1>4, ConstantsAssumption
<1>6. /\ AtLeast(role, MinRole(req[r].op)) /\ MinRole(req[r].op) \in {"member", "admin", "owner"}
      /\ env[e].protected /\ req[r].op.kind \notin {"createService", "deleteGrant"} =>
           MinRole(req[r].op) \in {"admin", "owner"}
  BY <1>1, <1>2, <1>4, ConcernsOrg DEF Entitled, Authorize
<1>7. AtLeast(role, "member") /\ (MinRole(req[r].op) \in {"admin", "owner"} => AtLeast(role, "admin"))
  BY <1>5, <1>6, RolesRanked
<1>. QED
  BY <1>3, <1>4, <1>6, <1>7 DEF ByMember, ByAdmin

(* Keys that neither come, go, move nor change. *)
LEMMA SameKeys ==
  \A e \in Env :
    /\ \A k \in Key : Live(key'[k]) /\ key'[k].env = e <=> Live(key[k]) /\ key[k].env = e
    /\ \A k \in Key : Live(key[k]) /\ key[k].env = e => key'[k] = key[k]
    => KeysOf(e)' = KeysOf(e)
<1>. SUFFICES ASSUME NEW e \in Env,
                     \A k \in Key : Live(key'[k]) /\ key'[k].env = e <=> Live(key[k]) /\ key[k].env = e,
                     \A k \in Key : Live(key[k]) /\ key[k].env = e => key'[k] = key[k]
              PROVE  KeysOf(e)' = KeysOf(e)
  OBVIOUS
<1>1. PICK ks : ks = {k \in Key : Live(key[k]) /\ key[k].env = e}
  OBVIOUS
<1>2. ks = {k \in Key : Live(key'[k]) /\ key'[k].env = e} /\ \A k \in ks : key'[k] = key[k]
  BY <1>1
<1>3. KeysOf(e) = {<<k, key[k]>> : k \in ks} /\ KeysOf(e)' = {<<k, key'[k]>> : k \in ks}
  BY <1>1, <1>2 DEF KeysOf
<1>. QED
  BY <1>2, <1>3

(* What an environment holds is told by its row, its keys, services and     *)
(* grants.                                                                  *)
LEMMA SameContents ==
  \A e \in Env :
    /\ env'[e] = env[e] /\ KeysOf(e)' = KeysOf(e) /\ SvcsOf(e)' = SvcsOf(e)
    /\ \A g \in Grant : Live(grant'[g]) /\ grant'[g].svc \in SvcsOf(e) <=>
                          Live(grant[g]) /\ grant[g].svc \in SvcsOf(e)
    => Contents(e)' = Contents(e)
BY DEF Contents, GrantsOf

(* Steps that change nothing below an environment. *)
LEMMA NotConcerned ==
  \A r \in Request : \A e \in Env :
    /\ Inv /\ Live(env[e])
    /\ \/ UNCHANGED tables
       \/ \E p \in Project : CreateProject(r, p)
       \/ \E f \in Env : CreateEnvironment(r, f)
    => Contents(e)' = Contents(e)
<1>. SUFFICES ASSUME NEW r \in Request, NEW e \in Env, Inv, Live(env[e]),
                     \/ UNCHANGED tables
                     \/ \E p \in Project : CreateProject(r, p)
                     \/ \E f \in Env : CreateEnvironment(r, f)
              PROVE  Contents(e)' = Contents(e)
  OBVIOUS
<1>1. env'[e] = env[e] /\ key' = key /\ svc' = svc /\ grant' = grant
  <2>1. env \in [Env -> EnvRow \cup Absent]
    BY DEF Inv, TypeOK
  <2>2. ASSUME NEW f \in Env, CreateEnvironment(r, f)
        PROVE  env'[e] = env[e] /\ key' = key /\ svc' = svc /\ grant' = grant
    BY <2>1, <2>2, NotThere DEF CreateEnvironment
  <2>. QED
    BY <2>2 DEF tables, CreateProject
<1>. QED
  BY <1>1 DEF Contents, KeysOf, SvcsOf, GrantsOf

(* Creating a key or a service, and giving a key another value. *)
LEMMA WritesGuarded ==
  \A r \in Request : \A e \in Env :
    /\ Inv /\ Live(env[e])
    /\ \/ \E k \in Key : CreateKey(r, k)
       \/ \E s \in Svc : CreateService(r, s)
       \/ SetKeyValue(r)
    => Guarded(r, e)
<1>. SUFFICES ASSUME NEW r \in Request, NEW e \in Env, Inv, Live(env[e]),
                     \/ \E k \in Key : CreateKey(r, k)
                     \/ \E s \in Svc : CreateService(r, s)
                     \/ SetKeyValue(r)
              PROVE  Guarded(r, e)
  OBVIOUS
<1>. DEFINE op == req[r].op
<1>1. TypeOK /\ TablesTyped /\ req[r].pc = "write" /\ op \in Operation /\ Reply(r)
  BY Rows, Writers DEF Inv, CreateKey, CreateService, SetKeyValue
<1>2. CASE \E k \in Key : CreateKey(r, k)
  <2>1. PICK k \in Key : CreateKey(r, k)
    BY <1>2
  <2>2. /\ op.kind = "createKey" /\ key[k] = Unborn /\ Live(env[op.on])
        /\ key'[k].env = op.on /\ \A j \in Key : j # k => key'[j] = key[j]
        /\ env' = env /\ svc' = svc /\ grant' = grant
    BY <1>1, <2>1 DEF CreateKey, TablesTyped
  <2>3. CASE op.on = e
    <3>1. Concerns(op, e)
      BY <2>2, <2>3 DEF Concerns, Resolvable, EnvOf
    <3>. QED
      BY <1>1, <2>2, <3>1, WritersMay DEF Guarded
  <2>4. CASE op.on # e
    <3>1. KeysOf(e)' = KeysOf(e)
      BY <2>2, <2>4, NotThere, SameKeys
    <3>. QED
      BY <2>2, <3>1, SameContents DEF Guarded, SvcsOf
  <2>. QED
    BY <2>3, <2>4
<1>3. CASE \E s \in Svc : CreateService(r, s)
  <2>1. PICK s \in Svc : CreateService(r, s)
    BY <1>3
  <2>2. /\ op.kind = "createService" /\ svc[s] = Unborn /\ Live(env[op.on])
        /\ svc'[s].env = op.on /\ \A o \in Svc : o # s => svc'[o] = svc[o]
        /\ env' = env /\ key' = key /\ grant' = grant
    BY <1>1, <2>1 DEF CreateService, TablesTyped
  <2>3. \A g \in Grant : Live(grant[g]) => grant[g].svc \in Svc \ {s}
    BY <1>1, <2>2, Rows, NotThere DEF GrantRow
  <2>4. KeysOf(e)' = KeysOf(e)
    BY <2>2 DEF KeysOf
  <2>5. CASE op.on = e
    <3>1. Concerns(op, e)
      BY <2>2, <2>5 DEF Concerns, Resolvable, EnvOf
    <3>2. GrantsOf(e)' \subseteq GrantsOf(e)
      BY <2>2, <2>3 DEF GrantsOf, SvcsOf
    <3>. QED
      BY <1>1, <2>4, <3>1, <3>2, WritersMay DEF Guarded
  <2>6. CASE op.on # e
    <3>1. SvcsOf(e)' = SvcsOf(e)
      BY <2>2, <2>6, NotThere DEF SvcsOf
    <3>. QED
      BY <2>2, <2>4, <3>1, SameContents DEF Guarded
  <2>. QED
    BY <2>5, <2>6
<1>4. CASE SetKeyValue(r)
  <2>1. /\ op.kind = "setKeyValue" /\ op.on \in Key /\ Live(key[op.on])
        /\ key'[op.on].env = key[op.on].env
        /\ \A j \in Key : j # op.on => key'[j] = key[j]
        /\ env' = env /\ svc' = svc /\ grant' = grant
    <3>1. op.kind = "setKeyValue" /\ op.on \in Key /\ Live(key[op.on]) /\ key[op.on] \in KeyRow
      BY <1>1, <1>4, OperationFields, Rows DEF SetKeyValue
    <3>2. PICK row : row = [key[op.on] EXCEPT !.val = 1 - @]
      OBVIOUS
    <3>3. row.env = key[op.on].env
      BY <3>1, <3>2 DEF KeyRow
    <3>4. key' = [key EXCEPT ![op.on] = row] /\ env' = env /\ svc' = svc /\ grant' = grant
      BY <1>4, <3>2 DEF SetKeyValue
    <3>. QED
      BY <1>1, <3>1, <3>3, <3>4 DEF TablesTyped
  <2>2. CASE key[op.on].env = e
    <3>1. Concerns(op, e)
      BY <2>1, <2>2 DEF Concerns, Resolvable, EnvOf
    <3>. QED
      BY <1>1, <2>1, <3>1, WritersMay DEF Guarded
  <2>3. CASE key[op.on].env # e
    <3>1. KeysOf(e)' = KeysOf(e)
      BY <2>1, <2>3, SameKeys
    <3>. QED
      BY <2>1, <3>1, SameContents DEF Guarded, SvcsOf
  <2>. QED
    BY <2>2, <2>3
<1>. QED
  BY <1>2, <1>3, <1>4

(* Granting keys. *)
LEMMA InsertGuarded ==
  \A r \in Request : \A e \in Env :
    /\ Inv /\ Live(env[e])
    /\ \E ks \in SUBSET Key : \E at \in [ks -> Grant] : InsertGrants(r, at)
    => Guarded(r, e)
<1>. SUFFICES ASSUME NEW r \in Request, NEW e \in Env, Inv, Live(env[e]),
                     NEW ks \in SUBSET Key, NEW at \in [ks -> Grant], InsertGrants(r, at)
              PROVE  Guarded(r, e)
  OBVIOUS
<1>. DEFINE op == req[r].op
<1>1. /\ req[r].pc = "insert" /\ op.kind = "addGrants" /\ Reply(r)
      /\ env' = env /\ key' = key /\ svc' = svc
  BY Writers DEF InsertGrants
<1>2. \A g \in Grant :
        \/ grant'[g] = grant[g]
        \/ /\ grant[g] = Unborn /\ grant'[g].svc = op.on
           /\ Live(svc[op.on])
  BY InsertFacts
<1>3. KeysOf(e)' = KeysOf(e) /\ SvcsOf(e)' = SvcsOf(e)
  BY <1>1 DEF KeysOf, SvcsOf
<1>4. CASE Live(svc[op.on]) /\ svc[op.on].env = e
  <2>1. Concerns(op, e)
    BY <1>1, <1>4 DEF Concerns, Resolvable, EnvOf
  <2>. QED
    BY <1>1, <2>1, WritersMay DEF Guarded
<1>5. CASE ~(Live(svc[op.on]) /\ svc[op.on].env = e)
  <2>1. op.on \notin SvcsOf(e)
    BY <1>5 DEF SvcsOf
  <2>. QED
    BY <1>1, <1>2, <1>3, <2>1, NotThere, SameContents DEF Guarded
<1>. QED
  BY <1>4, <1>5

(* Deleting a row, and all that is below it. *)
LEMMA DeleteGuarded ==
  \A r \in Request : \A e \in Env : Inv /\ Live(env[e]) /\ Delete(r) => Guarded(r, e)
<1>. SUFFICES ASSUME NEW r \in Request, NEW e \in Env, Inv, Live(env[e]), Delete(r)
              PROVE  Guarded(r, e)
  OBVIOUS
<1>. DEFINE op == req[r].op
<1>1. /\ TypeOK /\ TablesTyped /\ GrantsWithinEnvironment /\ Reply(r)
      /\ req[r].pc = "write" /\ op \in Operation /\ op.kind \in Deletes
  BY Rows, Writers DEF Inv, Delete
<1>2. /\ env' = [f \in Env |-> IF f \in EnvsUnder(op) THEN Gone ELSE env[f]]
      /\ key' = [k \in Key |-> IF k \in KeysUnder(op) THEN Gone ELSE key[k]]
      /\ svc' = [s \in Svc |-> IF s \in SvcsUnder(op) THEN Gone ELSE svc[s]]
      /\ grant' = [g \in Grant |-> IF g \in GrantsUnder(op) THEN Gone ELSE grant[g]]
  BY <1>1 DEF Delete, Cascade, TablesTyped
<1>3. CASE Concerns(op, e)
  <2>1. CASE op.kind # "deleteGrant"
    BY <1>1, <1>3, <2>1, WritersMay DEF Guarded, Deletes
  <2>2. CASE op.kind = "deleteGrant"
    <3>1. EnvsUnder(op) = {} /\ KeysUnder(op) = {} /\ SvcsUnder(op) = {}
      BY <2>2 DEF EnvsUnder, KeysUnder, SvcsUnder
    <3>2. key' = key /\ svc' = svc
      BY <1>1, <1>2, <3>1 DEF TablesTyped
    <3>3. KeysOf(e)' = KeysOf(e) /\ SvcsOf(e)' = SvcsOf(e)
      BY <3>2 DEF KeysOf, SvcsOf
    <3>4. GrantsOf(e)' \subseteq GrantsOf(e)
      BY <1>2, <3>3, NotThere DEF GrantsOf
    <3>. QED
      BY <1>1, <1>3, <3>3, <3>4, WritersMay DEF Guarded
  <2>. QED
    BY <2>1, <2>2
<1>4. CASE ~Concerns(op, e)
  <2>1. e \notin EnvsUnder(op)
    <3>1. Live(project[env[e].project])
      BY <1>1, Rows
    <3>2. op.kind = "deleteEnvironment" => e # op.on
      BY <1>4 DEF Concerns, Resolvable, EnvOf
    <3>3. op.kind = "deleteProject" => env[e].project # op.on
      BY <1>4, <3>1 DEF Concerns, Resolvable
    <3>. QED
      BY <3>2, <3>3 DEF EnvsUnder
  <2>2. \A k \in Key : Live(key[k]) /\ key[k].env = e => k \notin KeysUnder(op)
    BY <1>4, <2>1 DEF KeysUnder, Concerns, Resolvable, EnvOf
  <2>3. \A s \in Svc : Live(svc[s]) /\ svc[s].env = e => s \notin SvcsUnder(op)
    BY <1>4, <2>1 DEF SvcsUnder, Concerns, Resolvable, EnvOf
  <2>4. \A g \in Grant : Live(grant[g]) /\ grant[g].svc \in SvcsOf(e) => g \notin GrantsUnder(op)
    <3>1. SUFFICES ASSUME NEW g \in Grant, Live(grant[g]), grant[g].svc \in SvcsOf(e)
                   PROVE  g \notin GrantsUnder(op)
      OBVIOUS
    <3>2. /\ grant[g].svc \in Svc /\ Live(svc[grant[g].svc]) /\ svc[grant[g].svc].env = e
          /\ grant[g].key \in Key /\ Live(key[grant[g].key]) /\ key[grant[g].key].env = e
      BY <1>1, <3>1, Rows DEF GrantRow, SvcsOf, GrantsWithinEnvironment
    <3>3. grant[g].svc \notin SvcsUnder(op) /\ grant[g].key \notin KeysUnder(op)
      BY <2>2, <2>3, <3>2
    <3>4. ~(op.kind = "deleteGrant" /\ g = op.on)
      BY <1>4, <3>1, <3>2 DEF Concerns, Resolvable, EnvOf
    <3>. QED
      BY <3>3, <3>4 DEF GrantsUnder
  <2>5. env'[e] = env[e]
    BY <1>2, <2>1
  <2>6. KeysOf(e)' = KeysOf(e)
    BY <1>2, <2>2, NotThere, SameKeys
  <2>7. SvcsOf(e)' = SvcsOf(e)
    BY <1>2, <2>3, NotThere DEF SvcsOf
  <2>8. \A g \in Grant : Live(grant'[g]) /\ grant'[g].svc \in SvcsOf(e) <=>
                           Live(grant[g]) /\ grant[g].svc \in SvcsOf(e)
    BY <1>2, <2>4, NotThere
  <2>. QED
    BY <2>5, <2>6, <2>7, <2>8, SameContents DEF Guarded
<1>. QED
  BY <1>3, <1>4

(* Every step is guarded, for every environment. *)
LEMMA StepsGuarded ==
  Inv /\ [Next]_vars =>
    \A e \in Env : Live(env[e]) =>
      Contents(e)' = Contents(e) \/ \E r \in Request : Guarded(r, e)
<1>. SUFFICES ASSUME Inv, [Next]_vars, NEW e \in Env, Live(env[e])
              PROVE  Contents(e)' = Contents(e) \/ \E r \in Request : Guarded(r, e)
  OBVIOUS
<1>1. CASE UNCHANGED vars
  BY <1>1 DEF vars, Contents, KeysOf, SvcsOf, GrantsOf
<1>2. ASSUME NEW r \in Request,
             \/ \E op \in Operation, roles \in Rights : Resolve(r, op, roles)
             \/ CheckKeys(r) \/ ReadExisting(r) \/ Fail(r)
             \/ \E p \in Project : CreateProject(r, p)
             \/ \E f \in Env : CreateEnvironment(r, f)
      PROVE  Contents(e)' = Contents(e)
  <2>1. \/ UNCHANGED tables
        \/ \E p \in Project : CreateProject(r, p)
        \/ \E f \in Env : CreateEnvironment(r, f)
    BY <1>2 DEF Resolve, CheckKeys, ReadExisting, Fail
  <2>. QED
    BY <2>1, NotConcerned
<1>3. CASE Next
  BY <1>2, <1>3, WritesGuarded, InsertGuarded, DeleteGuarded DEF Next
<1>. QED
  BY <1>1, <1>3

(* Tenants are apart: whatever ids a request names, and whatever has been   *)
(* deleted since it resolved them, nothing in an environment changes but at *)
(* the word of a member of the organization that owns it.                   *)
THEOREM TenantsStayApart == Spec => TenantsApart
<1>1. Inv /\ [Next]_vars =>
        [\A e \in Env : Live(env[e]) /\ Contents(e)' # Contents(e) =>
           \E r \in Request : By(r) /\ AtLeast(req[r].roles[OrgOfEnv(e)], "member")]_vars
  BY StepsGuarded DEF Guarded, ByMember
<1>. QED
  BY <1>1, InitInv, NextInv, PTL DEF Spec, TenantsApart

(* In a protected environment keys change, and grants appear, only at the   *)
(* word of an admin of the organization that owns it.                       *)
THEOREM ProtectedByAdmins == Spec => ProtectedKeysGuarded
<1>1. Inv /\ [Next]_vars =>
        [\A e \in Env :
           /\ Live(env[e]) /\ env[e].protected
           /\ KeysOf(e)' # KeysOf(e) \/ ~(GrantsOf(e)' \subseteq GrantsOf(e))
           => \E r \in Request : By(r) /\ AtLeast(req[r].roles[OrgOfEnv(e)], "admin")]_vars
  <2>1. SUFFICES ASSUME Inv, [Next]_vars, NEW e \in Env, Live(env[e]), env[e].protected,
                        KeysOf(e)' # KeysOf(e) \/ ~(GrantsOf(e)' \subseteq GrantsOf(e))
                 PROVE  \E r \in Request : ByAdmin(r, e)
    BY DEF ByAdmin
  <2>2. Contents(e)' # Contents(e)
    BY <2>1 DEF Contents
  <2>. QED
    BY <2>1, <2>2, StepsGuarded DEF Guarded
<1>. QED
  BY <1>1, InitInv, NextInv, PTL DEF Spec, ProtectedKeysGuarded
=============================================================================

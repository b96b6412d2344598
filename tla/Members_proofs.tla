--------------------------- MODULE Members_proofs ---------------------------
(***************************************************************************)
(* Theorems about accounts and memberships, for any number of users,       *)
(* organizations, rows and requests.                                       *)
(***************************************************************************)
EXTENDS Members, TLAPS

-----------------------------------------------------------------------------
(* What a request at a statement has: the locals the statement reads, the   *)
(* rights it was let through with, and, once the row was found in the       *)
(* organization of the path, that it is that organization's for ever.       *)
Entitled(q) == q.op \in Operation /\ Authorize(q.roles, q.op.org, "admin")

Placed(q) ==
  /\ q.pc \in {"found", "load"} => q.user \in User
  /\ q.pc = "load" => q.op \in Operation
  /\ q.pc = "insert" => Entitled(q) /\ q.op.kind = "add"
  /\ q.pc \in {"target", "count", "write"} => Entitled(q) /\ q.op.kind \in {"update", "remove"}

Found(q) == q.pc \in {"count", "write"} => member[q.op.on].org = q.op.org

Inv ==
  /\ TypeOK
  /\ \A r \in Request : Placed(req[r]) /\ Found(req[r])

-----------------------------------------------------------------------------
(* What the kind of an operation says of its fields. *)
LEMMA OperationFields ==
  \A op \in Operation :
    /\ op.kind \in {"found", "add", "update", "remove"}
    /\ op.kind = "add" => op.org \in Org /\ op.on \in User /\ op.role \in Role
    /\ op.kind \in {"update", "remove"} => op.org \in Org /\ op.on \in Member
    /\ op.kind = "update" => op.role \in Role
<1>. SUFFICES ASSUME NEW op \in Operation
              PROVE  /\ op.kind \in {"found", "add", "update", "remove"}
                     /\ op.kind = "add" => op.org \in Org /\ op.on \in User /\ op.role \in Role
                     /\ op.kind \in {"update", "remove"} => op.org \in Org /\ op.on \in Member
                     /\ op.kind = "update" => op.role \in Role
  OBVIOUS
<1>1. \/ op \in [kind : {"found"}, org : {None}, on : {None}, role : {None}]
      \/ op \in [kind : {"add"}, org : Org, on : User, role : Role]
      \/ op \in [kind : {"update"}, org : Org, on : Member, role : Role]
      \/ op \in [kind : {"remove"}, org : Org, on : Member, role : {None}]
  BY DEF Operation
<1>. QED
  BY <1>1

(* A request that is not there is well placed. *)
LEMMA IdlePlaced == Idle \in RequestState /\ Placed(Idle) /\ Found(Idle)
BY DEF Idle, RequestState, Placed, Found

(* A request moves on, and the tables stay: what it knows is all there is   *)
(* to show.                                                                 *)
LEMMA OnlyMoves ==
  \A r \in Request : \A q \in RequestState :
    Inv /\ Placed(q) /\ Found(q) /\ req' = [req EXCEPT ![r] = q] /\ UNCHANGED tables => Inv'
<1>. SUFFICES ASSUME NEW r \in Request, NEW q \in RequestState, Inv, Placed(q), Found(q),
                     req' = [req EXCEPT ![r] = q], UNCHANGED tables
              PROVE  Inv'
  OBVIOUS
<1>1. /\ users' = users /\ orgs' = orgs /\ member' = member /\ session' = session
      /\ req' \in [Request -> RequestState]
      /\ req'[r] = q /\ \A s \in Request : s # r => req'[s] = req[s]
  BY DEF tables, Inv, TypeOK
<1>2. TypeOK'
  BY <1>1 DEF Inv, TypeOK, Live
<1>3. ASSUME NEW s \in Request
      PROVE  Placed(req'[s]) /\ Found(req[s])'
  BY <1>1 DEF Inv, Found
<1>. QED
  BY <1>2, <1>3 DEF Inv, Placed, Entitled, Authorize

(* A request ends or moves to another statement with the same locals. *)
LEMMA Moves ==
  \A r \in Request : TypeOK =>
    /\ Reply(r) => req' = [req EXCEPT ![r] = Idle]
    /\ \A pc \in {"target", "count", "write"} : Goto(r, pc) =>
         \E q \in RequestState :
           /\ req' = [req EXCEPT ![r] = q]
           /\ q.pc = pc /\ q.op = req[r].op /\ q.roles = req[r].roles /\ q.user = req[r].user
<1>. SUFFICES ASSUME NEW r \in Request, TypeOK, NEW pc \in {"target", "count", "write"},
                     Goto(r, pc)
              PROVE  \E q \in RequestState :
                       /\ req' = [req EXCEPT ![r] = q]
                       /\ q.pc = pc /\ q.op = req[r].op /\ q.roles = req[r].roles
                       /\ q.user = req[r].user
  BY DEF Reply
<1>1. PICK q : q = [req[r] EXCEPT !.pc = pc]
  OBVIOUS
<1>2. req[r] \in RequestState
  BY DEF TypeOK
<1>3. /\ q \in RequestState
      /\ q.pc = pc /\ q.op = req[r].op /\ q.roles = req[r].roles /\ q.user = req[r].user
  BY <1>1, <1>2 DEF RequestState
<1>. QED
  BY <1>1, <1>3 DEF Goto

-----------------------------------------------------------------------------
(* Changing one row: no row changes its organization or its user, and no    *)
(* two live rows are of the same.                                           *)
RowsKept ==
  /\ member' \in [Member -> MemberRow]
  /\ \A m \in Member : member[m].org # None => member'[m].org = member[m].org
  /\ \A m, n \in Member :
       /\ member'[m].st = "live" /\ member'[n].st = "live"
       /\ member'[m].org = member'[n].org /\ member'[m].user = member'[n].user
       => m = n

(* What is typed of the tables, after a step that keeps the rows and ends a *)
(* request.                                                                 *)
LEMMA EndsWithRowsKept ==
  \A r \in Request :
    Inv /\ RowsKept /\ Reply(r) /\ users' = users /\ orgs' \subseteq Org /\ session' = session
      => Inv'
<1>. SUFFICES ASSUME NEW r \in Request, Inv, RowsKept, Reply(r), users' = users,
                     orgs' \subseteq Org, session' = session
              PROVE  Inv'
  OBVIOUS
<1>1. /\ req' \in [Request -> RequestState]
      /\ req'[r] = Idle /\ \A s \in Request : s # r => req'[s] = req[s]
  BY IdlePlaced DEF Reply, Inv, TypeOK
<1>2. TypeOK'
  BY <1>1 DEF Inv, TypeOK, RowsKept, Live
<1>3. ASSUME NEW s \in Request
      PROVE  Placed(req'[s]) /\ Found(req[s])'
  <2>1. CASE s = r
    BY <1>1, <2>1 DEF Idle, Placed, Found
  <2>2. CASE s # r
    <3>1. Placed(req'[s])
      BY <1>1, <2>2 DEF Inv
    <3>2. ASSUME req[s].pc \in {"count", "write"}
          PROVE  member'[req[s].op.on].org = req[s].op.org
      <4>1. req[s].op.on \in Member /\ req[s].op.org \in Org
        BY <3>2, OperationFields DEF Inv, Placed, Entitled
      <4>2. member[req[s].op.on].org = req[s].op.org
        BY <3>2 DEF Inv, Found
      <4>. QED
        BY <4>1, <4>2, ConstantsAssumption DEF RowsKept
    <3>. QED
      BY <1>1, <2>2, <3>1, <3>2 DEF Found
  <2>. QED
    BY <2>1, <2>2
<1>. QED
  BY <1>2, <1>3 DEF Inv, Placed, Entitled, Authorize

(* An insert respects the unique index. *)
LEMMA InsertKeeps ==
  \A m \in Member : \A o \in Org : \A u \in User : \A role \in Role :
    TypeOK /\ Insert(m, o, u, role) =>
      /\ RowsKept
      /\ member'[m].org = o
      /\ \A n \in Member : n # m => member'[n] = member[n]
<1>. SUFFICES ASSUME NEW m \in Member, NEW o \in Org, NEW u \in User, NEW role \in Role,
                     TypeOK, Insert(m, o, u, role)
              PROVE  /\ RowsKept
                     /\ member'[m].org = o
                     /\ \A n \in Member : n # m => member'[n] = member[n]
  OBVIOUS
<1>1. PICK row : row = [st |-> "live", org |-> o, user |-> u, role |-> role]
  OBVIOUS
<1>2. row \in MemberRow /\ row.st = "live" /\ row.org = o /\ row.user = u
  BY <1>1 DEF MemberRow
<1>3. /\ member' \in [Member -> MemberRow]
      /\ member'[m] = row /\ \A n \in Member : n # m => member'[n] = member[n]
  BY <1>1, <1>2 DEF Insert, TypeOK
<1>4. member[m].org = None
  BY DEF Insert, Unborn
<1>5. RowsKept
  <2>1. ASSUME NEW n \in Member, member[n].org # None
        PROVE  member'[n].org = member[n].org
    BY <1>3, <1>4, <2>1
  <2>2. ASSUME NEW j \in Member, NEW n \in Member,
               member'[j].st = "live", member'[n].st = "live",
               member'[j].org = member'[n].org, member'[j].user = member'[n].user
        PROVE  j = n
    BY <1>2, <1>3, <2>2 DEF TypeOK, Insert, Live
  <2>. QED
    BY <1>3, <2>1, <2>2 DEF RowsKept
<1>. QED
  BY <1>2, <1>3, <1>5

(* What a write does to the row it names, if it is there. *)
LEMMA WriteKeeps ==
  \A r \in Request :
    Inv /\ Write(r) =>
      /\ RowsKept
      /\ \A n \in Member : n # req[r].op.on => member'[n] = member[n]
      /\ member'[req[r].op.on].org = req[r].op.org
<1>. SUFFICES ASSUME NEW r \in Request, Inv, Write(r)
              PROVE  /\ RowsKept
                     /\ \A n \in Member : n # req[r].op.on => member'[n] = member[n]
                     /\ member'[req[r].op.on].org = req[r].op.org
  OBVIOUS
<1>. DEFINE op == req[r].op
            m == op.on
<1>1. op \in Operation /\ op.kind \in {"update", "remove"} /\ m \in Member /\ op.org \in Org
  BY OperationFields DEF Write, Inv, Placed, Entitled
<1>2. member[m].org = op.org
  BY DEF Write, Inv, Found
<1>3. TypeOK /\ member[m] \in MemberRow
  BY <1>1 DEF Inv, TypeOK
<1>4. CASE ~Live(m)
  <2>1. member' = member
    BY <1>4 DEF Write
  <2>. QED
    BY <1>2, <1>3, <2>1 DEF RowsKept, TypeOK, Live
<1>5. CASE Live(m)
  <2>1. member[m] \in [st : {"live", "gone"}, org : Org, user : User, role : Role]
    BY <1>3, <1>5 DEF Live, MemberRow, Unborn
  <2>2. PICK row \in MemberRow :
               /\ member' = [member EXCEPT ![m] = row]
               /\ row.org = member[m].org /\ row.user = member[m].user
    <3>1. CASE op.kind = "remove"
      <4>1. PICK row : row = [member[m] EXCEPT !.st = "gone"]
        OBVIOUS
      <4>2. row \in MemberRow /\ row.org = member[m].org /\ row.user = member[m].user
        BY <2>1, <4>1 DEF MemberRow
      <4>3. member' = [member EXCEPT ![m] = row]
        BY <1>5, <3>1, <4>1 DEF Write
      <4>. QED
        BY <4>2, <4>3
    <3>2. CASE op.kind = "update"
      <4>1. PICK row : row = [member[m] EXCEPT !.role = op.role]
        OBVIOUS
      <4>2. op.role \in Role
        BY <1>1, <3>2, OperationFields
      <4>3. row \in MemberRow /\ row.org = member[m].org /\ row.user = member[m].user
        BY <2>1, <4>1, <4>2 DEF MemberRow
      <4>4. member' = [member EXCEPT ![m] = row]
        BY <1>5, <3>2, <4>1 DEF Write
      <4>. QED
        BY <4>3, <4>4
    <3>. QED
      BY <1>1, <3>1, <3>2
  <2>3. /\ member' \in [Member -> MemberRow] /\ member'[m] = row
        /\ \A n \in Member : n # m => member'[n] = member[n]
    BY <1>1, <1>3, <2>2 DEF TypeOK
  <2>4. ASSUME NEW j \in Member, NEW n \in Member,
               member'[j].st = "live", member'[n].st = "live",
               member'[j].org = member'[n].org, member'[j].user = member'[n].user
        PROVE  j = n
    BY <1>3, <1>5, <2>2, <2>3, <2>4 DEF TypeOK, Live
  <2>5. RowsKept
    BY <2>2, <2>3, <2>4 DEF RowsKept
  <2>. QED
    BY <1>2, <2>2, <2>3, <2>5
<1>. QED
  BY <1>4, <1>5

-----------------------------------------------------------------------------
(* Initially there is no one. *)
LEMMA InitInv == Init => Inv
BY IdlePlaced DEF Init, Inv, TypeOK, MemberRow, Unborn, Live, Found

(* Registering, and what sessions do. *)
LEMMA UserSteps ==
  Inv /\ (\/ \E u \in User : Login(u) \/ Expire(u)
          \/ \E r \in Request, u \in User : Register(r, u)
          \/ \E r \in Request, u \in User, op \in Operation : Arrive(r, u, op))
    => Inv'
<1>. SUFFICES ASSUME Inv,
                     \/ \E u \in User : Login(u) \/ Expire(u)
                     \/ \E r \in Request, u \in User : Register(r, u)
                     \/ \E r \in Request, u \in User, op \in Operation : Arrive(r, u, op)
              PROVE  Inv'
  OBVIOUS
<1>1. ASSUME NEW u \in User, Login(u) \/ Expire(u)
      PROVE  Inv'
  <2>1. users' = users /\ orgs' = orgs /\ member' = member /\ req' = req /\ session' \subseteq users
    BY <1>1 DEF Login, Expire, Inv, TypeOK
  <2>2. TypeOK'
    BY <2>1 DEF Inv, TypeOK, Live
  <2>. QED
    BY <2>1, <2>2 DEF Inv, Placed, Entitled, Authorize, Found
<1>2. ASSUME NEW r \in Request, NEW u \in User, Register(r, u)
      PROVE  Inv'
  <2>1. PICK q : q = [req[r] EXCEPT !.pc = "found", !.user = u]
    OBVIOUS
  <2>2. q \in RequestState /\ q.pc = "found" /\ q.user = u
    BY <1>2, <2>1, IdlePlaced DEF Register, RequestState
  <2>3. Placed(q) /\ Found(q)
    BY <2>2 DEF Placed, Found
  <2>4. /\ users' = users \cup {u} /\ orgs' = orgs /\ member' = member /\ session' = session
        /\ req' = [req EXCEPT ![r] = q]
    BY <1>2, <2>1 DEF Register
  <2>5. /\ req' \in [Request -> RequestState]
        /\ req'[r] = q /\ \A s \in Request : s # r => req'[s] = req[s]
    BY <2>2, <2>4 DEF Inv, TypeOK
  <2>6. TypeOK'
    BY <2>4, <2>5 DEF Inv, TypeOK, Live
  <2>7. ASSUME NEW s \in Request
        PROVE  Placed(req'[s]) /\ Found(req[s])'
    BY <2>3, <2>4, <2>5 DEF Inv, Found
  <2>. QED
    BY <2>6, <2>7 DEF Inv, Placed, Entitled, Authorize
<1>3. ASSUME NEW r \in Request, NEW u \in User, NEW op \in Operation, Arrive(r, u, op)
      PROVE  Inv'
  <2>1. PICK q : q = [req[r] EXCEPT !.pc = "load", !.user = u, !.op = op]
    OBVIOUS
  <2>2. q \in RequestState /\ q.pc = "load" /\ q.user = u /\ q.op = op
    BY <1>3, <2>1, IdlePlaced DEF Arrive, RequestState
  <2>3. Placed(q) /\ Found(q)
    BY <2>2 DEF Placed, Found
  <2>4. req' = [req EXCEPT ![r] = q]
    BY <1>3, <2>1 DEF Arrive, Inv, TypeOK
  <2>. QED
    BY <1>3, <2>2, <2>3, <2>4, OnlyMoves DEF Arrive
<1>. QED
  BY <1>1, <1>2, <1>3

(* A request is admitted, or not. *)
LEMMA LoadStep == \A r \in Request : Inv /\ Load(r) => Inv'
<1>. SUFFICES ASSUME NEW r \in Request, Inv, Load(r)
              PROVE  Inv'
  OBVIOUS
<1>1. /\ TypeOK /\ req[r] \in RequestState /\ req[r].user \in User /\ req[r].op \in Operation
      /\ UNCHANGED tables
  BY DEF Load, Inv, TypeOK, Placed
<1>2. PICK roles \in {RolesOf(req[r].user)} \cup {Idle.roles} :
             IF Admissible(req[r].op, roles)
               THEN req' = [req EXCEPT ![r].pc = FirstStatement[req[r].op.kind], ![r].roles = roles]
               ELSE Reply(r)
  BY DEF Load
<1>3. roles \in [Org -> Role \cup {None}]
  <2>1. Idle.roles \in [Org -> Role \cup {None}]
    BY DEF Idle
  <2>2. ASSUME NEW o \in Org, NEW u,
               \E m \in Member : Live(m) /\ member[m].org = o /\ member[m].user = u
        PROVE  member[CHOOSE m \in Member :
                        Live(m) /\ member[m].org = o /\ member[m].user = u].role \in Role
    <3>1. PICK m \in Member : m = CHOOSE n \in Member :
                                    Live(n) /\ member[n].org = o /\ member[n].user = u
      BY <2>2
    <3>2. Live(m)
      BY <2>2, <3>1
    <3>3. member[m] \in MemberRow
      BY <1>1 DEF TypeOK
    <3>. QED
      BY <3>1, <3>2, <3>3 DEF Live, MemberRow, Unborn
  <2>3. RolesOf(req[r].user) \in [Org -> Role \cup {None}]
    BY <2>2 DEF RolesOf
  <2>. QED
    BY <1>2, <2>1, <2>3
<1>4. CASE ~Admissible(req[r].op, roles)
  BY <1>1, <1>2, <1>4, IdlePlaced, OnlyMoves DEF Reply
<1>5. CASE Admissible(req[r].op, roles)
  <2>1. PICK q : q = [req[r] EXCEPT !.pc = FirstStatement[req[r].op.kind], !.roles = roles]
    OBVIOUS
  <2>2. req' = [req EXCEPT ![r] = q]
    BY <1>1, <1>2, <1>5, <2>1 DEF TypeOK
  <2>3. /\ req[r].op.kind \in {"found", "add", "update", "remove"}
        /\ req[r].op.kind # "found" => Authorize(roles, req[r].op.org, "admin")
    BY <1>1, <1>5, OperationFields DEF Admissible
  <2>4. /\ FirstStatement[req[r].op.kind] \in {"found", "insert", "target"}
        /\ FirstStatement[req[r].op.kind] = "insert" => req[r].op.kind = "add"
        /\ FirstStatement[req[r].op.kind] = "target" => req[r].op.kind \in {"update", "remove"}
    BY <2>3 DEF FirstStatement
  <2>5. /\ q \in RequestState /\ q.pc = FirstStatement[req[r].op.kind] /\ q.roles = roles
        /\ q.op = req[r].op /\ q.user = req[r].user
    BY <1>1, <1>3, <2>1, <2>4 DEF RequestState
  <2>6. Placed(q) /\ Found(q)
    BY <1>1, <2>3, <2>4, <2>5 DEF Placed, Found, Entitled
  <2>. QED
    BY <1>1, <2>2, <2>5, <2>6, OnlyMoves
<1>. QED
  BY <1>4, <1>5

(* The row is looked up, the owners are counted. *)
LEMMA CheckSteps == \A r \in Request : Inv /\ (Target(r) \/ Count(r) \/ Fail(r)) => Inv'
<1>. SUFFICES ASSUME NEW r \in Request, Inv, Target(r) \/ Count(r) \/ Fail(r)
              PROVE  Inv'
  OBVIOUS
<1>1. UNCHANGED tables /\ TypeOK /\ Placed(req[r]) /\ Found(req[r])
  BY DEF Target, Count, Fail, Inv
<1>2. CASE Reply(r)
  BY <1>1, <1>2, IdlePlaced, OnlyMoves DEF Reply
<1>3. CASE ~Reply(r) /\ Target(r)
  <2>1. MemberInOrg(req[r].op) /\ (Goto(r, "count") \/ Goto(r, "write"))
    BY <1>3 DEF Target
  <2>2. PICK q \in RequestState :
               /\ req' = [req EXCEPT ![r] = q]
               /\ q.pc \in {"count", "write"} /\ q.op = req[r].op /\ q.roles = req[r].roles
    BY <1>1, <2>1, Moves
  <2>3. Placed(q) /\ Found(q)
    BY <1>1, <1>3, <2>1, <2>2 DEF Target, Placed, Found, Entitled, MemberInOrg
  <2>. QED
    BY <1>1, <2>2, <2>3, OnlyMoves
<1>4. CASE ~Reply(r) /\ Count(r)
  <2>1. PICK q \in RequestState :
               /\ req' = [req EXCEPT ![r] = q]
               /\ q.pc = "write" /\ q.op = req[r].op /\ q.roles = req[r].roles
    BY <1>1, <1>4, Moves DEF Count
  <2>2. Placed(q) /\ Found(q)
    BY <1>1, <1>4, <2>1 DEF Count, Placed, Found, Entitled
  <2>. QED
    BY <1>1, <2>1, <2>2, OnlyMoves
<1>. QED
  BY <1>2, <1>3, <1>4 DEF Fail

(* The steps that change memberships. *)
LEMMA WriteSteps ==
  \A r \in Request :
    Inv /\ (\/ \E o \in Org, m \in Member : FoundOrg(r, o, m)
            \/ \E m \in Member : AddMember(r, m)
            \/ Write(r))
      => Inv'
<1>. SUFFICES ASSUME NEW r \in Request, Inv,
                     \/ \E o \in Org, m \in Member : FoundOrg(r, o, m)
                     \/ \E m \in Member : AddMember(r, m)
                     \/ Write(r)
              PROVE  Inv'
  OBVIOUS
<1>1. TypeOK /\ Placed(req[r])
  BY DEF Inv
<1>2. ASSUME NEW o \in Org, NEW m \in Member, FoundOrg(r, o, m)
      PROVE  Inv'
  <2>1. req[r].user \in User /\ "owner" \in Role
    BY <1>1, <1>2, ConstantsAssumption DEF FoundOrg, Placed
  <2>2. RowsKept
    BY <1>1, <1>2, <2>1, InsertKeeps DEF FoundOrg
  <2>. QED
    BY <1>1, <1>2, <2>2, EndsWithRowsKept DEF FoundOrg, TypeOK
<1>3. ASSUME NEW m \in Member, AddMember(r, m)
      PROVE  Inv'
  <2>1. req[r].op.org \in Org /\ req[r].op.on \in User /\ req[r].op.role \in Role
    BY <1>1, <1>3, OperationFields DEF AddMember, Placed, Entitled
  <2>2. RowsKept
    BY <1>1, <1>3, <2>1, InsertKeeps DEF AddMember
  <2>. QED
    BY <1>1, <1>3, <2>2, EndsWithRowsKept DEF AddMember, TypeOK
<1>4. CASE Write(r)
  BY <1>1, <1>4, WriteKeeps, EndsWithRowsKept DEF Write, TypeOK
<1>. QED
  BY <1>2, <1>3, <1>4

(* The invariant is inductive. *)
LEMMA NextInv == Inv /\ [Next]_vars => Inv'
<1>. SUFFICES ASSUME Inv, [Next]_vars
              PROVE  Inv'
  OBVIOUS
<1>1. CASE UNCHANGED vars
  BY <1>1 DEF vars, Inv, TypeOK, Live, Placed, Entitled, Authorize, Found
<1>2. CASE Next
  BY <1>2, UserSteps, LoadStep, CheckSteps, WriteSteps DEF Next
<1>. QED
  BY <1>1, <1>2

-----------------------------------------------------------------------------
(* Every reachable state of users and memberships is well typed; no user is *)
(* twice in an organization.                                                *)
THEOREM MembersTypeCorrect == Spec => []TypeOK
<1>1. Inv => TypeOK
  BY DEF Inv
<1>. QED
  BY <1>1, InitInv, NextInv, PTL DEF Spec

(* Every step that changes a membership is the first of a new organization  *)
(* or the request of an admin of the row's organization.                    *)
LEMMA StepsAuthorized ==
  Inv /\ [Next]_vars =>
    \A m \in Member : member'[m] # member[m] =>
      \/ member'[m].org \notin orgs
      \/ \E r \in Request : /\ req'[r] # req[r]
                            /\ Authorize(req[r].roles, member'[m].org, "admin")
<1>. SUFFICES ASSUME Inv, [Next]_vars, NEW m \in Member, member'[m] # member[m]
              PROVE  \/ member'[m].org \notin orgs
                     \/ \E r \in Request : /\ req'[r] # req[r]
                                           /\ Authorize(req[r].roles, member'[m].org, "admin")
  OBVIOUS
<1>1. TypeOK
  BY DEF Inv
<1>2. ASSUME NEW r \in Request, NEW o \in Org, NEW n \in Member, FoundOrg(r, o, n)
      PROVE  member'[m].org \notin orgs
  <2>1. req[r].user \in User /\ "owner" \in Role
    BY <1>2, ConstantsAssumption DEF FoundOrg, Inv, Placed
  <2>2. member'[n].org = o /\ \A k \in Member : k # n => member'[k] = member[k]
    BY <1>1, <1>2, <2>1, InsertKeeps DEF FoundOrg
  <2>. QED
    BY <1>2, <2>2 DEF FoundOrg
<1>3. ASSUME NEW r \in Request, NEW n \in Member, AddMember(r, n)
      PROVE  req'[r] # req[r] /\ Authorize(req[r].roles, member'[m].org, "admin")
  <2>1. /\ req[r].op.org \in Org /\ req[r].op.on \in User /\ req[r].op.role \in Role
        /\ Authorize(req[r].roles, req[r].op.org, "admin")
    BY <1>3, OperationFields DEF AddMember, Inv, Placed, Entitled
  <2>2. member'[n].org = req[r].op.org /\ \A k \in Member : k # n => member'[k] = member[k]
    BY <1>1, <1>3, <2>1, InsertKeeps DEF AddMember
  <2>3. req'[r].pc = "idle" /\ req[r].pc = "insert"
    BY <1>1, <1>3 DEF AddMember, Reply, TypeOK, Idle
  <2>. QED
    BY <2>1, <2>2, <2>3
<1>4. ASSUME NEW r \in Request, Write(r)
      PROVE  req'[r] # req[r] /\ Authorize(req[r].roles, member'[m].org, "admin")
  <2>1. Authorize(req[r].roles, req[r].op.org, "admin")
    BY <1>4 DEF Write, Inv, Placed, Entitled
  <2>2. /\ member'[req[r].op.on].org = req[r].op.org
        /\ \A n \in Member : n # req[r].op.on => member'[n] = member[n]
    BY <1>4, WriteKeeps
  <2>3. req'[r].pc = "idle" /\ req[r].pc = "write"
    BY <1>1, <1>4 DEF Write, Reply, TypeOK, Idle
  <2>. QED
    BY <2>1, <2>2, <2>3
<1>5. \/ UNCHANGED member
      \/ \E r \in Request : \/ \E o \in Org, n \in Member : FoundOrg(r, o, n)
                            \/ \E n \in Member : AddMember(r, n)
                            \/ Write(r)
  BY DEF Next, vars, tables, Login, Expire, Register, Arrive, Load, Target, Count, Fail
<1>. QED
  BY <1>2, <1>3, <1>4, <1>5

(* Memberships change only by an admin of the row's own organization, found *)
(* to be one on admission, whatever path and row the request combines.      *)
THEOREM MembershipsChangeByAdmins == Spec => ChangesAuthorized
BY InitInv, NextInv, StepsAuthorized, PTL DEF Spec, ChangesAuthorized
=============================================================================

------------------------------ MODULE Members ------------------------------
(***************************************************************************)
(* The management plane's accounts: users register and log in, found       *)
(* organizations, and admins add, re-role and remove members.  A request   *)
(* is authorized by the roles its session had when it was admitted; the    *)
(* row it changes, and the owners it counts, are read by later statements  *)
(* and changed by a statement of their own, by id.                         *)
(*                                                                         *)
(* Grain of atomicity: one SQL statement, or one transaction.  Reading a   *)
(* user's row is no step of its own: no such row is ever deleted, so what  *)
(* was found is still there at the next statement.  Sessions are           *)
(* abstracted to the users who hold an unexpired one: which of his         *)
(* sessions a user presents makes no difference to any handler, and the    *)
(* sweeper only deletes rows that no longer admit anyone.                  *)
(***************************************************************************)
EXTENDS Integers, FiniteSets

CONSTANTS
  User,     \* users.id, one per email
  Org,      \* organizations.id
  Member,   \* memberships.id; a ULID is never drawn twice
  Role,     \* the roles of the instance
  Request,  \* slots for HTTP requests in flight
  None      \* no value

Rank == [viewer |-> 0, member |-> 1, admin |-> 2, owner |-> 3]

ASSUME ConstantsAssumption ==
  /\ Role \subseteq DOMAIN Rank
  /\ "owner" \in Role
  /\ None \notin User \cup Org \cup Member \cup Role

VARIABLES
  users,     \* table users: the ids that exist; none is ever deleted
  orgs,      \* table organizations, likewise
  member,    \* table memberships
  session,   \* the users with an unexpired session
  req        \* local state of every request in flight

vars == <<users, orgs, member, session, req>>
tables == <<users, orgs, member, session>>

-----------------------------------------------------------------------------
(* A row that is gone keeps its data, which nothing reads any more.         *)
Unborn == [st |-> "unborn", org |-> None, user |-> None, role |-> None]
MemberRow ==
  {Unborn} \cup [st : {"live", "gone"}, org : Org, user : User, role : Role]

Live(m) == member[m].st = "live"
OwnersOf(o) == {m \in Member : Live(m) /\ member[m].org = o /\ member[m].role = "owner"}

(* What a request asks for: the path and the payload. *)
Operation ==
  [kind : {"found"}, org : {None}, on : {None}, role : {None}]
    \cup [kind : {"add"}, org : Org, on : User, role : Role]
    \cup [kind : {"update"}, org : Org, on : Member, role : Role]
    \cup [kind : {"remove"}, org : Org, on : Member, role : {None}]
Nothing == [kind |-> "none", org |-> None, on |-> None, role |-> None]

(* roles: the memberships of CurrentUser, as they were read on admission.   *)
RequestState ==
  [pc : {"idle", "found", "load", "insert", "target", "count", "write"},
   user : User \cup {None}, op : Operation \cup {Nothing},
   roles : [Org -> Role \cup {None}]]
Idle == [pc |-> "idle", user |-> None, op |-> Nothing, roles |-> [o \in Org |-> None]]

(* The last conjunct is the unique index on (org_id, user_id). *)
TypeOK ==
  /\ users \subseteq User /\ orgs \subseteq Org /\ session \subseteq users
  /\ member \in [Member -> MemberRow]
  /\ req \in [Request -> RequestState]
  /\ \A m, n \in Member :
       Live(m) /\ Live(n) /\ member[m].org = member[n].org /\ member[m].user = member[n].user
         => m = n

Init ==
  /\ users = {} /\ orgs = {} /\ session = {}
  /\ member = [m \in Member |-> Unborn]
  /\ req = [r \in Request |-> Idle]

-----------------------------------------------------------------------------
Reply(r) == req' = [req EXCEPT ![r] = Idle]
Goto(r, pc) == req' = [req EXCEPT ![r].pc = pc]

(* POST /v1/auth/register: the user, his organization and the session are   *)
(* three statements with no transaction around them.  The third is Login's. *)
Register(r, u) ==
  /\ req[r] = Idle /\ u \notin users
  /\ users' = users \cup {u}
  /\ req' = [req EXCEPT ![r].pc = "found", ![r].user = u]
  /\ UNCHANGED <<orgs, member, session>>

InsertAnyway(m, o, u, role) ==   \* mutant: no unique index
  /\ member[m] = Unborn
  /\ member' = [member EXCEPT ![m] = [st |-> "live", org |-> o, user |-> u, role |-> role]]

Insert(m, o, u, role) ==
  /\ member[m] = Unborn
  /\ \A n \in Member : ~(Live(n) /\ member[n].org = o /\ member[n].user = u)
  /\ member' = [member EXCEPT ![m] = [st |-> "live", org |-> o, user |-> u, role |-> role]]

(* createOrgWithOwner, for register and for POST /v1/orgs. *)
FoundOrg(r, o, m) ==
  /\ req[r].pc = "found" /\ o \notin orgs
  /\ orgs' = orgs \cup {o}
  /\ Insert(m, o, req[r].user, "owner")
  /\ Reply(r)
  /\ UNCHANGED <<users, session>>

Login(u) ==
  /\ u \in users
  /\ session' = session \cup {u}
  /\ UNCHANGED <<users, orgs, member, req>>

Expire(u) ==
  /\ u \in session
  /\ session' = session \ {u}
  /\ UNCHANGED <<users, orgs, member, req>>

-----------------------------------------------------------------------------
(* validateSession: the session, then the memberships of its user; when     *)
(* they cannot be read the user has none.                                   *)
Arrive(r, u, op) ==
  /\ req[r] = Idle /\ u \in session
  /\ req' = [req EXCEPT ![r].pc = "load", ![r].user = u, ![r].op = op]
  /\ UNCHANGED tables

RolesOf(u) ==
  [o \in Org |->
     IF \E m \in Member : Live(m) /\ member[m].org = o /\ member[m].user = u
       THEN member[CHOOSE m \in Member :
                     Live(m) /\ member[m].org = o /\ member[m].user = u].role
       ELSE None]

Authorize(roles, o, min) == roles[o] # None /\ Rank[roles[o]] >= Rank[min]

AdmissibleToAll(op, roles) ==   \* mutant: only granting ownership is checked
  op.kind = "add" /\ op.role = "owner" => Authorize(roles, op.org, "owner")

(* The checks the handlers make before their first statement. *)
Admissible(op, roles) ==
  \/ op.kind = "found"
  \/ /\ Authorize(roles, op.org, "admin")
     /\ op.kind = "add" /\ op.role = "owner" => Authorize(roles, op.org, "owner")

FirstStatement == [found |-> "found", add |-> "insert", update |-> "target", remove |-> "target"]

Load(r) ==
  /\ req[r].pc = "load"
  /\ \E roles \in {RolesOf(req[r].user)} \cup {Idle.roles} :
       IF Admissible(req[r].op, roles)
         THEN req' = [req EXCEPT ![r].pc = FirstStatement[req[r].op.kind], ![r].roles = roles]
         ELSE Reply(r)
  /\ UNCHANGED tables

(* addMember: findUserByEmail and the insert. *)
AddMember(r, m) ==
  /\ req[r].pc = "insert" /\ req[r].op.on \in users
  /\ Insert(m, req[r].op.org, req[r].op.on, req[r].op.role)
  /\ Reply(r)
  /\ UNCHANGED <<users, orgs, session>>

-----------------------------------------------------------------------------
(* updateMember and removeMember: the row, the owners, the change.          *)
MemberInOrg(op) == Live(op.on) /\ member[op.on].org = op.org

Demotes(op) == member[op.on].role = "owner" /\ op.role # "owner"

OwnerNeeded(op) == member[op.on].role = "owner" \/ op.role = "owner"

Target(r) ==
  LET op == req[r].op IN
  /\ req[r].pc = "target"
  /\ IF /\ MemberInOrg(op)
        /\ OwnerNeeded(op) => Authorize(req[r].roles, op.org, "owner")
       THEN Goto(r, IF Demotes(op) THEN "count" ELSE "write")
       ELSE Reply(r)
  /\ UNCHANGED tables

NotLastOwner(o) == Cardinality(OwnersOf(o)) > 1

Count(r) ==
  /\ req[r].pc = "count"
  /\ IF NotLastOwner(req[r].op.org) THEN Goto(r, "write") ELSE Reply(r)
  /\ UNCHANGED tables

(* Both statements name the row by its id alone, and do nothing when it is  *)
(* gone.                                                                    *)
Write(r) ==
  LET op == req[r].op IN
  /\ req[r].pc = "write"
  /\ member' = IF ~Live(op.on) THEN member
               ELSE IF op.kind = "remove" THEN [member EXCEPT ![op.on].st = "gone"]
               ELSE [member EXCEPT ![op.on].role = op.role]
  /\ Reply(r)
  /\ UNCHANGED <<users, orgs, session>>

(* A statement fails or finds nothing, a unique index refuses the insert,   *)
(* or the instance stops: the request ends with what it has done so far.    *)
Fail(r) ==
  /\ req[r] # Idle
  /\ Reply(r)
  /\ UNCHANGED tables

-----------------------------------------------------------------------------
Next ==
  \/ \E u \in User : Login(u) \/ Expire(u)
  \/ \E r \in Request :
       \/ \E u \in User : Register(r, u)
       \/ \E u \in User, op \in Operation : Arrive(r, u, op)
       \/ \E o \in Org, m \in Member : FoundOrg(r, o, m)
       \/ \E m \in Member : AddMember(r, m)
       \/ Load(r) \/ Target(r) \/ Count(r) \/ Write(r) \/ Fail(r)

Spec == Init /\ [][Next]_vars

-----------------------------------------------------------------------------
(* An organization always has an owner: no order of demotions and removals  *)
(* leaves it with none (assertNotLastOwner, management.ts:391).  True when   *)
(* requests come one at a time; two of them can each count the other's      *)
(* owner.                                                                   *)
OwnerRemains == \A o \in orgs : OwnersOf(o) # {}

(* A membership row appears, changes its role or goes only by a request     *)
(* whose user was at least an admin of the organization of that very row    *)
(* when the request was admitted, whatever organization the path names; or  *)
(* as the first row of a new organization (management.ts:97-130, 376).      *)
ChangesAuthorized ==
  [][\A m \in Member : member'[m] # member[m] =>
       \/ member'[m].org \notin orgs
       \/ \E r \in Request : /\ req'[r] # req[r]
                             /\ Authorize(req[r].roles, member'[m].org, "admin")]_vars

(* A step that makes someone an owner, or takes the role from one, is a     *)
(* request's whose user was an owner of that organization (management.ts:   *)
(* 100, 109).  True when requests come one at a time; the row an admin was  *)
(* allowed to touch may have become an owner's since it was read.           *)
OwnersTouchOwners ==
  [][\A m \in Member :
       (member'[m] # member[m] /\ "owner" \in {member[m].role, member'[m].role}) =>
         \/ member'[m].org \notin orgs
         \/ \E r \in Request : /\ req'[r] # req[r]
                               /\ Authorize(req[r].roles, member'[m].org, "owner")]_vars

(* Someone who registered has founded an organization, unless the request   *)
(* is still at it (auth.ts:41: user, organization and session are three     *)
(* statements).  False when the second one fails: the email is taken, and   *)
(* its user belongs nowhere.                                                *)
RegistrationWhole ==
  \A u \in users :
    \/ \E m \in Member : member[m].user = u
    \/ \E r \in Request : req[r].pc = "found" /\ req[r].user = u
============================================================================

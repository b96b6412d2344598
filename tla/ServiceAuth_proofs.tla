------------------------- MODULE ServiceAuth_proofs -------------------------
(* Theorems about the retrieval plane, for any number of services, keys,    *)
(* challenges, tokens and concurrent requests, and any lifetimes.           *)
EXTENDS ServiceAuth, TLAPS

(* The facts about constants every step needs. *)
LEMMA Constants ==
  /\ ChallengeTTL \in Nat \ {0} /\ TokenTTL \in Nat \ {0}
  /\ MaxTime \in Nat \ {0} /\ MaxGen \in Nat \ {0}
BY ConstantsAssumption

(* A free slot and an id that was never drawn have their type. *)
LEMMA IdleType == Idle \in RequestState
BY Constants DEF Idle, RequestState, Gen, Time

(* Which locals are set at which statement.                                 *)
TokenPC == {"find", "verify"} \cup PastVerify
ReadPC  == {"resolve"} \cup PastResolve
Located ==
  \A r \in Request :
    /\ req[r].pc \in {"lookup", "draw", "store", "verify"} \cup PastVerify \cup PastResolve
         => req[r].svc \in Service
    /\ req[r].pc \in TokenPC => req[r].ch \in Challenge /\ chal[req[r].ch].st # "unborn"
    /\ req[r].pc \in ReadPC => req[r].tok \in Token /\ tok[req[r].tok].st # "unborn"
    /\ req[r].pc = "issue" => req[r].at <= now

TypeInv == TypeOK /\ Located

(* The initial tables and the empty slots have their types. *)
LEMMA InitType == Init => TypeInv
<1> SUFFICES ASSUME Init PROVE TypeInv
  OBVIOUS
<1>1. service \in [Service -> ServiceRow]
  BY Constants DEF Init, ServiceRow, Gen
<1>2. lapsed \in [Service \X Key -> -TokenTTL .. MaxTime]
  BY Constants DEF Init
<1>4. late \in [Token -> 0 .. MaxTime]
  BY Constants DEF Init
<1>3. Located
  BY DEF Located, Init, Idle, TokenPC, ReadPC, PastVerify, PastResolve
<1>. QED
  BY <1>1, <1>2, <1>3, <1>4, IdleType, Constants DEF Init, TypeInv, TypeOK, ChallengeRow, TokenRow

(* The locals of one request may be replaced by others of the type. *)
LEMMA BecomeType ==
  ASSUME TypeOK, NEW r \in Request, NEW new \in RequestState, Become(r, new)
  PROVE  req' \in [Request -> RequestState]
BY DEF TypeOK, Become

(* Answering a request leaves a well-typed, idle slot. *)
LEMMA ReplyType ==
  ASSUME TypeOK, NEW r \in Request, Reply(r)
  PROVE  req' \in [Request -> RequestState]
BY BecomeType, IdleType DEF Reply

(* What a row holds, for the steps that copy it into a request. *)
LEMMA RowTypes ==
  ASSUME TypeOK
  PROVE  /\ \A s \in Service : service[s].gen \in Gen
         /\ \A c \in Challenge : chal[c].st # "unborn" => chal[c].svc \in Service
         /\ \A t \in Token : tok[t].st # "unborn" =>
              tok[t].svc \in Service /\ tok[t].scope \in SUBSET Key /\ tok[t].exp \in Time
BY DEF TypeOK, ServiceRow, ChallengeRow, TokenRow, UnbornChallenge, UnbornToken

(* Every time a handler computes is within the bound. *)
LEMMA Times ==
  ASSUME TypeOK
  PROVE  now \in Time /\ now + ChallengeTTL \in Time /\ now + TokenTTL \in Time
BY Constants DEF TypeOK, Time

(* Steps of a request change the database in at most one table, and its     *)
(* own locals: the new locals must have the type.                           *)
LEMMA ArriveType ==
  ASSUME TypeOK, NEW r \in Request, Arrive(r)
  PROVE  TypeOK'
<1>0. req[r] \in RequestState
  BY DEF TypeOK
<1>1. ASSUME NEW s \in Service, ChallengeBegin(r, s)
      PROVE  TypeOK'
  <2>1. [req[r] EXCEPT !.pc = "lookup", !.svc = s] \in RequestState
    BY <1>0 DEF RequestState
  <2>. QED
    BY <1>1, <2>1, BecomeType DEF TypeOK, ChallengeBegin, tables, rest
<1>2. ASSUME NEW c \in Challenge, NEW g \in Gen, TokenBegin(r, c, g)
      PROVE  TypeOK'
  <2>1. service[chal[c].svc].gen \in Gen
    BY <1>2, RowTypes DEF TokenBegin
  <2>2. [req[r] EXCEPT !.pc = "find", !.ch = c, !.gen = g,
           !.gen0 = service[chal[c].svc].gen,
           !.live0 = (service[chal[c].svc].st = "active")] \in RequestState
    BY <1>0, <2>1 DEF RequestState
  <2>. QED
    BY <1>2, <2>2, BecomeType DEF TypeOK, TokenBegin, tables, rest
<1>3. ASSUME NEW t \in Token, NEW n \in Key \cup {None}, ReadBegin(r, t, n)
      PROVE  TypeOK'
  <2>1. service[tok[t].svc].gen \in Gen
    BY <1>3, RowTypes DEF ReadBegin
  <2>2. [req[r] EXCEPT !.pc = "resolve", !.tok = t, !.name = n,
           !.gen0 = service[tok[t].svc].gen,
           !.live0 = (service[tok[t].svc].st = "active")] \in RequestState
    BY <1>0, <2>1 DEF RequestState
  <2>. QED
    BY <1>3, <2>2, BecomeType DEF TypeOK, ReadBegin, tables, rest
<1>. QED
  BY <1>1, <1>2, <1>3 DEF Arrive

(* Every statement of a handler keeps the types, one step per statement. *)
LEMMA HandleType ==
  ASSUME TypeInv, NEW r \in Request, Handle(r)
  PROVE  TypeOK'
<1>. DEFINE L == req[r]
<1>0. L \in RequestState /\ TypeOK
  BY DEF TypeInv, TypeOK
<1>1. CASE ChallengeLookup(r)
  <2>1. [req[r] EXCEPT !.pc = "draw"] \in RequestState
    BY <1>0 DEF RequestState
  <2>. QED
    BY <1>0, <1>1, <2>1, BecomeType, ReplyType DEF TypeOK, ChallengeLookup, tables, rest
<1>13. CASE ChallengeDraw(r)
  <2>1. [req[r] EXCEPT !.pc = "store", !.at = now + ChallengeTTL] \in RequestState
    BY <1>0, Times DEF RequestState
  <2>. QED
    BY <1>0, <1>13, <2>1, BecomeType DEF TypeOK, ChallengeDraw, tables, rest
<1>2. CASE ChallengeStore(r)
  <2>1. L.svc \in Service /\ L.at \in Time
    BY <1>0, <1>2 DEF TypeInv, Located, ChallengeStore, RequestState
  <2>2. chal' \in [Challenge -> ChallengeRow]
    BY <1>0, <1>2, <2>1 DEF TypeOK, ChallengeStore, ChallengeRow
  <2>. QED
    BY <1>0, <1>2, <2>2, ReplyType DEF TypeOK, ChallengeStore, rest
<1>3. CASE TokenFind(r)
  <2>1. Usable(L.ch, now) => chal[L.ch].svc \in Service
    BY <1>0, <1>3, RowTypes DEF TypeInv, Located, TokenFind, TokenPC, Usable
  <2>2. Usable(L.ch, now) =>
          [req[r] EXCEPT !.pc = "verify", !.svc = chal[req[r].ch].svc] \in RequestState
    BY <1>0, <2>1 DEF RequestState
  <2>. QED
    BY <1>0, <1>3, <2>2, BecomeType, ReplyType DEF TypeOK, TokenFind, tables, rest
<1>4. CASE TokenVerify(r)
  <2>1. [req[r] EXCEPT !.pc = "consume", !.at = now] \in RequestState
    BY <1>0, Times DEF RequestState
  <2>. QED
    BY <1>0, <1>4, <2>1, BecomeType, ReplyType DEF TypeOK, TokenVerify, tables, rest
<1>5. CASE TokenConsume(r)
  <2>1. L.ch \in Challenge /\ chal[L.ch].st # "unborn"
    BY <1>0, <1>5 DEF TypeInv, Located, TokenConsume, TokenPC, PastVerify
  <2>2. [chal[L.ch] EXCEPT !.st = "consumed"] \in ChallengeRow
    BY <1>0, <2>1 DEF TypeOK, ChallengeRow, UnbornChallenge
  <2>3. [chal EXCEPT ![L.ch].st = "consumed"] \in [Challenge -> ChallengeRow]
    BY <1>0, <2>2 DEF TypeOK
  <2>4. [req[r] EXCEPT !.pc = "scope"] \in RequestState
    BY <1>0 DEF RequestState
  <2>. QED
    BY <1>0, <1>5, <2>3, <2>4, BecomeType, ReplyType DEF TypeOK, TokenConsume, rest
<1>6. CASE TokenScope(r)
  <2>1. [req[r] EXCEPT !.pc = "issue", !.at = now,
           !.scope = {k \in Key : <<req[r].svc, k>> \in granted}] \in RequestState
    BY <1>0, Times DEF RequestState
  <2>. QED
    BY <1>0, <1>6, <2>1, BecomeType, ReplyType DEF TypeOK, TokenScope, tables, rest
<1>14. CASE TokenIssue(r)
  <2>1. L.at <= now /\ L.at \in Nat /\ now \in 0 .. MaxTime
    BY <1>0, <1>14, Constants DEF TypeInv, Located, TokenIssue, RequestState, Time, TypeOK
  <2>2. now - L.at \in 0 .. MaxTime
    BY <2>1, Constants
  <2>3. [req[r] EXCEPT !.pc = "insert", !.at = now + TokenTTL,
           !.late = now - req[r].at] \in RequestState
    BY <1>0, <2>2, Times DEF RequestState
  <2>. QED
    BY <1>0, <1>14, <2>3, BecomeType DEF TypeOK, TokenIssue, tables, rest
<1>7. CASE TokenInsert(r)
  <2>1. L.svc \in Service /\ L.at \in Time /\ L.scope \in SUBSET Key /\ L.ch \in Challenge
        /\ L.late \in 0 .. MaxTime
    BY <1>0, <1>7 DEF TypeInv, Located, TokenInsert, RequestState, TokenPC, PastVerify
  <2>2. /\ tok' \in [Token -> TokenRow] /\ origin' \in [Token -> Challenge \cup {None}]
        /\ late' \in [Token -> 0 .. MaxTime]
    BY <1>0, <1>7, <2>1 DEF TypeOK, TokenInsert, TokenRow
  <2>. QED
    BY <1>0, <1>7, <2>2, ReplyType DEF TypeOK, TokenInsert
<1>8. CASE Resolve(r)
  <2>1. L.tok \in Token /\ tok[L.tok].st # "unborn"
    BY <1>8 DEF TypeInv, Located, Resolve, ReadPC
  <2>2. tok[L.tok].svc \in Service /\ tok[L.tok].scope \in SUBSET Key
        /\ service[tok[L.tok].svc].gen \in Gen
    BY <1>0, <2>1, RowTypes
  <2>3. [req[r] EXCEPT !.pc = "tenant", !.svc = tok[L.tok].svc,
           !.gen = service[tok[L.tok].svc].gen,
           !.scope = tok[L.tok].scope, !.at = now] \in RequestState
    BY <1>0, <2>2, Times DEF RequestState
  <2>. QED
    BY <1>0, <1>8, <2>3, BecomeType, ReplyType DEF TypeOK, Resolve, tables, rest
<1>9. CASE ResolveTenant(r)
  <2>1. [req[r] EXCEPT !.pc = "rows"] \in RequestState
    BY <1>0 DEF RequestState
  <2>. QED
    BY <1>0, <1>9, <2>1, BecomeType, ReplyType DEF TypeOK, ResolveTenant, tables, rest
<1>10. CASE ReadRows(r)
  <2>1. ASSUME NEW selected \in SUBSET Key
        PROVE  [req[r] EXCEPT !.pc = "audit", !.scope = selected] \in RequestState
    BY <1>0 DEF RequestState
  <2>2. PICK rows \in SUBSET Key :
          LET selected == IF req[r].name = None THEN rows ELSE rows \cap {req[r].name} IN
          \/ Become(r, [req[r] EXCEPT !.pc = "audit", !.scope = selected])
          \/ Reply(r)
    BY <1>0, <1>10 DEF ReadRows, TypeOK
  <2>3. req' \in [Request -> RequestState]
    BY <1>0, <2>1, <2>2, BecomeType, ReplyType
  <2>. QED
    BY <1>0, <1>10, <2>3 DEF TypeOK, ReadRows, tables, rest
<1>11. CASE ReadAudit(r)
  <2>1. ASSUME NEW written \in BOOLEAN
        PROVE  [req[r] EXCEPT !.pc = "deliver", !.logged = written] \in RequestState
    BY <1>0 DEF RequestState
  <2>. QED
    BY <1>0, <1>11, <2>1, BecomeType, ConstantsAssumption DEF TypeOK, ReadAudit, tables, rest
<1>12. CASE Deliver(r) \/ Abort(r)
  BY <1>0, <1>12, ReplyType DEF TypeOK, Deliver, Abort, tables, rest
<1>. QED
  BY <1>1, <1>2, <1>3, <1>4, <1>5, <1>6, <1>7, <1>8, <1>9, <1>10, <1>11, <1>12,
     <1>13, <1>14 DEF Handle

(* So does every management request. *)
LEMMA ManageType ==
  ASSUME TypeInv, Manage
  PROVE  TypeOK'
<1>0. TypeOK
  BY DEF TypeInv
<1>1. ASSUME NEW s \in Service, CreateService(s)
      PROVE  TypeOK'
  <2>1. [st |-> "active", gen |-> 1] \in ServiceRow
    BY Constants DEF ServiceRow, Gen
  <2>. QED
    BY <1>0, <1>1, <2>1 DEF TypeOK, CreateService, rest
<1>2. ASSUME NEW s \in Service, RotateKey(s)
      PROVE  TypeOK'
  <2>1. service[s].gen + 1 \in Gen
    BY <1>0, <1>2, RowTypes, Constants DEF RotateKey, Gen
  <2>2. [service[s] EXCEPT !.gen = @ + 1] \in ServiceRow
    BY <1>0, <2>1 DEF TypeOK, ServiceRow
  <2>. QED
    BY <1>0, <1>2, <2>2 DEF TypeOK, RotateKey, rest
<1>3. ASSUME NEW s \in Service, Revoke(s)
      PROVE  TypeOK'
  <2>1. [service[s] EXCEPT !.st = "revoked"] \in ServiceRow
    BY <1>0 DEF TypeOK, ServiceRow
  <2>. QED
    BY <1>0, <1>3, <2>1 DEF TypeOK, Revoke
<1>4. ASSUME NEW s \in Service, RevokeTokens(s)
      PROVE  TypeOK'
  <2>1. \A t \in Token : tok[t].st = "live" => [tok[t] EXCEPT !.st = "revoked"] \in TokenRow
    BY <1>0 DEF TypeOK, TokenRow, UnbornToken
  <2>2. tok' \in [Token -> TokenRow]
    BY <1>0, <1>4, <2>1 DEF TypeOK, RevokeTokens
  <2>. QED
    BY <1>0, <1>4, <2>2 DEF TypeOK, RevokeTokens
<1>5. ASSUME NEW pairs, Ungrant(pairs)
      PROVE  granted' \in SUBSET (Service \X Key)
             /\ lapsed' \in [Service \X Key -> -TokenTTL .. MaxTime]
  BY <1>0, <1>5, Constants DEF TypeOK, Ungrant
<1>6. ASSUME NEW s \in Service, DeleteService(s)
      PROVE  TypeOK'
  <2>1. [service[s] EXCEPT !.st = "gone"] \in ServiceRow
    BY <1>0 DEF TypeOK, ServiceRow
  <2>4. s # None
    BY ConstantsAssumption
  <2>2. \A c \in Challenge : chal[c].svc = s => [chal[c] EXCEPT !.st = "gone"] \in ChallengeRow
    BY <1>0, <2>4 DEF TypeOK, ChallengeRow, UnbornChallenge
  <2>5. \A t \in Token : tok[t] \in TokenRow
    BY <1>0 DEF TypeOK
  <2>3. \A t \in Token : tok[t].svc = s => [tok[t] EXCEPT !.st = "gone"] \in TokenRow
    BY <2>4, <2>5 DEF TokenRow, UnbornToken
  <2>. QED
    BY <1>0, <1>5, <1>6, <2>1, <2>2, <2>3 DEF TypeOK, DeleteService, Cascade
<1>7. ASSUME NEW s \in Service, NEW ks \in SUBSET keys, AddGrants(s, ks)
      PROVE  TypeOK'
  BY <1>0, <1>7 DEF TypeOK, AddGrants, rest
<1>8. ASSUME NEW s \in Service, NEW k \in Key, DeleteGrant(s, k)
      PROVE  TypeOK'
  BY <1>0, <1>5, <1>8 DEF TypeOK, DeleteGrant
<1>9. ASSUME NEW k \in Key, DeleteKey(k)
      PROVE  TypeOK'
  BY <1>0, <1>5, <1>9 DEF TypeOK, DeleteKey
<1>. QED
  BY <1>1, <1>2, <1>3, <1>4, <1>6, <1>7, <1>8, <1>9 DEF Manage

(* So do the sweeper, the clock and a step that changes nothing. *)
LEMMA ClockAndSweepType ==
  ASSUME TypeOK, SweepChallenges \/ SweepTokens \/ Tick \/ UNCHANGED vars
  PROVE  TypeOK'
<1>1. CASE SweepChallenges
  <2>2. \A c \in Challenge : chal[c] \in ChallengeRow
    BY DEF TypeOK
  <2>1. \A c \in Challenge : InTable(chal[c]) => [chal[c] EXCEPT !.st = "gone"] \in ChallengeRow
    BY <2>2 DEF ChallengeRow, UnbornChallenge, InTable
  <2>. QED
    BY <1>1, <2>1 DEF TypeOK, SweepChallenges, Swept, rest
<1>2. CASE SweepTokens
  <2>2. \A t \in Token : tok[t] \in TokenRow
    BY DEF TypeOK
  <2>1. \A t \in Token : InTable(tok[t]) => [tok[t] EXCEPT !.st = "gone"] \in TokenRow
    <3>. SUFFICES ASSUME NEW t \in Token, InTable(tok[t])
                  PROVE  [tok[t] EXCEPT !.st = "gone"] \in TokenRow
      OBVIOUS
    <3>1. tok[t] \in [st : {"live", "revoked", "gone"}, svc : Service, scope : SUBSET Key, exp : Time]
      BY <2>2 DEF TokenRow, UnbornToken, InTable
    <3>. QED
      BY <3>1 DEF TokenRow
  <2>. QED
    BY <1>2, <2>1 DEF TypeOK, SweepTokens, Swept, rest
<1>3. CASE Tick
  BY <1>3, Constants DEF TypeOK, Tick, tables
<1>4. CASE UNCHANGED vars
  BY <1>4 DEF TypeOK, vars
<1>. QED
  BY <1>1, <1>2, <1>3, <1>4

(* The three together: types are kept by every step. *)
LEMMA NextType == TypeInv /\ [Next]_vars => TypeOK'
BY ArriveType, HandleType, ManageType, ClockAndSweepType DEF Next, TypeInv

-----------------------------------------------------------------------------
(* What no step of the system ever takes back.                              *)
Spent == {"consumed", "gone"}
RowsKept ==
  /\ \A c \in Challenge : chal[c].st # "unborn" =>
       /\ chal'[c].st # "unborn" /\ chal'[c].svc = chal[c].svc
       /\ chal[c].st \in Spent => chal'[c].st \in Spent
  /\ \A t \in Token : tok[t].st # "unborn" =>
       /\ tok'[t].st # "unborn" /\ tok'[t].svc = tok[t].svc
       /\ tok'[t].scope = tok[t].scope /\ tok'[t].exp = tok[t].exp
  /\ \A s \in Service : service[s].st # "unborn" =>
       /\ service'[s].st # "unborn" /\ service'[s].gen >= service[s].gen
       /\ service[s].st # "active" => service'[s].st # "active"
  /\ now' >= now

(* No statement of a handler brings a row back, or moves one to another     *)
(* service.                                                                 *)
LEMMA HandleKeepsRows ==
  ASSUME TypeInv, NEW r \in Request, Arrive(r) \/ Handle(r)
  PROVE  RowsKept
<1>0. TypeOK /\ \A s \in Service : service[s].gen \in Gen
  BY RowTypes DEF TypeInv
<1>1. CASE UNCHANGED <<tables, rest>>
  BY <1>0, <1>1 DEF RowsKept, tables, rest, TypeOK, Gen
<1>2. CASE ChallengeStore(r)
  BY <1>0, <1>2 DEF RowsKept, ChallengeStore, rest, TypeOK, Gen
<1>3. CASE TokenConsume(r)
  <2>1. req[r].ch \in Challenge
    BY <1>3 DEF TypeInv, Located, TokenConsume, TokenPC, PastVerify
  <2>2. \A c \in Challenge : chal'[c].svc = chal[c].svc /\ (chal'[c] = chal[c] \/ chal'[c].st = "consumed")
    BY <1>0, <1>3, <2>1 DEF TokenConsume, TypeOK, ChallengeRow, UnbornChallenge
  <2>. QED
    BY <1>0, <1>3, <2>2 DEF RowsKept, TokenConsume, rest, TypeOK, Gen, Spent
<1>4. CASE TokenInsert(r)
  BY <1>0, <1>4 DEF RowsKept, TokenInsert, TypeOK, Gen
<1>. QED
  BY <1>1, <1>2, <1>3, <1>4
  DEF Arrive, Handle, ChallengeBegin, TokenBegin, ReadBegin, ChallengeLookup, ChallengeDraw, TokenFind,
      TokenVerify, TokenScope, TokenIssue, Resolve, ResolveTenant, ReadRows, ReadAudit, Deliver, Abort

(* Nor does any other step. *)
LEMMA NextKeepsRows ==
  ASSUME TypeInv, [Next]_vars
  PROVE  RowsKept
<1>0. TypeOK /\ \A s \in Service : service[s].gen \in Gen
  BY RowTypes DEF TypeInv
<1>1. ASSUME NEW s \in Service,
             CreateService(s) \/ RotateKey(s) \/ Revoke(s)
      PROVE  RowsKept
  <2>1. UNCHANGED <<chal, tok, now>>
    BY <1>1 DEF CreateService, RotateKey, Revoke, rest
  <2>2. service \in [Service -> ServiceRow] /\ now \in Nat
    BY <1>0 DEF TypeOK
  <2>3. \A i \in Service : service[i].st # "unborn" =>
          /\ service'[i].st # "unborn" /\ service'[i].gen >= service[i].gen
          /\ service[i].st # "active" => service'[i].st # "active"
    <3>1. CASE CreateService(s)
      BY <1>0, <2>2, <3>1 DEF CreateService, ServiceRow, Gen
    <3>2. CASE RotateKey(s)
      BY <1>0, <2>2, <3>2 DEF RotateKey, ServiceRow, Gen
    <3>3. CASE Revoke(s)
      BY <1>0, <2>2, <3>3 DEF Revoke, ServiceRow, Gen, InTable
    <3>. QED
      BY <1>1, <3>1, <3>2, <3>3
  <2>. QED
    BY <2>1, <2>2, <2>3 DEF RowsKept
<1>2. ASSUME NEW s \in Service, RevokeTokens(s)
      PROVE  RowsKept
  BY <1>0, <1>2 DEF RowsKept, RevokeTokens, TypeOK, TokenRow, UnbornToken, Gen
<1>3. ASSUME NEW s \in Service, DeleteService(s)
      PROVE  RowsKept
  <2>1. \A c \in Challenge : chal'[c].svc = chal[c].svc /\ (chal'[c] = chal[c] \/ chal'[c].st = "gone")
    BY <1>0, <1>3 DEF DeleteService, Cascade, TypeOK, ChallengeRow, UnbornChallenge
  <2>2. \A t \in Token : /\ tok'[t].svc = tok[t].svc /\ tok'[t].scope = tok[t].scope
                         /\ tok'[t].exp = tok[t].exp
                         /\ tok'[t] = tok[t] \/ tok'[t].st = "gone"
    BY <1>0, <1>3 DEF DeleteService, Cascade, TypeOK, TokenRow, UnbornToken
  <2>3. \A i \in Service : /\ service'[i].gen = service[i].gen
                           /\ service'[i] = service[i] \/ service'[i].st = "gone"
    BY <1>0, <1>3 DEF DeleteService, TypeOK, ServiceRow
  <2>. QED
    BY <1>0, <1>3, <2>1, <2>2, <2>3 DEF RowsKept, DeleteService, Spent, Gen, TypeOK
<1>4. CASE \/ \E s \in Service, ks \in SUBSET keys : AddGrants(s, ks)
           \/ \E s \in Service, k \in Key : DeleteGrant(s, k)
           \/ \E k \in Key : DeleteKey(k)
           \/ Tick \/ UNCHANGED vars
  <2>1. UNCHANGED <<service, chal, tok>> /\ now' \in {now, now + 1}
    BY <1>4 DEF AddGrants, DeleteGrant, DeleteKey, Tick, vars, rest, tables
  <2>. QED
    BY <1>0, <2>1 DEF RowsKept, TypeOK, Gen
<1>5. CASE SweepChallenges \/ SweepTokens
  <2>1. \A c \in Challenge : chal'[c].svc = chal[c].svc /\ (chal'[c] = chal[c] \/ chal'[c].st = "gone")
    BY <1>0, <1>5 DEF SweepChallenges, SweepTokens, Swept, TypeOK, ChallengeRow, UnbornChallenge
  <2>2. \A t \in Token : /\ tok'[t].svc = tok[t].svc /\ tok'[t].scope = tok[t].scope
                         /\ tok'[t].exp = tok[t].exp
                         /\ tok'[t] = tok[t] \/ tok'[t].st = "gone"
    BY <1>0, <1>5 DEF SweepChallenges, SweepTokens, Swept, TypeOK, TokenRow, UnbornToken
  <2>. QED
    BY <1>0, <1>5, <2>1, <2>2 DEF RowsKept, SweepChallenges, SweepTokens, rest, Spent, Gen, TypeOK
<1>. QED
  BY <1>1, <1>2, <1>3, <1>4, <1>5, HandleKeepsRows DEF Next, Manage

(* A step belongs to one request, or to none. *)
LEMMA RequestSteps ==
  ASSUME TypeInv, [Next]_vars, NEW r \in Request
  PROVE  req'[r] = req[r] \/ Arrive(r) \/ Handle(r)
<1>0. TypeOK
  BY DEF TypeInv
<1>1. ASSUME NEW q \in Request, Arrive(q) \/ Handle(q), q # r
      PROVE  req'[r] = req[r]
  <2>1. \E new : Become(q, new)
    BY <1>1 DEF Arrive, Handle, ChallengeBegin, TokenBegin, ReadBegin, ChallengeLookup, ChallengeDraw,
                ChallengeStore, TokenFind, TokenVerify, TokenConsume, TokenScope, TokenIssue, TokenInsert,
                Resolve, ResolveTenant, ReadRows, ReadAudit, Deliver, Abort, Reply
  <2>. QED
    BY <1>0, <1>1, <2>1 DEF Become, TypeOK
<1>2. CASE Manage \/ SweepChallenges \/ SweepTokens \/ Tick \/ UNCHANGED vars
  BY <1>2 DEF Manage, CreateService, RotateKey, Revoke, RevokeTokens, DeleteService, AddGrants,
              DeleteGrant, DeleteKey, SweepChallenges, SweepTokens, Tick, vars
<1>. QED
  BY <1>1, <1>2 DEF Next

(* What each statement of a request does to its locals, unless it replies.  *)
Same(r) == /\ req'[r].ch = req[r].ch /\ req'[r].tok = req[r].tok
           /\ req'[r].gen0 = req[r].gen0 /\ req'[r].live0 = req[r].live0
Carries(r) == Same(r) /\ req'[r].svc = req[r].svc /\ req'[r].gen = req[r].gen

(* What each statement of a handler does to the locals of its request. *)
LEMMA Locals ==
  ASSUME TypeOK, NEW r \in Request
  PROVE  /\ Reply(r) => req'[r] = Idle
         /\ ChallengeLookup(r) => Reply(r) \/ (req'[r].pc = "draw" /\ Carries(r))
         /\ ChallengeDraw(r) => req'[r].pc = "store" /\ Carries(r)
         /\ TokenFind(r) =>
              \/ Reply(r)
              \/ /\ req'[r].pc = "verify" /\ Same(r) /\ req'[r].gen = req[r].gen
                 /\ req'[r].svc = chal[req[r].ch].svc
         /\ TokenVerify(r) => Reply(r) \/ (Authentic(r) /\ req'[r].pc = "consume" /\ Carries(r))
         /\ TokenConsume(r) => Reply(r) \/ (req'[r].pc = "scope" /\ Carries(r))
         /\ TokenScope(r) =>
              \/ Reply(r)
              \/ /\ req'[r].pc = "issue" /\ Carries(r) /\ req'[r].at = now
                 /\ req'[r].scope = {k \in Key : <<req[r].svc, k>> \in granted}
         /\ TokenIssue(r) =>
              /\ req'[r].pc = "insert" /\ Carries(r) /\ req'[r].at = now + TokenTTL
              /\ req'[r].scope = req[r].scope /\ req'[r].late = now - req[r].at
         /\ Resolve(r) =>
              \/ Reply(r)
              \/ /\ Resolvable(req[r].tok) /\ req'[r].pc = "tenant" /\ Same(r)
                 /\ req'[r].svc = tok[req[r].tok].svc /\ req'[r].scope = tok[req[r].tok].scope
                 /\ req'[r].gen = service[tok[req[r].tok].svc].gen /\ req'[r].at = now
         /\ ResolveTenant(r) \/ ReadRows(r) \/ ReadAudit(r) =>
              \/ Reply(r)
              \/ /\ req'[r].pc \in {"rows", "audit", "deliver"} /\ Carries(r)
                 /\ req'[r].scope \subseteq req[r].scope /\ req'[r].at = req[r].at
<1>0. req[r] \in RequestState
  BY DEF TypeOK
<1>1. ASSUME NEW new, Become(r, new) PROVE req'[r] = new
  BY <1>1 DEF Become, TypeOK
<1>. USE DEF Same, Carries, RequestState
<1>2. Reply(r) => req'[r] = Idle
  BY <1>1 DEF Reply
<1>3. ChallengeLookup(r) => Reply(r) \/ (req'[r].pc = "draw" /\ Carries(r))
  BY <1>0, <1>1 DEF ChallengeLookup
<1>13. ChallengeDraw(r) => req'[r].pc = "store" /\ Carries(r)
  BY <1>0, <1>1 DEF ChallengeDraw
<1>4. TokenFind(r) =>
        \/ Reply(r)
        \/ /\ req'[r].pc = "verify" /\ Same(r) /\ req'[r].gen = req[r].gen
           /\ req'[r].svc = chal[req[r].ch].svc
  BY <1>0, <1>1 DEF TokenFind
<1>5. TokenVerify(r) => Reply(r) \/ (Authentic(r) /\ req'[r].pc = "consume" /\ Carries(r))
  BY <1>0, <1>1 DEF TokenVerify
<1>6. TokenConsume(r) => Reply(r) \/ (req'[r].pc = "scope" /\ Carries(r))
  BY <1>0, <1>1 DEF TokenConsume
<1>7. TokenScope(r) =>
        \/ Reply(r)
        \/ /\ req'[r].pc = "issue" /\ Carries(r) /\ req'[r].at = now
           /\ req'[r].scope = {k \in Key : <<req[r].svc, k>> \in granted}
  BY <1>0, <1>1 DEF TokenScope
<1>12. TokenIssue(r) =>
        /\ req'[r].pc = "insert" /\ Carries(r) /\ req'[r].at = now + TokenTTL
        /\ req'[r].scope = req[r].scope /\ req'[r].late = now - req[r].at
  BY <1>0, <1>1 DEF TokenIssue
<1>8. Resolve(r) =>
        \/ Reply(r)
        \/ /\ Resolvable(req[r].tok) /\ req'[r].pc = "tenant" /\ Same(r)
           /\ req'[r].svc = tok[req[r].tok].svc /\ req'[r].scope = tok[req[r].tok].scope
           /\ req'[r].gen = service[tok[req[r].tok].svc].gen /\ req'[r].at = now
  <2>. DEFINE new == [req[r] EXCEPT !.pc = "tenant", !.svc = tok[req[r].tok].svc,
                       !.gen = service[tok[req[r].tok].svc].gen,
                       !.scope = tok[req[r].tok].scope, !.at = now]
  <2>1. Resolve(r) => Reply(r) \/ (Resolvable(req[r].tok) /\ Become(r, new))
    BY DEF Resolve
  <2>2. /\ new.pc = "tenant" /\ new.svc = tok[req[r].tok].svc /\ new.at = now
        /\ new.gen = service[tok[req[r].tok].svc].gen /\ new.scope = tok[req[r].tok].scope
        /\ new.ch = req[r].ch /\ new.tok = req[r].tok
        /\ new.gen0 = req[r].gen0 /\ new.live0 = req[r].live0
    BY <1>0
  <2>. HIDE DEF new
  <2>. QED
    BY <1>1, <2>1, <2>2
<1>9. ResolveTenant(r) =>
        \/ Reply(r)
        \/ /\ req'[r].pc = "rows" /\ Carries(r)
           /\ req'[r].scope = req[r].scope /\ req'[r].at = req[r].at
  BY <1>0, <1>1 DEF ResolveTenant
<1>10. ReadRows(r) =>
        \/ Reply(r)
        \/ /\ req'[r].pc = "audit" /\ Carries(r)
           /\ req'[r].scope \subseteq req[r].scope /\ req'[r].at = req[r].at
  <2>1. ASSUME NEW selected, Become(r, [req[r] EXCEPT !.pc = "audit", !.scope = selected])
        PROVE  req'[r].pc = "audit" /\ Carries(r) /\ req'[r].scope = selected
               /\ req'[r].at = req[r].at
    BY <1>0, <1>1, <2>1
  <2>2. ASSUME ReadRows(r), ~Reply(r)
        PROVE  \E selected \in SUBSET req[r].scope :
                 Become(r, [req[r] EXCEPT !.pc = "audit", !.scope = selected])
    BY <2>2 DEF ReadRows
  <2>. QED
    BY <2>1, <2>2
<1>11. ReadAudit(r) =>
        /\ req'[r].pc = "deliver" /\ Carries(r)
        /\ req'[r].scope = req[r].scope /\ req'[r].at = req[r].at
  BY <1>0, <1>1 DEF ReadAudit
<1>. QED
  BY <1>2, <1>3, <1>4, <1>5, <1>6, <1>7, <1>8, <1>9, <1>10, <1>11, <1>12,
     <1>13

(* The same for the first step of a request. *)
LEMMA ArriveLocals ==
  ASSUME TypeOK, NEW r \in Request
  PROVE  /\ \A s \in Service : ChallengeBegin(r, s) => req'[r].pc = "lookup" /\ req'[r].svc = s
         /\ \A c \in Challenge, g \in Gen : TokenBegin(r, c, g) =>
              /\ req'[r].pc = "find" /\ req'[r].ch = c /\ req'[r].gen = g
              /\ req'[r].gen0 = service[chal[c].svc].gen
              /\ req'[r].live0 = (service[chal[c].svc].st = "active")
         /\ \A t \in Token, n \in Key \cup {None} : ReadBegin(r, t, n) =>
              /\ req'[r].pc = "resolve" /\ req'[r].tok = t
              /\ req'[r].gen0 = service[tok[t].svc].gen
              /\ req'[r].live0 = (service[tok[t].svc].st = "active")
<1>0. req[r] \in RequestState
  BY DEF TypeOK
<1>1. ASSUME NEW new, Become(r, new) PROVE req'[r] = new
  BY <1>1 DEF Become, TypeOK
<1>. USE DEF RequestState
<1>2. ASSUME NEW s \in Service, ChallengeBegin(r, s)
      PROVE  req'[r].pc = "lookup" /\ req'[r].svc = s
  BY <1>0, <1>1, <1>2 DEF ChallengeBegin
<1>3. ASSUME NEW c \in Challenge, NEW g \in Gen, TokenBegin(r, c, g)
      PROVE  /\ req'[r].pc = "find" /\ req'[r].ch = c /\ req'[r].gen = g
             /\ req'[r].gen0 = service[chal[c].svc].gen
             /\ req'[r].live0 = (service[chal[c].svc].st = "active")
  <2>1. ASSUME NEW g0, NEW live \in BOOLEAN,
               Become(r, [req[r] EXCEPT !.pc = "find", !.ch = c, !.gen = g, !.gen0 = g0,
                                        !.live0 = live])
        PROVE  /\ req'[r].pc = "find" /\ req'[r].ch = c /\ req'[r].gen = g
               /\ req'[r].gen0 = g0 /\ req'[r].live0 = live
    BY <1>0, <1>1, <2>1
  <2>. QED
    BY <1>3, <2>1 DEF TokenBegin
<1>4. ASSUME NEW t \in Token, NEW n \in Key \cup {None}, ReadBegin(r, t, n)
      PROVE  /\ req'[r].pc = "resolve" /\ req'[r].tok = t
             /\ req'[r].gen0 = service[tok[t].svc].gen
             /\ req'[r].live0 = (service[tok[t].svc].st = "active")
  <2>1. ASSUME NEW g0, NEW live \in BOOLEAN,
               Become(r, [req[r] EXCEPT !.pc = "resolve", !.tok = t, !.name = n, !.gen0 = g0,
                                        !.live0 = live])
        PROVE  /\ req'[r].pc = "resolve" /\ req'[r].tok = t
               /\ req'[r].gen0 = g0 /\ req'[r].live0 = live
    BY <1>0, <1>1, <2>1
  <2>. QED
    BY <1>4, <2>1 DEF ReadBegin
<1>. QED
  BY <1>2, <1>3, <1>4

(* A request at a statement has the locals that statement reads. *)
LEMMA NextLocated ==
  ASSUME TypeInv, [Next]_vars
  PROVE  Located'
<1> SUFFICES ASSUME NEW r \in Request
             PROVE  /\ req'[r].pc \in {"lookup", "draw", "store", "verify"} \cup PastVerify \cup PastResolve
                         => req'[r].svc \in Service
                    /\ req'[r].pc \in TokenPC =>
                         req'[r].ch \in Challenge /\ chal'[req'[r].ch].st # "unborn"
                    /\ req'[r].pc \in ReadPC =>
                         req'[r].tok \in Token /\ tok'[req'[r].tok].st # "unborn"
                    /\ req'[r].pc = "issue" => req'[r].at <= now'
  BY DEF Located
<1>0. TypeOK /\ Located /\ RowsKept /\ req[r] \in RequestState
  BY NextKeepsRows DEF TypeInv, TypeOK
<1>. USE DEF PastVerify, PastResolve, TokenPC, ReadPC
<1>1. CASE req'[r] = req[r]
  <2>1. req[r].at \in Nat /\ now \in Nat /\ now' \in Nat /\ now' >= now
    BY <1>0, NextType, Constants DEF TypeInv, TypeOK, RequestState, Time, RowsKept
  <2>. QED
    BY <1>0, <1>1, <2>1 DEF Located, RowsKept
<1>2. Reply(r) => req'[r].pc = "idle"
  BY <1>0, Locals DEF Idle
<1>3. CASE Arrive(r)
  <2>1. CASE \E s \in Service : ChallengeBegin(r, s)
    BY <1>0, <2>1, ArriveLocals
  <2>2. CASE \E c \in Challenge, g \in Gen : TokenBegin(r, c, g)
    <3>1. PICK c \in Challenge : req'[r].pc = "find" /\ req'[r].ch = c /\ chal[c].st # "unborn"
      BY <1>0, <2>2, ArriveLocals DEF TokenBegin
    <3>. QED
      BY <1>0, <3>1 DEF RowsKept
  <2>3. CASE \E t \in Token, n \in Key \cup {None} : ReadBegin(r, t, n)
    <3>1. PICK t \in Token : req'[r].pc = "resolve" /\ req'[r].tok = t /\ tok[t].st # "unborn"
      BY <1>0, <2>3, ArriveLocals DEF ReadBegin
    <3>. QED
      BY <1>0, <3>1 DEF RowsKept
  <2>. QED
    BY <1>3, <2>1, <2>2, <2>3 DEF Arrive
<1>4. CASE ChallengeLookup(r) \/ ChallengeDraw(r) \/ TokenVerify(r) \/ TokenConsume(r)
        \/ TokenIssue(r)
  BY <1>0, <1>2, <1>4, Locals DEF ChallengeLookup, ChallengeDraw, TokenVerify, TokenConsume,
                                 TokenIssue, Carries, Same, Located, RowsKept
<1>9. CASE TokenScope(r)
  <2>1. now' = now /\ now \in Nat
    BY <1>0, <1>9, Constants DEF TokenScope, rest, TypeOK
  <2>. QED
    BY <1>0, <1>2, <1>9, <2>1, Locals DEF TokenScope, Carries, Same, Located, RowsKept
<1>5. CASE TokenFind(r)
  BY <1>0, <1>2, <1>5, RowTypes, Locals DEF TokenFind, Same, Located, RowsKept
<1>6. CASE Resolve(r)
  BY <1>0, <1>2, <1>6, RowTypes, Locals DEF Resolve, Same, Located, RowsKept
<1>7. CASE ResolveTenant(r) \/ ReadRows(r) \/ ReadAudit(r)
  BY <1>0, <1>2, <1>7, Locals DEF ResolveTenant, ReadRows, ReadAudit, Carries, Same, Located,
                                 RowsKept
<1>8. CASE ChallengeStore(r) \/ TokenInsert(r) \/ Deliver(r) \/ Abort(r)
  BY <1>2, <1>8 DEF ChallengeStore, TokenInsert, Deliver, Abort
<1>. QED
  BY <1>1, <1>3, <1>4, <1>5, <1>6, <1>7, <1>8, <1>9, RequestSteps DEF Handle

(* Every reachable state is well typed: rows name existing services, and a  *)
(* request at a given statement has the locals that statement reads.        *)
THEOREM TypeCorrect == Spec => [](TypeOK /\ Located)
<1>1. TypeInv /\ [Next]_vars => TypeInv'
  BY NextType, NextLocated DEF TypeInv
<1>. QED
  BY InitType, <1>1, PTL DEF Spec, TypeInv

-----------------------------------------------------------------------------
(* Single use.  A token that exists, and a request about to create one,     *)
(* hold a spent challenge each, and no two of them the same one.            *)
Holding(r) == req[r].pc \in {"scope", "issue", "insert"}
OnceInv ==
  /\ \A t \in Token : origin[t] # None =>
       origin[t] \in Challenge /\ chal[origin[t]].st \in Spent
  /\ \A r \in Request : Holding(r) =>
       chal[req[r].ch].st \in Spent /\ \A t \in Token : origin[t] # req[r].ch
  /\ \A r1, r2 \in Request : Holding(r1) /\ Holding(r2) /\ r1 # r2 => req[r1].ch # req[r2].ch
  /\ SingleUse

(* Only the winner of the conditional UPDATE starts to hold a challenge.    *)
LEMMA StartHolding ==
  ASSUME TypeInv, [Next]_vars, NEW r \in Request, Holding(r)'
  PROVE  /\ req'[r].ch \in Challenge
         /\ \/ Holding(r) /\ req'[r].ch = req[r].ch
            \/ /\ TokenConsume(r) /\ req'[r].ch = req[r].ch
               /\ chal[req[r].ch].st = "open" /\ chal'[req[r].ch].st = "consumed"
<1>0. TypeOK /\ Located
  BY DEF TypeInv
<1>1. req'[r].ch \in Challenge
  BY NextLocated DEF Located, Holding, TokenPC, PastVerify
<1>2. CASE req'[r] = req[r]
  BY <1>1, <1>2 DEF Holding
<1>3. Reply(r) => req'[r].pc = "idle"
  BY <1>0, Locals DEF Idle
<1>4. CASE Arrive(r)
  BY <1>0, <1>4, ArriveLocals DEF Arrive, Holding
<1>5. CASE TokenConsume(r)
  <2>1. ~Reply(r)
    BY <1>3 DEF Holding
  <2>2. req[r].ch \in Challenge
    BY <1>0, <1>5 DEF TokenConsume, Located, TokenPC, PastVerify
  <2>3. chal[req[r].ch].st = "open" /\ chal' = [chal EXCEPT ![req[r].ch].st = "consumed"]
    BY <1>5, <2>1 DEF TokenConsume, Usable
  <2>4. chal'[req[r].ch].st = "consumed"
    BY <1>0, <2>2, <2>3 DEF TypeOK, ChallengeRow, UnbornChallenge
  <2>. QED
    BY <1>0, <1>1, <1>5, <2>1, <2>3, <2>4, Locals DEF Carries, Same
<1>6. CASE TokenScope(r) \/ TokenIssue(r)
  BY <1>0, <1>1, <1>3, <1>6, Locals DEF TokenScope, TokenIssue, Holding, Carries, Same
<1>7. CASE ~TokenConsume(r) /\ ~TokenScope(r) /\ ~TokenIssue(r) /\ Handle(r)
  BY <1>0, <1>3, <1>7, Locals DEF Handle, Holding, ChallengeStore, TokenInsert, Deliver, Abort
<1>. QED
  BY <1>2, <1>4, <1>5, <1>6, <1>7, RequestSteps

(* A token's origin is set once, by the request that creates it. *)
LEMMA OriginSteps ==
  ASSUME TypeInv, [Next]_vars
  PROVE  \/ UNCHANGED origin
         \/ \E r \in Request, t \in Token :
              /\ req[r].pc = "insert" /\ req[r].ch \in Challenge /\ req'[r] = Idle
              /\ origin' = [origin EXCEPT ![t] = req[r].ch]
<1>1. ASSUME NEW r \in Request, TokenInsert(r)
      PROVE  /\ req[r].pc = "insert" /\ req[r].ch \in Challenge /\ req'[r] = Idle
             /\ \/ UNCHANGED origin
                \/ \E t \in Token : origin' = [origin EXCEPT ![t] = req[r].ch]
  BY <1>1, Locals DEF TokenInsert, TypeInv, Located, TokenPC, PastVerify
<1>2. ASSUME NEW r \in Request, Arrive(r) \/ (Handle(r) /\ ~TokenInsert(r))
      PROVE  UNCHANGED origin
  BY <1>2 DEF Arrive, Handle, ChallengeBegin, TokenBegin, ReadBegin, ChallengeLookup, ChallengeDraw,
              ChallengeStore, TokenFind, TokenVerify, TokenConsume, TokenScope, TokenIssue, Resolve,
              ResolveTenant, ReadRows, ReadAudit, Deliver, Abort, rest
<1>3. CASE Manage \/ SweepChallenges \/ SweepTokens \/ Tick \/ UNCHANGED vars
  BY <1>3 DEF Manage, CreateService, RotateKey, Revoke, RevokeTokens, DeleteService, AddGrants,
              DeleteGrant, DeleteKey, SweepChallenges, SweepTokens, Tick, vars, rest
<1>. QED
  BY <1>1, <1>2, <1>3 DEF Next

(* The inductive step of single use: one holder, or one token, a challenge. *)
LEMMA NextOnce ==
  ASSUME TypeInv, OnceInv, [Next]_vars
  PROVE  OnceInv'
<1>0. TypeOK /\ RowsKept /\ origin \in [Token -> Challenge \cup {None}]
  BY NextKeepsRows DEF TypeInv, TypeOK
<1>1. \A c \in Challenge : chal[c].st \in Spent => chal'[c].st \in Spent
  BY <1>0 DEF RowsKept, Spent
<1>2. None \notin Challenge
  BY ConstantsAssumption
(* the challenges held after the step: spent, distinct and without token *)
<1>3. ASSUME NEW r \in Request, Holding(r)'
      PROVE  /\ req'[r].ch = req[r].ch /\ chal'[req[r].ch].st \in Spent
             /\ \A t \in Token : origin[t] # req[r].ch
             /\ \A q \in Request : Holding(q)' /\ q # r => req'[q].ch # req'[r].ch
             /\ \A q \in Request : Holding(q) /\ q # r => req[q].ch # req[r].ch
  <2>1. ASSUME NEW q \in Request, NEW p \in Request, Holding(q)', p # q, Holding(p) \/ Holding(p)'
        PROVE  req[p].ch # req[q].ch
    <3>1. Holding(q) \/ (TokenConsume(q) /\ chal[req[q].ch].st = "open")
      BY <2>1, StartHolding
    <3>2. Holding(p) \/ (TokenConsume(p) /\ chal[req[p].ch].st = "open")
      BY <2>1, StartHolding
    <3>3. ~(TokenConsume(p) /\ TokenConsume(q) /\ req'[p].pc = "scope" /\ req'[q].pc = "scope")
      <4> SUFFICES ASSUME TokenConsume(p), TokenConsume(q), req'[p].pc = "scope", req'[q].pc = "scope"
                   PROVE FALSE
        OBVIOUS
      <4>1. req' = [req EXCEPT ![p] = req'[p]] /\ req[q].pc = "consume"
        BY <1>0 DEF TokenConsume, Become, Reply, TypeOK
      <4>. QED
        BY <1>0, <2>1, <4>1 DEF TypeOK
    <3>4. TokenConsume(p) /\ Holding(p)' => req'[p].pc = "scope"
      BY <1>0, Locals DEF Holding, Idle
    <3>5. TokenConsume(q) => req'[q].pc = "scope"
      BY <1>0, <2>1, Locals DEF Holding, Idle
    <3>. QED
      BY <2>1, <3>1, <3>2, <3>3, <3>4, <3>5 DEF OnceInv, Spent
  <2>2. req'[r].ch = req[r].ch /\ req[r].ch \in Challenge
    BY <1>3, StartHolding
  <2>3. chal'[req[r].ch].st \in Spent /\ \A t \in Token : origin[t] # req[r].ch
    BY <1>1, <1>2, <1>3, <2>2, StartHolding DEF OnceInv, Spent
  <2>. QED
    BY <1>3, <2>1, <2>2, <2>3, StartHolding
<1>4. CASE UNCHANGED origin
  BY <1>1, <1>3, <1>4 DEF OnceInv, SingleUse, Holding
<1>5. ASSUME NEW r \in Request, NEW t \in Token, req[r].pc = "insert", req[r].ch \in Challenge,
             req'[r] = Idle, origin' = [origin EXCEPT ![t] = req[r].ch]
      PROVE  OnceInv'
  <2>1. Holding(r) /\ ~Holding(r)'
    BY <1>5 DEF Holding, Idle
  <2>2. chal'[req[r].ch].st \in Spent /\ \A u \in Token : origin[u] # req[r].ch
    BY <1>1, <1>5, <2>1 DEF OnceInv
  <2>3. \A u \in Token : origin'[u] = IF u = t THEN req[r].ch ELSE origin[u]
    BY <1>0, <1>5
  <2>4. \A u \in Token : origin'[u] # None => origin'[u] \in Challenge /\ chal'[origin'[u]].st \in Spent
    BY <1>1, <1>5, <2>2, <2>3 DEF OnceInv
  <2>5. SingleUse'
    BY <1>2, <1>5, <2>2, <2>3 DEF OnceInv, SingleUse
  <2>6. \A q \in Request : Holding(q)' => q # r /\ req'[q].ch = req[q].ch /\ req[q].ch # req[r].ch
    BY <1>3, <2>1
  <2>7. \A q \in Request : Holding(q)' =>
          chal'[req'[q].ch].st \in Spent /\ \A u \in Token : origin'[u] # req'[q].ch
    BY <1>3, <2>3, <2>6
  <2>8. \A q, p \in Request : Holding(q)' /\ Holding(p)' /\ q # p => req'[q].ch # req'[p].ch
    BY <1>3
  <2>. QED
    BY <2>4, <2>5, <2>7, <2>8 DEF OnceInv, Holding
<1>. QED
  BY <1>4, <1>5, OriginSteps

(* A challenge yields at most one token: whatever races, whatever is        *)
(* retried, whatever reply is lost (TokenService.verifyAndIssue).           *)
THEOREM OneTokenPerChallenge == Spec => []SingleUse
<1>1. Init => OnceInv
  BY DEF Init, OnceInv, SingleUse, Holding, Idle
<1>2. TypeInv /\ OnceInv /\ [Next]_vars => OnceInv'
  BY NextOnce
<1>3. OnceInv => SingleUse
  BY DEF OnceInv
<1>. QED
  BY <1>1, <1>2, <1>3, TypeCorrect, PTL DEF Spec, TypeInv

-----------------------------------------------------------------------------
(* Revocation and rotation.  Since the request came, the service's keypair  *)
(* number has not gone down and a dead service has not come back; a request *)
(* past its check has passed it against a row at least as new.              *)
Owner(r) == IF req[r].pc \in TokenPC THEN chal[req[r].ch].svc ELSE tok[req[r].tok].svc
SinceArrival(r) ==
  req[r].pc \in TokenPC \cup ReadPC =>
    /\ service[Owner(r)].gen >= req[r].gen0
    /\ service[Owner(r)].st = "active" => req[r].live0
    /\ req[r].pc \in {"verify"} \cup PastVerify \cup PastResolve => req[r].svc = Owner(r)
    /\ req[r].pc \in PastVerify \cup PastResolve => req[r].live0 /\ req[r].gen >= req[r].gen0
HonourInv ==
  /\ \A c \in Challenge : chal[c].st # "unborn" => service[chal[c].svc].st # "unborn"
  /\ \A t \in Token : tok[t].st # "unborn" => service[tok[t].svc].st # "unborn"
  /\ \A r \in Request : SinceArrival(r)

(* A new row names a service that exists. *)
LEMMA NewRows ==
  ASSUME TypeInv, [Next]_vars
  PROVE  /\ \A c \in Challenge : chal[c].st = "unborn" /\ chal'[c].st # "unborn" =>
              chal'[c].svc \in Service /\ service[chal'[c].svc].st # "unborn"
         /\ \A t \in Token : tok[t].st = "unborn" /\ tok'[t].st # "unborn" =>
              /\ tok'[t].svc \in Service /\ service[tok'[t].svc].st # "unborn"
              /\ \E r \in Request : /\ TokenInsert(r) /\ req[r].pc = "insert"
                                    /\ tok'[t].svc = req[r].svc
                                    /\ tok'[t].scope = req[r].scope /\ tok'[t].exp = req[r].at
                                    /\ late'[t] = req[r].late
<1>0. TypeOK
  BY DEF TypeInv
<1>1. ASSUME NEW r \in Request, ChallengeStore(r), NEW c \in Challenge, chal[c].st = "unborn",
             chal'[c].st # "unborn"
      PROVE  chal'[c].svc \in Service /\ service[chal'[c].svc].st # "unborn"
  <2>1. req[r].svc \in Service
    BY <1>1 DEF TypeInv, Located, ChallengeStore
  <2>. QED
    BY <1>0, <1>1, <2>1 DEF ChallengeStore, InTable, TypeOK
<1>2. ASSUME NEW r \in Request, TokenInsert(r), NEW t \in Token, tok[t].st = "unborn",
             tok'[t].st # "unborn"
      PROVE  /\ tok'[t].svc \in Service /\ service[tok'[t].svc].st # "unborn"
             /\ tok'[t].svc = req[r].svc
             /\ tok'[t].scope = req[r].scope /\ tok'[t].exp = req[r].at
             /\ late'[t] = req[r].late /\ req[r].pc = "insert"
  <2>1. req[r].svc \in Service
    BY <1>2 DEF TypeInv, Located, TokenInsert, PastVerify
  <2>. QED
    BY <1>0, <1>2, <2>1 DEF TokenInsert, InTable, TypeOK
<1>3. ASSUME NEW c \in Challenge, chal[c].st = "unborn", chal'[c].st # "unborn",
             ~\E r \in Request : ChallengeStore(r)
      PROVE  FALSE
  <2>0. chal[c].svc = None /\ \A s \in Service : s # None
    BY <1>0, <1>3, ConstantsAssumption DEF TypeOK, ChallengeRow, UnbornChallenge
  <2>1. ASSUME NEW r \in Request, TokenConsume(r)
        PROVE  chal'[c] = chal[c]
    BY <1>0, <1>3, <2>1 DEF TokenConsume, TypeOK, TypeInv, Located, TokenPC, PastVerify
  <2>2. CASE \E r \in Request : Arrive(r) \/ (Handle(r) /\ ~TokenConsume(r))
    BY <1>3, <2>2 DEF Arrive, Handle, ChallengeBegin, TokenBegin, ReadBegin, ChallengeLookup, ChallengeDraw,
              TokenFind, TokenVerify, TokenScope, TokenIssue, TokenInsert, Resolve,
              ResolveTenant, ReadRows, ReadAudit, Deliver, Abort, tables
  <2>3. ASSUME NEW s \in Service, DeleteService(s)
        PROVE  chal'[c] = chal[c]
    BY <1>0, <2>0, <2>3 DEF DeleteService, Cascade, TypeOK
  <2>4. CASE SweepChallenges
    BY <1>0, <1>3, <2>4 DEF SweepChallenges, Swept, InTable, TypeOK
  <2>5. CASE \/ \E s \in Service : CreateService(s) \/ RotateKey(s) \/ Revoke(s) \/ RevokeTokens(s)
             \/ \E s \in Service, ks \in SUBSET keys : AddGrants(s, ks)
             \/ \E s \in Service, k \in Key : DeleteGrant(s, k)
             \/ \E k \in Key : DeleteKey(k)
             \/ SweepTokens \/ Tick \/ UNCHANGED vars
    BY <1>3, <2>5 DEF CreateService, RotateKey, Revoke, RevokeTokens, AddGrants,
              DeleteGrant, DeleteKey, SweepTokens, Tick, vars, tables
  <2>. QED
    BY <1>3, <2>1, <2>2, <2>3, <2>4, <2>5 DEF Next, Manage
<1>4. ASSUME NEW t \in Token, tok[t].st = "unborn", tok'[t].st # "unborn",
             ~\E r \in Request : TokenInsert(r)
      PROVE  FALSE
  <2>0. tok[t].svc = None /\ \A s \in Service : s # None
    BY <1>0, <1>4, ConstantsAssumption DEF TypeOK, TokenRow, UnbornToken
  <2>2. CASE \E r \in Request : Arrive(r) \/ Handle(r)
    BY <1>4, <2>2 DEF Arrive, Handle, ChallengeBegin, TokenBegin, ReadBegin, ChallengeLookup, ChallengeDraw,
              ChallengeStore, TokenFind, TokenVerify, TokenConsume, TokenScope, TokenIssue, Resolve,
              ResolveTenant, ReadRows, ReadAudit, Deliver, Abort, tables
  <2>3. ASSUME NEW s \in Service, DeleteService(s) \/ RevokeTokens(s)
        PROVE  tok'[t] = tok[t]
    BY <1>0, <1>4, <2>0, <2>3 DEF DeleteService, RevokeTokens, Cascade, TypeOK
  <2>4. CASE SweepTokens
    BY <1>0, <1>4, <2>4 DEF SweepTokens, Swept, InTable, TypeOK
  <2>5. CASE \/ \E s \in Service : CreateService(s) \/ RotateKey(s) \/ Revoke(s)
             \/ \E s \in Service, ks \in SUBSET keys : AddGrants(s, ks)
             \/ \E s \in Service, k \in Key : DeleteGrant(s, k)
             \/ \E k \in Key : DeleteKey(k)
             \/ SweepChallenges \/ Tick \/ UNCHANGED vars
    BY <1>4, <2>5 DEF CreateService, RotateKey, Revoke, AddGrants,
              DeleteGrant, DeleteKey, SweepChallenges, Tick, vars, tables
  <2>. QED
    BY <1>4, <2>2, <2>3, <2>4, <2>5 DEF Next, Manage
<1>. QED
  BY <1>1, <1>2, <1>3, <1>4

(* The inductive step of revocation and rotation. *)
LEMMA NextHonour ==
  ASSUME TypeInv, HonourInv, [Next]_vars
  PROVE  HonourInv'
<1>0. TypeOK /\ Located /\ RowsKept /\ TypeOK'
  BY NextKeepsRows, NextType DEF TypeInv
<1>1. \A s \in Service : service[s].gen \in Nat /\ service'[s].gen \in Nat
  BY <1>0, Constants DEF TypeOK, ServiceRow, Gen
<1>2. \A c \in Challenge : chal'[c].st # "unborn" => service'[chal'[c].svc].st # "unborn"
  BY <1>0, NewRows, RowTypes DEF RowsKept, HonourInv
<1>3. \A t \in Token : tok'[t].st # "unborn" => service'[tok'[t].svc].st # "unborn"
  BY <1>0, NewRows, RowTypes DEF RowsKept, HonourInv
<1>4. ASSUME NEW r \in Request
      PROVE  SinceArrival(r)'
  <2>. USE DEF PastVerify, PastResolve, TokenPC, ReadPC
  <2>1. req[r] \in RequestState /\ req'[r] \in RequestState
    BY <1>0 DEF TypeOK
  <2>2. req[r].gen \in Nat /\ req[r].gen0 \in Nat /\ req[r].live0 \in BOOLEAN
    BY <2>1, Constants DEF RequestState, Gen
  <2>3. req[r].pc \in TokenPC \cup ReadPC =>
          Owner(r) \in Service /\ service[Owner(r)].st # "unborn"
    BY <1>0, RowTypes DEF Located, Owner, HonourInv
  <2>4. SinceArrival(r)
    BY DEF HonourInv
  (* the part that speaks of the arrival survives any step of the system *)
  <2>5. req[r].pc \in TokenPC \cup ReadPC =>
          /\ service'[Owner(r)].gen >= req[r].gen0
          /\ service'[Owner(r)].st = "active" => req[r].live0
    <3> SUFFICES ASSUME req[r].pc \in TokenPC \cup ReadPC
                 PROVE  /\ service'[Owner(r)].gen >= req[r].gen0
                        /\ service'[Owner(r)].st = "active" => req[r].live0
      OBVIOUS
    <3>1. /\ service'[Owner(r)].gen >= service[Owner(r)].gen
          /\ service[Owner(r)].st # "active" => service'[Owner(r)].st # "active"
      BY <1>0, <2>3 DEF RowsKept
    <3>2. service[Owner(r)].gen >= req[r].gen0 /\ (service[Owner(r)].st = "active" => req[r].live0)
      BY <2>4 DEF SinceArrival
    <3>3. \A a, b, d \in Nat : a >= b /\ b >= d => a >= d
      OBVIOUS
    <3>. QED
      BY <1>1, <2>2, <2>3, <3>1, <3>2, <3>3
  <2>6. req[r].pc \in TokenPC => chal'[req[r].ch].svc = chal[req[r].ch].svc
    BY <1>0 DEF Located, RowsKept
  <2>7. req[r].pc \in ReadPC => tok'[req[r].tok].svc = tok[req[r].tok].svc
    BY <1>0 DEF Located, RowsKept
  <2>8. CASE req'[r] = req[r]
    BY <2>4, <2>5, <2>6, <2>7, <2>8 DEF SinceArrival, Owner
  <2>9. Reply(r) => SinceArrival(r)'
    BY <1>0, Locals DEF SinceArrival, Idle
  <2>10. CASE Arrive(r)
    <3>1. CASE \E s \in Service : ChallengeBegin(r, s)
      BY <1>0, <3>1, ArriveLocals DEF SinceArrival
    <3>2. ASSUME NEW c \in Challenge, NEW g \in Gen, TokenBegin(r, c, g)
          PROVE  SinceArrival(r)'
      <4>1. /\ req'[r].pc = "find" /\ req'[r].ch = c
            /\ req'[r].gen0 = service[chal[c].svc].gen
            /\ req'[r].live0 = (service[chal[c].svc].st = "active")
            /\ chal[c].st # "unborn" /\ UNCHANGED <<chal, service>>
        BY <1>0, <3>2, ArriveLocals DEF TokenBegin, tables
      <4>2. service[chal[c].svc].gen \in Nat
        BY <1>0, <1>1, <4>1, RowTypes
      <4>3. service[chal[c].svc].gen >= service[chal[c].svc].gen
        BY <4>2
      <4>. QED
        BY <4>1, <4>3, Zenon DEF SinceArrival, Owner
    <3>3. ASSUME NEW t \in Token, NEW n \in Key \cup {None}, ReadBegin(r, t, n)
          PROVE  SinceArrival(r)'
      <4>1. /\ req'[r].pc = "resolve" /\ req'[r].tok = t
            /\ req'[r].gen0 = service[tok[t].svc].gen
            /\ req'[r].live0 = (service[tok[t].svc].st = "active")
            /\ tok[t].st # "unborn" /\ UNCHANGED <<tok, service>>
        BY <1>0, <3>3, ArriveLocals DEF ReadBegin, tables
      <4>2. service[tok[t].svc].gen \in Nat
        BY <1>0, <1>1, <4>1, RowTypes
      <4>3. service[tok[t].svc].gen >= service[tok[t].svc].gen
        BY <4>2
      <4>. QED
        BY <4>1, <4>3, Zenon DEF SinceArrival, Owner
    <3>. QED
      BY <2>10, <3>1, <3>2, <3>3 DEF Arrive
  <2>11. CASE ChallengeLookup(r) \/ ChallengeDraw(r)
    BY <1>0, <2>9, <2>11, Locals DEF SinceArrival
  <2>12. CASE TokenFind(r)
    BY <1>0, <2>5, <2>6, <2>9, <2>12, Locals DEF TokenFind, Same, SinceArrival, Owner
  <2>13. CASE TokenVerify(r)
    <3>1. CASE Reply(r)
      BY <2>9, <3>1
    <3>2. CASE ~Reply(r)
      <4>1. req[r].pc = "verify" /\ Authentic(r) /\ req'[r].pc = "consume" /\ Carries(r)
        BY <1>0, <2>13, <3>2, Locals DEF TokenVerify
      <4>2. req[r].live0 /\ req[r].gen >= req[r].gen0
        BY <2>4, <4>1 DEF SinceArrival, Authentic
      <4>. QED
        BY <2>4, <2>5, <2>6, <4>1, <4>2 DEF Carries, Same, SinceArrival, Owner
    <3>. QED
      BY <3>1, <3>2
  <2>14. CASE TokenConsume(r) \/ TokenScope(r) \/ TokenIssue(r)
    <3>1. CASE Reply(r)
      BY <2>9, <3>1
    <3>2. CASE ~Reply(r)
      <4>1. /\ req[r].pc \in {"consume", "scope", "issue"} /\ Carries(r)
            /\ req'[r].pc \in {"scope", "issue", "insert"}
        BY <1>0, <2>14, <3>2, Locals DEF TokenConsume, TokenScope, TokenIssue
      <4>2. req[r].live0 /\ req[r].gen >= req[r].gen0 /\ req[r].svc = Owner(r)
        BY <2>4, <4>1 DEF SinceArrival
      <4>. QED
        BY <2>5, <2>6, <4>1, <4>2 DEF Carries, Same, SinceArrival, Owner
    <3>. QED
      BY <3>1, <3>2
  <2>15. CASE Resolve(r)
    <3>1. CASE Reply(r)
      BY <2>9, <3>1
    <3>2. CASE ~Reply(r)
      <4>1. /\ req[r].pc = "resolve" /\ req'[r].pc = "tenant" /\ Same(r) /\ Resolvable(req[r].tok)
            /\ req'[r].svc = Owner(r) /\ req'[r].gen = service[Owner(r)].gen
        BY <1>0, <2>15, <3>2, Locals DEF Resolve, Owner
      <4>2. req[r].live0 /\ service[Owner(r)].gen >= req[r].gen0
        BY <2>4, <4>1 DEF SinceArrival, Resolvable, Owner
      <4>. QED
        BY <2>5, <2>7, <4>1, <4>2 DEF Same, SinceArrival, Owner
    <3>. QED
      BY <3>1, <3>2
  <2>16. CASE ResolveTenant(r) \/ ReadRows(r) \/ ReadAudit(r)
    <3>1. CASE Reply(r)
      BY <2>9, <3>1
    <3>2. CASE ~Reply(r)
      <4>1. /\ req[r].pc \in {"tenant", "rows", "audit"} /\ Carries(r)
            /\ req'[r].pc \in {"rows", "audit", "deliver"}
        BY <1>0, <2>16, <3>2, Locals DEF ResolveTenant, ReadRows, ReadAudit
      <4>2. req[r].live0 /\ req[r].gen >= req[r].gen0 /\ req[r].svc = Owner(r)
        BY <2>4, <4>1 DEF SinceArrival
      <4>. QED
        BY <2>5, <2>7, <4>1, <4>2 DEF Carries, Same, SinceArrival, Owner
    <3>. QED
      BY <3>1, <3>2
  <2>17. CASE ChallengeStore(r) \/ TokenInsert(r) \/ Deliver(r) \/ Abort(r)
    BY <2>9, <2>17 DEF ChallengeStore, TokenInsert, Deliver, Abort
  <2>. QED
    BY <2>8, <2>10, <2>11, <2>12, <2>13, <2>14, <2>15, <2>16, <2>17, RequestSteps DEF Handle
<1>. QED
  BY <1>2, <1>3, <1>4 DEF HonourInv

(* What requests know of their service holds in every reachable state.      *)
LEMMA HonourHolds == Spec => []HonourInv
<1>1. Init => HonourInv
  BY DEF Init, HonourInv, SinceArrival, Idle, UnbornChallenge, UnbornToken, TokenPC, ReadPC,
         PastVerify, PastResolve
<1>2. TypeInv /\ HonourInv /\ [Next]_vars => HonourInv'
  BY NextHonour
<1>. QED
  BY <1>1, <1>2, TypeCorrect, PTL DEF Spec, TypeInv

(* A request that arrives after the revocation is refused, although it      *)
(* reads the service's row several statements later.                        *)
THEOREM RequestsHonourRevocation == Spec => []RevocationHonoured
<1>1. HonourInv => RevocationHonoured
  BY DEF HonourInv, SinceArrival, RevocationHonoured, TokenPC, ReadPC
<1>. QED
  BY <1>1, HonourHolds, PTL

(* A request that arrives after a rotation is judged by the new keypair:    *)
(* a signature by the old one yields no token, and what is read is sealed   *)
(* to the new one.                                                          *)
THEOREM RequestsHonourRotation == Spec => []RotationHonoured
<1>1. HonourInv => RotationHonoured
  BY DEF HonourInv, SinceArrival, RotationHonoured, TokenPC, ReadPC
<1>. QED
  BY <1>1, HonourHolds, PTL

-----------------------------------------------------------------------------
(* Grants.  A scope key not granted any more lapsed after the scope was     *)
(* read; so no later than one TokenTTL, and what the reply took, before the *)
(* token expires.                                                           *)
Backed(gr, la, s, k, end) == <<s, k>> \in gr \/ end <= la[<<s, k>>] + TokenTTL
LapseInv ==
  /\ \A t \in Token : tok[t].st # "unborn" =>
       /\ tok[t].exp <= now + TokenTTL
       /\ \A k \in tok[t].scope : Backed(granted, lapsed, tok[t].svc, k, tok[t].exp - late[t])
  /\ \A r \in Request : req[r].pc = "issue" =>
       \A k \in req[r].scope : Backed(granted, lapsed, req[r].svc, k, req[r].at + TokenTTL)
  /\ \A r \in Request : req[r].pc = "insert" =>
       /\ req[r].at <= now + TokenTTL
       /\ \A k \in req[r].scope : Backed(granted, lapsed, req[r].svc, k, req[r].at - req[r].late)
  /\ \A r \in Request : req[r].pc \in PastResolve =>
       /\ req[r].at <= now
       /\ \A k \in req[r].scope :
            Backed(granted, lapsed, req[r].svc, k, req[r].at + 1 - late[req[r].tok])

(* How late a token's scope was is settled when the token is inserted. *)
LEMMA LateKept ==
  ASSUME TypeInv, [Next]_vars, NEW t \in Token, tok[t].st # "unborn"
  PROVE  late'[t] = late[t]
<1>1. ASSUME NEW r \in Request, TokenInsert(r)
      PROVE  late'[t] = late[t]
  BY <1>1 DEF TokenInsert, TypeInv, TypeOK
<1>2. ASSUME NEW r \in Request, Arrive(r) \/ (Handle(r) /\ ~TokenInsert(r))
      PROVE  UNCHANGED late
  BY <1>2 DEF Arrive, Handle, ChallengeBegin, TokenBegin, ReadBegin, ChallengeLookup,
              ChallengeDraw, ChallengeStore, TokenFind, TokenVerify, TokenConsume, TokenScope,
              TokenIssue, Resolve, ResolveTenant, ReadRows, ReadAudit, Deliver, Abort, rest
<1>3. CASE Manage \/ SweepChallenges \/ SweepTokens \/ Tick \/ UNCHANGED vars
  BY <1>3 DEF Manage, CreateService, RotateKey, Revoke, RevokeTokens, DeleteService, AddGrants,
              DeleteGrant, DeleteKey, SweepChallenges, SweepTokens, Tick, vars, rest
<1>. QED
  BY <1>1, <1>2, <1>3 DEF Next

(* The only way a grant disappears is Ungrant. *)
LEMMA GrantSteps ==
  ASSUME TypeInv, [Next]_vars
  PROVE  \/ granted \subseteq granted' /\ UNCHANGED lapsed
         \/ \E pairs : Ungrant(pairs) /\ UNCHANGED now
<1>1. CASE \E r \in Request : Arrive(r) \/ Handle(r)
  <2>1. CASE \E r \in Request : Arrive(r)
    BY <2>1 DEF Arrive, ChallengeBegin, TokenBegin, ReadBegin, rest, tables
  <2>2. CASE \E r \in Request : ChallengeStore(r) \/ TokenConsume(r) \/ TokenInsert(r)
    BY <2>2 DEF ChallengeStore, TokenConsume, TokenInsert, rest
  <2>3. CASE \E r \in Request : Handle(r) /\ ~(ChallengeStore(r) \/ TokenConsume(r) \/ TokenInsert(r))
    <3>1. UNCHANGED <<tables, rest>>
      BY <2>3 DEF Handle, ChallengeLookup, ChallengeDraw, TokenFind, TokenVerify, TokenScope,
                  TokenIssue, Resolve, ResolveTenant, ReadRows, ReadAudit, Deliver, Abort
    <3>. QED
      BY <3>1 DEF tables, rest
  <2>. QED
    BY <1>1, <2>1, <2>2, <2>3
<1>2. CASE Manage
  BY <1>2 DEF Manage, CreateService, RotateKey, Revoke, RevokeTokens, DeleteService, AddGrants,
              DeleteGrant, DeleteKey, rest
<1>3. CASE SweepChallenges \/ SweepTokens \/ Tick \/ UNCHANGED vars
  BY <1>3 DEF SweepChallenges, SweepTokens, Tick, vars, rest, tables
<1>. QED
  BY <1>1, <1>2, <1>3 DEF Next

(* A key that is backed until a time within a TokenTTL from now stays so. *)
LEMMA BackedKept ==
  ASSUME TypeInv, [Next]_vars, NEW s \in Service, NEW k \in Key, NEW end \in Int,
         end <= now + TokenTTL, Backed(granted, lapsed, s, k, end)
  PROVE  Backed(granted', lapsed', s, k, end)
<1>. DEFINE p == <<s, k>>
<1>0. /\ p \in Service \X Key /\ lapsed[p] \in Int /\ lapsed'[p] \in Int /\ now \in Nat
      /\ TokenTTL \in Nat
  BY NextType, Constants DEF TypeInv, TypeOK
<1>1. CASE granted \subseteq granted' /\ UNCHANGED lapsed
  BY <1>1 DEF Backed
<1>2. ASSUME NEW pairs, Ungrant(pairs)
      PROVE  Backed(granted', lapsed', s, k, end)
  <2>1. lapsed'[p] = IF p \in granted \cap pairs THEN now ELSE lapsed[p]
    BY <1>0, <1>2 DEF Ungrant
  <2>2. p \in granted' <=> p \in granted /\ p \notin pairs
    BY <1>2 DEF Ungrant
  <2>. QED
    BY <1>0, <2>1, <2>2 DEF Backed
<1>. QED
  BY <1>1, <1>2, GrantSteps

(* The inductive step of the grant lapse. *)
LEMMA NextLapse ==
  ASSUME TypeInv, LapseInv, [Next]_vars
  PROVE  LapseInv'
<1>0. TypeOK /\ Located /\ RowsKept /\ TypeOK' /\ Located'
  BY NextKeepsRows, NextType, NextLocated DEF TypeInv
<1>1. now \in Nat /\ now' \in Nat /\ TokenTTL \in Nat \ {0} /\ now' >= now
  BY <1>0, Constants DEF TypeOK, RowsKept
<1>2. \A r \in Request : /\ req[r].at \in Nat /\ req'[r].at \in Nat /\ req[r].late \in Nat
                         /\ req'[r].late \in Nat /\ req[r].scope \in SUBSET Key
  BY <1>0, Constants DEF TypeOK, RequestState, Time
<1>6. \A t \in Token : late[t] \in Nat /\ late'[t] \in Nat
  BY <1>0, Constants DEF TypeOK
<1>3. ASSUME NEW t \in Token, tok'[t].st # "unborn"
      PROVE  /\ tok'[t].exp <= now' + TokenTTL
             /\ \A k \in tok'[t].scope :
                  Backed(granted', lapsed', tok'[t].svc, k, tok'[t].exp - late'[t])
  <2>1. CASE tok[t].st = "unborn"
    <3>1. PICK r \in Request : /\ req[r].pc = "insert" /\ tok'[t].svc = req[r].svc
                               /\ tok'[t].scope = req[r].scope /\ tok'[t].exp = req[r].at
                               /\ late'[t] = req[r].late
      BY <1>3, <2>1, NewRows
    <3>2. req[r].svc \in Service /\ req[r].at <= now + TokenTTL
          /\ \A k \in req[r].scope :
               Backed(granted, lapsed, req[r].svc, k, req[r].at - req[r].late)
      BY <1>0, <3>1 DEF Located, LapseInv, PastVerify
    <3>4. req[r].at - req[r].late \in Int /\ req[r].at - req[r].late <= now + TokenTTL
          /\ req[r].at <= now' + TokenTTL
      BY <1>1, <1>2, <3>2
    <3>3. \A k \in req[r].scope :
            Backed(granted', lapsed', req[r].svc, k, req[r].at - req[r].late)
      BY <1>2, <3>2, <3>4, BackedKept
    <3>. QED
      BY <3>1, <3>3, <3>4
  <2>2. CASE tok[t].st # "unborn"
    <3>1. /\ tok'[t].svc = tok[t].svc /\ tok'[t].scope = tok[t].scope /\ tok'[t].exp = tok[t].exp
          /\ tok[t].svc \in Service /\ tok[t].exp \in Nat /\ tok[t].scope \in SUBSET Key
          /\ late'[t] = late[t]
      BY <1>0, <2>2, RowTypes, LateKept, Constants DEF RowsKept, Time
    <3>2. /\ tok[t].exp <= now + TokenTTL
          /\ \A k \in tok[t].scope : Backed(granted, lapsed, tok[t].svc, k, tok[t].exp - late[t])
      BY <2>2 DEF LapseInv
    <3>4. tok[t].exp - late[t] \in Int /\ tok[t].exp - late[t] <= now + TokenTTL
          /\ tok[t].exp <= now' + TokenTTL
      BY <1>1, <1>6, <3>1, <3>2
    <3>3. \A k \in tok[t].scope : Backed(granted', lapsed', tok[t].svc, k, tok[t].exp - late[t])
      BY <3>1, <3>2, <3>4, BackedKept
    <3>. QED
      BY <3>1, <3>3, <3>4
  <2>. QED
    BY <2>1, <2>2
<1>7. ASSUME NEW r \in Request, req'[r].pc = "issue"
      PROVE  \A k \in req'[r].scope :
               Backed(granted', lapsed', req'[r].svc, k, req'[r].at + TokenTTL)
  <2>1. CASE req'[r] = req[r]
    <3>1. req[r].svc \in Service /\ req[r].at <= now
          /\ \A k \in req[r].scope :
               Backed(granted, lapsed, req[r].svc, k, req[r].at + TokenTTL)
      BY <1>0, <1>7, <2>1 DEF Located, LapseInv, PastVerify
    <3>2. req[r].at + TokenTTL \in Int /\ req[r].at + TokenTTL <= now + TokenTTL
      BY <1>1, <1>2, <3>1
    <3>3. \A k \in req[r].scope : Backed(granted', lapsed', req[r].svc, k, req[r].at + TokenTTL)
      BY <1>2, <3>1, <3>2, BackedKept
    <3>. QED
      BY <2>1, <3>3
  <2>2. CASE TokenScope(r)
    <3>1. /\ req'[r].svc = req[r].svc /\ UNCHANGED granted
          /\ req'[r].scope = {k \in Key : <<req[r].svc, k>> \in granted}
      <4>1. ~Reply(r)
        BY <1>0, <1>7, Locals DEF Idle
      <4>2. UNCHANGED granted
        BY <2>2 DEF TokenScope, tables
      <4>. QED
        BY <1>0, <2>2, <4>1, <4>2, Locals DEF Carries
    <3>. QED
      BY <3>1 DEF Backed
  <2>3. CASE Arrive(r)
    BY <1>0, <1>7, <2>3, ArriveLocals DEF Arrive
  <2>4. CASE Handle(r) /\ ~TokenScope(r)
    BY <1>0, <1>7, <2>4, Locals
       DEF Handle, Idle, ChallengeStore, TokenInsert, Deliver, Abort
  <2>. QED
    BY <2>1, <2>2, <2>3, <2>4, RequestSteps
<1>4. ASSUME NEW r \in Request, req'[r].pc = "insert"
      PROVE  /\ req'[r].at <= now' + TokenTTL
             /\ \A k \in req'[r].scope :
                  Backed(granted', lapsed', req'[r].svc, k, req'[r].at - req'[r].late)
  <2>1. CASE req'[r] = req[r]
    <3>1. req[r].svc \in Service /\ req[r].at <= now + TokenTTL
          /\ \A k \in req[r].scope :
               Backed(granted, lapsed, req[r].svc, k, req[r].at - req[r].late)
      BY <1>0, <1>4, <2>1 DEF Located, LapseInv, PastVerify
    <3>2. req[r].at - req[r].late \in Int /\ req[r].at - req[r].late <= now + TokenTTL
          /\ req[r].at <= now' + TokenTTL
      BY <1>1, <1>2, <3>1
    <3>3. \A k \in req[r].scope :
            Backed(granted', lapsed', req[r].svc, k, req[r].at - req[r].late)
      BY <1>2, <3>1, <3>2, BackedKept
    <3>. QED
      BY <2>1, <3>2, <3>3
  <2>2. CASE TokenIssue(r)
    <3>1. /\ req'[r].at = now + TokenTTL /\ req'[r].svc = req[r].svc
          /\ req'[r].scope = req[r].scope /\ req'[r].late = now - req[r].at
      BY <1>0, <2>2, Locals DEF Carries
    <3>2. UNCHANGED <<granted, lapsed, now>> /\ req[r].pc = "issue"
      BY <2>2 DEF TokenIssue, tables, rest
    <3>3. req'[r].at - req'[r].late = req[r].at + TokenTTL /\ req'[r].at <= now' + TokenTTL
      BY <1>1, <1>2, <3>1, <3>2
    <3>4. \A k \in req[r].scope : Backed(granted, lapsed, req[r].svc, k, req[r].at + TokenTTL)
      BY <3>2 DEF LapseInv
    <3>. QED
      BY <3>1, <3>2, <3>3, <3>4
  <2>3. CASE Arrive(r)
    BY <1>0, <1>4, <2>3, ArriveLocals DEF Arrive
  <2>4. CASE Handle(r) /\ ~TokenIssue(r)
    BY <1>0, <1>4, <2>4, Locals
       DEF Handle, Idle, ChallengeStore, TokenInsert, Deliver, Abort
  <2>. QED
    BY <2>1, <2>2, <2>3, <2>4, RequestSteps
<1>5. ASSUME NEW r \in Request, req'[r].pc \in PastResolve
      PROVE  /\ req'[r].at <= now'
             /\ \A k \in req'[r].scope :
                  Backed(granted', lapsed', req'[r].svc, k, req'[r].at + 1 - late'[req'[r].tok])
  <2>1. CASE /\ req[r].pc \in PastResolve /\ req'[r].svc = req[r].svc /\ req'[r].at = req[r].at
             /\ req'[r].tok = req[r].tok /\ req'[r].scope \subseteq req[r].scope
    <3>. DEFINE t == req[r].tok
    <3>1. req[r].svc \in Service /\ req[r].at <= now /\ t \in Token /\ tok[t].st # "unborn"
          /\ \A k \in req[r].scope :
               Backed(granted, lapsed, req[r].svc, k, req[r].at + 1 - late[t])
      BY <1>0, <2>1 DEF Located, LapseInv, ReadPC
    <3>4. late'[t] = late[t] /\ late[t] \in Nat
      BY <1>6, <3>1, LateKept
    <3>2. req[r].at + 1 - late[t] \in Int /\ req[r].at + 1 - late[t] <= now + TokenTTL
          /\ req'[r].at <= now'
      BY <1>1, <1>2, <2>1, <3>1, <3>4
    <3>3. \A k \in req[r].scope :
            Backed(granted', lapsed', req[r].svc, k, req[r].at + 1 - late[t])
      BY <1>2, <3>1, <3>2, BackedKept
    <3>. QED
      BY <2>1, <3>2, <3>3, <3>4
  <2>2. CASE Resolve(r)
    <3>. DEFINE t == req[r].tok
    <3>1. /\ Resolvable(t) /\ t \in Token /\ req'[r].svc = tok[t].svc /\ req'[r].tok = t
          /\ req'[r].scope = tok[t].scope /\ req'[r].at = now
          /\ UNCHANGED <<now, granted, lapsed, late>>
      <4>1. ~Reply(r)
        BY <1>0, <1>5, Locals DEF Idle, PastResolve
      <4>2. req[r].tok \in Token /\ UNCHANGED <<now, granted, lapsed, late>>
        BY <1>0, <2>2 DEF Resolve, Located, ReadPC, tables, rest
      <4>. QED
        BY <1>0, <2>2, <4>1, <4>2, Locals DEF Same
    <3>2. /\ tok[t].exp > now
          /\ \A k \in tok[t].scope : Backed(granted, lapsed, tok[t].svc, k, tok[t].exp - late[t])
          /\ tok[t].svc \in Service /\ tok[t].exp \in Nat /\ tok[t].scope \in SUBSET Key
      BY <1>0, <3>1, RowTypes, Constants DEF Resolvable, LapseInv, Time
    <3>3. ASSUME NEW k \in tok[t].scope
          PROVE  Backed(granted, lapsed, tok[t].svc, k, now + 1 - late[t])
      <4>1. lapsed[<<tok[t].svc, k>>] \in Int
        BY <1>0, <3>2, Constants DEF TypeOK
      <4>. QED
        BY <1>1, <1>6, <3>1, <3>2, <4>1 DEF Backed
    <3>. QED
      BY <1>1, <3>1, <3>3
  <2>3. CASE Arrive(r)
    BY <1>0, <1>5, <2>3, ArriveLocals DEF Arrive, PastResolve
  <2>4. CASE ResolveTenant(r) \/ ReadRows(r) \/ ReadAudit(r)
    <3>1. req[r].pc \in PastResolve
      BY <2>4 DEF ResolveTenant, ReadRows, ReadAudit, PastResolve
    <3>2. ~Reply(r)
      BY <1>0, <1>5, Locals DEF Idle, PastResolve
    <3>. QED
      BY <1>0, <2>1, <2>4, <3>1, <3>2, Locals DEF Carries, Same
  <2>5. CASE Handle(r) /\ ~Resolve(r) /\ ~ResolveTenant(r) /\ ~ReadRows(r) /\ ~ReadAudit(r)
    BY <1>0, <1>5, <2>5, Locals
       DEF Handle, Idle, PastResolve, ChallengeStore, TokenInsert, Deliver, Abort
  <2>. QED
    BY <1>5, <2>1, <2>2, <2>3, <2>4, <2>5, RequestSteps
<1>. QED
  BY <1>3, <1>4, <1>5, <1>7 DEF LapseInv, Backed

(* Taking away a grant closes it, for every bearer, within one token        *)
(* lifetime and the time the reply with the token's scope took.             *)
THEOREM GrantsLapse == Spec => []GrantLapseBounded
<1>1. Init => LapseInv
  BY DEF Init, LapseInv, Idle, UnbornToken, PastResolve
<1>2. TypeInv /\ LapseInv /\ [Next]_vars => LapseInv'
  BY NextLapse
<1>3. TypeInv /\ LapseInv => GrantLapseBounded
  <2> SUFFICES ASSUME TypeInv, LapseInv, NEW r \in Request, req[r].pc \in PastResolve,
                      NEW k \in req[r].scope
               PROVE  \/ <<req[r].svc, k>> \in granted
                      \/ req[r].at < lapsed[<<req[r].svc, k>>] + TokenTTL + late[req[r].tok]
    BY DEF GrantLapseBounded
  <2>1. req[r].svc \in Service /\ k \in Key /\ req[r].at \in Nat /\ req[r].tok \in Token
    BY Constants DEF TypeInv, Located, TypeOK, RequestState, Time, ReadPC
  <2>2. lapsed[<<req[r].svc, k>>] \in Int /\ TokenTTL \in Nat /\ late[req[r].tok] \in Nat
    BY <2>1, Constants DEF TypeInv, TypeOK
  <2>3. Backed(granted, lapsed, req[r].svc, k, req[r].at + 1 - late[req[r].tok])
    BY DEF LapseInv
  <2>. QED
    BY <2>1, <2>2, <2>3 DEF Backed
<1>. QED
  BY <1>1, <1>2, <1>3, TypeCorrect, PTL DEF Spec, TypeInv

-----------------------------------------------------------------------------
(* The end of a token.  revoke() sets the status first, and no service      *)
(* comes back: when its second statement runs the service is not active.    *)
RevokingInv == \A s \in revoking : service[s].st \notin {"unborn", "active"}

(* Only Revoke puts a service among those whose tokens are to be revoked. *)
LEMMA NextRevoking ==
  ASSUME TypeInv, RevokingInv, [Next]_vars
  PROVE  RevokingInv'
<1>0. TypeOK /\ RowsKept /\ revoking \subseteq Service
  BY NextKeepsRows DEF TypeInv, TypeOK
<1>1. CASE revoking' \subseteq revoking
  BY <1>0, <1>1 DEF RevokingInv, RowsKept
<1>2. ASSUME NEW s \in Service, Revoke(s)
      PROVE  RevokingInv'
  <2>1. service'[s].st = "revoked" /\ revoking' = revoking \cup {s}
    BY <1>0, <1>2 DEF Revoke, TypeOK, ServiceRow
  <2>. QED
    BY <1>0, <2>1 DEF RevokingInv, RowsKept
<1>3. CASE \E r \in Request : Arrive(r) \/ Handle(r)
  BY <1>1, <1>3 DEF Arrive, Handle, ChallengeBegin, TokenBegin, ReadBegin, ChallengeLookup, ChallengeDraw,
      ChallengeStore, TokenFind, TokenVerify, TokenConsume, TokenScope, TokenIssue, TokenInsert,
      Resolve, ResolveTenant, ReadRows, ReadAudit, Deliver, Abort, rest
<1>4. CASE Manage
  BY <1>1, <1>2, <1>4 DEF Manage, CreateService, RotateKey, RevokeTokens, DeleteService,
      AddGrants, DeleteGrant, DeleteKey, rest
<1>5. CASE SweepChallenges \/ SweepTokens \/ Tick \/ UNCHANGED vars
  BY <1>1, <1>5 DEF SweepChallenges, SweepTokens, Tick, vars, rest
<1>. QED
  BY <1>3, <1>4, <1>5 DEF Next

(* Before its expiry, and while its service is active, a token stays live. *)
LEMMA StaysLive ==
  ASSUME TypeInv, RevokingInv, [Next]_vars, NEW t \in Token, Resolvable(t),
         now' < tok[t].exp, service'[tok[t].svc].st = "active"
  PROVE  tok'[t].st = "live"
<1>0. /\ TypeOK /\ RowsKept /\ tok[t].st = "live" /\ service[tok[t].svc].st = "active"
      /\ tok[t].svc \in Service /\ tok[t].exp \in Nat /\ now \in Nat /\ now' \in Nat /\ now' >= now
  BY NextKeepsRows, NextType, RowTypes, Constants DEF TypeInv, TypeOK, Resolvable, RowsKept, Time
<1>1. CASE UNCHANGED tok
  BY <1>0, <1>1
<1>2. ASSUME NEW r \in Request, TokenInsert(r)
      PROVE  tok'[t].st = "live"
  BY <1>0, <1>2 DEF TokenInsert, TypeOK
<1>3. ASSUME NEW s \in Service, RevokeTokens(s)
      PROVE  tok'[t].st = "live"
  BY <1>0, <1>3 DEF RevokeTokens, RevokingInv, TypeOK
<1>4. ASSUME NEW s \in Service, DeleteService(s)
      PROVE  tok'[t].st = "live"
  BY <1>0, <1>4 DEF DeleteService, Cascade, TypeOK
<1>5. CASE SweepTokens
  BY <1>0, <1>5 DEF SweepTokens, Swept, TypeOK, rest
<1>6. CASE \E r \in Request : Arrive(r) \/ Handle(r)
  BY <1>1, <1>2, <1>6 DEF Arrive, Handle, ChallengeBegin, TokenBegin, ReadBegin,
      ChallengeLookup, ChallengeDraw, ChallengeStore, TokenFind, TokenVerify, TokenConsume,
      TokenScope, TokenIssue,
      Resolve, ResolveTenant, ReadRows, ReadAudit, Deliver, Abort, tables
<1>7. CASE Manage
  BY <1>1, <1>3, <1>4, <1>7 DEF Manage, CreateService, RotateKey, Revoke, AddGrants,
      DeleteGrant, DeleteKey
<1>8. CASE SweepChallenges \/ Tick \/ UNCHANGED vars
  BY <1>1, <1>8 DEF SweepChallenges, Tick, vars, tables
<1>. QED
  BY <1>5, <1>6, <1>7, <1>8 DEF Next

(* A token ends only by expiring or with its own service, however many      *)
(* services, sweeps and revocations there are.                              *)
THEOREM TokensEndForAReason == Spec => TokenLivesOutItsTTL
<1>1. Init => RevokingInv
  BY DEF Init, RevokingInv
<1>2. TypeInv /\ RevokingInv /\ [Next]_vars => RevokingInv'
  BY NextRevoking
<1>3. TypeInv /\ RevokingInv /\ [Next]_vars =>
        [\A t \in Token : Resolvable(t) /\ ~Resolvable(t)' =>
           now' >= tok[t].exp \/ service'[tok[t].svc].st # "active"]_vars
  <2> SUFFICES ASSUME TypeInv, RevokingInv, [Next]_vars, NEW t \in Token, Resolvable(t),
                      ~(now' >= tok[t].exp), service'[tok[t].svc].st = "active"
               PROVE  Resolvable(t)'
    OBVIOUS
  <2>1. /\ tok'[t].exp = tok[t].exp /\ tok'[t].svc = tok[t].svc
        /\ tok[t].exp \in Nat /\ now' \in Nat
    BY NextKeepsRows, NextType, RowTypes, Constants
       DEF RowsKept, TypeInv, TypeOK, Resolvable, Time
  <2>2. tok'[t].st = "live"
    BY <2>1, StaysLive
  <2>. QED
    BY <2>1, <2>2 DEF Resolvable
<1>. QED
  BY <1>1, <1>2, <1>3, TypeCorrect, PTL DEF Spec, TypeInv, TokenLivesOutItsTTL
=============================================================================

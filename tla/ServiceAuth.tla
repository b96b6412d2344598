---------------------------- MODULE ServiceAuth ----------------------------
(***************************************************************************)
(* The retrieval plane of cuki: a service proves possession of its private *)
(* key against a single-use challenge, gets a short-lived access token     *)
(* with a snapshot of its grants as scope, and reads secrets sealed to its *)
(* public key.  Management requests (revoke, rotate, delete, grant) and    *)
(* the sweeper change the same tables meanwhile.                           *)
(*                                                                         *)
(* Grain of atomicity: one SQL statement.  A handler is a sequence of      *)
(* statements; what it computes in memory after a statement's reply        *)
(* belongs to the action of that statement, and everything in the          *)
(* database may change before the next one.  The clock is the exception:   *)
(* the reply takes time.  Where a handler reads the clock to set an expiry *)
(* (ChallengeDraw, TokenIssue) the arrival of the reply is a step of its   *)
(* own.  Where it compares the clock with a row it was sent (TokenFind,    *)
(* TokenVerify, Resolve) it is not: a later clock can only refuse what an  *)
(* earlier one accepts, and a request may be given up at any step (Abort). *)
(* Requests run on any number of stateless instances, so a request is all  *)
(* the local state there is.                                               *)
(*                                                                         *)
(* Left out: the in-memory rate limiter (only its verdict appears, as the  *)
(* choice to refuse a request at its first step); the audit rows of failed *)
(* authentications and last_auth_at (no handler here reads them).          *)
(***************************************************************************)
EXTENDS Integers

CONSTANTS
  Service,       \* services.id
  Key,           \* keys.id, all of one environment
  Challenge,     \* challenges.id; a ULID is never drawn twice
  Token,         \* access_tokens.id, likewise
  Request,       \* slots for HTTP requests in flight
  ChallengeTTL,  \* cfg.ttl.challenge
  TokenTTL,      \* cfg.ttl.token
  MaxTime,       \* bound: the clock stops here
  MaxGen,        \* bound: keypairs a service can have had
  DbFails,       \* BOOLEAN: may a statement fail?
  None           \* no value

ASSUME ConstantsAssumption ==
  /\ {ChallengeTTL, TokenTTL, MaxTime, MaxGen} \subseteq Nat \ {0}
  /\ DbFails \in BOOLEAN
  /\ None \notin Service \cup Key \cup Challenge \cup Token

VARIABLES
  now,       \* Date.now()
  service,   \* table services: status and keypair generation
  granted,   \* table grants: pairs <<service, key>>
  keys,      \* table keys: the ids that exist
  chal,      \* table challenges
  tok,       \* table access_tokens
  revoking,  \* services whose revoke() set the status, tokens still to come
  req,       \* local state of every request in flight
  \* history variables: read by the properties only
  origin,    \* the challenge each token was issued for
  late,      \* how long the reply that carried each token's scope took
  lapsed     \* when a grant last disappeared

vars == <<now, service, granted, keys, chal, tok, revoking, req, origin, late, lapsed>>

-----------------------------------------------------------------------------
(* Rows.  An id that is not in its table is "unborn" or "gone"; a row that  *)
(* is gone keeps its data, which nothing in the system reads any more.      *)

Time == 0 .. (MaxTime + ChallengeTTL + TokenTTL)
Gen  == 0 .. MaxGen          \* 0: not a keypair of the service

ServiceRow == [st : {"unborn", "active", "revoked", "gone"}, gen : Gen]
UnbornChallenge == [st |-> "unborn", svc |-> None, exp |-> 0]
UnbornToken     == [st |-> "unborn", svc |-> None, scope |-> {}, exp |-> 0]
ChallengeRow ==
  {UnbornChallenge} \cup [st : {"open", "consumed", "gone"}, svc : Service, exp : Time]
TokenRow ==
  {UnbornToken} \cup [st : {"live", "revoked", "gone"}, svc : Service,
                      scope : SUBSET Key, exp : Time]

InTable(row) == row.st \notin {"unborn", "gone"}

(* The local variables of a request; "idle" is a free slot.  gen is the      *)
(* keypair that made the signature (token request) or the one the service   *)
(* had when its bearer was resolved (read); at is the last time the request *)
(* has to remember.  gen0 and live0 are history: the service's keypair, and *)
(* whether it was active, when the request came; so is late, above.         *)
RequestState ==
  [pc : {"idle", "lookup", "draw", "store",
         "find", "verify", "consume", "scope", "issue", "insert",
         "resolve", "tenant", "rows", "audit", "deliver"},
   svc : Service \cup {None}, ch : Challenge \cup {None}, tok : Token \cup {None},
   name : Key \cup {None}, gen : Gen, scope : SUBSET Key, at : Time,
   logged : BOOLEAN, gen0 : Gen, live0 : BOOLEAN, late : 0 .. MaxTime]
Idle == [pc |-> "idle", svc |-> None, ch |-> None, tok |-> None, name |-> None,
         gen |-> 0, scope |-> {}, at |-> 0, logged |-> FALSE,
         gen0 |-> 0, live0 |-> FALSE, late |-> 0]

TypeOK ==
  /\ now \in 0 .. MaxTime
  /\ service \in [Service -> ServiceRow]
  /\ granted \in SUBSET (Service \X Key)
  /\ keys \in SUBSET Key
  /\ chal \in [Challenge -> ChallengeRow]
  /\ tok \in [Token -> TokenRow]
  /\ revoking \in SUBSET Service
  /\ req \in [Request -> RequestState]
  /\ origin \in [Token -> Challenge \cup {None}]
  /\ late \in [Token -> 0 .. MaxTime]
  /\ lapsed \in [Service \X Key -> -TokenTTL .. MaxTime]

(* Services exist with any grants, no one has authenticated yet.  A grant   *)
(* that was never held counts as lapsed one TokenTTL ago.                   *)
Init ==
  /\ now = 0
  /\ service \in [Service -> {[st |-> "active", gen |-> 1], [st |-> "unborn", gen |-> 0]}]
  /\ granted \in SUBSET {p \in Service \X Key : service[p[1]].st = "active"}
  /\ keys = Key
  /\ chal = [c \in Challenge |-> UnbornChallenge]
  /\ tok = [t \in Token |-> UnbornToken]
  /\ revoking = {}
  /\ req = [r \in Request |-> Idle]
  /\ origin = [t \in Token |-> None]
  /\ late = [t \in Token |-> 0]
  /\ lapsed = [p \in Service \X Key |-> -TokenTTL]

-----------------------------------------------------------------------------
(* POST /v1/auth/challenge.  A request the rate limiter refuses changes     *)
(* nothing, here and below.                                                 *)

tables == <<service, granted, keys, chal, tok>>
rest   == <<now, revoking, origin, late, lapsed>>

(* A request's locals become new; its reply is sent and its slot free. *)
Become(r, new) == req' = [req EXCEPT ![r] = new]
Reply(r) == Become(r, Idle)

ChallengeBegin(r, s) ==
  /\ req[r] = Idle
  /\ Become(r, [req[r] EXCEPT !.pc = "lookup", !.svc = s])
  /\ UNCHANGED <<tables, rest>>

(* findByHandle; the second disjunct is an unknown handle, a revoked        *)
(* service, a source address outside the allowlist or a failed statement.   *)
ChallengeLookup(r) ==
  /\ req[r].pc = "lookup"
  /\ \/ /\ service[req[r].svc].st = "active"
        /\ Become(r, [req[r] EXCEPT !.pc = "draw"])
     \/ Reply(r)
  /\ UNCHANGED <<tables, rest>>

(* The row is there: a nonce is drawn and its expiry set. *)
ChallengeDraw(r) ==
  /\ req[r].pc = "draw"
  /\ Become(r, [req[r] EXCEPT !.pc = "store", !.at = now + ChallengeTTL])
  /\ UNCHANGED <<tables, rest>>

(* The foreign key refuses a challenge whose service is gone. *)
ChallengeStore(r) ==
  /\ req[r].pc = "store"
  /\ \/ /\ InTable(service[req[r].svc])
        /\ \E c \in Challenge :
             /\ chal[c].st = "unborn"
             /\ chal' = [chal EXCEPT ![c] =
                           [st |-> "open", svc |-> req[r].svc, exp |-> req[r].at]]
     \/ (DbFails \/ ~InTable(service[req[r].svc])) /\ UNCHANGED chal
  /\ Reply(r)
  /\ UNCHANGED <<service, granted, keys, tok, rest>>

-----------------------------------------------------------------------------
(* POST /v1/auth/token.                                                     *)

(* The client presents a challenge it was given and a signature by keypair  *)
(* g of the challenged service; 0 is any other signature.                   *)
TokenBegin(r, c, g) ==
  /\ req[r] = Idle
  /\ chal[c].st # "unborn"
  /\ g <= service[chal[c].svc].gen
  /\ Become(r, [req[r] EXCEPT !.pc = "find", !.ch = c, !.gen = g,
               !.gen0 = service[chal[c].svc].gen,
               !.live0 = (service[chal[c].svc].st = "active")])
  /\ UNCHANGED <<tables, rest>>

(* Mutant: without isNull(consumedAt). *)
UsableTwice(c, at) == chal[c].st \in {"open", "consumed"} /\ chal[c].exp > at

(* The conditions of consumeChallenge, and of the check that precedes it. *)
Usable(c, at) == chal[c].st = "open" /\ chal[c].exp > at

TokenFind(r) ==
  /\ req[r].pc = "find"
  /\ \/ /\ Usable(req[r].ch, now)
        /\ Become(r, [req[r] EXCEPT !.pc = "verify", !.svc = chal[req[r].ch].svc])
     \/ (DbFails \/ ~Usable(req[r].ch, now)) /\ Reply(r)
  /\ UNCHANGED <<tables, rest>>

(* Mutant: any keypair the service ever had verifies. *)
AuthenticByAnyKey(r) == service[req[r].svc].st = "active" /\ req[r].gen # 0

(* The service must be active and the signature made by the keypair its row *)
(* holds now. *)
Authentic(r) ==
  /\ service[req[r].svc].st = "active"
  /\ req[r].gen = service[req[r].svc].gen

(* findById, verify in memory, take the time for the next statement. *)
TokenVerify(r) ==
  /\ req[r].pc = "verify"
  /\ \/ Authentic(r) /\ Become(r, [req[r] EXCEPT !.pc = "consume", !.at = now])
     \/ (DbFails \/ ~Authentic(r)) /\ Reply(r)
  /\ UNCHANGED <<tables, rest>>

(* The conditional UPDATE; if its reply is lost the challenge is spent.     *)
TokenConsume(r) ==
  /\ req[r].pc = "consume"
  /\ \/ /\ Usable(req[r].ch, req[r].at)
        /\ chal' = [chal EXCEPT ![req[r].ch].st = "consumed"]
        /\ Become(r, [req[r] EXCEPT !.pc = "scope"]) \/ (DbFails /\ Reply(r))
     \/ /\ DbFails \/ ~Usable(req[r].ch, req[r].at)
        /\ Reply(r)
        /\ UNCHANGED chal
  /\ UNCHANGED <<service, granted, keys, tok, rest>>

(* keyIdsForService: the scope snapshot; an error here issues nothing. *)
TokenScope(r) ==
  /\ req[r].pc = "scope"
  /\ \/ Become(r, [req[r] EXCEPT !.pc = "issue", !.at = now,
                  !.scope = {k \in Key : <<req[r].svc, k>> \in granted}])
     \/ DbFails /\ Reply(r)
  /\ UNCHANGED <<tables, rest>>

(* Mutant: a lifetime in the wrong unit. *)
TokenIssueSeconds(r) ==
  /\ req[r].pc = "issue"
  /\ Become(r, [req[r] EXCEPT !.pc = "insert", !.at = now + 1000 * TokenTTL,
               !.late = now - req[r].at])
  /\ UNCHANGED <<tables, rest>>

(* The snapshot is there: the token is made up and its lifetime starts. *)
TokenIssue(r) ==
  /\ req[r].pc = "issue"
  /\ Become(r, [req[r] EXCEPT !.pc = "insert", !.at = now + TokenTTL,
               !.late = now - req[r].at])
  /\ UNCHANGED <<tables, rest>>

(* createToken, and the reply that carries the token. *)
TokenInsert(r) ==
  /\ req[r].pc = "insert"
  /\ \/ /\ InTable(service[req[r].svc])
        /\ \E t \in Token :
             /\ tok[t].st = "unborn"
             /\ tok' = [tok EXCEPT ![t] = [st |-> "live", svc |-> req[r].svc,
                                           scope |-> req[r].scope, exp |-> req[r].at]]
             /\ origin' = [origin EXCEPT ![t] = req[r].ch]
             /\ late' = [late EXCEPT ![t] = req[r].late]
     \/ (DbFails \/ ~InTable(service[req[r].svc])) /\ UNCHANGED <<tok, origin, late>>
  /\ Reply(r)
  /\ UNCHANGED <<now, service, granted, keys, chal, revoking, lapsed>>

-----------------------------------------------------------------------------
(* GET /v1/secrets (n = None) and GET /v1/secrets/:name.                    *)

ReadBegin(r, t, n) ==
  /\ req[r] = Idle
  /\ tok[t].st # "unborn"
  /\ Become(r, [req[r] EXCEPT !.pc = "resolve", !.tok = t, !.name = n,
               !.gen0 = service[tok[t].svc].gen,
               !.live0 = (service[tok[t].svc].st = "active")])
  /\ UNCHANGED <<tables, rest>>

(* Mutants: the status is not read; a token works in its last instant. *)
ResolvableWhenRevoked(t) == tok[t].st = "live" /\ tok[t].exp > now
ResolvableAtExpiry(t) ==
  tok[t].st = "live" /\ tok[t].exp >= now /\ service[tok[t].svc].st = "active"

(* findTokenByHash joins the token with its service. *)
Resolvable(t) ==
  /\ tok[t].st = "live"
  /\ tok[t].exp > now
  /\ service[tok[t].svc].st = "active"

Resolve(r) ==
  /\ req[r].pc = "resolve"
  /\ LET t == req[r].tok IN
     \/ /\ Resolvable(t)
        /\ Become(r, [req[r] EXCEPT !.pc = "tenant", !.svc = tok[t].svc,
                     !.gen = service[tok[t].svc].gen,
                     !.scope = tok[t].scope, !.at = now])
     \/ (DbFails \/ ~Resolvable(t)) /\ Reply(r)
  /\ UNCHANGED <<tables, rest>>

(* orgAndEnvForService: the row may be gone by now. *)
ResolveTenant(r) ==
  /\ req[r].pc = "tenant"
  /\ \/ InTable(service[req[r].svc]) /\ Become(r, [req[r] EXCEPT !.pc = "rows"])
     \/ (DbFails \/ ~InTable(service[req[r].svc])) /\ Reply(r)
  /\ UNCHANGED <<tables, rest>>

(* readForService: a failed statement counts as no rows; scope becomes what *)
(* is sealed.  The Reply is a name that is not there, or a decryption error.*)
ReadRows(r) ==
  /\ req[r].pc = "rows"
  /\ \E rows \in {req[r].scope \cap keys} \cup (IF DbFails THEN {{}} ELSE {}) :
       LET selected == IF req[r].name = None THEN rows ELSE rows \cap {req[r].name} IN
       \/ /\ req[r].name # None => selected # {}
          /\ Become(r, [req[r] EXCEPT !.pc = "audit", !.scope = selected])
       \/ (req[r].name # None \/ selected # {}) /\ Reply(r)
  /\ UNCHANGED <<tables, rest>>

(* audit.record: an append that fails is logged and swallowed. *)
ReadAudit(r) ==
  /\ req[r].pc = "audit"
  /\ \E written \in {TRUE, ~DbFails} :
       Become(r, [req[r] EXCEPT !.pc = "deliver", !.logged = written])
  /\ UNCHANGED <<tables, rest>>

Deliver(r) ==
  /\ req[r].pc = "deliver"
  /\ Reply(r)
  /\ UNCHANGED <<tables, rest>>

(* The client disconnects or the instance stops: the handler just ends. *)
Abort(r) ==
  /\ req[r].pc # "idle"
  /\ Reply(r)
  /\ UNCHANGED <<tables, rest>>

-----------------------------------------------------------------------------
(* Management requests.  Only revoke() has two statements that matter.      *)

CreateService(s) ==
  /\ service[s].st = "unborn"
  /\ service' = [service EXCEPT ![s] = [st |-> "active", gen |-> 1]]
  /\ UNCHANGED <<granted, keys, chal, tok, req, rest>>

RotateKey(s) ==
  /\ InTable(service[s])
  /\ service[s].gen < MaxGen
  /\ service' = [service EXCEPT ![s].gen = @ + 1]
  /\ UNCHANGED <<granted, keys, chal, tok, req, rest>>

Revoke(s) ==
  /\ InTable(service[s])
  /\ service' = [service EXCEPT ![s].st = "revoked"]
  /\ revoking' = revoking \cup {s}
  /\ UNCHANGED <<now, granted, keys, chal, tok, req, origin, late, lapsed>>

(* revokeAllForService; its failure is ignored. *)
RevokeTokens(s) ==
  /\ s \in revoking
  /\ \/ tok' = [t \in Token |-> IF tok[t].svc = s /\ tok[t].st = "live"
                                THEN [tok[t] EXCEPT !.st = "revoked"] ELSE tok[t]]
     \/ DbFails /\ UNCHANGED tok
  /\ revoking' = revoking \ {s}
  /\ UNCHANGED <<now, service, granted, keys, chal, req, origin, late, lapsed>>

(* Grants that disappear are remembered with the time. *)
Ungrant(pairs) ==
  /\ granted' = granted \ pairs
  /\ lapsed' = [p \in Service \X Key |-> IF p \in granted \cap pairs THEN now ELSE lapsed[p]]

(* Every table that references services cascades. *)
Cascade(table, s) ==
  [i \in DOMAIN table |-> IF table[i].svc = s THEN [table[i] EXCEPT !.st = "gone"] ELSE table[i]]

DeleteService(s) ==
  /\ InTable(service[s])
  /\ service' = [service EXCEPT ![s].st = "gone"]
  /\ chal' = Cascade(chal, s)
  /\ tok' = Cascade(tok, s)
  /\ Ungrant({s} \X Key)
  /\ UNCHANGED <<now, keys, revoking, req, origin, late>>

AddGrants(s, ks) ==
  /\ InTable(service[s])
  /\ granted' = granted \cup ({s} \X ks)
  /\ UNCHANGED <<service, keys, chal, tok, req, rest>>

DeleteGrant(s, k) ==
  /\ <<s, k>> \in granted
  /\ Ungrant({<<s, k>>})
  /\ UNCHANGED <<now, service, keys, chal, tok, revoking, req, origin, late>>

DeleteKey(k) ==
  /\ k \in keys
  /\ keys' = keys \ {k}
  /\ Ungrant(Service \X {k})
  /\ UNCHANGED <<now, service, chal, tok, revoking, req, origin, late>>

-----------------------------------------------------------------------------
(* sweepLoop.  A statement that fails deletes nothing and is tried again in *)
(* the next round.                                                          *)

(* Mutants: the comparison turned round; used rows are kept. *)
SweptEarly(table) ==
  [i \in DOMAIN table |-> IF InTable(table[i]) /\ table[i].exp > now
                          THEN [table[i] EXCEPT !.st = "gone"] ELSE table[i]]
SweptUnused(table) ==
  [i \in DOMAIN table |-> IF table[i].st \in {"open", "live"} /\ table[i].exp < now
                          THEN [table[i] EXCEPT !.st = "gone"] ELSE table[i]]

Swept(table) ==
  [i \in DOMAIN table |-> IF InTable(table[i]) /\ table[i].exp < now
                          THEN [table[i] EXCEPT !.st = "gone"] ELSE table[i]]

SweepChallenges ==
  /\ chal' = Swept(chal)
  /\ UNCHANGED <<service, granted, keys, tok, req, rest>>

SweepTokens ==
  /\ tok' = Swept(tok)
  /\ UNCHANGED <<service, granted, keys, chal, req, rest>>

Tick ==
  /\ now < MaxTime
  /\ now' = now + 1
  /\ UNCHANGED <<tables, revoking, req, origin, late, lapsed>>

-----------------------------------------------------------------------------
Handle(r) ==
  \/ ChallengeLookup(r) \/ ChallengeDraw(r) \/ ChallengeStore(r)
  \/ TokenFind(r) \/ TokenVerify(r) \/ TokenConsume(r)
  \/ TokenScope(r) \/ TokenIssue(r) \/ TokenInsert(r)
  \/ Resolve(r) \/ ResolveTenant(r) \/ ReadRows(r) \/ ReadAudit(r) \/ Deliver(r)
  \/ Abort(r)

Arrive(r) ==
  \/ \E s \in Service : ChallengeBegin(r, s)
  \/ \E c \in Challenge, g \in Gen : TokenBegin(r, c, g)
  \/ \E t \in Token, n \in Key \cup {None} : ReadBegin(r, t, n)

Manage ==
  \/ \E s \in Service : \/ CreateService(s) \/ RotateKey(s) \/ Revoke(s)
                        \/ RevokeTokens(s) \/ DeleteService(s)
                        \/ \E ks \in SUBSET keys : AddGrants(s, ks)
                        \/ \E k \in Key : DeleteGrant(s, k)
  \/ \E k \in Key : DeleteKey(k)

Next ==
  \/ \E r \in Request : Arrive(r) \/ Handle(r)
  \/ Manage
  \/ SweepChallenges \/ SweepTokens
  \/ Tick

Spec == Init /\ [][Next]_vars

(* The clock runs and every instance repeats its sweep for ever. *)
FairSpec == Spec /\ WF_vars(SweepChallenges) /\ WF_vars(SweepTokens)

-----------------------------------------------------------------------------
(* Properties.                                                              *)

(* A challenge yields at most one token, whatever requests race for it,     *)
(* repeat it or lose the reply of the UPDATE that spends it.                *)
SingleUse ==
  \A t1, t2 \in Token : t1 # t2 /\ origin[t1] # None => origin[t1] # origin[t2]

PastVerify == {"consume", "scope", "issue", "insert"}
PastResolve == {"tenant", "rows", "audit", "deliver"}

(* A request that arrives after its service was revoked or deleted neither  *)
(* spends a challenge nor reads a secret, although revoke() may have left   *)
(* tokens unrevoked.                                                        *)
RevocationHonoured ==
  \A r \in Request : req[r].pc \in PastVerify \cup PastResolve => req[r].live0

(* A request that arrives after a rotation neither authenticates with the   *)
(* keypair it replaced nor has its secrets sealed to it.                    *)
RotationHonoured ==
  \A r \in Request : req[r].pc \in PastVerify \cup PastResolve => req[r].gen >= req[r].gen0

(* Taking a grant away takes effect within one token lifetime and the time  *)
(* the snapshot was under way: the row of a bearer's token admits it to a   *)
(* key only if the grant is held, or lapsed less than TokenTTL and that     *)
(* latency before, however long the token's request paused afterwards.  A   *)
(* key that was never granted is never in a scope.                          *)
GrantLapseBounded ==
  \A r \in Request : req[r].pc \in PastResolve =>
    \A k \in req[r].scope :
      \/ <<req[r].svc, k>> \in granted
      \/ req[r].at < lapsed[<<req[r].svc, k>>] + TokenTTL + late[req[r].tok]

(* A token stops working by expiring, or because its own service was        *)
(* revoked or deleted; never because the sweeper, another request or the    *)
(* revocation of another service touched its row.                           *)
TokenLivesOutItsTTL ==
  [][\A t \in Token : Resolvable(t) /\ ~Resolvable(t)' =>
        now' >= tok[t].exp \/ service'[tok[t].svc].st # "active"]_vars

(* Expired challenges and tokens leave the tables, used or not. *)
ExpiredSwept ==
  /\ \A c \in Challenge : chal[c].exp < now ~> ~InTable(chal[c])
  /\ \A t \in Token : tok[t].exp < now ~> ~InTable(tok[t])

(* What the repository says and the code does not do.                       *)

(* "mark the service revoked and revoke all its outstanding access tokens": *)
(* once both statements are done no token of the service is unrevoked.      *)
RevokeLeavesNoToken ==
  \A t \in Token :
    tok[t].st = "live" /\ service[tok[t].svc].st = "revoked" => tok[t].svc \in revoking

(* "Narrowing takes effect within one token TTL": the lifetime starts when  *)
(* the snapshot has arrived, and a grant may go while it is under way.      *)
GrantLapseStrict ==
  \A r \in Request : req[r].pc \in PastResolve =>
    \A k \in req[r].scope :
      <<req[r].svc, k>> \in granted \/ req[r].at < lapsed[<<req[r].svc, k>>] + TokenTTL

(* "audited on every read": sealed secrets go out with an audit row. *)
EveryReadAudited == \A r \in Request : req[r].pc = "deliver" => req[r].logged

(* A service that cannot fetch what it needs fails fast and never starts    *)
(* half-configured: a read of everything in scope answers with nothing only *)
(* if nothing in scope exists.                                              *)
NothingOnlyIfNothing ==
  \A r \in Request : req[r].pc = "audit" /\ req[r].name = None /\ req[r].scope = {} =>
    tok[req[r].tok].scope \cap keys = {}
===========================================================================

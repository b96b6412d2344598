------------------------------- MODULE Client -------------------------------
(***************************************************************************)
(* The client SDK: concurrent calls of one Cuki object share a cached      *)
(* access token; a call without a usable one authenticates, and a call     *)
(* whose token is refused drops the cache and authenticates once more.     *)
(*                                                                         *)
(* Grain of atomicity: what a promise runs between two awaits.  The server *)
(* acts when it answers; the answer arrives later, in any order with those *)
(* of other calls, or is lost.  The server is what its answers show: its   *)
(* own races are those of ServiceAuth.                                     *)
(*                                                                         *)
(* Time is what is left of each token's life, so the clock needs no bound. *)
(* A token nobody holds any more may be drawn again.                       *)
(***************************************************************************)
EXTENDS Integers

CONSTANTS
  Call,      \* slots for calls in progress
  Token,     \* access tokens
  TTL,       \* lifetime of a token
  Skew,      \* REFRESH_SKEW_MS
  Drift,     \* the client's clock is at most this far from the server's
  Failures,  \* BOOLEAN: may answers be lost or be 5xx?
  None       \* no value

ASSUME ConstantsAssumption ==
  /\ TTL \in Nat \ {0} /\ Skew \in Nat /\ Drift \in Nat
  /\ Failures \in BOOLEAN
  /\ None \notin Token \cup Call

VARIABLES
  status,   \* the service on the server
  life,     \* what is left of each token's lifetime
  clock,    \* the client's clock minus the server's
  cache,    \* this.token
  call,     \* local state of each call
  \* history variables: read by the properties only
  waited,   \* ticks a request takes to reach the server
  owner     \* the call each token was issued to

vars == <<status, life, clock, cache, call, waited, owner>>

-----------------------------------------------------------------------------
(* A call wants one secret, by its name, or all of them.  An answer the      *)
(* server gave waits in the call until the client handles it.                *)
Answers == {"none", "ok", "401", "404"}
CallState ==
  [pc : {"idle", "challenge", "token", "issued", "fetch", "answer"},
   named : BOOLEAN, attempt : 0 .. 1, bearer : Token \cup {None}, answer : Answers]
Idle ==
  [pc |-> "idle", named |-> FALSE, attempt |-> 0, bearer |-> None, answer |-> "none"]

TypeOK ==
  /\ status \in {"active", "rotated", "revoked"}
  /\ life \in [Token -> 0 .. TTL]
  /\ clock \in -Drift .. Drift
  /\ cache \in Token \cup {None}
  /\ call \in [Call -> CallState]
  /\ waited \in [Call -> 0 .. Skew + 1]
  /\ owner \in [Token -> Call \cup {None}]

Init ==
  /\ status = "active"
  /\ life = [t \in Token |-> 0]
  /\ clock \in -Drift .. Drift
  /\ cache = None
  /\ call = [c \in Call |-> Idle]
  /\ waited = [c \in Call |-> 0]
  /\ owner = [t \in Token |-> None]

-----------------------------------------------------------------------------
(* The client.                                                              *)

server == <<status, life, clock>>

(* Mutant: without the margin. *)
UsableToTheEnd(t) == t # None /\ life[t] - clock > 0

(* expiresAt - REFRESH_SKEW_MS > Date.now(), by the client's clock. *)
Usable(t) == t # None /\ life[t] - clock > Skew

(* Mutant: without force. *)
EnsureTokenUnforced(c, new) ==
  IF Usable(cache)
  THEN call' = [call EXCEPT ![c] = [new EXCEPT !.pc = "fetch", !.bearer = cache]]
  ELSE call' = [call EXCEPT ![c] = [new EXCEPT !.pc = "challenge"]]

(* ensureToken, up to its first await; a second attempt does not look at    *)
(* the cache.                                                               *)
EnsureToken(c, new) ==
  IF Usable(cache) /\ new.attempt = 0
  THEN call' = [call EXCEPT ![c] = [new EXCEPT !.pc = "fetch", !.bearer = cache]]
  ELSE call' = [call EXCEPT ![c] = [new EXCEPT !.pc = "challenge"]]

Begin(c, named) ==
  /\ call[c] = Idle
  /\ EnsureToken(c, [Idle EXCEPT !.named = named])
  /\ waited' = [waited EXCEPT ![c] = 0]
  /\ owner' = [t \in Token |-> IF owner[t] = c THEN None ELSE owner[t]]
  /\ UNCHANGED <<server, cache>>

(* The promise is settled, with a value or an error: nothing of it is left. *)
Finish(c) == call' = [call EXCEPT ![c] = Idle]

(* The token arrives and replaces whatever is cached. *)
TokenArrives(c) ==
  /\ call[c].pc = "issued"
  /\ cache' = call[c].bearer
  /\ call' = [call EXCEPT ![c].pc = "fetch"]
  /\ UNCHANGED <<server, waited, owner>>

(* Mutants: one attempt too many; attempts are not counted. *)
RetryAgain(c) ==
  /\ call[c].pc = "answer" /\ call[c].answer = "401" /\ call[c].attempt <= 1
  /\ cache' = None
  /\ EnsureToken(c, [call[c] EXCEPT !.attempt = @ + 1, !.answer = "none", !.bearer = None])
  /\ UNCHANGED <<server, waited, owner>>
RetryForEver(c) ==
  /\ call[c].pc = "answer" /\ call[c].answer = "401"
  /\ cache' = None
  /\ EnsureToken(c, [call[c] EXCEPT !.attempt = 1, !.answer = "none", !.bearer = None])
  /\ UNCHANGED <<server, waited, owner>>

(* The first refusal drops the cached token, whichever it is by now. *)
Retry(c) ==
  /\ call[c].pc = "answer" /\ call[c].answer = "401" /\ call[c].attempt = 0
  /\ cache' = None
  /\ EnsureToken(c, [call[c] EXCEPT !.attempt = 1, !.answer = "none", !.bearer = None])
  /\ UNCHANGED <<server, waited, owner>>

(* The second refusal is the caller's, as Unauthorized; so are a 404 and    *)
(* what was sealed to another keypair and does not open.                    *)
AnswerArrives(c) ==
  /\ call[c].pc = "answer"
  /\ call[c].answer = "401" => call[c].attempt = 1
  /\ Finish(c)
  /\ UNCHANGED <<server, cache, waited, owner>>

(* A lost request or answer, or a 5xx, ends the call. *)
Lose(c) ==
  /\ Failures
  /\ call[c].pc # "idle"
  /\ Finish(c)
  /\ UNCHANGED <<server, cache, waited, owner>>

-----------------------------------------------------------------------------
(* The server.  Where a failed statement is answered with a 401, a 401 may  *)
(* come for no reason the client could know.                                *)

Answer(c, new) == call' = [call EXCEPT ![c] = new]

AnswerChallenge(c) ==
  /\ call[c].pc = "challenge"
  /\ \/ status # "revoked" /\ Answer(c, [call[c] EXCEPT !.pc = "token"])
     \/ status = "revoked" /\ Finish(c)
  /\ UNCHANGED <<server, cache, waited, owner>>

Held(t) == cache = t \/ \E c \in Call : call[c].bearer = t

(* The signature verifies only with the keypair the client still has. *)
AnswerToken(c) ==
  /\ call[c].pc = "token"
  /\ \/ /\ status = "active"
        /\ \E t \in Token :
             /\ ~Held(t)
             /\ life' = [life EXCEPT ![t] = TTL]
             /\ owner' = [owner EXCEPT ![t] = c]
             /\ Answer(c, [call[c] EXCEPT !.pc = "issued", !.bearer = t])
     \/ (status # "active" \/ Failures) /\ Finish(c) /\ UNCHANGED <<life, owner>>
  /\ UNCHANGED <<status, clock, cache, waited>>

Admitted(t) == status # "revoked" /\ life[t] > 0

AnswerFetch(c) ==
  /\ call[c].pc = "fetch"
  /\ \/ /\ Admitted(call[c].bearer)
        /\ Answer(c, [call[c] EXCEPT !.pc = "answer", !.answer = "ok"])
     \/ /\ Admitted(call[c].bearer) /\ call[c].named      \* not granted, or unknown
        /\ Answer(c, [call[c] EXCEPT !.pc = "answer", !.answer = "404"])
     \/ /\ ~Admitted(call[c].bearer) \/ Failures
        /\ Answer(c, [call[c] EXCEPT !.pc = "answer", !.answer = "401"])
  /\ UNCHANGED <<server, cache, waited, owner>>

(* The service is given another keypair, or revoked. *)
Manage ==
  /\ \/ status = "active" /\ status' = "rotated"
     \/ status # "revoked" /\ status' = "revoked"
  /\ UNCHANGED <<life, clock, cache, call, waited, owner>>

Tick ==
  /\ life' = [t \in Token |-> IF life[t] = 0 THEN 0 ELSE life[t] - 1]
  /\ waited' = [c \in Call |-> IF call[c].pc = "fetch" /\ waited[c] <= Skew
                             THEN waited[c] + 1 ELSE waited[c]]
  /\ UNCHANGED <<status, clock, cache, call, owner>>

-----------------------------------------------------------------------------
Progress(c) ==
  \/ AnswerChallenge(c) \/ AnswerToken(c) \/ AnswerFetch(c)
  \/ TokenArrives(c) \/ Retry(c) \/ AnswerArrives(c) \/ Lose(c)

Next ==
  \/ \E c \in Call : \/ \E named \in BOOLEAN : Begin(c, named)
                     \/ Progress(c)
  \/ Manage \/ Tick

Spec == Init /\ [][Next]_vars

-----------------------------------------------------------------------------
(* Properties.                                                              *)

(* A call fails as unauthorized only over a token that was issued to that   *)
(* very call: a token from the cache, whoever put it there and however old, *)
(* never is the last word.                                                  *)
CacheNeverTheLastWord ==
  \A c \in Call : call[c].answer = "401" /\ call[c].attempt = 1 => owner[call[c].bearer] = c

(* With clocks no further apart than Drift, a cached token does not expire  *)
(* under a request that reaches the server within Skew - Drift.             *)
SkewCovers ==
  \A c \in Call :
    call[c].pc = "fetch" /\ owner[call[c].bearer] # c /\ waited[c] <= Skew - Drift =>
      life[call[c].bearer] > 0

(* No call goes in circles, not even against a server that issues tokens    *)
(* and then refuses them: each of its steps leaves it fewer steps to make   *)
(* than before, a second attempt and its three requests included.           *)
StepsLeft(c) ==
  [idle |-> 0, challenge |-> 5, token |-> 4, issued |-> 3, fetch |-> 2, answer |-> 1][call[c].pc]
    + (IF call[c].attempt = 0 /\ call[c] # Idle THEN 5 ELSE 0)

CallsGetOn ==
  [][\A c \in Call : call[c] # Idle /\ call'[c] # call[c] => StepsLeft(c)' < StepsLeft(c)]_vars

(* What the repository says and the code does not do.                       *)

(* "Cache the token in memory for its TTL": only a refusal of the cached    *)
(* token itself drops it.                                                   *)
DropsOnlyTheRefused ==
  [][cache # None /\ cache' = None =>
       \E c \in Call : call[c].answer = "401" /\ call[c].bearer = cache /\ call'[c] # call[c]]_vars
=============================================================================

---------------------------- MODULE Client_proofs ----------------------------
(***************************************************************************)
(* Theorems about the calls of a client, for any number of calls and       *)
(* tokens, any lifetime, margin and distance of the clocks.                *)
(***************************************************************************)
EXTENDS Client, TLAPS

-----------------------------------------------------------------------------
(* The constants are numbers. *)
LEMMA Constants ==
  /\ TTL \in Nat \ {0} /\ Skew \in Nat /\ Drift \in Nat /\ Failures \in BOOLEAN
  /\ None \notin Token /\ None \notin Call
BY ConstantsAssumption

(* A call that has a token has either one that was issued to it or, in its  *)
(* first attempt, the cached one, which had more than the margin left when   *)
(* it was taken: what it has lost since is what the request has waited.     *)
Bearing(c) == call[c].pc \in {"issued", "fetch", "answer"}

Knows(c) ==
  /\ call[c].pc = "idle" => call[c] = Idle
  /\ call[c].pc # "answer" => call[c].answer = "none"
  /\ Bearing(c) => call[c].bearer \in Token
  /\ Bearing(c) /\ (call[c].pc = "issued" \/ call[c].attempt = 1) => owner[call[c].bearer] = c
  /\ call[c].pc = "fetch" /\ owner[call[c].bearer] # c /\ waited[c] <= Skew - Drift =>
       life[call[c].bearer] + waited[c] > Skew + clock

Inv == TypeOK /\ \A c \in Call : Knows(c)

-----------------------------------------------------------------------------
(* A step of one call leaves the tokens of the others alone. *)
Tables ==
  /\ status \in {"active", "rotated", "revoked"}
  /\ life \in [Token -> 0 .. TTL]
  /\ clock \in -Drift .. Drift
  /\ cache \in Token \cup {None}
  /\ waited \in [Call -> 0 .. Skew + 1]
  /\ owner \in [Token -> Call \cup {None}]

OthersKept(c) ==
  /\ clock' = clock
  /\ \A d \in Call \ {c} :
       /\ waited'[d] = waited[d]
       /\ Bearing(d) => /\ life'[call[d].bearer] = life[call[d].bearer]
                        /\ owner'[call[d].bearer] = d <=> owner[call[d].bearer] = d

MovesTo(c, q) == q \in CallState /\ call' = [call EXCEPT ![c] = q]

LEMMA CallSteps ==
  \A c \in Call : \A q :
    Inv /\ MovesTo(c, q) /\ Tables' /\ OthersKept(c) /\ Knows(c)' => Inv'
<1>. SUFFICES ASSUME NEW c \in Call, NEW q, Inv, MovesTo(c, q), Tables', OthersKept(c), Knows(c)'
              PROVE  Inv'
  OBVIOUS
<1>1. call' \in [Call -> CallState] /\ \A d \in Call : d # c => call'[d] = call[d]
  BY DEF Inv, TypeOK, MovesTo
<1>2. TypeOK'
  BY <1>1 DEF Tables, TypeOK
<1>3. ASSUME NEW d \in Call, d # c
      PROVE  Knows(d)'
  <2>1. Knows(d) /\ call'[d] = call[d] /\ waited'[d] = waited[d] /\ clock' = clock
    BY <1>1, <1>3 DEF Inv, OthersKept
  <2>2. CASE Bearing(d)
    <3>1. /\ life'[call[d].bearer] = life[call[d].bearer]
          /\ owner'[call[d].bearer] = d <=> owner[call[d].bearer] = d
      BY <1>3, <2>2 DEF OthersKept
    <3>. QED
      BY <2>1, <3>1 DEF Knows, Bearing
  <2>3. CASE ~Bearing(d)
    BY <2>1, <2>3 DEF Knows, Bearing
  <2>. QED
    BY <2>2, <2>3
<1>. QED
  BY <1>2, <1>3 DEF Inv

(* A step that leaves every token as it was. *)
LEMMA Untouched ==
  Inv /\ UNCHANGED <<life, clock, waited, owner>> => \A c \in Call : OthersKept(c)
BY DEF OthersKept

(* The fields of a call. *)
LEMMA CallFields ==
  Inv => \A c \in Call :
    /\ call \in [Call -> CallState] /\ call[c] \in CallState /\ Knows(c) /\ Tables
    /\ call[c].pc \in {"idle", "challenge", "token", "issued", "fetch", "answer"}
    /\ call[c].attempt \in 0 .. 1 /\ call[c].named \in BOOLEAN
    /\ call[c].bearer \in Token \cup {None} /\ call[c].answer \in Answers
BY DEF Inv, TypeOK, CallState, Tables

-----------------------------------------------------------------------------
(* A call that is over knows nothing. *)
LEMMA FinishSteps ==
  \A c \in Call :
    Inv /\ Finish(c) /\ UNCHANGED <<status, life, clock, cache, waited, owner>> => Inv'
<1>. SUFFICES ASSUME NEW c \in Call, Inv, Finish(c),
                     UNCHANGED <<status, life, clock, cache, waited, owner>>
              PROVE  Inv'
  OBVIOUS
<1>1. Idle \in CallState
  BY DEF Idle, CallState, Answers
<1>2. MovesTo(c, Idle) /\ call'[c] = Idle
  BY <1>1, CallFields DEF MovesTo, Finish
<1>3. Knows(c)'
  BY <1>2 DEF Knows, Bearing, Idle
<1>4. Tables'
  BY CallFields DEF Tables
<1>. QED
  BY <1>2, <1>3, <1>4, CallSteps, Untouched

(* Starting a call: with the cached token, or without. *)
LEMMA BeginStep == \A c \in Call : \A named \in BOOLEAN : Inv /\ Begin(c, named) => Inv'
<1>. SUFFICES ASSUME NEW c \in Call, NEW named \in BOOLEAN, Inv, Begin(c, named)
              PROVE  Inv'
  OBVIOUS
<1>1. /\ call \in [Call -> CallState] /\ Tables /\ call[c] = Idle
      /\ status' = status /\ life' = life /\ clock' = clock /\ cache' = cache
      /\ waited' = [waited EXCEPT ![c] = 0]
      /\ owner' = [t \in Token |-> IF owner[t] = c THEN None ELSE owner[t]]
  BY CallFields DEF Begin, server
<1>2. Tables'
  <2>1. 0 \in 0 .. Skew + 1
    BY Constants
  <2>. QED
    BY <1>1, <2>1 DEF Tables
<1>3. OthersKept(c)
  <2>1. ASSUME NEW d \in Call, d # c, Bearing(d)
        PROVE  owner'[call[d].bearer] = d <=> owner[call[d].bearer] = d
    <3>1. call[d].bearer \in Token
      BY <2>1 DEF Inv, Knows
    <3>. QED
      BY <1>1, <2>1, <3>1, Constants
  <2>. QED
    BY <1>1, <2>1 DEF OthersKept, Tables
<1>4. PICK new \in CallState :
             /\ EnsureToken(c, new)
             /\ new.attempt = 0 /\ new.answer = "none"
  <2>1. PICK new : new = [Idle EXCEPT !.named = named]
    OBVIOUS
  <2>2. new \in CallState /\ new.attempt = 0 /\ new.answer = "none"
    BY <2>1 DEF Idle, CallState, Answers
  <2>. QED
    BY <2>1, <2>2 DEF Begin
<1>5. CASE Usable(cache)
  <2>1. PICK q : q = [new EXCEPT !.pc = "fetch", !.bearer = cache]
    OBVIOUS
  <2>2. cache \in Token /\ life[cache] - clock > Skew
    BY <1>1, <1>5 DEF Usable, Tables
  <2>3. q \in CallState /\ q.pc = "fetch" /\ q.bearer = cache /\ q.attempt = 0 /\ q.answer = "none"
    BY <1>4, <2>1, <2>2 DEF CallState
  <2>4. MovesTo(c, q) /\ call'[c] = q
    BY <1>1, <1>4, <1>5, <2>1, <2>3 DEF EnsureToken, MovesTo
  <2>5. Knows(c)'
    <3>1. owner'[cache] # c
      BY <1>1, <2>2, Constants
    <3>2. life'[cache] + waited'[c] > Skew + clock'
      <4>1. life[cache] \in Nat /\ clock \in Int /\ waited'[c] = 0
        BY <1>1, <2>2, Constants DEF Tables
      <4>. QED
        BY <1>1, <2>2, <4>1, Constants
    <3>. QED
      BY <2>2, <2>3, <2>4, <3>1, <3>2 DEF Knows, Bearing
  <2>. QED
    BY <1>2, <1>3, <2>4, <2>5, CallSteps
<1>6. CASE ~Usable(cache)
  <2>1. PICK q : q = [new EXCEPT !.pc = "challenge"]
    OBVIOUS
  <2>2. q \in CallState /\ q.pc = "challenge" /\ q.answer = "none"
    BY <1>4, <2>1 DEF CallState
  <2>3. MovesTo(c, q) /\ call'[c] = q
    BY <1>1, <1>4, <1>6, <2>1, <2>2 DEF EnsureToken, MovesTo
  <2>4. Knows(c)'
    BY <2>2, <2>3 DEF Knows, Bearing
  <2>. QED
    BY <1>2, <1>3, <2>3, <2>4, CallSteps
<1>. QED
  BY <1>5, <1>6

(* The first refusal: the second attempt starts, without the cache. *)
LEMMA RetryStep ==
  \A c \in Call : Inv /\ Retry(c) =>
    /\ Inv'
    /\ call'[c].pc = "challenge" /\ call'[c].attempt = 1
<1>. SUFFICES ASSUME NEW c \in Call, Inv, Retry(c)
              PROVE  Inv' /\ call'[c].pc = "challenge" /\ call'[c].attempt = 1
  OBVIOUS
<1>1. /\ call \in [Call -> CallState] /\ Tables /\ call[c] \in CallState
      /\ UNCHANGED <<status, life, clock, waited, owner>> /\ cache' = None
  BY CallFields DEF Retry, server
<1>2. PICK new \in CallState :
             /\ EnsureToken(c, new)
             /\ new.attempt = 1 /\ new.answer = "none"
  <2>1. PICK new : new = [call[c] EXCEPT !.attempt = 1, !.answer = "none", !.bearer = None]
    OBVIOUS
  <2>2. 1 \in 0 .. 1 /\ "none" \in Answers
    BY DEF Answers
  <2>3. PICK q \in CallState : q = [call[c] EXCEPT !.attempt = 1, !.answer = "none"]
    BY <1>1, <2>2 DEF CallState
  <2>4. new = [q EXCEPT !.bearer = None]
    BY <2>1, <2>3
  <2>5. new \in CallState
    BY <2>3, <2>4 DEF CallState
  <2>6. new.attempt = 1 /\ new.answer = "none"
    BY <1>1, <2>1 DEF CallState
  <2>. QED
    BY <2>1, <2>5, <2>6 DEF Retry
<1>3. PICK q : q = [new EXCEPT !.pc = "challenge"]
  OBVIOUS
<1>4. /\ q \in CallState /\ q.pc = "challenge" /\ q.attempt = 1 /\ q.answer = "none"
      /\ MovesTo(c, q) /\ call'[c] = q
  <2>1. q \in CallState /\ q.pc = "challenge" /\ q.attempt = 1 /\ q.answer = "none"
    BY <1>2, <1>3 DEF CallState
  <2>. QED
    BY <1>1, <1>2, <1>3, <2>1 DEF EnsureToken, MovesTo
<1>5. Knows(c)' /\ Tables'
  BY <1>1, <1>3, <1>4 DEF Knows, Bearing, Tables
<1>. QED
  BY <1>1, <1>3, <1>4, <1>5, CallSteps, Untouched

(* The token arrives and is cached. *)
LEMMA TokenArrivesStep ==
  \A c \in Call : Inv /\ TokenArrives(c) =>
    /\ Inv'
    /\ call'[c].pc = "fetch" /\ call'[c].attempt = call[c].attempt
<1>. SUFFICES ASSUME NEW c \in Call, Inv, TokenArrives(c)
              PROVE  /\ Inv'
                     /\ call'[c].pc = "fetch" /\ call'[c].attempt = call[c].attempt
  OBVIOUS
<1>1. /\ call \in [Call -> CallState] /\ Tables /\ call[c] \in CallState
      /\ UNCHANGED <<status, life, clock, waited, owner>>
      /\ cache' = call[c].bearer
      /\ Knows(c) /\ call[c].pc = "issued"
  BY CallFields DEF TokenArrives, server
<1>2. PICK q : q = [call[c] EXCEPT !.pc = "fetch"]
  OBVIOUS
<1>3. /\ q \in CallState /\ q.pc = "fetch" /\ q.attempt = call[c].attempt
      /\ q.answer = call[c].answer /\ q.bearer = call[c].bearer
  BY <1>1, <1>2 DEF CallState
<1>4. MovesTo(c, q) /\ call'[c] = q
  BY <1>1, <1>2, <1>3 DEF TokenArrives, MovesTo
<1>5. Knows(c)'
  BY <1>1, <1>3, <1>4 DEF Knows, Bearing
<1>6. Tables'
  BY <1>1 DEF Tables, Knows, Bearing
<1>. QED
  BY <1>1, <1>3, <1>4, <1>5, <1>6, CallSteps, Untouched

-----------------------------------------------------------------------------
(* The server answers a challenge request. *)
LEMMA AnswerChallengeStep ==
  \A c \in Call : Inv /\ AnswerChallenge(c) =>
    /\ Inv'
    /\ \/ Finish(c)
       \/ call'[c].pc = "token" /\ call'[c].attempt = call[c].attempt
<1>. SUFFICES ASSUME NEW c \in Call, Inv, AnswerChallenge(c)
              PROVE  /\ Inv'
                     /\ \/ Finish(c)
                        \/ call'[c].pc = "token" /\ call'[c].attempt = call[c].attempt
  OBVIOUS
<1>1. /\ call \in [Call -> CallState] /\ Tables /\ call[c] \in CallState
      /\ UNCHANGED <<status, life, clock, cache, waited, owner>>
      /\ Knows(c) /\ call[c].pc = "challenge"
  BY CallFields DEF AnswerChallenge, server
<1>2. CASE Finish(c)
  BY <1>1, <1>2, FinishSteps
<1>3. CASE ~Finish(c)
  <2>1. PICK q : q = [call[c] EXCEPT !.pc = "token"]
    OBVIOUS
  <2>2. /\ q \in CallState /\ q.pc = "token" /\ q.attempt = call[c].attempt
        /\ q.answer = call[c].answer
    BY <1>1, <2>1 DEF CallState
  <2>3. MovesTo(c, q) /\ call'[c] = q
    BY <1>1, <1>3, <2>1, <2>2 DEF AnswerChallenge, Answer, MovesTo
  <2>4. Knows(c)' /\ Tables'
    BY <1>1, <2>2, <2>3 DEF Knows, Bearing, Tables
  <2>. QED
    BY <1>1, <2>2, <2>3, <2>4, CallSteps, Untouched
<1>. QED
  BY <1>2, <1>3

(* The server issues a token: one that nobody holds. *)
LEMMA AnswerTokenStep ==
  \A c \in Call : Inv /\ AnswerToken(c) =>
    /\ Inv'
    /\ \/ Finish(c)
       \/ call'[c].pc = "issued" /\ call'[c].attempt = call[c].attempt
<1>. SUFFICES ASSUME NEW c \in Call, Inv, AnswerToken(c)
              PROVE  /\ Inv'
                     /\ \/ Finish(c)
                        \/ call'[c].pc = "issued" /\ call'[c].attempt = call[c].attempt
  OBVIOUS
<1>1. /\ call \in [Call -> CallState] /\ Tables /\ call[c] \in CallState
      /\ UNCHANGED <<status, clock, cache, waited>>
      /\ Knows(c) /\ call[c].pc = "token"
  BY CallFields DEF AnswerToken
<1>2. CASE Finish(c) /\ UNCHANGED <<life, owner>>
  BY <1>1, <1>2, FinishSteps
<1>3. CASE ~(Finish(c) /\ UNCHANGED <<life, owner>>)
  <2>1. PICK t \in Token :
               /\ ~Held(t)
               /\ life' = [life EXCEPT ![t] = TTL]
               /\ owner' = [owner EXCEPT ![t] = c]
               /\ Answer(c, [call[c] EXCEPT !.pc = "issued", !.bearer = t])
    BY <1>3 DEF AnswerToken
  <2>2. PICK q : q = [call[c] EXCEPT !.pc = "issued", !.bearer = t]
    OBVIOUS
  <2>3. /\ q \in CallState /\ q.pc = "issued" /\ q.attempt = call[c].attempt
        /\ q.answer = call[c].answer /\ q.bearer = t
    BY <1>1, <2>2 DEF CallState
  <2>4. MovesTo(c, q) /\ call'[c] = q
    BY <1>1, <2>1, <2>2, <2>3 DEF Answer, MovesTo
  <2>5. Tables'
    <3>1. TTL \in 0 .. TTL
      BY Constants
    <3>. QED
      BY <1>1, <2>1, <3>1 DEF Tables
  <2>6. OthersKept(c)
    <3>1. ASSUME NEW d \in Call, Bearing(d)
          PROVE  call[d].bearer # t /\ call[d].bearer \in Token
      BY <2>1, <3>1 DEF Held, Inv, Knows
    <3>. QED
      BY <1>1, <2>1, <3>1 DEF OthersKept, Tables
  <2>7. owner'[t] = c
    BY <1>1, <2>1 DEF Tables
  <2>8. Knows(c)'
    BY <1>1, <2>3, <2>4, <2>7 DEF Knows, Bearing
  <2>. QED
    BY <2>3, <2>4, <2>5, <2>6, <2>8, CallSteps
<1>. QED
  BY <1>2, <1>3

(* The server answers the request for secrets. *)
LEMMA AnswerFetchStep ==
  \A c \in Call : Inv /\ AnswerFetch(c) =>
    /\ Inv'
    /\ call'[c].pc = "answer" /\ call'[c].attempt = call[c].attempt
<1>. SUFFICES ASSUME NEW c \in Call, Inv, AnswerFetch(c)
              PROVE  /\ Inv'
                     /\ call'[c].pc = "answer" /\ call'[c].attempt = call[c].attempt
  OBVIOUS
<1>1. /\ call \in [Call -> CallState] /\ Tables /\ call[c] \in CallState
      /\ UNCHANGED <<status, life, clock, cache, waited, owner>>
      /\ Knows(c) /\ call[c].pc = "fetch"
  BY CallFields DEF AnswerFetch, server
<1>2. PICK a \in {"ok", "404", "401"} :
             Answer(c, [call[c] EXCEPT !.pc = "answer", !.answer = a])
  BY DEF AnswerFetch
<1>3. PICK q : q = [call[c] EXCEPT !.pc = "answer", !.answer = a]
  OBVIOUS
<1>4. /\ q \in CallState /\ q.pc = "answer" /\ q.attempt = call[c].attempt
      /\ q.bearer = call[c].bearer
  BY <1>1, <1>3 DEF CallState, Answers
<1>5. MovesTo(c, q) /\ call'[c] = q
  BY <1>1, <1>2, <1>3, <1>4 DEF Answer, MovesTo
<1>6. Knows(c)' /\ Tables'
  BY <1>1, <1>4, <1>5 DEF Knows, Bearing, Tables
<1>. QED
  BY <1>1, <1>4, <1>5, <1>6, CallSteps, Untouched

-----------------------------------------------------------------------------
(* Time passes: what a token loses, the request that carries it has waited. *)
LEMMA TickStep == Inv /\ Tick => Inv'
<1>. SUFFICES ASSUME Inv, Tick
              PROVE  Inv'
  OBVIOUS
<1>1. /\ status' = status /\ clock' = clock /\ cache' = cache /\ call' = call /\ owner' = owner
      /\ life' = [t \in Token |-> IF life[t] = 0 THEN 0 ELSE life[t] - 1]
      /\ waited' = [c \in Call |-> IF call[c].pc = "fetch" /\ waited[c] <= Skew
                                   THEN waited[c] + 1 ELSE waited[c]]
  BY DEF Tick
<1>2. /\ life \in [Token -> 0 .. TTL] /\ waited \in [Call -> 0 .. Skew + 1]
      /\ clock \in -Drift .. Drift
  BY DEF Inv, TypeOK
<1>3. ASSUME NEW t \in Token
      PROVE  life'[t] \in 0 .. TTL /\ (life[t] # 0 => life'[t] = life[t] - 1)
  BY <1>1, <1>2, Constants
<1>4. ASSUME NEW c \in Call
      PROVE  waited'[c] \in 0 .. Skew + 1
  BY <1>1, <1>2, Constants
<1>5. TypeOK'
  BY <1>1, <1>3, <1>4 DEF Inv, TypeOK
<1>6. ASSUME NEW c \in Call
      PROVE  Knows(c)'
  <2>1. Knows(c)
    BY DEF Inv
  <2>2. ASSUME call[c].pc = "fetch", owner[call[c].bearer] # c, waited'[c] <= Skew - Drift
        PROVE  life'[call[c].bearer] + waited'[c] > Skew + clock
    <3>1. PICK t \in Token : t = call[c].bearer
      BY <2>1, <2>2 DEF Knows, Bearing
    <3>2. /\ life[t] \in Nat /\ waited[c] \in Nat /\ clock \in Int /\ clock >= -Drift
          /\ waited[c] <= waited'[c]
      BY <1>1, <1>2, <1>4, Constants
    <3>3. waited[c] <= Skew - Drift /\ waited[c] <= Skew
      BY <1>4, <2>2, <3>2, Constants
    <3>4. life[t] + waited[c] > Skew + clock
      BY <2>1, <2>2, <3>1, <3>3 DEF Knows
    <3>5. life[t] # 0
      BY <3>2, <3>3, <3>4, Constants
    <3>6. waited'[c] = waited[c] + 1 /\ life'[t] = life[t] - 1
      BY <1>1, <1>2, <1>3, <2>2, <3>3, <3>5
    <3>. QED
      BY <3>1, <3>2, <3>4, <3>6, Constants
  <2>. QED
    BY <1>1, <2>1, <2>2 DEF Knows, Bearing
<1>. QED
  BY <1>5, <1>6 DEF Inv

(* The service is rotated or revoked. *)
LEMMA ManageStep == Inv /\ Manage => Inv'
BY DEF Manage, Inv, TypeOK, Knows, Bearing

(* Initially no call is made and no token exists. *)
LEMMA InitInv == Init => Inv
<1>. SUFFICES ASSUME Init
              PROVE  Inv
  OBVIOUS
<1>1. 0 \in 0 .. TTL /\ 0 \in 0 .. Skew + 1 /\ Idle \in CallState
  BY Constants DEF Idle, CallState, Answers
<1>2. TypeOK
  BY <1>1 DEF Init, TypeOK
<1>. QED
  BY <1>2 DEF Init, Inv, Knows, Bearing, Idle

(* The invariant is inductive. *)
LEMMA NextInv == Inv /\ [Next]_vars => Inv'
<1>. SUFFICES ASSUME Inv, [Next]_vars
              PROVE  Inv'
  OBVIOUS
<1>1. CASE UNCHANGED vars
  BY <1>1 DEF vars, Inv, TypeOK, Knows, Bearing
<1>2. ASSUME NEW c \in Call, AnswerArrives(c) \/ Lose(c)
      PROVE  Inv'
  BY <1>2, FinishSteps DEF AnswerArrives, Lose, server
<1>3. CASE Next
  BY <1>2, <1>3, BeginStep, RetryStep, TokenArrivesStep, AnswerChallengeStep, AnswerTokenStep,
     AnswerFetchStep, TickStep, ManageStep DEF Next, Progress
<1>. QED
  BY <1>1, <1>3

-----------------------------------------------------------------------------
(* Every reachable state of the client is well typed. *)
THEOREM ClientTypeCorrect == Spec => []TypeOK
<1>1. Inv => TypeOK
  BY DEF Inv
<1>. QED
  BY <1>1, InitInv, NextInv, PTL DEF Spec

(* A call is told that it is unauthorized only over a token of its own: a   *)
(* token another call cached never is the last word.                        *)
THEOREM CacheIsNeverTheLastWord == Spec => []CacheNeverTheLastWord
<1>1. Inv => CacheNeverTheLastWord
  BY DEF Inv, Knows, Bearing, CacheNeverTheLastWord
<1>. QED
  BY <1>1, InitInv, NextInv, PTL DEF Spec

(* The refresh margin covers what clocks and requests take: a cached token  *)
(* is alive when a request that was under way for no longer than the margin *)
(* less the clocks' distance reaches the server.                            *)
THEOREM MarginCovers == Spec => []SkewCovers
<1>1. Inv => SkewCovers
  <2>. SUFFICES ASSUME Inv, NEW c \in Call, call[c].pc = "fetch", owner[call[c].bearer] # c,
                       waited[c] <= Skew - Drift
                PROVE  life[call[c].bearer] > 0
    BY DEF SkewCovers
  <2>1. call[c].bearer \in Token /\ life[call[c].bearer] + waited[c] > Skew + clock
    BY DEF Inv, Knows, Bearing
  <2>2. life[call[c].bearer] \in Nat /\ waited[c] \in Nat /\ clock \in Int /\ clock >= -Drift
    BY <2>1, Constants DEF Inv, TypeOK
  <2>. QED
    BY <2>1, <2>2, Constants
<1>. QED
  BY <1>1, InitInv, NextInv, PTL DEF Spec

-----------------------------------------------------------------------------
(* Each step of a call leaves it fewer to make. *)
LEMMA StepsGetOn ==
  Inv /\ [Next]_vars =>
    \A c \in Call : call[c] # Idle /\ call'[c] # call[c] => StepsLeft(c)' < StepsLeft(c)
<1>. SUFFICES ASSUME Inv, [Next]_vars, NEW c \in Call, call[c] # Idle, call'[c] # call[c]
              PROVE  StepsLeft(c)' < StepsLeft(c)
  OBVIOUS
<1>1. /\ call \in [Call -> CallState] /\ Knows(c)
      /\ call[c].pc \in {"challenge", "token", "issued", "fetch", "answer"}
      /\ call[c].attempt \in {0, 1}
  BY CallFields DEF Knows
<1>2. \A d \in Call : \A q : call' = [call EXCEPT ![d] = q] /\ d # c => call'[c] = call[c]
  BY <1>1
<1>3. ASSUME NEW d \in Call, Finish(d)
      PROVE  StepsLeft(c)' < StepsLeft(c)
  <2>1. d = c
    BY <1>2, <1>3 DEF Finish
  <2>2. call'[c] = Idle
    BY <1>1, <1>3, <2>1 DEF Finish
  <2>3. StepsLeft(c)' = 0
    BY <2>2 DEF StepsLeft, Idle
  <2>4. StepsLeft(c) >= 1 /\ StepsLeft(c) \in Int
    BY <1>1 DEF StepsLeft
  <2>. QED
    BY <2>3, <2>4
<1>4. \A d \in Call, named \in BOOLEAN : ~(Begin(d, named) /\ d = c)
  BY DEF Begin
<1>5. ASSUME NEW d \in Call, NEW named \in BOOLEAN, Begin(d, named)
      PROVE  FALSE
  BY <1>2, <1>4, <1>5 DEF Begin, EnsureToken
<1>6. ASSUME NEW d \in Call, d # c, Progress(d)
      PROVE  FALSE
  BY <1>2, <1>6 DEF Progress, AnswerChallenge, AnswerToken, AnswerFetch, TokenArrives, Retry,
                    AnswerArrives, Lose, Answer, Finish, EnsureToken
<1>7. ASSUME Progress(c), ~Finish(c)
      PROVE  StepsLeft(c)' < StepsLeft(c)
  <2>1. \/ /\ call[c].pc = "challenge" /\ call'[c].pc = "token"
           /\ call'[c].attempt = call[c].attempt
        \/ /\ call[c].pc = "token" /\ call'[c].pc = "issued"
           /\ call'[c].attempt = call[c].attempt
        \/ /\ call[c].pc = "issued" /\ call'[c].pc = "fetch"
           /\ call'[c].attempt = call[c].attempt
        \/ /\ call[c].pc = "fetch" /\ call'[c].pc = "answer"
           /\ call'[c].attempt = call[c].attempt
        \/ /\ call[c].pc = "answer" /\ call[c].attempt = 0
           /\ call'[c].pc = "challenge" /\ call'[c].attempt = 1
    BY <1>7, AnswerChallengeStep, AnswerTokenStep, AnswerFetchStep, TokenArrivesStep, RetryStep
       DEF Progress, AnswerChallenge, AnswerToken, AnswerFetch, TokenArrives, Retry,
           AnswerArrives, Lose
  <2>2. call'[c] # Idle
    BY <2>1 DEF Idle
  <2>. QED
    BY <1>1, <2>1, <2>2 DEF StepsLeft
<1>8. \/ \E d \in Call : (\E named \in BOOLEAN : Begin(d, named)) \/ Progress(d)
      \/ call' = call
  BY DEF Next, vars, Manage, Tick
<1>. QED
  BY <1>3, <1>5, <1>6, <1>7, <1>8

(* No call goes in circles, whatever the server answers and however often   *)
(* tokens are refused: it has fewer steps to make after each of its own.    *)
THEOREM CallsEnd == Spec => CallsGetOn
BY InitInv, NextInv, StepsGetOn, PTL DEF Spec, CallsGetOn
=============================================================================

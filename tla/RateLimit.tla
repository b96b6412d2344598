----------------------------- MODULE RateLimit -----------------------------
(***************************************************************************)
(* The rate limiter of the retrieval plane, in the memory of one instance: *)
(* fixed windows per source address and per service, and a lockout that    *)
(* doubles with every further failure.  A guard runs to its end without    *)
(* interruption; the outcome of the request it admitted is recorded after  *)
(* several database statements, when other requests have come and gone.    *)
(*                                                                         *)
(* Left out: CUKI_RATE_LIMIT=false, which admits everything; Retry-After.  *)
(***************************************************************************)
EXTENDS Integers

CONSTANTS
  Ip,            \* source addresses
  Handle,        \* service handles, as clients write them
  Request,       \* slots for requests in flight
  Limit,         \* slots per window, the same for every kind
  Window,        \* rl.windowMs
  Threshold, BaseMs, MaxMs,  \* lockOpts
  IdleMs,        \* the 3_600_000 in sweep
  MaxTime,       \* bound: the clock stops here
  MaxFails,      \* bound: failures of a subject
  None           \* no value

ASSUME ConstantsAssumption ==
  /\ {Limit, Window, Threshold, BaseMs, MaxMs, MaxFails} \subseteq Nat \ {0}
  /\ {IdleMs, MaxTime} \subseteq Nat
  /\ BaseMs <= MaxMs /\ Window < MaxTime
  /\ None \notin Ip \cup Handle /\ Ip \cap Handle = {}

VARIABLES
  now,        \* Date.now()
  windows,    \* state.windows; a count of 0: not in the map
  locks,      \* state.locks; no failures: not in the map
  lastSweep,
  req,        \* the admitted requests in flight
  \* history variables: read by the properties only
  hits,       \* hits[k][a]: the slots window key k got a ticks ago
  failed      \* failed[s][a]: the failures of s a ticks ago, since its last success

vars == <<now, windows, locks, lastSweep, req, hits, failed>>

-----------------------------------------------------------------------------
Time == 0 .. MaxTime
Later == 0 .. (MaxTime + Window + MaxMs)
Subject == Ip \cup Handle

(* ch:ip, ch:svc and tok:ip; fail:ip and fail:svc are the subjects. *)
WindowKey == ({"ch"} \X Subject) \cup ({"tok"} \X Ip)

NoWindow == [count |-> 0, resetAt |-> 0]
NoLock == [fails |-> 0, until |-> 0]
NeverFailed == [a \in 0 .. IdleMs + MaxMs |-> 0]
Idle == [pc |-> "idle", ip |-> None, handle |-> None]

TypeOK ==
  /\ now \in Time
  /\ windows \in [WindowKey -> [count : 0 .. Limit, resetAt : Later]]
  /\ locks \in [Subject -> [fails : 0 .. MaxFails, until : Later]]
  /\ lastSweep \in Time
  /\ req \in [Request -> [pc : {"idle", "challenge", "token"},
                          ip : Ip \cup {None}, handle : Handle \cup {None}]]
  /\ hits \in [WindowKey -> [0 .. Window - 1 -> Nat]]
  /\ failed \in [Subject -> [0 .. IdleMs + MaxMs -> Nat]]

(* lastSweep is 0 and Date.now() is large: the first guard sweeps. *)
Init ==
  /\ now = Window + 1
  /\ windows = [k \in WindowKey |-> NoWindow]
  /\ locks = [s \in Subject |-> NoLock]
  /\ lastSweep = 0
  /\ req = [r \in Request |-> Idle]
  /\ hits = [k \in WindowKey |-> [a \in 0 .. Window - 1 |-> 0]]
  /\ failed = [s \in Subject |-> NeverFailed]

-----------------------------------------------------------------------------
(* Guards.                                                                  *)

SweepDue == now - lastSweep > Window

(* Mutants: expired windows are kept; a lock goes, idle or not. *)
WindowsAfterNoSweep == [k \in WindowKey |-> windows[k]]
LocksAfterEarlySweep ==
  [s \in Subject |-> IF SweepDue /\ locks[s].until > 0 THEN NoLock ELSE locks[s]]

WindowsAfterSweep ==
  [k \in WindowKey |-> IF SweepDue /\ now >= windows[k].resetAt THEN NoWindow ELSE windows[k]]

LocksAfterSweep ==
  [s \in Subject |-> IF SweepDue /\ locks[s].until > 0 /\ now - locks[s].until > IdleMs
                     THEN NoLock ELSE locks[s]]

(* Mutant: off by one. *)
FullAfterLimit(w) == now < w.resetAt /\ w.count > Limit

(* hitWindow, in two operators. *)
Full(w) == now < w.resetAt /\ w.count >= Limit

(* Mutant: the first hit of a window is not counted. *)
HitUncounted(w) == IF now >= w.resetAt THEN [count |-> 0, resetAt |-> now + Window]
                   ELSE [w EXCEPT !.count = @ + 1]

Hit(w) == IF now >= w.resetAt THEN [count |-> 1, resetAt |-> now + Window]
          ELSE [w EXCEPT !.count = @ + 1]

Locked(subjects) == \E s \in subjects : LocksAfterSweep[s].until > now

(* The windows are hit in turn, until one is full: the slots of those       *)
(* before it are spent all the same.                                        *)
HitKeys(keys) ==
  {keys[i] : i \in {j \in DOMAIN keys : \A h \in 1 .. j : ~Full(WindowsAfterSweep[keys[h]])}}

Guard(subjects, keys, admit, refuse) ==
  LET spent == IF Locked(subjects) THEN {} ELSE HitKeys(keys)
      refused == Locked(subjects) \/ \E i \in DOMAIN keys : keys[i] \notin spent IN
  /\ lastSweep' = IF SweepDue THEN now ELSE lastSweep
  /\ locks' = LocksAfterSweep
  /\ windows' = [k \in WindowKey |-> IF k \in spent THEN Hit(WindowsAfterSweep[k])
                                     ELSE WindowsAfterSweep[k]]
  /\ hits' = [k \in WindowKey |-> IF k \in spent THEN [hits[k] EXCEPT ![0] = @ + 1] ELSE hits[k]]
  /\ IF refused THEN refuse ELSE admit

(* failKeys *)
FailKeys(ip, h) == {ip, h} \ {None}

(* challengeGuard.  Without an address only the handle counts. *)
Challenge(r, ip, h) ==
  /\ req[r] = Idle
  /\ Guard(FailKeys(ip, h),
           IF ip = None THEN << <<"ch", h>> >> ELSE << <<"ch", ip>>, <<"ch", h>> >>,
           req' = [req EXCEPT ![r] = [pc |-> "challenge", ip |-> ip, handle |-> h]],
           UNCHANGED req)
  /\ UNCHANGED <<now, failed>>

(* tokenGuard.  The handle is known only later, from the challenge. *)
Token(r, ip, h) ==
  /\ req[r] = Idle
  /\ Guard(FailKeys(ip, None),
           IF ip = None THEN << >> ELSE << <<"tok", ip>> >>,
           req' = [req EXCEPT ![r] = [pc |-> "token", ip |-> ip, handle |-> h]],
           UNCHANGED req)
  /\ UNCHANGED <<now, failed>>

-----------------------------------------------------------------------------
(* Outcomes.                                                                *)

Capped(ms) == IF ms > MaxMs THEN MaxMs ELSE ms
Lockout(fails) == Capped(BaseMs * 2 ^ (fails - Threshold))

LockAfter(l) ==
  IF l.fails + 1 < Threshold THEN [l EXCEPT !.fails = @ + 1]
  ELSE [fails |-> l.fails + 1, until |-> now + Lockout(l.fails + 1)]

(* recordFailure: an unknown or revoked service, a source address outside   *)
(* the allowlist, a bad signature.                                          *)
Fail(r) ==
  LET subjects == FailKeys(req[r].ip, req[r].handle) IN
  /\ req[r] # Idle
  /\ \A s \in subjects : locks[s].fails < MaxFails
  /\ locks' = [s \in Subject |-> IF s \in subjects THEN LockAfter(locks[s]) ELSE locks[s]]
  /\ failed' = [s \in Subject |-> IF s \in subjects THEN [failed[s] EXCEPT ![0] = @ + 1]
                                  ELSE failed[s]]
  /\ req' = [req EXCEPT ![r] = Idle]
  /\ UNCHANGED <<now, windows, lastSweep, hits>>

(* recordSuccess: a token was issued. *)
Succeed(r) ==
  LET subjects == FailKeys(req[r].ip, req[r].handle) IN
  /\ req[r].pc = "token"
  /\ locks' = [s \in Subject |-> IF s \in subjects THEN NoLock ELSE locks[s]]
  /\ failed' = [s \in Subject |-> IF s \in subjects THEN NeverFailed ELSE failed[s]]
  /\ req' = [req EXCEPT ![r] = Idle]
  /\ UNCHANGED <<now, windows, lastSweep, hits>>

(* A challenge was issued, or was used up or expired; a statement failed.   *)
End(r) ==
  /\ req[r] # Idle
  /\ req' = [req EXCEPT ![r] = Idle]
  /\ UNCHANGED <<now, windows, locks, lastSweep, hits, failed>>

Aged(counts) == [a \in DOMAIN counts |-> IF a = 0 THEN 0 ELSE counts[a - 1]]

Tick ==
  /\ now < MaxTime
  /\ now' = now + 1
  /\ hits' = [k \in WindowKey |-> Aged(hits[k])]
  /\ failed' = [s \in Subject |-> Aged(failed[s])]
  /\ UNCHANGED <<windows, locks, lastSweep, req>>

Next ==
  \/ \E r \in Request :
       \/ \E ip \in Ip \cup {None}, h \in Handle : Challenge(r, ip, h) \/ Token(r, ip, h)
       \/ Fail(r) \/ Succeed(r) \/ End(r)
  \/ Tick

Spec == Init /\ [][Next]_vars

-----------------------------------------------------------------------------
(* Properties.                                                              *)

Total(counts, oldest) ==
  LET sum[a \in DOMAIN counts] == counts[a] + IF a = 0 THEN 0 ELSE sum[a - 1] IN sum[oldest]

(* A fixed window admits bursts around its end, but never more than         *)
(* 2 * Limit - 1 in any stretch of one window's length: the first hit of a  *)
(* window starts it, so it lies outside every stretch that reaches into the *)
(* next window.                                                             *)
BurstBounded == \A k \in WindowKey : Total(hits[k], Window - 1) <= 2 * Limit - 1

(* A subject with n failures and no success in the last hour is not         *)
(* admitted before the n-th backoff is over, whatever the sweep dropped and *)
(* whichever requests, admitted earlier, failed or ended meanwhile.         *)
Recent(s) == Total(failed[s], IdleMs)
SinceFailed(s) ==
  CHOOSE a \in DOMAIN failed[s] : failed[s][a] > 0 /\ \A b \in 0 .. a - 1 : failed[s][b] = 0
BackoffHonoured ==
  [][\A r \in Request : req[r] = Idle /\ req'[r] # Idle =>
       \A s \in FailKeys(req'[r].ip, IF req'[r].pc = "challenge" THEN req'[r].handle ELSE None) :
         Recent(s) >= Threshold => SinceFailed(s) >= Lockout(Recent(s))]_vars

(* Memory: a sweep leaves no window that is over. *)
WindowsSwept ==
  \A k \in WindowKey : windows[k] # NoWindow => windows[k].resetAt > lastSweep

(* What the repository says and the code does not do.                       *)

(* "sliding window": at most Limit requests in any stretch of the length of *)
(* a window.                                                                *)
SlidingWindow == \A k \in WindowKey : Total(hits[k], Window - 1) <= Limit

(* "Drop ... long-idle locks to bound memory": a sweep leaves no entry whose *)
(* last failure, and the longest lockout after it, are over for an hour.    *)
IdleLocksSwept ==
  \A s \in Subject : lastSweep = now /\ locks[s] # NoLock => failed[s] # NeverFailed

(* "Rate limit challenge and token per service_id and per source IP": no    *)
(* token request is admitted for a service that is locked out.              *)
LockedServiceRefused ==
  [][\A r \in Request : req[r] = Idle /\ req'[r] # Idle => locks[req'[r].handle].until <= now]_vars
=============================================================================

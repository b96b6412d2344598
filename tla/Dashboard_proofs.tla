-------------------------- MODULE Dashboard_proofs --------------------------
(* Theorems about the dashboard, for any number of sessions, subjects and   *)
(* requests in flight, and any lifetimes.                                   *)
EXTENDS Dashboard, TLAPS

(* Both cookies are of one session, in the jar and in every request, and a  *)
(* page that is not the dashboard has no header.                            *)
Paired ==
  /\ jar.csrf = jar.session
  /\ \A r \in Slot : req[r] # Idle =>
       /\ req[r].cookies.csrf = req[r].cookies.session
       /\ req[r].kind = "foreign" => req[r].header = None

(* What a request is about, and what its answer may hold. *)
Sensible ==
  \A r \in Slot : req[r] # Idle =>
    /\ req[r].ans # None => req[r].pc = "back"
    /\ req[r].kind \in InView \cup {"foreign"} => req[r].on \in Subject
    /\ req[r].ans = "ok" /\ req[r].kind \in {"me", "login"} => req[r].got \in Session
    /\ req[r].ans = "ok" /\ req[r].kind \in {"list", "write", "mint"} =>
         req[r].got \in 0 .. version[req[r].on]

(* Which requests App's state goes with: it asks who is signed in, or signs *)
(* in, once at a time.                                                      *)
WaitsToLogin(r) == req[r].kind = "login" /\ req[r].mounted

Bootstrap ==
  \A r \in Slot :
    /\ req[r].kind = "me" => me = "unknown" /\ \A x \in Slot \ {r} : req[x].kind # "me"
    /\ WaitsToLogin(r) => me = "out" /\ \A x \in Slot \ {r} : ~WaitsToLogin(x)
    /\ req[r].kind = "logout" /\ req[r].mounted => me \in Session

(* What a view still waits for is there with the view. *)
Waited ==
  \A r \in Slot :
    /\ req[r].kind = "list" => view # None
    /\ req[r].kind \in {"write", "mint"} /\ req[r].mounted =>
         view # None /\ view.tab # "activity" /\ view.on = req[r].on

(* What the view was told is true, and the load it waits for will not be    *)
(* behind it.                                                               *)
Informed ==
  view # None =>
    /\ view.told <= version[view.on]
    /\ view.load # None /\ req[view.load].ans = "ok" => req[view.load].got >= view.told

(* The types of all but what is revealed. *)
Typed ==
  /\ SessionsTypeOK
  /\ version \in [Subject -> 0 .. MaxVersion]
  /\ me \in Session \cup {"unknown", "out"}
  /\ view \in View \cup {None}
  /\ modal \in 0 .. MaxVersion \cup {None}
  /\ req \in [Slot -> Request \cup {Idle}]
  /\ view # None => me \in Session
  /\ SpinnerEnds

Inv == Typed /\ Paired /\ Sensible /\ Bootstrap /\ Waited /\ Informed /\ ShowsTheLatest

(* What is revealed, which depends on nothing else. *)
RevealInv ==
  /\ revealed \in 0 .. RevealTTL \cup {None}
  /\ revealed = None => timers = {}
  /\ RevealLasts

(* The facts about constants the steps need. *)
LEMMA Constants ==
  /\ RevealTTL \in Nat \ {0} /\ MaxVersion \in Nat /\ SessionTTL \in Nat \ {0}
  /\ None \notin Session /\ None \notin Int /\ None \notin Slot /\ None \notin View
  /\ None # "ok" /\ None # "forbidden"
  /\ "unknown" \notin Session /\ "out" \notin Session
BY SessionsAssumption, DashboardAssumption, NoneAssumption

-----------------------------------------------------------------------------
(* A revealed value.                                                        *)

(* Every step keeps it under one timer. *)
LEMMA RevealStep == RevealInv /\ [Next]_vars => RevealInv'
<1> SUFFICES ASSUME RevealInv, [Next]_vars PROVE RevealInv'
  OBVIOUS
<1>. USE Constants DEF RevealInv, RevealLasts
<1>1. CASE UNCHANGED <<revealed, timers>>
  BY <1>1
<1>2. CASE revealed' = None /\ timers' = {}
  BY <1>2
<1>3. ASSUME NEW r \in Slot, ReceiveReveal(r) PROVE RevealInv'
  <2>1. timers \ HideTimer = {}
    BY DEF HideTimer
  <2>. QED
    BY <1>3, <2>1, <1>1 DEF ReceiveReveal
<1>4. CASE Hide
  <2>1. timers \ HideTimer = {}
    BY DEF HideTimer
  <2>. QED
    BY <1>4, <2>1, <1>2 DEF Hide
<1>5. CASE TimerFires
  <2>1. timers \ {0} = {}
    BY <1>5 DEF TimerFires
  <2>. QED
    BY <1>5, <2>1, <1>2 DEF TimerFires
<1>6. CASE Second
  <2>1. revealed \in 0 .. RevealTTL /\ timers = {RevealTTL - revealed}
    BY <1>6 DEF Second
  <2>2. CASE revealed = RevealTTL
    BY <1>6, <2>1, <2>2 DEF Second
  <2>3. CASE revealed # RevealTTL
    <3>1. revealed \in 0 .. RevealTTL - 1 /\ revealed' = revealed + 1
      BY <1>6, <2>1, <2>3 DEF Second
    <3>2. timers' = {RevealTTL - revealed - 1}
      BY <1>6, <2>1, <3>1 DEF Second
    <3>. QED
      BY <3>1, <3>2
  <2>. QED
    BY <2>2, <2>3
<1>7. CASE UNCHANGED vars
  BY <1>1, <1>7 DEF vars
<1>8. CASE Next
  <2>1. ASSUME NEW r \in Slot,
               \/ Attach(r) \/ Refuse(r) \/ HandleRead(r) \/ HandleWrite(r) \/ Fail(r)
               \/ (\E s \in Session : HandleLogin(r, s))
               \/ ReceiveMe(r) \/ SubmitLogin(r) \/ ReceiveLogin(r) \/ SignOut(r)
        PROVE RevealInv'
    BY <2>1, <1>1 DEF Attach, Refuse, HandleRead, HandleWrite, Fail, HandleLogin, ReceiveMe,
         SubmitLogin, ReceiveLogin, SignOut, shows
  <2>2. ASSUME NEW r \in Slot, PageLoad(r) \/ ReceiveLogout(r) \/ Leave PROVE RevealInv'
    BY <2>2, <1>1, <1>2 DEF PageLoad, ReceiveLogout, Leave, CloseView, shows
  <2>3. ASSUME NEW r \in Slot,
               \/ (\E x \in Subject : ChangeFilters(r, x) \/ Foreign(r, x))
               \/ (\E tab \in Tab, x \in Subject : Open(r, tab, x))
               \/ ReceiveList(r) \/ SubmitWrite(r) \/ SubmitMint(r) \/ ReceiveWrite(r)
               \/ ReceiveMint(r) \/ ReceiveRefusal(r) \/ AskReveal(r)
        PROVE RevealInv'
    BY <2>3, <1>1 DEF ChangeFilters, Foreign, Open, ReceiveList, SubmitWrite, SubmitMint,
         ReceiveWrite, ReceiveMint, ReceiveRefusal, AskReveal, shows
  <2>4. CASE DismissModal \/ Elsewhere \/ (\E x \in Subject : WriteElsewhere(x)) \/ Leave
    BY <2>4, <1>1, <1>2 DEF DismissModal, Elsewhere, WriteElsewhere, Leave, CloseView, shows
  <2>. QED
    BY <1>8, <2>1, <2>2, <2>3, <2>4, <1>3, <1>4, <1>5, <1>6 DEF Next
<1>. QED
  BY <1>7, <1>8

(* A value that is shown is hidden when it was shown for RevealTTL, by the  *)
(* one timer that runs.                                                     *)
THEOREM RevealedValuesGo == Spec => []RevealLasts
<1>1. Init => RevealInv
  BY DEF Init, RevealInv, RevealLasts
<1>2. RevealInv => RevealLasts
  BY DEF RevealInv
<1>. QED
  BY <1>1, <1>2, RevealStep, PTL DEF Spec

-----------------------------------------------------------------------------
(* Requests, by their fields.                                               *)

Kinds == InView \cup {"foreign", "me", "login", "logout"}

(* What a request starts with. *)
LEMMA FetchIs ==
  Inv => \A kind \in Kinds, x \in Subject \cup {None} : \A q :
    q = Fetch(kind, x) =>
      /\ q \in Request
      /\ q.kind = kind /\ q.on = x /\ q.mounted = TRUE /\ q.ans = None
      /\ q.cookies.csrf = q.cookies.session
      /\ kind = "foreign" => q.header = None
<1> SUFFICES ASSUME Inv, NEW kind \in Kinds, NEW x \in Subject \cup {None},
                    NEW q, q = Fetch(kind, x)
             PROVE  /\ q \in Request
                    /\ q.kind = kind /\ q.on = x /\ q.mounted = TRUE /\ q.ans = None
                    /\ q.cookies.csrf = q.cookies.session
                    /\ kind = "foreign" => q.header = None
  OBVIOUS
<1>1. NoCookies \in Cookies /\ NoCookies.csrf = NoCookies.session
  BY DEF NoCookies, Cookies
<1>2. jar \in Cookies /\ jar.csrf \in Session \cup {None} /\ jar.csrf = jar.session
  BY DEF Inv, Typed, SessionsTypeOK, Paired, Cookies
<1>. QED
  BY <1>1, <1>2 DEF Fetch, Request, Kinds, InView, Mutating

(* What an answer leaves of it. *)
AnswerOf(q, ans, got, a) ==
  /\ q \in Request /\ ans \in {None, "ok", "failed", "forbidden"}
  /\ got \in Session \cup 0 .. MaxVersion \cup {None}
  /\ a = Answered(q, ans, got)

(* An answered request is a request, about the same and held no more. *)
LEMMA AnsweredIs ==
  \A q, ans, got, a : AnswerOf(q, ans, got, a) =>
    /\ a \in Request
    /\ a.kind = q.kind /\ a.on = q.on /\ a.mounted = q.mounted
    /\ a.ans = ans /\ a.got = got /\ a.pc = "back"
    /\ a.cookies.csrf = a.cookies.session /\ a.header = None
<1> SUFFICES ASSUME NEW q, NEW ans, NEW got, NEW a, AnswerOf(q, ans, got, a)
             PROVE  /\ a \in Request
                    /\ a.kind = q.kind /\ a.on = q.on /\ a.mounted = q.mounted
                    /\ a.ans = ans /\ a.got = got /\ a.pc = "back"
                    /\ a.cookies.csrf = a.cookies.session /\ a.header = None
  OBVIOUS
<1>1. NoCookies \in Cookies /\ NoCookies.csrf = NoCookies.session
  BY DEF NoCookies, Cookies
<1>. QED
  BY <1>1 DEF Answered, AnswerOf, Request

(* What is left of it when a component goes: a read is gone, nobody waits   *)
(* for the rest, and other components' requests are as they were.           *)
Left(q, kinds, u) ==
  \/ u = q /\ q.kind \notin kinds
  \/ u = Idle /\ q.kind \in kinds \cap Reads
  \/ /\ u \in Request /\ q \in Request /\ q.kind \in kinds \ Reads /\ u.mounted = FALSE
     /\ u.kind = q.kind /\ u.on = q.on /\ u.cookies = q.cookies /\ u.header = q.header
     /\ u.ans = q.ans /\ u.got = q.got /\ u.pc = q.pc

(* Each request after an unmount. *)
LEMMA UnmountedIs ==
  \A kinds \in SUBSET Kinds : \A u :
    Inv /\ u = Unmounted(kinds) =>
      u \in [Slot -> Request \cup {Idle}] /\ \A r \in Slot : Left(req[r], kinds, u[r])
<1> SUFFICES ASSUME NEW kinds \in SUBSET Kinds, NEW u, Inv, u = Unmounted(kinds)
             PROVE  u \in [Slot -> Request \cup {Idle}] /\ \A r \in Slot : Left(req[r], kinds, u[r])
  OBVIOUS
<1>1. ASSUME NEW r \in Slot PROVE u[r] \in Request \cup {Idle} /\ Left(req[r], kinds, u[r])
  <2>1. req[r] \in Request \cup {Idle} /\ (req[r].kind \in kinds => req[r] \in Request)
    BY DEF Inv, Typed, Idle, Kinds, InView, Mutating
  <2>2. u[r] = CASE req[r].kind \in kinds \cap Reads -> Idle
                 [] req[r].kind \in kinds \ Reads -> [req[r] EXCEPT !.mounted = FALSE]
                 [] OTHER -> req[r]
    BY DEF Unmounted
  <2>3. CASE req[r].kind \notin kinds
    BY <2>1, <2>2, <2>3 DEF Left
  <2>4. CASE req[r].kind \in kinds \cap Reads
    BY <2>1, <2>2, <2>4 DEF Left
  <2>5. CASE req[r].kind \in kinds \ Reads
    <3>1. u[r] = [req[r] EXCEPT !.mounted = FALSE] /\ req[r] \in Request
      BY <2>1, <2>2, <2>5
    <3>2. u[r] \in Request
      BY <3>1 DEF Request
    <3>. QED
      BY <2>5, <3>1, <3>2 DEF Left, Request
  <2>. QED
    BY <2>3, <2>4, <2>5
<1>2. u = [r \in Slot |-> u[r]]
  BY DEF Unmounted
<1>. QED
  BY <1>1, <1>2, Zenon

-----------------------------------------------------------------------------
(* Steps, by what they do to the requests.                                  *)

(* Idle slots, and requests that have their type. *)
LEMMA Slots ==
  ASSUME Typed, NEW r \in Slot
  PROVE  /\ Idle.kind = "none"
         /\ req[r] # Idle => req[r] \in Request
         /\ req[r].kind # "none" => req[r] # Idle
BY DEF Typed, Idle

(* A request moves on, on the server or on its way, and the browser has not *)
(* heard of it yet.                                                         *)
MovesOn(r, q) ==
  /\ req[r] # Idle /\ q \in Request \cup {Idle} /\ req' = [req EXCEPT ![r] = q]
  /\ UNCHANGED <<jar, me, view, modal>>
  /\ life' \in [Session -> 1 .. SessionTTL \cup {None}]
  /\ version' \in [Subject -> 0 .. MaxVersion] /\ \A x \in Subject : version[x] <= version'[x]
  /\ q = Idle => req[r].kind = "foreign"
  /\ q # Idle =>
       /\ q.kind = req[r].kind /\ q.on = req[r].on /\ q.mounted = req[r].mounted
       /\ q.ans # None => q.pc = "back"
       /\ q.cookies.csrf = q.cookies.session
       /\ q.kind = "foreign" => q.header = None
       /\ q.ans = "ok" /\ q.kind \in {"me", "login"} => q.got \in Session
       /\ q.ans = "ok" /\ q.kind \in {"list", "write", "mint"} => q.got \in 0 .. version'[q.on]
       /\ q.ans = "ok" /\ view # None /\ view.load = r => q.got >= view.told

(* Such a move keeps the invariant: nothing is written back in time. *)
LEMMA MovesOnStep == \A r \in Slot : \A q : Inv /\ MovesOn(r, q) => Inv'
<1> SUFFICES ASSUME NEW r \in Slot, NEW q, Inv, MovesOn(r, q) PROVE Inv'
  OBVIOUS
<1>. USE DEF MovesOn
<1>. USE Constants
<1>1. \A x \in Slot \ {r} : req'[x] = req[x]
  BY DEF Inv, Typed
<1>2. req'[r] = q /\ req \in [Slot -> Request \cup {Idle}] /\ Idle.kind = "none"
  BY DEF Inv, Typed, Idle
<1>3. Typed'
  <2>1. SpinnerEnds'
    BY <1>1, <1>2 DEF Inv, Typed, SpinnerEnds, View
  <2>. QED
    BY <2>1, <1>2 DEF Inv, Typed, SessionsTypeOK
<1>4. Paired'
  BY <1>1, <1>2 DEF Inv, Paired
<1>5. Sensible'
  <2> SUFFICES ASSUME NEW x \in Slot, req'[x] # Idle
               PROVE  (/\ req[x].ans # None => req[x].pc = "back"
                       /\ req[x].kind \in InView \cup {"foreign"} => req[x].on \in Subject
                       /\ req[x].ans = "ok" /\ req[x].kind \in {"me", "login"} => req[x].got \in Session
                       /\ req[x].ans = "ok" /\ req[x].kind \in {"list", "write", "mint"} =>
                            req[x].got \in 0 .. version[req[x].on])'
    BY DEF Sensible
  <2>1. CASE x = r
    BY <2>1, <1>2 DEF Inv, Sensible
  <2>2. CASE x # r
    <3>1. req'[x] = req[x] /\ req[x] # Idle
      BY <1>1, <2>2
    <3>2. req[x].ans = "ok" /\ req[x].kind \in {"list", "write", "mint"} =>
            req[x].on \in Subject /\ req[x].got \in 0 .. version[req[x].on]
      BY <3>1 DEF Inv, Sensible, InView, Mutating
    <3>3. req[x].on \in Subject =>
            version[req[x].on] \in Nat /\ version'[req[x].on] \in Nat
            /\ version[req[x].on] <= version'[req[x].on]
      BY DEF Inv, Typed
    <3>. QED
      BY <3>1, <3>2, <3>3 DEF Inv, Sensible
  <2>. QED
    BY <2>1, <2>2
<1>6. Bootstrap'
  BY <1>1, <1>2 DEF Inv, Bootstrap, WaitsToLogin
<1>7. Waited'
  BY <1>1, <1>2 DEF Inv, Waited
<1>8. Informed'
  <2> SUFFICES ASSUME view # None
               PROVE  /\ view.told <= version'[view.on]
                      /\ view.load # None /\ req'[view.load].ans = "ok" => req'[view.load].got >= view.told
    BY DEF Informed
  <2>1. view.on \in Subject /\ view.told \in Nat /\ view.load \in Slot \cup {None}
    BY DEF Inv, Typed, View
  <2>2. version[view.on] \in Nat /\ version'[view.on] \in Nat /\ version[view.on] <= version'[view.on]
    BY <2>1 DEF Inv, Typed
  <2>3. view.told <= version[view.on]
    BY DEF Inv, Informed
  <2>4. ASSUME view.load # None, req'[view.load].ans = "ok" PROVE req'[view.load].got >= view.told
    <3>1. view.load \in Slot /\ req[view.load].kind = "list" /\ req[view.load].on = view.on
      BY <2>1, <2>4 DEF Inv, Typed, SpinnerEnds
    <3>2. CASE view.load = r
      BY <2>4, <3>1, <3>2, <1>2
    <3>3. CASE view.load # r
      BY <2>4, <3>1, <3>3, <1>1 DEF Inv, Informed
    <3>. QED
      BY <3>2, <3>3
  <2>. QED
    BY <2>1, <2>2, <2>3, <2>4
<1>9. ShowsTheLatest'
  BY DEF Inv, ShowsTheLatest
<1>. QED
  BY <1>3, <1>4, <1>5, <1>6, <1>7, <1>8, <1>9 DEF Inv

(* The tab, or another page, sends a request that is no load. *)
Sends(r, kind, x) ==
  /\ kind \in Kinds \ {"me", "list"} /\ x \in Subject \cup {None}
  /\ Send(r, kind, x)
  /\ UNCHANGED <<life, jar, version, me, view, modal>>
  /\ kind \in InView \cup {"foreign"} => x \in Subject
  /\ kind = "login" => me = "out" /\ \A y \in Slot : ~WaitsToLogin(y)
  /\ kind = "logout" => me \in Session
  /\ kind \in {"write", "mint"} => view # None /\ view.tab # "activity" /\ view.on = x

(* So does what is sent: it is new, and in its slot nothing was awaited. *)
LEMMA SendsStep == \A r \in Slot : \A kind, x : Inv /\ Sends(r, kind, x) => Inv'
<1> SUFFICES ASSUME NEW r \in Slot, NEW kind, NEW x, Inv, Sends(r, kind, x) PROVE Inv'
  OBVIOUS
<1>. USE DEF Sends
<1>. USE Constants
<1>0. PICK q : q = Fetch(kind, x)
  OBVIOUS
<1>1. /\ req' = [req EXCEPT ![r] = q] /\ req[r] = Idle /\ Idle.kind = "none"
      /\ req \in [Slot -> Request \cup {Idle}]
  BY <1>0 DEF Send, Inv, Typed, Idle
<1>2. /\ q \in Request
      /\ q.kind = kind /\ q.on = x /\ q.mounted = TRUE /\ q.ans = None
      /\ q.cookies.csrf = q.cookies.session
      /\ kind = "foreign" => q.header = None
  <2>1. kind \in Kinds
    OBVIOUS
  <2>. QED
    BY <1>0, <2>1, FetchIs
<1>3. req'[r] = q /\ \A y \in Slot \ {r} : req'[y] = req[y]
  BY <1>1
<1>4. view # None /\ view.load # None => view.load \in Slot /\ view.load # r
  BY <1>1 DEF Inv, Typed, View, SpinnerEnds
<1>5. Typed'
  <2>1. SpinnerEnds'
    BY <1>3, <1>4 DEF Inv, Typed, SpinnerEnds
  <2>. QED
    BY <2>1, <1>1, <1>2 DEF Inv, Typed, SessionsTypeOK
<1>6. Paired'
  BY <1>2, <1>3 DEF Inv, Paired
<1>7. Sensible'
  BY <1>2, <1>3 DEF Inv, Sensible
<1>8. Bootstrap'
  BY <1>1, <1>2, <1>3 DEF Inv, Bootstrap, WaitsToLogin
<1>9. Waited'
  BY <1>2, <1>3 DEF Inv, Waited
<1>10. Informed' /\ ShowsTheLatest'
  BY <1>3, <1>4 DEF Inv, Informed, ShowsTheLatest
<1>. QED
  BY <1>5, <1>6, <1>7, <1>8, <1>9, <1>10 DEF Inv

(* Nothing happens to the requests, the view and the user of the tab. *)
StaysQuiet ==
  /\ UNCHANGED <<me, view, req>>
  /\ life' \in [Session -> 1 .. SessionTTL \cup {None}]
  /\ jar' \in Cookies /\ jar'.csrf = jar'.session
  /\ modal' \in 0 .. MaxVersion \cup {None}
  /\ version' \in [Subject -> 0 .. MaxVersion] /\ \A x \in Subject : version[x] <= version'[x]

(* So does what only adds versions, moves the clock or changes cookies. *)
LEMMA StaysQuietStep == Inv /\ StaysQuiet => Inv'
<1> SUFFICES ASSUME Inv, StaysQuiet PROVE Inv'
  OBVIOUS
<1>. USE DEF StaysQuiet
<1>. USE Constants
<1>1. Typed' /\ Paired' /\ Bootstrap' /\ Waited' /\ ShowsTheLatest'
  BY DEF Inv, Typed, SessionsTypeOK, SpinnerEnds, Paired, Bootstrap, WaitsToLogin, Waited,
         ShowsTheLatest
<1>2. \A x \in Subject : version[x] \in Nat /\ version'[x] \in Nat /\ version[x] <= version'[x]
  BY DEF Inv, Typed
<1>3. Sensible'
  <2> SUFFICES ASSUME NEW r \in Slot, req[r] # Idle, req[r].ans = "ok",
                      req[r].kind \in {"list", "write", "mint"}
               PROVE  req[r].got \in 0 .. version'[req[r].on]
    BY DEF Inv, Sensible
  <2>1. req[r].on \in Subject /\ req[r].got \in 0 .. version[req[r].on]
    BY DEF Inv, Sensible, InView, Mutating
  <2>. QED
    BY <2>1, <1>2
<1>4. Informed'
  <2>1. view # None => view.on \in Subject /\ view.told \in Nat
    BY DEF Inv, Typed, View
  <2>. QED
    BY <2>1, <1>2 DEF Inv, Informed
<1>. QED
  BY <1>1, <1>3, <1>4 DEF Inv

(* An answer is heard that the view's rows do not depend on. *)
Hears(r) ==
  /\ req[r].kind \in {"write", "mint", "reveal"}
  /\ req' = [req EXCEPT ![r] = Idle]
  /\ UNCHANGED <<life, jar, version, me, view>> /\ modal' \in 0 .. MaxVersion \cup {None}

(* The answer's slot was not the one the spinner waits for. *)
LEMMA HearsStep == \A r \in Slot : Inv /\ Hears(r) => Inv'
<1> SUFFICES ASSUME NEW r \in Slot, Inv, Hears(r) PROVE Inv'
  OBVIOUS
<1>. USE DEF Hears
<1>1. req \in [Slot -> Request \cup {Idle}] /\ Idle.kind = "none"
  BY DEF Inv, Typed, Idle
<1>2. req'[r] = Idle /\ \A y \in Slot \ {r} : req'[y] = req[y]
  BY <1>1
<1>3. view # None /\ view.load # None => view.load \in Slot /\ view.load # r
  BY DEF Inv, Typed, View, SpinnerEnds
<1>4. Typed'
  <2>1. SpinnerEnds'
    BY <1>2, <1>3 DEF Inv, Typed, SpinnerEnds
  <2>. QED
    BY <2>1, <1>1 DEF Inv, Typed, SessionsTypeOK
<1>5. Paired' /\ Sensible' /\ Bootstrap' /\ Waited'
  BY <1>1, <1>2 DEF Inv, Paired, Sensible, Bootstrap, WaitsToLogin, Waited
<1>6. Informed' /\ ShowsTheLatest'
  BY <1>2, <1>3 DEF Inv, Informed, ShowsTheLatest
<1>. QED
  BY <1>4, <1>5, <1>6 DEF Inv

(* The view loads its rows, for the first time or anew. *)
Loads(r, v, x) ==
  /\ v \in View /\ x \in Subject
  /\ req[r].kind \notin {"me", "login", "logout"} \/ req[r] = Idle
  /\ req' = [req EXCEPT ![r] = Fetch("list", x)]
  /\ view' = v /\ v.load = r /\ v.on = x /\ v.told <= version[x] /\ me \in Session
  /\ \/ view = None \/ view.tab = "activity"
     \/ view.tab # "activity" /\ v.tab = view.tab /\ v.on = view.on
  /\ UNCHANGED <<life, jar, version, me>> /\ modal' \in 0 .. MaxVersion \cup {None}

(* The spinner now waits for the new request, which nothing has answered. *)
LEMMA LoadsStep == \A r \in Slot : \A v, x : Inv /\ Loads(r, v, x) => Inv'
<1> SUFFICES ASSUME NEW r \in Slot, NEW v, NEW x, Inv, Loads(r, v, x) PROVE Inv'
  OBVIOUS
<1>. USE DEF Loads
<1>. USE Constants
<1>0. PICK q : q = Fetch("list", x)
  OBVIOUS
<1>1. req \in [Slot -> Request \cup {Idle}] /\ Idle.kind = "none"
  BY DEF Inv, Typed, Idle
<1>2. /\ q \in Request
      /\ q.kind = "list" /\ q.on = x /\ q.mounted = TRUE /\ q.ans = None
      /\ q.cookies.csrf = q.cookies.session
  <2>1. "list" \in Kinds
    BY DEF Kinds, InView
  <2>. QED
    BY <1>0, <2>1, FetchIs
<1>3. req'[r] = q /\ \A y \in Slot \ {r} : req'[y] = req[y]
  BY <1>0, <1>1
<1>4. Typed'
  <2>1. SpinnerEnds'
    BY <1>2, <1>3 DEF SpinnerEnds
  <2>2. req' \in [Slot -> Request \cup {Idle}]
    BY <1>0, <1>1, <1>2
  <2>. QED
    BY <2>1, <2>2 DEF Inv, Typed, SessionsTypeOK
<1>5. Paired' /\ Sensible'
  BY <1>2, <1>3 DEF Inv, Paired, Sensible
<1>6. Bootstrap'
  BY <1>1, <1>2, <1>3 DEF Inv, Bootstrap, WaitsToLogin
<1>7. Waited'
  <2>1. v # None
    BY Constants
  <2>. QED
    BY <2>1, <1>2, <1>3 DEF Inv, Waited
<1>8. Informed' /\ ShowsTheLatest'
  BY <1>2, <1>3 DEF Informed, ShowsTheLatest
<1>. QED
  BY <1>4, <1>5, <1>6, <1>7, <1>8 DEF Inv

-----------------------------------------------------------------------------
(* The invariant.                                                           *)

(* What the invariant says of one request.                                  *)
LEMMA RequestFacts ==
  Inv => \A r \in Slot : req[r] # Idle =>
    /\ req[r] \in Request /\ req[r].kind \in Kinds
    /\ req[r].ans # None => req[r].pc = "back"
    /\ req[r].cookies.csrf = req[r].cookies.session
    /\ req[r].kind = "foreign" => req[r].header = None
    /\ req[r].kind \in InView \cup {"foreign"} => req[r].on \in Subject
    /\ req[r].ans = "ok" /\ req[r].kind \in {"me", "login"} => req[r].got \in Session
    /\ req[r].ans = "ok" /\ req[r].kind \in {"list", "write", "mint"} =>
         req[r].got \in 0 .. version[req[r].on]
    /\ view # None /\ view.load = r =>
         /\ req[r].kind = "list" /\ req[r].on = view.on
         /\ view.told \in Nat /\ view.told <= version[view.on]
         /\ req[r].ans = "ok" => req[r].got >= view.told
<1> SUFFICES ASSUME Inv, NEW r \in Slot, req[r] # Idle
             PROVE  /\ req[r] \in Request /\ req[r].kind \in Kinds
                    /\ view # None /\ view.load = r =>
                         /\ req[r].kind = "list" /\ req[r].on = view.on
                         /\ view.told \in Nat /\ view.told <= version[view.on]
                         /\ req[r].ans = "ok" => req[r].got >= view.told
  BY DEF Inv, Paired, Sensible
<1>1. req[r] \in Request /\ req[r].kind \in Kinds
  BY DEF Inv, Typed, Request, Kinds
<1>2. view # None => view.told \in Nat
  BY DEF Inv, Typed, View
<1>3. r # None
  BY Constants
<1>. QED
  BY <1>1, <1>2, <1>3 DEF Inv, Typed, SpinnerEnds, Informed

(* What it says of the rest. *)
LEMMA StateFacts ==
  Inv => /\ life \in [Session -> 1 .. SessionTTL \cup {None}]
         /\ jar \in Cookies /\ jar.csrf = jar.session
         /\ version \in [Subject -> 0 .. MaxVersion]
         /\ \A x \in Subject : version[x] \in 0 .. MaxVersion
         /\ modal \in 0 .. MaxVersion \cup {None}
         /\ me \in Session \cup {"unknown", "out"}
         /\ req \in [Slot -> Request \cup {Idle}]
         /\ view # None => /\ view \in View /\ view.tab \in Tab /\ view.on \in Subject
                           /\ view.told \in 0 .. MaxVersion /\ view.told <= version[view.on]
                           /\ me \in Session
BY DEF Inv, Typed, SessionsTypeOK, Paired, View, Informed

(* The browser attaches its cookies. *)
LEMMA AttachInv == \A r \in Slot : Inv /\ Attach(r) => Inv'
<1> SUFFICES ASSUME NEW r \in Slot, Inv, Attach(r) PROVE Inv'
  OBVIOUS
<1>1. req[r] # Idle /\ req[r] \in Request
  BY RequestFacts DEF Attach
<1>2. PICK q : q = [req[r] EXCEPT !.pc = "out", !.cookies = jar]
  OBVIOUS
<1>3. req' = [req EXCEPT ![r] = q]
  BY <1>1, <1>2 DEF Attach
<1>4. q \in Request \cup {Idle} /\ q # Idle
  BY <1>1, <1>2, StateFacts DEF Request, Idle
<1>5. /\ q.kind = req[r].kind /\ q.on = req[r].on /\ q.mounted = req[r].mounted
      /\ q.cookies = jar /\ q.header = req[r].header /\ q.ans = req[r].ans /\ q.got = req[r].got
      /\ req[r].ans = None
  BY <1>1, <1>2, RequestFacts DEF Attach, Request
<1>6. UNCHANGED <<life, jar, version, me, view, modal>>
  BY DEF Attach, server, shows
<1>7. \A x \in Subject : version[x] <= version'[x]
  BY <1>6, StateFacts
<1>8. MovesOn(r, q)
  BY <1>1, <1>3, <1>4, <1>5, <1>6, <1>7, RequestFacts, StateFacts DEF MovesOn
<1>. QED
  BY <1>8, MovesOnStep

(* An answer, by the server or by nobody, and a request without one. *)
Passes ==
  /\ UNCHANGED <<jar, me, view, modal>>
  /\ life' \in [Session -> 1 .. SessionTTL \cup {None}]
  /\ version' \in [Subject -> 0 .. MaxVersion] /\ \A x \in Subject : version[x] <= version'[x]

Answers(r, ans, got) ==
  /\ req[r] # Idle
  /\ ans \in {"ok", "failed", "forbidden"} /\ got \in Session \cup 0 .. MaxVersion \cup {None}
  /\ req' = [req EXCEPT ![r] = Answered(req[r], ans, got)]
  /\ ans = "ok" =>
       /\ req[r].kind \in {"me", "login"} => got \in Session
       /\ req[r].kind \in {"list", "write", "mint"} => got \in 0 .. version'[req[r].on]
       /\ view # None /\ view.load = r => got >= view.told

(* An answer to a load is what the server has, which is no older than told. *)
LEMMA AnswersStep == \A r \in Slot : \A ans, got : Inv /\ Passes /\ Answers(r, ans, got) => Inv'
<1> SUFFICES ASSUME NEW r \in Slot, NEW ans, NEW got, Inv, Passes, Answers(r, ans, got) PROVE Inv'
  OBVIOUS
<1>1. PICK q : q = Answered(req[r], ans, got)
  OBVIOUS
<1>2. req[r] \in Request
  BY RequestFacts DEF Answers
<1>3. /\ q \in Request
      /\ q.kind = req[r].kind /\ q.on = req[r].on /\ q.mounted = req[r].mounted
      /\ q.ans = ans /\ q.got = got /\ q.pc = "back"
      /\ q.cookies.csrf = q.cookies.session /\ q.header = None
  <2>1. AnswerOf(req[r], ans, got, q)
    BY <1>1, <1>2 DEF Answers, AnswerOf
  <2>. QED
    BY <2>1, AnsweredIs
<1>4. q # Idle
  BY <1>3 DEF Request, Idle
<1>5. MovesOn(r, q)
  BY <1>1, <1>3, <1>4 DEF MovesOn, Answers, Passes
<1>. QED
  BY <1>5, MovesOnStep

(* Another page's request leaves nothing behind. *)
LEMMA LostStep ==
  \A r \in Slot : Inv /\ Passes /\ req[r] # Idle /\ req[r].kind = "foreign"
                  /\ req' = [req EXCEPT ![r] = Idle] => Inv'
BY MovesOnStep DEF Passes, MovesOn

(* The gate and the session check. *)
LEMMA RefuseInv == \A r \in Slot : Inv /\ Refuse(r) => Inv'
<1> SUFFICES ASSUME NEW r \in Slot, Inv, Refuse(r) PROVE Inv'
  OBVIOUS
<1>1. Passes
  BY StateFacts DEF Refuse, server, shows, Passes
<1>2. CASE req[r].kind = "foreign"
  BY <1>1, <1>2, LostStep DEF Refuse
<1>3. CASE req[r].kind # "foreign"
  <2>1. PICK ans \in {"failed", "forbidden"} : req' = [req EXCEPT ![r] = Answered(req[r], ans, None)]
    BY <1>3 DEF Refuse
  <2>2. Answers(r, ans, None)
    BY <2>1, Constants DEF Refuse, Answers
  <2>. QED
    BY <1>1, <2>2, AnswersStep
<1>. QED
  BY <1>2, <1>3

(* A handler that fails, or a network that does. *)
LEMMA FailInv == \A r \in Slot : Inv /\ Fail(r) => Inv'
<1> SUFFICES ASSUME NEW r \in Slot, Inv, Fail(r) PROVE Inv'
  OBVIOUS
<1>1. Passes
  BY StateFacts DEF Fail, server, shows, Passes
<1>2. CASE req[r].kind = "foreign"
  BY <1>1, <1>2, LostStep DEF Fail
<1>3. CASE req[r].kind # "foreign"
  <2>1. Answers(r, "failed", None)
    BY <1>3 DEF Fail, Answers
  <2>. QED
    BY <1>1, <2>1, AnswersStep
<1>. QED
  BY <1>2, <1>3

(* The handlers that read. *)
LEMMA HandleReadInv == \A r \in Slot : Inv /\ HandleRead(r) => Inv'
<1> SUFFICES ASSUME NEW r \in Slot, Inv, HandleRead(r) PROVE Inv'
  OBVIOUS
<1>1. Passes
  BY StateFacts DEF HandleRead, server, shows, Passes
<1>2. req[r] # Idle /\ req[r].kind \in {"me", "logout", "list", "reveal"}
  BY DEF HandleRead, Authorized
<1>3. CASE req[r].kind = "me"
  <2>1. req[r].cookies.session \in Session
    BY <1>2, RequestFacts DEF HandleRead, Authorized, Valid, Request, Cookies
  <2>2. req' = [req EXCEPT ![r] = Answered(req[r], "ok", req[r].cookies.session)]
    BY <1>3 DEF HandleRead
  <2>3. Answers(r, "ok", req[r].cookies.session)
    BY <1>2, <1>3, <2>1, <2>2, RequestFacts DEF Answers
  <2>. QED
    BY <1>1, <2>3, AnswersStep
<1>4. CASE req[r].kind = "list"
  <2>1. req[r].on \in Subject /\ version' = version
    BY <1>2, <1>4, RequestFacts DEF InView, HandleRead, server
  <2>2. req' = [req EXCEPT ![r] = Answered(req[r], "ok", version[req[r].on])]
    BY <1>4 DEF HandleRead
  <2>3. version[req[r].on] \in 0 .. MaxVersion
    BY <2>1, StateFacts
  <2>4. view # None /\ view.load = r => version[req[r].on] >= view.told
    BY <1>2, <2>3, RequestFacts
  <2>5. Answers(r, "ok", version[req[r].on])
    BY <1>2, <1>4, <2>1, <2>2, <2>3, <2>4, Constants DEF Answers
  <2>. QED
    BY <1>1, <2>5, AnswersStep
<1>5. CASE req[r].kind \in {"logout", "reveal"}
  <2>1. req' = [req EXCEPT ![r] = Answered(req[r], "ok", None)]
    BY <1>5 DEF HandleRead
  <2>2. Answers(r, "ok", None)
    BY <1>2, <1>5, <2>1, RequestFacts DEF Answers
  <2>. QED
    BY <1>1, <2>2, AnswersStep
<1>. QED
  BY <1>2, <1>3, <1>4, <1>5

(* The handlers that write: the answer is the version they wrote. *)
LEMMA HandleWriteInv == \A r \in Slot : Inv /\ HandleWrite(r) => Inv'
<1> SUFFICES ASSUME NEW r \in Slot, Inv, HandleWrite(r) PROVE Inv'
  OBVIOUS
<1>1. req[r] # Idle /\ req[r].kind \in {"write", "mint", "foreign"} /\ req[r].on \in Subject
  BY RequestFacts DEF HandleWrite, Authorized, InView, Mutating
<1>2. version[req[r].on] \in Nat /\ version[req[r].on] < MaxVersion
  BY <1>1, StateFacts, Constants DEF HandleWrite, WritesLeft
<1>3. version' = [version EXCEPT ![req[r].on] = version[req[r].on] + 1]
  BY DEF HandleWrite
<1>4. Passes
  <2>1. version[req[r].on] + 1 \in 0 .. MaxVersion
    BY <1>2, Constants
  <2>2. version' \in [Subject -> 0 .. MaxVersion]
    BY <1>1, <1>3, <2>1, StateFacts
  <2>3. \A x \in Subject : version[x] <= version'[x]
    BY <1>1, <1>2, <1>3, StateFacts
  <2>. QED
    BY <2>2, <2>3, StateFacts DEF HandleWrite, shows, Passes
<1>5. CASE req[r].kind = "foreign"
  BY <1>1, <1>4, <1>5, LostStep DEF HandleWrite
<1>6. CASE req[r].kind # "foreign"
  <2>1. req' = [req EXCEPT ![r] = Answered(req[r], "ok", version[req[r].on] + 1)]
    BY <1>6 DEF HandleWrite
  <2>2. version'[req[r].on] = version[req[r].on] + 1
    BY <1>1, <1>3, StateFacts
  <2>3. /\ version[req[r].on] + 1 \in 0 .. MaxVersion
        /\ version[req[r].on] + 1 \in 0 .. version'[req[r].on]
    BY <1>2, <2>2, Constants
  <2>4. ~(view # None /\ view.load = r)
    BY <1>1, RequestFacts
  <2>5. Answers(r, "ok", version[req[r].on] + 1)
    BY <1>1, <2>1, <2>3, <2>4 DEF Answers
  <2>. QED
    BY <1>4, <2>5, AnswersStep
<1>. QED
  BY <1>5, <1>6

(* The login handler. *)
LEMMA HandleLoginInv == \A r \in Slot, s \in Session : Inv /\ HandleLogin(r, s) => Inv'
<1> SUFFICES ASSUME NEW r \in Slot, NEW s \in Session, Inv, HandleLogin(r, s) PROVE Inv'
  OBVIOUS
<1>1. Passes
  <2>1. SessionTTL \in 1 .. SessionTTL
    BY Constants
  <2>. QED
    BY <2>1, StateFacts DEF HandleLogin, StartSession, shows, Passes
<1>2. Answers(r, "ok", s)
  BY RequestFacts DEF HandleLogin, Answers
<1>. QED
  BY <1>1, <1>2, AnswersStep

(* What the tab sends, and the other page. *)
LEMMA SendsInv ==
  \A r \in Slot :
    Inv /\ (\/ SubmitLogin(r) \/ SignOut(r) \/ SubmitWrite(r) \/ SubmitMint(r) \/ AskReveal(r)
            \/ \E x \in Subject : Foreign(r, x)) => Inv'
<1> SUFFICES ASSUME NEW r \in Slot, Inv,
                    \/ SubmitLogin(r) \/ SignOut(r) \/ SubmitWrite(r) \/ SubmitMint(r) \/ AskReveal(r)
                    \/ \E x \in Subject : Foreign(r, x)
             PROVE  \E kind, x : Sends(r, kind, x)
  BY SendsStep
<1>. USE DEF Kinds, InView, Mutating, server, shows
<1>1. CASE SubmitLogin(r)
  <2>1. Sends(r, "login", None)
    BY <1>1 DEF SubmitLogin, Sends, WaitsToLogin
  <2>. QED
    BY <2>1
<1>2. CASE SignOut(r)
  <2>1. Sends(r, "logout", None)
    BY <1>2 DEF SignOut, Sends
  <2>. QED
    BY <2>1
<1>3. CASE SubmitWrite(r)
  <2>1. Sends(r, "write", view.on)
    BY <1>3, StateFacts DEF SubmitWrite, Sends
  <2>. QED
    BY <2>1
<1>4. CASE SubmitMint(r)
  <2>1. Sends(r, "mint", view.on)
    BY <1>4, StateFacts DEF SubmitMint, Sends
  <2>. QED
    BY <2>1
<1>5. CASE AskReveal(r)
  <2>1. Sends(r, "reveal", view.on)
    BY <1>5, StateFacts DEF AskReveal, Sends
  <2>. QED
    BY <2>1
<1>6. ASSUME NEW x \in Subject, Foreign(r, x) PROVE \E kind, y : Sends(r, kind, y)
  <2>1. Sends(r, "foreign", x)
    BY <1>6 DEF Foreign, Sends
  <2>. QED
    BY <2>1
<1>. QED
  BY <1>1, <1>2, <1>3, <1>4, <1>5, <1>6

(* The rest of the world, the dialog and the clock. *)
LEMMA QuietInv ==
  Inv /\ (\/ DismissModal \/ Hide \/ TimerFires \/ Second \/ Elsewhere \/ UNCHANGED vars
          \/ \E x \in Subject : WriteElsewhere(x)) => Inv'
<1> SUFFICES ASSUME Inv,
                    \/ DismissModal \/ Hide \/ TimerFires \/ Second \/ Elsewhere \/ UNCHANGED vars
                    \/ \E x \in Subject : WriteElsewhere(x)
             PROVE  StaysQuiet
  BY StaysQuietStep
<1>. USE StateFacts DEF StaysQuiet, server, shows
<1>1. CASE DismissModal \/ Hide \/ TimerFires \/ Second \/ UNCHANGED vars
  BY <1>1 DEF DismissModal, Hide, TimerFires, Second, vars
<1>2. CASE Elsewhere
  <2>1. CASE Age
    <3>1. \A s \in Session : Valid(s) /\ life[s] > 1 => life[s] - 1 \in 1 .. SessionTTL
      BY Constants DEF Valid
    <3>2. life' \in [Session -> 1 .. SessionTTL \cup {None}]
      BY <2>1, <3>1 DEF Age
    <3>. QED
      BY <1>2, <2>1, <3>2 DEF Elsewhere, Age
  <2>2. CASE LogoutElsewhere
    <3>1. NoCookies \in Cookies /\ NoCookies.csrf = NoCookies.session
      BY DEF NoCookies, Cookies
    <3>. QED
      BY <1>2, <2>2, <3>1 DEF Elsewhere, LogoutElsewhere
  <2>3. ASSUME NEW s \in Session, LoginElsewhere(s) PROVE StaysQuiet
    <3>1. CookiesOf(s) \in Cookies /\ CookiesOf(s).csrf = CookiesOf(s).session
      BY DEF CookiesOf, Cookies
    <3>2. life' \in [Session -> 1 .. SessionTTL \cup {None}]
      BY <2>3, Constants DEF LoginElsewhere, StartSession
    <3>. QED
      BY <1>2, <2>3, <3>1, <3>2 DEF Elsewhere, LoginElsewhere
  <2>. QED
    BY <1>2, <2>1, <2>2, <2>3 DEF Elsewhere
<1>3. ASSUME NEW x \in Subject, WriteElsewhere(x) PROVE StaysQuiet
  <2>1. version[x] \in Nat /\ version[x] < MaxVersion
    BY <1>3 DEF WriteElsewhere, WritesLeft
  <2>2. version[x] + 1 \in 0 .. MaxVersion
    BY <2>1, Constants
  <2>3. version' \in [Subject -> 0 .. MaxVersion] /\ \A y \in Subject : version[y] <= version'[y]
    BY <1>3, <2>1, <2>2 DEF WriteElsewhere
  <2>. QED
    BY <1>3, <2>3 DEF WriteElsewhere
<1>. QED
  BY <1>1, <1>2, <1>3

(* Answers to what a view sent. *)
LEMMA ReloadInv ==
  \A r \in Slot : \A told :
    Inv /\ req[r] # Idle /\ req[r].kind \in {"write", "mint"} /\ req[r].mounted
        /\ told \in 0 .. version[view.on] /\ Reload(r, told)
        /\ UNCHANGED <<life, jar, version, me>> /\ modal' \in 0 .. MaxVersion \cup {None} => Inv'
<1> SUFFICES ASSUME NEW r \in Slot, NEW told, Inv,
                    req[r] # Idle, req[r].kind \in {"write", "mint"}, req[r].mounted,
                    told \in 0 .. version[view.on], Reload(r, told),
                    UNCHANGED <<life, jar, version, me>>, modal' \in 0 .. MaxVersion \cup {None}
             PROVE  Inv'
  OBVIOUS
<1>1. view # None /\ view.tab # "activity" /\ view \in View /\ view.on \in Subject
  BY StateFacts DEF Inv, Waited
<1>2. version[view.on] \in 0 .. MaxVersion
  BY <1>1, StateFacts
<1>3. PICK v : v = [view EXCEPT !.load = r, !.err = FALSE, !.told = told]
  OBVIOUS
<1>4. told \in 0 .. MaxVersion
  BY <1>2, Constants
<1>5. v \in View /\ v.load = r /\ v.tab = view.tab /\ v.on = view.on /\ v.told = told
  BY <1>1, <1>3, <1>4 DEF View
<1>6. Loads(r, v, view.on)
  BY <1>1, <1>3, <1>5, StateFacts DEF Loads, Reload
<1>. QED
  BY <1>6, LoadsStep

(* What a view is told stays within what was written. *)
LEMMA NewerIs ==
  \A v : Inv /\ view # None /\ v \in 0 .. version[view.on] => Newer(v) \in 0 .. version[view.on]
BY StateFacts DEF Newer

(* A write was done: the view loads again, and knows of it. *)
LEMMA ReceiveWriteInv == \A r \in Slot : Inv /\ ReceiveWrite(r) => Inv'
<1> SUFFICES ASSUME NEW r \in Slot, Inv, ReceiveWrite(r) PROVE Inv'
  OBVIOUS
<1>1. req[r] # Idle /\ req[r].kind = "write" /\ req[r].mounted /\ req[r].ans = "ok"
  BY DEF ReceiveWrite, Back
<1>2. view # None /\ view.on = req[r].on
  BY <1>1 DEF Inv, Waited
<1>3. Newer(req[r].got) \in 0 .. version[view.on]
  BY <1>1, <1>2, RequestFacts, NewerIs
<1>. QED
  BY <1>1, <1>3, StateFacts, ReloadInv DEF ReceiveWrite, server, shows

(* A keypair came. *)
LEMMA ReceiveMintInv == \A r \in Slot : Inv /\ ReceiveMint(r) => Inv'
<1> SUFFICES ASSUME NEW r \in Slot, Inv, ReceiveMint(r) PROVE Inv'
  OBVIOUS
<1>1. req[r] # Idle /\ req[r].kind = "mint" /\ req[r].mounted /\ req[r].ans = "ok"
  BY DEF ReceiveMint, Back
<1>2. view # None /\ view.on = req[r].on /\ view.on \in Subject
  BY <1>1, StateFacts DEF Inv, Waited
<1>3. req[r].got \in 0 .. version[view.on] /\ version[view.on] \in 0 .. MaxVersion
  BY <1>1, <1>2, RequestFacts, StateFacts
<1>4. modal' \in 0 .. MaxVersion
  BY <1>3, Constants DEF ReceiveMint
<1>5. Newer(req[r].got) \in 0 .. version[view.on]
  BY <1>2, <1>3, NewerIs
<1>6. CASE Reload(r, Newer(req[r].got))
  BY <1>1, <1>4, <1>5, <1>6, ReloadInv DEF ReceiveMint, server
<1>7. CASE Done(r)
  BY <1>1, <1>4, <1>7, HearsStep DEF ReceiveMint, Done, Hears, server
<1>. QED
  BY <1>6, <1>7 DEF ReceiveMint

(* A write was not done, or nobody hears of it. *)
LEMMA ReceiveRefusalInv == \A r \in Slot : Inv /\ ReceiveRefusal(r) => Inv'
<1> SUFFICES ASSUME NEW r \in Slot, Inv, ReceiveRefusal(r) PROVE Inv'
  OBVIOUS
<1>1. req[r] # Idle /\ req[r].kind \in {"write", "mint"}
  BY DEF ReceiveRefusal, Back
<1>2. UNCHANGED <<life, jar, version, me>> /\ modal' \in 0 .. MaxVersion \cup {None}
  BY StateFacts DEF ReceiveRefusal, server, shows
<1>3. CASE Done(r)
  BY <1>1, <1>2, <1>3, HearsStep DEF Done, Hears
<1>4. CASE req[r].mounted /\ view.tab = "members" /\ Reload(r, view.told)
  <2>1. view # None
    BY <1>1, <1>4 DEF Inv, Waited
  <2>2. view.told \in 0 .. version[view.on]
    BY <2>1, StateFacts
  <2>. QED
    BY <1>1, <1>2, <1>4, <2>2, ReloadInv
<1>. QED
  BY <1>3, <1>4 DEF ReceiveRefusal

(* A value came. *)
LEMMA ReceiveRevealInv == \A r \in Slot : Inv /\ ReceiveReveal(r) => Inv'
BY StateFacts, HearsStep DEF ReceiveReveal, Back, Hears, server

(* A view's first rows, and those of other filters. *)
LEMMA OpenInv == \A r \in Slot, tab \in Tab, x \in Subject : Inv /\ Open(r, tab, x) => Inv'
<1> SUFFICES ASSUME NEW r \in Slot, NEW tab \in Tab, NEW x \in Subject, Inv, Open(r, tab, x) PROVE Inv'
  OBVIOUS
<1>1. PICK v : v = [tab |-> tab, on |-> x, shown |-> None, err |-> FALSE, load |-> r, told |-> 0]
  OBVIOUS
<1>2. v \in View /\ v.load = r /\ v.on = x /\ v.told = 0
  BY <1>1, Constants DEF View
<1>3. version[x] \in 0 .. MaxVersion
  BY StateFacts
<1>4. Loads(r, v, x)
  BY <1>1, <1>2, <1>3, StateFacts DEF Open, Loads, server, shows
<1>. QED
  BY <1>4, LoadsStep

(* A request for other filters takes the place of the one before. *)
LEMMA ChangeFiltersInv == \A r \in Slot, x \in Subject : Inv /\ ChangeFilters(r, x) => Inv'
<1> SUFFICES ASSUME NEW r \in Slot, NEW x \in Subject, Inv, ChangeFilters(r, x) PROVE Inv'
  OBVIOUS
<1>1. PICK v : v = [view EXCEPT !.on = x, !.err = FALSE, !.load = r, !.told = 0]
  OBVIOUS
<1>2. v \in View /\ v.load = r /\ v.on = x /\ v.told = 0
  <2>1. view \in View /\ 0 \in 0 .. MaxVersion
    BY Constants, StateFacts DEF ChangeFilters
  <2>. QED
    BY <1>1, <2>1 DEF View
<1>3. version[x] \in 0 .. MaxVersion
  BY StateFacts
<1>4. Loads(r, v, x)
  BY <1>1, <1>2, <1>3, StateFacts DEF ChangeFilters, Loads, server, shows
<1>. QED
  BY <1>4, LoadsStep

(* The rows came: heard only from the request the view still waits for. *)
LEMMA ReceiveListInv == \A r \in Slot : Inv /\ ReceiveList(r) => Inv'
<1> SUFFICES ASSUME NEW r \in Slot, Inv, ReceiveList(r) PROVE Inv'
  OBVIOUS
<1>. USE Constants
<1>1. /\ req[r] # Idle /\ req[r].kind = "list" /\ req[r].on \in Subject /\ req[r] \in Request
      /\ req[r].ans = "ok" => req[r].got \in 0 .. version[req[r].on]
  BY RequestFacts DEF ReceiveList, Back, InView
<1>2. req'[r] = Idle /\ (\A y \in Slot \ {r} : req'[y] = req[y]) /\ Idle.kind = "none"
  BY StateFacts DEF ReceiveList, Idle
<1>3. view # None /\ view \in View /\ view.on \in Subject /\ me \in Session
  BY <1>1, StateFacts DEF Inv, Waited
<1>4. req' \in [Slot -> Request \cup {Idle}] /\ UNCHANGED <<life, jar, version, me, modal>>
  BY StateFacts DEF ReceiveList, server, shows
<1>5. /\ view' \in View /\ view'.tab = view.tab /\ view'.on = view.on
      /\ view'.load # None => view' = view /\ view.load # r
      /\ view'.told \in 0 .. version[view.on]
      /\ view'.load = None => view' = view \/ view'.err \/
           (view'.shown # None /\ view'.shown.of = view'.on /\ view'.shown.at >= view'.told)
  <2>1. CASE ~Alive(r)
    BY <1>3, <2>1, StateFacts DEF ReceiveList, Alive
  <2>2. CASE Alive(r) /\ req[r].ans # "ok"
    <3>1. view' = [view EXCEPT !.err = TRUE, !.load = None]
      BY <2>2 DEF ReceiveList, Loaded
    <3>. QED
      <4>1. view' \in View /\ view'.tab = view.tab /\ view'.on = view.on
        BY <1>3, <3>1 DEF View
      <4>2. view'.err /\ view'.load = None /\ view'.told = view.told
        BY <1>3, <3>1 DEF View
      <4>3. view.told \in 0 .. version[view.on]
        BY <1>3, StateFacts
      <4>. QED
        BY <4>1, <4>2, <4>3
  <2>3. CASE Alive(r) /\ req[r].ans = "ok"
    <3>1. req[r].on = view.on /\ req[r].got >= view.told /\ req[r].got \in 0 .. version[view.on]
      BY <1>1, <1>3, <2>3, RequestFacts DEF Alive
    <3>2. version[view.on] \in 0 .. MaxVersion /\ view.told \in 0 .. MaxVersion
      BY <1>3, StateFacts
    <3>3. Newer(req[r].got) = req[r].got /\ req[r].got \in 0 .. MaxVersion
      BY <3>1, <3>2 DEF Newer
    <3>4. PICK rows : rows = [of |-> req[r].on, at |-> req[r].got]
      OBVIOUS
    <3>5. rows \in Rows /\ rows.of = view.on /\ rows.at = req[r].got
      BY <1>1, <3>1, <3>3, <3>4 DEF Rows
    <3>6. rows # None
      BY <3>5, NoneAssumption DEF Rows
    <3>7. view' = [view EXCEPT !.shown = rows, !.load = None, !.told = req[r].got]
      BY <2>3, <3>3, <3>4 DEF ReceiveList, Loaded
    <3>8. view' \in View
      BY <1>3, <3>3, <3>5, <3>7 DEF View
    <3>. QED
      BY <1>3, <3>1, <3>3, <3>5, <3>6, <3>7, <3>8 DEF View
  <2>. QED
    BY <2>1, <2>2, <2>3
<1>6. Typed'
  <2>1. SpinnerEnds'
    BY <1>2, <1>3, <1>5 DEF Inv, Typed, SpinnerEnds, View
  <2>. QED
    BY <2>1, <1>3, <1>4, <1>5 DEF Inv, Typed, SessionsTypeOK
<1>7. Paired' /\ Sensible' /\ Bootstrap'
  BY <1>2, <1>4 DEF Inv, Paired, Sensible, Bootstrap, WaitsToLogin
<1>8. Waited'
  BY <1>2, <1>3, <1>5 DEF Inv, Waited
<1>9. Informed'
  <2>1. view'.load # None => view'.load \in Slot \ {r}
    BY <1>5 DEF View
  <2>. QED
    BY <2>1, <1>2, <1>3, <1>4, <1>5, StateFacts DEF Inv, Informed
<1>10. ShowsTheLatest'
  BY <1>3, <1>5 DEF Inv, ShowsTheLatest
<1>. QED
  BY <1>6, <1>7, <1>8, <1>9, <1>10 DEF Inv

(* Who is signed in, and what unmounts with it. *)
LEMMA ReceiveMeInv == \A r \in Slot : Inv /\ ReceiveMe(r) => Inv'
<1> SUFFICES ASSUME NEW r \in Slot, Inv, ReceiveMe(r) PROVE Inv'
  OBVIOUS
<1>. USE Constants
<1>1. /\ req[r] # Idle /\ req[r].kind = "me" /\ (req[r].ans = "ok" => req[r].got \in Session)
      /\ me = "unknown" /\ \A x \in Slot \ {r} : req[x].kind # "me" /\ ~WaitsToLogin(x)
  BY RequestFacts DEF ReceiveMe, Back, Inv, Bootstrap
<1>2. view = None /\ \A x \in Slot : ~(req[x].kind = "logout" /\ req[x].mounted)
  BY <1>1 DEF Inv, Typed, Bootstrap
<1>3. req'[r] = Idle /\ (\A y \in Slot \ {r} : req'[y] = req[y]) /\ Idle.kind = "none"
  BY StateFacts DEF ReceiveMe, Idle
<1>4. /\ req' \in [Slot -> Request \cup {Idle}] /\ UNCHANGED <<life, jar, version, view, modal>>
      /\ me' \in Session \cup {"unknown", "out"}
  <2>1. me' \in Session \/ me' = "out"
    BY <1>1 DEF ReceiveMe
  <2>. QED
    BY <2>1, StateFacts DEF ReceiveMe, server, shows
<1>5. Typed' /\ Informed' /\ ShowsTheLatest'
  BY <1>2, <1>4 DEF Inv, Typed, SessionsTypeOK, SpinnerEnds, Informed, ShowsTheLatest
<1>6. Paired' /\ Sensible' /\ Waited'
  BY <1>3, <1>4 DEF Inv, Paired, Sensible, Waited
<1>7. Bootstrap'
  BY <1>1, <1>2, <1>3 DEF Bootstrap, WaitsToLogin
<1>. QED
  BY <1>5, <1>6, <1>7 DEF Inv

(* The login's answer, heard by a form that is still there or by nobody. *)
LEMMA ReceiveLoginInv == \A r \in Slot : Inv /\ ReceiveLogin(r) => Inv'
<1> SUFFICES ASSUME NEW r \in Slot, Inv, ReceiveLogin(r) PROVE Inv'
  OBVIOUS
<1>. USE Constants
<1>1. req[r] # Idle /\ req[r].kind = "login" /\ (req[r].ans = "ok" => req[r].got \in Session)
  BY RequestFacts DEF ReceiveLogin, Back
<1>2. jar' \in Cookies /\ jar'.csrf = jar'.session
  BY <1>1, StateFacts DEF ReceiveLogin, CookiesOf, Cookies
<1>3. req'[r] = Idle /\ (\A y \in Slot \ {r} : req'[y] = req[y]) /\ Idle.kind = "none"
  BY StateFacts DEF ReceiveLogin, Idle
<1>4. req' \in [Slot -> Request \cup {Idle}] /\ UNCHANGED <<life, version, view, modal>>
  BY StateFacts DEF ReceiveLogin, server, shows
<1>5. view # None /\ view.load # None => view.load # r
  BY <1>1 DEF Inv, Typed, SpinnerEnds
<1>6. CASE req[r].ans = "ok" /\ req[r].mounted
  <2>1. me' \in Session /\ me = "out" /\ view = None
    BY <1>1, <1>6 DEF ReceiveLogin, Inv, Bootstrap, Typed, WaitsToLogin
  <2>2. /\ \A x \in Slot : req[x].kind # "me" /\ ~(req[x].kind = "logout" /\ req[x].mounted)
        /\ \A x \in Slot \ {r} : ~WaitsToLogin(x)
    BY <1>1, <1>6, <2>1 DEF Inv, Bootstrap, WaitsToLogin
  <2>3. Typed' /\ Informed' /\ ShowsTheLatest'
    BY <1>2, <1>4, <2>1 DEF Inv, Typed, SessionsTypeOK, SpinnerEnds, Informed, ShowsTheLatest
  <2>4. Paired' /\ Sensible' /\ Waited'
    BY <1>2, <1>3, <1>4 DEF Inv, Paired, Sensible, Waited
  <2>5. Bootstrap'
    BY <1>3, <2>1, <2>2 DEF Bootstrap, WaitsToLogin
  <2>. QED
    BY <2>3, <2>4, <2>5 DEF Inv
<1>7. CASE ~(req[r].ans = "ok" /\ req[r].mounted)
  <2>1. me' = me
    BY <1>7 DEF ReceiveLogin
  <2>2. SpinnerEnds'
    BY <1>3, <1>4, <1>5, StateFacts DEF Inv, Typed, SpinnerEnds, View
  <2>3. Typed'
    BY <1>2, <1>4, <2>1, <2>2 DEF Inv, Typed, SessionsTypeOK
  <2>4. Paired' /\ Sensible' /\ Waited' /\ Bootstrap'
    BY <1>2, <1>3, <1>4, <2>1 DEF Inv, Paired, Sensible, Waited, Bootstrap, WaitsToLogin
  <2>5. Informed' /\ ShowsTheLatest'
    BY <1>3, <1>4, <1>5, StateFacts DEF Inv, Informed, ShowsTheLatest, View
  <2>. QED
    BY <2>3, <2>4, <2>5 DEF Inv
<1>. QED
  BY <1>6, <1>7

(* The view goes, and the requests it waits for with it.  The tab may ask   *)
(* who is signed in.                                                        *)
Asks(q) == q \in Request /\ q.kind = "me" /\ q.ans = None /\ q.cookies.csrf = q.cookies.session

Closes(kinds) ==
  /\ kinds \in SUBSET Kinds /\ InView \subseteq kinds
  /\ view' = None /\ modal' = None
  /\ UNCHANGED <<life, version>> /\ jar' \in Cookies /\ jar'.csrf = jar'.session
  /\ me' \in Session \cup {"unknown", "out"}
  /\ req' \in [Slot -> Request \cup {Idle}]
  /\ \A r \in Slot : Left(req[r], kinds, req'[r]) \/ req'[r] = Idle \/ Asks(req'[r])
  /\ Bootstrap'

(* Nothing the view was waiting for can be heard any more. *)
LEMMA ClosesStep == \A kinds : Inv /\ Closes(kinds) => Inv'
<1> SUFFICES ASSUME NEW kinds, Inv, Closes(kinds) PROVE Inv'
  OBVIOUS
<1>. USE Constants DEF Closes
<1>1. Idle.kind = "none"
  BY DEF Idle
<1>2. Typed' /\ Informed' /\ ShowsTheLatest'
  BY StateFacts DEF Typed, SessionsTypeOK, SpinnerEnds, Informed, ShowsTheLatest
<1>3. Paired'
  <2> SUFFICES ASSUME NEW r \in Slot, req'[r] # Idle, ~Asks(req'[r])
               PROVE  /\ req[r] # Idle /\ req'[r].kind = req[r].kind
                      /\ req'[r].cookies = req[r].cookies /\ req'[r].header = req[r].header
    BY RequestFacts DEF Paired, Asks
  <2>. QED
    BY <1>1 DEF Left, Kinds, InView, Mutating
<1>4. Sensible'
  <2> SUFFICES ASSUME NEW r \in Slot, req'[r] # Idle, ~Asks(req'[r])
               PROVE  req[r] # Idle /\ req'[r].kind = req[r].kind /\ req'[r].on = req[r].on
                      /\ req'[r].ans = req[r].ans /\ req'[r].got = req[r].got
                      /\ req'[r].pc = req[r].pc
    BY RequestFacts DEF Sensible, Asks, InView, Mutating
  <2>. QED
    BY <1>1 DEF Left, Kinds, InView, Mutating
<1>5. Waited'
  <2> SUFFICES ASSUME NEW r \in Slot
               PROVE  /\ req'[r].kind # "list"
                      /\ ~(req'[r].kind \in {"write", "mint"} /\ req'[r].mounted)
    BY DEF Waited
  <2>. QED
    BY <1>1 DEF Left, Asks, InView, Mutating, Reads
<1>. QED
  BY <1>2, <1>3, <1>4, <1>5 DEF Inv

(* The page is loaded again. *)
LEMMA PageLoadInv == \A r \in Slot : Inv /\ PageLoad(r) => Inv'
<1> SUFFICES ASSUME NEW r \in Slot, Inv, PageLoad(r) PROVE Inv'
  OBVIOUS
<1>1. PICK kinds : kinds = InView \cup {"me", "login", "logout"}
  OBVIOUS
<1>2. PICK u : u = Unmounted(kinds)
  OBVIOUS
<1>3. PICK q : q = Fetch("me", None)
  OBVIOUS
<1>4. kinds \in SUBSET Kinds /\ "me" \in Kinds
  BY <1>1 DEF Kinds
<1>5. Asks(q)
  BY <1>3, <1>4, FetchIs DEF Asks
<1>6. u \in [Slot -> Request \cup {Idle}] /\ \A x \in Slot : Left(req[x], kinds, u[x])
  BY <1>2, <1>4, UnmountedIs
<1>7. req' = [u EXCEPT ![r] = q]
  BY <1>1, <1>2, <1>3 DEF PageLoad
<1>8. req'[r] = q /\ \A x \in Slot \ {r} : req'[x] = u[x]
  BY <1>6, <1>7
<1>9. Bootstrap'
  <2>1. \A x \in Slot \ {r} : u[x].kind # "me" /\ ~(u[x].kind \in {"login", "logout"} /\ u[x].mounted)
    BY <1>1, <1>6 DEF Left, Reads, Idle
  <2>. QED
    BY <2>1, <1>5, <1>8 DEF PageLoad, Bootstrap, WaitsToLogin, Asks
<1>10. Closes(kinds)
  <2>1. req' \in [Slot -> Request \cup {Idle}]
    BY <1>5, <1>6, <1>7 DEF Asks
  <2>. QED
    BY <1>1, <1>4, <1>5, <1>6, <1>8, <1>9, <2>1, StateFacts DEF PageLoad, CloseView, Closes, server
<1>. QED
  BY <1>10, ClosesStep

(* The view is left. *)
LEMMA LeaveInv == Inv /\ Leave => Inv'
<1> SUFFICES ASSUME Inv, Leave PROVE Inv'
  OBVIOUS
<1>1. InView \in SUBSET Kinds
  BY DEF Kinds
<1>2. req' \in [Slot -> Request \cup {Idle}] /\ \A x \in Slot : Left(req[x], InView, req'[x])
  BY <1>1, UnmountedIs DEF Leave
<1>3. Bootstrap'
  BY <1>2 DEF Leave, Inv, Bootstrap, WaitsToLogin, Left, InView, Mutating, Idle
<1>4. Closes(InView)
  BY <1>1, <1>2, <1>3, StateFacts DEF Leave, CloseView, Closes, server
<1>. QED
  BY <1>4, ClosesStep

(* The logout's answer. *)
LEMMA ReceiveLogoutInv == \A r \in Slot : Inv /\ ReceiveLogout(r) => Inv'
<1> SUFFICES ASSUME NEW r \in Slot, Inv, ReceiveLogout(r) PROVE Inv'
  OBVIOUS
<1>1. req[r] # Idle /\ req[r].kind = "logout"
  BY DEF ReceiveLogout, Back
<1>2. jar' \in Cookies /\ jar'.csrf = jar'.session
  BY StateFacts DEF ReceiveLogout, NoCookies, Cookies
<1>3. CASE req[r].mounted
  <2>1. PICK kinds : kinds = InView \cup {"logout"}
    OBVIOUS
  <2>2. PICK u : u = Unmounted(kinds)
    OBVIOUS
  <2>3. kinds \in SUBSET Kinds
    BY <2>1 DEF Kinds
  <2>4. u \in [Slot -> Request \cup {Idle}] /\ \A x \in Slot : Left(req[x], kinds, u[x])
    BY <2>2, <2>3, UnmountedIs
  <2>5. req' = [u EXCEPT ![r] = Idle] /\ me' = "out" /\ me \in Session
    BY <1>1, <1>3, <2>1, <2>2 DEF ReceiveLogout, Inv, Bootstrap
  <2>6. req'[r] = Idle /\ \A x \in Slot \ {r} : req'[x] = u[x]
    BY <2>4, <2>5
  <2>7. \A x \in Slot : req[x].kind # "me" /\ ~WaitsToLogin(x)
    BY <2>5, Constants DEF Inv, Bootstrap
  <2>8. \A x \in Slot : /\ req'[x].kind # "me"
                        /\ ~(req'[x].kind \in {"login", "logout"} /\ req'[x].mounted)
    BY <2>1, <2>4, <2>6, <2>7 DEF WaitsToLogin, Left, Idle, InView, Mutating
  <2>9. Bootstrap'
    BY <2>8 DEF Bootstrap, WaitsToLogin
  <2>10. Closes(kinds)
    BY <1>2, <1>3, <2>1, <2>3, <2>4, <2>5, <2>6, <2>9 DEF ReceiveLogout, CloseView, Closes, server
  <2>. QED
    BY <2>10, ClosesStep
<1>4. CASE ~req[r].mounted
  <2>1. req'[r] = Idle /\ (\A y \in Slot \ {r} : req'[y] = req[y]) /\ Idle.kind = "none"
    BY <1>4, StateFacts DEF ReceiveLogout, Idle
  <2>2. req' \in [Slot -> Request \cup {Idle}] /\ UNCHANGED <<life, version, me, view, modal>>
    BY <1>4, StateFacts DEF ReceiveLogout, server, shows
  <2>3. view # None /\ view.load # None => view.load # r
    BY <1>1 DEF Inv, Typed, SpinnerEnds
  <2>4. SpinnerEnds'
    BY <2>1, <2>2, <2>3, StateFacts DEF Inv, Typed, SpinnerEnds, View
  <2>5. Typed'
    BY <1>2, <2>2, <2>4 DEF Inv, Typed, SessionsTypeOK
  <2>6. Paired' /\ Sensible' /\ Waited' /\ Bootstrap'
    BY <1>2, <2>1, <2>2 DEF Inv, Paired, Sensible, Waited, Bootstrap, WaitsToLogin
  <2>7. Informed' /\ ShowsTheLatest'
    BY <2>1, <2>2, <2>3, StateFacts DEF Inv, Informed, ShowsTheLatest, View
  <2>. QED
    BY <2>5, <2>6, <2>7 DEF Inv
<1>. QED
  BY <1>3, <1>4

-----------------------------------------------------------------------------
(* A browser without cookies and a server without rows. *)
LEMMA InitInv == Init => Inv
<1> SUFFICES ASSUME Init PROVE Inv
  OBVIOUS
<1>. USE Constants DEF Init
<1>1. SessionsTypeOK
  BY DEF SessionsInit, SessionsTypeOK, NoCookies, Cookies
<1>2. Typed
  BY <1>1 DEF Typed, SpinnerEnds
<1>3. Idle.kind = "none" /\ \A r \in Slot : req[r] = Idle
  BY DEF Idle
<1>4. Paired /\ Sensible /\ Bootstrap /\ Waited /\ Informed /\ ShowsTheLatest
  BY <1>3 DEF Paired, Sensible, Bootstrap, WaitsToLogin, Waited, Informed, ShowsTheLatest,
       SessionsInit, NoCookies
<1>. QED
  BY <1>2, <1>4 DEF Inv

(* Every step keeps the invariant. *)
LEMMA NextInv == Inv /\ [Next]_vars => Inv'
<1> SUFFICES ASSUME Inv, [Next]_vars PROVE Inv'
  OBVIOUS
<1>1. CASE UNCHANGED vars
  BY <1>1, QuietInv
<1>2. ASSUME NEW r \in Slot,
             \/ Attach(r) \/ Refuse(r) \/ HandleRead(r) \/ HandleWrite(r) \/ Fail(r)
             \/ \E s \in Session : HandleLogin(r, s)
      PROVE  Inv'
  BY <1>2, AttachInv, RefuseInv, HandleReadInv, HandleWriteInv, FailInv, HandleLoginInv
<1>3. ASSUME NEW r \in Slot,
             PageLoad(r) \/ ReceiveMe(r) \/ ReceiveLogin(r) \/ ReceiveLogout(r)
      PROVE  Inv'
  BY <1>3, PageLoadInv, ReceiveMeInv, ReceiveLoginInv, ReceiveLogoutInv
<1>4. ASSUME NEW r \in Slot,
             \/ SubmitLogin(r) \/ SignOut(r) \/ SubmitWrite(r) \/ SubmitMint(r) \/ AskReveal(r)
             \/ \E x \in Subject : Foreign(r, x)
      PROVE  Inv'
  BY <1>4, SendsInv
<1>5. ASSUME NEW r \in Slot,
             \/ \E x \in Subject : ChangeFilters(r, x)
             \/ \E tab \in Tab, x \in Subject : Open(r, tab, x)
      PROVE  Inv'
  BY <1>5, ChangeFiltersInv, OpenInv
<1>6. ASSUME NEW r \in Slot,
             \/ ReceiveList(r) \/ ReceiveWrite(r) \/ ReceiveMint(r) \/ ReceiveRefusal(r)
             \/ ReceiveReveal(r)
      PROVE  Inv'
  BY <1>6, ReceiveListInv, ReceiveWriteInv, ReceiveMintInv, ReceiveRefusalInv, ReceiveRevealInv
<1>7. CASE DismissModal \/ Hide \/ TimerFires \/ Second \/ Elsewhere
             \/ \E x \in Subject : WriteElsewhere(x)
  BY <1>7, QuietInv
<1>. QED
  BY <1>1, <1>2, <1>3, <1>4, <1>5, <1>6, <1>7, LeaveInv DEF Next

(* The invariant holds throughout. *)
LEMMA Invariant == Spec => []Inv
BY InitInv, NextInv, PTL DEF Spec

-----------------------------------------------------------------------------
(* The state is well typed, and the spinner of a view turns only while the  *)
(* request that ends it is there.                                           *)
THEOREM TypeCorrect == Spec => []TypeOK
<1>1. Init => RevealInv
  BY DEF Init, RevealInv, RevealLasts
<1>2. Inv /\ RevealInv => TypeOK
  <2> SUFFICES ASSUME Inv, RevealInv PROVE TypeOK
    OBVIOUS
  <2>1. timers \subseteq 0 .. RevealTTL
    <3>1. CASE revealed = None
      BY <3>1 DEF RevealInv
    <3>2. CASE revealed # None
      <4>1. revealed \in 0 .. RevealTTL /\ timers = {RevealTTL - revealed}
        BY <3>2 DEF RevealInv, RevealLasts
      <4>2. RevealTTL - revealed \in 0 .. RevealTTL
        BY <4>1, Constants
      <4>. QED
        BY <4>1, <4>2
    <3>. QED
      BY <3>1, <3>2
  <2>. QED
    BY <2>1 DEF Inv, Typed, RevealInv, TypeOK
<1>. QED
  BY <1>1, <1>2, RevealStep, Invariant, PTL DEF Spec

(* What a table shows once it has loaded is of the view's subject, and not  *)
(* behind what the view has shown of it or was told it wrote: an answer     *)
(* that comes late cannot replace a newer one.                              *)
THEOREM TablesShowTheLatest == Spec => []ShowsTheLatest
<1>1. Inv => ShowsTheLatest
  BY DEF Inv
<1>. QED
  BY <1>1, Invariant, PTL

-----------------------------------------------------------------------------
(* A step that answers or loses a request the gate has before it.           *)
GateStep(r) ==
  req[r] # Idle /\ req[r].pc = "out" /\ req'[r] # req[r] =>
    /\ req[r].kind = "foreign" => version' = version
    /\ req'[r] # Idle /\ req'[r].ans = "forbidden" => req[r].header # req[r].cookies.csrf

(* The server's and the network's steps change one request. *)
LEMMA ServerSteps ==
  \A r, x \in Slot :
    Inv /\ (\/ Attach(x) \/ Refuse(x) \/ HandleRead(x) \/ HandleWrite(x) \/ Fail(x)
            \/ \E s \in Session : HandleLogin(x, s)) => GateStep(r)
<1> SUFFICES ASSUME NEW r \in Slot, NEW x \in Slot, Inv,
                    \/ Attach(x) \/ Refuse(x) \/ HandleRead(x) \/ HandleWrite(x) \/ Fail(x)
                    \/ \E s \in Session : HandleLogin(x, s),
                    req[r] # Idle, req[r].pc = "out", req'[r] # req[r]
             PROVE  /\ req[r].kind = "foreign" => version' = version
                    /\ req'[r] # Idle /\ req'[r].ans = "forbidden" =>
                         req[r].header # req[r].cookies.csrf
  BY DEF GateStep
<1>. USE Constants
<1>1. /\ req[r] \in Request /\ req[r].kind \in Kinds
      /\ req[r].cookies.csrf = req[r].cookies.session
      /\ req[r].kind = "foreign" => req[r].header = None
  BY RequestFacts
<1>2. x = r
  BY StateFacts DEF Attach, Refuse, HandleRead, HandleWrite, Fail, HandleLogin
<1>4. CASE Attach(x)
  BY <1>2, <1>4 DEF Attach
<1>5. CASE Refuse(x)
  <2>1. version' = version
    BY <1>5 DEF Refuse, server
  <2>2. CASE req[r].kind = "foreign"
    BY <1>2, <1>5, <2>1, <2>2, StateFacts DEF Refuse
  <2>3. CASE req[r].kind # "foreign" /\ Admitted(req[r])
    <3>1. req'[r].ans = "failed"
      BY <1>1, <1>2, <1>5, <2>3, StateFacts DEF Refuse, Answered, Request
    <3>. QED
      BY <2>1, <3>1
  <2>4. CASE req[r].kind # "foreign" /\ ~Admitted(req[r])
    <3>1. req[r].header # req[r].cookies.csrf
      BY <1>1, <2>4 DEF Admitted, GateOpen
    <3>. QED
      BY <2>1, <3>1
  <2>. QED
    BY <2>2, <2>3, <2>4
<1>6. CASE HandleRead(x)
  <2>1. req[r].kind # "foreign" /\ req'[r].ans = "ok"
    BY <1>1, <1>2, <1>6, StateFacts DEF HandleRead, Answered, Request
  <2>. QED
    BY <2>1
<1>7. CASE HandleWrite(x)
  <2>1. req[r].kind # "foreign"
    <3>1. req[r].cookies.session # None /\ Admitted(req[r])
      BY <1>2, <1>7 DEF HandleWrite, Authorized, Valid
    <3>. QED
      BY <1>1, <3>1 DEF Admitted, GateOpen, Guarded, Mutating
  <2>2. req'[r].ans = "ok"
    BY <1>1, <1>2, <1>7, <2>1, StateFacts DEF HandleWrite, Answered, Request
  <2>. QED
    BY <2>1, <2>2
<1>8. CASE Fail(x)
  <2>1. version' = version
    BY <1>8 DEF Fail, server
  <2>2. req[r].kind # "foreign" => req'[r].ans = "failed"
    BY <1>1, <1>2, <1>8, StateFacts DEF Fail, Answered, Request
  <2>3. req[r].kind = "foreign" => req'[r] = Idle
    BY <1>2, <1>8, StateFacts DEF Fail
  <2>. QED
    BY <2>1, <2>2, <2>3
<1>9. CASE \E s \in Session : HandleLogin(x, s)
  <2>1. PICK s \in Session : HandleLogin(r, s)
    BY <1>2, <1>9
  <2>2. req[r].kind = "login" /\ req' = [req EXCEPT ![r] = Answered(req[r], "ok", s)]
    BY <2>1 DEF HandleLogin
  <2>3. req'[r].ans = "ok"
    BY <1>1, <2>2, StateFacts DEF Answered, Request
  <2>. QED
    BY <2>2, <2>3
<1>. QED
  BY <1>4, <1>5, <1>6, <1>7, <1>8, <1>9

(* The browser's steps leave a request that is out as it is, or drop it, or *)
(* forget who sent it.                                                      *)
LEMMA GateExactStep == Inv /\ [Next]_vars => \A r \in Slot : GateStep(r)
<1> SUFFICES ASSUME Inv, [Next]_vars, NEW r \in Slot PROVE GateStep(r)
  OBVIOUS
<1>1. CASE req' = req
  BY <1>1 DEF GateStep
<1>2. ASSUME NEW x \in Slot, NEW q, req' = [req EXCEPT ![x] = q], req[x] = Idle \/ req[x].pc = "back"
      PROVE  GateStep(r)
  BY <1>2, StateFacts DEF GateStep
<1>3. ASSUME NEW kinds, Left(req[r], kinds, req'[r]), version' = version PROVE GateStep(r)
  <2>1. req[r] # Idle /\ req[r].pc = "out" => req[r].ans = None
    BY RequestFacts
  <2>2. req[r] # Idle /\ req[r].pc = "out" => req'[r] = req[r] \/ req'[r] = Idle \/ req'[r].ans = None
    BY <1>3, <2>1 DEF Left
  <2>. QED
    BY <1>3, <2>2, Constants DEF GateStep
<1>4. ASSUME NEW x \in Slot, PageLoad(x) PROVE GateStep(r)
  <2>1. PICK kinds : kinds = InView \cup {"me", "login", "logout"}
    OBVIOUS
  <2>2. PICK u : u = Unmounted(kinds)
    OBVIOUS
  <2>3. u \in [Slot -> Request \cup {Idle}] /\ Left(req[r], kinds, u[r])
    BY <2>1, <2>2, UnmountedIs DEF Kinds
  <2>4. req' = [u EXCEPT ![x] = Fetch("me", None)] /\ req[x] = Idle /\ version' = version
    BY <1>4, <2>1, <2>2 DEF PageLoad, server
  <2>5. CASE x = r
    BY <2>4, <2>5 DEF GateStep
  <2>6. CASE x # r
    BY <1>3, <2>3, <2>4, <2>6
  <2>. QED
    BY <2>5, <2>6
<1>5. ASSUME NEW x \in Slot, ReceiveLogout(x) PROVE GateStep(r)
  <2>1. CASE ~req[x].mounted
    BY <1>2, <1>5, <2>1 DEF ReceiveLogout, Back
  <2>2. CASE req[x].mounted
    <3>1. PICK kinds : kinds = InView \cup {"logout"}
      OBVIOUS
    <3>2. PICK u : u = Unmounted(kinds)
      OBVIOUS
    <3>3. u \in [Slot -> Request \cup {Idle}] /\ Left(req[r], kinds, u[r])
      BY <3>1, <3>2, UnmountedIs DEF Kinds
    <3>4. req' = [u EXCEPT ![x] = Idle] /\ req[x].pc = "back" /\ version' = version
      BY <1>5, <2>2, <3>1, <3>2 DEF ReceiveLogout, Back, server
    <3>5. CASE x = r
      BY <3>4, <3>5 DEF GateStep
    <3>6. CASE x # r
      BY <1>3, <3>3, <3>4, <3>6
    <3>. QED
      BY <3>5, <3>6
  <2>. QED
    BY <2>1, <2>2
<1>6. CASE Leave
  <2>1. InView \in SUBSET Kinds /\ version' = version /\ req' = Unmounted(InView)
    BY <1>6 DEF Leave, Kinds, server
  <2>2. Left(req[r], InView, req'[r])
    BY <2>1, UnmountedIs
  <2>. QED
    BY <1>3, <2>1, <2>2
<1>7. ASSUME NEW x \in Slot,
             \/ SubmitLogin(x) \/ SignOut(x) \/ SubmitWrite(x) \/ SubmitMint(x) \/ AskReveal(x)
             \/ \E y \in Subject : Foreign(x, y)
      PROVE  GateStep(r)
  BY <1>2, <1>7 DEF SubmitLogin, SignOut, SubmitWrite, SubmitMint, AskReveal, Foreign, Send
<1>8. ASSUME NEW x \in Slot,
             \/ \E y \in Subject : ChangeFilters(x, y)
             \/ \E tab \in Tab, y \in Subject : Open(x, tab, y)
      PROVE  GateStep(r)
  BY <1>2, <1>8 DEF ChangeFilters, Open
<1>9. ASSUME NEW x \in Slot,
             ReceiveMe(x) \/ ReceiveLogin(x) \/ ReceiveList(x) \/ ReceiveReveal(x)
      PROVE  GateStep(r)
  BY <1>2, <1>9 DEF ReceiveMe, ReceiveLogin, ReceiveList, ReceiveReveal, Back
<1>10. ASSUME NEW x \in Slot, ReceiveWrite(x) \/ ReceiveMint(x) \/ ReceiveRefusal(x)
       PROVE  GateStep(r)
  BY <1>2, <1>10 DEF ReceiveWrite, ReceiveMint, ReceiveRefusal, Back, Reload, Done
<1>11. ASSUME NEW x \in Slot,
              \/ Attach(x) \/ Refuse(x) \/ HandleRead(x) \/ HandleWrite(x) \/ Fail(x)
              \/ \E s \in Session : HandleLogin(x, s)
       PROVE  GateStep(r)
  BY <1>11, ServerSteps
<1>12. CASE \/ DismissModal \/ Hide \/ TimerFires \/ Second \/ Elsewhere \/ UNCHANGED vars
            \/ \E x \in Subject : WriteElsewhere(x)
  BY <1>1, <1>12 DEF DismissModal, Hide, TimerFires, Second, Elsewhere, WriteElsewhere, vars
<1>. QED
  BY <1>4, <1>5, <1>6, <1>7, <1>8, <1>9, <1>10, <1>11, <1>12 DEF Next

(* The gate in front of the handlers stops every request of another page    *)
(* that would write, and stops none of the dashboard's but those whose      *)
(* header was read before another tab changed the cookies.                  *)
THEOREM GateTellsThemApart == Spec => GateExact
<1>1. Inv /\ [Next]_vars =>
        [\A r \in Slot : req[r] # Idle /\ req[r].pc = "out" /\ req'[r] # req[r] =>
           /\ req[r].kind = "foreign" => version' = version
           /\ req'[r] # Idle /\ req'[r].ans = "forbidden" => req[r].header # req[r].cookies.csrf]_vars
  BY GateExactStep DEF GateStep
<1>. QED
  BY <1>1, Invariant, PTL DEF Spec, GateExact
=============================================================================

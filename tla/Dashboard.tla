----------------------------- MODULE Dashboard -----------------------------
(***************************************************************************)
(* One tab of the dashboard against the management API: who is signed in,  *)
(* the view that is open with its loads, writes, reveals and credentials,  *)
(* and the requests in flight, answered late, out of order or not at all.  *)
(* Other tabs share the cookies (module Sessions), other users write the   *)
(* same rows, and a page that is not the dashboard sends requests with the *)
(* same cookies.                                                           *)
(*                                                                         *)
(* Grain of atomicity: a user's click or an answer's arrival, with all the *)
(* code and effects it runs up to the next await; a handler is one step.   *)
(* The render React puts between a change of state and the effect it calls *)
(* for (a reload, and the load that replaces the old one) is no step.      *)
(* What a view lists is a version number, which each write raises, and     *)
(* which is also the number of the keypair a write to a service yields.    *)
(* Left out: roles, which decide what is offered (Members and Hierarchy    *)
(* have the server's decision), the drawers' forms and all rendering.      *)
(***************************************************************************)
EXTENDS Sessions, FiniteSets

CONSTANTS
  Tab,         \* the views of the instance: keys, services, members, activity
  Subject,     \* what a view is about: an environment, an organization, a filter
  Slot,        \* slots for requests in flight
  RevealTTL,   \* REVEAL_TTL_MS, in ticks
  MaxVersion   \* bound: nothing is written any more once a subject was so often

ASSUME DashboardAssumption ==
  /\ RevealTTL \in Nat \ {0} /\ MaxVersion \in Nat
  /\ Session \cap {"unknown", "out"} = {} /\ None \notin Slot \cup {"ok", "forbidden"}

VARIABLES
  version,   \* the server's: how often a subject was written
  me,        \* App's state: "unknown", "out", or the session it is signed in with
  view,      \* the mounted view, or None
  modal,     \* the keypair the credentials dialog shows, or None
  revealed,  \* how long the revealed value has been shown, or None
  timers,    \* what is left of each hide timer that runs
  req        \* requests in flight

vars == <<life, jar, version, me, view, modal, revealed, timers, req>>
server == <<life, version>>
shows == <<modal, revealed, timers>>

-----------------------------------------------------------------------------
(* shown: the rows, of what and at which version.  load: the request the    *)
(* spinner waits for.  told: history, the newest version this view has      *)
(* shown of its subject or was told it wrote.                               *)
Rows == [of : Subject, at : 0 .. MaxVersion]
View == [tab : Tab, on : Subject, shown : Rows \cup {None}, err : BOOLEAN,
         load : Slot \cup {None}, told : 0 .. MaxVersion]

ASSUME NoneAssumption == None \notin View \cup Rows

Idle == [kind |-> "none"]

Mutating == {"write", "mint", "reveal"}    \* outside /v1/auth/
InView == Mutating \cup {"list"}           \* sent by the view
Guarded == Mutating \cup {"foreign"}

(* pc: the header is read, the cookies are attached, the answer is back.    *)
(* mounted: the component that sent it is still there.  got: what an answer *)
(* holds, a version or a session.                                           *)
Request ==
  [kind : InView \cup {"foreign"} \cup {"me", "login", "logout"}, on : Subject \cup {None},
   mounted : BOOLEAN, pc : {"fetch", "out", "back"}, cookies : Cookies,
   header : Session \cup {None}, ans : {None, "ok", "failed", "forbidden"},
   got : Session \cup 0 .. MaxVersion \cup {None}]

(* The spinner turns exactly while one request that will end it is there.   *)
SpinnerEnds ==
  view # None /\ view.load # None =>
    LET q == req[view.load] IN q.kind = "list" /\ q.on = view.on

TypeOK ==
  /\ SessionsTypeOK
  /\ version \in [Subject -> 0 .. MaxVersion]
  /\ me \in Session \cup {"unknown", "out"}
  /\ view \in View \cup {None}
  /\ modal \in 0 .. MaxVersion \cup {None}
  /\ revealed \in 0 .. RevealTTL \cup {None}
  /\ timers \subseteq 0 .. RevealTTL
  /\ req \in [Slot -> Request \cup {Idle}]
  /\ view # None => me \in Session
  /\ SpinnerEnds

Init ==
  /\ SessionsInit
  /\ version = [x \in Subject |-> 0]
  /\ me = "out" /\ view = None
  /\ modal = None /\ revealed = None /\ timers = {}
  /\ req = [r \in Slot |-> Idle]

-----------------------------------------------------------------------------
(* api.ts: a mutating request reads the csrf cookie first, and the browser  *)
(* attaches the cookies a moment later.                                     *)
Fetch(kind, x) ==
  LET reads == kind \in Mutating IN
  [kind |-> kind, on |-> x, mounted |-> TRUE,
   pc |-> IF reads THEN "fetch" ELSE "out",
   cookies |-> IF reads THEN NoCookies ELSE jar,
   header |-> IF reads THEN jar.csrf ELSE None,
   ans |-> None, got |-> None]

Send(r, kind, x) == req[r] = Idle /\ req' = [req EXCEPT ![r] = Fetch(kind, x)]

Attach(r) ==
  /\ req[r] # Idle /\ req[r].pc = "fetch"
  /\ req' = [req EXCEPT ![r].pc = "out", ![r].cookies = jar]
  /\ UNCHANGED <<server, jar, me, view, shows>>

Answered(q, ans, got) ==
  [q EXCEPT !.pc = "back", !.cookies = NoCookies, !.header = None, !.ans = ans, !.got = got]

(* The browser or a message still has the token. *)
Held(s) ==
  \/ s \in {jar.session, me}
  \/ \E r \in Slot : req[r] # Idle /\ (req[r].got = s \/ req[r].header = s \/ req[r].cookies.session = s)

Admitted(q) == GateOpen(q.kind \in Guarded, q.cookies, q.header)

(* The server's side of a request.                                          *)
Refuse(r) ==
  LET q == req[r] IN
  /\ q # Idle /\ q.pc = "out"
  /\ ~Admitted(q) \/ (q.kind # "login" /\ ~Valid(q.cookies.session))
  /\ req' = [req EXCEPT ![r] =
       IF q.kind = "foreign" THEN Idle
       ELSE Answered(q, IF Admitted(q) THEN "failed" ELSE "forbidden", None)]
  /\ UNCHANGED <<server, jar, me, view, shows>>

Authorized(q) == q # Idle /\ q.pc = "out" /\ Admitted(q) /\ Valid(q.cookies.session)

HandleRead(r) ==
  LET q == req[r] IN
  /\ Authorized(q) /\ q.kind \in {"me", "logout", "list", "reveal"}
  /\ req' = [req EXCEPT ![r] =
       Answered(q, "ok", CASE q.kind = "me"   -> q.cookies.session
                           [] q.kind = "list" -> version[q.on]
                           [] OTHER           -> None)]
  /\ UNCHANGED <<server, jar, me, view, shows>>

WritesLeft == \A x \in Subject : version[x] < MaxVersion

HandleWrite(r) ==
  LET q == req[r] IN
  /\ Authorized(q) /\ q.kind \in {"write", "mint", "foreign"} /\ WritesLeft
  /\ version' = [version EXCEPT ![q.on] = @ + 1]
  /\ req' = [req EXCEPT ![r] =
       IF q.kind = "foreign" THEN Idle ELSE Answered(q, "ok", version[q.on] + 1)]
  /\ UNCHANGED <<life, jar, me, view, shows>>

HandleLogin(r, s) ==
  /\ req[r] # Idle /\ req[r].kind = "login" /\ req[r].pc = "out" /\ ~Held(s)
  /\ StartSession(s)
  /\ req' = [req EXCEPT ![r] = Answered(@, "ok", s)]
  /\ UNCHANGED <<jar, version, me, view, shows>>

(* The handler fails, or the request or its answer is lost. *)
Fail(r) ==
  /\ req[r] # Idle /\ req[r].ans \notin {"failed", "forbidden"}
  /\ req' = [req EXCEPT ![r] = IF req[r].kind = "foreign" THEN Idle
                               ELSE Answered(req[r], "failed", None)]
  /\ UNCHANGED <<server, jar, me, view, shows>>

-----------------------------------------------------------------------------
(* App: bootstrap, signing in and out.  What unmounts takes its view along; *)
(* React hears nothing of what it sent, and a read is as good as gone.      *)
Reads == {"me", "list", "reveal"}

Unmounted(kinds) ==
  [r \in Slot |-> CASE req[r].kind \in kinds \cap Reads -> Idle
                     [] req[r].kind \in kinds \ Reads -> [req[r] EXCEPT !.mounted = FALSE]
                     [] OTHER -> req[r]]

CloseView == view' = None /\ modal' = None /\ revealed' = None /\ timers' = {}

PageLoad(r) ==
  /\ req[r] = Idle
  /\ req' = [Unmounted(InView \cup {"me", "login", "logout"}) EXCEPT ![r] = Fetch("me", None)]
  /\ me' = "unknown"
  /\ CloseView
  /\ UNCHANGED <<server, jar>>

Back(r, kind) == req[r] # Idle /\ req[r].pc = "back" /\ req[r].kind = kind

ReceiveMe(r) ==
  /\ Back(r, "me")
  /\ me' = IF req[r].ans = "ok" THEN req[r].got ELSE "out"
  /\ req' = [req EXCEPT ![r] = Idle]
  /\ UNCHANGED <<server, jar, view, shows>>

(* Login: the button is off while its request is there. *)
SubmitLogin(r) ==
  /\ me = "out" /\ \A x \in Slot : ~(req[x].kind = "login" /\ req[x].mounted)
  /\ Send(r, "login", None)
  /\ UNCHANGED <<server, jar, me, view, shows>>

ReceiveLogin(r) ==
  /\ Back(r, "login")
  /\ jar' = IF req[r].ans = "ok" THEN CookiesOf(req[r].got) ELSE jar
  /\ me' = IF req[r].ans = "ok" /\ req[r].mounted THEN req[r].got ELSE me
  /\ req' = [req EXCEPT ![r] = Idle]
  /\ UNCHANGED <<server, view, shows>>

SignOut(r) ==
  /\ me \in Session
  /\ Send(r, "logout", None)
  /\ UNCHANGED <<server, jar, me, view, shows>>

(* Whatever the answer is. *)
ReceiveLogout(r) ==
  /\ Back(r, "logout")
  /\ jar' = IF req[r].ans = "ok" THEN NoCookies ELSE jar
  /\ IF req[r].mounted
       THEN /\ me' = "out"
            /\ req' = [Unmounted(InView \cup {"logout"}) EXCEPT ![r] = Idle]
            /\ CloseView
       ELSE req' = [req EXCEPT ![r] = Idle] /\ UNCHANGED <<me, view, shows>>
  /\ UNCHANGED server

-----------------------------------------------------------------------------
(* The views of the environment tabs are mounted anew for each environment. *)
Open(r, tab, x) ==
  /\ me \in Session /\ req[r] = Idle /\ view = None
  /\ req' = [req EXCEPT ![r] = Fetch("list", x)]
  /\ view' = [tab |-> tab, on |-> x, shown |-> None, err |-> FALSE, load |-> r, told |-> 0]
  /\ UNCHANGED <<server, jar, me, shows>>

(* ActivityView stays and loads anew when its filters change. *)
ChangeFilters(r, x) ==
  /\ view # None /\ view.tab = "activity" /\ x # view.on /\ req[r] = Idle
  /\ req' = [req EXCEPT ![r] = Fetch("list", x)]
  /\ view' = [view EXCEPT !.on = x, !.err = FALSE, !.load = r, !.told = 0]
  /\ UNCHANGED <<server, jar, me, shows>>

Leave ==
  /\ view # None
  /\ req' = Unmounted(InView)
  /\ CloseView
  /\ UNCHANGED <<server, jar, me>>

(* useAsync: only the request of the effect that still stands is heard.     *)
AliveAnyway(r) == view # None   \* mutant: the effect's cleanup does not set alive

Alive(r) == view.load = r

Newer(v) == IF v > view.told THEN v ELSE view.told

LoadedOrStuck(q) ==   \* mutant: a failure does not end the loading
  IF q.ans = "ok"
    THEN [view EXCEPT !.shown = [of |-> q.on, at |-> q.got], !.load = None, !.told = Newer(q.got)]
    ELSE [view EXCEPT !.err = TRUE]

(* The rows of an earlier load stay when this one fails. *)
Loaded(q) ==
  IF q.ans = "ok"
    THEN [view EXCEPT !.shown = [of |-> q.on, at |-> q.got], !.load = None, !.told = Newer(q.got)]
    ELSE [view EXCEPT !.err = TRUE, !.load = None]

ReceiveList(r) ==
  /\ Back(r, "list")
  /\ view' = IF Alive(r) THEN Loaded(req[r]) ELSE view
  /\ req' = [req EXCEPT ![r] = Idle]
  /\ UNCHANGED <<server, jar, me, shows>>

(* Create, set, roll back, grant, revoke, add, change, delete.              *)
SubmitWrite(r) ==
  /\ view # None /\ view.tab # "activity"
  /\ Send(r, "write", view.on)
  /\ UNCHANGED <<server, jar, me, view, shows>>

(* A new service, or a new keypair of one. *)
SubmitMint(r) ==
  /\ view # None /\ view.tab = "services"
  /\ Send(r, "mint", view.on)
  /\ UNCHANGED <<server, jar, me, view, shows>>

(* reload: the next effect's request takes the place of the one before.     *)
Reload(r, told) ==
  /\ view' = [view EXCEPT !.load = r, !.err = FALSE, !.told = told]
  /\ req' = [req EXCEPT ![r] = Fetch("list", view.on)]

Done(r) == req' = [req EXCEPT ![r] = Idle] /\ UNCHANGED view

ReceiveWrite(r) ==
  /\ Back(r, "write") /\ req[r].ans = "ok" /\ req[r].mounted
  /\ Reload(r, Newer(req[r].got))
  /\ UNCHANGED <<server, jar, me, shows>>

(* The private key comes this once.  A rotation does not reload the list.   *)
ReceiveMint(r) ==
  /\ Back(r, "mint") /\ req[r].ans = "ok" /\ req[r].mounted
  /\ modal' = req[r].got
  /\ Reload(r, Newer(req[r].got)) \/ Done(r)
  /\ UNCHANGED <<server, jar, me, revealed, timers>>

(* A failure is told and changes nothing, but that the members view loads   *)
(* the roles again.  A component that is gone does not hear the answer.     *)
ReceiveRefusal(r) ==
  /\ Back(r, "write") \/ Back(r, "mint")
  /\ req[r].mounted => req[r].ans # "ok"
  /\ \/ Done(r)
     \/ req[r].mounted /\ view.tab = "members" /\ Reload(r, view.told)
  /\ UNCHANGED <<server, jar, me, shows>>

DismissModal ==
  /\ modal # None
  /\ modal' = None
  /\ UNCHANGED <<server, jar, me, view, revealed, timers, req>>

-----------------------------------------------------------------------------
(* Revealing a value, and hiding it again.  hideTimer: the newest timer.    *)
AskReveal(r) ==
  /\ view # None /\ view.tab = "keys" /\ view.shown # None /\ view.load = None
  /\ Send(r, "reveal", view.on)
  /\ UNCHANGED <<server, jar, me, view, shows>>

HideTimer == {t \in timers : \A u \in timers : u <= t}

ReceiveRevealTimersLeft(r) ==   \* mutant: the timer of an earlier reveal is not cleared
  /\ Back(r, "reveal")
  /\ IF req[r].ans = "ok"
       THEN revealed' = 0 /\ timers' = timers \cup {RevealTTL}
       ELSE UNCHANGED <<revealed, timers>>
  /\ req' = [req EXCEPT ![r] = Idle]
  /\ UNCHANGED <<server, jar, me, view, modal>>

ReceiveReveal(r) ==
  /\ Back(r, "reveal")
  /\ IF req[r].ans = "ok"
       THEN revealed' = 0 /\ timers' = (timers \ HideTimer) \cup {RevealTTL}
       ELSE UNCHANGED <<revealed, timers>>
  /\ req' = [req EXCEPT ![r] = Idle]
  /\ UNCHANGED <<server, jar, me, view, modal>>

Hide ==
  /\ revealed # None
  /\ revealed' = None /\ timers' = timers \ HideTimer
  /\ UNCHANGED <<server, jar, me, view, modal, req>>

TimerFires ==
  /\ 0 \in timers
  /\ revealed' = None /\ timers' = timers \ {0}
  /\ UNCHANGED <<server, jar, me, view, modal, req>>

(* A timer may be late. *)
Second ==
  /\ timers # {}
  /\ timers' = {IF t = 0 THEN 0 ELSE t - 1 : t \in timers}
  /\ revealed' = IF revealed \in 0 .. RevealTTL - 1 THEN revealed + 1 ELSE revealed
  /\ UNCHANGED <<server, jar, me, view, modal, req>>

-----------------------------------------------------------------------------
(* The rest of the world. *)
Foreign(r, x) ==
  /\ \A other \in Slot : req[other].kind # "foreign"
  /\ Send(r, "foreign", x)
  /\ UNCHANGED <<server, jar, me, view, shows>>

WriteElsewhere(x) ==
  /\ WritesLeft
  /\ version' = [version EXCEPT ![x] = @ + 1]
  /\ UNCHANGED <<life, jar, me, view, shows, req>>

Elsewhere ==
  /\ \/ Age \/ LogoutElsewhere
     \/ \E s \in Session : ~Held(s) /\ LoginElsewhere(s)
  /\ UNCHANGED <<version, me, view, shows, req>>

Next ==
  \/ \E r \in Slot :
       \/ Attach(r) \/ Refuse(r) \/ HandleRead(r) \/ HandleWrite(r) \/ Fail(r)
       \/ \E s \in Session : HandleLogin(r, s)
       \/ PageLoad(r) \/ ReceiveMe(r) \/ SubmitLogin(r) \/ ReceiveLogin(r)
       \/ SignOut(r) \/ ReceiveLogout(r)
       \/ \E x \in Subject : ChangeFilters(r, x) \/ Foreign(r, x)
       \/ \E tab \in Tab, x \in Subject : Open(r, tab, x)
       \/ ReceiveList(r) \/ SubmitWrite(r) \/ SubmitMint(r) \/ ReceiveWrite(r)
       \/ ReceiveMint(r) \/ ReceiveRefusal(r)
       \/ AskReveal(r) \/ ReceiveReveal(r)
  \/ Leave \/ DismissModal \/ Hide \/ TimerFires \/ Second \/ Elsewhere
  \/ \E x \in Subject : WriteElsewhere(x)

Spec == Init /\ [][Next]_vars

-----------------------------------------------------------------------------
(* What the table shows, once loaded, is of the view's subject and never    *)
(* older than what the view has shown of it before or was told it wrote, in *)
(* whatever order the answers come back (ui.tsx:17, `alive`).               *)
ShowsTheLatest ==
  view # None /\ view.load = None /\ ~view.err =>
    view.shown # None /\ view.shown.of = view.on /\ view.shown.at >= view.told

(* A value that is shown will be hidden by one timer, due when it was shown *)
(* for RevealTTL: an earlier reveal's timer does not cut it short, and none *)
(* is left without a timer (Keys.tsx:26).                                   *)
RevealLasts == revealed # None => timers = {RevealTTL - revealed}

(* The gate tells the dashboard's requests from others: those of others     *)
(* change nothing, and the dashboard's own are refused only when another    *)
(* tab changed the cookies between the header and the cookies attached      *)
(* (server.ts:67).                                                          *)
GateExact ==
  [][\A r \in Slot : req[r] # Idle /\ req[r].pc = "out" /\ req'[r] # req[r] =>
       /\ req[r].kind = "foreign" => version' = version
       /\ req'[r] # Idle /\ req'[r].ans = "forbidden" => req[r].header # req[r].cookies.csrf]_vars

-----------------------------------------------------------------------------
(* Signing out needs a new sign-in (App.tsx:47, "You'll need to sign in     *)
(* again").  False: the answer of a logout that fails is not looked at.     *)
SignOutEnds ==
  [][me' = "out" /\ me \in Session => jar'.session = None \/ life'[jar'.session] = None]_vars

(* A session's expiry moves with its use (04-auth.md:17, "sliding").  False: *)
(* it is set when the row is inserted.                                      *)
SlidesWithUse ==
  [][\A r \in Slot : req[r] # Idle /\ req[r].pc = "out" /\ req'[r] # Idle /\ req'[r].ans = "ok" =>
       req[r].kind = "login" \/ life'[req[r].cookies.session] = SessionTTL]_vars

(* The operator is shown a private key once (04-auth.md:65, "a copy-once    *)
(* modal").  False: the view may be gone when the answer comes.             *)
CredentialsShown ==
  [][\A r \in Slot : Back(r, "mint") /\ req[r].ans = "ok" /\ req'[r].kind # "mint" =>
       modal' = req[r].got]_vars

(* A newer key's dialog is not replaced by an older key's.  False: two      *)
(* rotations may be answered out of order, and the older key is of no use.  *)
NewestCredentialsStay == [][modal # None /\ modal' # None => modal' >= modal]_vars

(* What the view writes is written as the user it shows.  False: another    *)
(* tab may have signed in as someone else, and App asks once (App.tsx:23).  *)
ActsAsShown ==
  [][\A r \in Slot : req[r] # Idle /\ req[r].kind \in InView /\ req[r].pc = "fetch" /\ req[r].mounted
                    /\ req'[r].kind # "none" /\ req'[r].pc = "out" =>
       req'[r].cookies.session \in {me, None}]_vars
============================================================================

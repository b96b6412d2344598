------------------------------ MODULE Sessions ------------------------------
(***************************************************************************)
(* Sign-in sessions of the management plane: the table sessions, the two   *)
(* cookies that carry a session to the browser, and the checks a request   *)
(* with cookies passes before its handler runs, the CSRF gate and the      *)
(* session lookup.                                                         *)
(*                                                                         *)
(* A session token is drawn at random and only its hash is stored: a token *)
(* is its session.  The csrf cookie is drawn together with it and named by *)
(* the same session.  A token that nobody holds any more stands for one    *)
(* that was never drawn.  Time is what is left of each session's life; an  *)
(* expired row that is still there and one the sweeper has deleted are the *)
(* same to everyone (validateSession).                                     *)
(***************************************************************************)
EXTENDS Integers

CONSTANTS
  Session,     \* session tokens
  SessionTTL,  \* cfg.ttl.session, in ticks
  None         \* no value

ASSUME SessionsAssumption ==
  /\ SessionTTL \in Nat \ {0}
  /\ None \notin Session \cup Int

VARIABLES
  life,  \* table sessions: what is left of each one, None when it is over
  jar    \* the browser's cookies, shared by its tabs

Cookies == [session : Session \cup {None}, csrf : Session \cup {None}]
NoCookies == [session |-> None, csrf |-> None]

SessionsTypeOK ==
  /\ life \in [Session -> 1 .. SessionTTL \cup {None}]
  /\ jar \in Cookies

SessionsInit ==
  /\ life = [s \in Session |-> None]
  /\ jar = NoCookies

-----------------------------------------------------------------------------
(* What register and login end with: the row, and later the cookies.        *)
StartSession(s) == life[s] = None /\ life' = [life EXCEPT ![s] = SessionTTL]

CookiesOf(s) == [session |-> s, csrf |-> s]

Valid(s) == s # None /\ life[s] # None

(* withExtras: a mutating request outside /v1/auth/ that comes with a       *)
(* session cookie must repeat the csrf cookie in its header.                *)
GateOpenToCookies(guarded, cookies, header) ==   \* mutant: the header is not looked at
  guarded /\ cookies.session # None => cookies.csrf # None

GateOpen(guarded, cookies, header) ==
  guarded /\ cookies.session # None =>
    header # None /\ cookies.csrf # None /\ header = cookies.csrf

-----------------------------------------------------------------------------
Age ==
  /\ \E s \in Session : Valid(s)
  /\ life' = [s \in Session |-> IF Valid(s) /\ life[s] > 1 THEN life[s] - 1 ELSE None]
  /\ UNCHANGED jar

(* Another tab of the browser signs in or out.  The logout handler is       *)
(* behind the session check and clears the cookies only.                    *)
LoginElsewhere(s) == StartSession(s) /\ jar' = CookiesOf(s)

LogoutElsewhere == Valid(jar.session) /\ jar' = NoCookies /\ UNCHANGED life
=============================================================================

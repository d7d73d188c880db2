----------------------------- MODULE AdminAccess -----------------------------
(***************************************************************************)
(* What stands before every admin form: the login with its throttle        *)
(* (internal/web/auth.go), the admin_sessions rows (internal/db/queries.go)*)
(* and the two middlewares that admit a request (SessionAuth in            *)
(* middleware.go, LoadAdminUserMiddleware in permissions.go).  Composed    *)
(* with AdminUsers: a form is submitted by a request that got in.          *)
(*                                                                         *)
(* A request looks at its session with the time at which it began, then    *)
(* prolongs the row, then loads the user: three statements, between which  *)
(* others log in and out, edit users and change the idle time.             *)
(***************************************************************************)
EXTENDS AdminUsers, Throttle

CONSTANTS
  Forms,      \* what the forms may ask to store
  Tokens,     \* sessions that ever exist
  Idles,      \* values of admin_session_idle_minutes
  MaxClock    \* bound on time

ASSUME AdminAccessAssumption ==
  /\ IsFiniteSet(Editors)
  /\ Forms \subseteq Account
  /\ Idles \subseteq Nat /\ Idles # {}
  /\ MaxClock \in Nat

VARIABLES
  sessions,   \* admin_sessions
  idle,       \* the setting
  gate,       \* each request on its way in; "out" when it is not
  holds,      \* what it has read: its token or user, the time, the idle time
  attempts,   \* loginAttempts, per user name: one address
  clock,
  found       \* history: requests whose session has lived since they began

door == <<sessions, idle, gate, holds, attempts, clock, found>>
allVars == <<vars, door>>

Session == [user : Users, revoked : BOOLEAN, expires : Nat, last : Nat]

NoSession == [user |-> "none"]

Nothing == [now |-> 0]

Held == {Nothing} \cup [token : Tokens, now : Nat, idle : Idles] \cup [user : Users, now : Nat]

DoorOK ==
  /\ sessions \in [Tokens -> Session \cup {NoSession}]
  /\ idle \in Idles
  /\ gate \in [Editors -> {"out", "check", "touch", "load", "password", "open"}]
  /\ holds \in [Editors -> Held]
  /\ attempts \in [Users -> Attempts]
  /\ clock \in Nat
  /\ found \subseteq Editors

AccessInit ==
  /\ Init
  /\ sessions = [t \in Tokens |-> NoSession]
  /\ idle \in Idles
  /\ gate = [e \in Editors |-> "out"]
  /\ holds = [e \in Editors |-> Nothing]
  /\ attempts = [u \in Users |-> NoAttempts]
  /\ clock = 0
  /\ found = {}
-----------------------------------------------------------------------------
Exists(t) == sessions[t] # NoSession

\* A deviation: only the time since the last request counts.
IdleOnly(t, now, i) == now - sessions[t].last <= i

\* What SessionAuth asks of the row, besides that it is not revoked.
InTime(t, now, i) ==
  /\ sessions[t].expires >= now
  /\ now - sessions[t].last <= i

Dead(t) == Exists(t) /\ (sessions[t].revoked \/ sessions[t].expires < clock)

Pass(e, s) == gate' = [gate EXCEPT ![e] = s]

\* Redirected to the login, or answered.
Leave(e) ==
  /\ gate' = [gate EXCEPT ![e] = "out"]
  /\ holds' = [holds EXCEPT ![e] = Nothing]
  /\ found' = found \ {e}

Free(e) == up /\ gate[e] = "out" /\ pc[e] = "idle"

\* A request with a session cookie.
Arrive(e, t) ==
  /\ Free(e) /\ Exists(t)
  /\ Pass(e, "check")
  /\ holds' = [holds EXCEPT ![e] = [token |-> t, now |-> clock, idle |-> idle]]
  /\ found' = IF Dead(t) THEN found ELSE found \cup {e}
  /\ UNCHANGED <<vars, sessions, idle, attempts, clock>>

Check(e) ==
  /\ gate[e] = "check"
  /\ LET h == holds[e] IN
       IF ~sessions[h.token].revoked /\ InTime(h.token, h.now, h.idle)
       THEN Pass(e, "touch") /\ UNCHANGED <<holds, found>>
       ELSE Leave(e)
  /\ UNCHANGED <<vars, sessions, idle, attempts, clock>>

\* UpdateSessionLastActive, which a session revoked meanwhile does not match.
Touch(e) ==
  /\ gate[e] = "touch"
  /\ LET h == holds[e] IN
       IF sessions[h.token].revoked
       THEN Leave(e) /\ UNCHANGED sessions
       ELSE /\ Pass(e, "load")
            /\ sessions' = [sessions EXCEPT ![h.token].last = clock,
                                            ![h.token].expires = clock + h.idle]
            /\ found' = found \cup {o \in Editors : gate[o] = "check" /\ holds[o].token = h.token}
            /\ UNCHANGED holds
  /\ UNCHANGED <<vars, idle, attempts, clock>>

Loaded(e) == users[sessions[holds[e].token].user]

\* The user is gone or not active, or may not open the page; or the page is
\* none that changes users or settings.
TurnAway(e) ==
  /\ gate[e] = "load"
  /\ Leave(e)
  /\ UNCHANGED <<vars, sessions, idle, attempts, clock>>

IsSuper(e) == gate[e] = "load" /\ Loaded(e).active /\ Loaded(e).super

\* RequireSuperAdmin lets the request in to the forms of AdminUsers.
OpenForm(e) ==
  /\ IsSuper(e)
  /\ \E u \in Users, f \in Forms : SubmitEdit(e, u, f) \/ SubmitNew(e, u, f)
  /\ Leave(e)
  /\ UNCHANGED <<sessions, idle, attempts, clock>>

\* ... and to the settings.
SetIdle(e, i) ==
  /\ IsSuper(e)
  /\ idle' = i
  /\ Leave(e)
  /\ UNCHANGED <<vars, sessions, attempts, clock>>

\* LoginPost.  A blocked key is answered at once.
Login(e, u) ==
  /\ Free(e)
  /\ IF Blocked(attempts[u], clock)
     THEN UNCHANGED <<gate, holds, attempts>>
     ELSE /\ Pass(e, "password")
          /\ holds' = [holds EXCEPT ![e] = [user |-> u, now |-> clock]]
          /\ attempts' = [attempts EXCEPT ![u] = Looked(@, clock)]
  /\ UNCHANGED <<vars, sessions, idle, clock, found>>

\* Unknown, inactive or with a wrong password.
LoginRefused(e) ==
  /\ gate[e] = "password"
  /\ attempts' = [attempts EXCEPT ![holds[e].user] = Failed(@, holds[e].now)]
  /\ Leave(e)
  /\ UNCHANGED <<vars, sessions, idle, clock>>

LoginAccepted(e) ==
  /\ gate[e] = "password" /\ users[holds[e].user].active
  /\ attempts' = [attempts EXCEPT ![holds[e].user] = NoAttempts]
  /\ Pass(e, "open")
  /\ UNCHANGED <<vars, sessions, idle, holds, clock, found>>

\* CreateAdminSession.
OpenSession(e, t) ==
  /\ gate[e] = "open" /\ ~Exists(t)
  /\ sessions' = [sessions EXCEPT ![t] =
       [user |-> holds[e].user, revoked |-> FALSE, expires |-> clock + idle, last |-> clock]]
  /\ Leave(e)
  /\ UNCHANGED <<vars, idle, attempts, clock>>

\* No middleware: whoever has the cookie may revoke its session.
Logout(t) ==
  /\ up /\ Exists(t)
  /\ sessions' = [sessions EXCEPT ![t].revoked = TRUE]
  /\ UNCHANGED <<vars, idle, gate, holds, attempts, clock, found>>

GateFails(e) ==
  /\ gate[e] # "out"
  /\ Leave(e)
  /\ UNCHANGED <<vars, sessions, idle, attempts, clock>>

Form(e) == FormStep(e) /\ UNCHANGED door

Serve == Start /\ UNCHANGED door

\* The rows survive, the requests and the throttle do not.
Shutdown ==
  /\ Stop
  /\ gate' = [e \in Editors |-> "out"]
  /\ holds' = [e \in Editors |-> Nothing]
  /\ attempts' = [u \in Users |-> NoAttempts]
  /\ found' = {}
  /\ UNCHANGED <<sessions, idle, clock>>

\* A tick is long: no login looks at the throttle before one and ends after
\* the next.
Tick ==
  /\ clock < MaxClock
  /\ \A e \in Editors : gate[e] = "password" => holds[e].now = clock
  /\ clock' = clock + 1
  /\ UNCHANGED <<vars, sessions, idle, gate, holds, attempts, found>>

Request(e) ==
  \/ \E t \in Tokens : Arrive(e, t) \/ OpenSession(e, t)
  \/ Check(e) \/ Touch(e) \/ TurnAway(e) \/ OpenForm(e) \/ GateFails(e)
  \/ \E i \in Idles : SetIdle(e, i)
  \/ \E u \in Users : Login(e, u)
  \/ LoginRefused(e) \/ LoginAccepted(e)
  \/ Form(e)

AccessNext ==
  \/ \E e \in Editors : Request(e)
  \/ \E t \in Tokens : Logout(t)
  \/ Serve \/ Shutdown \/ Tick

AccessSpec == AccessInit /\ [][AccessNext]_allVars
-----------------------------------------------------------------------------
\* Type correctness; a super admin remains, with logins and forms side by side;
\* requests are before the gate or behind it; and however many logins run at
\* once, the failures counted for one key in one window exceed
\* loginMaxAttempts at most by the logins that were under way when it was
\* reached (auth.go:96, 114).
AccessInv ==
  /\ TypeOK /\ DoorOK /\ SuperAdminRemains
  /\ \A e \in Editors : gate[e] # "out" => pc[e] = "idle" /\ up
  /\ \A u \in Users : attempts[u].count < MaxAttempts + Cardinality(Editors)

\* A session that was logged out or has expired stays dead: no later request,
\* no change of the idle time and no restart brings it back.  Only a request
\* during which it lived may still prolong an expired one, and none a
\* revoked one (middleware.go:84, queries.go:101).
DeadStaysDead ==
  [][\A t \in Tokens : Dead(t) =>
       \/ Dead(t)'
       \/ /\ ~sessions[t].revoked
          /\ \E e \in found : gate[e] = "touch" /\ holds[e].token = t]_allVars
=============================================================================

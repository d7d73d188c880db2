----------------------------- MODULE AdminProofs -----------------------------
(***************************************************************************)
(* What stands before the administrators' pages and what the pages keep in *)
(* order, for any number of users, requests, rows and ticks.               *)
(***************************************************************************)
EXTENDS AdminAccess, Senders, ApiAccess, FiniteSetTheorems, SequenceTheorems, TLAPS

-----------------------------------------------------------------------------
(* AdminUsers: the last super admin.                                       *)

LEMMA AbsentIsNoAccount == Absent \notin Account
<1>1. ASSUME NEW f \in Account PROVE f # Absent
  <2>1. "absent" \in DOMAIN Absent /\ "absent" \notin DOMAIN f
    BY DEF Absent, Account
  <2>2. QED
    BY <2>1
<1>2. QED
  BY <1>1

\* A form that may take power, was let through and is not overtaken leaves
\* somebody else in it.
OthersRemain == \A e \in Editors \ overtaken :
  Checked(e) => \E u \in Users \ {target[e]} : u \in SuperAdmins

\* While no two forms raced, there is a super admin as soon as there is a user.
FormsInv ==
  /\ ~up => \A e \in Editors : pc[e] = "idle"
  /\ ~raced => (Present # {} => SuperAdmins # {}) /\ OthersRemain

LEMMA PowerfulIsAccount == Powerful \in Account /\ Powerful # Absent
<1>1. Powerful \in Account
  BY DEF Powerful, Account
<1>2. QED
  BY <1>1, AbsentIsNoAccount

LEMMA FormsInit == Init => TypeOK /\ FormsInv
<1> SUFFICES ASSUME Init PROVE TypeOK /\ FormsInv
  OBVIOUS
<1>1. Present = {}
  BY DEF Init, Present
<1>2. TypeOK
  BY <1>1, AdminUsersAssumption, PowerfulIsAccount DEF Init, TypeOK
<1>3. QED
  BY <1>1, <1>2 DEF Init, FormsInv, OthersRemain, Checked

LEMMA FinishedOf ==
  ASSUME TypeOK, NEW e \in Editors, Finished(e)
  PROVE  /\ pc' \in [Editors -> {"idle", "look", "count", "write", "create"}]
         /\ target' \in [Editors -> Users] /\ form' \in [Editors -> Account]
         /\ pc'[e] = "idle"
         /\ \A o \in Editors \ {e} : pc'[o] = pc[o] /\ target'[o] = target[o] /\ form'[o] = form[o]
<1>1. /\ pc' = [pc EXCEPT ![e] = "idle"]
      /\ target' = [target EXCEPT ![e] = Root]
      /\ form' = [form EXCEPT ![e] = Powerful]
  BY DEF Finished, Goto
<1>2. pc' \in [Editors -> {"idle", "look", "count", "write", "create"}] /\ pc'[e] = "idle"
  BY <1>1 DEF TypeOK
<1>3. target' \in [Editors -> Users]
  BY <1>1, AdminUsersAssumption DEF TypeOK
<1>4. form' \in [Editors -> Account]
  BY <1>1, PowerfulIsAccount DEF TypeOK
<1>5. \A o \in Editors \ {e} : pc'[o] = pc[o] /\ target'[o] = target[o] /\ form'[o] = form[o]
  BY <1>1 DEF TypeOK
<1>6. QED
  BY <1>2, <1>3, <1>4, <1>5

LEMMA UsersTypeStep == TypeOK /\ [Next]_vars => TypeOK'
<1> SUFFICES ASSUME TypeOK, [Next]_vars PROVE TypeOK'
  OBVIOUS
<1> USE AdminUsersAssumption, AbsentIsNoAccount, PowerfulIsAccount DEF TypeOK, Goto, Finished, Answer, Present
<1>1. CASE Start
  BY <1>1 DEF Start, Bootstrapped
<1>2. CASE Stop
  BY <1>2 DEF Stop
<1>3. ASSUME NEW e \in Editors, NEW u \in Users, NEW f \in Account, SubmitEdit(e, u, f) \/ SubmitNew(e, u, f)
      PROVE  TypeOK'
  BY <1>3 DEF SubmitEdit, SubmitNew, Admit
<1>4. ASSUME NEW e \in Editors, Look(e) \/ Count(e) PROVE TypeOK'
  BY <1>4 DEF Look, Count
<1>5. ASSUME NEW e \in Editors, Answer(e) PROVE TypeOK'
  <2>1. overtaken' \subseteq Editors /\ UNCHANGED <<up, users, raced>>
    BY <1>5
  <2>2. QED
    BY <1>5, <2>1, FinishedOf
<1>6. ASSUME NEW e \in Editors, Store(e) PROVE TypeOK'
  <2>1. target[e] \in Users /\ form[e] \in Account /\ form[e] # Absent
    OBVIOUS
  <2>2. users' \in [Users -> Account \cup {Absent}] /\ users'[target[e]] = form[e]
    BY <1>6, <2>1 DEF Store
  <2>3. overtaken' \subseteq Editors /\ raced' \in BOOLEAN
    BY <1>6 DEF Store
  <2>4. Present' # {}
    BY <2>1, <2>2
  <2>5. pc' \in [Editors -> {"idle", "look", "count", "write", "create"}] /\ target' \in [Editors -> Users]
        /\ form' \in [Editors -> Account] /\ up' = up
    BY <1>6, FinishedOf DEF Store
  <2>6. QED
    BY <2>2, <2>3, <2>4, <2>5
<1>7. CASE UNCHANGED vars
  BY <1>7 DEF vars
<1>8. QED
  BY <1>1, <1>2, <1>3, <1>4, <1>5, <1>6, <1>7 DEF Next, FormStep, Refuse, StatementFails, Write, Create

\* Two or more super admins are left at least one when one user is taken out.
LEMMA OneOfTwoRemains ==
  ASSUME ~TooFew, NEW u
  PROVE  \E v \in SuperAdmins : v # u
<1> SUFFICES ASSUME \A v \in SuperAdmins : v = u PROVE TooFew
  OBVIOUS
<1>1. SuperAdmins = {} \/ SuperAdmins = {u}
  OBVIOUS
<1>2. Cardinality({}) = 0 /\ Cardinality({u}) = 1
  BY FS_EmptySet, FS_Singleton
<1>3. QED
  BY <1>1, <1>2 DEF TooFew

LEMMA FormsStep ==
  ASSUME TypeOK, FormsInv, [Next]_vars
  PROVE  FormsInv'
<1> USE DEF TypeOK, FormsInv, Goto
<1>0. SuperAdmins \subseteq Users /\ SuperAdmins \subseteq Present /\ Present \subseteq Users
  BY DEF SuperAdmins, Present
<1>1. CASE Start
  <2>1. UNCHANGED <<pc, target, form, overtaken, raced>> /\ ~up /\ up'
    BY <1>1 DEF Start
  <2>2. \A e \in Editors : ~Checked(e)'
    BY <2>1 DEF Checked
  <2>3. CASE Present = {}
    <3>1. users' = [users EXCEPT ![Root] = Powerful]
      BY <1>1, <2>3 DEF Start, Bootstrapped
    <3>2. Root \in SuperAdmins'
      BY <3>1, AdminUsersAssumption, PowerfulIsAccount DEF SuperAdmins, Present, Powerful
    <3>3. QED
      BY <2>1, <2>2, <3>2 DEF OthersRemain
  <2>4. CASE Present # {}
    <3>1. users' = users
      BY <1>1, <2>4 DEF Start
    <3>2. QED
      BY <2>1, <2>2, <3>1 DEF OthersRemain, SuperAdmins, Present
  <2>5. QED
    BY <2>3, <2>4
<1>2. CASE Stop
  BY <1>2 DEF Stop, OthersRemain, Checked, SuperAdmins, Present
<1>3. ASSUME NEW e \in Editors, NEW u \in Users, NEW f \in Account, SubmitEdit(e, u, f) \/ SubmitNew(e, u, f)
      PROVE  FormsInv'
  <2>1. /\ UNCHANGED <<up, users, overtaken, raced>> /\ up
        /\ \A o \in Editors \ {e} : pc'[o] = pc[o] /\ target'[o] = target[o] /\ form'[o] = form[o]
        /\ pc'[e] = "write" => Harmless(form'[e])
    BY <1>3 DEF SubmitEdit, SubmitNew, Admit
  <2>2. Present' = Present /\ SuperAdmins' = SuperAdmins
    BY <2>1 DEF SuperAdmins, Present
  <2>3. OthersRemain => OthersRemain'
    BY <2>1, <2>2 DEF OthersRemain, Checked
  <2>4. QED
    BY <2>1, <2>2, <2>3
<1>4. ASSUME NEW e \in Editors, Look(e) \/ Count(e) PROVE FormsInv'
  <2>1. UNCHANGED <<up, users, target, form, overtaken, raced>> /\ up
    BY <1>4 DEF Look, Count
  <2>2. Present' = Present /\ SuperAdmins' = SuperAdmins
    BY <2>1 DEF SuperAdmins, Present
  <2>3. \A o \in Editors \ {e} : pc'[o] = pc[o]
    BY <1>4 DEF Look, Count
  <2>4. ASSUME pc'[e] = "write", Present # {} => SuperAdmins # {}
        PROVE  \E u \in Users \ {target[e]} : u \in SuperAdmins
    <3>1. CASE Look(e)
      <4>1. target[e] \notin SuperAdmins
        BY <2>4, <3>1 DEF Look, SuperAdmins, Present
      <4>2. QED
        BY <1>0, <2>1, <2>4, <4>1
    <3>2. CASE Count(e)
      BY <1>0, <3>2, OneOfTwoRemains DEF Count
    <3>3. QED
      BY <1>4, <3>1, <3>2
  <2>5. QED
    BY <2>1, <2>2, <2>3, <2>4 DEF OthersRemain, Checked
<1>5. ASSUME NEW e \in Editors, Answer(e) PROVE FormsInv'
  <2>1. /\ UNCHANGED <<up, users, raced>>
        /\ overtaken' = overtaken \ {e} /\ pc'[e] = "idle"
        /\ \A o \in Editors \ {e} : pc'[o] = pc[o] /\ target'[o] = target[o] /\ form'[o] = form[o]
    BY <1>5, FinishedOf DEF Answer
  <2>2. Present' = Present /\ SuperAdmins' = SuperAdmins
    BY <2>1 DEF SuperAdmins, Present
  <2>3. OthersRemain => OthersRemain'
    BY <2>1, <2>2 DEF OthersRemain, Checked
  <2>4. QED
    BY <2>1, <2>2, <2>3
<1>6. ASSUME NEW e \in Editors, Store(e), pc[e] = "write" \/ (pc[e] = "create" /\ target[e] \notin Present)
      PROVE  FormsInv'
  <2>1. /\ users' = [users EXCEPT ![target[e]] = form[e]] /\ UNCHANGED up /\ up
        /\ pc'[e] = "idle"
        /\ \A o \in Editors \ {e} : pc'[o] = pc[o] /\ target'[o] = target[o] /\ form'[o] = form[o]
    BY <1>6, FinishedOf DEF Store
  <2>2. \A o \in Editors \ {e} : Checked(o)' = Checked(o)
    BY <2>1 DEF Checked
  <2>3. ~Checked(e)'
    BY <2>1 DEF Checked
  <2>4. form[e] # Absent /\ \A u \in Users \ {target[e]} : users'[u] = users[u]
    BY <2>1, AbsentIsNoAccount
  <2>5. CASE ~TakesPower(e)
    <3>1. SuperAdmins \subseteq SuperAdmins'
      BY <2>1, <2>4, <2>5 DEF TakesPower, Harmless, SuperAdmins, Present
    <3>2. overtaken' = overtaken \ {e} /\ raced' = raced
      BY <1>6, <2>5 DEF Store
    <3>3. ~raced => OthersRemain'
      BY <2>1, <2>2, <2>3, <3>1, <3>2 DEF OthersRemain
    <3>4. ~raced => SuperAdmins' # {}
      <4> SUFFICES ASSUME ~raced PROVE SuperAdmins' # {}
        OBVIOUS
      <4>1. Present # {}
        BY <2>1
      <4>2. QED
        BY <3>1, <4>1
    <3>5. QED
      BY <2>1, <3>2, <3>3, <3>4
  <2>6. CASE TakesPower(e)
    <3>1. pc[e] = "write" /\ Checked(e)
      BY <1>0, <1>6, <2>6 DEF TakesPower, Checked
    <3>2. overtaken' = (overtaken \cup {o \in Editors : Checked(o)}) \ {e} /\ raced' = (raced \/ e \in overtaken)
      BY <1>6, <2>6 DEF Store
    <3>3. OthersRemain'
      BY <2>2, <2>3, <3>2 DEF OthersRemain
    <3>4. ASSUME ~raced' PROVE SuperAdmins' # {}
      <4>1. PICK u \in Users \ {target[e]} : u \in SuperAdmins
        BY <3>1, <3>2, <3>4 DEF OthersRemain
      <4>2. u \in SuperAdmins'
        BY <2>4, <4>1 DEF SuperAdmins, Present
      <4>3. QED
        BY <4>2
    <3>5. QED
      BY <2>1, <3>3, <3>4
  <2>7. QED
    BY <2>5, <2>6
<1>7. CASE UNCHANGED vars
  BY <1>7 DEF vars, OthersRemain, Checked, SuperAdmins, Present
<1>8. QED
  BY <1>1, <1>2, <1>3, <1>4, <1>5, <1>6, <1>7 DEF Next, FormStep, Refuse, StatementFails, Write, Create

\* The forms alone: no sequence of them, of failures and of restarts leaves a
\* served system without a super admin, unless a form took power after another
\* had done so since its check: nothing locks the table in between.
THEOREM FormsLeaveSuperAdmin == Spec => []SuperAdminRemains
<1>1. TypeOK /\ FormsInv => SuperAdminRemains
  BY DEF TypeOK, FormsInv, SuperAdminRemains
<1>2. TypeOK /\ FormsInv /\ [Next]_vars => TypeOK' /\ FormsInv'
  BY UsersTypeStep, FormsStep
<1>3. QED
  BY <1>1, <1>2, FormsInit, PTL DEF Spec

-----------------------------------------------------------------------------
(* Throttle: what one look and one failure make of an entry.               *)

\* An entry whose window began in time and whose block, if it has one, lasts
\* longer than the window.
Sound(a, now) ==
  /\ a \in Attempts /\ a.first <= now
  /\ a.count >= MaxAttempts => a.til >= a.first + BlockFor - 1

LEMMA NoAttemptsSound == \A now \in Nat : Sound(NoAttempts, now) /\ NoAttempts.count < MaxAttempts
  BY ThrottleAssumption DEF Sound, NoAttempts, Attempts

\* Who may try again has the count below the limit.
LEMMA LookForgets ==
  ASSUME NEW now \in Nat, NEW a, Sound(a, now), ~Blocked(a, now)
  PROVE  Sound(Looked(a, now), now) /\ Looked(a, now).count < MaxAttempts
<1>1. CASE WindowOver(a, now)
  BY <1>1, NoAttemptsSound DEF Looked
<1>2. CASE ~WindowOver(a, now)
  BY <1>2, ThrottleAssumption DEF Looked, WindowOver, Blocked, Sound, Attempts
<1>3. QED
  BY <1>1, <1>2

\* A failure adds one to the count or begins a new one.
LEMMA FailureCounts ==
  ASSUME NEW now \in Nat, NEW then \in Nat, then <= now, now <= then + 1, NEW a, Sound(a, now)
  PROVE  /\ Sound(Failed(a, then), now)
         /\ Failed(a, then).count \in {1, a.count + 1}
<1> USE ThrottleAssumption DEF Attempts, NoAttempts
<1> DEFINE b == IF a = NoAttempts \/ WindowOver(a, then) THEN [NoAttempts EXCEPT !.first = then] ELSE a
<1>1. b \in Attempts /\ b.first <= now /\ b.count \in {0, a.count}
  BY DEF Sound
<1>2. Failed(a, then) = [b EXCEPT !.count = b.count + 1,
                                  !.til = IF b.count + 1 >= MaxAttempts THEN then + BlockFor ELSE b.til]
  BY <1>1 DEF Failed
<1> HIDE DEF b
<1>3. PICK c \in Nat, f \in Nat, t \in Nat : b = [count |-> c, first |-> f, til |-> t]
  BY <1>1
<1>4. Failed(a, then) = [count |-> c + 1, first |-> f,
                         til |-> IF c + 1 >= MaxAttempts THEN then + BlockFor ELSE t]
  BY <1>2, <1>3
<1>5. f <= now /\ c \in {0, a.count}
  BY <1>1, <1>3
<1>6. then + BlockFor >= f + BlockFor - 1
  BY <1>5
<1>7. QED
  BY <1>4, <1>5, <1>6 DEF Sound

-----------------------------------------------------------------------------
(* AdminAccess: the forms behind the gate.                                 *)

\* Whatever the gate does, the users see only steps of the forms.
LEMMA AccessIsForms == (AccessInit => Init) /\ ([AccessNext]_allVars => [Next]_vars)
<1>1. AccessInit => Init
  BY DEF AccessInit
<1>2. ASSUME [AccessNext]_allVars PROVE [Next]_vars
  <2> USE AdminAccessAssumption DEF Next
  <2>1. ASSUME NEW e \in Editors, Request(e) PROVE [Next]_vars
    <3>1. CASE OpenForm(e)
      BY <3>1 DEF OpenForm
    <3>2. CASE Form(e)
      BY <3>2 DEF Form
    <3>3. CASE \E t \in Tokens : Arrive(e, t) \/ OpenSession(e, t)
      BY <3>3 DEF Arrive, OpenSession
    <3>4. CASE Check(e) \/ Touch(e) \/ TurnAway(e) \/ GateFails(e)
      BY <3>4 DEF Check, Touch, TurnAway, GateFails
    <3>5. CASE (\E i \in Idles : SetIdle(e, i)) \/ (\E u \in Users : Login(e, u))
      BY <3>5 DEF SetIdle, Login
    <3>6. CASE LoginRefused(e) \/ LoginAccepted(e)
      BY <3>6 DEF LoginRefused, LoginAccepted
    <3>7. QED
      BY <2>1, <3>1, <3>2, <3>3, <3>4, <3>5, <3>6 DEF Request
  <2>2. CASE \E t \in Tokens : Logout(t)
    BY <2>2 DEF Logout
  <2>3. CASE Serve \/ Shutdown \/ Tick
    BY <2>3 DEF Serve, Shutdown, Tick
  <2>4. CASE UNCHANGED allVars
    BY <2>4 DEF allVars
  <2>5. QED
    BY <1>2, <2>1, <2>2, <2>3, <2>4 DEF AccessNext
<1>3. QED
  BY <1>1, <1>2

TokenHeld == [token : Tokens, now : Nat, idle : Idles]

UserHeld == [user : Users, now : Nat]

\* A request before the gate has read what its next statement needs, and is
\* behind it no more; a login under way looked at the throttle within a tick.
GateInv == \A e \in Editors :
  /\ gate[e] \in {"check", "touch", "load"} => holds[e] \in TokenHeld /\ Exists(holds[e].token)
  /\ gate[e] \in {"password", "open"} => holds[e] \in UserHeld
  /\ gate[e] = "password" => holds[e].now <= clock /\ clock <= holds[e].now + 1
  /\ gate[e] # "out" => pc[e] = "idle" /\ up

InFlight(u) == {e \in Editors : gate[e] = "password" /\ holds[e].user = u}

\* The failures counted and those that may still come.
GuessInv == \A u \in Users :
  /\ Sound(attempts[u], clock)
  /\ attempts[u].count + Cardinality(InFlight(u)) < MaxAttempts + Cardinality(Editors)

DoorInv == TypeOK /\ FormsInv /\ DoorOK /\ GateInv /\ GuessInv

LEMMA SessionsDiffer == NoSession \notin Session
<1>1. ASSUME NEW s \in Session PROVE s # NoSession
  <2>1. "last" \in DOMAIN s /\ "last" \notin DOMAIN NoSession
    BY DEF NoSession, Session
  <2>2. QED
    BY <2>1
<1>2. QED
  BY <1>1

LEMMA SessionChanges ==
  ASSUME NEW s \in Session, NEW now \in Nat, NEW end \in Nat
  PROVE  [s EXCEPT !.last = now, !.expires = end] \in Session /\ [s EXCEPT !.revoked = TRUE] \in Session
BY DEF Session

LEMMA LoginsCounted ==
  ASSUME NEW S, S \subseteq Editors
  PROVE  /\ IsFiniteSet(S) /\ Cardinality(S) \in Nat
         /\ Cardinality(Editors) \in Nat /\ Cardinality(S) <= Cardinality(Editors)
BY AdminAccessAssumption, FS_Subset, FS_CardinalityType

LEMMA DoorInit == AccessInit => DoorInv
<1> SUFFICES ASSUME AccessInit PROVE DoorInv
  OBVIOUS
<1>1. TypeOK /\ FormsInv
  BY AccessIsForms, FormsInit
<1>2. DoorOK
  BY NoAttemptsSound, AdminAccessAssumption DEF AccessInit, DoorOK, Held, Sound
<1>3. GateInv
  BY DEF AccessInit, GateInv
<1>4. ASSUME NEW u \in Users PROVE InFlight(u) = {}
  BY DEF AccessInit, InFlight
<1>5. GuessInv
  BY <1>4, NoAttemptsSound, LoginsCounted, FS_EmptySet, ThrottleAssumption
  DEF AccessInit, GuessInv, NoAttempts
<1>6. QED
  BY <1>1, <1>2, <1>3, <1>5 DEF DoorInv

LEMMA DoorStep ==
  ASSUME TypeOK, DoorOK, GateInv, AccessNext,
         \A u \in Users : attempts'[u] \in Attempts, attempts' \in [Users -> Attempts]
  PROVE  DoorOK' /\ GateInv'
<1> USE AdminAccessAssumption DEF DoorOK, Pass, Leave, Goto, Answer
<1> DEFINE AtGate(e) ==
      /\ gate[e] \in {"check", "touch", "load"} => holds[e] \in TokenHeld /\ Exists(holds[e].token)
      /\ gate[e] \in {"password", "open"} => holds[e] \in UserHeld
      /\ gate[e] = "password" => holds[e].now <= clock /\ clock <= holds[e].now + 1
      /\ gate[e] # "out" => pc[e] = "idle" /\ up
<1>g. \A e \in Editors : AtGate(e)
  BY DEF GateInv
<1>h. TokenHeld \subseteq Held /\ UserHeld \subseteq Held /\ Nothing \in Held
  BY DEF TokenHeld, UserHeld, Held
<1>s. ASSUME DoorOK', \A e \in Editors : AtGate(e)' PROVE DoorOK' /\ GateInv'
  BY <1>s DEF GateInv
<1> HIDE DEF AtGate
\* One request moves and the rest of the world stays as it is.
<1>o. ASSUME NEW e \in Editors, NEW o \in Editors \ {e}, gate'[o] = gate[o], holds'[o] = holds[o],
             pc'[o] = pc[o], UNCHANGED <<sessions, up, clock>>
      PROVE  AtGate(o)'
  BY <1>g, <1>o DEF AtGate, Exists
<1>1. ASSUME NEW e \in Editors, NEW t \in Tokens, Arrive(e, t) PROVE DoorOK' /\ GateInv'
  <2>1. [token |-> t, now |-> clock, idle |-> idle] \in TokenHeld
    BY DEF TokenHeld
  <2>2. DoorOK'
    BY <1>1, <1>h, <2>1 DEF Arrive
  <2>3. AtGate(e)'
    BY <1>1, <2>1 DEF Arrive, Free, AtGate, Exists, vars
  <2>4. QED
    BY <1>1, <1>o, <1>s, <2>2, <2>3 DEF Arrive, vars
<1>2. ASSUME NEW e \in Editors, Check(e) PROVE DoorOK' /\ GateInv'
  <2>1. DoorOK' /\ AtGate(e)'
    BY <1>2, <1>g, <1>h DEF Check, AtGate, Exists, vars
  <2>2. QED
    BY <1>2, <1>o, <1>s, <2>1 DEF Check, vars
<1>3. ASSUME NEW e \in Editors, Touch(e) PROVE DoorOK' /\ GateInv'
  <2>1. CASE UNCHANGED sessions /\ Leave(e)
    <3>1. DoorOK' /\ AtGate(e)'
      BY <1>3, <1>h, <2>1 DEF Touch, AtGate, vars
    <3>2. QED
      BY <1>3, <1>o, <1>s, <2>1, <3>1 DEF Touch, vars
  <2>2. CASE ~sessions[holds[e].token].revoked
    <3> DEFINE t == holds[e].token
    <3>1. t \in Tokens /\ Exists(t) /\ holds[e].idle \in Nat
      BY <1>3, <1>g DEF Touch, AtGate, TokenHeld
    <3>2. sessions[t] \in Session
      BY <3>1 DEF Exists
    <3>3. sessions' = [sessions EXCEPT ![t] = [@ EXCEPT !.last = clock, !.expires = clock + holds[e].idle]]
      BY <1>3, <2>2, <3>1 DEF Touch
    <3>k. clock \in Nat /\ clock + holds[e].idle \in Nat
      BY <3>1
    <3>4. sessions'[t] \in Session /\ \A o \in Tokens \ {t} : sessions'[o] = sessions[o]
      <4>1. /\ sessions'[t] = [sessions[t] EXCEPT !.last = clock, !.expires = clock + holds[e].idle]
            /\ \A o \in Tokens \ {t} : sessions'[o] = sessions[o]
        BY <3>1, <3>3
      <4>2. [sessions[t] EXCEPT !.last = clock, !.expires = clock + holds[e].idle] \in Session
        BY ONLY <3>2, <3>k, SessionChanges
      <4>3. QED
        BY <4>1, <4>2
    <3>5. \A o \in Tokens : Exists(o)' = Exists(o)
      BY <3>1, <3>4, SessionsDiffer DEF Exists
    <3>6. DoorOK'
      BY <1>3, <2>2, <3>1, <3>3, <3>4 DEF Touch
    <3>7. /\ UNCHANGED <<holds, up, pc, clock>> /\ gate'[e] = "load"
          /\ \A o \in Editors \ {e} : gate'[o] = gate[o]
      BY <1>3, <2>2 DEF Touch, vars
    <3>8. ASSUME NEW o \in Editors PROVE AtGate(o)'
      BY <1>g, <1>3, <3>5, <3>7 DEF AtGate, Touch, TokenHeld
    <3>9. QED
      BY <1>s, <3>6, <3>8
  <2>3. QED
    BY <1>3, <2>1, <2>2 DEF Touch
<1>4. ASSUME NEW e \in Editors, TurnAway(e) \/ OpenForm(e) \/ GateFails(e) \/ \E i \in Idles : SetIdle(e, i)
      PROVE  DoorOK' /\ GateInv'
  <2>1. /\ Leave(e) /\ UNCHANGED <<sessions, attempts, clock, up>> /\ idle' \in Idles
        /\ \A o \in Editors \ {e} : pc'[o] = pc[o]
    BY <1>4 DEF TurnAway, OpenForm, GateFails, SetIdle, SubmitEdit, SubmitNew, Admit, TypeOK, vars
  <2>2. DoorOK' /\ AtGate(e)'
    BY <1>h, <2>1 DEF AtGate
  <2>3. QED
    BY <1>o, <1>s, <2>1, <2>2
<1>5. ASSUME NEW e \in Editors, NEW u \in Users, Login(e, u) PROVE DoorOK' /\ GateInv'
  <2>1. CASE UNCHANGED <<gate, holds>>
    <3>1. DoorOK' /\ \A o \in Editors : AtGate(o)'
      BY <1>5, <1>g, <2>1 DEF Login, AtGate, Exists, vars
    <3>2. QED
      BY <1>s, <3>1
  <2>2. CASE Pass(e, "password") /\ holds' = [holds EXCEPT ![e] = [user |-> u, now |-> clock]]
    <3>1. [user |-> u, now |-> clock] \in UserHeld
      BY DEF UserHeld
    <3>2. DoorOK'
      BY <1>5, <1>h, <2>2, <3>1 DEF Login
    <3>3. AtGate(e)'
      BY <1>5, <2>2, <3>1 DEF Login, Free, AtGate, vars
    <3>4. QED
      BY <1>5, <1>o, <1>s, <2>2, <3>2, <3>3 DEF Login, vars
  <2>3. QED
    BY <1>5, <2>1, <2>2 DEF Login
<1>6. ASSUME NEW e \in Editors, LoginRefused(e) PROVE DoorOK' /\ GateInv'
  <2>1. DoorOK' /\ AtGate(e)'
    BY <1>6, <1>h DEF LoginRefused, AtGate
  <2>2. QED
    BY <1>6, <1>o, <1>s, <2>1 DEF LoginRefused, vars
<1>7. ASSUME NEW e \in Editors, LoginAccepted(e) PROVE DoorOK' /\ GateInv'
  <2>1. DoorOK' /\ AtGate(e)'
    BY <1>7, <1>g DEF LoginAccepted, AtGate, vars
  <2>2. QED
    BY <1>7, <1>o, <1>s, <2>1 DEF LoginAccepted, vars
<1>8. ASSUME NEW e \in Editors, NEW t \in Tokens, OpenSession(e, t) PROVE DoorOK' /\ GateInv'
  <2>1. holds[e].user \in Users
    BY <1>8, <1>g DEF OpenSession, AtGate, UserHeld
  <2>2. sessions'[t] \in Session /\ \A o \in Tokens \ {t} : sessions'[o] = sessions[o]
    BY <1>8, <2>1 DEF OpenSession, Session
  <2>3. DoorOK' /\ AtGate(e)'
    BY <1>8, <1>h, <2>2 DEF OpenSession, AtGate
  <2>4. \A o \in Tokens : Exists(o) => Exists(o)'
    BY <1>8, <2>2, SessionsDiffer DEF Exists, OpenSession
  <2>5. ASSUME NEW o \in Editors \ {e} PROVE AtGate(o)'
    BY <1>g, <1>8, <2>4 DEF AtGate, OpenSession, vars, TokenHeld
  <2>6. QED
    BY <1>s, <2>3, <2>5
<1>9. ASSUME NEW t \in Tokens, Logout(t) PROVE DoorOK' /\ GateInv'
  <2>1. sessions[t] \in Session
    BY <1>9 DEF Logout, Exists
  <2>2. sessions' = [sessions EXCEPT ![t] = [@ EXCEPT !.revoked = TRUE]]
    BY <1>9 DEF Logout
  <2>3. sessions'[t] \in Session /\ \A o \in Tokens \ {t} : sessions'[o] = sessions[o]
    <3>1. /\ sessions'[t] = [sessions[t] EXCEPT !.revoked = TRUE]
          /\ \A o \in Tokens \ {t} : sessions'[o] = sessions[o]
      BY <2>2
    <3>2. QED
      BY <2>1, <3>1, SessionChanges
  <2>4. \A o \in Tokens : Exists(o) => Exists(o)'
    BY <2>3, SessionsDiffer DEF Exists
  <2>5. DoorOK'
    BY <1>9, <2>2, <2>3 DEF Logout
  <2>6. ASSUME NEW o \in Editors PROVE AtGate(o)'
    BY <1>g, <1>9, <2>4 DEF AtGate, Logout, vars, TokenHeld
  <2>7. QED
    BY <1>s, <2>5, <2>6
<1>10. ASSUME NEW e \in Editors, Form(e) PROVE DoorOK' /\ GateInv'
  <2>a. PICK s : pc' = [pc EXCEPT ![e] = s]
    BY <1>10 DEF Form, FormStep, Look, Count, Refuse, Write, Create, StatementFails, Store, Finished
  <2>b. UNCHANGED up /\ pc[e] # "idle"
    BY <1>10 DEF Form, FormStep, Look, Count, Refuse, Write, Create, StatementFails, Store
  <2>1. /\ UNCHANGED <<sessions, up, clock, gate, holds>> /\ pc[e] # "idle" /\ DoorOK'
        /\ \A o \in Editors \ {e} : pc'[o] = pc[o]
    BY <1>10, <2>a, <2>b DEF Form, TypeOK, door
  <2>2. AtGate(e)'
    BY <1>g, <2>1 DEF AtGate
  <2>3. QED
    BY <1>o, <1>s, <2>1, <2>2
<1>11. CASE Serve
  <2>1. ASSUME NEW o \in Editors PROVE AtGate(o)'
    BY <1>g, <1>11 DEF AtGate, Serve, Start, door, Exists
  <2>2. QED
    BY <1>11, <1>s, <2>1 DEF Serve, door
<1>12. CASE Shutdown
  <2>1. ASSUME NEW o \in Editors PROVE AtGate(o)'
    BY <1>12 DEF AtGate, Shutdown
  <2>2. QED
    BY <1>12, <1>h, <1>s, <2>1 DEF Shutdown
<1>13. CASE Tick
  <2>1. ASSUME NEW o \in Editors PROVE AtGate(o)'
    <3>1. UNCHANGED <<sessions, gate, holds, pc, up>>
      BY <1>13 DEF Tick, vars
    <3>2. gate[o] = "password" => holds[o].now = clock
      BY <1>13 DEF Tick
    <3>3. clock \in Nat /\ clock' = clock + 1
      BY <1>13 DEF Tick
    <3>4. QED
      BY <1>g, <3>1, <3>2, <3>3 DEF AtGate, Exists
  <2>2. QED
    BY <1>13, <1>s, <2>1 DEF Tick
<1>14. QED
  BY <1>1, <1>2, <1>3, <1>4, <1>5, <1>6, <1>7, <1>8, <1>9, <1>10, <1>11, <1>12, <1>13 DEF AccessNext, Request

LEMMA GuessStep ==
  ASSUME TypeOK, DoorOK, GateInv, GuessInv, AccessNext
  PROVE  attempts' \in [Users -> Attempts] /\ GuessInv'
<1> USE DEF DoorOK, Pass, Leave
<1> DEFINE Guess(u) == /\ Sound(attempts[u], clock)
                       /\ attempts[u].count + Cardinality(InFlight(u)) < MaxAttempts + Cardinality(Editors)
<1>f. ASSUME NEW u PROVE InFlight(u) \subseteq Editors /\ InFlight(u)' \subseteq Editors
  BY DEF InFlight
<1>g. \A u \in Users : Guess(u) /\ attempts[u].count \in Nat
  BY DEF GuessInv, Attempts
<1> USE ThrottleAssumption
\* Nobody comes to be in flight, and the count stays.
<1>w. ASSUME NEW u \in Users, attempts'[u] = attempts[u], clock' = clock, InFlight(u)' \subseteq InFlight(u)
      PROVE  Guess(u)'
  <2>1. Cardinality(InFlight(u)') <= Cardinality(InFlight(u))
    BY <1>f, <1>w, LoginsCounted, FS_Subset
  <2>2. /\ Cardinality(InFlight(u)') \in Nat /\ Cardinality(InFlight(u)) \in Nat
        /\ Cardinality(Editors) \in Nat
    BY <1>f, LoginsCounted
  <2>3. QED
    BY <1>g, <1>w, <2>1, <2>2
\* The count starts again, or is below the limit after a look.
<1>b. ASSUME NEW u \in Users, Sound(attempts'[u], clock'), attempts'[u].count < MaxAttempts
      PROVE  Guess(u)'
  <2>1. attempts'[u].count \in Nat
    BY <1>b DEF Sound, Attempts
  <2>2. /\ Cardinality(InFlight(u)') \in Nat /\ Cardinality(Editors) \in Nat
        /\ Cardinality(InFlight(u)') <= Cardinality(Editors)
    BY <1>f, LoginsCounted
  <2>3. QED
    BY <1>b, <2>1, <2>2
<1>s. ASSUME attempts' \in [Users -> Attempts], \A u \in Users : Guess(u)'
      PROVE  attempts' \in [Users -> Attempts] /\ GuessInv'
  BY <1>s DEF GuessInv
<1> HIDE DEF Guess
<1>q. ASSUME UNCHANGED <<attempts, clock>>, \A u \in Users : InFlight(u)' \subseteq InFlight(u)
      PROVE  attempts' \in [Users -> Attempts] /\ GuessInv'
  BY <1>q, <1>w, <1>s
<1>1. ASSUME NEW e \in Editors,
             \/ \E t \in Tokens : Arrive(e, t) \/ OpenSession(e, t)
             \/ Check(e) \/ Touch(e) \/ TurnAway(e) \/ OpenForm(e) \/ GateFails(e)
             \/ \E i \in Idles : SetIdle(e, i)
             \/ Form(e)
      PROVE  attempts' \in [Users -> Attempts] /\ GuessInv'
  <2>1. UNCHANGED <<attempts, clock>>
    BY <1>1 DEF Arrive, OpenSession, Check, Touch, TurnAway, OpenForm, GateFails, SetIdle, Form, door
  <2>2. /\ gate'[e] # "password" \/ UNCHANGED <<gate, holds>>
        /\ \A o \in Editors \ {e} : gate'[o] = gate[o] /\ holds'[o] = holds[o]
    BY <1>1 DEF Arrive, OpenSession, Check, Touch, TurnAway, OpenForm, GateFails, SetIdle, Form, door
  <2>3. QED
    BY <1>q, <2>1, <2>2 DEF InFlight
<1>2. ASSUME NEW e \in Editors, NEW u \in Users, Login(e, u)
      PROVE  attempts' \in [Users -> Attempts] /\ GuessInv'
  <2>1. CASE Blocked(attempts[u], clock)
    BY <1>2, <1>q, <2>1 DEF Login, InFlight
  <2>2. CASE ~Blocked(attempts[u], clock)
    <3>1. /\ Pass(e, "password") /\ clock' = clock
          /\ holds' = [holds EXCEPT ![e] = [user |-> u, now |-> clock]]
          /\ attempts' = [attempts EXCEPT ![u] = Looked(@, clock)]
      BY <1>2, <2>2 DEF Login
    <3>2. Sound(Looked(attempts[u], clock), clock) /\ Looked(attempts[u], clock).count < MaxAttempts
      BY <1>g, <2>2, LookForgets DEF Guess
    <3>3. Looked(attempts[u], clock) \in Attempts
      BY <3>2 DEF Sound
    <3>4. Guess(u)'
      BY <1>b, <3>1, <3>2
    <3>5. ASSUME NEW v \in Users, v # u PROVE Guess(v)'
      <4>1. gate'[e] = "password" /\ holds'[e].user = u
        BY <3>1
      <4>2. \A o \in Editors \ {e} : gate'[o] = gate[o] /\ holds'[o] = holds[o]
        BY <3>1
      <4>3. InFlight(v)' \subseteq InFlight(v)
        BY <3>5, <4>1, <4>2 DEF InFlight
      <4>4. QED
        BY <1>w, <3>1, <3>5, <4>3
    <3>6. QED
      BY <1>s, <3>1, <3>3, <3>4, <3>5
  <2>3. QED
    BY <2>1, <2>2
<1>3. ASSUME NEW e \in Editors, LoginRefused(e)
      PROVE  attempts' \in [Users -> Attempts] /\ GuessInv'
  <2>1. gate[e] = "password" /\ holds[e] \in UserHeld /\ holds[e].now <= clock /\ clock <= holds[e].now + 1
    BY <1>3 DEF LoginRefused, GateInv
  <2>2. PICK u \in Users, then \in Nat : u = holds[e].user /\ then = holds[e].now
    BY <2>1 DEF UserHeld
  <2>a. PICK a : a = Failed(attempts[u], then)
    OBVIOUS
  <2>3. Sound(a, clock) /\ a.count \in {1, attempts[u].count + 1}
    BY <1>g, <2>1, <2>2, <2>a, FailureCounts DEF Guess
  <2>4. /\ attempts' = [attempts EXCEPT ![u] = a] /\ clock' = clock
        /\ gate'[e] = "out" /\ \A o \in Editors \ {e} : gate'[o] = gate[o] /\ holds'[o] = holds[o]
    BY <1>3, <2>2, <2>a DEF LoginRefused
  <2>5. InFlight(u)' = InFlight(u) \ {e} /\ e \in InFlight(u)
    BY <2>1, <2>2, <2>4 DEF InFlight
  <2>6. Guess(u)'
    <3>1. Cardinality(InFlight(u)') = Cardinality(InFlight(u)) - 1
      BY <1>f, <2>5, LoginsCounted, FS_RemoveElement
    <3>2. /\ Cardinality(InFlight(u)) \in Nat /\ Cardinality(Editors) \in Nat
          /\ Cardinality(InFlight(u)) <= Cardinality(Editors)
      BY <1>f, LoginsCounted
    <3>3. attempts'[u] = a /\ attempts[u].count \in Nat
      BY <1>g, <2>2, <2>4
    <3>4. attempts[u].count + Cardinality(InFlight(u)) < MaxAttempts + Cardinality(Editors)
      BY <1>g, <2>2 DEF Guess
    <3>5. a.count + Cardinality(InFlight(u)') < MaxAttempts + Cardinality(Editors)
      BY <2>3, <3>1, <3>2, <3>3, <3>4
    <3>6. QED
      BY <2>3, <2>4, <3>3, <3>5 DEF Guess
  <2>7. ASSUME NEW v \in Users, v # u PROVE Guess(v)'
    <3>1. InFlight(v)' \subseteq InFlight(v)
      BY <2>4 DEF InFlight
    <3>2. QED
      BY <1>w, <2>4, <2>7, <3>1
  <2>8. a \in Attempts
    BY <2>3 DEF Sound
  <2>9. QED
    BY <1>s, <2>4, <2>6, <2>7, <2>8
<1>4. ASSUME NEW e \in Editors, LoginAccepted(e)
      PROVE  attempts' \in [Users -> Attempts] /\ GuessInv'
  <2> DEFINE u == holds[e].user
  <2>1. holds[e] \in UserHeld
    BY <1>4 DEF LoginAccepted, GateInv
  <2>2. u \in Users
    BY <2>1 DEF UserHeld
  <2>3. /\ attempts' = [attempts EXCEPT ![u] = NoAttempts] /\ UNCHANGED <<clock, holds>>
        /\ gate'[e] = "open" /\ \A o \in Editors \ {e} : gate'[o] = gate[o]
    BY <1>4 DEF LoginAccepted
  <2>4. Guess(u)' /\ NoAttempts \in Attempts
    BY <1>b, <2>2, <2>3, NoAttemptsSound DEF Sound
  <2>5. ASSUME NEW v \in Users, v # u PROVE Guess(v)'
    <3>1. InFlight(v)' \subseteq InFlight(v)
      BY <2>3 DEF InFlight
    <3>2. QED
      BY <1>w, <2>3, <2>5, <3>1
  <2>6. QED
    BY <1>s, <2>3, <2>4, <2>5
<1>5. ASSUME (\E t \in Tokens : Logout(t)) \/ Serve
      PROVE  attempts' \in [Users -> Attempts] /\ GuessInv'
  BY <1>5, <1>q DEF Logout, Serve, door, InFlight
<1>6. CASE Shutdown
  <2>1. attempts' = [u \in Users |-> NoAttempts] /\ clock' = clock
    BY <1>6 DEF Shutdown
  <2>2. \A u \in Users : Guess(u)' /\ NoAttempts \in Attempts
    BY <1>b, <2>1, NoAttemptsSound DEF Sound
  <2>3. QED
    BY <1>s, <2>1, <2>2
<1>7. CASE Tick
  <2>1. clock' = clock + 1 /\ clock \in Nat /\ UNCHANGED <<attempts, gate, holds>>
    BY <1>7 DEF Tick
  <2>2. ASSUME NEW u \in Users PROVE Guess(u)'
    <3>1. InFlight(u)' = InFlight(u)
      BY <2>1 DEF InFlight
    <3>2. Sound(attempts[u], clock')
      BY <1>g, <2>1 DEF Guess, Sound, Attempts
    <3>3. QED
      BY <1>g, <2>1, <3>1, <3>2 DEF Guess
  <2>3. QED
    BY <1>s, <2>1, <2>2
<1>8. QED
  BY <1>1, <1>2, <1>3, <1>4, <1>5, <1>6, <1>7 DEF AccessNext, Request

LEMMA DoorInvStep == DoorInv /\ [AccessNext]_allVars => DoorInv'
<1> SUFFICES ASSUME DoorInv, [AccessNext]_allVars PROVE DoorInv'
  OBVIOUS
<1>1. TypeOK' /\ FormsInv'
  BY AccessIsForms, UsersTypeStep, FormsStep DEF DoorInv
<1>2. CASE AccessNext
  <2>1. attempts' \in [Users -> Attempts] /\ GuessInv'
    BY <1>2, GuessStep DEF DoorInv
  <2>2. DoorOK' /\ GateInv'
    BY <1>2, <2>1, DoorStep DEF DoorInv
  <2>3. QED
    BY <1>1, <2>1, <2>2 DEF DoorInv
<1>3. CASE UNCHANGED allVars
  <2>2. DoorOK' /\ GateInv'
    BY <1>3 DEF DoorInv, allVars, door, vars, DoorOK, GateInv, Exists
  <2>3. GuessInv'
    BY <1>3 DEF DoorInv, allVars, door, GuessInv, InFlight
  <2>4. QED
    BY <1>1, <2>2, <2>3 DEF DoorInv
<1>4. QED
  BY <1>2, <1>3

\* The gate and the forms together, for any number of users, of requests and of
\* sessions and for every limit and window of the throttle: each request is
\* where its own statements put it, a super admin remains, and the failures
\* counted for a name never reach the limit by more than the logins that may
\* run at once.
THEOREM GateHolds == AccessSpec => []AccessInv
<1>1. DoorInv => AccessInv
  <2> SUFFICES ASSUME DoorInv PROVE AccessInv
    OBVIOUS
  <2>1. SuperAdminRemains
    BY DEF DoorInv, TypeOK, FormsInv, SuperAdminRemains
  <2>2. ASSUME NEW u \in Users PROVE attempts[u].count < MaxAttempts + Cardinality(Editors)
    <3>1. InFlight(u) \subseteq Editors
      BY DEF InFlight
    <3>2. Cardinality(InFlight(u)) \in Nat /\ Cardinality(Editors) \in Nat
      BY <3>1, LoginsCounted
    <3>3. attempts[u].count \in Nat /\ MaxAttempts \in Nat
      BY ThrottleAssumption DEF DoorInv, DoorOK, Attempts
    <3>4. QED
      BY <3>2, <3>3 DEF DoorInv, GuessInv
  <2>3. QED
    BY <2>1, <2>2 DEF DoorInv, GateInv, AccessInv
<1>2. QED
  BY <1>1, DoorInit, DoorInvStep, PTL DEF AccessSpec

\* A request that goes on to prolong its session saw it alive; one that saw it
\* dead at its beginning will find it so.
LivedInv == \A e \in Editors :
  /\ gate[e] = "check" /\ e \notin found =>
       sessions[holds[e].token].revoked \/ sessions[holds[e].token].expires < holds[e].now
  /\ gate[e] = "touch" => e \in found

LEMMA LivedStep ==
  ASSUME DoorInv, LivedInv, [AccessNext]_allVars
  PROVE  LivedInv'
<1> USE DEF Pass, Leave
<1> DEFINE Lived(e) ==
      /\ gate[e] = "check" /\ e \notin found =>
           sessions[holds[e].token].revoked \/ sessions[holds[e].token].expires < holds[e].now
      /\ gate[e] = "touch" => e \in found
<1>g. \A e \in Editors : Lived(e)
  BY DEF LivedInv
<1>d. DoorOK /\ GateInv
  BY DEF DoorInv
<1>s. ASSUME \A e \in Editors : Lived(e)' PROVE LivedInv'
  BY <1>s DEF LivedInv
<1> HIDE DEF Lived
<1>o. ASSUME NEW e \in Editors, gate'[e] = gate[e], holds'[e] = holds[e], e \in found => e \in found',
             UNCHANGED sessions
      PROVE  Lived(e)'
  BY <1>g, <1>o DEF Lived
<1>l. ASSUME NEW e \in Editors, gate'[e] \notin {"check", "touch"} PROVE Lived(e)'
  BY <1>l DEF Lived
<1>1. ASSUME NEW e \in Editors, NEW t \in Tokens, Arrive(e, t) PROVE LivedInv'
  <2>1. Lived(e)'
    BY <1>1, <1>d DEF Arrive, Lived, Dead, DoorOK
  <2>2. ASSUME NEW o \in Editors \ {e} PROVE Lived(o)'
    BY <1>1, <1>d, <1>o DEF Arrive, DoorOK
  <2>3. QED
    BY <1>s, <2>1, <2>2
<1>2. ASSUME NEW e \in Editors, Check(e) PROVE LivedInv'
  <2>1. Lived(e)'
    <3>1. CASE Leave(e)
      BY <1>d, <1>l, <3>1 DEF DoorOK
    <3>2. CASE ~sessions[holds[e].token].revoked /\ sessions[holds[e].token].expires >= holds[e].now
      <4>1. holds[e] \in TokenHeld /\ Exists(holds[e].token)
        BY <1>2, <1>d DEF Check, GateInv
      <4>2. holds[e].now \in Nat /\ sessions[holds[e].token] \in Session
        BY <1>d, <4>1 DEF DoorOK, Exists, TokenHeld
      <4>3. sessions[holds[e].token].expires \in Nat
        BY <4>2 DEF Session
      <4>4. e \in found
        BY <1>2, <1>g, <3>2, <4>2, <4>3 DEF Check, Lived
      <4>5. QED
        BY <1>2, <1>d, <1>l, <3>2, <4>4 DEF Check, Lived, DoorOK
    <3>3. QED
      BY <1>2, <3>1, <3>2 DEF Check, InTime
  <2>2. ASSUME NEW o \in Editors \ {e} PROVE Lived(o)'
    BY <1>2, <1>d, <1>o DEF Check, DoorOK
  <2>3. QED
    BY <1>s, <2>1, <2>2
<1>3. ASSUME NEW e \in Editors, Touch(e) PROVE LivedInv'
  <2>1. Lived(e)'
    BY <1>3, <1>d, <1>l DEF Touch, DoorOK
  <2>2. ASSUME NEW o \in Editors \ {e} PROVE Lived(o)'
    <3>1. CASE UNCHANGED sessions /\ Leave(e)
      BY <1>d, <1>o, <3>1 DEF DoorOK
    <3>2. CASE ~sessions[holds[e].token].revoked
      <4>1. /\ gate'[o] = gate[o] /\ holds' = holds /\ found \subseteq found'
            /\ gate[o] = "check" /\ holds[o].token = holds[e].token => o \in found'
        BY <1>3, <1>d, <3>2 DEF Touch, DoorOK
      <4>2. gate[o] = "check" /\ holds[o].token # holds[e].token =>
              sessions'[holds[o].token] = sessions[holds[o].token]
        BY <1>3, <1>d, <3>2 DEF Touch, DoorOK, GateInv, TokenHeld
      <4>3. QED
        BY <1>g, <4>1, <4>2 DEF Lived
    <3>3. QED
      BY <1>3, <3>1, <3>2 DEF Touch
  <2>3. QED
    BY <1>s, <2>1, <2>2
<1>4. ASSUME NEW e \in Editors,
             TurnAway(e) \/ OpenForm(e) \/ GateFails(e) \/ LoginRefused(e) \/ \E i \in Idles : SetIdle(e, i)
      PROVE  LivedInv'
  <2>1. Leave(e) /\ UNCHANGED sessions
    BY <1>4 DEF TurnAway, OpenForm, GateFails, LoginRefused, SetIdle
  <2>2. QED
    BY <1>d, <1>l, <1>o, <1>s, <2>1 DEF DoorOK
<1>5. ASSUME NEW e \in Editors, LoginAccepted(e) \/ \E u \in Users : Login(e, u) PROVE LivedInv'
  <2>1. UNCHANGED <<sessions, found>> /\ \A o \in Editors \ {e} : gate'[o] = gate[o] /\ holds'[o] = holds[o]
    BY <1>5, <1>d DEF Login, LoginAccepted, DoorOK
  <2>2. gate'[e] \notin {"check", "touch"} \/ UNCHANGED <<gate, holds>>
    BY <1>5, <1>d DEF Login, LoginAccepted, DoorOK
  <2>3. QED
    BY <1>l, <1>o, <1>s, <2>1, <2>2
<1>6. ASSUME NEW e \in Editors, NEW t \in Tokens, OpenSession(e, t) PROVE LivedInv'
  <2>1. Leave(e) /\ \A o \in Tokens \ {t} : sessions'[o] = sessions[o]
    BY <1>6, <1>d DEF OpenSession, DoorOK
  <2>2. ASSUME NEW o \in Editors \ {e} PROVE Lived(o)'
    <3>1. gate[o] = "check" => holds[o].token \in Tokens \ {t}
      BY <1>6, <1>d DEF OpenSession, GateInv, TokenHeld
    <3>2. QED
      BY <1>d, <1>g, <2>1, <3>1 DEF Lived, DoorOK
  <2>3. QED
    BY <1>d, <1>l, <1>s, <2>1, <2>2 DEF DoorOK
<1>7. ASSUME NEW t \in Tokens, Logout(t) PROVE LivedInv'
  <2>1. /\ UNCHANGED <<gate, holds, found>> /\ sessions'[t].revoked
        /\ \A o \in Tokens \ {t} : sessions'[o] = sessions[o]
    <3>1. sessions[t] \in Session
      BY <1>7, <1>d DEF Logout, Exists, DoorOK
    <3>2. sessions' = [sessions EXCEPT ![t] = [@ EXCEPT !.revoked = TRUE]]
      BY <1>7 DEF Logout
    <3>3. sessions'[t] = [sessions[t] EXCEPT !.revoked = TRUE]
      BY <1>d, <3>2 DEF DoorOK
    <3>4. sessions'[t].revoked
      BY <3>1, <3>3 DEF Session
    <3>5. QED
      BY <1>7, <1>d, <3>2, <3>4 DEF Logout, DoorOK
  <2>2. ASSUME NEW o \in Editors PROVE Lived(o)'
    <3>1. gate[o] = "check" => holds[o].token \in Tokens
      BY <1>d DEF GateInv, TokenHeld
    <3>2. QED
      BY <1>g, <2>1, <3>1 DEF Lived
  <2>3. QED
    BY <1>s, <2>2
<1>8. CASE Shutdown
  BY <1>8, <1>l, <1>s DEF Shutdown
<1>9. ASSUME Serve \/ Tick \/ UNCHANGED allVars \/ \E e \in Editors : Form(e) PROVE LivedInv'
  <2>1. UNCHANGED <<sessions, gate, holds, found>>
    BY <1>9 DEF Serve, Tick, allVars, Form, door
  <2>2. QED
    BY <1>o, <1>s, <2>1
<1>10. QED
  BY <1>1, <1>2, <1>3, <1>4, <1>5, <1>6, <1>7, <1>8, <1>9 DEF AccessNext, Request

\* The DeadStaysDead step, wherever the session is dead already.
LEMMA DeadStep ==
  ASSUME DoorInv, LivedInv, [AccessNext]_allVars, NEW t \in Tokens, Dead(t)
  PROVE  \/ Dead(t)'
         \/ /\ ~sessions[t].revoked
            /\ \E e \in found : gate[e] = "touch" /\ holds[e].token = t
<1>d. DoorOK /\ GateInv
  BY DEF DoorInv
<1>t. sessions[t] \in Session /\ clock \in Nat /\ sessions[t].expires \in Nat
  BY <1>d DEF DoorOK, Dead, Exists, Session
<1>k. ASSUME sessions'[t] = sessions[t], clock' = clock PROVE Dead(t)'
  BY <1>k DEF Dead, Exists
<1>1. ASSUME NEW e \in Editors, Touch(e) PROVE \/ Dead(t)'
         \/ /\ ~sessions[t].revoked
            /\ \E r \in found : gate[r] = "touch" /\ holds[r].token = t
  <2>1. CASE holds[e].token = t /\ ~sessions[t].revoked
    BY <1>1, <2>1 DEF LivedInv, Touch
  <2>2. CASE holds[e].token # t \/ sessions[t].revoked
    BY <1>1, <1>d, <1>k, <2>2 DEF Touch, DoorOK
  <2>3. QED
    BY <2>1, <2>2
<1>2. ASSUME NEW o \in Tokens, Logout(o) PROVE Dead(t)'
  <2>1. CASE o = t
    <3>1. sessions' = [sessions EXCEPT ![t] = [@ EXCEPT !.revoked = TRUE]]
      BY <1>2, <2>1 DEF Logout
    <3>2. sessions'[t] = [sessions[t] EXCEPT !.revoked = TRUE]
      BY <1>d, <3>1 DEF DoorOK
    <3>3. sessions'[t].revoked
      BY <1>t, <3>2 DEF Session
    <3>4. sessions'[t] # NoSession
      BY <1>t, <3>2, SessionChanges, SessionsDiffer
    <3>5. QED
      BY <3>3, <3>4 DEF Dead, Exists
  <2>2. CASE o # t
    BY <1>2, <1>d, <1>k, <2>2 DEF Logout, DoorOK
  <2>3. QED
    BY <2>1, <2>2
<1>3. ASSUME NEW e \in Editors, NEW o \in Tokens, OpenSession(e, o) PROVE Dead(t)'
  <2>1. o # t
    BY <1>3 DEF OpenSession, Dead
  <2>2. QED
    BY <1>3, <1>d, <1>k, <2>1 DEF OpenSession, DoorOK
<1>4. CASE Tick
  BY <1>4, <1>t DEF Tick, Dead, Exists
<1>5. CASE Serve \/ Shutdown \/ UNCHANGED allVars
  BY <1>5, <1>k DEF Serve, Shutdown, allVars, door
<1>6. ASSUME NEW e \in Editors,
             \/ \E o \in Tokens : Arrive(e, o)
             \/ Check(e) \/ TurnAway(e) \/ OpenForm(e) \/ GateFails(e)
             \/ (\E i \in Idles : SetIdle(e, i)) \/ (\E u \in Users : Login(e, u))
             \/ LoginRefused(e) \/ LoginAccepted(e) \/ Form(e)
      PROVE  Dead(t)'
  BY <1>6, <1>k DEF Arrive, Check, TurnAway, OpenForm, GateFails, SetIdle, Login,
                    LoginRefused, LoginAccepted, Form, door
<1>7. QED
  BY <1>1, <1>2, <1>3, <1>4, <1>5, <1>6 DEF AccessNext, Request

\* A revoked session never comes back; an expired one only by the Touch of a
\* request during which it lived.
THEOREM NoSessionReturns == AccessSpec => DeadStaysDead
<1>1. AccessInit => LivedInv
  BY DEF AccessInit, LivedInv
<1>2. DoorInv /\ LivedInv /\ [AccessNext]_allVars => LivedInv'
  BY LivedStep
<1>3. DoorInv /\ LivedInv /\ [AccessNext]_allVars =>
        [\A t \in Tokens : Dead(t) =>
           \/ Dead(t)'
           \/ /\ ~sessions[t].revoked
              /\ \E e \in found : gate[e] = "touch" /\ holds[e].token = t]_allVars
  BY DeadStep
<1>4. QED
  BY <1>1, <1>2, <1>3, DoorInit, DoorInvStep, PTL DEF AccessSpec, DeadStaysDead

-----------------------------------------------------------------------------
(* Catalogue: tables, forms, and what a form may rely on when it writes.   *)

LEMMA StoredTable ==
  ASSUME NEW f, NEW keys, NEW rows, NEW k \in keys, NEW row \in rows, IsTable(f, keys, rows)
  PROVE  /\ IsTable(Stored(f, k, row), keys, rows)
         /\ DOMAIN Stored(f, k, row) = DOMAIN f \cup {k}
         /\ Stored(f, k, row)[k] = row
         /\ \A x \in DOMAIN f \ {k} : Stored(f, k, row)[x] = f[x]
BY DEF Stored, IsTable, Range

LEMMA RestrictedTable ==
  ASSUME NEW f, NEW keys, NEW rows, NEW S, IsTable(f, keys, rows), S \subseteq DOMAIN f
  PROVE  /\ IsTable(Restrict(f, S), keys, rows) /\ DOMAIN Restrict(f, S) = S
         /\ \A x \in S : Restrict(f, S)[x] = f[x]
BY DEF IsTable, Range, Restrict

LEMMA UpdatedTable ==
  ASSUME NEW f, NEW keys, NEW rows, NEW k, NEW row \in rows, IsTable(f, keys, rows)
  PROVE  /\ IsTable([f EXCEPT ![k] = row], keys, rows)
         /\ DOMAIN [f EXCEPT ![k] = row] = DOMAIN f
BY DEF IsTable, Range

\* A row stored under its own key or a new one is no twin of another.
LEMMA StoredIsNoTwin ==
  ASSUME NEW f, NEW keys, NEW rows, NEW k \in keys, NEW row \in rows, IsTable(f, keys, rows),
         NEW id, NoTwins(f), None \notin keys, KeyFor(id, k, f), Storable(f, id, row)
  PROVE  NoTwins(Stored(f, k, row))
<1> DEFINE g == Stored(f, k, row)
<1>1. DOMAIN g = DOMAIN f \cup {k} /\ g[k] = row /\ \A x \in DOMAIN f \ {k} : g[x] = f[x]
  BY DEF Stored
<1>2. DOMAIN f \subseteq keys
  BY DEF IsTable
<1>3. \A o \in DOMAIN f \ {k} : ~(f[o].group = row.group /\ f[o].prefix = row.prefix)
  BY <1>2 DEF KeyFor, Storable, Taken
<1>4. \A i, o \in DOMAIN f : i # o => ~(f[o].group = f[i].group /\ f[o].prefix = f[i].prefix)
  BY DEF NoTwins, Taken
<1> HIDE DEF g
<1>5. \A i, o \in DOMAIN g : i # o => ~(g[o].group = g[i].group /\ g[o].prefix = g[i].prefix)
  BY <1>1, <1>3, <1>4
<1>6. NoTwins(g)
  BY <1>5 DEF NoTwins, Taken
<1>7. QED
  BY <1>6 DEF g

LEMMA RestrictedHasNoTwins ==
  ASSUME NEW f, NEW S, NoTwins(f), S \subseteq DOMAIN f
  PROVE  NoTwins(Restrict(f, S))
BY DEF NoTwins, Taken, Restrict

\* What each form has still to do: its checks in their order, then the write.
LeftInv == \A a \in Admins :
  /\ edit[a].op = "none" => todo[a] = <<>>
  /\ edit[a].op = "delete" =>
       todo[a] \in {<<"carriers", "clients", "write">>, <<"clients", "write">>, <<"write">>}
  /\ edit[a].op = "carrier" => todo[a] \in {<<"rate", "write">>, <<"write">>}
  /\ edit[a].op = "client" =>
       \/ edit[a].row.routing = None /\ todo[a] \in {<<"rate", "write">>, <<"write">>}
       \/ /\ edit[a].row.routing # None
          /\ todo[a] \in {<<"rate", "routing", "write">>, <<"routing", "write">>, <<"write">>}
  /\ edit[a].op = "entry" => todo[a] \in {<<"entry", "write">>, <<"write">>}
  /\ edit[a].op = "route" =>
       todo[a] \in {<<"primary", "route", "write">>, <<"route", "write">>, <<"write">>}

\* What a form names exists, as long as nothing deletes rows of that table.
NamesInv == \A a \in Admins :
  /\ edit[a].op = "client" => edit[a].row.routing \in DOMAIN routing \cup {None}
  /\ edit[a].op = "route" => edit[a].row.group \in DOMAIN routing /\ edit[a].row.primary \in DOMAIN carriers

\* Checks passed stay true of a form that was not overtaken.
Verdict(a) ==
  /\ edit[a].op = "delete" /\ Len(todo[a]) < 3 => CarrierRefs(edit[a].group) = {}
  /\ edit[a].op = "delete" /\ Len(todo[a]) < 2 => ClientRefs(edit[a].group) = {}
  /\ edit[a].op = "client" /\ Len(todo[a]) < 2 /\ edit[a].row.routing # None =>
       routing[edit[a].row.routing]
  /\ edit[a].op = "route" /\ Len(todo[a]) < 3 => carriers[edit[a].row.primary].active

VerdictInv == \A a \in Admins \ outrun : Verdict(a)

CatalogueIInv ==
  /\ CatalogueInv /\ DOMAIN todo = Admins
  /\ LeftInv /\ NamesInv /\ VerdictInv

LEMMA CatalogueStart == CatalogueInit => CatalogueIInv
<1> SUFFICES ASSUME CatalogueInit PROVE CatalogueIInv
  OBVIOUS
<1> USE DEF CatalogueInit, Empty
<1>1. CatalogueTypeOK
  BY DEF CatalogueTypeOK, IsTable, Range, Edit
<1>2. CatalogueInv
  BY <1>1 DEF CatalogueInv, NoTwins
<1>3. \A a \in Admins : edit[a].op = "none"
  BY DEF NoEdit
<1>4. QED
  BY <1>2, <1>3 DEF CatalogueIInv, LeftInv, NamesInv, VerdictInv, Verdict

\* Each form's record, and what its checks come to.
LEMMA EditKinds ==
  ASSUME NEW f \in Edit
  PROVE  /\ f.op \in {"none", "delete", "carrier", "client", "entry", "route"}
         /\ f.op = "none" <=> f = NoEdit
         /\ f.op = "delete" => f.group \in RateGroups
         /\ f.op = "carrier" => f.id \in Carriers \cup {None} /\ f.row \in CarrierRow
         /\ f.op = "client" => f.id \in Clients \cup {None} /\ f.row \in ClientRow
         /\ f.op = "entry" => f.id \in EntryIds \cup {None} /\ f.row \in EntryRow
         /\ f.op = "route" => f.id \in RouteIds \cup {None} /\ f.row \in RouteRow
BY DEF Edit, NoEdit

LEMMA Concatenated ==
  ASSUME NEW S, NEW s \in Seq(S), NEW t \in Seq(S), NEW u \in Seq(S), Len(u) = Len(s) + Len(t),
         \A i \in 1 .. Len(u) : u[i] = IF i <= Len(s) THEN s[i] ELSE t[i - Len(s)]
  PROVE  s \o t = u
<1>1. /\ s \o t \in Seq(S) /\ Len(s \o t) = Len(u)
      /\ \A i \in 1 .. Len(u) : (s \o t)[i] = IF i <= Len(s) THEN s[i] ELSE t[i - Len(s)]
  BY ConcatProperties, Zenon
<1>2. \A i \in 1 .. Len(s \o t) : (s \o t)[i] = u[i]
  BY <1>1
<1>3. QED
  BY <1>1, <1>2, SeqEqual, Zenon

\* The provers know short tuples, but not what joining them gives.
LEMMA Joined ==
  ASSUME NEW x, NEW y, NEW z
  PROVE  /\ <<>> \o <<>> = <<>> /\ <<>> \o <<x>> = <<x>> /\ <<x>> \o <<>> = <<x>>
         /\ <<x>> \o <<y>> = <<x, y>> /\ <<x, y>> \o <<z>> = <<x, y, z>>
<1> DEFINE S == {x, y, z}
<1>1. PICK s : s = <<x>>
  OBVIOUS
<1>2. PICK t : t = <<y>>
  OBVIOUS
<1>3. PICK u : u = <<x, y>>
  OBVIOUS
<1>4. PICK v : v = <<z>>
  OBVIOUS
<1>5. PICK w : w = <<x, y, z>>
  OBVIOUS
<1>6. s \in Seq(S) /\ Len(s) = 1 /\ s[1] = x
  BY <1>1
<1>7. t \in Seq(S) /\ Len(t) = 1 /\ t[1] = y
  BY <1>2
<1>8. u \in Seq(S) /\ Len(u) = 2 /\ u[1] = x /\ u[2] = y
  BY <1>3
<1>9. v \in Seq(S) /\ Len(v) = 1 /\ v[1] = z
  BY <1>4
<1>10. w \in Seq(S) /\ Len(w) = 3 /\ w[1] = x /\ w[2] = y /\ w[3] = z
  BY <1>5
<1> HIDE DEF S
<1>11. <<>> \o <<>> = <<>> /\ <<>> \o s = s /\ s \o <<>> = s
  <2>1. <<>> \in Seq(S)
    OBVIOUS
  <2>2. QED
    BY <1>6, <2>1, ConcatEmptySeq, Zenon
<1>12. s \o t = u
  <2>1. \A i \in 1 .. Len(u) : u[i] = IF i <= Len(s) THEN s[i] ELSE t[i - Len(s)]
    BY ONLY <1>6, <1>7, <1>8
  <2>2. Len(u) = Len(s) + Len(t)
    BY <1>6, <1>7, <1>8
  <2>3. QED
    BY <1>6, <1>7, <1>8, <2>1, <2>2, Concatenated, Zenon
<1>13. u \o v = w
  <2>1. \A i \in 1 .. Len(w) : w[i] = IF i <= Len(u) THEN u[i] ELSE v[i - Len(u)]
    BY ONLY <1>8, <1>9, <1>10
  <2>2. Len(w) = Len(u) + Len(v)
    BY <1>8, <1>9, <1>10
  <2>3. QED
    BY <1>8, <1>9, <1>10, <2>1, <2>2, Concatenated, Zenon
<1>14. QED
  BY <1>1, <1>2, <1>3, <1>4, <1>5, <1>11, <1>12, <1>13

LEMMA WholeForm ==
  ASSUME NEW f \in Edit, f # NoEdit
  PROVE  /\ f.op = "delete" => Checks(f) \o <<"write">> = <<"carriers", "clients", "write">>
         /\ f.op = "carrier" => Checks(f) \o <<"write">> =
              IF f.row.rate = None THEN <<"write">> ELSE <<"rate", "write">>
         /\ f.op = "client" => Checks(f) \o <<"write">> =
              IF f.row.rate = None
              THEN IF f.row.routing = None THEN <<"write">> ELSE <<"routing", "write">>
              ELSE IF f.row.routing = None THEN <<"rate", "write">> ELSE <<"rate", "routing", "write">>
         /\ f.op = "entry" => Checks(f) \o <<"write">> = <<"entry", "write">>
         /\ f.op = "route" => Checks(f) \o <<"write">> = <<"primary", "route", "write">>
<1>1. f.op \in {"delete", "carrier", "client", "entry", "route"}
  BY EditKinds
<1>2. CASE f.op = "delete"
  BY <1>2, Joined, Zenon DEF Checks
<1>3. CASE f.op = "carrier"
  BY <1>3, Joined, Zenon DEF Checks
<1>4. CASE f.op = "client"
  <2> DEFINE rate == IF f.row.rate = None THEN <<>> ELSE <<"rate">>
  <2> DEFINE group == IF f.row.routing = None THEN <<>> ELSE <<"routing">>
  <2>1. Checks(f) = rate \o group
    BY <1>4, Zenon DEF Checks
  <2>2. CASE f.row.rate = None /\ f.row.routing = None
    BY <1>4, <2>1, <2>2, Joined, Zenon
  <2>3. CASE f.row.rate = None /\ f.row.routing # None
    BY <1>4, <2>1, <2>3, Joined, Zenon
  <2>4. CASE f.row.rate # None /\ f.row.routing = None
    BY <1>4, <2>1, <2>4, Joined, Zenon
  <2>5. CASE f.row.rate # None /\ f.row.routing # None
    BY <1>4, <2>1, <2>5, Joined, Zenon
  <2>6. QED
    BY <2>2, <2>3, <2>4, <2>5
<1>5. CASE f.op = "entry"
  BY <1>5, Joined, Zenon DEF Checks
<1>6. CASE f.op = "route"
  BY <1>6, Joined, Zenon DEF Checks
<1>7. QED
  BY <1>1, <1>2, <1>3, <1>4, <1>5, <1>6

\* What a form's own step, or that of another, makes of what is left of it.
LEMMA FormMoves ==
  ASSUME CatalogueNext
  PROVE  \/ UNCHANGED <<todo, edit>>
         \/ \E a \in Admins :
              \/ CloseForm(a)
              \/ \E f \in Edit : Submit(a, f)
              \/ Checking(a) /\ todo' = [todo EXCEPT ![a] = Tail(@)] /\ edit' = edit
BY DEF CatalogueNext, EditStep, CheckNext, CheckFailsOpen, RefuseEdit, DeleteRateGroup, WriteCarrier,
       WriteClient, WriteEntry, WriteRoute, CreateRateGroup, DeleteEntry, ToggleCarrierStatus,
       CreateRoutingGroup, UpdateRoutingGroup, ToggleRoutingGroupStatus, DeleteRouteEntry, Alone

LEMMA LeftStep ==
  ASSUME LeftInv, DOMAIN todo = Admins, edit \in [Admins -> Edit],
         \A a \in Admins : todo[a] = <<>> <=> edit[a] = NoEdit,
         CatalogueNext
  PROVE  /\ LeftInv' /\ DOMAIN todo' = Admins /\ edit' \in [Admins -> Edit]
         /\ \A a \in Admins : todo'[a] = <<>> <=> edit'[a] = NoEdit
<1> DEFINE Goal == /\ LeftInv /\ DOMAIN todo = Admins /\ edit \in [Admins -> Edit]
                   /\ \A a \in Admins : todo[a] = <<>> <=> edit[a] = NoEdit
<1>1. CASE UNCHANGED <<todo, edit>>
  BY <1>1 DEF LeftInv
<1>2. ASSUME NEW a \in Admins, CloseForm(a) PROVE Goal'
  <2>1. NoEdit \in Edit /\ NoEdit.op = "none"
    BY DEF Edit, NoEdit
  <2>2. edit' = [edit EXCEPT ![a] = NoEdit] /\ todo' = [todo EXCEPT ![a] = <<>>]
    BY <1>2 DEF CloseForm
  <2>3. LeftInv'
    BY <2>1, <2>2 DEF LeftInv
  <2>4. QED
    BY <2>1, <2>2, <2>3
<1>3. ASSUME NEW a \in Admins, NEW f \in Edit, Submit(a, f) PROVE Goal'
  <2>1. PICK t : t = Checks(f) \o <<"write">>
    OBVIOUS
  <2>2. edit' = [edit EXCEPT ![a] = f] /\ todo' = [todo EXCEPT ![a] = t] /\ f # NoEdit
    BY <1>3, <2>1 DEF Submit, Submittable
  <2>3. f.op \in {"delete", "carrier", "client", "entry", "route"}
    BY <2>2, EditKinds
  <2>4. /\ f.op = "delete" => t = <<"carriers", "clients", "write">>
        /\ f.op = "carrier" => t \in {<<"write">>, <<"rate", "write">>}
        /\ f.op = "client" => IF f.row.routing = None THEN t \in {<<"write">>, <<"rate", "write">>}
                              ELSE t \in {<<"routing", "write">>, <<"rate", "routing", "write">>}
        /\ f.op = "entry" => t = <<"entry", "write">>
        /\ f.op = "route" => t = <<"primary", "route", "write">>
    BY <2>1, <2>2, WholeForm
  <2>5. t # <<>>
    BY <2>3, <2>4
  <2>6. LeftInv'
    BY <2>2, <2>3, <2>4 DEF LeftInv
  <2>7. QED
    BY <2>2, <2>5, <2>6
<1>4. ASSUME NEW a \in Admins, Checking(a), todo' = [todo EXCEPT ![a] = Tail(@)], edit' = edit PROVE Goal'
  <2>1. PICK t : t = todo[a]
    OBVIOUS
  <2>2. t # <<>> /\ Head(t) # "write" /\ todo' = [todo EXCEPT ![a] = Tail(t)]
    BY <1>4, <2>1 DEF Checking
  <2>3. edit[a].op \in {"delete", "carrier", "client", "entry", "route"}
    BY <2>1, <2>2, EditKinds DEF LeftInv
  <2>4. t # <<"write">>
    BY <2>2
  <2>5. /\ edit[a].op = "delete" => Tail(t) \in {<<"clients", "write">>, <<"write">>}
        /\ edit[a].op = "carrier" => Tail(t) = <<"write">>
        /\ edit[a].op = "client" => IF edit[a].row.routing = None THEN Tail(t) = <<"write">>
                                    ELSE Tail(t) \in {<<"routing", "write">>, <<"write">>}
        /\ edit[a].op = "entry" => Tail(t) = <<"write">>
        /\ edit[a].op = "route" => Tail(t) \in {<<"route", "write">>, <<"write">>}
    <3>1. /\ \A x, y : Tail(<<x, y>>) = <<y>>
          /\ Tail(<<"carriers", "clients", "write">>) = <<"clients", "write">>
          /\ Tail(<<"rate", "routing", "write">>) = <<"routing", "write">>
          /\ Tail(<<"primary", "route", "write">>) = <<"route", "write">>
      OBVIOUS
    <3>2. CASE edit[a].op = "delete"
      <4>1. t \in {<<"carriers", "clients", "write">>, <<"clients", "write">>}
        BY <2>1, <2>4, <3>2 DEF LeftInv
      <4>2. QED
        BY <3>1, <3>2, <4>1
    <3>3. CASE edit[a].op = "carrier"
      <4>1. t = <<"rate", "write">>
        BY <2>1, <2>4, <3>3 DEF LeftInv
      <4>2. QED
        BY <3>1, <3>3, <4>1
    <3>4. CASE edit[a].op = "client"
      <4>1. IF edit[a].row.routing = None THEN t = <<"rate", "write">>
            ELSE t \in {<<"rate", "routing", "write">>, <<"routing", "write">>}
        BY <2>1, <2>4, <3>4 DEF LeftInv
      <4>2. QED
        BY <3>1, <3>4, <4>1
    <3>5. CASE edit[a].op = "entry"
      BY <2>1, <2>4, <3>1, <3>5 DEF LeftInv
    <3>6. CASE edit[a].op = "route"
      <4>1. t \in {<<"primary", "route", "write">>, <<"route", "write">>}
        BY <2>1, <2>4, <3>6 DEF LeftInv
      <4>2. QED
        BY <3>1, <3>6, <4>1
    <3>7. QED
      BY <2>3, <3>2, <3>3, <3>4, <3>5, <3>6
  <2>6. Tail(t) # <<>>
    BY <2>3, <2>5
  <2>7. PICK n : n = Tail(t)
    OBVIOUS
  <2>8. LeftInv'
    BY <1>4, <2>2, <2>3, <2>5, <2>7 DEF LeftInv
  <2>9. QED
    BY <1>4, <2>2, <2>3, <2>6, <2>7, <2>8, EditKinds
<1>5. QED
  BY <1>1, <1>2, <1>3, <1>4, FormMoves

\* Whatever moves, the references and the keys of the tables hold.
TablesInv ==
  /\ rateGroups \cap gone = {} /\ rateGroups \cup gone \subseteq RateGroups
  /\ IsTable(entries, EntryIds, EntryRow) /\ IsTable(carriers, Carriers, CarrierRow)
  /\ IsTable(clients, Clients, ClientRow) /\ IsTable(routing, RoutingGroups, BOOLEAN)
  /\ IsTable(routes, RouteIds, RouteRow)
  /\ \A k \in DOMAIN carriers : carriers[k].rate \in rateGroups \cup {None}
  /\ \A c \in DOMAIN clients : /\ clients[c].rate \in rateGroups \cup {None}
                               /\ clients[c].routing \in DOMAIN routing \cup {None}
  /\ \A i \in DOMAIN entries : entries[i].group \in rateGroups
  /\ \A i \in DOMAIN routes : /\ routes[i].group \in DOMAIN routing
                              /\ routes[i].primary \in DOMAIN carriers
  /\ NoTwins(entries) /\ NoTwins(routes)

\* ON DELETE SET NULL leaves the other fields, and no reference.
LEMMA UnassignedTable ==
  ASSUME NEW f, NEW keys, NEW g, NEW rows, IsTable(f, keys, rows),
         \A row \in rows : [row EXCEPT !.rate = None] \in rows
  PROVE  /\ IsTable(Unassigned(f, g), keys, rows) /\ DOMAIN Unassigned(f, g) = DOMAIN f
         /\ \A x \in DOMAIN f : Unassigned(f, g)[x] = f[x] \/ Unassigned(f, g)[x] = [f[x] EXCEPT !.rate = None]
         /\ \A x \in DOMAIN f : f[x].rate = g => Unassigned(f, g)[x] = [f[x] EXCEPT !.rate = None]
BY DEF Unassigned, IsTable, Range

LEMMA FreedRows ==
  /\ \A row \in CarrierRow : [row EXCEPT !.rate = None] \in CarrierRow /\ [row EXCEPT !.rate = None].rate = None
                             /\ [row EXCEPT !.rate = None].active = row.active
  /\ \A row \in ClientRow : [row EXCEPT !.rate = None] \in ClientRow /\ [row EXCEPT !.rate = None].rate = None
                            /\ [row EXCEPT !.rate = None].routing = row.routing
BY DEF CarrierRow, ClientRow, Rate

LEMMA TablesStep ==
  ASSUME TablesInv, NamesInv, edit \in [Admins -> Edit], CatalogueNext
  PROVE  TablesInv' /\ DOMAIN routing \subseteq DOMAIN routing' /\ DOMAIN carriers \subseteq DOMAIN carriers'
<1> USE DEF TablesInv
<1> DEFINE Goal == TablesInv' /\ DOMAIN routing \subseteq DOMAIN routing' /\ DOMAIN carriers \subseteq DOMAIN carriers'
<1>n. /\ None \notin RateGroups /\ None \notin Carriers /\ None \notin Clients /\ None \notin RoutingGroups
      /\ None \notin EntryIds /\ None \notin RouteIds
  BY CatalogueAssumption
<1>t. /\ IsTable(entries, EntryIds, EntryRow) /\ IsTable(carriers, Carriers, CarrierRow)
      /\ IsTable(clients, Clients, ClientRow) /\ IsTable(routing, RoutingGroups, BOOLEAN)
      /\ IsTable(routes, RouteIds, RouteRow)
  OBVIOUS
<1>1. ASSUME NEW a \in Admins, DeleteRateGroup(a) PROVE Goal
  <2>1. PICK g : g = edit[a].group
    OBVIOUS
  <2>2. /\ \A i \in DOMAIN entries : entries[i].group # g
        /\ rateGroups' = rateGroups \ {g} /\ gone' = gone \cup {g}
        /\ carriers' = Unassigned(carriers, g) /\ clients' = Unassigned(clients, g)
        /\ UNCHANGED <<entries, routing, routes>>
    BY <1>1, <2>1 DEF DeleteRateGroup
  <2>3. g \in RateGroups
    BY <1>1, <2>1, EditKinds DEF DeleteRateGroup, Writing
  <2>4. /\ IsTable(carriers', Carriers, CarrierRow) /\ DOMAIN carriers' = DOMAIN carriers
        /\ \A x \in DOMAIN carriers : carriers'[x] = carriers[x] \/ carriers'[x] = [carriers[x] EXCEPT !.rate = None]
        /\ \A x \in DOMAIN carriers : carriers[x].rate = g => carriers'[x] = [carriers[x] EXCEPT !.rate = None]
    BY <1>t, <2>2 DEF Unassigned, IsTable, Range, CarrierRow, ClientRow, Rate
  <2>5. /\ IsTable(clients', Clients, ClientRow) /\ DOMAIN clients' = DOMAIN clients
        /\ \A x \in DOMAIN clients : clients'[x] = clients[x] \/ clients'[x] = [clients[x] EXCEPT !.rate = None]
        /\ \A x \in DOMAIN clients : clients[x].rate = g => clients'[x] = [clients[x] EXCEPT !.rate = None]
    BY <1>t, <2>2 DEF Unassigned, IsTable, Range, CarrierRow, ClientRow, Rate
  <2>6. \A k \in DOMAIN carriers' : carriers'[k].rate \in rateGroups' \cup {None}
    <3>1. \A k \in DOMAIN carriers : carriers[k] \in CarrierRow
      BY DEF IsTable, Range
    <3>2. QED
      <4>1. \A k \in DOMAIN carriers : [carriers[k] EXCEPT !.rate = None].rate = None
        BY <3>1 DEF CarrierRow
      <4>2. ASSUME NEW k \in DOMAIN carriers
            PROVE  carriers'[k].rate \in {None, carriers[k].rate} \ {g}
        <5>1. g # None
          BY <1>n, <2>3
        <5>2. CASE carriers'[k] = [carriers[k] EXCEPT !.rate = None]
          BY <4>1, <5>1, <5>2
        <5>3. CASE carriers'[k] = carriers[k] /\ carriers[k].rate # g
          BY <5>3
        <5>4. QED
          BY <2>4, <5>2, <5>3
      <4>3. QED
        BY <2>2, <2>4, <4>2
  <2>7. \A c \in DOMAIN clients' : /\ clients'[c].rate \in rateGroups' \cup {None}
                                   /\ clients'[c].routing \in DOMAIN routing' \cup {None}
    <3>1. \A c \in DOMAIN clients : clients[c] \in ClientRow
      BY DEF IsTable, Range
    <3>2. QED
      <4>1. \A c \in DOMAIN clients : LET freed == [clients[c] EXCEPT !.rate = None]
                                       IN freed.rate = None /\ freed.routing = clients[c].routing
        BY <3>1 DEF ClientRow
      <4>2. ASSUME NEW c \in DOMAIN clients
            PROVE  clients'[c].rate \in {None, clients[c].rate} \ {g} /\ clients'[c].routing = clients[c].routing
        <5>1. g # None
          BY <1>n, <2>3
        <5>2. CASE clients'[c] = [clients[c] EXCEPT !.rate = None]
          BY <4>1, <5>1, <5>2
        <5>3. CASE clients'[c] = clients[c] /\ clients[c].rate # g
          BY <5>3
        <5>4. QED
          BY <2>5, <5>2, <5>3
      <4>3. QED
        BY <2>2, <2>5, <4>2
  <2>8. QED
    BY <2>2, <2>3, <2>4, <2>5, <2>6, <2>7
<1>2. ASSUME NEW a \in Admins, NEW k \in Carriers, WriteCarrier(a, k) PROVE Goal
  <2>1. edit[a].row \in CarrierRow /\ edit[a].row.rate \in rateGroups \cup {None}
    BY <1>2, EditKinds DEF WriteCarrier, Writing
  <2>2. carriers' = Stored(carriers, k, edit[a].row)
        /\ UNCHANGED <<rateGroups, gone, entries, clients, routing, routes>>
    BY <1>2 DEF WriteCarrier
  <2>3. /\ IsTable(carriers', Carriers, CarrierRow) /\ DOMAIN carriers' = DOMAIN carriers \cup {k}
        /\ carriers'[k] = edit[a].row /\ \A x \in DOMAIN carriers \ {k} : carriers'[x] = carriers[x]
    BY <1>t, <2>1, <2>2 DEF Stored, IsTable, Range
  <2>4. QED
    BY <2>1, <2>2, <2>3
<1>3. ASSUME NEW a \in Admins, NEW c \in Clients, WriteClient(a, c) PROVE Goal
  <2>1. /\ edit[a].row \in ClientRow /\ edit[a].row.rate \in rateGroups \cup {None}
        /\ edit[a].row.routing \in DOMAIN routing \cup {None}
    BY <1>3, EditKinds DEF WriteClient, Writing, NamesInv
  <2>2. clients' = Stored(clients, c, edit[a].row)
        /\ UNCHANGED <<rateGroups, gone, entries, carriers, routing, routes>>
    BY <1>3 DEF WriteClient
  <2>3. /\ IsTable(clients', Clients, ClientRow) /\ DOMAIN clients' = DOMAIN clients \cup {c}
        /\ clients'[c] = edit[a].row /\ \A x \in DOMAIN clients \ {c} : clients'[x] = clients[x]
    BY <1>t, <2>1, <2>2 DEF Stored, IsTable, Range
  <2>4. QED
    BY <2>1, <2>2, <2>3
<1>4. ASSUME NEW a \in Admins, NEW i \in EntryIds, WriteEntry(a, i) PROVE Goal
  <2>1. /\ edit[a].row \in EntryRow /\ edit[a].row.group \in rateGroups
        /\ KeyFor(edit[a].id, i, entries) /\ Storable(entries, edit[a].id, edit[a].row)
    BY <1>4, EditKinds DEF WriteEntry, Writing
  <2>2. entries' = Stored(entries, i, edit[a].row)
        /\ UNCHANGED <<rateGroups, gone, carriers, clients, routing, routes>>
    BY <1>4 DEF WriteEntry
  <2>3. /\ IsTable(entries', EntryIds, EntryRow) /\ DOMAIN entries' = DOMAIN entries \cup {i}
        /\ entries'[i] = edit[a].row /\ \A x \in DOMAIN entries \ {i} : entries'[x] = entries[x]
    BY <1>t, <2>1, <2>2 DEF Stored, IsTable, Range
  <2>4. NoTwins(entries')
    BY <1>n, <2>1, <2>2, StoredIsNoTwin
  <2>5. QED
    BY <2>1, <2>2, <2>3, <2>4
<1>5. ASSUME NEW a \in Admins, NEW i \in RouteIds, WriteRoute(a, i) PROVE Goal
  <2>1. /\ edit[a].row \in RouteRow
        /\ edit[a].row.group \in DOMAIN routing /\ edit[a].row.primary \in DOMAIN carriers
        /\ KeyFor(edit[a].id, i, routes) /\ Storable(routes, edit[a].id, edit[a].row)
    BY <1>5, EditKinds DEF WriteRoute, Writing, NamesInv
  <2>2. routes' = Stored(routes, i, edit[a].row)
        /\ UNCHANGED <<rateGroups, gone, entries, carriers, clients, routing>>
    BY <1>5 DEF WriteRoute
  <2>3. /\ IsTable(routes', RouteIds, RouteRow) /\ DOMAIN routes' = DOMAIN routes \cup {i}
        /\ routes'[i] = edit[a].row /\ \A x \in DOMAIN routes \ {i} : routes'[x] = routes[x]
    BY <1>t, <2>1, <2>2 DEF Stored, IsTable, Range
  <2>4. NoTwins(routes')
    BY <1>n, <2>1, <2>2, StoredIsNoTwin
  <2>5. QED
    BY <2>1, <2>2, <2>3, <2>4
<1>6. ASSUME NEW g \in RateGroups, CreateRateGroup(g) PROVE Goal
  BY <1>6 DEF CreateRateGroup
<1>7. ASSUME NEW i \in EntryIds, DeleteEntry(i) PROVE Goal
  <2>1. PICK S : S = DOMAIN entries \ {i}
    OBVIOUS
  <2>2. entries' = Restrict(entries, S) /\ UNCHANGED <<rateGroups, gone, carriers, clients, routing, routes>>
    BY <1>7, <2>1 DEF DeleteEntry
  <2>3. /\ IsTable(entries', EntryIds, EntryRow) /\ DOMAIN entries' = S
        /\ \A x \in S : entries'[x] = entries[x]
    BY <1>t, <2>1, <2>2 DEF Restrict, IsTable, Range
  <2>4. NoTwins(entries')
    BY <2>1, <2>2, RestrictedHasNoTwins
  <2>5. QED
    BY <2>1, <2>2, <2>3, <2>4
<1>8. ASSUME NEW k \in Carriers, ToggleCarrierStatus(k) PROVE Goal
  <2>1. carriers[k] \in CarrierRow
    BY <1>8 DEF ToggleCarrierStatus, IsTable, Range
  <2>2. PICK row : row = [carriers[k] EXCEPT !.active = ~@]
    OBVIOUS
  <2>3. row \in CarrierRow /\ row.rate = carriers[k].rate
    BY <2>1, <2>2 DEF CarrierRow
  <2>4. carriers' = [carriers EXCEPT ![k] = row] /\ UNCHANGED <<rateGroups, gone, entries, clients, routing, routes>>
    BY <1>8, <2>2 DEF ToggleCarrierStatus
  <2>5. IsTable(carriers', Carriers, CarrierRow) /\ DOMAIN carriers' = DOMAIN carriers
    BY <2>3, <2>4, UpdatedTable
  <2>6. \A x \in DOMAIN carriers : carriers'[x].rate = carriers[x].rate
    BY <1>8, <2>3, <2>4
  <2>7. QED
    BY <2>4, <2>5, <2>6
<1>9. ASSUME NEW r \in RoutingGroups, NEW b \in BOOLEAN, CreateRoutingGroup(r, b) PROVE Goal
  <2>1. routing' = Stored(routing, r, b) /\ UNCHANGED <<rateGroups, gone, entries, carriers, clients, routes>>
    BY <1>9 DEF CreateRoutingGroup
  <2>2. IsTable(routing', RoutingGroups, BOOLEAN) /\ DOMAIN routing' = DOMAIN routing \cup {r}
    BY <1>t, <2>1 DEF Stored, IsTable, Range
  <2>3. QED
    BY <2>1, <2>2
<1>10. ASSUME NEW r \in RoutingGroups, NEW b \in BOOLEAN, UpdateRoutingGroup(r, b) PROVE Goal
  <2>1. routing' = [routing EXCEPT ![r] = b] /\ UNCHANGED <<rateGroups, gone, entries, carriers, clients, routes>>
    BY <1>10 DEF UpdateRoutingGroup
  <2>2. IsTable(routing', RoutingGroups, BOOLEAN) /\ DOMAIN routing' = DOMAIN routing
    BY <2>1, UpdatedTable
  <2>3. QED
    BY <2>1, <2>2
<1>11. ASSUME NEW r \in RoutingGroups, ToggleRoutingGroupStatus(r) PROVE Goal
  <2>1. PICK b \in BOOLEAN : b = ~routing[r]
    OBVIOUS
  <2>2. UpdateRoutingGroup(r, b)
    BY <1>11, <2>1 DEF ToggleRoutingGroupStatus
  <2>3. QED
    BY <1>10, <2>2
<1>12. ASSUME NEW i \in RouteIds, DeleteRouteEntry(i) PROVE Goal
  <2>1. PICK S : S = DOMAIN routes \ {i}
    OBVIOUS
  <2>2. routes' = Restrict(routes, S) /\ UNCHANGED <<rateGroups, gone, entries, carriers, clients, routing>>
    BY <1>12, <2>1 DEF DeleteRouteEntry
  <2>3. /\ IsTable(routes', RouteIds, RouteRow) /\ DOMAIN routes' = S
        /\ \A x \in S : routes'[x] = routes[x]
    BY <1>t, <2>1, <2>2 DEF Restrict, IsTable, Range
  <2>4. NoTwins(routes')
    BY <2>1, <2>2, RestrictedHasNoTwins
  <2>5. QED
    BY <2>1, <2>2, <2>3, <2>4
<1>13. ASSUME NEW a \in Admins, (\E f \in Edit : Submit(a, f)) \/ CheckNext(a) \/ CheckFailsOpen(a) \/ RefuseEdit(a)
       PROVE  Goal
  BY <1>13 DEF Submit, CheckNext, CheckFailsOpen, RefuseEdit, tables
<1>14. QED
  BY <1>1, <1>2, <1>3, <1>4, <1>5, <1>6, <1>7, <1>8, <1>9, <1>10, <1>11, <1>12, <1>13 DEF CatalogueNext, EditStep

LEMMA NamesStep ==
  ASSUME NamesInv, DOMAIN todo = Admins, edit \in [Admins -> Edit], CatalogueNext,
         DOMAIN routing \subseteq DOMAIN routing', DOMAIN carriers \subseteq DOMAIN carriers'
  PROVE  NamesInv'
<1> USE DEF NamesInv
<1>1. CASE UNCHANGED <<todo, edit>>
  BY <1>1
<1>2. ASSUME NEW a \in Admins, CloseForm(a) PROVE NamesInv'
  <2>1. edit' = [edit EXCEPT ![a] = NoEdit] /\ NoEdit.op = "none"
    BY <1>2 DEF CloseForm, NoEdit
  <2>2. QED
    BY <2>1
<1>3. ASSUME NEW a \in Admins, NEW f \in Edit, Submit(a, f) PROVE NamesInv'
  <2>1. edit' = [edit EXCEPT ![a] = f] /\ Submittable(f)
    BY <1>3 DEF Submit
  <2>2. QED
    BY <2>1 DEF Submittable
<1>4. QED
  BY <1>1, <1>2, <1>3, FormMoves

LEMMA Lengths ==
  /\ Len(<<"carriers", "clients", "write">>) = 3 /\ Len(<<"rate", "routing", "write">>) = 3
  /\ Len(<<"primary", "route", "write">>) = 3
  /\ Len(<<"clients", "write">>) = 2 /\ Len(<<"rate", "write">>) = 2 /\ Len(<<"routing", "write">>) = 2
  /\ Len(<<"route", "write">>) = 2 /\ Len(<<"entry", "write">>) = 2
  /\ Len(<<"write">>) = 1 /\ Len(<<>>) = 0
OBVIOUS

\* A form with a verdict is under way, and what its verdict rests on is a key.
LEMMA Relied ==
  ASSUME LeftInv, edit \in [Admins -> Edit], NEW b \in Admins
  PROVE  /\ edit[b].op = "delete" /\ Len(todo[b]) < 3 =>
              UnderWay(b) /\ Reads(edit[b]) = {edit[b].group} /\ edit[b].group # None
         /\ edit[b].op = "client" /\ Len(todo[b]) < 2 /\ edit[b].row.routing # None =>
              UnderWay(b) /\ Reads(edit[b]) = {edit[b].row.routing}
         /\ edit[b].op = "route" /\ Len(todo[b]) < 3 =>
              UnderWay(b) /\ Reads(edit[b]) = {edit[b].row.primary} /\ edit[b].row.primary # None
<1>0. PICK f, t : f \in Edit /\ f = edit[b] /\ t = todo[b]
  OBVIOUS
<1>1. CASE f.op = "delete"
  <2>1. f # NoEdit /\ f.group # None /\ Reads(f) = {f.group}
    BY <1>0, <1>1, EditKinds, CatalogueAssumption DEF Reads
  <2>2. PICK w : w = Checks(f) \o <<"write">> /\ Len(w) = 3
    BY <1>0, <1>1, <2>1, WholeForm, Lengths
  <2>3. t \in {<<"carriers", "clients", "write">>, <<"clients", "write">>, <<"write">>}
    BY <1>0, <1>1 DEF LeftInv
  <2>4. t # <<>>
    <3>1. Len(t) # 0
      <4>1. CASE t = <<"carriers", "clients", "write">>
        BY <4>1, Lengths
      <4>2. CASE t = <<"clients", "write">>
        BY <4>2, Lengths
      <4>3. CASE t = <<"write">>
        BY <4>3, Lengths
      <4>4. QED
        BY <2>3, <4>1, <4>2, <4>3
    <3>2. QED
      BY <3>1, Lengths
  <2>5. Len(t) < 3 => UnderWay(b)
    BY <1>0, <2>2, <2>4 DEF UnderWay
  <2>6. QED
    BY <1>0, <1>1, <2>1, <2>5
<1>2. CASE f.op = "client"
  <2>1. f # NoEdit /\ Reads(f) = {f.row.routing}
    BY <1>0, <1>2, EditKinds DEF Reads
  <2> SUFFICES ASSUME f.row.routing # None, Len(t) < 2 PROVE UnderWay(b)
    BY <1>0, <1>2, <2>1
  <2>2. PICK w : w = Checks(f) \o <<"write">> /\ Len(w) \in {2, 3}
    BY <1>0, <1>2, <2>1, WholeForm, Lengths
  <2>3. t \in {<<"rate", "routing", "write">>, <<"routing", "write">>, <<"write">>}
    BY <1>0, <1>2 DEF LeftInv
  <2>4. t # <<>>
    <3>1. CASE t = <<"rate", "routing", "write">>
      BY ONLY <3>1, Lengths
    <3>2. CASE t = <<"routing", "write">>
      BY ONLY <3>2, Lengths
    <3>3. CASE t = <<"write">>
      BY ONLY <3>3, Lengths
    <3>4. QED
      BY <2>3, <3>1, <3>2, <3>3
  <2>5. QED
    BY <1>0, <2>2, <2>4 DEF UnderWay
<1>3. CASE f.op = "route"
  <2>1. f # NoEdit /\ f.row \in RouteRow
    BY <1>0, <1>3, EditKinds
  <2>2. Reads(f) = {f.row.primary} /\ f.row.primary # None
    BY <1>3, <2>1, CatalogueAssumption DEF Reads, RouteRow
  <2>3. PICK w : w = Checks(f) \o <<"write">> /\ Len(w) = 3
    BY <1>0, <1>3, <2>1, WholeForm, Lengths
  <2>4. t \in {<<"primary", "route", "write">>, <<"route", "write">>, <<"write">>}
    BY <1>0, <1>3 DEF LeftInv
  <2>5. t # <<>>
    <3>1. Len(t) # 0
      <4>1. CASE t = <<"primary", "route", "write">>
        BY <4>1, Lengths
      <4>2. CASE t = <<"route", "write">>
        BY <4>2, Lengths
      <4>3. CASE t = <<"write">>
        BY <4>3, Lengths
      <4>4. QED
        BY <2>4, <4>1, <4>2, <4>3
    <3>2. QED
      BY <3>1, Lengths
  <2>6. Len(t) < 3 => UnderWay(b)
    BY <1>0, <2>3, <2>5 DEF UnderWay
  <2>7. QED
    BY <1>0, <1>3, <2>2, <2>6
<1>4. QED
  BY <1>0, <1>1, <1>2, <1>3

\* A write leaves the verdicts of the forms it does not overtake.
LEMMA VerdictKept ==
  ASSUME TablesInv, LeftInv, NamesInv, VerdictInv, edit \in [Admins -> Edit],
         NEW a, NEW rows, Writes(a, rows),
         NEW b \in Admins \ outrun', b # a, edit'[b] = edit[b], todo'[b] = todo[b],
         \A g \in RateGroups \ rows : CarrierRefs(g) = {} => CarrierRefs(g)' = {},
         \A g \in RateGroups \ rows : ClientRefs(g) = {} => ClientRefs(g)' = {},
         \A r \in DOMAIN routing \ rows : routing'[r] = routing[r],
         \A k \in DOMAIN carriers \ rows : carriers'[k].active = carriers[k].active
  PROVE  Verdict(b)'
<1>1. b \notin outrun /\ (UnderWay(b) => Reads(edit[b]) \cap (rows \ {None}) = {})
  BY DEF Writes
<1>2. Verdict(b)
  BY <1>1 DEF VerdictInv
<1>3. CASE edit[b].op = "delete" /\ Len(todo[b]) < 3
  <2>1. PICK g \in RateGroups : g = edit[b].group
    BY <1>3, EditKinds
  <2>2. g \notin rows
    BY <1>1, <1>3, <2>1, Relied
  <2>3. CarrierRefs(g) = {} /\ (Len(todo[b]) < 2 => ClientRefs(g) = {})
    BY <1>2, <1>3, <2>1 DEF Verdict
  <2>4. CarrierRefs(g)' = {} /\ (Len(todo[b]) < 2 => ClientRefs(g)' = {})
    BY <2>2, <2>3
  <2>5. edit'[b].op = "delete" /\ edit'[b].group = g
    BY <1>3, <2>1
  <2>6. QED
    BY <2>4, <2>5 DEF Verdict
<1>4. CASE edit[b].op = "client" /\ Len(todo[b]) < 2 /\ edit[b].row.routing # None
  <2>1. edit[b].row.routing \in DOMAIN routing \ rows
    BY <1>1, <1>4, Relied DEF NamesInv
  <2>2. QED
    BY <1>2, <1>4, <2>1 DEF Verdict
<1>5. CASE edit[b].op = "route" /\ Len(todo[b]) < 3
  <2>1. edit[b].row.primary \in DOMAIN carriers \ rows
    BY <1>1, <1>5, Relied DEF NamesInv
  <2>2. QED
    BY <1>2, <1>5, <2>1 DEF Verdict
<1>6. QED
  <2>1. edit[b].op = "delete" /\ Len(todo[b]) < 2 => Len(todo[b]) < 3
    BY DEF LeftInv
  <2>2. QED
    BY <1>3, <1>4, <1>5, <2>1 DEF Verdict

LEMMA VerdictStep ==
  ASSUME TablesInv, LeftInv, NamesInv, VerdictInv, edit \in [Admins -> Edit], DOMAIN todo = Admins,
         CatalogueNext, LeftInv'
  PROVE  VerdictInv'
<1>i. None \notin Admins /\ None \notin RateGroups
  BY CatalogueAssumption
\* A form that is closed relies on nothing any more.
<1>c. ASSUME NEW a \in Admins, CloseForm(a) PROVE Verdict(a)'
  <2>1. edit'[a].op = "none"
    BY <1>c DEF CloseForm, NoEdit
  <2>2. QED
    BY <2>1 DEF Verdict
\* Forms left alone.
<1>w. ASSUME NEW a \in Admins, NEW rows, Writes(a, rows), CloseForm(a),
             \A g \in RateGroups \ rows : CarrierRefs(g) = {} => CarrierRefs(g)' = {},
             \A g \in RateGroups \ rows : ClientRefs(g) = {} => ClientRefs(g)' = {},
             \A r \in DOMAIN routing \ rows : routing'[r] = routing[r],
             \A k \in DOMAIN carriers \ rows : carriers'[k].active = carriers[k].active
      PROVE  VerdictInv'
  <2>1. ASSUME NEW b \in Admins \ outrun', b # a PROVE Verdict(b)'
    <3>1. edit'[b] = edit[b] /\ todo'[b] = todo[b]
      BY <1>w, <2>1 DEF CloseForm
    <3>2. QED
      BY <1>w, <2>1, <3>1, VerdictKept
  <2>2. QED
    BY <1>c, <1>w, <2>1 DEF VerdictInv
<1>l. ASSUME NEW rows, Alone(rows),
             \A g \in RateGroups \ rows : CarrierRefs(g) = {} => CarrierRefs(g)' = {},
             \A g \in RateGroups \ rows : ClientRefs(g) = {} => ClientRefs(g)' = {},
             \A r \in DOMAIN routing \ rows : routing'[r] = routing[r],
             \A k \in DOMAIN carriers \ rows : carriers'[k].active = carriers[k].active
      PROVE  VerdictInv'
  <2>1. ASSUME NEW b \in Admins \ outrun' PROVE Verdict(b)'
    <3>1. edit'[b] = edit[b] /\ todo'[b] = todo[b] /\ Writes(None, rows) /\ b # None
      BY <1>i, <1>l DEF Alone
    <3>2. QED
      BY <1>l, <2>1, <3>1, VerdictKept
  <2>2. QED
    BY <2>1 DEF VerdictInv
<1>s. ASSUME NEW b \in Admins, edit'[b] = edit[b], todo'[b] = todo[b], b \notin outrun' => b \notin outrun,
             UNCHANGED tables
      PROVE  b \notin outrun' => Verdict(b)'
  BY <1>s DEF VerdictInv, Verdict, tables, CarrierRefs, ClientRefs
<1>1. ASSUME NEW a \in Admins, NEW f \in Edit, Submit(a, f) PROVE VerdictInv'
  <2>1. Verdict(a)'
    <3>1. PICK t : t = Checks(f) \o <<"write">>
      OBVIOUS
    <3>2. edit'[a] = f /\ todo'[a] = t /\ f # NoEdit
      BY <1>1, <3>1 DEF Submit, Submittable
    <3>3. /\ f.op = "delete" => Len(t) = 3
          /\ f.op = "client" /\ f.row.routing # None => Len(t) \in {2, 3}
          /\ f.op = "route" => Len(t) = 3
      BY <3>1, <3>2, WholeForm, Lengths
    <3>4. /\ f.op = "delete" => ~(Len(t) < 3) /\ ~(Len(t) < 2)
          /\ f.op = "client" /\ f.row.routing # None => ~(Len(t) < 2)
          /\ f.op = "route" => ~(Len(t) < 3)
      <4>1. \A n : n = 3 => ~(n < 3) /\ ~(n < 2)
        OBVIOUS
      <4>2. \A n : n \in {2, 3} => ~(n < 2)
        OBVIOUS
      <4>3. QED
        BY <3>3, <4>1, <4>2, Zenon
    <3>5. QED
      BY <3>2, <3>4, Zenon DEF Verdict
  <2>2. QED
    BY <1>1, <1>s, <2>1 DEF Submit, VerdictInv
<1>2. ASSUME NEW a \in Admins, RefuseEdit(a) PROVE VerdictInv'
  BY <1>2, <1>c, <1>s DEF RefuseEdit, CloseForm, VerdictInv
<1>3. ASSUME NEW a \in Admins, Checking(a), todo' = [todo EXCEPT ![a] = Tail(@)], UNCHANGED <<tables, edit, outrun>>,
             Passes(Head(todo[a]), edit[a]) \/ Head(todo[a]) \in {"entry", "route"}
      PROVE  VerdictInv'
  <2>1. ASSUME a \notin outrun PROVE Verdict(a)'
    <3>1. PICK f, t : f \in Edit /\ f = edit[a] /\ t = todo[a]
      OBVIOUS
    <3>2. t # <<>> /\ Head(t) # "write" /\ todo'[a] = Tail(t) /\ edit'[a] = f
      BY <1>3, <3>1 DEF Checking
    <3>3. Verdict(a)
      BY <2>1 DEF VerdictInv
    <3>4. CASE f.op = "delete"
      <4>1. \/ t = <<"carriers", "clients", "write">> /\ CarrierRefs(f.group) = {} /\ Len(Tail(t)) = 2
            \/ t = <<"clients", "write">> /\ CarrierRefs(f.group) = {} /\ ClientRefs(f.group) = {}
        <5>1. CASE t = <<"carriers", "clients", "write">>
          BY <1>3, <3>1, <5>1 DEF Passes
        <5>2. CASE t = <<"clients", "write">>
          BY <1>3, <3>1, <3>3, <3>4, <5>2, Lengths DEF Passes, Verdict
        <5>3. CASE t = <<"write">>
          BY <3>2, <5>3
        <5>4. QED
          BY <3>1, <3>4, <5>1, <5>2, <5>3 DEF LeftInv
      <4>2. CarrierRefs(f.group)' = CarrierRefs(f.group) /\ ClientRefs(f.group)' = ClientRefs(f.group)
        BY <1>3 DEF tables, CarrierRefs, ClientRefs
      <4>3. f.op # "client" /\ f.op # "route"
        BY <3>4
      <4>4. CarrierRefs(f.group)' = {} /\ (Len(Tail(t)) < 2 => ClientRefs(f.group)' = {})
        <5>1. CarrierRefs(f.group) = {} /\ (Len(Tail(t)) = 2 \/ ClientRefs(f.group) = {})
          BY <4>1
        <5>2. \A n : n = 2 => ~(n < 2)
          OBVIOUS
        <5>3. QED
          BY <4>2, <5>1, <5>2, Zenon
      <4>5. CarrierRefs(edit[a].group)' = {} /\ (Len(Tail(t)) < 2 => ClientRefs(edit[a].group)' = {})
        BY <3>2, <4>4, Zenon
      <4>6. QED
        BY <3>2, <4>3, <4>5, Zenon DEF Verdict
    <3>5. CASE f.op = "client"
      <4>1. ASSUME f.row.routing # None, Len(Tail(t)) < 2 PROVE routing[f.row.routing]
        <5>1. CASE t = <<"rate", "routing", "write">>
          BY <4>1, <5>1
        <5>2. CASE t = <<"routing", "write">>
          BY <1>3, <3>1, <5>2 DEF Passes
        <5>3. CASE t = <<"write">>
          BY <3>2, <5>3
        <5>4. QED
          BY <3>1, <3>5, <4>1, <5>1, <5>2, <5>3 DEF LeftInv
      <4>2. QED
        BY <1>3, <3>2, <3>5, <4>1 DEF Verdict, tables
    <3>6. CASE f.op = "route"
      <4>1. carriers[f.row.primary].active
        <5>1. CASE t = <<"primary", "route", "write">>
          BY <1>3, <3>1, <5>1 DEF Passes
        <5>2. CASE t = <<"route", "write">>
          BY <3>1, <3>3, <3>6, <5>2, Lengths DEF Verdict
        <5>3. CASE t = <<"write">>
          BY <3>2, <5>3
        <5>4. QED
          BY <3>1, <3>6, <5>1, <5>2, <5>3 DEF LeftInv
      <4>2. QED
        BY <1>3, <3>2, <3>6, <4>1 DEF Verdict, tables
    <3>7. QED
      BY <3>2, <3>4, <3>5, <3>6 DEF Verdict
  <2>2. QED
    BY <1>3, <1>s, <2>1 DEF VerdictInv
<1>4. ASSUME NEW a \in Admins, DeleteRateGroup(a) PROVE VerdictInv'
  <2>1. PICK g, rows : g = edit[a].group /\ rows = {g} \cup CarrierRefs(g) \cup ClientRefs(g)
    OBVIOUS
  <2>2. /\ carriers' = Unassigned(carriers, g) /\ clients' = Unassigned(clients, g) /\ routing' = routing
        /\ Writes(a, rows) /\ CloseForm(a)
    BY <1>4, <2>1 DEF DeleteRateGroup
  <2>3. \A k \in DOMAIN carriers : carriers[k] \in CarrierRow
    BY DEF TablesInv, IsTable, Range
  <2>4. \A c \in DOMAIN clients : clients[c] \in ClientRow
    BY DEF TablesInv, IsTable, Range
  <2>5. /\ DOMAIN carriers' = DOMAIN carriers
        /\ \A k \in DOMAIN carriers : /\ carriers'[k].rate \in {carriers[k].rate, None}
                                      /\ carriers'[k].active = carriers[k].active
    BY <2>2, <2>3 DEF Unassigned, CarrierRow
  <2>6. DOMAIN clients' = DOMAIN clients /\ \A c \in DOMAIN clients : clients'[c].rate \in {clients[c].rate, None}
    BY <2>2, <2>4 DEF Unassigned, ClientRow
  <2>7. \A h \in RateGroups \ rows : CarrierRefs(h) = {} => CarrierRefs(h)' = {}
    BY <1>i, <2>5 DEF CarrierRefs
  <2>8. \A h \in RateGroups \ rows : ClientRefs(h) = {} => ClientRefs(h)' = {}
    BY <1>i, <2>6 DEF ClientRefs
  <2>9. QED
    BY <1>w, <2>2, <2>5, <2>7, <2>8
<1>5. ASSUME NEW a \in Admins, NEW k \in Carriers, WriteCarrier(a, k) PROVE VerdictInv'
  <2>1. PICK row, rows : row = edit[a].row /\ rows = {k, row.rate}
    OBVIOUS
  <2>2. carriers' = Stored(carriers, k, row) /\ UNCHANGED <<clients, routing>> /\ Writes(a, rows) /\ CloseForm(a)
    BY <1>5, <2>1 DEF WriteCarrier
  <2>3. /\ DOMAIN carriers' = DOMAIN carriers \cup {k} /\ carriers'[k] = row
        /\ \A x \in DOMAIN carriers \ {k} : carriers'[x] = carriers[x]
    BY <2>2 DEF Stored
  <2>4. \A h \in RateGroups \ rows : CarrierRefs(h) = {} => CarrierRefs(h)' = {}
    BY <2>1, <2>3 DEF CarrierRefs
  <2>5. QED
    BY <1>w, <2>1, <2>2, <2>3, <2>4 DEF ClientRefs
<1>6. ASSUME NEW a \in Admins, NEW c \in Clients, WriteClient(a, c) PROVE VerdictInv'
  <2>1. PICK row, rows : row = edit[a].row /\ rows = {row.rate}
    OBVIOUS
  <2>2. clients' = Stored(clients, c, row) /\ UNCHANGED <<carriers, routing>> /\ Writes(a, rows) /\ CloseForm(a)
    BY <1>6, <2>1 DEF WriteClient
  <2>3. /\ DOMAIN clients' = DOMAIN clients \cup {c} /\ clients'[c] = row
        /\ \A x \in DOMAIN clients \ {c} : clients'[x] = clients[x]
    BY <2>2 DEF Stored
  <2>4. \A h \in RateGroups \ rows : ClientRefs(h) = {} => ClientRefs(h)' = {}
    BY <2>1, <2>3 DEF ClientRefs
  <2>5. QED
    BY <1>w, <2>2, <2>4 DEF CarrierRefs
<1>7. ASSUME NEW a \in Admins, (\E i \in EntryIds : WriteEntry(a, i)) \/ (\E i \in RouteIds : WriteRoute(a, i))
      PROVE  VerdictInv'
  <2>1. Writes(a, {}) /\ CloseForm(a) /\ UNCHANGED <<carriers, clients, routing>>
    BY <1>7 DEF WriteEntry, WriteRoute
  <2>2. QED
    BY <1>w, <2>1 DEF CarrierRefs, ClientRefs
<1>8. ASSUME \/ \E g \in RateGroups : CreateRateGroup(g)
             \/ \E i \in EntryIds : DeleteEntry(i)
             \/ \E i \in RouteIds : DeleteRouteEntry(i)
      PROVE  VerdictInv'
  <2>1. Alone({}) /\ UNCHANGED <<carriers, clients, routing>>
    BY <1>8 DEF CreateRateGroup, DeleteEntry, DeleteRouteEntry
  <2>2. QED
    BY <1>l, <2>1 DEF CarrierRefs, ClientRefs
<1>9. ASSUME NEW k \in Carriers, ToggleCarrierStatus(k) PROVE VerdictInv'
  <2>1. Alone({k}) /\ UNCHANGED <<clients, routing>> /\ k \in DOMAIN carriers
        /\ carriers' = [carriers EXCEPT ![k].active = ~@]
    BY <1>9 DEF ToggleCarrierStatus
  <2>2. carriers[k] \in CarrierRow
    BY <2>1 DEF TablesInv, IsTable, Range
  <2>3. /\ DOMAIN carriers' = DOMAIN carriers /\ carriers'[k].rate = carriers[k].rate
        /\ \A x \in DOMAIN carriers \ {k} : carriers'[x] = carriers[x]
    BY <2>1, <2>2 DEF CarrierRow
  <2>4. \A h \in RateGroups : CarrierRefs(h)' = CarrierRefs(h)
    BY <2>3 DEF CarrierRefs
  <2>5. QED
    BY <1>l, <2>1, <2>3, <2>4 DEF ClientRefs
<1>10. ASSUME NEW r \in RoutingGroups, NEW b, CreateRoutingGroup(r, b) \/ UpdateRoutingGroup(r, b) PROVE VerdictInv'
  <2>1. Alone({r}) /\ UNCHANGED <<carriers, clients>>
    BY <1>10 DEF CreateRoutingGroup, UpdateRoutingGroup
  <2>2. \A q \in DOMAIN routing \ {r} : routing'[q] = routing[q]
    BY <1>10 DEF CreateRoutingGroup, UpdateRoutingGroup, Stored
  <2>3. QED
    BY <1>l, <2>1, <2>2 DEF CarrierRefs, ClientRefs
<1>11. ASSUME NEW r \in RoutingGroups, ToggleRoutingGroupStatus(r) PROVE VerdictInv'
  BY <1>10, <1>11 DEF ToggleRoutingGroupStatus
<1>12. QED
  BY <1>1, <1>2, <1>3, <1>4, <1>5, <1>6, <1>7, <1>8, <1>9, <1>10, <1>11
  DEF CatalogueNext, EditStep, CheckNext, CheckFailsOpen

FormsOK ==
  /\ edit \in [Admins -> Edit] /\ outrun \subseteq Admins
  /\ \A a \in Admins : todo[a] = <<>> <=> edit[a] = NoEdit

LEMMA CatalogueParts == CatalogueInv <=> TablesInv /\ FormsOK
BY DEF CatalogueInv, CatalogueTypeOK, TablesInv, FormsOK

LEMMA OutrunStep == outrun \subseteq Admins /\ CatalogueNext => outrun' \subseteq Admins
BY DEF CatalogueNext, EditStep, Submit, CheckNext, CheckFailsOpen, RefuseEdit, DeleteRateGroup, WriteCarrier,
       WriteClient, WriteEntry, WriteRoute, CreateRateGroup, DeleteEntry, ToggleCarrierStatus,
       CreateRoutingGroup, UpdateRoutingGroup, ToggleRoutingGroupStatus, DeleteRouteEntry, Alone, Writes

LEMMA CatalogueIStep == CatalogueIInv /\ [CatalogueNext]_catalogueVars => CatalogueIInv'
<1> SUFFICES ASSUME CatalogueIInv, [CatalogueNext]_catalogueVars PROVE CatalogueIInv'
  OBVIOUS
<1>1. TablesInv /\ FormsOK
  BY CatalogueParts DEF CatalogueIInv
<1>2. CASE CatalogueNext
  <2>1. LeftInv' /\ DOMAIN todo' = Admins /\ edit' \in [Admins -> Edit]
        /\ \A a \in Admins : todo'[a] = <<>> <=> edit'[a] = NoEdit
    BY <1>1, <1>2, LeftStep DEF CatalogueIInv, FormsOK
  <2>2. TablesInv' /\ DOMAIN routing \subseteq DOMAIN routing' /\ DOMAIN carriers \subseteq DOMAIN carriers'
    BY <1>1, <1>2, TablesStep DEF CatalogueIInv, FormsOK
  <2>3. FormsOK'
    BY <1>1, <1>2, <2>1, OutrunStep DEF FormsOK
  <2>4. CatalogueInv'
    BY <2>2, <2>3 DEF CatalogueInv, CatalogueTypeOK, TablesInv, FormsOK
  <2>5. NamesInv'
    BY <1>1, <1>2, <2>2, NamesStep DEF CatalogueIInv, FormsOK
  <2>6. VerdictInv'
    BY <1>1, <1>2, <2>1, VerdictStep DEF CatalogueIInv, FormsOK
  <2>7. QED
    BY <2>1, <2>4, <2>5, <2>6 DEF CatalogueIInv
<1>3. CASE UNCHANGED catalogueVars
  <2>1. UNCHANGED <<rateGroups, gone, entries, carriers, clients, routing, routes, todo, edit, outrun>>
    BY <1>3 DEF catalogueVars, tables
  <2>2. CatalogueInv'
    BY <2>1 DEF CatalogueIInv, CatalogueInv, CatalogueTypeOK, IsTable, NoTwins, Taken
  <2>3. LeftInv' /\ NamesInv' /\ DOMAIN todo' = Admins
    BY <2>1 DEF CatalogueIInv, LeftInv, NamesInv
  <2>4. VerdictInv'
    BY <2>1 DEF CatalogueIInv, VerdictInv, Verdict, CarrierRefs, ClientRefs
  <2>5. QED
    BY <2>2, <2>3, <2>4 DEF CatalogueIInv
<1>4. QED
  BY <1>2, <1>3

\* However many forms overlap and however late or lost their checks are, the
\* tables keep their references and their unique keys.
THEOREM TablesHold == CatalogueSpec => []CatalogueInv
<1>1. CatalogueIInv => CatalogueInv
  BY DEF CatalogueIInv
<1>2. QED
  BY <1>1, CatalogueStart, CatalogueIStep, PTL DEF CatalogueSpec

\* The ChecksHold step: a group that prices somebody goes, an inactive carrier
\* or routing group is stored, only by a form that was overtaken.
LEMMA ChecksStep ==
  ASSUME CatalogueIInv, CatalogueNext
  PROVE  /\ \A g \in rateGroups \ rateGroups' : CarrierRefs(g) \cup ClientRefs(g) # {} =>
              \E a \in outrun : Writing(a, "delete") /\ edit[a].group = g
         /\ \A a \in Admins \ outrun :
              /\ Writing(a, "route") /\ todo'[a] = <<>> =>
                   \A i \in NewRows(routes, routes') : carriers[routes'[i].primary].active
              /\ Writing(a, "client") /\ todo'[a] = <<>> =>
                   \A c \in NewRows(clients, clients') :
                     clients'[c].routing # None => routing[clients'[c].routing]
<1>0. LeftInv /\ VerdictInv /\ DOMAIN todo = Admins /\ edit \in [Admins -> Edit]
  BY DEF CatalogueIInv, CatalogueInv, CatalogueTypeOK
<1>1. ASSUME NEW a \in Admins, DeleteRateGroup(a), a \notin outrun
      PROVE  CarrierRefs(edit[a].group) = {} /\ ClientRefs(edit[a].group) = {}
  <2>1. Verdict(a) /\ edit[a].op = "delete" /\ todo[a] = <<"write">>
    BY <1>0, <1>1 DEF VerdictInv, DeleteRateGroup, Writing
  <2>2. Len(todo[a]) = 1
    BY <2>1, Lengths
  <2>3. QED
    BY <2>1, <2>2 DEF Verdict
<1>2. ASSUME NEW g \in rateGroups \ rateGroups', CarrierRefs(g) \cup ClientRefs(g) # {}
      PROVE  \E a \in outrun : Writing(a, "delete") /\ edit[a].group = g
  <2>1. PICK a \in Admins : DeleteRateGroup(a) /\ g = edit[a].group
    BY <1>2 DEF CatalogueNext, EditStep, Submit, CheckNext, CheckFailsOpen, RefuseEdit, tables, DeleteRateGroup,
         WriteCarrier, WriteClient, WriteEntry, WriteRoute, CreateRateGroup, DeleteEntry, ToggleCarrierStatus,
         CreateRoutingGroup, UpdateRoutingGroup, ToggleRoutingGroupStatus, DeleteRouteEntry
  <2>2. a \in outrun
    BY <1>1, <1>2, <2>1
  <2>3. QED
    BY <2>1, <2>2 DEF DeleteRateGroup
<1>3. ASSUME NEW a \in Admins \ outrun, Writing(a, "route"), todo'[a] = <<>>,
             NEW i \in NewRows(routes, routes')
      PROVE  carriers[routes'[i].primary].active
  <2>1. todo'[a] # todo[a] /\ edit[a].op = "route"
    BY <1>3, Lengths DEF Writing
  <2>2. \A x : routes'[x] # routes[x] \/ DOMAIN routes' # DOMAIN routes => routes' # routes
    OBVIOUS
  <2>3. routes' # routes
    BY <1>3, <2>2 DEF NewRows
  <2>4. PICK j \in RouteIds : WriteRoute(a, j)
    BY <1>0, <1>3, <2>1, <2>3 DEF CatalogueNext, EditStep, Submit, CheckNext, CheckFailsOpen, RefuseEdit, tables,
         DeleteRateGroup, WriteCarrier, WriteClient, WriteEntry, WriteRoute, CreateRateGroup, DeleteEntry,
         ToggleCarrierStatus, CreateRoutingGroup, UpdateRoutingGroup, ToggleRoutingGroupStatus, DeleteRouteEntry,
         Alone, CloseForm
  <2>5. i = j /\ routes'[i] = edit[a].row
    BY <1>3, <2>4 DEF WriteRoute, Stored, NewRows
  <2>6. Verdict(a) /\ Len(todo[a]) = 1
    BY <1>0, <1>3, Lengths DEF VerdictInv, Writing
  <2>7. QED
    BY <2>1, <2>5, <2>6 DEF Verdict
<1>4. ASSUME NEW a \in Admins \ outrun, Writing(a, "client"), todo'[a] = <<>>,
             NEW c \in NewRows(clients, clients'), clients'[c].routing # None
      PROVE  routing[clients'[c].routing]
  <2>1. todo'[a] # todo[a] /\ edit[a].op = "client"
    BY <1>4, Lengths DEF Writing
  <2>2. clients' # clients
    BY <1>4 DEF NewRows
  <2>3. ~\E b \in Admins : DeleteRateGroup(b)
    BY <1>0, <2>1 DEF DeleteRateGroup, Writing, CloseForm
  <2>4. PICK d \in Clients : WriteClient(a, d)
    BY <1>0, <1>4, <2>1, <2>2, <2>3 DEF CatalogueNext, EditStep, Submit, CheckNext, CheckFailsOpen, RefuseEdit, tables,
         WriteCarrier, WriteClient, WriteEntry, WriteRoute, CreateRateGroup, DeleteEntry,
         ToggleCarrierStatus, CreateRoutingGroup, UpdateRoutingGroup, ToggleRoutingGroupStatus, DeleteRouteEntry,
         Alone, CloseForm
  <2>5. c = d /\ clients'[c] = edit[a].row
    BY <1>4, <2>4 DEF WriteClient, Stored, NewRows
  <2>6. Verdict(a) /\ Len(todo[a]) = 1
    BY <1>0, <1>4, Lengths DEF VerdictInv, Writing
  <2>7. QED
    BY <1>4, <2>1, <2>5, <2>6 DEF Verdict
<1>5. QED
  BY <1>2, <1>3, <1>4

\* A verdict is overtaken or it holds.
THEOREM VerdictsHold == CatalogueSpec => ChecksHold
<1> DEFINE Step ==
     /\ \A g \in rateGroups \ rateGroups' : CarrierRefs(g) \cup ClientRefs(g) # {} =>
          \E a \in outrun : Writing(a, "delete") /\ edit[a].group = g
     /\ \A a \in Admins \ outrun :
          /\ Writing(a, "route") /\ todo'[a] = <<>> =>
               \A i \in NewRows(routes, routes') : carriers[routes'[i].primary].active
          /\ Writing(a, "client") /\ todo'[a] = <<>> =>
               \A c \in NewRows(clients, clients') :
                 clients'[c].routing # None => routing[clients'[c].routing]
<1>1. CatalogueIInv /\ [CatalogueNext]_catalogueVars => [Step]_catalogueVars
  BY ChecksStep
<1>2. QED
  BY <1>1, CatalogueStart, CatalogueIStep, PTL DEF CatalogueSpec, ChecksHold

-----------------------------------------------------------------------------
(* Senders: the links of clients and carriers to the library.              *)

\* What a request goes by is there, or was removed and never comes back.
WorkInv == \A w \in Clerks :
  /\ work[w].at \in {"count", "flip"} => work[w].sender \in DOMAIN senders
  /\ work[w].at \in {"clear", "set"} => {work[w].link} \cup work[w].seen \subseteq LinksOf(work[w].owner) \cup removed

\* A toggle nobody came between finds the sender inactive or out of use.
UsesInv == \A w \in Clerks \ late :
  work[w].at = "flip" => ~senders[work[w].sender] \/ Uses(work[w].sender) = {}

SendersIInv == LinksInv /\ WorkInv /\ UsesInv

LEMMA WorkKinds ==
  ASSUME NEW t \in Work
  PROVE  /\ t.at \in {"idle", "count", "flip", "clear", "set"}
         /\ t = Idle <=> t.at = "idle"
         /\ t.at \in {"count", "flip"} =>
              t.sender \in SenderIds /\ [t EXCEPT !.at = "flip"] = [at |-> "flip", sender |-> t.sender]
         /\ t.at \in {"clear", "set"} =>
              t.owner \in Owners /\ t.link \in LinkIds /\ t.seen \in SUBSET LinkIds
BY DEF Work, Idle

LEMMA SendersStart == SendersInit => SendersIInv
<1> SUFFICES ASSUME SendersInit PROVE SendersIInv
  OBVIOUS
<1> USE DEF SendersInit, Empty
<1>1. \A w \in Clerks : work[w].at = "idle"
  BY DEF Idle
<1>2. SendersTypeOK
  BY DEF SendersTypeOK, IsTable, Range, Work
<1>3. QED
  BY <1>1, <1>2 DEF SendersIInv, LinksInv, WorkInv, UsesInv

LEMMA ToggleStep ==
  ASSUME SendersIInv, NEW w \in Clerks,
         (\E s \in SenderIds : ToggleSender(w, s)) \/ CountUses(w) \/ Flip(w) \/ GiveUp(w)
  PROVE  SendersIInv'
<1> USE DEF Do
<1>t. SendersTypeOK /\ WorkInv /\ UsesInv
  BY DEF SendersIInv, LinksInv
<1>r. UNCHANGED <<links, removed>> /\ \A o \in Clerks \ {w} : work'[o] = work[o]
  BY <1>t DEF ToggleSender, CountUses, Flip, GiveUp, SendersTypeOK
<1>s. ASSUME SendersTypeOK', work'[w].at \in {"idle", "count", "flip"}, DOMAIN senders' = DOMAIN senders,
             work'[w].at \in {"count", "flip"} => work'[w].sender \in DOMAIN senders,
             \A v \in Clerks \ late' : work'[v].at = "flip" => ~senders'[work'[v].sender] \/ Uses(work'[v].sender) = {}
      PROVE  SendersIInv'
  <2>1. LinksInv'
    BY <1>r, <1>s DEF SendersIInv, LinksInv, LinksOf
  <2>2. WorkInv'
    BY <1>r, <1>s, <1>t DEF WorkInv, LinksOf
  <2>3. UsesInv'
    BY <1>r, <1>s DEF UsesInv, Uses
  <2>4. QED
    BY <2>1, <2>2, <2>3 DEF SendersIInv
<1>1. ASSUME NEW s \in SenderIds, ToggleSender(w, s) PROVE SendersIInv'
  <2>1. PICK t : t = [at |-> IF senders[s] THEN "count" ELSE "flip", sender |-> s]
    OBVIOUS
  <2>2. t \in Work /\ t.sender = s /\ t.at \in {"count", "flip"} /\ (t.at = "flip" => ~senders[s])
    BY <2>1 DEF Work
  <2>3. work' = [work EXCEPT ![w] = t] /\ s \in DOMAIN senders /\ UNCHANGED <<senders, links, removed, late>>
    BY <1>1, <2>1 DEF ToggleSender
  <2>4. SendersTypeOK' /\ work'[w] = t
    BY <1>t, <2>2, <2>3 DEF SendersTypeOK
  <2>5. QED
    BY <1>r, <1>s, <1>t, <2>2, <2>3, <2>4 DEF UsesInv
<1>2. CASE CountUses(w)
  <2>1. PICK t, s : s = work[w].sender /\ t = [at |-> "flip", sender |-> s]
    OBVIOUS
  <2>2. work[w] \in Work /\ s \in SenderIds /\ t \in Work /\ t.at = "flip" /\ t.sender = s
    BY <1>2, <1>t, <2>1, WorkKinds DEF CountUses, Work, SendersTypeOK
  <2>3. work' = [work EXCEPT ![w] = t] /\ UNCHANGED <<senders, links, removed, late>> /\ Uses(s) = {}
    BY <1>2, <2>1, <2>2, WorkKinds DEF CountUses
  <2>4. SendersTypeOK' /\ work'[w] = t /\ s \in DOMAIN senders
    BY <1>2, <1>t, <2>1, <2>2, <2>3 DEF SendersTypeOK, WorkInv, CountUses
  <2>5. QED
    BY <1>r, <1>s, <1>t, <2>2, <2>3, <2>4 DEF UsesInv
<1>3. CASE Flip(w)
  <2>1. PICK s : s = work[w].sender
    OBVIOUS
  <2>2. /\ work' = [work EXCEPT ![w] = Idle] /\ senders' = [senders EXCEPT ![s] = ~@] /\ s \in DOMAIN senders
        /\ late' = (late \ {w}) \cup {v \in Clerks \ {w} : work[v].at \in {"count", "flip"} /\ work[v].sender = s}
    BY <1>3, <1>t, <2>1 DEF Flip, Overtakes, WorkInv
  <2>3. IsTable(senders', SenderIds, BOOLEAN) /\ DOMAIN senders' = DOMAIN senders
    BY <1>t, <2>2 DEF SendersTypeOK, IsTable, Range
  <2>4. Idle \in Work /\ Idle.at = "idle"
    BY DEF Work, Idle
  <2>5. SendersTypeOK' /\ work'[w] = Idle
    BY <1>r, <1>t, <2>2, <2>3, <2>4 DEF SendersTypeOK
  <2>6. ASSUME NEW v \in Clerks \ late', work'[v].at = "flip"
        PROVE  ~senders'[work'[v].sender] \/ Uses(work'[v].sender) = {}
    <3>1. v # w /\ work'[v] = work[v] /\ v \notin late /\ work[v].sender # s
      BY <1>r, <2>2, <2>4, <2>5, <2>6
    <3>2. work[v].sender \in DOMAIN senders
      BY <1>t, <2>6, <3>1 DEF WorkInv
    <3>3. QED
      BY <1>t, <2>2, <2>6, <3>1, <3>2 DEF UsesInv
  <2>7. QED
    BY <1>s, <2>3, <2>4, <2>5, <2>6
<1>4. CASE GiveUp(w)
  <2>1. work' = [work EXCEPT ![w] = Idle] /\ UNCHANGED <<senders, links, removed>> /\ late' = late \ {w}
    BY <1>4 DEF GiveUp
  <2>2. Idle \in Work /\ Idle.at = "idle"
    BY DEF Work, Idle
  <2>3. SendersTypeOK' /\ work'[w] = Idle
    BY <1>t, <2>1, <2>2 DEF SendersTypeOK
  <2>4. QED
    BY <1>r, <1>s, <1>t, <2>1, <2>2, <2>3 DEF UsesInv
<1>5. QED
  BY <1>1, <1>2, <1>3, <1>4

LEMMA LinkStep ==
  ASSUME SendersIInv,
         \/ \E s \in SenderIds : CreateSender(s)
         \/ \E l \in LinkIds : RemoveLink(l)
         \/ \E l \in LinkIds, o \in Owners, s \in SenderIds : AddLink(l, o, s)
  PROVE  SendersIInv'
<1>t. SendersTypeOK /\ WorkInv /\ UsesInv /\ LinksInv
  BY DEF SendersIInv, LinksInv
<1>k. \A w \in Clerks : work[w] \in Work
  BY <1>t DEF SendersTypeOK
<1>1. ASSUME NEW s \in SenderIds, CreateSender(s) PROVE SendersIInv'
  <2>1. /\ s \notin DOMAIN senders /\ UNCHANGED <<links, removed, work, late>>
        /\ DOMAIN senders' = DOMAIN senders \cup {s} /\ \A x \in DOMAIN senders : senders'[x] = senders[x]
        /\ IsTable(senders', SenderIds, BOOLEAN)
    BY <1>1, <1>t DEF CreateSender, Stored, SendersTypeOK, IsTable, Range
  <2>2. LinksInv'
    BY <1>t, <2>1 DEF LinksInv, SendersTypeOK, LinksOf
  <2>3. WorkInv'
    BY <1>t, <2>1 DEF WorkInv, LinksOf
  <2>4. UsesInv'
    BY <1>t, <2>1 DEF UsesInv, WorkInv, Uses
  <2>5. QED
    BY <2>2, <2>3, <2>4 DEF SendersIInv
<1>2. ASSUME NEW l \in LinkIds, RemoveLink(l) PROVE SendersIInv'
  <2>1. /\ l \in DOMAIN links /\ DOMAIN links' = DOMAIN links \ {l}
        /\ \A x \in DOMAIN links' : links'[x] = links[x]
        /\ removed' = removed \cup {l} /\ UNCHANGED <<senders, work, late>>
        /\ IsTable(links', LinkIds, Link)
    BY <1>2, <1>t DEF RemoveLink, Restrict, SendersTypeOK, IsTable, Range
  <2>2. \A w \in Clerks : work[w].at = "set" => l \notin work[w].seen
    BY <1>2 DEF RemoveLink, LockedLinks
  <2>3. \A o : LinksOf(o)' = LinksOf(o) \ {l}
    BY <2>1 DEF LinksOf
  <2>4. SendersTypeOK'
    BY <1>2, <1>t, <2>1 DEF SendersTypeOK
  <2>5. LinksInv'
    BY <1>t, <2>1, <2>2, <2>3, <2>4 DEF LinksInv
  <2>6. WorkInv'
    BY <1>t, <2>1, <2>3 DEF WorkInv
  <2>7. UsesInv'
    BY <1>t, <2>1 DEF UsesInv, Uses
  <2>8. QED
    BY <2>5, <2>6, <2>7 DEF SendersIInv
<1>3. ASSUME NEW l \in LinkIds, NEW o \in Owners, NEW s \in SenderIds, AddLink(l, o, s) PROVE SendersIInv'
  <2>1. PICK row : row = [owner |-> o, sender |-> s, default |-> FALSE]
    OBVIOUS
  <2>2. row \in Link /\ row.owner = o /\ row.sender = s /\ row.default = FALSE
    BY <2>1 DEF Link
  <2>3. /\ l \notin DOMAIN links \cup removed /\ DOMAIN links' = DOMAIN links \cup {l} /\ links'[l] = row
        /\ \A x \in DOMAIN links : links'[x] = links[x]
        /\ UNCHANGED <<senders, removed, work>> /\ \A m \in LinksOf(o) : links[m].sender # s
        /\ late' = (late \ {None}) \cup
             {v \in Clerks \ {None} : work[v].at \in {"count", "flip"} /\ work[v].sender = s}
    BY <1>3, <2>1 DEF AddLink, Stored, Overtakes
  <2>4. IsTable(links', LinkIds, Link)
    BY <1>t, <2>2, <2>3 DEF SendersTypeOK, IsTable, Range
  <2>5. SendersTypeOK'
    BY <1>t, <2>3, <2>4 DEF SendersTypeOK
  <2>6. \A p : LinksOf(p) \subseteq LinksOf(p)'
    BY <2>3 DEF LinksOf
  <2>7. \A x, y \in DOMAIN links' : x # y /\ links'[x].owner = links'[y].owner =>
           links'[x].sender # links'[y].sender /\ ~(links'[x].default /\ links'[y].default)
    <3>1. ASSUME NEW x \in DOMAIN links, links[x].owner = o PROVE links[x].sender # s
      BY <2>3, <3>1 DEF LinksOf
    <3>2. QED
      BY <1>t, <2>2, <2>3, <3>1 DEF LinksInv
  <2>8. LinksInv'
    BY <1>t, <2>3, <2>5, <2>6, <2>7 DEF LinksInv
  <2>9. WorkInv'
    BY <1>t, <2>3, <2>6 DEF WorkInv
  <2>10. UsesInv'
    <3>1. ASSUME NEW w \in Clerks \ late', work[w].at = "flip"
          PROVE  ~senders[work[w].sender] \/ Uses(work[w].sender)' = {}
      <4>1. w \notin late /\ work[w].sender # s
        BY <2>3, <3>1, SendersAssumption
      <4>2. Uses(work[w].sender)' = Uses(work[w].sender)
        BY <2>2, <2>3, <4>1 DEF Uses
      <4>3. QED
        BY <1>t, <3>1, <4>1, <4>2 DEF UsesInv
    <3>2. QED
      BY <2>3, <3>1 DEF UsesInv
  <2>11. QED
    BY <2>8, <2>9, <2>10 DEF SendersIInv
<1>4. QED
  BY <1>1, <1>2, <1>3

\* What the statements of SetDefault leave of each row.
LEMMA DefaultSet ==
  ASSUME SendersIInv, NEW w \in Clerks, SetDefault(w)
  PROVE  /\ DOMAIN links' = DOMAIN links /\ IsTable(links', LinkIds, Link)
         /\ \A m \in DOMAIN links :
              /\ links'[m].owner = links[m].owner /\ links'[m].sender = links[m].sender
              /\ links'[m].default = \/ m = work[w].link
                                     \/ m \notin work[w].seen /\ links[m].default
<1>1. \A m \in DOMAIN links : links[m] \in Link
  BY DEF SendersIInv, LinksInv, SendersTypeOK, IsTable, Range
<1>2. \A r \in Link, b \in BOOLEAN : /\ [r EXCEPT !.default = b] \in Link
                                     /\ [r EXCEPT !.default = b].owner = r.owner
                                     /\ [r EXCEPT !.default = b].sender = r.sender
                                     /\ [r EXCEPT !.default = b].default = b
  BY DEF Link
<1>3. DOMAIN links' = DOMAIN links /\ \A m \in DOMAIN links :
        /\ m = work[w].link => links'[m] = [links[m] EXCEPT !.default = TRUE]
        /\ m # work[w].link /\ m \in work[w].seen => links'[m] = [links[m] EXCEPT !.default = FALSE]
        /\ m # work[w].link /\ m \notin work[w].seen => links'[m] = links[m]
  BY DEF SetDefault
<1>4. ASSUME NEW m \in DOMAIN links
      PROVE  /\ links'[m] \in Link /\ links'[m].owner = links[m].owner /\ links'[m].sender = links[m].sender
             /\ links'[m].default = (m = work[w].link \/ (m \notin work[w].seen /\ links[m].default))
  <2>1. CASE m = work[w].link
    BY <1>1, <1>3, <2>1 DEF Link
  <2>2. CASE m # work[w].link /\ m \in work[w].seen
    BY <1>1, <1>3, <2>2 DEF Link
  <2>3. CASE m # work[w].link /\ m \notin work[w].seen
    BY <1>1, <1>3, <2>3 DEF Link
  <2>4. QED
    BY <2>1, <2>2, <2>3
<1>5. IsTable(links', LinkIds, Link)
  BY <1>3, <1>4 DEF SendersIInv, LinksInv, SendersTypeOK, IsTable, Range
<1>6. QED
  BY <1>3, <1>4, <1>5

LEMMA DefaultStep ==
  ASSUME SendersIInv, NEW w \in Clerks,
         (\E l \in LinkIds, o \in Owners : BeginDefault(w, l, o)) \/ ClearDefaults(w) \/ SetDefault(w)
  PROVE  SendersIInv'
<1> USE DEF Do
<1>t. SendersTypeOK /\ WorkInv /\ UsesInv /\ LinksInv
  BY DEF SendersIInv, LinksInv
<1>r. UNCHANGED <<senders, removed, late>> /\ \A o \in Clerks \ {w} : work'[o] = work[o]
  BY <1>t DEF BeginDefault, ClearDefaults, SetDefault, SendersTypeOK
<1>s. ASSUME SendersTypeOK', work'[w].at \in {"idle", "clear", "set"}, \A o : LinksOf(o)' = LinksOf(o),
             \A s : Uses(s)' = Uses(s),
             work'[w].at \in {"clear", "set"} =>
               {work'[w].link} \cup work'[w].seen \subseteq LinksOf(work'[w].owner) \cup removed,
             work'[w].at = "set" => work'[w].seen \subseteq LinksOf(work'[w].owner),
             \A x, y \in DOMAIN links' : x # y /\ links'[x].owner = links'[y].owner =>
               links'[x].sender # links'[y].sender /\ ~(links'[x].default /\ links'[y].default)
      PROVE  SendersIInv'
  <2>1. LinksInv'
    BY <1>r, <1>s, <1>t DEF LinksInv
  <2>2. WorkInv'
    BY <1>r, <1>s, <1>t DEF WorkInv
  <2>3. UsesInv'
    BY <1>r, <1>s, <1>t DEF UsesInv
  <2>4. QED
    BY <2>1, <2>2, <2>3 DEF SendersIInv
<1>1. ASSUME NEW l \in LinkIds, NEW o \in Owners, BeginDefault(w, l, o) PROVE SendersIInv'
  <2>1. PICK t : t = [at |-> "clear", owner |-> o, link |-> l, seen |-> LinksOf(o)]
    OBVIOUS
  <2>2. LinksOf(o) \in SUBSET LinkIds
    BY <1>t DEF LinksOf, SendersTypeOK, IsTable
  <2>3. t \in Work /\ t.at = "clear" /\ t.owner = o /\ t.link = l /\ t.seen = LinksOf(o)
    BY <2>1, <2>2 DEF Work
  <2>4. work' = [work EXCEPT ![w] = t] /\ links' = links /\ l \in LinksOf(o) \cup removed
    BY <1>1, <2>1 DEF BeginDefault
  <2>5. SendersTypeOK' /\ work'[w] = t
    BY <1>r, <1>t, <2>3, <2>4 DEF SendersTypeOK
  <2>6. \A p : LinksOf(p)' = LinksOf(p) /\ Uses(p)' = Uses(p)
    BY <2>4 DEF LinksOf, Uses
  <2>7. QED
    BY <1>s, <1>t, <2>3, <2>4, <2>5, <2>6 DEF LinksInv
<1>2. CASE ClearDefaults(w)
  <2>1. PICK t, n : t = work[w] /\ n = [t EXCEPT !.at = "set", !.seen = t.seen \cap DOMAIN links]
    OBVIOUS
  <2>2. t \in [at : {"clear", "set"}, owner : Owners, link : LinkIds, seen : SUBSET LinkIds]
    BY <1>2, <1>t, <2>1 DEF ClearDefaults, SendersTypeOK, Work, Idle
  <2>3. /\ n \in [at : {"clear", "set"}, owner : Owners, link : LinkIds, seen : SUBSET LinkIds]
        /\ n.at = "set" /\ n.owner = t.owner /\ n.link = t.link /\ n.seen = t.seen \cap DOMAIN links
    BY <2>1, <2>2
  <2>4. n \in Work
    BY <2>3 DEF Work
  <2>5. work' = [work EXCEPT ![w] = n] /\ links' = links /\ t.at = "clear"
    BY <1>2, <2>1 DEF ClearDefaults
  <2>6. SendersTypeOK' /\ work'[w] = n
    BY <1>r, <1>t, <2>4, <2>5 DEF SendersTypeOK
  <2>7. \A p : LinksOf(p)' = LinksOf(p) /\ Uses(p)' = Uses(p)
    BY <2>5 DEF LinksOf, Uses
  <2>8. {t.link} \cup t.seen \subseteq LinksOf(t.owner) \cup removed /\ removed \cap DOMAIN links = {}
    BY <1>t, <2>1, <2>5 DEF WorkInv, SendersTypeOK
  <2>9. n.seen \subseteq LinksOf(n.owner)
    BY <2>3, <2>8
  <2>10. QED
    BY <1>s, <1>t, <2>3, <2>5, <2>6, <2>7, <2>8, <2>9 DEF LinksInv
<1>3. CASE SetDefault(w)
  <2>1. /\ DOMAIN links' = DOMAIN links /\ IsTable(links', LinkIds, Link)
        /\ \A m \in DOMAIN links :
              /\ links'[m].owner = links[m].owner /\ links'[m].sender = links[m].sender
              /\ links'[m].default = (m = work[w].link \/ (m \notin work[w].seen /\ links[m].default))
    BY <1>3, DefaultSet
  <2>2. Idle \in Work /\ Idle.at = "idle"
    BY DEF Work, Idle
  <2>3. work' = [work EXCEPT ![w] = Idle] /\ work[w].at = "set"
    BY <1>3 DEF SetDefault
  <2>4. SendersTypeOK' /\ work'[w] = Idle
    BY <1>r, <1>t, <2>1, <2>2, <2>3 DEF SendersTypeOK
  <2>5. \A p : LinksOf(p)' = LinksOf(p) /\ Uses(p)' = Uses(p)
    BY <2>1 DEF LinksOf, Uses
  <2>6. \A x, y \in DOMAIN links' : x # y /\ links'[x].owner = links'[y].owner =>
           links'[x].sender # links'[y].sender /\ ~(links'[x].default /\ links'[y].default)
    <3>1. ASSUME NEW x \in DOMAIN links, NEW y \in DOMAIN links, x # y, links[x].owner = links[y].owner,
                 x = work[w].link, y \notin work[w].seen, links[y].default
          PROVE  FALSE
      <4>1. x \in LinksOf(work[w].owner)
        BY <1>t, <2>3, <3>1 DEF WorkInv, SendersTypeOK
      <4>2. y \in LinksOf(work[w].owner)
        BY <3>1, <4>1 DEF LinksOf
      <4>3. y \in Unseen(w)
        BY <3>1, <4>2 DEF Unseen
      <4>4. QED
        BY <1>3, <3>1, <4>3 DEF SetDefault
    <3>2. ASSUME NEW x \in DOMAIN links, NEW y \in DOMAIN links, x # y, links[x].owner = links[y].owner
          PROVE  links[x].sender # links[y].sender /\ ~(links'[x].default /\ links'[y].default)
      <4>1. links[x].sender # links[y].sender /\ ~(links[x].default /\ links[y].default)
        BY <1>t, <3>2 DEF LinksInv
      <4>2. CASE x = work[w].link
        BY <2>1, <3>1, <3>2, <4>1, <4>2
      <4>3. CASE y = work[w].link
        BY <2>1, <3>1, <3>2, <4>1, <4>3
      <4>4. CASE x # work[w].link /\ y # work[w].link
        BY <2>1, <3>2, <4>1, <4>4
      <4>5. QED
        BY <4>2, <4>3, <4>4
    <3>3. QED
      BY <2>1, <3>2
  <2>7. QED
    BY <1>s, <2>2, <2>4, <2>5, <2>6
<1>4. QED
  BY <1>1, <1>2, <1>3

LEMMA SendersIStep == SendersIInv /\ [SendersNext]_senderVars => SendersIInv'
<1> SUFFICES ASSUME SendersIInv, [SendersNext]_senderVars PROVE SendersIInv'
  OBVIOUS
<1>1. CASE SendersNext
  BY <1>1, ToggleStep, LinkStep, DefaultStep DEF SendersNext
<1>2. CASE UNCHANGED senderVars
  <2>1. LinksInv'
    BY <1>2 DEF SendersIInv, LinksInv, SendersTypeOK, senderVars, LinksOf, IsTable
  <2>2. WorkInv' /\ UsesInv'
    BY <1>2 DEF SendersIInv, WorkInv, UsesInv, senderVars, LinksOf, Uses
  <2>3. QED
    BY <2>1, <2>2 DEF SendersIInv
<1>3. QED
  BY <1>1, <1>2

LEMMA RecordsStep == [RecordsNext]_RecordsVars => [CatalogueNext]_catalogueVars /\ [SendersNext]_senderVars
BY DEF RecordsNext, RecordsVars

\* Catalogue and sender library side by side: no form of any page, however it
\* overlaps with others, leaves their tables at odds.
THEOREM RecordsHold == RecordsSpec => []RecordsInv
<1>1. CatalogueIInv /\ SendersIInv => RecordsInv
  BY DEF CatalogueIInv, SendersIInv, RecordsInv
<1>2. QED
  BY <1>1, RecordsStep, CatalogueStart, CatalogueIStep, SendersStart, SendersIStep, PTL DEF RecordsSpec

\* The InUseStaysActive step.
LEMMA InUseStep ==
  ASSUME SendersIInv, SendersNext
  PROVE  /\ \A s \in DOMAIN senders : senders[s] /\ ~senders'[s] /\ (\E l \in DOMAIN links : links[l].sender = s) =>
              \E w \in late : work[w].at = "flip" /\ work[w].sender = s
         /\ \A l \in DOMAIN links : links[l].default =>
              \/ l \notin DOMAIN links'
              \/ \E m \in DOMAIN links' : links'[m].owner = links[l].owner /\ links'[m].default
              \/ \E w \in Clerks : /\ work[w].at = "set" /\ work[w].owner = links[l].owner
                                   /\ work[w].link \notin DOMAIN links
<1>t. SendersTypeOK /\ WorkInv /\ UsesInv /\ LinksInv
  BY DEF SendersIInv, LinksInv
<1>1. ASSUME NEW s \in DOMAIN senders, senders[s], ~senders'[s], \E l \in DOMAIN links : links[l].sender = s
      PROVE  \E w \in late : work[w].at = "flip" /\ work[w].sender = s
  <2>1. PICK w \in Clerks : Flip(w)
    BY <1>1 DEF SendersNext, ToggleSender, CountUses, GiveUp, CreateSender, RemoveLink, AddLink,
                BeginDefault, ClearDefaults, SetDefault, Stored
  <2>2. work[w].at = "flip" /\ work[w].sender = s
    BY <1>1, <2>1 DEF Flip
  <2>3. Uses(s) # {}
    BY <1>1 DEF Uses
  <2>4. w \in late
    BY <1>t, <1>1, <2>2, <2>3 DEF UsesInv
  <2>5. QED
    BY <2>2, <2>4
<1>2. ASSUME NEW l \in DOMAIN links, links[l].default
      PROVE  \/ l \notin DOMAIN links'
             \/ \E m \in DOMAIN links' : links'[m].owner = links[l].owner /\ links'[m].default
             \/ \E w \in Clerks : /\ work[w].at = "set" /\ work[w].owner = links[l].owner
                                  /\ work[w].link \notin DOMAIN links
  <2>1. ASSUME NEW w \in Clerks, SetDefault(w) PROVE
             \/ \E m \in DOMAIN links' : links'[m].owner = links[l].owner /\ links'[m].default
             \/ work[w].owner = links[l].owner /\ work[w].link \notin DOMAIN links
    <3>1. /\ DOMAIN links' = DOMAIN links
          /\ \A m \in DOMAIN links :
               /\ links'[m].owner = links[m].owner
               /\ links'[m].default = (m = work[w].link \/ (m \notin work[w].seen /\ links[m].default))
      BY <2>1, DefaultSet
    <3>2. work[w].at = "set"
      BY <2>1 DEF SetDefault
    <3>3. CASE l \notin work[w].seen
      BY <1>2, <3>1, <3>3
    <3>4. CASE l \in work[w].seen
      <4>1. links[l].owner = work[w].owner
        BY <1>t, <3>2, <3>4 DEF LinksInv, LinksOf
      <4>2. CASE work[w].link \in DOMAIN links
        <5>1. links[work[w].link].owner = work[w].owner
          BY <1>t, <3>2, <4>2 DEF WorkInv, SendersTypeOK, LinksOf
        <5>2. QED
          BY <3>1, <4>1, <4>2, <5>1
      <4>3. QED
        BY <4>1, <4>2
    <3>5. QED
      BY <3>3, <3>4
  <2>2. ASSUME NEW k \in LinkIds, NEW o \in Owners, NEW s \in SenderIds, AddLink(k, o, s)
        PROVE  l \in DOMAIN links' /\ links'[l] = links[l]
    BY <2>2 DEF AddLink, Stored
  <2>3. ASSUME NEW k \in LinkIds, RemoveLink(k)
        PROVE  l \notin DOMAIN links' \/ links'[l] = links[l]
    BY <2>3 DEF RemoveLink, Restrict
  <2>4. CASE links' = links
    BY <1>2, <2>4
  <2>6. QED
    BY <1>2, <2>1, <2>2, <2>3, <2>4 DEF SendersNext, ToggleSender, CountUses, Flip, GiveUp, CreateSender,
       BeginDefault, ClearDefaults, SetDefault
<1>3. QED
  BY <1>1, <1>2

\* A sender in use is deactivated only by a toggle during which it was linked or
\* toggled, and an owner loses its default only with the default's own row or to
\* a page that named a row removed before.
THEOREM DefaultsKept == RecordsSpec => InUseStaysActive
<1> DEFINE Step ==
     /\ \A s \in DOMAIN senders : senders[s] /\ ~senders'[s] /\ (\E l \in DOMAIN links : links[l].sender = s) =>
          \E w \in late : work[w].at = "flip" /\ work[w].sender = s
     /\ \A l \in DOMAIN links : links[l].default =>
          \/ l \notin DOMAIN links'
          \/ \E m \in DOMAIN links' : links'[m].owner = links[l].owner /\ links'[m].default
          \/ \E w \in Clerks : /\ work[w].at = "set" /\ work[w].owner = links[l].owner
                               /\ work[w].link \notin DOMAIN links
<1>1. SendersIInv /\ [SendersNext]_senderVars => [Step]_senderVars
  BY InUseStep
<1>2. QED
  BY <1>1, RecordsStep, SendersStart, SendersIStep, PTL DEF RecordsSpec, InUseStaysActive

-----------------------------------------------------------------------------
(* ApiAccess: the keys, the calls and their limiters.                      *)

\* A key inserted and not committed is no row's yet, and the only one of its client.
InsertedInv == \A o \in Operators : keyForm[o].at = "inserted" =>
  /\ \A k \in keyForm[o].new : k \notin DOMAIN owner
  /\ \A k, l \in keyForm[o].new : k = l
  /\ KeysOf(keyForm[o].client) \subseteq keyForm[o].old
  /\ \A p \in Operators \ {o} : keyForm[p].at = "inserted" =>
       keyForm[p].client # keyForm[o].client /\ keyForm[p].new \cap keyForm[o].new = {}

OneKey == \A k, l \in live : owner[k] = owner[l] => k = l

\* A key dead when a call was made, or a client off since, is found dead or off.
CallOK(r) ==
  /\ At(r, "queued") => /\ call[r].key \in DOMAIN owner /\ owner[call[r].key] = call[r].client
                        /\ call[r].stale => call[r].key \notin live
                        /\ call[r].off => call[r].client \notin enabled
  /\ call[r].at \in {"rows"} \cup Passed => ~call[r].stale /\ ~call[r].off
  /\ call[r].at \in {"limited", "missing"} => call[r].burst \in Limits
  /\ At(r, "found") => call[r].limiter \subseteq DOMAIN limiter /\ \A l, m \in call[r].limiter : l = m
  /\ call[r].at \in {"cleaning", "held"} => \A l \in call[r].limiter : l \in DOMAIN limiter /\ limiter[l].idle = 0

CallsInv == \A r \in Callers : CallOK(r)

\* The calls that may still make a limiter, none while one is stored; those a
\* client had for the limiters in use that were deleted within the minute.
Missing(c) == {r \in Callers : At(r, "missing") /\ call[r].client = c}
Room(c) == Cardinality(Callers) * swept[c]

LimitersInv ==
  /\ \A l, m \in stored : limiter[l].client = limiter[m].client => l = m
  /\ \A l \in DOMAIN limiter : IdleLimiter(l) => limiter[l].tokens = limiter[l].burst

DrawnOf(c) ==
  /\ IsFiniteSet(Awake(c))
  /\ Cardinality(Awake(c)) + Cardinality(Missing(c)) <= Room(c) + Cardinality(Callers)
  /\ Awake(c) \cap stored = {} => Cardinality(Awake(c)) <= Room(c)

DrawnInv == \A c \in ApiClients : DrawnOf(c)

ApiIInv == ApiTypeOK /\ InsertedInv /\ OneKey /\ CallsInv /\ LimitersInv /\ DrawnInv

LEMMA CallKinds ==
  /\ NoCall.at = "idle" /\ NoKeyForm.at = "idle"
  /\ \A f \in QueuedCall : /\ f.at = "queued" /\ f.key \in ApiKeys /\ f.client \in ApiClients
                           /\ f.stale \in BOOLEAN /\ f.off \in BOOLEAN
  /\ \A f \in FoundCall : /\ f.at \in {"rows"} \cup Passed /\ f.client \in ApiClients
                          /\ f.stale \in BOOLEAN /\ f.off \in BOOLEAN
                          /\ f.burst \in Limits \cup {0} /\ f.limiter \subseteq Limiters
  /\ \A f \in KeyForm : /\ f.at \in {"waiting", "locked", "inserted"} /\ f.client \in ApiClients
                        /\ f.old \subseteq ApiKeys /\ f.new \subseteq ApiKeys
  /\ \A f \in Limiter : /\ f.client \in ApiClients /\ f.burst \in Limits
                        /\ f.tokens \in Nat /\ f.idle \in 0 .. IdleFor + 1
BY DEF NoCall, NoKeyForm, QueuedCall, FoundCall, KeyForm, Limiter

\* What a call that is under way holds.
LEMMA CallUnderWay ==
  ASSUME ApiTypeOK, NEW r \in Callers, ~At(r, "idle")
  PROVE  /\ call[r].client \in ApiClients /\ call[r].stale \in BOOLEAN /\ call[r].off \in BOOLEAN
         /\ At(r, "queued") => call[r] \in QueuedCall
         /\ ~At(r, "queued") => call[r] \in FoundCall
BY CallKinds DEF ApiTypeOK, At, Passed, Limiting

LEMMA GoesOn ==
  ASSUME ApiTypeOK, NEW r \in Callers, ~At(r, "idle"), NEW where \in {"rows"} \cup Passed,
         NEW burst \in Limits \cup {0}, NEW used \in SUBSET Limiters, Go(r, where, burst, used)
  PROVE  /\ call' \in [Callers -> {NoCall} \cup QueuedCall \cup FoundCall]
         /\ \A q \in Callers \ {r} : call'[q] = call[q]
         /\ call'[r] = [at |-> where, client |-> call[r].client, stale |-> call[r].stale,
                        off |-> call[r].off, burst |-> burst, limiter |-> used]
<1>1. [at |-> where, client |-> call[r].client, stale |-> call[r].stale,
       off |-> call[r].off, burst |-> burst, limiter |-> used] \in FoundCall
  BY CallUnderWay DEF FoundCall
<1>2. QED
  BY <1>1 DEF Go, ApiTypeOK

\* A form that moves on or ends.
LEMMA FormGoes ==
  ASSUME ApiTypeOK, NEW o \in Operators, keyForm[o].at # "idle"
  PROVE  keyForm[o] \in KeyForm
BY CallKinds DEF ApiTypeOK

LEMMA ApiTypeStart == ApiInit => ApiTypeOK
BY DEF ApiInit, ApiTypeOK

LEMMA ApiTypeStep == ApiTypeOK /\ CallsInv /\ [ApiNext]_apiVars => ApiTypeOK'
<1> SUFFICES ASSUME ApiTypeOK, CallsInv, [ApiNext]_apiVars PROVE ApiTypeOK'
  OBVIOUS
<1> USE ApiAssumption
<1>0. {} \in SUBSET Limiters /\ 0 \in Limits \cup {0} /\ Limits \subseteq Limits \cup {0}
      /\ {"rows", "known", "limited", "found", "missing", "cleaning", "held", "admitted"} \subseteq {"rows"} \cup Passed
  BY DEF Passed, Limiting
<1>1. ASSUME NEW o \in Operators, NEW c \in ApiClients, NEW op \in {"generate", "revoke"}, BeginUpdate(o, c, op)
      PROVE  ApiTypeOK'
  <2>1. [at |-> "waiting", op |-> op, client |-> c, old |-> KeysOf(c), new |-> {}] \in KeyForm
    BY DEF KeyForm, KeysOf, ApiTypeOK
  <2>2. keyForm' \in [Operators -> {NoKeyForm} \cup KeyForm]
    BY <1>1, <2>1 DEF BeginUpdate, ApiTypeOK
  <2>3. QED
    BY <1>1, <2>2 DEF BeginUpdate, ApiTypeOK
<1>2. ASSUME NEW o \in Operators, Update(o) PROVE ApiTypeOK'
  <2>1. keyForm[o] \in KeyForm
    BY <1>2, FormGoes DEF Update
  <2>2. [keyForm[o] EXCEPT !.at = "locked", !.old = keyForm[o].old \cap live] \in KeyForm
    BY <2>1 DEF KeyForm
  <2>3. keyForm' \in [Operators -> {NoKeyForm} \cup KeyForm] /\ live' \subseteq live
    BY <1>2, <2>2 DEF Update, ApiTypeOK
  <2>4. QED
    BY <1>2, <2>3 DEF Update, ApiTypeOK
<1>3. ASSUME NEW o \in Operators, Insert(o) PROVE ApiTypeOK'
  <2>1. keyForm[o] \in KeyForm
    BY <1>3, FormGoes DEF Insert
  <2> DEFINE k == CHOOSE k \in NewKeys : TRUE
  <2>2. k \in ApiKeys
    BY <1>3 DEF Insert, NewKeys
  <2>3. [keyForm[o] EXCEPT !.at = "inserted", !.new = {k}] \in KeyForm
    BY <2>1, <2>2 DEF KeyForm
  <2>4. keyForm' \in [Operators -> {NoKeyForm} \cup KeyForm]
    BY <1>3, <2>3 DEF Insert, ApiTypeOK
  <2>5. QED
    BY <1>3, <2>4 DEF Insert, ApiTypeOK
<1>4. ASSUME NEW o \in Operators, CommitKey(o) PROVE ApiTypeOK'
  <2>1. keyForm[o].client \in ApiClients /\ keyForm[o].new \subseteq ApiKeys
    BY <1>4, FormGoes, CallKinds DEF CommitKey
  <2>2. DOMAIN owner' = DOMAIN owner \cup keyForm[o].new /\ owner' \in [DOMAIN owner' -> ApiClients]
    BY <1>4, <2>1 DEF CommitKey, ApiTypeOK
  <2>3. keyForm' \in [Operators -> {NoKeyForm} \cup KeyForm]
    BY <1>4 DEF CommitKey, ApiTypeOK
  <2>4. QED
    BY <1>4, <2>1, <2>2, <2>3 DEF CommitKey, ApiTypeOK
<1>5. ASSUME NEW o \in Operators, RollbackKey(o) PROVE ApiTypeOK'
  BY <1>5 DEF RollbackKey, ApiTypeOK
<1>6. ASSUME NEW c \in ApiClients, ToggleClientStatus(c) PROVE ApiTypeOK'
  <2>1. \A f \in QueuedCall : [f EXCEPT !.off = FALSE] \in QueuedCall
    BY DEF QueuedCall
  <2>2. \A f \in FoundCall : [f EXCEPT !.off = FALSE] \in FoundCall
    BY DEF FoundCall
  <2>3. ASSUME NEW r \in Callers, ~At(r, "idle")
        PROVE  [call[r] EXCEPT !.off = FALSE] \in QueuedCall \cup FoundCall
    BY <2>1, <2>2, <2>3, CallUnderWay
  <2>4. call' \in [Callers -> {NoCall} \cup QueuedCall \cup FoundCall]
    BY <1>6, <2>3 DEF ToggleClientStatus, ApiTypeOK
  <2>5. QED
    BY <1>6, <2>4 DEF ToggleClientStatus, ApiTypeOK
<1>7. ASSUME NEW r \in Callers, NEW k \in ApiKeys, Call(r, k) PROVE ApiTypeOK'
  <2>1. [at |-> "queued", key |-> k, client |-> owner[k], stale |-> k \notin live, off |-> owner[k] \notin enabled] \in QueuedCall
    BY <1>7 DEF Call, QueuedCall, ApiTypeOK
  <2>2. call' \in [Callers -> {NoCall} \cup QueuedCall \cup FoundCall]
    BY <1>7, <2>1 DEF Call, ApiTypeOK
  <2>3. QED
    BY <1>7, <2>2 DEF Call, ApiTypeOK
<1>8. ASSUME NEW r \in Callers, ValidateAPIKey(r) \/ GetClient(r) \/ CallFails(r) \/ Answered(r)
      PROVE  ApiTypeOK'
  <2>1. ~At(r, "idle") /\ UNCHANGED <<owner, live, enabled, keyForm, limiter, stored, left, doomed, swept>>
    BY <1>8 DEF ValidateAPIKey, GetClient, CallFails, Answered, At
  <2>2. Go(r, "rows", 0, {}) \/ Go(r, "known", 0, {}) \/ Done(r)
    BY <1>8 DEF ValidateAPIKey, GetClient, CallFails, Answered
  <2>3. call' \in [Callers -> {NoCall} \cup QueuedCall \cup FoundCall]
    <3>1. CASE Done(r)
      BY <3>1 DEF Done, ApiTypeOK
    <3>2. CASE Go(r, "rows", 0, {}) \/ Go(r, "known", 0, {})
      <4>1. CASE Go(r, "rows", 0, {})
        BY <4>1, <1>0, <2>1, GoesOn
      <4>2. CASE Go(r, "known", 0, {})
        BY <4>2, <1>0, <2>1, GoesOn
      <4>3. QED
        BY <3>2, <4>1, <4>2
    <3>3. QED
      BY <2>2, <3>1, <3>2
  <2>4. QED
    BY <2>1, <2>3 DEF ApiTypeOK
<1>9. ASSUME NEW r \in Callers, readRateLimitPerMinute(r) PROVE ApiTypeOK'
  <2>1. PICK n \in Limits : Go(r, "limited", n, {})
    BY <1>9 DEF readRateLimitPerMinute
  <2>2. call' \in [Callers -> {NoCall} \cup QueuedCall \cup FoundCall]
    BY <1>9, <1>0, <2>1, GoesOn DEF readRateLimitPerMinute, At
  <2>3. QED
    BY <1>9, <2>2 DEF readRateLimitPerMinute, ApiTypeOK
<1>10. ASSUME NEW r \in Callers, LoadLimiter(r) PROVE ApiTypeOK'
  <2> DEFINE known == LimiterOf(call[r].client)
  <2>1. known \in SUBSET Limiters /\ ~At(r, "idle") /\ call[r].burst \in Limits \cup {0}
    BY <1>10, CallUnderWay, CallKinds DEF LoadLimiter, LimiterOf, ApiTypeOK, At
  <2>2. Go(r, "missing", call[r].burst, {}) \/ Go(r, "found", 0, known)
    BY <1>10 DEF LoadLimiter
  <2>3. call' \in [Callers -> {NoCall} \cup QueuedCall \cup FoundCall]
    <3>1. CASE Go(r, "missing", call[r].burst, {})
      BY <3>1, <1>0, <2>1, GoesOn
    <3>2. CASE Go(r, "found", 0, known)
      BY <3>2, <1>0, <2>1, GoesOn
    <3>3. QED
      BY <2>2, <3>1, <3>2
  <2>4. QED
    BY <1>10, <2>3 DEF LoadLimiter, ApiTypeOK
<1>20. ASSUME NEW r \in Callers, NEW l \in Limiters, TouchLimiter(r, l) PROVE ApiTypeOK'
  <2>1. ~At(r, "idle") /\ Go(r, "held", 0, {l}) /\ {l} \in SUBSET Limiters /\ l \in DOMAIN limiter
    BY <1>20 DEF TouchLimiter, At, CallsInv, CallOK
  <2>2. call' \in [Callers -> {NoCall} \cup QueuedCall \cup FoundCall]
    BY <1>0, <2>1, GoesOn
  <2>3. \A f \in Limiter : [f EXCEPT !.idle = 0] \in Limiter /\ [f EXCEPT !.idle = 0].tokens = f.tokens
                           /\ [f EXCEPT !.idle = 0].burst = f.burst
    BY DEF Limiter
  <2>4. /\ DOMAIN limiter' = DOMAIN limiter /\ limiter' \in [DOMAIN limiter' -> Limiter]
        /\ \A m \in DOMAIN limiter' : limiter'[m].tokens <= limiter'[m].burst
    BY <1>20, <2>1, <2>3 DEF TouchLimiter, ApiTypeOK
  <2>5. QED
    BY <1>20, <2>2, <2>4 DEF TouchLimiter, ApiTypeOK
<1>21. ASSUME NEW r \in Callers, NEW c \in ApiClients, VisitLimiter(r, c) \/ DeleteLimiter(r, c) PROVE ApiTypeOK'
  <2>1. left' \in [Callers -> SUBSET ApiClients] /\ doomed' \in [Callers -> SUBSET ApiClients]
    BY <1>21 DEF VisitLimiter, DeleteLimiter, ApiTypeOK
  <2>2. swept' \in [ApiClients -> Nat] /\ stored' \subseteq stored
    BY <1>21 DEF VisitLimiter, DeleteLimiter, ApiTypeOK
  <2>3. QED
    BY <1>21, <2>1, <2>2 DEF VisitLimiter, DeleteLimiter, ApiTypeOK
<1>11. ASSUME NEW r \in Callers, StoreLimiter(r) PROVE ApiTypeOK'
  <2> DEFINE new == CHOOSE l \in Limiters : l \notin DOMAIN limiter
             made == [client |-> call[r].client, burst |-> call[r].burst, tokens |-> call[r].burst, idle |-> 0]
  <2>1. new \in Limiters /\ new \notin DOMAIN limiter
    BY <1>11 DEF StoreLimiter, ApiTypeOK
  <2>2. call[r].client \in ApiClients /\ call[r].burst \in Limits /\ ~At(r, "idle")
    BY <1>11, CallUnderWay DEF StoreLimiter, CallsInv, CallOK, At
  <2>3. call' \in [Callers -> {NoCall} \cup QueuedCall \cup FoundCall]
    <3>1. Go(r, "cleaning", 0, {new}) /\ {new} \in SUBSET Limiters
      BY <1>11, <2>1 DEF StoreLimiter
    <3>2. QED
      BY <1>0, <2>2, <3>1, GoesOn
  <2>4. made \in Limiter /\ made.tokens = made.burst /\ call[r].burst \in Nat
    <3>1. call[r].burst \in Nat
      BY <2>2
    <3>2. 0 \in 0 .. IdleFor + 1
      OBVIOUS
    <3>3. QED
      BY <2>2, <3>1, <3>2 DEF Limiter
  <2>5. limiter' = [l \in DOMAIN limiter \cup {new} |-> IF l = new THEN made ELSE limiter[l]]
    BY <1>11 DEF StoreLimiter
  <2> HIDE DEF made, new
  <2>6. /\ DOMAIN limiter' = DOMAIN limiter \cup {new} /\ limiter' \in [DOMAIN limiter' -> Limiter]
        /\ \A l \in DOMAIN limiter' : limiter'[l].tokens <= limiter'[l].burst
    <3>1. \A l \in DOMAIN limiter' : limiter'[l] = made \/ (l \in DOMAIN limiter /\ limiter'[l] = limiter[l])
      BY <2>5
    <3>2. made.tokens <= made.burst
      BY <2>4 DEF made
    <3>3. QED
      BY <2>4, <2>5, <3>1, <3>2 DEF ApiTypeOK
  <2>7. stored' \subseteq DOMAIN limiter'
    BY <1>11, <2>6 DEF StoreLimiter, ApiTypeOK, new
  <2>8. UNCHANGED <<owner, live, enabled, keyForm, doomed, swept>> /\ left' \in [Callers -> SUBSET ApiClients]
    BY <1>11 DEF StoreLimiter, ApiTypeOK
  <2>9. QED
    BY <2>1, <2>3, <2>6, <2>7, <2>8 DEF ApiTypeOK
<1>12. ASSUME NEW r \in Callers, NEW l \in Limiters, allowForClient(r, l) PROVE ApiTypeOK'
  <2>1. ~At(r, "idle") /\ l \in DOMAIN limiter
        /\ UNCHANGED <<owner, live, enabled, keyForm, stored, left, doomed, swept>>
    BY <1>12 DEF allowForClient, Cleaned, CallsInv, CallOK, At
  <2>2. CASE limiter[l].tokens > 0
    <3>1. Go(r, "admitted", 0, {}) /\ limiter' = [limiter EXCEPT ![l].tokens = @ - 1]
      BY <1>12, <2>2 DEF allowForClient
    <3>2. call' \in [Callers -> {NoCall} \cup QueuedCall \cup FoundCall]
      BY <1>0, <2>1, <3>1, GoesOn
    <3>3. \A f \in Limiter : f.tokens > 0 /\ f.tokens <= f.burst =>
            LET g == [f EXCEPT !.tokens = f.tokens - 1] IN g \in Limiter /\ g.tokens <= g.burst
      BY DEF Limiter
    <3>4. /\ DOMAIN limiter' = DOMAIN limiter /\ limiter' \in [DOMAIN limiter' -> Limiter]
          /\ \A m \in DOMAIN limiter' : limiter'[m].tokens <= limiter'[m].burst
      BY <2>1, <2>2, <3>1, <3>3 DEF ApiTypeOK
    <3>5. QED
      BY <2>1, <3>2, <3>4 DEF ApiTypeOK
  <2>3. CASE ~(limiter[l].tokens > 0)
    BY <1>12, <2>1, <2>3 DEF allowForClient, Done, ApiTypeOK
  <2>4. QED
    BY <2>2, <2>3
<1>13. CASE MinutePasses
  <2> DEFINE after(f) == [f EXCEPT !.tokens = f.burst, !.idle = IF f.idle > IdleFor THEN f.idle ELSE f.idle + 1]
  <2>1. \A f \in Limiter : after(f) \in Limiter /\ after(f).tokens <= after(f).burst
    <3> SUFFICES ASSUME NEW f \in Limiter PROVE after(f) \in Limiter /\ after(f).tokens <= after(f).burst
      OBVIOUS
    <3>1. f.burst \in Nat /\ f.burst \in Limits /\ f.idle \in 0 .. IdleFor + 1
      BY DEF Limiter
    <3>2. (IF f.idle > IdleFor THEN f.idle ELSE f.idle + 1) \in 0 .. IdleFor + 1
      BY <3>1
    <3>3. QED
      <4>1. ASSUME NEW t \in Nat, NEW i \in 0 .. IdleFor + 1
            PROVE  LET g == [f EXCEPT !.tokens = t, !.idle = i] IN g \in Limiter /\ g.tokens = t /\ g.burst = f.burst
        BY DEF Limiter
      <4>2. QED
        <5>1. after(f) \in Limiter /\ after(f).tokens = f.burst /\ after(f).burst = f.burst
          BY ONLY <3>1, <3>2, <4>1, Zenon
        <5> HIDE DEF after
        <5>2. QED
          BY <3>1, <5>1
  <2>2. limiter' = [l \in stored |-> after(limiter[l])]
    BY <1>13 DEF MinutePasses, IdleLimiter
  <2> HIDE DEF after
  <2>3. /\ DOMAIN limiter' = stored /\ limiter' \in [DOMAIN limiter' -> Limiter]
        /\ \A m \in DOMAIN limiter' : limiter'[m].tokens <= limiter'[m].burst
    BY <2>1, <2>2 DEF ApiTypeOK
  <2>4. QED
    BY <1>13, <2>3 DEF MinutePasses, ApiTypeOK
<1>14. CASE UNCHANGED apiVars
  BY <1>14 DEF apiVars, ApiTypeOK
<1>15. QED
  BY <1>1, <1>2, <1>3, <1>4, <1>5, <1>6, <1>7, <1>8, <1>9, <1>10, <1>11, <1>12, <1>13, <1>14, <1>20, <1>21 DEF ApiNext

LEMMA KeysStep ==
  ASSUME ApiTypeOK, InsertedInv, OneKey, [ApiNext]_apiVars
  PROVE  InsertedInv' /\ OneKey'
<1>1. CASE UNCHANGED <<owner, live, keyForm>>
  BY <1>1 DEF InsertedInv, OneKey, KeysOf
\* A form that is not inserted takes nothing from the others.
<1>2. ASSUME NEW o \in Operators, UNCHANGED owner, live' \subseteq live, keyForm'[o].at # "inserted",
             \A p \in Operators \ {o} : keyForm'[p] = keyForm[p]
      PROVE  InsertedInv' /\ OneKey'
  <2>1. OneKey'
    BY <1>2 DEF OneKey
  <2>2. \A p \in Operators : keyForm'[p].at = "inserted" => keyForm'[p] = keyForm[p]
    BY <1>2
  <2>3. \A c : KeysOf(c)' \subseteq KeysOf(c)
    BY <1>2 DEF KeysOf
  <2>4. InsertedInv'
    BY <1>2, <2>2, <2>3 DEF InsertedInv
  <2>5. QED
    BY <2>1, <2>4
<1>3. ASSUME NEW o \in Operators, NEW c \in ApiClients, NEW op \in {"generate", "revoke"}, BeginUpdate(o, c, op)
      PROVE  InsertedInv' /\ OneKey'
  BY <1>2, <1>3 DEF BeginUpdate, ApiTypeOK
<1>4. ASSUME NEW o \in Operators, Update(o) PROVE InsertedInv' /\ OneKey'
  <2>1. keyForm[o] \in KeyForm
    BY <1>4, FormGoes DEF Update
  <2>2. [keyForm[o] EXCEPT !.at = "locked", !.old = keyForm[o].old \cap live].at = "locked"
    BY <2>1 DEF KeyForm
  <2>3. keyForm'[o].at # "inserted"
    BY <1>4, <2>2, CallKinds DEF Update, ApiTypeOK
  <2>4. UNCHANGED owner /\ live' \subseteq live /\ \A p \in Operators \ {o} : keyForm'[p] = keyForm[p]
    BY <1>4 DEF Update, ApiTypeOK
  <2>5. QED
    BY <1>2, <2>3, <2>4
<1>5. ASSUME NEW o \in Operators, RollbackKey(o) PROVE InsertedInv' /\ OneKey'
  <2>1. keyForm'[o].at # "inserted"
    BY <1>5, CallKinds DEF RollbackKey, ApiTypeOK
  <2>2. QED
    BY <1>2, <1>5, <2>1 DEF RollbackKey, ApiTypeOK
<1>6. ASSUME NEW o \in Operators, Insert(o) PROVE InsertedInv' /\ OneKey'
  <2>1. keyForm[o] \in KeyForm
    BY <1>6, FormGoes DEF Insert
  <2>2. PICK k \in NewKeys : keyForm' = [keyForm EXCEPT ![o].at = "inserted", ![o].new = {k}]
    BY <1>6 DEF Insert
  <2>3. LET f == [keyForm[o] EXCEPT !.at = "inserted", !.new = {k}]
        IN f.at = "inserted" /\ f.new = {k} /\ f.client = keyForm[o].client /\ f.old = keyForm[o].old
    BY <2>1 DEF KeyForm
  <2>4. /\ keyForm'[o].at = "inserted" /\ keyForm'[o].new = {k}
        /\ keyForm'[o].client = keyForm[o].client /\ keyForm'[o].old = keyForm[o].old
        /\ \A p \in Operators \ {o} : keyForm'[p] = keyForm[p]
    BY <2>2, <2>3 DEF ApiTypeOK
  <2>5. k \notin DOMAIN owner /\ \A p \in Operators : keyForm[p].at = "inserted" => k \notin keyForm[p].new
    BY DEF NewKeys
  <2>6. UNCHANGED <<owner, live>> /\ Insertable(o)
    BY <1>6 DEF Insert
  <2>7. \A c : KeysOf(c)' = KeysOf(c)
    BY <2>6 DEF KeysOf
  <2>8. InsertedInv'
    BY <2>4, <2>5, <2>6, <2>7 DEF InsertedInv, Insertable
  <2>9. QED
    BY <2>6, <2>8 DEF OneKey
<1>7. ASSUME NEW o \in Operators, CommitKey(o) PROVE InsertedInv' /\ OneKey'
  <2>1. PICK K, c, old : K = keyForm[o].new /\ c = keyForm[o].client /\ old = keyForm[o].old
    OBVIOUS
  <2>2. /\ owner' = [k \in DOMAIN owner \cup K |-> IF k \in K THEN c ELSE owner[k]]
        /\ live' = (live \ old) \cup K
        /\ keyForm'[o].at # "inserted" /\ \A p \in Operators \ {o} : keyForm'[p] = keyForm[p]
    BY <1>7, <2>1, CallKinds DEF CommitKey, ApiTypeOK
  <2>3. /\ \A k \in K : k \notin DOMAIN owner
        /\ \A k, l \in K : k = l
        /\ \A k \in live : owner[k] = c => k \in old
        /\ \A p \in Operators \ {o} : keyForm[p].at = "inserted" => keyForm[p].client # c /\ keyForm[p].new \cap K = {}
    BY <1>7, <2>1 DEF CommitKey, InsertedInv, KeysOf
  <2>4. \A k \in live' : (k \in K /\ owner'[k] = c) \/ (k \in live \ old /\ owner'[k] = owner[k] /\ owner[k] # c)
    BY <2>2, <2>3 DEF ApiTypeOK
  <2>5. OneKey'
    BY <2>3, <2>4 DEF OneKey
  <2>6. \A d : d # c => KeysOf(d)' \subseteq KeysOf(d)
    BY <2>4 DEF KeysOf
  <2>7. InsertedInv'
    BY <2>2, <2>3, <2>6 DEF InsertedInv
  <2>8. QED
    BY <2>5, <2>7
<1>8. ASSUME NEW c \in ApiClients, ToggleClientStatus(c) PROVE UNCHANGED <<owner, live, keyForm>>
  BY <1>8 DEF ToggleClientStatus
<1>9. ASSUME NEW r \in Callers,
             ValidateAPIKey(r) \/ GetClient(r) \/ CallFails(r) \/ readRateLimitPerMinute(r)
      PROVE  UNCHANGED <<owner, live, keyForm>>
  BY <1>9 DEF ValidateAPIKey, GetClient, CallFails, readRateLimitPerMinute
<1>10. ASSUME NEW r \in Callers, NEW k \in ApiKeys, Call(r, k) PROVE UNCHANGED <<owner, live, keyForm>>
  BY <1>10 DEF Call
<1>11. ASSUME NEW r \in Callers, LoadLimiter(r) \/ StoreLimiter(r) \/ Answered(r)
       PROVE  UNCHANGED <<owner, live, keyForm>>
  BY <1>11 DEF LoadLimiter, StoreLimiter, Answered
<1>12. ASSUME NEW r \in Callers, NEW l \in Limiters, TouchLimiter(r, l) \/ allowForClient(r, l)
       PROVE  UNCHANGED <<owner, live, keyForm>>
  BY <1>12 DEF TouchLimiter, allowForClient
<1>16. ASSUME NEW r \in Callers, NEW c \in ApiClients, VisitLimiter(r, c) \/ DeleteLimiter(r, c)
       PROVE  UNCHANGED <<owner, live, keyForm>>
  BY <1>16 DEF VisitLimiter, DeleteLimiter
<1>13. CASE MinutePasses
  BY <1>1, <1>13 DEF MinutePasses
<1>14. CASE UNCHANGED apiVars
  BY <1>1, <1>14 DEF apiVars
<1>15. QED
  BY <1>1, <1>3, <1>4, <1>5, <1>6, <1>7, <1>8, <1>9, <1>11, <1>12, <1>13, <1>14, <1>10, <1>16 DEF ApiNext

LEMMA OtherCalls ==
  ASSUME NEW r \in Callers, CallOK(r), UNCHANGED <<owner, live, enabled>>, call'[r] = call[r],
         \A l \in DOMAIN limiter : l \in DOMAIN limiter' /\ (limiter[l].idle = 0 => limiter'[l].idle = 0)
  PROVE  CallOK(r)'
BY DEF CallOK, At

\* One call moves, or ends, and the limiters in use stay in use.
LEMMA CallMoves ==
  ASSUME ApiTypeOK, CallsInv, NEW r \in Callers, UNCHANGED <<owner, live, enabled>>,
         \A q \in Callers \ {r} : call'[q] = call[q], CallOK(r)',
         \A l \in DOMAIN limiter : l \in DOMAIN limiter' /\ (limiter[l].idle = 0 => limiter'[l].idle = 0)
  PROVE  CallsInv'
BY OtherCalls DEF CallsInv

LEMMA CallEnds ==
  ASSUME ApiTypeOK, NEW r \in Callers, Done(r)
  PROVE  /\ \A q \in Callers \ {r} : call'[q] = call[q]
         /\ call'[r].at = "idle" /\ CallOK(r)'
<1>1. call'[r] = NoCall /\ \A q \in Callers \ {r} : call'[q] = call[q]
  BY DEF Done, ApiTypeOK
<1>2. QED
  BY <1>1, CallKinds DEF CallOK, At, Passed, Limiting

LEMMA CallsStep ==
  ASSUME ApiTypeOK, InsertedInv, LimitersInv, CallsInv, [ApiNext]_apiVars
  PROVE  CallsInv'
<1>0. {} \in SUBSET Limiters /\ 0 \in Limits \cup {0} /\ Limits \subseteq Limits \cup {0}
      /\ {"rows", "known", "limited", "found", "missing", "cleaning", "held", "admitted"} \subseteq {"rows"} \cup Passed
  BY DEF Passed, Limiting
<1>1. ASSUME UNCHANGED <<call, enabled, limiter>>, \A k \in DOMAIN owner : k \in DOMAIN owner' /\ owner'[k] = owner[k],
             \A k \in DOMAIN owner : k \in live' => k \in live
      PROVE  CallsInv'
  BY <1>1 DEF CallsInv, CallOK, At
<1>2. ASSUME NEW o \in Operators, NEW c \in ApiClients, NEW op \in {"generate", "revoke"},
             BeginUpdate(o, c, op)
      PROVE  CallsInv'
  BY <1>1, <1>2 DEF BeginUpdate
<1>3. ASSUME NEW o \in Operators, Update(o) \/ Insert(o) \/ RollbackKey(o) PROVE CallsInv'
  BY <1>1, <1>3 DEF Update, Insert, RollbackKey
<1>4. ASSUME NEW o \in Operators, CommitKey(o) PROVE CallsInv'
  <2>1. \A k \in DOMAIN owner : k \notin keyForm[o].new
    BY <1>4 DEF InsertedInv, CommitKey
  <2>2. QED
    BY <1>1, <1>4, <2>1 DEF CommitKey
<1>5. ASSUME NEW c \in ApiClients, ToggleClientStatus(c) PROVE CallsInv'
  <2> SUFFICES ASSUME NEW r \in Callers PROVE CallOK(r)'
    BY DEF CallsInv
  <2>1. UNCHANGED <<owner, live, limiter>> /\ enabled' \subseteq enabled \cup {c} /\ CallOK(r)
        /\ (c \in enabled => enabled' \subseteq enabled)
    BY <1>5 DEF ToggleClientStatus, CallsInv
  <2>2. CASE c \notin enabled /\ ~At(r, "idle") /\ call[r].client = c
    <3>1. call'[r] = [call[r] EXCEPT !.off = FALSE]
      BY <1>5, <2>2 DEF ToggleClientStatus
    <3>2. \A f \in QueuedCall : LET g == [f EXCEPT !.off = FALSE]
            IN g.at = f.at /\ g.key = f.key /\ g.client = f.client /\ g.stale = f.stale /\ g.off = FALSE
      BY DEF QueuedCall
    <3>3. \A f \in FoundCall : LET g == [f EXCEPT !.off = FALSE]
            IN g.at = f.at /\ g.client = f.client /\ g.stale = f.stale /\ g.off = FALSE
               /\ g.burst = f.burst /\ g.limiter = f.limiter
      BY DEF FoundCall
    <3>4. CASE At(r, "queued")
      BY <2>1, <2>2, <3>1, <3>2, <3>4, CallUnderWay DEF CallOK, At, Passed, Limiting
    <3>5. CASE ~At(r, "queued")
      BY <2>1, <2>2, <3>1, <3>3, <3>5, CallUnderWay DEF CallOK, At, Passed, Limiting
    <3>6. QED
      BY <3>4, <3>5
  <2>3. CASE ~(c \notin enabled /\ ~At(r, "idle") /\ call[r].client = c)
    <3>1. call'[r] = call[r]
      BY <1>5, <2>3 DEF ToggleClientStatus
    <3>2. QED
      BY <2>1, <2>3, <3>1 DEF CallOK, At
  <2>4. QED
    BY <2>2, <2>3
<1>6. ASSUME NEW r \in Callers, NEW k \in ApiKeys, Call(r, k) PROVE CallsInv'
  <2>1. /\ call'[r] = [at |-> "queued", key |-> k, client |-> owner[k], stale |-> k \notin live, off |-> owner[k] \notin enabled]
        /\ \A q \in Callers \ {r} : call'[q] = call[q]
    BY <1>6 DEF Call, ApiTypeOK
  <2>2. CallOK(r)'
    <3>1. /\ call'[r].at = "queued" /\ call'[r].key = k /\ call'[r].client = owner[k]
          /\ call'[r].stale = (k \notin live) /\ call'[r].off = (owner[k] \notin enabled)
      BY <2>1
    <3>2. UNCHANGED <<owner, live, enabled>> /\ k \in DOMAIN owner
      BY <1>6 DEF Call
    <3>3. CallOK(r)'
      BY <3>1, <3>2 DEF CallOK, At, Passed, Limiting
    <3>4. QED
      BY <3>3
  <2>3. QED
    BY <1>6, <2>1, <2>2, CallMoves DEF Call
<1>7. ASSUME NEW r \in Callers, ValidateAPIKey(r) PROVE CallsInv'
  <2>1. CASE ValidKey(r)
    <3>1. Go(r, "rows", 0, {}) /\ ~At(r, "idle") /\ At(r, "queued")
      BY <1>7, <2>1 DEF ValidateAPIKey, At
    <3>2. ~call[r].stale /\ ~call[r].off
      BY <2>1, <3>1, CallUnderWay DEF CallsInv, CallOK, ValidKey
    <3>3. call'[r] = [at |-> "rows", client |-> call[r].client, stale |-> call[r].stale,
                      off |-> call[r].off, burst |-> 0, limiter |-> {}]
          /\ \A q \in Callers \ {r} : call'[q] = call[q]
      BY <1>0, <3>1, GoesOn
    <3>4. CallOK(r)'
      BY <3>2, <3>3 DEF CallOK, At
    <3>5. QED
      BY <1>7, <3>3, <3>4, CallMoves DEF ValidateAPIKey
  <2>2. CASE ~ValidKey(r)
    BY <1>7, <2>2, CallEnds, CallMoves DEF ValidateAPIKey
  <2>3. QED
    BY <2>1, <2>2
\* From the rows on a call keeps what it was found to be.
<1>8. ASSUME NEW r \in Callers, call[r].at \in {"rows"} \cup Passed, UNCHANGED <<owner, live, enabled>>,
             NEW where \in {"known", "limited", "found", "missing", "cleaning", "held", "admitted"},
             NEW burst \in Limits \cup {0}, NEW used \in SUBSET Limiters, Go(r, where, burst, used),
             where \in {"limited", "missing"} => burst \in Limits,
             where = "found" => used \subseteq DOMAIN limiter' /\ \A l, m \in used : l = m,
             where \in {"cleaning", "held"} => \A l \in used : l \in DOMAIN limiter' /\ limiter'[l].idle = 0,
             \A l \in DOMAIN limiter : l \in DOMAIN limiter' /\ (limiter[l].idle = 0 => limiter'[l].idle = 0)
      PROVE  CallsInv'
  <2>1. ~At(r, "idle") /\ ~call[r].stale /\ ~call[r].off
    BY <1>8 DEF CallsInv, CallOK, At, Passed, Limiting
  <2>2. where \in {"rows"} \cup Passed
    BY DEF Passed, Limiting
  <2>3. call'[r] = [at |-> where, client |-> call[r].client, stale |-> call[r].stale,
                    off |-> call[r].off, burst |-> burst, limiter |-> used]
        /\ \A q \in Callers \ {r} : call'[q] = call[q]
    BY <1>8, <2>1, <2>2, GoesOn
  <2>4. CallOK(r)'
    BY <1>8, <2>1, <2>3 DEF CallOK, At
  <2>5. QED
    BY <1>8, <2>3, <2>4, CallMoves
<1>9. ASSUME NEW r \in Callers, GetClient(r) PROVE CallsInv'
  <2>1. CASE Go(r, "known", 0, {})
    BY <1>0, <1>8, <1>9, <2>1 DEF GetClient, At
  <2>2. CASE Done(r)
    BY <1>9, <2>2, CallEnds, CallMoves DEF GetClient
  <2>3. QED
    BY <1>9, <2>1, <2>2 DEF GetClient
<1>10. ASSUME NEW r \in Callers, CallFails(r) \/ Answered(r) PROVE CallsInv'
  BY <1>10, CallEnds, CallMoves DEF CallFails, Answered
<1>11. ASSUME NEW r \in Callers, readRateLimitPerMinute(r) PROVE CallsInv'
  <2>1. PICK n \in Limits : Go(r, "limited", n, {})
    BY <1>11 DEF readRateLimitPerMinute
  <2>2. QED
    BY <1>0, <1>8, <1>11, <2>1 DEF readRateLimitPerMinute, At
<1>12. ASSUME NEW r \in Callers, LoadLimiter(r) PROVE CallsInv'
  <2> DEFINE known == LimiterOf(call[r].client)
  <2>1. known \subseteq DOMAIN limiter /\ known \in SUBSET Limiters /\ call[r].at \in {"rows"} \cup Passed
        /\ call[r].burst \in Limits /\ UNCHANGED <<owner, live, enabled, limiter>> /\ \A l, m \in known : l = m
    BY <1>0, <1>12 DEF LoadLimiter, LimiterOf, LimitersInv, ApiTypeOK, At, CallsInv, CallOK
  <2>2. CASE Go(r, "missing", call[r].burst, {})
    BY <1>0, <1>8, <2>1, <2>2
  <2>3. CASE Go(r, "found", 0, known)
    BY <1>0, <1>8, <2>1, <2>3
  <2>4. QED
    BY <1>12, <2>2, <2>3 DEF LoadLimiter
<1>18. ASSUME NEW r \in Callers, NEW l \in Limiters, TouchLimiter(r, l) PROVE CallsInv'
  <2>1. l \in DOMAIN limiter /\ call[r].at \in {"rows"} \cup Passed /\ Go(r, "held", 0, {l})
        /\ UNCHANGED <<owner, live, enabled>> /\ limiter' = [limiter EXCEPT ![l].idle = 0]
    BY <1>0, <1>18 DEF TouchLimiter, CallsInv, CallOK, At
  <2>2. \A f \in Limiter : [f EXCEPT !.idle = 0].idle = 0
    BY DEF Limiter
  <2>3. \A m \in DOMAIN limiter : m \in DOMAIN limiter' /\ (m = l \/ limiter[m].idle = 0 => limiter'[m].idle = 0)
    BY <2>1, <2>2 DEF ApiTypeOK
  <2>4. QED
    BY <1>0, <1>8, <2>1, <2>3
<1>19. ASSUME NEW r \in Callers, NEW c \in ApiClients, VisitLimiter(r, c) \/ DeleteLimiter(r, c) PROVE CallsInv'
  BY <1>1, <1>19 DEF VisitLimiter, DeleteLimiter
<1>13. ASSUME NEW r \in Callers, StoreLimiter(r) PROVE CallsInv'
  <2> DEFINE new == CHOOSE l \in Limiters : l \notin DOMAIN limiter
             made == [client |-> call[r].client, burst |-> call[r].burst, tokens |-> call[r].burst, idle |-> 0]
  <2>1. new \in Limiters /\ new \notin DOMAIN limiter
    BY <1>13 DEF StoreLimiter, ApiTypeOK
  <2>2. Go(r, "cleaning", 0, {new}) /\ {new} \in SUBSET Limiters /\ call[r].at \in {"rows"} \cup Passed
        /\ UNCHANGED <<owner, live, enabled>>
    BY <1>0, <1>13, <2>1 DEF StoreLimiter, At
  <2>3. limiter' = [l \in DOMAIN limiter \cup {new} |-> IF l = new THEN made ELSE limiter[l]]
    BY <1>13 DEF StoreLimiter
  <2>4. made.idle = 0
    OBVIOUS
  <2> HIDE DEF new, made
  <2>5. new \in DOMAIN limiter' /\ limiter'[new].idle = 0
        /\ \A l \in DOMAIN limiter : l \in DOMAIN limiter' /\ limiter'[l] = limiter[l]
    BY <2>1, <2>3, <2>4
  <2>6. QED
    BY <1>0, <1>8, <2>2, <2>5
<1>14. ASSUME NEW r \in Callers, NEW l \in Limiters, allowForClient(r, l) PROVE CallsInv'
  <2>1. l \in DOMAIN limiter /\ call[r].at \in {"rows"} \cup Passed /\ UNCHANGED <<owner, live, enabled>>
    BY <1>0, <1>14 DEF allowForClient, Cleaned, CallsInv, CallOK, At
  <2>2. CASE limiter[l].tokens > 0
    <3>1. Go(r, "admitted", 0, {}) /\ limiter' = [limiter EXCEPT ![l].tokens = @ - 1]
      BY <1>14, <2>2 DEF allowForClient
    <3>2. \A f \in Limiter, n \in Int : [f EXCEPT !.tokens = n].idle = f.idle
      BY DEF Limiter
    <3>3. limiter[l].tokens - 1 \in Int /\ limiter[l] \in Limiter
      BY <2>1, CallKinds DEF ApiTypeOK
    <3>4. \A m \in DOMAIN limiter : m \in DOMAIN limiter' /\ limiter'[m].idle = limiter[m].idle
      BY <2>1, <3>1, <3>2, <3>3 DEF ApiTypeOK
    <3>5. QED
      BY <1>0, <1>8, <2>1, <3>1, <3>4
  <2>3. CASE ~(limiter[l].tokens > 0)
    BY <1>14, <2>1, <2>3, CallEnds, CallMoves DEF allowForClient
  <2>4. QED
    BY <2>2, <2>3
<1>15. CASE MinutePasses
  BY <1>15 DEF MinutePasses, CallsInv, CallOK, At, Limiting
<1>16. CASE UNCHANGED apiVars
  BY <1>1, <1>16 DEF apiVars
<1>17. QED
  BY <1>2, <1>3, <1>4, <1>5, <1>6, <1>7, <1>9, <1>10, <1>11, <1>12, <1>13, <1>14, <1>15, <1>16, <1>18, <1>19 DEF ApiNext

\* Limiters that are awake and calls that miss one, as one call moves.
LEMMA MissingFinite == \A c : IsFiniteSet(Missing(c)) /\ Cardinality(Missing(c)) \in Nat
                              /\ Cardinality(Missing(c)) <= Cardinality(Callers) /\ Cardinality(Callers) \in Nat
<1> TAKE c
<1>1. Missing(c) \subseteq Callers
  BY DEF Missing
<1>2. QED
  BY <1>1, ApiAssumption, FS_Subset, FS_CardinalityType

LEMMA Rooms ==
  ASSUME ApiTypeOK, NEW c \in ApiClients
  PROVE  Room(c) \in Nat /\ Cardinality(Callers) * (1 + swept[c]) = Room(c) + Cardinality(Callers)
<1>1. \A m, n \in Nat : m * n \in Nat /\ m * (1 + n) = m * n + m
  OBVIOUS
<1>2. QED
  BY <1>1, MissingFinite DEF Room, ApiTypeOK

\* Nothing new is drawn on, and a limiter in use stays stored.
LEMMA DrawnKept ==
  ASSUME ApiTypeOK, NEW c \in ApiClients, DrawnOf(c), Awake(c)' \subseteq Awake(c), Missing(c)' \subseteq Missing(c),
         swept'[c] = swept[c], Awake(c)' \cap stored' = {} => Awake(c) \cap stored = {}
  PROVE  DrawnOf(c)'
<1>1. IsFiniteSet(Awake(c)') /\ Cardinality(Awake(c)') <= Cardinality(Awake(c))
      /\ Cardinality(Awake(c)') \in Nat /\ Cardinality(Awake(c)) \in Nat
  BY FS_Subset, FS_CardinalityType DEF DrawnOf
<1>2. Cardinality(Missing(c)') <= Cardinality(Missing(c)) /\ Cardinality(Missing(c)') \in Nat
  BY MissingFinite, FS_Subset, FS_CardinalityType
<1>3. Room(c)' = Room(c) /\ Room(c) \in Nat
  BY Rooms DEF Room
<1>4. QED
  BY <1>1, <1>2, <1>3, MissingFinite DEF DrawnOf

\* Nothing happens to the limiters, and no call finds or misses one that had not.
LEMMA LimitersAlone ==
  ASSUME ApiTypeOK, LimitersInv, DrawnInv, UNCHANGED <<limiter, stored, swept>>,
         \A q \in Callers : call'[q].at = "missing" => At(q, "missing") /\ call'[q].client = call[q].client,
         \A q \in Callers : call'[q].at = "found" => At(q, "found") /\ call'[q].limiter = call[q].limiter,
         \A q \in Callers : At(q, "found") => call'[q].at = "found"
  PROVE  LimitersInv' /\ DrawnInv'
<1>1. \A l : InHand(l)' <=> InHand(l)
  BY DEF InHand, At
<1>2. \A c : Awake(c)' = Awake(c) /\ Missing(c)' \subseteq Missing(c)
  BY <1>1 DEF Awake, IdleLimiter, Missing, At
<1>3. DrawnInv'
  BY <1>2, DrawnKept DEF DrawnInv
<1>4. QED
  BY <1>3 DEF LimitersInv, IdleLimiter

\* The client's limiter is found, idle or not, or there is none.
LEMMA LoadStep ==
  ASSUME ApiTypeOK, LimitersInv, DrawnInv, NEW r \in Callers, LoadLimiter(r)
  PROVE  LimitersInv' /\ DrawnInv'
<1>1. PICK c0, known : c0 = call[r].client /\ known = LimiterOf(c0)
  OBVIOUS
<1>2. /\ At(r, "limited") /\ ~At(r, "idle") /\ c0 \in ApiClients /\ UNCHANGED <<limiter, stored, swept>>
      /\ known \subseteq stored /\ stored \subseteq DOMAIN limiter /\ \A l \in known : limiter[l].client = c0
      /\ \A l \in stored : limiter[l].client = c0 => l \in known
  BY <1>1, CallUnderWay DEF LoadLimiter, LimiterOf, ApiTypeOK, At
<1>3. LimitersInv'
  BY <1>2 DEF LimitersInv, IdleLimiter
<1>4. /\ \A q \in Callers \ {r} : call'[q] = call[q]
      /\ call'[r].client = c0
      /\ \/ known = {} /\ call'[r].at = "missing"
         \/ known # {} /\ call'[r].at = "found" /\ call'[r].limiter = known
  BY <1>1 DEF LoadLimiter, Go, ApiTypeOK
<1>5. \A c \in ApiClients \ {c0} : Missing(c)' \subseteq Missing(c)
  BY <1>4 DEF Missing, At
<1>6. CASE known = {}
  <2>1. \A l : InHand(l)' <=> InHand(l)
    BY <1>2, <1>4, <1>6 DEF InHand, At
  <2>2. \A c : Awake(c)' = Awake(c)
    BY <1>2, <2>1 DEF Awake, IdleLimiter
  <2>3. Awake(c0) \cap stored = {}
    BY <1>2, <1>6 DEF Awake
  <2>4. DrawnOf(c0)'
    <3>1. IsFiniteSet(Awake(c0)) /\ Cardinality(Awake(c0)) \in Nat /\ Cardinality(Awake(c0)) <= Room(c0)
      BY <1>2, <2>3, FS_CardinalityType DEF DrawnInv, DrawnOf
    <3>2. Room(c0)' = Room(c0) /\ Room(c0) \in Nat
      BY <1>2, Rooms DEF Room
    <3>3. /\ Cardinality(Missing(c0)') \in Nat /\ Cardinality(Missing(c0)') <= Cardinality(Callers)
          /\ Cardinality(Callers) \in Nat
      <4>1. Missing(c0)' \subseteq Callers
        BY DEF Missing
      <4>2. QED
        BY <4>1, ApiAssumption, FS_Subset, FS_CardinalityType
    <3>4. QED
      BY <2>2, <3>1, <3>2, <3>3 DEF DrawnOf
  <2>5. DrawnInv'
    BY <1>2, <1>5, <2>2, <2>4, DrawnKept DEF DrawnInv
  <2>6. QED
    BY <1>3, <2>5
<1>7. CASE known # {}
  <2>1. PICK l \in known : known = {l}
    BY <1>2, <1>7 DEF LimitersInv
  <2>2. \A m : InHand(m)' <=> InHand(m) \/ m = l
    BY <1>2, <1>4, <1>7, <2>1 DEF InHand, At
  <2>3. /\ \A c \in ApiClients \ {c0} : Awake(c)' = Awake(c)
        /\ Awake(c0)' = Awake(c0) \cup {l}
    BY <1>2, <2>1, <2>2 DEF Awake, IdleLimiter
  <2>4. Missing(c0)' \subseteq Missing(c0) /\ Missing(c0)' \subseteq Callers \ {r}
    BY <1>4, <1>7 DEF Missing, At
  <2>5. DrawnOf(c0)'
    <3>1. CASE l \in Awake(c0)
      BY <1>2, <2>1, <2>3, <2>4, <3>1, DrawnKept DEF DrawnInv
    <3>2. CASE l \notin Awake(c0)
      <4>1. Awake(c0) \cap stored = {}
        BY <1>2, <2>1, <3>2 DEF Awake
      <4>2. IsFiniteSet(Awake(c0)) /\ Cardinality(Awake(c0)) \in Nat /\ Cardinality(Awake(c0)) <= Room(c0)
        BY <1>2, <4>1, FS_CardinalityType DEF DrawnInv, DrawnOf
      <4>3. IsFiniteSet(Awake(c0)') /\ Cardinality(Awake(c0)') = Cardinality(Awake(c0)) + 1
        BY <2>3, <3>2, <4>2, FS_AddElement
      <4>4. Cardinality(Missing(c0)') \in Nat /\ Cardinality(Missing(c0)') <= Cardinality(Callers) - 1
        <5>1. IsFiniteSet(Callers \ {r}) /\ Cardinality(Callers \ {r}) = Cardinality(Callers) - 1
          BY ApiAssumption, FS_RemoveElement
        <5>2. QED
          BY <2>4, <5>1, FS_Subset, FS_CardinalityType
      <4>5. Room(c0)' = Room(c0) /\ Room(c0) \in Nat
        BY <1>2, Rooms DEF Room
      <4>6. l \in Awake(c0)' \cap stored'
        BY <1>2, <2>1, <2>3
      <4>7. QED
        <5>1. Cardinality(Callers) \in Nat
          BY ApiAssumption, FS_CardinalityType
        <5>2. Cardinality(Awake(c0)') + Cardinality(Missing(c0)') <= Room(c0)' + Cardinality(Callers)
          BY ONLY <4>2, <4>3, <4>4, <4>5, <5>1
        <5>3. QED
          BY <4>3, <4>6, <5>2 DEF DrawnOf
    <3>3. QED
      BY <3>1, <3>2
  <2>6. DrawnInv'
    BY <1>2, <1>5, <2>3, <2>5, DrawnKept DEF DrawnInv
  <2>7. QED
    BY <1>3, <2>6
<1>8. QED
  BY <1>6, <1>7

\* The limiter in a call's hand is awake already.
LEMMA TouchStep ==
  ASSUME ApiTypeOK, CallsInv, LimitersInv, DrawnInv, NEW r \in Callers, NEW l \in Limiters, TouchLimiter(r, l)
  PROVE  LimitersInv' /\ DrawnInv'
<1>1. /\ At(r, "found") /\ l \in call[r].limiter /\ l \in DOMAIN limiter /\ limiter[l] \in Limiter
      /\ limiter' = [limiter EXCEPT ![l].idle = 0] /\ UNCHANGED <<stored, swept>> /\ stored \subseteq DOMAIN limiter
  BY DEF TouchLimiter, CallsInv, CallOK, ApiTypeOK
<1>2. \A f \in Limiter : LET g == [f EXCEPT !.idle = 0]
        IN g.client = f.client /\ g.tokens = f.tokens /\ g.burst = f.burst /\ g.idle = 0
  BY DEF Limiter
<1>3. /\ DOMAIN limiter' = DOMAIN limiter
      /\ \A m \in DOMAIN limiter : /\ limiter'[m].client = limiter[m].client /\ limiter'[m].tokens = limiter[m].tokens
                                   /\ limiter'[m].burst = limiter[m].burst
                                   /\ limiter'[m].idle = IF m = l THEN 0 ELSE limiter[m].idle
  BY <1>1, <1>2 DEF ApiTypeOK
<1>4. \A m \in DOMAIN limiter : IdleLimiter(m)' <=> IdleLimiter(m) /\ m # l
  BY <1>3, ApiAssumption DEF IdleLimiter
<1>5. call'[r].at = "held" /\ \A q \in Callers \ {r} : call'[q] = call[q]
  BY DEF TouchLimiter, Go, ApiTypeOK
<1>6. (\A m : InHand(m)' => InHand(m)) /\ InHand(l)
  BY <1>1, <1>5 DEF InHand, At
<1>7. \A m : InHand(m) => InHand(m)' \/ m \in call[r].limiter
  BY <1>5 DEF InHand, At
<1>8. \A c : Awake(c)' \subseteq Awake(c) /\ Missing(c)' \subseteq Missing(c)
  BY <1>1, <1>3, <1>4, <1>5, <1>6 DEF Awake, Missing, At
<1>9. call[r].limiter = {l}
  BY <1>1 DEF CallsInv, CallOK
<1>10. \A c : Awake(c) \subseteq Awake(c)'
  BY <1>1, <1>3, <1>4, <1>7, <1>9 DEF Awake
<1>11. DrawnInv'
  BY <1>1, <1>8, <1>10, DrawnKept DEF DrawnInv
<1>12. QED
  BY <1>1, <1>3, <1>4, <1>11 DEF LimitersInv

LEMMA StoreStep ==
  ASSUME ApiTypeOK, CallsInv, LimitersInv, DrawnInv, NEW r \in Callers, StoreLimiter(r)
  PROVE  LimitersInv' /\ DrawnInv'
<1>1. PICK c0, burst, new : c0 = call[r].client /\ burst = call[r].burst /\ new = CHOOSE l \in Limiters : l \notin DOMAIN limiter
  OBVIOUS
<1>2. /\ At(r, "missing") /\ ~At(r, "idle") /\ c0 \in ApiClients /\ stored \subseteq DOMAIN limiter
      /\ new \in Limiters /\ new \notin DOMAIN limiter /\ UNCHANGED swept
  BY <1>1, CallUnderWay DEF StoreLimiter, ApiTypeOK, At
<1>3. /\ limiter' = [l \in DOMAIN limiter \cup {new} |->
                      IF l = new THEN [client |-> c0, burst |-> burst, tokens |-> burst, idle |-> 0] ELSE limiter[l]]
      /\ stored' = {new} \cup (stored \ LimiterOf(c0))
      /\ Go(r, "cleaning", 0, {new})
  BY <1>1 DEF StoreLimiter
<1>4. /\ DOMAIN limiter' = DOMAIN limiter \cup {new}
      /\ \A l \in DOMAIN limiter : limiter'[l] = limiter[l]
      /\ limiter'[new].client = c0 /\ limiter'[new].tokens = limiter'[new].burst /\ limiter'[new].idle = 0
  BY <1>2, <1>3
<1>5. (\A l \in DOMAIN limiter : IdleLimiter(l)' <=> IdleLimiter(l)) /\ ~IdleLimiter(new)'
  BY <1>4, ApiAssumption DEF IdleLimiter
<1>6. call'[r].at = "cleaning" /\ \A q \in Callers \ {r} : call'[q] = call[q]
  BY <1>3 DEF Go, ApiTypeOK
<1>7. \A l : InHand(l)' <=> InHand(l)
  BY <1>2, <1>6 DEF InHand, At
<1>8. /\ \A c \in ApiClients \ {c0} : Awake(c)' = Awake(c)
      /\ Awake(c0)' = Awake(c0) \cup {new} /\ new \notin Awake(c0)
  BY <1>2, <1>4, <1>5, <1>7 DEF Awake
<1>9. (\A c \in ApiClients \ {c0} : Missing(c)' \subseteq Missing(c)) /\ Missing(c0)' = Missing(c0) \ {r} /\ r \in Missing(c0)
  BY <1>1, <1>2, <1>6 DEF Missing, At
<1>10. LimitersInv'
  <2>1. \A l \in stored' : l = new \/ (l \in stored /\ limiter[l].client # c0 /\ limiter'[l] = limiter[l])
    BY <1>2, <1>3, <1>4 DEF LimiterOf
  <2>2. \A l, m \in stored' : limiter'[l].client = limiter'[m].client => l = m
    BY <1>4, <2>1 DEF LimitersInv
  <2>3. \A l \in DOMAIN limiter' : IdleLimiter(l)' => limiter'[l].tokens = limiter'[l].burst
    BY <1>4, <1>5 DEF LimitersInv
  <2>4. QED
    BY <2>2, <2>3 DEF LimitersInv
<1>11. DrawnOf(c0)'
  <2>1. /\ IsFiniteSet(Awake(c0)') /\ Cardinality(Awake(c0)') = Cardinality(Awake(c0)) + 1
        /\ Cardinality(Awake(c0)) \in Nat
    BY <1>2, <1>8, FS_AddElement, FS_CardinalityType DEF DrawnInv, DrawnOf
  <2>2. Cardinality(Missing(c0)') = Cardinality(Missing(c0)) - 1
    BY <1>9, MissingFinite, FS_RemoveElement
  <2>3. Room(c0)' = Room(c0) /\ Room(c0) \in Nat
    BY <1>2, Rooms DEF Room
  <2>4. new \in Awake(c0)' \cap stored'
    BY <1>3, <1>8
  <2>5. Cardinality(Awake(c0)) + Cardinality(Missing(c0)) <= Room(c0) + Cardinality(Callers)
    BY <1>2 DEF DrawnInv, DrawnOf
  <2>6. QED
    BY <2>1, <2>2, <2>3, <2>4, <2>5, MissingFinite DEF DrawnOf
<1>12. ASSUME NEW c \in ApiClients \ {c0} PROVE DrawnOf(c)'
  <2>1. Awake(c)' \cap stored' = {} => Awake(c) \cap stored = {}
    BY <1>3, <1>8 DEF Awake, LimiterOf
  <2>2. QED
    BY <1>2, <1>8, <1>9, <2>1, DrawnKept DEF DrawnInv
<1>13. QED
  BY <1>10, <1>11, <1>12 DEF DrawnInv

\* Deleting a limiter in use makes room for as many more as there are calls.
LEMMA DeleteStep ==
  ASSUME ApiTypeOK, LimitersInv, DrawnInv, NEW r \in Callers, NEW c0 \in ApiClients, DeleteLimiter(r, c0)
  PROVE  LimitersInv' /\ DrawnInv'
<1>1. /\ stored' = stored \ LimiterOf(c0) /\ UNCHANGED <<limiter, call>> /\ stored \subseteq DOMAIN limiter
      /\ swept' = [swept EXCEPT ![c0] = IF Awake(c0) \cap stored = {} THEN swept[c0] ELSE swept[c0] + 1]
      /\ swept \in [ApiClients -> Nat]
  BY DEF DeleteLimiter, ApiTypeOK
<1>2. LimitersInv'
  BY <1>1 DEF LimitersInv, IdleLimiter
<1>3. \A c : Awake(c)' = Awake(c) /\ Missing(c)' = Missing(c)
  BY <1>1 DEF Awake, IdleLimiter, InHand, Missing, At
<1>4. ASSUME NEW c \in ApiClients PROVE DrawnOf(c)'
  <2>1. CASE c # c0
    <3>1. Awake(c) \cap stored' = Awake(c) \cap stored
      BY <1>1, <2>1 DEF Awake, LimiterOf
    <3>2. QED
      BY <1>1, <1>3, <2>1, <3>1, DrawnKept DEF DrawnInv
  <2>2. CASE c = c0 /\ Awake(c0) \cap stored = {}
    BY <1>1, <1>3, <2>2, DrawnKept DEF DrawnInv
  <2>3. CASE c = c0 /\ Awake(c0) \cap stored # {}
    <3>1. Room(c0)' = Room(c0) + Cardinality(Callers) /\ Room(c0) \in Nat
      <4>1. swept'[c0] = 1 + swept[c0]
        BY <1>1, <2>3
      <4>2. QED
        BY <4>1, Rooms DEF Room
    <3>2. IsFiniteSet(Awake(c0)) /\ Cardinality(Awake(c0)) \in Nat
          /\ Cardinality(Awake(c0)) + Cardinality(Missing(c0)) <= Room(c0) + Cardinality(Callers)
      BY FS_CardinalityType DEF DrawnInv, DrawnOf
    <3>3. QED
      BY <1>3, <2>3, <3>1, <3>2, MissingFinite DEF DrawnOf
  <2>4. QED
    BY <2>1, <2>2, <2>3
<1>5. QED
  BY <1>2, <1>4 DEF DrawnInv

LEMMA LimitersStep ==
  ASSUME ApiTypeOK, CallsInv, LimitersInv, DrawnInv, [ApiNext]_apiVars
  PROVE  LimitersInv' /\ DrawnInv'
<1>0. ASSUME UNCHANGED <<limiter, stored, swept, call>> PROVE LimitersInv' /\ DrawnInv'
  BY <1>0, LimitersAlone DEF At
<1>1. ASSUME NEW o \in Operators, NEW c \in ApiClients, NEW op \in {"generate", "revoke"}, BeginUpdate(o, c, op)
      PROVE  LimitersInv' /\ DrawnInv'
  BY <1>0, <1>1 DEF BeginUpdate
<1>2. ASSUME NEW o \in Operators, Update(o) \/ Insert(o) \/ CommitKey(o) \/ RollbackKey(o)
      PROVE  LimitersInv' /\ DrawnInv'
  BY <1>0, <1>2 DEF Update, Insert, CommitKey, RollbackKey
<1>3. ASSUME NEW c \in ApiClients, ToggleClientStatus(c) PROVE LimitersInv' /\ DrawnInv'
  <2>1. \A f \in QueuedCall : [f EXCEPT !.off = FALSE].at = f.at /\ f.at = "queued"
    BY DEF QueuedCall
  <2>2. \A f \in FoundCall : LET g == [f EXCEPT !.off = FALSE]
          IN g.at = f.at /\ g.client = f.client /\ g.limiter = f.limiter
    BY DEF FoundCall
  <2>3. \A q \in Callers : ~At(q, "idle") => call[q] \in QueuedCall \cup FoundCall
    BY CallUnderWay
  <2>4. ASSUME NEW q \in Callers
        PROVE  /\ call'[q].at = "missing" => At(q, "missing") /\ call'[q].client = call[q].client
               /\ call'[q].at = "found" => At(q, "found") /\ call'[q].limiter = call[q].limiter
               /\ At(q, "found") => call'[q].at = "found"
    <3>1. call'[q] = call[q] \/ (~At(q, "idle") /\ call'[q] = [call[q] EXCEPT !.off = FALSE])
      BY <1>3 DEF ToggleClientStatus
    <3>2. CASE call'[q] = call[q]
      BY <3>2 DEF At
    <3>3. CASE call[q] \in QueuedCall /\ call'[q] = [call[q] EXCEPT !.off = FALSE]
      BY <2>1, <3>3 DEF At
    <3>4. CASE call[q] \in FoundCall /\ call'[q] = [call[q] EXCEPT !.off = FALSE]
      BY <2>2, <3>4 DEF At
    <3>5. QED
      BY <2>3, <3>1, <3>2, <3>3, <3>4
  <2>5. QED
    BY <1>3, <2>4, LimitersAlone DEF ToggleClientStatus
<1>4. ASSUME NEW r \in Callers, UNCHANGED <<limiter, stored, swept>>, call'[r].at \notin {"missing", "found"},
             ~At(r, "found"), \A q \in Callers \ {r} : call'[q] = call[q]
      PROVE  LimitersInv' /\ DrawnInv'
  BY <1>4, LimitersAlone DEF At
<1>5. ASSUME NEW r \in Callers, NEW k \in ApiKeys, Call(r, k) PROVE LimitersInv' /\ DrawnInv'
  BY <1>4, <1>5 DEF Call, ApiTypeOK, At
<1>6. ASSUME NEW r \in Callers, Done(r)
      PROVE  call'[r].at \notin {"missing", "found"} /\ \A q \in Callers \ {r} : call'[q] = call[q]
  BY <1>6, CallEnds
<1>7. ASSUME NEW r \in Callers, NEW where, NEW burst, NEW used, Go(r, where, burst, used), where \notin {"missing", "found"}
      PROVE  call'[r].at \notin {"missing", "found"} /\ \A q \in Callers \ {r} : call'[q] = call[q]
  BY <1>7 DEF Go, ApiTypeOK
<1>8. ASSUME NEW r \in Callers, ValidateAPIKey(r) \/ GetClient(r) \/ CallFails(r) \/ Answered(r)
      PROVE  LimitersInv' /\ DrawnInv'
  <2>1. /\ UNCHANGED <<limiter, stored, swept>> /\ ~At(r, "found")
        /\ Go(r, "rows", 0, {}) \/ Go(r, "known", 0, {}) \/ Done(r)
    BY <1>8 DEF ValidateAPIKey, GetClient, CallFails, Answered, At
  <2>2. QED
    BY <1>4, <1>6, <1>7, <2>1
<1>9. ASSUME NEW r \in Callers, readRateLimitPerMinute(r) PROVE LimitersInv' /\ DrawnInv'
  BY <1>4, <1>7, <1>9 DEF readRateLimitPerMinute, At
<1>10. ASSUME NEW r \in Callers, NEW l \in Limiters, allowForClient(r, l) PROVE LimitersInv' /\ DrawnInv'
  <2>1. l \in DOMAIN limiter /\ limiter[l] \in Limiter /\ limiter[l].idle = 0 /\ UNCHANGED <<stored, swept>>
        /\ ~At(r, "found")
    BY <1>10 DEF allowForClient, Cleaned, CallsInv, CallOK, ApiTypeOK, At
  <2>2. CASE UNCHANGED limiter
    <3>1. Go(r, "admitted", 0, {}) \/ Done(r)
      BY <1>10 DEF allowForClient
    <3>2. QED
      BY <1>4, <1>6, <1>7, <2>1, <2>2, <3>1
  <2>3. CASE Go(r, "admitted", 0, {}) /\ limiter' = [limiter EXCEPT ![l].tokens = @ - 1]
    <3>1. \A n : \A f \in Limiter : [f EXCEPT !.tokens = n].client = f.client /\ [f EXCEPT !.tokens = n].burst = f.burst
                                /\ [f EXCEPT !.tokens = n].idle = f.idle
      BY DEF Limiter
    <3>2. /\ DOMAIN limiter' = DOMAIN limiter
          /\ \A m \in DOMAIN limiter : limiter'[m].client = limiter[m].client /\ limiter'[m].idle = limiter[m].idle
          /\ \A m \in DOMAIN limiter \ {l} : limiter'[m] = limiter[m]
      BY <2>1, <2>3, <3>1 DEF ApiTypeOK
    <3>3. \A m \in DOMAIN limiter : IdleLimiter(m)' <=> IdleLimiter(m)
      BY <3>2 DEF IdleLimiter
    <3>4. ~IdleLimiter(l)
      BY <2>1, ApiAssumption DEF IdleLimiter
    <3>5. call'[r].at \notin {"missing", "found"} /\ \A q \in Callers \ {r} : call'[q] = call[q]
      BY <1>7, <2>3
    <3>6. (\A m : InHand(m)' <=> InHand(m)) /\ \A c : Missing(c)' \subseteq Missing(c)
      BY <2>1, <3>5 DEF InHand, Missing, At
    <3>7. \A c : Awake(c)' = Awake(c)
      BY <3>2, <3>3, <3>6 DEF Awake
    <3>8. DrawnInv'
      BY <2>1, <3>6, <3>7, DrawnKept DEF DrawnInv
    <3>9. stored \subseteq DOMAIN limiter
      BY DEF ApiTypeOK
    <3>10. LimitersInv'
      BY <2>1, <3>2, <3>3, <3>4, <3>9 DEF LimitersInv
    <3>11. QED
      BY <3>8, <3>10
  <2>4. QED
    BY <1>10, <2>2, <2>3 DEF allowForClient
<1>11. CASE MinutePasses
  <2>1. /\ DOMAIN limiter' = stored /\ stored' = stored /\ stored \subseteq DOMAIN limiter
        /\ \A l \in stored : /\ limiter'[l].client = limiter[l].client /\ limiter'[l].tokens = limiter'[l].burst
                             /\ limiter'[l].idle = IF IdleLimiter(l) THEN limiter[l].idle ELSE limiter[l].idle + 1
    <3>1. limiter' = [l \in stored |-> [limiter[l] EXCEPT !.tokens = limiter[l].burst,
                                         !.idle = IF IdleLimiter(l) THEN limiter[l].idle ELSE limiter[l].idle + 1]]
          /\ stored' = stored
      BY <1>11 DEF MinutePasses
    <3>2. stored \subseteq DOMAIN limiter /\ \A l \in stored : limiter[l] \in Limiter
      BY DEF ApiTypeOK
    <3>3. ASSUME NEW l \in stored
          PROVE  /\ limiter'[l].client = limiter[l].client /\ limiter'[l].tokens = limiter'[l].burst
                 /\ limiter'[l].idle = IF IdleLimiter(l) THEN limiter[l].idle ELSE limiter[l].idle + 1
      <4> DEFINE i == IF IdleLimiter(l) THEN limiter[l].idle ELSE limiter[l].idle + 1
      <4>1. limiter'[l] = [limiter[l] EXCEPT !.tokens = limiter[l].burst, !.idle = i]
        BY <3>1
      <4> HIDE DEF i
      <4>2. PICK f \in Limiter : f = limiter[l] /\ limiter'[l] = [f EXCEPT !.tokens = f.burst, !.idle = i]
        BY <3>2, <4>1
      <4>3. limiter'[l].client = f.client /\ limiter'[l].tokens = limiter'[l].burst /\ limiter'[l].idle = i
        BY <4>2 DEF Limiter
      <4>4. QED
        BY <4>2, <4>3 DEF i
    <3>4. QED
      BY <3>1, <3>2, <3>3
  <2>2. LimitersInv'
    BY <2>1 DEF LimitersInv
  <2>3. ASSUME NEW c \in ApiClients PROVE DrawnOf(c)'
    <3>1. Missing(c)' = {}
      BY <1>11 DEF MinutePasses, Missing, At, Limiting
    <3>2. Awake(c)' \subseteq stored /\ \A l, m \in Awake(c)' : l = m
      BY <2>1 DEF Awake, LimitersInv
    <3>3. IsFiniteSet({}) /\ Cardinality({}) = 0
      BY FS_EmptySet
    <3>4. Room(c)' = 0
      <4>1. swept'[c] = 0
        BY <1>11 DEF MinutePasses
      <4>2. QED
        BY <4>1, MissingFinite DEF Room
    <3>5. CASE Awake(c)' = {}
      BY <3>1, <3>3, <3>4, <3>5, MissingFinite DEF DrawnOf
    <3>6. CASE Awake(c)' # {}
      <4>1. PICK l \in Awake(c)' : Awake(c)' = {l}
        BY <3>2, <3>6
      <4>2. IsFiniteSet({l}) /\ Cardinality({l}) = 1
        BY FS_Singleton
      <4>3. Callers # {}
        <5>1. l \in Awake(c) \/ \E r \in Callers : TRUE
          <6>1. l \in DOMAIN limiter' /\ limiter'[l].client = c /\ (~IdleLimiter(l)' \/ InHand(l)')
            BY <4>1 DEF Awake
          <6>2. InHand(l)' => \E r \in Callers : TRUE
            BY DEF InHand
          <6>3. ~IdleLimiter(l)' => ~IdleLimiter(l)
            BY <2>1, <6>1 DEF IdleLimiter
          <6>4. QED
            BY <2>1, <6>1, <6>2, <6>3 DEF Awake
        <5>2. ASSUME Callers = {}, l \in Awake(c) PROVE FALSE
          <6>1. Cardinality(Callers) = 0 /\ Room(c) = 0
            BY <5>2, <3>3, MissingFinite DEF Room, ApiTypeOK
          <6>2. Cardinality(Awake(c)) <= 0 /\ IsFiniteSet(Awake(c)) /\ Cardinality(Awake(c)) \in Nat
            BY <6>1, MissingFinite, FS_CardinalityType DEF DrawnInv, DrawnOf
          <6>3. Awake(c) = {}
            BY <6>2, FS_EmptySet
          <6>4. QED
            BY <5>2, <6>3
        <5>3. QED
          BY <5>1, <5>2
      <4>4. Cardinality(Callers) >= 1
        BY <4>3, ApiAssumption, MissingFinite, FS_EmptySet
      <4>5. l \in Awake(c)' \cap stored'
        BY <2>1, <3>2, <4>1
      <4>6. QED
        BY <3>1, <3>3, <3>4, <4>1, <4>2, <4>4, <4>5, MissingFinite DEF DrawnOf
    <3>7. QED
      BY <3>5, <3>6
  <2>4. QED
    BY <2>2, <2>3 DEF DrawnInv
<1>12. CASE UNCHANGED apiVars
  BY <1>0, <1>12 DEF apiVars
<1>13. ASSUME NEW r \in Callers, LoadLimiter(r) \/ StoreLimiter(r) PROVE LimitersInv' /\ DrawnInv'
  BY <1>13, LoadStep, StoreStep
<1>14. ASSUME NEW r \in Callers, NEW l \in Limiters, TouchLimiter(r, l) PROVE LimitersInv' /\ DrawnInv'
  BY <1>14, TouchStep
<1>15. ASSUME NEW r \in Callers, NEW c \in ApiClients, VisitLimiter(r, c) PROVE LimitersInv' /\ DrawnInv'
  BY <1>0, <1>15 DEF VisitLimiter
<1>16. ASSUME NEW r \in Callers, NEW c \in ApiClients, DeleteLimiter(r, c) PROVE LimitersInv' /\ DrawnInv'
  BY <1>16, DeleteStep
<1>17. QED
  BY <1>1, <1>2, <1>3, <1>5, <1>8, <1>9, <1>10, <1>11, <1>12, <1>13, <1>14, <1>15, <1>16 DEF ApiNext

LEMMA ApiStart == ApiInit => ApiIInv
<1> SUFFICES ASSUME ApiInit PROVE ApiIInv
  OBVIOUS
<1>1. ApiTypeOK
  BY ApiTypeStart
<1>2. \A r \in Callers : call[r].at = "idle"
  BY CallKinds DEF ApiInit
<1>3. \A o \in Operators : keyForm[o].at = "idle"
  BY CallKinds DEF ApiInit
<1>4. InsertedInv /\ OneKey /\ CallsInv
  BY <1>2, <1>3 DEF ApiInit, InsertedInv, OneKey, CallsInv, CallOK, At, Passed, Limiting
<1>5. DOMAIN limiter = {} /\ stored = {}
  BY DEF ApiInit
<1>6. \A c : Awake(c) = {} /\ Missing(c) = {}
  BY <1>2, <1>5 DEF Awake, Missing, At
<1>7. LimitersInv /\ DrawnInv
  <2>1. LimitersInv
    BY <1>5, <1>6 DEF LimitersInv
  <2>2. IsFiniteSet({}) /\ Cardinality({}) = 0 /\ \A c \in ApiClients : Room(c) \in Nat
    BY <1>1, FS_EmptySet, Rooms
  <2>3. DrawnInv
    BY <1>6, <2>2, MissingFinite DEF DrawnInv, DrawnOf
  <2>4. QED
    BY <2>1, <2>3
<1>8. QED
  BY <1>1, <1>4, <1>7 DEF ApiIInv

LEMMA ApiIStep == ApiIInv /\ [ApiNext]_apiVars => ApiIInv'
BY ApiTypeStep, KeysStep, CallsStep, LimitersStep DEF ApiIInv

\* A limiter drawn on is one that is not idle.
LEMMA ApiIImplies == ApiIInv => KeysInv
<1> SUFFICES ASSUME ApiIInv PROVE KeysInv
  OBVIOUS
<1> USE DEF ApiIInv
<1>1. ASSUME NEW c \in ApiClients PROVE Cardinality(KeysOf(c)) <= 1
  <2>1. KeysOf(c) = {} \/ \E k \in KeysOf(c) : KeysOf(c) = {k}
    BY DEF OneKey, KeysOf
  <2>2. CASE KeysOf(c) = {}
    BY <2>2, FS_EmptySet
  <2>3. CASE \E k \in KeysOf(c) : KeysOf(c) = {k}
    <3>1. PICK k \in KeysOf(c) : KeysOf(c) = {k}
      BY <2>3
    <3>2. Cardinality({k}) = 1
      BY FS_Singleton
    <3>3. QED
      BY <3>1, <3>2
  <2>4. QED
    BY <2>1, <2>2, <2>3
<1>2. \A r \in Callers : call[r].at \in Passed => ~call[r].stale /\ ~call[r].off
  BY DEF CallsInv, CallOK
<1>3. ASSUME NEW c \in ApiClients PROVE Cardinality(Spent(c)) <= Cardinality(Callers) * (1 + swept[c])
  <2>1. \A l \in DOMAIN limiter : limiter[l].tokens \in Nat /\ limiter[l].burst \in Nat
    BY CallKinds, ApiAssumption DEF ApiTypeOK
  <2>2. Spent(c) \subseteq Awake(c)
    BY <2>1 DEF Spent, Awake, LimitersInv
  <2>3. Cardinality(Spent(c)) <= Cardinality(Awake(c)) /\ Cardinality(Awake(c)) \in Nat /\ Cardinality(Spent(c)) \in Nat
    BY <2>2, FS_Subset, FS_CardinalityType DEF DrawnInv, DrawnOf
  <2>4. Room(c) \in Nat /\ Cardinality(Callers) * (1 + swept[c]) = Room(c) + Cardinality(Callers)
    BY Rooms
  <2>5. QED
    BY <2>3, <2>4, MissingFinite DEF DrawnInv, DrawnOf
<1>4. QED
  BY <1>1, <1>2, <1>3 DEF KeysInv

\* KeysInv, for any clients, keys, operators, callers and settings: a client
\* has one live key whatever forms overlap (GenerateAPIKey, RevokeAPIKey), no
\* call passes APIKeyAuth with a key that was dead or a client that was off all
\* the while, and the limiters a client draws on within a minute are never more
\* than the calls under way at once, and as many again for each limiter in use
\* that a cleanup deleted in it (allowForClient, cleanupLimiters).
THEOREM KeysHold == ApiSpec => []KeysInv
<1>1. ApiIInv => KeysInv
  BY ApiIImplies
<1>2. QED
  BY <1>1, ApiStart, ApiIStep, PTL DEF ApiSpec
=============================================================================

----------------------------- MODULE AdminUsers -----------------------------
(***************************************************************************)
(* The admin_users table (internal/db/admin_users.go) and the forms that   *)
(* change it (internal/web/admin_users.go).  A form that may take power    *)
(* from a super admin first reads that user, then counts the active super  *)
(* admins, then updates the row: three statements of no common             *)
(* transaction, between which other forms run.                             *)
(***************************************************************************)
EXTENDS Integers, FiniteSets

CONSTANTS
  Users,      \* rows of admin_users that ever exist
  Root,       \* the one named by ADMIN_USERNAME
  Editors     \* requests of the admin form that may run at once

ASSUME AdminUsersAssumption == Root \in Users

\* What the form sets of a row, and what the properties tell apart.
Account == [super : BOOLEAN, active : BOOLEAN]

Absent == [super |-> FALSE, active |-> FALSE, absent |-> TRUE]

VARIABLES
  up,         \* the process serves
  users,      \* admin_users
  pc,         \* next statement of each request; "idle" when there is none
  target,     \* the row it is about; Root when there is none
  form,       \* what it was asked to store
  overtaken,  \* history: requests whose check has passed and was overtaken
  raced       \* history: one of them then took power away itself

vars == <<up, users, pc, target, form, overtaken, raced>>

Present == {u \in Users : users[u] # Absent}

SuperAdmins == {u \in Present : users[u].super /\ users[u].active}

TypeOK ==
  /\ up \in BOOLEAN
  /\ users \in [Users -> Account \cup {Absent}]
  /\ pc \in [Editors -> {"idle", "look", "count", "write", "create"}]
  /\ target \in [Editors -> Users]
  /\ form \in [Editors -> Account]
  /\ overtaken \subseteq Editors
  /\ raced \in BOOLEAN
  /\ up => Present # {}

Powerful == [super |-> TRUE, active |-> TRUE]

Init ==
  /\ up = FALSE
  /\ users = [u \in Users |-> Absent]
  /\ pc = [e \in Editors |-> "idle"]
  /\ target = [e \in Editors |-> Root]
  /\ form = [e \in Editors |-> Powerful]
  /\ overtaken = {}
  /\ raced = FALSE
-----------------------------------------------------------------------------
\* The first super admin.
Bootstrapped == [users EXCEPT ![Root] = Powerful]

\* A form that leaves the user an active super admin needs no check.
Harmless(f) == f.super /\ f.active

\* CountSuperAdmins, and what ValidateSuperAdminDemotion makes of it.
TooFew == Cardinality(SuperAdmins) <= 1

Goto(e, s) == pc' = [pc EXCEPT ![e] = s]

Finished(e) ==
  /\ Goto(e, "idle")
  /\ target' = [target EXCEPT ![e] = Root]
  /\ form' = [form EXCEPT ![e] = Powerful]

\* The form is answered and nothing is stored.
Answer(e) ==
  /\ Finished(e)
  /\ overtaken' = overtaken \ {e}
  /\ UNCHANGED <<up, users, raced>>

Start ==
  /\ ~up
  /\ up' = TRUE
  /\ users' = IF Present = {} THEN Bootstrapped ELSE users
  /\ UNCHANGED <<pc, target, form, overtaken, raced>>

\* The process ends, with whatever requests it was handling.
Stop ==
  /\ up
  /\ up' = FALSE
  /\ pc' = [e \in Editors |-> "idle"]
  /\ target' = [e \in Editors |-> Root]
  /\ form' = [e \in Editors |-> Powerful]
  /\ overtaken' = {}
  /\ UNCHANGED <<users, raced>>

\* RequireSuperAdmin lets the request in.
Admit(e, u, f) ==
  /\ up /\ pc[e] = "idle" /\ SuperAdmins # {}
  /\ target' = [target EXCEPT ![e] = u]
  /\ form' = [form EXCEPT ![e] = f]
  /\ UNCHANGED <<up, users, overtaken, raced>>

SubmitEdit(e, u, f) == Admit(e, u, f) /\ Goto(e, IF Harmless(f) THEN "write" ELSE "look")

SubmitNew(e, u, f) == Admit(e, u, f) /\ Goto(e, "create")

\* Only a super admin's row is counted for, whether it is active or not.
Look(e) ==
  /\ pc[e] = "look"
  /\ Goto(e, IF target[e] \in Present /\ users[target[e]].super THEN "count" ELSE "write")
  /\ UNCHANGED <<up, users, target, form, overtaken, raced>>

Count(e) ==
  /\ pc[e] = "count" /\ ~TooFew
  /\ Goto(e, "write")
  /\ UNCHANGED <<up, users, target, form, overtaken, raced>>

Refuse(e) ==
  /\ pc[e] = "count" /\ TooFew
  /\ Answer(e)

\* It may take power away: its check has passed, its update has not followed.
Checked(e) == pc[e] = "write" /\ ~Harmless(form[e])

TakesPower(e) == target[e] \in SuperAdmins /\ ~Harmless(form[e])

\* The row is stored.  Once it takes power from a super admin, what others
\* have counted may no longer hold.
Store(e) ==
  /\ users' = [users EXCEPT ![target[e]] = form[e]]
  /\ overtaken' = (IF TakesPower(e) THEN overtaken \cup {o \in Editors : Checked(o)}
                                    ELSE overtaken) \ {e}
  /\ raced' = (raced \/ (e \in overtaken /\ TakesPower(e)))
  /\ Finished(e)
  /\ UNCHANGED up

\* A row that does not exist is answered with 404.
Write(e) ==
  /\ pc[e] = "write"
  /\ IF target[e] \in Present THEN Store(e) ELSE Answer(e)

\* A name taken meanwhile is refused by the UNIQUE column.
Create(e) ==
  /\ pc[e] = "create"
  /\ IF target[e] \in Present THEN Answer(e) ELSE Store(e)

\* A statement fails, or the client goes away.
StatementFails(e) == pc[e] # "idle" /\ Answer(e)

FormStep(e) ==
  Look(e) \/ Count(e) \/ Refuse(e) \/ Write(e) \/ Create(e) \/ StatementFails(e)

Next ==
  \/ Start \/ Stop
  \/ \E e \in Editors :
       \/ \E u \in Users, f \in Account : SubmitEdit(e, u, f) \/ SubmitNew(e, u, f)
       \/ FormStep(e)

Spec == Init /\ [][Next]_vars
-----------------------------------------------------------------------------
\* "ensures at least one active super admin remains" (admin_users.go:235): no
\* sequence of forms, failures and restarts leaves a served system without
\* one, and nobody could add one again: forms need a super admin, and the
\* bootstrap an empty table.  Nothing locks the table between a form's count
\* and its update, so two forms can take power from the last two at once; that
\* is the only way: a form that took power after another had done so since its
\* own check passed.
SuperAdminRemains == up /\ ~raced => SuperAdmins # {}
=============================================================================

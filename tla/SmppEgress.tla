----------------------------- MODULE SmppEgress -----------------------------
(***************************************************************************)
(* The SMPP sessions kept open to one carrier (internal/smpp/egress):      *)
(* refreshes, every minute and at an operator's restart, read the          *)
(* carrier's row and start, replace or stop its group of sessions; each    *)
(* session is a goroutine that binds, watches its connection and binds     *)
(* again, and reports the group's status to the carrier's row each time.   *)
(* Refreshes, sessions of the current and of earlier groups, and their     *)
(* reports interleave.                                                     *)
(***************************************************************************)
EXTENDS Integers, FiniteSets

CONSTANTS
  Groups,       \* sessionGroups; one is used again when its goroutines ended
  Counts,       \* what the row may say: its smpp_bind_count, or 0 when a refresh
                \* does not list the carrier (inactive, HTTP, or not fully configured)
  Initial,      \* what it says at first
  Admins,       \* operators' restart requests that may run at once
  MaxEvents     \* bound on edits of the row, restarts, failed statements and
                \* failed decryptions together

None == "none"

ASSUME SmppEgressAssumption ==
  /\ IsFiniteSet(Groups) /\ None \notin Groups
  /\ Counts \subseteq Nat
  /\ 0 \in Counts /\ Initial \in Counts
  /\ MaxEvents \in Nat

Ticker == "ticker"
Refreshers == Admins \cup {Ticker}

Sessions == Groups \X UNION {1 .. n : n \in Counts}

VARIABLES
  row,        \* what the carrier's row says
  stored,     \* carriers.smpp_status
  current,    \* Manager.groups of the carrier
  size,       \* bindCount of each group
  down,       \* Manager.runCtx is cancelled
  rpc,        \* next step of each refresh
  seen,       \* what it has read of the row
  pc,         \* where each session's goroutine is
  cancelled,  \* its own context is cancelled
  conn,       \* sessions that hold a bound client (trx or tx)
  ready,      \* sessions whose ready flag is set
  tell,       \* the status each session is about to store, if any
  events,
  \* History, read by the properties only.
  unborn,     \* sessions stopped before their goroutine began
  passing     \* sessions stopped while they were binding

manager == <<current, size, down>>
refreshes == <<rpc, seen>>
sessions == <<pc, cancelled, conn, ready, tell>>
history == <<unborn, passing>>
vars == <<row, stored, manager, refreshes, sessions, events, history>>

Of(g) == {s \in Sessions : s[1] = g /\ s[2] <= size[g]}

Gone == {"none", "ended"}

TypeOK ==
  /\ row \in Counts
  /\ stored \in {"disabled", "up", "down"}
  /\ current \in Groups \cup {None}
  /\ size \in [Groups -> Counts]
  /\ down \in BOOLEAN
  /\ rpc \in [Refreshers -> {"idle", "list", "apply"}]
  /\ seen \in [Refreshers -> Counts]
  /\ pc \in [Sessions -> {"none", "spawned", "asleep", "bind", "up", "watch", "ended"}]
  /\ cancelled \subseteq Sessions /\ conn \subseteq Sessions /\ ready \subseteq Sessions
  /\ tell \in [Sessions -> {None, "up", "down"}]
  /\ events \in 0 .. MaxEvents
  /\ unborn \subseteq Sessions /\ passing \subseteq Sessions

Init ==
  /\ row = Initial
  /\ stored = "disabled"
  /\ current = None
  /\ size = [g \in Groups |-> 0]
  /\ down = FALSE
  /\ rpc = [r \in Refreshers |-> "idle"]
  /\ seen = [r \in Refreshers |-> 0]
  /\ pc = [s \in Sessions |-> "none"]
  /\ cancelled = {} /\ conn = {} /\ ready = {}
  /\ tell = [s \in Sessions |-> None]
  /\ events = 0
  /\ unborn = {} /\ passing = {}
-----------------------------------------------------------------------------
Happens == events < MaxEvents /\ events' = events + 1

\* The carrier form stores its SMPP settings; nothing else is called.
Edit(n) ==
  /\ n # row
  /\ row' = n
  /\ Happens
  /\ UNCHANGED <<stored, manager, refreshes, sessions, history>>

\* A deviation: stop leaves the connections to the goroutines.
StillConnected(dead) == conn

\* sessionGroup.stop closes what its sessions hold; one that is binding does
\* not hold its client yet, and one that has not begun has no cancel function.
Closed(dead) == conn \ dead
Cancelled(dead) == cancelled \cup {s \in dead : pc[s] # "spawned"}
Unborn(dead) == unborn \cup {s \in dead : pc[s] = "spawned"}
Passing(dead) == passing \cup {s \in dead : pc[s] = "bind"}

Stopped(dead) ==
  /\ cancelled' = Cancelled(dead)
  /\ conn' = Closed(dead)
  /\ unborn' = Unborn(dead)
  /\ passing' = Passing(dead)

Members == IF current = None THEN {} ELSE Of(current)

\* Every goroutine of the group has returned.
Vacant(g) == g # current /\ \A s \in Sessions : s[1] = g => pc[s] \in Gone

\* newSessionGroup and start.
StartGroup(g, n) ==
  /\ current' = g
  /\ size' = [size EXCEPT ![g] = n]
  /\ pc' = [s \in Sessions |-> IF s[1] # g THEN pc[s]
                               ELSE IF s[2] <= n THEN "spawned" ELSE "none"]

\* What a new group's sessions start with.
Fresh(set, g) == {s \in set : s[1] # g}

Goto(r, l) == rpc' = [rpc EXCEPT ![r] = l]

Tick ==
  /\ rpc[Ticker] = "idle" /\ ~down
  /\ Goto(Ticker, "list")
  /\ UNCHANGED <<row, stored, manager, seen, sessions, events, history>>

\* An operator restarts the carrier: its group goes, and a refresh follows.
Restart(a) ==
  /\ rpc[a] = "idle"
  /\ Stopped(Members)
  /\ current' = None
  /\ Happens
  /\ Goto(a, "list")
  /\ UNCHANGED <<row, stored, size, down, seen, pc, ready, tell>>

List(r) ==
  /\ rpc[r] = "list" /\ ~down
  /\ seen' = [seen EXCEPT ![r] = row]
  /\ Goto(r, "apply")
  /\ UNCHANGED <<row, stored, manager, sessions, events, history>>

ListFails(r) ==
  /\ rpc[r] = "list"
  /\ (down /\ UNCHANGED events) \/ Happens
  /\ Goto(r, "idle")
  /\ UNCHANGED <<row, stored, manager, seen, sessions, history>>

\* A password that cannot be decrypted leaves the carrier out of the list.
DecryptFails(r) ==
  /\ rpc[r] = "list" /\ ~down
  /\ Happens
  /\ seen' = [seen EXCEPT ![r] = 0]
  /\ Goto(r, "apply")
  /\ UNCHANGED <<row, stored, manager, sessions, history>>

\* A deviation: a group is kept whatever its size.
KeptAnyway(n) == current # None

\* Only the bind count is compared; a group that has it stays.
Suits(n) == current # None /\ size[current] = n

Keep(r) ==
  /\ rpc[r] = "apply" /\ seen[r] > 0 /\ Suits(seen[r])
  /\ Goto(r, "idle")
  /\ seen' = [seen EXCEPT ![r] = 0]
  /\ UNCHANGED <<row, stored, manager, sessions, events, history>>

Replace(r, g) ==
  /\ rpc[r] = "apply" /\ seen[r] > 0 /\ ~Suits(seen[r]) /\ Vacant(g)
  /\ StartGroup(g, seen[r])
  /\ cancelled' = Fresh(Cancelled(Members), g)
  /\ conn' = Fresh(Closed(Members), g)
  /\ ready' = Fresh(ready, g)
  /\ unborn' = Fresh(Unborn(Members), g)
  /\ passing' = Fresh(Passing(Members), g)
  /\ Goto(r, "idle")
  /\ seen' = [seen EXCEPT ![r] = 0]
  /\ UNCHANGED <<row, stored, down, tell, events>>

\* The carrier is not listed: its group goes, and then, still under the
\* manager's lock, its status is stored.
Drop(r) ==
  /\ rpc[r] = "apply" /\ seen[r] = 0
  /\ Stopped(Members)
  /\ current' = None
  /\ stored' = IF current = None THEN stored ELSE "disabled"
  /\ Goto(r, "idle")
  /\ UNCHANGED <<row, size, down, seen, pc, ready, tell, events>>

\* Manager.Stop.
Stop ==
  /\ ~down
  /\ down' = TRUE
  /\ Stopped(Members)
  /\ current' = None
  /\ UNCHANGED <<row, stored, size, refreshes, pc, ready, tell, events>>
-----------------------------------------------------------------------------
\* A session's own steps.
\* A deviation: only the manager's context is looked at.
ManagerDone(s) == down

Done(s) == s \in cancelled \/ down

\* A deviation: a group is up as soon as it has sessions.
StatusBySize(s, set) == IF size[s[1]] > 0 THEN "up" ELSE "down"

\* The status of the session's own group, whichever group is current.
aggregateStatus(s, set) == IF \E o \in set : o[1] = s[1] THEN "up" ELSE "down"

At(s, l) == pc[s] = l /\ tell[s] = None

Move(s, l, t) ==
  /\ pc' = [pc EXCEPT ![s] = l]
  /\ tell' = [tell EXCEPT ![s] = t]
  /\ UNCHANGED <<row, stored, manager, refreshes, events, history>>

\* Parallel binds are staggered: the goroutine sleeps before its first attempt.
Begin(s) == At(s, "spawned") /\ Move(s, "asleep", None) /\ UNCHANGED <<cancelled, conn, ready>>

Return(s) ==
  /\ At(s, "asleep") /\ Done(s)
  /\ Move(s, "ended", None)
  /\ UNCHANGED <<cancelled, conn, ready>>

Attempt(s) ==
  /\ At(s, "asleep") /\ ~Done(s)
  /\ Move(s, "bind", aggregateStatus(s, ready))
  /\ UNCHANGED <<cancelled, conn, ready>>

\* The carrier answers, whether or not the session was stopped meanwhile.
BindSucceeds(s) ==
  /\ At(s, "bind")
  /\ conn' = conn \cup {s}
  /\ Move(s, "up", aggregateStatus(s, ready))
  /\ UNCHANGED <<cancelled, ready>>

\* Refused or not reached.
BindFails(s) ==
  /\ At(s, "bind")
  /\ Move(s, "asleep", aggregateStatus(s, ready))
  /\ UNCHANGED <<cancelled, conn, ready>>

\* The flag is set after the report that the session is up.
SetReady(s) ==
  /\ At(s, "up")
  /\ ready' = ready \cup {s}
  /\ Move(s, "watch", None)
  /\ UNCHANGED <<cancelled, conn>>

\* The connection is lost, or was closed by stop.
Lose(s) ==
  /\ At(s, "watch")
  /\ ready' = ready \ {s}
  /\ conn' = conn \ {s}
  /\ Move(s, "asleep", aggregateStatus(s, ready'))
  /\ UNCHANGED cancelled

\* Its context is done: it returns with its flag still set.
Leave(s) ==
  /\ At(s, "watch") /\ Done(s)
  /\ conn' = conn \ {s}
  /\ Move(s, "ended", None)
  /\ UNCHANGED <<cancelled, ready>>

Store(s) ==
  /\ tell[s] # None
  /\ stored' = tell[s]
  /\ tell' = [tell EXCEPT ![s] = None]
  /\ UNCHANGED <<row, manager, refreshes, pc, cancelled, conn, ready, events, history>>

SessionStep(s) ==
  \/ Begin(s) \/ Return(s) \/ Attempt(s) \/ BindSucceeds(s) \/ BindFails(s)
  \/ SetReady(s) \/ Leave(s) \/ Store(s)

RefreshStep(r) ==
  \/ List(r) \/ ListFails(r) \/ DecryptFails(r) \/ Keep(r) \/ Drop(r)
  \/ \E g \in Groups : Replace(r, g)

Next ==
  \/ \E n \in Counts : Edit(n)
  \/ \E a \in Admins : Restart(a)
  \/ Tick \/ Stop
  \/ \E r \in Refreshers : RefreshStep(r)
  \/ \E s \in Sessions : SessionStep(s) \/ Lose(s)

Spec == Init /\ [][Next]_vars

\* Goroutines run and bind attempts end; the ticker ticks; no connection need
\* ever be lost, and nobody need edit, restart or stop.
Fairness ==
  /\ \A s \in Sessions : WF_vars(SessionStep(s))
  /\ \A r \in Refreshers : WF_vars(RefreshStep(r))
  /\ WF_vars(Tick)

FairSpec == Spec /\ Fairness
-----------------------------------------------------------------------------
\* However restarts and refreshes overlapped: the carrier in service has all
\* its sessions, each of them alive and none of them cancelled; and the carrier
\* sees no bind but those of the current group, and of sessions that were
\* binding, or had not begun, when their group was stopped.
EgressInv ==
  /\ TypeOK
  /\ current # None /\ ~down => \A s \in Of(current) : pc[s] \notin Gone /\ s \notin cancelled
  /\ \A s \in conn : (current # None /\ s \in Of(current)) \/ s \in passing \cup unborn

\* The sessions of stopped groups end, again and again after each stop, unless
\* they had not begun to run: stop finds no cancel function in those
\* (session.go:96, 391), and they bind on.
Superseded == {s \in Sessions : pc[s] \notin Gone /\ s \notin Members}

StoppedEnd == []<>(Superseded \subseteq unborn)

\* A status that says up while no session of the carrier is ready is corrected,
\* at the latest with the next bind attempt.
FalselyUp == stored = "up" /\ current # None /\ ready \cap Members = {}

DownIsSeen == []<>(down \/ ~FalselyUp)

\* The bind count in the row is the one in force in the end: "admins can scale
\* parallel binds without a full restart (next refresh tick)" (manager.go:117).
Scaled == IF row = 0 THEN current = None ELSE current # None /\ size[current] = row

ScaleApplied == <>[](down \/ unborn # {} \/ Scaled)
=============================================================================

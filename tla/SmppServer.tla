----------------------------- MODULE SmppServer -----------------------------
(***************************************************************************)
(* The SMPP server clients bind to (internal/smpp/server): one goroutine   *)
(* per connection, a registry of bound sessions under a mutex, a throttle  *)
(* of failed binds, an administrator who disconnects a client, and the     *)
(* stop of the process.  A bind reads the client's profile, then counts    *)
(* its sessions, then registers one more: three steps between which other  *)
(* connections are served.                                                 *)
(***************************************************************************)
EXTENDS Integers, Sequences, FiniteSets, SequencesExt, Throttle

CONSTANTS
  Conns,      \* connections, each accepted once
  Clients,    \* clients with SMPP ingress
  MaxBinds,   \* smpp_max_binds of each; 0 is no limit
  Modes,      \* bind modes peers ask for
  MaxClock    \* bound on time

ASSUME SmppServerAssumption ==
  /\ IsFiniteSet(Conns)
  /\ MaxBinds \in [Clients -> Nat]
  /\ Modes \subseteq {"tx", "rx", "trx"}
  /\ MaxClock \in Nat

None == "none"

VARIABLES
  phase,      \* of Stop: "serving", "cancelled", "closed", then "stopped" or "gaveup"
  pc,         \* of each connection's handler
  open,       \* connections neither side has closed
  bind,       \* the bind its handler serves, or served when it is bound: the
              \* client it names, its mode, and when it looked at the throttle
  sessions,   \* sessionRegistry.sessions
  byClient,   \* sessionRegistry.byClient
  deliver,    \* sessionRegistry.deliver
  doomed,     \* connections a closer has listed and not closed yet
  attempts,   \* bindAttempts, per client: one address
  clock,
  \* History, read by the properties only.
  overtaken,  \* a session was registered while another bind of its client had been counted
  late        \* a session was registered after Stop had listed the sessions

registry == <<sessions, byClient, deliver>>
history == <<overtaken, late>>
vars == <<phase, pc, open, bind, registry, doomed, attempts, clock, history>>

Binds == [who : Clients, mode : Modes, now : Nat]

NoBind == [who |-> None]

\* The handler runs, and Stop waits for it.
Tracked == {c \in Conns : pc[c] \notin {"new", "accepted", "ended"}}

TypeOK ==
  /\ phase \in {"serving", "cancelled", "closed", "stopped", "gaveup"}
  /\ pc \in [Conns -> {"new", "accepted", "unbound", "lookup", "count", "register",
                       "bound", "submit", "ended"}]
  /\ open \subseteq Conns
  /\ bind \in [Conns -> Binds \cup {NoBind}]
  /\ sessions \subseteq Conns
  /\ byClient \in [Clients -> Nat]
  /\ deliver \in [Clients -> Seq(Conns)]
  /\ doomed \subseteq Conns
  /\ attempts \in [Clients -> Attempts]
  /\ clock \in Nat
  /\ overtaken \in BOOLEAN /\ late \in BOOLEAN

Init ==
  /\ phase = "serving"
  /\ pc = [c \in Conns |-> "new"]
  /\ open = {} /\ sessions = {} /\ doomed = {}
  /\ bind = [c \in Conns |-> NoBind]
  /\ byClient = [k \in Clients |-> 0]
  /\ deliver = [k \in Clients |-> <<>>]
  /\ attempts = [k \in Clients |-> NoAttempts]
  /\ clock = 0
  /\ overtaken = FALSE /\ late = FALSE
-----------------------------------------------------------------------------
canSubmit(m) == m \in {"tx", "trx"}
canDeliver(m) == m \in {"rx", "trx"}

\* DeliverDLR writes a client's receipt to the session that is first here, and
\* to no other when that one's connection is gone.
pickDeliver(k) == deliver[k][1]

SessionsOf(k) == {c \in sessions : bind[c].who = k}

add(c) ==
  /\ sessions' = sessions \cup {c}
  /\ byClient' = [byClient EXCEPT ![bind[c].who] = @ + 1]
  /\ deliver' = IF canDeliver(bind[c].mode)
                THEN [deliver EXCEPT ![bind[c].who] = Append(@, c)] ELSE deliver

\* A deviation: the list of receivers is left alone.
RemovedButListed(c) ==
  /\ sessions' = sessions \ {c}
  /\ byClient' = [byClient EXCEPT ![bind[c].who] = @ - 1]
  /\ UNCHANGED deliver

\* The first entry of c, if there is one, goes.
Without(list, c) ==
  LET first == CHOOSE i \in 1 .. Len(list) : list[i] = c /\ \A j \in 1 .. i - 1 : list[j] # c
  IN  IF c \in ToSet(list) THEN RemoveAt(list, first) ELSE list

remove(c) ==
  /\ sessions' = sessions \ {c}
  /\ byClient' = IF c \in sessions /\ byClient[bind[c].who] > 0
                 THEN [byClient EXCEPT ![bind[c].who] = @ - 1] ELSE byClient
  /\ deliver' = IF c \in sessions
                THEN [deliver EXCEPT ![bind[c].who] = Without(@, c)] ELSE deliver

Goto(c, s) == pc' = [pc EXCEPT ![c] = s]

\* handleBind returns no session.
Unserved(c) ==
  /\ Goto(c, "unbound")
  /\ bind' = [bind EXCEPT ![c] = NoBind]

\* handleConn returns: its session is dropped, its connection closed.
End(c) ==
  /\ Goto(c, "ended")
  /\ bind' = [bind EXCEPT ![c] = NoBind]
  /\ remove(c)
  /\ open' = open \ {c}
  /\ doomed' = doomed \ {c}

\* The listener is closed last, so connections still come in after cancel().
Accept(c) ==
  /\ phase \in {"serving", "cancelled"} /\ pc[c] = "new"
  /\ Goto(c, "accepted")
  /\ open' = open \cup {c}
  /\ UNCHANGED <<phase, bind, registry, doomed, attempts, clock, history>>

\* The goroutine runs, and only now is it counted for Stop.
Track(c) ==
  /\ pc[c] = "accepted"
  /\ Goto(c, "unbound")
  /\ UNCHANGED <<phase, open, bind, registry, doomed, attempts, clock, history>>

\* A bind PDU of an unbound connection.  A blocked key is answered at once.
Bind(c, k, m) ==
  /\ pc[c] = "unbound" /\ c \in open
  /\ IF Blocked(attempts[k], clock)
     THEN UNCHANGED <<pc, bind, attempts>>
     ELSE /\ Goto(c, "lookup")
          /\ bind' = [bind EXCEPT ![c] = [who |-> k, mode |-> m, now |-> clock]]
          /\ attempts' = [attempts EXCEPT ![k] = Looked(@, clock)]
  /\ UNCHANGED <<phase, open, registry, doomed, clock, history>>

\* The profile is read with the server's context, which Stop cancels.
CanQuery == phase = "serving"

LookupSucceeds(c) ==
  /\ pc[c] = "lookup" /\ CanQuery
  /\ Goto(c, "count")
  /\ UNCHANGED <<phase, open, bind, registry, doomed, attempts, clock, history>>

\* Unknown, inactive, from a foreign address or with a wrong password.
LookupRefuses(c) ==
  /\ pc[c] = "lookup" /\ CanQuery
  /\ Unserved(c)
  /\ attempts' = [attempts EXCEPT ![bind[c].who] = Failed(@, bind[c].now)]
  /\ UNCHANGED <<phase, open, registry, doomed, clock, history>>

\* A statement that fails is not held against the peer.
LookupFails(c) ==
  /\ pc[c] = "lookup"
  /\ Unserved(c)
  /\ UNCHANGED <<phase, open, registry, doomed, attempts, clock, history>>

\* A deviation: the limit is exceeded by one.
FullTooLate(k) == MaxBinds[k] > 0 /\ byClient[k] > MaxBinds[k]

Full(k) == MaxBinds[k] > 0 /\ byClient[k] >= MaxBinds[k]

Count(c) ==
  /\ pc[c] = "count"
  /\ IF Full(bind[c].who) THEN Unserved(c) ELSE Goto(c, "register") /\ UNCHANGED bind
  /\ UNCHANGED <<phase, open, registry, doomed, attempts, clock, history>>

\* The failures are forgotten, the session is registered, the peer answered.
Register(c) ==
  /\ pc[c] = "register"
  /\ attempts' = [attempts EXCEPT ![bind[c].who] = NoAttempts]
  /\ add(c)
  /\ Goto(c, "bound")
  /\ bind' = [bind EXCEPT ![c].now = 0]
  /\ overtaken' = (overtaken \/ \E o \in Conns \ {c} : pc[o] = "register" /\ bind[o].who = bind[c].who)
  /\ late' = (late \/ phase \notin {"serving", "cancelled"})
  /\ UNCHANGED <<phase, open, doomed, clock>>

Submit(c) ==
  /\ pc[c] = "bound" /\ c \in open /\ canSubmit(bind[c].mode)
  /\ Goto(c, "submit")
  /\ UNCHANGED <<phase, open, bind, registry, doomed, attempts, clock, history>>

\* Accepted or refused, the answer is written; a write error is dropped.
SubmitAnswered(c) ==
  /\ pc[c] = "submit"
  /\ Goto(c, "bound")
  /\ UNCHANGED <<phase, open, bind, registry, doomed, attempts, clock, history>>

\* An unbind; or, before a bind, any other PDU.
Unbind(c) ==
  /\ pc[c] \in {"bound", "unbound"} /\ c \in open
  /\ End(c)
  /\ UNCHANGED <<phase, attempts, clock, history>>

\* The connection is closed, or an unbound one stays silent for 30 seconds.
ReadFails(c) == c \notin open \/ pc[c] = "unbound"

Disconnect(c) ==
  /\ pc[c] \in {"bound", "unbound"} /\ ReadFails(c)
  /\ End(c)
  /\ UNCHANGED <<phase, attempts, clock, history>>

PeerCloses(c) ==
  /\ c \in open
  /\ open' = open \ {c}
  /\ UNCHANGED <<phase, pc, bind, registry, doomed, attempts, clock, history>>

\* An administrator has the client's sessions closed; they are listed under
\* the mutex and closed after it.
RestartClient(k) ==
  /\ phase = "serving"
  /\ doomed' = doomed \cup SessionsOf(k)
  /\ UNCHANGED <<phase, pc, open, bind, registry, attempts, clock, history>>

CloseOne(c) ==
  /\ c \in doomed
  /\ doomed' = doomed \ {c}
  /\ open' = open \ {c}
  /\ UNCHANGED <<phase, pc, bind, registry, attempts, clock, history>>

Cancel ==
  /\ phase = "serving"
  /\ phase' = "cancelled"
  /\ UNCHANGED <<pc, open, bind, registry, doomed, attempts, clock, history>>

\* closeAll lists the sessions; then the listener goes.
closeAll ==
  /\ phase = "cancelled"
  /\ phase' = "closed"
  /\ doomed' = doomed \cup sessions
  /\ UNCHANGED <<pc, open, bind, registry, attempts, clock, history>>

AllDone == Tracked = {}

\* Stop closes the connections it listed before it waits for the handlers.
WaitEnds ==
  /\ phase = "closed" /\ doomed = {} /\ AllDone
  /\ phase' = "stopped"
  /\ UNCHANGED <<pc, open, bind, registry, doomed, attempts, clock, history>>

\* 25 seconds are over.
WaitTimesOut ==
  /\ phase = "closed" /\ doomed = {} /\ ~AllDone
  /\ phase' = "gaveup"
  /\ UNCHANGED <<pc, open, bind, registry, doomed, attempts, clock, history>>

\* A tick is long: no bind looks at the throttle before one and ends after the
\* next.
Tick ==
  /\ clock < MaxClock
  /\ \A c \in Conns : pc[c] = "lookup" => bind[c].now = clock
  /\ clock' = clock + 1
  /\ UNCHANGED <<phase, pc, open, bind, registry, doomed, attempts, history>>

BindStep(c) == LookupSucceeds(c) \/ LookupRefuses(c) \/ LookupFails(c) \/ Count(c) \/ Register(c)

HandlerStep(c) == Track(c) \/ BindStep(c) \/ SubmitAnswered(c) \/ Disconnect(c)

PeerStep(c) ==
  \/ Accept(c) \/ Submit(c) \/ Unbind(c) \/ PeerCloses(c)
  \/ \E k \in Clients, m \in Modes : Bind(c, k, m)

Next ==
  \/ \E c \in Conns : HandlerStep(c) \/ PeerStep(c) \/ CloseOne(c)
  \/ \E k \in Clients : RestartClient(k)
  \/ Cancel \/ closeAll \/ WaitEnds \/ WaitTimesOut
  \/ Tick

Spec == Init /\ [][Next]_vars

\* Goroutines run; peers need not do anything, nor need Stop ever be called.
FairSpec ==
  /\ Spec
  /\ \A c \in Conns : WF_vars(HandlerStep(c)) /\ WF_vars(CloseOne(c))
  /\ WF_vars(closeAll)
-----------------------------------------------------------------------------
\* "bind counts stay accurate" (server.go:189) through binds, unbinds,
\* disconnects, restarts and the stop: a registered session has a handler that
\* will drop it, the count of a client is the number of its sessions, and its
\* receivers are listed once each.
CountsAccurate ==
  /\ sessions = {c \in Conns : pc[c] \in {"bound", "submit"}}
  /\ \A k \in Clients :
       /\ byClient[k] = Cardinality(SessionsOf(k))
       /\ ToSet(deliver[k]) = {c \in SessionsOf(k) : canDeliver(bind[c].mode)}
       /\ IsInjective(deliver[k])

\* No sequence of binds, restarts and disconnects gives a client more sessions
\* than its limit, unless one is registered while another bind of the client
\* stands between its count and its registration: the limit is checked and
\* then acted on (server.go:322, 335).
BindsCapped ==
  ~overtaken =>
    \A k \in Clients : MaxBinds[k] > 0 => Cardinality(SessionsOf(k)) <= MaxBinds[k]

\* However many connections try at once, the failures counted in one window
\* exceed the limit at most by the binds that were under way when it was
\* reached.
GuessesBounded ==
  \A k \in Clients : attempts[k].count < MaxAttempts + Cardinality(Conns)

\* Type correctness, the three above, and: once Stop has seen all handlers end,
\* no session is or will be registered.
RegistryInv ==
  /\ TypeOK /\ CountsAccurate /\ BindsCapped /\ GuessesBounded
  /\ phase = "stopped" => \A c \in Conns : pc[c] \notin {"count", "register", "bound", "submit"}

\* A receiver whose connection is gone does not hold up the client's receipts
\* for ever, and the stop ends every session, but for those registered after
\* it had listed them.
SessionsEnd ==
  /\ \A c \in Conns, k \in Clients :
       (deliver[k] # <<>> /\ pickDeliver(k) = c /\ c \notin open)
         ~> (deliver[k] = <<>> \/ pickDeliver(k) # c)
  /\ phase # "serving" ~> sessions = {} \/ late
=============================================================================

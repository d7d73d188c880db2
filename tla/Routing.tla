---------------------------- MODULE Routing ----------------------------
(* How one message is decided upon: its sender, its rate, its route, the *)
(* order and the check of its carriers, the sender and the number that   *)
(* go on the wire and the cost that is booked.  Every step reads the tables as they are *)
(* at that step, or the cache as it was last loaded, while admins edit   *)
(* them.  An edit moves the tables as a whole from one setup to another. *)
EXTENDS Numbers

CONSTANTS
  Setups,        \* the states of the tables the forms may leave
  Destinations,
  Senders,       \* sender IDs a request may name
  Kind,          \* [Senders -> {"alpha", "numeric", "e164"}]
  SystemDefault, \* the setting default_sender_id
  NoSender,      \* an empty or missing sender ID
  AnySender,     \* a request's from: "any"
  Carriers,      \* none is ever deleted
  NoCarrier,
  MaxEdits,      \* bound on edits
  MaxFaults,     \* bound on statements that fail
  MaxAttempts    \* bound on claims of a queued message

VARIABLES
  setup,   \* the tables
  cached,  \* the setup the route cache was loaded from
  edits,
  faults,
  msg      \* the message under way

routingVars == <<setup, cached, edits, faults, msg>>

AllSenders == Senders \cup {SystemDefault, NoSender, AnySender}

\* What the schema says of a table's rows.
IsTable(rows) ==
  /\ IsFiniteSet(rows)
  /\ \A row \in rows : row.prefix \in Seq(Digits \cup {"*"}) \ {<<>>}

\* The senders named by the row of a client, of a carrier and of their lists are
\* sender IDs; a rate is a number, a routing group has one row for a prefix, with a
\* primary carrier; a destination is a number, with a plus or without.
ASSUME RoutingAssumption ==
  /\ \A db \in Setups :
       /\ {db.default, db.listDefault} \subseteq AllSenders
       /\ \A k \in Carriers : {db.carriers[k].default, db.lists[k].default} \subseteq AllSenders
       /\ \A g \in DOMAIN db.groups :
            IsTable(db.groups[g]) /\ \A row \in db.groups[g] : row.rate \in Nat
       /\ IsTable(db.routes) /\ ~HasTwins(db.routes)
       /\ \A row \in db.routes :
            /\ row.slots \in Seq(Carriers) \ {<<>>}
            /\ Len(row.weights) = Len(row.slots)
            /\ row.mode \in {"failover", "loadbalance", "overflow"}
  /\ \A to \in Destinations :
       /\ to \in Seq(Digits \cup {"+"})
       /\ \A i \in 2 .. Len(to) : to[i] \in Digits
  /\ MaxEdits \in Nat /\ MaxFaults \in Nat /\ MaxAttempts \in Nat

\* queued: the message goes through the send queue, as the configuration says.
\* answer: the sender resolved for the client; sid: the one dispatch works with.
\* asSubmitted, asChecked: no edit since the message was submitted, its carrier checked.
\* untried: no carrier was contacted yet; checked: the loss check could be made.
NoSid == [value |-> NoSender, source |-> "none"]
Idle == [pc |-> "idle", via |-> "api", queued |-> FALSE, from |-> NoSender, to |-> <<>>,
         stored |-> NoSender, answer |-> NoSid, sid |-> NoSid, rate |-> 0, left |-> <<>>,
         at |-> NoCarrier, sender |-> NoSender, wire |-> <<>>, cost |-> 0, outcome |-> "none",
         claims |-> 0, resent |-> FALSE, untried |-> TRUE, asSubmitted |-> TRUE,
         asChecked |-> TRUE, checked |-> TRUE]

RoutingInit ==
  /\ setup \in Setups
  /\ cached = setup
  /\ edits = 0
  /\ faults = 0
  /\ msg = Idle

Orders(rows) == SetToSeqs(rows)

---------------------------------------------------------------------------
\* Sender identity.
IsValidPhoneSenderID(value) == Kind[value] \in {"numeric", "e164"}

ClientAllowsSenderID(db, value) ==
  \/ db.mode = "list"  /\ value \in db.listed
  \/ db.mode = "phone" /\ IsValidPhoneSenderID(value)
  \/ db.mode = "any"   /\ Kind[value] # "e164"

Refused == [value |-> NoSender, source |-> "refused"]

\* The cascade of ResolveSenderID: request, client default, list default, system.
ResolveSenderID(db, from) ==
  CASE from = AnySender -> [value |-> SystemDefault, source |-> "carrier_default"]
    [] from \in Senders \cup {SystemDefault} ->
         IF ClientAllowsSenderID(db, from)
         THEN [value |-> from, source |-> "client_provided"] ELSE Refused
    [] from = NoSender ->
         [source |-> "client_default",
          value  |-> IF db.default # NoSender /\ ClientAllowsSenderID(db, db.default)
                     THEN db.default
                     ELSE IF db.listDefault # NoSender THEN db.listDefault
                     ELSE SystemDefault]

\* Whether the carrier's own default replaces what was resolved.
Replaces(profile, sid) == sid.source = "carrier_default" \/ profile.policy = "none"

\* The profile is the cache's; the carrier's list is read from its table.
EffectiveSender(profile, list, sid) ==
  IF ~Replaces(profile, sid) THEN sid.value
  ELSE IF profile.default # NoSender THEN profile.default
  ELSE IF list.default # NoSender THEN list.default
  ELSE sid.value

PolicyAccepts(profile, list, sender) ==
  \/ profile.policy \in {"any", "none"}
  \/ profile.policy = "numeric" /\ Kind[sender] = "numeric"
  \/ profile.policy = "e164"    /\ Kind[sender] = "e164"
  \/ profile.policy = "list"    /\ sender \in list.listed

---------------------------------------------------------------------------
\* Rates.  A carrier without a rate group, or without a row, costs what the client pays.
InLoss(db, profile, rows, to, clientRate) ==
  /\ ~db.lossOK
  /\ profile.group \in DOMAIN db.groups
  /\ LET row == LossRow(rows, normalizeDestination(to))
     IN  row # NoRow /\ row.rate > clientRate

LookupCarrierCost(db, k, rows, to, fallback) ==
  IF db.carriers[k].group \notin DOMAIN db.groups THEN fallback
  ELSE LET row == longestPrefixRate(rows, to)
       IN  IF row = NoRow THEN fallback ELSE row.rate

ActiveRoutes(db) == {row \in db.routes : row.status = "active"}

GroupRows(db, group) ==
  IF group \in DOMAIN db.groups THEN db.groups[group] ELSE {}

Twins == \E g \in DOMAIN setup.groups : HasTwins(setup.groups[g])

---------------------------------------------------------------------------
\* Carriers of S are in the order of the row's slots.
InPriority(order, row, S) ==
  \A i, j \in DOMAIN order : i < j /\ {order[i], order[j]} \subseteq S =>
    \E a, b \in DOMAIN row.slots :
      a < b /\ row.slots[a] = order[i] /\ row.slots[b] = order[j]

\* A carrier that has a weight first, whichever the counter picks, then the others.
BalancedOrders(row) ==
  {order \in Orders(ToSet(row.slots)) :
     /\ \E i \in DOMAIN row.slots : row.slots[i] = order[1] /\ row.weights[i] > 0
     /\ InPriority(order, row, Carriers \ {order[1]})}

\* The carriers that are ready first: HTTP always is, SMPP while a session is bound.
OverflowOrders(row, profiles) ==
  {order \in Orders(ToSet(row.slots)) :
     \E down \in SUBSET {k \in Carriers : profiles[k].transport = "smpp"} :
       /\ \A i, j \in DOMAIN order : i < j /\ order[i] \in down => order[j] \in down
       /\ InPriority(order, row, down) /\ InPriority(order, row, Carriers \ down)}

\* The orders in which the carriers of a route may be tried.  The failover setting is
\* read from its table, the row and the transports from the cache.
Chains(row) ==
  IF ~setup.failover THEN {SubSeq(row.slots, 1, 1)}
  ELSE IF row.mode = "loadbalance" /\ BalancedOrders(row) # {} THEN BalancedOrders(row)
  ELSE IF row.mode = "overflow" THEN OverflowOrders(row, cached.carriers)
  ELSE {row.slots}

End(outcome) == [msg EXCEPT !.pc = "done", !.outcome = outcome]

\* The column from_number: a request without a sender stores the system default,
\* except from the admin pages; "any" is stored as written, except from a submit_sm.
StoredFrom(via, from, sid) ==
  CASE via = "api"  -> IF from = NoSender THEN SystemDefault ELSE from
    [] via = "smpp" -> IF from = NoSender THEN SystemDefault ELSE sid.value
    [] via = "page" -> IF from = NoSender THEN sid.value ELSE from

Resolved(m, via, from, to) ==
  LET sid == ResolveSenderID(setup, from)
      new == [m EXCEPT !.via = via, !.from = from, !.to = to, !.answer = sid, !.sid = sid,
                       !.stored = StoredFrom(via, from, sid), !.asSubmitted = cached = setup]
  IN  IF sid = Refused THEN [new EXCEPT !.pc = "done", !.outcome = "sender_refused"]
      ELSE [new EXCEPT !.pc = "resolved"]

Submit(via, from, to, queued) ==
  /\ msg.pc = "idle"
  /\ msg' = Resolved([Idle EXCEPT !.queued = queued], via, from, to)
  /\ UNCHANGED <<setup, cached, edits, faults>>

\* An operator sends a logged message again: the client, sender and number of its row.
Resend ==
  /\ msg.pc = "done" /\ ~msg.resent
  /\ msg.outcome \in {"accepted", "failed", "undelivered"}
  /\ msg' = Resolved([Idle EXCEPT !.resent = TRUE, !.queued = msg.queued],
                     "page", msg.stored, msg.to)
  /\ UNCHANGED <<setup, cached, edits, faults>>

Price ==
  /\ msg.pc = "resolved"
  /\ \E rows \in Orders(GroupRows(setup, setup.clientGroup)) :
       LET row == longestPrefixRate(rows, msg.to)
       IN  msg' = IF row = NoRow THEN End("no_rate")
                  ELSE [msg EXCEPT !.pc = "priced", !.rate = row.rate]
  /\ UNCHANGED <<setup, cached, edits, faults>>

Route ==
  /\ msg.pc = "priced"
  /\ \E rows \in Orders(ActiveRoutes(cached)) :
       LET row == longestPrefix(rows, msg.to)
       IN  IF row = NoRow THEN msg' = End("no_route")
           ELSE IF msg.queued THEN msg' = [msg EXCEPT !.pc = "queued"]
           ELSE \E chain \in Chains(row) : msg' = [msg EXCEPT !.pc = "try", !.left = chain]
  /\ UNCHANGED <<setup, cached, edits, faults>>

\* A deviation: a worker takes the system default for the sender.
RebuiltAsDefault(m) == [value |-> SystemDefault, source |-> m.answer.source]

\* What a worker rebuilds the sender from: the stored columns.
Rebuilt(m) == [value |-> m.stored, source |-> m.answer.source]

\* A worker rebuilds the message from its row and looks the route up again.
Claim ==
  /\ msg.pc = "queued" /\ msg.claims < MaxAttempts
  /\ \E rows \in Orders(ActiveRoutes(cached)) :
       LET row == longestPrefix(rows, msg.to)
       IN  IF row = NoRow THEN msg' = End("undelivered")
           ELSE \E chain \in Chains(row) :
                  msg' = [msg EXCEPT !.pc = "try", !.left = chain,
                                     !.sid = Rebuilt(msg), !.claims = @ + 1]
  /\ UNCHANGED <<setup, cached, edits, faults>>

Expire ==
  /\ msg.pc = "queued"
  /\ msg' = End("undelivered")
  /\ UNCHANGED <<setup, cached, edits, faults>>

---------------------------------------------------------------------------
Candidate == Head(msg.left)
Profile == cached.carriers[Candidate]

NextCarrier(m) == [m EXCEPT !.pc = "try", !.left = Tail(@), !.at = NoCarrier,
                            !.sender = NoSender, !.wire = <<>>, !.checked = TRUE]

EffectiveHere == EffectiveSender(Profile, setup.lists[Candidate], msg.sid)

Passes ==
  /\ Profile.status = "active"
  /\ PolicyAccepts(Profile, setup.lists[Candidate], EffectiveHere)

\* The carrier is inactive, its policy refuses the sender, or it would lose money.
Skip ==
  /\ msg.pc = "try" /\ msg.left # <<>>
  /\ \/ ~Passes
     \/ \E rows \in Orders(GroupRows(setup, Profile.group)) :
          InLoss(setup, Profile, rows, msg.to, msg.rate)
  /\ msg' = NextCarrier(msg)
  /\ UNCHANGED <<setup, cached, edits, faults>>

Goes == [msg EXCEPT !.pc = "send", !.at = Candidate, !.sender = EffectiveHere,
                    !.asChecked = Profile.group = setup.carriers[Candidate].group]

Check ==
  /\ msg.pc = "try" /\ msg.left # <<>>
  /\ Passes
  /\ \E rows \in Orders(GroupRows(setup, Profile.group)) :
       ~InLoss(setup, Profile, rows, msg.to, msg.rate)
  /\ msg' = Goes
  /\ UNCHANGED <<setup, cached, edits, faults>>

\* The statement of the loss check fails: the carrier counts as eligible.
CheckFailsOpen ==
  /\ msg.pc = "try" /\ msg.left # <<>> /\ faults < MaxFaults
  /\ Passes
  /\ faults' = faults + 1
  /\ msg' = [Goes EXCEPT !.checked = FALSE]
  /\ UNCHANGED <<setup, cached, edits>>

\* The statement on the carrier's list fails: the carrier is passed over.
CheckFails ==
  /\ msg.pc = "try" /\ msg.left # <<>> /\ faults < MaxFaults
  /\ Profile.policy = "list"
  /\ faults' = faults + 1
  /\ msg' = NextCarrier([msg EXCEPT !.asSubmitted = FALSE])
  /\ UNCHANGED <<setup, cached, edits>>

\* The carrier's rules rewrite the sender and the destination just before it
\* is contacted.
DispatchSender == Translate(cached.carriers[msg.at].senderRules, msg.sender)
Wire == Translate(cached.carriers[msg.at].rules, msg.to)

Accept ==
  /\ msg.pc = "send"
  /\ msg' = [msg EXCEPT !.pc = "sent", !.sender = DispatchSender, !.wire = Wire,
                         !.left = <<>>, !.untried = FALSE]
  /\ UNCHANGED <<setup, cached, edits, faults>>

Refuse ==
  /\ msg.pc = "send"
  /\ msg' = NextCarrier([msg EXCEPT !.untried = FALSE])
  /\ UNCHANGED <<setup, cached, edits, faults>>

\* No carrier is left: a queued message is tried again later.
Exhaust ==
  /\ msg.pc = "try" /\ msg.left = <<>>
  /\ msg' = IF msg.queued THEN [msg EXCEPT !.pc = "queued"]
            ELSE End("failed")
  /\ UNCHANGED <<setup, cached, edits, faults>>

Cost ==
  /\ msg.pc = "sent"
  /\ \E rows \in Orders(GroupRows(setup, setup.carriers[msg.at].group)) :
       msg' = [End("accepted") EXCEPT
                 !.cost = LookupCarrierCost(setup, msg.at, rows, msg.to, msg.rate)]
  /\ UNCHANGED <<setup, cached, edits, faults>>

\* The cost cannot be read: the message is forced to accepted and costs nothing.
CostFails ==
  /\ msg.pc = "sent" /\ faults < MaxFaults
  /\ faults' = faults + 1
  /\ msg' = [End("accepted") EXCEPT !.cost = 0]
  /\ UNCHANGED <<setup, cached, edits>>

EditTables ==
  /\ edits < MaxEdits
  /\ edits' = edits + 1
  /\ \E other \in Setups \ {setup} : setup' = other
  /\ msg' = [msg EXCEPT !.asSubmitted = FALSE, !.asChecked = FALSE]
  /\ UNCHANGED <<cached, faults>>

Reload ==
  /\ cached # setup
  /\ cached' = setup
  /\ msg' = [msg EXCEPT !.asSubmitted = FALSE]
  /\ UNCHANGED <<setup, edits, faults>>

RoutingNext ==
  \/ \E via \in {"api", "smpp", "page"}, to \in Destinations, queued \in BOOLEAN,
        from \in Senders \cup {NoSender, AnySender} : Submit(via, from, to, queued)
  \/ Resend \/ Price \/ Route \/ Claim \/ Expire
  \/ Skip \/ Check \/ CheckFailsOpen \/ CheckFails
  \/ Accept \/ Refuse \/ Exhaust \/ Cost \/ CostFails
  \/ EditTables \/ Reload

RoutingSpec == RoutingInit /\ [][RoutingNext]_routingVars

---------------------------------------------------------------------------
\* The simulation page reads the tables, whatever the cache holds, and knows
\* neither the failover setting nor the distribution mode.  It shows a decision and
\* the carriers found eligible.
SimulatedRoute(db, to) == simulationLongestPrefixRoute(SetToSeq(ActiveRoutes(db)), to)

Decision(why) == [decision |-> why, eligible |-> {}]

SimulatedEligible(db, k, sid, to, rate) ==
  LET profile == db.carriers[k]
      list == db.lists[k]
  IN  /\ profile.status = "active"
      /\ PolicyAccepts(profile, list, EffectiveSender(profile, list, sid))
      /\ ~InLoss(db, profile, SetToSeq(GroupRows(db, profile.group)), to, rate)

RunSimulation(db, from, to) ==
  LET sid == ResolveSenderID(db, from)
      rate == longestPrefixRate(SetToSeq(GroupRows(db, db.clientGroup)), to)
      route == SimulatedRoute(db, to)
  IN  IF sid = Refused THEN Decision("sender_refused")
      ELSE IF rate = NoRow THEN Decision("no_rate")
      ELSE IF route = NoRow THEN Decision("no_route")
      ELSE LET fit == {i \in DOMAIN route.slots :
                         SimulatedEligible(db, route.slots[i], sid, to, rate.rate)}
           IN  IF fit = {} THEN Decision("failed")
               ELSE [decision |-> route.slots[Min(fit)],
                     eligible |-> {route.slots[i] : i \in fit}]

---------------------------------------------------------------------------
\* Properties.

\* The five searches agree, in every order of the rows, with what a table promises,
\* and so does the loss check where no two rows share a prefix
\* (sending/route.go, routecache/cache.go, billing/rate.go, web/simulate.go, routing/matcher.go,
\* carrier/eligibility.go).
SearchesAgree ==
  \A to \in Destinations :
    /\ \A g \in DOMAIN setup.groups : \A rows \in Orders(setup.groups[g]) :
         /\ Answers(setup.groups[g], to, longestPrefixRate(rows, to))
         /\ HasTwins(setup.groups[g])
              \/ LossRow(rows, normalizeDestination(to)) = longestPrefixRate(rows, to)
    /\ \A rows \in Orders(ActiveRoutes(setup)) :
         LET row == longestPrefix(rows, to)
         IN  /\ Answers(ActiveRoutes(setup), to, row)
             /\ longestPrefixRoute(rows, to) = row
             /\ simulationLongestPrefixRoute(rows, to) = row
             /\ \A all \in Orders(setup.routes) : LongestPrefixMatch(all, to) = row

RoutingTypeOK ==
  /\ setup \in Setups /\ cached \in Setups
  /\ edits \in 0 .. MaxEdits /\ faults \in 0 .. MaxFaults
  /\ msg.pc \in {"idle", "resolved", "priced", "queued", "try", "send", "sent", "done"}
  /\ msg.stored \in AllSenders
  /\ msg.pc \notin {"sent", "done"} => msg.sender \in AllSenders
  /\ msg.claims \in 0 .. MaxAttempts

\* The chain that forces E.164, as the package's comment and test compose it (numrules.go).
ForcesE164(rules) ==
  /\ Len(rules) = 4
  /\ rules[1] = [type |-> "strip_leading_plus"] /\ rules[2] = [type |-> "strip_leading_zeros"]
  /\ rules[3].type = "add_prefix" /\ rules[3].prefix \in Seq(Digits)
  /\ rules[4] = [type |-> "add_prefix", prefix |-> <<"+">>]

\* It does so for every number a client may send, after any failover: the number on the
\* wire has one + and then digits.
RoutingInv ==
  /\ RoutingTypeOK
  /\ msg.pc = "idle" => SearchesAgree
  /\ msg.wire # <<>> /\ msg.asSubmitted /\ ForcesE164(setup.carriers[msg.at].rules) =>
       /\ Head(msg.wire) = "+"
       /\ \A i \in 2 .. Len(msg.wire) : msg.wire[i] \in Digits

\* A client that may not be sent at a loss is not: what a carrier is paid never exceeds
\* what the client paid, although the check and the booking find the rate with different
\* code from different copies.  The exceptions: rates edited between the two, two rows of
\* one prefix, a stale rate group in the cache, a check whose statement failed
\* (carrier/eligibility.go, billing/carrier_charge.go).
NoUnseenLoss ==
  msg.outcome = "accepted" /\ msg.asChecked /\ msg.checked /\ ~setup.lossOK /\ ~Twins
    => msg.cost <= msg.rate

\* The simulation page foretells what becomes of a message sent now: why it is refused,
\* and in every distribution mode that the first carrier contacted is one it shows as
\* eligible.  It is the very carrier the page names where the route fails over in slot
\* order; in the other modes the page does not say which it will be
\* (web/simulate.go, sending/dispatch.go, sending/failover.go).
Foretold ==
  LET page == RunSimulation(setup, msg.from, msg.to)
  IN  /\ msg.pc = "send" =>
           /\ msg.at \in page.eligible
           /\ SimulatedRoute(setup, msg.to).mode = "failover" => msg.at = page.decision
      /\ msg.pc = "done" /\ msg.outcome \in {"sender_refused", "no_rate", "no_route", "failed"}
           => page.decision = msg.outcome

Loses(m) ==
  /\ m.queued
  /\ \/ m.from = NoSender /\ m.via # "page"
     \/ m.from = AnySender /\ m.via # "smpp"

SimulationAgrees ==
  /\ msg.pc \in {"send", "done"} /\ msg.asSubmitted /\ msg.untried /\ msg.checked
  /\ setup.failover /\ ~Twins /\ ~Loses(msg)
  => Foretold

\* The manual's cascade: the sender resolved when the message was submitted, which the
\* client is told, is the sender that goes out, as the carrier's rules rewrite it, but
\* where a carrier's own replaces it (doc/MiniSMS_Admin_Guide.md on the default sender ID).
AnsweredIsSent ==
  msg.pc = "sent" /\ msg.asSubmitted =>
    \/ msg.sender = Translate(setup.carriers[msg.at].senderRules, msg.answer.value)
    \/ Replaces(setup.carriers[msg.at], msg.answer)

\* It holds of a queued message too, which is rebuilt from its row at every attempt, when
\* its row could keep the sender (sending/queue.go).
SenderKept == ~Loses(msg) => AnsweredIsSent

\* Between its submission and its end the message's row keeps the sender,
\* unless it loses it; dispatch works with the sender resolved or with the
\* row's, and a carrier that was checked is sent what the check worked out and its
\* rules make of it.
UnderWay == msg.pc \notin {"idle", "done"}

SenderInv ==
  /\ DOMAIN msg = DOMAIN Idle
  /\ setup \in Setups /\ msg.stored \in AllSenders
  /\ msg.asSubmitted => cached = setup
  /\ UnderWay => msg.sid \in {msg.answer, Rebuilt(msg)}
  /\ UnderWay /\ ~msg.queued => msg.pc # "queued" /\ msg.sid = msg.answer
  /\ UnderWay /\ msg.queued /\ ~Loses(msg) => msg.stored = msg.answer.value
  /\ msg.pc \in {"send", "sent"} /\ msg.asSubmitted =>
       LET sender == EffectiveSender(setup.carriers[msg.at], setup.lists[msg.at], msg.sid)
       IN  msg.sender = IF msg.pc = "send" THEN sender
                        ELSE Translate(setup.carriers[msg.at].senderRules, sender)
========================================================================

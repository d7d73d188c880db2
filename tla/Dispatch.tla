------------------------------ MODULE Dispatch ------------------------------
(***************************************************************************)
(* Carrier dispatch with failover (internal/sending/dispatch.go and        *)
(* failover.go): several messages of one route are dispatched at once.     *)
(* orderCarriers fixes the order in which a message tries the route's      *)
(* carriers; dispatchWithFailover walks it, and every attempt writes into  *)
(* one outcome record that the next attempt finds as it was left.          *)
(* The outcome's fields name the slot whose answer they hold.              *)
(***************************************************************************)
EXTENDS Integers, Sequences, FiniteSets, Functions

CONSTANTS
  Msgs,
  SlotCount,        \* carriers of the route: primary, failover 1, failover 2
  Modes,            \* settings of the route to consider
  Weight,           \* weight of each slot
  Transport         \* "http" or "smpp", of each slot's carrier

\* Slot numbers, as stored in failover_sequence: 0 is the primary.
Slots == 0 .. SlotCount - 1

ASSUME DispatchAssumption ==
  /\ SlotCount \in 1 .. 3
  /\ Modes \subseteq {"single", "failover", "loadbalance", "overflow"}
  /\ Weight \in [Slots -> 0 .. 1000]
  /\ Transport \in [Slots -> {"http", "smpp"}]

\* Nobody has set the field.
None == -1

\* A code set by the dispatcher itself (503) rather than by a carrier.
Local == -2

Fates ==
  {"none", "missing", "error", "skipped", "unsent", "lost", "refused",
   "accepted"}

\* dispatchOutcome: who last set each field, and what became of each slot
\* (out.Timeline).
Outcome ==
  [code : Slots \cup {Local, None},  \* LastCode
   reply : Slots \cup {None},        \* StatusCode and CarrierMessageID
   text : Slots \cup {None},         \* LastBodyText
   egress : Slots \cup {None},       \* Egress
   sent_as : Slots \cup {None},      \* DispatchedSender, -Destination
   winner : Slots \cup {None},       \* CarrierID, FailoverSequence
   fate : [Slots -> Fates]]

NewOutcome ==
  [code |-> None, reply |-> None, text |-> None, egress |-> None,
   sent_as |-> None, winner |-> None, fate |-> [s \in Slots |-> "none"]]

VARIABLES
  mode,   \* route_entries.distribution_mode; "single": failover_enabled is off
  turns,  \* the route's round-robin counter
  bound,  \* slots whose carrier is ready
  ready,  \* slots a message found ready when it set its order
  order,  \* slots in the order a message tries them
  at,     \* position of its loop over carriers
  pc,     \* "new", "next", "sent" (waiting for an answer), "ok" or "failed"
  out,    \* dispatchOutcome
  took    \* carriers that have the message (theirs, not ours)

vars == <<mode, turns, bound, ready, order, at, pc, out, took>>

\* The route's carriers in some order, none twice.
Orders == {o \in [1 .. SlotCount -> Slots] : IsInjective(o)}

\* Mode single: the first slot's carrier and no other.
Primary == <<0>>

TypeOK ==
  /\ mode \in Modes
  /\ turns \in Nat
  /\ bound \subseteq Slots
  /\ ready \in [Msgs -> SUBSET Slots]
  /\ order \in [Msgs -> Orders \cup {<<>>, Primary}]
  /\ at \in [Msgs -> 1 .. SlotCount]
  /\ pc \in [Msgs -> {"new", "next", "sent", "ok", "failed"}]
  /\ out \in [Msgs -> Outcome]
  /\ took \in [Msgs -> SUBSET Slots]
  /\ \A m \in Msgs : pc[m] # "new" => at[m] \in DOMAIN order[m]

Init ==
  /\ mode \in Modes
  /\ turns = 0
  /\ bound \in {b \in SUBSET Slots : \A s \in Slots : Transport[s] = "http" => s \in b}
  /\ ready = [m \in Msgs |-> {}]
  /\ order = [m \in Msgs |-> <<>>]
  /\ at = [m \in Msgs |-> 1]
  /\ pc = [m \in Msgs |-> "new"]
  /\ out = [m \in Msgs |-> NewOutcome]
  /\ took = [m \in Msgs |-> {}]

-----------------------------------------------------------------------------
(* orderCarriers. *)

SumBelow(s) ==
  LET w[i \in 0 .. SlotCount] == IF i = 0 THEN 0 ELSE w[i - 1] + Weight[i - 1]
  IN  w[s]

TotalWeight == SumBelow(SlotCount)

\* A deviation: a stretch's end counted in.
HoldsEndToo(s, pos) == SumBelow(s) <= pos /\ pos <= SumBelow(s + 1) /\ Weight[s] > 0

\* orderLoadbalance: the slot whose stretch of the cycle holds this position.
Holds(s, pos) == SumBelow(s) <= pos /\ pos < SumBelow(s + 1)

\* Slot priority is kept among the carriers of S (slotOrder).
InPriority(o, S) ==
  \A i, j \in DOMAIN o : i < j /\ {o[i], o[j]} \subseteq S => o[i] < o[j]

\* The pick first, the others as its failover chain.
LedBy(o, s) == o[1] = s /\ InPriority(o, Slots \ {s})

\* orderOverflow: ready carriers first.
Spills(o, S) ==
  /\ InPriority(o, S) /\ InPriority(o, Slots \ S)
  /\ \A i, j \in DOMAIN o : i < j /\ o[j] \in S => o[i] \in S

Balanced == mode = "loadbalance" /\ SlotCount > 1 /\ TotalWeight > 0

Spilling == mode = "overflow" /\ SlotCount > 1

\* The order is set and the loop over it starts.
SetOrder(m, o) ==
  /\ order' = [order EXCEPT ![m] = o]
  /\ at' = [at EXCEPT ![m] = 1]
  /\ pc' = [pc EXCEPT ![m] = "next"]

\* The next turn of the counter picks the first carrier.
OrderBalanced(m) ==
  /\ pc[m] = "new" /\ Balanced
  /\ turns' = turns + 1
  /\ \E s \in Slots, o \in Orders :
       Holds(s, turns' % TotalWeight) /\ LedBy(o, s) /\ SetOrder(m, o)
  /\ UNCHANGED <<mode, bound, ready, out, took>>

\* The carriers are asked in turn whether they are ready.
OrderOverflow(m) ==
  /\ pc[m] = "new" /\ Spilling
  /\ ready' = [ready EXCEPT ![m] = @ \cup (bound \cap {at[m] - 1})]
  /\ IF at[m] < SlotCount
     THEN at' = [at EXCEPT ![m] = @ + 1] /\ UNCHANGED <<order, pc>>
     ELSE \E o \in Orders : Spills(o, ready'[m]) /\ SetOrder(m, o)
  /\ UNCHANGED <<mode, turns, bound, out, took>>

OrderBySlot(m) ==
  /\ pc[m] = "new" /\ ~Balanced /\ ~Spilling
  /\ IF mode = "single" THEN SetOrder(m, Primary)
     ELSE \E o \in Orders : InPriority(o, Slots) /\ SetOrder(m, o)
  /\ UNCHANGED <<mode, turns, bound, ready, out, took>>

-----------------------------------------------------------------------------
(* dispatchWithFailover: one carrier of the order. *)

Slot(m) == order[m][at[m]]

\* The loop goes on to the next carrier, or ends with "all carriers failed".
Advance(m) ==
  IF at[m] < Len(order[m])
  THEN at' = [at EXCEPT ![m] = @ + 1] /\ pc' = [pc EXCEPT ![m] = "next"]
  ELSE pc' = [pc EXCEPT ![m] = "failed"] /\ UNCHANGED at

\* The profile is missing or not active, or checking eligibility fails.
PassOver(m) ==
  /\ pc[m] = "next"
  /\ \E why \in {"missing", "error"} :
       out' = [out EXCEPT ![m].code = Local, ![m].fate[Slot(m)] = why]
  /\ Advance(m)
  /\ UNCHANGED <<mode, turns, bound, ready, order, took>>

\* Sender ID policy or in-loss protection.
Skip(m) ==
  /\ pc[m] = "next"
  /\ out' = [out EXCEPT ![m].fate[Slot(m)] = "skipped"]
  /\ Advance(m)
  /\ UNCHANGED <<mode, turns, bound, ready, order, took>>

\* Nothing is sent: without an endpoint, template or headers no code is
\* set, without a session it is the dispatcher's own.
NotSent(m) ==
  /\ pc[m] = "next"
  /\ Transport[Slot(m)] = "smpp" => Slot(m) \notin bound
  /\ out' = [out EXCEPT ![m].sent_as = Slot(m), ![m].fate[Slot(m)] = "unsent",
                        ![m].code = IF Transport[Slot(m)] = "smpp" THEN Local ELSE @]
  /\ Advance(m)
  /\ UNCHANGED <<mode, turns, bound, ready, order, took>>

Contact(m) ==
  /\ pc[m] = "next"
  /\ Slot(m) \in bound
  /\ out' = [out EXCEPT ![m].sent_as = Slot(m)]
  /\ pc' = [pc EXCEPT ![m] = "sent"]
  /\ UNCHANGED <<mode, turns, bound, ready, order, at, took>>

\* A deviation: the message id of an earlier refusal is kept.
CreditedKeepingReply(o, s) ==
  [o EXCEPT !.code = s, !.text = s, !.egress = s, !.winner = s,
            !.reply = IF @ = None THEN s ELSE @, !.fate[s] = "accepted"]

\* What an accepting answer leaves in the outcome.
Credited(o, s) ==
  [o EXCEPT !.code = s, !.reply = s, !.text = s, !.egress = s,
            !.winner = s, !.fate[s] = "accepted"]

\* What a refusing answer leaves: an SMPP refusal also sets the status and
\* the carrier's message id.
Refuted(o, s) ==
  [o EXCEPT !.code = s, !.text = s,
            !.reply = IF Transport[s] = "smpp" THEN s ELSE @,
            !.fate[s] = "refused"]

Stop(m) == pc' = [pc EXCEPT ![m] = "ok"] /\ UNCHANGED at

Accepted(m) ==
  /\ pc[m] = "sent"
  /\ took' = [took EXCEPT ![m] = @ \cup {Slot(m)}]
  /\ out' = [out EXCEPT ![m] = Credited(@, Slot(m))]
  /\ Stop(m)
  /\ UNCHANGED <<mode, turns, bound, ready, order>>

Refused(m) ==
  /\ pc[m] = "sent"
  /\ out' = [out EXCEPT ![m] = Refuted(@, Slot(m))]
  /\ Advance(m)
  /\ UNCHANGED <<mode, turns, bound, ready, order, took>>

\* A timeout or a broken connection: the code is the
\* dispatcher's own, whether or not the carrier took the message.
Fails(m) ==
  /\ pc[m] = "sent"
  /\ out' = [out EXCEPT ![m].code = Local, ![m].fate[Slot(m)] = "lost"]
  /\ \/ UNCHANGED took
     \/ took' = [took EXCEPT ![m] = @ \cup {Slot(m)}]
  /\ Advance(m)
  /\ UNCHANGED <<mode, turns, bound, ready, order>>

\* A session binds or drops.
Rebind(s) ==
  /\ Transport[s] = "smpp"
  /\ bound' = IF s \in bound THEN bound \ {s} ELSE bound \cup {s}
  /\ UNCHANGED <<mode, turns, ready, order, at, pc, out, took>>

DispatchStep(m) ==
  OrderBalanced(m) \/ OrderOverflow(m) \/ OrderBySlot(m)
    \/ PassOver(m) \/ Skip(m) \/ NotSent(m) \/ Contact(m)
    \/ Accepted(m) \/ Refused(m) \/ Fails(m)

Next == (\E m \in Msgs : DispatchStep(m)) \/ (\E s \in Slots : Rebind(s))

Spec == Init /\ [][Next]_vars

-----------------------------------------------------------------------------
(* Properties. *)

\* A carrier whose answer was not lost has the message only if it is the
\* one reported as the winner: no carrier is tried after an acceptance, and
\* none that was skipped or that refused is reported.
SentOnce ==
  \A m \in Msgs :
    {s \in took[m] : out[m].fate[s] # "lost"}
      = IF pc[m] = "ok" THEN {out[m].winner} ELSE {}

\* Every field of the outcome was last set by this slot.
OwnedBy(o, s) ==
  /\ o.code = s /\ o.reply = s /\ o.text = s
  /\ o.egress = s /\ o.sent_as = s /\ o.winner = s

\* The winner alone has the message, and its outcome: attempts share one
\* outcome record, and when a carrier accepts, no field of it is left over
\* from an earlier carrier (finalizeSendAccepted and finalizeSent store them
\* as the accepting carrier's).
WinnerOwnsOutcome ==
  /\ SentOnce
  /\ \A m \in Msgs : pc[m] = "ok" => \E s \in Slots : OwnedBy(out[m], s)

\* Carriers are tried in the order set, each once: those before the current
\* one have their fate, those after it have none, and a dispatch fails only
\* when all are used up.
TriedInOrder ==
  \A m \in Msgs :
    \A i \in DOMAIN order[m] :
      LET tried == i < at[m] \/ (i = at[m] /\ pc[m] \in {"ok", "failed"})
      IN  /\ (out[m].fate[order[m][i]] = "none") <=> ~tried
          /\ pc[m] = "failed" => tried

\* A message whose order is not set yet.
Untouched(m) == order[m] = <<>> /\ took[m] = {} /\ out[m] = NewOutcome

\* One being tried: its order repeats no carrier, and the carriers up to the
\* current position have a fate, the later ones none; besides the winner
\* only carriers whose answer was lost have the message.
Walks(m) ==
  /\ \A i, j \in DOMAIN order[m] : order[m][i] = order[m][j] => i = j
  /\ \A i \in DOMAIN order[m] :
       i > at[m] \/ (i = at[m] /\ pc[m] \in {"next", "sent"})
         => out[m].fate[order[m][i]] = "none" /\ order[m][i] \notin took[m]
  /\ \A i \in DOMAIN order[m] :
       i < at[m] \/ (i = at[m] /\ pc[m] \in {"ok", "failed"})
         => out[m].fate[order[m][i]] # "none"
  /\ pc[m] = "failed" => at[m] = Len(order[m])
  /\ \A s \in took[m] :
       out[m].fate[s] = IF pc[m] = "ok" /\ s = Slot(m) THEN "accepted" ELSE "lost"
  /\ pc[m] \in {"sent", "ok"} => out[m].sent_as = Slot(m)
  /\ pc[m] = "ok" => Slot(m) \in took[m] /\ OwnedBy(out[m], Slot(m))

\* The inductive invariant behind WinnerOwnsOutcome and TriedInOrder.
DispatchInv == \A m \in Msgs : IF pc[m] = "new" THEN Untouched(m) ELSE Walks(m)

\* The messages that try this slot first.
Firsts(s) == {m \in Msgs : order[m] # <<>> /\ Head(order[m]) = s}

\* Load balancing: over each full cycle of the counter every carrier is
\* first choice exactly as often as its weight says, however the messages'
\* dispatches overlap.
ShareExact ==
  Balanced /\ turns % TotalWeight = 0 =>
    \A s \in Slots :
      Cardinality(Firsts(s)) = (turns \div TotalWeight) * Weight[s]

\* Positions before n that lie in a slot's stretch of the cycle.
Below(s, n) ==
  IF n <= SumBelow(s) THEN 0
  ELSE IF n >= SumBelow(s + 1) THEN Weight[s] ELSE n - SumBelow(s)

\* The inductive invariant behind ShareExact: within a cycle, too, a slot
\* has been first choice once for every position of its stretch that the
\* counter has passed (it starts behind position 0).
ShareInv ==
  Balanced =>
    \A s \in Slots :
      /\ IsFiniteSet(Firsts(s))
      /\ Cardinality(Firsts(s)) + Below(s, 1)
           = (turns \div TotalWeight) * Weight[s]
               + Below(s, (turns % TotalWeight) + 1)

\* The carriers of a dispatch are the balanced or configured ones, in order.
OrderKept == TriedInOrder /\ ShareExact
=============================================================================

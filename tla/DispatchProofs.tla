--------------------------- MODULE DispatchProofs ---------------------------
(* For any route and any number of messages: one carrier at most takes a   *)
(* message knowingly, and the outcome stored is that carrier's.  And for   *)
(* any number of admins, edits and faults: what the cache holds that the   *)
(* routes are looked up in.                                                *)
EXTENDS Dispatch, RouteCache, FiniteSetTheorems, TLAPS

\* A route has a primary carrier.
LEMMA PrimaryKnown == SlotCount \in Nat \ {0} /\ 0 \in Slots
<1>1. SlotCount \in Nat \ {0}
  BY DispatchAssumption
<1> QED
  BY <1>1 DEF Slots

\* An order has a first carrier, repeats none and stays within the route's.
LEMMA OrderDomain ==
  ASSUME NEW o \in Orders \cup {Primary}
  PROVE  /\ o \in Seq(Slots)
         /\ Len(o) \in 1 .. SlotCount
         /\ \A i, j \in DOMAIN o : o[i] = o[j] => i = j
<1>1. CASE o \in Orders
  <2>1. o \in [1 .. SlotCount -> Slots] /\ IsInjective(o)
    BY <1>1 DEF Orders
  <2>2. o \in Seq(Slots) /\ Len(o) = SlotCount
    BY <2>1, PrimaryKnown
  <2> QED
    BY <2>1, <2>2, PrimaryKnown DEF IsInjective
<1>2. CASE o = Primary
  BY <1>2, PrimaryKnown DEF Primary
<1> QED
  BY <1>1, <1>2

\* What setting an order does to the types.
LEMMA SetOrderTypes ==
  ASSUME TypeOK, NEW m \in Msgs, NEW o \in Orders \cup {Primary}, SetOrder(m, o)
  PROVE  /\ order' \in [Msgs -> Orders \cup {<<>>, Primary}]
         /\ at' \in [Msgs -> 1 .. SlotCount]
         /\ pc' \in [Msgs -> {"new", "next", "sent", "ok", "failed"}]
         /\ \A n \in Msgs : pc'[n] # "new" => at'[n] \in DOMAIN order'[n]
<1>1. 1 \in DOMAIN o /\ 1 \in 1 .. SlotCount
  BY OrderDomain, PrimaryKnown
<1> QED
  BY <1>1 DEF SetOrder, TypeOK

\* Going on to the next carrier, or ending, keeps them.
LEMMA AdvanceTypes ==
  ASSUME TypeOK, NEW m \in Msgs, pc[m] # "new", Advance(m), UNCHANGED order
  PROVE  /\ at' \in [Msgs -> 1 .. SlotCount]
         /\ pc' \in [Msgs -> {"new", "next", "sent", "ok", "failed"}]
         /\ \A n \in Msgs : pc'[n] # "new" => at'[n] \in DOMAIN order'[n]
<1>1. at[m] \in DOMAIN order[m]
  BY DEF TypeOK
<1>2. order[m] \in Orders \cup {Primary}
  BY <1>1 DEF TypeOK
<1>3. order[m] \in Seq(Slots) /\ Len(order[m]) \in 1 .. SlotCount
  BY <1>2, OrderDomain
<1>4. CASE at[m] < Len(order[m])
  <2>1. at[m] + 1 \in DOMAIN order[m] /\ at[m] + 1 \in 1 .. SlotCount
    BY <1>1, <1>3, <1>4, PrimaryKnown
  <2>2. at' = [at EXCEPT ![m] = at[m] + 1] /\ pc' = [pc EXCEPT ![m] = "next"]
    BY <1>4 DEF Advance
  <2> QED
    BY <2>1, <2>2 DEF TypeOK
<1>5. CASE ~(at[m] < Len(order[m]))
  BY <1>1, <1>5 DEF Advance, TypeOK
<1> QED
  BY <1>4, <1>5

\* The slot a message is at is one of the route's.
LEMMA SlotKnown ==
  ASSUME TypeOK, NEW m \in Msgs, pc[m] # "new"
  PROVE  Slot(m) \in Slots /\ at[m] \in DOMAIN order[m]
<1>1. at[m] \in DOMAIN order[m] /\ order[m] \in Orders \cup {Primary}
  BY DEF TypeOK
<1> QED
  BY <1>1, OrderDomain DEF Slot

\* Every state a dispatch reaches has the declared types, and a message's
\* position is one of its order (the loop of dispatchWithFailover stays
\* within the carriers it was given).
THEOREM DispatchTypeOK == Spec => []TypeOK
<1>1. Init => TypeOK
  <2> SUFFICES ASSUME Init PROVE TypeOK
    OBVIOUS
  <2>1. NewOutcome \in Outcome
    BY DEF NewOutcome, Outcome, Fates
  <2> QED
    BY <2>1, PrimaryKnown DEF Init, TypeOK
<1>2. TypeOK /\ [Next]_vars => TypeOK'
  <2> SUFFICES ASSUME TypeOK, [Next]_vars PROVE TypeOK'
    OBVIOUS
  <2>1. ASSUME NEW m \in Msgs, OrderBalanced(m) PROVE TypeOK'
    <3>1. PICK o \in Orders : SetOrder(m, o)
      BY <2>1 DEF OrderBalanced
    <3> QED
      BY <2>1, <3>1, SetOrderTypes DEF OrderBalanced, TypeOK
  <2>2. ASSUME NEW m \in Msgs, OrderOverflow(m) PROVE TypeOK'
    <3>1. ready' \in [Msgs -> SUBSET Slots]
      BY <2>2 DEF OrderOverflow, TypeOK
    <3>2. CASE at[m] < SlotCount
      <4>1. at[m] + 1 \in 1 .. SlotCount
        BY <3>2, PrimaryKnown DEF TypeOK
      <4>2. at' = [at EXCEPT ![m] = at[m] + 1] /\ UNCHANGED <<order, pc>>
        BY <2>2, <3>2 DEF OrderOverflow
      <4>3. pc[m] = "new" /\ UNCHANGED <<mode, turns, bound, out, took>>
        BY <2>2 DEF OrderOverflow
      <4> QED
        BY <3>1, <4>1, <4>2, <4>3 DEF TypeOK
    <3>3. CASE ~(at[m] < SlotCount)
      <4>1. PICK o \in Orders : SetOrder(m, o)
        BY <2>2, <3>3 DEF OrderOverflow
      <4> QED
        BY <2>2, <3>1, <4>1, SetOrderTypes DEF OrderOverflow, TypeOK
    <3> QED
      BY <3>2, <3>3
  <2>3. ASSUME NEW m \in Msgs, OrderBySlot(m) PROVE TypeOK'
    <3>1. PICK o \in Orders \cup {Primary} : SetOrder(m, o)
      BY <2>3 DEF OrderBySlot
    <3> QED
      BY <2>3, <3>1, SetOrderTypes DEF OrderBySlot, TypeOK
  <2>4. ASSUME NEW m \in Msgs, pc[m] \in {"next", "sent"},
               UNCHANGED <<mode, turns, bound, ready, order>>,
               out' \in [Msgs -> Outcome], took' \in [Msgs -> SUBSET Slots],
               Advance(m)
        PROVE  TypeOK'
    BY <2>4, AdvanceTypes DEF TypeOK
  <2>5. ASSUME NEW m \in Msgs, NEW o \in Outcome, out' = [out EXCEPT ![m] = o]
        PROVE  out' \in [Msgs -> Outcome]
    BY <2>5 DEF TypeOK
  <2>6. ASSUME NEW m \in Msgs, DispatchStep(m) PROVE TypeOK'
    <3>1. CASE PassOver(m)
      <4>1. Slot(m) \in Slots /\ out[m] \in Outcome
        BY <3>1, SlotKnown DEF PassOver, TypeOK
      <4>2. PICK why \in {"missing", "error"} :
              out' = [out EXCEPT ![m].code = Local, ![m].fate[Slot(m)] = why]
        BY <3>1 DEF PassOver
      <4>3. out' \in [Msgs -> Outcome]
        BY <4>1, <4>2 DEF TypeOK, Outcome, Fates
      <4> QED
        BY <2>4, <3>1, <4>3 DEF PassOver, TypeOK
    <3>2. CASE Skip(m)
      <4>1. Slot(m) \in Slots /\ out[m] \in Outcome
        BY <3>2, SlotKnown DEF Skip, TypeOK
      <4>2. out' \in [Msgs -> Outcome]
        BY <3>2, <4>1 DEF Skip, TypeOK, Outcome, Fates
      <4> QED
        BY <2>4, <3>2, <4>2 DEF Skip, TypeOK
    <3>3. CASE NotSent(m)
      <4>1. Slot(m) \in Slots /\ out[m] \in Outcome
        BY <3>3, SlotKnown DEF NotSent, TypeOK
      <4>2. out' \in [Msgs -> Outcome]
        BY <3>3, <4>1 DEF NotSent, TypeOK, Outcome, Fates
      <4> QED
        BY <2>4, <3>3, <4>2 DEF NotSent, TypeOK
    <3>4. CASE Contact(m)
      <4>1. Slot(m) \in Slots /\ out[m] \in Outcome
        BY <3>4, SlotKnown DEF Contact, TypeOK
      <4>2. out' \in [Msgs -> Outcome]
        BY <3>4, <4>1 DEF Contact, TypeOK, Outcome
      <4> QED
        BY <3>4, <4>2 DEF Contact, TypeOK
    <3>5. CASE Accepted(m)
      <4>1. Slot(m) \in Slots /\ out[m] \in Outcome
        BY <3>5, SlotKnown DEF Accepted, TypeOK
      <4>2. Credited(out[m], Slot(m)) \in Outcome
        BY <4>1 DEF Credited, Outcome, Fates
      <4>3. out' \in [Msgs -> Outcome]
        BY <2>5, <3>5, <4>2 DEF Accepted
      <4> QED
        BY <3>5, <4>1, <4>3 DEF Accepted, Stop, TypeOK
    <3>6. CASE Refused(m)
      <4>1. Slot(m) \in Slots /\ out[m] \in Outcome
        BY <3>6, SlotKnown DEF Refused, TypeOK
      <4>2. Refuted(out[m], Slot(m)) \in Outcome
        BY <4>1 DEF Refuted, Outcome, Fates
      <4>3. out' \in [Msgs -> Outcome]
        BY <2>5, <3>6, <4>2 DEF Refused
      <4> QED
        BY <2>4, <3>6, <4>3 DEF Refused, TypeOK
    <3>7. CASE Fails(m)
      <4>1. Slot(m) \in Slots /\ out[m] \in Outcome
        BY <3>7, SlotKnown DEF Fails, TypeOK
      <4>2. out' \in [Msgs -> Outcome]
        BY <3>7, <4>1 DEF Fails, TypeOK, Outcome, Fates
      <4>3. took' \in [Msgs -> SUBSET Slots]
        <5>1. took' = took
              \/ took' = [took EXCEPT ![m] = took[m] \cup {Slot(m)}]
          BY <3>7 DEF Fails
        <5> QED
          BY <4>1, <5>1 DEF TypeOK
      <4> QED
        BY <2>4, <3>7, <4>2, <4>3 DEF Fails
    <3> QED
      BY <2>1, <2>2, <2>3, <2>6, <3>1, <3>2, <3>3, <3>4, <3>5, <3>6, <3>7
         DEF DispatchStep
  <2>7. ASSUME NEW s \in Slots, Rebind(s) PROVE TypeOK'
    BY <2>7 DEF Rebind, TypeOK
  <2>8. CASE UNCHANGED vars
    BY <2>8 DEF vars, TypeOK
  <2> QED
    BY <2>6, <2>7, <2>8 DEF Next
<1> QED
  BY <1>1, <1>2, PTL DEF Spec

-----------------------------------------------------------------------------
(* The outcome is the accepting carrier's. *)

\* A step of one message leaves the others as they are.
LEMMA OthersUntouched ==
  ASSUME TypeOK, NEW m \in Msgs, NEW n \in Msgs, n # m, DispatchStep(m)
  PROVE  /\ order'[n] = order[n] /\ at'[n] = at[n] /\ pc'[n] = pc[n]
         /\ out'[n] = out[n] /\ took'[n] = took[n]
<1>1. CASE OrderBalanced(m)
  BY <1>1 DEF OrderBalanced, SetOrder, TypeOK
<1>2. CASE OrderOverflow(m)
  BY <1>2 DEF OrderOverflow, SetOrder, TypeOK
<1>3. CASE OrderBySlot(m)
  BY <1>3 DEF OrderBySlot, SetOrder, TypeOK
<1>4. CASE PassOver(m) \/ Skip(m)
  BY <1>4 DEF PassOver, Skip, Advance, TypeOK
<1>5. CASE NotSent(m) \/ Contact(m)
  BY <1>5 DEF NotSent, Contact, Advance, TypeOK
<1>6. CASE Accepted(m)
  BY <1>6 DEF Accepted, Stop, TypeOK
<1>7. CASE Refused(m) \/ Fails(m)
  BY <1>7 DEF Refused, Fails, Advance, TypeOK
<1> QED
  BY <1>1, <1>2, <1>3, <1>4, <1>5, <1>6, <1>7 DEF DispatchStep

\* A message whose order has just been set walks it.
LEMMA WalkStarts ==
  ASSUME TypeOK, NEW m \in Msgs, Untouched(m), UNCHANGED <<out, took>>,
         NEW o \in Orders \cup {Primary}, SetOrder(m, o)
  PROVE  pc'[m] # "new" /\ Walks(m)'
<1>1. order'[m] = o /\ at'[m] = 1 /\ pc'[m] = "next"
  BY DEF SetOrder, TypeOK
<1>2. /\ o \in Seq(Slots)
      /\ \A i, j \in DOMAIN o : o[i] = o[j] => i = j
      /\ \A i \in DOMAIN o : o[i] \in Slots
  BY OrderDomain
<1>3. took'[m] = {} /\ \A s \in Slots : out'[m].fate[s] = "none"
  BY DEF Untouched, NewOutcome
<1> QED
  BY <1>1, <1>2, <1>3 DEF Walks

\* Passing to the next carrier after a fate other than acceptance.
LEMMA WalkGoesOn ==
  ASSUME TypeOK, NEW m \in Msgs, Walks(m), pc[m] \in {"next", "sent"},
         Advance(m), UNCHANGED order, NEW why \in Fates \ {"none"},
         out'[m].fate = [out[m].fate EXCEPT ![Slot(m)] = why],
         \/ took'[m] = took[m]
         \/ why = "lost" /\ took'[m] = took[m] \cup {Slot(m)}
  PROVE  pc'[m] \in {"next", "failed"} /\ Walks(m)'
<1>1. /\ at[m] \in DOMAIN order[m] /\ Slot(m) \in Slots
      /\ order[m] \in Seq(Slots)
  BY SlotKnown, OrderDomain DEF TypeOK
<1>2. /\ pc'[m] \in {"next", "failed"}
      /\ at'[m] = IF pc'[m] = "next" THEN at[m] + 1 ELSE at[m]
      /\ pc'[m] = "failed" => at'[m] = Len(order[m])
  <2>1. CASE at[m] < Len(order[m])
    BY <2>1 DEF Advance, TypeOK
  <2>2. CASE ~(at[m] < Len(order[m]))
    BY <1>1, <2>2 DEF Advance, TypeOK
  <2> QED
    BY <2>1, <2>2
<1>3. out[m].fate \in [Slots -> Fates]
  BY DEF TypeOK, Outcome
<1>4. Slot(m) = order[m][at[m]] /\ Slot(m) \notin took[m]
  BY <1>1 DEF Slot, Walks
<1>5. \A i \in DOMAIN order[m] : i > at[m] =>
        /\ order[m][i] # Slot(m) /\ order[m][i] \in Slots
        /\ out[m].fate[order[m][i]] = "none" /\ order[m][i] \notin took[m]
  BY <1>1, <1>4 DEF Walks
<1>6. \A i \in DOMAIN order'[m] :
        i > at'[m] \/ (i = at'[m] /\ pc'[m] \in {"next", "sent"})
          => out'[m].fate[order'[m][i]] = "none" /\ order'[m][i] \notin took'[m]
  <2> SUFFICES ASSUME NEW i \in DOMAIN order[m],
                      i > at'[m] \/ (i = at'[m] /\ pc'[m] \in {"next", "sent"})
               PROVE  out'[m].fate[order[m][i]] = "none" /\ order[m][i] \notin took'[m]
    OBVIOUS
  <2>1. i \in Nat /\ at[m] \in Nat
    BY <1>1
  <2>2. i > at[m]
    BY <1>2, <2>1
  <2> QED
    BY <1>3, <1>5, <2>2
<1>7. \A s \in took'[m] : out'[m].fate[s] = "lost"
  <2> SUFFICES ASSUME NEW s \in took'[m] PROVE out'[m].fate[s] = "lost"
    OBVIOUS
  <2>1. CASE s \in took[m]
    BY <1>1, <1>3, <1>4, <2>1 DEF Walks, TypeOK
  <2>2. CASE s \notin took[m]
    BY <1>1, <1>3, <2>2
  <2> QED
    BY <2>1, <2>2
<1>8. \A i \in DOMAIN order'[m] :
        i < at'[m] \/ (i = at'[m] /\ pc'[m] \in {"ok", "failed"})
          => out'[m].fate[order'[m][i]] # "none"
  <2> SUFFICES ASSUME NEW i \in DOMAIN order[m],
                      i < at'[m] \/ (i = at'[m] /\ pc'[m] = "failed")
               PROVE  out'[m].fate[order[m][i]] # "none"
    BY <1>2
  <2>1. i \in Nat /\ at[m] \in Nat /\ order[m][i] \in Slots
    BY <1>1
  <2>2. i = at[m] \/ i < at[m]
    BY <1>2, <2>1
  <2>3. CASE order[m][i] = Slot(m)
    BY <1>1, <1>3, <2>3
  <2>4. CASE order[m][i] # Slot(m)
    <3>1. i < at[m]
      BY <1>4, <2>2, <2>4
    <3>2. out[m].fate[order[m][i]] # "none"
      BY <3>1 DEF Walks
    <3> QED
      BY <1>3, <2>1, <2>4, <3>2
  <2> QED
    BY <2>3, <2>4
<1> QED
  BY <1>2, <1>6, <1>7, <1>8 DEF Walks

\* One step of a message keeps its part of the invariant.
LEMMA StepWalks ==
  ASSUME TypeOK, DispatchInv, NEW m \in Msgs, DispatchStep(m)
  PROVE  IF pc'[m] = "new" THEN Untouched(m)' ELSE Walks(m)'
<1>1. CASE OrderBalanced(m)
  <2>1. PICK o \in Orders : SetOrder(m, o)
    BY <1>1 DEF OrderBalanced
  <2> QED
    BY <1>1, <2>1, WalkStarts DEF OrderBalanced, DispatchInv
<1>2. CASE OrderOverflow(m)
  <2>1. CASE at[m] < SlotCount
    BY <1>2, <2>1 DEF OrderOverflow, DispatchInv, Untouched
  <2>2. CASE ~(at[m] < SlotCount)
    <3>1. PICK o \in Orders : SetOrder(m, o)
      BY <1>2, <2>2 DEF OrderOverflow
    <3> QED
      BY <1>2, <3>1, WalkStarts DEF OrderOverflow, DispatchInv
  <2> QED
    BY <2>1, <2>2
<1>3. CASE OrderBySlot(m)
  <2>1. PICK o \in Orders \cup {Primary} : SetOrder(m, o)
    BY <1>3 DEF OrderBySlot
  <2> QED
    BY <1>3, <2>1, WalkStarts DEF OrderBySlot, DispatchInv
<1>4. ASSUME pc[m] \in {"next", "sent"}
      PROVE  Walks(m) /\ Slot(m) \in Slots /\ out[m] \in Outcome
  BY <1>4, SlotKnown DEF DispatchInv, TypeOK
<1>5. CASE PassOver(m)
  <2>1. PICK why \in {"missing", "error"} :
          out' = [out EXCEPT ![m].code = Local, ![m].fate[Slot(m)] = why]
    BY <1>5 DEF PassOver
  <2>2. out'[m].fate = [out[m].fate EXCEPT ![Slot(m)] = why]
    BY <1>4, <1>5, <2>1 DEF PassOver, TypeOK, Outcome
  <2> QED
    BY <1>4, <1>5, <2>2, WalkGoesOn DEF PassOver, Fates
<1>6. CASE Skip(m)
  <2>1. out'[m].fate = [out[m].fate EXCEPT ![Slot(m)] = "skipped"]
    BY <1>4, <1>6 DEF Skip, TypeOK, Outcome
  <2> QED
    BY <1>4, <1>6, <2>1, WalkGoesOn DEF Skip, Fates
<1>7. CASE NotSent(m)
  <2>1. out'[m].fate = [out[m].fate EXCEPT ![Slot(m)] = "unsent"]
    BY <1>4, <1>7 DEF NotSent, TypeOK, Outcome
  <2> QED
    BY <1>4, <1>7, <2>1, WalkGoesOn DEF NotSent, Fates
<1>8. CASE Contact(m)
  <2>1. /\ pc[m] = "next" /\ pc'[m] = "sent"
        /\ UNCHANGED <<order, at, took>>
        /\ out'[m].sent_as = Slot(m)
        /\ out'[m].fate = out[m].fate
    BY <1>4, <1>8 DEF Contact, TypeOK, Outcome
  <2> QED
    BY <1>4, <2>1 DEF Walks, Slot
<1>9. CASE Accepted(m)
  <2>1. /\ pc[m] = "sent" /\ pc'[m] = "ok"
        /\ UNCHANGED <<order, at>>
        /\ took'[m] = took[m] \cup {Slot(m)}
        /\ out'[m] = Credited(out[m], Slot(m))
    BY <1>4, <1>9 DEF Accepted, Stop, TypeOK
  <2>2. /\ Walks(m) /\ Slot(m) \in Slots /\ out[m] \in Outcome
        /\ at[m] \in DOMAIN order[m] /\ Slot(m) = order[m][at[m]]
        /\ order[m] \in Seq(Slots)
    <3>1. Walks(m) /\ Slot(m) \in Slots /\ out[m] \in Outcome
      BY <1>4, <2>1
    <3>2. at[m] \in DOMAIN order[m]
      BY <2>1, SlotKnown
    <3>3. order[m] \in Seq(Slots)
      BY <3>2, OrderDomain DEF TypeOK
    <3> QED
      BY <3>1, <3>2, <3>3 DEF Slot
  <2>3. /\ out'[m].sent_as = out[m].sent_as
        /\ out'[m].code = Slot(m) /\ out'[m].reply = Slot(m)
        /\ out'[m].text = Slot(m) /\ out'[m].egress = Slot(m)
        /\ out'[m].winner = Slot(m)
        /\ out'[m].fate = [out[m].fate EXCEPT ![Slot(m)] = "accepted"]
    BY <2>1, <2>2 DEF Credited, Outcome
  <2>4. out[m].fate \in [Slots -> Fates] /\ Slot(m) \notin took[m]
    BY <2>1, <2>2 DEF Walks, Outcome
  <2>5. \A i \in DOMAIN order[m] : i > at[m] =>
          /\ order[m][i] # Slot(m) /\ order[m][i] \in Slots
          /\ out[m].fate[order[m][i]] = "none" /\ order[m][i] \notin took[m]
    BY <2>2 DEF Walks
  <2>6. \A s \in took'[m] :
          out'[m].fate[s] = IF s = Slot(m) THEN "accepted" ELSE "lost"
    BY <2>1, <2>2, <2>3, <2>4 DEF Walks, TypeOK
  <2>7. \A i \in DOMAIN order[m] : i > at[m] =>
          out'[m].fate[order[m][i]] = "none" /\ order[m][i] \notin took'[m]
    BY <2>1, <2>3, <2>4, <2>5
  <2>8. out[m].sent_as = Slot(m)
    BY <2>1, <2>2 DEF Walks
  <2>9. Slot(m)' = Slot(m)
    BY <2>1 DEF Slot
  <2>10. \A i, j \in DOMAIN order[m] : order[m][i] = order[m][j] => i = j
    BY <2>2 DEF Walks
  <2>11. \A i \in DOMAIN order[m] : i < at[m] \/ i = at[m] =>
           out'[m].fate[order[m][i]] # "none"
    BY <2>1, <2>2, <2>3, <2>4 DEF Walks
  <2> QED
    BY <2>1, <2>3, <2>6, <2>7, <2>8, <2>9, <2>10, <2>11 DEF Walks, OwnedBy
<1>10. CASE Refused(m)
  <2>1. out'[m].fate = [out[m].fate EXCEPT ![Slot(m)] = "refused"]
    BY <1>4, <1>10 DEF Refused, Refuted, TypeOK, Outcome
  <2> QED
    BY <1>4, <1>10, <2>1, WalkGoesOn DEF Refused, Fates
<1>11. CASE Fails(m)
  <2>1. out'[m].fate = [out[m].fate EXCEPT ![Slot(m)] = "lost"]
    BY <1>4, <1>11 DEF Fails, TypeOK, Outcome
  <2>2. took'[m] = took[m] \/ took'[m] = took[m] \cup {Slot(m)}
    BY <1>11 DEF Fails, TypeOK
  <2> QED
    BY <1>4, <1>11, <2>1, <2>2, WalkGoesOn DEF Fails, Fates
<1> QED
  BY <1>1, <1>2, <1>3, <1>5, <1>6, <1>7, <1>8, <1>9, <1>10, <1>11
     DEF DispatchStep

\* The invariant of every message's walk through its carriers.
LEMMA WalkInvariant == Spec => []DispatchInv
<1>1. Init => DispatchInv
  BY DEF Init, DispatchInv, Untouched
<1>2. TypeOK /\ DispatchInv /\ [Next]_vars => DispatchInv'
  <2> SUFFICES ASSUME TypeOK, DispatchInv, [Next]_vars PROVE DispatchInv'
    OBVIOUS
  <2>1. ASSUME UNCHANGED <<order, at, pc, out, took>> PROVE DispatchInv'
    BY <2>1 DEF DispatchInv, Untouched, Walks, Slot
  <2>2. ASSUME NEW m \in Msgs, DispatchStep(m) PROVE DispatchInv'
    <3>1. ASSUME NEW n \in Msgs, n # m
          PROVE  IF pc'[n] = "new" THEN Untouched(n)' ELSE Walks(n)'
      <4>1. /\ order'[n] = order[n] /\ at'[n] = at[n] /\ pc'[n] = pc[n]
            /\ out'[n] = out[n] /\ took'[n] = took[n]
        BY <2>2, <3>1, OthersUntouched
      <4>2. IF pc[n] = "new" THEN Untouched(n) ELSE Walks(n)
        BY DEF DispatchInv
      <4> QED
        BY <4>1, <4>2 DEF Untouched, Walks, Slot
    <3> QED
      BY <2>2, <3>1, StepWalks DEF DispatchInv
  <2>3. ASSUME NEW s \in Slots, Rebind(s) PROVE DispatchInv'
    BY <2>1, <2>3 DEF Rebind
  <2> QED
    BY <2>1, <2>2, <2>3 DEF Next, vars
<1> QED
  BY <1>1, <1>2, DispatchTypeOK, PTL DEF Spec

\* However dispatches interleave, and whatever the carriers answer: apart
\* from carriers whose answer was lost, a message is with its winner alone,
\* and every stored field of an accepted outcome is the winner's.
THEOREM OneCarrierOwnsOutcome == Spec => []WinnerOwnsOutcome
<1>1. TypeOK /\ DispatchInv => WinnerOwnsOutcome
  <2> SUFFICES ASSUME TypeOK, DispatchInv, NEW m \in Msgs
               PROVE  /\ {s \in took[m] : out[m].fate[s] # "lost"}
                           = IF pc[m] = "ok" THEN {out[m].winner} ELSE {}
                      /\ pc[m] = "ok" => \E s \in Slots : OwnedBy(out[m], s)
    BY DEF SentOnce, WinnerOwnsOutcome
  <2>1. CASE pc[m] = "new"
    BY <2>1 DEF DispatchInv, Untouched
  <2>2. CASE pc[m] = "ok"
    <3>1. /\ Walks(m) /\ Slot(m) \in Slots /\ out[m] \in Outcome
      BY <2>2, SlotKnown DEF DispatchInv, TypeOK
    <3>2. /\ out[m].winner = Slot(m) /\ Slot(m) \in took[m]
          /\ OwnedBy(out[m], Slot(m))
      BY <2>2, <3>1 DEF Walks, OwnedBy
    <3>3. \A s \in took[m] :
            out[m].fate[s] = IF s = Slot(m) THEN "accepted" ELSE "lost"
      BY <2>2, <3>1 DEF Walks
    <3> QED
      BY <2>2, <3>1, <3>2, <3>3
  <2>3. CASE pc[m] \notin {"new", "ok"}
    BY <2>3 DEF DispatchInv, Walks
  <2> QED
    BY <2>1, <2>2, <2>3
<1> QED
  BY <1>1, DispatchTypeOK, WalkInvariant, PTL

\* However dispatches interleave: no carrier of a message's order is left
\* out, tried twice or tried before its turn, and a dispatch fails only when
\* all of them are used up.
LEMMA WalksInOrder == Spec => []TriedInOrder
<1>1. TypeOK /\ DispatchInv => TriedInOrder
  <2> SUFFICES ASSUME TypeOK, DispatchInv, NEW m \in Msgs, NEW i \in DOMAIN order[m]
               PROVE  LET tried == i < at[m] \/ (i = at[m] /\ pc[m] \in {"ok", "failed"})
                      IN  /\ (out[m].fate[order[m][i]] = "none") <=> ~tried
                          /\ pc[m] = "failed" => tried
    BY DEF TriedInOrder
  <2>1. pc[m] # "new" /\ Walks(m)
    BY DEF DispatchInv, Untouched
  <2>2. order[m] \in Seq(Slots) /\ at[m] \in DOMAIN order[m]
    <3>1. at[m] \in DOMAIN order[m] /\ order[m] \in Orders \cup {Primary}
      BY <2>1 DEF TypeOK
    <3> QED
      BY <3>1, OrderDomain
  <2>3. i \in 1 .. Len(order[m]) /\ at[m] \in Nat /\ i \in Nat
    BY <2>2
  <2>4. pc[m] \in {"next", "sent", "ok", "failed"}
    BY <2>1 DEF TypeOK
  <2>5. (i = at[m] /\ pc[m] \in {"ok", "failed"}) \/ i < at[m] =>
          out[m].fate[order[m][i]] # "none"
    BY <2>1 DEF Walks
  <2>6. i > at[m] \/ (i = at[m] /\ pc[m] \in {"next", "sent"}) =>
          out[m].fate[order[m][i]] = "none"
    BY <2>1 DEF Walks
  <2>7. pc[m] = "failed" => i <= at[m]
    BY <2>1, <2>3 DEF Walks
  <2> QED
    BY <2>3, <2>4, <2>5, <2>6, <2>7
<1> QED
  BY <1>1, DispatchTypeOK, WalkInvariant, PTL

-----------------------------------------------------------------------------
(* Load balancing: each carrier's share. *)

\* Division by the length of a cycle.
LEMMA Quotient ==
  ASSUME NEW t \in Nat, NEW T \in Nat \ {0}
  PROVE  /\ t = T * (t \div T) + (t % T)
         /\ t % T \in 0 .. (T - 1) /\ t \div T \in Nat
<1>1. t \in Int /\ T \in Int /\ 0 < T
  OBVIOUS
<1>2. t % T \in 0 .. (T - 1)
  BY <1>1
<1>3. t \div T \in Nat
  BY <1>1
<1>4. t = T * (t \div T) + (t % T)
  BY <1>1
<1> QED
  BY <1>2, <1>3, <1>4

LEMMA CyclesApart ==
  ASSUME NEW T \in Nat \ {0}, NEW p \in Nat, NEW q \in Nat, p < q
  PROVE  T * p + T <= T * q
<1>1. PICK d \in Nat : q = p + 1 + d
  <2>1. q - p - 1 \in Nat /\ q = p + 1 + (q - p - 1)
    OBVIOUS
  <2> QED
    BY <2>1
<1>2. T * q = T * p + T + T * d
  BY <1>1
<1>3. T * d \in Nat /\ T * p \in Nat
  OBVIOUS
<1> QED
  BY <1>2, <1>3

\* Quotient and remainder are unique.
LEMMA QuotientUnique ==
  ASSUME NEW T \in Nat \ {0}, NEW p \in Nat, NEW q \in Nat,
         NEW i \in 0 .. (T - 1), NEW j \in 0 .. (T - 1), T * p + i = T * q + j
  PROVE  p = q /\ i = j
<1>1. T * p \in Nat /\ T * q \in Nat
  OBVIOUS
<1>2. ~(p < q) /\ ~(q < p)
  BY <1>1, CyclesApart
<1>3. p = q
  BY <1>2
<1> QED
  BY <1>1, <1>3

\* The counter's next turn: the next position of the cycle, or the first
\* one of the next cycle.
LEMMA NextTurn ==
  ASSUME NEW t \in Nat, NEW T \in Nat \ {0}
  PROVE  /\ (t + 1) % T = IF t % T = T - 1 THEN 0 ELSE (t % T) + 1
         /\ (t + 1) \div T = IF t % T = T - 1 THEN (t \div T) + 1 ELSE t \div T
<1> DEFINE q == t \div T
           i == t % T
<1>1. t = T * q + i /\ i \in 0 .. (T - 1) /\ q \in Nat
  BY Quotient
<1>2. /\ t + 1 = T * ((t + 1) \div T) + ((t + 1) % T)
      /\ (t + 1) % T \in 0 .. (T - 1) /\ (t + 1) \div T \in Nat
  <2>1. t + 1 \in Nat
    OBVIOUS
  <2> QED
    BY <2>1, Quotient
<1> HIDE DEF q, i
<1>3. CASE i = T - 1
  <2>1. T * (q + 1) = T * q + T
    BY <1>1
  <2>2. t + 1 = T * (q + 1) + 0
    BY <1>1, <1>3, <2>1
  <2>3. q + 1 = (t + 1) \div T /\ 0 = (t + 1) % T
    BY <1>1, <1>2, <1>3, <2>2, QuotientUnique
  <2> QED
    BY <1>3, <2>3 DEF q, i
<1>4. CASE i # T - 1
  <2>1. i + 1 \in 0 .. (T - 1)
    BY <1>1, <1>4
  <2>2. T * q \in Nat
    BY <1>1
  <2>3. t + 1 = T * q + (i + 1)
    BY <1>1, <2>2
  <2>4. q = (t + 1) \div T /\ i + 1 = (t + 1) % T
    BY <1>1, <1>2, <2>1, <2>3, QuotientUnique
  <2> QED
    BY <1>4, <2>4 DEF q, i
<1> QED
  BY <1>3, <1>4

\* The sums of the weights before each slot, and before the end.
LEMMA SumsOfWeights ==
  /\ \A i \in 0 .. SlotCount : SumBelow(i) \in Nat
  /\ SumBelow(0) = 0
  /\ \A s \in Slots : Weight[s] \in Nat /\ SumBelow(s + 1) = SumBelow(s) + Weight[s]
<1> DEFINE Sums(f) == f = [i \in 0 .. SlotCount |-> IF i = 0 THEN 0 ELSE f[i - 1] + Weight[i - 1]]
           w == CHOOSE f : Sums(f)
           g == [i \in 0 .. SlotCount |->
                   IF i = 0 THEN 0 ELSE IF i = 1 THEN Weight[0]
                   ELSE IF i = 2 THEN Weight[0] + Weight[1]
                   ELSE Weight[0] + Weight[1] + Weight[2]]
<1>1. /\ SlotCount \in 1 .. 3 /\ \A s \in Slots : Weight[s] \in Nat
      /\ Slots = 0 .. SlotCount - 1
  <2>1. SlotCount \in 1 .. 3 /\ Slots = 0 .. SlotCount - 1
    BY DispatchAssumption DEF Slots
  <2>2. \A s \in Slots : Weight[s] \in 0 .. 1000
    BY DispatchAssumption
  <2>3. \A s \in Slots : Weight[s] \in Nat
    BY <2>2
  <2> QED
    BY <2>1, <2>3
<1>2. Sums(g)
  <2>1. ASSUME NEW i \in 0 .. SlotCount
        PROVE  g[i] = IF i = 0 THEN 0 ELSE g[i - 1] + Weight[i - 1]
    <3>1. CASE i = 0
      BY <3>1
    <3>2. CASE i = 1
      BY <1>1, <3>2
    <3>3. CASE i = 2
      BY <1>1, <3>3
    <3>4. CASE i = 3
      BY <1>1, <3>4
    <3> QED
      BY <1>1, <3>1, <3>2, <3>3, <3>4
  <2> QED
    BY <2>1
<1>3. Sums(w)
  BY <1>2
<1>4. \A i \in 0 .. SlotCount : SumBelow(i) = w[i]
  BY DEF SumBelow
<1> HIDE DEF w
<1>5. \A i \in 0 .. SlotCount : w[i] = IF i = 0 THEN 0 ELSE w[i - 1] + Weight[i - 1]
  BY <1>3
<1>6. \A s \in Slots : w[s + 1] = w[s] + Weight[s]
  <2> SUFFICES ASSUME NEW s \in Slots PROVE w[s + 1] = w[s] + Weight[s]
    OBVIOUS
  <2>1. s + 1 \in 0 .. SlotCount /\ s + 1 # 0 /\ (s + 1) - 1 = s
    BY <1>1
  <2> QED
    BY <1>5, <2>1
<1>7. w[0] = 0 /\ \A i \in 0 .. SlotCount : w[i] \in Nat
  <2>1. w[0] = 0
    BY <1>1, <1>5
  <2>2. w[1] = w[0] + Weight[0] /\ Weight[0] \in Nat
    BY <1>1, <1>6
  <2>3. SlotCount > 1 => w[2] = w[1] + Weight[1] /\ Weight[1] \in Nat
    BY <1>1, <1>6
  <2>4. SlotCount > 2 => w[3] = w[2] + Weight[2] /\ Weight[2] \in Nat
    BY <1>1, <1>6
  <2>5. w[1] \in Nat
    BY <2>1, <2>2
  <2>6. SlotCount > 1 => w[2] \in Nat
    BY <2>3, <2>5
  <2>7. SlotCount > 2 => w[3] \in Nat
    BY <1>1, <2>4, <2>6
  <2>8. ASSUME NEW i \in 0 .. SlotCount PROVE w[i] \in Nat
    <3>1. i = 0 \/ i = 1 \/ (i = 2 /\ SlotCount > 1) \/ (i = 3 /\ SlotCount > 2)
      BY <1>1
    <3> QED
      BY <2>1, <2>5, <2>6, <2>7, <3>1
  <2> QED
    BY <2>1, <2>8
<1> QED
  <2>1. \A s \in Slots : s \in 0 .. SlotCount /\ s + 1 \in 0 .. SlotCount
    BY <1>1
  <2>2. 0 \in 0 .. SlotCount
    BY <1>1
  <2> QED
    BY <1>1, <1>4, <1>6, <1>7, <2>1, <2>2

\* One slot's stretch ends before a later slot's starts, and before the end.
LEMMA StretchesDisjoint ==
  /\ \A s, z \in Slots : s < z => SumBelow(s + 1) <= SumBelow(z)
  /\ \A s \in Slots : SumBelow(s + 1) <= TotalWeight
<1> DEFINE S(i) == SumBelow(i)
<1>0. SlotCount \in 1 .. 3 /\ Slots = 0 .. SlotCount - 1
  BY DispatchAssumption DEF Slots
<1>1. \A i \in 0 .. SlotCount : S(i) \in Nat
  BY SumsOfWeights
<1>2. \A s \in Slots : S(s) <= S(s + 1)
  <2> SUFFICES ASSUME NEW s \in Slots PROVE S(s) <= S(s + 1)
    OBVIOUS
  <2>1. S(s) \in Nat /\ Weight[s] \in Nat /\ S(s + 1) = S(s) + Weight[s]
    BY <1>0, SumsOfWeights
  <2> QED
    BY <2>1
<1> HIDE DEF S
<1>3. \A s, z \in Slots : s < z => S(s + 1) <= S(z)
  <2>1. S(1) <= S(1) /\ (SlotCount > 1 => S(1) <= S(2)) /\ (SlotCount > 2 => S(2) <= S(3))
    BY <1>0, <1>1, <1>2
  <2> SUFFICES ASSUME NEW s \in Slots, NEW z \in Slots, s < z PROVE S(s + 1) <= S(z)
    OBVIOUS
  <2>2. CASE z = s + 1
    BY <1>0, <1>1, <2>2
  <2>3. CASE s = 0 /\ z = 2
    BY <1>0, <2>1, <2>3
  <2> QED
    BY <1>0, <2>2, <2>3
<1>4. \A s \in Slots : S(s + 1) <= S(SlotCount)
  <2> SUFFICES ASSUME NEW s \in Slots PROVE S(s + 1) <= S(SlotCount)
    OBVIOUS
  <2>1. CASE s + 1 = SlotCount
    BY <1>0, <1>1, <2>1
  <2>2. CASE s + 1 < SlotCount
    <3>1. SlotCount - 1 \in Slots /\ s < SlotCount - 1 /\ (SlotCount - 1) + 1 = SlotCount
      BY <1>0, <2>2
    <3>2. S(s + 1) <= S(SlotCount - 1) /\ S(SlotCount - 1) <= S(SlotCount)
      BY <1>2, <1>3, <3>1
    <3>3. S(s + 1) \in Nat /\ S(SlotCount - 1) \in Nat /\ S(SlotCount) \in Nat
      BY <1>0, <1>1
    <3> QED
      BY <3>2, <3>3
  <2> QED
    BY <1>0, <2>1, <2>2
<1> QED
  BY <1>3, <1>4 DEF S, TotalWeight

\* A position belongs to one stretch, and each adds itself to what is below
\* the next.
LEMMA PositionsBelow ==
  ASSUME NEW s \in Slots
  PROVE  /\ Below(s, 0) = 0 /\ Below(s, TotalWeight) = Weight[s]
         /\ \A n \in Nat :
              /\ Below(s, n) \in Nat
              /\ Below(s, n + 1) = Below(s, n) + (IF Holds(s, n) THEN 1 ELSE 0)
         /\ \A z \in Slots, n \in Nat : Holds(s, n) /\ Holds(z, n) => s = z
<1>1. /\ SumBelow(s) \in Nat /\ SumBelow(s + 1) \in Nat /\ TotalWeight \in Nat
      /\ Weight[s] \in Nat /\ SumBelow(s + 1) = SumBelow(s) + Weight[s]
      /\ SumBelow(s + 1) <= TotalWeight
  <2>1. s \in 0 .. SlotCount /\ s + 1 \in 0 .. SlotCount /\ SlotCount \in 0 .. SlotCount
    BY DispatchAssumption DEF Slots
  <2> QED
    BY <2>1, SumsOfWeights, StretchesDisjoint DEF TotalWeight
<1>2. Below(s, 0) = 0 /\ Below(s, TotalWeight) = Weight[s]
  BY <1>1 DEF Below
<1>3. ASSUME NEW n \in Nat
      PROVE  /\ Below(s, n) \in Nat
             /\ Below(s, n + 1) = Below(s, n) + (IF Holds(s, n) THEN 1 ELSE 0)
  BY <1>1 DEF Below, Holds
<1>4. ASSUME NEW z \in Slots, NEW n \in Nat, Holds(s, n), Holds(z, n) PROVE s = z
  <2>1. /\ SumBelow(s) <= n /\ n < SumBelow(s + 1)
        /\ SumBelow(z) <= n /\ n < SumBelow(z + 1)
    BY <1>4 DEF Holds
  <2>2. SumBelow(z) \in Nat /\ SumBelow(z + 1) \in Nat
    <3>1. z \in 0 .. SlotCount /\ z + 1 \in 0 .. SlotCount
      BY DispatchAssumption DEF Slots
    <3> QED
      BY <3>1, SumsOfWeights
  <2>3. ~(s < z) /\ ~(z < s)
    BY <1>1, <2>1, <2>2, StretchesDisjoint
  <2>4. s \in Int /\ z \in Int
    BY DispatchAssumption DEF Slots
  <2> QED
    BY <2>3, <2>4
<1> QED
  BY <1>2, <1>3, <1>4

\* A balanced order leads with the slot that holds the counter's position.
LEMMA TurnTaken ==
  ASSUME TypeOK, DispatchInv, NEW m \in Msgs, OrderBalanced(m)
  PROVE  \E s \in Slots :
           /\ Holds(s, (turns + 1) % TotalWeight)
           /\ \A z \in Slots :
                Firsts(z)' = IF z = s THEN Firsts(z) \cup {m} ELSE Firsts(z)
           /\ \A z \in Slots : m \notin Firsts(z)
<1>1. PICK s \in Slots, o \in Orders :
        /\ Holds(s, turns' % TotalWeight) /\ LedBy(o, s) /\ SetOrder(m, o)
        /\ turns' = turns + 1
  BY DEF OrderBalanced
<1>2. order[m] = <<>>
  BY DEF OrderBalanced, DispatchInv, Untouched
<1>3. order' = [order EXCEPT ![m] = o] /\ order \in [Msgs -> Orders \cup {<<>>, Primary}]
  BY <1>1 DEF SetOrder, TypeOK
<1>4. o # <<>> /\ Head(o) = s
  <2>1. o \in Seq(Slots) /\ Len(o) \in 1 .. SlotCount
    BY OrderDomain
  <2>2. o[1] = s
    BY <1>1 DEF LedBy
  <2> QED
    BY <2>1, <2>2, PrimaryKnown
<1>5. order'[m] = o /\ \A n \in Msgs : n # m => order'[n] = order[n]
  BY <1>3
<1>6. \A z \in Slots : m \notin Firsts(z)
  BY <1>2 DEF Firsts
<1>7. ASSUME NEW z \in Slots
      PROVE  Firsts(z)' = IF z = s THEN Firsts(z) \cup {m} ELSE Firsts(z)
  <2>1. \A n \in Msgs : n \in Firsts(z)' <=> n \in Firsts(z) \/ (n = m /\ z = s)
    BY <1>2, <1>4, <1>5 DEF Firsts
  <2>2. Firsts(z)' \subseteq Msgs /\ Firsts(z) \subseteq Msgs
    BY DEF Firsts
  <2> QED
    BY <2>1, <2>2
<1> QED
  BY <1>1, <1>6, <1>7

\* One turn keeps the counts.
LEMMA TurnKeepsShare ==
  ASSUME TypeOK, DispatchInv, ShareInv, NEW m \in Msgs, OrderBalanced(m)
  PROVE  ShareInv'
<1>1. Balanced /\ turns' = turns + 1 /\ TotalWeight \in Nat \ {0} /\ turns \in Nat
  <2>1. SlotCount \in 0 .. SlotCount
    BY PrimaryKnown
  <2>2. TotalWeight \in Nat
    BY <2>1, SumsOfWeights DEF TotalWeight
  <2>3. Balanced /\ turns' = turns + 1 /\ turns \in Nat
    BY DEF OrderBalanced, TypeOK
  <2> QED
    BY <2>2, <2>3 DEF Balanced
<1>2. PICK s \in Slots :
        /\ Holds(s, (turns + 1) % TotalWeight)
        /\ \A z \in Slots :
             Firsts(z)' = IF z = s THEN Firsts(z) \cup {m} ELSE Firsts(z)
        /\ \A z \in Slots : m \notin Firsts(z)
  BY TurnTaken
<1> DEFINE T == TotalWeight
           i == turns % T
           q == turns \div T
           j == (turns + 1) % T
           p == (turns + 1) \div T
<1>3. /\ i \in 0 .. (T - 1) /\ q \in Nat
      /\ j = (IF i = T - 1 THEN 0 ELSE i + 1)
      /\ p = (IF i = T - 1 THEN q + 1 ELSE q)
  BY <1>1, NextTurn, Quotient
<1>4. ASSUME NEW z \in Slots
      PROVE  /\ IsFiniteSet(Firsts(z)')
             /\ Cardinality(Firsts(z)') + Below(z, 1) = p * Weight[z] + Below(z, j + 1)
  <2>1. /\ IsFiniteSet(Firsts(z))
        /\ Cardinality(Firsts(z)) + Below(z, 1) = q * Weight[z] + Below(z, i + 1)
    BY <1>1 DEF ShareInv
  <2>2. /\ IsFiniteSet(Firsts(z)')
        /\ Cardinality(Firsts(z)') = Cardinality(Firsts(z)) + (IF z = s THEN 1 ELSE 0)
    <3>1. CASE z = s
      BY <1>2, <2>1, <3>1, FS_AddElement
    <3>2. CASE z # s
      <4>1. Firsts(z)' = Firsts(z) /\ Cardinality(Firsts(z)) \in Nat
        BY <1>2, <2>1, <3>2, FS_CardinalityType
      <4> QED
        BY <2>1, <3>2, <4>1
    <3> QED
      BY <3>1, <3>2
  <2> HIDE DEF i, q, j, p, T
  <2>3. j \in Nat /\ (Holds(z, j) <=> z = s)
    <3>1. j \in Nat
      BY <1>1, <1>3 DEF T
    <3> QED
      BY <1>2, <3>1, PositionsBelow DEF j, T
  <2>4. Below(z, j + 1) = Below(z, j) + (IF z = s THEN 1 ELSE 0)
    BY <2>3, PositionsBelow
  <2>5. /\ Below(z, j) \in Nat /\ Below(z, i + 1) \in Nat /\ Below(z, 1) \in Nat
        /\ Below(z, 0) = 0 /\ Below(z, T) = Weight[z] /\ Weight[z] \in Nat
    <3>1. j \in Nat /\ i + 1 \in Nat /\ 1 \in Nat
      BY <1>1, <1>3, <2>3 DEF T
    <3> QED
      BY <3>1, PositionsBelow, SumsOfWeights DEF T
  <2>6. Cardinality(Firsts(z)) \in Nat
    BY <2>1, FS_CardinalityType
  <2>7. CASE i = T - 1
    <3>1. j = 0 /\ p = q + 1 /\ i + 1 = T
      BY <1>1, <1>3, <2>7 DEF T
    <3>2. p * Weight[z] = q * Weight[z] + Weight[z] /\ q * Weight[z] \in Nat
      BY <1>3, <2>5, <3>1
    <3>3. Below(z, j) = 0 /\ Below(z, i + 1) = Weight[z]
      BY <2>5, <3>1
    <3> QED
      BY <2>1, <2>2, <2>4, <2>5, <2>6, <3>2, <3>3 DEF i, q, T
  <2>8. CASE i # T - 1
    <3>1. j = i + 1 /\ p = q
      BY <1>3, <2>8
    <3>2. q * Weight[z] \in Nat
      BY <1>3, <2>5
    <3> QED
      BY <2>1, <2>2, <2>4, <2>5, <2>6, <3>1, <3>2 DEF i, q, T
  <2> QED
    BY <2>2, <2>7, <2>8
<1>5. \A z \in Slots, n \in Nat : Below(z, n)' = Below(z, n)
  OBVIOUS
<1> QED
  BY <1>1, <1>4 DEF ShareInv

\* However the dispatches of a load-balanced route overlap, its carriers are
\* first choice as often as their weights say (WalksInOrder is the other
\* half: what becomes of the order).
THEOREM OrdersAreKept == Spec => []OrderKept
<1>1. Init => ShareInv
  <2> SUFFICES ASSUME Init, Balanced, NEW s \in Slots
               PROVE  /\ IsFiniteSet(Firsts(s))
                      /\ Cardinality(Firsts(s)) + Below(s, 1)
                           = (turns \div TotalWeight) * Weight[s]
                               + Below(s, (turns % TotalWeight) + 1)
    BY DEF ShareInv
  <2>1. Firsts(s) = {} /\ turns = 0
    BY DEF Init, Firsts
  <2>2. TotalWeight \in Nat \ {0} /\ Weight[s] \in Nat /\ Below(s, 1) \in Nat
    <3>1. SlotCount \in 0 .. SlotCount
      BY PrimaryKnown
    <3> QED
      BY <3>1, SumsOfWeights, PositionsBelow DEF Balanced, TotalWeight
  <2>3. 0 \div TotalWeight = 0 /\ 0 % TotalWeight = 0
    BY <2>2
  <2> QED
    BY <2>1, <2>2, <2>3, FS_EmptySet
<1>2. TypeOK /\ DispatchInv /\ ShareInv /\ [Next]_vars => ShareInv'
  <2> SUFFICES ASSUME TypeOK, DispatchInv, ShareInv, [Next]_vars PROVE ShareInv'
    OBVIOUS
  <2>1. ASSUME UNCHANGED <<mode, turns, order>> PROVE ShareInv'
    BY <2>1 DEF ShareInv, Balanced, Firsts
  <2>2. ASSUME NEW m \in Msgs, DispatchStep(m) PROVE ShareInv'
    <3>1. CASE OrderBalanced(m)
      BY <3>1, TurnKeepsShare
    <3>2. CASE OrderOverflow(m) \/ OrderBySlot(m)
      <4>1. ~Balanced /\ mode' = mode
        BY <3>2 DEF OrderOverflow, OrderBySlot, Balanced, Spilling
      <4> QED
        BY <4>1 DEF ShareInv, Balanced
    <3>3. CASE PassOver(m) \/ Skip(m) \/ NotSent(m) \/ Contact(m)
      BY <2>1, <3>3 DEF PassOver, Skip, NotSent, Contact
    <3>4. CASE Accepted(m) \/ Refused(m) \/ Fails(m)
      BY <2>1, <3>4 DEF Accepted, Refused, Fails
    <3> QED
      BY <2>2, <3>1, <3>2, <3>3, <3>4 DEF DispatchStep
  <2>3. ASSUME NEW s \in Slots, Rebind(s) PROVE ShareInv'
    BY <2>1, <2>3 DEF Rebind
  <2> QED
    BY <2>1, <2>2, <2>3 DEF Next, vars
<1>3. TypeOK /\ ShareInv => ShareExact
  <2> SUFFICES ASSUME TypeOK, ShareInv, Balanced, turns % TotalWeight = 0,
                      NEW s \in Slots
               PROVE  Cardinality(Firsts(s)) = (turns \div TotalWeight) * Weight[s]
    BY DEF ShareExact
  <2> DEFINE q == turns \div TotalWeight
  <2>1. /\ IsFiniteSet(Firsts(s))
        /\ Cardinality(Firsts(s)) + Below(s, 1) = q * Weight[s] + Below(s, 1)
    BY DEF ShareInv
  <2>2. Cardinality(Firsts(s)) \in Nat /\ Below(s, 1) \in Nat /\ Weight[s] \in Nat
    BY <2>1, FS_CardinalityType, PositionsBelow, SumsOfWeights
  <2>3. q \in Nat
    <3>1. SlotCount \in 0 .. SlotCount
      BY PrimaryKnown
    <3>2. TotalWeight \in Nat \ {0}
      BY <3>1, SumsOfWeights DEF Balanced, TotalWeight
    <3> QED
      BY <3>2, Quotient DEF TypeOK
  <2> HIDE DEF q
  <2>4. q * Weight[s] \in Nat
    BY <2>2, <2>3
  <2> QED
    BY <2>1, <2>2, <2>4 DEF q
<1> QED
  BY <1>1, <1>2, <1>3, DispatchTypeOK, WalkInvariant, WalksInOrder, PTL
     DEF Spec, OrderKept

-----------------------------------------------------------------------------
(* RouteCache: the copy of the tables the dispatch reads.                  *)


\* Positions of the five statements and the tables they read.
LEMMA OrderOfTables ==
  /\ LoadOrder(1) = "routes" /\ LoadOrder(2) = "carriers"
  /\ LoadOrder(3) = "templates" /\ LoadOrder(4) = "headers"
  /\ LoadOrder(5) = "num_rules"
BY DEF LoadOrder

LEMMA PositionsAndTables ==
  /\ \A i \in 1 .. 5 : LoadOrder(i) \in Tables
  /\ \A t \in Tables : \E i \in 1 .. 5 : LoadOrder(i) = t
  /\ \A i, j \in 1 .. 5 : LoadOrder(i) = LoadOrder(j) => i = j
<1>1. \A i \in 1 .. 5 : i \in {1, 2, 3, 4, 5}
  OBVIOUS
<1>2. 1 \in 1 .. 5 /\ 2 \in 1 .. 5 /\ 3 \in 1 .. 5 /\ 4 \in 1 .. 5 /\ 5 \in 1 .. 5
  OBVIOUS
<1> QED
  BY <1>1, <1>2, OrderOfTables DEF Tables

LEMMA InitCache == CacheInit => CacheTypeOK /\ ReloadInv
<1> SUFFICES ASSUME CacheInit PROVE CacheTypeOK /\ ReloadInv
  OBVIOUS
<1>1. Empty \in [Tables -> Nat \cup {NotRead}]
  BY DEF Empty
<1>2. stage \in [Loaders -> {"idle", "readback", "load"}]
  BY DEF CacheInit
<1>3. position \in [Loaders -> 1 .. 6] /\ \A l \in Loaders : position[l] = 1
  BY DEF CacheInit
<1>4. /\ edits \in Seq(Tables) /\ faults \in Nat /\ slipped = FALSE /\ up = FALSE
      /\ cache = Empty /\ snap \in [Loaders -> [Tables -> Nat \cup {NotRead}]]
  BY <1>1 DEF CacheInit
<1>5. CacheTypeOK
  BY <1>1, <1>2, <1>3, <1>4 DEF CacheTypeOK
<1>6. ReloadInv
  BY <1>3, <1>4 DEF ReloadInv
<1> QED
  BY <1>5, <1>6

LEMMA HistoryType ==
  ASSUME CacheTypeOK, [CacheNext]_cacheVars
  PROVE  slipped' \in BOOLEAN /\ faults' \in Nat
<1>1. slipped \in BOOLEAN /\ faults \in Nat
  BY DEF CacheTypeOK
<1>2. slipped' = slipped \/ slipped' \in BOOLEAN
  BY Zenon DEF CacheNext, AdminStep, ReloadStep, Edit, ReadBack, ReadBackFails, Load,
     LoadSkips, LoadAborts, Install, Restart, cacheVars
<1>3. faults' = faults \/ faults' = faults + 1
  BY Zenon DEF CacheNext, AdminStep, ReloadStep, Edit, ReadBack, ReadBackFails, Load,
     LoadSkips, LoadAborts, Install, Restart, cacheVars
<1> QED
  BY <1>1, <1>2, <1>3

\* A step that only lets a loader give up or begin again.
LEMMA KeepsReads ==
  ASSUME CacheTypeOK, ReloadInv, UNCHANGED <<edits, cache, up, snap>>,
         faults' \in Nat, slipped' \in BOOLEAN, NEW l \in Loaders,
         NEW s \in {"idle", "load"}, stage' = [stage EXCEPT ![l] = s],
         IF s = "load" THEN position' = [position EXCEPT ![l] = 1] ELSE position' = position
  PROVE  CacheTypeOK' /\ ReloadInv'
<1>1. CacheTypeOK'
  BY DEF CacheTypeOK
<1>2. \A k \in Loaders : stage'[k] = "load" =>
        position'[k] = 1 \/ (stage[k] = "load" /\ position'[k] = position[k])
  BY DEF CacheTypeOK
<1>3. ReloadInv'
  BY <1>2 DEF ReloadInv
<1> QED
  BY <1>1, <1>3

LEMMA EndLoadType ==
  ASSUME CacheTypeOK, NEW l \in Loaders, EndLoad(l)
  PROVE  /\ stage' \in [Loaders -> {"idle", "readback", "load"}]
         /\ position' \in [Loaders -> 1 .. 6]
         /\ snap' \in [Loaders -> [Tables -> Nat \cup {NotRead}]]
<1>1. Empty \in [Tables -> Nat \cup {NotRead}]
  BY DEF Empty
<1> QED
  BY <1>1 DEF EndLoad, CacheTypeOK

\* The other loaders keep their place and what they have read.
LEMMA EndLoadKeeps ==
  ASSUME CacheTypeOK, NEW l \in Loaders, EndLoad(l)
  PROVE  /\ stage'[l] = "idle"
         /\ \A k \in Loaders : stage'[k] = "load" =>
              stage[k] = "load" /\ position'[k] = position[k] /\ snap'[k] = snap[k]
BY DEF EndLoad, CacheTypeOK

LEMMA StepCache == CacheTypeOK /\ ReloadInv /\ [CacheNext]_cacheVars => CacheTypeOK' /\ ReloadInv'
<1> SUFFICES ASSUME CacheTypeOK, ReloadInv, [CacheNext]_cacheVars PROVE CacheTypeOK' /\ ReloadInv'
  OBVIOUS
<1>0. /\ Len(edits) \in Nat
      /\ stage \in [Loaders -> {"idle", "readback", "load"}]
      /\ position \in [Loaders -> 1 .. 6]
      /\ snap \in [Loaders -> [Tables -> Nat \cup {NotRead}]]
      /\ "routes" \in Tables /\ "carriers" \in Tables
      /\ Admins \subseteq Loaders /\ Boot \in Loaders
  BY DEF CacheTypeOK, Tables, Loaders
<1>9. slipped' \in BOOLEAN /\ faults' \in Nat
  BY HistoryType
<1>1. ASSUME NEW a \in Admins, NEW t \in Edited, Edit(a, t)
      PROVE  CacheTypeOK' /\ ReloadInv'
  <2>1. Len(edits') = Len(edits) + 1 /\ edits' \in Seq(Tables)
    <3>1. t \in Tables
      BY RouteCacheAssumption
    <3> QED
      BY <1>1, <3>1 DEF Edit, CacheTypeOK
  <2>2. PICK s \in {"load", "readback"} :
          /\ stage' = [stage EXCEPT ![a] = s]
          /\ IF s = "load" THEN position' = [position EXCEPT ![a] = 1] ELSE position' = position
    BY <1>1 DEF Edit, StartLoad
  <2>3. UNCHANGED <<cache, up, snap, faults>> /\ slipped' \in BOOLEAN
    BY <1>1, <1>9 DEF Edit
  <2>4. /\ stage' \in [Loaders -> {"idle", "readback", "load"}]
        /\ position' \in [Loaders -> 1 .. 6]
    <3>1. a \in Loaders
      BY <1>0
    <3>2. stage' \in [Loaders -> {"idle", "readback", "load"}]
      BY <1>0, <2>2, <3>1
    <3>3. CASE s = "load"
      BY <1>0, <2>2, <3>1, <3>2, <3>3
    <3>4. CASE s = "readback"
      BY <1>0, <2>2, <3>2, <3>4
    <3> QED
      BY <3>3, <3>4
  <2>5. \A l \in Loaders : stage'[l] = "load" =>
          position'[l] = 1 \/ (stage[l] = "load" /\ position'[l] = position[l])
    BY <1>0, <2>2
  <2>6. CacheTypeOK'
    BY <2>1, <2>3, <2>4 DEF CacheTypeOK
  <2>7. ReloadInv'
    BY <1>0, <2>1, <2>3, <2>5 DEF ReloadInv
  <2> QED
    BY <2>6, <2>7
<1>2. ASSUME NEW a \in Admins, ReadBack(a) \/ ReadBackFails(a)
      PROVE  CacheTypeOK' /\ ReloadInv'
  <2>1. PICK s \in {"idle", "load"} :
          /\ stage' = [stage EXCEPT ![a] = s]
          /\ IF s = "load" THEN position' = [position EXCEPT ![a] = 1] ELSE position' = position
    BY <1>2 DEF ReadBack, ReadBackFails, StartLoad
  <2>2. /\ UNCHANGED <<edits, cache, up, snap>> /\ faults' \in Nat
        /\ slipped' \in BOOLEAN
    BY <1>2, <1>9 DEF ReadBack, ReadBackFails
  <2> QED
    BY <1>0, <2>1, <2>2, KeepsReads
<1>3. ASSUME NEW l \in Loaders, Load(l) PROVE CacheTypeOK' /\ ReloadInv'
  <2>1. LoadOrder(position[l]) \in Tables
    BY <1>0, <1>3, PositionsAndTables DEF Load
  <2>2. CacheTypeOK'
    <3>1. /\ position' = [position EXCEPT ![l] = @ + 1] /\ position[l] + 1 \in 1 .. 6
          /\ UNCHANGED <<edits, cache, up, stage, slipped, faults>>
      BY <1>0, <1>3 DEF Load
    <3>5. position' \in [Loaders -> 1 .. 6]
      BY <1>0, <3>1
    <3>2. [snap[l] EXCEPT ![LoadOrder(position[l])] = Len(edits)] \in [Tables -> Nat \cup {NotRead}]
      BY <1>0, <2>1
    <3>3. snap' = [snap EXCEPT ![l] = [snap[l] EXCEPT ![LoadOrder(position[l])] = Len(edits)]]
      BY <1>3 DEF Load
    <3>4. snap' \in [Loaders -> [Tables -> Nat \cup {NotRead}]]
      BY <1>0, <3>2, <3>3
    <3> QED
      BY <3>1, <3>4, <3>5 DEF CacheTypeOK
  <2>3. /\ position[l] = 1 => LoadOrder(position[l]) = "routes"
        /\ position[l] = 2 => LoadOrder(position[l]) = "carriers"
        /\ position[l] > 2 => LoadOrder(position[l]) \notin {"routes", "carriers"}
    <3>1. position[l] \in 1 .. 5 /\ 1 \in 1 .. 5 /\ 2 \in 1 .. 5
      BY <1>0, <1>3 DEF Load
    <3> QED
      BY <3>1, PositionsAndTables, OrderOfTables
  <2>4. ReloadInv'
    BY <1>0, <1>3, <2>1, <2>3 DEF Load, ReloadInv
  <2> QED
    BY <2>2, <2>4
<1>4. ASSUME NEW l \in Loaders, LoadSkips(l) PROVE CacheTypeOK' /\ ReloadInv'
  <2>1. LoadOrder(position[l]) \in Tables /\ position[l] > 2 /\ position[l] <= 5
    BY <1>0, <1>4, PositionsAndTables, OrderOfTables DEF LoadSkips, Required
  <2>2. CacheTypeOK'
    <3>1. /\ position' = [position EXCEPT ![l] = @ + 1] /\ position[l] + 1 \in 1 .. 6
          /\ UNCHANGED <<edits, cache, up, stage>>
      BY <1>0, <1>4 DEF LoadSkips
    <3>2. position' \in [Loaders -> 1 .. 6]
      BY <1>0, <3>1
    <3>3. snap' \in [Loaders -> [Tables -> Nat \cup {NotRead}]]
      BY <1>0, <1>4, <2>1 DEF LoadSkips, Unread
    <3> QED
      BY <1>9, <3>1, <3>2, <3>3 DEF CacheTypeOK
  <2>3. LoadOrder(position[l]) \notin {"routes", "carriers"}
    BY <1>4 DEF LoadSkips, Required
  <2>4. ReloadInv'
    BY <1>0, <1>4, <2>1, <2>3 DEF LoadSkips, ReloadInv
  <2> QED
    BY <2>2, <2>4
<1>5. ASSUME NEW l \in Loaders, LoadAborts(l) PROVE CacheTypeOK' /\ ReloadInv'
  <2>1. UNCHANGED <<edits, cache, up>>
    BY <1>5 DEF LoadAborts
  <2>2. CASE StartLoad(l) /\ snap' = snap
    <3>1. stage' = [stage EXCEPT ![l] = "load"] /\ position' = [position EXCEPT ![l] = 1]
      BY <2>2 DEF StartLoad
    <3> QED
      BY <1>0, <1>9, <2>1, <2>2, <3>1, KeepsReads
  <2>3. CASE EndLoad(l)
    <3>1. CacheTypeOK'
      BY <1>9, <2>1, <2>3, EndLoadType DEF CacheTypeOK
    <3>2. ReloadInv'
      BY <1>0, <2>1, <2>3, EndLoadKeeps DEF ReloadInv
    <3> QED
      BY <3>1, <3>2
  <2> QED
    BY <1>5, <2>2, <2>3 DEF LoadAborts
<1>6. ASSUME NEW l \in Loaders, Install(l) PROVE CacheTypeOK' /\ ReloadInv'
  <2>1. /\ snap[l]["routes"] \in 0 .. Len(edits)
        /\ snap[l]["carriers"] \in snap[l]["routes"] .. Len(edits)
    BY <1>0, <1>6 DEF Install, ReloadInv
  <2>2. /\ cache' = snap[l] /\ up' = TRUE /\ UNCHANGED <<edits, slipped, faults>>
        /\ EndLoad(l)
    BY <1>6 DEF Install
  <2>3. CacheTypeOK'
    <3>1. cache' \in [Tables -> Nat \cup {NotRead}]
      BY <1>0, <2>2
    <3>2. cache'["routes"] # NotRead /\ cache'["carriers"] # NotRead
      BY <1>0, <2>1, <2>2 DEF NotRead
    <3>3. edits' \in Seq(Tables) /\ up' \in BOOLEAN
      BY <2>2 DEF CacheTypeOK
    <3> QED
      BY <1>9, <2>2, <3>1, <3>2, <3>3, EndLoadType DEF CacheTypeOK
  <2>4. ReloadInv'
    BY <1>0, <2>1, <2>2, EndLoadKeeps DEF ReloadInv
  <2> QED
    BY <2>3, <2>4
<1>7. CASE Restart
  <2>1. /\ cache' \in [Tables -> Nat \cup {NotRead}]
        /\ stage' \in [Loaders -> {"idle", "readback", "load"}]
        /\ position' \in [Loaders -> 1 .. 6]
        /\ snap' \in [Loaders -> [Tables -> Nat \cup {NotRead}]]
        /\ UNCHANGED edits /\ up' = FALSE
        /\ \A l \in Loaders : position'[l] = 1
    BY <1>7 DEF Restart, Empty
  <2>2. faults' \in Nat /\ slipped' \in BOOLEAN
    BY <1>9
  <2>3. CacheTypeOK'
    BY <2>1, <2>2 DEF CacheTypeOK
  <2>4. ReloadInv'
    BY <2>1 DEF ReloadInv
  <2> QED
    BY <2>3, <2>4
<1>8. CASE UNCHANGED cacheVars
  BY <1>8 DEF cacheVars, CacheTypeOK, ReloadInv
<1> QED
  BY <1>1, <1>2, <1>3, <1>4, <1>5, <1>6, <1>7, <1>8
     DEF CacheNext, AdminStep, ReloadStep, Loaders

\* Type correctness, however reloads overlap and fail.
THEOREM CacheTypes == CacheSpec => []CacheTypeOK
BY InitCache, StepCache, PTL DEF CacheSpec

\* However many reloads overlap, whatever fails: a route that dispatch finds
\* in the cache never misses a carrier edit that came before it.
THEOREM CachedRoutesHaveCarriers == CacheSpec => []RoutesHaveCarriers
<1>1. CacheTypeOK /\ ReloadInv => RoutesHaveCarriers
  BY DEF CacheTypeOK, ReloadInv, RoutesHaveCarriers, Tables, NotRead
<1> QED
  BY <1>1, InitCache, StepCache, PTL DEF CacheSpec

LEMMA StepUnslipped ==
  ASSUME CacheTypeOK, UnslippedInv, [CacheNext]_cacheVars
  PROVE  UnslippedInv'
<1> USE RouteCacheAssumption DEF CacheTypeOK, Loaders
<1>1. ASSUME NEW a \in Admins, NEW t \in Edited, Edit(a, t) PROVE UnslippedInv'
  <2>1. up /\ stage[a] = "idle" /\ stage[Boot] = "idle"
    BY <1>1 DEF Edit, UnslippedInv
  <2>2. /\ stage'[a] \in {"load", "readback"} /\ (stage'[a] = "load" => position'[a] = 1)
        /\ \A l \in Loaders \ {a} : stage'[l] = stage[l] /\ position'[l] = position[l]
        /\ up' = up
    BY <1>1 DEF Edit, StartLoad
  <2>3. ~slipped' => \A l \in Loaders : stage[l] # "load"
    BY <1>1 DEF Edit
  <2>4. ~slipped' => \A l \in Loaders : stage'[l] = "load" => position'[l] = 1
    BY <2>2, <2>3
  <2> QED
    BY <2>1, <2>2, <2>4 DEF UnslippedInv, AtRest
<1>2. ASSUME NEW a \in Admins, ReadBack(a) PROVE UnslippedInv'
  BY <1>2 DEF ReadBack, StartLoad, UnslippedInv, AtRest
<1>3. ASSUME NEW l \in Loaders, Load(l) \/ LoadSkips(l) PROVE UnslippedInv'
  <2>1. /\ stage[l] = "load" /\ position[l] \in 1 .. 5
        /\ LoadOrder(position[l]) \in Tables
        /\ UNCHANGED <<edits, cache, up, stage, slipped>>
        /\ position' = [position EXCEPT ![l] = @ + 1]
    BY <1>3, PositionsAndTables DEF Load, LoadSkips
  <2>2. PICK v \in {NotRead, Len(edits)} :
          snap' = [snap EXCEPT ![l][LoadOrder(position[l])] = v]
    BY <1>3 DEF Load, LoadSkips, Unread
  <2>3. ASSUME ~slipped, NEW i \in 1 .. position'[l] - 1
        PROVE  snap'[l][LoadOrder(i)] \in {NotRead, Len(edits)}
    <3>1. i \in 1 .. 5 /\ i <= position[l] /\ LoadOrder(i) \in Tables
      BY <2>1, <2>3, PositionsAndTables
    <3>2. CASE i = position[l]
      BY <2>1, <2>2, <3>1, <3>2
    <3>3. CASE i # position[l]
      <4>1. LoadOrder(i) # LoadOrder(position[l]) /\ i \in 1 .. position[l] - 1
        BY <2>1, <3>1, <3>3, PositionsAndTables
      <4>2. snap[l][LoadOrder(i)] \in {NotRead, Len(edits)}
        BY <2>1, <2>3, <4>1 DEF UnslippedInv
      <4> QED
        BY <2>1, <2>2, <3>1, <4>1, <4>2
    <3> QED
      BY <3>2, <3>3
  <2>4. \A k \in Loaders : k # l => snap'[k] = snap[k] /\ position'[k] = position[k]
    BY <2>1, <2>2
  <2> QED
    BY <2>1, <2>3, <2>4 DEF UnslippedInv, AtRest
<1>4. ASSUME NEW l \in Loaders, Install(l) PROVE UnslippedInv'
  <2>1. ASSUME ~slipped PROVE \A t \in Tables : snap[l][t] \in {NotRead, Len(edits)}
    <3>1. \A i \in 1 .. position[l] - 1 : snap[l][LoadOrder(i)] \in {NotRead, Len(edits)}
      BY <1>4, <2>1 DEF Install, UnslippedInv
    <3>2. \A i \in 1 .. 5 : i \in 1 .. position[l] - 1
      BY <1>4 DEF Install
    <3> QED
      BY <3>1, <3>2, PositionsAndTables
  <2>2. /\ stage' = [stage EXCEPT ![l] = "idle"] /\ stage[l] = "load" /\ up' = TRUE
        /\ cache' = snap[l] /\ UNCHANGED <<edits, slipped>>
        /\ \A k \in Loaders : stage'[k] = "load" =>
             stage[k] = "load" /\ position'[k] = position[k] /\ snap'[k] = snap[k]
    BY <1>4, EndLoadKeeps DEF Install, EndLoad
  <2>3. stage'[Boot] = "idle"
    BY <2>2 DEF UnslippedInv
  <2> QED
    BY <2>1, <2>2, <2>3 DEF UnslippedInv
<1>5. ASSUME NEW l \in Loaders, LoadAborts(l) PROVE UnslippedInv'
  <2>1. CASE l = Boot
    BY <1>5, <2>1 DEF LoadAborts, StartLoad, UnslippedInv, AtRest
  <2>2. CASE l # Boot
    <3>1. UNCHANGED <<edits, cache, up>> /\ slipped' = TRUE /\ EndLoad(l)
      BY <1>5, <2>2 DEF LoadAborts
    <3>2. stage' = [stage EXCEPT ![l] = "idle"]
      BY <3>1 DEF EndLoad
    <3> QED
      BY <3>1, <3>2 DEF UnslippedInv
  <2> QED
    BY <2>1, <2>2
<1>6. ASSUME NEW a \in Admins, ReadBackFails(a) PROVE UnslippedInv'
  BY <1>6 DEF ReadBackFails, UnslippedInv
<1>7. CASE Restart
  BY <1>7 DEF Restart, UnslippedInv, AtRest
<1>8. CASE UNCHANGED cacheVars
  BY <1>8 DEF cacheVars, UnslippedInv, AtRest
<1> QED
  BY <1>1, <1>2, <1>3, <1>4, <1>5, <1>6, <1>7, <1>8 DEF CacheNext, AdminStep, ReloadStep

\* However many admins edit at once, whatever fails and wherever the process
\* crashes: a system at rest serves every edit, unless one was committed while
\* another handler's reload was reading or a handler dropped its reload.
THEOREM RestingCacheIsFresh == CacheSpec => []FreshAtRest
<1>1. CacheInit => UnslippedInv
  <2> SUFFICES ASSUME CacheInit PROVE UnslippedInv
    OBVIOUS
  <2>1. up = FALSE /\ \A a \in Admins : stage[a] = "idle"
    BY RouteCacheAssumption DEF CacheInit, Loaders
  <2>2. \A l \in Loaders : position[l] = 1
    BY DEF CacheInit
  <2> QED
    BY <2>1, <2>2 DEF UnslippedInv, AtRest
<1>2. CacheTypeOK /\ UnslippedInv /\ [CacheNext]_cacheVars => UnslippedInv'
  BY StepUnslipped
<1>3. CacheTypeOK /\ UnslippedInv => FreshAtRest
  <2> SUFFICES ASSUME CacheTypeOK, UnslippedInv, AtRest, ~slipped,
                      NEW t \in Tables, NEW i \in DOMAIN edits
               PROVE  Serves(t, i)
    BY DEF FreshAtRest, Fresh
  <2>1. cache[t] \in {NotRead, Len(edits)} /\ i <= Len(edits)
    BY DEF UnslippedInv, CacheTypeOK
  <2> QED
    BY <2>1 DEF Serves
<1> QED
  BY <1>1, <1>2, <1>3, CacheTypes, PTL DEF CacheSpec
=============================================================================

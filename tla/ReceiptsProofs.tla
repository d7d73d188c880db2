--------------------------- MODULE ReceiptsProofs ---------------------------
(***************************************************************************)
(* For any number of callbacks, receipts and re-sends: unless a final      *)
(* receipt overtakes the send path's last statement, a stored final is     *)
(* never changed, and the client is never told two different outcomes; in  *)
(* any history callbacks tell it a final one at most once.                 *)
(***************************************************************************)
EXTENDS Receipts, SmsLogProofs

LEMMA ReceiptsTypeInit == Init => TypeOK
<1>1. NoRow \in Row
  BY DEF NoRow, Row, Statuses, ReceiptStatuses
<1>2. StampSending(NoRow) \in Row
  BY <1>1, RowClosed
<1>3. "unknown" \in ReceiptStatuses
  BY DEF ReceiptStatuses
<1> SUFFICES ASSUME Init PROVE TypeOK
  OBVIOUS
<1>4. row \in Row /\ sent \in Seq(Sent)
  BY <1>2 DEF Init
<1>5. /\ had \in [Handlers -> BOOLEAN] /\ finalised \in BOOLEAN
      /\ dlrRequested \in BOOLEAN /\ sweeping \in BOOLEAN
      /\ early \in BOOLEAN /\ missed \in BOOLEAN
  BY Zenon DEF Init
<1>6. /\ pc \in [Processes -> {"idle", "update", "age", "read", "forward"}]
      /\ carry \in [Processes -> ReceiptStatuses]
  BY <1>3 DEF Init
<1>7. receipts \in Nat /\ resends \in Nat /\ faults \in Nat
  BY DEF Init
<1>8. QED
  BY <1>4, <1>5, <1>6, <1>7 DEF TypeOK

\* A process gives up: it tells the client nothing and leaves the row alone.
Fails(p) ==
  \/ ForwardFails(p)
  \/ p \in Handlers /\ CallbackFails(p)
  \/ p = Ager /\ AgeOutFails
  \/ p \in Resenders /\ ReadFails(p)

LEMMA FailsOf ==
  ASSUME NEW p \in Processes, Fails(p)
  PROVE  /\ UNCHANGED <<row, finalised, carry, sent, early>>
         /\ pc' = [pc EXCEPT ![p] = "idle"]
BY DEF Fails, ForwardFails, CallbackFails, AgeOutFails, ReadFails, Goto, history

LEMMA ReceiptsTypeStep == TypeOK /\ [Next]_vars => TypeOK'
<1> SUFFICES ASSUME TypeOK, [Next]_vars PROVE TypeOK'
  OBVIOUS
<1> USE ReceiptsAssumption DEF TypeOK, Processes, Resenders, procVars, settings, history, bounds, Goto
<1>1. CASE Finalise
  BY <1>1, RowClosed DEF Finalise
<1>2. ASSUME NEW h \in Handlers, NEW s \in ReceiptStatuses, Receive(h, s) PROVE TypeOK'
  BY <1>2 DEF Receive
<1>3. ASSUME NEW h \in Handlers, Apply(h) PROVE TypeOK'
  BY <1>3, RowClosed DEF Apply
<1>4. ASSUME NEW p \in Processes, NEW by \in {"live", "resend"}, Forward(p, by) PROVE TypeOK'
  BY <1>4 DEF Forward, Sent
<1>5. CASE ListStuck
  BY <1>5 DEF ListStuck
<1>6. CASE AgeOut
  BY <1>6, RowClosed DEF AgeOut
<1>7. CASE AskResend
  BY <1>7 DEF AskResend
<1>8. ASSUME NEW p \in Resenders, ReadStored(p) PROVE TypeOK'
  BY <1>8 DEF ReadStored, Row
<1>9. CASE Crash
  BY <1>9 DEF Crash, Fault
<1>10. CASE UNCHANGED vars
  BY <1>10 DEF vars
<1>11. ASSUME NEW p \in Processes, Fails(p) PROVE TypeOK'
  <2>1. UNCHANGED <<settings, had, resends, receipts>> /\ faults' \in Nat
    BY <1>11 DEF Fails, ForwardFails, CallbackFails, AgeOutFails, ReadFails, Fault
  <2>2. missed' \in BOOLEAN
    BY <1>11 DEF Fails, ForwardFails, CallbackFails, AgeOutFails, ReadFails
  <2>3. QED
    BY <1>11, <2>1, <2>2, FailsOf
<1>12. QED
  BY <1>1, <1>2, <1>3, <1>4, <1>5, <1>6, <1>7, <1>8, <1>9, <1>10, <1>11
     DEF Next, HandlerStep, ResenderStep, Fails

-----------------------------------------------------------------------------
\* What one step may do to the row: nothing once a final receipt is stored.
LEMMA FinalStaysStep ==
  ASSUME TypeOK, FinalInv, [Next]_vars, row.dlr \in Finals
  PROVE  row' = row
<1> USE DEF FinalInv
<1>1. finalised /\ row.status # "accepted"
  BY DEF Finals
<1>2. CASE \E h \in Handlers : Apply(h)
  BY <1>2 DEF Apply, UpdateDLRReceived, ReceiptApplies
<1>3. CASE AgeOut
  BY <1>1, <1>3 DEF AgeOut, AgeOutAcceptedNoDLR, AgeOutApplies
<1>4. QED
  BY <1>1, <1>2, <1>3 DEF Next, Finalise, Receive, HandlerStep, Forward, ForwardFails,
     CallbackFails, ListStuck, AgeOutFails, AskResend, ResenderStep, ReadStored, ReadFails,
     Crash, vars

\* A receipt that applies stores its status, and a final one leaves the row in
\* a status that is not accepted.
LEMMA ApplyRow ==
  ASSUME NEW r \in Row, NEW s \in ReceiptStatuses, ReceiptApplies(r, s)
  PROVE  /\ UpdateDLRReceived(r, s).dlr = s
         /\ UpdateDLRReceived(r, s).status # "none"
         /\ s \in Finals => UpdateDLRReceived(r, s).status # "accepted"
         /\ s \notin Finals => UpdateDLRReceived(r, s).status = r.status
<1>1. /\ UpdateDLRReceived(r, s).dlr = s
      /\ UpdateDLRReceived(r, s).status = StatusAfterReceipt(r, s)
  BY DEF UpdateDLRReceived, Row
<1>2. /\ StatusAfterReceipt(r, s) # "none"
      /\ s \in Finals => StatusAfterReceipt(r, s) # "accepted"
      /\ s \notin Finals => StatusAfterReceipt(r, s) = r.status
  BY DEF StatusAfterReceipt, ReceiptApplies, Finals
<1>3. QED
  BY <1>1, <1>2

\* The send path's last statement leaves the receipt alone.
LEMMA FinaliseRow ==
  ASSUME NEW r \in Row, r.status # "none",
         NEW q \in {MarkSMSAccepted(r), ForceMarkAccepted(r)}
  PROVE  q.dlr = r.dlr /\ q.status # "none"
<1>1. CASE q = MarkSMSAccepted(r)
  BY <1>1 DEF MarkSMSAccepted, Row
<1>2. CASE q = ForceMarkAccepted(r)
  BY <1>2 DEF ForceMarkAccepted, Row
<1>3. QED
  BY <1>1, <1>2

LEMMA FinalInvStep ==
  ASSUME TypeOK, FinalInv, [Next]_vars, ~early'
  PROVE  FinalInv'
<1> USE ReceiptsAssumption DEF TypeOK, Processes, Resenders, procVars, settings, history, bounds, Goto
<1>1. CASE Finalise
  <2>1. row.dlr \notin Finals /\ finalised'
    BY <1>1 DEF Finalise, FinalInv
  <2>2. row'.dlr = row.dlr /\ row'.status # "none"
    BY <1>1, FinaliseRow DEF Finalise, FinalInv
  <2> QED
    BY <1>1, <2>1, <2>2 DEF Finalise, FinalInv
<1>2. ASSUME NEW h \in Handlers, NEW s \in ReceiptStatuses, Receive(h, s) PROVE FinalInv'
  BY <1>2 DEF Receive, FinalInv
<1>3. ASSUME NEW h \in Handlers, Apply(h) PROVE FinalInv'
  <2>1. UNCHANGED <<finalised, carry, sent>>
    BY <1>3 DEF Apply
  <2>2. ~finalised => row'.dlr \notin Finals
    BY <1>3 DEF Apply
  <2>3. CASE ReceiptApplies(row, carry[h])
    <3>1. row.dlr \notin Finals
      BY <2>3 DEF ReceiptApplies
    <3>2. /\ row'.dlr = carry[h] /\ row'.status # "none"
          /\ carry[h] \in Finals => row'.status # "accepted"
          /\ carry[h] \notin Finals => row'.status = row.status
      BY <1>3, <2>3, ApplyRow DEF Apply
    <3>3. \A p \in Processes : pc'[p] = "forward" /\ carry'[p] \in Finals => p = h
      BY <1>3, <2>1, <3>1 DEF Apply, FinalInv
    <3>4. \A i \in DOMAIN sent' : sent'[i].status \notin Finals
      BY <2>1, <3>1 DEF FinalInv
    <3>5. QED
      BY <2>1, <2>2, <3>2, <3>3, <3>4 DEF FinalInv
  <2>4. CASE ~ReceiptApplies(row, carry[h])
    BY <1>3, <2>1, <2>4 DEF Apply, FinalInv, UpdateDLRReceived
  <2>5. QED
    BY <2>3, <2>4
<1>4. ASSUME NEW p \in Processes, NEW by \in {"live", "resend"}, Forward(p, by)
      PROVE  FinalInv'
  <2>1. /\ pc[p] = "forward" /\ UNCHANGED <<row, finalised, carry>>
        /\ sent' = Append(sent, [by |-> by, status |-> carry[p]])
        /\ pc' = [pc EXCEPT ![p] = "idle"]
    BY <1>4 DEF Forward
  <2>2. \A i \in DOMAIN sent' : sent'[i].status \in Finals => row.dlr = sent'[i].status
    BY <2>1 DEF FinalInv, Sent
  <2>3. QED
    BY <2>1, <2>2 DEF FinalInv
<1>5. CASE ListStuck
  BY <1>5 DEF ListStuck, FinalInv
<1>6. CASE AgeOut
  <2>1. finalised' = finalised /\ UNCHANGED <<carry, sent>>
    BY <1>6 DEF AgeOut
  <2>2. CASE AgeOutApplies(row)
    <3>1. row.dlr \notin Finals /\ finalised
      BY <2>2 DEF AgeOutApplies, FinalInv
    <3>2. row'.status = "failed"
      BY <1>6, <2>2 DEF AgeOut, AgeOutAcceptedNoDLR, Row
    <3>3. \A q \in Processes : ~(pc'[q] = "forward" /\ carry'[q] \in Finals)
      BY <1>6, <2>1, <2>2, <3>1 DEF AgeOut, FinalInv
    <3>4. \A i \in DOMAIN sent' : sent'[i].status \notin Finals
      BY <2>1, <3>1 DEF FinalInv
    <3>5. QED
      BY <2>1, <3>1, <3>2, <3>3, <3>4 DEF FinalInv
  <2>3. CASE ~AgeOutApplies(row)
    BY <1>6, <2>1, <2>3 DEF AgeOut, FinalInv, AgeOutAcceptedNoDLR
  <2>4. QED
    BY <2>2, <2>3
<1>7. CASE AskResend
  BY <1>7 DEF AskResend, FinalInv
<1>8. ASSUME NEW p \in Resenders, ReadStored(p) PROVE FinalInv'
  BY <1>8 DEF ReadStored, FinalInv
<1>9. CASE Crash
  BY <1>9 DEF Crash, FinalInv
<1>10. CASE UNCHANGED vars
  BY <1>10 DEF vars, FinalInv
<1>11. ASSUME NEW p \in Processes, Fails(p) PROVE FinalInv'
  BY <1>11, FailsOf DEF FinalInv
<1>12. QED
  BY <1>1, <1>2, <1>3, <1>4, <1>5, <1>6, <1>7, <1>8, <1>9, <1>10, <1>11
     DEF Next, HandlerStep, ResenderStep, Fails

LEMMA FinalInvInit == Init => FinalInv
<1> SUFFICES ASSUME Init PROVE FinalInv
  OBVIOUS
<1>1. row.dlr = "null" /\ row.status = "sending"
  BY DEF Init, StampSending, NoRow
<1>2. row.dlr \notin Finals
  BY <1>1 DEF Finals
<1>3. \A p \in Processes : pc[p] = "idle"
  BY DEF Init
<1>4. DOMAIN sent = {}
  BY DEF Init
<1>5. QED
  BY <1>1, <1>2, <1>3, <1>4 DEF FinalInv, Processes

\* The invariant holds until a final overtakes the send path's last statement.
LEMMA ReceiptsInvHolds == Spec => [](TypeOK /\ ReceiptsInv)
<1>1. Init => TypeOK /\ ReceiptsInv
  BY ReceiptsTypeInit, FinalInvInit DEF ReceiptsInv
<1>2. ASSUME TypeOK, [Next]_vars, ~early' PROVE ~early
  BY <1>2 DEF Next, Finalise, Receive, HandlerStep, Apply, Forward, ForwardFails,
     CallbackFails, ListStuck, AgeOut, AgeOutFails, AskResend, ResenderStep, ReadStored,
     ReadFails, Crash, history, vars, TypeOK
<1>3. TypeOK /\ ReceiptsInv /\ [Next]_vars => TypeOK' /\ ReceiptsInv'
  BY <1>2, ReceiptsTypeStep, FinalInvStep DEF ReceiptsInv
<1>4. QED
  BY <1>1, <1>3, PTL DEF Spec

\* Unless it overtook the send path's last statement, a final receipt, once
\* stored, is there to stay: neither another receipt, nor the send path, nor
\* the sweep changes it.
THEOREM FinalIsForever == Spec => FinalKept
<1>1. TypeOK /\ ReceiptsInv /\ [Next]_vars
        => [row.dlr \in Finals /\ ~early => row'.dlr = row.dlr]_vars
  BY FinalStaysStep DEF ReceiptsInv
<1>2. QED
  BY <1>1, ReceiptsInvHolds, PTL DEF Spec, FinalKept

\* Nor is the client ever told two different final outcomes.
THEOREM ClientHearsOneOutcome == Spec => []FinalsAgree
<1>1. ReceiptsInv => FinalsAgree
  BY DEF ReceiptsInv, FinalInv, FinalsAgree
<1>2. QED
  BY <1>1, ReceiptsInvHolds, PTL

-----------------------------------------------------------------------------
\* A final receipt may be replaced by the sweep's, but never removed.
LEMMA FinalRemains ==
  ASSUME TypeOK, [Next]_vars, row.dlr \in Finals
  PROVE  row'.dlr \in Finals
<1> USE DEF TypeOK
<1>1. CASE Finalise
  <2>1. row' = MarkSMSAccepted(row) \/ row' = ForceMarkAccepted(row)
    BY <1>1 DEF Finalise
  <2>2. row'.dlr = row.dlr
    BY <2>1 DEF MarkSMSAccepted, ForceMarkAccepted, Row
  <2>3. QED
    BY <2>2
<1>2. CASE \E h \in Handlers : Apply(h)
  BY <1>2 DEF Apply, UpdateDLRReceived, ReceiptApplies
<1>3. CASE AgeOut
  BY <1>3 DEF AgeOut, AgeOutAcceptedNoDLR, Row, Finals
<1>4. QED
  BY <1>1, <1>2, <1>3 DEF Next, Receive, HandlerStep, Forward, ForwardFails, CallbackFails,
     ListStuck, AgeOutFails, AskResend, ResenderStep, ReadStored, ReadFails, Crash, vars

LEMMA ForwardInvStep ==
  ASSUME TypeOK, ForwardInv, [Next]_vars
  PROVE  ForwardInv'
<1> USE ReceiptsAssumption DEF TypeOK, Processes, Resenders, procVars, settings, history, bounds, Goto
<1>0. row.dlr \in Finals => row'.dlr \in Finals
  BY FinalRemains
<1>1. ASSUME UNCHANGED sent, \A h \in Handlers : Telling(h)' => Telling(h)
      PROVE  ForwardInv'
  BY <1>0, <1>1 DEF ForwardInv, FinalForwardedOnce
<1>2. CASE Finalise \/ UNCHANGED vars
  BY <1>1, <1>2 DEF Finalise, vars, Telling
<1>3. ASSUME NEW h \in Handlers, NEW s \in ReceiptStatuses, Receive(h, s) PROVE ForwardInv'
  BY <1>1, <1>3 DEF Receive, Telling
<1>4. ASSUME NEW h \in Handlers, Apply(h) PROVE ForwardInv'
  <2>1. /\ UNCHANGED <<carry, sent>> /\ pc'[h] \in {"idle", "forward"}
        /\ \A g \in Handlers \ {h} : pc'[g] = pc[g]
        /\ row' = UpdateDLRReceived(row, carry[h])
        /\ pc'[h] = "forward" => ReceiptApplies(row, carry[h])
    BY <1>4 DEF Apply
  <2>2. CASE Telling(h)'
    <3>1. row.dlr \notin Finals /\ row'.dlr = carry[h] /\ carry[h] \in Finals
      BY <2>1, <2>2, ApplyRow DEF Telling, ReceiptApplies
    <3>2. \A g \in Handlers : Telling(g)' => g = h
      BY <2>1, <3>1 DEF ForwardInv, Telling
    <3>3. \A i \in DOMAIN sent : ~LiveFinal(sent[i])
      BY <3>1 DEF ForwardInv
    <3>4. QED
      BY <2>1, <3>1, <3>2, <3>3 DEF ForwardInv, FinalForwardedOnce
  <2>3. CASE ~Telling(h)'
    BY <1>1, <2>1, <2>3 DEF Telling
  <2>4. QED
    BY <2>2, <2>3
<1>5. ASSUME NEW h \in Handlers, Forward(h, "live") PROVE ForwardInv'
  <2> DEFINE f == [by |-> "live", status |-> carry[h]]
  <2>1. /\ pc[h] = "forward" /\ UNCHANGED <<row, carry>> /\ f \in Sent
        /\ sent' = Append(sent, f)
        /\ pc' = [pc EXCEPT ![h] = "idle"]
    BY <1>5 DEF Forward, Sent
  <2>2. /\ DOMAIN sent' = DOMAIN sent \cup {Len(sent) + 1}
        /\ Len(sent) + 1 \notin DOMAIN sent /\ sent'[Len(sent) + 1] = f
        /\ \A i \in DOMAIN sent : sent'[i] = sent[i]
    BY <2>1
  <2>3. LiveFinal(f) <=> Telling(h)
    BY <2>1 DEF LiveFinal, Telling
  <2>4. \A g \in Handlers : Telling(g)' => Telling(g) /\ g # h
    BY <2>1 DEF Telling
  <2>5. CASE Telling(h)
    <3>1. /\ \A i \in DOMAIN sent : ~LiveFinal(sent[i])
          /\ row.dlr \in Finals
          /\ \A g \in Handlers : ~Telling(g)'
      BY <2>4, <2>5 DEF ForwardInv
    <3>2. \A i \in DOMAIN sent' : LiveFinal(sent'[i]) => i = Len(sent) + 1
      BY <2>2, <3>1
    <3>3. QED
      BY <2>1, <3>1, <3>2 DEF ForwardInv, FinalForwardedOnce
  <2>6. CASE ~Telling(h)
    <3>1. \A i \in DOMAIN sent' : LiveFinal(sent'[i]) => i \in DOMAIN sent /\ LiveFinal(sent[i])
      BY <2>2, <2>3, <2>6
    <3>2. QED
      BY <2>1, <2>4, <3>1 DEF ForwardInv, FinalForwardedOnce
  <2>7. QED
    BY <2>5, <2>6
<1>6. ASSUME NEW p \in Resenders, Forward(p, "resend") PROVE ForwardInv'
  <2> DEFINE f == [by |-> "resend", status |-> carry[p]]
  <2>1. /\ UNCHANGED <<row, carry>> /\ f \in Sent
        /\ sent' = Append(sent, f)
        /\ pc' = [pc EXCEPT ![p] = "idle"]
    BY <1>6 DEF Forward, Sent
  <2>2. /\ DOMAIN sent' = DOMAIN sent \cup {Len(sent) + 1}
        /\ sent'[Len(sent) + 1] = f /\ ~LiveFinal(f)
        /\ \A i \in DOMAIN sent : sent'[i] = sent[i]
    BY <2>1 DEF LiveFinal
  <2>3. \A i \in DOMAIN sent' : LiveFinal(sent'[i]) => i \in DOMAIN sent /\ LiveFinal(sent[i])
    BY <2>2
  <2>4. \A g \in Handlers : Telling(g)' => Telling(g)
    BY <2>1 DEF Telling
  <2>5. QED
    BY <2>1, <2>3, <2>4 DEF ForwardInv, FinalForwardedOnce
<1>7. CASE ListStuck
  BY <1>1, <1>7 DEF ListStuck, Telling
<1>8. CASE AgeOut
  BY <1>1, <1>8 DEF AgeOut, Telling
<1>9. CASE AskResend
  BY <1>1, <1>9 DEF AskResend, Telling
<1>10. ASSUME NEW p \in Resenders, ReadStored(p) PROVE ForwardInv'
  BY <1>1, <1>10 DEF ReadStored, Telling
<1>11. CASE Crash
  BY <1>1, <1>11 DEF Crash, Telling
<1>12. ASSUME NEW p \in Processes, Fails(p) PROVE ForwardInv'
  BY <1>1, <1>12, FailsOf DEF Telling
<1>13. QED
  BY <1>2, <1>3, <1>4, <1>5, <1>6, <1>7, <1>8, <1>9, <1>10, <1>11, <1>12
     DEF Next, HandlerStep, ResenderStep, Fails

\* Live forwarding tells the client a final outcome once at most: of the
\* callbacks that race only the one whose receipt the row took forwards it, and
\* no later one's receipt is taken, even if the send path or the sweep writes
\* over the row in between.
THEOREM OneLiveFinal == Spec => []FinalForwardedOnce
<1>1. Init => ForwardInv
  BY DEF Init, ForwardInv, FinalForwardedOnce, Telling, Processes
<1>2. TypeOK /\ ForwardInv /\ [Next]_vars => ForwardInv'
  BY ForwardInvStep
<1>3. ForwardInv => FinalForwardedOnce
  BY DEF ForwardInv
<1>4. QED
  BY <1>1, <1>2, <1>3, ReceiptsInvHolds, PTL DEF Spec
=============================================================================

---------------------------- MODULE SyncSendProofs --------------------------
(***************************************************************************)
(* For any messages, prices and faults: every message submitted over HTTP  *)
(* is settled at most once, and with HTTP ingress only the synchronous     *)
(* path implements the prepaid contract; boot recovery leaves no row of an *)
(* earlier life unsettled.                                                 *)
(***************************************************************************)
EXTENDS SyncSend, SmsLogProofs

LEMMA SyncTypeInit == Init => TypeOK
  BY SyncAssumption DEF Init, TypeOK, InFlight, Row, NoRow, Statuses

LEMMA SyncTypeStep == TypeOK /\ [Next]_vars => TypeOK'
<1> SUFFICES ASSUME TypeOK, [Next]_vars PROVE TypeOK'
  OBVIOUS
<1> USE SyncAssumption DEF TypeOK, InFlight, rowVars, bootVars
<1>0. smpp' = smpp
  BY DEF Next, vars
<1>1. ASSUME NEW m \in Messages, RequestStep(m) PROVE TypeOK'
  <2>1. CASE Reserve(m)
    BY <1>0, <2>1, RowClosed DEF Reserve, Goto
  <2>2. CASE CarrierAccepts(m) \/ CarriersFail(m)
    BY <1>0, <2>2 DEF CarrierAccepts, CarriersFail, Goto
  <2>3. CASE Bill(m) \/ BillFails(m)
    BY <1>0, <2>3, RowClosed DEF Bill, BillFails, Goto
  <2>4. CASE ForceAccepted(m)
    BY <1>0, <2>4, RowClosed DEF ForceAccepted, Goto
  <2>5. CASE FailSend(m)
    BY <1>0, <2>5, RowClosed DEF FailSend, Goto
  <2>6. CASE StatementFails(m) \/ Disconnect(m)
    BY <1>0, <2>6 DEF StatementFails, Disconnect, Fault, Goto
  <2>7. QED
    BY <1>1, <2>1, <2>2, <2>3, <2>4, <2>5, <2>6 DEF RequestStep
<1>2. CASE ListLeftovers \/ ListFails \/ OpenHTTP
  BY <1>0, <1>2 DEF ListLeftovers, StuckSending, ListFails, OpenHTTP, Fault
<1>3. ASSUME NEW m \in Messages, Recover(m) \/ RecoverFails(m) PROVE TypeOK'
  BY <1>0, <1>3, RowClosed DEF Recover, RecoverFails, Fault
<1>4. CASE Crash
  BY <1>0, <1>4 DEF Crash, Fault
<1>5. ASSUME NEW m \in Messages, NEW s \in Receipts, CarrierReceipt(m, s) PROVE TypeOK'
  BY <1>0, <1>5, RowClosed DEF CarrierReceipt
<1>6. CASE UNCHANGED vars
  BY <1>6 DEF vars
<1>7. QED
  BY <1>1, <1>2, <1>3, <1>4, <1>5, <1>6 DEF Next, BootStep

\* Type correctness, for SMPP and HTTP ingress alike.
THEOREM SyncTypeOK == Spec => []TypeOK
  BY SyncTypeInit, SyncTypeStep, PTL DEF Spec

-----------------------------------------------------------------------------
(* The inductive invariant.  A step changes the state of one message, or    *)
(* only the state of the boot sequence.                                     *)

\* A message none of whose state changed keeps its invariant.
LEMMA Frame ==
  ASSUME NEW m \in Http, MessageInv(m), boot' = boot, leftover' = leftover,
         log'[m] = log[m], pc'[m] = pc[m], debits'[m] = debits[m],
         credits'[m] = credits[m], billed'[m] = billed[m]
  PROVE  MessageInv(m)'
  BY DEF MessageInv, Unsettled

LEMMA RequestInvStep ==
  ASSUME TypeOK, SyncInv, smpp' = smpp, NEW m \in Messages, RequestStep(m)
  PROVE  SyncInv'
<1> USE DEF TypeOK, Http
<1>1. log[m] \in Row
  OBVIOUS
<1>2. ASSUME NEW n \in Http, n # m PROVE MessageInv(n)'
  <2>1. /\ log'[n] = log[n] /\ pc'[n] = pc[n] /\ debits'[n] = debits[n]
        /\ credits'[n] = credits[n] /\ billed'[n] = billed[n]
        /\ boot' = boot /\ leftover' = leftover
    BY <1>2 DEF RequestStep, Reserve, CarrierAccepts, CarriersFail, Bill, BillFails,
       ForceAccepted, FailSend, StatementFails, Disconnect, Goto, rowVars, bootVars
  <2>2. QED
    BY <2>1, Frame DEF SyncInv
<1>3. ASSUME m \in Http PROVE MessageInv(m)'
  <2>0. MessageInv(m)
    BY <1>3 DEF SyncInv
  <2> USE DEF MessageInv, Unsettled, Goto, InFlight
  <2>1. CASE Reserve(m)
    <3>1. /\ log'[m].status = "sending" /\ boot = "up" /\ boot' = "up"
          /\ log[m].status = "none"
      BY <1>1, <1>3, <2>0, <2>1, RowStatus DEF Reserve, bootVars
    <3>2. credits[m] = 0 /\ billed[m] = 0 /\ debits[m] = 0
      BY <2>0, <3>1 DEF Reserve
    <3>3. QED
      BY <1>1, <2>0, <2>0, <2>1, <3>1, <3>2 DEF Reserve, bootVars
  <2>2. CASE CarrierAccepts(m) \/ CarriersFail(m)
    BY <1>1, <2>0, <2>2 DEF CarrierAccepts, CarriersFail, rowVars, bootVars
  <2>3. CASE Bill(m)
    BY <1>1, <2>0, <2>3, RowStatus DEF Bill, bootVars
  <2>4. CASE BillFails(m)
    BY <1>1, <2>0, <2>4 DEF BillFails, rowVars, bootVars
  <2>5. CASE ForceAccepted(m)
    BY <1>1, <2>0, <2>5, RowStatus DEF ForceAccepted, bootVars
  <2>6. CASE FailSend(m)
    BY <1>1, <2>0, <2>6, RowStatus DEF FailSend, bootVars
  <2>7. CASE StatementFails(m) \/ Disconnect(m)
    BY <1>1, <2>0, <2>7 DEF StatementFails, Disconnect, rowVars, bootVars
  <2>8. QED
    BY <2>1, <2>2, <2>3, <2>4, <2>5, <2>6, <2>7 DEF RequestStep
<1>4. QED
  BY <1>2, <1>3 DEF SyncInv

LEMMA RecoverInvStep ==
  ASSUME TypeOK, SyncInv, smpp' = smpp,
         NEW m \in Messages, Recover(m) \/ RecoverFails(m)
  PROVE  SyncInv'
<1> USE DEF TypeOK, Http, rowVars
<1>1. log[m] \in Row /\ boot' = boot
  BY DEF Recover, RecoverFails
<1>2. ASSUME NEW n \in Http, n # m PROVE MessageInv(n)'
  <2>1. /\ log'[n] = log[n] /\ pc'[n] = pc[n] /\ debits'[n] = debits[n]
        /\ credits'[n] = credits[n] /\ billed'[n] = billed[n]
        /\ (n \in leftover' <=> n \in leftover)
    BY <1>2 DEF Recover, RecoverFails
  <2>2. QED
    BY <1>1, <2>1 DEF SyncInv, MessageInv, Unsettled
<1>3. ASSUME m \in Http PROVE MessageInv(m)'
  <2>0. MessageInv(m)
    BY <1>3 DEF SyncInv
  <2>1. CASE Recover(m)
    BY <1>1, <2>0, <2>1, RowStatus DEF Recover, MessageInv, Unsettled, InFlight
  <2>2. CASE RecoverFails(m)
    BY <1>1, <2>0, <2>2 DEF RecoverFails, MessageInv, Unsettled, InFlight
  <2>3. QED
    BY <2>1, <2>2
<1>4. QED
  BY <1>2, <1>3 DEF SyncInv

LEMMA ReceiptInvStep ==
  ASSUME TypeOK, SyncInv, smpp' = smpp,
         NEW m \in Messages, NEW s \in Receipts, CarrierReceipt(m, s)
  PROVE  SyncInv'
<1> USE DEF TypeOK, Http, bootVars
<1>1. log[m] \in Row /\ s \in ReceiptStatuses
  BY SyncAssumption
<1>2. UNCHANGED <<debits, credits, billed, pc, boot, leftover>>
  BY DEF CarrierReceipt
<1>3. \A n \in Messages \ {m} : log'[n] = log[n]
  BY DEF CarrierReceipt
<1>4. \/ log'[m].status = log[m].status
      \/ /\ log'[m].status \in {"delivered", "failed", "rejected"}
         /\ log[m].status # "none"
  <2>1. log'[m] = UpdateDLRReceived(log[m], s)
    BY DEF CarrierReceipt
  <2>2. QED
    BY <1>1, <2>1, RowReceipt
<1>5. ASSUME m \in Http PROVE MessageInv(m)'
  <2>1. MessageInv(m)
    BY <1>5 DEF SyncInv
  <2>2. boot = "up" \/ log[m].status = "accepted"
    BY DEF CarrierReceipt
  <2>3. m \notin leftover
    BY <2>1, <2>2 DEF MessageInv
  <2>4. QED
    BY <1>1, <1>2, <1>4, <2>1, <2>3 DEF MessageInv, Unsettled, InFlight
<1>6. ASSUME NEW n \in Http, n # m PROVE MessageInv(n)'
  BY <1>2, <1>3, <1>6, Frame DEF SyncInv
<1>7. QED
  BY <1>5, <1>6 DEF SyncInv

\* Boot steps that touch no row.
LEMMA BootInvStep ==
  ASSUME TypeOK, SyncInv, smpp' = smpp,
         ListLeftovers \/ ListFails \/ OpenHTTP \/ Crash
  PROVE  SyncInv'
<1> SUFFICES ASSUME NEW m \in Http PROVE MessageInv(m)'
  BY DEF SyncInv, Http
<1>1. MessageInv(m)
  BY DEF SyncInv
<1>2. UNCHANGED <<log, debits, credits, billed>>
  BY DEF ListLeftovers, ListFails, OpenHTTP, Crash, rowVars
<1> USE DEF TypeOK, Http, MessageInv, Unsettled, InFlight
<1>3. CASE ListLeftovers
  BY <1>1, <1>2, <1>3 DEF ListLeftovers, StuckSending
<1>4. CASE ListFails \/ OpenHTTP
  BY <1>1, <1>2, <1>4 DEF ListFails, OpenHTTP
<1>5. CASE Crash
  BY <1>1, <1>2, <1>5 DEF Crash
<1>6. QED
  BY <1>3, <1>4, <1>5

LEMMA SyncInvStep == TypeOK /\ SyncInv /\ [Next]_vars => SyncInv'
<1> SUFFICES ASSUME TypeOK, SyncInv, [Next]_vars PROVE SyncInv'
  OBVIOUS
<1>0. smpp' = smpp
  BY DEF Next, vars
<1>1. CASE \E m \in Messages : RequestStep(m)
  BY <1>0, <1>1, RequestInvStep
<1>2. CASE BootStep \/ Crash
  BY <1>0, <1>2, RecoverInvStep, BootInvStep DEF BootStep
<1>3. CASE \E m \in Messages, s \in Receipts : CarrierReceipt(m, s)
  BY <1>0, <1>3, ReceiptInvStep
<1>4. CASE UNCHANGED vars
  BY <1>4 DEF vars, rowVars, bootVars, SyncInv, Http, MessageInv, Unsettled
<1>5. QED
  BY <1>1, <1>2, <1>3, <1>4 DEF Next

\* Whatever requests, receipts, crashes and boots interleave, the charge of a
\* message submitted over HTTP is settled at most once, and a refunded one is
\* closed.
THEOREM SyncSettledOnce == Spec => [](SyncInv /\ SettledOnce)
<1>1. Init => SyncInv
  BY DEF Init, SyncInv, Http, MessageInv, InFlight, NoRow
<1>2. SyncInv => SettledOnce
  BY DEF SyncInv, MessageInv, SettledOnce
<1>3. QED
  BY <1>1, <1>2, SyncTypeInit, SyncTypeStep, SyncInvStep, PTL DEF Spec

-----------------------------------------------------------------------------
(* Boot recovery beside the requests already served.                        *)

\* The third conjunct of RecoveryInv.
Accounted(m) ==
  log[m].status = "sending" /\ pc[m] = "idle" =>
    \/ boot = "list"
    \/ boot = "recover" /\ m \in leftover
    \/ m \in missed

LEMMA RecoveryParts ==
  RecoveryInv <=> \A m \in Messages :
                    /\ Spent(m) <= 2
                    /\ log[m].status = "none" => RowUnknown(m)
                    /\ Accounted(m)
  BY DEF RecoveryInv, Accounted

\* A step that settles nothing, starts no request and lists no row that was not
\* being sent, spends nothing.
LEMMA NothingSpent ==
  ASSUME TypeOK, TypeOK', NEW m \in Messages, Spent(m) <= 2,
         log[m].status = "none" => RowUnknown(m),
         credits'[m] = credits[m], billed'[m] = billed[m],
         pc'[m] \in InFlight => pc[m] \in InFlight,
         MayListed(m)' => MayListed(m),
         log'[m].status = "none" => log[m].status = "none",
         m \in leftover' => m \in leftover \/ log[m].status # "none"
  PROVE  Spent(m)' <= 2 /\ (log'[m].status = "none" => RowUnknown(m)')
<1>1. credits[m] \in Nat /\ billed[m] \in Nat
  BY DEF TypeOK
<1>2. Spent(m)' <= 2
  BY <1>1 DEF Spent
<1>3. QED
  BY <1>2 DEF RowUnknown

\* A request's last statement, or recovery's, spends its share.
LEMMA ShareSpent ==
  ASSUME TypeOK, TypeOK', NEW m \in Messages, Spent(m) <= 2,
         log'[m].status # "none",
         credits'[m] + billed'[m] <= credits[m] + billed[m] + 1,
         \/ /\ pc[m] \in InFlight /\ pc'[m] \notin InFlight
            /\ MayListed(m)' => MayListed(m)
         \/ /\ pc'[m] = pc[m]
            /\ MayListed(m) /\ ~MayListed(m)'
  PROVE  Spent(m)' <= 2 /\ (log'[m].status = "none" => RowUnknown(m)')
<1>1. credits[m] \in Nat /\ billed[m] \in Nat /\ credits'[m] \in Nat /\ billed'[m] \in Nat
  BY DEF TypeOK
<1>2. Spent(m)' <= 2
  <2>1. CASE pc[m] \in InFlight /\ pc'[m] \notin InFlight /\ (MayListed(m)' => MayListed(m))
    BY <1>1, <2>1 DEF Spent
  <2>2. CASE pc'[m] = pc[m] /\ MayListed(m) /\ ~MayListed(m)'
    BY <1>1, <2>2 DEF Spent
  <2>3. QED
    BY <2>1, <2>2
<1>3. QED
  BY <1>2

LEMMA RecoveryRequest ==
  ASSUME TypeOK, TypeOK', RecoveryInv, NEW m \in Messages, RequestStep(m)
  PROVE  /\ Spent(m)' <= 2
         /\ log'[m].status = "none" => RowUnknown(m)'
         /\ Accounted(m)'
<1>1. /\ Spent(m) <= 2 /\ (log[m].status = "none" => RowUnknown(m)) /\ log[m] \in Row
      /\ pc[m] \in InFlight \cup {"idle", "done"}
      /\ credits[m] \in Nat /\ billed[m] \in Nat
  BY RecoveryParts DEF TypeOK
<1>2. UNCHANGED <<boot, leftover>> /\ missed \subseteq missed'
  BY DEF RequestStep, Reserve, CarrierAccepts, CarriersFail, Bill, BillFails, ForceAccepted,
     FailSend, StatementFails, Disconnect, bootVars
<1>3. Accounted(m)'
  <2>1. pc'[m] # "idle"
    BY DEF TypeOK, RequestStep, Reserve, CarrierAccepts, CarriersFail, Bill, BillFails,
       ForceAccepted, FailSend, StatementFails, Disconnect, Goto
  <2>2. QED
    BY <2>1 DEF Accounted
<1>4. CASE Reserve(m)
  <2>1. /\ log'[m].status = "sending" /\ log[m].status = "none"
        /\ credits'[m] = 0 /\ billed'[m] = 0
    BY <1>1, <1>4, RowStatus DEF Reserve, RowUnknown, TypeOK
  <2>2. Spent(m)' <= 2
    BY <2>1 DEF Spent
  <2>3. QED
    BY <1>3, <2>1, <2>2
<1>5. CASE UNCHANGED rowVars
  <2>1. pc'[m] \in InFlight => pc[m] \in InFlight
    BY <1>1, <1>5 DEF RequestStep, Reserve, CarrierAccepts, CarriersFail, Bill, BillFails,
       ForceAccepted, FailSend, StatementFails, Disconnect, Goto, rowVars, InFlight, TypeOK
  <2>2. QED
    BY <1>1, <1>2, <1>3, <1>5, <2>1, NothingSpent DEF rowVars, MayListed
<1>6. CASE Bill(m)
  <2>1. /\ log'[m].status = "accepted" /\ credits'[m] = credits[m]
        /\ billed'[m] = billed[m] + 1 /\ pc[m] \in InFlight /\ pc'[m] \notin InFlight
    BY <1>1, <1>6, RowStatus DEF Bill, Goto, TypeOK, InFlight
  <2>2. credits'[m] + billed'[m] <= credits[m] + billed[m] + 1
    BY <1>1, <2>1
  <2>3. QED
    BY <1>1, <1>2, <1>3, <2>1, <2>2, ShareSpent DEF MayListed
<1>7. CASE ForceAccepted(m)
  <2>1. /\ \/ log'[m].status = "accepted"
           \/ log'[m] = log[m]
        /\ credits' = credits /\ billed' = billed /\ pc'[m] \notin InFlight
    BY <1>1, <1>7, RowStatus DEF ForceAccepted, Goto, TypeOK, InFlight
  <2>2. QED
    BY <1>1, <1>2, <1>3, <2>1, NothingSpent DEF MayListed
<1>8. CASE FailSend(m)
  <2>1. /\ log'[m].status = "failed" /\ billed' = billed
        /\ pc[m] \in InFlight /\ pc'[m] \notin InFlight
    BY <1>1, <1>8, RowStatus DEF FailSend, Goto, TypeOK, InFlight
  <2>2. credits' = credits \/ credits'[m] = credits[m] + 1
    BY <1>8 DEF FailSend, TypeOK
  <2>3. credits'[m] + billed'[m] <= credits[m] + billed[m] + 1
    BY <1>1, <2>1, <2>2
  <2>4. QED
    BY <1>1, <1>2, <1>3, <2>1, <2>3, ShareSpent DEF MayListed
<1>9. QED
  BY <1>4, <1>5, <1>6, <1>7, <1>8 DEF RequestStep, CarrierAccepts, CarriersFail, BillFails,
     StatementFails, Disconnect

LEMMA RecoveryStep ==
  ASSUME TypeOK, TypeOK', RecoveryInv, [Next]_vars
  PROVE  RecoveryInv'
<1> SUFFICES ASSUME NEW m \in Messages
             PROVE  /\ Spent(m)' <= 2
                    /\ log'[m].status = "none" => RowUnknown(m)'
                    /\ Accounted(m)'
  BY DEF RecoveryInv, Accounted
<1>1. /\ Spent(m) <= 2 /\ (log[m].status = "none" => RowUnknown(m)) /\ Accounted(m)
      /\ log[m] \in Row /\ credits[m] \in Nat /\ billed[m] \in Nat
  BY RecoveryParts DEF TypeOK
<1>same. ASSUME log'[m] = log[m], pc'[m] = pc[m], credits'[m] = credits[m],
                billed'[m] = billed[m], boot' = boot,
                m \in leftover' <=> m \in leftover, missed \subseteq missed'
         PROVE  /\ Spent(m)' <= 2
                /\ log'[m].status = "none" => RowUnknown(m)'
                /\ Accounted(m)'
  <2>1. Accounted(m)'
    BY <1>1, <1>same DEF Accounted
  <2>2. MayListed(m)' => MayListed(m)
    BY <1>same DEF MayListed
  <2>3. m \in leftover' => m \in leftover \/ log[m].status # "none"
    BY <1>same
  <2>4. Spent(m)' <= 2 /\ (log'[m].status = "none" => RowUnknown(m)')
    BY <1>1, <1>same, <2>2, <2>3, NothingSpent
  <2>5. QED
    BY <2>1, <2>4
<1>2. ASSUME NEW n \in Messages, RequestStep(n)
      PROVE  /\ Spent(m)' <= 2
             /\ log'[m].status = "none" => RowUnknown(m)'
             /\ Accounted(m)'
  <2>1. CASE n = m
    BY <1>2, <2>1, RecoveryRequest
  <2>2. CASE n # m
    <3>1. /\ log'[m] = log[m] /\ pc'[m] = pc[m] /\ credits'[m] = credits[m]
          /\ billed'[m] = billed[m] /\ boot' = boot /\ leftover' = leftover
          /\ missed' = missed
      BY <1>2, <2>2 DEF TypeOK, RequestStep, Reserve, CarrierAccepts, CarriersFail, Bill,
         BillFails, ForceAccepted, FailSend, StatementFails, Disconnect, Goto, rowVars, bootVars
    <3>2. QED
      BY <1>same, <3>1
  <2>3. QED
    BY <2>1, <2>2
<1>3. CASE ListLeftovers \/ ListFails \/ OpenHTTP
  <2>1. /\ UNCHANGED <<log, credits, billed, pc>>
        /\ m \in leftover' => m \in leftover \/ log[m].status = "sending"
    BY <1>3 DEF ListLeftovers, StuckSending, ListFails, OpenHTTP, rowVars
  <2>2. Accounted(m)'
    BY <1>1, <1>3, <2>1 DEF ListLeftovers, StuckSending, ListFails, OpenHTTP, Accounted
  <2>3. MayListed(m)' => MayListed(m)
    BY <2>1 DEF MayListed
  <2>4. QED
    BY <1>1, <2>1, <2>2, <2>3, NothingSpent
<1>4. ASSUME NEW n \in Messages, Recover(n)
      PROVE  /\ Spent(m)' <= 2
             /\ log'[m].status = "none" => RowUnknown(m)'
             /\ Accounted(m)'
  <2>1. CASE n = m
    <3>1. /\ log'[m].status = "undelivered" /\ m \in leftover /\ m \notin leftover'
          /\ credits'[m] = credits[m] + 1 /\ billed' = billed /\ pc' = pc
      BY <1>1, <1>4, <2>1, RowStatus DEF Recover, TypeOK
    <3>2. credits'[m] + billed'[m] <= credits[m] + billed[m] + 1
      BY <1>1, <3>1
    <3>3. MayListed(m) /\ ~MayListed(m)'
      BY <3>1 DEF MayListed
    <3>4. Accounted(m)'
      BY <3>1 DEF Accounted
    <3>5. QED
      BY <1>1, <3>1, <3>2, <3>3, <3>4, ShareSpent
  <2>2. CASE n # m
    BY <1>4, <1>same, <2>2 DEF Recover, TypeOK
  <2>3. QED
    BY <2>1, <2>2
<1>5. ASSUME NEW n \in Messages, RecoverFails(n)
      PROVE  /\ Spent(m)' <= 2
             /\ log'[m].status = "none" => RowUnknown(m)'
             /\ Accounted(m)'
  <2>1. /\ UNCHANGED <<log, credits, billed, pc, boot>>
        /\ leftover' = leftover \ {n} /\ missed' = missed \cup {n}
    BY <1>5 DEF RecoverFails, rowVars
  <2>2. Accounted(m)'
    BY <1>1, <2>1 DEF Accounted
  <2>3. MayListed(m)' => MayListed(m)
    BY <2>1 DEF MayListed
  <2>4. QED
    BY <1>1, <2>1, <2>2, <2>3, NothingSpent
<1>6. CASE Crash
  <2>1. /\ UNCHANGED <<log, credits, billed>> /\ leftover' = {} /\ boot' = "list"
        /\ pc'[m] = "idle"
    BY <1>6 DEF Crash, rowVars
  <2>2. Accounted(m)' /\ (MayListed(m)' => MayListed(m)) /\ pc'[m] \notin InFlight
    BY <2>1 DEF Accounted, MayListed, InFlight
  <2>3. QED
    BY <1>1, <2>1, <2>2, NothingSpent
<1>7. ASSUME NEW n \in Messages, NEW s \in Receipts, CarrierReceipt(n, s)
      PROVE  /\ Spent(m)' <= 2
             /\ log'[m].status = "none" => RowUnknown(m)'
             /\ Accounted(m)'
  <2>1. UNCHANGED <<credits, billed, pc, boot, leftover, missed>>
    BY <1>7 DEF CarrierReceipt, bootVars
  <2>2. log'[m] = log[m] \/ log'[m] = UpdateDLRReceived(log[m], s)
    BY <1>7 DEF CarrierReceipt, TypeOK
  <2>3. s \in ReceiptStatuses
    BY SyncAssumption
  <2>4. \/ log'[m].status = log[m].status
        \/ log'[m].status \in {"delivered", "failed", "rejected"}
    BY <1>1, <2>2, <2>3, RowReceipt
  <2>5. Accounted(m)' /\ (MayListed(m)' => MayListed(m))
    BY <1>1, <2>1, <2>4 DEF Accounted, MayListed
  <2>6. QED
    BY <1>1, <2>1, <2>4, <2>5, NothingSpent
<1>8. CASE UNCHANGED vars
  BY <1>8, <1>same DEF vars, rowVars, bootVars
<1>9. QED
  BY <1>2, <1>3, <1>4, <1>5, <1>6, <1>7, <1>8 DEF Next, BootStep

\* Once HTTP is open, whatever still shows as being sent belongs to a request
\* of this process or is a row recovery failed on; and serving SMPP submits
\* during recovery costs a message one settlement too many at most, even if
\* recovery is interrupted and repeated any number of times.
THEOREM RecoveryIsComplete == Spec => []RecoverySettles
<1>1. Init => RecoveryInv
  BY DEF Init, RecoveryInv, Spent, MayListed, RowUnknown, InFlight, NoRow
<1>2. TypeOK /\ TypeOK' /\ RecoveryInv /\ [Next]_vars => RecoveryInv'
  BY RecoveryStep
<1>3. TypeOK /\ RecoveryInv => RecoverySettles
  <2> SUFFICES ASSUME TypeOK, RecoveryInv PROVE RecoverySettles
    OBVIOUS
  <2>1. LeftoversRecovered
    BY DEF RecoveryInv, LeftoversRecovered
  <2>2. ASSUME NEW m \in smpp PROVE credits[m] + billed[m] <= 2
    <3>1. m \in Messages /\ Spent(m) <= 2 /\ credits[m] \in Nat /\ billed[m] \in Nat
      BY DEF RecoveryInv, TypeOK
    <3>2. QED
      BY <3>1 DEF Spent
  <2>3. QED
    BY <2>1, <2>2 DEF RecoverySettles, OneExtraSettlement
<1>4. QED
  BY <1>1, <1>2, <1>3, SyncTypeOK, PTL DEF Spec

-----------------------------------------------------------------------------
(* Refinement of the prepaid contract.                                      *)

LEMMA SyncPrepaidStep ==
  TypeOK /\ SyncInv /\ [Next]_vars => (smpp = {} => [P!Next]_(P!prepaidVars))
<1> SUFFICES ASSUME TypeOK, SyncInv, [Next]_vars, smpp = {} PROVE [P!Next]_(P!prepaidVars)
  OBVIOUS
<1> USE DEF TypeOK, Http
<1>1. ASSUME NEW m \in Messages, Reserve(m) PROVE P!Reserve(m)
  <2>1. debits[m] = 0 /\ credits[m] = 0 /\ billed[m] = 0
    BY <1>1 DEF Reserve, SyncInv, MessageInv
  <2>2. Account(m) = "none" /\ Account(m)' = "held"
    BY <1>1, <2>1 DEF Reserve, Account
  <2>3. \A n \in Messages \ {m} : Account(n)' = Account(n)
    BY <1>1 DEF Reserve, Account
  <2>4. QED
    BY <1>1, <2>2, <2>3 DEF Reserve, P!Reserve
<1>2. ASSUME NEW m \in Messages, Bill(m) PROVE P!Sell(m)
  <2>1. debits[m] = 1 /\ credits[m] = 0 /\ billed[m] = 0
    BY <1>2 DEF Bill, SyncInv, MessageInv, Unsettled, InFlight
  <2>2. Account(m) = "held" /\ Account(m)' = "sold"
    BY <1>2, <2>1 DEF Bill, Account
  <2>3. \A n \in Messages \ {m} : Account(n)' = Account(n)
    BY <1>2 DEF Bill, Account
  <2>4. QED
    BY <1>2, <2>2, <2>3 DEF Bill, P!Sell
<1>3. ASSUME NEW m \in Messages, credits' = [credits EXCEPT ![m] = @ + 1],
             balance' = balance + Charge[m], UNCHANGED <<debits, billed>>,
             debits[m] = 1, credits[m] = 0, billed[m] = 0
      PROVE  P!Return(m)
  <2>1. Account(m) = "held" /\ Account(m)' = "returned"
    BY <1>3 DEF Account
  <2>2. \A n \in Messages \ {m} : Account(n)' = Account(n)
    BY <1>3 DEF Account
  <2>3. QED
    BY <1>3, <2>1, <2>2 DEF P!Return
<1>4. CASE UNCHANGED <<balance, debits, credits, billed>>
  BY <1>4 DEF P!prepaidVars, Account
<1>5. ASSUME NEW m \in Messages, FailSend(m) PROVE [P!Next]_(P!prepaidVars)
  <2>1. debits[m] = 1 /\ credits[m] = 0 /\ billed[m] = 0
    BY <1>5 DEF FailSend, SyncInv, MessageInv, Unsettled, InFlight
  <2>2. QED
    BY <1>3, <1>4, <1>5, <2>1 DEF FailSend, P!Next
<1>6. ASSUME NEW m \in Messages, Recover(m) PROVE P!Return(m)
  <2>1. debits[m] = 1 /\ credits[m] = 0 /\ billed[m] = 0
    BY <1>6 DEF Recover, SyncInv, MessageInv
  <2>2. QED
    BY <1>3, <1>6, <2>1 DEF Recover
<1>7. QED
  BY <1>1, <1>2, <1>4, <1>5, <1>6 DEF P!Next, Next, RequestStep, BootStep, CarrierAccepts,
     CarriersFail, BillFails, ForceAccepted, StatementFails, Disconnect, ListLeftovers,
     ListFails, RecoverFails, OpenHTTP, Crash, CarrierReceipt, vars, rowVars

\* The synchronous path, boot recovery included, is prepaid.
THEOREM SyncImplementsPrepaid == Spec => ImplementsPrepaid
<1>1. Init => (smpp = {} => P!Init)
  BY DEF Init, P!Init, Account
<1>2. Spec => []TypeOK
  BY SyncTypeOK
<1>3. Spec => []SyncInv
  BY SyncSettledOnce, PTL
<1>4. TypeOK /\ SyncInv /\ [Next]_vars => [smpp = {} => [P!Next]_(P!prepaidVars)]_vars
  BY SyncPrepaidStep
<1>5. QED
  BY <1>1, <1>2, <1>3, <1>4, PTL DEF Spec, ImplementsPrepaid
=============================================================================

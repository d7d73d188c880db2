--------------------------- MODULE SendQueueProofs --------------------------
(***************************************************************************)
(* For any number of messages, workers and faults, any prices and any      *)
(* batch size: until a live worker's claim outlasts the stuck window,      *)
(* claims are exclusive, every message is settled at most once, and the    *)
(* queue implements the prepaid contract; from then on each such claim     *)
(* costs at most one more of each.                                         *)
(***************************************************************************)
EXTENDS SendQueue, SmsLogProofs, FiniteSetTheorems

LEMMA UndeliveredIsReceipt == "undelivered" \in ReceiptStatuses
  BY DEF ReceiptStatuses, Finals

LEMMA QueueTypeStep == TypeOK /\ CurIsClaimed /\ [Next]_vars => TypeOK'
<1> SUFFICES ASSUME TypeOK, CurIsClaimed, [Next]_vars PROVE TypeOK'
  OBVIOUS
<1>cur. ASSUME NEW w \in Workers, pc[w] # "loop" PROVE cur[w] \in Messages
  BY <1>cur DEF CurIsClaimed, TypeOK
<1> USE QueueAssumption DEF TypeOK, Steps, rowVars, workerVars, wireVars, faultVars
<1>1. ASSUME NEW m \in Messages, Enqueue(m) PROVE TypeOK'
  BY <1>1, RowClosed DEF Enqueue
<1>2. ASSUME NEW w \in Workers, WorkerStep(w) PROVE TypeOK'
  <2>1. CASE Claim(w)
    <3>1. PICK S \in SUBSET Messages :
            /\ log' = [m \in Messages |-> IF m \in S THEN ClaimForSend(log[m]) ELSE log[m]]
            /\ claimed' = [claimed EXCEPT ![w] = S]
            /\ late' = [late EXCEPT ![w] = {m \in S : log[m].expired}]
      BY <2>1 DEF Claim
    <3>2. \A m \in Messages : ClaimForSend(log[m]) \in Row
      BY RowClosed
    <3>3. log' \in [Messages -> Row]
      BY <3>1, <3>2
    <3>4. QED
      BY <2>1, <3>1, <3>3 DEF Claim
  <2>2. CASE Take(w)
    BY <2>2 DEF Take, Route, Goto
  <2>3. CASE CarrierAccepts(w) \/ CarriersFail(w)
    <3>1. cur[w] \in Messages
      BY <2>3, <1>cur DEF CarrierAccepts, CarriersFail
    <3>2. QED
      BY <2>3, <3>1 DEF CarrierAccepts, CarriersFail, Goto
  <2>4. CASE Requeue(w)
    BY <2>4, RowClosed DEF Requeue, Finish, Goto
  <2>5. CASE Bill(w)
    <3>1. cur[w] \in Messages
      BY <2>5, <1>cur DEF Bill
    <3>2. QED
      BY <2>5, <3>1, RowClosed DEF Bill, Finish, Goto
  <2>6. CASE BillFails(w)
    BY <2>6 DEF BillFails, Goto
  <2>7. CASE ForceAccepted(w)
    BY <2>7, RowClosed DEF ForceAccepted, Finish, Goto
  <2>8. CASE Refund(w)
    <3>1. cur[w] \in Messages
      BY <2>8, <1>cur DEF Refund
    <3>2. QED
      BY <2>8, <3>1, RowClosed DEF Refund, Goto
  <2>9. CASE Notify(w)
    BY <2>9, UndeliveredIsReceipt, RowClosed DEF Notify, Finish, Goto
  <2>10. QED
    BY <1>2, <2>1, <2>2, <2>3, <2>4, <2>5, <2>6, <2>7, <2>8, <2>9 DEF WorkerStep
<1>3. ASSUME NEW w \in Workers, StatementFails(w) PROVE TypeOK'
  BY <1>3 DEF StatementFails, Fault, Finish, Goto
<1>4. CASE Reap
  <2>1. \A m \in Messages : ReapStuckSending(log[m]) \in Row
    BY RowClosed
  <2>2. QED
    BY <1>4, <2>1 DEF Reap
<1>5. CASE Crash
  BY <1>5 DEF Crash, Fault
<1>6. ASSUME NEW m \in Messages, NEW s \in Receipts, CarrierReceipt(m, s) PROVE TypeOK'
  BY <1>6, RowClosed DEF CarrierReceipt
<1>7. ASSUME NEW m \in Messages, Clock(m) PROVE TypeOK'
  <2>1. PICK row \in Row : Tick(m, row)
    <3>1. /\ [log[m] EXCEPT !.due = TRUE] \in Row
          /\ [log[m] EXCEPT !.expired = TRUE] \in Row
          /\ [log[m] EXCEPT !.claim = "stale"] \in Row
      <4>1. log[m] \in Row
        OBVIOUS
      <4>2. QED
        BY <4>1 DEF Row
    <3>2. QED
      BY <1>7, <3>1 DEF Clock, BackoffElapses, ValidityEnds, ClaimGoesStale
  <2>2. QED
    BY <2>1 DEF Tick
<1>8. ASSUME NEW m \in Messages, Outlasts(m) PROVE TypeOK'
  <2>1. log[m] \in Row
    OBVIOUS
  <2>2. [log[m] EXCEPT !.claim = "stale"] \in Row
    BY <2>1 DEF Row
  <2>3. log' = [log EXCEPT ![m] = [log[m] EXCEPT !.claim = "stale"]]
    BY <1>8, <2>1 DEF Outlasts, Row
  <2>4. QED
    BY <1>8, <2>2, <2>3 DEF Outlasts
<1>9. CASE UNCHANGED vars
  BY <1>9 DEF vars
<1>10. QED
  BY <1>1, <1>2, <1>3, <1>4, <1>5, <1>6, <1>7, <1>8, <1>9 DEF Next

\* A worker only ever works on a row its last claim returned.
LEMMA CurStep == TypeOK /\ CurIsClaimed /\ [Next]_vars => CurIsClaimed'
<1> SUFFICES ASSUME TypeOK, CurIsClaimed, [Next]_vars PROVE CurIsClaimed'
  OBVIOUS
<1> USE DEF TypeOK, CurIsClaimed, workerVars
<1>1. ASSUME NEW w \in Workers, Claim(w) \/ Take(w) PROVE CurIsClaimed'
  BY <1>1 DEF Claim, Take, Route, Goto
<1>2. ASSUME NEW w \in Workers, CarrierAccepts(w) \/ CarriersFail(w) \/ BillFails(w) \/ Refund(w)
      PROVE  CurIsClaimed'
  BY <1>2 DEF CarrierAccepts, CarriersFail, BillFails, Refund, Goto
<1>3. ASSUME NEW w \in Workers, Finish(w) PROVE CurIsClaimed'
  BY <1>3 DEF Finish, Goto
<1>4. CASE Crash
  BY <1>4 DEF Crash
<1>5. CASE UNCHANGED workerVars
  BY <1>5
<1>6. QED
  BY <1>1, <1>2, <1>3, <1>4, <1>5 DEF Next, WorkerStep, Enqueue, Requeue, Bill, ForceAccepted,
     Notify, StatementFails, Reap, CarrierReceipt, Clock, BackoffElapses, ValidityEnds,
     ClaimGoesStale, Outlasts, Tick, vars

LEMMA QueueTypeInit == Init => TypeOK /\ CurIsClaimed
  BY QueueAssumption, RowClosed
     DEF Init, TypeOK, CurIsClaimed, Steps, Row, NoRow, Statuses

\* Type correctness of the queue's state (rows, ledger counters, workers).
THEOREM QueueTypeOK == Spec => [](TypeOK /\ CurIsClaimed)
  BY QueueTypeInit, QueueTypeStep, CurStep, PTL DEF Spec

-----------------------------------------------------------------------------
(* The inductive invariant, one action at a time.                          *)

\* Steps that post nothing to the ledgers keep the ledgers' part of the
\* invariant if they bring no row into existence, put back into the queue only
\* what was never settled, and accept nothing that was refunded.
LEMMA RowsOnly ==
  ASSUME TypeOK, OwnerInv, UNCHANGED <<debits, credits, billed>>,
         \A m \in Messages :
           /\ log'[m].status = "none" <=> log[m].status = "none"
           /\ log'[m].status \in {"queued", "sending"} => credits[m] = 0 /\ billed[m] = 0
           /\ log'[m].status = "accepted" => credits[m] = 0
  PROVE  InQueueUnsettled' /\ DebitedOnce' /\ SettledSingly' /\ RefundLeavesQueue'
<1> USE DEF TypeOK, OwnerInv
<1>1. InQueueUnsettled'
  BY DEF InQueueUnsettled
<1>2. DebitedOnce'
  BY DEF DebitedOnce
<1>3. SettledSingly'
  BY DEF SettledSingly
<1>4. RefundLeavesQueue'
  BY DEF RefundLeavesQueue
<1>5. QED
  BY <1>1, <1>2, <1>3, <1>4

\* Steps that change neither the rows nor the ledgers.
LEMMA WireStep ==
  ASSUME TypeOK, OwnerInv, NEW w \in Workers,
         Take(w) \/ CarrierAccepts(w) \/ CarriersFail(w) \/ BillFails(w)
  PROVE  OwnerInv'
<1> USE DEF TypeOK, OwnerInv, rowVars
<1>1. /\ UNCHANGED <<log, credits, billed, debits, claimed>>
      /\ pc[w] # "notify" /\ pc'[w] # "notify"
      /\ \A v \in Workers \ {w} : pc'[v] = pc[v] /\ cur'[v] = cur[v]
  BY DEF Take, Route, Goto, CarrierAccepts, CarriersFail, BillFails
<1>2. CurIsClaimed'
  BY DEF CurIsClaimed, Take, Route, Goto, CarrierAccepts, CarriersFail, BillFails
<1>3. ASSUME NEW m \in Messages
      PROVE  (Unsettled(m) => Unsettled(m)') /\ (Refunded(m) => Refunded(m)')
  BY <1>1 DEF Unsettled, Refunded
<1>4. ClaimsAreUnsettled'
  BY <1>1, <1>3 DEF ClaimsAreUnsettled
<1>5. QED
  BY <1>1, <1>2, <1>4 DEF OneHolder, InQueueUnsettled, DebitedOnce, SettledSingly,
     RefundLeavesQueue

LEMMA EnqueueStep ==
  ASSUME TypeOK, OwnerInv, NEW m \in Messages, Enqueue(m)
  PROVE  OwnerInv'
<1> USE DEF TypeOK, OwnerInv, workerVars
<1>1. \A w \in Workers : m \notin claimed[w]
  BY DEF Enqueue, ClaimsAreUnsettled, Unsettled, Refunded
<1>2. /\ log' = [log EXCEPT ![m] = StampQueued(log[m])]
      /\ StampQueued(log[m]).status = "queued"
      /\ log[m].status = "none"
  BY RowStatus DEF Enqueue
<1>3. ClaimsAreUnsettled'
  BY <1>1, <1>2 DEF Enqueue, ClaimsAreUnsettled, Unsettled, Refunded
<1>4. InQueueUnsettled' /\ SettledSingly' /\ RefundLeavesQueue'
  BY <1>2 DEF Enqueue, InQueueUnsettled, SettledSingly, RefundLeavesQueue
<1>5. DebitedOnce'
  BY <1>2 DEF Enqueue, DebitedOnce
<1>6. QED
  BY <1>3, <1>4, <1>5 DEF Enqueue, OneHolder, CurIsClaimed

LEMMA ClaimStep ==
  ASSUME TypeOK, OwnerInv, NEW w \in Workers, Claim(w)
  PROVE  OwnerInv'
<1> USE DEF TypeOK, OwnerInv
<1>1. PICK S \in SUBSET {m \in Messages : Claimable(log[m])} :
        /\ log' = [m \in Messages |-> IF m \in S THEN ClaimForSend(log[m]) ELSE log[m]]
        /\ claimed' = [claimed EXCEPT ![w] = S]
  BY DEF Claim
<1>2. /\ \A m \in S : m \in Messages /\ log[m].status = "queued"
      /\ \A m \in S : log'[m].status = "sending" /\ log'[m].claim = "fresh"
      /\ \A m \in Messages \ S : log'[m] = log[m]
  BY <1>1, RowStatus DEF Claimable
<1>3. \A v \in Workers : claimed[v] \cap S = {}
  BY <1>2 DEF ClaimsAreUnsettled, Unsettled, Refunded
<1>4. OneHolder'
  BY <1>1, <1>3 DEF OneHolder
<1>5. UNCHANGED <<pc, cur, debits, credits, billed>> /\ pc[w] = "loop"
  BY DEF Claim
<1>6. ClaimsAreUnsettled'
  <2>1. ASSUME NEW m \in S PROVE Unsettled(m)'
    BY <1>2, <1>5, <2>1 DEF Unsettled, InQueueUnsettled
  <2>2. ASSUME NEW v \in Workers \ {w}, NEW m \in claimed[v]
        PROVE  (Unsettled(m) => Unsettled(m)') /\ (Refunded(m) => Refunded(m)')
    <3>1. log'[m] = log[m]
      BY <1>2, <1>3
    <3>2. QED
      BY <1>5, <3>1 DEF Unsettled, Refunded
  <2>3. QED
    BY <1>1, <1>5, <2>1, <2>2 DEF ClaimsAreUnsettled
<1>7. ASSUME NEW m \in Messages
       PROVE  \/ log'[m] = log[m]
              \/ log[m].status = "queued" /\ log'[m].status = "sending"
  BY <1>2
<1>8. InQueueUnsettled' /\ DebitedOnce' /\ SettledSingly' /\ RefundLeavesQueue'
  BY <1>5, <1>7 DEF InQueueUnsettled, DebitedOnce, SettledSingly, RefundLeavesQueue
<1>9. CurIsClaimed'
  BY <1>1 DEF Claim, CurIsClaimed
<1>10. QED
  BY <1>4, <1>6, <1>8, <1>9

\* A worker finishing with its row gives up its claim on it and nothing else.
LEMMA FinishClaims ==
  ASSUME TypeOK, OwnerInv, NEW w \in Workers, pc[w] # "loop", Finish(w)
  PROVE  /\ cur[w] \in claimed[w] /\ cur[w] \in Messages
         /\ OneHolder' /\ CurIsClaimed'
         /\ \A v \in Workers : claimed'[v] \subseteq claimed[v] /\ cur[w] \notin claimed'[v]
         /\ \A v \in Workers \ {w} : pc'[v] = pc[v] /\ cur'[v] = cur[v]
         /\ pc'[w] = "loop"
<1> USE DEF TypeOK, OwnerInv, Finish, Goto
<1>1. cur[w] \in claimed[w] /\ cur[w] \in Messages
  BY DEF CurIsClaimed
<1>2. QED
  BY <1>1 DEF CurIsClaimed, OneHolder

\* Finishing steps that refund and bill nothing and leave the row as it is,
\* or as RequeueSMS, ForceMarkAccepted or a receipt leaves it.
LEMMA FinishStep ==
  ASSUME TypeOK, OwnerInv, NEW w \in Workers,
         Requeue(w) \/ ForceAccepted(w) \/ Notify(w) \/ StatementFails(w)
  PROVE  OwnerInv'
<1> USE DEF TypeOK, OwnerInv, rowVars
<1>1. /\ pc[w] # "loop" /\ Finish(w)
      /\ UNCHANGED <<balance, debits, credits, billed>>
  BY DEF Requeue, ForceAccepted, Notify, StatementFails
<1> DEFINE m == cur[w]
<1>2. m \in claimed[w] /\ m \in Messages
  BY <1>1, FinishClaims
<1>3. \A n \in Messages \ {m} : log'[n] = log[n]
  BY <1>2 DEF Requeue, ForceAccepted, Notify, StatementFails
<1>4. ClaimsAreUnsettled'
  <2>1. ASSUME NEW v \in Workers, NEW n \in claimed'[v]
        PROVE  IF pc'[v] = "notify" /\ cur'[v] = n THEN Refunded(n)' ELSE Unsettled(n)'
    <3>1. n \in claimed[v] /\ n # m /\ n \in Messages
      BY <1>1, <2>1, FinishClaims
    <3>2. CASE v = w
      BY <1>1, <1>3, <3>1, <3>2, FinishClaims DEF ClaimsAreUnsettled, Unsettled, Refunded
    <3>3. CASE v # w
      BY <1>1, <1>3, <3>1, <3>3, FinishClaims DEF ClaimsAreUnsettled, Unsettled, Refunded
    <3>4. QED
      BY <3>2, <3>3
  <2>2. QED
    BY <2>1 DEF ClaimsAreUnsettled
<1>5. /\ log[m].status # "none" /\ log'[m].status # "none"
      /\ log'[m].status = "queued" => credits[m] = 0 /\ billed[m] = 0
      /\ log'[m].status = "sending" => log[m].status = "sending"
      /\ log'[m].status = "accepted" => credits[m] = 0
  <2>1. log[m] \in Row
    BY <1>2
  <2>2. CASE StatementFails(w)
    <3>1. log' = log
      BY <2>2 DEF StatementFails
    <3>2. Unsettled(m) \/ Refunded(m)
      BY <1>2 DEF ClaimsAreUnsettled
    <3>3. CASE Unsettled(m)
      BY <3>1, <3>3 DEF Unsettled
    <3>4. CASE Refunded(m)
      BY <3>1, <3>4 DEF Refunded
    <3>5. QED
      BY <3>2, <3>3, <3>4
  <2>3. CASE Notify(w)
    <3>1. Refunded(m) /\ log' = [log EXCEPT ![m] = UpdateDLRReceived(log[m], "undelivered")]
      BY <1>2, <2>3 DEF Notify, ClaimsAreUnsettled
    <3>2. log'[m].status \in {log[m].status, "delivered", "failed", "rejected"}
      BY <1>2, <2>1, <3>1, RowReceipt, UndeliveredIsReceipt
    <3>3. QED
      BY <3>1, <3>2 DEF Refunded
  <2>4. CASE Requeue(w) \/ ForceAccepted(w)
    <3>1. Unsettled(m)
      BY <1>2, <2>4 DEF Requeue, ForceAccepted, ClaimsAreUnsettled
    <3>2. log'[m].status \in {log[m].status, "queued", "accepted"}
      BY <1>2, <2>1, <2>4, RowStatus DEF Requeue, ForceAccepted
    <3>3. log'[m].status = "sending" => log[m].status = "sending"
      BY <3>2
    <3>4. QED
      BY <3>1, <3>2, <3>3 DEF Unsettled
  <2>5. QED
    BY <2>2, <2>3, <2>4
<1>6. ASSUME NEW n \in Messages
      PROVE  /\ log'[n].status = "none" <=> log[n].status = "none"
             /\ log'[n].status \in {"queued", "sending"} => credits[n] = 0 /\ billed[n] = 0
             /\ log'[n].status = "accepted" => credits[n] = 0
  <2>1. CASE n = m
    BY <1>2, <1>5, <2>1 DEF InQueueUnsettled
  <2>2. CASE n # m
    BY <1>3, <2>2 DEF InQueueUnsettled, RefundLeavesQueue
  <2>3. QED
    BY <2>1, <2>2
<1>7. InQueueUnsettled' /\ DebitedOnce' /\ SettledSingly' /\ RefundLeavesQueue'
  BY <1>1, <1>6, RowsOnly
<1>8. QED
  BY <1>1, <1>4, <1>7, FinishClaims

\* The carrier is billed for a row nobody settled before.
LEMMA BillStep ==
  ASSUME TypeOK, OwnerInv, NEW w \in Workers, Bill(w)
  PROVE  OwnerInv'
<1> USE DEF TypeOK, OwnerInv
<1>1. /\ pc[w] = "bill" /\ Finish(w)
      /\ UNCHANGED <<debits, credits>>
  BY DEF Bill
<1> DEFINE m == cur[w]
<1>2. m \in claimed[w] /\ m \in Messages
  BY <1>1, FinishClaims
<1>3. Unsettled(m)
  BY <1>1, <1>2 DEF ClaimsAreUnsettled
<1>4. /\ log'[m].status = "accepted" /\ billed'[m] = 1 /\ credits[m] = 0
      /\ \A n \in Messages \ {m} : log'[n] = log[n] /\ billed'[n] = billed[n]
  BY <1>2, <1>3, RowStatus DEF Bill, Unsettled
<1>5. ClaimsAreUnsettled'
  <2>1. ASSUME NEW v \in Workers, NEW n \in claimed'[v]
        PROVE  IF pc'[v] = "notify" /\ cur'[v] = n THEN Refunded(n)' ELSE Unsettled(n)'
    <3>1. n \in claimed[v] /\ n # m /\ n \in Messages
      BY <1>1, <2>1, FinishClaims
    <3>2. (Unsettled(n) => Unsettled(n)') /\ (Refunded(n) => Refunded(n)')
      BY <1>1, <1>4, <3>1 DEF Unsettled, Refunded
    <3>3. CASE v = w
      BY <1>1, <3>1, <3>2, <3>3, FinishClaims DEF ClaimsAreUnsettled
    <3>4. CASE v # w
      BY <1>1, <3>1, <3>2, <3>4, FinishClaims DEF ClaimsAreUnsettled
    <3>5. QED
      BY <3>3, <3>4
  <2>2. QED
    BY <2>1 DEF ClaimsAreUnsettled
<1>6. InQueueUnsettled'
  BY <1>1, <1>4 DEF InQueueUnsettled
<1>7. DebitedOnce'
  BY <1>1, <1>2, <1>3, <1>4 DEF DebitedOnce, Unsettled
<1>8. SettledSingly' /\ RefundLeavesQueue'
  BY <1>1, <1>4 DEF SettledSingly, RefundLeavesQueue
<1>9. QED
  BY <1>1, <1>5, <1>6, <1>7, <1>8, FinishClaims

\* The charge is returned for a row nobody settled before.
LEMMA RefundStep ==
  ASSUME TypeOK, OwnerInv, NEW w \in Workers, Refund(w)
  PROVE  OwnerInv'
<1> USE DEF TypeOK, OwnerInv
<1>1. /\ pc[w] = "refund" /\ pc'[w] = "notify"
      /\ UNCHANGED <<debits, billed, claimed, cur>>
      /\ \A v \in Workers \ {w} : pc'[v] = pc[v]
  BY DEF Refund, Goto
<1> DEFINE m == cur[w]
<1>2. m \in claimed[w] /\ m \in Messages
  BY <1>1 DEF CurIsClaimed
<1>3. Unsettled(m)
  BY <1>1, <1>2 DEF ClaimsAreUnsettled
<1>4. /\ log'[m].status = "undelivered" /\ credits'[m] = 1 /\ billed[m] = 0
      /\ \A n \in Messages \ {m} : log'[n] = log[n] /\ credits'[n] = credits[n]
  BY <1>2, <1>3, RowStatus DEF Refund, Unsettled
<1>5. ClaimsAreUnsettled'
  <2>1. Refunded(m)'
    BY <1>1, <1>4 DEF Refunded
  <2>2. ASSUME NEW n \in Messages, n # m
        PROVE  (Unsettled(n) => Unsettled(n)') /\ (Refunded(n) => Refunded(n)')
    BY <1>1, <1>4, <2>2 DEF Unsettled, Refunded
  <2>3. \A v \in Workers \ {w} : m \notin claimed[v]
    BY <1>2 DEF OneHolder
  <2>4. ASSUME NEW v \in Workers, NEW n \in claimed'[v]
        PROVE  IF pc'[v] = "notify" /\ cur'[v] = n THEN Refunded(n)' ELSE Unsettled(n)'
    <3>1. CASE v = w
      BY <1>1, <2>1, <2>2, <3>1 DEF ClaimsAreUnsettled
    <3>2. CASE v # w
      BY <1>1, <2>2, <2>3, <3>2 DEF ClaimsAreUnsettled
    <3>3. QED
      BY <3>1, <3>2
  <2>5. QED
    BY <2>4 DEF ClaimsAreUnsettled
<1>6. InQueueUnsettled'
  BY <1>1, <1>4 DEF InQueueUnsettled
<1>7. DebitedOnce'
  BY <1>1, <1>2, <1>3, <1>4 DEF DebitedOnce, Unsettled
<1>8. SettledSingly' /\ RefundLeavesQueue'
  BY <1>1, <1>4 DEF SettledSingly, RefundLeavesQueue
<1>9. OneHolder' /\ CurIsClaimed'
  BY <1>1 DEF OneHolder, CurIsClaimed
<1>10. QED
  BY <1>5, <1>6, <1>7, <1>8, <1>9

\* The reaper leaves every claimed row alone: their claims are fresh.
LEMMA ReapStep ==
  ASSUME TypeOK, OwnerInv, Reap
  PROVE  OwnerInv'
<1> USE DEF TypeOK, OwnerInv
<1>1. UNCHANGED <<debits, credits, billed, pc, claimed, cur>>
  BY DEF Reap, workerVars
<1>2. ASSUME NEW m \in Messages
      PROVE  \/ log'[m] = log[m]
             \/ /\ log[m].status = "sending" /\ log[m].claim # "fresh"
                /\ log'[m].status = "queued"
  BY RowStatus DEF Reap
<1>3. InQueueUnsettled' /\ DebitedOnce' /\ SettledSingly' /\ RefundLeavesQueue'
  <2>1. ASSUME NEW m \in Messages
        PROVE  /\ log'[m].status = "none" <=> log[m].status = "none"
               /\ log'[m].status \in {"queued", "sending"} => credits[m] = 0 /\ billed[m] = 0
               /\ log'[m].status = "accepted" => credits[m] = 0
    BY <1>2 DEF InQueueUnsettled, RefundLeavesQueue
  <2>2. QED
    BY <1>1, <2>1, RowsOnly
<1>4. ClaimsAreUnsettled'
  <2>1. ASSUME NEW m \in Messages
        PROVE  (Unsettled(m) => Unsettled(m)') /\ (Refunded(m) => Refunded(m)')
    BY <1>1, <1>2 DEF Unsettled, Refunded
  <2>2. QED
    BY <1>1, <2>1 DEF ClaimsAreUnsettled
<1>5. QED
  BY <1>1, <1>3, <1>4 DEF OneHolder, CurIsClaimed

\* A new process has no claims.
LEMMA CrashStep ==
  ASSUME TypeOK, OwnerInv, Crash
  PROVE  OwnerInv'
<1> USE DEF TypeOK, OwnerInv
<1>1. UNCHANGED <<log, debits, credits, billed>>
  BY DEF Crash, rowVars
<1>2. OneHolder' /\ CurIsClaimed' /\ ClaimsAreUnsettled'
  BY DEF Crash, OneHolder, CurIsClaimed, ClaimsAreUnsettled
<1>3. QED
  BY <1>1, <1>2 DEF InQueueUnsettled, DebitedOnce, SettledSingly, RefundLeavesQueue

\* A receipt or the clock changes one row, keeping its status or taking it to
\* a receipt's, and never ages the claim of a row a worker holds.
LEMMA RowEventStep ==
  ASSUME TypeOK, OwnerInv, NEW m \in Messages,
         UNCHANGED <<debits, credits, billed, pc, claimed, cur>>,
         \A n \in Messages \ {m} : log'[n] = log[n],
         \/ log'[m].status = log[m].status
         \/ /\ log'[m].status \in {"delivered", "failed", "rejected"}
            /\ log[m].status # "none",
         \/ log'[m].claim = log[m].claim
         \/ \A w \in Workers : m \notin claimed[w]
  PROVE  OwnerInv'
<1> USE DEF TypeOK, OwnerInv
<1>1. InQueueUnsettled' /\ DebitedOnce' /\ SettledSingly' /\ RefundLeavesQueue'
  <2>1. ASSUME NEW n \in Messages
        PROVE  /\ log'[n].status = "none" <=> log[n].status = "none"
               /\ log'[n].status \in {"queued", "sending"} => credits[n] = 0 /\ billed[n] = 0
               /\ log'[n].status = "accepted" => credits[n] = 0
    <3>1. CASE n = m
      BY <3>1 DEF InQueueUnsettled, RefundLeavesQueue
    <3>2. CASE n # m
      BY <3>2 DEF InQueueUnsettled, RefundLeavesQueue
    <3>3. QED
      BY <3>1, <3>2
  <2>2. QED
    BY <2>1, RowsOnly
<1>2. ClaimsAreUnsettled'
  <2>1. ASSUME NEW w \in Workers, NEW n \in claimed[w]
        PROVE  (Unsettled(n) => Unsettled(n)') /\ (Refunded(n) => Refunded(n)')
    <3>1. CASE n = m
      BY <3>1 DEF Unsettled, Refunded
    <3>2. CASE n # m
      BY <3>2 DEF Unsettled, Refunded
    <3>3. QED
      BY <3>1, <3>2
  <2>2. QED
    BY <2>1 DEF ClaimsAreUnsettled
<1>3. QED
  BY <1>1, <1>2 DEF OneHolder, CurIsClaimed

LEMMA ReceiptStep ==
  ASSUME TypeOK, OwnerInv, NEW m \in Messages, NEW s \in Receipts, CarrierReceipt(m, s)
  PROVE  OwnerInv'
<1>1. log[m] \in Row /\ s \in ReceiptStatuses
  BY QueueAssumption DEF TypeOK
<1>2. /\ log' = [log EXCEPT ![m] = UpdateDLRReceived(log[m], s)]
      /\ UNCHANGED <<debits, credits, billed, pc, claimed, cur>>
  BY DEF CarrierReceipt, workerVars
<1>3. log'[m] = UpdateDLRReceived(log[m], s) /\ \A n \in Messages \ {m} : log'[n] = log[n]
  BY <1>2 DEF TypeOK
<1>4. QED
  BY <1>1, <1>2, <1>3, RowReceipt, RowEventStep

LEMMA ClockStep ==
  ASSUME TypeOK, OwnerInv, NEW m \in Messages, Clock(m)
  PROVE  OwnerInv'
<1>1. log[m] \in Row
  BY DEF TypeOK
<1>2. UNCHANGED <<debits, credits, billed, pc, claimed, cur>>
  BY DEF Clock, BackoffElapses, ValidityEnds, ClaimGoesStale, Tick, workerVars
<1>3. \A n \in Messages \ {m} : log'[n] = log[n]
  BY DEF Clock, BackoffElapses, ValidityEnds, ClaimGoesStale, Tick, TypeOK
<1>4. log'[m].status = log[m].status
  BY <1>1 DEF Clock, BackoffElapses, ValidityEnds, ClaimGoesStale, Tick, TypeOK, Row
<1>5. \/ log'[m].claim = log[m].claim
      \/ \A w \in Workers : m \notin claimed[w]
  BY <1>1 DEF Clock, BackoffElapses, ValidityEnds, ClaimGoesStale, Tick, TypeOK, Row
<1>6. QED
  BY <1>2, <1>3, <1>4, <1>5, RowEventStep

LEMMA OwnerInvInit == Init => OwnerInv
  BY DEF Init, OwnerInv, OneHolder, CurIsClaimed, ClaimsAreUnsettled, InQueueUnsettled,
     DebitedOnce, SettledSingly, RefundLeavesQueue, NoRow

LEMMA OwnerInvStep ==
  ASSUME TypeOK, OwnerInv, [Next]_vars, outlasted' = 0
  PROVE  OwnerInv'
<1>1. CASE \E m \in Messages : Enqueue(m)
  BY <1>1, EnqueueStep
<1>2. ASSUME NEW w \in Workers, WorkerStep(w) \/ StatementFails(w) PROVE OwnerInv'
  BY <1>2, ClaimStep, WireStep, FinishStep, BillStep, RefundStep DEF WorkerStep
<1>3. CASE Reap
  BY <1>3, ReapStep
<1>4. CASE Crash
  BY <1>4, CrashStep
<1>5. CASE \E m \in Messages, s \in Receipts : CarrierReceipt(m, s)
  BY <1>5, ReceiptStep
<1>6. CASE \E m \in Messages : Clock(m)
  BY <1>6, ClockStep
<1>7. ASSUME NEW m \in Messages, Outlasts(m) PROVE FALSE
  BY <1>7 DEF Outlasts, TypeOK
<1>8. CASE UNCHANGED vars
  BY <1>8 DEF vars, rowVars, workerVars, OwnerInv, OneHolder, CurIsClaimed,
     ClaimsAreUnsettled, Unsettled, Refunded, InQueueUnsettled, DebitedOnce, SettledSingly,
     RefundLeavesQueue
<1>9. QED
  BY <1>1, <1>2, <1>3, <1>4, <1>5, <1>6, <1>7, <1>8 DEF Next

\* Faults and outlasted claims are only ever added up.
LEMMA OutlastedGrows ==
  ASSUME TypeOK, [Next]_vars, outlasted' = 0
  PROVE  outlasted = 0
  BY DEF TypeOK, Next, Enqueue, WorkerStep, Claim, Take, CarrierAccepts, CarriersFail,
     Requeue, Bill, BillFails, ForceAccepted, Refund, Notify, StatementFails, Fault, Reap,
     Crash, CarrierReceipt, Clock, BackoffElapses, ValidityEnds, ClaimGoesStale, Outlasts,
     Tick, vars, faultVars

\* Until a live worker's claim outlasts the stuck window, a row in flight has
\* one owner and nothing settled, and what is settled is out of the queue.
THEOREM QueueInvHolds == Spec => []QueueInv
<1>1. Init => TypeOK /\ QueueInv
  BY QueueTypeInit, OwnerInvInit DEF QueueInv
<1>2. TypeOK /\ QueueInv /\ [Next]_vars => TypeOK' /\ QueueInv'
  BY QueueTypeStep, CurStep, OwnerInvStep, OutlastedGrows DEF QueueInv
<1>3. QED
  BY <1>1, <1>2, PTL DEF Spec

-----------------------------------------------------------------------------
(* What outlasting claims and faults cost, one action at a time.           *)

\* Counting workers: what is lost, and gained, with one of them.
LEMMA Count ==
  ASSUME NEW S \in SUBSET Workers, NEW T \in SUBSET Workers
  PROVE  /\ Cardinality(S) \in Nat /\ Cardinality(T) \in Nat
         /\ T \subseteq S => Cardinality(T) <= Cardinality(S)
         /\ \A x \in S : T \subseteq S \ {x} => Cardinality(T) + 1 <= Cardinality(S)
         /\ \A x : T \subseteq S \cup {x} => Cardinality(T) <= Cardinality(S) + 1
         /\ S # {} => Cardinality(S) >= 1
         /\ S = {} => Cardinality(S) = 0
<1>1. IsFiniteSet(S) /\ IsFiniteSet(T)
  BY QueueAssumption, FS_Subset
<1>2. Cardinality(S) \in Nat /\ Cardinality(T) \in Nat
  BY <1>1, FS_CardinalityType
<1>3. T \subseteq S => Cardinality(T) <= Cardinality(S)
  BY <1>1, FS_Subset
<1>4. ASSUME NEW x \in S, T \subseteq S \ {x} PROVE Cardinality(T) + 1 <= Cardinality(S)
  <2>1. IsFiniteSet(S \ {x}) /\ Cardinality(S \ {x}) = Cardinality(S) - 1
    BY <1>1, FS_RemoveElement
  <2>2. Cardinality(T) <= Cardinality(S \ {x})
    BY <1>4, <2>1, FS_Subset
  <2>3. QED
    BY <1>2, <2>1, <2>2
<1>5. ASSUME NEW x, T \subseteq S \cup {x} PROVE Cardinality(T) <= Cardinality(S) + 1
  <2>1. /\ IsFiniteSet(S \cup {x})
        /\ Cardinality(S \cup {x}) = IF x \in S THEN Cardinality(S) ELSE Cardinality(S) + 1
    BY <1>1, FS_AddElement
  <2>2. Cardinality(T) <= Cardinality(S \cup {x})
    BY <1>5, <2>1, FS_Subset
  <2>3. QED
    BY <1>2, <2>1, <2>2
<1>6. (S # {} => Cardinality(S) >= 1) /\ (S = {} => Cardinality(S) = 0)
  BY <1>1, <1>2, FS_EmptySet
<1>7. QED
  BY <1>2, <1>3, <1>4, <1>5, <1>6

\* The sets of workers and the numbers the bounds are about, before and after.
LEMMA Quantities ==
  ASSUME TypeOK, TypeOK', NEW m \in Messages
  PROVE  /\ Holders(m) \in SUBSET Workers /\ Holders(m)' \in SUBSET Workers
         /\ Settlers(m) \in SUBSET Workers /\ Settlers(m)' \in SUBSET Workers
         /\ Dispatchers(m) \in SUBSET Workers /\ Dispatchers(m)' \in SUBSET Workers
         /\ Ticket(m) \in {0, 1} /\ Ticket(m)' \in {0, 1}
         /\ credits[m] \in Nat /\ billed[m] \in Nat /\ acks[m] \in Nat
         /\ credits'[m] \in Nat /\ billed'[m] \in Nat /\ acks'[m] \in Nat
         /\ faults \in Nat /\ faults' \in Nat /\ outlasted \in Nat /\ outlasted' \in Nat
<1>1. /\ Holders(m) \in SUBSET Workers /\ Holders(m)' \in SUBSET Workers
      /\ Settlers(m) \in SUBSET Workers /\ Settlers(m)' \in SUBSET Workers
      /\ Dispatchers(m) \in SUBSET Workers /\ Dispatchers(m)' \in SUBSET Workers
  BY DEF Holders, Settlers, Dispatchers
<1>2. Ticket(m) \in {0, 1} /\ Ticket(m)' \in {0, 1}
  BY DEF Ticket
<1>3. QED
  BY <1>1, <1>2 DEF TypeOK

\* A step that hands out no ticket and adds no worker keeps the bounds.
LEMMA NothingGained ==
  ASSUME TypeOK, TypeOK', NEW m \in Messages, Bounded(m),
         Holders(m)' \subseteq Holders(m), Settlers(m)' \subseteq Settlers(m),
         Dispatchers(m)' \subseteq Dispatchers(m), Ticket(m)' <= Ticket(m),
         credits'[m] = credits[m], billed'[m] = billed[m], acks'[m] = acks[m],
         faults' >= faults, outlasted' >= outlasted
  PROVE  Bounded(m)'
<1>1. /\ Cardinality(Holders(m)') <= Cardinality(Holders(m))
      /\ Cardinality(Settlers(m)') <= Cardinality(Settlers(m))
      /\ Cardinality(Dispatchers(m)') <= Cardinality(Dispatchers(m))
      /\ Cardinality(Holders(m)) \in Nat /\ Cardinality(Holders(m)') \in Nat
      /\ Cardinality(Settlers(m)) \in Nat /\ Cardinality(Settlers(m)') \in Nat
      /\ Cardinality(Dispatchers(m)) \in Nat /\ Cardinality(Dispatchers(m)') \in Nat
  BY Quantities, Count
<1>2. QED
  BY <1>1, Quantities DEF Bounded

\* A message that the step leaves alone.
LEMMA OtherMessage ==
  ASSUME TypeOK, TypeOK', NEW m \in Messages, Bounded(m), log'[m] = log[m],
         Holders(m)' = Holders(m), Settlers(m)' \subseteq Settlers(m),
         Dispatchers(m)' \subseteq Dispatchers(m),
         credits'[m] = credits[m], billed'[m] = billed[m], acks'[m] = acks[m],
         faults' >= faults, outlasted' >= outlasted
  PROVE  Bounded(m)'
<1>1. Ticket(m)' = Ticket(m)
  BY DEF Ticket, InQueue
<1>2. Ticket(m)' <= Ticket(m)
  BY <1>1, Quantities
<1>3. QED
  BY <1>2, NothingGained

\* A worker that is done with its row lets go of it and of nothing else.
LEMMA FinishHolders ==
  ASSUME TypeOK, CurIsClaimed, NEW w \in Workers, pc[w] # "loop", Finish(w),
         NEW c, c = cur[w]
  PROVE  /\ c \in Messages /\ w \in Holders(c)
         /\ pc[w] # "notify" => w \in Settlers(c)
         /\ pc[w] \in {"wire", "requeue"} => w \in Dispatchers(c)
         /\ pc[w] \in {"bill", "force", "refund", "notify"} => w \notin Dispatchers(c)
         /\ Holders(c)' = Holders(c) \ {w}
         /\ Settlers(c)' \subseteq Settlers(c) \ {w}
         /\ Dispatchers(c)' \subseteq Dispatchers(c) \ {w}
         /\ \A m \in Messages \ {c} :
              /\ Holders(m)' = Holders(m)
              /\ Settlers(m)' \subseteq Settlers(m)
              /\ Dispatchers(m)' \subseteq Dispatchers(m)
<1>1. /\ c \in claimed[w] /\ c \in Messages
      /\ claimed'[w] = claimed[w] \ {c} /\ pc'[w] = "loop"
      /\ \A v \in Workers \ {w} : claimed'[v] = claimed[v] /\ pc'[v] = pc[v] /\ cur'[v] = cur[v]
  BY DEF TypeOK, Finish, Goto, CurIsClaimed
<1>2. /\ w \in Holders(c)
      /\ pc[w] # "notify" => w \in Settlers(c)
      /\ pc[w] \in {"wire", "requeue"} => w \in Dispatchers(c)
      /\ pc[w] \in {"bill", "force", "refund", "notify"} => w \notin Dispatchers(c)
  BY <1>1 DEF Holders, Settlers, Dispatchers
<1>3. ASSUME NEW m \in Messages
      PROVE  Holders(m)' = IF m = c THEN Holders(m) \ {w} ELSE Holders(m)
  BY <1>1 DEF Holders
<1>4. ASSUME NEW m \in Messages, NEW v \in Holders(m)', v = w \/ v # w
      PROVE  /\ v \in Settlers(m)' => v \in Settlers(m)
             /\ v \in Dispatchers(m)' => v \in Dispatchers(m)
  <2>1. v \in Workers /\ v \in Holders(m) /\ (v = w => m # c)
    BY <1>1, <1>3 DEF Holders
  <2>2. CASE v = w
    BY <2>1, <2>2 DEF Settlers, Dispatchers
  <2>3. CASE v # w
    BY <1>1, <2>1, <2>3 DEF Settlers, Dispatchers
  <2>4. QED
    BY <2>2, <2>3
<1>5. ASSUME NEW m \in Messages
      PROVE  /\ Settlers(m)' \subseteq Settlers(m) /\ Settlers(m)' \subseteq Holders(m)'
             /\ Dispatchers(m)' \subseteq Dispatchers(m) /\ Dispatchers(m)' \subseteq Holders(m)'
  BY <1>4 DEF Settlers, Dispatchers
<1>6. QED
  BY <1>1, <1>2, <1>3, <1>5

\* A step of one worker that keeps its claims and adds nothing it may do.
LEMMA KeepHolders ==
  ASSUME TypeOK, NEW w \in Workers, UNCHANGED claimed,
         \A v \in Workers \ {w} : pc'[v] = pc[v] /\ cur'[v] = cur[v],
         \/ pc[w] = "loop"
         \/ /\ cur'[w] = cur[w] /\ pc[w] # "notify"
            /\ pc[w] \in {"bill", "force", "refund"}
                 => pc'[w] \in {"bill", "force", "refund", "notify"}
  PROVE  \A m \in Messages : /\ Holders(m)' = Holders(m)
                             /\ Settlers(m)' \subseteq Settlers(m)
                             /\ Dispatchers(m)' \subseteq Dispatchers(m)
<1> SUFFICES ASSUME NEW m \in Messages
             PROVE  /\ Holders(m)' = Holders(m)
                    /\ Settlers(m)' \subseteq Settlers(m)
                    /\ Dispatchers(m)' \subseteq Dispatchers(m)
  OBVIOUS
<1>1. Holders(m)' = Holders(m)
  BY DEF Holders
<1>2. ASSUME NEW v \in Holders(m)
      PROVE  /\ v \in Settlers(m)' => v \in Settlers(m)
             /\ v \in Dispatchers(m)' => v \in Dispatchers(m)
  <2>1. v \in Workers
    BY DEF Holders
  <2>2. CASE v = w
    BY <2>1, <2>2 DEF Settlers, Dispatchers
  <2>3. CASE v # w
    BY <2>1, <2>3 DEF Settlers, Dispatchers
  <2>4. QED
    BY <2>2, <2>3
<1>3. QED
  BY <1>1, <1>2 DEF Settlers, Dispatchers

LEMMA BoundedEnqueue ==
  ASSUME TypeOK, TypeOK', CostInv, NEW c \in Messages, Enqueue(c), NEW m \in Messages
  PROVE  Bounded(m)'
<1>1. /\ log' = [log EXCEPT ![c] = StampQueued(@)] /\ log[c].status = "none"
      /\ UNCHANGED <<credits, billed, pc, claimed, cur, acks, faults, outlasted>>
  BY DEF Enqueue, workerVars, wireVars, faultVars
<1>2. /\ Holders(m)' = Holders(m) /\ Settlers(m)' = Settlers(m)
      /\ Dispatchers(m)' = Dispatchers(m)
  BY <1>1 DEF Holders, Settlers, Dispatchers
<1>3. Bounded(m) /\ faults' >= faults /\ outlasted' >= outlasted
  BY <1>1 DEF CostInv, TypeOK
<1>4. CASE m = c
  <2>1. Ticket(m) = 1
    BY <1>1, <1>4 DEF Ticket, InQueue
  <2>2. Ticket(m)' <= Ticket(m)
    BY <2>1, Quantities
  <2>3. QED
    BY <1>1, <1>2, <1>3, <2>2, NothingGained
<1>5. CASE m # c
  <2>1. log'[m] = log[m]
    BY <1>1, <1>5 DEF TypeOK
  <2>2. QED
    BY <1>1, <1>2, <1>3, <2>1, OtherMessage
<1>6. QED
  BY <1>4, <1>5

\* A claim takes the ticket and adds one worker.
LEMMA BoundedClaim ==
  ASSUME TypeOK, TypeOK', CostInv, NEW w \in Workers, Claim(w), NEW m \in Messages
  PROVE  Bounded(m)'
<1>1. PICK S \in SUBSET {n \in Messages : Claimable(log[n])} :
        /\ log' = [n \in Messages |-> IF n \in S THEN ClaimForSend(log[n]) ELSE log[n]]
        /\ claimed' = [claimed EXCEPT ![w] = S]
  BY DEF Claim
<1>2. /\ claimed[w] = {} /\ pc[w] = "loop"
      /\ UNCHANGED <<credits, billed, pc, cur, acks, faults, outlasted>>
  BY DEF Claim, wireVars, faultVars
<1>3. claimed'[w] = S /\ \A v \in Workers \ {w} : claimed'[v] = claimed[v]
  BY <1>1 DEF TypeOK
<1>4. Bounded(m) /\ faults' >= faults /\ outlasted' >= outlasted
  BY <1>2 DEF CostInv, TypeOK
<1>5. CASE m \in S
  <2>1. log[m].status = "queued" /\ log'[m].status = "sending" /\ log'[m].claim = "fresh"
    BY <1>1, <1>5, RowStatus DEF Claimable, TypeOK
  <2>2. Holders(m)' = Holders(m) \cup {w}
    BY <1>2, <1>3, <1>5 DEF Holders
  <2>3. Ticket(m) = 1 /\ Ticket(m)' = 0
    BY <2>1, <2>2 DEF Ticket, InQueue
  <2>4. /\ Settlers(m)' \subseteq Settlers(m) \cup {w}
        /\ Dispatchers(m)' \subseteq Dispatchers(m) \cup {w}
    BY <1>2, <2>2 DEF Settlers, Dispatchers
  <2>5. /\ Cardinality(Holders(m)') <= Cardinality(Holders(m)) + 1
        /\ Cardinality(Settlers(m)') <= Cardinality(Settlers(m)) + 1
        /\ Cardinality(Dispatchers(m)') <= Cardinality(Dispatchers(m)) + 1
        /\ Cardinality(Holders(m)) \in Nat /\ Cardinality(Holders(m)') \in Nat
        /\ Cardinality(Settlers(m)) \in Nat /\ Cardinality(Settlers(m)') \in Nat
        /\ Cardinality(Dispatchers(m)) \in Nat /\ Cardinality(Dispatchers(m)') \in Nat
    BY <2>2, <2>4, Quantities, Count
  <2>6. QED
    BY <1>2, <1>4, <2>3, <2>5, Quantities DEF Bounded
<1>6. CASE m \notin S
  <2>1. log'[m] = log[m]
    BY <1>1, <1>6
  <2>2. Holders(m)' = Holders(m)
    BY <1>2, <1>3, <1>6 DEF Holders
  <2>3. Settlers(m)' = Settlers(m) /\ Dispatchers(m)' = Dispatchers(m)
    BY <1>2, <2>2 DEF Settlers, Dispatchers
  <2>4. QED
    BY <1>2, <1>4, <2>1, <2>2, <2>3, OtherMessage
<1>7. QED
  BY <1>5, <1>6

\* Taking a row, and an answer that is not an acceptance.
LEMMA BoundedWire ==
  ASSUME TypeOK, TypeOK', CostInv, NEW w \in Workers,
         Take(w) \/ CarriersFail(w) \/ BillFails(w), NEW m \in Messages
  PROVE  Bounded(m)'
<1>1. /\ UNCHANGED <<log, credits, billed, claimed, acks, faults, outlasted>>
      /\ \A v \in Workers \ {w} : pc'[v] = pc[v] /\ cur'[v] = cur[v]
      /\ \/ pc[w] = "loop"
         \/ /\ cur'[w] = cur[w] /\ pc[w] # "notify"
            /\ pc[w] \in {"bill", "force", "refund"}
                 => pc'[w] \in {"bill", "force", "refund", "notify"}
  BY DEF Take, Route, CarriersFail, BillFails, Goto, TypeOK, rowVars, wireVars, faultVars
<1>2. /\ Holders(m)' = Holders(m) /\ Settlers(m)' \subseteq Settlers(m)
      /\ Dispatchers(m)' \subseteq Dispatchers(m)
  BY <1>1, KeepHolders
<1>3. Bounded(m) /\ faults' >= faults /\ outlasted' >= outlasted
  BY <1>1 DEF CostInv, TypeOK
<1>4. QED
  BY <1>1, <1>2, <1>3, OtherMessage

\* An acceptance spends the worker's share in the bound on dispatches.
LEMMA BoundedAccepts ==
  ASSUME TypeOK, TypeOK', CostInv, CurIsClaimed, NEW w \in Workers, CarrierAccepts(w),
         NEW m \in Messages
  PROVE  Bounded(m)'
<1>1. /\ UNCHANGED <<log, credits, billed, claimed, cur, faults, outlasted>>
      /\ \A v \in Workers \ {w} : pc'[v] = pc[v]
      /\ pc[w] = "wire" /\ pc'[w] = "bill"
      /\ acks' = [acks EXCEPT ![cur[w]] = @ + 1]
  BY DEF CarrierAccepts, Goto, TypeOK, rowVars, faultVars
<1>2. /\ Holders(m)' = Holders(m) /\ Settlers(m)' \subseteq Settlers(m)
      /\ Dispatchers(m)' \subseteq Dispatchers(m)
  BY <1>1, KeepHolders
<1>3. Bounded(m) /\ faults' >= faults /\ outlasted' >= outlasted
  BY <1>1 DEF CostInv, TypeOK
<1>4. CASE m = cur[w]
  <2>1. w \in Dispatchers(m) /\ w \notin Dispatchers(m)'
    BY <1>1, <1>4 DEF Dispatchers, Holders, CurIsClaimed
  <2>2. Dispatchers(m)' \subseteq Dispatchers(m) \ {w}
    BY <1>2, <2>1
  <2>3. /\ Cardinality(Holders(m)') <= Cardinality(Holders(m))
        /\ Cardinality(Settlers(m)') <= Cardinality(Settlers(m))
        /\ Cardinality(Dispatchers(m)') + 1 <= Cardinality(Dispatchers(m))
        /\ Cardinality(Holders(m)) \in Nat /\ Cardinality(Holders(m)') \in Nat
        /\ Cardinality(Settlers(m)) \in Nat /\ Cardinality(Settlers(m)') \in Nat
        /\ Cardinality(Dispatchers(m)) \in Nat /\ Cardinality(Dispatchers(m)') \in Nat
    BY <1>2, <2>1, <2>2, Quantities, Count
  <2>4. Ticket(m)' = Ticket(m)
    BY <1>1, <1>2 DEF Ticket, InQueue
  <2>5. acks'[m] = acks[m] + 1
    BY <1>1, <1>4 DEF TypeOK
  <2>6. QED
    BY <1>1, <1>3, <2>3, <2>4, <2>5, Quantities DEF Bounded
<1>5. CASE m # cur[w]
  <2>1. acks'[m] = acks[m]
    BY <1>1, <1>5 DEF TypeOK
  <2>2. QED
    BY <1>1, <1>2, <1>3, <2>1, OtherMessage
<1>6. QED
  BY <1>4, <1>5

\* What a finished worker's share in each bound pays for: the ticket it gives
\* back, or the entry it posts, or a fault.
LEMMA ShareReturned ==
  ASSUME TypeOK, TypeOK', CostInv, CurIsClaimed, NEW w \in Workers,
         pc[w] \notin {"loop", "notify"}, Finish(w), NEW c, c = cur[w],
         acks' = acks, outlasted' = outlasted,
         \/ credits'[c] = credits[c] /\ billed'[c] = billed[c]
         \/ credits'[c] + billed'[c] = credits[c] + billed[c] + 1 /\ Ticket(c)' = 0,
         \/ pc[w] = "requeue" /\ faults' >= faults
         \/ Ticket(c)' <= Ticket(c) /\ faults' >= faults
         \/ faults' = faults + 1
  PROVE  Bounded(c)'
<1>1. /\ c \in Messages /\ w \in Holders(c) /\ w \in Settlers(c)
      /\ pc[w] = "requeue" => w \in Dispatchers(c)
      /\ Holders(c)' = Holders(c) \ {w}
      /\ Settlers(c)' \subseteq Settlers(c) \ {w}
      /\ Dispatchers(c)' \subseteq Dispatchers(c) \ {w}
  BY FinishHolders
<1>2. /\ Cardinality(Holders(c)') + 1 <= Cardinality(Holders(c))
      /\ Cardinality(Settlers(c)') + 1 <= Cardinality(Settlers(c))
      /\ Cardinality(Dispatchers(c)') <= Cardinality(Dispatchers(c))
      /\ Cardinality(Holders(c)) \in Nat /\ Cardinality(Holders(c)') \in Nat
      /\ Cardinality(Settlers(c)) \in Nat /\ Cardinality(Settlers(c)') \in Nat
      /\ Cardinality(Dispatchers(c)) \in Nat /\ Cardinality(Dispatchers(c)') \in Nat
  <2>1. Dispatchers(c)' \subseteq Dispatchers(c)
    BY <1>1
  <2>2. Holders(c)' \subseteq Holders(c) \ {w}
    BY <1>1
  <2>3. QED
    BY <1>1, <2>1, <2>2, Quantities, Count
<1>3. pc[w] = "requeue" => Cardinality(Dispatchers(c)') + 1 <= Cardinality(Dispatchers(c))
  BY <1>1, Quantities, Count
<1>4. Bounded(c)
  BY <1>1 DEF CostInv
<1>5. Ticket(c)' <= 1 /\ Ticket(c) >= 0
  BY <1>1, Quantities
<1>6. Cardinality(Holders(c)') + Ticket(c)' <= 1 + outlasted'
  BY <1>1, <1>2, <1>4, <1>5, Quantities DEF Bounded
<1>7. credits'[c] + billed'[c] + Cardinality(Settlers(c)') + Ticket(c)' <= 1 + outlasted'
  BY <1>1, <1>2, <1>4, <1>5, Quantities DEF Bounded
<1>8. acks'[c] + Cardinality(Dispatchers(c)') + Ticket(c)' <= 1 + faults' + outlasted'
  BY <1>1, <1>2, <1>3, <1>4, <1>5, Quantities DEF Bounded
<1>9. QED
  BY <1>6, <1>7, <1>8 DEF Bounded

\* The other messages, when a worker is done with its own.
LEMMA FinishOthers ==
  ASSUME TypeOK, TypeOK', CostInv, CurIsClaimed, NEW w \in Workers, pc[w] # "loop",
         Finish(w), NEW m \in Messages, m # cur[w], log'[m] = log[m],
         credits'[m] = credits[m], billed'[m] = billed[m], acks' = acks,
         faults' >= faults, outlasted' = outlasted
  PROVE  Bounded(m)'
<1>1. PICK c : c = cur[w]
  OBVIOUS
<1>2. /\ Holders(m)' = Holders(m) /\ Settlers(m)' \subseteq Settlers(m)
      /\ Dispatchers(m)' \subseteq Dispatchers(m)
  BY <1>1, FinishHolders
<1>3. Bounded(m) /\ outlasted' >= outlasted
  BY DEF CostInv, TypeOK
<1>4. QED
  BY <1>2, <1>3, OtherMessage

LEMMA BoundedFinish ==
  ASSUME TypeOK, TypeOK', CostInv, CurIsClaimed, NEW w \in Workers,
         Requeue(w) \/ Bill(w) \/ ForceAccepted(w) \/ Notify(w) \/ StatementFails(w),
         NEW m \in Messages
  PROVE  Bounded(m)'
<1>1. PICK c : c = cur[w]
  OBVIOUS
<1>2. /\ pc[w] # "loop" /\ Finish(w) /\ acks' = acks /\ outlasted' = outlasted
      /\ credits' = credits /\ faults' >= faults
  BY DEF Requeue, Bill, ForceAccepted, Notify, StatementFails, Fault, wireVars, faultVars,
     rowVars, TypeOK
<1>3. c \in Messages /\ Holders(c)' = Holders(c) \ {w} /\ w \in Holders(c)
  BY <1>1, <1>2, FinishHolders
<1>4. \A n \in Messages \ {c} : log'[n] = log[n] /\ billed'[n] = billed[n]
  BY <1>1, <1>3 DEF Requeue, Bill, ForceAccepted, Notify, StatementFails, rowVars, TypeOK
<1>5. CASE m # c
  BY <1>1, <1>2, <1>4, <1>5, FinishOthers
<1>6. ASSUME m = c PROVE Bounded(c)'
  <2>0. log[c] \in Row
    BY <1>3 DEF TypeOK
  <2>1. CASE Requeue(w)
    <3>1. billed' = billed /\ pc[w] = "requeue"
      BY <2>1 DEF Requeue
    <3>2. QED
      BY <1>1, <1>2, <3>1, ShareReturned
  <2>2. CASE Bill(w)
    <3>1. log'[c].status = "accepted" /\ billed'[c] = billed[c] + 1 /\ pc[w] = "bill"
      BY <1>1, <1>3, <2>0, <2>2, RowStatus DEF Bill, TypeOK
    <3>2. Ticket(c)' = 0
      BY <3>1 DEF Ticket, InQueue
    <3>3. Ticket(c)' <= Ticket(c)
      BY <1>3, <3>2, Quantities
    <3>4. credits'[c] + billed'[c] = credits[c] + billed[c] + 1
      BY <1>2, <1>3, <3>1, Quantities
    <3>5. QED
      BY <1>1, <1>2, <3>1, <3>2, <3>3, <3>4, ShareReturned
  <2>3. CASE ForceAccepted(w)
    <3>1. billed' = billed /\ pc[w] = "force"
      BY <2>3 DEF ForceAccepted
    <3>2. \/ log'[c].status = "accepted"
          \/ log'[c] = log[c] /\ log[c].status # "sending"
      BY <1>1, <1>3, <2>0, <2>3, RowStatus DEF ForceAccepted, TypeOK
    <3>3. InQueue(c)' => InQueue(c)
      BY <3>2 DEF InQueue
    <3>4. Ticket(c)' <= Ticket(c)
      BY <3>3 DEF Ticket
    <3>5. QED
      BY <1>1, <1>2, <3>1, <3>4, ShareReturned
  <2>4. CASE (Notify(w) \/ StatementFails(w)) /\ pc[w] = "notify"
    <3>1. OffQueue(log[c]) /\ billed' = billed
      BY <1>1, <2>4 DEF CostInv, NotifiedIsClosed, Notify, StatementFails, rowVars
    <3>2. \/ log'[c] = log[c]
          \/ log'[c] = UpdateDLRReceived(log[c], "undelivered")
      BY <1>1, <1>3, <2>4 DEF Notify, StatementFails, rowVars, TypeOK
    <3>3. log'[c].status \in {log[c].status, "delivered", "failed", "rejected"}
      BY <2>0, <3>2, RowReceipt, UndeliveredIsReceipt
    <3>4. Ticket(c)' = 0
      BY <3>1, <3>3 DEF OffQueue, Ticket, InQueue
    <3>5. Ticket(c)' <= Ticket(c)
      BY <1>3, <3>4, Quantities
    <3>6. /\ Holders(c)' \subseteq Holders(c) /\ Settlers(c)' \subseteq Settlers(c)
          /\ Dispatchers(c)' \subseteq Dispatchers(c)
      BY <1>1, <1>2, FinishHolders
    <3>7. Bounded(c) /\ outlasted' >= outlasted
      BY <1>2, <1>3 DEF CostInv, TypeOK
    <3>8. QED
      BY <1>2, <1>3, <3>1, <3>5, <3>6, <3>7, NothingGained
  <2>5. CASE StatementFails(w) /\ pc[w] # "notify"
    <3>1. billed' = billed /\ faults' = faults + 1
      BY <2>5 DEF StatementFails, Fault, rowVars
    <3>2. QED
      BY <1>1, <1>2, <2>5, <3>1, ShareReturned
  <2>6. QED
    BY <2>1, <2>2, <2>3, <2>4, <2>5 DEF Notify
<1>7. QED
  BY <1>5, <1>6

\* A refund spends the worker's share in the bound on settlements.
LEMMA BoundedRefund ==
  ASSUME TypeOK, TypeOK', CostInv, CurIsClaimed, NEW w \in Workers, Refund(w),
         NEW m \in Messages
  PROVE  Bounded(m)'
<1>1. PICK c : c = cur[w]
  OBVIOUS
<1>2. /\ UNCHANGED <<billed, claimed, cur, acks, faults, outlasted>>
      /\ \A v \in Workers \ {w} : pc'[v] = pc[v]
      /\ pc[w] = "refund" /\ pc'[w] = "notify" /\ c \in Messages /\ c \in claimed[w]
      /\ log' = [log EXCEPT ![c] = MarkSMSUndelivered(@)]
      /\ credits' = [credits EXCEPT ![c] = @ + 1]
  BY <1>1 DEF Refund, Goto, TypeOK, CurIsClaimed, wireVars, faultVars
<1>3. /\ Holders(m)' = Holders(m) /\ Settlers(m)' \subseteq Settlers(m)
      /\ Dispatchers(m)' \subseteq Dispatchers(m)
  BY <1>2, KeepHolders
<1>4. Bounded(m) /\ faults' >= faults /\ outlasted' >= outlasted
  BY <1>2 DEF CostInv, TypeOK
<1>5. CASE m = c
  <2>1. log'[m].status = "undelivered"
    BY <1>2, <1>5, RowStatus DEF TypeOK
  <2>2. Ticket(m)' = 0
    BY <2>1 DEF Ticket, InQueue
  <2>3. w \in Settlers(m) /\ w \notin Settlers(m)'
    BY <1>1, <1>2, <1>5 DEF Settlers, Holders
  <2>4. Settlers(m)' \subseteq Settlers(m) \ {w}
    BY <1>3, <2>3
  <2>5. /\ Cardinality(Holders(m)') <= Cardinality(Holders(m))
        /\ Cardinality(Settlers(m)') + 1 <= Cardinality(Settlers(m))
        /\ Cardinality(Dispatchers(m)') <= Cardinality(Dispatchers(m))
        /\ Cardinality(Holders(m)) \in Nat /\ Cardinality(Holders(m)') \in Nat
        /\ Cardinality(Settlers(m)) \in Nat /\ Cardinality(Settlers(m)') \in Nat
        /\ Cardinality(Dispatchers(m)) \in Nat /\ Cardinality(Dispatchers(m)') \in Nat
    BY <1>3, <2>3, <2>4, Quantities, Count
  <2>6. credits'[m] = credits[m] + 1
    BY <1>2, <1>5 DEF TypeOK
  <2>7. QED
    BY <1>2, <1>4, <2>2, <2>5, <2>6, Quantities DEF Bounded
<1>6. CASE m # c
  <2>1. log'[m] = log[m] /\ credits'[m] = credits[m]
    BY <1>2, <1>6 DEF TypeOK
  <2>2. QED
    BY <1>2, <1>3, <1>4, <2>1, OtherMessage
<1>7. QED
  BY <1>5, <1>6

\* Nothing but an outlasting claim issues a ticket for a row in a worker's hands.
LEMMA RowStep ==
  ASSUME TypeOK, TypeOK', CostInv, NEW m \in Messages,
         UNCHANGED <<credits, billed, pc, claimed, cur, acks, faults, outlasted>>,
         \/ log'[m] = log[m]
         \/ log[m].status = "sending" /\ log[m].claim # "fresh"
         \/ log'[m].status = log[m].status /\ log'[m].claim = log[m].claim
         \/ OffQueue(log'[m])
         \/ log'[m].status = log[m].status /\ \A w \in Workers : m \notin claimed[w]
  PROVE  Bounded(m)'
<1>1. /\ Holders(m)' = Holders(m) /\ Settlers(m)' = Settlers(m)
      /\ Dispatchers(m)' = Dispatchers(m)
  BY DEF Holders, Settlers, Dispatchers
<1>2. InQueue(m)' => InQueue(m)
  BY <1>1 DEF InQueue, OffQueue, Holders
<1>3. Ticket(m)' <= Ticket(m)
  BY <1>2 DEF Ticket
<1>4. Bounded(m) /\ faults' >= faults /\ outlasted' >= outlasted
  BY DEF CostInv, TypeOK
<1>5. QED
  BY <1>1, <1>3, <1>4, NothingGained

LEMMA BoundedOutlasts ==
  ASSUME TypeOK, TypeOK', CostInv, NEW c \in Messages, Outlasts(c), NEW m \in Messages
  PROVE  Bounded(m)'
<1>1. /\ UNCHANGED <<credits, billed, pc, claimed, cur, acks, faults>>
      /\ outlasted' = outlasted + 1
      /\ \A n \in Messages \ {c} : log'[n] = log[n]
  BY DEF Outlasts, workerVars, wireVars, TypeOK
<1>2. /\ Holders(m)' = Holders(m) /\ Settlers(m)' = Settlers(m)
      /\ Dispatchers(m)' = Dispatchers(m)
  BY <1>1 DEF Holders, Settlers, Dispatchers
<1>3. /\ Cardinality(Holders(m)) \in Nat /\ Cardinality(Settlers(m)) \in Nat
      /\ Cardinality(Dispatchers(m)) \in Nat
  BY Quantities, Count
<1>4. Bounded(m)
  BY DEF CostInv
<1>5. QED
  BY <1>1, <1>2, <1>3, <1>4, Quantities DEF Bounded

\* A crash takes every worker's share, and can leave one ticket.
LEMMA BoundedCrash ==
  ASSUME TypeOK, TypeOK', CostInv, CurIsClaimed, Crash, NEW m \in Messages
  PROVE  Bounded(m)'
<1>1. /\ UNCHANGED <<log, credits, billed, acks, outlasted>> /\ faults' = faults + 1
      /\ \A w \in Workers : claimed'[w] = {}
  BY DEF Crash, Fault, rowVars, wireVars
<1>2. Holders(m)' = {} /\ Settlers(m)' = {} /\ Dispatchers(m)' = {}
  BY <1>1 DEF Holders, Settlers, Dispatchers
<1>3. /\ Cardinality(Holders(m)') = 0 /\ Cardinality(Settlers(m)') = 0
      /\ Cardinality(Dispatchers(m)') = 0
      /\ Cardinality(Holders(m)) \in Nat /\ Cardinality(Settlers(m)) \in Nat
      /\ Cardinality(Dispatchers(m)) \in Nat
  BY <1>2, Quantities, Count
<1>4. Bounded(m)
  BY DEF CostInv
<1>5. Ticket(m)' <= Ticket(m) + Cardinality(Settlers(m))
  <2>1. CASE InQueue(m)
    <3>1. Ticket(m) = 1
      BY <2>1 DEF Ticket
    <3>2. QED
      BY <1>3, <3>1, Quantities
  <2>2. CASE ~InQueue(m) /\ log[m].status = "sending"
    <3>1. PICK w : w \in Holders(m)
      BY <2>2 DEF InQueue
    <3>2. ~(cur[w] = m /\ pc[w] = "notify")
      BY <2>2, <3>1 DEF CostInv, NotifiedIsClosed, OffQueue, Holders
    <3>3. Settlers(m) # {}
      BY <3>1, <3>2 DEF Settlers
    <3>4. Cardinality(Settlers(m)) >= 1
      BY <3>3, Quantities, Count
    <3>5. QED
      BY <1>3, <3>4, Quantities
  <2>3. CASE ~InQueue(m) /\ log[m].status # "sending"
    <3>1. Ticket(m)' = 0
      BY <1>1, <2>3 DEF InQueue, Ticket
    <3>2. QED
      BY <1>3, <3>1, Quantities
  <2>4. QED
    BY <2>1, <2>2, <2>3
<1>6. QED
  BY <1>1, <1>3, <1>4, <1>5, Quantities DEF Bounded

\* Out of the queue is out of the queue: no statement brings a row back.
LEMMA ClosedForGood ==
  ASSUME TypeOK, CurIsClaimed, [Next]_vars, NEW m \in Messages, OffQueue(log[m])
  PROVE  OffQueue(log'[m])
<1> USE DEF TypeOK
<1>0. log[m] \in Row
  OBVIOUS
<1>1. ASSUME NEW c \in Messages, Enqueue(c) PROVE OffQueue(log'[m])
  BY <1>1 DEF Enqueue, OffQueue
<1>2. ASSUME NEW w \in Workers, WorkerStep(w) \/ StatementFails(w) PROVE OffQueue(log'[m])
  <2>1. CASE Claim(w)
    BY <2>1 DEF Claim, Claimable, OffQueue
  <2>2. CASE UNCHANGED log
    BY <2>2
  <2>3. CASE Requeue(w)
    BY <1>0, <2>3, RowStatus DEF Requeue, OffQueue
  <2>4. CASE Bill(w)
    BY <1>0, <2>4, RowStatus DEF Bill, OffQueue
  <2>5. CASE ForceAccepted(w)
    BY <1>0, <2>5, RowStatus DEF ForceAccepted, OffQueue
  <2>6. CASE Refund(w)
    BY <1>0, <2>6, RowStatus DEF Refund, OffQueue
  <2>7. CASE Notify(w)
    <3>1. log'[m] = log[m] \/ log'[m] = UpdateDLRReceived(log[m], "undelivered")
      BY <2>7 DEF Notify
    <3>2. QED
      BY <1>0, <3>1, RowReceipt, UndeliveredIsReceipt DEF OffQueue
  <2>8. QED
    BY <1>2, <2>1, <2>2, <2>3, <2>4, <2>5, <2>6, <2>7
       DEF WorkerStep, Take, CarrierAccepts, CarriersFail, BillFails, StatementFails, rowVars
<1>3. CASE Reap
  BY <1>0, <1>3, RowStatus DEF Reap, OffQueue
<1>4. ASSUME NEW c \in Messages, NEW s \in Receipts, CarrierReceipt(c, s)
      PROVE  OffQueue(log'[m])
  <2>1. log'[m] = log[m] \/ log'[m] = UpdateDLRReceived(log[m], s)
    BY <1>4 DEF CarrierReceipt
  <2>2. s \in ReceiptStatuses
    BY QueueAssumption
  <2>3. QED
    BY <1>0, <2>1, <2>2, RowReceipt DEF OffQueue
<1>5. ASSUME NEW c \in Messages, Clock(c) \/ Outlasts(c) PROVE OffQueue(log'[m])
  <2>1. log[c].status \in {"queued", "sending"}
    BY <1>5 DEF Clock, BackoffElapses, ValidityEnds, ClaimGoesStale, Outlasts, Tick
  <2>2. c # m
    BY <2>1 DEF OffQueue
  <2>3. log'[m] = log[m]
    BY <1>5, <2>2 DEF Clock, BackoffElapses, ValidityEnds, ClaimGoesStale, Outlasts, Tick
  <2>4. QED
    BY <2>3
<1>6. CASE Crash \/ UNCHANGED vars
  BY <1>6 DEF Crash, vars, rowVars
<1>7. QED
  BY <1>1, <1>2, <1>3, <1>4, <1>5, <1>6 DEF Next

LEMMA NotifiedStep ==
  ASSUME TypeOK, CurIsClaimed, NotifiedIsClosed, [Next]_vars
  PROVE  NotifiedIsClosed'
<1> SUFFICES ASSUME NEW w \in Workers, pc'[w] = "notify" PROVE OffQueue(log[cur[w]])'
  BY DEF NotifiedIsClosed
<1> USE DEF TypeOK
<1>1. CASE pc[w] = "notify" /\ cur'[w] = cur[w]
  <2>1. cur[w] \in Messages /\ OffQueue(log[cur[w]])
    BY <1>1 DEF NotifiedIsClosed, CurIsClaimed
  <2>2. OffQueue(log'[cur[w]])
    BY <2>1, ClosedForGood
  <2>3. QED
    BY <1>1, <2>2
<1>2. CASE Refund(w)
  <2>1. cur[w] \in Messages
    BY <1>2 DEF Refund, CurIsClaimed
  <2>2. log'[cur[w]].status = "undelivered" /\ cur' = cur
    BY <1>2, <2>1, RowStatus DEF Refund
  <2>3. QED
    BY <2>2 DEF OffQueue
<1>3. ASSUME NEW v \in Workers, WorkerStep(v) \/ StatementFails(v), ~Refund(w)
      PROVE  pc[w] = "notify" /\ cur'[w] = cur[w]
  BY <1>3 DEF WorkerStep, Claim, Take, Route, CarrierAccepts, CarriersFail, Requeue, Bill,
     BillFails, ForceAccepted, Refund, Notify, StatementFails, Finish, Goto
<1>4. CASE Crash
  BY <1>4 DEF Crash
<1>5. CASE UNCHANGED workerVars
  BY <1>1, <1>5 DEF workerVars
<1>6. QED
  BY <1>1, <1>2, <1>3, <1>4, <1>5 DEF Next, Enqueue, Reap, CarrierReceipt, Clock,
     BackoffElapses, ValidityEnds, ClaimGoesStale, Outlasts, Tick, vars

LEMMA BoundedStep ==
  ASSUME TypeOK, TypeOK', CurIsClaimed, CostInv, [Next]_vars, NEW m \in Messages
  PROVE  Bounded(m)'
<1>0. log[m] \in Row
  BY DEF TypeOK
<1>1. CASE \E c \in Messages : Enqueue(c)
  BY <1>1, BoundedEnqueue
<1>2. ASSUME NEW w \in Workers, WorkerStep(w) \/ StatementFails(w) PROVE Bounded(m)'
  BY <1>2, BoundedClaim, BoundedWire, BoundedAccepts, BoundedFinish, BoundedRefund
     DEF WorkerStep
<1>3. CASE Reap
  <2>1. \/ log'[m] = log[m]
        \/ log[m].status = "sending" /\ log[m].claim # "fresh"
    BY <1>0, <1>3, RowStatus DEF Reap
  <2>2. UNCHANGED <<credits, billed, pc, claimed, cur, acks, faults, outlasted>>
    BY <1>3 DEF Reap, workerVars, wireVars, faultVars
  <2>3. QED
    BY <2>1, <2>2, RowStep
<1>4. CASE Crash
  BY <1>4, BoundedCrash
<1>5. ASSUME NEW c \in Messages, NEW s \in Receipts, CarrierReceipt(c, s)
      PROVE  Bounded(m)'
  <2>1. log'[m] = log[m] \/ log'[m] = UpdateDLRReceived(log[m], s)
    BY <1>5 DEF CarrierReceipt, TypeOK
  <2>2. s \in ReceiptStatuses
    BY QueueAssumption
  <2>3. \/ log'[m] = log[m]
        \/ log'[m].status = log[m].status /\ log'[m].claim = log[m].claim
        \/ OffQueue(log'[m])
    BY <1>0, <2>1, <2>2, RowReceipt DEF OffQueue
  <2>4. UNCHANGED <<credits, billed, pc, claimed, cur, acks, faults, outlasted>>
    BY <1>5 DEF CarrierReceipt, workerVars, wireVars, faultVars
  <2>5. QED
    BY <2>3, <2>4, RowStep
<1>6. ASSUME NEW c \in Messages, Clock(c) PROVE Bounded(m)'
  <2>1. \/ log'[m] = log[m]
        \/ log'[m].status = log[m].status /\ log'[m].claim = log[m].claim
        \/ log'[m].status = log[m].status /\ \A w \in Workers : m \notin claimed[w]
    BY <1>0, <1>6 DEF Clock, BackoffElapses, ValidityEnds, ClaimGoesStale, Tick, TypeOK, Row
  <2>2. UNCHANGED <<credits, billed, pc, claimed, cur, acks, faults, outlasted>>
    BY <1>6 DEF Clock, BackoffElapses, ValidityEnds, ClaimGoesStale, Tick, workerVars,
       wireVars, faultVars
  <2>3. QED
    BY <2>1, <2>2, RowStep
<1>7. CASE \E c \in Messages : Outlasts(c)
  BY <1>7, BoundedOutlasts
<1>8. CASE UNCHANGED vars
  <2>1. UNCHANGED <<log, credits, billed, pc, claimed, cur, acks, faults, outlasted>>
    BY <1>8 DEF vars, rowVars, workerVars, wireVars, faultVars
  <2>2. QED
    BY <2>1, RowStep
<1>9. QED
  BY <1>1, <1>2, <1>3, <1>4, <1>5, <1>6, <1>7, <1>8 DEF Next

LEMMA CostInvInit == Init => CostInv
<1> SUFFICES ASSUME Init PROVE CostInv
  OBVIOUS
<1>1. NotifiedIsClosed
  BY DEF Init, NotifiedIsClosed
<1>2. ASSUME NEW m \in Messages PROVE Bounded(m)
  <2>1. Holders(m) = {} /\ Settlers(m) = {} /\ Dispatchers(m) = {}
    BY DEF Init, Holders, Settlers, Dispatchers
  <2>2. Cardinality({}) = 0
    BY FS_EmptySet
  <2>3. Ticket(m) \in {0, 1}
    BY DEF Ticket
  <2>4. QED
    BY <2>1, <2>2, <2>3 DEF Init, Bounded
<1>3. QED
  BY <1>1, <1>2 DEF CostInv

\* Each message has one ticket, and no claim, entry or dispatch without it,
\* except those an outlasting claim or a fault stands for.
THEOREM CostsAreBounded == Spec => []CostInv
<1>1. TypeOK /\ CurIsClaimed /\ CostInv /\ [Next]_vars => CostInv'
  BY QueueTypeStep, NotifiedStep, BoundedStep DEF CostInv
<1>2. QED
  BY <1>1, CostInvInit, QueueTypeOK, PTL DEF Spec

LEMMA CostsImply ==
  TypeOK /\ CurIsClaimed /\ CostInv => ExclusiveClaim /\ SettledOnce /\ ResendNeedsFault
<1> SUFFICES ASSUME TypeOK, CurIsClaimed, CostInv, NEW m \in Messages
             PROVE  /\ Cardinality({w \in Workers : m \in claimed[w]}) <= 1 + outlasted
                    /\ credits[m] + billed[m] <= 1 + outlasted
                    /\ acks[m] + Cardinality(OnWire(m)) <= 1 + faults + outlasted
  BY DEF ExclusiveClaim, SettledOnce, ResendNeedsFault
<1>1. Holders(m) \in SUBSET Workers /\ Settlers(m) \in SUBSET Workers /\ Dispatchers(m) \in SUBSET Workers
  BY DEF Holders, Settlers, Dispatchers
<1>2. /\ Cardinality(Holders(m)) \in Nat /\ Cardinality(Settlers(m)) \in Nat
      /\ Cardinality(Dispatchers(m)) \in Nat
  BY <1>1, Count
<1>3. Ticket(m) \in {0, 1} /\ Bounded(m)
  BY DEF Ticket, CostInv
<1>4. Cardinality(Holders(m)) <= 1 + outlasted
  BY <1>2, <1>3 DEF Bounded, TypeOK
<1>5. OnWire(m) \subseteq Dispatchers(m)
  BY DEF OnWire, Dispatchers, Holders, CurIsClaimed
<1>6. Cardinality(OnWire(m)) \in Nat /\ Cardinality(OnWire(m)) <= Cardinality(Dispatchers(m))
  <2>1. IsFiniteSet(Dispatchers(m))
    BY <1>1, FS_Subset, QueueAssumption
  <2>2. QED
    BY <2>1, <1>5, FS_Subset, FS_CardinalityType
<1>7. QED
  BY <1>2, <1>3, <1>4, <1>6 DEF Bounded, TypeOK, Holders

\* Two live workers hold one row only if a claim outlasted the stuck window,
\* and each such claim costs one more holder at most.
THEOREM NoTwoWorkersOneRow == Spec => []ExclusiveClaim
<1>1. QueueInv => CurIsClaimed
  BY DEF QueueInv
<1>2. QED
  BY <1>1, QueueInvHolds, CostsAreBounded, CostsImply, QueueTypeOK, PTL

\* A message is billed once or refunded once, never both, but for one more
\* settlement per outlasting claim, whatever else fails; and until there is one,
\* what is refunded stays out of the queue.
THEOREM SettledAtMostOnce ==
  Spec => [](SettledOnce /\ (outlasted = 0 => RefundLeavesQueue))
<1>1. QueueInv => CurIsClaimed /\ (outlasted = 0 => RefundLeavesQueue)
  BY DEF QueueInv, OwnerInv
<1>2. QED
  BY <1>1, QueueInvHolds, CostsAreBounded, CostsImply, QueueTypeOK, PTL

\* After an answered acceptance the message is offered to a carrier again at
\* most once per fault or outlasting claim.
THEOREM ResendsAreFaults == Spec => []ResendNeedsFault
<1>1. QueueInv => CurIsClaimed
  BY DEF QueueInv
<1>2. QED
  BY <1>1, QueueInvHolds, CostsAreBounded, CostsImply, QueueTypeOK, PTL

-----------------------------------------------------------------------------
(* Refinement of the prepaid contract.                                     *)

LEMMA PrepaidInit == Init => P!Init
  BY DEF Init, P!Init, Account

LEMMA PrepaidEnqueue ==
  ASSUME TypeOK, OwnerInv, NEW m \in Messages, Enqueue(m)
  PROVE  P!Reserve(m)
<1> USE DEF TypeOK, OwnerInv
<1>1. /\ balance >= Charge[m] /\ balance' = balance - Charge[m]
      /\ debits' = [debits EXCEPT ![m] = @ + 1]
      /\ UNCHANGED <<credits, billed>> /\ log[m].status = "none"
  BY DEF Enqueue
<1>2. debits[m] = 0 /\ credits[m] = 0 /\ billed[m] = 0
  BY <1>1 DEF DebitedOnce, InQueueUnsettled
<1>3. Account(m) = "none" /\ Account(m)' = "held"
  BY <1>1, <1>2 DEF Account
<1>4. \A n \in Messages \ {m} : Account(n)' = Account(n)
  BY <1>1 DEF Account
<1>5. QED
  BY <1>1, <1>3, <1>4 DEF P!Reserve

LEMMA PrepaidBill ==
  ASSUME TypeOK, OwnerInv, NEW w \in Workers, Bill(w)
  PROVE  \E m \in Messages : P!Sell(m)
<1> USE DEF TypeOK, OwnerInv
<1>1. cur[w] \in claimed[w] /\ pc[w] = "bill"
  BY DEF Bill, CurIsClaimed
<1>2. PICK m \in Messages : m = cur[w]
  BY <1>1
<1>3. Unsettled(m)
  BY <1>1, <1>2 DEF ClaimsAreUnsettled
<1>4. /\ billed' = [billed EXCEPT ![m] = @ + 1]
      /\ UNCHANGED <<balance, debits, credits>>
  BY <1>2 DEF Bill
<1>5. debits[m] = 1 /\ credits[m] = 0 /\ billed[m] = 0
  BY <1>3 DEF Unsettled, DebitedOnce
<1>6. Account(m) = "held" /\ Account(m)' = "sold"
  BY <1>4, <1>5 DEF Account
<1>7. \A n \in Messages \ {m} : Account(n)' = Account(n)
  BY <1>4 DEF Account
<1>8. P!Sell(m)
  BY <1>4, <1>6, <1>7 DEF P!Sell
<1>9. QED
  BY <1>8

LEMMA PrepaidRefund ==
  ASSUME TypeOK, OwnerInv, NEW w \in Workers, Refund(w)
  PROVE  \E m \in Messages : P!Return(m)
<1> USE DEF TypeOK, OwnerInv
<1>1. cur[w] \in claimed[w] /\ pc[w] = "refund"
  BY DEF Refund, CurIsClaimed
<1>2. PICK m \in Messages : m = cur[w]
  BY <1>1
<1>3. Unsettled(m)
  BY <1>1, <1>2 DEF ClaimsAreUnsettled
<1>4. /\ credits' = [credits EXCEPT ![m] = @ + 1]
      /\ balance' = balance + Charge[m]
      /\ UNCHANGED <<debits, billed>>
  BY <1>2 DEF Refund
<1>5. debits[m] = 1 /\ credits[m] = 0 /\ billed[m] = 0
  BY <1>3 DEF Unsettled, DebitedOnce
<1>6. Account(m) = "held" /\ Account(m)' = "returned"
  BY <1>4, <1>5 DEF Account
<1>7. \A n \in Messages \ {m} : Account(n)' = Account(n)
  BY <1>4 DEF Account
<1>8. P!Return(m)
  BY <1>4, <1>6, <1>7 DEF P!Return
<1>9. QED
  BY <1>8

\* No other step touches the balance or a ledger.
LEMMA PrepaidStutter ==
  ASSUME UNCHANGED <<balance, debits, credits, billed>>
  PROVE  UNCHANGED P!prepaidVars
  BY DEF P!prepaidVars, Account

LEMMA PrepaidStep ==
  TypeOK /\ OwnerInv /\ [Next]_vars => [P!Next]_(P!prepaidVars)
<1> SUFFICES ASSUME TypeOK, OwnerInv, [Next]_vars PROVE [P!Next]_(P!prepaidVars)
  OBVIOUS
<1>1. CASE \E m \in Messages : Enqueue(m)
  BY <1>1, PrepaidEnqueue DEF P!Next
<1>2. CASE \E w \in Workers : Bill(w)
  BY <1>2, PrepaidBill DEF P!Next
<1>3. CASE \E w \in Workers : Refund(w)
  BY <1>3, PrepaidRefund DEF P!Next
<1>4. CASE UNCHANGED <<balance, debits, credits, billed>>
  BY <1>4, PrepaidStutter
<1>5. QED
  BY <1>1, <1>2, <1>3, <1>4 DEF Next, WorkerStep, Claim, Take, CarrierAccepts, CarriersFail,
     Requeue, BillFails, ForceAccepted, Notify, StatementFails, Reap, Crash, CarrierReceipt,
     Clock, BackoffElapses, ValidityEnds, ClaimGoesStale, Outlasts, Tick, vars, rowVars

\* Until a claim outlasts the window, reservations are covered by the balance,
\* refunds return what was reserved, and a settled charge is never touched
\* again: the queue is prepaid.
THEOREM QueueImplementsPrepaid == Spec => ImplementsPrepaid
<1>1. TypeOK /\ QueueInv /\ [Next]_vars
        => [outlasted' = 0 => [P!Next]_(P!prepaidVars)]_vars
  <2> SUFFICES ASSUME TypeOK, QueueInv, [Next]_vars, outlasted' = 0
               PROVE  [P!Next]_(P!prepaidVars)
    OBVIOUS
  <2>1. OwnerInv
    BY OutlastedGrows DEF QueueInv
  <2> QED
    BY <2>1, PrepaidStep
<1>2. Spec => []TypeOK
  BY QueueTypeOK, PTL
<1>3. Spec => []QueueInv
  BY QueueInvHolds
<1>4. QED
  BY <1>1, <1>2, <1>3, PrepaidInit, PTL DEF Spec, ImplementsPrepaid

-----------------------------------------------------------------------------
(* The prepaid contract itself, of which the queue and the synchronous     *)
(* path only take steps.                                                   *)

LEMMA ContractHolds == P!PrepaidAssumption
  BY QueueAssumption DEF P!PrepaidAssumption

LEMMA ContractType == P!Spec => []P!TypeOK
<1>1. P!Init => P!TypeOK
  BY ContractHolds DEF P!PrepaidAssumption, P!Init, P!TypeOK
<1>2. P!TypeOK /\ [P!Next]_(P!prepaidVars) => P!TypeOK'
  <2> SUFFICES ASSUME P!TypeOK, [P!Next]_(P!prepaidVars) PROVE P!TypeOK'
    OBVIOUS
  <2> USE ContractHolds DEF P!PrepaidAssumption, P!TypeOK
  <2>1. ASSUME NEW m \in Messages, P!Reserve(m) \/ P!Return(m) PROVE P!TypeOK'
    <3>1. balance' \in Int
      BY <2>1 DEF P!Reserve, P!Return
    <3>2. [n \in Messages |-> Account(n)]' \in [Messages -> {"none", "held", "sold", "returned"}]
      BY <2>1 DEF P!Reserve, P!Return
    <3>3. QED
      BY <3>1, <3>2
  <2>2. ASSUME NEW m \in Messages, P!Sell(m) PROVE P!TypeOK'
    BY <2>2 DEF P!Sell
  <2>3. CASE UNCHANGED P!prepaidVars
    BY <2>3 DEF P!prepaidVars
  <2>4. QED
    BY <2>1, <2>2, <2>3 DEF P!Next
<1>3. QED
  BY <1>1, <1>2, PTL DEF P!Spec

\* A settled charge is settled for good.
THEOREM SettlementIsFinal == P!Spec => P!ClosedForGood
<1> DEFINE account == [m \in Messages |-> Account(m)]
           Closed == \A m \in Messages : account[m] \in {"sold", "returned"} => account'[m] = account[m]
<1>1. P!TypeOK /\ [P!Next]_(P!prepaidVars) => [Closed]_(P!prepaidVars)
  <2> SUFFICES ASSUME P!TypeOK, P!Next PROVE Closed
    OBVIOUS
  <2>1. PICK m \in Messages : P!Reserve(m) \/ P!Sell(m) \/ P!Return(m)
    BY DEF P!Next
  <2>2. PICK s : account' = [account EXCEPT ![m] = s]
    BY <2>1 DEF P!Reserve, P!Sell, P!Return
  <2>3. account[m] \in {"none", "held"}
    BY <2>1 DEF P!Reserve, P!Sell, P!Return
  <2>4. QED
    BY <2>2, <2>3
<1>2. QED
  BY <1>1, ContractType, PTL DEF P!Spec, P!ClosedForGood
=============================================================================

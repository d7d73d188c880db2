----------------------------- MODULE SendQueue ------------------------------
(***************************************************************************)
(* The asynchronous send path (internal/sending/queue.go): enqueue         *)
(* reserves the charge and writes a queued row; a pool of workers claims   *)
(* rows in batches, dispatches each through the carriers with no           *)
(* transaction open, and finalises it; a reaper requeues rows whose claim  *)
(* is older than the stuck window; the process may crash or be stopped     *)
(* between any two database statements, and a statement may fail.          *)
(*                                                                         *)
(* A database transaction is one step: ClientLedger models the client's    *)
(* row lock, which makes that sound.                                       *)
(***************************************************************************)
EXTENDS Integers, FiniteSets, SmsLog

CONSTANTS
  Messages,        \* messages of one client
  Workers,         \* goroutines of the worker pool
  BatchLimit,      \* rows one claim may take (batch / workers, at least 1)
  Charge,          \* total_charged of each message
  OpeningBalances,  \* clients.balance the history may start with
  Receipts,        \* carrier receipt statuses the environment may produce
  MaxFaults,       \* bound on crashes, failed statements and outlasted claims
  NoMsg            \* no current message

ASSUME QueueAssumption ==
  /\ IsFiniteSet(Workers)
  /\ BatchLimit \in Nat \ {0}
  /\ Charge \in [Messages -> Nat \ {0}]
  /\ OpeningBalances \subseteq Nat
  /\ Receipts \subseteq ReceiptStatuses
  /\ MaxFaults \in Nat
  /\ NoMsg \notin Messages

VARIABLES
  log,       \* sms_logs, one row per message
  balance,   \* clients.balance
  pc,        \* where each worker stands in worker() / dispatchOne()
  claimed,   \* rows the worker's last claim returned and it has not finished
  late,      \* those returned with Expired = true
  cur,       \* the row being processed
  \* History, read by the properties and the environment only.
  debits,    \* debit ledger entries posted for the message
  credits,   \* refund ledger entries posted for the message
  acks,      \* dispatches a carrier answered with an acceptance
  took,      \* messages some carrier has, whether or not its answer arrived
  billed,    \* carrier charges posted for the message
  faults,    \* crashes and failed statements so far
  outlasted  \* claims of live workers that outlasted the stuck window

rowVars    == <<log, balance, debits, credits, billed>>
workerVars == <<pc, claimed, late, cur>>
wireVars   == <<acks, took>>
faultVars  == <<faults, outlasted>>
vars       == <<rowVars, workerVars, wireVars, faultVars>>

Steps == {"loop", "wire", "requeue", "bill", "force", "refund", "notify"}

TypeOK ==
  /\ log \in [Messages -> Row]
  /\ balance \in Int
  /\ pc \in [Workers -> Steps]
  /\ claimed \in [Workers -> SUBSET Messages]
  /\ late \in [Workers -> SUBSET Messages]
  /\ cur \in [Workers -> Messages \cup {NoMsg}]
  /\ debits \in [Messages -> Nat]
  /\ credits \in [Messages -> Nat]
  /\ acks \in [Messages -> Nat]
  /\ took \in SUBSET Messages
  /\ billed \in [Messages -> Nat]
  /\ faults \in Nat
  /\ outlasted \in Nat

Init ==
  /\ log = [m \in Messages |-> NoRow]
  /\ balance \in OpeningBalances
  /\ pc = [w \in Workers |-> "loop"]
  /\ claimed = [w \in Workers |-> {}]
  /\ late = [w \in Workers |-> {}]
  /\ cur = [w \in Workers |-> NoMsg]
  /\ debits = [m \in Messages |-> 0]
  /\ credits = [m \in Messages |-> 0]
  /\ acks = [m \in Messages |-> 0]
  /\ took = {}
  /\ billed = [m \in Messages |-> 0]
  /\ faults = 0
  /\ outlasted = 0

MayFail == faults + outlasted < MaxFaults

Fault == MayFail /\ faults' = faults + 1 /\ UNCHANGED outlasted

-----------------------------------------------------------------------------
(* Ingress. *)

\* enqueue: lock the client, check the balance, insert the row, stamp it
\* queued, post the debit, commit; any failure rolls all of it back.
Enqueue(m) ==
  /\ log[m].status = "none"
  /\ balance >= Charge[m]
  /\ log' = [log EXCEPT ![m] = StampQueued(@)]
  /\ balance' = balance - Charge[m]
  /\ debits' = [debits EXCEPT ![m] = @ + 1]
  /\ UNCHANGED <<credits, billed, workerVars, wireVars, faultVars>>

-----------------------------------------------------------------------------
(* Workers. *)

\* ClaimQueuedForSend: one UPDATE over due rows.  SKIP LOCKED may pass over
\* any of them, and RETURNING promises no order, so a claim is a set.
Claim(w) ==
  /\ pc[w] = "loop" /\ claimed[w] = {}
  /\ \E S \in SUBSET {m \in Messages : Claimable(log[m])} :
       /\ S # {} /\ Cardinality(S) <= BatchLimit
       /\ log' = [m \in Messages |->
                    IF m \in S THEN ClaimForSend(log[m]) ELSE log[m]]
       /\ claimed' = [claimed EXCEPT ![w] = S]
       /\ late' = [late EXCEPT ![w] = {m \in S : log[m].expired}]
  /\ UNCHANGED <<balance, debits, credits, billed, pc, cur, wireVars, faultVars>>

Goto(w, step) == pc' = [pc EXCEPT ![w] = step]

\* A deviation: the Expired flag of the claim is not looked at.
ForgetsExpiry(w, m) == Goto(w, "wire")

\* The head of dispatchOne: an expired row, or one whose route lookup finds
\* nothing or fails, is given up; any other goes to the carriers.
Route(w, m) ==
  \/ Goto(w, "refund")
  \/ m \notin late[w] /\ Goto(w, "wire")

Take(w) ==
  /\ pc[w] = "loop"
  /\ \E m \in claimed[w] :
       /\ Route(w, m)
       /\ cur' = [cur EXCEPT ![w] = m]
  /\ UNCHANGED <<rowVars, claimed, late, wireVars, faultVars>>

\* The worker is done with its current row.
Finish(w) ==
  /\ Goto(w, "loop")
  /\ claimed' = [claimed EXCEPT ![w] = @ \ {cur[w]}]
  /\ late' = [late EXCEPT ![w] = @ \ {cur[w]}]
  /\ cur' = [cur EXCEPT ![w] = NoMsg]

\* dispatchWithFailover returns a winner: some carrier accepted.
CarrierAccepts(w) ==
  /\ pc[w] = "wire"
  /\ acks' = [acks EXCEPT ![cur[w]] = @ + 1]
  /\ took' = took \cup {cur[w]}
  /\ Goto(w, "bill")
  /\ UNCHANGED <<rowVars, claimed, late, cur, faultVars>>

\* dispatchWithFailover returns an error.  A carrier whose answer was lost
\* (timeout, broken bind) may have taken the message all the same.
CarriersFail(w) ==
  /\ pc[w] = "wire"
  /\ took' \in {took, took \cup {cur[w]}}
  /\ Goto(w, "requeue")
  /\ UNCHANGED <<rowVars, claimed, late, cur, acks, faultVars>>

Requeue(w) ==
  /\ pc[w] = "requeue"
  /\ log' = [log EXCEPT ![cur[w]] = RequeueSMS(@)]
  /\ Finish(w)
  /\ UNCHANGED <<balance, debits, credits, billed, wireVars, faultVars>>

\* finalizeSent: carrier charge, usage, MarkSMSAccepted and timeline in one
\* transaction.
Bill(w) ==
  /\ pc[w] = "bill"
  /\ log' = [log EXCEPT ![cur[w]] = MarkSMSAccepted(@)]
  /\ billed' = [billed EXCEPT ![cur[w]] = @ + 1]
  /\ Finish(w)
  /\ UNCHANGED <<balance, debits, credits, wireVars, faultVars>>

\* The billing transaction fails (a zero carrier cost violates
\* CHECK (amount > 0), a cost lookup errs) and rolls back.
BillFails(w) ==
  /\ pc[w] = "bill"
  /\ Goto(w, "force")
  /\ UNCHANGED <<rowVars, claimed, late, cur, wireVars, faultVars>>

ForceAccepted(w) ==
  /\ pc[w] = "force"
  /\ log' = [log EXCEPT ![cur[w]] = ForceMarkAccepted(@)]
  /\ Finish(w)
  /\ UNCHANGED <<balance, debits, credits, billed, wireVars, faultVars>>

\* finalizeUndelivered: MarkSMSUndelivered and the refund in one transaction.
Refund(w) ==
  /\ pc[w] = "refund"
  /\ log' = [log EXCEPT ![cur[w]] = MarkSMSUndelivered(@)]
  /\ balance' = balance + Charge[cur[w]]
  /\ credits' = [credits EXCEPT ![cur[w]] = @ + 1]
  /\ Goto(w, "notify")
  /\ UNCHANGED <<debits, billed, claimed, late, cur, wireVars, faultVars>>

\* NotifyUndelivered: HandleInbound with status "undelivered".
Notify(w) ==
  /\ pc[w] = "notify"
  /\ log' = [log EXCEPT ![cur[w]] = UpdateDLRReceived(@, "undelivered")]
  /\ Finish(w)
  /\ UNCHANGED <<balance, debits, credits, billed, wireVars, faultVars>>

\* A statement fails and its error is logged or dropped: the row is left as
\* it is and the worker moves on (RequeueSMS, ForceMarkAccepted, the refund
\* transaction and HandleInbound are all handled this way).
StatementFails(w) ==
  /\ pc[w] \in {"requeue", "force", "refund", "notify"}
  /\ Fault
  /\ Finish(w)
  /\ UNCHANGED <<rowVars, wireVars>>

-----------------------------------------------------------------------------
(* Reaper, crashes, receipts and the clock. *)

\* One UPDATE over every row whose claim is outside the stuck window.
Reap ==
  /\ \E m \in Messages : Stuck(log[m])
  /\ log' = [m \in Messages |-> ReapStuckSending(log[m])]
  /\ UNCHANGED <<balance, debits, credits, billed, workerVars, wireVars, faultVars>>

\* The process dies, or Stop cancels the context every statement runs under,
\* and a new process starts: the workers' memory is gone, the rows are not.
Crash ==
  /\ Fault
  /\ pc' = [w \in Workers |-> "loop"]
  /\ claimed' = [w \in Workers |-> {}]
  /\ late' = [w \in Workers |-> {}]
  /\ cur' = [w \in Workers |-> NoMsg]
  /\ UNCHANGED <<rowVars, wireVars>>

\* An HTTP receipt carries our message id, so it can arrive as soon as a
\* carrier has the message, whatever the row says.
CarrierReceipt(m, s) ==
  /\ m \in took
  /\ ReceiptApplies(log[m], s)
  /\ log' = [log EXCEPT ![m] = UpdateDLRReceived(@, s)]
  /\ UNCHANGED <<balance, debits, credits, billed, workerVars, wireVars, faultVars>>

Tick(m, row) ==
  /\ log[m].status \in {"queued", "sending"}
  /\ log' = [log EXCEPT ![m] = row]
  /\ UNCHANGED <<balance, debits, credits, billed, workerVars, wireVars, faultVars>>

BackoffElapses(m) ==
  /\ log[m].status = "queued" /\ ~log[m].due
  /\ Tick(m, [log[m] EXCEPT !.due = TRUE])

ValidityEnds(m) ==
  /\ ~log[m].expired
  /\ Tick(m, [log[m] EXCEPT !.expired = TRUE])

\* The worker that claimed the row is gone or has finished with it.
ClaimGoesStale(m) ==
  /\ log[m].status = "sending" /\ log[m].claim = "fresh"
  /\ \A w \in Workers : m \notin claimed[w]
  /\ Tick(m, [log[m] EXCEPT !.claim = "stale"])

\* A live worker's claim outlasts the stuck window: the reaper, which only
\* looks at the claim's age, will take the worker for dead.
Outlasts(m) ==
  /\ log[m].status = "sending" /\ log[m].claim = "fresh"
  /\ \E w \in Workers : m \in claimed[w]
  /\ MayFail
  /\ log' = [log EXCEPT ![m].claim = "stale"]
  /\ outlasted' = outlasted + 1
  /\ UNCHANGED <<balance, debits, credits, billed, workerVars, wireVars, faults>>

-----------------------------------------------------------------------------
WorkerStep(w) ==
  \/ Claim(w) \/ Take(w)
  \/ CarrierAccepts(w) \/ CarriersFail(w)
  \/ Requeue(w) \/ Bill(w) \/ BillFails(w) \/ ForceAccepted(w)
  \/ Refund(w) \/ Notify(w)

Clock(m) == BackoffElapses(m) \/ ValidityEnds(m) \/ ClaimGoesStale(m)

Next ==
  \/ \E m \in Messages : Enqueue(m)
  \/ \E w \in Workers : WorkerStep(w) \/ StatementFails(w)
  \/ Reap
  \/ Crash
  \/ \E m \in Messages, s \in Receipts : CarrierReceipt(m, s)
  \/ \E m \in Messages : Clock(m) \/ Outlasts(m)

Spec == Init /\ [][Next]_vars

\* Goroutines run (the worker loop and the reaper's ticker never block for
\* good: every wait has a timeout) and time passes.
Fairness ==
  /\ \A w \in Workers : WF_vars(WorkerStep(w))
  /\ WF_vars(Reap)
  /\ \A m \in Messages : WF_vars(BackoffElapses(m))
  /\ \A m \in Messages : WF_vars(ValidityEnds(m))
  /\ \A m \in Messages : WF_vars(ClaimGoesStale(m))

FairSpec == Spec /\ Fairness

-----------------------------------------------------------------------------
(* Properties. *)

\* Two live workers never hold the same row, so no message is dispatched
\* twice at the same time (FOR UPDATE SKIP LOCKED plus the stuck window);
\* each claim that outlasts the window costs one more holder at most.
ExclusiveClaim ==
  \A m \in Messages : Cardinality({w \in Workers : m \in claimed[w]}) <= 1 + outlasted

\* Across retries, crashes and failed statements, a message ends up with at
\* most one carrier charge or one refund, and never with both; again a claim
\* that outlasts the window costs one more at most.
SettledOnce == \A m \in Messages : credits[m] + billed[m] <= 1 + outlasted

-----------------------------------------------------------------------------
(* The inductive invariant.                                                *)

\* No row is in the hands of two workers.
OneHolder ==
  \A v, w \in Workers : v # w => claimed[v] \cap claimed[w] = {}

SettledSingly == \A m \in Messages : credits[m] + billed[m] <= 1

\* Once the client has its money back the message is out of the queue for
\* good: it is neither waiting, nor being dispatched, nor accepted.
RefundLeavesQueue ==
  \A m \in Messages :
    credits[m] > 0 => log[m].status \notin {"queued", "sending", "accepted"}

CurIsClaimed ==
  \A w \in Workers : pc[w] # "loop" => cur[w] \in claimed[w]

\* A row a worker still has to finalise: being sent under a fresh claim, or
\* moved on by a receipt only, with nothing refunded and nothing billed.
Unsettled(m) ==
  /\ log[m].status \notin {"none", "queued", "accepted", "undelivered"}
  /\ log[m].status = "sending" => log[m].claim = "fresh"
  /\ credits[m] = 0 /\ billed[m] = 0

Refunded(m) ==
  log[m].status \notin {"none", "queued", "sending", "accepted"}

ClaimsAreUnsettled ==
  \A w \in Workers : \A m \in claimed[w] :
    IF pc[w] = "notify" /\ cur[w] = m THEN Refunded(m) ELSE Unsettled(m)

InQueueUnsettled ==
  \A m \in Messages :
    log[m].status \in {"none", "queued", "sending"}
      => credits[m] = 0 /\ billed[m] = 0

DebitedOnce ==
  \A m \in Messages : debits[m] = IF log[m].status = "none" THEN 0 ELSE 1

\* Between a claim and its finalisation exactly one worker owns the row and
\* nothing has been settled; rows in the queue are never settled.
OwnerInv ==
  /\ OneHolder
  /\ CurIsClaimed
  /\ ClaimsAreUnsettled
  /\ InQueueUnsettled
  /\ DebitedOnce
  /\ SettledSingly
  /\ RefundLeavesQueue

\* So it is until a live worker's claim outlasts the stuck window.
QueueInv == CurIsClaimed /\ (outlasted = 0 => OwnerInv)

-----------------------------------------------------------------------------
(* What a claim that outlasts the window costs: the inductive invariant    *)
(* without the condition that there is none.  A message has one ticket for *)
(* being claimed, which a claim hands to the worker and the worker either  *)
(* spends or gives back; an outlasting claim, and for dispatches a fault,  *)
(* issues one more.                                                        *)

Holders(m) == {w \in Workers : m \in claimed[w]}

\* Those that may still bill or refund the message, and those that may still
\* hand it to a carrier.
Settlers(m) == {w \in Holders(m) : ~(cur[w] = m /\ pc[w] = "notify")}
Dispatchers(m) ==
  {w \in Holders(m) : ~(cur[w] = m /\ pc[w] \in {"bill", "force", "refund", "notify"})}

\* Those that are offering it to a carrier.
OnWire(m) == {w \in Workers : pc[w] = "wire" /\ cur[w] = m}

\* The message can be claimed, now or once the reaper has been there.
InQueue(m) ==
  \/ log[m].status \in {"none", "queued"}
  \/ /\ log[m].status = "sending"
     /\ log[m].claim # "fresh" \/ Holders(m) = {}

Ticket(m) == IF InQueue(m) THEN 1 ELSE 0

Bounded(m) ==
  /\ Cardinality(Holders(m)) + Ticket(m) <= 1 + outlasted
  /\ credits[m] + billed[m] + Cardinality(Settlers(m)) + Ticket(m) <= 1 + outlasted
  /\ acks[m] + Cardinality(Dispatchers(m)) + Ticket(m) <= 1 + faults + outlasted

OffQueue(row) == row.status \notin {"none", "queued", "sending"}

\* A message whose client is told it was not delivered is out of the queue.
NotifiedIsClosed ==
  \A w \in Workers : pc[w] = "notify" => OffQueue(log[cur[w]])

CostInv == NotifiedIsClosed /\ \A m \in Messages : Bounded(m)

-----------------------------------------------------------------------------
\* Once a carrier has answered with an acceptance the message is not offered
\* to a carrier again, by any worker, unless a crash, a failed statement or a
\* claim that outlasted the window came before the row's update; each costs one
\* more offer at most.  A carrier that took the message and whose answer was
\* lost is not counted: dispatchWithFailover returns an error, the row is
\* requeued (queue.go:246-252) and the message goes out again without any fault.
ResendNeedsFault ==
  \A m \in Messages : acks[m] + Cardinality(OnWire(m)) <= 1 + faults + outlasted

\* What a client is charged, refunded and sold follows the prepaid contract.
Account(m) ==
  IF credits[m] > 0 THEN "returned"
  ELSE IF billed[m] > 0 THEN "sold"
  ELSE IF debits[m] > 0 THEN "held" ELSE "none"

P == INSTANCE Prepaid WITH account <- [m \in Messages |-> Account(m)]

\* Every step of the queue is a step of the prepaid contract, or none, until
\* a claim outlasts the window: reservations are covered, refunds are exact,
\* settlements are final.
ImplementsPrepaid ==
  P!Init /\ [][outlasted' = 0 => [P!Next]_(P!prepaidVars)]_vars

\* Every message whose charge was reserved leaves the queue: it is accepted,
\* finally receipted or refunded, even if every carrier refuses it for ever.
QueueDrains ==
  \A m \in Messages :
    log[m].status \in {"queued", "sending"}
      ~> log[m].status \notin {"queued", "sending"}
=============================================================================

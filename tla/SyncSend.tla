------------------------------ MODULE SyncSend ------------------------------
(***************************************************************************)
(* The synchronous send path (internal/sending/submit.go, queue disabled): *)
(* one request goroutine reserves the charge and writes a 'sending' row,   *)
(* dispatches with no transaction open, and finalises.  Its statements run *)
(* under the request's context, so an HTTP client that goes away cancels   *)
(* them.  Nothing reaps a 'sending' row: boot recovery lists them once and *)
(* refunds them one by one (sync_recover.go), after the SMPP listener is   *)
(* already open (runtime.go) and before the HTTP one is (main.go).         *)
(***************************************************************************)
EXTENDS Integers, SmsLog

CONSTANTS
  Messages,         \* messages of one client
  MaySmpp,          \* those the client may submit over SMPP; the others use HTTP
  Charge,           \* total_charged of each message
  OpeningBalances,  \* clients.balance the history may start with
  Receipts,         \* carrier receipt statuses the environment may produce
  RefundSettings,   \* values refund_on_carrier_failure takes
  MaxFaults         \* bound on crashes and failed statements

ASSUME SyncAssumption ==
  /\ MaySmpp \subseteq Messages
  /\ Charge \in [Messages -> Nat \ {0}]
  /\ OpeningBalances \subseteq Nat
  /\ Receipts \subseteq ReceiptStatuses
  /\ RefundSettings \subseteq BOOLEAN /\ RefundSettings # {}
  /\ MaxFaults \in Nat

VARIABLES
  smpp,      \* messages submitted over SMPP, the client's choice
  log,       \* sms_logs, one row per message
  balance,   \* clients.balance
  pc,        \* the request goroutine of each message in this process
  boot,      \* "list", "recover", then "up" (HTTP open)
  leftover,  \* rows ListStuckSending returned, not yet dealt with
  \* History, read by the properties and the environment only.
  debits,    \* debit ledger entries posted for the message
  credits,   \* refund ledger entries posted for the message
  took,      \* messages some carrier has, whether or not its answer arrived
  billed,    \* carrier charges posted for the message
  missed,    \* rows this boot's recovery failed to refund
  faults     \* crashes and failed statements so far

rowVars  == <<log, balance, debits, credits, billed>>
bootVars == <<boot, leftover, missed>>
vars     == <<smpp, rowVars, bootVars, took, pc, faults>>

InFlight == {"wire", "bill", "force", "fail"}

TypeOK ==
  /\ smpp \subseteq Messages
  /\ log \in [Messages -> Row]
  /\ balance \in Int
  /\ pc \in [Messages -> InFlight \cup {"idle", "done"}]
  /\ boot \in {"list", "recover", "up"}
  /\ leftover \subseteq Messages
  /\ debits \in [Messages -> Nat]
  /\ credits \in [Messages -> Nat]
  /\ took \subseteq Messages
  /\ billed \in [Messages -> Nat]
  /\ missed \subseteq Messages
  /\ faults \in Nat

Init ==
  /\ smpp \in SUBSET MaySmpp
  /\ log = [m \in Messages |-> NoRow]
  /\ balance \in OpeningBalances
  /\ pc = [m \in Messages |-> "idle"]
  /\ boot = "list" /\ leftover = {} /\ missed = {}
  /\ debits = [m \in Messages |-> 0]
  /\ credits = [m \in Messages |-> 0]
  /\ took = {}
  /\ billed = [m \in Messages |-> 0]
  /\ faults = 0

Fault == faults < MaxFaults /\ faults' = faults + 1

Goto(m, step) == pc' = [pc EXCEPT ![m] = step]

-----------------------------------------------------------------------------
(* One request. *)

\* reserveSend: lock the client, check the balance, insert the row, stamp it
\* sending, post the debit, commit.
Reserve(m) ==
  /\ log[m].status = "none"
  /\ m \in smpp \/ boot = "up"
  /\ balance >= Charge[m]
  /\ log' = [log EXCEPT ![m] = StampSending(@)]
  /\ balance' = balance - Charge[m]
  /\ debits' = [debits EXCEPT ![m] = @ + 1]
  /\ Goto(m, "wire")
  /\ UNCHANGED <<credits, billed, bootVars, took, faults>>

CarrierAccepts(m) ==
  /\ pc[m] = "wire"
  /\ took' = took \cup {m}
  /\ Goto(m, "bill")
  /\ UNCHANGED <<rowVars, bootVars, faults>>

\* A carrier whose answer was lost may have taken the message all the same.
CarriersFail(m) ==
  /\ pc[m] = "wire"
  /\ took' \in {took, took \cup {m}}
  /\ Goto(m, "fail")
  /\ UNCHANGED <<rowVars, bootVars, faults>>

\* finalizeSendAccepted: carrier charge, usage and MarkSMSAccepted in one
\* transaction.
Bill(m) ==
  /\ pc[m] = "bill"
  /\ log' = [log EXCEPT ![m] = MarkSMSAccepted(@)]
  /\ billed' = [billed EXCEPT ![m] = @ + 1]
  /\ Goto(m, "done")
  /\ UNCHANGED <<balance, debits, credits, bootVars, took, faults>>

\* The cost lookup errs or the transaction rolls back (a zero carrier cost
\* violates CHECK (amount > 0)).
BillFails(m) ==
  /\ pc[m] = "bill"
  /\ Goto(m, "force")
  /\ UNCHANGED <<rowVars, bootVars, took, faults>>

ForceAccepted(m) ==
  /\ pc[m] = "force"
  /\ log' = [log EXCEPT ![m] = ForceMarkAccepted(@)]
  /\ Goto(m, "done")
  /\ UNCHANGED <<balance, debits, credits, billed, bootVars, took, faults>>

\* finalizeSendFailed: MarkSMSFailed and, if the setting says so, the refund
\* in one transaction.
FailSend(m) ==
  /\ pc[m] = "fail"
  /\ log' = [log EXCEPT ![m] = MarkSMSFailed(@)]
  /\ \E refund \in RefundSettings :
       IF refund
       THEN /\ balance' = balance + Charge[m]
            /\ credits' = [credits EXCEPT ![m] = @ + 1]
       ELSE UNCHANGED <<balance, credits>>
  /\ Goto(m, "done")
  /\ UNCHANGED <<debits, billed, bootVars, took, faults>>

\* The last statement of the request fails; its error is dropped.
StatementFails(m) ==
  /\ pc[m] \in {"force", "fail"}
  /\ Fault
  /\ Goto(m, "done")
  /\ UNCHANGED <<rowVars, bootVars, took>>

\* The HTTP client goes away: r.Context() is cancelled, the dispatch and every
\* later statement fail.  SMPP submits run under the server's context.
Disconnect(m) ==
  /\ m \notin smpp
  /\ pc[m] \in InFlight
  /\ \/ UNCHANGED took
     \/ pc[m] = "wire" /\ took' = took \cup {m}
  /\ Goto(m, "done")
  /\ UNCHANGED <<rowVars, bootVars, faults>>

-----------------------------------------------------------------------------
(* Boot. *)

\* A deviation: recovery looks for aged claims, as the queue's reaper does.
StuckOnly == {m \in Messages : Stuck(log[m])}

\* ListStuckSending: its query names no age and no owner.
StuckSending == {m \in Messages : log[m].status = "sending"}

ListLeftovers ==
  /\ boot = "list"
  /\ leftover' = StuckSending
  /\ boot' = "recover"
  /\ UNCHANGED <<rowVars, took, pc, missed, faults>>

\* The list query fails: startup logs it and goes on.
ListFails ==
  /\ boot = "list"
  /\ Fault
  /\ missed' = {m \in Messages : log[m].status = "sending"}
  /\ boot' = "up"
  /\ UNCHANGED <<rowVars, took, pc, leftover>>

\* One listed row: MarkSMSUndelivered and the refund in one transaction.
Recover(m) ==
  /\ boot = "recover" /\ m \in leftover
  /\ log' = [log EXCEPT ![m] = MarkSMSUndelivered(@)]
  /\ balance' = balance + Charge[m]
  /\ credits' = [credits EXCEPT ![m] = @ + 1]
  /\ leftover' = leftover \ {m}
  /\ UNCHANGED <<debits, billed, took, pc, boot, missed, faults>>

\* The transaction fails: the row is passed over.
RecoverFails(m) ==
  /\ boot = "recover" /\ m \in leftover
  /\ Fault
  /\ leftover' = leftover \ {m}
  /\ missed' = missed \cup {m}
  /\ UNCHANGED <<rowVars, took, pc, boot>>

OpenHTTP ==
  /\ boot = "recover" /\ leftover = {}
  /\ boot' = "up"
  /\ UNCHANGED <<rowVars, took, pc, leftover, missed, faults>>

\* The process dies or is stopped, and a new one starts.
Crash ==
  /\ Fault
  /\ pc' = [m \in Messages |-> "idle"]
  /\ boot' = "list" /\ leftover' = {} /\ missed' = {}
  /\ UNCHANGED <<rowVars, took>>

\* HTTP receipts carry our message id and are taken once HTTP is open; SMPP
\* receipts carry the carrier's id, which a row has once it is accepted.
CarrierReceipt(m, s) ==
  /\ m \in took
  /\ boot = "up" \/ log[m].status = "accepted"
  /\ ReceiptApplies(log[m], s)
  /\ log' = [log EXCEPT ![m] = UpdateDLRReceived(@, s)]
  /\ UNCHANGED <<balance, debits, credits, billed, pc, bootVars, took, faults>>

-----------------------------------------------------------------------------
RequestStep(m) ==
  \/ Reserve(m)
  \/ CarrierAccepts(m) \/ CarriersFail(m)
  \/ Bill(m) \/ BillFails(m) \/ ForceAccepted(m) \/ FailSend(m)
  \/ StatementFails(m) \/ Disconnect(m)

BootStep ==
  \/ ListLeftovers \/ ListFails \/ OpenHTTP
  \/ \E m \in Messages : Recover(m) \/ RecoverFails(m)

Next ==
  /\ UNCHANGED smpp
  /\ \/ \E m \in Messages : RequestStep(m)
     \/ BootStep
     \/ Crash
     \/ \E m \in Messages, s \in Receipts : CarrierReceipt(m, s)

Spec == Init /\ [][Next]_vars

-----------------------------------------------------------------------------
(* Properties. *)

Http == Messages \ smpp

\* A message submitted over HTTP is settled once: it is never both billed and
\* refunded, nor refunded twice, be it by its own request and by boot recovery
\* or by two boots; and a refunded one never shows as accepted, nor as still
\* being sent.
SettledOnce ==
  \A m \in Http :
    /\ credits[m] + billed[m] <= 1
    /\ credits[m] > 0 => log[m].status \notin {"sending", "accepted"}

\* Once HTTP is open, every row still 'sending' belongs to a request of this
\* process, or recovery tried it and failed (RecoverStuckSyncSends).
LeftoversRecovered ==
  boot = "up" =>
    \A m \in Messages :
      log[m].status = "sending" => pc[m] # "idle" \/ m \in missed

\* Over SMPP, the overlap of boot recovery and live submits costs at most one
\* extra settlement of a message.
OneExtraSettlement == \A m \in smpp : credits[m] + billed[m] <= 2

\* Boot recovery, beside the requests already served, does both.
RecoverySettles == LeftoversRecovered /\ OneExtraSettlement

\* What a client is charged, refunded and sold follows the prepaid contract.
Account(m) ==
  IF credits[m] > 0 THEN "returned"
  ELSE IF billed[m] > 0 THEN "sold"
  ELSE IF debits[m] > 0 THEN "held" ELSE "none"

P == INSTANCE Prepaid WITH account <- [m \in Messages |-> Account(m)]

\* When every message comes over HTTP, the path runs as the prepaid contract.
ImplementsPrepaid ==
  /\ smpp = {} => P!Init
  /\ [][smpp = {} => [P!Next]_(P!prepaidVars)]_vars

-----------------------------------------------------------------------------
(* The inductive invariant behind SettledOnce and ImplementsPrepaid.        *)

\* A row that is being sent, or that only a receipt has moved on.
Unsettled(m) ==
  /\ log[m].status \notin {"none", "queued", "accepted", "undelivered"}
  /\ credits[m] = 0 /\ billed[m] = 0

\* While a request is in flight nothing of its message is settled; a row that
\* is new or 'sending' is never settled; recovery holds only such rows, and no
\* request is in flight before HTTP opens; every row was debited once.
MessageInv(m) ==
  /\ pc[m] \in InFlight => Unsettled(m)
  /\ log[m].status \in {"none", "sending"} => credits[m] = 0 /\ billed[m] = 0
  /\ m \in leftover => boot = "recover" /\ log[m].status = "sending"
  /\ boot # "up" => pc[m] = "idle"
  /\ debits[m] = IF log[m].status = "none" THEN 0 ELSE 1
  /\ credits[m] + billed[m] <= 1
  /\ credits[m] > 0 => log[m].status \notin {"sending", "accepted"}

\* The inductive invariant: it holds of each HTTP message on its own.
SyncInv == \A m \in Http : MessageInv(m)

\* The one behind RecoverySettles.  A message has two settlements to spend, one
\* for its request and one for being listed; a settled row is not listed again,
\* and while recovery runs the rows it has not looked at are in its list.
MayListed(m) == m \in leftover \/ log[m].status = "sending"

Spent(m) ==
  credits[m] + billed[m] + (IF pc[m] \in InFlight THEN 1 ELSE 0)
    + (IF MayListed(m) THEN 1 ELSE 0)

RowUnknown(m) ==
  m \notin leftover /\ pc[m] \notin InFlight /\ credits[m] = 0 /\ billed[m] = 0

RecoveryInv ==
  \A m \in Messages :
    /\ Spent(m) <= 2
    /\ log[m].status = "none" => RowUnknown(m)
    /\ log[m].status = "sending" /\ pc[m] = "idle" =>
         \/ boot = "list"
         \/ boot = "recover" /\ m \in leftover
         \/ m \in missed
=============================================================================

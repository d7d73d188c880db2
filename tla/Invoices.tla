------------------------------ MODULE Invoices ------------------------------
(***************************************************************************)
(* Invoices of one client and one carrier, and the payments that settle    *)
(* them.  Messages come in all the while: each is a line of the client's   *)
(* invoice from its reservation on, refunded or not, and of the carrier's  *)
(* once the carrier took it.  A payment is one transaction on two rows:    *)
(* it locks the invoice, then the account it credits.                      *)
(***************************************************************************)
EXTENDS Integers, FiniteSetsExt

CONSTANTS
  Texts,      \* messages of the invoiced period
  Price,      \* what the client pays for one
  Fee,        \* what the carrier charges for it
  Bills,      \* requests that generate an invoice
  Payments,   \* requests that record a payment
  Paid,       \* its amount
  MaxNumber,  \* bound on invoice_number_seq
  Other       \* a payment that names no invoice

Entities == {"client", "carrier"}

ASSUME InvoicesAssumption ==
  /\ Price \in [Texts -> Nat] /\ Fee \in [Texts -> Nat]
  /\ Paid \in [Payments -> Nat \ {0}]
  /\ MaxNumber \in Nat /\ Other \notin Nat
  /\ IsFiniteSet(Texts) /\ IsFiniteSet(Payments)

VARIABLES
  lines,     \* the messages an entity's invoice would list now
  charged,   \* those with a charge entry in the carrier's ledger
  account,   \* balance of each entity
  nextval,   \* the sequence
  files,     \* the total each PDF on disk shows, by number
  invoices,  \* the table, by number
  bill,      \* where each generation stands
  pay        \* where each payment stands

invoiceVars == <<lines, charged, account, nextval, files, invoices, bill, pay>>

Numbers == 1 .. MaxNumber

Statuses == {"pending", "partially_paid", "paid"}

InvoicesTypeOK ==
  /\ lines \in [Entities -> SUBSET Texts] /\ charged \subseteq lines["carrier"]
  /\ account \in [Entities -> Int]
  /\ nextval \in 1 .. MaxNumber + 1
  /\ DOMAIN files \subseteq Numbers /\ files \in [DOMAIN files -> Nat]
  /\ DOMAIN invoices \subseteq Numbers
  /\ invoices \in [DOMAIN invoices -> [entity : Entities, total : Nat, pending : Nat,
                                       status : Statuses]]
  /\ bill \in [Bills -> [at : {"start", "numbered", "written", "done"},
                         entity : Entities, number : Nat]]
  /\ pay \in [Payments -> [at : {"start", "form", "applied", "posted", "paid", "refused"},
                           entity : Entities, invoice : DOMAIN invoices \cup {Other},
                           before : Int, left : Nat, status : Statuses]]

NoBill == [at |-> "start", entity |-> "client", number |-> 1]
NoPay == [at |-> "start", entity |-> "client", invoice |-> Other, before |-> 0,
          left |-> 0, status |-> "paid"]

InvoicesInit ==
  /\ lines = [e \in Entities |-> {}] /\ charged = {}
  /\ account = [e \in Entities |-> 0]
  /\ nextval = 1
  /\ files = [n \in {} |-> 0] /\ invoices = [n \in {} |-> 0]
  /\ bill = [b \in Bills |-> NoBill]
  /\ pay = [p \in Payments |-> NoPay]

Total(of, texts) ==
  LET sum[S \in SUBSET DOMAIN of] ==
        IF S = {} THEN 0
        ELSE LET m == CHOOSE m \in S : TRUE IN of[m] + sum[S \ {m}]
  IN  sum[texts]

\* A new row, or a file (over)written.
Put(f, n, value) == [k \in DOMAIN f \cup {n} |-> IF k = n THEN value ELSE f[k]]

\* What loadInvoiceSummary adds up: a message the carrier did not charge for costs nothing.
LineTotal(e) == IF e = "client" THEN Total(Price, lines[e]) ELSE Total(Fee, charged)

-----------------------------------------------------------------------------
\* Row locks: a payment holds its invoice from the UPDATE on, and the account
\* from the SELECT ... FOR UPDATE in the posting function on.
InvoiceFree(n) == \A p \in Payments : pay[p].at \in {"applied", "posted"} => pay[p].invoice # n
AccountFree(e) == \A p \in Payments : pay[p].at = "posted" => pay[p].entity # e

Charge(e, amount) ==
  /\ AccountFree(e)
  /\ account' = [account EXCEPT ![e] = @ - amount]

Reserve(m) ==
  /\ m \notin lines["client"]
  /\ Charge("client", Price[m])
  /\ lines' = [lines EXCEPT !["client"] = @ \cup {m}]
  /\ UNCHANGED <<charged, nextval, files, invoices, bill, pay>>

\* The carrier's charge, which may be what fails: the message is then forced to accepted.
BillCarrier(m) ==
  /\ m \in lines["client"] \ lines["carrier"]
  /\ lines' = [lines EXCEPT !["carrier"] = @ \cup {m}]
  /\ \/ Fee[m] > 0 /\ Charge("carrier", Fee[m]) /\ charged' = charged \cup {m}
     \/ UNCHANGED <<account, charged>>
  /\ UNCHANGED <<nextval, files, invoices, bill, pay>>

-----------------------------------------------------------------------------
EndBill(b) == bill' = [bill EXCEPT ![b] = [NoBill EXCEPT !.at = "done"]]

NextInvoiceNumber(b) == nextval

StartBill(b, e) ==
  /\ bill[b].at = "start" /\ nextval <= MaxNumber
  /\ bill' = [bill EXCEPT ![b] = [at |-> "numbered", entity |-> e,
                                  number |-> NextInvoiceNumber(b)]]
  /\ nextval' = nextval + 1
  /\ UNCHANGED <<lines, charged, account, files, invoices, pay>>

\* buildInvoicePDF loads the lines, and the file is written with what it shows.
WritePDF(b) ==
  /\ bill[b].at = "numbered"
  /\ files' = Put(files, bill[b].number, LineTotal(bill[b].entity))
  /\ bill' = [bill EXCEPT ![b].at = "written"]
  /\ UNCHANGED <<lines, charged, account, nextval, invoices, pay>>

invoiceInitialStatus(total) == IF total <= 0 THEN "paid" ELSE "pending"

\* The lines are loaded again for the row.
CreateInvoice(b) ==
  LET e == bill[b].entity
      total == LineTotal(e)
  IN /\ bill[b].at = "written"
     /\ bill[b].number \notin DOMAIN invoices
     /\ invoices' = Put(invoices, bill[b].number,
                       [entity |-> e, total |-> total, pending |-> total,
                        status |-> invoiceInitialStatus(total)])
     /\ EndBill(b)
     /\ UNCHANGED <<lines, charged, account, nextval, files, pay>>

\* A statement or the file system fails: what was done stays.
BillFails(b) ==
  /\ bill[b].at \in {"numbered", "written"}
  /\ EndBill(b)
  /\ UNCHANGED <<lines, charged, account, nextval, files, invoices, pay>>

-----------------------------------------------------------------------------
ListOpenInvoices(e) == {n \in DOMAIN invoices : invoices[n].entity = e /\ invoices[n].pending > 0}

\* The operator picks from the list as it was when the form was shown.
OpenForm(p, e) ==
  /\ pay[p].at = "start"
  /\ \E n \in ListOpenInvoices(e) \cup {Other} :
       pay' = [pay EXCEPT ![p] = [NoPay EXCEPT !.at = "form", !.entity = e, !.invoice = n,
                                    !.before = IF n = Other THEN 0 ELSE invoices[n].pending]]
  /\ UNCHANGED <<lines, charged, account, nextval, files, invoices, bill>>

\* A deviation: the amount left is worked out from the pending amount the
\* form showed.
LeftOfForm(p) == Max({0, pay[p].before - Paid[p]})

PendingLeft(p) == Max({0, invoices[pay[p].invoice].pending - Paid[p]})

\* The CASE of the UPDATE; its WHERE keeps the pending amount above zero.
StatusLeft(p) ==
  LET row == invoices[pay[p].invoice]
  IN  IF row.pending - Paid[p] <= 0 THEN "paid"
      ELSE IF row.pending - Paid[p] < row.total THEN "partially_paid"
      ELSE "pending"

ApplyInvoicePayment(p) ==
  /\ pay[p].at = "form" /\ pay[p].invoice # Other
  /\ InvoiceFree(pay[p].invoice)
  /\ pay' = [pay EXCEPT ![p] =
       IF invoices[@.invoice].pending > 0
       THEN [@ EXCEPT !.at = "applied", !.left = PendingLeft(p), !.status = StatusLeft(p)]
       ELSE [NoPay EXCEPT !.at = "refused"]]
  /\ UNCHANGED <<lines, charged, account, nextval, files, invoices, bill>>

\* credit_client_balance or record_carrier_payment: lock and read the account.
RecordPayment(p) ==
  /\ \/ pay[p].at = "applied"
     \/ pay[p].at = "form" /\ pay[p].invoice = Other
  /\ AccountFree(pay[p].entity)
  /\ pay' = [pay EXCEPT ![p].at = "posted", ![p].before = account[pay[p].entity]]
  /\ UNCHANGED <<lines, charged, account, nextval, files, invoices, bill>>

CommitPayment(p) ==
  /\ pay[p].at = "posted"
  /\ account' = [account EXCEPT ![pay[p].entity] = pay[p].before + Paid[p]]
  /\ IF pay[p].invoice = Other THEN UNCHANGED invoices
     ELSE invoices' = [invoices EXCEPT ![pay[p].invoice].pending = pay[p].left,
                                       ![pay[p].invoice].status = pay[p].status]
  /\ pay' = [pay EXCEPT ![p] = [NoPay EXCEPT !.at = "paid", !.entity = pay[p].entity,
                                             !.invoice = pay[p].invoice]]
  /\ UNCHANGED <<lines, charged, nextval, files, bill>>

\* A statement fails, or the request is cancelled: the deferred rollback undoes both.
RollbackPayment(p) ==
  /\ pay[p].at \in {"form", "applied", "posted"}
  /\ pay' = [pay EXCEPT ![p] = [NoPay EXCEPT !.at = "refused"]]
  /\ UNCHANGED <<lines, charged, account, nextval, files, invoices, bill>>

InvoicesNext ==
  \/ \E m \in Texts : Reserve(m) \/ BillCarrier(m)
  \/ \E b \in Bills : \/ \E e \in Entities : StartBill(b, e)
                      \/ WritePDF(b) \/ CreateInvoice(b) \/ BillFails(b)
  \/ \E p \in Payments : \/ \E e \in Entities : OpenForm(p, e)
                         \/ ApplyInvoicePayment(p) \/ RecordPayment(p)
                         \/ CommitPayment(p) \/ RollbackPayment(p)

InvoicesSpec == InvoicesInit /\ [][InvoicesNext]_invoiceVars

-----------------------------------------------------------------------------
Settled(e) == {p \in Payments : pay[p].at = "paid" /\ pay[p].entity = e}
PaidFor(n) == {p \in Settled(invoices[n].entity) : pay[p].invoice = n}

\* An invoice, its payments and its PDF agree.
RowAgrees(n) ==
  LET row == invoices[n]
      received == Total(Paid, PaidFor(n))
  IN  /\ row.pending = Max({0, row.total - received})
      /\ row.status = IF row.pending = 0 THEN "paid"
                      ELSE IF received = 0 THEN "pending" ELSE "partially_paid"
      /\ n \in DOMAIN files /\ files[n] <= row.total

\* Whatever payments overlap, fail or come for an invoice that is paid by now:
\* an invoice and its account have both seen a payment or neither has; what is
\* pending is the total less every payment, and never below zero; and the
\* status, which the totals of the page are selected by, says the same as the
\* amount, which the payment form lists by (db/invoice_payment.go,
\* db/invoices.go).  Every invoice has its PDF, which shows no more than is
\* asked for: less, if messages came in between the two times its lines were
\* loaded (web/invoices.go).
InvoicesInv ==
  /\ InvoicesTypeOK
  /\ \A n \in DOMAIN invoices : RowAgrees(n)
  /\ \A e \in Entities : account[e] = Total(Paid, Settled(e)) - LineTotal(e)

\* A number is drawn once, and until its row is there a PDF shows no more
\* than the lines add up to.
Drawn(b) == bill[b].at \in {"numbered", "written"}

BillsInv ==
  /\ \A n \in DOMAIN invoices : n < nextval
  /\ \A b \in Bills : Drawn(b) =>
       /\ bill[b].number \in Numbers /\ bill[b].number < nextval
       /\ bill[b].number \notin DOMAIN invoices
       /\ \A c \in Bills : Drawn(c) /\ bill[c].number = bill[b].number => c = b
       /\ bill[b].at = "written" =>
            /\ bill[b].number \in DOMAIN files
            /\ files[bill[b].number] <= LineTotal(bill[b].entity)

\* What a payment in progress has read and worked out stays true until it ends:
\* no other one holds its invoice or its account.
Applied(p) == pay[p].at \in {"applied", "posted"} /\ pay[p].invoice # Other

PaysInv ==
  /\ \A p \in Payments :
       /\ pay[p].at = "applied" => pay[p].invoice # Other
       /\ pay[p].at = "form" /\ pay[p].invoice # Other =>
            pay[p].entity = invoices[pay[p].invoice].entity
       /\ Applied(p) =>
            /\ pay[p].entity = invoices[pay[p].invoice].entity
            /\ invoices[pay[p].invoice].pending > 0
            /\ pay[p].left = PendingLeft(p) /\ pay[p].status = StatusLeft(p)
       /\ pay[p].at = "posted" => pay[p].before = account[pay[p].entity]
  /\ \A p, q \in Payments :
       /\ Applied(p) /\ Applied(q) /\ pay[p].invoice = pay[q].invoice => p = q
       /\ pay[p].at = "posted" /\ pay[q].at = "posted" /\ pay[p].entity = pay[q].entity => p = q
=============================================================================

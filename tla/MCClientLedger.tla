--------------------------- MODULE MCClientLedger ---------------------------
(***************************************************************************)
(* Money on a small instance: one client's balance (ClientLedger), and the *)
(* invoices and payments of a client and a carrier (Invoices).  A payment  *)
(* posts through the functions ClientLedger's credits stand for; the two   *)
(* follow different rows here, so each moves while the other is as it      *)
(* started.                                                                *)
(***************************************************************************)
EXTENDS ClientLedger, Invoices, TLC

CONSTANTS d1, d2, d3, c1, c2, x1, t1, t2, b1, b2, p1, p2

\* A balance of 3 covers d1 or d2 but not both; d3 is free of charge.
MCDebits == {d1, d2, d3}
MCCredits == {c1, c2}
MCConversions == {x1}
MCAmount == (d1 :> 1) @@ (d2 :> 3) @@ (d3 :> 0) @@ (c1 :> 1) @@ (c2 :> 2)
MCFactor == [c \in MCConversions |-> 2]

\* p1 pays part of the invoice that p2 may pay too much of; the carrier takes
\* t2 free of charge.
MCTexts == {t1, t2}
MCPrice == (t1 :> 2) @@ (t2 :> 1)
MCFee == (t1 :> 1) @@ (t2 :> 0)
MCBills == {b1, b2}
MCPayments == {p1, p2}
MCPaid == (p1 :> 1) @@ (p2 :> 2)

MCInit == LedgerInit /\ InvoicesInit

\* The requests that generate an invoice are interchangeable: b1 is the one that
\* takes its number first.
InTurn == bill[b1].at = "start" => bill[b2].at = "start"

MCNext ==
  \/ InvoicesInit /\ LedgerNext /\ UNCHANGED invoiceVars
  \/ LedgerInit /\ InvoicesNext /\ InTurn' /\ UNCHANGED ledgerVars

MCSpec == MCInit /\ [][MCNext]_<<ledgerVars, invoiceVars>> /\ Fairness
=============================================================================

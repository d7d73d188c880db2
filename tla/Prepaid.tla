------------------------------ MODULE Prepaid -------------------------------
(***************************************************************************)
(* What prepaid billing promises a client, whatever path a message takes.  *)
(* A message's charge is reserved once, against a sufficient balance; it   *)
(* then either pays for a dispatch the carrier is billed for, or it is     *)
(* returned in full, once, and never both.  The send queue and the         *)
(* synchronous sender are shown to implement this module.                  *)
(***************************************************************************)
EXTENDS Integers

CONSTANTS
  Messages,        \* messages the client may submit
  Charge,          \* total_charged of each message
  OpeningBalances  \* clients.balance may be one of these before the first

\* ledger_entries.amount carries CHECK (amount > 0), clients.balance
\* CHECK (balance >= 0): a zero charge can never be reserved.
PrepaidAssumption ==
  /\ Charge \in [Messages -> Nat \ {0}]
  /\ OpeningBalances \subseteq Nat

VARIABLES
  balance,   \* clients.balance
  account    \* the state of each message's charge

prepaidVars == <<balance, account>>

TypeOK ==
  /\ balance \in Int
  /\ account \in [Messages -> {"none", "held", "sold", "returned"}]

Init ==
  /\ balance \in OpeningBalances
  /\ account = [m \in Messages |-> "none"]

\* deduct_client_balance: refuses what the balance does not cover.
Reserve(m) ==
  /\ account[m] = "none"
  /\ balance >= Charge[m]
  /\ balance' = balance - Charge[m]
  /\ account' = [account EXCEPT ![m] = "held"]

\* deduct_carrier_balance posts the carrier's side; the client's is final.
Sell(m) ==
  /\ account[m] = "held"
  /\ account' = [account EXCEPT ![m] = "sold"]
  /\ UNCHANGED balance

\* credit_client_balance with the amount that was reserved.
Return(m) ==
  /\ account[m] = "held"
  /\ balance' = balance + Charge[m]
  /\ account' = [account EXCEPT ![m] = "returned"]

Next == \E m \in Messages : Reserve(m) \/ Sell(m) \/ Return(m)

Spec == Init /\ [][Next]_prepaidVars

-----------------------------------------------------------------------------
\* Closed accounts stay closed: a charge that was sold or returned is never
\* touched again (each finalisation runs once per message).
ClosedForGood ==
  [][\A m \in Messages :
       account[m] \in {"sold", "returned"} => account'[m] = account[m]]_prepaidVars

=============================================================================

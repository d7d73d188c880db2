---------------------------- MODULE AccountBook -----------------------------
(***************************************************************************)
(* What a prepaid account promises whoever reads it: a balance and an      *)
(* append-only book of the postings that produced it, each made in one     *)
(* indivisible step and only if the account can bear it.  ClientLedger     *)
(* implements it with transactions that overlap in time.                   *)
(***************************************************************************)
EXTENDS Integers, Sequences

CONSTANTS
  Amounts,         \* signed amounts that may be posted
  InitialBalance   \* the balance before the first posting

BookAssumption == Amounts \subseteq Int /\ InitialBalance \in Nat

VARIABLES
  balance,  \* clients.balance
  ledger    \* ledger_entries of the client, in commit order

bookVars == <<balance, ledger>>

Entry == [amount : Amounts, before : Nat, after : Nat]

Init == balance = InitialBalance /\ ledger = <<>>

Post(d) ==
  /\ balance + d >= 0
  /\ balance' = balance + d
  /\ ledger' = Append(ledger, [amount |-> d, before |-> balance,
                               after |-> balance + d])

Next == \E d \in Amounts : Post(d)

Spec == Init /\ [][Next]_bookVars

-----------------------------------------------------------------------------
\* The balance an entry starts from.
Opening(book, i) == IF i = 1 THEN InitialBalance ELSE book[i - 1].after

\* The book accounts for the balance: every entry starts where the one before
\* it ended, ends higher or lower by its amount, never below zero, and the
\* last one ends at the balance the account has.
BookBalances ==
  /\ ledger \in Seq(Entry)
  /\ \A i \in 1..Len(ledger) :
       /\ ledger[i].before = Opening(ledger, i)
       /\ ledger[i].after = ledger[i].before + ledger[i].amount
  /\ balance = Opening(ledger, Len(ledger) + 1)
=============================================================================

---------------------------- MODULE ClientLedger ----------------------------
(***************************************************************************)
(* The transactions that move one client's balance, statement by statement *)
(* (deploy/minisms_db.sql, read committed isolation).                      *)
(*   Debits       enqueue and reserveSend: lock the clients row, compare   *)
(*                the balance, insert the message, deduct_client_balance   *)
(*   Credits      refunds and operator payments: credit_client_balance,    *)
(*                which takes the same lock                                *)
(*   Conversions  an operator changes the client's currency: the balance   *)
(*                is read when the form is handled and the multiple of it  *)
(*                is written later, with no transaction around the two     *)
(* A lock is held until its transaction ends; a statement that needs it    *)
(* waits, then reads the row as last committed.                            *)
(***************************************************************************)
EXTENDS Integers, Sequences

CONSTANTS
  Debits, Credits, Conversions,  \* transactions, each run once
  Amount,          \* amount of a debit or a credit
  Factor,          \* multiple of a conversion
  InitialBalance,  \* clients.balance at the start
  NoTx             \* nobody holds the lock

Postings == Debits \cup Credits
Transactions == Postings \cup Conversions

ASSUME LedgerAssumption ==
  /\ Debits \cap Credits = {} /\ Postings \cap Conversions = {}
  /\ NoTx \notin Transactions
  /\ Amount \in [Postings -> Nat]
  /\ Factor \in [Conversions -> Nat \ {0}]
  /\ InitialBalance \in Nat

VARIABLES
  balance,  \* clients.balance, as committed
  ledger,   \* ledger_entries, as committed
  lock,     \* the transaction holding the clients row
  stage,       \* where each transaction stands
  before    \* the balance it read last

ledgerVars == <<balance, ledger, lock, stage, before>>

\* What a posting adds to the balance.
Delta(t) == IF t \in Debits THEN -Amount[t] ELSE Amount[t]

LedgerTypeOK ==
  /\ balance \in Nat
  /\ ledger \in Seq([amount : {Delta(t) : t \in Postings},
                     before : Nat, after : Nat])
  /\ lock \in Transactions \cup {NoTx}
  /\ stage \in [Transactions -> {"start", "locked", "posted", "read", "done"}]
  /\ before \in [Transactions -> Nat]

LedgerInit ==
  /\ balance = InitialBalance
  /\ ledger = <<>>
  /\ lock = NoTx
  /\ stage = [t \in Transactions |-> "start"]
  /\ before = [t \in Transactions |-> 0]

\* A deviation: the row is read without FOR UPDATE.
RowAlwaysFree == TRUE

\* Another transaction's FOR UPDATE or UPDATE makes this one wait.
RowFree == lock = NoTx

StepTo(t, s) == stage' = [stage EXCEPT ![t] = s]

ReadRow(t) == before' = [before EXCEPT ![t] = balance]

-----------------------------------------------------------------------------
(* Postings. *)

\* lockAndCheckBalance.
Lock(d) ==
  /\ stage[d] = "start" /\ RowFree
  /\ lock' = d
  /\ ReadRow(d)
  /\ StepTo(d, "locked")
  /\ UNCHANGED <<balance, ledger>>

\* A deviation: an early return keeps its transaction open.
ReturnsWithoutRollback(t) == StepTo(t, "done") /\ UNCHANGED lock

Rollback(t) ==
  /\ StepTo(t, "done")
  /\ lock' = IF lock = t THEN NoTx ELSE lock

\* A deviation: a balance short of the charge is let through.
PayableOnCredit(d) == Amount[d] > 0

\* The locked balance covers the charge, and CHECK (amount > 0) accepts the
\* entry: a free message has none.
Payable(d) == before[d] >= Amount[d] /\ Amount[d] > 0

Refuse(d) ==
  /\ stage[d] = "locked" /\ ~Payable(d)
  /\ Rollback(d)
  /\ UNCHANGED <<balance, ledger, before>>

\* deduct_client_balance, under the lock already held: it reads the row again.
Deduct(d) ==
  /\ stage[d] = "locked" /\ Payable(d)
  /\ ReadRow(d)
  /\ StepTo(d, "posted")
  /\ UNCHANGED <<balance, ledger, lock>>

\* credit_client_balance: lock, read, write and insert in one call.
Credit(t) ==
  /\ stage[t] = "start" /\ RowFree
  /\ Amount[t] > 0
  /\ lock' = t
  /\ ReadRow(t)
  /\ StepTo(t, "posted")
  /\ UNCHANGED <<balance, ledger>>

\* The new balance and the entry become visible together.
Commit(t) ==
  /\ stage[t] = "posted"
  /\ balance' = before[t] + Delta(t)
  /\ ledger' = Append(ledger, [amount |-> Delta(t), before |-> before[t],
                               after |-> before[t] + Delta(t)])
  /\ lock' = NoTx
  /\ StepTo(t, "done")
  /\ UNCHANGED before

\* Any later statement fails, the context is cancelled or the process dies.
Abort(t) ==
  /\ stage[t] \in {"locked", "posted"}
  /\ Rollback(t)
  /\ UNCHANGED <<balance, ledger, before>>

-----------------------------------------------------------------------------
(* UpdateClient with a new currency and a conversion factor. *)

\* GetClient: a plain read, which waits for nobody.  A client without money
\* needs no conversion.
ReadBalance(c) ==
  /\ stage[c] = "start" /\ balance > 0
  /\ ReadRow(c)
  /\ StepTo(c, "read")
  /\ UNCHANGED <<balance, ledger, lock>>

\* UPDATE clients SET balance = <the product computed before>: one statement,
\* which waits for the row, and no ledger entry.
Convert(c) ==
  /\ stage[c] = "read" /\ RowFree
  /\ balance' = before[c] * Factor[c]
  /\ StepTo(c, "done")
  /\ UNCHANGED <<ledger, lock, before>>

-----------------------------------------------------------------------------
DebitStep(d) == Lock(d) \/ Refuse(d) \/ Deduct(d)

PostingStep(t) ==
  \/ t \in Debits /\ DebitStep(t)
  \/ t \in Credits /\ Credit(t)
  \/ Commit(t) \/ Abort(t)

LedgerNext ==
  \/ \E t \in Postings : PostingStep(t)
  \/ \E c \in Conversions : ReadBalance(c) \/ Convert(c)

LedgerSpec == LedgerInit /\ [][LedgerNext]_ledgerVars

\* A client's statements return, or its context ends and they fail.
Fairness == \A t \in Postings : WF_ledgerVars(PostingStep(t))

FairLedgerSpec == LedgerSpec /\ Fairness

-----------------------------------------------------------------------------
(* Properties. *)

\* Overlapping transactions look like postings made one after the other: no
\* update is lost, the balance never goes negative and each entry starts at
\* the balance of its commit.  Only a conversion's own write is no posting.
B == INSTANCE AccountBook WITH Amounts <- {Delta(t) : t \in Postings}

Converting == \E c \in Conversions : stage'[c] # stage[c]

PostsAsBook ==
  /\ B!Init
  /\ [][~Converting => [B!Next]_(B!bookVars)]_ledgerVars

\* Every debit gets its answer: none waits for the row for ever.
DebitsAnswered == <>(\A d \in Debits : stage[d] = "done")

-----------------------------------------------------------------------------
\* Only the lock's holder is between its first read and its end, and what it
\* read is still the balance.
HolderKnowsBalance ==
  \A t \in Postings :
    /\ stage[t] \in {"locked", "posted"} => lock = t /\ before[t] = balance
    /\ stage[t] = "posted" => before[t] + Delta(t) >= 0
    /\ stage[t] # "read"

\* The inductive invariant behind PostsAsBook: type correctness, and no
\* balance is stale in the hands of a transaction that will write it.
LedgerInv == LedgerTypeOK /\ HolderKnowsBalance
=============================================================================

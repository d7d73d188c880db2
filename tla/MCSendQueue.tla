---------------------------- MODULE MCSendQueue -----------------------------
(* SendQueue on small instances. *)
EXTENDS SendQueue, TLC

CONSTANTS m1, m2, w1, w2

MCMessages == {m1, m2}
MCWorkers == {w1, w2}

\* Different prices; one opening balance covers both messages, the other
\* makes them contend for it.
MCBalances == {2, 3}
MCCharge == [m \in MCMessages |-> IF m = m1 THEN 1 ELSE 2]

MCReceipts == {"delivered"}
=============================================================================

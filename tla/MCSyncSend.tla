----------------------------- MODULE MCSyncSend -----------------------------
(* SyncSend on small instances. *)
EXTENDS SyncSend, TLC

CONSTANTS m1, m2, m3

MCMessages == {m1, m2, m3}

\* Two of the three messages fit the balance, and a refund frees it again.
MCCharge == [m \in MCMessages |-> IF m = m1 THEN 1 ELSE 2]

MCMaySmpp == {m1}
MCReceipts == {"delivered", "unknown"}

Symmetry == Permutations({m2, m3})
=============================================================================

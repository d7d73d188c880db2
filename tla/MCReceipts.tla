----------------------------- MODULE MCReceipts -----------------------------
(* Receipts on a small instance: two callbacks at once. *)
EXTENDS Receipts

CONSTANTS h1, h2

MCTwo == {h1, h2}
=============================================================================

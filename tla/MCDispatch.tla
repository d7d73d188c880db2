----------------------------- MODULE MCDispatch -----------------------------
(* Dispatch on a small instance: two messages of one route of three carriers. *)
EXTENDS Dispatch, TLC

CONSTANTS m1, m2

MCTwo == {m1, m2}
Symmetry == Permutations(Msgs)

\* The route shares its messages between the first and the last slot; the
\* middle one is a standby that is never first choice.  Two messages are a
\* full cycle.
MCShares == (0 :> 1) @@ (1 :> 0) @@ (2 :> 1)
MCMixed == (0 :> "http") @@ (1 :> "smpp") @@ (2 :> "http")
=============================================================================

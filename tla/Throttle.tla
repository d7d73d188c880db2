------------------------------ MODULE Throttle ------------------------------
(***************************************************************************)
(* The counter of failed attempts kept per key by the SMPP server          *)
(* (internal/smpp/server/bind_limit.go) and, in the same words, by the     *)
(* admin login (internal/web/auth.go).  What the code keeps in a map is a  *)
(* record here; a key that is not in the map has no failures.              *)
(***************************************************************************)
EXTENDS Integers

CONSTANTS
  MaxAttempts,  \* bindMaxAttempts, loginMaxAttempts
  Window,       \* bindWindow, loginWindow
  BlockFor      \* bindBlockFor, loginBlockFor

\* A block outlasts the window that led to it, and by more than one tick: 15
\* minutes and 10 in the code.
ASSUME ThrottleAssumption ==
  /\ MaxAttempts \in Nat \ {0}
  /\ Window \in Nat
  /\ BlockFor \in Nat /\ BlockFor > Window + 1

Attempts == [count : Nat, first : Nat, til : Nat]

NoAttempts == [count |-> 0, first |-> 0, til |-> 0]
-----------------------------------------------------------------------------
\* The window that began with the first failure has passed.
WindowOver(a, now) == now - a.first > Window

\* A deviation: a block is never looked at.
NeverBlocked(a, now) == FALSE

Blocked(a, now) == now < a.til

\* What looking leaves of an entry that does not block.
Looked(a, now) == IF WindowOver(a, now) THEN NoAttempts ELSE a

\* One more failure, found by a request that looked at the time now.
Failed(a, now) ==
  LET b == IF a = NoAttempts \/ WindowOver(a, now)
           THEN [NoAttempts EXCEPT !.first = now] ELSE a
  IN [b EXCEPT !.count = @ + 1,
               !.til = IF b.count + 1 >= MaxAttempts THEN now + BlockFor ELSE @]
=============================================================================

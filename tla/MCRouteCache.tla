---------------------------- MODULE MCRouteCache ----------------------------
(* RouteCache on a small instance: two admin requests at once. *)
EXTENDS RouteCache

CONSTANTS a1, a2

TwoAdmins == {a1, a2}
=============================================================================

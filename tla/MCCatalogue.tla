---------------------------- MODULE MCCatalogue ----------------------------
(***************************************************************************)
(* What the administrators' pages edit, on small instances: the catalogue  *)
(* with two forms at once, over one row of most tables and two rows of     *)
(* those with a UNIQUE key (Catalogue); its sender IDs with two requests   *)
(* at once (Senders); the API keys, with two operators and two calls that  *)
(* are checked against them (ApiAccess).                                   *)
(*                                                                         *)
(* The parts share no row that is written, so each moves here while the    *)
(* others are as they started; the sender IDs once there is the client and *)
(* the carrier they belong to.                                             *)
(***************************************************************************)
EXTENDS Senders, ApiAccess

CONSTANTS
  a1, a2,                                  \* two administrators' requests
  g1, k1, c1, r1, i1, i2, q1, q2,
  s1, s2, l1, l2, l3,
  x1, x2, y1, y2, z1, z2

MCAdmins == {a1, a2}
MCRateGroups == {g1}
MCCarriers == {k1}
MCClients == {c1}
MCRoutingGroups == {r1}
MCEntryIds == {i1, i2}
MCRouteIds == {q1, q2}
MCSenderIds == {s1, s2}
MCLinkIds == {l1, l2, l3}
MCApiClients == {x1, x2}
MCApiKeys == {y1, y2}
MCCallers == {z1, z2}

\* Two rows or requests change places.  As only one part moves, the swaps of
\* the three parts are taken together.
Swap(a, b) == (a :> b) @@ (b :> a)

Symmetry == {Swap(a1, a2)} \cup {Swap(i1, i2) @@ Swap(s1, s2) @@ Swap(x1, x2)}
            \cup {Swap(q1, q2) @@ Swap(l1, l2) @@ Swap(z1, z2)}

MCInit == CatalogueInit /\ SendersInit /\ ApiInit

SendersAtRest == senders = Empty /\ links = Empty /\ work = [w \in Clerks |-> Idle]

OwnersAlone ==
  /\ carriers = (k1 :> [rate |-> None, active |-> TRUE])
  /\ clients = (c1 :> [rate |-> None, routing |-> None])
  /\ rateGroups \cup gone = {} /\ routing = Empty
  /\ \A a \in Admins : edit[a] = NoEdit

\* A bound: limiters are there only while no key form is under way.
FormsOrLimiters == limiter = <<>> \/ \A o \in Operators : keyForm[o].at = "idle"

MCNext ==
  \/ SendersAtRest /\ ApiInit /\ CatalogueNext /\ UNCHANGED <<senderVars, apiVars>>
  \/ OwnersAlone /\ ApiInit /\ SendersNext /\ UNCHANGED <<catalogueVars, apiVars>>
  \/ CatalogueInit /\ SendersInit /\ ApiNext /\ FormsOrLimiters' /\ UNCHANGED <<catalogueVars, senderVars>>

MCSpec == MCInit /\ [][MCNext]_<<catalogueVars, senderVars, apiVars>>
=============================================================================

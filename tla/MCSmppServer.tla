---------------------------- MODULE MCSmppServer ----------------------------
(* SmppServer on a small instance. *)
EXTENDS SmppServer

CONSTANTS c1, c2, k1

MCConns == {c1, c2}
MCClients == {k1}
MCMaxBinds == [k \in MCClients |-> 1]
=============================================================================

---------------------------- MODULE MCMessageRefs ----------------------------
(* A small instance of MessageRefs for TLC: one client that sends one request
   up to twice, and two clients that may wait for it. *)
EXTENDS MessageRefs

CONSTANTS c1, c2, svc, m1, null, b1, b2, nobody, jnull, fresh

TwoClients == {c1, c2}
OneId == {m1}
OwnId == [id \in OneId |-> c1]
Twice == [id \in OneId |-> 2]
=============================================================================

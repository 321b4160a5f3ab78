-------------------------- MODULE MCMessageManager --------------------------
(* Small instances of MessageManager for TLC. *)
EXTENDS MessageManager, TLC

CONSTANTS c1, c2, svc, m1, m2, null

(* Two clients, each with a message of its own. *)
TwoClients == {c1, c2}
TwoIds == {m1, m2}
OwnIds == m1 :> c1 @@ m2 :> c2

(* One client that sends one message, if need be several times. *)
OneClient == {c1}
OneId == {m1}
OwnId == m1 :> c1

(* A request that a client sends twice, and one that the service thread itself
   sends. *)
ServiceIds == m1 :> c1 @@ m2 :> svc
TwiceOnce == m1 :> 2 @@ m2 :> 1

Once == [id \in Ids |-> 1]
Twice == [id \in Ids |-> 2]
=============================================================================

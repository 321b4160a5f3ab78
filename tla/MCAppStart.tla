-------------------------- MODULE MCAppStart -----------------------------
(* A small instance of AppStart for TLC: the timer client's name and another,
   and three sockets, so that the name can be asked for twice, and a second
   socket waits behind the first.  Peers send one string or two. *)
EXTENDS AppStart

CONSTANTS s1, s2, s3, timer, a, null

TwoNames == {timer, a}
ThreeSockets == {s1, s2, s3}
OneOrTwo == {1, 2}
=============================================================================

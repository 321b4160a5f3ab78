---------------------------- MODULE MCSendStrings ----------------------------
(* A small instance of SendStrings for TLC: two threads that send to two peers
   of a server socket, to the timer pump, to another app's server and to a
   subscriber, and on a subscriber's own socket, which is refused. *)
EXTENDS SendStrings, TLC

CONSTANTS t1, t2, p1, p2, pump, app, sub, srv, timer, ask, pub, events, gone, ident

TwoThreads == {t1, t2}
FiveNames == {srv, timer, ask, pub, events}
TypesOf ==
    srv :> "server" @@ timer :> "client" @@ ask :> "client" @@ pub :> "publisher"
    @@ events :> "subscriber"
StringsOf == srv :> 1 @@ timer :> 2 @@ ask :> 1 @@ pub :> 1 @@ events :> 1
FiveReceivers == {p1, p2, pump, app, sub}
Sockets == p1 :> srv @@ p2 :> srv @@ pump :> timer @@ app :> ask @@ sub :> pub
OneStranger == {gone}
=============================================================================

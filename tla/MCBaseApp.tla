------------------------------ MODULE MCBaseApp ------------------------------
(* A small instance of BaseApp for TLC: an app with two threads that sends a
   request and one with one thread that sends a notice of the same name; the
   first app has the second one's token in its configuration. *)
EXTENDS BaseApp

CONSTANTS a1, a2, t1, t2, u1, r1, n1

TwoApps == {a1, a2}
ThreeThreads == {t1, t2, u1}
OneRequest == {r1}
OneNotice == {n1}
Homes == [x \in ThreeThreads \cup OneRequest \cup OneNotice |->
            IF x \in {u1, n1} THEN a2 ELSE a1]
OneName == [m \in OneRequest \cup OneNotice |-> "info"]
Settings == [a \in TwoApps |-> IF a = a1 THEN a2 ELSE None]
=============================================================================

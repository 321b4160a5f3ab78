----------------------------- MODULE MCTimerPump -----------------------------
(* Small instances of TimerPump for TLC. *)
EXTENDS TimerPump

(* One app with one or two timers. *)
OneClient == {<<"a">>}
OneTimer == {<<"x">>}
TwoTimers == {<<"x">>, <<"y">>}

(* "a" with the timer "bx" and "ab" with the timer "x": the same key. *)
CollidingClients == {<<"a">>, <<"a", "b">>}
CollidingTimers == {<<"b", "x">>, <<"x">>}
=============================================================================

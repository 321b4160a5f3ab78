-------------------------- MODULE RequestLifecycle --------------------------
(***************************************************************************)
(* What ipcam_message_manager promises to the code that sends a request    *)
(* with a handler: the request is open from the moment it is registered,   *)
(* and it is closed by one call of its handler, which brings either the    *)
(* response or the news that none came.  A second response, a response     *)
(* after the timeout and a timeout after the response reach no handler.    *)
(*                                                                         *)
(* MessageManager and BaseApp implement this specification: see Lifecycle  *)
(* there.                                                                  *)
(***************************************************************************)
EXTENDS Naturals

CONSTANTS
    Requests    \* identifiers of requests that have a handler

VARIABLES
    open,       \* requests whose handler is still to be called
    opened,     \* how often each request was registered
    answered,   \* how often its handler was called with a response
    expired     \* how often its handler was called with timeout = TRUE

rlVars == <<open, opened, answered, expired>>

Zero == [r \in Requests |-> 0]

Bump(counter, r) == [counter EXCEPT ![r] = @ + 1]

Init ==
    /\ open = {}
    /\ opened = Zero
    /\ answered = Zero
    /\ expired = Zero

Open(r) ==
    /\ r \notin open
    /\ open' = open \cup {r}
    /\ opened' = Bump(opened, r)
    /\ UNCHANGED <<answered, expired>>

Answer(r) ==
    /\ r \in open
    /\ open' = open \ {r}
    /\ answered' = Bump(answered, r)
    /\ UNCHANGED <<opened, expired>>

Expire(r) ==
    /\ r \in open
    /\ open' = open \ {r}
    /\ expired' = Bump(expired, r)
    /\ UNCHANGED <<opened, answered>>

Next == \E r \in Requests : Open(r) \/ Answer(r) \/ Expire(r)

Spec == Init /\ [][Next]_rlVars

TypeOK ==
    /\ open \subseteq Requests
    /\ opened \in [Requests -> Nat]
    /\ answered \in [Requests -> Nat]
    /\ expired \in [Requests -> Nat]

(* Every registration is settled by exactly one handler call, or is open. *)
Settled ==
    \A r \in Requests :
        opened[r] = answered[r] + expired[r] + (IF r \in open THEN 1 ELSE 0)
=============================================================================

--------------------------- MODULE MessageManager ---------------------------
(***************************************************************************)
(* src/message_manager.c with the callers base_app.c gives it.             *)
(*                                                                         *)
(* A thread sends a request: it records the message id in msg_hash with a  *)
(* timeout and hands the message to the socket.  The service thread reads  *)
(* responses and calls ipcam_message_manager_handle; every ten seconds a   *)
(* timer makes it call ipcam_message_manager_clear, which times out what   *)
(* is overdue.  Both call the request's handler with priv->mutex held.     *)
(* Any other thread may block in ipcam_message_manager_wait_for until the  *)
(* response to a message id comes.                                         *)
(*                                                                         *)
(* A step is what a thread does between two points at which another thread *)
(* can interfere: a critical section that calls no handler is one step.    *)
(***************************************************************************)
EXTENDS Integers, FiniteSets

CONSTANTS
    Clients,        \* threads other than the service thread
    Service,        \* the thread that runs ipcam_base_service_start
    Ids,            \* message ids
    Owner,          \* the thread that creates the message with that id
    Callbacks,      \* ids registered with a handler that is not NULL
    CallbackSends,  \* ids whose handler itself sends a request
    SharedWait,     \* may a thread wait for an id it did not send?
    Timeouts,       \* timeouts in use, in seconds
    MaxTime,        \* bound: the clock stops here
    MaxSends,       \* bound: how often each message is sent
    MaxRefs,        \* bound: references taken, the leaked ones included
    UintModulus,    \* 2 to the width of guint
    None            \* NULL

Threads == Clients \cup {Service}
Entry == [time : Nat, timeout : Timeouts]

ASSUME ThreadsAssumption ==
    /\ IsFiniteSet(Clients)
    /\ Service \notin Clients
    /\ Owner \in [Ids -> Threads]

ASSUME HandlersAssumption ==
    /\ Callbacks \subseteq Ids
    /\ CallbackSends \subseteq Callbacks
    /\ SharedWait \in BOOLEAN

ASSUME NumbersAssumption ==
    /\ Timeouts \subseteq Nat
    /\ MaxTime \in Nat
    /\ MaxSends \in [Ids -> Nat]
    /\ MaxRefs \in Nat
    /\ UintModulus \in Nat
    /\ UintModulus > MaxTime

ASSUME NoneAssumption ==
    /\ None \notin Threads
    /\ None \notin Ids
    /\ None \notin Entry

VARIABLES
    clock,          \* CLOCK_MONOTONIC in seconds
    mutex,          \* the thread that holds priv->mutex across steps
    msg_hash,       \* priv->msg_hash
    waiter_hash,    \* priv->waiter_hash: whose waiter struct is stored
    table,          \* is waiter_hash allocated: "live", "freed", "crashed"
    refs,           \* reference count of the manager
    owned,          \* does the app still hold its reference?
    pc,             \* where each thread is
    req,            \* the message id each thread's send or wait is about
    timed,          \* is its timeout_ms > 0 ?
    ret,            \* its local variable ret
    message,        \* waiter->message
    job,            \* the response ipcam_message_manager_handle works on
    now,            \* the local variable now of ipcam_message_manager_clear
    todo,           \* handlers ipcam_message_manager_clear has still to call
    sends,          \* how often each message was sent
    requests,       \* requests on their way to, or at, the server
    inbox,          \* responses waiting at the service thread's sockets
    registered,     \* history: entries inserted in msg_hash
    replied,        \* history: handler calls with a response
    timedout        \* history: handler calls with timeout = TRUE

hashVars == <<msg_hash, waiter_hash, table>>
objVars == <<refs, owned>>
waitVars == <<req, timed, ret, message>>
serviceVars == <<job, now, todo>>
netVars == <<sends, requests, inbox>>
history == <<registered, replied, timedout>>
vars == <<clock, mutex, hashVars, objVars, pc, waitVars, serviceVars, netVars,
          history>>

-----------------------------------------------------------------------------
(* The state of a wait: the struct exists from "enter" to "return". *)
Waiting(t) == pc[t] \in {"enter", "waiting", "woken", "return"}
Pending(id) == msg_hash[id] # None

(* now - val->time is a gint that the comparison with the guint
   val->timeout converts to unsigned. *)
AsUnsigned(x) == IF x < 0 THEN x + UintModulus ELSE x
(* Mutant: the operands of the difference are swapped. *)
ExpiredSwapped(t, e) == e.time - t >= e.timeout

(* Mutant: a request is overdue a second too early. *)
ExpiredEarly(t, e) == AsUnsigned(t - e.time) + 1 >= e.timeout

Expired(t, e) == AsUnsigned(t - e.time) >= e.timeout
Overdue == {id \in Ids : Pending(id) /\ Expired(now, msg_hash[id])}

(* What a handler call in the service thread leads to.  A handler that sends
   a request locks priv->mutex again, and the mutex is not recursive. *)
AfterCallback(id, next) == IF id \in CallbackSends THEN "relock" ELSE next

Goto(t, label) == pc' = [pc EXCEPT ![t] = label]
Bump(counter, id) == [counter EXCEPT ![id] = @ + 1]

Init ==
    /\ clock = 0
    /\ mutex = None
    /\ msg_hash = [id \in Ids |-> None]
    /\ waiter_hash = [id \in Ids |-> None]
    /\ table = "live"
    /\ refs = 1
    /\ owned = TRUE
    /\ pc = [t \in Threads |-> "idle"]
    /\ req = [t \in Threads |-> None]
    /\ timed = [t \in Clients |-> FALSE]
    /\ ret = [t \in Clients |-> FALSE]
    /\ message = [t \in Clients |-> None]
    /\ job = None
    /\ now = 0
    /\ todo = {}
    /\ sends = [id \in Ids |-> 0]
    /\ requests = [id \in Ids |-> 0]
    /\ inbox = [id \in Ids |-> 0]
    /\ registered = [id \in Ids |-> 0]
    /\ replied = [id \in Ids |-> 0]
    /\ timedout = [id \in Ids |-> 0]

-----------------------------------------------------------------------------
(* The world around the manager. *)

Tick ==
    /\ clock < MaxTime
    /\ clock' = clock + 1
    /\ UNCHANGED <<mutex, hashVars, objVars, pc, waitVars, serviceVars,
                   netVars, history>>

(* The server answers a request it received. *)
Respond(id) ==
    /\ requests[id] > 0
    /\ requests' = [requests EXCEPT ![id] = @ - 1]
    /\ inbox' = Bump(inbox, id)
    /\ UNCHANGED <<clock, mutex, hashVars, objVars, pc, waitVars, serviceVars,
                   sends, history>>

-----------------------------------------------------------------------------
(* ipcam_base_app_send_message for a request: first the id is registered,
   which does nothing when it still is, then the message is transmitted. *)

Register(t, id, timeout) ==
    /\ owned
    /\ pc[t] = "idle"
    /\ Owner[id] = t
    /\ sends[id] < MaxSends[id]
    /\ clock + timeout <= MaxTime
    /\ mutex = None
    /\ IF Pending(id)
         THEN UNCHANGED <<msg_hash, registered>>
         ELSE /\ msg_hash' = [msg_hash EXCEPT ![id] =
                                [time |-> clock, timeout |-> timeout]]
              /\ registered' = Bump(registered, id)
    /\ sends' = Bump(sends, id)
    /\ req' = [req EXCEPT ![t] = id]
    /\ Goto(t, "transmit")
    /\ UNCHANGED <<clock, mutex, waiter_hash, table, objVars, timed, ret,
                   message, serviceVars, requests, inbox, replied, timedout>>

(* The failure of ipcam_service_send_strings is ignored; a message that was
   sent may also get lost. *)
Transmit(t) ==
    /\ pc[t] = "transmit"
    /\ \/ requests' = Bump(requests, req[t])
       \/ UNCHANGED requests
    /\ req' = [req EXCEPT ![t] = None]
    /\ Goto(t, "idle")
    /\ UNCHANGED <<clock, mutex, hashVars, objVars, timed, ret, message,
                   serviceVars, sends, inbox, history>>

-----------------------------------------------------------------------------
(* The service thread: ipcam_message_manager_handle. *)

(* Lock the mutex and hand the response to the thread that waits for it;
   when the id is registered its handler is called next, under the mutex. *)
Deliver(id) ==
    LET w == waiter_hash[id] IN
    IF w = None
      THEN UNCHANGED <<message, ret>>
      ELSE /\ message' = [message EXCEPT ![w] = id]
           /\ ret' = [ret EXCEPT ![w] = IF pc[w] = "waiting"
                                          THEN timed[w] ELSE @]

(* Mutant: g_cond_signal is forgotten. *)
WokenNever(id) == pc

Woken(id) ==
    LET w == waiter_hash[id] IN
    IF w # None /\ pc[w] = "waiting" THEN [pc EXCEPT ![w] = "woken"] ELSE pc

HandleLock(id) ==
    /\ owned
    /\ pc[Service] = "idle"
    /\ inbox[id] > 0
    /\ mutex = None
    /\ inbox' = [inbox EXCEPT ![id] = @ - 1]
    /\ Deliver(id)
    /\ IF Pending(id)
         THEN /\ mutex' = Service
              /\ job' = id
              /\ pc' = [Woken(id) EXCEPT ![Service] =
                          IF id \in Callbacks THEN "handle_cb"
                                              ELSE "handle_end"]
         ELSE /\ pc' = Woken(id)
              /\ UNCHANGED <<mutex, job>>
    /\ UNCHANGED <<clock, hashVars, objVars, req, timed, now, todo, sends,
                   requests, history>>

HandleCallback ==
    /\ pc[Service] = "handle_cb"
    /\ replied' = Bump(replied, job)
    /\ Goto(Service, AfterCallback(job, "handle_end"))
    /\ UNCHANGED <<clock, mutex, hashVars, objVars, waitVars, serviceVars,
                   netVars, registered, timedout>>

(* Mutant: the request stays registered. *)
HandleEndKeepsEntry ==
    /\ pc[Service] = "handle_end"
    /\ mutex' = None
    /\ job' = None
    /\ Goto(Service, "idle")
    /\ UNCHANGED <<clock, hashVars, objVars, waitVars, now, todo, netVars,
                   history>>

(* Mutant: the mutex stays locked. *)
HandleEndKeepsLock ==
    /\ pc[Service] = "handle_end"
    /\ msg_hash' = [msg_hash EXCEPT ![job] = None]
    /\ job' = None
    /\ Goto(Service, "idle")
    /\ UNCHANGED <<clock, mutex, waiter_hash, table, objVars, waitVars, now,
                   todo, netVars, history>>

HandleEnd ==
    /\ pc[Service] = "handle_end"
    /\ msg_hash' = [msg_hash EXCEPT ![job] = None]
    /\ mutex' = None
    /\ job' = None
    /\ Goto(Service, "idle")
    /\ UNCHANGED <<clock, waiter_hash, table, objVars, waitVars, now, todo,
                   netVars, history>>

-----------------------------------------------------------------------------
(* The service thread: ipcam_message_manager_clear. *)

(* The time is read before the mutex is locked. *)
ClearStart ==
    /\ owned
    /\ pc[Service] = "idle"
    /\ now' = clock
    /\ Goto(Service, "clear_lock")
    /\ UNCHANGED <<clock, mutex, hashVars, objVars, waitVars, job, todo,
                   netVars, history>>

ClearLock ==
    /\ pc[Service] = "clear_lock"
    /\ mutex = None
    /\ mutex' = Service
    /\ todo' = Overdue \cap Callbacks
    /\ Goto(Service, "clear_cb")
    /\ UNCHANGED <<clock, hashVars, objVars, waitVars, job, now, netVars,
                   history>>

(* g_hash_table_foreach calls the handlers in no particular order. *)
ClearCallback(id) ==
    /\ pc[Service] = "clear_cb"
    /\ id \in todo
    /\ todo' = todo \ {id}
    /\ timedout' = Bump(timedout, id)
    /\ Goto(Service, AfterCallback(id, "clear_cb"))
    /\ UNCHANGED <<clock, mutex, hashVars, objVars, waitVars, job, now,
                   netVars, registered, replied>>

(* Mutant: what to remove is decided with a clock read anew. *)
ClearEndLater ==
    /\ pc[Service] = "clear_cb"
    /\ todo = {}
    /\ msg_hash' = [id \in Ids |->
                      IF Pending(id) /\ Expired(clock, msg_hash[id])
                        THEN None ELSE msg_hash[id]]
    /\ mutex' = None
    /\ now' = 0
    /\ Goto(Service, "idle")
    /\ UNCHANGED <<clock, waiter_hash, table, objVars, waitVars, job, todo,
                   netVars, history>>

(* Mutant: the mutex stays locked. *)
ClearEndKeepsLock ==
    /\ pc[Service] = "clear_cb"
    /\ todo = {}
    /\ msg_hash' = [id \in Ids |-> IF id \in Overdue THEN None
                                                     ELSE msg_hash[id]]
    /\ now' = 0
    /\ Goto(Service, "idle")
    /\ UNCHANGED <<clock, mutex, waiter_hash, table, objVars, waitVars, job,
                   todo, netVars, history>>

ClearEnd ==
    /\ pc[Service] = "clear_cb"
    /\ todo = {}
    /\ msg_hash' = [id \in Ids |-> IF id \in Overdue THEN None
                                                     ELSE msg_hash[id]]
    /\ mutex' = None
    /\ now' = 0
    /\ Goto(Service, "idle")
    /\ UNCHANGED <<clock, waiter_hash, table, objVars, waitVars, job, todo,
                   netVars, history>>

-----------------------------------------------------------------------------
(* A client thread: ipcam_message_manager_wait_for. *)

(* g_object_unref, and with the last reference ipcam_message_manager_finalize,
   which frees both tables.  Requests that are still registered are forgotten
   with msg_hash, their handlers not called. *)
DropManager ==
    /\ refs' = refs - 1
    /\ table' = IF refs = 1 THEN "freed" ELSE table

(* ipcam_base_app_wait_response reads priv->msg_manager and passes it on; the
   app may drop the manager before wait_for has a reference of its own. *)
WaitCall(t, id) ==
    /\ owned
    /\ pc[t] = "idle"
    /\ sends[id] > 0
    /\ SharedWait \/ Owner[id] = t
    /\ req' = [req EXCEPT ![t] = id]
    /\ \E b \in BOOLEAN : timed' = [timed EXCEPT ![t] = b]
    /\ Goto(t, "call")
    /\ UNCHANGED <<clock, mutex, hashVars, objVars, ret, message, serviceVars,
                   netVars, history>>

(* Mutant: g_object_ref is forgotten. *)
WaitLookupWithoutRef(t) ==
    /\ pc[t] = "call"
    /\ refs > 0
    /\ waiter_hash[req[t]] = None
    /\ Goto(t, "enter")
    /\ UNCHANGED <<clock, mutex, hashVars, objVars, waitVars, serviceVars,
                   netVars, history>>

(* The reference is taken and waiter_hash looked up without the mutex.  A
   second wait for the same id frees the table and keeps the reference. *)
WaitLookup(t) ==
    /\ pc[t] = "call"
    /\ 0 < refs /\ refs < MaxRefs
    /\ refs' = refs + 1
    /\ IF waiter_hash[req[t]] # None
         THEN /\ table' = "freed"
              /\ waiter_hash' = [i \in Ids |-> None]
              /\ req' = [req EXCEPT ![t] = None]
              /\ timed' = [timed EXCEPT ![t] = FALSE]
              /\ Goto(t, "idle")
         ELSE /\ Goto(t, "enter")
              /\ UNCHANGED <<table, waiter_hash, req, timed>>
    /\ UNCHANGED <<clock, mutex, msg_hash, owned, ret, message, serviceVars,
                   netVars, history>>

(* Insert the waiter and wait on its condition, which releases the mutex. *)
WaitEnter(t) ==
    /\ pc[t] = "enter"
    /\ mutex = None
    /\ waiter_hash' = [waiter_hash EXCEPT ![req[t]] = t]
    /\ Goto(t, "waiting")
    /\ UNCHANGED <<clock, mutex, msg_hash, table, objVars, waitVars,
                   serviceVars, netVars, history>>

(* g_cond_wait may return although nobody signalled; no loop catches it. *)
Spurious(t) ==
    /\ pc[t] = "waiting"
    /\ ret' = [ret EXCEPT ![t] = timed[t]]
    /\ Goto(t, "woken")
    /\ UNCHANGED <<clock, mutex, hashVars, objVars, req, timed, message,
                   serviceVars, netVars, history>>

(* g_cond_wait_until gives up; it still has to get the mutex back. *)
WaitTimeout(t) ==
    /\ pc[t] = "waiting"
    /\ timed[t]
    /\ Goto(t, "woken")
    /\ UNCHANGED <<clock, mutex, hashVars, objVars, waitVars, serviceVars,
                   netVars, history>>

(* Mutant: the waiter stays in waiter_hash. *)
WaitLeaveKeepsWaiter(t) ==
    /\ pc[t] = "woken"
    /\ mutex = None
    /\ Goto(t, "return")
    /\ UNCHANGED <<clock, mutex, hashVars, objVars, waitVars, serviceVars,
                   netVars, history>>

WaitLeave(t) ==
    /\ pc[t] = "woken"
    /\ mutex = None
    /\ waiter_hash' = [waiter_hash EXCEPT ![req[t]] = None]
    /\ Goto(t, "return")
    /\ UNCHANGED <<clock, mutex, msg_hash, table, objVars, waitVars,
                   serviceVars, netVars, history>>

(* g_object_unref(message_manager), pass the message on, free the waiter. *)
WaitReturn(t) ==
    /\ pc[t] = "return"
    /\ DropManager
    /\ req' = [req EXCEPT ![t] = None]
    /\ timed' = [timed EXCEPT ![t] = FALSE]
    /\ ret' = [ret EXCEPT ![t] = FALSE]
    /\ message' = [message EXCEPT ![t] = None]
    /\ Goto(t, "idle")
    /\ UNCHANGED <<clock, mutex, msg_hash, waiter_hash, owned, serviceVars,
                   netVars, history>>

-----------------------------------------------------------------------------
(* A thread uses the freed table: the process may die of it.  If it does not,
   the other actions treat the table as what g_hash_table_unref left: empty.
   Without any reference the manager is gone as well, and g_object_ref or the
   assertion behind it ends the process. *)
TouchesTable(t) ==
    \/ t \in Clients /\ pc[t] \in {"enter", "woken"} /\ mutex = None
    \/ t \in Clients /\ pc[t] = "call"
    \/ t = Service /\ pc[t] = "idle" /\ owned /\ \E id \in Ids : inbox[id] > 0

UseAfterFree(t) ==
    /\ table = "freed"
    /\ TouchesTable(t)
    /\ table' = "crashed"
    /\ UNCHANGED <<clock, mutex, msg_hash, waiter_hash, objVars, pc, waitVars,
                   serviceVars, netVars, history>>

(* ipcam_base_app_dispose, once the service loop has ended.  Threads that are
   in wait_for stay there: that is what their reference is for.  A thread that
   sends goes on using the app itself, so nobody disposes of it under one. *)
Dispose ==
    /\ owned
    /\ pc[Service] = "idle"
    /\ \A t \in Clients : pc[t] # "transmit"
    /\ owned' = FALSE
    /\ DropManager
    /\ UNCHANGED <<clock, mutex, msg_hash, waiter_hash, pc, waitVars,
                   serviceVars, netVars, history>>

Terminated ==
    /\ \/ table = "crashed"
       \/ ~owned /\ \A t \in Threads : pc[t] = "idle"
    /\ UNCHANGED vars

ServiceStep ==
    \/ \E id \in Ids : HandleLock(id)
    \/ HandleCallback
    \/ HandleEnd
    \/ ClearStart
    \/ ClearLock
    \/ \E id \in Ids : ClearCallback(id)
    \/ ClearEnd

WaitStep(t) ==
    \/ \E id \in Ids : WaitCall(t, id)
    \/ WaitLookup(t)
    \/ WaitEnter(t)
    \/ Spurious(t)
    \/ WaitTimeout(t)
    \/ WaitLeave(t)
    \/ WaitReturn(t)

SendStep(t) ==
    \/ \E id \in Ids, timeout \in Timeouts : Register(t, id, timeout)
    \/ Transmit(t)

Step ==
    \/ Tick
    \/ \E id \in Ids : Respond(id)
    \/ \E t \in Threads : SendStep(t)
    \/ ServiceStep
    \/ \E t \in Clients : WaitStep(t)
    \/ \E t \in Threads : UseAfterFree(t)
    \/ Dispose

Next == (table # "crashed" /\ Step) \/ Terminated

Spec == Init /\ [][Next]_vars

-----------------------------------------------------------------------------
(* Fairness.  Threads run; the mutex does not pass over one that waits for it
   for ever, nor the poll loop a readable socket (SF); the timer pump makes
   the service thread call ipcam_message_manager_clear again and again (WF:
   it is idle when it is not working off one of finitely many messages). *)
ServiceRuns ==
    \/ Transmit(Service)
    \/ HandleCallback
    \/ HandleEnd
    \/ ClearLock
    \/ \E id \in Ids : ClearCallback(id)
    \/ ClearEnd

Fairness ==
    /\ WF_vars(Tick)
    /\ WF_vars(ServiceRuns) /\ WF_vars(ClearStart)
    /\ \A id \in Ids : SF_vars(HandleLock(id))
    /\ \A t \in Clients :
          /\ SF_vars(WaitEnter(t) \/ WaitLeave(t))
          /\ WF_vars(Transmit(t) \/ WaitTimeout(t) \/ WaitReturn(t))

FairSpec == Spec /\ Fairness

-----------------------------------------------------------------------------
(* Properties. *)

PcClient == {"idle", "transmit", "call", "enter", "waiting", "woken", "return"}
PcService == {"idle", "transmit", "handle_cb", "handle_end", "clear_lock",
              "clear_cb", "relock"}

(* Every variable has its type; refs in Nat says that the manager is never
   released more often than it was referenced. *)
TypeOK ==
    /\ clock \in 0..MaxTime
    /\ mutex \in {Service, None}
    /\ msg_hash \in [Ids -> Entry \cup {None}]
    /\ waiter_hash \in [Ids -> Clients \cup {None}]
    /\ table \in {"live", "freed", "crashed"}
    /\ refs \in Nat
    /\ owned \in BOOLEAN
    /\ pc \in [Threads -> PcClient \cup PcService]
    /\ pc[Service] \in PcService
    /\ \A t \in Clients : pc[t] \in PcClient
    /\ req \in [Threads -> Ids \cup {None}]
    /\ timed \in [Clients -> BOOLEAN]
    /\ ret \in [Clients -> BOOLEAN]
    /\ message \in [Clients -> Ids \cup {None}]
    /\ job \in Ids \cup {None}
    /\ now \in 0..MaxTime
    /\ todo \subseteq Callbacks
    /\ sends \in [Ids -> Nat] /\ \A id \in Ids : sends[id] <= MaxSends[id]
    /\ requests \in [Ids -> Nat]
    /\ inbox \in [Ids -> Nat]
    /\ registered \in [Ids -> Nat]
    /\ replied \in [Ids -> Nat]
    /\ timedout \in [Ids -> Nat]

(* The handler of id was called and its entry is about to be removed. *)
Called(id) ==
    \/ pc[Service] \in {"handle_end", "relock"} /\ job = id
    \/ /\ pc[Service] \in {"clear_cb", "relock"}
       /\ job = None
       /\ id \in Overdue \ todo

Open == {id \in Callbacks : Pending(id) /\ ~Called(id)}

(* Each time a request is put in msg_hash its handler is called exactly once,
   be it by a response or by the timeout, whichever of them, of resent
   requests and of duplicated responses come in between. *)
ExactlyOnce ==
    \A id \in Callbacks :
        registered[id] = replied[id] + timedout[id]
                         + (IF id \in Open THEN 1 ELSE 0)

(* The manager implements the lifecycle that its callers count on. *)
Lifecycle == INSTANCE RequestLifecycle WITH
    Requests <- Callbacks,
    open     <- Open,
    opened   <- [id \in Callbacks |-> registered[id]],
    answered <- [id \in Callbacks |-> replied[id]],
    expired  <- [id \in Callbacks |-> timedout[id]]

ImplementsLifecycle == Lifecycle!Spec

(* A thread that sleeps in wait_for can be found in waiter_hash, and it does
   not sleep on a response that has come. *)
NoLostWakeup ==
    \A t \in Clients :
        pc[t] = "waiting" => waiter_hash[req[t]] = t /\ message[t] = None

(* wait_for refuses a second wait for an id ("There is already a thread
   waiting for message"): the thread that is waiting stays registered. *)
RefusalKeepsWaiter ==
    [][\A t \in Clients :
          pc[t] = "waiting" /\ pc'[t] = "waiting"
            => waiter_hash[req[t]] = waiter_hash'[req[t]]]_vars

(* waiter_hash holds no waiter that wait_for has freed or is about to free:
   handle writes the response into a struct some thread still reads. *)
NoDanglingWaiter ==
    \A id \in Ids :
        waiter_hash[id] # None =>
            /\ pc[waiter_hash[id]] \in {"waiting", "woken"}
            /\ req[waiter_hash[id]] = id

(* From the moment a thread has its reference until it drops it, the manager
   and its tables are there, even when the app has dropped them, and even when
   another thread was overtaken by that before it had a reference.  They are
   gone when the app and all those threads have left. *)
Inside == {t \in Clients : Waiting(t)}
ManagerOutlivesWaiters ==
    /\ refs = (IF owned THEN 1 ELSE 0) + Cardinality(Inside)
    /\ table = "live" <=> owned \/ Inside # {}

(* wait_for asserts that what it was given is a message manager: the process
   does not die of one to which there is no reference left. *)
AssertHolds == table = "crashed" => refs > 0

(* The service thread holds the mutex exactly while it handles or clears, so
   that it never leaves the manager with the mutex locked. *)
MutexDiscipline ==
    (mutex = Service) <=>
        pc[Service] \in {"handle_cb", "handle_end", "clear_cb", "relock"}

(* A request is timed out before its time only when it was registered after
   clear had read the clock: the unsigned difference is then enormous. *)
EarlyOnlyIfStale ==
    [][\A id \in Ids :
          timedout'[id] # timedout[id] =>
             \/ clock >= msg_hash[id].time + msg_hash[id].timeout
             \/ now < msg_hash[id].time]_vars

(* A request sent with a timeout (tests/app.c gives 5 seconds) is not timed
   out before the timeout has passed. *)
NoEarlyTimeout ==
    [][\A id \in Ids :
          timedout'[id] # timedout[id] =>
             clock >= msg_hash[id].time + msg_hash[id].timeout]_vars

(* The service thread is in a handler that sends a request: it waits for the
   mutex that it holds.  What follows names this as the one exception. *)
Reentered == pc[Service] = "relock"

(* While the app lives no request stays registered for ever: a response or
   the timer ends it, unless a handler locks the manager up. *)
RequestEnds ==
    \A id \in Ids : Pending(id) ~> (~Pending(id) \/ ~owned \/ Reentered)

(* The thread that waits for a response which is delivered returns, and a
   wait with a timeout returns in any case, unless a handler locks the
   manager up. *)
WaitReturns ==
    \A t \in Clients :
        (Waiting(t) /\ (timed[t] \/ message[t] # None))
            ~> (~Waiting(t) \/ Reentered)

(* A response at the service thread's socket is handled while the app lives,
   unless a handler locks the manager up. *)
ResponseHandled ==
    \A id \in Ids : inbox[id] > 0 ~> (inbox[id] = 0 \/ ~owned \/ Reentered)

(* Only a handler that sends a request leaves the mutex locked for ever. *)
LockedOnlyByReentry ==
    (mutex # None) ~> (mutex = None \/ (Reentered /\ mutex = Service))
=============================================================================

------------------------------- MODULE AppStart -------------------------------
(***************************************************************************)
(* How an app comes to its sockets: ipcam_base_app_init, which connects to *)
(* the timer pump, asks it for the timer that drives                       *)
(* ipcam_message_manager_clear, and opens what the configuration names;    *)
(* then the service of ServiceSockets, which may open more.                *)
(*                                                                         *)
(* The configuration lists names under bind, connect, publish, subscribe.  *)
(* g_hash_table_foreach opens those of a section in any order, through the *)
(* calls that everyone uses: one that is taken is refused, and init does   *)
(* not look at the result.                                                 *)
(***************************************************************************)
EXTENDS ServiceSockets

CONSTANTS
    TimerName     \* IPCAM_TIMER_CLIENT_NAME

ASSUME TimerNameAssumption == TimerName \in Names

Order == <<"bind", "connect", "publish", "subscribe">>
Sections == ToSet(Order)
Following == [bind |-> "connect", connect |-> "publish", publish |-> "subscribe",
              subscribe |-> "ready"]

VARIABLES
    config,       \* the names listed under each section
    start,        \* where ipcam_base_app_init is: "timer", "ask", in a
                  \* section, or "ready"
    collection,   \* the names of the section that are still to be opened
    asked         \* has the pump been asked for the clear timer?

startVars == <<config, start, collection, asked>>
appVars == <<vars, startVars>>

NoConfig == [section \in Sections |-> {}]

(* ipcam_base_app_load_config *)
AppInit ==
    /\ Init
    /\ config \in [Sections -> SUBSET Names]
    /\ start = "timer"
    /\ collection = {}
    /\ asked = FALSE

Idle == openPc = "idle"

(* ipcam_service_*_by_name refuses a name that it has. *)
OpenUnlessTaken(n, type) ==
    IF HasName(n) THEN Idle /\ UNCHANGED vars ELSE OpenCheck(n, type)

(* Mutant: the timer is asked for before its socket is connected. *)
ConnectAfterAsking ==
    /\ start = "timer"
    /\ start' = "ask"
    /\ UNCHANGED <<vars, config, collection, asked>>

(* ipcam_base_app_connect_to_timer *)
ConnectToTimer ==
    /\ start = "timer"
    /\ OpenUnlessTaken(TimerName, "client")
    /\ start' = "ask"
    /\ UNCHANGED <<config, collection, asked>>

(* ipcam_base_app_get_configs fills the collection anew. *)
EnterSection(section) ==
    /\ start' = section
    /\ collection' = config[section]

(* ipcam_base_app_add_timer: ipcam_service_send_strings sends nothing when the
   name is not there. *)
AskForClearTimer ==
    /\ start = "ask" /\ Idle
    /\ asked' = HasName(TimerName)
    /\ EnterSection("bind")
    /\ UNCHANGED <<vars, config>>

SectionTypes == [bind |-> "server", connect |-> "client",
                 publish |-> "publisher", subscribe |-> "subscriber"]

(* ipcam_base_app_bind, ..connect, ..bind_publish, ..subscribe *)
OpenConfigured(n) ==
    /\ start \in Sections
    /\ n \in collection
    /\ OpenUnlessTaken(n, SectionTypes[start])
    /\ collection' = collection \ {n}
    /\ UNCHANGED <<config, start, asked>>

(* The next section; after the last one the app is there, and what was in its
   configuration is of no more concern to its sockets. *)
SectionDone ==
    /\ start \in Sections /\ collection = {} /\ Idle
    /\ IF Following[start] \in Sections
         THEN EnterSection(Following[start]) /\ UNCHANGED config
         ELSE start' = "ready" /\ config' = NoConfig /\ UNCHANGED collection
    /\ UNCHANGED <<vars, asked>>

StartStep ==
    \/ ConnectToTimer
    \/ AskForClearTimer
    \/ \E n \in Names : OpenConfigured(n)
    \/ SectionDone

(* What goes on while the app starts, and what only when it is there. *)
Always == OpenCreate \/ OpenAdd \/ \E s \in Sockets, k \in Lengths : Arrive(s, k)

Running ==
    \/ \E n \in Names, type \in Types : OpenCheck(n, type)
    \/ Loop
    \/ Stop
    \/ CloseAll
    \/ Finished

AppNext ==
    \/ StartStep
    \/ Always /\ UNCHANGED startVars
    \/ start = "ready" /\ Running /\ UNCHANGED startVars

AppSpec == AppInit /\ [][AppNext]_appVars

(* The one thread there is runs init, then the service. *)
AppFairness ==
    /\ WF_appVars(StartStep)
    /\ WF_appVars((OpenCreate \/ OpenAdd) /\ UNCHANGED startVars)
    /\ WF_appVars(start = "ready" /\ Loop /\ UNCHANGED startVars)

AppFairSpec == AppSpec /\ AppFairness

-----------------------------------------------------------------------------
(* Properties. *)

(* Every variable has its type, those of ServiceSockets too. *)
AppTypeOK ==
    /\ TypeOK
    /\ config \in [Sections -> SUBSET Names]
    /\ start \in {"timer", "ask", "ready"} \cup Sections
    /\ collection \subseteq Names
    /\ asked \in BOOLEAN

(* When init returns, the app has a socket under every name in its
   configuration, of the type of the first section that lists it, one under
   the timer client's name, which is a client whatever the configuration says
   of it, and no other socket; and the pump has been asked for the timer
   without which no request would ever time out. *)
Listed(n) == {i \in DOMAIN Order : n \in config[Order[i]]}

TypeFor(section) ==
    CASE section = "bind" -> "server"       [] section = "connect" -> "client"
      [] section = "publish" -> "publisher" [] section = "subscribe" -> "subscriber"

Wanted(n) ==
    IF n = TimerName THEN {"client"}
    ELSE {TypeFor(Order[i]) : i \in {j \in Listed(n) : \A k \in Listed(n) : j <= k}}

StartOpensConfigured ==
    [][start # "ready" /\ start' = "ready" =>
          /\ asked
          /\ \A n \in Names :
                (IF HasName(n) THEN {socket_hash[n].type} ELSE {})
                    = Wanted(n)
          /\ \A s \in Sockets : kind[s] # None => Cardinality(NamesOf(s)) = 1]_appVars
=============================================================================

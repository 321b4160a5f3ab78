------------------------------ MODULE TimerPump ------------------------------
(***************************************************************************)
(* The timer service (timer_pump.c, a process of its own) and the apps     *)
(* that use it (timer_manager.c and the timer functions of base_app.c).    *)
(*                                                                         *)
(* An app records a callback under a timer id and sends the id and an      *)
(* interval to the pump.  The pump keeps one entry per pair of client id   *)
(* and timer id, under the concatenation of the two, and sends the timer   *)
(* id back whenever the interval has passed; the app's service thread then *)
(* calls the callback.  An interval below one second removes the entry.    *)
(*                                                                         *)
(* Time is unbounded: an entry holds how long ago time_begin was instead   *)
(* of time_begin, and ages from MaxAge on are not told apart.              *)
(***************************************************************************)
EXTENDS Naturals, Sequences, SequencesExt

CONSTANTS
    Clients,      \* client ids of the apps: sequences of characters
    Timers,       \* timer ids: sequences of characters
    Intervals,    \* intervals in use, in seconds; 0 asks for removal
    MaxAge,       \* bound: no age is above; at least the longest interval
    MaxQueue,     \* bound: messages on their way in one direction
    Crashes,      \* may the pump crash and be started again?
    None          \* NULL

ASSUME NumbersAssumption ==
    /\ MaxAge \in Nat
    /\ MaxQueue \in Nat
    /\ Intervals \subseteq 0..MaxAge

Pairs == Clients \X Timers
Key(client, timer) == client \o timer
Keys == {Key(p[1], p[2]) : p \in Pairs}
Entry == [client : Clients, timer : Timers, age : 0..MaxAge,
          interval : Intervals \ {0}]

ASSUME NoneAssumption == None \notin Entry /\ None \notin Intervals

VARIABLES
    timers,       \* priv->timers_hash of the pump
    pumpPc,       \* "poll", "check" or "down"
    unchecked,    \* keys that ipcam_timer_pump_in_loop has still to visit
    toPump,       \* per client: messages on their way to the pump
    ticks,        \* per client: timer ids on their way to the app
    callbacks,    \* per client: the ids in its timer_manager
    beat,         \* per client and timer: flips when the callback is called
    shortest,     \* history: the shortest interval asked for, per timer
    current,      \* history: the interval the pump heard of last, per timer
    sinceTick     \* history: age of the pump's last tick, per timer

appVars == <<callbacks, beat, shortest>>
vars == <<timers, pumpPc, unchecked, toPump, ticks, appVars, current, sinceTick>>

Has(k) == timers[k] # None
Older(age) == IF age < MaxAge THEN age + 1 ELSE age

Init ==
    /\ timers = [k \in Keys |-> None]
    /\ pumpPc = "poll"
    /\ unchecked = {}
    /\ toPump = [c \in Clients |-> <<>>]
    /\ ticks = [c \in Clients |-> <<>>]
    /\ callbacks = [c \in Clients |-> {}]
    /\ beat = [p \in Pairs |-> FALSE]
    /\ shortest = [p \in Pairs |-> None]
    /\ current = [p \in Pairs |-> 0]
    /\ sinceTick = [p \in Pairs |-> MaxAge]

(* A second passes on the monotonic clock. *)
Second ==
    /\ timers' = [k \in Keys |->
                    IF Has(k) THEN [timers[k] EXCEPT !.age = Older(@)] ELSE None]
    /\ sinceTick' = [p \in Pairs |-> Older(sinceTick[p])]
    /\ UNCHANGED <<pumpPc, unchecked, toPump, ticks, appVars, current>>

-----------------------------------------------------------------------------
(* An app. *)

(* ipcam_base_app_add_timer: the timer manager refuses an id it has, but the
   message is sent to the pump all the same. *)
AddTimer(c, t, interval) ==
    /\ Len(toPump[c]) < MaxQueue
    /\ callbacks' = [callbacks EXCEPT ![c] = @ \cup {t}]
    /\ toPump' = [toPump EXCEPT ![c] =
                    Append(@, [timer |-> t, interval |-> interval])]
    /\ shortest' = IF /\ interval > 0
                      /\ \/ shortest[<<c, t>>] = None
                         \/ interval < shortest[<<c, t>>]
                     THEN [shortest EXCEPT ![<<c, t>>] = interval]
                     ELSE shortest
    /\ UNCHANGED <<timers, pumpPc, unchecked, ticks, beat, current, sinceTick>>

(* ipcam_timer_manager_del_timer: nobody tells the pump. *)
DelTimer(c, t) ==
    /\ t \in callbacks[c]
    /\ callbacks' = [callbacks EXCEPT ![c] = @ \ {t}]
    /\ UNCHANGED <<timers, pumpPc, unchecked, toPump, ticks, beat, shortest,
                   current, sinceTick>>

(* ipcam_base_app_on_timer: a tick for an id that is not in the timer manager
   is ignored. *)
OnTimer(c) ==
    /\ ticks[c] # <<>>
    /\ ticks' = [ticks EXCEPT ![c] = Tail(@)]
    /\ beat' = IF Head(ticks[c]) \in callbacks[c]
                 THEN [beat EXCEPT ![<<c, Head(ticks[c])>>] = ~@]
                 ELSE beat
    /\ UNCHANGED <<timers, pumpPc, unchecked, toPump, callbacks, shortest,
                   current, sinceTick>>

-----------------------------------------------------------------------------
(* The pump: poll for one message, look at every timer, and again. *)

(* What is under the key already stays as it is. *)
Register(c, t, interval) ==
    timers' = IF Has(Key(c, t)) THEN timers
              ELSE [timers EXCEPT ![Key(c, t)] =
                      [client |-> c, timer |-> t, age |-> 0,
                       interval |-> interval]]

(* Mutant: the entry stays. *)
UnregisterNothing(c, t) == UNCHANGED timers

Unregister(c, t) == timers' = [timers EXCEPT ![Key(c, t)] = None]

(* Mutant: a round that read a message looks at no timer. *)
OnReadOnly(c) ==
    /\ pumpPc = "poll"
    /\ toPump[c] # <<>>
    /\ LET m == Head(toPump[c]) IN
          /\ IF m.interval < 1
               THEN Unregister(c, m.timer)
               ELSE Register(c, m.timer, m.interval)
          /\ current' = [current EXCEPT ![<<c, m.timer>>] = m.interval]
    /\ toPump' = [toPump EXCEPT ![c] = Tail(@)]
    /\ UNCHANGED <<pumpPc, unchecked, ticks, appVars, sinceTick>>

(* Mutant: an interval of zero is registered. *)
OnReadZero(c) ==
    /\ pumpPc = "poll"
    /\ toPump[c] # <<>>
    /\ LET m == Head(toPump[c]) IN
          /\ Register(c, m.timer, m.interval)
          /\ current' = [current EXCEPT ![<<c, m.timer>>] = m.interval]
    /\ toPump' = [toPump EXCEPT ![c] = Tail(@)]
    /\ pumpPc' = "check"
    /\ unchecked' = {k \in Keys : timers'[k] # None}
    /\ UNCHANGED <<ticks, appVars, sinceTick>>

OnRead(c) ==
    /\ pumpPc = "poll"
    /\ toPump[c] # <<>>
    /\ LET m == Head(toPump[c]) IN
          /\ IF m.interval < 1
               THEN Unregister(c, m.timer)
               ELSE Register(c, m.timer, m.interval)
          /\ current' = [current EXCEPT ![<<c, m.timer>>] = m.interval]
    /\ toPump' = [toPump EXCEPT ![c] = Tail(@)]
    /\ pumpPc' = "check"
    /\ unchecked' = {k \in Keys : timers'[k] # None}
    /\ UNCHANGED <<ticks, appVars, sinceTick>>

(* zpoller_wait found nothing to read in TIMEOUT_PERIOD. *)
PollExpired ==
    /\ pumpPc = "poll"
    /\ \A c \in Clients : toPump[c] = <<>>
    /\ pumpPc' = "check"
    /\ unchecked' = {k \in Keys : Has(k)}
    /\ UNCHANGED <<timers, toPump, ticks, appVars, current, sinceTick>>

(* ipcam_timer_pump_check_timer reads the clock for each timer anew. *)
Due(e) == e.age >= e.interval

(* Mutant: whom to tell is derived from the key. *)
SendTickByKey(e) ==
    \E p \in Pairs :
        /\ Key(p[1], p[2]) = Key(e.client, e.timer)
        /\ Len(ticks[p[1]]) < MaxQueue
        /\ ticks' = [ticks EXCEPT ![p[1]] = Append(@, p[2])]
        /\ sinceTick' = [sinceTick EXCEPT ![p] = 0]

SendTick(e) ==
    /\ Len(ticks[e.client]) < MaxQueue
    /\ ticks' = [ticks EXCEPT ![e.client] = Append(@, e.timer)]
    /\ sinceTick' = [sinceTick EXCEPT ![<<e.client, e.timer>>] = 0]

(* Mutant: time_begin is moved on by one interval, so that a pump that was
   late makes up for the ticks it has missed. *)
CheckTimerCatchesUp(k) ==
    /\ pumpPc = "check"
    /\ k \in unchecked
    /\ unchecked' = unchecked \ {k}
    /\ IF Due(timers[k])
         THEN /\ timers' = [timers EXCEPT ![k].age = @ - timers[k].interval]
              /\ SendTick(timers[k])
         ELSE UNCHANGED <<timers, ticks, sinceTick>>
    /\ UNCHANGED <<pumpPc, toPump, appVars, current>>

(* time_begin is set to the time of the tick, however late it is. *)
CheckTimer(k) ==
    /\ pumpPc = "check"
    /\ k \in unchecked
    /\ unchecked' = unchecked \ {k}
    /\ IF Due(timers[k])
         THEN /\ timers' = [timers EXCEPT ![k].age = 0]
              /\ SendTick(timers[k])
         ELSE UNCHANGED <<timers, ticks, sinceTick>>
    /\ UNCHANGED <<pumpPc, toPump, appVars, current>>

CheckDone ==
    /\ pumpPc = "check"
    /\ unchecked = {}
    /\ pumpPc' = "poll"
    /\ UNCHANGED <<timers, unchecked, toPump, ticks, appVars, current, sinceTick>>

(* The pump keeps its timers in memory.  With it go the messages that it had
   not yet read and the ticks that had not yet left. *)
Crash ==
    /\ Crashes
    /\ pumpPc # "down"
    /\ pumpPc' = "down"
    /\ timers' = [k \in Keys |-> None]
    /\ unchecked' = {}
    /\ current' = [p \in Pairs |-> 0]
    /\ \E n \in [Clients -> 0..MaxQueue], m \in [Clients -> 0..MaxQueue] :
          /\ toPump' = [c \in Clients |->
                          SubSeq(toPump[c], n[c] + 1, Len(toPump[c]))]
          /\ ticks' = [c \in Clients |->
                          SubSeq(ticks[c], 1, Len(ticks[c]) - m[c])]
    /\ UNCHANGED <<appVars, sinceTick>>

(* The sockets reconnect; the apps do not notice. *)
Restart ==
    /\ pumpPc = "down"
    /\ pumpPc' = "poll"
    /\ UNCHANGED <<timers, unchecked, toPump, ticks, appVars, current, sinceTick>>

App(c) ==
    \/ \E t \in Timers, i \in Intervals : AddTimer(c, t, i)
    \/ \E t \in Timers : DelTimer(c, t)
    \/ OnTimer(c)

Pump ==
    \/ \E c \in Clients : OnRead(c)
    \/ PollExpired
    \/ \E k \in Keys : CheckTimer(k)
    \/ CheckDone

Next == Second \/ (\E c \in Clients : App(c)) \/ Pump \/ Crash \/ Restart

Spec == Init /\ [][Next]_vars

(* Threads run, time passes, and the pump's ROUTER socket takes messages from
   its peers in turn (SF). *)
Fairness ==
    /\ WF_vars(Second)
    /\ WF_vars(Pump)
    /\ \A c \in Clients : SF_vars(OnRead(c)) /\ WF_vars(OnTimer(c))

FairSpec == Spec /\ Fairness

-----------------------------------------------------------------------------
(* Properties. *)

Message == [timer : Timers, interval : Intervals]

(* Every variable has its type, and the channels keep to their capacity. *)
TypeOK ==
    /\ timers \in [Keys -> Entry \cup {None}]
    /\ pumpPc \in {"poll", "check", "down"}
    /\ unchecked \subseteq {k \in Keys : Has(k)}
    /\ toPump \in [Clients -> Seq(Message)]
    /\ ticks \in [Clients -> Seq(Timers)]
    /\ \A c \in Clients : Len(toPump[c]) <= MaxQueue /\ Len(ticks[c]) <= MaxQueue
    /\ callbacks \in [Clients -> SUBSET Timers]
    /\ beat \in [Pairs -> BOOLEAN]
    /\ shortest \in [Pairs -> (Intervals \ {0}) \cup {None}]
    /\ current \in [Pairs -> Intervals \cup {0}]
    /\ sinceTick \in [Pairs -> 0..MaxAge]

(* The pump runs exactly the timers whose last message it has read since it
   was started asked for an interval, each for the app that asked; but timers
   of two apps whose ids run together to the same key get into each other's
   way. *)
Unshared(p) ==
    \A q \in Pairs : Key(q[1], q[2]) = Key(p[1], p[2]) => q = p

PumpFollowsLastRequest ==
    \A p \in Pairs :
        Unshared(p) =>
            LET e == timers[Key(p[1], p[2])] IN
            IF current[p] >= 1
              THEN e # None /\ e.client = p[1] /\ e.timer = p[2]
              ELSE e = None

(* No app gets a tick for a timer it never asked for, not even when the ids
   of two apps and their timers run together to the same key. *)
OnlyAskedTimersTick ==
    \A c \in Clients : \A t \in ToSet(ticks[c]) : shortest[<<c, t>>] # None

(* When the pump sends the tick of a timer, its last tick is at least as long
   ago as the shortest interval that the app ever asked for: a pump that was
   stalled sends no burst of ticks afterwards, and removing and adding a timer,
   or restarting the pump, starts a full interval. *)
TickSent(p) ==
    /\ Len(ticks'[p[1]]) > Len(ticks[p[1]])
    /\ Last(ticks'[p[1]]) = p[2]

TicksSpaced ==
    [][\A p \in Pairs : TickSent(p) => sinceTick[p] >= shortest[p]]_vars

(* While the pump has an entry and the app a callback for a timer, the
   callback is called again and again; ipcam_message_manager_clear is driven
   this way. *)
Running(p) ==
    /\ timers[Key(p[1], p[2])] # None
    /\ p[2] \in callbacks[p[1]]

TimerKeepsFiring ==
    \A p \in Pairs, b \in BOOLEAN :
        (Running(p) /\ beat[p] = b) ~> (beat[p] # b \/ ~Running(p))
=============================================================================

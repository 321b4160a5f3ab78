---------------------------- MODULE AppStartProofs ----------------------------
(***************************************************************************)
(* Proofs about AppStart, for any names, sockets and configuration.        *)
(*                                                                         *)
(* An app that starts takes only steps of the service of ServiceSockets,   *)
(* so what ServiceSocketsProofs says of a service holds of an app.  What   *)
(* init opens is followed section by section: the sockets that are there,  *)
(* and the one being opened, are those that the sections so far ask for.   *)
(***************************************************************************)
EXTENDS AppStart, ServiceSocketsProofs, FiniteSetTheorems

(* The place of a section in the order of ipcam_base_app_apply_config. *)
Place == [bind |-> 1, connect |-> 2, publish |-> 3, subscribe |-> 4]

(* Has init asked for the name on behalf of the section in this place? *)
Reached(n) ==
    {i \in Listed(n) :
        /\ start \in Sections
        /\ \/ i < Place[start]
           \/ i = Place[start] /\ n \notin collection}

FirstOf(places) == {i \in places : \A k \in places : i <= k}

(* What Wanted will say when the sections that follow are done. *)
WantedSoFar(n) ==
    IF n = TimerName THEN IF start = "timer" THEN {} ELSE {"client"}
    ELSE {TypeFor(Order[i]) : i \in FirstOf(Reached(n))}

(* The types of the sockets under a name, with the one being opened. *)
TypesUnder(n) ==
    {t \in Types : \/ HasName(n) /\ socket_hash[n].type = t
                   \/ openPc # "idle" /\ args = [name |-> n, type |-> t]}

(* Until init returns, the service does not run, and it has opened what the
   sections so far ask for. *)
StartInv ==
    start # "ready" =>
        /\ ~terminated
        /\ start \in Sections => asked /\ collection \subseteq config[start]
        /\ \A n \in Names : TypesUnder(n) = WantedSoFar(n)

AInv == IInv /\ AppTypeOK /\ StartInv

-----------------------------------------------------------------------------
(* The four sections, their places and the sockets that they open. *)
LEMMA SectionFacts ==
    /\ Sections = {"bind", "connect", "publish", "subscribe"}
    /\ DOMAIN Order = 1..4
    /\ \A section \in Sections :
          /\ Place[section] \in 1..4 /\ Order[Place[section]] = section
          /\ SectionTypes[section] = TypeFor(section) /\ TypeFor(section) \in Types
    /\ \A i \in 1..4 : Order[i] \in Sections /\ Place[Order[i]] = i
    /\ "timer" \notin Sections /\ "ask" \notin Sections /\ "ready" \notin Sections
<1>1. DOMAIN Order = 1..4
  BY DEF Order
<1>2. Sections = {Order[1], Order[2], Order[3], Order[4]}
  BY <1>1 DEF Sections, ToSet
<1> QED
  BY <1>1, <1>2 DEF Order, Place, SectionTypes, TypeFor, Types

(* Some section is the first of those that list a name. *)
LEMMA FirstPlace ==
    ASSUME NEW places \in SUBSET (1..4), places # {}
    PROVE  \E i \in places : FirstOf(places) = {i}
<1>1. \E i \in places : \A k \in places : i <= k
  <2>1. CASE 1 \in places
    BY <2>1
  <2>2. CASE 1 \notin places /\ 2 \in places
    BY <2>2
  <2>3. CASE 1 \notin places /\ 2 \notin places /\ 3 \in places
    BY <2>3
  <2>4. CASE 1 \notin places /\ 2 \notin places /\ 3 \notin places
    <3>1. \A k \in places : k = 4
      BY <2>4
    <3>2. PICK j \in places : TRUE
      OBVIOUS
    <3>3. \A k \in places : j <= k
      BY <3>1, <3>2
    <3> QED
      BY <3>2, <3>3
  <2> QED
    BY <2>1, <2>2, <2>3, <2>4
<1>2. PICK i \in places : \A k \in places : i <= k
  BY <1>1
<1>3. \A j \in FirstOf(places) : j = i
  BY <1>2 DEF FirstOf
<1> QED
  BY <1>2, <1>3 DEF FirstOf

-----------------------------------------------------------------------------
(* A step of an app is a step of its service, or none. *)
LEMMA AppStepIsServiceStep ==
    ASSUME [AppNext]_appVars, TimerName \in Names
    PROVE  [Next]_vars
<1>1. ASSUME NEW n \in Names, NEW type \in Types, OpenUnlessTaken(n, type)
      PROVE  [Next]_vars
  BY <1>1 DEF OpenUnlessTaken, Next, Open
<1>2. CASE ConnectToTimer
  <2>1. "client" \in Types
    BY DEF Types
  <2> QED
    BY <1>1, <1>2, <2>1 DEF ConnectToTimer
<1>3. ASSUME NEW n \in Names, OpenConfigured(n) PROVE [Next]_vars
  <2>1. SectionTypes[start] \in Types
    BY <1>3, SectionFacts DEF OpenConfigured
  <2> QED
    BY <1>1, <1>3, <2>1 DEF OpenConfigured
<1>4. CASE AskForClearTimer \/ SectionDone
  BY <1>4 DEF AskForClearTimer, SectionDone
<1>5. CASE Always
  BY <1>5 DEF Always, Next, Open
<1>6. CASE Running
  BY <1>6 DEF Running, Next, Open
<1>7. CASE UNCHANGED appVars
  BY <1>7 DEF appVars
<1> QED
  BY <1>2, <1>3, <1>4, <1>5, <1>6, <1>7 DEF AppNext, StartStep

(* The service of an app that starts from its configuration behaves as the
   service whose sockets anyone may ask for at any time. *)
THEOREM AppRefinesService == AppSpec => Spec
<1>1. AppInit => Init
  BY DEF AppInit
<1>2. [AppNext]_appVars => [Next]_vars
  BY AppStepIsServiceStep, TimerNameAssumption
<1> QED
  BY <1>1, <1>2, PTL DEF AppSpec, Spec

-----------------------------------------------------------------------------
(* What a name stands for, while no socket is being opened. *)
LEMMA TypesWhenIdle ==
    ASSUME IInv, Idle, NEW n \in Names
    PROVE  TypesUnder(n) = IF HasName(n) THEN {socket_hash[n].type} ELSE {}
<1>1. HasName(n) => socket_hash[n].type \in Types
  BY Entries DEF IInv
<1> QED
  BY <1>1 DEF TypesUnder, Idle

(* A call that opens a socket does so unless the name is taken. *)
LEMMA OpenTypes ==
    ASSUME IInv, NEW n \in Names, NEW type \in Types, OpenUnlessTaken(n, type),
           NEW m \in Names
    PROVE  TypesUnder(m)' = IF m = n /\ TypesUnder(n) = {} THEN {type} ELSE TypesUnder(m)
<1>1. Idle
  BY DEF OpenUnlessTaken, OpenCheck, Idle
<1>2. CASE HasName(n)
  <2>1. UNCHANGED <<socket_hash, openPc, args>>
    BY <1>2 DEF OpenUnlessTaken, vars, openVars
  <2>2. TypesUnder(n) # {}
    BY <1>1, <1>2, TypesWhenIdle
  <2> QED
    BY <2>1, <2>2 DEF TypesUnder, HasName
<1>3. CASE ~HasName(n)
  <2>1. /\ UNCHANGED socket_hash /\ openPc' # "idle"
        /\ args' = [name |-> n, type |-> type]
    BY <1>3 DEF OpenUnlessTaken, OpenCheck
  <2>2. TypesUnder(n) = {}
    BY <1>1, <1>3, TypesWhenIdle
  <2>3. CASE m = n
    <3>1. TypesUnder(n)' = {type}
      BY <1>3, <2>1 DEF TypesUnder, HasName
    <3> QED
      BY <2>2, <2>3, <3>1
  <2>4. CASE m # n
    <3>1. \A t : args' # [name |-> m, type |-> t]
      BY <2>1, <2>4
    <3> QED
      BY <1>1, <2>1, <2>4, <3>1 DEF TypesUnder, HasName, Idle
  <2> QED
    BY <2>3, <2>4
<1> QED
  BY <1>2, <1>3

(* The steps of a call and the arrival of a message leave open what is open. *)
LEMMA AlwaysTypes ==
    ASSUME IInv, Always, NEW m \in Names
    PROVE  TypesUnder(m)' = TypesUnder(m) /\ UNCHANGED terminated
<1>1. CASE OpenCreate
  BY <1>1 DEF OpenCreate, TypesUnder, HasName
<1>2. CASE OpenAdd
  <2>1. /\ args \in [name : Names, type : Types] /\ ~HasName(args.name)
        /\ openPc = "add" /\ openPc' = "idle" /\ sock \in Sockets
        /\ UNCHANGED terminated
    BY <1>2 DEF OpenAdd, IInv, OpenInv
  <2>2. /\ socket_hash' = [socket_hash EXCEPT ![args.name] =
                             [mq_socket |-> sock, type |-> args.type]]
        /\ socket_hash \in [Names -> Value \cup {None}]
        /\ args.name \in Names
        /\ [mq_socket |-> sock, type |-> args.type] # None
    BY <1>2, <2>1, Kinds DEF OpenAdd, IInv, TypeOK
  <2>3. CASE m = args.name
    <3>1. socket_hash'[m] = [mq_socket |-> sock, type |-> args.type]
      BY <2>2, <2>3
    <3>2. TypesUnder(m)' = {args.type}
      BY <2>1, <2>2, <3>1 DEF TypesUnder, HasName
    <3>3. \A t : args = [name |-> m, type |-> t] <=> t = args.type
      BY <2>1, <2>3
    <3>4. TypesUnder(m) = {args.type}
      BY <2>1, <2>3, <3>3 DEF TypesUnder
    <3> QED
      BY <2>1, <3>2, <3>4
  <2>4. CASE m # args.name
    <3>1. socket_hash'[m] = socket_hash[m]
      BY <2>2, <2>4
    <3>2. \A t : args # [name |-> m, type |-> t]
      BY <2>4
    <3> QED
      BY <2>1, <3>1, <3>2 DEF TypesUnder, HasName
  <2> QED
    BY <2>3, <2>4
<1>3. ASSUME NEW s \in Sockets, NEW k \in Lengths, Arrive(s, k)
      PROVE  TypesUnder(m)' = TypesUnder(m) /\ UNCHANGED terminated
  BY <1>3 DEF Arrive, TypesUnder, HasName, openVars
<1> QED
  BY <1>1, <1>2, <1>3 DEF Always

-----------------------------------------------------------------------------
(* Places a name is listed in. *)
LEMMA ListedPlaces ==
    ASSUME NEW n \in Names
    PROVE  /\ Listed(n) \subseteq 1..4 /\ Reached(n) \subseteq Listed(n)
           /\ \A i \in 1..4 : i \in Listed(n) <=> n \in config[Order[i]]
  BY SectionFacts DEF Listed, Reached

(* ipcam_base_app_connect_to_timer: nothing was open before it. *)
LEMMA ConnectStep == AInv /\ ConnectToTimer => StartInv'
<1> SUFFICES ASSUME AInv, ConnectToTimer PROVE StartInv'
  OBVIOUS
<1>1. /\ start = "timer" /\ start' = "ask" /\ "client" \in Types
      /\ OpenUnlessTaken(TimerName, "client") /\ TimerName \in Names
  BY TimerNameAssumption DEF ConnectToTimer, Types
<1>2. UNCHANGED terminated
  BY <1>1 DEF OpenUnlessTaken, OpenCheck, vars
<1>3. TypesUnder(TimerName) = {}
  BY <1>1 DEF AInv, StartInv, WantedSoFar
<1>4. ASSUME NEW n \in Names PROVE TypesUnder(n)' = WantedSoFar(n)'
  <2>1. TypesUnder(n)' = IF n = TimerName THEN {"client"} ELSE TypesUnder(n)
    BY <1>1, <1>3, OpenTypes DEF AInv
  <2>2. Reached(n) = {} /\ Reached(n)' = {}
    BY <1>1, SectionFacts DEF Reached
  <2>3. TypesUnder(n) = WantedSoFar(n)
    BY <1>1 DEF AInv, StartInv
  <2> QED
    BY <1>1, <2>1, <2>2, <2>3 DEF WantedSoFar
<1> QED
  BY <1>1, <1>2, <1>4, SectionFacts DEF AInv, StartInv

(* The app asks for the timer once it has the socket; nothing is listed before
   the first section. *)
LEMMA AskStep == AInv /\ AskForClearTimer => StartInv'
<1> SUFFICES ASSUME AInv, AskForClearTimer PROVE StartInv'
  OBVIOUS
<1>1. /\ start = "ask" /\ Idle /\ start' = "bind" /\ collection' = config["bind"]
      /\ asked' = HasName(TimerName) /\ UNCHANGED <<vars, config>>
      /\ TimerName \in Names
  BY TimerNameAssumption DEF AskForClearTimer, EnterSection
<1>2. /\ TypesUnder(TimerName) = {"client"} /\ ~terminated
      /\ \A n \in Names : TypesUnder(n) = WantedSoFar(n)
  BY <1>1 DEF AInv, StartInv, WantedSoFar
<1>3. asked'
  BY <1>1, <1>2, TypesWhenIdle DEF AInv
<1>4. ASSUME NEW n \in Names PROVE TypesUnder(n)' = WantedSoFar(n)'
  <2>1. TypesUnder(n)' = TypesUnder(n)
    BY <1>1 DEF vars, openVars, TypesUnder, HasName
  <2>2. Reached(n) = {}
    BY <1>1, SectionFacts DEF Reached
  <2>3. Listed(n)' = Listed(n) /\ Place["bind"] = 1 /\ Order[1] = "bind"
    BY <1>1 DEF Listed, Place, Order
  <2>4. Reached(n)' = {}
    BY <1>1, <2>3, ListedPlaces DEF Reached
  <2> QED
    BY <1>1, <1>2, <2>1, <2>2, <2>4 DEF WantedSoFar
<1>5. ~terminated' /\ collection' \subseteq config'[start']
  BY <1>1, <1>2 DEF vars
<1> QED
  BY <1>3, <1>4, <1>5 DEF StartInv

(* A name of a section is opened unless an earlier one, or the timer, has it:
   the place of the section comes after those reached before. *)
LEMMA ConfiguredStep ==
    ASSUME AInv, NEW n \in Names, OpenConfigured(n)
    PROVE  StartInv'
<1> DEFINE p == Place[start]
           type == SectionTypes[start]
<1>1. /\ start \in Sections /\ n \in collection /\ collection' = collection \ {n}
      /\ OpenUnlessTaken(n, type) /\ UNCHANGED <<config, start, asked>>
  BY DEF OpenConfigured
<1>2. /\ p \in 1..4 /\ Order[p] = start /\ type = TypeFor(Order[p])
      /\ type \in Types /\ start # "ready" /\ start # "timer"
  BY <1>1, SectionFacts
<1>3. UNCHANGED terminated
  BY <1>1 DEF OpenUnlessTaken, OpenCheck, vars
<1>4. /\ ~terminated /\ asked /\ collection \subseteq config[start]
      /\ \A m \in Names : TypesUnder(m) = WantedSoFar(m)
  BY <1>1, <1>2 DEF AInv, StartInv
<1> HIDE DEF type
<1>5. \A m \in Names : Listed(m)' = Listed(m)
  BY <1>1 DEF Listed
<1>6. ASSUME NEW m \in Names PROVE TypesUnder(m)' = WantedSoFar(m)'
  <2>1. TypesUnder(m)' = IF m = n /\ TypesUnder(n) = {} THEN {type} ELSE TypesUnder(m)
    BY <1>1, <1>2, OpenTypes DEF AInv
  <2>2. CASE m = TimerName
    <3>1. TypesUnder(m) = {"client"} /\ WantedSoFar(m)' = {"client"}
      BY <1>1, <1>2, <1>4, <2>2 DEF WantedSoFar
    <3> QED
      BY <2>1, <2>2, <3>1
  <2>3. CASE m # TimerName /\ m # n
    <3>1. Reached(m)' = Reached(m)
      BY <1>1, <1>5, <2>3 DEF Reached
    <3> QED
      BY <1>1, <1>4, <2>1, <2>3, <3>1 DEF WantedSoFar
  <2>4. CASE m # TimerName /\ m = n
    <3>1. p \in Listed(n) /\ Listed(n) \subseteq 1..4
      BY <1>1, <1>2, <1>4, ListedPlaces
    <3>2. Reached(n) = {i \in Listed(n) : i < p}
      BY <1>1 DEF Reached
    <3>3. Reached(n)' = {i \in Listed(n) : i < p \/ i = p}
      BY <1>1, <1>5 DEF Reached
    <3> HIDE DEF p
    <3>4. CASE Reached(n) = {}
      <4>1. FirstOf(Reached(n)) = {}
        BY <3>4 DEF FirstOf
      <4>2. TypesUnder(n) = {}
        BY <1>4, <2>4, <4>1 DEF WantedSoFar
      <4>3. Reached(n)' = {p}
        BY <3>1, <3>2, <3>3, <3>4
      <4>4. FirstOf(Reached(n)') = {p}
        BY <1>2, <4>3 DEF FirstOf
      <4>5. WantedSoFar(n)' = {type}
        BY <1>2, <2>4, <4>4 DEF WantedSoFar
      <4> QED
        BY <2>1, <2>4, <4>2, <4>5
    <3>5. CASE Reached(n) # {}
      <4>1. PICK i \in Reached(n) : FirstOf(Reached(n)) = {i}
        BY <3>1, <3>2, <3>5, FirstPlace
      <4>2. \A k \in Reached(n) : i <= k
        BY <4>1 DEF FirstOf
      <4>3. i \in 1..4 /\ i < p /\ i \in Reached(n)' /\ \A k \in Reached(n)' : i <= k
        BY <1>2, <3>1, <3>2, <3>3, <4>1, <4>2
      <4>4. \A j \in FirstOf(Reached(n)') : j = i
        BY <3>1, <3>3, <4>3 DEF FirstOf
      <4>5. FirstOf(Reached(n)') = {i}
        BY <4>3, <4>4 DEF FirstOf
      <4>6. TypesUnder(n) = {TypeFor(Order[i])}
        BY <1>4, <2>4, <4>1 DEF WantedSoFar
      <4>7. WantedSoFar(n)' = {TypeFor(Order[i])}
        BY <2>4, <4>5 DEF WantedSoFar
      <4> QED
        BY <2>1, <2>4, <4>6, <4>7
    <3> QED
      BY <3>4, <3>5
  <2> QED
    BY <2>2, <2>3, <2>4
<1> QED
  BY <1>1, <1>3, <1>4, <1>6 DEF StartInv

(* A section that is done has asked for all of its names, and the next one
   for none yet. *)
LEMMA SectionStep == AInv /\ SectionDone => StartInv'
<1> SUFFICES ASSUME AInv, SectionDone, start' # "ready" PROVE StartInv'
  BY DEF StartInv
<1> DEFINE p == Place[start]
<1>1. /\ start \in Sections /\ collection = {} /\ Following[start] \in Sections
      /\ start' = Following[start] /\ collection' = config[Following[start]]
      /\ UNCHANGED <<config, vars, asked>>
  BY DEF SectionDone, EnterSection
<1>2. /\ p \in 1..4 /\ Place[start'] = p + 1 /\ start # "ready" /\ start # "timer"
      /\ start' # "timer" /\ start' \in Sections /\ p + 1 \in 1..4
      /\ Order[p + 1] = start'
  <2>1. p \in 1..4 /\ start # "ready" /\ start # "timer" /\ start' \in Sections
        /\ start' # "timer" /\ Order[Place[start']] = start' /\ Place[start'] \in 1..4
    BY <1>1, SectionFacts
  <2>2. Place[start'] = p + 1
    BY <1>1, SectionFacts DEF Place, Following
  <2> QED
    BY <2>1, <2>2
<1>3. /\ ~terminated /\ asked
      /\ \A n \in Names : TypesUnder(n) = WantedSoFar(n)
  BY <1>1, <1>2 DEF AInv, StartInv
<1>4. ASSUME NEW n \in Names PROVE TypesUnder(n)' = WantedSoFar(n)'
  <2>1. TypesUnder(n)' = TypesUnder(n)
    BY <1>1 DEF vars, openVars, TypesUnder, HasName
  <2>2. Listed(n)' = Listed(n) /\ Listed(n) \subseteq 1..4
    BY <1>1, ListedPlaces DEF Listed
  <2>3. Reached(n) = {i \in Listed(n) : i < p \/ i = p}
    BY <1>1 DEF Reached
  <2>4. Reached(n)' = {i \in Listed(n) : i < p + 1 \/ (i = p + 1 /\ n \notin config[start'])}
    BY <1>1, <1>2, <2>2 DEF Reached
  <2>5. p + 1 \in Listed(n) => n \in config[start']
    BY <1>2, ListedPlaces
  <2> HIDE DEF p
  <2>6. Reached(n)' = Reached(n)
    BY <1>2, <2>2, <2>3, <2>4, <2>5
  <2> QED
    BY <1>2, <1>3, <2>1, <2>6 DEF WantedSoFar
<1> QED
  BY <1>1, <1>2, <1>3, <1>4 DEF StartInv, vars

-----------------------------------------------------------------------------
(* Every step keeps the variables of init in their types. *)
LEMMA AppTypeStep ==
    ASSUME AppTypeOK, TypeOK', [AppNext]_appVars
    PROVE  AppTypeOK'
<1> USE DEF AppTypeOK
<1>1. CASE ConnectToTimer
  BY <1>1 DEF ConnectToTimer
<1>2. CASE AskForClearTimer
  <2>1. "bind" \in Sections /\ asked' \in BOOLEAN
    BY <1>2, SectionFacts DEF AskForClearTimer, HasName
  <2> QED
    BY <1>2, <2>1 DEF AskForClearTimer, EnterSection
<1>3. ASSUME NEW n \in Names, OpenConfigured(n) PROVE AppTypeOK'
  BY <1>3 DEF OpenConfigured
<1>4. CASE SectionDone
  BY <1>4 DEF SectionDone, EnterSection, NoConfig
<1>5. CASE UNCHANGED startVars
  BY <1>5 DEF startVars
<1> QED
  BY <1>1, <1>2, <1>3, <1>4, <1>5 DEF AppNext, StartStep, appVars

(* The invariant of the service and what init has opened. *)
LEMMA NextAInv == AInv /\ [AppNext]_appVars => AInv'
<1> SUFFICES ASSUME AInv, [AppNext]_appVars PROVE AInv'
  OBVIOUS
<1>1. IInv'
  BY AppStepIsServiceStep, TimerNameAssumption, NextIInv DEF AInv
<1>2. AppTypeOK'
  BY <1>1, AppTypeStep DEF AInv, IInv
<1>3. StartInv'
  <2>1. CASE StartStep
    BY <2>1, ConnectStep, AskStep, ConfiguredStep, SectionStep DEF StartStep
  <2>2. CASE Always /\ UNCHANGED startVars
    <3>1. ASSUME NEW n \in Names
          PROVE  TypesUnder(n)' = TypesUnder(n) /\ WantedSoFar(n)' = WantedSoFar(n)
      BY <2>2, AlwaysTypes DEF AInv, startVars, WantedSoFar, Reached, Listed
    <3>2. UNCHANGED terminated
      BY <2>2 DEF Always, OpenCreate, OpenAdd, Arrive
    <3> QED
      BY <2>2, <3>1, <3>2 DEF AInv, StartInv, startVars
  <2>3. CASE start = "ready" /\ UNCHANGED startVars
    BY <2>3 DEF StartInv, startVars
  <2>4. CASE UNCHANGED appVars
    <3>1. ASSUME NEW n \in Names
          PROVE  TypesUnder(n)' = TypesUnder(n) /\ WantedSoFar(n)' = WantedSoFar(n)
      BY <2>4 DEF appVars, vars, openVars, startVars, TypesUnder, HasName,
                  WantedSoFar, Reached, Listed
    <3> QED
      BY <2>4, <3>1 DEF AInv, StartInv, appVars, vars, startVars
  <2> QED
    BY <2>1, <2>2, <2>3, <2>4 DEF AppNext
<1> QED
  BY <1>1, <1>2, <1>3 DEF AInv

(* It holds when the app is made: nothing is open and nothing asked for. *)
LEMMA InitAInv == AppInit => AInv
<1> SUFFICES ASSUME AppInit PROVE AInv
  OBVIOUS
<1>1. IInv
  BY InitIInv DEF AppInit
<1>2. AppTypeOK
  BY <1>1 DEF AppInit, AppTypeOK, IInv
<1>3. StartInv
  <2>1. start = "timer" /\ ~terminated /\ start \notin Sections
    BY SectionFacts DEF AppInit, Init
  <2>2. ASSUME NEW n \in Names PROVE TypesUnder(n) = {} /\ WantedSoFar(n) = {}
    <3>1. TypesUnder(n) = {}
      BY DEF AppInit, Init, TypesUnder, HasName
    <3>2. Reached(n) = {}
      BY <2>1 DEF Reached
    <3>3. FirstOf(Reached(n)) = {}
      BY <3>2 DEF FirstOf
    <3> QED
      BY <2>1, <3>1, <3>3 DEF WantedSoFar
  <2> QED
    BY <2>1, <2>2 DEF StartInv
<1> QED
  BY <1>1, <1>2, <1>3 DEF AInv

(* While an app starts its service does not run, and it has open what the
   sections so far ask for; afterwards it is a service like any other. *)
THEOREM AppInvariant == AppSpec => []AInv
<1> QED
  BY InitAInv, NextAInv, PTL DEF AppSpec

(* Every variable of an app and its service has its type, always. *)
THEOREM AppTypes == AppSpec => []AppTypeOK
<1>1. AInv => AppTypeOK
  BY DEF AInv
<1> QED
  BY <1>1, AppInvariant, PTL

-----------------------------------------------------------------------------
(* The step that ends ipcam_base_app_init. *)
LEMMA ReadyStep ==
    ASSUME AInv, [AppNext]_appVars, start # "ready", start' = "ready"
    PROVE  /\ asked
           /\ \A n \in Names :
                 (IF HasName(n) THEN {socket_hash[n].type} ELSE {}) = Wanted(n)
           /\ \A s \in Sockets : kind[s] # None => Cardinality(NamesOf(s)) = 1
<1>1. SectionDone
  BY DEF AppNext, StartStep, ConnectToTimer, AskForClearTimer, EnterSection,
         OpenConfigured, startVars, appVars
<1>2. /\ start \in Sections /\ Following[start] \notin Sections
      /\ collection = {} /\ Idle
  BY <1>1, SectionFacts DEF SectionDone, EnterSection
<1>3. start = "subscribe" /\ start # "timer" /\ Place[start] = 4
  BY <1>2, SectionFacts DEF Following, Place
<1>4. /\ ~terminated /\ asked
      /\ \A n \in Names : TypesUnder(n) = WantedSoFar(n)
  BY <1>2 DEF AInv, StartInv
<1>5. ASSUME NEW n \in Names
      PROVE  (IF HasName(n) THEN {socket_hash[n].type} ELSE {}) = Wanted(n)
  <2>1. Reached(n) = Listed(n)
    <3>1. \A i \in 1..4 : i < 4 \/ i = 4
      OBVIOUS
    <3> QED
      BY <1>2, <1>3, <3>1, ListedPlaces DEF Reached
  <2>2. WantedSoFar(n) = Wanted(n)
    BY <1>3, <2>1 DEF WantedSoFar, Wanted, FirstOf
  <2> QED
    BY <1>2, <1>4, <2>2, TypesWhenIdle DEF AInv
<1>6. ASSUME NEW s \in Sockets, kind[s] # None PROVE Cardinality(NamesOf(s)) = 1
  <2>1. s # sock
    BY <1>2, Kinds DEF AInv, IInv, OpenInv, Idle
  <2>2. \E n \in Names : NamesOf(s) = {n}
    BY <1>4, <1>6, <2>1, NamedOnce DEF AInv, PolledSocketsNamed
  <2> QED
    BY <2>2, FS_Singleton
<1> QED
  BY <1>4, <1>5, <1>6

(* Whatever is configured, and in whatever order the names of a section are
   opened, init returns with what the configuration asks for: StartOpensConfigured. *)
THEOREM StartOpens == AppSpec => StartOpensConfigured
<1>1. AInv /\ [AppNext]_appVars =>
        [start # "ready" /\ start' = "ready" =>
            /\ asked
            /\ \A n \in Names :
                  (IF HasName(n) THEN {socket_hash[n].type} ELSE {})
                      = Wanted(n)
            /\ \A s \in Sockets : kind[s] # None => Cardinality(NamesOf(s)) = 1]_appVars
  BY ReadyStep
<1> QED
  BY <1>1, AppInvariant, PTL DEF AppSpec, StartOpensConfigured

(* The sockets of an app that started from its configuration: each has one
   name, until the service is told to stop. *)
THEOREM AppSocketsNamed == AppSpec => []PolledSocketsNamed
<1> QED
  BY AppRefinesService, SocketsNamed, PTL

(* What such an app passes on is one message of the socket's type, but for
   servers to which several strings were sent at once. *)
THEOREM AppReadsWholeMessages == AppSpec => []ReadsInStep
<1> QED
  BY AppRefinesService, ReadsWholeMessages, PTL

(* All of its publishers are on the list that its broadcasts go through, each of
   them once and nothing else until the service is told to stop. *)
THEOREM AppPublishersListed == AppSpec => []PublishNamesOpen
<1> QED
  BY AppRefinesService, PublishersListed, PTL
===============================================================================

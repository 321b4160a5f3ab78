--------------------------- MODULE TimerPumpProofs ---------------------------
(***************************************************************************)
(* Proofs about TimerPump, for any client and timer ids, also ids whose    *)
(* concatenations collide, any intervals and any capacity of the channels. *)
(*                                                                         *)
(* The inductive invariant adds to the types that an entry is stored under *)
(* the key of its own client and timer (KeyInv) and that whatever is under *)
(* way, be it a message to the pump, an entry or a tick, was asked for by  *)
(* the app it belongs to (AskedInv).                                       *)
(***************************************************************************)
EXTENDS TimerPump, SequenceTheorems, TLAPS

PairOf(e) == <<e.client, e.timer>>

KeyInv == \A k \in Keys : Has(k) => Key(timers[k].client, timers[k].timer) = k

(* The app asked for the timer with an interval of at most d. *)
Wanted(p, d) == shortest[p] # None /\ shortest[p] <= d

EntryWanted(k) ==
    /\ Wanted(PairOf(timers[k]), timers[k].interval)
    /\ timers[k].age <= sinceTick[PairOf(timers[k])]

EntriesWanted == \A k \in Keys : Has(k) => EntryWanted(k)

RequestsWanted ==
    \A c \in Clients : \A n \in 1..Len(toPump[c]) :
        toPump[c][n].interval >= 1
            => Wanted(<<c, toPump[c][n].timer>>, toPump[c][n].interval)

TicksWanted ==
    \A c \in Clients : \A n \in 1..Len(ticks[c]) :
        shortest[<<c, ticks[c][n]>>] # None

AskedInv == EntriesWanted /\ RequestsWanted /\ TicksWanted

(* The body of PumpFollowsLastRequest. *)
Follows(p) ==
    LET e == timers[Key(p[1], p[2])] IN
    IF current[p] >= 1
      THEN e # None /\ e.client = p[1] /\ e.timer = p[2]
      ELSE e = None

IInv == TypeOK /\ KeyInv /\ AskedInv /\ PumpFollowsLastRequest

-----------------------------------------------------------------------------
(* A key belongs to its pair. *)
LEMMA KeyIsKey ==
    ASSUME NEW c \in Clients, NEW t \in Timers
    PROVE  Key(c, t) \in Keys
<1>1. <<c, t>> \in Pairs
  BY DEF Pairs
<1> QED
  BY <1>1 DEF Keys

(* The pump tells intervals below one from the others. *)
LEMMA IntervalKinds == \A d \in Intervals : d < 1 \/ d >= 1
  BY NumbersAssumption

(* Growing older stays within the bound and keeps the order of ages. *)
LEMMA OlderAge ==
    /\ \A a \in 0..MaxAge : Older(a) \in 0..MaxAge
    /\ \A a, b \in 0..MaxAge : a <= b => Older(a) <= Older(b)
  BY NumbersAssumption DEF Older

(* An entry whose age is set stays an entry. *)
LEMMA EntryAge ==
    ASSUME NEW e \in Entry, NEW a \in 0..MaxAge
    PROVE  /\ [e EXCEPT !.age = a] \in Entry
           /\ [e EXCEPT !.age = a] # None
           /\ [e EXCEPT !.age = a].client = e.client
           /\ [e EXCEPT !.age = a].timer = e.timer
           /\ [e EXCEPT !.age = a].interval = e.interval
           /\ [e EXCEPT !.age = a].age = a
<1>1. [e EXCEPT !.age = a] \in Entry
  BY DEF Entry
<1>2. [e EXCEPT !.age = a] # None
  BY <1>1, NoneAssumption
<1> QED
  BY <1>1, <1>2 DEF Entry

(* An entry that only ages keeps everything else. *)
LEMMA AgeStep ==
    ASSUME TypeOK, NEW k \in Keys, Has(k), NEW a \in 0..MaxAge,
           timers'[k] = [timers[k] EXCEPT !.age = a]
    PROVE  /\ timers[k] \in Entry
           /\ timers'[k] \in Entry
           /\ Has(k)'
           /\ timers'[k].client = timers[k].client
           /\ timers'[k].timer = timers[k].timer
           /\ timers'[k].interval = timers[k].interval
           /\ timers'[k].age = a
<1>1. timers[k] \in Entry
  BY DEF TypeOK, Has
<1> QED
  BY <1>1, EntryAge DEF Has

(* Taking some messages off either end of a channel leaves a part of it. *)
LEMMA PartOf ==
    ASSUME NEW S, NEW s \in Seq(S), NEW m \in Int, NEW n \in Int,
           1 <= m, n <= Len(s)
    PROVE  /\ SubSeq(s, m, n) \in Seq(S)
           /\ Len(SubSeq(s, m, n)) <= Len(s)
           /\ \A i \in 1..Len(SubSeq(s, m, n)) :
                 /\ m + i - 1 \in 1..Len(s)
                 /\ SubSeq(s, m, n)[i] = s[m + i - 1]
<1>1. \A i \in m..n : s[i] \in S
  BY ElementOfSeq
<1> QED
  BY <1>1, SubSeqProperties

(* Every step keeps the types. *)
LEMMA TypeStep == TypeOK /\ [Next]_vars => TypeOK'
<1> SUFFICES ASSUME TypeOK, [Next]_vars PROVE TypeOK'
  OBVIOUS
<1> USE NumbersAssumption, NoneAssumption DEF TypeOK
<1>1. CASE Second
  <2>1. ASSUME NEW k \in Keys, Has(k) PROVE timers'[k] \in Entry
    <3>1. timers[k] \in Entry
      BY <2>1 DEF Has
    <3>2. timers[k].age \in 0..MaxAge
      BY <3>1 DEF Entry
    <3>3. timers'[k] = [timers[k] EXCEPT !.age = Older(timers[k].age)]
      BY <1>1, <2>1 DEF Second
    <3> QED
      BY <3>1, <3>2, <3>3, OlderAge, EntryAge
  <2>2. timers' \in [Keys -> Entry \cup {None}]
    BY <1>1, <2>1 DEF Second
  <2>3. \A k \in Keys : Has(k) => Has(k)'
    BY <1>1, <2>1, NoneAssumption DEF Second, Has
  <2> QED
    BY <1>1, <2>2, <2>3, OlderAge DEF Second, appVars
<1>2. ASSUME NEW c \in Clients, NEW t \in Timers, NEW i \in Intervals,
             AddTimer(c, t, i)
      PROVE  TypeOK'
  <2>1. toPump' \in [Clients -> Seq(Message)]
    BY <1>2, AppendProperties DEF AddTimer, Message
  <2>2. \A d \in Clients : Len(toPump'[d]) <= MaxQueue
    <3>1. Len(toPump'[c]) = Len(toPump[c]) + 1
      BY <1>2, AppendProperties DEF AddTimer, Message
    <3> QED
      BY <1>2, <3>1 DEF AddTimer
  <2>3. shortest' \in [Pairs -> (Intervals \ {0}) \cup {None}]
    BY <1>2 DEF AddTimer, Pairs
  <2> QED
    BY <1>2, <2>1, <2>2, <2>3 DEF AddTimer, Has
<1>3. ASSUME NEW c \in Clients, NEW t \in Timers, DelTimer(c, t) PROVE TypeOK'
  BY <1>3 DEF DelTimer, Has
<1>4. ASSUME NEW c \in Clients, OnTimer(c) PROVE TypeOK'
  <2>1. /\ Head(ticks[c]) \in Timers
        /\ Tail(ticks[c]) \in Seq(Timers)
        /\ Len(Tail(ticks[c])) <= MaxQueue
    BY <1>4, HeadTailProperties DEF OnTimer
  <2>2. beat' \in [Pairs -> BOOLEAN]
    BY <1>4, <2>1 DEF OnTimer, Pairs
  <2> QED
    BY <1>4, <2>1, <2>2 DEF OnTimer, Has
<1>5. ASSUME NEW c \in Clients, OnRead(c) PROVE TypeOK'
  <2> DEFINE m == Head(toPump[c])
  <2>1. /\ m \in Message
        /\ Tail(toPump[c]) \in Seq(Message)
        /\ Len(Tail(toPump[c])) <= MaxQueue
    BY <1>5, HeadTailProperties DEF OnRead
  <2>2. m.timer \in Timers /\ m.interval \in Intervals
    BY <2>1 DEF Message
  <2> HIDE DEF m
  <2>3. timers' \in [Keys -> Entry \cup {None}]
    <3>1. CASE m.interval < 1
      BY <1>5, <2>2, <3>1 DEF OnRead, Unregister, m
    <3>2. CASE ~(m.interval < 1)
      <4>1. [client |-> c, timer |-> m.timer, age |-> 0,
             interval |-> m.interval] \in Entry
        BY <2>2, <3>2 DEF Entry
      <4> QED
        BY <1>5, <2>2, <3>2, <4>1 DEF OnRead, Register, m
    <3> QED
      BY <3>1, <3>2
  <2>4. current' \in [Pairs -> Intervals \cup {0}]
    BY <1>5, <2>2 DEF OnRead, Pairs, m
  <2> QED
    BY <1>5, <2>1, <2>3, <2>4 DEF OnRead, appVars, Has
<1>6. CASE PollExpired
  BY <1>6 DEF PollExpired, appVars, Has
<1>7. ASSUME NEW k \in Keys, CheckTimer(k) PROVE TypeOK'
  <2>1. CASE ~Due(timers[k])
    BY <1>7, <2>1 DEF CheckTimer, appVars, Has
  <2>2. CASE Due(timers[k])
    <3>1. timers[k] \in Entry
      BY <1>7 DEF CheckTimer, Has
    <3>2. timers[k].client \in Clients /\ timers[k].timer \in Timers
      BY <3>1 DEF Entry
    <3>3. /\ timers' = [timers EXCEPT ![k].age = 0]
          /\ SendTick(timers[k])
      BY <1>7, <2>2 DEF CheckTimer
    <3>4. timers'[k] \in Entry
      <4>1. timers'[k] = [timers[k] EXCEPT !.age = 0]
        BY <3>3
      <4> QED
        BY <3>1, <4>1, EntryAge
    <3>5. timers' \in [Keys -> Entry \cup {None}]
      BY <3>3, <3>4
    <3>6. \A l \in Keys : Has(l) => Has(l)'
      BY <3>3, <3>4 DEF Has
    <3>7. /\ ticks' \in [Clients -> Seq(Timers)]
          /\ \A d \in Clients : Len(ticks'[d]) <= MaxQueue
      <4>1. /\ Append(ticks[timers[k].client], timers[k].timer) \in Seq(Timers)
            /\ Len(Append(ticks[timers[k].client], timers[k].timer)) <= MaxQueue
        BY <3>2, <3>3, AppendProperties DEF SendTick
      <4> QED
        BY <3>2, <3>3, <4>1 DEF SendTick
    <3>8. sinceTick' \in [Pairs -> 0..MaxAge]
      BY <3>2, <3>3 DEF SendTick, Pairs
    <3> QED
      BY <1>7, <3>5, <3>6, <3>7, <3>8 DEF CheckTimer, appVars
  <2> QED
    BY <2>1, <2>2
<1>8. CASE CheckDone
  BY <1>8 DEF CheckDone, appVars, Has
<1>9. CASE Crash
  <2>1. PICK n \in [Clients -> 0..MaxQueue], m \in [Clients -> 0..MaxQueue] :
          /\ toPump' = [c \in Clients |->
                          SubSeq(toPump[c], n[c] + 1, Len(toPump[c]))]
          /\ ticks' = [c \in Clients |->
                          SubSeq(ticks[c], 1, Len(ticks[c]) - m[c])]
    BY <1>9 DEF Crash
  <2>2. ASSUME NEW c \in Clients
        PROVE  /\ toPump'[c] \in Seq(Message)
               /\ Len(toPump'[c]) <= MaxQueue
               /\ ticks'[c] \in Seq(Timers)
               /\ Len(ticks'[c]) <= MaxQueue
    <3>1. toPump[c] \in Seq(Message) /\ ticks[c] \in Seq(Timers)
      OBVIOUS
    <3>2. n[c] \in 0..MaxQueue /\ m[c] \in 0..MaxQueue
      OBVIOUS
    <3>3. /\ SubSeq(toPump[c], n[c] + 1, Len(toPump[c])) \in Seq(Message)
          /\ Len(SubSeq(toPump[c], n[c] + 1, Len(toPump[c]))) <= Len(toPump[c])
      BY <3>1, <3>2, PartOf
    <3>4. /\ SubSeq(ticks[c], 1, Len(ticks[c]) - m[c]) \in Seq(Timers)
          /\ Len(SubSeq(ticks[c], 1, Len(ticks[c]) - m[c])) <= Len(ticks[c])
      BY <3>1, <3>2, PartOf
    <3> QED
      BY <2>1, <3>1, <3>3, <3>4, LenProperties
  <2>3. /\ toPump' \in [Clients -> Seq(Message)]
        /\ ticks' \in [Clients -> Seq(Timers)]
    BY <2>1, <2>2
  <2> QED
    BY <1>9, <2>2, <2>3 DEF Crash, appVars
<1>10. CASE Restart
  BY <1>10 DEF Restart, appVars, Has
<1>11. CASE UNCHANGED vars
  BY <1>11 DEF vars, appVars, Has
<1> QED
  BY <1>1, <1>2, <1>3, <1>4, <1>5, <1>6, <1>7, <1>8, <1>9, <1>10, <1>11 DEF Next, App, Pump

(* Every step keeps entries under the keys of their own ids. *)
LEMMA KeyStep == TypeOK /\ KeyInv /\ [Next]_vars => KeyInv'
<1> SUFFICES ASSUME TypeOK, KeyInv, [Next]_vars PROVE KeyInv'
  OBVIOUS
<1> USE NumbersAssumption, NoneAssumption DEF TypeOK
<1>1. CASE Second
  <2> SUFFICES ASSUME NEW k \in Keys, Has(k)'
               PROVE  Key(timers'[k].client, timers'[k].timer) = k
    BY DEF KeyInv
  <2>1. Has(k)
    BY <1>1 DEF Second, Has
  <2>2. timers[k] \in Entry /\ timers[k].age \in 0..MaxAge
    BY <2>1 DEF Has, Entry
  <2>3. timers'[k] = [timers[k] EXCEPT !.age = Older(timers[k].age)]
    BY <1>1, <2>1 DEF Second
  <2> QED
    BY <2>1, <2>2, <2>3, OlderAge, EntryAge DEF KeyInv
<1>2. ASSUME NEW c \in Clients, NEW t \in Timers, NEW i \in Intervals,
             AddTimer(c, t, i)
      PROVE  KeyInv'
  BY <1>2 DEF AddTimer, KeyInv, Has
<1>3. ASSUME NEW c \in Clients, NEW t \in Timers, DelTimer(c, t) PROVE KeyInv'
  BY <1>3 DEF DelTimer, KeyInv, Has
<1>4. ASSUME NEW c \in Clients, OnTimer(c) PROVE KeyInv'
  BY <1>4 DEF OnTimer, KeyInv, Has
<1>5. ASSUME NEW c \in Clients, OnRead(c) PROVE KeyInv'
  <2> DEFINE m == Head(toPump[c])
  <2>1. CASE m.interval < 1
    BY <1>5, <2>1 DEF OnRead, Unregister, KeyInv, Has
  <2>2. CASE ~(m.interval < 1)
    BY <1>5, <2>2 DEF OnRead, Register, KeyInv, Has
  <2> QED
    BY <2>1, <2>2
<1>6. CASE PollExpired
  BY <1>6 DEF PollExpired, KeyInv, Has
<1>7. ASSUME NEW k \in Keys, CheckTimer(k) PROVE KeyInv'
  <2>1. timers[k] \in Entry
    BY <1>7 DEF CheckTimer, Has
  <2>2. timers' = timers \/ timers' = [timers EXCEPT ![k].age = 0]
    BY <1>7 DEF CheckTimer
  <2>3. CASE timers' = [timers EXCEPT ![k].age = 0]
    <3>1. timers'[k] = [timers[k] EXCEPT !.age = 0]
      BY <2>3
    <3>2. Key(timers'[k].client, timers'[k].timer) = k
      BY <1>7, <2>1, <3>1, EntryAge DEF KeyInv, CheckTimer, Has
    <3> QED
      BY <2>3, <3>2 DEF KeyInv, Has
  <2> QED
    BY <2>2, <2>3 DEF KeyInv, Has
<1>8. CASE CheckDone
  BY <1>8 DEF CheckDone, KeyInv, Has
<1>9. CASE Crash
  BY <1>9 DEF Crash, KeyInv, Has
<1>10. CASE Restart
  BY <1>10 DEF Restart, KeyInv, Has
<1>11. CASE UNCHANGED vars
  BY <1>11 DEF vars, KeyInv, Has
<1> QED
  BY <1>1, <1>2, <1>3, <1>4, <1>5, <1>6, <1>7, <1>8, <1>9, <1>10, <1>11 DEF Next, App, Pump

(* Every step keeps the pump's entries in accordance with the last messages it
   has read, for pairs that share their key with no other. *)
LEMMA FollowStep ==
    TypeOK /\ KeyInv /\ PumpFollowsLastRequest /\ [Next]_vars
        => PumpFollowsLastRequest'
<1> SUFFICES ASSUME TypeOK, KeyInv, PumpFollowsLastRequest, [Next]_vars,
                    NEW p \in Pairs, Unshared(p)
             PROVE  Follows(p)'
  BY DEF PumpFollowsLastRequest, Follows, Unshared
<1> DEFINE kp == Key(p[1], p[2])
<1>a. /\ kp \in Keys
      /\ p[1] \in Clients /\ p[2] \in Timers /\ p = <<p[1], p[2]>>
  BY DEF Keys, Pairs
<1>b. Follows(p)
  BY DEF PumpFollowsLastRequest, Follows
<1>c. ASSUME current' = current, timers' = timers
      PROVE  Follows(p)'
  BY <1>b, <1>c DEF Follows
<1> USE NumbersAssumption, NoneAssumption DEF TypeOK
<1>1. CASE Second
  <2>1. CASE Has(kp)
    <3>1. timers[kp] \in Entry /\ timers[kp].age \in 0..MaxAge
      BY <1>a, <2>1 DEF Has, Entry
    <3>2. timers'[kp] = [timers[kp] EXCEPT !.age = Older(timers[kp].age)]
      BY <1>1, <1>a, <2>1 DEF Second
    <3>3. Older(timers[kp].age) \in 0..MaxAge
      BY <3>1, OlderAge
    <3>4. /\ timers'[kp] # None
          /\ timers'[kp].client = timers[kp].client
          /\ timers'[kp].timer = timers[kp].timer
      BY <3>1, <3>2, <3>3, EntryAge
    <3>5. current' = current
      BY <1>1 DEF Second
    <3> QED
      BY <1>b, <2>1, <3>4, <3>5 DEF Follows, Has
  <2>2. CASE ~Has(kp)
    BY <1>1, <1>a, <1>b, <2>2 DEF Second, Follows, Has
  <2> QED
    BY <2>1, <2>2
<1>2. ASSUME NEW c \in Clients, NEW t \in Timers, NEW i \in Intervals,
             AddTimer(c, t, i)
      PROVE  Follows(p)'
  BY <1>2, <1>c DEF AddTimer
<1>3. ASSUME NEW c \in Clients, NEW t \in Timers, DelTimer(c, t) PROVE Follows(p)'
  BY <1>3, <1>c DEF DelTimer
<1>4. ASSUME NEW c \in Clients, OnTimer(c) PROVE Follows(p)'
  BY <1>4, <1>c DEF OnTimer, appVars
<1>5. ASSUME NEW c \in Clients, OnRead(c) PROVE Follows(p)'
  <2>a. toPump[c] \in Seq(Message) /\ toPump[c] # <<>>
    BY <1>5 DEF OnRead
  <2>b. PICK m \in Message : m = Head(toPump[c])
    BY <2>a, HeadTailProperties
  <2>1. m \in Message /\ m.timer \in Timers /\ m.interval \in Intervals
    BY DEF Message
  <2>2. current' = [current EXCEPT ![<<c, m.timer>>] = m.interval]
    BY <1>5, <2>b DEF OnRead
  <2>3. IF m.interval < 1 THEN Unregister(c, m.timer)
                          ELSE Register(c, m.timer, m.interval)
    BY <1>5, <2>b DEF OnRead
  <2>4. CASE p = <<c, m.timer>>
    <3>1. kp = Key(c, m.timer)
      BY <2>4
    <3>2. current'[p] = m.interval
      BY <2>2, <2>4
    <3>3. CASE m.interval < 1
      BY <1>a, <2>1, <2>3, <3>1, <3>2, <3>3 DEF Unregister, Follows
    <3>4. CASE ~(m.interval < 1) /\ ~Has(kp)
      <4> DEFINE e == [client |-> c, timer |-> m.timer, age |-> 0,
                       interval |-> m.interval]
      <4>1. e \in Entry
        BY <2>1, <3>4 DEF Entry
      <4>2. timers'[kp] = e
        BY <1>a, <2>3, <3>1, <3>4 DEF Register
      <4>3. e # None
        BY <4>1, NoneAssumption
      <4>4. e.client = p[1] /\ e.timer = p[2]
        BY <2>4
      <4>5. m.interval >= 1
        BY <2>1, <3>4, IntervalKinds
      <4> HIDE DEF e
      <4> QED
        BY <3>2, <4>2, <4>3, <4>4, <4>5 DEF Follows
    <3>5. CASE ~(m.interval < 1) /\ Has(kp)
      <4> DEFINE e == timers[kp]
      <4>1. e \in Entry /\ e.client \in Clients /\ e.timer \in Timers
        BY <1>a, <3>5 DEF Has, Entry
      <4>2. Key(e.client, e.timer) = kp
        BY <1>a, <3>5 DEF KeyInv
      <4>3. <<e.client, e.timer>> = p
        <5> DEFINE q == <<e.client, e.timer>>
        <5>1. q \in Pairs /\ q[1] = e.client /\ q[2] = e.timer
          BY <4>1 DEF Pairs
        <5>2. Key(q[1], q[2]) = Key(p[1], p[2])
          BY <4>2, <5>1
        <5> HIDE DEF q
        <5>3. q = p
          BY <5>1, <5>2 DEF Unshared
        <5> QED
          BY <5>3 DEF q
      <4>4. timers' = timers
        BY <2>3, <3>1, <3>5 DEF Register
      <4> QED
        BY <1>a, <3>2, <3>5, <4>1, <4>3, <4>4, <2>1 DEF Follows, Has
    <3> QED
      BY <3>3, <3>4, <3>5
  <2>5. CASE p # <<c, m.timer>>
    <3>1. Key(c, m.timer) # kp
      <4> DEFINE q == <<c, m.timer>>
      <4>1. q \in Pairs /\ q[1] = c /\ q[2] = m.timer
        BY <2>1 DEF Pairs
      <4>2. q # p
        BY <2>5
      <4> HIDE DEF q
      <4>3. Key(q[1], q[2]) # Key(p[1], p[2])
        BY <4>1, <4>2 DEF Unshared
      <4> QED
        BY <4>1, <4>3
    <3>2. current'[p] = current[p]
      BY <2>2, <2>5
    <3>3. timers'[kp] = timers[kp]
      BY <2>3, <3>1, <1>a DEF Register, Unregister
    <3> QED
      BY <1>b, <3>2, <3>3 DEF Follows
  <2> QED
    BY <2>4, <2>5
<1>6. CASE PollExpired
  BY <1>6, <1>c DEF PollExpired
<1>7. ASSUME NEW k \in Keys, CheckTimer(k) PROVE Follows(p)'
  <2>1. current' = current
    BY <1>7 DEF CheckTimer
  <2>2. timers' = timers \/ timers' = [timers EXCEPT ![k].age = 0]
    BY <1>7 DEF CheckTimer
  <2>3. CASE timers' = [timers EXCEPT ![k].age = 0] /\ k = kp
    <3>1. Has(k) /\ timers'[k] = [timers[k] EXCEPT !.age = 0]
      BY <1>7, <2>3 DEF CheckTimer, Has
    <3>2. /\ Has(k)'
          /\ timers'[k].client = timers[k].client
          /\ timers'[k].timer = timers[k].timer
      <4>1. 0 \in 0..MaxAge
        BY NumbersAssumption
      <4> QED
        BY <3>1, <4>1, AgeStep
    <3> QED
      BY <1>b, <2>1, <2>3, <3>1, <3>2 DEF Follows, Has
  <2>4. CASE timers' = [timers EXCEPT ![k].age = 0] /\ k # kp
    BY <1>a, <1>b, <2>1, <2>4 DEF Follows
  <2> QED
    BY <1>c, <2>1, <2>2, <2>3, <2>4
<1>8. CASE CheckDone
  BY <1>8, <1>c DEF CheckDone
<1>9. CASE Crash
  <2>1. current'[p] = 0 /\ timers'[kp] = None
    BY <1>9, <1>a DEF Crash
  <2> QED
    BY <2>1 DEF Follows
<1>10. CASE Restart
  BY <1>10, <1>c DEF Restart
<1>11. CASE UNCHANGED vars
  BY <1>11, <1>c DEF vars
<1> QED
  BY <1>1, <1>2, <1>3, <1>4, <1>5, <1>6, <1>7, <1>8, <1>9, <1>10, <1>11 DEF Next, App, Pump

(* An app's message to the pump makes its timer wanted, and leaves wanted what
   was. *)
LEMMA WantedStep ==
    ASSUME TypeOK, NEW c \in Clients, NEW t \in Timers, NEW i \in Intervals,
           AddTimer(c, t, i)
    PROVE  /\ \A p \in Pairs, d \in Intervals : Wanted(p, d) => Wanted(p, d)'
           /\ \A p \in Pairs : shortest[p] # None => shortest'[p] # None
           /\ i >= 1 => Wanted(<<c, t>>, i)'
<1>1. PICK q \in Pairs : q = <<c, t>>
  BY DEF Pairs
<1>2. CASE i > 0 /\ (shortest[q] = None \/ i < shortest[q])
  <2>1. shortest' = [shortest EXCEPT ![q] = i] /\ shortest \in [Pairs -> (Intervals \ {0}) \cup {None}]
    BY <1>1, <1>2 DEF AddTimer, TypeOK
  <2>2. shortest'[q] = i /\ \A p \in Pairs : p # q => shortest'[p] = shortest[p]
    BY <2>1
  <2>3. i # None
    BY NoneAssumption
  <2>4. ASSUME NEW d \in Intervals, Wanted(q, d) PROVE i <= d
    <3>1. PICK x \in Intervals : x = shortest[q]
      BY <2>1, <2>4 DEF Wanted
    <3>2. i < x /\ x <= d
      BY <1>2, <2>4, <3>1 DEF Wanted
    <3> QED
      BY <3>2, NumbersAssumption
  <2>5. i <= i
    BY NumbersAssumption
  <2>6. ASSUME NEW p \in Pairs, NEW d \in Intervals, Wanted(p, d)
        PROVE  shortest'[p] # None /\ shortest'[p] <= d
    BY <2>2, <2>3, <2>4, <2>6 DEF Wanted
  <2> QED
    BY <1>1, <2>2, <2>3, <2>5, <2>6 DEF Wanted
<1>3. CASE ~(i > 0 /\ (shortest[q] = None \/ i < shortest[q]))
  <2>1. shortest' = shortest
    BY <1>1, <1>3 DEF AddTimer
  <2>2. ASSUME i >= 1 PROVE shortest[q] # None /\ shortest[q] <= i
    <3>1. i > 0
      BY <2>2, NumbersAssumption
    <3>2. shortest[q] # None /\ ~(i < shortest[q])
      BY <1>3, <3>1
    <3>3. PICK x \in Intervals : x = shortest[q]
      BY <3>2 DEF TypeOK
    <3>4. x <= i
      BY <3>2, <3>3, NumbersAssumption
    <3> QED
      BY <3>2, <3>3, <3>4
  <2> QED
    BY <1>1, <2>1, <2>2 DEF Wanted
<1> QED
  BY <1>2, <1>3

(* Every step keeps the messages to the pump wanted. *)
LEMMA RequestsStep ==
    TypeOK /\ RequestsWanted /\ [Next]_vars => RequestsWanted'
<1> SUFFICES ASSUME TypeOK, RequestsWanted, [Next]_vars PROVE RequestsWanted'
  OBVIOUS
<1> USE NumbersAssumption, NoneAssumption DEF TypeOK
<1>1. CASE Second
  BY <1>1 DEF Second, appVars, RequestsWanted, Wanted
<1>2. ASSUME NEW c \in Clients, NEW t \in Timers, NEW i \in Intervals,
             AddTimer(c, t, i)
      PROVE  RequestsWanted'
  <2>1. PICK a \in Message : a = [timer |-> t, interval |-> i]
    BY DEF Message
  <2>2. /\ toPump[c] \in Seq(Message)
        /\ toPump' = [toPump EXCEPT ![c] = Append(toPump[c], a)]
    BY <1>2, <2>1 DEF AddTimer
  <2>3. a.timer = t /\ a.interval = i
    BY <2>1
  <2> SUFFICES ASSUME NEW d \in Clients, NEW n \in 1..Len(toPump'[d]), NEW m,
                      m = toPump'[d][n], m.interval >= 1
               PROVE  Wanted(<<d, m.timer>>, m.interval)'
    BY DEF RequestsWanted, Wanted
  <2>4. /\ Len(Append(toPump[c], a)) = Len(toPump[c]) + 1
        /\ \A j \in 1..Len(toPump[c]) : Append(toPump[c], a)[j] = toPump[c][j]
        /\ Append(toPump[c], a)[Len(toPump[c]) + 1] = a
        /\ Len(toPump[c]) \in Nat
    BY <2>2, AppendProperties, LenProperties
  <2>5. CASE d = c /\ n = Len(toPump[c]) + 1
    <3>1. m = a
      BY <2>2, <2>4, <2>5
    <3> QED
      BY <1>2, <2>3, <2>5, <3>1, WantedStep
  <2>6. CASE ~(d = c /\ n = Len(toPump[c]) + 1)
    <3>1. n \in 1..Len(toPump[d]) /\ m = toPump[d][n]
      <4>1. CASE d = c
        <5>1. toPump'[d] = Append(toPump[c], a)
          BY <2>2, <4>1
        <5>2. n \in 1..Len(toPump[c])
          BY <2>4, <2>6, <4>1, <5>1
        <5> QED
          BY <2>4, <4>1, <5>1, <5>2
      <4>2. CASE d # c
        BY <2>2, <4>2
      <4> QED
        BY <4>1, <4>2
    <3>2. m \in Message
      BY <3>1, ElementOfSeq
    <3>3. m.timer \in Timers /\ m.interval \in Intervals
      BY <3>2 DEF Message
    <3>4. Wanted(<<d, m.timer>>, m.interval)
      BY <3>1 DEF RequestsWanted
    <3>5. <<d, m.timer>> \in Pairs
      BY <3>3 DEF Pairs
    <3> QED
      BY <1>2, <3>3, <3>4, <3>5, WantedStep
  <2> QED
    BY <2>5, <2>6
<1>3. ASSUME NEW c \in Clients, NEW t \in Timers, DelTimer(c, t) PROVE RequestsWanted'
  BY <1>3 DEF DelTimer, appVars, RequestsWanted, Wanted
<1>4. ASSUME NEW c \in Clients, OnTimer(c) PROVE RequestsWanted'
  BY <1>4 DEF OnTimer, RequestsWanted, Wanted
<1>5. ASSUME NEW c \in Clients, OnRead(c) PROVE RequestsWanted'
  <2>1. /\ shortest' = shortest
        /\ toPump[c] \in Seq(Message) /\ toPump[c] # <<>>
        /\ toPump' = [toPump EXCEPT ![c] = Tail(toPump[c])]
    BY <1>5 DEF OnRead, appVars
  <2> SUFFICES ASSUME NEW d \in Clients, NEW n \in 1..Len(toPump'[d]), NEW m,
                      m = toPump'[d][n], m.interval >= 1
               PROVE  Wanted(<<d, m.timer>>, m.interval)
    BY <2>1 DEF RequestsWanted, Wanted
  <2>2. CASE d = c
    <3>1. /\ Len(Tail(toPump[c])) = Len(toPump[c]) - 1
          /\ \A j \in 1..Len(Tail(toPump[c])) :
                Tail(toPump[c])[j] = toPump[c][j + 1]
      BY <2>1, HeadTailProperties
    <3>2. toPump'[d] = Tail(toPump[c]) /\ Len(toPump[c]) \in Nat
      BY <2>1, <2>2, LenProperties
    <3>3. n + 1 \in 1..Len(toPump[c])
      BY <3>1, <3>2
    <3>4. toPump'[d][n] = toPump[c][n + 1]
      BY <3>1, <3>2
    <3> QED
      BY <2>2, <3>3, <3>4 DEF RequestsWanted
  <2>3. CASE d # c
    BY <2>1, <2>3 DEF RequestsWanted
  <2> QED
    BY <2>2, <2>3
<1>6. CASE PollExpired
  BY <1>6 DEF PollExpired, appVars, RequestsWanted, Wanted
<1>7. ASSUME NEW k \in Keys, CheckTimer(k) PROVE RequestsWanted'
  BY <1>7 DEF CheckTimer, appVars, RequestsWanted, Wanted
<1>8. CASE CheckDone
  BY <1>8 DEF CheckDone, appVars, RequestsWanted, Wanted
<1>9. CASE Crash
  <2>1. shortest' = shortest
    BY <1>9 DEF Crash, appVars
  <2>2. PICK f \in [Clients -> 0..MaxQueue] :
          toPump' = [c \in Clients |->
                       SubSeq(toPump[c], f[c] + 1, Len(toPump[c]))]
    BY <1>9 DEF Crash
  <2> SUFFICES ASSUME NEW d \in Clients, NEW n \in 1..Len(toPump'[d]), NEW m,
                      m = toPump'[d][n], m.interval >= 1
               PROVE  Wanted(<<d, m.timer>>, m.interval)
    BY <2>1 DEF RequestsWanted, Wanted
  <2>3. PICK a \in Int, b \in Int : a = f[d] + 1 /\ b = Len(toPump[d])
    <3>1. f[d] + 1 \in Int
      BY MaxQueue \in Nat
    <3>2. Len(toPump[d]) \in Int
      BY LenProperties
    <3> QED
      BY <3>1, <3>2
  <2>4. toPump'[d] = SubSeq(toPump[d], a, b)
    BY <2>2, <2>3
  <2>5. 1 <= a /\ b <= Len(toPump[d])
    BY <2>3
  <2>6. \A j \in 1..Len(SubSeq(toPump[d], a, b)) :
           /\ a + j - 1 \in 1..Len(toPump[d])
           /\ SubSeq(toPump[d], a, b)[j] = toPump[d][a + j - 1]
    BY <2>5, PartOf
  <2>7. a + n - 1 \in 1..Len(toPump[d]) /\ m = toPump[d][a + n - 1]
    BY <2>4, <2>6
  <2> QED
    BY <2>7 DEF RequestsWanted
<1>10. CASE Restart
  BY <1>10 DEF Restart, appVars, RequestsWanted, Wanted
<1>11. CASE UNCHANGED vars
  BY <1>11 DEF vars, appVars, RequestsWanted, Wanted
<1> QED
  BY <1>1, <1>2, <1>3, <1>4, <1>5, <1>6, <1>7, <1>8, <1>9, <1>10, <1>11 DEF Next, App, Pump

(* Every step keeps the pump's entries wanted, and no older than the last tick
   of their timer. *)
LEMMA EntriesStep ==
    TypeOK /\ KeyInv /\ RequestsWanted /\ EntriesWanted /\ [Next]_vars
        => EntriesWanted'
<1> SUFFICES ASSUME TypeOK, KeyInv, RequestsWanted, EntriesWanted, [Next]_vars,
                    NEW l \in Keys, Has(l)'
             PROVE  EntryWanted(l)'
  BY DEF EntriesWanted, EntryWanted
<1>a. Has(l) => EntryWanted(l)
  BY DEF EntriesWanted, EntryWanted
<1>b. ASSUME Has(l)
      PROVE  /\ timers[l] \in Entry
             /\ PairOf(timers[l]) \in Pairs
             /\ timers[l].interval \in Intervals
             /\ timers[l].age \in 0..MaxAge
  <2>1. timers[l] \in Entry
    BY <1>b DEF TypeOK, Has
  <2> QED
    BY <2>1 DEF Entry, PairOf, Pairs
<1>c. ASSUME timers' = timers, shortest' = shortest, sinceTick' = sinceTick
      PROVE  EntryWanted(l)'
  BY <1>a, <1>c DEF EntryWanted, Wanted, Has
<1> USE NumbersAssumption, NoneAssumption DEF TypeOK
<1>1. CASE Second
  <2>1. Has(l)
    BY <1>1 DEF Second, Has
  <2>2. Older(timers[l].age) \in 0..MaxAge
    BY <1>b, <2>1, OlderAge
  <2>3. timers'[l] = [timers[l] EXCEPT !.age = Older(timers[l].age)]
    BY <1>1, <2>1 DEF Second
  <2>4. /\ PairOf(timers'[l]) = PairOf(timers[l])
        /\ timers'[l].interval = timers[l].interval
        /\ timers'[l].age = Older(timers[l].age)
    BY <2>1, <2>2, <2>3, AgeStep DEF PairOf
  <2>5. sinceTick'[PairOf(timers[l])] = Older(sinceTick[PairOf(timers[l])])
    BY <1>1, <1>b, <2>1 DEF Second
  <2>6. timers[l].age <= sinceTick[PairOf(timers[l])]
    BY <1>a, <2>1 DEF EntryWanted
  <2>7. sinceTick[PairOf(timers[l])] \in 0..MaxAge
    BY <1>b, <2>1
  <2>8. Older(timers[l].age) <= Older(sinceTick[PairOf(timers[l])])
    BY <1>b, <2>1, <2>6, <2>7, OlderAge
  <2>9. Wanted(PairOf(timers[l]), timers[l].interval)'
        <=> Wanted(PairOf(timers'[l]), timers'[l].interval)
    BY <1>1 DEF Second, appVars, Wanted, PairOf
  <2> QED
    BY <1>a, <2>1, <2>4, <2>5, <2>8, <2>9 DEF EntryWanted
<1>2. ASSUME NEW c \in Clients, NEW t \in Timers, NEW i \in Intervals,
             AddTimer(c, t, i)
      PROVE  EntryWanted(l)'
  <2>1. timers' = timers /\ sinceTick' = sinceTick
    BY <1>2 DEF AddTimer
  <2>2. Has(l)
    BY <2>1 DEF Has
  <2>3. Wanted(PairOf(timers[l]), timers[l].interval)
    BY <1>a, <2>2 DEF EntryWanted
  <2> DEFINE p == PairOf(timers[l])  d == timers[l].interval
  <2>4. p \in Pairs /\ d \in Intervals
    BY <1>b, <2>2
  <2>5. (shortest'[p] # None /\ shortest'[p] <= d)
    BY <1>2, <2>3, <2>4, WantedStep DEF Wanted
  <2> QED
    BY <1>a, <2>1, <2>2, <2>5 DEF EntryWanted, Wanted, PairOf
<1>3. ASSUME NEW c \in Clients, NEW t \in Timers, DelTimer(c, t) PROVE EntryWanted(l)'
  BY <1>3, <1>c DEF DelTimer, appVars
<1>4. ASSUME NEW c \in Clients, OnTimer(c) PROVE EntryWanted(l)'
  BY <1>4, <1>c DEF OnTimer, appVars
<1>5. ASSUME NEW c \in Clients, OnRead(c) PROVE EntryWanted(l)'
  <2>a. toPump[c] \in Seq(Message) /\ toPump[c] # <<>>
    BY <1>5 DEF OnRead
  <2>b. PICK m \in Message : m = Head(toPump[c])
    BY <2>a, HeadTailProperties
  <2>1. shortest' = shortest /\ sinceTick' = sinceTick
    BY <1>5 DEF OnRead, appVars
  <2>2. IF m.interval < 1 THEN Unregister(c, m.timer)
                          ELSE Register(c, m.timer, m.interval)
    BY <1>5, <2>b DEF OnRead
  <2>3. m.timer \in Timers /\ m.interval \in Intervals
    BY DEF Message
  <2>4. CASE timers'[l] = timers[l]
    BY <1>a, <2>1, <2>4 DEF EntryWanted, Wanted, Has
  <2>5. CASE timers'[l] # timers[l]
    <3>1. /\ ~(m.interval < 1)
          /\ timers' = [timers EXCEPT ![Key(c, m.timer)] =
                          [client |-> c, timer |-> m.timer, age |-> 0,
                           interval |-> m.interval]]
      BY <2>2, <2>5 DEF Register, Unregister, Has
    <3>2. timers'[l] = [client |-> c, timer |-> m.timer, age |-> 0,
                        interval |-> m.interval]
      BY <2>5, <3>1
    <3>3. m.interval >= 1
      BY <2>3, <3>1, IntervalKinds
    <3>4. 1 \in 1..Len(toPump[c]) /\ toPump[c][1] = m
      BY <2>a, <2>b, LenProperties, EmptySeq
    <3>5. Wanted(<<c, m.timer>>, m.interval)
      BY <3>3, <3>4 DEF RequestsWanted
    <3>6. 0 <= sinceTick[<<c, m.timer>>]
      <4>1. <<c, m.timer>> \in Pairs
        BY <2>3 DEF Pairs
      <4> QED
        BY <4>1
    <3>7. /\ PairOf(timers'[l]) = <<c, m.timer>>
          /\ timers'[l].interval = m.interval
          /\ timers'[l].age = 0
      BY <3>2 DEF PairOf
    <3> QED
      BY <2>1, <3>5, <3>6, <3>7 DEF EntryWanted, Wanted
  <2> QED
    BY <2>4, <2>5
<1>6. CASE PollExpired
  BY <1>6, <1>c DEF PollExpired, appVars
<1>7. ASSUME NEW k \in Keys, CheckTimer(k) PROVE EntryWanted(l)'
  <2>1. CASE ~Due(timers[k])
    BY <1>7, <1>c, <2>1 DEF CheckTimer, appVars
  <2>2. CASE Due(timers[k])
    <3>1. /\ timers' = [timers EXCEPT ![k].age = 0]
          /\ SendTick(timers[k])
          /\ shortest' = shortest
          /\ Has(k)
      BY <1>7, <2>2 DEF CheckTimer, appVars
    <3>2. sinceTick' = [sinceTick EXCEPT ![PairOf(timers[k])] = 0]
      BY <3>1 DEF SendTick, PairOf
    <3>3. CASE l = k
      <4>1. 0 \in 0..MaxAge
        OBVIOUS
      <4>2. timers'[k] = [timers[k] EXCEPT !.age = 0]
        BY <3>1
      <4>3. /\ PairOf(timers'[k]) = PairOf(timers[k])
            /\ timers'[k].interval = timers[k].interval
            /\ timers'[k].age = 0
        BY <3>1, <4>1, <4>2, AgeStep DEF PairOf
      <4>4. sinceTick'[PairOf(timers[k])] = 0
        BY <1>b, <3>1, <3>2, <3>3
      <4> QED
        BY <1>a, <3>1, <3>3, <4>3, <4>4 DEF EntryWanted, Wanted
    <3>4. CASE l # k
      <4>1. timers'[l] = timers[l] /\ Has(l)
        BY <3>1, <3>4 DEF Has
      <4>2. PairOf(timers[l]) # PairOf(timers[k])
        <5>1. /\ Key(timers[l].client, timers[l].timer) = l
              /\ Key(timers[k].client, timers[k].timer) = k
          BY <3>1, <4>1 DEF KeyInv
        <5>2. ASSUME PairOf(timers[l]) = PairOf(timers[k])
              PROVE  /\ timers[l].client = timers[k].client
                     /\ timers[l].timer = timers[k].timer
          BY <5>2 DEF PairOf
        <5> QED
          BY <3>4, <5>1, <5>2
      <4>3. sinceTick'[PairOf(timers[l])] = sinceTick[PairOf(timers[l])]
        BY <1>b, <3>2, <4>1, <4>2
      <4> QED
        BY <1>a, <3>1, <4>1, <4>3 DEF EntryWanted, Wanted
    <3> QED
      BY <3>3, <3>4
  <2> QED
    BY <2>1, <2>2
<1>8. CASE CheckDone
  BY <1>8, <1>c DEF CheckDone, appVars
<1>9. CASE Crash
  BY <1>9 DEF Crash, Has
<1>10. CASE Restart
  BY <1>10, <1>c DEF Restart, appVars
<1>11. CASE UNCHANGED vars
  BY <1>11, <1>c DEF vars, appVars
<1> QED
  BY <1>1, <1>2, <1>3, <1>4, <1>5, <1>6, <1>7, <1>8, <1>9, <1>10, <1>11 DEF Next, App, Pump

(* Every step keeps the ticks under way to apps that asked for them. *)
LEMMA TicksStep ==
    TypeOK /\ EntriesWanted /\ TicksWanted /\ [Next]_vars => TicksWanted'
<1> SUFFICES ASSUME TypeOK, EntriesWanted, TicksWanted, [Next]_vars
             PROVE  TicksWanted'
  OBVIOUS
<1> USE NumbersAssumption, NoneAssumption DEF TypeOK
<1>1. CASE Second
  BY <1>1 DEF Second, appVars, TicksWanted
<1>2. ASSUME NEW c \in Clients, NEW t \in Timers, NEW i \in Intervals,
             AddTimer(c, t, i)
      PROVE  TicksWanted'
  <2>1. ticks' = ticks
    BY <1>2 DEF AddTimer
  <2> SUFFICES ASSUME NEW d \in Clients, NEW n \in 1..Len(ticks[d])
               PROVE  shortest'[<<d, ticks[d][n]>>] # None
    BY <2>1 DEF TicksWanted
  <2>2. ticks[d][n] \in Timers
    BY ElementOfSeq
  <2>3. <<d, ticks[d][n]>> \in Pairs
    BY <2>2 DEF Pairs
  <2>4. shortest[<<d, ticks[d][n]>>] # None
    BY DEF TicksWanted
  <2> QED
    BY <1>2, <2>3, <2>4, WantedStep
<1>3. ASSUME NEW c \in Clients, NEW t \in Timers, DelTimer(c, t) PROVE TicksWanted'
  BY <1>3 DEF DelTimer, appVars, TicksWanted
<1>4. ASSUME NEW c \in Clients, OnTimer(c) PROVE TicksWanted'
  <2>1. /\ shortest' = shortest
        /\ ticks[c] \in Seq(Timers) /\ ticks[c] # <<>>
        /\ ticks' = [ticks EXCEPT ![c] = Tail(ticks[c])]
    BY <1>4 DEF OnTimer
  <2> SUFFICES ASSUME NEW d \in Clients, NEW n \in 1..Len(ticks'[d])
               PROVE  shortest[<<d, ticks'[d][n]>>] # None
    BY <2>1 DEF TicksWanted
  <2>2. CASE d = c
    <3>1. /\ Len(Tail(ticks[c])) = Len(ticks[c]) - 1
          /\ \A j \in 1..Len(Tail(ticks[c])) : Tail(ticks[c])[j] = ticks[c][j + 1]
      BY <2>1, HeadTailProperties
    <3>2. ticks'[d] = Tail(ticks[c]) /\ Len(ticks[c]) \in Nat
      BY <2>1, <2>2, LenProperties
    <3>3. n + 1 \in 1..Len(ticks[c]) /\ ticks'[d][n] = ticks[c][n + 1]
      BY <3>1, <3>2
    <3> QED
      BY <2>2, <3>3 DEF TicksWanted
  <2>3. CASE d # c
    BY <2>1, <2>3 DEF TicksWanted
  <2> QED
    BY <2>2, <2>3
<1>5. ASSUME NEW c \in Clients, OnRead(c) PROVE TicksWanted'
  BY <1>5 DEF OnRead, appVars, TicksWanted
<1>6. CASE PollExpired
  BY <1>6 DEF PollExpired, appVars, TicksWanted
<1>7. ASSUME NEW k \in Keys, CheckTimer(k) PROVE TicksWanted'
  <2>1. CASE ~Due(timers[k])
    BY <1>7, <2>1 DEF CheckTimer, appVars, TicksWanted
  <2>2. CASE Due(timers[k])
    <3>1. PICK e \in Entry : e = timers[k]
      BY <1>7 DEF CheckTimer, Has
    <3>2. e.client \in Clients /\ e.timer \in Timers
      BY DEF Entry
    <3>3. /\ ticks' = [ticks EXCEPT ![e.client] = Append(ticks[e.client], e.timer)]
          /\ shortest' = shortest
          /\ Has(k)
      BY <1>7, <2>2, <3>1 DEF CheckTimer, SendTick, appVars
    <3>4. shortest[<<e.client, e.timer>>] # None
      BY <3>1, <3>3 DEF EntriesWanted, EntryWanted, Wanted, PairOf
    <3> SUFFICES ASSUME NEW d \in Clients, NEW n \in 1..Len(ticks'[d])
                 PROVE  shortest[<<d, ticks'[d][n]>>] # None
      BY <3>3 DEF TicksWanted
    <3>5. CASE d = e.client
      <4>1. /\ Len(Append(ticks[d], e.timer)) = Len(ticks[d]) + 1
            /\ \A j \in 1..Len(ticks[d]) : Append(ticks[d], e.timer)[j] = ticks[d][j]
            /\ Append(ticks[d], e.timer)[Len(ticks[d]) + 1] = e.timer
        BY <3>2, AppendProperties
      <4>2. ticks'[d] = Append(ticks[d], e.timer) /\ Len(ticks[d]) \in Nat
        BY <3>3, <3>5, LenProperties
      <4>3. n \in 1..Len(ticks[d]) \/ n = Len(ticks[d]) + 1
        BY <4>1, <4>2
      <4>4. CASE n \in 1..Len(ticks[d])
        <5>1. ticks'[d][n] = ticks[d][n]
          BY <4>1, <4>2, <4>4
        <5> QED
          BY <4>4, <5>1 DEF TicksWanted
      <4>5. CASE n = Len(ticks[d]) + 1
        <5>1. ticks'[d][n] = e.timer
          BY <4>1, <4>2, <4>5
        <5> QED
          BY <3>4, <3>5, <5>1
      <4> QED
        BY <4>3, <4>4, <4>5
    <3>6. CASE d # e.client
      BY <3>2, <3>3, <3>6 DEF TicksWanted
    <3> QED
      BY <3>5, <3>6
  <2> QED
    BY <2>1, <2>2
<1>8. CASE CheckDone
  BY <1>8 DEF CheckDone, appVars, TicksWanted
<1>9. CASE Crash
  <2>1. shortest' = shortest
    BY <1>9 DEF Crash, appVars
  <2>2. PICK f \in [Clients -> 0..MaxQueue] :
          ticks' = [c \in Clients |-> SubSeq(ticks[c], 1, Len(ticks[c]) - f[c])]
    BY <1>9 DEF Crash
  <2> SUFFICES ASSUME NEW d \in Clients, NEW n \in 1..Len(ticks'[d])
               PROVE  shortest[<<d, ticks'[d][n]>>] # None
    BY <2>1 DEF TicksWanted
  <2>3. ticks'[d] = SubSeq(ticks[d], 1, Len(ticks[d]) - f[d])
    BY <2>2
  <2>4. /\ ticks[d] \in Seq(Timers)
        /\ Len(ticks[d]) - f[d] \in Int /\ Len(ticks[d]) - f[d] <= Len(ticks[d])
    BY LenProperties
  <2>5. /\ 1 + n - 1 \in 1..Len(ticks[d])
        /\ ticks'[d][n] = ticks[d][1 + n - 1]
    BY <2>3, <2>4, PartOf
  <2> QED
    BY <2>5 DEF TicksWanted
<1>10. CASE Restart
  BY <1>10 DEF Restart, appVars, TicksWanted
<1>11. CASE UNCHANGED vars
  BY <1>11 DEF vars, appVars, TicksWanted
<1> QED
  BY <1>1, <1>2, <1>3, <1>4, <1>5, <1>6, <1>7, <1>8, <1>9, <1>10, <1>11 DEF Next, App, Pump

-----------------------------------------------------------------------------
(* The inductive invariant holds at the start. *)
LEMMA InitInv == Init => IInv
<1> SUFFICES ASSUME Init PROVE IInv
  OBVIOUS
<1> USE NumbersAssumption, NoneAssumption DEF Init
<1>1. TypeOK
  BY EmptySeq DEF TypeOK, Has
<1>2. KeyInv /\ EntriesWanted
  BY DEF KeyInv, EntriesWanted, Has
<1>3. RequestsWanted /\ TicksWanted
  BY EmptySeq DEF RequestsWanted, TicksWanted
<1>4. PumpFollowsLastRequest
  <2> SUFFICES ASSUME NEW p \in Pairs PROVE Follows(p)
    BY DEF PumpFollowsLastRequest, Follows
  <2>1. Key(p[1], p[2]) \in Keys
    BY DEF Keys
  <2> QED
    BY <2>1 DEF Follows
<1> QED
  BY <1>1, <1>2, <1>3, <1>4 DEF IInv, AskedInv

(* The inductive invariant is kept by every step. *)
LEMMA InvStep == IInv /\ [Next]_vars => IInv'
  BY TypeStep, KeyStep, FollowStep, RequestsStep, EntriesStep, TicksStep
     DEF IInv, AskedInv

(* The inductive invariant, from which the properties below follow, holds in
   every state, crashes and colliding keys included. *)
THEOREM InductiveInvariant == Spec => []IInv
  BY InitInv, InvStep, PTL DEF Spec

(* Every variable keeps its type. *)
THEOREM TypeCorrect == Spec => []TypeOK
<1>1. IInv => TypeOK
  BY DEF IInv
<1> QED
  BY <1>1, InductiveInvariant, PTL

(* The pump runs exactly the timers it was last asked for, as long as no other
   pair of ids has the same key. *)
THEOREM PumpFollows == Spec => []PumpFollowsLastRequest
<1>1. IInv => PumpFollowsLastRequest
  BY DEF IInv
<1> QED
  BY <1>1, InductiveInvariant, PTL

(* No app gets a tick for a timer it never asked for, whatever the keys. *)
THEOREM OnlyAsked == Spec => []OnlyAskedTimersTick
<1>1. IInv => OnlyAskedTimersTick
  <2> SUFFICES ASSUME IInv, NEW c \in Clients, NEW t \in ToSet(ticks[c])
               PROVE  shortest[<<c, t>>] # None
    BY DEF OnlyAskedTimersTick
  <2>1. ticks[c] \in Seq(Timers)
    BY DEF IInv, TypeOK
  <2>2. PICK n \in 1..Len(ticks[c]) : t = ticks[c][n]
    BY <2>1, LenProperties DEF ToSet
  <2> QED
    BY <2>2 DEF IInv, AskedInv, TicksWanted
<1> QED
  BY <1>1, InductiveInvariant, PTL

(* Only check_timer lengthens the ticks under way to an app, and what it adds is
   the timer of the entry it looks at. *)
LEMMA TickFromEntry ==
    ASSUME IInv, [Next]_vars, NEW p \in Pairs, TickSent(p)
    PROVE  \E k \in Keys : /\ Has(k) /\ Due(timers[k])
                          /\ p = PairOf(timers[k])
<1> USE NumbersAssumption, NoneAssumption DEF IInv, TypeOK
<1>1. PICK c \in Clients, t \in Timers : p = <<c, t>>
  BY DEF Pairs
<1>2. PICK n \in Nat : n = Len(ticks[c])
  BY LenProperties
<1>3. Len(ticks'[c]) > n /\ Last(ticks'[c]) = t
  BY <1>1, <1>2 DEF TickSent
<1>4. ticks'[c] # ticks[c]
  BY <1>2, <1>3
<1>5. ASSUME NEW d \in Clients, OnTimer(d) PROVE FALSE
  <2>1. c = d /\ ticks'[c] = Tail(ticks[c]) /\ ticks[c] # <<>>
    BY <1>4, <1>5 DEF OnTimer
  <2>2. Len(Tail(ticks[c])) = Len(ticks[c]) - 1
    BY <2>1, HeadTailProperties
  <2>3. Len(ticks'[c]) = n - 1
    BY <1>2, <2>1, <2>2
  <2> QED
    BY <1>3, <2>3
<1>6. ASSUME Crash PROVE FALSE
  <2>1. PICK m \in [Clients -> 0..MaxQueue] :
          ticks' = [d \in Clients |-> SubSeq(ticks[d], 1, Len(ticks[d]) - m[d])]
    BY <1>6 DEF Crash
  <2>2. m[c] \in 0..MaxQueue
    OBVIOUS
  <2>3. PICK j \in Int : j = n - m[c] /\ j <= n
    BY <2>2
  <2>4. ticks'[c] = SubSeq(ticks[c], 1, j)
    BY <1>2, <2>1, <2>3
  <2>5. Len(SubSeq(ticks[c], 1, j)) <= Len(ticks[c])
    BY <1>2, <2>3, PartOf
  <2>6. PICK l \in Nat : l = Len(SubSeq(ticks[c], 1, j))
    BY <1>2, <2>3, PartOf, LenProperties
  <2>7. l <= n /\ l > n
    BY <1>2, <1>3, <2>4, <2>5, <2>6
  <2> QED
    BY <2>7
<1>7. PICK k \in Keys : CheckTimer(k) /\ Due(timers[k])
  BY <1>4, <1>5, <1>6 DEF Next, App, Pump, Second, AddTimer, DelTimer, OnRead,
     PollExpired, CheckTimer, CheckDone, Restart, vars, appVars
<1>8. Has(k)
  BY <1>7 DEF CheckTimer
<1>9. PICK e \in Entry : e = timers[k]
  BY <1>8 DEF Has
<1>10. e.client \in Clients /\ e.timer \in Timers
  BY DEF Entry
<1>11. ticks' = [ticks EXCEPT ![e.client] = Append(@, e.timer)]
  BY <1>7, <1>9 DEF CheckTimer, SendTick
<1>12. c = e.client
  BY <1>4, <1>10, <1>11
<1>13. ticks'[c] = Append(ticks[c], e.timer)
  BY <1>10, <1>11, <1>12
<1>14. /\ Len(Append(ticks[c], e.timer)) = Len(ticks[c]) + 1
       /\ Append(ticks[c], e.timer)[Len(ticks[c]) + 1] = e.timer
  BY <1>10, AppendProperties
<1>15. Last(ticks'[c]) = e.timer
  BY <1>13, <1>14 DEF Last
<1> QED
  BY <1>1, <1>3, <1>7, <1>8, <1>9, <1>12, <1>15 DEF PairOf

(* When a tick is sent, the last one for that timer is at least as long ago as
   the shortest interval that its app ever asked for. *)
THEOREM TicksApart == Spec => TicksSpaced
<1>1. ASSUME IInv, [Next]_vars, NEW p \in Pairs, TickSent(p)
      PROVE  sinceTick[p] >= shortest[p]
  <2> USE NumbersAssumption, NoneAssumption
  <2>1. sinceTick[p] \in 0..MaxAge
    BY <1>1 DEF IInv, TypeOK
  <2>2. PICK k \in Keys : Has(k) /\ Due(timers[k]) /\ p = PairOf(timers[k])
    BY <1>1, TickFromEntry
  <2>6. PICK e \in Entry : e = timers[k]
    BY <1>1, <2>2 DEF IInv, TypeOK, Has
  <2>7. e.age \in 0..MaxAge /\ e.interval \in Intervals
    BY DEF Entry
  <2>8. /\ shortest[p] # None /\ shortest[p] <= e.interval
        /\ e.age <= sinceTick[p] /\ e.age >= e.interval
    BY <1>1, <2>2, <2>6
       DEF IInv, AskedInv, EntriesWanted, EntryWanted, Wanted, Due
  <2>9. PICK x \in Intervals, y \in 0..MaxAge : x = shortest[p] /\ y = sinceTick[p]
    BY <1>1, <2>1, <2>8 DEF IInv, TypeOK
  <2>10. x <= e.interval /\ e.age <= y /\ e.age >= e.interval
    BY <2>8, <2>9
  <2>11. PICK a \in 0..MaxAge, b \in Intervals : a = e.age /\ b = e.interval
    BY <2>7
  <2>12. x <= b /\ a <= y /\ a >= b
    BY <2>10, <2>11
  <2>13. y >= x
    BY <2>12
  <2> QED
    BY <2>9, <2>13
<1>2. IInv /\ [Next]_vars
        => [\A p \in Pairs : TickSent(p) => sinceTick[p] >= shortest[p]]_vars
  BY <1>1
<1> QED
  BY <1>2, InductiveInvariant, PTL DEF Spec, TicksSpaced
=============================================================================

---------------------------- MODULE BaseAppProofs ----------------------------
(***************************************************************************)
(* Proofs about BaseApp, for any apps, threads, messages and settings.     *)
(*                                                                         *)
(* The inductive invariant says what the key buffer holds at each point of *)
(* a lookup in an app whose threads have not raced (BufferInv), and that a *)
(* message is at one place at a time: not sent yet, with one thread, on    *)
(* its way to the serving app, or its response on the way back             *)
(* (PlaceInv).  From the latter it follows that a response finds its       *)
(* request pending or timed out.                                           *)
(***************************************************************************)
EXTENDS BaseApp, SequenceTheorems, TLAPS

(* A thread that sends has a message of its own app, and no other thread has
   it. *)
ThreadInv ==
    \A t \in Threads :
        /\ pc[t] = "idle" => msg[t] = None
        /\ pc[t] \in {"register", "transmit"} => msg[t] # None
        /\ msg[t] # None =>
              /\ Home[msg[t]] = Home[t] /\ msg[t] \notin unsent
              /\ \A u \in Threads : msg[u] = msg[t] => u = t

(* Threads of one app that look up different names have been noticed. *)
RaceInv ==
    \A t, u \in Threads :
        /\ Home[t] = Home[u] /\ InGet(t) /\ InGet(u)
        /\ Asked(t) # Asked(u)
        => Home[t] \in raced

(* Without a race the buffer holds the name that each of an app's threads has
   written so far, and what a thread found is its app's token. *)
Undisturbed(t) ==
    /\ pc[t] \in {"rest", "lookup"} => key[Home[t]].start = Asked(t)
    /\ pc[t] = "lookup" => key[Home[t]].rest = Asked(t)
    /\ pc[t] \in {"register", "transmit"} => token[t] = Home[t]

BufferInv == \A t \in Threads : Home[t] \notin raced => Undisturbed(t)

(* What the serving app keeps in mind of wrong tokens. *)
RefusedInv ==
    /\ \A m \in refused : Home[m] \in raced
    /\ ~up => raced # {}

(* The message is no longer with its sender. *)
Gone(m, a) == /\ Home[m] = a /\ m \notin unsent
              /\ \A t \in Threads : msg[t] # m

ServerInv ==
    \A a \in Apps : \A i \in 1..Len(toServer[a]) :
        /\ Gone(toServer[a][i].msg, a)
        /\ toServer[a][i].msg \in Requests
             => toServer[a][i].msg \in pending \cup expired
        /\ toServer[a][i].token = a \/ a \in raced
        /\ \A j \in 1..Len(toServer[a]) :
              toServer[a][j].msg = toServer[a][i].msg => j = i
        /\ \A j \in 1..Len(toApp[a]) : toApp[a][j] # toServer[a][i].msg

AppInv ==
    \A a \in Apps : \A i \in 1..Len(toApp[a]) :
        /\ Gone(toApp[a][i], a)
        /\ toApp[a][i] \in pending \cup expired
        /\ \A j \in 1..Len(toApp[a]) : toApp[a][j] = toApp[a][i] => j = i

PlaceInv == ServerInv /\ AppInv

(* A request is registered by the time it is sent, and is not both pending
   and ended, or ended twice. *)
Registered == pending \cup answered \cup expired

RegisterInv ==
    /\ unsent \cap Registered = {}
    /\ \A t \in Threads : msg[t] \in Requests =>
          IF pc[t] = "transmit" THEN msg[t] \in pending \cup expired
                                ELSE msg[t] \notin Registered
    /\ pending \cap answered = {} /\ pending \cap expired = {}
    /\ answered \cap expired = {}

IInv == TypeOK /\ ThreadInv /\ RaceInv /\ BufferInv /\ RefusedInv
               /\ PlaceInv /\ RegisterInv

-----------------------------------------------------------------------------
(* Taking the first element off a channel. *)
LEMMA FirstTaken ==
    ASSUME NEW S, NEW s \in Seq(S), s # <<>>
    PROVE  /\ Head(s) \in S /\ Head(s) = s[1] /\ Len(s) >= 1
           /\ Tail(s) \in Seq(S) /\ Len(Tail(s)) = Len(s) - 1
           /\ \A i \in 1..Len(Tail(s)) : i + 1 \in 1..Len(s) /\ Tail(s)[i] = s[i + 1]
  BY HeadTailProperties, LenProperties, EmptySeq

(* Adding an element to a channel. *)
LEMMA LastAdded ==
    ASSUME NEW S, NEW s \in Seq(S), NEW e \in S
    PROVE  /\ Append(s, e) \in Seq(S) /\ Len(Append(s, e)) = Len(s) + 1
           /\ \A i \in 1..Len(s) : Append(s, e)[i] = s[i]
           /\ Append(s, e)[Len(s) + 1] = e
  BY AppendProperties

(* Writing half of the buffer. *)
LEMMA HalfWritten ==
    ASSUME NEW k \in [start : Keys, rest : Keys], NEW n \in Keys
    PROVE  /\ [k EXCEPT !.start = n] \in [start : Keys, rest : Keys]
           /\ [k EXCEPT !.rest = n] \in [start : Keys, rest : Keys]
  OBVIOUS

(* The values that threads, messages and settings have. *)
LEMMA KeyKinds ==
    /\ \A t \in Threads : Asked(t) \in Keys /\ Home[t] \in Apps
    /\ \A m \in Messages : Home[m] \in Apps /\ m # None
    /\ \A a \in Apps : a # None /\ \A k \in Keys : Value(a, k) \in Tokens
    /\ None \in Tokens
  BY HomeAssumption, NoneAssumption DEF Asked, Keys, Value, Tokens, Messages

(* Every step keeps the types. *)
LEMMA TypeStep == TypeOK /\ ThreadInv /\ [Next]_vars => TypeOK'
<1> SUFFICES ASSUME TypeOK, ThreadInv, [Next]_vars PROVE TypeOK'
  OBVIOUS
<1> USE HomeAssumption, NoneAssumption, KeyKinds
    DEF TypeOK, vars, threadVars, requestVars, handlerVars, serverVars
<1>1. ASSUME NEW t \in Threads, GetConfig(t) PROVE TypeOK'
  BY <1>1 DEF GetConfig, StartGet
<1>2. ASSUME NEW t \in Threads, NEW m \in Messages, SendMessage(t, m) PROVE TypeOK'
  BY <1>2 DEF SendMessage, StartGet
<1>3. ASSUME NEW t \in Threads, FormatKey(t) PROVE TypeOK'
  <2>1. key' = [key EXCEPT ![Home[t]] = [key[Home[t]] EXCEPT !.start = Asked(t)]]
    BY <1>3 DEF FormatKey
  <2>2. [key[Home[t]] EXCEPT !.start = Asked(t)] \in [start : Keys, rest : Keys]
    BY HalfWritten, key[Home[t]] \in [start : Keys, rest : Keys], Asked(t) \in Keys
  <2>3. key' \in [Apps -> [start : Keys, rest : Keys]]
    BY <2>1, <2>2
  <2> QED
    BY <1>3, <2>3 DEF FormatKey
<1>4. ASSUME NEW t \in Threads, FormatRest(t) PROVE TypeOK'
  <2>1. key' = [key EXCEPT ![Home[t]] = [key[Home[t]] EXCEPT !.rest = Asked(t)]]
    BY <1>4 DEF FormatRest
  <2>2. [key[Home[t]] EXCEPT !.rest = Asked(t)] \in [start : Keys, rest : Keys]
    BY HalfWritten, key[Home[t]] \in [start : Keys, rest : Keys], Asked(t) \in Keys
  <2>3. key' \in [Apps -> [start : Keys, rest : Keys]]
    BY <2>1, <2>2
  <2> QED
    BY <1>4, <2>3 DEF FormatRest
<1>5. ASSUME NEW t \in Threads, Lookup(t) PROVE TypeOK'
  <2>1. PICK v : token' = [token EXCEPT ![t] = IF msg[t] = None THEN None ELSE v]
                 /\ v \in Tokens
    <3>1. key[Home[t]].start \in Keys
      OBVIOUS
    <3> QED
      BY <1>5, <3>1 DEF Lookup
  <2> QED
    BY <1>5, <2>1 DEF Lookup
<1>6. ASSUME NEW t \in Threads, Register(t) PROVE TypeOK'
  BY <1>6 DEF Register
<1>7. ASSUME NEW t \in Threads, Transmit(t) PROVE TypeOK'
  <2>1. AsString(msg[t], token[t]) \in Datagrams
    BY <1>7 DEF Transmit, ThreadInv, AsString, Datagrams
  <2>2. toServer' \in [Apps -> Seq(Datagrams)]
    BY <1>7, <2>1, LastAdded DEF Transmit
  <2> QED
    BY <1>7, <2>2 DEF Transmit
<1>8. ASSUME NEW m \in Requests, Timeout(m) PROVE TypeOK'
  BY <1>8 DEF Timeout
<1>9. ASSUME NEW a \in Apps, ReceiveResponse(a) PROVE TypeOK'
  <2>1. Head(toApp[a]) \in Requests /\ Tail(toApp[a]) \in Seq(Requests)
    BY <1>9, FirstTaken DEF ReceiveResponse
  <2> QED
    BY <1>9, <2>1 DEF ReceiveResponse
<1>10. ASSUME NEW a \in Apps, ReceiveString(a) PROVE TypeOK'
  <2> DEFINE d == Head(toServer[a])
  <2>1. d \in Datagrams /\ Tail(toServer[a]) \in Seq(Datagrams)
    BY <1>10, FirstTaken DEF ReceiveString
  <2>2. d.msg \in Messages
    BY <2>1 DEF Datagrams
  <2>3. toServer' \in [Apps -> Seq(Datagrams)]
    BY <1>10, <2>1 DEF ReceiveString
  <2>4. /\ UNCHANGED <<threadVars, requestVars, handlerVars>>
        /\ up' \in {up, FALSE}
        /\ refused' \in {refused, refused \cup {d.msg}}
        /\ \/ UNCHANGED <<toApp, handled>>
           \/ Run(d.msg, d.token)
    BY <1>10 DEF ReceiveString, ActionHandler, NoticeHandler
  <2>5. CASE UNCHANGED <<toApp, handled>>
    BY <2>2, <2>3, <2>4, <2>5
  <2>6. CASE Run(d.msg, d.token)
    <3> HIDE DEF d
    <3>1. toApp' \in [Apps -> Seq(Requests)]
      BY <2>6, LastAdded DEF Run
    <3>2. handled' \subseteq Messages
      BY <2>2, <2>6 DEF Run
    <3> QED
      BY <2>2, <2>3, <2>4, <3>1, <3>2
  <2> QED
    BY <2>4, <2>5, <2>6
<1>11. ASSUME NEW n \in Names, NEW c \in Classes, RegisterHandler(n, c) PROVE TypeOK'
  <2>1. CASE RegisterRequestHandler(n, c)
    BY <2>1 DEF RegisterRequestHandler
  <2>2. CASE RegisterNoticeHandler(n, c)
    BY <2>2 DEF RegisterNoticeHandler
  <2> QED
    BY <1>11, <2>1, <2>2 DEF RegisterHandler
<1>12. CASE UNCHANGED vars
  BY <1>12
<1> QED
  BY <1>1, <1>2, <1>3, <1>4, <1>5, <1>6, <1>7, <1>8, <1>9, <1>10, <1>11, <1>12
     DEF Next, Thread, SendStep

(* The thread part of the invariant is kept by every step. *)
LEMMA ThreadStep == TypeOK /\ ThreadInv /\ [Next]_vars => ThreadInv'
<1> SUFFICES ASSUME TypeOK, ThreadInv, [Next]_vars PROVE ThreadInv'
  OBVIOUS
<1> USE DEF TypeOK, ThreadInv, vars, threadVars
<1>1. ASSUME NEW t \in Threads, GetConfig(t) PROVE ThreadInv'
  BY <1>1 DEF GetConfig, StartGet
<1>2. ASSUME NEW t \in Threads, NEW m \in Messages, SendMessage(t, m) PROVE ThreadInv'
  <2>1. \A u \in Threads : msg[u] # m
    BY <1>2, KeyKinds DEF SendMessage
  <2> QED
    BY <1>2, <2>1 DEF SendMessage, StartGet
<1>3. ASSUME NEW t \in Threads,
             FormatKey(t) \/ FormatRest(t) \/ Lookup(t) \/ Register(t)
      PROVE  ThreadInv'
  BY <1>3 DEF FormatKey, FormatRest, Lookup, Register
<1>4. ASSUME NEW t \in Threads, Transmit(t) PROVE ThreadInv'
  BY <1>4 DEF Transmit
<1>5. ASSUME UNCHANGED threadVars PROVE ThreadInv'
  BY <1>5
<1> QED
  BY <1>1, <1>2, <1>3, <1>4, <1>5
     DEF Next, Thread, SendStep, Timeout, ReceiveResponse, ReceiveString,
         RegisterHandler, RegisterRequestHandler, RegisterNoticeHandler

(* An app is marked when one of its threads begins to look up a name while
   another looks up another one. *)
LEMMA RaceStep == TypeOK /\ ThreadInv /\ RaceInv /\ [Next]_vars
                    => RaceInv' /\ raced \subseteq raced'
<1> SUFFICES ASSUME TypeOK, ThreadInv, RaceInv, [Next]_vars
             PROVE  RaceInv' /\ raced \subseteq raced'
  OBVIOUS
<1> USE DEF TypeOK, RaceInv, InGet, Asked, vars, threadVars
<1>1. ASSUME NEW t \in Threads, NEW k \in Keys, StartGet(t, k),
             \A u \in Threads \ {t} : msg'[u] = msg[u], Asked(t)' = k
      PROVE  RaceInv' /\ raced \subseteq raced'
  <2>1. raced \subseteq raced'
    BY <1>1 DEF StartGet
  <2>2. ASSUME NEW u \in Threads \ {t}, Home[u] = Home[t],
               InGet(u)', Asked(u)' # k
        PROVE  Home[t] \in raced'
    <3>1. u \in Rivals(t, k)
      BY <1>1, <2>2 DEF Rivals, StartGet
    <3> QED
      BY <1>1, <3>1 DEF StartGet
  <2> QED
    BY <1>1, <2>1, <2>2 DEF StartGet
<1>2. ASSUME NEW t \in Threads, GetConfig(t) PROVE RaceInv' /\ raced \subseteq raced'
  BY <1>1, <1>2 DEF GetConfig, ThreadInv, Keys
<1>3. ASSUME NEW t \in Threads, NEW m \in Messages, SendMessage(t, m)
      PROVE  RaceInv' /\ raced \subseteq raced'
  BY <1>1, <1>3, KeyKinds DEF SendMessage, Keys
<1>4. ASSUME NEW t \in Threads, SendStep(t) PROVE RaceInv' /\ raced \subseteq raced'
  <2>1. raced' = raced
    BY <1>4 DEF SendStep, FormatKey, FormatRest, Lookup, Register, Transmit
  <2>2. ASSUME NEW u \in Threads, InGet(u)' PROVE InGet(u) /\ Asked(u)' = Asked(u)
    <3>1. CASE Transmit(t)
      BY <2>2, <3>1 DEF Transmit
    <3>2. CASE FormatKey(t) \/ FormatRest(t) \/ Lookup(t) \/ Register(t)
      BY <2>2, <3>2 DEF FormatKey, FormatRest, Lookup, Register
    <3> QED
      BY <1>4, <3>1, <3>2 DEF SendStep
  <2> QED
    BY <2>1, <2>2
<1>5. ASSUME UNCHANGED threadVars PROVE RaceInv' /\ raced \subseteq raced'
  BY <1>5
<1> QED
  BY <1>2, <1>3, <1>4, <1>5
     DEF Next, Thread, Timeout, ReceiveResponse, ReceiveString,
         RegisterHandler, RegisterRequestHandler, RegisterNoticeHandler

(* In an app that is not marked, every thread finds what it wrote. *)
LEMMA BufferStep ==
    TypeOK /\ ThreadInv /\ RaceInv /\ BufferInv /\ [Next]_vars => BufferInv'
<1> SUFFICES ASSUME TypeOK, ThreadInv, RaceInv, BufferInv, [Next]_vars,
                    NEW u \in Threads, Home[u] \notin raced'
             PROVE  Undisturbed(u)'
  BY DEF BufferInv
<1> USE DEF TypeOK, vars, threadVars, Undisturbed, InGet, Asked
<1>0. Undisturbed(u) /\ Home[u] \notin raced
  BY RaceStep DEF BufferInv
<1>1. ASSUME NEW t \in Threads, GetConfig(t) PROVE Undisturbed(u)'
  BY <1>0, <1>1 DEF GetConfig, StartGet
<1>2. ASSUME NEW t \in Threads, NEW m \in Messages, SendMessage(t, m)
      PROVE  Undisturbed(u)'
  BY <1>0, <1>2 DEF SendMessage, StartGet
<1>3. ASSUME NEW t \in Threads, FormatKey(t) PROVE Undisturbed(u)'
  BY <1>0, <1>3, KeyKinds DEF FormatKey, RaceInv
<1>4. ASSUME NEW t \in Threads, FormatRest(t) PROVE Undisturbed(u)'
  BY <1>0, <1>4, KeyKinds DEF FormatRest, RaceInv
<1>5. ASSUME NEW t \in Threads, Lookup(t) PROVE Undisturbed(u)'
  <2>1. CASE u # t
    BY <1>0, <1>5, <2>1 DEF Lookup
  <2>2. CASE u = t
    <3>1. Rivals(t, Asked(t)) = {}
      BY <1>0, <1>5, <2>2 DEF Lookup, Rivals, RaceInv
    <3>2. key[Home[t]].start = Asked(t) /\ key[Home[t]].rest = Asked(t)
      BY <1>0, <1>5, <2>2 DEF Lookup
    <3>3. msg[t] # None => token'[t] = Home[t]
      BY <1>5, <3>1, <3>2 DEF Lookup, Value
    <3> QED
      BY <1>5, <2>2, <3>3 DEF Lookup
  <2> QED
    BY <2>1, <2>2
<1>6. ASSUME NEW t \in Threads, Register(t) PROVE Undisturbed(u)'
  BY <1>0, <1>6 DEF Register
<1>7. ASSUME NEW t \in Threads, Transmit(t) PROVE Undisturbed(u)'
  BY <1>0, <1>7 DEF Transmit
<1>8. ASSUME UNCHANGED threadVars PROVE Undisturbed(u)'
  BY <1>0, <1>8
<1> QED
  BY <1>1, <1>2, <1>3, <1>4, <1>5, <1>6, <1>7, <1>8
     DEF Next, Thread, SendStep, Timeout, ReceiveResponse, ReceiveString,
         RegisterHandler, RegisterRequestHandler, RegisterNoticeHandler

-----------------------------------------------------------------------------
(* Marks stay, and whatever is no longer with its sender stays so. *)
LEMMA GoneStays ==
    ASSUME TypeOK, [Next]_vars, NEW a \in Apps, NEW m \in Messages, Gone(m, a)
    PROVE  Gone(m, a)'
<1> USE KeyKinds DEF TypeOK, Gone, vars, threadVars
<1>1. ASSUME NEW t \in Threads, Thread(t) PROVE Gone(m, a)'
  BY <1>1 DEF Thread, SendStep, GetConfig, SendMessage, StartGet, FormatKey,
       FormatRest, Lookup, Register, Transmit
<1>2. ASSUME UNCHANGED threadVars PROVE Gone(m, a)'
  BY <1>2
<1> QED
  BY <1>1, <1>2 DEF Next, Timeout, ReceiveResponse, ReceiveString,
       RegisterHandler, RegisterRequestHandler, RegisterNoticeHandler

(* A request that is settled or pending stays registered. *)
LEMMA RegisterStep ==
    TypeOK /\ ThreadInv /\ AppInv /\ RegisterInv /\ [Next]_vars => RegisterInv'
<1> SUFFICES ASSUME TypeOK, ThreadInv, AppInv, RegisterInv, [Next]_vars
             PROVE  RegisterInv'
  OBVIOUS
<1> USE DEF TypeOK, RegisterInv, Registered, vars, threadVars, requestVars
<1>1. ASSUME NEW t \in Threads, GetConfig(t) PROVE RegisterInv'
  BY <1>1 DEF GetConfig, StartGet, ThreadInv
<1>2. ASSUME NEW t \in Threads, NEW m \in Messages, SendMessage(t, m)
      PROVE  RegisterInv'
  BY <1>2 DEF SendMessage, StartGet
<1>3. ASSUME NEW t \in Threads, FormatKey(t) \/ FormatRest(t) \/ Lookup(t)
      PROVE  RegisterInv'
  BY <1>3 DEF FormatKey, FormatRest, Lookup
<1>4. ASSUME NEW t \in Threads, Register(t) PROVE RegisterInv'
  <2>1. ASSUME NEW u \in Threads \ {t}, msg[u] \in Requests PROVE msg[u] # msg[t]
    BY <1>4, <2>1, KeyKinds DEF Register, ThreadInv, Messages
  <2>2. msg[t] \notin unsent
    BY <1>4 DEF Register, ThreadInv
  <2> QED
    BY <1>4, <2>1, <2>2 DEF Register
<1>5. ASSUME NEW t \in Threads, Transmit(t) PROVE RegisterInv'
  BY <1>5, KeyKinds DEF Transmit, Messages
<1>6. ASSUME NEW m \in Requests, Timeout(m) PROVE RegisterInv'
  BY <1>6 DEF Timeout
<1>7. ASSUME NEW a \in Apps, ReceiveResponse(a) PROVE RegisterInv'
  <2> DEFINE m == Head(toApp[a])
  <2>1. m \in Requests /\ m = toApp[a][1] /\ 1 \in 1..Len(toApp[a])
    BY <1>7, FirstTaken DEF ReceiveResponse
  <2>2. m \in pending \cup expired /\ \A t \in Threads : msg[t] # m
    BY <2>1 DEF AppInv, Gone
  <2> HIDE DEF m
  <2>3. pending' = pending \ {m} /\ UNCHANGED <<threadVars, expired>>
        /\ answered' = IF m \in pending THEN answered \cup {m} ELSE answered
    BY <1>7 DEF ReceiveResponse, m
  <2> QED
    BY <2>1, <2>2, <2>3
<1>8. ASSUME UNCHANGED <<threadVars, requestVars>> PROVE RegisterInv'
  BY <1>8
<1> QED
  BY <1>1, <1>2, <1>3, <1>4, <1>5, <1>6, <1>7, <1>8
     DEF Next, Thread, SendStep, ReceiveString,
         RegisterHandler, RegisterRequestHandler, RegisterNoticeHandler

(* What is on a channel has its type. *)
LEMMA ChannelTypes ==
    ASSUME TypeOK, NEW a \in Apps
    PROVE  /\ \A i \in 1..Len(toServer[a]) : toServer[a][i] \in Datagrams
                                             /\ toServer[a][i].msg \in Messages
           /\ \A i \in 1..Len(toApp[a]) : toApp[a][i] \in Requests
                                          /\ toApp[a][i] \in Messages
           /\ Len(toServer[a]) \in Nat /\ Len(toApp[a]) \in Nat
<1>1. toServer[a] \in Seq(Datagrams) /\ toApp[a] \in Seq(Requests)
  BY DEF TypeOK
<1>2. \A i \in 1..Len(toServer[a]) : toServer[a][i] \in Datagrams
  BY <1>1, ElementOfSeq
<1>3. \A i \in 1..Len(toApp[a]) : toApp[a][i] \in Requests
  BY <1>1, ElementOfSeq
<1> QED
  BY <1>1, <1>2, <1>3, LenProperties DEF Datagrams, Messages

(* Everything a message meets on its way except moving from one place to the
   next. *)
LEMMA PlaceKept ==
    ASSUME TypeOK, RaceInv, ThreadInv, PlaceInv, [Next]_vars,
           UNCHANGED <<toServer, toApp>>,
           pending \cup expired \subseteq pending' \cup expired'
    PROVE  PlaceInv'
<1>1. raced \subseteq raced'
  BY RaceStep
<1>2. ServerInv'
  <2> SUFFICES ASSUME NEW a \in Apps, NEW i \in 1..Len(toServer[a])
               PROVE  /\ Gone(toServer[a][i].msg, a)'
                      /\ toServer[a][i].msg \in Requests
                           => toServer[a][i].msg \in pending' \cup expired'
                      /\ toServer[a][i].token = a \/ a \in raced'
    BY DEF PlaceInv, ServerInv
  <2>1. Gone(toServer[a][i].msg, a)'
    <3> DEFINE m == toServer[a][i].msg
    <3>1. m \in Messages /\ Gone(m, a)
      BY ChannelTypes DEF PlaceInv, ServerInv
    <3>2. m' = m
      OBVIOUS
    <3> HIDE DEF m
    <3>3. Gone(m, a)'
      BY <3>1, <3>2, GoneStays DEF Gone
    <3> QED
      BY <3>3 DEF m
  <2> QED
    BY <1>1, <2>1 DEF PlaceInv, ServerInv
<1>3. AppInv'
  BY ChannelTypes, GoneStays DEF PlaceInv, AppInv
<1> QED
  BY <1>2, <1>3 DEF PlaceInv

(* A message that is sent gets behind the others of its app. *)
LEMMA PlaceTransmit ==
    ASSUME TypeOK, ThreadInv, RaceInv, BufferInv, PlaceInv, RegisterInv,
           NEW t \in Threads, Transmit(t)
    PROVE  PlaceInv'
<1> DEFINE s == toServer[Home[t]]
           e == AsString(msg[t], token[t])
<1> USE KeyKinds
<1>1. PICK m \in Messages : m = msg[t] /\ e.msg = m /\ e.token = token[t]
  BY DEF ThreadInv, Transmit, TypeOK, AsString
<1>2. /\ Home[m] = Home[t] /\ m \notin unsent
      /\ \A u \in Threads \ {t} : msg[u] # m
  BY <1>1 DEF ThreadInv
<1>3. m \in Requests => m \in pending \cup expired
  BY <1>1 DEF RegisterInv, Transmit
<1>4. token[t] = Home[t] \/ Home[t] \in raced
  BY DEF BufferInv, Undisturbed, Transmit
<1>5. \A a \in Apps :
        /\ \A i \in 1..Len(toServer[a]) : toServer[a][i].msg # m
        /\ \A i \in 1..Len(toApp[a]) : toApp[a][i] # m
  BY <1>1 DEF PlaceInv, ServerInv, AppInv, Gone
<1>6. /\ \A a \in Apps \ {Home[t]} : toServer'[a] = toServer[a]
      /\ toServer'[Home[t]] = Append(s, e)
      /\ UNCHANGED <<toApp, unsent, raced, pending, expired>>
      /\ msg' = [msg EXCEPT ![t] = None]
  BY DEF Transmit, TypeOK, threadVars, requestVars
<1>7. /\ s \in Seq(Datagrams) /\ e \in Datagrams /\ Len(s) \in Nat
  <2>1. token[t] \in Tokens /\ s \in Seq(Datagrams)
    BY DEF TypeOK
  <2>2. e \in Datagrams
    BY <1>1, <2>1 DEF AsString, Datagrams
  <2> QED
    BY <2>1, <2>2, LenProperties
<1>8. /\ Len(toServer'[Home[t]]) = Len(s) + 1
      /\ \A i \in 1..Len(s) : toServer'[Home[t]][i] = s[i]
      /\ toServer'[Home[t]][Len(s) + 1] = e
  BY <1>6, <1>7, LastAdded
<1>9. \A a \in Apps, x \in Messages : Gone(x, a) => Gone(x, a)'
  BY <1>6 DEF Gone, TypeOK
<1> HIDE DEF e, s
<1>10. ServerInv'
  <2> SUFFICES ASSUME NEW a \in Apps, NEW i \in 1..Len(toServer'[a])
               PROVE  /\ Gone(toServer[a][i].msg, a)'
                      /\ toServer'[a][i].msg \in Requests
                           => toServer'[a][i].msg \in pending \cup expired
                      /\ toServer'[a][i].token = a \/ a \in raced
                      /\ \A j \in 1..Len(toServer'[a]) :
                           toServer'[a][j].msg = toServer'[a][i].msg => j = i
                      /\ \A j \in 1..Len(toApp[a]) : toApp[a][j] # toServer'[a][i].msg
    BY <1>6 DEF ServerInv
  <2>1. CASE a # Home[t]
    BY <1>6, <1>9, <2>1, ChannelTypes DEF PlaceInv, ServerInv, Gone
  <2>2. CASE a = Home[t] /\ i \in 1..Len(s)
    <3>1. toServer'[a][i] = toServer[a][i] /\ i \in 1..Len(toServer[a])
      BY <1>8, <2>2 DEF s
    <3>2. Gone(toServer[a][i].msg, a)'
      BY <1>6, <1>9, <3>1, ChannelTypes DEF PlaceInv, ServerInv, Gone
    <3>3. \A j \in 1..Len(toServer'[a]) :
            \/ j \in 1..Len(s) /\ toServer'[a][j] = toServer[a][j]
            \/ toServer'[a][j] = e
      BY <1>7, <1>8, <2>2 DEF s
    <3>4. \A j \in 1..Len(toServer'[a]) :
            toServer'[a][j].msg = toServer'[a][i].msg => j = i
      BY <1>1, <1>5, <2>2, <3>1, <3>3 DEF PlaceInv, ServerInv, s
    <3> QED
      BY <3>1, <3>2, <3>4 DEF PlaceInv, ServerInv
  <2>3. CASE a = Home[t] /\ i = Len(s) + 1
    <3>1. toServer'[a][i] = e /\ toServer'[a][i].msg = m
          /\ toServer'[a][i].token = token[t]
      BY <1>1, <1>8, <2>3
    <3>2. Gone(toServer[a][i].msg, a)'
      BY <1>2, <1>6, <2>3, <3>1 DEF Gone, TypeOK
    <3>3. \A j \in 1..Len(toServer'[a]) : toServer'[a][j].msg = m => j = i
      BY <1>5, <1>7, <1>8, <2>3 DEF s
    <3> QED
      BY <1>3, <1>4, <1>5, <2>3, <3>1, <3>2, <3>3
  <2> QED
    BY <1>7, <1>8, <2>1, <2>2, <2>3
<1>11. AppInv'
  BY <1>6, <1>9, ChannelTypes DEF PlaceInv, AppInv, Gone
<1> QED
  BY <1>10, <1>11 DEF PlaceInv

(* A response that arrives leaves the way, and its request is settled. *)
LEMMA PlaceResponse ==
    ASSUME TypeOK, PlaceInv, NEW b \in Apps, ReceiveResponse(b)
    PROVE  PlaceInv'
<1>1. PICK m \in Requests : m = Head(toApp[b]) /\ m = toApp[b][1]
  BY FirstTaken DEF ReceiveResponse, TypeOK
<1>2. /\ \A a \in Apps \ {b} : toApp'[a] = toApp[a]
      /\ \A i \in 1..Len(toApp'[b]) :
            i + 1 \in 1..Len(toApp[b]) /\ toApp'[b][i] = toApp[b][i + 1]
      /\ 1 \in 1..Len(toApp[b])
  BY FirstTaken DEF ReceiveResponse, TypeOK
<1>3. UNCHANGED <<toServer, unsent, raced, msg, expired>> /\ pending' = pending \ {m}
  BY <1>1 DEF ReceiveResponse, threadVars
<1>4. Home[m] = b
  BY <1>1, <1>2 DEF PlaceInv, AppInv, Gone
<1>5. ServerInv'
  <2> SUFFICES ASSUME NEW a \in Apps, NEW i \in 1..Len(toServer[a])
               PROVE  /\ Gone(toServer[a][i].msg, a)'
                      /\ toServer[a][i].msg \in Requests
                           => toServer[a][i].msg \in pending' \cup expired
                      /\ toServer[a][i].token = a \/ a \in raced
                      /\ \A j \in 1..Len(toServer[a]) :
                           toServer[a][j].msg = toServer[a][i].msg => j = i
                      /\ \A j \in 1..Len(toApp'[a]) : toApp'[a][j] # toServer[a][i].msg
    BY <1>3 DEF ServerInv
  <2>1. toServer[a][i].msg # m
    BY <1>1, <1>2, <1>4 DEF PlaceInv, ServerInv, Gone
  <2>2. Gone(toServer[a][i].msg, a)'
    BY <1>3 DEF PlaceInv, ServerInv, Gone
  <2>3. \A j \in 1..Len(toApp'[a]) : toApp'[a][j] # toServer[a][i].msg
    BY <1>2 DEF PlaceInv, ServerInv
  <2> QED
    BY <1>3, <2>1, <2>2, <2>3 DEF PlaceInv, ServerInv
<1>6. AppInv'
  <2> SUFFICES ASSUME NEW a \in Apps, NEW i \in 1..Len(toApp'[a])
               PROVE  /\ Gone(toApp[a][i], a)'
                      /\ toApp'[a][i] \in pending' \cup expired
                      /\ \A j \in 1..Len(toApp'[a]) : toApp'[a][j] = toApp'[a][i] => j = i
    BY <1>3 DEF AppInv
  <2>1. CASE a # b
    BY <1>2, <1>3, <1>4, <2>1 DEF PlaceInv, AppInv, Gone
  <2>2. CASE a = b
    <3>1. i + 1 # 1 /\ i + 1 \in 1..Len(toApp[b]) /\ toApp'[b][i] = toApp[b][i + 1]
      BY <1>2, <2>2
    <3>2. toApp[b][i + 1] # m
      BY <1>1, <1>2, <3>1 DEF PlaceInv, AppInv
    <3>3. \A j \in 1..Len(toApp'[b]) : toApp'[b][j] = toApp'[b][i] => j = i
      BY <1>2, <3>1 DEF PlaceInv, AppInv
    <3> QED
      BY <1>3, <2>2, <3>1, <3>2, <3>3 DEF PlaceInv, AppInv, Gone
  <2> QED
    BY <2>1, <2>2
<1> QED
  BY <1>5, <1>6 DEF PlaceInv

(* A message that the serving app takes leaves the way, or its response begins
   the way back; a wrong token comes from a marked app. *)
LEMMA PlaceString ==
    ASSUME TypeOK, PlaceInv, RefusedInv, NEW b \in Apps, ReceiveString(b)
    PROVE  PlaceInv' /\ RefusedInv'
<1>1. PICK d \in Datagrams : d = Head(toServer[b]) /\ d = toServer[b][1]
  BY FirstTaken DEF ReceiveString, TypeOK
<1>2. /\ \A a \in Apps \ {b} : toServer'[a] = toServer[a]
      /\ \A i \in 1..Len(toServer'[b]) :
            i + 1 \in 1..Len(toServer[b]) /\ toServer'[b][i] = toServer[b][i + 1]
      /\ 1 \in 1..Len(toServer[b])
  BY FirstTaken DEF ReceiveString, TypeOK
<1>3. UNCHANGED <<unsent, raced, msg, pending, expired>>
  BY DEF ReceiveString, threadVars, requestVars
<1>4. /\ Gone(d.msg, b) /\ d.msg \in Messages
      /\ d.msg \in Requests => d.msg \in pending \cup expired
      /\ d.token = b \/ b \in raced
      /\ \A j \in 1..Len(toServer[b]) : toServer[b][j].msg = d.msg => j = 1
      /\ \A j \in 1..Len(toApp[b]) : toApp[b][j] # d.msg
  BY <1>1, <1>2 DEF PlaceInv, ServerInv, Datagrams
<1>5. \/ toApp' = toApp
      \/ /\ d.msg \in Requests
         /\ toApp' = [toApp EXCEPT ![b] = Append(@, d.msg)]
  BY <1>1 DEF ReceiveString, ActionHandler, NoticeHandler, Run, SameToken
<1>6. RefusedInv'
  <2>1. \/ UNCHANGED <<up, refused>>
        \/ d.token # b /\ up' = FALSE /\ refused' = refused
        \/ d.token # b /\ up' = up /\ refused' = refused \cup {d.msg}
    BY <1>1, NoneAssumption DEF ReceiveString, SameToken
  <2> QED
    BY <1>3, <1>4, <2>1 DEF RefusedInv, Gone
<1>7. /\ \A a \in Apps : Len(toApp[a]) \in Nat /\ Len(toApp'[a]) \in Nat
      /\ \A a \in Apps : \A i \in 1..Len(toApp'[a]) :
           \/ i \in 1..Len(toApp[a]) /\ toApp'[a][i] = toApp[a][i]
           \/ /\ a = b /\ i = Len(toApp[a]) + 1
              /\ toApp'[a][i] = d.msg /\ d.msg \in Requests
  <2>1. CASE toApp' = toApp
    BY <2>1, ChannelTypes
  <2>2. CASE d.msg \in Requests /\ toApp' = [toApp EXCEPT ![b] = Append(@, d.msg)]
    <3>1. toApp[b] \in Seq(Requests)
      BY DEF TypeOK
    <3>2. /\ toApp'[b] = Append(toApp[b], d.msg)
          /\ \A a \in Apps \ {b} : toApp'[a] = toApp[a]
      BY <2>2 DEF TypeOK
    <3> QED
      BY <2>2, <3>1, <3>2, LastAdded, ChannelTypes
  <2> QED
    BY <1>5, <2>1, <2>2
<1>8. ServerInv'
  <2> SUFFICES ASSUME NEW a \in Apps, NEW i \in 1..Len(toServer'[a])
               PROVE  /\ Gone(toServer[a][i].msg, a)'
                      /\ toServer'[a][i].msg \in Requests
                           => toServer'[a][i].msg \in pending \cup expired
                      /\ toServer'[a][i].token = a \/ a \in raced
                      /\ \A j \in 1..Len(toServer'[a]) :
                           toServer'[a][j].msg = toServer'[a][i].msg => j = i
                      /\ \A j \in 1..Len(toApp'[a]) : toApp'[a][j] # toServer'[a][i].msg
    BY <1>3 DEF ServerInv
  <2>1. CASE a # b
    <3>1. toApp'[a] = toApp[a]
      BY <1>5, <2>1 DEF TypeOK
    <3> QED
      BY <1>2, <1>3, <2>1, <3>1 DEF PlaceInv, ServerInv, Gone
  <2>2. CASE a = b
    <3>1. i + 1 # 1 /\ i + 1 \in 1..Len(toServer[b])
          /\ toServer'[b][i] = toServer[b][i + 1]
      BY <1>2, <2>2
    <3>2. toServer[b][i + 1].msg # d.msg
      BY <1>4, <3>1
    <3>3. \A j \in 1..Len(toServer'[b]) :
            toServer'[b][j].msg = toServer'[b][i].msg => j = i
      BY <1>2, <2>2, <3>1, ChannelTypes DEF PlaceInv, ServerInv
    <3>4. \A j \in 1..Len(toApp'[b]) : toApp'[b][j] # toServer'[b][i].msg
      BY <1>7, <3>1, <3>2 DEF PlaceInv, ServerInv
    <3>5. /\ Gone(toServer[a][i].msg, a)'
          /\ toServer'[a][i].msg \in Requests
               => toServer'[a][i].msg \in pending \cup expired
          /\ toServer'[a][i].token = a \/ a \in raced
      BY <1>3, <2>2, <3>1 DEF PlaceInv, ServerInv, Gone
    <3> QED
      BY <2>2, <3>3, <3>4, <3>5
  <2> QED
    BY <2>1, <2>2
<1>9. AppInv'
  <2> SUFFICES ASSUME NEW a \in Apps, NEW i \in 1..Len(toApp'[a])
               PROVE  /\ Gone(toApp[a][i], a)'
                      /\ toApp'[a][i] \in pending \cup expired
                      /\ \A j \in 1..Len(toApp'[a]) : toApp'[a][j] = toApp'[a][i] => j = i
    BY <1>3 DEF AppInv
  <2>1. Gone(toApp[a][i], a)' /\ toApp'[a][i] \in pending \cup expired
    BY <1>3, <1>4, <1>7 DEF PlaceInv, AppInv, Gone
  <2>2. ASSUME NEW j \in 1..Len(toApp'[a]), toApp'[a][j] = toApp'[a][i] PROVE j = i
    BY <1>4, <1>7, <2>2 DEF PlaceInv, AppInv
  <2> QED
    BY <2>1, <2>2
<1> QED
  BY <1>6, <1>8, <1>9 DEF PlaceInv

-----------------------------------------------------------------------------
(* The invariant holds at first. *)
LEMMA InvariantInit == Init => IInv
  BY KeyKinds, EmptySeq
     DEF Init, IInv, TypeOK, ThreadInv, RaceInv, BufferInv, Undisturbed, RefusedInv,
         PlaceInv, ServerInv, AppInv, RegisterInv, Registered, InGet, Keys, Messages

(* Every step of a thread, an app or a timer keeps it. *)
LEMMA InvariantStep == IInv /\ [Next]_vars => IInv'
<1> SUFFICES ASSUME IInv, [Next]_vars PROVE IInv'
  OBVIOUS
<1>1. TypeOK' /\ ThreadInv' /\ RaceInv' /\ BufferInv' /\ RegisterInv'
  BY TypeStep, ThreadStep, RaceStep, BufferStep, RegisterStep DEF IInv, PlaceInv
<1>2. ASSUME NEW b \in Apps, ReceiveString(b) PROVE PlaceInv' /\ RefusedInv'
  BY <1>2, PlaceString DEF IInv
<1>3. ASSUME UNCHANGED <<up, refused>> PROVE RefusedInv'
  BY <1>3, RaceStep DEF IInv, RefusedInv
<1>4. ASSUME NEW b \in Apps, ReceiveResponse(b) PROVE PlaceInv' /\ RefusedInv'
  BY <1>3, <1>4, PlaceResponse DEF IInv, ReceiveResponse, serverVars
<1>5. ASSUME NEW t \in Threads, Transmit(t) PROVE PlaceInv' /\ RefusedInv'
  BY <1>3, <1>5, PlaceTransmit DEF IInv, Transmit, serverVars
<1>6. ASSUME UNCHANGED <<toServer, toApp, up, refused>>,
             pending \cup expired \subseteq pending' \cup expired'
      PROVE  PlaceInv' /\ RefusedInv'
  BY <1>3, <1>6, PlaceKept DEF IInv
<1>7. ASSUME NEW t \in Threads, Thread(t), ~Transmit(t)
      PROVE  PlaceInv' /\ RefusedInv'
  BY <1>6, <1>7 DEF Thread, SendStep, GetConfig, SendMessage, FormatKey, FormatRest,
       Lookup, Register, requestVars, serverVars
<1>8. ASSUME NEW m \in Requests, Timeout(m) PROVE PlaceInv' /\ RefusedInv'
  BY <1>6, <1>8 DEF Timeout, serverVars
<1>9. ASSUME NEW n \in Names, NEW c \in Classes, RegisterHandler(n, c)
      PROVE  PlaceInv' /\ RefusedInv'
  BY <1>6, <1>9 DEF RegisterHandler, RegisterRequestHandler, RegisterNoticeHandler,
       requestVars
<1>10. ASSUME UNCHANGED vars PROVE PlaceInv' /\ RefusedInv'
  <2>1. /\ UNCHANGED <<toServer, toApp, up, refused>>
        /\ pending \cup expired \subseteq pending' \cup expired'
    BY <1>10 DEF vars, requestVars, serverVars
  <2> QED
    BY <1>6, <2>1
<1> QED
  BY <1>1, <1>2, <1>4, <1>5, <1>7, <1>8, <1>9, <1>10 DEF Next, IInv

(* The inductive invariant holds in every state that BaseApp can reach. *)
THEOREM InductiveInvariant == Spec => []IInv
  BY InvariantInit, InvariantStep, PTL DEF Spec

(* Every variable of the sending and the serving apps keeps its type. *)
THEOREM TypeCorrect == Spec => []TypeOK
<1>1. IInv => TypeOK
  BY DEF IInv
<1> QED
  BY <1>1, InductiveInvariant, PTL

(* A response on its way is for the app that sent the request, which still
   waits for it or has timed it out, however the lookups of tokens interleave. *)
THEOREM ComeHome == Spec => []ResponsesComeHome
<1>1. IInv => ResponsesComeHome
  <2> SUFFICES ASSUME IInv, NEW a \in Apps, NEW m \in ToSet(toApp[a])
               PROVE  Home[m] = a /\ m \in pending \cup expired
    BY DEF ResponsesComeHome
  <2>1. PICK i \in 1..Len(toApp[a]) : toApp[a][i] = m
    BY DEF ToSet, IInv, TypeOK
  <2> QED
    BY <2>1 DEF IInv, PlaceInv, AppInv, Gone
<1> QED
  BY <1>1, InductiveInvariant, PTL

(* The serving app refuses a message, or ends for one without a token, only
   when two threads of the sender raced for the key buffer. *)
THEOREM OnlyAfterRace == Spec => []WrongTokenOnlyAfterRace
<1>1. IInv => WrongTokenOnlyAfterRace
  <2> SUFFICES ASSUME IInv, NEW a \in Apps, NEW d \in ToSet(toServer[a])
               PROVE  d.token = a \/ a \in raced
    BY DEF WrongTokenOnlyAfterRace, IInv, RefusedInv
  <2>1. PICK i \in 1..Len(toServer[a]) : toServer[a][i] = d
    BY DEF ToSet, IInv, TypeOK
  <2> QED
    BY <2>1 DEF IInv, PlaceInv, ServerInv
<1> QED
  BY <1>1, InductiveInvariant, PTL

-----------------------------------------------------------------------------
(* How the counters of RequestLifecycle follow the sets of BaseApp. *)
LEMMA Counted ==
    ASSUME NEW S, NEW r \in Requests, r \notin S
    PROVE  Once(S \cup {r}) = Lifecycle!Bump(Once(S), r)
<1>1. \A x \in Requests : Once(S \cup {r})[x] = Lifecycle!Bump(Once(S), r)[x]
  BY DEF Once, Lifecycle!Bump
<1>2. Once(S \cup {r}) = [x \in Requests |-> Once(S \cup {r})[x]]
  BY DEF Once
<1>3. Lifecycle!Bump(Once(S), r) = [x \in Requests |-> Lifecycle!Bump(Once(S), r)[x]]
  BY DEF Once, Lifecycle!Bump
<1> QED
  BY <1>1, <1>2, <1>3

(* A step that registers no request and settles none is a stutter. *)
LEMMA LifecycleStutter == UNCHANGED requestVars => UNCHANGED Lifecycle!rlVars
  BY DEF requestVars, Lifecycle!rlVars, Once

(* Every step of BaseApp opens, answers or expires a request, or stutters. *)
LEMMA LifecycleStep == IInv /\ [Next]_vars => [Lifecycle!Next]_(Lifecycle!rlVars)
<1> SUFFICES ASSUME IInv, [Next]_vars PROVE [Lifecycle!Next]_(Lifecycle!rlVars)
  OBVIOUS
<1>1. ASSUME NEW t \in Threads, Register(t)
      PROVE  Lifecycle!Next \/ UNCHANGED requestVars
  <2>1. CASE msg[t] \in Requests
    <3>1. PICK r \in Requests : r = msg[t]
      BY <2>1
    <3>2. r \notin Registered
      BY <1>1, <3>1 DEF Register, IInv, RegisterInv
    <3>3. /\ pending' = pending \cup {r} /\ UNCHANGED <<answered, expired>>
          /\ pending' \cup answered' \cup expired' = Registered \cup {r}
      BY <1>1, <3>1 DEF Register, Registered
    <3>4. Once(pending' \cup answered' \cup expired') = Lifecycle!Bump(Once(Registered), r)
      BY <3>2, <3>3, Counted
    <3>5. Lifecycle!Open(r)
      BY <3>2, <3>3, <3>4 DEF Lifecycle!Open, Registered, Once
    <3> QED
      BY <3>5 DEF Lifecycle!Next
  <2>2. CASE msg[t] \notin Requests
    BY <1>1, <2>2 DEF Register, requestVars
  <2> QED
    BY <2>1, <2>2
<1>2. ASSUME NEW r \in Requests, Timeout(r) PROVE Lifecycle!Next
  <2>1. /\ r \in pending /\ r \notin expired
        /\ pending' = pending \ {r} /\ answered' = answered
        /\ expired' = expired \cup {r}
        /\ pending' \cup answered' \cup expired' = Registered
    BY <1>2 DEF Timeout, IInv, RegisterInv, Registered
  <2>2. Once(expired') = Lifecycle!Bump(Once(expired), r)
    BY <2>1, Counted
  <2>3. Lifecycle!Expire(r)
    BY <2>1, <2>2 DEF Lifecycle!Expire, Registered, Once
  <2> QED
    BY <2>3 DEF Lifecycle!Next
<1>3. ASSUME NEW a \in Apps, ReceiveResponse(a)
      PROVE  Lifecycle!Next \/ UNCHANGED requestVars
  <2>1. PICK r \in Requests : r = Head(toApp[a])
    BY <1>3, FirstTaken DEF ReceiveResponse, IInv, TypeOK
  <2>2. CASE r \in pending
    <3>1. /\ r \notin answered
          /\ pending' = pending \ {r} /\ expired' = expired
          /\ answered' = answered \cup {r}
          /\ pending' \cup answered' \cup expired' = Registered
      BY <1>3, <2>1, <2>2 DEF ReceiveResponse, IInv, RegisterInv, Registered
    <3>2. Once(answered') = Lifecycle!Bump(Once(answered), r)
      BY <3>1, Counted
    <3>3. Lifecycle!Answer(r)
      BY <2>2, <3>1, <3>2 DEF Lifecycle!Answer, Registered, Once
    <3> QED
      BY <3>3 DEF Lifecycle!Next
  <2>3. CASE r \notin pending
    BY <1>3, <2>1, <2>3 DEF ReceiveResponse, requestVars
  <2> QED
    BY <2>2, <2>3
<1>4. ASSUME NEW t \in Threads, Thread(t), ~Register(t) PROVE UNCHANGED requestVars
  BY <1>4 DEF Thread, SendStep, GetConfig, SendMessage, FormatKey, FormatRest,
       Lookup, Transmit
<1>5. ASSUME NEW a \in Apps, ReceiveString(a) PROVE UNCHANGED requestVars
  BY <1>5 DEF ReceiveString
<1>6. ASSUME NEW n \in Names, NEW c \in Classes, RegisterHandler(n, c)
      PROVE  UNCHANGED requestVars
  BY <1>6 DEF RegisterHandler, RegisterRequestHandler, RegisterNoticeHandler
<1>7. ASSUME UNCHANGED vars PROVE UNCHANGED requestVars
  BY <1>7 DEF vars
<1> QED
  BY <1>1, <1>2, <1>3, <1>4, <1>5, <1>6, <1>7, LifecycleStutter DEF Next

(* BaseApp implements RequestLifecycle: however long the way, a request is
   opened once, and answered or expired once. *)
THEOREM RequestsLive == Spec => ImplementsLifecycle
<1>1. Init => Lifecycle!Init
  BY DEF Init, Lifecycle!Init, Lifecycle!Zero, Once
<1> QED
  BY <1>1, InductiveInvariant, LifecycleStep, PTL
     DEF Spec, ImplementsLifecycle, Lifecycle!Spec
=============================================================================

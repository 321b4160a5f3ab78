--------------------------- MODULE MessageRefsProofs ---------------------------
(***************************************************************************)
(* Proofs about MessageRefs, for any number of threads, messages, objects  *)
(* and codes.                                                              *)
(*                                                                         *)
(* The first part is about the texts: a request's id and action and a      *)
(* response's body and code survive the four conversions between the two   *)
(* ends.  The second part is the invariant RInv: that of MessageManager,   *)
(* that whatever is under way for a message was sent (SentInv), and what   *)
(* the objects have to do with the manager's state (ObjectsInv).  It is    *)
(* proved action by action; the theorems stand at the end.                 *)
(***************************************************************************)
EXTENDS MessageRefs, MessageManagerProofs, SequenceTheorems

-----------------------------------------------------------------------------
(* The members of the head of a request and of a response. *)
LEMMA OwnMembers ==
    Own("request") = {"action", "id"} /\ Own("response") = {"action", "id", "code"}
  BY DEF Own

(* A text has the members of the object it was made of. *)
LEMMA TextOf ==
    ASSUME NEW m
    PROVE  /\ MessageToString(m).head = Pick(m, {"type", "token", "version"} \cup Own(m.type))
           /\ m.body # NoBody => MessageToString(m).body = m.body
  BY DEF MessageToString

(* The text of the request that is answered. *)
LEMMA RequestTextSays ==
    ASSUME NEW id
    PROVE  /\ RequestText(id).head.type = "request"
           /\ RequestText(id).head.id = id
           /\ RequestText(id).head.action = "get_base_info"
<1> DEFINE m == Over([token |-> "app", body |-> RequestBody],
                     NewRequest(id, [action |-> "get_base_info"]))
<1>1. m.type = "request" /\ m.id = id /\ m.action = "get_base_info"
  BY DEF NewRequest, Over, Base
<1> HIDE DEF m
<1>2. RequestText(id) = MessageToString(m)
  BY DEF RequestText, m
<1>3. MessageToString(m).head = Pick(m, {"type", "token", "version"} \cup {"action", "id"})
  BY <1>1, TextOf, OwnMembers
<1> QED
  BY <1>1, <1>2, <1>3 DEF Pick

(* The object of a request made out of a text. *)
LEMMA ParsedRequest ==
    ASSUME NEW text, NEW uuid, text.head.type = "request"
    PROVE  /\ Parse(text, uuid).id = text.head.id
           /\ Parse(text, uuid).action = text.head.action
<1> DEFINE given == Pick(text.head, {"action", "id"})
           outer == [token |-> text.head.token, version |-> text.head.version,
                     body |-> text.body]
<1>1. Parse(text, uuid) = Over(outer, NewRequest(uuid, given))
  <2>1. Pick(text.head, Own(text.head.type)) = given
    BY OwnMembers
  <2> HIDE DEF given, outer
  <2> QED
    BY <2>1 DEF Parse, outer
<1>2. given = [action |-> text.head.action, id |-> text.head.id]
  BY DEF Pick
<1> HIDE DEF given
<1> QED
  BY <1>1, <1>2 DEF NewRequest, Over, Base

(* That of a response. *)
LEMMA ParsedResponse ==
    ASSUME NEW text, NEW uuid, text.head.type = "response"
    PROVE  /\ Parse(text, uuid).type = "response"
           /\ Parse(text, uuid).id = text.head.id
           /\ Parse(text, uuid).action = text.head.action
           /\ Parse(text, uuid).code = text.head.code
           /\ Parse(text, uuid).body = text.body
<1> DEFINE given == Pick(text.head, {"action", "id", "code"})
           outer == [token |-> text.head.token, version |-> text.head.version,
                     body |-> text.body]
<1>1. Parse(text, uuid) = Over(outer, NewResponse(given))
  <2>1. Pick(text.head, Own(text.head.type)) = given
    BY OwnMembers
  <2> HIDE DEF given, outer
  <2> QED
    BY <2>1 DEF Parse, outer
<1>2. given = [action |-> text.head.action, id |-> text.head.id, code |-> text.head.code]
  BY DEF Pick
<1> HIDE DEF given
<1> QED
  BY <1>1, <1>2 DEF NewResponse, Over, Base

(* The text of the response to a request. *)
LEMMA ResponseTextSays ==
    ASSUME NEW text, NEW code, text.head.type = "request"
    PROVE  /\ ResponseText(text, code).head.type = "response"
           /\ ResponseText(text, code).head.id = text.head.id
           /\ ResponseText(text, code).head.action = text.head.action
           /\ ResponseText(text, code).head.code = code
           /\ ResponseText(text, code).body = ResponseBody
<1> DEFINE m == Over([token |-> "", body |-> ResponseBody],
                     ResponseTo(Parse(text, Uuid), code))
<1>1. /\ m.type = "response" /\ m.id = text.head.id /\ m.action = text.head.action
      /\ m.code = code /\ m.body = ResponseBody
  BY ParsedRequest DEF ResponseTo, NewResponse, Over, Base
<1> HIDE DEF m
<1>2. ResponseText(text, code) = MessageToString(m)
  BY DEF ResponseText, m
<1>3. MessageToString(m).head = Pick(m, {"type", "token", "version"} \cup {"action", "id", "code"})
  BY <1>1, TextOf, OwnMembers
<1>4. MessageToString(m).body = ResponseBody
  BY <1>1, TextOf, BodyAssumption
<1> QED
  BY <1>1, <1>2, <1>3, <1>4 DEF Pick

(* The texts that come back for a request, and what is read out of them: four
   conversions leave id, action, code and body as they were. *)
TextOfAnswer(id, code) == [json |-> ResponseText(RequestText(id), code), code |-> code]
Texts(id) == {TextOfAnswer(id, code) : code \in Codes}

(* What comes back for a request is read as a response to it. *)
LEMMA RoundTrip ==
    ASSUME NEW id, NEW answer \in Texts(id)
    PROVE  LET msg == Parse(answer.json, Uuid) IN
           /\ msg.type = "response" /\ msg.id = id
           /\ msg.action = "get_base_info" /\ msg.body = ResponseBody
           /\ HasError(msg) <=> answer.code # "0"
<1>1. PICK code \in Codes : answer = TextOfAnswer(id, code)
  BY DEF Texts
<1> DEFINE text == ResponseText(RequestText(id), code)
<1>2. answer.json = text /\ answer.code = code
  BY <1>1 DEF TextOfAnswer
<1>3. /\ text.head.type = "response" /\ text.head.id = id
      /\ text.head.action = "get_base_info" /\ text.head.code = code
      /\ text.body = ResponseBody
  BY RequestTextSays, ResponseTextSays
<1> HIDE DEF text
<1> QED
  BY <1>2, <1>3, ParsedResponse DEF HasError

-----------------------------------------------------------------------------
USE DEF Threads, Entry

(* What is on its way for a message, and what a waiting thread was given, was
   sent: this is about MessageManager alone. *)
Sending(id) == pc[Owner[id]] = "transmit" /\ req[Owner[id]] = id
Given(id) == \E t \in Clients : message[t] = id

SentInv ==
    /\ \A t \in Threads : pc[t] = "transmit" => req[t] \in Ids /\ Owner[req[t]] = t
    /\ \A id \in Ids :
          sends[id] >= requests[id] + inbox[id] + (IF Sending(id) THEN 1 ELSE 0)
                                                + (IF Given(id) THEN 1 ELSE 0)

(* No thread comes to send while a response is handed over. *)
LEMMA HandlingSendsNothing ==
    ASSUME TypeOK, NoDanglingWaiter, NEW id \in Ids, HandleLock(id)
    PROVE  \A t \in Threads : pc'[t] = "transmit" => pc[t] = "transmit"
<1>1. pc'[Service] # "transmit"
  BY HandleLockEffect
<1>2. \A t \in Clients : pc'[t] = "transmit" => pc[t] = "transmit"
  BY HandleLockEffect
<1> QED
  BY <1>1, <1>2

(* Only its owner sends a message; each request is answered at most once and
   each response handled once. *)
LEMMA SentStep ==
    ASSUME TypeOK, NoDanglingWaiter, SentInv, [Next]_vars
    PROVE  SentInv'
<1> USE ThreadsAssumption
    DEF TypeOK, PcClient, PcService, vars, hashVars, objVars, waitVars, serviceVars,
        netVars, history, Bump, Goto
<1>a. ASSUME UNCHANGED <<sends, requests, inbox, message>>,
             \A t \in Threads : pc'[t] = "transmit" =>
                                   pc[t] = "transmit" /\ req'[t] = req[t]
      PROVE  SentInv'
  <2>1. \A id \in Ids : (Sending(id)' => Sending(id)) /\ Given(id)' = Given(id)
    BY <1>a DEF Sending, Given
  <2> HIDE DEF Sending, Given
  <2> QED
    BY <1>a, <2>1 DEF SentInv
<1>1. CASE Tick
  BY <1>1, <1>a DEF Tick
<1>2. ASSUME NEW id \in Ids, Respond(id)
      PROVE  SentInv'
  <2>1. UNCHANGED <<sends, message, pc, req>>
    BY <1>2 DEF Respond
  <2>2. \A i \in Ids : Sending(i)' = Sending(i) /\ Given(i)' = Given(i)
    BY <2>1 DEF Sending, Given
  <2>3. /\ requests[id] > 0 /\ requests' = [requests EXCEPT ![id] = @ - 1]
        /\ inbox' = [inbox EXCEPT ![id] = @ + 1]
    BY <1>2 DEF Respond
  <2>4. \A i \in Ids : requests'[i] + inbox'[i] = requests[i] + inbox[i]
    BY <2>3
  <2> HIDE DEF Sending, Given
  <2> QED
    BY <2>1, <2>2, <2>3, <2>4 DEF SentInv
<1>3. ASSUME NEW t \in Threads, NEW id \in Ids, NEW d \in Timeouts, Register(t, id, d)
      PROVE  SentInv'
  <2>1. /\ UNCHANGED <<requests, inbox, message>> /\ Owner[id] = t /\ pc[t] = "idle"
        /\ sends' = [sends EXCEPT ![id] = @ + 1]
        /\ req' = [req EXCEPT ![t] = id] /\ pc' = [pc EXCEPT ![t] = "transmit"]
    BY <1>3 DEF Register
  <2>2. ASSUME NEW i \in Ids
        PROVE  /\ Given(i)' = Given(i)
               /\ i = id => ~Sending(i)
               /\ i # id => (Sending(i)' => Sending(i)) /\ sends'[i] = sends[i]
               /\ i = id => sends'[i] = sends[i] + 1
    BY <2>1 DEF Sending, Given
  <2>3. \A u \in Threads : pc'[u] = "transmit" => req'[u] \in Ids /\ Owner[req'[u]] = u
    BY <2>1 DEF SentInv
  <2> HIDE DEF Sending, Given
  <2>4. ASSUME NEW i \in Ids
        PROVE  sends'[i] >= requests[i] + inbox[i] + (IF Sending(i)' THEN 1 ELSE 0)
                                                  + (IF Given(i)' THEN 1 ELSE 0)
    BY <2>2 DEF SentInv
  <2> QED
    BY <2>1, <2>3, <2>4 DEF SentInv
<1>4. ASSUME NEW t \in Threads, Transmit(t)
      PROVE  SentInv'
  <2> DEFINE id == req[t]
  <2>1. /\ UNCHANGED <<sends, inbox, message>> /\ pc[t] = "transmit"
        /\ req' = [req EXCEPT ![t] = None] /\ pc' = [pc EXCEPT ![t] = "idle"]
        /\ id \in Ids /\ Owner[id] = t
    BY <1>4 DEF Transmit, SentInv
  <2>2. requests' = [requests EXCEPT ![id] = @ + 1] \/ requests' = requests
    BY <1>4 DEF Transmit
  <2>3. ASSUME NEW i \in Ids
        PROVE  /\ Given(i)' = Given(i)
               /\ i = id => Sending(i) /\ ~Sending(i)'
               /\ i # id => (Sending(i)' => Sending(i)) /\ requests'[i] = requests[i]
               /\ i = id => requests'[i] <= requests[i] + 1
               /\ requests'[i] \in Nat
    BY <2>1, <2>2 DEF Sending, Given
  <2>4. \A u \in Threads : pc'[u] = "transmit" => req'[u] \in Ids /\ Owner[req'[u]] = u
    BY <2>1 DEF SentInv
  <2> HIDE DEF Sending, Given, id
  <2>5. ASSUME NEW i \in Ids
        PROVE  sends[i] >= requests'[i] + inbox[i] + (IF Sending(i)' THEN 1 ELSE 0)
                                                   + (IF Given(i)' THEN 1 ELSE 0)
    BY <2>3 DEF SentInv
  <2> QED
    BY <2>1, <2>4, <2>5 DEF SentInv
<1>5. ASSUME NEW id \in Ids, HandleLock(id)
      PROVE  SentInv'
  <2>1. /\ UNCHANGED <<sends, requests, req>> /\ inbox[id] > 0
        /\ inbox' = [inbox EXCEPT ![id] = @ - 1]
    BY <1>5 DEF HandleLock
  <2>2. \A t \in Threads : pc'[t] = "transmit" => pc[t] = "transmit"
    BY <1>5, HandlingSendsNothing
  <2>3. \A t \in Clients : message'[t] \in {message[t], id}
    BY <1>5, HandleLockEffect
  <2>4. ASSUME NEW i \in Ids
        PROVE  /\ Sending(i)' => Sending(i)
               /\ i # id => (Given(i)' => Given(i)) /\ inbox'[i] = inbox[i]
               /\ i = id => inbox'[i] = inbox[i] - 1
    BY <2>1, <2>2, <2>3 DEF Sending, Given
  <2> HIDE DEF Sending, Given
  <2>5. ASSUME NEW i \in Ids
        PROVE  sends[i] >= requests[i] + inbox'[i] + (IF Sending(i)' THEN 1 ELSE 0)
                                                   + (IF Given(i)' THEN 1 ELSE 0)
    BY <2>4 DEF SentInv
  <2> QED
    BY <2>1, <2>2, <2>5 DEF SentInv
<1>6. CASE HandleCallback
  BY <1>6, <1>a DEF HandleCallback, AfterCallback
<1>7. CASE HandleEnd
  BY <1>7, <1>a DEF HandleEnd
<1>8. CASE ClearStart
  BY <1>8, <1>a DEF ClearStart
<1>9. CASE ClearLock
  BY <1>9, <1>a DEF ClearLock
<1>10. ASSUME NEW id \in Ids, ClearCallback(id)
       PROVE  SentInv'
  BY <1>10, <1>a DEF ClearCallback, AfterCallback
<1>11. CASE ClearEnd
  BY <1>11, <1>a DEF ClearEnd
<1>12. ASSUME NEW t \in Clients, NEW id \in Ids, WaitCall(t, id)
       PROVE  SentInv'
  BY <1>12, <1>a DEF WaitCall
<1>12b. ASSUME NEW t \in Clients, WaitLookup(t)
        PROVE  SentInv'
  <2>1. CASE waiter_hash[req[t]] = None
    BY <1>12b, <1>a, <2>1 DEF WaitLookup
  <2>2. CASE waiter_hash[req[t]] # None
    BY <1>12b, <1>a, <2>2 DEF WaitLookup
  <2> QED
    BY <2>1, <2>2
<1>13. ASSUME NEW t \in Clients, WaitEnter(t)
       PROVE  SentInv'
  BY <1>13, <1>a DEF WaitEnter
<1>14. ASSUME NEW t \in Clients, Spurious(t)
       PROVE  SentInv'
  BY <1>14, <1>a DEF Spurious
<1>15. ASSUME NEW t \in Clients, WaitTimeout(t)
       PROVE  SentInv'
  BY <1>15, <1>a DEF WaitTimeout
<1>16. ASSUME NEW t \in Clients, WaitLeave(t)
       PROVE  SentInv'
  BY <1>16, <1>a DEF WaitLeave
<1>17. ASSUME NEW t \in Clients, WaitReturn(t)
       PROVE  SentInv'
  <2>1. /\ UNCHANGED <<sends, requests, inbox>> /\ pc[t] = "return"
        /\ req' = [req EXCEPT ![t] = None] /\ pc' = [pc EXCEPT ![t] = "idle"]
        /\ message' = [message EXCEPT ![t] = None]
    BY <1>17 DEF WaitReturn
  <2>2. \A u \in Threads : pc'[u] = "transmit" =>
                              pc[u] = "transmit" /\ req'[u] = req[u]
    BY <2>1
  <2>3. \A u \in Clients : message'[u] \in {message[u], None}
    BY <2>1
  <2>4. ASSUME NEW i \in Ids
        PROVE  (Sending(i)' => Sending(i)) /\ (Given(i)' => Given(i))
    BY <2>2, <2>3, NoneAssumption DEF Sending, Given
  <2> HIDE DEF Sending, Given
  <2> QED
    BY <2>1, <2>2, <2>4 DEF SentInv
<1>18. ASSUME NEW t \in Threads, UseAfterFree(t)
       PROVE  SentInv'
  BY <1>18, <1>a DEF UseAfterFree
<1>19. CASE Dispose
  BY <1>19, <1>a DEF Dispose
<1>20. CASE UNCHANGED vars
  BY <1>20, <1>a
<1> QED
  BY <1>1, <1>2, <1>3, <1>4, <1>5, <1>6, <1>7, <1>8, <1>9, <1>10, <1>11, <1>12, <1>12b, <1>13, <1>14, <1>15, <1>16, <1>17, <1>18, <1>19, <1>20
     DEF Next, Step, SendStep, ServiceStep, WaitStep, Terminated

-----------------------------------------------------------------------------
(* The inductive invariant of the objects. *)

ObjectOf(id, code) == [msg |-> Parse(ResponseText(RequestText(id), code), Uuid),
                       code |-> code]

ObjectTypes ==
    /\ DOMAIN answers = Ids /\ DOMAIN object = Objects
    /\ held \in [Objects -> Nat]
    /\ handling \in Objects \cup {None}
    /\ slot \in [Clients -> Objects \cup {None}]
    /\ got \in [Clients -> Objects \cup {None}]
    /\ late \subseteq Clients

(* What comes in is what the server made of the requests. *)
TextsInv ==
    \A id \in Ids : answers[id] \in Seq(Texts(id)) /\ inbox[id] = Len(answers[id])

(* An object exists as long as there is a reference to it. *)
ObjectInv == \A o \in Objects : held[o] = 0 <=> object[o] = None

(* A waiter has an object when it was given its message. *)
SlotInv ==
    \A t \in Clients :
        /\ slot[t] # None <=> message[t] # None
        /\ message[t] # None => message[t] = req[t] /\ pc[t] \in {"woken", "return"}

(* A wait that is over failed because it was late or had no timeout. *)
LateInv ==
    \A t \in Clients :
        pc[t] \in {"woken", "return"} => ret[t] \/ ~timed[t] \/ t \in late

ObjectsInv ==
    /\ ObjectTypes /\ TextsInv /\ ObjectInv /\ SlotInv /\ LateInv
    /\ NoUseAfterFree /\ ResponseAnswersRequest

RInv == IInv /\ SentInv /\ ObjectsInv

-----------------------------------------------------------------------------
(* The first text that waits under an id, and what Receive makes of it. *)
LEMMA FirstAnswer ==
    ASSUME ObjectTypes, TextsInv, NEW id \in Ids, answers[id] # <<>>
    PROVE  /\ Parse(Head(answers[id]).json, Uuid).id = id
           /\ \E code \in Codes :
                 [msg |-> Parse(Head(answers[id]).json, Uuid),
                  code |-> Head(answers[id]).code] = ObjectOf(id, code)
<1>1. Head(answers[id]) \in Texts(id)
  BY HeadTailProperties DEF TextsInv
<1>2. Parse(Head(answers[id]).json, Uuid).id = id
  BY <1>1, RoundTrip
<1>3. PICK code \in Codes : Head(answers[id]) = TextOfAnswer(id, code)
  BY <1>1 DEF Texts
<1> QED
  BY <1>2, <1>3 DEF TextOfAnswer, ObjectOf

(* An object that holds such a response answers the request. *)
LEMMA ObjectAnswers ==
    ASSUME NEW id \in Ids, NEW code \in Codes
    PROVE  LET x == ObjectOf(id, code) IN
           /\ x # None
           /\ x.msg.type = "response" /\ x.msg.id = id
           /\ x.msg.action = "get_base_info" /\ x.msg.body = ResponseBody
           /\ HasError(x.msg) <=> x.code # "0"
<1>1. TextOfAnswer(id, code) \in Texts(id)
  BY DEF Texts
<1>2. /\ ObjectOf(id, code).msg = Parse(TextOfAnswer(id, code).json, Uuid)
      /\ ObjectOf(id, code).code = TextOfAnswer(id, code).code
  BY DEF ObjectOf, TextOfAnswer
<1>3. ObjectOf(id, code) # None
  BY NoObjectAssumption DEF ObjectOf
<1> QED
  BY <1>1, <1>2, <1>3, RoundTrip

(* A step of the app with its objects is one of the manager, or none: the id
   that Receive reads in a text is that of the inbox it came by. *)
LEMMA RefStepIsStep ==
    ASSUME RInv, [RefNext]_refVars
    PROVE  [Next]_vars
<1>1. ASSUME NEW id \in Ids, Receive(id) PROVE HandleLock(id)
  BY <1>1, FirstAnswer DEF RInv, ObjectsInv, Receive
<1>2. CASE table # "crashed" /\ OtherStep
  BY <1>2 DEF OtherStep, ServiceBegins, Threads, Next, Step, ServiceStep, WaitStep
<1>3. ASSUME NEW id \in Ids, table # "crashed", Answer(id) \/ Receive(id) PROVE Next
  BY <1>1, <1>3 DEF Answer, Next, Step, ServiceStep
<1>4. CASE DropMessage
  BY <1>4 DEF DropMessage
<1>5. ASSUME NEW t \in Clients, table # "crashed",
             NoteLate(t) \/ ReturnResponse(t) \/ CallerUnref(t)
      PROVE  [Next]_vars
  BY <1>5 DEF NoteLate, ReturnResponse, CallerUnref, Next, Step, WaitStep
<1>6. CASE Terminated
  BY <1>6 DEF Next
<1>7. CASE UNCHANGED refVars
  BY <1>7 DEF refVars
<1> QED
  BY <1>2, <1>3, <1>4, <1>5, <1>6, <1>7 DEF RefNext, RefStep

-----------------------------------------------------------------------------
(* Who holds an object. *)
SlotsOf(o) == {t \in Clients : slot[t] = o}
GotBy(o) == {t \in Clients : got[t] = o}

(* The holders of an object, as three finite counts. *)
LEMMA HoldersParts ==
    ASSUME NEW o
    PROVE  /\ IsFiniteSet(SlotsOf(o)) /\ Cardinality(SlotsOf(o)) \in Nat
           /\ IsFiniteSet(GotBy(o)) /\ Cardinality(GotBy(o)) \in Nat
           /\ Holders(o) = (IF handling = o THEN 1 ELSE 0)
                              + Cardinality(SlotsOf(o)) + Cardinality(GotBy(o))
           /\ Holders(o) \in Nat
<1>1. IsFiniteSet(SlotsOf(o)) /\ IsFiniteSet(GotBy(o))
  BY ThreadsAssumption, FS_Subset DEF SlotsOf, GotBy
<1>2. Cardinality(SlotsOf(o)) \in Nat /\ Cardinality(GotBy(o)) \in Nat
  BY <1>1, FS_CardinalityType
<1>3. Holders(o) = (IF handling = o THEN 1 ELSE 0)
                      + Cardinality(SlotsOf(o)) + Cardinality(GotBy(o))
  BY DEF Holders, SlotsOf, GotBy
<1> QED
  BY <1>1, <1>2, <1>3

(* An object nobody refers to is held by nobody; one that somebody holds has
   references. *)
LEMMA UnusedIsFree ==
    ASSUME ObjectTypes, NoUseAfterFree, NEW o \in Objects
    PROVE  /\ held[o] = 0 => /\ handling # o /\ SlotsOf(o) = {} /\ GotBy(o) = {}
                             /\ \A t \in Clients : slot[t] # o /\ got[t] # o
           /\ handling = o \/ SlotsOf(o) # {} \/ GotBy(o) # {} => held[o] >= 1
<1>1. /\ Cardinality(SlotsOf(o)) = 0 <=> SlotsOf(o) = {}
      /\ Cardinality(GotBy(o)) = 0 <=> GotBy(o) = {}
  BY HoldersParts, FS_EmptySet
<1>2. held[o] \in Nat /\ held[o] >= Holders(o)
  BY DEF ObjectTypes, NoUseAfterFree
<1>3. held[o] = 0 => handling # o /\ SlotsOf(o) = {} /\ GotBy(o) = {}
  BY <1>1, <1>2, HoldersParts
<1> QED
  BY <1>2, <1>3 DEF SlotsOf, GotBy

-----------------------------------------------------------------------------
(* Steps that change no object. *)

WaitOver(t) == pc[t] \in {"woken", "return"}

(* What such a step is made of. *)
LEMMA OtherCases ==
    OtherStep =>
        \/ Tick \/ HandleCallback \/ HandleEnd \/ ClearStart \/ ClearLock \/ ClearEnd
        \/ Dispose
        \/ \E id \in Ids : ClearCallback(id)
        \/ \E u \in Threads : SendStep(u) \/ UseAfterFree(u)
        \/ \E u \in Clients : \/ \E id \in Ids : WaitCall(u, id)
                              \/ WaitLookup(u) \/ WaitEnter(u)
                              \/ Spurious(u) \/ WaitLeave(u)
  BY DEF OtherStep, ServiceBegins, Threads

(* No response is taken in or handed over by them; one may be done with. *)
LEMMA OtherKeeps == OtherStep => UNCHANGED <<inbox, message>> /\ job' \in {job, None}
<1> USE DEF waitVars, serviceVars, netVars
<1>1. ASSUME NEW u \in Threads, SendStep(u) \/ UseAfterFree(u)
      PROVE  UNCHANGED <<inbox, message, job>>
  BY <1>1 DEF SendStep, Register, Transmit, UseAfterFree
<1>2. ASSUME NEW u \in Clients,
             \/ \E id \in Ids : WaitCall(u, id)
             \/ WaitLookup(u) \/ WaitEnter(u) \/ Spurious(u) \/ WaitLeave(u)
      PROVE  UNCHANGED <<inbox, message, job>>
  BY <1>2 DEF WaitCall, WaitLookup, WaitEnter, Spurious, WaitLeave
<1>3. CASE HandleEnd
  BY <1>3 DEF HandleEnd
<1> QED
  BY <1>1, <1>2, <1>3, OtherCases DEF Tick, HandleCallback, ClearStart, ClearLock,
       ClearCallback, ClearEnd, Dispose

(* What the steps of the manager that concern no object do to a wait that is
   over, and when one of them ends a wait. *)
LEMMA OtherEffect ==
    ASSUME TypeOK, NoDanglingWaiter, OtherStep, NEW t \in Clients
    PROVE  /\ WaitOver(t) => WaitOver(t)' /\ req'[t] = req[t]
           /\ WaitOver(t)' =>
                \/ ret'[t]
                \/ ~timed'[t]
                \/ WaitOver(t) /\ ret'[t] = ret[t] /\ timed'[t] = timed[t]
<1> USE ThreadsAssumption
    DEF TypeOK, PcClient, PcService, vars, hashVars, objVars, waitVars, serviceVars,
        netVars, history, Bump, Goto, WaitOver
<1> DEFINE Goal ==
             /\ WaitOver(t) => WaitOver(t)' /\ req'[t] = req[t]
             /\ WaitOver(t)' =>
                  \/ ret'[t]
                  \/ ~timed'[t]
                  \/ WaitOver(t) /\ ret'[t] = ret[t] /\ timed'[t] = timed[t]
<1> SUFFICES Goal
  OBVIOUS
<1>1. CASE Tick
  BY <1>1 DEF Tick
<1>2. ASSUME NEW u \in Threads, SendStep(u) PROVE Goal
  <2>1. ASSUME NEW id \in Ids, NEW d \in Timeouts, Register(u, id, d) PROVE Goal
    BY <2>1 DEF Register
  <2>2. CASE Transmit(u)
    BY <2>2 DEF Transmit
  <2> QED
    BY <1>2, <2>1, <2>2 DEF SendStep
<1>3. CASE HandleCallback
  BY <1>3 DEF HandleCallback, AfterCallback
<1>3b. CASE HandleEnd
  BY <1>3b DEF HandleEnd
<1>4. CASE ClearStart
  BY <1>4 DEF ClearStart
<1>5. CASE ClearLock
  BY <1>5 DEF ClearLock
<1>6. ASSUME NEW id \in Ids, ClearCallback(id) PROVE Goal
  BY <1>6 DEF ClearCallback, AfterCallback
<1>7. CASE ClearEnd
  BY <1>7 DEF ClearEnd
<1>8. ASSUME NEW u \in Clients, NEW id \in Ids, WaitCall(u, id) PROVE Goal
  BY <1>8 DEF WaitCall
<1>8b. ASSUME NEW u \in Clients, WaitLookup(u) PROVE Goal
  <2>1. CASE waiter_hash[req[u]] = None
    BY <1>8b, <2>1 DEF WaitLookup
  <2>2. CASE waiter_hash[req[u]] # None
    BY <1>8b, <2>2 DEF WaitLookup
  <2> QED
    BY <2>1, <2>2
<1>9. ASSUME NEW u \in Clients, WaitEnter(u) PROVE Goal
  BY <1>9 DEF WaitEnter
<1>10. ASSUME NEW u \in Clients, Spurious(u) PROVE Goal
  BY <1>10 DEF Spurious
<1>11. ASSUME NEW u \in Clients, WaitLeave(u) PROVE Goal
  BY <1>11 DEF WaitLeave
<1>12. ASSUME NEW u \in Threads, UseAfterFree(u) PROVE Goal
  BY <1>12 DEF UseAfterFree
<1>13. CASE Dispose
  BY <1>13 DEF Dispose
<1> HIDE DEF Goal, TypeOK, WaitOver, Goto, Bump
<1> QED
  BY <1>1, <1>2, <1>3, <1>3b, <1>4, <1>5, <1>6, <1>7, <1>8, <1>8b, <1>9, <1>10, <1>11,
     <1>12, <1>13, OtherCases

(* When objects and what comes in stay as they are, so does what is said of
   them, as long as waits that are over stay over. *)
LEMMA ObjectsKept ==
    ASSUME ObjectsInv, UNCHANGED <<inbox, message>>, job' \in {job, None},
           UNCHANGED objectVars,
           \A t \in Clients : WaitOver(t) => WaitOver(t)' /\ req'[t] = req[t]
    PROVE  /\ ObjectTypes' /\ TextsInv' /\ ObjectInv' /\ SlotInv'
           /\ NoUseAfterFree' /\ ResponseAnswersRequest'
<1>1. UNCHANGED <<answers, object, held, handling, slot, got, late>>
  BY DEF objectVars
<1>2. ObjectTypes' /\ TextsInv' /\ ObjectInv'
  BY <1>1 DEF ObjectsInv, ObjectTypes, TextsInv, ObjectInv
<1>3. SlotInv'
  BY <1>1 DEF ObjectsInv, SlotInv, WaitOver
<1>4. NoUseAfterFree'
  BY <1>1 DEF ObjectsInv, NoUseAfterFree, Holders
<1>5. ResponseAnswersRequest'
  <2>1. ASSUME NEW t \in Clients, slot[t] # None PROVE req'[t] = req[t]
    BY <2>1 DEF ObjectsInv, SlotInv, WaitOver
  <2> QED
    BY <1>1, <2>1 DEF ObjectsInv, ResponseAnswersRequest, AnswersTo
<1> QED
  BY <1>2, <1>3, <1>4, <1>5

(* So the steps of the manager that concern no object keep the invariant. *)
LEMMA OtherObjects ==
    ASSUME RInv, OtherStep, UNCHANGED objectVars
    PROVE  ObjectsInv'
<1>1. UNCHANGED <<inbox, message>> /\ job' \in {job, None}
  BY OtherKeeps
<1>2. \A t \in Clients :
        /\ WaitOver(t) => WaitOver(t)' /\ req'[t] = req[t]
        /\ WaitOver(t)' =>
             \/ ret'[t]
             \/ ~timed'[t]
             \/ WaitOver(t) /\ ret'[t] = ret[t] /\ timed'[t] = timed[t]
  BY OtherEffect DEF RInv, IInv
<1>3. LateInv'
  BY <1>2 DEF RInv, ObjectsInv, LateInv, WaitOver, objectVars
<1> QED
  BY <1>1, <1>2, <1>3, ObjectsKept DEF RInv, ObjectsInv

(* A text that comes back waits behind those that are there. *)
LEMMA AnswerObjects ==
    ASSUME RInv, NEW id \in Ids, Answer(id)
    PROVE  ObjectsInv'
<1>1. /\ UNCHANGED <<message, job, req, pc, ret, timed>>
      /\ UNCHANGED <<object, held, handling, slot, got, late>>
      /\ inbox' = [inbox EXCEPT ![id] = @ + 1]
  BY DEF Answer, Respond, waitVars, serviceVars, Bump
<1>2. PICK code \in Codes :
        answers' = [answers EXCEPT ![id] = Append(@, TextOfAnswer(id, code))]
  BY DEF Answer, TextOfAnswer
<1>3. TextOfAnswer(id, code) \in Texts(id)
  BY DEF Texts
<1>4. /\ Append(answers[id], TextOfAnswer(id, code)) \in Seq(Texts(id))
      /\ Len(Append(answers[id], TextOfAnswer(id, code))) = Len(answers[id]) + 1
  BY <1>3, AppendProperties DEF RInv, ObjectsInv, TextsInv
<1>5. /\ \A i \in Ids : inbox'[i] = IF i = id THEN inbox[i] + 1 ELSE inbox[i]
      /\ DOMAIN answers' = Ids
      /\ \A i \in Ids : answers'[i] = IF i = id
                          THEN Append(answers[id], TextOfAnswer(id, code)) ELSE answers[i]
  BY <1>1, <1>2 DEF RInv, IInv, TypeOK, ObjectsInv, ObjectTypes
<1>6. TextsInv'
  BY <1>4, <1>5 DEF RInv, ObjectsInv, TextsInv
<1>7. ObjectTypes' /\ ObjectInv'
  BY <1>1, <1>5 DEF RInv, ObjectsInv, ObjectTypes, ObjectInv
<1>8. SlotInv' /\ LateInv' /\ NoUseAfterFree'
  BY <1>1 DEF RInv, ObjectsInv, SlotInv, LateInv, NoUseAfterFree, Holders
<1>9. ResponseAnswersRequest'
  BY <1>1 DEF RInv, ObjectsInv, ResponseAnswersRequest, AnswersTo
<1> QED
  BY <1>6, <1>7, <1>8, <1>9 DEF ObjectsInv

(* A wait whose timeout passes is noted. *)
LEMMA LateObjects ==
    ASSUME RInv, NEW t \in Clients, NoteLate(t)
    PROVE  ObjectsInv'
<1>1. /\ UNCHANGED <<inbox, message, job, req, ret, timed>>
      /\ UNCHANGED <<answers, object, held, handling, slot, got>>
      /\ pc[t] = "waiting" /\ pc' = [pc EXCEPT ![t] = "woken"]
      /\ late' = late \cup {t}
  BY DEF NoteLate, WaitTimeout, waitVars, serviceVars, netVars, Goto
<1>2. \A u \in Clients : pc'[u] = IF u = t THEN "woken" ELSE pc[u]
  BY <1>1 DEF RInv, IInv, TypeOK
<1>3. ObjectTypes' /\ TextsInv' /\ ObjectInv'
  BY <1>1 DEF RInv, ObjectsInv, ObjectTypes, TextsInv, ObjectInv
<1>4. SlotInv' /\ LateInv'
  BY <1>1, <1>2 DEF RInv, ObjectsInv, SlotInv, LateInv
<1>5. NoUseAfterFree' /\ ResponseAnswersRequest'
  BY <1>1 DEF RInv, ObjectsInv, NoUseAfterFree, Holders, ResponseAnswersRequest, AnswersTo
<1> QED
  BY <1>3, <1>4, <1>5 DEF ObjectsInv

-----------------------------------------------------------------------------
(* A response is received. *)

(* It becomes an object that nobody has, with a reference for the service thread
   and one for the waiter. *)
LEMMA ReceiveEffect ==
    ASSUME RInv, NEW id \in Ids, Receive(id)
    PROVE  \E o \in Objects, code \in Codes :
             LET w == waiter_hash[id] IN
             /\ held[o] = 0
             /\ held' = [held EXCEPT ![o] = RefsAfterLock(w)]
             /\ object' = [object EXCEPT ![o] = ObjectOf(id, code)]
             /\ handling' = o
             /\ slot' = Stored(w, o)
<1> DEFINE answer == Head(answers[id])
           msg == Parse(answer.json, Uuid)
           o == CHOOSE p \in Unused : TRUE
<1>1. o \in Objects /\ held[o] = 0
  BY DEF Receive, Unused
<1>2. PICK code \in Codes :
        msg.id = id /\ [msg |-> msg, code |-> answer.code] = ObjectOf(id, code)
  BY FirstAnswer DEF RInv, ObjectsInv, Receive
<1>3. /\ held' = [held EXCEPT ![o] = RefsAfterLock(waiter_hash[msg.id])]
      /\ object' = [object EXCEPT ![o] = [msg |-> msg, code |-> answer.code]]
      /\ handling' = o
      /\ slot' = Stored(waiter_hash[msg.id], o)
  BY DEF Receive
<1> HIDE DEF answer, msg, o
<1> QED
  BY <1>1, <1>2, <1>3

(* The new object has as many holders as references, and another one is held
   by whom it was, except the waiter that is given the new one. *)
LEMMA ReceiveHolders ==
    ASSUME RInv, NEW id \in Ids, Receive(id), NEW o \in Objects, held[o] = 0,
           handling' = o, slot' = Stored(waiter_hash[id], o)
    PROVE  /\ Holders(o)' = RefsAfterLock(waiter_hash[id])
           /\ \A p \in Objects \ {o} :
                 /\ Holders(p)' <= Holders(p)
                 /\ \/ Holders(p)' = Holders(p)
                    \/ waiter_hash[id] \in Clients /\ slot[waiter_hash[id]] = p
<1> DEFINE w == waiter_hash[id]
<1>1. /\ UNCHANGED got /\ ObjectTypes /\ NoUseAfterFree /\ w \in Clients \cup {None}
      /\ None \notin Clients /\ None \notin Objects
  BY NoneAssumption, NoObjectAssumption DEF RInv, IInv, TypeOK, ObjectsInv, Receive
<1>2. handling # o /\ SlotsOf(o) = {} /\ GotBy(o) = {}
  BY <1>1, UnusedIsFree
<1>3. \A p : GotBy(p)' = GotBy(p)
  BY <1>1 DEF GotBy
<1>4. handling = None
  BY DEF Receive
<1>5. \A t \in Clients : slot'[t] = IF t = w THEN o ELSE slot[t]
  BY <1>1 DEF Stored, ObjectTypes
<1>6. SlotsOf(o)' = IF w = None THEN {} ELSE {w}
  BY <1>1, <1>2, <1>5 DEF SlotsOf
<1>7. \A p \in Objects \ {o} : SlotsOf(p)' = SlotsOf(p) \ {w}
  BY <1>5 DEF SlotsOf
<1> HIDE DEF w
<1>8. \A p : Holders(p)' = (IF handling' = p THEN 1 ELSE 0)
                              + Cardinality(SlotsOf(p)') + Cardinality(GotBy(p)')
  BY DEF Holders, SlotsOf, GotBy
<1>9. Holders(o)' = RefsAfterLock(w)
  <2>1. Cardinality({}) = 0 /\ Cardinality({w}) = 1
    BY FS_EmptySet, FS_Singleton
  <2>2. Holders(o)' = 1 + (IF w = None THEN Cardinality({}) ELSE Cardinality({w}))
                         + Cardinality({})
    BY <1>2, <1>3, <1>6, <1>8
  <2> QED
    BY <2>1, <2>2 DEF RefsAfterLock
<1>10. ASSUME NEW p \in Objects \ {o}
       PROVE  /\ Holders(p)' <= Holders(p)
              /\ \/ Holders(p)' = Holders(p)
                 \/ w \in Clients /\ slot[w] = p
  <2>1. handling' # p /\ handling # p
    BY <1>1, <1>4
  <2>2. Holders(p)' = Cardinality(SlotsOf(p) \ {w}) + Cardinality(GotBy(p))
    <3>1. Holders(p)' = 0 + Cardinality(SlotsOf(p) \ {w}) + Cardinality(GotBy(p))
      BY <1>3, <1>7, <1>8, <2>1
    <3>2. IsFiniteSet(SlotsOf(p) \ {w})
      <4>1. IsFiniteSet(SlotsOf(p)) /\ SlotsOf(p) \ {w} \in SUBSET SlotsOf(p)
        BY HoldersParts
      <4> QED
        BY <4>1, FS_Subset
    <3> QED
      BY <3>1, <3>2, FS_CardinalityType, HoldersParts
  <2>3. Holders(p) = Cardinality(SlotsOf(p)) + Cardinality(GotBy(p))
    BY <2>1, HoldersParts
  <2>4. CASE w \in SlotsOf(p)
    <3>1. w \in Clients /\ slot[w] = p
      BY <2>4 DEF SlotsOf
    <3>2. Cardinality(SlotsOf(p) \ {w}) = Cardinality(SlotsOf(p)) - 1
      BY <2>4, HoldersParts, FS_RemoveElement
    <3> QED
      BY <2>2, <2>3, <3>1, <3>2, HoldersParts
  <2>5. CASE w \notin SlotsOf(p)
    <3>1. SlotsOf(p) \ {w} = SlotsOf(p)
      BY <2>5
    <3>2. Cardinality(SlotsOf(p) \ {w}) = Cardinality(SlotsOf(p))
      BY <3>1
    <3> QED
      BY <2>2, <2>3, <3>2, HoldersParts
  <2> QED
    BY <2>4, <2>5
<1> QED
  BY <1>9, <1>10 DEF w

(* Handing a response over keeps what is said of the objects. *)
LEMMA ReceiveObjects ==
    ASSUME RInv, NEW id \in Ids, Receive(id)
    PROVE  ObjectsInv'
<1> DEFINE w == waiter_hash[id]
           n == RefsAfterLock(w)
<1>1. PICK o \in Objects, code \in Codes :
        /\ held[o] = 0
        /\ held' = [held EXCEPT ![o] = n]
        /\ object' = [object EXCEPT ![o] = ObjectOf(id, code)]
        /\ handling' = o
        /\ slot' = Stored(w, o)
  BY ReceiveEffect
<1>2. /\ HandleLock(id) /\ answers[id] # <<>> /\ UNCHANGED <<got, late>>
      /\ answers' = [answers EXCEPT ![id] = Tail(@)]
  BY FirstAnswer DEF RInv, ObjectsInv, Receive
<1>3. /\ TypeOK /\ NoDanglingWaiter /\ ServiceInv
      /\ ObjectTypes /\ TextsInv /\ ObjectInv /\ SlotInv /\ LateInv
      /\ NoUseAfterFree /\ ResponseAnswersRequest
  BY DEF RInv, IInv, ObjectsInv
<1>4. /\ UNCHANGED <<req, timed>> /\ inbox' = [inbox EXCEPT ![id] = @ - 1]
      /\ inbox[id] > 0 /\ pc[Service] = "idle" /\ job = None
      /\ job' = IF Pending(id) THEN id ELSE None
  BY <1>2, <1>3 DEF HandleLock, ServiceInv
<1>5. /\ w \in Clients \cup {None} /\ None \notin Clients /\ None \notin Objects
      /\ None \notin Ids
      /\ w # None => pc[w] \in {"waiting", "woken"} /\ req[w] = id
  BY <1>3, NoneAssumption, NoObjectAssumption DEF TypeOK, NoDanglingWaiter
<1>6. /\ n \in Nat /\ n # 0
      /\ \A p \in Objects : held'[p] = IF p = o THEN n ELSE held[p]
      /\ \A p \in Objects : p # o => object'[p] = object[p]
      /\ object'[o] = ObjectOf(id, code)
      /\ DOMAIN object' = Objects /\ held' \in [Objects -> Nat]
  <2>1. n \in Nat /\ n # 0
    BY DEF RefsAfterLock
  <2> HIDE DEF n
  <2> QED
    BY <1>1, <1>3, <2>1 DEF ObjectTypes
<1>7. \A t \in Clients : slot'[t] = IF t = w THEN o ELSE slot[t]
  BY <1>1, <1>3, <1>5 DEF Stored, ObjectTypes
<1>8. slot' \in [Clients -> Objects \cup {None}]
  BY <1>1, <1>3, <1>5 DEF Stored, ObjectTypes
<1>9. \A t \in Clients : slot[t] # o /\ got[t] # o
  BY <1>1, <1>3, UnusedIsFree
<1>10. \A t \in Clients :
        /\ message'[t] = IF w = t THEN id ELSE message[t]
        /\ pc'[t] = IF pc[t] = "waiting" /\ w = t THEN "woken" ELSE pc[t]
  BY <1>2, <1>3, HandleLockEffect
<1>11. \A t \in Clients :
        ret'[t] = IF w = t /\ pc[t] = "waiting" THEN timed[t] ELSE ret[t]
  BY <1>2, <1>3, <1>5 DEF HandleLock, Deliver, TypeOK
<1> HIDE DEF n, w
<1>12. ObjectTypes'
  BY <1>1, <1>2, <1>3, <1>6, <1>8 DEF ObjectTypes
<1>13. TextsInv'
  <2>1. Tail(answers[id]) \in Seq(Texts(id)) /\ Len(Tail(answers[id])) = Len(answers[id]) - 1
    BY <1>2, <1>3, HeadTailProperties DEF TextsInv
  <2>2. \A i \in Ids : /\ inbox'[i] = IF i = id THEN inbox[i] - 1 ELSE inbox[i]
                       /\ answers'[i] = IF i = id THEN Tail(answers[id]) ELSE answers[i]
    BY <1>2, <1>3, <1>4 DEF TypeOK, ObjectTypes
  <2> QED
    BY <1>3, <2>1, <2>2 DEF TextsInv
<1>14. ObjectInv'
  <2>1. ASSUME NEW p \in Objects PROVE held'[p] = 0 <=> object'[p] = None
    <3>1. CASE p # o
      BY <1>3, <1>6, <3>1 DEF ObjectInv
    <3>2. CASE p = o
      BY <1>6, <3>2, ObjectAnswers
    <3> QED
      BY <3>1, <3>2
  <2> QED
    BY <2>1 DEF ObjectInv
<1>16. SlotInv'
  <2>1. ASSUME NEW t \in Clients
        PROVE  /\ slot'[t] # None <=> message'[t] # None
               /\ message'[t] # None =>
                     message'[t] = req'[t] /\ pc'[t] \in {"woken", "return"}
    <3>1. CASE t = w
      BY <1>4, <1>5, <1>7, <1>10, <3>1
    <3>2. CASE t # w
      BY <1>3, <1>4, <1>7, <1>10, <3>2 DEF SlotInv
    <3> QED
      BY <3>1, <3>2
  <2> QED
    BY <2>1 DEF SlotInv
<1>17. LateInv'
  <2>1. ASSUME NEW t \in Clients, pc'[t] \in {"woken", "return"}
        PROVE  ret'[t] \/ ~timed'[t] \/ t \in late'
    <3>1. CASE pc[t] = "waiting" /\ w = t
      BY <1>4, <1>11, <3>1
    <3>2. CASE ~(pc[t] = "waiting" /\ w = t)
      <4>1. pc'[t] = pc[t] /\ ret'[t] = ret[t]
        BY <1>10, <1>11, <3>2
      <4> QED
        BY <1>2, <1>3, <1>4, <2>1, <4>1 DEF LateInv
    <3> QED
      BY <3>1, <3>2
  <2> QED
    BY <2>1 DEF LateInv
<1>18. NoUseAfterFree'
  <2>1. Holders(o)' = n
    BY <1>1, ReceiveHolders DEF n, w
  <2>2. \A p \in Objects \ {o} : Holders(p)' <= Holders(p)
    BY <1>1, ReceiveHolders DEF w
  <2>3. ASSUME NEW p \in Objects \ {o} PROVE held'[p] >= Holders(p)'
    <3>1. Holders(p)' \in Nat /\ Holders(p) \in Nat /\ held[p] \in Nat
      <4>1. IsFiniteSet(SlotsOf(p)') /\ IsFiniteSet(GotBy(p)')
        BY ThreadsAssumption, FS_Subset DEF SlotsOf, GotBy
      <4>2. Cardinality(SlotsOf(p)') \in Nat /\ Cardinality(GotBy(p)') \in Nat
        BY <4>1, FS_CardinalityType
      <4>3. Holders(p)' = (IF handling' = p THEN 1 ELSE 0)
                             + Cardinality(SlotsOf(p)') + Cardinality(GotBy(p)')
        BY DEF Holders, SlotsOf, GotBy
      <4> QED
        BY <1>3, <4>2, <4>3, HoldersParts DEF ObjectTypes
    <3> QED
      BY <1>3, <1>6, <2>2, <3>1 DEF NoUseAfterFree
  <2> QED
    BY <1>6, <2>1, <2>3 DEF NoUseAfterFree
<1>19. ResponseAnswersRequest'
  <2>1. AnswersTo(o, id)'
    BY <1>6, ObjectAnswers DEF AnswersTo
  <2>2. ASSUME NEW p \in Objects, p # o, NEW i, AnswersTo(p, i) PROVE AnswersTo(p, i)'
    BY <1>6, <2>2 DEF AnswersTo
  <2>3. /\ handling' # None /\ AnswersTo(handling, id)'
        /\ job' # None => AnswersTo(handling, job)'
    <3>1. handling' = o /\ handling' # None /\ job' # None => job' = id
      BY <1>1, <1>4, <1>5
    <3> QED
      BY <1>1, <1>4, <1>5, <2>1 DEF AnswersTo
  <2>4. ASSUME NEW t \in Clients, slot'[t] # None PROVE AnswersTo(slot[t], req[t])'
    <3>1. CASE t = w
      <4>1. slot'[t] = o /\ req'[t] = id
        BY <1>4, <1>5, <1>6, <1>7, <3>1
      <4> QED
        BY <2>1, <4>1 DEF AnswersTo
    <3>2. CASE t # w
      <4>1. slot'[t] = slot[t] /\ req'[t] = req[t] /\ slot[t] # o /\ slot[t] \in Objects
        BY <1>3, <1>4, <1>7, <1>9, <2>4, <3>2 DEF ObjectTypes
      <4>2. AnswersTo(slot[t], req[t])
        BY <1>3, <2>4, <4>1 DEF ResponseAnswersRequest
      <4>3. object'[slot'[t]] = object[slot[t]]
        BY <1>6, <4>1
      <4> QED
        BY <4>1, <4>2, <4>3 DEF AnswersTo
    <3> QED
      BY <3>1, <3>2
  <2>5. ASSUME NEW t \in Clients, got'[t] # None
        PROVE  \E i \in Ids : AnswersTo(got[t], i)'
    <3>1. got'[t] = got[t] /\ got[t] \in Objects /\ got[t] # o
      BY <1>2, <1>3, <1>9, <2>5 DEF ObjectTypes
    <3>2. PICK i \in Ids : AnswersTo(got[t], i)
      BY <1>3, <2>5, <3>1 DEF ResponseAnswersRequest
    <3>3. object'[got'[t]] = object[got[t]]
      BY <1>6, <3>1
    <3> QED
      BY <3>2, <3>3 DEF AnswersTo
  <2> QED
    BY <2>3, <2>4, <2>5 DEF ResponseAnswersRequest
<1> QED
  BY <1>12, <1>13, <1>14, <1>16, <1>17, <1>18, <1>19 DEF ObjectsInv

-----------------------------------------------------------------------------
(* References are dropped and passed on. *)

(* The holders of an object after a step. *)
LEMMA HoldersAfter ==
    ASSUME NEW p
    PROVE  /\ IsFiniteSet(SlotsOf(p)') /\ Cardinality(SlotsOf(p)') \in Nat
           /\ IsFiniteSet(GotBy(p)') /\ Cardinality(GotBy(p)') \in Nat
           /\ Holders(p)' = (IF handling' = p THEN 1 ELSE 0)
                               + Cardinality(SlotsOf(p)') + Cardinality(GotBy(p)')
           /\ Holders(p)' \in Nat
           /\ handling' = p \/ (\E t \in Clients : slot'[t] = p \/ got'[t] = p)
                 => Holders(p)' >= 1
<1>1. IsFiniteSet(SlotsOf(p)') /\ IsFiniteSet(GotBy(p)')
  BY ThreadsAssumption, FS_Subset DEF SlotsOf, GotBy
<1>2. /\ Cardinality(SlotsOf(p)') \in Nat /\ Cardinality(GotBy(p)') \in Nat
      /\ Cardinality(SlotsOf(p)') = 0 <=> SlotsOf(p)' = {}
      /\ Cardinality(GotBy(p)') = 0 <=> GotBy(p)' = {}
  BY <1>1, FS_CardinalityType, FS_EmptySet
<1>3. Holders(p)' = (IF handling' = p THEN 1 ELSE 0)
                       + Cardinality(SlotsOf(p)') + Cardinality(GotBy(p)')
  BY DEF Holders, SlotsOf, GotBy
<1>4. /\ (\E t \in Clients : slot'[t] = p) => SlotsOf(p)' # {}
      /\ (\E t \in Clients : got'[t] = p) => GotBy(p)' # {}
  BY DEF SlotsOf, GotBy
<1> HIDE DEF SlotsOf, GotBy
<1>5. Holders(p)' \in Nat
  BY <1>2, <1>3
<1>6. handling' = p \/ SlotsOf(p)' # {} \/ GotBy(p)' # {} => Holders(p)' >= 1
  BY <1>2, <1>3
<1> QED
  BY <1>1, <1>2, <1>3, <1>4, <1>5, <1>6

(* Dropping a reference to an object that has one. *)
LEMMA UnrefEffect ==
    ASSUME ObjectTypes, ObjectInv, NEW o \in Objects, held[o] >= 1, Unref(o)
    PROVE  /\ held' \in [Objects -> Nat] /\ DOMAIN object' = Objects
           /\ \A p \in Objects : held'[p] = IF p = o THEN held[p] - 1 ELSE held[p]
           /\ \A p \in Objects : held'[p] >= 1 => object'[p] = object[p]
           /\ ObjectInv'
<1>1. /\ held' \in [Objects -> Nat] /\ DOMAIN object' = Objects
      /\ \A p \in Objects : held'[p] = IF p = o THEN held[p] - 1 ELSE held[p]
  BY DEF Unref, ObjectTypes
<1>2. \A p \in Objects : object'[p] = IF p = o /\ held[o] = 1 THEN None ELSE object[p]
  BY DEF Unref, ObjectTypes
<1>3. \A p \in Objects : held'[p] >= 1 => object'[p] = object[p]
  BY <1>1, <1>2
<1>4. ASSUME NEW p \in Objects PROVE held'[p] = 0 <=> object'[p] = None
  <2>1. held[p] \in Nat
    BY DEF ObjectTypes
  <2> QED
    BY <1>1, <1>2, <2>1 DEF ObjectInv
<1> QED
  BY <1>1, <1>3, <1>4 DEF ObjectInv

(* As long as the objects that are held stay what they are, the answers stay
   answers, also in the hands of a caller. *)
LEMMA AnswersKept ==
    ASSUME ObjectTypes, ObjectTypes', ResponseAnswersRequest, None \notin Objects,
           \A p \in Objects :
              handling' = p \/ (\E t \in Clients : slot'[t] = p \/ got'[t] = p)
                 => object'[p] = object[p],
           handling' # None => handling' = handling,
           job' # None => job' = job /\ handling' = handling,
           \A t \in Clients : slot'[t] # None => slot'[t] = slot[t] /\ req'[t] = req[t],
           \A t \in Clients : got'[t] # None => \/ got'[t] = got[t]
                                                \/ got'[t] = slot[t] /\ req[t] \in Ids
    PROVE  ResponseAnswersRequest'
<1>1. ASSUME handling' # None PROVE \E i \in Ids : AnswersTo(handling, i)'
  <2>1. /\ handling' = handling /\ object'[handling] = object[handling]
        /\ \E i \in Ids : AnswersTo(handling, i)
    BY <1>1 DEF ObjectTypes, ResponseAnswersRequest
  <2> QED
    BY <2>1 DEF AnswersTo
<1>1b. ASSUME job' # None PROVE handling' # None /\ AnswersTo(handling, job)'
  <2>1. /\ handling' = handling /\ job' = job /\ handling # None
        /\ AnswersTo(handling, job)
    BY <1>1b DEF ResponseAnswersRequest
  <2>2. object'[handling] = object[handling]
    BY <2>1 DEF ObjectTypes
  <2> QED
    BY <2>1, <2>2 DEF AnswersTo
<1>2. ASSUME NEW t \in Clients, slot'[t] # None PROVE AnswersTo(slot[t], req[t])'
  <2>1. /\ slot'[t] = slot[t] /\ req'[t] = req[t]
        /\ slot[t] \in Objects /\ AnswersTo(slot[t], req[t])
    BY <1>2 DEF ObjectTypes, ResponseAnswersRequest
  <2>2. object'[slot'[t]] = object[slot[t]]
    BY <2>1
  <2> QED
    BY <2>1, <2>2 DEF AnswersTo
<1>3. ASSUME NEW t \in Clients, got'[t] # None PROVE \E i \in Ids : AnswersTo(got[t], i)'
  <2>1. got'[t] \in Objects
    BY <1>3 DEF ObjectTypes
  <2>2. \E i \in Ids : AnswersTo(got'[t], i)
    BY <1>3 DEF ResponseAnswersRequest
  <2>3. object'[got'[t]] = object[got'[t]]
    BY <2>1
  <2> QED
    BY <2>2, <2>3 DEF AnswersTo
<1> QED
  BY <1>1, <1>1b, <1>2, <1>3 DEF ResponseAnswersRequest

(* The service thread drops its reference to what it handled. *)
LEMMA EndEffect ==
    ASSUME RInv, DropMessage
    PROVE  /\ handling \in Objects /\ held[handling] >= 1 /\ Unref(handling)
           /\ handling' = None /\ job' = None
           /\ UNCHANGED <<answers, slot, got, late, inbox, message, pc, req, ret, timed>>
           /\ \A p \in Objects :
                 Holders(p)' = Holders(p) - (IF p = handling THEN 1 ELSE 0)
<1>1. /\ handling' = None /\ Unref(handling) /\ UNCHANGED job
      /\ UNCHANGED <<answers, slot, got, late, inbox, message, pc, req, ret, timed>>
      /\ pc[Service] = "idle" /\ handling # None
  BY DEF DropMessage, vars, waitVars, serviceVars, netVars
<1>2. handling \in Objects
  BY <1>1 DEF RInv, ObjectsInv, ObjectTypes
<1>3. held[handling] >= 1
  BY <1>2, UnusedIsFree DEF RInv, ObjectsInv
<1>4. job' = None
  BY <1>1 DEF RInv, IInv, ServiceInv
<1>5. ASSUME NEW p \in Objects
      PROVE  Holders(p)' = Holders(p) - (IF p = handling THEN 1 ELSE 0)
  <2>1. SlotsOf(p)' = SlotsOf(p) /\ GotBy(p)' = GotBy(p) /\ handling' # p
    BY <1>1, NoObjectAssumption DEF SlotsOf, GotBy
  <2> QED
    BY <2>1, HoldersParts, HoldersAfter
<1> QED
  BY <1>1, <1>2, <1>3, <1>4, <1>5

(* The invariant survives that. *)
LEMMA EndObjects ==
    ASSUME RInv, DropMessage
    PROVE  ObjectsInv'
<1>1. /\ ObjectTypes /\ TextsInv /\ ObjectInv /\ SlotInv /\ LateInv
      /\ NoUseAfterFree /\ ResponseAnswersRequest
  BY DEF RInv, ObjectsInv
<1>2. /\ held' \in [Objects -> Nat] /\ DOMAIN object' = Objects /\ ObjectInv'
      /\ \A p \in Objects : held'[p] = IF p = handling THEN held[p] - 1 ELSE held[p]
      /\ \A p \in Objects : held'[p] >= 1 => object'[p] = object[p]
  BY <1>1, EndEffect, UnrefEffect
<1>3. ObjectTypes'
  BY <1>1, <1>2, EndEffect DEF ObjectTypes
<1>4. TextsInv' /\ SlotInv' /\ LateInv'
  BY <1>1, EndEffect DEF TextsInv, SlotInv, LateInv
<1>5. ASSUME NEW p \in Objects PROVE held'[p] >= Holders(p)'
  <2>1. held[p] >= Holders(p) /\ held[p] \in Nat /\ Holders(p) \in Nat
    BY <1>1, HoldersParts DEF NoUseAfterFree, ObjectTypes
  <2>2. Holders(p)' = Holders(p) - (IF p = handling THEN 1 ELSE 0)
    BY EndEffect
  <2> QED
    BY <1>2, <2>1, <2>2
<1>6. ResponseAnswersRequest'
  <2>1. \A p \in Objects :
          handling' = p \/ (\E t \in Clients : slot'[t] = p \/ got'[t] = p)
             => object'[p] = object[p]
    BY <1>2, <1>3, <1>5, HoldersAfter DEF ObjectTypes
  <2> QED
    BY <1>1, <1>3, <2>1, EndEffect, AnswersKept, NoObjectAssumption
<1> QED
  BY <1>2, <1>3, <1>4, <1>5, <1>6 DEF ObjectsInv, NoUseAfterFree

(* The caller drops the reference that it was given. *)
LEMMA CallerEffect ==
    ASSUME RInv, NEW t \in Clients, CallerUnref(t)
    PROVE  /\ got[t] \in Objects /\ held[got[t]] >= 1 /\ Unref(got[t])
           /\ got' = [got EXCEPT ![t] = None]
           /\ UNCHANGED <<vars, answers, handling, slot, late>>
           /\ \A p \in Objects :
                 Holders(p)' = Holders(p) - (IF p = got[t] THEN 1 ELSE 0)
<1>1. /\ got[t] # None /\ Unref(got[t]) /\ got' = [got EXCEPT ![t] = None]
      /\ UNCHANGED <<vars, answers, handling, slot, late>>
  BY DEF CallerUnref
<1>2. got[t] \in Objects
  BY <1>1 DEF RInv, ObjectsInv, ObjectTypes
<1>3. held[got[t]] >= 1
  <2>1. GotBy(got[t]) # {}
    BY DEF GotBy
  <2> QED
    BY <1>2, <2>1, UnusedIsFree DEF RInv, ObjectsInv
<1>4. ASSUME NEW p \in Objects
      PROVE  Holders(p)' = Holders(p) - (IF p = got[t] THEN 1 ELSE 0)
  <2>1. SlotsOf(p)' = SlotsOf(p) /\ handling' = handling
    BY <1>1 DEF SlotsOf
  <2>2. CASE p = got[t]
    <3>1. GotBy(p)' = GotBy(p) \ {t} /\ t \in GotBy(p)
      BY <1>1, <2>2, NoObjectAssumption DEF GotBy, RInv, ObjectsInv, ObjectTypes
    <3>2. Cardinality(GotBy(p)') = Cardinality(GotBy(p)) - 1
      BY <3>1, HoldersParts, FS_RemoveElement
    <3> QED
      BY <2>1, <2>2, <3>2, HoldersParts, HoldersAfter
  <2>3. CASE p # got[t]
    <3>1. GotBy(p)' = GotBy(p)
      BY <1>1, <2>3, NoObjectAssumption DEF GotBy, RInv, ObjectsInv, ObjectTypes
    <3> QED
      BY <2>1, <2>3, <3>1, HoldersParts, HoldersAfter
  <2> QED
    BY <2>2, <2>3
<1> QED
  BY <1>1, <1>2, <1>3, <1>4

(* The invariant survives that. *)
LEMMA CallerObjects ==
    ASSUME RInv, NEW t \in Clients, CallerUnref(t)
    PROVE  ObjectsInv'
<1>1. /\ ObjectTypes /\ TextsInv /\ ObjectInv /\ SlotInv /\ LateInv
      /\ NoUseAfterFree /\ ResponseAnswersRequest
  BY DEF RInv, ObjectsInv
<1>2. /\ held' \in [Objects -> Nat] /\ DOMAIN object' = Objects /\ ObjectInv'
      /\ \A p \in Objects : held'[p] = IF p = got[t] THEN held[p] - 1 ELSE held[p]
      /\ \A p \in Objects : held'[p] >= 1 => object'[p] = object[p]
  BY <1>1, CallerEffect, UnrefEffect
<1>3. /\ UNCHANGED <<answers, handling, slot, late>>
      /\ UNCHANGED <<inbox, message, job, req, pc, ret, timed>>
  BY CallerEffect DEF vars, waitVars, serviceVars, netVars
<1>4. ObjectTypes'
  BY <1>1, <1>2, <1>3, CallerEffect DEF ObjectTypes
<1>5. TextsInv' /\ SlotInv' /\ LateInv'
  BY <1>1, <1>3 DEF TextsInv, SlotInv, LateInv
<1>6. ASSUME NEW p \in Objects PROVE held'[p] >= Holders(p)'
  <2>1. held[p] >= Holders(p) /\ held[p] \in Nat /\ Holders(p) \in Nat
    BY <1>1, HoldersParts DEF NoUseAfterFree, ObjectTypes
  <2>2. Holders(p)' = Holders(p) - (IF p = got[t] THEN 1 ELSE 0)
    BY CallerEffect
  <2> QED
    BY <1>2, <2>1, <2>2
<1>7. ResponseAnswersRequest'
  <2>1. \A p \in Objects :
          handling' = p \/ (\E u \in Clients : slot'[u] = p \/ got'[u] = p)
             => object'[p] = object[p]
    BY <1>2, <1>4, <1>6, HoldersAfter DEF ObjectTypes
  <2>2. \A u \in Clients : got'[u] # None => got'[u] = got[u]
    BY <1>1, CallerEffect DEF ObjectTypes
  <2> QED
    BY <1>1, <1>3, <1>4, <2>1, <2>2, AnswersKept, NoObjectAssumption
<1> QED
  BY <1>2, <1>4, <1>5, <1>6, <1>7 DEF ObjectsInv, NoUseAfterFree

(* wait_for passes its reference on, or, when it returns FALSE, forgets it. *)
LEMMA ReturnEffect ==
    ASSUME RInv, NEW t \in Clients, ReturnResponse(t)
    PROVE  /\ UNCHANGED <<answers, object, held, handling, inbox, job>>
           /\ \A u \in Clients :
                 /\ slot'[u] = IF u = t THEN None ELSE slot[u]
                 /\ got'[u] = IF u = t /\ Result(t) THEN slot[t]
                              ELSE IF u = t THEN None ELSE got[u]
                 /\ u # t => /\ pc'[u] = pc[u] /\ req'[u] = req[u]
                             /\ message'[u] = message[u] /\ ret'[u] = ret[u]
                             /\ timed'[u] = timed[u]
                             /\ u \in late' <=> u \in late
           /\ pc[t] = "return" /\ pc'[t] = "idle" /\ message'[t] = None /\ got[t] = None
           /\ slot' \in [Clients -> Objects \cup {None}]
           /\ got' \in [Clients -> Objects \cup {None}]
           /\ late' \subseteq Clients
<1>1. /\ ObjectTypes /\ TypeOK /\ t # Service
  BY ThreadsAssumption DEF RInv, IInv, ObjectsInv
<1>2. /\ got[t] = None /\ WaitReturn(t)
      /\ slot' = [slot EXCEPT ![t] = None]
      /\ got' = [got EXCEPT ![t] = IF Result(t) THEN slot[t] ELSE None]
      /\ late' = late \ {t}
      /\ UNCHANGED <<answers, object, held, handling>>
  BY DEF ReturnResponse
<1>3. /\ pc[t] = "return" /\ UNCHANGED <<inbox, job>>
      /\ req' = [req EXCEPT ![t] = None] /\ timed' = [timed EXCEPT ![t] = FALSE]
      /\ ret' = [ret EXCEPT ![t] = FALSE] /\ message' = [message EXCEPT ![t] = None]
      /\ pc' = [pc EXCEPT ![t] = "idle"]
  BY <1>2 DEF WaitReturn, serviceVars, netVars, Goto
<1>4. /\ slot' \in [Clients -> Objects \cup {None}] /\ late' \subseteq Clients
      /\ got' \in [Clients -> Objects \cup {None}]
  BY <1>1, <1>2 DEF ObjectTypes
<1>5. \A u \in Clients :
        /\ slot'[u] = IF u = t THEN None ELSE slot[u]
        /\ got'[u] = IF u = t /\ Result(t) THEN slot[t]
                     ELSE IF u = t THEN None ELSE got[u]
  BY <1>1, <1>2 DEF ObjectTypes
<1>6. ASSUME NEW u \in Clients, u # t
      PROVE  /\ pc'[u] = pc[u] /\ req'[u] = req[u]
             /\ message'[u] = message[u] /\ ret'[u] = ret[u]
             /\ timed'[u] = timed[u]
             /\ u \in late' <=> u \in late
  BY <1>1, <1>2, <1>3, <1>6 DEF TypeOK
<1>7. pc'[t] = "idle" /\ message'[t] = None
  BY <1>1, <1>3 DEF TypeOK
<1> QED
  BY <1>2, <1>3, <1>4, <1>5, <1>6, <1>7

(* A response has the same number of holders after it, or one less when the
   call failed. *)
LEMMA ReturnHolders ==
    ASSUME RInv, NEW t \in Clients, ReturnResponse(t), NEW p \in Objects
    PROVE  /\ Holders(p)' <= Holders(p)
           /\ Holders(p)' = Holders(p) \/ (slot[t] = p /\ ~Result(t))
<1>1. /\ UNCHANGED handling /\ got[t] = None /\ p # None
      /\ \A u \in Clients :
            /\ slot'[u] = IF u = t THEN None ELSE slot[u]
            /\ got'[u] = IF u = t /\ Result(t) THEN slot[t]
                         ELSE IF u = t THEN None ELSE got[u]
  BY ReturnEffect, NoObjectAssumption
<1>2. CASE slot[t] # p
  <2>1. SlotsOf(p)' = SlotsOf(p) /\ GotBy(p)' = GotBy(p)
    BY <1>1, <1>2 DEF SlotsOf, GotBy
  <2>2. Holders(p)' = Holders(p)
    BY <1>1, <2>1, HoldersParts, HoldersAfter
  <2> QED
    BY <2>2, HoldersParts
<1>3. CASE slot[t] = p
  <2>1. SlotsOf(p)' = SlotsOf(p) \ {t} /\ t \in SlotsOf(p)
    BY <1>1, <1>3 DEF SlotsOf
  <2>2. Cardinality(SlotsOf(p)') = Cardinality(SlotsOf(p)) - 1
    BY <2>1, HoldersParts, FS_RemoveElement
  <2>3. CASE Result(t)
    <3>1. GotBy(p)' = GotBy(p) \cup {t} /\ t \notin GotBy(p)
      BY <1>1, <1>3, <2>3 DEF GotBy
    <3>2. Cardinality(GotBy(p)') = Cardinality(GotBy(p)) + 1
      BY <3>1, HoldersParts, FS_AddElement
    <3>3. Holders(p)' = Holders(p)
      BY <1>1, <2>2, <3>2, HoldersParts, HoldersAfter
    <3> QED
      BY <3>3, HoldersParts
  <2>4. CASE ~Result(t)
    <3>1. GotBy(p)' = GotBy(p)
      BY <1>1, <2>4 DEF GotBy
    <3>2. Holders(p)' = Holders(p) - 1
      BY <1>1, <2>2, <3>1, HoldersParts, HoldersAfter
    <3> QED
      BY <1>3, <2>4, <3>2, HoldersParts
  <2> QED
    BY <2>3, <2>4
<1> QED
  BY <1>2, <1>3

(* The invariant survives that. *)
LEMMA ReturnObjects ==
    ASSUME RInv, NEW t \in Clients, ReturnResponse(t)
    PROVE  ObjectsInv'
<1>1. /\ ObjectTypes /\ TextsInv /\ ObjectInv /\ SlotInv /\ LateInv
      /\ NoUseAfterFree /\ ResponseAnswersRequest /\ TypeOK
  BY DEF RInv, IInv, ObjectsInv
<1>2. ObjectTypes' /\ TextsInv' /\ ObjectInv'
  BY <1>1, ReturnEffect DEF ObjectTypes, TextsInv, ObjectInv
<1>3. SlotInv'
  BY <1>1, ReturnEffect DEF SlotInv
<1>4. LateInv'
  <2>1. ASSUME NEW u \in Clients, pc'[u] \in {"woken", "return"}
        PROVE  ret'[u] \/ ~timed'[u] \/ u \in late'
    <3>1. u # t
      BY <2>1, ReturnEffect
    <3>2. /\ pc'[u] = pc[u] /\ ret'[u] = ret[u] /\ timed'[u] = timed[u]
          /\ u \in late' <=> u \in late
      BY <3>1, ReturnEffect
    <3> QED
      BY <1>1, <2>1, <3>2 DEF LateInv
  <2> QED
    BY <2>1 DEF LateInv
<1>5. NoUseAfterFree'
  <2>1. ASSUME NEW p \in Objects PROVE held'[p] >= Holders(p)'
    <3>1. held[p] >= Holders(p) /\ held[p] \in Nat /\ Holders(p) \in Nat /\ held'[p] = held[p]
      BY <1>1, HoldersParts, ReturnEffect DEF NoUseAfterFree, ObjectTypes
    <3>2. Holders(p)' <= Holders(p) /\ Holders(p)' \in Nat
      BY ReturnHolders, HoldersAfter
    <3> QED
      BY <3>1, <3>2
  <2> QED
    BY <2>1 DEF NoUseAfterFree
<1>6. ResponseAnswersRequest'
  <2>1. \A u \in Clients : slot'[u] # None => slot'[u] = slot[u] /\ req'[u] = req[u]
    BY ReturnEffect
  <2>2. slot[t] # None => req[t] \in Ids
    BY <1>1 DEF SlotInv, TypeOK
  <2>3. ASSUME NEW u \in Clients, got'[u] # None
        PROVE  got'[u] = got[u] \/ (got'[u] = slot[u] /\ req[u] \in Ids)
    BY <2>2, <2>3, ReturnEffect
  <2>4. UNCHANGED <<object, handling, job>>
    BY ReturnEffect
  <2> QED
    BY <1>1, <1>2, <2>1, <2>3, <2>4, AnswersKept, NoObjectAssumption
<1> QED
  BY <1>2, <1>3, <1>4, <1>5, <1>6 DEF ObjectsInv

-----------------------------------------------------------------------------
(* The invariant holds at the start. *)
LEMMA InitRInv == RefInit => RInv
<1> SUFFICES ASSUME RefInit PROVE RInv
  OBVIOUS
<1>1. IInv
  BY InitInv DEF RefInit
<1>2. SentInv
  <2>1. /\ \A t \in Threads : pc[t] = "idle"
        /\ \A t \in Clients : message[t] = None
        /\ \A id \in Ids : sends[id] = 0 /\ requests[id] = 0 /\ inbox[id] = 0
    BY DEF RefInit, Init
  <2>2. \A id \in Ids : ~Sending(id) /\ ~Given(id)
    BY <2>1, ThreadsAssumption, NoneAssumption DEF Sending, Given
  <2> QED
    BY <2>1, <2>2 DEF SentInv
<1>3. /\ answers = [id \in Ids |-> <<>>] /\ object = [o \in Objects |-> None]
      /\ held = [o \in Objects |-> 0] /\ handling = None /\ job = None
      /\ slot = [t \in Clients |-> None] /\ got = [t \in Clients |-> None]
      /\ late = {} /\ inbox = [id \in Ids |-> 0]
      /\ message = [t \in Clients |-> None] /\ \A t \in Clients : pc[t] = "idle"
  BY DEF RefInit, Init, InitObjects
<1>4. ObjectTypes /\ ObjectInv /\ SlotInv /\ LateInv /\ ResponseAnswersRequest
  BY <1>3 DEF ObjectTypes, ObjectInv, SlotInv, LateInv, ResponseAnswersRequest
<1>5. TextsInv
  <2>1. ASSUME NEW id \in Ids PROVE answers[id] \in Seq(Texts(id)) /\ inbox[id] = Len(answers[id])
    <3>1. answers[id] = <<>> /\ inbox[id] = 0
      BY <1>3
    <3> QED
      BY <3>1, EmptySeq
  <2> QED
    BY <2>1 DEF TextsInv
<1>6. NoUseAfterFree
  <2>1. ASSUME NEW o \in Objects PROVE held[o] >= Holders(o)
    <3>1. handling # o /\ SlotsOf(o) = {} /\ GotBy(o) = {} /\ held[o] = 0
      BY <1>3, NoObjectAssumption DEF SlotsOf, GotBy
    <3> QED
      BY <3>1, HoldersParts, FS_EmptySet
  <2> QED
    BY <2>1 DEF NoUseAfterFree
<1> QED
  BY <1>1, <1>2, <1>4, <1>5, <1>6 DEF RInv, ObjectsInv

(* Every step keeps it. *)
LEMMA NextRInv == RInv /\ [RefNext]_refVars => RInv'
<1> SUFFICES ASSUME RInv, [RefNext]_refVars PROVE RInv'
  OBVIOUS
<1>1. [Next]_vars
  BY RefStepIsStep
<1>2. IInv' /\ SentInv'
  BY <1>1, InvStep, SentStep DEF RInv, IInv
<1>3. CASE UNCHANGED <<vars, objectVars>>
  <2>1. UNCHANGED <<inbox, message, job, pc, req, ret, timed>> /\ UNCHANGED objectVars
    BY <1>3 DEF vars, netVars, waitVars, serviceVars
  <2>2. \A t \in Clients : WaitOver(t) => WaitOver(t)' /\ req'[t] = req[t]
    BY <2>1 DEF WaitOver
  <2>3. LateInv'
    BY <2>1 DEF RInv, ObjectsInv, LateInv, objectVars
  <2> QED
    BY <1>2, <2>1, <2>2, <2>3, ObjectsKept DEF RInv, ObjectsInv
<1>4. CASE RefStep
  <2>1. ObjectsInv'
    BY <1>4, OtherObjects, AnswerObjects, ReceiveObjects, EndObjects, LateObjects,
       ReturnObjects, CallerObjects DEF RefStep
  <2> QED
    BY <1>2, <2>1 DEF RInv
<1> QED
  BY <1>3, <1>4 DEF RefNext, refVars, Terminated

-----------------------------------------------------------------------------
(* The response objects keep their invariant in every run. *)
THEOREM RefInvariant == RefSpec => []RInv
  BY InitRInv, NextRInv, PTL DEF RefSpec

(* The app with its response objects is a message manager: reading the ids out
   of the texts, it does what MessageManager does with the ids themselves. *)
THEOREM RefRefinesManager == RefSpec => Spec
<1>1. RefInit => Init
  BY DEF RefInit
<1>2. RInv /\ [RefNext]_refVars => [Next]_vars
  BY RefStepIsStep
<1> QED
  BY <1>1, <1>2, RefInvariant, PTL DEF RefSpec, Spec

(* Every variable has its type, and a waiter has an object if and only if the
   manager gave it its message. *)
THEOREM RefTypes == RefSpec => []RefTypeOK
<1>1. RInv => RefTypeOK
  BY DEF RInv, ObjectsInv, RefTypeOK, TextsInv, ObjectTypes, ObjectInv, SlotInv
<1> QED
  BY <1>1, RefInvariant, PTL

(* Nobody holds a response that was freed, whatever the order in which the
   service thread, the waiter and its caller drop their references. *)
THEOREM ResponsesAlive == RefSpec => []NoUseAfterFree
<1>1. RInv => NoUseAfterFree
  BY DEF RInv, ObjectsInv
<1> QED
  BY <1>1, RefInvariant, PTL

(* A response in anybody's hands answers the request that it was asked for, in
   spite of the texts in between. *)
THEOREM RightAnswer == RefSpec => []ResponseAnswersRequest
<1>1. RInv => ResponseAnswersRequest
  BY DEF RInv, ObjectsInv
<1> QED
  BY <1>1, RefInvariant, PTL

-----------------------------------------------------------------------------
(* When a response is forgotten. *)

(* By whom an object is forgotten in a step. *)
ForgottenBy(o, t) ==
    /\ slot[t] = o
    /\ \/ slot'[t] # None /\ sends[req[t]] > 1
       \/ slot'[t] = None /\ (~timed[t] \/ t \in late)

(* An object whose references and holders stay as many is not forgotten. *)
LEMMA StillHeld ==
    ASSUME RInv, NEW o \in Objects, ~Forgotten(o),
           NEW d \in Int, held'[o] = held[o] + d, Holders(o)' = Holders(o) + d
    PROVE  ~Forgotten(o)'
<1>1. held[o] \in Nat /\ Holders(o) \in Nat /\ held[o] >= Holders(o)
  BY HoldersParts DEF RInv, ObjectsInv, ObjectTypes, NoUseAfterFree
<1> QED
  BY <1>1 DEF Forgotten

(* A response that is taken in takes another one's place only if its request
   was sent more than once: what the waiter has was sent for, and so was what
   comes in. *)
LEMMA ReplacedWasResent ==
    ASSUME RInv, NEW id \in Ids, Receive(id), NEW o \in Objects,
           Forgotten(o)', ~Forgotten(o)
    PROVE  \E t \in Clients : ForgottenBy(o, t)
<1> DEFINE w == waiter_hash[id]
<1>1. PICK p \in Objects, code \in Codes :
        /\ held[p] = 0
        /\ held' = [held EXCEPT ![p] = RefsAfterLock(w)]
        /\ handling' = p
        /\ slot' = Stored(w, p)
  BY ReceiveEffect
<1>2. /\ Holders(p)' = RefsAfterLock(w)
      /\ \A q \in Objects \ {p} :
            Holders(q)' = Holders(q) \/ (w \in Clients /\ slot[w] = q)
  BY <1>1, ReceiveHolders
<1>3. /\ held' \in [Objects -> Int] /\ RefsAfterLock(w) \in Int
      /\ \A q \in Objects : held'[q] = IF q = p THEN Holders(p)' ELSE held[q]
  <2>1. RefsAfterLock(w) \in Nat
    BY DEF RefsAfterLock
  <2> HIDE DEF w
  <2> QED
    BY <1>1, <1>2, <2>1 DEF RInv, ObjectsInv, ObjectTypes
<1>4. o # p
  BY <1>3 DEF Forgotten
<1>5. w \in Clients /\ slot[w] = o
  <2>1. SUFFICES ASSUME Holders(o)' = Holders(o) PROVE FALSE
    BY <1>2, <1>4
  <2>2. held'[o] = held[o] + 0 /\ Holders(o)' = Holders(o) + 0
    BY <1>3, <1>4, <2>1, HoldersParts DEF RInv, ObjectsInv, ObjectTypes
  <2> QED
    BY <2>2, StillHeld
<1>6. slot'[w] # None
  BY <1>1, <1>5, NoObjectAssumption, NoneAssumption
     DEF Stored, RInv, ObjectsInv, ObjectTypes
<1>7. req[w] = id /\ Given(id)
  <2>1. req[w] = id
    BY <1>5, NoneAssumption DEF RInv, IInv, NoDanglingWaiter
  <2>2. message[w] # None /\ message[w] = req[w]
    BY <1>5, NoObjectAssumption DEF RInv, ObjectsInv, SlotInv
  <2> QED
    BY <1>5, <2>1, <2>2 DEF Given
<1>8. sends[id] > 1
  <2>1. inbox[id] >= 1 /\ inbox[id] \in Nat
    BY FirstAnswer DEF RInv, IInv, TypeOK, ObjectsInv, Receive, HandleLock
  <2>2. sends[id] \in Nat /\ requests[id] \in Nat
    BY DEF RInv, IInv, TypeOK
  <2>3. sends[id] >= requests[id] + inbox[id] + (IF Sending(id) THEN 1 ELSE 0) + 1
    BY <1>7 DEF RInv, SentInv
  <2> HIDE DEF w
  <2> QED
    BY <2>1, <2>2, <2>3
<1> QED
  BY <1>5, <1>6, <1>7, <1>8 DEF ForgottenBy

(* One that wait_for does not pass on came to a wait that had no timeout or
   was late. *)
LEMMA DroppedWasLate ==
    ASSUME RInv, NEW t \in Clients, ReturnResponse(t), NEW o \in Objects,
           Forgotten(o)', ~Forgotten(o)
    PROVE  ForgottenBy(o, t)
<1>1. UNCHANGED held /\ pc[t] = "return" /\ slot'[t] = None
  BY ReturnEffect
<1>2. slot[t] = o /\ ~Result(t)
  <2>1. SUFFICES ASSUME Holders(o)' = Holders(o) PROVE FALSE
    BY ReturnHolders
  <2>2. held'[o] = held[o] + 0 /\ Holders(o)' = Holders(o) + 0
    BY <1>1, <2>1, HoldersParts DEF RInv, ObjectsInv, ObjectTypes
  <2> QED
    BY <2>2, StillHeld
<1>3. ~ret[t]
  BY <1>2, NoObjectAssumption DEF Result
<1> QED
  BY <1>1, <1>2, <1>3 DEF RInv, ObjectsInv, LateInv, ForgottenBy

(* Whoever drops the reference it holds forgets nothing. *)
LEMMA DroppedIsHeld ==
    ASSUME RInv, NEW p \in Objects, held[p] >= 1, Unref(p),
           \A q \in Objects : Holders(q)' = Holders(q) - (IF q = p THEN 1 ELSE 0),
           NEW o \in Objects, ~Forgotten(o)
    PROVE  ~Forgotten(o)'
<1>1. held'[o] = (IF o = p THEN held[o] - 1 ELSE held[o])
  BY UnrefEffect DEF RInv, ObjectsInv
<1>2. held[o] \in Nat /\ Holders(o) \in Nat
  BY HoldersParts DEF RInv, ObjectsInv, ObjectTypes
<1>3. CASE o = p
  <2>1. held'[o] = held[o] + (-1) /\ Holders(o)' = Holders(o) + (-1)
    BY <1>1, <1>2, <1>3
  <2> QED
    BY <2>1, StillHeld
<1>4. CASE o # p
  <2>1. held'[o] = held[o] + 0 /\ Holders(o)' = Holders(o) + 0
    BY <1>1, <1>2, <1>4
  <2> QED
    BY <2>1, StillHeld
<1> QED
  BY <1>3, <1>4

(* A response is never freed because of a second answer, or of a wait without a
   timeout or too late, and for no other reason. *)
THEOREM ForgottenWhy == RefSpec => ForgottenOnlyLate
<1>1. ASSUME RInv, [RefNext]_refVars, NEW o \in Objects, Forgotten(o)', ~Forgotten(o)
      PROVE  \E t \in Clients : ForgottenBy(o, t)
  <2>1. ~UNCHANGED <<held, handling, slot, got>>
    BY <1>1 DEF Forgotten, Holders
  <2>2. \/ \E id \in Ids : Receive(id)
        \/ DropMessage
        \/ \E t \in Clients : ReturnResponse(t) \/ CallerUnref(t)
    BY <1>1, <2>1
       DEF RefNext, refVars, objectVars, RefStep, Answer, NoteLate
  <2>3. ASSUME NEW id \in Ids, Receive(id) PROVE \E t \in Clients : ForgottenBy(o, t)
    BY <1>1, <2>3, ReplacedWasResent
  <2>4. CASE DropMessage
    BY <1>1, <2>4, EndEffect, DroppedIsHeld
  <2>5. ASSUME NEW t \in Clients, ReturnResponse(t)
        PROVE  \E u \in Clients : ForgottenBy(o, u)
    BY <1>1, <2>5, DroppedWasLate
  <2>6. ASSUME NEW t \in Clients, CallerUnref(t) PROVE FALSE
    BY <1>1, <2>6, CallerEffect, DroppedIsHeld
  <2> QED
    BY <2>2, <2>3, <2>4, <2>5, <2>6
<1>2. RInv /\ [RefNext]_refVars =>
        [\A o \in Objects : Forgotten(o)' /\ ~Forgotten(o) =>
            \E t \in Clients : /\ slot[t] = o
                               /\ \/ slot'[t] # None /\ sends[req[t]] > 1
                                  \/ slot'[t] = None /\ (~timed[t] \/ t \in late)]_refVars
  BY <1>1 DEF ForgottenBy
<1> QED
  BY <1>2, RefInvariant, PTL DEF RefSpec, ForgottenOnlyLate

(* What a sender counts on holds with response objects as without them. *)
THEOREM LifecycleWithObjects == RefSpec => ImplementsLifecycle
  BY RefRefinesManager, LifecycleImplemented
===============================================================================

------------------------------ MODULE MessageRefs ------------------------------
(***************************************************************************)
(* The response objects in the app that sent the requests: MessageManager  *)
(* together with the messages that its responses are.                      *)
(*                                                                         *)
(* The server makes a response out of the request's text and sends its     *)
(* text back.  The service thread parses it into an object, has it handled *)
(* and, once the mutex is free again, drops its reference.                 *)
(* ipcam_message_manager_handle takes another reference for the thread     *)
(* that waits, which passes it on to its caller: it may do so before the   *)
(* service thread has dropped its own.                                     *)
(* Steps are those of MessageManager, each with what it does to objects.   *)
(***************************************************************************)
EXTENDS MessageManager, Messages, Sequences

CONSTANTS
    MaxObjects,     \* bound: response objects that exist at the same time
    Codes,          \* codes the server answers with
    RequestBody,    \* the body of a request
    ResponseBody,   \* the body of a response
    Uuid            \* an id that no message sent has

ASSUME ObjectsAssumption == MaxObjects \in Nat
ASSUME BodyAssumption == ResponseBody # NoBody

Objects == 1..MaxObjects

VARIABLES
    answers,        \* per id: the texts that inbox counts, as [json, code]
    object,         \* response objects: [msg, code], or None
    held,           \* their reference counts
    handling,       \* the service thread's msg: the object it has parsed, or None
    slot,           \* per thread: the object waiter->message points to
    got,            \* per thread: the object its caller took over
    late            \* history: waits whose timeout passed before they were woken

objectVars == <<answers, object, held, handling, slot, got, late>>
refVars == <<vars, objectVars>>

InitObjects ==
    /\ answers = [id \in Ids |-> <<>>]
    /\ object = [o \in Objects |-> None]
    /\ held = [o \in Objects |-> 0]
    /\ handling = None
    /\ slot = [t \in Clients |-> None]
    /\ got = [t \in Clients |-> None]
    /\ late = {}

Unused == {o \in Objects : held[o] = 0}

(* g_object_unref: the last reference takes the object with it. *)
Unref(o) ==
    /\ held' = [held EXCEPT ![o] = @ - 1]
    /\ object' = IF held[o] = 1 THEN [object EXCEPT ![o] = None] ELSE object

-----------------------------------------------------------------------------
(* The texts. *)

(* What ipcam_base_app_send_message writes for the request with that id. *)
RequestText(id) ==
    MessageToString(Over([token |-> "app", body |-> RequestBody],
                         NewRequest(id, [action |-> "get_base_info"])))

(* The serving app: ipcam_base_app_receive_string and a handler that answers as
   the one in the tests does, to the token of the request; a server's message
   has no token itself. *)
ResponseText(text, code) ==
    MessageToString(Over([token |-> "", body |-> ResponseBody],
                         ResponseTo(Parse(text, Uuid), code)))

(* NULL is neither the number of an object nor what it holds. *)
ASSUME NoObjectAssumption ==
    /\ None \notin Objects
    /\ None \notin
        {[msg |-> Parse(ResponseText(RequestText(id), code), Uuid), code |-> code] :
            id \in Ids, code \in Codes}

Answer(id) ==
    /\ Respond(id)
    /\ \E code \in Codes :
          answers' = [answers EXCEPT ![id] =
                        Append(@, [json |-> ResponseText(RequestText(id), code),
                                   code |-> code])]
    /\ UNCHANGED <<object, held, handling, slot, got, late>>

-----------------------------------------------------------------------------
(* The service thread: ipcam_base_app_receive_string with a response. *)

(* Mutant: g_object_ref(message) is forgotten. *)
RefsWithoutWaiter(w) == 1

(* The references after HandleLock: that of ipcam_base_app_receive_string and
   that of the thread that waits. *)
RefsAfterLock(w) == IF w = None THEN 1 ELSE 2

(* Mutant: the waiter is woken and not given the message. *)
StoredNowhere(w, o) == slot

Stored(w, o) == IF w = None THEN slot ELSE [slot EXCEPT ![w] = o]

Receive(id) ==
    /\ handling = None
    /\ answers[id] # <<>>
    /\ Unused # {}
    /\ LET answer == Head(answers[id])
           msg == Parse(answer.json, Uuid)
           w == waiter_hash[msg.id]
           o == CHOOSE p \in Unused : TRUE
       IN  /\ HandleLock(msg.id)
           /\ held' = [held EXCEPT ![o] = RefsAfterLock(w)]
           /\ object' = [object EXCEPT ![o] = [msg |-> msg, code |-> answer.code]]
           /\ handling' = o
           /\ slot' = Stored(w, o)
    /\ answers' = [answers EXCEPT ![id] = Tail(@)]
    /\ UNCHANGED <<got, late>>

(* Mutant: g_object_unref(msg) is forgotten. *)
DropMessageKeepsRef ==
    /\ pc[Service] = "idle"
    /\ handling # None
    /\ handling' = None
    /\ UNCHANGED <<vars, answers, object, held, slot, got, late>>

(* g_object_unref(msg), after ipcam_message_manager_handle has returned. *)
DropMessage ==
    /\ pc[Service] = "idle"
    /\ handling # None
    /\ Unref(handling)
    /\ handling' = None
    /\ UNCHANGED <<vars, answers, slot, got, late>>

-----------------------------------------------------------------------------
(* The thread that waits, and its caller. *)

NoteLate(t) ==
    /\ WaitTimeout(t)
    /\ late' = late \cup {t}
    /\ UNCHANGED <<answers, object, held, handling, slot, got>>

(* ipcam_message_manager_wait_for returns ret && *response. *)
Result(t) == ret[t] /\ slot[t] # None

(* The reference goes to the caller, who has one if the result is TRUE. *)
ReturnResponse(t) ==
    /\ got[t] = None
    /\ WaitReturn(t)
    /\ slot' = [slot EXCEPT ![t] = None]
    /\ got' = [got EXCEPT ![t] = IF Result(t) THEN slot[t] ELSE None]
    /\ late' = late \ {t}
    /\ UNCHANGED <<answers, object, held, handling>>

CallerUnref(t) ==
    /\ got[t] # None
    /\ Unref(got[t])
    /\ got' = [got EXCEPT ![t] = None]
    /\ UNCHANGED <<vars, answers, handling, slot, late>>

-----------------------------------------------------------------------------
(* The steps that do not touch an object.  The service thread begins nothing
   else before it has dropped the message it works on. *)
ServiceBegins ==
    \/ SendStep(Service)
    \/ ClearStart
    \/ UseAfterFree(Service)
    \/ Dispose

OtherStep ==
    \/ Tick
    \/ handling = None /\ ServiceBegins
    \/ HandleCallback
    \/ HandleEnd
    \/ ClearLock
    \/ \E id \in Ids : ClearCallback(id)
    \/ ClearEnd
    \/ \E t \in Clients : \/ SendStep(t)
                          \/ \E id \in Ids : WaitCall(t, id)
                          \/ WaitLookup(t)
                          \/ WaitEnter(t)
                          \/ Spurious(t)
                          \/ WaitLeave(t)
                          \/ UseAfterFree(t)

RefStep ==
    \/ OtherStep /\ UNCHANGED objectVars
    \/ \E id \in Ids : Answer(id) \/ Receive(id)
    \/ DropMessage
    \/ \E t \in Clients : NoteLate(t) \/ ReturnResponse(t) \/ CallerUnref(t)

RefInit == Init /\ InitObjects

RefNext ==
    \/ table # "crashed" /\ RefStep
    \/ Terminated /\ UNCHANGED objectVars

RefSpec == RefInit /\ [][RefNext]_refVars

-----------------------------------------------------------------------------
(* Properties. *)

(* Every variable has its type, the counts of MessageManager are those of the
   texts, and a waiter has a message when it has an object. *)
RefTypeOK ==
    /\ \A id \in Ids : inbox[id] = Len(answers[id])
    /\ \A o \in Objects : held[o] \in Nat /\ (held[o] = 0 <=> object[o] = None)
    /\ handling \in Objects \cup {None}
    /\ \A t \in Clients : /\ slot[t] \in Objects \cup {None}
                          /\ got[t] \in Objects \cup {None}
                          /\ slot[t] # None <=> message[t] # None
    /\ late \subseteq Clients

(* The references to an object that somebody will still drop. *)
Holders(o) ==
    (IF handling = o THEN 1 ELSE 0)
        + Cardinality({t \in Clients : slot[t] = o})
        + Cardinality({t \in Clients : got[t] = o})

(* Nobody holds a response object that has been freed: neither the service
   thread from parsing it to its g_object_unref, nor the thread that waits, nor
   its caller, whichever of them drops its reference first. *)
NoUseAfterFree == \A o \in Objects : held[o] >= Holders(o)

(* A response is forgotten, so that it is never freed and its caller is told
   that there is none, in these cases only: a second answer to a message sent
   again replaced it before the waiting thread had left; the wait had no
   timeout; or its timeout had passed before the response came. *)
Forgotten(o) == held[o] > Holders(o)

ForgottenOnlyLate ==
    [][\A o \in Objects :
          Forgotten(o)' /\ ~Forgotten(o) =>
             \E t \in Clients :
                /\ slot[t] = o
                /\ \/ slot'[t] # None /\ sends[req[t]] > 1
                   \/ slot'[t] = None /\ (~timed[t] \/ t \in late)]_refVars

(* The response a thread waits for, a handler is called with or a caller gets
   answers that very request: it has its id and action, the body that the
   server gave it, and an error if and only if the server meant one. *)
AnswersTo(o, id) ==
    LET msg == object[o].msg IN
    /\ msg.type = "response" /\ msg.id = id
    /\ msg.action = "get_base_info"
    /\ msg.body = ResponseBody
    /\ HasError(msg) <=> object[o].code # "0"

ResponseAnswersRequest ==
    /\ handling # None => \E id \in Ids : AnswersTo(handling, id)
    /\ job # None => handling # None /\ AnswersTo(handling, job)
    /\ \A t \in Clients : slot[t] # None => AnswersTo(slot[t], req[t])
    /\ \A t \in Clients : got[t] # None => \E id \in Ids : AnswersTo(got[t], id)
=============================================================================

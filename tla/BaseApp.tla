------------------------------- MODULE BaseApp -------------------------------
(***************************************************************************)
(* Apps that send requests and notices to an app that serves them:         *)
(* sending and dispatching messages in base_app.c, with the lookup of the  *)
(* token in config_manager.c.                                              *)
(*                                                                         *)
(* A message carries its sender's token, which any thread that sends looks *)
(* up in the configuration, through one key buffer per app and without a   *)
(* lock.  The serving app compares it with the identity of the peer, runs  *)
(* the handler registered for the action or event, and answers a request   *)
(* to the peer that the token names.  The sender's own bookkeeping is that *)
(* of MessageManager, of which only the registration is kept here.         *)
(***************************************************************************)
EXTENDS Naturals, Sequences, SequencesExt

CONSTANTS
    Apps,         \* the sending apps; an app is its token and peer identity
    Threads,      \* their threads that send
    Requests,     \* request messages, each sent once
    Notices,      \* notice messages, each sent once
    Home,         \* the app of a thread or message
    NameOf,       \* the action of a request, the event of a notice
    Setting,      \* per app: another value in its configuration
    None          \* NULL

Messages == Requests \cup Notices
Names == {NameOf[m] : m \in Messages}
Keys == {"token", "setting"}
Classes == {"action", "event"}

ASSUME HomeAssumption ==
    /\ Home \in [Threads \cup Messages -> Apps]
    /\ Requests \cap Notices = {}
ASSUME NoneAssumption ==
    None \notin Apps \cup Messages \cup Classes

VARIABLES
    key,          \* per app: priv->key of its config manager, in two halves
    pc,           \* per thread: where it is
    msg,          \* per thread: the message it sends, or None
    token,        \* per thread: the value it found
    unsent,       \* messages not yet sent
    pending,      \* requests registered at their app's message manager
    answered,     \* requests whose handler had the response
    expired,      \* requests whose handler had the timeout
    toServer,     \* per app: its messages on their way
    toApp,        \* per app: responses on their way to it
    up,           \* the serving app runs
    reqHandlers,  \* priv->req_handler_hash of the serving app
    notHandlers,  \* priv->not_handler_hash
    handled,      \* history: messages that a handler of the app ran for
    refused,      \* history: messages whose token was not their peer's
    raced         \* history: apps two threads of which were in get with
                  \* different names at once

threadVars == <<key, pc, msg, token, unsent, raced>>
requestVars == <<pending, answered, expired>>
handlerVars == <<reqHandlers, notHandlers>>
serverVars == <<up, handlerVars, handled, refused>>
vars == <<threadVars, requestVars, toServer, toApp, serverVars>>

Init ==
    /\ key = [a \in Apps |-> [start |-> "setting", rest |-> "setting"]]
    /\ pc = [t \in Threads |-> "idle"]
    /\ msg = [t \in Threads |-> None]
    /\ token = [t \in Threads |-> None]
    /\ unsent = Messages
    /\ pending = {} /\ answered = {} /\ expired = {}
    /\ toServer = [a \in Apps |-> <<>>]
    /\ toApp = [a \in Apps |-> <<>>]
    /\ up = TRUE
    /\ reqHandlers = [n \in Names |-> None]
    /\ notHandlers = [n \in Names |-> None]
    /\ handled = {}
    /\ refused = {}
    /\ raced = {}

-----------------------------------------------------------------------------
(* A thread of an app looks up its configuration, in order to send or for its
   own purposes. *)

InGet(t) == pc[t] \in {"format", "rest", "lookup"}
Asked(t) == IF msg[t] = None THEN "setting" ELSE "token"
Value(a, k) == IF k = "token" THEN a ELSE Setting[a]

(* Threads of the same app in get with another name. *)
Rivals(t, k) ==
    {u \in Threads \ {t} : Home[u] = Home[t] /\ InGet(u) /\ Asked(u) # k}

StartGet(t, k) ==
    /\ pc' = [pc EXCEPT ![t] = "format"]
    /\ raced' = IF Rivals(t, k) # {} THEN raced \cup {Home[t]} ELSE raced

(* ipcam_base_app_get_config, called by the application. *)
GetConfig(t) ==
    /\ pc[t] = "idle"
    /\ StartGet(t, "setting")
    /\ UNCHANGED <<key, msg, token, unsent, requestVars, toServer, toApp, serverVars>>

(* ipcam_base_app_send_message, on a socket that is no server's. *)
SendMessage(t, m) ==
    /\ pc[t] = "idle"
    /\ m \in unsent /\ Home[m] = Home[t]
    /\ unsent' = unsent \ {m}
    /\ msg' = [msg EXCEPT ![t] = m]
    /\ StartGet(t, "token")
    /\ UNCHANGED <<key, token, requestVars, toServer, toApp, serverVars>>

(* sprintf writes the name into the buffer, not at once. *)
FormatKey(t) ==
    /\ pc[t] = "format"
    /\ key' = [key EXCEPT ![Home[t]].start = Asked(t)]
    /\ pc' = [pc EXCEPT ![t] = "rest"]
    /\ UNCHANGED <<msg, token, unsent, raced, requestVars, toServer, toApp, serverVars>>

(* Mutant: sprintf stops short of the end. *)
FormatRestNothing(t) ==
    /\ pc[t] = "rest"
    /\ pc' = [pc EXCEPT ![t] = "lookup"]
    /\ UNCHANGED <<key, msg, token, unsent, raced, requestVars, toServer, toApp,
                   serverVars>>

FormatRest(t) ==
    /\ pc[t] = "rest"
    /\ key' = [key EXCEPT ![Home[t]].rest = Asked(t)]
    /\ pc' = [pc EXCEPT ![t] = "lookup"]
    /\ UNCHANGED <<msg, token, unsent, raced, requestVars, toServer, toApp, serverVars>>

(* g_hash_table_lookup reads the buffer twice, to hash and to compare it. *)
Lookup(t) ==
    /\ pc[t] = "lookup"
    /\ LET k == key[Home[t]]
           found == IF k.start = k.rest THEN Value(Home[t], k.rest) ELSE None
       IN \E v \in {found} \cup (IF Rivals(t, Asked(t)) # {} THEN {None} ELSE {}) :
            token' = [token EXCEPT ![t] = IF msg[t] = None THEN None ELSE v]
    /\ pc' = [pc EXCEPT ![t] = IF msg[t] = None THEN "idle" ELSE "register"]
    /\ UNCHANGED <<key, msg, unsent, raced, requestVars, toServer, toApp, serverVars>>

(* Mutant: notices are registered as well. *)
RegisterAny(t) ==
    /\ pc[t] = "register"
    /\ pending' = pending \cup {msg[t]}
    /\ pc' = [pc EXCEPT ![t] = "transmit"]
    /\ UNCHANGED <<key, msg, token, unsent, raced, answered, expired, toServer,
                   toApp, serverVars>>

Register(t) ==
    /\ pc[t] = "register"
    /\ pending' = IF msg[t] \in Requests THEN pending \cup {msg[t]} ELSE pending
    /\ pc' = [pc EXCEPT ![t] = "transmit"]
    /\ UNCHANGED <<key, msg, token, unsent, raced, answered, expired, toServer,
                   toApp, serverVars>>

(* The string made of a message has its token, id and kind. *)
AsString(m, strval) == [msg |-> m, token |-> strval]

Transmit(t) ==
    /\ pc[t] = "transmit"
    /\ toServer' = [toServer EXCEPT ![Home[t]] =
                      Append(@, AsString(msg[t], token[t]))]
    /\ pc' = [pc EXCEPT ![t] = "idle"]
    /\ msg' = [msg EXCEPT ![t] = None]
    /\ token' = [token EXCEPT ![t] = None]
    /\ UNCHANGED <<key, unsent, raced, requestVars, toApp, serverVars>>

(* ipcam_message_manager_clear *)
Timeout(m) ==
    /\ m \in pending
    /\ pending' = pending \ {m}
    /\ expired' = expired \cup {m}
    /\ UNCHANGED <<threadVars, answered, toServer, toApp, serverVars>>

(* Mutant: the handler is called for a request that was timed out, too. *)
ReceiveResponseAlways(a) ==
    /\ toApp[a] # <<>>
    /\ LET m == Head(toApp[a]) IN
         /\ pending' = pending \ {m}
         /\ answered' = answered \cup {m}
    /\ toApp' = [toApp EXCEPT ![a] = Tail(@)]
    /\ UNCHANGED <<threadVars, expired, toServer, serverVars>>

(* A response arrives; one that nobody waits for any more is ignored. *)
ReceiveResponse(a) ==
    /\ toApp[a] # <<>>
    /\ LET m == Head(toApp[a]) IN
         /\ pending' = pending \ {m}
         /\ answered' = IF m \in pending THEN answered \cup {m} ELSE answered
    /\ toApp' = [toApp EXCEPT ![a] = Tail(@)]
    /\ UNCHANGED <<threadVars, expired, toServer, serverVars>>

-----------------------------------------------------------------------------
(* The app that serves them. *)

RegisterRequestHandler(n, class) ==
    /\ reqHandlers' = IF reqHandlers[n] = None
                        THEN [reqHandlers EXCEPT ![n] = class] ELSE reqHandlers
    /\ UNCHANGED <<threadVars, requestVars, toServer, toApp, up, notHandlers, handled,
                   refused>>

RegisterNoticeHandler(n, class) ==
    /\ notHandlers' = IF notHandlers[n] = None
                        THEN [notHandlers EXCEPT ![n] = class] ELSE notHandlers
    /\ UNCHANGED <<threadVars, requestVars, toServer, toApp, up, reqHandlers, handled,
                   refused>>

(* The kind of a message that has been parsed. *)
Kind(m) == IF m \in Requests THEN "request" ELSE "notice"

(* What a handler of the application does: it answers a request to the token
   it came with.  The ROUTER socket drops what is for a peer it does not know. *)
Run(m, client_id) ==
    /\ handled' = handled \cup {m}
    /\ toApp' = IF m \in Requests /\ client_id \in Apps
                  THEN [toApp EXCEPT ![client_id] = Append(@, m)] ELSE toApp

(* Mutant: the handler is looked up among those for events. *)
ActionHandlerOfEvent(m, client_id) ==
    IF notHandlers[NameOf[m]] = "action" THEN Run(m, client_id)
    ELSE UNCHANGED <<handled, toApp>>

(* A class of the wrong kind is registered in vain. *)
ActionHandler(m, client_id) ==
    IF reqHandlers[NameOf[m]] = "action" THEN Run(m, client_id)
    ELSE UNCHANGED <<handled, toApp>>

NoticeHandler(m, client_id) ==
    IF notHandlers[NameOf[m]] = "event" THEN Run(m, client_id)
    ELSE UNCHANGED <<handled, toApp>>

(* Mutant: whoever it says it is. *)
AnyToken(client_id, strval) == TRUE

SameToken(client_id, strval) == client_id = strval

(* ipcam_base_app_receive_string, for the next message that app a sent.  A
   message without a token ends the app: strcmp of NULL. *)
ReceiveString(a) ==
    /\ up /\ toServer[a] # <<>>
    /\ toServer' = [toServer EXCEPT ![a] = Tail(@)]
    /\ LET d == Head(toServer[a]) IN
         \/ /\ d.token = None
            /\ up' = FALSE
            /\ UNCHANGED <<toApp, handled, refused>>
         \/ /\ d.token # None /\ ~SameToken(a, d.token)
            /\ refused' = refused \cup {d.msg}
            /\ UNCHANGED <<toApp, handled, up>>
         \/ /\ d.token # None /\ SameToken(a, d.token)
            /\ IF Kind(d.msg) = "request" THEN ActionHandler(d.msg, d.token)
                                          ELSE NoticeHandler(d.msg, d.token)
            /\ UNCHANGED <<up, refused>>
    /\ UNCHANGED <<threadVars, requestVars, handlerVars>>

SendStep(t) ==
    FormatKey(t) \/ FormatRest(t) \/ Lookup(t) \/ Register(t) \/ Transmit(t)

Thread(t) ==
    GetConfig(t) \/ (\E m \in Messages : SendMessage(t, m)) \/ SendStep(t)

RegisterHandler(n, class) ==
    RegisterRequestHandler(n, class) \/ RegisterNoticeHandler(n, class)

Next ==
    \/ \E t \in Threads : Thread(t)
    \/ \E m \in Requests : Timeout(m)
    \/ \E a \in Apps : ReceiveResponse(a) \/ ReceiveString(a)
    \/ \E n \in Names, class \in Classes : RegisterHandler(n, class)

Spec == Init /\ [][Next]_vars

(* Threads run; the serving app's ROUTER socket takes messages from its peers
   in turn. *)
Fairness ==
    /\ \A t \in Threads : WF_vars(SendStep(t))
    /\ \A a \in Apps : WF_vars(ReceiveString(a)) /\ WF_vars(ReceiveResponse(a))

FairSpec == Spec /\ Fairness

-----------------------------------------------------------------------------
(* Properties. *)

Tokens == Apps \cup {Setting[a] : a \in Apps} \cup {None}
Datagrams == [msg : Messages, token : Tokens]

(* Every variable has its type. *)
TypeOK ==
    /\ key \in [Apps -> [start : Keys, rest : Keys]]
    /\ pc \in [Threads -> {"idle", "format", "rest", "lookup", "register", "transmit"}]
    /\ msg \in [Threads -> Messages \cup {None}]
    /\ token \in [Threads -> Tokens]
    /\ unsent \subseteq Messages
    /\ pending \subseteq Requests
    /\ answered \subseteq Requests /\ expired \subseteq Requests
    /\ toServer \in [Apps -> Seq(Datagrams)]
    /\ toApp \in [Apps -> Seq(Requests)]
    /\ up \in BOOLEAN
    /\ reqHandlers \in [Names -> Classes \cup {None}]
    /\ notHandlers \in [Names -> Classes \cup {None}]
    /\ handled \subseteq Messages /\ refused \subseteq Messages
    /\ raced \subseteq Apps

(* A response only ever goes to the app that sent the request, and that app
   still waits for it unless it has timed the request out, even when a race
   for the key buffer makes an app send another app's token. *)
ResponsesComeHome ==
    \A a \in Apps : \A m \in ToSet(toApp[a]) :
        Home[m] = a /\ m \in pending \cup expired

(* A message with a token that is not its app's, by which the serving app
   refuses it or ends, comes only from an app of which two threads looked up
   different settings at the same time. *)
WrongTokenOnlyAfterRace ==
    /\ \A a \in Apps : \A d \in ToSet(toServer[a]) : d.token = a \/ a \in raced
    /\ \A m \in refused : Home[m] \in raced
    /\ ~up => raced # {}

(* From the sender's call to its handler's, through the token lookup, the
   socket, the serving app and the way back, a request is opened, and then
   answered or expired, once. *)
Once(requests) == [r \in Requests |-> IF r \in requests THEN 1 ELSE 0]

Lifecycle == INSTANCE RequestLifecycle WITH
    open     <- pending,
    opened   <- Once(pending \cup answered \cup expired),
    answered <- Once(answered),
    expired  <- Once(expired)

ImplementsLifecycle == Lifecycle!Spec

(* A message that is sent with its app's token, and for which a handler of the
   right kind is registered, is handled, and a request among them is answered
   or timed out, unless another message has ended the serving app. *)
Handler(m) ==
    IF m \in Requests THEN reqHandlers[NameOf[m]] = "action"
                      ELSE notHandlers[NameOf[m]] = "event"

Sending(m) ==
    \E t \in Threads : pc[t] = "transmit" /\ msg[t] = m /\ token[t] = Home[m]

MessagesServed ==
    \A m \in Messages :
        (Sending(m) /\ Handler(m))
            ~> \/ m \in handled /\ (m \in Requests => m \in answered \cup expired)
               \/ ~up
=============================================================================

----------------------------- MODULE SendStrings -----------------------------
(***************************************************************************)
(* Sending: ipcam_service_send_strings and what base_app.c does before it, *)
(* down to the frames that zmsg_send and zstr_sendm hand to libzmq.        *)
(*                                                                         *)
(* Any thread sends, on any named socket, without a lock.  On a ROUTER     *)
(* socket the peer's identity goes first, in a call of its own; a timer    *)
(* request is two frames on a DEALER socket.  The receivers do not look at *)
(* the borders of messages: on_read takes a fixed number of frames.        *)
(*                                                                         *)
(* One call into libzmq is one step.  Two threads that are inside libzmq   *)
(* on one socket at the same moment are not modelled.                      *)
(***************************************************************************)
EXTENDS Naturals, Sequences, FiniteSets, SequencesExt

CONSTANTS
    Threads,      \* threads that send
    Names,        \* names of sockets
    TypeOf,       \* the type of each, one of Types
    Strings,      \* how many strings are sent at once on each
    Receivers,    \* what the sockets are connected to
    At,           \* per receiver: the name of the socket that reaches it
    Strangers,    \* client ids that no connected peer has
    Identity,     \* the frame a peer's ROUTER socket puts before a message
    MaxSends,     \* bound: messages sent in all
    None          \* NULL

Types == {"server", "client", "publisher", "subscriber"}

Peers(n) == {r \in Receivers : At[r] = n}

ASSUME NamesAssumption ==
    /\ TypeOf \in [Names -> Types]
    /\ Strings \in [Names -> Nat \ {0}]
    /\ At \in [Receivers -> Names]
    /\ \A n \in Names : TypeOf[n] = "client" => Cardinality(Peers(n)) = 1
    /\ MaxSends \in Nat

VARIABLES
    named,        \* names in socket_hash
    pc,           \* per thread: where it is
    job,          \* per thread: the name, client id and token of its send
    part,         \* per thread: how many strings it has sent
    count,        \* per thread: sends begun
    routed,       \* per ROUTER socket: the peer of the message begun, or None
    begun,        \* per socket: has a message been begun (libzmq's more_out)?
    buffer,       \* per socket: the frames of that message
    wire,         \* per receiver: frames that it can read
    heard,        \* per receiver: the frames that its on_read has taken
    sent,         \* history, per receiver: the frames of what was sent to it
    overlapped    \* history: sockets on which two threads' sends overlapped

threadVars == <<pc, job, part, count>>
socketVars == <<routed, begun, buffer>>
vars == <<named, threadVars, socketVars, wire, heard, sent, overlapped>>

SendsBegun == FoldFunction(+, 0, count)

(* Mutant: every string of a message is the first one. *)
FirstText(t, i) == [by |-> t, no |-> count[t], part |-> 1, token |-> job[t].token]

(* A string is told from every other; the token is what it says of its sender. *)
Text(t, i) == [by |-> t, no |-> count[t], part |-> i, token |-> job[t].token]
Content(t) == [i \in 1..Strings[job[t].name] |-> Text(t, i)]

Init ==
    /\ named = Names
    /\ pc = [t \in Threads |-> "idle"]
    /\ job = [t \in Threads |-> None]
    /\ part = [t \in Threads |-> 0]
    /\ count = [t \in Threads |-> 0]
    /\ routed = [n \in Names |-> None]
    /\ begun = [n \in Names |-> FALSE]
    /\ buffer = [n \in Names |-> <<>>]
    /\ wire = [r \in Receivers |-> <<>>]
    /\ heard = [r \in Receivers |-> <<>>]
    /\ sent = [r \in Receivers |-> <<>>]
    /\ overlapped = {}

-----------------------------------------------------------------------------
(* libzmq: one frame is sent, with or without ZMQ_SNDMORE. *)

(* What lies at the peer before the frames of a message: the sender's identity
   when the peer is a ROUTER socket, as that of the timer pump is. *)
Prefix(n) == IF TypeOf[n] = "client" THEN <<Identity>> ELSE <<>>

Deliver(peers, n, frames) ==
    wire' = [r \in Receivers |->
               IF r \in peers THEN wire[r] \o Prefix(n) \o frames ELSE wire[r]]

(* ROUTER: the first frame of a message names the peer; if there is none of
   that name, what follows is dropped.  A message of one frame is dropped. *)
RouterFirst(n, frame, more) ==
    /\ ~begun[n]
    /\ begun' = [begun EXCEPT ![n] = more]
    /\ routed' = [routed EXCEPT ![n] =
                    IF more /\ frame \in Peers(n) THEN frame ELSE None]
    /\ UNCHANGED <<buffer, wire>>

RouterNext(n, frame, more) ==
    /\ begun[n]
    /\ begun' = [begun EXCEPT ![n] = more]
    /\ routed' = [routed EXCEPT ![n] = IF more THEN @ ELSE None]
    /\ IF more
         THEN /\ buffer' = [buffer EXCEPT ![n] = Append(@, frame)]
              /\ UNCHANGED wire
         ELSE /\ buffer' = [buffer EXCEPT ![n] = <<>>]
              /\ Deliver({routed[n]}, n, Append(buffer[n], frame))

(* DEALER and PUB: a message goes to all there are, when it is complete. *)
PlainFrame(n, frame, more) ==
    /\ begun' = [begun EXCEPT ![n] = more]
    /\ UNCHANGED routed
    /\ IF more
         THEN /\ buffer' = [buffer EXCEPT ![n] = Append(@, frame)]
              /\ UNCHANGED wire
         ELSE /\ buffer' = [buffer EXCEPT ![n] = <<>>]
              /\ Deliver(Peers(n), n, Append(buffer[n], frame))

SendFrame(n, frame, more) ==
    IF TypeOf[n] = "server"
      THEN RouterFirst(n, frame, more) \/ RouterNext(n, frame, more)
      ELSE PlainFrame(n, frame, more)

(* Another thread has sent a part of its message on the socket. *)
Underway(u, n) ==
    /\ pc[u] = "strings" /\ job[u].name = n
    /\ TypeOf[n] = "server" \/ part[u] > 0

NoteOverlap(t, n) ==
    overlapped' = IF \E u \in Threads \ {t} : Underway(u, n)
                    THEN overlapped \cup {n} ELSE overlapped

-----------------------------------------------------------------------------
(* A thread that sends. *)

Goto(t, label) == pc' = [pc EXCEPT ![t] = label]

(* ipcam_base_app_send_message, or ipcam_base_app_add_timer, which needs no
   token in its strings and sends two of them. *)
SendMessage(t, n, client_id) ==
    /\ pc[t] = "idle"
    /\ SendsBegun < MaxSends
    /\ count' = [count EXCEPT ![t] = @ + 1]
    /\ job' = [job EXCEPT ![t] = [name |-> n, client_id |-> client_id, token |-> ""]]
    /\ Goto(t, IF Strings[n] = 1 THEN "token" ELSE "lookup")
    /\ UNCHANGED <<named, part, socketVars, wire, heard, sent, overlapped>>

(* ipcam_service_is_server: FALSE for a name that is not there. *)
IsServer(n) == n \in named /\ TypeOf[n] \in {"server", "publisher"}

(* A server's messages have no token, others the app's. *)
ChooseToken(t) ==
    /\ pc[t] = "token"
    /\ job' = [job EXCEPT ![t].token = IF IsServer(job[t].name) THEN "" ELSE "app"]
    /\ Goto(t, "lookup")
    /\ UNCHANGED <<named, part, count, socketVars, wire, heard, sent, overlapped>>

(* ipcam_socket_manager_get_by_name.  Without the name, without a client id for
   a ROUTER socket, or on a SUB socket, ipcam_service_send_strings returns
   FALSE. *)
Refused(t) ==
    \/ job[t].name \notin named
    \/ TypeOf[job[t].name] = "subscriber"
    \/ TypeOf[job[t].name] = "server" /\ job[t].client_id = None

Lookup(t) ==
    /\ pc[t] = "lookup"
    /\ IF Refused(t)
         THEN /\ Goto(t, "idle")
              /\ job' = [job EXCEPT ![t] = None]
         ELSE /\ Goto(t, IF TypeOf[job[t].name] = "server" THEN "identity"
                                                           ELSE "strings")
              /\ UNCHANGED job
    /\ UNCHANGED <<named, part, count, socketVars, wire, heard, sent, overlapped>>

(* Mutant: the identity is sent as a message of its own, with zstr_send. *)
SendIdentityAlone(t) ==
    /\ pc[t] = "identity"
    /\ SendFrame(job[t].name, job[t].client_id, FALSE)
    /\ NoteOverlap(t, job[t].name)
    /\ Goto(t, "strings")
    /\ UNCHANGED <<named, job, part, count, heard, sent>>

(* zstr_sendm *)
SendIdentity(t) ==
    /\ pc[t] = "identity"
    /\ SendFrame(job[t].name, job[t].client_id, TRUE)
    /\ NoteOverlap(t, job[t].name)
    /\ Goto(t, "strings")
    /\ UNCHANGED <<named, job, part, count, heard, sent>>

Addressees(t) ==
    IF TypeOf[job[t].name] = "server"
      THEN Peers(job[t].name) \cap {job[t].client_id} ELSE Peers(job[t].name)

(* Mutant: the index of the string is not reset. *)
SendStringKeepsPart(t) ==
    LET n == job[t].name
        more == part[t] + 1 < Strings[n]
    IN  /\ pc[t] = "strings"
        /\ SendFrame(n, Text(t, part[t] + 1), more)
        /\ NoteOverlap(t, n)
        /\ part' = [part EXCEPT ![t] = @ + 1]
        /\ IF more
             THEN UNCHANGED <<pc, job, sent>>
             ELSE /\ Goto(t, "idle")
                  /\ job' = [job EXCEPT ![t] = None]
                  /\ UNCHANGED sent
        /\ UNCHANGED <<named, count, heard>>

(* zmsg_send, one of its frames.  After the last one send_strings returns TRUE,
   whether or not there is such a peer. *)
SendString(t) ==
    LET n == job[t].name
        more == part[t] + 1 < Strings[n]
    IN  /\ pc[t] = "strings"
        /\ SendFrame(n, Text(t, part[t] + 1), more)
        /\ NoteOverlap(t, n)
        /\ IF more
             THEN /\ part' = [part EXCEPT ![t] = @ + 1]
                  /\ UNCHANGED <<pc, job, sent>>
             ELSE /\ part' = [part EXCEPT ![t] = 0]
                  /\ Goto(t, "idle")
                  /\ job' = [job EXCEPT ![t] = None]
                  /\ sent' = [r \in Receivers |->
                                IF r \in Addressees(t)
                                  THEN sent[r] \o Prefix(n) \o Content(t)
                                  ELSE sent[r]]
        /\ UNCHANGED <<named, count, heard>>

-----------------------------------------------------------------------------
(* Mutant: the timer pump reads the identity and the timer id. *)
ReadsShort(n) == IF Strings[n] > 1 THEN Strings[n] ELSE Len(Prefix(n)) + 1

(* ipcam_service_on_read and ipcam_timer_pump_on_read at the other end: as many
   zstr_recv as a message there has frames.  They block when there are less. *)
Reads(n) == Len(Prefix(n)) + Strings[n]

OnRead(r) ==
    LET k == Reads(At[r]) IN
    /\ Len(wire[r]) >= k
    /\ heard' = [heard EXCEPT ![r] = @ \o SubSeq(wire[r], 1, k)]
    /\ wire' = [wire EXCEPT ![r] = SubSeq(@, k + 1, Len(@))]
    /\ UNCHANGED <<named, threadVars, socketVars, sent, overlapped>>

(* ipcam_service_stop empties socket_hash; the sockets stay. *)
CloseAll ==
    /\ named # {}
    /\ named' = {}
    /\ UNCHANGED <<threadVars, socketVars, wire, heard, sent, overlapped>>

(* Client ids that a caller gives; only a ROUTER socket has a use for them. *)
ClientIds == Receivers \cup Strangers \cup {None}
ClientIdsFor(n) == IF TypeOf[n] = "server" THEN Peers(n) \cup Strangers \cup {None}
                                           ELSE {None}

SendStep(t) == ChooseToken(t) \/ Lookup(t) \/ SendIdentity(t) \/ SendString(t)

Done ==
    /\ SendsBegun = MaxSends
    /\ \A t \in Threads : pc[t] = "idle"
    /\ \A r \in Receivers : Len(wire[r]) < Reads(At[r])
    /\ UNCHANGED vars

Next ==
    \/ \E t \in Threads, n \in Names : \E p \in ClientIdsFor(n) : SendMessage(t, n, p)
    \/ \E t \in Threads : SendStep(t)
    \/ \E r \in Receivers : OnRead(r)
    \/ CloseAll
    \/ Done

Spec == Init /\ [][Next]_vars

(* Threads run, those of the receivers too. *)
Fairness ==
    /\ \A t \in Threads : WF_vars(SendStep(t))
    /\ \A r \in Receivers : WF_vars(OnRead(r))

FairSpec == Spec /\ Fairness

-----------------------------------------------------------------------------
(* Properties. *)

Texts == [by : Threads, no : Nat \ {0}, part : Nat \ {0}, token : {"", "app"}]
Frames == Texts \cup ClientIds \cup {Identity}
Jobs == [name : Names, client_id : ClientIds, token : {"", "app"}]

(* NULL is nobody, the frame before a message is no client id, and none of them
   is a text. *)
ASSUME FramesAssumption ==
    /\ None \notin Receivers \cup Jobs
    /\ Identity \notin ClientIds
    /\ \A f \in ClientIds \cup {Identity} : f \notin Texts

(* Every variable has its type, and a socket holds frames back only while a
   message is begun. *)
TypeOK ==
    /\ named \subseteq Names
    /\ pc \in [Threads -> {"idle", "token", "lookup", "identity", "strings"}]
    /\ job \in [Threads -> Jobs \cup {None}]
    /\ part \in [Threads -> Nat]
    /\ \A t \in Threads : part[t] > 0 => pc[t] = "strings"
    /\ count \in [Threads -> Nat]
    /\ routed \in [Names -> Receivers \cup {None}]
    /\ begun \in [Names -> BOOLEAN]
    /\ buffer \in [Names -> Seq(Frames)]
    /\ \A n \in Names : /\ routed[n] \in Peers(n) \cup {None}
                        /\ ~begun[n] => buffer[n] = <<>> /\ routed[n] = None
    /\ wire \in [Receivers -> Seq(Frames)]
    /\ heard \in [Receivers -> Seq(Frames)]
    /\ sent \in [Receivers -> Seq(Frames)]
    /\ overlapped \subseteq Names

(* As long as no two threads' sends have overlapped on a socket, each of its
   receivers has got, or can still read, the messages that were sent to it:
   whole, in the order of sending, and none that was meant for another.  A
   message that comes from a client socket has the app's token, one that comes
   from a server's has none, although the name is looked up twice and may be
   gone in between. *)
RightToken(n) ==
    IF TypeOf[n] \in {"client", "subscriber"} /\ Strings[n] = 1 THEN "app" ELSE ""

SentArrives ==
    \A r \in Receivers : At[r] \notin overlapped =>
        /\ heard[r] \o wire[r] = sent[r]
        /\ \A f \in ToSet(sent[r]) \cap Texts : f.token = RightToken(At[r])

(* Whatever overlaps, no string reaches a receiver twice, and on a DEALER or
   PUB socket none of those that were sent is lost; only their grouping and
   their order suffer. *)
Arrived(r) == heard[r] \o wire[r] \o buffer[At[r]]

Once(s) == \A i, j \in 1..Len(s) : s[i] \in Texts /\ s[i] = s[j] => i = j

StringsOnce ==
    \A r \in Receivers :
        /\ Once(Arrived(r))
        /\ TypeOf[At[r]] # "server" =>
              ToSet(sent[r]) \subseteq ToSet(Arrived(r)) \cup {Identity}

(* A message that a receiver can read is read as the message that was sent,
   token included, unless sends have overlapped on its socket: the receiver
   is in step and does not block. *)
HeardAsSent ==
    \A r \in Receivers :
        wire[r] # <<>> ~> \/ At[r] \in overlapped
                          \/ wire[r] = <<>> /\ heard[r] = sent[r]
=============================================================================

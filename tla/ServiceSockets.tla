--------------------------- MODULE ServiceSockets ---------------------------
(***************************************************************************)
(* A service and its named sockets: socket_manager.c, service.c and the    *)
(* poll loop of base_service.c.                                            *)
(*                                                                         *)
(* The service thread opens sockets in three steps: the name is looked up, *)
(* the socket is created and handed to the poller, the name is entered in  *)
(* the table.  It polls, finds the name and the type of a readable socket  *)
(* in the table, reads as many frames as that type has, and passes them    *)
(* on.  Peers may send several strings in a message: on_read takes one.    *)
(* ipcam_base_service_stop may be called by any thread at any moment;      *)
(* it empties the table and leaves the poller and the publisher list.      *)
(*                                                                         *)
(* Only the service thread opens sockets: the poller is not made for more. *)
(***************************************************************************)
EXTENDS Naturals, Sequences, FiniteSets, SequencesExt

CONSTANTS
    Names,          \* socket names
    Sockets,        \* bound: the sockets that can be created
    MaxFrames,      \* bound: frames waiting at a socket
    Lengths,        \* numbers of strings that peers send in a message
    None            \* NULL

Types == {"server", "client", "subscriber", "publisher"}
Value == [mq_socket : Sockets, type : Types]

ASSUME BoundsAssumption == MaxFrames \in Nat
ASSUME LengthsAssumption == Lengths \subseteq Nat \ {0}
ASSUME NoneAssumption == None \notin Sockets \cup Names \cup Value \cup Types

VARIABLES
    socket_hash,    \* priv->socket_hash: name to socket and type
    publish_lists,  \* priv->publish_lists
    poller,         \* sockets the poller waits for
    kind,           \* the type each socket was created with, or None
    frames,         \* per socket: frames to be read, "id" or "text"
    terminated,     \* priv->terminated
    svcPc,          \* the service loop: "new", "poll", "read", "loop" or "done"
    which,          \* the socket zpoller_wait returned
    found,          \* its name and type, as on_read has found them
    openPc,         \* where an ipcam_service_*_by_name call is
    args,           \* its name and type
    sock,           \* the socket it created
    heard,          \* the last message passed on
    odd             \* history: servers to which a message of several strings came

openVars == <<openPc, args, sock>>
loopVars == <<svcPc, which, found, heard>>
vars == <<socket_hash, publish_lists, poller, kind, frames, odd, terminated,
          loopVars, openVars>>

HasName(n) == socket_hash[n] # None
NamesOf(s) == {n \in Names : HasName(n) /\ socket_hash[n].mq_socket = s}
Fresh == {s \in Sockets : kind[s] = None}

Init ==
    /\ socket_hash = [n \in Names |-> None]
    /\ publish_lists = <<>>
    /\ poller = {}
    /\ kind = [s \in Sockets |-> None]
    /\ frames = [s \in Sockets |-> <<>>]
    /\ terminated = FALSE
    /\ svcPc = "new"
    /\ which = None
    /\ found = None
    /\ openPc = "idle"
    /\ args = None
    /\ sock = None
    /\ heard = None
    /\ odd = {}

-----------------------------------------------------------------------------
(* ipcam_service_bind_by_name, ..connect.., ..publish.., ..subscirbe.. .
   The service thread calls them before the loop, in handlers and in in_loop;
   the latter two belong to the "loop" part of a round. *)

(* Mutant: the name is not looked up. *)
OpenCheckNothing(name, type) ==
    /\ openPc = "idle"
    /\ svcPc \notin {"poll", "read"}
    /\ Fresh # {}
    /\ args' = [name |-> name, type |-> type]
    /\ openPc' = "create"
    /\ UNCHANGED <<socket_hash, publish_lists, poller, kind, frames, odd, terminated,
                   loopVars, sock>>

(* Mutant: the name is entered although no socket was created. *)
OpenCheckAndAdd(name, type) ==
    /\ openPc = "idle"
    /\ svcPc \notin {"poll", "read"}
    /\ ~HasName(name)
    /\ args' = [name |-> name, type |-> type]
    /\ openPc' = "add"
    /\ UNCHANGED <<socket_hash, publish_lists, poller, kind, frames, odd, terminated,
                   loopVars, sock>>

OpenCheck(name, type) ==
    /\ openPc = "idle"
    /\ svcPc \notin {"poll", "read"}
    /\ Fresh # {}
    /\ ~HasName(name)
    /\ args' = [name |-> name, type |-> type]
    /\ openPc' = "create"
    /\ UNCHANGED <<socket_hash, publish_lists, poller, kind, frames, odd, terminated,
                   loopVars, sock>>

(* Mutant: the publisher is not put on the list. *)
OpenCreateUnlisted ==
    /\ openPc = "create"
    /\ \E s \in Fresh :
          /\ kind' = [kind EXCEPT ![s] = args.type]
          /\ sock' = s
          /\ poller' = IF args.type = "publisher" THEN poller ELSE poller \cup {s}
    /\ openPc' = "add"
    /\ UNCHANGED <<socket_hash, publish_lists, frames, odd, terminated, loopVars, args>>

(* A publisher is not polled: nothing is read from it. *)
OpenCreate ==
    /\ openPc = "create"
    /\ \E s \in Fresh :
          /\ kind' = [kind EXCEPT ![s] = args.type]
          /\ sock' = s
          /\ IF args.type = "publisher"
               THEN /\ publish_lists' = Append(publish_lists, args.name)
                    /\ UNCHANGED poller
               ELSE /\ poller' = poller \cup {s}
                    /\ UNCHANGED publish_lists
    /\ openPc' = "add"
    /\ UNCHANGED <<socket_hash, frames, odd, terminated, loopVars, args>>

(* ipcam_socket_manager_add replaces what the name stood for. *)
OpenAdd ==
    /\ openPc = "add"
    /\ socket_hash' = [socket_hash EXCEPT ![args.name] =
                         [mq_socket |-> sock, type |-> args.type]]
    /\ openPc' = "idle"
    /\ args' = None
    /\ sock' = None
    /\ UNCHANGED <<publish_lists, poller, kind, frames, odd, terminated, loopVars>>

-----------------------------------------------------------------------------
(* A peer sends k strings in one message, one in most uses.  ZeroMQ delivers a
   message as a whole, and a ROUTER socket puts the sender's identity before it. *)
Message(type, k) ==
    (IF type = "server" THEN <<"id">> ELSE <<>>) \o [i \in 1..k |-> "text"]

Arrive(s, k) ==
    /\ kind[s] \notin {None, "publisher"}
    /\ Len(frames[s]) + Len(Message(kind[s], k)) <= MaxFrames
    /\ frames' = [frames EXCEPT ![s] = @ \o Message(kind[s], k)]
    /\ odd' = IF kind[s] = "server" /\ k # 1 THEN odd \cup {s} ELSE odd
    /\ UNCHANGED <<socket_hash, publish_lists, poller, kind, terminated,
                   loopVars, openVars>>

-----------------------------------------------------------------------------
(* The service thread: ipcam_base_service_start. *)

(* The condition of the loop, tested after before_start and after in_loop. *)
LoopTest ==
    /\ svcPc \in {"new", "loop"}
    /\ openPc = "idle"
    /\ svcPc' = IF terminated THEN "done" ELSE "poll"
    /\ heard' = None
    /\ UNCHANGED <<socket_hash, publish_lists, poller, kind, frames, odd, terminated,
                   which, found, openVars>>

(* zpoller_wait returns a readable socket, or nothing after TIMEOUT_PERIOD. *)
Readable == {s \in poller : frames[s] # <<>>}

Poll(s) ==
    /\ svcPc = "poll"
    /\ which = None
    /\ s \in Readable
    /\ which' = s
    /\ UNCHANGED <<socket_hash, publish_lists, poller, kind, frames, odd, terminated,
                   svcPc, found, heard, openVars>>

PollExpired ==
    /\ svcPc = "poll"
    /\ which = None
    /\ Readable = {}
    /\ svcPc' = "loop"
    /\ UNCHANGED <<socket_hash, publish_lists, poller, kind, frames, odd, terminated,
                   which, found, heard, openVars>>

(* The process was told to end: zpoller_terminated. *)
Interrupt ==
    /\ svcPc = "poll"
    /\ which = None
    /\ poller # {}
    /\ terminated' = TRUE
    /\ svcPc' = "loop"
    /\ UNCHANGED <<socket_hash, publish_lists, poller, kind, frames, odd, which,
                   found, heard, openVars>>

(* ipcam_service_on_read_impl looks the socket up.  The message of one without
   a name stays where it is. *)
OnRead ==
    /\ svcPc = "poll"
    /\ which # None
    /\ \/ /\ NamesOf(which) = {}
          /\ svcPc' = "loop"
          /\ which' = None
          /\ UNCHANGED found
       \/ \E n \in NamesOf(which) :
             /\ svcPc' = "read"
             /\ found' = [name |-> n, type |-> socket_hash[n].type]
             /\ UNCHANGED which
    /\ UNCHANGED <<socket_hash, publish_lists, poller, kind, frames, odd, terminated,
                   heard, openVars>>

(* Mutants: every type has one frame, every type has two. *)
OneFrame(type) == 1
TwoFrames(type) == 2

FramesOf(type) == IF type = "server" THEN 2 ELSE 1

(* Then it reads and passes on.  zstr_recv reads one frame, whichever message
   it belongs to, and blocks when there is none. *)
ReceiveStrings ==
    /\ svcPc = "read"
    /\ LET k == FramesOf(found.type) IN
          /\ Len(frames[which]) >= k
          /\ frames' = [frames EXCEPT ![which] = SubSeq(@, k + 1, Len(@))]
          /\ heard' = [name |-> found.name, mq_socket |-> which,
                       parts |-> SubSeq(frames[which], 1, k)]
    /\ svcPc' = "loop"
    /\ which' = None
    /\ found' = None
    /\ UNCHANGED <<socket_hash, publish_lists, poller, kind, odd, terminated, openVars>>

-----------------------------------------------------------------------------
(* ipcam_base_service_stop, in two steps: the loop is told to end, then
   ipcam_service_stop_impl empties the table.  It may be called again. *)
Stop ==
    /\ ~terminated
    /\ terminated' = TRUE
    /\ UNCHANGED <<socket_hash, publish_lists, poller, kind, frames, odd, loopVars,
                   openVars>>

CloseAll ==
    /\ terminated
    /\ \E n \in Names : HasName(n)
    /\ socket_hash' = [n \in Names |-> None]
    /\ UNCHANGED <<publish_lists, poller, kind, frames, odd, terminated, loopVars,
                   openVars>>

Finished == svcPc = "done" /\ openPc = "idle" /\ UNCHANGED vars

Open ==
    \/ \E n \in Names, type \in Types : OpenCheck(n, type)
    \/ OpenCreate
    \/ OpenAdd

Loop ==
    \/ LoopTest
    \/ \E s \in Sockets : Poll(s)
    \/ PollExpired
    \/ Interrupt
    \/ OnRead
    \/ ReceiveStrings

Next ==
    \/ Open
    \/ \E s \in Sockets, k \in Lengths : Arrive(s, k)
    \/ Loop
    \/ Stop
    \/ CloseAll
    \/ Finished

Spec == Init /\ [][Next]_vars

(* The service thread runs.  Nothing is assumed of the order in which the
   poller returns readable sockets: a busy one may starve the others. *)
Fairness ==
    /\ WF_vars(OpenCreate) /\ WF_vars(OpenAdd)
    /\ WF_vars(Loop)

FairSpec == Spec /\ Fairness

-----------------------------------------------------------------------------
(* Properties. *)

(* Every variable has its type. *)
TypeOK ==
    /\ socket_hash \in [Names -> Value \cup {None}]
    /\ publish_lists \in Seq(Names)
    /\ poller \subseteq Sockets
    /\ kind \in [Sockets -> Types \cup {None}]
    /\ frames \in [Sockets -> Seq({"id", "text"})]
    /\ odd \subseteq Sockets
    /\ terminated \in BOOLEAN
    /\ svcPc \in {"new", "poll", "read", "loop", "done"}
    /\ which \in Sockets \cup {None}
    /\ found \in [name : Names, type : Types] \cup {None}
    /\ openPc \in {"idle", "create", "add"}
    /\ args \in [name : Names, type : Types] \cup {None}
    /\ sock \in Sockets \cup {None}
    /\ heard \in [name : Names, mq_socket : Sockets, parts : Seq({"id", "text"})]
                 \cup {None}

(* Until the service is told to stop, a socket is created and polled under
   one name and the type it was created with: no polled socket becomes an
   orphan, which would keep the poll loop spinning on messages on_read leaves
   unread. *)
PolledSocketsNamed ==
    ~terminated =>
        \A s \in Sockets : kind[s] # None =>
            \/ s = sock
            \/ \E n \in Names :
                  /\ NamesOf(s) = {n}
                  /\ socket_hash[n].type = kind[s]

(* A message passed on is one message of that socket: the identity and the
   string for a server, the string alone for others.  Frames left behind or
   taken too many would put every later message out of step.  A server is out
   of step from the first message of several strings on. *)
ReadsInStep ==
    heard # None /\ heard.mq_socket \notin odd =>
        heard.parts = IF kind[heard.mq_socket] = "server"
                        THEN <<"id", "text">> ELSE <<"text">>

(* The publisher list that broadcasts go through (ipcam_service_get_publish_names)
   names every publisher that is open or is just being entered in the table.
   Until the service is told to stop it names each of them once, and nothing
   else. *)
Publishers == {n \in Names : HasName(n) /\ socket_hash[n].type = "publisher"}

NewPublisher == {n \in Names : openPc = "add" /\ args = [name |-> n, type |-> "publisher"]}

PublishNamesOpen ==
    /\ Publishers \cup NewPublisher \subseteq ToSet(publish_lists)
    /\ ~terminated =>
          /\ IsInjective(publish_lists)
          /\ ToSet(publish_lists) \subseteq Publishers \cup NewPublisher

(* on_read waits in zstr_recv for the rest of a server's message: its senders
   have put it out of step. *)
Blocked == svcPc = "read" /\ which \in odd /\ Len(frames[which]) = 1

(* While any polled socket has something to read, messages keep being passed
   on, until the service is told to stop: the loop neither spins on a socket
   that it cannot read nor blocks in zstr_recv, but for servers to which
   several strings were sent. *)
MessagesPassedOn == Readable # {} ~> (heard # None \/ terminated \/ Blocked)

(* Once told to stop the loop ends, whatever comes in, and even when the table
   is emptied while a socket is being opened or read, unless it is blocked. *)
StopEndsLoop == terminated ~> (svcPc = "done" \/ Blocked)
=============================================================================

# libipcam_base in TLA+

libipcam_base is a small C library (GLib, ZeroMQ through czmq, libyaml, pthreads)
for the processes of an IP camera.  A process is an *app*: one service thread
that polls named sockets, any number of other threads that send requests through
it and may wait for the responses, and a timer process that sends every app its
ticks.  This directory holds TLA+ models of its parts, the TLC configurations
that check them, and TLAPS proofs.

Run `tlc -config mm_core.cfg MCMessageManager.tla` and so on (PROJECT.json lists
which module each configuration belongs to), and `tlapm MessageManagerProofs.tla` and
so on for each module whose name ends in `Proofs`.

## 1. The system

| component | state | operations | called by |
|---|---|---|---|
| message manager (`message_manager.c`) | `msg_hash`: registered requests; `waiter_hash`: threads waiting for a response; one mutex | `register`, `wait_for`, `handle`, `clear` | senders (any thread); waiting threads (not the service thread); the service thread on a response and on its ten-second timer |
| timer pump (`timer_pump.c`, `timer.c`) | `timers_hash`: client, timer id, interval, time of the last tick | `on_read` (register, unregister), `in_loop` (check every timer) | its own poll loop, in a process of its own |
| timer manager (`timer_manager.c`) | `timers_hash`: timer id to callback | `add_timer`, `del_timer`, `trig_timer` | the base app |
| base app (`base_app.c`) | configuration, handlers for requests and notices, the two managers | `send_message`, `wait_response`, `add_timer`, received strings, `register_*_handler` | application code, the service |
| service (`service.c`) | the socket manager, the list of publishers | open a socket by name, `send_strings`, `on_read`, `stop` | base app |
| socket manager (`socket_manager.c`) | `socket_hash`: name to socket and type; a mutex | `add`, `delete_*`, `has_*`, `get_by_*`, `close_all` | service |
| base service (`base_service.c`) | the poller, `terminated` | `start` (the poll loop), `stop`, create a socket | everything above |
| config manager (`config_manager.c`) | `conf_hash`, a shared key buffer, a shared collection | `load_config`, `merge`, `get`, `get_collection` | base app, from every thread that sends |
| messages (`message.c`, `*_message.c`) | none shared | to and from JSON | base app |
| action and event handlers | none | run a virtual function | base app, in the service thread |

How they interact.  `ipcam_base_app_send_message` registers a request with the
message manager, then sends it.  The service thread reads the response, the base
app parses it and calls `ipcam_message_manager_handle`, which wakes a waiting
thread and calls the request's handler *with the manager's mutex locked*.  The
timer pump's tick `clear_message_manager` makes the service thread call
`ipcam_message_manager_clear`, which calls the handlers of overdue requests, with
the mutex locked as well.  The base app opens its sockets in its constructor, in
`before`, in handlers and in `in_loop`, all in the service thread; `stop` may be
called by any thread.

What is hard about it, and hence what the models are about:

* requests race their timeouts, their own second sending and late responses;
* waiting threads sleep on a condition variable that other steps signal, and
  their structs live on while others hold pointers to them;
* handlers run under a non-recursive mutex;
* the clock is read before the lock and compared without regard to sign;
* the timer process can crash, and forgets its timers;
* a table of names, a poller and a list of publishers are changed one after the
  other, with `stop` in between;
* any thread sends, on sockets without a lock, messages of several frames in
  several calls;
* a response object has two users, the service thread and the thread that waits,
  and each drops a reference of its own;
* a configuration lookup formats its key into a buffer that all threads share.

What makes each component correct:

* message manager: each registered request has its handler called exactly once,
  by response or timeout; a wait returns; no thread touches a waiter struct that
  is gone; the manager outlives the threads inside it; the mutex is given back;
* timer pump and manager: the pump runs the timers it was last asked for; ticks
  keep their distance, reach only apps that asked, and keep coming;
* sockets and loop: a polled socket has exactly one name and its right type,
  messages are read whole, the loop neither blocks nor spins, and `stop` ends it;
* config manager: a value is found under the path it has in the file; lookups do
  not disturb one another;
* base app: it comes up with the sockets its configuration names; a message
  reaches the handler of its kind, from the peer whose identity it claims; what is
  sent arrives whole and once; a response answers its request and is freed after
  its last use.

PROJECT.json lists the hazards one by one, each at its line, with the properties
that watch it.

## 2. The modules

### RequestLifecycle: what a sender counts on

A request, once opened, is answered or expires, once per opening, and can then be
opened again.  It knows nothing of threads, locks, clocks or networks.

MessageManager and BaseApp are each shown to implement it.

### MessageManager

`message_manager.c` with the callers that `base_app.c` gives it.  One action is
what a thread does between two points where another thread can interfere:

| code | actions |
|---|---|
| `ipcam_base_app_send_message` | `Register`, `Transmit` (which may fail or lose the message) |
| `ipcam_message_manager_handle` | `HandleLock`, `HandleCallback`, `HandleEnd` |
| `ipcam_message_manager_clear` | `ClearStart` (reads the clock), `ClearLock`, `ClearCallback`, `ClearEnd` |
| `ipcam_base_app_wait_response` | `WaitCall`: reads `priv->msg_manager` |
| `ipcam_message_manager_wait_for` | `WaitLookup` (takes the reference, looks the id up without the lock), `WaitEnter`, `Spurious` / `WaitTimeout` / being signalled, `WaitLeave`, `WaitReturn` |
| `ipcam_base_app_dispose` | `Dispose`: between any two of these steps |
| `ipcam_message_manager_finalize` | `DropManager`, a part of `WaitReturn` and `Dispose`: with the last reference both tables go |
| use of a table that was freed, by line 123 or with the manager | `UseAfterFree` |

`mutex` is only kept in the state while a handler may run under it; the other
critical sections are single steps.  `Expired` keeps the comparison of a gint
with a guint (modulo `UintModulus`).  Handlers are application code: the model
calls them and, for ids in `CallbackSends`, lets them send a request, which ends
in the pc `"relock"` for ever: the mutex is not recursive.  With `SharedWait` a
thread may wait for an id that another one sent, so that two can wait for the same
id and line 123 frees the table under the first.

Between `WaitCall` and `WaitLookup` a thread has the manager's address and no reference
to it: `Dispose` may come in between, and then `g_object_ref` and the assertion behind it
meet freed memory (`UseAfterFree`).  Nobody disposes of an app under a thread that is in
`send_message`, which goes on using the app itself.  Requests that are still registered
when the manager is finalized are forgotten with the table, their handlers not called:
that is why `RequestEnds` speaks of an app that lives.

Left out is only what no property of it tells apart: the object and function a
handler consists of, and the messages themselves, which MessageRefs adds.

### Messages, MessageRefs

`Messages` holds the message classes as operators.  An object is a function from the
names of its properties to values; `NewRequest`, `NewResponse` and `NewNotice` give the
defaults of the class and of its parent (`Over`: what the first function says, else
the second), `MessageToString` and `Parse` say which
properties the text has and how they come back, `ResponseTo` what a response takes
from its request.

`MessageRefs` EXTENDS MessageManager: each step of the service thread and of the
waiting threads is that of MessageManager together with what it does to response
objects, their reference counts and the texts they are made from.  `Receive` is
`ipcam_base_app_receive_string` with the parsing of a response and `HandleLock`;
`HandleEnd` gives the mutex back, and `DropMessage`, a step of its own, is the last
`g_object_unref`, before which the service thread begins nothing else.  `ReturnResponse`
is the end of `wait_for`, `CallerUnref` the caller that is done: both may come before
`DropMessage`, so that either side may be the one whose reference is the last.  What a caller may rely on is taken from the
result of the call: it has a response, and a reference to drop, when
`ipcam_message_manager_wait_for` returns TRUE.  `object` is a small pool of slots;
`Receive` waits while all are taken, which is a bound, not behaviour.

### TimerPump

The pump's poll loop and table, and per app the timer manager and the two message
channels.  Ids are sequences of characters so that the pump's key, their
concatenation, can collide as it does in the code.  `Crash` and `Restart` are
those of the timer process; a crash loses the table, the messages the pump had
not read and any suffix of the ticks that had not left.  Time is an age per entry
which stops counting at `MaxAge`, so the model needs no clock bound; `MaxAge` exceeds the
longest interval, so that a pump that was stalled is behind by more than one tick.

### ServiceSockets

The poll loop of `base_service.c`, the reading half and the opening of sockets of
`service.c`, and `socket_manager.c`.  `OpenCheck`, `OpenCreate`, `OpenAdd` are the
three steps of `ipcam_service_{bind,connect,subscirbe,publish}_by_name`; `Poll`,
`OnRead` (finds the name and the type in the table), `ReceiveStrings` (reads and passes on)
and `LoopTest` those of the loop; `Stop`, `CloseAll` those of `ipcam_base_service_stop`, at
any moment, between the two halves of a read as well.  Messages are frames, so that
reading one too many or too few shows, and a peer may send several strings in one
message (`Arrive(s, k)`), as `ipcam_service_send_strings` does for a timer request:
`on_read` takes one, so a server that gets several is out of step from then on (`odd`)
and can block in `zstr_recv` (`Blocked`), which the properties name as their exception.  Only the service thread opens sockets, as in every
caller of the library: the poller itself has no lock.

### AppStart

`ipcam_base_app_init` on top of ServiceSockets (EXTENDS): it connects to the timer
pump (`ConnectToTimer`), asks it for the clear timer (`AskForClearTimer`, which needs
that socket to be there) and opens what the four sections of the configuration list
(`EnterSection`, `OpenConfigured`, `SectionDone`: `g_hash_table_foreach` in any order, and a
name that is taken is refused).  `config` is any configuration.  Messages may already
arrive meanwhile; the loop, `stop` and further opening begin when the app is there.

### SendStrings

Sending, down to the frames handed to libzmq, by any number of threads: `ChooseToken`
is `ipcam_service_is_server` asking whether the message takes a token, `Lookup` the
second lookup of the same name in `ipcam_service_send_strings`, and the type (a SUB socket, or a ROUTER without a client id, is refused), `SendIdentity` the call
of its own with which a ROUTER socket is told the peer, `SendString` one string of
`zstr_sendm` / `zstr_send`.  libzmq, an environment, puts the frames of a begun message in
`buffer` and passes the message on with its last frame; `routed` is the peer a ROUTER
socket has been told, None for one it does not know, whose strings it drops.  `OnRead`
here is the other end, which takes a fixed number of frames at a time.  What is on the wire,
was heard and was sent are all sequences of frames, so that a border between two
messages is nowhere but in how many frames are read.  `overlapped`
remembers the sockets on which two sends were under way at once: what the properties
promise with and without that differs.

### ConfigManager

Loading the configuration in the base app's constructor, by one thread.  libyaml
is the environment: `WriteScalar`, `WriteStart`, `WriteEnd` produce any well-formed
document of one mapping, and remember which scalar it has at which path; each
event is at the same time one round of the loop in `process_layer` (`Scalar`,
`SequenceStart`, ..., `SyntaxError`).  `process_layer` is recursive, so its locals
`data`, `last_leaf`, `storage` are a stack of frames; `storage` keeps its bits.
`Flatten` is the traversal with `to_hash`, `Merge` the default token,
`GetCollection` the prefix search with its `+ 1`.  Keys are sequences of
characters (`config` counts as one) because that is what the prefix test sees.

### BaseApp

Sending apps and a serving app.  A sending thread goes through `get` (`FormatKey`,
`FormatRest`: `sprintf` writes the shared buffer in two halves, so that two threads
can leave a mixture; `Lookup`), `Register`, `Transmit`; other threads call
`GetConfig` for a setting of their own.  `ReceiveString` is one message through
`ipcam_base_app_receive_string` of the serving app: the token check, the lookup of
the handler by kind and name, and what the handler does, which in the tests is to
answer to the request's token.  `ReceiveResponse` and `Timeout` are the sender's
message manager as MessageManager promises it, reduced to which requests are
pending, answered or expired.  A token that was not found is sent as JSON null and
ends the serving app in `strcmp`.  `Lifecycle` reads RequestLifecycle's counters off the
three sets: from the sender's call through the token lookup, the socket, the serving
app and back, each request is opened once and answered or expired once.

### Proof modules, MC modules

`MessageManagerProofs`, `MessageRefsProofs` (which builds on it), `TimerPumpProofs`,
`ServiceSocketsProofs`, `AppStartProofs` (which builds on that), `SendStringsProofs`,
`ConfigManagerProofs` and `BaseAppProofs` hold theorems;
`MCMessageManager`, `MCMessageRefs`, `MCTimerPump`, `MCAppStart`, `MCSendStrings`,
`MCConfigManager`, `MCBaseApp` give the constants their small values.  Operators whose comment begins with
"Mutant" are single slips of the operator that follows them: no action uses them,
they document which mistake each property would notice.

## 3. The runs

| run | bounds | shows |
|---|---|---|
| `mm_core` | two clients with one message each, one of them with a handler, timeout 1, clock to 2, one sending each | no lost wake-up, the manager lives as long as it is used, early timeouts only after a stale clock, and the refinement of `RequestLifecycle` |
| `mm_live` | one client's message, sent up to twice, and one of the service thread, whose handler sends a request itself; fairness | exactly-once with resent requests and duplicate responses; unless that handler has been called, requests end, waits return, responses are handled and the mutex is given back |
| `mm_early` | one client, one message | **violated**: a timeout before its time |
| `mm_dup` | two clients, one message | **violated**: a refused wait throws the waiting thread out |
| `mm_free` | one client, one message, dispose | **violated**: a thread on its way into `wait_for` meets a manager that is gone |
| `mr_core` | two clients wait for one id, sent up to twice, answered with and without an error; two response objects; the refused wait frees the table | no use after free of a response or a waiter, what leads to a forgotten response, and that a response answers its request |
| `tp_core` | one app, one timer, intervals 0, 1, 2, ages to 3, two messages under way, crashes, fairness | the pump follows the last request; ticks keep their distance; timers keep firing under a stream of messages |
| `tp_collide` | two apps with two timer ids, two of whose pairs share a key | nobody gets ticks it did not ask for, even then |
| `ss_core` | any configuration of two names, three sockets, three frames each, messages of one or two strings, fairness | the app comes up as configured; names, reads, publishers, progress, stop |
| `sn_core` | two threads, three sends in all; a ROUTER socket with two peers, a DEALER to the timer pump, a DEALER to another app (whose messages carry the token), a PUB with a subscriber, a SUB, on which nothing can be sent; fairness | what is sent arrives whole and in order unless sends overlap; no string twice even then |
| `cm_core` | documents of up to five keys, items and nested collections over three keys, one of which is the beginning of another, and a value that reads like a path | scalars at their paths, nothing else in the table, collections |
| `ba_core` | two apps, one with two threads and a request, one with a thread and a notice of the same name, fairness | responses come home, wrong tokens only from the race, messages are served, requests from end to end |

Why the bounds are enough.  In MessageManager the state two threads share is per
message id, and the service thread is alone: two ids let a wait and a clear of
one message run into the handling of another, two clients let two waits overlap,
two sendings give a second response after the first was handled or timed out.
With timeout 1 and the clock at most 2 there are entries that are not due, due,
and registered after `now` was read.  In `mm_live` the two handlers, one that sends and
one that does not, are in one process, so that each property is checked before, after and
without the lock-up.  In TimerPump two queued messages give an
add and a remove in both orders, and intervals 1 and 2 a changed interval; four
pairs of ids with one collision are the smallest case of it.  In AppStart and
ServiceSockets one name can be asked for while another is open, twice and as another
type, a name can stand in several sections, among them the timer client's, and a
socket can hold a server's message of two strings, or one message and the beginning
of what a read out of step leaves behind; between two reads any more can arrive.  In MessageRefs two answers are what it takes to replace one that was not
collected yet, two waiting threads to have one refused, and no state has a third
object: there are two answers in all.  In SendStrings three sends over two threads let one begin between the two
calls of another and a third follow what they left on the socket; a peer that no one
knows, and `NULL` as client id, are among the receivers a caller may name.

In ConfigManager five items are what fits the time with three keys and the value with
a colon: a key that another one begins with, sequences in mappings and mappings in
sequences.  What needs more than that is the condition `~shape.nested`: six items write
two sequences in one another next to a scalar that their last item displaces.  With two
keys and `MaxItems = 6` TLC finds that without the condition `ScalarsAtTheirPath` is
violated, and with it holds; the theorem covers every bound.
In BaseApp the app whose lookups race has the other app's name among its settings,
the worst value a mixed-up lookup can yield, and an action and an event share
their name, so that only the kind tells the handlers apart.

Deadlock is checked everywhere but in `mm_live`, where a handler that sends
locks the process up: that is part of what the run is about.  Elsewhere the final states
(app disposed and threads idle, or loop ended) stutter explicitly.

Fairness.  Threads are scheduled (WF on their actions).  Strong fairness stands
where a thread needs something others take in turns: the mutex (`WaitEnter`,
`WaitLeave`), the service thread's attention to a response between its other
tasks (`HandleLock`; its other tasks are finitely many messages and a tick every
ten seconds), and a client's turn at the pump's ROUTER socket, which takes peers
in turn.  `WaitTimeout` is fair because a timed wait ends by itself; `Spurious`,
`Respond`, `Register` are not fair, nor is the delivery of a message.  `ClearStart`
is weakly fair: that is the timer pump's contribution, `TimerKeepsFiring`.  The rest of
what the service thread does, once begun, is one weakly fair action (`ServiceRuns`); from
`"relock"` it has no step.  The
poller is *not* assumed to be fair between sockets: czmq returns the first readable
one, so `MessagesPassedOn` promises progress, not that each socket gets its turn.
`AppFairness` says that the one thread runs: `init`, a socket it is opening, then the
loop.  In SendStrings a thread that sends goes on (`SendStep`), and receivers read
(`OnRead`); nothing makes a thread send, or the service close.  In BaseApp the threads
that send, the serving app and the apps that receive responses run; timeouts, new
messages and handlers being registered are not fair.

### Disagreements found

* `mm_early`: `ipcam_message_manager_clear` reads the clock before it locks the
  mutex; a request registered in between has a time after `now`, and the negative
  difference, compared as unsigned, is larger than any timeout.  The request is
  timed out at once and its response later finds nobody.  `EarlyOnlyIfStale`, which
  is proved, says that this is the only way.
* `mm_free`: `ipcam_base_app_wait_response` passes on `priv->msg_manager`, and only
  `wait_for` takes a reference to it; an `ipcam_base_app_dispose` in between frees the
  manager first, and `g_assert(IPCAM_IS_MESSAGE_MANAGER(message_manager) && ...)` is met
  with freed memory.  `ManagerOutlivesWaiters`, which is proved, says that from
  its reference on a thread is safe.
* `mm_dup`: the refusal branch of `wait_for` calls `g_hash_table_unref(priv->waiter_hash)`
  where it should drop its reference to the manager.  The first waiter's table is
  freed and the manager is never released.

## 4. What is proved

`MessageManagerProofs.tla`, for any finite set of clients, any messages, timeouts
and bounds, from the assumptions named in MessageManager (`ThreadsAssumption`:
finitely many clients, none of them the service thread, each message with an
owner; `HandlersAssumption`; `NumbersAssumption`: numbers are naturals and
`UintModulus` exceeds the clock; `NoneAssumption`: NULL is none of the values).

The invariants are not inductive by themselves.  `IInv` adds to them what relates
program counters to local variables:

* `ServiceInv`: inside `handle` the response's request is still registered, which
  holds because `register` and `handle` exclude each other through the mutex; `todo`
  is a part of what is overdue; the local `now` is not ahead of the clock;
* `ReqInv`: every call under way has a message id;
* `RefsInv`: references are at least those in use (equality fails when a wait is
  refused, which leaks one).

Theorems from `IInv` alone, with misuse allowed: `InductiveInvariant`,
`TypeCorrect`, `WaitersAlive`, `MutexDisciplined` (the service thread holds the mutex
exactly while it handles or clears), `EarlyTimeoutIsStale`, `HandlerCalledOnce`,
`LifecycleImplemented`.  The last two rest on `LifecycleSteps`:
each step opens one request, answers one, expires one, or leaves the lifecycle
alone.  Exactly-once is then the sum of what each of the four does to the counts.

Theorems that also need `~SharedWait` (only the sender of a message waits for its
response): `NoWakeupLost` and `ReferencesExact`.  They rest on `OwnInv`: each thread
inside is the owner of its id, so it stays registered and no wait is refused; and the tables are there as long as there are
references.
`mm_dup` shows that the assumption is needed.

`TimerPumpProofs.tla`, for any client and timer ids (sets of any sequences, so their
concatenations may collide), any intervals, any capacity of the channels, with
crashes, from `NumbersAssumption` (`MaxAge` and the capacity are naturals, no interval
exceeds `MaxAge`) and `NoneAssumption`.  Its `IInv` adds to the types:

* `KeyInv`: an entry is stored under the key of its own client and timer;
* `AskedInv`: a message to the pump, an entry and a tick under way were each asked
  for by the app they belong to, the first two with an interval no shorter than the
  shortest asked for; and an entry is no older than the last tick of its timer,
  which is what makes ticks keep their distance across removals and crashes: a tick is
  sent only when the entry's age has reached its interval (`TickFromEntry`), so the last
  tick is at least that long ago.

Theorems: `InductiveInvariant`, `TypeCorrect`, `PumpFollows` (for ids whose key no other
pair shares), `OnlyAsked` and `TicksApart` (for all ids).

`BaseAppProofs.tla`, for any apps, threads, messages, names and settings, from
`HomeAssumption` (each thread and message belongs to an app, no message is both a
request and a notice) and `NoneAssumption`.  `WrongTokenOnlyAfterRace` says nothing of the
buffer through which a wrong token comes, and `ResponsesComeHome` nothing of the message
before its response; `IInv` adds:

* `ThreadInv`: a message is with one thread, of its own app, and no longer unsent;
* `RaceInv`, `BufferInv`: threads of one app that look up different names have been
  noticed (`raced`), and in an app that has not been, the buffer holds what each of its
  threads has written so far, so that what a thread finds is its app's token;
* `PlaceInv`: what is on its way is no longer with its sender, and is on one channel,
  once; on the way back it is a request that is pending or expired;
* `RegisterInv`: a request is registered between `Register` and its end, and has not
  ended both ways.

Theorems: `InductiveInvariant`, `TypeCorrect`, `OnlyAfterRace`, `ComeHome`, and
`RequestsLive`, the refinement of `RequestLifecycle` (a step that registers opens a request
that was not registered before, one that handles or times out ends a pending one;
`Counted` carries the sets over to the counters).

`ServiceSocketsProofs.tla`, for any sockets, names, configurations and queue lengths,
from `BoundsAssumption`, `LengthsAssumption` (a message has a string) and `NoneAssumption`
(NULL is none of the values).  A socket is
made in one step, entered in the table, the poller and the list of publishers in the
next, and `stop` can come in between; `IInv` says what holds in the middle:

* `OpenInv`: the name being opened is free, and the socket made for it has its type
  and no name yet;
* `TableInv`, `NamedInv`: no socket has two names, the table knows its type, and until
  `stop` every socket has a name or is the one being opened;
* `FoundInv`: what `on_read` has found of a socket is its type, although the table may be
  emptied before it reads;
* `FrameInv`, `HeardInv`: what waits at a socket is whole messages of its type
  (identities and strings take turns at a ROUTER, unless several strings came at once), so
  each read leaves whole messages.

`PublishNamesOpen` needs no strengthening of its own, only `OpenInv`: an open publisher is
listed, at all times, and until the stop the list has each once and nothing else.

Theorems: `ServiceInvariant`, `ServiceTypes`, `SocketsNamed`, `ReadsWholeMessages`,
`PublishersListed`.

`AppStartProofs.tla`, for any configuration, from `TimerNameAssumption` (the timer
client's name is a name) and those of ServiceSockets.  `AppRefinesService`: each step of
an app that starts is a step of the service or leaves it alone, so the four invariants
above hold from the first step of `init` on (`AppSocketsNamed`, `AppReadsWholeMessages`,
`AppPublishersListed`).  `AInv` adds `StartInv`: before `init` returns, the types under
each name are those that the sections gone through so far ask for, the first section
winning.  From it `StartOpens`, the action property that `init` ends with exactly what
the configuration lists.

`MessageRefsProofs.tla`, for any clients, ids, objects and codes, from the assumptions of
MessageManager and of MessageRefs (`ObjectsAssumption`; `BodyAssumption`: a response has a
body; `NoObjectAssumption`: NULL is no object).  `RefRefinesManager`: the object steps are
steps of MessageManager, so its theorems hold here as well (`LifecycleWithObjects` is
one).  `RInv` is MessageManager's `IInv` with

* `SentInv`: whatever is under way for a message, as request, as response or as the
  message that a waiter was given, was sent;
* `TextsInv`: what comes in was made by the server of that request's text, through
  `Parse` and `MessageToString` on both sides;
* `ObjectInv`, `SlotInv`, `LateInv`: an object is there exactly while it has references,
  and which pc goes with which user of it.  `NoUseAfterFree` itself counts the users, the
  service thread being one until `DropMessage`, and needs no order between them.

Theorems: `RefInvariant`, `RefTypes`, `ResponsesAlive`, `RightAnswer`, `ForgottenWhy` (an
action property: what a step that loses the last user of an object without freeing it
must have been).

`SendStringsProofs.tla`, for any threads, sockets and receivers and messages of any
number of strings, from `NamesAssumption` (a DEALER has one peer) and
`FramesAssumption` (NULL, identities and texts can be told apart).  `IInv` adds:

* `JobInv`: what a thread knows at each pc; between the two lookups of the name the token
  is right or the name is gone;
* `AloneInv`: on a socket without an overlap there is nobody in the middle of a message,
  or one thread, and libzmq holds back exactly the strings it has sent so far, for the
  peer it named;
* `UsedInv`, `OnceInv`: every string that is anywhere was sent by its thread at an earlier
  point, so the next one is new;
* `KeptInv`: on a DEALER or PUB what was sent is read, readable or held back;
* `ArriveInv`, `TokensInv`: what is heard and readable together is what was sent.

Theorems: `SendInvariant`, `SendTypes`, `SendsArrive`, `StringsArriveOnce`.  The last one
needs nothing about overlaps: it holds of any interleaving of the calls into libzmq.

`ConfigManagerProofs.tla`, for files of any size with any names, from
`NamesAssumption` (scalars are sequences of characters; those used as keys of mappings,
the sections' names and the token's have no colon, while a value or an item of a sequence
may, as an address does; `token` is no section) and `ItemsAssumption`.  The code keeps a
tree and a stack of calls, the properties speak of paths and keys; between them the
invariant puts `at`, the path of every node, which exists because a node is added after
its parent:

* `PathsInv`: a node's path is its parent's and its own name;
* `OpenInv`, `FileInv`: the collections that are open are mappings up to a first
  sequence, each named by the key under which the next one stands; `KeyedInv`, a part of
  it: the paths of the file are of keys;
* `FramesInv`: the call of `process_layer` for a mapping outside sequences stands at
  the mapping's path, with `storage` at VAR or VAL as a key or a value comes next.
  While a sequence is written under its key, `storage` is SEQ, perhaps with the bit of
  VAL that the end of a mapping flips, and whatever comes in goes below that key:
  this is why sequences disturb nothing outside, and it needs `~shape.nested`, since
  the end of an inner sequence sets `storage` to VAR while the outer one goes on;
* `KeysInv`, `ApartInv`: below an open mapping there are only its keys, and no scalar
  stands above what is still written;
* `ScalarsInv`: a scalar of the file is held by one leaf, the only child of its path;
* `LeavesInv`: in a file of mappings that are not empty, every leaf is a scalar;
* `ItemsInv`: a node whose path is not of keys alone is an item of a sequence: it is
  below a path of keys at or below which no scalar stands (`Sequenced`), so what its
  colons do to its key cannot make it another scalar's;
* `TableInv`: after `Flatten`, the table has each scalar under its key and no others.

`Flatten` needs the lemmas on keys: `Joined` is the recursion of `to_hash` along a path
(`JoinedAppend`), the last colon tells where the last name begins, so two paths of keys
have two table keys (`JoinedInjective`), and `KeyOf`, which follows the parents, is
`Joined` of `at` (`KeyOfIs`).  An item's table key begins with that of its sequence, and a
path of keys whose table key begins so is at or below the sequence (`CutJoined`,
`CutBegins`), where no scalar stands.  `GetCollection` needs that a key that begins with
`config:` and a section has a first name that begins with the section (`FirstName`).
The library's induction theorems are out of the provers' reach (an operator as
parameter), so `Induct` and `SeqInduct` state them for sets, from the well-foundedness
of `<`.

Theorems: `ConfigTypes`, `ConfigInvariant`, `ScalarsKeepTheirPath`, `TableHasNothingElse`,
`CollectionsAreSections`.

Only model-checked: all liveness properties (fairness and ENABLED are beyond the
prover).

## 5. What is not modelled

* GObject boilerplate, and the JSON text of messages as text: `Messages` has what the
  conversions keep and lose.  A text that does not parse or has no head is not
  generated: the code does not check for it.
* Who frees a body that is given to a message with `g_object_set`.
* `wait_for`'s out-of-memory branch: `g_new0` aborts instead of returning NULL.
* What handlers do beyond answering and, in `mm_live`, sending; application code.
* In a configuration file: a key twice in one mapping, a colon in a key, and the empty
  file, which leaves an entry under `config`.
* Notices to subscribers beyond their two frames in SendStrings: nothing answers them.
* Two threads inside libzmq on one socket at the same moment, and the poller used by
  two threads: undefined there, listed as hazards.
* Key memory in the timer manager: a hazard, with the reason.
* A full queue delays a tick or message in TimerPump, where ZeroMQ drops at its
  high-water mark of a thousand messages; the channels of BaseApp and SendStrings are
  not bounded, their traffic is.
* Two apps with the same token: ZeroMQ refuses the second peer with an identity.
* YAML documents with aliases or with collections as keys, several documents in a
  file, keys longer than `PATH_MAX`.
* `delete_by_name`, `delete_by_socket`, `has_socket` of the socket manager, which
  nothing calls.

## 6. Plan

In this order, the most important behaviour first:

1. *done* RequestLifecycle, MessageManager, its proofs.
2. *done* TimerPump and its proofs; ServiceSockets.
3. *done* ConfigManager, BaseApp.
4. *done* AppStart, SendStrings, Messages and MessageRefs; BaseApp implements
   RequestLifecycle from end to end, with its proofs.
5. *done* Proofs about ServiceSockets and AppStart, MessageRefs, SendStrings.
6. *done* Proofs about ConfigManager.

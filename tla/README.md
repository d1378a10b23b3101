# libuv_net in TLA+

A TLA+ development of the TCP library in this repository: models of its parts,
TLC runs that check them on small instances, and proofs that TLAPS checks for
every instance.  Everything is translated from the C++ sources; libuv and the
kernel, which are not part of the repository, are modelled from how the sources
use them and are marked external in PROJECT.json.

## 1. The system

| part | source | state | operations | hard about it |
|---|---|---|---|---|
| Packet and framing | `include/libuv_net/message.hpp`, `Session::send/on_read/process_buffer`, `Client::send/append_to_buffer` | the receive buffer | serialise, write, append a chunk, cut packets out | chunks end anywhere; writes are taken in part; the buffer outlives a connection |
| Client | `src/client.cpp` | `is_connected_`, `is_connecting_`, `socket_`, `heartbeat_timer_`, `loop_thread_`, `should_stop_` | start, stop, connect, disconnect, send; on_connect, on_read, on_write, on_close, on_heartbeat_timer | no lock between the application's calls and the callbacks; a close is reported later; handles are reused |
| Session | `src/session.cpp` | `is_closing_`, `socket_`, `read_buffer_`, handlers, heartbeat | start, stop, close, send, the callbacks | the life of the object; the heartbeat |
| Heartbeat | both of these | `last_heartbeat_time_`, the timer | start, fire, send, receive | late timers and late packets; measured only when the timer fires |
| Server | `src/server.cpp` | `server_`, `sessions_`, `is_listening_`, `loop_thread_` | start, stop, listen, stop_listening, on_connection, broadcast, send_to | `sessions_` is shared between threads without its mutex |
| ThreadPool | `src/thread_pool.cpp` | `tasks_`, `stop_`, workers | submit, enqueue, destructor | wake-ups, draining, shutdown |
| Interceptors and routing | `message.hpp`, `json_interceptor.hpp`, `protobuf_interceptor.hpp`, `Session::handle_packet` | handler maps | which handler gets which packet | several maps, several early returns |
| Qt wrapper | `qt_wrapper/` | | | written against an older API; does not compile here |

The application creates a `Server` or a `Client`, registers handlers and calls
`start()`, which makes a thread that calls `uv_run(UV_RUN_NOWAIT)` every 10 ms
until `should_stop_`.  All callbacks, and the handlers they call, run on that
thread.  The application's own threads call `connect`, `disconnect`, `send` and
`stop` on the same object without a lock.  `Server::on_connection` makes a
`Session` for each connection; a session parses what arrives, keeps the
heartbeat and hands packets to its handlers, which lead to those of the server.
The two ends share nothing but the byte stream.

What makes each part correct:

* framing: the handlers see the packets that were sent, whole, in order, each
  once, as soon as all their bytes are there; nothing of one connection is seen
  on another;
* routing: each packet reaches the one receiver that the settings in force, those
  of the server among them, entitle to it, also when a handler changes them in the
  middle of a chunk, and none after the close was reported;
* client: the two flags say what the socket does; a close is reported once and
  every attempt ends; libuv is never given a handle it aborts on; the timer
  belongs to the connection that started it; `stop()` and the destructor return;
* connection: an end that closed, or fell silent, is noticed by the other; no
  session stays behind at the server for a client that has gone;
* heartbeat: a dead peer is noticed in time, a live one is not dropped;
* server: every session is listed from its connection to its close and reported
  once, and a broadcast reaches all of them;
* thread pool: every task queued before the end runs once and the destructor
  returns.

## 2. Modules

| module | models | theorems in |
|---|---|---|
| `PacketStream` | abstract: what one direction of a connection promises | |
| `Framing` | one direction of a connection, byte stream and parsing loop | `FramingProofs`, on `SequenceFacts` |
| `MCFraming` | the packets of the runs | |
| `Routing` | which handler a packet reaches, at a session and at a client | `RoutingProofs`, on `SequenceFacts` |
| `ConnectionLifecycle` | abstract: one connection at a time, each close reported | |
| `Client` | the client's calls and callbacks, step by step | `ClientProofs` |
| `Connection` | a client, the network, and the sessions of its attempts; extends `Client` | `ConnectionProofs`, on `ClientProofs` |
| `Heartbeat` | the heartbeat of both ends, in time | `HeartbeatProofs` |
| `SessionRegistry` | abstract: a session joins, leaves once, is reported once | |
| `Server` | the server's calls and callbacks and the life of its sessions | `ServerProofs` |
| `TaskQueue` | abstract: tasks run once, in order, and all of them before the end | |
| `ThreadPool` | workers, callers and destructor of the pool | `ThreadPoolProofs`, on `SequenceFacts` |

### Framing

The stream is a sequence of cells: four for a header, one for each field of
`PacketHeader`, then one for each byte of the payload.  Cells of headers and
payloads are compared with each other, so a parser that lost its place reads
payload as header, as the code would.  `stream` is what the kernel took,
`arrived` how much of it `on_read` has handed over, `read_buffer` is
`Session::read_buffer_` or `Client::buffer_` (the two loops are the same but
for what happens at a reconnect: a session is a new object, a client keeps its
buffer; `Receiver` chooses).  `Send` is `send()` with `uv_write`'s attempt to
write at once: what the kernel does not take stays `queued`, and since the
vector is gone by then `Flush` writes cells out of `Garbage`.  `OnRead` takes a
chunk of any length; `ProcessPacket`, `ProcessFailure` and `ProcessDone` are
the three ways a round of the parsing loop ends.  `sent`, `sent_end` and `torn`
record what was handed to `send()`, where it ends in the stream, and whether
some write was not taken whole.

`read_handler_`, which lets a user of `Session` take the bytes before they are
parsed, is left out: nothing in the library sets it.

### Routing

`side` chooses the code: a session, behind whose default handler stand the tables
of its server (`Server::on_connection`), or a client.  `OnRead` brings a chunk of
whole packets, `Dispatch` is `handle_packet()` up to the call of a handler and
`Return` the end of that handler and the erasure of its packet, so that whatever
a handler may do (`SetPacketHandler`, `SetDefaultPacketHandler`,
`AddInterceptor`, `SetServerHandler`, `SetServerDefault`, `Close`) happens between
the two, with the rest of the chunk still in the buffer.  `step = "greet"` is the connect handler,
which runs before any packet.  `log` says who got each packet, `since` from which
packet on each setting held, whether it was made on the end or on the server.  The
empty handler for HEARTBEAT that `on_connection` gives a session
(`server.cpp:154`) is not in the tables: the session takes heartbeats before it
looks there.  Payloads are what the interceptors tell apart:
`DecodesJson` is the parser, `DecodesProtobuf` the look-up of
`"google.protobuf.Message"`, which no pool of generated messages contains, so the
interceptor refuses every message.  `send_data()` with a value of the wrong kind
sends an empty payload (`SerializeJson`, `SerializeProtobuf`).  The types PING,
PONG and BINARY are treated like TEXT.  A `JSON` dump that throws for invalid
UTF-8 is left out.

### Client

`caller` says where the calls of a behaviour come from: a thread of the
application's (as in `tests/client_test.cpp`), so that the statements of its calls
and those of the callbacks come in any order, or a handler, on the loop thread, so
that callbacks run between calls only.  `app` says where the application is inside
a call, at most one at a time, and `cb` where the loop thread is inside a callback:

* `connect()`: `Connect` and `AskConnecting` (the two flags are read one after the
  other), `InitSocket` or `InitRawSocket`, `StartConnect`, `MarkConnecting`;
* `disconnect()`: `Disconnect`, or `CallbackDisconnects` where a callback calls it,
  then for either `CheckClosing`, `CloseSocket`, `ResetConnected`,
  `ResetConnecting`, `StopHeartbeat`; `on_close` ends with the last three, too;
* `on_connect()`: `OnConnect`, `ReadStart` or `ReadStartFails`, `SetConnected`,
  `AttemptEnds`, `StartHeartbeat`; after `OnConnectError` and `ReadStartFails`,
  `AttemptEnds` alone;
* `stop()`: `Stop` and `Join`; the destructor: `Destroy`, then what `stop()` and
  `disconnect()` do, and `DeleteLoop`.  A call of `stop()` from a handler would join
  its own thread, so for either caller it stands for one from outside.

A single access to a flag and a single call into libuv are atomic and seen at once,
nothing larger is.  The flags are plain bools: the code has a data race there, and
what a compiler may make of it is not modelled.  `on_close` is entered in the step
in which libuv finishes the close, and the two reads of the flags at the head of
`disconnect()` are one step: a flag that changes between them is one that the next
steps meet as well.

Nothing makes `connect()` wait for `on_close`; `hasty` records that a `connect()`
did not, and the properties that need it to wait say so.  `socket` is the state
of the libuv handle; "raw" is memory no constructor wrote to, and `RawReadings`
is what libuv's flags may read as there; "zombie" is a handle that was
initialised anew while a close was queued, opened again, and is then marked
closed by the close that was queued.  `fault` is what libuv aborts on.

### Connection

Extends `Client`: every step of the client is a step of that module, and beside
it `held` follows from what the step does to `socket_` (`Descriptors`): which
attempts' descriptors the client's process has open.  `uv_close` closes one at
once, a handle initialised anew forgets the one it had.  For each attempt there
is at most one session: `Queue` is the kernel of the server, `Accept`
`on_connection`, `ReadsEnd` the end of the stream, `SessionCloses` the application
or a write error.  `Cut` makes the network swallow what is sent, without telling
either end.  The guards of the client's callbacks are those of `Client` and what
the network makes true: an attempt succeeds only when the server's kernel answered,
the end of the stream is read only when there is one.

The session's own heartbeat is here as far as it can be without time: `watching`
says whose timer is started, `heard` whether a heartbeat of the client's came since
it fired last (`Hears`), and `TimerFires` closes a session that heard nothing.
Where the code compares ages, the expiries that fit in a timeout are one; how they
are counted is `Heartbeat`'s business.  The server's application may close a
session, or stop and start it (`StopSession`, `RestartSession`).  `Server::stop()`
and `start()` leave the sessions as they are (`server.cpp:38-69`) and have no action
here: while a server is stopped, `Accept`, `ReadsEnd`, `Hears` and `TimerFires` do not
happen, which is one of the behaviours of a server that runs; only the fairness
(`ServerIsFair`) says that it is started again.  `Server` has both as actions.

### Heartbeat

`age[e]` is the time since `last_heartbeat_time_` of end `e`, `wait[e]` the
time since its timer fired, `inflight[e]` the heartbeats under way to it.
`Tick` lets time pass as long as no timer is more than `MaxLate` overdue and no
packet under way for more than `MaxDelay`.  `Cut` is the silent death of the
network.  A session takes a heartbeat as a sign of life
(`Session::handle_packet`), a client does not.

### Server

`caller` says where the application's calls come from in a behaviour: a
handler, on the loop thread, so that callbacks run between calls only, or a
thread of the application's, so that its steps and those of the callbacks come in
any order.  `Destroy` and `DeleteLoop` are the destructor.  The calls with steps are
`broadcast()` (`Broadcast`, a `BroadcastNext` for each round of the loop, which ends
with `send()`'s check of `is_closing_`, `Write` for the rest of `send()`, and
`BroadcastDone`), `send_to()` (`SendTo`, then `Write`), `Session::close()` (`Close`
for the checks, `CloseTarget` for the flag and `uv_close`) and `stop()`.  A callback
that closes a session has the same two steps (`CallbackCloses`, `CallbackClosed`;
`cb` is the session in between).  `uv_write` refuses a handle that was closed since
the check (`Written`); `uv_close` does not (`fault = "close"`).  Setting
`is_closing_` and `uv_close` are one step: whoever comes between them finds the flag
and returns, as after them.

`sessions` is the vector; while a walk is under way `moved` records that `push_back`
reallocated it, which the model leaves open at every `OnConnection`, and an iterator
into a vector that moved, or one past the end of a vector that shrank, is
`fault = "dangling"`.  An erasure under the iterator also moves the rest of the list
down, so that a walk which meets no dangling iterator may pass over a session;
`shrunk` records it.  `send_to` walks the same vector with nothing in between: its
walk could only meet what broadcast's does.  The loop thread accepts
(`OnConnection`: constructor, list, handlers, `start()`), closes sessions
(`OnReadError`, `OnHeartbeatTimeout`) and reports (`OnSessionClose`).  The library's
handler removes a session from the list; `SetCloseHandler` is the application
putting its own in its place.  Two threads inside one libuv function at once, as in
a `send` beside a callback, are a data race and not modelled beyond the order of
their calls.

### ThreadPool

One step for what happens between lock and unlock, one for each notification
after it.  A worker is at "check" from the time it may have the mutex until it
looks at the predicate, so a spurious return of `wait()` (`WakeUp`) and the
start of the loop lead there too.  Tasks are numbered as they are accepted; a
running task may submit others.  The caller between its unlock and its
`notify_one()` is in `notifying`.

## 3. Runs

Runs that pass:

| run | question | bounds |
|---|---|---|
| `Framing_session` | is the stream of packets delivered as sent, whatever the chunks, and is every packet dispatched in the end? | 3 of 3 kinds of packet, 2 connections, a kernel buffer of 9 cells |
| `Routing` | is each packet dispatched once, in order, to the handler entitled to it, and none after the report of the close? | 3 packets of 7 kinds, chunks of up to 2, 2 settings on the end or on the server |
| `Client` | do flags, timer, socket and reports agree, does the client implement the life cycle, does nothing stay pending, do `stop()` and the destructor return? | 4 connects, 3 starts, calls from handlers and from a thread |
| `Connection` | is `is_connected_` about the last attempt, does every session end whose client does not talk to it, does a client learn of its loss? | calls from handlers, 2 connects, 2 starts, 2 sessions |
| `Heartbeat_detection` | is a dead peer noticed in time and a live client trusted? | interval 3, timeout 9, timers up to 2 late, packets up to 2 under way |
| `Server` | does the list hold the open sessions, does a broadcast reach them, is a silent client dropped, are calls from handlers safe? | 2 sessions, 1 broadcast or send_to, 2 starts |
| `ThreadPool` | is each task run once and in order, is no wake-up lost, is the queue drained at the end? | 3 workers, 2 callers, 4 tasks |

The packets of the framing runs are an empty heartbeat, an empty-length boundary
case, and payloads whose cells are valid versions and lengths, so that a parser
that is one cell off finds headers everywhere; nine cells hold one packet and
part of another, so writes are torn at every place of a packet.  In `Routing`
three packets in chunks of two are enough for a setting made while the first of a
chunk is handled to meet the second and one in a chunk of its own; two settings
for any two tables to meet, those of a session and its server among them.  Four
connects are enough for an attempt that fails, one that succeeds and is closed, one
made before that close is reported, and one after it, with the start and stop of the
loop anywhere between.  `Connection`
needs two: a session left behind and the one that follows; what `connect()` finds
in raw memory is `Client`'s business, so `RawReadings` is one value there.  Its
calls come from handlers, for size: a thread, with one connect and two starts, was
checked once for all its properties (19,168 states), and with two connects and one
start for its invariants (855,387); what the theorems say holds for both.  The
heartbeat keeps the code's ratio of 90 s to 30 s; lateness and delay of two
thirds of an interval are far beyond the loop's 10 ms.  Two sessions are enough
for one to come or go while the walk is at the other; a second broadcast would
meet the list in no state the first cannot meet.  A third session is what it
takes to see one passed over (below); the theorems hold for any number.  Three workers allow one that
runs, one that waits and one that wakes by itself; four tasks are one more than
there are workers.

Fairness: the loop thread calls `uv_run` every 10 ms, so bytes that arrived are
read, due timers fire and finished closes are reported (`FairSpec` of each
module); the kernel answers a connect request in the end; a call or a callback that
was entered goes on, and a destructor that was entered makes its calls.  In
`Client` the fairness of the loop is strong: each poll runs all that is due, so
that a close waits for no other callback, however often those come.  A client
falls silent in the end: `Server` treats the heartbeat's time-out as due, the
real timing is `Heartbeat`'s.  In `Connection` each liveness property
names the fairness it rests on.  `LossIsLearned` is promised where the client's
process is scheduled as in `Client`, the end of a stream arrives where the network
is whole, and the client's timer fires where nothing arrives (`ClientIsFair`, with
`Silent`); the server owes nothing.  `NoSessionIsAbandoned` is promised where the
server's loop accepts and the timers it started fire (`ServerIsFair`); the client may
do, or leave, what it likes, the network may be cut, and no read is owed.  In the pool,
threads that can run do and tasks return; nothing makes `wait()` return early.
Nothing makes the application call again.

What the properties leave out, and why:

* `ListedUntilClosed` states the list as the code keeps it: a session whose close
  handler was replaced stays on it for good.
* `AudienceReached` is about broadcasts that return, and excepts a walk under
  which the list shrank.  With three sessions, `erase()` moves the third into the
  place of the second after the iterator has passed it, and a session that is
  open gets nothing; it is the race of `Server_race` with a quieter outcome.
* The flags are behind the socket while a call or a callback is under way
  (`AtRest`).  Where a thread calls, they may stay so longer: `disconnect()` between
  two statements of `on_connect()` (`client.cpp:166-182`) leaves `is_connected_` set
  on a socket that is closing, or a timer without a connection; `on_connect()`
  between those of `disconnect()` a flag set and no timer.  Either way a close is
  due, and its report puts things right, so for a thread `ConnectedIffReading`,
  `TimerImpliesConnected`, `ConnectedThroughLast`, `Watched` and `LossCanBeHeard`
  speak of the times when none is (`Settled`).
* `ConnectedIffReading` and `ReportsAreDue` are about an application whose
  `connect()` waits for the report of the last close (`~hasty`).  For one that
  does not, libuv finishes the old close on the new handle (`OnStaleClose`): it
  aborts, or cancels the new attempt, and no report comes.  `TimerImpliesConnected`
  and `HandlersConnectingExact` hold for it all the same when it calls from
  handlers.  On a thread a `connect()` that reads one flag before `on_connect()`
  and the other after it has not waited either: it finds neither set, and
  `init_socket()` closes the connection that was just made, with no report.
* `ImplementsLifecycle` is a promise to an application that calls from handlers
  and waits; the mapping shows any other an idle connection (`Promised`).
* `NoSessionIsAbandoned` rests on the session's own heartbeat, which needs neither
  the client nor the network, nor that the session reads; the run fails if
  `start()` leaves the timer out, or if the timer takes the session's own heartbeat
  for the client's.  It holds for the session of an attempt whose descriptor the
  client lost, too.  Excepted is a session the application stopped, which has no
  timer and stays open; that a server whose loop is stopped for good closes nothing
  either is in the fairness.  That the timer of every other open session is started is in
  `ConnectionTypeOK`.
* `LossIsLearned` has one exception, a client whose timer `stop()` stopped and
  `start()` did not start again: when then the network is cut, it says for ever
  that it is connected.
* The properties of `Client` and `Server` that are not about an abort are about
  the process before one (`fault`).

Runs that show a disagreement between the code and what the repository says of
it (each is in PROJECT.json's findings with the lines quoted):

| run | what happens |
|---|---|
| `Framing_torn` | a write the kernel takes in part is finished from freed memory |
| `Framing_reconnect` | the rest of a packet from one connection is completed by the next |
| `Client_stuck` | `on_connect` runs before `connect()` sets `is_connecting_`, which then stays set |
| `Heartbeat_client` | the client drops every server after the timeout |
| `Server_race` | `broadcast()` on one thread, `on_connection` or a close on the other: the iterator dangles |

Further defects the models show, which have no run of their own:

* the first `connect()` passes a raw `uv_tcp_t` to `uv_is_active`
  (`fault = "garbage"`);
* `disconnect()` on a thread and one in a callback on the loop may both find the
  socket open and both call `uv_close`: libuv aborts in whichever comes second
  (`fault = "close"` in `Client`), and so may `Session::close()` (in `Server`);
* a failed attempt keeps its descriptor until the next `connect()` loses it, and
  tells no handler; when `uv_read_start` fails, `on_connect` has reset
  `is_connecting_` and not yet set `is_connected_`, so `disconnect()` closes
  nothing (`ReadStartFails`, `AttemptEnds`);
* `~Client` and `~Server` delete a loop whose handles are open: the client's timer
  is never closed, nor are a server's sessions (`fault = "handles"`);
* a packet of another version clears the buffer in mid-stream and the parser goes
  on at an arbitrary place (`ProcessFailure`);
* with the `ProtobufInterceptor` added, no Protobuf packet reaches a handler
  (`DecodesProtobuf`);
* a handler for HEARTBEAT set on a server is never called, although
  `tests/server_test.cpp:61` sets one: the session keeps heartbeats to itself
  (`Receiver`);
* a default handler set on a session cuts off all handlers of the server
  (`ServerReceiver`, which is the session's default handler).

Some that need no model: a frame is not what `README.md:92` says; nothing
reconnects, as `client.hpp:21` says it would, and the retries of
`tests/client_test.cpp:17` see only an attempt that fails at once; a server cannot
listen again after `stop_listening()`, whose handle stays closed; the handlers
`Server::on_connection` installs hold the session they are installed in, so no
session is ever freed, and `close()` leaves its timer running; `Client::on_read`
does not free its chunks; a pool made where `hardware_concurrency()` is 0 has no
worker.

## 4. Proofs

Every safety invariant of the passing runs, every action property and every
refinement is proved for all values of the constants, under the assumptions named
with the constants and the hypotheses named here.  In each module the argument is
an inductive invariant `IInv`, with a lemma for each action or group of actions
that may disturb it.  Three kinds of theorems say more than the runs do:

* the other side of a disagreement.  A run that expects a violation shows that a
  claim fails; a theorem says under which discipline of the application it holds,
  and thereby that nothing else breaks it: `TidyClientsAreServed` for
  `Framing_reconnect`, `RoomyConnectionsAreIntact` for `Framing_torn`,
  `ConnectingIsExact` for `Client_stuck`, `ListIsGuardedFromHandlers` for
  `Server_race`.  For `Heartbeat_client` there is none: `ClientIsNeverReassuredEver`
  is the reason it fails, whatever the interval and the timeout;
* the safety core of a liveness property: that the step it waits for stays
  possible, or that a measure goes down, so that only the fairness of the loop is
  left to the runs: `LossCanBeHeardAlways` for `LossIsLearned`,
  `NothingReassuresAfterCutEver` for `DeadPeerIsDropped`, `SessionsAreWatched` for
  `SilentClientIsDropped`, `StopIsToldAlways` (client and server) for `StopReturns`;
* what is over is over: `NothingAfterDestructor` (client and server) and
  `NobodyUsesGonePool` say that no step of a callback, a worker or a caller comes
  after the destructor returned.

The properties that only theorems state are defined in the proof modules; TLC found
no counterexample to them within the bounds of the runs before they were proved.

`FramingProofs`: `TypeCorrect`; `DeliveredInOrder`, `BufferHoldsBacklog`,
`NoPacketLeftBehind` and the refinement `FramingImplementsPacketStream` for a
sender of the same version whose payloads fit the length field and a receiver
whose buffer does not outlive the connection (`Compatible`).  `InOrder` is not
inductive, since that the next packet decodes to the next one sent depends on
every cell of the buffer, which depends on every cell of the stream.  `IInv` says
where each packet ends (`EndsOK`), that the stream from one end to the next is the
serialised packet as far as it got (`StreamOK`), that what was dispatched is
what was sent (`DispatchedOK`) and that the buffer is the part of the stream after
the last dispatched packet (`BufferOK`).  That outside the loop the buffer holds no
whole packet needs none of this: `LoopStep` shows it for any stream, and it is part
of `TypeOK`.  `SequenceFacts` has the lemmas on concatenation,
slices and remainders.  `RoundTrip` is `deserialize` after `serialize` by itself,
whatever follows the packet in the buffer.  `MessagesAreWhole` states
`WholeMessages` under `Compatible`.  Two theorems put a discipline in place of the
restriction to sessions, as an action formula that every step must satisfy:
`TidyClientsAreServed` (`InOrder` and `WholeMessages`) allows a client any number
of connections, if its buffer is empty when one ends (`TidyReconnect`);
`RoomyConnectionsAreIntact` (`IntactDelivery`) asks besides that a packet is sent
only when the kernel has room for all of it (`RoomySend`).  That these are kept is
up to the application and the peer: nothing in the code sees to it.

`RoutingProofs`: `TypeCorrect`, `PacketsDispatchedOnce`, `OnlyTheEntitled` and
`NothingAfterTheReport`, for any number of packets, chunk size and settings.
`EntitledOnly` looks at the log, which was written under tables that have changed
since, and says of each kind of receiver exactly when it gets a packet, the handlers
and the default of the server among them; `IInv` adds that a setting is in the
tables, the session's or the server's, from when it was made, for good, and nothing
else is (`SettingsHold`, `DefaultsHold`, over `InForce`), that the buffer is only kept while it is dispatched
(`BufferInUse`), and that an end dispatches only until its close is reported
(`BusyWhileOpen`), from which the action property follows.

`ClientProofs`: `TypeCorrect`, `ConnectingIsExact`, `ConnectedIsExact`,
`TimerIsBound`, `ReportsExact`, `ClientImplementsLifecycle`,
`HandlesAreSafeAlways`, `StopIsToldAlways`, `ConnectionsAreWatched` and
`NothingAfterDestructor`, for any number of calls.  What the flags say is not
inductive, since between the steps of a call or a callback they are behind the
socket.  `IInv` says for each place of the application and of the loop thread how
far.  For an application that waited (`Waited`, in four parts: the socket, what a
call finds, what a callback finds, the flags) any step of a call may come between
any two of a callback, and the invariant is that every disagreement is between the
two steps that make it or on a socket that is closing.  For one that calls from
handlers, hasty or not (`FromHandlers`), a call and a callback are never both under
way.  Besides, nothing is done with a handle no one initialised (`RawIsUntouched`),
and each close that is owed belongs to an attempt of its own (`ClosesAreCounted`),
which bounds `owed`.  `HandlesAreSafe` says who can make libuv abort on the socket's
handle: only an application that does not wait (`hasty`), or, by closing it twice,
one that calls from a thread, be it in the application's `disconnect()` or in the
callback's.  `Watched` needs that the loop was started once (`WatchIsLost`): a
`stop()` and a `start()` in the course of a connection lose its timer.

`ConnectionProofs`: `ConnectionImplementsClient`, a behaviour of the composition
is one of `Client`, from which `ConnectionImplementsLifecycle` and the theorems of
`ClientProofs` carry over; `ConnectionTypeCorrect` and
`ConnectedThroughLastAlways`, by an invariant on top of `ClientProofs`': a socket
that is connecting or connected has the descriptor of the last attempt, and one
that is read from has been answered (`LastAttempt`).  `ConnectionTypeCorrect` has no
session without an attempt (`AttemptsWereMade`), and the timer of every open session
started unless the application stopped it (`SessionsAreTimed`), whatever the client
does: that is what `NoSessionIsAbandoned` rests on.  `ConnectionImplementsRegistry`
shows that what the composition takes the server for refines `SessionRegistry`,
which `ServerImplementsRegistry` shows of the server in full; `LossCanBeHeardAlways`
joins the client's theorems with this invariant: a client that says it is connected
to a session that ended reads from the stream that ends, on a loop that runs and, if
the loop was started once, under a timer.

`HeartbeatProofs`: `TypeCorrect`; `SilenceNoticed`, if a packet travels no longer
than an interval and a timer's lateness (`NetworkInTime`); `LiveClientIsTrusted`,
if moreover `Interval + MaxLate + 2 * MaxDelay <= Timeout` (`TimeoutAmple`).
`IInv` ties the age of an end to the timer that will look at it (`TimersInTime`),
and the session's age to the client's timer and to the heartbeat under way
(`HeardOfClient`).  The action properties `ClientIsNeverReassuredEver` and
`NothingReassuresAfterCutEver` follow from one lemma on ages (`AgeStep`): only
`SessionReceives` makes an end younger, and only a session.

`ServerProofs`: `TypeCorrect`, `ListIsExact`, `ClosingFlagIsExact`,
`AudienceIsReached`, `HandlersMeetNoRace`, `ServerImplementsRegistry`,
`WrittenInOrderAlways`, `DanglingHasACauseAlways`, `ListIsGuardedFromHandlers`,
`SessionsAreWatched`, `StopIsToldAlways` and `NothingAfterDestructor`, for any set of
sessions and any number of calls.  `AudienceReached` needs where each session of the
audience is while the walk goes on: written to, closed, being written to, or still
ahead of the iterator (`AudienceInSight`); that no session is written to twice needs
that the messages are numbered (`OutIsNumbered`) and that those ahead were not
written to yet (`NotWrittenYet`).  A session that was found open stays so until it is
closed or written to only where no callback can come between (`HandlerHasTheLoop`).
`DanglingHasACause` narrows the race down: a thread is inside the walk, and under it
a session was accepted or reported; `ListIsGuardedFromHandlers` follows for
applications without such a thread.

`ThreadPoolProofs`, for every finite, non-empty set of workers, any set of callers
disjoint from it and any number of tasks (`PoolAssumption`): `TypeCorrect`,
`TasksStartOnceInOrder`, `StopIsNotMissed`, `PoolIsDrained`, `NoLostWakeUp`,
`PoolImplementsTaskQueue`, `TasksAreInOneHand` and `NobodyUsesGonePool`.  `DestructorDrains` is not inductive: `IInv` adds where
each started task is (`AccountedFor`: finished or in a worker's hands) and what a
worker that left has seen (`StopOK`: `stop_` set and the queue empty, which it
then stays).  `WorkConserving` is inductive with one fact beside it, that finitely
many callers are between unlock and notification; its proof counts.
`NobodyUsesGonePool` rests on where a submission may still be under way once
`stop_` is set (`NotifiersInside`): only in the hands of a worker the destructor
has yet to join.

Only model-checked, since they need fairness, which is out of the prover's reach:
`EveryPacketDispatched`, `NothingStaysPending`, `StopReturns`,
`NoSessionIsAbandoned`, `LossIsLearned`, `DeadPeerIsDropped`,
`SilentClientIsDropped` and `PoolFinishes`.

## 5. Not modelled, and the plan

Not modelled:

* two threads inside one libuv function or one standard container at once, but for
  the session list and the handles named above: what a data race does there depends
  on the compiler; each access to a flag and each call into libuv is taken whole;
* `append_to_buffer()` called from a packet handler, which leaves `header` in
  `process_buffer()` pointing into a buffer that moved; nothing in the library
  calls it there;
* `read_handler_` and `alloc_callback_` of a session, which nothing in the library
  sets, and a session's destructor, which cannot run while its handlers hold it;
* the parsing of addresses (`uv_ip4_addr`'s result is ignored, so that a host name
  leaves the address unset), failing allocations, logging;
* the private functions of `Server` that nothing calls (`handle_new_session`,
  `on_session_closed`, `on_read`, `on_alloc`);
* the Qt wrapper, which is written against names the library no longer has and
  does not compile, the examples and tests, which are callers, and the build files.

What is left of the plan:

1. `Framing` with the two directions of a connection, over `Connection`: the bytes
   under way when one end closes.
2. `Routing` over the byte stream of `Framing`, in place of its whole packets.
3. `Connection` with several clients, which meet only in the list of `Server`.
4. The ages of `Heartbeat` in `Connection`, in place of its time-outs.

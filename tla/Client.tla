------------------------------- MODULE Client -------------------------------
(***************************************************************************)
(* The connection life cycle of libuv_net::Client: the application's calls *)
(* start, stop, connect, disconnect and the destructor, and the callbacks  *)
(* the loop thread runs: on_connect, on_read, on_write, on_close and       *)
(* on_heartbeat_timer, both statement by statement.                        *)
(*                                                                         *)
(* Calls and callbacks share the flags and the libuv handles and take no   *)
(* lock.  For a caller on a thread of its own the steps of a call and      *)
(* those of a callback come in any order; a call from one of the handlers, *)
(* which run on the loop thread, is one uninterrupted piece between two    *)
(* callbacks.  A single access to a flag, and a single call into libuv, is *)
(* taken to be atomic in both cases.                                       *)
(***************************************************************************)
EXTENDS Naturals

CONSTANTS
    Callers,            \* where calls come from: "handler", "thread"
    RawReadings,        \* what uv_is_active/uv_is_closing may say of socket_
                        \* before its first uv_tcp_init: "inactive",
                        \* "active" or "active_closing"
    MaxConnects,        \* bound: connect() calls
    MaxStarts           \* bound: start() calls

ASSUME ClientAssumption ==
    /\ Callers \subseteq {"handler", "thread"}
    /\ RawReadings \subseteq {"inactive", "active", "active_closing"}
    /\ MaxConnects \in Nat /\ MaxStarts \in Nat

VARIABLES
    caller,             \* where the calls of this behaviour come from
    is_connected, is_connecting,
    socket,             \* socket_: "raw" (never initialised), "fresh",
                        \* "open" (has a descriptor), "connected",
                        \* "closing", "closed", or "zombie" (has a
                        \* descriptor but is marked closed)
    reading,            \* uv_read_start is in effect on socket_
    request,            \* the connect request is outstanding
    stale,              \* socket_ was re-initialised with a close queued
    timer,              \* heartbeat_timer_ is started
    loop,               \* loop_thread_: "none", "running" or "exited"
    should_stop,
    app,                \* where the application is inside a call; "gone"
                        \* when there is no client any more
    cb,                 \* where the loop thread is inside a callback
    dying,              \* the destructor was entered
    fault,              \* "none", or what libuv aborts on
    owed,               \* history: closes with on_close not yet reported
    hasty,              \* history: connect() did not wait for on_close
    connects, starts    \* history: calls made

flags == <<is_connected, is_connecting>>
uv == <<socket, reading, request, stale>>
thread == <<loop, should_stop, starts>>
life == <<caller, dying>>
calls == <<connects, hasty>>
vars == <<life, flags, uv, timer, thread, app, cb, fault, owed, calls>>

Init ==
    /\ caller \in Callers
    /\ is_connected = FALSE /\ is_connecting = FALSE
    /\ socket = "raw" /\ reading = FALSE /\ request = FALSE /\ stale = FALSE
    /\ timer = FALSE
    /\ loop = "none" /\ should_stop = FALSE /\ starts = 0
    /\ app = "idle" /\ cb = "idle" /\ dying = FALSE /\ fault = "none"
    /\ owed = 0 /\ hasty = FALSE /\ connects = 0

(***************************************************************************)
(* libuv, as the client uses it                                            *)
(***************************************************************************)
\* Mutant: uv_is_closing is not asked.
UvIsClosing_Never == FALSE

UvIsClosing == socket \in {"closing", "closed", "zombie"}

HasDescriptor == socket \in {"open", "connected", "zombie"}

\* uv_close(&socket_, on_close).  libuv aborts on a handle that is closing,
\* and loops on one that is in its list of closing handles already.
UvClose ==
    IF UvIsClosing \/ stale
    THEN /\ fault' = "close"
         /\ UNCHANGED <<socket, reading, owed>>
    ELSE /\ socket' = "closing"
         /\ reading' = FALSE
         /\ owed' = owed + 1
         /\ UNCHANGED fault

\* uv_tcp_init(loop_, &socket_) on whatever socket_ is.
UvTcpInit ==
    /\ stale' = (stale \/ socket = "closing")
    /\ socket' = "fresh" /\ reading' = FALSE /\ request' = FALSE

(***************************************************************************)
(* connect()                                                               *)
(***************************************************************************)
\* Steps are taken while the process lives; a handler has the loop thread
\* for itself.
AppAt(step) ==
    /\ fault = "none" /\ app = step
    /\ caller = "handler" => cb = "idle"

LoopAt(step) == fault = "none" /\ cb = step

\* disconnect() and the end of on_close are run by both threads.
Threads == {"app", "loop"}

At(t, step) == IF t = "app" THEN AppAt(step) ELSE LoopAt(step)

Goes(t, step) ==
    IF t = "app" THEN app' = step /\ UNCHANGED cb
                 ELSE cb' = step /\ UNCHANGED app

\* The application may make a call of its own.
MayCall == AppAt("idle") /\ ~dying

\* on_close has run, and so has the callback that closed; and there is no
\* connection.
MayConnect ==
    /\ owed = 0 /\ cb \notin {"off", "unmark", "unwatch"}
    /\ ~is_connected

\* Mutant: connect() does not look at is_connecting_, not even from a handler.
Connect_Unchecked ==
    /\ MayCall
    /\ connects < MaxConnects
    /\ ~is_connected
    /\ app' = "init"
    /\ connects' = connects + 1
    /\ hasty' = (hasty \/ ~MayConnect)
    /\ UNCHANGED <<life, flags, uv, timer, thread, cb, fault, owed>>

\* connect() reads is_connected_ and then is_connecting_.  From a handler
\* they cannot change between the two.
Connect ==
    /\ MayCall
    /\ connects < MaxConnects
    /\ ~is_connected
    /\ caller = "handler" => ~is_connecting
    /\ app' = "ask"
    /\ UNCHANGED <<life, flags, uv, timer, thread, cb, fault, owed, calls>>

\* Nothing makes the caller wait for on_close.
AskConnecting ==
    /\ AppAt("ask")
    /\ IF is_connecting
       THEN app' = "idle" /\ UNCHANGED calls
       ELSE /\ app' = "init"
            /\ connects' = connects + 1
            /\ hasty' = (hasty \/ ~MayConnect)
    /\ UNCHANGED <<life, flags, uv, timer, thread, cb, fault, owed>>

\* init_socket() on memory nothing was written to yet: is it "active"?
InitRawSocket ==
    /\ AppAt("init") /\ socket = "raw"
    /\ \/ /\ "inactive" \in RawReadings
          /\ UvTcpInit
          /\ app' = "start"
          /\ UNCHANGED fault
       \/ /\ "active_closing" \in RawReadings
          /\ app' = "idle"
          /\ UNCHANGED <<uv, fault>>
       \/ /\ "active" \in RawReadings       \* uv_close on garbage
          /\ fault' = "garbage"
          /\ UNCHANGED <<uv, app>>
    /\ UNCHANGED <<life, flags, timer, thread, cb, owed, calls>>

InitSocket ==
    /\ AppAt("init") /\ socket # "raw"
    /\ \/ /\ ~reading
          /\ UvTcpInit
          /\ app' = "start"
          /\ UNCHANGED fault
       \/ /\ reading                        \* uv_is_active
          /\ IF UvIsClosing
             THEN UNCHANGED <<socket, reading>>
             ELSE socket' = "closing" /\ reading' = FALSE
          /\ app' = "idle"
          /\ UNCHANGED <<request, stale, fault>>
    /\ UNCHANGED <<life, flags, timer, thread, cb, owed, calls>>

\* What a handle is that gets a descriptor, and one that gets connected: a
\* mark of being closed stays.
Opened == IF UvIsClosing THEN "zombie" ELSE "open"
Connected == IF UvIsClosing THEN "zombie" ELSE "connected"

\* uv_tcp_connect, which may fail with or without having made a descriptor.
StartConnect ==
    /\ AppAt("start")
    /\ \/ /\ socket' = Opened /\ request' = TRUE
          /\ app' = "mark"
          /\ UNCHANGED is_connecting
       \/ /\ socket' \in {socket, Opened}
          /\ is_connecting' = FALSE
          /\ app' = "idle"
          /\ UNCHANGED request
    /\ UNCHANGED <<life, is_connected, reading, stale, timer, thread, cb, fault,
                   owed, calls>>

MarkConnecting ==
    /\ AppAt("mark")
    /\ is_connecting' = TRUE
    /\ app' = "idle"
    /\ UNCHANGED <<life, is_connected, uv, timer, thread, cb, fault, owed,
                   calls>>

(***************************************************************************)
(* disconnect(), called by the application, the destructor or a callback   *)
(***************************************************************************)
\* A call that finds no connection and no attempt changes nothing.
Disconnect ==
    /\ AppAt("idle")
    /\ ~dying \/ loop = "none"
    /\ is_connected \/ is_connecting
    /\ app' = "check"
    /\ UNCHANGED <<life, flags, uv, timer, thread, cb, fault, owed, calls>>

CallbackDisconnects ==
    /\ LoopAt("enter")
    /\ cb' = IF is_connected \/ is_connecting THEN "check" ELSE "idle"
    /\ UNCHANGED <<life, flags, uv, timer, thread, app, fault, owed, calls>>

CheckClosing(t) ==
    /\ At(t, "check")
    /\ Goes(t, IF UvIsClosing THEN "off" ELSE "close")
    /\ UNCHANGED <<life, flags, uv, timer, thread, fault, owed, calls>>

CloseSocket(t) ==
    /\ At(t, "close")
    /\ UvClose
    /\ Goes(t, "off")
    /\ UNCHANGED <<life, flags, request, stale, timer, thread, calls>>

\* Mutant: disconnect() resets one flag only.
ResetConnected_Not(t) ==
    /\ At(t, "off")
    /\ Goes(t, "unmark")
    /\ UNCHANGED <<life, flags, uv, timer, thread, fault, owed, calls>>

ResetConnected(t) ==
    /\ At(t, "off")
    /\ is_connected' = FALSE
    /\ Goes(t, "unmark")
    /\ UNCHANGED <<life, is_connecting, uv, timer, thread, fault, owed, calls>>

ResetConnecting(t) ==
    /\ At(t, "unmark")
    /\ is_connecting' = FALSE
    /\ Goes(t, "unwatch")
    /\ UNCHANGED <<life, is_connected, uv, timer, thread, fault, owed, calls>>

\* Mutant: the heartbeat is not stopped.
StopHeartbeat_Not(t) ==
    /\ At(t, "unwatch")
    /\ Goes(t, "idle")
    /\ UNCHANGED <<life, flags, uv, timer, thread, fault, owed, calls>>

StopHeartbeat(t) ==
    /\ At(t, "unwatch")
    /\ timer' = FALSE
    /\ Goes(t, "idle")
    /\ UNCHANGED <<life, flags, uv, thread, fault, owed, calls>>

DisconnectStep(t) == \/ CheckClosing(t) \/ CloseSocket(t)
                     \/ ResetConnected(t) \/ ResetConnecting(t)
                     \/ StopHeartbeat(t)

(***************************************************************************)
(* start(), stop() and the destructor                                      *)
(***************************************************************************)
Start ==
    /\ MayCall
    /\ loop = "none"
    /\ starts < MaxStarts
    /\ should_stop' = FALSE
    /\ loop' = "running"
    /\ starts' = starts + 1
    /\ UNCHANGED <<life, flags, uv, timer, app, cb, fault, owed, calls>>

\* Mutant: stop() joins without telling the loop to stop.
Stop_NoFlag ==
    /\ AppAt("idle")
    /\ loop # "none"
    /\ app' = "join"
    /\ UNCHANGED <<life, flags, uv, timer, thread, cb, fault, owed, calls>>

Stop ==
    /\ AppAt("idle")
    /\ loop # "none"
    /\ should_stop' = TRUE
    /\ app' = "join"
    /\ UNCHANGED <<life, flags, uv, timer, loop, starts, cb, fault, owed, calls>>

\* loop_thread_.join() returns; stop_heartbeat().
Join ==
    /\ AppAt("join")
    /\ loop = "exited"
    /\ loop' = "none"
    /\ timer' = FALSE
    /\ app' = "idle"
    /\ UNCHANGED <<life, flags, uv, should_stop, starts, cb, fault, owed, calls>>

\* ~Client: stop(), disconnect(), uv_loop_delete().
Destroy ==
    /\ MayCall
    /\ dying' = TRUE
    /\ UNCHANGED <<caller, flags, uv, timer, thread, app, cb, fault, owed, calls>>

\* Nothing ever closed heartbeat_timer_: libuv aborts on its assertion that
\* the loop has no handles or, built without, frees the loop under them.
DeleteLoop ==
    /\ AppAt("idle")
    /\ dying /\ loop = "none"
    /\ ~is_connected /\ ~is_connecting
    /\ app' = "gone"
    /\ fault' \in {"none", "handles"}
    /\ UNCHANGED <<life, flags, uv, timer, thread, cb, owed, calls>>

(***************************************************************************)
(* The loop thread                                                         *)
(***************************************************************************)
\* The loop thread is between two callbacks, and no handler keeps it.
LoopRuns ==
    /\ LoopAt("idle") /\ loop = "running"
    /\ caller = "handler" => app \in {"idle", "join"}

LoopExit ==
    /\ LoopRuns
    /\ should_stop
    /\ loop' = "exited"
    /\ UNCHANGED <<life, flags, uv, timer, should_stop, starts, app, cb, fault,
                   owed, calls>>

\* libuv calls on_connect with an error.
OnConnectError ==
    /\ LoopRuns
    /\ request /\ HasDescriptor
    /\ request' = FALSE
    /\ cb' = "failed"
    /\ UNCHANGED <<life, flags, socket, reading, stale, timer, thread, app, fault,
                   owed, calls>>

\* libuv calls on_connect with success.
OnConnect ==
    /\ LoopRuns
    /\ request /\ HasDescriptor
    /\ request' = FALSE
    /\ socket' = Connected
    /\ cb' = "read"
    /\ UNCHANGED <<life, flags, reading, stale, timer, thread, app, fault, owed,
                   calls>>

\* uv_read_start refuses a handle that is closing or not connected.
ReadStart ==
    /\ LoopAt("read")
    /\ socket \in {"connected", "zombie"}
    /\ reading' = TRUE
    /\ cb' = "connected"
    /\ UNCHANGED <<life, flags, socket, request, stale, timer, thread, app, fault,
                   owed, calls>>

ReadStartFails ==
    /\ LoopAt("read")
    /\ cb' = "give_up"
    /\ UNCHANGED <<life, flags, uv, timer, thread, app, fault, owed, calls>>

SetConnected ==
    /\ LoopAt("connected")
    /\ is_connected' = TRUE
    /\ cb' = "attempted"
    /\ UNCHANGED <<life, is_connecting, uv, timer, thread, app, fault, owed, calls>>

\* What follows in on_connect where it has reset is_connecting_: nothing after
\* an error; disconnect(), which finds nothing to do, where uv_read_start
\* failed; start_heartbeat() where it succeeded.
AfterReset == [failed |-> "idle", give_up |-> "enter", attempted |-> "watch"]

\* Mutant: an error leaves the flag.
AttemptEnds_KeepFlag ==
    /\ LoopAt(cb) /\ cb \in DOMAIN AfterReset
    /\ is_connecting' = (is_connecting /\ cb = "failed")
    /\ cb' = AfterReset[cb]
    /\ UNCHANGED <<life, is_connected, uv, timer, thread, app, fault, owed, calls>>

AttemptEnds ==
    /\ LoopAt(cb) /\ cb \in DOMAIN AfterReset
    /\ is_connecting' = FALSE
    /\ cb' = AfterReset[cb]
    /\ UNCHANGED <<life, is_connected, uv, timer, thread, app, fault, owed, calls>>

StartHeartbeat ==
    /\ LoopAt("watch")
    /\ timer' = TRUE
    /\ cb' = "idle"
    /\ UNCHANGED <<life, flags, uv, thread, app, fault, owed, calls>>

\* Mutant: on_read returns without closing its end.
OnReadError_Return ==
    /\ LoopRuns
    /\ reading /\ HasDescriptor
    /\ UNCHANGED vars

\* on_read reports the end of the stream or an error, or on_write an error.
OnReadError ==
    /\ LoopRuns
    /\ reading /\ HasDescriptor
    /\ cb' = "enter"
    /\ UNCHANGED <<life, flags, uv, timer, thread, app, fault, owed, calls>>

\* on_heartbeat_timer finds the peer silent for too long.
OnHeartbeatTimeout ==
    /\ LoopRuns
    /\ timer
    /\ cb' = "enter"
    /\ UNCHANGED <<life, flags, uv, timer, thread, app, fault, owed, calls>>

\* Mutant: on_close does nothing for a client that is not connected.
Reports_IfConnected == owed > 0 /\ (is_connected \/ is_connecting)

\* The close was asked for with on_close as its callback.
Reports == owed > 0

\* libuv finishes a close: an outstanding connect request is cancelled
\* (on_connect resets is_connecting_), then on_close runs: it resets the
\* flags and stops the timer as disconnect() does.
OnClose ==
    /\ LoopRuns
    /\ socket = "closing" /\ ~stale
    /\ socket' = "closed"
    /\ request' = FALSE
    /\ is_connecting' = (is_connecting /\ ~request)
    /\ IF Reports
       THEN cb' = "off" /\ owed' = owed - 1
       ELSE UNCHANGED <<cb, owed>>
    /\ UNCHANGED <<life, is_connected, reading, stale, timer, thread, app, fault,
                   calls>>

\* libuv finishes the close of a handle that was re-initialised since: it
\* aborts on its assertion or, built without, cancels the new attempt and
\* marks the new socket closed; uv_tcp_init has erased the callback.
OnStaleClose ==
    /\ LoopRuns
    /\ stale
    /\ \/ /\ fault' = "stale"
          /\ UNCHANGED <<is_connecting, socket, request, stale>>
       \/ /\ stale' = FALSE
          /\ socket' = "zombie"
          /\ request' = FALSE
          /\ is_connecting' = (is_connecting /\ ~request)
          /\ UNCHANGED fault
    /\ UNCHANGED <<life, is_connected, reading, timer, thread, app, cb, owed, calls>>

CallStep == \/ AskConnecting
            \/ InitRawSocket \/ InitSocket \/ StartConnect \/ MarkConnecting
            \/ DisconnectStep("app")
            \/ Join \/ DeleteLoop

Callback == \/ OnConnectError \/ OnConnect
            \/ OnReadError \/ OnHeartbeatTimeout
            \/ OnClose \/ OnStaleClose

CallbackStep == \/ ReadStart \/ ReadStartFails
                \/ SetConnected \/ AttemptEnds \/ StartHeartbeat
                \/ CallbackDisconnects \/ DisconnectStep("loop")

Next == \/ Connect \/ Disconnect \/ Start \/ Stop \/ Destroy
        \/ CallStep
        \/ LoopExit
        \/ Callback \/ CallbackStep

Spec == Init /\ [][Next]_vars

\* A call and a callback that were entered go on; the loop thread polls every
\* 10 ms, runs all that is due, however often the rest is, and sees
\* should_stop_; the kernel answers a connect request in the end.  Nothing
\* makes the application call again.
FairSpec ==
    /\ Spec
    /\ WF_vars(CallStep) /\ WF_vars(CallbackStep)
    /\ SF_vars(dying /\ (Stop \/ Disconnect))
    /\ SF_vars(LoopExit)
    /\ SF_vars(OnConnectError \/ OnConnect)
    /\ SF_vars(OnClose)

-----------------------------------------------------------------------------
TypeOK ==
    /\ caller \in Callers /\ dying \in BOOLEAN /\ hasty \in BOOLEAN
    /\ is_connected \in BOOLEAN /\ is_connecting \in BOOLEAN
    /\ socket \in {"raw", "fresh", "open", "connected", "closing", "closed",
                   "zombie"}
    /\ reading \in BOOLEAN /\ request \in BOOLEAN /\ stale \in BOOLEAN
    /\ timer \in BOOLEAN
    /\ loop \in {"none", "running", "exited"} /\ should_stop \in BOOLEAN
    /\ app \in {"idle", "ask", "init", "start", "mark", "check", "close", "off",
                "unmark", "unwatch", "join", "gone"}
    /\ cb \in {"idle", "failed", "read", "give_up", "connected", "attempted",
               "watch", "enter", "check", "close", "off", "unmark", "unwatch"}
    /\ fault \in {"none", "garbage", "close", "stale", "handles"}
    /\ owed \in 0..connects
    /\ connects \in 0..MaxConnects /\ starts \in 0..MaxStarts

\* No call and no callback is under way.
AtRest == fault = "none" /\ app = "idle" /\ cb = "idle"

\* is_connecting_ says what it says: a connect request is outstanding.
ConnectingIffPending ==
    AtRest => (is_connecting <=> (request /\ HasDescriptor))

\* Calls from handlers keep it exact, hasty or not: connect() is refused for
\* as long as an attempt is under way and no longer.
HandlersConnectingExact == caller = "handler" => ConnectingIffPending

\* What a thread's disconnect() and on_connect leave, statement by statement
\* among each other, lasts until the close is reported.
Settled ==
    /\ AtRest
    /\ caller = "thread" => owed = 0 /\ ~hasty

\* is_connected_ holds exactly while the socket delivers data to on_read, for
\* calls from handlers and, once no report is due, from a thread as well.
ConnectedIffReading ==
    Settled /\ ~hasty => (is_connected <=> (reading /\ socket = "connected"))

\* The heartbeat timer does not outlive the connection it watches: not even
\* a handler that does not wait for on_close has an old timer close its next
\* connection, and a thread that waits has none either.
TimerImpliesConnected == Settled /\ timer => is_connected

\* A close that was asked for is still going to be reported, once, unless
\* connect() did not wait for the report: so it is at each step of a call and
\* of a callback, in whatever order they come.
ReportsAreDue == ~hasty => owed = (IF socket = "closing" THEN 1 ELSE 0)

\* The abstract life cycle is promised to an application that calls from
\* handlers and waits for the reports; any other is left with an idle one.
Promised == caller = "handler" /\ ~hasty

Phase == CASE Promised /\ socket = "connected" /\ reading -> "connected"
           [] Promised /\ ((socket = "open" /\ request) \/ cb = "read") -> "connecting"
           [] OTHER -> "idle"

Lifecycle == INSTANCE ConnectionLifecycle
    WITH phase <- Phase, owed <- IF Promised THEN owed ELSE 0
ImplementsLifecycle == Lifecycle!Spec

\* While the loop runs, every close is reported through the disconnect
\* handler and every attempt made from a handler comes to an end.
NothingStaysPending ==
    /\ owed > 0 ~> (owed = 0 \/ hasty \/ loop # "running" \/ fault # "none")
    /\ caller = "handler" /\ is_connecting
           ~> (~is_connecting \/ loop # "running" \/ fault # "none")
\* stop() returns, and so does the destructor, wherever the connection is.
StopReturns ==
    /\ app = "join" ~> (app # "join" \/ fault # "none")
    /\ dying ~> (app = "gone" \/ fault # "none")
=============================================================================

------------------------------- MODULE Server -------------------------------
(***************************************************************************)
(* libuv_net::Server and the life of its Sessions: listening, accepting,   *)
(* the session list, the ways a session is closed, the report of the       *)
(* close, and broadcast() and send_to(), which walk the list.              *)
(*                                                                         *)
(* The application calls from a handler, on the loop thread, or from a     *)
(* thread of its own; in the second case the steps of a call and those of  *)
(* the callbacks come in any order.  No call takes sessions_mutex_.        *)
(***************************************************************************)
EXTENDS Naturals, Sequences, SequencesExt

CONSTANTS
    Sessions,           \* the sessions that can be made
    Callers,            \* where calls come from: "handler", "thread"
    MaxSends,           \* bound: broadcast() and send_to() calls
    MaxStarts           \* bound: start() calls

ASSUME ServerAssumption ==
    /\ Callers \subseteq {"handler", "thread"}
    /\ MaxSends \in Nat /\ MaxStarts \in Nat

VARIABLES
    caller,             \* where the calls of this behaviour come from
    server,             \* server_: "fresh", "listening", "closing", "closed"
    is_listening,
    dying,              \* the destructor was entered
    loop,               \* loop_thread_: "none", "running" or "exited"
    should_stop,
    sessions,           \* sessions_
    socket,             \* socket[s]: "none", "open", "closing", "closed"
    is_closing,         \* is_closing[s]: Session::is_closing_
    reading,            \* reading[s]: uv_read_start is in effect
    timer,              \* timer[s]: the heartbeat timer is started
    handler,            \* handler[s]: whose close handler s has, the
                        \* "server"'s or the "application"'s
    cb,                 \* sessions a callback has found open and is about
                        \* to close: one at most
    app,                \* where the application is: "idle", "walk", "write"
                        \* (in a send() of the walk), "send" (in another),
                        \* "close", "join" or "gone" (no server any more)
    cursor,             \* walk: the iterator
    end,                \* walk: the end it was given
    moved,              \* walk: the vector's memory was reallocated
    shrunk,             \* history: erase() took a session off the list
                        \* in the middle of the last walk
    target,             \* write, send, close: the session that was checked
    fault,              \* "none", or what went wrong in memory
    out,                \* history: out[s]: messages written to s
    audience,           \* history: whom the last message was for
    reported,           \* history: reported[s]: calls of the close handler
    stopped,            \* history: sessions whose stop() was called
    sends, starts       \* history: calls made

life == <<caller, dying>>
thread == <<loop, should_stop, starts, cb>>
listener == <<server, is_listening>>
session == <<socket, is_closing, reading, timer, handler, reported, stopped>>
walk == <<app, cursor, end, moved, shrunk, target, fault>>
message == <<out, audience, sends>>
vars == <<life, listener, thread, sessions, session, walk, message>>

Init ==
    /\ caller \in Callers /\ dying = FALSE
    /\ server = "fresh" /\ is_listening = FALSE
    /\ loop = "none" /\ should_stop = FALSE /\ starts = 0 /\ cb = {}
    /\ sessions = <<>>
    /\ socket = [s \in Sessions |-> "none"]
    /\ is_closing = [s \in Sessions |-> FALSE]
    /\ reading = [s \in Sessions |-> FALSE]
    /\ timer = [s \in Sessions |-> FALSE]
    /\ handler = [s \in Sessions |-> "server"]
    /\ app = "idle" /\ cursor = 1 /\ end = 0 /\ moved = FALSE
    /\ shrunk = FALSE /\ target = {} /\ fault = "none"
    /\ out = [s \in Sessions |-> <<>>]
    /\ audience = {} /\ sends = 0
    /\ reported = [s \in Sessions |-> 0]
    /\ stopped = {}

\* The process lives and the application is at this point; a handler has the
\* loop thread for itself.
At(step) ==
    /\ fault = "none" /\ app = step
    /\ caller = "handler" => cb = {}

\* The application may make a call of its own.
MayCall == At("idle") /\ ~dying

(***************************************************************************)
(* listen(), stop_listening(), start(), stop() and the destructor          *)
(***************************************************************************)
\* uv_tcp_bind and uv_listen; either may fail.  On a handle that was closed
\* both do.  A failure changes nothing the caller could see.
Listen ==
    /\ MayCall
    /\ ~is_listening
    /\ server = "fresh"
    /\ server' = "listening" /\ is_listening' = TRUE
    /\ UNCHANGED <<life, thread, sessions, session, walk, message>>

\* Mutant: the flag is not reset.
StopListening_KeepFlag ==
    /\ At("idle")
    /\ is_listening
    /\ server' = IF server = "listening" THEN "closing" ELSE server
    /\ UNCHANGED <<life, is_listening, thread, sessions, session, walk, message>>

StopListening ==
    /\ At("idle")
    /\ is_listening
    /\ server' = IF server = "listening" THEN "closing" ELSE server
    /\ is_listening' = FALSE
    /\ UNCHANGED <<life, thread, sessions, session, walk, message>>

Start ==
    /\ MayCall
    /\ loop = "none"
    /\ starts < MaxStarts
    /\ should_stop' = FALSE
    /\ loop' = "running"
    /\ starts' = starts + 1
    /\ UNCHANGED <<life, listener, cb, sessions, session, walk, message>>

\* stop() is called from outside the loop thread: join() needs it to be.
Stop ==
    /\ At("idle")
    /\ dying => ~is_listening
    /\ loop # "none"
    /\ should_stop' = TRUE
    /\ app' = "join"
    /\ UNCHANGED <<life, listener, loop, starts, cb, sessions, session,
                   cursor, end, moved, shrunk, target, fault, message>>

Join ==
    /\ At("join")
    /\ loop = "exited"
    /\ loop' = "none"
    /\ app' = "idle"
    /\ UNCHANGED <<life, listener, should_stop, starts, cb, sessions, session,
                   cursor, end, moved, shrunk, target, fault, message>>

\* ~Server: stop_listening(), stop(), uv_loop_delete().
Destroy ==
    /\ MayCall
    /\ dying' = TRUE
    /\ UNCHANGED <<caller, listener, thread, sessions, session, walk, message>>

\* Nothing closes the sessions, nor a server_ that never listened: with a
\* handle left libuv aborts on its assertion that the loop has none or, built
\* without, frees the loop under it.
DeleteLoop ==
    /\ At("idle")
    /\ dying /\ ~is_listening /\ loop = "none"
    /\ app' = "gone"
    /\ fault' \in IF server = "closed" /\ \A s \in Sessions : socket[s] = "none"
                 THEN {"none"} ELSE {"none", "handles"}
    /\ UNCHANGED <<life, listener, thread, sessions, session, cursor, end,
                   moved, shrunk, target, message>>

(***************************************************************************)
(* broadcast() and send_to()                                               *)
(***************************************************************************)
Live == {s \in Sessions : s \in ToSet(sessions) /\ ~is_closing[s]}

\* Mutant: the last session is left out.
Broadcast_Short ==
    /\ MayCall
    /\ sends < MaxSends
    /\ sends' = sends + 1
    /\ audience' = Live
    /\ app' = "walk" /\ cursor' = 1 /\ moved' = FALSE
    /\ shrunk' = FALSE
    /\ end' = IF sessions = <<>> THEN 0 ELSE Len(sessions) - 1
    /\ UNCHANGED <<life, listener, thread, sessions, session, target, fault,
                   out>>

\* The range-based for fixes begin and end of the vector.
Broadcast ==
    /\ MayCall
    /\ sends < MaxSends
    /\ sends' = sends + 1
    /\ audience' = Live
    /\ app' = "walk" /\ cursor' = 1 /\ end' = Len(sessions)
    /\ moved' = FALSE /\ shrunk' = FALSE
    /\ UNCHANGED <<life, listener, thread, sessions, session, target, fault,
                   out>>

InWalk == app \in {"walk", "write"}

\* One round: what the iterator points at need not be there any more; where it
\* is, send() returns at once for a session with is_closing_.
BroadcastNext ==
    /\ At("walk")
    /\ cursor <= end
    /\ IF moved \/ cursor > Len(sessions)
       THEN /\ fault' = "dangling"
            /\ UNCHANGED <<cursor, app, target>>
       ELSE /\ cursor' = cursor + 1
            /\ IF is_closing[sessions[cursor]]
               THEN UNCHANGED <<app, target>>
               ELSE app' = "write" /\ target' = {sessions[cursor]}
            /\ UNCHANGED fault
    /\ UNCHANGED <<life, listener, thread, sessions, session, end, moved,
                   shrunk, message>>

\* uv_write refuses a handle that is closing or closed.
Written(s, n) == IF socket[s] = "open" THEN Append(out[s], n) ELSE out[s]

\* The rest of send().
Write ==
    /\ At("write") \/ At("send")
    /\ \E s \in target : out' = [out EXCEPT ![s] = Written(s, sends)]
    /\ app' = IF app = "write" THEN "walk" ELSE "idle"
    /\ target' = {}
    /\ UNCHANGED <<life, listener, thread, sessions, session, cursor, end,
                   moved, shrunk, fault, audience, sends>>

BroadcastDone ==
    /\ At("walk")
    /\ cursor > end
    /\ app' = "idle" /\ cursor' = 1 /\ end' = 0 /\ moved' = FALSE
    /\ UNCHANGED <<life, listener, thread, sessions, session, shrunk, target,
                   fault, message>>

\* find_if, with no callback in between (that walk has the hazard of
\* broadcast()'s and no other), and the first half of send().
SendTo(s) ==
    /\ MayCall
    /\ sends < MaxSends
    /\ sends' = sends + 1
    /\ audience' = Live \cap {s}
    /\ IF s \in Live THEN app' = "send" /\ target' = {s}
                     ELSE UNCHANGED <<app, target>>
    /\ shrunk' = FALSE
    /\ UNCHANGED <<life, listener, thread, sessions, session, cursor, end,
                   moved, fault, out>>

(***************************************************************************)
(* What the application does with a session it was given                   *)
(***************************************************************************)
\* Mutant: close() does not ask whether it was called before.
Close_Unchecked(s) ==
    /\ MayCall
    /\ socket[s] # "none"
    /\ app' = "close" /\ target' = {s}
    /\ UNCHANGED <<life, listener, thread, sessions, session, cursor, end,
                   moved, shrunk, fault, message>>

\* close(): the checks, then the flag and uv_close.
Close(s) ==
    /\ MayCall
    /\ ~is_closing[s] /\ socket[s] = "open"
    /\ app' = "close" /\ target' = {s}
    /\ UNCHANGED <<life, listener, thread, sessions, session, cursor, end,
                   moved, shrunk, fault, message>>

\* Mutant: is_closing_ is not set.
Closes_NoFlag(s) ==
    /\ socket[s] = "open"
    /\ socket' = [socket EXCEPT ![s] = "closing"]
    /\ reading' = [reading EXCEPT ![s] = FALSE]
    /\ UNCHANGED <<is_closing, timer, handler, reported, stopped, fault>>

\* The flag and uv_close: libuv aborts when the handle was closed since it was
\* asked.
Closes(s) ==
    /\ is_closing' = [is_closing EXCEPT ![s] = TRUE]
    /\ IF socket[s] = "open"
       THEN /\ socket' = [socket EXCEPT ![s] = "closing"]
            /\ reading' = [reading EXCEPT ![s] = FALSE]
            /\ UNCHANGED fault
       ELSE /\ fault' = "close"
            /\ UNCHANGED <<socket, reading>>
    /\ UNCHANGED <<timer, handler, reported, stopped>>

CloseTarget ==
    /\ At("close")
    /\ \E s \in target : Closes(s)
    /\ app' = "idle" /\ target' = {}
    /\ UNCHANGED <<life, listener, thread, sessions, cursor, end, moved,
                   shrunk, message>>

\* Session::stop(): neither reading nor heartbeat.  A session that is closed
\* has no use for either.
StopSession(s) ==
    /\ MayCall
    /\ socket[s] = "open"
    /\ reading' = [reading EXCEPT ![s] = FALSE]
    /\ timer' = [timer EXCEPT ![s] = FALSE]
    /\ stopped' = stopped \cup {s}
    /\ UNCHANGED <<life, listener, thread, sessions, socket, is_closing,
                   handler, reported, walk, message>>

\* Session::start(), called again: reading may fail or be in effect already.
StartSession(s) ==
    /\ MayCall
    /\ s \in stopped /\ socket[s] = "open"
    /\ \E r \in BOOLEAN : reading' = [reading EXCEPT ![s] = r]
    /\ timer' = [timer EXCEPT ![s] = TRUE]
    /\ stopped' = stopped \ {s}
    /\ UNCHANGED <<life, listener, thread, sessions, socket, is_closing,
                   handler, reported, walk, message>>

\* set_close_handler() or set_close_callback() replaces the server's.
SetCloseHandler(s) ==
    /\ MayCall
    /\ socket[s] \in {"open", "closing"}
    /\ handler' = [handler EXCEPT ![s] = "application"]
    /\ UNCHANGED <<life, listener, thread, sessions, socket, is_closing,
                   reading, timer, reported, stopped, walk, message>>

(***************************************************************************)
(* The loop thread                                                         *)
(***************************************************************************)
LoopRuns ==
    /\ fault = "none" /\ loop = "running" /\ cb = {}
    /\ caller = "thread" \/ app \in {"idle", "join"}

LoopExit ==
    /\ LoopRuns
    /\ should_stop
    /\ loop' = "exited"
    /\ UNCHANGED <<life, listener, should_stop, starts, cb, sessions, session,
                   walk, message>>

\* Mutant: the session is not put on the list.
OnConnection_Unlisted(s) ==
    /\ LoopRuns
    /\ server = "listening"
    /\ socket[s] = "none"
    /\ socket' = [socket EXCEPT ![s] = "open"]
    /\ \E r \in BOOLEAN : reading' = [reading EXCEPT ![s] = r]
    /\ timer' = [timer EXCEPT ![s] = TRUE]
    /\ UNCHANGED <<life, listener, thread, sessions, is_closing, handler,
                   reported, stopped, walk, message>>

\* Mutant: the heartbeat is started only if reading was.
OnConnection_NoTimer(s) ==
    /\ LoopRuns
    /\ server = "listening"
    /\ socket[s] = "none"
    /\ socket' = [socket EXCEPT ![s] = "open"]
    /\ sessions' = Append(sessions, s)
    /\ \E r \in BOOLEAN : /\ reading' = [reading EXCEPT ![s] = r]
                          /\ timer' = [timer EXCEPT ![s] = r]
    /\ \E m \in {moved, TRUE} : moved' = (InWalk /\ m)
    /\ UNCHANGED <<life, listener, thread, is_closing, handler, reported,
                   stopped, app, cursor, end, shrunk, target, fault,
                   message>>

\* on_connection: uv_accept or uv_read_start may fail, the heartbeat starts
\* all the same; push_back may move the vector.
OnConnection(s) ==
    /\ LoopRuns
    /\ server = "listening"
    /\ socket[s] = "none"
    /\ socket' = [socket EXCEPT ![s] = "open"]
    /\ sessions' = Append(sessions, s)
    /\ \E r \in BOOLEAN : reading' = [reading EXCEPT ![s] = r]
    /\ timer' = [timer EXCEPT ![s] = TRUE]
    /\ \E m \in {moved, TRUE} : moved' = (InWalk /\ m)
    /\ UNCHANGED <<life, listener, thread, is_closing, handler, reported,
                   stopped, app, cursor, end, shrunk, target, fault,
                   message>>

\* close() called by a callback of the session that finds it open; of one that
\* is closing or closed it changes nothing.
CallbackCloses(s) ==
    /\ LoopRuns
    /\ socket[s] = "open" /\ ~is_closing[s]
    /\ cb' = {s}
    /\ UNCHANGED <<life, listener, loop, should_stop, starts, sessions, session,
                   walk, message>>

CallbackClosed ==
    /\ fault = "none"
    /\ \E s \in cb : Closes(s)
    /\ cb' = {}
    /\ UNCHANGED <<life, listener, loop, should_stop, starts, sessions, app,
                   cursor, end, moved, shrunk, target, message>>

\* on_read with the end of the stream or an error, on_write with an error
\* after a message or a heartbeat.
OnReadError(s) ==
    /\ reading[s] \/ timer[s] \/ out[s] # <<>>
    /\ CallbackCloses(s)

\* on_heartbeat_timer finds the client silent for too long.  On a session
\* that is closed the timer, which nothing stops, changes nothing.
OnHeartbeatTimeout(s) ==
    /\ timer[s]
    /\ CallbackCloses(s)

\* std::remove and erase: the vector without s, which it has once.
Without(q, s) ==
    IF s \in ToSet(q) THEN RemoveAt(q, CHOOSE i \in 1..Len(q) : q[i] = s) ELSE q

\* Mutant: the session stays on the list.
OnSessionClose_Keep(s) ==
    /\ LoopRuns
    /\ socket[s] = "closing"
    /\ socket' = [socket EXCEPT ![s] = "closed"]
    /\ reported' = IF handler[s] = "server"
                   THEN [reported EXCEPT ![s] = @ + 1] ELSE reported
    /\ UNCHANGED <<life, listener, thread, sessions, is_closing, reading,
                   timer, handler, stopped, walk, message>>

\* Session::on_close: the server's handler takes the session off the list
\* and reports it; the application's own does neither.
OnSessionClose(s) ==
    /\ LoopRuns
    /\ socket[s] = "closing"
    /\ socket' = [socket EXCEPT ![s] = "closed"]
    /\ IF handler[s] = "server"
       THEN /\ sessions' = Without(sessions, s)
            /\ reported' = [reported EXCEPT ![s] = @ + 1]
            /\ shrunk' = (shrunk \/ InWalk)
       ELSE UNCHANGED <<sessions, reported, shrunk>>
    /\ UNCHANGED <<life, listener, thread, is_closing, reading, timer,
                   handler, stopped, app, cursor, end, moved, target, fault,
                   message>>

OnServerClose ==
    /\ LoopRuns
    /\ server = "closing"
    /\ server' = "closed"
    /\ UNCHANGED <<life, is_listening, thread, sessions, session, walk,
                   message>>

CallStep == \/ BroadcastNext \/ Write \/ BroadcastDone \/ CloseTarget
            \/ Join \/ DeleteLoop

Next ==
    \/ Listen \/ StopListening \/ Start \/ Stop \/ Broadcast \/ Destroy
    \/ CallStep
    \/ LoopExit \/ OnServerClose \/ CallbackClosed
    \/ \E s \in Sessions :
           \/ SendTo(s) \/ Close(s) \/ SetCloseHandler(s)
           \/ StopSession(s) \/ StartSession(s)
           \/ OnConnection(s) \/ OnReadError(s) \/ OnHeartbeatTimeout(s)
           \/ OnSessionClose(s)

Spec == Init /\ [][Next]_vars

\* A call and a callback that were entered go on, the loop runs every 10 ms and
\* reports closes, and a client falls silent in the end.
FairSpec ==
    /\ Spec
    /\ WF_vars(CallStep) /\ WF_vars(CallbackClosed)
    /\ WF_vars(dying /\ (StopListening \/ Stop))
    /\ WF_vars(LoopExit)
    /\ \A s \in Sessions : /\ WF_vars(OnSessionClose(s))
                           /\ WF_vars(OnHeartbeatTimeout(s))

-----------------------------------------------------------------------------
TypeOK ==
    /\ caller \in Callers /\ dying \in BOOLEAN
    /\ server \in {"fresh", "listening", "closing", "closed"}
    /\ is_listening = (server = "listening")
    /\ loop \in {"none", "running", "exited"} /\ should_stop \in BOOLEAN
    /\ sessions \in Seq(Sessions)
    /\ socket \in [Sessions -> {"none", "open", "closing", "closed"}]
    /\ is_closing \in [Sessions -> BOOLEAN]
    /\ reading \in [Sessions -> BOOLEAN] /\ timer \in [Sessions -> BOOLEAN]
    /\ handler \in [Sessions -> {"server", "application"}]
    /\ app \in {"idle", "walk", "write", "send", "close", "join", "gone"}
    /\ cb \subseteq Sessions
    /\ cursor \in Nat /\ end \in Nat /\ moved \in BOOLEAN
    /\ shrunk \in BOOLEAN
    /\ target \subseteq Sessions /\ stopped \subseteq Sessions
    /\ fault \in {"none", "dangling", "close", "handles"}
    /\ out \in [Sessions -> Seq(1..MaxSends)]
    /\ audience \subseteq Sessions
    /\ reported \in [Sessions -> Nat]
    /\ sends \in 0..MaxSends /\ starts \in 0..MaxStarts

\* The list holds, once each, the sessions whose socket is not closed yet,
\* and each close is reported once; a session whose close handler was
\* replaced stays on the list for good and is not reported.
ListedUntilClosed ==
    /\ IsInjective(sessions)
    /\ \A s \in Sessions :
           s \in ToSet(sessions)
               <=> \/ socket[s] \in {"open", "closing"}
                   \/ socket[s] = "closed" /\ handler[s] = "application"
    /\ \A s \in Sessions :
           reported[s] = IF socket[s] = "closed" /\ handler[s] = "server"
                         THEN 1 ELSE 0

\* is_closing_ says what the socket does, but for an abort of the process.
ClosingFlagExact ==
    fault = "none" =>
        \A s \in Sessions : is_closing[s] <=> socket[s] \in {"closing", "closed"}

\* A broadcast that returned was written to every session that was on the
\* list when it began and is still open, whoever was accepted meanwhile, and
\* to no session twice.  It misses one only when erase() moves the rest of
\* the list under its iterator.
AudienceReached ==
    /\ At("idle") /\ ~shrunk =>
           \A s \in audience : ~is_closing[s] => sends \in ToSet(out[s])
    /\ \A s \in Sessions : IsInjective(out[s])

\* Calls from handlers never meet the callbacks half-way.
HandlersAreSafe == caller = "handler" => fault \in {"none", "handles"}

Reported == {s \in Sessions : reported[s] > 0}
Registry == INSTANCE SessionRegistry
    WITH members <- ToSet(sessions), reported <- Reported
ImplementsRegistry == Registry!Spec

\* A session that the application did not stop is closed, and its close
\* completed, when its client falls silent, also when reading could not be
\* started.
SilentClientIsDropped ==
    \A s \in Sessions :
        socket[s] = "open" ~>
            \/ socket[s] = "closed"
            \/ s \in stopped
            \/ loop # "running" \/ fault # "none"

(***************************************************************************)
(* What a comment says and the code does not do                            *)
(***************************************************************************)
\* sessions_mutex_ is the mutex of the session list (server.hpp): the list
\* is not changed while broadcast() walks it.
ListIsGuarded == fault # "dangling"
=============================================================================

----------------------------- MODULE Connection -----------------------------
(***************************************************************************)
(* A Client and the sessions a Server makes for it: one for each of its    *)
(* attempts that reached the server.  The two ends share nothing but the   *)
(* network: each learns of the other's close from the end of the stream,   *)
(* or, when the network was cut or nobody reads, from silence alone.       *)
(*                                                                         *)
(* Every step of the client is a step of module Client; the descriptors    *)
(* its process holds follow from what the step does to socket_.  Module    *)
(* Server has the server's end in detail, module Heartbeat the time.       *)
(***************************************************************************)
EXTENDS Client

VARIABLES
    attempt,            \* the attempt socket_'s descriptor belongs to
    held,               \* attempts whose descriptor the client has not closed
    session,            \* session[k]: "none", "queued" (with the kernel),
                        \* "open" or "closed"
    hearing,            \* sessions that read what arrives
    watching,           \* sessions whose heartbeat timer is started
    heard,              \* sessions that got a heartbeat, or were started,
                        \* since their timer fired last
    stopped,            \* history: sessions whose stop() was called, and
                        \* start() not since
    cut                 \* attempts whose packets no longer pass

watch == <<hearing, watching, heard, stopped>>
network == <<session, watch, cut>>
ends == <<attempt, held>>
allVars == <<vars, ends, network>>

Attempts == 1..MaxConnects

ConnectionInit ==
    /\ Init
    /\ attempt = 0 /\ held = {}
    /\ session = [k \in Attempts |-> "none"]
    /\ hearing = {} /\ watching = {} /\ heard = {} /\ stopped = {}
    /\ cut = {}

-----------------------------------------------------------------------------
(***************************************************************************)
(* The client                                                              *)
(***************************************************************************)
\* StartConnect is what leaves "start", and may have made a descriptor.
MakesDescriptor == app = "start" /\ app' # "start" /\ HasDescriptor'

\* uv_close closes the descriptor at once; a handle initialised anew forgets
\* the one it had.
Descriptors ==
    /\ attempt' = IF MakesDescriptor THEN connects ELSE attempt
    /\ held' = CASE MakesDescriptor -> held \cup {connects}
                 [] socket # "closing" /\ socket' = "closing" -> held \ {attempt}
                 [] OTHER -> held

\* The kernel of the server has answered the client's.
Answered == attempt \in Attempts /\ session[attempt] # "none"

\* What ends a stream: the other end, or a network that lost it.
StreamEnds == attempt \in Attempts /\ (session[attempt] = "closed" \/ attempt \in cut)

\* Nothing arrives that a client's heartbeat could take for life.
Silent ==
    \/ ~reading \/ attempt \notin Attempts \/ attempt \in cut
    \/ session[attempt] # "open"

\* What every step of the client does besides.
Alone == Descriptors /\ UNCHANGED network

Calls == (Connect \/ Disconnect \/ Start \/ Stop \/ Destroy) /\ Alone
CallStepAlone == CallStep /\ Alone
CallbackStepAlone == CallbackStep /\ Alone
LoopExits == LoopExit /\ Alone
AttemptFails == ~Answered /\ OnConnectError /\ Alone
AttemptSucceeds == Answered /\ OnConnect /\ Alone
HearsEnd == StreamEnds /\ OnReadError /\ Alone
HearsNothing == OnHeartbeatTimeout /\ Alone
Closes == (OnClose \/ OnStaleClose) /\ Alone

ClientStep == \/ Calls \/ CallStepAlone \/ CallbackStepAlone \/ LoopExits
              \/ AttemptFails \/ AttemptSucceeds
              \/ HearsEnd \/ HearsNothing \/ Closes

-----------------------------------------------------------------------------
(***************************************************************************)
(* The network and the server.  Server::stop() and start() leave the       *)
(* sessions as they are; a server that was stopped takes no step of its    *)
(* loop, which ServerIsFair alone tells from one that is slow.             *)
(***************************************************************************)
\* The connection is made and waits in the queue of the listening socket.
Queue(k) ==
    /\ fault = "none"
    /\ request /\ attempt = k
    /\ session[k] = "none" /\ k \notin cut
    /\ session' = [session EXCEPT ![k] = "queued"]
    /\ UNCHANGED <<vars, ends, watch, cut>>

\* The network loses everything sent from now on, and tells nobody.
Cut(k) ==
    /\ session[k] \in {"queued", "open"} /\ k \notin cut
    /\ cut' = cut \cup {k}
    /\ UNCHANGED <<vars, ends, session, watch>>

\* Mutant: start() gives up when start_read() fails.
StartWatch_IfReading(k) ==
    /\ hearing' \in {hearing, hearing \cup {k}}
    /\ watching' = IF k \in hearing' THEN watching \cup {k} ELSE watching
    /\ heard' = heard \cup {k}

\* Session::start(): start_read() may fail, the heartbeat starts all the same.
StartWatch(k) ==
    /\ hearing' \in {hearing, hearing \cup {k}}
    /\ watching' = watching \cup {k}
    /\ heard' = heard \cup {k}

\* Reading and the heartbeat are over.
Unwatch(k) ==
    /\ hearing' = hearing \ {k}
    /\ watching' = watching \ {k}
    /\ heard' = heard \ {k}

\* on_connection.
Accept(k) ==
    /\ session[k] = "queued"
    /\ session' = [session EXCEPT ![k] = "open"]
    /\ StartWatch(k)
    /\ UNCHANGED <<vars, ends, stopped, cut>>

\* The application calls stop() on a session, and start() later.
StopSession(k) ==
    /\ session[k] = "open" /\ k \notin stopped
    /\ Unwatch(k)
    /\ stopped' = stopped \cup {k}
    /\ UNCHANGED <<vars, ends, session, cut>>

RestartSession(k) ==
    /\ session[k] = "open" /\ k \in stopped
    /\ StartWatch(k)
    /\ stopped' = stopped \ {k}
    /\ UNCHANGED <<vars, ends, session, cut>>

\* close(), called by the application or by on_write; on_close and the
\* server's close handler follow by themselves.  The timer runs on, but finds
\* nothing to close.
SessionCloses(k) ==
    /\ session[k] = "open"
    /\ session' = [session EXCEPT ![k] = "closed"]
    /\ Unwatch(k)
    /\ stopped' = stopped \ {k}
    /\ UNCHANGED <<vars, ends, cut>>

\* The client has closed its end and the session reads the end of the stream.
ReadsEnd(k) ==
    /\ k \in hearing
    /\ k \notin held /\ k \notin cut
    /\ SessionCloses(k)

\* The client sends heartbeats that reach a session which reads them.
Talking(k) ==
    /\ loop = "running" /\ fault = "none"
    /\ is_connected /\ timer /\ attempt = k /\ k \in held
    /\ k \notin cut /\ k \in hearing

Hears(k) ==
    /\ Talking(k)
    /\ heard' = heard \cup {k}
    /\ UNCHANGED <<vars, ends, session, hearing, watching, stopped, cut>>

\* Mutant: the session's own heartbeat counts as one of the client's.
TimerFires_Refresh(k) ==
    /\ session[k] = "open" /\ k \in watching
    /\ heard' = heard \cup {k}
    /\ UNCHANGED <<vars, ends, session, hearing, watching, stopped, cut>>

\* on_heartbeat_timer sends a heartbeat while the client's are not older than
\* the timeout, and closes the session when they are.  The expiries that fit in
\* a timeout, which module Heartbeat counts, are one here.
TimerFires(k) ==
    /\ session[k] = "open" /\ k \in watching
    /\ \/ /\ k \in heard
          /\ heard' = heard \ {k}
          /\ UNCHANGED <<vars, ends, session, hearing, watching, stopped, cut>>
       \/ /\ k \notin heard
          /\ SessionCloses(k)

ServerStep(k) ==
    \/ Accept(k) \/ StopSession(k) \/ RestartSession(k) \/ SessionCloses(k)
    \/ ReadsEnd(k) \/ Hears(k) \/ TimerFires(k)

ConnectionNext ==
    \/ ClientStep
    \/ \E k \in Attempts : Queue(k) \/ Cut(k) \/ ServerStep(k)

ConnectionSpec == ConnectionInit /\ [][ConnectionNext]_allVars

\* The client's process is scheduled as in Client; the end of a stream arrives
\* where the network is whole, and the timer fires where nothing else arrives.
ClientIsFair ==
    /\ WF_vars(CallStep) /\ WF_vars(CallbackStep)
    /\ SF_vars(LoopExit) /\ SF_vars(OnClose)
    /\ SF_vars(OnReadError /\ StreamEnds /\ attempt \notin cut)
    /\ SF_vars(OnHeartbeatTimeout /\ Silent)

\* The server's loop runs, or is started again whenever it was stopped: it
\* accepts, and the timers it started fire.  Nobody has to close anything.
ServerIsFair ==
    \A k \in Attempts : WF_allVars(Accept(k)) /\ WF_allVars(TimerFires(k))

-----------------------------------------------------------------------------
OpenSessions == {k \in Attempts : session[k] = "open"}

\* An open session that nobody stopped has its timer started, whether it reads
\* or not; descriptors and sessions belong to attempts that were made.
ConnectionTypeOK ==
    /\ TypeOK
    /\ attempt \in 0..connects /\ held \subseteq 1..connects
    /\ session \in [Attempts -> {"none", "queued", "open", "closed"}]
    /\ \A k \in Attempts : session[k] # "none" => k <= attempt
    /\ stopped \subseteq OpenSessions /\ watching = OpenSessions \ stopped
    /\ hearing \subseteq watching /\ heard \subseteq watching
    /\ cut \subseteq Attempts

\* A client that says it is connected holds the descriptor of its last
\* attempt, and the server's kernel knows of it: is_connected_ is never left
\* over from an earlier connection, and never early.
ConnectedThroughLast ==
    Settled /\ is_connected /\ ~hasty =>
        attempt = connects /\ attempt \in held /\ Answered

\* Every session of a running server ends, unless its client talks to it or
\* the application stopped it: also when the client gave up on an attempt that
\* succeeded, forgot its descriptor, lost its heartbeat in stop() and start()
\* or cannot be heard, and when the session cannot read.  The server's fairness
\* is enough; the client may do, or leave, what it likes.
NoSessionIsAbandoned ==
    ServerIsFair =>
        \A k \in Attempts :
            session[k] \in {"queued", "open"}
                ~> session[k] = "closed" \/ Talking(k) \/ k \in stopped

SessionEnded == attempt \in Attempts /\ session[attempt] = "closed"

\* A client whose session has ended notices, unless it connects anew, or lost
\* its heartbeat in stop() and start() and the network is cut: then nothing
\* ever tells it.  The client's fairness is enough.
LossIsLearned ==
    ClientIsFair =>
        (is_connected /\ SessionEnded
            ~> \/ ~is_connected \/ ~SessionEnded
               \/ loop # "running" \/ fault # "none"
               \/ ~timer /\ attempt \in cut)
=============================================================================

------------------------------- MODULE Routing ------------------------------
(***************************************************************************)
(* Which handler a packet reaches: the dispatch of the packets of a chunk  *)
(* by a Session, behind which stand the handlers of its Server, and by a   *)
(* Client, with the interceptors in between.  Handlers run in the middle   *)
(* of a chunk and may set handlers, add interceptors or close their end.   *)
(***************************************************************************)
EXTENDS Naturals, Sequences, SequencesExt

CONSTANTS
    MaxPackets,         \* bound: packets that arrive
    MaxChunk,           \* bound: packets that arrive in one chunk
    MaxSettings         \* bound: handlers set and interceptors added

ASSUME RoutingAssumption ==
    MaxPackets \in Nat /\ MaxChunk \in Nat /\ MaxSettings \in Nat

\* PING, PONG and BINARY are treated like TEXT.
PacketType == {"TEXT", "HEARTBEAT", "JSON", "PROTOBUF"}

VARIABLES
    side,               \* which code dispatches: "session" or "client"
    state,              \* "none", "open", "closing" or "closed"
    step,               \* "idle", "greet" (in the connect handler),
                        \* "dispatch" or "handler" (in a packet handler)
    packet_handlers,    \* types with a handler of the application
    default_packet_handler,     \* "none", "server" or "application"
    interceptors,       \* types with an interceptor
    server_handlers,    \* types with a handler in the Server
    server_default,     \* the Server has a default handler
    chunk,              \* the packets of the buffer
    arrived,            \* history: the packets that came, in order
    log,                \* history: who got each packet
    since,              \* history: packets dispatched before a setting was
                        \* first made
    settings            \* history: settings made

tables == <<packet_handlers, default_packet_handler, interceptors,
            server_handlers, server_default>>
vars == <<side, state, step, tables, chunk, arrived, log, since, settings>>

\* Handlers and interceptors are set for a type, defaults once for all.
Setting == [what : {"handler", "interceptor", "server"}, type : PacketType]
               \cup [what : {"default", "server_default"}, type : {"TEXT"}]

Never == MaxPackets + 1

Init ==
    /\ side \in {"session", "client"}
    /\ state = "none" /\ step = "idle"
    /\ packet_handlers = {} /\ default_packet_handler = "none"
    /\ interceptors = {}
    /\ server_handlers = {} /\ server_default = FALSE
    /\ chunk = <<>> /\ arrived = <<>> /\ log = <<>>
    /\ since = [x \in Setting |-> Never]
    /\ settings = 0

-----------------------------------------------------------------------------
(***************************************************************************)
(* Encoding                                                                *)
(***************************************************************************)
\* What an application hands to send_data().
Values == {"json", "message"}

\* A value of the wrong kind is serialized to nothing at all.
SerializeJson(value) == IF value = "json" THEN value ELSE "empty"
SerializeProtobuf(value) == IF value = "message" THEN value ELSE "empty"

\* send_data(): the sender has the interceptor, or nothing is sent.
DataPackets ==
    {[type |-> "JSON", payload |-> SerializeJson(v)] : v \in Values}
        \cup {[type |-> "PROTOBUF", payload |-> SerializeProtobuf(v)] : v \in Values}

\* send(): any bytes under any type; a heartbeat has none.
PlainPackets ==
    {[type |-> "TEXT", payload |-> "bytes"], [type |-> "JSON", payload |-> "bytes"],
     [type |-> "HEARTBEAT", payload |-> "empty"]}

Packets == DataPackets \cup PlainPackets

\* What the interceptors make a value of: JSON text ...
DecodesJson(payload) == payload = "json"

\* ... and a message of the type google.protobuf.Message: that is the name of
\* a class, none of the message types linked into the program is called so.
MessageTypes == {"google.protobuf.Any"}
DecodesProtobuf(payload) ==
    "google.protobuf.Message" \in MessageTypes /\ payload = "message"

Decodes(p) ==
    \/ p.type = "JSON" /\ DecodesJson(p.payload)
    \/ p.type = "PROTOBUF" /\ DecodesProtobuf(p.payload)

-----------------------------------------------------------------------------
(***************************************************************************)
(* Dispatch                                                                *)
(***************************************************************************)
\* Mutant: the server's default comes before its handlers.
ServerReceiver_DefaultFirst(p) ==
    CASE server_default -> "server_default"
      [] ~server_default /\ p.type \in server_handlers -> "server"
      [] OTHER -> "nobody"

\* The default handler on_connection gives a session looks into the tables
\* of the server.
ServerReceiver(p) ==
    CASE p.type \in server_handlers -> "server"
      [] p.type \notin server_handlers /\ server_default -> "server_default"
      [] OTHER -> "nobody"

HandlerOf(p) ==
    CASE p.type \in packet_handlers -> "own"
      [] p.type \notin packet_handlers /\ default_packet_handler = "application"
             -> "default"
      [] p.type \notin packet_handlers /\ default_packet_handler = "server"
             -> ServerReceiver(p)
      [] OTHER -> "nobody"

\* A session keeps heartbeats to itself; an interceptor refuses what it
\* cannot decode.
Receiver(p) ==
    CASE side = "session" /\ p.type = "HEARTBEAT" -> "session"
      [] p.type \in interceptors /\ ~Decodes(p) -> "refused"
      [] OTHER -> HandlerOf(p)

Called(by) == by \in {"own", "default", "server", "server_default"}

\* on_read: a chunk with whole packets.
OnRead ==
    /\ state = "open" /\ step = "idle"
    /\ \E n \in 1..MaxChunk :
           /\ Len(arrived) + n <= MaxPackets
           /\ \E c \in [1..n -> Packets] : /\ chunk' = c
                                           /\ arrived' = arrived \o c
    /\ step' = "dispatch"
    /\ UNCHANGED <<side, state, tables, log, since, settings>>

\* Mutant: the code goes on to the handlers after an interceptor has done so.
Dispatch_Twice ==
    /\ step = "dispatch" /\ chunk # <<>>
    /\ LET by == Receiver(Head(chunk)) IN
           /\ log' = IF Called(by) /\ Head(chunk).type \in interceptors
                     THEN log \o <<by, by>> ELSE Append(log, by)
           /\ step' = IF Called(by) THEN "handler" ELSE "dispatch"
           /\ chunk' = IF Called(by) THEN chunk ELSE Tail(chunk)
    /\ UNCHANGED <<side, state, tables, arrived, since, settings>>

\* handle_packet(), to the point where the handler begins.
Dispatch ==
    /\ step = "dispatch" /\ chunk # <<>>
    /\ LET by == Receiver(Head(chunk)) IN
           /\ log' = Append(log, by)
           /\ step' = IF Called(by) THEN "handler" ELSE "dispatch"
           /\ chunk' = IF Called(by) THEN chunk ELSE Tail(chunk)
    /\ UNCHANGED <<side, state, tables, arrived, since, settings>>

\* The handler returns and its packet is erased; the connect handler returns.
Return ==
    /\ \/ step = "handler" /\ chunk' = Tail(chunk) /\ step' = "dispatch"
       \/ step = "greet" /\ chunk' = chunk /\ step' = "idle"
    /\ UNCHANGED <<side, state, tables, arrived, log, since, settings>>

\* The loop over the buffer has found nothing more.
DispatchDone ==
    /\ step = "dispatch" /\ chunk = <<>>
    /\ step' = "idle"
    /\ UNCHANGED <<side, state, tables, chunk, arrived, log, since, settings>>

-----------------------------------------------------------------------------
(***************************************************************************)
(* The life of the end                                                     *)
(***************************************************************************)
\* Mutant: a client, too, gets handlers that are not the application's.
OnConnect_AnySide ==
    /\ step = "idle"
    /\ state \in (IF side = "client" THEN {"none", "closed"} ELSE {"none"})
    /\ state' = "open" /\ step' = "greet"
    /\ default_packet_handler' = "server"
    /\ UNCHANGED <<side, packet_handlers, interceptors, server_handlers,
                   server_default, chunk, arrived, log, since, settings>>

\* on_connection gives a new session the server's handlers, starts it and
\* calls the connect handler; on_connect keeps what the client has.
OnConnect ==
    /\ step = "idle"
    /\ state \in (IF side = "client" THEN {"none", "closed"} ELSE {"none"})
    /\ state' = "open" /\ step' = "greet"
    /\ default_packet_handler' = IF side = "session" THEN "server"
                                 ELSE default_packet_handler
    /\ UNCHANGED <<side, packet_handlers, interceptors, server_handlers,
                   server_default, chunk, arrived, log, since, settings>>

\* Mutant: the close is reported by the call itself.
Close_Report ==
    /\ step # "dispatch" /\ state = "open"
    /\ state' = "closed"
    /\ UNCHANGED <<side, step, tables, chunk, arrived, log, since, settings>>

\* close() or disconnect(), also from a handler in the middle of a chunk; or
\* the end closes by itself between two callbacks.
Close ==
    /\ step # "dispatch" /\ state = "open"
    /\ state' = "closing"
    /\ UNCHANGED <<side, step, tables, chunk, arrived, log, since, settings>>

\* on_close: the close or disconnect handler is called.
OnClose ==
    /\ step = "idle" /\ state = "closing"
    /\ state' = "closed"
    /\ UNCHANGED <<side, step, tables, chunk, arrived, log, since, settings>>

-----------------------------------------------------------------------------
(***************************************************************************)
(* Settings, made on the loop thread: before the loop runs, in the connect *)
(* handler, in any other                                                   *)
(***************************************************************************)
\* Those of a session can be made once on_connection has made it, those of
\* a server before that, too.
OnTheServer == {"server", "server_default"}

Sets(x) ==
    /\ step # "dispatch" /\ settings < MaxSettings
    /\ x.what \in OnTheServer => side = "session"
    /\ x.what \notin OnTheServer /\ side = "session" => state # "none"
    /\ settings' = settings + 1
    /\ since' = [since EXCEPT ![x] = IF @ = Never THEN Len(log) ELSE @]

SetPacketHandler(t) ==
    /\ Sets([what |-> "handler", type |-> t])
    /\ packet_handlers' = packet_handlers \cup {t}
    /\ UNCHANGED <<side, state, step, default_packet_handler, interceptors,
                   server_handlers, server_default, chunk, arrived, log>>

SetDefaultPacketHandler ==
    /\ Sets([what |-> "default", type |-> "TEXT"])
    /\ default_packet_handler' = "application"
    /\ UNCHANGED <<side, state, step, packet_handlers, interceptors,
                   server_handlers, server_default, chunk, arrived, log>>

\* An interceptor for the type it names; a second one replaces the first.
AddInterceptor(t) ==
    /\ Sets([what |-> "interceptor", type |-> t])
    /\ interceptors' = interceptors \cup {t}
    /\ UNCHANGED <<side, state, step, packet_handlers, default_packet_handler,
                   server_handlers, server_default, chunk, arrived, log>>

\* The setters of the Server reach the sessions it has, and those to come.
SetServerHandler(t) ==
    /\ Sets([what |-> "server", type |-> t])
    /\ server_handlers' = server_handlers \cup {t}
    /\ UNCHANGED <<side, state, step, packet_handlers, default_packet_handler,
                   interceptors, server_default, chunk, arrived, log>>

SetServerDefault ==
    /\ Sets([what |-> "server_default", type |-> "TEXT"])
    /\ server_default' = TRUE
    /\ UNCHANGED <<side, state, step, packet_handlers, default_packet_handler,
                   interceptors, server_handlers, chunk, arrived, log>>

Next ==
    \/ OnRead \/ Dispatch \/ Return \/ DispatchDone
    \/ OnConnect \/ Close \/ OnClose
    \/ \E t \in PacketType : SetPacketHandler(t) \/ SetServerHandler(t)
    \/ \E t \in {"JSON", "PROTOBUF"} : AddInterceptor(t)
    \/ SetDefaultPacketHandler \/ SetServerDefault

Spec == Init /\ [][Next]_vars

-----------------------------------------------------------------------------
Receivers == {"own", "default", "server", "server_default", "session",
              "refused", "nobody"}

TypeOK ==
    /\ side \in {"session", "client"}
    /\ state \in {"none", "open", "closing", "closed"}
    /\ step \in {"idle", "greet", "dispatch", "handler"}
    /\ packet_handlers \subseteq PacketType
    /\ default_packet_handler \in {"none", "application"}
           \cup (IF side = "session" THEN {"server"} ELSE {})
    /\ interceptors \subseteq {"JSON", "PROTOBUF"}
    /\ server_handlers \subseteq PacketType /\ server_default \in BOOLEAN
    /\ chunk \in Seq(Packets) /\ arrived \in Seq(Packets)
    /\ Len(arrived) <= MaxPackets
    /\ log \in Seq(Receivers)
    /\ since \in [Setting -> 0..Never]
    /\ settings \in 0..MaxSettings

\* The packet whose handler runs is still in the buffer.
Erased == Len(log) - (IF step = "handler" THEN 1 ELSE 0)

\* Whatever handlers do in the middle of a chunk, every packet is dispatched
\* once and in order of arrival: the buffer is what arrived and is not in the
\* log yet, with the packet in front whose handler is running.
DispatchedOnce ==
    /\ Erased + Len(chunk) = Len(arrived)
    /\ \A i \in 1..Len(chunk) : chunk[i] = arrived[Erased + i]

After(i, what, t) == i > since[[what |-> what, type |-> t]]

\* A setting holds from the next packet on, also of the chunk at hand, and
\* the settings alone decide who gets a packet: the first in this order that
\* has a claim to it.  A session takes the heartbeats, so that a handler for
\* them, of the session or of its server, gets none, and one of a client does;
\* an interceptor refuses what it cannot decode; then come the end's own
\* handler and its default; then, unless the session has a default of its own,
\* the server's handler and the server's default.
EntitledOnly ==
    \A i \in 1..Len(log) :
        LET p == arrived[i] IN
        /\ log[i] = "session" <=> side = "session" /\ p.type = "HEARTBEAT"
        /\ log[i] = "refused" <=>
               After(i, "interceptor", p.type) /\ ~Decodes(p)
        /\ log[i] = "own" <=> /\ After(i, "handler", p.type)
                              /\ log[i] \notin {"session", "refused"}
        /\ log[i] = "default" <=>
               /\ After(i, "default", "TEXT")
               /\ log[i] \notin {"session", "refused", "own"}
        /\ log[i] = "server" <=>
               /\ After(i, "server", p.type)
               /\ log[i] \notin {"session", "refused", "own", "default"}
        /\ log[i] = "server_default" <=>
               /\ After(i, "server_default", "TEXT")
               /\ log[i] \notin {"session", "refused", "own", "default", "server"}

\* Once the close was reported no handler is called: a close from a handler
\* lets the chunk at hand be dispatched, but is reported after that.
QuietAfterReport ==
    [][log' # log => state \in {"open", "closing"}]_vars
=============================================================================

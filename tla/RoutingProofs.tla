---------------------------- MODULE RoutingProofs ---------------------------
(***************************************************************************)
(* Every packet is dispatched once, in order, and to a handler that is     *)
(* entitled to it, for any number of packets and settings.                 *)
(***************************************************************************)
EXTENDS Routing, SequenceFacts

(***************************************************************************)
(* The strengthening: a buffer is only kept while it is dispatched, an end *)
(* dispatches only until its close is reported, and a setting once made    *)
(* stands in the tables for good.                                             *)
(***************************************************************************)
BufferInUse ==
    /\ step \in {"idle", "greet"} => chunk = <<>>
    /\ step = "handler" => chunk # <<>>

BusyWhileOpen == step # "idle" => state \in {"open", "closing"}

\* What the tables say of a setting.
InForce(x) ==
    \/ x.what = "handler" /\ x.type \in packet_handlers
    \/ x.what = "interceptor" /\ x.type \in interceptors
    \/ x.what = "default" /\ default_packet_handler = "application"
    \/ x.what = "server" /\ x.type \in server_handlers
    \/ x.what = "server_default" /\ server_default = TRUE

SettingsHold ==
    \A x \in Setting : /\ since[x] # Never <=> InForce(x)
                       /\ since[x] # Never => since[x] <= Len(log)

\* A session has a default handler from the start: the server's, or one of its
\* own; a client has nothing of a server.
DefaultsHold ==
    /\ side = "session" => (state = "none" <=> default_packet_handler = "none")
    /\ side = "client" => server_handlers = {} /\ ~server_default

IInv == TypeOK /\ DispatchedOnce /\ BufferInUse /\ BusyWhileOpen
            /\ SettingsHold /\ DefaultsHold /\ EntitledOnly

-----------------------------------------------------------------------------
LEMMA BoundsAreNumbers ==
    /\ MaxPackets \in Nat /\ MaxChunk \in Nat /\ MaxSettings \in Nat
    /\ Never \in Nat /\ Never = MaxPackets + 1
  BY RoutingAssumption DEF Never

LEMMA PacketFields ==
    ASSUME NEW p \in Packets
    PROVE  p.type \in PacketType
  BY DEF Packets, DataPackets, PlainPackets, PacketType

LEMMA SettingsMade ==
    /\ \A t \in PacketType : [what |-> "handler", type |-> t] \in Setting
    /\ \A t \in PacketType : [what |-> "interceptor", type |-> t] \in Setting
    /\ \A t \in PacketType : [what |-> "server", type |-> t] \in Setting
    /\ [what |-> "default", type |-> "TEXT"] \in Setting
    /\ [what |-> "server_default", type |-> "TEXT"] \in Setting
    /\ "JSON" \in PacketType /\ "PROTOBUF" \in PacketType
  BY DEF Setting, PacketType

LEMMA SettingFields ==
    \A x \in Setting :
        /\ x = [what |-> x.what, type |-> x.type]
        /\ x.what \in {"default", "server_default"} => x.type = "TEXT"
  BY DEF Setting

\* Every packet ends up in one of the places the log can name ...
LEMMA ReceiverIsKnown ==
    ASSUME TypeOK, NEW p \in Packets
    PROVE  Receiver(p) \in Receivers
<1>1. ServerReceiver(p) \in {"server", "server_default", "nobody"}
  BY DEF ServerReceiver, TypeOK
<1>2. HandlerOf(p) \in {"own", "default", "server", "server_default", "nobody"}
  BY <1>1 DEF HandlerOf, TypeOK
<1>3. CASE side = "session" /\ p.type = "HEARTBEAT"
  <2>1. ~(p.type \in interceptors /\ ~Decodes(p))
    BY <1>3 DEF TypeOK
  <2> QED
    BY <1>3, <2>1 DEF Receiver, Receivers
<1>4. CASE ~(side = "session" /\ p.type = "HEARTBEAT")
  BY <1>2, <1>4 DEF Receiver, Receivers
<1> QED
  BY <1>3, <1>4

\* What a handler is entitled to by the tables of the moment.
LEMMA HandlerIsEntitled ==
    ASSUME TypeOK, DefaultsHold, state # "none", NEW p \in Packets
    PROVE  LET by == HandlerOf(p) IN
           /\ by \in {"own", "default", "server", "server_default", "nobody"}
           /\ by = "own" <=> p.type \in packet_handlers
           /\ by = "default" <=> /\ default_packet_handler = "application"
                                /\ by # "own"
           /\ by = "server" <=> /\ p.type \in server_handlers
                               /\ by \notin {"own", "default"}
           /\ by = "server_default" <=>
                  server_default /\ by \notin {"own", "default", "server"}
<1>1. /\ ServerReceiver(p) = "server" <=> p.type \in server_handlers
      /\ ServerReceiver(p) = "server_default" <=>
             p.type \notin server_handlers /\ server_default
      /\ ServerReceiver(p) \in {"server", "server_default", "nobody"}
  BY DEF ServerReceiver, TypeOK
<1>2. default_packet_handler \in {"none", "application", "server"}
  BY DEF TypeOK
<1>3. default_packet_handler = "none" =>
          p.type \notin server_handlers /\ ~server_default
  BY DEF DefaultsHold, TypeOK
<1>4. CASE p.type \in packet_handlers
  <2>1. HandlerOf(p) = "own"
    BY <1>4 DEF HandlerOf
  <2> QED
    BY <1>4, <2>1
<1>5. CASE p.type \notin packet_handlers /\ default_packet_handler = "application"
  <2>1. HandlerOf(p) = "default"
    BY <1>5 DEF HandlerOf
  <2> QED
    BY <1>5, <2>1
<1>6. CASE p.type \notin packet_handlers /\ default_packet_handler = "server"
  <2>1. HandlerOf(p) = ServerReceiver(p)
    BY <1>6 DEF HandlerOf
  <2> QED
    BY <1>1, <1>6, <2>1
<1>7. CASE p.type \notin packet_handlers /\ default_packet_handler = "none"
  <2>1. HandlerOf(p) = "nobody"
    BY <1>7 DEF HandlerOf
  <2> QED
    BY <1>3, <1>7, <2>1
<1> QED
  BY <1>2, <1>4, <1>5, <1>6, <1>7

\* Before a handler come the session itself and the interceptor.
LEMMA ReceiverIsEntitled ==
    ASSUME TypeOK, DefaultsHold, state # "none", NEW p \in Packets
    PROVE  LET by == Receiver(p) IN
           /\ by = "session" <=> side = "session" /\ p.type = "HEARTBEAT"
           /\ by = "refused" <=> p.type \in interceptors /\ ~Decodes(p)
           /\ by \notin {"session", "refused"} => by = HandlerOf(p)
<1>1. HandlerOf(p) \in {"own", "default", "server", "server_default", "nobody"}
  BY HandlerIsEntitled
<1>2. CASE side = "session" /\ p.type = "HEARTBEAT"
  <2>1. ~(p.type \in interceptors /\ ~Decodes(p))
    BY <1>2 DEF TypeOK
  <2>2. Receiver(p) = "session"
    BY <1>2, <2>1 DEF Receiver
  <2> QED
    BY <1>2, <2>1, <2>2
<1>3. CASE /\ ~(side = "session" /\ p.type = "HEARTBEAT")
           /\ p.type \in interceptors /\ ~Decodes(p)
  <2>1. Receiver(p) = "refused"
    BY <1>3 DEF Receiver
  <2> QED
    BY <1>3, <2>1
<1>4. CASE /\ ~(side = "session" /\ p.type = "HEARTBEAT")
           /\ ~(p.type \in interceptors /\ ~Decodes(p))
  <2>1. Receiver(p) = HandlerOf(p)
    BY <1>4 DEF Receiver
  <2> QED
    BY <1>1, <1>4, <2>1
<1> QED
  BY <1>2, <1>3, <1>4

-----------------------------------------------------------------------------
LEMMA InvInit == Init => IInv
<1> SUFFICES ASSUME Init PROVE IInv
  OBVIOUS
<1> USE BoundsAreNumbers
<1>1. /\ <<>> \in Seq(Packets) /\ <<>> \in Seq(Receivers)
      /\ Len(chunk) = 0 /\ Len(arrived) = 0 /\ Len(log) = 0
  BY EmptySeq DEF Init
<1>2. since \in [Setting -> 0..Never] /\ \A x \in Setting : since[x] = Never
  BY DEF Init
<1>3. TypeOK
  <2>1. chunk \in Seq(Packets) /\ arrived \in Seq(Packets) /\ log \in Seq(Receivers)
    BY <1>1 DEF Init
  <2>2. /\ side \in {"session", "client"} /\ state = "none" /\ step = "idle"
        /\ packet_handlers = {} /\ default_packet_handler = "none"
        /\ interceptors = {} /\ server_handlers = {} /\ server_default = FALSE
        /\ settings = 0
    BY DEF Init
  <2>3. default_packet_handler \in {"none", "application"}
            \cup (IF side = "session" THEN {"server"} ELSE {})
    BY <2>2
  <2>4. Len(arrived) <= MaxPackets /\ settings \in 0..MaxSettings
    BY <1>1, <2>2
  <2>5. since \in [Setting -> 0..Never]
    BY <1>2
  <2>6. /\ state \in {"none", "open", "closing", "closed"}
        /\ step \in {"idle", "greet", "dispatch", "handler"}
        /\ packet_handlers \subseteq PacketType /\ server_handlers \subseteq PacketType
        /\ interceptors \subseteq {"JSON", "PROTOBUF"} /\ server_default \in BOOLEAN
    BY <2>2
  <2> QED
    BY <2>1, <2>2, <2>3, <2>4, <2>5, <2>6 DEF TypeOK
<1>4. DispatchedOnce /\ BufferInUse /\ BusyWhileOpen /\ EntitledOnly
  BY <1>1 DEF Init, DispatchedOnce, Erased, BufferInUse, BusyWhileOpen,
              EntitledOnly
<1>5. SettingsHold
  <2>1. /\ packet_handlers = {} /\ interceptors = {} /\ server_handlers = {}
        /\ default_packet_handler = "none" /\ server_default = FALSE
    BY DEF Init
  <2> QED
    BY <1>2, <2>1 DEF SettingsHold, InForce
<1>6. DefaultsHold
  BY DEF Init, DefaultsHold
<1> QED
  BY <1>3, <1>4, <1>5, <1>6 DEF IInv

-----------------------------------------------------------------------------
(***************************************************************************)
(* The steps.  A setting changes a table and since; what a step does to    *)
(* since is the same for all of them.                                      *)
(***************************************************************************)
\* No more packets are in the log than have arrived.
LEMMA LogIsShort ==
    ASSUME TypeOK, DispatchedOnce, BufferInUse
    PROVE  /\ Len(log) \in Nat /\ Len(chunk) \in Nat /\ Len(arrived) \in Nat
           /\ Len(log) <= Len(arrived)
           /\ chunk # <<>> /\ step = "dispatch" => Len(log) < Len(arrived)
           /\ Len(arrived) < Never
<1>1. /\ Len(log) \in Nat /\ Len(chunk) \in Nat /\ Len(arrived) \in Nat
      /\ Len(arrived) <= MaxPackets
      /\ chunk # <<>> => Len(chunk) > 0
  BY LenProperties, EmptySeq DEF TypeOK
<1>2. Len(log) - (IF step = "handler" THEN 1 ELSE 0) + Len(chunk) = Len(arrived)
  BY DEF DispatchedOnce, Erased
<1>3. step = "handler" => chunk # <<>>
  BY DEF BufferInUse
<1> QED
  BY <1>1, <1>2, <1>3, BoundsAreNumbers

LEMMA SetsEffect ==
    ASSUME TypeOK, DispatchedOnce, BufferInUse, NEW x \in Setting, Sets(x)
    PROVE  /\ since' \in [Setting -> 0..Never]
           /\ settings' \in 0..MaxSettings
           /\ \A y \in Setting : y # x => since'[y] = since[y]
           /\ since[x] = Never => since'[x] = Len(log)
           /\ since[x] # Never => since'[x] = since[x]
<1>1. since' = [since EXCEPT ![x] = IF since[x] = Never THEN Len(log) ELSE since[x]]
  BY DEF Sets
<1>2. since \in [Setting -> 0..Never] /\ Len(log) \in Nat
  BY LenProperties DEF TypeOK
<1>3. settings' \in 0..MaxSettings
  BY BoundsAreNumbers DEF Sets, TypeOK
<1>4. /\ \A y \in Setting : y # x => since'[y] = since[y]
      /\ since[x] = Never => since'[x] = Len(log)
      /\ since[x] # Never => since'[x] = since[x]
  BY <1>1, <1>2
<1>5. Len(log) \in 0..Never
  BY <1>2, LogIsShort, BoundsAreNumbers
<1>6. since' \in [Setting -> 0..Never]
  BY <1>1, <1>2, <1>5
<1> QED
  BY <1>3, <1>4, <1>6

LEMMA ReadEffect ==
    ASSUME TypeOK, OnRead
    PROVE  /\ chunk' \in Seq(Packets) /\ arrived' \in Seq(Packets)
           /\ Len(arrived') <= MaxPackets
           /\ Len(arrived') = Len(arrived) + Len(chunk')
           /\ Len(chunk') > 0
           /\ \A i \in 1..Len(arrived) : arrived'[i] = arrived[i]
           /\ \A i \in 1..Len(chunk') : arrived'[Len(arrived) + i] = chunk'[i]
<1>0. PICK n \in 1..MaxChunk :
          /\ Len(arrived) + n <= MaxPackets
          /\ \E c \in [1..n -> Packets] : /\ chunk' = c
                                          /\ arrived' = arrived \o c
  BY DEF OnRead
<1>1. PICK c \in [1..n -> Packets] : chunk' = c /\ arrived' = arrived \o c
  BY <1>0
<1>2. n \in Nat /\ n > 0
  BY BoundsAreNumbers
<1>3. c \in Seq(Packets) /\ Len(c) = n
  BY <1>2
<1>4. arrived \in Seq(Packets)
  BY DEF TypeOK
<1>5. /\ arrived \o c \in Seq(Packets)
      /\ Len(arrived \o c) = Len(arrived) + Len(c)
      /\ \A i \in 1..Len(arrived) : (arrived \o c)[i] = arrived[i]
      /\ \A i \in 1..Len(c) : (arrived \o c)[Len(arrived) + i] = c[i]
  <2>1. \A d \in Seq(Packets) :
            /\ arrived \o d \in Seq(Packets)
            /\ Len(arrived \o d) = Len(arrived) + Len(d)
            /\ \A i \in 1..Len(arrived) : (arrived \o d)[i] = arrived[i]
            /\ \A i \in 1..Len(d) : (arrived \o d)[Len(arrived) + i] = d[i]
    BY <1>4, ConcatElements
  <2> QED
    BY <1>3, <2>1, Zenon
<1>6. Len(chunk') = n /\ chunk' \in Seq(Packets) /\ Len(chunk') > 0
  BY <1>1, <1>2, <1>3
<1>7. /\ arrived' \in Seq(Packets)
      /\ Len(arrived') = Len(arrived) + Len(chunk')
      /\ \A i \in 1..Len(arrived) : arrived'[i] = arrived[i]
      /\ \A i \in 1..Len(chunk') : arrived'[Len(arrived) + i] = chunk'[i]
  BY <1>1, <1>5
<1>8. Len(arrived') <= MaxPackets
  BY <1>0, <1>6, <1>7
<1> QED
  BY <1>6, <1>7, <1>8

LEMMA TailElements ==
    ASSUME NEW S, NEW s \in Seq(S), s # <<>>
    PROVE  /\ Tail(s) \in Seq(S)
           /\ Len(s) \in Nat /\ Len(s) > 0
           /\ Len(Tail(s)) = Len(s) - 1
           /\ \A i \in 1..Len(Tail(s)) : Tail(s)[i] = s[i + 1]
           /\ Head(s) \in S /\ Head(s) = s[1]
  OBVIOUS

LEMMA DispatchEffect ==
    ASSUME TypeOK, Dispatch
    PROVE  LET p == Head(chunk) IN
           /\ p \in Packets /\ p = chunk[1] /\ p.type \in PacketType
           /\ Receiver(p) \in Receivers
           /\ log' \in Seq(Receivers)
           /\ Len(log) \in Nat
           /\ Len(log') = Len(log) + 1
           /\ \A i \in 1..Len(log) : log'[i] = log[i]
           /\ log'[Len(log) + 1] = Receiver(p)
           /\ \/ step' = "handler" /\ chunk' = chunk
              \/ step' = "dispatch" /\ chunk' = Tail(chunk)
<1> DEFINE p == Head(chunk)
<1>1. p \in Packets /\ p = chunk[1]
  BY TailElements DEF TypeOK, Dispatch
<1>2. Receiver(p) \in Receivers /\ p.type \in PacketType
  BY <1>1, ReceiverIsKnown, PacketFields
<1>3. log \in Seq(Receivers) /\ log' = Append(log, Receiver(p))
  BY DEF TypeOK, Dispatch
<1>4. \/ step' = "handler" /\ chunk' = chunk
      \/ step' = "dispatch" /\ chunk' = Tail(chunk)
  BY DEF Dispatch
<1> HIDE DEF p
<1>5. /\ log' \in Seq(Receivers) /\ Len(log) \in Nat
      /\ Len(log') = Len(log) + 1
      /\ \A i \in 1..Len(log) : log'[i] = log[i]
      /\ log'[Len(log) + 1] = Receiver(p)
  BY <1>2, <1>3, AppendElements, LenProperties
<1> QED
  BY <1>1, <1>2, <1>4, <1>5 DEF p

-----------------------------------------------------------------------------
(***************************************************************************)
(* Type correctness                                                        *)
(***************************************************************************)
\* The parts of the type invariant.
EndTypes ==
    /\ side \in {"session", "client"}
    /\ state \in {"none", "open", "closing", "closed"}
    /\ step \in {"idle", "greet", "dispatch", "handler"}

TableTypes ==
    /\ packet_handlers \subseteq PacketType
    /\ default_packet_handler \in {"none", "application"}
           \cup (IF side = "session" THEN {"server"} ELSE {})
    /\ interceptors \subseteq {"JSON", "PROTOBUF"}
    /\ server_handlers \subseteq PacketType /\ server_default \in BOOLEAN

PacketTypes ==
    /\ chunk \in Seq(Packets) /\ arrived \in Seq(Packets)
    /\ Len(arrived) <= MaxPackets
    /\ log \in Seq(Receivers)

HistoryTypes == since \in [Setting -> 0..Never] /\ settings \in 0..MaxSettings

LEMMA TypeParts ==
    TypeOK <=> EndTypes /\ TableTypes /\ PacketTypes /\ HistoryTypes
  BY DEF TypeOK, EndTypes, TableTypes, PacketTypes, HistoryTypes

LEMMA TypePartsAfter ==
    EndTypes' /\ TableTypes' /\ PacketTypes' /\ HistoryTypes' => TypeOK'
  BY DEF TypeOK, EndTypes, TableTypes, PacketTypes, HistoryTypes

\* Where the packets of a step come from.
LEMMA PacketTypesStep ==
    IInv /\ [Next]_vars => PacketTypes'
<1> SUFFICES ASSUME IInv, [Next]_vars PROVE PacketTypes'
  OBVIOUS
<1>0. TypeOK /\ PacketTypes
  BY TypeParts DEF IInv
<1>1. CASE OnRead
  <2>1. log' = log
    BY <1>1 DEF OnRead
  <2> QED
    BY <1>0, <1>1, <2>1, ReadEffect DEF PacketTypes
<1>2. CASE Dispatch
  <2>1. chunk \in Seq(Packets) /\ chunk # <<>> /\ arrived' = arrived
    BY <1>0, <1>2 DEF Dispatch, PacketTypes
  <2>2. log' \in Seq(Receivers) /\ (chunk' = chunk \/ chunk' = Tail(chunk))
    BY <1>0, <1>2, DispatchEffect
  <2>3. Tail(chunk) \in Seq(Packets)
    BY <2>1, TailElements
  <2> QED
    BY <1>0, <2>1, <2>2, <2>3 DEF PacketTypes
<1>3. CASE Return
  <2>1. arrived' = arrived /\ log' = log /\ (chunk' = chunk \/ chunk' = Tail(chunk))
    BY <1>3 DEF Return
  <2>2. chunk' = Tail(chunk) => chunk # <<>> \/ chunk' = chunk
    BY <1>3 DEF Return, IInv, BufferInUse
  <2>3. chunk # <<>> => Tail(chunk) \in Seq(Packets)
    BY <1>0, TailElements DEF PacketTypes
  <2> QED
    BY <1>0, <2>1, <2>2, <2>3 DEF PacketTypes
<1>4. CASE ~(OnRead \/ Dispatch \/ Return)
  <2>1. UNCHANGED <<chunk, arrived, log>>
    BY <1>4 DEF Next, DispatchDone, OnConnect, Close, OnClose, SetPacketHandler,
                SetDefaultPacketHandler, AddInterceptor, SetServerHandler, SetServerDefault, vars
  <2> QED
    BY <1>0, <2>1 DEF PacketTypes
<1> QED
  BY <1>1, <1>2, <1>3, <1>4

LEMMA HistoryTypesStep ==
    IInv /\ [Next]_vars => HistoryTypes'
<1> SUFFICES ASSUME IInv, [Next]_vars PROVE HistoryTypes'
  OBVIOUS
<1>0. TypeOK /\ DispatchedOnce /\ BufferInUse /\ HistoryTypes
  BY TypeParts DEF IInv
<1>1. ASSUME NEW x \in Setting, Sets(x) PROVE HistoryTypes'
  BY <1>0, <1>1, SetsEffect DEF HistoryTypes
<1>2. ASSUME NEW t \in PacketType, SetPacketHandler(t) PROVE HistoryTypes'
  BY <1>1, <1>2, SettingsMade DEF SetPacketHandler
<1>3. ASSUME NEW t \in {"JSON", "PROTOBUF"}, AddInterceptor(t) PROVE HistoryTypes'
  BY <1>1, <1>3, SettingsMade DEF AddInterceptor
<1>4. CASE SetDefaultPacketHandler
  BY <1>1, <1>4, SettingsMade DEF SetDefaultPacketHandler
<1>5. ASSUME NEW t \in PacketType, SetServerHandler(t) PROVE HistoryTypes'
  BY <1>1, <1>5, SettingsMade DEF SetServerHandler
<1>7. CASE SetServerDefault
  BY <1>1, <1>7, SettingsMade DEF SetServerDefault
<1>6. CASE \/ OnRead \/ Dispatch \/ Return \/ DispatchDone
           \/ OnConnect \/ Close \/ OnClose \/ UNCHANGED vars
  <2>1. UNCHANGED <<since, settings>>
    BY <1>6 DEF OnRead, Dispatch, Return, DispatchDone, OnConnect, Close,
                OnClose, vars
  <2> QED
    BY <1>0, <2>1 DEF HistoryTypes
<1> QED
  BY <1>2, <1>3, <1>4, <1>5, <1>6, <1>7 DEF Next

LEMMA TypeStep == IInv /\ [Next]_vars => TypeOK'
<1> SUFFICES ASSUME IInv, [Next]_vars PROVE TypeOK'
  OBVIOUS
<1>0. EndTypes /\ TableTypes
  BY TypeParts DEF IInv
<1>1. EndTypes'
  BY <1>0 DEF EndTypes, Next, OnRead, Dispatch, Return, DispatchDone, OnConnect,
              Close, OnClose, SetPacketHandler, SetDefaultPacketHandler,
              AddInterceptor, SetServerHandler, SetServerDefault, vars
<1>2. TableTypes'
  <2>1. CASE UNCHANGED tables /\ side' = side
    BY <1>0, <2>1 DEF TableTypes, tables
  <2>2. CASE OnConnect
    BY <1>0, <2>2 DEF TableTypes, OnConnect
  <2>3. ASSUME NEW t \in PacketType, SetPacketHandler(t) PROVE TableTypes'
    BY <1>0, <2>3 DEF TableTypes, SetPacketHandler
  <2>4. ASSUME NEW t \in {"JSON", "PROTOBUF"}, AddInterceptor(t) PROVE TableTypes'
    BY <1>0, <2>4 DEF TableTypes, AddInterceptor
  <2>5. CASE SetDefaultPacketHandler
    BY <1>0, <2>5 DEF TableTypes, SetDefaultPacketHandler
  <2>6. ASSUME NEW t \in PacketType, SetServerHandler(t) PROVE TableTypes'
    BY <1>0, <2>6 DEF TableTypes, SetServerHandler
  <2>7. CASE SetServerDefault
    BY <1>0, <2>7 DEF TableTypes, SetServerDefault
  <2> QED
    BY <2>1, <2>2, <2>3, <2>4, <2>5, <2>6, <2>7
    DEF Next, OnRead, Dispatch, Return, DispatchDone, Close, OnClose, vars
<1> QED
  BY <1>1, <1>2, PacketTypesStep, HistoryTypesStep, TypePartsAfter

-----------------------------------------------------------------------------
(***************************************************************************)
(* The buffer and the log                                                  *)
(***************************************************************************)
\* Away from the dispatch, the place of the end in its handlers may change
\* between "idle" and "greet" only.
LEMMA ElsewhereEffect ==
    ASSUME TypeOK, [Next]_vars, ~OnRead, ~Dispatch, ~Return
    PROVE  /\ UNCHANGED <<chunk, arrived, log>>
           /\ \/ step' = step
              \/ step = "dispatch" /\ chunk = <<>> /\ step' = "idle"
              \/ step = "idle" /\ step' = "greet"
  BY DEF Next, DispatchDone, OnConnect, Close, OnClose, SetPacketHandler,
         SetDefaultPacketHandler, AddInterceptor, SetServerHandler, SetServerDefault, vars

LEMMA ShiftByOne ==
    \A l, c, a \in Nat : l + c = a => (l + 1) + (c - 1) = a
  OBVIOUS

LEMMA BufferStep == IInv /\ [Next]_vars => BufferInUse'
<1> SUFFICES ASSUME IInv, [Next]_vars PROVE BufferInUse'
  OBVIOUS
<1>0. TypeOK /\ BufferInUse
  BY DEF IInv
<1>1. CASE OnRead
  <2>1. step' = "dispatch"
    BY <1>1 DEF OnRead
  <2> QED
    BY <2>1 DEF BufferInUse
<1>2. CASE Dispatch
  <2>1. \/ step' = "dispatch"
        \/ step' = "handler" /\ chunk' = chunk /\ chunk # <<>>
    <3>1. chunk # <<>>
      BY <1>2 DEF Dispatch
    <3>2. \/ step' = "dispatch"
          \/ step' = "handler" /\ chunk' = chunk
      BY <1>0, <1>2, DispatchEffect
    <3> QED
      BY <3>1, <3>2
  <2> QED
    BY <2>1 DEF BufferInUse
<1>3. CASE Return
  BY <1>0, <1>3 DEF Return, BufferInUse
<1>4. CASE ~OnRead /\ ~Dispatch /\ ~Return
  BY <1>0, <1>4, ElsewhereEffect DEF BufferInUse
<1> QED
  BY <1>1, <1>2, <1>3, <1>4

LEMMA DispatchedStep == IInv /\ [Next]_vars => DispatchedOnce'
<1> SUFFICES ASSUME IInv, [Next]_vars PROVE DispatchedOnce'
  OBVIOUS
<1>0. TypeOK /\ DispatchedOnce /\ BufferInUse
  BY DEF IInv
<1>n. Len(log) \in Nat /\ Len(chunk) \in Nat /\ Len(arrived) \in Nat
  BY <1>0, LogIsShort
<1>1. CASE OnRead
  <2>1. step = "idle" /\ step' = "dispatch" /\ log' = log
    BY <1>1 DEF OnRead
  <2>2. Len(chunk) = 0 /\ Erased = Len(log) /\ Erased' = Len(log)
    BY <1>0, <1>n, <2>1, EmptySeq DEF BufferInUse, Erased
  <2>3. Len(arrived) = Len(log)
    BY <1>0, <1>n, <2>2 DEF DispatchedOnce
  <2>4. /\ Len(arrived') = Len(arrived) + Len(chunk')
        /\ \A i \in 1..Len(chunk') : arrived'[Len(arrived) + i] = chunk'[i]
        /\ Len(chunk') \in Nat
    BY <1>0, <1>1, ReadEffect, LenProperties
  <2> QED
    BY <1>n, <2>2, <2>3, <2>4 DEF DispatchedOnce
<1>2. CASE Dispatch
  <2>1. step = "dispatch" /\ chunk # <<>> /\ arrived' = arrived
    BY <1>2 DEF Dispatch
  <2>2. Erased = Len(log)
    BY <1>n, <2>1 DEF Erased
  <2>3. CASE step' = "handler" /\ chunk' = chunk
    <3>1. Erased' = Len(log)
      BY <1>0, <1>2, <1>n, <2>3, DispatchEffect DEF Erased
    <3> QED
      BY <1>0, <2>1, <2>2, <2>3, <3>1 DEF DispatchedOnce
  <2>4. CASE step' = "dispatch" /\ chunk' = Tail(chunk)
    <3>1. Erased' = Len(log) + 1
      BY <1>0, <1>2, <1>n, <2>4, DispatchEffect DEF Erased
    <3>2. chunk \in Seq(Packets)
      BY <1>0 DEF TypeOK
    <3>3. /\ Len(chunk') = Len(chunk) - 1
          /\ \A i \in 1..Len(chunk') : chunk'[i] = chunk[i + 1]
      BY <2>1, <2>4, <3>2, TailElements
    <3>4. Erased' + Len(chunk') = Len(arrived')
      <4>1. Len(log) + Len(chunk) = Len(arrived)
        BY <1>0, <2>2 DEF DispatchedOnce
      <4>2. Len(arrived') = Len(arrived)
        BY <2>1
      <4>3. Erased' + Len(chunk') = (Len(log) + 1) + (Len(chunk) - 1)
        BY <3>1, <3>3, Zenon
      <4>4. (Len(log) + 1) + (Len(chunk) - 1) = Len(arrived)
        BY <1>n, <4>1, ShiftByOne
      <4> QED
        BY <4>2, <4>3, <4>4, Zenon
    <3>5. ASSUME NEW i \in 1..Len(chunk') PROVE chunk'[i] = arrived'[Erased' + i]
      <4>1. i + 1 \in 1..Len(chunk) /\ i \in Nat
        BY <1>n, <3>3
      <4>2. chunk[i + 1] = arrived[Len(log) + (i + 1)]
        BY <1>0, <2>2, <4>1 DEF DispatchedOnce
      <4>3. Len(log) + (i + 1) = Erased' + i
        BY <1>n, <3>1, <4>1
      <4> QED
        BY <2>1, <3>3, <4>2, <4>3
    <3> QED
      BY <3>4, <3>5 DEF DispatchedOnce
  <2> QED
    BY <1>0, <1>2, <2>3, <2>4, DispatchEffect
<1>3. CASE Return
  <2>1. arrived' = arrived /\ log' = log
    BY <1>3 DEF Return
  <2>2. CASE step = "handler" /\ chunk' = Tail(chunk) /\ step' = "dispatch"
    <3>1. Erased = Len(log) - 1 /\ Erased' = Len(log)
      BY <1>n, <2>1, <2>2 DEF Erased
    <3>2. chunk \in Seq(Packets) /\ chunk # <<>>
      BY <1>0, <2>2 DEF TypeOK, BufferInUse
    <3>3. /\ Len(chunk') = Len(chunk) - 1
          /\ \A i \in 1..Len(chunk') : chunk'[i] = chunk[i + 1]
      BY <2>2, <3>2, TailElements
    <3> QED
      BY <1>0, <1>n, <2>1, <3>1, <3>3 DEF DispatchedOnce
  <2>3. CASE step = "greet" /\ chunk' = chunk /\ step' = "idle"
    <3>1. Erased' = Erased
      BY <1>n, <2>1, <2>3 DEF Erased
    <3> QED
      BY <1>0, <2>1, <2>3, <3>1 DEF DispatchedOnce
  <2> QED
    BY <1>3, <2>2, <2>3 DEF Return
<1>4. CASE ~OnRead /\ ~Dispatch /\ ~Return
  <2>1. UNCHANGED <<chunk, arrived, log>> /\ Erased' = Erased
    BY <1>0, <1>4, ElsewhereEffect DEF Erased
  <2> QED
    BY <1>0, <2>1 DEF DispatchedOnce
<1> QED
  BY <1>1, <1>2, <1>3, <1>4

LEMMA BusyStep == IInv /\ [Next]_vars => BusyWhileOpen'
  BY DEF IInv, BusyWhileOpen, Next, OnRead, Dispatch, Return, DispatchDone,
         OnConnect, Close, OnClose, SetPacketHandler, SetDefaultPacketHandler,
         AddInterceptor, SetServerHandler, SetServerDefault, vars

-----------------------------------------------------------------------------
(***************************************************************************)
(* Settings and who is entitled                                            *)
(***************************************************************************)
\* A setting that was made stays: a step that makes the setting x, and changes
\* no other, keeps the tables and since in agreement.
LEMMA SettingKept ==
    ASSUME TypeOK, DispatchedOnce, BufferInUse, SettingsHold,
           NEW x \in Setting, Sets(x), log' = log,
           \A y \in Setting : InForce(y)' <=> InForce(y) \/ y = x
    PROVE  SettingsHold'
<1>1. /\ \A y \in Setting : y # x => since'[y] = since[y]
      /\ since[x] = Never => since'[x] = Len(log)
      /\ since[x] # Never => since'[x] = since[x]
  BY SetsEffect
<1>2. Len(log) \in Nat /\ Never \in Nat /\ Len(log) < Never /\ Never' = Never
  BY LogIsShort, BoundsAreNumbers DEF Never
<1>3. ASSUME NEW y \in Setting, y = x
      PROVE  since'[y] # Never /\ since'[y] <= Len(log)
  BY <1>1, <1>2, <1>3 DEF SettingsHold
<1>4. ASSUME NEW y \in Setting, y # x
      PROVE  /\ since'[y] # Never <=> InForce(y)
             /\ since'[y] # Never => since'[y] <= Len(log)
  BY <1>1, <1>4 DEF SettingsHold
<1>5. ASSUME NEW y \in Setting
      PROVE  /\ since'[y] # Never <=> InForce(y)'
             /\ since'[y] # Never => since'[y] <= Len(log)
  BY <1>3, <1>4
<1> QED
  BY <1>2, <1>5 DEF SettingsHold

\* Steps other than settings leave the tables of the application alone.
LEMMA SettingsStep == IInv /\ [Next]_vars => SettingsHold'
<1> SUFFICES ASSUME IInv, [Next]_vars PROVE SettingsHold'
  OBVIOUS
<1>0. TypeOK /\ DispatchedOnce /\ BufferInUse /\ SettingsHold
  BY DEF IInv
<1>n. /\ Len(log) \in Nat /\ since \in [Setting -> 0..Never] /\ Never \in Nat
  BY <1>0, LogIsShort, BoundsAreNumbers DEF TypeOK
<1>1. CASE \/ OnRead \/ Return \/ DispatchDone \/ Close \/ OnClose
           \/ UNCHANGED vars
  <2>1. UNCHANGED <<tables, log, since>>
    BY <1>1 DEF OnRead, Return, DispatchDone, Close, OnClose, vars
  <2> QED
    BY <1>0, <2>1 DEF SettingsHold, InForce, tables, Never
<1>2. CASE Dispatch
  <2>1. UNCHANGED <<tables, since>>
    BY <1>2 DEF Dispatch
  <2>2. Len(log') = Len(log) + 1
    BY <1>0, <1>2, DispatchEffect
  <2>3. \A x \in Setting : since'[x] # Never => since'[x] <= Len(log')
    BY <1>0, <1>n, <2>1, <2>2 DEF SettingsHold
  <2> QED
    BY <1>0, <2>1, <2>3 DEF SettingsHold, InForce, tables, Never
<1>3. CASE OnConnect
  <2>1. /\ UNCHANGED <<packet_handlers, interceptors, server_handlers,
                       server_default, log, since>>
        /\ default_packet_handler' = "application" <=>
               default_packet_handler = "application"
    <3>1. default_packet_handler = "application" => side = "client"
      BY <1>3 DEF IInv, DefaultsHold, TypeOK, OnConnect
    <3> QED
      BY <1>3, <3>1 DEF OnConnect
  <2> QED
    BY <1>0, <2>1 DEF SettingsHold, InForce, Never
<1>5. ASSUME NEW t \in PacketType, SetPacketHandler(t) PROVE SettingsHold'
  <2> DEFINE x == [what |-> "handler", type |-> t]
  <2>1. Sets(x) /\ x \in Setting /\ log' = log
    BY <1>5, SettingsMade DEF SetPacketHandler
  <2>2. /\ UNCHANGED <<default_packet_handler, interceptors, server_handlers,
                       server_default>>
        /\ packet_handlers' = packet_handlers \cup {t}
    BY <1>5 DEF SetPacketHandler
  <2>3. \A y \in Setting : InForce(y)' <=> InForce(y) \/ y = x
    BY <2>2, SettingFields DEF InForce
  <2> HIDE DEF x
  <2> QED
    BY <1>0, <2>1, <2>3, SettingKept
<1>6. ASSUME NEW t \in {"JSON", "PROTOBUF"}, AddInterceptor(t) PROVE SettingsHold'
  <2> DEFINE x == [what |-> "interceptor", type |-> t]
  <2>1. Sets(x) /\ x \in Setting /\ log' = log
    BY <1>6, SettingsMade DEF AddInterceptor
  <2>2. /\ UNCHANGED <<packet_handlers, default_packet_handler, server_handlers,
                       server_default>>
        /\ interceptors' = interceptors \cup {t}
    BY <1>6 DEF AddInterceptor
  <2>3. \A y \in Setting : InForce(y)' <=> InForce(y) \/ y = x
    BY <2>2, SettingFields DEF InForce
  <2> HIDE DEF x
  <2> QED
    BY <1>0, <2>1, <2>3, SettingKept
<1>7. CASE SetDefaultPacketHandler
  <2> DEFINE x == [what |-> "default", type |-> "TEXT"]
  <2>1. Sets(x) /\ x \in Setting /\ log' = log
    BY <1>7, SettingsMade DEF SetDefaultPacketHandler
  <2>2. /\ UNCHANGED <<packet_handlers, interceptors, server_handlers,
                       server_default>>
        /\ default_packet_handler' = "application"
    BY <1>7 DEF SetDefaultPacketHandler
  <2>3. \A y \in Setting : InForce(y)' <=> InForce(y) \/ y = x
    BY <2>2, SettingFields DEF InForce
  <2> HIDE DEF x
  <2> QED
    BY <1>0, <2>1, <2>3, SettingKept
<1>8. ASSUME NEW t \in PacketType, SetServerHandler(t) PROVE SettingsHold'
  <2> DEFINE x == [what |-> "server", type |-> t]
  <2>1. Sets(x) /\ x \in Setting /\ log' = log
    BY <1>8, SettingsMade DEF SetServerHandler
  <2>2. /\ UNCHANGED <<packet_handlers, default_packet_handler, interceptors,
                       server_default>>
        /\ server_handlers' = server_handlers \cup {t}
    BY <1>8 DEF SetServerHandler
  <2>3. \A y \in Setting : InForce(y)' <=> InForce(y) \/ y = x
    BY <2>2, SettingFields DEF InForce
  <2> HIDE DEF x
  <2> QED
    BY <1>0, <2>1, <2>3, SettingKept
<1>9. CASE SetServerDefault
  <2> DEFINE x == [what |-> "server_default", type |-> "TEXT"]
  <2>1. Sets(x) /\ x \in Setting /\ log' = log
    BY <1>9, SettingsMade DEF SetServerDefault
  <2>2. /\ UNCHANGED <<packet_handlers, default_packet_handler, interceptors,
                       server_handlers>>
        /\ server_default' = TRUE
    BY <1>9 DEF SetServerDefault
  <2>3. \A y \in Setting : InForce(y)' <=> InForce(y) \/ y = x
    BY <2>2, SettingFields DEF InForce
  <2> HIDE DEF x
  <2> QED
    BY <1>0, <2>1, <2>3, SettingKept
<1> QED
  BY <1>1, <1>2, <1>3, <1>5, <1>6, <1>7, <1>8, <1>9 DEF Next

LEMMA DefaultsStep == IInv /\ [Next]_vars => DefaultsHold'
<1> SUFFICES ASSUME IInv, [Next]_vars PROVE DefaultsHold'
  OBVIOUS
<1>0. TypeOK /\ DefaultsHold
  BY DEF IInv
<1>1. CASE OnConnect
  BY <1>0, <1>1 DEF OnConnect, DefaultsHold, TypeOK
<1>2. CASE SetDefaultPacketHandler
  <2>1. side = "session" => state # "none"
    BY <1>2 DEF SetDefaultPacketHandler, Sets, OnTheServer
  <2> QED
    BY <1>0, <1>2, <2>1 DEF SetDefaultPacketHandler, DefaultsHold
<1>3. ASSUME NEW t \in PacketType, SetServerHandler(t) PROVE DefaultsHold'
  <2>1. side = "session"
    BY <1>0, <1>3 DEF SetServerHandler, Sets, OnTheServer, TypeOK
  <2> QED
    BY <1>0, <1>3, <2>1 DEF SetServerHandler, DefaultsHold
<1>4. CASE SetServerDefault
  <2>1. side = "session"
    BY <1>0, <1>4 DEF SetServerDefault, Sets, OnTheServer, TypeOK
  <2> QED
    BY <1>0, <1>4, <2>1 DEF SetServerDefault, DefaultsHold
<1>5. CASE Close \/ OnClose
  <2>1. state # "none" /\ state' # "none" /\ UNCHANGED <<side, tables>>
    BY <1>5 DEF Close, OnClose
  <2> QED
    BY <1>0, <2>1 DEF DefaultsHold, tables
<1>6. CASE OnRead \/ Dispatch \/ Return \/ DispatchDone \/ UNCHANGED vars
  <2>1. UNCHANGED <<side, state, tables>>
    BY <1>6 DEF OnRead, Dispatch, Return, DispatchDone, vars
  <2> QED
    BY <1>0, <2>1 DEF DefaultsHold, tables
<1>7. CASE \/ \E t \in PacketType : SetPacketHandler(t)
           \/ \E t \in {"JSON", "PROTOBUF"} : AddInterceptor(t)
  <2>1. UNCHANGED <<side, state, default_packet_handler, server_handlers,
                    server_default>>
    BY <1>7 DEF SetPacketHandler, AddInterceptor
  <2> QED
    BY <1>0, <2>1 DEF DefaultsHold
<1> QED
  BY <1>1, <1>2, <1>3, <1>4, <1>5, <1>6, <1>7 DEF Next

\* What EntitledOnly says of one packet of the log.
Entitled(i) ==
    LET p == arrived[i] IN
    /\ log[i] = "session" <=> side = "session" /\ p.type = "HEARTBEAT"
    /\ log[i] = "refused" <=>
           After(i, "interceptor", p.type) /\ ~Decodes(p)
    /\ log[i] = "own" <=> /\ After(i, "handler", p.type)
                          /\ log[i] \notin {"session", "refused"}
    /\ log[i] = "default" <=>
           /\ After(i, "default", "TEXT")
           /\ log[i] \notin {"session", "refused", "own"}
    /\ log[i] = "server" <=>
           /\ After(i, "server", p.type)
           /\ log[i] \notin {"session", "refused", "own", "default"}
    /\ log[i] = "server_default" <=>
           /\ After(i, "server_default", "TEXT")
           /\ log[i] \notin {"session", "refused", "own", "default", "server"}

LEMMA EntitledOneByOne == EntitledOnly <=> \A i \in 1..Len(log) : Entitled(i)
  BY DEF EntitledOnly, Entitled

LEMMA EntitledAfter ==
    (\A i \in 1..Len(log') : Entitled(i)') => EntitledOnly'
  BY DEF EntitledOnly, Entitled

\* A packet of the log stays entitled: a setting made now is not in force
\* for it.
LEMMA EntitledForGood ==
    ASSUME NEW i \in Nat, Entitled(i),
           arrived'[i] = arrived[i], arrived[i].type \in PacketType,
           log'[i] = log[i], side' = side,
           \A y \in Setting :
               since'[y] = since[y] \/ (~(i > since[y]) /\ ~(i > since'[y]))
    PROVE  Entitled(i)'
<1> DEFINE p == arrived[i]
<1>1. /\ After(i, "interceptor", p.type)' <=> After(i, "interceptor", p.type)
      /\ After(i, "handler", p.type)' <=> After(i, "handler", p.type)
      /\ After(i, "server", p.type)' <=> After(i, "server", p.type)
      /\ After(i, "default", "TEXT")' <=> After(i, "default", "TEXT")
      /\ After(i, "server_default", "TEXT")' <=> After(i, "server_default", "TEXT")
  BY SettingsMade DEF After
<1>2. arrived'[i] = p
  OBVIOUS
<1> HIDE DEF p
<1> QED
  BY <1>1, <1>2 DEF Entitled, p

\* The packet that is dispatched now is entitled by the tables it met.
LEMMA EntitledNow ==
    ASSUME IInv, Dispatch, NEW i \in Nat, i = Len(log) + 1
    PROVE  Entitled(i)'
<1>0. TypeOK /\ DispatchedOnce /\ BufferInUse /\ SettingsHold
  BY DEF IInv
<1>p. PICK p : p = Head(chunk)
  OBVIOUS
<1>1. /\ p \in Packets /\ p = chunk[1] /\ p.type \in PacketType
      /\ log'[i] = Receiver(p)
  BY <1>0, <1>p, DispatchEffect
<1>2. /\ step = "dispatch" /\ chunk # <<>>
      /\ arrived' = arrived /\ since' = since /\ side' = side
  BY DEF Dispatch
<1>3. /\ Len(log) \in Nat /\ Len(chunk) \in Nat /\ Len(arrived) \in Nat
      /\ Len(log) < Len(arrived) /\ Len(arrived) < Never
  BY <1>0, <1>2, LogIsShort
<1>4. Erased = Len(log)
  BY <1>2, <1>3 DEF Erased
<1>5. 1 \in 1..Len(chunk)
  <2>1. chunk \in Seq(Packets)
    BY <1>0 DEF TypeOK
  <2> QED
    BY <1>2, <2>1, TailElements
<1>6. arrived'[i] = p
  BY <1>0, <1>1, <1>2, <1>4, <1>5 DEF DispatchedOnce
<1>7. \A y \in Setting : i > since[y] <=> since[y] # Never
  <2>1. \A y \in Setting : since[y] # Never => since[y] <= Len(log)
    BY <1>0 DEF SettingsHold
  <2>2. \A y \in Setting : since[y] \in Nat
    BY <1>0, BoundsAreNumbers DEF TypeOK
  <2> QED
    BY <1>3, <2>1, <2>2, BoundsAreNumbers
<1>8. /\ After(i, "interceptor", p.type)' <=> p.type \in interceptors
      /\ After(i, "handler", p.type)' <=> p.type \in packet_handlers
      /\ After(i, "server", p.type)' <=> p.type \in server_handlers
      /\ After(i, "default", "TEXT")' <=> default_packet_handler = "application"
      /\ After(i, "server_default", "TEXT")' <=> server_default
  <2>1. \A y \in Setting : i > since'[y] <=> InForce(y)
    BY <1>0, <1>2, <1>7 DEF SettingsHold
  <2>2. /\ After(i, "interceptor", p.type)' <=>
               InForce([what |-> "interceptor", type |-> p.type])
        /\ After(i, "handler", p.type)' <=>
               InForce([what |-> "handler", type |-> p.type])
        /\ After(i, "server", p.type)' <=>
               InForce([what |-> "server", type |-> p.type])
        /\ After(i, "default", "TEXT")' <=>
               InForce([what |-> "default", type |-> "TEXT"])
        /\ After(i, "server_default", "TEXT")' <=>
               InForce([what |-> "server_default", type |-> "TEXT"])
    BY <1>1, <2>1, SettingsMade DEF After
  <2> QED
    BY <2>2 DEF InForce
<1>9. state # "none" /\ DefaultsHold
  BY <1>2 DEF IInv, BusyWhileOpen
<1>10. /\ Receiver(p) = "session" <=> side = "session" /\ p.type = "HEARTBEAT"
       /\ Receiver(p) = "refused" <=> p.type \in interceptors /\ ~Decodes(p)
       /\ Receiver(p) \notin {"session", "refused"} => Receiver(p) = HandlerOf(p)
  BY <1>0, <1>1, <1>9, ReceiverIsEntitled
<1>11. /\ HandlerOf(p) \in {"own", "default", "server", "server_default", "nobody"}
       /\ HandlerOf(p) = "own" <=> p.type \in packet_handlers
       /\ HandlerOf(p) = "default" <=> /\ default_packet_handler = "application"
                                      /\ HandlerOf(p) # "own"
       /\ HandlerOf(p) = "server" <=> /\ p.type \in server_handlers
                                     /\ HandlerOf(p) \notin {"own", "default"}
       /\ HandlerOf(p) = "server_default" <=>
              /\ server_default
              /\ HandlerOf(p) \notin {"own", "default", "server"}
  BY <1>0, <1>1, <1>9, HandlerIsEntitled
<1>12. CASE Receiver(p) \in {"session", "refused"}
  BY <1>1, <1>2, <1>6, <1>8, <1>10, <1>12 DEF Entitled
<1>13. CASE Receiver(p) \notin {"session", "refused"}
  <2>1. Receiver(p) = HandlerOf(p)
    BY <1>10, <1>13
  <2> QED
    BY <1>1, <1>2, <1>6, <1>8, <1>10, <1>11, <1>13, <2>1 DEF Entitled
<1> QED
  BY <1>12, <1>13

LEMMA EntitledStep == IInv /\ [Next]_vars => EntitledOnly'
<1> SUFFICES ASSUME IInv, [Next]_vars PROVE EntitledOnly'
  OBVIOUS
<1>0. TypeOK /\ DispatchedOnce /\ BufferInUse /\ SettingsHold
  BY DEF IInv
<1>n. /\ Len(log) \in Nat /\ Len(arrived) \in Nat /\ Len(log) <= Len(arrived)
      /\ Len(arrived) < Never
  BY <1>0, LogIsShort
<1>1. \A i \in 1..Len(log) :
          /\ Entitled(i) /\ i \in Nat /\ i \in 1..Len(arrived)
          /\ arrived[i].type \in PacketType
  <2>1. \A i \in 1..Len(log) : Entitled(i) /\ i \in Nat /\ i \in 1..Len(arrived)
    BY <1>n, EntitledOneByOne DEF IInv
  <2>2. \A i \in 1..Len(arrived) : arrived[i] \in Packets
    BY <1>0 DEF TypeOK
  <2> QED
    BY <2>1, <2>2, PacketFields
<1>2. CASE OnRead
  <2>1. log' = log /\ side' = side /\ since' = since
    BY <1>2 DEF OnRead
  <2>2. \A i \in 1..Len(log) : arrived'[i] = arrived[i]
    BY <1>0, <1>1, <1>2, ReadEffect
  <2>3. \A i \in 1..Len(log) : Entitled(i)'
    BY <1>1, <2>1, <2>2, EntitledForGood
  <2> QED
    BY <2>1, <2>3, EntitledAfter
<1>3. CASE Dispatch
  <2>1. arrived' = arrived /\ side' = side /\ since' = since
    BY <1>3 DEF Dispatch
  <2>2. Len(log') = Len(log) + 1 /\ \A i \in 1..Len(log) : log'[i] = log[i]
    BY <1>0, <1>3, DispatchEffect
  <2>3. \A i \in 1..Len(log) : Entitled(i)'
    BY <1>1, <2>1, <2>2, EntitledForGood
  <2>4. ASSUME NEW i \in Nat, i = Len(log) + 1 PROVE Entitled(i)'
    BY <1>3, <2>4, EntitledNow
  <2>5. \A i \in 1..Len(log') : i \in 1..Len(log) \/ (i \in Nat /\ i = Len(log) + 1)
    BY <1>n, <2>2
  <2> QED
    BY <2>3, <2>4, <2>5, EntitledAfter
<1>4. ASSUME UNCHANGED <<arrived, log, side>>,
             \A y \in Setting : \/ since'[y] = since[y]
                                \/ since[y] = Never /\ since'[y] = Len(log)
      PROVE  EntitledOnly'
  <2>1. \A i \in 1..Len(log), y \in Setting :
            since'[y] = since[y] \/ (~(i > since[y]) /\ ~(i > since'[y]))
    BY <1>n, <1>4, BoundsAreNumbers
  <2>2. \A i \in 1..Len(log) : Entitled(i)'
    BY <1>1, <1>4, <2>1, EntitledForGood
  <2> QED
    BY <1>4, <2>2, EntitledAfter
<1>5. ASSUME NEW x \in Setting, Sets(x)
      PROVE  \A y \in Setting : \/ since'[y] = since[y]
                                \/ since[y] = Never /\ since'[y] = Len(log)
  BY <1>0, <1>5, SetsEffect
<1>6. ASSUME NEW t \in PacketType, SetPacketHandler(t) PROVE EntitledOnly'
  <2>1. Sets([what |-> "handler", type |-> t]) /\ UNCHANGED <<arrived, log, side>>
    BY <1>6 DEF SetPacketHandler
  <2> QED
    BY <1>4, <1>5, <2>1, SettingsMade
<1>7. ASSUME NEW t \in {"JSON", "PROTOBUF"}, AddInterceptor(t) PROVE EntitledOnly'
  <2>1. /\ Sets([what |-> "interceptor", type |-> t]) /\ t \in PacketType
        /\ UNCHANGED <<arrived, log, side>>
    BY <1>7, SettingsMade DEF AddInterceptor
  <2> QED
    BY <1>4, <1>5, <2>1, SettingsMade
<1>8. CASE SetDefaultPacketHandler
  <2>1. Sets([what |-> "default", type |-> "TEXT"]) /\ UNCHANGED <<arrived, log, side>>
    BY <1>8 DEF SetDefaultPacketHandler
  <2> QED
    BY <1>4, <1>5, <2>1, SettingsMade
<1>10. ASSUME NEW t \in PacketType, SetServerHandler(t) PROVE EntitledOnly'
  <2>1. Sets([what |-> "server", type |-> t]) /\ UNCHANGED <<arrived, log, side>>
    BY <1>10 DEF SetServerHandler
  <2> QED
    BY <1>4, <1>5, <2>1, SettingsMade
<1>11. CASE SetServerDefault
  <2>1. /\ Sets([what |-> "server_default", type |-> "TEXT"])
        /\ UNCHANGED <<arrived, log, side>>
    BY <1>11 DEF SetServerDefault
  <2> QED
    BY <1>4, <1>5, <2>1, SettingsMade
<1>9. CASE \/ Return \/ DispatchDone \/ OnConnect \/ Close \/ OnClose
           \/ UNCHANGED vars
  <2>1. UNCHANGED <<arrived, log, side, since>>
    BY <1>9 DEF Return, DispatchDone, OnConnect, Close, OnClose, vars
  <2> QED
    BY <1>4, <2>1
<1> QED
  BY <1>2, <1>3, <1>6, <1>7, <1>8, <1>9, <1>10, <1>11 DEF Next

-----------------------------------------------------------------------------
(***************************************************************************)
(* The theorems                                                            *)
(***************************************************************************)
LEMMA Invariance == Spec => []IInv
<1>1. IInv /\ [Next]_vars => IInv'
  BY TypeStep, DispatchedStep, BufferStep, BusyStep, SettingsStep,
     DefaultsStep, EntitledStep
  DEF IInv
<1> QED
  BY InvInit, <1>1, PTL DEF Spec

\* The tables, the buffer and the log are what their names say, whatever the
\* order of packets, settings and closes.
THEOREM TypeCorrect == Spec => []TypeOK
<1>1. IInv => TypeOK
  BY DEF IInv
<1> QED
  BY Invariance, <1>1, PTL

\* handle_packet() and append_to_buffer(): each packet that arrived is
\* dispatched once, in order, also when its handler sets handlers, adds
\* interceptors or closes the end.
THEOREM PacketsDispatchedOnce == Spec => []DispatchedOnce
<1>1. IInv => DispatchedOnce
  BY DEF IInv
<1> QED
  BY Invariance, <1>1, PTL

\* The search through interceptor, handler table and default handler, and
\* behind it through the tables of the server, finds a receiver entitled to
\* the packet by every setting made before.
THEOREM OnlyTheEntitled == Spec => []EntitledOnly
<1>1. IInv => EntitledOnly
  BY DEF IInv
<1> QED
  BY Invariance, <1>1, PTL

\* on_close(): after the close handler no packet handler is called.
THEOREM NothingAfterTheReport == Spec => QuietAfterReport
<1>1. IInv /\ [Next]_vars => [log' # log => state \in {"open", "closing"}]_vars
  <2> SUFFICES ASSUME IInv, [Next]_vars, log' # log
               PROVE  state \in {"open", "closing"}
    OBVIOUS
  <2>1. step = "dispatch"
    BY DEF Next, OnRead, Dispatch, Return, DispatchDone, OnConnect, Close,
           OnClose, SetPacketHandler, SetDefaultPacketHandler, AddInterceptor,
           SetServerHandler, SetServerDefault, vars
  <2> QED
    BY <2>1 DEF IInv, BusyWhileOpen
<1> QED
  BY Invariance, <1>1, PTL DEF Spec, QuietAfterReport
=============================================================================

-------------------------- MODULE ConnectionProofs --------------------------
(***************************************************************************)
(* The client in the network is the client of module Client, with all its  *)
(* theorems, and what it says of its connection is about the attempt it    *)
(* made last.                                                              *)
(***************************************************************************)
EXTENDS Connection, ClientProofs

ServerSteps ==
    \E k \in Attempts : Queue(k) \/ Cut(k) \/ ServerStep(k)

\* Every step is one of the client, or leaves the client alone.
LEMMA Steps ==
    ASSUME [ConnectionNext]_allVars
    PROVE  \/ UNCHANGED allVars
           \/ Next /\ Alone
           \/ ServerSteps /\ UNCHANGED <<vars, ends>>
<1>1. CASE ClientStep
  BY <1>1 DEF ClientStep, Calls, CallStepAlone, CallbackStepAlone, LoopExits,
     AttemptFails, AttemptSucceeds, HearsEnd, HearsNothing, Closes, Next, Callback
<1>2. CASE ServerSteps
  BY <1>2 DEF ServerSteps, Queue, Cut, ServerStep, Accept, StopSession,
     RestartSession, SessionCloses, ReadsEnd, Hears, TimerFires
<1> QED
  BY <1>1, <1>2 DEF ConnectionNext, ServerSteps

LEMMA StepOfClient ==
    ASSUME [ConnectionNext]_allVars PROVE [Next]_vars
  BY Steps DEF allVars

\* The composition implements module Client, so that what is proved of a
\* client in module ClientProofs is proved of this one.
THEOREM ConnectionImplementsClient == ConnectionSpec => Spec
<1>1. ConnectionInit => Init
  BY DEF ConnectionInit
<1> QED
  BY <1>1, StepOfClient, PTL DEF ConnectionSpec, Spec

\* One connection at a time, with every close reported, also where the
\* network decides what the callbacks learn: for an application that calls
\* from handlers and waits for the reports.
THEOREM ConnectionImplementsLifecycle == ConnectionSpec => ImplementsLifecycle
  BY ConnectionImplementsClient, ClientImplementsLifecycle, PTL

LEMMA ClientHolds == ConnectionSpec => []IInv
  BY ConnectionImplementsClient, IInvAlways, PTL

-----------------------------------------------------------------------------
(***************************************************************************)
(* Type correctness                                                        *)
(***************************************************************************)
NetworkTypes ==
    /\ attempt \in Nat
    /\ session \in [Attempts -> {"none", "queued", "open", "closed"}]
    /\ cut \subseteq Attempts

\* A descriptor and a session belong to an attempt that was made.
AttemptsWereMade ==
    /\ attempt <= connects
    /\ held \subseteq 1..connects
    /\ \A k \in Attempts : session[k] # "none" => k <= attempt

\* The timer of an open session is started, whether the session reads or not.
SessionsAreTimed ==
    /\ stopped \subseteq OpenSessions /\ watching = OpenSessions \ stopped
    /\ hearing \subseteq watching /\ heard \subseteq watching

\* connect() has been counted when the socket gets its descriptor.
CallIsCounted == app \in {"init", "start"} => connects # 0

LEMMA CountedStep == IInv /\ CallIsCounted /\ [Next]_vars => CallIsCounted'
<1> SUFFICES ASSUME IInv, CallIsCounted, [Next]_vars,
                    app' \in {"init", "start"}
             PROVE  connects' # 0
  BY DEF CallIsCounted
<1>1. connects \in Nat
  BY ClientAssumption DEF IInv, TypeOK
<1>2. CASE AskConnecting
  BY <1>1, <1>2 DEF AskConnecting
<1>3. CASE ~AskConnecting
  BY <1>3
  DEF CallIsCounted, vars, life, flags, uv, thread, calls, Next, CallStep,
      Callback, CallbackStep, Connect, InitRawSocket, InitSocket, StartConnect,
      MarkConnecting, Disconnect, CallbackDisconnects, DisconnectStep,
      CheckClosing, CloseSocket, ResetConnected, ResetConnecting, StopHeartbeat,
      Start, Stop, Join, Destroy, DeleteLoop, LoopExit, OnConnectError,
      OnConnect, ReadStart, ReadStartFails, SetConnected, AttemptEnds,
      StartHeartbeat, OnReadError, OnHeartbeatTimeout, OnClose, OnStaleClose,
      AppAt, At, Goes, MayCall
<1> QED
  BY <1>2, <1>3

LEMMA ConnectsGrow ==
    ASSUME TypeOK, [Next]_vars PROVE connects' \in Nat /\ connects <= connects'
<1>1. connects \in Nat
  BY ClientAssumption DEF TypeOK
<1>2. connects' = connects \/ connects' = connects + 1
  BY DEF vars, calls, Next, CallStep, Callback, CallbackStep, Connect,
     AskConnecting, InitRawSocket, InitSocket, StartConnect, MarkConnecting,
     Disconnect, CallbackDisconnects, DisconnectStep, CheckClosing, CloseSocket,
     ResetConnected, ResetConnecting, StopHeartbeat, Start, Stop, Join, Destroy,
     DeleteLoop, LoopExit, OnConnectError, OnConnect, ReadStart, ReadStartFails,
     SetConnected, AttemptEnds, StartHeartbeat, OnReadError, OnHeartbeatTimeout,
     OnClose, OnStaleClose
<1> QED
  BY <1>1, <1>2

\* What a step of the server does to the sessions.
LEMMA SessionSteps ==
    ASSUME NetworkTypes, ServerSteps
    PROVE  \/ UNCHANGED session
           \/ \E k \in Attempts :
                 /\ \/ k = attempt /\ session[k] = "none" /\ session'[k] = "queued"
                    \/ session[k] = "queued" /\ session'[k] = "open"
                    \/ session[k] = "open" /\ session'[k] = "closed"
                 /\ session' = [session EXCEPT ![k] = session'[k]]
<1>1. ASSUME NEW k \in Attempts, Queue(k)
      PROVE  /\ k = attempt /\ session[k] = "none" /\ session'[k] = "queued"
             /\ session' = [session EXCEPT ![k] = session'[k]]
  BY <1>1 DEF Queue, NetworkTypes
<1>2. ASSUME NEW k \in Attempts, Accept(k)
      PROVE  /\ session[k] = "queued" /\ session'[k] = "open"
             /\ session' = [session EXCEPT ![k] = session'[k]]
  BY <1>2 DEF Accept, NetworkTypes
<1>3. ASSUME NEW k \in Attempts, SessionCloses(k)
      PROVE  /\ session[k] = "open" /\ session'[k] = "closed"
             /\ session' = [session EXCEPT ![k] = session'[k]]
  BY <1>3 DEF SessionCloses, NetworkTypes
<1>4. ASSUME NEW k \in Attempts, Cut(k) \/ ServerStep(k), ~Accept(k)
      PROVE  UNCHANGED session \/ SessionCloses(k)
  BY <1>4 DEF Cut, ServerStep, StopSession, RestartSession, ReadsEnd, Hears,
     TimerFires
<1>5. ASSUME NEW k \in Attempts, Queue(k) \/ Cut(k) \/ ServerStep(k)
      PROVE  Queue(k) \/ Accept(k) \/ SessionCloses(k) \/ UNCHANGED session
  BY <1>4, <1>5
<1> QED
  BY <1>1, <1>2, <1>3, <1>5 DEF ServerSteps

LEMMA NetworkStep ==
    IInv /\ CallIsCounted /\ NetworkTypes /\ [ConnectionNext]_allVars
        => NetworkTypes'
<1> SUFFICES ASSUME IInv, CallIsCounted, NetworkTypes, [ConnectionNext]_allVars
             PROVE  NetworkTypes'
  OBVIOUS
<1>1. connects \in Nat
  BY ClientAssumption DEF IInv, TypeOK
<1>2. CASE UNCHANGED allVars
  BY <1>2 DEF allVars, ends, network, NetworkTypes
<1>3. CASE Alone
  <2>1. attempt' \in Nat
    BY <1>1, <1>3 DEF Alone, Descriptors, NetworkTypes
  <2> QED
    BY <1>3, <2>1 DEF Alone, network, NetworkTypes
<1>4. CASE ServerSteps /\ UNCHANGED ends
  <2>1. session' \in [Attempts -> {"none", "queued", "open", "closed"}]
    BY <1>4, SessionSteps DEF NetworkTypes
  <2>2. cut' \subseteq Attempts
    BY <1>4
    DEF NetworkTypes, ServerSteps, Queue, Cut, ServerStep, Accept, StopSession,
        RestartSession, SessionCloses, ReadsEnd, Hears, TimerFires
  <2> QED
    BY <1>4, <2>1, <2>2 DEF ends, NetworkTypes
<1> QED
  BY <1>2, <1>3, <1>4, Steps

LEMMA AttemptsStep ==
    ASSUME IInv, CallIsCounted, NetworkTypes, AttemptsWereMade,
           [ConnectionNext]_allVars
    PROVE  AttemptsWereMade'
<1>1. /\ connects \in Nat /\ connects' \in Nat /\ connects <= connects'
      /\ attempt \in Nat
  BY StepOfClient, ConnectsGrow, ClientAssumption DEF IInv, TypeOK, NetworkTypes
<1>2. attempt <= connects' /\ held \subseteq 1..connects'
  BY <1>1 DEF AttemptsWereMade
<1>3. CASE UNCHANGED allVars
  BY <1>2, <1>3 DEF allVars, ends, network, AttemptsWereMade
<1>4. CASE Alone
  <2>1. MakesDescriptor => connects \in 1..connects'
    BY <1>1 DEF MakesDescriptor, CallIsCounted
  <2>2. attempt' = attempt \/ (MakesDescriptor /\ attempt' = connects)
    BY <1>4 DEF Alone, Descriptors
  <2>3. attempt' <= connects' /\ attempt <= attempt'
    BY <1>1, <1>2, <2>2 DEF AttemptsWereMade
  <2>4. held' \subseteq 1..connects'
    BY <1>2, <1>4, <2>1 DEF Alone, Descriptors
  <2>5. ASSUME NEW k \in Attempts, session'[k] # "none" PROVE k <= attempt'
    <3>1. k <= attempt /\ k \in Nat
      BY <1>4, <2>5 DEF Alone, network, AttemptsWereMade, Attempts
    <3>2. attempt' \in Nat
      BY <1>1, <2>2
    <3> QED
      BY <1>1, <2>3, <3>1, <3>2
  <2> QED
    BY <2>3, <2>4, <2>5 DEF AttemptsWereMade
<1>5. CASE ServerSteps /\ UNCHANGED ends
  <2>1. ASSUME NEW j \in Attempts, session'[j] # "none"
        PROVE  session[j] # "none" \/ j = attempt
    BY <1>5, <2>1, SessionSteps DEF NetworkTypes
  <2> QED
    BY <1>1, <1>2, <1>5, <2>1 DEF ends, AttemptsWereMade
<1> QED
  BY <1>3, <1>4, <1>5, Steps

LEMMA TimedStep ==
    ASSUME NetworkTypes, SessionsAreTimed, [ConnectionNext]_allVars
    PROVE  SessionsAreTimed'
<1>1. ASSUME UNCHANGED <<session, hearing, watching, stopped>>,
             heard' \subseteq watching
      PROVE  SessionsAreTimed'
  BY <1>1 DEF SessionsAreTimed, OpenSessions
<1>2. ASSUME NEW k \in Attempts, StartWatch(k), OpenSessions' = OpenSessions \cup {k},
             stopped' = stopped \ {k}
      PROVE  SessionsAreTimed'
  BY <1>2 DEF StartWatch, SessionsAreTimed
<1>3. ASSUME NEW k \in Attempts, SessionCloses(k)
      PROVE  SessionsAreTimed'
  <2>1. OpenSessions' = OpenSessions \ {k}
    BY <1>3 DEF SessionCloses, OpenSessions, NetworkTypes
  <2> QED
    BY <1>3, <2>1 DEF SessionCloses, Unwatch, SessionsAreTimed
<1>4. ASSUME NEW k \in Attempts, Accept(k)
      PROVE  SessionsAreTimed'
  <2>1. OpenSessions' = OpenSessions \cup {k} /\ k \notin OpenSessions
    BY <1>4 DEF Accept, OpenSessions, NetworkTypes
  <2>2. stopped' = stopped \ {k}
    BY <1>4, <2>1 DEF Accept, SessionsAreTimed
  <2> QED
    BY <1>2, <1>4, <2>1, <2>2 DEF Accept
<1>5. ASSUME NEW k \in Attempts, RestartSession(k)
      PROVE  SessionsAreTimed'
  <2>1. OpenSessions' = OpenSessions \cup {k}
    BY <1>5 DEF RestartSession, OpenSessions
  <2> QED
    BY <1>2, <1>5, <2>1 DEF RestartSession
<1>6. ASSUME NEW k \in Attempts, StopSession(k)
      PROVE  SessionsAreTimed'
  <2>1. OpenSessions' = OpenSessions /\ k \in OpenSessions
    BY <1>6 DEF StopSession, OpenSessions
  <2> QED
    BY <1>6, <2>1 DEF StopSession, Unwatch, SessionsAreTimed
<1>7. ASSUME NEW k \in Attempts, Queue(k)
      PROVE  SessionsAreTimed'
  <2>1. OpenSessions' = OpenSessions
    BY <1>7 DEF Queue, OpenSessions, NetworkTypes
  <2> QED
    BY <1>7, <2>1 DEF Queue, watch, SessionsAreTimed
<1>8. ASSUME NEW k \in Attempts, Hears(k)
      PROVE  SessionsAreTimed'
  BY <1>1, <1>8 DEF Hears, Talking, SessionsAreTimed
<1>9. ASSUME NEW k \in Attempts, TimerFires(k)
      PROVE  SessionsAreTimed'
  BY <1>1, <1>3, <1>9 DEF TimerFires, SessionsAreTimed
<1>10. CASE UNCHANGED <<session, watch>>
  BY <1>1, <1>10 DEF watch, SessionsAreTimed
<1>11. CASE ServerSteps
  BY <1>3, <1>4, <1>5, <1>6, <1>7, <1>8, <1>9, <1>10, <1>11
  DEF ServerSteps, ServerStep, ReadsEnd, Cut
<1> QED
  BY <1>10, <1>11, Steps DEF allVars, Alone, network

-----------------------------------------------------------------------------
(***************************************************************************)
(* The last attempt                                                        *)
(***************************************************************************)
\* A socket that is connecting or connected belongs to the last attempt, and
\* the server's kernel has answered before the client hears of it.
Reads == reading \/ (cb = "read" /\ socket = "connected")
Busy == Reads \/ (request /\ socket = "open")

LastAttempt ==
    ~hasty => /\ Busy => attempt = connects /\ attempt \in held
              /\ Reads => Answered

\* A call to connect() is not under way then.
LEMMA BusyPlaces ==
    ASSUME IInv, ~hasty, Busy
    PROVE  /\ app \notin {"init", "start"} /\ socket \in {"open", "connected"}
           /\ Reads => socket = "connected"
  BY DEF IInv, Waited, WaitedSocket, WaitedCall, Busy, Reads

\* Only StartConnect makes the client busy, only OnConnect makes it read.
LEMMA BusyStep ==
    ASSUME IInv, IInv', [Next]_vars, ~hasty', ~StartConnect, Busy'
    PROVE  /\ Busy /\ ~hasty /\ connects' = connects /\ ~MakesDescriptor
           /\ socket' # "closing"
           /\ Reads' => Reads \/ OnConnect
<1>1. app' \notin {"init", "start"} /\ socket' \in {"open", "connected"}
  BY BusyPlaces DEF IInv, Waited, WaitedSocket, WaitedCall, Busy, Reads
<1>2. UNCHANGED calls
  BY <1>1
  DEF vars, calls, Next, CallStep, Callback, CallbackStep, Connect,
      AskConnecting, InitRawSocket, InitSocket, StartConnect, MarkConnecting,
      Disconnect, CallbackDisconnects, DisconnectStep, CheckClosing, CloseSocket,
      ResetConnected, ResetConnecting, StopHeartbeat, Start, Stop, Join, Destroy,
      DeleteLoop, LoopExit, OnConnectError, OnConnect, ReadStart, ReadStartFails,
      SetConnected, AttemptEnds, StartHeartbeat, OnReadError,
      OnHeartbeatTimeout, OnClose, OnStaleClose
<1>3. ~hasty
  BY <1>2 DEF calls
<1>4. ~MakesDescriptor
  BY <1>1
  DEF MakesDescriptor, vars, life, Next, CallStep, Callback, CallbackStep,
      Connect, AskConnecting, InitRawSocket, InitSocket, MarkConnecting,
      Disconnect, CallbackDisconnects, DisconnectStep, CheckClosing, CloseSocket,
      ResetConnected, ResetConnecting, StopHeartbeat, Start, Stop, Join, Destroy,
      DeleteLoop, LoopExit, OnConnectError, OnConnect, ReadStart, ReadStartFails,
      SetConnected, AttemptEnds, StartHeartbeat, OnReadError,
      OnHeartbeatTimeout, OnClose, OnStaleClose, AppAt, At, Goes, MayCall
<1>5. CASE OnConnect
  <2>1. request /\ HasDescriptor
    BY <1>5 DEF OnConnect
  <2>2. socket = "open"
    BY <1>3, <2>1 DEF HasDescriptor, IInv, Waited, WaitedSocket
  <2> QED
    BY <1>1, <1>2, <1>3, <1>4, <1>5, <2>1, <2>2 DEF calls, Busy
<1>6. CASE ~OnConnect
  <2>1. (request' => request) /\ (socket' = "open" => socket = "open")
    BY <1>6
    DEF vars, uv, Next, CallStep, Callback, CallbackStep, Connect,
        AskConnecting, InitRawSocket, InitSocket, UvTcpInit, MarkConnecting,
        Disconnect, CallbackDisconnects, DisconnectStep, CheckClosing,
        CloseSocket, UvClose, ResetConnected, ResetConnecting, StopHeartbeat,
        Start, Stop, Join, Destroy, DeleteLoop, LoopExit, OnConnectError,
        ReadStart, ReadStartFails, SetConnected, AttemptEnds, StartHeartbeat,
        OnReadError, OnHeartbeatTimeout, OnClose, OnStaleClose
  <2>2. /\ cb' = "read" => cb = "read"
        /\ socket' = "connected" => socket = "connected"
    BY <1>6
    DEF vars, uv, Next, CallStep, Callback, CallbackStep, Connect,
        AskConnecting, InitRawSocket, InitSocket, UvTcpInit, MarkConnecting,
        Disconnect, CallbackDisconnects, DisconnectStep, CheckClosing,
        CloseSocket, UvClose, ResetConnected, ResetConnecting, StopHeartbeat,
        Start, Stop, Join, Destroy, DeleteLoop, LoopExit, OnConnectError,
        ReadStart, ReadStartFails, SetConnected, AttemptEnds, AfterReset,
        StartHeartbeat, OnReadError, OnHeartbeatTimeout, OnClose, OnStaleClose,
        Goes, Threads
  <2>3. reading' /\ ~reading => cb = "read" /\ socket \in {"connected", "zombie"}
    BY <1>6
    DEF vars, uv, Next, CallStep, Callback, CallbackStep, Connect,
        AskConnecting, InitRawSocket, InitSocket, UvTcpInit, MarkConnecting,
        StartConnect, Disconnect, CallbackDisconnects, DisconnectStep,
        CheckClosing, CloseSocket, UvClose, ResetConnected, ResetConnecting,
        StopHeartbeat, Start, Stop, Join, Destroy, DeleteLoop, LoopExit,
        OnConnectError, ReadStart, LoopAt, ReadStartFails, SetConnected,
        AttemptEnds, StartHeartbeat, OnReadError, OnHeartbeatTimeout, OnClose,
        OnStaleClose
  <2>4. socket # "zombie"
    BY <1>3 DEF IInv, Waited, WaitedSocket
  <2>5. Reads' => Reads
    BY <2>2, <2>3, <2>4 DEF Reads
  <2> QED
    BY <1>1, <1>2, <1>3, <1>4, <2>1, <2>5 DEF calls, Busy
<1> QED
  BY <1>5, <1>6

\* Sessions are not forgotten.
LEMMA AnsweredStep ==
    ASSUME NetworkTypes, [ConnectionNext]_allVars, attempt' = attempt, Answered
    PROVE  Answered'
<1>1. CASE UNCHANGED session
  BY <1>1 DEF Answered
<1>2. CASE ServerSteps
  BY <1>2, SessionSteps DEF NetworkTypes, Answered
<1> QED
  BY <1>1, <1>2, Steps DEF allVars, Alone, network

LEMMA LastAttemptStep ==
    IInv /\ IInv' /\ NetworkTypes /\ CallIsCounted /\ LastAttempt
         /\ [ConnectionNext]_allVars
        => LastAttempt'
<1> SUFFICES ASSUME IInv, IInv', NetworkTypes, CallIsCounted, LastAttempt,
                    [ConnectionNext]_allVars, ~hasty'
             PROVE  /\ Busy' => attempt' = connects' /\ attempt' \in held'
                    /\ Reads' => Answered'
  BY DEF LastAttempt
<1>1. [Next]_vars
  BY StepOfClient
<1>2. CASE StartConnect
  <2>1. /\ ~hasty /\ app = "start" /\ app' # "start"
        /\ UNCHANGED <<reading, cb, connects>>
    BY <1>2 DEF StartConnect, AppAt, calls
  <2>2. ~Reads'
    BY <2>1 DEF IInv, Waited, WaitedCall, Reads
  <2>3. Busy' => MakesDescriptor
    BY <2>1, <2>2 DEF Busy, MakesDescriptor, HasDescriptor
  <2>4. Descriptors
    BY <2>1, Steps DEF allVars, vars, Alone
  <2>5. MakesDescriptor => attempt' = connects /\ attempt' \in held'
    <3> SUFFICES ASSUME MakesDescriptor PROVE attempt' = connects /\ connects \in held'
      OBVIOUS
    <3>1. attempt' = connects
      BY <2>4 DEF Descriptors
    <3>2. socket' # "closing"
      BY DEF MakesDescriptor, HasDescriptor
    <3>3. held' = held \cup {connects}
      BY <2>4, <3>2 DEF Descriptors
    <3> QED
      BY <3>1, <3>3
  <2> QED
    BY <2>1, <2>2, <2>3, <2>5
<1>3. ASSUME ~StartConnect, Busy'
      PROVE  /\ attempt' = connects' /\ attempt' \in held'
             /\ Reads' => Answered'
  <2>1. /\ Busy /\ ~hasty /\ connects' = connects /\ ~MakesDescriptor
        /\ socket' # "closing"
        /\ Reads' => Reads \/ OnConnect
    BY <1>1, <1>3, BusyStep
  <2>2. attempt' = attempt /\ held' = held
    BY <2>1, Steps DEF allVars, ends, Alone, Descriptors
  <2>3. Reads' => Answered
    <3>1. CASE Reads
      BY <2>1, <3>1 DEF LastAttempt
    <3>2. CASE AttemptSucceeds
      BY <3>2 DEF AttemptSucceeds
    <3>3. CASE ~Reads /\ ~AttemptSucceeds
      <4>1. ~(cb' = "read" /\ cb # "read")
        BY <3>3
        DEF allVars, vars, uv, ConnectionNext, ClientStep, Calls,
            CallStepAlone, CallbackStepAlone, LoopExits, AttemptFails, HearsEnd,
            HearsNothing, Closes, Queue, Cut, ServerStep, Accept, StopSession,
            RestartSession, SessionCloses, ReadsEnd, Hears, TimerFires,
            CallStep, CallbackStep, Connect, AskConnecting, InitRawSocket, InitSocket, StartConnect,
            MarkConnecting, Disconnect, CallbackDisconnects, DisconnectStep,
            CheckClosing, CloseSocket, ResetConnected, ResetConnecting,
            StopHeartbeat, Start, Stop, Join, Destroy, DeleteLoop, LoopExit,
            OnConnectError, ReadStart, ReadStartFails, SetConnected,
            AttemptEnds, AfterReset, StartHeartbeat, OnReadError,
            OnHeartbeatTimeout, OnClose, OnStaleClose, Goes, Threads
      <4>2. OnConnect => cb' = "read" /\ cb = "idle"
        BY DEF OnConnect, LoopRuns, LoopAt
      <4> QED
        BY <2>1, <3>3, <4>1, <4>2
    <3> QED
      BY <3>1, <3>2, <3>3
  <2> QED
    BY <2>1, <2>2, <2>3, AnsweredStep DEF LastAttempt
<1>4. ASSUME ~Busy' PROVE ~Reads'
  BY <1>4 DEF Busy
<1> QED
  BY <1>2, <1>3, <1>4

-----------------------------------------------------------------------------
ConnectionInv ==
    NetworkTypes /\ AttemptsWereMade /\ SessionsAreTimed /\ CallIsCounted /\ LastAttempt

LEMMA ConnectionInvAlways == ConnectionSpec => []ConnectionInv
<1>1. ConnectionInit => ConnectionInv
  BY ClientAssumption
  DEF ConnectionInit, Init, ConnectionInv, NetworkTypes, AttemptsWereMade,
      SessionsAreTimed, OpenSessions, CallIsCounted, LastAttempt, Busy, Reads,
      Attempts
<1>2. IInv /\ IInv' /\ ConnectionInv /\ [ConnectionNext]_allVars
        => ConnectionInv'
  BY StepOfClient, CountedStep, NetworkStep, AttemptsStep, TimedStep,
     LastAttemptStep DEF ConnectionInv
<1> QED
  BY <1>1, <1>2, ClientHolds, PTL DEF ConnectionSpec

\* The type invariant of the composition: descriptors and sessions belong to
\* attempts that were made, whatever attempts failed or were given up, and an
\* open session has its timer started unless the application stopped it.
THEOREM ConnectionTypeCorrect == ConnectionSpec => []ConnectionTypeOK
<1>1. IInv /\ ConnectionInv => ConnectionTypeOK
  <2> SUFFICES ASSUME IInv, ConnectionInv PROVE ConnectionTypeOK
    OBVIOUS
  <2>1. attempt \in 0..connects
    BY ClientAssumption
    DEF IInv, TypeOK, ConnectionInv, NetworkTypes, AttemptsWereMade
  <2> QED
    BY <2>1 DEF IInv, ConnectionInv, NetworkTypes, AttemptsWereMade,
       SessionsAreTimed, ConnectionTypeOK
<1> QED
  BY <1>1, ClientHolds, ConnectionInvAlways, PTL

\* A client that says it is connected is connected through its last attempt,
\* which the server's kernel has answered, for any number of attempts: at any
\* rest for calls from handlers, and from a thread when no report is due.
THEOREM ConnectedThroughLastAlways == ConnectionSpec => []ConnectedThroughLast
<1>1. ConnectionInv /\ ConnectedIffReading => ConnectedThroughLast
  BY DEF ConnectionInv, LastAttempt, Busy, Reads, ConnectedIffReading,
     ConnectedThroughLast
<1> QED
  BY <1>1, ConnectionImplementsClient, ConnectedIsExact, ConnectionInvAlways, PTL

-----------------------------------------------------------------------------
(***************************************************************************)
(* The server's end is what module Server implements                       *)
(***************************************************************************)
ClosedSessions == {k \in Attempts : session[k] = "closed"}

Registry == INSTANCE SessionRegistry
    WITH Sessions <- Attempts, members <- OpenSessions, reported <- ClosedSessions

LEMMA RegistryStep ==
    ASSUME NetworkTypes, [ConnectionNext]_allVars
    PROVE  [Registry!Next]_(Registry!vars)
<1>1. CASE UNCHANGED session
  BY <1>1 DEF Registry!vars, OpenSessions, ClosedSessions
<1>2. ASSUME NEW k \in Attempts, session[k] = "none", session'[k] = "queued",
             session' = [session EXCEPT ![k] = session'[k]]
      PROVE  UNCHANGED Registry!vars
  BY <1>2 DEF NetworkTypes, Registry!vars, OpenSessions, ClosedSessions
<1>3. ASSUME NEW k \in Attempts, session[k] = "queued", session'[k] = "open",
             session' = [session EXCEPT ![k] = session'[k]]
      PROVE  Registry!Join
  <2>1. k \in Attempts \ (OpenSessions \cup ClosedSessions)
    BY <1>3 DEF OpenSessions, ClosedSessions
  <2>2. OpenSessions' = OpenSessions \cup {k} /\ ClosedSessions' = ClosedSessions
    BY <1>3 DEF NetworkTypes, OpenSessions, ClosedSessions
  <2> QED
    BY <2>1, <2>2 DEF Registry!Join
<1>4. ASSUME NEW k \in Attempts, session[k] = "open", session'[k] = "closed",
             session' = [session EXCEPT ![k] = session'[k]]
      PROVE  Registry!Leave
  <2>1. k \in OpenSessions
    BY <1>4 DEF OpenSessions
  <2>2. /\ OpenSessions' = OpenSessions \ {k}
        /\ ClosedSessions' = ClosedSessions \cup {k}
    BY <1>4 DEF NetworkTypes, OpenSessions, ClosedSessions
  <2> QED
    BY <2>1, <2>2 DEF Registry!Leave
<1>5. CASE ServerSteps
  BY <1>1, <1>2, <1>3, <1>4, <1>5, SessionSteps DEF Registry!Next
<1> QED
  BY <1>1, <1>5, Steps DEF allVars, network, Alone

\* What the composition takes the server for is what module Server was shown to
\* implement: a session joins once, is closed once and never comes back.
THEOREM ConnectionImplementsRegistry == ConnectionSpec => Registry!Spec
<1>1. ConnectionInit => Registry!Init
  BY DEF ConnectionInit, Registry!Init, OpenSessions, ClosedSessions, Attempts
<1>2. ConnectionInv /\ [ConnectionNext]_allVars => [Registry!Next]_(Registry!vars)
  BY RegistryStep DEF ConnectionInv
<1> QED
  BY <1>1, <1>2, ConnectionInvAlways, PTL DEF ConnectionSpec, Registry!Spec

-----------------------------------------------------------------------------
(***************************************************************************)
(* What LossIsLearned rests on                                             *)
(***************************************************************************)
\* A running client that takes itself for connected to a session that has
\* ended is reading from a stream that ended; its heartbeat watches it too, so
\* that no cut of the network hides the loss, unless it was stopped and started.
LossCanBeHeard ==
    (Settled /\ ~hasty /\ loop = "running" /\ is_connected /\ SessionEnded)
        => /\ LoopRuns /\ StreamEnds /\ reading /\ HasDescriptor
           /\ starts <= 1 => timer

\* A client whose session has ended has a callback that will tell it, once
\* what disconnect() and on_connect left among each other has been reported:
\* LossIsLearned asks no more than that the loop runs it.
THEOREM LossCanBeHeardAlways == ConnectionSpec => []LossCanBeHeard
<1>1. ConnectedIffReading /\ Watched => LossCanBeHeard
  <2> SUFFICES ASSUME ConnectedIffReading, Watched,
                      Settled, ~hasty, loop = "running",
                      is_connected, SessionEnded
               PROVE  /\ LoopRuns /\ StreamEnds /\ reading /\ HasDescriptor
                      /\ starts <= 1 => timer
    BY DEF LossCanBeHeard
  <2>1. LoopRuns /\ StreamEnds
    BY DEF Settled, AtRest, LoopRuns, LoopAt, SessionEnded, StreamEnds
  <2>2. reading /\ HasDescriptor
    BY DEF ConnectedIffReading, HasDescriptor
  <2> QED
    BY <2>1, <2>2 DEF Watched
<1>2. ConnectionSpec => [](ConnectedIffReading /\ Watched)
  BY ConnectionImplementsClient, ConnectedIsExact, ConnectionsAreWatched, PTL
<1> QED
  BY <1>1, <1>2, PTL
=============================================================================

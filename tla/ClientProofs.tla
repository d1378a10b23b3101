---------------------------- MODULE ClientProofs ----------------------------
(***************************************************************************)
(* The flags of a client agree with its socket, and it implements the      *)
(* abstract life cycle, for any number of calls: what an application may   *)
(* rely on when the steps of its calls and those of the callbacks come in  *)
(* any order.                                                              *)
(***************************************************************************)
EXTENDS Client, TLAPS

(***************************************************************************)
(* The inductive invariant.  The properties speak of the moments when no   *)
(* call and no callback is under way; what each needs to find, and leaves, *)
(* in the middle is stated here.                                           *)
(***************************************************************************)
Alike == socket \in {"fresh", "open", "connected"}

\* Each initialised handle is closed at most once, and each connect()
\* initialises at most one.
ClosesAreCounted ==
    /\ owed + (IF Alike THEN 1 ELSE 0) + (IF app = "init" THEN 1 ELSE 0)
           <= connects
    /\ app = "ask" => connects < MaxConnects

\* Nothing is done with a handle that was never initialised.
RawIsUntouched ==
    socket = "raw" => /\ ~is_connected /\ ~is_connecting /\ ~timer
                      /\ ~reading /\ ~request /\ cb = "idle"
                      /\ app \in {"idle", "ask", "init", "join", "gone"}

\* Where on_connect has not reset is_connecting_ yet, where it goes after
\* uv_read_start succeeded, and where disconnect() is before and after the
\* close.
Attempting == {"failed", "read", "give_up", "connected", "attempted"}
Succeeding == {"connected", "attempted", "watch"}
Closing == {"check", "close"}
Closed == {"off", "unmark", "unwatch"}

\* As long as connect() was only called with every close reported: the
\* socket, what a call may find, what a callback may find, the flags.
WaitedSocket ==
    /\ owed = (IF socket = "closing" THEN 1 ELSE 0)
    /\ ~stale /\ socket # "zombie"
    /\ request => socket \in {"open", "closing"}
    /\ reading => socket = "connected"

WaitedCall ==
    /\ app \in {"init", "start"} =>
           /\ ~request /\ ~reading /\ ~is_connected /\ ~is_connecting
           /\ socket # "closing" /\ cb \in {"idle", "enter"}
    /\ app = "start" => socket = "fresh"
    /\ app \in Closed => socket \in {"closing", "closed"}

WaitedCallback ==
    /\ cb \in Attempting => is_connecting \/ app = "mark" \/ socket = "closing"
    /\ cb \in Attempting \cup Succeeding =>
           socket \in {"open", "connected", "closing"}
    /\ cb \in Attempting \cup Succeeding \cup Closed =>
           ~(request /\ socket = "open")
    /\ cb = "read" => socket # "open"
    /\ cb \in {"failed", "read", "give_up"} => ~reading
    /\ cb \in Succeeding => reading \/ socket = "closing"
    /\ cb = "watch" => is_connected \/ socket = "closing"
    /\ cb \in Closing => is_connected \/ is_connecting \/ socket = "closing"
    /\ cb \in Closing \cup {"enter"} => socket # "closed"
    /\ cb \in Closed => socket \in {"closing", "closed"}

WaitedFlags ==
    /\ is_connected => reading \/ socket = "closing" \/ cb = "off"
    /\ reading => is_connected \/ cb = "connected"
    /\ request /\ socket = "open" => is_connecting \/ app = "mark"
    /\ timer => reading \/ socket = "closing" \/ cb \in Closed

Waited == ~hasty => WaitedSocket /\ WaitedCall /\ WaitedCallback /\ WaitedFlags

\* As long as calls are made from handlers, hasty or not: where calls and
\* callbacks are, the two flags, the timer.
HandlerPlaces ==
    /\ cb # "idle" => app \in {"idle", "join"}
    /\ app \in Closed \/ cb \in Closed => UvIsClosing
    /\ app \in Closing \/ cb \in Closing => is_connected \/ is_connecting
    /\ app = "close" \/ cb = "close" => ~UvIsClosing
    /\ app = "start" => socket = "fresh" /\ ~request
    /\ app = "mark" => socket = "open" /\ request

HandlerConnecting ==
    /\ socket = "zombie" => ~request
    /\ app \in {"idle", "join", "check", "close", "gone"}
       /\ cb \in {"idle", "watch", "enter", "check", "close"} =>
           (is_connecting <=> (request /\ HasDescriptor))
    /\ app \in {"ask", "init", "start"} =>
           ~is_connecting /\ ~(request /\ HasDescriptor)
    /\ cb \in Attempting => ~request
    /\ app = "unwatch" \/ cb = "unwatch" => ~is_connecting

HandlerConnected ==
    /\ is_connected => \/ socket \in {"connected", "zombie"}
                       \/ app = "off" \/ cb = "off"
    /\ app \in {"ask", "init", "start", "mark"} => ~is_connected
    /\ cb = "connected" => socket \in {"connected", "zombie"}

HandlerTimer ==
    /\ app \in {"unmark", "unwatch"} \/ cb \in {"unmark", "unwatch"} =>
           ~is_connected
    /\ cb \in {"attempted", "watch"} => is_connected
    /\ timer => \/ is_connected \/ app \in {"unmark", "unwatch"}
                \/ cb \in {"unmark", "unwatch"}

FromHandlers ==
    caller = "handler" /\ fault = "none" =>
        /\ HandlerPlaces /\ HandlerConnecting
        /\ HandlerConnected /\ HandlerTimer

\* The type invariant in three parts.
FlagTypes ==
    /\ dying \in BOOLEAN /\ hasty \in BOOLEAN
    /\ is_connected \in BOOLEAN /\ is_connecting \in BOOLEAN
    /\ reading \in BOOLEAN /\ request \in BOOLEAN /\ stale \in BOOLEAN
    /\ timer \in BOOLEAN /\ should_stop \in BOOLEAN

PlaceTypes ==
    /\ caller \in Callers
    /\ socket \in {"raw", "fresh", "open", "connected", "closing", "closed",
                   "zombie"}
    /\ loop \in {"none", "running", "exited"}
    /\ app \in {"idle", "ask", "init", "start", "mark", "check", "close", "off",
                "unmark", "unwatch", "join", "gone"}
    /\ cb \in {"idle", "failed", "read", "give_up", "connected", "attempted",
               "watch", "enter", "check", "close", "off", "unmark", "unwatch"}
    /\ fault \in {"none", "garbage", "close", "stale", "handles"}

CountTypes ==
    owed \in Nat /\ connects \in 0..MaxConnects /\ starts \in 0..MaxStarts

IInv == TypeOK /\ ClosesAreCounted /\ RawIsUntouched /\ Waited /\ FromHandlers

-----------------------------------------------------------------------------
LEMMA FlagStep ==
    ASSUME FlagTypes, [Next]_vars
    PROVE  FlagTypes'
<1>1. CASE UNCHANGED vars
  BY <1>1 DEF vars, life, flags, uv, thread, calls, FlagTypes
<1>2. CASE Connect
  BY <1>2 DEF Connect, AppAt, MayCall, life, flags, uv, thread, calls,
     FlagTypes
<1>3. CASE AskConnecting
  BY <1>3 DEF AskConnecting, AppAt, MayConnect, life, flags, uv, thread,
     calls, FlagTypes
<1>4. CASE InitRawSocket
  BY <1>4 DEF InitRawSocket, AppAt, UvTcpInit, life, flags, uv, thread,
     calls, FlagTypes
<1>5. CASE InitSocket
  BY <1>5 DEF InitSocket, AppAt, UvTcpInit, UvIsClosing, life, flags, uv,
     thread, calls, FlagTypes
<1>6. CASE StartConnect
  BY <1>6 DEF StartConnect, AppAt, Opened, UvIsClosing, life, flags, uv,
     thread, calls, FlagTypes
<1>7. CASE MarkConnecting
  BY <1>7 DEF MarkConnecting, AppAt, life, flags, uv, thread, calls,
     FlagTypes
<1>8. CASE Disconnect
  BY <1>8 DEF Disconnect, AppAt, life, flags, uv, thread, calls, FlagTypes
<1>9. CASE Start
  BY <1>9 DEF Start, AppAt, MayCall, life, flags, uv, thread, calls,
     FlagTypes
<1>10. CASE Stop
  BY <1>10 DEF Stop, AppAt, life, flags, uv, thread, calls, FlagTypes
<1>11. CASE Join
  BY <1>11 DEF Join, AppAt, life, flags, uv, thread, calls, FlagTypes
<1>12. CASE Destroy
  BY <1>12 DEF Destroy, AppAt, MayCall, life, flags, uv, thread, calls,
     FlagTypes
<1>13. CASE DeleteLoop
  BY <1>13 DEF DeleteLoop, AppAt, life, flags, uv, thread, calls, FlagTypes
<1>14. CASE LoopExit
  BY <1>14 DEF LoopExit, LoopRuns, LoopAt, life, flags, uv, thread, calls,
     FlagTypes
<1>15. CASE OnConnectError
  BY <1>15 DEF OnConnectError, LoopRuns, LoopAt, HasDescriptor, life, flags,
     uv, thread, calls, FlagTypes
<1>16. CASE OnConnect
  BY <1>16 DEF OnConnect, LoopRuns, LoopAt, HasDescriptor, Connected,
     UvIsClosing, life, flags, uv, thread, calls, FlagTypes
<1>17. CASE ReadStart
  BY <1>17 DEF ReadStart, LoopAt, life, flags, uv, thread, calls, FlagTypes
<1>18. CASE ReadStartFails
  BY <1>18 DEF ReadStartFails, LoopAt, life, flags, uv, thread, calls,
     FlagTypes
<1>19. CASE SetConnected
  BY <1>19 DEF SetConnected, LoopAt, life, flags, uv, thread, calls,
     FlagTypes
<1>20. CASE AttemptEnds
  BY <1>20 DEF AttemptEnds, LoopAt, AfterReset, life, flags, uv, thread,
     calls, FlagTypes
<1>21. CASE StartHeartbeat
  BY <1>21 DEF StartHeartbeat, LoopAt, life, flags, uv, thread, calls,
     FlagTypes
<1>22. CASE OnReadError
  BY <1>22 DEF OnReadError, LoopRuns, LoopAt, HasDescriptor, life, flags,
     uv, thread, calls, FlagTypes
<1>23. CASE OnHeartbeatTimeout
  BY <1>23 DEF OnHeartbeatTimeout, LoopRuns, LoopAt, life, flags, uv,
     thread, calls, FlagTypes
<1>24. CASE CallbackDisconnects
  BY <1>24 DEF CallbackDisconnects, LoopAt, life, flags, uv, thread, calls,
     FlagTypes
<1>25. CASE OnClose
  BY <1>25 DEF OnClose, LoopRuns, LoopAt, Reports, life, flags, uv, thread,
     calls, FlagTypes
<1>26. CASE OnStaleClose
  BY <1>26 DEF OnStaleClose, LoopRuns, LoopAt, life, flags, uv, thread,
     calls, FlagTypes
<1>27. ASSUME NEW t \in Threads, CheckClosing(t) PROVE FlagTypes'
  BY <1>27 DEF CheckClosing, UvIsClosing, Threads, At, AppAt, LoopAt, Goes,
     life, flags, uv, thread, calls, FlagTypes
<1>28. ASSUME NEW t \in Threads, CloseSocket(t) PROVE FlagTypes'
  BY <1>28 DEF CloseSocket, UvClose, UvIsClosing, Threads, At, AppAt,
     LoopAt, Goes, life, flags, uv, thread, calls, FlagTypes
<1>29. ASSUME NEW t \in Threads, ResetConnected(t) PROVE FlagTypes'
  BY <1>29 DEF ResetConnected, Threads, At, AppAt, LoopAt, Goes, life,
     flags, uv, thread, calls, FlagTypes
<1>30. ASSUME NEW t \in Threads, ResetConnecting(t) PROVE FlagTypes'
  BY <1>30 DEF ResetConnecting, Threads, At, AppAt, LoopAt, Goes, life,
     flags, uv, thread, calls, FlagTypes
<1>31. ASSUME NEW t \in Threads, StopHeartbeat(t) PROVE FlagTypes'
  BY <1>31 DEF StopHeartbeat, Threads, At, AppAt, LoopAt, Goes, life, flags,
     uv, thread, calls, FlagTypes
<1> QED
  BY <1>1, <1>2, <1>3, <1>4, <1>5, <1>6, <1>7, <1>8, <1>9, <1>10, <1>11,
     <1>12, <1>13, <1>14, <1>15, <1>16, <1>17, <1>18, <1>19, <1>20, <1>21,
     <1>22, <1>23, <1>24, <1>25, <1>26, <1>27, <1>28, <1>29, <1>30, <1>31 DEF
     Next, CallStep, Callback, CallbackStep, DisconnectStep, Threads

LEMMA PlaceStep ==
    ASSUME PlaceTypes, [Next]_vars
    PROVE  PlaceTypes'
<1>1. CASE UNCHANGED vars
  BY <1>1 DEF vars, life, flags, uv, thread, calls, PlaceTypes
<1>2. CASE Connect
  BY <1>2 DEF Connect, AppAt, MayCall, life, flags, uv, thread, calls,
     PlaceTypes
<1>3. CASE AskConnecting
  BY <1>3 DEF AskConnecting, AppAt, MayConnect, life, flags, uv, thread,
     calls, PlaceTypes
<1>4. CASE InitRawSocket
  BY <1>4 DEF InitRawSocket, AppAt, UvTcpInit, life, flags, uv, thread,
     calls, PlaceTypes
<1>5. CASE InitSocket
  BY <1>5 DEF InitSocket, AppAt, UvTcpInit, UvIsClosing, life, flags, uv,
     thread, calls, PlaceTypes
<1>6. CASE StartConnect
  BY <1>6 DEF StartConnect, AppAt, Opened, UvIsClosing, life, flags, uv,
     thread, calls, PlaceTypes
<1>7. CASE MarkConnecting
  BY <1>7 DEF MarkConnecting, AppAt, life, flags, uv, thread, calls,
     PlaceTypes
<1>8. CASE Disconnect
  BY <1>8 DEF Disconnect, AppAt, life, flags, uv, thread, calls, PlaceTypes
<1>9. CASE Start
  BY <1>9 DEF Start, AppAt, MayCall, life, flags, uv, thread, calls,
     PlaceTypes
<1>10. CASE Stop
  BY <1>10 DEF Stop, AppAt, life, flags, uv, thread, calls, PlaceTypes
<1>11. CASE Join
  BY <1>11 DEF Join, AppAt, life, flags, uv, thread, calls, PlaceTypes
<1>12. CASE Destroy
  BY <1>12 DEF Destroy, AppAt, MayCall, life, flags, uv, thread, calls,
     PlaceTypes
<1>13. CASE DeleteLoop
  BY <1>13 DEF DeleteLoop, AppAt, life, flags, uv, thread, calls, PlaceTypes
<1>14. CASE LoopExit
  BY <1>14 DEF LoopExit, LoopRuns, LoopAt, life, flags, uv, thread, calls,
     PlaceTypes
<1>15. CASE OnConnectError
  BY <1>15 DEF OnConnectError, LoopRuns, LoopAt, HasDescriptor, life, flags,
     uv, thread, calls, PlaceTypes
<1>16. CASE OnConnect
  BY <1>16 DEF OnConnect, LoopRuns, LoopAt, HasDescriptor, Connected,
     UvIsClosing, life, flags, uv, thread, calls, PlaceTypes
<1>17. CASE ReadStart
  BY <1>17 DEF ReadStart, LoopAt, life, flags, uv, thread, calls, PlaceTypes
<1>18. CASE ReadStartFails
  BY <1>18 DEF ReadStartFails, LoopAt, life, flags, uv, thread, calls,
     PlaceTypes
<1>19. CASE SetConnected
  BY <1>19 DEF SetConnected, LoopAt, life, flags, uv, thread, calls,
     PlaceTypes
<1>20. CASE AttemptEnds
  BY <1>20 DEF AttemptEnds, LoopAt, AfterReset, life, flags, uv, thread,
     calls, PlaceTypes
<1>21. CASE StartHeartbeat
  BY <1>21 DEF StartHeartbeat, LoopAt, life, flags, uv, thread, calls,
     PlaceTypes
<1>22. CASE OnReadError
  BY <1>22 DEF OnReadError, LoopRuns, LoopAt, HasDescriptor, life, flags,
     uv, thread, calls, PlaceTypes
<1>23. CASE OnHeartbeatTimeout
  BY <1>23 DEF OnHeartbeatTimeout, LoopRuns, LoopAt, life, flags, uv,
     thread, calls, PlaceTypes
<1>24. CASE CallbackDisconnects
  BY <1>24 DEF CallbackDisconnects, LoopAt, life, flags, uv, thread, calls,
     PlaceTypes
<1>25. CASE OnClose
  BY <1>25 DEF OnClose, LoopRuns, LoopAt, Reports, life, flags, uv, thread,
     calls, PlaceTypes
<1>26. CASE OnStaleClose
  BY <1>26 DEF OnStaleClose, LoopRuns, LoopAt, life, flags, uv, thread,
     calls, PlaceTypes
<1>27. ASSUME NEW t \in Threads, CheckClosing(t) PROVE PlaceTypes'
  BY <1>27 DEF CheckClosing, UvIsClosing, Threads, At, AppAt, LoopAt, Goes,
     life, flags, uv, thread, calls, PlaceTypes
<1>28. ASSUME NEW t \in Threads, CloseSocket(t) PROVE PlaceTypes'
  BY <1>28 DEF CloseSocket, UvClose, UvIsClosing, Threads, At, AppAt,
     LoopAt, Goes, life, flags, uv, thread, calls, PlaceTypes
<1>29. ASSUME NEW t \in Threads, ResetConnected(t) PROVE PlaceTypes'
  BY <1>29 DEF ResetConnected, Threads, At, AppAt, LoopAt, Goes, life,
     flags, uv, thread, calls, PlaceTypes
<1>30. ASSUME NEW t \in Threads, ResetConnecting(t) PROVE PlaceTypes'
  BY <1>30 DEF ResetConnecting, Threads, At, AppAt, LoopAt, Goes, life,
     flags, uv, thread, calls, PlaceTypes
<1>31. ASSUME NEW t \in Threads, StopHeartbeat(t) PROVE PlaceTypes'
  BY <1>31 DEF StopHeartbeat, Threads, At, AppAt, LoopAt, Goes, life, flags,
     uv, thread, calls, PlaceTypes
<1> QED
  BY <1>1, <1>2, <1>3, <1>4, <1>5, <1>6, <1>7, <1>8, <1>9, <1>10, <1>11,
     <1>12, <1>13, <1>14, <1>15, <1>16, <1>17, <1>18, <1>19, <1>20, <1>21,
     <1>22, <1>23, <1>24, <1>25, <1>26, <1>27, <1>28, <1>29, <1>30, <1>31 DEF
     Next, CallStep, Callback, CallbackStep, DisconnectStep, Threads

LEMMA CountStep ==
    ASSUME PlaceTypes, CountTypes, ClosesAreCounted, RawIsUntouched, [Next]_vars
    PROVE  (CountTypes /\ ClosesAreCounted)'
<1>1. CASE UNCHANGED vars
  BY <1>1, ClientAssumption DEF vars, life, flags, uv, thread, calls,
     PlaceTypes, CountTypes, ClosesAreCounted, RawIsUntouched, Alike,
     UvIsClosing
<1>2. CASE Connect
  BY <1>2, ClientAssumption DEF Connect, AppAt, MayCall, life, flags, uv,
     thread, calls, PlaceTypes, CountTypes, ClosesAreCounted, RawIsUntouched,
     Alike, UvIsClosing
<1>3. CASE AskConnecting
  <2>1. UNCHANGED <<socket, owed, starts>> /\ app = "ask"
    BY <1>3 DEF AskConnecting, AppAt, uv, thread
  <2>2. CASE is_connecting
    BY <1>3, <2>1, <2>2
    DEF AskConnecting, calls, CountTypes, ClosesAreCounted, Alike
  <2>3. CASE ~is_connecting
    <3>1. connects' = connects + 1 /\ app' = "init"
      BY <1>3, <2>3 DEF AskConnecting
    <3>2. connects' \in 0..MaxConnects
      BY <2>1, ClientAssumption, <3>1 DEF CountTypes, ClosesAreCounted
    <3> QED
      BY <2>1, <3>1, <3>2, ClientAssumption
      DEF CountTypes, ClosesAreCounted, Alike
  <2> QED
    BY <2>2, <2>3
<1>4. CASE InitRawSocket
  BY <1>4, ClientAssumption DEF InitRawSocket, AppAt, UvTcpInit, life,
     flags, uv, thread, calls, PlaceTypes, CountTypes, ClosesAreCounted,
     RawIsUntouched, Alike, UvIsClosing
<1>5. CASE InitSocket
  BY <1>5, ClientAssumption DEF InitSocket, AppAt, UvTcpInit, UvIsClosing,
     life, flags, uv, thread, calls, PlaceTypes, CountTypes, ClosesAreCounted,
     RawIsUntouched, Alike
<1>6. CASE StartConnect
  BY <1>6, ClientAssumption DEF StartConnect, AppAt, Opened, UvIsClosing,
     life, flags, uv, thread, calls, PlaceTypes, CountTypes, ClosesAreCounted,
     RawIsUntouched, Alike
<1>7. CASE MarkConnecting
  BY <1>7, ClientAssumption DEF MarkConnecting, AppAt, life, flags, uv,
     thread, calls, PlaceTypes, CountTypes, ClosesAreCounted, RawIsUntouched,
     Alike, UvIsClosing
<1>8. CASE Disconnect
  BY <1>8, ClientAssumption DEF Disconnect, AppAt, life, flags, uv, thread,
     calls, PlaceTypes, CountTypes, ClosesAreCounted, RawIsUntouched, Alike,
     UvIsClosing
<1>9. CASE Start
  BY <1>9, ClientAssumption DEF Start, AppAt, MayCall, life, flags, uv,
     thread, calls, PlaceTypes, CountTypes, ClosesAreCounted, RawIsUntouched,
     Alike, UvIsClosing
<1>10. CASE Stop
  BY <1>10, ClientAssumption DEF Stop, AppAt, life, flags, uv, thread,
     calls, PlaceTypes, CountTypes, ClosesAreCounted, RawIsUntouched, Alike,
     UvIsClosing
<1>11. CASE Join
  BY <1>11, ClientAssumption DEF Join, AppAt, life, flags, uv, thread,
     calls, PlaceTypes, CountTypes, ClosesAreCounted, RawIsUntouched, Alike,
     UvIsClosing
<1>12. CASE Destroy
  BY <1>12, ClientAssumption DEF Destroy, AppAt, MayCall, life, flags, uv,
     thread, calls, PlaceTypes, CountTypes, ClosesAreCounted, RawIsUntouched,
     Alike, UvIsClosing
<1>13. CASE DeleteLoop
  BY <1>13, ClientAssumption DEF DeleteLoop, AppAt, life, flags, uv, thread,
     calls, PlaceTypes, CountTypes, ClosesAreCounted, RawIsUntouched, Alike,
     UvIsClosing
<1>14. CASE LoopExit
  BY <1>14, ClientAssumption DEF LoopExit, LoopRuns, LoopAt, life, flags,
     uv, thread, calls, PlaceTypes, CountTypes, ClosesAreCounted,
     RawIsUntouched, Alike, UvIsClosing
<1>15. CASE OnConnectError
  BY <1>15, ClientAssumption DEF OnConnectError, LoopRuns, LoopAt,
     HasDescriptor, life, flags, uv, thread, calls, PlaceTypes, CountTypes,
     ClosesAreCounted, RawIsUntouched, Alike, UvIsClosing
<1>16. CASE OnConnect
  BY <1>16, ClientAssumption DEF OnConnect, LoopRuns, LoopAt, HasDescriptor,
     Connected, UvIsClosing, life, flags, uv, thread, calls, PlaceTypes,
     CountTypes, ClosesAreCounted, RawIsUntouched, Alike
<1>17. CASE ReadStart
  BY <1>17, ClientAssumption DEF ReadStart, LoopAt, life, flags, uv, thread,
     calls, PlaceTypes, CountTypes, ClosesAreCounted, RawIsUntouched, Alike,
     UvIsClosing
<1>18. CASE ReadStartFails
  BY <1>18, ClientAssumption DEF ReadStartFails, LoopAt, life, flags, uv,
     thread, calls, PlaceTypes, CountTypes, ClosesAreCounted, RawIsUntouched,
     Alike, UvIsClosing
<1>19. CASE SetConnected
  BY <1>19, ClientAssumption DEF SetConnected, LoopAt, life, flags, uv,
     thread, calls, PlaceTypes, CountTypes, ClosesAreCounted, RawIsUntouched,
     Alike, UvIsClosing
<1>20. CASE AttemptEnds
  BY <1>20, ClientAssumption DEF AttemptEnds, LoopAt, AfterReset, life,
     flags, uv, thread, calls, PlaceTypes, CountTypes, ClosesAreCounted,
     RawIsUntouched, Alike, UvIsClosing
<1>21. CASE StartHeartbeat
  BY <1>21, ClientAssumption DEF StartHeartbeat, LoopAt, life, flags, uv,
     thread, calls, PlaceTypes, CountTypes, ClosesAreCounted, RawIsUntouched,
     Alike, UvIsClosing
<1>22. CASE OnReadError
  BY <1>22, ClientAssumption DEF OnReadError, LoopRuns, LoopAt,
     HasDescriptor, life, flags, uv, thread, calls, PlaceTypes, CountTypes,
     ClosesAreCounted, RawIsUntouched, Alike, UvIsClosing
<1>23. CASE OnHeartbeatTimeout
  BY <1>23, ClientAssumption DEF OnHeartbeatTimeout, LoopRuns, LoopAt, life,
     flags, uv, thread, calls, PlaceTypes, CountTypes, ClosesAreCounted,
     RawIsUntouched, Alike, UvIsClosing
<1>24. CASE CallbackDisconnects
  BY <1>24, ClientAssumption DEF CallbackDisconnects, LoopAt, life, flags,
     uv, thread, calls, PlaceTypes, CountTypes, ClosesAreCounted,
     RawIsUntouched, Alike, UvIsClosing
<1>25. CASE OnClose
  BY <1>25, ClientAssumption DEF OnClose, LoopRuns, LoopAt, Reports, life,
     flags, uv, thread, calls, PlaceTypes, CountTypes, ClosesAreCounted,
     RawIsUntouched, Alike, UvIsClosing
<1>26. CASE OnStaleClose
  <2>1. Alike' => Alike
    BY <1>26 DEF OnStaleClose, Alike
  <2>2. UNCHANGED <<app, owed, connects, starts>>
    BY <1>26 DEF OnStaleClose, calls, thread
  <2> QED
    BY <2>1, <2>2 DEF CountTypes, ClosesAreCounted
<1>27. ASSUME NEW t \in Threads, CheckClosing(t) PROVE (CountTypes /\ ClosesAreCounted)'
  BY <1>27, ClientAssumption DEF CheckClosing, UvIsClosing, Threads, At,
     AppAt, LoopAt, Goes, life, flags, uv, thread, calls, PlaceTypes,
     CountTypes, ClosesAreCounted, RawIsUntouched, Alike
<1>28. ASSUME NEW t \in Threads, CloseSocket(t) PROVE (CountTypes /\ ClosesAreCounted)'
  BY <1>28, ClientAssumption DEF CloseSocket, UvClose, UvIsClosing, Threads,
     At, AppAt, LoopAt, Goes, life, flags, uv, thread, calls, PlaceTypes,
     CountTypes, ClosesAreCounted, RawIsUntouched, Alike
<1>29. ASSUME NEW t \in Threads, ResetConnected(t) PROVE (CountTypes /\ ClosesAreCounted)'
  BY <1>29, ClientAssumption DEF ResetConnected, Threads, At, AppAt, LoopAt,
     Goes, life, flags, uv, thread, calls, PlaceTypes, CountTypes,
     ClosesAreCounted, RawIsUntouched, Alike, UvIsClosing
<1>30. ASSUME NEW t \in Threads, ResetConnecting(t) PROVE (CountTypes /\ ClosesAreCounted)'
  BY <1>30, ClientAssumption DEF ResetConnecting, Threads, At, AppAt,
     LoopAt, Goes, life, flags, uv, thread, calls, PlaceTypes, CountTypes,
     ClosesAreCounted, RawIsUntouched, Alike, UvIsClosing
<1>31. ASSUME NEW t \in Threads, StopHeartbeat(t) PROVE (CountTypes /\ ClosesAreCounted)'
  BY <1>31, ClientAssumption DEF StopHeartbeat, Threads, At, AppAt, LoopAt,
     Goes, life, flags, uv, thread, calls, PlaceTypes, CountTypes,
     ClosesAreCounted, RawIsUntouched, Alike, UvIsClosing
<1> QED
  BY <1>1, <1>2, <1>3, <1>4, <1>5, <1>6, <1>7, <1>8, <1>9, <1>10, <1>11,
     <1>12, <1>13, <1>14, <1>15, <1>16, <1>17, <1>18, <1>19, <1>20, <1>21,
     <1>22, <1>23, <1>24, <1>25, <1>26, <1>27, <1>28, <1>29, <1>30, <1>31 DEF
     Next, CallStep, Callback, CallbackStep, DisconnectStep, Threads

LEMMA RawStep ==
    ASSUME PlaceTypes, FlagTypes, RawIsUntouched, [Next]_vars
    PROVE  RawIsUntouched'
<1>1. CASE UNCHANGED vars
  BY <1>1 DEF vars, life, flags, uv, thread, calls, RawIsUntouched,
     PlaceTypes, FlagTypes
<1>2. CASE Connect
  BY <1>2 DEF Connect, AppAt, MayCall, life, flags, uv, thread, calls,
     RawIsUntouched, PlaceTypes, FlagTypes
<1>3. CASE AskConnecting
  BY <1>3 DEF AskConnecting, AppAt, MayConnect, life, flags, uv, thread,
     calls, RawIsUntouched, PlaceTypes, FlagTypes
<1>4. CASE InitRawSocket
  BY <1>4 DEF InitRawSocket, AppAt, UvTcpInit, life, flags, uv, thread,
     calls, RawIsUntouched, PlaceTypes, FlagTypes
<1>5. CASE InitSocket
  BY <1>5 DEF InitSocket, AppAt, UvTcpInit, UvIsClosing, life, flags, uv,
     thread, calls, RawIsUntouched, PlaceTypes, FlagTypes
<1>6. CASE StartConnect
  BY <1>6 DEF StartConnect, AppAt, Opened, UvIsClosing, life, flags, uv,
     thread, calls, RawIsUntouched, PlaceTypes, FlagTypes
<1>7. CASE MarkConnecting
  BY <1>7 DEF MarkConnecting, AppAt, life, flags, uv, thread, calls,
     RawIsUntouched, PlaceTypes, FlagTypes
<1>8. CASE Disconnect
  BY <1>8 DEF Disconnect, AppAt, life, flags, uv, thread, calls,
     RawIsUntouched, PlaceTypes, FlagTypes
<1>9. CASE Start
  BY <1>9 DEF Start, AppAt, MayCall, life, flags, uv, thread, calls,
     RawIsUntouched, PlaceTypes, FlagTypes
<1>10. CASE Stop
  BY <1>10 DEF Stop, AppAt, life, flags, uv, thread, calls, RawIsUntouched,
     PlaceTypes, FlagTypes
<1>11. CASE Join
  BY <1>11 DEF Join, AppAt, life, flags, uv, thread, calls, RawIsUntouched,
     PlaceTypes, FlagTypes
<1>12. CASE Destroy
  BY <1>12 DEF Destroy, AppAt, MayCall, life, flags, uv, thread, calls,
     RawIsUntouched, PlaceTypes, FlagTypes
<1>13. CASE DeleteLoop
  BY <1>13 DEF DeleteLoop, AppAt, life, flags, uv, thread, calls,
     RawIsUntouched, PlaceTypes, FlagTypes
<1>14. CASE LoopExit
  BY <1>14 DEF LoopExit, LoopRuns, LoopAt, life, flags, uv, thread, calls,
     RawIsUntouched, PlaceTypes, FlagTypes
<1>15. CASE OnConnectError
  BY <1>15 DEF OnConnectError, LoopRuns, LoopAt, HasDescriptor, life, flags,
     uv, thread, calls, RawIsUntouched, PlaceTypes, FlagTypes
<1>16. CASE OnConnect
  BY <1>16 DEF OnConnect, LoopRuns, LoopAt, HasDescriptor, Connected,
     UvIsClosing, life, flags, uv, thread, calls, RawIsUntouched, PlaceTypes,
     FlagTypes
<1>17. CASE ReadStart
  BY <1>17 DEF ReadStart, LoopAt, life, flags, uv, thread, calls,
     RawIsUntouched, PlaceTypes, FlagTypes
<1>18. CASE ReadStartFails
  BY <1>18 DEF ReadStartFails, LoopAt, life, flags, uv, thread, calls,
     RawIsUntouched, PlaceTypes, FlagTypes
<1>19. CASE SetConnected
  BY <1>19 DEF SetConnected, LoopAt, life, flags, uv, thread, calls,
     RawIsUntouched, PlaceTypes, FlagTypes
<1>20. CASE AttemptEnds
  BY <1>20 DEF AttemptEnds, LoopAt, AfterReset, life, flags, uv, thread,
     calls, RawIsUntouched, PlaceTypes, FlagTypes
<1>21. CASE StartHeartbeat
  BY <1>21 DEF StartHeartbeat, LoopAt, life, flags, uv, thread, calls,
     RawIsUntouched, PlaceTypes, FlagTypes
<1>22. CASE OnReadError
  BY <1>22 DEF OnReadError, LoopRuns, LoopAt, HasDescriptor, life, flags,
     uv, thread, calls, RawIsUntouched, PlaceTypes, FlagTypes
<1>23. CASE OnHeartbeatTimeout
  BY <1>23 DEF OnHeartbeatTimeout, LoopRuns, LoopAt, life, flags, uv,
     thread, calls, RawIsUntouched, PlaceTypes, FlagTypes
<1>24. CASE CallbackDisconnects
  BY <1>24 DEF CallbackDisconnects, LoopAt, life, flags, uv, thread, calls,
     RawIsUntouched, PlaceTypes, FlagTypes
<1>25. CASE OnClose
  BY <1>25 DEF OnClose, LoopRuns, LoopAt, Reports, life, flags, uv, thread,
     calls, RawIsUntouched, PlaceTypes, FlagTypes
<1>26. CASE OnStaleClose
  BY <1>26 DEF OnStaleClose, LoopRuns, LoopAt, life, flags, uv, thread,
     calls, RawIsUntouched, PlaceTypes, FlagTypes
<1>27. ASSUME NEW t \in Threads, CheckClosing(t) PROVE RawIsUntouched'
  BY <1>27 DEF CheckClosing, UvIsClosing, Threads, At, AppAt, LoopAt, Goes,
     life, flags, uv, thread, calls, RawIsUntouched, PlaceTypes, FlagTypes
<1>28. ASSUME NEW t \in Threads, CloseSocket(t) PROVE RawIsUntouched'
  BY <1>28 DEF CloseSocket, UvClose, UvIsClosing, Threads, At, AppAt,
     LoopAt, Goes, life, flags, uv, thread, calls, RawIsUntouched, PlaceTypes,
     FlagTypes
<1>29. ASSUME NEW t \in Threads, ResetConnected(t) PROVE RawIsUntouched'
  BY <1>29 DEF ResetConnected, Threads, At, AppAt, LoopAt, Goes, life,
     flags, uv, thread, calls, RawIsUntouched, PlaceTypes, FlagTypes
<1>30. ASSUME NEW t \in Threads, ResetConnecting(t) PROVE RawIsUntouched'
  BY <1>30 DEF ResetConnecting, Threads, At, AppAt, LoopAt, Goes, life,
     flags, uv, thread, calls, RawIsUntouched, PlaceTypes, FlagTypes
<1>31. ASSUME NEW t \in Threads, StopHeartbeat(t) PROVE RawIsUntouched'
  BY <1>31 DEF StopHeartbeat, Threads, At, AppAt, LoopAt, Goes, life, flags,
     uv, thread, calls, RawIsUntouched, PlaceTypes, FlagTypes
<1> QED
  BY <1>1, <1>2, <1>3, <1>4, <1>5, <1>6, <1>7, <1>8, <1>9, <1>10, <1>11,
     <1>12, <1>13, <1>14, <1>15, <1>16, <1>17, <1>18, <1>19, <1>20, <1>21,
     <1>22, <1>23, <1>24, <1>25, <1>26, <1>27, <1>28, <1>29, <1>30, <1>31 DEF
     Next, CallStep, Callback, CallbackStep, DisconnectStep, Threads

LEMMA WaitedStep ==
    ASSUME CountTypes, PlaceTypes, FlagTypes, Waited, [Next]_vars
    PROVE  Waited'
<1>1. CASE UNCHANGED vars
  BY <1>1 DEF vars, life, flags, uv, thread, calls, Waited, WaitedSocket,
     WaitedCall, WaitedCallback, WaitedFlags, Attempting, Succeeding, Closing,
     Closed, CountTypes, PlaceTypes, FlagTypes
<1>2. CASE Connect
  BY <1>2 DEF Connect, AppAt, MayCall, life, flags, uv, thread, calls,
     Waited, WaitedSocket, WaitedCall, WaitedCallback, WaitedFlags, Attempting,
     Succeeding, Closing, Closed, CountTypes, PlaceTypes, FlagTypes
<1>3. CASE AskConnecting
  <2> SUFFICES ASSUME ~hasty' PROVE Waited'
    BY DEF Waited
  <2>1. /\ UNCHANGED <<is_connected, is_connecting, socket, reading, request>>
        /\ UNCHANGED <<stale, timer, cb, owed>>
        /\ app = "ask" /\ ~hasty
    BY <1>3 DEF AskConnecting, AppAt, flags, uv, calls, FlagTypes
  <2>2. CASE is_connecting
    <3>1. app' = "idle"
      BY <1>3, <2>2 DEF AskConnecting
    <3> QED
      BY <2>1, <3>1
      DEF Waited, WaitedSocket, WaitedCall, WaitedCallback, WaitedFlags,
          Attempting, Succeeding, Closing, Closed
  <2>3. CASE ~is_connecting
    <3>1. app' = "init" /\ MayConnect
      BY <1>3, <2>1, <2>3 DEF AskConnecting
    <3>2. WaitedSocket /\ WaitedCallback /\ WaitedFlags
      BY <2>1 DEF Waited
    <3>3. socket # "closing" /\ ~is_connected
      BY <3>1, <3>2 DEF MayConnect, WaitedSocket
    <3>4. cb \in {"idle", "enter"}
      BY <2>1, <2>3, <3>1, <3>2, <3>3
      DEF MayConnect, WaitedCallback, Attempting, Succeeding, Closing, PlaceTypes
    <3>5. ~request /\ ~reading
      BY <2>1, <2>3, <3>2, <3>3, <3>4 DEF WaitedSocket, WaitedFlags
    <3>6. WaitedSocket' /\ WaitedCallback' /\ WaitedFlags'
      BY <2>1, <3>2, <3>3, <3>4, <3>5
      DEF WaitedSocket, WaitedCallback, WaitedFlags, Attempting, Succeeding,
          Closing, Closed
    <3>7. WaitedCall'
      BY <2>1, <2>3, <3>1, <3>3, <3>4, <3>5 DEF WaitedCall, Closed
    <3> QED
      BY <3>6, <3>7 DEF Waited
  <2> QED
    BY <2>2, <2>3
<1>4. CASE InitRawSocket
  BY <1>4 DEF InitRawSocket, AppAt, UvTcpInit, life, flags, uv, thread,
     calls, Waited, WaitedSocket, WaitedCall, WaitedCallback, WaitedFlags,
     Attempting, Succeeding, Closing, Closed, CountTypes, PlaceTypes, FlagTypes
<1>5. CASE InitSocket
  BY <1>5 DEF InitSocket, AppAt, UvTcpInit, UvIsClosing, life, flags, uv,
     thread, calls, Waited, WaitedSocket, WaitedCall, WaitedCallback,
     WaitedFlags, Attempting, Succeeding, Closing, Closed, CountTypes,
     PlaceTypes, FlagTypes
<1>6. CASE StartConnect
  BY <1>6 DEF StartConnect, AppAt, Opened, UvIsClosing, life, flags, uv,
     thread, calls, Waited, WaitedSocket, WaitedCall, WaitedCallback,
     WaitedFlags, Attempting, Succeeding, Closing, Closed, CountTypes,
     PlaceTypes, FlagTypes
<1>7. CASE MarkConnecting
  BY <1>7 DEF MarkConnecting, AppAt, life, flags, uv, thread, calls, Waited,
     WaitedSocket, WaitedCall, WaitedCallback, WaitedFlags, Attempting,
     Succeeding, Closing, Closed, CountTypes, PlaceTypes, FlagTypes
<1>8. CASE Disconnect
  BY <1>8 DEF Disconnect, AppAt, life, flags, uv, thread, calls, Waited,
     WaitedSocket, WaitedCall, WaitedCallback, WaitedFlags, Attempting,
     Succeeding, Closing, Closed, CountTypes, PlaceTypes, FlagTypes
<1>9. CASE Start
  BY <1>9 DEF Start, AppAt, MayCall, life, flags, uv, thread, calls, Waited,
     WaitedSocket, WaitedCall, WaitedCallback, WaitedFlags, Attempting,
     Succeeding, Closing, Closed, CountTypes, PlaceTypes, FlagTypes
<1>10. CASE Stop
  BY <1>10 DEF Stop, AppAt, life, flags, uv, thread, calls, Waited,
     WaitedSocket, WaitedCall, WaitedCallback, WaitedFlags, Attempting,
     Succeeding, Closing, Closed, CountTypes, PlaceTypes, FlagTypes
<1>11. CASE Join
  BY <1>11 DEF Join, AppAt, life, flags, uv, thread, calls, Waited,
     WaitedSocket, WaitedCall, WaitedCallback, WaitedFlags, Attempting,
     Succeeding, Closing, Closed, CountTypes, PlaceTypes, FlagTypes
<1>12. CASE Destroy
  BY <1>12 DEF Destroy, AppAt, MayCall, life, flags, uv, thread, calls,
     Waited, WaitedSocket, WaitedCall, WaitedCallback, WaitedFlags, Attempting,
     Succeeding, Closing, Closed, CountTypes, PlaceTypes, FlagTypes
<1>13. CASE DeleteLoop
  BY <1>13 DEF DeleteLoop, AppAt, life, flags, uv, thread, calls, Waited,
     WaitedSocket, WaitedCall, WaitedCallback, WaitedFlags, Attempting,
     Succeeding, Closing, Closed, CountTypes, PlaceTypes, FlagTypes
<1>14. CASE LoopExit
  BY <1>14 DEF LoopExit, LoopRuns, LoopAt, life, flags, uv, thread, calls,
     Waited, WaitedSocket, WaitedCall, WaitedCallback, WaitedFlags, Attempting,
     Succeeding, Closing, Closed, CountTypes, PlaceTypes, FlagTypes
<1>15. CASE OnConnectError
  BY <1>15 DEF OnConnectError, LoopRuns, LoopAt, HasDescriptor, life, flags,
     uv, thread, calls, Waited, WaitedSocket, WaitedCall, WaitedCallback,
     WaitedFlags, Attempting, Succeeding, Closing, Closed, CountTypes,
     PlaceTypes, FlagTypes
<1>16. CASE OnConnect
  BY <1>16 DEF OnConnect, LoopRuns, LoopAt, HasDescriptor, Connected,
     UvIsClosing, life, flags, uv, thread, calls, Waited, WaitedSocket,
     WaitedCall, WaitedCallback, WaitedFlags, Attempting, Succeeding, Closing,
     Closed, CountTypes, PlaceTypes, FlagTypes
<1>17. CASE ReadStart
  BY <1>17 DEF ReadStart, LoopAt, life, flags, uv, thread, calls, Waited,
     WaitedSocket, WaitedCall, WaitedCallback, WaitedFlags, Attempting,
     Succeeding, Closing, Closed, CountTypes, PlaceTypes, FlagTypes
<1>18. CASE ReadStartFails
  BY <1>18 DEF ReadStartFails, LoopAt, life, flags, uv, thread, calls,
     Waited, WaitedSocket, WaitedCall, WaitedCallback, WaitedFlags, Attempting,
     Succeeding, Closing, Closed, CountTypes, PlaceTypes, FlagTypes
<1>19. CASE SetConnected
  BY <1>19 DEF SetConnected, LoopAt, life, flags, uv, thread, calls, Waited,
     WaitedSocket, WaitedCall, WaitedCallback, WaitedFlags, Attempting,
     Succeeding, Closing, Closed, CountTypes, PlaceTypes, FlagTypes
<1>20. CASE AttemptEnds
  BY <1>20 DEF AttemptEnds, LoopAt, AfterReset, life, flags, uv, thread,
     calls, Waited, WaitedSocket, WaitedCall, WaitedCallback, WaitedFlags,
     Attempting, Succeeding, Closing, Closed, CountTypes, PlaceTypes, FlagTypes
<1>21. CASE StartHeartbeat
  BY <1>21 DEF StartHeartbeat, LoopAt, life, flags, uv, thread, calls,
     Waited, WaitedSocket, WaitedCall, WaitedCallback, WaitedFlags, Attempting,
     Succeeding, Closing, Closed, CountTypes, PlaceTypes, FlagTypes
<1>22. CASE OnReadError
  BY <1>22 DEF OnReadError, LoopRuns, LoopAt, HasDescriptor, life, flags,
     uv, thread, calls, Waited, WaitedSocket, WaitedCall, WaitedCallback,
     WaitedFlags, Attempting, Succeeding, Closing, Closed, CountTypes,
     PlaceTypes, FlagTypes
<1>23. CASE OnHeartbeatTimeout
  BY <1>23 DEF OnHeartbeatTimeout, LoopRuns, LoopAt, life, flags, uv,
     thread, calls, Waited, WaitedSocket, WaitedCall, WaitedCallback,
     WaitedFlags, Attempting, Succeeding, Closing, Closed, CountTypes,
     PlaceTypes, FlagTypes
<1>24. CASE CallbackDisconnects
  BY <1>24 DEF CallbackDisconnects, LoopAt, life, flags, uv, thread, calls,
     Waited, WaitedSocket, WaitedCall, WaitedCallback, WaitedFlags, Attempting,
     Succeeding, Closing, Closed, CountTypes, PlaceTypes, FlagTypes
<1>25. CASE OnClose
  BY <1>25 DEF OnClose, LoopRuns, LoopAt, Reports, life, flags, uv, thread,
     calls, Waited, WaitedSocket, WaitedCall, WaitedCallback, WaitedFlags,
     Attempting, Succeeding, Closing, Closed, CountTypes, PlaceTypes, FlagTypes
<1>26. CASE OnStaleClose
  BY <1>26 DEF OnStaleClose, LoopRuns, LoopAt, life, flags, uv, thread,
     calls, Waited, WaitedSocket, WaitedCall, WaitedCallback, WaitedFlags,
     Attempting, Succeeding, Closing, Closed, CountTypes, PlaceTypes, FlagTypes
<1>27. ASSUME NEW t \in Threads, CheckClosing(t) PROVE Waited'
  BY <1>27 DEF CheckClosing, UvIsClosing, Threads, At, AppAt, LoopAt, Goes,
     life, flags, uv, thread, calls, Waited, WaitedSocket, WaitedCall,
     WaitedCallback, WaitedFlags, Attempting, Succeeding, Closing, Closed,
     CountTypes, PlaceTypes, FlagTypes
<1>28. ASSUME NEW t \in Threads, CloseSocket(t) PROVE Waited'
  BY <1>28 DEF CloseSocket, UvClose, UvIsClosing, Threads, At, AppAt,
     LoopAt, Goes, life, flags, uv, thread, calls, Waited, WaitedSocket,
     WaitedCall, WaitedCallback, WaitedFlags, Attempting, Succeeding, Closing,
     Closed, CountTypes, PlaceTypes, FlagTypes
<1>29. ASSUME NEW t \in Threads, ResetConnected(t) PROVE Waited'
  BY <1>29 DEF ResetConnected, Threads, At, AppAt, LoopAt, Goes, life,
     flags, uv, thread, calls, Waited, WaitedSocket, WaitedCall,
     WaitedCallback, WaitedFlags, Attempting, Succeeding, Closing, Closed,
     CountTypes, PlaceTypes, FlagTypes
<1>30. ASSUME NEW t \in Threads, ResetConnecting(t) PROVE Waited'
  BY <1>30 DEF ResetConnecting, Threads, At, AppAt, LoopAt, Goes, life,
     flags, uv, thread, calls, Waited, WaitedSocket, WaitedCall,
     WaitedCallback, WaitedFlags, Attempting, Succeeding, Closing, Closed,
     CountTypes, PlaceTypes, FlagTypes
<1>31. ASSUME NEW t \in Threads, StopHeartbeat(t) PROVE Waited'
  BY <1>31 DEF StopHeartbeat, Threads, At, AppAt, LoopAt, Goes, life, flags,
     uv, thread, calls, Waited, WaitedSocket, WaitedCall, WaitedCallback,
     WaitedFlags, Attempting, Succeeding, Closing, Closed, CountTypes,
     PlaceTypes, FlagTypes
<1> QED
  BY <1>1, <1>2, <1>3, <1>4, <1>5, <1>6, <1>7, <1>8, <1>9, <1>10, <1>11,
     <1>12, <1>13, <1>14, <1>15, <1>16, <1>17, <1>18, <1>19, <1>20, <1>21,
     <1>22, <1>23, <1>24, <1>25, <1>26, <1>27, <1>28, <1>29, <1>30, <1>31 DEF
     Next, CallStep, Callback, CallbackStep, DisconnectStep, Threads

LEMMA HandlersStep ==
    ASSUME PlaceTypes, FlagTypes, FromHandlers, [Next]_vars
    PROVE  FromHandlers'
<1>1. CASE UNCHANGED vars
  BY <1>1 DEF vars, life, flags, uv, thread, calls, FromHandlers,
     HandlerPlaces, HandlerConnecting, HandlerConnected, HandlerTimer,
     Attempting, Closing, Closed, HasDescriptor, UvIsClosing, LoopRuns,
     PlaceTypes, FlagTypes
<1>2. CASE Connect
  BY <1>2 DEF Connect, AppAt, MayCall, life, flags, uv, thread, calls,
     FromHandlers, HandlerPlaces, HandlerConnecting, HandlerConnected,
     HandlerTimer, Attempting, Closing, Closed, HasDescriptor, UvIsClosing,
     LoopRuns, PlaceTypes, FlagTypes
<1>3. CASE AskConnecting
  BY <1>3 DEF AskConnecting, AppAt, MayConnect, life, flags, uv, thread,
     calls, FromHandlers, HandlerPlaces, HandlerConnecting, HandlerConnected,
     HandlerTimer, Attempting, Closing, Closed, HasDescriptor, UvIsClosing,
     LoopRuns, PlaceTypes, FlagTypes
<1>4. CASE InitRawSocket
  BY <1>4 DEF InitRawSocket, AppAt, UvTcpInit, life, flags, uv, thread,
     calls, FromHandlers, HandlerPlaces, HandlerConnecting, HandlerConnected,
     HandlerTimer, Attempting, Closing, Closed, HasDescriptor, UvIsClosing,
     LoopRuns, PlaceTypes, FlagTypes
<1>5. CASE InitSocket
  BY <1>5 DEF InitSocket, AppAt, UvTcpInit, UvIsClosing, life, flags, uv,
     thread, calls, FromHandlers, HandlerPlaces, HandlerConnecting,
     HandlerConnected, HandlerTimer, Attempting, Closing, Closed,
     HasDescriptor, LoopRuns, PlaceTypes, FlagTypes
<1>6. CASE StartConnect
  BY <1>6 DEF StartConnect, AppAt, Opened, UvIsClosing, life, flags, uv,
     thread, calls, FromHandlers, HandlerPlaces, HandlerConnecting,
     HandlerConnected, HandlerTimer, Attempting, Closing, Closed,
     HasDescriptor, LoopRuns, PlaceTypes, FlagTypes
<1>7. CASE MarkConnecting
  BY <1>7 DEF MarkConnecting, AppAt, life, flags, uv, thread, calls,
     FromHandlers, HandlerPlaces, HandlerConnecting, HandlerConnected,
     HandlerTimer, Attempting, Closing, Closed, HasDescriptor, UvIsClosing,
     LoopRuns, PlaceTypes, FlagTypes
<1>8. CASE Disconnect
  BY <1>8 DEF Disconnect, AppAt, life, flags, uv, thread, calls,
     FromHandlers, HandlerPlaces, HandlerConnecting, HandlerConnected,
     HandlerTimer, Attempting, Closing, Closed, HasDescriptor, UvIsClosing,
     LoopRuns, PlaceTypes, FlagTypes
<1>9. CASE Start
  BY <1>9 DEF Start, AppAt, MayCall, life, flags, uv, thread, calls,
     FromHandlers, HandlerPlaces, HandlerConnecting, HandlerConnected,
     HandlerTimer, Attempting, Closing, Closed, HasDescriptor, UvIsClosing,
     LoopRuns, PlaceTypes, FlagTypes
<1>10. CASE Stop
  BY <1>10 DEF Stop, AppAt, life, flags, uv, thread, calls, FromHandlers,
     HandlerPlaces, HandlerConnecting, HandlerConnected, HandlerTimer,
     Attempting, Closing, Closed, HasDescriptor, UvIsClosing, LoopRuns,
     PlaceTypes, FlagTypes
<1>11. CASE Join
  BY <1>11 DEF Join, AppAt, life, flags, uv, thread, calls, FromHandlers,
     HandlerPlaces, HandlerConnecting, HandlerConnected, HandlerTimer,
     Attempting, Closing, Closed, HasDescriptor, UvIsClosing, LoopRuns,
     PlaceTypes, FlagTypes
<1>12. CASE Destroy
  BY <1>12 DEF Destroy, AppAt, MayCall, life, flags, uv, thread, calls,
     FromHandlers, HandlerPlaces, HandlerConnecting, HandlerConnected,
     HandlerTimer, Attempting, Closing, Closed, HasDescriptor, UvIsClosing,
     LoopRuns, PlaceTypes, FlagTypes
<1>13. CASE DeleteLoop
  BY <1>13 DEF DeleteLoop, AppAt, life, flags, uv, thread, calls,
     FromHandlers, HandlerPlaces, HandlerConnecting, HandlerConnected,
     HandlerTimer, Attempting, Closing, Closed, HasDescriptor, UvIsClosing,
     LoopRuns, PlaceTypes, FlagTypes
<1>14. CASE LoopExit
  BY <1>14 DEF LoopExit, LoopRuns, LoopAt, life, flags, uv, thread, calls,
     FromHandlers, HandlerPlaces, HandlerConnecting, HandlerConnected,
     HandlerTimer, Attempting, Closing, Closed, HasDescriptor, UvIsClosing,
     PlaceTypes, FlagTypes
<1>15. CASE OnConnectError
  BY <1>15 DEF OnConnectError, LoopRuns, LoopAt, HasDescriptor, life, flags,
     uv, thread, calls, FromHandlers, HandlerPlaces, HandlerConnecting,
     HandlerConnected, HandlerTimer, Attempting, Closing, Closed, UvIsClosing,
     PlaceTypes, FlagTypes
<1>16. CASE OnConnect
  BY <1>16 DEF OnConnect, LoopRuns, LoopAt, HasDescriptor, Connected,
     UvIsClosing, life, flags, uv, thread, calls, FromHandlers, HandlerPlaces,
     HandlerConnecting, HandlerConnected, HandlerTimer, Attempting, Closing,
     Closed, PlaceTypes, FlagTypes
<1>17. CASE ReadStart
  BY <1>17 DEF ReadStart, LoopAt, life, flags, uv, thread, calls,
     FromHandlers, HandlerPlaces, HandlerConnecting, HandlerConnected,
     HandlerTimer, Attempting, Closing, Closed, HasDescriptor, UvIsClosing,
     LoopRuns, PlaceTypes, FlagTypes
<1>18. CASE ReadStartFails
  BY <1>18 DEF ReadStartFails, LoopAt, life, flags, uv, thread, calls,
     FromHandlers, HandlerPlaces, HandlerConnecting, HandlerConnected,
     HandlerTimer, Attempting, Closing, Closed, HasDescriptor, UvIsClosing,
     LoopRuns, PlaceTypes, FlagTypes
<1>19. CASE SetConnected
  BY <1>19 DEF SetConnected, LoopAt, life, flags, uv, thread, calls,
     FromHandlers, HandlerPlaces, HandlerConnecting, HandlerConnected,
     HandlerTimer, Attempting, Closing, Closed, HasDescriptor, UvIsClosing,
     LoopRuns, PlaceTypes, FlagTypes
<1>20. CASE AttemptEnds
  BY <1>20 DEF AttemptEnds, LoopAt, AfterReset, life, flags, uv, thread,
     calls, FromHandlers, HandlerPlaces, HandlerConnecting, HandlerConnected,
     HandlerTimer, Attempting, Closing, Closed, HasDescriptor, UvIsClosing,
     LoopRuns, PlaceTypes, FlagTypes
<1>21. CASE StartHeartbeat
  BY <1>21 DEF StartHeartbeat, LoopAt, life, flags, uv, thread, calls,
     FromHandlers, HandlerPlaces, HandlerConnecting, HandlerConnected,
     HandlerTimer, Attempting, Closing, Closed, HasDescriptor, UvIsClosing,
     LoopRuns, PlaceTypes, FlagTypes
<1>22. CASE OnReadError
  BY <1>22 DEF OnReadError, LoopRuns, LoopAt, HasDescriptor, life, flags,
     uv, thread, calls, FromHandlers, HandlerPlaces, HandlerConnecting,
     HandlerConnected, HandlerTimer, Attempting, Closing, Closed, UvIsClosing,
     PlaceTypes, FlagTypes
<1>23. CASE OnHeartbeatTimeout
  BY <1>23 DEF OnHeartbeatTimeout, LoopRuns, LoopAt, life, flags, uv,
     thread, calls, FromHandlers, HandlerPlaces, HandlerConnecting,
     HandlerConnected, HandlerTimer, Attempting, Closing, Closed,
     HasDescriptor, UvIsClosing, PlaceTypes, FlagTypes
<1>24. CASE CallbackDisconnects
  BY <1>24 DEF CallbackDisconnects, LoopAt, life, flags, uv, thread, calls,
     FromHandlers, HandlerPlaces, HandlerConnecting, HandlerConnected,
     HandlerTimer, Attempting, Closing, Closed, HasDescriptor, UvIsClosing,
     LoopRuns, PlaceTypes, FlagTypes
<1>25. CASE OnClose
  BY <1>25 DEF OnClose, LoopRuns, LoopAt, Reports, life, flags, uv, thread,
     calls, FromHandlers, HandlerPlaces, HandlerConnecting, HandlerConnected,
     HandlerTimer, Attempting, Closing, Closed, HasDescriptor, UvIsClosing,
     PlaceTypes, FlagTypes
<1>26. CASE OnStaleClose
  BY <1>26 DEF OnStaleClose, LoopRuns, LoopAt, life, flags, uv, thread,
     calls, FromHandlers, HandlerPlaces, HandlerConnecting, HandlerConnected,
     HandlerTimer, Attempting, Closing, Closed, HasDescriptor, UvIsClosing,
     PlaceTypes, FlagTypes
<1>27. ASSUME NEW t \in Threads, CheckClosing(t) PROVE FromHandlers'
  BY <1>27 DEF CheckClosing, UvIsClosing, Threads, At, AppAt, LoopAt, Goes,
     life, flags, uv, thread, calls, FromHandlers, HandlerPlaces,
     HandlerConnecting, HandlerConnected, HandlerTimer, Attempting, Closing,
     Closed, HasDescriptor, LoopRuns, PlaceTypes, FlagTypes
<1>28. ASSUME NEW t \in Threads, CloseSocket(t) PROVE FromHandlers'
  BY <1>28 DEF CloseSocket, UvClose, UvIsClosing, Threads, At, AppAt,
     LoopAt, Goes, life, flags, uv, thread, calls, FromHandlers, HandlerPlaces,
     HandlerConnecting, HandlerConnected, HandlerTimer, Attempting, Closing,
     Closed, HasDescriptor, LoopRuns, PlaceTypes, FlagTypes
<1>29. ASSUME NEW t \in Threads, ResetConnected(t) PROVE FromHandlers'
  BY <1>29 DEF ResetConnected, Threads, At, AppAt, LoopAt, Goes, life,
     flags, uv, thread, calls, FromHandlers, HandlerPlaces, HandlerConnecting,
     HandlerConnected, HandlerTimer, Attempting, Closing, Closed,
     HasDescriptor, UvIsClosing, LoopRuns, PlaceTypes, FlagTypes
<1>30. ASSUME NEW t \in Threads, ResetConnecting(t) PROVE FromHandlers'
  BY <1>30 DEF ResetConnecting, Threads, At, AppAt, LoopAt, Goes, life,
     flags, uv, thread, calls, FromHandlers, HandlerPlaces, HandlerConnecting,
     HandlerConnected, HandlerTimer, Attempting, Closing, Closed,
     HasDescriptor, UvIsClosing, LoopRuns, PlaceTypes, FlagTypes
<1>31. ASSUME NEW t \in Threads, StopHeartbeat(t) PROVE FromHandlers'
  BY <1>31 DEF StopHeartbeat, Threads, At, AppAt, LoopAt, Goes, life, flags,
     uv, thread, calls, FromHandlers, HandlerPlaces, HandlerConnecting,
     HandlerConnected, HandlerTimer, Attempting, Closing, Closed,
     HasDescriptor, UvIsClosing, LoopRuns, PlaceTypes, FlagTypes
<1> QED
  BY <1>1, <1>2, <1>3, <1>4, <1>5, <1>6, <1>7, <1>8, <1>9, <1>10, <1>11,
     <1>12, <1>13, <1>14, <1>15, <1>16, <1>17, <1>18, <1>19, <1>20, <1>21,
     <1>22, <1>23, <1>24, <1>25, <1>26, <1>27, <1>28, <1>29, <1>30, <1>31 DEF
     Next, CallStep, Callback, CallbackStep, DisconnectStep, Threads

-----------------------------------------------------------------------------
LEMMA TypeParts == TypeOK <=> FlagTypes /\ PlaceTypes /\ owed \in 0..connects
                                 /\ connects \in 0..MaxConnects
                                 /\ starts \in 0..MaxStarts
  BY DEF TypeOK, FlagTypes, PlaceTypes

LEMMA CountsWithin ==
    /\ TypeOK => CountTypes
    /\ CountTypes /\ ClosesAreCounted => owed \in 0..connects
<1> USE ClientAssumption
<1>1. TypeOK => CountTypes
  BY DEF TypeOK, CountTypes
<1>2. CountTypes /\ ClosesAreCounted => owed \in 0..connects
  BY DEF CountTypes, ClosesAreCounted
<1> QED
  BY <1>1, <1>2

LEMMA IInvInit == Init => IInv
<1> SUFFICES ASSUME Init PROVE IInv
  OBVIOUS
<1>1. FlagTypes /\ PlaceTypes
  BY DEF Init, FlagTypes, PlaceTypes
<1>2. CountTypes /\ ClosesAreCounted
  BY ClientAssumption DEF Init, CountTypes, ClosesAreCounted, Alike
<1>3. TypeOK
  BY <1>1, <1>2, TypeParts, CountsWithin DEF CountTypes
<1>4. Waited
  BY DEF Init, Waited, WaitedSocket, WaitedCall, WaitedCallback, WaitedFlags,
         Attempting, Succeeding, Closing, Closed
<1>5. FromHandlers
  BY DEF Init, FromHandlers, HandlerPlaces, HandlerConnecting,
         HandlerConnected, HandlerTimer, Attempting, Closing, Closed, HasDescriptor
<1>6. RawIsUntouched
  BY DEF Init, RawIsUntouched
<1> QED
  BY <1>2, <1>3, <1>4, <1>5, <1>6 DEF IInv

LEMMA IInvStep == IInv /\ [Next]_vars => IInv'
<1> SUFFICES ASSUME IInv, [Next]_vars PROVE IInv'
  OBVIOUS
<1>1. /\ TypeOK /\ FlagTypes /\ PlaceTypes /\ CountTypes
      /\ ClosesAreCounted /\ RawIsUntouched
      /\ Waited /\ FromHandlers
  BY TypeParts, CountsWithin DEF IInv
<1>2. CountTypes' /\ ClosesAreCounted'
  BY <1>1, CountStep
<1>3. (owed \in 0..connects)'
  <2> DEFINE a == IF Alike' THEN 1 ELSE 0
             b == IF app' = "init" THEN 1 ELSE 0
  <2>1. a \in Nat /\ b \in Nat
    OBVIOUS
  <2>2. owed' + a + b <= connects'
    BY <1>2 DEF ClosesAreCounted
  <2>3. owed' \in Nat /\ connects' \in Nat
    BY <1>2, ClientAssumption DEF CountTypes
  <2> HIDE DEF a, b
  <2>4. \A o, c, x, y \in Nat : o + x + y <= c => o \in 0..c
    OBVIOUS
  <2> QED
    BY <2>1, <2>2, <2>3, <2>4
<1>4. FlagTypes' /\ PlaceTypes'
  BY <1>1, FlagStep, PlaceStep
<1>5. TypeOK'
  BY <1>2, <1>3, <1>4 DEF TypeOK, FlagTypes, PlaceTypes, CountTypes
<1>6. RawIsUntouched'
  BY <1>1, RawStep
<1>7. Waited' /\ FromHandlers'
  BY <1>1, WaitedStep, HandlersStep
<1> QED
  BY <1>2, <1>5, <1>6, <1>7 DEF IInv

LEMMA IInvAlways == Spec => []IInv
  BY IInvInit, IInvStep, PTL DEF Spec

-----------------------------------------------------------------------------
\* The type invariant; its bound on owed says that no close is reported more
\* often than an attempt was begun, in whatever order the steps of calls and
\* callbacks come.
THEOREM TypeCorrect == Spec => []TypeOK
<1>1. IInv => TypeOK
  BY DEF IInv
<1> QED
  BY <1>1, IInvAlways, PTL

\* Calls made from handlers keep is_connecting_ exact, however many are made
\* and whether or not connect() waits for on_close.
THEOREM ConnectingIsExact == Spec => []HandlersConnectingExact
<1>1. IInv => HandlersConnectingExact
  BY DEF IInv, FromHandlers, HandlerConnecting, HandlersConnectingExact,
         ConnectingIffPending, AtRest
<1> QED
  BY <1>1, IInvAlways, PTL

\* is_connected_ says that the socket delivers data when no call and no
\* callback is under way: for calls from handlers at all times, and for calls
\* from a thread, whose statements come between those of the callbacks, once
\* no report is due; each as long as connect() waits for the report.
THEOREM ConnectedIsExact == Spec => []ConnectedIffReading
<1>1. ASSUME IInv, Settled, ~hasty
      PROVE  is_connected <=> (reading /\ socket = "connected")
  <2>1. WaitedSocket /\ WaitedFlags /\ fault = "none" /\ app = "idle"
        /\ cb = "idle"
    BY <1>1 DEF IInv, Waited, Settled, AtRest
  <2>2. is_connected /\ socket = "closing" => FALSE
    <3>1. CASE caller = "thread"
      BY <1>1, <2>1, <3>1 DEF Settled, WaitedSocket
    <3>2. CASE caller = "handler"
      BY <1>1, <2>1, <3>2 DEF IInv, FromHandlers, HandlerConnected
    <3> QED
      BY <1>1, <3>1, <3>2, ClientAssumption DEF IInv, TypeOK
  <2> QED
    BY <1>1, <2>1, <2>2 DEF WaitedSocket, WaitedFlags, IInv, TypeOK
<1>2. IInv => ConnectedIffReading
  BY <1>1, Zenon DEF ConnectedIffReading
<1> QED
  BY <1>2, IInvAlways, PTL

\* The heartbeat timer does not outlive its connection: not with calls from
\* handlers, however hastily they are made, and not with calls from a thread
\* that waits for the report.
THEOREM TimerIsBound == Spec => []TimerImpliesConnected
<1>1. ASSUME IInv, Settled, timer PROVE is_connected
  <2>1. CASE caller = "handler"
    BY <1>1, <2>1 DEF IInv, FromHandlers, HandlerTimer, Settled, AtRest
  <2>2. CASE caller = "thread"
    BY <1>1, <2>2
    DEF IInv, Waited, WaitedSocket, WaitedFlags, Closed, Settled, AtRest
  <2> QED
    BY <1>1, <2>1, <2>2, ClientAssumption DEF IInv, TypeOK
<1>2. IInv => TimerImpliesConnected
  BY <1>1 DEF TimerImpliesConnected
<1> QED
  BY <1>2, IInvAlways, PTL

\* A report is due exactly while a close is under way, at each step of calls
\* and callbacks.
THEOREM ReportsExact == Spec => []ReportsAreDue
<1>1. IInv => ReportsAreDue
  BY DEF IInv, Waited, WaitedSocket, ReportsAreDue
<1> QED
  BY <1>1, IInvAlways, PTL

-----------------------------------------------------------------------------
(***************************************************************************)
(* What libuv aborts on                                                    *)
(***************************************************************************)
\* An application that waits for on_close never makes libuv abort on a stale
\* handle, and on one that is closed twice only when its calls come from a
\* thread: there the check of disconnect() and its close come apart, in the
\* application's call and in the callback's.
HandlesAreSafe ==
    ~hasty => fault # "stale" /\ (fault = "close" => caller = "thread")

LEMMA HastyStep ==
    ASSUME [Next]_vars
    PROVE  (hasty => hasty') /\ caller' = caller
<1>1. CASE AskConnecting
  BY <1>1 DEF AskConnecting, life, calls
<1>2. CASE ~AskConnecting
  BY <1>2 DEF vars, life, flags, uv, thread, calls, Next, CallStep, Callback,
     CallbackStep, DisconnectStep, Connect, InitRawSocket,
     InitSocket, StartConnect, MarkConnecting, Disconnect, Start, Stop, Join,
     Destroy, DeleteLoop, LoopExit, OnConnectError, OnConnect, ReadStart,
     ReadStartFails, SetConnected, AttemptEnds, StartHeartbeat, OnReadError,
     OnHeartbeatTimeout, CallbackDisconnects, OnClose, OnStaleClose,
     CheckClosing, CloseSocket, ResetConnected, ResetConnecting, StopHeartbeat
<1> QED
  BY <1>1, <1>2

LEMMA FaultStep ==
    ASSUME [Next]_vars
    PROVE  \/ fault' = fault \/ fault' \in {"garbage", "none", "handles"}
           \/ OnStaleClose \/ \E t \in Threads : CloseSocket(t)
  BY DEF vars, life, flags, uv, thread, calls, Threads, UvClose, Next,
     CallStep, Callback, CallbackStep, DisconnectStep, Connect, AskConnecting,
     InitRawSocket, InitSocket, StartConnect, MarkConnecting, Disconnect,
     Start, Stop, Join, Destroy, DeleteLoop, LoopExit, OnConnectError,
     OnConnect, ReadStart, ReadStartFails, SetConnected, AttemptEnds,
     StartHeartbeat, OnReadError, OnHeartbeatTimeout, CallbackDisconnects,
     OnClose, CheckClosing, ResetConnected,
     ResetConnecting, StopHeartbeat

LEMMA ThreadStep ==
    ASSUME [Next]_vars
    PROVE  Start \/ Stop \/ Join \/ LoopExit \/ UNCHANGED thread
  BY DEF vars, life, flags, uv, thread, calls, Next, CallStep, Callback,
     CallbackStep, DisconnectStep, Connect, AskConnecting, InitRawSocket,
     InitSocket, StartConnect, MarkConnecting, Disconnect, Start, Stop, Join,
     Destroy, DeleteLoop, LoopExit, OnConnectError, OnConnect, ReadStart,
     ReadStartFails, SetConnected, AttemptEnds, StartHeartbeat, OnReadError,
     OnHeartbeatTimeout, CallbackDisconnects, OnClose, OnStaleClose,
     CheckClosing, CloseSocket, ResetConnected, ResetConnecting, StopHeartbeat

LEMMA PlacesStep ==
    ASSUME [Next]_vars
    PROVE  /\ app' = app \/ app' \notin {"join", "gone"} \/ Stop \/ DeleteLoop
           /\ app = "gone" => UNCHANGED app
           /\ cb' = cb \/ cb' = "idle" \/ cb # "idle" \/ loop = "running"
<1>1. app' = app \/ app' \notin {"join", "gone"} \/ Stop \/ DeleteLoop
  BY DEF vars, life, flags, uv, thread, calls, Goes, At, AppAt, LoopAt,
     MayCall, Threads, Next, CallStep, Callback, CallbackStep, DisconnectStep,
     Connect, AskConnecting, InitRawSocket, InitSocket, StartConnect,
     MarkConnecting, Disconnect, Start, Join, Destroy, LoopExit,
     OnConnectError, OnConnect, ReadStart, ReadStartFails, SetConnected,
     AttemptEnds, StartHeartbeat, OnReadError, OnHeartbeatTimeout,
     CallbackDisconnects, OnClose, OnStaleClose, CheckClosing, CloseSocket,
     ResetConnected, ResetConnecting, StopHeartbeat
<1>2. ASSUME app = "gone" PROVE UNCHANGED app
  BY <1>2 DEF vars, life, flags, uv, thread, calls, Goes, At, AppAt, LoopAt,
     MayCall, Threads, Next, CallStep, Callback, CallbackStep, DisconnectStep,
     Connect, AskConnecting, InitRawSocket, InitSocket, StartConnect,
     MarkConnecting, Disconnect, Start, Stop, Join, Destroy, DeleteLoop,
     LoopExit, OnConnectError, OnConnect, ReadStart, ReadStartFails,
     SetConnected, AttemptEnds, StartHeartbeat, OnReadError,
     OnHeartbeatTimeout, CallbackDisconnects, OnClose, OnStaleClose,
     CheckClosing, CloseSocket, ResetConnected, ResetConnecting, StopHeartbeat
<1>3. cb' = cb \/ cb' = "idle" \/ cb # "idle" \/ loop = "running"
  BY DEF vars, life, flags, uv, thread, calls, Goes, At, AppAt, LoopAt,
     MayCall, Threads, LoopRuns, AfterReset, Next, CallStep, Callback,
     CallbackStep, DisconnectStep, Connect, AskConnecting, InitRawSocket,
     InitSocket, StartConnect, MarkConnecting, Disconnect, Start, Stop, Join,
     Destroy, DeleteLoop, LoopExit, OnConnectError, OnConnect, ReadStart,
     ReadStartFails, SetConnected, AttemptEnds, StartHeartbeat, OnReadError,
     OnHeartbeatTimeout, CallbackDisconnects, OnClose, OnStaleClose,
     CheckClosing, CloseSocket, ResetConnected, ResetConnecting, StopHeartbeat
<1> QED
  BY <1>1, <1>2, <1>3

LEMMA HandlesStep ==
    ASSUME IInv, HandlesAreSafe, [Next]_vars PROVE HandlesAreSafe'
<1> SUFFICES ASSUME ~hasty' PROVE fault' # "stale" /\ (fault' = "close" => caller' = "thread")
  BY DEF HandlesAreSafe
<1>1. ~hasty /\ caller' = caller
  BY HastyStep
<1>2. WaitedSocket /\ caller \in {"handler", "thread"}
  BY <1>1, ClientAssumption DEF IInv, Waited, TypeOK
<1>3. CASE fault' = fault
  BY <1>1, <1>3 DEF HandlesAreSafe
<1>4. ASSUME NEW t \in Threads, CloseSocket(t), fault' # fault
      PROVE  fault' = "close" /\ caller = "thread"
  <2>1. fault = "none" /\ (app = "close" \/ cb = "close")
    BY <1>4 DEF CloseSocket, At, AppAt, LoopAt, Threads
  <2>2. fault' = "close" /\ UvIsClosing
    BY <1>2, <1>4 DEF CloseSocket, UvClose, WaitedSocket
  <2>3. caller # "handler"
    BY <2>1, <2>2 DEF IInv, FromHandlers, HandlerPlaces
  <2> QED
    BY <1>2, <2>2, <2>3
<1>5. CASE OnStaleClose
  BY <1>2, <1>5 DEF OnStaleClose, WaitedSocket
<1>6. \/ fault' = fault \/ fault' \in {"garbage", "none", "handles"}
      \/ OnStaleClose \/ \E t \in Threads : CloseSocket(t)
  BY FaultStep
<1> QED
  BY <1>1, <1>3, <1>4, <1>5, <1>6

\* For any number of calls and any order of the steps of calls and callbacks:
\* an application that calls from handlers and waits for on_close never makes
\* libuv abort on a handle, and one that calls from a thread and waits can only
\* meet the double close.
THEOREM HandlesAreSafeAlways == Spec => []HandlesAreSafe
<1>1. Init => HandlesAreSafe
  BY DEF Init, HandlesAreSafe
<1>2. IInv /\ HandlesAreSafe /\ [Next]_vars => HandlesAreSafe'
  BY HandlesStep
<1> QED
  BY <1>1, <1>2, IInvAlways, PTL DEF Spec

-----------------------------------------------------------------------------
(***************************************************************************)
(* stop(), start() again and the end of the client                         *)
(***************************************************************************)
\* stop() joins a loop that was told to stop and that exists; the destructor
\* leaves no loop behind; only a running loop is inside a callback.
StopIsTold ==
    /\ app = "join" => should_stop /\ loop # "none"
    /\ app = "gone" => loop = "none"
    /\ cb # "idle" => loop = "running"

\* A loop thread that runs, or has run and was not joined, was started.
LoopWasStarted == loop # "none" => starts >= 1

\* What is connected, or reads, has its timer or is about to get it.
Attended ==
    /\ caller = "handler" /\ fault = "none" =>
           (is_connected => timer \/ cb \in {"attempted", "watch"})
    /\ ~hasty => (reading => timer \/ cb \in Succeeding)

\* A connection without its heartbeat went through stop().
WatchIsLost == starts >= 2 \/ (starts = 1 /\ loop # "running") \/ Attended

LEMMA AttendedStep ==
    ASSUME PlaceTypes, FlagTypes, Waited, FromHandlers, Attended, [Next]_vars
    PROVE  Join \/ Attended'
<1>1. CASE UNCHANGED vars
  BY <1>1 DEF vars, life, flags, uv, thread, calls, Attended, Succeeding,
     Closed, Waited, WaitedSocket, WaitedCall, WaitedCallback, FromHandlers,
     HandlerTimer, HandlerConnected, PlaceTypes, FlagTypes
<1>2. CASE Connect
  BY <1>2 DEF Connect, AppAt, MayCall, life, flags, uv, thread, calls,
     Attended, Succeeding, Closed, Waited, WaitedSocket, WaitedCall,
     WaitedCallback, FromHandlers, HandlerTimer, HandlerConnected, PlaceTypes,
     FlagTypes
<1>3. CASE AskConnecting
  BY <1>3 DEF AskConnecting, AppAt, MayConnect, life, flags, uv, thread,
     calls, Attended, Succeeding, Closed, Waited, WaitedSocket, WaitedCall,
     WaitedCallback, FromHandlers, HandlerTimer, HandlerConnected, PlaceTypes,
     FlagTypes
<1>4. CASE InitRawSocket
  BY <1>4 DEF InitRawSocket, AppAt, UvTcpInit, life, flags, uv, thread,
     calls, Attended, Succeeding, Closed, Waited, WaitedSocket, WaitedCall,
     WaitedCallback, FromHandlers, HandlerTimer, HandlerConnected, PlaceTypes,
     FlagTypes
<1>5. CASE InitSocket
  BY <1>5 DEF InitSocket, AppAt, UvTcpInit, UvIsClosing, life, flags, uv,
     thread, calls, Attended, Succeeding, Closed, Waited, WaitedSocket,
     WaitedCall, WaitedCallback, FromHandlers, HandlerTimer, HandlerConnected,
     PlaceTypes, FlagTypes
<1>6. CASE StartConnect
  BY <1>6 DEF StartConnect, AppAt, Opened, UvIsClosing, life, flags, uv,
     thread, calls, Attended, Succeeding, Closed, Waited, WaitedSocket,
     WaitedCall, WaitedCallback, FromHandlers, HandlerTimer, HandlerConnected,
     PlaceTypes, FlagTypes
<1>7. CASE MarkConnecting
  BY <1>7 DEF MarkConnecting, AppAt, life, flags, uv, thread, calls,
     Attended, Succeeding, Closed, Waited, WaitedSocket, WaitedCall,
     WaitedCallback, FromHandlers, HandlerTimer, HandlerConnected, PlaceTypes,
     FlagTypes
<1>8. CASE Disconnect
  BY <1>8 DEF Disconnect, AppAt, life, flags, uv, thread, calls, Attended,
     Succeeding, Closed, Waited, WaitedSocket, WaitedCall, WaitedCallback,
     FromHandlers, HandlerTimer, HandlerConnected, PlaceTypes, FlagTypes
<1>9. CASE Start
  BY <1>9 DEF Start, AppAt, MayCall, life, flags, uv, thread, calls,
     Attended, Succeeding, Closed, Waited, WaitedSocket, WaitedCall,
     WaitedCallback, FromHandlers, HandlerTimer, HandlerConnected, PlaceTypes,
     FlagTypes
<1>10. CASE Stop
  BY <1>10 DEF Stop, AppAt, life, flags, uv, thread, calls, Attended,
     Succeeding, Closed, Waited, WaitedSocket, WaitedCall, WaitedCallback,
     FromHandlers, HandlerTimer, HandlerConnected, PlaceTypes, FlagTypes
<1>11. CASE Join
  BY <1>11 DEF Join, AppAt, life, flags, uv, thread, calls, Attended,
     Succeeding, Closed, Waited, WaitedSocket, WaitedCall, WaitedCallback,
     FromHandlers, HandlerTimer, HandlerConnected, PlaceTypes, FlagTypes
<1>12. CASE Destroy
  BY <1>12 DEF Destroy, AppAt, MayCall, life, flags, uv, thread, calls,
     Attended, Succeeding, Closed, Waited, WaitedSocket, WaitedCall,
     WaitedCallback, FromHandlers, HandlerTimer, HandlerConnected, PlaceTypes,
     FlagTypes
<1>13. CASE DeleteLoop
  BY <1>13 DEF DeleteLoop, AppAt, life, flags, uv, thread, calls, Attended,
     Succeeding, Closed, Waited, WaitedSocket, WaitedCall, WaitedCallback,
     FromHandlers, HandlerTimer, HandlerConnected, PlaceTypes, FlagTypes
<1>14. CASE LoopExit
  BY <1>14 DEF LoopExit, LoopRuns, LoopAt, life, flags, uv, thread, calls,
     Attended, Succeeding, Closed, Waited, WaitedSocket, WaitedCall,
     WaitedCallback, FromHandlers, HandlerTimer, HandlerConnected, PlaceTypes,
     FlagTypes
<1>15. CASE OnConnectError
  BY <1>15 DEF OnConnectError, LoopRuns, LoopAt, HasDescriptor, life, flags,
     uv, thread, calls, Attended, Succeeding, Closed, Waited, WaitedSocket,
     WaitedCall, WaitedCallback, FromHandlers, HandlerTimer, HandlerConnected,
     PlaceTypes, FlagTypes
<1>16. CASE OnConnect
  BY <1>16 DEF OnConnect, LoopRuns, LoopAt, HasDescriptor, Connected,
     UvIsClosing, life, flags, uv, thread, calls, Attended, Succeeding, Closed,
     Waited, WaitedSocket, WaitedCall, WaitedCallback, FromHandlers,
     HandlerTimer, HandlerConnected, PlaceTypes, FlagTypes
<1>17. CASE ReadStart
  BY <1>17 DEF ReadStart, LoopAt, life, flags, uv, thread, calls, Attended,
     Succeeding, Closed, Waited, WaitedSocket, WaitedCall, WaitedCallback,
     FromHandlers, HandlerTimer, HandlerConnected, PlaceTypes, FlagTypes
<1>18. CASE ReadStartFails
  BY <1>18 DEF ReadStartFails, LoopAt, life, flags, uv, thread, calls,
     Attended, Succeeding, Closed, Waited, WaitedSocket, WaitedCall,
     WaitedCallback, FromHandlers, HandlerTimer, HandlerConnected, PlaceTypes,
     FlagTypes
<1>19. CASE SetConnected
  BY <1>19 DEF SetConnected, LoopAt, life, flags, uv, thread, calls,
     Attended, Succeeding, Closed, Waited, WaitedSocket, WaitedCall,
     WaitedCallback, FromHandlers, HandlerTimer, HandlerConnected, PlaceTypes,
     FlagTypes
<1>20. CASE AttemptEnds
  BY <1>20 DEF AttemptEnds, LoopAt, AfterReset, life, flags, uv, thread,
     calls, Attended, Succeeding, Closed, Waited, WaitedSocket, WaitedCall,
     WaitedCallback, FromHandlers, HandlerTimer, HandlerConnected, PlaceTypes,
     FlagTypes
<1>21. CASE StartHeartbeat
  BY <1>21 DEF StartHeartbeat, LoopAt, life, flags, uv, thread, calls,
     Attended, Succeeding, Closed, Waited, WaitedSocket, WaitedCall,
     WaitedCallback, FromHandlers, HandlerTimer, HandlerConnected, PlaceTypes,
     FlagTypes
<1>22. CASE OnReadError
  BY <1>22 DEF OnReadError, LoopRuns, LoopAt, HasDescriptor, life, flags,
     uv, thread, calls, Attended, Succeeding, Closed, Waited, WaitedSocket,
     WaitedCall, WaitedCallback, FromHandlers, HandlerTimer, HandlerConnected,
     PlaceTypes, FlagTypes
<1>23. CASE OnHeartbeatTimeout
  BY <1>23 DEF OnHeartbeatTimeout, LoopRuns, LoopAt, life, flags, uv,
     thread, calls, Attended, Succeeding, Closed, Waited, WaitedSocket,
     WaitedCall, WaitedCallback, FromHandlers, HandlerTimer, HandlerConnected,
     PlaceTypes, FlagTypes
<1>24. CASE CallbackDisconnects
  BY <1>24 DEF CallbackDisconnects, LoopAt, life, flags, uv, thread, calls,
     Attended, Succeeding, Closed, Waited, WaitedSocket, WaitedCall,
     WaitedCallback, FromHandlers, HandlerTimer, HandlerConnected, PlaceTypes,
     FlagTypes
<1>25. CASE OnClose
  BY <1>25 DEF OnClose, LoopRuns, LoopAt, Reports, life, flags, uv, thread,
     calls, Attended, Succeeding, Closed, Waited, WaitedSocket, WaitedCall,
     WaitedCallback, FromHandlers, HandlerTimer, HandlerConnected, PlaceTypes,
     FlagTypes
<1>26. CASE OnStaleClose
  BY <1>26 DEF OnStaleClose, LoopRuns, LoopAt, life, flags, uv, thread,
     calls, Attended, Succeeding, Closed, Waited, WaitedSocket, WaitedCall,
     WaitedCallback, FromHandlers, HandlerTimer, HandlerConnected, PlaceTypes,
     FlagTypes
<1>27. ASSUME NEW t \in Threads, CheckClosing(t) PROVE Join \/ Attended'
  BY <1>27 DEF CheckClosing, UvIsClosing, Threads, At, AppAt, LoopAt, Goes,
     life, flags, uv, thread, calls, Attended, Succeeding, Closed, Waited,
     WaitedSocket, WaitedCall, WaitedCallback, FromHandlers, HandlerTimer,
     HandlerConnected, PlaceTypes, FlagTypes
<1>28. ASSUME NEW t \in Threads, CloseSocket(t) PROVE Join \/ Attended'
  BY <1>28 DEF CloseSocket, UvClose, UvIsClosing, Threads, At, AppAt,
     LoopAt, Goes, life, flags, uv, thread, calls, Attended, Succeeding,
     Closed, Waited, WaitedSocket, WaitedCall, WaitedCallback, FromHandlers,
     HandlerTimer, HandlerConnected, PlaceTypes, FlagTypes
<1>29. ASSUME NEW t \in Threads, ResetConnected(t) PROVE Join \/ Attended'
  BY <1>29 DEF ResetConnected, Threads, At, AppAt, LoopAt, Goes, life,
     flags, uv, thread, calls, Attended, Succeeding, Closed, Waited,
     WaitedSocket, WaitedCall, WaitedCallback, FromHandlers, HandlerTimer,
     HandlerConnected, PlaceTypes, FlagTypes
<1>30. ASSUME NEW t \in Threads, ResetConnecting(t) PROVE Join \/ Attended'
  BY <1>30 DEF ResetConnecting, Threads, At, AppAt, LoopAt, Goes, life,
     flags, uv, thread, calls, Attended, Succeeding, Closed, Waited,
     WaitedSocket, WaitedCall, WaitedCallback, FromHandlers, HandlerTimer,
     HandlerConnected, PlaceTypes, FlagTypes
<1>31. ASSUME NEW t \in Threads, StopHeartbeat(t) PROVE Join \/ Attended'
  BY <1>31 DEF StopHeartbeat, Threads, At, AppAt, LoopAt, Goes, life, flags,
     uv, thread, calls, Attended, Succeeding, Closed, Waited, WaitedSocket,
     WaitedCall, WaitedCallback, FromHandlers, HandlerTimer, HandlerConnected,
     PlaceTypes, FlagTypes
<1> QED
  BY <1>1, <1>2, <1>3, <1>4, <1>5, <1>6, <1>7, <1>8, <1>9, <1>10, <1>11,
     <1>12, <1>13, <1>14, <1>15, <1>16, <1>17, <1>18, <1>19, <1>20, <1>21,
     <1>22, <1>23, <1>24, <1>25, <1>26, <1>27, <1>28, <1>29, <1>30, <1>31 DEF
     Next, CallStep, Callback, CallbackStep, DisconnectStep, Threads

LEMMA StopToldStep ==
    ASSUME StopIsTold, [Next]_vars PROVE StopIsTold'
<1>1. CASE Start
  BY <1>1 DEF Start, MayCall, AppAt, StopIsTold
<1>2. CASE Stop
  BY <1>2 DEF Stop, AppAt, StopIsTold
<1>3. CASE Join
  BY <1>3 DEF Join, AppAt, StopIsTold
<1>4. CASE LoopExit
  BY <1>4 DEF LoopExit, LoopRuns, LoopAt, StopIsTold
<1>5. CASE DeleteLoop
  BY <1>5 DEF DeleteLoop, AppAt, thread, StopIsTold
<1>6. CASE ~(Start \/ Stop \/ Join \/ LoopExit \/ DeleteLoop)
  BY <1>6, ThreadStep, PlacesStep DEF thread, StopIsTold
<1> QED
  BY <1>1, <1>2, <1>3, <1>4, <1>5, <1>6

LEMMA LoopStartedStep ==
    ASSUME TypeOK, LoopWasStarted, [Next]_vars PROVE LoopWasStarted'
<1>1. starts \in Nat
  BY ClientAssumption DEF TypeOK
<1>2. CASE Start
  BY <1>1, <1>2 DEF Start, LoopWasStarted
<1>3. CASE Stop \/ Join \/ LoopExit
  BY <1>3 DEF Stop, Join, LoopExit, LoopRuns, LoopWasStarted
<1>4. CASE ~(Start \/ Stop \/ Join \/ LoopExit)
  BY <1>4, ThreadStep DEF thread, LoopWasStarted
<1> QED
  BY <1>2, <1>3, <1>4

LEMMA WatchStep ==
    ASSUME IInv, LoopWasStarted, WatchIsLost, [Next]_vars
    PROVE  WatchIsLost'
<1>1. starts \in Nat /\ PlaceTypes /\ FlagTypes /\ Waited /\ FromHandlers
  BY TypeParts, ClientAssumption DEF IInv
<1>2. CASE Start
  <2>1. loop = "none" /\ loop' = "running" /\ starts' = starts + 1
    BY <1>2 DEF Start
  <2>2. ~Join
    BY <2>1 DEF Join
  <2>3. Attended => Attended'
    BY <1>1, <2>2, AttendedStep
  <2> QED
    BY <1>1, <2>1, <2>3 DEF WatchIsLost
<1>3. CASE Join
  <2>1. loop' = "none" /\ starts' = starts /\ starts >= 1
    BY <1>3 DEF Join, LoopWasStarted
  <2>2. starts = 1 \/ starts >= 2
    BY <1>1, <2>1
  <2> QED
    BY <2>1, <2>2 DEF WatchIsLost
<1>4. CASE Stop \/ LoopExit
  <2>1. starts' = starts /\ (loop # "running" => loop' # "running") /\ ~Join
    BY <1>4 DEF Stop, LoopExit, LoopRuns, LoopAt, AppAt, Join
  <2>2. Attended => Attended'
    BY <1>1, <2>1, AttendedStep
  <2> QED
    BY <2>1, <2>2 DEF WatchIsLost
<1>5. CASE ~(Start \/ Stop \/ Join \/ LoopExit)
  <2>1. UNCHANGED <<loop, starts>>
    BY <1>5, ThreadStep DEF thread
  <2>2. Attended => Attended'
    BY <1>1, <1>5, AttendedStep
  <2> QED
    BY <2>1, <2>2 DEF WatchIsLost
<1> QED
  BY <1>2, <1>3, <1>4, <1>5

LEMMA StopInvAlways == Spec => [](StopIsTold /\ LoopWasStarted /\ WatchIsLost)
<1>1. Init => StopIsTold /\ LoopWasStarted /\ WatchIsLost
  BY DEF Init, StopIsTold, LoopWasStarted, WatchIsLost, Attended
<1>2. IInv /\ StopIsTold /\ LoopWasStarted /\ WatchIsLost /\ [Next]_vars
        => (StopIsTold /\ LoopWasStarted /\ WatchIsLost)'
  BY StopToldStep, LoopStartedStep, WatchStep DEF IInv
<1> QED
  BY <1>1, <1>2, IInvAlways, PTL DEF Spec

\* stop() never joins a loop that was not told to stop, so what is left of
\* StopReturns is the fairness of the loop; it holds in the destructor too.
THEOREM StopIsToldAlways == Spec => []StopIsTold
  BY StopInvAlways, PTL

\* A running loop that was not stopped before watches its connection, outside
\* of calls and callbacks.
Watched == Settled /\ loop = "running" /\ starts <= 1 /\ is_connected => timer

\* The heartbeat watches every connection of a running loop, however hastily
\* calls from handlers are made, and for calls from a thread that waits once
\* no report is due: then only stop() and start() in its course lose the timer.
THEOREM ConnectionsAreWatched == Spec => []Watched
<1>1. ASSUME IInv, WatchIsLost, Settled, loop = "running", starts <= 1,
             is_connected
      PROVE  timer
  <2>1. Attended
    BY <1>1, ClientAssumption DEF WatchIsLost, IInv, TypeOK
  <2>2. CASE caller = "handler"
    BY <1>1, <2>1, <2>2 DEF Attended, Settled, AtRest
  <2>3. CASE caller = "thread"
    <3>1. reading
      BY <1>1, <2>3
      DEF IInv, Waited, WaitedSocket, WaitedFlags, Settled, AtRest
    <3> QED
      BY <1>1, <2>1, <2>3, <3>1 DEF Attended, Settled, AtRest, Succeeding
  <2> QED
    BY <1>1, <2>2, <2>3, ClientAssumption DEF IInv, TypeOK
<1>2. IInv /\ WatchIsLost => Watched
  BY <1>1 DEF Watched
<1> QED
  BY <1>2, IInvAlways, StopInvAlways, PTL

\* When the destructor has returned, nothing of the client runs any more: no
\* callback finds freed memory, also where a close was never reported.
THEOREM NothingAfterDestructor == Spec => [][app # "gone"]_vars
<1>1. ASSUME StopIsTold, [Next]_vars, app = "gone" PROVE UNCHANGED vars
  <2>1. loop = "none" /\ cb = "idle"
    BY <1>1 DEF StopIsTold
  <2> QED
    BY <1>1, <2>1 DEF Next, CallStep, Callback, CallbackStep,
        DisconnectStep, Threads, At, AppAt, LoopAt, LoopRuns, MayCall,
        AfterReset, Connect, AskConnecting, InitRawSocket, InitSocket,
        StartConnect, MarkConnecting, Disconnect, Start, Stop, Join, Destroy,
        DeleteLoop, LoopExit, OnConnectError, OnConnect, ReadStart,
        ReadStartFails, SetConnected, AttemptEnds, StartHeartbeat,
        OnReadError, OnHeartbeatTimeout, CallbackDisconnects, OnClose,
        OnStaleClose, CheckClosing, CloseSocket, ResetConnected,
        ResetConnecting, StopHeartbeat
<1>2. StopIsTold /\ [Next]_vars => [app # "gone"]_vars
  BY <1>1
<1> QED
  BY <1>2, StopIsToldAlways, PTL DEF Spec

-----------------------------------------------------------------------------
(***************************************************************************)
(* The client implements the abstract life cycle                           *)
(***************************************************************************)
\* Nothing is promised any more once connect() was called too early.
LEMMA UnpromisedStep ==
    ASSUME ~Promised, [Next]_vars PROVE ~Promised' /\ UNCHANGED Lifecycle!vars
<1>1. ~Promised'
  BY HastyStep DEF Promised
<1> QED
  BY <1>1 DEF Lifecycle!vars, Phase

\* connect(), disconnect() and their callbacks make one connection at a time,
\* each of which ends with one report, for an application that calls from
\* handlers and waits.
THEOREM ClientImplementsLifecycle == Spec => ImplementsLifecycle
<1>1. Init => Lifecycle!Init
  BY DEF Init, Lifecycle!Init, Phase
<1>2. IInv /\ IInv' /\ [Next]_vars => [Lifecycle!Next]_(Lifecycle!vars)
  <2> SUFFICES ASSUME IInv, IInv', [Next]_vars, Promised
               PROVE  [Lifecycle!Next]_(Lifecycle!vars)
    BY UnpromisedStep
  <2>1. /\ caller = "handler" /\ ~hasty
        /\ PlaceTypes /\ FlagTypes /\ RawIsUntouched /\ FromHandlers
        /\ WaitedSocket /\ WaitedCall /\ WaitedCallback /\ WaitedFlags
    BY TypeParts DEF IInv, Promised, Waited
  <2>2. ASSUME UNCHANGED <<caller, hasty, socket, reading, request, owed>>,
               cb = "read" <=> cb' = "read"
        PROVE  UNCHANGED Lifecycle!vars
    BY <2>2 DEF Lifecycle!vars, Phase, Promised
  <2>3. CASE AskConnecting
    <3>1. /\ UNCHANGED <<caller, socket, reading, request, owed, cb>>
          /\ fault = "none" /\ app = "ask" /\ cb = "idle"
      BY <2>1, <2>3 DEF AskConnecting, AppAt, uv, life
    <3>2. CASE hasty'
      <4>1. ~MayConnect
        BY <2>1, <2>3, <3>2 DEF AskConnecting, calls
      <4>2. ~is_connected
        BY <2>1, <3>1 DEF FromHandlers, HandlerConnected
      <4>3. owed # 0
        BY <3>1, <4>1, <4>2 DEF MayConnect
      <4>4. owed = 1 /\ socket = "closing"
        BY <2>1, <4>3 DEF WaitedSocket
      <4>5. Lifecycle!Report
        BY <2>1, <3>1, <3>2, <4>4 DEF Lifecycle!Report, Phase, Promised
      <4> QED
        BY <4>5 DEF Lifecycle!Next
    <3>3. CASE ~hasty'
      <4>1. hasty = FALSE /\ hasty' = FALSE
        BY <2>1, <3>3, TypeParts DEF IInv, FlagTypes
      <4>2. UNCHANGED <<caller, hasty, socket, reading, request, owed>>
        BY <3>1, <4>1
      <4> QED
        BY <2>2, <3>1, <4>2
    <3> QED
      BY <3>2, <3>3
  <2>4. CASE InitRawSocket
    <3>1. UNCHANGED <<caller, hasty, owed, cb>> /\ socket = "raw" /\ cb = "idle"
      BY <2>1, <2>4 DEF InitRawSocket, life, calls, RawIsUntouched
    <3>2. socket' = "raw" \/ socket' = "fresh"
      BY <2>4, <3>1 DEF InitRawSocket, UvTcpInit, uv
    <3> QED
      BY <3>1, <3>2 DEF Lifecycle!vars, Phase, Promised
  <2>5. CASE InitSocket
    <3>1. UNCHANGED <<caller, hasty, owed, cb>> /\ ~reading /\ ~request
      BY <2>1, <2>5 DEF InitSocket, AppAt, life, calls, WaitedCall
    <3>2. ~reading' /\ ~request' /\ cb = "idle"
      BY <2>1, <2>5, <3>1 DEF InitSocket, UvTcpInit, AppAt
    <3> QED
      BY <3>1, <3>2 DEF Lifecycle!vars, Phase, Promised
  <2>6. CASE StartConnect
    <3>1. /\ socket = "fresh" /\ ~request /\ ~reading /\ owed = 0
          /\ cb = "idle" /\ UNCHANGED <<caller, hasty, owed, cb, reading>>
      BY <2>1, <2>6 DEF StartConnect, AppAt, WaitedCall, WaitedSocket, life, calls
    <3>2. /\ socket' \in {"fresh", "open"}
          /\ request' => socket' = "open"
      BY <2>6, <3>1 DEF StartConnect, Opened, UvIsClosing
    <3>3. CASE request'
      <4>1. Lifecycle!Begin
        BY <2>1, <3>1, <3>2, <3>3 DEF Lifecycle!Begin, Phase, Promised
      <4> QED
        BY <4>1 DEF Lifecycle!Next
    <3>4. CASE ~request'
      BY <2>1, <3>1, <3>2, <3>4 DEF Lifecycle!vars, Phase, Promised
    <3> QED
      BY <3>3, <3>4
  <2>7. ASSUME NEW t \in Threads, CloseSocket(t)
        PROVE  [Lifecycle!Next]_(Lifecycle!vars)
    <3>1. /\ fault = "none" /\ (app = "close" \/ cb = "close")
          /\ UNCHANGED <<caller, hasty, request>>
      BY <2>7 DEF CloseSocket, At, AppAt, LoopAt, Threads, life, calls
    <3>2. cb # "read" /\ cb' # "read"
      BY <2>1, <2>7, <3>1
      DEF CloseSocket, At, AppAt, LoopAt, Goes, Threads, FromHandlers,
          HandlerPlaces
    <3>3. CASE UNCHANGED <<socket, reading, owed>>
      BY <2>2, <3>1, <3>2, <3>3
    <3>4. CASE socket' = "closing" /\ reading' = FALSE /\ owed' = owed + 1
      <4>1. ~UvIsClosing /\ fault = "none"
        BY <2>1, <3>1 DEF FromHandlers, HandlerPlaces
      <4>2. is_connected \/ is_connecting
        BY <2>1, <3>1, <4>1 DEF FromHandlers, HandlerPlaces, Closing
      <4>3. \/ socket = "connected" /\ reading
            \/ socket = "open" /\ request
        <5>1. CASE is_connected
          BY <2>1, <3>1, <4>1, <5>1
          DEF WaitedSocket, WaitedFlags, UvIsClosing, FromHandlers, HandlerPlaces
        <5>2. CASE is_connecting
          BY <2>1, <3>1, <4>1, <5>2
          DEF WaitedSocket, UvIsClosing, HasDescriptor, FromHandlers,
              HandlerPlaces, HandlerConnecting, PlaceTypes
        <5> QED
          BY <4>2, <5>1, <5>2
      <4>4. owed = 0
        BY <2>1, <4>3 DEF WaitedSocket
      <4>5. Lifecycle!End
        BY <2>1, <3>1, <3>2, <3>4, <4>3, <4>4
        DEF Lifecycle!End, Phase, Promised
      <4> QED
        BY <4>5 DEF Lifecycle!Next
    <3> QED
      BY <2>7, <3>3, <3>4 DEF CloseSocket, UvClose
  <2>8. CASE OnConnect
    <3>1. /\ socket = "open" /\ request /\ ~reading /\ cb = "idle"
          /\ UNCHANGED <<caller, hasty, owed, reading>>
      BY <2>1, <2>8
      DEF OnConnect, LoopRuns, LoopAt, HasDescriptor, WaitedSocket, life, calls
    <3>2. cb' = "read"
      BY <2>8 DEF OnConnect
    <3> QED
      BY <2>1, <3>1, <3>2 DEF Lifecycle!vars, Phase, Promised
  <2>9. CASE OnConnectError
    <3>1. /\ socket = "open" /\ request /\ ~reading /\ cb = "idle"
          /\ UNCHANGED <<caller, hasty, owed, reading, socket>>
          /\ ~request' /\ cb' = "failed"
      BY <2>1, <2>9
      DEF OnConnectError, LoopRuns, LoopAt, HasDescriptor, WaitedSocket, life,
          calls
    <3>2. Lifecycle!Fail
      BY <2>1, <3>1 DEF Lifecycle!Fail, Phase, Promised
    <3> QED
      BY <3>2 DEF Lifecycle!Next
  <2>10. CASE ReadStart \/ ReadStartFails
    <3>1. /\ cb = "read" /\ ~reading /\ ~(request /\ socket = "open")
          /\ UNCHANGED <<caller, hasty, owed, socket, request>>
      BY <2>1, <2>10
      DEF ReadStart, ReadStartFails, LoopAt, WaitedCallback, Attempting, life,
          calls, uv
    <3>2. CASE ReadStart
      <4>1. socket = "connected" /\ reading' /\ cb' # "read"
        BY <2>1, <3>2 DEF ReadStart, WaitedSocket
      <4>2. Lifecycle!Succeed
        BY <2>1, <3>1, <4>1 DEF Lifecycle!Succeed, Phase, Promised
      <4> QED
        BY <4>2 DEF Lifecycle!Next
    <3>3. CASE ReadStartFails
      <4>1. ~reading' /\ cb' # "read"
        BY <3>1, <3>3 DEF ReadStartFails, uv
      <4>2. Lifecycle!Fail
        BY <2>1, <3>1, <4>1 DEF Lifecycle!Fail, Phase, Promised
      <4> QED
        BY <4>2 DEF Lifecycle!Next
    <3> QED
      BY <2>10, <3>2, <3>3
  <2>11. CASE OnClose
    <3>1. /\ owed = 1 /\ owed' = 0 /\ socket = "closing" /\ socket' = "closed"
          /\ cb = "idle" /\ cb' = "off" /\ UNCHANGED <<caller, hasty>>
      BY <2>1, <2>11
      DEF OnClose, LoopRuns, LoopAt, Reports, WaitedSocket, life, calls
    <3>2. Lifecycle!Report
      BY <2>1, <3>1 DEF Lifecycle!Report, Phase, Promised
    <3> QED
      BY <3>2 DEF Lifecycle!Next
  <2>12. CASE OnStaleClose
    BY <2>1, <2>12 DEF OnStaleClose, WaitedSocket
  <2>13. ASSUME NEW t \in Threads,
                \/ CheckClosing(t) \/ ResetConnected(t) \/ ResetConnecting(t)
                \/ StopHeartbeat(t)
         PROVE  [Lifecycle!Next]_(Lifecycle!vars)
    <3>1. /\ UNCHANGED <<caller, hasty, socket, reading, request, owed>>
          /\ cb = "read" <=> cb' = "read"
      BY <2>13
      DEF CheckClosing, ResetConnected, ResetConnecting, StopHeartbeat, At, AppAt,
          LoopAt, Goes, Threads, life, uv, calls
    <3> QED
      BY <2>2, <3>1
  <2>14. CASE \/ SetConnected \/ AttemptEnds \/ StartHeartbeat \/ OnReadError
              \/ OnHeartbeatTimeout \/ CallbackDisconnects
    <3>1. /\ UNCHANGED <<caller, hasty, socket, reading, request, owed>>
          /\ cb = "read" <=> cb' = "read"
      BY <2>14
      DEF SetConnected, AttemptEnds, StartHeartbeat, OnReadError,
          OnHeartbeatTimeout, CallbackDisconnects, LoopRuns, LoopAt, AfterReset,
          life, uv, calls
    <3> QED
      BY <2>2, <3>1
  <2>15. CASE \/ Connect \/ MarkConnecting \/ Disconnect \/ Start \/ Stop
              \/ Join \/ Destroy \/ DeleteLoop \/ LoopExit \/ UNCHANGED vars
    <3>1. /\ UNCHANGED <<caller, hasty, socket, reading, request, owed>>
          /\ UNCHANGED cb
      BY <2>15
      DEF Connect, MarkConnecting, Disconnect, Start, Stop, Join, Destroy,
          DeleteLoop, LoopExit, vars, life, uv, calls
    <3> QED
      BY <2>2, <3>1
  <2> QED
    BY <2>3, <2>4, <2>5, <2>6, <2>7, <2>8, <2>9, <2>10, <2>11, <2>12, <2>13,
       <2>14, <2>15
    DEF Next, CallStep, Callback, CallbackStep, DisconnectStep, Threads
<1> QED
  BY <1>1, <1>2, IInvAlways, PTL DEF Spec, ImplementsLifecycle, Lifecycle!Spec
=============================================================================

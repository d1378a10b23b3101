---------------------------- MODULE ServerProofs ----------------------------
(***************************************************************************)
(* The session list of a Server, for any number of sessions and messages:  *)
(* what the callbacks make of it, and what a broadcast may rely on while   *)
(* they do.                                                                *)
(***************************************************************************)
EXTENDS Server, SequenceFacts

(***************************************************************************)
(* The strengthening.  A session is on the list from its first to its last *)
(* callback, so that no message can be written to it before or after; a    *)
(* walk has the sessions it still has to visit between its iterator and    *)
(* its end.                                                                *)
(***************************************************************************)
WalkGoesOn ==
    /\ cursor >= 1
    /\ app \in {"walk", "write", "send"} => sends >= 1

\* One session is checked at a time; it has a socket, open or not by now.
TargetsWereMade ==
    /\ \A s \in target : socket[s] # "none"
    /\ \A x, y \in target : x = y

\* A call from a handler has the loop to itself.
HandlerHasTheLoop ==
    caller = "handler" /\ fault = "none" =>
        /\ InWalk => ~moved /\ end = Len(sessions)
        /\ app = "close" => \A s \in target : socket[s] = "open"
        /\ \A s \in cb : socket[s] = "open" /\ app \in {"idle", "join"}

\* Messages are numbered in the order they were sent.
OutIsNumbered ==
    \A s \in Sessions :
        /\ IsInjective(out[s])
        /\ \A j \in 1..Len(out[s]) : out[s][j] <= sends
        /\ socket[s] = "none" => out[s] = <<>>

\* What the iterator has not reached was not written to.
NotWrittenYet ==
    /\ InWalk =>
           \A i \in 1..Len(sessions) :
               i >= cursor => /\ sends \notin ToSet(out[sessions[i]])
                              /\ app = "write" => sessions[i] \notin target
    /\ app \in {"write", "send"} =>
           \A s \in target : sends \notin ToSet(out[s])

\* Who is to be reached was reached, or is between iterator and end.
AudienceInSight ==
    fault = "none" /\ ~shrunk =>
        /\ InWalk => end <= Len(sessions)
        /\ \A s \in audience :
               \/ is_closing[s] \/ sends \in ToSet(out[s])
               \/ app \in {"write", "send"} /\ s \in target
               \/ InWalk /\ \E i \in cursor..end : sessions[i] = s

IInv == /\ TypeOK /\ WalkGoesOn /\ TargetsWereMade
        /\ ListedUntilClosed /\ ClosingFlagExact
        /\ HandlersAreSafe /\ HandlerHasTheLoop /\ OutIsNumbered
        /\ NotWrittenYet /\ AudienceInSight

-----------------------------------------------------------------------------
(***************************************************************************)
(* Lists without duplicates                                                *)
(***************************************************************************)
LEMMA SetOfSeq ==
    ASSUME NEW S, NEW q \in Seq(S)
    PROVE  /\ Len(q) \in Nat
           /\ ToSet(q) = {q[i] : i \in 1..Len(q)}
           /\ ToSet(q) \subseteq S
           /\ IsInjective(q) <=>
                  \A a, b \in 1..Len(q) : q[a] = q[b] => a = b
  BY DEF ToSet, IsInjective

\* push_back of what is not there.
LEMMA AppendNew ==
    ASSUME NEW S, NEW q \in Seq(S), NEW e \in S
    PROVE  /\ Append(q, e) \in Seq(S)
           /\ ToSet(Append(q, e)) = ToSet(q) \cup {e}
           /\ IsInjective(q) /\ e \notin ToSet(q) => IsInjective(Append(q, e))
<1> DEFINE r == Append(q, e)
<1>1. /\ r \in Seq(S) /\ Len(r) = Len(q) + 1 /\ Len(q) \in Nat
      /\ \A i \in 1..Len(q) : r[i] = q[i]
      /\ r[Len(q) + 1] = e
  BY AppendElements, LenProperties
<1> HIDE DEF r
<1>2. ToSet(r) = {r[i] : i \in 1..Len(r)} /\ ToSet(q) = {q[i] : i \in 1..Len(q)}
  BY <1>1, SetOfSeq
<1>3. \A i \in 1..Len(r) : i \in 1..Len(q) \/ i = Len(q) + 1
  BY <1>1
<1>4. \A i \in 1..Len(q) : i \in 1..Len(r)
  BY <1>1
<1>5. Len(q) + 1 \in 1..Len(r)
  BY <1>1
<1>6. ToSet(r) \subseteq ToSet(q) \cup {e}
  BY <1>1, <1>2, <1>3
<1>7. ToSet(q) \cup {e} \subseteq ToSet(r)
  <2>1. ToSet(q) \subseteq ToSet(r)
    BY <1>1, <1>2, <1>4
  <2>2. e \in ToSet(r)
    BY <1>1, <1>2, <1>5
  <2> QED
    BY <2>1, <2>2
<1>8. ASSUME IsInjective(q), e \notin ToSet(q) PROVE IsInjective(r)
  <2>1. \A a, b \in 1..Len(q) : q[a] = q[b] => a = b
    BY <1>8, SetOfSeq
  <2>2. \A a \in 1..Len(q) : q[a] # e
    BY <1>2, <1>8
  <2>3. ASSUME NEW a \in 1..Len(r), NEW b \in 1..Len(r), r[a] = r[b]
        PROVE  a = b
    BY <1>1, <1>3, <2>1, <2>2, <2>3
  <2> QED
    BY <1>1, <2>3, SetOfSeq
<1> QED
  BY <1>1, <1>6, <1>7, <1>8 DEF r

\* erase(): what follows moves one place to the front.
LEMMA RemoveElements ==
    ASSUME NEW S, NEW q \in Seq(S), NEW k \in 1..Len(q)
    PROVE  /\ RemoveAt(q, k) \in Seq(S)
           /\ Len(q) \in Nat
           /\ Len(RemoveAt(q, k)) = Len(q) - 1
           /\ \A i \in 1..(k - 1) : RemoveAt(q, k)[i] = q[i]
           /\ \A i \in k..(Len(q) - 1) : RemoveAt(q, k)[i] = q[i + 1]
<1> DEFINE a == SubSeq(q, 1, k - 1)
           b == SubSeq(q, k + 1, Len(q))
<1>0. Len(q) \in Nat /\ k \in Nat /\ k - 1 \in 0..Len(q) /\ k \in 0..Len(q)
  BY LenProperties
<1>1. /\ a \in Seq(S) /\ Len(a) = k - 1
      /\ \A i \in 1..(k - 1) : a[i] = q[i]
  <2>1. 0 \in 0..Len(q) /\ k - 1 \in 0..Len(q)
    BY <1>0
  <2>2. /\ SubSeq(q, 0 + 1, k - 1) \in Seq(S)
        /\ Len(SubSeq(q, 0 + 1, k - 1)) = (k - 1) - 0
        /\ \A i \in 1..((k - 1) - 0) : SubSeq(q, 0 + 1, k - 1)[i] = q[0 + i]
    BY <2>1, SliceElements
  <2>3. 0 + 1 = 1 /\ (k - 1) - 0 = k - 1 /\ \A i \in 1..(k - 1) : 0 + i = i
    BY <1>0
  <2> QED
    BY <2>2, <2>3
<1>2. /\ b \in Seq(S) /\ Len(b) = Len(q) - k
      /\ \A i \in 1..(Len(q) - k) : b[i] = q[k + i]
  BY <1>0, RestElements
<1>3. RemoveAt(q, k) = a \o b
  BY DEF RemoveAt
<1> HIDE DEF a, b
<1>4. /\ a \o b \in Seq(S)
      /\ Len(a \o b) = Len(a) + Len(b)
      /\ \A i \in 1..Len(a) : (a \o b)[i] = a[i]
      /\ \A i \in 1..Len(b) : (a \o b)[Len(a) + i] = b[i]
  <2>1. a \in Seq(S) /\ b \in Seq(S)
    BY <1>1, <1>2
  <2> QED
    BY <2>1, ConcatElements
<1>5. Len(a \o b) = Len(q) - 1
  BY <1>0, <1>1, <1>2, <1>4
<1>6. \A i \in 1..(k - 1) : (a \o b)[i] = q[i]
  BY <1>1, <1>4
<1>7. ASSUME NEW i \in k..(Len(q) - 1) PROVE (a \o b)[i] = q[i + 1]
  <2>1. i - k + 1 \in 1..(Len(q) - k)
    BY <1>0
  <2>2. (k - 1) + (i - k + 1) = i /\ k + (i - k + 1) = i + 1
    BY <1>0
  <2>3. (a \o b)[Len(a) + (i - k + 1)] = b[i - k + 1]
    BY <1>2, <1>4, <2>1
  <2>4. b[i - k + 1] = q[k + (i - k + 1)]
    BY <1>2, <2>1
  <2> QED
    BY <1>1, <2>2, <2>3, <2>4
<1> QED
  BY <1>0, <1>3, <1>4, <1>5, <1>6, <1>7

LEMMA WithoutOne ==
    ASSUME NEW S, NEW q \in Seq(S), IsInjective(q), NEW s
    PROVE  /\ Without(q, s) \in Seq(S)
           /\ ToSet(Without(q, s)) = ToSet(q) \ {s}
           /\ IsInjective(Without(q, s))
           /\ \A i \in 1..Len(Without(q, s)) : \E j \in 1..Len(q) :
                  j >= i /\ Without(q, s)[i] = q[j]
<1>0. /\ Len(q) \in Nat /\ ToSet(q) = {q[i] : i \in 1..Len(q)}
      /\ \A a, b \in 1..Len(q) : q[a] = q[b] => a = b
  BY SetOfSeq
<1>1. CASE s \notin ToSet(q)
  <2>1. Without(q, s) = q
    BY <1>1 DEF Without
  <2>2. \A i \in 1..Len(q) : i >= i
    BY <1>0
  <2> QED
    BY <1>1, <2>1, <2>2
<1>2. CASE s \in ToSet(q)
  <2> DEFINE k == CHOOSE i \in 1..Len(q) : q[i] = s
             r == Without(q, s)
  <2>1. k \in 1..Len(q) /\ q[k] = s
    BY <1>0, <1>2
  <2>2. r = RemoveAt(q, k)
    BY <1>2 DEF Without
  <2> HIDE DEF k, r
  <2>3. /\ r \in Seq(S) /\ Len(r) = Len(q) - 1
        /\ \A i \in 1..(k - 1) : r[i] = q[i]
        /\ \A i \in k..(Len(q) - 1) : r[i] = q[i + 1]
    BY <2>1, <2>2, RemoveElements
  <2>4. \A i \in 1..Len(r) :
            \/ i \in 1..(k - 1) /\ i \in 1..Len(q) /\ i # k
            \/ i \in k..(Len(q) - 1) /\ i + 1 \in 1..Len(q) /\ i + 1 # k
    BY <1>0, <2>1, <2>3
  <2>5. \A j \in 1..Len(q) :
            \/ j = k
            \/ j \in 1..(k - 1) /\ j \in 1..Len(r)
            \/ j - 1 \in k..(Len(q) - 1) /\ j - 1 \in 1..Len(r) /\ (j - 1) + 1 = j
    BY <1>0, <2>1, <2>3
  <2>6. \A i \in 1..Len(r) : \E j \in 1..Len(q) : j >= i /\ j # k /\ r[i] = q[j]
    <3> TAKE i \in 1..Len(r)
    <3>1. CASE i \in 1..(k - 1)
      BY <2>1, <2>3, <2>4, <3>1
    <3>2. CASE i \in k..(Len(q) - 1)
      <4>1. i + 1 \in 1..Len(q) /\ i + 1 >= i /\ i + 1 # k
        BY <1>0, <2>1, <3>2
      <4> QED
        BY <2>3, <3>2, <4>1
    <3> QED
      BY <2>4, <3>1, <3>2
  <2>7. ToSet(r) = {r[i] : i \in 1..Len(r)}
    BY <2>3, SetOfSeq
  <2>8. ToSet(r) \subseteq ToSet(q) \ {s}
    BY <1>0, <2>1, <2>6, <2>7
  <2>9. ASSUME NEW j \in 1..Len(q), q[j] # s PROVE q[j] \in ToSet(r)
    <3>1. CASE j \in 1..(k - 1) /\ j \in 1..Len(r)
      BY <2>3, <2>7, <3>1
    <3>2. CASE /\ j - 1 \in k..(Len(q) - 1) /\ j - 1 \in 1..Len(r)
               /\ (j - 1) + 1 = j
      <4>1. r[j - 1] = q[j]
        BY <2>3, <3>2
      <4> QED
        BY <2>7, <3>2, <4>1
    <3> QED
      BY <2>1, <2>5, <2>9, <3>1, <3>2
  <2>10. ToSet(r) = ToSet(q) \ {s}
    BY <1>0, <2>8, <2>9
  <2>11. ASSUME NEW a \in 1..Len(r), NEW b \in 1..Len(r), r[a] = r[b]
         PROVE  a = b
    <3> DEFINE At0(i) == IF i \in 1..(k - 1) THEN i ELSE i + 1
    <3>1. \A i \in 1..Len(r) : At0(i) \in 1..Len(q) /\ r[i] = q[At0(i)]
      BY <1>0, <2>1, <2>3, <2>4
    <3>2. At0(a) = At0(b)
      BY <1>0, <2>11, <3>1
    <3> QED
      BY <1>0, <2>1, <2>3, <3>2
  <2>12. IsInjective(r)
    BY <2>3, <2>11, SetOfSeq
  <2> QED
    BY <2>3, <2>6, <2>10, <2>12 DEF r
<1> QED
  BY <1>1, <1>2

-----------------------------------------------------------------------------
(***************************************************************************)
(* What the steps do to the list, the sockets and the messages             *)
(***************************************************************************)
LEMMA BoundsAreNumbers ==
    MaxSends \in Nat /\ MaxStarts \in Nat /\ Callers \subseteq {"handler", "thread"}
  BY ServerAssumption

Working ==
    \/ Broadcast \/ BroadcastNext \/ Write \/ BroadcastDone
    \/ CloseTarget \/ CallbackClosed
    \/ \E s \in Sessions : SendTo(s) \/ OnConnection(s) \/ OnSessionClose(s)

Matter == <<sessions, socket, is_closing, reported, message>>

\* The others only change what the server, its thread and its application
\* are about.
LEMMA AsideEffect ==
    ASSUME [Next]_vars, ~Working
    PROVE  /\ UNCHANGED <<caller, Matter, cursor, end, moved, shrunk>>
           /\ \A s \in Sessions :
                  socket[s] \notin {"open", "closing"} => handler'[s] = handler[s]
           /\ \/ app' = app /\ target' = target
              \/ app' \in {"idle", "join", "gone"} /\ app \notin {"walk", "write", "send"}
                 /\ target' = target
              \/ /\ app' = "close" /\ app = "idle"
                 /\ \E s \in Sessions : target' = {s} /\ socket[s] = "open"
           /\ \/ cb' = cb /\ (caller = "handler" /\ cb # {} => app' = app)
              \/ /\ LoopRuns /\ UNCHANGED <<app, target, fault>>
                 /\ \E s \in Sessions : cb' = {s} /\ socket[s] = "open"
           /\ fault = "none" => fault' \in {"none", "handles"}
           /\ fault # "none" => fault' = fault
<1> USE DEF At, MayCall, LoopRuns, life, thread, listener, session, walk,
            message, Matter
<1>1. CASE Listen \/ StopListening \/ Start \/ Stop \/ Destroy \/ Join
               \/ LoopExit \/ OnServerClose \/ UNCHANGED vars
  BY <1>1 DEF Listen, StopListening, Start, Stop, Destroy, Join, LoopExit,
              OnServerClose, vars
<1>2. CASE DeleteLoop
  BY <1>2 DEF DeleteLoop
<1>3. ASSUME NEW s \in Sessions, Close(s)
      PROVE  /\ UNCHANGED <<caller, Matter, cursor, end, moved, shrunk, handler,
                            fault, cb>>
             /\ app = "idle" /\ app' = "close"
             /\ caller = "handler" => cb = {}
             /\ target' = {s} /\ socket[s] = "open"
  BY <1>3 DEF Close
<1>4. ASSUME NEW s \in Sessions, SetCloseHandler(s)
      PROVE  /\ UNCHANGED <<caller, Matter, cursor, end, moved, shrunk, app,
                            target, fault, cb>>
             /\ \A x \in Sessions :
                    socket[x] \notin {"open", "closing"} => handler'[x] = handler[x]
  BY <1>4 DEF SetCloseHandler
<1>5. ASSUME NEW s \in Sessions, StopSession(s) \/ StartSession(s)
      PROVE  UNCHANGED <<caller, Matter, cursor, end, moved, shrunk, app,
                         target, fault, handler, cb>>
  BY <1>5 DEF StopSession, StartSession
<1>6. ASSUME NEW s \in Sessions, OnReadError(s) \/ OnHeartbeatTimeout(s)
      PROVE  /\ UNCHANGED <<caller, Matter, cursor, end, moved, shrunk, app,
                            target, fault, handler>>
             /\ LoopRuns /\ cb' = {s} /\ socket[s] = "open"
  BY <1>6 DEF OnReadError, OnHeartbeatTimeout, CallbackCloses
<1>7. \/ Listen \/ StopListening \/ Start \/ Stop \/ Destroy \/ Join
      \/ LoopExit \/ OnServerClose \/ UNCHANGED vars \/ DeleteLoop
      \/ \E s \in Sessions : Close(s)
      \/ \E s \in Sessions : SetCloseHandler(s)
      \/ \E s \in Sessions : StopSession(s) \/ StartSession(s)
      \/ \E s \in Sessions : OnReadError(s) \/ OnHeartbeatTimeout(s)
  BY DEF Next, CallStep, Working
<1> QED
  BY <1>1, <1>2, <1>3, <1>4, <1>5, <1>6, <1>7

\* close(), the application's or a callback's, where it has been found open.
LEMMA ClosesEffect ==
    ASSUME TypeOK, CloseTarget \/ CallbackClosed
    PROVE  /\ fault = "none"
           /\ UNCHANGED <<caller, sessions, handler, timer, reported, stopped,
                          message, cursor, end, moved, shrunk>>
           /\ \/ app = "close" /\ app' = "idle" /\ target' = {} /\ cb' = cb
              \/ UNCHANGED <<app, target>> /\ cb' = {} /\ cb # {}
           /\ \E s \in Sessions :
                  /\ s \in (IF CloseTarget THEN target ELSE cb)
                  /\ is_closing' = [is_closing EXCEPT ![s] = TRUE]
                  /\ \/ /\ socket[s] = "open" /\ fault' = fault
                        /\ socket' = [socket EXCEPT ![s] = "closing"]
                        /\ reading' = [reading EXCEPT ![s] = FALSE]
                     \/ /\ socket[s] # "open" /\ fault' = "close"
                        /\ UNCHANGED <<socket, reading>>
<1>0. target \subseteq Sessions /\ cb \subseteq Sessions
  BY DEF TypeOK
<1>1. CASE CloseTarget
  BY <1>0, <1>1 DEF CloseTarget, Closes, At, life, thread
<1>2. CASE ~CloseTarget
  BY <1>0, <1>2 DEF CallbackClosed, Closes, life
<1> QED
  BY <1>1, <1>2

\* A round of the walk passes a session by or has it checked.
LEMMA RoundEffect ==
    ASSUME TypeOK, WalkGoesOn, BroadcastNext
    PROVE  /\ fault = "none" /\ app = "walk" /\ cursor <= end
           /\ UNCHANGED <<caller, sessions, socket, is_closing, handler, reported,
                          out, audience, sends, end, moved, shrunk, cb>>
           /\ \/ UNCHANGED <<cursor, app, target>> /\ fault' # "none"
              \/ /\ cursor \in 1..Len(sessions) /\ sessions[cursor] \in Sessions
                 /\ cursor' = cursor + 1 /\ fault' = fault
                 /\ \/ is_closing[sessions[cursor]] /\ UNCHANGED <<app, target>>
                    \/ app' = "write" /\ target' = {sessions[cursor]}
<1>1. /\ fault = "none" /\ app = "walk" /\ cursor <= end
      /\ UNCHANGED <<caller, sessions, socket, is_closing, handler, reported,
                     out, audience, sends, end, moved, shrunk, cb>>
  BY DEF BroadcastNext, At, session, life, thread, message
<1>2. CASE moved \/ cursor > Len(sessions)
  BY <1>1, <1>2 DEF BroadcastNext
<1>3. CASE ~(moved \/ cursor > Len(sessions))
  <2>1. /\ cursor' = cursor + 1 /\ fault' = fault
        /\ \/ is_closing[sessions[cursor]] /\ UNCHANGED <<app, target>>
           \/ app' = "write" /\ target' = {sessions[cursor]}
    BY <1>3 DEF BroadcastNext
  <2>2. cursor \in 1..Len(sessions)
    BY <1>1, <1>3, LenProperties DEF WalkGoesOn, TypeOK
  <2>3. sessions[cursor] \in Sessions
    BY <2>2 DEF TypeOK
  <2> QED
    BY <1>1, <2>1, <2>2, <2>3
<1> QED
  BY <1>2, <1>3

LEMMA SendEffect ==
    ASSUME TypeOK, NEW s \in Sessions, SendTo(s)
    PROVE  /\ fault = "none" /\ app = "idle"
           /\ caller = "handler" => cb = {}
           /\ UNCHANGED <<caller, sessions, socket, is_closing, handler, reported,
                          out, cursor, end, moved, fault, cb>>
           /\ sends' = sends + 1 /\ sends' \in 1..MaxSends /\ sends \in Nat
           /\ audience' = Live \cap {s}
           /\ \/ s \in Live /\ app' = "send" /\ target' = {s}
              \/ s \notin Live /\ UNCHANGED <<app, target>>
<1>1. /\ fault = "none" /\ app = "idle"
      /\ caller = "handler" => cb = {}
      /\ UNCHANGED <<caller, sessions, socket, is_closing, handler, reported,
                     out, cursor, end, moved, fault, cb>>
      /\ audience' = Live \cap {s} /\ sends' = sends + 1
      /\ \/ s \in Live /\ app' = "send" /\ target' = {s}
         \/ s \notin Live /\ UNCHANGED <<app, target>>
  BY DEF SendTo, MayCall, At, session, life, thread
<1>2. sends' \in 1..MaxSends /\ sends \in Nat
  <2>1. sends < MaxSends /\ sends' = sends + 1
    BY DEF SendTo
  <2>2. sends \in 0..MaxSends
    BY DEF TypeOK
  <2> QED
    BY <2>1, <2>2, BoundsAreNumbers
<1> QED
  BY <1>1, <1>2

\* uv_write on what was checked.
LEMMA WriteEffect ==
    ASSUME TypeOK, WalkGoesOn, Write
    PROVE  /\ fault = "none" /\ app \in {"write", "send"}
           /\ caller = "handler" => cb = {}
           /\ app = "write" => app' = "walk"
           /\ app = "send" => app' = "idle"
           /\ target' = {} /\ sends \in 1..MaxSends
           /\ UNCHANGED <<caller, sessions, socket, is_closing, handler, reported,
                          cursor, end, moved, shrunk, fault, audience, sends, cb>>
           /\ \E s \in Sessions :
                  s \in target /\ out' = [out EXCEPT ![s] = Written(s, sends)]
<1>1. /\ fault = "none" /\ app \in {"write", "send"}
      /\ caller = "handler" => cb = {}
      /\ app = "write" => app' = "walk"
      /\ app = "send" => app' = "idle"
      /\ target' = {}
      /\ UNCHANGED <<caller, sessions, socket, is_closing, handler, reported,
                     cursor, end, moved, shrunk, fault, audience, sends, cb>>
  BY DEF Write, At, session, life, thread
<1>2. sends \in 1..MaxSends
  <2>1. sends \in 0..MaxSends /\ sends >= 1
    BY <1>1 DEF WalkGoesOn, TypeOK
  <2> QED
    BY <2>1, BoundsAreNumbers
<1>3. \E s \in target : out' = [out EXCEPT ![s] = Written(s, sends)]
  BY DEF Write
<1>4. target \subseteq Sessions
  BY DEF TypeOK
<1> QED
  BY <1>1, <1>2, <1>3, <1>4

-----------------------------------------------------------------------------
(***************************************************************************)
(* Type correctness                                                        *)
(***************************************************************************)
PlaceTypes ==
    /\ caller \in Callers /\ dying \in BOOLEAN
    /\ server \in {"fresh", "listening", "closing", "closed"}
    /\ is_listening = (server = "listening")
    /\ loop \in {"none", "running", "exited"} /\ should_stop \in BOOLEAN
    /\ app \in {"idle", "walk", "write", "send", "close", "join", "gone"}
    /\ fault \in {"none", "dangling", "close", "handles"}
    /\ starts \in 0..MaxStarts

SessionTypes ==
    /\ sessions \in Seq(Sessions)
    /\ socket \in [Sessions -> {"none", "open", "closing", "closed"}]
    /\ is_closing \in [Sessions -> BOOLEAN]
    /\ reading \in [Sessions -> BOOLEAN] /\ timer \in [Sessions -> BOOLEAN]
    /\ handler \in [Sessions -> {"server", "application"}]
    /\ reported \in [Sessions -> Nat]
    /\ target \subseteq Sessions /\ stopped \subseteq Sessions
    /\ cb \subseteq Sessions

WalkTypes ==
    /\ cursor \in Nat /\ end \in Nat
    /\ moved \in BOOLEAN /\ shrunk \in BOOLEAN

MessageTypes ==
    /\ out \in [Sessions -> Seq(1..MaxSends)]
    /\ audience \subseteq Sessions
    /\ sends \in 0..MaxSends

LEMMA TypeParts == TypeOK => PlaceTypes /\ SessionTypes /\ WalkTypes /\ MessageTypes
  BY DEF TypeOK, PlaceTypes, SessionTypes, WalkTypes, MessageTypes

LEMMA TypeWhole ==
    /\ PlaceTypes /\ SessionTypes /\ WalkTypes /\ MessageTypes => TypeOK
    /\ PlaceTypes' /\ SessionTypes' /\ WalkTypes' /\ MessageTypes' => TypeOK'
  BY DEF TypeOK, PlaceTypes, SessionTypes, WalkTypes, MessageTypes

LEMMA PlaceTypesStep ==
    ASSUME PlaceTypes, [Next]_vars PROVE PlaceTypes'
<1> USE DEF PlaceTypes, life, thread, listener, walk
<1>1. CASE Listen
  BY <1>1 DEF Listen
<1>2. CASE StopListening
  <2>1. server = "listening" /\ server' = "closing" /\ is_listening' = FALSE
    BY <1>2 DEF StopListening
  <2> QED
    BY <1>2, <2>1 DEF StopListening
<1>3. CASE Start
  <2>1. starts' \in 0..MaxStarts
    BY <1>3, BoundsAreNumbers DEF Start
  <2>2. /\ UNCHANGED <<caller, dying, server, is_listening, app, fault>>
        /\ loop' = "running" /\ should_stop' = FALSE
    BY <1>3 DEF Start
  <2> QED
    BY <2>1, <2>2
<1>4. CASE Stop
  BY <1>4 DEF Stop
<1>5. CASE Join \/ Destroy \/ LoopExit
  BY <1>5 DEF Join, Destroy, LoopExit
<1>6. CASE OnServerClose
  BY <1>6 DEF OnServerClose
<1>7. CASE Broadcast \/ BroadcastDone
  BY <1>7 DEF Broadcast, BroadcastDone
<1>8. CASE BroadcastNext
  BY <1>8 DEF BroadcastNext
<1>9. CASE Write
  BY <1>9 DEF Write
<1>13. CASE CloseTarget
  BY <1>13 DEF CloseTarget, Closes
<1>14. CASE CallbackClosed
  BY <1>14 DEF CallbackClosed, Closes
<1>10. CASE DeleteLoop
  BY <1>10 DEF DeleteLoop
<1>11. ASSUME NEW s \in Sessions,
              \/ SendTo(s) \/ Close(s) \/ SetCloseHandler(s)
              \/ StopSession(s) \/ StartSession(s)
              \/ OnConnection(s) \/ OnReadError(s) \/ OnHeartbeatTimeout(s)
              \/ OnSessionClose(s)
       PROVE  PlaceTypes'
  BY <1>11 DEF SendTo, Close, SetCloseHandler, StopSession, StartSession,
               OnConnection, OnReadError, OnHeartbeatTimeout, CallbackCloses,
               OnSessionClose
<1>12. CASE UNCHANGED vars
  BY <1>12 DEF vars
<1> QED
  BY <1>1, <1>2, <1>3, <1>4, <1>5, <1>6, <1>7, <1>8, <1>9, <1>10, <1>11, <1>12,
     <1>13, <1>14 DEF Next, CallStep

LEMMA WalkTypesStep ==
    ASSUME TypeOK, WalkGoesOn, [Next]_vars
    PROVE  WalkTypes' /\ WalkGoesOn'
<1>0. /\ WalkTypes /\ Len(sessions) \in Nat /\ sends \in Nat
      /\ cursor >= 1 /\ (app \in {"walk", "write", "send"} => sends >= 1)
  BY TypeParts, LenProperties DEF SessionTypes, MessageTypes, WalkGoesOn
<1> USE <1>0 DEF WalkTypes, WalkGoesOn, life, thread, listener, walk, message
<1>1. CASE Broadcast
  <2>1. moved' \in BOOLEAN /\ shrunk' \in BOOLEAN
    BY <1>1 DEF Broadcast
  <2>2. cursor' = 1 /\ end' = Len(sessions) /\ sends' = sends + 1
    BY <1>1 DEF Broadcast
  <2> QED
    BY <2>1, <2>2
<1>2. CASE BroadcastNext
  <2>1. /\ UNCHANGED <<end, moved, shrunk, sends>> /\ app = "walk"
        /\ cursor' = cursor \/ cursor' = cursor + 1
    BY <1>2, RoundEffect
  <2> QED
    BY <2>1
<1>3. CASE BroadcastDone
  <2>1. moved' \in BOOLEAN /\ shrunk' = shrunk
    BY <1>3 DEF BroadcastDone
  <2>2. cursor' = 1 /\ end' = 0 /\ app' = "idle"
    BY <1>3 DEF BroadcastDone
  <2> QED
    BY <2>1, <2>2
<1>4. CASE CloseTarget \/ CallbackClosed
  BY <1>4, ClosesEffect
<1>5. ASSUME NEW s \in Sessions, SendTo(s)
      PROVE  WalkTypes' /\ WalkGoesOn'
  <2>1. sends' = sends + 1 /\ shrunk' = FALSE /\ UNCHANGED <<cursor, end, moved>>
    BY <1>5 DEF SendTo
  <2>2. sends' >= 1
    BY <2>1
  <2> QED
    BY <2>1, <2>2
<1>6. ASSUME NEW s \in Sessions, OnConnection(s)
      PROVE  WalkTypes' /\ WalkGoesOn'
  BY <1>6 DEF OnConnection
<1>7. CASE Write
  BY <1>7, WriteEffect
<1>8. ASSUME NEW s \in Sessions, OnSessionClose(s)
      PROVE  WalkTypes' /\ WalkGoesOn'
  BY <1>8 DEF OnSessionClose
<1>9. CASE ~Working
  BY <1>9, AsideEffect DEF Matter
<1> QED
  BY <1>1, <1>2, <1>3, <1>4, <1>5, <1>6, <1>7, <1>8, <1>9 DEF Working

LEMMA SessionTypesStep ==
    ASSUME TypeOK, WalkGoesOn, ListedUntilClosed, [Next]_vars
    PROVE  SessionTypes'
<1>0. SessionTypes
  BY TypeParts
<1> USE <1>0 DEF SessionTypes, life, thread, listener, session, walk
<1>1. CASE \/ Listen \/ StopListening \/ Start \/ Stop \/ Destroy \/ Join
           \/ LoopExit \/ OnServerClose \/ DeleteLoop
           \/ Broadcast \/ Write \/ BroadcastDone \/ UNCHANGED vars
  BY <1>1 DEF Listen, StopListening, Start, Stop, Destroy, Join, LoopExit,
              OnServerClose, DeleteLoop, Broadcast, Write, BroadcastDone, vars
<1>8. CASE BroadcastNext
  <2>1. UNCHANGED <<sessions, session, cb>>
    BY <1>8 DEF BroadcastNext
  <2>2. \/ target' = target
        \/ target' = {sessions[cursor]} /\ sessions[cursor] \in Sessions
    BY <1>8, RoundEffect
  <2>3. target' \subseteq Sessions
    BY <2>2
  <2> QED
    BY <2>1, <2>3
<1>2. CASE CloseTarget \/ CallbackClosed
  <2>1. /\ UNCHANGED <<sessions, timer, handler, reported, stopped>>
        /\ target' \subseteq Sessions /\ cb' \subseteq Sessions
    BY <1>2, ClosesEffect
  <2>2. /\ is_closing' \in [Sessions -> BOOLEAN]
        /\ socket' \in [Sessions -> {"none", "open", "closing", "closed"}]
        /\ reading' \in [Sessions -> BOOLEAN]
    BY <1>2, ClosesEffect
  <2> QED
    BY <2>1, <2>2
<1>3. ASSUME NEW s \in Sessions, SendTo(s) \/ Close(s) \/ SetCloseHandler(s)
      PROVE  SessionTypes'
  BY <1>3 DEF SendTo, Close, SetCloseHandler
<1>4. ASSUME NEW s \in Sessions, StopSession(s) \/ StartSession(s)
      PROVE  SessionTypes'
  BY <1>4 DEF StopSession, StartSession
<1>5. ASSUME NEW s \in Sessions, OnConnection(s) PROVE SessionTypes'
  <2>1. sessions' \in Seq(Sessions)
    BY <1>5, AppendNew DEF OnConnection
  <2>2. /\ UNCHANGED <<is_closing, handler, reported, stopped, target, cb>>
        /\ socket' = [socket EXCEPT ![s] = "open"]
        /\ timer' = [timer EXCEPT ![s] = TRUE]
        /\ \E r \in BOOLEAN : reading' = [reading EXCEPT ![s] = r]
    BY <1>5 DEF OnConnection
  <2> QED
    BY <2>1, <2>2
<1>6. ASSUME NEW s \in Sessions, CallbackCloses(s) PROVE SessionTypes'
  BY <1>6 DEF CallbackCloses
<1>7. ASSUME NEW s \in Sessions, OnSessionClose(s) PROVE SessionTypes'
  <2>1. sessions' = sessions \/ sessions' = Without(sessions, s)
    BY <1>7 DEF OnSessionClose
  <2>2. sessions' \in Seq(Sessions)
    <3>1. sessions \in Seq(Sessions) /\ IsInjective(sessions)
      BY DEF ListedUntilClosed
    <3>2. Without(sessions, s) \in Seq(Sessions)
      BY <3>1, WithoutOne
    <3> QED
      BY <2>1, <3>1, <3>2
  <2>3. /\ UNCHANGED <<is_closing, reading, timer, handler, stopped, target, cb>>
        /\ socket' = [socket EXCEPT ![s] = "closed"]
    BY <1>7 DEF OnSessionClose
  <2>4. reported' = reported \/ reported' = [reported EXCEPT ![s] = @ + 1]
    BY <1>7 DEF OnSessionClose
  <2>5. reported' \in [Sessions -> Nat]
    <3>1. reported \in [Sessions -> Nat] /\ reported[s] + 1 \in Nat
      OBVIOUS
    <3> HIDE DEF SessionTypes
    <3> QED
      BY <2>4, <3>1
  <2> QED
    BY <2>2, <2>3, <2>5
<1> QED
  BY <1>1, <1>2, <1>3, <1>4, <1>5, <1>6, <1>7, <1>8
  DEF Next, CallStep, OnReadError, OnHeartbeatTimeout

\* Writing a message to a session, or not.
LEMMA WrittenIsSeq ==
    ASSUME TypeOK, NEW s \in Sessions, NEW n \in 1..MaxSends
    PROVE  Written(s, n) \in Seq(1..MaxSends)
<1>1. out[s] \in Seq(1..MaxSends)
  BY DEF TypeOK
<1> QED
  BY <1>1, AppendElements DEF Written

LEMMA MessageTypesStep ==
    ASSUME TypeOK, WalkGoesOn, [Next]_vars
    PROVE  MessageTypes'
<1>0. MessageTypes /\ sends \in Nat /\ Live \subseteq Sessions /\ MaxSends \in Nat
  BY TypeParts, BoundsAreNumbers DEF MessageTypes, Live
<1> USE <1>0 DEF MessageTypes, message
<1>1. CASE Broadcast
  BY <1>1 DEF Broadcast
<1>2. CASE Write
  <2>1. UNCHANGED <<audience, sends>>
    BY <1>2 DEF Write
  <2>2. PICK s \in Sessions : out' = [out EXCEPT ![s] = Written(s, sends)]
    BY <1>2, WriteEffect
  <2>3. Written(s, sends) \in Seq(1..MaxSends)
    BY <1>2, WriteEffect, WrittenIsSeq
  <2> HIDE DEF message
  <2> QED
    BY <2>1, <2>2, <2>3
<1>3. ASSUME NEW s \in Sessions, SendTo(s) PROVE MessageTypes'
  BY <1>3, SendEffect
<1>4. ASSUME NEW s \in Sessions, OnConnection(s) \/ OnSessionClose(s)
      PROVE  MessageTypes'
  BY <1>4 DEF OnConnection, OnSessionClose
<1>5. CASE CloseTarget \/ CallbackClosed \/ BroadcastNext \/ BroadcastDone
  BY <1>5 DEF CloseTarget, CallbackClosed, BroadcastNext, BroadcastDone
<1>6. CASE ~Working
  BY <1>6, AsideEffect DEF Matter
<1> QED
  BY <1>1, <1>2, <1>3, <1>4, <1>5, <1>6 DEF Working

LEMMA TypeStep ==
    ASSUME IInv, [Next]_vars PROVE TypeOK' /\ WalkGoesOn'
  BY TypeParts, TypeWhole, PlaceTypesStep, WalkTypesStep, SessionTypesStep,
     MessageTypesStep DEF IInv

-----------------------------------------------------------------------------
(***************************************************************************)
(* The list                                                                *)
(***************************************************************************)
\* What a session's place on the list says of its socket.
Listed(s) ==
    s \in ToSet(sessions)
        <=> \/ socket[s] \in {"open", "closing"}
            \/ socket[s] = "closed" /\ handler[s] = "application"

ReportCount(s) ==
    reported[s] = IF socket[s] = "closed" /\ handler[s] = "server" THEN 1 ELSE 0

LEMMA ListedParts ==
    /\ ListedUntilClosed <=>
           IsInjective(sessions) /\ \A s \in Sessions : Listed(s) /\ ReportCount(s)
    /\ IsInjective(sessions)' /\ (\A s \in Sessions : Listed(s)' /\ ReportCount(s)')
           => ListedUntilClosed'
  BY DEF ListedUntilClosed, Listed, ReportCount

LEMMA ConnectionEffect ==
    ASSUME TypeOK, ListedUntilClosed, NEW s \in Sessions, OnConnection(s)
    PROVE  /\ socket[s] = "none" /\ s \notin ToSet(sessions)
           /\ sessions' = Append(sessions, s)
           /\ ToSet(sessions)' = ToSet(sessions) \cup {s}
           /\ IsInjective(sessions)'
           /\ socket' = [socket EXCEPT ![s] = "open"]
           /\ UNCHANGED <<caller, is_closing, handler, reported, message, app,
                          cursor, end, shrunk, target, fault, cb>>
           /\ fault = "none"
           /\ ~InWalk => moved' = FALSE
<1>1. /\ socket[s] = "none" /\ fault = "none" /\ sessions' = Append(sessions, s)
      /\ socket' = [socket EXCEPT ![s] = "open"]
      /\ UNCHANGED <<caller, is_closing, handler, reported, message, app,
                     cursor, end, shrunk, target, fault, cb>>
  BY DEF OnConnection, LoopRuns, life, thread
<1>2. ~InWalk => moved' = FALSE
  BY DEF OnConnection
<1>3. sessions \in Seq(Sessions)
  BY DEF TypeOK
<1>4. IsInjective(sessions) /\ Listed(s)
  BY ListedParts
<1>5. s \notin ToSet(sessions)
  BY <1>1, <1>4 DEF Listed
<1>6. /\ ToSet(Append(sessions, s)) = ToSet(sessions) \cup {s}
      /\ IsInjective(Append(sessions, s))
  BY <1>3, <1>4, <1>5, AppendNew
<1> QED
  BY <1>1, <1>2, <1>5, <1>6

LEMMA CloseEffect ==
    ASSUME TypeOK, ListedUntilClosed, NEW s \in Sessions, OnSessionClose(s)
    PROVE  /\ socket[s] = "closing" /\ s \in ToSet(sessions)
           /\ socket' = [socket EXCEPT ![s] = "closed"]
           /\ IsInjective(sessions)'
           /\ \/ /\ handler[s] = "server"
                 /\ ToSet(sessions)' = ToSet(sessions) \ {s}
                 /\ reported' = [reported EXCEPT ![s] = reported[s] + 1]
                 /\ shrunk' = (shrunk \/ InWalk)
              \/ /\ handler[s] = "application"
                 /\ UNCHANGED <<sessions, reported, shrunk>>
           /\ \A i \in 1..Len(sessions') : \E j \in 1..Len(sessions) :
                  j >= i /\ sessions'[i] = sessions[j]
           /\ UNCHANGED <<caller, is_closing, handler, message, app, cursor,
                          end, moved, target, fault, cb>>
           /\ fault = "none"
<1>1. /\ socket[s] = "closing" /\ fault = "none"
      /\ socket' = [socket EXCEPT ![s] = "closed"]
      /\ UNCHANGED <<caller, is_closing, handler, message, app, cursor,
                     end, moved, target, fault, cb>>
  BY DEF OnSessionClose, LoopRuns, life, thread
<1>2. sessions \in Seq(Sessions) /\ IsInjective(sessions) /\ Listed(s)
  BY ListedParts DEF TypeOK
<1>3. s \in ToSet(sessions)
  BY <1>1, <1>2 DEF Listed
<1>4. /\ ToSet(Without(sessions, s)) = ToSet(sessions) \ {s}
      /\ IsInjective(Without(sessions, s))
      /\ \A i \in 1..Len(Without(sessions, s)) : \E j \in 1..Len(sessions) :
             j >= i /\ Without(sessions, s)[i] = sessions[j]
  BY <1>2, WithoutOne
<1>5. CASE handler[s] = "server"
  <2>1. /\ sessions' = Without(sessions, s)
        /\ reported' = [reported EXCEPT ![s] = reported[s] + 1]
        /\ shrunk' = (shrunk \/ InWalk)
    BY <1>5 DEF OnSessionClose
  <2> QED
    BY <1>1, <1>3, <1>4, <1>5, <2>1
<1>6. CASE handler[s] # "server"
  <2>1. handler[s] = "application" /\ UNCHANGED <<sessions, reported, shrunk>>
    BY <1>6 DEF OnSessionClose, TypeOK
  <2>2. \A i \in 1..Len(sessions) : i >= i
    BY <1>2, LenProperties
  <2> QED
    BY <1>1, <1>2, <1>3, <2>1, <2>2
<1> QED
  BY <1>5, <1>6

LEMMA ListedStep ==
    ASSUME IInv, [Next]_vars PROVE ListedUntilClosed'
<1>0. TypeOK /\ ListedUntilClosed
  BY DEF IInv
<1>n. /\ IsInjective(sessions)
      /\ \A x \in Sessions : Listed(x) /\ ReportCount(x)
      /\ socket \in [Sessions -> {"none", "open", "closing", "closed"}]
      /\ handler \in [Sessions -> {"server", "application"}]
      /\ reported \in [Sessions -> Nat]
  BY <1>0, ListedParts DEF TypeOK
<1>1. ASSUME NEW s \in Sessions, OnConnection(s) PROVE ListedUntilClosed'
  <2>0. /\ socket[s] = "none" /\ handler' = handler /\ reported' = reported
        /\ socket' = [socket EXCEPT ![s] = "open"]
        /\ ToSet(sessions)' = ToSet(sessions) \cup {s}
    BY <1>0, <1>1, ConnectionEffect
  <2>1. \A x \in Sessions : Listed(x)' /\ ReportCount(x)'
    <3> TAKE x \in Sessions
    <3>1. CASE x = s
      <4>1. socket'[x] = "open" /\ x \in ToSet(sessions)' /\ reported[x] = 0
        BY <1>n, <2>0, <3>1 DEF ReportCount
      <4> QED
        BY <2>0, <4>1 DEF Listed, ReportCount
    <3>2. CASE x # s
      <4>1. socket'[x] = socket[x] /\ (x \in ToSet(sessions)' <=> x \in ToSet(sessions))
        BY <1>n, <2>0, <3>2
      <4> QED
        BY <1>n, <2>0, <4>1 DEF Listed, ReportCount
    <3> QED
      BY <3>1, <3>2
  <2> QED
    BY <1>0, <1>1, <2>1, ConnectionEffect, ListedParts
<1>2. ASSUME NEW s \in Sessions, OnSessionClose(s) PROVE ListedUntilClosed'
  <2>1. \A x \in Sessions \ {s} : Listed(x)' /\ ReportCount(x)'
    BY <1>0, <1>n, <1>2, CloseEffect DEF Listed, ReportCount
  <2>2. reported[s] = 0
    BY <1>0, <1>n, <1>2, CloseEffect DEF ReportCount
  <2>3. Listed(s)'
    BY <1>0, <1>n, <1>2, CloseEffect DEF Listed
  <2>4. ReportCount(s)'
    BY <1>0, <1>n, <1>2, <2>2, CloseEffect DEF ReportCount
  <2> QED
    BY <1>0, <1>2, <2>1, <2>3, <2>4, CloseEffect, ListedParts
<1>3. ASSUME UNCHANGED <<sessions, handler, reported>>,
             \A x \in Sessions : \/ socket'[x] = socket[x]
                                 \/ socket[x] = "open" /\ socket'[x] = "closing"
      PROVE  ListedUntilClosed'
  <2>1. \A x \in Sessions : Listed(x)' /\ ReportCount(x)'
    BY <1>n, <1>3 DEF Listed, ReportCount
  <2> QED
    BY <1>n, <1>3, <2>1, ListedParts
<1>4. CASE CloseTarget \/ CallbackClosed
  <2>1. UNCHANGED <<sessions, handler, reported>>
    BY <1>0, <1>4, ClosesEffect
  <2>2. \A x \in Sessions : \/ socket'[x] = socket[x]
                            \/ socket[x] = "open" /\ socket'[x] = "closing"
    BY <1>0, <1>n, <1>4, ClosesEffect
  <2> QED
    BY <1>3, <2>1, <2>2
<1>6. ASSUME NEW s \in Sessions, SendTo(s) PROVE ListedUntilClosed'
  BY <1>3, <1>6 DEF SendTo, session
<1>7. CASE Broadcast \/ BroadcastNext \/ Write \/ BroadcastDone
  BY <1>3, <1>7 DEF Broadcast, BroadcastNext, Write, BroadcastDone, session
<1>8. CASE ~Working
  <2>1. /\ UNCHANGED <<sessions, socket, reported>>
        /\ \A x \in Sessions :
               socket[x] \notin {"open", "closing"} => handler'[x] = handler[x]
    BY <1>8, AsideEffect DEF Matter
  <2>2. \A x \in Sessions : Listed(x)' /\ ReportCount(x)'
    BY <1>n, <2>1 DEF Listed, ReportCount
  <2> QED
    BY <1>n, <2>1, <2>2, ListedParts
<1> QED
  BY <1>1, <1>2, <1>4, <1>6, <1>7, <1>8 DEF Working

\* What is on the list has a socket.
LEMMA ListHasSockets ==
    ASSUME TypeOK, ListedUntilClosed
    PROVE  /\ \A x \in Sessions : x \in ToSet(sessions) => socket[x] # "none"
           /\ \A i \in 1..Len(sessions) : socket[sessions[i]] # "none"
<1>1. sessions \in Seq(Sessions) /\ \A x \in Sessions : Listed(x)
  BY ListedParts DEF TypeOK
<1>2. \A x \in Sessions : x \in ToSet(sessions) => socket[x] # "none"
  BY <1>1 DEF Listed
<1>3. ToSet(sessions) = {sessions[i] : i \in 1..Len(sessions)}
  BY <1>1, SetOfSeq
<1>4. \A i \in 1..Len(sessions) : sessions[i] \in Sessions
  BY <1>1
<1> QED
  BY <1>2, <1>3, <1>4

LEMMA TargetStep ==
    ASSUME IInv, [Next]_vars PROVE TargetsWereMade'
<1>0. TypeOK /\ WalkGoesOn /\ TargetsWereMade /\ ListedUntilClosed
  BY DEF IInv
<1>n. /\ target \subseteq Sessions
      /\ socket \in [Sessions -> {"none", "open", "closing", "closed"}]
  BY <1>0 DEF TypeOK
<1>1. ASSUME \A x \in Sessions : socket'[x] = "none" => socket[x] = "none",
             target' = target \/ target' = {}
      PROVE  TargetsWereMade'
  BY <1>0, <1>n, <1>1 DEF TargetsWereMade
<1>2. ASSUME NEW s \in Sessions, socket[s] # "none", target' = {s}, socket' = socket
      PROVE  TargetsWereMade'
  BY <1>2 DEF TargetsWereMade
<1>3. CASE Broadcast \/ BroadcastDone
  BY <1>1, <1>3 DEF Broadcast, BroadcastDone, session
<1>4. CASE BroadcastNext
  <2>1. \/ UNCHANGED <<socket, target>>
        \/ /\ cursor \in 1..Len(sessions) /\ sessions[cursor] \in Sessions
           /\ socket' = socket /\ target' = {sessions[cursor]}
    BY <1>0, <1>4, RoundEffect
  <2>2. cursor \in 1..Len(sessions) => socket[sessions[cursor]] # "none"
    BY <1>0, ListHasSockets
  <2> QED
    BY <1>1, <1>2, <2>1, <2>2
<1>5. CASE Write
  BY <1>0, <1>1, <1>5, WriteEffect
<1>6. CASE CloseTarget \/ CallbackClosed
  <2>1. target' = target \/ target' = {}
    BY <1>0, <1>6, ClosesEffect
  <2>2. \A x \in Sessions : socket'[x] = "none" => socket[x] = "none"
    BY <1>0, <1>n, <1>6, ClosesEffect
  <2> QED
    BY <1>1, <2>1, <2>2
<1>7. ASSUME NEW s \in Sessions, SendTo(s) PROVE TargetsWereMade'
  <2>1. /\ socket' = socket
        /\ (s \in Live /\ target' = {s}) \/ target' = target
    BY <1>0, <1>7, SendEffect
  <2>2. s \in Live => socket[s] # "none"
    BY <1>0, ListHasSockets DEF Live
  <2> QED
    BY <1>1, <1>2, <2>1, <2>2
<1>8. ASSUME NEW s \in Sessions, OnConnection(s) PROVE TargetsWereMade'
  BY <1>0, <1>n, <1>1, <1>8, ConnectionEffect
<1>9. ASSUME NEW s \in Sessions, OnSessionClose(s) PROVE TargetsWereMade'
  BY <1>0, <1>n, <1>1, <1>9, CloseEffect
<1>10. CASE ~Working
  <2>1. /\ socket' = socket
        /\ \/ target' = target
           \/ \E s \in Sessions : target' = {s} /\ socket[s] = "open"
    BY <1>10, AsideEffect DEF Matter
  <2> QED
    BY <1>1, <1>2, <2>1
<1> QED
  BY <1>3, <1>4, <1>5, <1>6, <1>7, <1>8, <1>9, <1>10 DEF Working

LEMMA ClosingStep ==
    ASSUME IInv, [Next]_vars PROVE ClosingFlagExact'
<1>0. TypeOK /\ ListedUntilClosed /\ ClosingFlagExact
  BY DEF IInv
<1>n. /\ socket \in [Sessions -> {"none", "open", "closing", "closed"}]
      /\ is_closing \in [Sessions -> BOOLEAN]
  BY <1>0 DEF TypeOK
<1>1. ASSUME NEW s \in Sessions, OnConnection(s) PROVE ClosingFlagExact'
  BY <1>0, <1>n, <1>1, ConnectionEffect DEF ClosingFlagExact
<1>2. ASSUME NEW s \in Sessions, OnSessionClose(s) PROVE ClosingFlagExact'
  BY <1>0, <1>n, <1>2, CloseEffect DEF ClosingFlagExact
<1>4. CASE CloseTarget \/ CallbackClosed
  <2>1. PICK s \in Sessions :
            /\ is_closing' = [is_closing EXCEPT ![s] = TRUE]
            /\ \/ socket' = [socket EXCEPT ![s] = "closing"]
               \/ fault' = "close"
    BY <1>0, <1>4, ClosesEffect
  <2>2. fault = "none"
    BY <1>0, <1>4, ClosesEffect
  <2> QED
    BY <1>0, <1>n, <2>1, <2>2 DEF ClosingFlagExact
<1>5. ASSUME UNCHANGED <<socket, is_closing>>, fault = "none"
      PROVE  ClosingFlagExact'
  BY <1>0, <1>5 DEF ClosingFlagExact
<1>6. CASE \/ Broadcast \/ BroadcastNext \/ Write \/ BroadcastDone
           \/ \E s \in Sessions : SendTo(s)
  BY <1>5, <1>6 DEF Broadcast, BroadcastNext, Write, BroadcastDone, SendTo,
                    session, MayCall, At
<1>7. CASE ~Working
  <2>1. UNCHANGED <<socket, is_closing>> /\ (fault # "none" => fault' = fault)
    BY <1>7, AsideEffect DEF Matter
  <2> QED
    BY <1>5, <2>1 DEF ClosingFlagExact
<1> QED
  BY <1>1, <1>2, <1>4, <1>6, <1>7 DEF Working

-----------------------------------------------------------------------------
(***************************************************************************)
(* Calls from handlers                                                     *)
(***************************************************************************)
\* Nothing runs between the steps of a call made from a handler.
LEMMA LoopWaits ==
    ASSUME LoopRuns, caller = "handler"
    PROVE  app \in {"idle", "join"} /\ cb = {} /\ fault = "none"
  BY DEF LoopRuns

LEMMA HandlerStep ==
    ASSUME IInv, [Next]_vars PROVE HandlersAreSafe' /\ HandlerHasTheLoop'
<1>0. TypeOK /\ HandlersAreSafe /\ HandlerHasTheLoop /\ ListedUntilClosed
  BY DEF IInv
<1>n. Len(sessions) \in Nat /\ cursor \in Nat /\ end \in Nat
  BY <1>0, LenProperties DEF TypeOK
<1> SUFFICES ASSUME caller' = "handler"
             PROVE  /\ fault' \in {"none", "handles"}
                    /\ fault' = "none" =>
                           /\ InWalk' => ~moved' /\ end' = Len(sessions')
                           /\ app' = "close" =>
                                  \A s \in target' : socket'[s] = "open"
                           /\ \A s \in cb' :
                                  socket'[s] = "open" /\ app' \in {"idle", "join"}
  BY DEF HandlersAreSafe, HandlerHasTheLoop
<1>1. CASE Broadcast
  BY <1>1 DEF Broadcast, MayCall, At, life, thread
<1>2. CASE BroadcastNext
  <2>1. /\ caller = "handler" /\ app = "walk" /\ fault = "none" /\ cursor <= end
        /\ cb' = {}
    BY <1>2 DEF BroadcastNext, At, life, thread
  <2>2. ~moved /\ end = Len(sessions)
    BY <1>0, <2>1 DEF HandlerHasTheLoop, InWalk
  <2>3. ~(moved \/ cursor > Len(sessions))
    BY <1>n, <2>1, <2>2
  <2>4. UNCHANGED <<fault, moved, end, sessions>> /\ app' \in {"walk", "write"}
    BY <1>2, <2>1, <2>3 DEF BroadcastNext
  <2> QED
    BY <2>1, <2>2, <2>4
<1>3. CASE BroadcastDone
  BY <1>3 DEF BroadcastDone, At, InWalk, life, thread
<1>8. CASE Write
  <2>1. /\ caller = "handler" /\ fault = "none" /\ fault' = fault
        /\ UNCHANGED <<moved, end, sessions>> /\ cb' = {}
        /\ (app = "write" /\ app' = "walk") \/ app' = "idle"
    BY <1>8, WriteEffect DEF IInv
  <2> QED
    BY <1>0, <2>1 DEF HandlerHasTheLoop, InWalk
<1>4. CASE CloseTarget
  <2>1. /\ caller = "handler" /\ app = "close" /\ fault = "none" /\ app' = "idle"
        /\ cb' = {}
    BY <1>4 DEF CloseTarget, At, life, thread
  <2>2. \A s \in target : socket[s] = "open"
    BY <1>0, <2>1 DEF HandlerHasTheLoop
  <2>3. fault' = fault
    BY <1>4, <2>2 DEF CloseTarget, Closes
  <2> QED
    BY <2>1, <2>3 DEF InWalk
<1>9. CASE CallbackClosed
  <2>1. /\ caller = "handler" /\ fault = "none" /\ app' = app /\ cb' = {}
        /\ \E s \in cb : Closes(s)
    BY <1>9 DEF CallbackClosed, life
  <2>2. app \in {"idle", "join"} /\ \A s \in cb : socket[s] = "open"
    BY <1>0, <2>1 DEF HandlerHasTheLoop
  <2>3. fault' = fault
    BY <2>1, <2>2 DEF Closes
  <2> QED
    BY <2>1, <2>2, <2>3 DEF InWalk
<1>5. ASSUME NEW s \in Sessions, SendTo(s)
      PROVE  /\ app' \in {"idle", "send"} /\ fault' = "none" /\ cb' = {}
  BY <1>0, <1>5, SendEffect
<1>6. ASSUME NEW s \in Sessions, OnConnection(s) \/ OnSessionClose(s)
      PROVE  app' \in {"idle", "join"} /\ fault' = "none" /\ cb' = {}
  <2>1. /\ LoopRuns /\ caller = "handler" /\ app' = app /\ fault' = fault
        /\ cb' = cb
    BY <1>6 DEF OnConnection, OnSessionClose, life, walk, thread
  <2> QED
    BY <2>1, LoopWaits
<1>7. CASE ~Working
  <2>1. /\ caller = "handler" /\ UNCHANGED <<sessions, socket, end, moved>>
        /\ \/ app' = app /\ target' = target
           \/ app' \in {"idle", "join", "gone"}
           \/ /\ app' = "close" /\ app = "idle"
              /\ \E s \in Sessions : target' = {s} /\ socket[s] = "open"
        /\ \/ cb' = cb /\ (cb # {} => app' = app)
           \/ /\ LoopRuns /\ UNCHANGED <<app, target, fault>>
              /\ \E s \in Sessions : cb' = {s} /\ socket[s] = "open"
        /\ fault = "none" => fault' \in {"none", "handles"}
        /\ fault # "none" => fault' = fault
    BY <1>7, AsideEffect DEF Matter
  <2>2. fault \in {"none", "handles"} /\ (fault' = "none" => fault = "none")
    BY <1>0, <2>1 DEF HandlersAreSafe
  <2>3. InWalk' => InWalk
    BY <2>1 DEF InWalk
  <2>4. ASSUME fault' = "none", NEW s \in cb'
        PROVE  socket'[s] = "open" /\ app' \in {"idle", "join"}
    <3>1. CASE cb' = cb
      BY <1>0, <2>1, <2>2, <2>4, <3>1 DEF HandlerHasTheLoop
    <3>2. CASE cb' # cb
      BY <2>1, <2>4, <3>2, LoopWaits
    <3> QED
      BY <3>1, <3>2
  <2>5. ASSUME fault' = "none", app' = "close"
        PROVE  \A s \in target' : socket'[s] = "open"
    BY <1>0, <2>1, <2>2, <2>5 DEF HandlerHasTheLoop
  <2> QED
    BY <1>0, <2>1, <2>2, <2>3, <2>4, <2>5 DEF HandlerHasTheLoop
<1> QED
  BY <1>1, <1>2, <1>3, <1>4, <1>5, <1>6, <1>7, <1>8, <1>9 DEF Working, InWalk

-----------------------------------------------------------------------------
(***************************************************************************)
(* Messages                                                                *)
(***************************************************************************)
\* Whom a step writes to, and what: nobody, one session the number of the
\* message under way, ...
LEMMA WritesOne ==
    ASSUME TypeOK, NEW s \in Sessions, NEW n \in 1..MaxSends,
           socket[s] = "open",
           out' = [out EXCEPT ![s] = Written(s, n)]
    PROVE  /\ \A x \in Sessions : x # s => out'[x] = out[x]
           /\ ToSet(out'[s]) = ToSet(out[s]) \cup {n}
           /\ IsInjective(out[s]) /\ n \notin ToSet(out[s]) => IsInjective(out'[s])
           /\ Len(out'[s]) = Len(out[s]) + 1 /\ Len(out[s]) \in Nat
           /\ \A j \in 1..Len(out[s]) : out'[s][j] = out[s][j]
           /\ out'[s][Len(out[s]) + 1] = n
<1>1. out \in [Sessions -> Seq(1..MaxSends)] /\ out[s] \in Seq(1..MaxSends)
  BY DEF TypeOK
<1>2. out'[s] = Append(out[s], n) /\ \A x \in Sessions : x # s => out'[x] = out[x]
  BY <1>1 DEF Written
<1>3. /\ ToSet(Append(out[s], n)) = ToSet(out[s]) \cup {n}
      /\ IsInjective(out[s]) /\ n \notin ToSet(out[s]) =>
             IsInjective(Append(out[s], n))
  <2>1. PICK S : S = 1..MaxSends
    OBVIOUS
  <2>2. out[s] \in Seq(S) /\ n \in S
    BY <1>1, <2>1
  <2> QED
    BY <2>2, AppendNew
<1>4. /\ Len(Append(out[s], n)) = Len(out[s]) + 1 /\ Len(out[s]) \in Nat
      /\ \A j \in 1..Len(out[s]) : Append(out[s], n)[j] = out[s][j]
      /\ Append(out[s], n)[Len(out[s]) + 1] = n
  BY <1>1, AppendElements, LenProperties
<1> QED
  BY <1>2, <1>3, <1>4

\* ... or, once the socket is closing, nobody after all.
LEMMA WritesNobody ==
    ASSUME TypeOK, NEW s \in Sessions, NEW n, socket[s] # "open",
           out' = [out EXCEPT ![s] = Written(s, n)]
    PROVE  out' = out
  BY DEF TypeOK, Written

\* The numbers in use stay below a number that is no smaller than the last.
LEMMA OldNumbers ==
    ASSUME TypeOK, OutIsNumbered, NEW m \in Nat, sends <= m
    PROVE  \A x \in Sessions : \A j \in 1..Len(out[x]) :
               out[x][j] \in Nat /\ out[x][j] <= m
<1> TAKE x \in Sessions
<1> TAKE j \in 1..Len(out[x])
<1>1. out[x] \in Seq(1..MaxSends) /\ sends \in 0..MaxSends
  BY DEF TypeOK
<1>2. out[x][j] \in 1..MaxSends
  <2>1. PICK S : S = 1..MaxSends
    OBVIOUS
  <2>2. out[x] \in Seq(S)
    BY <1>1, <2>1
  <2>3. out[x][j] \in S
    BY <2>2
  <2> QED
    BY <2>1, <2>3
<1>3. out[x][j] <= sends
  BY DEF OutIsNumbered
<1> QED
  BY <1>1, <1>2, <1>3, BoundsAreNumbers

\* A message that was never written to s keeps the order when it is.
LEMMA WriteKeepsOrder ==
    ASSUME TypeOK, OutIsNumbered,
           NEW s \in Sessions, NEW n \in 1..MaxSends,
           out' = [out EXCEPT ![s] = Written(s, n)],
           n \notin ToSet(out[s]), socket[s] # "none", socket' = socket,
           sends' \in Nat, sends <= sends', n <= sends'
    PROVE  OutIsNumbered'
<1>0. out[s] \in Seq(1..MaxSends) /\ sends \in Nat
  BY DEF TypeOK
<1>1. CASE socket[s] # "open"
  <2>1. out' = out
    BY <1>1, WritesNobody
  <2>2. \A x \in Sessions : \A j \in 1..Len(out[x]) : out[x][j] <= sends'
    BY OldNumbers
  <2> QED
    BY <2>1, <2>2 DEF OutIsNumbered
<1>2. CASE socket[s] = "open"
  <2>1. /\ \A x \in Sessions : x # s => out'[x] = out[x]
        /\ IsInjective(out'[s])
        /\ Len(out'[s]) = Len(out[s]) + 1 /\ Len(out[s]) \in Nat
        /\ \A j \in 1..Len(out[s]) : out'[s][j] = out[s][j]
        /\ out'[s][Len(out[s]) + 1] = n
    BY <1>2, WritesOne DEF OutIsNumbered
  <2>2. \A x \in Sessions : \A j \in 1..Len(out[x]) : out[x][j] <= sends'
    BY OldNumbers
  <2>3. ASSUME NEW j \in 1..Len(out'[s]) PROVE out'[s][j] <= sends'
    <3>1. j \in 1..Len(out[s]) \/ j = Len(out[s]) + 1
      BY <2>1
    <3> QED
      BY <2>1, <2>2, <3>1
  <2>4. ASSUME NEW x \in Sessions
        PROVE  /\ IsInjective(out'[x])
               /\ \A j \in 1..Len(out'[x]) : out'[x][j] <= sends'
               /\ socket'[x] = "none" => out'[x] = <<>>
    <3>1. CASE x = s
      BY <2>1, <2>3, <3>1
    <3>2. CASE x # s
      BY <2>1, <2>2, <3>2 DEF OutIsNumbered
    <3> QED
      BY <3>1, <3>2
  <2> QED
    BY <2>4 DEF OutIsNumbered
<1> QED
  BY <1>1, <1>2

\* The next number is new to everybody.
LEMMA NextIsNew ==
    ASSUME TypeOK, OutIsNumbered, NEW s \in Sessions
    PROVE  sends + 1 \notin ToSet(out[s])
<1>1. sends \in Nat /\ sends <= sends /\ out[s] \in Seq(1..MaxSends)
  BY DEF TypeOK
<1>2. \A j \in 1..Len(out[s]) : out[s][j] \in Nat /\ out[s][j] <= sends
  BY <1>1, OldNumbers
<1>3. ToSet(out[s]) = {out[s][j] : j \in 1..Len(out[s])}
  BY <1>1 DEF ToSet
<1> QED
  BY <1>1, <1>2, <1>3

LEMMA NumberedStep ==
    ASSUME IInv, [Next]_vars PROVE OutIsNumbered'
<1>0. /\ TypeOK /\ WalkGoesOn /\ TargetsWereMade /\ ListedUntilClosed
      /\ OutIsNumbered /\ NotWrittenYet
  BY DEF IInv
<1>n. /\ sends \in Nat /\ sends <= sends
      /\ socket \in [Sessions -> {"none", "open", "closing", "closed"}]
  BY <1>0 DEF TypeOK
<1>1. ASSUME out' = out, sends' \in Nat, sends <= sends',
             \A x \in Sessions : socket'[x] = "none" => socket[x] = "none"
      PROVE  OutIsNumbered'
  <2>1. \A x \in Sessions : \A j \in 1..Len(out[x]) : out[x][j] <= sends'
    BY <1>0, <1>1, OldNumbers
  <2> QED
    BY <1>0, <1>1, <2>1 DEF OutIsNumbered
<1>2. CASE Broadcast
  <2>1. out' = out /\ sends' = sends + 1 /\ socket' = socket
    BY <1>2 DEF Broadcast, session
  <2> QED
    BY <1>n, <1>1, <2>1
<1>3. CASE BroadcastNext
  BY <1>0, <1>n, <1>1, <1>3, RoundEffect
<1>4. ASSUME NEW s \in Sessions, SendTo(s) PROVE OutIsNumbered'
  <2>1. out' = out /\ sends' = sends + 1 /\ socket' = socket
    BY <1>0, <1>4, SendEffect
  <2> QED
    BY <1>n, <1>1, <2>1
<1>8. CASE Write
  <2>1. /\ UNCHANGED <<socket, sends>> /\ sends \in 1..MaxSends
        /\ app \in {"write", "send"}
    BY <1>0, <1>8, WriteEffect
  <2>2. PICK s \in Sessions :
            s \in target /\ out' = [out EXCEPT ![s] = Written(s, sends)]
    BY <1>0, <1>8, WriteEffect
  <2>3. sends \notin ToSet(out[s])
    BY <1>0, <2>1, <2>2 DEF NotWrittenYet
  <2>4. socket[s] # "none"
    BY <1>0, <2>2 DEF TargetsWereMade
  <2>5. sends' \in Nat /\ sends <= sends'
    BY <1>n, <2>1
  <2> QED
    BY <1>0, <2>1, <2>2, <2>3, <2>4, <2>5, WriteKeepsOrder
<1>5. CASE BroadcastDone \/ CloseTarget \/ CallbackClosed
  <2>1. out' = out /\ sends' = sends
    BY <1>5 DEF BroadcastDone, CloseTarget, CallbackClosed, message
  <2>2. CASE BroadcastDone
    BY <1>n, <1>1, <2>1, <2>2 DEF BroadcastDone, session
  <2>3. CASE CloseTarget \/ CallbackClosed
    <3>1. \A x \in Sessions : socket'[x] = "none" => socket[x] = "none"
      BY <1>0, <1>n, <2>3, ClosesEffect
    <3> QED
      BY <1>n, <1>1, <2>1, <3>1
  <2> QED
    BY <1>5, <2>2, <2>3
<1>6. ASSUME NEW s \in Sessions, OnConnection(s) \/ OnSessionClose(s)
      PROVE  OutIsNumbered'
  <2>1. out' = out /\ sends' = sends
    BY <1>6 DEF OnConnection, OnSessionClose, message
  <2>2. \A x \in Sessions : socket'[x] = "none" => socket[x] = "none"
    BY <1>n, <1>6 DEF OnConnection, OnSessionClose
  <2> QED
    BY <1>n, <1>1, <2>1, <2>2
<1>7. CASE ~Working
  BY <1>n, <1>1, <1>7, AsideEffect DEF Matter, message
<1> QED
  BY <1>2, <1>3, <1>4, <1>5, <1>6, <1>7, <1>8 DEF Working

\* The two halves of NotWrittenYet: of the rest of the walk, ...
NotYetWalked ==
    InWalk => \A i \in 1..Len(sessions) :
                  i >= cursor => /\ sends \notin ToSet(out[sessions[i]])
                                 /\ app = "write" => sessions[i] \notin target

\* ... and of the session that was checked.
NotYetTarget ==
    app \in {"write", "send"} => \A s \in target : sends \notin ToSet(out[s])

LEMMA NotYetParts ==
    /\ NotWrittenYet <=> NotYetWalked /\ NotYetTarget
    /\ NotYetWalked' /\ NotYetTarget' => NotWrittenYet'
  BY DEF NotWrittenYet, NotYetWalked, NotYetTarget

LEMMA NotYetStep ==
    ASSUME IInv, [Next]_vars PROVE NotWrittenYet'
<1>0. /\ TypeOK /\ WalkGoesOn /\ TargetsWereMade /\ ListedUntilClosed
      /\ OutIsNumbered /\ NotYetWalked /\ NotYetTarget
  BY NotYetParts DEF IInv
<1>n. /\ sessions \in Seq(Sessions) /\ Len(sessions) \in Nat /\ cursor \in Nat
      /\ \A i \in 1..Len(sessions) : sessions[i] \in Sessions
      /\ \A a, b \in 1..Len(sessions) : sessions[a] = sessions[b] => a = b
      /\ target \subseteq Sessions
  <2>1. sessions \in Seq(Sessions) /\ IsInjective(sessions)
    BY <1>0, ListedParts DEF TypeOK
  <2> QED
    BY <1>0, <2>1, SetOfSeq DEF TypeOK
<1> SUFFICES NotYetWalked' /\ NotYetTarget'
  BY NotYetParts
<1>1. CASE Broadcast
  <2>1. sends' = sends + 1 /\ app' = "walk" /\ UNCHANGED <<sessions, out>>
    BY <1>1 DEF Broadcast
  <2> QED
    BY <1>0, <1>n, <2>1, NextIsNew DEF NotYetWalked, NotYetTarget
<1>2. CASE BroadcastNext
  <2>1. /\ app = "walk" /\ UNCHANGED <<sessions, out, sends>>
        /\ \/ UNCHANGED <<cursor, app, target>>
           \/ /\ cursor \in 1..Len(sessions) /\ cursor' = cursor + 1
              /\ \/ UNCHANGED <<app, target>>
                 \/ app' = "write" /\ target' = {sessions[cursor]}
    BY <1>0, <1>2, RoundEffect
  <2>2. \A i \in 1..Len(sessions) :
            i >= cursor => sends \notin ToSet(out[sessions[i]])
    BY <1>0, <2>1 DEF NotYetWalked, InWalk
  <2>3. CASE UNCHANGED <<cursor, app, target>>
    BY <2>1, <2>2, <2>3 DEF NotYetWalked, NotYetTarget
  <2>4. CASE /\ cursor \in 1..Len(sessions) /\ cursor' = cursor + 1
             /\ UNCHANGED <<app, target>>
    <3>1. \A i \in 1..Len(sessions) : i >= cursor + 1 => i >= cursor
      BY <1>n
    <3> QED
      BY <2>1, <2>2, <2>4, <3>1 DEF NotYetWalked, NotYetTarget
  <2>5. CASE /\ cursor \in 1..Len(sessions) /\ cursor' = cursor + 1
             /\ app' = "write" /\ target' = {sessions[cursor]}
    <3>1. \A i \in 1..Len(sessions) : i >= cursor + 1 => i >= cursor /\ i # cursor
      BY <1>n
    <3>2. NotYetWalked'
      BY <1>n, <2>1, <2>2, <2>5, <3>1 DEF NotYetWalked
    <3>3. cursor >= cursor
      BY <1>n
    <3>4. NotYetTarget'
      BY <2>1, <2>2, <2>5, <3>3 DEF NotYetTarget
    <3> QED
      BY <3>2, <3>4
  <2> QED
    BY <2>1, <2>3, <2>4, <2>5
<1>8. CASE Write
  <2>1. /\ UNCHANGED <<sessions, cursor, sends>>
        /\ (app = "write" /\ app' = "walk") \/ app' = "idle"
    BY <1>0, <1>8, WriteEffect
  <2>2. PICK s \in Sessions :
            s \in target /\ out' = [out EXCEPT ![s] = Written(s, sends)]
    BY <1>0, <1>8, WriteEffect
  <2>3. ASSUME app = "write", NEW i \in 1..Len(sessions), i >= cursor
        PROVE  sends \notin ToSet(out'[sessions[i]])
    <3>1. sends \notin ToSet(out[sessions[i]]) /\ sessions[i] \notin target
      BY <1>0, <2>3 DEF NotYetWalked, InWalk
    <3>2. out'[sessions[i]] = out[sessions[i]]
      BY <1>0, <1>n, <2>2, <3>1 DEF TypeOK
    <3> QED
      BY <3>1, <3>2
  <2> QED
    BY <2>1, <2>3 DEF NotYetWalked, NotYetTarget, InWalk
<1>3. ASSUME NEW s \in Sessions, SendTo(s) PROVE NotYetWalked' /\ NotYetTarget'
  <2>1. /\ sends' = sends + 1 /\ out' = out
        /\ (app' = "send" /\ target' = {s}) \/ app' = "idle"
    BY <1>0, <1>3, SendEffect
  <2>2. sends' \notin ToSet(out[s])
    BY <1>0, <2>1, NextIsNew
  <2> QED
    BY <2>1, <2>2 DEF NotYetWalked, NotYetTarget, InWalk
<1>9. CASE BroadcastDone
  BY <1>9 DEF BroadcastDone, NotYetWalked, NotYetTarget, InWalk
<1>4. ASSUME NEW s \in Sessions, OnConnection(s)
      PROVE  NotYetWalked' /\ NotYetTarget'
  <2>1. /\ socket[s] = "none" /\ sessions' = Append(sessions, s)
        /\ UNCHANGED <<out, sends, app, cursor, target>>
    BY <1>0, <1>4, ConnectionEffect DEF message
  <2>2. /\ Len(sessions') = Len(sessions) + 1
        /\ \A i \in 1..Len(sessions) : sessions'[i] = sessions[i]
        /\ sessions'[Len(sessions) + 1] = s
    BY <1>n, <2>1, AppendElements
  <2>3. sends \notin ToSet(out[s]) /\ s \notin target
    <3>1. out[s] = <<>>
      BY <1>0, <2>1 DEF OutIsNumbered
    <3> QED
      BY <1>0, <2>1, <3>1 DEF ToSet, TargetsWereMade
  <2>4. ASSUME NEW i \in 1..Len(sessions'), InWalk, i >= cursor
        PROVE  /\ sends \notin ToSet(out[sessions'[i]])
               /\ app = "write" => sessions'[i] \notin target
    <3>1. i \in 1..Len(sessions) \/ i = Len(sessions) + 1
      BY <1>n, <2>2
    <3> QED
      BY <1>0, <2>2, <2>3, <2>4, <3>1 DEF NotYetWalked
  <2>5. InWalk' = InWalk
    BY <2>1 DEF InWalk
  <2>6. NotYetWalked'
    BY <2>1, <2>4, <2>5 DEF NotYetWalked
  <2> QED
    BY <1>0, <2>1, <2>6 DEF NotYetTarget
<1>5. CASE CloseTarget \/ CallbackClosed
  <2>1. /\ UNCHANGED <<sessions, out, sends, cursor>>
        /\ app' = "idle" \/ UNCHANGED <<app, target>>
    BY <1>0, <1>5, ClosesEffect DEF message
  <2> QED
    BY <1>0, <2>1 DEF NotYetWalked, NotYetTarget, InWalk
<1>6. ASSUME NEW s \in Sessions, OnSessionClose(s)
      PROVE  NotYetWalked' /\ NotYetTarget'
  <2>1. /\ UNCHANGED <<out, sends, app, cursor, target>>
        /\ \A i \in 1..Len(sessions') : \E j \in 1..Len(sessions) :
               j >= i /\ sessions'[i] = sessions[j]
        /\ sessions' \in Seq(Sessions)
    BY <1>0, <1>6, CloseEffect, SessionTypesStep DEF message, SessionTypes
  <2>2. ASSUME NEW i \in 1..Len(sessions'), InWalk, i >= cursor
        PROVE  /\ sends \notin ToSet(out[sessions'[i]])
               /\ app = "write" => sessions'[i] \notin target
    <3>1. PICK j \in 1..Len(sessions) : j >= i /\ sessions'[i] = sessions[j]
      BY <2>1
    <3>2. j >= cursor
      BY <1>n, <2>1, <2>2, <3>1, LenProperties
    <3> QED
      BY <1>0, <2>2, <3>1, <3>2 DEF NotYetWalked
  <2>3. InWalk' = InWalk
    BY <2>1 DEF InWalk
  <2>4. NotYetWalked'
    BY <2>1, <2>2, <2>3 DEF NotYetWalked
  <2> QED
    BY <1>0, <2>1, <2>4 DEF NotYetTarget
<1>7. CASE ~Working
  <2>1. /\ UNCHANGED <<sessions, out, sends, cursor>>
        /\ app' \notin {"walk", "write", "send"} \/ UNCHANGED <<app, target>>
    BY <1>7, AsideEffect DEF Matter, message
  <2> QED
    BY <1>0, <2>1 DEF NotYetWalked, NotYetTarget, InWalk
<1> QED
  BY <1>1, <1>2, <1>3, <1>4, <1>5, <1>6, <1>7, <1>8, <1>9 DEF Working

-----------------------------------------------------------------------------
(***************************************************************************)
(* Who is reached                                                          *)
(***************************************************************************)
\* The case of AudienceInSight for one session of the audience.
InSight(s) ==
    \/ is_closing[s] \/ sends \in ToSet(out[s])
    \/ app \in {"write", "send"} /\ s \in target
    \/ InWalk /\ \E i \in cursor..end : sessions[i] = s

LEMMA InSightParts ==
    /\ AudienceInSight <=>
           (fault = "none" /\ ~shrunk =>
                /\ InWalk => end <= Len(sessions)
                /\ \A s \in audience : InSight(s))
    /\ AudienceInSight' <=>
           (fault' = "none" /\ ~shrunk' =>
                /\ InWalk' => end' <= Len(sessions')
                /\ \A s \in audience' : InSight(s)')
  BY DEF AudienceInSight, InSight

LEMMA AudienceStep ==
    ASSUME IInv, [Next]_vars PROVE AudienceInSight'
<1>0. /\ TypeOK /\ WalkGoesOn /\ TargetsWereMade /\ ListedUntilClosed
      /\ ClosingFlagExact /\ AudienceInSight
  BY DEF IInv
<1>n. /\ sessions \in Seq(Sessions) /\ Len(sessions) \in Nat
      /\ ToSet(sessions) = {sessions[i] : i \in 1..Len(sessions)}
      /\ audience \subseteq Sessions
      /\ cursor \in Nat /\ end \in Nat /\ cursor >= 1
      /\ is_closing \in [Sessions -> BOOLEAN]
  BY <1>0, SetOfSeq, LenProperties DEF TypeOK, WalkGoesOn
<1> SUFFICES ASSUME fault' = "none", ~shrunk'
             PROVE  /\ InWalk' => end' <= Len(sessions')
                    /\ \A s \in audience' : InSight(s)'
  BY InSightParts
<1>s. ASSUME fault = "none", ~shrunk
      PROVE  /\ InWalk => end <= Len(sessions)
             /\ \A s \in audience : InSight(s)
  BY <1>0, <1>s, InSightParts
<1>1. CASE Broadcast
  <2>1. /\ audience' = Live /\ app' = "walk" /\ cursor' = 1
        /\ end' = Len(sessions) /\ sessions' = sessions
    BY <1>1 DEF Broadcast
  <2>2. ASSUME NEW s \in Live PROVE \E i \in 1..Len(sessions) : sessions[i] = s
    BY <1>n DEF Live
  <2> QED
    BY <1>n, <2>1, <2>2 DEF InSight, InWalk
<1>2. CASE BroadcastNext
  <2>1. /\ fault = "none" /\ app = "walk" /\ cursor <= end
        /\ UNCHANGED <<sessions, is_closing, end, shrunk, out, audience, sends>>
        /\ cursor \in 1..Len(sessions) /\ cursor' = cursor + 1
        /\ \/ is_closing[sessions[cursor]] /\ UNCHANGED <<app, target>>
           \/ app' = "write" /\ target' = {sessions[cursor]}
    BY <1>0, <1>2, RoundEffect
  <2>2. end <= Len(sessions) /\ \A s \in audience : InSight(s)
    BY <1>s, <2>1 DEF InWalk
  <2>3. InWalk'
    BY <2>1 DEF InWalk
  <2>5. ASSUME NEW s \in audience PROVE InSight(s)'
    <3>1. \/ is_closing[s] \/ sends \in ToSet(out[s])
          \/ \E i \in cursor..end : sessions[i] = s
      BY <2>1, <2>2 DEF InSight
    <3>3. CASE is_closing[s]
      BY <2>1, <3>3 DEF InSight
    <3>4. CASE sends \in ToSet(out[s])
      BY <2>1, <3>4 DEF InSight, ToSet
    <3>5. ASSUME NEW i \in cursor..end, sessions[i] = s PROVE InSight(s)'
      <4>1. CASE i = cursor
        BY <2>1, <3>5, <4>1 DEF InSight
      <4>2. CASE i # cursor
        <5>1. i \in (cursor + 1)..end
          BY <1>n, <4>2
        <5>2. i \in cursor'..end' /\ sessions'[i] = s
          BY <2>1, <3>5, <5>1
        <5> QED
          BY <2>3, <5>2 DEF InSight
      <4> QED
        BY <4>1, <4>2
    <3> QED
      BY <3>1, <3>3, <3>4, <3>5
  <2> QED
    BY <2>1, <2>2, <2>5
<1>11. CASE Write
  <2>1. /\ fault = "none" /\ app \in {"write", "send"}
        /\ app = "write" => app' = "walk"
        /\ app = "send" => app' = "idle"
        /\ UNCHANGED <<sessions, is_closing, cursor, end, shrunk, audience, sends>>
        /\ sends \in 1..MaxSends
    BY <1>0, <1>11, WriteEffect
  <2>2. PICK c \in Sessions :
            c \in target /\ out' = [out EXCEPT ![c] = Written(c, sends)]
    BY <1>0, <1>11, WriteEffect
  <2>3. InWalk' = InWalk
    BY <2>1 DEF InWalk
  <2>4. /\ InWalk => end <= Len(sessions)
        /\ \A s \in audience : InSight(s)
    BY <1>s, <2>1
  <2>5. /\ is_closing[c] \/ sends \in ToSet(out'[c])
        /\ \A x \in Sessions : sends \in ToSet(out[x]) => sends \in ToSet(out'[x])
    <3>1. CASE socket[c] # "open"
      <4>1. socket[c] \in {"closing", "closed"}
        BY <1>0, <2>2, <3>1 DEF TypeOK, TargetsWereMade
      <4>2. is_closing[c]
        BY <1>0, <2>1, <4>1 DEF ClosingFlagExact
      <4>3. out' = out
        BY <1>0, <2>2, <3>1, WritesNobody
      <4> QED
        BY <4>2, <4>3
    <3>2. CASE socket[c] = "open"
      <4>1. /\ \A x \in Sessions : x # c => out'[x] = out[x]
            /\ ToSet(out'[c]) = ToSet(out[c]) \cup {sends}
        BY <1>0, <2>1, <2>2, <3>2, WritesOne
      <4> QED
        BY <4>1
    <3> QED
      BY <3>1, <3>2
  <2>6. ASSUME NEW s \in audience PROVE InSight(s)'
    <3>1. /\ s \in Sessions
          /\ \/ is_closing[s] \/ sends \in ToSet(out[s]) \/ s = c
             \/ InWalk /\ \E i \in cursor..end : sessions[i] = s
      BY <1>0, <1>n, <2>2, <2>4 DEF InSight, TargetsWereMade
    <3>2. CASE is_closing[s]
      BY <2>1, <3>2 DEF InSight
    <3>3. CASE sends \in ToSet(out[s]) \/ s = c
      <4>1. is_closing[s] \/ sends \in ToSet(out'[s])
        BY <2>5, <3>1, <3>3
      <4>2. sends' = sends /\ is_closing' = is_closing
        BY <2>1
      <4> QED
        BY <4>1, <4>2 DEF InSight, ToSet
    <3>4. CASE InWalk /\ \E i \in cursor..end : sessions[i] = s
      BY <2>1, <2>3, <3>4 DEF InSight
    <3> QED
      BY <3>1, <3>2, <3>3, <3>4
  <2> QED
    BY <2>1, <2>3, <2>4, <2>6
<1>3. CASE BroadcastDone
  <2>1. /\ fault = "none" /\ app = "walk" /\ cursor > end /\ app' = "idle"
        /\ UNCHANGED <<shrunk, audience, is_closing, sends, out>>
    BY <1>3 DEF BroadcastDone, At, session, message
  <2>2. \A s \in audience : InSight(s)
    BY <1>s, <2>1
  <2>3. \A i \in cursor..end : FALSE
    BY <1>n, <2>1
  <2>4. \A s \in audience : is_closing[s] \/ sends \in ToSet(out[s])
    BY <2>1, <2>2, <2>3 DEF InSight
  <2>5. \A s \in audience' : InSight(s)'
    BY <2>1, <2>4 DEF InSight, ToSet
  <2> QED
    BY <2>1, <2>5 DEF InWalk
<1>4. ASSUME fault = "none", ~shrunk,
             UNCHANGED <<audience, sends, out, cursor, end>>,
             \/ UNCHANGED <<app, target>>
             \/ app \notin {"walk", "write", "send"} /\ app' \notin {"walk", "write", "send"},
             InWalk => /\ Len(sessions') >= Len(sessions)
                       /\ \A i \in 1..Len(sessions) : sessions'[i] = sessions[i],
             \A x \in Sessions : is_closing[x] => is_closing'[x]
      PROVE  /\ InWalk' => end' <= Len(sessions')
             /\ \A s \in audience' : InSight(s)'
  <2>1. /\ InWalk => end <= Len(sessions)
        /\ \A s \in audience : InSight(s)
        /\ InWalk' = InWalk
    BY <1>4, <1>s DEF InWalk
  <2>2. ASSUME InWalk' PROVE end' <= Len(sessions')
    <3>1. end <= Len(sessions) /\ Len(sessions) <= Len(sessions') /\ end' = end
      BY <1>4, <2>1, <2>2
    <3>3. sessions' \in Seq(Sessions)
      BY <1>0, SessionTypesStep DEF SessionTypes
    <3> QED
      BY <1>n, <3>1, <3>3, LenProperties
  <2>3. ASSUME NEW s \in audience PROVE InSight(s)'
    <3>1. InSight(s) /\ s \in Sessions
      BY <1>n, <2>1
    <3>2. CASE is_closing[s]
      BY <1>4, <3>1, <3>2 DEF InSight
    <3>3. CASE sends \in ToSet(out[s])
      BY <1>4, <3>3 DEF InSight, ToSet
    <3>5. CASE app \in {"write", "send"} /\ s \in target
      BY <1>4, <3>5 DEF InSight
    <3>4. ASSUME InWalk, NEW i \in cursor..end, sessions[i] = s
          PROVE  InSight(s)'
      <4>1. i \in 1..Len(sessions)
        BY <1>n, <2>1, <3>4
      <4>2. InWalk' /\ i \in cursor'..end' /\ sessions'[i] = s
        BY <1>4, <2>1, <3>4, <4>1
      <4> QED
        BY <4>2 DEF InSight
    <3> QED
      BY <3>1, <3>2, <3>3, <3>4, <3>5 DEF InSight
  <2> QED
    BY <1>4, <2>2, <2>3
<1>5. CASE CloseTarget \/ CallbackClosed
  <2>1. /\ fault = "none"
        /\ \/ UNCHANGED <<app, target>>
           \/ app = "close" /\ app' = "idle"
        /\ UNCHANGED <<shrunk, audience, sends, out, cursor, end, sessions>>
    BY <1>0, <1>5, ClosesEffect DEF message
  <2>2. \A x \in Sessions : is_closing[x] => is_closing'[x]
    BY <1>0, <1>n, <1>5, ClosesEffect
  <2>3. Len(sessions') >= Len(sessions)
    BY <1>n, <2>1
  <2> QED
    BY <1>4, <2>1, <2>2, <2>3
<1>6. ASSUME NEW s \in Sessions, SendTo(s)
      PROVE  /\ InWalk' => end' <= Len(sessions')
             /\ \A x \in audience' : InSight(x)'
  <2>1. /\ audience' = Live \cap {s}
        /\ \/ s \in Live /\ app' = "send" /\ target' = {s}
           \/ s \notin Live /\ app' = "idle"
    BY <1>0, <1>6, SendEffect
  <2>2. ~InWalk'
    BY <2>1 DEF InWalk
  <2>3. ASSUME NEW x \in audience' PROVE InSight(x)'
    <3>1. x = s /\ s \in Live
      BY <2>1, <2>3
    <3>2. app' \in {"write", "send"} /\ x \in target'
      BY <2>1, <3>1
    <3> QED
      BY <3>2 DEF InSight
  <2> QED
    BY <2>2, <2>3
<1>7. ASSUME NEW s \in Sessions, OnConnection(s)
      PROVE  /\ InWalk' => end' <= Len(sessions')
             /\ \A x \in audience' : InSight(x)'
  <2>1. /\ fault = "none" /\ sessions' = Append(sessions, s)
        /\ UNCHANGED <<shrunk, audience, sends, out, app, cursor, end, target,
                       is_closing>>
    BY <1>0, <1>7, ConnectionEffect DEF message
  <2>2. /\ Len(sessions') = Len(sessions) + 1
        /\ \A i \in 1..Len(sessions) : sessions'[i] = sessions[i]
    BY <1>n, <2>1, AppendElements
  <2>3. Len(sessions') >= Len(sessions)
    BY <1>n, <2>2
  <2> QED
    BY <1>4, <2>1, <2>2, <2>3
<1>9. ASSUME NEW s \in Sessions, OnSessionClose(s)
      PROVE  /\ InWalk' => end' <= Len(sessions')
             /\ \A x \in audience' : InSight(x)'
  <2>1. /\ fault = "none"
        /\ UNCHANGED <<audience, sends, out, app, cursor, end, target, is_closing>>
        /\ \/ shrunk' = (shrunk \/ InWalk)
           \/ UNCHANGED <<sessions, shrunk>>
    BY <1>0, <1>9, CloseEffect DEF message
  <2>2. ~shrunk /\ (~InWalk \/ sessions' = sessions)
    <3>1. CASE shrunk' = (shrunk \/ InWalk)
      BY <3>1, Zenon
    <3>2. CASE UNCHANGED <<sessions, shrunk>>
      <4>1. sessions' = sessions /\ shrunk' = shrunk
        BY <3>2
      <4> QED
        BY <4>1, Zenon
    <3> QED
      BY <2>1, <3>1, <3>2
  <2>3. InWalk => /\ Len(sessions') >= Len(sessions)
                  /\ \A i \in 1..Len(sessions) : sessions'[i] = sessions[i]
    BY <1>n, <2>2
  <2> QED
    BY <1>4, <2>1, <2>2, <2>3
<1>10. CASE ~Working
  <2>1. /\ UNCHANGED <<shrunk, audience, sends, out, cursor, end, sessions,
                       is_closing>>
        /\ \/ UNCHANGED <<app, target>>
           \/ app \notin {"walk", "write", "send"} /\ app' \notin {"walk", "write", "send"}
        /\ fault = "none"
    BY <1>10, AsideEffect DEF Matter, message
  <2>2. Len(sessions') >= Len(sessions)
    BY <1>n, <2>1
  <2> QED
    BY <1>4, <2>1, <2>2
<1> QED
  BY <1>1, <1>2, <1>3, <1>5, <1>6, <1>7, <1>9, <1>10, <1>11 DEF Working

-----------------------------------------------------------------------------
(***************************************************************************)
(* The theorems                                                            *)
(***************************************************************************)
LEMMA InvInit == Init => IInv
<1> SUFFICES ASSUME Init PROVE IInv
  OBVIOUS
<1>1. PlaceTypes
  <2>1. 0 \in 0..MaxStarts
    BY BoundsAreNumbers
  <2> QED
    BY <2>1 DEF Init, PlaceTypes
<1>2. SessionTypes
  BY EmptySeq DEF Init, SessionTypes
<1>3. WalkTypes
  BY DEF Init, WalkTypes
<1>4. MessageTypes
  <2>1. 0 \in 0..MaxSends
    BY BoundsAreNumbers
  <2>2. PICK S : S = 1..MaxSends
    OBVIOUS
  <2>3. <<>> \in Seq(S)
    BY EmptySeq
  <2> QED
    BY <2>1, <2>2, <2>3 DEF Init, MessageTypes
<1>5. TypeOK
  BY <1>1, <1>2, <1>3, <1>4, TypeWhole
<1>6. WalkGoesOn /\ TargetsWereMade
  BY DEF Init, WalkGoesOn, TargetsWereMade
<1>7. ListedUntilClosed
  BY DEF Init, ListedUntilClosed, ToSet, IsInjective
<1>8. ClosingFlagExact /\ HandlersAreSafe /\ HandlerHasTheLoop
  BY DEF Init, ClosingFlagExact, HandlersAreSafe, HandlerHasTheLoop, InWalk
<1>9. OutIsNumbered
  <2>1. \A s \in Sessions : out[s] = <<>>
    BY DEF Init
  <2>2. /\ IsInjective(<<>>) /\ \A j \in 1..Len(<<>>) : FALSE
    BY DEF IsInjective
  <2> QED
    BY <2>1, <2>2 DEF OutIsNumbered
<1>10. NotWrittenYet
  BY DEF Init, NotWrittenYet, InWalk
<1>11. AudienceInSight
  BY DEF Init, AudienceInSight, InWalk
<1> QED
  BY <1>5, <1>6, <1>7, <1>8, <1>9, <1>10, <1>11 DEF IInv

LEMMA Invariance == Spec => []IInv
<1>1. IInv /\ [Next]_vars => IInv'
  BY TypeStep, TargetStep, ListedStep, ClosingStep, HandlerStep, NumberedStep, NotYetStep,
     AudienceStep DEF IInv
<1> QED
  BY InvInit, <1>1, PTL DEF Spec

\* The fields of the server and of its sessions, whatever is called when.
THEOREM TypeCorrect == Spec => []TypeOK
<1>1. IInv => TypeOK
  BY DEF IInv
<1> QED
  BY Invariance, <1>1, PTL

\* on_connection() and the close handler keep sessions_: a session is on it,
\* once, from its first callback to the report of its close.
THEOREM ListIsExact == Spec => []ListedUntilClosed
<1>1. IInv => ListedUntilClosed
  BY DEF IInv
<1> QED
  BY Invariance, <1>1, PTL

\* is_closing_ agrees with the socket in every state of a process that lives.
THEOREM ClosingFlagIsExact == Spec => []ClosingFlagExact
<1>1. IInv => ClosingFlagExact
  BY DEF IInv
<1> QED
  BY Invariance, <1>1, PTL

\* broadcast() and send_to(): whoever was on the list and is open has the
\* message, once, unless the list shrank under the walk.
THEOREM AudienceIsReached == Spec => []AudienceReached
<1>1. IInv => AudienceReached
  <2> SUFFICES ASSUME IInv PROVE AudienceReached
    OBVIOUS
  <2>1. \A s \in Sessions : IsInjective(out[s])
    BY DEF IInv, OutIsNumbered
  <2>2. At("idle") /\ ~shrunk =>
            \A s \in audience : ~is_closing[s] => sends \in ToSet(out[s])
    BY DEF IInv, AudienceInSight, At, InWalk
  <2> QED
    BY <2>1, <2>2 DEF AudienceReached
<1> QED
  BY Invariance, <1>1, PTL

\* Calls made on the loop thread never find the list or a socket changed
\* between two of their steps.
THEOREM HandlersMeetNoRace == Spec => []HandlersAreSafe
<1>1. IInv => HandlersAreSafe
  BY DEF IInv
<1> QED
  BY Invariance, <1>1, PTL

\* The list and the reports are those of the abstract registry.
THEOREM ServerImplementsRegistry == Spec => ImplementsRegistry
<1>1. Init => Registry!Init
  BY DEF Init, Registry!Init, Reported, ToSet
<1>2. IInv /\ [Next]_vars => [Registry!Next]_(Registry!vars)
  <2> SUFFICES ASSUME IInv, [Next]_vars PROVE [Registry!Next]_(Registry!vars)
    OBVIOUS
  <2>0. /\ TypeOK /\ ListedUntilClosed
        /\ reported \in [Sessions -> Nat]
        /\ \A x \in Sessions : Listed(x) /\ ReportCount(x)
    BY ListedParts DEF IInv, TypeOK
  <2>1. ASSUME UNCHANGED <<sessions, reported>>
        PROVE  UNCHANGED Registry!vars
    BY <2>1 DEF Registry!vars, Reported, ToSet
  <2>2. ASSUME NEW s \in Sessions, OnConnection(s) PROVE Registry!Join
    <3>1. /\ socket[s] = "none" /\ s \notin ToSet(sessions)
          /\ ToSet(sessions)' = ToSet(sessions) \cup {s}
          /\ reported' = reported
      BY <2>0, <2>2, ConnectionEffect
    <3>2. s \notin Reported /\ Reported' = Reported
      BY <2>0, <3>1 DEF ReportCount, Reported
    <3> QED
      BY <3>1, <3>2 DEF Registry!Join
  <2>3. ASSUME NEW s \in Sessions, OnSessionClose(s)
        PROVE  Registry!Leave \/ UNCHANGED Registry!vars
    <3>1. CASE UNCHANGED <<sessions, reported>>
      BY <2>1, <3>1
    <3>2. CASE ~UNCHANGED <<sessions, reported>>
      <4>1. /\ s \in ToSet(sessions)
            /\ ToSet(sessions)' = ToSet(sessions) \ {s}
            /\ reported' = [reported EXCEPT ![s] = reported[s] + 1]
        BY <2>0, <2>3, <3>2, CloseEffect
      <4>2. Reported' = Reported \cup {s}
        BY <2>0, <4>1 DEF Reported
      <4> QED
        BY <4>1, <4>2 DEF Registry!Leave
    <3> QED
      BY <3>1, <3>2
  <2>4. CASE Broadcast \/ BroadcastNext \/ Write \/ BroadcastDone
    BY <2>1, <2>4 DEF Broadcast, BroadcastNext, Write, BroadcastDone, session
  <2>7. CASE CloseTarget \/ CallbackClosed
    BY <2>0, <2>1, <2>7, ClosesEffect
  <2>5. ASSUME NEW s \in Sessions, SendTo(s)
        PROVE  UNCHANGED Registry!vars
    BY <2>1, <2>5 DEF SendTo, session
  <2>6. CASE ~Working
    BY <2>1, <2>6, AsideEffect DEF Matter
  <2> QED
    BY <2>2, <2>3, <2>4, <2>5, <2>6, <2>7 DEF Working, Registry!Next
<1> QED
  BY Invariance, <1>1, <1>2, PTL DEF Spec, ImplementsRegistry, Registry!Spec
-----------------------------------------------------------------------------
(***************************************************************************)
(* What a step writes, and to whom                                         *)
(***************************************************************************)
\* A step writes nothing, or the message under way to one session that is open
\* and did not have it.
LEMMA WritingStep ==
    ASSUME IInv, [Next]_vars, out' # out
    PROVE  \E s \in Sessions, n \in 1..MaxSends :
               /\ socket[s] = "open" /\ n \notin ToSet(out[s]) /\ sends <= n
               /\ out' = [out EXCEPT ![s] = Written(s, n)]
<1>0. TypeOK /\ WalkGoesOn /\ NotWrittenYet /\ sends \in Nat
  BY DEF IInv, TypeOK
<1>1. CASE Write
  <2>1. app \in {"write", "send"} /\ sends \in 1..MaxSends
    BY <1>0, <1>1, WriteEffect
  <2>2. PICK s \in Sessions :
            s \in target /\ out' = [out EXCEPT ![s] = Written(s, sends)]
    BY <1>0, <1>1, WriteEffect
  <2>3. sends \notin ToSet(out[s]) /\ sends <= sends
    BY <1>0, <2>1, <2>2 DEF NotWrittenYet
  <2>4. socket[s] = "open"
    BY <1>0, <2>2, WritesNobody
  <2> QED
    BY <2>1, <2>2, <2>3, <2>4
<1>2. CASE Broadcast \/ BroadcastDone \/ BroadcastNext
  BY <1>2 DEF Broadcast, BroadcastDone, BroadcastNext, message
<1>3. CASE CloseTarget \/ CallbackClosed
  BY <1>3 DEF CloseTarget, CallbackClosed, message
<1>4. ASSUME NEW s \in Sessions, SendTo(s) \/ OnConnection(s) \/ OnSessionClose(s)
      PROVE  FALSE
  BY <1>4 DEF SendTo, OnConnection, OnSessionClose, message
<1>5. Working
  BY AsideEffect DEF Matter, message
<1> QED
  BY <1>1, <1>2, <1>3, <1>4, <1>5 DEF Working

\* A session is written the messages in the order they were sent.
WrittenInOrder ==
    \A s \in Sessions : \A i, j \in 1..Len(out[s]) :
        i < j => out[s][i] < out[s][j]

LEMMA InOrderStep ==
    ASSUME IInv, WrittenInOrder, [Next]_vars PROVE WrittenInOrder'
<1>0. /\ TypeOK /\ OutIsNumbered /\ sends \in Nat
      /\ out \in [Sessions -> Seq(1..MaxSends)]
  BY DEF IInv, TypeOK
<1>1. CASE out' = out
  BY <1>1 DEF WrittenInOrder
<1>2. CASE out' # out
  <2>1. PICK s \in Sessions, n \in 1..MaxSends :
            /\ socket[s] = "open" /\ n \notin ToSet(out[s]) /\ sends <= n
            /\ out' = [out EXCEPT ![s] = Written(s, n)]
    BY <1>2, WritingStep
  <2>2. /\ \A x \in Sessions : x # s => out'[x] = out[x]
        /\ Len(out'[s]) = Len(out[s]) + 1 /\ Len(out[s]) \in Nat
        /\ \A j \in 1..Len(out[s]) : out'[s][j] = out[s][j]
        /\ out'[s][Len(out[s]) + 1] = n
    BY <1>0, <2>1, WritesOne
  <2>3. \A j \in 1..Len(out[s]) : out[s][j] < n
    <3> TAKE j \in 1..Len(out[s])
    <3>1. sends <= sends
      BY <1>0
    <3>2. out[s][j] \in Nat /\ out[s][j] <= sends
      BY <1>0, <3>1, OldNumbers
    <3>3. out[s][j] # n
      BY <2>1 DEF ToSet
    <3> QED
      BY <1>0, <2>1, <3>2, <3>3, BoundsAreNumbers
  <2>4. ASSUME NEW x \in Sessions, NEW i \in 1..Len(out'[x]),
               NEW j \in 1..Len(out'[x]), i < j
        PROVE  out'[x][i] < out'[x][j]
    <3>1. CASE x # s
      BY <2>2, <2>4, <3>1 DEF WrittenInOrder
    <3>2. CASE x = s
      <4>1. i \in 1..Len(out[s]) /\ (j \in 1..Len(out[s]) \/ j = Len(out[s]) + 1)
        BY <2>2, <2>4, <3>2
      <4>2. CASE j \in 1..Len(out[s])
        BY <2>2, <2>4, <3>2, <4>1, <4>2 DEF WrittenInOrder
      <4>3. CASE j = Len(out[s]) + 1
        BY <2>2, <2>3, <3>2, <4>1, <4>3
      <4> QED
        BY <4>1, <4>2, <4>3
    <3> QED
      BY <3>1, <3>2
  <2> QED
    BY <2>4 DEF WrittenInOrder
<1> QED
  BY <1>1, <1>2

\* Messages of broadcast() and send_to() reach a session in the order of the
\* calls, whoever is accepted or closed meanwhile.
THEOREM WrittenInOrderAlways == Spec => []WrittenInOrder
<1>1. Init => WrittenInOrder
  <2> SUFFICES ASSUME Init, NEW s \in Sessions, NEW i \in 1..Len(out[s])
               PROVE  FALSE
    BY DEF WrittenInOrder
  <2>1. out[s] = <<>>
    BY DEF Init
  <2> QED
    BY <2>1
<1> QED
  BY <1>1, InOrderStep, Invariance, PTL DEF Spec

-----------------------------------------------------------------------------
(***************************************************************************)
(* The hazards of calls from a thread                                      *)
(***************************************************************************)
\* An iterator is left dangling only under a thread's broadcast(), and only
\* by a callback that changed the list in the middle of it.
DanglingHasACause == fault = "dangling" => caller = "thread" /\ (moved \/ shrunk)

LEMMA FaultsStay ==
    ASSUME TypeOK, [Next]_vars, fault = "dangling"
    PROVE  UNCHANGED <<caller, moved, shrunk>>
  BY DEF TypeOK, vars, walk, life, Next, CallStep, At, MayCall, LoopRuns, Listen,
     StopListening, Start, Stop, Join, Destroy, DeleteLoop, Broadcast,
     BroadcastNext, Write, BroadcastDone, SendTo, Close, CloseTarget,
     StopSession, StartSession, SetCloseHandler, LoopExit, OnConnection,
     OnReadError, OnHeartbeatTimeout, CallbackCloses, CallbackClosed,
     OnSessionClose, OnServerClose

LEMMA DanglingStep ==
    ASSUME IInv, IInv', DanglingHasACause, [Next]_vars PROVE DanglingHasACause'
<1>0. TypeOK /\ WalkGoesOn /\ AudienceInSight /\ HandlersAreSafe'
  BY DEF IInv
<1> SUFFICES ASSUME fault' = "dangling"
             PROVE  caller' = "thread" /\ (moved' \/ shrunk')
  BY DEF DanglingHasACause
<1>1. caller' = "thread"
  <2>1. caller' \in Callers
    BY DEF IInv, TypeOK
  <2> QED
    BY <1>0, <2>1, BoundsAreNumbers DEF HandlersAreSafe
<1>2. CASE fault = "dangling"
  BY <1>0, <1>2, FaultsStay DEF DanglingHasACause
<1>3. CASE fault # "dangling"
  <2>1. BroadcastNext
    BY <1>3
    DEF vars, walk, Next, CallStep, Listen, StopListening, Start, Stop, Join,
        Destroy, DeleteLoop, Broadcast, Write, BroadcastDone, SendTo, Close,
        CloseTarget, Closes, StopSession, StartSession, SetCloseHandler,
        LoopExit, OnConnection, OnReadError, OnHeartbeatTimeout,
        CallbackCloses, CallbackClosed, OnSessionClose, OnServerClose
  <2>2. /\ fault = "none" /\ app = "walk" /\ cursor <= end
        /\ moved \/ cursor > Len(sessions)
        /\ UNCHANGED <<moved, shrunk>>
    BY <1>3, <2>1 DEF BroadcastNext, At
  <2>3. CASE ~shrunk
    <3>1. end <= Len(sessions)
      BY <1>0, <2>2, <2>3 DEF AudienceInSight, InWalk
    <3>2. cursor \in Nat /\ end \in Nat /\ Len(sessions) \in Nat
      BY <1>0, LenProperties DEF TypeOK
    <3>3. ~(cursor > Len(sessions))
      BY <2>2, <3>1, <3>2
    <3> QED
      BY <1>1, <2>2, <3>3
  <2> QED
    BY <1>1, <2>2, <2>3
<1> QED
  BY <1>2, <1>3

LEMMA DanglingInvariance == Spec => []DanglingHasACause
<1>1. Init => DanglingHasACause
  BY DEF Init, DanglingHasACause
<1> QED
  BY <1>1, DanglingStep, Invariance, PTL DEF Spec

\* The violated claim ListIsGuarded fails in one way only: a callback of the
\* loop accepts or reports a session while a thread is inside broadcast().
THEOREM DanglingHasACauseAlways == Spec => []DanglingHasACause
  BY DanglingInvariance

\* The list is guarded, lock or no lock, for an application that makes all its
\* calls from handlers.
THEOREM ListIsGuardedFromHandlers ==
    "thread" \notin Callers => (Spec => []ListIsGuarded)
<1> SUFFICES ASSUME "thread" \notin Callers PROVE Spec => []ListIsGuarded
  OBVIOUS
<1>1. TypeOK /\ DanglingHasACause => ListIsGuarded
  BY DEF TypeOK, DanglingHasACause, ListIsGuarded
<1>2. IInv => TypeOK
  BY DEF IInv
<1> QED
  BY <1>1, <1>2, Invariance, DanglingInvariance, PTL

-----------------------------------------------------------------------------
(***************************************************************************)
(* The heartbeat of a session                                              *)
(***************************************************************************)
\* A session that is open is watched by its heartbeat, also when reading could
\* not be started, unless the application stopped it.
OpenSessionsAreWatched ==
    \A s \in Sessions : socket[s] = "open" => timer[s] \/ s \in stopped

LEMMA WatchedStep ==
    ASSUME TypeOK, OpenSessionsAreWatched, [Next]_vars
    PROVE  OpenSessionsAreWatched'
<1>0. /\ socket \in [Sessions -> {"none", "open", "closing", "closed"}]
      /\ timer \in [Sessions -> BOOLEAN]
  BY DEF TypeOK
<1>1. ASSUME NEW s \in Sessions, OnConnection(s) PROVE OpenSessionsAreWatched'
  BY <1>0, <1>1 DEF OnConnection, OpenSessionsAreWatched
<1>2. ASSUME NEW s \in Sessions, StopSession(s) \/ StartSession(s)
      PROVE  OpenSessionsAreWatched'
  BY <1>0, <1>2 DEF StopSession, StartSession, OpenSessionsAreWatched
<1>3. ASSUME UNCHANGED <<timer, stopped>>,
             \A s \in Sessions : socket'[s] = "open" => socket[s] = "open"
      PROVE  OpenSessionsAreWatched'
  BY <1>3 DEF OpenSessionsAreWatched
<1>4. ASSUME NEW s \in Sessions,
             \/ SendTo(s) \/ Close(s) \/ SetCloseHandler(s) \/ OnReadError(s)
             \/ OnHeartbeatTimeout(s) \/ OnSessionClose(s)
      PROVE  OpenSessionsAreWatched'
  <2>1. UNCHANGED <<timer, stopped>>
    BY <1>4 DEF SendTo, Close, SetCloseHandler, OnReadError, OnHeartbeatTimeout,
       CallbackCloses, OnSessionClose, session
  <2>2. \A x \in Sessions : socket'[x] = "open" => socket[x] = "open"
    BY <1>0, <1>4 DEF SendTo, Close, SetCloseHandler, OnReadError,
       OnHeartbeatTimeout, CallbackCloses, OnSessionClose, session
  <2> QED
    BY <1>3, <2>1, <2>2
<1>5. CASE CloseTarget \/ CallbackClosed
  <2>1. UNCHANGED <<timer, stopped>>
    BY <1>5, ClosesEffect
  <2>2. \A x \in Sessions : socket'[x] = "open" => socket[x] = "open"
    BY <1>0, <1>5, ClosesEffect
  <2> QED
    BY <1>3, <2>1, <2>2
<1>6. CASE \/ Listen \/ StopListening \/ Start \/ Stop \/ Broadcast \/ Destroy
           \/ BroadcastNext \/ Write \/ BroadcastDone \/ Join \/ DeleteLoop
           \/ LoopExit \/ OnServerClose \/ UNCHANGED vars
  BY <1>3, <1>6
  DEF Listen, StopListening, Start, Stop, Broadcast, Destroy, BroadcastNext,
      Write, BroadcastDone, Join, DeleteLoop, LoopExit, OnServerClose, vars,
      session
<1> QED
  BY <1>1, <1>2, <1>4, <1>5, <1>6 DEF Next, CallStep

\* What SilentClientIsDropped rests on: the timer that will find the client
\* silent is there for every session, however many are accepted.
THEOREM SessionsAreWatched == Spec => []OpenSessionsAreWatched
<1>1. Init => OpenSessionsAreWatched
  BY DEF Init, OpenSessionsAreWatched
<1>2. IInv => TypeOK
  BY DEF IInv
<1> QED
  BY <1>1, <1>2, WatchedStep, Invariance, PTL DEF Spec

-----------------------------------------------------------------------------
(***************************************************************************)
(* stop() and the end of the server                                        *)
(***************************************************************************)
\* stop() joins a loop that was told to stop; the destructor leaves no loop
\* and no listening socket behind; a callback runs on a loop that runs.
StopIsTold ==
    /\ app = "join" => should_stop /\ loop # "none"
    /\ app = "gone" => loop = "none" /\ ~is_listening
    /\ cb # {} => loop = "running"

LEMMA StopToldStep ==
    ASSUME StopIsTold, [Next]_vars PROVE StopIsTold'
<1> USE DEF At, MayCall, LoopRuns, life, thread, listener, session, walk, message
<1>1. CASE Start \/ Stop \/ Join \/ DeleteLoop \/ LoopExit
  BY <1>1 DEF Start, Stop, Join, DeleteLoop, LoopExit, StopIsTold
<1>2. CASE Listen \/ StopListening \/ Destroy \/ OnServerClose \/ UNCHANGED vars
  BY <1>2 DEF Listen, StopListening, Destroy, OnServerClose, vars, StopIsTold
<1>3. CASE Broadcast \/ BroadcastNext \/ Write \/ BroadcastDone
  BY <1>3 DEF Broadcast, BroadcastNext, Write, BroadcastDone, StopIsTold
<1>6. CASE CloseTarget \/ CallbackClosed
  BY <1>6 DEF CloseTarget, CallbackClosed, StopIsTold
<1>4. ASSUME NEW s \in Sessions,
             \/ SendTo(s) \/ Close(s) \/ SetCloseHandler(s)
             \/ StopSession(s) \/ StartSession(s)
      PROVE  StopIsTold'
  BY <1>4 DEF SendTo, Close, SetCloseHandler, StopSession, StartSession, StopIsTold
<1>5. ASSUME NEW s \in Sessions,
             \/ OnConnection(s) \/ OnReadError(s) \/ OnHeartbeatTimeout(s)
             \/ OnSessionClose(s)
      PROVE  StopIsTold'
  BY <1>5 DEF OnConnection, OnReadError, OnHeartbeatTimeout, CallbackCloses,
     OnSessionClose, StopIsTold
<1> QED
  BY <1>1, <1>2, <1>3, <1>4, <1>5, <1>6 DEF Next, CallStep

\* stop(), the destructor's too, never joins a loop that goes on, wherever the
\* sessions are: only the loop's own turn is waited for.
THEOREM StopIsToldAlways == Spec => []StopIsTold
<1>1. Init => StopIsTold
  BY DEF Init, StopIsTold
<1> QED
  BY <1>1, StopToldStep, PTL DEF Spec

\* When the destructor has returned, no callback of a session runs any more,
\* also where sessions were left open and libuv did not abort.
THEOREM NothingAfterDestructor == Spec => [][app # "gone"]_vars
<1>1. ASSUME StopIsTold, [Next]_vars, app = "gone" PROVE UNCHANGED vars
  <2>1. loop = "none" /\ ~is_listening /\ cb = {}
    BY <1>1 DEF StopIsTold
  <2> QED
    BY <1>1, <2>1
    DEF At, MayCall, LoopRuns, Next, CallStep, Listen, StopListening, Start,
        Stop, Join, Destroy, DeleteLoop, Broadcast, BroadcastNext, Write,
        BroadcastDone, SendTo, Close, CloseTarget, StopSession, StartSession,
        SetCloseHandler, LoopExit, OnConnection, OnReadError,
        OnHeartbeatTimeout, CallbackCloses, CallbackClosed, OnSessionClose,
        OnServerClose
<1>2. StopIsTold /\ [Next]_vars => [app # "gone"]_vars
  BY <1>1
<1> QED
  BY <1>2, StopIsToldAlways, PTL DEF Spec
=============================================================================

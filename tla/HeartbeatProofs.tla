--------------------------- MODULE HeartbeatProofs --------------------------
(***************************************************************************)
(* The heartbeat for every interval, timeout, lateness and travel time:    *)
(* how long silence can go unnoticed, and how large the timeout must be    *)
(* for a session never to drop a client that is alive and reachable.       *)
(***************************************************************************)
EXTENDS Heartbeat, SequenceFacts

\* The network is no slower than a timer is late.
NetworkInTime == MaxDelay <= Interval + MaxLate

\* The timeout leaves room for one interval, a late timer and the travel
\* times of two heartbeats.
TimeoutAmple == Interval + MaxLate + 2 * MaxDelay <= Timeout

(***************************************************************************)
(* The strengthening.  SilenceIsNoticed speaks of the age alone; what a    *)
(* step keeps is how the age is tied to the timer that will look at it.    *)
(***************************************************************************)
TimersInTime ==
    \A e \in Ends : up[e] => /\ wait[e] <= Interval + MaxLate
                             /\ age[e] <= wait[e] + Timeout

\* While both ends are up and reach each other, the session heard of the
\* client no longer ago than the next heartbeat to arrive, or to be sent,
\* allows.
HeardOfClient ==
    up["client"] /\ ~cut =>
        /\ ~suspected["session"]
        /\ up["session"] /\ inflight["session"] = <<>> =>
               age["session"] <= wait["client"] + MaxDelay
        /\ up["session"] /\ inflight["session"] # <<>> =>
               age["session"] <= inflight["session"][1]
                                     + Interval + MaxLate + MaxDelay

-----------------------------------------------------------------------------
LEMMA ConstantsAreNumbers ==
    /\ Interval \in Nat /\ Interval > 0 /\ Timeout \in Nat
    /\ MaxLate \in Nat /\ MaxDelay \in Nat
  BY HeartbeatAssumption

LEMMA TwoEnds ==
    /\ "client" \in Ends /\ "session" \in Ends /\ "client" # "session"
    /\ Peer("client") = "session" /\ Peer("session") = "client"
    /\ \A e \in Ends : Peer(e) \in Ends /\ (e = "client" \/ e = "session")
  BY DEF Ends, Peer

LEMMA FirstOfSeq ==
    ASSUME NEW S, NEW s \in Seq(S), s # <<>> PROVE s[1] \in S
  BY EmptySeq, LenProperties

\* A queue of travel times that all grow by one.
LEMMA OlderByOne ==
    ASSUME NEW s \in Seq(0..MaxDelay),
           \A i \in 1..Len(s) : s[i] < MaxDelay
    PROVE  LET t == [i \in 1..Len(s) |-> s[i] + 1] IN
           /\ t \in Seq(0..MaxDelay)
           /\ t = <<>> <=> s = <<>>
           /\ s # <<>> => t[1] = s[1] + 1
<1>1. Len(s) \in Nat /\ s \in [1..Len(s) -> 0..MaxDelay]
  BY LenProperties
<1>2. \A i \in 1..Len(s) : s[i] + 1 \in 0..MaxDelay
  BY <1>1, ConstantsAreNumbers
<1> DEFINE t == [i \in 1..Len(s) |-> s[i] + 1]
<1>3. t \in [1..Len(s) -> 0..MaxDelay]
  BY <1>2
<1>4. t \in Seq(0..MaxDelay)
  BY <1>1, <1>3, SeqDef
<1>5. Len(t) = Len(s)
  BY <1>1, <1>3
<1>6. t = <<>> <=> s = <<>>
  BY <1>4, <1>5, EmptySeq
<1>7. s # <<>> => t[1] = s[1] + 1
  BY <1>1, EmptySeq
<1> QED
  BY <1>4, <1>6, <1>7

-----------------------------------------------------------------------------
(***************************************************************************)
(* Type correctness                                                        *)
(***************************************************************************)
LEMMA TypeInit == Init => TypeOK
<1> SUFFICES ASSUME Init PROVE TypeOK
  OBVIOUS
<1>1. age \in [Ends -> Nat]
  BY ConstantsAreNumbers DEF Init
<1>2. wait \in [Ends -> 0..(Interval + MaxLate + MaxDelay)]
  BY ConstantsAreNumbers DEF Init
<1>3. inflight \in [Ends -> Seq(0..MaxDelay)]
  BY EmptySeq DEF Init
<1> QED
  BY <1>1, <1>2, <1>3 DEF Init, TypeOK

LEMMA TypeStep == TypeOK /\ [Next]_vars => TypeOK'
<1> SUFFICES ASSUME TypeOK, [Next]_vars PROVE TypeOK'
  OBVIOUS
<1> USE ConstantsAreNumbers
<1>1. CASE UNCHANGED vars
  BY <1>1 DEF TypeOK, vars
<1>2. CASE Tick
  <2>1. age' \in [Ends -> Nat]
    BY <1>2 DEF Tick, TypeOK
  <2>2. wait' \in [Ends -> 0..(Interval + MaxLate + MaxDelay)]
    BY <1>2 DEF Tick, TypeOK
  <2>3. \A e \in Ends :
            [i \in 1..Len(inflight[e]) |-> inflight[e][i] + 1] \in Seq(0..MaxDelay)
    BY <1>2, OlderByOne DEF Tick, TypeOK
  <2>4. inflight' \in [Ends -> Seq(0..MaxDelay)]
    BY <1>2, <2>3 DEF Tick
  <2> QED
    BY <1>2, <2>1, <2>2, <2>4 DEF Tick, TypeOK
<1>3. ASSUME NEW e \in Ends, TimerCloses(e) PROVE TypeOK'
  BY <1>3, EmptySeq DEF TimerCloses, TypeOK
<1>4. ASSUME NEW e \in Ends, TimerSends(e) PROVE TypeOK'
  <2>1. Append(inflight[Peer(e)], 0) \in Seq(0..MaxDelay)
    BY TwoEnds, AppendElements DEF TypeOK
  <2>2. inflight' \in [Ends -> Seq(0..MaxDelay)]
    BY <1>4, <2>1 DEF TimerSends, TypeOK
  <2> QED
    BY <1>4, <2>2 DEF TimerSends, TypeOK
<1>5. ASSUME NEW e \in Ends, EndOfStream(e) PROVE TypeOK'
  BY <1>5, EmptySeq DEF EndOfStream, TypeOK
<1>6. CASE SessionReceives
  BY <1>6, TwoEnds, HeadTailProperties DEF SessionReceives, TypeOK
<1>7. CASE ClientReceives
  BY <1>7, TwoEnds, HeadTailProperties DEF ClientReceives, TypeOK
<1>8. CASE Cut
  BY <1>8, EmptySeq DEF Cut, TypeOK
<1> QED
  BY <1>1, <1>2, <1>3, <1>4, <1>5, <1>6, <1>7, <1>8 DEF Next

\* The type invariant: among others, no timer is overdue by more than the
\* loop can be late and no heartbeat travels for longer than the bound.
THEOREM TypeCorrect == Spec => []TypeOK
  BY TypeInit, TypeStep, PTL DEF Spec

-----------------------------------------------------------------------------
(***************************************************************************)
(* Silence is noticed                                                      *)
(***************************************************************************)
LEMMA TimersInit == NetworkInTime /\ Init => TimersInTime
  BY ConstantsAreNumbers DEF NetworkInTime, Init, TimersInTime

LEMMA TimersStep == TypeOK /\ TimersInTime /\ [Next]_vars => TimersInTime'
<1> SUFFICES ASSUME TypeOK, TimersInTime, [Next]_vars,
                    NEW e \in Ends, up'[e]
             PROVE  /\ wait'[e] <= Interval + MaxLate
                    /\ age'[e] <= wait'[e] + Timeout
  BY DEF TimersInTime
<1> USE ConstantsAreNumbers
<1>1. /\ up[e] \in BOOLEAN /\ age[e] \in Nat /\ wait[e] \in Nat
      /\ up[e] => /\ wait[e] <= Interval + MaxLate
                  /\ age[e] <= wait[e] + Timeout
  BY DEF TypeOK, TimersInTime
<1>2. CASE UNCHANGED <<up, age, wait>>
  BY <1>1, <1>2
<1>3. CASE Tick
  BY <1>1, <1>3 DEF Tick
<1>4. ASSUME NEW f \in Ends, TimerCloses(f) \/ EndOfStream(f)
      PROVE  up[e] /\ UNCHANGED <<age, wait>>
  BY <1>4 DEF TimerCloses, EndOfStream, TypeOK
<1>5. ASSUME NEW f \in Ends, TimerSends(f)
      PROVE  /\ wait'[e] <= Interval + MaxLate
             /\ age'[e] <= wait'[e] + Timeout
  <2>1. up[e] /\ UNCHANGED age
    BY <1>5 DEF TimerSends
  <2>2. CASE e = f
    BY <1>1, <1>5, <2>1, <2>2 DEF TimerSends, Silent, TypeOK
  <2>3. CASE e # f
    BY <1>1, <1>5, <2>1, <2>3 DEF TimerSends, TypeOK
  <2> QED
    BY <2>2, <2>3
<1>6. CASE SessionReceives
  BY <1>1, <1>6 DEF SessionReceives, TypeOK
<1> QED
  BY <1>1, <1>2, <1>3, <1>4, <1>5, <1>6 DEF Next, ClientReceives, Cut, vars

\* No end stays open for longer than one interval and a late timer after the
\* timeout, for every timeout.
THEOREM SilenceNoticed == NetworkInTime => (Spec => []SilenceIsNoticed)
<1>1. TypeOK /\ TimersInTime => SilenceIsNoticed
  BY ConstantsAreNumbers DEF TypeOK, TimersInTime, SilenceIsNoticed
<1> QED
  BY <1>1, TimersInit, TimersStep, TypeCorrect, PTL DEF Spec

-----------------------------------------------------------------------------
(***************************************************************************)
(* A live client is not dropped                                            *)
(***************************************************************************)
LEMMA HeardInit == Init => HeardOfClient
  BY ConstantsAreNumbers, TwoEnds DEF Init, HeardOfClient

LEMMA HeardStep ==
    TimeoutAmple /\ TypeOK /\ TimersInTime /\ HeardOfClient /\ [Next]_vars
        => HeardOfClient'
<1> SUFFICES ASSUME TimeoutAmple, TypeOK, TimersInTime, HeardOfClient,
                    [Next]_vars
             PROVE  HeardOfClient'
  OBVIOUS
<1> USE ConstantsAreNumbers, TwoEnds
<1>1. /\ age \in [Ends -> Nat] /\ wait \in [Ends -> Nat]
      /\ up \in [Ends -> BOOLEAN] /\ inflight \in [Ends -> Seq(0..MaxDelay)]
      /\ up["client"] => wait["client"] <= Interval + MaxLate
  BY DEF TypeOK, TimersInTime
<1>2. /\ age["session"] \in Nat /\ wait["client"] \in Nat
      /\ up["client"] => wait["client"] <= Interval + MaxLate
      /\ inflight["session"] # <<>> => inflight["session"][1] \in 0..MaxDelay
  BY <1>1, FirstOfSeq
<1>3. CASE UNCHANGED vars
  BY <1>3 DEF HeardOfClient, vars
<1>4. CASE Tick
  <2> DEFINE q == inflight["session"]
             r == inflight'["session"]
  <2>1. /\ UNCHANGED <<up, cut, suspected>>
        /\ up["session"] => age'["session"] = age["session"] + 1
        /\ up["client"] => wait'["client"] = wait["client"] + 1
    BY <1>1, <1>4 DEF Tick
  <2>2. /\ r = <<>> <=> q = <<>>
        /\ q # <<>> => r[1] = q[1] + 1
    BY <1>1, <1>4, OlderByOne DEF Tick
  <2>3. ASSUME up["client"], ~cut, up["session"], r = <<>>
        PROVE  age'["session"] <= wait'["client"] + MaxDelay
    <3>1. age["session"] <= wait["client"] + MaxDelay
      BY <2>2, <2>3 DEF HeardOfClient
    <3> HIDE DEF q, r
    <3> QED
      BY <1>2, <2>1, <2>3, <3>1
  <2>4. ASSUME up["client"], ~cut, up["session"], r # <<>>
        PROVE  age'["session"] <= r[1] + Interval + MaxLate + MaxDelay
    <3> DEFINE first == q[1]
    <3>1. age["session"] <= first + Interval + MaxLate + MaxDelay
      BY <2>2, <2>4 DEF HeardOfClient
    <3>2. first \in 0..MaxDelay /\ r[1] = first + 1
      BY <1>2, <2>2, <2>4
    <3> HIDE DEF q, r, first
    <3> QED
      BY <1>2, <2>1, <2>4, <3>1, <3>2
  <2> QED
    BY <2>1, <2>3, <2>4 DEF HeardOfClient
<1>5. ASSUME NEW e \in Ends, TimerCloses(e) PROVE HeardOfClient'
  <2>1. CASE e = "client"
    BY <1>1, <1>5, <2>1 DEF TimerCloses, HeardOfClient
  <2>2. CASE e = "session"
    <3>1. age["session"] > Timeout /\ up["session"]
      BY <1>5, <2>2 DEF TimerCloses, TimerDue, Silent
    <3>2. up["client"] /\ ~cut => age["session"] <= Timeout
      <4> SUFFICES ASSUME up["client"], ~cut PROVE age["session"] <= Timeout
        OBVIOUS
      <4>1. CASE inflight["session"] = <<>>
        <5>1. age["session"] <= wait["client"] + MaxDelay
          BY <3>1, <4>1 DEF HeardOfClient
        <5> QED
          BY <1>2, <5>1 DEF TimeoutAmple
      <4>2. CASE inflight["session"] # <<>>
        <5> DEFINE first == inflight["session"][1]
        <5>1. first \in 0..MaxDelay
          BY <1>2, <4>2
        <5>2. age["session"] <= first + Interval + MaxLate + MaxDelay
          BY <3>1, <4>2 DEF HeardOfClient
        <5> HIDE DEF first
        <5> QED
          BY <1>2, <5>1, <5>2 DEF TimeoutAmple
      <4> QED
        BY <4>1, <4>2
    <3>3. ~(up["client"] /\ ~cut)
      BY <1>2, <3>1, <3>2
    <3> QED
      BY <1>1, <1>5, <2>2, <3>3 DEF TimerCloses, HeardOfClient
  <2> QED
    BY <2>1, <2>2
<1>6. ASSUME NEW e \in Ends, TimerSends(e) PROVE HeardOfClient'
  <2>1. CASE e = "client"
    <3> DEFINE q == inflight["session"]
    <3>1. /\ UNCHANGED <<up, age, cut, suspected>>
          /\ up["client"] /\ wait'["client"] = 0
          /\ ~cut /\ up["session"] => inflight'["session"] = Append(q, 0)
      BY <1>1, <1>6, <2>1 DEF TimerSends, TimerDue
    <3>2. q \in Seq(0..MaxDelay) /\ 0 \in 0..MaxDelay
      BY <1>1
    <3> HIDE DEF q
    <3>3. /\ Append(q, 0) # <<>>
          /\ q = <<>> => Append(q, 0)[1] = 0
          /\ q # <<>> => Append(q, 0)[1] = q[1]
      BY <3>2, AppendProperties, EmptySeq
    <3>4. ASSUME ~cut, up["session"]
          PROVE  /\ Append(q, 0) # <<>>
                 /\ age["session"] <= Append(q, 0)[1] + Interval + MaxLate + MaxDelay
      <4>1. CASE q = <<>>
        <5>1. age["session"] <= wait["client"] + MaxDelay
          BY <3>1, <3>4, <4>1 DEF HeardOfClient, q
        <5>2. age["session"] <= Interval + MaxLate + MaxDelay
          BY <1>2, <3>1, <5>1
        <5> QED
          BY <1>2, <3>3, <4>1, <5>2
      <4>2. CASE q # <<>>
        BY <3>1, <3>3, <3>4, <4>2 DEF HeardOfClient, q
      <4> QED
        BY <4>1, <4>2
    <3> QED
      BY <3>1, <3>4 DEF HeardOfClient
  <2>2. CASE e = "session"
    BY <1>1, <1>6, <2>2 DEF TimerSends, HeardOfClient
  <2> QED
    BY <2>1, <2>2
<1>7. ASSUME NEW e \in Ends, EndOfStream(e) PROVE HeardOfClient'
  <2>1. CASE e = "client"
    BY <1>1, <1>7, <2>1 DEF EndOfStream, HeardOfClient
  <2>2. CASE e = "session"
    BY <1>1, <1>7, <2>2 DEF EndOfStream, HeardOfClient
  <2> QED
    BY <2>1, <2>2
<1>8. CASE SessionReceives
  <2> DEFINE r == inflight'["session"]
  <2>1. /\ UNCHANGED <<up, wait, cut, suspected>>
        /\ age'["session"] = 0
        /\ r \in Seq(0..MaxDelay)
    BY <1>1, <1>8, HeadTailProperties DEF SessionReceives
  <2>2. 0 <= wait'["client"] + MaxDelay
    BY <1>2, <2>1
  <2>3. ASSUME r # <<>> PROVE 0 <= r[1] + Interval + MaxLate + MaxDelay
    <3>1. r[1] \in 0..MaxDelay
      BY <2>1, <2>3, FirstOfSeq
    <3>2. \A first \in 0..MaxDelay : 0 <= first + Interval + MaxLate + MaxDelay
      OBVIOUS
    <3> QED
      BY <3>1, <3>2
  <2> QED
    BY <2>1, <2>2, <2>3 DEF HeardOfClient
<1>9. CASE ClientReceives
  BY <1>1, <1>9 DEF ClientReceives, HeardOfClient
<1>10. CASE Cut
  BY <1>10 DEF Cut, HeardOfClient
<1> QED
  BY <1>3, <1>4, <1>5, <1>6, <1>7, <1>8, <1>9, <1>10 DEF Next

\* A session does not drop a client that is alive and reachable, for every
\* timeout that is ample.
THEOREM LiveClientIsTrusted ==
    NetworkInTime /\ TimeoutAmple => (Spec => []SessionTrustsLiveClient)
<1>1. TypeOK /\ HeardOfClient => SessionTrustsLiveClient
  BY TwoEnds DEF TypeOK, HeardOfClient, SessionTrustsLiveClient
<1>2. ASSUME NetworkInTime, TimeoutAmple
      PROVE  Spec => []SessionTrustsLiveClient
  <2>1. Init => TimersInTime
    BY <1>2, TimersInit
  <2>2. TypeOK /\ TimersInTime /\ HeardOfClient /\ [Next]_vars => HeardOfClient'
    BY <1>2, HeardStep
  <2> QED
    BY <1>1, <2>1, <2>2, TimersStep, HeardInit, TypeCorrect, PTL DEF Spec
<1> QED
  BY <1>2
-----------------------------------------------------------------------------
(***************************************************************************)
(* What brings an end nearer to its deadline                               *)
(***************************************************************************)
\* Nothing arrives through a network that was cut.
QuietAfterCut == cut => \A e \in Ends : inflight[e] = <<>>

LEMMA QuietStep == TypeOK /\ QuietAfterCut /\ [Next]_vars => QuietAfterCut'
<1> SUFFICES ASSUME TypeOK, QuietAfterCut, [Next]_vars, cut', NEW e \in Ends
             PROVE  inflight'[e] = <<>>
  BY DEF QuietAfterCut
<1>1. CASE Cut
  BY <1>1 DEF Cut
<1>2. CASE ~Cut
  <2>1. cut /\ inflight[e] = <<>>
    BY <1>2 DEF vars, Next, Tick, TimerCloses, TimerSends, EndOfStream,
       SessionReceives, ClientReceives, QuietAfterCut
  <2>2. CASE Tick
    <3>1. inflight[e] \in Seq(0..MaxDelay)
      BY DEF TypeOK
    <3>2. inflight'[e] = [i \in 1..Len(inflight[e]) |-> inflight[e][i] + 1]
      BY <2>2 DEF Tick
    <3> QED
      BY <2>1, <2>2, <3>1, <3>2, OlderByOne DEF Tick
  <2>3. CASE SessionReceives \/ ClientReceives
    BY <2>1, <2>3, TwoEnds DEF SessionReceives, ClientReceives, QuietAfterCut
  <2>4. ASSUME NEW f \in Ends, TimerCloses(f) \/ TimerSends(f) \/ EndOfStream(f)
        PROVE  inflight'[e] = <<>>
    BY <2>1, <2>4 DEF TimerCloses, TimerSends, EndOfStream, TypeOK
  <2>5. CASE UNCHANGED vars
    BY <2>1, <2>5 DEF vars
  <2> QED
    BY <1>2, <2>2, <2>3, <2>4, <2>5 DEF Next
<1> QED
  BY <1>1, <1>2

\* What a step does to the age of an end that stays open.
Ages(e) == up'[e] => age'[e] = IF Tick THEN age[e] + 1 ELSE age[e]

LEMMA AgeStep ==
    ASSUME TypeOK, Next, NEW e \in Ends
    PROVE  Ages(e) \/ (SessionReceives /\ e = "session")
<1>1. up \in [Ends -> BOOLEAN] /\ age \in [Ends -> Nat]
  BY DEF TypeOK
<1>2. CASE Tick
  BY <1>1, <1>2 DEF Tick, Ages
<1>3. CASE SessionReceives /\ ~Tick
  <2>1. e # "session" => age'[e] = age[e]
    BY <1>1, <1>3 DEF SessionReceives
  <2> QED
    BY <1>3, <2>1 DEF Ages
<1>4. CASE ~Tick /\ ~SessionReceives
  <2>1. UNCHANGED age
    BY <1>4 DEF Next, TimerCloses, TimerSends, EndOfStream, ClientReceives, Cut
  <2> QED
    BY <1>4, <2>1 DEF Ages
<1> QED
  BY <1>2, <1>3, <1>4

\* No step makes the client younger: the heartbeats of a server that is alive
\* do not count for it.
ClientIsNeverReassured == [][Ages("client")]_vars

\* Every tick a client stays open brings it nearer to its timeout, whatever
\* arrives: with SilenceNoticed, no connection outlives the timeout by more
\* than an interval and a late timer.  That is what the violated claim
\* ClientTrustsLiveServer comes from, for every value of the constants.
THEOREM ClientIsNeverReassuredEver == Spec => ClientIsNeverReassured
<1>1. TypeOK /\ [Next]_vars => [Ages("client")]_vars
  BY AgeStep, TwoEnds
<1> QED
  BY <1>1, TypeCorrect, PTL DEF Spec, ClientIsNeverReassured

\* No step makes either end younger once the network is cut.
NothingReassuresAfterCut == [][cut => \A e \in Ends : Ages(e)]_vars

\* After the cut every tick brings each end that is still open nearer to the
\* bound of SilenceIsNoticed: the measure that makes DeadPeerIsDropped true as
\* soon as time passes and the timers are run.
THEOREM NothingReassuresAfterCutEver == Spec => NothingReassuresAfterCut
<1>1. Init => QuietAfterCut
  BY DEF Init, QuietAfterCut
<1>2. TypeOK /\ QuietAfterCut /\ [Next]_vars
        => [cut => \A e \in Ends : Ages(e)]_vars
  <2> SUFFICES ASSUME TypeOK, QuietAfterCut, Next, cut, NEW e \in Ends
               PROVE  Ages(e)
    OBVIOUS
  <2>1. ~SessionReceives
    BY TwoEnds DEF QuietAfterCut, SessionReceives
  <2> QED
    BY <2>1, AgeStep
<1> QED
  BY <1>1, <1>2, QuietStep, TypeCorrect, PTL DEF Spec, NothingReassuresAfterCut
=============================================================================

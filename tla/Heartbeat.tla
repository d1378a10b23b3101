----------------------------- MODULE Heartbeat ------------------------------
(***************************************************************************)
(* The heartbeat of both ends of one connection, in time.  Client and      *)
(* Session each run a repeating timer; every firing either closes the end  *)
(* because the other was silent for too long or sends a HEARTBEAT packet.  *)
(* A Session takes an arriving HEARTBEAT as a sign of life, a Client sets  *)
(* its last_heartbeat_time_ when it connects and never again.              *)
(*                                                                         *)
(* Time advances in ticks, as far as the deadlines allow: a timer fires at *)
(* most MaxLate after it is due (the loop polls every 10 ms and runs the   *)
(* handlers), and a packet takes at most MaxDelay.                         *)
(***************************************************************************)
EXTENDS Naturals, Sequences

CONSTANTS
    Interval,           \* HEARTBEAT_INTERVAL_MS, in ticks
    Timeout,            \* HEARTBEAT_TIMEOUT_MS, in ticks
    MaxLate,            \* how late the loop may run a timer
    MaxDelay            \* how long a packet may travel

ASSUME HeartbeatAssumption ==
    /\ Interval \in Nat \ {0} /\ Timeout \in Nat
    /\ MaxLate \in Nat /\ MaxDelay \in Nat

Ends == {"client", "session"}
Peer(e) == IF e = "client" THEN "session" ELSE "client"

VARIABLES
    up,                 \* up[e]: e has not closed its socket
    age,                \* age[e]: now - last_heartbeat_time_ of e
    wait,               \* wait[e]: time since the timer of e last fired
    inflight,           \* inflight[e]: travel times of the heartbeats to e
    cut,                \* packets silently stop arriving, in both directions
    suspected           \* suspected[e]: e closed because of a timeout

vars == <<up, age, wait, inflight, cut, suspected>>

\* The ends start their timers when they notice the connection, at most one
\* travel time apart.
Init ==
    /\ up = [e \in Ends |-> TRUE]
    /\ age \in [Ends -> 0..MaxDelay]
    /\ wait = age
    /\ inflight = [e \in Ends |-> <<>>]
    /\ cut = FALSE
    /\ suspected = [e \in Ends |-> FALSE]

\* Mutant: a handler blocks the loop, timers are not run in time.
Tick_Blocked ==
    /\ \E e \in Ends : up[e]
    /\ age' = [e \in Ends |-> age[e] + 1]
    /\ wait' = [e \in Ends |-> wait[e] + 1]
    /\ UNCHANGED <<up, inflight, cut, suspected>>

\* Time passes, unless a timer or a packet must come first.
Tick ==
    /\ \E e \in Ends : up[e]
    /\ \A e \in Ends : up[e] => wait[e] < Interval + MaxLate
    /\ \A e \in Ends : \A i \in 1..Len(inflight[e]) : inflight[e][i] < MaxDelay
    /\ age' = [e \in Ends |-> IF up[e] THEN age[e] + 1 ELSE age[e]]
    /\ wait' = [e \in Ends |-> IF up[e] THEN wait[e] + 1 ELSE wait[e]]
    /\ inflight' = [e \in Ends |->
                        [i \in 1..Len(inflight[e]) |-> inflight[e][i] + 1]]
    /\ UNCHANGED <<up, cut, suspected>>

TimerDue(e) == up[e] /\ wait[e] >= Interval

\* Mutant: silence is measured from one interval later.
Silent_Later(e) == age[e] > Timeout + Interval

Silent(e) == age[e] > Timeout

\* on_heartbeat_timer with the peer silent for longer than the timeout.
TimerCloses(e) ==
    /\ TimerDue(e)
    /\ Silent(e)
    /\ up' = [up EXCEPT ![e] = FALSE]
    /\ suspected' = [suspected EXCEPT ![e] = TRUE]
    /\ inflight' = [inflight EXCEPT ![e] = <<>>]
    /\ UNCHANGED <<age, wait, cut>>

\* Mutant: sending a heartbeat counts as having heard one.
TimerSends_Refresh(e) ==
    /\ TimerDue(e)
    /\ ~Silent(e)
    /\ wait' = [wait EXCEPT ![e] = 0]
    /\ age' = [age EXCEPT ![e] = 0]
    /\ UNCHANGED <<up, inflight, cut, suspected>>

\* on_heartbeat_timer otherwise: send_heartbeat, and the timer repeats.
TimerSends(e) ==
    /\ TimerDue(e)
    /\ ~Silent(e)
    /\ wait' = [wait EXCEPT ![e] = 0]
    /\ inflight' = IF cut \/ ~up[Peer(e)] THEN inflight
                   ELSE [inflight EXCEPT ![Peer(e)] = Append(@, 0)]
    /\ UNCHANGED <<up, age, cut, suspected>>

\* Mutant: the packet is dropped without a look at the clock.
SessionReceives_Ignore ==
    /\ up["session"]
    /\ inflight["session"] # <<>>
    /\ inflight' = [inflight EXCEPT !["session"] = Tail(@)]
    /\ UNCHANGED <<up, age, wait, cut, suspected>>

\* Session::handle_packet on a HEARTBEAT.
SessionReceives ==
    /\ up["session"]
    /\ inflight["session"] # <<>>
    /\ inflight' = [inflight EXCEPT !["session"] = Tail(@)]
    /\ age' = [age EXCEPT !["session"] = 0]
    /\ UNCHANGED <<up, wait, cut, suspected>>

\* Client::append_to_buffer on a HEARTBEAT: a handler at most.
ClientReceives ==
    /\ up["client"]
    /\ inflight["client"] # <<>>
    /\ inflight' = [inflight EXCEPT !["client"] = Tail(@)]
    /\ UNCHANGED <<up, age, wait, cut, suspected>>

\* The other end has closed: on_read reports the end of the stream.
EndOfStream(e) ==
    /\ up[e] /\ ~up[Peer(e)] /\ ~cut
    /\ inflight[e] = <<>>
    /\ up' = [up EXCEPT ![e] = FALSE]
    /\ inflight' = [inflight EXCEPT ![Peer(e)] = <<>>]
    /\ UNCHANGED <<age, wait, cut, suspected>>

\* The peer's host or the network dies without a word.
Cut ==
    /\ ~cut
    /\ cut' = TRUE
    /\ inflight' = [e \in Ends |-> <<>>]
    /\ UNCHANGED <<up, age, wait, suspected>>

Next ==
    \/ Tick
    \/ \E e \in Ends : TimerCloses(e) \/ TimerSends(e) \/ EndOfStream(e)
    \/ SessionReceives
    \/ ClientReceives
    \/ Cut

Spec == Init /\ [][Next]_vars

\* Time passes and the loop threads run what is due; the network need not be
\* cut.
FairSpec ==
    /\ Spec
    /\ WF_vars(Tick)
    /\ \A e \in Ends : WF_vars(TimerCloses(e) \/ TimerSends(e))
    /\ WF_vars(SessionReceives \/ ClientReceives)

-----------------------------------------------------------------------------
TypeOK ==
    /\ up \in [Ends -> BOOLEAN]
    /\ age \in [Ends -> Nat]
    /\ wait \in [Ends -> 0..(Interval + MaxLate + MaxDelay)]
    /\ inflight \in [Ends -> Seq(0..MaxDelay)]
    /\ cut \in BOOLEAN
    /\ suspected \in [Ends -> BOOLEAN]

\* A server does not drop a client that is alive and reachable, however late
\* its loop and however slow the network, within the bounds.
SessionTrustsLiveClient == suspected["session"] => cut \/ ~up["client"]

\* Silence is noticed: no end stays open beyond one interval after the
\* timeout, although elapsed is only looked at when the timer fires.
SilenceIsNoticed ==
    \A e \in Ends : up[e] => age[e] <= Timeout + Interval + MaxLate

\* Both ends are closed in the end when the network dies.
DeadPeerIsDropped == \A e \in Ends : cut ~> ~up[e]

(***************************************************************************)
(* What the documentation says and the code does not do                    *)
(***************************************************************************)
\* Heartbeat detection (client.hpp) is about the server: a client does not
\* drop one whose heartbeats arrive.
ClientTrustsLiveServer == suspected["client"] => cut \/ ~up["session"]
=============================================================================

------------------------------ MODULE TaskQueue -----------------------------
(***************************************************************************)
(* What a ThreadPool promises: tasks are numbered in the order in which    *)
(* they are accepted, are started in that order, each once, and the pool   *)
(* is gone only when every task it accepted has been run.                  *)
(***************************************************************************)
EXTENDS Naturals

VARIABLES
    accepted,           \* how many tasks were accepted
    started,            \* how many of them were started
    finished,           \* the set of those that have returned
    gone                \* the pool no longer exists

vars == <<accepted, started, finished, gone>>

Init == accepted = 0 /\ started = 0 /\ finished = {} /\ gone = FALSE

Accept ==
    /\ ~gone
    /\ accepted' = accepted + 1
    /\ UNCHANGED <<started, finished, gone>>

Begin ==
    /\ started < accepted
    /\ started' = started + 1
    /\ UNCHANGED <<accepted, finished, gone>>

Finish ==
    /\ \E n \in (1..started) \ finished : finished' = finished \cup {n}
    /\ UNCHANGED <<accepted, started, gone>>

End ==
    /\ finished = 1..accepted
    /\ gone' = TRUE
    /\ UNCHANGED <<accepted, started, finished>>

Next == Accept \/ Begin \/ Finish \/ End

Spec == Init /\ [][Next]_vars
=============================================================================

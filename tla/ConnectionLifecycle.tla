------------------------ MODULE ConnectionLifecycle -------------------------
(***************************************************************************)
(* What a Client promises about one connection after another: an attempt   *)
(* either succeeds or fails, every attempt or connection that is closed is *)
(* reported once through the disconnect handler, and no new attempt begins *)
(* before that report.  Client is shown to implement this.                 *)
(***************************************************************************)
EXTENDS Naturals

VARIABLES
    phase,              \* "idle", "connecting" or "connected"
    owed                \* disconnect reports the application waits for

vars == <<phase, owed>>

Init == phase = "idle" /\ owed = 0

Begin   == phase = "idle" /\ owed = 0 /\ phase' = "connecting" /\ UNCHANGED owed
Succeed == phase = "connecting" /\ phase' = "connected" /\ UNCHANGED owed
\* A failed attempt is silent.
Fail    == phase = "connecting" /\ phase' = "idle" /\ UNCHANGED owed
End     == phase # "idle" /\ phase' = "idle" /\ owed' = 1
Report  == owed = 1 /\ owed' = 0 /\ UNCHANGED phase

Next == Begin \/ Succeed \/ Fail \/ End \/ Report

Spec == Init /\ [][Next]_vars
=============================================================================

--------------------------- MODULE SessionRegistry --------------------------
(***************************************************************************)
(* What a Server promises about its sessions: a session joins once, is a   *)
(* member until its close is reported, is reported at most once, and never *)
(* comes back.                                                             *)
(***************************************************************************)
CONSTANT Sessions

VARIABLES
    members,            \* the sessions a broadcast is for
    reported            \* the sessions whose close was reported

vars == <<members, reported>>

Init == members = {} /\ reported = {}

Join ==
    /\ \E s \in Sessions \ (members \cup reported) : members' = members \cup {s}
    /\ UNCHANGED reported

Leave ==
    \E s \in members : /\ members' = members \ {s}
                       /\ reported' = reported \cup {s}

Next == Join \/ Leave

Spec == Init /\ [][Next]_vars
=============================================================================

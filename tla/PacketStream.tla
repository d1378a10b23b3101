---------------------------- MODULE PacketStream ----------------------------
(***************************************************************************)
(* What one direction of a libuv_net connection promises its users: every  *)
(* packet handed to send() reaches the peer's packet handling intact, once *)
(* and in order.  The promise is void from the first write on that the     *)
(* kernel did not take whole, until the connection is replaced.  Framing   *)
(* is shown to implement this.                                             *)
(***************************************************************************)
EXTENDS Naturals, Sequences

CONSTANT Packets        \* the packets an application may send

VARIABLES
    sent,               \* packets handed to send() on the current connection
    delivered,          \* packets handed to the receiver's handlers
    intact              \* every write so far was taken whole

vars == <<sent, delivered, intact>>

Init == /\ sent = <<>>
        /\ delivered = <<>>
        /\ intact = TRUE

Send == /\ \E p \in Packets : sent' = Append(sent, p)
        /\ intact' \in {intact, FALSE}
        /\ UNCHANGED delivered

Deliver == /\ intact
           /\ Len(delivered) < Len(sent)
           /\ delivered' = Append(delivered, sent[Len(delivered) + 1])
           /\ UNCHANGED <<sent, intact>>

\* After a torn write the receiver may take anything for a packet.
Garble == /\ ~intact
          /\ UNCHANGED <<sent, intact>>

\* The connection is lost and replaced: what was under way is gone.
Reset == /\ sent' = <<>>
         /\ delivered' = <<>>
         /\ intact' = TRUE

Next == Send \/ Deliver \/ Garble \/ Reset

Spec == Init /\ [][Next]_vars
=============================================================================

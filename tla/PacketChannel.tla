---------------------------- MODULE PacketChannel ----------------------------
(***************************************************************************)
(* What a connection promises to whoever reads packets from it: the        *)
(* packets that were sent, whole and in the order they were sent, until    *)
(* the connection is closed.                                               *)
(***************************************************************************)
EXTENDS Naturals, Sequences

CONSTANT Packets

VARIABLES sent, received, open

vars == <<sent, received, open>>

Init == sent = <<>> /\ received = <<>> /\ open = TRUE

Send == /\ open
        /\ \E p \in Packets : sent' = Append(sent, p)
        /\ UNCHANGED <<received, open>>

Deliver == /\ open
           /\ Len(received) < Len(sent)
           /\ received' = Append(received, sent[Len(received) + 1])
           /\ UNCHANGED <<sent, open>>

Close == open /\ open' = FALSE /\ UNCHANGED <<sent, received>>

Next == Send \/ Deliver \/ Close

Spec == Init /\ [][Next]_vars
=============================================================================

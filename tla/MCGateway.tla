----------------------------- MODULE MCGateway -----------------------------
(* Two handlers, one mailbox written in two ways, a bucket of two requests *)
(* that one tick refills by half a request, two ids in a millisecond.      *)
EXTENDS Gateway

MCMailbox == [e \in Emails |-> "ann@x"]
MCBounds ==
    {[requests |-> 5, ticks |-> 2, restarts |-> 0],
     [requests |-> 3, ticks |-> 2, restarts |-> 1]}
=============================================================================

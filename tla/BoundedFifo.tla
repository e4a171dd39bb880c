---------------------------- MODULE BoundedFifo ----------------------------
(***************************************************************************)
(* What exg-ringbuffer promises the rest of the server: a queue of at most *)
(* Capacity messages, between one producer and one consumer, from which    *)
(* messages leave in the order they entered, each exactly once.  The       *)
(* memory layout, the cursors and the threads' steps are in RingBuffer.    *)
(***************************************************************************)
EXTENDS Naturals, Sequences

CONSTANTS Messages,   \* what can be enqueued
          Capacity    \* slots of the queue

VARIABLES queue,      \* enqueued and not yet dequeued, oldest first
          delivered   \* every message dequeued so far

Init == queue = << >> /\ delivered = << >>

Enqueue(m) ==
    /\ Len(queue) < Capacity
    /\ queue' = Append(queue, m)
    /\ UNCHANGED delivered

Dequeue ==
    /\ queue # << >>
    /\ queue' = Tail(queue)
    /\ delivered' = Append(delivered, Head(queue))

Next == (\E m \in Messages : Enqueue(m)) \/ Dequeue

Spec == Init /\ [][Next]_<<queue, delivered>>
=============================================================================

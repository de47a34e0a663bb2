-------------------------------- MODULE Fifo ---------------------------------
(* What a ring buffer promises: a bounded first-in first-out queue. *)
EXTENDS Naturals, Sequences

CONSTANTS Bytes, Capacity

VARIABLE queue

Init == queue = << >>

Put(c) == Len(queue) < Capacity /\ queue' = Append(queue, c)
Get == queue # << >> /\ queue' = Tail(queue)

Next == Get \/ \E c \in Bytes : Put(c)

Spec == Init /\ [][Next]_queue
=============================================================================

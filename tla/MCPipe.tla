------------------------------- MODULE MCPipe --------------------------------
(* Instances of Pipe for TLC: processes that share a pipe, and idle. *)
EXTENDS Pipe

CONSTANTS p1, p2, p3

MCPriority == [t \in Threads |-> 1]
MCBootOrder == SelectSeq(<<p1, p2, p3, Idle>>, LAMBDA t : t \in Threads)
=============================================================================

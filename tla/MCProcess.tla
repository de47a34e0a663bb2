------------------------------ MODULE MCProcess ------------------------------
(* Instances of Process for TLC: what boot starts, and programs. *)
EXTENDS Process

CONSTANTS p1, p2

MCPriority == [t \in Threads |-> 0]
MCBootOrder == <<main, init, Idle>>
=============================================================================

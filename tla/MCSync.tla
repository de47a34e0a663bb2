------------------------------- MODULE MCSync --------------------------------
(* Instances of Sync for TLC: main, one process or two, and idle. *)
EXTENDS Sync

CONSTANTS main, init, shell

MCPriority == [t \in Threads |-> 1]
\* Every clock interrupt switches.
MCNoSlices == [t \in Threads |-> 0]
MCBootOrder == SelectSeq(<<main, init, Idle, shell>>, LAMBDA t : t \in Threads)
=============================================================================

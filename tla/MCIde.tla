-------------------------------- MODULE MCIde --------------------------------
(* Instances of Ide for TLC: main, processes and idle. *)
EXTENDS Ide

CONSTANTS main, p1, p2, hd0, hd1

MCPriority == [t \in Threads |-> 0]
MCBootOrder == SelectSeq(<<main, p1, p2, Idle>>, LAMBDA t : t \in Threads)

\* Two sectors of one drive, and the last sector of the other.
MCTransfers == {[dev |-> hd0, lba |-> 0, cnt |-> 2], [dev |-> hd1, lba |-> 1, cnt |-> 1]}
=============================================================================

----------------------------- MODULE MCKeyboard ------------------------------
(* Instances of Keyboard for TLC: processes that read stdin, and idle. *)
EXTENDS Keyboard

CONSTANTS shell, prog

MCPriority == [t \in Threads |-> 0]
MCBootOrder == SelectSeq(<<shell, prog, Idle>>, LAMBDA t : t \in Threads)
MCBytes == {"a", "A", "l", "L", "1", "!", "^l"}
=============================================================================

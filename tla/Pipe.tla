--------------------------------- MODULE Pipe --------------------------------
(***************************************************************************)
(* pipe_read and pipe_write of shell/pipe.c on one pipe, called by         *)
(* processes through read and write: system calls, with interrupts off.    *)
(* Creating, inheriting and closing the pipe is not part of this module.   *)
(***************************************************************************)
EXTENDS IoQueue

Smaller(a, b) == IF a > b THEN b ELSE a

\* A call that transfers size bytes; with none to transfer it returns.
Begin(t, s, size) ==
  /\ Running(t, "user")
  /\ left' = [left EXCEPT ![t] = size]
  /\ side' = [side EXCEPT ![t] = s]
  /\ Goto(t, IF size = 0 THEN "user" ELSE "test")
  /\ UNCHANGED <<k, q>>

\* Mutant: the reader takes as much as was asked for.
pipe_read_NoMin(t, count) == Begin(t, "consumer", count)

\* "the smaller of the two, so as not to block"
pipe_read(t, count) == Begin(t, "consumer", Smaller(ioq_length(q), count))
pipe_write(t, count) == Begin(t, "producer", Smaller(bufsize - ioq_length(q), count))

\* One turn of the loop, and the return after the last.
Transferred(t) ==
  /\ left' = [left EXCEPT ![t] = @ - 1]
  /\ Goto(t, IF left[t] = 1 THEN "user" ELSE "test")
  /\ UNCHANGED side

ReadByte(t) == Ready(t, "consumer") /\ GetByte /\ Transferred(t)
WriteByte(t, c) == Ready(t, "producer") /\ PutByte(c) /\ Transferred(t)

ProcessStep(t) ==
  \/ \E count \in 1 .. MaxCount : pipe_read(t, count) \/ pipe_write(t, count)
  \/ ReadByte(t)
  \/ \E c \in Bytes : WriteByte(t, c)
  \/ Wait(t) /\ UNCHANGED left

PipeNext == (\E t \in Clients : ProcessStep(t)) \/ IdleStep \/ Timer

PipeSpec == QueueInit /\ [][PipeNext]_queueVars

-----------------------------------------------------------------------------
\* Properties.

PipeTypeOK ==
  /\ QueueTypeOK
  /\ left \in [Threads -> Nat]
  /\ \A t \in Clients : pc[t] = "user" <=> left[t] = 0

Blocks(t) == pc[t] \in {"lock", "wait", "woken"}

\* pipe_read asks for no more than there is, and nothing can take it away
\* before it is read: a reader never sleeps.  pipe_write counts one byte of
\* space too many: a writer sleeps, but only with its last byte.
BlocksOnLastByte ==
  /\ PipeTypeOK
  /\ \A t \in Clients : Blocks(t) => side[t] = "producer" /\ left[t] = 1

=============================================================================

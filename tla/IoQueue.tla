------------------------------- MODULE IoQueue -------------------------------
(***************************************************************************)
(* The ring buffer of device/ioqueue.c, which holds the keys typed and the *)
(* bytes in a pipe.  Its functions assert that interrupts are off: nothing *)
(* interrupts them, and other threads run only while the caller sleeps on  *)
(* the queue's lock (label "lock") or in ioq_wait (label "woken").         *)
(*                                                                         *)
(* A thread in ioq_getchar works on the "consumer" side, one in            *)
(* ioq_putchar on the "producer" side; q[side] is the struct's pointer.    *)
(***************************************************************************)
EXTENDS Cpu

CONSTANTS bufsize,   \* 2048 in the code
          Bytes,
          MaxCount   \* the largest count a process passes to read or write

ASSUME bufsizeAssumption == bufsize \in Nat \ {0, 1}
ASSUME CountAssumption == MaxCount \in Nat

VARIABLES q,      \* struct ioqueue
          side,   \* which of the two functions a thread is in
          left    \* bytes each process has still to transfer in its system call

queueVars == <<k, pc, q, side, left>>

Sides == {"consumer", "producer"}

Positions == 0 .. bufsize - 1

IoQueueState ==
  [lock : LockState, producer : Threads \cup {NULL}, consumer : Threads \cup {NULL},
   buf : [Positions -> Bytes \cup {NULL}], head : Positions, tail : Positions]

ioqueue_init ==
  [lock |-> lock_init, producer |-> NULL, consumer |-> NULL,
   buf |-> [i \in Positions |-> NULL], head |-> 0, tail |-> 0]

QueueInit ==
  /\ InitScheduler
  /\ pc = [t \in Threads |-> IF t = Idle THEN "block" ELSE "user"]
  /\ q = ioqueue_init
  /\ side = [t \in Threads |-> "consumer"]
  /\ left = [t \in Threads |-> 0]

next_pos(pos) == (pos + 1) % bufsize

\* Mutant: full one position too late, when it can no longer be told from empty.
ioq_full_TooLate(x) == x.head = x.tail /\ x.buf[x.head] # NULL

ioq_full(x) == next_pos(x.head) = x.tail
ioq_empty(x) == x.head = x.tail

ioq_length(x) ==
  IF x.head >= x.tail THEN x.head - x.tail ELSE bufsize - (x.tail - x.head)

-----------------------------------------------------------------------------

\* The condition of the while loop of ioq_getchar and of ioq_putchar.
MustWait(t) == IF side[t] = "consumer" THEN ioq_empty(q) ELSE ioq_full(q)

\* Mutant: the thread goes to sleep without the lock.
Acquire_NoLock(t) ==
  /\ Running(t, "test") /\ MustWait(t)
  /\ Goto(t, "wait")
  /\ UNCHANGED <<k, q, side>>

\* lock_acquire(&ioq->lock), never by its holder.  Once a thread sleeps on the lock it does not
\* look at the buffer again before ioq_wait.
Acquire(t) ==
  /\ (Running(t, "test") /\ MustWait(t)) \/ Running(t, "lock")
  /\ \/ /\ q.lock.sema.value = 0
        /\ k' = DownBlock(k, q.lock.sema)
        /\ q' = [q EXCEPT !.lock.sema = DownWaiters(k, @)]
        /\ Goto(t, "lock")
     \/ /\ q.lock.sema.value # 0
        /\ k' = Assert(q.lock.repeat = 0, DownTaken(k, q.lock.sema))
        /\ q' = [q EXCEPT !.lock = [holder |-> t, repeat |-> 1, sema |-> DownTake(@.sema)]]
        /\ Goto(t, "wait")
  /\ UNCHANGED side

\* ioq_wait(&ioq->consumer) or ioq_wait(&ioq->producer)
ioq_wait(t) ==
  /\ Running(t, "wait")
  /\ k' = thread_block(Assert(q[side[t]] = NULL, k), "TASK_BLOCKED")
  /\ q' = [q EXCEPT ![side[t]] = t]
  /\ Goto(t, "woken")
  /\ UNCHANGED side

\* lock_release(&ioq->lock), then back to the test.
Release(t) ==
  /\ Running(t, "woken")
  /\ k' = UpWake(Assert(q.lock.holder = t /\ q.lock.repeat = 1, k), q.lock.sema)
  /\ q' = [q EXCEPT !.lock = [holder |-> NULL, repeat |-> 0, sema |-> Up(@.sema)]]
  /\ Goto(t, "test")
  /\ UNCHANGED side

Wait(t) == Acquire(t) \/ ioq_wait(t) \/ Release(t)

\* wakeup(&ioq->..), if somebody sleeps there.
WakeOther(s) ==
  k' = IF q[s] = NULL THEN k ELSE thread_unblock(k, q[s])

\* The rest of ioq_putchar; an interrupt handler gets here without waiting.
PutByte(c) ==
  /\ q' = [q EXCEPT !.buf[q.head] = c, !.head = next_pos(@), !.consumer = NULL]
  /\ WakeOther("consumer")

\* The rest of ioq_getchar.
GetByte ==
  /\ q' = [q EXCEPT !.tail = next_pos(@), !.producer = NULL]
  /\ WakeOther("producer")

\* The two functions once there is nothing to wait for.
Ready(t, s) == Running(t, "test") /\ side[t] = s /\ ~MustWait(t)

\* System calls run with interrupts off.
InterruptsOn == pc[k.cur] \in {"user"} \cup IdleLabels
IdleStep == (IdleBlock \/ IdleHalt) /\ UNCHANGED <<q, side, left>>
Timer == ClockInterrupt(InterruptsOn) /\ UNCHANGED <<q, side, left>>

-----------------------------------------------------------------------------
\* Properties of every use of the queue.

QueueLabels == {"user", "test", "lock", "wait", "woken"}

QueueTypeOK ==
  /\ k \in SchedulerState
  /\ q \in IoQueueState
  /\ pc \in [Threads -> QueueLabels \cup IdleLabels]
  /\ side \in [Threads -> Sides]

\* The lock is what keeps two sleepers from overwriting each other: a thread
\* recorded as sleeping is the one that holds the lock, and it is blocked, so
\* that no ASSERT of ioqueue.c, sync.c or thread.c fires.  Whoever queues for
\* the lock waits for a thread that can still release it.
SleeperHoldsLock ==
  /\ ~k.panic
  /\ \A s \in Sides :
       q[s] # NULL =>
         /\ q.lock.holder = q[s] /\ side[q[s]] = s
         /\ pc[q[s]] = "woken" /\ k.status[q[s]] = "TASK_BLOCKED"
  /\ q.lock.sema.waiters # << >> /\ q.lock.sema.value = 0 =>
       q.lock.holder # NULL /\ pc[q.lock.holder] \in {"wait", "woken"}

\* The bytes in the buffer, oldest first.
Contents == [i \in 1 .. ioq_length(q) |-> q.buf[(q.tail + i - 1) % bufsize]]

F == INSTANCE Fifo WITH queue <- Contents, Capacity <- bufsize - 1

\* However readers, writers and interrupts interleave and wrap around, the
\* buffer is a queue of at most bufsize - 1 bytes: none lost, none twice, none
\* out of order.
ImplementsFifo == F!Spec

=============================================================================

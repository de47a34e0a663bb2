------------------------------ MODULE Semaphore ------------------------------
(***************************************************************************)
(* struct semaphore of thread/sync.c.  sema_down and sema_up run with      *)
(* interrupts off; sema_down gives up the CPU in thread_block and tests    *)
(* the value again when it is back, so its loop body is one step, and the  *)
(* two ways out of the test are the operators below.                       *)
(***************************************************************************)
EXTENDS Scheduler

CONSTANT NULL

ASSUME NullAssumption == NULL \notin Threads

SemaphoreState == [value : Nat, waiters : Seq(Threads)]

\* sema_init
sema_init(value) == [value |-> value, waiters |-> << >>]

InWaiters(s, t) == t \in Range(s.waiters)

\* Mutant: new waiters overtake the older ones.
DownWaiters_Front(k, s) == [s EXCEPT !.waiters = <<k.cur>> \o @]

\* sema_down, value 0: the running thread joins the waiters and blocks.
DownWaiters(k, s) == [s EXCEPT !.waiters = Append(@, k.cur)]
DownBlock(k, s) == thread_block(Assert(~InWaiters(s, k.cur), k), "TASK_BLOCKED")

\* sema_down, value 1: it is taken.  The code asserts that 0 is left.
DownTake(s) == [s EXCEPT !.value = @ - 1]
DownTaken(k, s) == Assert(s.value - 1 = 0, k)

\* Mutant: the woken waiter stays on the list.
Up_NoPop(s) == [s EXCEPT !.value = @ + 1]

\* sema_up: the first waiter is made ready and taken off the list BEFORE the
\* value is raised; it has to find the value raised when it runs.
Up(s) ==
  [s EXCEPT !.value = @ + 1,
            !.waiters = IF @ = << >> THEN @ ELSE Tail(@)]
UpWake(k, s) ==
  Assert(s.value = 0,
         IF s.waiters = << >> THEN k ELSE thread_unblock(k, Head(s.waiters)))

\* struct lock: a binary semaphore, who took it and how many times.
LockState ==
  [holder : Threads \cup {NULL}, repeat : Nat, sema : SemaphoreState]

lock_init == [holder |-> NULL, repeat |-> 0, sema |-> sema_init(1)]

=============================================================================

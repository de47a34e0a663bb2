------------------------------ MODULE Scheduler ------------------------------
(***************************************************************************)
(* The run queue of thread/thread.c: what schedule, thread_block,          *)
(* thread_unblock, thread_yield and the clock interrupt do to it.          *)
(*                                                                         *)
(* Every one of these functions runs with interrupts off on the only CPU,  *)
(* so each is one operator from the scheduler state before the call to the *)
(* state after it.  A handler that makes several calls composes them.  The *)
(* scheduler state is a record k with                                      *)
(*   k.status   task_struct.status of each thread                          *)
(*   k.ready    thread_ready_list, front first                             *)
(*   k.cur      the thread on the CPU (running_thread())                   *)
(*   k.ticks    task_struct.ticks, what is left of each time slice         *)
(*   k.panic    an ASSERT or PANIC has fired: panic_spin never returns     *)
(***************************************************************************)
EXTENDS Naturals, Sequences, Functions

CONSTANTS Threads,    \* every task_struct the kernel may have
          Idle,       \* idle_thread
          Priority    \* task_struct.priority of each thread

ASSUME ThreadsAssumption ==
  /\ Idle \in Threads
  /\ Priority \in [Threads -> Nat]

\* The statuses thread_block accepts and thread_unblock ends.
Blocked == {"TASK_BLOCKED", "TASK_WAITING", "TASK_HANGING"}

\* enum task_status, and "NONE" for a task_struct that is not allocated.
Status == {"TASK_RUNNING", "TASK_READY", "TASK_DIED", "NONE"} \cup Blocked

SchedulerState ==
  [status : [Threads -> Status],
   ready  : Seq(Threads),
   cur    : Threads,
   ticks  : [Threads -> Nat],
   panic  : BOOLEAN]

-----------------------------------------------------------------------------

\* ASSERT(cond): when it fails the kernel spins with interrupts off.
Assert(cond, k) == IF cond THEN k ELSE [k EXCEPT !.panic = TRUE]

\* The list is linked through general_tag: elem_find(&thread_ready_list, ..).
InReadyList(k, t) == t \in Range(k.ready)

\* thread_unblock: the woken thread goes to the FRONT of the ready list.
thread_unblock(k, t) ==
  IF k.status[t] \in Blocked /\ ~InReadyList(k, t)
  THEN [k EXCEPT !.ready = <<t>> \o @, !.status[t] = "TASK_READY"]
  ELSE [k EXCEPT !.panic = TRUE]

\* Mutant: a thread that blocks is queued like one whose slice is over.
Requeue_Always(k) ==
  [k EXCEPT !.ready = Append(@, k.cur), !.ticks[k.cur] = Priority[k.cur],
            !.status[k.cur] = IF @ = "TASK_RUNNING" THEN "TASK_READY" ELSE @]

\* Mutant: it is pushed in front of the others instead.
Requeue_Front(k) ==
  IF k.status[k.cur] # "TASK_RUNNING" THEN k
  ELSE [k EXCEPT !.ready = <<k.cur>> \o @, !.ticks[k.cur] = Priority[k.cur],
                 !.status[k.cur] = "TASK_READY"]

\* A thread whose slice is over goes to the tail with a full slice; one that
\* is blocking, yielding or dying was already dealt with by the caller.
Requeue(k) ==
  IF k.status[k.cur] # "TASK_RUNNING" THEN k
  ELSE Assert(~InReadyList(k, k.cur),
              [k EXCEPT !.ready = Append(@, k.cur),
                        !.ticks[k.cur] = Priority[k.cur],
                        !.status[k.cur] = "TASK_READY"])

\* With nobody left to run, idle is woken.
WakeIdle(k) == IF k.ready = << >> THEN thread_unblock(k, Idle) ELSE k

\* list_pop and switch_to.
SwitchToHead(k) ==
  IF k.ready = << >> THEN [k EXCEPT !.panic = TRUE]
  ELSE [k EXCEPT !.cur = Head(k.ready),
                 !.ready = Tail(@),
                 !.status[Head(k.ready)] = "TASK_RUNNING"]

schedule(k) == SwitchToHead(WakeIdle(Requeue(k)))

\* thread_block(stat), called by the running thread.
thread_block(k, stat) == schedule([k EXCEPT !.status[k.cur] = stat])

\* thread_yield: to the tail, but with what is left of the time slice.
thread_yield(k) ==
  schedule(Assert(~InReadyList(k, k.cur),
                  [k EXCEPT !.ready = Append(@, k.cur),
                            !.status[k.cur] = "TASK_READY"]))

\* intr_timer_handler.
intr_timer_handler(k) ==
  IF k.ticks[k.cur] = 0 THEN schedule(k)
  ELSE [k EXCEPT !.ticks[k.cur] = @ - 1]

-----------------------------------------------------------------------------
\* What every one of these operations keeps true of the run queue.

\* No thread is linked twice into the ready list.
NoDuplicates(s) == \A i, j \in DOMAIN s : s[i] = s[j] => i = j

\* The ready list holds exactly the threads that are TASK_READY.
ReadyListIsReady(k) ==
  \A t \in Threads : t \in Range(k.ready) <=> k.status[t] = "TASK_READY"

\* The running thread, and no other, is TASK_RUNNING.
OneRunning(k) ==
  \A t \in Threads : t = k.cur <=> k.status[t] = "TASK_RUNNING"

\* Idle blocks only in its own loop, so schedule can always wake it.
IdleCanRun(k) ==
  k.status[Idle] \in {"TASK_RUNNING", "TASK_READY", "TASK_BLOCKED"}

RunQueueOK(k) ==
  /\ k \in SchedulerState
  /\ k.panic = FALSE
  /\ NoDuplicates(k.ready)
  /\ ReadyListIsReady(k)
  /\ OneRunning(k)
  /\ IdleCanRun(k)

=============================================================================

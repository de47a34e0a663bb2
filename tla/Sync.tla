-------------------------------- MODULE Sync ---------------------------------
(***************************************************************************)
(* Threads, the clock interrupt and the re-entrant locks of thread/sync.c. *)
(*                                                                         *)
(* Kernel threads run with interrupts on, so the clock may take the CPU    *)
(* away between any two statements of lock_acquire and lock_release; each  *)
(* statement that touches the lock is a step.  User processes reach the    *)
(* locks through the interrupt gate of a system call, with interrupts off: *)
(* for them the same steps run back to back unless sema_down blocks.       *)
(***************************************************************************)
EXTENDS Cpu

CONSTANTS KThreads,   \* threads that run kernel code with interrupts on
          LockIds,    \* the kernel's locks
          MaxRepeat   \* bound on holder_repeat_nr (a uint32_t in the code)

ASSUME SyncAssumption ==
  /\ KThreads \subseteq Threads \ {Idle}
  /\ Range(BootOrder) = Threads
  /\ MaxRepeat \in Nat \ {0}
  /\ NULL \notin LockIds

VARIABLES lock,   \* lock[l]: holder, holder_repeat_nr and semaphore
          arg,    \* the lock that a thread inside the lock functions works on
          intr    \* the interrupt flag of each thread's own context

vars == <<k, lock, pc, arg, intr>>

\* "run"    outside the lock functions
\* "down"   lock_acquire saw another holder and is about to call sema_down
\* "sleep"  in sema_down's loop, interrupts off, to test the value again
\* "own"    semaphore taken, holder not yet set
\* "count"  holder set, holder_repeat_nr not yet
\* "clear"  lock_release cleared the holder, not yet the count
\* "up"     about to call sema_up
ClientLabels == {"run", "down", "sleep", "own", "count", "clear", "up"}

Init ==
  /\ InitScheduler
  /\ lock = [l \in LockIds |-> lock_init]
  /\ pc = [t \in Threads |-> IF t = Idle THEN "block" ELSE "run"]
  /\ arg = [t \in Threads |-> NULL]
  /\ intr = [t \in Threads |-> TRUE]

-----------------------------------------------------------------------------

\* Kernel threads always execute kernel code, processes in a system call.
InKernel(t) == t \in KThreads \/ ~intr[t]
Holds(t, l) == lock[l].holder = t

\* int 0x80 through an interrupt gate clears IF; iret sets it again.
Syscall(t) ==
  /\ Running(t, "run") /\ ~InKernel(t)
  /\ intr' = [intr EXCEPT ![t] = FALSE]
  /\ UNCHANGED <<k, lock, pc, arg>>

\* No system call returns with a lock held.
SyscallReturn(t) ==
  /\ Running(t, "run") /\ ~intr[t]
  /\ \A l \in LockIds : ~Holds(t, l)
  /\ intr' = [intr EXCEPT ![t] = TRUE]
  /\ UNCHANGED <<k, lock, pc, arg>>

\* lock_acquire up to sema_down: the holder is tested without protection.
lock_acquire(t, l) ==
  /\ Running(t, "run") /\ InKernel(t)
  /\ \/ /\ ~Holds(t, l)
        /\ Goto(t, "down")
        /\ arg' = [arg EXCEPT ![t] = l]
        /\ UNCHANGED lock
     \/ /\ Holds(t, l)
        /\ lock[l].repeat < MaxRepeat
        /\ lock' = [lock EXCEPT ![l].repeat = @ + 1]
        /\ UNCHANGED <<pc, arg>>
  /\ UNCHANGED <<k, intr>>

\* Mutant: "if" for "while", a woken thread does not test the value again.
sema_down_If(t) ==
  LET s == lock[arg[t]].sema IN
  /\ \/ /\ Running(t, "down") /\ s.value = 0
        /\ k' = DownBlock(k, s)
        /\ lock' = [lock EXCEPT ![arg[t]].sema = DownWaiters(k, s)]
        /\ Goto(t, "sleep")
     \/ /\ Running(t, "sleep") \/ (Running(t, "down") /\ s.value # 0)
        /\ lock' = [lock EXCEPT ![arg[t]].sema.value = 0]
        /\ Goto(t, "own")
        /\ UNCHANGED k
  /\ UNCHANGED <<arg, intr>>

\* One test of sema_down's loop, on entry and after every wake-up.
sema_down(t) ==
  LET s == lock[arg[t]].sema IN
  /\ Running(t, "down") \/ Running(t, "sleep")
  /\ \/ /\ s.value = 0
        /\ k' = DownBlock(k, s)
        /\ lock' = [lock EXCEPT ![arg[t]].sema = DownWaiters(k, s)]
        /\ Goto(t, "sleep")
     \/ /\ s.value # 0
        /\ k' = DownTaken(k, s)
        /\ lock' = [lock EXCEPT ![arg[t]].sema = DownTake(s)]
        /\ Goto(t, "own")
  /\ UNCHANGED <<arg, intr>>

\* lock_acquire after sema_down, two assignments.
SetHolder(t) ==
  /\ Running(t, "own")
  /\ lock' = [lock EXCEPT ![arg[t]].holder = t]
  /\ Goto(t, "count")
  /\ UNCHANGED <<k, arg, intr>>

SetRepeat(t) ==
  /\ Running(t, "count")
  /\ k' = Assert(lock[arg[t]].repeat = 0, k)
  /\ lock' = [lock EXCEPT ![arg[t]].repeat = 1]
  /\ Goto(t, "run")
  /\ UNCHANGED <<arg, intr>>

\* Mutant: every release is the last one.
lock_release_NoCount(t, l) ==
  /\ Running(t, "run") /\ InKernel(t) /\ Holds(t, l)
  /\ lock' = [lock EXCEPT ![l].holder = NULL]
  /\ Goto(t, "clear")
  /\ arg' = [arg EXCEPT ![t] = l]
  /\ UNCHANGED <<k, intr>>

\* lock_release up to clearing the holder.  Callers release what they hold.
lock_release(t, l) ==
  /\ Running(t, "run") /\ InKernel(t) /\ Holds(t, l)
  /\ \/ /\ lock[l].repeat > 1
        /\ lock' = [lock EXCEPT ![l].repeat = @ - 1]
        /\ UNCHANGED <<k, pc, arg>>
     \/ /\ ~(lock[l].repeat > 1)
        /\ k' = Assert(lock[l].repeat = 1, k)
        /\ lock' = [lock EXCEPT ![l].holder = NULL]
        /\ Goto(t, "clear")
        /\ arg' = [arg EXCEPT ![t] = l]
  /\ UNCHANGED intr

\* Mutant: the count is not reset.
ClearRepeat_Dropped(t) ==
  /\ Running(t, "clear")
  /\ Goto(t, "up")
  /\ UNCHANGED <<k, lock, arg, intr>>

ClearRepeat(t) ==
  /\ Running(t, "clear")
  /\ lock' = [lock EXCEPT ![arg[t]].repeat = 0]
  /\ Goto(t, "up")
  /\ UNCHANGED <<k, arg, intr>>

\* Mutant: the value is raised but no waiter is woken.
sema_up_NoWake(t) ==
  /\ Running(t, "up")
  /\ lock' = [lock EXCEPT ![arg[t]].sema.value = @ + 1]
  /\ Goto(t, "run")
  /\ UNCHANGED <<k, arg, intr>>

sema_up(t) ==
  LET s == lock[arg[t]].sema IN
  /\ Running(t, "up")
  /\ k' = UpWake(k, s)
  /\ lock' = [lock EXCEPT ![arg[t]].sema = Up(s)]
  /\ Goto(t, "run")
  /\ UNCHANGED <<arg, intr>>

\* The device waits of the kernel give the CPU up without blocking.
Yield(t) ==
  /\ Running(t, "run") /\ InKernel(t)
  /\ k' = thread_yield(k)
  /\ UNCHANGED <<lock, pc, arg, intr>>

-----------------------------------------------------------------------------

IdleStep == (IdleBlock \/ IdleHalt) /\ UNCHANGED <<lock, arg, intr>>

\* Interrupts are on in user mode, in a kernel thread outside sema_down's
\* loop and in idle.
Timer ==
  /\ ClockInterrupt(intr[k.cur] /\ pc[k.cur] # "sleep")
  /\ UNCHANGED <<lock, arg, intr>>

ClientStep(t) ==
  \/ Syscall(t) \/ SyscallReturn(t) \/ Yield(t)
  \/ sema_down(t) \/ SetHolder(t) \/ SetRepeat(t) \/ ClearRepeat(t) \/ sema_up(t)
  \/ \E l \in LockIds : lock_acquire(t, l) \/ lock_release(t, l)

Next ==
  \/ \E t \in Clients : ClientStep(t)
  \/ IdleStep \/ Timer

Spec == Init /\ [][Next]_vars

-----------------------------------------------------------------------------
\* Properties.

TypeOK ==
  /\ k \in SchedulerState
  /\ lock \in [LockIds -> LockState]
  /\ pc \in [Threads -> ClientLabels \cup IdleLabels]
  /\ \A t \in Threads : t = Idle <=> pc[t] \in IdleLabels
  /\ arg \in [Threads -> LockIds \cup {NULL}]
  /\ \A t \in Clients : pc[t] # "run" => arg[t] \in LockIds
  /\ intr \in [Threads -> BOOLEAN]

\* No ASSERT or PANIC of thread.c or sync.c can fire, whatever the order in
\* which the clock takes the CPU away: schedule always finds a thread,
\* thread_unblock only meets blocked threads, the semaphore stays binary,
\* a new owner finds holder_repeat_nr 0.
NoPanic == k.panic = FALSE

\* The threads that lock l belongs to, from the moment sema_down lets one
\* through to the moment its sema_up has run.
At(t, l, labels) == arg[t] = l /\ pc[t] \in labels
Owners(l) ==
  {t \in Clients : Holds(t, l) \/ At(t, l, {"own", "count", "clear", "up"})}

\* A lock has at most one owner, and is free exactly when its semaphore is 1:
\* the holder field, which is tested with interrupts on, and the semaphore,
\* which is not, never tell a different story.
MutualExclusion ==
  \A l \in LockIds :
    /\ \A t, u \in Owners(l) : t = u
    /\ lock[l].sema.value = IF Owners(l) = {} THEN 1 ELSE 0

\* The holder and the count describe the owner at every statement: a thread
\* that waits in lock_acquire is never the holder, a thread that holds the
\* lock has counted it, and whoever gets the lock next finds a count of 0.
HolderOK ==
  \A l \in LockIds :
    /\ lock[l].holder # Idle
    /\ Owners(l) = {} => lock[l].repeat = 0
    /\ \A t \in Clients :
         /\ At(t, l, {"own", "clear", "up"}) => lock[l].holder = NULL
         /\ At(t, l, {"down", "sleep"}) => ~Holds(t, l)
         /\ At(t, l, {"count"}) => Holds(t, l)
         /\ At(t, l, {"own", "count", "up"}) => lock[l].repeat = 0
         /\ Holds(t, l) /\ ~At(t, l, {"count"}) => lock[l].repeat >= 1

\* All lists are linked through the one general_tag of a thread, so no
\* thread may ever be in two of them, or twice in one: the ready list holds
\* the TASK_READY threads and the waiters of the locks the blocked ones.
OneList ==
  /\ RunQueueOK(k)
  /\ \A l \in LockIds : NoDuplicates(lock[l].sema.waiters)
  /\ \A t \in Clients, l \in LockIds :
       InWaiters(lock[l].sema, t) <=>
         k.status[t] = "TASK_BLOCKED" /\ pc[t] = "sleep" /\ arg[t] = l
  /\ \A l \in LockIds : ~InWaiters(lock[l].sema, Idle)

\* sema_up wakes one waiter and leaves the semaphore free, so another thread
\* may overtake it.  Nobody is forgotten all the same: while a lock is free
\* and has waiters, a thread that will test its semaphore is on its way.
NoLostWakeup ==
  \A l \in LockIds :
    lock[l].sema.value = 1 /\ lock[l].sema.waiters # << >> =>
      \E t \in Clients : /\ arg[t] = l /\ pc[t] = "sleep"
                         /\ k.status[t] \in {"TASK_READY", "TASK_RUNNING"}

\* The inductive invariant: each part needs the others.
IInv == TypeOK /\ OneList /\ MutualExclusion /\ HolderOK /\ NoLostWakeup

-----------------------------------------------------------------------------
\* The locks implement the abstract Mutex.

\* A thread's lock_release takes effect when the count is cleared; nobody can
\* take the lock before the sema_up that follows.
LockUsers(l) == {t \in Clients : Holds(t, l) \/ At(t, l, {"own", "count", "clear"})}

lockOwner ==
  [l \in LockIds |-> IF LockUsers(l) = {} THEN NULL
                     ELSE CHOOSE t \in LockUsers(l) : TRUE]

\* holder_repeat_nr is still 0 when lock_acquire has only just got the lock.
lockDepth ==
  [l \in LockIds |-> CASE LockUsers(l) = {} -> 0
                       [] LockUsers(l) # {} /\ lock[l].repeat = 0 -> 1
                       [] OTHER -> lock[l].repeat]

M == INSTANCE Mutex WITH owner <- lockOwner, depth <- lockDepth

\* Seen through owner and depth, every interleaving of the steps of
\* lock_acquire, lock_release, sema_down and sema_up is a behaviour of the
\* abstract lock: a lock is given away only when it is free, and freed only
\* by the release that matches the first acquisition.
ImplementsMutex == M!Spec

-----------------------------------------------------------------------------
\* Liveness.

\* The clock never stops, and no system call keeps interrupts off for ever.
ClockTicks == []<><<Timer>>_vars

\* A thread that gets the CPU again and again executes instructions: it goes
\* on inside the lock functions, and ends its critical sections.
Progress(t) ==
  \/ sema_down(t) \/ SetHolder(t) \/ SetRepeat(t) \/ ClearRepeat(t) \/ sema_up(t)
  \/ \E l \in LockIds : lock_release(t, l)

FairSpec == Spec /\ ClockTicks /\ \A t \in Clients : SF_vars(Progress(t))

\* A ready thread gets the CPU, although thread_unblock puts woken threads in
\* front of it again and again: a woken thread keeps what was left of its
\* time slice, so the clock sends it to the tail in the end.
ReadyRuns ==
  \A t \in Clients :
    k.status[t] = "TASK_READY" ~> k.status[t] = "TASK_RUNNING"

\* A thread blocked on a lock is woken, even when others overtake the ones
\* that sema_up woke: each release takes the head of the waiters, and a
\* thread that was overtaken queues up behind.
WaiterIsWoken ==
  \A t \in Clients :
    k.status[t] = "TASK_BLOCKED" ~> k.status[t] = "TASK_READY"
=============================================================================

------------------------------- MODULE Process -------------------------------
(***************************************************************************)
(* The life of processes: sys_fork (userprog/fork.c), sys_wait and         *)
(* sys_exit (userprog/wait_exit.c), the name that sys_execv sets, and      *)
(* thread_exit and the pid pool (thread/thread.c).  They are system calls, *)
(* with interrupts off, and give up the CPU only where they block.         *)
(*                                                                         *)
(* A process has a kernel page for its task_struct, one for its page       *)
(* directory, and several for the bitmap of its own address space.  The    *)
(* frames of user pages and of page tables, the open files and the locks   *)
(* of the pools, which nobody holds here across a step, are left out.      *)
(***************************************************************************)
EXTENDS Cpu, Integers, FiniteSets

CONSTANTS init, shell, main,   \* the processes and the thread that boot starts
          MaxPid,              \* pids are 1 .. MaxPid, 1024 in the code
          KPages,              \* bits of kernel_vaddr's bitmap, and frames
          btmp_bytes_len,      \* bytes of a process's bitmap, 94199 in the code
          PG_SIZE,             \* 4096
          PathLens             \* lengths of the paths passed to execv

ASSUME ProcessAssumption ==
  /\ {init, shell, main} \subseteq Threads \ {Idle} /\ shell \notin {init, main}
  /\ BootOrder = <<main, init, Idle>>
  /\ \A t \in Threads \ {main, Idle} : Priority[t] = Priority[init]
  /\ MaxPid \in Nat /\ MaxPid >= 3
  /\ PG_SIZE \in Nat \ {0} /\ btmp_bytes_len \in Nat /\ btmp_bytes_len >= PG_SIZE
  /\ KPages \in Nat /\ KPages >= (btmp_bytes_len + PG_SIZE - 1) \div PG_SIZE + 3
  /\ PathLens \subseteq Nat

VARIABLES all,      \* thread_all_list, oldest first
          pid,      \* pid of each thread, 0 for a free task_struct
          parent,   \* parent_pid
          name,     \* length of the name
          pids,     \* the bits set in pid_pool
          used,     \* the bits set in kernel_vaddr's bitmap
          page      \* the pages of each thread: pcb, pgdir, first of bits

vars == <<k, pc, all, pid, parent, name, pids, used, page>>

NoParent == -1
NameLimit == 11     \* ASSERT(strlen(child_thread->name) < 11)
ForkSuffix == 5     \* strlen("_fork")
NameMax == 15       \* TASK_NAME_LEN - 1

-----------------------------------------------------------------------------
\* The kernel's pages.

\* DIV_ROUND_UP(.., PG_SIZE) when the bitmap is allocated, / PG_SIZE when it
\* is released.
AllocPages == (btmp_bytes_len + PG_SIZE - 1) \div PG_SIZE
ReleasePages == btmp_bytes_len \div PG_SIZE

Pages(first, n) == first .. first + n - 1

\* bitmap_scan: the first run of n free bits.  A run of several bits may end
\* one past the end of the bitmap (see module Bitmap).
Runs(map, n) == {i \in 0 .. KPages - n + (IF n > 1 THEN 1 ELSE 0) : Pages(i, n) \cap map = {}}
FirstRun(map, n) == CHOOSE i \in Runs(map, n) : \A j \in Runs(map, n) : i <= j
Take(map, n) == map \cup Pages(FirstRun(map, n), n)

\* Every page has a frame of kernel_pool.  The scan of a bitmap without any
\* free bit, of pages or of frames, stops the kernel.
Exhausted(map, n) == Cardinality(map) + n > KPages \/ Runs(map, 1) = {}

NoPages == [pcb |-> -1, pgdir |-> -1, bits |-> -1]

\* process_execute(init), make_main_thread, thread_start("idle").
Init ==
  /\ InitScheduler
  /\ pc = [t \in Threads |-> IF t = Idle THEN "block" ELSE IF t = main THEN "main"
                             ELSE IF t = init THEN "boot" ELSE "user"]
  /\ all = <<init, main, Idle>>
  /\ pid = [t \in Threads |-> IF t = init THEN 1 ELSE IF t = main THEN 2
                              ELSE IF t = Idle THEN 3 ELSE 0]
  /\ parent = [t \in Threads |-> NoParent]
  /\ name = [t \in Threads |-> 4]
  /\ pids = {1, 2, 3}
  /\ used = Pages(0, AllocPages + 3)
  /\ page = [t \in Threads |->
               IF t = init THEN [pcb |-> 0, bits |-> 1, pgdir |-> AllocPages + 1]
               ELSE IF t = Idle THEN [NoPages EXCEPT !.pcb = AllocPages + 2]
               ELSE NoPages]

-----------------------------------------------------------------------------
\* fork

\* allocate_pid
NoFreePid == (1 .. MaxPid) \subseteq pids
FreePid == CHOOSE p \in (1 .. MaxPid) \ pids : \A r \in (1 .. MaxPid) \ pids : p <= r

\* fork claims a task_struct, the copy buffer, the bitmap and the directory.
AfterBuf == Take(Take(used, 1), 1)
AfterBits == Take(AfterBuf, AllocPages)

\* get_kernel_pages returns NULL only when no run of free pages is long enough,
\* so of the four only the bitmap can be refused.
NoRoomForBits ==
  /\ ~Exhausted(used, 2) /\ ~NoFreePid /\ Runs(AfterBuf, 1) # {}
  /\ Runs(AfterBuf, AllocPages) = {}

BitsClaimed ==
  /\ ~Exhausted(used, 2) /\ ~NoFreePid /\ ~Exhausted(AfterBuf, AllocPages)
  /\ Runs(AfterBuf, AllocPages) # {}

\* ASSERT(strlen(child_thread->name) < 11), on the copy of the parent's name
NameFits(t) == name[t] < NameLimit

ForkSucceeds(t) == BitsClaimed /\ NameFits(t) /\ ~Exhausted(AfterBits, 1)

Stop(t, label) ==
  /\ k' = [k EXCEPT !.panic = TRUE]
  /\ Goto(t, label)
  /\ UNCHANGED <<all, pid, parent, name, pids, used, page>>

\* Mutant: the child keeps its parent's bitmap.
ForkPages_SharedBits(t) ==
  [pcb |-> FirstRun(used, 1), bits |-> page[t].bits, pgdir |-> FirstRun(AfterBits, 1)]

ForkPages(t) ==
  [pcb |-> FirstRun(used, 1),
   bits |-> FirstRun(AfterBuf, AllocPages),
   pgdir |-> FirstRun(AfterBits, 1)]

\* The child gets the free task_struct c, and its parent goes on at next.
ForkInto(t, c, next) ==
  /\ ForkSucceeds(t)
  /\ k.status[c] = "NONE"
  /\ pid' = [pid EXCEPT ![c] = FreePid]
  /\ pids' = pids \cup {FreePid}
  /\ parent' = [parent EXCEPT ![c] = pid[t]]
  /\ name' = [name EXCEPT ![c] = name[t] + ForkSuffix]
  /\ used' = Take(AfterBits, 1) \ {FirstRun(Take(used, 1), 1)}
  /\ page' = [page EXCEPT ![c] = ForkPages(t)]
  /\ k' = [k EXCEPT !.status[c] = "TASK_READY", !.ticks[c] = Priority[c],
                    !.ready = Append(@, c)]
  /\ all' = Append(all, c)
  /\ pc' = [pc EXCEPT ![t] = next, ![c] = IF c = shell THEN "shell" ELSE "user"]

\* fork returns -1 and gives nothing back of what it has claimed.
ForkFails(t, next) ==
  /\ NoRoomForBits
  /\ used' = AfterBuf
  /\ pids' = pids \cup {FreePid}
  /\ Goto(t, next)
  /\ UNCHANGED <<k, all, pid, parent, name, page>>

sys_fork(t, c, next) ==
  \/ ForkInto(t, c, next)
  \/ ForkFails(t, next)
  \/ BitsClaimed /\ ~NameFits(t) /\ Stop(t, "name")
  \/ ~BitsClaimed /\ ~NoRoomForBits /\ Stop(t, "full")
  \/ BitsClaimed /\ NameFits(t) /\ Exhausted(AfterBits, 1) /\ Stop(t, "full")

\* sys_execv, once the program is loaded.
sys_execv(t, len) ==
  /\ name' = [name EXCEPT ![t] = IF len > NameMax THEN NameMax ELSE len]
  /\ UNCHANGED <<k, pc, all, pid, parent, pids, used, page>>

-----------------------------------------------------------------------------
\* wait and exit

\* list_traversal: the first thread on thread_all_list that is in S
First(S) ==
  all[CHOOSE i \in DOMAIN all : all[i] \in S /\ \A j \in DOMAIN all : all[j] \in S => i <= j]

\* What list_traversal finds with find_hanging_child, and with find_child
HangingChildren(t) ==
  {c \in Range(all) : parent[c] = pid[t] /\ k.status[c] = "TASK_HANGING"}
Children(t) == {c \in Range(all) : parent[c] = pid[t]}

\* list_remove: what comes after c moves up.
Without(s, c) ==
  LET n == CHOOSE i \in DOMAIN s : s[i] = c
  IN  [j \in 1 .. Len(s) - 1 |-> s[IF j < n THEN j ELSE j + 1]]

\* Mutant: the thread stays on thread_all_list.
Unlist_Not(c) == all

\* list_remove(&thread_over->all_list_tag)
Unlist(c) == Without(all, c)

\* thread_exit, but for the ready list and schedule
ThreadGone(c) ==
  /\ all' = Unlist(c)
  /\ pids' = pids \ {pid[c]}
  /\ pid' = [pid EXCEPT ![c] = 0]
  /\ parent' = [parent EXCEPT ![c] = NoParent]
  /\ used' = used \ {page[c].pcb, page[c].pgdir}
  /\ page' = [page EXCEPT ![c] = NoPages]

\* One turn of the loop of sys_wait.  The caller goes on at next, or at none
\* when it has no child.
sys_wait(t, next, none) ==
  \/ /\ HangingChildren(t) # {}
     /\ LET c == First(HangingChildren(t)) IN
        /\ ThreadGone(c)
        /\ k' = [k EXCEPT !.status[c] = "NONE",
                          !.ready = IF InReadyList(k, c) THEN Without(@, c) ELSE @]
     /\ Goto(t, next)
     /\ UNCHANGED name
  \/ /\ HangingChildren(t) = {} /\ Children(t) = {}
     /\ Goto(t, none)
     /\ UNCHANGED <<k, all, pid, parent, name, pids, used, page>>
  \/ /\ HangingChildren(t) = {} /\ Children(t) # {}
     /\ k' = thread_block(k, "TASK_WAITING")
     /\ Goto(t, "wait")
     /\ UNCHANGED <<all, pid, parent, name, pids, used, page>>

\* list_traversal with init_adopt_a_child
Adopt(t) == [c \in Threads |-> IF parent[c] = pid[t] THEN 1 ELSE parent[c]]

\* pid2thread
WithPid(p) == {x \in Range(all) : pid[x] = p}

\* Mutants: the parent is never woken, or whatever it is doing.
WakeParent_Not(t) == k
WakeParent_Always(t) == thread_unblock(k, First(WithPid(parent[t])))

\* A parent that waits is woken.  sys_exit uses what pid2thread returns without
\* testing it for NULL; here that counts as a panic.
WakeParent(t) ==
  IF WithPid(parent[t]) = {} THEN [k EXCEPT !.panic = TRUE]
  ELSE LET p == First(WithPid(parent[t])) IN
       IF k.status[p] = "TASK_WAITING" THEN thread_unblock(k, p) ELSE k

sys_exit(t) ==
  /\ parent' = Adopt(t)
  /\ used' = used \ Pages(page[t].bits, ReleasePages)
  /\ k' = thread_block(Assert(parent[t] # NoParent, WakeParent(t)), "TASK_HANGING")
  /\ Goto(t, "gone")
  /\ UNCHANGED <<all, pid, name, pids, page>>

\* The end of main: thread_exit(running_thread(), true)
main_exit ==
  /\ Running(main, "main")
  /\ k' = schedule([k EXCEPT !.status[main] = "TASK_DIED"])
  /\ ThreadGone(main)
  /\ Goto(main, "gone")
  /\ UNCHANGED name

-----------------------------------------------------------------------------
\* Who calls what.

\* init: fork once, then wait for ever.
InitForks == Running(init, "boot") /\ sys_fork(init, shell, "init")
InitWaits == Running(init, "init") /\ sys_wait(init, "init", "init")

\* my_shell: fork a program and wait for it.  It never exits; when wait finds
\* no child it calls panic, which loops in user mode.
ShellForks == \E c \in Threads : Running(shell, "shell") /\ sys_fork(shell, c, "reap")
ShellWaits == Running(shell, "reap") /\ sys_wait(shell, "shell", "spin")

\* Programs make any system call.
Programs == Threads \ {init, shell, main, Idle}

ProgramForks(t) == \E c \in Threads : Running(t, "user") /\ sys_fork(t, c, "user")
ProgramExecs(t) == \E len \in PathLens : Running(t, "user") /\ sys_execv(t, len)
ProgramWaits(t) == Running(t, "user") /\ sys_wait(t, "user", "user")
ProgramExits(t) == Running(t, "user") /\ sys_exit(t)

\* A thread woken in sys_wait looks again, with interrupts still off.
WaitsOn(t) ==
  /\ Running(t, "wait")
  /\ \/ t = init /\ sys_wait(init, "init", "init")
     \/ t = shell /\ sys_wait(shell, "shell", "spin")
     \/ t \in Programs /\ sys_wait(t, "user", "user")

UserLabels == {"boot", "init", "shell", "reap", "spin", "user"}
InterruptsOn == pc[k.cur] \in UserLabels \cup {"main"} \cup IdleLabels

Others == <<all, pid, parent, name, pids, used, page>>

IdleStep == (IdleBlock \/ IdleHalt) /\ UNCHANGED Others
Timer == ClockInterrupt(InterruptsOn) /\ UNCHANGED Others

Next ==
  \/ InitForks \/ InitWaits
  \/ ShellForks \/ ShellWaits
  \/ \E t \in Programs : \/ ProgramForks(t) \/ ProgramExecs(t)
                         \/ ProgramWaits(t) \/ ProgramExits(t)
  \/ \E t \in Clients : WaitsOn(t)
  \/ main_exit
  \/ IdleStep \/ Timer

Spec == Init /\ [][Next]_vars

\* The clock ticks as long as interrupts are on again and again.  The kernel
\* goes on with a wait that was woken.  init and the shell call wait when they
\* have the CPU again and again; what programs do is their own choice.
FairSpec ==
  /\ Spec
  /\ SF_vars(Timer)
  /\ WF_vars(\E t \in Clients : WaitsOn(t))
  /\ SF_vars(InitWaits) /\ SF_vars(ShellWaits)

-----------------------------------------------------------------------------
\* Properties.

Live == {t \in Threads : k.status[t] \notin {"NONE", "TASK_DIED"}}

PageOrNone == -1 .. KPages

\* Names fit in TASK_NAME_LEN bytes, pids and pages in their bitmaps but for
\* the one page past the end.
TypeOK ==
  /\ k \in SchedulerState
  /\ all \in Seq(Threads)
  /\ pid \in [Threads -> 0 .. MaxPid]
  /\ parent \in [Threads -> {NoParent} \cup 1 .. MaxPid]
  /\ name \in [Threads -> 0 .. NameMax]
  /\ pids \subseteq 1 .. MaxPid
  /\ used \subseteq 0 .. KPages
  /\ page \in [Threads -> [pcb : PageOrNone, bits : PageOrNone, pgdir : PageOrNone]]

\* The kernel stops in fork, for want of room in a name or a bitmap, and
\* nowhere else: sys_exit always finds the parent and wakes it only when it
\* waits, and schedule always finds a thread to run.
PanicOnlyInFork == k.panic => pc[k.cur] \in {"full", "name"}

\* thread_all_list has every live thread once, and each has a pid of its own
\* that is taken in the pool: fork, exit, wait and reuse of pids keep the three
\* in step.  The parent_pid of a process is the pid of a process that can
\* still wait for it, although pids are used again.
ThreadTable ==
  /\ TypeOK
  /\ Range(all) = Live /\ NoDuplicates(all)
  /\ \A t \in Live : pid[t] \in pids
  /\ \A t, u \in Live : pid[t] = pid[u] => t = u
  /\ \A t \in Live \ {init, main, Idle} :
       \E p \in Live : pid[p] = parent[t] /\ k.status[p] # "TASK_HANGING"

\* A process sleeps in sys_wait only beside a child, and a process other than
\* init only while no child has ended: the exit that it waits for has not been
\* missed.
NoLostExit ==
  \A t \in Live : k.status[t] = "TASK_WAITING" =>
    /\ Children(t) # {}
    /\ t # init => HangingChildren(t) = {}

\* The pages of a thread; sys_exit gives back those of the bitmap.
Owned(t) ==
  ({page[t].pcb, page[t].pgdir} \ {-1}) \cup
    (IF page[t].bits = -1 \/ k.status[t] = "TASK_HANGING" THEN {}
     ELSE Pages(page[t].bits, AllocPages))

\* The kernel pages of a live thread are taken in the bitmap and no other
\* thread has them: sys_exit and thread_exit together never free a page twice
\* or too early.
PagesOwned ==
  /\ \A t \in Live : Owned(t) \subseteq used
  /\ \A t, u \in Live : t # u => Owned(t) \cap Owned(u) = {}

\* A program of the shell that has called exit is reaped, unless the kernel
\* stops.
ShellReaps ==
  \A t \in Programs :
    (k.status[t] = "TASK_HANGING" /\ parent[t] = pid[shell]) ~> (k.status[t] = "NONE" \/ k.panic)

\* "init keeps collecting the zombies here": the same for the processes that
\* init has adopted.
InitReaps ==
  \A t \in Programs :
    (k.status[t] = "TASK_HANGING" /\ parent[t] = 1) ~> (k.status[t] = "NONE" \/ k.panic)
=============================================================================

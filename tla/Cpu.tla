--------------------------------- MODULE Cpu ---------------------------------
(***************************************************************************)
(* The one CPU: the thread on it, the idle thread and the clock interrupt. *)
(* Components whose threads run on it extend this module; they say where   *)
(* each thread is (pc), what it does there, and when interrupts are on.    *)
(***************************************************************************)
EXTENDS Semaphore

CONSTANT BootOrder   \* the running thread, then the ready list, at the start

ASSUME BootAssumption ==
  /\ BootOrder \in Seq(Threads)
  /\ BootOrder # << >>
  /\ NoDuplicates(BootOrder)
  /\ Range(BootOrder) \subseteq Threads
  /\ Idle \in Range(BootOrder)
  /\ Head(BootOrder) # Idle

VARIABLES k,    \* the scheduler state, see module Scheduler
          pc    \* where in its code each thread is

Clients == Threads \ {Idle}

\* idle: before thread_block, between it and hlt, halted.
IdleLabels == {"block", "wake", "hlt"}

InitScheduler ==
  k = [status |-> [t \in Threads |-> IF t = Head(BootOrder) THEN "TASK_RUNNING"
                                     ELSE IF t \in Range(BootOrder) THEN "TASK_READY"
                                     ELSE "NONE"],
       ready  |-> Tail(BootOrder),
       cur    |-> Head(BootOrder),
       ticks  |-> Priority,
       panic  |-> FALSE]

Running(t, label) == k.panic = FALSE /\ k.cur = t /\ pc[t] = label
Goto(t, label) == pc' = [pc EXCEPT ![t] = label]

\* idle: while (1) { thread_block(TASK_BLOCKED); sti; hlt }
IdleBlock ==
  /\ Running(Idle, "block")
  /\ k' = thread_block(k, "TASK_BLOCKED")
  /\ Goto(Idle, "wake")

IdleHalt ==
  /\ Running(Idle, "wake")
  /\ Goto(Idle, "hlt")
  /\ UNCHANGED k

\* Any interrupt ends a hlt.
EndHalt == pc' = [pc EXCEPT ![k.cur] = IF @ = "hlt" THEN "block" ELSE @]

\* The clock interrupt, when interrupts are on.
ClockInterrupt(on) ==
  /\ k.panic = FALSE /\ on
  /\ k' = intr_timer_handler(k)
  /\ EndHalt

=============================================================================

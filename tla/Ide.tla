--------------------------------- MODULE Ide ---------------------------------
(***************************************************************************)
(* The disk driver, device/ide.c, on one channel with its drives, and the  *)
(* sleep of device/timer.c that busy_wait uses.  Processes call it in      *)
(* system calls, with interrupts off; main calls it while the system boots *)
(* with interrupts on.  The drive is not part of the code: it takes a      *)
(* command, needs some time, and requests an interrupt for every sector    *)
(* that it has read or written; a request waits until interrupts are on.   *)
(***************************************************************************)
EXTENDS Cpu, FiniteSets

CONSTANTS Kernel,       \* the threads that run with interrupts on
          Devices,      \* the drives of the channel
          max_lba,      \* the last sector of a drive
          Transfers,    \* what is asked for: [dev, lba, cnt]
          SecsMax,      \* sectors of one command, and values of a uint8_t: 256
          TimeLimit     \* 30 * 1000 in the code

ASSUME IdeAssumption ==
  /\ Kernel \subseteq Clients
  /\ max_lba \in Nat
  /\ Transfers \subseteq [dev : Devices, lba : Nat, cnt : Nat \ {0}]
  /\ \A x \in Transfers : x.lba + x.cnt - 1 <= max_lba
  /\ {SecsMax, TimeLimit} \subseteq Nat \ {0}

VARIABLES ch,       \* struct ide_channel: lock, expecting_intr, disk_done
          regs,     \* the device, address and sector count registers
          drive,    \* what the selected drive does
          irq,      \* an interrupt is requested
          disk,     \* the sectors of the drives
          call,     \* the arguments and locals of the call each thread is in
          buf,      \* the buffer of each thread
          ticked    \* a clock tick has come since the thread began to sleep

ideVars == <<ch, regs, drive, irq, disk, call, buf, ticked>>
vars == <<k, pc, ideVars>>

Sectors == 0 .. max_lba
NoCall == [op |-> "read", dev |-> CHOOSE d \in Devices : TRUE, lba |-> 0, cnt |-> 0,
           done |-> 0, time_limit |-> 0]

Init ==
  /\ InitScheduler
  /\ pc = [t \in Threads |-> IF t = Idle THEN "block" ELSE "user"]
  /\ ch = [lock |-> lock_init, expecting_intr |-> FALSE, disk_done |-> sema_init(0)]
  /\ regs = [dev |-> NoCall.dev, lba |-> 0, sect_cnt |-> 0]
  /\ drive = [state |-> "idle", op |-> "read", dev |-> NoCall.dev, lba |-> 0, left |-> 0, by |-> NULL]
  /\ irq = FALSE
  /\ disk = [d \in Devices |-> [s \in Sectors |-> NULL]]
  /\ call = [t \in Clients |-> NoCall]
  /\ buf = [t \in Clients |-> [s \in Sectors |-> NULL]]
  /\ ticked = [t \in Clients |-> FALSE]

\* A sector count goes through a uint8_t, in which 256 is 0.
Uint8(n) == n % SecsMax
FromUint8(n) == IF n = 0 THEN SecsMax ELSE n

\* How many sectors the next command transfers.
secs_op(c) == IF c.done + SecsMax <= c.cnt THEN SecsMax ELSE c.cnt - c.done

-----------------------------------------------------------------------------
\* ide_read and ide_write.

\* What a thread writes is its own name.
Call(t, op, x) ==
  /\ Running(t, "user")
  /\ call' = [call EXCEPT ![t] = [op |-> op, dev |-> x.dev, lba |-> x.lba, cnt |-> x.cnt,
                                  done |-> 0, time_limit |-> 0]]
  /\ buf' = [buf EXCEPT ![t] = [s \in Sectors |-> IF op = "write" THEN t ELSE NULL]]
  /\ Goto(t, "acquire")
  /\ UNCHANGED <<k, ch, regs, drive, irq, disk, ticked>>

\* lock_acquire, which no thread calls that has the lock
Acquire(t) ==
  /\ Running(t, "acquire")
  /\ \/ /\ ch.lock.sema.value = 0
        /\ k' = DownBlock(k, ch.lock.sema)
        /\ ch' = [ch EXCEPT !.lock.sema = DownWaiters(k, @)]
        /\ UNCHANGED pc
     \/ /\ ch.lock.sema.value # 0
        /\ k' = Assert(ch.lock.repeat = 0, DownTaken(k, ch.lock.sema))
        /\ ch' = [ch EXCEPT !.lock = [holder |-> t, repeat |-> 1, sema |-> DownTake(@.sema)]]
        /\ Goto(t, "select")
  /\ UNCHANGED <<regs, drive, irq, disk, call, buf, ticked>>

\* select_disk and select_sector
Select(t) ==
  /\ Running(t, "select")
  /\ regs' = [dev |-> call[t].dev, lba |-> call[t].lba + call[t].done,
              sect_cnt |-> Uint8(secs_op(call[t]))]
  /\ Goto(t, "expect")
  /\ UNCHANGED <<k, ch, drive, irq, disk, call, buf, ticked>>

\* cmd_out: first the flag, then the command register
Expect(t) ==
  /\ Running(t, "expect")
  /\ ch' = [ch EXCEPT !.expecting_intr = TRUE]
  /\ Goto(t, "command")
  /\ UNCHANGED <<k, regs, drive, irq, disk, call, buf, ticked>>

\* Mutant: ide_read polls the drive without waiting for disk_done.
Command_NoWait(t) ==
  /\ Running(t, "command")
  /\ drive' = [state |-> "busy", op |-> call[t].op, dev |-> regs.dev, lba |-> regs.lba,
               left |-> FromUint8(regs.sect_cnt), by |-> t]
  /\ call' = [call EXCEPT ![t].time_limit = TimeLimit]
  /\ Goto(t, "poll")
  /\ UNCHANGED <<k, ch, regs, irq, disk, buf, ticked>>

\* A busy drive ignores the command.  A drive that is told to write may be
\* ready for the data at once.
Command(t) ==
  /\ Running(t, "command")
  /\ \E state \in (IF call[t].op = "read" THEN {"busy"} ELSE {"busy", "drq"}) :
       drive' = IF drive.state # "idle" THEN drive
                ELSE [state |-> state, op |-> call[t].op, dev |-> regs.dev, lba |-> regs.lba,
                      left |-> FromUint8(regs.sect_cnt), by |-> t]
  /\ call' = [call EXCEPT ![t].time_limit = TimeLimit]
  /\ Goto(t, IF call[t].op = "read" THEN "done" ELSE "poll")
  /\ UNCHANGED <<k, ch, regs, irq, disk, buf, ticked>>

\* Where the loop goes on.
NextChunk(c) == IF c.done < c.cnt THEN "select" ELSE "release"
Advance(t) == [call EXCEPT ![t].done = @ + secs_op(call[t])]

\* sema_down(&disk_done).  A write has its data transferred already.
Down(t) ==
  /\ Running(t, "done")
  /\ \/ /\ ch.disk_done.value = 0
        /\ k' = DownBlock(k, ch.disk_done)
        /\ ch' = [ch EXCEPT !.disk_done = DownWaiters(k, @)]
        /\ UNCHANGED <<pc, call>>
     \/ /\ ch.disk_done.value # 0
        /\ k' = DownTaken(k, ch.disk_done)
        /\ ch' = [ch EXCEPT !.disk_done = DownTake(@)]
        /\ call' = IF call[t].op = "read" THEN call ELSE Advance(t)
        /\ Goto(t, IF call[t].op = "read" THEN "poll" ELSE NextChunk(Advance(t)[t]))
  /\ UNCHANGED <<regs, drive, irq, disk, buf, ticked>>

BSY == drive.state \in {"busy", "writing"}
DRQ == drive.state = "drq"

\* while (time_limit -= 10 >= 0) counts down by one.
Polls(t) == Running(t, "poll") /\ call[t].time_limit > 1
CountDown(t) == [call EXCEPT ![t].time_limit = @ - 1]

\* busy_wait finds the drive busy, and sleeps.
Busy(t) ==
  /\ Polls(t) /\ BSY
  /\ call' = CountDown(t)
  /\ ticked' = [ticked EXCEPT ![t] = FALSE]
  /\ Goto(t, "sleep")
  /\ UNCHANGED <<k, ch, regs, drive, irq, disk, buf>>

\* ticks_to_sleep(1)
Sleep(t) ==
  /\ Running(t, "sleep")
  /\ k' = IF ticked[t] THEN k ELSE thread_yield(k)
  /\ Goto(t, IF ticked[t] THEN "poll" ELSE "sleep")
  /\ UNCHANGED ideVars

\* busy_wait returns false: PANIC
Fail(t) ==
  /\ Running(t, "poll")
  /\ call[t].time_limit = 1 \/ (~BSY /\ ~DRQ)
  /\ k' = [k EXCEPT !.panic = TRUE]
  /\ Goto(t, IF call[t].time_limit = 1 THEN "late" ELSE "failed")
  /\ UNCHANGED ideVars

Moved(t) == call[t].done .. call[t].done + FromUint8(Uint8(secs_op(call[t]))) - 1

\* Mutant: the buffer is filled from its start by every command.
ReadData_Start(t) ==
  /\ Polls(t) /\ DRQ /\ call[t].op = "read"
  /\ buf' = [buf EXCEPT ![t] = [s \in Sectors |->
               IF s \in 0 .. secs_op(call[t]) - 1 THEN disk[drive.dev][drive.lba + s] ELSE @[s]]]
  /\ drive' = [drive EXCEPT !.state = "idle", !.left = 0]
  /\ irq' = (irq \/ drive.left > 1)
  /\ call' = Advance(t)
  /\ Goto(t, NextChunk(Advance(t)[t]))
  /\ UNCHANGED <<k, ch, regs, disk, ticked>>

\* busy_wait returns true, and read_from_sector: the drive has requested an
\* interrupt for the first sector, and requests one for each of the others.
ReadData(t) ==
  /\ Polls(t) /\ DRQ /\ call[t].op = "read"
  /\ buf' = [buf EXCEPT ![t] = [s \in Sectors |->
               IF s \in Moved(t) THEN disk[drive.dev][drive.lba + s - call[t].done] ELSE @[s]]]
  /\ drive' = [drive EXCEPT !.state = "idle", !.left = 0]
  /\ irq' = (irq \/ drive.left > 1)
  /\ call' = Advance(t)
  /\ Goto(t, NextChunk(Advance(t)[t]))
  /\ UNCHANGED <<k, ch, regs, disk, ticked>>

\* Mutant: ide_write goes on without waiting for disk_done.
WriteData_NoWait(t) ==
  /\ Polls(t) /\ DRQ /\ call[t].op = "write"
  /\ drive' = [drive EXCEPT !.state = "writing"]
  /\ call' = Advance(t)
  /\ Goto(t, NextChunk(Advance(t)[t]))
  /\ UNCHANGED <<k, ch, regs, irq, disk, buf, ticked>>

\* The same for a write: write2sector
WriteData(t) ==
  /\ Polls(t) /\ DRQ /\ call[t].op = "write"
  /\ drive' = [drive EXCEPT !.state = "writing"]
  /\ call' = CountDown(t)
  /\ Goto(t, "done")
  /\ UNCHANGED <<k, ch, regs, irq, disk, buf, ticked>>

Release(t) ==
  /\ Running(t, "release")
  /\ k' = UpWake(Assert(ch.lock.holder = t /\ ch.lock.repeat = 1, k), ch.lock.sema)
  /\ ch' = [ch EXCEPT !.lock = [holder |-> NULL, repeat |-> 0, sema |-> Up(@.sema)]]
  /\ call' = [call EXCEPT ![t] = NoCall]
  /\ buf' = [buf EXCEPT ![t] = [s \in Sectors |-> NULL]]
  /\ Goto(t, "user")
  /\ UNCHANGED <<regs, drive, irq, disk, ticked>>

-----------------------------------------------------------------------------
\* The drive.

\* The first sector has been read, or the drive is ready to be sent data.
DriveReady ==
  /\ drive.state = "busy"
  /\ drive' = [drive EXCEPT !.state = "drq"]
  /\ irq' = (irq \/ drive.op = "read")
  /\ UNCHANGED <<k, pc, ch, regs, disk, call, buf, ticked>>

\* One more sector has been written.
DriveWrites ==
  /\ drive.state = "writing"
  /\ disk' = [disk EXCEPT ![drive.dev][drive.lba] = drive.by]
  /\ drive' = IF drive.left = 1 THEN [drive EXCEPT !.state = "idle", !.left = 0]
              ELSE [drive EXCEPT !.lba = @ + 1, !.left = @ - 1]
  /\ irq' = TRUE
  /\ UNCHANGED <<k, pc, ch, regs, call, buf, ticked>>

DriveStep == DriveReady \/ DriveWrites

\* System calls run with interrupts off until they give up the CPU.
InterruptsOn == pc[k.cur] \in {"user"} \cup IdleLabels \/ k.cur \in Kernel

intr_hd_handler ==
  /\ irq /\ InterruptsOn /\ k.panic = FALSE
  /\ irq' = FALSE
  /\ k' = IF ch.expecting_intr THEN UpWake(k, ch.disk_done) ELSE k
  /\ ch' = IF ch.expecting_intr THEN [ch EXCEPT !.expecting_intr = FALSE, !.disk_done = Up(@)] ELSE ch
  /\ EndHalt
  /\ UNCHANGED <<regs, drive, disk, call, buf, ticked>>

\* Mutant: the interrupt does not count.
Timer_NoTick ==
  /\ ClockInterrupt(InterruptsOn)
  /\ UNCHANGED ideVars

Timer ==
  /\ ClockInterrupt(InterruptsOn)
  /\ ticked' = [t \in Clients |-> TRUE]
  /\ UNCHANGED <<ch, regs, drive, irq, disk, call, buf>>

IdleStep == (IdleBlock \/ IdleHalt) /\ UNCHANGED ideVars

DriverStep(t) ==
  \/ Acquire(t) \/ Select(t) \/ Expect(t) \/ Command(t) \/ Down(t)
  \/ Busy(t) \/ Sleep(t) \/ Fail(t) \/ ReadData(t) \/ WriteData(t) \/ Release(t)

Next ==
  \/ \E t \in Clients :
       \/ \E op \in {"read", "write"}, x \in Transfers : Call(t, op, x)
       \/ DriverStep(t)
  \/ DriveStep
  \/ intr_hd_handler
  \/ Timer
  \/ IdleStep

Spec == Init /\ [][Next]_vars

\* A thread that gets the CPU again and again gets on between the ticks, the
\* drive finishes what it does, and an interrupt that is requested is taken
\* when interrupts are on again and again.
Fairness ==
  /\ \A t \in Clients : SF_vars(DriverStep(t))
  /\ WF_vars(DriveStep) /\ WF_vars(IdleStep)
  /\ SF_vars(intr_hd_handler) /\ SF_vars(Timer)

FairSpec == Spec /\ Fairness

-----------------------------------------------------------------------------
\* Properties.

Labels == {"user", "acquire", "select", "expect", "command", "done", "poll", "sleep",
           "release", "late", "failed"} \cup IdleLabels

TypeOK ==
  /\ k \in SchedulerState
  /\ pc \in [Threads -> Labels]
  /\ ch \in [lock : LockState, expecting_intr : BOOLEAN, disk_done : SemaphoreState]
  /\ drive.state \in {"idle", "busy", "drq", "writing"} /\ (drive.state = "idle" <=> drive.left = 0)
  /\ \A t \in Clients : call[t].done \in 0 .. call[t].cnt /\ call[t].time_limit \in 0 .. TimeLimit

\* The kernel stops only when every try of busy_wait has found the drive busy:
\* it never finds a drive that has nothing to offer, and no ASSERT
\* of sema_down, sema_up or the lock fails, whenever interrupts come.
PanicOnlyWhenLate == k.panic => \E t \in Clients : pc[t] = "late"

\* A command is only written to a drive that is idle, with no interrupt of an
\* earlier command on its way, and with disk_done at 0.  The driver never
\* looks; it relies on the lock and on having waited for disk_done.
CommandToIdleDrive ==
  /\ TypeOK
  /\ \A t \in Clients : pc[t] = "command" =>
       drive.state = "idle" /\ ~irq /\ ch.disk_done.value = 0 /\ ch.expecting_intr

\* When ide_read returns the buffer has the sectors of the disk, and when
\* ide_write returns the disk has those of the buffer.
Transferred ==
  \A t \in Clients : pc[t] = "release" =>
    \A s \in 0 .. call[t].cnt - 1 : buf[t][s] = disk[call[t].dev][call[t].lba + s]

\* Who sleeps in busy_wait comes back to look at the drive again, as the code
\* says (sleep 10 ms), unless it is left alone on the CPU with interrupts off:
\* a system call that sleeps while all other threads are blocked never ends.
SleepEnds ==
  \A t \in Clients : pc[t] = "sleep" ~>
    pc[t] # "sleep" \/ (k.cur = t /\ k.ready = << >> /\ t \notin Kernel)
=============================================================================

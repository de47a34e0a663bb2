------------------------------ MODULE IdeProofs ------------------------------
(***************************************************************************)
(* The disk driver, for any number of threads, drives, sectors and tries   *)
(* of busy_wait, as long as every command moves one sector.                *)
(***************************************************************************)
EXTENDS Ide, CommonProofs

\* A command moves one sector: because no call asks for more, or because it
\* can carry no more.  With more, ide_write is woken by the interrupt of the first
\* sector and returns while the drive still writes the others.
OneSector == SecsMax = 1 \/ \A x \in Transfers : x.cnt = 1

-----------------------------------------------------------------------------
\* The inductive invariant.

\* After lock_acquire the thread has the channel.
InChannel == {"select", "expect", "command", "done", "poll", "sleep", "release", "late"}

Owners == {t \in Clients : pc[t] \in InChannel}
Waiting == {t \in Clients : pc[t] = "acquire"}

\* The scheduler state as it was when the kernel stopped.
Calm(m) == [m EXCEPT !.panic = FALSE]

QueueOK == RunQueueOK(Calm(k)) /\ k \in SchedulerState

Channel == [lock : LockState, expecting_intr : BOOLEAN, disk_done : SemaphoreState]
Ops == {"read", "write"}
CallState == [op : Ops, dev : Devices \cup {NoCall.dev}, lba : Nat, cnt : Nat, done : Nat,
              time_limit : 0 .. TimeLimit]
DriveState == [state : {"idle", "busy", "drq", "writing"}, op : Ops,
               dev : Devices \cup {NoCall.dev}, lba : Nat, left : {0, 1}, by : Threads \cup {NULL}]
Contents == [Sectors -> Threads \cup {NULL}]

PcOK ==
  /\ pc \in [Threads -> Labels]
  /\ \A t \in Clients : pc[t] \in {"user", "acquire"} \cup InChannel

TypesOK ==
  /\ ch \in Channel
  /\ regs.dev \in Devices \cup {NoCall.dev} /\ regs.lba \in Nat
  /\ drive \in DriveState /\ (drive.state = "idle" <=> drive.left = 0)
  /\ irq \in BOOLEAN
  /\ disk \in [Devices -> Contents]
  /\ call \in [Clients -> CallState]
  /\ buf \in [Clients -> Contents]
  /\ ticked \in [Clients -> BOOLEAN]

\* The call a thread is in: it stays on its drive, and has a sector left to
\* transfer until it releases the channel.  What it writes is its name.
CallOK(t) ==
  LET c == call[t] IN
  /\ pc[t] = "user" => c.done = 0 /\ c.cnt = 0
  /\ pc[t] # "user" =>
       /\ c.dev \in Devices /\ c.lba + c.cnt - 1 <= max_lba
       /\ SecsMax = 1 \/ c.cnt = 1
       /\ IF pc[t] = "release" THEN c.done = c.cnt ELSE c.done < c.cnt
       /\ c.op = "write" => \A s \in Sectors : buf[t][s] = t
       /\ pc[t] = "acquire" => c.done = 0

LockOK == LockOf(k, ch.lock, Owners, Waiting)

\* Who waits for disk_done sleeps in sema_down.
SemaOK ==
  /\ NoDuplicates(ch.disk_done.waiters)
  /\ \A t \in Threads :
       t \in Range(ch.disk_done.waiters) <=>
         t \in Clients /\ pc[t] = "done" /\ k.status[t] = "TASK_BLOCKED"

\* Nothing is asked of the drive, and nothing is left of an earlier command.
Quiet ==
  /\ drive.state = "idle" /\ ~irq
  /\ ~ch.expecting_intr /\ ch.disk_done.value = 0

\* The answer to a command: awaited, requested as an interrupt, or counted.
Awaited == ~irq /\ ch.expecting_intr /\ ch.disk_done.value = 0
Requested == irq /\ ch.expecting_intr /\ ch.disk_done.value = 0
Counted == ~irq /\ ~ch.expecting_intr /\ ch.disk_done.value = 1 /\ ch.disk_done.waiters = << >>
Consumed == ~irq /\ ~ch.expecting_intr /\ ch.disk_done.value = 0

\* Where drive and channel are when their owner is at each statement.
Phase(t) ==
  LET reads == call[t].op = "read" IN
  /\ pc[t] \in {"select", "expect", "release"} => Quiet
  /\ pc[t] = "command" => drive.state = "idle" /\ Awaited
  /\ pc[t] = "done" =>
       \/ drive.state = (IF reads THEN "busy" ELSE "writing") /\ Awaited
       \/ drive.state = (IF reads THEN "drq" ELSE "idle") /\ (Requested \/ Counted)
  /\ pc[t] \in {"poll", "sleep", "late"} =>
       IF reads THEN drive.state = "drq" /\ Consumed
                ELSE drive.state \in {"busy", "drq"} /\ Awaited

\* The registers, and then the drive, have what the owner asks for.
Asked(t) ==
  LET c == call[t] IN
  /\ pc[t] \in {"expect", "command"} =>
       regs.dev = c.dev /\ regs.lba = c.lba + c.done /\ FromUint8(regs.sect_cnt) = 1
  /\ drive.state # "idle" =>
       /\ drive.op = c.op /\ drive.dev = c.dev /\ drive.lba = c.lba + c.done /\ drive.by = t

\* What has been transferred so far.
Progress(t) ==
  LET c == call[t] IN
  /\ \A s \in 0 .. c.done - 1 : buf[t][s] = disk[c.dev][c.lba + s]
  /\ pc[t] = "done" /\ c.op = "write" /\ drive.state = "idle" => disk[c.dev][c.lba + c.done] = t

OwnerOK == \A t \in Owners : Phase(t) /\ Asked(t) /\ Progress(t)

IInv ==
  /\ QueueOK /\ PcOK /\ TypesOK
  /\ \A t \in Clients : CallOK(t)
  /\ LockOK /\ SemaOK
  /\ OwnerOK
  /\ Owners = {} => Quiet
  /\ PanicOnlyWhenLate

-----------------------------------------------------------------------------
\* Arithmetic and frames.

\* The sector count survives the conversion to a uint8_t and back.
LEMMA OneEach ==
  ASSUME NEW c, c.cnt \in Nat, c.done \in Nat, c.done < c.cnt, SecsMax = 1 \/ c.cnt = 1
  PROVE  secs_op(c) = 1 /\ FromUint8(Uint8(secs_op(c))) = 1
<1>1. SecsMax \in Nat /\ SecsMax > 0
  BY IdeAssumption
<1>2. secs_op(c) = 1
  BY <1>1 DEF secs_op
<1>3. IF SecsMax = 1 THEN 1 % SecsMax = 0 ELSE 1 % SecsMax = 1
  BY <1>1
<1>. QED BY <1>1, <1>2, <1>3 DEF Uint8, FromUint8

\* While the kernel runs, the run queue is in order.
LEMMA RunsOK ==
  ASSUME IInv, k.panic = FALSE
  PROVE  RunQueueOK(k) /\ k.cur \in Threads /\ k.status[k.cur] = "TASK_RUNNING"
<1>1. k \in SchedulerState /\ RunQueueOK(Calm(k))
  BY DEF IInv, QueueOK
<1>2. Calm(k) = k
  BY <1>1 DEF Calm, SchedulerState
<1>. QED BY <1>1, <1>2 DEF RunQueueOK, OneRunning, SchedulerState

\* A run queue in order is one in which nothing has stopped.
LEMMA QueueNext ==
  ASSUME RunQueueOK(k')
  PROVE  QueueOK' /\ k'.panic = FALSE
<1>1. k' \in SchedulerState /\ k'.panic = FALSE
  BY DEF RunQueueOK
<1>2. Calm(k') = k'
  BY <1>1 DEF Calm, SchedulerState
<1>. QED BY <1>1, <1>2 DEF QueueOK

\* The same clients are blocked as before.
SameBlocked ==
  \A t \in Clients : k'.status[t] = "TASK_BLOCKED" <=> k.status[t] = "TASK_BLOCKED"

\* What a call is about does not change as long as its thread does not move.
LEMMA CallSame ==
  ASSUME NEW t \in Clients, CallOK(t), call'[t] = call[t], buf'[t] = buf[t], pc'[t] = pc[t]
  PROVE  CallOK(t)'
BY DEF CallOK

\* The channel has one owner.
LEMMA OneOwner ==
  ASSUME IInv, NEW t \in Clients, pc[t] \in InChannel
  PROVE  Owners = {t} /\ Phase(t) /\ Asked(t) /\ Progress(t) /\ CallOK(t)
<1>1. t \in Owners /\ \A u \in Owners : u \in Threads
  BY DEF Owners, Clients
<1>2. \A u \in Owners : ch.lock.holder = u
  BY <1>1 DEF IInv, LockOK, LockOf
<1>. QED BY <1>1, <1>2 DEF IInv, OwnerOK

\* The owner goes on to its next statement.
LEMMA OwnerMoves ==
  ASSUME IInv, NEW t \in Clients, pc[t] \in InChannel, NEW l \in InChannel,
         pc' = [pc EXCEPT ![t] = l], ch'.lock = ch.lock, SameBlocked
  PROVE  /\ Owners' = {t} /\ LockOK' /\ PcOK'
         /\ pc'[t] = l /\ \A u \in Clients \ {t} : pc'[u] = pc[u]
<1>1. pc \in [Threads -> Labels] /\ t \in Threads /\ l \in Labels
  BY DEF IInv, PcOK, Clients, InChannel, Labels
<1>2. pc' \in [Threads -> Labels] /\ pc'[t] = l /\ \A u \in Threads \ {t} : pc'[u] = pc[u]
  BY <1>1
<1>3. Owners = {t}
  BY OneOwner
<1>4. Owners' = Owners /\ Waiting' = Waiting
  BY <1>2 DEF Owners, Waiting, Clients, InChannel
<1>5. LockOf(k, ch.lock, Owners, Waiting)
  BY DEF IInv, LockOK
<1>6. LockOf(k', ch.lock, Owners, Waiting)
  BY <1>5, LockOfSame DEF SameBlocked, Waiting
<1>7. PcOK'
  BY <1>2 DEF IInv, PcOK, Clients
<1>. QED BY <1>2, <1>3, <1>4, <1>6, <1>7 DEF LockOK, Clients

\* What is left to show of a step of the owner.
LEMMA OwnerStep ==
  ASSUME IInv, NEW t \in Clients, pc[t] \in InChannel, NEW l \in InChannel,
         pc' = [pc EXCEPT ![t] = l], ch'.lock = ch.lock, SameBlocked,
         \A u \in Clients \ {t} : call'[u] = call[u] /\ buf'[u] = buf[u],
         QueueOK', TypesOK', SemaOK', PanicOnlyWhenLate',
         CallOK(t)', Phase(t)', Asked(t)', Progress(t)'
  PROVE  IInv'
<1>1. /\ Owners' = {t} /\ LockOK' /\ PcOK'
      /\ pc'[t] = l /\ \A u \in Clients \ {t} : pc'[u] = pc[u]
  BY OwnerMoves
<1>2. \A u \in Clients : CallOK(u)'
  BY <1>1, CallSame DEF IInv
<1>3. OwnerOK'
  BY <1>1 DEF OwnerOK
<1>. QED BY <1>1, <1>2, <1>3 DEF IInv

\* disk_done and its waiters are left alone by a thread that runs.
LEMMA SemaSame ==
  ASSUME IInv, NEW t \in Clients, k.status[t] # "TASK_BLOCKED", SameBlocked,
         NEW l, pc' = [pc EXCEPT ![t] = l], ch'.disk_done.waiters = ch.disk_done.waiters
  PROVE  SemaOK'
<1>1. pc \in [Threads -> Labels] /\ \A u \in Threads \ {t} : pc'[u] = pc[u]
  BY DEF IInv, PcOK
<1>. QED BY <1>1 DEF IInv, SemaOK, SameBlocked

\* A step that leaves the scheduler alone.
LEMMA CalmStep ==
  ASSUME IInv, k.panic = FALSE, k' = k
  PROVE  SameBlocked /\ QueueOK' /\ PanicOnlyWhenLate'
BY RunsOK, QueueNext DEF SameBlocked, PanicOnlyWhenLate

\* The thread on the CPU is not blocked.
LEMMA RunnerOK ==
  ASSUME IInv, NEW t \in Clients, NEW l, Running(t, l)
  PROVE  /\ k.panic = FALSE /\ k.cur = t /\ pc[t] = l /\ t \in Threads /\ t # Idle
         /\ k.status[t] = "TASK_RUNNING" /\ RunQueueOK(k)
         /\ ch \in Channel /\ drive \in DriveState /\ call \in [Clients -> CallState]
         /\ call[t] \in CallState /\ buf \in [Clients -> Contents] /\ TypesOK /\ CallOK(t)
BY RunsOK DEF Running, IInv, TypesOK, Clients

-----------------------------------------------------------------------------
\* The owner of the channel.

\* select_disk and select_sector
LEMMA SelectIInv ==
  ASSUME IInv, NEW t \in Clients, Select(t)
  PROVE  IInv'
<1>1. Running(t, "select")
  BY DEF Select
<1>2. /\ k.panic = FALSE /\ pc[t] = "select" /\ k.status[t] = "TASK_RUNNING"
      /\ call[t] \in CallState /\ TypesOK /\ CallOK(t)
  BY <1>1, RunnerOK
<1>3. pc[t] \in InChannel /\ "expect" \in InChannel
  BY <1>2 DEF InChannel
<1>4. Phase(t) /\ Asked(t) /\ Progress(t)
  BY <1>3, OneOwner
<1>5. /\ k' = k /\ ch' = ch /\ drive' = drive /\ irq' = irq /\ disk' = disk
      /\ call' = call /\ buf' = buf /\ ticked' = ticked /\ pc' = [pc EXCEPT ![t] = "expect"]
      /\ regs'.dev = call[t].dev /\ regs'.lba = call[t].lba + call[t].done
      /\ regs'.sect_cnt = Uint8(secs_op(call[t]))
  BY DEF Select, Goto
<1>6. SameBlocked /\ QueueOK' /\ PanicOnlyWhenLate'
  BY <1>2, <1>5, CalmStep
<1>7. pc'[t] = "expect"
  BY <1>3, <1>5, <1>6, OwnerMoves
<1>8. call[t].cnt \in Nat /\ call[t].done \in Nat /\ call[t].lba \in Nat /\ call[t].done < call[t].cnt
      /\ (SecsMax = 1 \/ call[t].cnt = 1)
  BY <1>2 DEF CallOK, CallState
<1>9. FromUint8(regs'.sect_cnt) = 1
  BY <1>5, <1>8, OneEach
<1>10. CallOK(t)'
  BY <1>2, <1>5, <1>7 DEF CallOK
<1>11. TypesOK'
  BY <1>2, <1>5, <1>8 DEF TypesOK, CallState
<1>12. Phase(t)' /\ Asked(t)' /\ Progress(t)'
  BY <1>2, <1>4, <1>5, <1>7, <1>9 DEF Phase, Quiet, Asked, Progress
<1>13. SemaOK'
  BY <1>2, <1>5, <1>6, SemaSame
<1>. QED BY <1>3, <1>5, <1>6, <1>10, <1>11, <1>12, <1>13, OwnerStep

\* expecting_intr is set before the command is given.
LEMMA ExpectIInv ==
  ASSUME IInv, NEW t \in Clients, Expect(t)
  PROVE  IInv'
<1>1. Running(t, "expect")
  BY DEF Expect
<1>2. /\ k.panic = FALSE /\ pc[t] = "expect" /\ k.status[t] = "TASK_RUNNING"
      /\ ch \in Channel /\ TypesOK /\ CallOK(t)
  BY <1>1, RunnerOK
<1>3. pc[t] \in InChannel /\ "command" \in InChannel
  BY <1>2 DEF InChannel
<1>4. Phase(t) /\ Asked(t) /\ Progress(t)
  BY <1>3, OneOwner
<1>5. /\ k' = k /\ regs' = regs /\ drive' = drive /\ irq' = irq /\ disk' = disk
      /\ call' = call /\ buf' = buf /\ ticked' = ticked /\ pc' = [pc EXCEPT ![t] = "command"]
  BY DEF Expect, Goto
<1>6. /\ ch' \in Channel /\ ch'.lock = ch.lock /\ ch'.expecting_intr = TRUE
      /\ ch'.disk_done = ch.disk_done
  BY <1>2 DEF Expect, Channel
<1>7. SameBlocked /\ QueueOK' /\ PanicOnlyWhenLate'
  BY <1>2, <1>5, CalmStep
<1>8. pc'[t] = "command"
  BY <1>3, <1>5, <1>6, <1>7, OwnerMoves
<1>9. CallOK(t)'
  BY <1>2, <1>5, <1>8 DEF CallOK
<1>10. TypesOK'
  BY <1>2, <1>5, <1>6 DEF TypesOK
<1>11. Phase(t)' /\ Asked(t)' /\ Progress(t)'
  BY <1>2, <1>4, <1>5, <1>6, <1>8 DEF Phase, Quiet, Awaited, Asked, Progress
<1>12. SemaOK'
  BY <1>2, <1>5, <1>6, <1>7, SemaSame
<1>. QED BY <1>3, <1>5, <1>6, <1>7, <1>9, <1>10, <1>11, <1>12, OwnerStep

\* busy_wait changes nothing of a call but its time limit.
LEMMA TimeSet ==
  ASSUME call \in [Clients -> CallState], NEW t \in Clients, NEW n \in 0 .. TimeLimit,
         call' = [call EXCEPT ![t].time_limit = n]
  PROVE  /\ call' \in [Clients -> CallState] /\ \A u \in Clients \ {t} : call'[u] = call[u]
         /\ call'[t].op = call[t].op /\ call'[t].dev = call[t].dev /\ call'[t].lba = call[t].lba
         /\ call'[t].cnt = call[t].cnt /\ call'[t].done = call[t].done
<1>1. call[t] \in CallState
  OBVIOUS
<1>2. [call[t] EXCEPT !.time_limit = n] \in CallState
  BY <1>1 DEF CallState
<1>3. call'[t] = [call[t] EXCEPT !.time_limit = n]
  OBVIOUS
<1>. QED BY <1>1, <1>2, <1>3 DEF CallState

\* The command goes to an idle drive, which takes it.
LEMMA CommandIInv ==
  ASSUME IInv, NEW t \in Clients, Command(t)
  PROVE  IInv'
<1>. DEFINE l == IF call[t].op = "read" THEN "done" ELSE "poll"
<1>1. Running(t, "command")
  BY DEF Command
<1>2. /\ k.panic = FALSE /\ pc[t] = "command" /\ k.status[t] = "TASK_RUNNING" /\ t \in Threads
      /\ call \in [Clients -> CallState] /\ call[t] \in CallState /\ TypesOK /\ CallOK(t)
  BY <1>1, RunnerOK
<1>3. pc[t] \in InChannel /\ l \in InChannel
  BY <1>2 DEF InChannel
<1>4. Phase(t) /\ Asked(t) /\ Progress(t)
  BY <1>3, OneOwner
<1>5. /\ k' = k /\ regs' = regs /\ ch' = ch /\ irq' = irq /\ disk' = disk
      /\ call' = [call EXCEPT ![t].time_limit = TimeLimit]
      /\ buf' = buf /\ ticked' = ticked /\ pc' = [pc EXCEPT ![t] = l]
  BY DEF Command, Goto
<1>6. drive.state = "idle" /\ Awaited
  BY <1>2, <1>4 DEF Phase
<1>7. PICK state \in (IF call[t].op = "read" THEN {"busy"} ELSE {"busy", "drq"}) :
        drive' = [state |-> state, op |-> call[t].op, dev |-> regs.dev, lba |-> regs.lba,
                  left |-> FromUint8(regs.sect_cnt), by |-> t]
  BY <1>6 DEF Command
<1>8. SameBlocked /\ QueueOK' /\ PanicOnlyWhenLate'
  BY <1>2, <1>5, CalmStep
<1>9. pc'[t] = l
  BY <1>3, <1>5, <1>8, OwnerMoves
<1>10. /\ call' \in [Clients -> CallState] /\ \A u \in Clients \ {t} : call'[u] = call[u]
       /\ call'[t].op = call[t].op /\ call'[t].dev = call[t].dev /\ call'[t].lba = call[t].lba
       /\ call'[t].cnt = call[t].cnt /\ call'[t].done = call[t].done
  <2>1. TimeLimit \in 0 .. TimeLimit
    BY IdeAssumption
  <2>. QED BY <1>2, <1>5, <2>1, TimeSet
<1>11. /\ drive'.state = state /\ drive'.op = call[t].op /\ drive'.dev = call[t].dev
       /\ drive'.lba = call[t].lba + call[t].done /\ drive'.left = 1 /\ drive'.by = t
       /\ drive' \in DriveState
  BY <1>2, <1>4, <1>7 DEF Asked, DriveState, TypesOK, CallState
<1>12. CallOK(t)'
  BY <1>2, <1>5, <1>9, <1>10 DEF CallOK
<1>13. TypesOK'
  BY <1>2, <1>5, <1>7, <1>10, <1>11 DEF TypesOK
<1>14. Phase(t)'
  BY <1>2, <1>5, <1>6, <1>7, <1>9, <1>10, <1>11 DEF Phase, Awaited, CallState, Ops
<1>15. Asked(t)'
  BY <1>9, <1>10, <1>11 DEF Asked
<1>16. Progress(t)'
  BY <1>4, <1>5, <1>7, <1>9, <1>10, <1>11 DEF Progress
<1>17. SemaOK'
  BY <1>2, <1>5, <1>8, SemaSame
<1>. HIDE DEF l
<1>. QED BY <1>3, <1>5, <1>8, <1>10, <1>12, <1>13, <1>14, <1>15, <1>16, <1>17, OwnerStep

\* busy_wait finds the drive busy, which only a write can.
LEMMA BusyIInv ==
  ASSUME IInv, NEW t \in Clients, Busy(t)
  PROVE  IInv'
<1>1. Running(t, "poll") /\ call[t].time_limit > 1
  BY DEF Busy, Polls
<1>2. /\ k.panic = FALSE /\ pc[t] = "poll" /\ k.status[t] = "TASK_RUNNING"
      /\ call \in [Clients -> CallState] /\ call[t] \in CallState /\ TypesOK /\ CallOK(t)
  BY <1>1, RunnerOK
<1>3. pc[t] \in InChannel /\ "sleep" \in InChannel
  BY <1>2 DEF InChannel
<1>4. Phase(t) /\ Asked(t) /\ Progress(t)
  BY <1>3, OneOwner
<1>5. /\ k' = k /\ regs' = regs /\ ch' = ch /\ irq' = irq /\ disk' = disk /\ drive' = drive
      /\ call' = [call EXCEPT ![t].time_limit = call[t].time_limit - 1]
      /\ buf' = buf /\ ticked' = [ticked EXCEPT ![t] = FALSE] /\ pc' = [pc EXCEPT ![t] = "sleep"]
  BY <1>2 DEF Busy, CountDown, Goto
<1>6. SameBlocked /\ QueueOK' /\ PanicOnlyWhenLate'
  BY <1>2, <1>5, CalmStep
<1>7. pc'[t] = "sleep"
  BY <1>3, <1>5, <1>6, OwnerMoves
<1>8. call[t].time_limit - 1 \in 0 .. TimeLimit
  BY <1>1, <1>2, IdeAssumption DEF CallState
<1>9. /\ call' \in [Clients -> CallState] /\ \A u \in Clients \ {t} : call'[u] = call[u]
      /\ call'[t].op = call[t].op /\ call'[t].dev = call[t].dev /\ call'[t].lba = call[t].lba
      /\ call'[t].cnt = call[t].cnt /\ call'[t].done = call[t].done
  BY <1>2, <1>5, <1>8, TimeSet
<1>10. CallOK(t)'
  BY <1>2, <1>5, <1>7, <1>9 DEF CallOK
<1>11. TypesOK'
  BY <1>2, <1>5, <1>9 DEF TypesOK
<1>12. Phase(t)' /\ Asked(t)' /\ Progress(t)'
  BY <1>2, <1>4, <1>5, <1>7, <1>9 DEF Phase, Awaited, Consumed, Asked, Progress
<1>13. SemaOK'
  BY <1>2, <1>5, <1>6, SemaSame
<1>. QED BY <1>3, <1>5, <1>6, <1>9, <1>10, <1>11, <1>12, <1>13, OwnerStep

\* The sleep of busy_wait gives the CPU away and keeps the channel.
LEMMA SleepIInv ==
  ASSUME IInv, NEW t \in Clients, Sleep(t)
  PROVE  IInv'
<1>. DEFINE l == IF ticked[t] THEN "poll" ELSE "sleep"
<1>1. Running(t, "sleep")
  BY DEF Sleep
<1>2. /\ k.panic = FALSE /\ pc[t] = "sleep" /\ k.status[t] = "TASK_RUNNING" /\ RunQueueOK(k)
      /\ TypesOK /\ CallOK(t)
  BY <1>1, RunnerOK
<1>3. pc[t] \in InChannel /\ l \in InChannel
  BY <1>2 DEF InChannel
<1>4. Phase(t) /\ Asked(t) /\ Progress(t)
  BY <1>3, OneOwner
<1>5. /\ regs' = regs /\ ch' = ch /\ irq' = irq /\ disk' = disk /\ drive' = drive
      /\ call' = call /\ buf' = buf /\ ticked' = ticked /\ pc' = [pc EXCEPT ![t] = l]
      /\ k' = IF ticked[t] THEN k ELSE thread_yield(k)
  BY DEF Sleep, Goto, ideVars
<1>6. SameBlocked /\ QueueOK' /\ PanicOnlyWhenLate'
  <2>1. CASE ticked[t]
    BY <1>2, <1>5, <2>1, CalmStep
  <2>2. CASE ~ticked[t]
    <3>1. RunQueueOK(k') /\ SameRunnable(k, k', Threads \ {Idle})
      BY <1>2, <1>5, <2>2, YieldOK
    <3>2. SameBlocked
      BY <3>1 DEF SameRunnable, Runnable, SameBlocked, Clients
    <3>. QED BY <3>1, <3>2, QueueNext DEF PanicOnlyWhenLate
  <2>. QED BY <2>1, <2>2
<1>7. pc'[t] = l
  BY <1>3, <1>5, <1>6, OwnerMoves
<1>8. CallOK(t)'
  BY <1>2, <1>5, <1>7 DEF CallOK
<1>9. TypesOK'
  BY <1>2, <1>5 DEF TypesOK
<1>10. Phase(t)' /\ Asked(t)' /\ Progress(t)'
  <2>1. Phase(t)'
    <3>1. IF call[t].op = "read" THEN drive.state = "drq" /\ Consumed
                                 ELSE drive.state \in {"busy", "drq"} /\ Awaited
      BY <1>2, <1>4 DEF Phase
    <3>2. Consumed' = Consumed /\ Awaited' = Awaited
      BY <1>5 DEF Consumed, Awaited
    <3>3. l \in {"poll", "sleep"}
      OBVIOUS
    <3>. HIDE DEF l
    <3>. QED BY <1>5, <1>7, <3>1, <3>2, <3>3 DEF Phase
  <2>2. Asked(t)'
    BY <1>2, <1>4, <1>5, <1>7 DEF Asked
  <2>3. Progress(t)'
    BY <1>2, <1>4, <1>5, <1>7 DEF Progress
  <2>. QED BY <2>1, <2>2, <2>3
<1>11. SemaOK'
  <2>. HIDE DEF l
  <2>. QED BY <1>2, <1>5, <1>6, SemaSame
<1>. HIDE DEF l
<1>. QED BY <1>3, <1>5, <1>6, <1>8, <1>9, <1>10, <1>11, OwnerStep

\* busy_wait gives up only because its tries are used up.
LEMMA FailIInv ==
  ASSUME IInv, NEW t \in Clients, Fail(t)
  PROVE  IInv'
<1>1. Running(t, "poll")
  BY DEF Fail
<1>2. /\ k.panic = FALSE /\ pc[t] = "poll" /\ k.status[t] = "TASK_RUNNING" /\ RunQueueOK(k)
      /\ TypesOK /\ CallOK(t)
  BY <1>1, RunnerOK
<1>3. pc[t] \in InChannel /\ "late" \in InChannel
  BY <1>2 DEF InChannel
<1>4. Phase(t) /\ Asked(t) /\ Progress(t)
  BY <1>3, OneOwner
<1>5. BSY \/ DRQ
  BY <1>2, <1>4 DEF Phase, BSY, DRQ
<1>6. /\ regs' = regs /\ ch' = ch /\ irq' = irq /\ disk' = disk /\ drive' = drive
      /\ call' = call /\ buf' = buf /\ ticked' = ticked /\ pc' = [pc EXCEPT ![t] = "late"]
      /\ k' = [k EXCEPT !.panic = TRUE]
  BY <1>5 DEF Fail, Goto, ideVars
<1>7. k \in SchedulerState /\ k' \in SchedulerState /\ Calm(k') = k /\ k'.status = k.status
  BY <1>2, <1>6 DEF RunQueueOK, SchedulerState, Calm
<1>8. SameBlocked /\ QueueOK'
  BY <1>2, <1>7 DEF SameBlocked, QueueOK
<1>9. pc'[t] = "late"
  BY <1>3, <1>6, <1>8, OwnerMoves
<1>10. PanicOnlyWhenLate'
  BY <1>9 DEF PanicOnlyWhenLate
<1>11. CallOK(t)'
  BY <1>2, <1>6, <1>9 DEF CallOK
<1>12. TypesOK'
  BY <1>2, <1>6 DEF TypesOK
<1>13. Phase(t)' /\ Asked(t)' /\ Progress(t)'
  BY <1>2, <1>4, <1>6, <1>9 DEF Phase, Awaited, Consumed, Asked, Progress
<1>14. SemaOK'
  BY <1>2, <1>6, <1>8, SemaSame
<1>. QED BY <1>3, <1>6, <1>8, <1>10, <1>11, <1>12, <1>13, <1>14, OwnerStep

\* The drive takes the data of a write.
LEMMA WriteDataIInv ==
  ASSUME IInv, NEW t \in Clients, WriteData(t)
  PROVE  IInv'
<1>1. Running(t, "poll") /\ call[t].time_limit > 1 /\ drive.state = "drq" /\ call[t].op = "write"
  BY DEF WriteData, Polls, DRQ
<1>2. /\ k.panic = FALSE /\ pc[t] = "poll" /\ k.status[t] = "TASK_RUNNING" /\ drive \in DriveState
      /\ call \in [Clients -> CallState] /\ call[t] \in CallState /\ TypesOK /\ CallOK(t)
  BY <1>1, RunnerOK
<1>3. pc[t] \in InChannel /\ "done" \in InChannel
  BY <1>2 DEF InChannel
<1>4. Phase(t) /\ Asked(t) /\ Progress(t)
  BY <1>3, OneOwner
<1>5. /\ k' = k /\ regs' = regs /\ ch' = ch /\ irq' = irq /\ disk' = disk
      /\ drive' = [drive EXCEPT !.state = "writing"]
      /\ call' = [call EXCEPT ![t].time_limit = call[t].time_limit - 1]
      /\ buf' = buf /\ ticked' = ticked /\ pc' = [pc EXCEPT ![t] = "done"]
  BY <1>2 DEF WriteData, CountDown, Goto
<1>6. SameBlocked /\ QueueOK' /\ PanicOnlyWhenLate'
  BY <1>2, <1>5, CalmStep
<1>7. pc'[t] = "done"
  BY <1>3, <1>5, <1>6, OwnerMoves
<1>8. call[t].time_limit - 1 \in 0 .. TimeLimit
  BY <1>1, <1>2, IdeAssumption DEF CallState
<1>9. /\ call' \in [Clients -> CallState] /\ \A u \in Clients \ {t} : call'[u] = call[u]
      /\ call'[t].op = call[t].op /\ call'[t].dev = call[t].dev /\ call'[t].lba = call[t].lba
      /\ call'[t].cnt = call[t].cnt /\ call'[t].done = call[t].done
  BY <1>2, <1>5, <1>8, TimeSet
<1>10. /\ drive' \in DriveState /\ drive'.state = "writing" /\ drive'.op = drive.op
       /\ drive'.dev = drive.dev /\ drive'.lba = drive.lba /\ drive'.left = drive.left
       /\ drive'.by = drive.by
  BY <1>2, <1>5 DEF DriveState
<1>11. CallOK(t)'
  BY <1>2, <1>5, <1>7, <1>9 DEF CallOK
<1>12. TypesOK'
  BY <1>1, <1>2, <1>5, <1>9, <1>10 DEF TypesOK
<1>13. Phase(t)' /\ Asked(t)' /\ Progress(t)'
  BY <1>1, <1>2, <1>4, <1>5, <1>7, <1>9, <1>10 DEF Phase, Awaited, Asked, Progress
<1>14. SemaOK'
  BY <1>2, <1>5, <1>6, SemaSame
<1>. QED BY <1>3, <1>5, <1>6, <1>9, <1>11, <1>12, <1>13, <1>14, OwnerStep

\* The loop goes on to the next sector, or to the end of the call.
LEMMA AdvanceSet ==
  ASSUME call \in [Clients -> CallState], NEW t \in Clients,
         call[t].done < call[t].cnt, SecsMax = 1 \/ call[t].cnt = 1, NEW c, c = Advance(t)
  PROVE  /\ c \in [Clients -> CallState] /\ \A u \in Clients \ {t} : c[u] = call[u]
         /\ c[t].op = call[t].op /\ c[t].dev = call[t].dev /\ c[t].lba = call[t].lba
         /\ c[t].cnt = call[t].cnt /\ c[t].done = call[t].done + 1
         /\ NextChunk(c[t]) = IF call[t].done + 1 = call[t].cnt THEN "release" ELSE "select"
<1>1. call[t] \in CallState /\ call[t].cnt \in Nat /\ call[t].done \in Nat
  BY DEF CallState
<1>2. secs_op(call[t]) = 1
  BY <1>1, OneEach
<1>3. [call[t] EXCEPT !.done = call[t].done + 1] \in CallState
  BY <1>1 DEF CallState
<1>4. c = [call EXCEPT ![t] = [call[t] EXCEPT !.done = call[t].done + 1]]
  BY <1>1, <1>2 DEF Advance
<1>5. c[t] = [call[t] EXCEPT !.done = call[t].done + 1] /\ c \in [Clients -> CallState]
  BY <1>3, <1>4
<1>6. /\ c[t].op = call[t].op /\ c[t].dev = call[t].dev /\ c[t].lba = call[t].lba
      /\ c[t].cnt = call[t].cnt /\ c[t].done = call[t].done + 1
  BY <1>1, <1>5 DEF CallState
<1>7. NextChunk(c[t]) = IF call[t].done + 1 = call[t].cnt THEN "release" ELSE "select"
  BY <1>1, <1>6 DEF NextChunk
<1>. QED BY <1>4, <1>5, <1>6, <1>7

\* The sector read is the one asked for, and goes where it belongs.
LEMMA ReadDataIInv ==
  ASSUME IInv, NEW t \in Clients, ReadData(t)
  PROVE  IInv'
<1>. DEFINE l == NextChunk(Advance(t)[t])
<1>1. Running(t, "poll") /\ drive.state = "drq" /\ call[t].op = "read"
  BY DEF ReadData, Polls, DRQ
<1>2. /\ k.panic = FALSE /\ pc[t] = "poll" /\ k.status[t] = "TASK_RUNNING" /\ drive \in DriveState
      /\ call \in [Clients -> CallState] /\ call[t] \in CallState /\ TypesOK /\ CallOK(t)
      /\ buf \in [Clients -> Contents]
  BY <1>1, RunnerOK
<1>3. /\ call[t].cnt \in Nat /\ call[t].done \in Nat /\ call[t].lba \in Nat
      /\ call[t].done < call[t].cnt /\ (SecsMax = 1 \/ call[t].cnt = 1)
      /\ call[t].dev \in Devices /\ call[t].lba + call[t].cnt - 1 <= max_lba /\ max_lba \in Nat
  BY <1>2, IdeAssumption DEF CallOK, CallState
<1>4. /\ k' = k /\ regs' = regs /\ ch' = ch /\ disk' = disk
      /\ drive' = [drive EXCEPT !.state = "idle", !.left = 0]
      /\ irq' = (irq \/ drive.left > 1)
      /\ call' = Advance(t)
      /\ buf' = [buf EXCEPT ![t] = [s \in Sectors |->
                   IF s \in Moved(t) THEN disk[drive.dev][drive.lba + s - call[t].done]
                                     ELSE buf[t][s]]]
      /\ ticked' = ticked /\ pc' = [pc EXCEPT ![t] = l]
  BY <1>2 DEF ReadData, Goto
<1>5. /\ call' \in [Clients -> CallState] /\ \A u \in Clients \ {t} : call'[u] = call[u]
      /\ call'[t].op = call[t].op /\ call'[t].dev = call[t].dev /\ call'[t].lba = call[t].lba
      /\ call'[t].cnt = call[t].cnt /\ call'[t].done = call[t].done + 1
      /\ l = IF call[t].done + 1 = call[t].cnt THEN "release" ELSE "select"
  BY <1>2, <1>3, <1>4, AdvanceSet
<1>. HIDE DEF l
<1>6. pc[t] \in InChannel /\ l \in InChannel
  BY <1>2, <1>5 DEF InChannel
<1>7. Phase(t) /\ Asked(t) /\ Progress(t)
  BY <1>6, OneOwner
<1>8. SameBlocked /\ QueueOK' /\ PanicOnlyWhenLate'
  BY <1>2, <1>4, CalmStep
<1>9. pc'[t] = l
  BY <1>4, <1>6, <1>8, OwnerMoves
<1>10. \A s \in Sectors : s \in Moved(t) <=> s = call[t].done
  <2>1. FromUint8(Uint8(secs_op(call[t]))) = 1
    BY <1>3, OneEach
  <2>. QED BY <1>3, <2>1 DEF Moved, Sectors
<1>11. call[t].lba + call[t].done \in Sectors /\ call[t].done \in Sectors
  BY <1>3 DEF Sectors
<1>12. drive.dev = call[t].dev /\ drive.lba + call[t].done - call[t].done = call[t].lba + call[t].done
  BY <1>1, <1>3, <1>7 DEF Asked
<1>13. \A s \in Sectors : buf'[t][s] = IF s = call[t].done THEN disk[call[t].dev][call[t].lba + s]
                                                           ELSE buf[t][s]
  BY <1>2, <1>4, <1>10, <1>12
<1>14. buf' \in [Clients -> Contents] /\ \A u \in Clients \ {t} : buf'[u] = buf[u]
  <2>1. disk[call[t].dev][call[t].lba + call[t].done] \in Threads \cup {NULL}
    BY <1>2, <1>3, <1>11 DEF TypesOK, Contents
  <2>2. \A s \in Sectors : buf[t][s] \in Threads \cup {NULL}
    BY <1>2 DEF Contents
  <2>3. \A s \in Sectors : buf'[t][s] \in Threads \cup {NULL}
    BY <1>13, <2>1, <2>2
  <2>4. buf'[t] = [s \in Sectors |-> buf'[t][s]]
    BY <1>2, <1>4
  <2>5. buf'[t] \in Contents
    BY <2>3, <2>4 DEF Contents
  <2>. QED BY <1>2, <1>4, <2>5
<1>15. drive' \in DriveState /\ drive'.state = "idle" /\ drive'.left = 0
  BY <1>2, <1>4 DEF DriveState
<1>16. irq' = irq
  BY <1>2, <1>4 DEF DriveState, TypesOK
<1>17. CallOK(t)'
  BY <1>1, <1>2, <1>3, <1>5, <1>9 DEF CallOK
<1>18. TypesOK'
  BY <1>2, <1>4, <1>5, <1>14, <1>15, <1>16 DEF TypesOK
<1>19. Phase(t)' /\ Asked(t)'
  BY <1>1, <1>2, <1>4, <1>5, <1>7, <1>9, <1>15, <1>16 DEF Phase, Quiet, Consumed, Asked
<1>20. Progress(t)'
  <2>1. ASSUME NEW s \in 0 .. call[t].done
        PROVE  buf'[t][s] = disk[call[t].dev][call[t].lba + s]
    <3>1. s \in Sectors /\ (s # call[t].done => s \in 0 .. call[t].done - 1)
      BY <1>3 DEF Sectors
    <3>. QED BY <1>7, <1>13, <3>1 DEF Progress
  <2>2. call'[t].done - 1 = call[t].done
    BY <1>3, <1>5
  <2>. QED BY <1>4, <1>5, <1>9, <2>1, <2>2 DEF Progress
<1>21. SemaOK'
  BY <1>2, <1>4, <1>8, SemaSame
<1>. QED BY <1>4, <1>5, <1>6, <1>8, <1>14, <1>17, <1>18, <1>19, <1>20, <1>21, OwnerStep

\* sema_down(&disk_done) finds no answer yet: the owner sleeps.
LEMMA DownWaits ==
  ASSUME IInv, NEW t \in Clients, Down(t), ch.disk_done.value = 0
  PROVE  IInv'
<1>. DEFINE s == ch.disk_done
<1>1. Running(t, "done")
  BY DEF Down
<1>2. /\ k.panic = FALSE /\ k.cur = t /\ pc[t] = "done" /\ k.status[t] = "TASK_RUNNING" /\ t # Idle
      /\ RunQueueOK(k) /\ ch \in Channel /\ TypesOK /\ t \in Threads
  BY <1>1, RunnerOK
<1>3. /\ k' = DownBlock(k, s) /\ ch' = [ch EXCEPT !.disk_done = DownWaiters(k, ch.disk_done)]
      /\ pc' = pc /\ call' = call /\ regs' = regs /\ drive' = drive /\ irq' = irq
      /\ disk' = disk /\ buf' = buf /\ ticked' = ticked
  BY <1>2 DEF Down, Channel
<1>4. s \in SemaphoreState /\ NoDuplicates(s.waiters) /\ t \notin Range(s.waiters)
  BY <1>2 DEF IInv, SemaOK, Channel
<1>5. /\ RunQueueOK(k') /\ k'.status[t] = "TASK_BLOCKED"
      /\ SameRunnable(k, k', Threads \ {Idle, t})
      /\ DownWaiters(k, s) \in SemaphoreState /\ DownWaiters(k, s).value = s.value
      /\ NoDuplicates(DownWaiters(k, s).waiters)
      /\ Range(DownWaiters(k, s).waiters) = Range(s.waiters) \cup {t}
  BY <1>2, <1>3, <1>4, DownBlockOK
<1>6. /\ ch' \in Channel /\ ch'.lock = ch.lock /\ ch'.expecting_intr = ch.expecting_intr
      /\ ch'.disk_done = DownWaiters(k, s)
  BY <1>2, <1>3, <1>5 DEF Channel
<1>. HIDE DEF s
<1>7. \A u \in Clients \ {t} : k'.status[u] = "TASK_BLOCKED" <=> k.status[u] = "TASK_BLOCKED"
  BY <1>5 DEF SameRunnable, Runnable, Clients
<1>8. QueueOK' /\ PanicOnlyWhenLate'
  BY <1>5, QueueNext DEF PanicOnlyWhenLate
<1>9. PcOK' /\ TypesOK' /\ \A u \in Clients : CallOK(u)'
  BY <1>3, <1>6, CallSame DEF IInv, PcOK, TypesOK
<1>10. LockOK'
  <2>1. LockOf(k, ch.lock, Owners, Waiting) /\ t \notin Waiting /\ Waiting \subseteq Clients
    BY <1>2 DEF IInv, LockOK, Waiting
  <2>2. LockOf(k', ch.lock, Owners, Waiting)
    BY <1>7, <2>1, LockOfSame
  <2>3. Owners' = Owners /\ Waiting' = Waiting
    BY <1>3 DEF Owners, Waiting
  <2>. QED BY <1>6, <2>2, <2>3 DEF LockOK
<1>11. SemaOK'
  <2>1. \A u \in Threads : u \in Range(s.waiters) <=>
                             u \in Clients /\ pc[u] = "done" /\ k.status[u] = "TASK_BLOCKED"
    BY DEF IInv, SemaOK, s
  <2>. QED BY <1>2, <1>3, <1>5, <1>6, <1>7, <2>1 DEF SemaOK
<1>12. OwnerOK' /\ Owners' = {t}
  <2>1. pc[t] \in InChannel
    BY <1>2 DEF InChannel
  <2>2. Owners = {t} /\ Phase(t) /\ Asked(t) /\ Progress(t)
    BY <2>1, OneOwner
  <2>3. Owners' = {t}
    BY <1>3, <2>2 DEF Owners
  <2>4. Phase(t)'
    BY <1>2, <1>3, <1>5, <1>6, <2>2 DEF Phase, Awaited, Requested, Counted, s
  <2>5. Asked(t)' /\ Progress(t)'
    BY <1>3, <2>2 DEF Asked, Progress
  <2>. QED BY <2>3, <2>4, <2>5 DEF OwnerOK
<1>. QED BY <1>8, <1>9, <1>10, <1>11, <1>12 DEF IInv

\* It finds the answer: a read can fetch its data, a write is on the disk.
LEMMA DownTakes ==
  ASSUME IInv, NEW t \in Clients, Down(t), ch.disk_done.value # 0
  PROVE  IInv'
<1>. DEFINE l == IF call[t].op = "read" THEN "poll" ELSE NextChunk(Advance(t)[t])
<1>1. Running(t, "done")
  BY DEF Down
<1>2. /\ k.panic = FALSE /\ pc[t] = "done" /\ k.status[t] = "TASK_RUNNING" /\ drive \in DriveState
      /\ call \in [Clients -> CallState] /\ call[t] \in CallState /\ TypesOK /\ CallOK(t)
      /\ buf \in [Clients -> Contents] /\ ch \in Channel
  BY <1>1, RunnerOK
<1>3. /\ call[t].cnt \in Nat /\ call[t].done \in Nat /\ call[t].lba \in Nat
      /\ call[t].done < call[t].cnt /\ (SecsMax = 1 \/ call[t].cnt = 1) /\ call[t].op \in Ops
      /\ call[t].lba + call[t].cnt - 1 <= max_lba /\ max_lba \in Nat
  BY <1>2, IdeAssumption DEF CallOK, CallState
<1>4. /\ k' = DownTaken(k, ch.disk_done) /\ ch' = [ch EXCEPT !.disk_done = DownTake(ch.disk_done)]
      /\ call' = (IF call[t].op = "read" THEN call ELSE Advance(t))
      /\ pc' = [pc EXCEPT ![t] = l] /\ regs' = regs /\ drive' = drive /\ irq' = irq
      /\ disk' = disk /\ buf' = buf /\ ticked' = ticked
  BY <1>2 DEF Down, Channel, Goto
<1>5. /\ call' \in [Clients -> CallState] /\ \A u \in Clients \ {t} : call'[u] = call[u]
      /\ call'[t].op = call[t].op /\ call'[t].dev = call[t].dev /\ call'[t].lba = call[t].lba
      /\ call'[t].cnt = call[t].cnt
      /\ IF call[t].op = "read" THEN l = "poll" /\ call'[t].done = call[t].done
         ELSE /\ l = IF call[t].done + 1 = call[t].cnt THEN "release" ELSE "select"
              /\ call'[t].done = call[t].done + 1
  <2>1. CASE call[t].op = "read"
    BY <1>2, <1>4, <2>1
  <2>2. CASE call[t].op # "read"
    <3>1. call' = Advance(t) /\ l = NextChunk(Advance(t)[t])
      BY <1>4, <2>2
    <3>. HIDE DEF l
    <3>. QED BY <1>2, <1>3, <2>2, <3>1, AdvanceSet
  <2>. QED BY <2>1, <2>2
<1>. HIDE DEF l
<1>6. pc[t] \in InChannel /\ l \in InChannel
  BY <1>2, <1>5 DEF InChannel
<1>7. Phase(t) /\ Asked(t) /\ Progress(t)
  BY <1>6, OneOwner
<1>8. Counted /\ drive.state = (IF call[t].op = "read" THEN "drq" ELSE "idle")
  BY <1>2, <1>7 DEF Phase, Awaited, Requested
<1>9. ch.disk_done \in SemaphoreState /\ ch.disk_done.value = 1
  BY <1>2, <1>8 DEF Channel, Counted
<1>10. k' = k
  BY <1>4, <1>9 DEF DownTaken, Assert
<1>11. /\ DownTake(ch.disk_done) \in SemaphoreState /\ DownTake(ch.disk_done).value = 0
       /\ DownTake(ch.disk_done).waiters = ch.disk_done.waiters
  BY <1>9 DEF DownTake, SemaphoreState
<1>12. /\ ch' \in Channel /\ ch'.lock = ch.lock /\ ch'.expecting_intr = ch.expecting_intr
       /\ ch'.disk_done = DownTake(ch.disk_done)
  BY <1>2, <1>4, <1>11 DEF Channel
<1>13. SameBlocked /\ QueueOK' /\ PanicOnlyWhenLate'
  BY <1>2, <1>10, CalmStep
<1>14. pc'[t] = l
  BY <1>4, <1>6, <1>12, <1>13, OwnerMoves
<1>15. CallOK(t)'
  <2>1. CASE call[t].op = "read"
    BY <1>2, <1>4, <1>5, <1>14, <2>1 DEF CallOK
  <2>2. CASE call[t].op = "write"
    <3>1. /\ call[t].dev \in Devices /\ \A s \in Sectors : buf[t][s] = t
      BY <1>2, <2>2 DEF CallOK
    <3>2. IF l = "release" THEN call'[t].done = call'[t].cnt ELSE call'[t].done < call'[t].cnt
      <4>1. /\ l = IF call[t].done + 1 = call[t].cnt THEN "release" ELSE "select"
            /\ call'[t].done = call[t].done + 1 /\ call'[t].cnt = call[t].cnt
        BY <1>5, <2>2
      <4>2. CASE call[t].done + 1 = call[t].cnt
        BY <4>1, <4>2
      <4>3. CASE call[t].done + 1 # call[t].cnt
        <5>1. l # "release" /\ call[t].done + 1 < call[t].cnt
          BY <1>3, <4>1, <4>3
        <5>. QED BY <4>1, <5>1
      <4>. QED BY <4>2, <4>3
    <3>3. l \notin {"user", "acquire"}
      BY <1>5, <2>2
    <3>. QED BY <1>3, <1>4, <1>5, <1>14, <3>1, <3>2, <3>3 DEF CallOK
  <2>. QED BY <1>3, <2>1, <2>2 DEF Ops
<1>16. TypesOK'
  BY <1>2, <1>4, <1>5, <1>12 DEF TypesOK
<1>17. Phase(t)'
  BY <1>4, <1>5, <1>8, <1>11, <1>12, <1>14 DEF Phase, Quiet, Consumed, Counted
<1>18. Asked(t)'
  BY <1>4, <1>5, <1>7, <1>8, <1>14 DEF Asked
<1>19. Progress(t)'
  <2>1. CASE call[t].op = "read"
    BY <1>4, <1>5, <1>7, <1>14, <2>1 DEF Progress
  <2>2. CASE call[t].op = "write"
    <3>1. buf[t][call[t].done] = t /\ disk[call[t].dev][call[t].lba + call[t].done] = t
      <4>1. call[t].done \in Sectors
        BY <1>3 DEF Sectors
      <4>2. \A s \in Sectors : buf[t][s] = t
        BY <1>2, <2>2 DEF CallOK
      <4>3. drive.state = "idle"
        BY <1>8, <2>2
      <4>4. disk[call[t].dev][call[t].lba + call[t].done] = t
        BY <1>2, <1>7, <2>2, <4>3 DEF Progress
      <4>. QED BY <4>1, <4>2, <4>4
    <3>2. ASSUME NEW s \in 0 .. call[t].done
          PROVE  buf[t][s] = disk[call[t].dev][call[t].lba + s]
      <4>1. s # call[t].done => s \in 0 .. call[t].done - 1
        BY <1>3
      <4>. QED BY <1>7, <3>1, <4>1 DEF Progress
    <3>3. call'[t].done - 1 = call[t].done
      BY <1>3, <1>5, <2>2
    <3>. QED BY <1>4, <1>5, <1>14, <2>2, <3>2, <3>3 DEF Progress
  <2>. QED BY <1>3, <2>1, <2>2 DEF Ops
<1>20. SemaOK'
  BY <1>2, <1>4, <1>11, <1>12, <1>13, SemaSame
<1>. QED BY <1>4, <1>5, <1>6, <1>12, <1>13, <1>15, <1>16, <1>17, <1>18, <1>19, <1>20, OwnerStep

-----------------------------------------------------------------------------
\* The other threads, the drive and the interrupts.

\* Nobody disturbs the owner who leaves drive and channel alone.
LEMMA OwnerSame ==
  ASSUME IInv, Owners' = Owners, drive' = drive, irq' = irq, disk' = disk, regs' = regs,
         ch'.expecting_intr = ch.expecting_intr, ch'.disk_done = ch.disk_done,
         \A u \in Owners : pc'[u] = pc[u] /\ call'[u] = call[u] /\ buf'[u] = buf[u]
  PROVE  OwnerOK' /\ (Owners' = {} => Quiet')
<1>1. ASSUME NEW u \in Owners
      PROVE  Phase(u)' /\ Asked(u)' /\ Progress(u)'
  <2>1. Phase(u) /\ Asked(u) /\ Progress(u)
    BY DEF IInv, OwnerOK
  <2>2. Phase(u)'
    BY <2>1 DEF Phase, Quiet, Awaited, Requested, Counted, Consumed
  <2>3. Asked(u)' /\ Progress(u)'
    BY <2>1 DEF Asked, Progress
  <2>. QED BY <2>2, <2>3
<1>2. OwnerOK'
  BY <1>1 DEF OwnerOK
<1>. QED BY <1>2 DEF IInv, Quiet

\* Some other thread on the CPU, idle or a process, changes the run queue only.
LEMMA ElsewhereIInv ==
  ASSUME IInv, RunQueueOK(k'), SameBlocked, pc' \in [Threads -> Labels],
         \A u \in Clients : pc'[u] = pc[u],
         UNCHANGED <<ch, regs, drive, irq, disk, call, buf>>, ticked' \in [Clients -> BOOLEAN]
  PROVE  IInv'
<1>1. QueueOK' /\ PanicOnlyWhenLate'
  BY QueueNext DEF PanicOnlyWhenLate
<1>2. PcOK' /\ TypesOK' /\ \A u \in Clients : CallOK(u)'
  BY CallSame DEF IInv, PcOK, TypesOK
<1>3. Owners' = Owners /\ Waiting' = Waiting
  BY DEF Owners, Waiting
<1>4. LockOK'
  <2>1. LockOf(k', ch.lock, Owners, Waiting)
    BY LockOfSame DEF IInv, LockOK, SameBlocked, Waiting
  <2>. QED BY <1>3, <2>1 DEF LockOK
<1>5. SemaOK'
  BY DEF IInv, SemaOK, SameBlocked
<1>6. OwnerOK' /\ (Owners' = {} => Quiet')
  BY <1>3, OwnerSame DEF Owners
<1>. QED BY <1>1, <1>2, <1>4, <1>5, <1>6 DEF IInv

\* ide_read or ide_write is called.
LEMMA CallIInv ==
  ASSUME OneSector, IInv, NEW t \in Clients, NEW op \in Ops, NEW x \in Transfers, Call(t, op, x)
  PROVE  IInv'
<1>. DEFINE c == [op |-> op, dev |-> x.dev, lba |-> x.lba, cnt |-> x.cnt, done |-> 0, time_limit |-> 0]
            b == [s \in Sectors |-> IF op = "write" THEN t ELSE NULL]
<1>1. Running(t, "user")
  BY DEF Call
<1>2. /\ k.panic = FALSE /\ pc[t] = "user" /\ k.status[t] = "TASK_RUNNING" /\ t \in Threads
      /\ call \in [Clients -> CallState] /\ buf \in [Clients -> Contents] /\ TypesOK
  BY <1>1, RunnerOK
<1>3. /\ call' = [call EXCEPT ![t] = c] /\ buf' = [buf EXCEPT ![t] = b]
      /\ pc' = [pc EXCEPT ![t] = "acquire"]
      /\ k' = k /\ ch' = ch /\ regs' = regs /\ drive' = drive /\ irq' = irq /\ disk' = disk
      /\ ticked' = ticked
  BY DEF Call, Goto
<1>4. /\ x.dev \in Devices /\ x.lba \in Nat /\ x.cnt \in Nat /\ x.cnt > 0
      /\ x.lba + x.cnt - 1 <= max_lba /\ (SecsMax = 1 \/ x.cnt = 1)
  BY IdeAssumption DEF OneSector
<1>5. c \in CallState /\ b \in Contents
  <2>1. 0 \in 0 .. TimeLimit
    BY IdeAssumption
  <2>. QED BY <1>2, <1>4, <2>1 DEF CallState, Contents
<1>6. /\ call' \in [Clients -> CallState] /\ buf' \in [Clients -> Contents]
      /\ call'[t] = c /\ buf'[t] = b
      /\ \A u \in Clients \ {t} : call'[u] = call[u] /\ buf'[u] = buf[u]
  BY <1>2, <1>3, <1>5
<1>7. pc \in [Threads -> Labels] /\ pc' \in [Threads -> Labels] /\ pc'[t] = "acquire"
      /\ \A u \in Clients \ {t} : pc'[u] = pc[u]
  BY <1>2, <1>3 DEF IInv, PcOK, Labels, Clients
<1>8. CallOK(t)'
  <2>1. \A s \in Sectors : op = "write" => b[s] = t
    OBVIOUS
  <2>2. c.op = op /\ c.dev = x.dev /\ c.lba = x.lba /\ c.cnt = x.cnt /\ c.done = 0
    OBVIOUS
  <2>. HIDE DEF c, b
  <2>. QED BY <1>4, <1>6, <1>7, <2>1, <2>2 DEF CallOK
<1>. HIDE DEF c, b
<1>9. SameBlocked /\ QueueOK' /\ PanicOnlyWhenLate'
  BY <1>2, <1>3, CalmStep
<1>10. PcOK' /\ TypesOK' /\ \A u \in Clients : CallOK(u)'
  <2>1. PcOK'
    BY <1>7 DEF IInv, PcOK
  <2>2. TypesOK'
    BY <1>2, <1>3, <1>6 DEF TypesOK
  <2>. QED BY <1>6, <1>7, <1>8, <2>1, <2>2, CallSame DEF IInv
<1>11. Owners' = Owners /\ Waiting' = Waiting \cup {t} /\ t \notin Owners
  BY <1>2, <1>7 DEF Owners, Waiting, InChannel
<1>12. LockOK'
  BY <1>2, <1>3, <1>11 DEF IInv, LockOK, LockOf, Clients
<1>13. SemaOK'
  BY <1>2, <1>3, <1>9, SemaSame
<1>14. OwnerOK' /\ (Owners' = {} => Quiet')
  <2>1. \A u \in Owners : pc'[u] = pc[u] /\ call'[u] = call[u] /\ buf'[u] = buf[u]
    BY <1>6, <1>7, <1>11 DEF Owners
  <2>. QED BY <1>3, <1>11, <2>1, OwnerSame
<1>. QED BY <1>9, <1>10, <1>12, <1>13, <1>14 DEF IInv

\* lock_acquire of a channel that is taken.
LEMMA AcquireWaits ==
  ASSUME IInv, NEW t \in Clients, Acquire(t), ch.lock.sema.value = 0
  PROVE  IInv'
<1>1. Running(t, "acquire")
  BY DEF Acquire
<1>2. /\ k.panic = FALSE /\ k.cur = t /\ pc[t] = "acquire" /\ k.status[t] = "TASK_RUNNING" /\ t # Idle
      /\ RunQueueOK(k) /\ ch \in Channel /\ TypesOK /\ t \in Threads
  BY <1>1, RunnerOK
<1>3. /\ k' = DownBlock(k, ch.lock.sema)
      /\ ch' = [ch EXCEPT !.lock.sema = DownWaiters(k, ch.lock.sema)]
      /\ pc' = pc /\ regs' = regs /\ drive' = drive /\ irq' = irq /\ disk' = disk
      /\ call' = call /\ buf' = buf /\ ticked' = ticked
  BY <1>2 DEF Acquire, Channel, LockState
<1>4. LockOf(k, ch.lock, Owners, Waiting) /\ t \in Waiting /\ t \notin Owners
  BY <1>2 DEF IInv, LockOK, Waiting, Owners, InChannel
<1>5. /\ RunQueueOK(k') /\ k'.status[t] = "TASK_BLOCKED"
      /\ SameRunnable(k, k', Threads \ {Idle, t})
      /\ LockOf(k', [ch.lock EXCEPT !.sema = DownWaiters(k, ch.lock.sema)], Owners, Waiting \cup {t})
  BY <1>2, <1>3, <1>4, LockOfWait
<1>6. /\ ch' \in Channel /\ ch'.lock = [ch.lock EXCEPT !.sema = DownWaiters(k, ch.lock.sema)]
      /\ ch'.expecting_intr = ch.expecting_intr /\ ch'.disk_done = ch.disk_done
  <2>1. [ch.lock EXCEPT !.sema = DownWaiters(k, ch.lock.sema)] \in LockState
    BY <1>5 DEF LockOf
  <2>. QED BY <1>2, <1>3, <2>1 DEF Channel
<1>7. \A u \in Clients \ {t} : k'.status[u] = "TASK_BLOCKED" <=> k.status[u] = "TASK_BLOCKED"
  BY <1>5 DEF SameRunnable, Runnable, Clients
<1>8. QueueOK' /\ PanicOnlyWhenLate'
  BY <1>5, QueueNext DEF PanicOnlyWhenLate
<1>9. PcOK' /\ TypesOK' /\ \A u \in Clients : CallOK(u)'
  BY <1>3, <1>6, CallSame DEF IInv, PcOK, TypesOK
<1>10. Owners' = Owners /\ Waiting' = Waiting \cup {t}
  BY <1>3, <1>4 DEF Owners, Waiting
<1>11. LockOK'
  BY <1>5, <1>6, <1>10 DEF LockOK
<1>12. SemaOK'
  BY <1>2, <1>3, <1>6, <1>7 DEF IInv, SemaOK
<1>13. OwnerOK' /\ (Owners' = {} => Quiet')
  BY <1>3, <1>6, <1>10, OwnerSame
<1>. QED BY <1>8, <1>9, <1>11, <1>12, <1>13 DEF IInv

\* lock_acquire of a channel that is free.
LEMMA AcquireTakes ==
  ASSUME IInv, NEW t \in Clients, Acquire(t), ch.lock.sema.value # 0
  PROVE  IInv'
<1>. DEFINE lk == [holder |-> t, repeat |-> 1, sema |-> DownTake(ch.lock.sema)]
<1>1. Running(t, "acquire")
  BY DEF Acquire
<1>2. /\ k.panic = FALSE /\ k.cur = t /\ pc[t] = "acquire" /\ k.status[t] = "TASK_RUNNING" /\ t # Idle
      /\ RunQueueOK(k) /\ ch \in Channel /\ TypesOK /\ t \in Threads /\ CallOK(t)
      /\ call[t] \in CallState
  BY <1>1, RunnerOK
<1>3. /\ k' = Assert(ch.lock.repeat = 0, DownTaken(k, ch.lock.sema)) /\ ch' = [ch EXCEPT !.lock = lk]
      /\ pc' = [pc EXCEPT ![t] = "select"] /\ regs' = regs /\ drive' = drive /\ irq' = irq
      /\ disk' = disk /\ call' = call /\ buf' = buf /\ ticked' = ticked
  BY <1>2 DEF Acquire, Channel, Goto
<1>4. LockOf(k, ch.lock, Owners, Waiting)
  BY DEF IInv, LockOK
<1>5. k' = k /\ Owners = {} /\ LockOf(k, lk, {t}, Waiting \ {t})
  <2>1. /\ Assert(ch.lock.repeat = 0, DownTaken(k, ch.lock.sema)) = k /\ Owners = {}
        /\ LockOf(k, lk, {t}, Waiting \ {t})
    BY <1>2, <1>4, LockOfTake
  <2>. HIDE DEF lk
  <2>. QED BY <1>3, <2>1
<1>6. /\ ch' \in Channel /\ ch'.lock = lk
      /\ ch'.expecting_intr = ch.expecting_intr /\ ch'.disk_done = ch.disk_done
  <2>1. lk \in LockState
    BY <1>5 DEF LockOf
  <2>. QED BY <1>2, <1>3, <2>1 DEF Channel
<1>. HIDE DEF lk
<1>7. SameBlocked /\ QueueOK' /\ PanicOnlyWhenLate'
  BY <1>2, <1>5, CalmStep
<1>8. pc \in [Threads -> Labels] /\ pc' \in [Threads -> Labels] /\ pc'[t] = "select"
      /\ \A u \in Clients \ {t} : pc'[u] = pc[u]
  BY <1>2, <1>3 DEF IInv, PcOK, Labels, Clients
<1>9. Owners' = {t} /\ Waiting' = Waiting \ {t}
  BY <1>5, <1>8 DEF Owners, Waiting, InChannel
<1>10. LockOK'
  BY <1>5, <1>6, <1>9 DEF LockOK
<1>11. CallOK(t)'
  BY <1>2, <1>3, <1>8 DEF CallOK
<1>12. PcOK' /\ TypesOK' /\ \A u \in Clients : CallOK(u)'
  <2>1. PcOK'
    BY <1>8 DEF IInv, PcOK, InChannel
  <2>2. TypesOK'
    BY <1>2, <1>3, <1>6 DEF TypesOK
  <2>. QED BY <1>3, <1>8, <1>11, <2>1, <2>2, CallSame DEF IInv
<1>13. SemaOK'
  BY <1>2, <1>3, <1>6, <1>7, SemaSame
<1>14. OwnerOK'
  <2>1. Quiet /\ call[t].done = 0
    BY <1>2, <1>5 DEF IInv, CallOK
  <2>2. Phase(t)' /\ Asked(t)' /\ Progress(t)'
    BY <1>3, <1>6, <1>8, <2>1 DEF Phase, Quiet, Asked, Progress
  <2>. QED BY <1>9, <2>2 DEF OwnerOK
<1>. QED BY <1>7, <1>9, <1>10, <1>12, <1>13, <1>14 DEF IInv

\* lock_release leaves the drive idle, with nothing on its way.
LEMMA ReleaseIInv ==
  ASSUME IInv, NEW t \in Clients, Release(t)
  PROVE  IInv'
<1>. DEFINE lk == [holder |-> NULL, repeat |-> 0, sema |-> Up(ch.lock.sema)]
            b == [s \in Sectors |-> NULL]
<1>1. Running(t, "release")
  BY DEF Release
<1>2. /\ k.panic = FALSE /\ pc[t] = "release" /\ k.status[t] = "TASK_RUNNING" /\ t # Idle
      /\ RunQueueOK(k) /\ ch \in Channel /\ TypesOK /\ t \in Threads
      /\ call \in [Clients -> CallState] /\ buf \in [Clients -> Contents]
  BY <1>1, RunnerOK
<1>3. /\ k' = UpWake(Assert(ch.lock.holder = t /\ ch.lock.repeat = 1, k), ch.lock.sema)
      /\ ch' = [ch EXCEPT !.lock = lk]
      /\ call' = [call EXCEPT ![t] = NoCall] /\ buf' = [buf EXCEPT ![t] = b]
      /\ pc' = [pc EXCEPT ![t] = "user"] /\ regs' = regs /\ drive' = drive /\ irq' = irq
      /\ disk' = disk /\ ticked' = ticked
  BY <1>2 DEF Release, Channel, Goto
<1>4. pc[t] \in InChannel
  BY <1>2 DEF InChannel
<1>5. Owners = {t} /\ Phase(t) /\ LockOf(k, ch.lock, Owners, Waiting)
  BY <1>4, OneOwner DEF IInv, LockOK
<1>6. /\ RunQueueOK(k') /\ LockOf(k', lk, {}, Waiting)
      /\ \A u \in Threads : \/ k'.status[u] = k.status[u]
                            \/ /\ u \in Waiting /\ k.status[u] = "TASK_BLOCKED"
                               /\ k'.status[u] = "TASK_READY"
  <2>1. t \in Owners
    BY <1>5
  <2>. QED BY <1>2, <1>3, <1>5, <2>1, LockOfRelease
<1>7. /\ ch' \in Channel /\ ch'.lock = lk
      /\ ch'.expecting_intr = ch.expecting_intr /\ ch'.disk_done = ch.disk_done
  <2>1. lk \in LockState
    BY <1>6 DEF LockOf
  <2>. QED BY <1>2, <1>3, <2>1 DEF Channel
<1>. HIDE DEF lk
<1>8. QueueOK' /\ PanicOnlyWhenLate'
  BY <1>6, QueueNext DEF PanicOnlyWhenLate
<1>9. pc \in [Threads -> Labels] /\ pc' \in [Threads -> Labels] /\ pc'[t] = "user"
      /\ \A u \in Clients \ {t} : pc'[u] = pc[u]
  BY <1>2, <1>3 DEF IInv, PcOK, Labels, Clients
<1>10. Owners' = {} /\ Waiting' = Waiting
  BY <1>2, <1>5, <1>9 DEF Owners, Waiting, InChannel
<1>11. LockOK'
  BY <1>6, <1>7, <1>10 DEF LockOK
<1>12. NoCall \in CallState /\ NoCall.done = 0 /\ NoCall.cnt = 0 /\ b \in Contents
  <2>1. 0 \in 0 .. TimeLimit
    BY IdeAssumption
  <2>. QED BY <2>1 DEF NoCall, CallState, Ops, Contents
<1>. HIDE DEF b
<1>13. /\ call' \in [Clients -> CallState] /\ buf' \in [Clients -> Contents] /\ call'[t] = NoCall
       /\ \A u \in Clients \ {t} : call'[u] = call[u] /\ buf'[u] = buf[u]
  BY <1>2, <1>3, <1>12
<1>14. CallOK(t)'
  BY <1>9, <1>12, <1>13 DEF CallOK
<1>15. PcOK' /\ TypesOK' /\ \A u \in Clients : CallOK(u)'
  <2>1. PcOK'
    BY <1>9 DEF IInv, PcOK
  <2>2. TypesOK'
    BY <1>2, <1>3, <1>7, <1>13 DEF TypesOK
  <2>. QED BY <1>9, <1>13, <1>14, <2>1, <2>2, CallSame DEF IInv
<1>16. SemaOK'
  <2>1. ASSUME NEW u \in Threads
        PROVE  (u \in Clients /\ pc'[u] = "done" /\ k'.status[u] = "TASK_BLOCKED")
                 <=> (u \in Clients /\ pc[u] = "done" /\ k.status[u] = "TASK_BLOCKED")
    BY <1>2, <1>6, <1>9 DEF Waiting
  <2>. QED BY <1>7, <2>1 DEF IInv, SemaOK
<1>17. OwnerOK' /\ Quiet'
  BY <1>2, <1>3, <1>5, <1>7, <1>10 DEF OwnerOK, Phase, Quiet
<1>. QED BY <1>8, <1>11, <1>15, <1>16, <1>17 DEF IInv

\* What is left to show of a step of the drive.
LEMMA DriveFrame ==
  ASSUME IInv, UNCHANGED <<k, pc, ch, regs, call, buf, ticked>>, TypesOK',
         NEW t \in Owners, Phase(t)', Asked(t)', Progress(t)'
  PROVE  IInv'
<1>1. QueueOK' /\ PcOK' /\ LockOK' /\ SemaOK' /\ PanicOnlyWhenLate'
  BY DEF IInv, QueueOK, PcOK, LockOK, Owners, Waiting, SemaOK, PanicOnlyWhenLate
<1>2. \A u \in Clients : CallOK(u)'
  BY CallSame DEF IInv
<1>3. Owners = {t} /\ Owners' = Owners
  BY OneOwner DEF Owners
<1>. QED BY <1>1, <1>2, <1>3 DEF IInv, OwnerOK

\* A drive that is not idle works for somebody, and on what was asked for.
LEMMA DriveWorks ==
  ASSUME IInv, drive.state # "idle" \/ irq
  PROVE  \E t \in Owners : /\ t \in Clients /\ t \in Threads /\ pc[t] \in InChannel
                           /\ Phase(t) /\ Asked(t) /\ Progress(t) /\ CallOK(t)
                           /\ call[t] \in CallState
<1>1. Owners # {}
  BY DEF IInv, Quiet
<1>. QED BY <1>1 DEF IInv, OwnerOK, Owners, TypesOK, Clients

\* The drive has read a sector, or wants to be sent one.
LEMMA DriveReadyIInv ==
  ASSUME IInv, DriveReady
  PROVE  IInv'
<1>1. /\ drive.state = "busy" /\ drive' = [drive EXCEPT !.state = "drq"]
      /\ irq' = (irq \/ drive.op = "read") /\ disk' = disk
      /\ UNCHANGED <<k, pc, ch, regs, call, buf, ticked>>
  BY DEF DriveReady
<1>2. PICK t \in Owners : /\ t \in Clients /\ pc[t] \in InChannel
                          /\ Phase(t) /\ Asked(t) /\ Progress(t) /\ call[t] \in CallState
  BY <1>1, DriveWorks
<1>3. TypesOK /\ drive \in DriveState
  BY DEF IInv, TypesOK
<1>4. /\ drive' \in DriveState /\ drive'.state = "drq" /\ drive'.op = drive.op
      /\ drive'.dev = drive.dev /\ drive'.lba = drive.lba /\ drive'.left = drive.left
      /\ drive'.by = drive.by
  BY <1>1, <1>3 DEF DriveState
<1>5. TypesOK'
  BY <1>1, <1>3, <1>4 DEF TypesOK
<1>6. drive.op = call[t].op
  BY <1>1, <1>2 DEF Asked
<1>7. Phase(t)'
  BY <1>1, <1>2, <1>4, <1>6 DEF Phase, InChannel, Quiet, Awaited, Requested, Counted, Consumed
<1>8. Asked(t)' /\ Progress(t)'
  BY <1>1, <1>2, <1>4 DEF Asked, Progress
<1>. QED BY <1>1, <1>5, <1>7, <1>8, DriveFrame

\* The drive has written a sector.
LEMMA DriveWritesIInv ==
  ASSUME IInv, DriveWrites
  PROVE  IInv'
<1>1. drive.state = "writing" /\ UNCHANGED <<k, pc, ch, regs, call, buf, ticked>> /\ irq' = TRUE
      /\ disk' = [disk EXCEPT ![drive.dev][drive.lba] = drive.by]
  BY DEF DriveWrites
<1>2. PICK t \in Owners : /\ t \in Clients /\ t \in Threads /\ pc[t] \in InChannel
                          /\ Phase(t) /\ Asked(t) /\ Progress(t) /\ CallOK(t)
                          /\ call[t] \in CallState
  BY <1>1, DriveWorks
<1>3. TypesOK /\ drive \in DriveState /\ drive.left = 1 /\ disk \in [Devices -> Contents]
  BY <1>1 DEF IInv, TypesOK, DriveState
<1>4. drive' = [drive EXCEPT !.state = "idle", !.left = 0]
  BY <1>3 DEF DriveWrites
<1>5. drive' \in DriveState /\ drive'.state = "idle" /\ drive'.left = 0
  BY <1>3, <1>4 DEF DriveState
<1>6. pc[t] = "done" /\ call[t].op = "write" /\ Awaited
  BY <1>1, <1>2 DEF Phase, InChannel, Quiet, CallState, Ops
<1>7. /\ call[t].dev \in Devices /\ call[t].done \in Nat /\ call[t].lba \in Nat /\ call[t].cnt \in Nat
      /\ call[t].done < call[t].cnt /\ call[t].lba + call[t].cnt - 1 <= max_lba /\ max_lba \in Nat
      /\ \A s \in Sectors : buf[t][s] = t
  BY <1>2, <1>6, IdeAssumption DEF CallOK, CallState
<1>8. call[t].lba + call[t].done \in Sectors
  BY <1>7 DEF Sectors
<1>9. disk' = [disk EXCEPT ![call[t].dev][call[t].lba + call[t].done] = t]
  BY <1>1, <1>2 DEF Asked
<1>10. /\ disk' \in [Devices -> Contents]
       /\ disk'[call[t].dev][call[t].lba + call[t].done] = t
       /\ \A s \in Sectors : disk'[call[t].dev][s] \in {t, disk[call[t].dev][s]}
  <2>. DEFINE d == disk[call[t].dev]
              e == [d EXCEPT ![call[t].lba + call[t].done] = t]
  <2>1. d \in Contents
    BY <1>3, <1>7
  <2>2. e \in Contents /\ e[call[t].lba + call[t].done] = t /\ \A s \in Sectors : e[s] \in {t, d[s]}
    BY <1>2, <1>8, <2>1 DEF Contents
  <2>3. disk' = [disk EXCEPT ![call[t].dev] = e]
    BY <1>9
  <2>. HIDE DEF e
  <2>. QED BY <1>3, <1>7, <2>2, <2>3
<1>11. TypesOK'
  BY <1>1, <1>3, <1>5, <1>10 DEF TypesOK
<1>12. Phase(t)' /\ Asked(t)'
  BY <1>1, <1>5, <1>6 DEF Phase, Awaited, Requested, Asked
<1>13. Progress(t)'
  <2>1. ASSUME NEW s \in 0 .. call[t].done - 1
        PROVE  buf[t][s] = disk'[call[t].dev][call[t].lba + s]
    <3>1. s \in Sectors /\ call[t].lba + s \in Sectors
      BY <1>7 DEF Sectors
    <3>2. buf[t][s] = t /\ disk[call[t].dev][call[t].lba + s] = t
      BY <1>2, <1>7, <3>1 DEF Progress
    <3>. QED BY <1>10, <3>1, <3>2
  <2>. QED BY <1>1, <1>10, <2>1 DEF Progress
<1>. QED BY <1>1, <1>2, <1>11, <1>12, <1>13, DriveFrame

\* A list without elements is empty.
LEMMA NoWaiters ==
  ASSUME NEW w \in Seq(Threads), Range(w) = {}
  PROVE  w = << >>
<1>1. \A i \in 1 .. Len(w) : w[i] \in Range(w)
  BY DEF Range
<1>2. Len(w) = 0
  <2>1. Len(w) \in Nat
    OBVIOUS
  <2>2. Len(w) # 0 => 1 \in 1 .. Len(w)
    BY <2>1
  <2>. QED BY <1>1, <2>2
<1>. QED BY <1>2

\* An interrupt that ends a hlt moves idle only.
LEMMA EndHaltOK ==
  ASSUME IInv, k.cur \in Threads, EndHalt
  PROVE  pc' \in [Threads -> Labels] /\ \A u \in Clients : pc'[u] = pc[u]
<1>1. pc \in [Threads -> Labels] /\ \A u \in Clients : pc[u] # "hlt"
  BY DEF IInv, PcOK, InChannel
<1>2. "block" \in Labels
  BY DEF Labels, IdleLabels
<1>. QED BY <1>1, <1>2 DEF EndHalt, Clients

\* The disk interrupt: it belongs to the command of the owner, is counted once,
\* and wakes the owner if it sleeps.
LEMMA HandlerIInv ==
  ASSUME IInv, intr_hd_handler
  PROVE  IInv'
<1>. DEFINE s == ch.disk_done
<1>1. irq /\ k.panic = FALSE /\ irq' = FALSE /\ UNCHANGED <<regs, drive, disk, call, buf, ticked>>
  BY DEF intr_hd_handler
<1>2. RunQueueOK(k) /\ k.cur \in Threads
  BY <1>1, RunsOK
<1>3. PICK t \in Owners : /\ t \in Clients /\ pc[t] \in InChannel
                          /\ Phase(t) /\ Asked(t) /\ Progress(t)
  BY <1>1, DriveWorks
<1>4. Owners = {t}
  BY <1>3, OneOwner
<1>5. pc[t] = "done" /\ Requested /\ drive.state = (IF call[t].op = "read" THEN "drq" ELSE "idle")
  BY <1>1, <1>3 DEF Phase, InChannel, Quiet, Awaited, Counted, Consumed
<1>6. TypesOK /\ ch \in Channel /\ s \in SemaphoreState /\ s.value = 0 /\ ch.expecting_intr
  BY <1>5 DEF IInv, TypesOK, Channel, Requested
<1>7. k' = UpWake(k, s) /\ ch' = [ch EXCEPT !.expecting_intr = FALSE, !.disk_done = Up(s)] /\ EndHalt
  BY <1>6 DEF intr_hd_handler
<1>. HIDE DEF s
<1>8. NoDuplicates(s.waiters) /\ \A u \in Threads : u \in Range(s.waiters) <=>
                                   u \in Clients /\ pc[u] = "done" /\ k.status[u] = "TASK_BLOCKED"
  BY DEF IInv, SemaOK, s
<1>9. \A u \in Range(s.waiters) : u \in Threads /\ u = t /\ k.status[u] = "TASK_BLOCKED"
  <2>1. \A u \in Range(s.waiters) : u \in Threads
    BY <1>6 DEF SemaphoreState, Range
  <2>. QED BY <1>4, <1>8, <2>1 DEF Owners, InChannel
<1>10. /\ RunQueueOK(k')
       /\ Up(s) \in SemaphoreState /\ Up(s).value = 1 /\ NoDuplicates(Up(s).waiters)
       /\ \/ s.waiters = << >> /\ k' = k /\ Up(s).waiters = << >>
          \/ \E h \in Range(s.waiters) :
               /\ Range(Up(s).waiters) = Range(s.waiters) \ {h}
               /\ \A u \in Threads : k'.status[u] = IF u = h THEN "TASK_READY" ELSE k.status[u]
  BY <1>2, <1>6, <1>7, <1>8, <1>9, UpOK
<1>11. /\ Up(s).waiters = << >>
       /\ k'.status[t] # "TASK_BLOCKED" /\ \A u \in Clients \ {t} : k'.status[u] = k.status[u]
  <2>1. CASE s.waiters = << >> /\ k' = k /\ Up(s).waiters = << >>
    <3>1. t \notin Range(s.waiters)
      BY <2>1 DEF Range
    <3>. QED BY <1>3, <1>5, <1>8, <2>1, <3>1 DEF Clients
  <2>2. ASSUME NEW h \in Range(s.waiters), Range(Up(s).waiters) = Range(s.waiters) \ {h},
               \A u \in Threads : k'.status[u] = IF u = h THEN "TASK_READY" ELSE k.status[u]
        PROVE  /\ Up(s).waiters = << >> /\ k'.status[t] # "TASK_BLOCKED"
               /\ \A u \in Clients \ {t} : k'.status[u] = k.status[u]
    <3>1. h = t /\ Range(Up(s).waiters) = {}
      BY <1>9, <2>2
    <3>2. Up(s).waiters \in Seq(Threads)
      BY <1>10 DEF SemaphoreState
    <3>. QED BY <1>3, <2>2, <3>1, <3>2, NoWaiters DEF Clients
  <2>. QED BY <1>10, <2>1, <2>2
<1>12. /\ ch' \in Channel /\ ch'.lock = ch.lock /\ ~ch'.expecting_intr /\ ch'.disk_done = Up(s)
  BY <1>6, <1>7, <1>10 DEF Channel
<1>13. pc' \in [Threads -> Labels] /\ \A u \in Clients : pc'[u] = pc[u]
  BY <1>2, <1>7, EndHaltOK
<1>14. QueueOK' /\ PanicOnlyWhenLate'
  BY <1>10, QueueNext DEF PanicOnlyWhenLate
<1>15. PcOK' /\ TypesOK' /\ \A u \in Clients : CallOK(u)'
  <2>1. PcOK'
    BY <1>13 DEF IInv, PcOK
  <2>2. TypesOK'
    BY <1>1, <1>6, <1>12 DEF TypesOK
  <2>. QED BY <1>1, <1>13, <2>1, <2>2, CallSame DEF IInv
<1>16. Owners' = Owners /\ Waiting' = Waiting
  BY <1>13 DEF Owners, Waiting
<1>17. LockOK'
  <2>1. LockOf(k, ch.lock, Owners, Waiting) /\ \A u \in Waiting : u \in Clients \ {t}
    BY <1>5 DEF IInv, LockOK, Waiting
  <2>2. LockOf(k', ch.lock, Owners, Waiting)
    BY <1>11, <2>1, LockOfSame
  <2>. QED BY <1>12, <1>16, <2>2 DEF LockOK
<1>18. SemaOK'
  <2>1. ASSUME NEW u \in Clients, pc[u] = "done"
        PROVE  k'.status[u] # "TASK_BLOCKED"
    BY <1>4, <1>11, <2>1 DEF Owners, InChannel
  <2>2. Range(Up(s).waiters) = {}
    BY <1>11 DEF Range
  <2>. QED BY <1>10, <1>12, <1>13, <2>1, <2>2 DEF SemaOK
<1>19. OwnerOK'
  <2>1. Phase(t)'
    BY <1>1, <1>3, <1>5, <1>10, <1>11, <1>12, <1>13 DEF Phase, Counted
  <2>2. Asked(t)' /\ Progress(t)'
    BY <1>1, <1>3, <1>13 DEF Asked, Progress
  <2>. QED BY <1>4, <1>16, <2>1, <2>2 DEF OwnerOK
<1>. QED BY <1>4, <1>14, <1>15, <1>16, <1>17, <1>18, <1>19 DEF IInv

\* The clock interrupt.
LEMMA TimerIInv ==
  ASSUME IInv, Timer
  PROVE  IInv'
<1>1. /\ k.panic = FALSE /\ k' = intr_timer_handler(k) /\ EndHalt
      /\ ticked' = [t \in Clients |-> TRUE]
      /\ UNCHANGED <<ch, regs, drive, irq, disk, call, buf>>
  BY DEF Timer, ClockInterrupt
<1>2. RunQueueOK(k) /\ k.cur \in Threads
  BY <1>1, RunsOK
<1>3. RunQueueOK(k') /\ SameRunnable(k, k', Threads \ {Idle})
  BY <1>1, <1>2, TimerOK
<1>4. SameBlocked
  BY <1>3 DEF SameRunnable, Runnable, SameBlocked, Clients
<1>5. pc' \in [Threads -> Labels] /\ \A u \in Clients : pc'[u] = pc[u]
  BY <1>1, <1>2, EndHaltOK
<1>6. ticked' \in [Clients -> BOOLEAN]
  BY <1>1
<1>. QED BY <1>1, <1>3, <1>4, <1>5, <1>6, ElsewhereIInv

\* The idle thread.
LEMMA IdleIInv ==
  ASSUME IInv, IdleStep
  PROVE  IInv'
<1>1. k.panic = FALSE /\ k.cur = Idle /\ UNCHANGED ideVars
  BY DEF IdleStep, IdleBlock, IdleHalt, Running
<1>2. RunQueueOK(k)
  BY <1>1, RunsOK
<1>3. RunQueueOK(k') /\ SameRunnable(k, k', Threads \ {Idle})
  <2>1. CASE IdleBlock
    BY <1>1, <1>2, <2>1, BlockOK DEF IdleBlock, Blocked
  <2>2. CASE IdleHalt
    BY <1>2, <2>2 DEF IdleHalt, SameRunnable
  <2>. QED BY <2>1, <2>2 DEF IdleStep
<1>4. SameBlocked
  BY <1>3 DEF SameRunnable, Runnable, SameBlocked, Clients
<1>5. pc' \in [Threads -> Labels] /\ \A u \in Clients : pc'[u] = pc[u]
  <2>1. pc \in [Threads -> Labels] /\ {"wake", "hlt"} \subseteq Labels
    BY DEF IInv, PcOK, Labels, IdleLabels
  <2>2. \E l \in {"wake", "hlt"} : pc' = [pc EXCEPT ![Idle] = l]
    BY DEF IdleStep, IdleBlock, IdleHalt, Goto
  <2>. QED BY <2>1, <2>2 DEF Clients
<1>6. UNCHANGED <<ch, regs, drive, irq, disk, call, buf>> /\ ticked' \in [Clients -> BOOLEAN]
  BY <1>1 DEF ideVars, IInv, TypesOK
<1>. QED BY <1>3, <1>4, <1>5, <1>6, ElsewhereIInv

-----------------------------------------------------------------------------

\* After boot nobody uses the disk.
LEMMA InitIInv == Init => IInv
<1>. SUFFICES ASSUME Init PROVE IInv
  OBVIOUS
<1>. USE ThreadsAssumption, NullAssumption, BootAssumption
<1>1. /\ Head(BootOrder) \in Threads /\ Tail(BootOrder) \in Seq(Threads)
      /\ Range(Tail(BootOrder)) = Range(BootOrder) \ {Head(BootOrder)}
      /\ Head(BootOrder) \in Range(BootOrder)
      /\ NoDuplicates(Tail(BootOrder))
  BY PopFacts
<1>2. /\ k.cur = Head(BootOrder) /\ k.ready = Tail(BootOrder) /\ k.panic = FALSE
      /\ \A t \in Threads : k.status[t] = IF t = Head(BootOrder) THEN "TASK_RUNNING"
                                          ELSE IF t \in Range(BootOrder) THEN "TASK_READY"
                                          ELSE "NONE"
      /\ k \in SchedulerState
  BY <1>1 DEF Init, InitScheduler, SchedulerState, Status, Blocked
<1>3. RunQueueOK(k)
  BY <1>1, <1>2 DEF RunQueueOK, ReadyListIsReady, OneRunning, IdleCanRun
<1>4. Calm(k) = k
  BY <1>2 DEF Calm, SchedulerState
<1>5. QueueOK
  BY <1>2, <1>3, <1>4 DEF QueueOK
<1>6. PcOK /\ \A t \in Clients : pc[t] = "user"
  BY DEF Init, PcOK, Labels, IdleLabels, Clients
<1>7. /\ NoCall \in CallState /\ NoCall.done = 0 /\ NoCall.cnt = 0
      /\ [s \in Sectors |-> NULL] \in Contents
  <2>1. 0 \in 0 .. TimeLimit
    BY IdeAssumption
  <2>. QED BY <2>1 DEF NoCall, CallState, Ops, Contents
<1>8. /\ sema_init(0) \in SemaphoreState /\ lock_init \in LockState
      /\ sema_init(0).waiters = << >> /\ sema_init(0).value = 0
      /\ lock_init.sema.waiters = << >> /\ lock_init.sema.value = 1
      /\ lock_init.holder = NULL /\ lock_init.repeat = 0
  BY DEF sema_init, SemaphoreState, lock_init, LockState
<1>9. TypesOK
  <2>1. ch \in Channel
    BY <1>8 DEF Init, Channel
  <2>2. drive \in DriveState /\ drive.left = 0 /\ drive.state = "idle"
    BY DEF Init, DriveState, Ops
  <2>3. regs.dev \in Devices \cup {NoCall.dev} /\ regs.lba \in Nat /\ irq \in BOOLEAN
    BY DEF Init
  <2>4. disk \in [Devices -> Contents] /\ call \in [Clients -> CallState]
        /\ buf \in [Clients -> Contents] /\ ticked \in [Clients -> BOOLEAN]
    BY <1>7 DEF Init
  <2>. QED BY <2>1, <2>2, <2>3, <2>4 DEF TypesOK
<1>10. \A t \in Clients : CallOK(t)
  BY <1>6, <1>7 DEF Init, CallOK
<1>11. Owners = {} /\ Waiting = {}
  BY <1>6 DEF Owners, Waiting, InChannel
<1>12. ch.lock = lock_init /\ ch.disk_done = sema_init(0)
  BY DEF Init
<1>13. Range(<< >>) = {} /\ NoDuplicates(<< >>)
  BY DEF Range, NoDuplicates
<1>14. LockOK
  BY <1>8, <1>11, <1>12, <1>13 DEF LockOK, LockOf
<1>15. SemaOK
  BY <1>6, <1>8, <1>12, <1>13 DEF SemaOK
<1>16. OwnerOK /\ Quiet /\ PanicOnlyWhenLate
  BY <1>2, <1>8, <1>11, <1>12 DEF Init, OwnerOK, Quiet, PanicOnlyWhenLate
<1>. QED BY <1>5, <1>6, <1>9, <1>10, <1>14, <1>15, <1>16 DEF IInv

\* Every step keeps the invariant.
LEMMA NextIInv ==
  ASSUME OneSector, IInv, [Next]_vars
  PROVE  IInv'
<1>1. ASSUME NEW t \in Clients, NEW op \in {"read", "write"}, NEW x \in Transfers, Call(t, op, x)
      PROVE  IInv'
  BY <1>1, CallIInv DEF Ops
<1>2. ASSUME NEW t \in Clients, DriverStep(t)
      PROVE  IInv'
  <2>1. CASE Acquire(t)
    BY <2>1, AcquireWaits, AcquireTakes
  <2>2. CASE Down(t)
    BY <2>2, DownWaits, DownTakes
  <2>. QED BY <1>2, <2>1, <2>2, SelectIInv, ExpectIInv, CommandIInv, BusyIInv, SleepIInv, FailIInv,
              ReadDataIInv, WriteDataIInv, ReleaseIInv DEF DriverStep
<1>3. CASE DriveStep
  BY <1>3, DriveReadyIInv, DriveWritesIInv DEF DriveStep
<1>4. CASE UNCHANGED vars
  <2>1. /\ k' = k /\ pc' = pc /\ ch' = ch /\ regs' = regs /\ drive' = drive /\ irq' = irq
        /\ disk' = disk /\ call' = call /\ buf' = buf /\ ticked' = ticked
    BY <1>4 DEF vars, ideVars
  <2>2. QueueOK' /\ PcOK' /\ LockOK' /\ SemaOK' /\ PanicOnlyWhenLate' /\ Owners' = Owners
    BY <2>1 DEF IInv, QueueOK, PcOK, LockOK, Owners, Waiting, SemaOK, PanicOnlyWhenLate
  <2>3. TypesOK' /\ \A u \in Clients : CallOK(u)'
    BY <2>1, CallSame DEF IInv, TypesOK
  <2>4. OwnerOK' /\ (Owners' = {} => Quiet')
    BY <2>1, <2>2, OwnerSame
  <2>. QED BY <2>2, <2>3, <2>4 DEF IInv
<1>. QED BY <1>1, <1>2, <1>3, <1>4, HandlerIInv, TimerIInv, IdleIInv DEF Next

-----------------------------------------------------------------------------

\* Lock, semaphore, interrupt and drive agree in every reachable state, with one
\* sector per command.
THEOREM Invariance == OneSector => (Spec => []IInv)
<1>. SUFFICES ASSUME OneSector PROVE Spec => []IInv
  OBVIOUS
<1>1. IInv /\ [Next]_vars => IInv'
  BY NextIInv
<1>. QED BY <1>1, InitIInv, PTL DEF Spec

\* With one sector per command the kernel stops in the driver only when
\* busy_wait has used up its tries: no ASSERT fails, whenever interrupts come.
THEOREM StopsOnlyWhenLate == OneSector => (Spec => []PanicOnlyWhenLate)
<1>. SUFFICES ASSUME OneSector PROVE Spec => []PanicOnlyWhenLate
  OBVIOUS
<1>1. IInv => PanicOnlyWhenLate
  BY DEF IInv
<1>2. Spec => []IInv
  BY Invariance
<1>. QED BY <1>1, <1>2, PTL

\* With one sector per command, commands go to idle drives, with nothing of an
\* earlier command on its way, although the driver never looks.
THEOREM CommandsFindIdleDrives == OneSector => (Spec => []CommandToIdleDrive)
<1>. SUFFICES ASSUME OneSector PROVE Spec => []CommandToIdleDrive
  OBVIOUS
<1>1. IInv => CommandToIdleDrive
  <2>. SUFFICES ASSUME IInv PROVE CommandToIdleDrive
    OBVIOUS
  <2>1. ASSUME NEW t \in Clients
        PROVE  call[t].done \in 0 .. call[t].cnt /\ call[t].time_limit \in 0 .. TimeLimit
    <3>1. CallOK(t) /\ call[t] \in CallState
      BY DEF IInv, TypesOK
    <3>2. call[t].done \in Nat /\ call[t].cnt \in Nat /\ call[t].time_limit \in 0 .. TimeLimit
      BY <3>1 DEF CallState
    <3>3. call[t].done <= call[t].cnt
      BY <3>1, <3>2 DEF CallOK
    <3>. QED BY <3>2, <3>3
  <2>2. TypeOK
    BY <2>1 DEF IInv, QueueOK, PcOK, TypesOK, Channel, DriveState, TypeOK
  <2>3. ASSUME NEW t \in Clients, pc[t] = "command"
        PROVE  drive.state = "idle" /\ ~irq /\ ch.disk_done.value = 0 /\ ch.expecting_intr
    <3>1. pc[t] \in InChannel
      BY <2>3 DEF InChannel
    <3>. QED BY <2>3, <3>1, OneOwner DEF Phase, Awaited
  <2>. QED BY <2>2, <2>3 DEF CommandToIdleDrive
<1>2. Spec => []IInv
  BY Invariance
<1>. QED BY <1>1, <1>2, PTL

\* With one sector per command, ide_read returns what is on the disk, and
\* ide_write returns when what it was given is there.
THEOREM DataTransferred == OneSector => (Spec => []Transferred)
<1>. SUFFICES ASSUME OneSector PROVE Spec => []Transferred
  OBVIOUS
<1>1. IInv => Transferred
  <2>. SUFFICES ASSUME IInv, NEW t \in Clients, pc[t] = "release",
                       NEW s \in 0 .. call[t].cnt - 1
                PROVE  buf[t][s] = disk[call[t].dev][call[t].lba + s]
    BY DEF Transferred
  <2>1. pc[t] \in InChannel
    BY DEF InChannel
  <2>2. Progress(t) /\ CallOK(t)
    BY <2>1, OneOwner
  <2>. QED BY <2>2 DEF Progress, CallOK
<1>2. Spec => []IInv
  BY Invariance
<1>. QED BY <1>1, <1>2, PTL

=============================================================================

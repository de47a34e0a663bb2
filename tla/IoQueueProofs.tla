---------------------------- MODULE IoQueueProofs ----------------------------
(***************************************************************************)
(* The ring buffer of device/ioqueue.c, for any number of threads and any  *)
(* size of the buffer: what each of its functions keeps true of the lock,  *)
(* of the sleepers and of the bytes, whoever calls it.  Then its two       *)
(* users, the readers and writers of a pipe, and the keyboard driver with  *)
(* the readers of stdin.                                                   *)
(***************************************************************************)
EXTENDS Pipe, Keyboard, CommonProofs

\* The threads that have the lock of the ring, and those that want it.
HaveLock == {t \in Clients : pc[t] \in {"wait", "woken"}}
WantLock == {t \in Clients : pc[t] = "lock"}

\* Where the threads are.
Labelled == pc[Idle] \in IdleLabels /\ \A t \in Clients : pc[t] \in QueueLabels

\* A thread is between its test and its sleep only while it has the CPU.
OnCpu == \A t \in Clients : pc[t] \in {"test", "wait"} => k.cur = t

\* The thread that is recorded as sleeping sleeps, and no other does.
Sleepers ==
  \A s \in Sides :
    /\ q[s] # Idle
    /\ \A t \in Clients :
         q[s] = t <=> side[t] = s /\ pc[t] = "woken" /\ k.status[t] = "TASK_BLOCKED"

\* What the functions of ioqueue.c keep true, whoever calls them.
QueueInv ==
  /\ QueueTypeOK /\ RunQueueOK(k) /\ Labelled
  /\ OnCpu /\ Sleepers
  /\ LockOf(k, q.lock, HaveLock, WantLock)

-----------------------------------------------------------------------------
\* The thread on the CPU.
LEMMA RunningThread ==
  ASSUME QueueInv
  PROVE  /\ k.cur \in Threads /\ k.status[k.cur] = "TASK_RUNNING" /\ k.panic = FALSE
         /\ Idle \in Threads /\ Clients \subseteq Threads
         /\ \A t \in Clients : t \in Threads /\ t # Idle /\ t # NULL
BY ThreadsAssumption, NullAssumption
   DEF QueueInv, RunQueueOK, SchedulerState, OneRunning, Clients

\* The threads that have the lock are its holder.
LEMMA OneHasLock ==
  ASSUME QueueInv, NEW t \in HaveLock
  PROVE  HaveLock = {t} /\ q.lock.holder = t
BY RunningThread DEF QueueInv, LockOf, HaveLock

\* A step of one thread that neither wakes nor records a sleeper.
LEMMA SleepersSame ==
  ASSUME QueueInv, NEW t \in Threads,
         \A s \in Sides : q'[s] = q[s],
         t \in Clients => pc[t] # "woken" /\ pc'[t] # "woken",
         \A u \in Clients \ {t} :
           /\ pc'[u] = pc[u] /\ side'[u] = side[u]
           /\ k'.status[u] = "TASK_BLOCKED" <=> k.status[u] = "TASK_BLOCKED"
  PROVE  Sleepers'
<1>. SUFFICES ASSUME NEW s \in Sides
              PROVE  /\ q'[s] # Idle
                     /\ \A u \in Clients : q'[s] = u <=>
                          side'[u] = s /\ pc'[u] = "woken" /\ k'.status[u] = "TASK_BLOCKED"
  BY DEF Sleepers
<1>1. /\ q[s] # Idle
      /\ \A u \in Clients : q[s] = u <=>
           side[u] = s /\ pc[u] = "woken" /\ k.status[u] = "TASK_BLOCKED"
  BY DEF QueueInv, Sleepers
<1>. QED BY <1>1

\* The types after a step of client t.
LEMMA QueueTypes ==
  ASSUME QueueInv, NEW t \in Clients, NEW label \in QueueLabels,
         pc' = [pc EXCEPT ![t] = label], side' \in [Threads -> Sides],
         q' \in IoQueueState, RunQueueOK(k')
  PROVE  /\ QueueTypeOK' /\ Labelled'
         /\ pc'[t] = label /\ \A u \in Threads \ {t} : pc'[u] = pc[u]
<1>1. pc'[t] = label /\ \A u \in Threads \ {t} : pc'[u] = pc[u]
  BY RunningThread DEF QueueInv, QueueTypeOK
<1>2. QueueTypeOK'
  BY RunningThread DEF QueueInv, QueueTypeOK, RunQueueOK
<1>3. Labelled'
  BY <1>1, RunningThread DEF QueueInv, Labelled
<1>. QED BY <1>1, <1>2, <1>3

\* A new lock in the ring.
LEMMA RingLock ==
  ASSUME NEW x \in IoQueueState, NEW lk \in LockState, NEW y, y = [x EXCEPT !.lock = lk]
  PROVE  /\ y \in IoQueueState /\ y.lock = lk /\ \A s \in Sides : y[s] = x[s]
         /\ y.buf = x.buf /\ y.head = x.head /\ y.tail = x.tail
BY DEF IoQueueState, Sides

\* lock_acquire(&ioq->lock)
LEMMA AcquireQueue ==
  ASSUME QueueInv, NEW t \in Clients, Acquire(t)
  PROVE  QueueInv'
<1>1. /\ t \in Threads /\ t # Idle /\ k.cur = t /\ k.status[t] = "TASK_RUNNING"
      /\ pc[t] \in {"test", "lock"} /\ RunQueueOK(k) /\ q \in IoQueueState
      /\ LockOf(k, q.lock, HaveLock, WantLock) /\ side' = side
      /\ side \in [Threads -> Sides] /\ q.lock \in LockState
  BY RunningThread DEF Acquire, Running, QueueInv, QueueTypeOK, IoQueueState
<1>2. CASE q.lock.sema.value = 0
  <2>. DEFINE lk == [q.lock EXCEPT !.sema = DownWaiters(k, q.lock.sema)]
  <2>1. k' = DownBlock(k, q.lock.sema) /\ pc' = [pc EXCEPT ![t] = "lock"]
    BY <1>2 DEF Acquire, Goto
  <2>2. q' = [q EXCEPT !.lock = lk]
    BY <1>1, <1>2 DEF Acquire
  <2>3. /\ RunQueueOK(k') /\ k'.status[t] = "TASK_BLOCKED"
        /\ SameRunnable(k, k', Threads \ {Idle, t})
        /\ LockOf(k', lk, HaveLock, WantLock \cup {t})
    BY <1>1, <1>2, <2>1, LockOfWait
  <2>4. lk \in LockState
    BY <2>3 DEF LockOf
  <2>. HIDE DEF lk
  <2>5. q' \in IoQueueState /\ q'.lock = lk /\ \A s \in Sides : q'[s] = q[s]
    BY <1>1, <2>2, <2>4, RingLock
  <2>6. /\ QueueTypeOK' /\ Labelled'
        /\ pc'[t] = "lock" /\ \A u \in Threads \ {t} : pc'[u] = pc[u]
    BY <1>1, <2>1, <2>3, <2>5, QueueTypes DEF QueueLabels
  <2>7. HaveLock' = HaveLock /\ WantLock' = WantLock \cup {t}
    BY <1>1, <2>6, RunningThread DEF HaveLock, WantLock
  <2>8. OnCpu'
    BY <1>1, <2>6, RunningThread DEF OnCpu, QueueInv
  <2>9. \A u \in Clients \ {t} : k'.status[u] = "TASK_BLOCKED" <=> k.status[u] = "TASK_BLOCKED"
    BY <2>3, RunningThread DEF SameRunnable, Runnable
  <2>10. Sleepers'
    BY <1>1, <2>5, <2>6, <2>9, RunningThread, SleepersSame
  <2>. QED BY <2>3, <2>5, <2>6, <2>7, <2>8, <2>10 DEF QueueInv
<1>3. CASE q.lock.sema.value # 0
  <2>. DEFINE lk == [holder |-> t, repeat |-> 1, sema |-> DownTake(q.lock.sema)]
  <2>1. /\ k' = Assert(q.lock.repeat = 0, DownTaken(k, q.lock.sema))
        /\ pc' = [pc EXCEPT ![t] = "wait"] /\ q' = [q EXCEPT !.lock = lk]
    BY <1>3 DEF Acquire, Goto
  <2>11. /\ Assert(q.lock.repeat = 0, DownTaken(k, q.lock.sema)) = k
        /\ HaveLock = {} /\ LockOf(k, lk, {t}, WantLock \ {t})
    BY <1>1, <1>3, LockOfTake
  <2>3. lk \in LockState
    BY <2>11 DEF LockOf
  <2>. HIDE DEF lk
  <2>2. k' = k /\ HaveLock = {} /\ LockOf(k', lk, {t}, WantLock \ {t})
    BY <2>11, <2>1
  <2>4. q' \in IoQueueState /\ q'.lock = lk /\ \A s \in Sides : q'[s] = q[s]
    BY <1>1, <2>1, <2>3, RingLock
  <2>5. /\ QueueTypeOK' /\ Labelled'
        /\ pc'[t] = "wait" /\ \A u \in Threads \ {t} : pc'[u] = pc[u]
    BY <1>1, <2>1, <2>2, <2>4, QueueTypes DEF QueueLabels
  <2>6. HaveLock' = {t} /\ WantLock' = WantLock \ {t}
    BY <1>1, <2>2, <2>5, RunningThread DEF HaveLock, WantLock
  <2>7. OnCpu'
    BY <1>1, <2>2, <2>5, RunningThread DEF OnCpu, QueueInv
  <2>8. Sleepers'
    BY <1>1, <2>2, <2>4, <2>5, RunningThread, SleepersSame
  <2>. QED BY <1>1, <2>2, <2>4, <2>5, <2>6, <2>7, <2>8 DEF QueueInv
<1>. QED BY <1>2, <1>3

\* ioq_wait: nobody sleeps on the ring when the holder of its lock goes to sleep,
\* so the ASSERT of the function holds.
LEMMA WaitQueue ==
  ASSUME QueueInv, NEW t \in Clients, ioq_wait(t)
  PROVE  QueueInv' /\ q[side[t]] = NULL
<1>1. /\ t \in Threads /\ t # Idle /\ t # NULL /\ k.cur = t /\ k.status[t] = "TASK_RUNNING"
      /\ pc[t] = "wait" /\ RunQueueOK(k) /\ q \in IoQueueState
      /\ LockOf(k, q.lock, HaveLock, WantLock) /\ side' = side
      /\ side \in [Threads -> Sides] /\ side[t] \in Sides /\ t \in HaveLock
      /\ pc' = [pc EXCEPT ![t] = "woken"]
      /\ k' = thread_block(Assert(q[side[t]] = NULL, k), "TASK_BLOCKED")
      /\ q' = [q EXCEPT ![side[t]] = t]
  BY RunningThread DEF ioq_wait, Goto, Running, QueueInv, QueueTypeOK, HaveLock
<1>2. ASSUME NEW s \in Sides PROVE q[s] = NULL
  <2>1. q[s] \in Threads \cup {NULL} /\ q[s] # Idle
    BY <1>1 DEF IoQueueState, Sides, QueueInv, Sleepers
  <2>2. \A u \in Clients : q[s] # u
    <3>. SUFFICES ASSUME NEW u \in Clients, q[s] = u PROVE FALSE
      OBVIOUS
    <3>1. pc[u] = "woken"
      BY DEF QueueInv, Sleepers
    <3>2. u = t
      BY <1>1, <3>1, OneHasLock DEF HaveLock
    <3>. QED BY <1>1, <3>1, <3>2
  <2>. QED BY <2>1, <2>2 DEF Clients
<1>3. k' = thread_block(k, "TASK_BLOCKED")
  BY <1>1, <1>2 DEF Assert
<1>4. /\ RunQueueOK(k') /\ k'.status[t] = "TASK_BLOCKED"
      /\ SameRunnable(k, k', Threads \ {Idle, t})
  BY <1>1, <1>3, RunQueueCanSchedule, BlockOK DEF Blocked
<1>5. /\ q' \in IoQueueState /\ q'.lock = q.lock /\ q'[side[t]] = t
      /\ \A s \in Sides \ {side[t]} : q'[s] = q[s]
  <2>1. CASE side[t] = "consumer"
    BY <1>1, <2>1 DEF IoQueueState, Sides
  <2>2. CASE side[t] = "producer"
    BY <1>1, <2>2 DEF IoQueueState, Sides
  <2>. QED BY <1>1, <2>1, <2>2 DEF Sides
<1>6. /\ QueueTypeOK' /\ Labelled'
      /\ pc'[t] = "woken" /\ \A u \in Threads \ {t} : pc'[u] = pc[u]
  BY <1>1, <1>4, <1>5, QueueTypes DEF QueueLabels
<1>7. HaveLock' = HaveLock /\ WantLock' = WantLock
  BY <1>1, <1>6, RunningThread DEF HaveLock, WantLock
<1>8. \A u \in Clients \ {t} : k'.status[u] = "TASK_BLOCKED" <=> k.status[u] = "TASK_BLOCKED"
  BY <1>4, RunningThread DEF SameRunnable, Runnable
<1>9. WantLock \subseteq Clients \ {t}
  BY <1>1 DEF WantLock
<1>10. LockOf(k', q'.lock, HaveLock', WantLock')
  BY <1>1, <1>5, <1>7, <1>8, <1>9, LockOfSame
<1>11. OnCpu'
  BY <1>1, <1>6, RunningThread DEF OnCpu, QueueInv
<1>12. Sleepers'
  <2>. SUFFICES ASSUME NEW s \in Sides
                PROVE  /\ q'[s] # Idle
                       /\ \A u \in Clients : q'[s] = u <=>
                            side'[u] = s /\ pc'[u] = "woken" /\ k'.status[u] = "TASK_BLOCKED"
    BY DEF Sleepers
  <2>1. \A u \in Clients : pc'[u] = "woken" => u = t
    BY <1>1, <1>7, OneHasLock DEF HaveLock
  <2>2. CASE s = side[t]
    BY <1>1, <1>4, <1>5, <1>6, <2>1, <2>2
  <2>3. CASE s # side[t]
    <3>1. q'[s] = NULL /\ NULL # Idle
      BY <1>2, <1>5, <2>3, NullAssumption, ThreadsAssumption
    <3>. QED BY <1>1, <2>1, <2>3, <3>1, RunningThread
  <2>. QED BY <2>2, <2>3
<1>. QED BY <1>1, <1>2, <1>4, <1>6, <1>10, <1>11, <1>12 DEF QueueInv

\* lock_release(&ioq->lock)
LEMMA ReleaseQueue ==
  ASSUME QueueInv, NEW t \in Clients, Release(t)
  PROVE  QueueInv' /\ k'.cur = k.cur
<1>1. /\ t \in Threads /\ t # Idle /\ t # NULL /\ k.cur = t /\ k.status[t] = "TASK_RUNNING"
      /\ pc[t] = "woken" /\ RunQueueOK(k) /\ q \in IoQueueState
      /\ LockOf(k, q.lock, HaveLock, WantLock) /\ side' = side
      /\ side \in [Threads -> Sides] /\ t \in HaveLock
      /\ pc' = [pc EXCEPT ![t] = "test"]
  BY RunningThread DEF Release, Goto, Running, QueueInv, QueueTypeOK, HaveLock
<1>. DEFINE lk == [holder |-> NULL, repeat |-> 0, sema |-> Up(q.lock.sema)]
            m == UpWake(Assert(q.lock.holder = t /\ q.lock.repeat = 1, k), q.lock.sema)
<1>2. k' = m /\ q' = [q EXCEPT !.lock = lk]
  BY DEF Release
<1>3. RunQueueOK(m) /\ m.cur = k.cur /\ LockOf(m, lk, {}, WantLock)
  BY <1>1, LockOfRelease
<1>4. lk \in LockState
  BY <1>3 DEF LockOf
<1>. HIDE DEF lk, m
<1>5. q' \in IoQueueState /\ q'.lock = lk /\ \A s \in Sides : q'[s] = q[s]
  BY <1>1, <1>2, <1>4, RingLock
<1>6. /\ QueueTypeOK' /\ Labelled'
      /\ pc'[t] = "test" /\ \A u \in Threads \ {t} : pc'[u] = pc[u]
  BY <1>1, <1>2, <1>3, <1>5, QueueTypes DEF QueueLabels
<1>7. HaveLock' = {} /\ WantLock' = WantLock
  BY <1>1, <1>6, OneHasLock, RunningThread DEF HaveLock, WantLock
<1>8. OnCpu'
  BY <1>1, <1>2, <1>3, <1>6, RunningThread DEF OnCpu, QueueInv
<1>9. Sleepers'
  <2>. SUFFICES ASSUME NEW s \in Sides
                PROVE  /\ q'[s] # Idle
                       /\ \A u \in Clients : q'[s] = u <=>
                            side'[u] = s /\ pc'[u] = "woken" /\ k'.status[u] = "TASK_BLOCKED"
    BY DEF Sleepers
  <2>1. \A u \in Clients : pc'[u] # "woken"
    BY <1>7 DEF HaveLock
  <2>2. /\ q[s] # Idle
        /\ \A u \in Clients : q[s] = u => pc[u] = "woken" /\ k.status[u] = "TASK_BLOCKED"
    BY DEF QueueInv, Sleepers
  <2>3. \A u \in Clients : q[s] # u
    BY <1>1, <2>2, OneHasLock DEF HaveLock
  <2>. QED BY <1>5, <2>1, <2>2, <2>3
<1>. QED BY <1>2, <1>3, <1>5, <1>6, <1>7, <1>8, <1>9 DEF QueueInv

\* The rest of ioq_putchar and ioq_getchar, by the running thread or by an
\* interrupt handler: whoever sleeps on side s is woken.
LEMMA WakeQueue ==
  ASSUME QueueInv, NEW s \in Sides, WakeOther(s), q' \in IoQueueState, q'[s] = NULL,
         \A r \in Sides \ {s} : q'[r] = q[r], q'.lock = q.lock, side' = side,
         pc' \in [Threads -> QueueLabels \cup IdleLabels], pc'[Idle] \in IdleLabels,
         \A u \in Clients :
           \/ pc'[u] = pc[u]
           \/ u = k.cur /\ pc[u] \in {"user", "test"} /\ pc'[u] \in {"user", "test"}
  PROVE  QueueInv' /\ k'.cur = k.cur
<1>1. /\ RunQueueOK(k) /\ q \in IoQueueState /\ LockOf(k, q.lock, HaveLock, WantLock)
      /\ NULL # Idle /\ q[s] \in Threads \cup {NULL} /\ q[s] # Idle
  BY ThreadsAssumption, NullAssumption
     DEF QueueInv, QueueTypeOK, IoQueueState, Sides, Sleepers
<1>2. ASSUME NEW r \in Sides, NEW u \in Clients
      PROVE  q[r] = u <=> side[u] = r /\ pc[u] = "woken" /\ k.status[u] = "TASK_BLOCKED"
  BY DEF QueueInv, Sleepers
<1>3. /\ RunQueueOK(k') /\ k'.cur = k.cur
      /\ \A u \in Clients : k'.status[u] = IF u = q[s] THEN "TASK_READY" ELSE k.status[u]
  <2>1. CASE q[s] = NULL
    BY <1>1, <2>1, RunningThread DEF WakeOther
  <2>2. CASE q[s] # NULL
    <3>1. q[s] \in Clients /\ q[s] \in Threads
      BY <1>1, <2>2 DEF Clients
    <3>2. k.status[q[s]] \in Blocked /\ k.status[q[s]] # "TASK_RUNNING"
      BY <1>2, <3>1 DEF Blocked
    <3>3. k' = thread_unblock(k, q[s])
      BY <2>2 DEF WakeOther
    <3>4. /\ CanSchedule(k') /\ k'.cur = k.cur
          /\ \A u \in Threads : k'.status[u] = IF u = q[s] THEN "TASK_READY" ELSE k.status[u]
      BY <1>1, <3>1, <3>2, <3>3, UnblockOK, RunQueueCanSchedule
    <3>5. RunQueueOK(k')
      BY <1>1, <3>1, <3>2, <3>4 DEF CanSchedule, RunQueueOK, OneRunning
    <3>. QED BY <3>4, <3>5, RunningThread
  <2>. QED BY <2>1, <2>2
<1>4. QueueTypeOK' /\ Labelled'
  BY <1>3, RunningThread DEF QueueInv, QueueTypeOK, RunQueueOK, Labelled, QueueLabels
<1>5. HaveLock' = HaveLock /\ WantLock' = WantLock
  BY DEF HaveLock, WantLock
<1>6. LockOf(k', q'.lock, HaveLock', WantLock')
  <2>1. \A u \in WantLock : k'.status[u] = "TASK_BLOCKED" <=> k.status[u] = "TASK_BLOCKED"
    BY <1>2, <1>3 DEF WantLock
  <2>. QED BY <1>1, <1>5, <2>1, LockOfSame
<1>7. OnCpu'
  BY <1>3 DEF OnCpu, QueueInv
<1>8. Sleepers'
  <2>. SUFFICES ASSUME NEW r \in Sides
                PROVE  /\ q'[r] # Idle
                       /\ \A u \in Clients : q'[r] = u <=>
                            side'[u] = r /\ pc'[u] = "woken" /\ k'.status[u] = "TASK_BLOCKED"
    BY DEF Sleepers
  <2>1. q[r] # Idle
    BY DEF QueueInv, Sleepers
  <2>2. \A u \in Clients : pc'[u] = "woken" <=> pc[u] = "woken"
    OBVIOUS
  <2>3. CASE r = s
    BY <1>1, <1>2, <1>3, <2>2, <2>3, RunningThread
  <2>4. CASE r # s
    <3>1. \A u \in Clients : q[s] = u => side[u] = s
      BY <1>2
    <3>. QED BY <1>2, <1>3, <2>1, <2>2, <2>4, <3>1
  <2>. QED BY <2>3, <2>4
<1>. QED BY <1>3, <1>4, <1>6, <1>7, <1>8 DEF QueueInv

\* A call of read or write begins, and may find nothing to do.
LEMMA BeginQueue ==
  ASSUME QueueInv, NEW t \in Clients, Running(t, "user"), k' = k, q' = q,
         NEW s \in Sides, side' = [side EXCEPT ![t] = s],
         NEW label \in {"user", "test"}, pc' = [pc EXCEPT ![t] = label]
  PROVE  QueueInv'
<1>1. /\ k.cur = t /\ pc[t] = "user" /\ q \in IoQueueState /\ RunQueueOK(k)
      /\ LockOf(k, q.lock, HaveLock, WantLock) /\ side' \in [Threads -> Sides]
      /\ \A u \in Clients \ {t} : side'[u] = side[u]
  BY RunningThread DEF Running, QueueInv, QueueTypeOK
<1>2. /\ QueueTypeOK' /\ Labelled'
      /\ pc'[t] = label /\ \A u \in Threads \ {t} : pc'[u] = pc[u]
  BY <1>1, QueueTypes DEF QueueLabels
<1>3. HaveLock' = HaveLock /\ WantLock' = WantLock
  BY <1>1, <1>2, RunningThread DEF HaveLock, WantLock
<1>4. OnCpu'
  BY <1>1, <1>2, RunningThread DEF OnCpu, QueueInv
<1>5. Sleepers'
  BY <1>1, <1>2, RunningThread, SleepersSame
<1>. QED BY <1>1, <1>2, <1>3, <1>4, <1>5 DEF QueueInv

\* The idle thread and the clock interrupt: the ring is not touched and nobody
\* is between a test and a sleep.
LEMMA SwitchQueue ==
  ASSUME QueueInv, RunQueueOK(k'), SameRunnable(k, k', Clients), q' = q, side' = side,
         pc' \in [Threads -> QueueLabels \cup IdleLabels], pc'[Idle] \in IdleLabels,
         \A u \in Clients : pc'[u] = pc[u] /\ pc[u] \notin {"test", "wait"}
  PROVE  QueueInv'
<1>1. QueueTypeOK' /\ Labelled' /\ OnCpu'
  BY DEF QueueInv, QueueTypeOK, RunQueueOK, Labelled, OnCpu
<1>2. HaveLock' = HaveLock /\ WantLock' = WantLock /\ WantLock \subseteq Clients
  BY DEF HaveLock, WantLock
<1>3. \A u \in Clients : k'.status[u] = "TASK_BLOCKED" <=> k.status[u] = "TASK_BLOCKED"
  BY DEF SameRunnable, Runnable
<1>4. LockOf(k', q'.lock, HaveLock', WantLock')
  BY <1>2, <1>3, LockOfSame DEF QueueInv
<1>5. Sleepers'
  BY <1>3 DEF QueueInv, Sleepers
<1>. QED BY <1>1, <1>4, <1>5 DEF QueueInv

\* The idle thread.
LEMMA IdleQueue ==
  ASSUME QueueInv, IdleBlock \/ IdleHalt, q' = q, side' = side
  PROVE  QueueInv' /\ \A u \in Clients : pc'[u] = pc[u] /\ pc[u] \notin {"test", "wait"}
<1>1. k.cur = Idle /\ RunQueueOK(k)
  BY DEF IdleBlock, IdleHalt, Running, QueueInv
<1>2. RunQueueOK(k') /\ SameRunnable(k, k', Clients)
  <2>1. CASE IdleBlock
    BY <1>1, <2>1, BlockOK DEF IdleBlock, Blocked, Clients
  <2>2. CASE IdleHalt
    BY <1>1, <2>2 DEF IdleHalt, SameRunnable
  <2>. QED BY <2>1, <2>2
<1>3. /\ pc' \in [Threads -> QueueLabels \cup IdleLabels]
      /\ pc'[Idle] \in IdleLabels /\ \A u \in Clients : pc'[u] = pc[u]
  BY RunningThread DEF IdleBlock, IdleHalt, Goto, QueueInv, QueueTypeOK, IdleLabels
<1>4. \A u \in Clients : pc[u] \notin {"test", "wait"}
  BY <1>1, RunningThread DEF QueueInv, OnCpu
<1>. QED BY <1>2, <1>3, <1>4, SwitchQueue

\* Where an interrupt finds the threads, and leaves them.
LEMMA InterruptPcs ==
  ASSUME QueueInv, pc[k.cur] \in {"user"} \cup IdleLabels, EndHalt
  PROVE  /\ pc' \in [Threads -> QueueLabels \cup IdleLabels] /\ pc'[Idle] \in IdleLabels
         /\ \A u \in Clients : pc'[u] = pc[u] /\ pc[u] \notin {"test", "wait"}
<1>1. /\ pc' \in [Threads -> QueueLabels \cup IdleLabels]
      /\ pc'[Idle] \in IdleLabels
  BY RunningThread DEF EndHalt, QueueInv, QueueTypeOK, IdleLabels, Labelled
<1>2. \A u \in Clients : pc'[u] = pc[u]
  BY RunningThread DEF EndHalt, QueueInv, QueueTypeOK, Labelled, QueueLabels
<1>3. \A u \in Clients : pc[u] \notin {"test", "wait"}
  BY RunningThread DEF QueueInv, OnCpu, IdleLabels
<1>. QED BY <1>1, <1>2, <1>3

\* The clock interrupt.
LEMMA TimerQueue ==
  ASSUME QueueInv, ClockInterrupt(pc[k.cur] \in {"user"} \cup IdleLabels), q' = q, side' = side
  PROVE  QueueInv' /\ \A u \in Clients : pc'[u] = pc[u] /\ pc[u] \notin {"test", "wait"}
<1>1. RunQueueOK(k') /\ SameRunnable(k, k', Clients)
  BY TimerOK DEF QueueInv, ClockInterrupt, Clients
<1>2. pc[k.cur] \in {"user"} \cup IdleLabels /\ EndHalt
  BY DEF ClockInterrupt
<1>. QED BY <1>1, <1>2, InterruptPcs, SwitchQueue

\* The state after ioqueue_init.
LEMMA InitQueue ==
  ASSUME InitScheduler, q = ioqueue_init, side = [t \in Threads |-> "consumer"],
         pc = [t \in Threads |-> IF t = Idle THEN "block" ELSE "user"]
  PROVE  QueueInv
<1>. USE ThreadsAssumption, NullAssumption, BootAssumption
<1>1. /\ Head(BootOrder) \in Threads /\ Tail(BootOrder) \in Seq(Threads)
      /\ Range(Tail(BootOrder)) = Range(BootOrder) \ {Head(BootOrder)}
      /\ Head(BootOrder) \in Range(BootOrder)
      /\ NoDuplicates(Tail(BootOrder))
  BY PopFacts
<1>2. /\ k.cur = Head(BootOrder) /\ k.ready = Tail(BootOrder) /\ k.panic = FALSE
      /\ \A t \in Threads : k.status[t] = IF t = Head(BootOrder) THEN "TASK_RUNNING"
                                          ELSE IF t \in Range(BootOrder) THEN "TASK_READY"
                                          ELSE "NONE"
  BY <1>1 DEF InitScheduler
<1>3. k \in SchedulerState
  BY <1>1 DEF InitScheduler, SchedulerState, Status
<1>4. RunQueueOK(k)
  BY <1>1, <1>2, <1>3 DEF RunQueueOK, ReadyListIsReady, OneRunning, IdleCanRun
<1>5. /\ q.lock = lock_init /\ q.consumer = NULL /\ q.producer = NULL
      /\ q.buf = [i \in Positions |-> NULL] /\ q.head = 0 /\ q.tail = 0
  BY DEF ioqueue_init
<1>6. /\ lock_init \in LockState /\ lock_init.holder = NULL /\ lock_init.repeat = 0
      /\ lock_init.sema.value = 1 /\ lock_init.sema.waiters = << >>
  BY DEF lock_init, sema_init, LockState, SemaphoreState
<1>7. q \in IoQueueState
  BY <1>6, bufsizeAssumption DEF ioqueue_init, IoQueueState, Positions
<1>8. QueueTypeOK /\ Labelled /\ OnCpu
  BY <1>3, <1>7 DEF QueueTypeOK, QueueLabels, IdleLabels, Sides, Labelled, OnCpu, Clients
<1>9. HaveLock = {} /\ WantLock = {}
  BY DEF HaveLock, WantLock, Clients
<1>10. LockOf(k, q.lock, HaveLock, WantLock)
  <2>1. NoDuplicates(<< >>) /\ Range(<< >>) = {}
    BY DEF NoDuplicates, Range
  <2>. QED BY <1>5, <1>6, <1>9, <2>1 DEF LockOf
<1>11. Sleepers
  BY <1>5 DEF Sleepers, Sides, Clients
<1>. QED BY <1>4, <1>8, <1>10, <1>11 DEF QueueInv

\* What the invariant says of a sleeper and of the ASSERTs.
LEMMA QueueSleepers == QueueInv => SleeperHoldsLock
<1>. SUFFICES ASSUME QueueInv PROVE SleeperHoldsLock
  OBVIOUS
<1>1. ASSUME NEW s \in Sides, q[s] # NULL
      PROVE  /\ q.lock.holder = q[s] /\ side[q[s]] = s
             /\ pc[q[s]] = "woken" /\ k.status[q[s]] = "TASK_BLOCKED"
  <2>1. q[s] \in Clients
    BY <1>1 DEF QueueInv, QueueTypeOK, IoQueueState, Sides, Sleepers, Clients
  <2>2. side[q[s]] = s /\ pc[q[s]] = "woken" /\ k.status[q[s]] = "TASK_BLOCKED"
    BY <2>1 DEF QueueInv, Sleepers
  <2>3. q[s] \in HaveLock
    BY <2>1, <2>2 DEF HaveLock
  <2>. QED BY <2>2, <2>3, OneHasLock
<1>2. ASSUME q.lock.sema.value = 0
      PROVE  q.lock.holder # NULL /\ pc[q.lock.holder] \in {"wait", "woken"}
  <2>1. q.lock.holder # NULL /\ q.lock.holder \in Threads
    BY <1>2 DEF QueueInv, LockOf, LockState
  <2>2. q.lock.holder \in HaveLock
    BY <2>1 DEF QueueInv, LockOf
  <2>. QED BY <2>1, <2>2 DEF HaveLock
<1>. QED BY <1>1, <1>2, RunningThread DEF SleeperHoldsLock

-----------------------------------------------------------------------------
\* The bytes.

\* The ring of the struct is the ring of the lemmas on rings.
LEMMA RingOf ==
  ASSUME NEW x \in IoQueueState
  PROVE  /\ bufsize \in Nat \ {0, 1}
         /\ x.buf \in [0 .. bufsize - 1 -> Bytes \cup {NULL}]
         /\ x.head \in 0 .. bufsize - 1 /\ x.tail \in 0 .. bufsize - 1
         /\ ioq_length(x) = RingLen(bufsize, x.head, x.tail)
         /\ ioq_length(x) \in 0 .. bufsize - 1
         /\ ioq_empty(x) <=> ioq_length(x) = 0
         /\ ioq_full(x) <=> ioq_length(x) = bufsize - 1
<1>1. /\ bufsize \in Nat \ {0, 1}
      /\ x.buf \in [0 .. bufsize - 1 -> Bytes \cup {NULL}]
      /\ x.head \in 0 .. bufsize - 1 /\ x.tail \in 0 .. bufsize - 1
  BY bufsizeAssumption DEF IoQueueState, Positions
<1>2. ioq_length(x) = RingLen(bufsize, x.head, x.tail) /\ ioq_length(x) \in 0 .. bufsize - 1
  BY <1>1 DEF ioq_length, RingLen
<1>3. ioq_empty(x) <=> ioq_length(x) = 0
  BY <1>1 DEF ioq_empty, ioq_length
<1>4. next_pos(x.head) = IF x.head = bufsize - 1 THEN 0 ELSE x.head + 1
  BY <1>1, RingNext DEF next_pos
<1>5. ioq_full(x) <=> ioq_length(x) = bufsize - 1
  BY <1>1, <1>4 DEF ioq_full, ioq_length
<1>. QED BY <1>1, <1>2, <1>3, <1>5

\* ioq_putchar with room in the buffer.
LEMMA PutBytes ==
  ASSUME q \in IoQueueState, NEW c \in Bytes, ~ioq_full(q), PutByte(c)
  PROVE  /\ F!Put(c) /\ ioq_length(q)' = ioq_length(q) + 1
         /\ q' \in IoQueueState /\ q'.lock = q.lock
         /\ q'["consumer"] = NULL /\ q'["producer"] = q["producer"]
<1>1. /\ bufsize \in Nat \ {0, 1} /\ c \in Bytes \cup {NULL}
      /\ q.buf \in [0 .. bufsize - 1 -> Bytes \cup {NULL}]
      /\ q.head \in 0 .. bufsize - 1 /\ q.tail \in 0 .. bufsize - 1
      /\ (q.head + 1) % bufsize # q.tail
      /\ (q.head + 1) % bufsize \in 0 .. bufsize - 1
  BY RingOf, RingNext DEF ioq_full, next_pos
<1>. DEFINE b == [q.buf EXCEPT ![q.head] = c]
            h == (q.head + 1) % bufsize
<1>2. b \in [0 .. bufsize - 1 -> Bytes \cup {NULL}] /\ h \in 0 .. bufsize - 1
  BY <1>1
<1>3. q' = [q EXCEPT !.buf = b, !.head = h, !.consumer = NULL]
  BY DEF PutByte, next_pos, IoQueueState
<1>4. /\ RingLen(bufsize, h, q.tail) = RingLen(bufsize, q.head, q.tail) + 1
      /\ RingLen(bufsize, q.head, q.tail) < bufsize - 1
      /\ Len(Ring(bufsize, q.buf, q.head, q.tail)) = RingLen(bufsize, q.head, q.tail)
      /\ Ring(bufsize, b, h, q.tail) = Append(Ring(bufsize, q.buf, q.head, q.tail), c)
  <2>1. PutInRing(bufsize, q.buf, q.head, q.tail, c)
    BY <1>1, RingPut, Zenon
  <2>. QED BY <2>1 DEF PutInRing
<1>. HIDE DEF b, h
<1>5. /\ q' \in IoQueueState /\ q'.lock = q.lock
      /\ q'["consumer"] = NULL /\ q'["producer"] = q["producer"]
      /\ q'.buf = b /\ q'.head = h /\ q'.tail = q.tail
  BY <1>2, <1>3 DEF IoQueueState, Positions
<1>6. Contents = Ring(bufsize, q.buf, q.head, q.tail)
  BY DEF Contents, Ring, RingLen, ioq_length
<1>7. Contents' = Ring(bufsize, b, h, q.tail)
  BY <1>5 DEF Contents, Ring, RingLen, ioq_length
<1>8. F!Put(c)
  BY <1>4, <1>6, <1>7 DEF F!Put
<1>9. ioq_length(q)' = ioq_length(q) + 1
  BY <1>4, <1>5 DEF ioq_length, RingLen
<1>. QED BY <1>5, <1>8, <1>9

\* ioq_getchar with something in the buffer.
LEMMA GetBytes ==
  ASSUME q \in IoQueueState, ~ioq_empty(q), GetByte
  PROVE  /\ F!Get /\ ioq_length(q)' = ioq_length(q) - 1
         /\ q' \in IoQueueState /\ q'.lock = q.lock
         /\ q'["producer"] = NULL /\ q'["consumer"] = q["consumer"]
<1>1. /\ bufsize \in Nat \ {0, 1}
      /\ q.buf \in [0 .. bufsize - 1 -> Bytes \cup {NULL}]
      /\ q.head \in 0 .. bufsize - 1 /\ q.tail \in 0 .. bufsize - 1
      /\ q.head # q.tail
      /\ (q.tail + 1) % bufsize \in 0 .. bufsize - 1
  BY RingOf, RingNext DEF ioq_empty
<1>. DEFINE u == (q.tail + 1) % bufsize
<1>2. u \in 0 .. bufsize - 1
  BY <1>1
<1>3. q' = [q EXCEPT !.tail = u, !.producer = NULL]
  BY DEF GetByte, next_pos, IoQueueState
<1>4. /\ RingLen(bufsize, q.head, u) = RingLen(bufsize, q.head, q.tail) - 1
      /\ Ring(bufsize, q.buf, q.head, q.tail) # << >>
      /\ Ring(bufsize, q.buf, q.head, u) = Tail(Ring(bufsize, q.buf, q.head, q.tail))
  BY <1>1, RingGet
<1>. HIDE DEF u
<1>5. /\ q' \in IoQueueState /\ q'.lock = q.lock
      /\ q'["producer"] = NULL /\ q'["consumer"] = q["consumer"]
      /\ q'.buf = q.buf /\ q'.head = q.head /\ q'.tail = u
  BY <1>2, <1>3 DEF IoQueueState, Positions
<1>6. Contents = Ring(bufsize, q.buf, q.head, q.tail)
  BY DEF Contents, Ring, RingLen, ioq_length
<1>7. Contents' = Ring(bufsize, q.buf, q.head, u)
  BY <1>5 DEF Contents, Ring, RingLen, ioq_length
<1>8. F!Get
  BY <1>4, <1>6, <1>7 DEF F!Get
<1>9. ioq_length(q)' = ioq_length(q) - 1
  BY <1>4, <1>5 DEF ioq_length, RingLen
<1>. QED BY <1>5, <1>8, <1>9

\* Waiting leaves the bytes alone.
LEMMA WaitBytes ==
  ASSUME q \in IoQueueState, side \in [Threads -> Sides], NEW t \in Threads, Wait(t)
  PROVE  Contents' = Contents /\ ioq_length(q)' = ioq_length(q)
<1>1. q'.buf = q.buf /\ q'.head = q.head /\ q'.tail = q.tail
  <2>1. CASE Acquire(t)
    BY <2>1 DEF Acquire, IoQueueState
  <2>2. CASE ioq_wait(t)
    BY <2>2 DEF ioq_wait, IoQueueState, Sides
  <2>3. CASE Release(t)
    BY <2>3 DEF Release, IoQueueState
  <2>. QED BY <2>1, <2>2, <2>3 DEF Wait
<1>. QED BY <1>1 DEF Contents, ioq_length

\* The empty ring.
LEMMA InitBytes ==
  ASSUME q = ioqueue_init
  PROVE  F!Init
<1>1. ioq_length(q) = 0
  BY DEF ioqueue_init, ioq_length
<1>. QED BY <1>1 DEF F!Init, Contents

-----------------------------------------------------------------------------
(***************************************************************************)
(* The pipe: sleepers never overwrite each other, readers never sleep,     *)
(* writers only with their last byte, and the bytes come out as they went  *)
(* in.                                                                     *)
(***************************************************************************)

\* What the sizes that pipe_read and pipe_write compute amount to: a reader
\* has as many bytes to take as there are, a writer one more to bring than
\* there is room for.
Enough(t) ==
  left[t] <= IF side[t] = "consumer" THEN ioq_length(q) ELSE bufsize - ioq_length(q)

\* The inductive invariant.
PipeInv ==
  /\ QueueInv
  /\ BlocksOnLastByte
  /\ \A t \in Clients : pc[t] = "test" => Enough(t)

-----------------------------------------------------------------------------

\* The queue is empty and nobody is in it.
LEMMA InitPipe == QueueInit => PipeInv
<1>. SUFFICES ASSUME QueueInit PROVE PipeInv
  OBVIOUS
<1>1. QueueInv
  BY InitQueue DEF QueueInit
<1>2. \A t \in Clients : t \in Threads /\ pc[t] = "user" /\ left[t] = 0
  BY DEF QueueInit, Clients
<1>3. BlocksOnLastByte
  BY <1>1, <1>2 DEF QueueInit, BlocksOnLastByte, PipeTypeOK, Blocks, QueueInv
<1>. QED BY <1>1, <1>2, <1>3 DEF PipeInv

\* Only the thread on the CPU has tested the ring and not yet used it, so that
\* what it found cannot be stale.
LEMMA OneTests ==
  ASSUME PipeInv, NEW t \in Clients, k.cur = t
  PROVE  \A u \in Clients \ {t} : pc[u] # "test"
BY DEF PipeInv, QueueInv, OnCpu

\* A step of client t that may change left[t], pc[t] and side[t] only.
LEMMA ClientPipe ==
  ASSUME PipeInv, QueueInv', NEW t \in Clients, k.cur = t,
         NEW label \in QueueLabels, pc' = [pc EXCEPT ![t] = label],
         NEW n \in Nat, left' = [left EXCEPT ![t] = n],
         \A u \in Clients \ {t} : side'[u] = side[u],
         label = "user" <=> n = 0,
         label \in {"lock", "wait", "woken"} => side'[t] = "producer" /\ n = 1,
         label = "test" =>
           n <= IF side'[t] = "consumer" THEN ioq_length(q)' ELSE bufsize - ioq_length(q)'
  PROVE  PipeInv'
<1>1. /\ t \in Threads /\ QueueTypeOK' /\ pc \in [Threads -> QueueLabels \cup IdleLabels]
      /\ left \in [Threads -> Nat] /\ Clients \subseteq Threads
  BY RunningThread DEF PipeInv, QueueInv, BlocksOnLastByte, PipeTypeOK, QueueTypeOK
<1>2. /\ pc'[t] = label /\ left'[t] = n /\ left' \in [Threads -> Nat]
      /\ \A u \in Clients \ {t} : pc'[u] = pc[u] /\ left'[u] = left[u]
  BY <1>1
<1>3. PipeTypeOK'
  BY <1>1, <1>2 DEF PipeInv, BlocksOnLastByte, PipeTypeOK
<1>4. \A u \in Clients : Blocks(u)' => side'[u] = "producer" /\ left'[u] = 1
  BY <1>2 DEF PipeInv, BlocksOnLastByte, Blocks
<1>5. \A u \in Clients : pc'[u] = "test" => Enough(u)'
  BY <1>2, OneTests DEF Enough
<1>. QED BY <1>3, <1>4, <1>5 DEF PipeInv, BlocksOnLastByte

\* pipe_read and pipe_write compute how much they will transfer.
LEMMA BeginPipe ==
  ASSUME PipeInv, NEW t \in Clients, NEW count \in 1 .. MaxCount,
         pipe_read(t, count) \/ pipe_write(t, count)
  PROVE  PipeInv'
<1>1. /\ ioq_length(q) \in 0 .. bufsize - 1 /\ bufsize \in Nat /\ count \in Nat \ {0}
      /\ side \in [Threads -> Sides] /\ t \in Threads
  <2>1. q \in IoQueueState /\ side \in [Threads -> Sides] /\ t \in Threads
    BY RunningThread DEF PipeInv, QueueInv, QueueTypeOK
  <2>2. count \in Nat \ {0}
    BY CountAssumption
  <2>. QED BY <2>1, <2>2, RingOf
<1>2. ASSUME NEW s \in Sides, NEW n \in Nat, Begin(t, s, n),
             n <= IF s = "consumer" THEN ioq_length(q) ELSE bufsize - ioq_length(q)
      PROVE  PipeInv'
  <2>. DEFINE label == IF n = 0 THEN "user" ELSE "test"
  <2>1. /\ Running(t, "user") /\ k' = k /\ q' = q /\ k.cur = t
        /\ side' = [side EXCEPT ![t] = s] /\ left' = [left EXCEPT ![t] = n]
        /\ pc' = [pc EXCEPT ![t] = label] /\ label \in {"user", "test"}
    BY <1>2 DEF Begin, Goto, Running
  <2>2. side'[t] = s /\ \A u \in Clients \ {t} : side'[u] = side[u]
    BY <1>1, <2>1 DEF Clients
  <2>3. ioq_length(q)' = ioq_length(q)
    BY <2>1 DEF ioq_length
  <2>4. (label = "user" <=> n = 0) /\ label \in QueueLabels
    BY DEF QueueLabels
  <2>. HIDE DEF label
  <2>5. QueueInv'
    BY <2>1, BeginQueue DEF PipeInv
  <2>. QED BY <1>2, <2>1, <2>2, <2>3, <2>4, <2>5, ClientPipe
<1>3. CASE pipe_read(t, count)
  <2>. DEFINE n == Smaller(ioq_length(q), count)
  <2>1. n \in Nat /\ n <= ioq_length(q) /\ Begin(t, "consumer", n) /\ "consumer" \in Sides
    BY <1>1, <1>3 DEF Smaller, pipe_read, Sides
  <2>. HIDE DEF n
  <2>. QED BY <1>2, <2>1
<1>4. CASE pipe_write(t, count)
  <2>. DEFINE n == Smaller(bufsize - ioq_length(q), count)
  <2>1. /\ n \in Nat /\ n <= bufsize - ioq_length(q)
        /\ Begin(t, "producer", n) /\ "producer" \in Sides
    BY <1>1, <1>4 DEF Smaller, pipe_write, Sides
  <2>. HIDE DEF n
  <2>. QED BY <1>2, <2>1
<1>. QED BY <1>3, <1>4

\* What QueueInv says apart from the lock stays true while nothing changes.
LEMMA SameQueue ==
  ASSUME QueueInv, k' = k, pc' = pc, q' = q, side' = side
  PROVE  QueueTypeOK' /\ RunQueueOK(k') /\ Labelled' /\ OnCpu' /\ Sleepers'
<1>1. QueueTypeOK' /\ RunQueueOK(k')
  BY DEF QueueInv, QueueTypeOK
<1>2. Labelled'
  BY DEF QueueInv, Labelled
<1>3. OnCpu'
  BY DEF QueueInv, OnCpu
<1>4. Sleepers'
  BY DEF QueueInv, Sleepers
<1>. QED BY <1>1, <1>2, <1>3, <1>4

\* A byte is read or written.
LEMMA TransferPipe ==
  ASSUME PipeInv, NEW t \in Clients, ReadByte(t) \/ \E c \in Bytes : WriteByte(t, c)
  PROVE  PipeInv' /\ F!Next
<1>. DEFINE label == IF left[t] = 1 THEN "user" ELSE "test"
            n == left[t] - 1
<1>1. /\ k.cur = t /\ pc[t] = "test" /\ side' = side /\ ~MustWait(t) /\ t \in Threads /\ t # Idle
      /\ left' = [left EXCEPT ![t] = n] /\ pc' = [pc EXCEPT ![t] = label]
      /\ left[t] \in Nat \ {0} /\ side[t] \in Sides /\ q \in IoQueueState /\ Enough(t)
      /\ pc \in [Threads -> QueueLabels \cup IdleLabels] /\ QueueInv
  BY RunningThread
     DEF ReadByte, WriteByte, Ready, Running, Transferred, Goto, PipeInv, BlocksOnLastByte, PipeTypeOK,
         QueueTypeOK
<1>2. label \in {"user", "test"} /\ label \in QueueLabels /\ (label = "user" <=> n = 0) /\ n \in Nat
  BY <1>1 DEF QueueLabels
<1>3. ioq_length(q) \in 0 .. bufsize - 1 /\ bufsize \in Nat
  BY <1>1, RingOf
<1>4. /\ pc' \in [Threads -> QueueLabels \cup IdleLabels] /\ pc'[Idle] \in IdleLabels
      /\ \A u \in Clients :
           \/ pc'[u] = pc[u]
           \/ u = k.cur /\ pc[u] \in {"user", "test"} /\ pc'[u] \in {"user", "test"}
  <2>. HIDE DEF label
  <2>. QED BY <1>1, <1>2, RunningThread DEF QueueInv, Labelled
<1>5. CASE ReadByte(t)
  <2>1. ~ioq_empty(q) /\ side[t] = "consumer" /\ GetByte /\ WakeOther("producer")
    BY <1>1, <1>5 DEF ReadByte, Ready, MustWait, GetByte
  <2>2. /\ F!Get /\ ioq_length(q)' = ioq_length(q) - 1
        /\ q' \in IoQueueState /\ q'.lock = q.lock
        /\ q'["producer"] = NULL /\ q'["consumer"] = q["consumer"]
    BY <1>1, <2>1, GetBytes
  <2>3. QueueInv'
    BY <1>1, <1>4, <2>1, <2>2, WakeQueue DEF Sides
  <2>4. n <= ioq_length(q)'
    <3>. DEFINE x == ioq_length(q)
                y == ioq_length(q)'
    <3>1. left[t] <= x
      BY <1>1, <2>1 DEF Enough
    <3>2. x \in Int /\ y = x - 1 /\ bufsize \in Nat /\ left[t] \in Nat
      BY <1>1, <1>3, <2>2
    <3>. HIDE DEF x, y
    <3>3. n <= y
      BY <3>1, <3>2
    <3>. QED BY <3>3 DEF y
  <2>. HIDE DEF n, label
  <2>5. PipeInv'
    BY <1>1, <1>2, <2>1, <2>3, <2>4, ClientPipe
  <2>. QED BY <2>2, <2>5 DEF F!Next
<1>6. ASSUME NEW c \in Bytes, WriteByte(t, c)
      PROVE  PipeInv' /\ F!Next
  <2>1. ~ioq_full(q) /\ side[t] = "producer" /\ PutByte(c) /\ WakeOther("consumer")
    BY <1>1, <1>6 DEF WriteByte, Ready, MustWait, PutByte
  <2>2. /\ F!Put(c) /\ ioq_length(q)' = ioq_length(q) + 1
        /\ q' \in IoQueueState /\ q'.lock = q.lock
        /\ q'["consumer"] = NULL /\ q'["producer"] = q["producer"]
    BY <1>1, <2>1, PutBytes
  <2>3. QueueInv'
    BY <1>1, <1>4, <2>1, <2>2, WakeQueue DEF Sides
  <2>4. n <= bufsize - ioq_length(q)'
    <3>. DEFINE x == ioq_length(q)
                y == ioq_length(q)'
    <3>1. left[t] <= bufsize - x
      BY <1>1, <2>1 DEF Enough
    <3>2. x \in Int /\ y = x + 1 /\ bufsize \in Nat /\ left[t] \in Nat
      BY <1>1, <1>3, <2>2
    <3>. HIDE DEF x, y
    <3>3. n <= bufsize - y
      BY <3>1, <3>2
    <3>. QED BY <3>3 DEF y
  <2>. HIDE DEF n, label
  <2>5. PipeInv'
    BY <1>1, <1>2, <2>1, <2>3, <2>4, ClientPipe
  <2>. QED BY <2>2, <2>5 DEF F!Next
<1>. QED BY <1>5, <1>6

\* A thread waits: the ring is then full and the thread has one byte left, and
\* when it has slept there is room for that byte.
LEMMA WaitPipe ==
  ASSUME PipeInv, NEW t \in Clients, Wait(t), left' = left
  PROVE  PipeInv' /\ Contents' = Contents
<1>1. /\ t \in Threads /\ q \in IoQueueState /\ side \in [Threads -> Sides] /\ QueueInv
      /\ left \in [Threads -> Nat] /\ left[t] \in Nat /\ side[t] \in Sides
  BY RunningThread DEF PipeInv, QueueInv, QueueTypeOK, BlocksOnLastByte, PipeTypeOK
<1>2. Contents' = Contents /\ ioq_length(q)' = ioq_length(q)
  BY <1>1, WaitBytes
<1>3. ioq_length(q) \in 0 .. bufsize - 1 /\ bufsize \in Nat
  BY <1>1, RingOf
<1>4. QueueInv'
  BY <1>1, AcquireQueue, WaitQueue, ReleaseQueue DEF Wait
<1>5. k.cur = t /\ side' = side /\ pc[t] \in {"test", "lock", "wait", "woken"}
  BY DEF Wait, Acquire, ioq_wait, Release, Running
<1>6. side[t] = "producer" /\ left[t] = 1
  <2>1. CASE pc[t] = "test"
    <3>1. MustWait(t)
      BY <2>1 DEF Wait, Acquire, ioq_wait, Release, Running
    <3>2. Enough(t) /\ left[t] # 0
      BY <2>1 DEF PipeInv, BlocksOnLastByte, PipeTypeOK
    <3>3. CASE side[t] = "consumer"
      BY <1>1, <1>3, <3>1, <3>2, <3>3, RingOf DEF MustWait, Enough
    <3>4. CASE side[t] = "producer"
      BY <1>1, <1>3, <3>1, <3>2, <3>4, RingOf DEF MustWait, Enough
    <3>. QED BY <1>1, <3>3, <3>4 DEF Sides
  <2>2. CASE pc[t] # "test"
    BY <1>5, <2>2 DEF PipeInv, BlocksOnLastByte, Blocks
  <2>. QED BY <2>1, <2>2
<1>7. PICK label \in {"test", "lock", "wait", "woken"} : pc' = [pc EXCEPT ![t] = label]
  BY DEF Wait, Acquire, ioq_wait, Release, Goto
<1>8. /\ left' = [left EXCEPT ![t] = 1] /\ label \in QueueLabels /\ label # "user"
      /\ side'[t] = "producer" /\ 1 <= bufsize - ioq_length(q)'
  BY <1>1, <1>2, <1>3, <1>5, <1>6 DEF QueueLabels
<1>9. /\ label = "user" <=> 1 = 0
      /\ label \in {"lock", "wait", "woken"} => side'[t] = "producer" /\ 1 = 1
      /\ label = "test" =>
           1 <= IF side'[t] = "consumer" THEN ioq_length(q)' ELSE bufsize - ioq_length(q)'
      /\ \A u \in Clients \ {t} : side'[u] = side[u]
  BY <1>5, <1>8
<1>10. PipeInv'
  BY <1>4, <1>5, <1>7, <1>8, <1>9, ClientPipe
<1>. QED BY <1>2, <1>10

\* The idle thread and the clock.
LEMMA OtherPipe ==
  ASSUME PipeInv, IdleStep \/ Timer
  PROVE  PipeInv' /\ Contents' = Contents
<1>1. q' = q /\ side' = side /\ left' = left /\ QueueInv
  BY DEF IdleStep, Timer, PipeInv
<1>2. QueueInv' /\ \A u \in Clients : pc'[u] = pc[u] /\ pc[u] \notin {"test", "wait"}
  BY <1>1, IdleQueue, TimerQueue DEF IdleStep, Timer, InterruptsOn
<1>3. QueueTypeOK'
  BY <1>2 DEF QueueInv
<1>. QED BY <1>1, <1>2, <1>3 DEF PipeInv, BlocksOnLastByte, PipeTypeOK, Blocks, Contents, ioq_length

\* Every step keeps the invariant, and is a step of the queue or leaves it alone.
LEMMA NextPipe ==
  ASSUME PipeInv, [PipeNext]_queueVars
  PROVE  PipeInv' /\ [F!Next]_Contents
<1>1. ASSUME NEW t \in Clients, ProcessStep(t)
      PROVE  PipeInv' /\ [F!Next]_Contents
  <2>1. ASSUME NEW count \in 1 .. MaxCount, pipe_read(t, count) \/ pipe_write(t, count)
        PROVE  PipeInv' /\ [F!Next]_Contents
    <3>1. PipeInv'
      BY <2>1, BeginPipe
    <3>2. q' = q
      BY <2>1 DEF pipe_read, pipe_write, Begin
    <3>. QED BY <3>1, <3>2 DEF Contents, ioq_length
  <2>2. CASE ReadByte(t) \/ \E c \in Bytes : WriteByte(t, c)
    BY <2>2, TransferPipe
  <2>3. CASE Wait(t) /\ UNCHANGED left
    BY <2>3, WaitPipe
  <2>. QED BY <1>1, <2>1, <2>2, <2>3 DEF ProcessStep
<1>2. CASE IdleStep \/ Timer
  BY <1>2, OtherPipe
<1>3. CASE UNCHANGED queueVars
  <2>1. k' = k /\ pc' = pc /\ q' = q /\ side' = side /\ left' = left
    BY <1>3 DEF queueVars
  <2>2. QueueTypeOK' /\ RunQueueOK(k') /\ Labelled' /\ OnCpu' /\ Sleepers'
    BY <2>1, SameQueue DEF PipeInv
  <2>3. LockOf(k, q.lock, HaveLock, WantLock)'
    BY <2>1 DEF PipeInv, QueueInv, HaveLock, WantLock
  <2>4. BlocksOnLastByte'
    BY <2>1, <2>2 DEF PipeInv, BlocksOnLastByte, PipeTypeOK, Blocks
  <2>5. (\A t \in Clients : pc[t] = "test" => Enough(t))'
    BY <2>1 DEF PipeInv, Enough, ioq_length
  <2>6. Contents' = Contents
    BY <2>1 DEF Contents, ioq_length
  <2>. QED BY <2>2, <2>3, <2>4, <2>5, <2>6 DEF PipeInv, QueueInv
<1>. QED BY <1>1, <1>2, <1>3 DEF PipeNext

-----------------------------------------------------------------------------

\* The ring, its lock, the run queue and the sizes of the transfers agree in
\* every reachable state, for any number of processes and any buffer.
THEOREM PipeInvariance == PipeSpec => []PipeInv
BY InitPipe, NextPipe, PTL DEF PipeSpec

\* However readers and writers of a pipe interleave, a thread recorded as
\* asleep on the ring is the one that holds its lock, and no ASSERT fires.
THEOREM SleepersHoldTheLock == PipeSpec => []SleeperHoldsLock
<1>1. PipeInv => SleeperHoldsLock
  BY QueueSleepers DEF PipeInv
<1>. QED BY <1>1, PipeInvariance, PTL

\* A pipe_read never sleeps, and a pipe_write only with its last byte.
THEOREM WritersBlockLast == PipeSpec => []BlocksOnLastByte
<1>1. PipeInv => BlocksOnLastByte
  BY DEF PipeInv
<1>. QED BY <1>1, PipeInvariance, PTL

\* The bytes of a pipe come out in the order they went in, none lost and none
\* twice, and never more than bufsize - 1 wait in it.
THEOREM PipeIsFifo == PipeSpec => ImplementsFifo
<1>1. QueueInit => F!Init
  BY InitBytes DEF QueueInit
<1>2. PipeInv /\ [PipeNext]_queueVars => [F!Next]_Contents
  BY NextPipe
<1>. QED BY <1>1, <1>2, PipeInvariance, PTL DEF PipeSpec, ImplementsFifo, F!Spec

-----------------------------------------------------------------------------
(***************************************************************************)
(* The keyboard driver, for any set of keys: the interrupt handler, which  *)
(* types into the ring without taking its lock, disturbs no reader, the    *)
(* chars come out as they were typed, and shift, ctrl and alt never stick. *)
(***************************************************************************)

KbState == [ctrl : BOOLEAN, shift : BOOLEAN, alt : BOOLEAN, caps : BOOLEAN, ext : BOOLEAN]

\* What follows an e0.
SecondBytes == [base : {"ctrl_l", "alt_l", "up"}, break : BOOLEAN]

\* The second byte that is due is the break code of this key.
Releasing(base) == wire # NULL /\ wire.base = base /\ wire.break

\* The status bits, also between the two bytes of a key: then a bit may still
\* be set for the right-hand key whose break code is due, and a make code that
\* is due belongs to a key that is down.
StatusOK ==
  /\ kb \in KbState
  /\ wire = NULL \/ wire \in SecondBytes
  /\ kb.ext <=> wire # NULL
  /\ kb.shift => held \cap ShiftKeys # {}
  /\ kb.ctrl => held \cap CtrlKeys # {} \/ Releasing("ctrl_l")
  /\ kb.alt => held \cap AltKeys # {} \/ Releasing("alt_l")
  /\ wire # NULL /\ ~wire.break => /\ wire.base = "ctrl_l" => "ctrl_r" \in held
                                   /\ wire.base = "alt_l" => "alt_r" \in held

\* The inductive invariant.
KeyboardInv == QueueInv /\ KeyboardTypeOK /\ StatusOK

-----------------------------------------------------------------------------

\* The queue is empty and nobody is in it.
LEMMA InitKeyboard == KeyboardInit => KeyboardInv
<1>. SUFFICES ASSUME KeyboardInit PROVE KeyboardInv
  OBVIOUS
<1>1. QueueInv
  BY InitQueue DEF KeyboardInit, QueueInit
<1>2. KeyboardTypeOK
  BY <1>1, CountAssumption DEF KeyboardInit, QueueInit, KeyboardTypeOK, QueueInv, Clients
<1>3. StatusOK
  BY DEF KeyboardInit, StatusOK, KbState
<1>. QED BY <1>1, <1>2, <1>3 DEF KeyboardInv

-----------------------------------------------------------------------------
\* The handler and the ring.

\* The chars the handler types are bytes.
LEMMA CharIsByte ==
  ASSUME NEW base, CurChar(base) # NULL
  PROVE  CurChar(base) \in Bytes
<1>1. \A b \in BOOLEAN : keymap(base, b) \in {"1", "!", "l", "L", "a", "A", NULL}
  BY DEF keymap
<1>2. keymap(base, Shifted(base)) \in {"1", "!", "l", "L", "a", "A", NULL}
  BY DEF keymap
<1>. QED BY <1>2, KeyboardAssumption DEF CurChar

\* An interrupt finds nobody between a test and a sleep, and puts its char
\* into the ring as a writer does.
LEMMA HandlerQueue ==
  ASSUME QueueInv, NEW byte, Interrupt(byte)
  PROVE  /\ QueueInv' /\ [F!Next]_Contents
         /\ \A u \in Clients : pc'[u] = pc[u]
<1>1. /\ pc[k.cur] \in {"user"} \cup IdleLabels /\ EndHalt /\ side' = side
      /\ q \in IoQueueState /\ RunQueueOK(k)
      /\ \/ UNCHANGED <<k, q>>
         \/ Type(CurChar(byte.base)) /\ CurChar(byte.base) # NULL
  BY DEF Interrupt, InterruptsOn, intr_keyboard_handler, Prefix, BreakCode, MakeCode,
         QueueInv, QueueTypeOK
<1>2. /\ pc' \in [Threads -> QueueLabels \cup IdleLabels] /\ pc'[Idle] \in IdleLabels
      /\ \A u \in Clients : pc'[u] = pc[u] /\ pc[u] \notin {"test", "wait"}
  BY <1>1, InterruptPcs
<1>3. CASE UNCHANGED <<k, q>>
  <2>1. RunQueueOK(k') /\ SameRunnable(k, k', Clients)
    BY <1>1, <1>3 DEF SameRunnable
  <2>2. QueueInv'
    BY <1>1, <1>2, <1>3, <2>1, SwitchQueue
  <2>. QED BY <1>2, <1>3, <2>2 DEF Contents, ioq_length
<1>4. ASSUME NEW c \in Bytes, ~ioq_full(q), PutByte(c)
      PROVE  QueueInv' /\ F!Next
  <2>1. /\ F!Put(c) /\ q' \in IoQueueState /\ q'.lock = q.lock
        /\ q'["consumer"] = NULL /\ q'["producer"] = q["producer"]
    BY <1>1, <1>4, PutBytes
  <2>2. WakeOther("consumer")
    BY <1>4 DEF PutByte
  <2>3. QueueInv'
    BY <1>1, <1>2, <2>1, <2>2, WakeQueue DEF Sides
  <2>. QED BY <2>1, <2>3 DEF F!Next
<1>5. CASE ~ UNCHANGED <<k, q>>
  <2>. DEFINE c == CurChar(byte.base)
  <2>1. c \in Bytes /\ Type(c)
    BY <1>1, <1>5, CharIsByte
  <2>. HIDE DEF c
  <2>2. ~ioq_full(q) /\ PutByte(c)
    BY <1>5, <2>1 DEF Type
  <2>. QED BY <1>2, <1>4, <2>1, <2>2
<1>. QED BY <1>3, <1>5

-----------------------------------------------------------------------------
\* The handler and the keys.

\* What one byte does to the status bits.
LEMMA StatusSet ==
  ASSUME kb \in KbState, NEW code, NEW down \in BOOLEAN
  PROVE  /\ SetStatus(code, down) \in KbState /\ SetStatus(code, down).ext = FALSE
         /\ SetStatus(code, down).shift = IF code \in ShiftKeys THEN down ELSE kb.shift
         /\ SetStatus(code, down).ctrl = IF code \in CtrlKeys THEN down ELSE kb.ctrl
         /\ SetStatus(code, down).alt = IF code \in AltKeys THEN down ELSE kb.alt
BY DEF SetStatus, KbState

\* A break code clears the bit of its key, a make code sets it or sets none.
StatusAfter(code, break) ==
  /\ kb' \in KbState /\ kb'.ext = FALSE
  /\ \/ break = FALSE /\ kb'.shift = kb.shift /\ kb'.ctrl = kb.ctrl /\ kb'.alt = kb.alt
     \/ /\ kb'.shift = IF code \in ShiftKeys THEN ~break ELSE kb.shift
        /\ kb'.ctrl = IF code \in CtrlKeys THEN ~break ELSE kb.ctrl
        /\ kb'.alt = IF code \in AltKeys THEN ~break ELSE kb.alt

\* That is what the handler does with a byte other than the prefix.
LEMMA HandlerStatus ==
  ASSUME kb \in KbState, NEW byte, byte.break \in BOOLEAN, byte.base # "e0",
         intr_keyboard_handler(byte)
  PROVE  StatusAfter(Scancode(byte.base), byte.break)
<1>. DEFINE code == Scancode(byte.base)
<1>1. CASE BreakCode(byte)
  <2>1. kb' = SetStatus(code, FALSE) /\ byte.break
    BY <1>1 DEF BreakCode
  <2>. HIDE DEF code
  <2>2. byte.break = TRUE
    BY <2>1
  <2>. QED BY <2>1, <2>2, StatusSet DEF code, StatusAfter
<1>2. CASE MakeCode(byte)
  <2>0. byte.break = FALSE
    BY <1>2 DEF MakeCode
  <2>1. CASE kb' = [kb EXCEPT !.ext = FALSE]
    BY <2>0, <2>1 DEF KbState, StatusAfter
  <2>2. CASE kb' = [SetStatus(code, TRUE) EXCEPT !.caps = IF byte.base = "caps" THEN ~@ ELSE @]
    <3>. DEFINE s == SetStatus(code, TRUE)
    <3>1. s \in KbState /\ s.ext = FALSE
      BY StatusSet
    <3>2. /\ s.shift = IF code \in ShiftKeys THEN TRUE ELSE kb.shift
          /\ s.ctrl = IF code \in CtrlKeys THEN TRUE ELSE kb.ctrl
          /\ s.alt = IF code \in AltKeys THEN TRUE ELSE kb.alt
      BY StatusSet
    <3>. HIDE DEF s
    <3>3. kb' \in KbState /\ kb'.ext = s.ext /\ kb'.shift = s.shift /\ kb'.ctrl = s.ctrl /\ kb'.alt = s.alt
      BY <2>2, <3>1 DEF s, KbState
    <3>. QED BY <2>0, <3>1, <3>2, <3>3 DEF StatusAfter
  <2>. QED BY <1>2, <2>1, <2>2 DEF MakeCode
<1>. QED BY <1>1, <1>2 DEF intr_keyboard_handler, Prefix

\* A key goes down or up.
LEMMA KeyStatus ==
  ASSUME StatusOK, NEW key \in Keys, Key(key)
  PROVE  StatusOK'
<1>1. /\ kb \in KbState /\ wire = NULL /\ kb.ext = FALSE
      /\ held' = IF key \in held THEN held \ {key} ELSE held \cup {key}
      /\ kb.shift => held \cap ShiftKeys # {}
      /\ kb.ctrl => held \cap CtrlKeys # {}
      /\ kb.alt => held \cap AltKeys # {}
  BY DEF Key, StatusOK, Releasing, KbState
<1>. DEFINE byte == [base |-> Base(key), break |-> key \in held]
<1>2. CASE Extended(key)
  <2>1. /\ intr_keyboard_handler([base |-> "e0", break |-> FALSE])
        /\ wire' = byte
    BY <1>2 DEF Key, Interrupt
  <2>2. kb' = [kb EXCEPT !.ext = TRUE]
    BY <2>1 DEF intr_keyboard_handler, Prefix, BreakCode, MakeCode
  <2>3. /\ kb' \in KbState /\ kb'.ext = TRUE
        /\ kb'.shift = kb.shift /\ kb'.ctrl = kb.ctrl /\ kb'.alt = kb.alt
    BY <1>1, <2>2 DEF KbState
  <2>4. /\ key \in {"ctrl_r", "alt_r", "up"} /\ Base(key) \in {"ctrl_l", "alt_l", "up"}
        /\ key = "ctrl_r" <=> Base(key) = "ctrl_l"
        /\ key = "alt_r" <=> Base(key) = "alt_l"
    BY <1>2 DEF Extended, Base
  <2>5. wire' \in SecondBytes /\ wire' # NULL
    <3>. DEFINE b == key \in held
    <3>1. b \in BOOLEAN /\ wire' = [base |-> Base(key), break |-> b]
      BY <2>1
    <3>. HIDE DEF b
    <3>2. [base |-> Base(key), break |-> b] # NULL
      BY <3>1, KeyboardAssumption
    <3>. QED BY <2>4, <3>1, <3>2 DEF SecondBytes
  <2>6. wire'.base = Base(key) /\ wire'.break = (key \in held)
    BY <2>1
  <2>7. kb'.shift => held' \cap ShiftKeys # {}
    BY <1>1, <2>3, <2>4 DEF ShiftKeys
  <2>8. kb'.ctrl => held' \cap CtrlKeys # {} \/ Releasing("ctrl_l")'
    BY <1>1, <2>3, <2>4, <2>5, <2>6 DEF CtrlKeys, Releasing
  <2>9. kb'.alt => held' \cap AltKeys # {} \/ Releasing("alt_l")'
    BY <1>1, <2>3, <2>4, <2>5, <2>6 DEF AltKeys, Releasing
  <2>10. ~wire'.break => /\ wire'.base = "ctrl_l" => "ctrl_r" \in held'
                         /\ wire'.base = "alt_l" => "alt_r" \in held'
    BY <1>1, <2>4, <2>6
  <2>. QED BY <2>3, <2>5, <2>7, <2>8, <2>9, <2>10 DEF StatusOK
<1>3. CASE ~Extended(key)
  <2>1. intr_keyboard_handler(byte) /\ wire' = NULL
    BY <1>3 DEF Key, Interrupt
  <2>2. byte.base = key /\ byte.break = (key \in held)
    BY <1>3 DEF Extended, Base
  <2>8. byte.break \in BOOLEAN
    OBVIOUS
  <2>3. byte.base # "e0" /\ Scancode(byte.base) = key
    BY <1>1, <2>2, KeyboardAssumption DEF Scancode
  <2>. HIDE DEF byte
  <2>4. StatusAfter(key, byte.break)
    <3>1. StatusAfter(Scancode(byte.base), byte.break)
      BY <1>1, <2>1, <2>8, <2>3, HandlerStatus
    <3>. QED BY <2>3, <3>1
  <2>5. kb'.shift => held' \cap ShiftKeys # {}
    BY <1>1, <2>2, <2>4 DEF StatusAfter
  <2>6. kb'.ctrl => held' \cap CtrlKeys # {}
    BY <1>1, <2>2, <2>4 DEF StatusAfter
  <2>7. kb'.alt => held' \cap AltKeys # {}
    BY <1>1, <2>2, <2>4 DEF StatusAfter
  <2>. QED BY <2>1, <2>4, <2>5, <2>6, <2>7 DEF StatusOK, StatusAfter
<1>. QED BY <1>2, <1>3

\* The byte after the prefix.
LEMMA SecondStatus ==
  ASSUME StatusOK, SecondByte
  PROVE  StatusOK'
<1>1. /\ kb \in KbState /\ wire # NULL /\ wire \in SecondBytes /\ kb.ext = TRUE
      /\ wire' = NULL /\ held' = held /\ intr_keyboard_handler(wire)
  BY DEF SecondByte, Interrupt, StatusOK, KbState
<1>2. wire.base \in {"ctrl_l", "alt_l", "up"} /\ wire.break \in BOOLEAN
  BY <1>1 DEF SecondBytes
<1>. DEFINE code == Scancode(wire.base)
<1>3. /\ wire.base = "ctrl_l" => code = "ctrl_r"
      /\ wire.base = "alt_l" => code = "alt_r"
      /\ wire.base = "up" => code = "unknown"
  BY <1>1 DEF Scancode
<1>4. StatusAfter(code, wire.break)
  <2>1. wire.base # "e0"
    BY <1>2
  <2>. QED BY <1>1, <1>2, <2>1, HandlerStatus
<1>. HIDE DEF code
<1>5. kb'.shift => held' \cap ShiftKeys # {}
  BY <1>1, <1>2, <1>3, <1>4 DEF ShiftKeys, StatusOK, StatusAfter
<1>6. kb'.ctrl => held' \cap CtrlKeys # {}
  BY <1>1, <1>2, <1>3, <1>4 DEF CtrlKeys, StatusOK, Releasing, StatusAfter
<1>7. kb'.alt => held' \cap AltKeys # {}
  BY <1>1, <1>2, <1>3, <1>4 DEF AltKeys, StatusOK, Releasing, StatusAfter
<1>. QED BY <1>1, <1>4, <1>5, <1>6, <1>7 DEF StatusOK, StatusAfter

-----------------------------------------------------------------------------
\* The readers.

\* The calls of client t: where it is and how much it has to read.
LEMMA ClientTypes ==
  ASSUME KeyboardTypeOK, QueueInv, QueueInv', NEW t \in Clients,
         NEW label \in QueueLabels, pc' = [pc EXCEPT ![t] = label],
         NEW n \in 0 .. MaxCount, left' = [left EXCEPT ![t] = n],
         label = "user" <=> n = 0
  PROVE  KeyboardTypeOK'
<1>1. /\ t \in Threads /\ QueueTypeOK' /\ pc \in [Threads -> QueueLabels \cup IdleLabels]
      /\ left \in [Threads -> 0 .. MaxCount] /\ Clients \subseteq Threads
  BY RunningThread DEF QueueInv, KeyboardTypeOK, QueueTypeOK
<1>2. /\ pc'[t] = label /\ left'[t] = n /\ left' \in [Threads -> 0 .. MaxCount]
      /\ \A u \in Clients \ {t} : pc'[u] = pc[u] /\ left'[u] = left[u]
  BY <1>1
<1>. QED BY <1>1, <1>2 DEF KeyboardTypeOK

\* sys_read on stdin.
LEMMA ReaderKeyboard ==
  ASSUME KeyboardInv, NEW t \in Clients, ReaderStep(t)
  PROVE  KeyboardInv' /\ [F!Next]_Contents
<1>1. /\ QueueInv /\ KeyboardTypeOK /\ StatusOK /\ q \in IoQueueState /\ side \in [Threads -> Sides]
      /\ t \in Threads /\ t # Idle /\ left \in [Threads -> 0 .. MaxCount]
      /\ pc \in [Threads -> QueueLabels \cup IdleLabels] /\ MaxCount \in Nat
  BY RunningThread, CountAssumption DEF KeyboardInv, QueueInv, QueueTypeOK, KeyboardTypeOK
<1>2. StatusOK'
  BY <1>1 DEF ReaderStep, sys_read, ReadKey, kvars, StatusOK, Releasing
<1>3. ASSUME NEW count \in 1 .. MaxCount, sys_read(t, count)
      PROVE  QueueInv' /\ KeyboardTypeOK' /\ Contents' = Contents
  <2>1. /\ Running(t, "user") /\ k' = k /\ q' = q /\ side' = side
        /\ left' = [left EXCEPT ![t] = count] /\ pc' = [pc EXCEPT ![t] = "test"]
        /\ count \in 0 .. MaxCount /\ count # 0
    BY <1>1, <1>3 DEF sys_read, Goto
  <2>2. side' = [side EXCEPT ![t] = side[t]] /\ side[t] \in Sides
    BY <1>1, <2>1
  <2>3. QueueInv'
    BY <1>1, <2>1, <2>2, BeginQueue
  <2>4. KeyboardTypeOK'
    BY <1>1, <2>1, <2>3, ClientTypes DEF QueueLabels
  <2>. QED BY <2>1, <2>3, <2>4 DEF Contents, ioq_length
<1>4. CASE ReadKey(t)
  <2>. DEFINE label == IF left[t] = 1 THEN "user" ELSE "test"
              n == left[t] - 1
  <2>1. /\ k.cur = t /\ pc[t] = "test" /\ side' = side /\ ~ioq_empty(q)
        /\ left' = [left EXCEPT ![t] = n] /\ pc' = [pc EXCEPT ![t] = label]
        /\ GetByte /\ WakeOther("producer")
    BY <1>4 DEF ReadKey, Ready, Running, MustWait, Goto, GetByte
  <2>2. left[t] \in 1 .. MaxCount
    BY <1>1, <2>1 DEF KeyboardTypeOK
  <2>3. /\ label \in {"user", "test"} /\ label \in QueueLabels
        /\ label = "user" <=> n = 0
        /\ n \in 0 .. MaxCount
    BY <1>1, <2>2 DEF QueueLabels
  <2>. HIDE DEF label, n
  <2>4. /\ pc' \in [Threads -> QueueLabels \cup IdleLabels] /\ pc'[Idle] \in IdleLabels
        /\ \A u \in Clients :
             \/ pc'[u] = pc[u]
             \/ u = k.cur /\ pc[u] \in {"user", "test"} /\ pc'[u] \in {"user", "test"}
    BY <1>1, <2>1, <2>3, RunningThread DEF QueueInv, Labelled
  <2>5. /\ F!Get /\ q' \in IoQueueState /\ q'.lock = q.lock
        /\ q'["producer"] = NULL /\ q'["consumer"] = q["consumer"]
    BY <1>1, <2>1, GetBytes
  <2>6. QueueInv'
    BY <1>1, <2>1, <2>4, <2>5, WakeQueue DEF Sides
  <2>7. KeyboardTypeOK'
    BY <1>1, <2>1, <2>3, <2>6, ClientTypes
  <2>. QED BY <1>1, <1>2, <2>5, <2>6, <2>7 DEF KeyboardInv, F!Next
<1>5. CASE Wait(t) /\ left' = left
  <2>1. QueueInv'
    BY <1>1, <1>5, AcquireQueue, WaitQueue, ReleaseQueue DEF Wait
  <2>2. Contents' = Contents
    BY <1>1, <1>5, WaitBytes
  <2>3. pc[t] \in {"test", "lock", "wait", "woken"}
    BY <1>5 DEF Wait, Acquire, ioq_wait, Release, Running
  <2>4. PICK label \in {"test", "lock", "wait", "woken"} : pc' = [pc EXCEPT ![t] = label]
    BY <1>5 DEF Wait, Acquire, ioq_wait, Release, Goto
  <2>. DEFINE n == left[t]
  <2>5. /\ left' = [left EXCEPT ![t] = n] /\ n \in 0 .. MaxCount
        /\ label \in QueueLabels
        /\ label = "user" <=> n = 0
    BY <1>1, <1>5, <2>3, <2>4 DEF KeyboardTypeOK, QueueLabels
  <2>. HIDE DEF n
  <2>6. KeyboardTypeOK'
    BY <1>1, <2>1, <2>4, <2>5, ClientTypes
  <2>. QED BY <1>1, <1>2, <2>1, <2>2, <2>6 DEF KeyboardInv
<1>6. CASE \E count \in 1 .. MaxCount : sys_read(t, count)
  BY <1>2, <1>3, <1>6 DEF KeyboardInv
<1>. QED BY <1>4, <1>5, <1>6 DEF ReaderStep

\* Every step keeps the invariant, and is a step of the queue or leaves it alone.
LEMMA NextKeyboard ==
  ASSUME KeyboardInv, [KeyboardNext]_keyboardVars
  PROVE  KeyboardInv' /\ [F!Next]_Contents
<1>0. QueueInv /\ KeyboardTypeOK /\ StatusOK
  BY DEF KeyboardInv
<1>1. ASSUME NEW byte, Interrupt(byte)
      PROVE  QueueInv' /\ KeyboardTypeOK' /\ [F!Next]_Contents
  <2>1. QueueInv' /\ [F!Next]_Contents /\ \A u \in Clients : pc'[u] = pc[u]
    BY <1>0, <1>1, HandlerQueue
  <2>2. left' = left /\ QueueTypeOK'
    BY <1>1, <2>1 DEF Interrupt, QueueInv
  <2>3. KeyboardTypeOK'
    BY <1>0, <2>1, <2>2 DEF KeyboardTypeOK
  <2>. QED BY <2>1, <2>3
<1>2. ASSUME NEW key \in Keys, Key(key)
      PROVE  KeyboardInv' /\ [F!Next]_Contents
  <2>1. StatusOK'
    BY <1>0, <1>2, KeyStatus
  <2>2. \E byte : Interrupt(byte)
    BY <1>2 DEF Key
  <2>. QED BY <1>1, <2>1, <2>2 DEF KeyboardInv
<1>3. CASE SecondByte
  <2>1. StatusOK'
    BY <1>0, <1>3, SecondStatus
  <2>2. Interrupt(wire)
    BY <1>3 DEF SecondByte
  <2>. QED BY <1>1, <2>1, <2>2 DEF KeyboardInv
<1>4. CASE (IdleStep \/ Timer) /\ UNCHANGED kvars
  <2>1. q' = q /\ side' = side /\ left' = left /\ UNCHANGED kvars
    BY <1>4 DEF IdleStep, Timer
  <2>2. QueueInv' /\ \A u \in Clients : pc'[u] = pc[u]
    BY <1>0, <1>4, <2>1, IdleQueue, TimerQueue DEF IdleStep, Timer, InterruptsOn
  <2>3. KeyboardTypeOK'
    BY <1>0, <2>1, <2>2 DEF KeyboardTypeOK, QueueInv
  <2>4. StatusOK'
    BY <1>0, <2>1 DEF StatusOK, Releasing, kvars
  <2>. QED BY <2>1, <2>2, <2>3, <2>4 DEF KeyboardInv, Contents, ioq_length
<1>5. CASE UNCHANGED keyboardVars
  <2>1. /\ k' = k /\ pc' = pc /\ q' = q /\ side' = side /\ left' = left
        /\ kb' = kb /\ held' = held /\ wire' = wire
    BY <1>5 DEF keyboardVars
  <2>2. QueueTypeOK' /\ RunQueueOK(k') /\ Labelled' /\ OnCpu' /\ Sleepers'
    BY <1>0, <2>1, SameQueue
  <2>3. LockOf(k, q.lock, HaveLock, WantLock)'
    BY <1>0, <2>1 DEF QueueInv, HaveLock, WantLock
  <2>4. KeyboardTypeOK'
    BY <1>0, <2>1, <2>2 DEF KeyboardTypeOK
  <2>5. StatusOK'
    BY <1>0, <2>1 DEF StatusOK, Releasing
  <2>6. Contents' = Contents
    BY <2>1 DEF Contents, ioq_length
  <2>. QED BY <2>2, <2>3, <2>4, <2>5, <2>6 DEF KeyboardInv, QueueInv
<1>. QED BY <1>2, <1>3, <1>4, <1>5, ReaderKeyboard DEF KeyboardNext

-----------------------------------------------------------------------------

\* The ring, its lock, the run queue and the status bits agree in every
\* reachable state.
THEOREM KeyboardInvariance == KeyboardSpec => []KeyboardInv
BY InitKeyboard, NextKeyboard, PTL DEF KeyboardSpec

\* Whatever keys are pressed while processes read: no status bit sticks, no
\* two keys become one, and the handler disturbs no sleeping reader.
THEOREM HandlerIsSound == KeyboardSpec => []HandlerSound
<1>1. KeyboardInv => HandlerSound
  BY QueueSleepers DEF KeyboardInv, HandlerSound, StatusOK, Releasing
<1>. QED BY <1>1, KeyboardInvariance, PTL

\* What is typed is read in that order, none lost once it is in the buffer.
THEOREM KeysComeInOrder == KeyboardSpec => ImplementsFifo
<1>1. KeyboardInit => F!Init
  BY InitBytes DEF KeyboardInit, QueueInit
<1>2. KeyboardInv /\ [KeyboardNext]_keyboardVars => [F!Next]_Contents
  BY NextKeyboard
<1>. QED BY <1>1, <1>2, KeyboardInvariance, PTL DEF KeyboardSpec, ImplementsFifo, F!Spec

=============================================================================

------------------------------ MODULE SyncProofs -----------------------------
(***************************************************************************)
(* The locks of thread/sync.c are correct for any number of threads and    *)
(* locks, wherever the clock interrupt strikes: IInv is an invariant, and  *)
(* with it everything the runs of MCSync check on a small instance.        *)
(***************************************************************************)
EXTENDS Sync, CommonProofs

\* The lock a step of another thread does not work on keeps its owners.
LEMMA OwnersMember ==
  ASSUME NEW l \in LockIds, NEW t
  PROVE  t \in Owners(l) <=>
           /\ t \in Clients
           /\ \/ lock[l].holder = t
              \/ arg[t] = l /\ pc[t] \in {"own", "count", "clear", "up"}
BY DEF Owners, Holds, At

\* After boot every part of the invariant holds.
LEMMA InitIInv == Init => IInv
<1>. SUFFICES ASSUME Init PROVE IInv
  OBVIOUS
<1>. USE ThreadsAssumption, NullAssumption, BootAssumption, SyncAssumption
<1>1. /\ Head(BootOrder) \in Threads /\ Tail(BootOrder) \in Seq(Threads)
      /\ Range(Tail(BootOrder)) = Threads \ {Head(BootOrder)}
      /\ NoDuplicates(Tail(BootOrder))
  BY PopFacts
<1>2. /\ k.cur = Head(BootOrder) /\ k.ready = Tail(BootOrder) /\ k.panic = FALSE
      /\ \A t \in Threads : k.status[t] = IF t = Head(BootOrder)
                                          THEN "TASK_RUNNING" ELSE "TASK_READY"
  BY <1>1 DEF Init, InitScheduler
<1>3. k \in SchedulerState
  BY <1>1 DEF Init, InitScheduler, SchedulerState, Status
<1>4. RunQueueOK(k)
  BY <1>1, <1>2, <1>3 DEF RunQueueOK, ReadyListIsReady, OneRunning, IdleCanRun
<1>5. \A l \in LockIds : /\ lock[l].holder = NULL /\ lock[l].repeat = 0
                         /\ lock[l].sema.value = 1
                         /\ lock[l].sema.waiters = << >>
  BY DEF Init, lock_init, sema_init
<1>6. lock \in [LockIds -> LockState]
  BY DEF Init, lock_init, sema_init, LockState, SemaphoreState
<1>7. \A t \in Clients : pc[t] = "run"
  BY DEF Init, Clients
<1>8. TypeOK
  BY <1>3, <1>6, <1>7 DEF Init, TypeOK, ClientLabels, IdleLabels, Clients
<1>9. \A l \in LockIds : Owners(l) = {}
  BY <1>5, <1>7 DEF Owners, Holds, At, Clients
<1>10. MutualExclusion
  BY <1>5, <1>9 DEF MutualExclusion
<1>11. HolderOK
  BY <1>5, <1>7, <1>9 DEF HolderOK, Holds, At, Clients
<1>12. OneList
  <2>1. \A l \in LockIds : Range(lock[l].sema.waiters) = {} /\ NoDuplicates(lock[l].sema.waiters)
    BY <1>5 DEF Range, NoDuplicates
  <2>. QED BY <1>4, <1>7, <2>1 DEF OneList, InWaiters
<1>13. NoLostWakeup
  BY <1>5 DEF NoLostWakeup
<1>. QED BY <1>8, <1>10, <1>11, <1>12, <1>13 DEF IInv

-----------------------------------------------------------------------------
\* The lists.

\* A step that neither blocks nor wakes a client and leaves the waiters alone
\* keeps the lists in order.
LEMMA SameLists ==
  ASSUME IInv, RunQueueOK(k'), SameRunnable(k, k', Clients),
         NEW t \in Threads, t \in Clients => k.status[t] # "TASK_BLOCKED",
         \A u \in Clients \ {t} : pc'[u] = pc[u] /\ arg'[u] = arg[u],
         \A l \in LockIds : lock'[l].sema.waiters = lock[l].sema.waiters
  PROVE  OneList'
<1>1. \A u \in Clients : k'.status[u] = "TASK_BLOCKED" <=> k.status[u] = "TASK_BLOCKED"
  BY DEF SameRunnable, Runnable
<1>2. \A l \in LockIds : NoDuplicates(lock'[l].sema.waiters)
  BY DEF IInv, OneList
<1>3. \A u \in Clients, l \in LockIds :
        u \in Range(lock'[l].sema.waiters) <=>
          k'.status[u] = "TASK_BLOCKED" /\ pc'[u] = "sleep" /\ arg'[u] = l
  BY <1>1 DEF IInv, OneList, InWaiters
<1>4. \A l \in LockIds : Idle \notin Range(lock'[l].sema.waiters)
  BY DEF IInv, OneList, InWaiters
<1>. QED BY <1>2, <1>3, <1>4 DEF OneList, InWaiters

\* A step that does not change the scheduler state blocks and wakes nobody.
LEMMA SameScheduler ==
  ASSUME IInv, k' = k
  PROVE  RunQueueOK(k') /\ SameRunnable(k, k', Clients)
BY DEF IInv, OneList, SameRunnable

\* The thread on the CPU is not blocked.
LEMMA RunningThread ==
  ASSUME IInv
  PROVE  /\ k.cur \in Threads /\ k.status[k.cur] = "TASK_RUNNING"
         /\ RunQueueOK(k) /\ k.panic = FALSE /\ k \in SchedulerState
BY DEF IInv, OneList, RunQueueOK, OneRunning, SchedulerState

\* sema_down finds the value 0.
LEMMA DownBlockLists ==
  ASSUME IInv, NEW t \in Clients, Running(t, "down") \/ Running(t, "sleep"),
         sema_down(t), lock[arg[t]].sema.value = 0
  PROVE  OneList' /\ SameRunnable(k, k', Clients \ {t})
<1>. DEFINE a == arg[t]
            s == lock[a].sema
<1>1. /\ t \in Threads /\ t # Idle /\ a \in LockIds /\ k.cur = t
      /\ k.status[t] = "TASK_RUNNING" /\ RunQueueOK(k)
      /\ s.waiters \in Seq(Threads) /\ NoDuplicates(s.waiters)
      /\ t \notin Range(s.waiters)
  BY RunningThread DEF IInv, TypeOK, Clients, Running, LockState, SemaphoreState,
                       OneList, InWaiters
<1>2. k' = thread_block(k, "TASK_BLOCKED")
  BY <1>1 DEF sema_down, DownBlock, Assert, InWaiters
<1>3. /\ RunQueueOK(k') /\ k'.status[t] = "TASK_BLOCKED"
      /\ SameRunnable(k, k', Clients \ {t})
  BY <1>1, <1>2, BlockOK DEF Blocked, Clients
<1>4. /\ Append(s.waiters, t) \in Seq(Threads)
      /\ NoDuplicates(Append(s.waiters, t))
      /\ Range(Append(s.waiters, t)) = Range(s.waiters) \cup {t}
  BY <1>1, AppendFacts
<1>5. \A l \in LockIds : lock'[l].sema.waiters =
        IF l = a THEN Append(s.waiters, t) ELSE lock[l].sema.waiters
  <2>1. lock' = [lock EXCEPT ![a].sema = [s EXCEPT !.waiters = Append(s.waiters, t)]]
    BY <1>1 DEF sema_down, DownWaiters
  <2>2. lock \in [LockIds -> LockState]
    BY DEF IInv, TypeOK
  <2>. QED BY <1>1, <2>1, <2>2 DEF LockState, SemaphoreState
<1>6. /\ arg' = arg /\ pc'[t] = "sleep"
      /\ \A u \in Clients \ {t} : pc'[u] = pc[u]
  BY <1>1 DEF sema_down, Goto, IInv, TypeOK, Clients
<1>. HIDE DEF s
<1>7. \A u \in Clients \ {t} : k'.status[u] = "TASK_BLOCKED" <=> k.status[u] = "TASK_BLOCKED"
  BY <1>3 DEF SameRunnable, Runnable
<1>8. \A l \in LockIds : NoDuplicates(lock'[l].sema.waiters)
  BY <1>4, <1>5 DEF IInv, OneList
<1>9. \A u \in Clients, l \in LockIds :
        u \in Range(lock'[l].sema.waiters) <=>
          k'.status[u] = "TASK_BLOCKED" /\ pc'[u] = "sleep" /\ arg'[u] = l
  <2>. SUFFICES ASSUME NEW u \in Clients, NEW l \in LockIds
                PROVE  u \in Range(lock'[l].sema.waiters) <=>
                         k'.status[u] = "TASK_BLOCKED" /\ pc'[u] = "sleep" /\ arg'[u] = l
    OBVIOUS
  <2>1. u \in Range(lock[l].sema.waiters) <=>
          k.status[u] = "TASK_BLOCKED" /\ pc[u] = "sleep" /\ arg[u] = l
    BY DEF IInv, OneList, InWaiters
  <2>. QED BY <1>1, <1>3, <1>4, <1>5, <1>6, <1>7, <2>1 DEF s
<1>10. \A l \in LockIds : Idle \notin Range(lock'[l].sema.waiters)
  BY <1>1, <1>4, <1>5 DEF IInv, OneList, InWaiters, s
<1>. QED BY <1>3, <1>8, <1>9, <1>10 DEF OneList, InWaiters

\* sema_up: the waiter that is taken off the list is a blocked thread.
LEMMA UpLists ==
  ASSUME IInv, NEW t \in Clients, sema_up(t)
  PROVE  /\ OneList'
         /\ k'.cur = k.cur
         /\ \A u \in Clients : k.status[u] \in Runnable => k'.status[u] \in Runnable
         /\ lock[arg[t]].sema.waiters # << >> =>
              \E h \in Clients : /\ h # t /\ arg[h] = arg[t] /\ pc[h] = "sleep"
                                 /\ k'.status[h] = "TASK_READY"
<1>. DEFINE a == arg[t]
            s == lock[a].sema
            w == s.waiters
            h == Head(w)
<1>1. /\ t \in Threads /\ t # Idle /\ a \in LockIds /\ k.cur = t /\ pc[t] = "up"
      /\ k.status[t] = "TASK_RUNNING" /\ RunQueueOK(k)
      /\ s \in SemaphoreState /\ lock \in [LockIds -> LockState]
      /\ w \in Seq(Threads) /\ NoDuplicates(w)
  BY RunningThread DEF IInv, TypeOK, Clients, sema_up, Running, LockState,
                       SemaphoreState, OneList
<1>2. s.value = 0
  <2>1. t \in Owners(a)
    BY <1>1, OwnersMember
  <2>. QED BY <1>1, <2>1 DEF IInv, MutualExclusion
<1>3. \A l \in LockIds : lock'[l].sema.waiters =
        IF l = a THEN (IF w = << >> THEN w ELSE Tail(w)) ELSE lock[l].sema.waiters
  <2>1. lock' = [lock EXCEPT ![a].sema =
                   [s EXCEPT !.value = @ + 1, !.waiters = IF w = << >> THEN w ELSE Tail(w)]]
    BY DEF sema_up, Up
  <2>. QED BY <1>1, <2>1 DEF LockState, SemaphoreState
<1>4. /\ arg' = arg /\ pc'[t] = "run"
      /\ \A u \in Clients \ {t} : pc'[u] = pc[u]
  BY <1>1 DEF sema_up, Goto, IInv, TypeOK, Clients
<1>5. CASE w = << >>
  <2>1. k' = k
    BY <1>2, <1>5 DEF sema_up, UpWake, Assert
  <2>2. OneList'
    BY <1>1, <1>3, <1>4, <1>5, <2>1, SameLists, SameScheduler
  <2>. QED BY <1>5, <2>1, <2>2
<1>6. CASE w # << >>
  <2>1. /\ h \in Threads /\ h \in Range(w) /\ Tail(w) \in Seq(Threads)
        /\ Range(Tail(w)) = Range(w) \ {h} /\ NoDuplicates(Tail(w))
    BY <1>1, <1>6, PopFacts
  <2>2. h \in Clients /\ k.status[h] = "TASK_BLOCKED" /\ pc[h] = "sleep" /\ arg[h] = a
    <3>1. InWaiters(s, h)
      BY <2>1 DEF InWaiters
    <3>2. h # Idle
      BY <1>1, <3>1 DEF IInv, OneList
    <3>. HIDE DEF h
    <3>. QED BY <1>1, <2>1, <3>1, <3>2 DEF IInv, OneList, Clients
  <2>3. k' = thread_unblock(k, h)
    BY <1>2, <1>6 DEF sema_up, UpWake, Assert
  <2>4. /\ CanSchedule(k') /\ k'.cur = k.cur
        /\ \A u \in Threads : k'.status[u] = IF u = h THEN "TASK_READY" ELSE k.status[u]
    <3>. HIDE DEF h
    <3>1. CanSchedule(k) /\ k.status[h] \in Blocked
      BY <1>1, <2>2, RunQueueCanSchedule DEF Blocked
    <3>. QED BY <2>1, <2>3, <3>1, UnblockOK
  <2>. HIDE DEF h
  <2>5. RunQueueOK(k')
    BY <1>1, <2>1, <2>2, <2>4 DEF CanSchedule, RunQueueOK, OneRunning
  <2>6. \A l \in LockIds : NoDuplicates(lock'[l].sema.waiters)
    BY <1>3, <1>6, <2>1 DEF IInv, OneList
  <2>7. ASSUME NEW u \in Clients, NEW l \in LockIds
        PROVE  u \in Range(lock'[l].sema.waiters) <=>
                 k'.status[u] = "TASK_BLOCKED" /\ pc'[u] = "sleep" /\ arg'[u] = l
    <3>1. u \in Range(lock[l].sema.waiters) <=>
            k.status[u] = "TASK_BLOCKED" /\ pc[u] = "sleep" /\ arg[u] = l
      BY DEF IInv, OneList, InWaiters
    <3>2. u \in Threads
      BY DEF Clients
    <3>3. CASE l = a
      BY <1>1, <1>3, <1>4, <1>6, <2>1, <2>2, <2>4, <3>1, <3>2, <3>3
    <3>4. CASE l # a
      BY <1>1, <1>3, <1>4, <2>2, <2>4, <3>1, <3>2, <3>4
    <3>. QED BY <3>3, <3>4
  <2>8. \A l \in LockIds : Idle \notin Range(lock'[l].sema.waiters)
    BY <1>1, <1>3, <1>6, <2>1 DEF IInv, OneList, InWaiters
  <2>9. OneList'
    BY <2>5, <2>6, <2>7, <2>8 DEF OneList, InWaiters
  <2>10. h # t
    BY <1>1, <2>2
  <2>. QED BY <2>2, <2>4, <2>9, <2>10 DEF Runnable, Clients
<1>. QED BY <1>5, <1>6

-----------------------------------------------------------------------------
\* The locks.

\* MutualExclusion and HolderOK of one lock.
LockOK(l) ==
  /\ \A t, u \in Owners(l) : t = u
  /\ lock[l].sema.value = IF Owners(l) = {} THEN 1 ELSE 0
  /\ lock[l].holder # Idle
  /\ Owners(l) = {} => lock[l].repeat = 0
  /\ \A t \in Clients :
       /\ At(t, l, {"own", "clear", "up"}) => lock[l].holder = NULL
       /\ At(t, l, {"down", "sleep"}) => ~Holds(t, l)
       /\ At(t, l, {"count"}) => Holds(t, l)
       /\ At(t, l, {"own", "count", "up"}) => lock[l].repeat = 0
       /\ Holds(t, l) /\ ~At(t, l, {"count"}) => lock[l].repeat >= 1

\* The two invariants about a lock are LockOK of every lock.
LEMMA LockOKParts ==
  (\A l \in LockIds : LockOK(l)) <=> MutualExclusion /\ HolderOK
BY DEF LockOK, MutualExclusion, HolderOK

\* A lock is unaffected by a step that leaves it alone and moves no client
\* to or from a label of its.
LEMMA SameLock ==
  ASSUME NEW l \in LockIds, LockOK(l),
         lock'[l].holder = lock[l].holder, lock'[l].repeat = lock[l].repeat,
         lock'[l].sema.value = lock[l].sema.value,
         \A u \in Clients : \/ pc'[u] = pc[u] /\ arg'[u] = arg[u]
                            \/ /\ arg[u] # l \/ pc[u] = "run"
                               /\ arg'[u] # l \/ pc'[u] = "run"
  PROVE  LockOK(l)'
<1>1. \A u \in Clients : u \in Owners(l)' <=> u \in Owners(l)
  BY DEF Owners, Holds, At
<1>2. Owners(l)' = Owners(l)
  BY <1>1 DEF Owners
<1>3. \A u \in Clients : /\ At(u, l, {"own", "clear", "up"})' <=> At(u, l, {"own", "clear", "up"})
                         /\ At(u, l, {"down", "sleep"})' <=> At(u, l, {"down", "sleep"})
                         /\ At(u, l, {"count"})' <=> At(u, l, {"count"})
                         /\ At(u, l, {"own", "count", "up"})' <=> At(u, l, {"own", "count", "up"})
  BY DEF At
<1>4. \A u \in Clients : Holds(u, l)' <=> Holds(u, l)
  BY DEF Holds
<1>. QED BY <1>2, <1>3, <1>4 DEF LockOK

\* What a step of client t that works on lock a does to the labels of the
\* other clients, and to the other locks: nothing.
Works(t, a) ==
  /\ t \in Clients /\ a \in LockIds
  /\ \A u \in Clients \ {t} : pc'[u] = pc[u] /\ arg'[u] = arg[u]
  /\ \A l \in LockIds \ {a} : lock'[l] = lock[l]
  /\ (arg[t] = a \/ pc[t] = "run") /\ arg'[t] = a

\* The lock that the step works on is what remains to be looked at.
LEMMA OtherLocks ==
  ASSUME MutualExclusion, HolderOK, NEW t, NEW a, Works(t, a), LockOK(a)'
  PROVE  MutualExclusion' /\ HolderOK'
<1>1. ASSUME NEW l \in LockIds PROVE LockOK(l)'
  <2>1. CASE l = a
    BY <2>1
  <2>2. CASE l # a
    <3>1. LockOK(l)
      BY LockOKParts
    <3>. QED BY <2>2, <3>1, SameLock DEF Works
  <2>. QED BY <2>1, <2>2
<1>2. \A l \in LockIds : LockOK(l)'
  BY <1>1
<1>. QED BY <1>2 DEF LockOK, MutualExclusion, HolderOK

\* lock_acquire: nothing is taken before sema_down; the holder counts.
LEMMA AcquireLock ==
  ASSUME IInv, NEW t \in Clients, NEW a \in LockIds, lock_acquire(t, a)
  PROVE  MutualExclusion' /\ HolderOK'
<1>. USE ThreadsAssumption, NullAssumption
<1>1. /\ t \in Threads /\ pc[t] = "run" /\ LockOK(a)
      /\ lock[a] \in LockState /\ lock \in [LockIds -> LockState]
      /\ pc \in [Threads -> ClientLabels \cup IdleLabels]
      /\ arg \in [Threads -> LockIds \cup {NULL}]
  BY LockOKParts DEF IInv, TypeOK, Clients, lock_acquire, Running
<1>2. CASE ~Holds(t, a)
  <2>1. lock' = lock /\ pc' = [pc EXCEPT ![t] = "down"] /\ arg' = [arg EXCEPT ![t] = a]
    BY <1>2 DEF lock_acquire, Goto
  <2>2. Works(t, a)
    BY <1>1, <2>1 DEF Works, Clients
  <2>3. \A u \in Clients : u \in Owners(a)' <=> u \in Owners(a)
    BY <1>1, <1>2, <2>1 DEF Owners, Holds, At, Clients
  <2>4. Owners(a)' = Owners(a)
    BY <2>3 DEF Owners
  <2>5. LockOK(a)'
    BY <1>1, <1>2, <2>1, <2>4 DEF LockOK, Holds, At, Clients
  <2>. QED BY <2>2, <2>5, OtherLocks DEF IInv
<1>3. CASE Holds(t, a)
  <2>1. pc' = pc /\ arg' = arg /\ lock' = [lock EXCEPT ![a].repeat = @ + 1]
    BY <1>3 DEF lock_acquire
  <2>2. /\ lock'[a].holder = lock[a].holder /\ lock'[a].sema = lock[a].sema
        /\ lock'[a].repeat = lock[a].repeat + 1 /\ lock[a].repeat \in Nat
        /\ \A l \in LockIds \ {a} : lock'[l] = lock[l]
    BY <1>1, <2>1 DEF LockState
  <2>3. Owners(a)' = Owners(a)
    BY <2>1, <2>2 DEF Owners, Holds, At
  <2>4. t \in Owners(a)
    BY <1>3 DEF Owners
  <2>5. \A u \in Clients : ~At(u, a, {"own", "count", "up"})
    BY <1>1, <1>3, <2>4 DEF LockOK, Owners, At
  <2>6. LockOK(a)'
    BY <1>1, <2>1, <2>2, <2>3, <2>4, <2>5 DEF LockOK, Holds, At
  <2>7. \A l \in LockIds \ {a} : LockOK(l)'
    BY <2>1, <2>2, SameLock, LockOKParts DEF IInv
  <2>8. \A l \in LockIds : LockOK(l)'
    BY <2>6, <2>7
  <2>. QED BY <2>8 DEF LockOK, MutualExclusion, HolderOK
<1>. QED BY <1>2, <1>3

\* sema_down lets one thread through, and only when nobody owns the lock.
LEMMA DownLock ==
  ASSUME IInv, NEW t \in Clients, NEW a \in LockIds, arg[t] = a, sema_down(t)
  PROVE  MutualExclusion' /\ HolderOK'
<1>. DEFINE s == lock[a].sema
<1>1. /\ t \in Threads /\ pc[t] \in {"down", "sleep"} /\ LockOK(a)
      /\ lock[a] \in LockState /\ lock \in [LockIds -> LockState]
      /\ pc \in [Threads -> ClientLabels \cup IdleLabels]
  BY LockOKParts DEF IInv, TypeOK, Clients, sema_down, Running
<1>2. CASE s.value = 0
  <2>1. /\ lock' = [lock EXCEPT ![a].sema = DownWaiters(k, s)]
        /\ pc' = [pc EXCEPT ![t] = "sleep"] /\ arg' = arg
    BY <1>2 DEF sema_down, Goto
  <2>2. /\ lock'[a].holder = lock[a].holder /\ lock'[a].repeat = lock[a].repeat
        /\ lock'[a].sema.value = lock[a].sema.value
        /\ \A l \in LockIds \ {a} : lock'[l] = lock[l]
    BY <1>1, <2>1 DEF LockState, SemaphoreState, DownWaiters
  <2>3. Works(t, a)
    BY <1>1, <2>1, <2>2 DEF Works, Clients
  <2>4. \A u \in Clients : u \in Owners(a)' <=> u \in Owners(a)
    BY <1>1, <2>1, <2>2 DEF Owners, Holds, At, Clients
  <2>5. Owners(a)' = Owners(a)
    BY <2>4 DEF Owners
  <2>6. LockOK(a)'
    BY <1>1, <2>1, <2>2, <2>5 DEF LockOK, Holds, At, Clients
  <2>. QED BY <2>3, <2>6, OtherLocks DEF IInv
<1>3. CASE s.value # 0
  <2>1. /\ lock' = [lock EXCEPT ![a].sema = DownTake(s)]
        /\ pc' = [pc EXCEPT ![t] = "own"] /\ arg' = arg
    BY <1>3 DEF sema_down, Goto
  <2>2. s.value = 1 /\ Owners(a) = {} /\ lock[a].repeat = 0
    BY <1>1, <1>3 DEF LockOK
  <2>3. lock[a].holder = NULL
    BY <1>1, <2>2 DEF Owners, Holds, LockState, LockOK, Clients
  <2>4. /\ lock'[a].holder = NULL /\ lock'[a].repeat = 0 /\ lock'[a].sema.value = 0
        /\ \A l \in LockIds \ {a} : lock'[l] = lock[l]
    BY <1>1, <2>1, <2>2, <2>3 DEF LockState, SemaphoreState, DownTake
  <2>5. Works(t, a)
    BY <1>1, <2>1, <2>4 DEF Works, Clients
  <2>6. \A u \in Clients \ {t} : ~At(u, a, {"own", "count", "clear", "up"})
    BY <2>2 DEF Owners
  <2>7. Owners(a)' = {t}
    BY <1>1, <2>1, <2>4, <2>6, NullAssumption DEF Owners, Holds, At, Clients
  <2>8. \A u \in Clients : ~Holds(u, a)' /\ ~At(u, a, {"count"})'
    BY <1>1, <2>1, <2>4, <2>6, NullAssumption DEF Holds, At, Clients
  <2>9. LockOK(a)'
    BY <2>4, <2>7, <2>8, NullAssumption, ThreadsAssumption DEF LockOK
  <2>. QED BY <2>5, <2>9, OtherLocks DEF IInv
<1>. QED BY <1>2, <1>3

\* The rest of lock_acquire: the owner signs the lock, then counts.
LEMMA SetHolderLock ==
  ASSUME IInv, NEW t \in Clients, NEW a \in LockIds, arg[t] = a, SetHolder(t)
  PROVE  MutualExclusion' /\ HolderOK'
<1>1. /\ t \in Threads /\ pc[t] = "own" /\ LockOK(a) /\ lock[a] \in LockState
      /\ lock \in [LockIds -> LockState]
      /\ pc \in [Threads -> ClientLabels \cup IdleLabels]
      /\ pc' = [pc EXCEPT ![t] = "count"] /\ arg' = arg
      /\ lock' = [lock EXCEPT ![a].holder = t]
  BY LockOKParts DEF IInv, TypeOK, Clients, SetHolder, Running, Goto
<1>2. /\ lock'[a].holder = t /\ lock'[a].repeat = lock[a].repeat
      /\ lock'[a].sema = lock[a].sema
      /\ \A l \in LockIds \ {a} : lock'[l] = lock[l]
  BY <1>1 DEF LockState
<1>3. t \in Owners(a) /\ lock[a].holder = NULL /\ lock[a].repeat = 0
  BY <1>1 DEF Owners, LockOK, At
<1>4. \A u \in Clients \ {t} : ~Holds(u, a) /\ ~At(u, a, {"own", "count", "clear", "up"})
  BY <1>1, <1>3 DEF LockOK, Owners
<1>5. Owners(a)' = {t} /\ Owners(a) = {t}
  BY <1>1, <1>2, <1>3, <1>4 DEF Owners, Holds, At, Clients
<1>6. Works(t, a)
  BY <1>1, <1>2 DEF Works, Clients
<1>7. \A u \in Clients \ {t} : /\ ~Holds(u, a)' /\ ~At(u, a, {"own", "clear", "up"})'
                               /\ ~At(u, a, {"count"})' /\ ~At(u, a, {"own", "count", "up"})'
  BY <1>1, <1>2, <1>4 DEF Holds, At, Clients
<1>8. /\ Holds(t, a)' /\ At(t, a, {"count"})'
      /\ ~At(t, a, {"down", "sleep"})' /\ ~At(t, a, {"own", "clear", "up"})'
  BY <1>1, <1>2 DEF Holds, At
<1>9. LockOK(a)'
  BY <1>1, <1>2, <1>3, <1>5, <1>7, <1>8 DEF LockOK, Clients
<1>. QED BY <1>6, <1>9, OtherLocks DEF IInv

\* holder_repeat_nr = 1 in lock_acquire, by the thread that has just signed the lock.
LEMMA SetRepeatLock ==
  ASSUME IInv, NEW t \in Clients, NEW a \in LockIds, arg[t] = a, SetRepeat(t)
  PROVE  MutualExclusion' /\ HolderOK'
<1>1. /\ t \in Threads /\ pc[t] = "count" /\ LockOK(a) /\ lock[a] \in LockState
      /\ lock \in [LockIds -> LockState]
      /\ pc \in [Threads -> ClientLabels \cup IdleLabels]
      /\ pc' = [pc EXCEPT ![t] = "run"] /\ arg' = arg
      /\ lock' = [lock EXCEPT ![a].repeat = 1]
  BY LockOKParts DEF IInv, TypeOK, Clients, SetRepeat, Running, Goto
<1>2. /\ lock'[a].holder = lock[a].holder /\ lock'[a].repeat = 1
      /\ lock'[a].sema = lock[a].sema
      /\ \A l \in LockIds \ {a} : lock'[l] = lock[l]
  BY <1>1 DEF LockState
<1>3. t \in Owners(a) /\ lock[a].holder = t
  BY <1>1 DEF Owners, LockOK, At, Holds
<1>4. \A u \in Clients \ {t} : ~Holds(u, a) /\ ~At(u, a, {"own", "count", "clear", "up"})
  BY <1>1, <1>3 DEF LockOK, Owners
<1>5. Owners(a)' = {t} /\ Owners(a) = {t}
  BY <1>1, <1>2, <1>3, <1>4 DEF Owners, Holds, At, Clients
<1>6. Works(t, a)
  BY <1>1, <1>2 DEF Works, Clients
<1>7. \A u \in Clients \ {t} : /\ ~Holds(u, a)' /\ ~At(u, a, {"own", "clear", "up"})'
                               /\ ~At(u, a, {"count"})' /\ ~At(u, a, {"own", "count", "up"})'
  BY <1>1, <1>2, <1>4 DEF Holds, At, Clients
<1>8. pc'[t] = "run"
  BY <1>1
<1>9. LockOK(a)'
  BY <1>1, <1>2, <1>3, <1>5, <1>7, <1>8 DEF LockOK, Clients, At
<1>. QED BY <1>6, <1>9, OtherLocks DEF IInv

\* lock_release: inner releases count down, the outermost one clears the
\* holder while the releasing thread still owns the lock.
LEMMA ReleaseLock ==
  ASSUME IInv, NEW t \in Clients, NEW a \in LockIds, lock_release(t, a)
  PROVE  MutualExclusion' /\ HolderOK'
<1>1. /\ t \in Threads /\ pc[t] = "run" /\ LockOK(a) /\ lock[a].holder = t
      /\ lock[a] \in LockState /\ lock \in [LockIds -> LockState]
      /\ pc \in [Threads -> ClientLabels \cup IdleLabels]
      /\ arg \in [Threads -> LockIds \cup {NULL}] /\ lock[a].repeat \in Nat
  BY LockOKParts DEF IInv, TypeOK, Clients, lock_release, Running, Holds, LockState
<1>2. t \in Owners(a)
  BY <1>1 DEF Owners, Holds
<1>3. \A u \in Clients \ {t} : ~Holds(u, a) /\ ~At(u, a, {"own", "count", "clear", "up"})
  BY <1>1, <1>2 DEF LockOK, Owners
<1>4. CASE lock[a].repeat > 1
  <2>1. pc' = pc /\ arg' = arg /\ lock' = [lock EXCEPT ![a].repeat = @ - 1]
    BY <1>4 DEF lock_release
  <2>2. /\ lock'[a].holder = lock[a].holder /\ lock'[a].sema = lock[a].sema
        /\ lock'[a].repeat = lock[a].repeat - 1
        /\ \A l \in LockIds \ {a} : lock'[l] = lock[l]
    BY <1>1, <2>1 DEF LockState
  <2>3. Owners(a)' = Owners(a)
    BY <2>1, <2>2 DEF Owners, Holds, At
  <2>4. \A u \in Clients : ~At(u, a, {"own", "count", "up"})
    BY <1>1, <1>3 DEF At
  <2>5. LockOK(a)'
    BY <1>1, <1>2, <1>4, <2>1, <2>2, <2>3, <2>4 DEF LockOK, Holds, At
  <2>6. \A l \in LockIds \ {a} : LockOK(l)'
    BY <2>1, <2>2, SameLock, LockOKParts DEF IInv
  <2>7. \A l \in LockIds : LockOK(l)'
    BY <2>5, <2>6
  <2>. QED BY <2>7 DEF LockOK, MutualExclusion, HolderOK
<1>5. CASE ~(lock[a].repeat > 1)
  <2>1. /\ pc' = [pc EXCEPT ![t] = "clear"] /\ arg' = [arg EXCEPT ![t] = a]
        /\ lock' = [lock EXCEPT ![a].holder = NULL]
    BY <1>5 DEF lock_release, Goto
  <2>2. /\ lock'[a].holder = NULL /\ lock'[a].repeat = lock[a].repeat
        /\ lock'[a].sema = lock[a].sema
        /\ \A l \in LockIds \ {a} : lock'[l] = lock[l]
    BY <1>1, <2>1 DEF LockState
  <2>3. pc'[t] = "clear" /\ arg'[t] = a
    BY <1>1, <2>1
  <2>4. \A u \in Clients : ~Holds(u, a)' /\ ~At(u, a, {"count"})' /\ ~At(u, a, {"own", "count", "up"})'
    BY <1>1, <1>3, <2>1, <2>2, NullAssumption DEF Holds, At, Clients
  <2>5. Owners(a)' = {t} /\ Owners(a) = {t}
    BY <1>1, <1>2, <1>3, <2>1, <2>2, <2>3, NullAssumption DEF Owners, Holds, At, Clients
  <2>6. Works(t, a)
    BY <1>1, <2>1, <2>2 DEF Works, Clients
  <2>7. LockOK(a)'
    BY <1>1, <2>2, <2>4, <2>5, NullAssumption, ThreadsAssumption DEF LockOK
  <2>. QED BY <2>6, <2>7, OtherLocks DEF IInv
<1>. QED BY <1>4, <1>5

\* holder_repeat_nr = 0 in lock_release, while its thread still owns the lock.
LEMMA ClearRepeatLock ==
  ASSUME IInv, NEW t \in Clients, NEW a \in LockIds, arg[t] = a, ClearRepeat(t)
  PROVE  MutualExclusion' /\ HolderOK'
<1>1. /\ t \in Threads /\ pc[t] = "clear" /\ LockOK(a) /\ lock[a] \in LockState
      /\ lock \in [LockIds -> LockState]
      /\ pc \in [Threads -> ClientLabels \cup IdleLabels]
      /\ pc' = [pc EXCEPT ![t] = "up"] /\ arg' = arg
      /\ lock' = [lock EXCEPT ![a].repeat = 0]
  BY LockOKParts DEF IInv, TypeOK, Clients, ClearRepeat, Running, Goto
<1>2. /\ lock'[a].holder = lock[a].holder /\ lock'[a].repeat = 0
      /\ lock'[a].sema = lock[a].sema
      /\ \A l \in LockIds \ {a} : lock'[l] = lock[l]
  BY <1>1 DEF LockState
<1>3. t \in Owners(a) /\ lock[a].holder = NULL
  BY <1>1 DEF Owners, LockOK, At
<1>4. \A u \in Clients \ {t} : ~At(u, a, {"own", "count", "clear", "up"})
  BY <1>1, <1>3 DEF LockOK, Owners
<1>5. Owners(a)' = {t} /\ Owners(a) = {t}
  BY <1>1, <1>2, <1>3, <1>4, NullAssumption DEF Owners, Holds, At, Clients
<1>6. Works(t, a)
  BY <1>1, <1>2 DEF Works, Clients
<1>7. \A u \in Clients : ~Holds(u, a)' /\ ~At(u, a, {"count"})'
  BY <1>1, <1>2, <1>3, <1>4, NullAssumption DEF Holds, At, Clients
<1>8. LockOK(a)'
  BY <1>1, <1>2, <1>3, <1>5, <1>7, NullAssumption, ThreadsAssumption DEF LockOK
<1>. QED BY <1>6, <1>8, OtherLocks DEF IInv

\* sema_up: the lock is free once its owner has left.
LEMMA UpLock ==
  ASSUME IInv, NEW t \in Clients, NEW a \in LockIds, arg[t] = a, sema_up(t)
  PROVE  MutualExclusion' /\ HolderOK'
<1>1. /\ t \in Threads /\ pc[t] = "up" /\ LockOK(a) /\ lock[a] \in LockState
      /\ lock \in [LockIds -> LockState]
      /\ pc \in [Threads -> ClientLabels \cup IdleLabels]
      /\ pc' = [pc EXCEPT ![t] = "run"] /\ arg' = arg
      /\ lock' = [lock EXCEPT ![a].sema = Up(lock[a].sema)]
  BY LockOKParts DEF IInv, TypeOK, Clients, sema_up, Running, Goto
<1>2. t \in Owners(a) /\ lock[a].holder = NULL /\ lock[a].repeat = 0
  BY <1>1 DEF Owners, LockOK, At
<1>3. lock[a].sema.value = 0
  BY <1>1, <1>2 DEF LockOK
<1>4. /\ lock'[a].holder = NULL /\ lock'[a].repeat = 0 /\ lock'[a].sema.value = 1
      /\ \A l \in LockIds \ {a} : lock'[l] = lock[l]
  BY <1>1, <1>2, <1>3 DEF LockState, SemaphoreState, Up
<1>5. \A u \in Clients \ {t} : ~At(u, a, {"own", "count", "clear", "up"})
  BY <1>1, <1>2 DEF LockOK, Owners
<1>6. Owners(a)' = {}
  BY <1>1, <1>4, <1>5, NullAssumption DEF Owners, Holds, At, Clients
<1>7. Works(t, a)
  BY <1>1, <1>4 DEF Works, Clients
<1>8. \A u \in Clients : ~Holds(u, a)' /\ ~At(u, a, {"count"})'
  BY <1>1, <1>4, <1>5, NullAssumption DEF Holds, At, Clients
<1>9. LockOK(a)'
  BY <1>4, <1>6, <1>8, NullAssumption, ThreadsAssumption DEF LockOK
<1>. QED BY <1>7, <1>9, OtherLocks DEF IInv

-----------------------------------------------------------------------------
\* Wake-ups.

\* A thread that is on its way to test a semaphore stays on its way while
\* others step.
LEMMA SameWake ==
  ASSUME IInv, NEW t, t \in Clients => pc[t] # "sleep",
         \A u \in Clients \ {t} : pc'[u] = pc[u] /\ arg'[u] = arg[u],
         \A u \in Clients : k.status[u] \in Runnable => k'.status[u] \in Runnable,
         \A l \in LockIds : lock'[l].sema = lock[l].sema
  PROVE  NoLostWakeup'
BY DEF IInv, NoLostWakeup, Runnable

\* sema_down: whoever takes or queues on lock a leaves it with value 0.
LEMMA DownWake ==
  ASSUME IInv, NEW t \in Clients, NEW a \in LockIds, arg[t] = a,
         \A u \in Clients \ {t} : pc'[u] = pc[u] /\ arg'[u] = arg[u],
         SameRunnable(k, k', Clients \ {t}),
         lock'[a].sema.value = 0,
         \A l \in LockIds \ {a} : lock'[l] = lock[l]
  PROVE  NoLostWakeup'
BY DEF IInv, NoLostWakeup, SameRunnable, Runnable

\* sema_up: the waiter it wakes is the one that is on its way.
LEMMA UpWakes ==
  ASSUME IInv, NEW t \in Clients, NEW a \in LockIds, arg[t] = a, sema_up(t)
  PROVE  NoLostWakeup'
<1>1. /\ t \in Threads /\ pc[t] = "up" /\ arg' = arg
      /\ \A u \in Clients \ {t} : pc'[u] = pc[u]
      /\ lock[a].sema \in SemaphoreState
      /\ lock'[a].sema = Up(lock[a].sema)
      /\ \A l \in LockIds \ {a} : lock'[l] = lock[l]
  BY DEF IInv, TypeOK, Clients, sema_up, Running, Goto, LockState
<1>2. /\ \A u \in Clients : k.status[u] \in Runnable => k'.status[u] \in Runnable
      /\ lock[a].sema.waiters # << >> =>
           \E h \in Clients : /\ h # t /\ arg[h] = a /\ pc[h] = "sleep"
                              /\ k'.status[h] = "TASK_READY"
  BY UpLists
<1>3. lock[a].sema.waiters = << >> => lock'[a].sema.waiters = << >>
  BY <1>1 DEF Up, SemaphoreState
<1>4. ASSUME NEW l \in LockIds, lock'[l].sema.value = 1, lock'[l].sema.waiters # << >>
      PROVE  \E u \in Clients : /\ arg'[u] = l /\ pc'[u] = "sleep"
                                /\ k'.status[u] \in {"TASK_READY", "TASK_RUNNING"}
  <2>1. CASE l = a
    BY <1>1, <1>2, <1>3, <1>4, <2>1
  <2>2. CASE l # a
    <3>1. PICK u \in Clients : /\ arg[u] = l /\ pc[u] = "sleep"
                               /\ k.status[u] \in {"TASK_READY", "TASK_RUNNING"}
      BY <1>1, <1>4, <2>2 DEF IInv, NoLostWakeup
    <3>. QED BY <1>1, <1>2, <3>1 DEF Runnable
  <2>. QED BY <2>1, <2>2
<1>. QED BY <1>4 DEF NoLostWakeup

-----------------------------------------------------------------------------
\* One lemma per action: the whole invariant.

\* What the invariant says of the scheduler and the locks stays true while
\* neither they nor the threads' positions change.
LEMMA SameState ==
  ASSUME IInv, k' = k, lock' = lock, pc' = pc, arg' = arg
  PROVE  OneList' /\ MutualExclusion' /\ HolderOK' /\ NoLostWakeup'
<1>1. OneList'
  BY DEF IInv, OneList
<1>2. /\ \A l \in LockIds : Owners(l)' = Owners(l)
      /\ \A t \in Clients, l \in LockIds : Holds(t, l)' = Holds(t, l)
  BY DEF Owners, Holds, At
<1>3. MutualExclusion'
  BY <1>2 DEF IInv, MutualExclusion
<1>4. HolderOK'
  BY <1>2 DEF IInv, HolderOK, At
<1>5. NoLostWakeup'
  BY DEF IInv, NoLostWakeup
<1>. QED BY <1>1, <1>3, <1>4, <1>5

\* Steps that touch neither the scheduler nor a lock.
LEMMA SyscallIInv ==
  ASSUME IInv, NEW t \in Clients, Syscall(t) \/ SyscallReturn(t)
  PROVE  IInv'
<1>1. k' = k /\ lock' = lock /\ pc' = pc /\ arg' = arg
  BY DEF Syscall, SyscallReturn
<1>2. intr' \in [Threads -> BOOLEAN]
  BY DEF Syscall, SyscallReturn, IInv, TypeOK, Clients
<1>3. TypeOK'
  BY <1>1, <1>2 DEF IInv, TypeOK
<1>4. OneList' /\ MutualExclusion' /\ HolderOK' /\ NoLostWakeup'
  BY <1>1, SameState
<1>. QED BY <1>3, <1>4 DEF IInv

\* Steps of idle, of the clock and of a yielding thread: only the scheduler
\* state changes, and the program counter of idle.
LEMMA SchedulerIInv ==
  ASSUME IInv, RunQueueOK(k'), SameRunnable(k, k', Clients),
         lock' = lock, arg' = arg, intr' = intr,
         pc' \in [Threads -> ClientLabels \cup IdleLabels],
         pc'[Idle] \in IdleLabels, \A u \in Clients : pc'[u] = pc[u]
  PROVE  IInv'
<1>1. TypeOK'
  BY ThreadsAssumption DEF IInv, TypeOK, RunQueueOK, Clients
<1>2. Idle \in Threads /\ Idle \notin Clients
  BY ThreadsAssumption DEF Clients
<1>3. OneList'
  BY <1>2, SameLists
<1>4. NoLostWakeup'
  BY <1>2, SameWake DEF SameRunnable
<1>5. \A l \in LockIds : LockOK(l)'
  BY SameLock, LockOKParts DEF IInv
<1>6. MutualExclusion' /\ HolderOK'
  BY <1>5 DEF LockOK, MutualExclusion, HolderOK
<1>. QED BY <1>1, <1>3, <1>4, <1>6 DEF IInv

\* thread_yield touches the run queue only.
LEMMA YieldIInv ==
  ASSUME IInv, NEW t \in Clients, Yield(t)
  PROVE  IInv'
<1>1. RunQueueOK(k') /\ SameRunnable(k, k', Clients)
  BY RunningThread, YieldOK DEF Yield, Clients
<1>. QED BY <1>1, SchedulerIInv, ThreadsAssumption DEF Yield, IInv, TypeOK

\* So do the steps of the idle thread.
LEMMA IdleIInv ==
  ASSUME IInv, IdleStep
  PROVE  IInv'
<1>1. RunQueueOK(k') /\ SameRunnable(k, k', Clients)
  <2>1. CASE IdleBlock
    <3>1. /\ k.cur = Idle /\ "TASK_BLOCKED" \in Blocked
          /\ k' = thread_block(k, "TASK_BLOCKED") /\ RunQueueOK(k)
      BY <2>1, RunningThread DEF IdleBlock, Running, Blocked
    <3>. QED BY <3>1, BlockOK DEF Clients
  <2>2. CASE IdleHalt
    BY <2>2, SameScheduler DEF IdleHalt
  <2>. QED BY <2>1, <2>2 DEF IdleStep
<1>2. /\ pc' \in [Threads -> ClientLabels \cup IdleLabels]
      /\ pc'[Idle] \in IdleLabels /\ \A u \in Clients : pc'[u] = pc[u]
  BY ThreadsAssumption DEF IdleStep, IdleBlock, IdleHalt, Goto, IInv, TypeOK, IdleLabels, Clients
<1>. QED BY <1>1, <1>2, SchedulerIInv DEF IdleStep

\* And the clock interrupt, which ends a hlt.
LEMMA TimerIInv ==
  ASSUME IInv, Timer
  PROVE  IInv'
<1>1. RunQueueOK(k') /\ SameRunnable(k, k', Clients)
  BY RunningThread, TimerOK DEF Timer, ClockInterrupt, Clients
<1>2. /\ pc' \in [Threads -> ClientLabels \cup IdleLabels]
      /\ pc'[Idle] \in IdleLabels /\ \A u \in Clients : pc'[u] = pc[u]
  BY RunningThread, ThreadsAssumption
     DEF Timer, ClockInterrupt, EndHalt, IInv, TypeOK, IdleLabels, ClientLabels, Clients
<1>. QED BY <1>1, <1>2, SchedulerIInv DEF Timer

\* Where a step of client t leaves the program counters and the types.
LEMMA ClientTypes ==
  ASSUME IInv, NEW t \in Clients, NEW label \in ClientLabels, NEW b \in LockIds \cup {NULL},
         pc' = [pc EXCEPT ![t] = label], arg' = [arg EXCEPT ![t] = b], intr' = intr,
         label # "run" => b \in LockIds,
         RunQueueOK(k'), lock' \in [LockIds -> LockState]
  PROVE  TypeOK'
<1>1. \A u \in Threads : /\ pc'[u] = IF u = t THEN label ELSE pc[u]
                         /\ arg'[u] = IF u = t THEN b ELSE arg[u]
  BY DEF IInv, TypeOK, Clients
<1>2. label \notin IdleLabels /\ t # Idle
  BY DEF ClientLabels, IdleLabels, Clients
<1>. QED BY <1>1, <1>2 DEF IInv, TypeOK, RunQueueOK, Clients

\* Steps of lock_acquire and lock_release outside the semaphore: they touch
\* the holder or the count of one lock, and never the scheduler.
LEMMA QuietIInv ==
  ASSUME IInv, NEW t \in Clients, k' = k, k.cur = t, pc[t] # "sleep",
         \A u \in Clients \ {t} : pc'[u] = pc[u] /\ arg'[u] = arg[u],
         \A l \in LockIds : lock'[l].sema = lock[l].sema,
         TypeOK', MutualExclusion', HolderOK'
  PROVE  IInv'
<1>1. RunQueueOK(k') /\ SameRunnable(k, k', Clients)
  BY SameScheduler
<1>2. t \in Threads /\ k.status[t] # "TASK_BLOCKED"
  BY RunningThread
<1>3. OneList'
  BY <1>1, <1>2, SameLists
<1>4. NoLostWakeup'
  BY SameWake
<1>. QED BY <1>3, <1>4 DEF IInv

\* lock_acquire up to sema_down.
LEMMA AcquireIInv ==
  ASSUME IInv, NEW t \in Clients, NEW a \in LockIds, lock_acquire(t, a)
  PROVE  IInv'
<1>1. /\ k' = k /\ k.cur = t /\ pc[t] = "run" /\ intr' = intr /\ t \in Threads
      /\ lock \in [LockIds -> LockState] /\ RunQueueOK(k')
  BY RunningThread DEF lock_acquire, Running, IInv, TypeOK, Clients
<1>2. \A u \in Clients \ {t} : pc'[u] = pc[u] /\ arg'[u] = arg[u]
  BY DEF lock_acquire, Goto, IInv, TypeOK, Clients
<1>3. lock' \in [LockIds -> LockState] /\ \A l \in LockIds : lock'[l].sema = lock[l].sema
  BY <1>1 DEF lock_acquire, LockState
<1>4. TypeOK'
  <2>1. CASE Holds(t, a)
    BY <1>1, <1>3, <2>1 DEF lock_acquire, IInv, TypeOK, RunQueueOK
  <2>2. CASE ~Holds(t, a)
    <3>1. pc' = [pc EXCEPT ![t] = "down"] /\ arg' = [arg EXCEPT ![t] = a]
      BY <2>2 DEF lock_acquire, Goto
    <3>2. "down" \in ClientLabels
      BY DEF ClientLabels
    <3>. QED BY <1>1, <1>3, <3>1, <3>2, ClientTypes
  <2>. QED BY <2>1, <2>2
<1>. QED BY <1>1, <1>2, <1>3, <1>4, AcquireLock, QuietIInv

\* holder = running_thread() in lock_acquire.
LEMMA SetHolderIInv ==
  ASSUME IInv, NEW t \in Clients, NEW a \in LockIds, arg[t] = a, SetHolder(t)
  PROVE  IInv'
<1>1. /\ k' = k /\ k.cur = t /\ pc[t] = "own" /\ intr' = intr /\ t \in Threads
      /\ lock \in [LockIds -> LockState] /\ RunQueueOK(k')
      /\ pc' = [pc EXCEPT ![t] = "count"] /\ arg' = [arg EXCEPT ![t] = a]
      /\ lock' = [lock EXCEPT ![a].holder = t] /\ "count" \in ClientLabels
  BY RunningThread DEF SetHolder, Running, Goto, IInv, TypeOK, Clients, ClientLabels
<1>2. \A u \in Clients \ {t} : pc'[u] = pc[u] /\ arg'[u] = arg[u]
  BY <1>1 DEF IInv, TypeOK, Clients
<1>3. lock' \in [LockIds -> LockState] /\ \A l \in LockIds : lock'[l].sema = lock[l].sema
  BY <1>1 DEF LockState
<1>4. TypeOK'
  BY <1>1, <1>3, ClientTypes
<1>. QED BY <1>1, <1>2, <1>3, <1>4, SetHolderLock, QuietIInv

\* holder_repeat_nr = 1 in lock_acquire, whose ASSERT does not fire.
LEMMA SetRepeatIInv ==
  ASSUME IInv, NEW t \in Clients, NEW a \in LockIds, arg[t] = a, SetRepeat(t)
  PROVE  IInv'
<1>0. lock[a].repeat = 0
  BY DEF SetRepeat, Running, IInv, HolderOK, At
<1>1. /\ k' = k /\ k.cur = t /\ pc[t] = "count" /\ intr' = intr /\ t \in Threads
      /\ lock \in [LockIds -> LockState] /\ RunQueueOK(k')
      /\ pc' = [pc EXCEPT ![t] = "run"] /\ arg' = [arg EXCEPT ![t] = a]
      /\ lock' = [lock EXCEPT ![a].repeat = 1] /\ "run" \in ClientLabels
  BY <1>0, RunningThread
     DEF SetRepeat, Assert, Running, Goto, IInv, TypeOK, Clients, ClientLabels
<1>2. \A u \in Clients \ {t} : pc'[u] = pc[u] /\ arg'[u] = arg[u]
  BY <1>1 DEF IInv, TypeOK, Clients
<1>3. lock' \in [LockIds -> LockState] /\ \A l \in LockIds : lock'[l].sema = lock[l].sema
  BY <1>1 DEF LockState
<1>4. TypeOK'
  BY <1>1, <1>3, ClientTypes
<1>. QED BY <1>1, <1>2, <1>3, <1>4, SetRepeatLock, QuietIInv

\* lock_release up to clearing the holder, whose ASSERT does not fire.
LEMMA ReleaseIInv ==
  ASSUME IInv, NEW t \in Clients, NEW a \in LockIds, lock_release(t, a)
  PROVE  IInv'
<1>1. /\ k.cur = t /\ pc[t] = "run" /\ intr' = intr /\ t \in Threads
      /\ lock \in [LockIds -> LockState] /\ lock[a].repeat \in Nat
      /\ lock[a].repeat >= 1
  BY DEF lock_release, Running, IInv, TypeOK, HolderOK, Holds, At, Clients, LockState
<1>2. k' = k /\ RunQueueOK(k')
  BY <1>1, RunningThread DEF lock_release, Assert
<1>3. \A u \in Clients \ {t} : pc'[u] = pc[u] /\ arg'[u] = arg[u]
  BY DEF lock_release, Goto, IInv, TypeOK, Clients
<1>4. lock' \in [LockIds -> LockState] /\ \A l \in LockIds : lock'[l].sema = lock[l].sema
  <2>1. CASE lock[a].repeat > 1
    <3>1. lock' = [lock EXCEPT ![a].repeat = @ - 1] /\ lock[a].repeat - 1 \in Nat
      BY <1>1, <2>1 DEF lock_release
    <3>. QED BY <1>1, <3>1 DEF LockState
  <2>2. CASE ~(lock[a].repeat > 1)
    <3>1. lock' = [lock EXCEPT ![a].holder = NULL]
      BY <2>2 DEF lock_release
    <3>. QED BY <1>1, <3>1 DEF LockState
  <2>. QED BY <2>1, <2>2
<1>5. TypeOK'
  <2>1. CASE lock[a].repeat > 1
    BY <1>1, <1>2, <1>4, <2>1 DEF lock_release, IInv, TypeOK, RunQueueOK
  <2>2. CASE ~(lock[a].repeat > 1)
    <3>1. pc' = [pc EXCEPT ![t] = "clear"] /\ arg' = [arg EXCEPT ![t] = a]
      BY <2>2 DEF lock_release, Goto
    <3>2. "clear" \in ClientLabels
      BY DEF ClientLabels
    <3>. QED BY <1>1, <1>2, <1>4, <3>1, <3>2, ClientTypes
  <2>. QED BY <2>1, <2>2
<1>. QED BY <1>1, <1>2, <1>3, <1>4, <1>5, ReleaseLock, QuietIInv

\* holder_repeat_nr = 0 in lock_release.
LEMMA ClearRepeatIInv ==
  ASSUME IInv, NEW t \in Clients, NEW a \in LockIds, arg[t] = a, ClearRepeat(t)
  PROVE  IInv'
<1>1. /\ k' = k /\ k.cur = t /\ pc[t] = "clear" /\ intr' = intr /\ t \in Threads
      /\ lock \in [LockIds -> LockState] /\ RunQueueOK(k')
      /\ pc' = [pc EXCEPT ![t] = "up"] /\ arg' = [arg EXCEPT ![t] = a]
      /\ lock' = [lock EXCEPT ![a].repeat = 0] /\ "up" \in ClientLabels
  BY RunningThread DEF ClearRepeat, Running, Goto, IInv, TypeOK, Clients, ClientLabels
<1>2. \A u \in Clients \ {t} : pc'[u] = pc[u] /\ arg'[u] = arg[u]
  BY <1>1 DEF IInv, TypeOK, Clients
<1>3. lock' \in [LockIds -> LockState] /\ \A l \in LockIds : lock'[l].sema = lock[l].sema
  BY <1>1 DEF LockState
<1>4. TypeOK'
  BY <1>1, <1>3, ClientTypes
<1>. QED BY <1>1, <1>2, <1>3, <1>4, ClearRepeatLock, QuietIInv

\* The semaphore of one lock changes.
LEMMA SemaUpdate ==
  ASSUME NEW f \in [LockIds -> LockState], NEW a \in LockIds, NEW v \in SemaphoreState,
         NEW g, g = [f EXCEPT ![a].sema = v]
  PROVE  /\ g \in [LockIds -> LockState]
         /\ g[a].sema = v
         /\ \A l \in LockIds \ {a} : g[l] = f[l]
BY DEF LockState

\* One test of the loop of sema_down.
LEMMA DownIInv ==
  ASSUME IInv, NEW t \in Clients, NEW a \in LockIds, arg[t] = a, sema_down(t)
  PROVE  IInv'
<1>. DEFINE s == lock[a].sema
<1>1. /\ k.cur = t /\ intr' = intr /\ arg' = arg /\ t \in Threads
      /\ k.status[t] = "TASK_RUNNING" /\ RunQueueOK(k)
      /\ pc[t] \in {"down", "sleep"} /\ lock \in [LockIds -> LockState]
      /\ Running(t, "down") \/ Running(t, "sleep")
      /\ arg' = [arg EXCEPT ![t] = a]
      /\ s \in SemaphoreState /\ s.waiters \in Seq(Threads) /\ s.value \in Nat
  BY RunningThread DEF sema_down, Running, IInv, TypeOK, Clients, LockState, SemaphoreState
<1>2. MutualExclusion' /\ HolderOK'
  BY DownLock
<1>3. \A u \in Clients \ {t} : pc'[u] = pc[u] /\ arg'[u] = arg[u]
  BY <1>1 DEF sema_down, Goto, IInv, TypeOK, Clients
<1>4. CASE s.value = 0
  <2>. DEFINE v == [s EXCEPT !.waiters = Append(s.waiters, t)]
  <2>1. OneList' /\ SameRunnable(k, k', Clients \ {t})
    BY <1>1, <1>4, DownBlockLists
  <2>2. /\ lock' = [lock EXCEPT ![a].sema = v]
        /\ pc' = [pc EXCEPT ![t] = "sleep"] /\ "sleep" \in ClientLabels
    BY <1>1, <1>4 DEF sema_down, DownWaiters, Goto, ClientLabels
  <2>3. v \in SemaphoreState /\ v.value = 0
    BY <1>1, <1>4, SemaTypes DEF SemaphoreState
  <2>. HIDE DEF s, v
  <2>4. /\ lock' \in [LockIds -> LockState] /\ lock'[a].sema = v
        /\ \A l \in LockIds \ {a} : lock'[l] = lock[l]
    BY <1>1, <2>2, <2>3, SemaUpdate
  <2>5. lock'[a].sema.value = 0
    BY <2>3, <2>4
  <2>6. RunQueueOK(k')
    BY <2>1 DEF OneList
  <2>7. TypeOK'
    BY <1>1, <2>2, <2>4, <2>6, ClientTypes
  <2>8. NoLostWakeup'
    BY <1>1, <1>3, <2>1, <2>4, <2>5, DownWake
  <2>. QED BY <1>2, <2>1, <2>7, <2>8 DEF IInv
<1>5. CASE s.value # 0
  <2>1. s.value = 1
    BY <1>5 DEF IInv, MutualExclusion
  <2>2. k' = k
    BY <1>5, <2>1 DEF sema_down, DownTaken, Assert
  <2>3. /\ lock' = [lock EXCEPT ![a].sema = [s EXCEPT !.value = 0]]
        /\ pc' = [pc EXCEPT ![t] = "own"] /\ "own" \in ClientLabels
    BY <1>5, <2>1 DEF sema_down, DownTake, Goto, ClientLabels
  <2>4. [s EXCEPT !.value = 0] \in SemaphoreState
    BY <1>1, SemaTypes
  <2>5a. /\ lock' \in [LockIds -> LockState] /\ lock'[a].sema = [s EXCEPT !.value = 0]
         /\ \A l \in LockIds \ {a} : lock'[l] = lock[l]
    BY <1>1, <2>3, <2>4, SemaUpdate
  <2>5b. lock'[a].sema.value = 0 /\ lock'[a].sema.waiters = s.waiters
    BY <1>1, <2>5a DEF SemaphoreState
  <2>5. \A l \in LockIds : lock'[l].sema.waiters = lock[l].sema.waiters
    BY <2>5a, <2>5b
  <2>6. RunQueueOK(k') /\ SameRunnable(k, k', Clients)
    BY <2>2, SameScheduler
  <2>7. TypeOK'
    BY <1>1, <2>3, <2>5a, <2>6, ClientTypes
  <2>7a. SameRunnable(k, k', Clients \ {t})
    BY <2>6 DEF SameRunnable
  <2>8. NoLostWakeup'
    BY <1>1, <1>3, <2>5a, <2>5b, <2>7a, DownWake
  <2>9. OneList'
    BY <1>1, <1>3, <2>5, <2>6, SameLists
  <2>. QED BY <1>2, <2>7, <2>8, <2>9 DEF IInv
<1>. QED BY <1>4, <1>5

\* sema_up.
LEMMA UpIInv ==
  ASSUME IInv, NEW t \in Clients, NEW a \in LockIds, arg[t] = a, sema_up(t)
  PROVE  IInv'
<1>. DEFINE s == lock[a].sema
<1>1. /\ intr' = intr /\ t \in Threads /\ lock \in [LockIds -> LockState]
      /\ arg' = [arg EXCEPT ![t] = a] /\ pc' = [pc EXCEPT ![t] = "run"]
      /\ "run" \in ClientLabels /\ lock' = [lock EXCEPT ![a].sema = Up(s)]
      /\ s \in SemaphoreState /\ s.waiters \in Seq(Threads) /\ s.value \in Nat
  BY DEF sema_up, Goto, IInv, TypeOK, Clients, ClientLabels, LockState, SemaphoreState
<1>2. Up(s) \in SemaphoreState
  BY <1>1, SemaTypes
<1>3. lock' \in [LockIds -> LockState]
  BY <1>1, <1>2, SemaUpdate
<1>4. OneList' /\ RunQueueOK(k')
  BY UpLists DEF OneList
<1>5. TypeOK'
  BY <1>1, <1>3, <1>4, ClientTypes
<1>. QED BY <1>4, <1>5, UpLock, UpWakes DEF IInv

\* Every step of every thread, of idle and of the clock keeps the invariant.
LEMMA NextIInv ==
  ASSUME IInv, [Next]_vars
  PROVE  IInv'
<1>1. CASE UNCHANGED vars
  <2>1. k' = k /\ lock' = lock /\ pc' = pc /\ arg' = arg /\ intr' = intr
    BY <1>1 DEF vars
  <2>2. TypeOK'
    BY <2>1 DEF IInv, TypeOK
  <2>. QED BY <2>1, <2>2, SameState DEF IInv
<1>2. ASSUME NEW t \in Clients, ClientStep(t) PROVE IInv'
  <2>1. CASE Syscall(t) \/ SyscallReturn(t)
    BY <2>1, SyscallIInv
  <2>2. CASE Yield(t)
    BY <2>2, YieldIInv
  <2>3. ASSUME NEW l \in LockIds, lock_acquire(t, l) \/ lock_release(t, l) PROVE IInv'
    BY <2>3, AcquireIInv, ReleaseIInv
  <2>4. CASE sema_down(t) \/ SetHolder(t) \/ SetRepeat(t) \/ ClearRepeat(t) \/ sema_up(t)
    <3>1. pc[t] # "run"
      BY <2>4 DEF sema_down, SetHolder, SetRepeat, ClearRepeat, sema_up, Running
    <3>2. arg[t] \in LockIds
      BY <3>1 DEF IInv, TypeOK
    <3>. QED BY <2>4, <3>2, DownIInv, SetHolderIInv, SetRepeatIInv, ClearRepeatIInv, UpIInv
  <2>. QED BY <1>2, <2>1, <2>2, <2>3, <2>4 DEF ClientStep
<1>3. CASE IdleStep
  BY <1>3, IdleIInv
<1>4. CASE Timer
  BY <1>4, TimerIInv
<1>. QED BY <1>1, <1>2, <1>3, <1>4 DEF Next

-----------------------------------------------------------------------------

\* The inductive invariant of the locks: it holds after boot and every step
\* keeps it, for any number of threads and locks.
THEOREM Invariance == Spec => []IInv
<1>1. Init => IInv
  BY InitIInv
<1>2. IInv /\ [Next]_vars => IInv'
  BY NextIInv
<1>. QED BY <1>1, <1>2, PTL DEF Spec

\* Every field of every lock, task_struct and list keeps its type.
THEOREM TypeCorrect == Spec => []TypeOK
<1>1. IInv => TypeOK
  BY DEF IInv
<1>. QED BY <1>1, Invariance, PTL

\* No ASSERT of thread.c or sync.c ever fires.
THEOREM NeverPanics == Spec => []NoPanic
<1>1. IInv => NoPanic
  BY DEF IInv, OneList, RunQueueOK, NoPanic
<1>. QED BY <1>1, Invariance, PTL

\* No thread is ever linked into two lists, or twice into one.
THEOREM ListsDisjoint == Spec => []OneList
<1>1. IInv => OneList
  BY DEF IInv
<1>. QED BY <1>1, Invariance, PTL

\* At most one thread is between lock_acquire and lock_release of a lock,
\* and the semaphore says whether there is one.
THEOREM LocksExclude == Spec => []MutualExclusion
<1>1. IInv => MutualExclusion
  BY DEF IInv
<1>. QED BY <1>1, Invariance, PTL

\* The holder and the count of a lock describe its owner at every statement
\* of lock_acquire and lock_release.
THEOREM HolderDescribesOwner == Spec => []HolderOK
<1>1. IInv => HolderOK
  BY DEF IInv
<1>. QED BY <1>1, Invariance, PTL

\* A free lock with waiters always has a thread on its way to take it.
THEOREM WakeupsArrive == Spec => []NoLostWakeup
<1>1. IInv => NoLostWakeup
  BY DEF IInv
<1>. QED BY <1>1, Invariance, PTL

-----------------------------------------------------------------------------
\* The locks implement the abstract Mutex.

Using == {"own", "count", "clear"}

\* lock_release clears the holder of a lock that is counted once.
ClearOnce ==
  \A t \in Clients, l \in LockIds : At(t, l, {"clear"}) => lock[l].repeat = 1

\* What happens to a thread that is not in lock_release, and to a lock that it
\* does not own, keeps the count of the one that is.
LEMMA ClearOnceKept ==
  ASSUME IInv, ClearOnce, NEW t \in Threads, NEW a \in LockIds,
         \A u \in Clients \ {t} : pc'[u] = pc[u] /\ arg'[u] = arg[u],
         \A l \in LockIds \ {a} : lock'[l].repeat = lock[l].repeat,
         t \in Clients => pc'[t] # "clear",
         lock'[a].repeat = lock[a].repeat \/ t \in Owners(a)
  PROVE  ClearOnce'
<1>. SUFFICES ASSUME NEW u \in Clients, NEW l \in LockIds, arg'[u] = l, pc'[u] = "clear"
              PROVE  lock'[l].repeat = 1
  BY DEF ClearOnce, At
<1>1. u # t /\ pc[u] = "clear" /\ arg[u] = l
  OBVIOUS
<1>2. lock[l].repeat = 1 /\ u \in Owners(l)
  BY <1>1, OwnersMember DEF ClearOnce, At
<1>3. t \notin Owners(l)
  BY <1>1, <1>2 DEF IInv, MutualExclusion
<1>. QED BY <1>2, <1>3

\* Every step keeps it: only the holder of a lock changes its count.
LEMMA NextClearOnce ==
  ASSUME IInv, ClearOnce, [Next]_vars
  PROVE  ClearOnce'
<1>0. /\ lock \in [LockIds -> LockState] /\ pc \in [Threads -> ClientLabels \cup IdleLabels]
      /\ arg \in [Threads -> LockIds \cup {NULL}] /\ Clients \subseteq Threads
      /\ \A t \in Threads : t = Idle <=> pc[t] \in IdleLabels
      /\ Idle \notin Clients /\ k.cur \in Threads
  BY RunningThread DEF IInv, TypeOK, Clients
<1>1. CASE UNCHANGED <<lock, pc, arg>>
  BY <1>1 DEF ClearOnce, At
<1>2. CASE UNCHANGED <<lock, arg>> /\ \A u \in Clients : pc'[u] = pc[u]
  BY <1>2 DEF ClearOnce, At
<1>3. ASSUME NEW t \in Clients, NEW l \in LockIds, lock_acquire(t, l)
      PROVE  ClearOnce'
  <2>1. CASE Holds(t, l)
    <3>1. t \in Owners(l)
      BY <2>1, OwnersMember DEF Holds
    <3>2. pc' = pc /\ arg' = arg /\ lock' = [lock EXCEPT ![l].repeat = @ + 1] /\ pc[t] = "run"
      BY <1>3, <2>1 DEF lock_acquire, Running
    <3>. QED BY <1>0, <3>1, <3>2, ClearOnceKept
  <2>2. CASE ~Holds(t, l)
    <3>1. lock' = lock /\ pc' = [pc EXCEPT ![t] = "down"] /\ arg' = [arg EXCEPT ![t] = l]
      BY <1>3, <2>2 DEF lock_acquire, Goto
    <3>. QED BY <1>0, <3>1, ClearOnceKept
  <2>. QED BY <2>1, <2>2
<1>4. ASSUME NEW t \in Clients, NEW l \in LockIds, lock_release(t, l)
      PROVE  ClearOnce'
  <2>0. Holds(t, l) /\ pc[t] = "run" /\ t \in Owners(l) /\ lock[l].repeat \in Nat
    BY <1>0, <1>4, OwnersMember DEF lock_release, Running, Holds, LockState
  <2>1. CASE lock[l].repeat > 1
    <3>1. pc' = pc /\ arg' = arg /\ lock' = [lock EXCEPT ![l].repeat = @ - 1]
      BY <1>4, <2>1 DEF lock_release
    <3>. QED BY <1>0, <2>0, <3>1, ClearOnceKept
  <2>2. CASE ~(lock[l].repeat > 1)
    <3>1. /\ pc' = [pc EXCEPT ![t] = "clear"] /\ arg' = [arg EXCEPT ![t] = l]
          /\ lock' = [lock EXCEPT ![l].holder = NULL]
      BY <1>4, <2>2 DEF lock_release, Goto
    <3>2. \A m \in LockIds : lock'[m].repeat = lock[m].repeat
      BY <1>0, <3>1 DEF LockState
    <3>3. lock[l].repeat >= 1
      BY <2>0 DEF IInv, HolderOK, At
    <3>4. lock[l].repeat = 1
      BY <2>0, <2>2, <3>3
    <3>. QED BY <1>0, <3>1, <3>2, <3>4 DEF ClearOnce, At
  <2>. QED BY <2>1, <2>2
<1>5. ASSUME NEW t \in Clients, sema_down(t) \/ sema_up(t)
      PROVE  ClearOnce'
  <2>0. arg[t] \in LockIds /\ arg' = arg
    BY <1>5 DEF sema_down, sema_up, Running, IInv, TypeOK
  <2>1. \E x : lock' = [lock EXCEPT ![arg[t]].sema = x]
    BY <1>5, Zenon DEF sema_down, sema_up
  <2>2. \A m \in LockIds : lock'[m].repeat = lock[m].repeat
    BY <1>0, <2>0, <2>1 DEF LockState
  <2>3. pc'[t] # "clear" /\ \A u \in Clients \ {t} : pc'[u] = pc[u]
    BY <1>0, <1>5 DEF sema_down, sema_up, Goto
  <2>. QED BY <1>0, <2>0, <2>2, <2>3, ClearOnceKept
<1>6. ASSUME NEW t \in Clients, SetHolder(t) \/ SetRepeat(t) \/ ClearRepeat(t)
      PROVE  ClearOnce'
  <2>0. /\ arg[t] \in LockIds /\ arg' = arg /\ pc[t] \in {"own", "count", "clear"}
        /\ t \in Owners(arg[t])
    BY <1>6, OwnersMember DEF SetHolder, SetRepeat, ClearRepeat, Running, IInv, TypeOK
  <2>1. PICK y \in {"count", "run", "up"} : pc' = [pc EXCEPT ![t] = y]
    BY <1>6 DEF SetHolder, SetRepeat, ClearRepeat, Goto
  <2>2. \A m \in LockIds \ {arg[t]} : lock'[m] = lock[m]
    BY <1>0, <1>6, <2>0 DEF SetHolder, SetRepeat, ClearRepeat
  <2>3. pc'[t] # "clear" /\ \A u \in Clients \ {t} : pc'[u] = pc[u]
    BY <1>0, <2>1
  <2>. QED BY <1>0, <2>0, <2>2, <2>3, ClearOnceKept
<1>7. CASE IdleStep \/ Timer
  <2>1. UNCHANGED <<lock, arg>>
    BY <1>7 DEF IdleStep, Timer
  <2>2. \A u \in Clients : pc'[u] = pc[u]
    BY <1>0, <1>7 DEF IdleStep, Timer, IdleBlock, IdleHalt, Goto, ClockInterrupt, EndHalt, IdleLabels
  <2>. QED BY <1>2, <2>1, <2>2
<1>8. ASSUME NEW t \in Clients, Syscall(t) \/ SyscallReturn(t) \/ Yield(t)
      PROVE  ClearOnce'
  BY <1>1, <1>8 DEF Syscall, SyscallReturn, Yield
<1>9. CASE UNCHANGED vars
  BY <1>1, <1>9 DEF vars
<1>. QED BY <1>3, <1>4, <1>5, <1>6, <1>7, <1>8, <1>9 DEF Next, ClientStep

\* The users of a lock have it, or are about to have it or to give it up.
LEMMA UsersMember ==
  ASSUME NEW l \in LockIds, NEW t
  PROVE  t \in LockUsers(l) <=>
           t \in Clients /\ (lock[l].holder = t \/ (arg[t] = l /\ pc[t] \in Using))
BY DEF LockUsers, Holds, At, Using

\* What Mutex sees of a lock that a thread has, and of one that nobody has.
LocksSeen ==
  \A l \in LockIds :
    /\ LockUsers(l) = {} => lockOwner[l] = NULL /\ lockDepth[l] = 0
    /\ \A t \in LockUsers(l) :
         /\ LockUsers(l) = {t} /\ lockOwner[l] = t
         /\ lockDepth[l] = IF lock[l].repeat = 0 THEN 1 ELSE lock[l].repeat

\* There is at most one user, and the count is the depth that Mutex sees.
LEMMA IInvSeen == IInv => LocksSeen
<1>. SUFFICES ASSUME IInv, NEW l \in LockIds
              PROVE  /\ LockUsers(l) = {} => lockOwner[l] = NULL /\ lockDepth[l] = 0
                     /\ \A t \in LockUsers(l) :
                          /\ LockUsers(l) = {t} /\ lockOwner[l] = t
                          /\ lockDepth[l] = IF lock[l].repeat = 0 THEN 1 ELSE lock[l].repeat
  BY DEF LocksSeen
<1>1. \A t, u \in LockUsers(l) : t = u
  BY UsersMember, OwnersMember DEF IInv, MutualExclusion, Using
<1>2. \A t \in LockUsers(l) : LockUsers(l) = {t}
  BY <1>1
<1>. QED BY <1>2 DEF lockOwner, lockDepth

\* A lock that a step leaves alone looks the same.
LEMMA SameSeen ==
  ASSUME NEW l \in LockIds, lock'[l].repeat = lock[l].repeat, LockUsers(l)' = LockUsers(l)
  PROVE  lockOwner'[l] = lockOwner[l] /\ lockDepth'[l] = lockDepth[l]
BY DEF lockOwner, lockDepth

\* A step that changes neither the holder nor who is on the way keeps the users.
LEMMA SameUsers ==
  ASSUME NEW l \in LockIds, lock'[l].holder = lock[l].holder,
         \A u \in Clients : (arg'[u] = l /\ pc'[u] \in Using) <=> (arg[u] = l /\ pc[u] \in Using)
  PROVE  LockUsers(l)' = LockUsers(l)
BY DEF LockUsers, Holds, At, Using

\* Steps that Mutex does not see.
LEMMA Unseen ==
  ASSUME \A l \in LockIds : lockOwner'[l] = lockOwner[l] /\ lockDepth'[l] = lockDepth[l]
  PROVE  UNCHANGED <<lockOwner, lockDepth>>
BY DEF lockOwner, lockDepth

\* Steps that Mutex sees change what it sees of one lock.
LEMMA Seen ==
  ASSUME NEW a \in LockIds,
         \A l \in LockIds \ {a} : lockOwner'[l] = lockOwner[l] /\ lockDepth'[l] = lockDepth[l]
  PROVE  /\ lockOwner' = [lockOwner EXCEPT ![a] = lockOwner'[a]]
         /\ lockDepth' = [lockDepth EXCEPT ![a] = lockDepth'[a]]
<1>1. /\ lockOwner = [l \in LockIds |-> lockOwner[l]]
      /\ lockDepth = [l \in LockIds |-> lockDepth[l]]
  BY DEF lockOwner, lockDepth
<1>2. /\ lockOwner' = [l \in LockIds |-> lockOwner'[l]]
      /\ lockDepth' = [l \in LockIds |-> lockDepth'[l]]
  BY DEF lockOwner, lockDepth
<1>. QED BY <1>1, <1>2

\* Every step is a step of Mutex, or one that it does not see.
LEMMA NextMutex ==
  ASSUME IInv, IInv', ClearOnce, [Next]_vars
  PROVE  [M!Next]_<<lockOwner, lockDepth>>
<1>. DEFINE V == <<lockOwner, lockDepth>>
<1>0. /\ lock \in [LockIds -> LockState] /\ pc \in [Threads -> ClientLabels \cup IdleLabels]
      /\ arg \in [Threads -> LockIds \cup {NULL}] /\ Clients \subseteq Threads
      /\ \A t \in Threads : t = Idle <=> pc[t] \in IdleLabels
      /\ Idle \notin Clients /\ k.cur \in Threads
  BY RunningThread DEF IInv, TypeOK, Clients
<1>1. LocksSeen
  BY IInvSeen
<1>2. LocksSeen'
  BY IInvSeen, PTL
<1>3. ASSUME UNCHANGED <<lock, arg>>, \A u \in Clients : pc'[u] = pc[u]
      PROVE  UNCHANGED V
  <2>1. \A l \in LockIds : LockUsers(l)' = LockUsers(l)
    BY <1>3, SameUsers
  <2>. QED BY <1>3, <2>1, SameSeen, Unseen
\* A step of t on the lock a leaves the others alone.
<1>4. ASSUME NEW t \in Clients, NEW a \in LockIds,
             \A l \in LockIds \ {a} : lock'[l] = lock[l],
             \A u \in Clients \ {t} : pc'[u] = pc[u] /\ arg'[u] = arg[u],
             arg[t] = a \/ pc[t] \notin Using, arg'[t] = a \/ pc'[t] \notin Using
      PROVE  \A l \in LockIds \ {a} : lockOwner'[l] = lockOwner[l] /\ lockDepth'[l] = lockDepth[l]
  <2>1. \A l \in LockIds \ {a} : LockUsers(l)' = LockUsers(l)
    BY <1>4, SameUsers
  <2>. QED BY <1>4, <2>1, SameSeen
<1>5. ASSUME NEW t \in Clients, NEW a \in LockIds, lock_acquire(t, a)
      PROVE  [M!Next]_V
  <2>1. CASE ~Holds(t, a)
    <3>1. lock' = lock /\ pc[t] = "run" /\ pc' = [pc EXCEPT ![t] = "down"] /\ arg' = [arg EXCEPT ![t] = a]
      BY <1>5, <2>1 DEF lock_acquire, Goto, Running
    <3>2. /\ \A u \in Clients \ {t} : pc'[u] = pc[u] /\ arg'[u] = arg[u]
          /\ pc[t] \notin Using /\ pc'[t] \notin Using
      BY <1>0, <3>1 DEF Using
    <3>3. \A l \in LockIds : LockUsers(l)' = LockUsers(l)
      BY <3>1, <3>2, SameUsers
    <3>. QED BY <3>1, <3>3, SameSeen, Unseen
  <2>2. CASE Holds(t, a)
    <3>1. /\ pc' = pc /\ arg' = arg /\ lock' = [lock EXCEPT ![a].repeat = @ + 1] /\ pc[t] = "run"
      BY <1>5, <2>2 DEF lock_acquire, Running
    <3>2. lock[a].repeat >= 1 /\ lock[a].repeat \in Nat /\ lock[a].holder = t
      BY <1>0, <2>2, <3>1 DEF IInv, HolderOK, At, Holds, LockState
    <3>3. /\ lock'[a].repeat = lock[a].repeat + 1 /\ lock'[a].holder = t
          /\ \A l \in LockIds \ {a} : lock'[l] = lock[l]
      BY <1>0, <3>1, <3>2 DEF LockState
    <3>4. LockUsers(a)' = LockUsers(a) /\ t \in LockUsers(a)
      BY <3>1, <3>2, <3>3, SameUsers, UsersMember
    <3>5. /\ lockOwner[a] = t /\ lockOwner'[a] = t
          /\ lockDepth[a] = lock[a].repeat /\ lockDepth'[a] = lockDepth[a] + 1
      BY <1>1, <1>2, <3>2, <3>3, <3>4 DEF LocksSeen
    <3>6. /\ lockOwner' = [lockOwner EXCEPT ![a] = t]
          /\ lockDepth' = [lockDepth EXCEPT ![a] = lockDepth[a] + 1]
      BY <1>4, <3>1, <3>3, <3>5, Seen DEF Using
    <3>7. lockOwner' = lockOwner
      BY <3>5, <3>6 DEF lockOwner
    <3>. QED BY <3>5, <3>6, <3>7 DEF M!Next, M!Reacquire
  <2>. QED BY <2>1, <2>2
<1>6. ASSUME NEW t \in Clients, NEW a \in LockIds, lock_release(t, a)
      PROVE  [M!Next]_V
  <2>1. /\ pc[t] = "run" /\ lock[a].holder = t /\ t \in LockUsers(a)
        /\ lock[a].repeat >= 1 /\ lock[a].repeat \in Nat
    BY <1>0, <1>6, UsersMember
       DEF lock_release, Running, Holds, IInv, HolderOK, At, LockState
  <2>2. CASE lock[a].repeat > 1
    <3>1. pc' = pc /\ arg' = arg /\ lock' = [lock EXCEPT ![a].repeat = @ - 1]
      BY <1>6, <2>2 DEF lock_release
    <3>2. /\ lock'[a].repeat = lock[a].repeat - 1 /\ lock'[a].holder = t
          /\ \A l \in LockIds \ {a} : lock'[l] = lock[l]
      BY <1>0, <2>1, <3>1 DEF LockState
    <3>3. LockUsers(a)' = LockUsers(a)
      BY <2>1, <3>1, <3>2, SameUsers
    <3>4. /\ lockOwner[a] = t /\ lockOwner'[a] = t
          /\ lockDepth[a] = lock[a].repeat /\ lockDepth'[a] = lockDepth[a] - 1
      BY <1>1, <1>2, <2>1, <2>2, <3>2, <3>3 DEF LocksSeen
    <3>5. /\ lockOwner' = [lockOwner EXCEPT ![a] = t]
          /\ lockDepth' = [lockDepth EXCEPT ![a] = lockDepth[a] - 1]
      BY <1>4, <2>1, <3>1, <3>2, <3>4, Seen DEF Using
    <3>6. lockDepth[a] # 1
      BY <2>2, <3>4
    <3>. QED BY <3>4, <3>5, <3>6 DEF M!Next, M!Release
  <2>3. CASE ~(lock[a].repeat > 1)
    <3>1. /\ pc' = [pc EXCEPT ![t] = "clear"] /\ arg' = [arg EXCEPT ![t] = a]
          /\ lock' = [lock EXCEPT ![a].holder = NULL]
      BY <1>6, <2>3 DEF lock_release, Goto
    <3>2. /\ lock'[a].repeat = lock[a].repeat /\ \A l \in LockIds \ {a} : lock'[l] = lock[l]
          /\ pc'[t] = "clear" /\ arg'[t] = a
          /\ \A u \in Clients \ {t} : pc'[u] = pc[u] /\ arg'[u] = arg[u]
      BY <1>0, <3>1 DEF LockState
    <3>3. t \in LockUsers(a)'
      BY <3>2 DEF LockUsers, At
    <3>4. lockOwner'[a] = lockOwner[a] /\ lockDepth'[a] = lockDepth[a]
      BY <1>1, <1>2, <2>1, <3>2, <3>3 DEF LocksSeen
    <3>5. \A l \in LockIds \ {a} : lockOwner'[l] = lockOwner[l] /\ lockDepth'[l] = lockDepth[l]
      BY <1>4, <2>1, <3>2 DEF Using
    <3>. QED BY <3>4, <3>5, Unseen
  <2>. QED BY <2>2, <2>3
<1>7. ASSUME NEW t \in Clients, sema_down(t)
      PROVE  [M!Next]_V
  <2>. DEFINE a == arg[t]
  <2>1. a \in LockIds /\ arg' = arg /\ pc[t] \in {"down", "sleep"}
    BY <1>7 DEF sema_down, Running, IInv, TypeOK
  <2>2. \E x : lock' = [lock EXCEPT ![a].sema = x]
    BY <1>7, Zenon DEF sema_down
  <2>3. /\ lock'[a].repeat = lock[a].repeat /\ lock'[a].holder = lock[a].holder
        /\ \A l \in LockIds \ {a} : lock'[l] = lock[l]
    BY <1>0, <2>1, <2>2 DEF LockState
  <2>4. CASE lock[a].sema.value = 0
    <3>1. pc' = [pc EXCEPT ![t] = "sleep"]
      BY <1>7, <2>4 DEF sema_down, Goto
    <3>2. \A l \in LockIds : LockUsers(l)' = LockUsers(l)
      BY <1>0, <2>1, <2>3, <3>1, SameUsers DEF Using
    <3>. QED BY <2>3, <3>2, SameSeen, Unseen
  <2>5. CASE lock[a].sema.value # 0
    <3>1. pc' = [pc EXCEPT ![t] = "own"]
      BY <1>7, <2>5 DEF sema_down, Goto
    <3>2. Owners(a) = {} /\ lock[a].repeat = 0
      BY <2>1, <2>5 DEF IInv, MutualExclusion, HolderOK
    <3>3. LockUsers(a) = {} /\ t \in LockUsers(a)'
      BY <1>0, <2>1, <3>1, <3>2 DEF Owners, LockUsers, At
    <3>4. /\ lockOwner[a] = NULL /\ lockOwner'[a] = t /\ lockDepth'[a] = 1
      BY <1>1, <1>2, <2>1, <2>3, <3>2, <3>3 DEF LocksSeen
    <3>5. /\ lockOwner' = [lockOwner EXCEPT ![a] = t]
          /\ lockDepth' = [lockDepth EXCEPT ![a] = 1]
      BY <1>0, <1>4, <2>1, <2>3, <3>1, <3>4, Seen DEF Using
    <3>. QED BY <2>1, <3>4, <3>5 DEF M!Next, M!Acquire
  <2>. QED BY <2>4, <2>5
<1>8. ASSUME NEW t \in Clients, SetHolder(t) \/ SetRepeat(t) \/ sema_up(t)
      PROVE  UNCHANGED V
  <2>. DEFINE a == arg[t]
  <2>1. a \in LockIds /\ arg' = arg /\ pc[t] \in {"own", "count", "up"} /\ lock[a].repeat = 0
    BY <1>8 DEF SetHolder, SetRepeat, sema_up, Running, IInv, TypeOK, HolderOK, At
  <2>2. /\ \A l \in LockIds \ {a} : lock'[l] = lock[l]
        /\ \A u \in Clients \ {t} : pc'[u] = pc[u]
    BY <1>0, <1>8, <2>1 DEF SetHolder, SetRepeat, sema_up, Goto
  <2>3. \A l \in LockIds \ {a} : lockOwner'[l] = lockOwner[l] /\ lockDepth'[l] = lockDepth[l]
    BY <1>4, <2>1, <2>2
  <2>4. lockOwner'[a] = lockOwner[a] /\ lockDepth'[a] = lockDepth[a]
    <3>1. CASE SetHolder(t) \/ SetRepeat(t)
      <4>1. t \in LockUsers(a) /\ t \in LockUsers(a)' /\ lock'[a].repeat \in {0, 1}
        BY <1>0, <2>1, <3>1, UsersMember
           DEF SetHolder, SetRepeat, Running, Goto, LockUsers, Holds, At, IInv, HolderOK, LockState, Using
      <4>. QED BY <1>1, <1>2, <2>1, <4>1 DEF LocksSeen
    <3>2. CASE sema_up(t)
      <4>1. /\ lock'[a].repeat = lock[a].repeat /\ lock'[a].holder = lock[a].holder
        BY <1>0, <2>1, <3>2 DEF sema_up, LockState
      <4>2. pc[t] = "up" /\ pc'[t] = "run"
        BY <1>0, <3>2 DEF sema_up, Running, Goto
      <4>3. LockUsers(a)' = LockUsers(a)
        BY <2>1, <2>2, <4>1, <4>2, SameUsers DEF Using
      <4>. QED BY <2>1, <4>1, <4>3, SameSeen
    <3>. QED BY <1>8, <3>1, <3>2
  <2>. QED BY <2>3, <2>4, Unseen
<1>9. ASSUME NEW t \in Clients, ClearRepeat(t)
      PROVE  [M!Next]_V
  <2>. DEFINE a == arg[t]
  <2>1. /\ a \in LockIds /\ arg' = arg /\ pc[t] = "clear" /\ lock[a].repeat = 1
        /\ pc' = [pc EXCEPT ![t] = "up"] /\ lock' = [lock EXCEPT ![a].repeat = 0]
    BY <1>9 DEF ClearRepeat, Running, IInv, TypeOK, ClearOnce, At, Goto
  <2>2. /\ lock'[a].holder = NULL /\ \A l \in LockIds \ {a} : lock'[l] = lock[l]
        /\ pc'[t] = "up" /\ \A u \in Clients \ {t} : pc'[u] = pc[u]
    BY <1>0, <2>1 DEF IInv, HolderOK, At, LockState
  <2>3. t \in LockUsers(a)
    BY <2>1, UsersMember DEF Using
  <2>4. lockOwner[a] = t /\ lockDepth[a] = 1 /\ LockUsers(a) = {t}
    BY <1>1, <2>1, <2>3 DEF LocksSeen
  <2>5. LockUsers(a)' = {}
    <3>1. \A u \in Clients \ {t} : ~(arg[u] = a /\ pc[u] \in Using)
      BY <2>1, <2>4, UsersMember
    <3>2. \A u \in Clients : lock'[a].holder # u
      BY <2>2, NullAssumption DEF Clients
    <3>. QED BY <2>1, <2>2, <3>1, <3>2 DEF LockUsers, Holds, At, Using
  <2>6. lockOwner'[a] = NULL /\ lockDepth'[a] = 0
    BY <1>2, <2>1, <2>5 DEF LocksSeen
  <2>7. /\ lockOwner' = [lockOwner EXCEPT ![a] = NULL]
        /\ lockDepth' = [lockDepth EXCEPT ![a] = 0]
    BY <1>4, <2>1, <2>2, <2>6, Seen
  <2>8. lockDepth' = [lockDepth EXCEPT ![a] = lockDepth[a] - 1]
    <3>1. lockDepth[a] - 1 = 0
      BY <2>4
    <3>. QED BY <2>7, <3>1
  <2>9. M!Release(t, a)
    BY <2>4, <2>7, <2>8 DEF M!Release
  <2>. QED BY <2>1, <2>9 DEF M!Next
<1>10. CASE IdleStep \/ Timer
  <2>1. UNCHANGED <<lock, arg>>
    BY <1>10 DEF IdleStep, Timer
  <2>2. \A u \in Clients : pc'[u] = pc[u]
    BY <1>0, <1>10 DEF IdleStep, Timer, IdleBlock, IdleHalt, Goto, ClockInterrupt, EndHalt, IdleLabels
  <2>. QED BY <1>3, <2>1, <2>2
<1>11. ASSUME NEW t \in Clients, Syscall(t) \/ SyscallReturn(t) \/ Yield(t)
       PROVE  UNCHANGED V
  BY <1>3, <1>11 DEF Syscall, SyscallReturn, Yield
<1>12. CASE UNCHANGED vars
  BY <1>3, <1>12 DEF vars
<1>. QED BY <1>5, <1>6, <1>7, <1>8, <1>9, <1>10, <1>11, <1>12 DEF Next, ClientStep

\* Seen through owner and depth, the statements of lock_acquire, lock_release,
\* sema_down and sema_up, interleaved in any way, are a behaviour of the
\* abstract re-entrant lock, for any number of threads and locks.
THEOREM LocksImplementMutex == Spec => ImplementsMutex
<1>1. Init => ClearOnce
  BY DEF Init, ClearOnce, At, Clients
<1>2. IInv /\ ClearOnce /\ [Next]_vars => ClearOnce'
  BY NextClearOnce
<1>3. Spec => []ClearOnce
  BY <1>1, <1>2, Invariance, PTL DEF Spec
<1>4. Init => M!Init
  <2>. SUFFICES ASSUME Init PROVE M!Init
    OBVIOUS
  <2>1. \A l \in LockIds : LockUsers(l) = {}
    BY NullAssumption DEF Init, LockUsers, Holds, At, lock_init, Clients
  <2>. QED BY <2>1 DEF M!Init, lockOwner, lockDepth
<1>5. IInv /\ IInv' /\ ClearOnce /\ [Next]_vars => [M!Next]_<<lockOwner, lockDepth>>
  BY NextMutex
<1>. QED BY <1>3, <1>4, <1>5, Invariance, PTL DEF Spec, ImplementsMutex, M!Spec

=============================================================================

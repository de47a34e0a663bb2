---------------------------- MODULE CommonProofs -----------------------------
(***************************************************************************)
(* The lemmas that the proofs about components share, for any number of    *)
(* threads: what the functions of thread/thread.c do to the run queue,     *)
(* what those of thread/sync.c do to a semaphore and to a lock when they   *)
(* are not interrupted, and the positions of a ring buffer.                *)
(***************************************************************************)
EXTENDS Semaphore, Integers, TLAPS

\* Appending a new element (list_append).
LEMMA AppendFacts ==
  ASSUME NEW S, NEW s \in Seq(S), NEW x \in S, x \notin Range(s), NoDuplicates(s)
  PROVE  /\ Append(s, x) \in Seq(S)
         /\ Range(Append(s, x)) = Range(s) \cup {x}
         /\ NoDuplicates(Append(s, x))
         /\ Append(s, x) # << >>
<1>1. /\ Append(s, x) \in Seq(S)
      /\ Len(Append(s, x)) = Len(s) + 1
      /\ DOMAIN Append(s, x) = 1 .. Len(s) + 1
      /\ \A i \in 1 .. Len(s) : Append(s, x)[i] = s[i]
      /\ Append(s, x)[Len(s) + 1] = x
      /\ Len(s) \in Nat /\ DOMAIN s = 1 .. Len(s)
  OBVIOUS
<1>2. Range(Append(s, x)) = Range(s) \cup {x}
  BY <1>1 DEF Range
<1>3. NoDuplicates(Append(s, x))
  BY <1>1 DEF Range, NoDuplicates
<1>4. Append(s, x) # << >>
  BY <1>1
<1>. QED BY <1>1, <1>2, <1>3, <1>4

\* Pushing a new element in front (list_push).
LEMMA PushFacts ==
  ASSUME NEW S, NEW s \in Seq(S), NEW x \in S, x \notin Range(s), NoDuplicates(s)
  PROVE  /\ <<x>> \o s \in Seq(S)
         /\ Range(<<x>> \o s) = Range(s) \cup {x}
         /\ NoDuplicates(<<x>> \o s)
         /\ <<x>> \o s # << >>
<1>. DEFINE r == <<x>> \o s
<1>1. /\ r \in Seq(S)
      /\ Len(r) = Len(s) + 1
      /\ DOMAIN r = 1 .. Len(s) + 1
      /\ r[1] = x
      /\ \A i \in 1 .. Len(s) : r[i + 1] = s[i]
      /\ Len(s) \in Nat /\ DOMAIN s = 1 .. Len(s)
  OBVIOUS
<1>2. \A j \in DOMAIN r : j = 1 \/ (j - 1 \in DOMAIN s /\ r[j] = s[j - 1])
  BY <1>1
<1>. HIDE DEF r
<1>3. Range(r) = Range(s) \cup {x}
  BY <1>1, <1>2 DEF Range
<1>4. NoDuplicates(r)
  BY <1>1, <1>2 DEF Range, NoDuplicates
<1>5. r # << >>
  BY <1>1
<1>. QED BY <1>1, <1>3, <1>4, <1>5 DEF r

\* Taking the first element off (list_pop).
LEMMA PopFacts ==
  ASSUME NEW S, NEW s \in Seq(S), s # << >>, NoDuplicates(s)
  PROVE  /\ Head(s) \in S
         /\ Head(s) \in Range(s)
         /\ Tail(s) \in Seq(S)
         /\ Range(Tail(s)) = Range(s) \ {Head(s)}
         /\ NoDuplicates(Tail(s))
<1>. DEFINE r == Tail(s)
<1>1. /\ Len(s) \in Nat /\ Len(s) > 0
      /\ DOMAIN s = 1 .. Len(s)
      /\ r \in Seq(S)
      /\ Len(r) = Len(s) - 1
      /\ DOMAIN r = 1 .. Len(s) - 1
      /\ \A i \in 1 .. Len(s) - 1 : r[i] = s[i + 1]
      /\ Head(s) = s[1] /\ s[1] \in S
  OBVIOUS
<1>2. \A j \in DOMAIN s : j = 1 \/ (j - 1 \in DOMAIN r /\ s[j] = r[j - 1])
  BY <1>1
<1>. HIDE DEF r
<1>3. \A x : x \in Range(r) <=> \E i \in 1 .. Len(s) - 1 : x = s[i + 1]
  BY <1>1 DEF Range
<1>4. \A x : x \in Range(s) <=> \E j \in 1 .. Len(s) : x = s[j]
  BY <1>1 DEF Range
<1>5. \A i, j \in 1 .. Len(s) : s[i] = s[j] => i = j
  BY <1>1 DEF NoDuplicates
<1>6. Range(r) \subseteq Range(s) \ {s[1]}
  BY <1>1, <1>3, <1>4, <1>5
<1>7. Range(s) \ {s[1]} \subseteq Range(r)
  <2>. SUFFICES ASSUME NEW x \in Range(s), x # s[1]
                PROVE  x \in Range(r)
    OBVIOUS
  <2>1. PICK j \in 1 .. Len(s) : x = s[j]
    BY <1>4
  <2>2. j - 1 \in 1 .. Len(s) - 1 /\ (j - 1) + 1 = j
    BY <1>1, <2>1
  <2>. QED BY <1>3, <2>1, <2>2
<1>8. NoDuplicates(r)
  <2>. SUFFICES ASSUME NEW i \in 1 .. Len(s) - 1, NEW j \in 1 .. Len(s) - 1, r[i] = r[j]
                PROVE  i = j
    BY <1>1 DEF NoDuplicates
  <2>1. i + 1 \in 1 .. Len(s) /\ j + 1 \in 1 .. Len(s) /\ s[i + 1] = s[j + 1]
    BY <1>1
  <2>. QED BY <1>5, <2>1
<1>9. Head(s) \in Range(s)
  BY <1>1, <1>4
<1>. QED BY <1>1, <1>6, <1>7, <1>8, <1>9 DEF r

-----------------------------------------------------------------------------

\* schedule is called with a run queue in order, but for the caller itself,
\* which may have stopped being the running thread.
CanSchedule(k) ==
  /\ k \in SchedulerState
  /\ k.panic = FALSE
  /\ NoDuplicates(k.ready)
  /\ ReadyListIsReady(k)
  /\ \A t \in Threads : k.status[t] = "TASK_RUNNING" => t = k.cur
  /\ IdleCanRun(k)

\* Half-way through schedule nobody is running.
NobodyRuns(k) ==
  /\ CanSchedule(k)
  /\ \A t \in Threads : k.status[t] # "TASK_RUNNING"

\* Between k and m nobody but idle stopped or started being able to run.
Runnable == {"TASK_READY", "TASK_RUNNING"}

SameRunnable(k, m, S) ==
  \A t \in S : IF k.status[t] \in Runnable THEN m.status[t] \in Runnable
                                           ELSE m.status[t] = k.status[t]

\* A thread whose slice is over is queued exactly once.
LEMMA RequeueOK ==
  ASSUME NEW k, CanSchedule(k)
  PROVE  /\ NobodyRuns(Requeue(k))
         /\ Requeue(k).cur = k.cur
         /\ \A t \in Threads : t # k.cur => Requeue(k).status[t] = k.status[t]
         /\ IF k.status[k.cur] = "TASK_RUNNING"
            THEN Requeue(k).status[k.cur] = "TASK_READY" ELSE Requeue(k) = k
<1>1. CASE k.status[k.cur] # "TASK_RUNNING"
  BY <1>1 DEF Requeue, NobodyRuns, CanSchedule
<1>2. CASE k.status[k.cur] = "TASK_RUNNING"
  <2>. DEFINE q == Append(k.ready, k.cur)
              m == [k EXCEPT !.ready = q,
                             !.ticks[k.cur] = Priority[k.cur],
                             !.status[k.cur] = "TASK_READY"]
  <2>1. /\ k.cur \in Threads /\ k.ready \in Seq(Threads)
        /\ k.cur \notin Range(k.ready) /\ NoDuplicates(k.ready)
    BY <1>2 DEF CanSchedule, SchedulerState, ReadyListIsReady
  <2>2. Requeue(k) = m
    BY <1>2, <2>1 DEF Requeue, Assert, InReadyList
  <2>3. /\ q \in Seq(Threads) /\ NoDuplicates(q)
        /\ Range(q) = Range(k.ready) \cup {k.cur}
    BY <2>1, AppendFacts
  <2>. HIDE DEF q
  <2>4. m \in SchedulerState /\ m.panic = FALSE /\ m.cur = k.cur /\ m.ready = q
    BY <2>1, <2>3, ThreadsAssumption DEF CanSchedule, SchedulerState, Status
  <2>5. \A t \in Threads : m.status[t] = IF t = k.cur THEN "TASK_READY" ELSE k.status[t]
    BY <2>1 DEF CanSchedule, SchedulerState
  <2>. HIDE DEF m
  <2>6. \A t \in Threads : m.status[t] # "TASK_RUNNING"
    BY <2>5 DEF CanSchedule
  <2>7. ReadyListIsReady(m)
    BY <2>3, <2>4, <2>5 DEF CanSchedule, ReadyListIsReady
  <2>8. IdleCanRun(m)
    BY <2>5, ThreadsAssumption DEF CanSchedule, IdleCanRun
  <2>9. NobodyRuns(m)
    BY <2>3, <2>4, <2>6, <2>7, <2>8 DEF NobodyRuns, CanSchedule
  <2>. QED BY <1>2, <2>1, <2>2, <2>4, <2>5, <2>9
<1>. QED BY <1>1, <1>2

\* Waking a blocked thread meets no ASSERT and queues it exactly once.
LEMMA UnblockOK ==
  ASSUME NEW k, CanSchedule(k), NEW u \in Threads, k.status[u] \in Blocked
  PROVE  /\ CanSchedule(thread_unblock(k, u))
         /\ thread_unblock(k, u).cur = k.cur
         /\ thread_unblock(k, u).ready # << >>
         /\ \A t \in Threads : thread_unblock(k, u).status[t] =
                               IF t = u THEN "TASK_READY" ELSE k.status[t]
<1>. DEFINE q == <<u>> \o k.ready
            m == [k EXCEPT !.ready = q, !.status[u] = "TASK_READY"]
<1>1. /\ k.ready \in Seq(Threads) /\ NoDuplicates(k.ready)
      /\ u \notin Range(k.ready)
  BY DEF CanSchedule, SchedulerState, ReadyListIsReady, Blocked
<1>2. thread_unblock(k, u) = m
  BY <1>1 DEF thread_unblock, InReadyList
<1>3. /\ q \in Seq(Threads) /\ NoDuplicates(q) /\ q # << >>
      /\ Range(q) = Range(k.ready) \cup {u}
  BY <1>1, PushFacts
<1>. HIDE DEF q
<1>4. m \in SchedulerState /\ m.panic = FALSE /\ m.cur = k.cur /\ m.ready = q
  BY <1>1, <1>3 DEF CanSchedule, SchedulerState, Status
<1>5. \A t \in Threads : m.status[t] = IF t = u THEN "TASK_READY" ELSE k.status[t]
  BY DEF CanSchedule, SchedulerState
<1>. HIDE DEF m
<1>6. \A t \in Threads : m.status[t] = "TASK_RUNNING" => t = m.cur
  BY <1>4, <1>5 DEF CanSchedule
<1>7. ReadyListIsReady(m)
  BY <1>3, <1>4, <1>5 DEF CanSchedule, ReadyListIsReady
<1>8. IdleCanRun(m)
  BY <1>5, ThreadsAssumption DEF CanSchedule, IdleCanRun
<1>. QED BY <1>2, <1>3, <1>4, <1>5, <1>6, <1>7, <1>8 DEF CanSchedule

\* The ready list is never empty when schedule pops it: if nobody is ready,
\* idle is blocked and thread_unblock may wake it.
LEMMA WakeIdleOK ==
  ASSUME NEW k, NobodyRuns(k)
  PROVE  /\ NobodyRuns(WakeIdle(k))
         /\ WakeIdle(k).ready # << >>
         /\ \A t \in Threads : t # Idle => WakeIdle(k).status[t] = k.status[t]
         /\ WakeIdle(k).status[Idle] \in {k.status[Idle], "TASK_READY"}
<1>1. CASE k.ready # << >>
  BY <1>1 DEF WakeIdle
<1>2. CASE k.ready = << >>
  <2>1. Range(k.ready) = {}
    BY <1>2 DEF Range
  <2>2. k.status[Idle] \in Blocked
    BY <2>1, ThreadsAssumption
       DEF NobodyRuns, CanSchedule, IdleCanRun, ReadyListIsReady, Blocked
  <2>. DEFINE m == thread_unblock(k, Idle)
  <2>3. /\ CanSchedule(m) /\ m.ready # << >> /\ m.cur = k.cur
        /\ \A t \in Threads : m.status[t] = IF t = Idle THEN "TASK_READY" ELSE k.status[t]
    BY <2>2, UnblockOK, ThreadsAssumption DEF NobodyRuns
  <2>4. WakeIdle(k) = m
    BY <1>2 DEF WakeIdle
  <2>. HIDE DEF m
  <2>. QED BY <2>3, <2>4, ThreadsAssumption DEF NobodyRuns
<1>. QED BY <1>1, <1>2

\* Popping the ready list leaves a run queue in order.
LEMMA SwitchOK ==
  ASSUME NEW k, NobodyRuns(k), k.ready # << >>
  PROVE  /\ RunQueueOK(SwitchToHead(k))
         /\ k.status[Head(k.ready)] = "TASK_READY"
         /\ SwitchToHead(k).cur = Head(k.ready)
         /\ \A t \in Threads : SwitchToHead(k).status[t] =
              IF t = Head(k.ready) THEN "TASK_RUNNING" ELSE k.status[t]
<1>. DEFINE h == Head(k.ready)
            q == Tail(k.ready)
            m == [k EXCEPT !.cur = h, !.ready = q, !.status[h] = "TASK_RUNNING"]
<1>1. k.ready \in Seq(Threads) /\ NoDuplicates(k.ready)
  BY DEF NobodyRuns, CanSchedule, SchedulerState
<1>2. SwitchToHead(k) = m
  BY DEF SwitchToHead
<1>3. /\ h \in Threads /\ h \in Range(k.ready)
      /\ q \in Seq(Threads) /\ NoDuplicates(q)
      /\ Range(q) = Range(k.ready) \ {h}
  BY <1>1, PopFacts
<1>4. k.status[h] = "TASK_READY"
  BY <1>3 DEF NobodyRuns, CanSchedule, ReadyListIsReady
<1>. HIDE DEF h, q
<1>5. m \in SchedulerState /\ m.panic = FALSE /\ m.cur = h /\ m.ready = q
  BY <1>3 DEF NobodyRuns, CanSchedule, SchedulerState, Status
<1>6. \A t \in Threads : m.status[t] = IF t = h THEN "TASK_RUNNING" ELSE k.status[t]
  BY DEF NobodyRuns, CanSchedule, SchedulerState
<1>. HIDE DEF m
<1>7. OneRunning(m)
  BY <1>3, <1>5, <1>6 DEF NobodyRuns, OneRunning
<1>8. ReadyListIsReady(m)
  BY <1>3, <1>5, <1>6 DEF NobodyRuns, CanSchedule, ReadyListIsReady
<1>9. IdleCanRun(m)
  BY <1>6, ThreadsAssumption DEF NobodyRuns, CanSchedule, IdleCanRun
<1>10. RunQueueOK(m)
  BY <1>3, <1>5, <1>7, <1>8, <1>9 DEF RunQueueOK
<1>. QED BY <1>2, <1>4, <1>5, <1>6, <1>10 DEF h

\* schedule finds a thread to run and hits no ASSERT.
LEMMA ScheduleOK ==
  ASSUME NEW k, CanSchedule(k)
  PROVE  /\ RunQueueOK(schedule(k))
         /\ SameRunnable(k, schedule(k), Threads \ {Idle})
<1>. DEFINE q == Requeue(k)
            w == WakeIdle(q)
            m == SwitchToHead(w)
<1>1. /\ NobodyRuns(q)
      /\ \A t \in Threads : t # k.cur => q.status[t] = k.status[t]
      /\ IF k.status[k.cur] = "TASK_RUNNING"
         THEN q.status[k.cur] = "TASK_READY" ELSE q = k
  BY RequeueOK
<1>. HIDE DEF q
<1>2. /\ NobodyRuns(w) /\ w.ready # << >>
      /\ \A t \in Threads : t # Idle => w.status[t] = q.status[t]
  BY <1>1, WakeIdleOK
<1>. HIDE DEF w
<1>3. /\ RunQueueOK(m)
      /\ w.status[Head(w.ready)] = "TASK_READY"
      /\ \A t \in Threads : m.status[t] =
           IF t = Head(w.ready) THEN "TASK_RUNNING" ELSE w.status[t]
  BY <1>2, SwitchOK
<1>4. schedule(k) = m
  BY DEF schedule, q, w
<1>. HIDE DEF m
<1>5. SameRunnable(k, q, Threads)
  BY <1>1 DEF SameRunnable, Runnable
<1>6. SameRunnable(q, m, Threads \ {Idle})
  BY <1>2, <1>3 DEF SameRunnable, Runnable
<1>7. SameRunnable(k, m, Threads \ {Idle})
  BY <1>5, <1>6 DEF SameRunnable, Runnable
<1>. QED BY <1>3, <1>4, <1>7

\* A run queue in order may be scheduled or added to.
LEMMA RunQueueCanSchedule ==
  ASSUME NEW k, RunQueueOK(k)
  PROVE  CanSchedule(k)
BY DEF RunQueueOK, CanSchedule, OneRunning

\* thread_block: the caller and nobody else stops being able to run.
LEMMA BlockOK ==
  ASSUME NEW k, RunQueueOK(k), NEW stat \in Blocked,
         k.cur = Idle => stat = "TASK_BLOCKED"
  PROVE  /\ RunQueueOK(thread_block(k, stat))
         /\ k.cur # Idle => thread_block(k, stat).status[k.cur] = stat
         /\ SameRunnable(k, thread_block(k, stat), Threads \ {Idle, k.cur})
<1>. DEFINE b == [k EXCEPT !.status[k.cur] = stat]
<1>1. /\ b \in SchedulerState /\ b.panic = FALSE
      /\ b.cur = k.cur /\ b.ready = k.ready /\ k.cur \in Threads
  BY DEF RunQueueOK, SchedulerState, Status
<1>2. \A t \in Threads : b.status[t] = IF t = k.cur THEN stat ELSE k.status[t]
  BY DEF RunQueueOK, SchedulerState
<1>3. thread_block(k, stat) = schedule(b)
  BY DEF thread_block
<1>. HIDE DEF b
<1>4. stat # "TASK_READY" /\ stat # "TASK_RUNNING"
  BY DEF Blocked
<1>5. k.cur \notin Range(k.ready)
  BY <1>1 DEF RunQueueOK, ReadyListIsReady, OneRunning
<1>6. ReadyListIsReady(b)
  BY <1>1, <1>2, <1>4, <1>5 DEF RunQueueOK, ReadyListIsReady
<1>7. IdleCanRun(b)
  BY <1>2, ThreadsAssumption DEF RunQueueOK, IdleCanRun
<1>8. CanSchedule(b)
  BY <1>1, <1>2, <1>4, <1>6, <1>7 DEF RunQueueOK, CanSchedule, OneRunning
<1>9. /\ RunQueueOK(schedule(b))
      /\ SameRunnable(b, schedule(b), Threads \ {Idle})
  BY <1>8, ScheduleOK
<1>. QED BY <1>1, <1>2, <1>3, <1>4, <1>9 DEF SameRunnable, Runnable

\* thread_yield: the caller is queued exactly once.
LEMMA YieldOK ==
  ASSUME NEW k, RunQueueOK(k)
  PROVE  /\ RunQueueOK(thread_yield(k))
         /\ SameRunnable(k, thread_yield(k), Threads \ {Idle})
<1>. DEFINE q == Append(k.ready, k.cur)
            y == [k EXCEPT !.ready = q, !.status[k.cur] = "TASK_READY"]
<1>1. /\ k.cur \in Threads /\ k.ready \in Seq(Threads)
      /\ k.cur \notin Range(k.ready) /\ NoDuplicates(k.ready)
      /\ k.status[k.cur] = "TASK_RUNNING"
  BY DEF RunQueueOK, SchedulerState, ReadyListIsReady, OneRunning
<1>2. thread_yield(k) = schedule(y)
  BY <1>1 DEF thread_yield, Assert, InReadyList
<1>3. /\ q \in Seq(Threads) /\ NoDuplicates(q)
      /\ Range(q) = Range(k.ready) \cup {k.cur}
  BY <1>1, AppendFacts
<1>. HIDE DEF q
<1>4. y \in SchedulerState /\ y.panic = FALSE /\ y.cur = k.cur /\ y.ready = q
  BY <1>1, <1>3 DEF RunQueueOK, SchedulerState, Status
<1>5. \A t \in Threads : y.status[t] = IF t = k.cur THEN "TASK_READY" ELSE k.status[t]
  BY <1>1 DEF RunQueueOK, SchedulerState
<1>. HIDE DEF y
<1>6. ReadyListIsReady(y)
  BY <1>3, <1>4, <1>5 DEF RunQueueOK, ReadyListIsReady
<1>7. IdleCanRun(y)
  BY <1>5, ThreadsAssumption DEF RunQueueOK, IdleCanRun
<1>8. CanSchedule(y)
  BY <1>3, <1>4, <1>5, <1>6, <1>7 DEF RunQueueOK, CanSchedule, OneRunning
<1>9. /\ RunQueueOK(schedule(y))
      /\ SameRunnable(y, schedule(y), Threads \ {Idle})
  BY <1>8, ScheduleOK
<1>. QED BY <1>1, <1>2, <1>5, <1>9 DEF SameRunnable, Runnable

\* The clock interrupt.
LEMMA TimerOK ==
  ASSUME NEW k, RunQueueOK(k)
  PROVE  /\ RunQueueOK(intr_timer_handler(k))
         /\ SameRunnable(k, intr_timer_handler(k), Threads \ {Idle})
<1>1. CASE k.ticks[k.cur] = 0
  BY <1>1, ScheduleOK, RunQueueCanSchedule DEF intr_timer_handler
<1>2. CASE k.ticks[k.cur] # 0
  <2>. DEFINE m == [k EXCEPT !.ticks[k.cur] = @ - 1]
  <2>0. k.cur \in Threads /\ k.ticks[k.cur] - 1 \in Nat
    BY <1>2 DEF RunQueueOK, SchedulerState
  <2>1. /\ m \in SchedulerState /\ m.panic = FALSE /\ m.cur = k.cur
        /\ m.ready = k.ready /\ m.status = k.status
    BY <2>0 DEF RunQueueOK, SchedulerState
  <2>2. intr_timer_handler(k) = m
    BY <1>2 DEF intr_timer_handler
  <2>. HIDE DEF m
  <2>3. RunQueueOK(m)
    BY <2>1 DEF RunQueueOK, ReadyListIsReady, OneRunning, IdleCanRun
  <2>. QED BY <2>1, <2>2, <2>3 DEF SameRunnable
<1>. QED BY <1>1, <1>2

-----------------------------------------------------------------------------
\* Semaphores and locks, for callers that nobody interrupts.

\* sema_down finds the value 0: the caller blocks and is the last waiter.
LEMMA DownBlockOK ==
  ASSUME NEW k, RunQueueOK(k), k.cur # Idle,
         NEW s \in SemaphoreState, NoDuplicates(s.waiters), k.cur \notin Range(s.waiters)
  PROVE  /\ RunQueueOK(DownBlock(k, s))
         /\ DownBlock(k, s).status[k.cur] = "TASK_BLOCKED"
         /\ SameRunnable(k, DownBlock(k, s), Threads \ {Idle, k.cur})
         /\ DownWaiters(k, s) \in SemaphoreState
         /\ DownWaiters(k, s).value = s.value
         /\ NoDuplicates(DownWaiters(k, s).waiters)
         /\ Range(DownWaiters(k, s).waiters) = Range(s.waiters) \cup {k.cur}
<1>1. k.cur \in Threads /\ s.waiters \in Seq(Threads) /\ s.value \in Nat
  BY DEF RunQueueOK, SchedulerState, SemaphoreState
<1>2. DownBlock(k, s) = thread_block(k, "TASK_BLOCKED")
  BY DEF DownBlock, Assert, InWaiters
<1>3. /\ RunQueueOK(DownBlock(k, s))
      /\ DownBlock(k, s).status[k.cur] = "TASK_BLOCKED"
      /\ SameRunnable(k, DownBlock(k, s), Threads \ {Idle, k.cur})
  BY <1>2, BlockOK DEF Blocked
<1>4. /\ Append(s.waiters, k.cur) \in Seq(Threads)
      /\ NoDuplicates(Append(s.waiters, k.cur))
      /\ Range(Append(s.waiters, k.cur)) = Range(s.waiters) \cup {k.cur}
  BY <1>1, AppendFacts
<1>5. /\ DownWaiters(k, s) \in SemaphoreState
      /\ DownWaiters(k, s).value = s.value
      /\ DownWaiters(k, s).waiters = Append(s.waiters, k.cur)
  BY <1>1, <1>4 DEF DownWaiters, SemaphoreState
<1>. QED BY <1>3, <1>4, <1>5

\* What sema_down and sema_up make of a semaphore is a semaphore.
LEMMA SemaTypes ==
  ASSUME NEW s \in SemaphoreState, NEW t \in Threads
  PROVE  /\ [s EXCEPT !.waiters = Append(s.waiters, t)] \in SemaphoreState
         /\ [s EXCEPT !.value = 0] \in SemaphoreState
         /\ Up(s) \in SemaphoreState
<1>1. s.waiters \in Seq(Threads) /\ s.value \in Nat
  BY DEF SemaphoreState
<1>2. Append(s.waiters, t) \in Seq(Threads)
  BY <1>1
<1>3. (IF s.waiters = << >> THEN s.waiters ELSE Tail(s.waiters)) \in Seq(Threads)
  BY <1>1
<1>4. s.value + 1 \in Nat
  BY <1>1
<1>5. [s EXCEPT !.waiters = Append(s.waiters, t)] \in SemaphoreState
  BY <1>2 DEF SemaphoreState
<1>6. [s EXCEPT !.value = 0] \in SemaphoreState
  BY DEF SemaphoreState
<1>7. Up(s) \in SemaphoreState
  BY <1>3, <1>4 DEF Up, SemaphoreState
<1>. QED BY <1>5, <1>6, <1>7

\* sema_up: the first waiter, if there is one, becomes ready.
LEMMA UpOK ==
  ASSUME NEW k, RunQueueOK(k), NEW s \in SemaphoreState, s.value = 0,
         NoDuplicates(s.waiters), \A t \in Range(s.waiters) : k.status[t] = "TASK_BLOCKED"
  PROVE  /\ RunQueueOK(UpWake(k, s)) /\ UpWake(k, s).cur = k.cur
         /\ Up(s) \in SemaphoreState /\ Up(s).value = 1 /\ NoDuplicates(Up(s).waiters)
         /\ \/ s.waiters = << >> /\ UpWake(k, s) = k /\ Up(s).waiters = << >>
            \/ \E h \in Range(s.waiters) :
                 /\ Range(Up(s).waiters) = Range(s.waiters) \ {h}
                 /\ \A t \in Threads : UpWake(k, s).status[t] =
                                         IF t = h THEN "TASK_READY" ELSE k.status[t]
<1>. DEFINE w == s.waiters
            h == Head(w)
<1>0. w \in Seq(Threads)
  BY DEF SemaphoreState
<1>1. Up(s) \in SemaphoreState
  BY SemaTypes, ThreadsAssumption
<1>2. CASE w = << >>
  <2>1. UpWake(k, s) = k
    BY <1>2 DEF UpWake, Assert
  <2>3. Up(s).value = 1 /\ Up(s).waiters = w
    BY <1>2 DEF Up, SemaphoreState
  <2>. QED BY <1>1, <1>2, <2>1, <2>3
<1>3. CASE w # << >>
  <2>1. /\ h \in Threads /\ h \in Range(w) /\ Tail(w) \in Seq(Threads)
        /\ Range(Tail(w)) = Range(w) \ {h} /\ NoDuplicates(Tail(w))
    BY <1>0, <1>3, PopFacts
  <2>2. UpWake(k, s) = thread_unblock(k, h)
    BY <1>3 DEF UpWake, Assert
  <2>3. Up(s).value = 1 /\ Up(s).waiters = Tail(w)
    BY <1>3 DEF Up, SemaphoreState
  <2>. HIDE DEF h
  <2>4. /\ CanSchedule(UpWake(k, s)) /\ UpWake(k, s).cur = k.cur
        /\ \A t \in Threads : UpWake(k, s).status[t] =
                                IF t = h THEN "TASK_READY" ELSE k.status[t]
    BY <2>1, <2>2, UnblockOK, RunQueueCanSchedule DEF Blocked
  <2>5. RunQueueOK(UpWake(k, s))
    BY <2>1, <2>4 DEF CanSchedule, RunQueueOK, OneRunning
  <2>6. Range(Up(s).waiters) = Range(w) \ {h} /\ NoDuplicates(Up(s).waiters)
    BY <2>1, <2>3
  <2>. QED BY <1>1, <2>1, <2>3, <2>4, <2>5, <2>6
<1>. QED BY <1>2, <1>3

\* A lock that the threads of own have taken, and that those of at wait for or
\* were woken to take.
LockOf(k, lk, own, at) ==
  /\ lk \in LockState /\ NoDuplicates(lk.sema.waiters)
  /\ own \subseteq Threads \ {Idle} /\ at \subseteq Threads \ {Idle}
  /\ \A t \in Threads : t \in Range(lk.sema.waiters) <=> t \in at /\ k.status[t] = "TASK_BLOCKED"
  /\ \A t \in Threads : t \in own <=> lk.holder = t
  /\ lk.sema.value = IF lk.holder = NULL THEN 1 ELSE 0
  /\ lk.repeat = IF lk.holder = NULL THEN 0 ELSE 1

\* It does not change while nobody who waits for it is woken.
LEMMA LockOfSame ==
  ASSUME NEW k, NEW lk, NEW own, NEW at, LockOf(k, lk, own, at), NEW m,
         \A t \in at : m.status[t] = "TASK_BLOCKED" <=> k.status[t] = "TASK_BLOCKED"
  PROVE  LockOf(m, lk, own, at)
BY DEF LockOf

\* lock_acquire of a lock that is taken.
LEMMA LockOfWait ==
  ASSUME NEW k, NEW lk, NEW own, NEW at, LockOf(k, lk, own, at),
         RunQueueOK(k), k.cur # Idle, lk.sema.value = 0
  PROVE  /\ RunQueueOK(DownBlock(k, lk.sema))
         /\ DownBlock(k, lk.sema).status[k.cur] = "TASK_BLOCKED"
         /\ SameRunnable(k, DownBlock(k, lk.sema), Threads \ {Idle, k.cur})
         /\ LockOf(DownBlock(k, lk.sema), [lk EXCEPT !.sema = DownWaiters(k, lk.sema)],
                   own, at \cup {k.cur})
<1>. DEFINE s == lk.sema
            m == DownBlock(k, s)
            x == [lk EXCEPT !.sema = DownWaiters(k, s)]
<1>1. /\ k.cur \in Threads /\ k.status[k.cur] = "TASK_RUNNING"
      /\ s \in SemaphoreState /\ NoDuplicates(s.waiters)
  BY DEF RunQueueOK, SchedulerState, OneRunning, LockOf, LockState
<1>2. k.cur \notin Range(s.waiters)
  BY <1>1 DEF LockOf
<1>3. /\ RunQueueOK(m) /\ m.status[k.cur] = "TASK_BLOCKED"
      /\ SameRunnable(k, m, Threads \ {Idle, k.cur})
      /\ DownWaiters(k, s) \in SemaphoreState /\ DownWaiters(k, s).value = s.value
      /\ NoDuplicates(DownWaiters(k, s).waiters)
      /\ Range(DownWaiters(k, s).waiters) = Range(s.waiters) \cup {k.cur}
  BY <1>1, <1>2, DownBlockOK
<1>4. /\ x \in LockState /\ x.sema = DownWaiters(k, s)
      /\ x.holder = lk.holder /\ x.repeat = lk.repeat
  BY <1>3 DEF LockOf, LockState
<1>. HIDE DEF m, s, x
<1>5. \A t \in Threads : t \in Range(x.sema.waiters) <=>
                           t \in at \cup {k.cur} /\ m.status[t] = "TASK_BLOCKED"
  <2>1. \A t \in Threads \ {Idle, k.cur} :
          m.status[t] = "TASK_BLOCKED" <=> k.status[t] = "TASK_BLOCKED"
    BY <1>3 DEF SameRunnable, Runnable
  <2>2. at \subseteq Threads \ {Idle}
    BY DEF LockOf
  <2>3. \A t \in Threads : t \in Range(s.waiters) <=> t \in at /\ k.status[t] = "TASK_BLOCKED"
    BY DEF LockOf, s
  <2>. QED BY <1>1, <1>3, <1>4, <2>1, <2>2, <2>3
<1>6. LockOf(m, x, own, at \cup {k.cur})
  BY <1>1, <1>3, <1>4, <1>5 DEF LockOf, s
<1>. QED BY <1>3, <1>6 DEF m, s, x

\* lock_acquire of a lock that is free: its ASSERTs hold.
LEMMA LockOfTake ==
  ASSUME NEW k, NEW lk, NEW own, NEW at, LockOf(k, lk, own, at),
         RunQueueOK(k), NEW t \in Threads, k.cur = t, t # Idle, lk.sema.value # 0
  PROVE  /\ Assert(lk.repeat = 0, DownTaken(k, lk.sema)) = k
         /\ own = {}
         /\ LockOf(k, [holder |-> t, repeat |-> 1, sema |-> DownTake(lk.sema)],
                   {t}, at \ {t})
<1>. DEFINE x == [holder |-> t, repeat |-> 1, sema |-> DownTake(lk.sema)]
<1>1. /\ lk.holder = NULL /\ lk.repeat = 0 /\ lk.sema.value = 1 /\ own = {}
      /\ lk.sema \in SemaphoreState /\ k.status[t] = "TASK_RUNNING"
  BY NullAssumption DEF LockOf, LockState, RunQueueOK, OneRunning
<1>2. Assert(lk.repeat = 0, DownTaken(k, lk.sema)) = k
  BY <1>1 DEF Assert, DownTaken
<1>3. /\ DownTake(lk.sema) \in SemaphoreState /\ DownTake(lk.sema).value = 0
      /\ DownTake(lk.sema).waiters = lk.sema.waiters
  BY <1>1 DEF DownTake, SemaphoreState
<1>4. x \in LockState /\ x.sema = DownTake(lk.sema) /\ x.holder = t /\ x.repeat = 1
  BY <1>3 DEF LockState
<1>. HIDE DEF x
<1>5. LockOf(k, x, {t}, at \ {t})
  BY <1>1, <1>3, <1>4, NullAssumption DEF LockOf
<1>. QED BY <1>1, <1>2, <1>5 DEF x

\* lock_release: its ASSERTs hold, and whoever it wakes was waiting.
LEMMA LockOfRelease ==
  ASSUME NEW k, NEW lk, NEW own, NEW at, LockOf(k, lk, own, at),
         RunQueueOK(k), NEW t \in own
  PROVE  LET m == UpWake(Assert(lk.holder = t /\ lk.repeat = 1, k), lk.sema) IN
         /\ RunQueueOK(m) /\ m.cur = k.cur
         /\ LockOf(m, [holder |-> NULL, repeat |-> 0, sema |-> Up(lk.sema)], {}, at)
         /\ \A u \in Threads : \/ m.status[u] = k.status[u]
                               \/ /\ u \in at /\ k.status[u] = "TASK_BLOCKED"
                                  /\ m.status[u] = "TASK_READY"
<1>. DEFINE s == lk.sema
            m == UpWake(k, s)
            x == [holder |-> NULL, repeat |-> 0, sema |-> Up(s)]
<1>1. /\ t \in Threads /\ lk.holder = t /\ lk.repeat = 1 /\ s.value = 0
      /\ s \in SemaphoreState /\ NoDuplicates(s.waiters)
  BY NullAssumption DEF LockOf, LockState
<1>2. Range(s.waiters) \subseteq Threads
  BY <1>1 DEF SemaphoreState, Range
<1>3. \A u \in Range(s.waiters) : k.status[u] = "TASK_BLOCKED" /\ u \in at
  BY <1>2 DEF LockOf
<1>4. Assert(lk.holder = t /\ lk.repeat = 1, k) = k
  BY <1>1 DEF Assert
<1>5. /\ RunQueueOK(m) /\ m.cur = k.cur
      /\ Up(s) \in SemaphoreState /\ Up(s).value = 1 /\ NoDuplicates(Up(s).waiters)
      /\ \/ s.waiters = << >> /\ m = k /\ Up(s).waiters = << >>
         \/ \E h \in Range(s.waiters) :
              /\ Range(Up(s).waiters) = Range(s.waiters) \ {h}
              /\ \A u \in Threads : m.status[u] = IF u = h THEN "TASK_READY" ELSE k.status[u]
  BY <1>1, <1>3, UpOK
<1>6. x \in LockState /\ x.sema = Up(s) /\ x.holder = NULL /\ x.repeat = 0
  BY <1>5 DEF LockState
<1>. HIDE DEF m, s, x
<1>7. /\ \A u \in Threads : u \in Range(x.sema.waiters) <=> u \in at /\ m.status[u] = "TASK_BLOCKED"
      /\ \A u \in Threads : \/ m.status[u] = k.status[u]
                            \/ /\ u \in at /\ k.status[u] = "TASK_BLOCKED"
                               /\ m.status[u] = "TASK_READY"
  <2>0. \A u \in Threads : u \in Range(s.waiters) <=> u \in at /\ k.status[u] = "TASK_BLOCKED"
    BY DEF LockOf, s
  <2>1. CASE s.waiters = << >> /\ m = k /\ Up(s).waiters = << >>
    BY <1>6, <2>0, <2>1
  <2>2. CASE \E h \in Range(s.waiters) :
               /\ Range(Up(s).waiters) = Range(s.waiters) \ {h}
               /\ \A u \in Threads : m.status[u] = IF u = h THEN "TASK_READY" ELSE k.status[u]
    BY <1>2, <1>3, <1>6, <2>0, <2>2
  <2>. QED BY <1>5, <2>1, <2>2
<1>8. LockOf(m, x, {}, at)
  BY <1>5, <1>6, <1>7, NullAssumption DEF LockOf
<1>. QED BY <1>4, <1>5, <1>7, <1>8 DEF m, s, x

-----------------------------------------------------------------------------
\* Ring buffers of n positions.

RingLen(n, head, tail) == IF head >= tail THEN head - tail ELSE n - (tail - head)

Ring(n, buf, head, tail) == [i \in 1 .. RingLen(n, head, tail) |-> buf[(tail + i - 1) % n]]

\* The position of the i-th element.
RingAt(n, tail, i) == IF tail + (i - 1) < n THEN tail + (i - 1) ELSE tail + (i - 1) - n

\* The ring is a sequence, with its elements there.
IsRing(S, n, buf, head, tail) ==
  /\ RingLen(n, head, tail) \in 0 .. n - 1
  /\ Ring(n, buf, head, tail) \in [1 .. RingLen(n, head, tail) -> S]
  /\ \A i \in 1 .. RingLen(n, head, tail) :
       /\ Ring(n, buf, head, tail)[i] = buf[RingAt(n, tail, i)]
       /\ RingAt(n, tail, i) \in 0 .. n - 1

\* A position that is less than one turn ahead.
LEMMA OneTurn ==
  ASSUME NEW n \in Nat \ {0}, NEW p \in Nat, p < n + n
  PROVE  p % n = IF p < n THEN p ELSE p - n
<1>1. CASE p < n
  BY <1>1
<1>2. CASE p >= n
  BY <1>2
<1>. QED BY <1>1, <1>2

\* Whatever its head and tail are.
LEMMA RingFacts ==
  ASSUME NEW S, NEW n \in Nat \ {0}, NEW buf \in [0 .. n - 1 -> S],
         NEW head \in 0 .. n - 1, NEW tail \in 0 .. n - 1
  PROVE  IsRing(S, n, buf, head, tail)
<1>. DEFINE L == RingLen(n, head, tail)
            at(i) == RingAt(n, tail, i)
<1>1. L \in 0 .. n - 1
  BY DEF RingLen
<1>2. ASSUME NEW i \in 1 .. L
      PROVE  (tail + i - 1) % n = at(i) /\ at(i) \in 0 .. n - 1
  <2>. DEFINE p == tail + (i - 1)
  <2>1. p \in Nat /\ p < n + n
    BY <1>1
  <2>. HIDE DEF p
  <2>2. p % n = IF p < n THEN p ELSE p - n
    BY <2>1, OneTurn
  <2>. QED BY <1>1, <2>1, <2>2 DEF p, RingAt
<1>. HIDE DEF L, at
<1>3. Ring(n, buf, head, tail) = [i \in 1 .. L |-> buf[at(i)]]
  BY <1>2 DEF Ring, L
<1>4. \A i \in 1 .. L : at(i) \in 0 .. n - 1 /\ buf[at(i)] \in S
  BY <1>2
<1>5. /\ Ring(n, buf, head, tail) \in [1 .. L -> S]
      /\ \A i \in 1 .. L : Ring(n, buf, head, tail)[i] = buf[at(i)] /\ at(i) \in 0 .. n - 1
  BY <1>3, <1>4
<1>. QED BY <1>1, <1>5 DEF L, at, IsRing

\* The next position.
LEMMA RingNext ==
  ASSUME NEW n \in Nat \ {0, 1}, NEW p \in 0 .. n - 1
  PROVE  (p + 1) % n = (IF p = n - 1 THEN 0 ELSE p + 1) /\ (p + 1) % n \in 0 .. n - 1
<1>. DEFINE r == p + 1
<1>1. r \in Nat /\ r < n + n
  OBVIOUS
<1>. HIDE DEF r
<1>2. r % n = IF r < n THEN r ELSE r - n
  BY <1>1, OneTurn
<1>. QED BY <1>2 DEF r

\* Sequences given element by element.
LEMMA AppendIs ==
  ASSUME NEW S, NEW n \in Nat, NEW f \in [1 .. n -> S], NEW c \in S,
         NEW g \in [1 .. n + 1 -> S], g[n + 1] = c, \A i \in 1 .. n : g[i] = f[i]
  PROVE  g = Append(f, c) /\ Len(f) = n
OBVIOUS

\* The same for what remains of a sequence.
LEMMA TailIs ==
  ASSUME NEW S, NEW n \in Nat, n > 0, NEW f \in [1 .. n -> S],
         NEW g \in [1 .. n - 1 -> S], \A i \in 1 .. n - 1 : g[i] = f[i + 1]
  PROVE  g = Tail(f) /\ f # << >>
OBVIOUS

\* An element more at the end of the ring.
PutInRing(n, buf, head, tail, c) ==
  /\ RingLen(n, (head + 1) % n, tail) = RingLen(n, head, tail) + 1
  /\ RingLen(n, head, tail) < n - 1
  /\ Len(Ring(n, buf, head, tail)) = RingLen(n, head, tail)
  /\ Ring(n, [buf EXCEPT ![head] = c], (head + 1) % n, tail) =
       Append(Ring(n, buf, head, tail), c)

\* Writing at the head of a ring that is not full appends.
LEMMA RingPut ==
  ASSUME NEW S, NEW n \in Nat \ {0, 1}, NEW buf \in [0 .. n - 1 -> S],
         NEW head \in 0 .. n - 1, NEW tail \in 0 .. n - 1, NEW c \in S,
         (head + 1) % n # tail
  PROVE  PutInRing(n, buf, head, tail, c)
<1>. DEFINE h == (head + 1) % n
            b == [buf EXCEPT ![head] = c]
            L == RingLen(n, head, tail)
            at(i) == RingAt(n, tail, i)
            f == Ring(n, buf, head, tail)
            g == Ring(n, b, h, tail)
<1>1. h = (IF head = n - 1 THEN 0 ELSE head + 1) /\ h \in 0 .. n - 1
  BY RingNext
<1>. HIDE DEF h
<1>2. b \in [0 .. n - 1 -> S] /\ b[head] = c /\ \A i \in (0 .. n - 1) \ {head} : b[i] = buf[i]
  OBVIOUS
<1>. HIDE DEF b
<1>3. RingLen(n, h, tail) = L + 1 /\ L < n - 1 /\ L \in Nat
  BY <1>1 DEF h, RingLen
<1>4. /\ f \in [1 .. L -> S]
      /\ \A i \in 1 .. L : f[i] = buf[at(i)] /\ at(i) \in 0 .. n - 1
  <2>1. IsRing(S, n, buf, head, tail)
    BY RingFacts, Zenon
  <2>. QED BY <2>1 DEF IsRing
<1>5. /\ g \in [1 .. L + 1 -> S]
      /\ \A i \in 1 .. L + 1 : g[i] = b[at(i)]
  <2>1. IsRing(S, n, b, h, tail)
    BY <1>1, <1>2, RingFacts, Zenon
  <2>. QED BY <1>3, <2>1 DEF IsRing
<1>6. at(L + 1) = head /\ \A i \in 1 .. L : at(i) # head
  BY <1>3 DEF RingLen, RingAt
<1>. HIDE DEF f, g, at, L
<1>7. g[L + 1] = c
  BY <1>2, <1>3, <1>5, <1>6
<1>8. \A i \in 1 .. L : g[i] = f[i]
  BY <1>2, <1>3, <1>4, <1>5, <1>6
<1>9. g = Append(f, c) /\ Len(f) = L
  BY <1>3, <1>4, <1>5, <1>7, <1>8, AppendIs
<1>. QED BY <1>3, <1>9 DEF f, g, h, b, L, PutInRing

\* Advancing the tail of a ring that is not empty takes the first element.
LEMMA RingGet ==
  ASSUME NEW S, NEW n \in Nat \ {0, 1}, NEW buf \in [0 .. n - 1 -> S],
         NEW head \in 0 .. n - 1, NEW tail \in 0 .. n - 1, head # tail
  PROVE  /\ RingLen(n, head, (tail + 1) % n) = RingLen(n, head, tail) - 1
         /\ Ring(n, buf, head, tail) # << >>
         /\ Ring(n, buf, head, (tail + 1) % n) = Tail(Ring(n, buf, head, tail))
<1>. DEFINE u == (tail + 1) % n
            L == RingLen(n, head, tail)
            at(i) == RingAt(n, tail, i)
            au(i) == RingAt(n, u, i)
            f == Ring(n, buf, head, tail)
            g == Ring(n, buf, head, u)
<1>1. u = (IF tail = n - 1 THEN 0 ELSE tail + 1) /\ u \in 0 .. n - 1
  BY RingNext
<1>. HIDE DEF u
<1>2. RingLen(n, head, u) = L - 1 /\ L \in 1 .. n - 1
  BY <1>1 DEF RingLen
<1>3. f \in [1 .. L -> S] /\ \A i \in 1 .. L : f[i] = buf[at(i)]
  <2>1. IsRing(S, n, buf, head, tail)
    BY RingFacts, Zenon
  <2>. QED BY <2>1 DEF IsRing
<1>4. g \in [1 .. L - 1 -> S] /\ \A i \in 1 .. L - 1 : g[i] = buf[au(i)]
  <2>1. IsRing(S, n, buf, head, u)
    BY <1>1, RingFacts, Zenon
  <2>. QED BY <1>2, <2>1 DEF IsRing
<1>5. \A i \in 1 .. L - 1 : au(i) = at(i + 1) /\ i + 1 \in 1 .. L
  BY <1>1, <1>2 DEF RingAt
<1>. HIDE DEF f, g, at, au, L
<1>6. \A i \in 1 .. L - 1 : g[i] = f[i + 1]
  BY <1>3, <1>4, <1>5
<1>7. g = Tail(f) /\ f # << >>
  BY <1>2, <1>3, <1>4, <1>6, TailIs
<1>. QED BY <1>2, <1>7 DEF f, g, u, L

=============================================================================

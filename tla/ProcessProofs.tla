---------------------------- MODULE ProcessProofs ----------------------------
(***************************************************************************)
(* fork, wait and exit, for any number of processes, any pid pool and any  *)
(* size of the kernel's bitmaps: the thread table, the pids, the pages and *)
(* the parents stay in step, and the kernel stops nowhere but in fork.     *)
(***************************************************************************)
EXTENDS Process, CommonProofs, FiniteSetTheorems

\* The run queue is in order, also when the kernel has stopped.
QueueOK ==
  NoDuplicates(k.ready) /\ ReadyListIsReady(k) /\ OneRunning(k) /\ IdleCanRun(k)

\* The processes that fork, wait and exit.
Forked == Live \ {init, main, Idle}

\* thread_all_list, and the task_structs that are not in use.
ListOK ==
  /\ TypeOK /\ DOMAIN pc = Threads
  /\ QueueOK
  /\ Range(all) = Live /\ NoDuplicates(all)
  /\ \A t \in Threads \ Live : pid[t] = 0 /\ parent[t] = NoParent
  /\ init \in Live /\ k.status[init] # "TASK_HANGING" /\ k.status[main] # "NONE"

\* The pids of the live threads.
PidsOK ==
  /\ \A t \in Live : pid[t] \in pids
  /\ \A t, u \in Live : pid[t] = pid[u] => t = u
  /\ pid[init] = 1

\* p can still wait for t.
ParentOf(p, t) ==
  /\ p \in Live \ {t, main, Idle}
  /\ pid[p] = parent[t]
  /\ k.status[p] # "TASK_HANGING"

ParentsOK ==
  /\ \A t \in {init, main, Idle} : parent[t] = NoParent
  /\ \A t \in Forked : \E p \in Threads : ParentOf(p, t)

\* A process has its bitmap, apart from its other two pages.
ApartOK ==
  \A t \in Live \ {main, Idle} :
    /\ page[t].bits \in 0 .. KPages
    /\ {page[t].pcb, page[t].pgdir} \cap Pages(page[t].bits, AllocPages) = {}

\* The inductive invariant.
IInv ==
  /\ ListOK /\ PidsOK /\ ParentsOK
  /\ NoLostExit
  /\ PagesOwned /\ ApartOK
  /\ PanicOnlyInFork

-----------------------------------------------------------------------------
\* Lists, runs and pids.

\* A set of natural numbers that is not empty has a least element.
LEMMA LeastNat ==
  ASSUME NEW S, S \subseteq Nat, S # {}
  PROVE  \E m \in S : \A n \in S : m <= n
<1>. DEFINE R == OpToRel(<, Nat)
<1>1. IsWellFoundedOn(R, Nat)
  BY NatLessThanWellFounded
<1>2. \A x, y \in Nat : x < y => <<x, y>> \in R
  BY DEF OpToRel
<1>. HIDE DEF R
<1>3. PICK m \in S : \A n \in S : ~ (<<n, m>> \in R)
  BY <1>1, WFMin
<1>4. \A n \in S : ~ (n < m)
  BY <1>2, <1>3, Zenon
<1>5. \A n \in S : m <= n
  BY <1>4
<1>. QED BY <1>5

\* list_traversal returns an element it was asked for, if there is one.
LEMMA FirstOK ==
  ASSUME all \in Seq(Threads), NEW S, S \subseteq Range(all), S # {}
  PROVE  First(S) \in S
<1>. DEFINE I == {i \in DOMAIN all : all[i] \in S}
<1>1. I \subseteq Nat /\ I # {}
  BY DEF Range
<1>2. \E m \in I : \A n \in I : m <= n
  BY <1>1, LeastNat
<1>3. \E m \in DOMAIN all : all[m] \in S /\ \A j \in DOMAIN all : all[j] \in S => m <= j
  BY <1>2
<1>. DEFINE f == CHOOSE i \in DOMAIN all : all[i] \in S /\ \A j \in DOMAIN all : all[j] \in S => i <= j
<1>4. f \in DOMAIN all /\ all[f] \in S
  BY <1>3
<1>. QED BY <1>4 DEF First

\* list_remove takes one element off, and keeps the others.
LEMMA WithoutOK ==
  ASSUME NEW S, NEW s \in Seq(S), NoDuplicates(s), NEW c \in Range(s)
  PROVE  /\ Without(s, c) \in Seq(S) /\ NoDuplicates(Without(s, c))
         /\ Range(Without(s, c)) = Range(s) \ {c}
<1>. DEFINE n == CHOOSE i \in DOMAIN s : s[i] = c
            r == [j \in 1 .. Len(s) - 1 |-> s[IF j < n THEN j ELSE j + 1]]
<1>1. n \in DOMAIN s /\ s[n] = c
  BY DEF Range
<1>2. r = Without(s, c)
  BY DEF Without
<1>. HIDE DEF n
<1>3. /\ Len(s) \in Nat /\ DOMAIN s = 1 .. Len(s) /\ n \in 1 .. Len(s)
      /\ \A i \in 1 .. Len(s) : s[i] \in S
  BY <1>1
<1>4. r \in [1 .. Len(s) - 1 -> S] /\ Len(s) - 1 \in Nat
  BY <1>3
<1>5. r \in Seq(S) /\ DOMAIN r = 1 .. Len(s) - 1
  BY <1>4, <1>3
<1>6. \A j \in 1 .. Len(s) - 1 : r[j] = s[IF j < n THEN j ELSE j + 1]
  OBVIOUS
<1>. HIDE DEF r
<1>7. \A i, j \in 1 .. Len(s) : s[i] = s[j] => i = j
  BY <1>3 DEF NoDuplicates
<1>8. NoDuplicates(r)
  <2>. SUFFICES ASSUME NEW i \in 1 .. Len(s) - 1, NEW j \in 1 .. Len(s) - 1, r[i] = r[j]
                PROVE  i = j
    BY <1>5 DEF NoDuplicates
  <2>. DEFINE a == IF i < n THEN i ELSE i + 1
              b == IF j < n THEN j ELSE j + 1
  <2>1. a \in 1 .. Len(s) /\ b \in 1 .. Len(s) /\ s[a] = s[b]
    BY <1>3, <1>6
  <2>. HIDE DEF a, b
  <2>2. a = b
    BY <1>7, <2>1
  <2>. QED BY <1>3, <2>2 DEF a, b
<1>9. Range(r) \subseteq Range(s) \ {c}
  <2>. SUFFICES ASSUME NEW j \in 1 .. Len(s) - 1
                PROVE  r[j] \in Range(s) /\ r[j] # c
    BY <1>5 DEF Range
  <2>. DEFINE a == IF j < n THEN j ELSE j + 1
  <2>1. a \in 1 .. Len(s) /\ a # n /\ r[j] = s[a]
    BY <1>3, <1>6
  <2>. HIDE DEF a
  <2>. QED BY <1>1, <1>3, <1>7, <2>1 DEF Range
<1>10. Range(s) \ {c} \subseteq Range(r)
  <2>. SUFFICES ASSUME NEW i \in 1 .. Len(s), s[i] # c
                PROVE  s[i] \in Range(r)
    BY <1>3 DEF Range
  <2>. DEFINE j == IF i < n THEN i ELSE i - 1
  <2>1. j \in 1 .. Len(s) - 1 /\ i = (IF j < n THEN j ELSE j + 1)
    BY <1>1, <1>3
  <2>2. r[j] = s[i]
    BY <1>6, <2>1
  <2>. HIDE DEF j
  <2>. QED BY <1>5, <2>1, <2>2 DEF Range
<1>. QED BY <1>2, <1>5, <1>8, <1>9, <1>10

\* What the constants are, computed.
LEMMA Sizes ==
  /\ AllocPages \in Nat \ {0} /\ ReleasePages \in Nat /\ ReleasePages <= AllocPages
  /\ KPages \in Nat /\ KPages >= AllocPages + 3 /\ MaxPid \in Nat /\ MaxPid >= 3
BY ProcessAssumption DEF AllocPages, ReleasePages

\* bitmap_scan finds free bits, inside the bitmap or one past its end.
LEMMA FirstRunOK ==
  ASSUME NEW map, NEW n \in Nat \ {0}, Runs(map, n) # {}
  PROVE  /\ FirstRun(map, n) \in 0 .. KPages
         /\ Pages(FirstRun(map, n), n) \subseteq 0 .. KPages
         /\ Pages(FirstRun(map, n), n) \cap map = {}
         /\ FirstRun(map, n) \in Pages(FirstRun(map, n), n)
         /\ n = 1 => Pages(FirstRun(map, n), n) = {FirstRun(map, n)}
<1>. DEFINE R == Runs(map, n)
            f == FirstRun(map, n)
<1>1. R \subseteq Nat
  BY Sizes DEF Runs
<1>. HIDE DEF R
<1>2. \E i \in R : \A j \in R : i <= j
  BY <1>1, LeastNat DEF R
<1>3. f \in R
  BY <1>2 DEF FirstRun, R
<1>. HIDE DEF f
<1>4. /\ f \in 0 .. KPages - n + (IF n > 1 THEN 1 ELSE 0)
      /\ Pages(f, n) \cap map = {}
  BY <1>3 DEF R, Runs
<1>5. f \in Nat /\ f + n <= KPages + 1 /\ f <= KPages
  BY <1>4, Sizes
<1>6. /\ Pages(f, n) \subseteq 0 .. KPages
      /\ f \in Pages(f, n)
      /\ n = 1 => Pages(f, n) = {f}
  BY <1>5, Sizes DEF Pages
<1>. QED BY <1>4, <1>5, <1>6, Sizes DEF f

\* allocate_pid returns a pid that is free.
LEMMA FreePidOK ==
  ASSUME ~NoFreePid
  PROVE  FreePid \in 1 .. MaxPid /\ FreePid \notin pids
<1>. DEFINE R == (1 .. MaxPid) \ pids
<1>1. R \subseteq Nat /\ R # {}
  BY Sizes DEF NoFreePid
<1>. HIDE DEF R
<1>2. \E i \in R : \A j \in R : i <= j
  BY <1>1, LeastNat
<1>3. FreePid \in R
  BY <1>2 DEF FreePid, R
<1>. QED BY <1>3 DEF R

\* With fewer bits set than there are, one is free.
LEMMA RoomForOne ==
  ASSUME NEW map, map \subseteq 0 .. KPages, Cardinality(map) < KPages
  PROVE  Runs(map, 1) # {}
<1>. SUFFICES ASSUME Runs(map, 1) = {} PROVE FALSE
  OBVIOUS
<1>1. (0 .. KPages - 1) \subseteq map
  <2>. SUFFICES ASSUME NEW i \in 0 .. KPages - 1, i \notin map PROVE FALSE
    OBVIOUS
  <2>1. Pages(i, 1) = {i}
    BY Sizes DEF Pages
  <2>2. i \in Runs(map, 1)
    BY <2>1, Sizes DEF Runs
  <2>. QED BY <2>2
<1>2. IsFiniteSet(map)
  <2>1. IsFiniteSet(0 .. KPages) /\ map \in SUBSET (0 .. KPages)
    BY FS_Interval, Sizes
  <2>. QED BY <2>1, FS_Subset
<1>3. Cardinality(0 .. KPages - 1) = KPages
  BY FS_Interval, Sizes
<1>4. Cardinality(0 .. KPages - 1) <= Cardinality(map)
  BY <1>1, <1>2, FS_Subset
<1>5. Cardinality(map) \in Nat
  BY <1>2, FS_CardinalityType
<1>. QED BY <1>3, <1>4, <1>5, Sizes

\* The task_struct and the copy buffer of a fork.
LEMMA BufOK ==
  ASSUME used \subseteq 0 .. KPages, ~Exhausted(used, 2)
  PROVE  LET p == FirstRun(used, 1)
             b == FirstRun(Take(used, 1), 1)
         IN  /\ p \in 0 .. KPages /\ p \notin used
             /\ b \in 0 .. KPages /\ b \notin used \cup {p}
             /\ AfterBuf = used \cup {p, b}
<1>. DEFINE p == FirstRun(used, 1)
            u1 == Take(used, 1)
            b == FirstRun(u1, 1)
            u2 == Take(u1, 1)
<1>1. IsFiniteSet(0 .. KPages)
  BY FS_Interval, Sizes
<1>2. used \in SUBSET (0 .. KPages)
  OBVIOUS
<1>3. IsFiniteSet(used)
  BY <1>1, <1>2, FS_Subset
<1>4. Cardinality(used) \in Nat
  BY <1>3, FS_CardinalityType
<1>5. ~(Cardinality(used) + 2 > KPages) /\ Runs(used, 1) # {}
  BY DEF Exhausted
<1>6. p \in 0 .. KPages /\ p \notin used /\ u1 = used \cup {p}
  BY <1>5, FirstRunOK DEF Take
<1>7. Cardinality(u1) = Cardinality(used) + 1
  BY <1>3, <1>6, FS_AddElement
<1>8. Cardinality(u1) < KPages /\ u1 \subseteq 0 .. KPages
  <2>1. u1 \subseteq 0 .. KPages
    BY <1>6
  <2>2. Cardinality(u1) < KPages
    BY <1>4, <1>5, <1>7, Sizes
  <2>. QED BY <2>1, <2>2
<1>9. b \in 0 .. KPages /\ b \notin u1 /\ u2 = u1 \cup {b}
  <2>. HIDE DEF u1
  <2>1. Runs(u1, 1) # {}
    BY <1>8, RoomForOne
  <2>. QED BY <2>1, FirstRunOK DEF Take
<1>10. AfterBuf = u2
  BY DEF AfterBuf
<1>. HIDE DEF p, u1, b, u2
<1>11. AfterBuf = used \cup {p, b} /\ b \notin used \cup {p}
  BY <1>6, <1>9, <1>10
<1>. QED BY <1>6, <1>9, <1>11 DEF p, b, u1

\* The pages that fork claims for a child are free, apart from each other, and
\* all that stays claimed once the copy buffer is given back.
LEMMA ForkPagesOK ==
  ASSUME used \subseteq 0 .. KPages, BitsClaimed, ~Exhausted(AfterBits, 1), NEW t
  PROVE  LET new == ForkPages(t)
             own == {new.pcb, new.pgdir} \cup Pages(new.bits, AllocPages)
         IN  /\ new \in [pcb : 0 .. KPages, bits : 0 .. KPages, pgdir : 0 .. KPages]
             /\ {new.pcb, new.pgdir} \cap Pages(new.bits, AllocPages) = {}
             /\ own \cap used = {} /\ own \subseteq 0 .. KPages
             /\ Take(AfterBits, 1) \ {FirstRun(Take(used, 1), 1)} = used \cup own
<1>. DEFINE p == FirstRun(used, 1)
            b == FirstRun(Take(used, 1), 1)
            m == FirstRun(AfterBuf, AllocPages)
            d == FirstRun(AfterBits, 1)
            M == Pages(m, AllocPages)
<1>1. ForkPages(t) = [pcb |-> p, bits |-> m, pgdir |-> d]
  BY DEF ForkPages
<1>2. /\ ~Exhausted(used, 2)
      /\ Runs(AfterBuf, AllocPages) # {} /\ Runs(AfterBits, 1) # {}
  BY DEF BitsClaimed, Exhausted
<1>3. /\ p \in 0 .. KPages /\ p \notin used
      /\ b \in 0 .. KPages /\ b \notin used \cup {p}
      /\ AfterBuf = used \cup {p, b}
  BY <1>2, BufOK
<1>4. AllocPages \in Nat \ {0}
  BY Sizes
<1>5. m \in 0 .. KPages /\ M \subseteq 0 .. KPages /\ M \cap AfterBuf = {}
  BY <1>2, <1>4, FirstRunOK
<1>6. AfterBits = AfterBuf \cup M
  BY DEF AfterBits, Take
<1>7. /\ d \in 0 .. KPages /\ d \notin AfterBits
      /\ Take(AfterBits, 1) = AfterBits \cup {d}
  BY <1>2, FirstRunOK DEF Take
<1>. HIDE DEF p, b, m, d, M
<1>8. ForkPages(t).pcb = p /\ ForkPages(t).bits = m /\ ForkPages(t).pgdir = d
  BY <1>1
<1>9. ForkPages(t) \in [pcb : 0 .. KPages, bits : 0 .. KPages, pgdir : 0 .. KPages]
  BY <1>1, <1>3, <1>5, <1>7
<1>10. {p, d} \cap M = {} /\ ({p, d} \cup M) \cap used = {} /\ {p, d} \cup M \subseteq 0 .. KPages
  BY <1>3, <1>5, <1>6, <1>7
<1>11. Take(AfterBits, 1) \ {b} = used \cup ({p, d} \cup M)
  BY <1>3, <1>5, <1>6, <1>7
<1>12. FirstRun(Take(used, 1), 1) = b /\ Pages(m, AllocPages) = M
  BY DEF b, M
<1>. QED BY <1>8, <1>9, <1>10, <1>11, <1>12

-----------------------------------------------------------------------------
\* The steps.

\* A thread that makes a step: it is on the CPU and can become nobody's child.
LEMMA RunningThread ==
  ASSUME IInv, k.panic = FALSE
  PROVE  /\ RunQueueOK(k) /\ k.cur \in Live /\ k.status[k.cur] = "TASK_RUNNING"
         /\ k \in SchedulerState
<1>1. k \in SchedulerState /\ QueueOK
  BY DEF IInv, ListOK, TypeOK
<1>2. RunQueueOK(k)
  BY <1>1 DEF QueueOK, RunQueueOK
<1>. QED BY <1>1, <1>2 DEF RunQueueOK, OneRunning, SchedulerState, Live

\* The threads that boot starts are threads, and differ.
LEMMA BootThreads ==
  /\ init \in Threads /\ shell \in Threads /\ main \in Threads /\ Idle \in Threads
  /\ init # main /\ init # Idle /\ main # Idle /\ shell \notin {init, main, Idle}
  /\ Programs \subseteq Threads
<1>1. BootOrder = <<main, init, Idle>> /\ NoDuplicates(BootOrder)
  BY ProcessAssumption, BootAssumption
<1>2. <<main, init, Idle>>[1] # <<main, init, Idle>>[2]
  BY <1>1 DEF NoDuplicates
<1>. QED BY <1>2, ProcessAssumption, ThreadsAssumption DEF Programs

\* A thread keeps what fork, wait and exit ask of it; it may stop waiting, and
\* starts only with a child that has not ended.
SameAs(u) ==
  /\ u \in Live' <=> u \in Live
  /\ k'.status[u] = "NONE" <=> k.status[u] = "NONE"
  /\ k'.status[u] = "TASK_HANGING" <=> k.status[u] = "TASK_HANGING"
  /\ k'.status[u] = "TASK_WAITING" =>
       \/ k.status[u] = "TASK_WAITING"
       \/ Children(u) # {} /\ HangingChildren(u) = {}

\* What the scheduler does to threads other than x is such a step.
LEMMA SameAsOK ==
  ASSUME NEW x, RunQueueOK(k), RunQueueOK(k'), SameRunnable(k, k', Threads \ {Idle, x})
  PROVE  \A u \in Threads : u # x \/ u = Idle => SameAs(u)
<1>. SUFFICES ASSUME NEW u \in Threads, u # x \/ u = Idle
              PROVE  SameAs(u)
  OBVIOUS
<1>1. CASE u = Idle
  BY <1>1 DEF RunQueueOK, IdleCanRun, Live, SameAs
<1>2. CASE u # Idle
  BY <1>2 DEF SameRunnable, Runnable, Live, SameAs
<1>. QED BY <1>1, <1>2

\* Steps that leave the table, the parents and the pages alone.
LEMMA TableSame ==
  ASSUME IInv, RunQueueOK(k'), \A u \in Threads : SameAs(u), DOMAIN pc' = Threads,
         name' \in [Threads -> 0 .. NameMax],
         pids \subseteq pids', pids' \subseteq 1 .. MaxPid,
         used \subseteq used', used' \subseteq 0 .. KPages,
         UNCHANGED <<all, pid, parent, page>>
  PROVE  IInv'
<1>1. Live' = Live /\ Live \subseteq Threads
  BY DEF SameAs, Live
<1>2. ListOK'
  <2>1. TypeOK'
    BY DEF IInv, ListOK, TypeOK, RunQueueOK
  <2>2. QueueOK'
    BY DEF QueueOK, RunQueueOK
  <2>3. init \in Threads /\ main \in Threads
    BY BootThreads
  <2>. QED BY <1>1, <2>1, <2>2, <2>3 DEF IInv, ListOK, SameAs
<1>3. PidsOK'
  BY <1>1 DEF IInv, PidsOK
<1>4. ParentsOK'
  <2>1. \A p, t \in Threads : ParentOf(p, t) => ParentOf(p, t)'
    BY <1>1 DEF ParentOf, SameAs
  <2>2. Forked' = Forked
    BY <1>1 DEF Forked
  <2>. QED BY <1>1, <2>1, <2>2 DEF IInv, ParentsOK, Forked
<1>5. NoLostExit'
  <2>1. \A t \in Live : Children(t)' = Children(t)
    BY DEF Children
  <2>2. \A t \in Live : HangingChildren(t)' = HangingChildren(t)
    <3>1. Range(all) \subseteq Threads
      BY <1>1 DEF IInv, ListOK
    <3>. QED BY <3>1 DEF HangingChildren, SameAs
  <2>. QED BY <1>1, <2>1, <2>2 DEF IInv, NoLostExit, SameAs
<1>6. \A t \in Live : Owned(t)' = Owned(t)
  BY <1>1 DEF Owned, SameAs
<1>7. PagesOwned'
  BY <1>1, <1>6 DEF IInv, PagesOwned
<1>8. ApartOK'
  BY <1>1 DEF IInv, ApartOK
<1>9. PanicOnlyInFork'
  BY DEF PanicOnlyInFork, RunQueueOK
<1>. QED BY <1>2, <1>3, <1>4, <1>5, <1>7, <1>8, <1>9 DEF IInv

\* The kernel stops.
LEMMA StopOK ==
  ASSUME IInv, NEW t, k.cur = t, NEW label \in {"full", "name"}, Stop(t, label)
  PROVE  IInv'
<1>1. /\ k \in SchedulerState /\ DOMAIN pc = Threads
      /\ k' = [k EXCEPT !.panic = TRUE] /\ pc' = [pc EXCEPT ![t] = label]
      /\ UNCHANGED <<all, pid, parent, name, pids, used, page>>
  BY DEF IInv, ListOK, TypeOK, Stop, Goto
<1>2. /\ k' \in SchedulerState /\ k'.status = k.status /\ k'.ready = k.ready
      /\ k'.cur = k.cur /\ k.cur \in Threads
  BY <1>1 DEF SchedulerState
<1>3. Live' = Live
  BY <1>2 DEF Live
<1>4. ListOK'
  <2>1. TypeOK'
    BY <1>1, <1>2 DEF IInv, ListOK, TypeOK
  <2>2. QueueOK'
    BY <1>2 DEF IInv, ListOK, QueueOK, ReadyListIsReady, OneRunning, IdleCanRun
  <2>. QED BY <1>1, <1>2, <1>3, <2>1, <2>2 DEF IInv, ListOK
<1>5. PidsOK' /\ ParentsOK'
  BY <1>1, <1>2, <1>3 DEF IInv, PidsOK, ParentsOK, ParentOf, Forked
<1>6. NoLostExit'
  BY <1>1, <1>2, <1>3 DEF IInv, NoLostExit, Children, HangingChildren
<1>7. PagesOwned' /\ ApartOK'
  BY <1>1, <1>2, <1>3 DEF IInv, PagesOwned, ApartOK, Owned
<1>8. PanicOnlyInFork'
  BY <1>1, <1>2 DEF PanicOnlyInFork
<1>. QED BY <1>4, <1>5, <1>6, <1>7, <1>8 DEF IInv

\* fork, with everything it needs.
LEMMA ForkIntoOK ==
  ASSUME IInv, NEW t \in Threads \ {main, Idle}, k.cur = t, k.panic = FALSE,
         NEW c \in Threads, NEW next, ForkInto(t, c, next)
  PROVE  IInv'
<1>1. /\ RunQueueOK(k) /\ t \in Live /\ k.status[t] = "TASK_RUNNING"
      /\ k.status[c] = "NONE"
  BY RunningThread DEF ForkInto
<1>2. /\ c \notin Live /\ c \notin {t, init, main, Idle}
      /\ Live \subseteq Threads /\ Range(all) = Live /\ init \in Live
  BY <1>1 DEF IInv, ListOK, Live, RunQueueOK, IdleCanRun
<1>3. TypeOK /\ DOMAIN pc = Threads
  BY DEF IInv, ListOK
<1>4. /\ used \subseteq 0 .. KPages /\ BitsClaimed /\ ~Exhausted(AfterBits, 1)
      /\ name[t] < NameLimit /\ ~NoFreePid
  BY <1>3 DEF TypeOK, ForkInto, ForkSucceeds, NameFits, BitsClaimed
<1>5. FreePid \in 1 .. MaxPid /\ FreePid \notin pids
  BY <1>4, FreePidOK
<1>. DEFINE f == FreePid
            new == ForkPages(t)
            own == {new.pcb, new.pgdir} \cup Pages(new.bits, AllocPages)
<1>6. /\ new \in [pcb : 0 .. KPages, bits : 0 .. KPages, pgdir : 0 .. KPages]
      /\ {new.pcb, new.pgdir} \cap Pages(new.bits, AllocPages) = {}
      /\ own \cap used = {} /\ own \subseteq 0 .. KPages
      /\ used' = used \cup own
  BY <1>4, ForkPagesOK DEF ForkInto
<1>7. /\ pid' = [pid EXCEPT ![c] = f] /\ pids' = pids \cup {f}
      /\ parent' = [parent EXCEPT ![c] = pid[t]]
      /\ name' = [name EXCEPT ![c] = name[t] + ForkSuffix]
      /\ page' = [page EXCEPT ![c] = new]
      /\ k' = [k EXCEPT !.status[c] = "TASK_READY", !.ticks[c] = Priority[c],
                        !.ready = Append(@, c)]
      /\ all' = Append(all, c)
      /\ DOMAIN pc' = Threads
  BY <1>3 DEF ForkInto
<1>. HIDE DEF f, new
<1>8. f \in 1 .. MaxPid /\ f \notin pids /\ Priority[c] \in Nat
  BY <1>5, ThreadsAssumption DEF f
<1>9. /\ c \notin Range(k.ready) /\ k.ready \in Seq(Threads) /\ NoDuplicates(k.ready)
      /\ all \in Seq(Threads) /\ NoDuplicates(all) /\ c \notin Range(all)
  BY <1>1, <1>2, <1>3 DEF RunQueueOK, ReadyListIsReady, SchedulerState, IInv, ListOK, TypeOK
<1>10. /\ Append(k.ready, c) \in Seq(Threads) /\ NoDuplicates(Append(k.ready, c))
       /\ Range(Append(k.ready, c)) = Range(k.ready) \cup {c}
       /\ Append(all, c) \in Seq(Threads) /\ NoDuplicates(Append(all, c))
       /\ Range(Append(all, c)) = Range(all) \cup {c}
  BY <1>9, AppendFacts
<1>11. /\ k' \in SchedulerState /\ k'.ready = Append(k.ready, c) /\ k'.cur = k.cur
       /\ k'.panic = FALSE
       /\ \A u \in Threads : k'.status[u] = IF u = c THEN "TASK_READY" ELSE k.status[u]
  BY <1>1, <1>7, <1>8, <1>10 DEF RunQueueOK, SchedulerState, Status
<1>12. QueueOK'
  <2>1. NoDuplicates(k'.ready) /\ Range(k'.ready) = Range(k.ready) \cup {c}
    BY <1>10, <1>11
  <2>2. RunQueueOK(k')
    BY <1>1, <1>2, <1>11, <2>1, ThreadsAssumption
       DEF RunQueueOK, ReadyListIsReady, OneRunning, IdleCanRun
  <2>. QED BY <2>2 DEF QueueOK, RunQueueOK
<1>13. Live' = Live \cup {c}
  BY <1>2, <1>11 DEF Live
<1>14. /\ pid' \in [Threads -> 0 .. MaxPid] /\ pid'[c] = f
       /\ \A u \in Threads : u # c => pid'[u] = pid[u]
  BY <1>3, <1>7, <1>8 DEF TypeOK
<1>15. pid[t] \in 1 .. MaxPid /\ pid[t] \in pids
  BY <1>1, <1>3 DEF IInv, PidsOK, TypeOK
<1>16. /\ parent' \in [Threads -> {NoParent} \cup 1 .. MaxPid] /\ parent'[c] = pid[t]
       /\ \A u \in Threads : u # c => parent'[u] = parent[u]
  BY <1>3, <1>7, <1>15 DEF TypeOK
<1>17. name' \in [Threads -> 0 .. NameMax]
  <2>0. name[t] \in 0 .. NameMax /\ name[t] < NameLimit
    BY <1>3, <1>4 DEF TypeOK
  <2>1. name[t] + ForkSuffix \in 0 .. NameMax
    BY <2>0 DEF NameLimit, ForkSuffix, NameMax
  <2>. QED BY <1>3, <1>7, <2>1 DEF TypeOK
<1>18. /\ page' \in [Threads -> [pcb : PageOrNone, bits : PageOrNone, pgdir : PageOrNone]]
       /\ page'[c] = new /\ \A u \in Threads : u # c => page'[u] = page[u]
  <2>1. new \in [pcb : PageOrNone, bits : PageOrNone, pgdir : PageOrNone]
    BY <1>6, Sizes DEF PageOrNone
  <2>. QED BY <1>3, <1>7, <2>1 DEF TypeOK
<1>19. ListOK'
  <2>1. TypeOK'
    BY <1>3, <1>6, <1>7, <1>8, <1>10, <1>11, <1>14, <1>16, <1>17, <1>18 DEF TypeOK
  <2>2. Range(all') = Live' /\ NoDuplicates(all')
    BY <1>2, <1>7, <1>10, <1>13
  <2>3. \A u \in Threads \ Live' : pid'[u] = 0 /\ parent'[u] = NoParent
    BY <1>13, <1>14, <1>16 DEF IInv, ListOK
  <2>4. init \in Live' /\ k'.status[init] # "TASK_HANGING" /\ k'.status[main] # "NONE"
    BY <1>2, <1>11, <1>13, BootThreads DEF IInv, ListOK
  <2>. QED BY <1>7, <1>12, <2>1, <2>2, <2>3, <2>4 DEF ListOK
<1>20. PidsOK'
  BY <1>2, <1>7, <1>8, <1>13, <1>14 DEF IInv, PidsOK
<1>21. ParentsOK'
  <2>1. \A p \in Threads, u \in Forked : ParentOf(p, u) => ParentOf(p, u)'
    BY <1>2, <1>11, <1>13, <1>14, <1>16 DEF ParentOf, Forked
  <2>2. ParentOf(t, c)'
    BY <1>1, <1>2, <1>11, <1>13, <1>14, <1>16 DEF ParentOf
  <2>3. \A u \in Forked' : u = c \/ u \in Forked
    BY <1>13 DEF Forked
  <2>4. \A u \in Forked' : \E p \in Threads : ParentOf(p, u)'
    BY <2>1, <2>2, <2>3 DEF IInv, ParentsOK
  <2>5. \A u \in {init, main, Idle} : parent'[u] = NoParent
    BY <1>2, <1>16, BootThreads DEF IInv, ParentsOK
  <2>. QED BY <2>4, <2>5 DEF ParentsOK
<1>22. NoLostExit'
  <2>. SUFFICES ASSUME NEW u \in Live', k'.status[u] = "TASK_WAITING"
                PROVE  Children(u)' # {} /\ (u # init => HangingChildren(u)' = {})
    BY DEF NoLostExit
  <2>1. u \in Live /\ k.status[u] = "TASK_WAITING" /\ u # c
    BY <1>11, <1>13, <1>2
  <2>2. Children(u) # {} /\ (u # init => HangingChildren(u) = {})
    BY <2>1 DEF IInv, NoLostExit
  <2>3. Range(all') = Range(all) \cup {c} /\ pid'[u] = pid[u]
    BY <1>2, <1>7, <1>10, <1>14, <2>1
  <2>4. Children(u) \subseteq Children(u)'
    BY <1>2, <1>16, <2>3 DEF Children
  <2>5. HangingChildren(u)' \subseteq HangingChildren(u)
    BY <1>2, <1>11, <1>16, <2>3 DEF HangingChildren
  <2>. QED BY <2>2, <2>4, <2>5
<1>23. \A u \in Live : Owned(u)' = Owned(u)
  BY <1>2, <1>11, <1>18 DEF Owned
<1>24. Owned(c)' \subseteq own
  BY <1>18 DEF Owned
<1>25. PagesOwned'
  <2>1. \A u \in Live : Owned(u)' \subseteq used /\ c # u
    BY <1>2, <1>23 DEF IInv, PagesOwned
  <2>. QED BY <1>6, <1>13, <1>23, <1>24, <2>1 DEF IInv, PagesOwned
<1>26. ApartOK'
  BY <1>2, <1>6, <1>13, <1>18 DEF IInv, ApartOK
<1>27. PanicOnlyInFork'
  BY <1>11 DEF PanicOnlyInFork
<1>. QED BY <1>19, <1>20, <1>21, <1>22, <1>25, <1>26, <1>27 DEF IInv

\* fork.
LEMMA ForkOK ==
  ASSUME IInv, NEW t \in Threads \ {main, Idle}, k.cur = t, k.panic = FALSE,
         NEW c \in Threads, NEW next, sys_fork(t, c, next)
  PROVE  IInv'
<1>1. CASE ForkInto(t, c, next)
  BY <1>1, ForkIntoOK
<1>2. CASE ForkFails(t, next)
  <2>1. RunQueueOK(k) /\ TypeOK /\ DOMAIN pc = Threads
    BY RunningThread DEF IInv, ListOK
  <2>2. used \subseteq AfterBuf /\ AfterBuf \subseteq 0 .. KPages
    <3>1. used \subseteq 0 .. KPages /\ ~Exhausted(used, 2)
      BY <1>2, <2>1 DEF TypeOK, ForkFails, NoRoomForBits
    <3>. QED BY <3>1, BufOK
  <2>3. FreePid \in 1 .. MaxPid
    BY <1>2, FreePidOK DEF ForkFails, NoRoomForBits
  <2>4. /\ UNCHANGED <<k, all, pid, parent, name, page>>
        /\ used' = AfterBuf /\ pids' = pids \cup {FreePid} /\ DOMAIN pc' = Threads
    BY <1>2, <2>1 DEF ForkFails, Goto
  <2>5. \A u \in Threads : SameAs(u)
    BY <2>4 DEF SameAs, Live
  <2>6. RunQueueOK(k')
    BY <2>1, <2>4
  <2>7. name' \in [Threads -> 0 .. NameMax] /\ pids' \subseteq 1 .. MaxPid
    BY <2>1, <2>3, <2>4 DEF TypeOK
  <2>. QED BY <2>2, <2>4, <2>5, <2>6, <2>7, TableSame
<1>3. CASE Stop(t, "name") \/ Stop(t, "full")
  BY <1>3, StopOK
<1>. QED BY <1>1, <1>2, <1>3 DEF sys_fork

\* thread_exit of c, which has ended or is main: it was nobody's parent, and
\* nobody who sleeps waits for it.
LEMMA GoneOK ==
  ASSUME IInv, NEW c \in Live \ {init, Idle}, ThreadGone(c), UNCHANGED name,
         c = main \/ k.status[c] = "TASK_HANGING",
         RunQueueOK(k'), c \notin Live', k'.status[main] # "NONE",
         \A u \in Threads \ {c} : SameAs(u), DOMAIN pc' = Threads,
         \A u \in Live \ {c} : k'.status[u] = "TASK_WAITING" =>
                                 k.status[u] = "TASK_WAITING" /\ parent[c] # pid[u]
  PROVE  IInv'
<1>1. /\ Live' = Live \ {c} /\ Live \subseteq Threads /\ c \in Threads
      /\ Range(all) = Live /\ TypeOK
  BY DEF SameAs, Live, IInv, ListOK
<1>2. /\ all' = Without(all, c) /\ pids' = pids \ {pid[c]}
      /\ pid' = [pid EXCEPT ![c] = 0]
      /\ parent' = [parent EXCEPT ![c] = NoParent]
      /\ used' = used \ {page[c].pcb, page[c].pgdir}
      /\ page' = [page EXCEPT ![c] = NoPages]
  BY DEF ThreadGone, Unlist
<1>3. /\ all' \in Seq(Threads) /\ NoDuplicates(all') /\ Range(all') = Live'
  <2>1. all \in Seq(Threads) /\ NoDuplicates(all) /\ c \in Range(all)
    BY <1>1 DEF IInv, ListOK, TypeOK
  <2>. QED BY <1>1, <1>2, <2>1, WithoutOK
<1>4. /\ pid' \in [Threads -> 0 .. MaxPid] /\ pid'[c] = 0
      /\ \A u \in Threads : u # c => pid'[u] = pid[u]
  BY <1>1, <1>2, Sizes DEF TypeOK
<1>5. /\ parent' \in [Threads -> {NoParent} \cup 1 .. MaxPid] /\ parent'[c] = NoParent
      /\ \A u \in Threads : u # c => parent'[u] = parent[u]
  BY <1>1, <1>2 DEF TypeOK
<1>6. /\ page' \in [Threads -> [pcb : PageOrNone, bits : PageOrNone, pgdir : PageOrNone]]
      /\ \A u \in Threads : u # c => page'[u] = page[u]
  <2>1. NoPages \in [pcb : PageOrNone, bits : PageOrNone, pgdir : PageOrNone]
    BY Sizes DEF NoPages, PageOrNone
  <2>. QED BY <1>1, <1>2, <2>1 DEF TypeOK
<1>7. ListOK'
  <2>1. TypeOK'
    BY <1>1, <1>2, <1>3, <1>4, <1>5, <1>6 DEF TypeOK, RunQueueOK
  <2>2. QueueOK'
    BY DEF QueueOK, RunQueueOK
  <2>3. \A u \in Threads \ Live' : pid'[u] = 0 /\ parent'[u] = NoParent
    BY <1>1, <1>4, <1>5 DEF IInv, ListOK
  <2>4. init \in Live' /\ k'.status[init] # "TASK_HANGING"
    BY <1>1, BootThreads DEF IInv, ListOK, SameAs
  <2>. QED BY <1>3, <2>1, <2>2, <2>3, <2>4 DEF ListOK
<1>8. PidsOK'
  <2>1. \A u \in Live' : pid'[u] = pid[u] /\ pid[u] # pid[c] /\ u \in Live
    BY <1>1, <1>4 DEF IInv, PidsOK
  <2>. QED BY <1>1, <1>2, <1>4, <2>1, BootThreads DEF IInv, PidsOK
<1>9. ParentsOK'
  <2>1. \A p \in Threads, u \in Forked : ParentOf(p, u) => p # c
    BY DEF ParentOf
  <2>2. \A p \in Threads, u \in Forked' : ParentOf(p, u) => ParentOf(p, u)'
    BY <1>1, <1>4, <1>5, <2>1 DEF ParentOf, Forked, SameAs
  <2>3. Forked' \subseteq Forked
    BY <1>1 DEF Forked
  <2>4. \A u \in {init, main, Idle} : parent'[u] = NoParent
    BY <1>5, BootThreads DEF IInv, ParentsOK
  <2>. QED BY <2>2, <2>3, <2>4 DEF IInv, ParentsOK
<1>10. NoLostExit'
  <2>. SUFFICES ASSUME NEW u \in Live', k'.status[u] = "TASK_WAITING"
                PROVE  Children(u)' # {} /\ (u # init => HangingChildren(u)' = {})
    BY DEF NoLostExit
  <2>1. u \in Live /\ u # c /\ k.status[u] = "TASK_WAITING" /\ parent[c] # pid[u]
    BY <1>1
  <2>2. Children(u) # {} /\ (u # init => HangingChildren(u) = {})
    BY <2>1 DEF IInv, NoLostExit
  <2>3. Range(all') = Range(all) \ {c} /\ pid'[u] = pid[u]
    BY <1>1, <1>3, <1>4, <2>1
  <2>4. Children(u) \subseteq Children(u)'
    BY <1>1, <1>5, <2>1, <2>3 DEF Children
  <2>5. HangingChildren(u)' \subseteq HangingChildren(u)
    BY <1>1, <1>5, <2>1, <2>3 DEF HangingChildren, SameAs
  <2>. QED BY <2>2, <2>4, <2>5
<1>11. \A u \in Live' : Owned(u)' = Owned(u)
  BY <1>1, <1>6 DEF Owned, SameAs
<1>12. PagesOwned'
  <2>1. \A u \in Live' : {page[c].pcb, page[c].pgdir} \cap Owned(u) = {}
    <3>. SUFFICES ASSUME NEW u \in Live', NEW x \in {page[c].pcb, page[c].pgdir},
                         x \in Owned(u)
                  PROVE  FALSE
      OBVIOUS
    <3>1. u \in Live /\ u # c /\ x \in used
      BY <1>1 DEF IInv, PagesOwned
    <3>2. x # -1
      BY <1>1, <3>1 DEF TypeOK
    <3>3. x \in Owned(c)
      BY <3>2 DEF Owned
    <3>. QED BY <3>1, <3>3 DEF IInv, PagesOwned
  <2>2. \A u \in Live' : Owned(u)' \subseteq used'
    <3>. SUFFICES ASSUME NEW u \in Live' PROVE Owned(u) \subseteq used'
      BY <1>11
    <3>1. Owned(u) \subseteq used
      BY <1>1 DEF IInv, PagesOwned
    <3>. QED BY <1>2, <2>1, <3>1
  <2>3. \A u, v \in Live' : u # v => Owned(u)' \cap Owned(v)' = {}
    BY <1>1, <1>11 DEF IInv, PagesOwned
  <2>. QED BY <2>2, <2>3 DEF PagesOwned
<1>13. ApartOK'
  BY <1>1, <1>6 DEF IInv, ApartOK
<1>14. PanicOnlyInFork'
  BY DEF PanicOnlyInFork, RunQueueOK
<1>. QED BY <1>7, <1>8, <1>9, <1>10, <1>12, <1>13, <1>14 DEF IInv

\* wait reaps a child that has ended.
LEMMA ReapOK ==
  ASSUME IInv, NEW t \in Threads \ {main, Idle}, k.cur = t, k.panic = FALSE,
         NEW c \in HangingChildren(t), ThreadGone(c),
         k' = [k EXCEPT !.status[c] = "NONE",
                        !.ready = IF InReadyList(k, c) THEN Without(@, c) ELSE @],
         DOMAIN pc' = Threads, UNCHANGED name
  PROVE  IInv'
<1>1. /\ RunQueueOK(k) /\ t \in Live /\ k.status[t] = "TASK_RUNNING"
      /\ Range(all) = Live /\ Live \subseteq Threads
  BY RunningThread DEF IInv, ListOK, TypeOK, Live
<1>2. /\ c \in Live \ {init, Idle} /\ k.status[c] = "TASK_HANGING" /\ parent[c] = pid[t]
      /\ c \in Threads
  BY <1>1 DEF HangingChildren, IInv, ListOK, RunQueueOK, IdleCanRun
<1>3. c # main
  <2>1. pid[t] # NoParent
    BY <1>1 DEF IInv, PidsOK, ListOK, TypeOK, NoParent
  <2>. QED BY <1>2, <2>1 DEF IInv, ParentsOK
<1>4. c \notin Range(k.ready)
  BY <1>1, <1>2 DEF RunQueueOK, ReadyListIsReady
<1>5. /\ k' \in SchedulerState /\ k'.ready = k.ready /\ k'.cur = k.cur /\ k'.panic = FALSE
      /\ \A u \in Threads : k'.status[u] = IF u = c THEN "NONE" ELSE k.status[u]
  <2>1. k \in SchedulerState /\ ~InReadyList(k, c)
    BY <1>1, <1>4 DEF RunQueueOK, InReadyList
  <2>2. /\ k'.ready = k.ready /\ k'.cur = k.cur /\ k'.panic = k.panic
        /\ k'.ticks = k.ticks /\ k'.status = [k.status EXCEPT ![c] = "NONE"]
    BY <2>1 DEF SchedulerState
  <2>3. k' \in SchedulerState
    BY <1>2, <2>1 DEF SchedulerState, Status
  <2>. QED BY <1>2, <2>1, <2>2, <2>3 DEF SchedulerState
<1>6. RunQueueOK(k')
  BY <1>1, <1>2, <1>5, ThreadsAssumption
     DEF RunQueueOK, ReadyListIsReady, OneRunning, IdleCanRun
<1>7. \A u \in Threads \ {c} : SameAs(u)
  BY <1>5 DEF SameAs, Live
<1>8. c \notin Live' /\ k'.status[main] # "NONE"
  BY <1>2, <1>3, <1>5, BootThreads DEF Live, IInv, ListOK
<1>9. \A u \in Live \ {c} : k'.status[u] = "TASK_WAITING" =>
                              k.status[u] = "TASK_WAITING" /\ parent[c] # pid[u]
  BY <1>1, <1>2, <1>5 DEF IInv, PidsOK
<1>. QED BY <1>2, <1>6, <1>7, <1>8, <1>9, GoneOK

\* wait: reap a child, go on, or sleep.
LEMMA WaitOK ==
  ASSUME IInv, NEW t \in Threads \ {main, Idle}, k.cur = t, k.panic = FALSE,
         NEW next, NEW none, sys_wait(t, next, none)
  PROVE  IInv'
<1>1. RunQueueOK(k) /\ TypeOK /\ DOMAIN pc = Threads /\ k.status[t] = "TASK_RUNNING"
  BY RunningThread DEF IInv, ListOK
<1>2. CASE /\ HangingChildren(t) # {}
           /\ LET c == First(HangingChildren(t)) IN
              /\ ThreadGone(c)
              /\ k' = [k EXCEPT !.status[c] = "NONE",
                                !.ready = IF InReadyList(k, c) THEN Without(@, c) ELSE @]
           /\ Goto(t, next)
           /\ UNCHANGED name
  <2>. DEFINE c == First(HangingChildren(t))
  <2>1. all \in Seq(Threads) /\ HangingChildren(t) \subseteq Range(all)
    BY <1>1 DEF TypeOK, HangingChildren
  <2>2. c \in HangingChildren(t)
    BY <1>2, <2>1, FirstOK
  <2>3. DOMAIN pc' = Threads
    BY <1>1, <1>2 DEF Goto
  <2>4. /\ ThreadGone(c) /\ UNCHANGED name
        /\ k' = [k EXCEPT !.status[c] = "NONE",
                          !.ready = IF InReadyList(k, c) THEN Without(@, c) ELSE @]
    BY <1>2
  <2>. HIDE DEF c
  <2>. QED BY <2>2, <2>3, <2>4, ReapOK
<1>3. CASE /\ HangingChildren(t) = {} /\ Children(t) = {}
           /\ Goto(t, none)
           /\ UNCHANGED <<k, all, pid, parent, name, pids, used, page>>
  <2>1. \A u \in Threads : SameAs(u)
    BY <1>3 DEF SameAs, Live
  <2>2. RunQueueOK(k') /\ DOMAIN pc' = Threads
    BY <1>1, <1>3 DEF Goto
  <2>3. name' \in [Threads -> 0 .. NameMax] /\ pids' \subseteq 1 .. MaxPid /\ used' \subseteq 0 .. KPages
    BY <1>1, <1>3 DEF TypeOK
  <2>. QED BY <1>3, <2>1, <2>2, <2>3, TableSame
<1>4. CASE /\ HangingChildren(t) = {} /\ Children(t) # {}
           /\ k' = thread_block(k, "TASK_WAITING")
           /\ Goto(t, "wait")
           /\ UNCHANGED <<all, pid, parent, name, pids, used, page>>
  <2>1. /\ RunQueueOK(k') /\ k'.status[t] = "TASK_WAITING"
        /\ SameRunnable(k, k', Threads \ {Idle, t})
    BY <1>1, <1>4, BlockOK DEF Blocked
  <2>2. \A u \in Threads : u # t => SameAs(u)
    BY <1>1, <2>1, SameAsOK
  <2>3. SameAs(t)
    BY <1>1, <1>4, <2>1 DEF SameAs, Live
  <2>4. \A u \in Threads : SameAs(u)
    BY <2>2, <2>3
  <2>5. DOMAIN pc' = Threads
    BY <1>1, <1>4 DEF Goto
  <2>6. name' \in [Threads -> 0 .. NameMax] /\ pids' \subseteq 1 .. MaxPid /\ used' \subseteq 0 .. KPages
    BY <1>1, <1>4 DEF TypeOK
  <2>. QED BY <1>4, <2>1, <2>4, <2>5, <2>6, TableSame
<1>. QED BY <1>2, <1>3, <1>4 DEF sys_wait

\* The process that sys_exit finds with pid2thread is the parent; it is woken
\* exactly when it waits.
LEMMA WakeParentOK ==
  ASSUME IInv, k.panic = FALSE, NEW t \in Forked, NEW p \in Threads, ParentOf(p, t)
  PROVE  /\ RunQueueOK(WakeParent(t)) /\ WakeParent(t).cur = k.cur
         /\ \A u \in Threads :
              WakeParent(t).status[u] =
                IF u = p /\ k.status[p] = "TASK_WAITING" THEN "TASK_READY" ELSE k.status[u]
<1>1. RunQueueOK(k) /\ all \in Seq(Threads) /\ Range(all) = Live
  BY RunningThread DEF IInv, ListOK, TypeOK
<1>2. p \in WithPid(parent[t]) /\ WithPid(parent[t]) \subseteq Range(all)
  BY <1>1 DEF WithPid, ParentOf
<1>3. First(WithPid(parent[t])) \in WithPid(parent[t])
  BY <1>1, <1>2, FirstOK
<1>4. First(WithPid(parent[t])) = p
  BY <1>1, <1>3 DEF WithPid, ParentOf, IInv, PidsOK
<1>5. WakeParent(t) = IF k.status[p] = "TASK_WAITING" THEN thread_unblock(k, p) ELSE k
  BY <1>2, <1>4 DEF WakeParent
<1>6. CASE k.status[p] # "TASK_WAITING"
  BY <1>1, <1>5, <1>6
<1>7. CASE k.status[p] = "TASK_WAITING"
  <2>. DEFINE m == thread_unblock(k, p)
  <2>1. /\ CanSchedule(m) /\ m.cur = k.cur
        /\ \A u \in Threads : m.status[u] = IF u = p THEN "TASK_READY" ELSE k.status[u]
    BY <1>1, <1>7, RunQueueCanSchedule, UnblockOK DEF Blocked
  <2>2. m = WakeParent(t)
    BY <1>5, <1>7
  <2>. HIDE DEF m
  <2>3. RunQueueOK(m)
    BY <1>1, <1>7, <2>1 DEF CanSchedule, RunQueueOK, OneRunning
  <2>. QED BY <1>7, <2>1, <2>2, <2>3
<1>. QED BY <1>6, <1>7

\* exit: the children go to init, the bitmap is given back, the parent is woken.
LEMMA ExitOK ==
  ASSUME IInv, NEW t \in Programs, k.cur = t, k.panic = FALSE, sys_exit(t)
  PROVE  IInv'
<1>1. /\ RunQueueOK(k) /\ t \in Live /\ k.status[t] = "TASK_RUNNING" /\ TypeOK
      /\ t \in Forked /\ t \in Threads /\ Live \subseteq Threads /\ Range(all) = Live
      /\ t # Idle /\ t # init /\ t # main
  BY RunningThread DEF IInv, ListOK, Forked, Programs, Live
<1>2. PICK p \in Threads : ParentOf(p, t)
  BY <1>1 DEF IInv, ParentsOK
<1>. DEFINE m == WakeParent(t)
<1>3. /\ RunQueueOK(m) /\ m.cur = t
      /\ \A u \in Threads :
           m.status[u] =
             IF u = p /\ k.status[p] = "TASK_WAITING" THEN "TASK_READY" ELSE k.status[u]
  BY <1>1, <1>2, WakeParentOK
<1>. HIDE DEF m
<1>4. pid[t] \in 1 .. MaxPid /\ \A u \in Live : pid[u] \in 1 .. MaxPid
  BY <1>1 DEF IInv, PidsOK, TypeOK
<1>5. parent[t] # NoParent
  BY <1>2, <1>4 DEF ParentOf, NoParent
<1>6. /\ k' = thread_block(m, "TASK_HANGING")
      /\ parent' = Adopt(t) /\ used' = used \ Pages(page[t].bits, ReleasePages)
      /\ pc' = [pc EXCEPT ![t] = "gone"]
      /\ UNCHANGED <<all, pid, name, pids, page>>
  BY <1>5 DEF sys_exit, Assert, Goto, m
<1>7. /\ RunQueueOK(k') /\ k'.status[t] = "TASK_HANGING"
      /\ SameRunnable(m, k', Threads \ {Idle, t})
  BY <1>1, <1>3, <1>6, BlockOK DEF Blocked
<1>8. \A u \in Threads \ {t} :
        /\ u \in Live' <=> u \in Live
        /\ k'.status[u] = "NONE" <=> k.status[u] = "NONE"
        /\ k'.status[u] = "TASK_HANGING" <=> k.status[u] = "TASK_HANGING"
        /\ k'.status[u] = "TASK_WAITING" => k.status[u] = "TASK_WAITING" /\ u # p
  <2>. SUFFICES ASSUME NEW u \in Threads \ {t}
                PROVE  /\ u \in Live' <=> u \in Live
                       /\ k'.status[u] = "NONE" <=> k.status[u] = "NONE"
                       /\ k'.status[u] = "TASK_HANGING" <=> k.status[u] = "TASK_HANGING"
                       /\ k'.status[u] = "TASK_WAITING" =>
                            k.status[u] = "TASK_WAITING" /\ u # p
    OBVIOUS
  <2>1. CASE u = Idle
    BY <1>1, <1>7, <2>1 DEF RunQueueOK, IdleCanRun, Live
  <2>2. CASE u # Idle
    <3>1. IF m.status[u] \in Runnable THEN k'.status[u] \in Runnable
                                      ELSE k'.status[u] = m.status[u]
      BY <1>7, <2>2 DEF SameRunnable
    <3>. QED BY <1>3, <3>1 DEF Runnable, Live
  <2>. QED BY <2>1, <2>2
<1>9. Live' = Live
  BY <1>1, <1>7, <1>8 DEF Live
<1>10. /\ parent' \in [Threads -> {NoParent} \cup 1 .. MaxPid]
       /\ \A u \in Threads : parent'[u] = IF parent[u] = pid[t] THEN 1 ELSE parent[u]
  <2>1. 1 \in 1 .. MaxPid
    BY Sizes
  <2>. QED BY <1>1, <1>6, <2>1 DEF Adopt, TypeOK
<1>11. ListOK'
  <2>1. used' \subseteq 0 .. KPages
    BY <1>1, <1>6 DEF TypeOK
  <2>2. TypeOK'
    BY <1>1, <1>6, <1>7, <1>10, <2>1 DEF TypeOK, RunQueueOK
  <2>3. QueueOK'
    BY <1>7 DEF QueueOK, RunQueueOK
  <2>4. \A u \in Threads \ Live' : pid'[u] = 0 /\ parent'[u] = NoParent
    BY <1>4, <1>6, <1>9, <1>10 DEF IInv, ListOK, NoParent
  <2>5. init \in Live' /\ k'.status[init] # "TASK_HANGING" /\ k'.status[main] # "NONE"
    BY <1>1, <1>8, <1>9, BootThreads DEF IInv, ListOK
  <2>. QED BY <1>6, <1>9, <2>2, <2>3, <2>4, <2>5 DEF IInv, ListOK
<1>12. PidsOK'
  BY <1>6, <1>9 DEF IInv, PidsOK
<1>13. ParentsOK'
  <2>1. \A u \in {init, main, Idle} : parent'[u] = NoParent
    BY <1>4, <1>10, BootThreads DEF IInv, ParentsOK, NoParent
  <2>. SUFFICES ASSUME NEW u \in Forked' PROVE \E q \in Threads : ParentOf(q, u)'
    BY <2>1 DEF ParentsOK
  <2>2. u \in Forked /\ u \in Live /\ u # init /\ u \in Threads
    BY <1>1, <1>9 DEF Forked
  <2>3. CASE parent[u] = pid[t]
    <3>1. /\ init \in Live \ {u, main, Idle} /\ pid[init] = 1
          /\ k'.status[init] # "TASK_HANGING"
      BY <1>1, <1>8, <2>2, BootThreads DEF IInv, ListOK, PidsOK
    <3>2. ParentOf(init, u)'
      BY <1>6, <1>9, <1>10, <2>2, <2>3, <3>1 DEF ParentOf
    <3>. QED BY <3>2, BootThreads
  <2>4. CASE parent[u] # pid[t]
    <3>1. PICK q \in Threads : ParentOf(q, u)
      BY <2>2 DEF IInv, ParentsOK
    <3>2. q # t
      BY <2>4, <3>1 DEF ParentOf
    <3>3. ParentOf(q, u)'
      BY <1>6, <1>8, <1>9, <1>10, <2>2, <2>4, <3>1, <3>2 DEF ParentOf
    <3>. QED BY <3>3
  <2>. QED BY <2>3, <2>4
<1>14. NoLostExit'
  <2>. SUFFICES ASSUME NEW u \in Live', k'.status[u] = "TASK_WAITING"
                PROVE  Children(u)' # {} /\ (u # init => HangingChildren(u)' = {})
    BY DEF NoLostExit
  <2>1. u \in Live /\ u # t /\ u # p /\ u \in Threads /\ k.status[u] = "TASK_WAITING"
    BY <1>1, <1>7, <1>8, <1>9
  <2>2. Children(u) # {} /\ (u # init => HangingChildren(u) = {})
    BY <2>1 DEF IInv, NoLostExit
  <2>3. pid[u] # pid[t] /\ pid[u] # pid[p] /\ (u # init => pid[u] # 1)
    BY <1>1, <1>2, <2>1 DEF IInv, PidsOK, ListOK, ParentOf
  <2>4. Children(u) \subseteq Children(u)'
    BY <1>1, <1>6, <1>10, <2>3 DEF Children
  <2>5. u # init => HangingChildren(u)' \subseteq HangingChildren(u)
    <3>. SUFFICES ASSUME u # init, NEW c \in HangingChildren(u)'
                  PROVE  c \in HangingChildren(u)
      OBVIOUS
    <3>1. c \in Range(all) /\ c \in Threads /\ parent'[c] = pid[u] /\ k'.status[c] = "TASK_HANGING"
      BY <1>1, <1>6 DEF HangingChildren
    <3>2. parent[c] = pid[u]
      BY <1>10, <2>3, <3>1
    <3>3. c # t
      BY <1>2, <2>3, <3>2 DEF ParentOf
    <3>. QED BY <1>8, <3>1, <3>2, <3>3 DEF HangingChildren
  <2>. QED BY <2>2, <2>4, <2>5
<1>15. /\ page[t].bits \in 0 .. KPages
       /\ {page[t].pcb, page[t].pgdir} \cap Pages(page[t].bits, AllocPages) = {}
       /\ Pages(page[t].bits, ReleasePages) \subseteq Pages(page[t].bits, AllocPages)
  <2>1. /\ page[t].bits \in 0 .. KPages
        /\ {page[t].pcb, page[t].pgdir} \cap Pages(page[t].bits, AllocPages) = {}
    BY <1>1 DEF IInv, ApartOK
  <2>. QED BY <2>1, Sizes DEF Pages
<1>16. /\ Owned(t) = ({page[t].pcb, page[t].pgdir} \ {-1}) \cup Pages(page[t].bits, AllocPages)
       /\ Owned(t)' = {page[t].pcb, page[t].pgdir} \ {-1}
  <2>1. page[t].bits # -1
    BY <1>15, Sizes
  <2>. QED BY <1>1, <1>6, <1>7, <2>1 DEF Owned
<1>17. \A u \in Live : u # t => Owned(u)' = Owned(u)
  BY <1>1, <1>6, <1>8 DEF Owned
<1>18. PagesOwned'
  <2>1. \A u \in Live : u # t => Owned(u) \cap Pages(page[t].bits, ReleasePages) = {}
    BY <1>1, <1>15, <1>16 DEF IInv, PagesOwned
  <2>2. Owned(t)' \subseteq Owned(t) /\ Owned(t)' \cap Pages(page[t].bits, ReleasePages) = {}
    BY <1>15, <1>16
  <2>3. \A u \in Live' : Owned(u)' \subseteq used'
    <3>. SUFFICES ASSUME NEW u \in Live PROVE Owned(u)' \subseteq used'
      BY <1>9
    <3>1. Owned(u) \subseteq used
      BY DEF IInv, PagesOwned
    <3>2. used' = used \ Pages(page[t].bits, ReleasePages)
      BY <1>6
    <3>. QED BY <1>17, <2>1, <2>2, <3>1, <3>2
  <2>4. \A u \in Live : Owned(u)' \subseteq Owned(u)
    BY <1>17, <2>2
  <2>5. \A u, v \in Live' : u # v => Owned(u)' \cap Owned(v)' = {}
    BY <1>9, <2>4 DEF IInv, PagesOwned
  <2>. QED BY <2>3, <2>5 DEF PagesOwned
<1>19. ApartOK'
  BY <1>6, <1>9 DEF IInv, ApartOK
<1>20. PanicOnlyInFork'
  BY <1>7 DEF PanicOnlyInFork, RunQueueOK
<1>. QED BY <1>11, <1>12, <1>13, <1>14, <1>18, <1>19, <1>20 DEF IInv

\* main ends.
LEMMA MainExitOK ==
  ASSUME IInv, main_exit
  PROVE  IInv'
<1>1. /\ k.panic = FALSE /\ k.cur = main /\ ThreadGone(main) /\ UNCHANGED name
      /\ k' = schedule([k EXCEPT !.status[main] = "TASK_DIED"])
      /\ pc' = [pc EXCEPT ![main] = "gone"]
  BY DEF main_exit, Running, Goto
<1>2. RunQueueOK(k) /\ main \in Live /\ main \in Threads /\ main # init /\ main # Idle
  BY <1>1, RunningThread, BootThreads
<1>. DEFINE m == [k EXCEPT !.status[main] = "TASK_DIED"]
<1>3. /\ m \in SchedulerState /\ m.ready = k.ready /\ m.cur = k.cur /\ m.panic = FALSE
      /\ \A u \in Threads : m.status[u] = IF u = main THEN "TASK_DIED" ELSE k.status[u]
  BY <1>2 DEF RunQueueOK, SchedulerState, Status
<1>4. k' = schedule(m)
  BY <1>1
<1>. HIDE DEF m
<1>5. CanSchedule(m)
  BY <1>1, <1>2, <1>3, ThreadsAssumption
     DEF RunQueueOK, CanSchedule, ReadyListIsReady, OneRunning, IdleCanRun
<1>6. RunQueueOK(k') /\ SameRunnable(m, k', Threads \ {Idle})
  BY <1>4, <1>5, ScheduleOK
<1>7. k'.status[main] = "TASK_DIED"
  BY <1>2, <1>3, <1>6 DEF SameRunnable, Runnable
<1>8. \A u \in Threads \ {main} :
        /\ SameAs(u)
        /\ k'.status[u] = "TASK_WAITING" => k.status[u] = "TASK_WAITING"
  <2>. SUFFICES ASSUME NEW u \in Threads \ {main}
                PROVE  /\ SameAs(u)
                       /\ k'.status[u] = "TASK_WAITING" => k.status[u] = "TASK_WAITING"
    OBVIOUS
  <2>1. CASE u = Idle
    BY <1>2, <1>6, <2>1 DEF RunQueueOK, IdleCanRun, Live, SameAs
  <2>2. CASE u # Idle
    BY <1>3, <1>6, <2>2 DEF SameRunnable, Runnable, Live, SameAs
  <2>. QED BY <2>1, <2>2
<1>9. main \notin Live' /\ k'.status[main] # "NONE"
  BY <1>7 DEF Live
<1>10. \A u \in Live \ {main} : k'.status[u] = "TASK_WAITING" =>
                                  k.status[u] = "TASK_WAITING" /\ parent[main] # pid[u]
  <2>1. Live \subseteq Threads
    BY DEF Live
  <2>2. \A u \in Live : pid[u] # NoParent
    BY DEF IInv, PidsOK, ListOK, TypeOK, NoParent
  <2>. QED BY <1>8, <2>1, <2>2 DEF IInv, ParentsOK
<1>11. DOMAIN pc' = Threads
  BY <1>1 DEF IInv, ListOK
<1>. QED BY <1>1, <1>2, <1>6, <1>8, <1>9, <1>10, <1>11, GoneOK

\* Idle, the clock and execv leave the table alone.
LEMMA OtherOK ==
  ASSUME IInv, IdleStep \/ Timer \/ \E t \in Programs : ProgramExecs(t)
  PROVE  IInv'
<1>1. k.panic = FALSE /\ DOMAIN pc' = Threads /\ TypeOK
  BY DEF IInv, ListOK, IdleStep, IdleBlock, IdleHalt, Timer, ClockInterrupt, EndHalt, Goto,
         ProgramExecs, sys_execv, Running
<1>2. RunQueueOK(k)
  BY <1>1, RunningThread
<1>3. RunQueueOK(k') /\ SameRunnable(k, k', Threads \ {Idle, Idle})
  <2>1. CASE IdleBlock
    BY <1>2, <2>1, BlockOK DEF IdleBlock, Running, Blocked
  <2>2. CASE UNCHANGED k
    BY <1>2, <2>2 DEF SameRunnable
  <2>3. CASE Timer
    <3>1. Threads \ {Idle, Idle} = Threads \ {Idle}
      OBVIOUS
    <3>2. RunQueueOK(k') /\ SameRunnable(k, k', Threads \ {Idle})
      BY <1>2, <2>3, TimerOK DEF Timer, ClockInterrupt
    <3>. QED BY <3>1, <3>2
  <2>. QED BY <2>1, <2>2, <2>3 DEF IdleStep, IdleHalt, ProgramExecs, sys_execv
<1>4. \A u \in Threads : SameAs(u)
  BY <1>2, <1>3, SameAsOK
<1>5. UNCHANGED <<all, pid, parent, pids, used, page>>
  BY DEF IdleStep, Timer, Others, ProgramExecs, sys_execv
<1>6. name' \in [Threads -> 0 .. NameMax]
  <2>1. CASE UNCHANGED name
    BY <1>1, <2>1 DEF TypeOK
  <2>2. ASSUME NEW t \in Programs, NEW len \in PathLens, sys_execv(t, len)
        PROVE  name' \in [Threads -> 0 .. NameMax]
    <3>1. (IF len > NameMax THEN NameMax ELSE len) \in 0 .. NameMax
      BY ProcessAssumption DEF NameMax
    <3>. QED BY <1>1, <2>2, <3>1 DEF TypeOK, sys_execv
  <2>. QED BY <2>1, <2>2 DEF IdleStep, Timer, Others, ProgramExecs
<1>7. pids' \subseteq 1 .. MaxPid /\ used' \subseteq 0 .. KPages
  BY <1>1, <1>5 DEF TypeOK
<1>. QED BY <1>1, <1>3, <1>4, <1>5, <1>6, <1>7, TableSame

\* What boot leaves behind.
LEMMA InitIInv ==
  ASSUME Init
  PROVE  IInv
<1>0. BootOrder = <<main, init, Idle>>
  BY ProcessAssumption
<1>1. /\ Head(BootOrder) = main /\ Tail(BootOrder) = <<init, Idle>>
      /\ Range(BootOrder) = {main, init, Idle}
  <2>1. DOMAIN BootOrder = {1, 2, 3}
    BY <1>0
  <2>. QED BY <1>0, <2>1 DEF Range
<1>2. /\ k.panic = FALSE /\ k.cur = main /\ k.ready = <<init, Idle>> /\ k.ticks = Priority
      /\ k.status = [t \in Threads |-> IF t = main THEN "TASK_RUNNING"
                                       ELSE IF t \in {main, init, Idle} THEN "TASK_READY"
                                       ELSE "NONE"]
      /\ k = [status |-> k.status, ready |-> k.ready, cur |-> k.cur,
              ticks |-> k.ticks, panic |-> k.panic]
  BY <1>1 DEF Init, InitScheduler
<1>3. \A t \in Threads : k.status[t] = IF t = main THEN "TASK_RUNNING"
                                       ELSE IF t = init \/ t = Idle THEN "TASK_READY"
                                       ELSE "NONE"
  BY <1>2
<1>4. Live = {init, main, Idle}
  BY <1>3, BootThreads DEF Live
<1>5. k \in SchedulerState
  <2>1. k.status \in [Threads -> Status] /\ k.ready \in Seq(Threads)
    BY <1>2, BootThreads DEF Status
  <2>. QED BY <1>2, <2>1, BootThreads, ThreadsAssumption DEF SchedulerState
<1>6. Range(<<init, Idle>>) = {init, Idle} /\ NoDuplicates(<<init, Idle>>)
  <2>1. DOMAIN <<init, Idle>> = {1, 2}
    OBVIOUS
  <2>. QED BY <2>1, BootThreads DEF Range, NoDuplicates
<1>7. QueueOK
  BY <1>2, <1>3, <1>6, BootThreads DEF QueueOK, ReadyListIsReady, OneRunning, IdleCanRun
<1>8. /\ all \in Seq(Threads) /\ Range(all) = Live /\ NoDuplicates(all)
  <2>1. all = <<init, main, Idle>> /\ DOMAIN <<init, main, Idle>> = {1, 2, 3}
    BY DEF Init
  <2>. QED BY <1>4, <2>1, BootThreads DEF Range, NoDuplicates
<1>9. /\ pid = [t \in Threads |-> IF t = init THEN 1 ELSE IF t = main THEN 2
                                  ELSE IF t = Idle THEN 3 ELSE 0]
      /\ parent = [t \in Threads |-> NoParent]
      /\ name = [t \in Threads |-> 4]
      /\ pids = {1, 2, 3}
      /\ DOMAIN pc = Threads
  BY DEF Init
<1>10. /\ used = 0 .. AllocPages + 2
       /\ page[init] = [pcb |-> 0, bits |-> 1, pgdir |-> AllocPages + 1]
       /\ page[Idle] = [pcb |-> AllocPages + 2, bits |-> -1, pgdir |-> -1]
       /\ page[main] = [pcb |-> -1, bits |-> -1, pgdir |-> -1]
       /\ page \in [Threads -> [pcb : PageOrNone, bits : PageOrNone, pgdir : PageOrNone]]
  <2>1. used = 0 .. AllocPages + 2
    BY Sizes DEF Init, Pages
  <2>. DEFINE a == [pcb |-> 0, bits |-> 1, pgdir |-> AllocPages + 1]
              i == [NoPages EXCEPT !.pcb = AllocPages + 2]
              P == [pcb : PageOrNone, bits : PageOrNone, pgdir : PageOrNone]
  <2>2. a \in P /\ i \in P /\ NoPages \in P
    BY Sizes DEF NoPages, PageOrNone
  <2>3. i = [pcb |-> AllocPages + 2, bits |-> -1, pgdir |-> -1]
    BY DEF NoPages
  <2>4. page = [t \in Threads |-> IF t = init THEN a ELSE IF t = Idle THEN i ELSE NoPages]
    BY DEF Init
  <2>. HIDE DEF a, i, P
  <2>5. page \in [Threads -> P] /\ page[init] = a /\ page[Idle] = i /\ page[main] = NoPages
    BY <2>2, <2>4, BootThreads
  <2>. QED BY <2>1, <2>3, <2>5 DEF a, P, NoPages
<1>11. ListOK
  <2>1. used \subseteq 0 .. KPages
    BY <1>10, Sizes
  <2>2. pids \subseteq 1 .. MaxPid /\ pid \in [Threads -> 0 .. MaxPid]
    BY <1>9, Sizes
  <2>3. TypeOK
    BY <1>5, <1>8, <1>9, <1>10, <2>1, <2>2 DEF TypeOK, NameMax
  <2>. QED BY <1>3, <1>4, <1>7, <1>8, <1>9, <2>3, BootThreads DEF ListOK
<1>12. PidsOK /\ ParentsOK
  BY <1>4, <1>9, BootThreads DEF PidsOK, ParentsOK, Forked
<1>13. NoLostExit
  BY <1>3, <1>4, BootThreads DEF NoLostExit
<1>14. /\ Owned(init) = {0, AllocPages + 1} \cup Pages(1, AllocPages)
       /\ Owned(Idle) = {AllocPages + 2}
       /\ Owned(main) = {}
  BY <1>3, <1>10, BootThreads, Sizes DEF Owned
<1>15. Pages(1, AllocPages) = 1 .. AllocPages
  BY Sizes DEF Pages
<1>16. PagesOwned
  <2>1. Owned(init) \subseteq used /\ Owned(Idle) \subseteq used /\ Owned(main) \subseteq used
    BY <1>10, <1>14, <1>15, Sizes
  <2>2. Owned(init) \cap Owned(Idle) = {} /\ Owned(main) = {}
    BY <1>14, <1>15, Sizes
  <2>. QED BY <1>4, <2>1, <2>2 DEF PagesOwned
<1>17. ApartOK
  BY <1>4, <1>10, <1>15, Sizes DEF ApartOK
<1>18. PanicOnlyInFork
  BY <1>2 DEF PanicOnlyInFork
<1>. QED BY <1>11, <1>12, <1>13, <1>16, <1>17, <1>18 DEF IInv

\* Every step.
LEMMA NextIInv ==
  ASSUME IInv, [Next]_vars
  PROVE  IInv'
<1>1. CASE UNCHANGED vars
  <2>1. UNCHANGED <<k, pc, all, pid, parent, name, pids, used, page>> /\ Live' = Live
    BY <1>1 DEF vars, Live
  <2>2. ListOK'
    BY <2>1 DEF IInv, ListOK, TypeOK, QueueOK
  <2>3. PidsOK' /\ ParentsOK'
    BY <2>1 DEF IInv, PidsOK, ParentsOK, ParentOf, Forked
  <2>4. NoLostExit'
    BY <2>1 DEF IInv, NoLostExit, Children, HangingChildren
  <2>5. PagesOwned' /\ ApartOK' /\ PanicOnlyInFork'
    <3>1. \A t \in Live : Owned(t)' = Owned(t)
      BY <2>1 DEF Owned
    <3>2. PagesOwned'
      BY <2>1, <3>1 DEF IInv, PagesOwned
    <3>3. ApartOK'
      BY <2>1 DEF IInv, ApartOK
    <3>4. PanicOnlyInFork'
      BY <2>1 DEF IInv, PanicOnlyInFork
    <3>. QED BY <3>2, <3>3, <3>4
  <2>. QED BY <2>2, <2>3, <2>4, <2>5 DEF IInv
<1>2. \A t \in Programs : t \in Threads \ {main, Idle}
  BY BootThreads DEF Programs
<1>3. CASE InitForks \/ InitWaits
  BY <1>3, BootThreads, ForkOK, WaitOK DEF InitForks, InitWaits, Running
<1>4. CASE ShellForks \/ ShellWaits
  BY <1>4, BootThreads, ForkOK, WaitOK DEF ShellForks, ShellWaits, Running
<1>5. ASSUME NEW t \in Programs, ProgramForks(t) \/ ProgramWaits(t)
      PROVE  IInv'
  BY <1>2, <1>5, ForkOK, WaitOK DEF ProgramForks, ProgramWaits, Running
<1>6. ASSUME NEW t \in Programs, ProgramExits(t)
      PROVE  IInv'
  BY <1>6, ExitOK DEF ProgramExits, Running
<1>7. ASSUME NEW t \in Clients, WaitsOn(t)
      PROVE  IInv'
  BY <1>2, <1>7, BootThreads, WaitOK DEF WaitsOn, Running
<1>8. CASE main_exit
  BY <1>8, MainExitOK
<1>9. CASE IdleStep \/ Timer \/ \E t \in Programs : ProgramExecs(t)
  BY <1>9, OtherOK
<1>. QED BY <1>1, <1>3, <1>4, <1>5, <1>6, <1>7, <1>8, <1>9 DEF Next

-----------------------------------------------------------------------------
\* The theorems.

\* Whatever fork, execv, wait, exit, the clock and idle do in whatever order,
\* the invariant holds.
THEOREM Invariance == Spec => []IInv
BY InitIInv, NextIInv, PTL DEF Spec

\* The kernel stops in fork and nowhere else: no sys_exit misses the task_struct
\* of its parent or wakes one that does not wait, and schedule always has a
\* thread to run.
THEOREM StopsOnlyInFork == Spec => []PanicOnlyInFork
<1>1. IInv => PanicOnlyInFork
  BY DEF IInv
<1>. QED BY <1>1, Invariance, PTL

\* thread_all_list, the statuses, the pids and pid_pool agree, and a process
\* has a parent that can reap it, however pids are used again.
THEOREM TableStaysInStep == Spec => []ThreadTable
<1>1. IInv => ThreadTable
  <2>. SUFFICES ASSUME IInv PROVE ThreadTable
    OBVIOUS
  <2>1. \A t \in Live \ {init, main, Idle} :
          \E p \in Live : pid[p] = parent[t] /\ k.status[p] # "TASK_HANGING"
    BY DEF IInv, ParentsOK, ParentOf, Forked
  <2>. QED BY <2>1 DEF IInv, ListOK, PidsOK, ThreadTable
<1>. QED BY <1>1, Invariance, PTL

\* Nobody sleeps in sys_wait without a child, nor, but for init, beside a child
\* that has already called exit.
THEOREM WaitMissesNoExit == Spec => []NoLostExit
<1>1. IInv => NoLostExit
  BY DEF IInv
<1>. QED BY <1>1, Invariance, PTL

\* sys_exit and thread_exit free no kernel page that a live thread still has,
\* and fork gives no page to two threads, although the bitmap is allocated
\* rounded up and released rounded down.
THEOREM PagesStayOwned == Spec => []PagesOwned
<1>1. IInv => PagesOwned
  BY DEF IInv
<1>. QED BY <1>1, Invariance, PTL

=============================================================================

-------------------------- MODULE DescriptorsProofs --------------------------
(***************************************************************************)
(* The counts of descriptors are right for any number of processes,        *)
(* descriptors, slots and pages: IInv is an invariant, and with it         *)
(* everything the run of Descriptors checks on a small instance.           *)
(***************************************************************************)
EXTENDS Descriptors, FiniteSetTheorems, TLAPS

File == [fd_inode : Pages \cup {0}, fd_pos : Nat, missing : 0 .. 2]
Table == [Fds -> -1 .. MAX_FILE_OPEN - 1]
Places == {"prompt", "stdout", "first", "stdin", "middle", "restore", "last", "keyboard",
           "close0", "close1"}

Tables ==
  /\ fd_table \in [Procs -> Table]
  /\ \A p \in Procs, f \in Counted : fd_table[p][f] \in Slots \cup {-1}
  /\ file_table \in [Slots -> File]
  /\ page \subseteq Pages
  /\ proc \in [Procs -> {"none", "live", "zombie"}]

Programs ==
  /\ own \in [Procs -> SUBSET Counted]
  /\ sh \in [pc : Places, fd : (Counted \cup {-1}) \X (Counted \cup {-1}), child : Procs \cup {NULL}]

\* A slot is free when nobody is counted.
SlotFree == \A s \in Slots :
  /\ file_table[s].fd_inode = 0 <=> file_table[s].fd_pos = 0
  /\ file_table[s].fd_inode = 0 => file_table[s].missing = 0

\* A program only closes what it has, and the shell is no program.
OwnHeld ==
  /\ \A p \in Procs : \A f \in own[p] : fd_table[p][f] \in Slots
  /\ own[shell] = {} /\ proc[shell] = "live"

\* A redirected descriptor of a program is backed by one it does not close.
Backed ==
  \A p \in Procs \ {shell}, f \in 0 .. 2 : proc[p] = "live" /\ fd_table[p][f] > 2 =>
    \E g \in Counted \ own[p] : fd_table[p][g] = fd_table[p][f]

\* The descriptors of the shell, at each place of a command line.
In == {"middle", "restore", "last", "keyboard"}
Out == {"first", "stdin", "middle", "restore"}
ShellTable(pc, slot) ==
  [f \in Fds |-> IF \/ f = 0 /\ pc \in In
                    \/ f = 1 /\ pc \in Out
                    \/ f = 3 /\ pc # "close1"
                    \/ f = 4
                 THEN slot ELSE Std[f]]
ShellFds ==
  IF sh.pc = "prompt" THEN fd_table[shell] = Std
  ELSE /\ sh.fd = <<3, 4>>
       /\ \E slot \in Slots : fd_table[shell] = ShellTable(sh.pc, slot)

\* The child the shell waits for is a program, and runs a command.
ChildOK == sh.child # shell /\ (sh.child # NULL => sh.pc \in Stages)

\* The tables and the pages, and who uses them.
Counts == Tables /\ SlotFree /\ PipeCounted /\ RingsOwned
Users == Programs /\ OwnHeld /\ Backed /\ ShellFds /\ ChildOK

IInv == Counts /\ Users

-----------------------------------------------------------------------------
\* Finite sets of descriptors.

\* Only finitely many descriptors can refer to a slot.
LEMMA HoldersFinite ==
  ASSUME NEW s \in Slots
  PROVE  IsFiniteSet(Holders(s)) /\ Cardinality(Holders(s)) \in Nat
<1>. USE DescriptorsAssumption
<1>1. IsFiniteSet(Fds)
  BY FS_Interval DEF Fds
<1>2. IsFiniteSet(Counted)
  BY <1>1, FS_Subset DEF Counted
<1>3. IsFiniteSet(Procs \X Counted)
  BY <1>2, FS_Product
<1>4. IsFiniteSet(Holders(s))
  BY <1>3, FS_Subset DEF Holders
<1>. QED BY <1>4, FS_CardinalityType

\* A process has finitely many descriptors of a slot.
LEMMA HeldFinite ==
  ASSUME NEW tab, NEW s
  PROVE  IsFiniteSet(Held(tab, s)) /\ Cardinality(Held(tab, s)) \in Nat
<1>. USE DescriptorsAssumption
<1>1. IsFiniteSet(Fds)
  BY FS_Interval DEF Fds
<1>2. IsFiniteSet(Counted)
  BY <1>1, FS_Subset DEF Counted
<1>3. IsFiniteSet(Held(tab, s))
  BY <1>2, FS_Subset DEF Held
<1>. QED BY <1>3, FS_CardinalityType

\* The descriptors of one process are as many as its pairs.
LEMMA RowCard ==
  ASSUME NEW p, NEW H, IsFiniteSet(H)
  PROVE  IsFiniteSet({p} \X H) /\ Cardinality({p} \X H) = Cardinality(H)
<1>1. IsFiniteSet({p}) /\ Cardinality({p}) = 1
  BY FS_Singleton
<1>2. Cardinality({p} \X H) = 1 * Cardinality(H) /\ IsFiniteSet({p} \X H)
  BY <1>1, FS_Product
<1>3. Cardinality(H) \in Nat
  BY FS_CardinalityType
<1>. QED BY <1>2, <1>3

\* Disjoint sets add up.
LEMMA DisjointCard ==
  ASSUME NEW S, IsFiniteSet(S), NEW T, IsFiniteSet(T), S \cap T = {}
  PROVE  IsFiniteSet(S \cup T) /\ Cardinality(S \cup T) = Cardinality(S) + Cardinality(T)
<1>1. Cardinality(S) \in Nat /\ Cardinality(T) \in Nat
  BY FS_CardinalityType
<1>2. Cardinality(S \cap T) = 0
  BY FS_EmptySet
<1>3. /\ IsFiniteSet(S \cup T)
      /\ Cardinality(S \cup T) = Cardinality(S) + Cardinality(T) - Cardinality(S \cap T)
  BY FS_Union
<1>. QED BY <1>1, <1>2, <1>3

\* Tables that agree on a slot have the same holders.
LEMMA SameHolders ==
  ASSUME NEW s \in Slots,
         \A q \in Procs, h \in Counted : (proc'[q] = "live" /\ fd_table'[q][h] = s)
                                        <=> (proc[q] = "live" /\ fd_table[q][h] = s)
  PROVE  Holders(s)' = Holders(s)
<1>1. \A x \in Procs \X Counted : x[1] \in Procs /\ x[2] \in Counted
  OBVIOUS
<1>. QED BY <1>1 DEF Holders

\* Whoever has a descriptor of a pipe finds the pipe.
LEMMA HeldPipe ==
  ASSUME Counts, NEW p \in Procs, proc[p] = "live", NEW f \in Counted, fd_table[p][f] \in Slots
  PROVE  file_table[fd_table[p][f]].fd_inode # 0
<1>. DEFINE s == fd_table[p][f]
<1>1. <<p, f>> \in Holders(s)
  BY DEF Holders
<1>2. Cardinality(Holders(s)) # 0
  BY <1>1, HoldersFinite, FS_EmptySet
<1>3. file_table[s].fd_pos # 0
  BY <1>2, HoldersFinite DEF Counts, PipeCounted, Tables, File
<1>. QED BY <1>3 DEF Counts, SlotFree

-----------------------------------------------------------------------------
\* The pages.

\* Slots that become free give back just their pages.
LEMMA FreeRings ==
  ASSUME Counts, FreePages(file_table'),
         \A s \in Slots : file_table'[s].fd_inode \in {file_table[s].fd_inode, 0}
  PROVE  RingsOwned' /\ page' \subseteq Pages
BY DEF Counts, RingsOwned, FreePages, Tables, File

\* A count from which n are taken is 0 only if it was, unless it was n.
LEMMA CountsDown ==
  ASSUME NEW a \in Nat, NEW h \in Nat, NEW n \in Nat, NEW m \in Nat, a = h + n + m,
         ~(n > 0 /\ a = n)
  PROVE  a - n = 0 <=> a = 0
OBVIOUS

\* n of h + n descriptors go.
LEMMA DropFacts ==
  ASSUME NEW file \in File, NEW h \in Nat, NEW n \in Nat,
         file.fd_pos = h + n + file.missing,
         file.fd_inode = 0 <=> file.fd_pos = 0, file.fd_inode = 0 => file.missing = 0
  PROVE  /\ Drop(file, n) \in File
         /\ Drop(file, n).fd_inode \in {file.fd_inode, 0}
         /\ Drop(file, n).fd_pos = h + Drop(file, n).missing
         /\ Drop(file, n).fd_inode = 0 <=> Drop(file, n).fd_pos = 0
         /\ Drop(file, n).fd_inode = 0 => Drop(file, n).missing = 0
<1>1. CASE n > 0 /\ file.fd_pos = n
  BY <1>1 DEF Drop, NoFile, File
<1>2. CASE ~(n > 0 /\ file.fd_pos = n)
  <2>1. Drop(file, n) = [file EXCEPT !.fd_pos = @ - n]
    BY <1>2 DEF Drop
  <2>2. /\ Drop(file, n).fd_inode = file.fd_inode /\ Drop(file, n).missing = file.missing
        /\ Drop(file, n).fd_pos = file.fd_pos - n
    BY <2>1 DEF File
  <2>3. file.fd_pos - n = h + file.missing /\ file.fd_pos - n \in Nat
    BY DEF File
  <2>0. file.fd_pos \in Nat /\ file.missing \in Nat
    BY DEF File
  <2>4. file.fd_pos - n = 0 <=> file.fd_pos = 0
    BY ONLY <1>2, <2>0, CountsDown, n \in Nat, h \in Nat, file.fd_pos = h + n + file.missing
  <2>5. Drop(file, n) \in File
    BY <2>1, <2>3 DEF File
  <2>. QED BY <2>2, <2>3, <2>4, <2>5
<1>. QED BY <1>1, <1>2

-----------------------------------------------------------------------------
\* The system calls keep the counts.

\* What sys_pipe does.
PipeDone(p, f, g, slot, ring) ==
  /\ First(f, FreeFds(fd_table[p])) /\ First(g, FreeFds(fd_table[p]) \ {f})
  /\ f # -1 => fd_table[p][f] = -1
  /\ g # -1 => fd_table[p][g] = -1 /\ f # -1 /\ g # f
  /\ fd_table' \in [Procs -> Table]
  /\ \A q \in Procs, h \in Fds :
       fd_table'[q][h] = IF q = p /\ h \in {f, g} THEN slot ELSE fd_table[q][h]
  /\ file_table' = [file_table EXCEPT ![slot] =
                      [fd_inode |-> ring, fd_pos |-> 2,
                       missing |-> IF f = -1 THEN 2 ELSE IF g = -1 THEN 1 ELSE 0]]
  /\ page' = page \cup {ring}

\* sys_pipe takes a free slot and page, and at most two free descriptors.
LEMMA PipeEffect ==
  ASSUME Counts, NEW p \in Procs,
         NEW f \in Counted \cup {-1}, NEW g \in Counted \cup {-1}, Pipe(p, f, g)
  PROVE  \E slot \in FreeSlots, ring \in Pages \ page : PipeDone(p, f, g, slot, ring)
<1>. USE DescriptorsAssumption
<1>1. PICK slot \in Slots, ring \in Pages :
        /\ First(slot, FreeSlots) /\ First(ring, Pages \ page)
        /\ First(f, FreeFds(fd_table[p]))
        /\ First(g, FreeFds(pcb_fd_install(fd_table[p], f, slot)))
        /\ fd_table' = [fd_table EXCEPT ![p] = pcb_fd_install(pcb_fd_install(@, f, slot), g, slot)]
        /\ file_table' = [file_table EXCEPT ![slot] =
                            [fd_inode |-> ring, fd_pos |-> 2,
                             missing |-> IF f = -1 THEN 2 ELSE IF g = -1 THEN 1 ELSE 0]]
        /\ page' = page \cup {ring}
  BY DEF Pipe
<1>2. /\ slot # -1 /\ ring # -1
      /\ Counted \subseteq Fds /\ slot \in -1 .. MAX_FILE_OPEN - 1 /\ -1 \notin Fds
  BY DEF Slots, Counted, Fds
<1>3. slot \in FreeSlots /\ ring \in Pages \ page
  BY <1>1, <1>2 DEF First
<1>4. FreeFds(pcb_fd_install(fd_table[p], f, slot)) = FreeFds(fd_table[p]) \ {f}
  BY <1>2 DEF FreeFds, pcb_fd_install, Counts, Tables, Table
<1>5. /\ f # -1 => fd_table[p][f] = -1
      /\ g # -1 => fd_table[p][g] = -1 /\ f # -1 /\ g # f
  <2>1. f # -1 => f \in FreeFds(fd_table[p])
    BY <1>1 DEF First
  <2>2. g # -1 => g \in FreeFds(fd_table[p]) \ {f}
    BY <1>1, <1>4 DEF First
  <2>3. f = -1 => FreeFds(fd_table[p]) = {}
    BY <1>1, <1>2 DEF First, FreeFds
  <2>. QED BY <2>1, <2>2, <2>3 DEF FreeFds
<1>6. /\ fd_table' \in [Procs -> Table]
      /\ \A q \in Procs, h \in Fds :
           fd_table'[q][h] = IF q = p /\ h \in {f, g} THEN slot ELSE fd_table[q][h]
  BY <1>1, <1>2 DEF pcb_fd_install, Counts, Tables, Table
<1>7. PipeDone(p, f, g, slot, ring)
  BY <1>1, <1>4, <1>5, <1>6 DEF PipeDone
<1>. QED BY <1>3, <1>7

\* sys_pipe
LEMMA PipeStep ==
  ASSUME Counts, NEW p \in Procs, proc[p] = "live", UNCHANGED proc,
         NEW f \in Counted \cup {-1}, NEW g \in Counted \cup {-1}, Pipe(p, f, g)
  PROVE  Counts'
<1>. USE DescriptorsAssumption
<1>0. PICK slot \in FreeSlots, ring \in Pages \ page : PipeDone(p, f, g, slot, ring)
  BY PipeEffect
<1>1. /\ f # -1 => fd_table[p][f] = -1
      /\ g # -1 => fd_table[p][g] = -1 /\ f # -1 /\ g # f
      /\ fd_table' \in [Procs -> Table]
      /\ \A q \in Procs, h \in Fds :
           fd_table'[q][h] = IF q = p /\ h \in {f, g} THEN slot ELSE fd_table[q][h]
      /\ file_table' = [file_table EXCEPT ![slot] =
                          [fd_inode |-> ring, fd_pos |-> 2,
                           missing |-> IF f = -1 THEN 2 ELSE IF g = -1 THEN 1 ELSE 0]]
      /\ page' = page \cup {ring}
  BY <1>0 DEF PipeDone
<1>2. /\ slot \in FreeSlots /\ slot \in Slots /\ ring \in Pages \ page /\ ring # 0 /\ slot # -1
      /\ Counted \subseteq Fds /\ -1 \notin Fds
  BY <1>1 DEF FreeSlots, Slots, Counted, Fds
<1>3. /\ f # -1 => fd_table[p][f] = -1
      /\ g # -1 => fd_table[p][g] = -1 /\ f # -1 /\ g # f
  BY <1>1
<1>4. /\ fd_table' \in [Procs -> Table]
      /\ \A q \in Procs, h \in Counted :
           fd_table'[q][h] = IF q = p /\ h \in {f, g} THEN slot ELSE fd_table[q][h]
  BY <1>1, <1>2
<1>5. Tables' /\ SlotFree'
  BY <1>1, <1>2, <1>4 DEF Counts, Tables, SlotFree, File
<1>6. RingsOwned'
  BY <1>1, <1>2 DEF Counts, RingsOwned, FreeSlots, Tables, File
<1>7. \A s \in Slots \ {slot} : Holders(s)' = Holders(s)
  <2>. SUFFICES ASSUME NEW s \in Slots \ {slot} PROVE Holders(s)' = Holders(s)
    OBVIOUS
  <2>1. -1 \notin Slots
    BY DEF Slots
  <2>2. \A q \in Procs, h \in Counted : fd_table'[q][h] = s <=> fd_table[q][h] = s
    BY <1>2, <1>3, <1>4, <2>1
  <2>. QED BY <2>2, SameHolders
<1>8. Holders(slot) = {}
  BY <1>2, HoldersFinite, FS_EmptySet DEF Counts, PipeCounted, SlotFree, FreeSlots, Tables, File
<1>9. Holders(slot)' = {<<p, h>> : h \in {f, g} \ {-1}}
  BY <1>2, <1>4, <1>8 DEF Holders
<1>10. Cardinality(Holders(slot)') = 2 - file_table'[slot].missing
  <2>0. file_table'[slot].missing = IF f = -1 THEN 2 ELSE IF g = -1 THEN 1 ELSE 0
    BY <1>1, <1>2 DEF Counts, Tables
  <2>1. CASE f = -1
    <3>1. Holders(slot)' = {}
      BY <1>3, <1>9, <2>1
    <3>. QED BY <2>0, <2>1, <3>1, FS_EmptySet
  <2>2. CASE f # -1 /\ g = -1
    <3>1. Holders(slot)' = {<<p, f>>}
      BY <1>9, <2>2
    <3>2. Cardinality({<<p, f>>}) = 1
      BY FS_Singleton
    <3>. QED BY <2>0, <2>2, <3>1, <3>2
  <2>3. CASE f # -1 /\ g # -1
    <3>1. Holders(slot)' = {<<p, f>>} \cup {<<p, g>>} /\ {<<p, f>>} \cap {<<p, g>>} = {}
      BY <1>3, <1>9, <2>3
    <3>2. /\ Cardinality({<<p, f>>}) = 1 /\ IsFiniteSet({<<p, f>>})
          /\ Cardinality({<<p, g>>}) = 1 /\ IsFiniteSet({<<p, g>>})
      BY FS_Singleton
    <3>3. Cardinality(Holders(slot)') = 1 + 1
      BY <3>1, <3>2, DisjointCard
    <3>. QED BY <2>0, <2>3, <3>3
  <2>. QED BY <2>1, <2>2, <2>3
<1>11. PipeCounted'
  <2>1. file_table'[slot].fd_pos = Cardinality(Holders(slot)') + file_table'[slot].missing
    BY <1>1, <1>2, <1>10 DEF Counts, Tables
  <2>2. \A s \in Slots \ {slot} : file_table'[s] = file_table[s]
    BY <1>1 DEF Counts, Tables
  <2>. QED BY <1>7, <2>1, <2>2 DEF Counts, PipeCounted
<1>. QED BY <1>5, <1>6, <1>11 DEF Counts

\* sys_close
LEMMA CloseStep ==
  ASSUME Counts, NEW p \in Procs, proc[p] = "live", UNCHANGED proc,
         NEW f \in Counted, fd_table[p][f] \in Slots, Close(p, f)
  PROVE  Counts'
<1>. USE DescriptorsAssumption
<1>0. PICK s \in Slots : s = fd_table[p][f]
  OBVIOUS
<1>1. /\ Counted \subseteq Fds /\ -1 \notin Slots /\ -1 \in -1 .. MAX_FILE_OPEN - 1
  BY DEF Counted, Fds, Slots
<1>2. /\ fd_table' \in [Procs -> Table]
      /\ \A q \in Procs, h \in Counted :
           fd_table'[q][h] = IF q = p /\ h = f THEN -1 ELSE fd_table[q][h]
  BY <1>1 DEF Close, Counts, Tables, Table
<1>3. /\ Holders(s)' = Holders(s) \ {<<p, f>>} /\ <<p, f>> \in Holders(s)
      /\ \A r \in Slots \ {s} : Holders(r)' = Holders(r)
  <2>1. <<p, f>> \in Holders(s)
    BY <1>0 DEF Holders
  <2>2. \A x \in Procs \X Counted :
          x[1] \in Procs /\ x[2] \in Counted /\ (x = <<p, f>> <=> x[1] = p /\ x[2] = f)
    OBVIOUS
  <2>3. Holders(s)' = Holders(s) \ {<<p, f>>}
    BY <1>0, <1>1, <1>2, <2>2 DEF Holders
  <2>4. ASSUME NEW r \in Slots \ {s} PROVE Holders(r)' = Holders(r)
    BY <1>0, <1>1, <1>2, <2>4, SameHolders
  <2>. QED BY <2>1, <2>3, <2>4
<1>4. Cardinality(Holders(s)') = Cardinality(Holders(s)) - 1 /\ Cardinality(Holders(s)') \in Nat
  <2>1. IsFiniteSet(Holders(s))
    BY HoldersFinite
  <2>2. /\ IsFiniteSet(Holders(s) \ {<<p, f>>})
        /\ Cardinality(Holders(s) \ {<<p, f>>}) = Cardinality(Holders(s)) - 1
    BY <1>3, <2>1, FS_RemoveElement
  <2>. QED BY <1>3, <2>2, FS_CardinalityType
<1>5. /\ file_table' = [file_table EXCEPT ![s] = Drop(file_table[s], 1)]
      /\ file_table[s] \in File
      /\ file_table[s].fd_pos = Cardinality(Holders(s)) + file_table[s].missing
      /\ Cardinality(Holders(s)) \in Nat
  BY <1>0, HoldersFinite DEF Close, Counts, Tables, PipeCounted
<1>6. /\ Drop(file_table[s], 1) \in File
      /\ Drop(file_table[s], 1).fd_pos = Cardinality(Holders(s)') + Drop(file_table[s], 1).missing
      /\ Drop(file_table[s], 1).fd_inode \in {file_table[s].fd_inode, 0}
      /\ Drop(file_table[s], 1).fd_inode = 0 <=> Drop(file_table[s], 1).fd_pos = 0
      /\ Drop(file_table[s], 1).fd_inode = 0 => Drop(file_table[s], 1).missing = 0
  BY <1>4, <1>5 DEF Drop, NoFile, File, Counts, SlotFree
<1>7. /\ file_table' \in [Slots -> File] /\ file_table'[s] = Drop(file_table[s], 1)
      /\ \A r \in Slots \ {s} : file_table'[r] = file_table[r]
  BY <1>5, <1>6 DEF Counts, Tables
<1>8. RingsOwned' /\ page' \subseteq Pages
  BY <1>6, <1>7, FreeRings DEF Close
<1>9. Tables' /\ SlotFree'
  BY <1>1, <1>2, <1>6, <1>7, <1>8 DEF Counts, Tables, SlotFree
<1>10. PipeCounted'
  BY <1>3, <1>6, <1>7 DEF Counts, PipeCounted
<1>. QED BY <1>8, <1>9, <1>10 DEF Counts

\* sys_fork
LEMMA ForkStep ==
  ASSUME Counts, NEW p \in Procs, proc[p] = "live", NEW c \in Procs, Forked(p, c)
  PROVE  Counts'
<1>1. /\ proc[c] = "none" /\ p # c /\ page' = page
      /\ proc' = [proc EXCEPT ![c] = "live"] /\ fd_table' = [fd_table EXCEPT ![c] = fd_table[p]]
  BY DEF Forked
<1>2. /\ proc' \in [Procs -> {"none", "live", "zombie"}] /\ fd_table' \in [Procs -> Table]
      /\ \A q \in Procs : fd_table'[q] = IF q = c THEN fd_table[p] ELSE fd_table[q]
      /\ \A q \in Procs : proc'[q] = IF q = c THEN "live" ELSE proc[q]
  BY <1>1 DEF Counts, Tables
<1>3. ASSUME NEW s \in Slots
      PROVE  /\ Cardinality(Held(fd_table[p], s)) \in Nat
             /\ Cardinality(Holders(s)') = Cardinality(Holders(s)) + Cardinality(Held(fd_table[p], s))
  <2>. DEFINE row == {c} \X Held(fd_table[p], s)
  <2>1. IsFiniteSet(row) /\ Cardinality(row) = Cardinality(Held(fd_table[p], s))
    BY HeldFinite, RowCard
  <2>2. \A x \in Procs \X Counted : x[1] \in Procs /\ x[2] \in Counted /\ x = <<x[1], x[2]>>
    OBVIOUS
  <2>3. Holders(s)' = Holders(s) \cup row
    <3>1. \A x \in Holders(s)' : x \in Holders(s) \cup row
      BY <1>2, <2>2 DEF Holders, Held
    <3>2. \A x \in Holders(s) : x \in Holders(s)'
      BY <1>1, <1>2, <2>2 DEF Holders
    <3>3. \A x \in row : x \in Holders(s)'
      BY <1>2, <2>2 DEF Holders, Held
    <3>. QED BY <3>1, <3>2, <3>3
  <2>4. Holders(s) \cap row = {}
    BY <1>1 DEF Holders
  <2>5. Cardinality(Holders(s) \cup row) = Cardinality(Holders(s)) + Cardinality(row)
    BY <2>1, <2>4, HoldersFinite, DisjointCard
  <2>. QED BY <2>1, <2>3, <2>5, HeldFinite
<1>4. ASSUME NEW s \in Slots
      PROVE  /\ file_table'[s] \in File
             /\ file_table'[s].fd_inode = file_table[s].fd_inode
             /\ file_table'[s].missing = file_table[s].missing
             /\ file_table'[s].fd_pos = file_table[s].fd_pos + Cardinality(Held(fd_table[p], s))
  BY <1>3 DEF Forked, Counts, Tables, File
<1>5. PipeCounted'
  BY <1>3, <1>4, HoldersFinite DEF Counts, PipeCounted, Tables, File
<1>6. SlotFree'
  <2>. SUFFICES ASSUME NEW s \in Slots
                PROVE  file_table'[s].fd_pos = 0 <=> file_table[s].fd_pos = 0
    BY <1>4 DEF Counts, SlotFree
  <2>1. ASSUME NEW h \in Held(fd_table[p], s) PROVE file_table[s].fd_inode # 0
    BY <2>1, HeldPipe DEF Held
  <2>2. file_table[s].fd_pos = 0 => Held(fd_table[p], s) = {}
    BY <2>1 DEF Counts, SlotFree
  <2>3. Held(fd_table[p], s) = {} => Cardinality(Held(fd_table[p], s)) = 0
    BY FS_EmptySet
  <2>. QED BY <1>3, <1>4, <2>2, <2>3 DEF Counts, Tables, File
<1>7. RingsOwned'
  BY <1>1, <1>4 DEF Counts, RingsOwned
<1>8. Tables'
  BY <1>1, <1>2, <1>4 DEF Counts, Tables, Forked
<1>. QED BY <1>5, <1>6, <1>7, <1>8 DEF Counts

\* sys_exit
LEMMA ExitStep ==
  ASSUME Counts, NEW p \in Procs, sys_exit(p)
  PROVE  Counts'
<1>. USE DescriptorsAssumption
<1>1. /\ proc[p] = "live" /\ proc' = [proc EXCEPT ![p] = IF p = sh.child THEN "zombie" ELSE "none"]
      /\ fd_table' = [fd_table EXCEPT ![p] = Std]
  BY DEF sys_exit, Program
<1>2. Std \in Table /\ \A f \in Counted : Std[f] = -1
  BY DEF Std, Table, Counted, Fds
<1>3. /\ proc' \in [Procs -> {"none", "live", "zombie"}] /\ fd_table' \in [Procs -> Table]
      /\ \A q \in Procs : fd_table'[q] = IF q = p THEN Std ELSE fd_table[q]
      /\ \A q \in Procs : proc'[q] = "live" <=> q # p /\ proc[q] = "live"
  BY <1>1, <1>2 DEF Counts, Tables
<1>4. ASSUME NEW s \in Slots
      PROVE  /\ Cardinality(Held(fd_table[p], s)) \in Nat /\ Cardinality(Holders(s)') \in Nat
             /\ Cardinality(Holders(s)) = Cardinality(Holders(s)') + Cardinality(Held(fd_table[p], s))
  <2>. DEFINE row == {p} \X Held(fd_table[p], s)
  <2>. DEFINE rest == {x \in Holders(s) : x[1] # p}
  <2>1. IsFiniteSet(row) /\ Cardinality(row) = Cardinality(Held(fd_table[p], s))
    BY HeldFinite, RowCard
  <2>2. \A x \in Procs \X Counted : x[1] \in Procs /\ x[2] \in Counted /\ x = <<x[1], x[2]>>
    OBVIOUS
  <2>3. Holders(s)' = rest
    <3>1. \A x \in Holders(s)' : x \in rest
      BY <1>3, <2>2 DEF Holders
    <3>2. \A x \in rest : x \in Holders(s)'
      BY <1>3, <2>2 DEF Holders
    <3>. QED BY <3>1, <3>2
  <2>4. Holders(s) = rest \cup row
    <3>1. \A x \in Holders(s) : x \in rest \cup row
      BY <2>2 DEF Holders, Held
    <3>2. \A x \in row : x \in Holders(s)
      BY <1>1 DEF Holders, Held
    <3>. QED BY <3>1, <3>2
  <2>5. IsFiniteSet(rest) /\ Cardinality(rest) \in Nat
    <3>1. IsFiniteSet(rest)
      BY HoldersFinite, FS_Subset
    <3>. QED BY <3>1, FS_CardinalityType
  <2>6. rest \cap row = {}
    OBVIOUS
  <2>7. Cardinality(rest \cup row) = Cardinality(rest) + Cardinality(row)
    BY <2>1, <2>5, <2>6, DisjointCard
  <2>. QED BY <2>1, <2>3, <2>4, <2>5, <2>7, HeldFinite
<1>5. ASSUME NEW s \in Slots
      PROVE  /\ file_table'[s] \in File
             /\ file_table'[s].fd_inode \in {file_table[s].fd_inode, 0}
             /\ file_table'[s].fd_pos = Cardinality(Holders(s)') + file_table'[s].missing
             /\ file_table'[s].fd_inode = 0 <=> file_table'[s].fd_pos = 0
             /\ file_table'[s].fd_inode = 0 => file_table'[s].missing = 0
  <2>1. file_table'[s] = Drop(file_table[s], Cardinality(Held(fd_table[p], s)))
    BY DEF sys_exit
  <2>2. /\ file_table[s] \in File
        /\ file_table[s].fd_pos = Cardinality(Holders(s)) + file_table[s].missing
        /\ file_table[s].fd_inode = 0 <=> file_table[s].fd_pos = 0
        /\ file_table[s].fd_inode = 0 => file_table[s].missing = 0
    BY DEF Counts, Tables, PipeCounted, SlotFree
  <2>3. file_table[s].fd_pos = Cardinality(Holders(s)') + Cardinality(Held(fd_table[p], s))
                                + file_table[s].missing
    BY <1>4, <2>2
  <2>. QED BY <1>4, <2>1, <2>2, <2>3, DropFacts
<1>6. file_table' \in [Slots -> File]
  BY <1>5 DEF sys_exit
<1>7. RingsOwned' /\ page' \subseteq Pages
  BY <1>5, FreeRings DEF sys_exit
<1>8. Tables'
  BY <1>2, <1>3, <1>6, <1>7 DEF Counts, Tables
<1>9. PipeCounted' /\ SlotFree'
  BY <1>5 DEF PipeCounted, SlotFree
<1>. QED BY <1>7, <1>8, <1>9 DEF Counts

\* A step that changes no counted descriptor
LEMMA SameStep ==
  ASSUME Counts, UNCHANGED <<file_table, page>>, fd_table' \in [Procs -> Table],
         proc' \in [Procs -> {"none", "live", "zombie"}],
         \A q \in Procs : proc'[q] = "live" <=> proc[q] = "live",
         \A q \in Procs, h \in Counted : fd_table'[q][h] = fd_table[q][h]
  PROVE  Counts'
<1>1. \A s \in Slots : Holders(s)' = Holders(s)
  BY SameHolders
<1>. QED BY <1>1 DEF Counts, Tables, SlotFree, PipeCounted, RingsOwned

-----------------------------------------------------------------------------
\* The programs and the shell.

\* The shell starts with the standard descriptors, and there is no pipe.
LEMMA InitIInv == Init => IInv
<1>. SUFFICES ASSUME Init PROVE IInv
  OBVIOUS
<1>. USE DescriptorsAssumption DEF Init
<1>1. Std \in Table /\ (\A f \in Counted : Std[f] = -1) /\ \A f \in 0 .. 2 : Std[f] = f
  BY DEF Std, Table, Counted, Fds
<1>2. -1 \notin Slots /\ NoFile \in File /\ Counted \subseteq Fds /\ 0 .. 2 \subseteq Fds
  BY DEF Slots, NoFile, File, Counted, Fds
<1>3. \A s \in Slots : Holders(s) = {} /\ Cardinality(Holders(s)) = 0
  <2>1. \A x \in Procs \X Counted : x[1] \in Procs /\ x[2] \in Counted
    OBVIOUS
  <2>2. \A s \in Slots : Holders(s) = {}
    BY <1>1, <1>2, <2>1 DEF Holders
  <2>. QED BY <2>2, FS_EmptySet
<1>4. Counts
  BY <1>1, <1>2, <1>3 DEF Counts, Tables, SlotFree, PipeCounted, RingsOwned, NoFile
<1>5. Users
  BY <1>1, <1>2 DEF Users, Programs, OwnHeld, Backed, ShellFds, ChildOK, Places, NoPipe
<1>. QED BY <1>4, <1>5 DEF IInv

\* sys_pipe of a program, which has the new descriptors.
LEMMA ProgramPipe ==
  ASSUME IInv, NEW p \in Procs, sys_pipe(p)
  PROVE  IInv'
<1>. USE DescriptorsAssumption
<1>1. PICK f \in Counted \cup {-1}, g \in Counted \cup {-1} :
        Pipe(p, f, g) /\ own' = [own EXCEPT ![p] = @ \cup ({f, g} \ {-1})]
  BY DEF sys_pipe
<1>2. Counts /\ Users /\ p # shell /\ proc[p] = "live" /\ UNCHANGED <<proc, sh>>
  BY DEF IInv, sys_pipe, Program
<1>3. Counts'
  BY <1>1, <1>2, PipeStep
<1>0. PICK slot \in FreeSlots, ring \in Pages \ page : PipeDone(p, f, g, slot, ring)
  BY <1>1, <1>2, PipeEffect
<1>4. /\ f # -1 => fd_table[p][f] = -1
      /\ g # -1 => fd_table[p][g] = -1
      /\ fd_table' \in [Procs -> Table]
      /\ \A q \in Procs, h \in Fds :
           fd_table'[q][h] = IF q = p /\ h \in {f, g} THEN slot ELSE fd_table[q][h]
  BY <1>0 DEF PipeDone
<1>5. /\ slot \in Slots /\ Counted \subseteq Fds /\ 0 .. 2 \subseteq Fds /\ -1 \notin Fds
      /\ -1 \notin Slots /\ Counted \cap 0 .. 2 = {} /\ -1 <= 2
  BY DEF FreeSlots, Counted, Fds, Slots
<1>6. Programs'
  BY <1>1, <1>2 DEF Users, Programs
<1>7. \A q \in Procs : q # p => fd_table'[q] = fd_table[q] /\ own'[q] = own[q]
  BY <1>1, <1>2, <1>4 DEF Counts, Tables, Table, Users, Programs
<1>8. own'[p] = own[p] \cup ({f, g} \ {-1})
  BY <1>1, <1>2 DEF Users, Programs
<1>9. OwnHeld'
  BY <1>2, <1>4, <1>5, <1>6, <1>7, <1>8 DEF Users, OwnHeld, Programs
<1>10. Backed'
  <2>. SUFFICES ASSUME NEW q \in Procs \ {shell}, NEW d \in 0 .. 2, proc[q] = "live", fd_table'[q][d] > 2
                PROVE  \E h \in Counted \ own'[q] : fd_table'[q][h] = fd_table'[q][d]
    BY <1>2 DEF Backed
  <2>1. fd_table'[q][d] = fd_table[q][d]
    BY <1>4, <1>5
  <2>2. PICK h \in Counted \ own[q] : fd_table[q][h] = fd_table[q][d]
    BY <1>2, <2>1 DEF Users, Backed
  <2>3. fd_table[q][h] # -1
    BY <2>1, <2>2
  <2>4. CASE q = p
    BY <1>4, <1>5, <1>8, <2>1, <2>2, <2>3, <2>4
  <2>5. CASE q # p
    BY <1>7, <2>2, <2>5
  <2>. QED BY <2>4, <2>5
<1>11. ShellFds' /\ ChildOK'
  BY <1>2, <1>7 DEF Users, ShellFds, ChildOK
<1>. QED BY <1>3, <1>6, <1>9, <1>10, <1>11 DEF IInv, Users

\* sys_close of a descriptor its program has got from pipe.
LEMMA ProgramClose ==
  ASSUME IInv, NEW p \in Procs, NEW f \in Counted, sys_close(p, f)
  PROVE  IInv'
<1>. USE DescriptorsAssumption
<1>1. /\ Counts /\ Users /\ p # shell /\ proc[p] = "live" /\ UNCHANGED <<proc, sh>>
      /\ f \in own[p] /\ Close(p, f) /\ own' = [own EXCEPT ![p] = @ \ {f}]
      /\ fd_table' = [fd_table EXCEPT ![p][f] = -1]
  BY DEF IInv, sys_close, Program, Close
<1>2. fd_table[p][f] \in Slots
  BY <1>1 DEF Users, OwnHeld
<1>3. Counts'
  BY <1>1, <1>2, CloseStep
<1>4. Counted \subseteq Fds /\ 0 .. 2 \subseteq Fds /\ Counted \cap 0 .. 2 = {}
  BY DEF Counted, Fds
<1>5. /\ \A q \in Procs : q # p => fd_table'[q] = fd_table[q] /\ own'[q] = own[q]
      /\ \A h \in Fds : fd_table'[p][h] = IF h = f THEN -1 ELSE fd_table[p][h]
      /\ own'[p] = own[p] \ {f}
  BY <1>1 DEF Counts, Tables, Table, Users, Programs
<1>6. Programs' /\ OwnHeld'
  BY <1>1, <1>4, <1>5 DEF Users, Programs, OwnHeld
<1>7. Backed'
  <2>. SUFFICES ASSUME NEW q \in Procs \ {shell}, NEW d \in 0 .. 2, proc[q] = "live", fd_table'[q][d] > 2
                PROVE  \E h \in Counted \ own'[q] : fd_table'[q][h] = fd_table'[q][d]
    BY <1>1 DEF Backed
  <2>1. fd_table'[q][d] = fd_table[q][d]
    BY <1>4, <1>5
  <2>2. PICK h \in Counted \ own[q] : fd_table[q][h] = fd_table[q][d]
    BY <1>1, <2>1 DEF Users, Backed
  <2>. QED BY <1>1, <1>4, <1>5, <2>1, <2>2
<1>8. ShellFds' /\ ChildOK'
  BY <1>1, <1>5 DEF Users, ShellFds, ChildOK
<1>. QED BY <1>3, <1>6, <1>7, <1>8 DEF IInv, Users

\* sys_exit of a program.
LEMMA ProgramExit ==
  ASSUME IInv, NEW p \in Procs, sys_exit(p)
  PROVE  IInv'
<1>. USE DescriptorsAssumption
<1>1. /\ Counts /\ Users /\ p # shell /\ UNCHANGED sh
      /\ proc' = [proc EXCEPT ![p] = IF p = sh.child THEN "zombie" ELSE "none"]
      /\ fd_table' = [fd_table EXCEPT ![p] = Std] /\ own' = [own EXCEPT ![p] = {}]
  BY DEF IInv, sys_exit, Program
<1>2. Counts'
  BY <1>1, ExitStep
<1>3. /\ \A q \in Procs : q # p => fd_table'[q] = fd_table[q] /\ own'[q] = own[q] /\ proc'[q] = proc[q]
      /\ own'[p] = {} /\ proc'[p] # "live"
  BY <1>1 DEF Counts, Tables, Users, Programs
<1>4. Programs' /\ OwnHeld' /\ ShellFds' /\ ChildOK'
  BY <1>1, <1>3 DEF Users, Programs, OwnHeld, ShellFds, ChildOK
<1>5. Backed'
  BY <1>1, <1>3 DEF Users, Backed
<1>. QED BY <1>2, <1>4, <1>5 DEF IInv, Users

\* sys_fork of a program: the child has what its parent has.
LEMMA ProgramFork ==
  ASSUME IInv, NEW p \in Procs, NEW c \in Procs, sys_fork(p, c)
  PROVE  IInv'
<1>1. /\ Counts /\ Users /\ p # shell /\ proc[p] = "live" /\ UNCHANGED sh /\ Forked(p, c)
      /\ proc[c] = "none" /\ proc' = [proc EXCEPT ![c] = "live"]
      /\ fd_table' = [fd_table EXCEPT ![c] = fd_table[p]] /\ own' = [own EXCEPT ![c] = own[p]]
  BY DEF IInv, sys_fork, Program, Forked
<1>2. Counts'
  BY <1>1, ForkStep
<1>3. /\ c # shell
      /\ \A q \in Procs : q # c => fd_table'[q] = fd_table[q] /\ own'[q] = own[q] /\ proc'[q] = proc[q]
      /\ own'[c] = own[p] /\ proc'[c] = "live" /\ fd_table'[c] = fd_table[p]
  BY <1>1 DEF Counts, Tables, Users, Programs, OwnHeld
<1>4. Programs' /\ OwnHeld' /\ ShellFds' /\ ChildOK'
  BY <1>1, <1>3, DescriptorsAssumption DEF Users, Programs, OwnHeld, ShellFds, ChildOK
<1>5. Backed'
  BY <1>1, <1>3 DEF Users, Backed
<1>. QED BY <1>2, <1>4, <1>5 DEF IInv, Users

\* What the shell has at each place.
LEMMA ShellTableFacts ==
  ASSUME NEW pc, NEW slot \in Slots
  PROVE  /\ ShellTable(pc, slot) \in Table /\ Std \in Table
         /\ {0, 1, 3, 4} \subseteq Fds /\ {3, 4} \subseteq Counted /\ Counted \subseteq Fds
         /\ \A f \in Counted \ {3, 4} : ShellTable(pc, slot)[f] = -1
         /\ ShellTable(pc, slot)[3] = IF pc = "close1" THEN -1 ELSE slot
         /\ ShellTable(pc, slot)[4] = slot
         /\ ShellTable(pc, slot)[0] = IF pc \in In THEN slot ELSE 0
         /\ ShellTable(pc, slot)[1] = IF pc \in Out THEN slot ELSE 1
         /\ ShellTable(pc, slot)[2] = 2
BY DescriptorsAssumption DEF ShellTable, Table, Std, Fds, Counted, Slots

\* Also the shell has what it redirected to under a counted descriptor.
LEMMA ShellBacked ==
  ASSUME IInv, NEW f \in 0 .. 2, fd_table[shell][f] > 2
  PROVE  \E g \in Counted : fd_table[shell][g] = fd_table[shell][f]
<1>. USE DescriptorsAssumption
<1>1. \A d \in 0 .. 2 : d \in Fds /\ Std[d] = d
  BY DEF Std, Fds
<1>2. sh.pc # "prompt"
  BY <1>1 DEF IInv, Users, ShellFds
<1>3. PICK slot \in Slots : fd_table[shell] = ShellTable(sh.pc, slot)
  BY <1>2 DEF IInv, Users, ShellFds
<1>4. ShellTable(sh.pc, slot)[f] = slot
  BY <1>3, ShellTableFacts
<1>. QED BY <1>3, <1>4, ShellTableFacts

\* What the shell does for a command line.
LEMMA ShellPipeStep ==
  ASSUME IInv, ShellPipe
  PROVE  IInv'
<1>. USE DescriptorsAssumption
<1>1. PICK f \in Counted \cup {-1}, g \in Counted \cup {-1} :
        Pipe(shell, f, g) /\ sh' = [sh EXCEPT !.pc = "stdout", !.fd = <<f, g>>]
  BY DEF ShellPipe
<1>2. /\ Counts /\ Users /\ sh.pc = "prompt" /\ fd_table[shell] = Std /\ UNCHANGED <<proc, own>>
      /\ proc[shell] = "live" /\ sh.child = NULL
  BY DEF IInv, ShellPipe, Users, ShellFds, OwnHeld
<1>3. Counts'
  BY <1>1, <1>2, PipeStep
<1>4. PICK slot \in FreeSlots, ring \in Pages \ page : PipeDone(shell, f, g, slot, ring)
  BY <1>1, <1>2, PipeEffect
<1>5. /\ First(f, FreeFds(Std)) /\ First(g, FreeFds(Std) \ {f}) /\ fd_table' \in [Procs -> Table]
      /\ \A q \in Procs, h \in Fds :
           fd_table'[q][h] = IF q = shell /\ h \in {f, g} THEN slot ELSE fd_table[q][h]
  BY <1>2, <1>4 DEF PipeDone
<1>6. f = 3 /\ g = 4
  <2>1. FreeFds(Std) = Counted /\ 3 \in Counted /\ 4 \in Counted /\ \A h \in Counted : h \in Nat /\ h > 2
    BY DEF FreeFds, Std, Counted, Fds
  <2>2. f = 3
    BY <1>5, <2>1 DEF First
  <2>. QED BY <1>5, <2>1, <2>2 DEF First
<1>7. slot \in Slots
  BY DEF FreeSlots
<1>8. fd_table'[shell] = ShellTable("stdout", slot)
  BY <1>2, <1>5, <1>6 DEF ShellTable, Table, In, Out
<1>9. \A q \in Procs : q # shell => fd_table'[q] = fd_table[q]
  BY <1>2, <1>5 DEF Counts, Tables, Table
<1>10. Programs' /\ ShellFds' /\ ChildOK'
  BY <1>1, <1>2, <1>6, <1>7, <1>8 DEF Users, Programs, ShellFds, ChildOK, Places
<1>11. OwnHeld' /\ Backed'
  BY <1>2, <1>9 DEF Users, OwnHeld, Backed
<1>. QED BY <1>3, <1>10, <1>11 DEF IInv, Users

\* A step of the shell that changes only its standard descriptors.
LEMMA ShellSame ==
  ASSUME IInv, NEW pc \in Places, pc # "prompt", NEW slot \in Slots,
         sh.fd = <<3, 4>>, sh.child = NULL, sh' = [sh EXCEPT !.pc = pc],
         UNCHANGED <<file_table, page, proc, own>>,
         fd_table' = [fd_table EXCEPT ![shell] = ShellTable(pc, slot)],
         \A h \in Counted : fd_table[shell][h] = ShellTable(pc, slot)[h]
  PROVE  IInv'
<1>. USE DescriptorsAssumption
<1>1. /\ fd_table' \in [Procs -> Table] /\ fd_table'[shell] = ShellTable(pc, slot)
      /\ \A q \in Procs : q # shell => fd_table'[q] = fd_table[q]
  BY ShellTableFacts DEF IInv, Counts, Tables
<1>2. Counts'
  BY <1>1, SameStep DEF IInv, Counts, Tables
<1>3. Programs' /\ ShellFds' /\ ChildOK'
  BY <1>1 DEF IInv, Users, Programs, ShellFds, ChildOK
<1>4. OwnHeld' /\ Backed'
  BY <1>1 DEF IInv, Users, OwnHeld, Backed
<1>. QED BY <1>2, <1>3, <1>4 DEF IInv, Users

\* The redirections around the commands, and the way back.
LEMMA ShellRedirects ==
  ASSUME IInv, ShellRedirect \/ ShellRestore
  PROVE  IInv'
<1>. USE DescriptorsAssumption
<1>1. PICK from \in Places, to \in Places, old \in {0, 1}, new \in {0, 1, 3, 4} :
        /\ sh.fd = <<3, 4>> => Redirect(from, to, old, new)
        /\ <<from, to, old, new>> \in {<<"stdout", "first", 1, 4>>, <<"stdin", "middle", 0, 3>>,
                                       <<"restore", "last", 1, 1>>, <<"keyboard", "close0", 0, 0>>}
        /\ sh.pc = from
  BY DEF ShellRedirect, ShellRestore, Redirect, Shell, Places
<1>2. PICK slot \in Slots : sh.fd = <<3, 4>> /\ fd_table[shell] = ShellTable(from, slot)
  BY <1>1 DEF IInv, Users, ShellFds
<1>3. /\ sh.child = NULL /\ sh' = [sh EXCEPT !.pc = to] /\ UNCHANGED <<file_table, page, proc, own>>
      /\ fd_table' = [fd_table EXCEPT ![shell][old] = IF new < 3 THEN new ELSE fd_table[shell][new]]
  BY <1>1, <1>2 DEF Redirect, Shell, sys_fd_redirect
<1>4. [ShellTable(from, slot) EXCEPT ![old] = IF new < 3 THEN new ELSE ShellTable(from, slot)[new]]
        = ShellTable(to, slot)
  <2>1. old \in Fds /\ (new \in {3, 4} => ShellTable(from, slot)[new] = slot)
    BY <1>1, ShellTableFacts
  <2>2. \A h \in Fds :
          (IF h = old THEN IF new < 3 THEN new ELSE slot ELSE ShellTable(from, slot)[h])
            = ShellTable(to, slot)[h]
    BY <1>1 DEF ShellTable, In, Out, Std, Fds
  <2>3. ShellTable(from, slot) \in Table /\ ShellTable(to, slot) \in Table
    BY ShellTableFacts
  <2>4. (IF new < 3 THEN new ELSE ShellTable(from, slot)[new]) = IF new < 3 THEN new ELSE slot
    BY <2>1
  <2>. QED BY <2>1, <2>2, <2>3, <2>4 DEF Table
<1>5. fd_table' = [fd_table EXCEPT ![shell] = ShellTable(to, slot)]
  BY <1>2, <1>3, <1>4 DEF IInv, Counts, Tables
<1>6. \A h \in Counted : fd_table[shell][h] = ShellTable(to, slot)[h]
  BY <1>1, <1>2, ShellTableFacts
<1>. QED BY <1>1, <1>2, <1>3, <1>5, <1>6, ShellSame

\* Built-in commands, and the step to the last command.
LEMMA ShellGoesOn ==
  ASSUME IInv, NEW stage \in Stages, BuiltIn(stage) \/ LastCommand
  PROVE  IInv'
<1>. USE DescriptorsAssumption
<1>1. UNCHANGED <<fd_table, file_table, page, proc, own>> /\ sh.child = NULL /\ Counts /\ Users
  BY DEF BuiltIn, LastCommand, Shell, IInv
<1>2. Counts'
  BY <1>1, SameStep DEF Counts, Tables
<1>3. PICK from \in Places, to \in Places :
        /\ sh.pc = from /\ sh' = [sh EXCEPT !.pc = to]
        /\ <<from, to>> \in {<<"prompt", "prompt">>, <<"first", "stdin">>, <<"middle", "middle">>,
                             <<"last", "keyboard">>, <<"middle", "restore">>}
  BY DEF BuiltIn, LastCommand, Shell, After, Stages, Places
<1>4. \A slot \in Slots : from # "prompt" => ShellTable(from, slot) = ShellTable(to, slot)
  BY <1>3 DEF ShellTable, In, Out
<1>5. ShellFds' /\ Programs' /\ ChildOK'
  BY <1>1, <1>3, <1>4 DEF Users, ShellFds, Programs, ChildOK
<1>6. OwnHeld' /\ Backed'
  BY <1>1 DEF Users, OwnHeld, Backed
<1>. QED BY <1>2, <1>5, <1>6 DEF IInv, Users

\* cmd_execute starts a program with the shell's descriptors.
LEMMA ShellFork ==
  ASSUME IInv, NEW stage \in Stages, NEW c \in Procs, External(stage, c)
  PROVE  IInv'
<1>. USE DescriptorsAssumption
<1>1. /\ Counts /\ Users /\ proc[shell] = "live" /\ sh.pc = stage /\ Forked(shell, c)
      /\ own[shell] = {} /\ sh' = [sh EXCEPT !.child = c]
      /\ proc[c] = "none" /\ proc' = [proc EXCEPT ![c] = "live"]
      /\ fd_table' = [fd_table EXCEPT ![c] = fd_table[shell]] /\ own' = [own EXCEPT ![c] = own[shell]]
  BY DEF IInv, External, Forked, Users, OwnHeld
<1>2. Counts'
  BY <1>1, ForkStep
<1>3. /\ c # shell
      /\ \A q \in Procs : q # c => fd_table'[q] = fd_table[q] /\ own'[q] = own[q] /\ proc'[q] = proc[q]
      /\ own'[c] = {} /\ proc'[c] = "live" /\ fd_table'[c] = fd_table[shell]
  BY <1>1 DEF Counts, Tables, Users, Programs
<1>4. Programs' /\ OwnHeld' /\ ShellFds' /\ ChildOK'
  BY <1>1, <1>3 DEF Users, Programs, OwnHeld, ShellFds, ChildOK
<1>5. \A f \in 0 .. 2 : fd_table[shell][f] > 2 => \E g \in Counted : fd_table[shell][g] = fd_table[shell][f]
  BY <1>1, ShellBacked
<1>6. Backed'
  BY <1>1, <1>3, <1>5 DEF Users, Backed
<1>. QED BY <1>2, <1>4, <1>6 DEF IInv, Users

\* The program the shell has waited for is gone.
LEMMA ShellWaits ==
  ASSUME IInv, ShellWait
  PROVE  IInv'
<1>. USE DescriptorsAssumption
<1>1. /\ UNCHANGED <<fd_table, file_table, page, own>> /\ Counts /\ Users
      /\ proc' = [proc EXCEPT ![sh.child] = "none"] /\ proc[sh.child] = "zombie" /\ sh.child \in Procs
      /\ sh' = [sh EXCEPT !.pc = After(sh.pc), !.child = NULL] /\ sh.pc \in Stages
  BY DEF ShellWait, IInv, Users, Programs, ChildOK
<1>2. /\ proc' \in [Procs -> {"none", "live", "zombie"}]
      /\ \A q \in Procs : proc'[q] = "live" <=> proc[q] = "live"
  BY <1>1 DEF Counts, Tables
<1>3. Counts'
  BY <1>1, <1>2, SameStep DEF Counts, Tables
<1>4. /\ After(sh.pc) \in Places
      /\ \A slot \in Slots : sh.pc # "prompt" => ShellTable(sh.pc, slot) = ShellTable(After(sh.pc), slot)
      /\ sh.pc = "prompt" <=> After(sh.pc) = "prompt"
  BY <1>1 DEF ShellTable, In, Out, Stages, After, Places
<1>5. ShellFds' /\ Programs' /\ ChildOK'
  BY <1>1, <1>4 DEF Users, ShellFds, Programs, ChildOK
<1>6. OwnHeld' /\ Backed'
  BY <1>1, <1>2 DEF Users, OwnHeld, Backed
<1>. QED BY <1>3, <1>5, <1>6 DEF IInv, Users

\* The shell closes the pipe, one descriptor after the other.
LEMMA ShellCloses ==
  ASSUME IInv, ShellClose
  PROVE  IInv'
<1>. USE DescriptorsAssumption
<1>1. PICK from \in {"close0", "close1"}, f \in {3, 4} :
        /\ sh.fd = <<3, 4>> => /\ Close(shell, f)
                              /\ f = IF from = "close0" THEN 3 ELSE 4
        /\ sh.pc = from /\ sh.child = NULL
        /\ sh' = [sh EXCEPT !.pc = IF from = "close0" THEN "close1" ELSE "prompt"]
  BY DEF ShellClose, Shell
<1>2. PICK slot \in Slots : sh.fd = <<3, 4>> /\ fd_table[shell] = ShellTable(from, slot)
  BY <1>1 DEF IInv, Users, ShellFds
<1>3. /\ Counts /\ Users /\ proc[shell] = "live" /\ UNCHANGED <<proc, own>> /\ Close(shell, f)
      /\ fd_table' = [fd_table EXCEPT ![shell][f] = -1] /\ f \in Counted /\ f \in Fds
      /\ fd_table[shell][f] = slot
  BY <1>1, <1>2, ShellTableFacts DEF IInv, ShellClose, Users, OwnHeld, Close
<1>4. Counts'
  BY <1>3, CloseStep
<1>5. /\ \A q \in Procs : q # shell => fd_table'[q] = fd_table[q]
      /\ fd_table'[shell] \in Table
      /\ \A h \in Fds : fd_table'[shell][h] = IF h = f THEN -1 ELSE ShellTable(from, slot)[h]
  BY <1>2, <1>3, <1>4 DEF Counts, Tables, Table
<1>8. Programs' /\ ChildOK'
  BY <1>1, <1>3 DEF Users, Programs, ChildOK, Places
<1>9. OwnHeld' /\ Backed'
  BY <1>3, <1>5 DEF Users, OwnHeld, Backed
<1>6. CASE from = "close0"
  <2>1. \A h \in Fds : fd_table'[shell][h] = ShellTable("close1", slot)[h]
    BY <1>1, <1>2, <1>5, <1>6 DEF ShellTable, In, Out, Std
  <2>2. fd_table'[shell] = ShellTable("close1", slot)
    BY <1>5, <2>1, ShellTableFacts DEF Table
  <2>3. ShellFds'
    BY <1>1, <1>2, <1>6, <2>2 DEF ShellFds, IInv, Users, Programs
  <2>. QED BY <1>4, <1>8, <1>9, <2>3 DEF IInv, Users
<1>7. CASE from = "close1"
  <2>1. \A h \in Fds : fd_table'[shell][h] = Std[h]
    BY <1>1, <1>2, <1>5, <1>7 DEF ShellTable, In, Out, Std
  <2>2. fd_table'[shell] = Std
    BY <1>5, <2>1, ShellTableFacts DEF Table
  <2>3. ShellFds'
    BY <1>1, <1>7, <2>2 DEF ShellFds, IInv, Users, Programs
  <2>. QED BY <1>4, <1>8, <1>9, <2>3 DEF IInv, Users
<1>. QED BY <1>6, <1>7

-----------------------------------------------------------------------------
\* The theorems.

\* Every step keeps IInv.
LEMMA NextIInv == IInv /\ [Next]_vars => IInv'
<1>. SUFFICES ASSUME IInv, [Next]_vars PROVE IInv'
  OBVIOUS
<1>1. CASE UNCHANGED vars
  BY <1>1 DEF vars, IInv, Counts, Users, Tables, SlotFree, PipeCounted, RingsOwned, Holders,
              Programs, OwnHeld, Backed, ShellFds, ChildOK
<1>2. ASSUME NEW p \in Procs, sys_pipe(p) \/ sys_exit(p) PROVE IInv'
  BY <1>2, ProgramPipe, ProgramExit
<1>3. ASSUME NEW p \in Procs, NEW f \in Counted, sys_close(p, f) PROVE IInv'
  BY <1>3, ProgramClose
<1>4. ASSUME NEW p \in Procs, NEW c \in Procs, sys_fork(p, c) PROVE IInv'
  BY <1>4, ProgramFork
<1>5. CASE ShellPipe \/ ShellRedirect \/ ShellRestore \/ ShellWait \/ ShellClose
  BY <1>5, ShellPipeStep, ShellRedirects, ShellWaits, ShellCloses
<1>6. CASE LastCommand
  BY <1>6, ShellGoesOn DEF Stages
<1>7. ASSUME NEW stage \in Stages, BuiltIn(stage) PROVE IInv'
  BY <1>7, ShellGoesOn
<1>8. ASSUME NEW stage \in Stages, NEW c \in Procs, External(stage, c) PROVE IInv'
  BY <1>8, ShellFork
<1>. QED BY <1>1, <1>2, <1>3, <1>4, <1>5, <1>6, <1>7, <1>8 DEF Next

\* IInv holds in every state of every execution.
THEOREM DescriptorsInductive == Spec => []IInv
BY InitIInv, NextIInv, PTL DEF Spec

\* The kernel counts descriptors right: with fork, exit, close and the
\* redirections of the shell in any order, the fd_pos of a pipe is the number
\* of its descriptors.  So a pipe goes with its last descriptor, never before,
\* for any number of processes, descriptors, slots and pages.
THEOREM PipesCounted == Spec => []PipeCounted
<1>1. IInv => PipeCounted
  BY DEF IInv, Counts
<1>. QED BY <1>1, DescriptorsInductive, PTL

\* sys_close and release_prog_resource give every ring back, and only rings
\* of pipes without descriptors: no page of a ring is lost or used twice.
THEOREM RingPages == Spec => []RingsOwned
<1>1. IInv => RingsOwned
  BY DEF IInv, Counts
<1>. QED BY <1>1, DescriptorsInductive, PTL

\* sys_fd_redirect counts nothing, and need not: a redirected descriptor of a
\* program or of the shell finds its pipe.
THEOREM RedirectionsSafe == Spec => []StdioCounted
<1>1. ASSUME IInv, NEW p \in Procs, NEW f \in 0 .. 2, proc[p] = "live", fd_table[p][f] > 2
      PROVE  /\ Held(fd_table[p], fd_table[p][f]) # {}
             /\ file_table[fd_table[p][f]].fd_inode # 0
  <2>1. PICK g \in Counted : fd_table[p][g] = fd_table[p][f]
    BY <1>1, ShellBacked DEF IInv, Users, Backed
  <2>2. fd_table[p][g] \in Slots
    BY <1>1, <2>1 DEF IInv, Counts, Tables
  <2>3. file_table[fd_table[p][g]].fd_inode # 0
    BY <1>1, <2>2, HeldPipe DEF IInv
  <2>. QED BY <2>1, <2>3 DEF Held
<1>2. IInv => StdioCounted
  BY <1>1 DEF StdioCounted
<1>. QED BY <1>2, DescriptorsInductive, PTL

\* my_shell ends every command line with the descriptors it began with.
THEOREM ShellRestores == Spec => []ShellRestored
<1>1. IInv => ShellRestored
  BY DEF IInv, Users, ShellFds, ShellRestored
<1>. QED BY <1>1, DescriptorsInductive, PTL

\* The tables hold what they may hold; a free slot is one nobody is counted for.
THEOREM DescriptorsTyped == Spec => []TypeOK
<1>1. IInv => TypeOK
  BY DEF IInv, Counts, Tables, Table, SlotFree, Users, Programs, File, TypeOK
<1>. QED BY <1>1, DescriptorsInductive, PTL
=============================================================================

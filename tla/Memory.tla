------------------------------- MODULE Memory --------------------------------
(***************************************************************************)
(* The memory while the system boots and after: kernel/memory.c as it is   *)
(* used by main, which runs with interrupts on, by start_process, and by   *)
(* processes in system calls (fork, exit, malloc and free; inode_open and  *)
(* inode_close allocate from the kernel's heap).                           *)
(*                                                                         *)
(* A system call is one step, because interrupts are off.  A step of main  *)
(* or start_process ends where a clock interrupt makes a difference: after *)
(* each scan of a bitmap and between the load and the store of the byte    *)
(* that bitmap_set changes.  The lock of kernel_pool is held by main or    *)
(* free, as seen by others; that of user_pool is never wanted by two.      *)
(* When two users have got the same frame, nothing can be said any more,   *)
(* and no step follows.                                                    *)
(***************************************************************************)
EXTENDS Heap, FiniteSets
LOCAL INSTANCE SequencesExt

CONSTANTS init,        \* the process that boot starts
          ByteBits,    \* bits of a byte, 8 in the code
          KSizes,      \* sizes asked for by main
          InodeSize,   \* size asked for by inode_open
          USizes,      \* sizes asked for by processes
          KMax, UMax   \* bounds on the blocks in use

ASSUME MemoryAssumption ==
  /\ init \in Procs
  /\ ByteBits \in Nat \ {0}
  /\ KSizes \cup USizes \cup {InodeSize} \subseteq Nat \ {0}
  /\ KMax \in Nat /\ UMax \in Nat

VARIABLES m,       \* the memory, with the holder of kernel_pool.lock
          proc,    \* "none", "start", "user" or "zombie"
          kpage,   \* the kernel's pages of each process
          held,    \* the blocks in use by the kernel and by each process
          main,    \* where main is, and its locals
          start    \* where start_process is, and its locals

vars == <<m, proc, kpage, held, main, start>>

NoPages == [pcb |-> -1, pgdir |-> -1]
Idle == [pc |-> "idle", page |-> 0, n |-> 0, i |-> 0, frame |-> 0, byte |-> {}, desc |-> NULL]

\* init has its task_struct and its page directory.
Init ==
  /\ m = [frames |-> [K |-> {0, 1}, U |-> {}],
          vbits |-> [sp \in Spaces |-> IF sp = "kernel" THEN {0, 1} ELSE {}],
          pte |-> [sp \in Spaces |-> IF sp = "kernel" THEN [page \in {0, 1} |-> <<"K", page>>] ELSE << >>],
          pde |-> [p \in Procs |-> << >>],
          arena |-> [sp \in Spaces |-> << >>],
          free |-> [sp \in Spaces |-> block_desc_init],
          locked |-> FALSE, panic |-> "no"]
  /\ proc = [p \in Procs |-> IF p = init THEN "start" ELSE "none"]
  /\ kpage = [p \in Procs |-> IF p = init THEN [pcb |-> 0, pgdir |-> 1] ELSE NoPages]
  /\ held = [sp \in Spaces |-> {}]
  /\ main = Idle
  /\ start = Idle

\* Who uses which frame: the pages of the kernel and of the processes, and
\* page tables.
FrameUses ==
  {<<sp, page, m.pte[sp][page]>> : <<sp, page>> \in
     {x \in Spaces \X (0 .. KPages + UPages) : x[2] \in DOMAIN m.pte[x[1]]}}
  \cup {<<x[1], -1 - x[2], m.pde[x[1]][x[2]]>> :
          x \in {y \in Procs \X (0 .. UPages) : y[2] \in DOMAIN m.pde[y[1]]}}

\* No frame is used twice.  palloc asks for it: "scanning or setting the
\* bitmap must be an atomic operation".
FrameUnique == Cardinality({u[3] : u \in FrameUses}) = Cardinality(FrameUses)

Alive == m.panic = "no" /\ FrameUnique

\* What a failing ASSERT leaves behind is of no interest.
Becomes(new) == m' = IF new.panic = "no" THEN new ELSE [m EXCEPT !.panic = new.panic]

-----------------------------------------------------------------------------
\* bitmap_set, with interrupts on.

Byte(bits, b) == {c \in bits : c \div ByteBits = b \div ByteBits}
Store(bits, byte, b) == (bits \ Byte(bits, b)) \cup byte

\* The loops of malloc_page and mfree_page over their pages.
Loop(again, next) ==
  IF main.i + 1 < main.n THEN [main EXCEPT !.pc = again, !.i = @ + 1]
  ELSE [main EXCEPT !.pc = next, !.i = 0]

MainAt(pc) == Alive /\ main.pc = pc /\ UNCHANGED <<proc, kpage, start>>
MainPage == main.page + main.i

\* Mutant: sys_malloc does not take the lock.
MainMalloc_NoLock(size) ==
  LET n == IF IsLarge(size) THEN PageCnt(size) ELSE 1
      page == vaddr_page(m, "kernel", n)
  IN  /\ MainAt("idle")
      /\ ~IsLarge(size) => m.free["kernel"][DescOf(size)] = << >>
      /\ m' = Check(m, HasZero(m.vbits["kernel"], KPages), "bitmap.c:30")
      /\ IF page = -1 THEN main' = main
         ELSE main' = [Idle EXCEPT !.pc = "vload", !.page = page, !.n = n,
                                   !.desc = IF IsLarge(size) THEN NULL ELSE DescOf(size)]
      /\ UNCHANGED held

\* sys_malloc needs pages.
MainMalloc(size) ==
  LET n == IF IsLarge(size) THEN PageCnt(size) ELSE 1
      page == vaddr_page(m, "kernel", n)
  IN  /\ MainAt("idle")
      /\ ~IsLarge(size) => m.free["kernel"][DescOf(size)] = << >>
      /\ m' = [Check(m, HasZero(m.vbits["kernel"], KPages), "bitmap.c:30") EXCEPT !.locked = page # -1]
      /\ IF page = -1 THEN main' = main
         ELSE main' = [Idle EXCEPT !.pc = "vload", !.page = page, !.n = n,
                                   !.desc = IF IsLarge(size) THEN NULL ELSE DescOf(size)]
      /\ UNCHANGED held

\* sys_malloc finds a free block.
MainTakes(size) ==
  LET d == DescOf(size)
  IN  /\ MainAt("idle")
      /\ ~IsLarge(size) => m.free["kernel"][d] # << >>
      /\ ~IsLarge(size)
      /\ m' = TakeBlock(m, "kernel", d)
      /\ held' = [held EXCEPT !["kernel"] = @ \cup {Head(m.free["kernel"][d])}]
      /\ UNCHANGED main

\* vaddr_get sets the bits of the pages.
VLoad ==
  /\ MainAt("vload")
  /\ main' = [main EXCEPT !.pc = "vstore", !.byte = Byte(m.vbits["kernel"], MainPage) \cup {MainPage}]
  /\ UNCHANGED <<m, held>>

VStore ==
  /\ MainAt("vstore")
  /\ m' = [m EXCEPT !.vbits["kernel"] = Store(@, main.byte, MainPage)]
  /\ main' = Loop("vload", "pscan")
  /\ UNCHANGED held

\* palloc for each of them, and page_table_add
PScan ==
  /\ MainAt("pscan")
  /\ m' = Check(m, HasZero(m.frames["K"], KPages), "bitmap.c:30")
  /\ main' = [main EXCEPT !.pc = "pload", !.frame = palloc_frame(m, "K")]
  /\ UNCHANGED held

PLoad ==
  /\ MainAt("pload")
  /\ main' = [main EXCEPT !.pc = "pstore", !.byte = Byte(m.frames["K"], main.frame) \cup {main.frame}]
  /\ UNCHANGED <<m, held>>

PStore ==
  /\ MainAt("pstore")
  /\ m' = page_table_add([m EXCEPT !.frames["K"] = Store(@, main.byte, main.frame)],
                         "kernel", MainPage, <<"K", main.frame>>)
  /\ main' = Loop("pscan", "carve")
  /\ UNCHANGED held

\* The pages become an arena, or a large allocation.
Carve ==
  LET m1 == IF main.desc = NULL THEN LargeArena(m, "kernel", main.page, main.n)
            ELSE NewArena(m, "kernel", main.page, main.desc)
      m2 == IF main.desc = NULL THEN m1 ELSE TakeBlock(m1, "kernel", main.desc)
      b == IF main.desc = NULL THEN <<main.page, 0>> ELSE Head(m1.free["kernel"][main.desc])
  IN  /\ MainAt("carve")
      /\ m' = [m2 EXCEPT !.locked = FALSE]
      /\ held' = [held EXCEPT !["kernel"] = @ \cup {b}]
      /\ main' = Idle

\* sys_free, up to mfree_page
MainFree(b) ==
  LET m1 == Returned(m, "kernel", b)
      page == block2arena(b)
      a == m1.arena["kernel"][page]
  IN  /\ MainAt("idle")
      /\ held' = [held EXCEPT !["kernel"] = @ \ {b}]
      /\ IF Unused(a)
         THEN /\ m' = [DropArena(m1, "kernel", page) EXCEPT !.locked = TRUE]
              /\ main' = [Idle EXCEPT !.pc = "fload", !.page = page, !.n = ArenaPages(a)]
         ELSE m' = m1 /\ UNCHANGED main

\* pfree for each page, and page_table_pte_remove
FLoad ==
  LET frame == m.pte["kernel"][MainPage][2]
  IN  /\ MainAt("fload")
      /\ main' = [main EXCEPT !.pc = "fstore", !.frame = frame,
                              !.byte = Byte(m.frames["K"], frame) \ {frame}]
      /\ UNCHANGED <<m, held>>

FStore ==
  /\ MainAt("fstore")
  /\ m' = page_table_pte_remove([m EXCEPT !.frames["K"] = Store(@, main.byte, main.frame)],
                                "kernel", MainPage)
  /\ main' = Loop("fload", "rload")
  /\ UNCHANGED held

\* vaddr_remove, and the lock is released
RLoad ==
  /\ MainAt("rload")
  /\ main' = [main EXCEPT !.pc = "rstore", !.byte = Byte(m.vbits["kernel"], MainPage) \ {MainPage}]
  /\ UNCHANGED <<m, held>>

RStore ==
  LET next == Loop("rload", "idle")
  IN  /\ MainAt("rstore")
      /\ m' = [m EXCEPT !.vbits["kernel"] = Store(@, main.byte, MainPage), !.locked = next.pc # "idle"]
      /\ main' = IF next.pc = "idle" THEN Idle ELSE next
      /\ UNCHANGED held

-----------------------------------------------------------------------------
\* start_process of init: get_a_page for its stack, whose page table takes a
\* frame of kernel_pool, with interrupts on and without that pool's lock.

StartAt(pc) ==
  /\ Alive /\ proc[init] = "start" /\ start.pc = pc
  /\ UNCHANGED <<kpage, held, main>>

StackFrame ==
  /\ StartAt("idle")
  /\ Becomes(palloc([m EXCEPT !.vbits[init] = @ \cup {StackPage}], "U"))
  /\ start' = [start EXCEPT !.pc = "tscan", !.page = palloc_frame(m, "U")]
  /\ UNCHANGED proc

TableScan ==
  /\ StartAt("tscan")
  /\ m' = Check(m, HasZero(m.frames["K"], KPages), "bitmap.c:30")
  /\ start' = [start EXCEPT !.pc = "tload", !.frame = palloc_frame(m, "K")]
  /\ UNCHANGED proc

TableLoad ==
  /\ StartAt("tload")
  /\ start' = [start EXCEPT !.pc = "tstore", !.byte = Byte(m.frames["K"], start.frame) \cup {start.frame}]
  /\ UNCHANGED <<m, proc>>

TableStore ==
  /\ StartAt("tstore")
  /\ m' = page_table_add([m EXCEPT !.frames["K"] = Store(@, start.byte, start.frame),
                                   !.pde[init] = With(@, TableOf(StackPage), <<"K", start.frame>>)],
                         init, StackPage, <<"U", start.page>>)
  /\ proc' = [proc EXCEPT ![init] = "user"]
  /\ start' = Idle

-----------------------------------------------------------------------------
\* System calls of processes.

UserAt(p) == Alive /\ proc[p] = "user" /\ UNCHANGED <<main, start>>

\* malloc and free of the process sp, and of the kernel for its files
Malloc(p, sp, size) ==
  \E r \in {sys_malloc(m, sp, size)} :
    /\ UserAt(p)
    /\ sp = "kernel" => ~m.locked
    /\ Becomes(r.m)
    /\ held' = [held EXCEPT ![sp] = @ \cup ({r.b} \ {NULL})]
    /\ UNCHANGED <<proc, kpage>>

Free(p, sp, b) ==
  /\ UserAt(p)
  /\ sp = "kernel" => ~m.locked
  /\ Becomes(sys_free(m, sp, b))
  /\ held' = [held EXCEPT ![sp] = @ \ {b}]
  /\ UNCHANGED <<proc, kpage>>

\* copy_body_stack3: every page of the parent gets a frame in the child.
CopyBody(mem, p, c) ==
  FoldLeft(LAMBDA t, page : IF t.panic # "no" THEN t ELSE get_a_page_without_opvaddrbitmap(t, c, page),
           mem, SetToSortSeq(mem.vbits[p], LAMBDA x, y : x < y))

\* fork takes pages for the task_struct, a buffer and the page directory.
\* The pages of the address bitmap, taken here and given back by exit, are
\* left to Process.
\* The descriptors of the child start empty: it never frees a block that its
\* parent has allocated.
sys_fork(p, c) ==
  LET m1 == malloc_page(m, "kernel", 1)
      m2 == malloc_page(m1, "kernel", 1)
      m3 == malloc_page(m2, "kernel", 1)
      buf == vaddr_page(m1, "kernel", 1)
      m4 == CopyBody([m3 EXCEPT !.vbits[c] = m.vbits[p], !.free[c] = block_desc_init], p, c)
  IN  /\ UserAt(p) /\ ~m.locked
      /\ proc[c] = "none"
      /\ Becomes(IF m4.panic = "no" THEN mfree_page(m4, "kernel", buf, 1) ELSE m4)
      /\ proc' = [proc EXCEPT ![c] = "user"]
      /\ kpage' = [kpage EXCEPT ![c] = [pcb |-> vaddr_page(m, "kernel", 1),
                                        pgdir |-> vaddr_page(m2, "kernel", 1)]]
      /\ UNCHANGED held

Frames(f) == {f[x] : x \in DOMAIN f}

\* Mutant: only the frames of the page tables are given back.
release_prog_resource_Tables(p) ==
  [m EXCEPT !.frames["K"] = {f \in @ : <<"K", f>> \notin Frames(m.pde[p])},
            !.pte[p] = << >>, !.pde[p] = << >>, !.vbits[p] = {},
            !.arena[p] = << >>, !.free[p] = block_desc_init]

\* Every frame of the process and of its page tables, without any lock.
release_prog_resource(p) ==
  LET given == Frames(m.pte[p]) \cup Frames(m.pde[p])
  IN  [m EXCEPT !.frames = [pool \in {"K", "U"} |-> {f \in @[pool] : <<pool, f>> \notin given}],
                !.pte[p] = << >>, !.pde[p] = << >>, !.vbits[p] = {},
                !.arena[p] = << >>, !.free[p] = block_desc_init]

sys_exit(p) ==
  /\ UserAt(p) /\ p # init
  /\ m' = release_prog_resource(p)
  /\ held' = [held EXCEPT ![p] = {}]
  /\ proc' = [proc EXCEPT ![p] = "zombie"]
  /\ UNCHANGED kpage

\* wait of a parent p finds the child c: thread_exit, without any lock.
thread_exit(p, c) ==
  /\ UserAt(p) /\ proc[c] = "zombie"
  /\ m' = mfree_page(mfree_page(m, "kernel", kpage[c].pgdir, 1), "kernel", kpage[c].pcb, 1)
  /\ proc' = [proc EXCEPT ![c] = "none"]
  /\ kpage' = [kpage EXCEPT ![c] = NoPages]
  /\ UNCHANGED held

Room(sp) == Cardinality(held[sp]) < (IF sp = "kernel" THEN KMax ELSE UMax)

MainNext ==
  \/ Room("kernel") /\ \E size \in KSizes : MainMalloc(size) \/ MainTakes(size)
  \/ \E b \in held["kernel"] : MainFree(b)
  \/ VLoad \/ VStore \/ PScan \/ PLoad \/ PStore \/ Carve \/ FLoad \/ FStore \/ RLoad \/ RStore

Next ==
  \/ MainNext
  \/ StackFrame \/ TableScan \/ TableLoad \/ TableStore
  \/ \E p \in Procs : \/ Room(p) /\ \E size \in USizes : Malloc(p, p, size)
                      \/ Room("kernel") /\ Malloc(p, "kernel", InodeSize)
                      \/ \E sp \in {p, "kernel"} : \E b \in held[sp] : Free(p, sp, b)
                      \/ \E c \in Procs : sys_fork(p, c) \/ thread_exit(p, c)
                      \/ sys_exit(p)

Spec == Init /\ [][Next]_vars

-----------------------------------------------------------------------------
\* Properties.

TypeOK ==
  /\ m.frames["K"] \subseteq 0 .. KPages - 1 /\ m.frames["U"] \subseteq 0 .. UFrames - 1
  /\ \A sp \in Spaces :
       /\ m.vbits[sp] \subseteq 0 .. VSize(sp)
       /\ \A page \in DOMAIN m.arena[sp] :
            LET a == m.arena[sp][page]
            IN  a.cnt \in 0 .. (IF a.large THEN VSize(sp) ELSE blocks_per_arena(a.desc) - 1)
  /\ main.pc # "idle" <=> m.locked

\* Of the ASSERTs in memory.c none ever fails: a page that is mapped was not
\* mapped before, and the blocks of an arena that is given up are all free.
\* Only a full pool stops the kernel.
PanicOnlyWhenFull == m.panic \in {"no", "bitmap.c:30"}

InUse(f, first, n) == {<<f, page>> : page \in Pages(first, n)}

\* Who uses which page of the kernel: arenas, processes, and main while it
\* allocates or frees.
KernelUses ==
  UNION {InUse(<<"arena", page>>, page, ArenaPages(m.arena["kernel"][page])) : page \in DOMAIN m.arena["kernel"]}
  \cup {<<<<f, p>>, kpage[p][f]>> : <<p, f>> \in {q \in Procs : proc[q] # "none"} \X {"pcb", "pgdir"}}
  \cup InUse(<<"main", 0>>, main.page, main.n)

\* A page of the kernel has one user and its bit is set, though mfree_page of
\* fork and wait does not take the lock.
KernelPagesUnique ==
  m.panic = "no" =>
  /\ Cardinality({u[2] : u \in KernelUses}) = Cardinality(KernelUses)
  /\ \A u \in KernelUses : u[1][1] # "main" => u[2] \in m.vbits["kernel"] /\ u[2] \in DOMAIN m.pte["kernel"]

\* Each block of an arena is in use or once in the free_list of the arena's
\* descriptor, and cnt is the number of the free ones.  So no block is given
\* out twice, and no arena goes while one of its blocks is in use.
HeapSound ==
  TypeOK /\ \A sp \in Spaces :
    LET Arenas(d) == {page \in DOMAIN m.arena[sp] : m.arena[sp][page].desc = d}
        InList(d) == {m.free[sp][d][i] : i \in 1 .. Len(m.free[sp][d])}
        All(d) == {<<page, i>> : <<page, i>> \in Arenas(d) \X (0 .. blocks_per_arena(d) - 1)}
        Large == {<<page, 0>> : page \in Arenas(NULL)}
        listed == UNION {InList(d) : d \in Descs}
    IN  /\ held[sp] \cap listed = {}
        /\ held[sp] \cup listed = Large \cup UNION {All(d) : d \in Descs}
        /\ \A d \in Descs : /\ InList(d) \subseteq All(d)
                            /\ Len(m.free[sp][d]) = Cardinality(InList(d))
                            /\ \A page \in Arenas(d) :
                                 m.arena[sp][page].cnt = Cardinality({b \in InList(d) : b[1] = page})

\* A frame of user_pool is taken exactly while a process has a page for it:
\* after fork, free and exit nothing is lost.
UserFramesOwned ==
  LET mapped == {u[3][2] : u \in {v \in FrameUses : v[3][1] = "U"}}
  IN  m.frames["U"] = mapped \cup (IF start.pc = "idle" THEN {} ELSE {start.page})
=============================================================================

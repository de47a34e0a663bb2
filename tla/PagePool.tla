------------------------------ MODULE PagePool -------------------------------
(***************************************************************************)
(* Pages and frames: the first half of kernel/memory.c.  A function that   *)
(* runs undisturbed maps a state m of the memory to the one in which it    *)
(* returns.                                                                *)
(*                                                                         *)
(* m.frames has the bits that are set in the bitmaps of kernel_pool "K"    *)
(* and user_pool "U", m.vbits those of the virtual pages of the kernel and *)
(* of each process.  m.pte maps the virtual pages of each to their frames, *)
(* and m.pde the page tables of a process to theirs.  Page tables of the   *)
(* kernel are there from the start.                                        *)
(***************************************************************************)
EXTENDS Integers, Sequences
LOCAL INSTANCE FiniteSetsExt
LOCAL INSTANCE SequencesExt

CONSTANTS Procs,           \* the user processes
          KPages,          \* frames of kernel_pool, and bits of kernel_vaddr
          UFrames,         \* frames of user_pool
          UPages,          \* virtual pages of a process; the stack is the last
          PagesPerTable    \* pages of one page table, 1024 in the code

ASSUME PagePoolAssumption ==
  /\ {KPages, UFrames, UPages, PagesPerTable} \subseteq Nat \ {0}
  /\ "kernel" \notin Procs

Spaces == Procs \cup {"kernel"}
PoolOf(sp) == IF sp = "kernel" THEN "K" ELSE "U"
PoolSize == [K |-> KPages, U |-> UFrames]
VSize(sp) == IF sp = "kernel" THEN KPages ELSE UPages
StackPage == UPages - 1
TableOf(page) == page \div PagesPerTable

Pages(first, n) == first .. first + n - 1
Upto(n) == [i \in 1 .. n |-> i - 1]
Without(f, x) == [y \in DOMAIN f \ {x} |-> f[y]]
With(f, x, v) == [y \in DOMAIN f \cup {x} |-> IF y = x THEN v ELSE f[y]]

Check(m, cond, place) == IF cond \/ m.panic # "no" THEN m ELSE [m EXCEPT !.panic = place]

\* The first run of n bits that are 0, -1 if there is none.  A run of several
\* bits may end one past the end of the bitmap (see module Bitmap).
bitmap_scan(bits, size, n) ==
  LET runs == {i \in 0 .. size - n + (IF n > 1 THEN 1 ELSE 0) : Pages(i, n) \cap bits = {}}
  IN  IF runs = {} THEN -1 ELSE Min(runs)

\* ASSERT(idx_byte < btmp_bytes_len)
HasZero(bits, size) == ~(0 .. size - 1) \subseteq bits

\* The scan of vaddr_get, and the bits that it sets.
vaddr_page(m, sp, n) == bitmap_scan(m.vbits[sp], VSize(sp), n)
vaddr_get(m, sp, n) ==
  LET m1 == Check(m, HasZero(m.vbits[sp], VSize(sp)), "bitmap.c:30")
      m2 == Check(m1, sp = "kernel" \/ vaddr_page(m, sp, n) < StackPage, "memory.c:87")
  IN  IF vaddr_page(m, sp, n) = -1 THEN m1
      ELSE [m2 EXCEPT !.vbits[sp] = @ \cup Pages(vaddr_page(m, sp, n), n)]

palloc_frame(m, pool) == bitmap_scan(m.frames[pool], PoolSize[pool], 1)
palloc(m, pool) ==
  [Check(m, HasZero(m.frames[pool], PoolSize[pool]), "bitmap.c:30") EXCEPT
     !.frames[pool] = @ \cup {palloc_frame(m, pool)}]

HasTable(m, sp, page) == sp = "kernel" \/ TableOf(page) \in DOMAIN m.pde[sp]

\* A page table that is missing takes a frame of kernel_pool, whichever lock
\* is held.
AddTable(m, sp, page) ==
  IF HasTable(m, sp, page) THEN m
  ELSE [palloc(m, "K") EXCEPT
          !.pde[sp] = With(@, TableOf(page), <<"K", palloc_frame(m, "K")>>)]

page_table_add(m, sp, page, frame) ==
  [Check(AddTable(m, sp, page), page \notin DOMAIN m.pte[sp], "memory.c:146") EXCEPT
     !.pte[sp] = With(@, page, frame)]

\* Take a frame and map the page to it.
Install(m, sp, page) ==
  LET pool == PoolOf(sp)
  IN  page_table_add(palloc(m, pool), sp, page, <<pool, palloc_frame(m, pool)>>)

\* The pages vaddr_page(m, sp, n) onwards; nothing is given back on failure.
malloc_page(m, sp, n) ==
  LET first == vaddr_page(m, sp, n)
  IN  IF first = -1 THEN vaddr_get(m, sp, n)
      ELSE FoldLeft(LAMBDA t, i : IF t.panic # "no" THEN t ELSE Install(t, sp, first + i),
                    vaddr_get(m, sp, n), Upto(n))

get_a_page(m, sp, page) == Install([m EXCEPT !.vbits[sp] = @ \cup {page}], sp, page)
get_a_page_without_opvaddrbitmap(m, sp, page) == Install(m, sp, page)

\* pfree, and free_a_phy_page
pfree(m, frame) == [m EXCEPT !.frames[frame[1]] = @ \ {frame[2]}]
page_table_pte_remove(m, sp, page) == [m EXCEPT !.pte[sp] = Without(@, page)]
vaddr_remove(m, sp, page, n) == [m EXCEPT !.vbits[sp] = @ \ Pages(page, n)]

\* One page of mfree_page: its frame must be one of the pool of the first.
FreePage(m, sp, pool, page) ==
  page_table_pte_remove(pfree(Check(m, m.pte[sp][page][1] = pool, "memory.c:496"), m.pte[sp][page]),
                        sp, page)

mfree_page(m, sp, page, n) ==
  LET pool == m.pte[sp][page][1]
  IN  vaddr_remove(FoldLeft(LAMBDA t, i : FreePage(t, sp, pool, page + i), m, Upto(n)),
                   sp, page, n)
=============================================================================

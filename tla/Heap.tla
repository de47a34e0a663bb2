-------------------------------- MODULE Heap ---------------------------------
(***************************************************************************)
(* sys_malloc and sys_free of kernel/memory.c, for a caller that is not    *)
(* disturbed.  m.arena has the headers of the arenas of the kernel and of  *)
(* each process, by page, and m.free the free_lists of their descriptors.  *)
(* A block is the pair of its page and its index in it; the index of a     *)
(* large allocation is 0.                                                  *)
(***************************************************************************)
EXTENDS PagePool
LOCAL INSTANCE FiniteSetsExt
LOCAL INSTANCE SequencesExt

CONSTANTS PG_SIZE,       \* bytes of a page, 4096 in the code
          ArenaSize,     \* sizeof(struct arena), 12
          BlockSizes,    \* block_size of each descriptor, 16, 32, .. 1024
          NULL

ASSUME HeapAssumption ==
  /\ {PG_SIZE, ArenaSize} \subseteq Nat \ {0}
  /\ \A d \in 1 .. Len(BlockSizes) : BlockSizes[d] \in 1 .. PG_SIZE - ArenaSize

Descs == 1 .. Len(BlockSizes)
blocks_per_arena(d) == (PG_SIZE - ArenaSize) \div BlockSizes[d]
block_desc_init == [d \in Descs |-> << >>]

IsLarge(size) == size > BlockSizes[Len(BlockSizes)]
PageCnt(size) == (size + ArenaSize + PG_SIZE - 1) \div PG_SIZE
DescOf(size) == Min({d \in Descs : size <= BlockSizes[d]})

Blocks(page, d) == [i \in 1 .. blocks_per_arena(d) |-> <<page, i - 1>>]
block2arena(b) == b[1]

\* The header of a large allocation.
LargeArena(m, sp, page, n) ==
  [m EXCEPT !.arena[sp] = With(@, page, [desc |-> NULL, cnt |-> n, large |-> TRUE])]

\* A page is cut into blocks, none of which may be in the list yet.
NewArena(m, sp, page, d) ==
  LET fresh == \A i \in 1 .. blocks_per_arena(d) : ~Contains(m.free[sp][d], Blocks(page, d)[i])
  IN  [Check(m, fresh, "memory.c:408") EXCEPT
         !.arena[sp] = With(@, page, [desc |-> d, cnt |-> blocks_per_arena(d), large |-> FALSE]),
         !.free[sp][d] = @ \o Blocks(page, d)]

\* The first block of the list is taken from its arena.
TakeBlock(m, sp, d) ==
  [m EXCEPT !.free[sp][d] = Tail(@), !.arena[sp][block2arena(Head(m.free[sp][d]))].cnt = @ - 1]

\* sys_malloc returns the memory and the block, NULL if there is none.
MallocPages(m, sp, n) ==
  LET page == vaddr_page(m, sp, n)
      m1 == malloc_page(m, sp, n)
  IN  IF page = -1 \/ m1.panic # "no" THEN [m |-> m1, b |-> NULL]
      ELSE [m |-> LargeArena(m1, sp, page, n), b |-> <<page, 0>>]

MallocBlock(m, sp, d) ==
  LET m1 == IF m.free[sp][d] # << >> THEN m
            ELSE NewArena(malloc_page(m, sp, 1), sp, vaddr_page(m, sp, 1), d)
  IN  IF m1.panic # "no" THEN [m |-> m1, b |-> NULL]
      ELSE [m |-> TakeBlock(m1, sp, d), b |-> Head(m1.free[sp][d])]

sys_malloc(m, sp, size) ==
  IF IsLarge(size) THEN MallocPages(m, sp, PageCnt(size)) ELSE MallocBlock(m, sp, DescOf(size))

\* Mutant: the number of free blocks of the arena stays as it is.
PutBlock_NoCount(m, sp, b) ==
  LET a == m.arena[sp][block2arena(b)]
  IN  [m EXCEPT !.free[sp][a.desc] = Append(@, b)]

\* A block goes back to its list, and is counted.
PutBlock(m, sp, b) ==
  LET a == m.arena[sp][block2arena(b)]
  IN  [m EXCEPT !.free[sp][a.desc] = Append(@, b), !.arena[sp][block2arena(b)].cnt = @ + 1]

\* Mutant: an arena is given up one block too early.
Unused_Early(a) == a.large \/ a.cnt + 1 >= blocks_per_arena(a.desc)

\* The page of an arena is given back with its last block.
Unused(a) == a.large \/ a.cnt = blocks_per_arena(a.desc)

\* The blocks of an arena leave the list; all of them must be in it.
DropArena(m, sp, page) ==
  LET a == m.arena[sp][page]
      blocks == {<<page, i>> : i \in 0 .. blocks_per_arena(a.desc) - 1}
      listed == \A b \in blocks : Contains(m.free[sp][a.desc], b)
      m1 == IF a.large THEN m
            ELSE [Check(m, listed, "memory.c:576") EXCEPT
                    !.free[sp][a.desc] = SelectSeq(@, LAMBDA b : b \notin blocks)]
  IN  [m1 EXCEPT !.arena[sp] = Without(@, page)]

ArenaPages(a) == IF a.large THEN a.cnt ELSE 1

\* The memory after the block has been put back, before pages are.
Returned(m, sp, b) == IF m.arena[sp][block2arena(b)].large THEN m ELSE PutBlock(m, sp, b)

sys_free(m, sp, b) ==
  LET m1 == Returned(m, sp, b)
      page == block2arena(b)
      a == m1.arena[sp][page]
  IN  IF Unused(a) THEN mfree_page(DropArena(m1, sp, page), sp, page, ArenaPages(a)) ELSE m1
=============================================================================

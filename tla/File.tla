-------------------------------- MODULE File ---------------------------------
(***************************************************************************)
(* Open files: fs/file.c.  The state has the file table file, whose slots  *)
(* are free when their inode is NULL, and the descriptors fd of the        *)
(* process, -1 when free.  The byte that a program writes at an offset of  *)
(* a file is the pair of the inode and the offset.                         *)
(***************************************************************************)
EXTENDS Dir, Integers
LOCAL INSTANCE FiniteSetsExt
LOCAL INSTANCE SequencesExt

CONSTANTS MAX_FILE_OPEN,              \* slots of the file table, 32 in the code
          MAX_FILES_OPEN_PER_PROC,    \* descriptors of a process, 8
          Uint32,                     \* the values of a uint32_t, 2^32
          NULL

ASSUME FileAssumption ==
  /\ {MAX_FILE_OPEN, MAX_FILES_OPEN_PER_PROC} \subseteq Nat
  /\ MAX_FILE_OPEN > 3 /\ MAX_FILES_OPEN_PER_PROC > 3
  /\ Uint32 \in Nat /\ Uint32 > 2 * BLOCK_SIZE * MaxBlocks

Slots == 3 .. MAX_FILE_OPEN - 1
Fds == 3 .. MAX_FILES_OPEN_PER_PROC - 1
FreeSlot == [inode |-> NULL, pos |-> 0, flag |-> "O_RDONLY"]

FreeSlots(s) == {f \in Slots : s.file[f].inode = NULL}
get_free_slot_in_global(s) == IF FreeSlots(s) = {} THEN -1 ELSE Min(FreeSlots(s))

FreeFds(s) == {d \in Fds : s.fd[d] = -1}

\* A full table of descriptors leaves the slot taken.
pcb_fd_install(s, f) == IF FreeFds(s) = {} THEN s ELSE [s EXCEPT !.fd[Min(FreeFds(s))] = f]

\* Without a free slot the inode's bit is cleared again.
file_create(s, parent, name, flag) ==
  LET no == inode_bitmap_no(s)
      f == get_free_slot_in_global(s)
      s1 == sync_dir_entry(inode_bitmap_alloc(s), parent, create_dir_entry(name, no, "FT_REGULAR"))
      s2 == InodeBitmapSync(inode_sync(inode_sync(s1, s1.mem[parent]), inode_init(no)))
      p == FreeAddress(s2)
      s3 == Push(s2, p, [inode_init(no) EXCEPT !.i_open_cnts = 1])
  IN  IF f = -1 THEN Check(s, ~InodeNos \subseteq s.ib, "bitmap.c:30")
      ELSE pcb_fd_install([s3 EXCEPT !.file[f] = [inode |-> p, pos |-> 0, flag |-> flag]], f)

Writes(flag) == flag \in {"O_WRONLY", "O_RDWR"}

\* A file that somebody writes is refused, with its slot and its inode taken.
file_open(s, no, flag) ==
  LET f == get_free_slot_in_global(s)
      p == inode_at(s, no)
      s1 == [inode_open(s, no) EXCEPT !.file[f] = [inode |-> p, pos |-> 0, flag |-> flag]]
  IN  CASE f = -1 -> s
        [] f # -1 /\ Writes(flag) /\ s1.mem[p].write_deny -> s1
        [] f # -1 /\ Writes(flag) /\ ~s1.mem[p].write_deny ->
             pcb_fd_install([s1 EXCEPT !.mem[p].write_deny = TRUE], f)
        [] f # -1 /\ ~Writes(flag) -> pcb_fd_install(s1, f)

\* Mutant: the inode stays open.
file_close_KeepsInode(s, f) == [s EXCEPT !.file[f] = FreeSlot]

file_close(s, f) ==
  LET p == s.file[f].inode
      s1 == inode_close([s EXCEPT !.mem[p].write_deny = FALSE], p)
  IN  [s1 EXCEPT !.file[f] = FreeSlot]

-----------------------------------------------------------------------------
\* file_write appends.

\* Block i of the file at p is allocated; its address goes to the inode or,
\* behind the direct blocks, to the table.
AddBlock(s, p, i) ==
  LET lba == block_bitmap_lba(s)
      s1 == NewBlock(s)
      table == s1.mem[p].i_sectors[NDirect]
  IN  IF i < NDirect
      THEN [Check(s1, s1.mem[p].i_sectors[i] = 0, "file.c:317") EXCEPT !.mem[p].i_sectors[i] = lba]
      ELSE [s1 EXCEPT !.blk[table] = TableSector([Addresses(@) EXCEPT ![i - NDirect] = lba])]

\* A new table: its bit is not written to the disk by itself.
AddTable(s, p) ==
  LET lba == block_bitmap_lba(s)
  IN  [Check(block_bitmap_alloc(s), s.mem[p].i_sectors[NDirect] = 0, "file.c:337") EXCEPT
         !.mem[p].i_sectors[NDirect] = lba, !.blk[lba] = TableSector(NoBlocks)]

\* The blocks that the code counts for a file of this size.
BlocksFor(size) == size \div BLOCK_SIZE + 1

AddBlocks(s, p, count) ==
  LET has == BlocksFor(s.mem[p].i_size)
      will == BlocksFor(s.mem[p].i_size + count)
      s1 == CASE will <= NDirect -> Check(s, will = has \/ s.mem[p].i_sectors[has - 1] # 0, "file.c:303")
              [] has <= NDirect /\ will > NDirect -> AddTable(s, p)
              [] has > NDirect -> Check(s, s.mem[p].i_sectors[NDirect] # 0, "file.c:367")
      new == [n \in 1 .. will - has |-> has + n - 1]
  IN  IF s.panic # "no" THEN s ELSE FoldLeft(LAMBDA t, i : AddBlock(t, p, i), s1, new)

\* Mutant: the bytes in front of the new ones are not read first.
WriteSector_NoRead(s, p, i, from, upto) ==
  LET lba == AllBlocks(s, s.mem[p])[i]
      new == [j \in 0 .. BLOCK_SIZE - 1 |->
                LET offset == i * BLOCK_SIZE + j
                IN  IF offset \in from .. upto - 1 THEN <<s.mem[p].i_no, offset>> ELSE ZeroByte]
  IN  [s EXCEPT !.blk[lba] = DataSector(new)]

\* Sector i of the file gets the bytes from .. upto - 1 that lie in it.  The
\* first sector keeps the other bytes it has, the rest of the others is zero.
WriteSector(s, p, i, from, upto) ==
  LET lba == AllBlocks(s, s.mem[p])[i]
      old == IF i = from \div BLOCK_SIZE THEN Bytes(s.blk[lba]) ELSE NoBytes
      new == [j \in 0 .. BLOCK_SIZE - 1 |->
                LET offset == i * BLOCK_SIZE + j
                IN  IF offset \in from .. upto - 1 THEN <<s.mem[p].i_no, offset>> ELSE old[j]]
  IN  [s EXCEPT !.blk[lba] = DataSector(new)]

WriteBytes(s, p, from, upto) ==
  LET first == from \div BLOCK_SIZE
      sectors == [n \in 1 .. (IF from = upto THEN 0 ELSE (upto - 1) \div BLOCK_SIZE - first + 1) |->
                    first + n - 1]
  IN  FoldLeft(LAMBDA t, i : WriteSector(t, p, i, from, upto), s, sectors)

\* fd_pos ends on the last byte written, i_size - 1 + count.
file_write(s, f, count) ==
  LET p == s.file[f].inode
      size == s.mem[p].i_size
      s1 == IF s.mem[p].i_sectors[0] = 0 THEN AddBlock(s, p, 0) ELSE s
      s2 == Check(s1, BlocksFor(size + count) <= MaxBlocks, "file.c:279")
      s3 == AddBlocks(s2, p, count)
      s4 == [WriteBytes(s3, p, size, size + count) EXCEPT
               !.mem[p].i_size = size + count,
               !.file[f].pos = (Uint32 + size - 1 + count) % Uint32]
  IN  IF size + count > BLOCK_SIZE * MaxBlocks THEN s
      ELSE IF s3.panic # "no" THEN s3 ELSE inode_sync(s4, s4.mem[p])

-----------------------------------------------------------------------------
\* The bytes that a read of count bytes asks for: what is left, near the end.
ReadSize(s, f, count) ==
  LET size == s.mem[s.file[f].inode].i_size
      pos == s.file[f].pos
  IN  IF (pos + count) % Uint32 > size THEN (Uint32 + size - pos) % Uint32 ELSE count

FirstBlock(s, f) == s.file[f].pos \div BLOCK_SIZE
EndBlock(s, f, count) == ((s.file[f].pos + ReadSize(s, f, count)) % Uint32) \div BLOCK_SIZE

\* At the end of the file -1 is returned at once.
AtEnd(s, f, count) == count > 0 /\ ReadSize(s, f, count) = 0

\* The ASSERTs of file_read: the block behind the last byte must be one of
\* the first MaxBlocks - 1, and the table must exist if it is needed.
ReadPanic(s, f, count) ==
  LET table == s.mem[s.file[f].inode].i_sectors[NDirect]
      far == {FirstBlock(s, f), EndBlock(s, f, count)} \ 0 .. MaxBlocks - 2
      crosses == FirstBlock(s, f) # EndBlock(s, f, count) /\ EndBlock(s, f, count) >= NDirect
  IN  CASE AtEnd(s, f, count) -> "no"
        [] ~AtEnd(s, f, count) /\ far # {} -> "file.c:450"
        [] ~AtEnd(s, f, count) /\ far = {} /\ crosses /\ table = 0 -> "file.c:486"
        [] OTHER -> "no"

\* The bytes read, for a read that returns.
ReadBytes(s, f, count) ==
  LET all == AllBlocks(s, s.mem[s.file[f].inode])
  IN  [n \in 1 .. ReadSize(s, f, count) |->
         LET offset == s.file[f].pos + n - 1
         IN  Bytes(s.blk[all[offset \div BLOCK_SIZE]])[offset % BLOCK_SIZE]]

file_read(s, f, count) ==
  [Stop(s, ReadPanic(s, f, count)) EXCEPT !.file[f].pos = (@ + ReadSize(s, f, count)) % Uint32]
=============================================================================

--------------------------------- MODULE Dir ---------------------------------
(***************************************************************************)
(* Directories: fs/dir.c.  The blocks of a directory hold its entries; the *)
(* places of the entries are numbered through all blocks.  A struct dir is *)
(* the address of its inode, and whether it is root_dir itself, which is   *)
(* never closed.                                                           *)
(***************************************************************************)
EXTENDS Inode, FiniteSets
LOCAL INSTANCE FiniteSetsExt

Places == 0 .. MaxBlocks * EntriesPerSec - 1
InBlock(i) == {p \in Places : p \div EntriesPerSec = i}
Dots == {".", ".."}

EntryAt(s, inode, p) ==
  LET lba == AllBlocks(s, inode)[p \div EntriesPerSec]
  IN  IF lba = 0 THEN NoEntry ELSE Entries(s.blk[lba])[p % EntriesPerSec]

Used(s, inode) == {p \in Places : EntryAt(s, inode, p).f_type # "FT_UNKNOWN"}

\* root_dir.inode, opened first by filesys_init
root_dir == [inode |-> 0, root |-> TRUE]
dir_open(s, no) == inode_open(s, no)
dir_at(s, no) == [inode |-> inode_at(s, no), root |-> FALSE]

dir_close(s, d) == IF d.root THEN s ELSE inode_close(s, d.inode)

\* The first entry with this name, NoEntry if there is none.
search_dir_entry(s, inode, name) ==
  LET found == {p \in Places : EntryAt(s, inode, p).filename = name}
  IN  IF found = {} THEN NoEntry ELSE EntryAt(s, inode, Min(found))

create_dir_entry(name, no, type) == [filename |-> name, i_no |-> no, f_type |-> type]

WriteEntry(s, lba, j, entry) ==
  [s EXCEPT !.blk[lba] = DirSector([Entries(@) EXCEPT ![j] = entry])]
WriteNewBlock(s, lba, entry) ==
  [s EXCEPT !.blk[lba] = DirSector([NoEntries EXCEPT ![0] = entry])]

\* Block i of the directory at p is allocated: a direct one, or the first of a
\* new indirect block table.
AddDirBlock(s, p, i, entry) ==
  LET s1 == NewBlock(s)
      s2 == NewBlock(s1)
  IN  IF i < NDirect
      THEN WriteNewBlock([s1 EXCEPT !.mem[p].i_sectors[i] = block_bitmap_lba(s)],
                         block_bitmap_lba(s), entry)
      ELSE WriteNewBlock([s2 EXCEPT
                            !.mem[p].i_sectors[NDirect] = block_bitmap_lba(s),
                            !.blk[block_bitmap_lba(s)] =
                              TableSector([NoBlocks EXCEPT ![0] = block_bitmap_lba(s1)])],
                         block_bitmap_lba(s1), entry)

\* The entry goes to the first free place of the direct blocks, or to the
\* first block that is missing.  The table of indirect blocks is never read,
\* so block NDirect is always missing.
sync_dir_entry(s, p, entry) ==
  LET inode == s.mem[p]
      Free(i) == {q \in InBlock(i) : EntryAt(s, inode, q).f_type = "FT_UNKNOWN"}
      i == Min({j \in 0 .. NDirect - 1 : Free(j) # {}} \cup {NDirect})
      s1 == IF i < NDirect /\ inode.i_sectors[i] # 0
            THEN WriteEntry(s, inode.i_sectors[i], Min(Free(i)) % EntriesPerSec, entry)
            ELSE AddDirBlock(s, p, i, entry)
  IN  [s1 EXCEPT !.mem[p].i_size = @ + 1]

\* Mutant: the block is given back, but stays in the inode.
FreeDirBlock_Kept(s, p, i) == FreeBlock(s, AllBlocks(s, s.mem[p])[i])

\* The last entry of a block goes with its block.  For an indirect block the
\* loop that counts the addresses never ends.
FreeDirBlock(s, p, i) ==
  LET s1 == FreeBlock(s, AllBlocks(s, s.mem[p])[i])
  IN  IF i < NDirect THEN [s1 EXCEPT !.mem[p].i_sectors[i] = 0] ELSE Stop(s1, "dir.c:282")

delete_dir_entry(s, p, no) ==
  LET inode == s.mem[p]
      Named == {q \in Used(s, inode) : EntryAt(s, inode, q).filename \notin Dots}
      found == {q \in Named : EntryAt(s, inode, q).i_no = no}
      i == Min(found) \div EntriesPerSec
      first == \E q \in InBlock(i) : EntryAt(s, inode, q).filename = "."
      s1 == Check(s, Cardinality(found \cap InBlock(i)) = 1, "dir.c:251")
      s2 == IF Cardinality(Named \cap InBlock(i)) = 1 /\ ~first
            THEN FreeDirBlock(s1, p, i)
            ELSE WriteEntry(s1, AllBlocks(s, inode)[i], Min(found) % EntriesPerSec, NoEntry)
      s3 == [Check(s2, inode.i_size >= 1, "dir.c:306") EXCEPT !.mem[p].i_size = @ - 1]
  IN  IF found = {} THEN s ELSE inode_sync(s3, s3.mem[p])

\* The entry at dir_pos, counting the entries in use; no entry behind the
\* last.  The search has no other end than i_size.
dir_read(s, inode, dir_pos) ==
  LET used == Used(s, inode)
      at == {p \in used : Cardinality({q \in used : q < p}) = dir_pos}
  IN  CASE dir_pos >= inode.i_size -> NoEntry
        [] dir_pos < inode.i_size /\ at # {} -> EntryAt(s, inode, Min(at))

dir_is_empty(s, p) == s.mem[p].i_size = 2

\* An empty directory has one block.
dir_remove(s, parent, child) ==
  LET no == s.mem[child].i_no
      one == \A i \in 1 .. NDirect : s.mem[child].i_sectors[i] = 0
  IN  inode_release(delete_dir_entry(Check(s, one, "dir.c:384"), parent, no), no)
=============================================================================

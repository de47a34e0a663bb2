----------------------------- MODULE FileSystem ------------------------------
(***************************************************************************)
(* The file system calls of one process: fs/fs.c.  Every system call runs  *)
(* to its end before the next one starts, as it does when nobody else uses *)
(* the disk.  The machine may be switched off between two system calls.    *)
(*                                                                         *)
(* A path is the sequence of its names; the shell passes absolute paths    *)
(* without "." and "..".  Addresses of inodes are kernel addresses, and    *)
(* sys_malloc never fails.                                                 *)
(*                                                                         *)
(* The properties hold as long as inodes have numbers that fit a uint8_t   *)
(* and directories do not outgrow their direct blocks: inode_sync and      *)
(* sync_dir_entry destroy inodes and tables from there on.                 *)
(***************************************************************************)
EXTENDS File
LOCAL INSTANCE FiniteSetsExt
LOCAL INSTANCE SequencesExt

CONSTANTS Paths,       \* the paths in use
          FilePaths,   \* those that files are created at
          DirPaths,    \* those that directories are created at
          OpenPaths,   \* those that are opened without O_CREAT
          Counts,      \* numbers of bytes to read or write
          Offsets,     \* offsets passed to lseek
          MaxOpens     \* bound on i_open_cnts of a directory

ASSUME FileSystemAssumption ==
  /\ \A path \in Paths : path # << >>
  /\ FilePaths \cup DirPaths \cup OpenPaths \subseteq Paths
  /\ Counts \subseteq Nat /\ Offsets \subseteq Int

VARIABLES fs,     \* the state of the file system
          tree    \* what the calls see of it: see module Tree

vars == <<fs, tree>>

\* mount_partition, open_root_dir and the empty file table of filesys_init
filesys_init(disk) ==
  inode_open([dbb |-> disk.dbb, dib |-> disk.dib, itab |-> disk.itab, blk |-> disk.blk,
              bb |-> disk.dbb, ib |-> disk.dib,
              mem |-> << >>, list |-> << >>,
              file |-> [f \in Slots |-> FreeSlot], fd |-> [d \in Fds |-> -1],
              cwd |-> 0, panic |-> "no"], 0)

-----------------------------------------------------------------------------
\* What inode_open finds, and inode_close leaves behind.
View(s, no) == IF Place(s, no) # 0 THEN s.mem[inode_at(s, no)] ELSE s.itab[no]

IsDir(s, no) == LET lba == View(s, no).i_sectors[0] IN lba # 0 /\ s.blk[lba].kind = "dir"

\* The inode that a path leads to, -1 if none.
Lookup(s, path) ==
  FoldLeft(LAMBDA no, name :
             IF no = -1 \/ ~IsDir(s, no) THEN -1
             ELSE LET entry == search_dir_entry(s, View(s, no), name)
                  IN  IF entry.f_type = "FT_UNKNOWN" THEN -1 ELSE entry.i_no,
           0, path)

\* The tree that the calls see.
TreeOf(s) ==
  [path \in {p \in Paths : Lookup(s, p) # -1} |->
     LET no == Lookup(s, path)
     IN  IF IsDir(s, no) THEN [type |-> "FT_DIRECTORY", size |-> 0]
         ELSE [type |-> "FT_REGULAR", size |-> View(s, no).i_size]]

Init == fs = filesys_init(Formatted) /\ tree = TreeOf(fs)

\* The state after a system call; a panic ends everything.
Do(s) ==
  /\ fs.panic = "no"
  /\ fs' = IF s.panic = "no" THEN s ELSE [fs EXCEPT !.panic = s.panic]
  /\ tree' = TreeOf(fs')

-----------------------------------------------------------------------------
\* The result of search_file: the inode or -1, what it is, the directory that
\* it is left with, and the number of names in searched_path.
Start(s) == [s |-> s, dir |-> root_dir, up |-> 0, ret |-> -1, type |-> "FT_UNKNOWN",
             depth |-> 0, done |-> FALSE]

\* One name of the path.  A regular file ends the search, even if there are
\* names behind it.
Walk(r, name) ==
  LET entry == search_dir_entry(r.s, r.s.mem[r.dir.inode], name)
      left == dir_close(r.s, r.dir)
  IN  IF r.done THEN r
      ELSE CASE entry.f_type = "FT_UNKNOWN" ->
                  [r EXCEPT !.depth = @ + 1, !.ret = -1, !.done = TRUE]
             [] entry.f_type = "FT_REGULAR" ->
                  [r EXCEPT !.depth = @ + 1, !.ret = entry.i_no, !.type = "FT_REGULAR", !.done = TRUE]
             [] entry.f_type = "FT_DIRECTORY" ->
                  [r EXCEPT !.depth = @ + 1, !.ret = entry.i_no,
                            !.up = r.s.mem[r.dir.inode].i_no,
                            !.s = dir_open(left, entry.i_no), !.dir = dir_at(left, entry.i_no)]

\* At the end of the path a directory was found: its parent is opened again.
Parent(r) ==
  LET left == dir_close(r.s, r.dir)
  IN  IF r.done THEN r
      ELSE [r EXCEPT !.type = "FT_DIRECTORY", !.s = dir_open(left, r.up), !.dir = dir_at(left, r.up)]

\* The caller closes the directory, which is the parent of what was found.
search_file(s, path) ==
  IF path = << >> THEN [Start(s) EXCEPT !.ret = 0, !.type = "FT_DIRECTORY"]
  ELSE CHOOSE found \in {Parent(r) : r \in {FoldLeft(Walk, Start(s), path)}} : TRUE

-----------------------------------------------------------------------------
\* The system calls.

\* The parent of a file that exists already is not closed.
sys_open(path, flag, create) ==
  \E r \in {search_file(fs, path)} :
    LET refused == \/ r.type = "FT_DIRECTORY" \/ r.depth # Len(path)
                   \/ (r.ret # -1) = create
    IN  Do(IF refused THEN dir_close(r.s, r.dir)
           ELSE IF create THEN dir_close(file_create(r.s, r.dir.inode, Last(path), flag), r.dir)
           ELSE file_open(r.s, r.ret, flag))

sys_close(d) ==
  /\ fs.fd[d] # -1
  /\ Do([file_close(fs, fs.fd[d]) EXCEPT !.fd[d] = -1])

sys_write(d, count) ==
  /\ fs.fd[d] # -1 /\ Writes(fs.file[fs.fd[d]].flag)
  /\ Do(file_write(fs, fs.fd[d], count))

sys_read(d, count) ==
  /\ fs.fd[d] # -1
  /\ Do(file_read(fs, fs.fd[d], count))

\* The new position must be one of a byte of the file.
sys_lseek(d, offset, whence) ==
  LET f == fs.fd[d]
      size == fs.mem[fs.file[f].inode].i_size
      new_pos == CASE whence = "SEEK_SET" -> offset
                   [] whence = "SEEK_CUR" -> fs.file[f].pos + offset
                   [] whence = "SEEK_END" -> size + offset
  IN  /\ f # -1
      /\ new_pos \in 0 .. size - 1
      /\ Do([fs EXCEPT !.file[f].pos = new_pos])

InUse(s, no) == \E f \in Slots : s.file[f].inode # NULL /\ s.mem[s.file[f].inode].i_no = no

sys_unlink(path) ==
  \E r \in {search_file(fs, path)} :
    LET s1 == Check(r.s, r.ret # 0, "fs.c:567")
        s2 == inode_release(delete_dir_entry(s1, r.dir.inode, r.ret), r.ret)
    IN  Do(IF r.ret = -1 \/ r.type = "FT_DIRECTORY" \/ InUse(s1, r.ret)
           THEN dir_close(s1, r.dir) ELSE dir_close(s2, r.dir))

\* The first block of a new directory.
NewDir(s, p) ==
  LET no == inode_bitmap_no(s)
      s1 == inode_bitmap_alloc(s)
      lba == block_bitmap_lba(s1)
  IN  [s |-> [Check(NewBlock(s1), Bit(lba) # 0, "fs.c:678") EXCEPT
                !.blk[lba] = DirSector(DotEntries(no, s.mem[p].i_no))],
       inode |-> [inode_init(no) EXCEPT !.i_sectors[0] = lba, !.i_size = 2]]

\* Mutant: the inode of the parent is not written.
sys_mkdir_NoParent(path) ==
  \E r \in {search_file(fs, path)} :
    LET p == r.dir.inode
        new == NewDir(r.s, p)
        s1 == sync_dir_entry(new.s, p, create_dir_entry(Last(path), new.inode.i_no, "FT_DIRECTORY"))
        s2 == InodeBitmapSync(inode_sync(s1, new.inode))
    IN  Do(dir_close(IF r.ret # -1 \/ r.depth # Len(path) THEN r.s ELSE s2, r.dir))

sys_mkdir(path) ==
  \E r \in {search_file(fs, path)} :
    LET p == r.dir.inode
        new == NewDir(r.s, p)
        s1 == sync_dir_entry(new.s, p, create_dir_entry(Last(path), new.inode.i_no, "FT_DIRECTORY"))
        s2 == InodeBitmapSync(inode_sync(inode_sync(s1, s1.mem[p]), new.inode))
    IN  Do(dir_close(IF r.ret # -1 \/ r.depth # Len(path) THEN r.s ELSE s2, r.dir))

\* Mutant: the directory need not be empty.
sys_rmdir_NotEmpty(path) ==
  \E r \in {search_file(fs, path)} :
    LET d == dir_at(r.s, r.ret)
        s1 == dir_open(Check(r.s, r.ret # 0, "fs.c:809"), r.ret)
        s2 == dir_remove(s1, r.dir.inode, d.inode)
    IN  Do(dir_close(IF r.ret = -1 \/ r.type = "FT_REGULAR" THEN r.s ELSE dir_close(s2, d), r.dir))

sys_rmdir(path) ==
  \E r \in {search_file(fs, path)} :
    LET d == dir_at(r.s, r.ret)
        s1 == dir_open(Check(r.s, r.ret # 0, "fs.c:809"), r.ret)
        s2 == IF dir_is_empty(s1, d.inode) THEN dir_remove(s1, r.dir.inode, d.inode) ELSE s1
    IN  Do(dir_close(IF r.ret = -1 \/ r.type = "FT_REGULAR" THEN r.s ELSE dir_close(s2, d), r.dir))

sys_chdir(path) ==
  \E r \in {search_file(fs, path)} :
    LET s1 == IF r.ret # -1 /\ r.type = "FT_DIRECTORY" THEN [r.s EXCEPT !.cwd = r.ret] ELSE r.s
    IN  Do(dir_close(s1, r.dir))

\* get_parent_dir_inode_nr and get_child_dir_name, one level of sys_getcwd
Up(s, r) ==
  LET lba == View(s, r.no).i_sectors[0]
      dotdot == Entries(s.blk[lba])[1]
      parent == View(s, dotdot.i_no)
      found == {p \in Places : EntryAt(s, parent, p).i_no = r.no}
  IN  IF r.no = 0 \/ r.end # "ok" THEN r
      ELSE IF lba = 0 THEN [r EXCEPT !.end = "fs.c:848"]
      ELSE IF dotdot.f_type # "FT_DIRECTORY" THEN [r EXCEPT !.end = "fs.c:853"]
      ELSE IF found = {} THEN [r EXCEPT !.end = "NULL"]
      ELSE [r EXCEPT !.no = dotdot.i_no,
                     !.path = <<EntryAt(s, parent, Min(found)).filename>> \o @]

getcwd(s) ==
  FoldLeft(LAMBDA r, n : Up(s, r), [no |-> s.cwd, path |-> << >>, end |-> "ok"],
           [n \in 1 .. MAX_FILES_PER_PART |-> n])

sys_getcwd ==
  /\ getcwd(fs).end \in {"fs.c:848", "fs.c:853"}
  /\ Do(Stop(fs, getcwd(fs).end))

\* The machine is switched off and on again.  If a bit of the block bitmap
\* was not on the disk its block has two users soon, and no step follows.
Reboot == Do(Check(filesys_init(fs), fs.dbb = fs.bb, "lost"))

Next ==
  \/ \E path \in FilePaths : sys_open(path, "O_RDWR", TRUE)
  \/ \E path \in OpenPaths, flag \in {"O_RDONLY", "O_RDWR"} :
       /\ \A p \in DOMAIN fs.mem : fs.mem[p].i_open_cnts < MaxOpens
       /\ sys_open(path, flag, FALSE)
  \/ \E path \in DirPaths : sys_mkdir(path)
  \/ \E path \in Paths : sys_unlink(path) \/ sys_rmdir(path) \/ sys_chdir(path)
  \/ \E d \in Fds : \/ sys_close(d)
                    \/ \E count \in Counts : sys_write(d, count) \/ sys_read(d, count)
                    \/ \E offset \in Offsets, whence \in {"SEEK_SET", "SEEK_CUR", "SEEK_END"} :
                         sys_lseek(d, offset, whence)
  \/ sys_getcwd
  \/ Reboot

Spec == Init /\ [][Next]_vars

-----------------------------------------------------------------------------
TypeOK ==
  /\ fs.bb \cup fs.dbb \subseteq BlockBits /\ fs.ib \cup fs.dib \subseteq InodeNos
  /\ \A d \in Fds : fs.fd[d] \in Slots \cup {-1}
  /\ \A f \in Slots : fs.file[f].inode \in DOMAIN fs.mem \cup {NULL}
  /\ \A p \in DOMAIN fs.mem : fs.mem[p].i_no \in InodeNos /\ fs.mem[p].i_open_cnts > 0
  /\ {fs.list[i] : i \in 1 .. Len(fs.list)} = DOMAIN fs.mem
  /\ Len(fs.list) = Cardinality(DOMAIN fs.mem)

\* Of all the ASSERTs in inode.c, dir.c, file.c and fs.c, these are the only
\* ones that legal calls ever fail: a full bitmap, a file that reaches the
\* largest size or is read near it, and getcwd in a directory that is gone;
\* "lost" is the reset described at Reboot.
Limits == {"no", "lost", "bitmap.c:30", "file.c:279", "file.c:450", "fs.c:848", "fs.c:853"}
PanicOnlyAtLimits == fs.panic \in Limits

Uses(s, no) == {i \in 0 .. MaxBlocks :
                  (IF i < MaxBlocks THEN AllBlocks(s, View(s, no))[i] ELSE View(s, no).i_sectors[NDirect]) # 0}
UsedBlock(s, no, i) ==
  IF i < MaxBlocks THEN AllBlocks(s, View(s, no))[i] ELSE View(s, no).i_sectors[NDirect]

\* After every system call the block bitmap has exactly the blocks that files
\* and directories use, tables included, and no block is used twice.
BlocksOwned ==
  LET uses == {<<no, i>> \in fs.ib \X (0 .. MaxBlocks) : i \in Uses(fs, no)}
      lbas == {UsedBlock(fs, u[1], u[2]) : u \in uses}
  IN  /\ Cardinality(lbas) = Cardinality(uses)
      /\ {Bit(lba) : lba \in lbas} = fs.bb \ (FormatBits \ {0})

\* One thing only can be lost when the machine is switched off between two
\* calls, the bit of a table of indirect blocks: file_write does not write it,
\* and the bits of other blocks may be in another sector of the bitmap.  Apart
\* from that the bitmaps and the inodes in memory are those on the disk, and
\* no inode is in memory twice.
OnDisk ==
  /\ fs.dbb \subseteq fs.bb /\ fs.dib = fs.ib
  /\ fs.bb \ fs.dbb \subseteq {Bit(View(fs, no).i_sectors[NDirect]) : no \in fs.ib}
  /\ \A p \in DOMAIN fs.mem :
       LET inode == fs.mem[p]
       IN  fs.itab[inode.i_no] = [i_no |-> inode.i_no, i_size |-> inode.i_size,
                                  i_sectors |-> inode.i_sectors]
  /\ \A p, q \in DOMAIN fs.mem : fs.mem[p].i_no = fs.mem[q].i_no => p = q

Links(s) == {<<no, p>> \in {n \in s.ib : IsDir(s, n)} \X Places :
               p \in Used(s, View(s, no)) /\ EntryAt(s, View(s, no), p).filename \notin Dots}
Link(s, l) == EntryAt(s, View(s, l[1]), l[2])

\* Every inode in use but the root's has exactly one name, the entry has its
\* kind, ".." of a directory leads back to the directory with that entry, and
\* i_size of a directory counts its entries, on which dir_read and
\* dir_is_empty rely.  So successive calls of readdir list every entry once,
\* and the path that getcwd returns leads to the working directory.
Linked ==
  /\ {Link(fs, l).i_no : l \in Links(fs)} = fs.ib \ {0}
  /\ Cardinality(Links(fs)) = Cardinality(fs.ib) - 1
  /\ \A l \in Links(fs) :
       LET no == Link(fs, l).i_no
       IN  /\ IsDir(fs, no) <=> Link(fs, l).f_type = "FT_DIRECTORY"
           /\ IsDir(fs, no) => search_dir_entry(fs, View(fs, no), "..").i_no = l[1]
  /\ \A no \in fs.ib : IsDir(fs, no) =>
       LET inode == View(fs, no)
           listed == {dir_read(fs, inode, n) : n \in 0 .. inode.i_size - 1}
       IN  /\ inode.i_size = Cardinality(Used(fs, inode))
           /\ inode.i_size = Cardinality(listed)
           /\ listed = {EntryAt(fs, inode, p) : p \in Used(fs, inode)}
  /\ getcwd(fs).end = "ok" => Lookup(fs, getcwd(fs).path) = fs.cwd

\* A descriptor has a slot of its own, a slot in use an inode, and the inode
\* is closed when the last slot is: i_open_cnts counts the slots, and the
\* root directory, which is always open.
OpenCounts ==
  /\ TypeOK
  /\ \A d, e \in Fds : fs.fd[d] # -1 =>
       /\ fs.file[fs.fd[d]].inode # NULL
       /\ fs.fd[d] = fs.fd[e] => d = e
  /\ \A p \in DOMAIN fs.mem :
       fs.mem[p].i_open_cnts =
         Cardinality({f \in Slots : fs.file[f].inode = p}) + (IF p = root_dir.inode THEN 1 ELSE 0)
  /\ \A p \in DOMAIN fs.mem : fs.mem[p].i_no \in fs.ib

\* A read returns the bytes that were written at these offsets, all of them
\* if the file has so many.
ReadsWritten ==
  \A d \in Fds, count \in Counts :
    LET f == fs.fd[d]
        inode == fs.mem[fs.file[f].inode]
        left == inode.i_size - fs.file[f].pos
    IN  fs.panic = "no" /\ f # -1 /\ ReadPanic(fs, f, count) = "no" =>
          ReadBytes(fs, f, count) =
            [n \in 1 .. (IF count < left THEN count ELSE left) |-> <<inode.i_no, fs.file[f].pos + n - 1>>]

-----------------------------------------------------------------------------
T == INSTANCE Tree

\* Each call changes one name or one file, and Reboot nothing at all: what
\* one call has written the next ones find, after a reboot too.
ImplementsTree == T!Spec /\ [][Reboot => UNCHANGED tree]_vars
=============================================================================

-------------------------------- MODULE Inode --------------------------------
(***************************************************************************)
(* The partition and its inodes: fs/inode.c, the bitmap functions of       *)
(* fs/file.c, and partition_format and mount_partition of fs/fs.c.         *)
(*                                                                         *)
(* Every function of the file system maps a state s to the state in which  *)
(* it returns.  On the disk are the two bitmaps dbb and dib, the inode     *)
(* table itab and the blocks blk; in memory the bitmaps bb and ib, the     *)
(* inodes mem that are open, by address, and the list open_inodes of them. *)
(* A failing ASSERT records its place in panic.                            *)
(***************************************************************************)
EXTENDS Naturals, Sequences
LOCAL INSTANCE FiniteSetsExt
LOCAL INSTANCE SequencesExt

CONSTANTS MAX_FILES_PER_PART,   \* inodes of the partition, 4096 in the code
          BlockBitLen,          \* block_bitmap_bit_len: the data blocks
          BITS_PER_SECTOR,      \* bits of a bitmap in one sector, 4096
          ByteBits,             \* bits of a byte, 8
          NDirect,              \* direct blocks of an inode, 12
          NIndirect,            \* addresses in an indirect block table, 128
          BLOCK_SIZE,           \* bytes of a block, 512
          EntriesPerSec,        \* directory entries of a block, 21
          Uint8                 \* 256, the values of a uint8_t

ASSUME InodeAssumption ==
  /\ {MAX_FILES_PER_PART, BlockBitLen, BITS_PER_SECTOR, ByteBits, NDirect, NIndirect,
      BLOCK_SIZE, Uint8} \subseteq Nat \ {0}
  /\ EntriesPerSec \in Nat /\ EntriesPerSec >= 2
  /\ BITS_PER_SECTOR % ByteBits = 0 /\ BlockBitLen >= ByteBits

MaxBlocks == NDirect + NIndirect
InodeNos == 0 .. MAX_FILES_PER_PART - 1
BlockBitmapSects == (BlockBitLen + BITS_PER_SECTOR - 1) \div BITS_PER_SECTOR
BlockBits == 0 .. BlockBitmapSects * BITS_PER_SECTOR - 1

\* Block addresses.  0 stands for no block.
data_start_lba == 1
Lba(bit) == data_start_lba + bit
Bit(lba) == lba - data_start_lba

\* A sector holds directory entries, block addresses or bytes of a file, as
\* it was last written; read as anything else it has nothing to offer.
NoEntry == [filename |-> "", i_no |-> 0, f_type |-> "FT_UNKNOWN"]
ZeroByte == << >>
DirSector(ents) == [kind |-> "dir", cell |-> ents]
TableSector(lbas) == [kind |-> "table", cell |-> lbas]
DataSector(bytes) == [kind |-> "data", cell |-> bytes]
Junk == [kind |-> "junk"]
NoEntries == [j \in 0 .. EntriesPerSec - 1 |-> NoEntry]
NoBlocks == [j \in 0 .. NIndirect - 1 |-> 0]
NoBytes == [j \in 0 .. BLOCK_SIZE - 1 |-> ZeroByte]
Entries(sector) == IF sector.kind = "dir" THEN sector.cell ELSE NoEntries
Addresses(sector) == IF sector.kind = "table" THEN sector.cell ELSE NoBlocks
Bytes(sector) == IF sector.kind = "data" THEN sector.cell ELSE NoBytes

Stop(s, place) == IF s.panic = "no" THEN [s EXCEPT !.panic = place] ELSE s
Check(s, cond, place) == IF cond THEN s ELSE Stop(s, place)

-----------------------------------------------------------------------------
\* The bitmaps.

\* bitmap_scan for one bit is first fit, and stops the kernel when none is left.
FirstZero(used, bits) == IF bits \subseteq used THEN 0 ELSE Min(bits \ used)

inode_bitmap_no(s) == FirstZero(s.ib, InodeNos)
inode_bitmap_alloc(s) ==
  Check([s EXCEPT !.ib = @ \cup {inode_bitmap_no(s)}], ~InodeNos \subseteq s.ib, "bitmap.c:30")

block_bitmap_lba(s) == Lba(FirstZero(s.bb, BlockBits))
block_bitmap_alloc(s) ==
  Check([s EXCEPT !.bb = @ \cup {Bit(block_bitmap_lba(s))}], ~BlockBits \subseteq s.bb, "bitmap.c:30")

\* bitmap_sync writes the whole sector of the bitmap that holds the bit.  The
\* bitmap of the inodes has one sector.
SameSector(bit) == {b \in BlockBits : b \div BITS_PER_SECTOR = bit \div BITS_PER_SECTOR}
BlockBitmapSync(s, bit) ==
  [s EXCEPT !.dbb = (@ \ SameSector(bit)) \cup (s.bb \cap SameSector(bit))]
InodeBitmapSync(s) == [s EXCEPT !.dib = s.ib]

\* Allocate a block and write its bit to the disk.
NewBlock(s) == BlockBitmapSync(block_bitmap_alloc(s), Bit(block_bitmap_lba(s)))

\* Mutant: the bit is cleared in memory only.
FreeBlock_NotSynced(s, lba) == [s EXCEPT !.bb = @ \ {Bit(lba)}, !.blk[lba] = Junk]

\* What is left in a free block is of no interest.
FreeBlock(s, lba) ==
  BlockBitmapSync([s EXCEPT !.bb = @ \ {Bit(lba)}, !.blk[lba] = Junk], Bit(lba))

-----------------------------------------------------------------------------
\* Inodes.

NoSectors == [i \in 0 .. NDirect |-> 0]
ZeroInode == [i_no |-> 0, i_size |-> 0, i_sectors |-> NoSectors]

inode_init(no) == [i_no |-> no, i_size |-> 0, i_sectors |-> NoSectors,
                   i_open_cnts |-> 0, write_deny |-> FALSE]

\* The addresses of all blocks of an inode, with its table if it has one.
AllBlocks(s, inode) ==
  [i \in 0 .. MaxBlocks - 1 |->
     IF i < NDirect THEN inode.i_sectors[i]
     ELSE IF inode.i_sectors[NDirect] # 0
          THEN Addresses(s.blk[inode.i_sectors[NDirect]])[i - NDirect] ELSE 0]

\* The number of the inode is kept in a uint8_t.
inode_sync(s, inode) ==
  [s EXCEPT !.itab[inode.i_no % Uint8] =
     [i_no |-> inode.i_no, i_size |-> inode.i_size, i_sectors |-> inode.i_sectors]]

\* The place in open_inodes of an inode, 0 if it is not open.
Place(s, no) == SelectInSeq(s.list, LAMBDA p : s.mem[p].i_no = no)

\* The address that inode_open returns: sys_malloc has a free one.
FreeAddress(s) == Min((0 .. MAX_FILES_PER_PART + Len(s.list)) \ DOMAIN s.mem)
inode_at(s, no) == IF Place(s, no) # 0 THEN s.list[Place(s, no)] ELSE FreeAddress(s)

\* list_push of an inode that was put at address p
Push(s, p, inode) ==
  [s EXCEPT !.mem = [q \in DOMAIN @ \cup {p} |-> IF q = p THEN inode ELSE @[q]],
            !.list = <<p>> \o @]

inode_open(s, no) ==
  IF Place(s, no) # 0 THEN [s EXCEPT !.mem[inode_at(s, no)].i_open_cnts = @ + 1]
  ELSE Push(s, FreeAddress(s), [i_no |-> s.itab[no].i_no, i_size |-> s.itab[no].i_size,
            i_sectors |-> s.itab[no].i_sectors, i_open_cnts |-> 1, write_deny |-> FALSE])

inode_close(s, p) ==
  IF s.mem[p].i_open_cnts > 1 THEN [s EXCEPT !.mem[p].i_open_cnts = @ - 1]
  ELSE [s EXCEPT !.mem = [q \in DOMAIN @ \ {p} |-> @[q]],
                 !.list = SelectSeq(@, LAMBDA q : q # p)]

inode_delete(s, no) == [s EXCEPT !.itab[no] = ZeroInode]

\* Free one block, which is never the root directory's.
Release(s, lba) == IF lba = 0 THEN s ELSE FreeBlock(Check(s, Bit(lba) > 0, "inode.c:202"), lba)

\* Mutant: only the direct blocks are given back.
inode_release_Direct(s, no) ==
  LET s1 == inode_open(s, no)
      p == inode_at(s, no)
      blocks == [i \in 1 .. NDirect |-> AllBlocks(s1, s1.mem[p])[i - 1]]
      s2 == FoldLeft(Release, s1, blocks)
      s3 == InodeBitmapSync([s2 EXCEPT !.ib = @ \ {no}])
  IN  inode_close(inode_delete(s3, no), p)

\* Give back the table, the blocks and the inode itself.
inode_release(s, no) ==
  LET s1 == inode_open(s, no)
      p == inode_at(s, no)
      table == s1.mem[p].i_sectors[NDirect]
      blocks == [i \in 1 .. MaxBlocks |-> AllBlocks(s1, s1.mem[p])[i - 1]]
      s2 == FoldLeft(Release, Check(s1, s1.mem[p].i_no = no, "inode.c:170"), <<table>> \o blocks)
      s3 == InodeBitmapSync([s2 EXCEPT !.ib = @ \ {no}])
  IN  inode_close(inode_delete(s3, no), p)

-----------------------------------------------------------------------------
\* The blocks that format marks as used: the first one for the root
\* directory, and all bits from the byte of the last one to the end of its
\* sector, less those of the bits 0 .. block_bitmap_bit_len % 8 of that byte,
\* one more than there are blocks.
FormatBits ==
  LET last_byte == BlockBitLen \div ByteBits
      last_bit == BlockBitLen % ByteBits
      behind == {b \in BlockBits : b >= last_byte * ByteBits}
  IN  ({0} \cup behind) \ {last_byte * ByteBits + i : i \in 0 .. last_bit}

DotEntries(no, parent) ==
  [NoEntries EXCEPT ![0] = [filename |-> ".", i_no |-> no, f_type |-> "FT_DIRECTORY"],
                    ![1] = [filename |-> "..", i_no |-> parent, f_type |-> "FT_DIRECTORY"]]

\* Sizes of directories are counted in entries.
RootInode == [i_no |-> 0, i_size |-> 2, i_sectors |-> [NoSectors EXCEPT ![0] = Lba(0)]]

\* partition_format
Formatted ==
  [dbb |-> FormatBits, dib |-> {0},
   itab |-> [no \in InodeNos |-> IF no = 0 THEN RootInode ELSE ZeroInode],
   blk |-> [lba \in {Lba(b) : b \in BlockBits \ FormatBits} \cup {Lba(0)} |->
              IF lba = Lba(0) THEN DirSector(DotEntries(0, 0)) ELSE Junk]]
=============================================================================

-------------------------------- MODULE Bitmap -------------------------------
(***************************************************************************)
(* lib/kernel/bitmap.c, and vaddr_get and vaddr_remove of kernel/memory.c, *)
(* which allocate runs of pages with it, for callers that hold the lock of *)
(* the pool: one scan at a time, whose loops are the steps of this module. *)
(*                                                                         *)
(* bits holds the indices of the bits that are 1.  The bitmap has the      *)
(* indices 0 .. Size - 1; index Size is the first bit of whatever follows  *)
(* it in memory, and may start as 0 or 1.                                  *)
(***************************************************************************)
EXTENDS Integers, FiniteSets

CONSTANTS btmp_bytes_len,   \* bytes of the bitmap
          ByteBits,         \* bits of a byte, 8 in the code
          MaxCnt            \* the largest run that is asked for

ASSUME BitmapAssumption ==
  /\ btmp_bytes_len \in Nat \ {0}
  /\ ByteBits \in Nat \ {0}
  /\ MaxCnt \in Nat \ {0}

Size == btmp_bytes_len * ByteBits

VARIABLES bits,    \* the bits that are set
          owned,   \* the runs that were handed out: <<first, count>>
          pc,      \* "idle", or the loop the scan is in
          scan     \* the locals of bitmap_scan

vars == <<bits, owned, pc, scan>>

Run(r) == r[1] .. r[1] + r[2] - 1

NoScan == [cnt |-> 0, idx_byte |-> 0, idx_bit |-> 0,
           bit_left |-> 0, next_bit |-> 0, count |-> 0]

\* bitmap_init
Init ==
  /\ bits \in SUBSET {Size}
  /\ owned = {}
  /\ pc = "idle"
  /\ scan = NoScan

-----------------------------------------------------------------------------

\* vaddr_get(pf, cnt), up to the loop over the bytes.
vaddr_get(cnt) ==
  /\ pc = "idle"
  /\ pc' = "bytes"
  /\ scan' = [NoScan EXCEPT !.cnt = cnt]
  /\ UNCHANGED <<bits, owned>>

ByteFull(i) == i * ByteBits .. i * ByteBits + ByteBits - 1 \subseteq bits

\* Mutant: the index is not advanced.
NextByte_Stuck ==
  /\ pc = "bytes"
  /\ scan.idx_byte < btmp_bytes_len /\ ByteFull(scan.idx_byte)
  /\ UNCHANGED vars

\* while the byte is 0xff and inside the bitmap
NextByte ==
  /\ pc = "bytes"
  /\ scan.idx_byte < btmp_bytes_len /\ ByteFull(scan.idx_byte)
  /\ scan' = [scan EXCEPT !.idx_byte = @ + 1]
  /\ UNCHANGED <<bits, owned, pc>>

\* ASSERT(idx_byte < btmp_bytes_len), which leaves no way to "return -1".
BytesDone ==
  /\ pc = "bytes"
  /\ ~(scan.idx_byte < btmp_bytes_len /\ ByteFull(scan.idx_byte))
  /\ pc' = IF scan.idx_byte < btmp_bytes_len THEN "bits" ELSE "panic"
  /\ UNCHANGED <<bits, owned, scan>>

\* while the bit is 1
NextBit ==
  /\ pc = "bits"
  /\ scan.idx_byte * ByteBits + scan.idx_bit \in bits
  /\ scan' = [scan EXCEPT !.idx_bit = @ + 1]
  /\ UNCHANGED <<bits, owned, pc>>

\* bitmap_scan returns and vaddr_get sets the bits one by one.
Return(first) ==
  /\ bits' = bits \cup Run(<<first, scan.cnt>>)
  /\ owned' = owned \cup {<<first, scan.cnt>>}
  /\ pc' = "idle"
  /\ scan' = NoScan

\* The first bit that is 0: all there is to do for one bit.
FirstBit ==
  LET bit_idx_start == scan.idx_byte * ByteBits + scan.idx_bit IN
  /\ pc = "bits"
  /\ bit_idx_start \notin bits
  /\ \/ /\ scan.cnt = 1
        /\ Return(bit_idx_start)
     \/ /\ scan.cnt # 1
        /\ pc' = "run"
        /\ scan' = [scan EXCEPT !.bit_left = Size - bit_idx_start,
                                !.next_bit = bit_idx_start + 1,
                                !.count = 1]
        /\ UNCHANGED <<bits, owned>>

\* Mutant: a set bit does not break the run.
Count_NoReset == IF scan.next_bit \notin bits THEN scan.count + 1 ELSE scan.count

\* How many bits up to next_bit are 0.
Count == IF scan.next_bit \notin bits THEN scan.count + 1 ELSE 0

\* Mutant: the scan stops before the last bit of the bitmap.
More_Early == scan.bit_left > 2

\* while (bit_left-- > 0): from the bit after the first, so that the last bit
\* tested is the one after the bitmap.
More == scan.bit_left > 0

RunStep ==
  /\ pc = "run" /\ More
  /\ \/ /\ Count = scan.cnt
        /\ Return(scan.next_bit - scan.cnt + 1)
     \/ /\ Count # scan.cnt
        /\ scan' = [scan EXCEPT !.bit_left = @ - 1, !.next_bit = @ + 1, !.count = Count]
        /\ UNCHANGED <<bits, owned, pc>>

\* -1 is returned, and vaddr_get returns NULL.
RunFail ==
  /\ pc = "run" /\ ~More
  /\ pc' = "idle"
  /\ scan' = NoScan
  /\ UNCHANGED <<bits, owned>>

\* vaddr_remove(pf, vaddr, cnt), of what vaddr_get returned.
vaddr_remove(r) ==
  /\ pc = "idle"
  /\ bits' = bits \ Run(r)
  /\ owned' = owned \ {r}
  /\ UNCHANGED <<pc, scan>>

Scanning == NextByte \/ BytesDone \/ NextBit \/ FirstBit \/ RunStep \/ RunFail

Next ==
  \/ \E cnt \in 1 .. MaxCnt : vaddr_get(cnt)
  \/ Scanning
  \/ \E r \in owned : vaddr_remove(r)

Spec == Init /\ [][Next]_vars
FairSpec == Spec /\ WF_vars(Scanning)

-----------------------------------------------------------------------------
\* Properties.

ScanState ==
  [cnt : 0 .. MaxCnt, idx_byte : 0 .. btmp_bytes_len, idx_bit : 0 .. ByteBits - 1,
   bit_left : 0 .. Size, next_bit : 0 .. Size + 1, count : 0 .. MaxCnt]

TypeOK ==
  /\ bits \subseteq 0 .. Size
  /\ owned \subseteq (0 .. Size) \X (1 .. MaxCnt)
  /\ pc \in {"idle", "bytes", "bits", "run", "panic"}
  /\ scan \in ScanState
  /\ pc \in {"bytes", "bits", "run"} => scan.cnt # 0

\* No page is handed out twice and none is lost by any sequence of allocations
\* and releases: runs in use have no bit in common, their bits are set, and a
\* bit that is set belongs to one of them, or lies behind the bitmap.
RunsOwned ==
  /\ TypeOK
  /\ \A r, s \in owned : r # s => Run(r) \cap Run(s) = {}
  /\ \A r \in owned : Run(r) \subseteq bits
  /\ \A b \in bits : b = Size \/ \E r \in owned : b \in Run(r)

Free(first, cnt) == first .. first + cnt - 1 \cap bits = {}

\* The scan finds the first run that is long enough, and gives up only when
\* there is none in the bitmap.
FirstFit ==
  [][/\ \A r \in owned' \ owned : \A i \in 0 .. r[1] - 1 : ~Free(i, r[2])
     /\ RunFail => \A i \in 0 .. Size - scan.cnt : ~Free(i, scan.cnt)]_vars

\* The scan ends.
ScanEnds == pc = "bytes" ~> pc \in {"idle", "panic"}
=============================================================================

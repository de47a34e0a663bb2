---------------------------- MODULE BitmapProofs -----------------------------
(***************************************************************************)
(* bitmap_scan is first fit and never hands out a bit twice, for bitmaps,  *)
(* bytes and runs of any length.                                           *)
(***************************************************************************)
EXTENDS Bitmap, TLAPS

\* The first bit of the byte that the scan has reached.
ByteStart == scan.idx_byte * ByteBits

\* Where the run of free bits that the scan is counting begins.
RunStart == scan.next_bit - scan.count

\* What the locals of bitmap_scan say about the bits it has passed: every bit
\* before the place it has reached is set or belongs to a run that is too
\* short, and the bits it has counted are free.
ScanOK ==
  /\ pc = "bytes" => scan.idx_bit = 0 /\ 0 .. ByteStart - 1 \subseteq bits
  /\ pc = "bits" => /\ scan.idx_byte < btmp_bytes_len
                    /\ ~ByteFull(scan.idx_byte)
                    /\ 0 .. ByteStart + scan.idx_bit - 1 \subseteq bits
  /\ pc = "run" => /\ scan.next_bit + scan.bit_left = Size + 1
                   /\ scan.count < scan.cnt /\ RunStart >= 0
                   /\ RunStart .. scan.next_bit - 1 \cap bits = {}
                   /\ \A i \in 0 .. RunStart - 1 : ~Free(i, scan.cnt)

\* The inductive invariant.
IInv == RunsOwned /\ ScanOK

-----------------------------------------------------------------------------
\* Arithmetic of bytes and bits.

\* Consecutive bytes do not overlap, and the last ends with the bitmap.
LEMMA ByteInside ==
  ASSUME NEW a \in Nat, NEW b \in Nat, NEW c \in Nat, a < b
  PROVE  /\ a * c \in Nat /\ b * c \in Nat
         /\ (a + 1) * c = a * c + c
         /\ a * c + c <= b * c
<1>1. PICK d \in Nat : b = a + 1 + d
  <2>1. b - a - 1 \in Nat /\ b = a + 1 + (b - a - 1)
    OBVIOUS
  <2>. QED BY <2>1
<1>2. (a + 1 + d) * c = a * c + c + d * c
  OBVIOUS
<1>3. d * c \in Nat /\ a * c \in Nat /\ b * c \in Nat
  OBVIOUS
<1>. QED BY <1>1, <1>2, <1>3

\* The sizes are natural numbers.
LEMMA SizeNat == Size \in Nat /\ btmp_bytes_len \in Nat /\ ByteBits \in Nat /\ ByteBits > 0 /\ MaxCnt \in Nat
BY BitmapAssumption DEF Size

-----------------------------------------------------------------------------
\* Runs.

\* The bits of a run.
LEMMA RunMember ==
  ASSUME NEW first, NEW cnt
  PROVE  Run(<<first, cnt>>) = first .. first + cnt - 1
BY DEF Run

\* Taking a run of free bits.
LEMMA RunTaken ==
  ASSUME RunsOwned, NEW first \in 0 .. Size, NEW cnt \in 1 .. MaxCnt,
         first + cnt - 1 <= Size, first .. first + cnt - 1 \cap bits = {},
         bits' = bits \cup Run(<<first, cnt>>), owned' = owned \cup {<<first, cnt>>}
  PROVE  /\ bits' \subseteq 0 .. Size
         /\ owned' \subseteq (0 .. Size) \X (1 .. MaxCnt)
         /\ \A r, s \in owned' : r # s => Run(r) \cap Run(s) = {}
         /\ \A r \in owned' : Run(r) \subseteq bits'
         /\ \A b \in bits' : b = Size \/ \E r \in owned' : b \in Run(r)
<1>. DEFINE new == <<first, cnt>>
<1>1. Run(new) = first .. first + cnt - 1
  BY RunMember
<1>2. Run(new) \subseteq 0 .. Size /\ Run(new) \cap bits = {}
  BY <1>1, SizeNat
<1>3. new \in (0 .. Size) \X (1 .. MaxCnt)
  OBVIOUS
<1>. HIDE DEF new
<1>4. bits' = bits \cup Run(new) /\ owned' = owned \cup {new}
  BY DEF new
<1>5. \A r \in owned : Run(r) \cap Run(new) = {}
  BY <1>2 DEF RunsOwned
<1>6. \A r, s \in owned' : r # s => Run(r) \cap Run(s) = {}
  BY <1>4, <1>5 DEF RunsOwned
<1>7. \A r \in owned' : Run(r) \subseteq bits'
  BY <1>4 DEF RunsOwned
<1>8. \A b \in bits' : b = Size \/ \E r \in owned' : b \in Run(r)
  BY <1>4 DEF RunsOwned
<1>. QED BY <1>2, <1>3, <1>4, <1>6, <1>7, <1>8 DEF RunsOwned, TypeOK

\* A step that leaves bits and runs alone.
LEMMA RunsKept ==
  ASSUME RunsOwned, bits' = bits, owned' = owned,
         pc' \in {"idle", "bytes", "bits", "run", "panic"}, scan' \in ScanState,
         pc' \in {"bytes", "bits", "run"} => scan'.cnt # 0
  PROVE  RunsOwned'
<1>1. TypeOK'
  BY DEF RunsOwned, TypeOK
<1>2. (\A r, s \in owned : r # s => Run(r) \cap Run(s) = {})'
  BY DEF RunsOwned, Run
<1>3. (\A r \in owned : Run(r) \subseteq bits)'
  BY DEF RunsOwned, Run
<1>4. (\A b \in bits : b = Size \/ \E r \in owned : b \in Run(r))'
  BY DEF RunsOwned, Run, Size
<1>. QED BY <1>1, <1>2, <1>3, <1>4 DEF RunsOwned

\* The scan of an idle bitmap.
LEMMA NoScanTyped ==
  NoScan \in ScanState /\ \A c \in 0 .. MaxCnt : [NoScan EXCEPT !.cnt = c] \in ScanState
BY SizeNat DEF NoScan, ScanState

\* The types of the locals, and where the scan can be.
LEMMA ScanTyped ==
  ASSUME IInv
  PROVE  /\ scan \in ScanState
         /\ scan.cnt \in Nat /\ scan.cnt <= MaxCnt
         /\ scan.idx_byte \in Nat /\ scan.idx_byte <= btmp_bytes_len
         /\ scan.idx_bit \in Nat /\ scan.idx_bit <= ByteBits - 1
         /\ scan.bit_left \in Nat /\ scan.bit_left <= Size
         /\ scan.next_bit \in Nat /\ scan.next_bit <= Size + 1
         /\ scan.count \in Nat /\ scan.count <= MaxCnt
         /\ ByteStart \in Nat
         /\ scan.idx_byte < btmp_bytes_len => ByteStart + ByteBits <= Size
<1>1. scan \in ScanState
  BY DEF IInv, RunsOwned, TypeOK
<1>2. /\ scan.cnt \in 0 .. MaxCnt /\ scan.idx_byte \in 0 .. btmp_bytes_len
      /\ scan.idx_bit \in 0 .. ByteBits - 1 /\ scan.bit_left \in 0 .. Size
      /\ scan.next_bit \in 0 .. Size + 1 /\ scan.count \in 0 .. MaxCnt
  BY <1>1 DEF ScanState
<1>3. ByteStart \in Nat
  BY <1>2, SizeNat DEF ByteStart
<1>4. scan.idx_byte < btmp_bytes_len => ByteStart + ByteBits <= Size
  BY <1>2, SizeNat, ByteInside DEF ByteStart, Size
<1>. QED BY <1>1, <1>2, <1>3, <1>4, SizeNat

\* The bitmap starts with no run handed out.
LEMMA InitIInv == Init => IInv
<1>. SUFFICES ASSUME Init PROVE IInv
  OBVIOUS
<1>1. TypeOK
  BY SizeNat, NoScanTyped DEF Init, TypeOK
<1>. QED BY <1>1 DEF Init, IInv, RunsOwned, ScanOK

\* The actions preserve the inductive invariant: a scan starts with nothing passed;
LEMMA GetIInv ==
  ASSUME IInv, NEW cnt \in 1 .. MaxCnt, vaddr_get(cnt)
  PROVE  IInv'
<1>1. /\ scan' \in ScanState /\ scan'.cnt = cnt /\ pc' = "bytes"
      /\ scan'.idx_byte = 0 /\ scan'.idx_bit = 0
  BY NoScanTyped, SizeNat DEF vaddr_get, NoScan
<1>2. RunsOwned'
  BY <1>1, RunsKept, SizeNat DEF vaddr_get, IInv
<1>3. ScanOK'
  BY <1>1, SizeNat DEF ScanOK, ByteStart
<1>. QED BY <1>2, <1>3 DEF IInv

\* a full byte is passed;
LEMMA NextByteIInv ==
  ASSUME IInv, NextByte
  PROVE  IInv'
<1>. USE SizeNat
<1>1. /\ pc = "bytes" /\ pc' = "bytes" /\ bits' = bits /\ owned' = owned
      /\ scan.idx_byte < btmp_bytes_len /\ ByteFull(scan.idx_byte)
      /\ scan' = [scan EXCEPT !.idx_byte = @ + 1]
  BY DEF NextByte
<1>2. /\ scan' \in ScanState /\ scan'.idx_byte = scan.idx_byte + 1
      /\ scan'.cnt = scan.cnt /\ scan'.idx_bit = scan.idx_bit
  BY <1>1, ScanTyped DEF ScanState
<1>3. scan.cnt # 0
  BY <1>1 DEF IInv, RunsOwned, TypeOK
<1>4. RunsOwned'
  BY <1>1, <1>2, <1>3, RunsKept DEF IInv
<1>5. (scan.idx_byte + 1) * ByteBits = ByteStart + ByteBits
  BY <1>1, ScanTyped, ByteInside DEF ByteStart
<1>6. 0 .. ByteStart + ByteBits - 1 \subseteq bits
  <2>1. 0 .. ByteStart - 1 \subseteq bits /\ ByteStart .. ByteStart + ByteBits - 1 \subseteq bits
    BY <1>1 DEF IInv, ScanOK, ByteFull, ByteStart
  <2>. QED BY <2>1, ScanTyped
<1>7. ScanOK'
  <2>1. ByteStart' = ByteStart + ByteBits
    BY <1>2, <1>5 DEF ByteStart
  <2>2. 0 .. ByteStart' - 1 \subseteq bits'
    BY <1>1, <1>6, <2>1, ScanTyped
  <2>3. scan'.idx_bit = 0
    BY <1>1, <1>2 DEF IInv, ScanOK
  <2>. QED BY <1>1, <2>2, <2>3 DEF ScanOK
<1>. QED BY <1>4, <1>7 DEF IInv

\* a byte with a free bit is entered;
LEMMA BytesDoneIInv ==
  ASSUME IInv, BytesDone
  PROVE  IInv'
<1>. USE SizeNat
<1>1. /\ pc = "bytes" /\ UNCHANGED <<bits, owned, scan>>
      /\ ~(scan.idx_byte < btmp_bytes_len /\ ByteFull(scan.idx_byte))
      /\ pc' = IF scan.idx_byte < btmp_bytes_len THEN "bits" ELSE "panic"
  BY DEF BytesDone
<1>2. scan.cnt # 0
  BY <1>1 DEF IInv, RunsOwned, TypeOK
<1>3. RunsOwned'
  BY <1>1, <1>2, ScanTyped, RunsKept DEF IInv
<1>4. ScanOK'
  <2>1. /\ ByteStart' = ByteStart /\ scan'.idx_bit = 0 /\ 0 .. ByteStart - 1 \subseteq bits
        /\ pc' \in {"bits", "panic"}
    BY <1>1 DEF IInv, ScanOK, ByteStart
  <2>. QED BY <1>1, <2>1, ScanTyped DEF ScanOK, ByteFull
<1>. QED BY <1>3, <1>4 DEF IInv

\* a set bit is passed, and the free one lies further on in the byte;
LEMMA NextBitIInv ==
  ASSUME IInv, NextBit
  PROVE  IInv'
<1>. USE SizeNat
<1>1. /\ pc = "bits" /\ pc' = "bits" /\ bits' = bits /\ owned' = owned
      /\ ByteStart + scan.idx_bit \in bits
      /\ scan' = [scan EXCEPT !.idx_bit = @ + 1]
  BY DEF NextBit, ByteStart
<1>2. /\ scan.idx_byte < btmp_bytes_len /\ ~ByteFull(scan.idx_byte)
      /\ 0 .. ByteStart + scan.idx_bit - 1 \subseteq bits /\ scan.cnt # 0
  BY <1>1 DEF IInv, ScanOK, RunsOwned, TypeOK
<1>3. 0 .. ByteStart + (scan.idx_bit + 1) - 1 \subseteq bits
  BY <1>1, <1>2, ScanTyped
<1>4. scan.idx_bit + 1 <= ByteBits - 1
  <2>. SUFFICES ASSUME ~(scan.idx_bit + 1 <= ByteBits - 1)
                PROVE  FALSE
    OBVIOUS
  <2>1. ByteStart .. ByteStart + ByteBits - 1 \subseteq 0 .. ByteStart + (scan.idx_bit + 1) - 1
    BY ScanTyped
  <2>. QED BY <1>2, <1>3, <2>1 DEF ByteFull, ByteStart
<1>5. /\ scan' \in ScanState /\ scan'.idx_byte = scan.idx_byte /\ scan'.cnt = scan.cnt
      /\ scan'.idx_bit = scan.idx_bit + 1
  BY <1>1, <1>4, ScanTyped DEF ScanState
<1>6. RunsOwned'
  BY <1>1, <1>2, <1>5, RunsKept DEF IInv
<1>7. ScanOK'
  <2>1. ByteStart' = ByteStart /\ ~ByteFull(scan.idx_byte)'
    BY <1>1, <1>2, <1>5 DEF ByteStart, ByteFull
  <2>2. 0 .. ByteStart' + scan'.idx_bit - 1 \subseteq bits'
    BY <1>1, <1>3, <1>5, <2>1, ScanTyped
  <2>. QED BY <1>1, <1>2, <1>5, <2>1, <2>2 DEF ScanOK
<1>. QED BY <1>6, <1>7 DEF IInv

\* bitmap_scan returns a run of free bits.
LEMMA ReturnIInv ==
  ASSUME IInv, NEW first \in 0 .. Size, scan.cnt # 0, Return(first),
         first + scan.cnt - 1 <= Size, first .. first + scan.cnt - 1 \cap bits = {}
  PROVE  IInv'
<1>1. scan.cnt \in 1 .. MaxCnt
  BY ScanTyped, SizeNat
<1>2. /\ bits' = bits \cup Run(<<first, scan.cnt>>) /\ owned' = owned \cup {<<first, scan.cnt>>}
      /\ pc' = "idle" /\ scan' = NoScan
  BY DEF Return
<1>3. /\ bits' \subseteq 0 .. Size
      /\ owned' \subseteq (0 .. Size) \X (1 .. MaxCnt)
      /\ \A r, s \in owned' : r # s => Run(r) \cap Run(s) = {}
      /\ \A r \in owned' : Run(r) \subseteq bits'
      /\ \A b \in bits' : b = Size \/ \E r \in owned' : b \in Run(r)
  BY <1>1, <1>2, RunTaken DEF IInv
<1>4. TypeOK'
  BY <1>2, <1>3, NoScanTyped DEF TypeOK
<1>5. RunsOwned'
  BY <1>3, <1>4 DEF RunsOwned
<1>6. ScanOK'
  BY <1>2 DEF ScanOK
<1>. QED BY <1>5, <1>6 DEF IInv

\* Up to the first free bit every bit is set.
LEMMA FirstBitFacts ==
  ASSUME IInv, FirstBit
  PROVE  LET first == ByteStart + scan.idx_bit IN
         /\ pc = "bits" /\ scan.cnt \in Nat \ {0} /\ first \in 0 .. Size - 1 /\ first \notin bits
         /\ \A i \in 0 .. first - 1 : ~Free(i, scan.cnt)
         /\ \/ scan.cnt = 1 /\ Return(first)
            \/ /\ scan.cnt # 1 /\ pc' = "run" /\ UNCHANGED <<bits, owned>>
               /\ scan' = [scan EXCEPT !.bit_left = Size - first,
                                       !.next_bit = first + 1, !.count = 1]
<1>. USE SizeNat
<1>. DEFINE first == ByteStart + scan.idx_bit
<1>1. pc = "bits" /\ first \notin bits
  BY DEF FirstBit, ByteStart
<1>2. scan.cnt # 0 /\ scan.idx_byte < btmp_bytes_len /\ 0 .. first - 1 \subseteq bits
  BY <1>1, ScanTyped DEF IInv, ScanOK, RunsOwned, TypeOK
<1>3. first \in 0 .. Size - 1 /\ scan.cnt \in Nat \ {0}
  BY <1>2, ScanTyped
<1>4. \A i \in 0 .. first - 1 : ~Free(i, scan.cnt)
  <2>. SUFFICES ASSUME NEW i \in 0 .. first - 1, Free(i, scan.cnt)
                PROVE  FALSE
    OBVIOUS
  <2>1. i \in bits /\ i \in i .. i + scan.cnt - 1
    BY <1>2, <1>3
  <2>. QED BY <2>1 DEF Free
<1>5. \/ scan.cnt = 1 /\ Return(first)
      \/ /\ scan.cnt # 1 /\ pc' = "run" /\ UNCHANGED <<bits, owned>>
         /\ scan' = [scan EXCEPT !.bit_left = Size - first,
                                 !.next_bit = first + 1, !.count = 1]
  BY DEF FirstBit, ByteStart
<1>. QED BY <1>1, <1>3, <1>4, <1>5

\* the first free bit is returned, or starts the run that is counted;
LEMMA FirstBitIInv ==
  ASSUME IInv, FirstBit
  PROVE  IInv'
<1>. USE SizeNat
<1>. DEFINE first == ByteStart + scan.idx_bit
<1>1. /\ pc = "bits" /\ scan.cnt \in Nat \ {0} /\ first \in 0 .. Size - 1 /\ first \notin bits
      /\ \A i \in 0 .. first - 1 : ~Free(i, scan.cnt)
      /\ \/ scan.cnt = 1 /\ Return(first)
         \/ /\ scan.cnt # 1 /\ pc' = "run" /\ UNCHANGED <<bits, owned>>
            /\ scan' = [scan EXCEPT !.bit_left = Size - first,
                                    !.next_bit = first + 1, !.count = 1]
  BY FirstBitFacts
<1>. HIDE DEF first
<1>2. CASE scan.cnt = 1 /\ Return(first)
  BY <1>1, <1>2, ReturnIInv
<1>3. CASE /\ scan.cnt # 1 /\ pc' = "run" /\ UNCHANGED <<bits, owned>>
           /\ scan' = [scan EXCEPT !.bit_left = Size - first,
                                   !.next_bit = first + 1, !.count = 1]
  <2>0. /\ Size - first \in 0 .. Size /\ first + 1 \in 0 .. Size + 1 /\ 1 \in 0 .. MaxCnt
        /\ scan \in ScanState
    BY <1>1, ScanTyped
  <2>1. /\ scan' \in ScanState /\ scan'.cnt = scan.cnt /\ scan'.bit_left = Size - first
        /\ scan'.next_bit = first + 1 /\ scan'.count = 1
    BY <1>3, <2>0 DEF ScanState
  <2>2. RunsOwned'
    BY <1>1, <1>3, <2>1, RunsKept DEF IInv
  <2>3. RunStart' = first
    BY <1>1, <2>1 DEF RunStart
  <2>4. /\ scan'.next_bit + scan'.bit_left = Size + 1
        /\ scan'.count < scan'.cnt /\ RunStart' >= 0
        /\ RunStart' .. scan'.next_bit - 1 \cap bits' = {}
    BY <1>1, <1>3, <2>1, <2>3
  <2>5. \A i \in 0 .. RunStart' - 1 : ~Free(i, scan.cnt)'
    BY <1>1, <1>3, <2>1, <2>3 DEF Free
  <2>6. ScanOK'
    BY <1>3, <2>4, <2>5 DEF ScanOK
  <2>. QED BY <2>2, <2>6 DEF IInv
<1>. QED BY <1>1, <1>2, <1>3

\* What holds while the run of free bits is counted.
LEMMA RunFacts ==
  ASSUME IInv, pc = "run"
  PROVE  /\ scan.cnt \in Nat \ {0} /\ scan.count < scan.cnt
         /\ scan.next_bit + scan.bit_left = Size + 1
         /\ RunStart \in Nat /\ scan.next_bit = RunStart + scan.count
         /\ RunStart .. scan.next_bit - 1 \cap bits = {}
         /\ \A i \in 0 .. RunStart - 1 : ~Free(i, scan.cnt)
<1>1. /\ scan.cnt # 0 /\ scan.count < scan.cnt /\ RunStart >= 0
      /\ scan.next_bit + scan.bit_left = Size + 1
      /\ RunStart .. scan.next_bit - 1 \cap bits = {}
      /\ \A i \in 0 .. RunStart - 1 : ~Free(i, scan.cnt)
  BY DEF IInv, ScanOK, RunsOwned, TypeOK
<1>2. RunStart \in Nat /\ scan.next_bit = RunStart + scan.count
  BY <1>1, ScanTyped DEF RunStart
<1>. QED BY <1>1, <1>2, ScanTyped

\* The bit that completes the run.
LEMMA RunCompletes ==
  ASSUME IInv, pc = "run", More, Count = scan.cnt
  PROVE  /\ scan.next_bit - scan.cnt + 1 = RunStart
         /\ RunStart \in 0 .. Size /\ RunStart + scan.cnt - 1 <= Size
         /\ RunStart .. RunStart + scan.cnt - 1 \cap bits = {}
<1>. USE SizeNat
<1>1. scan.next_bit \notin bits /\ scan.count + 1 = scan.cnt
  BY RunFacts DEF Count
<1>2. scan.bit_left > 0
  BY DEF More
<1>3. RunStart + scan.cnt - 1 = scan.next_bit /\ scan.next_bit <= Size
  BY <1>1, <1>2, RunFacts, ScanTyped
<1>4. scan.next_bit - scan.cnt + 1 = RunStart /\ RunStart \in 0 .. Size
  BY <1>1, <1>3, RunFacts, ScanTyped
<1>5. RunStart .. scan.next_bit \cap bits = {}
  BY <1>1, RunFacts, ScanTyped
<1>. QED BY <1>3, <1>4, <1>5, RunFacts, ScanTyped

\* A set bit ends the run that was counted: no run that is long enough starts
\* up to it.
LEMMA RunBroken ==
  ASSUME IInv, pc = "run", scan.next_bit \in bits
  PROVE  \A i \in 0 .. scan.next_bit : ~Free(i, scan.cnt)
<1>. SUFFICES ASSUME NEW i \in 0 .. scan.next_bit, Free(i, scan.cnt)
              PROVE  FALSE
  OBVIOUS
<1>1. i \notin 0 .. RunStart - 1
  BY RunFacts
<1>2. scan.next_bit \in i .. i + scan.cnt - 1
  BY <1>1, RunFacts, ScanTyped
<1>. QED BY <1>2 DEF Free

\* one more bit extends the run, completes it or breaks it;
LEMMA RunStepIInv ==
  ASSUME IInv, RunStep
  PROVE  IInv'
<1>. USE SizeNat
<1>1. pc = "run" /\ More
  BY DEF RunStep
<1>2. CASE Count = scan.cnt
  <2>1. Return(RunStart)
    BY <1>1, <1>2, RunCompletes DEF RunStep
  <2>. QED BY <1>1, <1>2, <2>1, RunCompletes, RunFacts, ReturnIInv
<1>3. CASE Count # scan.cnt
  <2>1. /\ scan' = [scan EXCEPT !.bit_left = @ - 1, !.next_bit = @ + 1, !.count = Count]
        /\ pc' = "run" /\ UNCHANGED <<bits, owned>>
    BY <1>1, <1>3 DEF RunStep
  <2>2. /\ scan.bit_left - 1 \in 0 .. Size /\ scan.next_bit + 1 \in 0 .. Size + 1
        /\ Count \in 0 .. MaxCnt /\ Count < scan.cnt /\ scan \in ScanState
    BY <1>1, <1>3, RunFacts, ScanTyped DEF More, Count
  <2>3. /\ scan' \in ScanState /\ scan'.cnt = scan.cnt /\ scan'.bit_left = scan.bit_left - 1
        /\ scan'.next_bit = scan.next_bit + 1 /\ scan'.count = Count
    BY <2>1, <2>2 DEF ScanState
  <2>4. RunsOwned'
    BY <1>1, <2>1, <2>3, RunFacts, RunsKept DEF IInv
  <2>5. /\ scan'.next_bit + scan'.bit_left = Size + 1 /\ scan'.count < scan'.cnt
    BY <1>1, <2>2, <2>3, RunFacts, ScanTyped
  <2>6. /\ RunStart' >= 0
        /\ RunStart' .. scan'.next_bit - 1 \cap bits = {}
        /\ \A i \in 0 .. RunStart' - 1 : ~Free(i, scan.cnt)
    <3>1. CASE scan.next_bit \in bits
      <4>1. RunStart' = scan.next_bit + 1
        BY <2>3, <3>1, ScanTyped DEF RunStart, Count
      <4>. QED BY <1>1, <2>3, <3>1, <4>1, RunBroken, ScanTyped
    <3>2. CASE scan.next_bit \notin bits
      <4>1. RunStart' = RunStart
        BY <2>3, <3>2, ScanTyped DEF RunStart, Count
      <4>. QED BY <1>1, <2>3, <3>2, <4>1, RunFacts, ScanTyped
    <3>. QED BY <3>1, <3>2
  <2>7. \A i \in 0 .. RunStart' - 1 : ~Free(i, scan.cnt)'
    BY <2>1, <2>3, <2>6 DEF Free
  <2>8. ScanOK'
    BY <2>1, <2>5, <2>6, <2>7 DEF ScanOK
  <2>. QED BY <2>4, <2>8 DEF IInv
<1>. QED BY <1>2, <1>3

\* vaddr_remove clears the bits of its run and of no other.
LEMMA RemoveIInv ==
  ASSUME IInv, NEW r \in owned, vaddr_remove(r)
  PROVE  IInv'
<1>1. /\ pc = "idle" /\ pc' = pc /\ scan' = scan
      /\ bits' = bits \ Run(r) /\ owned' = owned \ {r}
  BY DEF vaddr_remove
<1>2. TypeOK'
  BY <1>1 DEF IInv, RunsOwned, TypeOK
<1>3. /\ \A p, q \in owned : p # q => Run(p) \cap Run(q) = {}
      /\ \A p \in owned : Run(p) \subseteq bits
      /\ \A b \in bits : b = Size \/ \E p \in owned : b \in Run(p)
  BY DEF IInv, RunsOwned
<1>4. \A p, q \in owned' : p # q => Run(p) \cap Run(q) = {}
  BY <1>1, <1>3
<1>5. \A p \in owned' : Run(p) \subseteq bits'
  BY <1>1, <1>3
<1>6. \A b \in bits' : b = Size \/ \E p \in owned' : b \in Run(p)
  BY <1>1, <1>3
<1>7. RunsOwned'
  BY <1>2, <1>4, <1>5, <1>6 DEF RunsOwned
<1>8. ScanOK'
  BY <1>1 DEF ScanOK
<1>. QED BY <1>7, <1>8 DEF IInv

\* the scan gives up.
LEMMA RunFailIInv ==
  ASSUME IInv, RunFail
  PROVE  IInv'
<1>1. pc = "run" /\ pc' = "idle" /\ scan' = NoScan /\ UNCHANGED <<bits, owned>>
  BY DEF RunFail
<1>2. TypeOK'
  BY <1>1, NoScanTyped DEF IInv, RunsOwned, TypeOK
<1>3. /\ \A p, q \in owned : p # q => Run(p) \cap Run(q) = {}
      /\ \A p \in owned : Run(p) \subseteq bits
      /\ \A b \in bits : b = Size \/ \E p \in owned : b \in Run(p)
  BY DEF IInv, RunsOwned
<1>4. RunsOwned'
  BY <1>1, <1>2, <1>3 DEF RunsOwned
<1>. QED BY <1>1, <1>4 DEF IInv, ScanOK

\* Every step preserves the inductive invariant.
LEMMA NextIInv ==
  ASSUME IInv, [Next]_vars
  PROVE  IInv'
<1>1. CASE UNCHANGED vars
  <2>1. bits' = bits /\ owned' = owned /\ pc' = pc /\ scan' = scan
    BY <1>1 DEF vars
  <2>2. RunsOwned'
    BY <2>1 DEF IInv, RunsOwned, TypeOK
  <2>3. ScanOK'
    BY <2>1 DEF IInv, ScanOK, ByteStart, RunStart, ByteFull, Free
  <2>. QED BY <2>2, <2>3 DEF IInv
<1>. QED BY <1>1, GetIInv, NextByteIInv, BytesDoneIInv, NextBitIInv, FirstBitIInv,
            RunStepIInv, RunFailIInv, RemoveIInv DEF Next, Scanning

\* The inductive invariant holds: what the locals of bitmap_scan say about the
\* bits it has passed is true, and the runs handed out are disjoint.
THEOREM Invariant == Spec => []IInv
BY InitIInv, NextIInv, PTL DEF Spec

\* No page is handed out twice by vaddr_get and none is lost by vaddr_remove:
\* RunsOwned, for every bitmap and every length of run.
THEOREM RunsStayOwned == Spec => []RunsOwned
<1>1. IInv => RunsOwned
  BY DEF IInv
<1>. QED BY <1>1, Invariant, PTL

\* A step hands out a run only where no earlier one would do.
LEMMA NewRunIsFirst ==
  ASSUME IInv, [Next]_vars
  PROVE  \A r \in owned' \ owned : \A i \in 0 .. r[1] - 1 : ~Free(i, r[2])
<1>1. CASE FirstBit
  <2>1. CASE Return(ByteStart + scan.idx_bit)
    BY <1>1, <2>1, FirstBitFacts DEF Return
  <2>2. CASE owned' = owned
    BY <2>2
  <2>. QED BY <1>1, <2>1, <2>2, FirstBitFacts
<1>2. CASE RunStep
  <2>1. CASE Count = scan.cnt
    <3>1. pc = "run" /\ Return(RunStart)
      BY <1>2, <2>1, RunCompletes DEF RunStep
    <3>. QED BY <3>1, RunFacts DEF Return
  <2>2. CASE owned' = owned
    BY <2>2
  <2>. QED BY <1>2, <2>1, <2>2 DEF RunStep
<1>3. CASE owned' \subseteq owned
  BY <1>3
<1>4. FirstBit \/ RunStep \/ owned' \subseteq owned
  BY DEF Next, Scanning, vars, vaddr_get, NextByte, BytesDone, NextBit, RunFail, vaddr_remove
<1>. QED BY <1>1, <1>2, <1>3, <1>4

\* When the bits run out, the last run that was counted is too short and
\* reaches the end of the bitmap.
LEMMA FailOnlyWhenNone ==
  ASSUME IInv, RunFail
  PROVE  \A i \in 0 .. Size - scan.cnt : ~Free(i, scan.cnt)
<1>. USE SizeNat
<1>1. pc = "run" /\ ~(scan.bit_left > 0)
  BY DEF RunFail, More
<1>2. scan.next_bit = Size + 1
  BY <1>1, RunFacts, ScanTyped
<1>3. RunStart > Size - scan.cnt
  BY <1>1, <1>2, RunFacts, ScanTyped
<1>. QED BY <1>1, <1>3, RunFacts, ScanTyped

\* bitmap_scan returns the lowest run of free bits that is long enough, and
\* fails only when the bitmap holds none: FirstFit, for every size.
THEOREM ScanIsFirstFit == Spec => FirstFit
<1>1. IInv /\ [Next]_vars =>
        [/\ \A r \in owned' \ owned : \A i \in 0 .. r[1] - 1 : ~Free(i, r[2])
         /\ RunFail => \A i \in 0 .. Size - scan.cnt : ~Free(i, scan.cnt)]_vars
  BY NewRunIsFirst, FailOnlyWhenNone
<1>. QED BY <1>1, Invariant, PTL DEF Spec, FirstFit

=============================================================================

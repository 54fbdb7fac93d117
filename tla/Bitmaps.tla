------------------------------ MODULE Bitmaps ------------------------------
(***************************************************************************)
(* The bitmaps of util.c in A4.  Bit number n stands for inode or block n, *)
(* from 1; a bitmap is the set of the numbers whose bit is 1.  A Bitmap    *)
(* structure holds, for the time of one run, the next number to give out   *)
(* and the count of free bits, which was read from the group descriptor    *)
(* and may have nothing to do with the bits.                               *)
(***************************************************************************)
EXTENDS Integers, FiniteSets, FiniteSetsExt

EXT2_GOOD_OLD_FIRST_INO == 11

(* curr_avail_num once no bit is left                                      *)
NoNum == -1

(* Bits from number 11 on that are 0, for inodes and for blocks alike.     *)
FreeBits(used, size) == {n \in EXT2_GOOD_OLD_FIRST_INO..size : n \notin used}

(* find_free does not stop at the end of the bitmap.  What it takes there  *)
(* for a free bit has a number beyond the last inode or block; one such    *)
(* number stands for them all.                                             *)
Beyond(size) == size + 1
FindFree(used, size) ==
  IF FreeBits(used, size) = {} THEN Beyond(size) ELSE Min(FreeBits(used, size))

(* find_n_free looks from bit 11 on for the k-th free bit, but the number  *)
(* it stores is counted from curr_avail_num on.                            *)
NthFree(used, size, k) ==
  {n \in FreeBits(used, size) : Cardinality({m \in FreeBits(used, size) : m <= n}) = k}
FindNth(bm, used, size, k) ==
  LET numbers == {bm.avail + n - EXT2_GOOD_OLD_FIRST_INO : n \in NthFree(used, size, k)}
  IN IF numbers = {} THEN Beyond(size) ELSE Max(numbers)

(* read_bitmaps: found_bits counts from -1, and the search in the blocks   *)
(* ends when it is 1.  Without a free inode that is the second free block. *)
(* The program gives up if found_bits is 0 in the end.  A structure for    *)
(* which nothing was found keeps its zeros.                                *)
BlockHits(inodes, nInodes, blocks, nBlocks) ==
  Min({IF FreeBits(inodes, nInodes) = {} THEN 2 ELSE 1,
       Cardinality(FreeBits(blocks, nBlocks))})
(* Seeded bug: the count starts from 0.                                    *)
FoundBitsFromZero(inodes, nInodes, blocks, nBlocks) ==
  (IF FreeBits(inodes, nInodes) = {} THEN 0 ELSE 1)
    + BlockHits(inodes, nInodes, blocks, nBlocks)
FoundBits(inodes, nInodes, blocks, nBlocks) ==
  (IF FreeBits(inodes, nInodes) = {} THEN -1 ELSE 0)
    + BlockHits(inodes, nInodes, blocks, nBlocks)
ReadBitmap(used, size, hits, count) ==
  [avail |-> IF hits = 0 \/ FreeBits(used, size) = {} THEN 0 ELSE Max(NthFree(used, size, hits)),
   left |-> count]

(* Seeded bugs: the index of the bit is that of the number, not of the     *)
(* number less one; the numbers kept after a use are not renewed.          *)
BitOfNext(bm) == bm.avail + 1
BitOfZero(bm) == bm.avail
AfterUseStale(bm, used, size) == [avail |-> bm.avail, left |-> bm.left - 1]

(* set_used_bit: the bit of a structure that read_bitmaps has left at zero *)
(* is bit 0 of byte 0, number 1.                                           *)
BitOf(bm) == IF bm.avail = 0 THEN 1 ELSE bm.avail
AfterUse(bm, used, size) ==
  [avail |-> IF bm.left > 1 THEN FindFree(used \cup {BitOf(bm)}, size) ELSE NoNum,
   left |-> bm.left - 1]

(* set_n_toggle_bit turns every bit over, whatever it is asked to set.     *)
(* Seeded bug: it turns over the bit after.                                *)
ToggledNext(used, n) == IF n + 1 \in used THEN used \ {n + 1} ELSE used \cup {n + 1}
Toggled(used, n) == IF n \in used THEN used \ {n} ELSE used \cup {n}

(* check_bit: is the bit with the index n set?  That of number n has the   *)
(* index n - 1.                                                            *)
(* Seeded bug: the index is made from the number.                          *)
CheckBitOf(used, n) == n \in used
CheckBit(used, n) == n + 1 \in used
=============================================================================

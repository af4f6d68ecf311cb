----------------------------- MODULE VerityTree -----------------------------
(***************************************************************************)
(* The arithmetic of ch10/dm-verity/dm-verity.c: how many levels the hash  *)
(* tree has, where each level starts on the hash device, which hash block  *)
(* and which offset belong to a data block, and what is prefetched.        *)
(*                                                                         *)
(* A target is a record with the fields of struct dm_verity.  sector_t has *)
(* Width bits (64 in the kernel); shift counts are taken modulo the width, *)
(* as the shift instructions of x86 do where C leaves the result undefined.*)
(***************************************************************************)
EXTENDS Integers

CONSTANT Width

ASSUME WidthAssumption == Width \in Nat \ {0}

TwoTo[k \in Nat] == IF k = 0 THEN 1 ELSE 2 * TwoTo[k - 1]

Word      == TwoTo[Width]
Shl(n, k) == (n * TwoTo[k % Width]) % Word
Shr(n, k) == n \div TwoTo[k % Width]

\* __fls(): the number of the highest bit set
Fls(n) == CHOOSE k \in 0..Width - 1 : TwoTo[k] <= n /\ n < TwoTo[k + 1]

\* Both block sizes are powers of two within a page or an int.
PowerOfTwo(n) == \E k \in 0..Width - 1 : n = TwoTo[k]

\* fault: rounded up
HashPerBlockBitsUp(hashBlockSize, digestSize) == Fls(hashBlockSize \div digestSize) + 1
HashPerBlockBits(hashBlockSize, digestSize) == Fls(hashBlockSize \div digestSize)

\* The loop of verity_ctr stops at the first level above which one block is left.
Levels(dataBlocks, bits) ==
  LET Goes(l) == bits * l < Width /\ Shr(dataBlocks - 1, bits * l) # 0
  IN IF dataBlocks = 0 THEN 0
     ELSE CHOOSE l \in 0..Width : ~Goes(l) /\ \A m \in 0..l - 1 : Goes(m)

\* fault: the level is sized as if its blocks held one hash more than they do
LevelSizeShort(v, i) ==
  LET shift == (i + 1) * v.hash_per_block_bits
  IN Shr(v.data_blocks, shift)
\* The blocks of level i: dataBlocks over the data blocks that one of them covers, rounded up.
LevelSize(v, i) ==
  LET shift == (i + 1) * v.hash_per_block_bits
  IN Shr((v.data_blocks + Shl(1, shift) - 1) % Word, shift)

\* hash_position when the loop of verity_ctr reaches level i, coming from the root.
HashPosition(v) ==
  LET position[i \in 0..v.levels] ==
        IF i = v.levels THEN v.hash_start
        ELSE (position[i + 1] + LevelSize(v, i)) % Word
  IN position

Overflows(v) ==
  \E i \in 0..v.levels - 1 :
    (HashPosition(v)[i + 1] + LevelSize(v, i)) % Word < HashPosition(v)[i + 1]
HashLevelBlock(v) == [i \in 0..v.levels - 1 |-> HashPosition(v)[i + 1]]
HashBlocks(v)     == HashPosition(v)[0]

-----------------------------------------------------------------------------
(* Where the hash of a data block is.                                      *)

PositionAtLevel(v, block, level) == Shr(block, level * v.hash_per_block_bits)

HashAtLevel(v, block, level) ==
  (v.hash_level_block[level] + Shr(PositionAtLevel(v, block, level), v.hash_per_block_bits)) % Word

SlotAtLevel(v, block, level) == PositionAtLevel(v, block, level) % TwoTo[v.hash_per_block_bits]

OffsetAtLevel(v, block, level) ==
  IF v.version = 0 THEN SlotAtLevel(v, block, level) * v.digest_size
  ELSE SlotAtLevel(v, block, level) * TwoTo[v.hash_dev_block_bits - v.hash_per_block_bits]

-----------------------------------------------------------------------------
(* What verity_prefetch_io asks dm-bufio for at one level: [from, to].     *)

\* fault: the end of the device is forgotten
CutNowhere(v, last) == last
CutAtEnd(v, last) == IF last >= v.hash_blocks THEN v.hash_blocks - 1 ELSE last

PrefetchAt(v, block, n, level, prefetchCluster) ==
  LET first   == HashAtLevel(v, block, level)
      last    == HashAtLevel(v, block + n - 1, level)
      cluster == prefetchCluster \div TwoTo[v.data_dev_block_bits]
      size    == TwoTo[Fls(cluster)]
  IN IF level > 0 \/ cluster = 0 THEN [from |-> first, to |-> last]
     ELSE [from |-> first - (first % size),
           to   |-> CutAtEnd(v, last - (last % size) + size - 1)]

PrefetchLevels(v) == 0..v.levels - 2
=============================================================================

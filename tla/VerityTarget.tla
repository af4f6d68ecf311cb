---------------------------- MODULE VerityTarget ----------------------------
(***************************************************************************)
(* The life of one dm-verity target: verity_ctr with every check and every *)
(* allocation that can fail, verity_dtr, and verity_map with the prefetch  *)
(* that goes with it.  The device mapper calls them one after the other,   *)
(* and verity_map only on a target whose constructor succeeded.            *)
(*                                                                         *)
(* ptr is what the fields of struct dm_verity hold, held what is really    *)
(* allocated: verity_dtr sees only the former.                             *)
(***************************************************************************)
EXTENDS VerityTree, FiniteSets

CONSTANTS
  SectorShift,   \* log2 of the sector size
  PageSize, LogicalBlockSize,
  MaxLevels,     \* DM_VERITY_MAX_LEVELS
  Tables         \* what the user may write, and find there

VARIABLES
  table,         \* the one of this behaviour
  pc, v, ptr, held, wild, bio
vars == <<table, pc, v, ptr, held, wild, bio>>

BlockSizes      == table.block_sizes
DataBlockCounts == table.data_blocks
HashStarts      == table.hash_starts
DigestSizes     == table.digest_sizes
Lengths         == table.lengths        \* lengths of the target, in sectors
DeviceSizes     == table.device_sizes   \* sizes of the hash device, in hash blocks
Clusters        == table.clusters       \* values of the parameter prefetch_cluster

\* The loop of verity_ctr ends before a shift count reaches the width, and what it
\* shifts does not overflow.
ShiftsFit(size, digest, n) ==
  LET bits == HashPerBlockBits(size, digest)
      top  == bits * Levels(n, bits)
  IN PowerOfTwo(size) /\ 2 * digest <= size => top < Width /\ n + TwoTo[top] - 1 < Word

WellFormed ==
  /\ {SectorShift, LogicalBlockSize} \subseteq Nat /\ TwoTo[SectorShift] <= LogicalBlockSize
  /\ \A t \in Tables :
       /\ t.lengths \subseteq Nat /\ t.digest_sizes \subseteq Nat \ {0}
       /\ {t.data_blocks, t.hash_starts, t.clusters} \subseteq SUBSET (0..Word - 1)
       /\ \A size \in t.block_sizes, digest \in t.digest_sizes, n \in t.data_blocks :
            ShiftsFit(size, digest, n)

Resources == {"v", "data_dev", "hash_dev", "alg_name", "tfm", "root_digest",
              "salt", "bufio", "verify_wq"}

Zeroed == [version |-> 0, len |-> 0, data_dev_block_bits |-> 0, hash_dev_block_bits |-> 0,
           data_blocks |-> 0, hash_start |-> 0, digest_size |-> 0, hash_per_block_bits |-> 0,
           levels |-> 0, hash_level_block |-> <<>>, hash_blocks |-> 0]
NoBio == [dir |-> "none"]

Init ==
  /\ table \in Tables
  /\ pc = "none" /\ v = Zeroed /\ bio = NoBio
  /\ ptr = [r \in Resources |-> "null"]
  /\ held = {} /\ wild = {}

At(point) == pc = point /\ UNCHANGED <<wild, bio>>

\* A step of verity_ctr that allocates nothing: goto bad, or on to the next check.
Bad        == pc' = "bad" /\ UNCHANGED <<v, ptr, held>>
On(next)   == pc' = next /\ UNCHANGED <<ptr, held>>
\* A step that allocates: the field is set and the resource is ours.
Got(r, next) ==
  /\ pc' = next
  /\ ptr' = [ptr EXCEPT ![r] = "ok"]
  /\ held' = held \cup {r}

Ctr(len) ==
  /\ At("none")
  /\ v' = [Zeroed EXCEPT !.len = len]
  /\ Got("v", "version")

\* Also the read-only check and the number of arguments.
Version ==
  /\ At("version")
  /\ \/ Bad
     \/ \E n \in {0, 1} : v' = [v EXCEPT !.version = n] /\ On("data_dev")

Device(r, next) ==
  /\ At(r)
  /\ \/ Bad
     \/ UNCHANGED v /\ Got(r, next)

DataBlockSize(n) ==
  /\ At("data_block_size")
  /\ IF ~PowerOfTwo(n) \/ n < LogicalBlockSize \/ n > PageSize THEN Bad
     ELSE v' = [v EXCEPT !.data_dev_block_bits = Fls(n)] /\ On("hash_block_size")

HashBlockSize(n) ==
  /\ At("hash_block_size")
  /\ IF ~PowerOfTwo(n) \/ n < LogicalBlockSize THEN Bad
     ELSE v' = [v EXCEPT !.hash_dev_block_bits = Fls(n)] /\ On("data_blocks")

Sectors(bits, n) == Shl(n, bits - SectorShift)
\* A number of blocks whose number of sectors does not fit a sector_t is refused.
Fits(bits, n) == Shr(Sectors(bits, n), bits - SectorShift) = n

\* fault: a target longer than the data is accepted
LongEnoughAlways(n) == TRUE
LongEnough(n) == v.len <= Sectors(v.data_dev_block_bits, n)

DataBlocks(n) ==
  /\ At("data_blocks")
  /\ IF ~Fits(v.data_dev_block_bits, n) \/ ~LongEnough(n) THEN Bad
     ELSE v' = [v EXCEPT !.data_blocks = n] /\ On("hash_start")

HashStart(n) ==
  /\ At("hash_start")
  /\ IF ~Fits(v.hash_dev_block_bits, n) THEN Bad
     ELSE v' = [v EXCEPT !.hash_start = n] /\ On("alg_name")

AlgName ==
  /\ At("alg_name")
  /\ \/ Bad
     \/ UNCHANGED v /\ Got("alg_name", "tfm")

\* fault: the error pointer stays in the field
TfmErrorKept == pc' = "bad" /\ ptr' = [ptr EXCEPT !["tfm"] = "err"] /\ UNCHANGED <<v, held>>
\* crypto_alloc_shash returned an error pointer; the field is cleared.
TfmError     == pc' = "bad" /\ ptr' = [ptr EXCEPT !["tfm"] = "null"] /\ UNCHANGED <<v, held>>

Tfm(digest) ==
  /\ At("tfm")
  /\ \/ TfmError
     \/ v' = [v EXCEPT !.digest_size = digest] /\ Got("tfm", "digest_size")

DigestFitsTwice == v.digest_size * 2 <= TwoTo[v.hash_dev_block_bits]

DigestSize ==
  /\ At("digest_size")
  /\ IF DigestFitsTwice THEN UNCHANGED v /\ On("root_digest") ELSE Bad

RootDigest ==
  /\ At("root_digest")
  /\ \/ Bad
     \/ UNCHANGED v /\ Got("root_digest", "hex")

\* hex2bin of the digest, which may be malformed
Hex ==
  /\ At("hex")
  /\ \/ Bad
     \/ UNCHANGED v /\ On("salt")

\* "-" for no salt; a salt that is no hexadecimal number fails after its allocation.
Salt ==
  /\ At("salt")
  /\ UNCHANGED v
  /\ \/ Bad
     \/ On("options")
     \/ Got("salt", "options")
     \/ Got("salt", "bad")

Options ==
  /\ At("options")
  /\ \/ Bad
     \/ UNCHANGED v /\ On("layout")

WithLevels ==
  LET bits == HashPerBlockBits(TwoTo[v.hash_dev_block_bits], v.digest_size)
  IN [v EXCEPT !.hash_per_block_bits = bits, !.levels = Levels(v.data_blocks, bits)]
Layout ==
  /\ At("layout")
  /\ LET w == WithLevels
     IN IF w.levels > MaxLevels \/ Overflows(w) THEN Bad
        ELSE /\ v' = [w EXCEPT !.hash_level_block = HashLevelBlock(w),
                               !.hash_blocks = HashBlocks(w)]
             /\ On("bufio")

\* fault: the error of dm_bufio_client_create is not looked at
BufioUnchecked == pc' = "device_size" /\ ptr' = [ptr EXCEPT !["bufio"] = "null"] /\ UNCHANGED <<v, held>>
BufioError     == pc' = "bad" /\ ptr' = [ptr EXCEPT !["bufio"] = "null"] /\ UNCHANGED <<v, held>>
Bufio ==
  /\ At("bufio")
  /\ \/ BufioError
     \/ UNCHANGED v /\ Got("bufio", "device_size")

DeviceSize(size) ==
  /\ At("device_size")
  /\ IF size < v.hash_blocks THEN Bad ELSE UNCHANGED v /\ On("verify_wq")

Workqueue ==
  /\ At("verify_wq")
  /\ \/ Bad
     \/ UNCHANGED v /\ Got("verify_wq", "live")

-----------------------------------------------------------------------------
\* What verity_dtr gives back: whatever its field points to.
Destroyed == {r \in Resources : ptr[r] # "null"}

\* At the end of a failed constructor, or when the device mapper drops the target.
Dtr ==
  /\ pc \in {"bad", "live"} /\ bio = NoBio
  /\ pc' = "none"
  /\ v' = Zeroed /\ UNCHANGED bio
  /\ held' = held \ Destroyed
  /\ wild' = Destroyed \ held
  /\ ptr' = [r \in Resources |-> "null"]

-----------------------------------------------------------------------------
BlockSectors == TwoTo[v.data_dev_block_bits - SectorShift]

Unaligned(sector, n) == sector % BlockSectors # 0 \/ n % BlockSectors # 0
OutOfRange(sector, n)  == (sector + n) \div BlockSectors > v.data_blocks

\* verity_map; the device mapper cuts bios at the end of the target.
Map(dir, sector, n, cluster) ==
  /\ pc = "live" /\ bio = NoBio
  /\ n > 0 /\ sector + n <= v.len
  /\ bio' = [dir |-> dir, sector |-> sector, sectors |-> n, cluster |-> cluster,
             res |-> IF Unaligned(sector, n) \/ OutOfRange(sector, n) \/ dir = "write"
                     THEN "eio" ELSE "submitted",
             block |-> sector \div BlockSectors, n_blocks |-> n \div BlockSectors]
  /\ UNCHANGED <<pc, v, ptr, held, wild>>

\* The device mapper is done with the answer.
Answered == bio # NoBio /\ bio' = NoBio /\ UNCHANGED <<pc, v, ptr, held, wild>>

\* verity_io_hints
LogicalBlock ==
  IF LogicalBlockSize < TwoTo[v.data_dev_block_bits] THEN TwoTo[v.data_dev_block_bits]
  ELSE LogicalBlockSize

-----------------------------------------------------------------------------
Next ==
  /\ UNCHANGED table
  /\ \/ \E len \in Lengths : Ctr(len)
     \/ Version
     \/ Device("data_dev", "hash_dev")
     \/ Device("hash_dev", "data_block_size")
     \/ \E n \in BlockSizes : DataBlockSize(n)
     \/ \E n \in BlockSizes : HashBlockSize(n)
     \/ \E n \in DataBlockCounts : DataBlocks(n)
     \/ \E n \in HashStarts : HashStart(n)
     \/ AlgName
     \/ \E digest \in DigestSizes : Tfm(digest)
     \/ DigestSize
     \/ RootDigest
     \/ Hex
     \/ Salt
     \/ Options
     \/ Layout
     \/ Bufio
     \/ \E size \in DeviceSizes : DeviceSize(size)
     \/ Workqueue
     \/ Dtr
     \/ \E dir \in {"read", "write"}, sector \in 0..v.len, n \in 1..v.len, cluster \in Clusters :
          Map(dir, sector, n, cluster)
     \/ Answered

Spec == Init /\ [][Next]_vars

-----------------------------------------------------------------------------
(* Correctness.                                                            *)

\* The target is built in order: what the control point promises is held.
TypeOK ==
  /\ held \subseteq Resources /\ wild \subseteq Resources
  /\ ptr \in [Resources -> {"null", "ok", "err"}]
  /\ v.levels \in Nat /\ v.hash_blocks \in 0..Word - 1
  /\ pc = "live" => Resources \ {"salt"} \subseteq held

\* Whichever step of verity_ctr fails, and when a target is dropped, verity_dtr
\* gives back all that was taken and nothing that was not.
NothingLeaks == wild = {} /\ (pc = "none" => held = {})

\* The hash blocks level i uses for the data blocks of the target.
Used(i) == {HashAtLevel(v, b, i) : b \in 0..v.data_blocks - 1}
\* How many there are, by the definition of the tree: each covers so many data blocks.
Covers(i)  == TwoTo[(i + 1) * v.hash_per_block_bits]
Wanted(i)  == Cardinality({b \div Covers(i) : b \in 0..v.data_blocks - 1})

\* verity_ctr lays the tree out so that every level has its own blocks, one
\* after the other from hash_start without a gap, under a single root; it
\* refuses what does not fit ("Hash device offset overflow").
LayoutSound ==
  pc = "live" =>
    LET levels == 0..v.levels - 1
    IN /\ \A i \in levels : Cardinality(Used(i)) = Wanted(i)
       /\ \A i, j \in levels : i # j => Used(i) \cap Used(j) = {}
       /\ UNION {Used(i) : i \in levels} = v.hash_start..v.hash_blocks - 1
       /\ v.levels > 0 => Used(v.levels - 1) = {v.hash_start}
       /\ v.levels = 0 => v.data_blocks <= 1

\* The digests of one hash block lie side by side inside the block, in either
\* format version.
SlotsSound ==
  pc = "live" /\ v.levels > 0 =>
    \A b, c \in 0..TwoTo[v.hash_per_block_bits] - 1 :
      /\ OffsetAtLevel(v, b, 0) + v.digest_size <= TwoTo[v.hash_dev_block_bits]
      /\ b < c => OffsetAtLevel(v, b, 0) + v.digest_size <= OffsetAtLevel(v, c, 0)

Submitted == bio.dir # "none" /\ bio.res = "submitted"

\* A bio that is let through has a place in the tree for each of its blocks; one
\* that keeps to the block size of verity_io_hints and reads is let through.
MapServes ==
  bio.dir # "none" =>
    /\ Submitted => bio.n_blocks > 0 /\ bio.block + bio.n_blocks <= v.data_blocks
    /\ bio.dir = "read" /\ (bio.sector * TwoTo[SectorShift]) % LogicalBlock = 0
         /\ (bio.sectors * TwoTo[SectorShift]) % LogicalBlock = 0 => Submitted

\* The blocks of a bio that is let through have their hashes on the hash device, and
\* the way up from each ends at its first block, whose digest the user gave; a device
\* without hash blocks is one block.
PathsSound ==
  Submitted =>
    \A b \in bio.block..bio.block + bio.n_blocks - 1 :
      /\ \A i \in 0..v.levels - 1 : HashAtLevel(v, b, i) \in v.hash_start..v.hash_blocks - 1
      /\ IF v.levels = 0 THEN b = 0 ELSE HashAtLevel(v, b, v.levels - 1) = v.hash_start

\* What is prefetched at a level holds the hash block of every data block of the
\* bio, whatever the user makes of prefetch_cluster, and ends within the tree.
PrefetchSound ==
  Submitted =>
    \A i \in PrefetchLevels(v) :
      LET range == PrefetchAt(v, bio.block, bio.n_blocks, i, bio.cluster)
      IN /\ range.to < v.hash_blocks
         /\ \A b \in bio.block..bio.block + bio.n_blocks - 1 :
              HashAtLevel(v, b, i) \in range.from..range.to
=============================================================================

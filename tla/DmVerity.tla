------------------------------ MODULE DmVerity ------------------------------
(***************************************************************************)
(* How ch10/dm-verity/dm-verity.c verifies what is read: workers of one    *)
(* target, each with a bio, share hash blocks through dm-bufio, with a     *)
(* flag on every buffer that says its hash was verified.  The flag, the    *)
(* error counter and the state of the device are not protected by a lock.  *)
(*                                                                         *)
(* Of dm-bufio there is here what its clients see: a block is read in when *)
(* it is missing, held and released, and dropped when nobody holds it.     *)
(* Digests do not collide, so a digest stands for the block it is of.      *)
(***************************************************************************)
EXTENDS VerityTree, FiniteSets

CONSTANTS
  Workers,
  V,         \* the target: fields of struct dm_verity, as verity_ctr leaves them
  Bios,      \* what is read: pairs of a first block and a number of blocks
  Modes,     \* the modes a target may be in
  MaxErrs,   \* DM_VERITY_MAX_CORRUPTED_ERRS
  Contents,  \* what a read of the devices may return; it may differ from read to read
  Fillers,   \* blocks the prefetch may bring in
  NoBuffer

\* "good" is what the root digest commits to; a forged hash block holds the
\* digests of forged blocks; a damaged one is spoiled beside its digests.
AllContents == {"good", "forged", "damaged"}
Below(content) == IF content = "forged" THEN "forged" ELSE "good"

\* The digest of a block: data blocks are at level 0, hash blocks of level i at i + 1.
Digest(level, id, content) == <<level, id, content>>
Digests == Nat \X Nat \X AllContents

HashIds == V.hash_start..V.hash_blocks - 1

ASSUME ContentsAssumption == "good" \in Contents /\ Contents \subseteq AllContents
ASSUME ModesAssumption    == Modes \subseteq {"eio", "logging", "restart"}
ASSUME MaxErrsAssumption  == MaxErrs \in Nat \ {0}
ASSUME TargetAssumption   == V.levels \in Nat /\ V.hash_start \in Nat /\ V.hash_blocks \in Nat
ASSUME BiosAssumption     == Bios \subseteq Nat \X (Nat \ {0})
ASSUME PathAssumption     ==
  \A bio \in Bios : \A b \in 0..bio[2] - 1 : \A level \in 0..V.levels - 1 :
    HashAtLevel(V, bio[1] + b, level) \in HashIds
\* The digest of the command line is that of one block: the highest level has a
\* single block, the first on the hash device, or the device has a single block.
ASSUME RootAssumption ==
  \A bio \in Bios : \A b \in 0..bio[2] - 1 :
    IF V.levels = 0 THEN bio[1] + b = 0
    ELSE HashAtLevel(V, bio[1] + b, V.levels - 1) = V.hash_start
ASSUME BufferAssumption   ==
  NoBuffer \notin [content : AllContents \cup {"error"}, verified : BOOLEAN, holders : SUBSET Workers]

VARIABLES
  mode,            \* v->mode
  buf,             \* the buffers dm-bufio has, by block
  hash_failed, corrupted_errs,
  prefetches,      \* verity_prefetch_io work that is queued
  io,              \* struct dm_verity_io of each worker
  target,          \* "up", "closing", "drained", "gone": how far verity_dtr got
  tampered         \* ghost: something else than "good" was ever read

sharedVars == <<hash_failed, corrupted_errs>>
vars == <<mode, buf, sharedVars, prefetches, io, target, tampered>>

Buffer == [content : AllContents \cup {"error"}, verified : BOOLEAN, holders : SUBSET Workers]

Handling == {"failed", "count", "add", "mode"}            \* inside verity_handle_err
Busy     == {"next", "read", "flag", "match", "take", "data"} \cup Handling
Points   == {"idle", "device", "queued", "done", "halted"} \cup Busy

\* The blocks of a bio as the data device returned them.
Data == {<<>>} \cup UNION {[0..bio[2] - 1 -> AllContents] : bio \in Bios}

Io == [pc : Points, block : Nat, n_blocks : Nat, b : Nat, level : Nat, skip : BOOLEAN,
       want : Digests, data : Data, type : {"data", "metadata"},
       seen : Nat, res : {"none", "ok", "error"}]

Idle == [pc |-> "idle", block |-> 0, n_blocks |-> 0, b |-> 0, level |-> 0, skip |-> FALSE,
         want |-> <<0, 0, "good">>, data |-> <<>>, type |-> "data", seen |-> 0, res |-> "none"]

Init ==
  /\ mode \in Modes
  /\ buf = [h \in HashIds |-> NoBuffer]
  /\ hash_failed = 0 /\ corrupted_errs = 0
  /\ prefetches = {} /\ target = "up" /\ tampered = FALSE
  /\ io = [w \in Workers |-> Idle]

At(w, point) == io[w].pc = point
Go(w, point) == io' = [io EXCEPT ![w].pc = point]
\* verity_finish_io
Finish(w, result) ==
  io' = [io EXCEPT ![w] = [Idle EXCEPT !.pc = "done", !.res = result, !.n_blocks = IF result = "ok" THEN io[w].n_blocks ELSE 0,
                                       !.data = IF result = "ok" THEN io[w].data ELSE <<>>]]

\* The hash block worker w is at.
Hash(w) == HashAtLevel(V, io[w].block + io[w].b, io[w].level)

-----------------------------------------------------------------------------
(* The bio.                                                                *)

InFlight(w) == io[w].pc \notin {"idle", "done"}

\* verity_map; the prefetch is dropped when there is no memory for it.
Map(w, bio) ==
  /\ target = "up" /\ ~InFlight(w)
  /\ io' = [io EXCEPT ![w] = [Idle EXCEPT !.pc = "device", !.block = bio[1], !.n_blocks = bio[2]]]
  /\ \/ prefetches' = prefetches \cup {bio}
     \/ UNCHANGED prefetches
  /\ UNCHANGED <<mode, buf, sharedVars, target, tampered>>

\* verity_end_io: the data device answered.
EndIo(w) ==
  /\ At(w, "device")
  /\ \/ Finish(w, "error") /\ UNCHANGED tampered
     \/ \E data \in [0..io[w].n_blocks - 1 -> Contents] :
          /\ io' = [io EXCEPT ![w].pc = "queued", ![w].data = data]
          /\ tampered' = (tampered \/ \E b \in DOMAIN data : data[b] # "good")
  /\ UNCHANGED <<mode, buf, sharedVars, prefetches, target>>

-----------------------------------------------------------------------------
(* verity_verify_io, run by verity_work.                                   *)

Work(w) == At(w, "queued") /\ Go(w, "next") /\ UNCHANGED <<buf, sharedVars, tampered>>

\* fault: the digest to compare with is left from before
KeepWant(w) == io[w].want
\* io_want_digest at the start of a chain
RootDigest(w) ==
  Digest(V.levels, IF V.levels = 0 THEN 0 ELSE V.hash_start, "good")

\* fault: the chain is walked as the shortcut is
ChainSkips(w, r) ==
  [r EXCEPT !.want = RootDigest(w),
            !.pc = IF V.levels = 0 THEN "data" ELSE "read",
            !.level = IF V.levels = 0 THEN 0 ELSE V.levels - 1]
\* The whole chain, from the root down.
Chain(w, r) ==
  [r EXCEPT !.want = RootDigest(w), !.skip = FALSE,
            !.pc = IF V.levels = 0 THEN "data" ELSE "read",
            !.level = IF V.levels = 0 THEN 0 ELSE V.levels - 1]

\* The next block: first only the lowest level, if its buffer is verified.
NextBlock(w) ==
  /\ At(w, "next")
  /\ IF io[w].b = io[w].n_blocks THEN Finish(w, "ok")
     ELSE io' = [io EXCEPT ![w] = IF V.levels = 0 THEN Chain(w, @)
                                  ELSE [@ EXCEPT !.pc = "read", !.level = 0, !.skip = TRUE]]
  /\ UNCHANGED <<buf, sharedVars, tampered>>

\* dm_bufio_alloc_callback.  fault: the flag of the buffer reused stays
KeptFlag(h) == \E g \in HashIds : buf[g] # NoBuffer /\ buf[g].verified
FreshFlag(h) == FALSE
Fresh(h, content, holders) ==
  [content |-> content, verified |-> FreshFlag(h), holders |-> holders]

\* dm_bufio_read: the buffer, or an error, also of a prefetch that failed.
ReadHash(w) ==
  LET h == Hash(w)
  IN /\ At(w, "read")
     /\ \/ /\ buf[h] = NoBuffer
           /\ \/ \E content \in Contents :
                   /\ buf' = [buf EXCEPT ![h] = Fresh(h, content, {w})]
                   /\ tampered' = (tampered \/ content # "good")
                   /\ Go(w, "flag")
              \/ UNCHANGED <<buf, tampered>> /\ Finish(w, "error")
        \/ /\ buf[h] # NoBuffer /\ buf[h].content # "error"
           /\ buf' = [buf EXCEPT ![h].holders = @ \cup {w}]
           /\ Go(w, "flag") /\ UNCHANGED tampered
        \/ /\ buf[h] # NoBuffer /\ buf[h].content = "error"
           /\ buf' = [buf EXCEPT ![h] = NoBuffer]
           /\ Finish(w, "error") /\ UNCHANGED tampered
     /\ UNCHANGED sharedVars

\* fault: the buffer stays held when it was not looked into
KeepHeld(w, h) == UNCHANGED buf
SkipRelease(w, h) == buf' = [buf EXCEPT ![h].holders = @ \ {w}]
Release(w, h)     == buf' = [buf EXCEPT ![h].holders = @ \ {w}]

\* verity_verify_level, with the buffer held: the flag, then the hash.
TestFlag(w) ==
  LET h == Hash(w)
  IN /\ At(w, "flag")
     /\ \/ buf[h].verified /\ Go(w, "take") /\ UNCHANGED buf
        \/ /\ ~buf[h].verified /\ io[w].skip
           /\ io' = [io EXCEPT ![w] = Chain(w, @)]
           /\ SkipRelease(w, h)
        \/ /\ ~buf[h].verified /\ ~io[w].skip
           /\ \/ Go(w, "match") /\ UNCHANGED buf
              \/ Finish(w, "error") /\ Release(w, h)
     /\ UNCHANGED <<sharedVars, tampered>>

Failed(w, type) == io' = [io EXCEPT ![w].pc = "failed", ![w].type = type]

Matches(w, h) == Digest(io[w].level + 1, h, buf[h].content) = io[w].want

\* fault: the flag is set whatever the digests are
FlagAnyway(w, h) == buf' = [buf EXCEPT ![h].verified = TRUE]
MismatchFlag(w, h) == UNCHANGED buf

Compare(w) ==
  LET h == Hash(w)
  IN /\ At(w, "match")
     /\ \/ /\ Matches(w, h)
           /\ buf' = [buf EXCEPT ![h].verified = TRUE] /\ Go(w, "take")
        \/ ~Matches(w, h) /\ MismatchFlag(w, h) /\ Failed(w, "metadata")
     /\ UNCHANGED <<sharedVars, tampered>>

NextLevel(level) == IF level = 0 THEN 0 ELSE level - 1

\* What the buffer says the digest of the block below is, for this worker's data block.
Entry(w, content) ==
  LET block == io[w].block + io[w].b
  IN Digest(io[w].level, IF io[w].level = 0 THEN block ELSE HashAtLevel(V, block, io[w].level - 1),
            Below(content))

\* The digest of the block below is copied and the buffer released.
Take(w) ==
  LET h == Hash(w)
  IN /\ At(w, "take")
     /\ Release(w, h)
     /\ io' = [io EXCEPT ![w].want = Entry(w, buf[h].content),
                         ![w].pc = IF io[w].level = 0 THEN "data" ELSE "read",
                         ![w].level = NextLevel(@)]
     /\ UNCHANGED <<sharedVars, tampered>>

DataMatches(w) == Digest(0, io[w].block + io[w].b, io[w].data[io[w].b]) = io[w].want

\* The data of the block, which may also fail in the crypto layer.
TestData(w) ==
  /\ At(w, "data")
  /\ \/ Finish(w, "error")
     \/ DataMatches(w) /\ io' = [io EXCEPT ![w].pc = "next", ![w].b = @ + 1]
     \/ ~DataMatches(w) /\ Failed(w, "data")
  /\ UNCHANGED <<buf, sharedVars, tampered>>

-----------------------------------------------------------------------------
(* verity_handle_err: corrupted_errs++ is a load and a store.              *)

\* fault: the device goes bad only when the error is counted
FailedIfCounted == IF corrupted_errs >= MaxErrs - 1 THEN hash_failed ELSE 1
FailedAlways    == 1

\* fault: one more is let through
BeyondLimit  == corrupted_errs > MaxErrs
LimitReached == corrupted_errs >= MaxErrs

Fail(w) ==
  /\ At(w, "failed")
  /\ hash_failed' = FailedAlways
  /\ Go(w, IF LimitReached THEN "mode" ELSE "count")
  /\ UNCHANGED <<buf, corrupted_errs, tampered>>

Load(w) ==
  /\ At(w, "count")
  /\ io' = [io EXCEPT ![w].pc = "add", ![w].seen = corrupted_errs]
  /\ UNCHANGED <<buf, sharedVars, tampered>>

\* The new count, and what is logged and sent to user space.
Store(w) ==
  /\ At(w, "add")
  /\ corrupted_errs' = io[w].seen + 1
  /\ Go(w, "mode")
  /\ UNCHANGED <<buf, hash_failed, tampered>>

\* In logging mode the caller goes on as if the digests were equal, but leaves
\* the flag; kernel_restart does not come back; otherwise the bio fails.
Resolve(w) ==
  /\ At(w, "mode")
  /\ \/ /\ mode = "logging" /\ io[w].type = "metadata"
        /\ Go(w, "take") /\ UNCHANGED buf
     \/ /\ mode = "logging" /\ io[w].type = "data"
        /\ io' = [io EXCEPT ![w].pc = "next", ![w].b = @ + 1] /\ UNCHANGED buf
     \/ mode = "restart" /\ Go(w, "halted") /\ UNCHANGED buf
     \/ mode = "eio" /\ io[w].type = "metadata" /\ Finish(w, "error") /\ Release(w, Hash(w))
     \/ mode = "eio" /\ io[w].type = "data" /\ Finish(w, "error") /\ UNCHANGED buf
  /\ UNCHANGED <<sharedVars, tampered>>

-----------------------------------------------------------------------------
(* Around the workers.                                                     *)

\* verity_prefetch_io: any of the missing blocks in the ranges may come in, or
\* fail and keep their error; dm_bufio_prefetch waits for nothing.
Prefetch(bio, S) ==
  /\ bio \in prefetches
  /\ prefetches' = prefetches \ {bio}
  /\ \A h \in S : buf[h] = NoBuffer
  /\ \E got \in [S -> Contents \cup {"error"}] :
       /\ buf' = [h \in HashIds |-> IF h \in S THEN Fresh(h, got[h], {}) ELSE buf[h]]
       /\ tampered' = (tampered \/ \E h \in S : got[h] \notin {"good", "error"})
  /\ UNCHANGED <<mode, sharedVars, io, target>>

\* dm-bufio drops a buffer that nobody holds, for whatever reason.
Evict(h) ==
  /\ buf[h] # NoBuffer /\ buf[h].holders = {}
  /\ buf' = [buf EXCEPT ![h] = NoBuffer]
  /\ UNCHANGED <<mode, sharedVars, prefetches, io, target, tampered>>

\* The device mapper calls verity_dtr when no bio is in flight.
Dtr ==
  /\ target = "up" /\ \A w \in Workers : ~InFlight(w)
  /\ target' = "closing"
  /\ UNCHANGED <<mode, buf, sharedVars, prefetches, io, tampered>>

\* fault: the workqueue is destroyed without a look at what is queued
DrainedAnyhow == TRUE
Drained       == prefetches = {}

DestroyWorkqueue ==
  /\ target = "closing" /\ Drained
  /\ target' = "drained"
  /\ UNCHANGED <<mode, buf, sharedVars, prefetches, io, tampered>>

DestroyBufio ==
  /\ target = "drained"
  /\ target' = "gone"
  /\ buf' = [h \in HashIds |-> IF buf[h] # NoBuffer /\ buf[h].holders # {} THEN buf[h] ELSE NoBuffer]
  /\ UNCHANGED <<mode, sharedVars, prefetches, io, tampered>>

-----------------------------------------------------------------------------
Step(w) ==
  /\ \/ Work(w) \/ NextBlock(w) \/ ReadHash(w) \/ TestFlag(w) \/ Compare(w)
     \/ Take(w) \/ TestData(w) \/ Fail(w) \/ Load(w) \/ Store(w) \/ Resolve(w)
  /\ UNCHANGED <<mode, prefetches, target>>

Next ==
  \/ \E w \in Workers : Step(w) \/ EndIo(w) \/ \E bio \in Bios : Map(w, bio)
  \/ \E bio \in prefetches, S \in SUBSET Fillers : Prefetch(bio, S)
  \/ \E h \in HashIds : Evict(h)
  \/ Dtr \/ DestroyWorkqueue \/ DestroyBufio

Spec == Init /\ [][Next]_vars

-----------------------------------------------------------------------------
(* Correctness.                                                            *)

TypeOK ==
  /\ mode \in Modes
  /\ buf \in [HashIds -> Buffer \cup {NoBuffer}]
  /\ hash_failed \in {0, 1} /\ corrupted_errs \in Nat
  /\ prefetches \subseteq Bios
  /\ io \in [Workers -> Io]
  /\ target \in {"up", "closing", "drained", "gone"} /\ tampered \in BOOLEAN

\* Where a worker is on its way through the bio and down the tree.
Verifying  == {"read", "flag", "match", "take", "data"} \cup Handling
OnBlock(w) ==
  \/ io[w].pc \in {"read", "flag", "match", "take"}
  \/ io[w].pc \in Handling \cup {"halted"} /\ io[w].type = "metadata"
Underway ==
  \A w \in Workers :
    /\ InFlight(w) => <<io[w].block, io[w].n_blocks>> \in Bios
    /\ io[w].pc \in {"queued"} \cup Busy \/ io[w].res = "ok" =>
         io[w].data \in [0..io[w].n_blocks - 1 -> AllContents]
    /\ io[w].pc \in {"device", "queued"} => io[w].b = 0
    /\ io[w].b <= io[w].n_blocks
    /\ io[w].pc \in Verifying \cup {"halted"} => io[w].b < io[w].n_blocks
    /\ OnBlock(w) => io[w].level < V.levels
    /\ io[w].skip => io[w].level = 0
    /\ At(w, "match") => ~io[w].skip
    /\ io[w].res = "ok" => At(w, "done")

\* A dm_buffer is held by the workers that are between dm_bufio_read and
\* dm_bufio_release, on each of the paths out of verity_verify_level, and what
\* is held was read without an error.
Holding(w) == OnBlock(w) /\ ~At(w, "read")
HoldsMatch ==
  /\ \A h \in HashIds, w \in Workers :
       Holding(w) /\ Hash(w) = h <=> buf[h] # NoBuffer /\ w \in buf[h].holders
  /\ \A w \in Workers : Holding(w) => buf[Hash(w)].content # "error"

\* As long as mismatches are not ignored, or none was met.
Trusted == mode # "logging" \/ hash_failed = 0

\* The digest a worker compares with is that of the block it is at, not one left
\* over from the shortcut or from another level.
WantsRight ==
  \A w \in Workers :
    /\ io[w].pc \in {"read", "flag", "match"} /\ ~io[w].skip =>
         \E content \in AllContents :
           /\ io[w].want = Digest(io[w].level + 1, Hash(w), content)
           /\ Trusted => content = "good"
    /\ At(w, "data") =>
         \E content \in AllContents :
           /\ io[w].want = Digest(0, io[w].block + io[w].b, content)
           /\ Trusted => content = "good"

\* A buffer whose hash_verified is set belongs to the tree of the root digest,
\* although any number of workers test and set the flag without a lock while
\* the buffer is evicted, read again and prefetched; and digests are taken
\* from such buffers only.
VerifiedGood ==
  Trusted =>
    /\ \A h \in HashIds : buf[h] # NoBuffer /\ buf[h].verified => buf[h].content = "good"
    /\ \A w \in Workers : At(w, "take") => buf[Hash(w)].verified

\* What worker w let through so far, and what a bio delivered without an error.
Passed(w)    == {io[w].data[b] : b \in 0..io[w].b - 1}
Delivered(w) == {io[w].data[b] : b \in 0..io[w].n_blocks - 1}

\* A bio succeeds only with blocks that the root digest commits to, unless
\* mismatches are ignored and one was met.
DeliveredGood ==
  Trusted =>
    \A w \in Workers :
      /\ io[w].pc \in Busy => Passed(w) \subseteq {"good"}
      /\ io[w].res = "ok"  => Delivered(w) \subseteq {"good"}

\* No bio ends well with content the root digest does not vouch for, unless the
\* target only logs: verity_verify_level holds every hash block it takes a
\* digest from, and hash_verified is only ever on a block that matches the
\* digest above it.
OnlyVerified == Underway /\ HoldsMatch /\ WantsRight /\ VerifiedGood /\ DeliveredGood

\* In logging mode a bio may succeed with other blocks, but then the status of the
\* device says so ("Corruption should be visible in device status in all modes").
CorruptionVisible ==
  \A w \in Workers :
    /\ io[w].res = "ok" /\ ~(Delivered(w) \subseteq {"good"}) => hash_failed = 1
    /\ io[w].pc \in {"count", "add", "mode"} => hash_failed = 1

\* The status is not changed by anything but corruption: no mixture of chains,
\* shortcuts and shared flags makes a block of a sound device fail.
NoFalseAlarm ==
  ~tampered =>
    /\ hash_failed = 0
    /\ \A h \in HashIds : buf[h] # NoBuffer => buf[h].content \in {"good", "error"}
    /\ \A w \in Workers :
         /\ io[w].pc \notin Handling
         /\ io[w].pc \in {"queued"} \cup Busy => \A b \in 0..io[w].n_blocks - 1 : io[w].data[b] = "good"

\* The test of corrupted_errs and its increment are apart. Of two workers, one
\* may have passed the test when the other reaches the limit, and they pass it by
\* one: an old count that is stored late lets nobody in again while the other
\* holds a count that reached the limit. (Among three it does, again and again,
\* and the count may go on to a multiple of the limit.)
TwoWorkers == \A a, b, c \in Workers : a = b \/ b = c \/ a = c
ErrsBounded ==
  TwoWorkers =>
    /\ corrupted_errs <= MaxErrs + 1
    /\ \A a \in Workers :
         /\ At(a, "count") => corrupted_errs <= MaxErrs
         /\ At(a, "add")   => io[a].seen <= MaxErrs /\ (corrupted_errs < MaxErrs => io[a].seen < MaxErrs)
    /\ \A a, b \in Workers :
         a # b =>
           /\ At(a, "count") /\ At(b, "count") => corrupted_errs < MaxErrs
           /\ At(a, "count") /\ At(b, "add") => io[b].seen < MaxErrs
           /\ At(a, "count") /\ At(b, "add") /\ corrupted_errs >= MaxErrs => io[b].seen >= MaxErrs - 1
           /\ At(a, "add") /\ At(b, "add") /\ io[a].seen >= MaxErrs => io[b].seen >= MaxErrs - 1

\* What verity_handle_err says is so: content that was let through although it
\* is wrong has set hash_failed, hash_failed is only set when something was
\* tampered with, and two workers take corrupted_errs beyond DM_VERITY_MAX_CORRUPTED_ERRS
\* by no more than one.
Reported == CorruptionVisible /\ NoFalseAlarm /\ ErrsBounded

\* No bio is under way when verity_dtr starts; the last prefetch has run when the
\* workqueue is gone; and once dm-bufio's client is destroyed no buffer is left,
\* which needs that no path has kept one.
NothingAfterDestroy ==
  /\ target # "up" => \A w \in Workers : ~InFlight(w)
  /\ target \in {"drained", "gone"} => prefetches = {}
  /\ target = "gone" => \A h \in HashIds : buf[h] = NoBuffer

\* verity_dtr destroys the cache after the last work that uses it, whatever
\* happened before; fields have their types.
Released == TypeOK /\ NothingAfterDestroy
=============================================================================

--------------------------- MODULE DmVerity_proofs ---------------------------
(***************************************************************************)
(* The verification of dm-verity for any number of workers, any tree that  *)
(* verity_ctr accepts, any bios, modes and limit of errors: who holds a    *)
(* buffer is who is at its block, the digest a worker compares with is     *)
(* that of the block it is at, a flag is only on a buffer of the tree, and *)
(* so nothing else is delivered, what is let through is told, and nothing  *)
(* is left when the target is gone.  First what a step of a worker does,   *)
(* then one lemma per part of the invariant, then the other steps.         *)
(*                                                                         *)
(* At the end the targets, for any table: what verity_ctr computes, by     *)
(* induction over levels and bits (of the numbers for which something      *)
(* fails there would be a least); what each of its checks establishes; and *)
(* that a target which is up has its tree, and nothing leaks.              *)
(***************************************************************************)
EXTENDS Verity, FiniteSetTheorems, WellFoundedInduction, TLAPS

\* The blocks of the hash device have numbers.
LEMMA HashIdsNat == HashIds \subseteq Nat
  BY TargetAssumption DEF HashIds

\* A worker that is at a block of its bio and at a level of the tree is at a block
\* of the hash device.
LEMMA HashIsBlock ==
  ASSUME NEW block, NEW n, <<block, n>> \in Bios, NEW b \in Nat, b < n,
         NEW level \in Nat, level < V.levels
  PROVE  HashAtLevel(V, block + b, level) \in HashIds
<1>1. n \in Nat
  BY BiosAssumption
<1>2. b \in 0..n - 1 /\ level \in 0..V.levels - 1
  BY <1>1, TargetAssumption
<1>3. HashAtLevel(V, <<block, n>>[1] + b, level) \in HashIds
  BY <1>2, PathAssumption
<1> QED
  BY <1>3

\* What a bio's data is when the device answered.
LEMMA DataOfBio ==
  ASSUME NEW block, NEW n, <<block, n>> \in Bios
  PROVE  [0..n - 1 -> AllContents] \subseteq Data
<1>1. [0..<<block, n>>[2] - 1 -> AllContents] \subseteq Data
  BY DEF Data
<1> QED
  BY <1>1

\* Fields have their types at first.
LEMMA InitType == Init => TypeOK
<1> SUFFICES ASSUME Init PROVE TypeOK
  OBVIOUS
<1>1. Idle \in Io
  BY DEF Idle, Io, Points, Digests, AllContents, Data
<1> QED
  BY <1>1 DEF Init, TypeOK, Buffer

\* A buffer whose holders or flag are changed is a buffer, with the rest of it.
LEMMA BufferWith ==
  ASSUME NEW b \in Buffer
  PROVE  /\ b # NoBuffer
         /\ \A S \in SUBSET Workers :
              /\ [b EXCEPT !.holders = S] \in Buffer
              /\ [b EXCEPT !.holders = S].holders = S
              /\ [b EXCEPT !.holders = S].content = b.content
              /\ [b EXCEPT !.holders = S].verified = b.verified
         /\ [b EXCEPT !.verified = TRUE] \in Buffer
         /\ [b EXCEPT !.verified = TRUE].holders = b.holders
         /\ [b EXCEPT !.verified = TRUE].content = b.content
         /\ [b EXCEPT !.verified = TRUE].verified = TRUE
<1>1. b # NoBuffer
  BY BufferAssumption DEF Buffer
<1> QED
  BY <1>1 DEF Buffer

\* A worker on a block of the hash device has its number, and if it holds the
\* buffer it is among its holders.
LEMMA OnBlockHash ==
  ASSUME TypeOK, Underway, HoldsMatch, NEW w \in Workers, OnBlock(w)
  PROVE  /\ Hash(w) \in HashIds
         /\ Holding(w) => /\ buf[Hash(w)] \in Buffer /\ buf[Hash(w)] # NoBuffer
                          /\ w \in buf[Hash(w)].holders
                          /\ buf[Hash(w)].content \in AllContents
<1>0. io[w] \in Io /\ buf \in [HashIds -> Buffer \cup {NoBuffer}]
  BY DEF TypeOK
<1>1. Hash(w) \in HashIds
  <2>1. InFlight(w) /\ io[w].b < io[w].n_blocks /\ io[w].level < V.levels
    BY DEF Underway, OnBlock, InFlight, Verifying, Handling
  <2>2. <<io[w].block, io[w].n_blocks>> \in Bios
    BY <2>1 DEF Underway
  <2>3. io[w].b \in Nat /\ io[w].level \in Nat
    BY <1>0 DEF Io
  <2> QED
    BY <2>1, <2>2, <2>3, HashIsBlock DEF Hash
<1>2. ASSUME Holding(w)
      PROVE  buf[Hash(w)] # NoBuffer /\ w \in buf[Hash(w)].holders /\ buf[Hash(w)].content # "error"
  BY <1>1, <1>2 DEF HoldsMatch
<1>3. ASSUME Holding(w)
      PROVE  buf[Hash(w)] \in Buffer /\ buf[Hash(w)].content \in AllContents
  <2>1. buf[Hash(w)] \in Buffer
    BY <1>0, <1>1, <1>2, <1>3
  <2> QED
    BY <1>2, <1>3, <2>1 DEF Buffer
<1> QED
  BY <1>1, <1>2, <1>3

\* The digest of the command line is a digest.
LEMMA RootIsDigest == \A w : RootDigest(w) \in Digests /\ RootDigest(w)[3] = "good"
  BY TargetAssumption DEF RootDigest, Digest, Digests, AllContents

\* A bio that is finished is one.
LEMMA FinishType ==
  ASSUME NEW w \in Workers, io \in [Workers -> Io], NEW result \in {"ok", "error"}, Finish(w, result)
  PROVE  /\ io' \in [Workers -> Io]
         /\ \A v \in Workers : v # w => io'[v] = io[v]
         /\ io'[w].pc = "done" /\ io'[w].res = result
         /\ result = "ok" => io'[w].data = io[w].data /\ io'[w].n_blocks = io[w].n_blocks
         /\ io'[w].skip = FALSE /\ io'[w].b = 0
<1> DEFINE q == [Idle EXCEPT !.pc = "done", !.res = result, !.n_blocks = IF result = "ok" THEN io[w].n_blocks ELSE 0,
                             !.data = IF result = "ok" THEN io[w].data ELSE <<>>]
<1>1. q \in Io
  BY DEF Io, Idle, Points, Digests, AllContents, Data
<1>2. q.pc = "done" /\ q.res = result /\ q.skip = FALSE /\ q.b = 0
  BY DEF Idle
<1>3. result = "ok" => q.data = io[w].data /\ q.n_blocks = io[w].n_blocks
  BY DEF Idle
<1>4. io' = [io EXCEPT ![w] = q]
  BY DEF Finish
<1> HIDE DEF q
<1> QED
  BY <1>1, <1>2, <1>3, <1>4

-----------------------------------------------------------------------------
(* What the steps do to the bio of a worker.                               *)

\* The bio is what it was, and the worker is where it was in it.
SameBio(r, q)   == q.block = r.block /\ q.n_blocks = r.n_blocks /\ q.data = r.data /\ q.res = r.res
SamePlace(r, q) == /\ q.b = r.b /\ q.level = r.level /\ q.skip = r.skip /\ q.want = r.want
                   /\ q.type = r.type /\ q.seen = r.seen
OnlyBio(w) == io' \in [Workers -> Io] /\ \A v \in Workers : v # w => io'[v] = io[v]

\* Go moves the worker and nothing else.
LEMMA GoEffect ==
  ASSUME NEW w \in Workers, io \in [Workers -> Io], NEW p \in Points, Go(w, p)
  PROVE  OnlyBio(w) /\ SameBio(io[w], io'[w]) /\ SamePlace(io[w], io'[w]) /\ io'[w].pc = p
<1> DEFINE q == [io[w] EXCEPT !.pc = p]
<1>1. q \in Io /\ q.pc = p /\ SameBio(io[w], q) /\ SamePlace(io[w], q)
  BY DEF Io, SameBio, SamePlace
<1>2. io' = [io EXCEPT ![w] = q]
  BY DEF Go
<1> HIDE DEF q
<1> QED
  BY <1>1, <1>2 DEF OnlyBio

\* The chain starts at the root and keeps the bio and the block.
LEMMA ChainEffect ==
  ASSUME NEW w \in Workers, io \in [Workers -> Io], io' = [io EXCEPT ![w] = Chain(w, io[w])]
  PROVE  /\ OnlyBio(w) /\ SameBio(io[w], io'[w]) /\ io'[w].b = io[w].b
         /\ io'[w].want = RootDigest(w) /\ io'[w].skip = FALSE
         /\ V.levels = 0 => io'[w].pc = "data" /\ io'[w].level = 0
         /\ V.levels # 0 => io'[w].pc = "read" /\ io'[w].level = V.levels - 1
<1> DEFINE p == IF V.levels = 0 THEN "data" ELSE "read"
           l == IF V.levels = 0 THEN 0 ELSE V.levels - 1
           d == RootDigest(w)
           q == [io[w] EXCEPT !.want = d, !.skip = FALSE, !.pc = p, !.level = l]
<1>1. p \in Points /\ l \in Nat /\ d \in Digests
  BY TargetAssumption, RootIsDigest DEF Points, Busy
<1>2. io' = [io EXCEPT ![w] = q]
  BY DEF Chain
<1>3. /\ V.levels = 0 => p = "data" /\ l = 0
      /\ V.levels # 0 => p = "read" /\ l = V.levels - 1
  OBVIOUS
<1>4. d = RootDigest(w)
  OBVIOUS
<1> HIDE DEF p, l, d
<1>5. q \in Io /\ SameBio(io[w], q) /\ q.b = io[w].b /\ q.want = d /\ q.skip = FALSE /\ q.pc = p /\ q.level = l
  BY <1>1 DEF Io, SameBio
<1> HIDE DEF q
<1> QED
  BY <1>2, <1>3, <1>4, <1>5 DEF OnlyBio

\* The next block: the bio ends, or the worker is at the block, with the shortcut
\* when there is a tree.
LEMMA NextBlockEffect ==
  ASSUME NEW w \in Workers, io \in [Workers -> Io], NextBlock(w)
  PROVE  \/ io[w].b = io[w].n_blocks /\ Finish(w, "ok")
         \/ /\ io[w].b # io[w].n_blocks /\ V.levels = 0
            /\ io' = [io EXCEPT ![w] = Chain(w, io[w])]
         \/ /\ io[w].b # io[w].n_blocks /\ V.levels # 0
            /\ OnlyBio(w) /\ SameBio(io[w], io'[w]) /\ io'[w].b = io[w].b
            /\ io'[w].pc = "read" /\ io'[w].level = 0 /\ io'[w].skip = TRUE
<1> DEFINE q == [io[w] EXCEPT !.pc = "read", !.level = 0, !.skip = TRUE]
<1>1. /\ q \in Io /\ SameBio(io[w], q) /\ q.b = io[w].b
      /\ q.pc = "read" /\ q.level = 0 /\ q.skip = TRUE
  BY DEF Io, SameBio, Points, Busy
<1>2. io[w].b # io[w].n_blocks /\ V.levels # 0 => io' = [io EXCEPT ![w] = q]
  BY DEF NextBlock
<1> HIDE DEF q
<1> QED
  BY <1>1, <1>2 DEF OnlyBio, NextBlock

\* What is done when digests differ keeps the place.
LEMMA FailedEffect ==
  ASSUME NEW w \in Workers, io \in [Workers -> Io], NEW type \in {"data", "metadata"}, Failed(w, type)
  PROVE  /\ OnlyBio(w) /\ SameBio(io[w], io'[w]) /\ io'[w].pc = "failed" /\ io'[w].type = type
         /\ io'[w].b = io[w].b /\ io'[w].level = io[w].level /\ io'[w].skip = io[w].skip
<1> DEFINE q == [io[w] EXCEPT !.pc = "failed", !.type = type]
<1>1. /\ q \in Io /\ SameBio(io[w], q) /\ q.pc = "failed" /\ q.type = type
      /\ q.b = io[w].b /\ q.level = io[w].level /\ q.skip = io[w].skip
  BY DEF Io, SameBio, Points, Busy, Handling
<1>2. io' = [io EXCEPT ![w] = q]
  BY DEF Failed
<1> HIDE DEF q
<1> QED
  BY <1>1, <1>2 DEF OnlyBio

\* The next block is next.
LEMMA AdvanceEffect ==
  ASSUME NEW w \in Workers, io \in [Workers -> Io],
         io' = [io EXCEPT ![w].pc = "next", ![w].b = io[w].b + 1]
  PROVE  /\ OnlyBio(w) /\ SameBio(io[w], io'[w]) /\ io'[w].pc = "next" /\ io'[w].b = io[w].b + 1
         /\ io'[w].level = io[w].level /\ io'[w].skip = io[w].skip
<1> DEFINE q == [io[w] EXCEPT !.pc = "next", !.b = io[w].b + 1]
<1>1. /\ q \in Io /\ SameBio(io[w], q) /\ q.pc = "next" /\ q.b = io[w].b + 1
      /\ q.level = io[w].level /\ q.skip = io[w].skip
  BY DEF Io, SameBio, Points, Busy
<1>2. io' = [io EXCEPT ![w] = q]
  OBVIOUS
<1> HIDE DEF q
<1> QED
  BY <1>1, <1>2 DEF OnlyBio

\* The count is read.
LEMMA LoadEffect ==
  ASSUME NEW w \in Workers, io \in [Workers -> Io], corrupted_errs \in Nat, Load(w)
  PROVE  /\ OnlyBio(w) /\ SameBio(io[w], io'[w]) /\ io'[w].pc = "add" /\ io'[w].seen = corrupted_errs
         /\ io'[w].b = io[w].b /\ io'[w].level = io[w].level /\ io'[w].skip = io[w].skip
         /\ io'[w].type = io[w].type
<1> DEFINE q == [io[w] EXCEPT !.pc = "add", !.seen = corrupted_errs]
<1>1. /\ q \in Io /\ SameBio(io[w], q) /\ q.pc = "add" /\ q.seen = corrupted_errs
      /\ q.b = io[w].b /\ q.level = io[w].level /\ q.skip = io[w].skip /\ q.type = io[w].type
  BY DEF Io, SameBio, Points, Busy, Handling
<1>2. io' = [io EXCEPT ![w] = q]
  BY DEF Load
<1> HIDE DEF q
<1> QED
  BY <1>1, <1>2 DEF OnlyBio

\* The digest that is taken from a buffer is that of the block below it: of the
\* hash block one level down, or of the data block.
LEMMA TakeEffect ==
  ASSUME TypeOK, Underway, HoldsMatch, NEW w \in Workers, Take(w)
  PROVE  \E content \in AllContents :
         /\ buf[Hash(w)].content = "good" => content = "good"
         /\ OnlyBio(w) /\ SameBio(io[w], io'[w]) /\ io'[w].b = io[w].b /\ io'[w].skip = io[w].skip
         /\ io[w].level = 0 => /\ io'[w].pc = "data"
                               /\ io'[w].want = Digest(0, io'[w].block + io'[w].b, content)
         /\ io[w].level # 0 => /\ io'[w].pc = "read" /\ io'[w].level = io[w].level - 1
                               /\ io'[w].want = Digest(io'[w].level + 1, Hash(w)', content)
<1>1. OnBlock(w) /\ Holding(w) /\ io[w] \in Io /\ io \in [Workers -> Io]
  BY DEF Take, At, OnBlock, Holding, TypeOK
<1>2. buf[Hash(w)].content \in AllContents
  BY <1>1, OnBlockHash
<1> DEFINE content == Below(buf[Hash(w)].content)
           block   == io[w].block + io[w].b
           below   == IF io[w].level = 0 THEN block ELSE HashAtLevel(V, block, io[w].level - 1)
           level   == NextLevel(io[w].level)
           p       == IF io[w].level = 0 THEN "data" ELSE "read"
           d       == Digest(io[w].level, below, content)
           q       == [io[w] EXCEPT !.want = d, !.pc = p, !.level = level]
<1>3. content \in AllContents /\ (buf[Hash(w)].content = "good" => content = "good")
  BY <1>2 DEF Below, AllContents
<1>4. io[w].level \in Nat /\ level \in Nat /\ p \in Points /\ block \in Nat
      /\ (io[w].level = 0 => p = "data") /\ (io[w].level # 0 => p = "read" /\ level = io[w].level - 1)
  BY <1>1 DEF Io, NextLevel, Points, Busy
<1>5. io[w].level # 0 => below \in HashIds
  <2>1. InFlight(w) /\ io[w].b < io[w].n_blocks /\ io[w].level < V.levels
    BY <1>1 DEF Underway, OnBlock, InFlight, Verifying, Handling
  <2>2. <<io[w].block, io[w].n_blocks>> \in Bios
    BY <2>1 DEF Underway
  <2>3. io[w].b \in Nat /\ io[w].level \in Nat
    BY <1>1 DEF Io
  <2> QED
    BY <2>1, <2>2, <2>3, HashIsBlock, TargetAssumption
<1>6. below \in Nat
  BY <1>4, <1>5, HashIdsNat
<1>7. d \in Digests /\ d = Digest(io[w].level, below, content)
  BY <1>3, <1>4, <1>6 DEF Digest, Digests
<1>8. io' = [io EXCEPT ![w] = q]
  BY DEF Take, Entry
<1>9. io[w].level = 0 => below = block
  OBVIOUS
<1>10. io[w].level # 0 => below = HashAtLevel(V, block, level)
  BY <1>4
<1>11. content \in AllContents /\ block = io[w].block + io[w].b
  BY <1>3
<1> HIDE DEF d, below, level, p, content, block
<1>12. /\ q \in Io /\ SameBio(io[w], q) /\ q.b = io[w].b /\ q.skip = io[w].skip
       /\ q.want = d /\ q.pc = p /\ q.level = level
  BY <1>1, <1>4, <1>7 DEF Io, SameBio
<1> HIDE DEF q
<1>13. io'[w] = q /\ OnlyBio(w)
  BY <1>1, <1>8, <1>12 DEF OnlyBio
<1>14. Hash(w)' = HashAtLevel(V, q.block + q.b, q.level)
  BY <1>13 DEF Hash
<1>15. q.block + q.b = block
  BY <1>11, <1>12 DEF SameBio
<1>16. io[w].level # 0 => Hash(w)' = below /\ q.level + 1 = io[w].level
  BY <1>4, <1>10, <1>12, <1>14, <1>15
<1> QED
  BY <1>3, <1>4, <1>7, <1>9, <1>11, <1>12, <1>13, <1>15, <1>16

\* Underway, of the record of one worker.
UnderBio(r) ==
  LET onBlock == \/ r.pc \in {"read", "flag", "match", "take"}
                 \/ r.pc \in Handling \cup {"halted"} /\ r.type = "metadata"
  IN /\ r.pc \notin {"idle", "done"} => <<r.block, r.n_blocks>> \in Bios
     /\ r.pc \in {"queued"} \cup Busy \/ r.res = "ok" => r.data \in [0..r.n_blocks - 1 -> AllContents]
     /\ r.pc \in {"device", "queued"} => r.b = 0
     /\ r.b <= r.n_blocks
     /\ r.pc \in Verifying \cup {"halted"} => r.b < r.n_blocks
     /\ onBlock => r.level < V.levels
     /\ r.skip => r.level = 0
     /\ r.pc = "match" => ~r.skip
     /\ r.res = "ok" => r.pc = "done"

\* The two ways on that more than one step takes.
ChainStep(w)   == io' = [io EXCEPT ![w] = Chain(w, io[w])]
AdvanceStep(w) == io' = [io EXCEPT ![w].pc = "next", ![w].b = io[w].b + 1]

\* A step of a worker keeps its record well, and touches no other.
LEMMA StepBio ==
  ASSUME TypeOK, Underway, HoldsMatch, NEW w \in Workers, Step(w)
  PROVE  OnlyBio(w) /\ UnderBio(io'[w])
<1>0. /\ io \in [Workers -> Io] /\ io[w] \in Io /\ corrupted_errs \in Nat
      /\ io[w].pc \in Points /\ io[w].b \in Nat /\ io[w].n_blocks \in Nat /\ io[w].level \in Nat
      /\ io[w].skip \in BOOLEAN /\ io[w].type \in {"data", "metadata"} /\ io[w].res \in {"none", "ok", "error"}
  BY DEF TypeOK, Io
<1>1. UnderBio(io[w])
  BY DEF Underway, UnderBio, InFlight, OnBlock, At
<1>2. ASSUME NEW result \in {"ok", "error"}, Finish(w, result),
             result = "ok" => io[w].pc = "next" /\ io[w].b = io[w].n_blocks
      PROVE  OnlyBio(w) /\ UnderBio(io'[w])
  <2>1. /\ OnlyBio(w) /\ io'[w].pc = "done" /\ io'[w].res = result
        /\ result = "ok" => io'[w].data = io[w].data /\ io'[w].n_blocks = io[w].n_blocks
        /\ io'[w].skip = FALSE /\ io'[w].b = 0
    BY <1>0, <1>2, FinishType DEF OnlyBio
  <2>2. io'[w].n_blocks \in Nat
    BY <2>1 DEF OnlyBio, Io
  <2> QED
    BY <1>1, <1>2, <2>1, <2>2 DEF UnderBio, Busy, Verifying, Handling
<1>3. ASSUME io[w].pc \in {"next", "flag"}, io[w].b # io[w].n_blocks, ChainStep(w)
      PROVE  OnlyBio(w) /\ UnderBio(io'[w])
  <2>1. /\ OnlyBio(w) /\ SameBio(io[w], io'[w]) /\ io'[w].b = io[w].b /\ io'[w].skip = FALSE
        /\ V.levels = 0 => io'[w].pc = "data" /\ io'[w].level = 0
        /\ V.levels # 0 => io'[w].pc = "read" /\ io'[w].level = V.levels - 1
    BY <1>0, <1>3, ChainEffect DEF ChainStep
  <2> QED
    BY <1>0, <1>1, <1>3, <2>1, TargetAssumption DEF UnderBio, SameBio, Busy, Verifying, Handling
<1>4. CASE Work(w)
  BY <1>0, <1>1, <1>4, GoEffect DEF Work, At, Points, Busy, UnderBio, SameBio, SamePlace, Verifying, Handling
<1>5. CASE NextBlock(w)
  <2>1. io[w].pc = "next"
    BY <1>5 DEF NextBlock, At
  <2>2. CASE io[w].b = io[w].n_blocks /\ Finish(w, "ok")
    BY <1>2, <2>1, <2>2
  <2>3. CASE io[w].b # io[w].n_blocks /\ ChainStep(w)
    BY <1>3, <2>1, <2>3
  <2>4. CASE /\ io[w].b # io[w].n_blocks /\ V.levels # 0
             /\ OnlyBio(w) /\ SameBio(io[w], io'[w]) /\ io'[w].b = io[w].b
             /\ io'[w].pc = "read" /\ io'[w].level = 0 /\ io'[w].skip = TRUE
    BY <1>0, <1>1, <2>1, <2>4, TargetAssumption DEF UnderBio, SameBio, Busy, Verifying, Handling
  <2> QED
    BY <1>0, <1>5, <2>2, <2>3, <2>4, NextBlockEffect DEF ChainStep
<1>6. CASE ReadHash(w)
  <2>1. io[w].pc = "read" /\ (Go(w, "flag") \/ Finish(w, "error"))
    BY <1>6 DEF ReadHash, At
  <2>2. CASE Go(w, "flag")
    BY <1>0, <1>1, <2>1, <2>2, GoEffect DEF Points, Busy, UnderBio, SameBio, SamePlace, Verifying, Handling
  <2> QED
    BY <1>2, <2>1, <2>2
<1>7. CASE TestFlag(w)
  <2>1. io[w].pc = "flag"
    BY <1>7 DEF TestFlag, At
  <2>2. CASE Go(w, "take")
    BY <1>0, <1>1, <2>1, <2>2, GoEffect DEF Points, Busy, UnderBio, SameBio, SamePlace, Verifying, Handling
  <2>3. CASE io[w].skip /\ ChainStep(w)
    <3>1. io[w].b < io[w].n_blocks
      BY <1>1, <2>1 DEF UnderBio, Verifying
    <3>2. io[w].b # io[w].n_blocks /\ ChainStep(w)
      BY <1>0, <2>3, <3>1
    <3> QED
      BY <1>3, <2>1, <3>2
  <2>4. CASE ~io[w].skip /\ Go(w, "match")
    <3>1. OnlyBio(w) /\ SameBio(io[w], io'[w]) /\ SamePlace(io[w], io'[w]) /\ io'[w].pc = "match"
      BY <1>0, <2>4, GoEffect DEF Points, Busy
    <3>2. ~io'[w].skip
      BY <2>4, <3>1 DEF SamePlace
    <3> QED
      BY <1>0, <1>1, <2>1, <3>1, <3>2 DEF Busy, UnderBio, SameBio, SamePlace, Verifying, Handling
  <2>5. CASE Finish(w, "error")
    BY <1>2, <2>5
  <2> QED
    BY <1>7, <2>2, <2>3, <2>4, <2>5 DEF TestFlag, ChainStep
<1>8. CASE Compare(w)
  <2>1. io[w].pc = "match"
    BY <1>8 DEF Compare, At
  <2>2. CASE Go(w, "take")
    BY <1>0, <1>1, <2>1, <2>2, GoEffect DEF Points, Busy, UnderBio, SameBio, SamePlace, Verifying, Handling
  <2>3. CASE Failed(w, "metadata")
    BY <1>0, <1>1, <2>1, <2>3, FailedEffect DEF UnderBio, SameBio, Verifying, Handling, Busy
  <2> QED
    BY <1>8, <2>2, <2>3 DEF Compare
<1>9. CASE Take(w)
  <2>1. io[w].pc = "take"
    BY <1>9 DEF Take, At
  <2>2. /\ OnlyBio(w) /\ SameBio(io[w], io'[w]) /\ io'[w].b = io[w].b /\ io'[w].skip = io[w].skip
        /\ io[w].level = 0 => io'[w].pc = "data"
        /\ io[w].level # 0 => io'[w].pc = "read" /\ io'[w].level = io[w].level - 1
    BY <1>9, TakeEffect
  <2>3. io[w].level = 0 => io'[w].level = 0
    <3>1. io' = [io EXCEPT ![w] = [io[w] EXCEPT !.want = Entry(w, buf[Hash(w)].content),
                         !.pc = IF io[w].level = 0 THEN "data" ELSE "read",
                         !.level = NextLevel(io[w].level)]]
      BY <1>9 DEF Take
    <3>2. \A a, b, c : [io[w] EXCEPT !.want = a, !.pc = b, !.level = c].level = c
      BY <1>0 DEF Io
    <3> QED
      BY <1>0, <3>1, <3>2 DEF NextLevel
  <2> QED
    BY <1>0, <1>1, <2>1, <2>2, <2>3, TargetAssumption DEF UnderBio, SameBio, Verifying, Handling, Busy
<1>10. CASE TestData(w)
  <2>1. io[w].pc = "data"
    BY <1>10 DEF TestData, At
  <2>2. CASE AdvanceStep(w)
    <3>1. OnlyBio(w) /\ SameBio(io[w], io'[w]) /\ io'[w].pc = "next" /\ io'[w].b = io[w].b + 1
          /\ io'[w].level = io[w].level /\ io'[w].skip = io[w].skip
      BY <1>0, <2>2, AdvanceEffect DEF AdvanceStep
    <3>2. io[w].b + 1 <= io[w].n_blocks
      BY <1>0, <1>1, <2>1 DEF UnderBio, Verifying, Handling
    <3> QED
      BY <1>0, <1>1, <2>1, <3>1, <3>2 DEF UnderBio, SameBio, Verifying, Handling, Busy
  <2>3. CASE Failed(w, "data")
    BY <1>0, <1>1, <2>1, <2>3, FailedEffect DEF UnderBio, SameBio, Verifying, Handling, Busy
  <2>4. CASE Finish(w, "error")
    BY <1>2, <2>4
  <2> QED
    BY <1>10, <2>2, <2>3, <2>4 DEF TestData, AdvanceStep
<1>11. CASE Fail(w)
  <2>1. io[w].pc = "failed" /\ (Go(w, "mode") \/ Go(w, "count"))
    BY <1>11 DEF Fail, At
  <2> QED
    BY <1>0, <1>1, <2>1, GoEffect DEF Points, Busy, UnderBio, SameBio, SamePlace, Verifying, Handling
<1>12. CASE Load(w)
  BY <1>0, <1>1, <1>12, LoadEffect DEF Load, At, UnderBio, SameBio, Verifying, Handling, Busy
<1>13. CASE Store(w)
  BY <1>0, <1>1, <1>13, GoEffect DEF Store, At, Points, Busy, UnderBio, SameBio, SamePlace, Verifying, Handling
<1>14. CASE Resolve(w)
  <2>1. io[w].pc = "mode"
    BY <1>14 DEF Resolve, At
  <2>2. CASE io[w].type = "metadata" /\ Go(w, "take")
    BY <1>0, <1>1, <2>1, <2>2, GoEffect DEF Points, Busy, UnderBio, SameBio, SamePlace, Verifying, Handling
  <2>3. CASE AdvanceStep(w)
    <3>1. OnlyBio(w) /\ SameBio(io[w], io'[w]) /\ io'[w].pc = "next" /\ io'[w].b = io[w].b + 1
          /\ io'[w].level = io[w].level /\ io'[w].skip = io[w].skip
      BY <1>0, <2>3, AdvanceEffect DEF AdvanceStep
    <3>2. io[w].b + 1 <= io[w].n_blocks
      BY <1>0, <1>1, <2>1 DEF UnderBio, Verifying, Handling
    <3> QED
      BY <1>0, <1>1, <2>1, <3>1, <3>2 DEF UnderBio, SameBio, Verifying, Handling, Busy
  <2>4. CASE Go(w, "halted")
    BY <1>0, <1>1, <2>1, <2>4, GoEffect DEF Points, Busy, UnderBio, SameBio, SamePlace, Verifying, Handling
  <2>5. CASE Finish(w, "error")
    BY <1>2, <2>5
  <2> QED
    BY <1>14, <2>2, <2>3, <2>4, <2>5 DEF Resolve, AdvanceStep
<1> QED
  BY <1>4, <1>5, <1>6, <1>7, <1>8, <1>9, <1>10, <1>11, <1>12, <1>13, <1>14 DEF Step

-----------------------------------------------------------------------------
(* What they do to the buffers.                                            *)

OnlyBuf(h) ==
  /\ buf' \in [HashIds -> Buffer \cup {NoBuffer}]
  /\ \A g \in HashIds : g # h => buf'[g] = buf[g]
IsBuffer(b) == b \in Buffer /\ b # NoBuffer

\* A release takes the worker from the holders and leaves the rest.
LEMMA ReleaseEffect ==
  ASSUME TypeOK, NEW w \in Workers, NEW h \in HashIds, IsBuffer(buf[h]), Release(w, h) \/ SkipRelease(w, h)
  PROVE  /\ OnlyBuf(h) /\ IsBuffer(buf'[h])
         /\ buf'[h].holders = buf[h].holders \ {w}
         /\ buf'[h].content = buf[h].content /\ buf'[h].verified = buf[h].verified
<1> DEFINE S == buf[h].holders \ {w}
           b == [buf[h] EXCEPT !.holders = S]
<1>1. S \in SUBSET Workers
  BY DEF IsBuffer, Buffer
<1>2. IsBuffer(b) /\ b.holders = S /\ b.content = buf[h].content /\ b.verified = buf[h].verified
  BY <1>1, BufferWith DEF IsBuffer
<1>3. buf' = [buf EXCEPT ![h] = b] /\ buf \in [HashIds -> Buffer \cup {NoBuffer}]
  BY DEF Release, SkipRelease, TypeOK
<1> HIDE DEF b
<1> QED
  BY <1>2, <1>3 DEF OnlyBuf, IsBuffer

\* A buffer that matches is flagged.
LEMMA FlagEffect ==
  ASSUME TypeOK, NEW h \in HashIds, IsBuffer(buf[h]), buf' = [buf EXCEPT ![h].verified = TRUE]
  PROVE  /\ OnlyBuf(h) /\ IsBuffer(buf'[h]) /\ buf'[h].verified
         /\ buf'[h].holders = buf[h].holders /\ buf'[h].content = buf[h].content
<1> DEFINE b == [buf[h] EXCEPT !.verified = TRUE]
<1>1. IsBuffer(b) /\ b.holders = buf[h].holders /\ b.content = buf[h].content /\ b.verified = TRUE
  BY BufferWith DEF IsBuffer
<1>2. buf' = [buf EXCEPT ![h] = b] /\ buf \in [HashIds -> Buffer \cup {NoBuffer}]
  BY DEF TypeOK
<1> HIDE DEF b
<1> QED
  BY <1>1, <1>2 DEF OnlyBuf, IsBuffer

\* The outcomes of dm_bufio_read: a block is read in, a buffer is shared, nothing
\* could be read, or a prefetch had failed and its buffer is dropped.
ReadIn(w, h) ==
  /\ buf[h] = NoBuffer /\ OnlyBuf(h) /\ IsBuffer(buf'[h])
  /\ buf'[h].holders = {w} /\ buf'[h].verified = FALSE /\ buf'[h].content \in AllContents
  /\ tampered' = (tampered \/ buf'[h].content # "good")
SharedHeld(w, h) ==
  /\ IsBuffer(buf[h]) /\ OnlyBuf(h) /\ IsBuffer(buf'[h])
  /\ buf'[h].holders = buf[h].holders \cup {w} /\ buf'[h].verified = buf[h].verified
  /\ buf'[h].content = buf[h].content /\ buf[h].content \in AllContents /\ tampered' = tampered
Dropped(h) ==
  /\ IsBuffer(buf[h]) /\ buf[h].content = "error"
  /\ OnlyBuf(h) /\ buf'[h] = NoBuffer /\ tampered' = tampered

\* dm_bufio_read has one of these outcomes.
LEMMA ReadEffect ==
  ASSUME TypeOK, NEW w \in Workers, Hash(w) \in HashIds, ReadHash(w)
  PROVE  \/ Go(w, "flag") /\ (ReadIn(w, Hash(w)) \/ SharedHeld(w, Hash(w)))
         \/ Finish(w, "error") /\ (UNCHANGED <<buf, tampered>> \/ Dropped(Hash(w)))
<1> DEFINE h == Hash(w)
<1>0. buf \in [HashIds -> Buffer \cup {NoBuffer}] /\ h \in HashIds
  BY DEF TypeOK
<1> HIDE DEF h
<1>1. ASSUME buf[h] = NoBuffer, NEW content \in Contents, buf' = [buf EXCEPT ![h] = Fresh(h, content, {w})],
             tampered' = (tampered \/ content # "good")
      PROVE  ReadIn(w, h)
  <2>1. content \in AllContents /\ {w} \in SUBSET Workers
    BY ContentsAssumption
  <2> DEFINE b == Fresh(h, content, {w})
  <2>2. b \in Buffer /\ b.content = content /\ b.holders = {w} /\ b.verified = FALSE
    <3>1. content \in AllContents \cup {"error"}
      BY <2>1
    <3> QED
      BY <2>1, <3>1 DEF Fresh, FreshFlag, Buffer
  <2>3. buf'[h] = b /\ OnlyBuf(h)
    BY <1>0, <1>1, <2>2 DEF OnlyBuf
  <2>4. b # NoBuffer
    BY <2>2, BufferWith
  <2> HIDE DEF b
  <2> QED
    BY <1>1, <2>1, <2>2, <2>3, <2>4 DEF ReadIn, IsBuffer
<1>2. ASSUME buf[h] # NoBuffer, buf[h].content # "error", buf' = [buf EXCEPT ![h].holders = buf[h].holders \cup {w}],
             tampered' = tampered
      PROVE  SharedHeld(w, h)
  <2> DEFINE S == buf[h].holders \cup {w}
             b == [buf[h] EXCEPT !.holders = S]
  <2>1. buf[h] \in Buffer /\ S \in SUBSET Workers /\ buf[h].content \in AllContents
    BY <1>0, <1>2 DEF Buffer
  <2>2. /\ b \in Buffer /\ b # NoBuffer /\ b.content = buf[h].content /\ b.holders = S
        /\ b.verified = buf[h].verified
    BY <2>1, BufferWith
  <2>3. buf' = [buf EXCEPT ![h] = b]
    BY <1>2
  <2> HIDE DEF b
  <2>4. buf'[h] = b /\ OnlyBuf(h)
    BY <1>0, <2>2, <2>3 DEF OnlyBuf
  <2> QED
    BY <1>2, <2>1, <2>2, <2>4 DEF SharedHeld, IsBuffer
<1>3. ASSUME buf[h] # NoBuffer, buf[h].content = "error", buf' = [buf EXCEPT ![h] = NoBuffer],
             tampered' = tampered
      PROVE  Dropped(h)
  BY <1>0, <1>3 DEF Dropped, OnlyBuf, IsBuffer
<1>4. CASE buf[h] = NoBuffer
  BY <1>1, <1>4 DEF ReadHash, h
<1>5. CASE buf[h] # NoBuffer /\ buf[h].content # "error"
  BY <1>2, <1>5 DEF ReadHash, h
<1>6. CASE buf[h] # NoBuffer /\ buf[h].content = "error"
  BY <1>3, <1>6 DEF ReadHash, h
<1> QED
  BY <1>4, <1>5, <1>6 DEF h

\* The steps of a worker keep the types.
LEMMA WorkerType ==
  ASSUME TypeOK, Underway, HoldsMatch, NEW w \in Workers, Step(w)
  PROVE  TypeOK'
<1>0. /\ io' \in [Workers -> Io] /\ io[w].seen \in Nat
      /\ mode' \in Modes /\ prefetches' \subseteq Bios /\ target' \in {"up", "closing", "drained", "gone"}
  BY StepBio DEF OnlyBio, TypeOK, Io, Step
<1>1. hash_failed' \in {0, 1} /\ corrupted_errs' \in Nat
  BY <1>0 DEF TypeOK, Step, Work, NextBlock, ReadHash, TestFlag, Compare, Take, TestData, Fail, Load, Store, Resolve,
              sharedVars, FailedAlways
<1>2. tampered' \in BOOLEAN /\ buf' \in [HashIds -> Buffer \cup {NoBuffer}]
  <2>0. tampered \in BOOLEAN /\ buf \in [HashIds -> Buffer \cup {NoBuffer}]
    BY DEF TypeOK
  <2>1. OnBlock(w) => Hash(w) \in HashIds /\ (Holding(w) => IsBuffer(buf[Hash(w)]))
    BY OnBlockHash DEF IsBuffer
  <2>2. CASE UNCHANGED <<buf, tampered>>
    BY <2>0, <2>2
  <2>3. CASE ReadHash(w)
    <3>1. Hash(w) \in HashIds
      BY <2>1, <2>3 DEF ReadHash, At, OnBlock
    <3>2. OnlyBuf(Hash(w)) \/ UNCHANGED buf
      BY <2>3, <3>1, ReadEffect DEF ReadIn, SharedHeld, Dropped
    <3>3. tampered' \in BOOLEAN
      BY <2>0, <2>3, <3>1, ReadEffect DEF ReadIn, SharedHeld, Dropped
    <3> QED
      BY <2>0, <3>2, <3>3 DEF OnlyBuf
  <2>4. CASE tampered' = tampered /\ Holding(w) /\ (Release(w, Hash(w)) \/ SkipRelease(w, Hash(w)))
    BY <2>0, <2>1, <2>4, ReleaseEffect DEF OnlyBuf, Holding
  <2>5. CASE tampered' = tampered /\ Holding(w) /\ buf' = [buf EXCEPT ![Hash(w)].verified = TRUE]
    BY <2>0, <2>1, <2>5, FlagEffect DEF OnlyBuf, Holding
  <2>6. \/ UNCHANGED <<buf, tampered>> \/ ReadHash(w)
        \/ tampered' = tampered /\ Holding(w) /\ (Release(w, Hash(w)) \/ SkipRelease(w, Hash(w)))
        \/ tampered' = tampered /\ Holding(w) /\ buf' = [buf EXCEPT ![Hash(w)].verified = TRUE]
    BY DEF Step, Work, NextBlock, TestFlag, Compare, Take, TestData, Fail, Load, Store, Resolve,
           MismatchFlag, Holding, OnBlock, At, Handling
  <2> QED
    BY <2>2, <2>3, <2>4, <2>5, <2>6
<1> QED
  BY <1>0, <1>1, <1>2 DEF TypeOK

-----------------------------------------------------------------------------
(* The buffers and their holders.                                          *)

\* Holding and Hash, of the record of one worker.
HoldBio(r) == \/ r.pc \in {"flag", "match", "take"}
              \/ r.pc \in Handling \cup {"halted"} /\ r.type = "metadata"
HashBio(r) == HashAtLevel(V, r.block + r.b, r.level)

\* What a step of a worker does to the buffer it is at: nothing, giving it back,
\* getting it or failing to, and flagging it.
Stays(w)   == /\ UNCHANGED <<buf, tampered>>
              /\ HoldBio(io'[w]) <=> HoldBio(io[w])
              /\ HoldBio(io'[w]) => HashBio(io'[w]) = HashBio(io[w])
GivesUp(w) == LET h == HashBio(io[w])
              IN /\ HoldBio(io[w]) /\ ~HoldBio(io'[w]) /\ tampered' = tampered
                 /\ OnlyBuf(h) /\ IsBuffer(buf[h]) /\ IsBuffer(buf'[h])
                 /\ buf'[h].holders = buf[h].holders \ {w}
                 /\ buf'[h].content = buf[h].content /\ buf'[h].verified = buf[h].verified
Gets(w)    == /\ ~HoldBio(io[w]) /\ io[w].pc = "read" /\ io'[w].pc = "flag"
              /\ HoldBio(io'[w]) /\ HashBio(io'[w]) = HashBio(io[w])
              /\ ReadIn(w, HashBio(io[w])) \/ SharedHeld(w, HashBio(io[w]))
Misses(w)  == /\ ~HoldBio(io[w]) /\ ~HoldBio(io'[w])
              /\ UNCHANGED <<buf, tampered>> \/ Dropped(HashBio(io[w]))
Flags(w)   == LET h == HashBio(io[w])
              IN /\ HoldBio(io[w]) /\ HoldBio(io'[w]) /\ HashBio(io'[w]) = h /\ tampered' = tampered
                 /\ io[w].pc = "match" /\ Matches(w, h)
                 /\ OnlyBuf(h) /\ IsBuffer(buf[h]) /\ IsBuffer(buf'[h]) /\ buf'[h].verified
                 /\ buf'[h].holders = buf[h].holders /\ buf'[h].content = buf[h].content

\* A step of a worker does one of these.
LEMMA StepHold ==
  ASSUME TypeOK, Underway, HoldsMatch, NEW w \in Workers, Step(w)
  PROVE  Stays(w) \/ GivesUp(w) \/ Gets(w) \/ Misses(w) \/ Flags(w)
<1>0. /\ io \in [Workers -> Io] /\ io[w] \in Io /\ corrupted_errs \in Nat
      /\ io[w].pc \in Points /\ io[w].type \in {"data", "metadata"}
  BY DEF TypeOK, Io
<1>1. /\ OnBlock(w) => Hash(w) \in HashIds
      /\ HoldBio(io[w]) => OnBlock(w) /\ IsBuffer(buf[Hash(w)])
      /\ Hash(w) = HashBio(io[w])
      /\ HoldBio(io[w]) => Holding(w)
  BY OnBlockHash DEF IsBuffer, HoldBio, Holding, OnBlock, At, Hash, HashBio, Handling
<1>2. ASSUME NEW p \in Points, Go(w, p)
      PROVE  io'[w].pc = p /\ HashBio(io'[w]) = HashBio(io[w]) /\ io'[w].type = io[w].type
  BY <1>0, <1>2, GoEffect DEF HashBio, SameBio, SamePlace
<1>3. ASSUME NEW result \in {"ok", "error"}, Finish(w, result)
      PROVE  io'[w].pc = "done" /\ ~HoldBio(io'[w])
  BY <1>0, <1>3, FinishType DEF HoldBio, Handling
<1>4. ASSUME HoldBio(io[w]), ~HoldBio(io'[w]), tampered' = tampered,
             Release(w, Hash(w)) \/ SkipRelease(w, Hash(w))
      PROVE  GivesUp(w)
  BY <1>1, <1>4, ReleaseEffect DEF GivesUp
<1>5. CASE Work(w)
  BY <1>0, <1>2, <1>5 DEF Work, At, Points, Busy, Stays, HoldBio, Handling
<1>6. CASE NextBlock(w)
  <2>1. io[w].pc = "next" /\ UNCHANGED <<buf, tampered>> /\ ~HoldBio(io[w])
    BY <1>6 DEF NextBlock, At, HoldBio, Handling
  <2>2. io'[w].pc \in {"done", "data", "read"}
    BY <1>0, <1>3, <1>6, NextBlockEffect, ChainEffect
  <2>3. ~HoldBio(io'[w])
    BY <2>2 DEF HoldBio, Handling
  <2> QED
    BY <2>1, <2>3 DEF Stays
<1>7. CASE ReadHash(w)
  <2>1. io[w].pc = "read" /\ ~HoldBio(io[w]) /\ Hash(w) \in HashIds
    BY <1>1, <1>7 DEF ReadHash, At, HoldBio, Handling, OnBlock
  <2>2. CASE Go(w, "flag") /\ (ReadIn(w, Hash(w)) \/ SharedHeld(w, Hash(w)))
    <3>1. io'[w].pc = "flag" /\ HashBio(io'[w]) = HashBio(io[w])
      BY <1>2, <2>2 DEF Points, Busy
    <3> QED
      BY <1>1, <2>1, <2>2, <3>1 DEF Gets, HoldBio
  <2>3. CASE Finish(w, "error") /\ (UNCHANGED <<buf, tampered>> \/ Dropped(Hash(w)))
    BY <1>1, <1>3, <2>1, <2>3 DEF Misses
  <2> QED
    BY <1>7, <2>1, <2>2, <2>3, ReadEffect
<1>8. CASE TestFlag(w)
  <2>1. io[w].pc = "flag" /\ HoldBio(io[w]) /\ tampered' = tampered
    BY <1>8 DEF TestFlag, At, HoldBio
  <2>2. CASE UNCHANGED buf /\ (Go(w, "take") \/ Go(w, "match"))
    BY <1>2, <2>1, <2>2 DEF Points, Busy, Stays, HoldBio
  <2>3. CASE ChainStep(w) /\ SkipRelease(w, Hash(w))
    <3>1. io'[w].pc \in {"data", "read"}
      BY <1>0, <2>3, ChainEffect DEF ChainStep
    <3> QED
      BY <1>4, <2>1, <2>3, <3>1 DEF HoldBio, Handling
  <2>4. CASE Finish(w, "error") /\ Release(w, Hash(w))
    BY <1>3, <1>4, <2>1, <2>4
  <2> QED
    BY <1>8, <2>2, <2>3, <2>4 DEF TestFlag, ChainStep
<1>9. CASE Compare(w)
  <2>1. io[w].pc = "match" /\ HoldBio(io[w]) /\ tampered' = tampered
    BY <1>9 DEF Compare, At, HoldBio
  <2>2. CASE Matches(w, Hash(w)) /\ buf' = [buf EXCEPT ![Hash(w)].verified = TRUE] /\ Go(w, "take")
    <3>1. HoldBio(io'[w]) /\ HashBio(io'[w]) = HashBio(io[w])
      BY <1>2, <2>2 DEF Points, Busy, HoldBio
    <3> QED
      BY <1>1, <2>1, <2>2, <3>1, FlagEffect DEF Flags
  <2>3. CASE UNCHANGED buf /\ Failed(w, "metadata")
    <3>1. /\ SameBio(io[w], io'[w]) /\ io'[w].pc = "failed" /\ io'[w].type = "metadata"
          /\ io'[w].b = io[w].b /\ io'[w].level = io[w].level
      BY <1>0, <2>3, FailedEffect
    <3> QED
      BY <2>1, <2>3, <3>1 DEF Stays, HoldBio, HashBio, Handling, SameBio
  <2> QED
    BY <1>9, <2>2, <2>3 DEF Compare, MismatchFlag
<1>10. CASE Take(w)
  <2>1. io[w].pc = "take" /\ HoldBio(io[w]) /\ tampered' = tampered /\ Release(w, Hash(w))
    BY <1>10 DEF Take, At, HoldBio
  <2>2. io'[w].pc \in {"data", "read"}
    BY <1>10, TakeEffect
  <2> QED
    BY <1>4, <2>1, <2>2 DEF HoldBio, Handling
<1>11. CASE TestData(w)
  <2>1. io[w].pc = "data" /\ ~HoldBio(io[w]) /\ UNCHANGED <<buf, tampered>>
    BY <1>11 DEF TestData, At, HoldBio, Handling
  <2>2. Finish(w, "error") \/ AdvanceStep(w) \/ Failed(w, "data")
    BY <1>11 DEF TestData, AdvanceStep
  <2>3. ~HoldBio(io'[w])
    BY <1>0, <1>3, <2>2, FailedEffect, AdvanceEffect DEF AdvanceStep, HoldBio, Handling
  <2> QED
    BY <2>1, <2>3 DEF Stays
<1>12. CASE Fail(w)
  <2>1. io[w].pc = "failed" /\ (Go(w, "mode") \/ Go(w, "count")) /\ UNCHANGED <<buf, tampered>>
    BY <1>12 DEF Fail, At
  <2> QED
    BY <1>2, <2>1 DEF Stays, HoldBio, Handling, Points, Busy
<1>13. CASE Load(w)
  <2>1. io[w].pc = "count" /\ UNCHANGED <<buf, tampered>>
    BY <1>13 DEF Load, At, sharedVars
  <2>2. /\ SameBio(io[w], io'[w]) /\ io'[w].pc = "add" /\ io'[w].type = io[w].type
        /\ io'[w].b = io[w].b /\ io'[w].level = io[w].level
    BY <1>0, <1>13, LoadEffect
  <2> QED
    BY <2>1, <2>2 DEF Stays, HoldBio, HashBio, Handling, SameBio
<1>14. CASE Store(w)
  <2>1. io[w].pc = "add" /\ Go(w, "mode") /\ UNCHANGED <<buf, tampered>>
    BY <1>14 DEF Store, At
  <2> QED
    BY <1>2, <2>1 DEF Stays, HoldBio, Handling, Points, Busy
<1>15. CASE Resolve(w)
  <2>1. io[w].pc = "mode" /\ tampered' = tampered /\ (HoldBio(io[w]) <=> io[w].type = "metadata")
    BY <1>15 DEF Resolve, At, HoldBio, Handling
  <2>2. CASE io[w].type = "metadata" /\ Go(w, "take") /\ UNCHANGED buf
    BY <1>2, <2>1, <2>2 DEF Stays, HoldBio, Handling, Points, Busy
  <2>3. CASE io[w].type = "data" /\ AdvanceStep(w) /\ UNCHANGED buf
    BY <1>0, <2>1, <2>3, AdvanceEffect DEF AdvanceStep, Stays, HoldBio, Handling
  <2>4. CASE Go(w, "halted") /\ UNCHANGED buf
    BY <1>2, <2>1, <2>4 DEF Stays, HoldBio, Handling, Points, Busy
  <2>5. CASE io[w].type = "metadata" /\ Finish(w, "error") /\ Release(w, Hash(w))
    BY <1>3, <1>4, <2>1, <2>5
  <2>6. CASE io[w].type = "data" /\ Finish(w, "error") /\ UNCHANGED buf
    BY <1>0, <1>3, <2>1, <2>6 DEF Stays
  <2> QED
    BY <1>15, <2>2, <2>3, <2>4, <2>5, <2>6 DEF Resolve, AdvanceStep
<1> QED
  BY <1>5, <1>6, <1>7, <1>8, <1>9, <1>10, <1>11, <1>12, <1>13, <1>14, <1>15 DEF Step

\* Holders match in terms of the records.
HoldersAre(b, x) ==
  /\ \A h \in HashIds, v \in Workers :
       HoldBio(x[v]) /\ HashBio(x[v]) = h <=> b[h] # NoBuffer /\ v \in b[h].holders
  /\ \A v \in Workers : HoldBio(x[v]) => b[HashBio(x[v])].content # "error"

\* They say the same before a step.
LEMMA HoldersMatch == HoldsMatch <=> HoldersAre(buf, io)
  BY DEF HoldsMatch, HoldersAre, Holding, OnBlock, HoldBio, Hash, HashBio, At, Handling

\* And it is enough to show it of the records after one.
LEMMA HoldersMatchNext == HoldersAre(buf', io') => HoldsMatch'
  BY DEF HoldsMatch, HoldersAre, Holding, OnBlock, HoldBio, Hash, HashBio, At, Handling

\* A step of a worker keeps the holders right.
LEMMA WorkerHolds ==
  ASSUME TypeOK, Underway, HoldsMatch, NEW w \in Workers, Step(w)
  PROVE  HoldsMatch'
<1>0. HoldersAre(buf, io) /\ OnlyBio(w)
  BY HoldersMatch, StepBio
<1>1. \A v \in Workers : HoldBio(io[v]) \/ io[v].pc = "read" => HashBio(io[v]) \in HashIds
  BY OnBlockHash DEF HoldBio, OnBlock, Hash, HashBio
<1>2. \A v \in Workers : v # w => io'[v] = io[v]
  BY <1>0 DEF OnlyBio
<1>3. CASE Stays(w)
  <2>1. HoldersAre(buf', io')
    BY <1>0, <1>2, <1>3 DEF HoldersAre, Stays
  <2> QED
    BY <2>1, HoldersMatchNext
<1>4. CASE GivesUp(w)
  <2>0. HoldersAre(buf, io) /\ (\A v \in Workers : HoldBio(io[v]) => HashBio(io[v]) \in HashIds)
    BY <1>0, <1>1
  <2>a. \A g \in HashIds, v \in Workers :
          HoldBio(io'[v]) /\ HashBio(io'[v]) = g <=> buf'[g] # NoBuffer /\ v \in buf'[g].holders
    <3> SUFFICES ASSUME NEW g \in HashIds, NEW v \in Workers
                 PROVE  HoldBio(io'[v]) /\ HashBio(io'[v]) = g <=> buf'[g] # NoBuffer /\ v \in buf'[g].holders
      OBVIOUS
    <3>1. CASE v = w
      BY <1>1, <1>4, <2>0, <3>1 DEF HoldersAre, GivesUp, OnlyBuf, IsBuffer
    <3>2. CASE v # w
      BY <1>1, <1>2, <1>4, <2>0, <3>2 DEF HoldersAre, GivesUp, OnlyBuf, IsBuffer
    <3> QED
      BY <3>1, <3>2
  <2>b. \A v \in Workers : HoldBio(io'[v]) => buf'[HashBio(io'[v])].content # "error"
    BY <1>1, <1>2, <1>4, <2>0 DEF HoldersAre, GivesUp, OnlyBuf, IsBuffer
  <2>1. HoldersAre(buf', io')
    BY <2>a, <2>b DEF HoldersAre
  <2> QED
    BY <2>1, HoldersMatchNext
<1>5. CASE Gets(w)
  <2>0. HoldersAre(buf, io) /\ (\A v \in Workers : HoldBio(io[v]) => HashBio(io[v]) \in HashIds)
    BY <1>0, <1>1
  <2>a. \A g \in HashIds, v \in Workers :
          HoldBio(io'[v]) /\ HashBio(io'[v]) = g <=> buf'[g] # NoBuffer /\ v \in buf'[g].holders
    <3> SUFFICES ASSUME NEW g \in HashIds, NEW v \in Workers
                 PROVE  HoldBio(io'[v]) /\ HashBio(io'[v]) = g <=> buf'[g] # NoBuffer /\ v \in buf'[g].holders
      OBVIOUS
    <3>1. CASE v = w
      BY <1>1, <1>5, <2>0, <3>1 DEF HoldersAre, Gets, ReadIn, SharedHeld, OnlyBuf, IsBuffer, AllContents
    <3>2. CASE v # w
      BY <1>1, <1>2, <1>5, <2>0, <3>2 DEF HoldersAre, Gets, ReadIn, SharedHeld, OnlyBuf, IsBuffer, AllContents
    <3> QED
      BY <3>1, <3>2
  <2>b. \A v \in Workers : HoldBio(io'[v]) => buf'[HashBio(io'[v])].content # "error"
    BY <1>1, <1>2, <1>5, <2>0 DEF HoldersAre, Gets, ReadIn, SharedHeld, OnlyBuf, IsBuffer, AllContents
  <2>1. HoldersAre(buf', io')
    BY <2>a, <2>b DEF HoldersAre
  <2> QED
    BY <2>1, HoldersMatchNext
<1>6. CASE Misses(w)
  <2>0. HoldersAre(buf, io) /\ (\A v \in Workers : HoldBio(io[v]) => HashBio(io[v]) \in HashIds)
    BY <1>0, <1>1
  <2>a. \A g \in HashIds, v \in Workers :
          HoldBio(io'[v]) /\ HashBio(io'[v]) = g <=> buf'[g] # NoBuffer /\ v \in buf'[g].holders
    <3> SUFFICES ASSUME NEW g \in HashIds, NEW v \in Workers
                 PROVE  HoldBio(io'[v]) /\ HashBio(io'[v]) = g <=> buf'[g] # NoBuffer /\ v \in buf'[g].holders
      OBVIOUS
    <3>1. CASE v = w
      BY <1>1, <1>6, <2>0, <3>1 DEF HoldersAre, Misses, Dropped, OnlyBuf, IsBuffer
    <3>2. CASE v # w
      BY <1>1, <1>2, <1>6, <2>0, <3>2 DEF HoldersAre, Misses, Dropped, OnlyBuf, IsBuffer
    <3> QED
      BY <3>1, <3>2
  <2>b. \A v \in Workers : HoldBio(io'[v]) => buf'[HashBio(io'[v])].content # "error"
    BY <1>1, <1>2, <1>6, <2>0 DEF HoldersAre, Misses, Dropped, OnlyBuf, IsBuffer
  <2>1. HoldersAre(buf', io')
    BY <2>a, <2>b DEF HoldersAre
  <2> QED
    BY <2>1, HoldersMatchNext
<1>7. CASE Flags(w)
  <2>0. HoldersAre(buf, io) /\ (\A v \in Workers : HoldBio(io[v]) => HashBio(io[v]) \in HashIds)
    BY <1>0, <1>1
  <2>a. \A g \in HashIds, v \in Workers :
          HoldBio(io'[v]) /\ HashBio(io'[v]) = g <=> buf'[g] # NoBuffer /\ v \in buf'[g].holders
    <3> SUFFICES ASSUME NEW g \in HashIds, NEW v \in Workers
                 PROVE  HoldBio(io'[v]) /\ HashBio(io'[v]) = g <=> buf'[g] # NoBuffer /\ v \in buf'[g].holders
      OBVIOUS
    <3>1. CASE v = w
      BY <1>1, <1>7, <2>0, <3>1 DEF HoldersAre, Flags, OnlyBuf, IsBuffer
    <3>2. CASE v # w
      BY <1>1, <1>2, <1>7, <2>0, <3>2 DEF HoldersAre, Flags, OnlyBuf, IsBuffer
    <3> QED
      BY <3>1, <3>2
  <2>b. \A v \in Workers : HoldBio(io'[v]) => buf'[HashBio(io'[v])].content # "error"
    BY <1>1, <1>2, <1>7, <2>0 DEF HoldersAre, Flags, OnlyBuf, IsBuffer
  <2>1. HoldersAre(buf', io')
    BY <2>a, <2>b DEF HoldersAre
  <2> QED
    BY <2>1, HoldersMatchNext
<1> QED
  BY <1>3, <1>4, <1>5, <1>6, <1>7, StepHold

-----------------------------------------------------------------------------
(* What is verified.                                                       *)

\* WantsRight, of the record of one worker.
WantBio(r, trusted) ==
  /\ r.pc \in {"read", "flag", "match"} /\ ~r.skip =>
       \E content \in AllContents :
         r.want = Digest(r.level + 1, HashBio(r), content) /\ (trusted => content = "good")
  /\ r.pc = "data" =>
       \E content \in AllContents :
         r.want = Digest(0, r.block + r.b, content) /\ (trusted => content = "good")

\* Nothing that was not trusted is trusted again.
LEMMA StillUntrusted ==
  ASSUME TypeOK, NEW w \in Workers, Step(w)
  PROVE  Trusted' => Trusted
<1>1. mode' = mode /\ (hash_failed' = hash_failed \/ hash_failed' = 1)
  BY DEF Step, Work, NextBlock, ReadHash, TestFlag, Compare, Take, TestData, Fail, Load, Store, Resolve,
         sharedVars, FailedAlways
<1> QED
  BY <1>1 DEF Trusted

\* The root digest is that of the block at the top, whatever the bio.
LEMMA RootIsRight ==
  ASSUME NEW block, NEW n, <<block, n>> \in Bios, NEW b \in Nat, b < n, NEW w
  PROVE  /\ V.levels = 0 => RootDigest(w) = Digest(0, block + b, "good")
         /\ V.levels # 0 => RootDigest(w) = Digest(V.levels, HashAtLevel(V, block + b, V.levels - 1), "good")
<1>1. n \in Nat
  BY BiosAssumption
<1>2. b \in 0..n - 1
  BY <1>1
<1>3. IF V.levels = 0 THEN <<block, n>>[1] + b = 0 ELSE HashAtLevel(V, <<block, n>>[1] + b, V.levels - 1) = V.hash_start
  BY <1>2, RootAssumption
<1> QED
  BY <1>3 DEF RootDigest

\* A step of a worker leaves it with the right digest.
LEMMA WorkerWants ==
  ASSUME TypeOK, Underway, HoldsMatch, WantsRight, VerifiedGood, NEW w \in Workers, Step(w)
  PROVE  WantsRight'
<1>0. /\ io \in [Workers -> Io] /\ io[w] \in Io /\ corrupted_errs \in Nat
      /\ io[w].b \in Nat /\ io[w].level \in Nat /\ io[w].n_blocks \in Nat /\ io[w].skip \in BOOLEAN
  BY DEF TypeOK, Io
<1> PICK t \in BOOLEAN : t <=> Trusted'
  BY DEF Trusted
<1> DEFINE Right(r) == WantBio(r, t)
<1>3. t => Trusted
  BY StillUntrusted
<1>1. \A v \in Workers : Right(io[v])
  BY <1>3 DEF WantsRight, Right, WantBio, At, Hash, HashBio
<1> HIDE DEF Right
<1> SUFFICES Right(io'[w])
  <2>1. \A v \in Workers : v # w => io'[v] = io[v]
    BY StepBio DEF OnlyBio
  <2>2. Right(io'[w]) => \A v \in Workers : Right(io'[v])
    BY <1>1, <2>1
  <2> QED
    BY <2>2 DEF WantsRight, Right, WantBio, At, Hash, HashBio
<1>4. UnderBio(io[w])
  BY DEF Underway, UnderBio, InFlight, OnBlock, At
<1>5. ASSUME io'[w].pc \notin {"read", "flag", "match", "data"}
      PROVE  Right(io'[w])
  BY <1>5 DEF Right, WantBio
<1>6. ASSUME NEW p \in Points, Go(w, p),
             \/ p \notin {"read", "flag", "match", "data"}
             \/ p \in {"flag", "match"} /\ io[w].pc \in {"read", "flag", "match"}
      PROVE  Right(io'[w])
  <2>1. SameBio(io[w], io'[w]) /\ SamePlace(io[w], io'[w]) /\ io'[w].pc = p
    BY <1>0, <1>6, GoEffect
  <2> QED
    BY <1>1, <1>3, <1>5, <1>6, <2>1 DEF Right, WantBio, SameBio, SamePlace, HashBio
<1>7. ASSUME ChainStep(w), io[w].b < io[w].n_blocks, <<io[w].block, io[w].n_blocks>> \in Bios
      PROVE  Right(io'[w])
  <2>1. /\ SameBio(io[w], io'[w]) /\ io'[w].b = io[w].b /\ io'[w].want = RootDigest(w)
        /\ V.levels = 0 => io'[w].pc = "data" /\ io'[w].level = 0
        /\ V.levels # 0 => io'[w].pc = "read" /\ io'[w].level = V.levels - 1
    BY <1>0, <1>7, ChainEffect DEF ChainStep
  <2>2. /\ V.levels = 0 => RootDigest(w) = Digest(0, io[w].block + io[w].b, "good")
        /\ V.levels # 0 => RootDigest(w) = Digest(V.levels, HashAtLevel(V, io[w].block + io[w].b, V.levels - 1), "good")
    BY <1>0, <1>7, RootIsRight
  <2>3. "good" \in AllContents /\ (V.levels # 0 => (V.levels - 1) + 1 = V.levels)
    BY TargetAssumption DEF AllContents
  <2> QED
    BY <2>1, <2>2, <2>3 DEF Right, WantBio, SameBio, HashBio
<1>8. ASSUME NEW result \in {"ok", "error"}, Finish(w, result)
      PROVE  Right(io'[w])
  BY <1>0, <1>5, <1>8, FinishType
<1>9. CASE Work(w)
  BY <1>6, <1>9 DEF Work, Points, Busy
<1>10. CASE NextBlock(w)
  <2>1. CASE Finish(w, "ok")
    BY <1>8, <2>1
  <2>2. CASE io[w].b # io[w].n_blocks /\ ChainStep(w)
    BY <1>0, <1>4, <1>7, <1>10, <2>2 DEF UnderBio, NextBlock, At
  <2>3. CASE io'[w].pc = "read" /\ io'[w].skip = TRUE
    BY <2>3 DEF Right, WantBio
  <2> QED
    BY <1>0, <1>10, <2>1, <2>2, <2>3, NextBlockEffect DEF ChainStep
<1>11. CASE ReadHash(w)
  BY <1>6, <1>8, <1>11 DEF ReadHash, At, Points, Busy
<1>12. CASE TestFlag(w)
  <2>1. io[w].pc = "flag"
    BY <1>12 DEF TestFlag, At
  <2>2. CASE Go(w, "take") \/ Go(w, "match")
    BY <1>6, <2>1, <2>2 DEF Points, Busy
  <2>3. CASE ChainStep(w)
    BY <1>4, <1>7, <2>1, <2>3 DEF UnderBio, Verifying
  <2>4. CASE Finish(w, "error")
    BY <1>8, <2>4
  <2> QED
    BY <1>12, <2>2, <2>3, <2>4 DEF TestFlag, ChainStep
<1>13. CASE Compare(w)
  <2>1. CASE Go(w, "take")
    BY <1>6, <2>1 DEF Points, Busy
  <2>2. CASE Failed(w, "metadata")
    BY <1>0, <1>5, <2>2, FailedEffect
  <2> QED
    BY <1>13, <2>1, <2>2 DEF Compare
<1>14. CASE Take(w)
  <2>1. PICK content \in AllContents :
         /\ buf[Hash(w)].content = "good" => content = "good"
         /\ SameBio(io[w], io'[w])
         /\ io[w].level = 0 => /\ io'[w].pc = "data"
                               /\ io'[w].want = Digest(0, io'[w].block + io'[w].b, content)
         /\ io[w].level # 0 => /\ io'[w].pc = "read"
                               /\ io'[w].want = Digest(io'[w].level + 1, HashBio(io'[w]), content)
    BY <1>14, TakeEffect DEF Hash, HashBio
  <2>2. Hash(w) \in HashIds /\ buf[Hash(w)] # NoBuffer /\ At(w, "take")
    BY <1>14, OnBlockHash DEF Take, At, OnBlock, Holding
  <2>3. Trusted => content = "good"
    BY <2>1, <2>2 DEF VerifiedGood
  <2> QED
    BY <1>3, <2>1, <2>3 DEF Right, WantBio
<1>15. CASE TestData(w)
  <2>1. CASE Finish(w, "error")
    BY <1>8, <2>1
  <2>2. CASE AdvanceStep(w)
    BY <1>0, <1>5, <2>2, AdvanceEffect DEF AdvanceStep
  <2>3. CASE Failed(w, "data")
    BY <1>0, <1>5, <2>3, FailedEffect
  <2> QED
    BY <1>15, <2>1, <2>2, <2>3 DEF TestData, AdvanceStep
<1>16. CASE Fail(w)
  <2>1. Go(w, "mode") \/ Go(w, "count")
    BY <1>16 DEF Fail
  <2> QED
    BY <1>6, <2>1 DEF Points, Busy, Handling
<1>17. CASE Load(w)
  BY <1>0, <1>5, <1>17, LoadEffect
<1>18. CASE Store(w)
  BY <1>6, <1>18 DEF Store, Points, Busy, Handling
<1>19. CASE Resolve(w)
  <2>1. CASE Go(w, "take") \/ Go(w, "halted")
    BY <1>6, <2>1 DEF Points, Busy, Handling
  <2>2. CASE AdvanceStep(w)
    BY <1>0, <1>5, <2>2, AdvanceEffect DEF AdvanceStep
  <2>3. CASE Finish(w, "error")
    BY <1>8, <2>3
  <2> QED
    BY <1>19, <2>1, <2>2, <2>3 DEF Resolve, AdvanceStep
<1> QED
  BY <1>9, <1>10, <1>11, <1>12, <1>13, <1>14, <1>15, <1>16, <1>17, <1>18, <1>19 DEF Step

\* Steps of a worker keep what is flagged good, and digests are taken from what is
\* flagged.
LEMMA WorkerVerified ==
  ASSUME TypeOK, Underway, HoldsMatch, WantsRight, VerifiedGood, CorruptionVisible, NEW w \in Workers, Step(w)
  PROVE  VerifiedGood'
<1> SUFFICES ASSUME Trusted'
             PROVE  /\ \A h \in HashIds : buf'[h] # NoBuffer /\ buf'[h].verified => buf'[h].content = "good"
                    /\ \A v \in Workers : io'[v].pc = "take" => buf'[HashBio(io'[v])].verified
  BY DEF VerifiedGood, At, Hash, HashBio
<1>0. /\ Trusted /\ OnlyBio(w) /\ HoldersAre(buf, io)
      /\ io \in [Workers -> Io] /\ corrupted_errs \in Nat
      /\ \A v \in Workers : HoldBio(io[v]) => HashBio(io[v]) \in HashIds
  BY StillUntrusted, StepBio, HoldersMatch, OnBlockHash DEF HoldBio, OnBlock, Hash, HashBio, TypeOK
<1>1. /\ \A h \in HashIds : buf[h] # NoBuffer /\ buf[h].verified => buf[h].content = "good"
      /\ \A v \in Workers : io[v].pc = "take" => buf[HashBio(io[v])].verified
  BY <1>0 DEF VerifiedGood, At, Hash, HashBio
<1>2. ASSUME Flags(w)
      PROVE  buf[HashBio(io[w])].content = "good"
  <2>1. ~io[w].skip /\ io[w].pc = "match" /\ Matches(w, Hash(w)) /\ Hash(w) = HashBio(io[w])
    BY <1>2 DEF Flags, Underway, At, Hash, HashBio
  <2>2. io[w].want = Digest(io[w].level + 1, Hash(w), "good")
    BY <1>0, <2>1 DEF WantsRight
  <2> QED
    BY <2>1, <2>2 DEF Matches, Digest
<1>3. \A h \in HashIds : buf'[h] # NoBuffer /\ buf'[h].verified => buf'[h].content = "good"
  <2> SUFFICES ASSUME NEW h \in HashIds, buf'[h] # NoBuffer, buf'[h].verified
               PROVE  buf'[h].content = "good"
    OBVIOUS
  <2>1. CASE Stays(w)
    BY <1>1, <2>1 DEF Stays
  <2>2. CASE GivesUp(w)
    BY <1>1, <2>2 DEF GivesUp, OnlyBuf, IsBuffer
  <2>3. CASE Gets(w)
    BY <1>1, <2>3 DEF Gets, ReadIn, SharedHeld, OnlyBuf, IsBuffer
  <2>4. CASE Misses(w)
    BY <1>1, <2>4 DEF Misses, Dropped, OnlyBuf
  <2>5. CASE Flags(w)
    BY <1>1, <1>2, <2>5 DEF Flags, OnlyBuf
  <2> QED
    BY <2>1, <2>2, <2>3, <2>4, <2>5, StepHold
<1>4. ASSUME NEW v \in Workers, HoldBio(io[v]), buf[HashBio(io[v])].verified
      PROVE  buf'[HashBio(io[v])].verified
  <2> DEFINE h == HashBio(io[v])
  <2>1. h \in HashIds /\ buf[h] # NoBuffer /\ buf[h].content # "error" /\ buf[h].verified
    BY <1>0, <1>4 DEF HoldersAre
  <2> SUFFICES buf'[h].verified
    OBVIOUS
  <2> HIDE DEF h
  <2>2. CASE Stays(w)
    BY <2>1, <2>2 DEF Stays
  <2>3. CASE GivesUp(w)
    BY <2>1, <2>3 DEF GivesUp, OnlyBuf
  <2>4. CASE Gets(w)
    BY <2>1, <2>4 DEF Gets, ReadIn, SharedHeld, OnlyBuf
  <2>5. CASE Misses(w)
    BY <2>1, <2>5 DEF Misses, Dropped, OnlyBuf
  <2>6. CASE Flags(w)
    BY <2>1, <2>6 DEF Flags, OnlyBuf
  <2> QED
    BY <2>2, <2>3, <2>4, <2>5, <2>6, StepHold
<1>5. ASSUME io'[w].pc = "take"
      PROVE  buf'[HashBio(io'[w])].verified
  <2>a. ASSUME NEW p \in Points, Go(w, p)
        PROVE  io'[w].pc = p /\ SameBio(io[w], io'[w]) /\ SamePlace(io[w], io'[w])
    BY <1>0, <2>a, GoEffect
  <2>b. ASSUME NEW result \in {"ok", "error"}, Finish(w, result) PROVE FALSE
    BY <1>0, <1>5, <2>b, FinishType
  <2>c. ASSUME NEW type \in {"data", "metadata"}, Failed(w, type) PROVE FALSE
    BY <1>0, <1>5, <2>c, FailedEffect
  <2>d. ~ChainStep(w)
    BY <1>0, <1>5, ChainEffect DEF ChainStep
  <2>e. ~AdvanceStep(w)
    BY <1>0, <1>5, AdvanceEffect DEF AdvanceStep
  <2>0. /\ \A p \in Points : Go(w, p) => io'[w].pc = p /\ SameBio(io[w], io'[w]) /\ SamePlace(io[w], io'[w])
        /\ \A result \in {"ok", "error"} : ~Finish(w, result)
        /\ \A type \in {"data", "metadata"} : ~Failed(w, type)
        /\ ~ChainStep(w) /\ ~AdvanceStep(w)
    BY <2>a, <2>b, <2>c, <2>d, <2>e
  <2>1. CASE TestFlag(w)
    <3>1. io[w].pc = "flag" /\ buf[Hash(w)].verified /\ Go(w, "take")
      BY <1>5, <2>0, <2>1 DEF TestFlag, ChainStep, Points, Busy, At
    <3>2. HoldBio(io[w]) /\ HashBio(io'[w]) = HashBio(io[w]) /\ Hash(w) = HashBio(io[w])
      BY <2>0, <3>1 DEF HoldBio, HashBio, Hash, SameBio, SamePlace, Points, Busy
    <3> QED
      BY <1>4, <3>1, <3>2
  <2>2. CASE Compare(w)
    <3>1. /\ io[w].pc = "match" /\ Go(w, "take") /\ buf' = [buf EXCEPT ![Hash(w)].verified = TRUE]
      BY <2>0, <2>2 DEF Compare, At
    <3>2. HashBio(io'[w]) = Hash(w)
      BY <2>0, <3>1 DEF HashBio, Hash, SameBio, SamePlace, Points, Busy
    <3>3. Hash(w) \in HashIds /\ IsBuffer(buf[Hash(w)])
      BY <3>1, OnBlockHash DEF OnBlock, Holding, At, IsBuffer
    <3> QED
      BY <3>1, <3>2, <3>3, FlagEffect
  <2>3. CASE Resolve(w)
    <3>1. mode = "logging" /\ hash_failed = 1
      BY <1>5, <2>0, <2>3 DEF Resolve, AdvanceStep, CorruptionVisible, At, Points, Busy
    <3> QED
      BY <1>0, <3>1 DEF Trusted
  <2>4. CASE Take(w)
    BY <1>5, <2>4, TakeEffect
  <2>5. CASE NextBlock(w)
    BY <1>0, <1>5, <2>0, <2>5, NextBlockEffect DEF ChainStep
  <2>6. CASE Load(w)
    BY <1>0, <1>5, <2>6, LoadEffect
  <2>7. CASE Work(w) \/ ReadHash(w) \/ TestData(w) \/ Fail(w) \/ Store(w)
    BY <1>5, <2>0, <2>7 DEF Work, ReadHash, TestData, AdvanceStep, Fail, Store, Points, Busy, Handling
  <2> QED
    BY <2>1, <2>2, <2>3, <2>4, <2>5, <2>6, <2>7 DEF Step
<1>6. \A v \in Workers : io'[v].pc = "take" => buf'[HashBio(io'[v])].verified
  <2> SUFFICES ASSUME NEW v \in Workers, io'[v].pc = "take"
               PROVE  buf'[HashBio(io'[v])].verified
    OBVIOUS
  <2>1. CASE v = w
    BY <1>5, <2>1
  <2>2. CASE v # w
    BY <1>0, <1>1, <1>4, <2>2 DEF OnlyBio, HoldBio
  <2> QED
    BY <2>1, <2>2
<1> QED
  BY <1>3, <1>6

\* What a step of a worker does to its bio: it ends with an error, or after its
\* last block; it stays at the block it is at; or it goes on, when the data
\* match or mismatches are ignored.
LEMMA StepPasses ==
  ASSUME TypeOK, Underway, HoldsMatch, NEW w \in Workers, Step(w)
  PROVE  \/ Finish(w, "error")
         \/ Finish(w, "ok") /\ io[w].pc = "next" /\ io[w].b = io[w].n_blocks
         \/ /\ SameBio(io[w], io'[w]) /\ io'[w].b = io[w].b
            /\ io[w].pc \in {"queued"} \cup Busy /\ io'[w].pc # "done"
         \/ /\ AdvanceStep(w)
            /\ (io[w].pc = "data" /\ DataMatches(w)) \/ (io[w].pc = "mode" /\ mode = "logging")
<1> DEFINE Stay == /\ SameBio(io[w], io'[w]) /\ io'[w].b = io[w].b
                   /\ io[w].pc \in {"queued"} \cup Busy /\ io'[w].pc # "done"
<1>0. io \in [Workers -> Io] /\ corrupted_errs \in Nat
  BY DEF TypeOK
<1>1. ASSUME NEW p \in Points, p # "done", Go(w, p), io[w].pc \in {"queued"} \cup Busy
      PROVE  Stay
  BY <1>0, <1>1, GoEffect DEF SamePlace
<1>2. ASSUME ChainStep(w), io[w].pc \in Busy
      PROVE  Stay
  BY <1>0, <1>2, ChainEffect DEF ChainStep
<1>3. ASSUME NEW type \in {"data", "metadata"}, Failed(w, type), io[w].pc \in Busy
      PROVE  Stay
  BY <1>0, <1>3, FailedEffect
<1>4. Take(w) => Stay
  BY TakeEffect DEF Take, At, Busy
<1>5. Load(w) => Stay
  BY <1>0, LoadEffect DEF Load, At, Busy, Handling
<1> HIDE DEF Stay
<1>6. Work(w) => Stay
  BY <1>1 DEF Work, At, Points, Busy
<1>7. ASSUME NextBlock(w)
      PROVE  Stay \/ (Finish(w, "ok") /\ io[w].pc = "next" /\ io[w].b = io[w].n_blocks)
  <2>1. io[w].pc = "next"
    BY <1>7 DEF NextBlock, At
  <2>2. CASE io[w].b = io[w].n_blocks /\ Finish(w, "ok")
    BY <2>1, <2>2
  <2>3. CASE ChainStep(w)
    BY <1>2, <2>1, <2>3 DEF Busy
  <2>4. CASE SameBio(io[w], io'[w]) /\ io'[w].b = io[w].b /\ io'[w].pc = "read"
    BY <2>1, <2>4 DEF Stay, Busy
  <2> QED
    BY <1>0, <1>7, <2>2, <2>3, <2>4, NextBlockEffect DEF ChainStep
<1>8. ReadHash(w) => Stay \/ Finish(w, "error")
  BY <1>1 DEF ReadHash, At, Points, Busy
<1>9. TestFlag(w) => Stay \/ Finish(w, "error")
  BY <1>1, <1>2 DEF TestFlag, At, ChainStep, Points, Busy
<1>10. Compare(w) => Stay
  BY <1>1, <1>3 DEF Compare, At, Points, Busy
<1>11. Fail(w) \/ Store(w) => Stay
  BY <1>1 DEF Fail, Store, At, Points, Busy, Handling
<1>12. ASSUME TestData(w)
       PROVE  Stay \/ Finish(w, "error") \/ (AdvanceStep(w) /\ io[w].pc = "data" /\ DataMatches(w))
  <2>1. /\ io[w].pc = "data"
        /\ Finish(w, "error") \/ (DataMatches(w) /\ AdvanceStep(w)) \/ Failed(w, "data")
    BY <1>12 DEF TestData, At, AdvanceStep
  <2>2. Failed(w, "data") => Stay
    BY <1>3, <2>1 DEF Busy
  <2> QED
    BY <2>1, <2>2
<1>13. ASSUME Resolve(w)
       PROVE  Stay \/ Finish(w, "error") \/ (AdvanceStep(w) /\ io[w].pc = "mode" /\ mode = "logging")
  <2>1. /\ io[w].pc = "mode"
        /\ Go(w, "take") \/ Go(w, "halted") \/ Finish(w, "error") \/ (mode = "logging" /\ AdvanceStep(w))
    BY <1>13 DEF Resolve, At, AdvanceStep
  <2>2. Go(w, "take") \/ Go(w, "halted") => Stay
    BY <1>1, <2>1 DEF Points, Busy, Handling
  <2> QED
    BY <2>1, <2>2
<1>14. \/ Stay \/ Finish(w, "error")
       \/ Finish(w, "ok") /\ io[w].pc = "next" /\ io[w].b = io[w].n_blocks
       \/ AdvanceStep(w) /\ ((io[w].pc = "data" /\ DataMatches(w)) \/ (io[w].pc = "mode" /\ mode = "logging"))
  BY <1>4, <1>5, <1>6, <1>7, <1>8, <1>9, <1>10, <1>11, <1>12, <1>13 DEF Step
<1> QED
  BY <1>14 DEF Stay

\* Good, of the record of one worker.
GoodBio(r) ==
  /\ r.pc \in Busy => \A b \in 0..r.b - 1 : r.data[b] = "good"
  /\ r.res = "ok"  => \A b \in 0..r.n_blocks - 1 : r.data[b] = "good"

\* A step of a worker lets only good blocks through, as long as mismatches count.
LEMMA WorkerDelivers ==
  ASSUME TypeOK, Underway, HoldsMatch, WantsRight, DeliveredGood, CorruptionVisible, NEW w \in Workers, Step(w)
  PROVE  DeliveredGood'
<1> SUFFICES ASSUME Trusted'
             PROVE  \A v \in Workers : GoodBio(io'[v])
  BY DEF DeliveredGood, GoodBio, Passed, Delivered
<1>0. /\ Trusted /\ OnlyBio(w) /\ io \in [Workers -> Io] /\ io[w] \in Io
      /\ io[w].b \in Nat /\ io[w].n_blocks \in Nat /\ io[w].pc \in Points
  BY StillUntrusted, StepBio DEF TypeOK, Io
<1>1. \A v \in Workers : GoodBio(io[v])
  <2> SUFFICES ASSUME NEW v \in Workers PROVE GoodBio(io[v])
    OBVIOUS
  <2>1. ASSUME io[v].pc \in Busy, NEW b \in 0..io[v].b - 1 PROVE io[v].data[b] = "good"
    <3>1. Passed(v) \subseteq {"good"} /\ io[v].data[b] \in Passed(v)
      BY <1>0, <2>1 DEF DeliveredGood, Passed
    <3> QED
      BY <3>1
  <2>2. ASSUME io[v].res = "ok", NEW b \in 0..io[v].n_blocks - 1 PROVE io[v].data[b] = "good"
    <3>1. Delivered(v) \subseteq {"good"} /\ io[v].data[b] \in Delivered(v)
      BY <1>0, <2>2 DEF DeliveredGood, Delivered
    <3> QED
      BY <3>1
  <2> QED
    BY <2>1, <2>2 DEF GoodBio
<1>2. UnderBio(io[w])
  BY DEF Underway, UnderBio, InFlight, OnBlock, At
<1>3. CASE Finish(w, "error")
  <2>1. io'[w].pc = "done" /\ io'[w].res = "error"
    BY <1>0, <1>3, FinishType
  <2>2. GoodBio(io'[w])
    BY <2>1 DEF GoodBio, Busy, Handling
  <2> QED
    BY <1>0, <1>1, <2>2 DEF OnlyBio
<1>4. CASE Finish(w, "ok") /\ io[w].pc = "next" /\ io[w].b = io[w].n_blocks
  <2>1. io'[w].pc = "done" /\ io'[w].data = io[w].data /\ io'[w].n_blocks = io[w].n_blocks
    BY <1>0, <1>4, FinishType
  <2>2. \A b \in 0..io[w].n_blocks - 1 : io[w].data[b] = "good"
    BY <1>1, <1>4 DEF GoodBio, Busy
  <2>3. GoodBio(io'[w])
    BY <2>1, <2>2 DEF GoodBio, Busy, Handling
  <2> QED
    BY <1>0, <1>1, <2>3 DEF OnlyBio
<1>5. CASE /\ SameBio(io[w], io'[w]) /\ io'[w].b = io[w].b
           /\ io[w].pc \in {"queued"} \cup Busy /\ io'[w].pc # "done"
  <2>1. io[w].res # "ok"
    BY <1>2, <1>5 DEF UnderBio, Busy, Handling
  <2>2. \A b \in 0..io[w].b - 1 : io[w].data[b] = "good"
    BY <1>0, <1>1, <1>2, <1>5 DEF GoodBio, UnderBio
  <2>3. GoodBio(io'[w])
    BY <1>5, <2>1, <2>2 DEF GoodBio, SameBio
  <2> QED
    BY <1>0, <1>1, <2>3 DEF OnlyBio
<1>6. CASE AdvanceStep(w) /\ ((io[w].pc = "data" /\ DataMatches(w)) \/ (io[w].pc = "mode" /\ mode = "logging"))
  <2>1. /\ SameBio(io[w], io'[w]) /\ io'[w].b = io[w].b + 1 /\ io'[w].pc = "next"
    BY <1>0, <1>6, AdvanceEffect DEF AdvanceStep
  <2>2. io[w].res # "ok" /\ io[w].b \in 0..io[w].n_blocks - 1 /\ io[w].pc \in Busy
    BY <1>0, <1>2, <1>6 DEF UnderBio, Busy, Handling, Verifying
  <2>3. ~(io[w].pc = "mode" /\ mode = "logging")
    BY <1>0 DEF CorruptionVisible, Trusted
  <2>4. io[w].data[io[w].b] = "good"
    <3>1. io[w].want = Digest(0, io[w].block + io[w].b, "good") /\ DataMatches(w)
      BY <1>0, <1>6, <2>3 DEF WantsRight, At
    <3> QED
      BY <3>1 DEF DataMatches, Digest
  <2>5. \A b \in 0..io[w].b - 1 : io[w].data[b] = "good"
    BY <1>1, <2>2 DEF GoodBio
  <2>6. \A b \in 0..(io[w].b + 1) - 1 : io[w].data[b] = "good"
    BY <1>0, <2>4, <2>5
  <2>7. GoodBio(io'[w])
    BY <2>1, <2>2, <2>6 DEF GoodBio, SameBio
  <2> QED
    BY <1>0, <1>1, <2>7 DEF OnlyBio
<1> QED
  BY <1>3, <1>4, <1>5, <1>6, StepPasses

\* What is delivered although it is wrong shows in the status.
LEMMA WorkerVisible ==
  ASSUME TypeOK, Underway, HoldsMatch, CorruptionVisible, NEW w \in Workers, Step(w), TypeOK', DeliveredGood'
  PROVE  CorruptionVisible'
<1>0. OnlyBio(w) /\ io \in [Workers -> Io] /\ corrupted_errs \in Nat
  BY StepBio DEF TypeOK
<1>1. hash_failed' = hash_failed \/ hash_failed' = 1
  BY DEF Step, Work, NextBlock, ReadHash, TestFlag, Compare, Take, TestData, Fail, Load, Store, Resolve,
         sharedVars, FailedAlways
<1>2. io'[w].pc \in {"count", "add", "mode"} => hash_failed' = 1
  <2> SUFFICES ASSUME io'[w].pc \in {"count", "add", "mode"}
               PROVE  hash_failed' = 1
    OBVIOUS
  <2>1. CASE Fail(w)
    BY <2>1 DEF Fail, FailedAlways
  <2>2. CASE Load(w) \/ Store(w)
    BY <1>1, <2>2 DEF Load, Store, CorruptionVisible, At
  <2>a. ASSUME NEW p \in Points, Go(w, p)
        PROVE  io'[w].pc = p
    BY <1>0, <2>a, GoEffect
  <2>b. ASSUME NEW result \in {"ok", "error"}, Finish(w, result) PROVE FALSE
    BY <1>0, <2>b, FinishType
  <2>c. ASSUME NEW type \in {"data", "metadata"}, Failed(w, type) PROVE FALSE
    BY <1>0, <2>c, FailedEffect
  <2>d. ~ChainStep(w)
    BY <1>0, ChainEffect DEF ChainStep
  <2>e. ~AdvanceStep(w)
    BY <1>0, AdvanceEffect DEF AdvanceStep
  <2>3. CASE NextBlock(w)
    BY <1>0, <2>b, <2>d, <2>3, NextBlockEffect DEF ChainStep
  <2>4. CASE Take(w)
    BY <2>4, TakeEffect
  <2>5. CASE Work(w) \/ ReadHash(w) \/ TestFlag(w) \/ Compare(w) \/ TestData(w) \/ Resolve(w)
    BY <2>a, <2>b, <2>c, <2>d, <2>e, <2>5
       DEF Work, ReadHash, TestFlag, ChainStep, Compare, TestData, AdvanceStep, Resolve, Points, Busy
  <2> QED
    BY <2>1, <2>2, <2>3, <2>4, <2>5 DEF Step
<1>3. \A v \in Workers : io'[v].res = "ok" /\ ~(Delivered(v)' \subseteq {"good"}) => hash_failed' = 1
  BY DEF DeliveredGood, Trusted, TypeOK
<1>4. \A v \in Workers : io'[v].pc \in {"count", "add", "mode"} => hash_failed' = 1
  BY <1>0, <1>1, <1>2 DEF OnlyBio, CorruptionVisible
<1> QED
  BY <1>3, <1>4 DEF CorruptionVisible

\* A step of a worker finds nothing wrong with a device that nobody touched.
LEMMA WorkerNoFalseAlarm ==
  ASSUME TypeOK, Underway, HoldsMatch, WantsRight, NoFalseAlarm, NEW w \in Workers, Step(w)
  PROVE  NoFalseAlarm'
<1> SUFFICES ASSUME ~tampered'
             PROVE  /\ hash_failed' = 0
                    /\ \A h \in HashIds : buf'[h] # NoBuffer => buf'[h].content \in {"good", "error"}
                    /\ \A v \in Workers :
                         /\ io'[v].pc \notin Handling
                         /\ io'[v].pc \in {"queued"} \cup Busy =>
                              \A b \in 0..io'[v].n_blocks - 1 : io'[v].data[b] = "good"
  BY DEF NoFalseAlarm
<1>0. /\ OnlyBio(w) /\ io \in [Workers -> Io] /\ io[w] \in Io /\ corrupted_errs \in Nat
      /\ io[w].b \in Nat /\ io[w].n_blocks \in Nat /\ UnderBio(io[w])
  BY StepBio DEF TypeOK, Io, Underway, UnderBio, InFlight, OnBlock, At
<1>1. ~tampered
  BY DEF Step, Work, NextBlock, ReadHash, TestFlag, Compare, Take, TestData, Fail, Load, Store, Resolve
<1>2. /\ hash_failed = 0
      /\ \A h \in HashIds : buf[h] # NoBuffer => buf[h].content \in {"good", "error"}
      /\ \A v \in Workers :
           /\ io[v].pc \notin Handling
           /\ io[v].pc \in {"queued"} \cup Busy =>
                \A b \in 0..io[v].n_blocks - 1 : io[v].data[b] = "good"
  BY <1>1 DEF NoFalseAlarm
<1>3. Trusted
  BY <1>2 DEF Trusted
<1>4. ~Fail(w) /\ ~Load(w) /\ ~Store(w) /\ ~Resolve(w)
  BY <1>2 DEF Fail, Load, Store, Resolve, At, Handling
<1>5. hash_failed' = 0
  BY <1>2, <1>4 DEF Step, Work, NextBlock, ReadHash, TestFlag, Compare, Take, TestData, sharedVars
<1>6. \A h \in HashIds : buf'[h] # NoBuffer => buf'[h].content \in {"good", "error"}
  <2> SUFFICES ASSUME NEW h \in HashIds, buf'[h] # NoBuffer
               PROVE  buf'[h].content \in {"good", "error"}
    OBVIOUS
  <2>1. CASE Stays(w)
    BY <1>2, <2>1 DEF Stays
  <2>2. CASE GivesUp(w)
    BY <1>2, <2>2 DEF GivesUp, OnlyBuf, IsBuffer
  <2>3. CASE Gets(w)
    BY <1>2, <2>3 DEF Gets, ReadIn, SharedHeld, OnlyBuf, IsBuffer
  <2>4. CASE Misses(w)
    BY <1>2, <2>4 DEF Misses, Dropped, OnlyBuf
  <2>5. CASE Flags(w)
    BY <1>2, <2>5 DEF Flags, OnlyBuf, IsBuffer
  <2> QED
    BY <2>1, <2>2, <2>3, <2>4, <2>5, StepHold
<1>7. Compare(w) => Matches(w, Hash(w))
  <2> SUFFICES ASSUME Compare(w) PROVE Matches(w, Hash(w))
    OBVIOUS
  <2>1. OnBlock(w) /\ Holding(w) /\ io[w].pc = "match" /\ ~io[w].skip
    BY DEF Compare, At, OnBlock, Holding, Underway
  <2>2. Hash(w) \in HashIds /\ buf[Hash(w)] # NoBuffer /\ buf[Hash(w)].content \in AllContents
    BY <2>1, OnBlockHash
  <2>3. buf[Hash(w)].content = "good"
    BY <1>2, <2>2 DEF AllContents
  <2>4. io[w].want = Digest(io[w].level + 1, Hash(w), "good")
    BY <1>3, <2>1 DEF WantsRight
  <2> QED
    BY <2>3, <2>4 DEF Matches
<1>8. TestData(w) => DataMatches(w)
  <2> SUFFICES ASSUME TestData(w) PROVE DataMatches(w)
    OBVIOUS
  <2>1. io[w].pc = "data" /\ io[w].b \in 0..io[w].n_blocks - 1
    BY <1>0 DEF TestData, At, UnderBio, Verifying
  <2>2. io[w].data[io[w].b] = "good"
    BY <1>2, <2>1 DEF Busy
  <2>3. io[w].want = Digest(0, io[w].block + io[w].b, "good")
    BY <1>3, <2>1 DEF WantsRight, At
  <2> QED
    BY <2>2, <2>3 DEF DataMatches
<1>9. io'[w].pc \notin Handling
  <2>a. \A p \in Points : Go(w, p) => io'[w].pc = p
    BY <1>0, GoEffect
  <2>b. \A result \in {"ok", "error"} : Finish(w, result) => io'[w].pc = "done"
    BY <1>0, FinishType
  <2>d. ChainStep(w) => io'[w].pc \in {"data", "read"}
    BY <1>0, ChainEffect DEF ChainStep
  <2>e. AdvanceStep(w) => io'[w].pc = "next"
    BY <1>0, AdvanceEffect DEF AdvanceStep
  <2>1. CASE NextBlock(w)
    <3>1. io'[w].pc \in {"done", "data", "read"}
      BY <1>0, <2>1, <2>b, <2>d, NextBlockEffect DEF ChainStep
    <3> QED
      BY <3>1 DEF Handling
  <2>2. CASE Take(w)
    BY <2>2, TakeEffect DEF Handling
  <2>3. CASE Work(w) \/ ReadHash(w) \/ TestFlag(w)
    <3>1. io'[w].pc \in {"next", "flag", "done", "take", "match", "data", "read"}
      BY <2>3, <2>a, <2>b, <2>d DEF Work, ReadHash, TestFlag, ChainStep, Points, Busy
    <3> QED
      BY <3>1 DEF Handling
  <2>4. CASE Compare(w)
    BY <1>7, <2>4, <2>a DEF Compare, Points, Busy, Handling
  <2>5. CASE TestData(w)
    <3>1. AdvanceStep(w) \/ Finish(w, "error")
      BY <1>8, <2>5 DEF TestData, AdvanceStep
    <3> QED
      BY <2>b, <2>e, <3>1 DEF Handling
  <2> QED
    BY <1>4, <2>1, <2>2, <2>3, <2>4, <2>5 DEF Step
<1>10. io'[w].pc \in {"queued"} \cup Busy =>
         \A b \in 0..io'[w].n_blocks - 1 : io'[w].data[b] = "good"
  <2>1. \A result \in {"ok", "error"} : Finish(w, result) => io'[w].pc = "done"
    BY <1>0, FinishType
  <2>2. AdvanceStep(w) => SameBio(io[w], io'[w])
    BY <1>0, AdvanceEffect DEF AdvanceStep
  <2>3. CASE io'[w].pc = "done"
    BY <2>3 DEF Busy, Handling
  <2>4. CASE SameBio(io[w], io'[w]) /\ io[w].pc \in {"queued"} \cup Busy
    BY <1>2, <2>4 DEF SameBio
  <2> QED
    BY <2>1, <2>2, <2>3, <2>4, StepPasses DEF Busy, Handling
<1>11. \A v \in Workers :
         /\ io'[v].pc \notin Handling
         /\ io'[v].pc \in {"queued"} \cup Busy =>
              \A b \in 0..io'[v].n_blocks - 1 : io'[v].data[b] = "good"
  BY <1>0, <1>2, <1>9, <1>10 DEF OnlyBio
<1> QED
  BY <1>5, <1>6, <1>11

-----------------------------------------------------------------------------
(* The count of errors.                                                    *)

\* ErrsBounded, of a count, of who has passed the test, and of what was read.
Counted(c, at, seen) ==
  /\ c <= MaxErrs + 1
  /\ \A a \in Workers :
       /\ at[a] = "count" => c <= MaxErrs
       /\ at[a] = "add"   => seen[a] <= MaxErrs /\ (c < MaxErrs => seen[a] < MaxErrs)
  /\ \A a, b \in Workers :
       a # b =>
         /\ at[a] = "count" /\ at[b] = "count" => c < MaxErrs
         /\ at[a] = "count" /\ at[b] = "add" => seen[b] < MaxErrs
         /\ at[a] = "count" /\ at[b] = "add" /\ c >= MaxErrs => seen[b] >= MaxErrs - 1
         /\ at[a] = "add" /\ at[b] = "add" /\ seen[a] >= MaxErrs => seen[b] >= MaxErrs - 1

\* The steps of two workers keep the count within one of the limit.
LEMMA CountingSteps ==
  ASSUME TwoWorkers, NEW w \in Workers, NEW c \in Nat, NEW c2 \in Nat,
         NEW at, NEW at2, NEW seen \in [Workers -> Nat], NEW seen2 \in [Workers -> Nat], Counted(c, at, seen),
         \A v \in Workers : v # w => at2[v] = at[v] /\ seen2[v] = seen[v],
         \/ c2 = c /\ at2[w] \notin {"count", "add"}
         \/ c2 = c /\ at2[w] = "count" /\ c < MaxErrs
         \/ c2 = c /\ at[w] = "count" /\ at2[w] = "add" /\ seen2[w] = c
         \/ c2 = seen[w] + 1 /\ at[w] = "add" /\ at2[w] \notin {"count", "add"}
  PROVE  Counted(c2, at2, seen2)
<1>0. MaxErrs \in Nat \ {0}
  BY MaxErrsAssumption
<1>1. CASE c2 = c /\ at2[w] \notin {"count", "add"}
  BY <1>0, <1>1 DEF Counted
<1>2. CASE c2 = c /\ at2[w] = "count" /\ c < MaxErrs
  BY <1>0, <1>2 DEF Counted
<1>3. CASE c2 = c /\ at[w] = "count" /\ at2[w] = "add" /\ seen2[w] = c
  BY <1>0, <1>3 DEF Counted
<1>4. CASE c2 = seen[w] + 1 /\ at[w] = "add" /\ at2[w] \notin {"count", "add"}
  BY <1>0, <1>4 DEF Counted, TwoWorkers
<1> QED
  BY <1>1, <1>2, <1>3, <1>4

\* A step of one of two workers keeps the count within one of the limit.
LEMMA WorkerCounts ==
  ASSUME TypeOK, Underway, HoldsMatch, ErrsBounded, NEW w \in Workers, Step(w), TypeOK'
  PROVE  ErrsBounded'
<1> SUFFICES ASSUME TwoWorkers
             PROVE  Counted(corrupted_errs', [v \in Workers |-> io'[v].pc], [v \in Workers |-> io'[v].seen])
  BY DEF ErrsBounded, Counted, At
<1> DEFINE at   == [v \in Workers |-> io[v].pc]
           at2  == [v \in Workers |-> io'[v].pc]
           seen == [v \in Workers |-> io[v].seen]
           seen2 == [v \in Workers |-> io'[v].seen]
<1>0. /\ OnlyBio(w) /\ io \in [Workers -> Io] /\ corrupted_errs \in Nat /\ corrupted_errs' \in Nat
      /\ io[w].seen \in Nat
  BY StepBio DEF TypeOK, Io
<1>1. seen \in [Workers -> Nat] /\ seen2 \in [Workers -> Nat]
  BY <1>0 DEF OnlyBio, Io
<1>2. Counted(corrupted_errs, at, seen)
  BY DEF ErrsBounded, Counted, At
<1>3. \A v \in Workers : v # w => at2[v] = at[v] /\ seen2[v] = seen[v]
  BY <1>0 DEF OnlyBio
<1>a. \A p \in Points : Go(w, p) => io'[w].pc = p
  BY <1>0, GoEffect
<1>b. \A result \in {"ok", "error"} : Finish(w, result) => io'[w].pc = "done"
  BY <1>0, FinishType
<1>c. \A type \in {"data", "metadata"} : Failed(w, type) => io'[w].pc = "failed"
  BY <1>0, FailedEffect
<1>d. ChainStep(w) => io'[w].pc \in {"data", "read"}
  BY <1>0, ChainEffect DEF ChainStep
<1>e. AdvanceStep(w) => io'[w].pc = "next"
  BY <1>0, AdvanceEffect DEF AdvanceStep
<1>4. \/ corrupted_errs' = corrupted_errs /\ io'[w].pc \notin {"count", "add"}
      \/ corrupted_errs' = corrupted_errs /\ io'[w].pc = "count" /\ corrupted_errs < MaxErrs
      \/ corrupted_errs' = corrupted_errs /\ io[w].pc = "count" /\ io'[w].pc = "add" /\ io'[w].seen = corrupted_errs
      \/ corrupted_errs' = io[w].seen + 1 /\ io[w].pc = "add" /\ io'[w].pc \notin {"count", "add"}
  <2>1. CASE Work(w) \/ ReadHash(w) \/ TestFlag(w) \/ Compare(w)
    <3>1. corrupted_errs' = corrupted_errs
      BY <2>1 DEF Work, ReadHash, TestFlag, Compare, sharedVars
    <3>2. io'[w].pc \notin {"count", "add"}
      BY <2>1, <1>a, <1>b, <1>c, <1>d DEF Work, ReadHash, TestFlag, ChainStep, Compare, Points, Busy
    <3> QED
      BY <3>1, <3>2
  <2>2. CASE TestData(w) \/ Resolve(w)
    <3>1. corrupted_errs' = corrupted_errs
      BY <2>2 DEF TestData, Resolve, sharedVars
    <3>2. io'[w].pc \notin {"count", "add"}
      BY <2>2, <1>a, <1>b, <1>c, <1>e DEF TestData, AdvanceStep, Resolve, Points, Busy
    <3> QED
      BY <3>1, <3>2
  <2>3. CASE NextBlock(w)
    <3>1. corrupted_errs' = corrupted_errs
      BY <2>3 DEF NextBlock, sharedVars
    <3>2. io'[w].pc \notin {"count", "add"}
      BY <1>0, <2>3, <1>b, <1>d, NextBlockEffect DEF ChainStep
    <3> QED
      BY <3>1, <3>2
  <2>4. CASE Take(w)
    BY <2>4, TakeEffect DEF Take, sharedVars
  <2>5. CASE Fail(w)
    <3>1. corrupted_errs' = corrupted_errs
      BY <2>5 DEF Fail
    <3>2. Go(w, "mode") \/ (Go(w, "count") /\ corrupted_errs < MaxErrs)
      BY <1>0, <2>5, MaxErrsAssumption DEF Fail, LimitReached
    <3> QED
      BY <1>a, <3>1, <3>2 DEF Points, Busy, Handling
  <2>6. CASE Load(w)
    BY <1>0, <2>6, LoadEffect DEF Load, At, sharedVars
  <2>7. CASE Store(w)
    BY <1>a, <2>7 DEF Store, At, Points, Busy, Handling
  <2> QED
    BY <2>1, <2>2, <2>3, <2>4, <2>5, <2>6, <2>7 DEF Step
<1>5. \/ corrupted_errs' = corrupted_errs /\ at2[w] \notin {"count", "add"}
      \/ corrupted_errs' = corrupted_errs /\ at2[w] = "count" /\ corrupted_errs < MaxErrs
      \/ corrupted_errs' = corrupted_errs /\ at[w] = "count" /\ at2[w] = "add" /\ seen2[w] = corrupted_errs
      \/ corrupted_errs' = seen[w] + 1 /\ at[w] = "add" /\ at2[w] \notin {"count", "add"}
  BY <1>4
<1> HIDE DEF at, at2, seen, seen2
<1>6. Counted(corrupted_errs', at2, seen2)
  BY <1>0, <1>1, <1>2, <1>3, <1>5, CountingSteps
<1> QED
  BY <1>6 DEF at2, seen2

-----------------------------------------------------------------------------
(* All together.                                                           *)

\* What is inductive: each part needs some of the others.
Inv == OnlyVerified /\ Reported /\ Released

\* A step of a worker that verifies keeps all of it.
LEMMA WorkerInv ==
  ASSUME Inv, NEW w \in Workers, Step(w)
  PROVE  Inv'
<1>0. /\ TypeOK /\ Underway /\ HoldsMatch /\ WantsRight /\ VerifiedGood /\ DeliveredGood
      /\ CorruptionVisible /\ NoFalseAlarm /\ ErrsBounded /\ NothingAfterDestroy
  BY DEF Inv, OnlyVerified, Reported, Released
<1>1. TypeOK' /\ HoldsMatch' /\ WantsRight' /\ VerifiedGood' /\ DeliveredGood'
  BY <1>0, WorkerType, WorkerHolds, WorkerWants, WorkerVerified, WorkerDelivers
<1>2. CorruptionVisible' /\ NoFalseAlarm' /\ ErrsBounded'
  BY <1>0, <1>1, WorkerVisible, WorkerNoFalseAlarm, WorkerCounts
<1>3. OnlyBio(w) /\ UnderBio(io'[w])
  BY <1>0, StepBio
<1>4. Underway'
  <2>1. \A v \in Workers : UnderBio(io'[v])
    BY <1>0, <1>3 DEF OnlyBio, Underway, UnderBio, InFlight, OnBlock, At
  <2> QED
    BY <2>1 DEF Underway, UnderBio, InFlight, OnBlock, At
<1>5. NothingAfterDestroy'
  <2>1. InFlight(w)
    BY DEF Step, Work, NextBlock, ReadHash, TestFlag, Compare, Take, TestData, Fail, Load, Store, Resolve, At, InFlight
  <2>2. target = "up" /\ target' = target
    BY <1>0, <2>1 DEF NothingAfterDestroy, Step
  <2> QED
    BY <2>2 DEF NothingAfterDestroy
<1> QED
  BY <1>1, <1>2, <1>4, <1>5 DEF Inv, OnlyVerified, Reported, Released

\* A bio that is submitted, or answered by the data device, is not verified yet.
Unverified(w) ==
  /\ OnlyBio(w) /\ UnderBio(io'[w]) /\ io[w].pc \notin Busy \cup {"halted"}
  /\ io'[w].pc \in {"device", "queued", "done"} /\ io'[w].res # "ok"
  /\ io'[w].pc = "queued" /\ ~tampered' => \A b \in 0..io'[w].n_blocks - 1 : io'[w].data[b] = "good"
  /\ tampered \in BOOLEAN /\ tampered' \in BOOLEAN /\ (tampered => tampered')
  /\ mode' = mode /\ buf' = buf /\ hash_failed' = hash_failed /\ corrupted_errs' = corrupted_errs

\* verity_map and verity_end_io leave the bio unverified.
LEMMA MapEffect ==
  ASSUME TypeOK, NEW w \in Workers, NEW bio \in Bios, Map(w, bio)
  PROVE  Unverified(w)
<1> DEFINE q == [Idle EXCEPT !.pc = "device", !.block = bio[1], !.n_blocks = bio[2]]
<1>0. io \in [Workers -> Io] /\ tampered \in BOOLEAN
  BY DEF TypeOK
<1>1. bio[1] \in Nat /\ bio[2] \in Nat /\ bio[2] > 0 /\ bio = <<bio[1], bio[2]>>
  BY BiosAssumption
<1>2. /\ q \in Io /\ q.pc = "device" /\ q.block = bio[1] /\ q.n_blocks = bio[2]
      /\ q.b = 0 /\ q.skip = FALSE /\ q.res = "none" /\ q.type = "data"
  BY <1>1 DEF Idle, Io, Points, Digests, AllContents, Data
<1>3. io' = [io EXCEPT ![w] = q]
  BY DEF Map
<1> HIDE DEF q
<1>4. UnderBio(q)
  BY <1>1, <1>2 DEF UnderBio, Busy, Handling, Verifying
<1>5. OnlyBio(w) /\ io'[w] = q
  BY <1>0, <1>2, <1>3 DEF OnlyBio
<1>6. io[w].pc \notin Busy \cup {"halted"}
  BY DEF Map, InFlight, Busy, Handling
<1> QED
  BY <1>0, <1>2, <1>4, <1>5, <1>6 DEF Unverified, Map, sharedVars

\* An answer of the data device, error or not, leaves the bio unverified.
LEMMA EndIoEffect ==
  ASSUME TypeOK, Underway, NEW w \in Workers, EndIo(w)
  PROVE  Unverified(w)
<1>0. /\ io \in [Workers -> Io] /\ io[w] \in Io /\ tampered \in BOOLEAN /\ io[w].pc = "device"
      /\ io[w].n_blocks \in Nat /\ io[w].b \in Nat
  BY DEF TypeOK, EndIo, At, Io
<1>1. UnderBio(io[w])
  BY DEF Underway, UnderBio, InFlight, OnBlock, At
<1>2. io[w].pc \notin Busy \cup {"halted"}
  BY <1>0 DEF Busy, Handling
<1>3. CASE Finish(w, "error") /\ UNCHANGED tampered
  <2>1. OnlyBio(w) /\ io'[w].pc = "done" /\ io'[w].res = "error" /\ io'[w].skip = FALSE /\ io'[w].b = 0
    BY <1>0, <1>3, FinishType DEF OnlyBio
  <2>2. io'[w].n_blocks \in Nat
    BY <2>1 DEF OnlyBio, Io
  <2>3. UnderBio(io'[w])
    BY <2>1, <2>2 DEF UnderBio, Busy, Handling, Verifying
  <2> QED
    BY <1>0, <1>2, <1>3, <2>1, <2>3 DEF Unverified, EndIo, sharedVars
<1>4. ASSUME NEW data \in [0..io[w].n_blocks - 1 -> Contents],
             io' = [io EXCEPT ![w].pc = "queued", ![w].data = data],
             tampered' = (tampered \/ \E b \in DOMAIN data : data[b] # "good")
      PROVE  Unverified(w)
  <2> DEFINE q == [io[w] EXCEPT !.pc = "queued", !.data = data]
  <2>1. data \in [0..io[w].n_blocks - 1 -> AllContents]
    BY <1>4, ContentsAssumption
  <2>2. <<io[w].block, io[w].n_blocks>> \in Bios
    BY <1>0, <1>1 DEF UnderBio
  <2>3. data \in Data
    BY <2>1, <2>2, DataOfBio
  <2>4. /\ q \in Io /\ q.pc = "queued" /\ q.data = data /\ q.block = io[w].block /\ q.n_blocks = io[w].n_blocks
        /\ q.b = io[w].b /\ q.skip = io[w].skip /\ q.res = io[w].res /\ q.level = io[w].level
    BY <1>0, <2>3 DEF Io, Points
  <2>5. io' = [io EXCEPT ![w] = q]
    BY <1>4
  <2> HIDE DEF q
  <2>6. OnlyBio(w) /\ io'[w] = q
    BY <1>0, <2>4, <2>5 DEF OnlyBio
  <2>7. io[w].res # "ok"
    BY <1>0, <1>1 DEF UnderBio
  <2>8. UnderBio(q)
    BY <1>0, <1>1, <2>1, <2>2, <2>4, <2>7 DEF UnderBio, Busy, Handling, Verifying
  <2>9. DOMAIN data = 0..io[w].n_blocks - 1
    BY <2>1
  <2>10. ~tampered' => \A b \in 0..io[w].n_blocks - 1 : data[b] = "good"
    BY <1>4, <2>9
  <2>11. tampered' \in BOOLEAN /\ (tampered => tampered')
    BY <1>0, <1>4
  <2> QED
    BY <1>0, <1>2, <2>4, <2>6, <2>7, <2>8, <2>10, <2>11 DEF Unverified, EndIo, sharedVars
<1> QED
  BY <1>3, <1>4 DEF EndIo

\* They keep all of it.
LEMMA UnverifiedInv ==
  ASSUME Inv, NEW w \in Workers, Unverified(w), target' = target, prefetches' \subseteq Bios,
         \/ target = "up"
         \/ InFlight(w) /\ prefetches' = prefetches
  PROVE  Inv'
<1>0. /\ TypeOK /\ Underway /\ HoldsMatch /\ WantsRight /\ VerifiedGood /\ DeliveredGood
      /\ CorruptionVisible /\ NoFalseAlarm /\ ErrsBounded /\ NothingAfterDestroy
  BY DEF Inv, OnlyVerified, Reported, Released
<1>1. \A v \in Workers : v # w => io'[v] = io[v]
  BY DEF Unverified, OnlyBio
<1>2. io'[w].pc \in {"device", "queued", "done"} /\ io[w].pc \notin Busy \cup {"halted"}
  BY DEF Unverified
<1>3. TypeOK'
  BY <1>0 DEF TypeOK, Unverified, OnlyBio
<1>4. Underway'
  <2>1. \A v \in Workers : UnderBio(io'[v])
    BY <1>0, <1>1 DEF Unverified, Underway, UnderBio, InFlight, OnBlock, At
  <2> QED
    BY <2>1 DEF Underway, UnderBio, InFlight, OnBlock, At
<1>5. HoldsMatch'
  <2>1. ~HoldBio(io[w]) /\ ~HoldBio(io'[w])
    BY <1>2 DEF HoldBio, Busy, Handling
  <2>2. HoldersAre(buf, io) /\ buf' = buf
    BY <1>0, HoldersMatch DEF Unverified
  <2>3. HoldersAre(buf', io')
    BY <1>1, <2>1, <2>2 DEF HoldersAre
  <2> QED
    BY <2>3, HoldersMatchNext
<1>6. Trusted' <=> Trusted
  BY DEF Unverified, Trusted
<1>7. WantsRight'
  BY <1>0, <1>1, <1>2, <1>6 DEF WantsRight, At, Hash
<1>8. VerifiedGood'
  BY <1>0, <1>1, <1>2, <1>6 DEF VerifiedGood, Unverified, At, Hash
<1>9. DeliveredGood'
  BY <1>0, <1>1, <1>2, <1>6 DEF DeliveredGood, Unverified, Passed, Delivered, Busy, Handling
<1>10. CorruptionVisible'
  BY <1>0, <1>1, <1>2 DEF CorruptionVisible, Unverified, Delivered
<1>11. NoFalseAlarm'
  BY <1>0, <1>1, <1>2 DEF NoFalseAlarm, Unverified, Busy, Handling
<1>12. ErrsBounded'
  BY <1>0, <1>1, <1>2 DEF ErrsBounded, Unverified, At
<1>13. NothingAfterDestroy'
  BY <1>0 DEF NothingAfterDestroy, Unverified
<1> QED
  BY <1>3, <1>4, <1>5, <1>7, <1>8, <1>9, <1>10, <1>11, <1>12, <1>13 DEF Inv, OnlyVerified, Reported, Released

\* The steps that touch the buffers and no bio: prefetches and evictions, where
\* nobody holds a buffer.
AroundBuffers ==
  /\ io' = io /\ mode' = mode /\ hash_failed' = hash_failed /\ corrupted_errs' = corrupted_errs
  /\ buf' \in [HashIds -> Buffer \cup {NoBuffer}]
  /\ \A h \in HashIds :
       \/ buf'[h] = buf[h]
       \/ /\ buf[h] = NoBuffer \/ buf[h].holders = {}
          /\ buf'[h] # NoBuffer => /\ buf'[h].holders = {} /\ buf'[h].verified = FALSE
                                   /\ ~tampered' => buf'[h].content \in {"good", "error"}
  /\ tampered' \in BOOLEAN /\ (tampered => tampered')

\* They keep all that is said of buffers and bios.
LEMMA AroundInv ==
  ASSUME Inv, AroundBuffers, prefetches' \subseteq Bios, target' \in {"up", "closing", "drained", "gone"},
         NothingAfterDestroy'
  PROVE  Inv'
<1>0. /\ TypeOK /\ Underway /\ HoldsMatch /\ WantsRight /\ VerifiedGood /\ DeliveredGood
      /\ CorruptionVisible /\ NoFalseAlarm /\ ErrsBounded
  BY DEF Inv, OnlyVerified, Reported, Released
<1>1. TypeOK'
  BY <1>0 DEF TypeOK, AroundBuffers
<1>2. Underway'
  BY <1>0 DEF Underway, AroundBuffers, InFlight, OnBlock, At
<1>3. HoldersAre(buf, io) /\ \A v \in Workers : HoldBio(io[v]) => HashBio(io[v]) \in HashIds
  BY <1>0, HoldersMatch, OnBlockHash DEF HoldBio, OnBlock, Hash, HashBio
<1>4. HoldsMatch'
  <2>1. HoldersAre(buf', io')
    BY <1>3 DEF HoldersAre, AroundBuffers
  <2> QED
    BY <2>1, HoldersMatchNext
<1>5. Trusted' <=> Trusted
  BY DEF AroundBuffers, Trusted
<1>6. WantsRight'
  BY <1>0, <1>5 DEF WantsRight, AroundBuffers, At, Hash
<1>7. VerifiedGood'
  <2> SUFFICES ASSUME Trusted
               PROVE  /\ \A h \in HashIds : buf'[h] # NoBuffer /\ buf'[h].verified => buf'[h].content = "good"
                      /\ \A v \in Workers : io[v].pc = "take" => buf'[HashBio(io[v])].verified
    BY <1>5 DEF VerifiedGood, At, Hash, HashBio, AroundBuffers
  <2>1. \A h \in HashIds : buf'[h] # NoBuffer /\ buf'[h].verified => buf'[h].content = "good"
    BY <1>0 DEF VerifiedGood, AroundBuffers
  <2>2. ASSUME NEW v \in Workers, io[v].pc = "take"
        PROVE  buf'[HashBio(io[v])] = buf[HashBio(io[v])] /\ buf[HashBio(io[v])].verified
    <3>1. HashBio(io[v]) \in HashIds /\ buf[HashBio(io[v])] # NoBuffer /\ v \in buf[HashBio(io[v])].holders
      BY <1>3, <2>2 DEF HoldersAre, HoldBio
    <3> QED
      BY <1>0, <2>2, <3>1 DEF AroundBuffers, VerifiedGood, At, Hash, HashBio
  <2> QED
    BY <2>1, <2>2
<1>8. DeliveredGood'
  BY <1>0, <1>5 DEF DeliveredGood, AroundBuffers, Passed, Delivered
<1>9. CorruptionVisible'
  BY <1>0 DEF CorruptionVisible, AroundBuffers, Delivered
<1>10. NoFalseAlarm'
  BY <1>0 DEF NoFalseAlarm, AroundBuffers
<1>11. ErrsBounded'
  BY <1>0 DEF ErrsBounded, AroundBuffers, At
<1> QED
  BY <1>1, <1>2, <1>4, <1>6, <1>7, <1>8, <1>9, <1>10, <1>11 DEF Inv, OnlyVerified, Reported, Released

\* A prefetch brings in blocks that nobody had.
LEMMA PrefetchInv ==
  ASSUME Inv, NEW bio \in prefetches, NEW S \in SUBSET Fillers, Prefetch(bio, S)
  PROVE  Inv'
<1>0. TypeOK /\ NothingAfterDestroy
  BY DEF Inv, Released
<1>1. PICK got \in [S -> Contents \cup {"error"}] :
        /\ buf' = [h \in HashIds |-> IF h \in S THEN Fresh(h, got[h], {}) ELSE buf[h]]
        /\ tampered' = (tampered \/ \E h \in S : got[h] \notin {"good", "error"})
  BY DEF Prefetch
<1>2. ASSUME NEW h \in HashIds, h \in S
      PROVE  /\ buf'[h] \in Buffer /\ buf[h] = NoBuffer
             /\ buf'[h].holders = {} /\ buf'[h].verified = FALSE /\ buf'[h].content = got[h]
  <2>1. got[h] \in AllContents \cup {"error"}
    BY <1>1, <1>2, ContentsAssumption
  <2>2. buf'[h] = Fresh(h, got[h], {})
    BY <1>1, <1>2
  <2> QED
    BY <1>2, <2>1, <2>2 DEF Prefetch, Fresh, FreshFlag, Buffer
<1>3. \A h \in HashIds : h \notin S => buf'[h] = buf[h]
  BY <1>1
<1>4. buf' \in [HashIds -> Buffer \cup {NoBuffer}]
  <2>1. \A h \in HashIds : buf'[h] \in Buffer \cup {NoBuffer}
    BY <1>0, <1>2, <1>3 DEF TypeOK
  <2>2. buf' = [h \in HashIds |-> buf'[h]]
    BY <1>1
  <2> QED
    BY <2>1, <2>2
<1>5. tampered' \in BOOLEAN /\ (tampered => tampered') /\ (~tampered' => \A h \in S : got[h] \in {"good", "error"})
  BY <1>0, <1>1 DEF TypeOK
<1>6. AroundBuffers
  BY <1>2, <1>3, <1>4, <1>5 DEF AroundBuffers, Prefetch, sharedVars
<1>7. NothingAfterDestroy'
  BY <1>0, <1>6 DEF NothingAfterDestroy, Prefetch, AroundBuffers, InFlight
<1> QED
  BY <1>0, <1>6, <1>7, AroundInv DEF Prefetch, TypeOK

\* An eviction drops a buffer that nobody holds.
LEMMA EvictInv ==
  ASSUME Inv, NEW h \in HashIds, Evict(h)
  PROVE  Inv'
<1>0. TypeOK /\ NothingAfterDestroy
  BY DEF Inv, Released
<1>1. AroundBuffers
  BY <1>0 DEF AroundBuffers, Evict, sharedVars, TypeOK
<1>2. NothingAfterDestroy'
  BY <1>0 DEF NothingAfterDestroy, Evict, InFlight
<1> QED
  BY <1>0, <1>1, <1>2, AroundInv DEF Evict, TypeOK

\* The teardown: no bio is left when it starts, so that no buffer is held when
\* dm-bufio's client is destroyed.
LEMMA TeardownInv ==
  ASSUME Inv, Dtr \/ DestroyWorkqueue \/ DestroyBufio
  PROVE  Inv'
<1>0. TypeOK /\ NothingAfterDestroy /\ HoldsMatch
  BY DEF Inv, OnlyVerified, Released
<1>1. CASE Dtr
  <2>1. AroundBuffers
    BY <1>0, <1>1 DEF AroundBuffers, Dtr, sharedVars, TypeOK
  <2>2. NothingAfterDestroy'
    BY <1>0, <1>1 DEF NothingAfterDestroy, Dtr, InFlight
  <2> QED
    BY <1>0, <1>1, <2>1, <2>2, AroundInv DEF Dtr, TypeOK
<1>2. CASE DestroyWorkqueue
  <2>1. AroundBuffers
    BY <1>0, <1>2 DEF AroundBuffers, DestroyWorkqueue, sharedVars, TypeOK
  <2>2. NothingAfterDestroy'
    BY <1>0, <1>2 DEF NothingAfterDestroy, DestroyWorkqueue, Drained, InFlight
  <2> QED
    BY <1>0, <1>2, <2>1, <2>2, AroundInv DEF DestroyWorkqueue, TypeOK
<1>3. CASE DestroyBufio
  <2>1. AroundBuffers
    BY <1>0, <1>3 DEF AroundBuffers, DestroyBufio, sharedVars, TypeOK
  <2>2. \A w \in Workers : ~InFlight(w) /\ ~HoldBio(io[w])
    BY <1>0, <1>3 DEF NothingAfterDestroy, DestroyBufio, InFlight, HoldBio, Handling
  <2>3. \A h \in HashIds : buf[h] # NoBuffer => buf[h].holders = {}
    <3> SUFFICES ASSUME NEW h \in HashIds, buf[h] # NoBuffer PROVE buf[h].holders = {}
      OBVIOUS
    <3>1. HoldersAre(buf, io)
      BY <1>0, HoldersMatch
    <3>2. \A w \in Workers : w \notin buf[h].holders
      BY <2>2, <3>1 DEF HoldersAre
    <3>3. buf[h].holders \subseteq Workers
      BY <1>0 DEF TypeOK, Buffer
    <3> QED
      BY <3>2, <3>3
  <2>4. \A h \in HashIds : buf'[h] = NoBuffer
    BY <1>3, <2>3 DEF DestroyBufio
  <2>5. NothingAfterDestroy'
    BY <1>0, <1>3, <2>2, <2>4 DEF NothingAfterDestroy, DestroyBufio, InFlight
  <2> QED
    BY <1>0, <1>3, <2>1, <2>5, AroundInv DEF DestroyBufio, TypeOK
<1> QED
  BY <1>1, <1>2, <1>3

\* It holds at first.
LEMMA InitInv == Init => Inv
<1> SUFFICES ASSUME Init PROVE Inv
  OBVIOUS
<1>1. TypeOK
  BY InitType
<1>2. /\ \A w \in Workers : /\ io[w].pc = "idle" /\ io[w].res = "none" /\ io[w].b = 0 /\ io[w].n_blocks = 0
                            /\ io[w].skip = FALSE
      /\ hash_failed = 0 /\ corrupted_errs = 0 /\ target = "up"
      /\ \A h \in HashIds : buf[h] = NoBuffer
  BY DEF Init, Idle
<1>3. Underway
  BY <1>2 DEF Underway, InFlight, OnBlock, At, Busy, Verifying, Handling
<1>4. HoldsMatch /\ WantsRight
  BY <1>2 DEF HoldsMatch, WantsRight, Holding, OnBlock, At, Handling
<1>5. VerifiedGood /\ DeliveredGood
  BY <1>2 DEF VerifiedGood, DeliveredGood, At, Busy, Handling
<1>6. CorruptionVisible /\ NoFalseAlarm
  BY <1>2 DEF CorruptionVisible, NoFalseAlarm, Busy, Handling
<1>7. ErrsBounded
  BY <1>2, MaxErrsAssumption DEF ErrsBounded, At
<1>8. NothingAfterDestroy
  BY <1>2 DEF NothingAfterDestroy
<1> QED
  BY <1>1, <1>3, <1>4, <1>5, <1>6, <1>7, <1>8 DEF Inv, OnlyVerified, Reported, Released

\* Every step keeps it.
LEMMA NextInv == Inv /\ [Next]_vars => Inv'
<1> SUFFICES ASSUME Inv, [Next]_vars PROVE Inv'
  OBVIOUS
<1>0. TypeOK /\ NothingAfterDestroy
  BY DEF Inv, Released
<1>1. ASSUME NEW w \in Workers, Step(w) PROVE Inv'
  BY <1>1, WorkerInv
<1>2. ASSUME NEW w \in Workers, EndIo(w) PROVE Inv'
  <2>1. Unverified(w)
    BY <1>0, <1>2, EndIoEffect DEF Inv, OnlyVerified
  <2> QED
    BY <1>0, <1>2, <2>1, UnverifiedInv DEF EndIo, InFlight, At, TypeOK
<1>3. ASSUME NEW w \in Workers, NEW bio \in Bios, Map(w, bio) PROVE Inv'
  <2>1. Unverified(w)
    BY <1>0, <1>3, MapEffect
  <2>2. prefetches' \subseteq Bios /\ target' = target /\ target = "up"
    BY <1>0, <1>3 DEF Map, TypeOK
  <2> QED
    BY <2>1, <2>2, UnverifiedInv
<1>4. ASSUME NEW bio \in prefetches, NEW S \in SUBSET Fillers, Prefetch(bio, S) PROVE Inv'
  BY <1>4, PrefetchInv
<1>5. ASSUME NEW h \in HashIds, Evict(h) PROVE Inv'
  BY <1>5, EvictInv
<1>6. CASE Dtr \/ DestroyWorkqueue \/ DestroyBufio
  BY <1>6, TeardownInv
<1>7. CASE UNCHANGED vars
  <2>1. AroundBuffers
    BY <1>0, <1>7 DEF AroundBuffers, vars, sharedVars, TypeOK
  <2>2. NothingAfterDestroy'
    BY <1>0, <1>7 DEF NothingAfterDestroy, vars, sharedVars, InFlight
  <2> QED
    BY <1>0, <1>7, <2>1, <2>2, AroundInv DEF vars, TypeOK
<1> QED
  BY <1>1, <1>2, <1>3, <1>4, <1>5, <1>6, <1>7 DEF Next

\* The invariant of the verification.
LEMMA VerityInv == Spec => []Inv
<1> QED
  BY InitInv, NextInv, PTL DEF Spec

-----------------------------------------------------------------------------
\* No bio of any number of workers succeeds with content the root digest does not
\* vouch for, unless mismatches are ignored: verity_verify_level holds the buffers
\* it takes digests from, hash_verified is only on buffers that belong to the
\* tree, and the digest compared with is always that of the block at hand.
THEOREM VerityOnlyVerified == Spec => []OnlyVerified
<1>1. Inv => OnlyVerified
  BY DEF Inv
<1> QED
  BY <1>1, VerityInv, PTL

\* hash_failed tells of whatever was let through, it is set only if something was
\* tampered with, and two workers count one error more than the limit at most.
THEOREM VerityReported == Spec => []Reported
<1>1. Inv => Reported
  BY DEF Inv
<1> QED
  BY <1>1, VerityInv, PTL

\* Types, and the order of verity_dtr: the cache is destroyed after the last bio and
\* the last prefetch, and no path through the verification has kept a buffer.
THEOREM VerityReleased == Spec => []Released
<1>1. Inv => Released
  BY DEF Inv
<1> QED
  BY <1>1, VerityInv, PTL

-----------------------------------------------------------------------------
(* The target.  First the arithmetic: powers of two, quotients, the highest *)
(* bit, and what verity_ctr computes from them.                            *)

\* Of a set of natural numbers that is not empty one is the least.
LEMMA LeastNumber ==
    ASSUME NEW S \in SUBSET Nat, S # {}
    PROVE  \E m \in S : \A x \in S : m <= x
<1>1. PICK m \in S : \A x \in S : ~(<<x, m>> \in OpToRel(<, Nat))
  BY NatLessThanWellFounded, WFMin
<1>2. \A x \in S : ~(x < m)
  BY <1>1 DEF OpToRel
<1> QED
  BY <1>2

\* The first so many powers of two.
Powers(f, n) ==
    /\ f \in [0..n -> Nat \ {0}] /\ f[0] = 1
    /\ \A k \in 1..n : f[k] = 2 * f[k - 1]

\* There are tables of them, of any length, and they agree.
LEMMA PowersExist == \A n \in Nat : \E f : Powers(f, n)
<1> DEFINE S == {n \in Nat : ~ \E f : Powers(f, n)}
<1>1. ASSUME S # {} PROVE FALSE
  <2>1. PICK m \in S : \A x \in S : m <= x
    BY <1>1, LeastNumber
  <2>2. m # 0
    <3>1. Powers([k \in 0..0 |-> 1], 0)
      BY DEF Powers
    <3> QED
      BY <2>1, <3>1
  <2>3. m - 1 \in Nat /\ ~(m - 1 \in S)
    BY <2>1, <2>2
  <2>4. PICK f : Powers(f, m - 1)
    BY <2>3
  <2> DEFINE g == [k \in 0..m |-> IF k = m THEN 2 * f[m - 1] ELSE f[k]]
  <2>5. Powers(g, m)
    <3>1. m \in Nat
      OBVIOUS
    <3>2. f[m - 1] \in Nat \ {0}
      BY <2>3, <2>4 DEF Powers
    <3>3. \A k \in 0..m : g[k] \in Nat \ {0}
      BY <2>2, <2>4, <3>1, <3>2 DEF Powers
    <3>4. g[0] = 1
      BY <2>2, <2>4, <3>1 DEF Powers
    <3>5. \A k \in 1..m : g[k] = 2 * g[k - 1]
      BY <2>2, <2>4, <3>1 DEF Powers
    <3> QED
      BY <3>3, <3>4, <3>5 DEF Powers
  <2> QED
    BY <2>1, <2>5
<1> QED
  BY <1>1

\* Two tables agree as far as both go.
LEMMA PowersAgree ==
    ASSUME NEW a \in Nat, NEW b \in Nat, NEW f, NEW g, Powers(f, a), Powers(g, b)
    PROVE  \A k \in Nat : k <= a /\ k <= b => f[k] = g[k]
<1> DEFINE S == {k \in Nat : k <= a /\ k <= b /\ f[k] # g[k]}
<1>1. ASSUME S # {} PROVE FALSE
  <2>1. PICK m \in S : \A x \in S : m <= x
    BY <1>1, LeastNumber
  <2>2. m # 0
    BY <2>1 DEF Powers
  <2>3. m - 1 \in Nat /\ ~(m - 1 \in S)
    BY <2>1, <2>2
  <2> QED
    BY <2>1, <2>2, <2>3 DEF Powers
<1> QED
  BY <1>1

\* So TwoTo, which is defined by recursion, is what it says.
LEMMA TwoToSays == TwoTo = [k \in Nat |-> IF k = 0 THEN 1 ELSE 2 * TwoTo[k - 1]]
<1> DEFINE F(k) == CHOOSE f : Powers(f, k)
           g == [k \in Nat |-> F(k)[k]]
<1>1. \A k \in Nat : Powers(F(k), k)
  BY PowersExist
<1> HIDE DEF F
<1>2. g = [k \in Nat |-> IF k = 0 THEN 1 ELSE 2 * g[k - 1]]
  <2>1. ASSUME NEW k \in Nat PROVE g[k] = IF k = 0 THEN 1 ELSE 2 * g[k - 1]
    <3>1. CASE k = 0
      BY <1>1, <3>1 DEF Powers
    <3>2. CASE k # 0
      <4>1. k - 1 \in Nat
        BY <3>2
      <4>2. F(k)[k - 1] = F(k - 1)[k - 1]
        BY <1>1, <4>1, PowersAgree
      <4>3. F(k)[k] = 2 * F(k)[k - 1]
        BY <1>1, <3>2 DEF Powers
      <4> QED
        BY <3>2, <4>1, <4>2, <4>3
    <3> QED
      BY <3>1, <3>2
  <2> QED
    BY <2>1
<1> HIDE DEF g
<1>3. \E f : f = [k \in Nat |-> IF k = 0 THEN 1 ELSE 2 * f[k - 1]]
  BY <1>2
<1> QED
  BY <1>3 DEF TwoTo

\* The powers of two begin with one and double.
LEMMA TwoToNext ==
    /\ TwoTo[0] = 1
    /\ \A k \in Nat : TwoTo[k + 1] = 2 * TwoTo[k]
BY TwoToSays

\* None of them is zero.
LEMMA TwoToPositive == \A k \in Nat : TwoTo[k] \in Nat \ {0}
<1> DEFINE S == {k \in Nat : ~(TwoTo[k] \in Nat \ {0})}
<1>1. ASSUME S # {} PROVE FALSE
  <2>1. PICK m \in S : \A x \in S : m <= x
    BY <1>1, LeastNumber
  <2>2. m # 0
    BY TwoToNext
  <2>3. m - 1 \in Nat /\ ~(m - 1 \in S)
    BY <2>1, <2>2
  <2>4. TwoTo[m] = 2 * TwoTo[m - 1]
    BY <2>3, TwoToNext
  <2> QED
    BY <2>3, <2>4
<1> QED
  BY <1>1

\* Shifts add up.
LEMMA TwoToSum == \A a, b \in Nat : TwoTo[a + b] = TwoTo[a] * TwoTo[b]
<1> SUFFICES ASSUME NEW a \in Nat PROVE \A b \in Nat : TwoTo[a + b] = TwoTo[a] * TwoTo[b]
  OBVIOUS
<1> DEFINE S == {k \in Nat : TwoTo[a + k] # TwoTo[a] * TwoTo[k]}
<1>1. ASSUME S # {} PROVE FALSE
  <2>1. PICK m \in S : \A x \in S : m <= x
    BY <1>1, LeastNumber
  <2>2. m # 0
    BY TwoToNext, TwoToPositive
  <2>3. m - 1 \in Nat /\ ~(m - 1 \in S)
    BY <2>1, <2>2
  <2>4. TwoTo[m] = 2 * TwoTo[m - 1] /\ TwoTo[a + m] = 2 * TwoTo[a + (m - 1)]
    <3>1. (m - 1) + 1 = m /\ (a + (m - 1)) + 1 = a + m /\ a + (m - 1) \in Nat
      BY <2>3
    <3> QED
      BY <2>3, <3>1, TwoToNext
  <2>5. TwoTo[a + (m - 1)] = TwoTo[a] * TwoTo[m - 1]
    BY <2>3
  <2>6. TwoTo[a] \in Nat /\ TwoTo[m - 1] \in Nat
    BY <2>3, TwoToPositive
  <2> QED
    BY <2>1, <2>4, <2>5, <2>6
<1> QED
  BY <1>1

\* One more bit is twice as much or more.
LEMMA TwoToGrows == \A a, b \in Nat : a < b => 2 * TwoTo[a] <= TwoTo[b]
<1> SUFFICES ASSUME NEW a \in Nat, NEW b \in Nat, a < b PROVE 2 * TwoTo[a] <= TwoTo[b]
  OBVIOUS
<1> DEFINE d == b - a - 1
<1>1. d \in Nat /\ b = (a + 1) + d
  OBVIOUS
<1> HIDE DEF d
<1>2. TwoTo[b] = TwoTo[a + 1] * TwoTo[d] /\ TwoTo[a + 1] = 2 * TwoTo[a]
  <2>1. TwoTo[(a + 1) + d] = TwoTo[a + 1] * TwoTo[d]
    <3>1. a + 1 \in Nat
      OBVIOUS
    <3> QED
      BY <1>1, <3>1, TwoToSum
  <2> QED
    BY <1>1, <2>1, TwoToNext
<1>3. TwoTo[a] \in Nat \ {0} /\ TwoTo[d] \in Nat \ {0}
  BY <1>1, TwoToPositive
<1>4. \A x, y \in Nat \ {0} : 2 * x <= (2 * x) * y
  OBVIOUS
<1> QED
  BY <1>2, <1>3, <1>4

\* More bits are not less.
LEMMA TwoToNoLess == \A a, b \in Nat : a <= b => TwoTo[a] <= TwoTo[b]
<1>1. \A a, b \in Nat : a < b => TwoTo[a] <= TwoTo[b]
  BY TwoToGrows, TwoToPositive
<1> QED
  BY <1>1, TwoToPositive

\* The quotient is the number of whole divisors; it never shrinks.
LEMMA DivSays ==
    /\ \A a \in Nat, d \in Nat \ {0} :
          a \div d \in Nat /\ (a \div d) * d <= a /\ a < (a \div d) * d + d
    /\ \A a, q \in Nat, d \in Nat \ {0} : q * d <= a /\ a < q * d + d => a \div d = q
OBVIOUS

\* The quotient of a greater number is not less.
LEMMA DivKeepsOrder == \A a, b \in Nat, d \in Nat \ {0} : a <= b => a \div d <= b \div d
OBVIOUS

\* What is less than the divisor has none of it.
LEMMA DivOfSmall == \A a \in Nat, d \in Nat \ {0} : a \div d = 0 <=> a < d
OBVIOUS

\* Two shifts to the right are one.
LEMMA DivTwice == \A a \in Nat, b, c \in Nat \ {0} : (a \div b) \div c = a \div (b * c)
OBVIOUS

\* Rounded up, the quotient is that of the number before and one.
LEMMA DivRoundedUp ==
    \A n, d \in Nat \ {0} : (n + d - 1) \div d = ((n - 1) \div d) + 1
<1> SUFFICES ASSUME NEW n \in Nat \ {0}, NEW d \in Nat \ {0}
             PROVE  (n + d - 1) \div d = ((n - 1) \div d) + 1
  OBVIOUS
<1> DEFINE q == (n - 1) \div d
<1>1. q \in Nat /\ q * d <= n - 1 /\ n - 1 < q * d + d
  BY DivSays
<1> HIDE DEF q
<1>2. (q + 1) * d = q * d + d /\ n + d - 1 \in Nat /\ q * d \in Nat
  BY <1>1
<1>3. (q + 1) * d <= n + d - 1 /\ n + d - 1 < (q + 1) * d + d
  BY <1>1, <1>2
<1>4. (n + d - 1) \div d = q + 1
  BY <1>1, <1>2, <1>3, DivSays
<1> QED
  BY <1>4 DEF q

\* The highest bit of a number of the machine.
LEMMA FlsSays ==
    ASSUME NEW n \in Nat \ {0}, n < Word
    PROVE  Fls(n) \in 0..Width - 1 /\ TwoTo[Fls(n)] <= n /\ n < TwoTo[Fls(n) + 1]
<1> DEFINE S == {k \in Nat : n < TwoTo[k]}
<1>1. Width \in S
  BY WidthAssumption DEF Word
<1>2. PICK m \in S : \A x \in S : m <= x
  BY <1>1, LeastNumber
<1>3. m # 0
  BY <1>2, TwoToNext
<1>4. m - 1 \in Nat /\ ~(m - 1 \in S) /\ m <= Width
  BY <1>1, <1>2, <1>3
<1>5. m - 1 \in 0..Width - 1 /\ TwoTo[m - 1] <= n /\ n < TwoTo[(m - 1) + 1]
  BY <1>2, <1>4, TwoToPositive, WidthAssumption
<1>6. \E k \in 0..Width - 1 : TwoTo[k] <= n /\ n < TwoTo[k + 1]
  BY <1>5
<1> QED
  BY <1>6 DEF Fls

\* A power of two has one bit.
LEMMA FlsOfPower ==
    ASSUME NEW n, PowerOfTwo(n)
    PROVE  Fls(n) \in 0..Width - 1 /\ TwoTo[Fls(n)] = n
<1>1. PICK k \in 0..Width - 1 : n = TwoTo[k]
  BY DEF PowerOfTwo
<1>2. k \in Nat /\ Width \in Nat /\ k < Width
  BY WidthAssumption
<1>3. n \in Nat \ {0} /\ n < Word
  BY <1>1, <1>2, TwoToPositive, TwoToGrows DEF Word
<1> DEFINE f == Fls(n)
<1>4. f \in 0..Width - 1 /\ TwoTo[f] <= n /\ n < TwoTo[f + 1]
  BY <1>3, FlsSays
<1> HIDE DEF f
<1>5. f \in Nat /\ f + 1 \in Nat
  BY <1>4
<1>6. ~(f < k)
  <2> SUFFICES ASSUME f < k PROVE FALSE
    OBVIOUS
  <2>1. f + 1 <= k
    BY <1>2, <1>5
  <2>2. TwoTo[f + 1] <= TwoTo[k]
    BY <1>2, <1>5, <2>1, TwoToNoLess
  <2> QED
    BY <1>1, <1>3, <1>4, <1>5, <2>2, TwoToPositive
<1>7. ~(k < f)
  BY <1>1, <1>2, <1>3, <1>4, <1>5, TwoToGrows, TwoToPositive
<1>8. f = k
  BY <1>2, <1>5, <1>6, <1>7
<1> QED
  BY <1>1, <1>4, <1>8 DEF f

\* A shift by less than the width of the word is a quotient.
LEMMA ShrSays ==
    ASSUME NEW k \in Nat, k < Width
    PROVE  /\ k % Width = k
           /\ \A n : Shr(n, k) = n \div TwoTo[k]
<1>1. k % Width = k
  BY WidthAssumption
<1> QED
  BY <1>1 DEF Shr

\* What is known of the number of levels: the highest covers all data blocks,
\* and no level below it does.
LEMMA LevelsSay ==
    ASSUME NEW n \in Nat \ {0}, NEW b \in Nat \ {0}
    PROVE  /\ Levels(n, b) \in 0..Width
           /\ b * Levels(n, b) < Width => n - 1 < TwoTo[b * Levels(n, b)]
           /\ \A m \in 0..Levels(n, b) - 1 : b * m < Width /\ ~(n - 1 < TwoTo[b * m])
<1> DEFINE Goes(l) == b * l < Width /\ Shr(n - 1, b * l) # 0
           S == {l \in Nat : ~Goes(l)}
           L == Levels(n, b)
<1>1. Width \in S
  <2>1. Width \in Nat /\ b * Width >= Width
    <3>1. \A x, y \in Nat \ {0} : x * y >= y
      OBVIOUS
    <3> QED
      BY <3>1, WidthAssumption
  <2>2. ~(b * Width < Width)
    BY <2>1
  <2> QED
    BY <2>1, <2>2
<1>2. PICK l \in S : \A x \in S : l <= x
  BY <1>1, LeastNumber
<1>3. l \in 0..Width /\ ~Goes(l) /\ \A m \in 0..l - 1 : Goes(m)
  <2> HIDE DEF Goes
  <2>1. l \in Nat /\ ~Goes(l) /\ l <= Width
    BY <1>1, <1>2
  <2>2. ASSUME NEW m \in 0..l - 1 PROVE Goes(m)
    <3>1. m \in Nat /\ ~(l <= m)
      BY <2>1, <2>2
    <3> QED
      BY <1>2, <3>1
  <2> QED
    BY <2>1, <2>2, WidthAssumption
<1>4. L = CHOOSE k \in 0..Width : ~Goes(k) /\ \A m \in 0..k - 1 : Goes(m)
  BY DEF Levels
<1> HIDE DEF L
<1>5. L \in 0..Width /\ ~Goes(L) /\ \A m \in 0..L - 1 : Goes(m)
  <2> HIDE DEF Goes
  <2> QED
    BY <1>3, <1>4
<1>6. ASSUME NEW m \in Nat, b * m < Width PROVE Shr(n - 1, b * m) = 0 <=> n - 1 < TwoTo[b * m]
  <2>1. b * m \in Nat /\ n - 1 \in Nat
    OBVIOUS
  <2>2. Shr(n - 1, b * m) = (n - 1) \div TwoTo[b * m]
    BY <1>6, <2>1, ShrSays
  <2>3. TwoTo[b * m] \in Nat \ {0}
    BY <2>1, TwoToPositive
  <2> QED
    BY <2>1, <2>2, <2>3, DivOfSmall
<1>7. L \in Nat /\ \A m \in 0..L - 1 : m \in Nat
  BY <1>5, WidthAssumption
<1> QED
  BY <1>5, <1>6, <1>7 DEF L

----------------------------------------------------------------------------
\* A tree whose numbers fit: no shift of verity_ctr reaches the width of the word,
\* and the sums it shifts do not overflow.
Numbers(v) ==
    /\ v.data_blocks \in 0..Word - 1 /\ v.hash_start \in 0..Word - 1
    /\ v.hash_per_block_bits \in Nat \ {0}
    /\ v.levels = Levels(v.data_blocks, v.hash_per_block_bits)
    /\ v.hash_per_block_bits * v.levels < Width
    /\ v.data_blocks + TwoTo[v.hash_per_block_bits * v.levels] - 1 < Word

\* The data blocks that a hash block of level i covers.
Span(v, i) == TwoTo[(i + 1) * v.hash_per_block_bits]

\* What verity_ctr computes on its way down from the root.
Positions(v, f) ==
    /\ f \in [0..v.levels -> 0..Word - 1] /\ f[v.levels] = v.hash_start
    /\ \A i \in 0..v.levels - 1 : f[i] = (f[i + 1] + LevelSize(v, i)) % Word

\* Powers of two are words but the last.
LEMMA WordSays == Word \in Nat \ {0} /\ Width \in Nat \ {0} /\ \A k \in Nat : k < Width => TwoTo[k] < Word
BY WidthAssumption, TwoToPositive, TwoToGrows DEF Word

\* The shifts at a level.
LEMMA NumbersSay ==
    ASSUME NEW v, Numbers(v)
    PROVE  /\ v.levels \in 0..Width /\ v.data_blocks \in Nat
           /\ v.levels > 0 => v.data_blocks > 0
           /\ v.data_blocks > 0 => v.data_blocks - 1 < TwoTo[v.hash_per_block_bits * v.levels]
           /\ v.hash_per_block_bits \in 1..Width - 1 \/ v.levels = 0
           /\ \A i \in 0..v.levels - 1 :
                 /\ i * v.hash_per_block_bits \in Nat
                 /\ (i + 1) * v.hash_per_block_bits \in Nat
                 /\ i * v.hash_per_block_bits + v.hash_per_block_bits = (i + 1) * v.hash_per_block_bits
                 /\ (i + 1) * v.hash_per_block_bits < Width
                 /\ Span(v, i) \in Nat \ {0}
                 /\ v.data_blocks + Span(v, i) - 1 < Word
<1> DEFINE b == v.hash_per_block_bits
           L == v.levels
           n == v.data_blocks
<1>1. b \in Nat \ {0} /\ n \in Nat /\ n < Word /\ L = Levels(n, b) /\ b * L < Width
      /\ n + TwoTo[b * L] - 1 < Word
  BY WordSays DEF Numbers
<1>2. L \in 0..Width /\ (L > 0 => n > 0) /\ (n > 0 => n - 1 < TwoTo[b * L])
  <2>1. CASE n = 0
    BY <1>1, <2>1, WordSays DEF Levels
  <2>2. CASE n > 0
    <3> HIDE DEF b, L, n
    <3> QED
      BY <1>1, <2>2, LevelsSay
  <2> QED
    BY <1>1, <2>1, <2>2
<1> HIDE DEF b, L, n
<1>3. L \in Nat
  BY <1>2, WordSays
<1>4. b \in 1..Width - 1 \/ L = 0
  <2>1. L > 0 => b * L >= b
    BY <1>1, <1>3
  <2> QED
    BY <1>1, <1>3, <2>1, WordSays
<1>5. ASSUME NEW i \in 0..L - 1
      PROVE  /\ i * b \in Nat /\ (i + 1) * b \in Nat /\ i * b + b = (i + 1) * b
             /\ (i + 1) * b < Width /\ TwoTo[(i + 1) * b] \in Nat \ {0}
             /\ n + TwoTo[(i + 1) * b] - 1 < Word
  <2>1. i \in Nat /\ i + 1 <= L
    BY <1>3
  <2>2. i * b \in Nat /\ (i + 1) * b \in Nat /\ i * b + b = (i + 1) * b
    BY <1>1, <2>1
  <2>3. (i + 1) * b <= b * L /\ b * L \in Nat
    <3>1. \A x, y \in Nat, c \in Nat : x <= y => x * c <= c * y
      OBVIOUS
    <3> QED
      BY <1>1, <1>3, <2>1, <3>1
  <2>4. TwoTo[(i + 1) * b] <= TwoTo[b * L] /\ TwoTo[(i + 1) * b] \in Nat \ {0}
        /\ TwoTo[b * L] \in Nat
    BY <2>2, <2>3, TwoToNoLess, TwoToPositive
  <2> QED
    BY <1>1, <2>2, <2>3, <2>4, WordSays
<1> QED
  BY <1>1, <1>2, <1>4, <1>5 DEF Span, b, L, n

\* A level has a block for each span of data blocks, and at least one.
LEMMA LevelSizeSays ==
    ASSUME NEW v, Numbers(v), NEW i \in 0..v.levels - 1
    PROVE  /\ LevelSize(v, i) = ((v.data_blocks - 1) \div Span(v, i)) + 1
           /\ LevelSize(v, i) \in 1..Word - 1
<1> DEFINE s == (i + 1) * v.hash_per_block_bits
           n == v.data_blocks
           d == TwoTo[s]
<1>1. n \in Nat /\ n > 0 /\ s \in Nat /\ s < Width /\ d \in Nat \ {0} /\ n + d - 1 < Word
  BY NumbersSay, WordSays DEF Span
<1> HIDE DEF n
<1>2. Shl(1, s) = d
  <2>1. d < Word /\ s % Width = s
    BY <1>1, WordSays, ShrSays
  <2>2. (1 * d) % Word = d
    BY <1>1, <2>1, WordSays
  <2> QED
    BY <2>1, <2>2 DEF Shl
<1>3. (n + d - 1) % Word = n + d - 1
  BY <1>1, WordSays
<1>4. LevelSize(v, i) = (n + d - 1) \div d
  <2>1. LevelSize(v, i) = Shr((n + Shl(1, s) - 1) % Word, s)
    BY DEF LevelSize, n
  <2> HIDE DEF s
  <2> QED
    BY <1>1, <1>2, <1>3, <2>1, ShrSays
<1> HIDE DEF s, d
<1>5. LevelSize(v, i) = ((n - 1) \div d) + 1
  <2>1. n \in Nat \ {0} /\ d \in Nat \ {0}
    BY <1>1
  <2>2. (n + d - 1) \div d = ((n - 1) \div d) + 1
    BY ONLY <2>1, DivRoundedUp
  <2> QED
    BY <1>4, <2>2
<1>6. (n - 1) \div d \in Nat /\ (n - 1) \div d <= n - 1
  <2>1. \A a \in Nat, c \in Nat \ {0} : a \div c \in Nat /\ a \div c <= a
    OBVIOUS
  <2> QED
    BY <1>1, <2>1
<1>7. n <= Word - 1
  BY <1>1, WordSays DEF Numbers, n
<1> QED
  BY <1>1, <1>5, <1>6, <1>7, WordSays DEF n, d, s, Span

\* Where a level starts, given where the one above it does.
Above(v, f, i) == IF i = v.levels THEN v.hash_start ELSE (f[i + 1] + LevelSize(v, i)) % Word

\* The positions can be computed from any level up, and are words.
LEMMA PositionsFrom ==
    ASSUME NEW v, Numbers(v)
    PROVE  \A d \in 0..v.levels :
               \E f \in [(v.levels - d)..v.levels -> 0..Word - 1] :
                   \A i \in (v.levels - d)..v.levels : f[i] = Above(v, f, i)
<1> DEFINE L == v.levels
           Has(d) == \E f \in [(L - d)..L -> 0..Word - 1] : \A i \in (L - d)..L : f[i] = Above(v, f, i)
           S == {d \in 0..L : ~Has(d)}
<1>1. L \in Nat /\ v.hash_start \in 0..Word - 1
  BY NumbersSay, WordSays DEF Numbers
<1>2. ASSUME S # {} PROVE FALSE
  <2>1. PICK m \in S : \A x \in S : m <= x
    <3>1. S \in SUBSET Nat
      BY <1>1
    <3> HIDE DEF S
    <3> QED
      BY <1>2, <3>1, LeastNumber
  <2>2. Has(0)
    <3> DEFINE f == [i \in (L - 0)..L |-> v.hash_start]
    <3>1. f \in [(L - 0)..L -> 0..Word - 1]
      BY <1>1
    <3>2. \A i \in (L - 0)..L : i = L
      BY <1>1
    <3>3. \A i \in (L - 0)..L : f[i] = Above(v, f, i)
      BY <3>2 DEF Above
    <3> QED
      BY <3>1, <3>3
  <2>3. m \in 1..L /\ m - 1 \in 0..L /\ Has(m - 1)
    <3> HIDE DEF Has
    <3>1. m # 0 /\ m \in 0..L
      BY <2>1, <2>2
    <3>2. m \in 1..L /\ m - 1 \in 0..L /\ m - 1 \in Nat /\ ~(m <= m - 1)
      BY <1>1, <3>1
    <3>3. m - 1 \notin S
      BY <2>1, <3>2
    <3> QED
      BY <3>2, <3>3
  <2> DEFINE k == L - m
  <2>4. PICK f \in [(k + 1)..L -> 0..Word - 1] : \A i \in (k + 1)..L : f[i] = Above(v, f, i)
    <3>1. L - (m - 1) = k + 1
      BY <1>1, <2>3
    <3> QED
      BY <2>3, <3>1
  <2> DEFINE e == (f[k + 1] + LevelSize(v, k)) % Word
             g == [i \in k..L |-> IF i = k THEN e ELSE f[i]]
  <2>5. k \in 0..L - 1
    BY <1>1, <2>3
  <2>6. e \in 0..Word - 1
    <3>1. f[k + 1] \in Nat /\ LevelSize(v, k) \in Nat
      BY <1>1, <2>4, <2>5, LevelSizeSays
    <3> QED
      BY <3>1, WordSays
  <2> HIDE DEF k
  <2>7. g \in [k..L -> 0..Word - 1]
    <3> HIDE DEF e
    <3>1. \A i \in k..L : i # k => i \in (k + 1)..L
      BY <1>1, <2>5
    <3> QED
      BY <2>4, <2>6, <3>1
  <2>8. ASSUME NEW i \in k..L PROVE g[i] = Above(v, g, i)
    <3>1. CASE i = k
      <4>1. g[i] = e /\ i # L /\ i + 1 \in k..L /\ i + 1 # k /\ g[i + 1] = f[k + 1]
        BY <1>1, <2>5, <3>1
      <4> QED
        BY <3>1, <4>1 DEF Above
    <3>2. CASE i # k
      <4>1. i \in (k + 1)..L
        BY <1>1, <2>5, <3>2
      <4>2. i # L => i + 1 \in k..L /\ i + 1 # k
        BY <1>1, <2>5, <4>1
      <4>3. f[i] = Above(v, f, i)
        BY <2>4, <4>1
      <4> HIDE DEF e
      <4>4. g[i] = f[i] /\ (i # L => g[i + 1] = f[i + 1])
        BY <3>2, <4>2
      <4> QED
        BY <4>3, <4>4 DEF Above
    <3> QED
      BY <3>1, <3>2
  <2>9. Has(m)
    <3> HIDE DEF g
    <3> QED
      BY <2>7, <2>8 DEF k
  <2> QED
    BY <2>1, <2>9
<1> HIDE DEF Has
<1>3. \A d \in 0..L : Has(d)
  BY <1>2
<1> QED
  BY <1>3 DEF Has

\* What HashPosition computes.
LEMMA HashPositionSays == ASSUME NEW v, Numbers(v) PROVE Positions(v, HashPosition(v))
<1> DEFINE L == v.levels
           p == HashPosition(v)
<1>1. L \in Nat /\ L \in 0..L /\ L - L = 0
  BY NumbersSay, WordSays
<1>2. \E f \in [0..L -> 0..Word - 1] : \A i \in 0..L : f[i] = Above(v, f, i)
  BY <1>1, PositionsFrom
<1>3. \E f : f = [i \in 0..L |-> IF i = L THEN v.hash_start
                                ELSE (f[i + 1] + LevelSize(v, i)) % Word]
  BY <1>2 DEF Above
<1>4. p = [i \in 0..L |-> IF i = L THEN v.hash_start ELSE (p[i + 1] + LevelSize(v, i)) % Word]
  BY <1>3 DEF HashPosition
<1> HIDE DEF p
<1> DEFINE S == {d \in 0..L : ~(p[L - d] \in 0..Word - 1)}
<1>5. ASSUME S # {} PROVE FALSE
  <2>1. PICK m \in S : \A x \in S : m <= x
    <3>1. S \in SUBSET Nat
      BY <1>1
    <3> HIDE DEF S
    <3> QED
      BY <1>5, <3>1, LeastNumber
  <2>2. L - 0 = L /\ p[L] = v.hash_start /\ v.hash_start \in 0..Word - 1
    BY <1>1, <1>4 DEF Numbers
  <2>3. m \in 1..L /\ m - 1 \in 0..L /\ ~(m <= m - 1)
    BY <1>1, <2>1, <2>2
  <2>4. p[L - (m - 1)] \in 0..Word - 1
    BY <2>1, <2>3
  <2>5. L - m \in 0..L - 1 /\ L - (m - 1) = (L - m) + 1 /\ L - m # L
    BY <1>1, <2>3
  <2>6. LevelSize(v, L - m) \in 1..Word - 1
    BY <2>5, LevelSizeSays
  <2>7. p[L - m] = (p[(L - m) + 1] + LevelSize(v, L - m)) % Word
    <3> DEFINE k == L - m
    <3>1. k \in 0..L /\ k # L
      BY <1>1, <2>5
    <3> HIDE DEF k
    <3>2. p[k] = (p[k + 1] + LevelSize(v, k)) % Word
      BY <1>4, <3>1
    <3> QED
      BY <3>2 DEF k
  <2>8. p[L - m] \in 0..Word - 1
    BY <2>4, <2>5, <2>6, <2>7, WordSays
  <2> QED
    BY <2>1, <2>8
<1>6. \A i \in 0..L : p[i] \in 0..Word - 1
  <2>1. \A i \in 0..L : L - i \in 0..L /\ L - (L - i) = i
    BY <1>1
  <2> QED
    BY <1>5, <2>1
<1>7. p \in [0..L -> 0..Word - 1]
  BY <1>4, <1>6
<1>8. p[L] = v.hash_start /\ \A i \in 0..L - 1 : p[i] = (p[i + 1] + LevelSize(v, i)) % Word
  BY <1>1, <1>4
<1> QED
  BY <1>7, <1>8 DEF Positions, p

----------------------------------------------------------------------------
\* The tree of a target: its levels follow each other, f says where they start, the
\* root at L and what is behind the tree at 0.
Tree(v, f) ==
    /\ f \in [0..v.levels -> 0..Word - 1] /\ f[v.levels] = v.hash_start
    /\ \A i \in 0..v.levels - 1 :
          f[i] = f[i + 1] + LevelSize(v, i) /\ v.hash_level_block[i] = f[i + 1]
    /\ v.hash_blocks = f[0]

\* Where nothing overflows, the next level starts behind the one above.
LEMMA NoOverflow ==
    ASSUME NEW v, Numbers(v), ~Overflows(v)
    PROVE  \A i \in 0..v.levels - 1 :
               HashPosition(v)[i] = HashPosition(v)[i + 1] + LevelSize(v, i)
<1> SUFFICES ASSUME NEW i \in 0..v.levels - 1
             PROVE  HashPosition(v)[i] = HashPosition(v)[i + 1] + LevelSize(v, i)
  OBVIOUS
<1> DEFINE p == HashPosition(v)[i + 1]
           s == LevelSize(v, i)
<1>1. HashPosition(v)[i] = (p + s) % Word
  BY HashPositionSays DEF Positions
<1>2. p \in 0..Word - 1
  <2>1. i + 1 \in 0..v.levels
    BY NumbersSay, WordSays
  <2> QED
    BY <2>1, HashPositionSays DEF Positions
<1>3. s \in 1..Word - 1
  BY LevelSizeSays
<1>4. ~((p + s) % Word < p)
  BY DEF Overflows
<1> HIDE DEF p, s
<1>5. p + s < Word
  <2> SUFFICES ASSUME ~(p + s < Word) PROVE FALSE
    OBVIOUS
  <2> DEFINE r == p + s - Word
  <2>1. r \in 0..Word - 1 /\ r < p /\ p + s = r + Word
    BY <1>2, <1>3, WordSays
  <2> HIDE DEF r
  <2>2. \A x \in Nat, w \in Nat \ {0} : x < w => (x + w) % w = x
    OBVIOUS
  <2>3. (p + s) % Word = r
    BY <2>1, <2>2, WordSays
  <2> QED
    BY <1>4, <2>1, <2>3
<1>6. (p + s) % Word = p + s
  BY <1>2, <1>3, <1>5, WordSays
<1> QED
  BY <1>1, <1>6 DEF p, s

\* The hash of a data block is in the part of the level above it that its number says.
LEMMA HashAtSays ==
    ASSUME NEW v, NEW f, Numbers(v), Tree(v, f),
           NEW i \in 0..v.levels - 1, NEW block \in 0..v.data_blocks - 1
    PROVE  /\ HashAtLevel(v, block, i) = f[i + 1] + (block \div Span(v, i))
           /\ HashAtLevel(v, block, i) \in f[i + 1]..f[i] - 1
<1> DEFINE b == v.hash_per_block_bits
           n == v.data_blocks
           s == i * b
           q == block \div Span(v, i)
<1>0. v.levels \in Nat /\ n \in Nat /\ i \in Nat /\ block \in Nat /\ b \in 1..Width - 1
  BY NumbersSay, WordSays
<1>1. /\ s \in Nat /\ s < Width /\ b \in Nat /\ b < Width /\ s + b = (i + 1) * b
      /\ Span(v, i) \in Nat \ {0}
  BY <1>0, NumbersSay, WordSays
<1>2. Span(v, i) = TwoTo[s] * TwoTo[b] /\ TwoTo[s] \in Nat \ {0} /\ TwoTo[b] \in Nat \ {0}
  <2>1. TwoTo[s + b] = TwoTo[s] * TwoTo[b]
    <3> HIDE DEF s, b
    <3> QED
      BY <1>1, TwoToSum
  <2> QED
    BY <1>1, <2>1, TwoToPositive DEF Span
<1>3. PositionAtLevel(v, block, i) = block \div TwoTo[s]
  BY <1>1, ShrSays DEF PositionAtLevel
<1>4. Shr(block \div TwoTo[s], b) = q
  <2>1. Shr(block \div TwoTo[s], b) = (block \div TwoTo[s]) \div TwoTo[b]
    <3> HIDE DEF s, b
    <3> QED
      BY <1>1, ShrSays
  <2>2. (block \div TwoTo[s]) \div TwoTo[b] = block \div (TwoTo[s] * TwoTo[b])
    BY <1>0, <1>2, DivTwice
  <2> QED
    BY <1>2, <2>1, <2>2
<1>5. q \in Nat /\ q <= (n - 1) \div Span(v, i)
  <2>1. block <= n - 1 /\ n - 1 \in Nat
    BY <1>0
  <2> HIDE DEF n
  <2> QED
    BY <1>0, <1>1, <2>1, DivSays, DivKeepsOrder
<1>6. LevelSize(v, i) = ((n - 1) \div Span(v, i)) + 1 /\ LevelSize(v, i) \in Nat
  BY LevelSizeSays
<1>7. f[i] \in 0..Word - 1 /\ f[i + 1] \in 0..Word - 1 /\ f[i] = f[i + 1] + LevelSize(v, i)
      /\ v.hash_level_block[i] = f[i + 1]
  <2>1. i \in 0..v.levels /\ i + 1 \in 0..v.levels
    BY <1>0
  <2> QED
    BY <2>1 DEF Tree
<1>8. HashAtLevel(v, block, i) = (f[i + 1] + q) % Word
  BY <1>3, <1>4, <1>7 DEF HashAtLevel
<1> HIDE DEF q
<1>9. f[i + 1] + q < f[i] /\ (f[i + 1] + q) % Word = f[i + 1] + q
  <2>1. q < LevelSize(v, i)
    <3>1. (n - 1) \div Span(v, i) \in Int
      BY <1>0, <1>1
    <3> HIDE DEF n
    <3> QED
      BY <1>5, <1>6, <3>1
  <2>2. f[i + 1] + q < f[i]
    BY <1>5, <1>6, <1>7, <2>1
  <2> QED
    BY <1>5, <1>7, <2>2, WordSays
<1> QED
  BY <1>5, <1>7, <1>8, <1>9 DEF q

\* Each hash block of a level has a data block below it.
LEMMA HashAtAll ==
    ASSUME NEW v, NEW f, Numbers(v), Tree(v, f), NEW i \in 0..v.levels - 1,
           NEW q \in 0..(v.data_blocks - 1) \div Span(v, i)
    PROVE  \E block \in 0..v.data_blocks - 1 :
               /\ block \div Span(v, i) = q
               /\ HashAtLevel(v, block, i) = f[i + 1] + q
<1> DEFINE n == v.data_blocks
           d == Span(v, i)
           block == q * d
<1>1. n \in Nat \ {0} /\ d \in Nat \ {0}
  BY NumbersSay, WordSays
<1>2. q \in Nat /\ q <= (n - 1) \div d /\ (n - 1) \div d \in Nat /\ ((n - 1) \div d) * d <= n - 1
  <2>1. n - 1 \in Nat
    BY <1>1
  <2> HIDE DEF n, d
  <2>2. (n - 1) \div d \in Nat /\ ((n - 1) \div d) * d <= n - 1
    BY <1>1, <2>1, DivSays
  <2> QED
    BY <2>2 DEF n, d
<1> HIDE DEF n, d
<1>3. q * d <= ((n - 1) \div d) * d /\ q * d \in Nat
  <2>1. \A x, y, c \in Nat : x <= y => x * c <= y * c
    OBVIOUS
  <2> QED
    BY <1>1, <1>2, <2>1
<1>4. block \in 0..n - 1
  <2>1. ((n - 1) \div d) * d \in Int
    BY <1>1, <1>2
  <2> QED
    BY <1>1, <1>2, <1>3, <2>1
<1>5. block \div d = q
  <2>1. q * d <= q * d /\ q * d < q * d + d
    BY <1>1, <1>3
  <2> QED
    BY <1>1, <1>2, <1>3, <2>1, DivSays
<1>6. HashAtLevel(v, block, i) = f[i + 1] + q
  <2> HIDE DEF block
  <2> QED
    BY <1>4, <1>5, HashAtSays DEF n, d
<1> QED
  BY <1>4, <1>5, <1>6 DEF n, d

\* The arithmetic of the target is that of the workers.
LEMMA TreeSame ==
    /\ Target!TwoTo = TwoTo /\ Target!Word = Word
    /\ \A n, k : Target!Shl(n, k) = Shl(n, k) /\ Target!Shr(n, k) = Shr(n, k)
    /\ \A n : Target!Fls(n) = Fls(n) /\ (Target!PowerOfTwo(n) <=> PowerOfTwo(n))
    /\ \A n, k : Target!HashPerBlockBits(n, k) = HashPerBlockBits(n, k) /\ Target!Levels(n, k) = Levels(n, k)
    /\ \A v, i : Target!LevelSize(v, i) = LevelSize(v, i)
    /\ \A v : /\ Target!HashPosition(v) = HashPosition(v) /\ (Target!Overflows(v) <=> Overflows(v))
              /\ Target!HashLevelBlock(v) = HashLevelBlock(v) /\ Target!HashBlocks(v) = HashBlocks(v)
    /\ \A v, b, i : /\ Target!HashAtLevel(v, b, i) = HashAtLevel(v, b, i)
                    /\ Target!OffsetAtLevel(v, b, i) = OffsetAtLevel(v, b, i)
    /\ \A v, b, n, i, c : Target!PrefetchAt(v, b, n, i, c) = PrefetchAt(v, b, n, i, c)
    /\ \A v : Target!PrefetchLevels(v) = PrefetchLevels(v)
<1>1. Target!TwoTo = TwoTo
  BY DEF Target!TwoTo, TwoTo
<1>2. Target!Word = Word
  BY <1>1 DEF Target!Word, Word
<1>3. \A n, k : Target!Shl(n, k) = Shl(n, k) /\ Target!Shr(n, k) = Shr(n, k)
  BY <1>1, <1>2 DEF Target!Shl, Shl, Target!Shr, Shr
<1>4. \A n : Target!Fls(n) = Fls(n) /\ (Target!PowerOfTwo(n) <=> PowerOfTwo(n))
  BY <1>1 DEF Target!Fls, Fls, Target!PowerOfTwo, PowerOfTwo
<1>5. \A n, k : Target!HashPerBlockBits(n, k) = HashPerBlockBits(n, k)
  BY <1>4 DEF Target!HashPerBlockBits, HashPerBlockBits
<1>6. \A n, k : Target!Levels(n, k) = Levels(n, k)
  BY <1>1 DEF Target!Levels, Levels, Target!Shr, Shr
<1>7. \A v, i : Target!LevelSize(v, i) = LevelSize(v, i)
  BY <1>2, <1>3 DEF Target!LevelSize, LevelSize
<1>8. \A v : Target!HashPosition(v) = HashPosition(v)
  BY <1>2, <1>7 DEF Target!HashPosition, HashPosition
<1>9. \A v : /\ (Target!Overflows(v) <=> Overflows(v))
             /\ Target!HashLevelBlock(v) = HashLevelBlock(v) /\ Target!HashBlocks(v) = HashBlocks(v)
  BY <1>2, <1>7, <1>8 DEF Target!Overflows, Overflows, Target!HashLevelBlock, HashLevelBlock,
                          Target!HashBlocks, HashBlocks
<1>10. \A v, b, i : Target!HashAtLevel(v, b, i) = HashAtLevel(v, b, i)
  BY <1>2, <1>3 DEF Target!HashAtLevel, HashAtLevel, Target!PositionAtLevel, PositionAtLevel
<1>11. \A v, b, i : Target!OffsetAtLevel(v, b, i) = OffsetAtLevel(v, b, i)
  BY <1>1, <1>3 DEF Target!OffsetAtLevel, OffsetAtLevel, Target!SlotAtLevel, SlotAtLevel,
                    Target!PositionAtLevel, PositionAtLevel
<1>12. \A v, b, n, i, c : Target!PrefetchAt(v, b, n, i, c) = PrefetchAt(v, b, n, i, c)
  BY <1>1, <1>4, <1>10 DEF Target!PrefetchAt, PrefetchAt, Target!CutAtEnd, CutAtEnd
<1>13. \A v : Target!PrefetchLevels(v) = PrefetchLevels(v)
  BY DEF Target!PrefetchLevels, PrefetchLevels
<1> QED
  BY <1>1, <1>2, <1>3, <1>4, <1>5, <1>6, <1>7, <1>8, <1>9, <1>10, <1>11, <1>12, <1>13

----------------------------------------------------------------------------
\* How far verity_ctr got: the checks from here to the end of it.
FromLive      == {"live"}
FromQueue     == {"verify_wq"} \cup FromLive
FromSize      == {"device_size"} \cup FromQueue
FromBufio     == {"bufio"} \cup FromSize
FromHex       == {"hex", "salt", "options", "layout"} \cup FromBufio
FromRoot      == {"root_digest"} \cup FromHex
FromDigest    == {"digest_size"} \cup FromRoot
FromTfm       == {"tfm"} \cup FromDigest
FromAlg       == {"alg_name"} \cup FromTfm
FromStart     == {"hash_start"} \cup FromAlg
FromBlocks    == {"data_blocks"} \cup FromStart
FromHashSize  == {"hash_block_size"} \cup FromBlocks
FromDataSize  == {"data_block_size"} \cup FromHashSize
FromHashDev   == {"hash_dev"} \cup FromDataSize
FromVersion   == {"version", "data_dev"} \cup FromHashDev
TargetPoints  == {"none", "bad"} \cup FromVersion

\* The places of a tree's levels.
LevelBlocks == {<<>>} \cup UNION {[0..n - 1 -> 0..Word - 1] : n \in Nat}

TargetRecord ==
    [version : {0, 1}, len : Nat, data_dev_block_bits : Nat, hash_dev_block_bits : Nat,
     data_blocks : 0..Word - 1, hash_start : 0..Word - 1, digest_size : Nat,
     hash_per_block_bits : Nat, levels : Nat, hash_level_block : LevelBlocks,
     hash_blocks : 0..Word - 1]

TargetTypes ==
    /\ tg_table \in Tables /\ tg_pc \in TargetPoints /\ tg_v \in TargetRecord

\* What verity_dtr goes by is what is there, and what there is at each place.
TargetHolds ==
    /\ tg_ptr \in [Target!Resources -> {"null", "ok"}]
    /\ tg_held = {r \in Target!Resources : tg_ptr[r] = "ok"} /\ tg_wild = {}
    /\ tg_pc = "none" => tg_held = {}
    /\ tg_pc \in FromVersion => "v" \in tg_held
    /\ tg_pc \in FromHashDev => "data_dev" \in tg_held
    /\ tg_pc \in FromDataSize => "hash_dev" \in tg_held
    /\ tg_pc \in FromTfm => "alg_name" \in tg_held
    /\ tg_pc \in FromDigest => "tfm" \in tg_held
    /\ tg_pc \in FromHex => "root_digest" \in tg_held
    /\ tg_pc \in FromSize => "bufio" \in tg_held
    /\ tg_pc \in FromLive => "verify_wq" \in tg_held
    /\ "tfm" \in tg_held => tg_pc \in FromDigest \cup {"bad"}
    /\ "bufio" \in tg_held => tg_pc \in FromSize \cup {"bad"}

\* A tree that is laid out.
Laid(x) ==
    /\ Numbers(x)
    /\ x.hash_per_block_bits = HashPerBlockBits(TwoTo[x.hash_dev_block_bits], x.digest_size)
    /\ \E f : Tree(x, f)

\* What the checks so far have established.
Checked(p, x) ==
    /\ p \in FromHashSize => /\ x.data_dev_block_bits \in 0..Width - 1
                             /\ LogicalBlockSize <= TwoTo[x.data_dev_block_bits]
    /\ p \in FromBlocks => /\ x.hash_dev_block_bits \in 0..Width - 1
                           /\ TwoTo[x.hash_dev_block_bits] \in tg_table.block_sizes
    /\ p \in FromStart => /\ x.data_blocks \in tg_table.data_blocks
                          /\ x.len <= Shl(x.data_blocks, x.data_dev_block_bits - SectorShift)
    /\ p \in FromAlg => x.hash_start \in tg_table.hash_starts
    /\ p \in FromDigest => x.digest_size \in tg_table.digest_sizes
    /\ p \in FromRoot => x.digest_size * 2 <= TwoTo[x.hash_dev_block_bits]
    /\ p \in FromBufio => Laid(x)

\* Bios come to a target that is up, and lie within it.
TargetBio ==
    \/ tg_bio = Target!NoBio
    \/ /\ tg_pc = "live"
       /\ \E dir \in {"read", "write"}, sector \in Nat, n \in Nat \ {0}, cluster \in tg_table.clusters :
            /\ sector + n <= tg_v.len
            /\ tg_bio = [dir |-> dir, sector |-> sector, sectors |-> n, cluster |-> cluster,
                         res |-> IF Target!Unaligned(sector, n) \/ Target!OutOfRange(sector, n) \/ dir = "write"
                                 THEN "eio" ELSE "submitted",
                         block |-> sector \div Target!BlockSectors,
                         n_blocks |-> n \div Target!BlockSectors]

TargetInv == TargetTypes /\ TargetHolds /\ Checked(tg_pc, tg_v) /\ TargetBio

USE DEF FromLive, FromQueue, FromSize, FromBufio, FromHex, FromRoot, FromDigest, FromTfm, FromAlg, FromStart,
        FromBlocks, FromHashSize, FromDataSize, FromHashDev, FromVersion

\* A target that is not there has passed no check and holds nothing.
LEMMA TargetStart == ASSUME Target!Init PROVE TargetInv
<1>1. Target!Zeroed \in TargetRecord
  BY WordSays DEF Target!Zeroed, TargetRecord, LevelBlocks
<1>2. TargetTypes
  BY <1>1 DEF Target!Init, TargetTypes, TargetPoints
<1>3. TargetHolds
  BY DEF Target!Init, TargetHolds
<1>4. Checked(tg_pc, tg_v)
  BY DEF Target!Init, Checked
<1> QED
  BY <1>2, <1>3, <1>4 DEF TargetInv, TargetBio, Target!Init

\* The steps of verity_ctr; the others are Dtr, Map and Answered.
Constructs ==
    \/ \E len \in Target!Lengths : Target!Ctr(len)
    \/ Target!Version
    \/ Target!Device("data_dev", "hash_dev") \/ Target!Device("hash_dev", "data_block_size")
    \/ \E n \in Target!BlockSizes : Target!DataBlockSize(n)
    \/ \E n \in Target!BlockSizes : Target!HashBlockSize(n)
    \/ \E n \in Target!DataBlockCounts : Target!DataBlocks(n)
    \/ \E n \in Target!HashStarts : Target!HashStart(n)
    \/ Target!AlgName
    \/ \E digest \in Target!DigestSizes : Target!Tfm(digest)
    \/ Target!DigestSize \/ Target!RootDigest \/ Target!Hex \/ Target!Salt \/ Target!Options
    \/ Target!Layout \/ Target!Bufio
    \/ \E size \in Target!DeviceSizes : Target!DeviceSize(size)
    \/ Target!Workqueue

\* Each of them takes one thing, or none, and says so in its field; an error
\* pointer is cleared.
LEMMA ConstructHolds == ASSUME TargetTypes, TargetHolds, Constructs PROVE TargetHolds'
<1> USE DEF Target!At, Target!Bad, Target!On, Target!Got, TargetTypes, TargetHolds, Target!Resources
<1>1. CASE \E len \in Target!Lengths : Target!Ctr(len)
  BY <1>1 DEF Target!Ctr
<1>2. CASE Target!Version
  BY <1>2 DEF Target!Version
<1>3. CASE Target!Device("data_dev", "hash_dev")
  BY <1>3 DEF Target!Device
<1>4. CASE Target!Device("hash_dev", "data_block_size")
  BY <1>4 DEF Target!Device
<1>5. CASE \E n \in Target!BlockSizes : Target!DataBlockSize(n)
  BY <1>5 DEF Target!DataBlockSize
<1>6. CASE \E n \in Target!BlockSizes : Target!HashBlockSize(n)
  BY <1>6 DEF Target!HashBlockSize
<1>7. CASE \E n \in Target!DataBlockCounts : Target!DataBlocks(n)
  BY <1>7 DEF Target!DataBlocks
<1>8. CASE \E n \in Target!HashStarts : Target!HashStart(n)
  BY <1>8 DEF Target!HashStart
<1>9. CASE Target!AlgName
  BY <1>9 DEF Target!AlgName
<1>10. CASE \E digest \in Target!DigestSizes : Target!Tfm(digest)
  BY <1>10 DEF Target!Tfm, Target!TfmError
<1>11. CASE Target!DigestSize
  BY <1>11 DEF Target!DigestSize
<1>12. CASE Target!RootDigest
  BY <1>12 DEF Target!RootDigest
<1>13. CASE Target!Hex
  BY <1>13 DEF Target!Hex
<1>14. CASE Target!Salt
  BY <1>14 DEF Target!Salt
<1>15. CASE Target!Options
  BY <1>15 DEF Target!Options
<1>16. CASE Target!Layout
  BY <1>16 DEF Target!Layout
<1>17. CASE Target!Bufio
  BY <1>17 DEF Target!Bufio, Target!BufioError
<1>18. CASE \E size \in Target!DeviceSizes : Target!DeviceSize(size)
  BY <1>18 DEF Target!DeviceSize
<1>19. CASE Target!Workqueue
  BY <1>19 DEF Target!Workqueue
<1> QED
  BY <1>1, <1>2, <1>3, <1>4, <1>5, <1>6, <1>7, <1>8, <1>9, <1>10, <1>11, <1>12, <1>13, <1>14,
     <1>15, <1>16, <1>17, <1>18, <1>19 DEF Constructs

\* A field that no check so far was about may change, and one check be passed.
Sizes(x, y) ==
    /\ x.len = y.len /\ x.data_dev_block_bits = y.data_dev_block_bits
    /\ x.hash_dev_block_bits = y.hash_dev_block_bits

\* What the constants owe a target, said of its table.
LEMMA TableSays ==
    ASSUME Target!WellFormed, TargetTypes
    PROVE  /\ SectorShift \in Nat /\ LogicalBlockSize \in Nat /\ TwoTo[SectorShift] <= LogicalBlockSize
           /\ tg_table.lengths \subseteq Nat /\ tg_table.digest_sizes \subseteq Nat \ {0}
           /\ tg_table.data_blocks \subseteq 0..Word - 1 /\ tg_table.hash_starts \subseteq 0..Word - 1
           /\ tg_table.clusters \subseteq 0..Word - 1
           /\ \A size \in tg_table.block_sizes, digest \in tg_table.digest_sizes, n \in tg_table.data_blocks :
                 PowerOfTwo(size) /\ 2 * digest <= size =>
                    LET top == HashPerBlockBits(size, digest) * Levels(n, HashPerBlockBits(size, digest)) IN
                    top < Width /\ n + TwoTo[top] - 1 < Word
<1>1. /\ SectorShift \in Nat /\ LogicalBlockSize \in Nat /\ TwoTo[SectorShift] <= LogicalBlockSize
      /\ tg_table.lengths \subseteq Nat /\ tg_table.digest_sizes \subseteq Nat \ {0}
      /\ tg_table.data_blocks \subseteq 0..Word - 1 /\ tg_table.hash_starts \subseteq 0..Word - 1
      /\ tg_table.clusters \subseteq 0..Word - 1
  BY TreeSame DEF Target!WellFormed, TargetTypes
<1>2. \A size \in tg_table.block_sizes, digest \in tg_table.digest_sizes, n \in tg_table.data_blocks :
          Target!ShiftsFit(size, digest, n)
  BY DEF Target!WellFormed, TargetTypes
<1> QED
  BY <1>1, <1>2, TreeSame DEF Target!ShiftsFit

\* The steps that only go on, or take something, change no field.
LEMMA UnchangedChecked ==
    ASSUME TargetTypes, Checked(tg_pc, tg_v), UNCHANGED <<tg_table, tg_v>>,
           \/ tg_pc' \in {"none", "bad"}
           \/ tg_pc = "data_dev" /\ tg_pc' = "hash_dev"
           \/ tg_pc = "hash_dev" /\ tg_pc' = "data_block_size"
           \/ tg_pc = "alg_name" /\ tg_pc' = "tfm"
           \/ tg_pc = "root_digest" /\ tg_pc' = "hex"
           \/ tg_pc = "hex" /\ tg_pc' = "salt"
           \/ tg_pc = "salt" /\ tg_pc' = "options"
           \/ tg_pc = "options" /\ tg_pc' = "layout"
           \/ tg_pc = "bufio" /\ tg_pc' = "device_size"
           \/ tg_pc = "device_size" /\ tg_pc' = "verify_wq"
           \/ tg_pc = "verify_wq" /\ tg_pc' = "live"
           \/ UNCHANGED tg_pc
    PROVE  TargetTypes' /\ Checked(tg_pc', tg_v')
<1>1. TargetTypes'
  BY DEF TargetTypes, TargetPoints
<1>2. ASSUME NEW q, q \in {"none", "bad"} PROVE Checked(q, tg_v)
  BY <1>2 DEF Checked
<1>3. tg_pc' \notin {"none", "bad"} => Checked(tg_pc', tg_v)
  BY DEF Checked
<1> QED
  BY <1>1, <1>2, <1>3

\* Those that pass a check by setting a field.
LEMMA SetChecked ==
    ASSUME Target!WellFormed, TargetTypes, Checked(tg_pc, tg_v), UNCHANGED tg_table,
           \/ \E len \in Target!Lengths : Target!Ctr(len)
           \/ Target!Version
           \/ \E n \in Target!BlockSizes : Target!DataBlockSize(n)
           \/ \E n \in Target!BlockSizes : Target!HashBlockSize(n)
           \/ \E n \in Target!DataBlockCounts : Target!DataBlocks(n)
           \/ \E n \in Target!HashStarts : Target!HashStart(n)
           \/ \E digest \in Target!DigestSizes : Target!Tfm(digest)
           \/ Target!DigestSize,
           tg_pc' \notin {"none", "bad"}
    PROVE  TargetTypes' /\ Checked(tg_pc', tg_v')
<1>0. tg_v \in TargetRecord
  BY DEF TargetTypes
<1>1. ASSUME NEW len \in Target!Lengths, Target!Ctr(len) PROVE TargetTypes' /\ Checked(tg_pc', tg_v')
  <2>1. tg_pc' = "version" /\ tg_v' = [Target!Zeroed EXCEPT !.len = len] /\ len \in Nat
    BY <1>1, TableSays DEF Target!Ctr, Target!Got, Target!Lengths
  <2>2. tg_v' \in TargetRecord
    BY <2>1, WordSays DEF Target!Zeroed, TargetRecord, LevelBlocks
  <2> QED
    BY <2>1, <2>2 DEF TargetTypes, TargetPoints, Checked
<1>2. CASE Target!Version
  <2>1. PICK n \in {0, 1} : tg_v' = [tg_v EXCEPT !.version = n] /\ tg_pc' = "data_dev"
    BY <1>2 DEF Target!Version, Target!Bad, Target!On
  <2>2. tg_v' \in TargetRecord
    BY <1>0, <2>1 DEF TargetRecord
  <2> QED
    BY <2>1, <2>2 DEF TargetTypes, TargetPoints, Checked
<1>3. ASSUME NEW n \in Target!BlockSizes, Target!DataBlockSize(n) PROVE TargetTypes' /\ Checked(tg_pc', tg_v')
  <2>1. /\ PowerOfTwo(n) /\ ~(n < LogicalBlockSize)
        /\ tg_v' = [tg_v EXCEPT !.data_dev_block_bits = Fls(n)] /\ tg_pc' = "hash_block_size"
    BY <1>3, TreeSame DEF Target!DataBlockSize, Target!Bad, Target!On
  <2>2. Fls(n) \in 0..Width - 1 /\ TwoTo[Fls(n)] = n
    BY <2>1, FlsOfPower
  <2>3. Fls(n) \in Nat /\ n \in Nat /\ LogicalBlockSize <= n
    BY <2>1, <2>2, TwoToPositive, WordSays, TableSays
  <2>4. tg_v' \in TargetRecord /\ tg_v'.data_dev_block_bits = Fls(n)
    <3> HIDE DEF Target!BlockSizes
    <3> QED
      BY <1>0, <2>1, <2>3 DEF TargetRecord
  <2> QED
    BY <2>1, <2>2, <2>3, <2>4 DEF TargetTypes, TargetPoints, Checked
<1>4. ASSUME NEW n \in Target!BlockSizes, Target!HashBlockSize(n) PROVE TargetTypes' /\ Checked(tg_pc', tg_v')
  <2>1. /\ PowerOfTwo(n) /\ tg_pc = "hash_block_size"
        /\ tg_v' = [tg_v EXCEPT !.hash_dev_block_bits = Fls(n)] /\ tg_pc' = "data_blocks"
    BY <1>4, TreeSame DEF Target!HashBlockSize, Target!Bad, Target!On, Target!At
  <2>2. Fls(n) \in 0..Width - 1 /\ TwoTo[Fls(n)] = n
    BY <2>1, FlsOfPower
  <2>3. Fls(n) \in Nat /\ n \in tg_table.block_sizes
    BY <2>2, WordSays DEF Target!BlockSizes
  <2>4. /\ tg_v' \in TargetRecord /\ tg_v'.hash_dev_block_bits = Fls(n)
        /\ tg_v'.data_dev_block_bits = tg_v.data_dev_block_bits
    BY <1>0, <2>1, <2>3 DEF TargetRecord
  <2> QED
    BY <2>1, <2>2, <2>3, <2>4 DEF TargetTypes, TargetPoints, Checked
<1>5. ASSUME NEW n \in Target!DataBlockCounts, Target!DataBlocks(n) PROVE TargetTypes' /\ Checked(tg_pc', tg_v')
  <2>1. /\ tg_v.len <= Shl(n, tg_v.data_dev_block_bits - SectorShift) /\ tg_pc = "data_blocks"
        /\ tg_v' = [tg_v EXCEPT !.data_blocks = n] /\ tg_pc' = "hash_start"
    BY <1>5, TreeSame DEF Target!DataBlocks, Target!Bad, Target!On, Target!At,
       Target!LongEnough, Target!Sectors
  <2>2. n \in tg_table.data_blocks /\ n \in 0..Word - 1
    BY TableSays DEF Target!DataBlockCounts
  <2>4. /\ tg_v' \in TargetRecord /\ tg_v'.data_blocks = n /\ Sizes(tg_v', tg_v)
    BY <1>0, <2>1, <2>2 DEF TargetRecord, Sizes
  <2> QED
    BY <2>1, <2>2, <2>4 DEF TargetTypes, TargetPoints, Checked, Sizes
<1>6. ASSUME NEW n \in Target!HashStarts, Target!HashStart(n) PROVE TargetTypes' /\ Checked(tg_pc', tg_v')
  <2>1. tg_v' = [tg_v EXCEPT !.hash_start = n] /\ tg_pc' = "alg_name" /\ tg_pc = "hash_start"
    BY <1>6 DEF Target!HashStart, Target!Bad, Target!On, Target!At
  <2>2. n \in tg_table.hash_starts /\ n \in 0..Word - 1
    BY TableSays DEF Target!HashStarts
  <2>4. /\ tg_v' \in TargetRecord /\ tg_v'.hash_start = n /\ Sizes(tg_v', tg_v)
        /\ tg_v'.data_blocks = tg_v.data_blocks
    BY <1>0, <2>1, <2>2 DEF TargetRecord, Sizes
  <2> QED
    BY <2>1, <2>2, <2>4 DEF TargetTypes, TargetPoints, Checked, Sizes
<1>7. ASSUME NEW digest \in Target!DigestSizes, Target!Tfm(digest) PROVE TargetTypes' /\ Checked(tg_pc', tg_v')
  <2>1. tg_v' = [tg_v EXCEPT !.digest_size = digest] /\ tg_pc' = "digest_size" /\ tg_pc = "tfm"
    BY <1>7 DEF Target!Tfm, Target!TfmError, Target!Got, Target!At
  <2>2. digest \in tg_table.digest_sizes /\ digest \in Nat
    BY TableSays DEF Target!DigestSizes
  <2>4. /\ tg_v' \in TargetRecord /\ tg_v'.digest_size = digest /\ Sizes(tg_v', tg_v)
        /\ tg_v'.data_blocks = tg_v.data_blocks /\ tg_v'.hash_start = tg_v.hash_start
    BY <1>0, <2>1, <2>2 DEF TargetRecord, Sizes
  <2> QED
    BY <2>1, <2>2, <2>4 DEF TargetTypes, TargetPoints, Checked, Sizes
<1>8. CASE Target!DigestSize
  <2>1. /\ tg_v' = tg_v /\ tg_pc' = "root_digest" /\ tg_pc = "digest_size"
        /\ tg_v.digest_size * 2 <= TwoTo[tg_v.hash_dev_block_bits]
    BY <1>8, TreeSame DEF Target!DigestSize, Target!Bad, Target!On, Target!At,
       Target!DigestFitsTwice
  <2> QED
    BY <2>1 DEF TargetTypes, TargetPoints, Checked
<1> QED
  BY <1>1, <1>2, <1>3, <1>4, <1>5, <1>6, <1>7, <1>8

\* A hash block holds two digests or more.
LEMMA TwoDigestsFit ==
    ASSUME NEW hb \in 0..Width - 1, NEW digest \in Nat \ {0}, digest * 2 <= TwoTo[hb]
    PROVE  HashPerBlockBits(TwoTo[hb], digest) \in Nat \ {0}
<1> DEFINE size == TwoTo[hb]
           q == size \div digest
<1>1. hb \in Nat /\ size \in Nat \ {0} /\ size < Word
  BY WordSays, TwoToPositive
<1> HIDE DEF size
<1>2. q \in Nat /\ 2 <= q /\ q <= size
  BY <1>1 DEF size
<1>3. Fls(q) \in 0..Width - 1 /\ q < TwoTo[Fls(q) + 1]
  BY <1>1, <1>2, FlsSays, WordSays
<1>4. TwoTo[0 + 1] = 2
  BY TwoToNext
<1>5. Fls(q) # 0
  BY <1>2, <1>3, <1>4
<1>6. HashPerBlockBits(TwoTo[hb], digest) = Fls(q)
  BY DEF HashPerBlockBits, size
<1> QED
  BY <1>3, <1>5, <1>6, WordSays

\* The sizes of the levels come from the numbers that verity_ctr fixes before it places them.
LEMMA SizesPlace ==
    ASSUME NEW x, NEW w, x.data_blocks = w.data_blocks, x.hash_start = w.hash_start,
           x.hash_per_block_bits = w.hash_per_block_bits, x.levels = w.levels
    PROVE  /\ Numbers(x) <=> Numbers(w)
           /\ \A i : LevelSize(x, i) = LevelSize(w, i)
BY DEF Numbers, LevelSize

\* The tree that is not refused is laid out, level after level.
LEMMA LayoutChecked ==
    ASSUME Target!WellFormed, TargetTypes, Checked(tg_pc, tg_v), UNCHANGED tg_table,
           Target!Layout, tg_pc' # "bad"
    PROVE  TargetTypes' /\ Checked(tg_pc', tg_v')
<1> DEFINE bits == HashPerBlockBits(TwoTo[tg_v.hash_dev_block_bits], tg_v.digest_size)
           w == [tg_v EXCEPT !.hash_per_block_bits = bits, !.levels = Levels(tg_v.data_blocks, bits)]
           x == [w EXCEPT !.hash_level_block = HashLevelBlock(w), !.hash_blocks = HashBlocks(w)]
           p == HashPosition(w)
<1>1. tg_v \in TargetRecord /\ tg_table \in Tables
  BY DEF TargetTypes
<1>2. tg_pc = "layout"
  BY DEF Target!Layout, Target!At
<1>3. Target!WithLevels = w
  BY TreeSame DEF Target!WithLevels
<1>4. ~Overflows(w) /\ tg_v' = x /\ tg_pc' = "bufio"
  BY <1>3, TreeSame DEF Target!Layout, Target!Bad, Target!On
<1>5. /\ tg_v.data_dev_block_bits \in 0..Width - 1
      /\ LogicalBlockSize <= TwoTo[tg_v.data_dev_block_bits]
      /\ tg_v.hash_dev_block_bits \in 0..Width - 1
      /\ TwoTo[tg_v.hash_dev_block_bits] \in tg_table.block_sizes
      /\ tg_v.data_blocks \in tg_table.data_blocks
      /\ tg_v.len <= Shl(tg_v.data_blocks, tg_v.data_dev_block_bits - SectorShift)
      /\ tg_v.hash_start \in tg_table.hash_starts
      /\ tg_v.digest_size \in tg_table.digest_sizes
      /\ tg_v.digest_size * 2 <= TwoTo[tg_v.hash_dev_block_bits]
  BY <1>2 DEF Checked
<1>6. bits \in Nat \ {0}
  BY <1>5, TableSays, TwoDigestsFit
<1>7. PowerOfTwo(TwoTo[tg_v.hash_dev_block_bits]) /\ TwoTo[tg_v.hash_dev_block_bits] \in Nat
  BY <1>5, TwoToPositive, WordSays DEF PowerOfTwo
<1>8. /\ bits * Levels(tg_v.data_blocks, bits) < Width
      /\ tg_v.data_blocks + TwoTo[bits * Levels(tg_v.data_blocks, bits)] - 1 < Word
  <2>1. tg_v.digest_size \in Nat /\ 2 * tg_v.digest_size <= TwoTo[tg_v.hash_dev_block_bits]
    BY <1>5, <1>7, TableSays
  <2> QED
    BY <2>1, <1>5, <1>7, TableSays
<1>9. /\ w.data_blocks = tg_v.data_blocks /\ w.hash_start = tg_v.hash_start
      /\ w.hash_per_block_bits = bits /\ w.levels = Levels(tg_v.data_blocks, bits)
      /\ Sizes(w, tg_v) /\ w.digest_size = tg_v.digest_size /\ w.version = tg_v.version
  BY <1>1 DEF TargetRecord, Sizes
<1>10. tg_v.data_blocks \in 0..Word - 1 /\ tg_v.hash_start \in 0..Word - 1
  BY <1>1 DEF TargetRecord
<1>11. Numbers(w)
  BY <1>6, <1>8, <1>9, <1>10 DEF Numbers
<1>12. /\ x.data_blocks = w.data_blocks /\ x.hash_start = w.hash_start
       /\ x.hash_per_block_bits = w.hash_per_block_bits /\ x.levels = w.levels
       /\ Sizes(x, w) /\ x.digest_size = w.digest_size /\ x.version = w.version
       /\ x.hash_level_block = HashLevelBlock(w) /\ x.hash_blocks = HashBlocks(w)
  BY <1>1 DEF TargetRecord, Sizes
<1> HIDE DEF x, w, bits
<1>13. w.levels \in Nat
  BY <1>11, NumbersSay, WordSays
<1>14. Positions(w, p)
  BY <1>11, HashPositionSays
<1> HIDE DEF p
<1>15. Numbers(x) /\ \A i : LevelSize(x, i) = LevelSize(w, i)
  BY <1>11, <1>12, SizesPlace
<1>16. /\ HashLevelBlock(w) = [i \in 0..w.levels - 1 |-> p[i + 1]]
       /\ HashBlocks(w) = p[0]
  BY DEF HashLevelBlock, HashBlocks, p
<1>17. p[0] \in 0..Word - 1 /\ \A i \in 0..w.levels - 1 : p[i + 1] \in 0..Word - 1
  BY <1>13, <1>14 DEF Positions
<1>18. HashLevelBlock(w) \in LevelBlocks
  <2>1. HashLevelBlock(w) \in [0..w.levels - 1 -> 0..Word - 1]
    BY <1>16, <1>17
  <2> QED
    BY <2>1, <1>13 DEF LevelBlocks
<1>19. Tree(x, p)
  <2>1. \A i \in 0..w.levels - 1 : p[i] = p[i + 1] + LevelSize(w, i)
    BY <1>4, <1>11, NoOverflow DEF p
  <2>2. \A i \in 0..w.levels - 1 : x.hash_level_block[i] = p[i + 1]
    BY <1>12, <1>16
  <2>3. p \in [0..x.levels -> 0..Word - 1] /\ p[x.levels] = x.hash_start
    BY <1>12, <1>14 DEF Positions
  <2> QED
    BY <2>1, <2>2, <2>3, <1>12, <1>15, <1>16 DEF Tree
<1>20. Laid(x)
  BY <1>9, <1>12, <1>15, <1>19 DEF Laid, bits, Sizes
<1>21. x \in TargetRecord
  <2>1. w \in TargetRecord
    BY <1>1, <1>6, <1>9, <1>13 DEF w, TargetRecord
  <2> QED
    BY <2>1, <1>16, <1>17, <1>18 DEF x, TargetRecord
<1>22. TargetTypes'
  BY <1>1, <1>4, <1>21 DEF TargetTypes, TargetPoints
<1>23. Checked(tg_pc', x)
  BY <1>4, <1>5, <1>9, <1>12, <1>20 DEF Checked, Sizes
<1> QED
  BY <1>4, <1>22, <1>23

\* All the steps of the constructor keep to what is checked so far.
LEMMA ConstructChecked ==
    ASSUME Target!WellFormed, TargetTypes, Checked(tg_pc, tg_v), UNCHANGED tg_table, Constructs
    PROVE  TargetTypes' /\ Checked(tg_pc', tg_v')
<1>0. tg_pc' = "none" => UNCHANGED tg_v
  BY DEF Constructs, Target!Ctr, Target!Version, Target!Device, Target!DataBlockSize,
     Target!HashBlockSize, Target!DataBlocks, Target!HashStart, Target!AlgName, Target!Tfm,
     Target!TfmError, Target!DigestSize, Target!RootDigest, Target!Hex, Target!Salt,
     Target!Options, Target!Layout, Target!Bufio, Target!BufioError, Target!DeviceSize,
     Target!Workqueue, Target!Bad, Target!On, Target!Got
<1>1. tg_pc' = "bad" => UNCHANGED tg_v
  BY DEF Constructs, Target!Ctr, Target!Version, Target!Device, Target!DataBlockSize,
     Target!HashBlockSize, Target!DataBlocks, Target!HashStart, Target!AlgName, Target!Tfm,
     Target!TfmError, Target!DigestSize, Target!RootDigest, Target!Hex, Target!Salt,
     Target!Options, Target!Layout, Target!Bufio, Target!BufioError, Target!DeviceSize,
     Target!Workqueue, Target!Bad, Target!On, Target!Got
<1>2. CASE tg_pc' \in {"none", "bad"}
  BY <1>0, <1>1, <1>2, UnchangedChecked
<1>3. CASE tg_pc' \notin {"none", "bad"} /\ Target!Layout
  BY <1>3, LayoutChecked
<1>4. CASE /\ tg_pc' \notin {"none", "bad"}
           /\ \/ \E len \in Target!Lengths : Target!Ctr(len)
              \/ Target!Version
              \/ \E n \in Target!BlockSizes : Target!DataBlockSize(n)
              \/ \E n \in Target!BlockSizes : Target!HashBlockSize(n)
              \/ \E n \in Target!DataBlockCounts : Target!DataBlocks(n)
              \/ \E n \in Target!HashStarts : Target!HashStart(n)
              \/ \E digest \in Target!DigestSizes : Target!Tfm(digest)
              \/ Target!DigestSize
  BY <1>4, SetChecked
<1>5. CASE /\ tg_pc' \notin {"none", "bad"}
           /\ \/ Target!Device("data_dev", "hash_dev") \/ Target!Device("hash_dev", "data_block_size")
              \/ Target!AlgName \/ Target!RootDigest \/ Target!Hex \/ Target!Salt \/ Target!Options
              \/ Target!Bufio \/ (\E size \in Target!DeviceSizes : Target!DeviceSize(size))
              \/ Target!Workqueue
  <2>1. UNCHANGED tg_v
    BY <1>5 DEF Target!Device, Target!AlgName, Target!RootDigest, Target!Hex, Target!Salt,
       Target!Options, Target!Bufio, Target!BufioError, Target!DeviceSize, Target!Workqueue,
       Target!Bad
  <2>2. \/ tg_pc = "data_dev" /\ tg_pc' = "hash_dev"
        \/ tg_pc = "hash_dev" /\ tg_pc' = "data_block_size"
        \/ tg_pc = "alg_name" /\ tg_pc' = "tfm"
        \/ tg_pc = "root_digest" /\ tg_pc' = "hex"
        \/ tg_pc = "hex" /\ tg_pc' = "salt"
        \/ tg_pc = "salt" /\ tg_pc' = "options"
        \/ tg_pc = "options" /\ tg_pc' = "layout"
        \/ tg_pc = "bufio" /\ tg_pc' = "device_size"
        \/ tg_pc = "device_size" /\ tg_pc' = "verify_wq"
        \/ tg_pc = "verify_wq" /\ tg_pc' = "live"
    BY <1>5 DEF Target!Device, Target!AlgName, Target!RootDigest, Target!Hex, Target!Salt,
       Target!Options, Target!Bufio, Target!BufioError, Target!DeviceSize, Target!Workqueue,
       Target!Bad, Target!On, Target!Got, Target!At
  <2> QED
    BY <2>1, <2>2, UnchangedChecked
<1> QED
  BY <1>2, <1>3, <1>4, <1>5 DEF Constructs

\* The table stays what it is.
LEMMA CheckedNext ==
    ASSUME UNCHANGED tg_table, Checked(tg_pc', tg_v') PROVE Checked(tg_pc, tg_v)'
BY DEF Checked, Laid, Tree

\* A bio that is under way leaves the target as it is.
LEMMA TargetStep ==
    ASSUME Target!WellFormed, TargetInv, [Target!Next]_(targetState)
    PROVE  TargetInv'
<1>1. CASE UNCHANGED targetState
  <2>1. TargetTypes' /\ Checked(tg_pc, tg_v)'
    BY <1>1, UnchangedChecked, CheckedNext DEF TargetInv, targetState
  <2>2. TargetHolds'
    BY <1>1 DEF TargetInv, targetState, TargetHolds
  <2>3. TargetBio'
    BY <1>1 DEF TargetInv, targetState, TargetBio, Target!Unaligned, Target!OutOfRange,
       Target!BlockSectors
  <2> QED
    BY <2>1, <2>2, <2>3 DEF TargetInv
<1>2. CASE UNCHANGED tg_table /\ Constructs
  <2>1. TargetTypes' /\ Checked(tg_pc', tg_v')
    BY <1>2, ConstructChecked DEF TargetInv
  <2>2. TargetHolds'
    BY <1>2, ConstructHolds DEF TargetInv
  <2>3. UNCHANGED tg_bio /\ tg_pc # "live"
    BY <1>2 DEF Constructs, Target!Ctr, Target!Version, Target!Device, Target!DataBlockSize,
       Target!HashBlockSize, Target!DataBlocks, Target!HashStart, Target!AlgName, Target!Tfm,
       Target!DigestSize, Target!RootDigest, Target!Hex, Target!Salt, Target!Options,
       Target!Layout, Target!Bufio, Target!DeviceSize, Target!Workqueue, Target!At
  <2>4. TargetBio'
    BY <2>3 DEF TargetInv, TargetBio
  <2> QED
    BY <1>2, <2>1, <2>2, <2>4, CheckedNext DEF TargetInv
<1>3. CASE UNCHANGED tg_table /\ Target!Dtr
  <2>1. /\ tg_pc' = "none" /\ tg_v' = Target!Zeroed /\ tg_bio' = Target!NoBio
        /\ tg_held' = tg_held \ Target!Destroyed /\ tg_wild' = Target!Destroyed \ tg_held
        /\ tg_ptr' = [r \in Target!Resources |-> "null"]
    BY <1>3 DEF Target!Dtr
  <2>2. Target!Destroyed = tg_held
    BY DEF Target!Destroyed, TargetInv, TargetHolds
  <2>3. TargetHolds'
    BY <2>1, <2>2 DEF TargetHolds
  <2>4. Target!Zeroed \in TargetRecord
    BY WordSays DEF Target!Zeroed, TargetRecord, LevelBlocks
  <2>5. TargetTypes'
    BY <1>3, <2>1, <2>4 DEF TargetInv, TargetTypes, TargetPoints
  <2>6. Checked(tg_pc, tg_v)'
    BY <2>1 DEF Checked
  <2> QED
    BY <2>1, <2>3, <2>5, <2>6 DEF TargetInv, TargetBio
<1>4. CASE /\ UNCHANGED tg_table
           /\ \E dir \in {"read", "write"}, sector \in 0..tg_v.len, n \in 1..tg_v.len, cluster \in Target!Clusters :
                 Target!Map(dir, sector, n, cluster)
  <2>1. PICK dir \in {"read", "write"}, sector \in 0..tg_v.len, n \in 1..tg_v.len, cluster \in Target!Clusters :
                 Target!Map(dir, sector, n, cluster)
    BY <1>4
  <2>2. UNCHANGED <<tg_table, tg_pc, tg_v, tg_ptr, tg_held, tg_wild>>
    BY <1>4, <2>1 DEF Target!Map
  <2>3. tg_v.len \in Nat
    BY DEF TargetInv, TargetTypes, TargetRecord
  <2>4. TargetBio'
    <3>1. sector \in Nat /\ n \in Nat \ {0} /\ cluster \in tg_table.clusters
      BY <2>3 DEF Target!Clusters
    <3> QED
      BY <2>1, <2>2, <3>1 DEF Target!Map, TargetBio, Target!Unaligned, Target!OutOfRange,
         Target!BlockSectors
  <2>5. TargetHolds' /\ TargetTypes' /\ Checked(tg_pc, tg_v)'
    BY <2>2, UnchangedChecked, CheckedNext DEF TargetInv, TargetHolds
  <2> QED
    BY <2>4, <2>5 DEF TargetInv
<1>5. CASE UNCHANGED tg_table /\ Target!Answered
  <2>1. UNCHANGED <<tg_table, tg_pc, tg_v, tg_ptr, tg_held, tg_wild>> /\ tg_bio' = Target!NoBio
    BY <1>5 DEF Target!Answered
  <2>2. TargetHolds' /\ TargetTypes' /\ Checked(tg_pc, tg_v)'
    BY <2>1, UnchangedChecked, CheckedNext DEF TargetInv, TargetHolds
  <2> QED
    BY <2>1, <2>2 DEF TargetInv, TargetBio, Target!NoBio
<1>6. Target!Next => \/ UNCHANGED tg_table /\ Constructs
                     \/ UNCHANGED tg_table /\ Target!Dtr
                     \/ /\ UNCHANGED tg_table
                        /\ \E dir \in {"read", "write"}, sector \in 0..tg_v.len, n \in 1..tg_v.len, cluster \in Target!Clusters :
                              Target!Map(dir, sector, n, cluster)
                     \/ UNCHANGED tg_table /\ Target!Answered
  BY DEF Target!Next, Constructs
<1> QED
  BY <1>1, <1>2, <1>3, <1>4, <1>5, <1>6

\* Of the levels a higher one lies before a lower one, and there is no gap.
LEMMA LevelsInOrder ==
    ASSUME NEW v, NEW f, Numbers(v), Tree(v, f)
    PROVE  /\ v.levels \in Nat /\ \A i \in 0..v.levels : f[i] \in Nat
           /\ \A i, j \in 0..v.levels : i < j => f[j] < f[i]
           /\ \A i \in 0..v.levels : v.hash_start <= f[i] /\ f[i] <= v.hash_blocks
           /\ \A p \in v.hash_start..v.hash_blocks - 1 :
                 \E i \in 0..v.levels - 1 : p \in f[i + 1]..f[i] - 1
<1> DEFINE L == v.levels
           S == {j \in 0..L : \E i \in 0..L : i < j /\ ~(f[j] < f[i])}
<1>1. L \in Nat
  BY NumbersSay, WordSays
<1>2. \A i \in 0..L : f[i] \in Nat
  BY <1>1, WordSays DEF Tree
<1>3. \A i \in 0..L - 1 : f[i + 1] < f[i]
  <2>1. TAKE i \in 0..L - 1
  <2>2. i \in 0..L /\ i + 1 \in 0..L
    BY <1>1
  <2>3. f[i] = f[i + 1] + LevelSize(v, i)
    BY DEF Tree
  <2>4. LevelSize(v, i) \in 1..Word - 1
    BY LevelSizeSays
  <2> QED
    BY <1>2, <2>2, <2>3, <2>4, WordSays
<1>4. f[L] = v.hash_start /\ f[0] = v.hash_blocks
  BY DEF Tree
<1> HIDE DEF L
<1>5. S = {}
  <2>1. SUFFICES ASSUME S # {} PROVE FALSE
    OBVIOUS
  <2>2. PICK j \in S : \A k \in S : j <= k
    <3>1. S \in SUBSET Nat
      BY <1>1
    <3> HIDE DEF S
    <3> QED
      BY <2>1, <3>1, LeastNumber
  <2>3. PICK i \in 0..L : i < j /\ ~(f[j] < f[i])
    OBVIOUS
  <2>4. j \in 0..L /\ j - 1 \in 0..L - 1 /\ j - 1 \in 0..L /\ (j - 1) + 1 = j
    BY <1>1, <2>3
  <2>5. f[j] < f[j - 1]
    BY <1>3, <2>4
  <2>6. i < j - 1
    BY <2>3, <2>4, <2>5
  <2>7. f[j - 1] < f[i]
    BY <1>1, <2>2, <2>3, <2>4, <2>6
  <2>8. f[j] \in Nat /\ f[j - 1] \in Nat /\ f[i] \in Nat
    BY <1>2, <2>3, <2>4
  <2> QED
    BY <2>3, <2>5, <2>7, <2>8
<1>6. \A i, j \in 0..L : i < j => f[j] < f[i]
  BY <1>5
<1>7. \A i \in 0..L : f[L] <= f[i] /\ f[i] <= f[0]
  <2>1. TAKE i \in 0..L
  <2>2. 0 \in 0..L /\ L \in 0..L /\ (i = L \/ i < L) /\ (i = 0 \/ 0 < i)
    BY <1>1
  <2>3. f[L] \in Nat /\ f[i] \in Nat /\ f[0] \in Nat
    BY <1>2, <2>2
  <2>4. f[L] <= f[i]
    BY <1>6, <2>2, <2>3
  <2>5. f[i] <= f[0]
    BY <1>6, <2>2, <2>3
  <2> QED
    BY <2>4, <2>5
<1>8. ASSUME NEW p \in v.hash_start..v.hash_blocks - 1
      PROVE  \E i \in 0..L - 1 : p \in f[i + 1]..f[i] - 1
  <2> DEFINE T == {i \in 0..L - 1 : f[i + 1] <= p}
  <2>1. p \in f[L]..f[0] - 1 /\ p \in Nat /\ f[L] \in Nat /\ f[0] \in Nat
    BY <1>1, <1>2, <1>4
  <2>2. L # 0
    BY <2>1
  <2>3. L - 1 \in T
    BY <1>1, <2>1, <2>2
  <2>4. PICK m \in T : \A k \in T : m <= k
    <3>1. T \in SUBSET Nat
      BY <1>1
    <3>2. T # {}
      <4> HIDE DEF T
      <4> QED
        BY <2>3
    <3> HIDE DEF T
    <3> QED
      BY <3>1, <3>2, LeastNumber
  <2>5. p < f[m]
    <3>1. CASE m = 0
      BY <2>1, <3>1
    <3>2. CASE m # 0
      <4>1. m - 1 \in 0..L - 1 /\ (m - 1) + 1 = m /\ m \in 0..L
        BY <1>1, <2>4, <3>2
      <4>2. ~(f[m] <= p)
        BY <2>4, <4>1
      <4> QED
        BY <1>2, <2>1, <4>1, <4>2
    <3> QED
      BY <3>1, <3>2
  <2>6. m \in 0..L - 1 /\ m \in 0..L /\ m + 1 \in 0..L /\ f[m + 1] <= p
    BY <1>1
  <2>7. f[m] \in Nat /\ f[m + 1] \in Nat
    BY <1>2, <2>6
  <2> QED
    BY <2>1, <2>5, <2>6, <2>7
<1> QED
  BY <1>1, <1>2, <1>4, <1>6, <1>7, <1>8 DEF L

\* The blocks of a level are those between the levels next to it, as many as there
\* are groups of data blocks.
LEMMA LevelUses ==
    ASSUME NEW v, NEW f, Numbers(v), Tree(v, f), NEW i \in 0..v.levels - 1
    PROVE  /\ {HashAtLevel(v, b, i) : b \in 0..v.data_blocks - 1} = f[i + 1]..f[i] - 1
           /\ Cardinality(f[i + 1]..f[i] - 1) = Cardinality({b \div Span(v, i) : b \in 0..v.data_blocks - 1})
<1> DEFINE n == v.data_blocks
           d == Span(v, i)
           top == (n - 1) \div d
<1>1. i \in 0..v.levels /\ i + 1 \in 0..v.levels /\ v.levels > 0
  BY LevelsInOrder
<1>2. f[i] \in Nat /\ f[i + 1] \in Nat
  BY <1>1, LevelsInOrder
<1>3. n \in Nat \ {0} /\ d \in Nat \ {0} /\ n - 1 \in Nat
  BY <1>1, NumbersSay
<1>4. f[i] = f[i + 1] + (top + 1)
  <2>1. f[i] = f[i + 1] + LevelSize(v, i)
    BY DEF Tree
  <2> QED
    BY <2>1, LevelSizeSays
<1>5. ASSUME NEW b \in 0..n - 1 PROVE b \div d \in 0..top
  <2>1. b \in Nat /\ b <= n - 1
    BY <1>3
  <2> HIDE DEF n, d
  <2> QED
    BY <1>3, <2>1, DivKeepsOrder, DivSays
<1>6. top \in Nat
  <2> HIDE DEF n, d
  <2> QED
    BY <1>3, DivSays
<1>7. \A q \in 0..top : \E b \in 0..n - 1 : b \div d = q /\ HashAtLevel(v, b, i) = f[i + 1] + q
  BY HashAtAll
<1>8. {HashAtLevel(v, b, i) : b \in 0..n - 1} = f[i + 1]..f[i] - 1
  <2>1. \A b \in 0..n - 1 : HashAtLevel(v, b, i) \in f[i + 1]..f[i] - 1
    BY HashAtSays
  <2>2. ASSUME NEW p \in f[i + 1]..f[i] - 1 PROVE \E b \in 0..n - 1 : HashAtLevel(v, b, i) = p
    <3> HIDE DEF top, n, d
    <3>1. p - f[i + 1] \in 0..top /\ f[i + 1] + (p - f[i + 1]) = p
      BY <1>2, <1>4, <1>6
    <3> QED
      BY <1>7, <3>1
  <2> QED
    BY <2>1, <2>2
<1>9. {b \div d : b \in 0..n - 1} = 0..top
  <2> HIDE DEF top, n, d
  <2> QED
    BY <1>5, <1>7
<1>10. Cardinality(0..top) = top + 1 /\ Cardinality(f[i + 1]..f[i] - 1) = top + 1
  <2> HIDE DEF top
  <2>1. Cardinality(0..top) = top + 1
    BY <1>6, FS_Interval
  <2>2. f[i] - 1 \in Int /\ ~(f[i + 1] > f[i] - 1) /\ (f[i] - 1) - f[i + 1] + 1 = top + 1
    BY <1>2, <1>4, <1>6
  <2> DEFINE a == f[i + 1]
             z == f[i] - 1
  <2>3. a \in Int /\ z \in Int /\ ~(a > z) /\ z - a + 1 = top + 1
    BY <1>2, <2>2
  <2> HIDE DEF a, z
  <2>4. Cardinality(a..z) = top + 1
    BY <2>3, FS_Interval
  <2> QED
    BY <2>1, <2>4 DEF a, z
<1> QED
  BY <1>8, <1>9, <1>10

\* verity_ctr leaves the fields of a target that is up as they are from the check of
\* the place on.
Live(x) ==
    /\ x \in TargetRecord /\ Laid(x)
    /\ x.data_dev_block_bits \in 0..Width - 1 /\ LogicalBlockSize <= TwoTo[x.data_dev_block_bits]
    /\ x.hash_dev_block_bits \in 0..Width - 1
    /\ x.len <= Shl(x.data_blocks, x.data_dev_block_bits - SectorShift)
    /\ x.digest_size \in Nat \ {0} /\ x.digest_size * 2 <= TwoTo[x.hash_dev_block_bits]

\* So they are when it is up.
LEMMA LiveSays == ASSUME Target!WellFormed, TargetInv, tg_pc = "live" PROVE Live(tg_v)
BY TableSays DEF TargetInv, TargetTypes, Checked, Live

\* Of the finite sets of a target as of all.
LEMMA TargetCounts == \A S : Target!Cardinality(S) = Cardinality(S)
BY DEF Target!Cardinality, Cardinality

\* The tree of a target that is up has all its levels, each in its place.
LEMMA LayoutMeans == ASSUME Target!WellFormed, TargetInv PROVE Target!LayoutSound
<1>1. SUFFICES ASSUME tg_pc = "live"
               PROVE  LET levels == 0..tg_v.levels - 1
                      IN /\ \A i \in levels : Target!Cardinality(Target!Used(i)) = Target!Wanted(i)
                         /\ \A i, j \in levels : i # j => Target!Used(i) \cap Target!Used(j) = {}
                         /\ UNION {Target!Used(i) : i \in levels} = tg_v.hash_start..tg_v.hash_blocks - 1
                         /\ tg_v.levels > 0 => Target!Used(tg_v.levels - 1) = {tg_v.hash_start}
                         /\ tg_v.levels = 0 => tg_v.data_blocks <= 1
  BY DEF Target!LayoutSound
<1> DEFINE L == tg_v.levels
           n == tg_v.data_blocks
<1>2. PICK f : Tree(tg_v, f)
  BY <1>1, LiveSays DEF Live, Laid
<1>3. Numbers(tg_v)
  BY <1>1, LiveSays DEF Live, Laid
<1>4. \A i \in 0..L - 1 : Target!Used(i) = f[i + 1]..f[i] - 1
  <2>1. \A i : Target!Used(i) = {HashAtLevel(tg_v, b, i) : b \in 0..n - 1}
    BY TreeSame DEF Target!Used
  <2> QED
    BY <1>2, <1>3, <2>1, LevelUses
<1>5. \A i \in 0..L - 1 : Target!Cardinality(Target!Used(i)) = Target!Wanted(i)
  <2>1. \A i : Target!Covers(i) = Span(tg_v, i)
    BY TreeSame DEF Target!Covers, Span
  <2>2. \A i : Target!Wanted(i) = Cardinality({b \div Span(tg_v, i) : b \in 0..n - 1})
    BY <2>1, TargetCounts DEF Target!Wanted
  <2>3. TAKE i \in 0..L - 1
  <2>4. Target!Cardinality(Target!Used(i)) = Cardinality(f[i + 1]..f[i] - 1)
    BY <1>4, TargetCounts
  <2> QED
    BY <1>2, <1>3, <2>2, <2>4, LevelUses
<1>6. /\ L \in Nat /\ \A i \in 0..L : f[i] \in Nat
      /\ \A i, j \in 0..L : i < j => f[j] < f[i]
      /\ \A i \in 0..L : tg_v.hash_start <= f[i] /\ f[i] <= tg_v.hash_blocks
      /\ \A p \in tg_v.hash_start..tg_v.hash_blocks - 1 : \E i \in 0..L - 1 : p \in f[i + 1]..f[i] - 1
  BY <1>2, <1>3, LevelsInOrder
<1>7. tg_v.hash_start \in Nat /\ tg_v.hash_blocks \in Nat /\ n \in Nat
  BY <1>1, LiveSays, WordSays DEF Live, TargetRecord
<1>8. f[L] = tg_v.hash_start
  BY <1>2 DEF Tree
<1> HIDE DEF L
<1>9. ASSUME NEW i \in 0..L - 1, NEW j \in 0..L - 1, i < j
      PROVE  (f[i + 1]..f[i] - 1) \cap (f[j + 1]..f[j] - 1) = {}
  <2>1. i \in 0..L /\ i + 1 \in 0..L /\ j \in 0..L /\ j + 1 \in 0..L /\ i + 1 <= j
    BY <1>6, <1>9
  <2>2. f[j] <= f[i + 1]
    BY <1>6, <2>1
  <2> QED
    BY <1>6, <2>1, <2>2
<1>10. \A i, j \in 0..L - 1 : i # j => Target!Used(i) \cap Target!Used(j) = {}
  <2>1. TAKE i, j \in 0..L - 1
  <2>2. i # j => i < j \/ j < i
    BY <1>6
  <2> QED
    BY <1>4, <1>9, <2>2
<1>11. UNION {Target!Used(i) : i \in 0..L - 1} = tg_v.hash_start..tg_v.hash_blocks - 1
  <2>1. ASSUME NEW i \in 0..L - 1, NEW p \in f[i + 1]..f[i] - 1
        PROVE  p \in tg_v.hash_start..tg_v.hash_blocks - 1
    <3>1. i \in 0..L /\ i + 1 \in 0..L
      BY <1>6
    <3>2. f[i] \in Nat /\ f[i + 1] \in Nat /\ tg_v.hash_start <= f[i + 1] /\ f[i] <= tg_v.hash_blocks
      BY <1>6, <3>1
    <3> QED
      BY <1>7, <3>2
  <2> QED
    BY <1>4, <1>6, <2>1
<1>12. L > 0 => Target!Used(L - 1) = {tg_v.hash_start}
  <2>1. HAVE L > 0
  <2>2. L - 1 \in 0..L - 1 /\ (L - 1) + 1 = L /\ L - 1 \in 0..L
    BY <1>6, <2>1
  <2>3. f[L - 1] = f[L] + LevelSize(tg_v, L - 1)
    BY <1>2, <2>2 DEF Tree, L
  <2>4. LevelSize(tg_v, L - 1) = ((n - 1) \div Span(tg_v, L - 1)) + 1
    BY <1>3, <2>2, LevelSizeSays DEF L
  <2>5. n - 1 \in Nat /\ n - 1 < Span(tg_v, L - 1) /\ Span(tg_v, L - 1) \in Nat \ {0}
    <3>1. n > 0 /\ n - 1 < TwoTo[tg_v.hash_per_block_bits * tg_v.levels]
      BY <1>3, <1>7, <2>1, NumbersSay DEF L
    <3>2. tg_v.hash_per_block_bits * tg_v.levels = ((L - 1) + 1) * tg_v.hash_per_block_bits
      BY <1>3, <1>6, <2>2 DEF L, Numbers
    <3>3. Span(tg_v, L - 1) \in Nat \ {0}
      BY <1>3, <2>2, NumbersSay DEF L
    <3> QED
      BY <1>7, <3>1, <3>2, <3>3 DEF Span
  <2>6. (n - 1) \div Span(tg_v, L - 1) = 0
    <3> HIDE DEF n
    <3> QED
      BY <2>5, DivOfSmall
  <2>7. f[L - 1] = tg_v.hash_start + 1
    BY <1>8, <2>3, <2>4, <2>6
  <2> QED
    BY <1>4, <1>7, <1>8, <2>2, <2>7
<1>13. L = 0 => n <= 1
  <2>1. HAVE L = 0
  <2>2. tg_v.hash_per_block_bits * tg_v.levels = 0
    BY <1>3, <2>1 DEF L, Numbers
  <2>3. n > 0 => n - 1 < TwoTo[0]
    BY <1>3, <2>2, NumbersSay
  <2> QED
    BY <1>7, <2>3, TwoToNext
<1> QED
  BY <1>5, <1>10, <1>11, <1>12, <1>13 DEF L

\* A product is no less than another when each factor is, and a common factor can
\* be taken out.
LEMMA TimesKeepsOrder ==
    /\ \A x, y, c \in Nat : x <= y => x * c <= y * c
    /\ \A x, y \in Nat, c \in Nat \ {0} : x * c <= y * c => x <= y
OBVIOUS

\* A slot is as wide as its digest in either version, and there is room for all.
LEMMA SlotRoom ==
    ASSUME NEW x, Live(x)
    PROVE  /\ x.hash_per_block_bits \in 0..x.hash_dev_block_bits
           /\ TwoTo[x.hash_per_block_bits] * x.digest_size <= TwoTo[x.hash_dev_block_bits]
           /\ x.digest_size <= TwoTo[x.hash_dev_block_bits - x.hash_per_block_bits]
           /\ TwoTo[x.hash_per_block_bits] * TwoTo[x.hash_dev_block_bits - x.hash_per_block_bits]
                = TwoTo[x.hash_dev_block_bits]
<1> DEFINE hb == x.hash_dev_block_bits
           b == x.hash_per_block_bits
           dg == x.digest_size
           size == TwoTo[hb]
           q == size \div dg
<1>1. hb \in Nat /\ hb < Width /\ dg \in Nat \ {0} /\ dg * 2 <= size /\ size \in Nat \ {0} /\ size < Word
  BY WordSays, TwoToPositive DEF Live
<1>2. b = Fls(q)
  BY DEF Live, Laid, HashPerBlockBits
<1> HIDE DEF size
<1>3. q \in Nat \ {0} /\ q <= size /\ q * dg <= size
  <2> HIDE DEF dg
  <2>1. q \in Nat /\ q * dg <= size /\ size < q * dg + dg
    BY <1>1, DivSays
  <2> QED
    BY <1>1, <2>1
<1>4. b \in Nat /\ TwoTo[b] <= q /\ TwoTo[b] \in Nat \ {0}
  <2> HIDE DEF q, b
  <2>1. Fls(q) \in 0..Width - 1 /\ TwoTo[Fls(q)] <= q
    BY <1>1, <1>3, FlsSays, WordSays
  <2> QED
    BY <1>2, <2>1, WordSays, TwoToPositive
<1> HIDE DEF hb, b, dg, q
<1>5. TwoTo[b] * dg <= size
  <2>1. TwoTo[b] * dg <= q * dg
    BY <1>1, <1>3, <1>4, TimesKeepsOrder
  <2>2. TwoTo[b] * dg \in Nat /\ q * dg \in Nat
    BY <1>1, <1>3, <1>4
  <2> QED
    BY <1>1, <1>3, <2>1, <2>2
<1>6. b <= hb
  <2>1. hb < b => 2 * TwoTo[hb] <= TwoTo[b]
    BY <1>1, <1>4, TwoToGrows
  <2> QED
    BY <1>1, <1>3, <1>4, <2>1 DEF size
<1>7. hb - b \in Nat /\ b + (hb - b) = hb
  BY <1>1, <1>4, <1>6
<1>8. TwoTo[b] * TwoTo[hb - b] = size /\ TwoTo[hb - b] \in Nat
  <2>1. TwoTo[b + (hb - b)] = TwoTo[b] * TwoTo[hb - b]
    BY <1>4, <1>7, TwoToSum
  <2> QED
    BY <1>7, <2>1, TwoToPositive DEF size
<1>9. dg <= TwoTo[hb - b]
  <2>1. dg * TwoTo[b] <= TwoTo[hb - b] * TwoTo[b]
    BY <1>1, <1>4, <1>5, <1>8
  <2> QED
    BY <1>1, <1>4, <1>8, <2>1, TimesKeepsOrder
<1> QED
  BY <1>1, <1>4, <1>5, <1>6, <1>8, <1>9 DEF hb, b, dg, size

\* The offset of a slot, in either version.
LEMMA OffsetSays ==
    ASSUME NEW x, Live(x), NEW b \in 0..TwoTo[x.hash_per_block_bits] - 1
    PROVE  OffsetAtLevel(x, b, 0) = b * (IF x.version = 0 THEN x.digest_size
                                         ELSE TwoTo[x.hash_dev_block_bits - x.hash_per_block_bits])
<1>1. x.hash_per_block_bits \in Nat /\ TwoTo[x.hash_per_block_bits] \in Nat \ {0}
  BY SlotRoom, TwoToPositive, WordSays DEF Live, TargetRecord
<1>2. 0 * x.hash_per_block_bits = 0 /\ b \in Nat /\ b < TwoTo[x.hash_per_block_bits]
  BY <1>1
<1>3. Shr(b, 0) = b \div TwoTo[0]
  BY ShrSays, WidthAssumption
<1>4. PositionAtLevel(x, b, 0) = b
  BY <1>2, <1>3, TwoToNext DEF PositionAtLevel
<1>5. SlotAtLevel(x, b, 0) = b
  BY <1>1, <1>2, <1>4 DEF SlotAtLevel
<1> QED
  BY <1>5 DEF OffsetAtLevel

\* Of digests side by side, each of the given width, so many fit.
LEMMA SideBySide ==
    ASSUME NEW w \in Nat, NEW dg \in Nat, dg <= w, NEW k \in Nat, NEW size \in Nat, k * w <= size,
           NEW b \in 0..k - 1, NEW c \in 0..k - 1
    PROVE  b * w + dg <= size /\ (b < c => b * w + dg <= c * w)
<1>1. b \in Nat /\ c \in Nat /\ b + 1 <= k /\ (b + 1) * w = b * w + w
  OBVIOUS
<1>2. b * w \in Nat /\ c * w \in Nat /\ k * w \in Nat
  BY <1>1
<1>3. (b + 1) * w <= k * w
  BY <1>1, TimesKeepsOrder
<1>4. b < c => (b + 1) * w <= c * w
  BY <1>1, TimesKeepsOrder
<1> QED
  BY <1>1, <1>2, <1>3, <1>4

\* The digests of a hash block have a place each.
LEMMA SlotsMean == ASSUME Target!WellFormed, TargetInv PROVE Target!SlotsSound
<1>1. SUFFICES ASSUME tg_pc = "live",
                      NEW b \in 0..TwoTo[tg_v.hash_per_block_bits] - 1,
                      NEW c \in 0..TwoTo[tg_v.hash_per_block_bits] - 1
               PROVE  /\ OffsetAtLevel(tg_v, b, 0) + tg_v.digest_size <= TwoTo[tg_v.hash_dev_block_bits]
                      /\ b < c => OffsetAtLevel(tg_v, b, 0) + tg_v.digest_size <= OffsetAtLevel(tg_v, c, 0)
  BY TreeSame DEF Target!SlotsSound
<1> DEFINE dg == tg_v.digest_size
           k == TwoTo[tg_v.hash_per_block_bits]
           size == TwoTo[tg_v.hash_dev_block_bits]
           wide == TwoTo[tg_v.hash_dev_block_bits - tg_v.hash_per_block_bits]
           w == IF tg_v.version = 0 THEN dg ELSE wide
<1>2. Live(tg_v)
  BY <1>1, LiveSays
<1>3. k * dg <= size /\ k * wide = size /\ dg <= wide
  BY <1>2, SlotRoom
<1>4. dg \in Nat /\ k \in Nat \ {0} /\ size \in Nat \ {0} /\ wide \in Nat
  <2>1. /\ tg_v.hash_per_block_bits \in Nat /\ tg_v.hash_dev_block_bits \in Nat
        /\ tg_v.hash_dev_block_bits - tg_v.hash_per_block_bits \in Nat
    BY <1>2, SlotRoom, WordSays DEF Live, TargetRecord
  <2> QED
    BY <1>2, <2>1, TwoToPositive DEF Live
<1>5. OffsetAtLevel(tg_v, b, 0) = b * w /\ OffsetAtLevel(tg_v, c, 0) = c * w
  BY <1>2, OffsetSays
<1> HIDE DEF dg, k, size, wide
<1>6. w \in Nat /\ dg <= w /\ k * w <= size
  BY <1>3, <1>4
<1> HIDE DEF w
<1>7. b \in 0..k - 1 /\ c \in 0..k - 1
  BY DEF k
<1>8. b * w + dg <= size /\ (b < c => b * w + dg <= c * w)
  BY <1>4, <1>6, <1>7, SideBySide
<1> QED
  BY <1>5, <1>8 DEF dg, size

\* How many sectors a data block has.
LEMMA BlockSectorsSay ==
    ASSUME Target!WellFormed, TargetInv, tg_pc = "live"
    PROVE  /\ Target!BlockSectors \in Nat \ {0}
           /\ Target!LogicalBlock = Target!BlockSectors * TwoTo[SectorShift]
           /\ TwoTo[SectorShift] \in Nat \ {0}
           /\ tg_v.len <= tg_v.data_blocks * Target!BlockSectors
<1> DEFINE d == tg_v.data_dev_block_bits
<1>1. Live(tg_v) /\ TargetTypes
  BY LiveSays DEF TargetInv
<1>2. SectorShift \in Nat /\ LogicalBlockSize \in Nat /\ TwoTo[SectorShift] <= LogicalBlockSize
  BY <1>1, TableSays
<1>3. d \in 0..Width - 1 /\ LogicalBlockSize <= TwoTo[d] /\ tg_v.len <= Shl(tg_v.data_blocks, d - SectorShift)
  BY <1>1 DEF Live
<1>4. tg_v.data_blocks \in Nat /\ tg_v.len \in Nat
  BY <1>1, WordSays DEF Live, TargetRecord
<1> HIDE DEF d
<1>5. d \in Nat /\ d < Width /\ TwoTo[d] \in Nat \ {0} /\ TwoTo[SectorShift] \in Nat \ {0}
  BY <1>2, <1>3, WordSays, TwoToPositive
<1>6. SectorShift <= d
  <2>1. d < SectorShift => 2 * TwoTo[d] <= TwoTo[SectorShift]
    BY <1>2, <1>5, TwoToGrows
  <2> QED
    BY <1>2, <1>3, <1>5, <2>1
<1>7. d - SectorShift \in Nat /\ d - SectorShift < Width /\ (d - SectorShift) + SectorShift = d
  BY <1>2, <1>5, <1>6, WidthAssumption
<1>8. Target!BlockSectors = TwoTo[d - SectorShift] /\ TwoTo[d - SectorShift] \in Nat \ {0}
  BY <1>7, TreeSame, TwoToPositive DEF Target!BlockSectors, d
<1>9. TwoTo[d] = TwoTo[d - SectorShift] * TwoTo[SectorShift]
  BY <1>2, <1>7, TwoToSum
<1>10. Target!LogicalBlock = TwoTo[d]
  <2>1. Target!LogicalBlock = IF LogicalBlockSize < TwoTo[d] THEN TwoTo[d] ELSE LogicalBlockSize
    BY TreeSame DEF Target!LogicalBlock, d
  <2> QED
    BY <1>2, <1>3, <1>5, <2>1
<1>11. tg_v.len <= tg_v.data_blocks * TwoTo[d - SectorShift]
  <2> DEFINE s == d - SectorShift
             t == tg_v.data_blocks * TwoTo[s]
  <2>1. Shl(tg_v.data_blocks, s) = t % Word
    BY <1>7, ShrSays DEF Shl
  <2>2. t \in Nat
    BY <1>4, <1>8
  <2> HIDE DEF t
  <2>3. t % Word <= t
    BY <2>2, WordSays
  <2>4. t % Word \in Nat
    BY <2>2, WordSays
  <2> QED
    BY <1>3, <1>4, <2>1, <2>2, <2>3, <2>4 DEF t
<1> QED
  BY <1>5, <1>8, <1>9, <1>10, <1>11

\* Whole blocks: what two numbers of them add up to, and what remains of a multiple.
LEMMA WholeBlocks ==
    ASSUME NEW s \in Nat, NEW n \in Nat, NEW d \in Nat \ {0}, s % d = 0, n % d = 0
    PROVE  s \div d + n \div d = (s + n) \div d /\ (n > 0 => n \div d > 0)
OBVIOUS

\* A multiple of a product is that of its first factor, the second taken out.
LEMMA MultipleSays ==
    ASSUME NEW s \in Nat, NEW d \in Nat \ {0}, NEW c \in Nat \ {0}, (s * c) % (d * c) = 0
    PROVE  s % d = 0
<1>1. PICK q \in Int : s * c = q * (d * c)
  <2>1. s * c \in Nat /\ d * c \in Nat \ {0}
    OBVIOUS
  <2>2. \A x \in Nat, y \in Nat \ {0} : x % y = 0 => x \div y \in Int /\ x = (x \div y) * y
    OBVIOUS
  <2> QED
    BY <2>1, <2>2
<1>2. s * c = (q * d) * c
  BY <1>1
<1>3. s = q * d
  <2>1. \A x, y \in Int, z \in Nat \ {0} : x * z = y * z => x = y
    OBVIOUS
  <2> QED
    BY <1>2, <2>1
<1> QED
  BY <1>3

\* The bio of a target that is up, as verity_map sees it.
LEMMA BioSays ==
    ASSUME Target!WellFormed, TargetInv, tg_bio.dir # "none"
    PROVE  /\ tg_pc = "live"
           /\ tg_bio.sector \in Nat /\ tg_bio.sectors \in Nat \ {0} /\ tg_bio.cluster \in 0..Word - 1
           /\ tg_bio.sector + tg_bio.sectors <= tg_v.len
           /\ tg_bio.block = tg_bio.sector \div Target!BlockSectors
           /\ tg_bio.n_blocks = tg_bio.sectors \div Target!BlockSectors
           /\ tg_bio.res = "submitted" <=>
                 /\ ~Target!Unaligned(tg_bio.sector, tg_bio.sectors)
                 /\ ~Target!OutOfRange(tg_bio.sector, tg_bio.sectors)
                 /\ tg_bio.dir # "write"
           /\ tg_bio.dir \in {"read", "write"}
<1>1. tg_bio # Target!NoBio
  BY DEF Target!NoBio
<1>2. TargetTypes
  BY DEF TargetInv
<1>3. PICK dir \in {"read", "write"}, sector \in Nat, n \in Nat \ {0}, cluster \in tg_table.clusters :
            /\ tg_pc = "live"
            /\ sector + n <= tg_v.len
            /\ tg_bio = [dir |-> dir, sector |-> sector, sectors |-> n, cluster |-> cluster,
                         res |-> IF Target!Unaligned(sector, n) \/ Target!OutOfRange(sector, n) \/ dir = "write"
                                 THEN "eio" ELSE "submitted",
                         block |-> sector \div Target!BlockSectors,
                         n_blocks |-> n \div Target!BlockSectors]
  BY <1>1 DEF TargetInv, TargetBio
<1>4. /\ tg_bio.dir = dir /\ tg_bio.sector = sector /\ tg_bio.sectors = n /\ tg_bio.cluster = cluster
      /\ tg_bio.res = IF Target!Unaligned(sector, n) \/ Target!OutOfRange(sector, n) \/ dir = "write"
                      THEN "eio" ELSE "submitted"
      /\ tg_bio.block = sector \div Target!BlockSectors
      /\ tg_bio.n_blocks = n \div Target!BlockSectors
  BY <1>3
<1>5. cluster \in 0..Word - 1
  BY <1>2, TableSays
<1> QED
  BY <1>3, <1>4, <1>5

\* verity_map lets through whole blocks of the data, and reads of them.
LEMMA MapMeans == ASSUME Target!WellFormed, TargetInv PROVE Target!MapServes
<1>1. SUFFICES ASSUME tg_bio.dir # "none"
               PROVE  /\ Target!Submitted => tg_bio.n_blocks > 0 /\ tg_bio.block + tg_bio.n_blocks <= tg_v.data_blocks
                      /\ tg_bio.dir = "read" /\ (tg_bio.sector * Target!TwoTo[SectorShift]) % Target!LogicalBlock = 0
                           /\ (tg_bio.sectors * Target!TwoTo[SectorShift]) % Target!LogicalBlock = 0 => Target!Submitted
  BY DEF Target!MapServes
<1> DEFINE s == tg_bio.sector
           n == tg_bio.sectors
           bs == Target!BlockSectors
           ss == TwoTo[SectorShift]
<1>2. /\ s \in Nat /\ n \in Nat \ {0} /\ s + n <= tg_v.len
      /\ tg_bio.block = s \div bs /\ tg_bio.n_blocks = n \div bs
      /\ tg_bio.res = "submitted" <=>
            ~Target!Unaligned(s, n) /\ ~Target!OutOfRange(s, n) /\ tg_bio.dir # "write"
      /\ tg_pc = "live"
  BY <1>1, BioSays
<1>3. /\ bs \in Nat \ {0} /\ ss \in Nat \ {0} /\ Target!LogicalBlock = bs * ss
      /\ tg_v.len <= tg_v.data_blocks * bs
  BY <1>2, BlockSectorsSay
<1>4. tg_v.data_blocks \in Nat /\ tg_v.len \in Nat
  BY WordSays DEF TargetInv, TargetTypes, TargetRecord
<1>5. Target!Unaligned(s, n) <=> s % bs # 0 \/ n % bs # 0
  BY DEF Target!Unaligned
<1>6. Target!OutOfRange(s, n) <=> (s + n) \div bs > tg_v.data_blocks
  BY DEF Target!OutOfRange
<1>7. Target!Submitted <=> tg_bio.res = "submitted"
  BY <1>1 DEF Target!Submitted
<1> HIDE DEF s, n, bs, ss
<1>8. ASSUME Target!Submitted PROVE tg_bio.n_blocks > 0 /\ tg_bio.block + tg_bio.n_blocks <= tg_v.data_blocks
  <2>1. s % bs = 0 /\ n % bs = 0 /\ ~((s + n) \div bs > tg_v.data_blocks)
    BY <1>2, <1>5, <1>6, <1>7, <1>8
  <2>2. s \div bs + n \div bs = (s + n) \div bs /\ n \div bs > 0
    <3>1. n \in Nat /\ n > 0
      BY <1>2
    <3> QED
      BY <1>2, <1>3, <2>1, <3>1, WholeBlocks
  <2>3. (s + n) \div bs \in Nat
    BY <1>2, <1>3, DivSays
  <2> QED
    BY <1>2, <1>4, <2>1, <2>2, <2>3
<1>9. (s + n) \div bs <= tg_v.data_blocks
  <2> DEFINE q == (s + n) \div bs
  <2>1. q \in Nat /\ q * bs <= s + n
    BY <1>2, <1>3, DivSays
  <2>2. tg_v.data_blocks * bs \in Nat /\ q * bs \in Nat
    BY <1>3, <1>4, <2>1
  <2>3. q * bs <= tg_v.data_blocks * bs
    <3> HIDE DEF q
    <3> QED
      BY <1>2, <1>3, <1>4, <2>1, <2>2
  <2> HIDE DEF q
  <2>4. q <= tg_v.data_blocks
    BY <1>3, <1>4, <2>1, <2>3, TimesKeepsOrder
  <2> QED
    BY <2>4 DEF q
<1>10. ASSUME tg_bio.dir = "read", (s * ss) % (bs * ss) = 0, (n * ss) % (bs * ss) = 0
       PROVE  Target!Submitted
  <2>1. s % bs = 0 /\ n % bs = 0
    BY <1>2, <1>3, <1>10, MultipleSays
  <2>2. ~Target!Unaligned(s, n)
    BY <1>5, <2>1
  <2>3. ~Target!OutOfRange(s, n)
    <3>1. (s + n) \div bs \in Nat
      BY <1>2, <1>3, DivSays
    <3> QED
      BY <1>4, <1>6, <1>9, <3>1
  <2> QED
    BY <1>2, <1>7, <1>10, <2>2, <2>3
<1> QED
  BY <1>3, <1>8, <1>10, TreeSame DEF s, n, ss

\* The blocks of a bio that is let through are blocks of the tree.
LEMMA SubmittedSays ==
    ASSUME Target!WellFormed, TargetInv, Target!Submitted
    PROVE  /\ Live(tg_v) /\ tg_bio.cluster \in 0..Word - 1
           /\ tg_bio.block \in Nat /\ tg_bio.n_blocks \in Nat \ {0}
           /\ tg_bio.block + tg_bio.n_blocks <= tg_v.data_blocks
           /\ tg_v.data_blocks \in Nat
<1>1. tg_bio.dir # "none"
  BY DEF Target!Submitted
<1>2. /\ tg_pc = "live" /\ tg_bio.sector \in Nat /\ tg_bio.sectors \in Nat /\ tg_bio.cluster \in 0..Word - 1
      /\ tg_bio.block = tg_bio.sector \div Target!BlockSectors
      /\ tg_bio.n_blocks = tg_bio.sectors \div Target!BlockSectors
  BY <1>1, BioSays
<1>3. Target!BlockSectors \in Nat \ {0}
  BY <1>2, BlockSectorsSay
<1>4. tg_bio.block \in Nat /\ tg_bio.n_blocks \in Nat
  BY <1>2, <1>3, DivSays
<1>5. tg_bio.n_blocks > 0 /\ tg_bio.block + tg_bio.n_blocks <= tg_v.data_blocks
  BY <1>1, MapMeans DEF Target!MapServes
<1>6. Live(tg_v)
  BY <1>2, LiveSays
<1>7. tg_v.data_blocks \in Nat
  BY <1>6, WordSays DEF Live, TargetRecord
<1> QED
  BY <1>2, <1>4, <1>5, <1>6, <1>7

\* Each of them has its hashes on the hash device, up to the root.
LEMMA PathsMean == ASSUME Target!WellFormed, TargetInv PROVE Target!PathsSound
<1>1. SUFFICES ASSUME Target!Submitted, NEW b \in tg_bio.block..tg_bio.block + tg_bio.n_blocks - 1
               PROVE  /\ \A i \in 0..tg_v.levels - 1 : HashAtLevel(tg_v, b, i) \in tg_v.hash_start..tg_v.hash_blocks - 1
                      /\ IF tg_v.levels = 0 THEN b = 0 ELSE HashAtLevel(tg_v, b, tg_v.levels - 1) = tg_v.hash_start
  BY TreeSame DEF Target!PathsSound
<1> DEFINE n == tg_v.data_blocks
           L == tg_v.levels
<1>2. Live(tg_v) /\ tg_bio.block + tg_bio.n_blocks <= n /\ n \in Nat /\ tg_bio.block \in Nat /\ tg_bio.n_blocks \in Nat
  BY <1>1, SubmittedSays
<1>3. b \in 0..n - 1 /\ n \in Nat \ {0}
  BY <1>2
<1>4. Numbers(tg_v)
  BY <1>2 DEF Live, Laid
<1>5. PICK f : Tree(tg_v, f)
  BY <1>2 DEF Live, Laid
<1>6. /\ L \in Nat /\ \A i \in 0..L : f[i] \in Nat
      /\ \A i \in 0..L : tg_v.hash_start <= f[i] /\ f[i] <= tg_v.hash_blocks
  BY <1>4, <1>5, LevelsInOrder
<1>7. tg_v.hash_start \in Nat /\ tg_v.hash_blocks \in Nat
  BY <1>2, WordSays DEF Live, TargetRecord
<1>8. ASSUME NEW i \in 0..L - 1 PROVE HashAtLevel(tg_v, b, i) \in tg_v.hash_start..tg_v.hash_blocks - 1
  <2>1. HashAtLevel(tg_v, b, i) \in f[i + 1]..f[i] - 1
    BY <1>3, <1>4, <1>5, HashAtSays
  <2> HIDE DEF L
  <2>2. i \in 0..L /\ i + 1 \in 0..L
    BY <1>6
  <2>3. f[i] \in Nat /\ f[i + 1] \in Nat /\ tg_v.hash_start <= f[i + 1] /\ f[i] <= tg_v.hash_blocks
    BY <1>6, <2>2
  <2> QED
    BY <1>7, <2>1, <2>3
<1>9. n - 1 < TwoTo[tg_v.hash_per_block_bits * L]
  BY <1>3, <1>4, NumbersSay
<1>10. CASE L = 0
  <2>1. tg_v.hash_per_block_bits * L = 0
    BY <1>4, <1>10 DEF Numbers
  <2> HIDE DEF L, n
  <2>2. n - 1 < 1
    BY <1>9, <2>1, TwoToNext
  <2> QED
    BY <1>3, <1>6, <1>10, <2>2 DEF L
<1>11. CASE L # 0
  <2>1. L - 1 \in 0..L - 1 /\ (L - 1) + 1 = L
    BY <1>6, <1>11
  <2>2. Span(tg_v, L - 1) = TwoTo[tg_v.hash_per_block_bits * L] /\ Span(tg_v, L - 1) \in Nat \ {0}
    <3>1. Span(tg_v, L - 1) \in Nat \ {0}
      BY <1>4, <2>1, NumbersSay
    <3>2. ((L - 1) + 1) * tg_v.hash_per_block_bits = tg_v.hash_per_block_bits * L
      <4>1. tg_v.hash_per_block_bits \in Nat
        BY <1>4 DEF Numbers
      <4> HIDE DEF L
      <4> QED
        BY <1>6, <2>1, <4>1
    <3> QED
      BY <3>1, <3>2 DEF Span
  <2>3. HashAtLevel(tg_v, b, L - 1) = f[(L - 1) + 1] + (b \div Span(tg_v, L - 1))
    BY <1>3, <1>4, <1>5, <2>1, HashAtSays
  <2>4. b \div Span(tg_v, L - 1) = 0
    <3>1. b \in Nat /\ b < Span(tg_v, L - 1)
      BY <1>3, <1>9, <2>2
    <3> QED
      BY <2>2, <3>1, DivOfSmall
  <2>5. f[L] = tg_v.hash_start
    BY <1>5 DEF Tree
  <2> QED
    BY <1>7, <1>8, <1>11, <2>1, <2>3, <2>4, <2>5
<1> QED
  BY <1>8, <1>10, <1>11

\* What is prefetched goes from the hash of the first block, or before it, to that
\* of the last, or behind it, and not behind the last hash block.
LEMMA PrefetchMeans == ASSUME Target!WellFormed, TargetInv PROVE Target!PrefetchSound
<1>1. SUFFICES ASSUME Target!Submitted, NEW i \in 0..tg_v.levels - 2
               PROVE  LET range == PrefetchAt(tg_v, tg_bio.block, tg_bio.n_blocks, i, tg_bio.cluster)
                      IN /\ range.to < tg_v.hash_blocks
                         /\ \A b \in tg_bio.block..tg_bio.block + tg_bio.n_blocks - 1 :
                               HashAtLevel(tg_v, b, i) \in range.from..range.to
  BY TreeSame DEF Target!PrefetchSound, PrefetchLevels
<1> DEFINE n == tg_v.data_blocks
           L == tg_v.levels
           lo == tg_bio.block
           hi == tg_bio.block + tg_bio.n_blocks - 1
           Place(b) == HashAtLevel(tg_v, b, i)
           first == Place(lo)
           last == Place(hi)
           cluster == tg_bio.cluster \div TwoTo[tg_v.data_dev_block_bits]
           size == TwoTo[Fls(cluster)]
           top == tg_v.hash_blocks
           range == PrefetchAt(tg_v, tg_bio.block, tg_bio.n_blocks, i, tg_bio.cluster)
<1>2. /\ Live(tg_v) /\ tg_bio.block + tg_bio.n_blocks <= n /\ n \in Nat /\ tg_bio.block \in Nat
      /\ tg_bio.n_blocks \in Nat \ {0} /\ tg_bio.cluster \in 0..Word - 1
  BY <1>1, SubmittedSays
<1>3. lo \in 0..n - 1 /\ hi \in 0..n - 1 /\ \A b \in lo..hi : b \in 0..n - 1
  BY <1>2
<1>4. Numbers(tg_v)
  BY <1>2 DEF Live, Laid
<1>5. PICK f : Tree(tg_v, f)
  BY <1>2 DEF Live, Laid
<1>6. L \in Nat /\ i \in 0..L - 1
  BY <1>4, <1>5, LevelsInOrder
<1>7. top \in Nat
  BY <1>2, WordSays DEF Live, TargetRecord
<1>8. \A b \in 0..n - 1 : Place(b) \in Nat /\ Place(b) < top
  <2>1. i \in 0..L /\ i + 1 \in 0..L
    BY <1>6
  <2>2. f[i] \in Nat /\ f[i + 1] \in Nat /\ f[i] <= top
    BY <1>4, <1>5, <2>1, LevelsInOrder
  <2>3. \A b \in 0..n - 1 : Place(b) \in f[i + 1]..f[i] - 1
    BY <1>4, <1>5, <1>6, HashAtSays
  <2> HIDE DEF Place
  <2> QED
    BY <1>7, <2>2, <2>3
<1>9. \A b, c \in 0..n - 1 : b <= c => Place(b) <= Place(c)
  <2>1. TAKE b, c \in 0..n - 1
  <2>2. HAVE b <= c
  <2>3. Place(b) = f[i + 1] + (b \div Span(tg_v, i)) /\ Place(c) = f[i + 1] + (c \div Span(tg_v, i))
    BY <1>4, <1>5, <1>6, HashAtSays
  <2>4. f[i + 1] \in Nat /\ Span(tg_v, i) \in Nat \ {0}
    <3>1. i + 1 \in 0..L
      BY <1>6
    <3>2. f[i + 1] \in Nat
      BY <1>4, <1>5, <3>1, LevelsInOrder
    <3> QED
      BY <1>4, <1>6, <3>2, NumbersSay
  <2>5. b \in Nat /\ c \in Nat
    BY <1>2
  <2>6. b \div Span(tg_v, i) <= c \div Span(tg_v, i)
    BY <2>2, <2>4, <2>5, DivKeepsOrder
  <2>7. b \div Span(tg_v, i) \in Nat /\ c \div Span(tg_v, i) \in Nat
    BY <2>4, <2>5, DivSays
  <2> HIDE DEF Place
  <2> QED
    BY <2>3, <2>4, <2>6, <2>7
<1>10. cluster \in Nat /\ cluster < Word
  <2>1. TwoTo[tg_v.data_dev_block_bits] \in Nat \ {0} /\ tg_bio.cluster \in Nat /\ tg_bio.cluster < Word
    BY <1>2, TwoToPositive, WordSays DEF Live
  <2>2. \A x \in Nat, y \in Nat \ {0} : x \div y \in Nat /\ x \div y <= x
    OBVIOUS
  <2> QED
    BY <2>1, <2>2, WordSays
<1>11. cluster # 0 => size \in Nat \ {0}
  <2> HIDE DEF cluster
  <2>1. cluster # 0 => Fls(cluster) \in Nat
    BY <1>10, FlsSays, WordSays
  <2> QED
    BY <2>1, TwoToPositive
<1>12. range = IF i > 0 \/ cluster = 0 THEN [from |-> first, to |-> last]
               ELSE [from |-> first - (first % size),
                     to |-> CutAtEnd(tg_v, last - (last % size) + size - 1)]
  BY DEF PrefetchAt
<1>13. first \in Nat /\ last \in Nat /\ first < top /\ last < top
  <2> HIDE DEF Place, lo, hi
  <2> QED
    BY <1>3, <1>8
<1>14. \A b \in lo..hi : Place(b) \in Nat /\ Place(b) < top /\ first <= Place(b) /\ Place(b) <= last
  <2>1. \A b \in lo..hi : b \in 0..n - 1 /\ lo <= b /\ b <= hi
    BY <1>2
  <2> HIDE DEF Place, lo, hi
  <2> QED
    BY <1>3, <1>8, <1>9, <2>1
<1> HIDE DEF first, last, size, cluster, Place, lo, hi, range
<1>15. CASE i > 0 \/ cluster = 0
  <2>1. range.from = first /\ range.to = last
    BY <1>12, <1>15
  <2>2. range.to < top /\ \A b \in lo..hi : Place(b) \in range.from..range.to
    BY <1>7, <1>13, <1>14, <2>1
  <2> QED
    BY <2>2 DEF lo, hi, Place, range
<1>16. CASE ~(i > 0 \/ cluster = 0)
  <2> DEFINE end == last - (last % size) + size - 1
  <2>1. range.from = first - (first % size) /\ range.to = CutAtEnd(tg_v, end)
    BY <1>12, <1>16
  <2>2. size \in Nat \ {0}
    BY <1>11, <1>16
  <2>3. \A x \in Nat : x % size \in Nat /\ x % size <= x /\ x % size <= size - 1
    BY <2>2
  <2>4. first % size \in Nat /\ first - (first % size) \in Nat /\ first - (first % size) <= first
    BY <1>13, <2>3
  <2>5. end \in Nat /\ last <= end
    BY <1>13, <2>2, <2>3
  <2> HIDE DEF end
  <2>6. /\ CutAtEnd(tg_v, end) \in Int /\ CutAtEnd(tg_v, end) < top
        /\ \A x \in Nat : x <= last /\ x < top => x <= CutAtEnd(tg_v, end)
    BY <1>7, <1>13, <2>5 DEF CutAtEnd
  <2>7. range.to < top /\ \A b \in lo..hi : Place(b) \in range.from..range.to
    BY <1>7, <1>13, <1>14, <2>1, <2>4, <2>6
  <2> QED
    BY <2>7 DEF lo, hi, Place, range
<1> QED
  BY <1>15, <1>16

\* The invariant gives what Placed says.
LEMMA TargetMeans == ASSUME Target!WellFormed, TargetInv PROVE Placed
<1>1. Target!TypeOK
  <2>1. tg_held \subseteq Target!Resources /\ tg_wild \subseteq Target!Resources
    BY DEF TargetInv, TargetHolds
  <2>2. tg_ptr \in [Target!Resources -> {"null", "ok", "err"}]
    BY DEF TargetInv, TargetHolds
  <2>3. tg_v.levels \in Nat /\ tg_v.hash_blocks \in 0..Target!Word - 1
    BY TreeSame DEF TargetInv, TargetTypes, TargetRecord
  <2>4. tg_pc = "live" => Target!Resources \ {"salt"} \subseteq tg_held
    BY DEF TargetInv, TargetHolds, Target!Resources
  <2> QED
    BY <2>1, <2>2, <2>3, <2>4 DEF Target!TypeOK
<1>2. Target!NothingLeaks
  BY DEF TargetInv, TargetHolds, Target!NothingLeaks
<1> QED
  BY <1>1, <1>2, LayoutMeans, SlotsMean, MapMeans, PathsMean, PrefetchMeans DEF Placed

\* Whatever the user writes into a table and whichever step of verity_ctr fails: a
\* target that comes up has a hash tree laid out as the format wants it, every digest
\* in a place of its own; verity_map lets through what lies in it, whose hashes are all
\* there under the root, and prefetches no more than hash blocks; verity_dtr gives back
\* what was taken.
THEOREM TreesPlaced == Target!Spec => []Placed
<1>1. Target!WellFormed
  BY TablesAssumption
<1>2. Target!Init => TargetInv
  BY TargetStart
<1>3. TargetInv /\ [Target!Next]_(Target!vars) => TargetInv'
  BY <1>1, TargetStep DEF Target!vars, targetState
<1>4. TargetInv => Placed
  BY <1>1, TargetMeans
<1> QED
  BY <1>2, <1>3, <1>4, PTL DEF Target!Spec
=============================================================================

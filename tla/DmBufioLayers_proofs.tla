------------------------ MODULE DmBufioLayers_proofs ------------------------
(***************************************************************************)
(* The layers of the inductive invariant of DmBufio that every step keeps. *)
(*                                                                         *)
(* Layer 1, ThreadsInv: every step keeps the mutex, the types of the       *)
(* locals, and what a thread at a control point carries with it.  One      *)
(* lemma per action.                                                       *)
(*                                                                         *)
(* Layer 2, CacheInv: every step keeps the types, the index with at most   *)
(* one buffer of a block, the reference counts, and what the thread that   *)
(* holds the lock relies on.  First the references, then the index and the *)
(* threads that do not move, at last one lemma per action.                 *)
(*                                                                         *)
(* Layer 3, BitsInv: the state bits of a buffer, the list it is on, the    *)
(* request in flight for it and what the threads have promised to submit   *)
(* fit together after every step.  First what the kinds of steps do to the *)
(* bits, then one lemma per action.                                        *)
(*                                                                         *)
(* The next layers: the order of the LRU lists, the life of the client,    *)
(* the reserve, who is woken, and what the age worker counts.  First one   *)
(* lemma per layer and kind of step, then one per action.                  *)
(*                                                                         *)
(* Last, what the kinds of steps do to the contents and to a flush.        *)
(***************************************************************************)
EXTENDS DmBufioInv, FiniteSetTheorems, TLAPS

Points == Locked \cup Unlocked

\* What the invariant counts is finite.
LEMMA LinkedCount == IsFiniteSet(Linked) /\ Cardinality(Linked) \in Nat
BY BuffersAssumption, FS_Subset, FS_CardinalityType DEF Linked

-----------------------------------------------------------------------------
(* Layer 1: threads and lock.                                              *)

\* What a step does to the lock, for a thread that goes to control point l.
LockStep(t, l) ==
  \/ l \in Locked /\ lock' = t /\ lock \in {t, Nobody}
  \/ l \notin Locked /\ lock' = Nobody /\ lock \in {t, Nobody}
  \/ l \notin Locked /\ pc[t] \notin Locked /\ lock' = lock
  \/ l \in Locked /\ pc[t] \in Locked /\ lock' = lock

\* A control point is between lock and unlock or it is not.
LEMMA PointsDisjoint == Locked \cap Unlocked = {}
BY DEF Locked, Unlocked

\* A step of t alone keeps the first layer when t arrives where it may.
LEMMA ThreadStep ==
  ASSUME ThreadsInv, NEW t \in Threads, NEW l \in Points, NEW r \in Locals,
         Go(t, l, r), ThreadOK(l, r), LockStep(t, l), latest' \in Snapshot, asyncError' \in BOOLEAN
  PROVE  ThreadsInv'
<1>1. pc' = [pc EXCEPT ![t] = l] /\ loc' = [loc EXCEPT ![t] = r]
  BY DEF Go
<1>2. /\ pc \in [Threads -> Points] /\ loc \in [Threads -> Locals]
      /\ lock \in Threads \cup {Nobody}
  BY DEF ThreadsInv, ThreadsType, Points
<1>3. ThreadsType'
  BY <1>1, <1>2 DEF ThreadsType, LockStep, Points
<1>4. LockOwner'
  <2>1. \A u \in Threads : (lock = u) <=> pc[u] \in Locked
    BY DEF ThreadsInv, LockOwner
  <2>2. \A u \in Threads : pc'[u] = IF u = t THEN l ELSE pc[u]
    BY <1>1, <1>2
  <2>3. ASSUME NEW u \in Threads PROVE (lock' = u) <=> pc'[u] \in Locked
    BY <2>1, <2>2, <1>2, ThreadsAssumption DEF LockStep
  <2> QED
    BY <2>3 DEF LockOwner
<1>5. ASSUME NEW u \in Threads PROVE ThreadOK(pc[u], loc[u])'
  <2>1. CASE u = t
    <3>1. pc'[u] = l /\ loc'[u] = r
      BY <1>1, <1>2, <2>1
    <3> QED
      BY <3>1 DEF ThreadOK, Continuation, BlockRange, Possession, Moving, Inserting, Scanning
  <2>2. CASE u # t
    <3>1. pc'[u] = pc[u] /\ loc'[u] = loc[u]
      BY <1>1, <1>2, <2>2
    <3>2. ThreadOK(pc[u], loc[u])
      BY DEF ThreadsInv
    <3> QED
      BY <3>1, <3>2 DEF ThreadOK, Continuation, BlockRange, Possession, Moving, Inserting, Scanning
  <2> QED
    BY <2>1, <2>2
<1> QED
  BY <1>3, <1>4, <1>5 DEF ThreadsInv

\* A call that returns: nothing is left to remember but the reference.
LEMMA RestFacts ==
  ASSUME NEW m \in Buffers \cup {NoBuffer}
  PROVE  Rest(m) \in Locals /\ ThreadOK("idle", Rest(m)) /\ Rest(m).mine = m
<1>1. Rest(m) \in Locals
  BY MaxGenAssumption DEF Rest, Locals, Unlocked, Snapshot, NoSnap, Gens, ApiCalls
<1>2. Rest(m).call = "none" /\ Rest(m).mine = m
  BY DEF Rest
<1>3. ThreadOK("idle", Rest(m))
  <2>1. Continuation("idle", Rest(m))
    BY DEF Continuation
  <2>2. BlockRange(Rest(m))
    BY <1>2 DEF BlockRange, Getting
  <2>3. Possession("idle", Rest(m))
    BY <1>2 DEF Possession, Moving, Inserting, Getting
  <2>4. Scanning("idle", Rest(m))
    BY DEF Scanning
  <2> QED
    BY <2>1, <2>2, <2>3, <2>4 DEF ThreadOK
<1> QED
  BY <1>1, <1>2, <1>3

\* The content after a change is a content.
LEMMA BumpType == \A g : Bump(g) \in Gens
BY MaxGenAssumption DEF Bump, Gens

\* What the invariant says of one thread.
LEMMA ThreadFacts ==
  ASSUME ThreadsInv, NEW t \in Threads
  PROVE  /\ pc[t] \in Points /\ loc[t] \in Locals /\ ThreadOK(pc[t], loc[t])
         /\ (lock = t) <=> pc[t] \in Locked
         /\ lock = t \/ lock # t
         /\ t # Nobody /\ latest \in Snapshot /\ asyncError \in BOOLEAN
BY ThreadsAssumption DEF ThreadsInv, ThreadsType, LockOwner, Points

\* A step that no thread takes, or that leaves its thread where it was.
LEMMA ThreadsUnchanged ==
  ASSUME ThreadsInv, UNCHANGED <<lock, pc, loc>>, latest' \in Snapshot, asyncError' \in BOOLEAN
  PROVE  ThreadsInv'
BY DEF ThreadsInv, ThreadsType, LockOwner, ThreadOK, Continuation, BlockRange, Possession,
       Moving, Inserting, Scanning

\* GiveUp: the call returns, or a prefetch goes to its next block.
LEMMA GiveUpThread ==
  ASSUME ThreadsInv, NEW t \in Threads, NEW r \in Locals, GiveUp(t, r),
         r.call \in Getting, BlockRange(r), r.mine \notin Buffers,
         lock \in {t, Nobody}, UNCHANGED <<latest, asyncError>>
  PROVE  ThreadsInv'
<1>0. latest' \in Snapshot /\ asyncError' \in BOOLEAN
  BY ThreadFacts
<1>1. CASE r.left = 0 /\ Unlock /\ Return(t, NoBuffer)
  <2>1. Rest(NoBuffer) \in Locals /\ ThreadOK("idle", Rest(NoBuffer))
    BY RestFacts
  <2>2. LockStep(t, "idle")
    BY <1>1 DEF LockStep, Unlock, Locked
  <2>3. "idle" \in Points
    BY DEF Points, Unlocked
  <2> QED
    BY <1>0, <1>1, <2>1, <2>2, <2>3, ThreadStep DEF Return
<1>2. CASE r.left > 0 /\ lock' = t /\ Go(t, "lookup", [r EXCEPT !.blk = @ + 1, !.left = @ - 1])
  <2> DEFINE s == [r EXCEPT !.blk = @ + 1, !.left = @ - 1]
  <2>1. r.left \in Nat /\ r.blk \in Blocks /\ \A i \in 0 .. r.left : r.blk + i \in Blocks
    BY DEF Locals, BlockRange
  <2>2. r.blk \in Nat /\ r.blk + 1 \in Blocks /\ r.left - 1 \in Nat
    BY <1>2, <2>1, BlocksAssumption
  <2>3. s \in Locals
    BY <2>2 DEF Locals
  <2>4. BlockRange(s)
    <3>1. ASSUME NEW i \in 0 .. r.left - 1 PROVE (r.blk + 1) + i \in Blocks
      <4>1. i + 1 \in 0 .. r.left /\ (r.blk + 1) + i = r.blk + (i + 1)
        BY <2>1, <2>2
      <4> QED
        BY <4>1, <2>1
    <3> QED
      BY <3>1, <2>2 DEF BlockRange, Locals
  <2>5. ThreadOK("lookup", s)
    BY <2>4 DEF ThreadOK, Continuation, Possession, Moving, Inserting, Scanning, Locals
  <2>6. LockStep(t, "lookup")
    BY <1>2 DEF LockStep, Locked
  <2>7. "lookup" \in Points
    BY DEF Points, Locked
  <2> QED
    BY <1>0, <1>2, <2>3, <2>5, <2>6, <2>7, ThreadStep
<1> QED
  BY <1>1, <1>2 DEF GiveUp

\* BufioNew, for a thread that is between its lock and unlock or gets the lock.
LEMMA BufioNewThread ==
  ASSUME ThreadsInv, NEW t \in Threads, NEW r \in Locals, BufioNew(t, r),
         r.call \in Getting, BlockRange(r), r.mine \notin Buffers,
         lock \in {t, Nobody}, UNCHANGED <<latest, asyncError>>
  PROVE  ThreadsInv'
<1>0. latest' \in Snapshot /\ asyncError' \in BOOLEAN
  BY ThreadFacts
<1>1. ASSUME NEW b \in Find(r.blk), Unlock, Go(t, "wait", [r EXCEPT !.mine = b])
      PROVE  ThreadsInv'
  <2> DEFINE s == [r EXCEPT !.mine = b]
  <2>1. b \in Buffers
    BY DEF Find, Linked
  <2>2. s \in Locals
    BY <2>1 DEF Locals
  <2>3. BlockRange(s)
    BY DEF BlockRange, Locals
  <2>4. ThreadOK("wait", s)
    BY <2>1, <2>3 DEF ThreadOK, Continuation, Possession, Moving, Inserting, Scanning, Locals
  <2>5. LockStep(t, "wait") /\ "wait" \in Points
    BY <1>1 DEF LockStep, Unlock, Locked, Unlocked, Points
  <2> QED
    BY <1>0, <1>1, <2>2, <2>4, <2>5, ThreadStep
<1>2. CASE GiveUp(t, r)
  BY <1>2, GiveUpThread
<1>3. CASE lock' = t /\ Go(t, "alloc", r)
  <2>1. ThreadOK("alloc", r)
    BY DEF ThreadOK, Continuation, Possession, Moving, Inserting, Scanning
  <2>2. LockStep(t, "alloc") /\ "alloc" \in Points
    BY <1>3 DEF LockStep, Locked, Points
  <2> QED
    BY <1>0, <1>3, <2>1, <2>2, ThreadStep
<1> QED
  BY <1>1, <1>2, <1>3 DEF BufioNew

\* From here on each step of a proof sees where threads can be and what they must have.
USE DEF ThreadOK, Continuation, BlockRange, Possession, Moving, Inserting, Scanning,
        LockStep, At, Unlock, KeepLock, Acquire, Momentarily, Points, Locked, Unlocked

-----------------------------------------------------------------------------
(* Getting a buffer.                                                       *)

\* The locals a call that gets a buffer starts with.
LEMMA WantedFacts ==
  ASSUME NEW c \in Getting, NEW k \in Blocks, NEW n \in Nat,
         \A i \in 0 .. n : k + i \in Blocks
  PROVE  /\ Wanted(c, k, n) \in Locals /\ Wanted(c, k, n).call = c
         /\ Wanted(c, k, n).mine = NoBuffer /\ BlockRange(Wanted(c, k, n))
<1>1. Rest(NoBuffer) \in Locals
  BY RestFacts
<1>2. Wanted(c, k, n) \in Locals
  BY <1>1 DEF Wanted, Locals, Getting, ApiCalls
<1>3. /\ Wanted(c, k, n).call = c /\ Wanted(c, k, n).mine = NoBuffer
      /\ Wanted(c, k, n).blk = k /\ Wanted(c, k, n).left = n
  BY DEF Wanted, Rest
<1> QED
  BY <1>2, <1>3

\* NewRead starts a lookup with a block of the device.
LEMMA NewReadThread ==
  ASSUME ThreadsInv, NEW t \in Threads, NEW c \in {"read", "new", "get"}, NEW k \in Blocks,
         NewRead(t, c, k)
  PROVE  ThreadsInv'
<1> DEFINE r == Wanted(c, k, 0)
<1>1. c \in Getting /\ k + 0 \in Blocks
  BY BlocksAssumption DEF Getting
<1>2. r \in Locals /\ r.call \in Getting /\ r.mine = NoBuffer /\ BlockRange(r)
  BY <1>1, WantedFacts
<1>3. BufioNew(t, r) /\ lock = Nobody /\ UNCHANGED <<latest, asyncError>>
  BY DEF NewRead, deviceVars, ioVars
<1> QED
  BY <1>2, <1>3, BufioNewThread, BuffersAssumption

\* Prefetch starts with a range inside the device.
LEMMA PrefetchThread ==
  ASSUME ThreadsInv, NEW t \in Threads, NEW k \in Blocks, NEW n \in PrefetchSizes,
         Prefetch(t, k, n)
  PROVE  ThreadsInv'
<1> DEFINE r == Wanted("prefetch", k, n - 1)
<1>1. n - 1 \in Nat /\ \A i \in 0 .. n - 1 : k + i \in Blocks
  BY SizesAssumption DEF Prefetch
<1>2. r \in Locals /\ r.call \in Getting /\ r.mine = NoBuffer /\ BlockRange(r)
  BY <1>1, WantedFacts DEF Getting
<1>3. BufioNew(t, r) /\ lock = Nobody /\ UNCHANGED <<latest, asyncError>>
  BY DEF Prefetch, deviceVars, ioVars
<1> QED
  BY <1>2, <1>3, BufioNewThread, BuffersAssumption

\* Lookup is for calls that get a buffer and have none yet.
LEMMA LookupThread ==
  ASSUME ThreadsInv, NEW t \in Threads, Lookup(t)
  PROVE  ThreadsInv'
<1>0. /\ pc[t] \in Points /\ loc[t] \in Locals /\ ThreadOK(pc[t], loc[t])
      /\ (lock = t) <=> pc[t] \in Locked
      /\ t # Nobody /\ latest \in Snapshot /\ asyncError \in BOOLEAN
  BY ThreadFacts
<1>1. BufioNew(t, loc[t]) /\ UNCHANGED <<latest, asyncError>>
  BY DEF Lookup, deviceVars, ioVars
<1>2. /\ loc[t].call \in Getting /\ BlockRange(loc[t]) /\ loc[t].mine \notin Buffers
      /\ lock \in {t, Nobody}
  BY <1>0 DEF Lookup, Getting
<1> QED
  BY <1>0, <1>1, <1>2, BufioNewThread

\* Alloc: a buffer in hand, the next block, a victim to clean, or sleep.
LEMMA AllocThread ==
  ASSUME ThreadsInv, NEW t \in Threads, Alloc(t)
  PROVE  ThreadsInv'
<1>0. /\ pc[t] \in Points /\ loc[t] \in Locals /\ ThreadOK(pc[t], loc[t])
      /\ (lock = t) <=> pc[t] \in Locked
      /\ t # Nobody /\ latest \in Snapshot /\ asyncError \in BOOLEAN
      /\ latest' \in Snapshot /\ asyncError' \in BOOLEAN
  BY ThreadFacts DEF Alloc, deviceVars, ioVars
<1>1. ASSUME At(t, "alloc"), NEW b \in Buffers, KeepLock,
             Go(t, "recheck", [loc[t] EXCEPT !.newb = b])
      PROVE  ThreadsInv'
  BY <1>0, <1>1, ThreadStep DEF Locals
<1>2. CASE GiveUp(t, loc[t]) /\ loc[t].call = "prefetch"
  BY <1>0, <1>2, GiveUpThread DEF Alloc, Locals, deviceVars, ioVars, Getting
<1>3. ASSUME At(t, "alloc"), NEW b \in Buffers, KeepLock,
             Go(t, "clean", [loc[t] EXCEPT !.cur = b, !.then = "alloc"])
      PROVE  ThreadsInv'
  <2>1. [loc[t] EXCEPT !.cur = b, !.then = "alloc"] \in Locals
    BY <1>0, <1>3 DEF Locals
  <2>2. ThreadOK("clean", [loc[t] EXCEPT !.cur = b, !.then = "alloc"])
    BY <1>0, <1>3 DEF Locals
  <2>3. LockStep(t, "clean") /\ "clean" \in Points
    BY <1>0, <1>3
  <2> QED
    BY <1>0, <1>3, <2>1, <2>2, <2>3, ThreadStep
<1>4. ASSUME At(t, "alloc"), Unlock,
             Go(t, "asleep", [loc[t] EXCEPT !.then = "alloc"])
      PROVE  ThreadsInv'
  BY <1>0, <1>4, ThreadStep DEF Locals
<1> QED
  BY <1>0, <1>1, <1>2, <1>3, <1>4 DEF Alloc, List, Unclaimed, Oldest, Unheld

\* WakeUp goes back to the loop that went to sleep.
LEMMA WakeUpThread ==
  ASSUME ThreadsInv, NEW t \in Threads, WakeUp(t)
  PROVE  ThreadsInv'
<1>0. /\ pc[t] \in Points /\ loc[t] \in Locals /\ ThreadOK(pc[t], loc[t])
      /\ (lock = t) <=> pc[t] \in Locked
      /\ t # Nobody /\ latest \in Snapshot /\ asyncError \in BOOLEAN
      /\ latest' \in Snapshot /\ asyncError' \in BOOLEAN
  BY ThreadFacts DEF WakeUp, deviceVars, ioVars
<1>1. ASSUME At(t, "asleep"), Acquire(t),
             Go(t, loc[t].then, [loc[t] EXCEPT !.then = "idle"])
      PROVE  ThreadsInv'
  BY <1>0, <1>1, ThreadStep DEF Locals
<1> QED
  BY <1>0, <1>1 DEF WakeUp

\* Recheck: look the block up again, or go on to link the new buffer.
LEMMA RecheckThread ==
  ASSUME ThreadsInv, NEW t \in Threads, Recheck(t)
  PROVE  ThreadsInv'
<1>0. /\ pc[t] \in Points /\ loc[t] \in Locals /\ ThreadOK(pc[t], loc[t])
      /\ (lock = t) <=> pc[t] \in Locked
      /\ t # Nobody /\ latest \in Snapshot /\ asyncError \in BOOLEAN
      /\ latest' \in Snapshot /\ asyncError' \in BOOLEAN
  BY ThreadFacts DEF Recheck, deviceVars, ioVars
<1>1. ASSUME At(t, "recheck"), KeepLock,
             Go(t, "lookup", [loc[t] EXCEPT !.newb = NoBuffer])
      PROVE  ThreadsInv'
  BY <1>0, <1>1, ThreadStep DEF Locals
<1>2. ASSUME At(t, "recheck"), KeepLock, NEW l \in Limits,
             Go(t, "watermark", [loc[t] EXCEPT !.lim = l])
      PROVE  ThreadsInv'
  BY <1>0, <1>2, ThreadStep, LimitsAssumption DEF Locals
<1> QED
  BY <1>0, <1>1, <1>2 DEF Recheck

\* Watermark: clean a victim, write back, or link, the new buffer in hand.
LEMMA WatermarkThread ==
  ASSUME ThreadsInv, NEW t \in Threads, Watermark(t)
  PROVE  ThreadsInv'
<1>0. /\ pc[t] \in Points /\ loc[t] \in Locals /\ ThreadOK(pc[t], loc[t])
      /\ (lock = t) <=> pc[t] \in Locked
      /\ t # Nobody /\ latest \in Snapshot /\ asyncError \in BOOLEAN
      /\ latest' \in Snapshot /\ asyncError' \in BOOLEAN
  BY ThreadFacts DEF Watermark, deviceVars, ioVars
<1>1. ASSUME At(t, "watermark"), NEW b \in Buffers, KeepLock,
             Go(t, "clean", [loc[t] EXCEPT !.cur = b, !.then = "watermark"])
      PROVE  ThreadsInv'
  <2>1. [loc[t] EXCEPT !.cur = b, !.then = "watermark"] \in Locals
    BY <1>0, <1>1 DEF Locals
  <2>2. ThreadOK("clean", [loc[t] EXCEPT !.cur = b, !.then = "watermark"])
    BY <1>0, <1>1 DEF Locals
  <2>3. LockStep(t, "clean") /\ "clean" \in Points
    BY <1>0, <1>1
  <2> QED
    BY <1>0, <1>1, <2>1, <2>2, <2>3, ThreadStep
<1>2. ASSUME At(t, "watermark"), KeepLock,
             Go(t, "link", loc[t])
      PROVE  ThreadsInv'
  BY <1>0, <1>2, ThreadStep DEF Locals
<1>3. ASSUME At(t, "watermark"), KeepLock,
             Go(t, "wb", [loc[t] EXCEPT !.walk = List("dirty"), !.then = "link"])
      PROVE  ThreadsInv'
  BY <1>0, <1>3, ThreadStep DEF Locals, List
<1> QED
  BY <1>0, <1>1, <1>2, <1>3 DEF Watermark, List, Unclaimed, Oldest, Unheld

\* LinkNew: the new buffer becomes the reference of its thread.
LEMMA LinkNewThread ==
  ASSUME ThreadsInv, NEW t \in Threads, LinkNew(t)
  PROVE  ThreadsInv'
<1>0. /\ pc[t] \in Points /\ loc[t] \in Locals /\ ThreadOK(pc[t], loc[t])
      /\ (lock = t) <=> pc[t] \in Locked
      /\ t # Nobody /\ latest \in Snapshot /\ asyncError \in BOOLEAN
      /\ latest' \in Snapshot /\ asyncError' \in BOOLEAN
  BY ThreadFacts DEF LinkNew, deviceVars, ioVars
<1>1. ASSUME At(t, "link"), Unlock, NEW a \in {"wait", "submit"},
             Go(t, "flush", [loc[t] EXCEPT !.mine = loc[t].newb, !.newb = NoBuffer, !.then = a, !.lim = 0])
      PROVE  ThreadsInv'
  <2>1. [loc[t] EXCEPT !.mine = loc[t].newb, !.newb = NoBuffer, !.then = a, !.lim = 0] \in Locals
    BY <1>0, <1>1 DEF Locals
  <2>2. ThreadOK("flush", [loc[t] EXCEPT !.mine = loc[t].newb, !.newb = NoBuffer, !.then = a, !.lim = 0])
    BY <1>0, <1>1 DEF Locals
  <2>3. LockStep(t, "flush") /\ "flush" \in Points
    BY <1>0, <1>1
  <2> QED
    BY <1>0, <1>1, <2>1, <2>2, <2>3, ThreadStep
<1>2. ASSUME At(t, "link"), Unlock, NEW a \in {"wait", "submit"},
             Go(t, "wait", [loc[t] EXCEPT !.mine = loc[t].newb, !.newb = NoBuffer, !.then = a, !.lim = 0])
      PROVE  ThreadsInv'
  <2>1. [loc[t] EXCEPT !.mine = loc[t].newb, !.newb = NoBuffer, !.then = a, !.lim = 0] \in Locals
    BY <1>0, <1>2 DEF Locals
  <2>2. ThreadOK("wait", [loc[t] EXCEPT !.mine = loc[t].newb, !.newb = NoBuffer, !.then = a, !.lim = 0])
    BY <1>0, <1>2 DEF Locals
  <2>3. LockStep(t, "wait") /\ "wait" \in Points
    BY <1>0, <1>2
  <2> QED
    BY <1>0, <1>2, <2>1, <2>2, <2>3, ThreadStep
<1>3. ASSUME At(t, "link"), Unlock, NEW a \in {"wait", "submit"},
             Go(t, "submit", [loc[t] EXCEPT !.mine = loc[t].newb, !.newb = NoBuffer, !.then = a, !.lim = 0])
      PROVE  ThreadsInv'
  <2>1. [loc[t] EXCEPT !.mine = loc[t].newb, !.newb = NoBuffer, !.then = a, !.lim = 0] \in Locals
    BY <1>0, <1>3 DEF Locals
  <2>2. ThreadOK("submit", [loc[t] EXCEPT !.mine = loc[t].newb, !.newb = NoBuffer, !.then = a, !.lim = 0])
    BY <1>0, <1>3 DEF Locals
  <2>3. LockStep(t, "submit") /\ "submit" \in Points
    BY <1>0, <1>3
  <2> QED
    BY <1>0, <1>3, <2>1, <2>2, <2>3, ThreadStep
<1> QED
  BY <1>0, <1>1, <1>2, <1>3 DEF LinkNew

\* Flush: one write after the other, then where the call goes on.
LEMMA FlushThread ==
  ASSUME ThreadsInv, NEW t \in Threads, Flush(t)
  PROVE  ThreadsInv'
<1>0. /\ pc[t] \in Points /\ loc[t] \in Locals /\ ThreadOK(pc[t], loc[t])
      /\ (lock = t) <=> pc[t] \in Locked
      /\ t # Nobody /\ latest \in Snapshot /\ asyncError \in BOOLEAN
      /\ latest' \in Snapshot /\ asyncError' \in BOOLEAN
  BY ThreadFacts DEF Flush, deviceVars, ioVars
<1>1. ASSUME At(t, "flush"), NEW b \in loc[t].wl, UNCHANGED lock,
             Go(t, "flush", [loc[t] EXCEPT !.wl = @ \ {b}])
      PROVE  ThreadsInv'
  BY <1>0, <1>1, ThreadStep DEF Locals
<1>2. ASSUME At(t, "flush"), UNCHANGED lock, Return(t, loc[t].mine) PROVE ThreadsInv'
  <2>1. Rest(loc[t].mine) \in Locals /\ ThreadOK("idle", Rest(loc[t].mine))
    BY <1>0, <1>2, RestFacts DEF Locals
  <2>2. LockStep(t, "idle") /\ "idle" \in Points
    BY <1>0, <1>2
  <2> QED
    BY <1>0, <1>2, <2>1, <2>2, ThreadStep DEF Return
<1>3. ASSUME At(t, "flush"), UNCHANGED lock, loc[t].then # "idle",
             Go(t, loc[t].then, loc[t])
      PROVE  ThreadsInv'
  BY <1>0, <1>3, ThreadStep DEF Locals
<1>4. ASSUME At(t, "flush"), Momentarily, loc[t].then # "idle",
             Go(t, loc[t].then, loc[t])
      PROVE  ThreadsInv'
  BY <1>0, <1>4, ThreadStep DEF Locals
<1>5. ASSUME At(t, "flush"), Momentarily, Return(t, loc[t].mine) PROVE ThreadsInv'
  <2>1. Rest(loc[t].mine) \in Locals /\ ThreadOK("idle", Rest(loc[t].mine))
    BY <1>0, <1>5, RestFacts DEF Locals
  <2>2. LockStep(t, "idle") /\ "idle" \in Points
    BY <1>0, <1>5
  <2> QED
    BY <1>0, <1>5, <2>1, <2>2, ThreadStep DEF Return
<1> QED
  BY <1>0, <1>1, <1>2, <1>3, <1>4, <1>5 DEF Flush

\* SubmitRead: the thread that submits has its buffer.
LEMMA SubmitReadThread ==
  ASSUME ThreadsInv, NEW t \in Threads, SubmitRead(t)
  PROVE  ThreadsInv'
<1>0. /\ pc[t] \in Points /\ loc[t] \in Locals /\ ThreadOK(pc[t], loc[t])
      /\ (lock = t) <=> pc[t] \in Locked
      /\ t # Nobody /\ latest \in Snapshot /\ asyncError \in BOOLEAN
      /\ latest' \in Snapshot /\ asyncError' \in BOOLEAN
  BY ThreadFacts DEF SubmitRead, deviceVars, ioVars
<1>1. ASSUME At(t, "submit"), UNCHANGED lock,
             Go(t, "release", loc[t])
      PROVE  ThreadsInv'
  BY <1>0, <1>1, ThreadStep DEF Locals
<1>2. ASSUME At(t, "submit"), UNCHANGED lock,
             Go(t, "wait", loc[t])
      PROVE  ThreadsInv'
  BY <1>0, <1>2, ThreadStep DEF Locals
<1> QED
  BY <1>0, <1>1, <1>2 DEF SubmitRead

\* WaitRead: the call returns with its buffer, or gives it back.
LEMMA WaitReadThread ==
  ASSUME ThreadsInv, NEW t \in Threads, WaitRead(t)
  PROVE  ThreadsInv'
<1>0. /\ pc[t] \in Points /\ loc[t] \in Locals /\ ThreadOK(pc[t], loc[t])
      /\ (lock = t) <=> pc[t] \in Locked
      /\ t # Nobody /\ latest \in Snapshot /\ asyncError \in BOOLEAN
      /\ latest' \in Snapshot /\ asyncError' \in BOOLEAN
  BY ThreadFacts DEF WaitRead, deviceVars, ioVars
<1>1. ASSUME At(t, "wait"), UNCHANGED lock,
             Go(t, "release", loc[t])
      PROVE  ThreadsInv'
  BY <1>0, <1>1, ThreadStep DEF Locals
<1>2. ASSUME At(t, "wait"), UNCHANGED lock, Return(t, loc[t].mine) PROVE ThreadsInv'
  <2>1. Rest(loc[t].mine) \in Locals /\ ThreadOK("idle", Rest(loc[t].mine))
    BY <1>0, <1>2, RestFacts DEF Locals
  <2>2. LockStep(t, "idle") /\ "idle" \in Points
    BY <1>0, <1>2
  <2> QED
    BY <1>0, <1>2, <2>1, <2>2, ThreadStep DEF Return
<1>3. ASSUME At(t, "wait"), UNCHANGED lock,
             Go(t, "overwrite", loc[t])
      PROVE  ThreadsInv'
  BY <1>0, <1>3, ThreadStep DEF Locals
<1> QED
  BY <1>0, <1>1, <1>2, <1>3 DEF WaitRead

-----------------------------------------------------------------------------
(* Giving a buffer back, and making it dirty.                              *)

\* ReleaseRef: the reference goes; a prefetch goes on with the rest of its range.
LEMMA ReleaseRefThread ==
  ASSUME ThreadsInv, NEW t \in Threads, ReleaseRef(t)
  PROVE  ThreadsInv'
<1>0. /\ pc[t] \in Points /\ loc[t] \in Locals /\ ThreadOK(pc[t], loc[t])
      /\ (lock = t) <=> pc[t] \in Locked
      /\ t # Nobody /\ latest \in Snapshot /\ asyncError \in BOOLEAN
      /\ latest' \in Snapshot /\ asyncError' \in BOOLEAN
  BY ThreadFacts DEF ReleaseRef, deviceVars, ioVars
<1>1. ASSUME loc[t].call = "prefetch", loc[t].left > 0
      PROVE  /\ Wanted("prefetch", loc[t].blk + 1, loc[t].left - 1) \in Locals
             /\ ThreadOK("relock", Wanted("prefetch", loc[t].blk + 1, loc[t].left - 1))
  <2> DEFINE w == Wanted("prefetch", loc[t].blk + 1, loc[t].left - 1)
  <2>1. /\ loc[t].left \in Nat /\ loc[t].blk \in Blocks
        /\ \A i \in 0 .. loc[t].left : loc[t].blk + i \in Blocks
    BY <1>0, <1>1 DEF Locals, Getting
  <2>2. loc[t].blk \in Nat /\ loc[t].blk + 1 \in Blocks /\ loc[t].left - 1 \in Nat
    <3>1. 1 \in 0 .. loc[t].left /\ loc[t].left - 1 \in Nat
      BY <1>1, <2>1
    <3>2. loc[t].blk + 1 \in Blocks
      BY <2>1, <3>1
    <3> QED
      BY <2>1, <3>1, <3>2, BlocksAssumption
  <2>3. ASSUME NEW i \in 0 .. loc[t].left - 1 PROVE (loc[t].blk + 1) + i \in Blocks
    <3>1. i + 1 \in 0 .. loc[t].left /\ (loc[t].blk + 1) + i = loc[t].blk + (i + 1)
      BY <2>1, <2>2
    <3> QED
      BY <2>1, <3>1
  <2>4. w \in Locals /\ w.call = "prefetch" /\ w.mine = NoBuffer /\ BlockRange(w)
    BY <2>1, <2>2, <2>3, WantedFacts DEF Getting
  <2> QED
    BY <2>4, BuffersAssumption
<1>2. ASSUME loc[t].call = "prefetch", loc[t].left > 0, Momentarily,
             At(t, "release") \/ At(t, "idle"),
             Go(t, "relock", Wanted("prefetch", loc[t].blk + 1, loc[t].left - 1))
      PROVE  ThreadsInv'
  BY <1>0, <1>2, ThreadStep, <1>1 DEF Locals
<1>3. ASSUME Momentarily, At(t, "release") \/ At(t, "idle"), Return(t, NoBuffer) PROVE ThreadsInv'
  <2>1. Rest(NoBuffer) \in Locals /\ ThreadOK("idle", Rest(NoBuffer))
    BY <1>0, <1>3, RestFacts DEF Locals
  <2>2. LockStep(t, "idle") /\ "idle" \in Points
    BY <1>0, <1>3
  <2> QED
    BY <1>0, <1>3, <2>1, <2>2, ThreadStep DEF Return
<1> QED
  BY <1>0, <1>1, <1>2, <1>3 DEF ReleaseRef

\* MakeDirty: the contents stay in range, the call returns with its buffer.
LEMMA MakeDirtyThread ==
  ASSUME ThreadsInv, NEW t \in Threads, At(t, "idle") \/ At(t, "overwrite"), MakeDirty(t)
  PROVE  ThreadsInv'
<1>0. /\ pc[t] \in Points /\ loc[t] \in Locals /\ ThreadOK(pc[t], loc[t])
      /\ (lock = t) <=> pc[t] \in Locked
      /\ t # Nobody /\ latest \in Snapshot /\ asyncError \in BOOLEAN
  BY ThreadFacts
<1>1. latest' \in Snapshot /\ asyncError' \in BOOLEAN
  BY <1>0, BumpType DEF MakeDirty, ioVars, Snapshot
<1>2. ASSUME At(t, "idle") \/ At(t, "overwrite"), Momentarily, Return(t, loc[t].mine) PROVE ThreadsInv'
  <2>1. Rest(loc[t].mine) \in Locals /\ ThreadOK("idle", Rest(loc[t].mine))
    BY <1>0, <1>2, RestFacts DEF Locals
  <2>2. LockStep(t, "idle") /\ "idle" \in Points
    BY <1>0, <1>2
  <2> QED
    BY <1>0, <1>2, <2>1, <2>2, <1>1, ThreadStep DEF Return
<1> QED
  BY <1>0, <1>1, <1>2 DEF MakeDirty

\* Forget is over in one step.
LEMMA ForgetThread ==
  ASSUME ThreadsInv, NEW t \in Threads, NEW k, Forget(t, k)
  PROVE  ThreadsInv'
<1>0. /\ pc[t] \in Points /\ loc[t] \in Locals /\ ThreadOK(pc[t], loc[t])
      /\ (lock = t) <=> pc[t] \in Locked
      /\ t # Nobody /\ latest \in Snapshot /\ asyncError \in BOOLEAN
      /\ latest' \in Snapshot /\ asyncError' \in BOOLEAN
  BY ThreadFacts DEF Forget, deviceVars, ioVars
<1>1. UNCHANGED <<lock, pc, loc>>
  BY DEF Forget, Momentarily
<1> QED
  BY <1>0, <1>1, ThreadsUnchanged DEF Forget

-----------------------------------------------------------------------------
(* Making a buffer clean, and writing back.                                *)

\* CleanWrite leaves the thread where it is.
LEMMA CleanWriteThread ==
  ASSUME ThreadsInv, NEW t \in Threads, CleanWrite(t)
  PROVE  ThreadsInv'
<1>0. /\ pc[t] \in Points /\ loc[t] \in Locals /\ ThreadOK(pc[t], loc[t])
      /\ (lock = t) <=> pc[t] \in Locked
      /\ t # Nobody /\ latest \in Snapshot /\ asyncError \in BOOLEAN
      /\ latest' \in Snapshot /\ asyncError' \in BOOLEAN
  BY ThreadFacts DEF CleanWrite, deviceVars, ioVars
<1>1. UNCHANGED <<lock, pc, loc>>
  BY DEF CleanWrite
<1> QED
  BY <1>0, <1>1, ThreadsUnchanged DEF CleanWrite

\* The walk of __scan goes on or ends: not more freed than was asked for.
LEMMA ScannedThread ==
  ASSUME ThreadsInv, NEW t \in Threads, At(t, "clean"), loc[t].then = "scan", Scanned(t, 1),
         UNCHANGED <<latest, asyncError>>
  PROVE  ThreadsInv'
<1> DEFINE r == [loc[t] EXCEPT !.left = @ - 1, !.count = @ - 1, !.cur = NoBuffer]
<1>0. /\ pc[t] \in Points /\ loc[t] \in Locals /\ ThreadOK(pc[t], loc[t])
      /\ (lock = t) <=> pc[t] \in Locked
      /\ t # Nobody /\ latest' \in Snapshot /\ asyncError' \in BOOLEAN
  BY ThreadFacts
<1>1. /\ loc[t].left \in Nat /\ loc[t].count \in Nat
      /\ 1 <= loc[t].left /\ loc[t].left <= loc[t].count
  BY <1>0 DEF Locals
<1>5. loc[t].left - 1 \in Nat /\ loc[t].count - 1 \in Nat
  BY <1>1
<1>2. r \in Locals
  BY <1>0, <1>1, <1>5 DEF Locals
<1>3. CASE Unlock /\ Return(t, r.mine)
  <2>1. Rest(r.mine) \in Locals /\ ThreadOK("idle", Rest(r.mine))
    BY <1>2, RestFacts DEF Locals
  <2>2. LockStep(t, "idle") /\ "idle" \in Points
    BY <1>0, <1>3
  <2> QED
    BY <1>0, <1>3, <2>1, <2>2, ThreadStep DEF Return
<1>4. CASE r.left # 0 /\ KeepLock /\ Go(t, "scan", r)
  <2>1. ThreadOK("scan", r)
    BY <1>0, <1>1, <1>2, <1>4 DEF Locals, Getting
  <2>2. LockStep(t, "scan") /\ "scan" \in Points
    BY <1>0, <1>4
  <2> QED
    BY <1>0, <1>2, <1>4, <2>1, <2>2, ThreadStep
<1> QED
  BY <1>3, <1>4 DEF Scanned

\* CleanDone goes back to the loop that chose the victim.
LEMMA CleanDoneThread ==
  ASSUME ThreadsInv, NEW t \in Threads, CleanDone(t)
  PROVE  ThreadsInv'
<1>0. /\ pc[t] \in Points /\ loc[t] \in Locals /\ ThreadOK(pc[t], loc[t])
      /\ (lock = t) <=> pc[t] \in Locked
      /\ t # Nobody /\ latest \in Snapshot /\ asyncError \in BOOLEAN
      /\ latest' \in Snapshot /\ asyncError' \in BOOLEAN
  BY ThreadFacts DEF CleanDone, deviceVars, ioVars
<1>1. ASSUME At(t, "clean"), loc[t].then = "alloc", KeepLock,
             Go(t, "recheck", [loc[t] EXCEPT !.newb = loc[t].cur, !.cur = NoBuffer, !.then = "idle"])
      PROVE  ThreadsInv'
  BY <1>0, <1>1, ThreadStep DEF Locals
<1>2. ASSUME At(t, "clean"), loc[t].then \in {"watermark", "drop", "move"}, KeepLock,
             Go(t, loc[t].then, [loc[t] EXCEPT !.cur = NoBuffer, !.then = "idle"])
      PROVE  ThreadsInv'
  <2>1. [loc[t] EXCEPT !.cur = NoBuffer, !.then = "idle"] \in Locals
    BY <1>0, <1>2 DEF Locals
  <2>2. ThreadOK(loc[t].then, [loc[t] EXCEPT !.cur = NoBuffer, !.then = "idle"])
    BY <1>0, <1>2 DEF Locals
  <2>3. LockStep(t, loc[t].then) /\ loc[t].then \in Points
    BY <1>0, <1>2
  <2> QED
    BY <1>0, <1>2, <2>1, <2>2, <2>3, ThreadStep
<1>3. CASE loc[t].then = "scan" /\ Scanned(t, 1)
  BY <1>0, <1>3, ScannedThread DEF CleanDone, deviceVars, ioVars
<1> QED
  BY <1>0, <1>1, <1>2, <1>3 DEF CleanDone

\* WriteAsync starts a write-back.
LEMMA WriteAsyncThread ==
  ASSUME ThreadsInv, NEW t \in Threads, WriteAsync(t)
  PROVE  ThreadsInv'
<1>0. /\ pc[t] \in Points /\ loc[t] \in Locals /\ ThreadOK(pc[t], loc[t])
      /\ (lock = t) <=> pc[t] \in Locked
      /\ t # Nobody /\ latest \in Snapshot /\ asyncError \in BOOLEAN
      /\ latest' \in Snapshot /\ asyncError' \in BOOLEAN
  BY ThreadFacts DEF WriteAsync, deviceVars, ioVars
<1>1. ASSUME At(t, "idle"), Acquire(t),
             Go(t, "wb", [loc[t] EXCEPT !.call = "async", !.walk = List("dirty"), !.then = "idle"])
      PROVE  ThreadsInv'
  <2>1. [loc[t] EXCEPT !.call = "async", !.walk = List("dirty"), !.then = "idle"] \in Locals
    BY <1>0, <1>1 DEF Locals, List, ApiCalls, Getting
  <2>2. ThreadOK("wb", [loc[t] EXCEPT !.call = "async", !.walk = List("dirty"), !.then = "idle"])
    BY <1>0, <1>1 DEF Locals, List, ApiCalls, Getting
  <2>3. LockStep(t, "wb") /\ "wb" \in Points
    BY <1>0, <1>1
  <2> QED
    BY <1>0, <1>1, <2>1, <2>2, <2>3, ThreadStep
<1> QED
  BY <1>0, <1>1 DEF WriteAsync, StartWriteBack, Call

\* Sync starts a write-back.
LEMMA SyncThread ==
  ASSUME ThreadsInv, NEW t \in Threads, Sync(t)
  PROVE  ThreadsInv'
<1>0. /\ pc[t] \in Points /\ loc[t] \in Locals /\ ThreadOK(pc[t], loc[t])
      /\ (lock = t) <=> pc[t] \in Locked
      /\ t # Nobody /\ latest \in Snapshot /\ asyncError \in BOOLEAN
      /\ latest' \in Snapshot /\ asyncError' \in BOOLEAN
  BY ThreadFacts DEF Sync, deviceVars, ioVars
<1>1. ASSUME At(t, "idle"), Acquire(t), latest \in Snapshot,
             Go(t, "wb", [loc[t] EXCEPT !.call = "sync", !.walk = List("dirty"), !.then = "relock",
                             !.snap = latest, !.res = FALSE])
      PROVE  ThreadsInv'
  <2>1. [loc[t] EXCEPT !.call = "sync", !.walk = List("dirty"), !.then = "relock",
                             !.snap = latest, !.res = FALSE] \in Locals
    BY <1>0, <1>1 DEF Locals, List, ApiCalls, Getting
  <2>2. ThreadOK("wb", [loc[t] EXCEPT !.call = "sync", !.walk = List("dirty"), !.then = "relock",
                             !.snap = latest, !.res = FALSE])
    BY <1>0, <1>1 DEF Locals, List, ApiCalls, Getting
  <2>3. LockStep(t, "wb") /\ "wb" \in Points
    BY <1>0, <1>1
  <2> QED
    BY <1>0, <1>1, <2>1, <2>2, <2>3, ThreadStep
<1> QED
  BY <1>0, <1>1 DEF Sync, Call

\* WriteBack: the walk keeps the lock, its end drops it unless a new buffer waits.
LEMMA WriteBackThread ==
  ASSUME ThreadsInv, NEW t \in Threads, WriteBack(t)
  PROVE  ThreadsInv'
<1>0. /\ pc[t] \in Points /\ loc[t] \in Locals /\ ThreadOK(pc[t], loc[t])
      /\ (lock = t) <=> pc[t] \in Locked
      /\ t # Nobody /\ latest \in Snapshot /\ asyncError \in BOOLEAN
      /\ latest' \in Snapshot /\ asyncError' \in BOOLEAN
  BY ThreadFacts DEF WriteBack, deviceVars, ioVars
<1>1. ASSUME At(t, "wb"), NEW b, KeepLock,
             Go(t, "wb", [loc[t] EXCEPT !.walk = @ \ {b}])
      PROVE  ThreadsInv'
  BY <1>0, <1>1, ThreadStep DEF Locals
<1>2. ASSUME At(t, "wb"), NEW b \in loc[t].walk, KeepLock,
             Go(t, "wb", [loc[t] EXCEPT !.walk = @ \ {b}, !.wl = @ \cup {b}])
      PROVE  ThreadsInv'
  <2>1. [loc[t] EXCEPT !.walk = @ \ {b}, !.wl = @ \cup {b}] \in Locals
    BY <1>0, <1>2 DEF Locals
  <2>2. ThreadOK("wb", [loc[t] EXCEPT !.walk = @ \ {b}, !.wl = @ \cup {b}])
    BY <1>0, <1>2 DEF Locals
  <2>3. LockStep(t, "wb") /\ "wb" \in Points
    BY <1>0, <1>2
  <2> QED
    BY <1>0, <1>2, <2>1, <2>2, <2>3, ThreadStep
<1>3. ASSUME At(t, "wb"), KeepLock,
             Go(t, "wb", [loc[t] EXCEPT !.walk = {}])
      PROVE  ThreadsInv'
  BY <1>0, <1>3, ThreadStep DEF Locals
<1>4. ASSUME At(t, "wb"), KeepLock, loc[t].then = "link",
             Go(t, "link", loc[t])
      PROVE  ThreadsInv'
  BY <1>0, <1>4, ThreadStep DEF Locals
<1>5. ASSUME At(t, "wb"), Unlock, loc[t].then # "link",
             Go(t, "flush", loc[t])
      PROVE  ThreadsInv'
  BY <1>0, <1>5, ThreadStep DEF Locals
<1> QED
  BY <1>0, <1>1, <1>2, <1>3, <1>4, <1>5 DEF WriteBack, Oldest

\* SyncWalk takes the lock again.
LEMMA SyncWalkThread ==
  ASSUME ThreadsInv, NEW t \in Threads, SyncWalk(t)
  PROVE  ThreadsInv'
<1>0. /\ pc[t] \in Points /\ loc[t] \in Locals /\ ThreadOK(pc[t], loc[t])
      /\ (lock = t) <=> pc[t] \in Locked
      /\ t # Nobody /\ latest \in Snapshot /\ asyncError \in BOOLEAN
      /\ latest' \in Snapshot /\ asyncError' \in BOOLEAN
  BY ThreadFacts DEF SyncWalk, deviceVars, ioVars
<1>1. ASSUME At(t, "relock"), Acquire(t),
             Go(t, "sync", [loc[t] EXCEPT !.walk = List("dirty")])
      PROVE  ThreadsInv'
  BY <1>0, <1>1, ThreadStep DEF Locals, List
<1> QED
  BY <1>0, <1>1 DEF SyncWalk

\* SyncVisit: wait without the lock, with it, or go on.
LEMMA SyncVisitThread ==
  ASSUME ThreadsInv, NEW t \in Threads, SyncVisit(t)
  PROVE  ThreadsInv'
<1>0. /\ pc[t] \in Points /\ loc[t] \in Locals /\ ThreadOK(pc[t], loc[t])
      /\ (lock = t) <=> pc[t] \in Locked
      /\ t # Nobody /\ latest \in Snapshot /\ asyncError \in BOOLEAN
      /\ latest' \in Snapshot /\ asyncError' \in BOOLEAN
  BY ThreadFacts DEF SyncVisit, deviceVars, ioVars
<1>1. ASSUME At(t, "sync"), NEW n \in Nat, NEW b \in Buffers, Unlock,
             Go(t, "syncwait", [loc[t] EXCEPT !.count = n, !.cur = b, !.walk = {}])
      PROVE  ThreadsInv'
  <2>1. [loc[t] EXCEPT !.count = n, !.cur = b, !.walk = {}] \in Locals
    BY <1>0, <1>1 DEF Locals
  <2>2. ThreadOK("syncwait", [loc[t] EXCEPT !.count = n, !.cur = b, !.walk = {}])
    BY <1>0, <1>1 DEF Locals
  <2>3. LockStep(t, "syncwait") /\ "syncwait" \in Points
    BY <1>0, <1>1
  <2> QED
    BY <1>0, <1>1, <2>1, <2>2, <2>3, ThreadStep
<1>2. ASSUME At(t, "sync"), NEW n \in Nat, NEW b \in Buffers, KeepLock,
             Go(t, "park", [loc[t] EXCEPT !.count = n, !.cur = b])
      PROVE  ThreadsInv'
  <2>1. [loc[t] EXCEPT !.count = n, !.cur = b] \in Locals
    BY <1>0, <1>2 DEF Locals
  <2>2. ThreadOK("park", [loc[t] EXCEPT !.count = n, !.cur = b])
    BY <1>0, <1>2 DEF Locals
  <2>3. LockStep(t, "park") /\ "park" \in Points
    BY <1>0, <1>2
  <2> QED
    BY <1>0, <1>2, <2>1, <2>2, <2>3, ThreadStep
<1>3. ASSUME At(t, "sync"), NEW n \in Nat, NEW b \in Buffers, KeepLock,
             Go(t, "sync", [loc[t] EXCEPT !.count = n, !.walk = @ \ {b}])
      PROVE  ThreadsInv'
  <2>1. [loc[t] EXCEPT !.count = n, !.walk = @ \ {b}] \in Locals
    BY <1>0, <1>3 DEF Locals
  <2>2. ThreadOK("sync", [loc[t] EXCEPT !.count = n, !.walk = @ \ {b}])
    BY <1>0, <1>3 DEF Locals
  <2>3. LockStep(t, "sync") /\ "sync" \in Points
    BY <1>0, <1>3
  <2> QED
    BY <1>0, <1>3, <2>1, <2>2, <2>3, ThreadStep
<1>4. Processed(loc[t]) \in Nat /\ loc[t].walk \subseteq Buffers
  BY <1>0 DEF Processed, Locals
<1> QED
  BY <1>0, <1>1, <1>2, <1>3, <1>4 DEF SyncVisit, Oldest, Locals

\* SyncPark goes on with the walk.
LEMMA SyncParkThread ==
  ASSUME ThreadsInv, NEW t \in Threads, SyncPark(t)
  PROVE  ThreadsInv'
<1>0. /\ pc[t] \in Points /\ loc[t] \in Locals /\ ThreadOK(pc[t], loc[t])
      /\ (lock = t) <=> pc[t] \in Locked
      /\ t # Nobody /\ latest \in Snapshot /\ asyncError \in BOOLEAN
      /\ latest' \in Snapshot /\ asyncError' \in BOOLEAN
  BY ThreadFacts DEF SyncPark, deviceVars, ioVars
<1>1. ASSUME At(t, "park"), KeepLock,
             Go(t, "sync", [loc[t] EXCEPT !.walk = @ \ {loc[t].cur}, !.cur = NoBuffer])
      PROVE  ThreadsInv'
  <2>1. [loc[t] EXCEPT !.walk = @ \ {loc[t].cur}, !.cur = NoBuffer] \in Locals
    BY <1>0, <1>1 DEF Locals
  <2>2. ThreadOK("sync", [loc[t] EXCEPT !.walk = @ \ {loc[t].cur}, !.cur = NoBuffer])
    BY <1>0, <1>1 DEF Locals
  <2>3. LockStep(t, "sync") /\ "sync" \in Points
    BY <1>0, <1>1
  <2> QED
    BY <1>0, <1>1, <2>1, <2>2, <2>3, ThreadStep
<1> QED
  BY <1>0, <1>1 DEF SyncPark

\* SyncWake wants the lock back.
LEMMA SyncWakeThread ==
  ASSUME ThreadsInv, NEW t \in Threads, SyncWake(t)
  PROVE  ThreadsInv'
<1>0. /\ pc[t] \in Points /\ loc[t] \in Locals /\ ThreadOK(pc[t], loc[t])
      /\ (lock = t) <=> pc[t] \in Locked
      /\ t # Nobody /\ latest \in Snapshot /\ asyncError \in BOOLEAN
      /\ latest' \in Snapshot /\ asyncError' \in BOOLEAN
  BY ThreadFacts DEF SyncWake, deviceVars, ioVars
<1>1. ASSUME At(t, "syncwait"), UNCHANGED lock,
             Go(t, "syncrelock", loc[t])
      PROVE  ThreadsInv'
  BY <1>0, <1>1, ThreadStep DEF Locals
<1> QED
  BY <1>0, <1>1 DEF SyncWake

\* SyncRelock starts the walk again.
LEMMA SyncRelockThread ==
  ASSUME ThreadsInv, NEW t \in Threads, SyncRelock(t)
  PROVE  ThreadsInv'
<1>0. /\ pc[t] \in Points /\ loc[t] \in Locals /\ ThreadOK(pc[t], loc[t])
      /\ (lock = t) <=> pc[t] \in Locked
      /\ t # Nobody /\ latest \in Snapshot /\ asyncError \in BOOLEAN
      /\ latest' \in Snapshot /\ asyncError' \in BOOLEAN
  BY ThreadFacts DEF SyncRelock, deviceVars, ioVars
<1>1. ASSUME At(t, "syncrelock"), Acquire(t),
             Go(t, "sync", [loc[t] EXCEPT !.cur = NoBuffer, !.walk = {c \in Buffers : buf'[c].where = "dirty"}])
      PROVE  ThreadsInv'
  <2>1. [loc[t] EXCEPT !.cur = NoBuffer, !.walk = {c \in Buffers : buf'[c].where = "dirty"}] \in Locals
    BY <1>0, <1>1 DEF Locals
  <2>2. ThreadOK("sync", [loc[t] EXCEPT !.cur = NoBuffer, !.walk = {c \in Buffers : buf'[c].where = "dirty"}])
    BY <1>0, <1>1 DEF Locals
  <2>3. LockStep(t, "sync") /\ "sync" \in Points
    BY <1>0, <1>1
  <2> QED
    BY <1>0, <1>1, <2>1, <2>2, <2>3, ThreadStep
<1> QED
  BY <1>0, <1>1 DEF SyncRelock

\* SyncEnd drops the lock.
LEMMA SyncEndThread ==
  ASSUME ThreadsInv, NEW t \in Threads, SyncEnd(t)
  PROVE  ThreadsInv'
<1>0. /\ pc[t] \in Points /\ loc[t] \in Locals /\ ThreadOK(pc[t], loc[t])
      /\ (lock = t) <=> pc[t] \in Locked
      /\ t # Nobody /\ latest \in Snapshot /\ asyncError \in BOOLEAN
      /\ latest' \in Snapshot /\ asyncError' \in BOOLEAN
  BY ThreadFacts DEF SyncEnd, deviceVars, ioVars
<1>1. ASSUME At(t, "sync"), Unlock,
             Go(t, "xchg", [loc[t] EXCEPT !.count = 0])
      PROVE  ThreadsInv'
  BY <1>0, <1>1, ThreadStep DEF Locals
<1> QED
  BY <1>0, <1>1 DEF SyncEnd

\* TakeError takes the error without the lock.
LEMMA TakeErrorThread ==
  ASSUME ThreadsInv, NEW t \in Threads, TakeError(t)
  PROVE  ThreadsInv'
<1>0. /\ pc[t] \in Points /\ loc[t] \in Locals /\ ThreadOK(pc[t], loc[t])
      /\ (lock = t) <=> pc[t] \in Locked
      /\ t # Nobody /\ latest \in Snapshot /\ asyncError \in BOOLEAN
      /\ latest' \in Snapshot /\ asyncError' \in BOOLEAN
  BY ThreadFacts DEF TakeError, deviceVars, ioVars
<1>1. ASSUME At(t, "xchg"), UNCHANGED lock, NEW e \in BOOLEAN,
             Go(t, "issueflush", [loc[t] EXCEPT !.res = e])
      PROVE  ThreadsInv'
  BY <1>0, <1>1, ThreadStep DEF Locals
<1> QED
  BY <1>0, <1>1 DEF TakeError

\* IssueFlush ends the call.
LEMMA IssueFlushThread ==
  ASSUME ThreadsInv, NEW t \in Threads, IssueFlush(t)
  PROVE  ThreadsInv'
<1>0. /\ pc[t] \in Points /\ loc[t] \in Locals /\ ThreadOK(pc[t], loc[t])
      /\ (lock = t) <=> pc[t] \in Locked
      /\ t # Nobody /\ latest \in Snapshot /\ asyncError \in BOOLEAN
      /\ latest' \in Snapshot /\ asyncError' \in BOOLEAN
  BY ThreadFacts DEF IssueFlush, deviceVars, ioVars
<1>1. Rest(loc[t].mine) \in Locals /\ ThreadOK("idle", Rest(loc[t].mine))
  BY <1>0, RestFacts DEF Locals
<1>2. ASSUME At(t, "issueflush"), UNCHANGED lock, NEW e \in BOOLEAN,
             Go(t, "idle", [Rest(loc[t].mine) EXCEPT !.res = e])
      PROVE  ThreadsInv'
  BY <1>0, <1>2, ThreadStep, <1>1 DEF Locals
<1>3. loc[t].res \in BOOLEAN
  BY <1>0 DEF Locals
<1> QED
  BY <1>0, <1>1, <1>2, <1>3 DEF IssueFlush

-----------------------------------------------------------------------------
(* Moving a buffer.                                                        *)

\* Move starts with a buffer and a block of the device.
LEMMA MoveThread ==
  ASSUME ThreadsInv, NEW t \in Threads, NEW k \in Blocks, Move(t, k)
  PROVE  ThreadsInv'
<1>0. /\ pc[t] \in Points /\ loc[t] \in Locals /\ ThreadOK(pc[t], loc[t])
      /\ (lock = t) <=> pc[t] \in Locked
      /\ t # Nobody /\ latest \in Snapshot /\ asyncError \in BOOLEAN
      /\ latest' \in Snapshot /\ asyncError' \in BOOLEAN
  BY ThreadFacts DEF Move, deviceVars, ioVars
<1>1. Rest(loc[t].mine) \in Locals /\ ThreadOK("idle", Rest(loc[t].mine))
      /\ Rest(loc[t].mine).mine = loc[t].mine /\ loc[t].mine \in Buffers \cup {NoBuffer}
  BY <1>0, RestFacts DEF Locals
<1>2. ASSUME At(t, "idle"), loc[t].mine # NoBuffer, Acquire(t),
             Go(t, "move", [Rest(loc[t].mine) EXCEPT !.call = "move", !.blk = k])
      PROVE  ThreadsInv'
  <2>1. [Rest(loc[t].mine) EXCEPT !.call = "move", !.blk = k] \in Locals
    BY <1>1, loc[t].mine # NoBuffer, <1>0 DEF Locals, ApiCalls, Getting
  <2>2. ThreadOK("move", [Rest(loc[t].mine) EXCEPT !.call = "move", !.blk = k])
    BY <1>1, loc[t].mine # NoBuffer, <1>0 DEF Locals, ApiCalls, Getting
  <2>3. LockStep(t, "move") /\ "move" \in Points
    BY <1>0, <1>2
  <2> QED
    BY <1>0, <1>2, <2>1, <2>2, <2>3, ThreadStep
<1> QED
  BY <1>0, <1>1, <1>2 DEF Move, Call

\* MoveFind: sleep, clean the other buffer, or write.
LEMMA MoveFindThread ==
  ASSUME ThreadsInv, NEW t \in Threads, MoveFind(t)
  PROVE  ThreadsInv'
<1>0. /\ pc[t] \in Points /\ loc[t] \in Locals /\ ThreadOK(pc[t], loc[t])
      /\ (lock = t) <=> pc[t] \in Locked
      /\ t # Nobody /\ latest \in Snapshot /\ asyncError \in BOOLEAN
      /\ latest' \in Snapshot /\ asyncError' \in BOOLEAN
  BY ThreadFacts DEF MoveFind, deviceVars, ioVars
<1>1. ASSUME At(t, "move"), Unlock,
             Go(t, "asleep", [loc[t] EXCEPT !.then = "move"])
      PROVE  ThreadsInv'
  BY <1>0, <1>1, ThreadStep DEF Locals, Getting
<1>2. ASSUME At(t, "move"), NEW b \in Buffers, KeepLock,
             Go(t, "clean", [loc[t] EXCEPT !.cur = b, !.then = "move"])
      PROVE  ThreadsInv'
  <2>1. [loc[t] EXCEPT !.cur = b, !.then = "move"] \in Locals
    BY <1>0, <1>2 DEF Locals, Getting
  <2>2. ThreadOK("clean", [loc[t] EXCEPT !.cur = b, !.then = "move"])
    BY <1>0, <1>2 DEF Locals, Getting
  <2>3. LockStep(t, "clean") /\ "clean" \in Points
    BY <1>0, <1>2
  <2> QED
    BY <1>0, <1>2, <2>1, <2>2, <2>3, ThreadStep
<1>3. ASSUME At(t, "move"), KeepLock,
             Go(t, "movewrite", loc[t])
      PROVE  ThreadsInv'
  BY <1>0, <1>3, ThreadStep DEF Locals
<1> QED
  BY <1>0, <1>1, <1>2, <1>3 DEF MoveFind, Find, Linked

\* MoveWrite keeps the lock.
LEMMA MoveWriteThread ==
  ASSUME ThreadsInv, NEW t \in Threads, MoveWrite(t)
  PROVE  ThreadsInv'
<1>0. /\ pc[t] \in Points /\ loc[t] \in Locals /\ ThreadOK(pc[t], loc[t])
      /\ (lock = t) <=> pc[t] \in Locked
      /\ t # Nobody /\ latest \in Snapshot /\ asyncError \in BOOLEAN
      /\ latest' \in Snapshot /\ asyncError' \in BOOLEAN
  BY ThreadFacts DEF MoveWrite, deviceVars, ioVars
<1>1. ASSUME At(t, "movewrite"), UNCHANGED lock,
             Go(t, "relink", loc[t])
      PROVE  ThreadsInv'
  BY <1>0, <1>1, ThreadStep DEF Locals
<1> QED
  BY <1>0, <1>1 DEF MoveWrite

\* MoveRelink: done, or a copy; then blk is the block the buffer came from.
LEMMA MoveRelinkThread ==
  ASSUME ThreadsInv, NEW t \in Threads, buf[loc[t].mine].block \in Blocks, MoveRelink(t)
  PROVE  ThreadsInv'
<1>0. /\ pc[t] \in Points /\ loc[t] \in Locals /\ ThreadOK(pc[t], loc[t])
      /\ (lock = t) <=> pc[t] \in Locked
      /\ t # Nobody /\ latest \in Snapshot /\ asyncError \in BOOLEAN
  BY ThreadFacts
<1>1. latest' \in Snapshot /\ asyncError' \in BOOLEAN
  BY <1>0, BumpType DEF MoveRelink, Snapshot
<1>2. ASSUME At(t, "relink"), Unlock,
             Go(t, "release", loc[t])
      PROVE  ThreadsInv'
  BY <1>0, <1>2, ThreadStep, <1>1 DEF Locals
<1>3. ASSUME At(t, "relink"), KeepLock, NEW k \in Blocks,
             Go(t, "movecopy", [loc[t] EXCEPT !.blk = k])
      PROVE  ThreadsInv'
  BY <1>0, <1>3, ThreadStep, <1>1 DEF Locals, Getting
<1> QED
  BY <1>0, <1>1, <1>2, <1>3 DEF MoveRelink

\* MoveCopied drops the lock.
LEMMA MoveCopiedThread ==
  ASSUME ThreadsInv, NEW t \in Threads, MoveCopied(t)
  PROVE  ThreadsInv'
<1>0. /\ pc[t] \in Points /\ loc[t] \in Locals /\ ThreadOK(pc[t], loc[t])
      /\ (lock = t) <=> pc[t] \in Locked
      /\ t # Nobody /\ latest \in Snapshot /\ asyncError \in BOOLEAN
      /\ latest' \in Snapshot /\ asyncError' \in BOOLEAN
  BY ThreadFacts DEF MoveCopied, deviceVars, ioVars
<1>1. ASSUME At(t, "movecopy"), Unlock,
             Go(t, "release", loc[t])
      PROVE  ThreadsInv'
  BY <1>0, <1>1, ThreadStep DEF Locals
<1> QED
  BY <1>0, <1>1 DEF MoveCopied

-----------------------------------------------------------------------------
(* The shrinker, the age worker, and the end of the client.                *)

\* Scan starts to count.
LEMMA ScanThread ==
  ASSUME ThreadsInv, NEW t \in Threads, NEW c, NEW n \in ScanSizes, Scan(t, c, n)
  PROVE  ThreadsInv'
<1>0. /\ pc[t] \in Points /\ loc[t] \in Locals /\ ThreadOK(pc[t], loc[t])
      /\ (lock = t) <=> pc[t] \in Locked
      /\ t # Nobody /\ latest \in Snapshot /\ asyncError \in BOOLEAN
      /\ latest' \in Snapshot /\ asyncError' \in BOOLEAN
  BY ThreadFacts DEF Scan, deviceVars, ioVars
<1>1. Rest(loc[t].mine) \in Locals /\ ThreadOK("idle", Rest(loc[t].mine))
      /\ Rest(loc[t].mine).mine = loc[t].mine /\ loc[t].mine \in Buffers \cup {NoBuffer}
  BY <1>0, RestFacts DEF Locals
<1>2. Linked \subseteq Buffers /\ n \in Nat /\ 1 <= n
  BY SizesAssumption DEF Linked
<1>3. ASSUME At(t, "idle"), Acquire(t), c \in {"scan_fs", "scan_nofs"},
             Go(t, "scan", [Rest(loc[t].mine) EXCEPT !.call = c, !.walk = Linked,
                                          !.left = n, !.count = n])
      PROVE  ThreadsInv'
  <2>1. [Rest(loc[t].mine) EXCEPT !.call = c, !.walk = Linked,
                                          !.left = n, !.count = n] \in Locals
    BY <1>1, c \in {"scan_fs", "scan_nofs"}, <1>2 DEF Locals, ApiCalls, Getting
  <2>2. ThreadOK("scan", [Rest(loc[t].mine) EXCEPT !.call = c, !.walk = Linked,
                                          !.left = n, !.count = n])
    BY <1>1, c \in {"scan_fs", "scan_nofs"}, <1>2 DEF Locals, ApiCalls, Getting
  <2>3. LockStep(t, "scan") /\ "scan" \in Points
    BY <1>0, <1>3
  <2> QED
    BY <1>0, <1>3, <2>1, <2>2, <2>3, ThreadStep
<1> QED
  BY <1>0, <1>1, <1>2, <1>3 DEF Scan, Call

\* ScanVisit: the next buffer, a victim, or the end.
LEMMA ScanVisitThread ==
  ASSUME ThreadsInv, NEW t \in Threads, ScanVisit(t)
  PROVE  ThreadsInv'
<1>0. /\ pc[t] \in Points /\ loc[t] \in Locals /\ ThreadOK(pc[t], loc[t])
      /\ (lock = t) <=> pc[t] \in Locked
      /\ t # Nobody /\ latest \in Snapshot /\ asyncError \in BOOLEAN
      /\ latest' \in Snapshot /\ asyncError' \in BOOLEAN
  BY ThreadFacts DEF ScanVisit, deviceVars, ioVars
<1>1. At(t, "scan")
  BY DEF ScanVisit
<1>2. loc[t].left - 1 \in Nat
  BY <1>0, <1>1 DEF Locals
<1>3. ASSUME At(t, "scan"), Unlock, Return(t, loc[t].mine) PROVE ThreadsInv'
  <2>1. Rest(loc[t].mine) \in Locals /\ ThreadOK("idle", Rest(loc[t].mine))
    BY <1>0, <1>3, RestFacts DEF Locals
  <2>2. LockStep(t, "idle") /\ "idle" \in Points
    BY <1>0, <1>3
  <2> QED
    BY <1>0, <1>3, <2>1, <2>2, ThreadStep DEF Return
<1>4. ASSUME At(t, "scan"), KeepLock, NEW b, loc[t].left - 1 # 0,
             Go(t, "scan", [loc[t] EXCEPT !.walk = @ \ {b}, !.left = @ - 1])
      PROVE  ThreadsInv'
  <2>1. [loc[t] EXCEPT !.walk = @ \ {b}, !.left = @ - 1] \in Locals
    BY <1>0, <1>4, <1>2 DEF Locals, Getting
  <2>2. ThreadOK("scan", [loc[t] EXCEPT !.walk = @ \ {b}, !.left = @ - 1])
    BY <1>0, <1>4, <1>2 DEF Locals, Getting
  <2>3. LockStep(t, "scan") /\ "scan" \in Points
    BY <1>0, <1>4
  <2> QED
    BY <1>0, <1>4, <2>1, <2>2, <2>3, ThreadStep
<1>5. ASSUME At(t, "scan"), KeepLock, NEW b \in Buffers,
             Go(t, "clean", [loc[t] EXCEPT !.walk = @ \ {b}, !.cur = b, !.then = "scan"])
      PROVE  ThreadsInv'
  <2>1. [loc[t] EXCEPT !.walk = @ \ {b}, !.cur = b, !.then = "scan"] \in Locals
    BY <1>0, <1>5 DEF Locals, Getting
  <2>2. ThreadOK("clean", [loc[t] EXCEPT !.walk = @ \ {b}, !.cur = b, !.then = "scan"])
    BY <1>0, <1>5 DEF Locals, Getting
  <2>3. LockStep(t, "clean") /\ "clean" \in Points
    BY <1>0, <1>5
  <2> QED
    BY <1>0, <1>5, <2>1, <2>2, <2>3, ThreadStep
<1> QED
  BY <1>0, <1>1, <1>2, <1>3, <1>4, <1>5 DEF ScanVisit, ScanNext, Oldest, List, Locals

\* Age starts to count.
LEMMA AgeThread ==
  ASSUME ThreadsInv, NEW t \in Threads, Age(t)
  PROVE  ThreadsInv'
<1>0. /\ pc[t] \in Points /\ loc[t] \in Locals /\ ThreadOK(pc[t], loc[t])
      /\ (lock = t) <=> pc[t] \in Locked
      /\ t # Nobody /\ latest \in Snapshot /\ asyncError \in BOOLEAN
      /\ latest' \in Snapshot /\ asyncError' \in BOOLEAN
  BY ThreadFacts DEF Age, deviceVars, ioVars
<1>1. Rest(loc[t].mine) \in Locals /\ ThreadOK("idle", Rest(loc[t].mine))
      /\ Rest(loc[t].mine).mine = loc[t].mine /\ loc[t].mine \in Buffers \cup {NoBuffer}
  BY <1>0, RestFacts DEF Locals
<1>2. List("clean") \subseteq Buffers /\ Cardinality(Linked) \in Nat
  BY LinkedCount DEF List
<1>3. ASSUME At(t, "idle"), Acquire(t),
             Go(t, "age", [Rest(loc[t].mine) EXCEPT !.call = "age", !.walk = List("clean"),
                                         !.count = Cardinality(Linked)])
      PROVE  ThreadsInv'
  <2>1. [Rest(loc[t].mine) EXCEPT !.call = "age", !.walk = List("clean"),
                                         !.count = Cardinality(Linked)] \in Locals
    BY <1>1, <1>2 DEF Locals, ApiCalls, Getting
  <2>2. ThreadOK("age", [Rest(loc[t].mine) EXCEPT !.call = "age", !.walk = List("clean"),
                                         !.count = Cardinality(Linked)])
    BY <1>1, <1>2 DEF Locals, ApiCalls, Getting
  <2>3. LockStep(t, "age") /\ "age" \in Points
    BY <1>0, <1>3
  <2> QED
    BY <1>0, <1>3, <2>1, <2>2, <2>3, ThreadStep
<1> QED
  BY <1>0, <1>1, <1>2, <1>3 DEF Age, Call

\* AgeVisit: the next buffer, or the end.
LEMMA AgeVisitThread ==
  ASSUME ThreadsInv, NEW t \in Threads, AgeVisit(t)
  PROVE  ThreadsInv'
<1>0. /\ pc[t] \in Points /\ loc[t] \in Locals /\ ThreadOK(pc[t], loc[t])
      /\ (lock = t) <=> pc[t] \in Locked
      /\ t # Nobody /\ latest \in Snapshot /\ asyncError \in BOOLEAN
      /\ latest' \in Snapshot /\ asyncError' \in BOOLEAN
  BY ThreadFacts DEF AgeVisit, deviceVars, ioVars
<1>1. AboveTarget(loc[t].count) => loc[t].count - 1 \in Nat
  BY <1>0, LimitsAssumption DEF Locals, AboveTarget
<1>2. ASSUME At(t, "age"), KeepLock, loc[t].count - 1 \in Nat, NEW b,
             Go(t, "age", [loc[t] EXCEPT !.walk = @ \ {b}, !.count = @ - 1])
      PROVE  ThreadsInv'
  <2>1. [loc[t] EXCEPT !.walk = @ \ {b}, !.count = @ - 1] \in Locals
    BY <1>0, <1>2 DEF Locals, Getting
  <2>2. ThreadOK("age", [loc[t] EXCEPT !.walk = @ \ {b}, !.count = @ - 1])
    BY <1>0, <1>2 DEF Locals, Getting
  <2>3. LockStep(t, "age") /\ "age" \in Points
    BY <1>0, <1>2
  <2> QED
    BY <1>0, <1>2, <2>1, <2>2, <2>3, ThreadStep
<1>3. ASSUME At(t, "age"), KeepLock, NEW b,
             Go(t, "age", [loc[t] EXCEPT !.walk = @ \ {b}])
      PROVE  ThreadsInv'
  BY <1>0, <1>3, ThreadStep DEF Locals, Getting
<1>4. ASSUME At(t, "age"), Unlock, Return(t, loc[t].mine) PROVE ThreadsInv'
  <2>1. Rest(loc[t].mine) \in Locals /\ ThreadOK("idle", Rest(loc[t].mine))
    BY <1>0, <1>4, RestFacts DEF Locals
  <2>2. LockStep(t, "idle") /\ "idle" \in Points
    BY <1>0, <1>4
  <2> QED
    BY <1>0, <1>4, <2>1, <2>2, ThreadStep DEF Return
<1> QED
  BY <1>0, <1>1, <1>2, <1>3, <1>4 DEF AgeVisit

\* Destroy starts a write-back.
LEMMA DestroyThread ==
  ASSUME ThreadsInv, NEW t \in Threads, Destroy(t)
  PROVE  ThreadsInv'
<1>0. /\ pc[t] \in Points /\ loc[t] \in Locals /\ ThreadOK(pc[t], loc[t])
      /\ (lock = t) <=> pc[t] \in Locked
      /\ t # Nobody /\ latest \in Snapshot /\ asyncError \in BOOLEAN
      /\ latest' \in Snapshot /\ asyncError' \in BOOLEAN
  BY ThreadFacts DEF Destroy, deviceVars, ioVars
<1>1. ASSUME At(t, "idle"), Acquire(t),
             Go(t, "wb", [loc[t] EXCEPT !.call = "destroy", !.walk = List("dirty"), !.then = "relock"])
      PROVE  ThreadsInv'
  <2>1. [loc[t] EXCEPT !.call = "destroy", !.walk = List("dirty"), !.then = "relock"] \in Locals
    BY <1>0, <1>1 DEF Locals, List, ApiCalls, Getting
  <2>2. ThreadOK("wb", [loc[t] EXCEPT !.call = "destroy", !.walk = List("dirty"), !.then = "relock"])
    BY <1>0, <1>1 DEF Locals, List, ApiCalls, Getting
  <2>3. LockStep(t, "wb") /\ "wb" \in Points
    BY <1>0, <1>1
  <2> QED
    BY <1>0, <1>1, <2>1, <2>2, <2>3, ThreadStep
<1> QED
  BY <1>0, <1>1 DEF Destroy, StartWriteBack, Call

\* DropStart takes the lock again.
LEMMA DropStartThread ==
  ASSUME ThreadsInv, NEW t \in Threads, DropStart(t)
  PROVE  ThreadsInv'
<1>0. /\ pc[t] \in Points /\ loc[t] \in Locals /\ ThreadOK(pc[t], loc[t])
      /\ (lock = t) <=> pc[t] \in Locked
      /\ t # Nobody /\ latest \in Snapshot /\ asyncError \in BOOLEAN
      /\ latest' \in Snapshot /\ asyncError' \in BOOLEAN
  BY ThreadFacts DEF DropStart, deviceVars, ioVars
<1>1. ASSUME At(t, "relock"), Acquire(t), loc[t].call = "destroy",
             Go(t, "drop", loc[t])
      PROVE  ThreadsInv'
  BY <1>0, <1>1, ThreadStep DEF Locals, Getting
<1> QED
  BY <1>0, <1>1 DEF DropStart

\* Drop: a victim, or the end.
LEMMA DropThread ==
  ASSUME ThreadsInv, NEW t \in Threads, Drop(t)
  PROVE  ThreadsInv'
<1>0. /\ pc[t] \in Points /\ loc[t] \in Locals /\ ThreadOK(pc[t], loc[t])
      /\ (lock = t) <=> pc[t] \in Locked
      /\ t # Nobody /\ latest \in Snapshot /\ asyncError \in BOOLEAN
      /\ latest' \in Snapshot /\ asyncError' \in BOOLEAN
  BY ThreadFacts DEF Drop, deviceVars, ioVars
<1>1. ASSUME At(t, "drop"), KeepLock, NEW b \in Buffers,
             Go(t, "clean", [loc[t] EXCEPT !.cur = b, !.then = "drop"])
      PROVE  ThreadsInv'
  <2>1. [loc[t] EXCEPT !.cur = b, !.then = "drop"] \in Locals
    BY <1>0, <1>1 DEF Locals
  <2>2. ThreadOK("clean", [loc[t] EXCEPT !.cur = b, !.then = "drop"])
    BY <1>0, <1>1 DEF Locals
  <2>3. LockStep(t, "clean") /\ "clean" \in Points
    BY <1>0, <1>1
  <2> QED
    BY <1>0, <1>1, <2>1, <2>2, <2>3, ThreadStep
<1>2. ASSUME At(t, "drop"), Unlock,
             Go(t, "unregister", loc[t])
      PROVE  ThreadsInv'
  BY <1>0, <1>2, ThreadStep DEF Locals
<1> QED
  BY <1>0, <1>1, <1>2 DEF Drop, Unclaimed, Unheld, Oldest, List

\* Unregister is the end of the client.
LEMMA UnregisterThread ==
  ASSUME ThreadsInv, NEW t \in Threads, Unregister(t)
  PROVE  ThreadsInv'
<1>0. /\ pc[t] \in Points /\ loc[t] \in Locals /\ ThreadOK(pc[t], loc[t])
      /\ (lock = t) <=> pc[t] \in Locked
      /\ t # Nobody /\ latest \in Snapshot /\ asyncError \in BOOLEAN
      /\ latest' \in Snapshot /\ asyncError' \in BOOLEAN
  BY ThreadFacts DEF Unregister, deviceVars, ioVars
<1>1. ASSUME At(t, "unregister"), UNCHANGED lock,
             Go(t, "destroyed", Rest(loc[t].mine))
      PROVE  ThreadsInv'
  <2>1. loc[t].mine \in Buffers \cup {NoBuffer}
    BY <1>0 DEF Locals
  <2>2. Rest(loc[t].mine) \in Locals /\ ThreadOK("destroyed", Rest(loc[t].mine))
    BY <2>1, RestFacts DEF Rest, ThreadOK, Continuation, BlockRange, Possession, Moving,
                           Inserting, Getting, Scanning
  <2>3. LockStep(t, "destroyed") /\ "destroyed" \in Points
    BY <1>0, <1>1
  <2> QED
    BY <1>0, <1>1, <2>2, <2>3, ThreadStep
<1> QED
  BY <1>0, <1>1 DEF Unregister

-----------------------------------------------------------------------------

\* A step of the device is a step of no thread.
LEMMA DeviceThread ==
  ASSUME ThreadsInv, NEW b \in Buffers, ReadDone(b) \/ WriteDone(b)
  PROVE  ThreadsInv'
<1>1. latest \in Snapshot /\ asyncError \in BOOLEAN
  BY DEF ThreadsInv, ThreadsType
<1>2. CASE ReadDone(b)
  BY <1>1, <1>2, ThreadsUnchanged DEF ReadDone, deviceVars
<1>3. CASE WriteDone(b)
  BY <1>1, <1>3, ThreadsUnchanged DEF WriteDone, NoteError
<1> QED
  BY <1>2, <1>3

HIDE DEF ThreadOK, Continuation, BlockRange, Possession, Moving, Inserting, Scanning,
        LockStep, At, Unlock, KeepLock, Acquire, Momentarily, Points, Locked, Unlocked

-----------------------------------------------------------------------------
(* Layers 2 and 3: the buffers.                                            *)

Refs(b) == Cardinality(Clients(b)) + Cardinality(Flushers(b))

\* The buffer a thread at control point l with locals r holds for a flush.
Flushing(l, r) == IF l \in {"syncwait", "syncrelock"} THEN r.cur ELSE NoBuffer

\* The control points between lock and unlock at which a thread relies on the index.
Relying == {"recheck", "watermark", "link", "wb", "clean", "movewrite", "relink", "movecopy",
            "sync", "park", "scan", "age"}

\* A step that leaves where every buffer is, its block and its hold count.
SameIndex == \A b \in Buffers : /\ buf'[b].where = buf[b].where
                                /\ buf'[b].block = buf[b].block
                                /\ buf'[b].hold = buf[b].hold

-----------------------------------------------------------------------------
(* References.                                                             *)

\* A step of t changes the control point and the locals of t only.
LEMMA GoFacts ==
  ASSUME ThreadsInv, NEW t \in Threads, NEW l, NEW r, Go(t, l, r)
  PROVE  /\ pc'[t] = l /\ loc'[t] = r
         /\ \A u \in Threads \ {t} : pc'[u] = pc[u] /\ loc'[u] = loc[u]
BY DEF Go, ThreadsInv, ThreadsType

\* Clients and flushers are finitely many.
LEMMA RefsFinite ==
  ASSUME NEW b
  PROVE  /\ IsFiniteSet(Clients(b)) /\ IsFiniteSet(Flushers(b))
         /\ Cardinality(Clients(b)) \in Nat /\ Cardinality(Flushers(b)) \in Nat
BY ThreadsAssumption, FS_Subset, FS_CardinalityType DEF Clients, Flushers

\* A step that changes neither reference of its thread changes no count.
LEMMA ClientsKept ==
  ASSUME ThreadsInv, NEW t \in Threads, NEW l, NEW r, Go(t, l, r), NEW b \in Buffers,
         (r.mine = b) <=> (loc[t].mine = b)
  PROVE  Clients(b)' = Clients(b)
BY GoFacts DEF Clients

\* The same for the reference of a flush.
LEMMA FlushersKept ==
  ASSUME ThreadsInv, NEW t \in Threads, NEW l, NEW r, Go(t, l, r), NEW b \in Buffers,
         (Flushing(l, r) = b) <=> (Flushing(pc[t], loc[t]) = b)
  PROVE  Flushers(b)' = Flushers(b)
BY GoFacts, BuffersAssumption DEF Flushers, Flushing

\* So it changes no count at all.
LEMMA RefsKept ==
  ASSUME ThreadsInv, NEW t \in Threads, NEW l, NEW r, Go(t, l, r),
         r.mine = loc[t].mine, Flushing(l, r) = Flushing(pc[t], loc[t])
  PROVE  \A b \in Buffers : Refs(b)' = Refs(b)
BY ClientsKept, FlushersKept DEF Refs

\* A thread that takes a reference makes one more ...
LEMMA ClientTakes ==
  ASSUME ThreadsInv, NEW t \in Threads, NEW l, NEW r, Go(t, l, r), NEW b \in Buffers,
         loc[t].mine \notin Buffers, r.mine = b, Flushing(l, r) = Flushing(pc[t], loc[t])
  PROVE  /\ Refs(b)' = Refs(b) + 1 /\ \A c \in Buffers \ {b} : Refs(c)' = Refs(c)
         /\ Refs(b) \in Nat
<1>1. Clients(b)' = Clients(b) \cup {t} /\ t \notin Clients(b)
  BY GoFacts DEF Clients
<1>2. \A c \in Buffers \ {b} : Clients(c)' = Clients(c)
  BY ClientsKept
<1>3. \A c \in Buffers : Flushers(c)' = Flushers(c)
  BY FlushersKept
<1>4. Cardinality(Clients(b)') = Cardinality(Clients(b)) + 1
  BY <1>1, RefsFinite, FS_AddElement
<1> QED
  BY <1>2, <1>3, <1>4, RefsFinite DEF Refs

\* ... and one that gives it back makes one less.
LEMMA ClientGives ==
  ASSUME ThreadsInv, NEW t \in Threads, NEW l, NEW r, Go(t, l, r), NEW b \in Buffers,
         loc[t].mine = b, r.mine \notin Buffers, Flushing(l, r) = Flushing(pc[t], loc[t])
  PROVE  /\ Refs(b)' = Refs(b) - 1 /\ \A c \in Buffers \ {b} : Refs(c)' = Refs(c)
         /\ Refs(b) \in Nat
<1>1. Clients(b)' = Clients(b) \ {t} /\ t \in Clients(b)
  BY GoFacts DEF Clients
<1>2. \A c \in Buffers \ {b} : Clients(c)' = Clients(c)
  BY ClientsKept
<1>3. \A c \in Buffers : Flushers(c)' = Flushers(c)
  BY FlushersKept
<1>4. Cardinality(Clients(b)') = Cardinality(Clients(b)) - 1
  BY <1>1, RefsFinite, FS_RemoveElement
<1> QED
  BY <1>2, <1>3, <1>4, RefsFinite DEF Refs

\* The same for the reference a flush holds while it waits.
LEMMA FlusherTakes ==
  ASSUME ThreadsInv, NEW t \in Threads, NEW l, NEW r, Go(t, l, r), NEW b \in Buffers,
         r.mine = loc[t].mine, Flushing(pc[t], loc[t]) \notin Buffers, Flushing(l, r) = b
  PROVE  /\ Refs(b)' = Refs(b) + 1 /\ \A c \in Buffers \ {b} : Refs(c)' = Refs(c)
         /\ Refs(b) \in Nat
<1>1. Flushers(b)' = Flushers(b) \cup {t} /\ t \notin Flushers(b)
  BY GoFacts, BuffersAssumption DEF Flushers, Flushing
<1>2. \A c \in Buffers \ {b} : Flushers(c)' = Flushers(c)
  BY FlushersKept
<1>3. \A c \in Buffers : Clients(c)' = Clients(c)
  BY ClientsKept
<1>4. Cardinality(Flushers(b)') = Cardinality(Flushers(b)) + 1
  BY <1>1, RefsFinite, FS_AddElement
<1> QED
  BY <1>2, <1>3, <1>4, RefsFinite DEF Refs

\* A flush that is through with a buffer gives its reference back.
LEMMA FlusherGives ==
  ASSUME ThreadsInv, NEW t \in Threads, NEW l, NEW r, Go(t, l, r), NEW b \in Buffers,
         r.mine = loc[t].mine, Flushing(pc[t], loc[t]) = b, Flushing(l, r) \notin Buffers
  PROVE  /\ Refs(b)' = Refs(b) - 1 /\ \A c \in Buffers \ {b} : Refs(c)' = Refs(c)
         /\ Refs(b) \in Nat
<1>1. Flushers(b)' = Flushers(b) \ {t} /\ t \in Flushers(b)
  BY GoFacts, BuffersAssumption DEF Flushers, Flushing
<1>2. \A c \in Buffers \ {b} : Flushers(c)' = Flushers(c)
  BY FlushersKept
<1>3. \A c \in Buffers : Clients(c)' = Clients(c)
  BY ClientsKept
<1>4. Cardinality(Flushers(b)') = Cardinality(Flushers(b)) - 1
  BY <1>1, RefsFinite, FS_RemoveElement
<1> QED
  BY <1>2, <1>3, <1>4, RefsFinite DEF Refs

\* Who holds a buffer finds it in the index.
LEMMA HeldLinked ==
  ASSUME ThreadsInv, CacheInv, NEW t \in Threads, NEW b \in Buffers,
         loc[t].mine = b \/ Flushing(pc[t], loc[t]) = b
  PROVE  /\ b \in Linked /\ buf[b].hold \in Nat \ {0} /\ buf[b].block \in Blocks
         /\ buf[b] \in Buffer
<1>1. t \in Clients(b) \/ t \in Flushers(b)
  BY BuffersAssumption DEF Clients, Flushers, Flushing
<1>2. Cardinality(Clients(b)) # 0 \/ Cardinality(Flushers(b)) # 0
  BY <1>1, RefsFinite, FS_EmptySet
<1>3. buf[b].hold \in Nat \ {0}
  BY <1>2, RefsFinite DEF CacheInv, HoldsAccounted
<1> QED
  BY <1>3 DEF CacheInv, IndexInv, UnlinkedUnheld, LinkedHasBlock

-----------------------------------------------------------------------------
(* The index.                                                              *)

\* A buffer that is linked, for a block no other buffer has.
LEMMA Into ==
  ASSUME IndexInv, NEW b \in Buffers, NEW s \in Buffer, s.where \in Lists,
         s.block \in Blocks, Find(s.block) \subseteq {b}, buf' = [buf EXCEPT ![b] = s]
  PROVE  /\ IndexInv' /\ Linked' = Linked \cup {b} /\ buf'[b] = s
         /\ \A c \in Buffers \ {b} : buf'[c] = buf[c]
         /\ \A k : Find(k)' = IF k = s.block THEN {b} ELSE Find(k) \ {b}
<1>1. buf'[b] = s /\ \A c \in Buffers \ {b} : buf'[c] = buf[c]
  BY DEF IndexInv
<1>2. Linked' = Linked \cup {b}
  BY <1>1 DEF Linked
<1>3. \A k : Find(k)' = IF k = s.block THEN {b} ELSE Find(k) \ {b}
  BY <1>1, <1>2 DEF Find, Linked
<1>4. UnlinkedUnheld' /\ LinkedHasBlock'
  BY <1>1, <1>2 DEF IndexInv, UnlinkedUnheld, LinkedHasBlock, Linked
<1>5. OneBufferPerBlock'
  BY <1>1, <1>2 DEF IndexInv, OneBufferPerBlock, Find, Linked
<1>6. buf' \in [Buffers -> Buffer]
  BY DEF IndexInv
<1> QED
  BY <1>1, <1>2, <1>3, <1>4, <1>5, <1>6 DEF IndexInv

\* A linked buffer that stays linked, for the block it has.
LEMMA Stays ==
  ASSUME IndexInv, NEW b \in Linked, NEW s \in Buffer, s.where \in Lists,
         s.block = buf[b].block, buf' = [buf EXCEPT ![b] = s]
  PROVE  /\ IndexInv' /\ Linked' = Linked /\ buf'[b] = s
         /\ \A c \in Buffers \ {b} : buf'[c] = buf[c]
         /\ \A k : Find(k)' = Find(k)
<1>1. b \in Buffers /\ s.block \in Blocks
  BY DEF Linked, IndexInv, LinkedHasBlock
<1>2. Find(s.block) = {b}
  BY DEF Find, IndexInv, OneBufferPerBlock
<1>3. \A k : k # s.block => b \notin Find(k)
  BY DEF Find
<1>4. /\ IndexInv' /\ Linked' = Linked \cup {b} /\ buf'[b] = s
      /\ \A c \in Buffers \ {b} : buf'[c] = buf[c]
      /\ \A k : Find(k)' = IF k = s.block THEN {b} ELSE Find(k) \ {b}
  BY <1>1, <1>2, Into
<1>5. \A k : Find(k)' = Find(k)
  BY <1>2, <1>3, <1>4
<1> QED
  BY <1>4, <1>5

\* A buffer nobody holds that leaves the index, or is not in it.
LEMMA OutOf ==
  ASSUME IndexInv, NEW b \in Buffers, NEW s \in Buffer, s.where \notin Lists, s.hold = 0,
         buf' = [buf EXCEPT ![b] = s]
  PROVE  /\ IndexInv' /\ Linked' = Linked \ {b} /\ buf'[b] = s
         /\ \A c \in Buffers \ {b} : buf'[c] = buf[c]
         /\ \A k : Find(k)' = Find(k) \ {b}
<1>1. buf'[b] = s /\ \A c \in Buffers \ {b} : buf'[c] = buf[c]
  BY DEF IndexInv
<1>2. Linked' = Linked \ {b}
  BY <1>1 DEF Linked
<1>3. \A k : Find(k)' = Find(k) \ {b}
  BY <1>1, <1>2 DEF Find, Linked
<1>4. UnlinkedUnheld' /\ LinkedHasBlock' /\ OneBufferPerBlock'
  BY <1>1, <1>2 DEF IndexInv, UnlinkedUnheld, LinkedHasBlock, OneBufferPerBlock, Linked
<1>5. buf' \in [Buffers -> Buffer]
  BY DEF IndexInv
<1> QED
  BY <1>1, <1>2, <1>3, <1>4, <1>5 DEF IndexInv

\* A step that changes no buffer's place, block or hold count.
LEMMA Soft ==
  ASSUME IndexInv, SameIndex, buf' \in [Buffers -> Buffer]
  PROVE  IndexInv' /\ Linked' = Linked /\ \A k : Find(k)' = Find(k)
<1>1. Linked' = Linked
  BY DEF SameIndex, Linked
<1>2. \A k : Find(k)' = Find(k)
  BY <1>1 DEF SameIndex, Find, Linked
<1>3. UnlinkedUnheld' /\ LinkedHasBlock' /\ OneBufferPerBlock'
  BY <1>1 DEF IndexInv, SameIndex, UnlinkedUnheld, LinkedHasBlock, OneBufferPerBlock, Linked
<1> QED
  BY <1>1, <1>2, <1>3 DEF IndexInv

-----------------------------------------------------------------------------
(* Threads that do not move.                                               *)

\* Who is elsewhere relies on nothing ...
LEMMA NotHolder ==
  ASSUME NEW l, NEW r, l \notin Relying
  PROVE  LockHolderOK(l, r)'
BY DEF LockHolderOK, InHand, Vacant, Victim, Walking, Inserting, Relying

\* ... and who is relies on the index only.
LEMMA HolderFrame ==
  ASSUME IndexInv, SameIndex, NEW l, NEW r \in Locals, ThreadOK(l, r), LockHolderOK(l, r)
  PROVE  LockHolderOK(l, r)'
<1>1. Linked' = Linked
  BY DEF SameIndex, Linked
<1>2. \A k : Find(k)' = Find(k)
  BY <1>1 DEF SameIndex, Find, Linked
<1>3. InHand(l, r)'
  BY DEF SameIndex, LockHolderOK, InHand, ThreadOK, Possession, Inserting
<1>4. Vacant(l, r)'
  BY <1>2 DEF LockHolderOK, Vacant, Inserting
<1>5. Victim(l, r)'
  BY <1>1 DEF SameIndex, LockHolderOK, Victim, Linked
<1>6. Walking(l, r)'
  BY <1>1 DEF LockHolderOK, Walking
<1> QED
  BY <1>3, <1>4, <1>5, <1>6 DEF LockHolderOK

\* A step of t that needs the lock, or that leaves the index as it is, takes
\* nothing from another thread that it relies on.
LEMMA OthersOK ==
  ASSUME ThreadsInv, CacheInv, NEW t \in Threads, NEW u \in Threads \ {t},
         pc'[u] = pc[u], loc'[u] = loc[u], lock \in {t, Nobody} \/ SameIndex
  PROVE  LockHolderOK(pc[u], loc[u])'
<1>1. CASE pc[u] \notin Relying
  BY <1>1 DEF LockHolderOK, InHand, Vacant, Victim, Walking, Inserting, Relying
<1>2. CASE pc[u] \in Relying
  <2>1. SameIndex
    BY <1>2, ThreadsAssumption DEF ThreadsInv, LockOwner, Relying, Locked
  <2>2. loc[u] \in Locals /\ ThreadOK(pc[u], loc[u])
    BY ThreadFacts
  <2> DEFINE l == pc[u]
             r == loc[u]
  <2> QED
    BY <2>1, <2>2, HolderFrame DEF CacheInv
<1> QED
  BY <1>1, <1>2

-----------------------------------------------------------------------------
(* One step of t, put together.                                            *)

\* Layer 2 after a step of t, from what the step does to each part of it.
LEMMA Assemble ==
  ASSUME ThreadsInv, CacheInv, NEW t \in Threads, NEW l, NEW r, Go(t, l, r),
         lock \in {t, Nobody} \/ SameIndex,
         DataType', ReadsHaveBlock', IndexInv',
         \A b \in Buffers : buf'[b].hold = Refs(b)',
         l \notin Relying \/ LockHolderOK(l, r)'
  PROVE  CacheInv'
<1>1. /\ pc'[t] = l /\ loc'[t] = r
      /\ \A u \in Threads \ {t} : pc'[u] = pc[u] /\ loc'[u] = loc[u]
  BY GoFacts
<1>2. HoldsAccounted'
  BY DEF HoldsAccounted, Refs
<1>3. LockHolderOK(l, r)'
  BY NotHolder
<1>4. LockHolderOK(pc[t], loc[t])'
  BY <1>1, <1>3 DEF LockHolderOK, InHand, Vacant, Victim, Walking, Inserting
<1>5. \A u \in Threads \ {t} : LockHolderOK(pc[u], loc[u])'
  BY <1>1, OthersOK
<1> QED
  BY <1>2, <1>4, <1>5 DEF CacheInv

\* A step of t that changes no buffer and neither of its references.
LEMMA Quiet ==
  ASSUME ThreadsInv, CacheInv, NEW t \in Threads, NEW l, NEW r, Go(t, l, r),
         UNCHANGED buf, DataType', ReadsHaveBlock',
         r.mine = loc[t].mine, Flushing(l, r) = Flushing(pc[t], loc[t]),
         l \notin Relying \/ LockHolderOK(l, r)
  PROVE  CacheInv'
<1>1. SameIndex
  BY DEF SameIndex
<1>2. IndexInv'
  BY DEF CacheInv, IndexInv, UnlinkedUnheld, LinkedHasBlock, OneBufferPerBlock, Linked
<1>3. \A b \in Buffers : buf'[b].hold = Refs(b)'
  BY RefsKept DEF CacheInv, HoldsAccounted, Refs
<1>4. l \notin Relying \/ LockHolderOK(l, r)'
  BY DEF LockHolderOK, InHand, Vacant, Victim, Walking, Inserting, Find, Linked
<1> QED
  BY <1>1, <1>2, <1>3, <1>4, Assemble

\* Most steps leave the device alone.
LEMMA DataKept ==
  ASSUME CacheInv, need' \in Nat, sleepers' \subseteq Threads,
         recent' \subseteq Buffers \X Buffers, UNCHANGED <<io, status, deviceVars>>
  PROVE  DataType' /\ ReadsHaveBlock'
BY DEF CacheInv, DataType, ReadsHaveBlock, deviceVars

\* A victim is linked, and nobody holds it.
LEMMA UnclaimedFacts ==
  ASSUME NEW b \in Unclaimed
  PROVE  b \in Linked /\ b \in Buffers /\ buf[b].hold = 0
BY DEF Unclaimed, Oldest, Unheld, List, Linked, Lists

\* A request for what is in a buffer is one the device understands.
LEMMA SubmitTyped ==
  ASSUME CacheInv, NEW b \in Buffers, NEW rw \in {"read", "write"}, NEW k \in Blocks \cup {NoBlock},
         NEW g \in Gens, rw = "read" => k \in Blocks, Submit(b, rw, k, g)
  PROVE  io' \in [Buffers -> Request] /\ ReadsHaveBlock'
<1>1. [rw |-> rw, block |-> k, gen |-> g] \in Request
  BY DEF Request
<1>2. io' = [io EXCEPT ![b] = [rw |-> rw, block |-> k, gen |-> g]] /\ io \in [Buffers -> Request]
  BY DEF Submit, CacheInv, DataType
<1>3. io' \in [Buffers -> Request]
  BY <1>1, <1>2
<1>4. \A c \in Buffers : io'[c] = IF c = b THEN [rw |-> rw, block |-> k, gen |-> g] ELSE io[c]
  BY <1>2
<1> QED
  BY <1>3, <1>4 DEF CacheInv, ReadsHaveBlock

-----------------------------------------------------------------------------
(* What the helpers of the module do to the index.                         *)

USE DEF At, Unlock, KeepLock, Acquire, Momentarily, Locked

\* The two ends of the lists stay lists of buffers.
LEMMA OrderTyped ==
  ASSUME CacheInv, NEW b \in Buffers, NEW l
  PROVE  Forgotten(b) \subseteq Buffers \X Buffers /\ Newest(b, l) \subseteq Buffers \X Buffers
BY DEF CacheInv, DataType, Forgotten, Newest, List

\* Link, for a buffer that is linked already and keeps its block.
LEMMA LinkFacts ==
  ASSUME CacheInv, NEW b \in Linked, NEW r \in Buffer, r.block = buf[b].block,
         NEW l \in Lists, Link(b, r, l)
  PROVE  /\ IndexInv' /\ Linked' = Linked /\ buf'[b] = [r EXCEPT !.where = l]
         /\ buf'[b].hold = r.hold /\ \A c \in Buffers \ {b} : buf'[c] = buf[c]
         /\ \A k : Find(k)' = Find(k)
         /\ recent' \subseteq Buffers \X Buffers
<1> DEFINE s == [r EXCEPT !.where = l]
<1>1. s \in Buffer /\ s.where = l /\ s.block = r.block /\ s.hold = r.hold
  BY DEF Buffer, Places
<1>2. buf' = [buf EXCEPT ![b] = s] /\ recent' = Newest(b, l)
  BY DEF Link
<1>3. b \in Buffers
  BY DEF Linked
<1> HIDE DEF s
<1>4. /\ IndexInv' /\ Linked' = Linked /\ buf'[b] = s
      /\ \A c \in Buffers \ {b} : buf'[c] = buf[c]
      /\ \A k : Find(k)' = Find(k)
  BY <1>1, <1>2, Stays DEF CacheInv
<1>5. recent' \subseteq Buffers \X Buffers
  BY <1>2, <1>3, OrderTyped
<1> QED
  BY <1>1, <1>4, <1>5 DEF s

\* A buffer no list of the client holds.
LEMMA BlankTyped ==
  ASSUME NEW p \in {"free", "reserved"}
  PROVE  Blank(p) \in Buffer /\ Blank(p).where = p /\ Blank(p).hold = 0
BY MaxGenAssumption DEF Blank, Buffer, Places, Gens

\* __free_buffer_wake.
LEMMA FreeFacts ==
  ASSUME CacheInv, NEW b \in Buffers, FreeBufferWake(b)
  PROVE  /\ IndexInv' /\ Linked' = Linked \ {b} /\ buf'[b].hold = 0
         /\ \A c \in Buffers \ {b} : buf'[c] = buf[c]
         /\ \A k : Find(k)' = Find(k) \ {b}
         /\ need' \in Nat /\ sleepers' \subseteq Threads /\ recent' \subseteq Buffers \X Buffers
<1>1. PICK p \in {"free", "reserved"} : buf' = [buf EXCEPT ![b] = Blank(p)]
  BY DEF FreeBufferWake
<1>2. Blank(p) \in Buffer /\ Blank(p).where \notin Lists /\ Blank(p).hold = 0
  BY BlankTyped DEF Lists
<1>3. /\ IndexInv' /\ Linked' = Linked \ {b} /\ buf'[b] = Blank(p)
      /\ \A c \in Buffers \ {b} : buf'[c] = buf[c]
      /\ \A k : Find(k)' = Find(k) \ {b}
  BY <1>1, <1>2, OutOf DEF CacheInv
<1>4. need' \in Nat /\ sleepers' \subseteq Threads
  BY DEF FreeBufferWake, CacheInv, DataType
<1>5. recent' \subseteq Buffers \X Buffers
  BY OrderTyped DEF FreeBufferWake
<1> QED
  BY <1>2, <1>3, <1>4, <1>5

\* The memory of a buffer that is free, in the reserve or just evicted.
LEMMA TakeFacts ==
  ASSUME CacheInv, NEW b \in Buffers, buf[b].hold = 0, Take(b)
  PROVE  /\ IndexInv' /\ Linked' = Linked \ {b} /\ buf'[b].hold = 0 /\ buf'[b].where = "hand"
         /\ \A c \in Buffers \ {b} : buf'[c] = buf[c]
         /\ \A k : Find(k)' = Find(k) \ {b}
<1> DEFINE s == [buf[b] EXCEPT !.where = "hand", !.block = NoBlock]
<1>1. buf[b] \in Buffer
  BY DEF CacheInv, IndexInv
<1>2. s \in Buffer /\ s.where = "hand" /\ s.where \notin Lists /\ s.hold = 0
  BY <1>1 DEF Buffer, Places, Lists
<1>3. buf' = [buf EXCEPT ![b] = s]
  BY DEF Take
<1> HIDE DEF s
<1> QED
  BY <1>2, <1>3, OutOf DEF CacheInv

\* Which list a buffer belongs to.
LEMMA ListForTyped == \A s : ListFor(s) \in Lists
BY DEF ListFor, Lists

\* A step of the thread with the lock that keeps every buffer in the index, for
\* its block, and all references.
LEMMA Keeps ==
  ASSUME ThreadsInv, CacheInv, NEW t \in Threads, lock \in {t, Nobody},
         IndexInv', recent' \subseteq Buffers \X Buffers,
         \A c \in Buffers : buf'[c].hold = buf[c].hold,
         UNCHANGED <<need, sleepers, ioVars, status, deviceVars>>,
         NEW l, NEW s, Go(t, l, s), s.mine = loc[t].mine,
         Flushing(l, s) = Flushing(pc[t], loc[t]), l \notin Relying \/ LockHolderOK(l, s)'
  PROVE  CacheInv'
<1>1. \A c \in Buffers : buf'[c].hold = Refs(c)'
  BY RefsKept DEF CacheInv, HoldsAccounted, Refs
<1>2. DataType' /\ ReadsHaveBlock'
  BY DataKept DEF CacheInv, DataType, ioVars
<1> QED
  BY <1>1, <1>2, Assemble

\* Link of a linked buffer, as it is, to a list.
LEMMA RelinkFacts ==
  ASSUME CacheInv, NEW b \in Linked, NEW l \in Lists, Link(b, buf[b], l)
  PROVE  /\ IndexInv' /\ Linked' = Linked /\ \A k : Find(k)' = Find(k)
         /\ \A c \in Buffers : buf'[c].hold = buf[c].hold
         /\ \A c \in Buffers \ {b} : buf'[c] = buf[c]
         /\ recent' \subseteq Buffers \X Buffers
<1>1. b \in Buffers /\ buf[b] \in Buffer
  BY DEF Linked, CacheInv, IndexInv
<1> QED
  BY <1>1, LinkFacts

\* Settle: the buffer stays in the index, perhaps on the other list.
LEMMA SettleFacts ==
  ASSUME CacheInv, NEW b \in Linked, NEW r \in Buffer, r.where \in Lists,
         r.block = buf[b].block, Settle(b, r)
  PROVE  /\ IndexInv' /\ Linked' = Linked /\ \A k : Find(k)' = Find(k)
         /\ buf'[b].hold = r.hold
         /\ \A c \in Buffers \ {b} : buf'[c] = buf[c]
         /\ recent' \subseteq Buffers \X Buffers
<1>1. CASE Link(b, r, "clean")
  BY <1>1, LinkFacts DEF Lists
<1>2. CASE buf' = [buf EXCEPT ![b] = r] /\ UNCHANGED recent
  BY <1>2, Stays DEF CacheInv, DataType
<1> QED
  BY <1>1, <1>2 DEF Settle

\* A step of the thread with the lock that evicts a buffer nobody holds.
LEMMA Evicts ==
  ASSUME ThreadsInv, CacheInv, NEW t \in Threads, lock = t, NEW b \in Buffers, buf[b].hold = 0,
         FreeBufferWake(b), UNCHANGED <<ioVars, status, deviceVars>>,
         NEW l, NEW s, Go(t, l, s), s.mine = loc[t].mine,
         Flushing(l, s) = Flushing(pc[t], loc[t]), l \notin Relying \/ LockHolderOK(l, s)'
  PROVE  CacheInv'
<1>1. /\ IndexInv' /\ buf'[b].hold = 0 /\ \A c \in Buffers \ {b} : buf'[c] = buf[c]
      /\ need' \in Nat /\ sleepers' \subseteq Threads /\ recent' \subseteq Buffers \X Buffers
  BY FreeFacts
<1>2. \A c \in Buffers : buf'[c].hold = Refs(c)'
  BY <1>1, RefsKept DEF CacheInv, HoldsAccounted, Refs
<1>3. DataType' /\ ReadsHaveBlock'
  BY <1>1, DataKept DEF ioVars
<1> QED
  BY <1>1, <1>2, <1>3, Assemble

\* One buffer's bits, errors or contents change.
LEMMA BitsFacts ==
  ASSUME CacheInv, NEW b \in Buffers, NEW x \in Buffer, x.where = buf[b].where,
         x.block = buf[b].block, x.hold = buf[b].hold, buf' = [buf EXCEPT ![b] = x]
  PROVE  SameIndex /\ buf' \in [Buffers -> Buffer]
BY DEF CacheInv, IndexInv, SameIndex

\* A write takes over the dirty bit.
LEMMA StartWriteFacts ==
  ASSUME CacheInv, NEW b \in Buffers, StartWrite(b)
  PROVE  SameIndex /\ buf' \in [Buffers -> Buffer]
<1> DEFINE x == [buf[b] EXCEPT !.state = Writing(@)]
<1>1. buf[b] \in Buffer
  BY DEF CacheInv, IndexInv
<1>2. Writing(buf[b].state) \in SUBSET Bits
  BY <1>1 DEF Writing, Buffer, Bits
<1>3. x \in Buffer /\ x.where = buf[b].where /\ x.block = buf[b].block /\ x.hold = buf[b].hold
  BY <1>1, <1>2 DEF Buffer
<1>4. buf' = [buf EXCEPT ![b] = x]
  BY DEF StartWrite
<1> HIDE DEF x
<1> QED
  BY <1>3, <1>4, BitsFacts

\* A step that only changes bits, contents or requests, of no thread.
LEMMA BitsOnly ==
  ASSUME ThreadsInv, CacheInv, UNCHANGED <<pc, loc>>, SameIndex, buf' \in [Buffers -> Buffer],
         DataType', ReadsHaveBlock'
  PROVE  CacheInv'
<1>1. IndexInv' /\ Linked' = Linked
  BY Soft DEF CacheInv
<1>2. HoldsAccounted'
  BY DEF CacheInv, HoldsAccounted, SameIndex, Clients, Flushers
<1>3. ASSUME NEW u \in Threads PROVE LockHolderOK(pc[u], loc[u])'
  <2>1. loc[u] \in Locals /\ ThreadOK(pc[u], loc[u])
    BY ThreadFacts
  <2>2. InHand(pc[u], loc[u])'
    BY <2>1 DEF CacheInv, SameIndex, LockHolderOK, InHand, ThreadOK, Possession, Inserting
  <2>3. Vacant(pc[u], loc[u])'
    BY <1>1 DEF CacheInv, SameIndex, LockHolderOK, Vacant, Inserting, Find, Linked
  <2>4. Victim(pc[u], loc[u])'
    BY <1>1 DEF CacheInv, SameIndex, LockHolderOK, Victim, Linked
  <2>5. Walking(pc[u], loc[u])'
    BY <1>1 DEF CacheInv, LockHolderOK, Walking
  <2> QED
    BY <2>2, <2>3, <2>4, <2>5 DEF LockHolderOK
<1> QED
  BY <1>1, <1>2, <1>3 DEF CacheInv

-----------------------------------------------------------------------------
(* Getting a buffer.                                                       *)

\* A call that gets a buffer has no reference yet.
LEMMA BufioNewCache ==
  ASSUME ThreadsInv, CacheInv, NEW t \in Threads, NEW r \in Locals, BufioNew(t, r),
         lock \in {t, Nobody}, r.mine = NoBuffer, loc[t].mine = NoBuffer,
         Flushing(pc[t], loc[t]) = NoBuffer, UNCHANGED <<ioVars, status, deviceVars>>
  PROVE  CacheInv'
<1>1. ASSUME NEW b \in Find(r.blk), Link(b, [buf[b] EXCEPT !.hold = @ + 1], ListFor(buf[b].state)),
             Go(t, "wait", [r EXCEPT !.mine = b]), UNCHANGED <<need, sleepers>>
      PROVE  CacheInv'
  <2> DEFINE x == [buf[b] EXCEPT !.hold = @ + 1]
             s == [r EXCEPT !.mine = b]
  <2>1. b \in Linked /\ b \in Buffers /\ buf[b] \in Buffer
    BY DEF Find, Linked, CacheInv, IndexInv
  <2>2. x \in Buffer /\ x.block = buf[b].block /\ x.hold = buf[b].hold + 1
    BY <2>1 DEF Buffer
  <2>3. s.mine = b /\ Flushing("wait", s) = Flushing(pc[t], loc[t]) /\ Go(t, "wait", s)
    BY <1>1 DEF Flushing, Locals
  <2>4. ListFor(buf[b].state) \in Lists
    BY ListForTyped
  <2> HIDE DEF x, s
  <2>5. /\ IndexInv' /\ buf'[b].hold = buf[b].hold + 1
        /\ \A c \in Buffers \ {b} : buf'[c] = buf[c]
        /\ recent' \subseteq Buffers \X Buffers
    BY <1>1, <2>1, <2>2, <2>4, LinkFacts DEF x
  <2>6. /\ Refs(b)' = Refs(b) + 1 /\ \A c \in Buffers \ {b} : Refs(c)' = Refs(c)
    BY <1>1, <2>1, <2>3, BuffersAssumption, ClientTakes
  <2>7. \A c \in Buffers : buf'[c].hold = Refs(c)'
    BY <2>5, <2>6 DEF CacheInv, HoldsAccounted, Refs
  <2>8. DataType' /\ ReadsHaveBlock'
    BY <1>1, <2>5, DataKept DEF CacheInv, DataType, ioVars
  <2> QED
    BY <1>1, <2>5, <2>7, <2>8, Assemble DEF s, Relying
<1>2. ASSUME UNCHANGED cacheVars, NEW l \in {"idle", "lookup", "alloc"}, NEW s,
             s.mine = NoBuffer, Go(t, l, s)
      PROVE  CacheInv'
  <2>1. Flushing(l, s) = Flushing(pc[t], loc[t])
    BY DEF Flushing
  <2>3. DataType' /\ ReadsHaveBlock'
    BY <1>2, DataKept DEF CacheInv, DataType, ioVars, cacheVars
  <2> QED
    BY <1>2, <2>1, <2>3, Quiet DEF cacheVars, Relying
<1>3. Rest(NoBuffer).mine = NoBuffer /\ [r EXCEPT !.blk = @ + 1, !.left = @ - 1].mine = NoBuffer
  BY DEF Rest, Locals
<1> QED
  BY <1>1, <1>2, <1>3 DEF BufioNew, GiveUp, Return

\* NewRead takes a reference, or gives up.
LEMMA NewReadCache ==
  ASSUME ThreadsInv, CacheInv, NEW t \in Threads, NEW c \in {"read", "new", "get"},
         NEW k \in Blocks, NewRead(t, c, k)
  PROVE  CacheInv'
<1>1. Wanted(c, k, 0) \in Locals /\ Wanted(c, k, 0).mine = NoBuffer
  BY WantedFacts, BlocksAssumption DEF Getting
<1> QED
  BY <1>1, BufioNewCache DEF NewRead, Call, Flushing

\* Prefetch: so does each block of a prefetch.
LEMMA PrefetchCache ==
  ASSUME ThreadsInv, CacheInv, NEW t \in Threads, NEW k \in Blocks, NEW n \in PrefetchSizes,
         Prefetch(t, k, n)
  PROVE  CacheInv'
<1>1. n - 1 \in Nat /\ \A i \in 0 .. n - 1 : k + i \in Blocks
  BY SizesAssumption DEF Prefetch
<1>2. Wanted("prefetch", k, n - 1) \in Locals /\ Wanted("prefetch", k, n - 1).mine = NoBuffer
  BY <1>1, WantedFacts DEF Getting
<1> QED
  BY <1>2, BufioNewCache DEF Prefetch, Call, Flushing

\* Lookup is BufioNew again.
LEMMA LookupCache ==
  ASSUME ThreadsInv, CacheInv, NEW t \in Threads, Lookup(t)
  PROVE  CacheInv'
<1>1. /\ loc[t] \in Locals /\ ThreadOK(pc[t], loc[t])
      /\ (lock = t) <=> pc[t] \in Locked
  BY ThreadFacts
<1>2. loc[t].mine = NoBuffer /\ lock \in {t, Nobody} /\ Flushing(pc[t], loc[t]) = NoBuffer
  <2>1. At(t, "lookup") \/ (At(t, "relock") /\ loc[t].call = "prefetch" /\ lock = Nobody)
    BY DEF Lookup
  <2> QED
    BY <1>1, <2>1 DEF ThreadOK, Possession, Getting, Locals, Flushing
<1>3. BufioNew(t, loc[t]) /\ UNCHANGED <<ioVars, status, deviceVars>>
  BY DEF Lookup
<1> QED
  BY <1>1, <1>2, <1>3, BufioNewCache

\* Alloc: a buffer in hand that the index does not know, or nothing changes yet.
LEMMA AllocCache ==
  ASSUME ThreadsInv, CacheInv, NEW t \in Threads, Alloc(t)
  PROVE  CacheInv'
<1>0. /\ loc[t] \in Locals /\ ThreadOK(pc[t], loc[t])
      /\ At(t, "alloc") /\ lock = t /\ UNCHANGED <<ioVars, status, deviceVars>>
  BY ThreadFacts DEF Alloc
<1>1. ASSUME NEW b \in Buffers, buf[b].where \in {"free", "reserved"}, Take(b),
             Go(t, "recheck", [loc[t] EXCEPT !.newb = b]),
             need' \in Nat, UNCHANGED <<recent, sleepers>>
      PROVE  CacheInv'
  <2>1. PICK s : s = [loc[t] EXCEPT !.newb = b]
    OBVIOUS
  <2>2. /\ s.newb = b /\ s.mine = loc[t].mine /\ Go(t, "recheck", s)
        /\ Flushing("recheck", s) = Flushing(pc[t], loc[t])
    BY <1>0, <1>1, <2>1 DEF Flushing, Locals
  <2>3. buf[b].hold = 0
    BY <1>1 DEF CacheInv, IndexInv, UnlinkedUnheld, Linked, Lists
  <2>4. /\ IndexInv' /\ buf'[b].hold = 0 /\ buf'[b].where = "hand"
        /\ \A c \in Buffers \ {b} : buf'[c] = buf[c]
    BY <1>1, <2>3, TakeFacts
  <2>5. \A c \in Buffers : buf'[c].hold = Refs(c)'
    BY <2>2, <2>3, <2>4, RefsKept DEF CacheInv, HoldsAccounted, Refs
  <2>6. DataType' /\ ReadsHaveBlock'
    BY <1>0, <1>1, DataKept DEF CacheInv, DataType, ioVars
  <2>7. LockHolderOK("recheck", s)'
    BY <2>2, <2>4 DEF LockHolderOK, InHand, Vacant, Victim, Walking, Inserting
  <2> QED
    BY <1>0, <2>2, <2>4, <2>5, <2>6, <2>7, Assemble
<1>2. ASSUME UNCHANGED cacheVars, GiveUp(t, loc[t]), loc[t].call = "prefetch" PROVE CacheInv'
  <2>1. loc[t].mine = NoBuffer
    BY <1>0, <1>2 DEF ThreadOK, Possession, Getting, Locals
  <2>2. DataType' /\ ReadsHaveBlock'
    BY <1>0, <1>2, DataKept DEF CacheInv, DataType, cacheVars, ioVars
  <2>3. PICK l, s : l \in {"idle", "lookup"} /\ s.mine = NoBuffer /\ Go(t, l, s)
    <3>1. Rest(NoBuffer).mine = NoBuffer /\ [loc[t] EXCEPT !.blk = @ + 1, !.left = @ - 1].mine = NoBuffer
      BY <1>0, <2>1 DEF Rest, Locals
    <3> QED
      BY <1>2, <3>1 DEF GiveUp, Return
  <2>4. Flushing(l, s) = Flushing(pc[t], loc[t])
    BY <1>0, <2>3 DEF Flushing
  <2> QED
    BY <1>2, <2>1, <2>2, <2>3, <2>4, Quiet DEF cacheVars, Relying
<1>3. ASSUME NEW b \in Unclaimed, UNCHANGED cacheVars,
             Go(t, "clean", [loc[t] EXCEPT !.cur = b, !.then = "alloc"])
      PROVE  CacheInv'
  <2>1. /\ [loc[t] EXCEPT !.cur = b, !.then = "alloc"].mine = loc[t].mine
        /\ Flushing("clean", [loc[t] EXCEPT !.cur = b, !.then = "alloc"]) = Flushing(pc[t], loc[t])
    BY <1>0 DEF Flushing, Locals
  <2>2. LockHolderOK("clean", [loc[t] EXCEPT !.cur = b, !.then = "alloc"])
    BY <1>0, UnclaimedFacts DEF Locals, LockHolderOK, InHand, Vacant, Victim, Walking, Inserting
  <2>3. DataType' /\ ReadsHaveBlock'
    BY <1>0, <1>3, DataKept DEF CacheInv, DataType, cacheVars, ioVars
  <2> QED
    BY <1>3, <2>1, <2>2, <2>3, Quiet DEF cacheVars
<1>4. ASSUME UNCHANGED <<buf, recent, need>>, sleepers' = sleepers \cup {t},
             Go(t, "asleep", [loc[t] EXCEPT !.then = "alloc"])
      PROVE  CacheInv'
  <2>1. /\ [loc[t] EXCEPT !.then = "alloc"].mine = loc[t].mine
        /\ Flushing("asleep", [loc[t] EXCEPT !.then = "alloc"]) = Flushing(pc[t], loc[t])
    BY <1>0 DEF Flushing, Locals
  <2>2. DataType' /\ ReadsHaveBlock'
    BY <1>0, <1>4, DataKept DEF CacheInv, DataType, ioVars
  <2> QED
    BY <1>4, <2>1, <2>2, Quiet DEF Relying
<1>5. need \in Nat
  BY DEF CacheInv, DataType
<1> QED
  <2>1. CASE \E b \in List("free") :
               /\ Take(b) /\ Go(t, "recheck", [loc[t] EXCEPT !.newb = b])
               /\ UNCHANGED <<lock, recent, need, sleepers>>
    BY <1>1, <1>5, <2>1 DEF List
  <2>2. CASE \E b \in List("reserved") :
               /\ loc[t].call # "prefetch"
               /\ Lend(b) /\ Go(t, "recheck", [loc[t] EXCEPT !.newb = b])
               /\ UNCHANGED <<lock, recent, sleepers>>
    BY <1>1, <1>5, <2>2 DEF Lend, List
  <2> QED
    BY <1>2, <1>3, <1>4, <2>1, <2>2 DEF Alloc

\* WakeUp: what a sleeper was after it looks for again.
LEMMA WakeUpCache ==
  ASSUME ThreadsInv, CacheInv, NEW t \in Threads, WakeUp(t)
  PROVE  CacheInv'
<1>0. /\ loc[t] \in Locals /\ ThreadOK(pc[t], loc[t]) /\ LockHolderOK(pc[t], loc[t])
      /\ UNCHANGED buf /\ DataType' /\ ReadsHaveBlock'
  BY ThreadFacts, DataKept DEF CacheInv, DataType, WakeUp, cacheVars, ioVars
<1>1. ASSUME At(t, "asleep"),
             Go(t, loc[t].then, [loc[t] EXCEPT !.then = "idle"])
      PROVE  CacheInv'
  <2>1. /\ [loc[t] EXCEPT !.then = "idle"].mine = loc[t].mine
        /\ Flushing(loc[t].then, [loc[t] EXCEPT !.then = "idle"]) = Flushing(pc[t], loc[t])
    BY <1>0, <1>1 DEF Flushing, Locals, Continuation, Possession, ThreadOK
  <2>2. LockHolderOK(loc[t].then, [loc[t] EXCEPT !.then = "idle"])
    BY <1>0, <1>1 DEF Locals, LockHolderOK, InHand, Vacant, Victim, Walking, Inserting, Continuation, Possession, ThreadOK
  <2> QED
    BY <1>0, <1>1, <2>1, <2>2, Quiet
<1> QED
  BY <1>0, <1>1 DEF WakeUp

\* Recheck: the new buffer is not needed, or goes on to be linked.
LEMMA RecheckCache ==
  ASSUME ThreadsInv, CacheInv, NEW t \in Threads, Recheck(t)
  PROVE  CacheInv'
<1>0. /\ loc[t] \in Locals /\ ThreadOK(pc[t], loc[t]) /\ LockHolderOK(pc[t], loc[t])
      /\ At(t, "recheck") /\ lock = t /\ UNCHANGED <<ioVars, status, deviceVars>>
  BY ThreadFacts DEF CacheInv, Recheck
<1>1. CASE FreeBufferWake(loc[t].newb) /\ Go(t, "lookup", [loc[t] EXCEPT !.newb = NoBuffer])
  <2> DEFINE b == loc[t].newb
  <2>1. b \in Buffers /\ buf[b].where = "hand" /\ buf[b].hold = 0
    BY <1>0 DEF ThreadOK, Possession, LockHolderOK, InHand, CacheInv, IndexInv, UnlinkedUnheld, Linked, Lists
  <2>2. /\ IndexInv' /\ buf'[b].hold = 0 /\ \A c \in Buffers \ {b} : buf'[c] = buf[c]
        /\ need' \in Nat /\ sleepers' \subseteq Threads /\ recent' \subseteq Buffers \X Buffers
    BY <1>1, <2>1, FreeFacts
  <2>3. /\ [loc[t] EXCEPT !.newb = NoBuffer].mine = loc[t].mine
        /\ Flushing("lookup", [loc[t] EXCEPT !.newb = NoBuffer]) = Flushing(pc[t], loc[t])
    BY <1>0 DEF Flushing, Locals
  <2>4. \A c \in Buffers : buf'[c].hold = Refs(c)'
    BY <1>1, <2>1, <2>2, <2>3, RefsKept DEF CacheInv, HoldsAccounted, Refs
  <2>5. DataType' /\ ReadsHaveBlock'
    BY <1>0, <2>2, DataKept DEF ioVars
  <2> QED
    BY <1>0, <1>1, <2>2, <2>4, <2>5, Assemble DEF Relying
<1>2. ASSUME NEW l \in Limits, Find(loc[t].blk) = {}, UNCHANGED cacheVars,
             Go(t, "watermark", [loc[t] EXCEPT !.lim = l])
      PROVE  CacheInv'
  <2>1. /\ [loc[t] EXCEPT !.lim = l].mine = loc[t].mine
        /\ Flushing("watermark", [loc[t] EXCEPT !.lim = l]) = Flushing(pc[t], loc[t])
    BY <1>0 DEF Flushing, Locals
  <2>2. LockHolderOK("watermark", [loc[t] EXCEPT !.lim = l])
    BY <1>0, <1>2 DEF Locals, LockHolderOK, InHand, Vacant, Victim, Walking, Inserting
  <2>3. DataType' /\ ReadsHaveBlock'
    BY <1>0, <1>2, DataKept DEF CacheInv, DataType, cacheVars, ioVars
  <2> QED
    BY <1>2, <2>1, <2>2, <2>3, Quiet DEF cacheVars
<1> QED
  BY <1>1, <1>2 DEF Recheck

\* Watermark: the new buffer stays in hand and its block vacant.
LEMMA WatermarkCache ==
  ASSUME ThreadsInv, CacheInv, NEW t \in Threads, Watermark(t)
  PROVE  CacheInv'
<1>0. /\ loc[t] \in Locals /\ ThreadOK(pc[t], loc[t]) /\ LockHolderOK(pc[t], loc[t])
      /\ UNCHANGED buf /\ DataType' /\ ReadsHaveBlock'
  BY ThreadFacts, DataKept DEF CacheInv, DataType, Watermark, cacheVars, ioVars
<1>1. ASSUME At(t, "watermark"), NEW b \in Unclaimed,
             Go(t, "clean", [loc[t] EXCEPT !.cur = b, !.then = "watermark"])
      PROVE  CacheInv'
  <2>1. /\ [loc[t] EXCEPT !.cur = b, !.then = "watermark"].mine = loc[t].mine
        /\ Flushing("clean", [loc[t] EXCEPT !.cur = b, !.then = "watermark"]) = Flushing(pc[t], loc[t])
    BY <1>0, <1>1, UnclaimedFacts DEF Flushing, Locals
  <2>2. LockHolderOK("clean", [loc[t] EXCEPT !.cur = b, !.then = "watermark"])
    BY <1>0, <1>1, UnclaimedFacts DEF Locals, LockHolderOK, InHand, Vacant, Victim, Walking, Inserting
  <2> QED
    BY <1>0, <1>1, <2>1, <2>2, Quiet
<1>2. ASSUME At(t, "watermark"),
             Go(t, "link", loc[t])
      PROVE  CacheInv'
  <2>1. /\ loc[t].mine = loc[t].mine
        /\ Flushing("link", loc[t]) = Flushing(pc[t], loc[t])
    BY <1>0, <1>2 DEF Flushing, Locals
  <2>2. LockHolderOK("link", loc[t])
    BY <1>0, <1>2 DEF Locals, LockHolderOK, InHand, Vacant, Victim, Walking, Inserting
  <2> QED
    BY <1>0, <1>2, <2>1, <2>2, Quiet
<1>3. ASSUME At(t, "watermark"),
             Go(t, "wb", [loc[t] EXCEPT !.walk = List("dirty"), !.then = "link"])
      PROVE  CacheInv'
  <2>1. /\ [loc[t] EXCEPT !.walk = List("dirty"), !.then = "link"].mine = loc[t].mine
        /\ Flushing("wb", [loc[t] EXCEPT !.walk = List("dirty"), !.then = "link"]) = Flushing(pc[t], loc[t])
    BY <1>0, <1>3 DEF Flushing, Locals
  <2>2. LockHolderOK("wb", [loc[t] EXCEPT !.walk = List("dirty"), !.then = "link"])
    BY <1>0, <1>3 DEF Locals, LockHolderOK, InHand, Vacant, Victim, Walking, Inserting, List, Linked, Lists
  <2> QED
    BY <1>0, <1>3, <2>1, <2>2, Quiet
<1> QED
  BY <1>0, <1>1, <1>2, <1>3 DEF Watermark

\* LinkNew: the index gets a buffer of a block it has none of.
LEMMA LinkNewCache ==
  ASSUME ThreadsInv, CacheInv, NEW t \in Threads, LinkNew(t)
  PROVE  CacheInv'
<1>b. PICK b : b = loc[t].newb
  OBVIOUS
<1> DEFINE x == [buf[b] EXCEPT !.block = loc[t].blk, !.hold = 1, !.err = {},
               !.state = IF loc[t].call = "new" THEN {} ELSE {"reading"}]
       y == [x EXCEPT !.where = "clean"]
<1>0. /\ loc[t] \in Locals /\ ThreadOK(pc[t], loc[t]) /\ LockHolderOK(pc[t], loc[t])
      /\ At(t, "link") /\ lock = t /\ UNCHANGED <<need, sleepers, ioVars, status, deviceVars>>
  BY ThreadFacts DEF CacheInv, LinkNew
<1>1. /\ b \in Buffers /\ buf[b].where = "hand" /\ loc[t].blk \in Blocks /\ loc[t].mine = NoBuffer
      /\ Find(loc[t].blk) = {}
  <2>1. loc[t].call \in Getting
    BY <1>0 DEF ThreadOK, Possession
  <2> QED
    BY <1>0, <1>b, <2>1 DEF ThreadOK, Possession, Inserting, BlockRange, LockHolderOK, InHand, Vacant, Locals
<1>2. buf[b] \in Buffer /\ buf[b].hold = 0
  BY <1>1 DEF CacheInv, IndexInv, UnlinkedUnheld, Linked, Lists
<1>3. buf' = [buf EXCEPT ![b] = y] /\ recent' = Newest(b, "clean")
  BY <1>b DEF LinkNew, Link
<1>4. /\ y \in Buffer /\ y.where = "clean" /\ y.block = loc[t].blk /\ y.hold = 1
  <2>1. (IF loc[t].call = "new" THEN {} ELSE {"reading"}) \in SUBSET Bits
    BY DEF Bits
  <2> QED
    BY <1>1, <1>2, <2>1 DEF Buffer, Places, Lists
<1> HIDE DEF y
<1>5. /\ IndexInv' /\ buf'[b].hold = 1 /\ \A c \in Buffers \ {b} : buf'[c] = buf[c]
  BY <1>1, <1>3, <1>4, Into DEF CacheInv, Lists
<1>6. PICK l, s : l \in {"flush", "wait", "submit"} /\ s.mine = b /\ Go(t, l, s)
  <2>1. \A a : [loc[t] EXCEPT !.mine = loc[t].newb, !.newb = NoBuffer, !.then = a, !.lim = 0].mine = b
    BY <1>0, <1>b DEF Locals
  <2> QED
    BY <2>1 DEF LinkNew
<1>7. Flushing(l, s) = Flushing(pc[t], loc[t])
  BY <1>0, <1>6 DEF Flushing
<1>8. Refs(b)' = Refs(b) + 1 /\ \A c \in Buffers \ {b} : Refs(c)' = Refs(c)
  BY <1>1, <1>6, <1>7, ClientTakes, BuffersAssumption
<1>9. \A c \in Buffers : buf'[c].hold = Refs(c)'
  BY <1>2, <1>5, <1>8 DEF CacheInv, HoldsAccounted, Refs
<1>10. DataType' /\ ReadsHaveBlock'
  BY <1>0, <1>1, <1>3, OrderTyped, DataKept DEF CacheInv, DataType, ioVars
<1> QED
  BY <1>0, <1>5, <1>6, <1>9, <1>10, Assemble DEF Relying

\* Flush: one write after the other, then where the call goes on.
LEMMA FlushCache ==
  ASSUME ThreadsInv, CacheInv, NEW t \in Threads, Flush(t)
  PROVE  CacheInv'
<1>0. /\ loc[t] \in Locals /\ ThreadOK(pc[t], loc[t]) /\ At(t, "flush") /\ UNCHANGED buf
      /\ loc[t].then \in Unlocked /\ loc[t].wl \subseteq Buffers
  BY ThreadFacts DEF Flush, cacheVars, ThreadOK, Continuation, Unlocked, Locals
<1>1. ASSUME NEW b \in loc[t].wl, Submit(b, "write", buf[b].block, buf[b].gen)
      PROVE  DataType' /\ ReadsHaveBlock'
  <2>1. buf[b].block \in Blocks \cup {NoBlock} /\ buf[b].gen \in Gens
    BY <1>0 DEF CacheInv, IndexInv, Buffer
  <2>2. io' \in [Buffers -> Request] /\ ReadsHaveBlock'
    BY <1>0, <1>1, <2>1, SubmitTyped
  <2> QED
    BY <2>2 DEF CacheInv, DataType, Flush, cacheVars, deviceVars
<1>2. ASSUME UNCHANGED io PROVE DataType' /\ ReadsHaveBlock'
  BY <1>2, DataKept DEF CacheInv, DataType, Flush, cacheVars
<1>3. ASSUME NEW b \in loc[t].wl, Submit(b, "write", buf[b].block, buf[b].gen),
             Go(t, "flush", [loc[t] EXCEPT !.wl = @ \ {b}])
      PROVE  CacheInv'
  <2>1. /\ [loc[t] EXCEPT !.wl = @ \ {b}].mine = loc[t].mine
        /\ Flushing("flush", [loc[t] EXCEPT !.wl = @ \ {b}]) = Flushing(pc[t], loc[t])
    BY <1>0 DEF Flushing, Locals
  <2> QED
    BY <1>0, <1>1, <1>3, <2>1, Quiet DEF Relying
<1>4. ASSUME UNCHANGED io, Return(t, loc[t].mine) PROVE CacheInv'
  <2>1. /\ Rest(loc[t].mine).mine = loc[t].mine
        /\ Flushing("idle", Rest(loc[t].mine)) = Flushing(pc[t], loc[t])
    BY <1>0 DEF Flushing, Rest
  <2> QED
    BY <1>0, <1>2, <1>4, <2>1, Quiet DEF Return, Relying
<1>5. ASSUME UNCHANGED io, Go(t, loc[t].then, loc[t]) PROVE CacheInv'
  <2>1. Flushing(loc[t].then, loc[t]) = Flushing(pc[t], loc[t])
    BY <1>0 DEF Flushing, ThreadOK, Continuation
  <2> QED
    BY <1>0, <1>2, <1>5, <2>1, Quiet DEF Relying, Unlocked
<1> QED
  BY <1>3, <1>4, <1>5 DEF Flush

\* SubmitRead: the block is the one of the buffer the thread holds.
LEMMA SubmitReadCache ==
  ASSUME ThreadsInv, CacheInv, NEW t \in Threads, SubmitRead(t)
  PROVE  CacheInv'
<1> DEFINE b == loc[t].mine
<1>0. /\ loc[t] \in Locals /\ ThreadOK(pc[t], loc[t]) /\ At(t, "submit") /\ UNCHANGED buf
  BY ThreadFacts DEF SubmitRead, cacheVars
<1>1. b \in Buffers /\ buf[b].block \in Blocks /\ 0 \in Gens
  BY <1>0, HeldLinked, MaxGenAssumption DEF ThreadOK, Possession, Gens
<1>2. Submit(b, "read", buf[b].block, 0)
  BY DEF SubmitRead
<1>3. io' \in [Buffers -> Request] /\ ReadsHaveBlock'
  BY <1>1, <1>2, SubmitTyped
<1>4. DataType' /\ ReadsHaveBlock'
  BY <1>3 DEF CacheInv, DataType, SubmitRead, cacheVars, deviceVars
<1>5. PICK l \in {"release", "wait"} : Go(t, l, loc[t])
  BY DEF SubmitRead
<1>6. Flushing(l, loc[t]) = Flushing(pc[t], loc[t]) /\ l \notin Relying
  BY <1>0 DEF Flushing, Relying
<1> QED
  BY <1>0, <1>4, <1>5, <1>6, Quiet

\* WaitRead: the thread keeps its reference.
LEMMA WaitReadCache ==
  ASSUME ThreadsInv, CacheInv, NEW t \in Threads, WaitRead(t)
  PROVE  CacheInv'
<1>0. /\ loc[t] \in Locals /\ ThreadOK(pc[t], loc[t]) /\ LockHolderOK(pc[t], loc[t])
      /\ UNCHANGED buf /\ DataType' /\ ReadsHaveBlock'
  BY ThreadFacts, DataKept DEF CacheInv, DataType, WaitRead, cacheVars, ioVars
<1>1. ASSUME At(t, "wait"),
             Go(t, "release", loc[t])
      PROVE  CacheInv'
  <2>1. /\ loc[t].mine = loc[t].mine
        /\ Flushing("release", loc[t]) = Flushing(pc[t], loc[t])
    BY <1>0, <1>1 DEF Flushing, Locals
  <2> QED
    BY <1>0, <1>1, <2>1, Quiet DEF Return, Relying
<1>2. ASSUME At(t, "wait"),
             Return(t, loc[t].mine)
      PROVE  CacheInv'
  <2>1. /\ Rest(loc[t].mine).mine = loc[t].mine
        /\ Flushing("idle", Rest(loc[t].mine)) = Flushing(pc[t], loc[t])
    BY <1>0, <1>2 DEF Flushing, Locals, Rest
  <2> QED
    BY <1>0, <1>2, <2>1, Quiet DEF Return, Relying
<1>3. ASSUME At(t, "wait"),
             Go(t, "overwrite", loc[t])
      PROVE  CacheInv'
  <2>1. /\ loc[t].mine = loc[t].mine
        /\ Flushing("overwrite", loc[t]) = Flushing(pc[t], loc[t])
    BY <1>0, <1>3 DEF Flushing, Locals
  <2> QED
    BY <1>0, <1>3, <2>1, Quiet DEF Return, Relying
<1> QED
  BY <1>0, <1>1, <1>2, <1>3 DEF WaitRead

-----------------------------------------------------------------------------
(* Giving a buffer back, and making it dirty.                              *)

\* ReleaseRef: one reference less, and an idle buffer with an error is freed.
LEMMA ReleaseRefCache ==
  ASSUME ThreadsInv, CacheInv, NEW t \in Threads, ReleaseRef(t)
  PROVE  CacheInv'
<1>0. /\ loc[t] \in Locals /\ ThreadOK(pc[t], loc[t]) /\ (At(t, "release") \/ At(t, "idle"))
      /\ lock = Nobody /\ UNCHANGED <<ioVars, status, deviceVars>>
  BY ThreadFacts DEF ReleaseRef
<1>1. PICK b \in Buffers : b = loc[t].mine
  BY <1>0 DEF ReleaseRef, ThreadOK, Possession, Locals
<1>2. b \in Linked /\ buf[b].hold \in Nat \ {0} /\ buf[b] \in Buffer
  BY <1>1, HeldLinked
<1>3. PICK l, s : l \in {"relock", "idle"} /\ s.mine = NoBuffer /\ Go(t, l, s)
  <2>1. Rest(NoBuffer).mine = NoBuffer
    BY DEF Rest
  <2>2. Wanted("prefetch", loc[t].blk + 1, loc[t].left - 1).mine = NoBuffer
    BY DEF Wanted, Rest
  <2> QED
    BY <2>1, <2>2 DEF ReleaseRef, Return
<1>4. /\ IndexInv' /\ buf'[b].hold = buf[b].hold - 1 /\ \A c \in Buffers \ {b} : buf'[c] = buf[c]
      /\ need' \in Nat /\ sleepers' \subseteq Threads /\ recent' \subseteq Buffers \X Buffers
  <2>1. CASE buf[b].hold = 1 /\ FreeBufferWake(b)
    BY <1>1, <2>1, FreeFacts
  <2>2. CASE /\ buf' = [buf EXCEPT ![b] = Unhold(@)]
             /\ WakeIfLast(b) /\ UNCHANGED <<recent, need>>
    <3> DEFINE x == [buf[b] EXCEPT !.hold = @ - 1]
    <3>1. x \in Buffer /\ x.where \in Lists /\ x.block = buf[b].block /\ x.hold = buf[b].hold - 1
      BY <1>2 DEF Buffer, Linked
    <3>2. buf' = [buf EXCEPT ![b] = x]
      BY <2>2 DEF Unhold
    <3> HIDE DEF x
    <3>3. IndexInv' /\ buf'[b] = x /\ \A c \in Buffers \ {b} : buf'[c] = buf[c]
      BY <1>2, <3>1, <3>2, Stays DEF CacheInv
    <3> QED
      BY <2>2, <3>1, <3>3 DEF WakeIfLast, CacheInv, DataType
  <2> QED
    BY <1>1, <2>1, <2>2 DEF ReleaseRef
<1>5. Flushing(l, s) = Flushing(pc[t], loc[t])
  BY <1>0, <1>3 DEF Flushing
<1>6. Refs(b)' = Refs(b) - 1 /\ \A c \in Buffers \ {b} : Refs(c)' = Refs(c)
  BY <1>1, <1>3, <1>5, ClientGives, BuffersAssumption
<1>7. \A c \in Buffers : buf'[c].hold = Refs(c)'
  BY <1>4, <1>6 DEF CacheInv, HoldsAccounted, Refs
<1>8. DataType' /\ ReadsHaveBlock'
  BY <1>0, <1>4, DataKept DEF ioVars
<1> QED
  BY <1>0, <1>3, <1>4, <1>7, <1>8, Assemble DEF Relying

\* MakeDirty: the buffer keeps its block and its references.
LEMMA MakeDirtyCache ==
  ASSUME ThreadsInv, CacheInv, NEW t \in Threads, MakeDirty(t), loc[t].mine \in Buffers,
         At(t, "idle") \/ At(t, "overwrite")
  PROVE  CacheInv'
<1> DEFINE b == loc[t].mine
           g == Bump(latest[buf[b].block])
           x == [buf[b] EXCEPT !.state = @ \cup {"dirty"}, !.gen = g]
<1>1. b \in Linked /\ buf[b] \in Buffer /\ g \in Gens
  BY HeldLinked, BumpType
<1>2. x \in Buffer /\ x.where = buf[b].where /\ x.block = buf[b].block /\ x.hold = buf[b].hold
  <2>1. buf[b].state \cup {"dirty"} \in SUBSET Bits
    BY <1>1 DEF Buffer, Bits
  <2> QED
    BY <1>1, <2>1 DEF Buffer
<1>3. /\ IndexInv' /\ buf'[b].hold = buf[b].hold /\ \A c \in Buffers \ {b} : buf'[c] = buf[c]
      /\ recent' \subseteq Buffers \X Buffers
  <2>1. CASE Link(b, x, "dirty")
    <3> HIDE DEF x
    <3> QED
      BY <1>1, <1>2, <2>1, LinkFacts DEF Lists
  <2>2. CASE buf' = [buf EXCEPT ![b] = x] /\ UNCHANGED recent
    <3> HIDE DEF x
    <3> QED
      BY <1>1, <1>2, <2>2, Stays DEF CacheInv, DataType, Linked
  <2> QED
    BY <2>1, <2>2 DEF MakeDirty
<1>4. /\ Rest(b).mine = b /\ Go(t, "idle", Rest(b))
      /\ Flushing("idle", Rest(b)) = Flushing(pc[t], loc[t])
  BY DEF MakeDirty, Return, Rest, Flushing
<1>5. \A c \in Buffers : buf'[c].hold = Refs(c)'
  BY <1>3, <1>4, RefsKept DEF CacheInv, HoldsAccounted, Refs
<1>6. DataType' /\ ReadsHaveBlock'
  BY <1>3 DEF MakeDirty, CacheInv, DataType, ReadsHaveBlock, ioVars
<1>7. lock = Nobody
  BY DEF MakeDirty
<1> QED
  BY <1>3, <1>4, <1>5, <1>6, <1>7, Assemble DEF Relying

\* MarkDirty, by the holder of a buffer.
LEMMA MarkDirtyCache ==
  ASSUME ThreadsInv, CacheInv, NEW t \in Threads, MarkDirty(t)
  PROVE  CacheInv'
<1>1. loc[t] \in Locals
  BY ThreadFacts
<1>2. loc[t].mine \in Buffers /\ At(t, "idle") /\ MakeDirty(t)
  BY <1>1 DEF MarkDirty, Call, Locals
<1> QED
  BY <1>2, MakeDirtyCache

\* Overwrite, by the holder of a new buffer.
LEMMA OverwriteCache ==
  ASSUME ThreadsInv, CacheInv, NEW t \in Threads, Overwrite(t)
  PROVE  CacheInv'
<1>1. loc[t].mine \in Buffers /\ At(t, "overwrite") /\ MakeDirty(t)
  BY ThreadFacts DEF Overwrite, ThreadOK, Possession
<1> QED
  BY <1>1, MakeDirtyCache

\* Forget: a buffer nobody holds leaves the index.
LEMMA ForgetCache ==
  ASSUME ThreadsInv, CacheInv, NEW t \in Threads, NEW k \in Blocks, Forget(t, k)
  PROVE  CacheInv'
<1>1. PICK b \in Find(k) : buf[b].hold = 0 /\ FreeBufferWake(b)
  BY DEF Forget
<1>2. b \in Buffers
  BY DEF Find, Linked
<1>3. /\ IndexInv' /\ buf'[b].hold = 0 /\ \A c \in Buffers \ {b} : buf'[c] = buf[c]
      /\ need' \in Nat /\ sleepers' \subseteq Threads /\ recent' \subseteq Buffers \X Buffers
  BY <1>1, <1>2, FreeFacts
<1>4. lock = Nobody /\ UNCHANGED <<pc, loc, ioVars, status, deviceVars>>
  BY DEF Forget
<1>5. HoldsAccounted'
  BY <1>1, <1>2, <1>3, <1>4 DEF CacheInv, HoldsAccounted, Clients, Flushers
<1>6. DataType' /\ ReadsHaveBlock'
  BY <1>3, <1>4, DataKept DEF ioVars
<1>7. \A u \in Threads : LockHolderOK(pc[u], loc[u])'
  BY <1>4, ThreadFacts, ThreadsAssumption
  DEF LockHolderOK, InHand, Vacant, Victim, Walking, Inserting
<1> QED
  BY <1>3, <1>5, <1>6, <1>7 DEF CacheInv

-----------------------------------------------------------------------------
(* Making a buffer clean, and evicting it.                                 *)

\* CleanWrite: the write of a buffer nobody holds.
LEMMA CleanWriteCache ==
  ASSUME ThreadsInv, CacheInv, NEW t \in Threads, CleanWrite(t)
  PROVE  CacheInv'
<1>1. PICK b : b = loc[t].cur
  OBVIOUS
<1>2. /\ b \in Buffers /\ StartWrite(b) /\ Submit(b, "write", buf[b].block, buf[b].gen)
      /\ UNCHANGED <<pc, loc>>
  BY <1>1, ThreadFacts DEF CleanWrite, ThreadOK, Possession
<1>3. buf[b].block \in Blocks \cup {NoBlock} /\ buf[b].gen \in Gens
  BY <1>2 DEF CacheInv, IndexInv, Buffer
<1>4. io' \in [Buffers -> Request] /\ ReadsHaveBlock'
  BY <1>2, <1>3, SubmitTyped
<1>5. DataType'
  BY <1>4 DEF CleanWrite, CacheInv, DataType, deviceVars
<1> QED
  BY <1>2, <1>4, <1>5, StartWriteFacts, BitsOnly

\* CleanDone: what the victim was wanted for.
LEMMA CleanDoneCache ==
  ASSUME ThreadsInv, CacheInv, NEW t \in Threads, CleanDone(t)
  PROVE  CacheInv'
<1>0. /\ loc[t] \in Locals /\ ThreadOK(pc[t], loc[t]) /\ LockHolderOK(pc[t], loc[t])
      /\ At(t, "clean") /\ lock = t /\ UNCHANGED <<ioVars, status, deviceVars>>
  BY ThreadFacts DEF CleanDone, CacheInv
<1>1. PICK b \in Buffers : b = loc[t].cur /\ b \in Linked /\ buf[b].hold = 0
  BY <1>0 DEF LockHolderOK, Victim, Linked
<1>2. ASSUME Take(b), recent' = Forgotten(b), UNCHANGED <<need, sleepers>>,
             Go(t, "recheck", [loc[t] EXCEPT !.newb = loc[t].cur, !.cur = NoBuffer, !.then = "idle"])
      PROVE  CacheInv'
  <2>1. PICK s : s = [loc[t] EXCEPT !.newb = loc[t].cur, !.cur = NoBuffer, !.then = "idle"]
    OBVIOUS
  <2>2. /\ s.newb = b /\ s.mine = loc[t].mine /\ Go(t, "recheck", s)
        /\ Flushing("recheck", s) = Flushing(pc[t], loc[t])
    BY <1>0, <1>1, <1>2, <2>1 DEF Flushing, Locals
  <2>3. /\ IndexInv' /\ buf'[b].hold = 0 /\ buf'[b].where = "hand"
        /\ \A c \in Buffers \ {b} : buf'[c] = buf[c]
    BY <1>1, <1>2, TakeFacts
  <2>4. \A c \in Buffers : buf'[c].hold = Refs(c)'
    BY <1>1, <2>2, <2>3, RefsKept DEF CacheInv, HoldsAccounted, Refs
  <2>5. DataType' /\ ReadsHaveBlock'
    BY <1>0, <1>2, OrderTyped, DataKept DEF CacheInv, DataType, ioVars
  <2>6. LockHolderOK("recheck", s)'
    BY <2>2, <2>3 DEF LockHolderOK, InHand, Vacant, Victim, Walking, Inserting
  <2> QED
    BY <1>0, <2>2, <2>3, <2>4, <2>5, <2>6, Assemble
<1>3. ASSUME loc[t].then \in {"watermark", "drop", "move"}, FreeBufferWake(b),
             Go(t, loc[t].then, [loc[t] EXCEPT !.cur = NoBuffer, !.then = "idle"])
      PROVE  CacheInv'
  <2>1. PICK l, s : l = loc[t].then /\ s = [loc[t] EXCEPT !.cur = NoBuffer, !.then = "idle"]
    OBVIOUS
  <2>2. /\ s.mine = loc[t].mine /\ Go(t, l, s) /\ s.newb = loc[t].newb /\ s.blk = loc[t].blk
        /\ Flushing(l, s) = Flushing(pc[t], loc[t])
    BY <1>0, <1>3, <2>1 DEF Flushing, Locals
  <2>3. ASSUME l = "watermark" PROVE LockHolderOK(l, s)'
    <3>1. loc[t].newb \in Buffers /\ buf[loc[t].newb].where = "hand" /\ Find(loc[t].blk) = {}
      BY <1>0, <2>1, <2>3 DEF ThreadOK, Possession, Inserting, LockHolderOK, InHand, Vacant
    <3>2. loc[t].newb # b
      BY <1>1, <3>1 DEF Linked, Lists
    <3>3. buf'[loc[t].newb] = buf[loc[t].newb] /\ Find(s.blk)' = {}
      BY <1>3, <2>2, <3>1, <3>2, FreeFacts
    <3> QED
      BY <2>2, <2>3, <3>1, <3>3 DEF LockHolderOK, InHand, Vacant, Victim, Walking, Inserting
  <2>4. l \notin Relying \/ LockHolderOK(l, s)'
    BY <1>3, <2>1, <2>3 DEF Relying
  <2> QED
    BY <1>0, <1>1, <1>3, <2>2, <2>4, Evicts
<1>4. ASSUME loc[t].then = "scan", FreeBufferWake(b), Scanned(t, 1) PROVE CacheInv'
  <2> DEFINE r == [loc[t] EXCEPT !.left = @ - 1, !.count = @ - 1, !.cur = NoBuffer]
  <2>1. r.mine = loc[t].mine /\ r.walk = loc[t].walk
    BY <1>0 DEF Locals
  <2>2. CASE Return(t, r.mine)
    <3>1. Rest(r.mine).mine = loc[t].mine /\ Flushing("idle", Rest(r.mine)) = Flushing(pc[t], loc[t])
      BY <1>0, <2>1 DEF Rest, Flushing
    <3> QED
      BY <1>0, <1>1, <1>4, <2>2, <3>1, Evicts DEF Return, Relying
  <2>3. CASE Go(t, "scan", r)
    <3>1. PICK s : s = r
      OBVIOUS
    <3>2. s.mine = loc[t].mine /\ s.walk = loc[t].walk /\ Flushing("scan", s) = Flushing(pc[t], loc[t])
      BY <1>0, <2>1, <3>1 DEF Flushing
    <3>3. s.walk \subseteq Linked \ {b}
      BY <1>0, <1>1, <1>4, <3>2 DEF LockHolderOK, Walking
    <3>4. LockHolderOK("scan", s)'
      BY <1>4, <3>3, FreeFacts DEF LockHolderOK, InHand, Vacant, Victim, Walking, Inserting
    <3> QED
      BY <1>0, <1>1, <1>4, <2>3, <3>1, <3>2, <3>4, Evicts
  <2> QED
    BY <1>4, <2>2, <2>3 DEF Scanned
<1> QED
  BY <1>1, <1>2, <1>3, <1>4 DEF CleanDone

-----------------------------------------------------------------------------
(* Writing back.                                                           *)

\* WriteAsync walks buffers that are linked.
LEMMA WriteAsyncCache ==
  ASSUME ThreadsInv, CacheInv, NEW t \in Threads, WriteAsync(t)
  PROVE  CacheInv'
<1>0. /\ loc[t] \in Locals /\ ThreadOK(pc[t], loc[t]) /\ LockHolderOK(pc[t], loc[t])
      /\ UNCHANGED buf /\ DataType' /\ ReadsHaveBlock'
  BY ThreadFacts, DataKept DEF CacheInv, DataType, WriteAsync, cacheVars, ioVars
<1>1. ASSUME At(t, "idle"),
             Go(t, "wb", [loc[t] EXCEPT !.call = "async", !.walk = List("dirty"), !.then = "idle"])
      PROVE  CacheInv'
  <2>1. /\ [loc[t] EXCEPT !.call = "async", !.walk = List("dirty"), !.then = "idle"].mine = loc[t].mine
        /\ Flushing("wb", [loc[t] EXCEPT !.call = "async", !.walk = List("dirty"), !.then = "idle"]) = Flushing(pc[t], loc[t])
    BY <1>0, <1>1 DEF Flushing, Locals
  <2>2. LockHolderOK("wb", [loc[t] EXCEPT !.call = "async", !.walk = List("dirty"), !.then = "idle"])
    BY <1>0, <1>1 DEF Locals, LockHolderOK, InHand, Vacant, Victim, Walking, Inserting, List, Linked, Lists
  <2> QED
    BY <1>0, <1>1, <2>1, <2>2, Quiet
<1> QED
  BY <1>0, <1>1 DEF WriteAsync, StartWriteBack, Call

\* Sync walks buffers that are linked.
LEMMA SyncCache ==
  ASSUME ThreadsInv, CacheInv, NEW t \in Threads, Sync(t)
  PROVE  CacheInv'
<1>0. /\ loc[t] \in Locals /\ ThreadOK(pc[t], loc[t]) /\ LockHolderOK(pc[t], loc[t])
      /\ UNCHANGED buf /\ DataType' /\ ReadsHaveBlock'
  BY ThreadFacts, DataKept DEF CacheInv, DataType, Sync, cacheVars, ioVars
<1>1. ASSUME At(t, "idle"),
             Go(t, "wb", [loc[t] EXCEPT !.call = "sync", !.walk = List("dirty"), !.then = "relock",
                            !.snap = latest, !.res = FALSE])
      PROVE  CacheInv'
  <2>1. /\ [loc[t] EXCEPT !.call = "sync", !.walk = List("dirty"), !.then = "relock",
                            !.snap = latest, !.res = FALSE].mine = loc[t].mine
        /\ Flushing("wb", [loc[t] EXCEPT !.call = "sync", !.walk = List("dirty"), !.then = "relock",
                            !.snap = latest, !.res = FALSE]) = Flushing(pc[t], loc[t])
    BY <1>0, <1>1 DEF Flushing, Locals
  <2>2. LockHolderOK("wb", [loc[t] EXCEPT !.call = "sync", !.walk = List("dirty"), !.then = "relock",
                            !.snap = latest, !.res = FALSE])
    BY <1>0, <1>1 DEF Locals, LockHolderOK, InHand, Vacant, Victim, Walking, Inserting, List, Linked, Lists
  <2> QED
    BY <1>0, <1>1, <2>1, <2>2, Quiet
<1> QED
  BY <1>0, <1>1 DEF Sync, Call

\* WriteBack: the walk stays among linked buffers, and what a caller has in hand
\* stays there.
LEMMA WriteBackCache ==
  ASSUME ThreadsInv, CacheInv, NEW t \in Threads, WriteBack(t)
  PROVE  CacheInv'
<1>0. /\ loc[t] \in Locals /\ ThreadOK(pc[t], loc[t]) /\ LockHolderOK(pc[t], loc[t])
      /\ At(t, "wb") /\ lock = t /\ UNCHANGED <<need, sleepers, ioVars, status, deviceVars>>
  BY ThreadFacts DEF WriteBack, CacheInv
<1>1. loc[t].walk \subseteq Linked
  BY <1>0 DEF LockHolderOK, Walking
<1>2. loc[t].then = "link" =>
        /\ loc[t].newb \in Buffers \ Linked /\ buf[loc[t].newb].where = "hand"
        /\ Find(loc[t].blk) = {}
  BY <1>0 DEF ThreadOK, Possession, Inserting, LockHolderOK, InHand, Vacant, Linked, Lists
<1>3. ASSUME NEW b \in loc[t].walk, Linked' = Linked, \A k : Find(k)' = Find(k),
             \A c \in Buffers \ {b} : buf'[c].where = buf[c].where,
             IndexInv', recent' \subseteq Buffers \X Buffers,
             \A c \in Buffers : buf'[c].hold = buf[c].hold,
             NEW s, s.mine = loc[t].mine, s.walk \subseteq loc[t].walk, s.then = loc[t].then,
             s.newb = loc[t].newb, s.blk = loc[t].blk, Go(t, "wb", s)
      PROVE  CacheInv'
  <2>1. LockHolderOK("wb", s)'
    BY <1>1, <1>2, <1>3 DEF LockHolderOK, InHand, Vacant, Victim, Walking, Inserting
  <2>2. Flushing("wb", s) = Flushing(pc[t], loc[t])
    BY <1>0 DEF Flushing
  <2> QED
    BY <1>0, <1>3, <2>1, <2>2, Keeps
<1>4. ASSUME NEW b \in loc[t].walk, Link(b, buf[b], "clean"),
             Go(t, "wb", [loc[t] EXCEPT !.walk = @ \ {b}])
      PROVE  CacheInv'
  <2>1. PICK s : s = [loc[t] EXCEPT !.walk = @ \ {b}]
    OBVIOUS
  <2>2. /\ s.mine = loc[t].mine /\ s.walk \subseteq loc[t].walk /\ s.then = loc[t].then
        /\ s.newb = loc[t].newb /\ s.blk = loc[t].blk /\ Go(t, "wb", s)
    BY <1>0, <1>4, <2>1 DEF Locals
  <2>3. /\ IndexInv' /\ Linked' = Linked /\ \A k : Find(k)' = Find(k)
        /\ \A c \in Buffers : buf'[c].hold = buf[c].hold
        /\ \A c \in Buffers \ {b} : buf'[c] = buf[c]
        /\ recent' \subseteq Buffers \X Buffers
    BY <1>1, <1>4, RelinkFacts DEF Lists
  <2> QED
    BY <1>3, <2>2, <2>3
<1>5. ASSUME NEW b \in loc[t].walk, StartWrite(b), UNCHANGED recent,
             Go(t, "wb", [loc[t] EXCEPT !.walk = @ \ {b}, !.wl = @ \cup {b}])
      PROVE  CacheInv'
  <2>1. PICK s : s = [loc[t] EXCEPT !.walk = @ \ {b}, !.wl = @ \cup {b}]
    OBVIOUS
  <2>2. /\ s.mine = loc[t].mine /\ s.walk \subseteq loc[t].walk /\ s.then = loc[t].then
        /\ s.newb = loc[t].newb /\ s.blk = loc[t].blk /\ Go(t, "wb", s)
    BY <1>0, <1>5, <2>1 DEF Locals
  <2>3. SameIndex /\ buf' \in [Buffers -> Buffer]
    BY <1>1, <1>5, StartWriteFacts DEF Linked
  <2>4. IndexInv' /\ Linked' = Linked /\ \A k : Find(k)' = Find(k)
    BY <2>3, Soft DEF CacheInv
  <2> QED
    BY <1>3, <1>5, <2>2, <2>3, <2>4 DEF SameIndex, CacheInv, DataType
<1>6. ASSUME UNCHANGED <<buf, recent>>, NEW l \in {"wb", "link", "flush"}, NEW s,
             l = "link" => loc[t].then = "link",
             s.mine = loc[t].mine, s.walk \subseteq loc[t].walk, s.then = loc[t].then,
             s.newb = loc[t].newb, s.blk = loc[t].blk, Go(t, l, s)
      PROVE  CacheInv'
  <2>1. l \notin Relying \/ LockHolderOK(l, s)
    BY <1>1, <1>2, <1>6 DEF LockHolderOK, InHand, Vacant, Victim, Walking, Inserting, Relying
  <2>2. Flushing(l, s) = Flushing(pc[t], loc[t])
    BY <1>0, <1>6 DEF Flushing
  <2>3. DataType' /\ ReadsHaveBlock'
    BY <1>0, <1>6, DataKept DEF CacheInv, DataType, ioVars
  <2> QED
    BY <1>6, <2>1, <2>2, <2>3, Quiet
<1>7. /\ \A b \in Oldest(loc[t].walk) : b \in loc[t].walk
      /\ \A w : /\ [loc[t] EXCEPT !.walk = w].mine = loc[t].mine /\ [loc[t] EXCEPT !.walk = w].walk = w
                /\ [loc[t] EXCEPT !.walk = w].then = loc[t].then
                /\ [loc[t] EXCEPT !.walk = w].newb = loc[t].newb
                /\ [loc[t] EXCEPT !.walk = w].blk = loc[t].blk
  BY <1>0 DEF Oldest, Locals
<1>8. CASE \E b \in Oldest(loc[t].walk) :
             \/ Link(b, buf[b], "clean") /\ Go(t, "wb", [loc[t] EXCEPT !.walk = @ \ {b}])
             \/ /\ StartWrite(b) /\ UNCHANGED recent
                /\ Go(t, "wb", [loc[t] EXCEPT !.walk = @ \ {b}, !.wl = @ \cup {b}])
  BY <1>4, <1>5, <1>7, <1>8
<1>9. CASE \E b \in Oldest(loc[t].walk) :
             /\ \/ Go(t, "wb", [loc[t] EXCEPT !.walk = {}])
                \/ Go(t, "wb", [loc[t] EXCEPT !.walk = @ \ {b}])
             /\ UNCHANGED <<buf, recent>>
  BY <1>6, <1>7, <1>9
<1>10. CASE /\ \/ loc[t].then = "link" /\ Go(t, "link", loc[t])
               \/ Go(t, "flush", loc[t])
            /\ UNCHANGED <<buf, recent>>
  BY <1>6, <1>10
<1> QED
  BY <1>8, <1>9, <1>10 DEF WriteBack

\* SyncWalk walks buffers that are linked.
LEMMA SyncWalkCache ==
  ASSUME ThreadsInv, CacheInv, NEW t \in Threads, SyncWalk(t)
  PROVE  CacheInv'
<1>0. /\ loc[t] \in Locals /\ ThreadOK(pc[t], loc[t]) /\ LockHolderOK(pc[t], loc[t])
      /\ UNCHANGED buf /\ DataType' /\ ReadsHaveBlock'
  BY ThreadFacts, DataKept DEF CacheInv, DataType, SyncWalk, cacheVars, ioVars
<1>1. ASSUME At(t, "relock"),
             Go(t, "sync", [loc[t] EXCEPT !.walk = List("dirty")])
      PROVE  CacheInv'
  <2>1. /\ [loc[t] EXCEPT !.walk = List("dirty")].mine = loc[t].mine
        /\ Flushing("sync", [loc[t] EXCEPT !.walk = List("dirty")]) = Flushing(pc[t], loc[t])
    BY <1>0, <1>1 DEF Flushing, Locals
  <2>2. LockHolderOK("sync", [loc[t] EXCEPT !.walk = List("dirty")])
    BY <1>0, <1>1 DEF Locals, LockHolderOK, InHand, Vacant, Victim, Walking, Inserting, List, Linked, Lists
  <2> QED
    BY <1>0, <1>1, <2>1, <2>2, Quiet
<1> QED
  BY <1>0, <1>1 DEF SyncWalk

\* SyncVisit: hold the buffer and drop the lock, or go on with the walk.
LEMMA SyncVisitCache ==
  ASSUME ThreadsInv, CacheInv, NEW t \in Threads, SyncVisit(t)
  PROVE  CacheInv'
<1> DEFINE r == [loc[t] EXCEPT !.count = Processed(loc[t])]
<1>0. /\ loc[t] \in Locals /\ ThreadOK(pc[t], loc[t]) /\ LockHolderOK(pc[t], loc[t])
      /\ At(t, "sync") /\ lock = t /\ UNCHANGED <<need, sleepers, ioVars, status, deviceVars>>
  BY ThreadFacts DEF SyncVisit, CacheInv
<1>1. /\ r.walk = loc[t].walk /\ r.mine = loc[t].mine /\ loc[t].walk \subseteq Linked
      /\ \A b \in Oldest(r.walk) : b \in r.walk
  BY <1>0 DEF LockHolderOK, Walking, Locals, Oldest
<1>2. ASSUME NEW b \in Linked, buf' = [buf EXCEPT ![b].hold = @ + 1], UNCHANGED recent,
             Go(t, "syncwait", [r EXCEPT !.cur = b, !.walk = {}])
      PROVE  CacheInv'
  <2>1. PICK s : s = [r EXCEPT !.cur = b, !.walk = {}]
    OBVIOUS
  <2>2. s.cur = b /\ s.mine = loc[t].mine /\ Go(t, "syncwait", s)
    BY <1>0, <1>2, <2>1 DEF Locals
  <2>3. /\ Flushing("syncwait", s) = b /\ Flushing(pc[t], loc[t]) \notin Buffers
        /\ b \in Buffers /\ buf[b] \in Buffer
    BY <1>0, <2>2, BuffersAssumption DEF Flushing, Linked, CacheInv, IndexInv
  <2>4. PICK x : x = [buf[b] EXCEPT !.hold = @ + 1]
    OBVIOUS
  <2>5. x \in Buffer /\ x.where \in Lists /\ x.block = buf[b].block /\ x.hold = buf[b].hold + 1
    BY <2>3, <2>4 DEF Buffer, Linked
  <2>6. buf' = [buf EXCEPT ![b] = x]
    BY <1>2, <2>4
  <2>7. IndexInv' /\ buf'[b] = x /\ \A c \in Buffers \ {b} : buf'[c] = buf[c]
    BY <2>5, <2>6, Stays DEF CacheInv
  <2>8. Refs(b)' = Refs(b) + 1 /\ \A c \in Buffers \ {b} : Refs(c)' = Refs(c)
    BY <2>2, <2>3, FlusherTakes
  <2>9. \A c \in Buffers : buf'[c].hold = Refs(c)'
    BY <2>5, <2>7, <2>8 DEF CacheInv, HoldsAccounted, Refs
  <2>10. DataType' /\ ReadsHaveBlock'
    BY <1>0, <1>2, DataKept DEF CacheInv, DataType, ioVars
  <2> QED
    BY <1>0, <2>2, <2>7, <2>9, <2>10, Assemble DEF Relying
<1>3. ASSUME NEW b \in Linked, UNCHANGED <<buf, recent>>, Go(t, "park", [r EXCEPT !.cur = b])
      PROVE  CacheInv'
  <2>1. PICK s : s = [r EXCEPT !.cur = b]
    OBVIOUS
  <2>2. /\ s.cur = b /\ s.mine = loc[t].mine /\ s.walk = loc[t].walk /\ Go(t, "park", s)
        /\ Flushing("park", s) = Flushing(pc[t], loc[t])
    BY <1>0, <1>3, <2>1 DEF Locals, Flushing
  <2>3. LockHolderOK("park", s)
    BY <1>1, <2>2 DEF LockHolderOK, InHand, Vacant, Victim, Walking, Inserting
  <2>4. DataType' /\ ReadsHaveBlock'
    BY <1>0, <1>3, DataKept DEF CacheInv, DataType, ioVars
  <2> QED
    BY <1>3, <2>2, <2>3, <2>4, Quiet
<1>4. ASSUME NEW b \in Linked, Settle(b, buf[b]), Go(t, "sync", [r EXCEPT !.walk = @ \ {b}])
      PROVE  CacheInv'
  <2>1. PICK s : s = [r EXCEPT !.walk = @ \ {b}]
    OBVIOUS
  <2>2. /\ s.mine = loc[t].mine /\ s.walk \subseteq loc[t].walk /\ Go(t, "sync", s)
        /\ Flushing("sync", s) = Flushing(pc[t], loc[t])
    BY <1>0, <1>4, <2>1 DEF Locals, Flushing
  <2>3. b \in Buffers /\ buf[b] \in Buffer /\ buf[b].where \in Lists
    BY DEF Linked, CacheInv, IndexInv
  <2>4. /\ IndexInv' /\ Linked' = Linked /\ buf'[b].hold = buf[b].hold
        /\ \A c \in Buffers \ {b} : buf'[c] = buf[c] /\ recent' \subseteq Buffers \X Buffers
    BY <1>4, <2>3, SettleFacts
  <2>5. LockHolderOK("sync", s)'
    BY <1>1, <2>2, <2>4 DEF LockHolderOK, InHand, Vacant, Victim, Walking, Inserting
  <2>6. recent' \subseteq Buffers \X Buffers
    BY <1>4, <2>3, SettleFacts
  <2> QED
    BY <1>0, <2>2, <2>4, <2>5, <2>6, Keeps
<1> QED
  BY <1>1, <1>2, <1>3, <1>4 DEF SyncVisit

\* SyncPark: the write is over, the walk goes on.
LEMMA SyncParkCache ==
  ASSUME ThreadsInv, CacheInv, NEW t \in Threads, SyncPark(t)
  PROVE  CacheInv'
<1>0. /\ loc[t] \in Locals /\ ThreadOK(pc[t], loc[t]) /\ LockHolderOK(pc[t], loc[t])
      /\ At(t, "park") /\ lock = t /\ UNCHANGED <<need, sleepers, ioVars, status, deviceVars>>
  BY ThreadFacts DEF SyncPark, CacheInv
<1>1. PICK b \in Linked : b = loc[t].cur
  BY <1>0 DEF LockHolderOK, Walking
<1>2. b \in Buffers /\ buf[b] \in Buffer /\ buf[b].where \in Lists
  BY DEF Linked, CacheInv, IndexInv
<1>3. PICK s : s = [loc[t] EXCEPT !.walk = @ \ {b}, !.cur = NoBuffer]
  OBVIOUS
<1>4. /\ s.mine = loc[t].mine /\ s.walk \subseteq loc[t].walk /\ Go(t, "sync", s)
      /\ Flushing("sync", s) = Flushing(pc[t], loc[t])
  BY <1>0, <1>1, <1>3 DEF Locals, Flushing, SyncPark
<1>5. /\ IndexInv' /\ Linked' = Linked /\ buf'[b].hold = buf[b].hold
      /\ \A c \in Buffers \ {b} : buf'[c] = buf[c]
  BY <1>1, <1>2, SettleFacts DEF SyncPark
<1>6. recent' \subseteq Buffers \X Buffers
  BY <1>1, <1>2, SettleFacts DEF SyncPark
<1>7. LockHolderOK("sync", s)'
  BY <1>0, <1>4, <1>5 DEF LockHolderOK, InHand, Vacant, Victim, Walking, Inserting
<1> QED
  BY <1>0, <1>4, <1>5, <1>6, <1>7, Keeps

\* SyncWake: the flush keeps its reference.
LEMMA SyncWakeCache ==
  ASSUME ThreadsInv, CacheInv, NEW t \in Threads, SyncWake(t)
  PROVE  CacheInv'
<1>0. /\ loc[t] \in Locals /\ ThreadOK(pc[t], loc[t]) /\ LockHolderOK(pc[t], loc[t])
      /\ UNCHANGED buf /\ DataType' /\ ReadsHaveBlock'
  BY ThreadFacts, DataKept DEF CacheInv, DataType, SyncWake, cacheVars, ioVars
<1>1. ASSUME At(t, "syncwait"),
             Go(t, "syncrelock", loc[t])
      PROVE  CacheInv'
  <2>1. /\ loc[t].mine = loc[t].mine
        /\ Flushing("syncrelock", loc[t]) = Flushing(pc[t], loc[t])
    BY <1>0, <1>1 DEF Flushing, Locals
  <2> QED
    BY <1>0, <1>1, <2>1, Quiet DEF Return, Relying
<1> QED
  BY <1>0, <1>1 DEF SyncWake

\* SyncRelock: the reference of the flush is given back.
LEMMA SyncRelockCache ==
  ASSUME ThreadsInv, CacheInv, NEW t \in Threads, SyncRelock(t)
  PROVE  CacheInv'
<1>0. /\ loc[t] \in Locals /\ ThreadOK(pc[t], loc[t])
      /\ At(t, "syncrelock") /\ lock = Nobody /\ UNCHANGED <<need, sleepers, ioVars, status, deviceVars>>
  BY ThreadFacts DEF SyncRelock
<1>1. PICK b \in Buffers : b = loc[t].cur
  BY <1>0 DEF ThreadOK, Possession
<1>2. Flushing(pc[t], loc[t]) = b
  BY <1>0, <1>1 DEF Flushing
<1>3. b \in Linked /\ buf[b].hold \in Nat \ {0} /\ buf[b] \in Buffer
  BY <1>2, HeldLinked
<1>4. PICK x : x = Unhold(buf[b])
  OBVIOUS
<1>5. x \in Buffer /\ x.where \in Lists /\ x.block = buf[b].block /\ x.hold = buf[b].hold - 1
  BY <1>3, <1>4 DEF Unhold, Buffer, Linked
<1>6. Settle(b, x)
  BY <1>1, <1>4 DEF SyncRelock
<1>7. /\ IndexInv' /\ Linked' = Linked /\ buf'[b].hold = x.hold
      /\ \A c \in Buffers \ {b} : buf'[c] = buf[c]
  BY <1>3, <1>5, <1>6, SettleFacts
<1>8. recent' \subseteq Buffers \X Buffers
  BY <1>3, <1>5, <1>6, SettleFacts
<1>w. PICK w : w = {c \in Buffers : buf'[c].where = "dirty"}
  OBVIOUS
<1>s. PICK s : s = [loc[t] EXCEPT !.cur = NoBuffer, !.walk = w]
  OBVIOUS
<1>9. Go(t, "sync", s) /\ s.mine = loc[t].mine /\ s.walk = w
  BY <1>0, <1>w, <1>s DEF SyncRelock, Locals
<1>10. Flushing("sync", s) \notin Buffers
  BY BuffersAssumption DEF Flushing
<1>11. Refs(b)' = Refs(b) - 1 /\ \A c \in Buffers \ {b} : Refs(c)' = Refs(c)
  BY <1>2, <1>9, <1>10, FlusherGives
<1>12. \A c \in Buffers : buf'[c].hold = Refs(c)'
  BY <1>5, <1>7, <1>11 DEF CacheInv, HoldsAccounted, Refs
<1>13. DataType' /\ ReadsHaveBlock'
  BY <1>0, <1>8, DataKept DEF CacheInv, DataType, ioVars
<1>14. LockHolderOK("sync", s)'
  BY <1>w, <1>9 DEF LockHolderOK, InHand, Vacant, Victim, Walking, Inserting, Linked, Lists
<1> QED
  BY <1>0, <1>7, <1>9, <1>12, <1>13, <1>14, Assemble

\* SyncEnd leaves the buffers alone.
LEMMA SyncEndCache ==
  ASSUME ThreadsInv, CacheInv, NEW t \in Threads, SyncEnd(t)
  PROVE  CacheInv'
<1>0. /\ loc[t] \in Locals /\ ThreadOK(pc[t], loc[t]) /\ LockHolderOK(pc[t], loc[t])
      /\ UNCHANGED buf /\ DataType' /\ ReadsHaveBlock'
  BY ThreadFacts, DataKept DEF CacheInv, DataType, SyncEnd, cacheVars, ioVars
<1>1. ASSUME At(t, "sync"),
             Go(t, "xchg", [loc[t] EXCEPT !.count = 0])
      PROVE  CacheInv'
  <2>1. /\ [loc[t] EXCEPT !.count = 0].mine = loc[t].mine
        /\ Flushing("xchg", [loc[t] EXCEPT !.count = 0]) = Flushing(pc[t], loc[t])
    BY <1>0, <1>1 DEF Flushing, Locals
  <2> QED
    BY <1>0, <1>1, <2>1, Quiet DEF Return, Relying
<1> QED
  BY <1>0, <1>1 DEF SyncEnd

\* TakeError leaves the buffers alone.
LEMMA TakeErrorCache ==
  ASSUME ThreadsInv, CacheInv, NEW t \in Threads, TakeError(t)
  PROVE  CacheInv'
<1>0. /\ loc[t] \in Locals /\ ThreadOK(pc[t], loc[t]) /\ LockHolderOK(pc[t], loc[t])
      /\ UNCHANGED buf /\ DataType' /\ ReadsHaveBlock'
  BY ThreadFacts DEF CacheInv, DataType, ReadsHaveBlock, TakeError, cacheVars
<1>1. ASSUME At(t, "xchg"), NEW e,
             Go(t, "issueflush", [loc[t] EXCEPT !.res = e])
      PROVE  CacheInv'
  <2>1. /\ [loc[t] EXCEPT !.res = e].mine = loc[t].mine
        /\ Flushing("issueflush", [loc[t] EXCEPT !.res = e]) = Flushing(pc[t], loc[t])
    BY <1>0, <1>1 DEF Flushing, Locals
  <2> QED
    BY <1>0, <1>1, <2>1, Quiet DEF Return, Relying
<1> QED
  BY <1>0, <1>1 DEF TakeError

\* IssueFlush leaves the buffers alone.
LEMMA IssueFlushCache ==
  ASSUME ThreadsInv, CacheInv, NEW t \in Threads, IssueFlush(t)
  PROVE  CacheInv'
<1>0. /\ loc[t] \in Locals /\ ThreadOK(pc[t], loc[t]) /\ LockHolderOK(pc[t], loc[t])
      /\ UNCHANGED buf /\ DataType' /\ ReadsHaveBlock'
  BY ThreadFacts DEF CacheInv, DataType, ReadsHaveBlock, IssueFlush, cacheVars, ioVars
<1>1. ASSUME At(t, "issueflush"), NEW e,
             Go(t, "idle", [Rest(loc[t].mine) EXCEPT !.res = e])
      PROVE  CacheInv'
  <2>1. /\ [Rest(loc[t].mine) EXCEPT !.res = e].mine = loc[t].mine
        /\ Flushing("idle", [Rest(loc[t].mine) EXCEPT !.res = e]) = Flushing(pc[t], loc[t])
    BY <1>0, <1>1 DEF Flushing, Locals, Rest
  <2> QED
    BY <1>0, <1>1, <2>1, Quiet DEF Return, Relying
<1> QED
  BY <1>0, <1>1 DEF IssueFlush

-----------------------------------------------------------------------------
(* dm_bufio_release_move.                                                  *)

\* Move keeps the reference of the caller.
LEMMA MoveCache ==
  ASSUME ThreadsInv, CacheInv, NEW t \in Threads, NEW k \in Blocks, Move(t, k)
  PROVE  CacheInv'
<1>0. /\ loc[t] \in Locals /\ ThreadOK(pc[t], loc[t]) /\ LockHolderOK(pc[t], loc[t])
      /\ UNCHANGED buf /\ DataType' /\ ReadsHaveBlock'
  BY ThreadFacts, DataKept DEF CacheInv, DataType, Move, cacheVars, ioVars
<1>1. ASSUME At(t, "idle"),
             Go(t, "move", [Rest(loc[t].mine) EXCEPT !.call = "move", !.blk = k])
      PROVE  CacheInv'
  <2>1. /\ [Rest(loc[t].mine) EXCEPT !.call = "move", !.blk = k].mine = loc[t].mine
        /\ Flushing("move", [Rest(loc[t].mine) EXCEPT !.call = "move", !.blk = k]) = Flushing(pc[t], loc[t])
    BY <1>0, <1>1 DEF Flushing, Locals, Rest
  <2> QED
    BY <1>0, <1>1, <2>1, Quiet DEF Return, Relying
<1> QED
  BY <1>0, <1>1 DEF Move, Call

\* MoveFind: before it goes on, the new block is vacant.
LEMMA MoveFindCache ==
  ASSUME ThreadsInv, CacheInv, NEW t \in Threads, MoveFind(t)
  PROVE  CacheInv'
<1>0. /\ loc[t] \in Locals /\ ThreadOK(pc[t], loc[t]) /\ LockHolderOK(pc[t], loc[t])
      /\ UNCHANGED buf /\ DataType' /\ ReadsHaveBlock'
  BY ThreadFacts, DataKept DEF CacheInv, DataType, MoveFind, cacheVars, ioVars
<1>1. ASSUME At(t, "move"),
             Go(t, "asleep", [loc[t] EXCEPT !.then = "move"])
      PROVE  CacheInv'
  <2>1. /\ [loc[t] EXCEPT !.then = "move"].mine = loc[t].mine
        /\ Flushing("asleep", [loc[t] EXCEPT !.then = "move"]) = Flushing(pc[t], loc[t])
    BY <1>0, <1>1 DEF Flushing, Locals
  <2> QED
    BY <1>0, <1>1, <2>1, Quiet DEF Return, Relying
<1>2. ASSUME At(t, "move"), NEW b \in Linked, buf[b].hold = 0,
             Go(t, "clean", [loc[t] EXCEPT !.cur = b, !.then = "move"])
      PROVE  CacheInv'
  <2>1. /\ [loc[t] EXCEPT !.cur = b, !.then = "move"].mine = loc[t].mine
        /\ Flushing("clean", [loc[t] EXCEPT !.cur = b, !.then = "move"]) = Flushing(pc[t], loc[t])
    BY <1>0, <1>2 DEF Flushing, Locals
  <2>2. LockHolderOK("clean", [loc[t] EXCEPT !.cur = b, !.then = "move"])
    BY <1>0, <1>2 DEF Locals, LockHolderOK, InHand, Vacant, Victim, Walking, Inserting
  <2> QED
    BY <1>0, <1>2, <2>1, <2>2, Quiet
<1>3. ASSUME At(t, "move"), Find(loc[t].blk) = {},
             Go(t, "movewrite", loc[t])
      PROVE  CacheInv'
  <2>1. /\ loc[t].mine = loc[t].mine
        /\ Flushing("movewrite", loc[t]) = Flushing(pc[t], loc[t])
    BY <1>0, <1>3 DEF Flushing, Locals
  <2>2. LockHolderOK("movewrite", loc[t])
    BY <1>0, <1>3 DEF Locals, LockHolderOK, InHand, Vacant, Victim, Walking, Inserting
  <2> QED
    BY <1>0, <1>3, <2>1, <2>2, Quiet
<1> QED
  BY <1>0, <1>1, <1>2, <1>3 DEF MoveFind, Find

\* MoveWrite: the new block stays vacant.
LEMMA MoveWriteCache ==
  ASSUME ThreadsInv, CacheInv, NEW t \in Threads, MoveWrite(t)
  PROVE  CacheInv'
<1>0. /\ loc[t] \in Locals /\ ThreadOK(pc[t], loc[t]) /\ LockHolderOK(pc[t], loc[t])
      /\ At(t, "movewrite") /\ lock = t /\ Go(t, "relink", loc[t])
      /\ UNCHANGED <<lock, recent, need, sleepers, asyncError, status, deviceVars>>
  BY ThreadFacts DEF MoveWrite, CacheInv
<1>1. PICK b \in Buffers : b = loc[t].mine
  BY <1>0 DEF ThreadOK, Possession, Moving
<1>2. Find(loc[t].blk) = {}
  BY <1>0 DEF LockHolderOK, Vacant
<1>3. Flushing("relink", loc[t]) = Flushing(pc[t], loc[t])
  BY <1>0 DEF Flushing
<1>4. CASE UNCHANGED <<buf, io>>
  <2>1. LockHolderOK("relink", loc[t])
    BY <1>2 DEF LockHolderOK, InHand, Vacant, Victim, Walking, Inserting
  <2>2. DataType' /\ ReadsHaveBlock'
    BY <1>0, <1>4, DataKept DEF CacheInv, DataType
  <2> QED
    BY <1>0, <1>3, <1>4, <2>1, <2>2, Quiet
<1>5. CASE StartWrite(b) /\ Submit(b, "write", buf[b].block, buf[b].gen)
  <2>1. SameIndex /\ buf' \in [Buffers -> Buffer]
    BY <1>5, StartWriteFacts
  <2>2. IndexInv' /\ \A k : Find(k)' = Find(k)
    BY <2>1, Soft DEF CacheInv
  <2>3. buf[b].block \in Blocks \cup {NoBlock} /\ buf[b].gen \in Gens
    BY DEF CacheInv, IndexInv, Buffer
  <2>4. io' \in [Buffers -> Request] /\ ReadsHaveBlock'
    BY <1>5, <2>3, SubmitTyped
  <2>5. DataType'
    BY <1>0, <2>4 DEF CacheInv, DataType, deviceVars
  <2>6. PICK s : s = loc[t]
    OBVIOUS
  <2>7. LockHolderOK("relink", s)'
    BY <1>2, <2>2, <2>6 DEF LockHolderOK, InHand, Vacant, Victim, Walking, Inserting
  <2>8. \A c \in Buffers : buf'[c].hold = Refs(c)'
    BY <1>0, <1>3, <2>1, RefsKept DEF SameIndex, CacheInv, HoldsAccounted, Refs
  <2> QED
    BY <1>0, <2>2, <2>4, <2>5, <2>6, <2>7, <2>8, Assemble
<1> QED
  BY <1>1, <1>4, <1>5 DEF MoveWrite

\* MoveRelink: the buffer is now the one of the new block, which had none; the
\* old block has none any more.
LEMMA MoveRelinkCache ==
  ASSUME ThreadsInv, CacheInv, NEW t \in Threads, MoveRelink(t)
  PROVE  CacheInv'
<1>0. /\ loc[t] \in Locals /\ ThreadOK(pc[t], loc[t]) /\ LockHolderOK(pc[t], loc[t])
      /\ At(t, "relink") /\ lock = t
      /\ UNCHANGED <<need, sleepers, asyncError, status, disk, durable, failed, reported>>
  BY ThreadFacts DEF MoveRelink, CacheInv
<1>1. PICK b, k, g, old : /\ b = loc[t].mine /\ k = loc[t].blk /\ g = Bump(latest[k])
                          /\ old = buf[loc[t].mine].block
  OBVIOUS
<1>2. b \in Buffers /\ k \in Blocks /\ Find(k) = {} /\ g \in Gens
  BY <1>0, <1>1, BumpType DEF ThreadOK, Possession, Moving, LockHolderOK, Vacant
<1>3. b \in Linked /\ buf[b] \in Buffer /\ buf[b].block \in Blocks
  BY <1>1, <1>2, HeldLinked
<1>4. latest' \in Snapshot /\ ReadsHaveBlock /\ DataType
  BY <1>0, <1>1, <1>2 DEF MoveRelink, CacheInv, DataType, ThreadsInv, ThreadsType, Snapshot
<1>5. ASSUME NEW x \in Buffer, x.where \in Lists, x.block = k, x.hold = buf[b].hold,
             buf' = [buf EXCEPT ![b] = x], recent' = Newest(b, x.where)
      PROVE  /\ IndexInv' /\ \A c \in Buffers : buf'[c].hold = buf[c].hold
             /\ recent' \subseteq Buffers \X Buffers
             /\ Find(old)' = {}
  <2>1. /\ IndexInv' /\ buf'[b] = x /\ \A c \in Buffers \ {b} : buf'[c] = buf[c]
        /\ \A m : Find(m)' = IF m = x.block THEN {b} ELSE Find(m) \ {b}
    BY <1>2, <1>5, Into DEF CacheInv
  <2>2. Find(old) = {b} /\ old # k
    BY <1>1, <1>2, <1>3 DEF Find, CacheInv, IndexInv, OneBufferPerBlock
  <2>3. Find(old)' = {}
    BY <1>5, <2>1, <2>2
  <2> QED
    BY <1>2, <1>5, <2>1, <2>3, OrderTyped
<1>6. CASE /\ Link(b, Moved(buf[b], k, g), "dirty")
           /\ Go(t, "release", loc[t]) /\ UNCHANGED io
  <2>1. PICK x : x = [Moved(buf[b], k, g) EXCEPT !.where = "dirty"]
    OBVIOUS
  <2>2. buf[b].state \cup {"dirty"} \in SUBSET Bits
    BY <1>3 DEF Buffer, Bits
  <2>3. x \in Buffer /\ x.where = "dirty" /\ x.block = k /\ x.hold = buf[b].hold
    BY <1>2, <1>3, <2>1, <2>2 DEF Moved, Buffer, Places, Lists
  <2>4. buf' = [buf EXCEPT ![b] = x] /\ recent' = Newest(b, "dirty")
    BY <1>6, <2>1 DEF Link
  <2>5. /\ IndexInv' /\ \A c \in Buffers : buf'[c].hold = buf[c].hold
        /\ recent' \subseteq Buffers \X Buffers
    BY <1>5, <2>3, <2>4 DEF Lists
  <2>6. Flushing("release", loc[t]) = Flushing(pc[t], loc[t])
    BY <1>0 DEF Flushing
  <2>7. \A c \in Buffers : buf'[c].hold = Refs(c)'
    BY <1>6, <2>5, <2>6, RefsKept DEF CacheInv, HoldsAccounted, Refs
  <2>8. DataType' /\ ReadsHaveBlock'
    BY <1>0, <1>4, <1>6, <2>5 DEF DataType, ReadsHaveBlock
  <2> QED
    BY <1>0, <1>6, <2>5, <2>7, <2>8, Assemble DEF Relying
<1>7. CASE /\ Link(b, [buf[b] EXCEPT !.block = k, !.state = @ \cup {"writing"}], buf[b].where)
           /\ Submit(b, "write", k, g)
           /\ Go(t, "movecopy", [loc[t] EXCEPT !.blk = old])
  <2>1. PICK x, s : /\ x = [buf[b] EXCEPT !.block = k, !.state = @ \cup {"writing"}]
                    /\ s = [loc[t] EXCEPT !.blk = old]
    OBVIOUS
  <2>2. buf[b].state \cup {"writing"} \in SUBSET Bits
    BY <1>3 DEF Buffer, Bits
  <2>3. x \in Buffer /\ x.where = buf[b].where /\ x.block = k /\ x.hold = buf[b].hold
    BY <1>2, <1>3, <2>1, <2>2 DEF Buffer
  <2>4. x.where \in Lists /\ [x EXCEPT !.where = buf[b].where] = x
    BY <1>3, <2>3 DEF Linked, Buffer
  <2>5. buf' = [buf EXCEPT ![b] = x] /\ recent' = Newest(b, x.where)
    BY <1>7, <2>1, <2>3, <2>4 DEF Link
  <2>6. /\ IndexInv' /\ \A c \in Buffers : buf'[c].hold = buf[c].hold
        /\ recent' \subseteq Buffers \X Buffers
        /\ Find(old)' = {}
    BY <1>5, <2>3, <2>4, <2>5
  <2>7. /\ s.blk = old /\ s.mine = loc[t].mine /\ Go(t, "movecopy", s)
        /\ Flushing("movecopy", s) = Flushing(pc[t], loc[t])
    BY <1>0, <1>7, <2>1 DEF Flushing, Locals
  <2>8. \A c \in Buffers : buf'[c].hold = Refs(c)'
    BY <2>6, <2>7, RefsKept DEF CacheInv, HoldsAccounted, Refs
  <2>9. io' \in [Buffers -> Request] /\ ReadsHaveBlock'
    BY <1>2, <1>7, SubmitTyped
  <2>10. DataType'
    BY <1>0, <1>4, <2>6, <2>9 DEF DataType
  <2>11. Find(s.blk)' = {}
    BY <2>6, <2>7
  <2>12. LockHolderOK("movecopy", s)'
    BY <2>11 DEF LockHolderOK, InHand, Vacant, Victim, Walking, Inserting
  <2> QED
    BY <1>0, <2>6, <2>7, <2>8, <2>9, <2>10, <2>12, Assemble
<1> QED
  BY <1>1, <1>6, <1>7 DEF MoveRelink

\* MoveCopied: back to the old block, which still has no buffer.
LEMMA MoveCopiedCache ==
  ASSUME ThreadsInv, CacheInv, NEW t \in Threads, MoveCopied(t)
  PROVE  CacheInv'
<1>0. /\ loc[t] \in Locals /\ ThreadOK(pc[t], loc[t]) /\ LockHolderOK(pc[t], loc[t])
      /\ At(t, "movecopy") /\ lock = t /\ Go(t, "release", loc[t])
      /\ UNCHANGED <<need, sleepers, ioVars, status, deviceVars>>
  BY ThreadFacts DEF MoveCopied, CacheInv
<1>1. PICK b, k : b = loc[t].mine /\ k = loc[t].blk
  OBVIOUS
<1>2. b \in Buffers /\ k \in Blocks /\ Find(k) = {}
  BY <1>0, <1>1 DEF ThreadOK, Possession, Moving, LockHolderOK, Vacant
<1>3. b \in Linked /\ buf[b] \in Buffer
  BY <1>1, <1>2, HeldLinked
<1>4. PICK x : x = [buf[b] EXCEPT !.block = k]
  OBVIOUS
<1>5. /\ x \in Buffer /\ x.where \in Lists /\ x.block = k /\ x.hold = buf[b].hold
      /\ [x EXCEPT !.where = buf[b].where] = x
  BY <1>2, <1>3, <1>4 DEF Buffer, Linked
<1>6. buf' = [buf EXCEPT ![b] = x] /\ recent' = Newest(b, buf[b].where)
  BY <1>1, <1>4, <1>5 DEF MoveCopied, Link
<1>7. IndexInv' /\ buf'[b] = x /\ \A c \in Buffers \ {b} : buf'[c] = buf[c]
  BY <1>2, <1>5, <1>6, Into DEF CacheInv
<1>8. recent' \subseteq Buffers \X Buffers /\ \A c \in Buffers : buf'[c].hold = buf[c].hold
  BY <1>2, <1>5, <1>6, <1>7, OrderTyped
<1>9. Flushing("release", loc[t]) = Flushing(pc[t], loc[t])
  BY <1>0 DEF Flushing
<1> QED
  BY <1>0, <1>7, <1>8, <1>9, Keeps DEF Relying

-----------------------------------------------------------------------------
(* The shrinker and the age worker.                                        *)

\* Scan walks buffers that are linked.
LEMMA ScanCache ==
  ASSUME ThreadsInv, CacheInv, NEW t \in Threads, NEW c, NEW n \in ScanSizes, Scan(t, c, n)
  PROVE  CacheInv'
<1>0. /\ loc[t] \in Locals /\ ThreadOK(pc[t], loc[t]) /\ LockHolderOK(pc[t], loc[t])
      /\ UNCHANGED buf /\ DataType' /\ ReadsHaveBlock'
  BY ThreadFacts, DataKept DEF CacheInv, DataType, Scan, cacheVars, ioVars
<1>1. ASSUME At(t, "idle"),
             Go(t, "scan", [Rest(loc[t].mine) EXCEPT !.call = c, !.walk = Linked,
                                          !.left = n, !.count = n])
      PROVE  CacheInv'
  <2>1. /\ [Rest(loc[t].mine) EXCEPT !.call = c, !.walk = Linked,
                                          !.left = n, !.count = n].mine = loc[t].mine
        /\ Flushing("scan", [Rest(loc[t].mine) EXCEPT !.call = c, !.walk = Linked,
                                          !.left = n, !.count = n]) = Flushing(pc[t], loc[t])
    BY <1>0, <1>1 DEF Flushing, Locals, Rest
  <2>2. LockHolderOK("scan", [Rest(loc[t].mine) EXCEPT !.call = c, !.walk = Linked,
                                          !.left = n, !.count = n])
    BY <1>0, <1>1 DEF Locals, LockHolderOK, InHand, Vacant, Victim, Walking, Inserting, Rest
  <2> QED
    BY <1>0, <1>1, <2>1, <2>2, Quiet
<1> QED
  BY <1>0, <1>1 DEF Scan, Call

\* ScanVisit: a victim is held by nobody, and the walk is rid of it.
LEMMA ScanVisitCache ==
  ASSUME ThreadsInv, CacheInv, NEW t \in Threads, ScanVisit(t)
  PROVE  CacheInv'
<1>0. /\ loc[t] \in Locals /\ ThreadOK(pc[t], loc[t]) /\ LockHolderOK(pc[t], loc[t])
      /\ UNCHANGED buf /\ DataType' /\ ReadsHaveBlock'
  BY ThreadFacts, DataKept DEF CacheInv, DataType, ScanVisit, cacheVars, ioVars
<1>1. ASSUME At(t, "scan"),
             Return(t, loc[t].mine)
      PROVE  CacheInv'
  <2>1. /\ Rest(loc[t].mine).mine = loc[t].mine
        /\ Flushing("idle", Rest(loc[t].mine)) = Flushing(pc[t], loc[t])
    BY <1>0, <1>1 DEF Flushing, Locals, Rest
  <2> QED
    BY <1>0, <1>1, <2>1, Quiet DEF Return, Relying
<1>2. ASSUME At(t, "scan"), NEW b,
             Go(t, "scan", [loc[t] EXCEPT !.walk = @ \ {b}, !.left = @ - 1])
      PROVE  CacheInv'
  <2>1. /\ [loc[t] EXCEPT !.walk = @ \ {b}, !.left = @ - 1].mine = loc[t].mine
        /\ Flushing("scan", [loc[t] EXCEPT !.walk = @ \ {b}, !.left = @ - 1]) = Flushing(pc[t], loc[t])
    BY <1>0, <1>2 DEF Flushing, Locals
  <2>2. LockHolderOK("scan", [loc[t] EXCEPT !.walk = @ \ {b}, !.left = @ - 1])
    BY <1>0, <1>2 DEF Locals, LockHolderOK, InHand, Vacant, Victim, Walking, Inserting
  <2> QED
    BY <1>0, <1>2, <2>1, <2>2, Quiet
<1>3. ASSUME At(t, "scan"), NEW b \in loc[t].walk, buf[b].hold = 0,
             Go(t, "clean", [loc[t] EXCEPT !.walk = @ \ {b}, !.cur = b, !.then = "scan"])
      PROVE  CacheInv'
  <2>1. /\ [loc[t] EXCEPT !.walk = @ \ {b}, !.cur = b, !.then = "scan"].mine = loc[t].mine
        /\ Flushing("clean", [loc[t] EXCEPT !.walk = @ \ {b}, !.cur = b, !.then = "scan"]) = Flushing(pc[t], loc[t])
    BY <1>0, <1>3 DEF Flushing, Locals
  <2>2. LockHolderOK("clean", [loc[t] EXCEPT !.walk = @ \ {b}, !.cur = b, !.then = "scan"])
    BY <1>0, <1>3 DEF Locals, LockHolderOK, InHand, Vacant, Victim, Walking, Inserting
  <2> QED
    BY <1>0, <1>3, <2>1, <2>2, Quiet
<1> QED
  BY <1>0, <1>1, <1>2, <1>3 DEF ScanVisit, ScanNext, Oldest, Locals

\* Age walks buffers that are linked.
LEMMA AgeCache ==
  ASSUME ThreadsInv, CacheInv, NEW t \in Threads, Age(t)
  PROVE  CacheInv'
<1>0. /\ loc[t] \in Locals /\ ThreadOK(pc[t], loc[t]) /\ LockHolderOK(pc[t], loc[t])
      /\ UNCHANGED buf /\ DataType' /\ ReadsHaveBlock'
  BY ThreadFacts, DataKept DEF CacheInv, DataType, Age, cacheVars, ioVars
<1>1. ASSUME At(t, "idle"),
             Go(t, "age", [Rest(loc[t].mine) EXCEPT !.call = "age", !.walk = List("clean"),
                                         !.count = Cardinality(Linked)])
      PROVE  CacheInv'
  <2>1. /\ [Rest(loc[t].mine) EXCEPT !.call = "age", !.walk = List("clean"),
                                         !.count = Cardinality(Linked)].mine = loc[t].mine
        /\ Flushing("age", [Rest(loc[t].mine) EXCEPT !.call = "age", !.walk = List("clean"),
                                         !.count = Cardinality(Linked)]) = Flushing(pc[t], loc[t])
    BY <1>0, <1>1 DEF Flushing, Locals, Rest
  <2>2. LockHolderOK("age", [Rest(loc[t].mine) EXCEPT !.call = "age", !.walk = List("clean"),
                                         !.count = Cardinality(Linked)])
    BY <1>0, <1>1 DEF Locals, LockHolderOK, InHand, Vacant, Victim, Walking, Inserting, Rest, List, Linked, Lists
  <2> QED
    BY <1>0, <1>1, <2>1, <2>2, Quiet
<1> QED
  BY <1>0, <1>1 DEF Age, Call

\* AgeVisit: evict the buffer, pass it by, or stop.
LEMMA AgeVisitCache ==
  ASSUME ThreadsInv, CacheInv, NEW t \in Threads, AgeVisit(t)
  PROVE  CacheInv'
<1>0. /\ loc[t] \in Locals /\ ThreadOK(pc[t], loc[t]) /\ LockHolderOK(pc[t], loc[t])
      /\ At(t, "age") /\ lock = t /\ UNCHANGED <<ioVars, status, deviceVars>>
  BY ThreadFacts DEF AgeVisit, CacheInv
<1>1. loc[t].walk \subseteq Linked /\ \A b \in Oldest(loc[t].walk) : b \in loc[t].walk
  BY <1>0 DEF LockHolderOK, Walking, Oldest
<1>2. ASSUME NEW b \in loc[t].walk, buf[b].hold = 0, FreeBufferWake(b),
             Go(t, "age", [loc[t] EXCEPT !.walk = @ \ {b}, !.count = @ - 1])
      PROVE  CacheInv'
  <2>1. PICK s : s = [loc[t] EXCEPT !.walk = @ \ {b}, !.count = @ - 1]
    OBVIOUS
  <2>2. /\ s.mine = loc[t].mine /\ s.walk = loc[t].walk \ {b} /\ Go(t, "age", s)
        /\ Flushing("age", s) = Flushing(pc[t], loc[t]) /\ b \in Buffers
    BY <1>0, <1>1, <1>2, <2>1 DEF Locals, Flushing, Linked
  <2>3. Linked' = Linked \ {b}
    BY <1>2, <2>2, FreeFacts
  <2>4. LockHolderOK("age", s)'
    BY <1>1, <2>2, <2>3 DEF LockHolderOK, InHand, Vacant, Victim, Walking, Inserting
  <2> QED
    BY <1>0, <1>2, <2>2, <2>4, Evicts
<1>3. ASSUME UNCHANGED cacheVars, NEW b \in loc[t].walk, Go(t, "age", [loc[t] EXCEPT !.walk = @ \ {b}])
      PROVE  CacheInv'
  <2>1. PICK s : s = [loc[t] EXCEPT !.walk = @ \ {b}]
    OBVIOUS
  <2>2. /\ s.mine = loc[t].mine /\ s.walk = loc[t].walk \ {b} /\ Go(t, "age", s)
        /\ Flushing("age", s) = Flushing(pc[t], loc[t])
    BY <1>0, <1>3, <2>1 DEF Locals, Flushing
  <2>3. LockHolderOK("age", s)
    BY <1>1, <2>2 DEF LockHolderOK, InHand, Vacant, Victim, Walking, Inserting
  <2>4. DataType' /\ ReadsHaveBlock'
    BY <1>0, <1>3, DataKept DEF CacheInv, DataType, cacheVars, ioVars
  <2> QED
    BY <1>3, <2>2, <2>3, <2>4, Quiet DEF cacheVars
<1>4. CASE Return(t, loc[t].mine) /\ UNCHANGED cacheVars
  <2>1. /\ Rest(loc[t].mine).mine = loc[t].mine
        /\ Flushing("idle", Rest(loc[t].mine)) = Flushing(pc[t], loc[t])
    BY <1>0 DEF Rest, Flushing
  <2>2. DataType' /\ ReadsHaveBlock'
    BY <1>0, <1>4, DataKept DEF CacheInv, DataType, cacheVars, ioVars
  <2> QED
    BY <1>4, <2>1, <2>2, Quiet DEF Return, cacheVars, Relying
<1> QED
  BY <1>1, <1>2, <1>3, <1>4 DEF AgeVisit

-----------------------------------------------------------------------------
(* dm_bufio_client_destroy.                                                *)

\* Destroy walks buffers that are linked.
LEMMA DestroyCache ==
  ASSUME ThreadsInv, CacheInv, NEW t \in Threads, Destroy(t)
  PROVE  CacheInv'
<1>0. /\ loc[t] \in Locals /\ ThreadOK(pc[t], loc[t]) /\ LockHolderOK(pc[t], loc[t])
      /\ UNCHANGED buf /\ DataType' /\ ReadsHaveBlock'
  BY ThreadFacts DEF CacheInv, DataType, ReadsHaveBlock, Destroy, cacheVars, ioVars, deviceVars
<1>1. ASSUME At(t, "idle"),
             Go(t, "wb", [loc[t] EXCEPT !.call = "destroy", !.walk = List("dirty"), !.then = "relock"])
      PROVE  CacheInv'
  <2>1. /\ [loc[t] EXCEPT !.call = "destroy", !.walk = List("dirty"), !.then = "relock"].mine = loc[t].mine
        /\ Flushing("wb", [loc[t] EXCEPT !.call = "destroy", !.walk = List("dirty"), !.then = "relock"]) = Flushing(pc[t], loc[t])
    BY <1>0, <1>1 DEF Flushing, Locals
  <2>2. LockHolderOK("wb", [loc[t] EXCEPT !.call = "destroy", !.walk = List("dirty"), !.then = "relock"])
    BY <1>0, <1>1 DEF Locals, LockHolderOK, InHand, Vacant, Victim, Walking, Inserting, List, Linked, Lists
  <2> QED
    BY <1>0, <1>1, <2>1, <2>2, Quiet
<1> QED
  BY <1>0, <1>1 DEF Destroy, StartWriteBack, Call

\* DropStart leaves the buffers alone.
LEMMA DropStartCache ==
  ASSUME ThreadsInv, CacheInv, NEW t \in Threads, DropStart(t)
  PROVE  CacheInv'
<1>0. /\ loc[t] \in Locals /\ ThreadOK(pc[t], loc[t]) /\ LockHolderOK(pc[t], loc[t])
      /\ UNCHANGED buf /\ DataType' /\ ReadsHaveBlock'
  BY ThreadFacts, DataKept DEF CacheInv, DataType, DropStart, cacheVars, ioVars
<1>1. ASSUME At(t, "relock"),
             Go(t, "drop", loc[t])
      PROVE  CacheInv'
  <2>1. /\ loc[t].mine = loc[t].mine
        /\ Flushing("drop", loc[t]) = Flushing(pc[t], loc[t])
    BY <1>0, <1>1 DEF Flushing, Locals
  <2> QED
    BY <1>0, <1>1, <2>1, Quiet DEF Return, Relying
<1> QED
  BY <1>0, <1>1 DEF DropStart

\* Drop: a victim is held by nobody.
LEMMA DropCache ==
  ASSUME ThreadsInv, CacheInv, NEW t \in Threads, Drop(t)
  PROVE  CacheInv'
<1>0. /\ loc[t] \in Locals /\ ThreadOK(pc[t], loc[t]) /\ LockHolderOK(pc[t], loc[t])
      /\ UNCHANGED buf /\ DataType' /\ ReadsHaveBlock'
  BY ThreadFacts, DataKept DEF CacheInv, DataType, Drop, cacheVars, ioVars
<1>1. ASSUME At(t, "drop"), NEW b \in Unclaimed,
             Go(t, "clean", [loc[t] EXCEPT !.cur = b, !.then = "drop"])
      PROVE  CacheInv'
  <2>1. /\ [loc[t] EXCEPT !.cur = b, !.then = "drop"].mine = loc[t].mine
        /\ Flushing("clean", [loc[t] EXCEPT !.cur = b, !.then = "drop"]) = Flushing(pc[t], loc[t])
    BY <1>0, <1>1, UnclaimedFacts DEF Flushing, Locals
  <2>2. LockHolderOK("clean", [loc[t] EXCEPT !.cur = b, !.then = "drop"])
    BY <1>0, <1>1, UnclaimedFacts DEF Locals, LockHolderOK, InHand, Vacant, Victim, Walking, Inserting
  <2> QED
    BY <1>0, <1>1, <2>1, <2>2, Quiet
<1>2. ASSUME At(t, "drop"),
             Go(t, "unregister", loc[t])
      PROVE  CacheInv'
  <2>1. /\ loc[t].mine = loc[t].mine
        /\ Flushing("unregister", loc[t]) = Flushing(pc[t], loc[t])
    BY <1>0, <1>2 DEF Flushing, Locals
  <2> QED
    BY <1>0, <1>2, <2>1, Quiet DEF Return, Relying
<1> QED
  BY <1>0, <1>1, <1>2 DEF Drop

\* Unregister: only buffers of the reserve change, and nobody is in a call.
LEMMA UnregisterCache ==
  ASSUME ThreadsInv, CacheInv, NEW t \in Threads, Unregister(t)
  PROVE  CacheInv'
<1>0. /\ loc[t] \in Locals /\ At(t, "unregister") /\ \A u \in Threads \ {t} : At(u, "idle")
      /\ buf' = [b \in Buffers |-> IF buf[b].where = "reserved" THEN Blank("free") ELSE buf[b]]
      /\ Go(t, "destroyed", Rest(loc[t].mine))
      /\ UNCHANGED <<lock, recent, need, sleepers, ioVars, deviceVars>>
  BY ThreadFacts DEF Unregister
<1>1. lock = Nobody
  BY <1>0, ThreadFacts DEF ThreadsInv, ThreadsType
<1>2. \A b \in Buffers : \/ buf'[b] = buf[b]
                         \/ /\ buf[b].where = "reserved" /\ buf'[b] = Blank("free")
  BY <1>0
<1>3. Blank("free") \in Buffer /\ Blank("free").where = "free" /\ Blank("free").hold = 0
  BY BlankTyped
<1>4. buf' \in [Buffers -> Buffer]
  BY <1>0, <1>3 DEF CacheInv, IndexInv
<1>5. Linked' = Linked /\ \A b \in Linked : buf'[b] = buf[b]
  BY <1>2, <1>3 DEF Linked, Lists
<1>6. \A b \in Buffers : buf'[b].hold = buf[b].hold
  BY <1>2, <1>3 DEF CacheInv, IndexInv, UnlinkedUnheld, Linked, Lists
<1>7. IndexInv'
  BY <1>4, <1>5, <1>6 DEF CacheInv, IndexInv, UnlinkedUnheld, LinkedHasBlock, OneBufferPerBlock
<1>8. /\ Rest(loc[t].mine).mine = loc[t].mine
      /\ Flushing("destroyed", Rest(loc[t].mine)) = Flushing(pc[t], loc[t])
  BY <1>0 DEF Rest, Flushing
<1>9. \A b \in Buffers : buf'[b].hold = Refs(b)'
  BY <1>0, <1>6, <1>8, RefsKept DEF CacheInv, HoldsAccounted, Refs
<1>10. DataType' /\ ReadsHaveBlock'
  BY <1>0 DEF Unregister, CacheInv, DataType, ReadsHaveBlock, ioVars, deviceVars
<1> QED
  BY <1>0, <1>1, <1>7, <1>9, <1>10, Assemble DEF Relying

-----------------------------------------------------------------------------
(* The device.                                                             *)

\* read_endio and write_endio change no reference and no place in the index.
LEMMA ReadDoneCache ==
  ASSUME ThreadsInv, CacheInv, NEW b \in Buffers, ReadDone(b)
  PROVE  CacheInv'
<1>1. buf[b] \in Buffer /\ io[b] \in Request /\ io[b].block \in Blocks /\ disk \in Snapshot
  BY DEF ReadDone, CacheInv, IndexInv, DataType, ReadsHaveBlock
<1>2. disk[io[b].block] \in Gens /\ buf[b].state \ {"reading"} \in SUBSET Bits
      /\ buf[b].err \ {"read"} \in SUBSET {"read", "write"}
      /\ buf[b].err \cup {"read"} \in SUBSET {"read", "write"}
  BY <1>1 DEF Snapshot, Buffer
<1>3. SameIndex /\ buf' \in [Buffers -> Buffer]
  <2>1. ASSUME NEW e \in SUBSET {"read", "write"}, NEW g \in Gens,
               buf' = [buf EXCEPT ![b].state = @ \ {"reading"}, ![b].err = e, ![b].gen = g]
        PROVE  SameIndex /\ buf' \in [Buffers -> Buffer]
    <3> DEFINE x == [buf[b] EXCEPT !.state = @ \ {"reading"}, !.err = e, !.gen = g]
    <3>1. x \in Buffer /\ x.where = buf[b].where /\ x.block = buf[b].block /\ x.hold = buf[b].hold
      BY <1>1, <1>2 DEF Buffer
    <3>2. buf' = [buf EXCEPT ![b] = x]
      BY <2>1
    <3> HIDE DEF x
    <3> QED
      BY <3>1, <3>2, BitsFacts
  <2>2. ASSUME NEW e \in SUBSET {"read", "write"},
               buf' = [buf EXCEPT ![b].state = @ \ {"reading"}, ![b].err = e]
        PROVE  SameIndex /\ buf' \in [Buffers -> Buffer]
    <3> DEFINE x == [buf[b] EXCEPT !.state = @ \ {"reading"}, !.err = e]
    <3>1. x \in Buffer /\ x.where = buf[b].where /\ x.block = buf[b].block /\ x.hold = buf[b].hold
      BY <1>1, <1>2 DEF Buffer
    <3>2. buf' = [buf EXCEPT ![b] = x]
      BY <2>2
    <3> HIDE DEF x
    <3> QED
      BY <3>1, <3>2, BitsFacts
  <2>3. CASE buf' = [buf EXCEPT ![b].state = @ \ {"reading"}, ![b].err = @ \ {"read"},
                                  ![b].gen = disk[io[b].block]]
    BY <1>1, <1>2, <2>1, <2>3 DEF Buffer
  <2>4. CASE buf' = [buf EXCEPT ![b].state = @ \ {"reading"}, ![b].err = @ \cup {"read"}]
    BY <1>1, <1>2, <2>2, <2>4 DEF Buffer
  <2> QED
    BY <2>3, <2>4 DEF ReadDone
<1>4. io' \in [Buffers -> Request] /\ ReadsHaveBlock'
  BY MaxGenAssumption DEF ReadDone, NoRequest, CacheInv, DataType, ReadsHaveBlock, Request, Gens
<1>5. DataType'
  BY <1>4 DEF ReadDone, CacheInv, DataType, deviceVars
<1>6. UNCHANGED <<pc, loc>>
  BY DEF ReadDone
<1> QED
  BY <1>3, <1>4, <1>5, <1>6, BitsOnly

\* WriteDone changes bits, errors and contents only.
LEMMA WriteDoneCache ==
  ASSUME ThreadsInv, CacheInv, NEW b \in Buffers, WriteDone(b)
  PROVE  CacheInv'
<1>1. /\ buf[b] \in Buffer /\ io[b] \in Request /\ disk \in Snapshot
      /\ io[b].block \in Blocks \cup {NoBlock} /\ io[b].gen \in Gens
  BY DEF CacheInv, IndexInv, DataType, Request
<1>2. PICK e \in SUBSET {"read", "write"} :
        buf' = [buf EXCEPT ![b].state = Written(@), ![b].err = e]
  <2>1. buf[b].err \ {"write"} \in SUBSET {"read", "write"}
        /\ buf[b].err \cup {"write"} \in SUBSET {"read", "write"}
    BY <1>1 DEF Buffer
  <2>2. CASE buf' = [buf EXCEPT ![b].state = Written(@), ![b].err = @ \ {"write"}]
    BY <1>1, <2>1, <2>2 DEF Buffer
  <2>3. CASE buf' = [buf EXCEPT ![b].state = Written(@), ![b].err = @ \cup {"write"}]
    BY <1>1, <2>1, <2>3 DEF Buffer
  <2> QED
    BY <2>2, <2>3 DEF WriteDone
<1>3. SameIndex /\ buf' \in [Buffers -> Buffer]
  <2> DEFINE x == [buf[b] EXCEPT !.state = Written(@), !.err = e]
  <2>1. Written(buf[b].state) \in SUBSET Bits
    BY <1>1 DEF Buffer, Written
  <2>2. x \in Buffer /\ x.where = buf[b].where /\ x.block = buf[b].block /\ x.hold = buf[b].hold
    BY <1>1, <2>1 DEF Buffer
  <2>3. buf' = [buf EXCEPT ![b] = x]
    BY <1>2
  <2> HIDE DEF x
  <2> QED
    BY <2>2, <2>3, BitsFacts
<1>4. io' \in [Buffers -> Request] /\ ReadsHaveBlock'
  BY MaxGenAssumption DEF WriteDone, NoRequest, CacheInv, DataType, ReadsHaveBlock, Request, Gens
<1>5. disk' \in Snapshot
  BY <1>1 DEF WriteDone, Snapshot
<1>6. DataType'
  BY <1>1, <1>4, <1>5 DEF WriteDone, CacheInv, DataType
<1>7. UNCHANGED <<pc, loc>>
  BY DEF WriteDone
<1> QED
  BY <1>3, <1>4, <1>6, <1>7, BitsOnly

-----------------------------------------------------------------------------
(* Layer 3: bits, lists, requests.                                          *)

\* The control points at which a thread has promised nothing, has no buffer that
\* may be unread, and borrows no buffer to another block.
PlainPoints == Points \ {"wb", "link", "flush", "submit", "wait", "release", "movecopy"}

\* What a step of t does to its promises and to its reference.
PromiseKept(t, l, s) ==
  /\ s.wl = loc[t].wl /\ (s.wl # {} => l \in {"wb", "link", "flush"})
  /\ Submitting(l, s) <=> Submitting(pc[t], loc[t])
  /\ Submitting(l, s) => s.mine = loc[t].mine
  /\ s.mine \in Buffers /\ ~Reading(l, s) => "reading" \notin buf[s.mine].state
  /\ pc[t] = "movecopy" => "writing" \notin buf[loc[t].mine].state

\* A step that sets and clears no bit, and submits and ends no request.
LEMMA BitsFrame ==
  ASSUME ThreadsInv, BitsInv, NEW t \in Threads, NEW l, NEW s, Go(t, l, s), PromiseKept(t, l, s),
         UNCHANGED io,
         \A b \in Buffers : /\ buf'[b].state = buf[b].state
                            /\ io[b].rw = "none" \/ buf'[b].block = buf[b].block
                            /\ buf'[b].where = buf[b].where \/ BitsOfList(b)'
  PROVE  BitsInv'
<1>1. /\ pc'[t] = l /\ loc'[t] = s
      /\ \A u \in Threads \ {t} : pc'[u] = pc[u] /\ loc'[u] = loc[u]
  BY GoFacts
<1>2. \A b \in Buffers : BitsOfList(b) /\ RequestOfBits(b) /\ Promised(b)
  BY DEF BitsInv
<1>3. ASSUME NEW b \in Buffers PROVE BitsOfList(b)'
  <2>1. CASE buf'[b].where = buf[b].where
    <3>1. b \in Linked' <=> b \in Linked
      BY <2>1 DEF Linked
    <3>2. "writing" \in buf'[b].state /\ buf'[b].where = "clean" =>
            \E u \in Threads : pc'[u] = "movecopy" /\ loc'[u].mine = b
      BY <1>1, <1>2, <2>1 DEF BitsOfList, PromiseKept
    <3> QED
      BY <1>2, <2>1, <3>1, <3>2 DEF BitsOfList
  <2> QED
    BY <2>1
<1>4. ASSUME NEW b \in Buffers PROVE RequestOfBits(b)'
  BY <1>2 DEF RequestOfBits, NoRequest
<1>5. ASSUME NEW b \in Buffers PROVE Promised(b)'
  <2>1. "reading" \in buf[b].state /\ io[b].rw # "read" =>
          \E u \in Threads : Submitting(pc'[u], loc'[u]) /\ loc'[u].mine = b
    BY <1>1, <1>2 DEF Promised, PromiseKept
  <2>2. "writing" \in buf[b].state /\ io[b].rw # "write" => \E u \in Threads : b \in loc'[u].wl
    BY <1>1, <1>2 DEF Promised, PromiseKept
  <2> QED
    BY <2>1, <2>2 DEF Promised, Submitting
<1>6. ASSUME NEW u \in Threads PROVE Promises(pc[u], loc[u])'
  <2>0. Promises(pc[u], loc[u]) /\ Promises(pc[t], loc[t]) /\ loc[u].wl \subseteq Buffers
        /\ (Submitting(pc[u], loc[u]) => loc[u].mine \in Buffers)
        /\ (Submitting(pc[t], loc[t]) => loc[t].mine \in Buffers) /\ loc[t].wl \subseteq Buffers
    BY ThreadFacts DEF BitsInv, Locals, Submitting, ThreadOK, Possession, Continuation
  <2>1. CASE u = t
    <3>1. \A b \in s.wl : "writing" \in buf'[b].state /\ io'[b].rw # "write"
      BY <2>0 DEF Promises, PromiseKept
    <3>2. Submitting(l, s) => "reading" \in buf'[s.mine].state /\ io'[s.mine].rw # "read"
      BY <2>0 DEF Promises, PromiseKept
    <3>3. s.mine \in Buffers /\ ~Reading(l, s) => "reading" \notin buf'[s.mine].state
      BY DEF PromiseKept
    <3> QED
      BY <1>1, <2>1, <3>1, <3>2, <3>3 DEF Promises, PromiseKept, Submitting, Reading
  <2>2. CASE u # t
    BY <1>1, <2>0, <2>2 DEF Promises, Submitting, Reading
  <2> QED
    BY <2>1, <2>2
<1>7. PromisedOnce'
  <2>1. PromisedOnce
    BY DEF BitsInv
  <2>2. \A u \in Threads : loc'[u].wl = loc[u].wl
    BY <1>1 DEF PromiseKept
  <2>3. \A u \in Threads : Submitting(pc'[u], loc'[u]) =>
          Submitting(pc[u], loc[u]) /\ loc'[u].mine = loc[u].mine
    BY <1>1 DEF PromiseKept
  <2>4. \A u, v \in Threads : u # v =>
          /\ loc'[u].wl \cap loc'[v].wl = {}
          /\ Submitting(pc'[u], loc'[u]) /\ Submitting(pc'[v], loc'[v]) => loc'[u].mine # loc'[v].mine
    BY <2>1, <2>2, <2>3 DEF PromisedOnce
  <2> QED
    BY <2>4 DEF PromisedOnce, Submitting
<1> QED
  BY <1>3, <1>4, <1>5, <1>6, <1>7 DEF BitsInv

\* A thread that has promised nothing goes where it submits nothing.
LEMMA PlainKept ==
  ASSUME ThreadsInv, BitsInv, NEW t \in Threads, NEW l, NEW s, pc[t] \in PlainPoints,
         s.wl = loc[t].wl, s.mine = loc[t].mine, ~Submitting(l, s)
  PROVE  PromiseKept(t, l, s)
<1>1. Promises(pc[t], loc[t])
  BY DEF BitsInv
<1>2. loc[t].wl = {} /\ ~Submitting(pc[t], loc[t]) /\ ~Reading(pc[t], loc[t])
  BY <1>1 DEF Promises, Submitting, Reading, PlainPoints
<1> QED
  BY <1>1, <1>2 DEF Promises, PromiseKept, PlainPoints

\* A step that changes no buffer ...
LEMMA BitsStill ==
  ASSUME ThreadsInv, BitsInv, NEW t \in Threads, NEW l, NEW s, Go(t, l, s), PromiseKept(t, l, s),
         UNCHANGED <<io, buf>>
  PROVE  BitsInv'
BY BitsFrame

\* A request in flight is for a buffer with a bit.
LEMMA NoBitsNoRequest ==
  ASSUME CacheInv, BitsInv, NEW b \in Buffers, buf[b].state = {}
  PROVE  io[b] = NoRequest /\ io[b].rw = "none"
<1>1. RequestOfBits(b) /\ io[b].rw \in {"none", "read", "write"}
  BY DEF BitsInv, CacheInv, DataType, Request
<1> QED
  BY <1>1 DEF RequestOfBits

\* ... and one that changes the place of one buffer, or its references.
LEMMA BitsOfOne ==
  ASSUME ThreadsInv, CacheInv, BitsInv, NEW t \in Threads, NEW l, NEW s, Go(t, l, s),
         PromiseKept(t, l, s), UNCHANGED io,
         NEW b \in Buffers, \A c \in Buffers \ {b} : buf'[c] = buf[c],
         buf'[b].state = buf[b].state, buf[b].state = {} \/ buf'[b].block = buf[b].block,
         buf'[b].where = buf[b].where \/ BitsOfList(b)'
  PROVE  BitsInv'
<1>1. io[b].rw = "none" \/ buf'[b].block = buf[b].block
  BY NoBitsNoRequest
<1> QED
  BY <1>1, BitsFrame

\* __relink_lru: the list is the one the bits ask for.
LEMMA BitsRelink ==
  ASSUME ThreadsInv, CacheInv, BitsInv, NEW t \in Threads, NEW l, NEW s, Go(t, l, s),
         PromiseKept(t, l, s), UNCHANGED io, NEW b \in Linked, NEW r \in Buffer,
         r.block = buf[b].block, r.state = buf[b].state,
         Link(b, r, ListFor(r.state))
  PROVE  BitsInv'
<1>1. /\ b \in Buffers /\ b \in Linked' /\ buf'[b] = [r EXCEPT !.where = ListFor(r.state)]
      /\ \A c \in Buffers \ {b} : buf'[c] = buf[c]
  BY LinkFacts, ListForTyped DEF Linked
<1>2. buf'[b].state = buf[b].state /\ buf'[b].block = buf[b].block /\ buf'[b].where = ListFor(r.state)
  BY <1>1 DEF Buffer
<1>3. BitsOfList(b)
  BY <1>1 DEF BitsInv
<1>4. BitsOfList(b)'
  BY <1>1, <1>2, <1>3 DEF BitsOfList, ListFor
<1> QED
  BY <1>1, <1>2, <1>4, BitsOfOne

\* Settle is such a step, or leaves the buffer where it is.
LEMMA BitsSettle ==
  ASSUME ThreadsInv, CacheInv, BitsInv, NEW t \in Threads, NEW l, NEW s, Go(t, l, s),
         PromiseKept(t, l, s), UNCHANGED io, NEW b \in Linked, NEW r \in Buffer,
         r.block = buf[b].block, r.state = buf[b].state, r.where = buf[b].where, Settle(b, r)
  PROVE  BitsInv'
<1>1. CASE ListFor(r.state) = "clean"
  BY <1>1, BitsRelink DEF Settle
<1>2. CASE buf' = [buf EXCEPT ![b] = r]
  <2>1. b \in Buffers /\ buf'[b] = r /\ \A c \in Buffers \ {b} : buf'[c] = buf[c]
    BY <1>2 DEF Linked, CacheInv, IndexInv
  <2> QED
    BY <2>1, BitsOfOne
<1> QED
  BY <1>1, <1>2 DEF Settle

\* __free_buffer_wake: an idle buffer goes away.
LEMMA BitsFree ==
  ASSUME ThreadsInv, CacheInv, BitsInv, NEW t \in Threads, NEW l, NEW s, Go(t, l, s),
         PromiseKept(t, l, s), UNCHANGED io, NEW b \in Buffers, buf[b].state = {},
         FreeBufferWake(b)
  PROVE  BitsInv'
<1>1. PICK p \in {"free", "reserved"} : buf' = [buf EXCEPT ![b] = Blank(p)]
  BY DEF FreeBufferWake
<1>2. /\ buf'[b] = Blank(p) /\ \A c \in Buffers \ {b} : buf'[c] = buf[c]
      /\ buf'[b].state = {}
  BY <1>1 DEF CacheInv, IndexInv, Blank
<1>3. BitsOfList(b)'
  BY <1>2 DEF BitsOfList
<1> QED
  BY <1>2, <1>3, BitsOfOne

\* An idle buffer is taken for another block.
LEMMA BitsTake ==
  ASSUME ThreadsInv, CacheInv, BitsInv, NEW t \in Threads, NEW l, NEW s, Go(t, l, s),
         PromiseKept(t, l, s), UNCHANGED io, NEW b \in Buffers, buf[b].state = {}, Take(b)
  PROVE  BitsInv'
<1>1. /\ buf' = [buf EXCEPT ![b] = [buf[b] EXCEPT !.where = "hand", !.block = NoBlock]]
      /\ buf[b] \in Buffer /\ buf \in [Buffers -> Buffer]
  BY DEF Take, CacheInv, IndexInv
<1>2. buf'[b].state = {} /\ \A c \in Buffers \ {b} : buf'[c] = buf[c]
  BY <1>1 DEF Buffer
<1>3. BitsOfList(b)'
  BY <1>2 DEF BitsOfList
<1> QED
  BY <1>2, <1>3, BitsOfOne

\* What other threads have promised is about other buffers than one without
\* bits of I/O; the bits of that one may change, and a write of it may start.
LEMMA BitsChange ==
  ASSUME ThreadsInv, CacheInv, BitsInv, NEW t \in Threads, NEW l, NEW s, Go(t, l, s),
         PromiseKept(t, l, s), NEW b \in Buffers, "reading" \notin buf[b].state,
         \A c \in Buffers \ {b} : buf'[c] = buf[c] /\ io'[c] = io[c],
         "reading" \notin buf'[b].state, BitsOfList(b)', RequestOfBits(b)',
         \/ io'[b] = io[b] /\ ("writing" \in buf'[b].state <=> "writing" \in buf[b].state)
         \/ io'[b].rw = "write" /\ "writing" \notin buf[b].state
  PROVE  BitsInv'
<1>1. /\ pc'[t] = l /\ loc'[t] = s
      /\ \A u \in Threads \ {t} : pc'[u] = pc[u] /\ loc'[u] = loc[u]
  BY GoFacts
<1>2. \A u \in Threads : Submitting(pc[u], loc[u]) => loc[u].mine # b
  BY DEF BitsInv, Promises
<1>3. ASSUME NEW c \in Buffers PROVE BitsOfList(c)' /\ RequestOfBits(c)' /\ Promised(c)'
  <2>1. BitsOfList(c) /\ RequestOfBits(c) /\ Promised(c)
    BY DEF BitsInv
  <2>2. CASE c = b
    <3>1. "writing" \in buf'[b].state /\ io'[b].rw # "write" => \E u \in Threads : b \in loc'[u].wl
      BY <1>1, <2>1, <2>2 DEF Promised, PromiseKept
    <3> QED
      BY <2>2, <3>1 DEF Promised
  <2>3. CASE c # b
    <3>1. buf'[c] = buf[c] /\ io'[c] = io[c] /\ (c \in Linked' <=> c \in Linked)
      BY <2>3 DEF Linked
    <3>2. BitsOfList(c)'
      <4>1. "writing" \in buf[c].state /\ buf[c].where = "clean" =>
              \E u \in Threads : pc'[u] = "movecopy" /\ loc'[u].mine = c
        BY <1>1, <2>1 DEF BitsOfList, PromiseKept
      <4> QED
        BY <2>1, <3>1, <4>1 DEF BitsOfList
    <3>3. RequestOfBits(c)'
      BY <2>1, <3>1 DEF RequestOfBits, NoRequest
    <3>4. "reading" \in buf[c].state /\ io[c].rw # "read" =>
            \E u \in Threads : Submitting(pc'[u], loc'[u]) /\ loc'[u].mine = c
      BY <1>1, <2>1 DEF Promised, PromiseKept
    <3>5. "writing" \in buf[c].state /\ io[c].rw # "write" => \E u \in Threads : c \in loc'[u].wl
      BY <1>1, <2>1 DEF Promised, PromiseKept
    <3> QED
      BY <3>1, <3>2, <3>3, <3>4, <3>5 DEF Promised, Submitting
  <2> QED
    BY <2>2, <2>3
<1>4. ASSUME NEW u \in Threads PROVE Promises(pc[u], loc[u])'
  <2>0. /\ Promises(pc[u], loc[u]) /\ Promises(pc[t], loc[t]) /\ loc[u].wl \subseteq Buffers
        /\ (Submitting(pc[u], loc[u]) => loc[u].mine \in Buffers) /\ loc[t].wl \subseteq Buffers
        /\ (Submitting(pc[t], loc[t]) => loc[t].mine \in Buffers)
    BY ThreadFacts DEF BitsInv, Locals, Submitting, ThreadOK, Possession, Continuation
  <2>1. \A c \in loc[u].wl : "writing" \in buf'[c].state /\ io'[c].rw # "write"
    BY <2>0 DEF Promises
  <2>2. CASE u = t
    <3>1. \A c \in s.wl : "writing" \in buf'[c].state /\ io'[c].rw # "write"
      BY <2>1, <2>2 DEF PromiseKept
    <3>2. Submitting(l, s) => "reading" \in buf'[s.mine].state /\ io'[s.mine].rw # "read"
      BY <1>2, <2>0 DEF Promises, PromiseKept
    <3>3. s.mine \in Buffers /\ ~Reading(l, s) => "reading" \notin buf'[s.mine].state
      BY DEF PromiseKept
    <3> QED
      BY <1>1, <2>2, <3>1, <3>2, <3>3 DEF Promises, PromiseKept, Submitting, Reading
  <2>3. CASE u # t
    <3>1. pc'[u] = pc[u] /\ loc'[u] = loc[u]
      BY <1>1, <2>3
    <3>2. Submitting(pc[u], loc[u]) => "reading" \in buf'[loc[u].mine].state /\ io'[loc[u].mine].rw # "read"
      BY <1>2, <2>0 DEF Promises
    <3>3. loc[u].mine \in Buffers /\ ~Reading(pc[u], loc[u]) => "reading" \notin buf'[loc[u].mine].state
      BY <2>0 DEF Promises
    <3> QED
      BY <2>0, <2>1, <3>1, <3>2, <3>3 DEF Promises, Submitting, Reading
  <2> QED
    BY <2>2, <2>3
<1>5. PromisedOnce'
  <2>1. PromisedOnce
    BY DEF BitsInv
  <2>2. \A u \in Threads : loc'[u].wl = loc[u].wl
    BY <1>1 DEF PromiseKept
  <2>3. \A u \in Threads : Submitting(pc'[u], loc'[u]) =>
          Submitting(pc[u], loc[u]) /\ loc'[u].mine = loc[u].mine
    BY <1>1 DEF PromiseKept
  <2>4. \A u, v \in Threads : u # v =>
          /\ loc'[u].wl \cap loc'[v].wl = {}
          /\ Submitting(pc'[u], loc'[u]) /\ Submitting(pc'[v], loc'[v]) => loc'[u].mine # loc'[v].mine
    BY <2>1, <2>2, <2>3 DEF PromisedOnce
  <2> QED
    BY <2>4 DEF PromisedOnce, Submitting
<1> QED
  BY <1>3, <1>4, <1>5 DEF BitsInv

-----------------------------------------------------------------------------
(* Getting a buffer.                                                       *)

\* What is true of a thread that has promised nothing.
LEMMA PlainFacts ==
  ASSUME ThreadsInv, BitsInv, NEW t \in Threads, pc[t] \in PlainPoints
  PROVE  /\ loc[t].wl = {} /\ ~Submitting(pc[t], loc[t]) /\ pc[t] # "movecopy"
         /\ loc[t].mine \in Buffers => "reading" \notin buf[loc[t].mine].state
<1>1. Promises(pc[t], loc[t])
  BY DEF BitsInv
<1> QED
  BY <1>1 DEF Promises, Submitting, Reading, PlainPoints

\* A thread that has promised nothing gets a buffer, read or not, or gives one back.
LEMMA PlainTakes ==
  ASSUME ThreadsInv, BitsInv, NEW t \in Threads, NEW l, NEW s, pc[t] \in PlainPoints,
         s.wl = {}, ~Submitting(l, s), s.mine \notin Buffers \/ Reading(l, s)
  PROVE  PromiseKept(t, l, s)
BY PlainFacts DEF PromiseKept

\* BufioNew takes a reference, to a buffer read or not, or changes no buffer.
LEMMA BufioNewBits ==
  ASSUME ThreadsInv, CacheInv, BitsInv, NEW t \in Threads, NEW r \in Locals, BufioNew(t, r),
         r.call \in Getting, r.mine = NoBuffer, r.wl = {}, pc[t] \in PlainPoints, UNCHANGED io
  PROVE  BitsInv'
<1>1. ASSUME NEW b \in Find(r.blk), Link(b, [buf[b] EXCEPT !.hold = @ + 1], ListFor(buf[b].state)),
             Go(t, "wait", [r EXCEPT !.mine = b])
      PROVE  BitsInv'
  <2> DEFINE x == [buf[b] EXCEPT !.hold = @ + 1]
             s == [r EXCEPT !.mine = b]
  <2>1. b \in Linked /\ buf[b] \in Buffer
    BY DEF Find, Linked, CacheInv, IndexInv
  <2>2. x \in Buffer /\ x.block = buf[b].block /\ x.state = buf[b].state
    BY <2>1 DEF Buffer
  <2>3. s.wl = {} /\ s.call \in Getting
    BY DEF Locals
  <2>4. PromiseKept(t, "wait", s)
    BY <2>3, PlainTakes DEF Reading, Submitting
  <2> HIDE DEF x, s
  <2>5. Link(b, x, ListFor(x.state)) /\ Go(t, "wait", s)
    BY <1>1, <2>2 DEF x, s
  <2> QED
    BY <2>1, <2>2, <2>4, <2>5, BitsRelink
<1>2. ASSUME UNCHANGED buf, NEW l \in {"idle", "lookup", "alloc"}, NEW s,
             s.mine = NoBuffer, s.wl = {}, Go(t, l, s)
      PROVE  BitsInv'
  BY <1>2, PlainTakes, BitsStill, BuffersAssumption DEF Submitting
<1>3. /\ Rest(NoBuffer).mine = NoBuffer /\ Rest(NoBuffer).wl = {}
      /\ [r EXCEPT !.blk = @ + 1, !.left = @ - 1].mine = NoBuffer
      /\ [r EXCEPT !.blk = @ + 1, !.left = @ - 1].wl = {}
  BY DEF Rest, Locals
<1> QED
  BY <1>1, <1>2, <1>3 DEF BufioNew, GiveUp, Return, cacheVars

\* NewRead starts with nothing promised.
LEMMA NewReadBits ==
  ASSUME ThreadsInv, CacheInv, BitsInv, NEW t \in Threads, NEW c \in {"read", "new", "get"},
         NEW k \in Blocks, NewRead(t, c, k)
  PROVE  BitsInv'
<1>1. Wanted(c, k, 0) \in Locals /\ Wanted(c, k, 0).mine = NoBuffer /\ Wanted(c, k, 0).call \in Getting
  BY WantedFacts, BlocksAssumption DEF Getting
<1>2. Wanted(c, k, 0).wl = {} /\ pc[t] \in PlainPoints
  BY DEF Wanted, Rest, NewRead, Call, PlainPoints, Points, Unlocked
<1> QED
  BY <1>1, <1>2, BufioNewBits DEF NewRead, ioVars

\* Prefetch: so does a prefetch.
LEMMA PrefetchBits ==
  ASSUME ThreadsInv, CacheInv, BitsInv, NEW t \in Threads, NEW k \in Blocks,
         NEW n \in PrefetchSizes, Prefetch(t, k, n)
  PROVE  BitsInv'
<1>1. n - 1 \in Nat /\ \A i \in 0 .. n - 1 : k + i \in Blocks
  BY SizesAssumption DEF Prefetch
<1>2. /\ Wanted("prefetch", k, n - 1) \in Locals /\ Wanted("prefetch", k, n - 1).mine = NoBuffer
      /\ Wanted("prefetch", k, n - 1).call \in Getting
  BY <1>1, WantedFacts DEF Getting
<1>3. Wanted("prefetch", k, n - 1).wl = {} /\ pc[t] \in PlainPoints
  BY DEF Wanted, Rest, Prefetch, Call, PlainPoints, Points, Unlocked
<1> QED
  BY <1>2, <1>3, BufioNewBits DEF Prefetch, ioVars

\* Lookup is BufioNew again.
LEMMA LookupBits ==
  ASSUME ThreadsInv, CacheInv, BitsInv, NEW t \in Threads, Lookup(t)
  PROVE  BitsInv'
<1>1. loc[t] \in Locals /\ ThreadOK(pc[t], loc[t])
  BY ThreadFacts
<1>2. At(t, "lookup") \/ (At(t, "relock") /\ loc[t].call = "prefetch")
  BY DEF Lookup
<1>3. pc[t] \in PlainPoints /\ loc[t].call \in Getting /\ loc[t].mine = NoBuffer
  BY <1>1, <1>2 DEF ThreadOK, Possession, Getting, Locals, PlainPoints, Points, Unlocked
<1>4. BufioNew(t, loc[t]) /\ UNCHANGED io
  BY DEF Lookup, ioVars
<1> QED
  BY <1>1, <1>3, <1>4, PlainFacts, BufioNewBits

\* Alloc: a buffer that is free or in the reserve has no bit.
LEMMA AllocBits ==
  ASSUME ThreadsInv, CacheInv, BitsInv, NEW t \in Threads, Alloc(t)
  PROVE  BitsInv'
<1>0. /\ loc[t] \in Locals /\ ThreadOK(pc[t], loc[t]) /\ UNCHANGED io
      /\ pc[t] \in PlainPoints /\ loc[t].wl = {} /\ loc[t].mine = NoBuffer
  <2>1. loc[t] \in Locals /\ ThreadOK(pc[t], loc[t]) /\ At(t, "alloc") /\ UNCHANGED io
    BY ThreadFacts DEF Alloc, ioVars
  <2> QED
    BY <2>1, PlainFacts DEF ThreadOK, Possession, Getting, Locals, PlainPoints, Points
<1>1. ASSUME NEW b \in Buffers, buf[b].where \in {"free", "reserved"}, Take(b),
             Go(t, "recheck", [loc[t] EXCEPT !.newb = b])
      PROVE  BitsInv'
  <2>1. buf[b].state = {}
    BY <1>1 DEF BitsInv, BitsOfList, Linked, Lists
  <2>2. PromiseKept(t, "recheck", [loc[t] EXCEPT !.newb = b])
    BY <1>0, PlainKept DEF Locals, Submitting
  <2> QED
    BY <1>0, <1>1, <2>1, <2>2, BitsTake
<1>2. ASSUME UNCHANGED buf, NEW l \in {"idle", "lookup", "clean", "asleep"}, NEW s,
             s.mine = NoBuffer, s.wl = {}, Go(t, l, s)
      PROVE  BitsInv'
  BY <1>0, <1>2, PlainTakes, BitsStill, BuffersAssumption DEF Submitting
<1>3. CASE GiveUp(t, loc[t]) /\ UNCHANGED cacheVars
  <2>1. /\ Rest(NoBuffer).mine = NoBuffer /\ Rest(NoBuffer).wl = {}
        /\ [loc[t] EXCEPT !.blk = @ + 1, !.left = @ - 1].mine = NoBuffer
        /\ [loc[t] EXCEPT !.blk = @ + 1, !.left = @ - 1].wl = {}
    BY <1>0 DEF Rest, Locals
  <2> QED
    BY <1>2, <1>3, <2>1 DEF GiveUp, Return, cacheVars
<1>4. ASSUME NEW b \in Buffers, UNCHANGED buf,
             Go(t, "clean", [loc[t] EXCEPT !.cur = b, !.then = "alloc"])
      PROVE  BitsInv'
  <2>1. /\ [loc[t] EXCEPT !.cur = b, !.then = "alloc"].mine = NoBuffer
        /\ [loc[t] EXCEPT !.cur = b, !.then = "alloc"].wl = {}
    BY <1>0 DEF Locals
  <2> QED
    BY <1>2, <1>4, <2>1
<1>5. ASSUME UNCHANGED buf, Go(t, "asleep", [loc[t] EXCEPT !.then = "alloc"])
      PROVE  BitsInv'
  <2>1. /\ [loc[t] EXCEPT !.then = "alloc"].mine = NoBuffer
        /\ [loc[t] EXCEPT !.then = "alloc"].wl = {}
    BY <1>0 DEF Locals
  <2> QED
    BY <1>2, <1>5, <2>1
<1> QED
  BY <1>1, <1>3, <1>4, <1>5, UnclaimedFacts DEF Alloc, Lend, List, cacheVars

\* WakeUp: a sleeper has promised nothing.
LEMMA WakeUpBits ==
  ASSUME ThreadsInv, CacheInv, BitsInv, NEW t \in Threads, WakeUp(t)
  PROVE  BitsInv'
<1>0. loc[t] \in Locals /\ ThreadOK(pc[t], loc[t]) /\ At(t, "asleep") /\ UNCHANGED <<buf, io>>
  BY ThreadFacts DEF WakeUp, cacheVars, ioVars
<1>1. PICK s : s = [loc[t] EXCEPT !.then = "idle"]
  OBVIOUS
<1>2. Go(t, loc[t].then, s) /\ s.wl = loc[t].wl /\ s.mine = loc[t].mine
  BY <1>0, <1>1 DEF WakeUp, Locals
<1>3. pc[t] \in PlainPoints /\ ~Submitting(loc[t].then, s)
  BY <1>0 DEF PlainPoints, Points, Unlocked, Submitting, ThreadOK, Continuation
<1> QED
  BY <1>0, <1>2, <1>3, PlainKept, BitsStill

\* Recheck: the buffer in hand has no bit.
LEMMA RecheckBits ==
  ASSUME ThreadsInv, CacheInv, BitsInv, NEW t \in Threads, Recheck(t)
  PROVE  BitsInv'
<1>0. /\ loc[t] \in Locals /\ ThreadOK(pc[t], loc[t]) /\ LockHolderOK(pc[t], loc[t])
      /\ At(t, "recheck") /\ UNCHANGED io
  BY ThreadFacts DEF CacheInv, Recheck, ioVars
<1>1. pc[t] \in PlainPoints
  BY <1>0 DEF PlainPoints, Points
<1>2. CASE FreeBufferWake(loc[t].newb) /\ Go(t, "lookup", [loc[t] EXCEPT !.newb = NoBuffer])
  <2> DEFINE s == [loc[t] EXCEPT !.newb = NoBuffer]
  <2>1. loc[t].newb \in Buffers /\ buf[loc[t].newb].state = {}
    BY <1>0 DEF ThreadOK, Possession, LockHolderOK, InHand, BitsInv, BitsOfList, Linked, Lists
  <2>2. PromiseKept(t, "lookup", s)
    BY <1>0, <1>1, PlainKept DEF Locals, Submitting
  <2> QED
    BY <1>0, <1>2, <2>1, <2>2, BitsFree
<1>3. ASSUME NEW n \in Limits, UNCHANGED cacheVars, Go(t, "watermark", [loc[t] EXCEPT !.lim = n])
      PROVE  BitsInv'
  <2>1. PromiseKept(t, "watermark", [loc[t] EXCEPT !.lim = n])
    BY <1>0, <1>1, PlainKept DEF Locals, Submitting
  <2> QED
    BY <1>0, <1>3, <2>1, BitsStill DEF cacheVars
<1> QED
  BY <1>2, <1>3 DEF Recheck

\* Watermark: nothing changes yet.
LEMMA WatermarkBits ==
  ASSUME ThreadsInv, CacheInv, BitsInv, NEW t \in Threads, Watermark(t)
  PROVE  BitsInv'
<1>0. loc[t] \in Locals /\ At(t, "watermark") /\ UNCHANGED <<buf, io>> /\ pc[t] \in PlainPoints
  BY ThreadFacts DEF Watermark, cacheVars, ioVars, PlainPoints, Points
<1>1. ASSUME NEW l \in {"clean", "link", "wb"}, NEW s, s.wl = loc[t].wl, s.mine = loc[t].mine,
             Go(t, l, s)
      PROVE  BitsInv'
  BY <1>0, <1>1, PlainKept, BitsStill DEF Submitting
<1>2. \A b : /\ [loc[t] EXCEPT !.cur = b, !.then = "watermark"].wl = loc[t].wl
             /\ [loc[t] EXCEPT !.cur = b, !.then = "watermark"].mine = loc[t].mine
             /\ [loc[t] EXCEPT !.walk = b, !.then = "link"].wl = loc[t].wl
             /\ [loc[t] EXCEPT !.walk = b, !.then = "link"].mine = loc[t].mine
  BY <1>0 DEF Locals
<1> QED
  BY <1>1, <1>2 DEF Watermark

\* LinkNew: the new buffer is to be read by its thread, or not at all.
LEMMA LinkNewBits ==
  ASSUME ThreadsInv, CacheInv, BitsInv, NEW t \in Threads, LinkNew(t)
  PROVE  BitsInv'
<1>b. PICK b : b = loc[t].newb
  OBVIOUS
<1> DEFINE st == IF loc[t].call = "new" THEN {} ELSE {"reading"}
<1>0. /\ loc[t] \in Locals /\ ThreadOK(pc[t], loc[t]) /\ LockHolderOK(pc[t], loc[t])
      /\ At(t, "link") /\ UNCHANGED io /\ loc[t].call \in Getting
  BY ThreadFacts DEF CacheInv, LinkNew, ioVars, ThreadOK, Possession
<1>1. b \in Buffers /\ b \notin Linked /\ buf[b].state = {} /\ io[b] = NoRequest /\ io[b].rw = "none"
  BY <1>0, <1>b, NoBitsNoRequest
     DEF ThreadOK, Possession, Inserting, LockHolderOK, InHand, BitsInv, BitsOfList, Linked, Lists
<1>2. /\ buf'[b].state = st /\ buf'[b].where = "clean" /\ b \in Linked'
      /\ \A c \in Buffers \ {b} : buf'[c] = buf[c]
  <2> DEFINE y == [[buf[b] EXCEPT !.block = loc[t].blk, !.hold = 1, !.err = {}, !.state = st]
                     EXCEPT !.where = "clean"]
  <2>1. buf' = [buf EXCEPT ![b] = y] /\ buf[b] \in Buffer /\ buf \in [Buffers -> Buffer]
    BY <1>1, <1>b DEF LinkNew, Link, CacheInv, IndexInv
  <2>2. y.state = st /\ y.where = "clean"
    BY <2>1 DEF Buffer
  <2> HIDE DEF y
  <2> QED
    BY <1>1, <2>1, <2>2 DEF Linked, Lists
<1> HIDE DEF st
<1>3. PICK l, s : /\ Go(t, l, s) /\ s.mine = b /\ s.wl = loc[t].wl /\ s.call = loc[t].call
                  /\ l \in {"flush", "wait", "submit"} /\ (s.wl # {} => l = "flush")
                  /\ Submitting(l, s) <=> loc[t].call # "new"
  <2> DEFINE after == IF loc[t].call = "new" THEN "wait" ELSE "submit"
             s == [loc[t] EXCEPT !.mine = loc[t].newb, !.newb = NoBuffer, !.then = after, !.lim = 0]
             l == IF MustFlush(loc[t]) THEN "flush" ELSE after
  <2>1. Go(t, l, s)
    BY DEF LinkNew
  <2>2. s.mine = b /\ s.wl = loc[t].wl /\ s.call = loc[t].call /\ s.then = after
    BY <1>0, <1>b DEF Locals
  <2>3. Submitting(l, s) <=> loc[t].call # "new"
    BY <2>2 DEF Submitting
  <2> QED
    BY <2>1, <2>2, <2>3 DEF MustFlush
<1>4. /\ pc'[t] = l /\ loc'[t] = s
      /\ \A u \in Threads \ {t} : pc'[u] = pc[u] /\ loc'[u] = loc[u]
  BY <1>3, GoFacts
<1>5. ASSUME NEW u \in Threads \ {t} PROVE loc[u].mine # b /\ b \notin loc[u].wl
  BY <1>1, HeldLinked DEF BitsInv, Promises
<1>6. b \notin loc[t].wl /\ ~Submitting(pc[t], loc[t])
  BY <1>0, <1>1 DEF BitsInv, Promises, Submitting
<1>7. ASSUME NEW c \in Buffers PROVE BitsOfList(c)' /\ RequestOfBits(c)' /\ Promised(c)'
  <2>1. BitsOfList(c) /\ RequestOfBits(c) /\ Promised(c)
    BY DEF BitsInv
  <2>2. CASE c = b
    <3>1. BitsOfList(c)' /\ RequestOfBits(c)'
      BY <1>0, <1>1, <1>2, <2>2 DEF BitsOfList, RequestOfBits, NoRequest, st
    <3>2. "reading" \in buf'[b].state => Submitting(pc'[t], loc'[t]) /\ loc'[t].mine = b
      BY <1>2, <1>3, <1>4 DEF st
    <3> QED
      BY <1>2, <2>2, <3>1, <3>2 DEF Promised, Submitting, st
  <2>3. CASE c # b
    <3>1. buf'[c] = buf[c] /\ io'[c] = io[c] /\ (c \in Linked' <=> c \in Linked)
      BY <1>0, <1>2, <2>3 DEF Linked
    <3>2. RequestOfBits(c)'
      BY <2>1, <3>1 DEF RequestOfBits, NoRequest
    <3>3. BitsOfList(c)'
      BY <1>0, <1>4, <2>1, <3>1 DEF BitsOfList
    <3>4. Promised(c)'
      <4>1. "reading" \in buf[c].state /\ io[c].rw # "read" =>
              \E u \in Threads : Submitting(pc'[u], loc'[u]) /\ loc'[u].mine = c
        BY <1>4, <1>6, <2>1 DEF Promised
      <4>2. "writing" \in buf[c].state /\ io[c].rw # "write" => \E u \in Threads : c \in loc'[u].wl
        BY <1>3, <1>4, <2>1 DEF Promised
      <4> QED
        BY <3>1, <4>1, <4>2 DEF Promised, Submitting
    <3> QED
      BY <3>2, <3>3, <3>4
  <2> QED
    BY <2>2, <2>3
<1>8. ASSUME NEW u \in Threads PROVE Promises(pc[u], loc[u])'
  <2>0. Promises(pc[u], loc[u]) /\ loc[u].wl \subseteq Buffers /\ loc[u].mine \in Buffers \cup {NoBuffer}
        /\ (Submitting(pc[u], loc[u]) => loc[u].mine \in Buffers)
    BY ThreadFacts DEF BitsInv, Locals, Submitting, ThreadOK, Possession, Continuation
  <2>1. CASE u = t
    <3>1. \A c \in s.wl : "writing" \in buf'[c].state /\ io'[c].rw # "write"
      BY <1>0, <1>2, <1>3, <1>6, <2>0, <2>1 DEF Promises
    <3>2. Submitting(l, s) => "reading" \in buf'[b].state /\ io'[b].rw # "read"
      BY <1>0, <1>1, <1>2, <1>3 DEF st
    <3>3. Reading(l, s)
      BY <1>0, <1>3 DEF Reading
    <3> QED
      BY <1>3, <1>4, <2>1, <3>1, <3>2, <3>3 DEF Promises, Submitting, Reading
  <2>2. CASE u # t
    BY <1>0, <1>2, <1>4, <1>5, <2>0, <2>2 DEF Promises, Submitting, Reading
  <2> QED
    BY <2>1, <2>2
<1>9. PromisedOnce'
  <2>1. PromisedOnce
    BY DEF BitsInv
  <2>2. \A u \in Threads : loc'[u].wl = loc[u].wl
    BY <1>3, <1>4
  <2>3. \A u \in Threads \ {t} : /\ Submitting(pc'[u], loc'[u]) => Submitting(pc[u], loc[u])
                                 /\ loc'[u].mine = loc[u].mine /\ loc'[u].mine # b
    BY <1>4, <1>5
  <2>4. \A u, v \in Threads : u # v =>
          /\ loc'[u].wl \cap loc'[v].wl = {}
          /\ Submitting(pc'[u], loc'[u]) /\ Submitting(pc'[v], loc'[v]) => loc'[u].mine # loc'[v].mine
    BY <1>3, <1>4, <2>1, <2>2, <2>3 DEF PromisedOnce
  <2> QED
    BY <2>4 DEF PromisedOnce, Submitting
<1> QED
  BY <1>7, <1>8, <1>9 DEF BitsInv

\* Submit: a request for a buffer that has none yet.
LEMMA SubmitFacts ==
  ASSUME CacheInv, NEW b \in Buffers, NEW rw, NEW g, Submit(b, rw, buf[b].block, g)
  PROVE  /\ io'[b].rw = rw /\ io'[b].block = buf[b].block
         /\ \A c \in Buffers \ {b} : io'[c] = io[c]
BY DEF CacheInv, DataType, Submit

\* Flush: a promise to write becomes a request.
LEMMA FlushBits ==
  ASSUME ThreadsInv, CacheInv, BitsInv, NEW t \in Threads, Flush(t)
  PROVE  BitsInv'
<1>0. /\ loc[t] \in Locals /\ ThreadOK(pc[t], loc[t]) /\ At(t, "flush") /\ UNCHANGED buf
      /\ Promises(pc[t], loc[t])
  BY ThreadFacts DEF Flush, cacheVars, BitsInv
<1>1. ASSUME UNCHANGED io, Return(t, loc[t].mine), loc[t].then = "idle", loc[t].wl = {}
      PROVE  BitsInv'
  <2>1. Rest(loc[t].mine).wl = {} /\ Rest(loc[t].mine).mine = loc[t].mine
    BY DEF Rest
  <2>2. PromiseKept(t, "idle", Rest(loc[t].mine))
    BY <1>0, <1>1, <2>1 DEF PromiseKept, Promises, Submitting, Reading, ThreadOK, Continuation
  <2> QED
    BY <1>0, <1>1, <2>2, BitsStill DEF Return
<1>2. ASSUME UNCHANGED io, Go(t, loc[t].then, loc[t]), loc[t].wl = {}
      PROVE  BitsInv'
  <2>1. PromiseKept(t, loc[t].then, loc[t])
    BY <1>0, <1>2 DEF PromiseKept, Promises, Submitting, Reading, ThreadOK, Continuation
  <2> QED
    BY <1>0, <1>2, <2>1, BitsStill
<1>3. ASSUME NEW b \in loc[t].wl, Submit(b, "write", buf[b].block, buf[b].gen),
             Go(t, "flush", [loc[t] EXCEPT !.wl = @ \ {b}])
      PROVE  BitsInv'
  <2>1. PICK s : s = [loc[t] EXCEPT !.wl = @ \ {b}]
    OBVIOUS
  <2>2. /\ s.wl = loc[t].wl \ {b} /\ s.mine = loc[t].mine /\ s.call = loc[t].call
        /\ s.then = loc[t].then /\ b \in Buffers
    BY <1>0, <2>1 DEF Locals
  <2>3. /\ pc'[t] = "flush" /\ loc'[t] = s
        /\ \A u \in Threads \ {t} : pc'[u] = pc[u] /\ loc'[u] = loc[u]
    BY <1>3, <2>1, GoFacts
  <2>4. /\ io'[b].rw = "write" /\ io'[b].block = buf[b].block
        /\ \A c \in Buffers \ {b} : io'[c] = io[c]
    BY <1>3, <2>2, SubmitFacts
  <2>5. "writing" \in buf[b].state /\ "reading" \notin buf[b].state
    BY <1>0, <2>2 DEF Promises, BitsInv, BitsOfList
  <2>6. \A u \in Threads \ {t} : b \notin loc[u].wl
    BY <1>3 DEF BitsInv, PromisedOnce
  <2>7. ASSUME NEW c \in Buffers PROVE BitsOfList(c)' /\ RequestOfBits(c)' /\ Promised(c)'
    <3>1. BitsOfList(c) /\ RequestOfBits(c) /\ Promised(c)
      BY DEF BitsInv
    <3>2. BitsOfList(c)'
      BY <1>0, <2>3, <3>1 DEF BitsOfList, Linked
    <3>3. RequestOfBits(c)'
      BY <1>0, <2>4, <2>5, <3>1 DEF RequestOfBits, NoRequest
    <3>4. "reading" \in buf[c].state /\ io'[c].rw # "read" =>
            \E u \in Threads : Submitting(pc'[u], loc'[u]) /\ loc'[u].mine = c
      BY <1>0, <2>2, <2>3, <2>4, <2>5, <3>1 DEF Promised, Submitting
    <3>5. "writing" \in buf[c].state /\ io'[c].rw # "write" => \E u \in Threads : c \in loc'[u].wl
      BY <1>0, <2>2, <2>3, <2>4, <3>1 DEF Promised
    <3> QED
      BY <1>0, <3>2, <3>3, <3>4, <3>5 DEF Promised, Submitting
  <2>8. ASSUME NEW u \in Threads PROVE Promises(pc[u], loc[u])'
    <3>0. Promises(pc[u], loc[u]) /\ loc[u].wl \subseteq Buffers
          /\ (Submitting(pc[u], loc[u]) => loc[u].mine \in Buffers)
      BY ThreadFacts DEF BitsInv, Locals, Submitting, ThreadOK, Possession, Continuation
    <3>1. CASE u = t
      BY <1>0, <2>2, <2>3, <2>4, <2>5, <3>0, <3>1 DEF Promises, Submitting, Reading
    <3>2. CASE u # t
      BY <1>0, <2>3, <2>4, <2>5, <2>6, <3>0, <3>2 DEF Promises, Submitting, Reading
    <3> QED
      BY <3>1, <3>2
  <2>9. PromisedOnce'
    <3>1. PromisedOnce
      BY DEF BitsInv
    <3>2. \A u \in Threads : /\ loc'[u].wl \subseteq loc[u].wl /\ loc'[u].mine = loc[u].mine
                             /\ Submitting(pc'[u], loc'[u]) => Submitting(pc[u], loc[u])
      BY <1>0, <2>2, <2>3 DEF Submitting
    <3>3. \A u, v \in Threads : u # v =>
            /\ loc'[u].wl \cap loc'[v].wl = {}
            /\ Submitting(pc'[u], loc'[u]) /\ Submitting(pc'[v], loc'[v]) => loc'[u].mine # loc'[v].mine
      BY <3>1, <3>2 DEF PromisedOnce
    <3> QED
      BY <3>3 DEF PromisedOnce, Submitting
  <2> QED
    BY <2>7, <2>8, <2>9 DEF BitsInv
<1> QED
  BY <1>1, <1>2, <1>3 DEF Flush

\* SubmitRead: the promise to read becomes a request.
LEMMA SubmitReadBits ==
  ASSUME ThreadsInv, CacheInv, BitsInv, NEW t \in Threads, SubmitRead(t)
  PROVE  BitsInv'
<1>b. PICK b : b = loc[t].mine
  OBVIOUS
<1>0. /\ loc[t] \in Locals /\ ThreadOK(pc[t], loc[t]) /\ At(t, "submit") /\ UNCHANGED buf
      /\ Promises(pc[t], loc[t])
  BY ThreadFacts DEF SubmitRead, cacheVars, BitsInv
<1>1. /\ b \in Buffers /\ loc[t].call \in Getting /\ loc[t].wl = {} /\ Submitting(pc[t], loc[t])
      /\ buf[b].state = {"reading"}
  BY <1>0, <1>b DEF ThreadOK, Possession, Promises, Submitting, BitsInv, BitsOfList
<1>2. /\ io'[b].rw = "read" /\ io'[b].block = buf[b].block
      /\ \A c \in Buffers \ {b} : io'[c] = io[c]
  BY <1>1, <1>b, SubmitFacts DEF SubmitRead
<1>3. PICK l \in {"release", "wait"} : Go(t, l, loc[t])
  BY DEF SubmitRead
<1>4. /\ pc'[t] = l /\ loc' = loc
      /\ \A u \in Threads \ {t} : pc'[u] = pc[u]
  BY <1>3, GoFacts DEF Go, ThreadsInv, ThreadsType
<1>5. \A u \in Threads \ {t} : Submitting(pc[u], loc[u]) => loc[u].mine # b
  BY <1>1, <1>b DEF BitsInv, PromisedOnce
<1>6. ASSUME NEW c \in Buffers PROVE BitsOfList(c)' /\ RequestOfBits(c)' /\ Promised(c)'
  <2>1. BitsOfList(c) /\ RequestOfBits(c) /\ Promised(c)
    BY DEF BitsInv
  <2>2. BitsOfList(c)'
    BY <1>0, <1>4, <2>1 DEF BitsOfList, Linked
  <2>3. RequestOfBits(c)'
    BY <1>0, <1>1, <1>2, <2>1 DEF RequestOfBits, NoRequest
  <2>4. "reading" \in buf[c].state /\ io'[c].rw # "read" =>
          \E u \in Threads : Submitting(pc'[u], loc[u]) /\ loc[u].mine = c
    BY <1>2, <1>4, <1>b, <2>1 DEF Promised
  <2>5. "writing" \in buf[c].state /\ io'[c].rw # "write" => \E u \in Threads : c \in loc[u].wl
    BY <1>1, <1>2, <2>1 DEF Promised
  <2> QED
    BY <1>0, <1>4, <2>2, <2>3, <2>4, <2>5 DEF Promised, Submitting
<1>7. ASSUME NEW u \in Threads PROVE Promises(pc[u], loc[u])'
  <2>0. Promises(pc[u], loc[u]) /\ loc[u].wl \subseteq Buffers
        /\ (Submitting(pc[u], loc[u]) => loc[u].mine \in Buffers)
    BY ThreadFacts DEF BitsInv, Locals, Submitting, ThreadOK, Possession, Continuation
  <2>1. CASE u = t
    BY <1>0, <1>1, <1>4, <2>0, <2>1 DEF Promises, Submitting, Reading
  <2>2. CASE u # t
    BY <1>0, <1>1, <1>2, <1>4, <1>5, <2>0, <2>2 DEF Promises, Submitting, Reading
  <2> QED
    BY <2>1, <2>2
<1>8. PromisedOnce'
  <2>1. PromisedOnce
    BY DEF BitsInv
  <2>2. \A u \in Threads : Submitting(pc'[u], loc'[u]) => Submitting(pc[u], loc[u])
    BY <1>4 DEF Submitting
  <2>3. \A u, v \in Threads : u # v =>
          /\ loc'[u].wl \cap loc'[v].wl = {}
          /\ Submitting(pc'[u], loc'[u]) /\ Submitting(pc'[v], loc'[v]) => loc'[u].mine # loc'[v].mine
    BY <1>4, <2>1, <2>2 DEF PromisedOnce
  <2> QED
    BY <2>3 DEF PromisedOnce, Submitting
<1> QED
  BY <1>6, <1>7, <1>8 DEF BitsInv

\* WaitRead: the buffer is read, well or in vain.
LEMMA WaitReadBits ==
  ASSUME ThreadsInv, CacheInv, BitsInv, NEW t \in Threads, WaitRead(t)
  PROVE  BitsInv'
<1>0. /\ loc[t] \in Locals /\ Promises(pc[t], loc[t]) /\ At(t, "wait") /\ UNCHANGED <<buf, io>>
      /\ "reading" \notin buf[loc[t].mine].state
  BY ThreadFacts DEF WaitRead, cacheVars, ioVars, BitsInv
<1>1. loc[t].wl = {}
  BY <1>0 DEF Promises
<1>2. ASSUME NEW l \in {"release", "idle", "overwrite"}, NEW s, s.wl = {}, s.mine = loc[t].mine,
             Go(t, l, s)
      PROVE  BitsInv'
  <2>1. PromiseKept(t, l, s)
    BY <1>0, <1>1, <1>2 DEF PromiseKept, Submitting
  <2> QED
    BY <1>0, <1>2, <2>1, BitsStill
<1>3. Rest(loc[t].mine).wl = {} /\ Rest(loc[t].mine).mine = loc[t].mine
  BY DEF Rest
<1> QED
  BY <1>1, <1>2, <1>3 DEF WaitRead, Return

-----------------------------------------------------------------------------
(* Giving a buffer back, and making it dirty.                              *)

\* ReleaseRef: only an idle buffer is freed.
LEMMA ReleaseRefBits ==
  ASSUME ThreadsInv, CacheInv, BitsInv, NEW t \in Threads, ReleaseRef(t)
  PROVE  BitsInv'
<1>0. /\ loc[t] \in Locals /\ ThreadOK(pc[t], loc[t]) /\ (At(t, "release") \/ At(t, "idle"))
      /\ Promises(pc[t], loc[t]) /\ UNCHANGED io
  BY ThreadFacts DEF ReleaseRef, BitsInv, ioVars
<1>1. PICK b \in Buffers : b = loc[t].mine
  BY <1>0 DEF ReleaseRef, ThreadOK, Possession, Locals
<1>2. buf[b] \in Buffer
  BY <1>1 DEF CacheInv, IndexInv
<1>3. PICK l, s : l \in {"relock", "idle"} /\ s.mine = NoBuffer /\ s.wl = {} /\ Go(t, l, s)
  <2>1. Rest(NoBuffer).mine = NoBuffer /\ Rest(NoBuffer).wl = {}
    BY DEF Rest
  <2>2. /\ Wanted("prefetch", loc[t].blk + 1, loc[t].left - 1).mine = NoBuffer
        /\ Wanted("prefetch", loc[t].blk + 1, loc[t].left - 1).wl = {}
    BY DEF Wanted, Rest
  <2> QED
    BY <2>1, <2>2 DEF ReleaseRef, Return
<1>4. PromiseKept(t, l, s)
  BY <1>0, <1>3, BuffersAssumption DEF PromiseKept, Promises, Submitting
<1>5. CASE Spoiled(b) /\ FreeBufferWake(b)
  BY <1>0, <1>3, <1>4, <1>5, BitsFree DEF Spoiled
<1>6. CASE buf' = [buf EXCEPT ![b] = Unhold(@)]
  <2>1. /\ buf'[b] = [buf[b] EXCEPT !.hold = @ - 1]
        /\ \A c \in Buffers \ {b} : buf'[c] = buf[c]
    BY <1>6 DEF CacheInv, IndexInv, Unhold
  <2>2. buf'[b].state = buf[b].state /\ buf'[b].block = buf[b].block /\ buf'[b].where = buf[b].where
    BY <1>2, <2>1 DEF Buffer
  <2> QED
    BY <1>0, <1>3, <1>4, <2>1, <2>2, BitsOfOne
<1> QED
  BY <1>1, <1>5, <1>6 DEF ReleaseRef

\* A buffer that is not being read gets dirty, and onto the dirty list.
LEMMA BitsDirty ==
  ASSUME ThreadsInv, CacheInv, BitsInv, NEW t \in Threads, NEW l, NEW s, Go(t, l, s),
         PromiseKept(t, l, s), UNCHANGED io, NEW b \in Buffers, "reading" \notin buf[b].state,
         \A c \in Buffers \ {b} : buf'[c] = buf[c],
         buf'[b].state = buf[b].state \cup {"dirty"}, buf'[b].where = "dirty",
         buf'[b].block = buf[b].block \/ "writing" \notin buf[b].state
  PROVE  BitsInv'
<1>1. BitsOfList(b) /\ RequestOfBits(b) /\ io[b].rw \in {"none", "read", "write"}
  BY DEF BitsInv, CacheInv, DataType, Request
<1>2. BitsOfList(b)'
  BY <1>1 DEF BitsOfList, Linked, Lists
<1>3. RequestOfBits(b)'
  BY <1>1 DEF RequestOfBits, NoRequest
<1> QED
  BY <1>2, <1>3, BitsChange

\* MakeDirty: who holds a buffer between two calls has it read.
LEMMA MakeDirtyBits ==
  ASSUME ThreadsInv, CacheInv, BitsInv, NEW t \in Threads, MakeDirty(t), loc[t].mine \in Buffers,
         At(t, "idle") \/ At(t, "overwrite")
  PROVE  BitsInv'
<1>b. PICK b \in Buffers : b = loc[t].mine
  OBVIOUS
<1> DEFINE g == Bump(latest[buf[b].block])
           r == [buf[b] EXCEPT !.state = @ \cup {"dirty"}, !.gen = g]
<1>0. /\ pc[t] \in PlainPoints /\ "reading" \notin buf[b].state /\ UNCHANGED io
      /\ buf[b] \in Buffer /\ BitsOfList(b)
  BY <1>b, PlainFacts DEF PlainPoints, Points, Unlocked, MakeDirty, ioVars, CacheInv, IndexInv, BitsInv
<1>1. PromiseKept(t, "idle", Rest(b))
  <2>1. Rest(b).wl = {} /\ Rest(b).mine = b
    BY DEF Rest
  <2> QED
    BY <1>0, <1>b, <2>1, PlainFacts, PlainKept DEF Submitting
<1>2. /\ r.state = buf[b].state \cup {"dirty"} /\ r.block = buf[b].block /\ r.where = buf[b].where
      /\ [r EXCEPT !.where = "dirty"].state = r.state /\ [r EXCEPT !.where = "dirty"].block = r.block
      /\ [r EXCEPT !.where = "dirty"].where = "dirty"
  BY <1>0 DEF Buffer
<1> HIDE DEF r
<1>3. \/ Link(b, r, "dirty")
      \/ "dirty" \in buf[b].state /\ buf' = [buf EXCEPT ![b] = r]
  BY <1>b DEF MakeDirty, r
<1>4. buf'[b] = [r EXCEPT !.where = "dirty"] \/ (buf'[b] = r /\ "dirty" \in buf[b].state)
  BY <1>3 DEF Link, CacheInv, IndexInv
<1>5. \A c \in Buffers \ {b} : buf'[c] = buf[c]
  BY <1>3 DEF Link, CacheInv, IndexInv
<1>6. buf'[b].state = buf[b].state \cup {"dirty"} /\ buf'[b].block = buf[b].block /\ buf'[b].where = "dirty"
  BY <1>0, <1>2, <1>4 DEF BitsOfList
<1>7. Go(t, "idle", Rest(b))
  BY <1>b DEF MakeDirty, Return
<1> QED
  BY <1>0, <1>1, <1>5, <1>6, <1>7, BitsDirty

\* MarkDirty, between two calls.
LEMMA MarkDirtyBits ==
  ASSUME ThreadsInv, CacheInv, BitsInv, NEW t \in Threads, MarkDirty(t)
  PROVE  BitsInv'
<1>1. loc[t].mine \in Buffers
  BY ThreadFacts DEF MarkDirty, Locals
<1> QED
  BY <1>1, MakeDirtyBits DEF MarkDirty, Call

\* Overwrite, at the end of dm_bufio_new.
LEMMA OverwriteBits ==
  ASSUME ThreadsInv, CacheInv, BitsInv, NEW t \in Threads, Overwrite(t)
  PROVE  BitsInv'
<1>1. loc[t].mine \in Buffers
  BY ThreadFacts DEF Overwrite, ThreadOK, Possession
<1> QED
  BY <1>1, MakeDirtyBits DEF Overwrite

\* A step that moves no thread is a step of any of them to where it is.
LEMMA StaysPut ==
  ASSUME ThreadsInv, BitsInv, NEW t \in Threads, UNCHANGED <<pc, loc>>,
         pc[t] = "movecopy" => "writing" \notin buf[loc[t].mine].state
  PROVE  Go(t, pc[t], loc[t]) /\ PromiseKept(t, pc[t], loc[t])
<1>1. Promises(pc[t], loc[t])
  BY DEF BitsInv
<1> QED
  BY <1>1 DEF Go, ThreadsInv, ThreadsType, PromiseKept, Promises

\* Forget: an idle buffer goes away.
LEMMA ForgetBits ==
  ASSUME ThreadsInv, CacheInv, BitsInv, NEW t \in Threads, NEW k \in Blocks, Forget(t, k)
  PROVE  BitsInv'
<1>1. PICK b \in Find(k) : buf[b].state = {} /\ FreeBufferWake(b)
  BY DEF Forget
<1>2. b \in Buffers /\ UNCHANGED <<pc, loc, io>> /\ At(t, "idle")
  BY DEF Find, Linked, Forget, ioVars, Call
<1> QED
  BY <1>1, <1>2, StaysPut, BitsFree

-----------------------------------------------------------------------------
(* Making a buffer clean, and writing it back.                             *)

\* The write of a dirty buffer starts, and its request is on the way.
LEMMA BitsWrite ==
  ASSUME ThreadsInv, CacheInv, BitsInv, NEW t \in Threads, NEW l, NEW s, Go(t, l, s),
         PromiseKept(t, l, s), NEW b \in Buffers, Writable(b), StartWrite(b), NEW g,
         Submit(b, "write", buf[b].block, g)
  PROVE  BitsInv'
<1>1. BitsOfList(b) /\ buf[b] \in Buffer
  BY DEF BitsInv, CacheInv, IndexInv
<1>2. "reading" \notin buf[b].state /\ buf[b].where = "dirty"
  BY <1>1 DEF BitsOfList, Writable
<1>3. /\ buf'[b] = [buf[b] EXCEPT !.state = Writing(@)] /\ \A c \in Buffers \ {b} : buf'[c] = buf[c]
  BY DEF StartWrite, CacheInv, IndexInv
<1>4. /\ buf'[b].state = Writing(buf[b].state) /\ buf'[b].where = "dirty"
      /\ buf'[b].block = buf[b].block
  BY <1>1, <1>2, <1>3 DEF Buffer
<1>5. /\ io'[b].rw = "write" /\ io'[b].block = buf[b].block
      /\ \A c \in Buffers \ {b} : io'[c] = io[c]
  BY SubmitFacts
<1>6. BitsOfList(b)'
  BY <1>2, <1>4 DEF BitsOfList, Writing, Linked, Lists
<1>7. RequestOfBits(b)'
  BY <1>4, <1>5 DEF RequestOfBits, Writing
<1> QED
  BY <1>2, <1>3, <1>4, <1>5, <1>6, <1>7, BitsChange DEF Writing, Writable

\* CleanWrite: the victim is dirty.
LEMMA CleanWriteBits ==
  ASSUME ThreadsInv, CacheInv, BitsInv, NEW t \in Threads, CleanWrite(t)
  PROVE  BitsInv'
<1>1. PICK b : b = loc[t].cur
  OBVIOUS
<1>2. b \in Buffers /\ UNCHANGED <<pc, loc>> /\ At(t, "clean")
  BY <1>1, ThreadFacts DEF CleanWrite, ThreadOK, Possession
<1>3. Writable(b) /\ StartWrite(b) /\ Submit(b, "write", buf[b].block, buf[b].gen)
  BY <1>1 DEF CleanWrite
<1> QED
  BY <1>2, <1>3, StaysPut, BitsWrite

\* CleanDone: the victim has no bit left.
LEMMA CleanDoneBits ==
  ASSUME ThreadsInv, CacheInv, BitsInv, NEW t \in Threads, CleanDone(t)
  PROVE  BitsInv'
<1>b. PICK b : b = loc[t].cur
  OBVIOUS
<1>0. /\ loc[t] \in Locals /\ ThreadOK(pc[t], loc[t]) /\ At(t, "clean") /\ UNCHANGED io
      /\ b \in Buffers /\ buf[b].state = {} /\ pc[t] \in PlainPoints
  BY <1>b, ThreadFacts DEF CleanDone, ioVars, ThreadOK, Possession, Quiescent, PlainPoints, Points
<1>1. PICK l, s : /\ Go(t, l, s) /\ s.wl = loc[t].wl /\ s.mine = loc[t].mine
                  /\ l \in {"recheck", "watermark", "drop", "move", "scan", "idle"}
  <2>0. loc[t].wl = {}
    BY <1>0, PlainFacts
  <2>1. CASE loc[t].then = "alloc"
    <3>1. Go(t, "recheck", [loc[t] EXCEPT !.newb = loc[t].cur, !.cur = NoBuffer, !.then = "idle"])
      BY <2>1 DEF CleanDone
    <3> QED
      BY <1>0, <3>1 DEF Locals
  <2>2. CASE loc[t].then \in {"watermark", "drop", "move"}
    <3>1. Go(t, loc[t].then, [loc[t] EXCEPT !.cur = NoBuffer, !.then = "idle"])
      BY <2>2 DEF CleanDone
    <3> QED
      BY <1>0, <2>2, <3>1 DEF Locals
  <2>3. CASE loc[t].then = "scan"
    <3> DEFINE r == [loc[t] EXCEPT !.left = @ - 1, !.count = @ - 1, !.cur = NoBuffer]
    <3>1. r.wl = loc[t].wl /\ r.mine = loc[t].mine /\ Rest(r.mine).wl = {} /\ Rest(r.mine).mine = r.mine
      BY <1>0 DEF Locals, Rest
    <3>2. Return(t, r.mine) \/ Go(t, "scan", r)
      BY <2>3 DEF CleanDone, Scanned
    <3> QED
      BY <2>0, <3>1, <3>2 DEF Return
  <2> QED
    BY <2>1, <2>2, <2>3 DEF CleanDone
<1>2. PromiseKept(t, l, s)
  BY <1>0, <1>1, PlainKept DEF Submitting
<1> QED
  BY <1>0, <1>1, <1>2, <1>b, BitsFree, BitsTake DEF CleanDone

\* A thread that has promised nothing goes on, and changes nothing.
LEMMA BitsMoves ==
  ASSUME ThreadsInv, BitsInv, NEW t \in Threads, NEW l, NEW s, Go(t, l, s), UNCHANGED <<buf, io>>,
         pc[t] \in PlainPoints, s.wl = loc[t].wl, s.mine = loc[t].mine,
         l \notin {"submit", "flush"}
  PROVE  BitsInv'
BY PlainKept, BitsStill DEF Submitting

\* WriteAsync starts a walk of the dirty list.
LEMMA WriteAsyncBits ==
  ASSUME ThreadsInv, CacheInv, BitsInv, NEW t \in Threads, WriteAsync(t)
  PROVE  BitsInv'
<1>0. loc[t] \in Locals /\ pc[t] \in PlainPoints /\ UNCHANGED <<buf, io>>
  BY ThreadFacts DEF WriteAsync, Call, PlainPoints, Points, Unlocked, cacheVars, ioVars
<1>1. PICK s : s = [loc[t] EXCEPT !.call = "async", !.walk = List("dirty"), !.then = "idle"]
  OBVIOUS
<1>2. Go(t, "wb", s) /\ s.wl = loc[t].wl /\ s.mine = loc[t].mine
  BY <1>0, <1>1 DEF WriteAsync, StartWriteBack, Locals
<1> QED
  BY <1>0, <1>2, BitsMoves

\* Sync: so does a flush.
LEMMA SyncBits ==
  ASSUME ThreadsInv, CacheInv, BitsInv, NEW t \in Threads, Sync(t)
  PROVE  BitsInv'
<1>0. loc[t] \in Locals /\ pc[t] \in PlainPoints /\ UNCHANGED <<buf, io>>
  BY ThreadFacts DEF Sync, Call, PlainPoints, Points, Unlocked, cacheVars, ioVars
<1>1. PICK s : s = [loc[t] EXCEPT !.call = "sync", !.walk = List("dirty"),
                                  !.then = "relock", !.snap = latest, !.res = FALSE]
  OBVIOUS
<1>2. Go(t, "wb", s) /\ s.wl = loc[t].wl /\ s.mine = loc[t].mine
  BY <1>0, <1>1 DEF Sync, Locals
<1> QED
  BY <1>0, <1>2, BitsMoves

\* A write that starts on a write list: its bit is a promise.
LEMMA BitsPromise ==
  ASSUME ThreadsInv, CacheInv, BitsInv, NEW t \in Threads, NEW b \in Buffers, Writable(b),
         StartWrite(b), UNCHANGED io, At(t, "wb"), NEW s, Go(t, "wb", s),
         s.wl = loc[t].wl \cup {b}, s.mine = loc[t].mine, s.call = loc[t].call
  PROVE  BitsInv'
<1>1. BitsOfList(b) /\ RequestOfBits(b) /\ buf[b] \in Buffer /\ io[b].rw \in {"none", "read", "write"}
  BY DEF BitsInv, CacheInv, IndexInv, DataType, Request
<1>2. "reading" \notin buf[b].state /\ buf[b].where = "dirty" /\ io[b].rw = "none"
  BY <1>1 DEF BitsOfList, RequestOfBits, Writable
<1>3. /\ buf'[b] = [buf[b] EXCEPT !.state = Writing(@)] /\ \A c \in Buffers \ {b} : buf'[c] = buf[c]
  BY DEF StartWrite, CacheInv, IndexInv
<1>4. /\ buf'[b].state = Writing(buf[b].state) /\ buf'[b].where = "dirty"
      /\ "writing" \in buf'[b].state /\ "reading" \notin buf'[b].state
  BY <1>1, <1>2, <1>3 DEF Buffer, Writing
<1>5. /\ pc' = pc /\ loc'[t] = s
      /\ \A u \in Threads \ {t} : loc'[u] = loc[u]
  BY GoFacts DEF Go, ThreadsInv, ThreadsType
<1>6. \A u \in Threads : b \notin loc[u].wl
  BY DEF BitsInv, Promises, Writable
<1>7. ASSUME NEW c \in Buffers PROVE BitsOfList(c)' /\ RequestOfBits(c)' /\ Promised(c)'
  <2>1. BitsOfList(c) /\ RequestOfBits(c) /\ Promised(c)
    BY DEF BitsInv
  <2>2. CASE c = b
    <3>1. BitsOfList(c)'
      BY <1>4, <2>2 DEF BitsOfList, Linked, Lists
    <3>2. RequestOfBits(c)'
      BY <1>2, <2>1, <2>2 DEF RequestOfBits, NoRequest
    <3>3. b \in loc'[t].wl
      BY <1>5
    <3> QED
      BY <1>4, <2>2, <3>1, <3>2, <3>3 DEF Promised
  <2>3. CASE c # b
    <3>1. buf'[c] = buf[c] /\ (c \in Linked' <=> c \in Linked)
      BY <1>3, <2>3 DEF Linked
    <3>2. "writing" \in buf[c].state /\ buf[c].where = "clean" =>
            \E u \in Threads : pc[u] = "movecopy" /\ loc'[u].mine = c
      BY <1>5, <2>1 DEF BitsOfList
    <3>3. BitsOfList(c)'
      BY <1>5, <2>1, <3>1, <3>2 DEF BitsOfList
    <3>4. RequestOfBits(c)'
      BY <2>1, <3>1 DEF RequestOfBits, NoRequest
    <3>5. "reading" \in buf[c].state /\ io[c].rw # "read" =>
            \E u \in Threads : Submitting(pc'[u], loc'[u]) /\ loc'[u].mine = c
      BY <1>5, <2>1 DEF Promised, Submitting
    <3>6. "writing" \in buf[c].state /\ io[c].rw # "write" => \E u \in Threads : c \in loc'[u].wl
      BY <1>5, <2>1 DEF Promised
    <3> QED
      BY <3>1, <3>3, <3>4, <3>5, <3>6 DEF Promised, Submitting
  <2> QED
    BY <2>2, <2>3
<1>8. ASSUME NEW u \in Threads PROVE Promises(pc[u], loc[u])'
  <2>0. /\ Promises(pc[u], loc[u]) /\ loc[u].wl \subseteq Buffers
        /\ (Submitting(pc[u], loc[u]) => loc[u].mine \in Buffers)
    BY ThreadFacts DEF BitsInv, Locals, Submitting, ThreadOK, Possession, Continuation
  <2>1. \A c \in loc[u].wl : "writing" \in buf'[c].state /\ io'[c].rw # "write"
    BY <1>3, <1>6, <2>0 DEF Promises
  <2>2. Submitting(pc[u], loc[u]) => "reading" \in buf'[loc[u].mine].state /\ io'[loc[u].mine].rw # "read"
    BY <1>2, <1>3, <2>0 DEF Promises
  <2>3. loc[u].mine \in Buffers /\ ~Reading(pc[u], loc[u]) => "reading" \notin buf'[loc[u].mine].state
    BY <1>3, <1>4, <2>0 DEF Promises
  <2>4. CASE u = t
    BY <1>2, <1>4, <1>5, <2>0, <2>1, <2>3, <2>4 DEF Promises, Submitting, Reading
  <2>5. CASE u # t
    BY <1>5, <2>0, <2>1, <2>2, <2>3, <2>5 DEF Promises, Submitting, Reading
  <2> QED
    BY <2>4, <2>5
<1>9. PromisedOnce'
  <2>1. PromisedOnce
    BY DEF BitsInv
  <2>2. \A u, v \in Threads : u # v => loc'[u].wl \cap loc'[v].wl = {}
    BY <1>5, <1>6, <2>1 DEF PromisedOnce
  <2>3. \A u \in Threads : /\ Submitting(pc'[u], loc'[u]) => Submitting(pc[u], loc[u])
                           /\ loc'[u].mine = loc[u].mine
    BY <1>5 DEF Submitting
  <2>4. \A u, v \in Threads : u # v =>
          (Submitting(pc'[u], loc'[u]) /\ Submitting(pc'[v], loc'[v]) => loc'[u].mine # loc'[v].mine)
    BY <2>1, <2>3 DEF PromisedOnce
  <2> QED
    BY <2>2, <2>4 DEF PromisedOnce, Submitting
<1> QED
  BY <1>7, <1>8, <1>9 DEF BitsInv

\* WriteBack: each buffer of the walk is clean already, or its write is promised.
LEMMA WriteBackBits ==
  ASSUME ThreadsInv, CacheInv, BitsInv, NEW t \in Threads, WriteBack(t)
  PROVE  BitsInv'
<1>0. /\ loc[t] \in Locals /\ ThreadOK(pc[t], loc[t]) /\ LockHolderOK(pc[t], loc[t])
      /\ At(t, "wb") /\ UNCHANGED io /\ Promises(pc[t], loc[t])
  BY ThreadFacts DEF CacheInv, WriteBack, ioVars, BitsInv
<1>1. \A b \in Oldest(loc[t].walk) : b \in Linked /\ b \in Buffers /\ buf[b] \in Buffer
  BY <1>0 DEF Oldest, LockHolderOK, Walking, Linked, CacheInv, IndexInv
<1>2. ASSUME NEW W, NEW l \in {"wb", "link", "flush"}, NEW s,
             s = [loc[t] EXCEPT !.walk = W] \/ s = loc[t]
      PROVE  PromiseKept(t, l, s) /\ s.mine = loc[t].mine
  <2>1. s.wl = loc[t].wl /\ s.mine = loc[t].mine /\ s.then = loc[t].then /\ s.call = loc[t].call
    BY <1>0, <1>2 DEF Locals
  <2> QED
    BY <1>0, <2>1 DEF PromiseKept, Promises, Submitting, Reading, ThreadOK, Continuation, Possession
<1>3. ASSUME NEW b \in Oldest(loc[t].walk), ListFor(buf[b].state) = "clean",
             Link(b, buf[b], "clean"), Go(t, "wb", [loc[t] EXCEPT !.walk = @ \ {b}])
      PROVE  BitsInv'
  <2>1. PromiseKept(t, "wb", [loc[t] EXCEPT !.walk = @ \ {b}])
    BY <1>2
  <2> QED
    BY <1>0, <1>1, <1>3, <2>1, BitsRelink
<1>4. ASSUME NEW b \in Oldest(loc[t].walk), Writable(b), StartWrite(b),
             Go(t, "wb", [loc[t] EXCEPT !.walk = @ \ {b}, !.wl = @ \cup {b}])
      PROVE  BitsInv'
  <2>1. PICK s : s = [loc[t] EXCEPT !.walk = @ \ {b}, !.wl = @ \cup {b}]
    OBVIOUS
  <2>2. s.wl = loc[t].wl \cup {b} /\ s.mine = loc[t].mine /\ s.call = loc[t].call /\ Go(t, "wb", s)
    BY <1>0, <1>4, <2>1 DEF Locals
  <2> QED
    BY <1>0, <1>1, <1>4, <2>2, BitsPromise
<1>5. ASSUME NEW W, Go(t, "wb", [loc[t] EXCEPT !.walk = W]), UNCHANGED buf
      PROVE  BitsInv'
  <2>1. PromiseKept(t, "wb", [loc[t] EXCEPT !.walk = W])
    BY <1>2
  <2> QED
    BY <1>0, <1>5, <2>1, BitsStill
<1>6. ASSUME NEW l \in {"link", "flush"}, Go(t, l, loc[t]), UNCHANGED buf
      PROVE  BitsInv'
  <2>1. PromiseKept(t, l, loc[t])
    BY <1>2
  <2> QED
    BY <1>0, <1>6, <2>1, BitsStill
<1> QED
  BY <1>3, <1>4, <1>5, <1>6 DEF WriteBack

-----------------------------------------------------------------------------
(* Flushing.                                                               *)

\* What a flush is about when it visits, parks or waits.
LEMMA FlushFacts ==
  ASSUME ThreadsInv, CacheInv, NEW t \in Threads,
         pc[t] \in {"xchg", "issueflush", "sync", "park", "syncwait", "syncrelock"}
  PROVE  /\ loc[t] \in Locals /\ pc[t] \in PlainPoints
         /\ pc[t] = "sync" => loc[t].walk \subseteq Linked
         /\ pc[t] \in {"park", "syncwait", "syncrelock"} =>
              loc[t].cur \in Linked /\ loc[t].cur \in Buffers /\ buf[loc[t].cur] \in Buffer
<1>1. loc[t] \in Locals /\ ThreadOK(pc[t], loc[t]) /\ LockHolderOK(pc[t], loc[t])
  BY ThreadFacts DEF CacheInv
<1>2. pc[t] = "park" => loc[t].cur \in Linked
  BY <1>1 DEF LockHolderOK, Walking
<1>3. pc[t] \in {"syncwait", "syncrelock"} => loc[t].cur \in Buffers /\ Flushing(pc[t], loc[t]) = loc[t].cur
  BY <1>1 DEF ThreadOK, Possession, Flushing
<1> QED
  BY <1>1, <1>2, <1>3, HeldLinked DEF LockHolderOK, Walking, PlainPoints, Points, Unlocked, Linked,
     CacheInv, IndexInv

\* SyncWalk starts the second walk.
LEMMA SyncWalkBits ==
  ASSUME ThreadsInv, CacheInv, BitsInv, NEW t \in Threads, SyncWalk(t)
  PROVE  BitsInv'
<1>0. loc[t] \in Locals /\ pc[t] \in PlainPoints /\ UNCHANGED <<buf, io>>
  BY ThreadFacts DEF SyncWalk, PlainPoints, Points, Unlocked, cacheVars, ioVars
<1>1. PICK s : s = [loc[t] EXCEPT !.walk = List("dirty")]
  OBVIOUS
<1>2. Go(t, "sync", s) /\ s.wl = loc[t].wl /\ s.mine = loc[t].mine
  BY <1>0, <1>1 DEF SyncWalk, Locals
<1> QED
  BY <1>0, <1>2, BitsMoves

\* SyncVisit holds a buffer that is written, or relinks one that is not.
LEMMA SyncVisitBits ==
  ASSUME ThreadsInv, CacheInv, BitsInv, NEW t \in Threads, SyncVisit(t)
  PROVE  BitsInv'
<1> DEFINE r == [loc[t] EXCEPT !.count = Processed(loc[t])]
<1>0. /\ loc[t] \in Locals /\ pc[t] \in PlainPoints /\ UNCHANGED io
      /\ loc[t].walk \subseteq Linked
  BY FlushFacts DEF SyncVisit, ioVars
<1>1. PICK b \in Oldest(r.walk) :
       \/ /\ buf' = [buf EXCEPT ![b].hold = @ + 1]
          /\ Go(t, "syncwait", [r EXCEPT !.cur = b, !.walk = {}])
       \/ /\ Go(t, "park", [r EXCEPT !.cur = b])
          /\ UNCHANGED <<buf, recent>>
       \/ /\ Settle(b, buf[b])
          /\ Go(t, "sync", [r EXCEPT !.walk = @ \ {b}])
  BY DEF SyncVisit
<1>2. r.walk = loc[t].walk
  BY <1>0 DEF Locals
<1>3. b \in Linked /\ b \in Buffers /\ buf[b] \in Buffer
  BY <1>0, <1>2 DEF Oldest, Linked, CacheInv, IndexInv
<1>4. PICK l, s : /\ Go(t, l, s) /\ l \in {"syncwait", "park", "sync"}
                  /\ s.wl = loc[t].wl /\ s.mine = loc[t].mine
  <2>1. /\ [r EXCEPT !.cur = b, !.walk = {}].wl = loc[t].wl
        /\ [r EXCEPT !.cur = b, !.walk = {}].mine = loc[t].mine
        /\ [r EXCEPT !.cur = b].wl = loc[t].wl /\ [r EXCEPT !.cur = b].mine = loc[t].mine
        /\ [r EXCEPT !.walk = @ \ {b}].wl = loc[t].wl /\ [r EXCEPT !.walk = @ \ {b}].mine = loc[t].mine
    BY <1>0 DEF Locals
  <2> QED
    BY <1>1, <2>1
<1>5. PromiseKept(t, l, s)
  BY <1>0, <1>4, PlainKept DEF Submitting
<1>6. CASE buf' = [buf EXCEPT ![b].hold = @ + 1]
  <2>1. /\ buf'[b] = [buf[b] EXCEPT !.hold = @ + 1] /\ \A c \in Buffers \ {b} : buf'[c] = buf[c]
    BY <1>3, <1>6 DEF CacheInv, IndexInv
  <2>2. buf'[b].state = buf[b].state /\ buf'[b].block = buf[b].block /\ buf'[b].where = buf[b].where
    BY <1>3, <2>1 DEF Buffer
  <2> QED
    BY <1>0, <1>3, <1>4, <1>5, <2>1, <2>2, BitsOfOne
<1>7. CASE Settle(b, buf[b])
  BY <1>0, <1>3, <1>4, <1>5, <1>7, BitsSettle
<1> QED
  BY <1>0, <1>1, <1>4, <1>5, <1>6, <1>7, BitsStill

\* SyncPark relinks the buffer it waited for.
LEMMA SyncParkBits ==
  ASSUME ThreadsInv, CacheInv, BitsInv, NEW t \in Threads, SyncPark(t)
  PROVE  BitsInv'
<1>0. /\ loc[t] \in Locals /\ pc[t] \in PlainPoints /\ UNCHANGED io
      /\ loc[t].cur \in Linked /\ buf[loc[t].cur] \in Buffer
  BY FlushFacts DEF SyncPark, ioVars
<1>1. PICK s : s = [loc[t] EXCEPT !.walk = @ \ {loc[t].cur}, !.cur = NoBuffer]
  OBVIOUS
<1>2. Go(t, "sync", s) /\ s.wl = loc[t].wl /\ s.mine = loc[t].mine
  BY <1>0, <1>1 DEF SyncPark, Locals
<1>3. PromiseKept(t, "sync", s)
  BY <1>0, <1>2, PlainKept DEF Submitting
<1> QED
  BY <1>0, <1>2, <1>3, BitsSettle DEF SyncPark

\* SyncWake changes nothing.
LEMMA SyncWakeBits ==
  ASSUME ThreadsInv, CacheInv, BitsInv, NEW t \in Threads, SyncWake(t)
  PROVE  BitsInv'
<1>0. loc[t] \in Locals /\ pc[t] \in PlainPoints
  BY FlushFacts DEF SyncWake
<1> QED
  BY <1>0, BitsMoves DEF SyncWake, cacheVars, ioVars

\* SyncRelock gives the buffer it waited for back, and relinks it.
LEMMA SyncRelockBits ==
  ASSUME ThreadsInv, CacheInv, BitsInv, NEW t \in Threads, SyncRelock(t)
  PROVE  BitsInv'
<1>b. PICK b : b = loc[t].cur
  OBVIOUS
<1>0. /\ loc[t] \in Locals /\ pc[t] \in PlainPoints /\ UNCHANGED io
      /\ b \in Linked /\ b \in Buffers /\ buf[b] \in Buffer
  BY <1>b, FlushFacts DEF SyncRelock, ioVars
<1>1. PICK s : s = [loc[t] EXCEPT !.cur = NoBuffer,
                      !.walk = {c \in Buffers : buf'[c].where = "dirty"}]
  OBVIOUS
<1>2. Go(t, "sync", s) /\ s.wl = loc[t].wl /\ s.mine = loc[t].mine
  BY <1>0, <1>1 DEF SyncRelock, Locals
<1>3. PromiseKept(t, "sync", s)
  BY <1>0, <1>2, PlainKept DEF Submitting
<1>4. buf[b].hold \in Nat \ {0}
  BY <1>0, <1>b, HeldLinked DEF SyncRelock, Flushing
<1>5. /\ Unhold(buf[b]) \in Buffer /\ Unhold(buf[b]).block = buf[b].block
      /\ Unhold(buf[b]).state = buf[b].state /\ Unhold(buf[b]).where = buf[b].where
  BY <1>0, <1>4 DEF Unhold, Buffer
<1>6. Settle(b, Unhold(buf[b]))
  BY <1>b DEF SyncRelock
<1> QED
  BY <1>0, <1>2, <1>3, <1>5, <1>6, BitsSettle

\* SyncEnd wakes the sleepers.
LEMMA SyncEndBits ==
  ASSUME ThreadsInv, CacheInv, BitsInv, NEW t \in Threads, SyncEnd(t)
  PROVE  BitsInv'
<1>0. loc[t] \in Locals /\ pc[t] \in PlainPoints /\ UNCHANGED <<buf, io>>
  BY FlushFacts DEF SyncEnd, ioVars
<1>1. PICK s : s = [loc[t] EXCEPT !.count = 0]
  OBVIOUS
<1>2. Go(t, "xchg", s) /\ s.wl = loc[t].wl /\ s.mine = loc[t].mine
  BY <1>0, <1>1 DEF SyncEnd, Locals
<1> QED
  BY <1>0, <1>2, BitsMoves

\* TakeError takes the error of the client.
LEMMA TakeErrorBits ==
  ASSUME ThreadsInv, CacheInv, BitsInv, NEW t \in Threads, TakeError(t)
  PROVE  BitsInv'
<1>0. loc[t] \in Locals /\ pc[t] \in PlainPoints /\ UNCHANGED <<buf, io>>
  BY FlushFacts DEF TakeError, cacheVars
<1>1. PICK s : s = [loc[t] EXCEPT !.res = asyncError]
  OBVIOUS
<1>2. Go(t, "issueflush", s) /\ s.wl = loc[t].wl /\ s.mine = loc[t].mine
  BY <1>0, <1>1 DEF TakeError, Locals
<1> QED
  BY <1>0, <1>2, BitsMoves

\* IssueFlush is the end of a flush.
LEMMA IssueFlushBits ==
  ASSUME ThreadsInv, CacheInv, BitsInv, NEW t \in Threads, IssueFlush(t)
  PROVE  BitsInv'
<1>0. loc[t] \in Locals /\ pc[t] \in PlainPoints /\ UNCHANGED <<buf, io>>
  BY FlushFacts DEF IssueFlush, cacheVars, ioVars
<1>1. PICK r : Go(t, "idle", [Rest(loc[t].mine) EXCEPT !.res = r])
  BY DEF IssueFlush
<1>s. PICK s : s = [Rest(loc[t].mine) EXCEPT !.res = r]
  OBVIOUS
<1>2. Go(t, "idle", s) /\ s.wl = {} /\ s.mine = loc[t].mine
  BY <1>1, <1>s DEF Rest
<1> QED
  BY <1>0, <1>1, <1>2, PlainFacts, BitsMoves

-----------------------------------------------------------------------------
(* dm_bufio_release_move.                                                  *)

\* Move starts with the buffer the client has.
LEMMA MoveBits ==
  ASSUME ThreadsInv, CacheInv, BitsInv, NEW t \in Threads, NEW k \in Blocks, Move(t, k)
  PROVE  BitsInv'
<1>0. loc[t] \in Locals /\ pc[t] \in PlainPoints /\ UNCHANGED <<buf, io>>
  BY ThreadFacts DEF Move, Call, PlainPoints, Points, Unlocked, cacheVars, ioVars
<1>1. PICK s : s = [Rest(loc[t].mine) EXCEPT !.call = "move", !.blk = k]
  OBVIOUS
<1>2. Go(t, "move", s) /\ s.wl = {} /\ s.mine = loc[t].mine
  BY <1>1 DEF Move, Rest
<1> QED
  BY <1>0, <1>2, PlainFacts, BitsMoves

\* MoveFind sleeps, cleans a victim or goes on.
LEMMA MoveFindBits ==
  ASSUME ThreadsInv, CacheInv, BitsInv, NEW t \in Threads, MoveFind(t)
  PROVE  BitsInv'
<1>0. loc[t] \in Locals /\ pc[t] \in PlainPoints /\ UNCHANGED <<buf, io>>
  BY ThreadFacts DEF MoveFind, PlainPoints, Points, ioVars
<1>1. PICK l, s : /\ Go(t, l, s) /\ s.wl = loc[t].wl /\ s.mine = loc[t].mine
                  /\ l \in {"asleep", "clean", "movewrite"}
  <2>1. /\ [loc[t] EXCEPT !.then = "move"].wl = loc[t].wl
        /\ [loc[t] EXCEPT !.then = "move"].mine = loc[t].mine
        /\ \A b : /\ [loc[t] EXCEPT !.cur = b, !.then = "move"].wl = loc[t].wl
                  /\ [loc[t] EXCEPT !.cur = b, !.then = "move"].mine = loc[t].mine
    BY <1>0 DEF Locals
  <2> QED
    BY <2>1 DEF MoveFind
<1> QED
  BY <1>0, <1>1, BitsMoves

\* MoveWrite writes the block the buffer is of, if it is dirty.
LEMMA MoveWriteBits ==
  ASSUME ThreadsInv, CacheInv, BitsInv, NEW t \in Threads, MoveWrite(t)
  PROVE  BitsInv'
<1>b. PICK b : b = loc[t].mine
  OBVIOUS
<1>0. /\ loc[t] \in Locals /\ pc[t] \in PlainPoints /\ b \in Buffers /\ Go(t, "relink", loc[t])
  BY <1>b, ThreadFacts DEF MoveWrite, PlainPoints, Points, ThreadOK, Possession, Moving
<1>1. PromiseKept(t, "relink", loc[t])
  BY <1>0, PlainKept DEF Submitting
<1>2. CASE UNCHANGED <<buf, io>>
  BY <1>0, <1>1, <1>2, BitsStill
<1>3. CASE Writable(b) /\ StartWrite(b) /\ Submit(b, "write", buf[b].block, buf[b].gen)
  BY <1>0, <1>1, <1>3, BitsWrite
<1> QED
  BY <1>b, <1>2, <1>3 DEF MoveWrite

\* MoveRelink: the buffer is dirty at its new block, or written there.
LEMMA MoveRelinkBits ==
  ASSUME ThreadsInv, CacheInv, BitsInv, NEW t \in Threads, MoveRelink(t)
  PROVE  BitsInv'
<1>b. PICK b : b = loc[t].mine
  OBVIOUS
<1>k. PICK k, g : k = loc[t].blk /\ g = Bump(latest[k])
  OBVIOUS
<1>0. /\ loc[t] \in Locals /\ pc[t] \in PlainPoints /\ b \in Buffers
      /\ "reading" \notin buf[b].state /\ "writing" \notin buf[b].state
      /\ buf[b] \in Buffer /\ buf \in [Buffers -> Buffer] /\ loc[t].call \notin Getting
  BY <1>b, ThreadFacts, PlainFacts
     DEF MoveRelink, PlainPoints, Points, ThreadOK, Possession, Moving, WriteOver, CacheInv, IndexInv
<1>1. b \in Linked /\ BitsOfList(b)
  BY <1>0, <1>b, HeldLinked DEF BitsInv
<1>2. CASE Link(b, Moved(buf[b], k, g), "dirty") /\ Go(t, "release", loc[t]) /\ UNCHANGED io
  <2>1. buf' = [buf EXCEPT ![b] = [Moved(buf[b], k, g) EXCEPT !.where = "dirty"]]
    BY <1>2 DEF Link
  <2>2. /\ [Moved(buf[b], k, g) EXCEPT !.where = "dirty"].state = buf[b].state \cup {"dirty"}
        /\ [Moved(buf[b], k, g) EXCEPT !.where = "dirty"].where = "dirty"
    BY <1>0 DEF Moved, Buffer
  <2>3. /\ buf'[b].state = buf[b].state \cup {"dirty"} /\ buf'[b].where = "dirty"
        /\ \A c \in Buffers \ {b} : buf'[c] = buf[c]
    BY <1>0, <2>1, <2>2
  <2>4. PromiseKept(t, "release", loc[t])
    BY <1>0, PlainKept DEF Submitting
  <2> QED
    BY <1>0, <1>2, <2>3, <2>4, BitsDirty
<1>3. CASE /\ Link(b, [buf[b] EXCEPT !.block = k, !.state = @ \cup {"writing"}], buf[b].where)
           /\ Submit(b, "write", k, g)
           /\ Go(t, "movecopy", [loc[t] EXCEPT !.blk = buf[b].block])
  <2> DEFINE x == [buf[b] EXCEPT !.block = k, !.state = @ \cup {"writing"}]
             s == [loc[t] EXCEPT !.blk = buf[b].block]
  <2>1. /\ [x EXCEPT !.where = buf[b].where].state = buf[b].state \cup {"writing"}
        /\ [x EXCEPT !.where = buf[b].where].where = buf[b].where
        /\ [x EXCEPT !.where = buf[b].where].block = k
    BY <1>0 DEF Buffer
  <2>2. /\ buf'[b].state = buf[b].state \cup {"writing"} /\ buf'[b].where = buf[b].where
        /\ buf'[b].block = k /\ \A c \in Buffers \ {b} : buf'[c] = buf[c]
    BY <1>0, <1>3, <2>1 DEF Link
  <2>3. io'[b].rw = "write" /\ io'[b].block = k /\ \A c \in Buffers \ {b} : io'[c] = io[c]
    BY <1>0, <1>3 DEF Submit, CacheInv, DataType
  <2>4. s.wl = loc[t].wl /\ s.mine = b
    BY <1>0, <1>b DEF Locals
  <2>5. PromiseKept(t, "movecopy", s)
    BY <1>0, <1>b, <2>4, PlainKept DEF Submitting
  <2>s. Go(t, "movecopy", s)
    BY <1>3
  <2> HIDE DEF x, s
  <2>6. pc'[t] = "movecopy" /\ loc'[t].mine = b
    BY <1>b, <2>4, <2>s, GoFacts
  <2>7. BitsOfList(b)'
    BY <1>0, <1>1, <2>2, <2>6 DEF BitsOfList, Linked
  <2>8. RequestOfBits(b)'
    BY <2>2, <2>3 DEF RequestOfBits
  <2> QED
    BY <1>0, <2>2, <2>3, <2>5, <2>7, <2>8, <2>s, BitsChange
<1> QED
  BY <1>b, <1>k, <1>2, <1>3 DEF MoveRelink

\* MoveCopied: the write is over, the buffer goes back to its block.
LEMMA MoveCopiedBits ==
  ASSUME ThreadsInv, CacheInv, BitsInv, NEW t \in Threads, MoveCopied(t)
  PROVE  BitsInv'
<1>b. PICK b : b = loc[t].mine
  OBVIOUS
<1>0. /\ loc[t] \in Locals /\ At(t, "movecopy") /\ b \in Buffers /\ Go(t, "release", loc[t])
      /\ UNCHANGED io /\ "writing" \notin buf[b].state /\ Promises(pc[t], loc[t])
      /\ buf[b] \in Buffer /\ buf \in [Buffers -> Buffer]
  BY <1>b, ThreadFacts
     DEF MoveCopied, ioVars, ThreadOK, Possession, Moving, WriteOver, BitsInv, CacheInv, IndexInv
<1>1. PromiseKept(t, "release", loc[t]) /\ "reading" \notin buf[b].state
  BY <1>0, <1>b DEF PromiseKept, Promises, Submitting, Reading
<1>2. RequestOfBits(b) /\ io[b].rw \in {"none", "read", "write"}
  BY <1>0 DEF BitsInv, CacheInv, DataType, Request
<1>3. io[b].rw = "none"
  BY <1>0, <1>1, <1>2 DEF RequestOfBits
<1>4. buf' = [buf EXCEPT ![b] = [[buf[b] EXCEPT !.block = loc[t].blk] EXCEPT !.where = buf[b].where]]
  BY <1>b DEF MoveCopied, Link
<1>5. /\ buf'[b].state = buf[b].state /\ buf'[b].where = buf[b].where
      /\ \A c \in Buffers \ {b} : buf'[c] = buf[c]
  BY <1>0, <1>4 DEF Buffer
<1> QED
  BY <1>0, <1>1, <1>3, <1>5, BitsFrame

-----------------------------------------------------------------------------
(* The shrinker, the age worker, and the end of the client.                *)

\* Scan starts a walk of both lists.
LEMMA ScanBits ==
  ASSUME ThreadsInv, CacheInv, BitsInv, NEW t \in Threads, NEW c, NEW n, Scan(t, c, n)
  PROVE  BitsInv'
<1>0. loc[t] \in Locals /\ pc[t] \in PlainPoints /\ UNCHANGED <<buf, io>>
  BY ThreadFacts DEF Scan, Call, PlainPoints, Points, Unlocked, cacheVars, ioVars
<1>1. PICK s : s = [Rest(loc[t].mine) EXCEPT !.call = c, !.walk = Linked, !.left = n, !.count = n]
  OBVIOUS
<1>2. Go(t, "scan", s) /\ s.wl = {} /\ s.mine = loc[t].mine
  BY <1>1 DEF Scan, Rest
<1> QED
  BY <1>0, <1>2, PlainFacts, BitsMoves

\* ScanVisit takes a victim, passes over a buffer, or ends.
LEMMA ScanVisitBits ==
  ASSUME ThreadsInv, CacheInv, BitsInv, NEW t \in Threads, ScanVisit(t)
  PROVE  BitsInv'
<1>0. loc[t] \in Locals /\ pc[t] \in PlainPoints /\ UNCHANGED <<buf, io>>
  BY ThreadFacts DEF ScanVisit, PlainPoints, Points, cacheVars, ioVars
<1>1. PICK l, s : /\ Go(t, l, s) /\ s.wl = loc[t].wl /\ s.mine = loc[t].mine
                  /\ l \in {"idle", "scan", "clean"}
  <2>1. \A b : /\ [loc[t] EXCEPT !.walk = @ \ {b}, !.left = @ - 1].wl = loc[t].wl
               /\ [loc[t] EXCEPT !.walk = @ \ {b}, !.left = @ - 1].mine = loc[t].mine
               /\ [loc[t] EXCEPT !.walk = @ \ {b}, !.cur = b, !.then = "scan"].wl = loc[t].wl
               /\ [loc[t] EXCEPT !.walk = @ \ {b}, !.cur = b, !.then = "scan"].mine = loc[t].mine
    BY <1>0 DEF Locals
  <2>2. Rest(loc[t].mine).wl = loc[t].wl /\ Rest(loc[t].mine).mine = loc[t].mine
    BY <1>0, PlainFacts DEF Rest
  <2> QED
    BY <2>1, <2>2 DEF ScanVisit, Return
<1> QED
  BY <1>0, <1>1, BitsMoves

\* Age starts a walk of the clean list.
LEMMA AgeBits ==
  ASSUME ThreadsInv, CacheInv, BitsInv, NEW t \in Threads, Age(t)
  PROVE  BitsInv'
<1>0. loc[t] \in Locals /\ pc[t] \in PlainPoints /\ UNCHANGED <<buf, io>>
  BY ThreadFacts DEF Age, Call, PlainPoints, Points, Unlocked, cacheVars, ioVars
<1>1. PICK s : s = [Rest(loc[t].mine) EXCEPT !.call = "age", !.walk = List("clean"),
                                             !.count = Cardinality(Linked)]
  OBVIOUS
<1>2. Go(t, "age", s) /\ s.wl = {} /\ s.mine = loc[t].mine
  BY <1>1 DEF Age, Rest
<1> QED
  BY <1>0, <1>2, PlainFacts, BitsMoves

\* AgeVisit evicts a buffer without bits, or none.
LEMMA AgeVisitBits ==
  ASSUME ThreadsInv, CacheInv, BitsInv, NEW t \in Threads, AgeVisit(t)
  PROVE  BitsInv'
<1>0. /\ loc[t] \in Locals /\ pc[t] \in PlainPoints /\ UNCHANGED io
      /\ loc[t].walk \subseteq Buffers
  BY ThreadFacts DEF AgeVisit, PlainPoints, Points, ioVars, Locals
<1>1. PICK l, s : /\ Go(t, l, s) /\ s.wl = loc[t].wl /\ s.mine = loc[t].mine /\ l \in {"idle", "age"}
  <2>1. \A b : /\ [loc[t] EXCEPT !.walk = @ \ {b}, !.count = @ - 1].wl = loc[t].wl
               /\ [loc[t] EXCEPT !.walk = @ \ {b}, !.count = @ - 1].mine = loc[t].mine
               /\ [loc[t] EXCEPT !.walk = @ \ {b}].wl = loc[t].wl
               /\ [loc[t] EXCEPT !.walk = @ \ {b}].mine = loc[t].mine
    BY <1>0 DEF Locals
  <2>2. Rest(loc[t].mine).wl = loc[t].wl /\ Rest(loc[t].mine).mine = loc[t].mine
    BY <1>0, PlainFacts DEF Rest
  <2> QED
    BY <2>1, <2>2 DEF AgeVisit, Return
<1>2. CASE UNCHANGED cacheVars
  BY <1>0, <1>1, <1>2, BitsMoves DEF cacheVars
<1>3. ASSUME NEW b \in Oldest(loc[t].walk), ~Busy(b), FreeBufferWake(b) PROVE BitsInv'
  <2>1. PromiseKept(t, l, s)
    BY <1>0, <1>1, PlainKept DEF Submitting
  <2>2. b \in Buffers /\ buf[b].state = {}
    BY <1>0, <1>3 DEF Oldest, Busy
  <2> QED
    BY <1>0, <1>1, <1>3, <2>1, <2>2, BitsFree
<1> QED
  BY <1>2, <1>3 DEF AgeVisit

\* Destroy starts to write everything back.
LEMMA DestroyBits ==
  ASSUME ThreadsInv, CacheInv, BitsInv, NEW t \in Threads, Destroy(t)
  PROVE  BitsInv'
<1>0. loc[t] \in Locals /\ pc[t] \in PlainPoints /\ UNCHANGED <<buf, io>>
  BY ThreadFacts DEF Destroy, Call, PlainPoints, Points, Unlocked, cacheVars, ioVars
<1>1. PICK s : s = [loc[t] EXCEPT !.call = "destroy", !.walk = List("dirty"), !.then = "relock"]
  OBVIOUS
<1>2. Go(t, "wb", s) /\ s.wl = loc[t].wl /\ s.mine = loc[t].mine
  BY <1>0, <1>1 DEF Destroy, StartWriteBack, Locals
<1> QED
  BY <1>0, <1>2, BitsMoves

\* DropStart takes the lock.
LEMMA DropStartBits ==
  ASSUME ThreadsInv, CacheInv, BitsInv, NEW t \in Threads, DropStart(t)
  PROVE  BitsInv'
<1>0. pc[t] \in PlainPoints /\ UNCHANGED <<buf, io>> /\ Go(t, "drop", loc[t])
  BY DEF DropStart, PlainPoints, Points, Unlocked, cacheVars, ioVars
<1> QED
  BY <1>0, BitsMoves

\* Drop picks a victim, or is through.
LEMMA DropBits ==
  ASSUME ThreadsInv, CacheInv, BitsInv, NEW t \in Threads, Drop(t)
  PROVE  BitsInv'
<1>0. loc[t] \in Locals /\ pc[t] \in PlainPoints /\ UNCHANGED <<buf, io>>
  BY ThreadFacts DEF Drop, PlainPoints, Points, cacheVars, ioVars
<1>1. PICK l, s : /\ Go(t, l, s) /\ s.wl = loc[t].wl /\ s.mine = loc[t].mine
                  /\ l \in {"clean", "unregister"}
  <2>1. \A b : /\ [loc[t] EXCEPT !.cur = b, !.then = "drop"].wl = loc[t].wl
               /\ [loc[t] EXCEPT !.cur = b, !.then = "drop"].mine = loc[t].mine
    BY <1>0 DEF Locals
  <2> QED
    BY <2>1 DEF Drop
<1> QED
  BY <1>0, <1>1, BitsMoves

\* Unregister frees buffers that have no bit.
LEMMA UnregisterBits ==
  ASSUME ThreadsInv, CacheInv, BitsInv, NEW t \in Threads, Unregister(t)
  PROVE  BitsInv'
<1>0. loc[t] \in Locals /\ pc[t] \in PlainPoints /\ UNCHANGED io
  BY ThreadFacts DEF Unregister, PlainPoints, Points, Unlocked, ioVars
<1>1. PICK s : s = Rest(loc[t].mine)
  OBVIOUS
<1>2. Go(t, "destroyed", s) /\ s.wl = {} /\ s.mine = loc[t].mine
  BY <1>1 DEF Unregister, Rest
<1>3. PromiseKept(t, "destroyed", s)
  BY <1>0, <1>2, PlainFacts, PlainKept DEF Submitting
<1>4. ASSUME NEW b \in Buffers
      PROVE  /\ buf'[b].state = buf[b].state /\ (io[b].rw = "none" \/ buf'[b].block = buf[b].block)
             /\ buf'[b].where = buf[b].where \/ BitsOfList(b)'
  <2>1. CASE buf[b].where = "reserved"
    <3>1. buf'[b] = Blank("free") /\ buf'[b].state = {}
      BY <2>1 DEF Unregister, Blank
    <3>2. buf[b].state = {}
      BY <2>1 DEF BitsInv, BitsOfList, Linked, Lists
    <3> QED
      BY <3>1, <3>2, NoBitsNoRequest DEF BitsOfList
  <2>2. CASE buf[b].where # "reserved"
    BY <2>2 DEF Unregister
  <2> QED
    BY <2>1, <2>2
<1> QED
  BY <1>0, <1>2, <1>3, <1>4, BitsFrame

-----------------------------------------------------------------------------
(* The device.                                                             *)

\* A request ends, and its bit with it: nobody has promised that one.
LEMMA DoneBits ==
  ASSUME ThreadsInv, CacheInv, BitsInv, NEW b \in Buffers, UNCHANGED <<pc, loc>>, NEW bit,
         \/ io[b].rw = "read" /\ bit = "reading"
         \/ io[b].rw = "write" /\ bit = "writing",
         buf'[b].state = buf[b].state \ {bit}, buf'[b].where = buf[b].where,
         \A c \in Buffers \ {b} : buf'[c] = buf[c], io' = [io EXCEPT ![b] = NoRequest]
  PROVE  BitsInv'
<1>1. \A c \in Buffers : BitsOfList(c) /\ RequestOfBits(c) /\ Promised(c)
  BY DEF BitsInv
<1>2. io'[b] = NoRequest /\ \A c \in Buffers \ {b} : io'[c] = io[c]
  BY DEF CacheInv, DataType
<1>3. bit \in buf[b].state /\ (bit = "writing" => "reading" \notin buf[b].state)
      /\ (bit = "reading" => "writing" \notin buf[b].state)
  BY <1>1 DEF RequestOfBits, BitsOfList
<1>4. ASSUME NEW c \in Buffers PROVE BitsOfList(c)' /\ RequestOfBits(c)' /\ Promised(c)'
  <2>1. CASE c = b
    <3>1. BitsOfList(b)'
      BY <1>1, <1>3 DEF BitsOfList, Linked
    <3>2. RequestOfBits(b)'
      BY <1>2 DEF RequestOfBits, NoRequest
    <3>3. Promised(b)'
      BY <1>1, <1>3 DEF Promised, Submitting
    <3> QED
      BY <2>1, <3>1, <3>2, <3>3
  <2>2. CASE c # b
    <3>1. buf'[c] = buf[c] /\ io'[c] = io[c] /\ (c \in Linked' <=> c \in Linked)
      BY <1>2, <2>2 DEF Linked
    <3> QED
      BY <1>1, <3>1 DEF BitsOfList, RequestOfBits, Promised, NoRequest, Submitting
  <2> QED
    BY <2>1, <2>2
<1>5. ASSUME NEW u \in Threads PROVE Promises(pc[u], loc[u])'
  <2>0. Promises(pc[u], loc[u]) /\ loc[u].wl \subseteq Buffers
        /\ (Submitting(pc[u], loc[u]) => loc[u].mine \in Buffers)
    BY ThreadFacts DEF BitsInv, Locals, Submitting, ThreadOK, Possession, Continuation
  <2>1. \A c \in loc[u].wl : "writing" \in buf'[c].state /\ io'[c].rw # "write"
    BY <1>2, <1>3, <2>0 DEF Promises
  <2>2. Submitting(pc[u], loc[u]) =>
          "reading" \in buf'[loc[u].mine].state /\ io'[loc[u].mine].rw # "read"
    BY <1>2, <1>3, <2>0 DEF Promises
  <2>3. loc[u].mine \in Buffers /\ ~Reading(pc[u], loc[u]) => "reading" \notin buf'[loc[u].mine].state
    BY <2>0 DEF Promises
  <2> QED
    BY <2>0, <2>1, <2>2, <2>3 DEF Promises, Submitting, Reading
<1>6. PromisedOnce'
  BY DEF BitsInv, PromisedOnce, Submitting
<1> QED
  BY <1>4, <1>5, <1>6 DEF BitsInv

\* ReadDone clears the read bit.
LEMMA ReadDoneBits ==
  ASSUME ThreadsInv, CacheInv, BitsInv, NEW b \in Buffers, ReadDone(b)
  PROVE  BitsInv'
<1>1. buf[b] \in Buffer /\ buf \in [Buffers -> Buffer]
  BY DEF CacheInv, IndexInv
<1>2. /\ buf'[b].state = buf[b].state \ {"reading"} /\ buf'[b].where = buf[b].where
      /\ \A c \in Buffers \ {b} : buf'[c] = buf[c]
  BY <1>1 DEF ReadDone, Buffer
<1> QED
  BY <1>2, DoneBits DEF ReadDone

\* WriteDone clears the write bit.
LEMMA WriteDoneBits ==
  ASSUME ThreadsInv, CacheInv, BitsInv, NEW b \in Buffers, WriteDone(b)
  PROVE  BitsInv'
<1>1. buf[b] \in Buffer /\ buf \in [Buffers -> Buffer]
  BY DEF CacheInv, IndexInv
<1>2. /\ buf'[b].state = buf[b].state \ {"writing"} /\ buf'[b].where = buf[b].where
      /\ \A c \in Buffers \ {b} : buf'[c] = buf[c]
  BY <1>1 DEF WriteDone, Written, Buffer
<1> QED
  BY <1>2, DoneBits DEF WriteDone

-----------------------------------------------------------------------------
(* All the actions.                                                        *)

\* A client that was just created has no bit and no request.
LEMMA InitBits == Init => BitsInv
<1> SUFFICES ASSUME Init PROVE BitsInv
  OBVIOUS
<1>1. /\ \A t \in Threads : pc[t] = "idle" /\ loc[t] = Rest(NoBuffer)
      /\ Rest(NoBuffer).wl = {} /\ Rest(NoBuffer).mine \notin Buffers
  BY BuffersAssumption DEF Init, Rest
<1>2. \A b \in Buffers : buf[b].state = {} /\ io[b] = NoRequest
  BY DEF Init, Blank
<1> QED
  BY <1>1, <1>2 DEF BitsInv, BitsOfList, RequestOfBits, Promised, Promises, PromisedOnce,
                    Submitting, NoRequest

\* The start of a call keeps the layer.
LEMMA StartBits ==
  ASSUME ThreadsInv, CacheInv, BitsInv, NEW t \in Threads, Start(t)
  PROVE  BitsInv'
<1>1. \A k \in Blocks, c \in {"read", "new", "get"} : NewRead(t, c, k) => BitsInv'
  BY NewReadBits
<1>2. \A k \in Blocks, n \in PrefetchSizes : Prefetch(t, k, n) => BitsInv'
  BY PrefetchBits
<1>3. \A k \in Blocks : Forget(t, k) \/ Move(t, k) => BitsInv'
  BY ForgetBits, MoveBits
<1>4. \A c \in ApiCalls, n \in ScanSizes : Scan(t, c, n) => BitsInv'
  BY ScanBits
<1> QED
  BY <1>1, <1>2, <1>3, <1>4, MarkDirtyBits, WriteAsyncBits, SyncBits, AgeBits, DestroyBits DEF Start

\* So does every further step of it.
LEMMA ContinueBits ==
  ASSUME ThreadsInv, CacheInv, BitsInv, NEW t \in Threads, Continue(t)
  PROVE  BitsInv'
BY LookupBits, AllocBits, WakeUpBits, RecheckBits, WatermarkBits,
     LinkNewBits, FlushBits, SubmitReadBits, WaitReadBits, OverwriteBits,
     CleanWriteBits, CleanDoneBits, WriteBackBits, SyncWalkBits, SyncVisitBits,
     SyncParkBits, SyncWakeBits, SyncRelockBits, SyncEndBits, TakeErrorBits,
     IssueFlushBits, MoveFindBits, MoveWriteBits, MoveRelinkBits, MoveCopiedBits,
     ScanVisitBits, AgeVisitBits, DropStartBits, DropBits, UnregisterBits
   DEF Continue

\* The layer is inductive, given those below it.
LEMMA StepBits == CoreInv /\ BitsInv /\ [Next]_vars => BitsInv'
<1> SUFFICES ASSUME CoreInv, BitsInv, [Next]_vars PROVE BitsInv'
  OBVIOUS
<1>0. ThreadsInv /\ CacheInv
  BY DEF CoreInv
<1>1. CASE UNCHANGED vars
  <2>1. UNCHANGED <<pc, loc, buf, io>>
    BY <1>1 DEF vars, cacheVars, ioVars
  <2>2. Linked' = Linked
    BY <2>1 DEF Linked
  <2> QED
    BY <2>1, <2>2 DEF BitsInv, BitsOfList, RequestOfBits, Promised, Promises, PromisedOnce,
                      Submitting, Reading
<1> QED
  BY <1>0, <1>1, StartBits, ContinueBits, ReleaseRefBits, ReadDoneBits, WriteDoneBits DEF Next

-----------------------------------------------------------------------------
(* The order, the life, the reserve, the sleepers and the age worker.      *)

\* All of them together.
RestInv == OrderInv /\ LifeInv /\ ReserveInv /\ SeekInv /\ WakeInv /\ AgeInv

\* A flush that will wake the sleepers at its end.
Waking == {"sync", "park", "syncwait", "syncrelock"}

\* The new buffer a thread at l with locals r has in hand.
Hand(l, r) == IF l = "recheck" \/ Inserting(l, r) THEN r.newb ELSE NoBuffer

-----------------------------------------------------------------------------
(* The order of the lists.                                                 *)

\* What the order says of three buffers of a list.
Ordered(q, c, d, e) ==
  /\ c # d => <<c, d>> \in recent \/ <<d, c>> \in recent
  /\ <<c, d>> \in recent => <<d, c>> \notin recent
  /\ <<c, d>> \in recent /\ <<d, e>> \in recent => <<c, e>> \in recent

\* Any three buffers of a list are in order.
LEMMA OrderFacts ==
  ASSUME OrderInv, NEW q \in Lists, NEW c \in List(q), NEW d \in List(q), NEW e \in List(q)
  PROVE  Ordered(q, c, d, e)
<1>1. \A b1, b2, b3 \in List(q) : Ordered(q, b1, b2, b3)
  BY DEF OrderInv, Ordered
<1> QED
  BY <1>1

\* A list is in order when any three of its buffers are.
LEMMA OrderMade ==
  ASSUME \A q \in Lists : \A c, d, e \in List(q)' : Ordered(q, c, d, e)'
  PROVE  OrderInv'
BY DEF OrderInv, Ordered

\* No buffer comes onto a list, and the order is the same.
LEMMA OrderKept ==
  ASSUME OrderInv, UNCHANGED recent,
         \A b \in Buffers : buf'[b].where \in Lists => buf'[b].where = buf[b].where
  PROVE  OrderInv'
<1>1. \A q \in Lists : \A c \in List(q)' : c \in List(q)
  BY DEF List
<1>2. ASSUME NEW q \in Lists, NEW c \in List(q)', NEW d \in List(q)', NEW e \in List(q)'
      PROVE  Ordered(q, c, d, e)'
  <2>1. Ordered(q, c, d, e)
    BY <1>1, OrderFacts
  <2> QED
    BY <2>1 DEF Ordered
<1> QED
  BY <1>2, OrderMade

\* A buffer goes to the head of a list.
LEMMA OrderLink ==
  ASSUME CacheInv, OrderInv, NEW b \in Buffers, NEW r \in Buffer, NEW p \in Lists, Link(b, r, p)
  PROVE  OrderInv'
<1>1. [r EXCEPT !.where = p].where = p
  BY DEF Buffer
<1>2. buf'[b].where = p /\ \A c \in Buffers \ {b} : buf'[c] = buf[c]
  BY <1>1 DEF Link, CacheInv, IndexInv
<1>3. \A c, d : <<c, d>> \in recent' <=>
        \/ <<c, d>> \in recent /\ c # b /\ d # b
        \/ c = b /\ d \in List(p) \ {b}
  BY DEF Link, Newest, Forgotten
<1>4. ASSUME NEW q \in Lists, NEW c \in List(q)', c # b PROVE c \in List(q)
  BY <1>2, <1>4 DEF List
<1>5. ASSUME NEW q \in Lists, b \in List(q)' PROVE q = p
  BY <1>2, <1>5 DEF List
<1>6. ASSUME NEW q \in Lists, NEW c \in List(q)', NEW d \in List(q)', NEW e \in List(q)'
      PROVE  Ordered(q, c, d, e)'
  <2>1. \A x \in {c, d, e} : x # b => x \in List(q)
    BY <1>4
  <2>2. \A x, y, z \in {c, d, e} : x # b /\ y # b /\ z # b => Ordered(q, x, y, z)
    BY <2>1, OrderFacts
  <2>3. b \in {c, d, e} => q = p
    BY <1>5
  <2> QED
    BY <1>3, <2>1, <2>2, <2>3 DEF Ordered
<1> QED
  BY <1>6, OrderMade

\* A buffer leaves its list.
LEMMA OrderFree ==
  ASSUME OrderInv, NEW b \in Buffers, recent' = Forgotten(b),
         buf'[b].where \notin Lists, \A c \in Buffers \ {b} : buf'[c] = buf[c]
  PROVE  OrderInv'
<1>1. \A c, d : <<c, d>> \in recent' <=> <<c, d>> \in recent /\ c # b /\ d # b
  BY DEF Forgotten
<1>2. \A q \in Lists : List(q)' = List(q) \ {b}
  BY DEF List
<1>3. ASSUME NEW q \in Lists, NEW c \in List(q)', NEW d \in List(q)', NEW e \in List(q)'
      PROVE  Ordered(q, c, d, e)'
  <2>1. Ordered(q, c, d, e) /\ b \notin {c, d, e}
    BY <1>2, OrderFacts
  <2> QED
    BY <1>1, <2>1 DEF Ordered
<1> QED
  BY <1>3, OrderMade

\* The tail of a part of a list is in that part.
LEMMA OldestExists ==
  ASSUME OrderInv, NEW p \in Lists, NEW S, S \subseteq List(p), S # {}
  PROVE  Oldest(S) # {}
<1> DEFINE Below(b) == {c \in S : <<b, c>> \in recent}
           Sets == {Below(b) : b \in S}
<1>1. S \subseteq Buffers /\ IsFiniteSet(S)
  BY BuffersAssumption, FS_Subset DEF List
<1>2. Sets \subseteq FiniteSubsetsOf(S) /\ Sets # {}
  <2>1. ASSUME NEW b \in S PROVE Below(b) \in FiniteSubsetsOf(S)
    <3>1. Below(b) \in SUBSET S
      OBVIOUS
    <3>2. IsFiniteSet(Below(b))
      BY <1>1, <3>1, FS_Subset
    <3> QED
      BY <3>1, <3>2 DEF FiniteSubsetsOf
  <2> QED
    BY <2>1
<1>3. PICK X \in Sets : \A Y \in Sets : <<Y, X>> \notin StrictSubsetOrdering(S)
  BY <1>2, FS_StrictSubsetOrderingWellFounded, WFMin
<1>4. PICK b \in S : X = Below(b)
  OBVIOUS
<1>5. ASSUME NEW c \in S \ {b}, <<c, b>> \notin recent PROVE FALSE
  <2>0. \A d \in S : Ordered(p, b, c, d) /\ Ordered(p, c, c, d)
    BY OrderFacts
  <2>1. <<b, c>> \in recent
    BY <1>5, <2>0 DEF Ordered
  <2>2. Below(c) \subseteq Below(b)
    BY <2>0, <2>1 DEF Ordered
  <2>3. c \in Below(b) /\ c \notin Below(c)
    BY <2>0, <2>1 DEF Ordered
  <2>4. <<Below(c), Below(b)>> \in StrictSubsetOrdering(S)
    BY <2>2, <2>3 DEF StrictSubsetOrdering
  <2> QED
    BY <1>3, <1>4, <2>4
<1> QED
  BY <1>5 DEF Oldest

-----------------------------------------------------------------------------
(* The life of the client.                                                 *)

\* A step of t that is in order while the client lives, and when it does not.
LEMMA LifeStep ==
  ASSUME ThreadsInv, LifeInv, NEW t \in Threads, NEW l, NEW s, Go(t, l, s), UNCHANGED status,
         CallOK(l, s),
         status # "open" => /\ s.mine = NoBuffer /\ s.call \in Workers \cup {"none", "destroy"}
                            /\ s.call = "none" => l \in {"idle", "destroyed"},
         status = "closed" => s.call = "none"
  PROVE  LifeInv'
<1>1. /\ pc'[t] = l /\ loc'[t] = s
      /\ \A u \in Threads \ {t} : pc'[u] = pc[u] /\ loc'[u] = loc[u]
  BY GoFacts
<1>2. \A u \in Threads : CallOK(pc[u], loc[u])'
  BY <1>1 DEF LifeInv, CallOK, Destroying
<1> QED
  BY <1>1, <1>2 DEF LifeInv

\* A thread goes on with its call.
LEMMA LifeGoesOn ==
  ASSUME ThreadsInv, LifeInv, NEW t \in Threads, NEW l, NEW s, Go(t, l, s), UNCHANGED status,
         CallOK(l, s), pc[t] \notin {"idle", "destroyed"}, s.call = loc[t].call,
         s.mine = loc[t].mine \/ loc[t].call \notin Workers \cup {"none", "destroy"}
  PROVE  LifeInv'
BY LifeStep DEF LifeInv

\* A thread goes on with a call that is neither the destroyer's nor a worker's.
LEMMA LifeCall ==
  ASSUME ThreadsInv, LifeInv, NEW t \in Threads, NEW l, NEW s, Go(t, l, s), UNCHANGED status,
         l \notin {"idle", "destroyed", "drop", "unregister"},
         l = "clean" => s.then # "drop",
         pc[t] \notin {"idle", "destroyed"}, s.call = loc[t].call,
         \/ s.mine = loc[t].mine /\ pc[t] \notin {"scan", "age", "clean", "wb", "flush", "relock", "drop", "unregister"}
         \/ loc[t].call \notin Workers \cup {"none", "destroy"}
  PROVE  LifeInv'
<1>1. CallOK(pc[t], loc[t])
  BY DEF LifeInv
<1>2. loc[t].call \notin Workers \cup {"destroy"}
  BY <1>1 DEF CallOK, Destroying
<1>3. CallOK(l, s)
  BY <1>1, <1>2 DEF CallOK
<1> QED
  BY <1>3, LifeGoesOn

\* A thread returns.
LEMMA LifeReturns ==
  ASSUME ThreadsInv, LifeInv, NEW t \in Threads, NEW s, Go(t, "idle", s), UNCHANGED status,
         s.call = "none", s.mine \in {NoBuffer, loc[t].mine}
  PROVE  LifeInv'
<1>1. CallOK("idle", s)
  BY DEF CallOK, Workers
<1> QED
  BY <1>1, LifeStep DEF LifeInv

\* While the client is open a thread may begin what it likes.
LEMMA LifeOpen ==
  ASSUME ThreadsInv, LifeInv, NEW t \in Threads, NEW l, NEW s, Go(t, l, s), UNCHANGED status,
         status = "open", l \notin {"idle", "destroyed", "drop", "unregister"},
         s.call \notin Workers \cup {"destroy"}, l = "clean" => s.then # "drop"
  PROVE  LifeInv'
<1>1. CallOK(l, s)
  BY DEF CallOK
<1> QED
  BY <1>1, LifeStep

-----------------------------------------------------------------------------
(* The reserve.                                                            *)

\* The reserve and what is out are finite.
LEMMA CountsFinite ==
  /\ \A p : IsFiniteSet(List(p)) /\ Cardinality(List(p)) \in Nat
  /\ IsFiniteSet(Out) /\ Cardinality(Out) \in Nat
BY BuffersAssumption, FS_Subset, FS_CardinalityType DEF List, Out

\* A buffer in hand stays in the hand it is in.
LEMMA HandKept ==
  ASSUME ThreadsInv, InHandOfOne, NEW t \in Threads, NEW l, NEW s, Go(t, l, s),
         \A b \in Buffers : buf'[b].where = "hand" =>
           \/ Hand(l, s) = b
           \/ buf[b].where = "hand" /\ Hand(pc[t], loc[t]) # b
  PROVE  InHandOfOne'
<1>1. /\ pc'[t] = l /\ loc'[t] = s
      /\ \A u \in Threads \ {t} : pc'[u] = pc[u] /\ loc'[u] = loc[u]
  BY GoFacts
<1>2. ASSUME NEW b \in Buffers, buf'[b].where = "hand"
      PROVE  \E u \in Threads : (pc'[u] = "recheck" \/ Inserting(pc'[u], loc'[u])) /\ loc'[u].newb = b
  <2>1. CASE Hand(l, s) = b
    BY <1>1, <2>1, BuffersAssumption DEF Hand
  <2>2. CASE buf[b].where = "hand" /\ Hand(pc[t], loc[t]) # b
    <3>1. PICK u \in Threads : (pc[u] = "recheck" \/ Inserting(pc[u], loc[u])) /\ loc[u].newb = b
      BY <2>2 DEF InHandOfOne, List
    <3>2. u # t
      BY <2>2, <3>1 DEF Hand
    <3> QED
      BY <1>1, <3>1, <3>2
  <2> QED
    BY <1>2, <2>1, <2>2
<1> QED
  BY <1>2 DEF InHandOfOne, List, Inserting

\* While somebody needs a buffer nobody is at the end of the client.
LEMMA NobodyLeaves ==
  ASSUME LifeInv, NEW t \in Threads,
         loc[t].call \notin Workers \cup {"none", "destroy"} \/ loc[t].mine # NoBuffer
  PROVE  status = "open" /\ \A u \in Threads : pc[u] # "unregister"
BY DEF LifeInv, CallOK

\* No buffer comes to another place, but from list to list.
LEMMA ReserveKept ==
  ASSUME ThreadsInv, ReserveInv, NEW t \in Threads, NEW l, NEW s, Go(t, l, s),
         UNCHANGED <<status, need>>, Hand(l, s) = Hand(pc[t], loc[t]),
         l = "unregister" => Linked = {},
         \A b \in Buffers : \/ buf'[b].where = buf[b].where
                            \/ buf'[b].where \in Lists /\ buf[b].where \in Lists
  PROVE  ReserveInv'
<1>1. \A b \in Buffers : /\ buf'[b].where \in Lists <=> buf[b].where \in Lists
                         /\ \A p \in {"reserved", "free", "hand"} : buf'[b].where = p <=> buf[b].where = p
  BY DEF Lists
<1>2. List("reserved")' = List("reserved") /\ List("free")' = List("free")
      /\ Linked' = Linked /\ Out' = Out
  BY <1>1 DEF List, Linked, Out
<1>3. InHandOfOne'
  BY <1>1, HandKept, BuffersAssumption DEF ReserveInv
<1>4. \A u \in Threads : pc'[u] = "unregister" => Linked' = {}
  BY <1>2, GoFacts DEF ReserveInv
<1> QED
  BY <1>2, <1>3, <1>4 DEF ReserveInv, ReserveAccounted

\* __free_buffer_wake pays the reserve what it is owed.
LEMMA ReserveFree ==
  ASSUME ThreadsInv, CacheInv, ReserveInv, NEW t \in Threads, NEW l, NEW s, Go(t, l, s),
         UNCHANGED status, NEW b \in Out, FreeBufferWake(b), l # "unregister",
         \/ Hand(l, s) = Hand(pc[t], loc[t]) /\ b \in Linked
         \/ Hand(pc[t], loc[t]) = b
  PROVE  ReserveInv'
<1>1. b \in Buffers /\ buf[b].where \in Lists \cup {"hand"} /\ need \in Nat
  BY DEF Out, CacheInv, DataType
<1>2. PICK p : p = IF need = 0 THEN "free" ELSE "reserved"
  OBVIOUS
<1>3. buf'[b].where = p /\ \A c \in Buffers \ {b} : buf'[c] = buf[c]
  BY <1>1, <1>2 DEF FreeBufferWake, Blank, CacheInv, IndexInv
<1>4. Out' = Out \ {b} /\ Linked' = Linked \ {b}
  BY <1>2, <1>3 DEF Out, Linked, Lists
<1>5. Cardinality(Out') = Cardinality(Out) - 1
  BY <1>4, CountsFinite, FS_RemoveElement
<1>6. List("reserved")' = IF need = 0 THEN List("reserved") ELSE List("reserved") \cup {b}
  BY <1>1, <1>2, <1>3 DEF List, Lists
<1>7. b \notin List("reserved") /\ status # "closed"
  BY <1>1 DEF List, Lists, ReserveInv, ReserveAccounted
<1>8. Cardinality(List("reserved")') = Cardinality(List("reserved")) + (IF need = 0 THEN 0 ELSE 1)
  BY <1>6, <1>7, CountsFinite, FS_AddElement
<1>9. need' = IF need = 0 THEN 0 ELSE need - 1
  BY DEF FreeBufferWake
<1>10. ReserveAccounted' /\ need' <= Cardinality(Out')
  <2>1. Cardinality(List("reserved")) + need = ReservedBuffers /\ need <= Cardinality(Out)
    BY <1>7 DEF ReserveInv, ReserveAccounted
  <2>2. Cardinality(Out) \in Nat /\ Cardinality(List("reserved")) \in Nat
    BY CountsFinite
  <2>3. Cardinality(Out) >= 1
    BY <2>2, CountsFinite, FS_EmptySet
  <2>4. Cardinality(List("reserved")') + need' = ReservedBuffers /\ need' <= Cardinality(Out')
    BY <1>1, <1>5, <1>8, <1>9, <2>1, <2>2, <2>3
  <2> QED
    BY <1>7, <2>4 DEF ReserveAccounted
<1>11. InHandOfOne'
  <2>1. ASSUME NEW c \in Buffers, buf'[c].where = "hand"
        PROVE  Hand(l, s) = c \/ (buf[c].where = "hand" /\ Hand(pc[t], loc[t]) # c)
    BY <1>2, <1>3, <2>1, BuffersAssumption
  <2> QED
    BY <2>1, HandKept DEF ReserveInv
<1>12. \A u \in Threads : pc'[u] = "unregister" => Linked' = {}
  BY <1>4, GoFacts DEF ReserveInv
<1> QED
  BY <1>10, <1>11, <1>12 DEF ReserveInv

\* A thread takes a buffer in hand: a free one, one of the reserve, or a victim.
LEMMA ReserveTake ==
  ASSUME ThreadsInv, CacheInv, ReserveInv, LifeInv, NEW t \in Threads, NEW l, NEW s, Go(t, l, s),
         UNCHANGED status, NEW b \in Buffers, Take(b), l # "unregister",
         Hand(l, s) = b, Hand(pc[t], loc[t]) = NoBuffer, loc[t].call \in Getting,
         need' = IF buf[b].where = "reserved" THEN need + 1 ELSE need
  PROVE  ReserveInv'
<1>1. buf[b] \in Buffer /\ buf \in [Buffers -> Buffer] /\ need \in Nat
  BY DEF CacheInv, DataType, IndexInv
<1>2. buf' = [buf EXCEPT ![b] = [buf[b] EXCEPT !.where = "hand", !.block = NoBlock]]
  BY <1>1 DEF Take
<1>3. buf'[b].where = "hand" /\ \A c \in Buffers \ {b} : buf'[c] = buf[c]
  BY <1>1, <1>2 DEF Buffer
<1>4. Out' = Out \cup {b} /\ Linked' = Linked \ {b} /\ List("reserved")' = List("reserved") \ {b}
  BY <1>1, <1>3 DEF Out, Linked, Lists, List
<1>5. Cardinality(Out') = IF b \in Out THEN Cardinality(Out) ELSE Cardinality(Out) + 1
  BY <1>4, CountsFinite, FS_AddElement
<1>6. Cardinality(List("reserved")') =
        IF b \in List("reserved") THEN Cardinality(List("reserved")) - 1 ELSE Cardinality(List("reserved"))
  BY <1>4, CountsFinite, FS_RemoveElement
<1>7. b \in List("reserved") <=> buf[b].where = "reserved"
  BY DEF List
<1>8. b \in List("reserved") => b \notin Out
  BY DEF List, Out, Lists
<1>9. status = "open" /\ \A u \in Threads : pc[u] # "unregister"
  BY NobodyLeaves DEF Getting, Workers
<1>10. ReserveAccounted' /\ need' <= Cardinality(Out')
  BY <1>1, <1>5, <1>6, <1>7, <1>8, <1>9, CountsFinite DEF ReserveInv, ReserveAccounted
<1>11. InHandOfOne'
  <2>1. ASSUME NEW c \in Buffers, buf'[c].where = "hand"
        PROVE  Hand(l, s) = c \/ (buf[c].where = "hand" /\ Hand(pc[t], loc[t]) # c)
    BY <1>3, <2>1, BuffersAssumption
  <2> QED
    BY <2>1, HandKept DEF ReserveInv
<1>12. \A u \in Threads : pc'[u] # "unregister"
  BY <1>9, GoFacts
<1> QED
  BY <1>10, <1>11, <1>12 DEF ReserveInv

\* The buffer in hand is linked.
LEMMA ReserveLink ==
  ASSUME ThreadsInv, CacheInv, ReserveInv, LifeInv, NEW t \in Threads, NEW l, NEW s, Go(t, l, s),
         UNCHANGED <<status, need>>, NEW b \in List("hand"), l # "unregister",
         Hand(pc[t], loc[t]) = b, loc[t].call \in Getting,
         buf'[b].where \in Lists, \A c \in Buffers \ {b} : buf'[c] = buf[c]
  PROVE  ReserveInv'
<1>1. Out' = Out /\ List("reserved")' = List("reserved")
  BY DEF Out, List, Lists
<1>2. status = "open" /\ \A u \in Threads : pc[u] # "unregister"
  BY NobodyLeaves DEF Getting, Workers
<1>3. InHandOfOne'
  <2>1. ASSUME NEW c \in Buffers, buf'[c].where = "hand"
        PROVE  Hand(l, s) = c \/ (buf[c].where = "hand" /\ Hand(pc[t], loc[t]) # c)
    BY <2>1 DEF Lists
  <2> QED
    BY <2>1, HandKept DEF ReserveInv
<1>4. \A u \in Threads : pc'[u] # "unregister"
  BY <1>2, GoFacts
<1> QED
  BY <1>1, <1>2, <1>3, <1>4 DEF ReserveInv, ReserveAccounted

-----------------------------------------------------------------------------
(* Who is woken.                                                           *)

\* A step that wakes everybody.
LEMMA WakeAll ==
  ASSUME sleepers' = {}
  PROVE  WakeInv'
BY DEF WakeInv, NoLostWakeup

\* A step after which somebody is on the way to wake everybody.
LEMMA WakeLater ==
  ASSUME ThreadsInv, CacheInv, WakeInv, NEW t \in Threads, NEW l, NEW s, Go(t, l, s), l \in Waking,
         sleepers' \subseteq sleepers, pc[t] = "asleep" => t \notin sleepers'
  PROVE  WakeInv'
<1>1. /\ pc'[t] = l
      /\ \A u \in Threads \ {t} : pc'[u] = pc[u] /\ loc'[u] = loc[u]
  BY GoFacts
<1>2. \A u \in sleepers' : pc'[u] = "asleep" /\ u \in Threads
  BY <1>1 DEF WakeInv, CacheInv, DataType
<1> QED
  BY <1>1, <1>2 DEF WakeInv, NoLostWakeup, WillWake, Waking

\* A step that lets no buffer go.
LEMMA WakeKept ==
  ASSUME ThreadsInv, CacheInv, WakeInv, NEW t \in Threads, NEW l, NEW s, Go(t, l, s),
         pc[t] \in Waking => l \in Waking,
         sleepers' \subseteq sleepers, pc[t] = "asleep" => t \notin sleepers',
         \A b \in Buffers : /\ buf'[b].where = "reserved" => buf[b].where = "reserved"
                            /\ buf'[b].where \in Lists /\ buf'[b].hold = 0 =>
                                 buf[b].where \in Lists /\ buf[b].hold = 0
                            /\ buf[b].where \in Lists /\ buf[b].hold # 0 =>
                                 buf'[b].where \in Lists /\ buf'[b].hold # 0
  PROVE  WakeInv'
<1>1. /\ pc'[t] = l
      /\ \A u \in Threads \ {t} : pc'[u] = pc[u] /\ loc'[u] = loc[u]
  BY GoFacts
<1>2. \A u \in sleepers' : pc'[u] = "asleep" /\ u \in Threads
  BY <1>1 DEF WakeInv, CacheInv, DataType
<1>3. ASSUME NEW u \in sleepers', u \in Threads
      PROVE  \/ \E v \in Threads : pc'[v] \in Waking
             \/ loc'[u].then = "alloc" /\ AllHeld'
             \/ loc'[u].then = "move" /\ \E b \in Linked' \ {loc'[u].mine} : buf'[b].hold # 0
  <2>1. u # t /\ loc'[u] = loc[u] /\ u \in sleepers
    BY <1>1, <1>3 DEF WakeInv
  <2>2. CASE \E v \in Threads : pc[v] \in Waking
    BY <1>1, <2>2
  <2>3. CASE loc[u].then = "alloc" /\ AllHeld
    BY <2>1, <2>3 DEF AllHeld, List, Unheld, Linked
  <2>4. CASE loc[u].then = "move" /\ OtherHeld(u)
    BY <2>1, <2>4 DEF OtherHeld, Linked
  <2> QED
    BY <2>1, <2>2, <2>3, <2>4 DEF WakeInv, NoLostWakeup, WillWake, Waking
<1> QED
  BY <1>2, <1>3 DEF WakeInv, NoLostWakeup, WillWake, Waking, OtherHeld

\* A thread goes to sleep for a reason.
LEMMA WakeSleep ==
  ASSUME ThreadsInv, CacheInv, WakeInv, NEW t \in Threads, NEW s, Go(t, "asleep", s), UNCHANGED buf,
         pc[t] \notin Waking, sleepers' = sleepers \cup {t},
         \/ s.then = "alloc" /\ AllHeld
         \/ s.then = "move" /\ \E b \in Linked \ {s.mine} : buf[b].hold # 0
  PROVE  WakeInv'
<1>1. /\ pc'[t] = "asleep" /\ loc'[t] = s
      /\ \A u \in Threads \ {t} : pc'[u] = pc[u] /\ loc'[u] = loc[u]
  BY GoFacts
<1>2. \A u \in sleepers' : pc'[u] = "asleep" /\ u \in Threads
  BY <1>1 DEF WakeInv, CacheInv, DataType
<1>3. AllHeld' = AllHeld /\ Linked' = Linked
  BY DEF AllHeld, List, Unheld, Linked
<1>4. ASSUME NEW u \in sleepers', u \in Threads
      PROVE  \/ \E v \in Threads : pc'[v] \in Waking
             \/ loc'[u].then = "alloc" /\ AllHeld'
             \/ loc'[u].then = "move" /\ \E b \in Linked' \ {loc'[u].mine} : buf'[b].hold # 0
  <2>1. CASE u = t
    BY <1>1, <1>3, <2>1
  <2>2. CASE u # t
    <3>1. loc'[u] = loc[u] /\ u \in sleepers
      BY <1>1, <1>4, <2>2
    <3>2. CASE \E v \in Threads : pc[v] \in Waking
      BY <1>1, <3>2
    <3>3. CASE loc[u].then = "alloc" /\ AllHeld
      BY <1>3, <3>1, <3>3
    <3>4. CASE loc[u].then = "move" /\ OtherHeld(u)
      BY <1>3, <3>1, <3>4 DEF OtherHeld
    <3> QED
      BY <3>1, <3>2, <3>3, <3>4 DEF WakeInv, NoLostWakeup, WillWake, Waking
  <2> QED
    BY <2>1, <2>2
<1> QED
  BY <1>2, <1>4 DEF WakeInv, NoLostWakeup, WillWake, Waking, OtherHeld

-----------------------------------------------------------------------------
(* What a mover looks for.                                                 *)

\* Two clients of a buffer are two references.
LEMMA SoleHolder ==
  ASSUME ThreadsInv, CacheInv, NEW t \in Threads, NEW u \in Threads \ {t},
         loc[t].mine \in Buffers, loc[u].mine = loc[t].mine
  PROVE  buf[loc[t].mine].hold # 1
<1> DEFINE b == loc[t].mine
<1>1. {t, u} \in SUBSET Clients(b)
  BY DEF Clients
<1>2. Cardinality({t, u}) = 2
  <2>1. IsFiniteSet({t}) /\ Cardinality({t}) = 1 /\ {t, u} = {t} \cup {u} /\ u \notin {t}
    BY FS_Singleton
  <2>2. Cardinality({t} \cup {u}) = IF u \in {t} THEN Cardinality({t}) ELSE Cardinality({t}) + 1
    BY ONLY <2>1, FS_AddElement
  <2> QED
    BY ONLY <2>1, <2>2
<1>3. Cardinality(Clients(b)) >= 2
  BY <1>1, <1>2, RefsFinite, FS_Subset
<1> QED
  BY <1>3, RefsFinite DEF CacheInv, HoldsAccounted

\* SeekInv of the next state, without its definitions.
LEMMA SeekMade ==
  ASSUME \A u \in Threads : Seeking(pc'[u], loc'[u]) =>
           /\ \A v \in Threads : pc'[v] = "movecopy" /\ loc'[v].mine = loc'[u].mine =>
                                 loc'[v].blk # loc'[u].blk
           /\ (\A v \in Threads : ~(pc'[v] = "movecopy" /\ loc'[v].mine = loc'[u].mine)) =>
                buf'[loc'[u].mine].block # loc'[u].blk
  PROVE  SeekInv'
BY DEF SeekInv, Seeking, Lenders

\* Held buffers keep their blocks, and t lends none.
LEMMA SeekKept ==
  ASSUME ThreadsInv, CacheInv, SeekInv, NEW t \in Threads, NEW l, NEW s, Go(t, l, s),
         pc[t] # "movecopy", l # "movecopy",
         \A b \in Buffers : buf[b].hold # 0 /\ loc[t].mine # b => buf'[b].block = buf[b].block,
         \A u \in Threads \ {t} : loc[t].mine \in Buffers /\ loc[u].mine = loc[t].mine =>
                                    buf'[loc[t].mine].block = buf[loc[t].mine].block,
         Seeking(l, s) => /\ Seeking(pc[t], loc[t]) /\ s.mine = loc[t].mine /\ s.blk = loc[t].blk
                          /\ buf'[loc[t].mine].block = buf[loc[t].mine].block
  PROVE  SeekInv'
<1>1. /\ pc'[t] = l /\ loc'[t] = s
      /\ \A u \in Threads \ {t} : pc'[u] = pc[u] /\ loc'[u] = loc[u]
  BY GoFacts
<1>3. ASSUME NEW u \in Threads, Seeking(pc'[u], loc'[u])
      PROVE  /\ Seeking(pc[u], loc[u]) /\ loc'[u].mine = loc[u].mine /\ loc'[u].blk = loc[u].blk
             /\ buf'[loc[u].mine].block = buf[loc[u].mine].block
  <2>1. CASE u = t
    BY <1>1, <1>3, <2>1
  <2>2. CASE u # t
    <3>1. Seeking(pc[u], loc[u]) /\ loc'[u] = loc[u]
      BY <1>1, <1>3, <2>2
    <3>2. loc[u].mine \in Buffers
      BY <3>1, ThreadFacts DEF ThreadOK, Possession, Moving, Seeking
    <3>3. buf[loc[u].mine].hold # 0
      BY <3>2, HeldLinked
    <3> QED
      BY <2>2, <3>1, <3>2, <3>3
  <2> QED
    BY <2>1, <2>2
<1>4. \A v \in Threads : pc'[v] = "movecopy" <=> pc[v] = "movecopy"
  BY <1>1
<1>5. \A v \in Threads : pc'[v] = "movecopy" => loc'[v] = loc[v]
  BY <1>1
<1>6. ASSUME NEW u \in Threads, Seeking(pc'[u], loc'[u])
      PROVE  /\ \A v \in Threads : pc'[v] = "movecopy" /\ loc'[v].mine = loc'[u].mine =>
                                    loc'[v].blk # loc'[u].blk
             /\ (\A v \in Threads : ~(pc'[v] = "movecopy" /\ loc'[v].mine = loc'[u].mine)) =>
                  buf'[loc'[u].mine].block # loc'[u].blk
  <2>1. /\ \A v \in Threads : pc[v] = "movecopy" /\ loc[v].mine = loc[u].mine =>
                                loc[v].blk # loc[u].blk
        /\ (\A v \in Threads : ~(pc[v] = "movecopy" /\ loc[v].mine = loc[u].mine)) =>
             buf[loc[u].mine].block # loc[u].blk
    BY <1>3, <1>6 DEF SeekInv, Lenders
  <2> QED
    BY <1>3, <1>4, <1>5, <1>6, <2>1
<1> QED
  BY <1>6, SeekMade

\* Every buffer that is held keeps its block.
LEMMA SeekBlocks ==
  ASSUME ThreadsInv, CacheInv, SeekInv, NEW t \in Threads, NEW l, NEW s, Go(t, l, s),
         "movecopy" \notin {pc[t], l},
         \A b \in Buffers : buf[b].hold # 0 => buf'[b].block = buf[b].block,
         Seeking(l, s) => Seeking(pc[t], loc[t]) /\ s.mine = loc[t].mine /\ s.blk = loc[t].blk
  PROVE  SeekInv'
<1>1. ASSUME loc[t].mine \in Buffers PROVE buf'[loc[t].mine].block = buf[loc[t].mine].block
  BY <1>1, HeldLinked
<1>2. Seeking(pc[t], loc[t]) => loc[t].mine \in Buffers
  BY ThreadFacts DEF ThreadOK, Possession, Moving, Seeking
<1> QED
  BY <1>1, <1>2, SeekKept

-----------------------------------------------------------------------------
(* What the age worker counts.                                             *)

\* With the lock, or without a change of the index.
LEMMA AgeKept ==
  ASSUME ThreadsInv, AgeInv, NEW t \in Threads, NEW l, NEW s, Go(t, l, s),
         l = "age" => s.count = Cardinality(Linked'),
         Linked' = Linked \/ lock \in {t, Nobody}
  PROVE  AgeInv'
<1>1. /\ pc'[t] = l /\ loc'[t] = s
      /\ \A u \in Threads \ {t} : pc'[u] = pc[u] /\ loc'[u] = loc[u]
  BY GoFacts
<1>2. lock \in {t, Nobody} => \A u \in Threads \ {t} : pc[u] # "age"
  BY ThreadsAssumption DEF ThreadsInv, LockOwner
<1> QED
  BY <1>1, <1>2 DEF AgeInv

-----------------------------------------------------------------------------
(* One step of t, put together.                                            *)

\* What most steps do to their thread: what it has in hand stays there, it does
\* not leave while a buffer is linked, a flush that will wake others will still
\* do so, and a mover looks for the same.
Steady(t, l, s) ==
  /\ Hand(l, s) = Hand(pc[t], loc[t]) /\ l # "age"
  /\ l = "unregister" => Linked = {}
  /\ pc[t] = "asleep" => t \notin sleepers
  /\ pc[t] \in Waking => l \in Waking
  /\ "movecopy" \notin {pc[t], l}
  /\ Seeking(l, s) => Seeking(pc[t], loc[t]) /\ s.mine = loc[t].mine /\ s.blk = loc[t].blk

\* Buffers stay at their place or go from list to list, and none is let go but
\* by a flush, or with a call of wake_up.
LEMMA RestPlaces ==
  ASSUME ThreadsInv, CacheInv, RestInv, NEW t \in Threads, NEW l, NEW s, Go(t, l, s),
         UNCHANGED <<status, need>>, sleepers' \subseteq sleepers, OrderInv', LifeInv',
         Steady(t, l, s),
         \A b \in Buffers : \/ buf'[b].where = buf[b].where
                            \/ buf'[b].where \in Lists /\ buf[b].where \in Lists,
         SeekInv' \/ \A b \in Buffers : buf'[b].block = buf[b].block,
         \/ sleepers' = {} \/ l \in Waking
         \/ \A b \in Buffers : buf'[b].hold = 0 => buf[b].hold = 0
  PROVE  RestInv'
<1>1. ReserveInv'
  BY ReserveKept DEF RestInv, Steady
<1>2. Linked' = Linked
  BY DEF Linked
<1>3. AgeInv'
  BY <1>2, AgeKept DEF RestInv, Steady
<1>4. WakeInv'
  <2>1. CASE sleepers' = {}
    BY <2>1, WakeAll
  <2>2. CASE l \in Waking
    BY <2>2, WakeLater DEF RestInv, Steady
  <2>3. CASE \A b \in Buffers : buf'[b].hold = 0 => buf[b].hold = 0
    <3>1. ASSUME NEW b \in Buffers
          PROVE  /\ buf'[b].where = "reserved" => buf[b].where = "reserved"
                 /\ buf'[b].where \in Lists <=> buf[b].where \in Lists
      BY DEF Lists
    <3> QED
      BY <2>3, <3>1, WakeKept DEF RestInv, Steady
  <2> QED
    BY <2>1, <2>2, <2>3
<1>5. SeekInv'
  BY SeekBlocks DEF RestInv, Steady
<1> QED
  BY <1>1, <1>3, <1>4, <1>5 DEF RestInv

\* Nothing happens to the buffers but in their bits and contents.
LEMMA RestStill ==
  ASSUME ThreadsInv, CacheInv, RestInv, NEW t \in Threads, NEW l, NEW s, Go(t, l, s),
         UNCHANGED <<status, need, sleepers, recent>>, LifeInv', Steady(t, l, s),
         SameIndex
  PROVE  RestInv'
<1>1. OrderInv'
  BY OrderKept DEF RestInv, SameIndex
<1> QED
  BY <1>1, RestPlaces DEF SameIndex

\* Not even that.
LEMMA RestQuiet ==
  ASSUME ThreadsInv, CacheInv, RestInv, NEW t \in Threads, NEW l, NEW s, Go(t, l, s),
         UNCHANGED <<status, cacheVars>>, LifeInv', Steady(t, l, s)
  PROVE  RestInv'
BY RestStill DEF cacheVars, SameIndex

\* A buffer is linked again, at the head of a list, and not let go.
LEMMA RestLink ==
  ASSUME ThreadsInv, CacheInv, RestInv, NEW t \in Threads, NEW l, NEW s, Go(t, l, s),
         UNCHANGED <<status, need, sleepers>>, LifeInv', Steady(t, l, s),
         NEW b \in Linked, NEW r \in Buffer, NEW p \in Lists, Link(b, r, p),
         r.block = buf[b].block, l \in Waking \/ (r.hold = 0 => buf[b].hold = 0)
  PROVE  RestInv'
<1>1. b \in Buffers /\ buf[b].where \in Lists
  BY DEF Linked
<1>2. /\ [r EXCEPT !.where = p].where = p /\ [r EXCEPT !.where = p].hold = r.hold
      /\ [r EXCEPT !.where = p].block = r.block
      /\ buf' = [buf EXCEPT ![b] = [r EXCEPT !.where = p]]
  BY DEF Buffer, Link
<1>3. /\ buf'[b].where = p /\ buf'[b].hold = r.hold /\ buf'[b].block = r.block
      /\ \A c \in Buffers \ {b} : buf'[c] = buf[c]
  BY <1>1, <1>2 DEF CacheInv, IndexInv
<1>4. OrderInv'
  BY <1>1, OrderLink DEF RestInv
<1> QED
  BY <1>1, <1>3, <1>4, RestPlaces

\* So does Settle, or it leaves the buffer where it is.
LEMMA RestSettle ==
  ASSUME ThreadsInv, CacheInv, RestInv, NEW t \in Threads, NEW l, NEW s, Go(t, l, s),
         UNCHANGED <<status, need, sleepers>>, LifeInv', Steady(t, l, s),
         NEW b \in Linked, NEW r \in Buffer, Settle(b, r), r.where = buf[b].where, r.block = buf[b].block,
         l \in Waking \/ (r.hold = 0 => buf[b].hold = 0)
  PROVE  RestInv'
<1>1. CASE Link(b, r, "clean")
  BY <1>1, RestLink DEF Lists
<1>2. CASE buf' = [buf EXCEPT ![b] = r] /\ UNCHANGED recent
  <2>1. buf'[b] = r /\ \A c \in Buffers \ {b} : buf'[c] = buf[c]
    BY <1>2 DEF Linked, CacheInv, IndexInv
  <2>2. OrderInv'
    BY <1>2, <2>1, OrderKept DEF RestInv
  <2> QED
    BY <2>1, <2>2, RestPlaces
<1> QED
  BY <1>1, <1>2 DEF Settle

\* A buffer that is linked or in hand is freed, and everybody is woken.
LEMMA RestFree ==
  ASSUME ThreadsInv, CacheInv, RestInv, NEW t \in Threads, NEW l, NEW s, Go(t, l, s),
         UNCHANGED status, LifeInv', NEW b \in Out, FreeBufferWake(b), l # "unregister",
         \/ Hand(l, s) = Hand(pc[t], loc[t]) /\ b \in Linked
         \/ Hand(pc[t], loc[t]) = b,
         l = "age" => s.count = Cardinality(Linked'), lock \in {t, Nobody},
         Seeking(l, s) => Seeking(pc[t], loc[t]) /\ s.mine = loc[t].mine /\ s.blk = loc[t].blk,
         "movecopy" \notin {pc[t], l}, buf[b].hold = 0 \/ (loc[t].mine = b /\ buf[b].hold = 1 /\ s.mine # b)
  PROVE  RestInv'
<1>1. ReserveInv'
  BY ReserveFree DEF RestInv
<1>2. AgeInv'
  BY AgeKept DEF RestInv
<1>3. WakeInv'
  BY WakeAll DEF FreeBufferWake
<1>4. b \in Buffers
  BY DEF Out
<1>5. PICK p : p \in {"free", "reserved"} /\ buf' = [buf EXCEPT ![b] = Blank(p)]
  BY DEF FreeBufferWake
<1>6. buf'[b].where \notin Lists /\ \A c \in Buffers \ {b} : buf'[c] = buf[c]
  BY <1>4, <1>5, BlankTyped DEF Lists, CacheInv, IndexInv
<1>7. OrderInv'
  BY <1>4, <1>6, OrderFree DEF FreeBufferWake, RestInv
<1>8. SeekInv'
  <2>1. CASE buf[b].hold = 0
    BY <1>6, <2>1, SeekBlocks DEF RestInv
  <2>2. CASE loc[t].mine = b /\ buf[b].hold = 1 /\ s.mine # b
    BY <1>4, <1>6, <2>2, SoleHolder, SeekKept DEF RestInv
  <2> QED
    BY <2>1, <2>2
<1> QED
  BY <1>1, <1>2, <1>3, <1>7, <1>8 DEF RestInv

\* A buffer nobody holds is taken in hand.
LEMMA RestTake ==
  ASSUME ThreadsInv, CacheInv, RestInv, NEW t \in Threads, NEW l, NEW s, Go(t, l, s),
         UNCHANGED <<status, sleepers>>, LifeInv', NEW b \in Buffers, Take(b), buf[b].hold = 0,
         l \notin {"unregister", "age"}, pc[t] \notin Waking \cup {"asleep"}, lock = t,
         "movecopy" \notin {pc[t], l}, ~Seeking(l, s),
         Hand(l, s) = b, Hand(pc[t], loc[t]) = NoBuffer, loc[t].call \in Getting,
         need' = IF buf[b].where = "reserved" THEN need + 1 ELSE need,
         recent' = IF b \in Linked THEN Forgotten(b) ELSE recent
  PROVE  RestInv'
<1>1. ReserveInv'
  BY ReserveTake DEF RestInv
<1>2. AgeInv'
  BY AgeKept DEF RestInv
<1>3. buf'[b].where = "hand" /\ \A c \in Buffers \ {b} : buf'[c] = buf[c]
  BY TakeFacts
<1>4. WakeInv'
  BY <1>3, WakeKept DEF RestInv, Lists
<1>5. OrderInv'
  BY <1>3, OrderFree, OrderKept DEF RestInv, Lists
<1>6. SeekInv'
  BY <1>3, SeekBlocks DEF RestInv
<1> QED
  BY <1>1, <1>2, <1>4, <1>5, <1>6 DEF RestInv

-----------------------------------------------------------------------------
(* Getting a buffer.                                                       *)

\* Where a thread has nothing in hand.
LEMMA EmptyHanded ==
  ASSUME NEW l, NEW r, l \notin {"recheck", "watermark", "link", "wb", "clean"}
  PROVE  Hand(l, r) = NoBuffer
BY DEF Hand, Inserting

\* BufioNew takes a reference, or changes no buffer.
LEMMA BufioNewRest ==
  ASSUME ThreadsInv, CacheInv, RestInv, NEW t \in Threads, NEW r \in Locals, BufioNew(t, r),
         r.call \in Getting, pc[t] \in {"idle", "lookup", "relock", "alloc"},
         (pc[t] = "idle" /\ status = "open") \/ r.call = loc[t].call, UNCHANGED status
  PROVE  RestInv'
<1>0. LifeInv
  BY DEF RestInv
<1>1. ASSUME NEW l \in {"wait", "lookup", "alloc"}, NEW s, Go(t, l, s), s.call = r.call
      PROVE  LifeInv' /\ Steady(t, l, s)
  <2>0. s.call \notin Workers \cup {"none", "destroy"}
    BY <1>1 DEF Getting, Workers
  <2>1. Steady(t, l, s)
    BY EmptyHanded DEF Steady, Waking, Seeking
  <2>2. CASE status = "open"
    BY <1>0, <1>1, <2>0, <2>1, <2>2, LifeOpen
  <2>3. CASE r.call = loc[t].call
    <3>1. pc[t] # "idle"
      BY <1>0, <1>1, <2>0, <2>3 DEF LifeInv, CallOK
    <3> QED
      BY <1>0, <1>1, <2>0, <2>1, <2>3, <3>1, LifeCall
  <2> QED
    BY <2>2, <2>3
<1>2. ASSUME NEW b \in Find(r.blk), Link(b, [buf[b] EXCEPT !.hold = @ + 1], ListFor(buf[b].state)),
             Go(t, "wait", [r EXCEPT !.mine = b]), UNCHANGED <<need, sleepers>>
      PROVE  RestInv'
  <2> DEFINE x == [buf[b] EXCEPT !.hold = @ + 1]
             s == [r EXCEPT !.mine = b]
  <2>1. b \in Linked /\ buf[b] \in Buffer
    BY DEF Find, Linked, CacheInv, IndexInv
  <2>2. x \in Buffer /\ x.hold # 0 /\ x.block = buf[b].block
    BY <2>1 DEF Buffer
  <2>3. s.call = r.call
    BY DEF Locals
  <2> HIDE DEF x, s
  <2>4. Link(b, x, ListFor(buf[b].state)) /\ Go(t, "wait", s)
    BY <1>2 DEF x, s
  <2> QED
    BY <1>1, <1>2, <2>1, <2>2, <2>3, <2>4, RestLink, ListForTyped
<1>3. ASSUME Return(t, NoBuffer), UNCHANGED cacheVars PROVE RestInv'
  <2>1. Rest(NoBuffer).call = "none" /\ Rest(NoBuffer).mine = NoBuffer
    BY DEF Rest
  <2>2. LifeInv'
    BY <1>0, <1>3, <2>1, LifeReturns DEF Return
  <2>3. Steady(t, "idle", Rest(NoBuffer))
    BY EmptyHanded DEF Steady, Waking, Seeking
  <2> QED
    BY <1>3, <2>2, <2>3, RestQuiet DEF Return
<1>4. ASSUME UNCHANGED cacheVars, NEW s, s.call = r.call, Go(t, "lookup", s) \/ Go(t, "alloc", s)
      PROVE  RestInv'
  BY <1>1, <1>4, RestQuiet
<1>5. [r EXCEPT !.blk = @ + 1, !.left = @ - 1].call = r.call
  BY DEF Locals
<1> QED
  BY <1>2, <1>3, <1>4, <1>5 DEF BufioNew, GiveUp

\* NewRead begins a call while the client is open.
LEMMA NewReadRest ==
  ASSUME ThreadsInv, CacheInv, RestInv, NEW t \in Threads, NEW c \in {"read", "new", "get"},
         NEW k \in Blocks, NewRead(t, c, k)
  PROVE  RestInv'
<1>1. Wanted(c, k, 0) \in Locals /\ Wanted(c, k, 0).call \in Getting
  BY WantedFacts, BlocksAssumption DEF Getting
<1> QED
  BY <1>1, BufioNewRest DEF NewRead, Call

\* Prefetch: so does a prefetch.
LEMMA PrefetchRest ==
  ASSUME ThreadsInv, CacheInv, RestInv, NEW t \in Threads, NEW k \in Blocks,
         NEW n \in PrefetchSizes, Prefetch(t, k, n)
  PROVE  RestInv'
<1>1. n - 1 \in Nat /\ \A i \in 0 .. n - 1 : k + i \in Blocks
  BY SizesAssumption DEF Prefetch
<1>2. Wanted("prefetch", k, n - 1) \in Locals /\ Wanted("prefetch", k, n - 1).call \in Getting
  BY <1>1, WantedFacts DEF Getting
<1> QED
  BY <1>2, BufioNewRest DEF Prefetch, Call

\* Lookup is BufioNew again.
LEMMA LookupRest ==
  ASSUME ThreadsInv, CacheInv, RestInv, NEW t \in Threads, Lookup(t)
  PROVE  RestInv'
<1>1. loc[t] \in Locals /\ ThreadOK(pc[t], loc[t])
  BY ThreadFacts
<1>2. pc[t] = "lookup" \/ (pc[t] = "relock" /\ loc[t].call = "prefetch")
  BY DEF Lookup
<1>3. loc[t].call \in Getting
  BY <1>1, <1>2 DEF ThreadOK, Possession, Getting
<1> QED
  BY <1>1, <1>2, <1>3, BufioNewRest DEF Lookup

\* Alloc takes a buffer, picks a victim, or sleeps when every buffer is held.
LEMMA AllocRest ==
  ASSUME ThreadsInv, CacheInv, RestInv, NEW t \in Threads, Alloc(t)
  PROVE  RestInv'
<1>0. /\ loc[t] \in Locals /\ loc[t].call \in Getting /\ pc[t] = "alloc" /\ lock = t
      /\ LifeInv /\ UNCHANGED status /\ Hand(pc[t], loc[t]) = NoBuffer
  <2>1. loc[t] \in Locals /\ ThreadOK(pc[t], loc[t]) /\ pc[t] = "alloc" /\ UNCHANGED status
    BY ThreadFacts DEF Alloc
  <2> QED
    BY <2>1, EmptyHanded DEF ThreadOK, Possession, RestInv, ThreadsInv, LockOwner
<1>1. ASSUME NEW b \in Buffers, buf[b].where \in {"free", "reserved"}, Take(b),
             need' = IF buf[b].where = "reserved" THEN need + 1 ELSE need,
             UNCHANGED <<recent, sleepers>>, Go(t, "recheck", [loc[t] EXCEPT !.newb = b])
      PROVE  RestInv'
  <2>1. b \notin Linked /\ buf[b].hold = 0
    BY <1>1 DEF Linked, Lists, CacheInv, IndexInv, UnlinkedUnheld
  <2>s. PICK s : s = [loc[t] EXCEPT !.newb = b]
    OBVIOUS
  <2>2. s.call = loc[t].call /\ Hand("recheck", s) = b /\ Go(t, "recheck", s)
    BY <1>0, <1>1, <2>s DEF Hand, Locals
  <2>3. LifeInv'
    BY <1>0, <2>2, LifeCall DEF Getting, Workers
  <2> QED
    BY <1>0, <1>1, <2>1, <2>2, <2>3, RestTake DEF Waking, Seeking
<1>2. CASE GiveUp(t, loc[t]) /\ UNCHANGED cacheVars
  <2>s. PICK s : s = [loc[t] EXCEPT !.blk = @ + 1, !.left = @ - 1]
    OBVIOUS
  <2>1. CASE Go(t, "lookup", s)
    <3>1. s.call = loc[t].call
      BY <1>0, <2>s DEF Locals
    <3>2. LifeInv' /\ Steady(t, "lookup", s)
      BY <1>0, <2>1, <3>1, LifeCall, EmptyHanded DEF Getting, Workers, Steady, Waking, Seeking
    <3> QED
      BY <1>0, <1>2, <2>1, <3>2, RestQuiet
  <2>2. CASE Return(t, NoBuffer)
    <3>1. Rest(NoBuffer).call = "none" /\ Rest(NoBuffer).mine = NoBuffer
      BY DEF Rest
    <3>2. LifeInv' /\ Steady(t, "idle", Rest(NoBuffer))
      BY <1>0, <2>2, <3>1, LifeReturns, EmptyHanded DEF Return, Steady, Waking, Seeking
    <3> QED
      BY <1>0, <1>2, <2>2, <3>2, RestQuiet DEF Return
  <2> QED
    BY <1>2, <2>s, <2>1, <2>2 DEF GiveUp
<1>3. ASSUME NEW b, Go(t, "clean", [loc[t] EXCEPT !.cur = b, !.then = "alloc"]), UNCHANGED cacheVars
      PROVE  RestInv'
  <2>s. PICK s : s = [loc[t] EXCEPT !.cur = b, !.then = "alloc"]
    OBVIOUS
  <2>1. s.call = loc[t].call /\ s.then = "alloc" /\ Go(t, "clean", s)
    BY <1>0, <1>3, <2>s DEF Locals
  <2>2. LifeInv'
    BY <1>0, <2>1, LifeCall DEF Getting, Workers
  <2>3. Steady(t, "clean", s)
    BY <1>0, <2>1 DEF Steady, Waking, Hand, Inserting, Seeking
  <2> QED
    BY <1>0, <1>3, <2>s, <2>2, <2>3, RestQuiet
<1>4. CASE /\ List("reserved") = {} /\ Unclaimed = {} /\ sleepers' = sleepers \cup {t}
           /\ Go(t, "asleep", [loc[t] EXCEPT !.then = "alloc"]) /\ UNCHANGED <<buf, recent, need>>
  <2>s. PICK s : s = [loc[t] EXCEPT !.then = "alloc"]
    OBVIOUS
  <2>1. s.call = loc[t].call /\ s.then = "alloc" /\ Go(t, "asleep", s)
    BY <1>0, <1>4, <2>s DEF Locals
  <2>2. LifeInv'
    BY <1>0, <2>1, LifeCall DEF Getting, Workers
  <2>3. \A p \in Lists : Unheld(List(p)) = {} \/ Oldest(Unheld(List(p))) # {}
    BY OldestExists DEF RestInv, Unheld
  <2>4. Unheld(List("clean")) = {} /\ Unheld(List("dirty")) = {}
    BY <1>4, <2>3 DEF Unclaimed, Lists
  <2>5. AllHeld
    BY <1>4, <2>4 DEF AllHeld, Unheld, Linked, List, Lists
  <2>6. WakeInv'
    BY <1>0, <1>4, <2>1, <2>5, WakeSleep DEF RestInv, Waking
  <2>7. ReserveInv'
    BY <1>0, <1>4, <2>1, EmptyHanded, ReserveKept DEF RestInv
  <2>8. AgeInv' /\ OrderInv' /\ SeekInv'
    BY <1>0, <1>4, <2>1, AgeKept, OrderKept, SeekBlocks DEF RestInv, Linked, Seeking
  <2> QED
    BY <2>2, <2>6, <2>7, <2>8 DEF RestInv
<1> QED
  BY <1>0, <1>1, <1>2, <1>3, <1>4 DEF Alloc, Lend, List

\* A thread that returns has nothing left but its reference.
LEMMA Returning ==
  ASSUME ThreadsInv, LifeInv, NEW t \in Threads, NEW m \in {NoBuffer, loc[t].mine}, Return(t, m),
         UNCHANGED status, pc[t] \notin Waking \cup {"asleep", "movecopy"}, Hand(pc[t], loc[t]) = NoBuffer
  PROVE  /\ LifeInv' /\ Go(t, "idle", Rest(m)) /\ Steady(t, "idle", Rest(m))
         /\ Rest(m).mine = m
<1>1. Rest(m).call = "none" /\ Rest(m).mine = m /\ Go(t, "idle", Rest(m))
  BY DEF Rest, Return
<1>2. LifeInv'
  BY <1>1, LifeReturns
<1>3. Steady(t, "idle", Rest(m))
  BY EmptyHanded DEF Steady, Waking, Seeking
<1> QED
  BY <1>1, <1>2, <1>3

\* WakeUp: who slept tries again, for the same.
LEMMA WakeUpRest ==
  ASSUME ThreadsInv, CacheInv, RestInv, NEW t \in Threads, WakeUp(t)
  PROVE  RestInv'
<1>0. /\ loc[t] \in Locals /\ pc[t] = "asleep" /\ LifeInv /\ UNCHANGED <<status, cacheVars>>
      /\ loc[t].then = IF loc[t].call \in Getting THEN "alloc" ELSE "move"
      /\ t \notin sleepers
  BY ThreadFacts DEF WakeUp, RestInv, ThreadOK, Continuation
<1>s. PICK s : s = [loc[t] EXCEPT !.then = "idle"]
  OBVIOUS
<1>1. /\ s.call = loc[t].call /\ s.mine = loc[t].mine /\ s.blk = loc[t].blk
      /\ Go(t, loc[t].then, s)
  BY <1>0, <1>s DEF Locals, WakeUp
<1>2. LifeInv'
  BY <1>0, <1>1, LifeCall
<1>3. Steady(t, loc[t].then, s)
  BY <1>0, <1>1, EmptyHanded DEF Steady, Waking, Seeking
<1> QED
  BY <1>0, <1>1, <1>2, <1>3, RestQuiet

\* Recheck keeps the new buffer in hand, or frees it.
LEMMA RecheckRest ==
  ASSUME ThreadsInv, CacheInv, RestInv, NEW t \in Threads, Recheck(t)
  PROVE  RestInv'
<1>0. /\ loc[t] \in Locals /\ loc[t].call \in Getting /\ pc[t] = "recheck" /\ lock = t
      /\ LifeInv /\ UNCHANGED status /\ Hand(pc[t], loc[t]) = loc[t].newb
      /\ loc[t].newb \in Buffers /\ buf[loc[t].newb].where = "hand"
  <2>1. /\ loc[t] \in Locals /\ ThreadOK(pc[t], loc[t]) /\ pc[t] = "recheck" /\ UNCHANGED status
        /\ LockHolderOK(pc[t], loc[t])
    BY ThreadFacts DEF Recheck, CacheInv
  <2> QED
    BY <2>1 DEF ThreadOK, Possession, LockHolderOK, InHand, RestInv, ThreadsInv, LockOwner, Hand
<1>1. CASE FreeBufferWake(loc[t].newb) /\ Go(t, "lookup", [loc[t] EXCEPT !.newb = NoBuffer])
  <2>s. PICK s : s = [loc[t] EXCEPT !.newb = NoBuffer]
    OBVIOUS
  <2>b. PICK b : b = loc[t].newb
    OBVIOUS
  <2>1. s.call = loc[t].call /\ Go(t, "lookup", s)
    BY <1>0, <1>1, <2>s DEF Locals
  <2>2. LifeInv'
    BY <1>0, <2>1, LifeCall DEF Getting, Workers
  <2>3. b \in Out /\ buf[b].hold = 0 /\ FreeBufferWake(b) /\ Hand(pc[t], loc[t]) = b
    BY <1>0, <1>1, <2>b DEF Out, CacheInv, IndexInv, UnlinkedUnheld, Linked, Lists
  <2> QED
    BY <1>0, <2>1, <2>2, <2>3, RestFree DEF Seeking
<1>2. ASSUME NEW x, Go(t, "watermark", [loc[t] EXCEPT !.lim = x]), UNCHANGED cacheVars
      PROVE  RestInv'
  <2>s. PICK s : s = [loc[t] EXCEPT !.lim = x]
    OBVIOUS
  <2>1. s.call = loc[t].call /\ s.newb = loc[t].newb /\ Go(t, "watermark", s)
    BY <1>0, <1>2, <2>s DEF Locals
  <2>2. LifeInv'
    BY <1>0, <2>1, LifeCall DEF Getting, Workers
  <2>3. Steady(t, "watermark", s)
    BY <1>0, <2>1 DEF Steady, Waking, Seeking, Hand, Inserting
  <2> QED
    BY <1>0, <1>2, <2>1, <2>2, <2>3, RestQuiet
<1> QED
  BY <1>1, <1>2 DEF Recheck

\* Watermark picks a victim, starts a write-back, or goes on, with its buffer.
LEMMA WatermarkRest ==
  ASSUME ThreadsInv, CacheInv, RestInv, NEW t \in Threads, Watermark(t)
  PROVE  RestInv'
<1>0. /\ loc[t] \in Locals /\ loc[t].call \in Getting /\ pc[t] = "watermark"
      /\ LifeInv /\ UNCHANGED <<status, cacheVars>> /\ Hand(pc[t], loc[t]) = loc[t].newb
  <2>1. /\ loc[t] \in Locals /\ ThreadOK(pc[t], loc[t]) /\ pc[t] = "watermark"
        /\ UNCHANGED <<status, cacheVars>>
    BY ThreadFacts DEF Watermark
  <2> QED
    BY <2>1 DEF ThreadOK, Possession, RestInv, Hand, Inserting
<1>1. ASSUME NEW l \in {"clean", "link", "wb"}, NEW s, Go(t, l, s), s.call = loc[t].call,
             s.newb = loc[t].newb, l = "clean" => s.then = "watermark", l = "wb" => s.then = "link"
      PROVE  RestInv'
  <2>2. LifeInv'
    BY <1>0, <1>1, LifeCall DEF Getting, Workers
  <2>3. Steady(t, l, s)
    BY <1>0, <1>1 DEF Steady, Waking, Seeking, Hand, Inserting
  <2> QED
    BY <1>0, <1>1, <2>2, <2>3, RestQuiet
<1>2. ASSUME NEW b, Go(t, "clean", [loc[t] EXCEPT !.cur = b, !.then = "watermark"])
      PROVE  RestInv'
  <2>s. PICK s : s = [loc[t] EXCEPT !.cur = b, !.then = "watermark"]
    OBVIOUS
  <2>1. s.call = loc[t].call /\ s.newb = loc[t].newb /\ s.then = "watermark" /\ Go(t, "clean", s)
    BY <1>0, <1>2, <2>s DEF Locals
  <2> QED
    BY <1>1, <2>1
<1>3. ASSUME Go(t, "wb", [loc[t] EXCEPT !.walk = List("dirty"), !.then = "link"])
      PROVE  RestInv'
  <2>s. PICK s : s = [loc[t] EXCEPT !.walk = List("dirty"), !.then = "link"]
    OBVIOUS
  <2>1. s.call = loc[t].call /\ s.newb = loc[t].newb /\ s.then = "link" /\ Go(t, "wb", s)
    BY <1>0, <1>3, <2>s DEF Locals
  <2> QED
    BY <1>1, <2>1
<1> QED
  BY <1>1, <1>2, <1>3 DEF Watermark

\* LinkNew: the buffer in hand comes to the head of the clean list, held.
LEMMA LinkNewRest ==
  ASSUME ThreadsInv, CacheInv, RestInv, NEW t \in Threads, LinkNew(t)
  PROVE  RestInv'
<1>b. PICK b : b = loc[t].newb
  OBVIOUS
<1> DEFINE x == [buf[b] EXCEPT !.block = loc[t].blk, !.hold = 1, !.err = {},
               !.state = IF loc[t].call = "new" THEN {} ELSE {"reading"}]
<1>0. /\ loc[t] \in Locals /\ loc[t].call \in Getting /\ pc[t] = "link" /\ lock = t /\ LifeInv
      /\ UNCHANGED <<need, sleepers, status>> /\ Hand(pc[t], loc[t]) = b
      /\ b \in Buffers /\ buf[b].where = "hand" /\ loc[t].blk \in Blocks
  <2>1. /\ loc[t] \in Locals /\ ThreadOK(pc[t], loc[t]) /\ LockHolderOK(pc[t], loc[t])
        /\ pc[t] = "link" /\ lock = t /\ UNCHANGED <<need, sleepers, status>>
    BY ThreadFacts DEF CacheInv, LinkNew
  <2>2. loc[t].call \in Getting
    BY <2>1 DEF ThreadOK, Possession
  <2> QED
    BY <1>b, <2>1, <2>2 DEF ThreadOK, Possession, Inserting, BlockRange, LockHolderOK, InHand,
                            RestInv, Hand
<1>1. buf[b] \in Buffer /\ buf[b].hold = 0
  BY <1>0 DEF CacheInv, IndexInv, UnlinkedUnheld, Linked, Lists
<1>2. x \in Buffer /\ x.hold = 1 /\ [x EXCEPT !.where = "clean"].hold = 1
      /\ [x EXCEPT !.where = "clean"].where = "clean"
  <2>1. (IF loc[t].call = "new" THEN {} ELSE {"reading"}) \in SUBSET Bits
    BY DEF Bits
  <2> QED
    BY <1>0, <1>1, <2>1 DEF Buffer
<1>3. Link(b, x, "clean")
  BY <1>b DEF LinkNew
<1> HIDE DEF x
<1>4. /\ buf'[b].where = "clean" /\ buf'[b].hold = 1 /\ \A c \in Buffers \ {b} : buf'[c] = buf[c]
  BY <1>0, <1>2, <1>3 DEF Link, CacheInv, IndexInv
<1>5. PICK l, s : l \in {"flush", "wait", "submit"} /\ s.call = loc[t].call /\ Go(t, l, s)
  <2>1. \A a : [loc[t] EXCEPT !.mine = loc[t].newb, !.newb = NoBuffer, !.then = a, !.lim = 0].call
               = loc[t].call
    BY <1>0 DEF Locals
  <2> QED
    BY <2>1 DEF LinkNew
<1>6. LifeInv'
  BY <1>0, <1>5, LifeCall DEF Getting, Workers
<1>7. OrderInv'
  BY <1>0, <1>2, <1>3, OrderLink DEF RestInv, Lists
<1>8. ReserveInv'
  BY <1>0, <1>4, <1>5, ReserveLink DEF RestInv, List, Lists
<1>9. WakeInv'
  BY <1>0, <1>4, <1>5, WakeKept DEF RestInv, Waking, Lists
<1>10. AgeInv'
  BY <1>0, <1>5, AgeKept DEF RestInv
<1>11. SeekInv'
  BY <1>0, <1>1, <1>4, <1>5, SeekBlocks DEF RestInv, Seeking
<1> QED
  BY <1>6, <1>7, <1>8, <1>9, <1>10, <1>11 DEF RestInv

\* Flush submits one write after the other, and goes on or returns.
LEMMA FlushRest ==
  ASSUME ThreadsInv, CacheInv, RestInv, NEW t \in Threads, Flush(t)
  PROVE  RestInv'
<1>0. /\ loc[t] \in Locals /\ ThreadOK(pc[t], loc[t]) /\ pc[t] = "flush" /\ LifeInv
      /\ CallOK(pc[t], loc[t]) /\ UNCHANGED <<cacheVars, status>> /\ Hand(pc[t], loc[t]) = NoBuffer
  BY ThreadFacts, EmptyHanded DEF Flush, RestInv, LifeInv
<1>1. ASSUME NEW b, Go(t, "flush", [loc[t] EXCEPT !.wl = @ \ {b}]) PROVE RestInv'
  <2>s. PICK s : s = [loc[t] EXCEPT !.wl = @ \ {b}]
    OBVIOUS
  <2>1. /\ s.call = loc[t].call /\ s.mine = loc[t].mine /\ s.then = loc[t].then
        /\ Go(t, "flush", s)
    BY <1>0, <1>1, <2>s DEF Locals
  <2>2. CallOK("flush", s)
    BY <1>0, <2>1 DEF CallOK, Destroying
  <2>3. LifeInv'
    BY <1>0, <2>1, <2>2, LifeGoesOn
  <2>4. Steady(t, "flush", s)
    BY <1>0, <2>1, EmptyHanded DEF Steady, Waking, Seeking
  <2> QED
    BY <1>0, <2>1, <2>3, <2>4, RestQuiet
<1>2. CASE Return(t, loc[t].mine)
  BY <1>0, <1>2, Returning, RestQuiet DEF Waking
<1>3. CASE Go(t, loc[t].then, loc[t]) /\ loc[t].then # "idle"
  <2>1. loc[t].then \in {"submit", "wait", "relock"}
    BY <1>0, <1>3 DEF ThreadOK, Continuation
  <2>2. CallOK(loc[t].then, loc[t])
    BY <1>0, <2>1 DEF CallOK, Destroying
  <2>3. LifeInv'
    BY <1>0, <1>3, <2>2, LifeGoesOn
  <2>4. Steady(t, loc[t].then, loc[t])
    BY <1>0, <2>1, EmptyHanded DEF Steady, Waking, Seeking
  <2> QED
    BY <1>0, <1>3, <2>3, <2>4, RestQuiet
<1> QED
  BY <1>1, <1>2, <1>3 DEF Flush

\* SubmitRead goes on to wait, or to give the buffer back.
LEMMA SubmitReadRest ==
  ASSUME ThreadsInv, CacheInv, RestInv, NEW t \in Threads, SubmitRead(t)
  PROVE  RestInv'
<1>0. /\ loc[t].call \in Getting /\ pc[t] = "submit" /\ LifeInv /\ UNCHANGED <<cacheVars, status>>
  BY ThreadFacts DEF SubmitRead, ThreadOK, Possession, RestInv
<1>1. PICK l \in {"release", "wait"} : Go(t, l, loc[t])
  BY DEF SubmitRead
<1>2. LifeInv'
  BY <1>0, <1>1, LifeCall DEF Getting, Workers
<1>3. Steady(t, l, loc[t])
  BY <1>0, <1>1, EmptyHanded DEF Steady, Waking, Seeking
<1> QED
  BY <1>0, <1>1, <1>2, <1>3, RestQuiet

\* WaitRead returns the buffer, fills it, or gives it back.
LEMMA WaitReadRest ==
  ASSUME ThreadsInv, CacheInv, RestInv, NEW t \in Threads, WaitRead(t)
  PROVE  RestInv'
<1>0. /\ loc[t].call \in Getting /\ pc[t] = "wait" /\ LifeInv /\ UNCHANGED <<cacheVars, status>>
      /\ Hand(pc[t], loc[t]) = NoBuffer
  BY ThreadFacts, EmptyHanded DEF WaitRead, ThreadOK, Possession, RestInv
<1>1. ASSUME NEW l \in {"release", "overwrite"}, Go(t, l, loc[t]) PROVE RestInv'
  <2>2. LifeInv'
    BY <1>0, <1>1, LifeCall DEF Getting, Workers
  <2>3. Steady(t, l, loc[t])
    BY <1>0, <1>1, EmptyHanded DEF Steady, Waking, Seeking
  <2> QED
    BY <1>0, <1>1, <2>2, <2>3, RestQuiet
<1>2. CASE Return(t, loc[t].mine)
  BY <1>0, <1>2, Returning, RestQuiet DEF Waking
<1> QED
  BY <1>1, <1>2 DEF WaitRead

-----------------------------------------------------------------------------
(* Giving a buffer back, and making it dirty.                              *)

\* ReleaseRef: the last reference wakes everybody, or frees the buffer.
LEMMA ReleaseRefRest ==
  ASSUME ThreadsInv, CacheInv, RestInv, NEW t \in Threads, ReleaseRef(t)
  PROVE  RestInv'
<1>0. /\ loc[t] \in Locals /\ pc[t] \in {"release", "idle"} /\ LifeInv
      /\ lock = Nobody /\ UNCHANGED status /\ Hand(pc[t], loc[t]) = NoBuffer
  BY ThreadFacts, EmptyHanded DEF ReleaseRef, RestInv
<1>1. PICK b \in Buffers : b = loc[t].mine
  BY ThreadFacts DEF ReleaseRef, ThreadOK, Possession, Locals
<1>2. /\ b \in Linked /\ buf[b].hold \in Nat \ {0} /\ buf[b] \in Buffer /\ b \in Out
      /\ buf[b].where \in Lists
  <2>1. b \in Linked /\ buf[b].hold \in Nat \ {0} /\ buf[b] \in Buffer
    BY <1>1, HeldLinked
  <2> QED
    BY <2>1 DEF Out, Linked
<1>3. status = "open"
  BY <1>0, <1>1, NobodyLeaves, BuffersAssumption
<1>4. PICK l, s : /\ l \in {"relock", "idle"} /\ s.mine = NoBuffer /\ Go(t, l, s)
                  /\ LifeInv' /\ Steady(t, l, s)
  <2>1. CASE Return(t, NoBuffer)
    BY <1>0, <2>1, Returning DEF Waking
  <2>2. CASE Go(t, "relock", Wanted("prefetch", loc[t].blk + 1, loc[t].left - 1))
    <3>s. PICK s : s = Wanted("prefetch", loc[t].blk + 1, loc[t].left - 1)
      OBVIOUS
    <3>1. s.call = "prefetch" /\ s.mine = NoBuffer /\ Go(t, "relock", s)
      BY <2>2, <3>s DEF Wanted, Rest
    <3>2. LifeInv'
      BY <1>0, <1>3, <3>1, LifeOpen DEF Workers
    <3>3. Steady(t, "relock", s)
      BY <1>0, EmptyHanded DEF Steady, Waking, Seeking
    <3> QED
      BY <3>1, <3>2, <3>3
  <2> QED
    BY <2>1, <2>2 DEF ReleaseRef
<1>5. CASE buf[b].hold = 1 /\ FreeBufferWake(b)
  <2>1. s.mine # b /\ Hand(l, s) = Hand(pc[t], loc[t]) /\ ~Seeking(l, s)
    BY <1>1, <1>4, BuffersAssumption DEF Steady, Seeking
  <2> QED
    BY <1>0, <1>1, <1>2, <1>4, <1>5, <2>1, RestFree
<1>6. CASE buf' = [buf EXCEPT ![b] = Unhold(@)] /\ WakeIfLast(b) /\ UNCHANGED <<recent, need>>
  <2>x. PICK x : x = [buf[b] EXCEPT !.hold = @ - 1]
    OBVIOUS
  <2>1. x.where = buf[b].where /\ x.block = buf[b].block /\ x.hold = buf[b].hold - 1
    BY <1>2, <2>x DEF Buffer
  <2>2. buf'[b] = x /\ \A c \in Buffers \ {b} : buf'[c] = buf[c]
    BY <1>6, <2>x DEF Unhold, CacheInv, IndexInv
  <2>3. OrderInv'
    BY <1>6, <2>1, <2>2, OrderKept DEF RestInv
  <2>4. sleepers' \subseteq sleepers
    BY <1>6 DEF WakeIfLast
  <2>5. sleepers' = {} \/ \A c \in Buffers : buf'[c].hold = 0 => buf[c].hold = 0
    BY <1>2, <1>6, <2>1, <2>2 DEF WakeIfLast
  <2>6. \A c \in Buffers : buf'[c].where = buf[c].where /\ buf'[c].block = buf[c].block
    BY <2>1, <2>2
  <2> QED
    BY <1>0, <1>4, <1>6, <2>3, <2>4, <2>5, <2>6, RestPlaces
<1> QED
  BY <1>1, <1>5, <1>6 DEF ReleaseRef

\* MakeDirty moves the buffer to the dirty list, and returns.
LEMMA MakeDirtyRest ==
  ASSUME ThreadsInv, CacheInv, RestInv, NEW t \in Threads, MakeDirty(t), loc[t].mine \in Buffers,
         pc[t] \in {"idle", "overwrite"}
  PROVE  RestInv'
<1>b. PICK b \in Buffers : b = loc[t].mine
  OBVIOUS
<1>x. PICK x : x = [buf[b] EXCEPT !.state = @ \cup {"dirty"}, !.gen = Bump(latest[buf[b].block])]
  OBVIOUS
<1>1. b \in Linked /\ buf[b] \in Buffer /\ Bump(latest[buf[b].block]) \in Gens
  BY <1>b, HeldLinked, BumpType
<1>2. x \in Buffer /\ x.where = buf[b].where /\ x.block = buf[b].block /\ x.hold = buf[b].hold
  <2>1. buf[b].state \cup {"dirty"} \in SUBSET Bits
    BY <1>1 DEF Buffer, Bits
  <2> QED
    BY <1>1, <1>x, <2>1 DEF Buffer
<1>3. UNCHANGED <<need, sleepers, status>> /\ Return(t, b)
  BY <1>b DEF MakeDirty
<1>4. LifeInv' /\ Go(t, "idle", Rest(b)) /\ Steady(t, "idle", Rest(b))
  BY <1>b, <1>3, Returning, EmptyHanded DEF RestInv, Waking
<1>5. CASE Link(b, x, "dirty")
  BY <1>1, <1>2, <1>3, <1>4, <1>5, RestLink DEF Lists
<1>6. CASE buf' = [buf EXCEPT ![b] = x] /\ UNCHANGED recent
  <2>1. SameIndex
    BY <1>2, <1>6, BitsFacts
  <2> QED
    BY <1>3, <1>4, <1>6, <2>1, RestStill
<1> QED
  BY <1>b, <1>x, <1>5, <1>6 DEF MakeDirty

\* MarkDirty, by the holder of a buffer.
LEMMA MarkDirtyRest ==
  ASSUME ThreadsInv, CacheInv, RestInv, NEW t \in Threads, MarkDirty(t)
  PROVE  RestInv'
<1>1. loc[t].mine \in Buffers /\ pc[t] = "idle" /\ MakeDirty(t)
  BY ThreadFacts DEF MarkDirty, Call, Locals
<1> QED
  BY <1>1, MakeDirtyRest

\* Overwrite, by the holder of a new buffer.
LEMMA OverwriteRest ==
  ASSUME ThreadsInv, CacheInv, RestInv, NEW t \in Threads, Overwrite(t)
  PROVE  RestInv'
<1>1. loc[t].mine \in Buffers /\ pc[t] = "overwrite" /\ MakeDirty(t)
  BY ThreadFacts DEF Overwrite, ThreadOK, Possession
<1> QED
  BY <1>1, MakeDirtyRest

\* A step of no thread leaves the life of the client as it is.
LEMMA LifeSame ==
  ASSUME LifeInv, UNCHANGED <<pc, loc, status>>
  PROVE  LifeInv'
BY DEF LifeInv, CallOK, Destroying

\* Forget frees an idle buffer.
LEMMA ForgetRest ==
  ASSUME ThreadsInv, CacheInv, RestInv, NEW t \in Threads, NEW k \in Blocks, Forget(t, k)
  PROVE  RestInv'
<1>1. PICK b \in Find(k) : buf[b].hold = 0 /\ FreeBufferWake(b)
  BY DEF Forget
<1>2. b \in Linked /\ b \in Out
  BY DEF Find, Linked, Out
<1>3. pc[t] = "idle" /\ lock = Nobody /\ UNCHANGED <<pc, loc, status>>
  BY DEF Forget, Call
<1>4. Go(t, "idle", loc[t]) /\ LifeInv'
  BY <1>3, LifeSame DEF Go, RestInv, ThreadsInv, ThreadsType
<1> QED
  BY <1>1, <1>2, <1>3, <1>4, RestFree, EmptyHanded DEF Seeking

-----------------------------------------------------------------------------
(* Making a buffer clean, and evicting it.                                 *)

\* Only bits, contents and requests change.
LEMMA RestSame ==
  ASSUME ThreadsInv, RestInv, UNCHANGED <<pc, loc, status, need, sleepers, recent>>, SameIndex
  PROVE  RestInv'
<1>1. /\ \A p : List(p)' = List(p)
      /\ Linked' = Linked /\ Out' = Out
      /\ \A b \in Buffers : buf'[b].hold = buf[b].hold
  BY DEF SameIndex, List, Linked, Out
<1>2. OrderInv'
  BY OrderKept DEF RestInv, SameIndex
<1>3. LifeInv'
  BY LifeSame DEF RestInv
<1>4. ReserveInv'
  BY <1>1 DEF RestInv, ReserveInv, ReserveAccounted, InHandOfOne, Inserting
<1>5. WakeInv'
  <2>1. AllHeld' = AllHeld
    BY <1>1 DEF AllHeld, Unheld, Linked
  <2>2. \A u \in Threads : OtherHeld(u) => OtherHeld(u)'
    BY <1>1 DEF OtherHeld, Linked
  <2>3. \A u \in Threads : WillWake(u)' = WillWake(u)
    BY DEF WillWake
  <2>4. \A u \in sleepers : pc[u] = "asleep"
    BY DEF RestInv, WakeInv
  <2>5. NoLostWakeup'
    <3>1. \A u \in sleepers : \/ \E v \in Threads : WillWake(v)
                              \/ loc[u].then = "alloc" /\ AllHeld
                              \/ loc[u].then = "move" /\ OtherHeld(u)
      BY DEF RestInv, WakeInv, NoLostWakeup
    <3>2. \A u : OtherHeld(u) => OtherHeld(u)'
      BY <1>1 DEF OtherHeld, Linked
    <3> QED
      BY <2>1, <2>3, <3>1, <3>2 DEF NoLostWakeup
  <2> QED
    BY <2>4, <2>5 DEF WakeInv
<1>6. AgeInv'
  BY <1>1 DEF RestInv, AgeInv
<1>7. SeekInv'
  <2>1. ASSUME NEW u \in Threads, Seeking(pc'[u], loc'[u])
        PROVE  /\ \A v \in Threads : pc'[v] = "movecopy" /\ loc'[v].mine = loc'[u].mine =>
                                      loc'[v].blk # loc'[u].blk
               /\ (\A v \in Threads : ~(pc'[v] = "movecopy" /\ loc'[v].mine = loc'[u].mine)) =>
                    buf'[loc'[u].mine].block # loc'[u].blk
    <3>1. loc[u].mine \in Buffers
      BY <2>1, ThreadFacts DEF ThreadOK, Possession, Moving, Seeking
    <3> QED
      BY <2>1, <3>1 DEF RestInv, SeekInv, Lenders, SameIndex
  <2> QED
    BY <2>1, SeekMade
<1> QED
  BY <1>2, <1>3, <1>4, <1>5, <1>6, <1>7 DEF RestInv

\* CleanWrite starts a write.
LEMMA CleanWriteRest ==
  ASSUME ThreadsInv, CacheInv, RestInv, NEW t \in Threads, CleanWrite(t)
  PROVE  RestInv'
<1>1. loc[t].cur \in Buffers /\ StartWrite(loc[t].cur)
  BY ThreadFacts DEF CleanWrite, ThreadOK, Possession
<1>2. SameIndex
  BY <1>1, StartWriteFacts
<1> QED
  BY <1>2, RestSame DEF CleanWrite

\* CleanDone: the victim comes into hand, or is freed.
LEMMA CleanDoneRest ==
  ASSUME ThreadsInv, CacheInv, RestInv, NEW t \in Threads, CleanDone(t)
  PROVE  RestInv'
<1>0. /\ loc[t] \in Locals /\ ThreadOK(pc[t], loc[t]) /\ LockHolderOK(pc[t], loc[t])
      /\ pc[t] = "clean" /\ lock = t /\ LifeInv /\ CallOK(pc[t], loc[t]) /\ UNCHANGED status
  BY ThreadFacts DEF CleanDone, CacheInv, RestInv, LifeInv
<1>b. PICK b \in Buffers : b = loc[t].cur /\ b \in Linked /\ buf[b].hold = 0
  BY <1>0 DEF LockHolderOK, Victim, Linked
<1>1. b \in Out /\ buf[b].where # "reserved"
  BY <1>b DEF Out, Linked, Lists
<1>2. ASSUME loc[t].then = "alloc", Take(b), recent' = Forgotten(b), UNCHANGED <<need, sleepers>>,
             Go(t, "recheck", [loc[t] EXCEPT !.newb = b, !.cur = NoBuffer, !.then = "idle"])
      PROVE  RestInv'
  <2>s. PICK s : s = [loc[t] EXCEPT !.newb = b, !.cur = NoBuffer, !.then = "idle"]
    OBVIOUS
  <2>1. s.call = loc[t].call /\ s.newb = b /\ Go(t, "recheck", s)
    BY <1>0, <1>2, <2>s DEF Locals
  <2>2. loc[t].call \in Getting
    BY <1>0, <1>2 DEF ThreadOK, Continuation
  <2>3. LifeInv'
    BY <1>0, <2>1, <2>2, LifeCall DEF Getting, Workers
  <2>4. Hand("recheck", s) = b /\ Hand(pc[t], loc[t]) = NoBuffer /\ ~Seeking("recheck", s)
    BY <1>0, <1>2, <2>1 DEF Hand, Inserting, Seeking
  <2> QED
    BY <1>0, <1>b, <1>1, <1>2, <2>1, <2>2, <2>3, <2>4, RestTake DEF Waking
<1>3. ASSUME loc[t].then \in {"watermark", "drop", "move"}, FreeBufferWake(b),
             Go(t, loc[t].then, [loc[t] EXCEPT !.cur = NoBuffer, !.then = "idle"])
      PROVE  RestInv'
  <2>s. PICK l, s : l = loc[t].then /\ s = [loc[t] EXCEPT !.cur = NoBuffer, !.then = "idle"]
    OBVIOUS
  <2>1. /\ s.call = loc[t].call /\ s.newb = loc[t].newb /\ s.mine = loc[t].mine
        /\ s.blk = loc[t].blk /\ s.then = "idle" /\ Go(t, l, s)
    BY <1>0, <1>3, <2>s DEF Locals
  <2>2. CallOK(l, s)
    BY <1>0, <1>3, <2>s, <2>1 DEF CallOK, Destroying, ThreadOK, Continuation
  <2>3. LifeInv'
    BY <1>0, <2>1, <2>2, LifeGoesOn
  <2>4. Hand(l, s) = Hand(pc[t], loc[t])
    BY <1>0, <1>3, <2>s, <2>1 DEF Hand, Inserting
  <2>5. Seeking(l, s) => Seeking(pc[t], loc[t])
    BY <1>0, <1>3, <2>s, <2>1 DEF Seeking
  <2> QED
    BY <1>0, <1>b, <1>1, <1>3, <2>s, <2>1, <2>3, <2>4, <2>5, RestFree
<1>4. ASSUME loc[t].then = "scan", FreeBufferWake(b), NEW l \in {"idle", "scan"}, NEW s, Go(t, l, s),
             LifeInv'
      PROVE  RestInv'
  <2>1. Hand(l, s) = Hand(pc[t], loc[t]) /\ ~Seeking(l, s)
    BY <1>0, <1>4 DEF Hand, Inserting, Seeking
  <2> QED
    BY <1>0, <1>b, <1>1, <1>4, <2>1, RestFree
<1>5. ASSUME loc[t].then = "scan", FreeBufferWake(b), Return(t, loc[t].mine)
      PROVE  RestInv'
  <2>1. Hand(pc[t], loc[t]) = NoBuffer
    BY <1>0, <1>5 DEF Hand, Inserting
  <2>2. LifeInv' /\ Go(t, "idle", Rest(loc[t].mine))
    BY <1>0, <1>5, <2>1, Returning DEF Waking
  <2> QED
    BY <1>4, <1>5, <2>2
<1>6. ASSUME loc[t].then = "scan", FreeBufferWake(b),
             Go(t, "scan", [loc[t] EXCEPT !.left = @ - 1, !.count = @ - 1, !.cur = NoBuffer])
      PROVE  RestInv'
  <2>s. PICK s : s = [loc[t] EXCEPT !.left = @ - 1, !.count = @ - 1, !.cur = NoBuffer]
    OBVIOUS
  <2>1. s.call = loc[t].call /\ s.mine = loc[t].mine /\ Go(t, "scan", s)
    BY <1>0, <1>6, <2>s DEF Locals
  <2>2. CallOK("scan", s)
    BY <1>0, <1>6, <2>1 DEF CallOK, Destroying
  <2>3. LifeInv'
    BY <1>0, <2>1, <2>2, LifeGoesOn
  <2> QED
    BY <1>4, <1>6, <2>1, <2>3
<1>7. [loc[t] EXCEPT !.left = @ - 1, !.count = @ - 1, !.cur = NoBuffer].mine = loc[t].mine
  BY <1>0 DEF Locals
<1> QED
  BY <1>b, <1>2, <1>3, <1>5, <1>6, <1>7 DEF CleanDone, Scanned

-----------------------------------------------------------------------------
(* Writing back.                                                           *)

\* A call begins while the client is open, and changes nothing of the cache.
LEMMA BeginsRest ==
  ASSUME ThreadsInv, CacheInv, RestInv, NEW t \in Threads, NEW s, Go(t, "wb", s),
         pc[t] = "idle", status = "open", UNCHANGED <<status, cacheVars>>,
         s.call \notin Workers \cup {"destroy"},
         s.then # "link"
  PROVE  RestInv'
<1>1. LifeInv'
  BY LifeOpen DEF RestInv
<1>2. Steady(t, "wb", s)
  BY EmptyHanded DEF Steady, Waking, Seeking, Hand, Inserting
<1> QED
  BY <1>1, <1>2, RestQuiet

\* WriteAsync.
LEMMA WriteAsyncRest ==
  ASSUME ThreadsInv, CacheInv, RestInv, NEW t \in Threads, WriteAsync(t)
  PROVE  RestInv'
<1>s. PICK s : s = [loc[t] EXCEPT !.call = "async", !.walk = List("dirty"), !.then = "idle"]
  OBVIOUS
<1>1. s.call = "async" /\ s.then = "idle"
  BY <1>s, ThreadFacts DEF Locals
<1>2. Go(t, "wb", s) /\ pc[t] = "idle" /\ status = "open" /\ UNCHANGED <<status, cacheVars>>
  BY <1>s DEF WriteAsync, StartWriteBack, Call
<1> QED
  BY <1>1, <1>2, BeginsRest DEF Workers

\* Sync.
LEMMA SyncRest ==
  ASSUME ThreadsInv, CacheInv, RestInv, NEW t \in Threads, Sync(t)
  PROVE  RestInv'
<1>s. PICK s : s = [loc[t] EXCEPT !.call = "sync", !.walk = List("dirty"),
                                  !.then = "relock", !.snap = latest, !.res = FALSE]
  OBVIOUS
<1>1. s.call = "sync" /\ s.then = "relock"
  BY <1>s, ThreadFacts DEF Locals
<1>2. Go(t, "wb", s) /\ pc[t] = "idle" /\ status = "open" /\ UNCHANGED <<status, cacheVars>>
  BY <1>s DEF Sync, Call
<1> QED
  BY <1>1, <1>2, BeginsRest DEF Workers

\* WriteBack relinks what is clean, starts writes, and goes on.
LEMMA WriteBackRest ==
  ASSUME ThreadsInv, CacheInv, RestInv, NEW t \in Threads, WriteBack(t)
  PROVE  RestInv'
<1>0. /\ loc[t] \in Locals /\ ThreadOK(pc[t], loc[t]) /\ LockHolderOK(pc[t], loc[t])
      /\ pc[t] = "wb" /\ LifeInv /\ CallOK(pc[t], loc[t]) /\ UNCHANGED <<status, need, sleepers>>
  BY ThreadFacts DEF WriteBack, CacheInv, RestInv, LifeInv
<1>1. \A b \in Oldest(loc[t].walk) : b \in Linked /\ b \in Buffers /\ buf[b] \in Buffer
  BY <1>0 DEF LockHolderOK, Walking, Oldest, Linked, CacheInv, IndexInv
<1>2. ASSUME NEW s, Go(t, "wb", s), s.call = loc[t].call, s.mine = loc[t].mine,
             s.then = loc[t].then, s.newb = loc[t].newb
      PROVE  LifeInv' /\ Steady(t, "wb", s)
  <2>1. CallOK("wb", s)
    BY <1>0, <1>2 DEF CallOK, Destroying
  <2>2. LifeInv'
    BY <1>0, <1>2, <2>1, LifeGoesOn
  <2>3. Steady(t, "wb", s)
    BY <1>0, <1>2 DEF Steady, Waking, Seeking, Hand, Inserting
  <2> QED
    BY <2>2, <2>3
<1>3. ASSUME NEW W, NEW X
      PROVE  LET s == [loc[t] EXCEPT !.walk = W, !.wl = X]
             IN  s.call = loc[t].call /\ s.mine = loc[t].mine /\ s.then = loc[t].then /\ s.newb = loc[t].newb
  BY <1>0 DEF Locals
<1>4. ASSUME NEW W
      PROVE  LET s == [loc[t] EXCEPT !.walk = W]
             IN  s.call = loc[t].call /\ s.mine = loc[t].mine /\ s.then = loc[t].then /\ s.newb = loc[t].newb
  BY <1>0 DEF Locals
<1>5. ASSUME NEW b \in Oldest(loc[t].walk), Link(b, buf[b], "clean"),
             Go(t, "wb", [loc[t] EXCEPT !.walk = @ \ {b}])
      PROVE  RestInv'
  <2>s. PICK s : s = [loc[t] EXCEPT !.walk = @ \ {b}]
    OBVIOUS
  <2>1. LifeInv' /\ Steady(t, "wb", s) /\ Go(t, "wb", s)
    BY <1>2, <1>4, <1>5, <2>s
  <2> QED
    BY <1>0, <1>1, <1>5, <2>1, RestLink DEF Lists
<1>6. ASSUME NEW b \in Oldest(loc[t].walk), StartWrite(b), UNCHANGED recent,
             Go(t, "wb", [loc[t] EXCEPT !.walk = @ \ {b}, !.wl = @ \cup {b}])
      PROVE  RestInv'
  <2>s. PICK s : s = [loc[t] EXCEPT !.walk = @ \ {b}, !.wl = @ \cup {b}]
    OBVIOUS
  <2>1. LifeInv' /\ Steady(t, "wb", s) /\ Go(t, "wb", s)
    BY <1>2, <1>3, <1>6, <2>s
  <2>2. SameIndex
    BY <1>1, <1>6, StartWriteFacts
  <2> QED
    BY <1>0, <1>6, <2>1, <2>2, RestStill
<1>7. ASSUME NEW W, Go(t, "wb", [loc[t] EXCEPT !.walk = W]), UNCHANGED <<buf, recent>>
      PROVE  RestInv'
  <2>s. PICK s : s = [loc[t] EXCEPT !.walk = W]
    OBVIOUS
  <2>1. LifeInv' /\ Steady(t, "wb", s) /\ Go(t, "wb", s)
    BY <1>2, <1>4, <1>7, <2>s
  <2> QED
    BY <1>0, <1>7, <2>1, RestQuiet DEF cacheVars
<1>8. ASSUME NEW l, l = IF loc[t].then = "link" THEN "link" ELSE "flush", Go(t, l, loc[t]),
             UNCHANGED <<buf, recent>>
      PROVE  RestInv'
  <2>1. CallOK(l, loc[t])
    BY <1>0, <1>8 DEF CallOK, Destroying
  <2>2. LifeInv'
    BY <1>0, <1>8, <2>1, LifeGoesOn
  <2>3. Steady(t, l, loc[t])
    BY <1>0, <1>8 DEF Steady, Waking, Seeking, Hand, Inserting
  <2> QED
    BY <1>0, <1>8, <2>2, <2>3, RestQuiet DEF cacheVars
<1> QED
  BY <1>5, <1>6, <1>7, <1>8 DEF WriteBack

\* SyncWalk begins the second walk.
LEMMA SyncWalkRest ==
  ASSUME ThreadsInv, CacheInv, RestInv, NEW t \in Threads, SyncWalk(t)
  PROVE  RestInv'
<1>0. pc[t] = "relock" /\ loc[t].call = "sync" /\ LifeInv /\ UNCHANGED <<status, cacheVars>>
  BY DEF SyncWalk, RestInv
<1>s. PICK s : s = [loc[t] EXCEPT !.walk = List("dirty")]
  OBVIOUS
<1>1. s.call = loc[t].call /\ Go(t, "sync", s)
  BY <1>s, ThreadFacts DEF Locals, SyncWalk
<1>2. LifeInv'
  BY <1>0, <1>1, LifeCall DEF Workers
<1>3. Steady(t, "sync", s)
  BY <1>0, EmptyHanded DEF Steady, Waking, Seeking
<1> QED
  BY <1>0, <1>1, <1>2, <1>3, RestQuiet

\* A flush goes on, and will still wake the sleepers.
LEMMA FlushGoesOn ==
  ASSUME ThreadsInv, CacheInv, RestInv, NEW t \in Threads, NEW l \in Waking, NEW s, Go(t, l, s),
         UNCHANGED status, pc[t] \in Waking, s.call = loc[t].call, s.mine = loc[t].mine
  PROVE  LifeInv' /\ Steady(t, l, s)
<1>1. LifeInv'
  BY LifeCall DEF RestInv, Waking
<1>2. Steady(t, l, s)
  BY EmptyHanded DEF Steady, Waking, Seeking
<1> QED
  BY <1>1, <1>2

\* SyncVisit relinks a buffer, or waits for one.
LEMMA SyncVisitRest ==
  ASSUME ThreadsInv, CacheInv, RestInv, NEW t \in Threads, SyncVisit(t)
  PROVE  RestInv'
<1>0. /\ loc[t] \in Locals /\ pc[t] = "sync" /\ pc[t] \in Waking
      /\ UNCHANGED <<status, need, sleepers>> /\ LockHolderOK(pc[t], loc[t])
  BY ThreadFacts DEF SyncVisit, CacheInv, Waking
<1>r. PICK r : r = [loc[t] EXCEPT !.count = Processed(loc[t])]
  OBVIOUS
<1>1. r.walk = loc[t].walk
  BY <1>0, <1>r DEF Locals
<1>b. PICK b \in Oldest(r.walk) :
        \/ /\ buf' = [buf EXCEPT ![b].hold = @ + 1] /\ UNCHANGED recent
           /\ Go(t, "syncwait", [r EXCEPT !.cur = b, !.walk = {}])
        \/ /\ Go(t, "park", [r EXCEPT !.cur = b]) /\ UNCHANGED <<buf, recent>>
        \/ /\ Settle(b, buf[b]) /\ Go(t, "sync", [r EXCEPT !.walk = @ \ {b}])
  BY <1>r DEF SyncVisit
<1>2. /\ b \in Linked /\ b \in Buffers /\ buf[b] \in Buffer
  BY <1>0, <1>1 DEF LockHolderOK, Walking, Oldest, Linked, CacheInv, IndexInv
<1>3. CASE buf' = [buf EXCEPT ![b].hold = @ + 1] /\ UNCHANGED recent
           /\ Go(t, "syncwait", [r EXCEPT !.cur = b, !.walk = {}])
  <2>s. PICK s : s = [r EXCEPT !.cur = b, !.walk = {}]
    OBVIOUS
  <2>1. s.call = loc[t].call /\ s.mine = loc[t].mine /\ Go(t, "syncwait", s)
    BY <1>0, <1>3, <1>r, <2>s DEF Locals
  <2>2. LifeInv' /\ Steady(t, "syncwait", s)
    BY <1>0, <2>1, FlushGoesOn DEF Waking
  <2>x. PICK x : x = [buf[b] EXCEPT !.hold = @ + 1]
    OBVIOUS
  <2>3. x.where = buf[b].where /\ x.block = buf[b].block
    BY <1>2, <2>x DEF Buffer
  <2>4. buf'[b] = x /\ \A c \in Buffers \ {b} : buf'[c] = buf[c]
    BY <1>2, <1>3, <2>x DEF CacheInv, IndexInv
  <2>5. OrderInv'
    BY <1>3, <2>3, <2>4, OrderKept DEF RestInv
  <2>6. \A c \in Buffers : buf'[c].where = buf[c].where /\ buf'[c].block = buf[c].block
    BY <2>3, <2>4
  <2> QED
    BY <1>0, <2>1, <2>2, <2>5, <2>6, RestPlaces DEF Waking
<1>4. CASE Go(t, "park", [r EXCEPT !.cur = b]) /\ UNCHANGED <<buf, recent>>
  <2>s. PICK s : s = [r EXCEPT !.cur = b]
    OBVIOUS
  <2>1. s.call = loc[t].call /\ s.mine = loc[t].mine /\ Go(t, "park", s)
    BY <1>0, <1>4, <1>r, <2>s DEF Locals
  <2>2. LifeInv' /\ Steady(t, "park", s)
    BY <1>0, <2>1, FlushGoesOn DEF Waking
  <2> QED
    BY <1>0, <1>4, <2>1, <2>2, RestQuiet DEF cacheVars
<1>5. CASE Settle(b, buf[b]) /\ Go(t, "sync", [r EXCEPT !.walk = @ \ {b}])
  <2>s. PICK s : s = [r EXCEPT !.walk = @ \ {b}]
    OBVIOUS
  <2>1. s.call = loc[t].call /\ s.mine = loc[t].mine /\ Go(t, "sync", s)
    BY <1>0, <1>5, <1>r, <2>s DEF Locals
  <2>2. LifeInv' /\ Steady(t, "sync", s)
    BY <1>0, <2>1, FlushGoesOn DEF Waking
  <2> QED
    BY <1>0, <1>2, <1>5, <2>1, <2>2, RestSettle
<1> QED
  BY <1>b, <1>3, <1>4, <1>5

\* SyncPark relinks the buffer it waited for.
LEMMA SyncParkRest ==
  ASSUME ThreadsInv, CacheInv, RestInv, NEW t \in Threads, SyncPark(t)
  PROVE  RestInv'
<1>b. PICK b : b = loc[t].cur
  OBVIOUS
<1>0. /\ loc[t] \in Locals /\ pc[t] = "park" /\ UNCHANGED <<status, need, sleepers>>
      /\ b \in Linked /\ buf[b] \in Buffer /\ Settle(b, buf[b])
  <2>1. loc[t] \in Locals /\ pc[t] = "park" /\ LockHolderOK(pc[t], loc[t]) /\ Settle(b, buf[b])
    BY <1>b, ThreadFacts DEF SyncPark, CacheInv
  <2>2. b \in Linked
    BY <1>b, <2>1 DEF LockHolderOK, Walking
  <2> QED
    BY <2>1, <2>2 DEF SyncPark, Linked, CacheInv, IndexInv
<1>s. PICK s : s = [loc[t] EXCEPT !.walk = @ \ {b}, !.cur = NoBuffer]
  OBVIOUS
<1>1. s.call = loc[t].call /\ s.mine = loc[t].mine /\ Go(t, "sync", s)
  BY <1>0, <1>b, <1>s DEF Locals, SyncPark
<1>2. LifeInv' /\ Steady(t, "sync", s)
  BY <1>0, <1>1, FlushGoesOn DEF Waking
<1> QED
  BY <1>0, <1>1, <1>2, RestSettle

\* SyncWake.
LEMMA SyncWakeRest ==
  ASSUME ThreadsInv, CacheInv, RestInv, NEW t \in Threads, SyncWake(t)
  PROVE  RestInv'
<1>0. pc[t] = "syncwait" /\ Go(t, "syncrelock", loc[t]) /\ UNCHANGED <<status, cacheVars>>
  BY DEF SyncWake
<1>1. LifeInv' /\ Steady(t, "syncrelock", loc[t])
  BY <1>0, FlushGoesOn DEF Waking
<1> QED
  BY <1>0, <1>1, RestQuiet

\* SyncRelock gives its reference back, which it may as it will wake everybody.
LEMMA SyncRelockRest ==
  ASSUME ThreadsInv, CacheInv, RestInv, NEW t \in Threads, SyncRelock(t)
  PROVE  RestInv'
<1>b. PICK b : b = loc[t].cur
  OBVIOUS
<1>0. /\ loc[t] \in Locals /\ pc[t] = "syncrelock" /\ UNCHANGED <<status, need, sleepers>>
      /\ b \in Buffers /\ Settle(b, Unhold(buf[b]))
  BY <1>b, ThreadFacts DEF SyncRelock, ThreadOK, Possession
<1>1. /\ b \in Linked /\ buf[b] \in Buffer /\ buf[b].hold \in Nat \ {0}
  BY <1>0, <1>b, HeldLinked DEF Flushing
<1>x. PICK x : x = Unhold(buf[b])
  OBVIOUS
<1>2. x \in Buffer /\ x.where = buf[b].where /\ x.block = buf[b].block
  BY <1>1, <1>x DEF Unhold, Buffer
<1>s. PICK s : s = [loc[t] EXCEPT !.cur = NoBuffer, !.walk = {c \in Buffers : buf'[c].where = "dirty"}]
  OBVIOUS
<1>3. s.call = loc[t].call /\ s.mine = loc[t].mine /\ Go(t, "sync", s)
  BY <1>0, <1>s DEF Locals, SyncRelock
<1>4. LifeInv' /\ Steady(t, "sync", s)
  BY <1>0, <1>3, FlushGoesOn DEF Waking
<1> QED
  BY <1>0, <1>1, <1>x, <1>2, <1>3, <1>4, RestSettle DEF Waking

\* SyncEnd wakes the sleepers.
LEMMA SyncEndRest ==
  ASSUME ThreadsInv, CacheInv, RestInv, NEW t \in Threads, SyncEnd(t)
  PROVE  RestInv'
<1>0. /\ loc[t] \in Locals /\ pc[t] = "sync" /\ UNCHANGED <<status, buf, recent, need>>
      /\ sleepers' = {}
  BY ThreadFacts DEF SyncEnd
<1>s. PICK s : s = [loc[t] EXCEPT !.count = 0]
  OBVIOUS
<1>1. s.call = loc[t].call /\ s.mine = loc[t].mine /\ Go(t, "xchg", s)
  BY <1>0, <1>s DEF Locals, SyncEnd
<1>2. LifeInv'
  BY <1>0, <1>1, LifeCall DEF RestInv
<1>3. ReserveInv'
  BY <1>0, <1>1, EmptyHanded, ReserveKept DEF RestInv
<1>4. OrderInv' /\ AgeInv' /\ SeekInv'
  BY <1>0, <1>1, OrderKept, AgeKept, SeekBlocks DEF RestInv, Linked, Seeking
<1> QED
  BY <1>0, <1>2, <1>3, <1>4, WakeAll DEF RestInv

\* TakeError.
LEMMA TakeErrorRest ==
  ASSUME ThreadsInv, CacheInv, RestInv, NEW t \in Threads, TakeError(t)
  PROVE  RestInv'
<1>0. loc[t] \in Locals /\ pc[t] = "xchg" /\ UNCHANGED <<status, cacheVars>>
  BY ThreadFacts DEF TakeError
<1>s. PICK s : s = [loc[t] EXCEPT !.res = asyncError]
  OBVIOUS
<1>1. s.call = loc[t].call /\ s.mine = loc[t].mine /\ Go(t, "issueflush", s)
  BY <1>0, <1>s DEF Locals, TakeError
<1>2. LifeInv'
  BY <1>0, <1>1, LifeCall DEF RestInv
<1>3. Steady(t, "issueflush", s)
  BY <1>0, EmptyHanded DEF Steady, Waking, Seeking
<1> QED
  BY <1>0, <1>1, <1>2, <1>3, RestQuiet

\* IssueFlush returns.
LEMMA IssueFlushRest ==
  ASSUME ThreadsInv, CacheInv, RestInv, NEW t \in Threads, IssueFlush(t)
  PROVE  RestInv'
<1>0. loc[t] \in Locals /\ pc[t] = "issueflush" /\ UNCHANGED <<status, cacheVars>>
  BY ThreadFacts DEF IssueFlush
<1>1. \A x : /\ [Rest(loc[t].mine) EXCEPT !.res = x].call = "none"
             /\ [Rest(loc[t].mine) EXCEPT !.res = x].mine = loc[t].mine
  BY DEF Rest
<1>2. PICK s : s.call = "none" /\ s.mine = loc[t].mine /\ Go(t, "idle", s)
  BY <1>1 DEF IssueFlush
<1>3. LifeInv'
  BY <1>0, <1>2, LifeReturns DEF RestInv
<1>4. Steady(t, "idle", s)
  BY <1>0, EmptyHanded DEF Steady, Waking, Seeking
<1> QED
  BY <1>0, <1>2, <1>3, <1>4, RestQuiet

-----------------------------------------------------------------------------
(* dm_bufio_release_move.                                                  *)

\* SeekInv of a step of the thread with the lock: nobody else lends a buffer,
\* and what the others see of its own, the block it will be left with, stays.
LEMMA SeekHolder ==
  ASSUME ThreadsInv, CacheInv, SeekInv, NEW t \in Threads, NEW l, NEW s, Go(t, l, s),
         lock \in {t, Nobody}, NEW b \in Buffers, loc[t].mine = b, s.mine = b,
         \A c \in Buffers \ {b} : buf'[c].block = buf[c].block,
         (IF l = "movecopy" THEN s.blk ELSE buf'[b].block) =
           (IF pc[t] = "movecopy" THEN loc[t].blk ELSE buf[b].block),
         Seeking(l, s) => l # "movecopy" /\ buf'[b].block # s.blk
  PROVE  SeekInv'
<1>1. /\ pc'[t] = l /\ loc'[t] = s
      /\ \A u \in Threads \ {t} : pc'[u] = pc[u] /\ loc'[u] = loc[u] /\ pc[u] # "movecopy"
  BY GoFacts, ThreadsAssumption DEF ThreadsInv, LockOwner
<1>2. ASSUME NEW u \in Threads, Seeking(pc'[u], loc'[u])
      PROVE  /\ \A v \in Threads : pc'[v] = "movecopy" /\ loc'[v].mine = loc'[u].mine =>
                                    loc'[v].blk # loc'[u].blk
             /\ (\A v \in Threads : ~(pc'[v] = "movecopy" /\ loc'[v].mine = loc'[u].mine)) =>
                  buf'[loc'[u].mine].block # loc'[u].blk
  <2>1. CASE u = t
    BY <1>1, <1>2, <2>1
  <2>2. CASE u # t
    <3>1. Seeking(pc[u], loc[u]) /\ loc'[u] = loc[u]
      BY <1>1, <1>2, <2>2
    <3>2. loc[u].mine \in Buffers
      BY <3>1, ThreadFacts DEF ThreadOK, Possession, Moving, Seeking
    <3>3. /\ \A v \in Threads : pc[v] = "movecopy" /\ loc[v].mine = loc[u].mine =>
                                  loc[v].blk # loc[u].blk
          /\ (\A v \in Threads : ~(pc[v] = "movecopy" /\ loc[v].mine = loc[u].mine)) =>
               buf[loc[u].mine].block # loc[u].blk
      BY <3>1 DEF SeekInv, Lenders
    <3>4. CASE loc[u].mine = b
      <4>1. (IF pc[t] = "movecopy" THEN loc[t].blk ELSE buf[b].block) # loc[u].blk
        BY <1>1, <3>3, <3>4
      <4> QED
        BY <1>1, <3>1, <3>4, <4>1
    <3>5. CASE loc[u].mine # b
      BY <1>1, <3>1, <3>2, <3>3, <3>5
    <3> QED
      BY <3>4, <3>5
  <2> QED
    BY <2>1, <2>2
<1> QED
  BY <1>2, SeekMade

\* Move: the buffer is of another block.
LEMMA MoveRest ==
  ASSUME ThreadsInv, CacheInv, RestInv, NEW t \in Threads, NEW k \in Blocks, Move(t, k)
  PROVE  RestInv'
<1>b. PICK b \in Buffers : b = loc[t].mine
  BY ThreadFacts DEF Move, Locals
<1>s. PICK s : s = [Rest(b) EXCEPT !.call = "move", !.blk = k]
  OBVIOUS
<1>0. /\ pc[t] = "idle" /\ status = "open" /\ lock = Nobody /\ UNCHANGED <<status, buf, recent, need, sleepers>>
      /\ buf[b].block # k /\ Go(t, "move", s)
  BY <1>b, <1>s DEF Move, Call, cacheVars
<1>1. s.call = "move" /\ s.mine = b /\ s.blk = k
  BY <1>s DEF Rest
<1>2. LifeInv'
  BY <1>0, <1>1, LifeOpen DEF RestInv, Workers
<1>3. ReserveInv'
  BY <1>0, EmptyHanded, ReserveKept DEF RestInv
<1>4. WakeInv'
  BY <1>0, WakeKept DEF RestInv, Waking
<1>5. SeekInv'
  BY <1>0, <1>1, <1>b, SeekHolder DEF RestInv
<1> QED
  BY <1>0, <1>2, <1>3, <1>4, <1>5, OrderKept, AgeKept DEF RestInv, Linked

\* MoveFind sleeps, picks a victim, or finds none.
LEMMA MoveFindRest ==
  ASSUME ThreadsInv, CacheInv, RestInv, NEW t \in Threads, MoveFind(t)
  PROVE  RestInv'
<1>0. /\ loc[t] \in Locals /\ loc[t].mine \in Buffers /\ pc[t] = "move" /\ lock = t /\ LifeInv
      /\ UNCHANGED <<status, buf, recent, need>> /\ Seeking(pc[t], loc[t])
  BY ThreadFacts DEF MoveFind, ThreadOK, Possession, Moving, RestInv, Seeking
<1>1. ASSUME NEW new \in Find(loc[t].blk), buf[new].hold # 0, sleepers' = sleepers \cup {t},
             Go(t, "asleep", [loc[t] EXCEPT !.then = "move"])
      PROVE  RestInv'
  <2>s. PICK s : s = [loc[t] EXCEPT !.then = "move"]
    OBVIOUS
  <2>1. /\ s.call = loc[t].call /\ s.mine = loc[t].mine /\ s.blk = loc[t].blk /\ s.then = "move"
        /\ Go(t, "asleep", s)
    BY <1>0, <1>1, <2>s DEF Locals
  <2>2. LifeInv'
    BY <1>0, <2>1, LifeCall
  <2>3. \A u \in Threads : pc[u] # "movecopy"
    BY <1>0 DEF ThreadsInv, LockOwner
  <2>4. buf[loc[t].mine].block # loc[t].blk
    BY <1>0, <2>3 DEF RestInv, SeekInv, Lenders
  <2>5. new \in Linked \ {s.mine}
    BY <2>1, <2>4 DEF Find
  <2>6. WakeInv'
    BY <1>0, <1>1, <2>1, <2>5, WakeSleep DEF RestInv, Waking
  <2>7. ReserveInv'
    BY <1>0, <2>1, EmptyHanded, ReserveKept DEF RestInv
  <2>8. AgeInv' /\ OrderInv' /\ SeekInv'
    BY <1>0, <2>1, AgeKept, OrderKept, SeekBlocks DEF RestInv, Linked
  <2> QED
    BY <2>2, <2>6, <2>7, <2>8 DEF RestInv
<1>2. ASSUME NEW new, UNCHANGED sleepers, Go(t, "clean", [loc[t] EXCEPT !.cur = new, !.then = "move"])
      PROVE  RestInv'
  <2>s. PICK s : s = [loc[t] EXCEPT !.cur = new, !.then = "move"]
    OBVIOUS
  <2>1. /\ s.call = loc[t].call /\ s.mine = loc[t].mine /\ s.blk = loc[t].blk /\ s.then = "move"
        /\ Go(t, "clean", s)
    BY <1>0, <1>2, <2>s DEF Locals
  <2>2. LifeInv'
    BY <1>0, <2>1, LifeCall
  <2>3. Steady(t, "clean", s)
    BY <1>0, <2>1 DEF Steady, Waking, Hand, Inserting
  <2> QED
    BY <1>0, <1>2, <2>1, <2>2, <2>3, RestQuiet DEF cacheVars
<1>3. CASE UNCHANGED sleepers /\ Go(t, "movewrite", loc[t])
  <2>2. LifeInv'
    BY <1>0, <1>3, LifeCall
  <2>3. Steady(t, "movewrite", loc[t])
    BY <1>0, EmptyHanded DEF Steady, Waking
  <2> QED
    BY <1>0, <1>3, <2>2, <2>3, RestQuiet DEF cacheVars
<1> QED
  BY <1>1, <1>2, <1>3 DEF MoveFind

\* MoveWrite starts a write, or need not.
LEMMA MoveWriteRest ==
  ASSUME ThreadsInv, CacheInv, RestInv, NEW t \in Threads, MoveWrite(t)
  PROVE  RestInv'
<1>0. /\ loc[t].mine \in Buffers /\ pc[t] = "movewrite" /\ LifeInv /\ Go(t, "relink", loc[t])
      /\ UNCHANGED <<status, recent, need, sleepers>>
  BY ThreadFacts DEF MoveWrite, ThreadOK, Possession, Moving, RestInv
<1>1. SameIndex
  <2>1. CASE UNCHANGED buf
    BY <2>1 DEF SameIndex
  <2>2. CASE StartWrite(loc[t].mine)
    BY <1>0, <2>2, StartWriteFacts
  <2> QED
    BY <2>1, <2>2 DEF MoveWrite
<1>2. LifeInv'
  BY <1>0, LifeCall
<1>3. Steady(t, "relink", loc[t])
  BY <1>0, EmptyHanded DEF Steady, Waking, Seeking
<1> QED
  BY <1>0, <1>1, <1>2, <1>3, RestStill

\* A mover that does not seek goes on: its buffer comes to the head of a list.
LEMMA MoverRest ==
  ASSUME ThreadsInv, CacheInv, RestInv, NEW t \in Threads, NEW b \in Buffers, b = loc[t].mine,
         pc[t] \in {"relink", "movecopy"}, lock = t, UNCHANGED <<status, need, sleepers>>,
         NEW r \in Buffer, NEW p \in Lists, Link(b, r, p), r.hold = buf[b].hold, b \in Linked,
         NEW l \in {"release", "movecopy"}, NEW s, Go(t, l, s), s.call = loc[t].call, s.mine = b,
         SeekInv'
  PROVE  RestInv'
<1>1. /\ [r EXCEPT !.where = p].where = p /\ [r EXCEPT !.where = p].hold = r.hold
      /\ buf' = [buf EXCEPT ![b] = [r EXCEPT !.where = p]]
  BY DEF Buffer, Link
<1>2. /\ buf'[b].where = p /\ buf'[b].hold = buf[b].hold /\ buf[b].where \in Lists
      /\ \A c \in Buffers \ {b} : buf'[c] = buf[c]
  BY <1>1 DEF CacheInv, IndexInv, Linked
<1>3. LifeInv'
  BY LifeCall DEF RestInv
<1>4. ReserveInv'
  BY <1>2, EmptyHanded, ReserveKept DEF RestInv
<1>5. WakeInv'
  BY <1>2, WakeKept DEF RestInv, Waking, Lists
<1> QED
  BY <1>3, <1>4, <1>5, OrderLink, AgeKept DEF RestInv

\* MoveRelink takes the buffer to its new block, or lends it.
LEMMA MoveRelinkRest ==
  ASSUME ThreadsInv, CacheInv, RestInv, NEW t \in Threads, MoveRelink(t)
  PROVE  RestInv'
<1>b. PICK b : b = loc[t].mine
  OBVIOUS
<1>0. /\ loc[t] \in Locals /\ b \in Buffers /\ loc[t].blk \in Blocks /\ pc[t] = "relink" /\ lock = t
      /\ UNCHANGED <<status, need, sleepers>>
  BY <1>b, ThreadFacts DEF MoveRelink, ThreadOK, Possession, Moving
<1>1. /\ b \in Linked /\ buf[b] \in Buffer /\ buf[b].hold \in Nat \ {0}
      /\ Bump(latest[loc[t].blk]) \in Gens /\ buf[b].where \in Lists
  <2>1. b \in Linked /\ buf[b] \in Buffer /\ buf[b].hold \in Nat \ {0}
    BY <1>0, <1>b, HeldLinked
  <2> QED
    BY <1>0, <2>1, BumpType DEF Linked
<1>2. \A c \in {"dirty", "writing"} : buf[b].state \cup {c} \in SUBSET Bits
  BY <1>1 DEF Buffer, Bits
<1>3. ASSUME buf[b].hold = 1, Go(t, "release", loc[t]),
             NEW x \in Buffer, x.hold = buf[b].hold, Link(b, x, "dirty")
      PROVE  RestInv'
  <2>1. \A c \in Buffers \ {b} : buf'[c] = buf[c]
    BY <1>3 DEF Link, CacheInv, IndexInv
  <2>2. SeekInv'
    BY <1>0, <1>b, <1>3, <2>1, SoleHolder, SeekKept DEF RestInv, Seeking
  <2> QED
    BY <1>0, <1>b, <1>1, <1>3, <2>2, MoverRest DEF Lists
<1>4. ASSUME NEW x \in Buffer, x.hold = buf[b].hold, Link(b, x, buf[b].where),
             Go(t, "movecopy", [loc[t] EXCEPT !.blk = buf[b].block])
      PROVE  RestInv'
  <2>s. PICK s : s = [loc[t] EXCEPT !.blk = buf[b].block]
    OBVIOUS
  <2>1. s.call = loc[t].call /\ s.mine = b /\ s.blk = buf[b].block /\ Go(t, "movecopy", s)
    BY <1>0, <1>b, <1>4, <2>s DEF Locals
  <2>2. \A c \in Buffers \ {b} : buf'[c] = buf[c]
    BY <1>4 DEF Link, CacheInv, IndexInv
  <2>3. SeekInv'
    BY <1>0, <1>b, <2>1, <2>2, SeekHolder DEF RestInv, Seeking
  <2> QED
    BY <1>0, <1>b, <1>1, <1>4, <2>1, <2>3, MoverRest
<1>5. ASSUME NEW g \in Gens
      PROVE  Moved(buf[b], loc[t].blk, g) \in Buffer /\ Moved(buf[b], loc[t].blk, g).hold = buf[b].hold
  BY <1>0, <1>1, <1>2 DEF Moved, Buffer
<1>6. /\ [buf[b] EXCEPT !.block = loc[t].blk, !.state = @ \cup {"writing"}] \in Buffer
      /\ [buf[b] EXCEPT !.block = loc[t].blk, !.state = @ \cup {"writing"}].hold = buf[b].hold
  BY <1>0, <1>1, <1>2 DEF Buffer
<1> QED
  BY <1>b, <1>1, <1>3, <1>4, <1>5, <1>6 DEF MoveRelink

\* MoveCopied takes the lent buffer back to its block.
LEMMA MoveCopiedRest ==
  ASSUME ThreadsInv, CacheInv, RestInv, NEW t \in Threads, MoveCopied(t)
  PROVE  RestInv'
<1>b. PICK b : b = loc[t].mine
  OBVIOUS
<1>0. /\ loc[t] \in Locals /\ b \in Buffers /\ loc[t].blk \in Blocks /\ pc[t] = "movecopy" /\ lock = t
      /\ UNCHANGED <<status, need, sleepers>> /\ Go(t, "release", loc[t])
  BY <1>b, ThreadFacts DEF MoveCopied, ThreadOK, Possession, Moving
<1>1. b \in Linked /\ buf[b] \in Buffer /\ buf[b].where \in Lists
  <2>1. b \in Linked /\ buf[b] \in Buffer
    BY <1>0, <1>b, HeldLinked
  <2> QED
    BY <2>1 DEF Linked
<1>x. PICK x : x = [buf[b] EXCEPT !.block = loc[t].blk]
  OBVIOUS
<1>2. x \in Buffer /\ x.hold = buf[b].hold /\ x.block = loc[t].blk
  BY <1>0, <1>1, <1>x DEF Buffer
<1>3. Link(b, x, buf[b].where)
  BY <1>b, <1>x DEF MoveCopied
<1>4. buf'[b].block = loc[t].blk /\ \A c \in Buffers \ {b} : buf'[c] = buf[c]
  <2>1. [x EXCEPT !.where = buf[b].where].block = x.block
    BY <1>2 DEF Buffer
  <2> QED
    BY <1>0, <1>2, <1>3, <2>1 DEF Link, CacheInv, IndexInv
<1>5. SeekInv'
  BY <1>0, <1>b, <1>4, SeekHolder DEF RestInv, Seeking
<1> QED
  BY <1>0, <1>b, <1>1, <1>2, <1>3, <1>5, MoverRest

-----------------------------------------------------------------------------
(* The shrinker and the age worker.                                        *)

\* Scan begins.
LEMMA ScanRest ==
  ASSUME ThreadsInv, CacheInv, RestInv, NEW t \in Threads, NEW c \in ApiCalls, NEW n \in ScanSizes,
         Scan(t, c, n)
  PROVE  RestInv'
<1>0. /\ pc[t] = "idle" /\ status # "closed" /\ c \in Workers /\ LifeInv
      /\ UNCHANGED <<status, cacheVars>>
  BY DEF Scan, Call, Workers, RestInv
<1>s. PICK s : s = [Rest(loc[t].mine) EXCEPT !.call = c, !.walk = Linked, !.left = n, !.count = n]
  OBVIOUS
<1>1. s.call = c /\ s.mine = loc[t].mine /\ Go(t, "scan", s)
  BY <1>s DEF Rest, Scan
<1>2. CallOK("scan", s)
  BY <1>0, <1>1 DEF CallOK, Workers
<1>3. LifeInv'
  BY <1>0, <1>1, <1>2, LifeStep DEF LifeInv, Workers
<1>4. Steady(t, "scan", s)
  BY <1>0, EmptyHanded DEF Steady, Waking, Seeking
<1> QED
  BY <1>0, <1>1, <1>3, <1>4, RestQuiet

\* ScanVisit passes over a buffer, picks it, or returns.
LEMMA ScanVisitRest ==
  ASSUME ThreadsInv, CacheInv, RestInv, NEW t \in Threads, ScanVisit(t)
  PROVE  RestInv'
<1>0. /\ loc[t] \in Locals /\ pc[t] = "scan" /\ LifeInv /\ CallOK(pc[t], loc[t])
      /\ UNCHANGED <<status, cacheVars>> /\ Hand(pc[t], loc[t]) = NoBuffer
  BY ThreadFacts, EmptyHanded DEF ScanVisit, RestInv, LifeInv
<1>1. ASSUME NEW b, Go(t, "scan", [loc[t] EXCEPT !.walk = @ \ {b}, !.left = @ - 1]) PROVE RestInv'
  <2>s. PICK s : s = [loc[t] EXCEPT !.walk = @ \ {b}, !.left = @ - 1]
    OBVIOUS
  <2>1. s.call = loc[t].call /\ s.mine = loc[t].mine /\ Go(t, "scan", s)
    BY <1>0, <1>1, <2>s DEF Locals
  <2>2. CallOK("scan", s)
    BY <1>0, <2>1 DEF CallOK, Destroying
  <2>3. LifeInv'
    BY <1>0, <2>1, <2>2, LifeGoesOn
  <2>4. Steady(t, "scan", s)
    BY <1>0, EmptyHanded DEF Steady, Waking, Seeking
  <2> QED
    BY <1>0, <2>1, <2>3, <2>4, RestQuiet
<1>2. ASSUME NEW b, Go(t, "clean", [loc[t] EXCEPT !.walk = @ \ {b}, !.cur = b, !.then = "scan"])
      PROVE  RestInv'
  <2>s. PICK s : s = [loc[t] EXCEPT !.walk = @ \ {b}, !.cur = b, !.then = "scan"]
    OBVIOUS
  <2>1. s.call = loc[t].call /\ s.mine = loc[t].mine /\ s.then = "scan" /\ Go(t, "clean", s)
    BY <1>0, <1>2, <2>s DEF Locals
  <2>2. CallOK("clean", s)
    BY <1>0, <2>1 DEF CallOK, Destroying
  <2>3. LifeInv'
    BY <1>0, <2>1, <2>2, LifeGoesOn
  <2>4. Steady(t, "clean", s)
    BY <1>0, <2>1 DEF Steady, Waking, Seeking, Hand, Inserting
  <2> QED
    BY <1>0, <2>1, <2>3, <2>4, RestQuiet
<1>3. CASE Return(t, loc[t].mine)
  BY <1>0, <1>3, Returning, RestQuiet DEF Waking
<1> QED
  BY <1>1, <1>2, <1>3 DEF ScanVisit

\* A step of the age worker that evicts nothing.
LEMMA AgeGoesOn ==
  ASSUME ThreadsInv, CacheInv, RestInv, NEW t \in Threads, NEW s, Go(t, "age", s),
         pc[t] \in {"idle", "age"}, UNCHANGED <<status, cacheVars>>, LifeInv',
         s.count = Cardinality(Linked)
  PROVE  RestInv'
<1>1. ReserveInv'
  BY EmptyHanded, ReserveKept DEF RestInv, cacheVars
<1>2. WakeInv'
  BY WakeKept DEF RestInv, cacheVars, Waking
<1>3. OrderInv' /\ SeekInv'
  BY OrderKept, SeekBlocks DEF RestInv, cacheVars, Seeking
<1>4. Linked' = Linked
  BY DEF Linked, cacheVars
<1> QED
  BY <1>1, <1>2, <1>3, <1>4, AgeKept DEF RestInv

\* Age counts the buffers.
LEMMA AgeRest ==
  ASSUME ThreadsInv, CacheInv, RestInv, NEW t \in Threads, Age(t)
  PROVE  RestInv'
<1>0. /\ pc[t] = "idle" /\ status # "closed" /\ LifeInv /\ UNCHANGED <<status, cacheVars>>
  BY DEF Age, Call, RestInv
<1>s. PICK s : s = [Rest(loc[t].mine) EXCEPT !.call = "age", !.walk = List("clean"),
                                             !.count = Cardinality(Linked)]
  OBVIOUS
<1>1. /\ s.call = "age" /\ s.mine = loc[t].mine /\ s.count = Cardinality(Linked)
      /\ Go(t, "age", s)
  BY <1>s DEF Rest, Age
<1>2. CallOK("age", s)
  BY <1>0, <1>1 DEF CallOK, Workers
<1>3. LifeInv'
  BY <1>0, <1>1, <1>2, LifeStep DEF LifeInv, Workers
<1> QED
  BY <1>0, <1>1, <1>3, AgeGoesOn

\* AgeVisit counts the buffer it evicts.
LEMMA AgeVisitRest ==
  ASSUME ThreadsInv, CacheInv, RestInv, NEW t \in Threads, AgeVisit(t)
  PROVE  RestInv'
<1>0. /\ loc[t] \in Locals /\ pc[t] = "age" /\ LifeInv /\ CallOK(pc[t], loc[t]) /\ lock = t
      /\ LockHolderOK(pc[t], loc[t])
      /\ UNCHANGED status /\ Hand(pc[t], loc[t]) = NoBuffer /\ loc[t].count = Cardinality(Linked)
  BY ThreadFacts, EmptyHanded DEF AgeVisit, RestInv, LifeInv, AgeInv, CacheInv
<1>1. ASSUME NEW s, s.call = loc[t].call, s.mine = loc[t].mine, Go(t, "age", s)
      PROVE  LifeInv'
  <2>1. CallOK("age", s)
    BY <1>0, <1>1 DEF CallOK, Destroying
  <2> QED
    BY <1>0, <1>1, <2>1, LifeGoesOn
<1>2. ASSUME NEW b \in Oldest(loc[t].walk), buf[b].hold = 0, FreeBufferWake(b),
             Go(t, "age", [loc[t] EXCEPT !.walk = @ \ {b}, !.count = @ - 1])
      PROVE  RestInv'
  <2>s. PICK s : s = [loc[t] EXCEPT !.walk = @ \ {b}, !.count = @ - 1]
    OBVIOUS
  <2>1. /\ s.call = loc[t].call /\ s.mine = loc[t].mine /\ s.count = loc[t].count - 1
        /\ Go(t, "age", s)
    BY <1>0, <1>2, <2>s DEF Locals
  <2>2. b \in Linked /\ b \in Buffers /\ b \in Out
    BY <1>0 DEF LockHolderOK, Walking, Oldest, Linked, Out
  <2>3. Linked' = Linked \ {b}
    BY <1>2, <2>2, FreeFacts
  <2>4. s.count = Cardinality(Linked')
    BY <1>0, <2>1, <2>2, <2>3, LinkedCount, FS_RemoveElement
  <2>5. LifeInv'
    BY <1>1, <2>1
  <2> QED
    BY <1>0, <1>2, <2>1, <2>2, <2>4, <2>5, EmptyHanded, RestFree DEF Seeking
<1>3. ASSUME NEW b, Go(t, "age", [loc[t] EXCEPT !.walk = @ \ {b}]), UNCHANGED cacheVars
      PROVE  RestInv'
  <2>s. PICK s : s = [loc[t] EXCEPT !.walk = @ \ {b}]
    OBVIOUS
  <2>1. /\ s.call = loc[t].call /\ s.mine = loc[t].mine /\ s.count = loc[t].count
        /\ Go(t, "age", s)
    BY <1>0, <1>3, <2>s DEF Locals
  <2> QED
    BY <1>0, <1>1, <1>3, <2>1, AgeGoesOn
<1>4. CASE Return(t, loc[t].mine) /\ UNCHANGED cacheVars
  BY <1>0, <1>4, Returning, RestQuiet DEF Waking
<1> QED
  BY <1>2, <1>3, <1>4 DEF AgeVisit

-----------------------------------------------------------------------------
(* dm_bufio_client_destroy.                                                *)

\* Destroy: nobody else has a buffer, nor a call but the shrinker's and the
\* age worker's.
LEMMA DestroyRest ==
  ASSUME ThreadsInv, CacheInv, RestInv, NEW t \in Threads, Destroy(t)
  PROVE  RestInv'
<1>0. /\ pc[t] = "idle" /\ status = "open" /\ loc[t].mine = NoBuffer /\ NobodyElse(t)
      /\ status' = "closing" /\ UNCHANGED <<buf, recent, need, sleepers>> /\ LifeInv
  BY DEF Destroy, Call, RestInv, cacheVars
<1>s. PICK s : s = [loc[t] EXCEPT !.call = "destroy", !.walk = List("dirty"), !.then = "relock"]
  OBVIOUS
<1>1. s.call = "destroy" /\ s.mine = loc[t].mine /\ s.then = "relock" /\ Go(t, "wb", s)
  BY <1>s, ThreadFacts DEF Locals, Destroy, StartWriteBack
<1>2. /\ pc'[t] = "wb" /\ loc'[t] = s
      /\ \A u \in Threads \ {t} : pc'[u] = pc[u] /\ loc'[u] = loc[u]
  BY <1>1, GoFacts
<1>3. \A u \in Threads \ {t} :
        /\ loc[u].mine = NoBuffer /\ CallOK(pc[u], loc[u])
        /\ pc[u] = "idle" \/ loc[u].call \in Workers
  BY <1>0 DEF NobodyElse, Workers, LifeInv
<1>4. LifeInv'
  <2>1. CallOK(pc[t], loc[t])'
    BY <1>0, <1>1, <1>2 DEF CallOK, Destroying, Workers
  <2>2. ASSUME NEW u \in Threads \ {t}
        PROVE  /\ CallOK(pc[u], loc[u])' /\ loc'[u].mine = NoBuffer
               /\ loc'[u].call \in Workers \cup {"none", "destroy"}
               /\ loc'[u].call = "none" => pc'[u] \in {"idle", "destroyed"}
    <3>1. /\ CallOK(pc[u], loc[u])
          /\ pc[u] = "idle" \/ loc[u].call \in Workers
          /\ loc'[u] = loc[u] /\ pc'[u] = pc[u] /\ loc[u].mine = NoBuffer
      BY <1>2, <1>3
    <3>2. CallOK(pc[u], loc[u])'
      BY <1>0, <1>2, <3>1 DEF CallOK, Workers, Destroying
    <3> QED
      BY <3>1, <3>2 DEF CallOK, Workers
  <2> QED
    BY <1>0, <1>1, <1>2, <2>1, <2>2 DEF LifeInv
<1>5. ReserveInv'
  <2>1. InHandOfOne'
    BY <1>0, <1>1, HandKept, BuffersAssumption DEF RestInv, ReserveInv, Hand, Inserting
  <2>2. Out' = Out /\ Linked' = Linked /\ List("reserved")' = List("reserved")
    BY <1>0 DEF Out, Linked, List
  <2> QED
    BY <1>0, <1>2, <2>1, <2>2 DEF RestInv, ReserveInv, ReserveAccounted
<1>6. WakeInv'
  BY <1>0, <1>1, WakeKept DEF RestInv, Waking
<1> QED
  BY <1>0, <1>1, <1>4, <1>5, <1>6, OrderKept, AgeKept, SeekBlocks DEF RestInv, Linked, Seeking

\* DropStart.
LEMMA DropStartRest ==
  ASSUME ThreadsInv, CacheInv, RestInv, NEW t \in Threads, DropStart(t)
  PROVE  RestInv'
<1>0. /\ pc[t] = "relock" /\ loc[t].call = "destroy" /\ LifeInv /\ CallOK(pc[t], loc[t])
      /\ Go(t, "drop", loc[t]) /\ UNCHANGED <<status, cacheVars>>
  BY DEF DropStart, RestInv, LifeInv
<1>1. CallOK("drop", loc[t])
  BY <1>0 DEF CallOK, Destroying, Workers
<1>2. LifeInv'
  BY <1>0, <1>1, LifeGoesOn
<1>3. Steady(t, "drop", loc[t])
  BY <1>0, EmptyHanded DEF Steady, Waking, Seeking
<1> QED
  BY <1>0, <1>2, <1>3, RestQuiet

\* While the client is destroyed no buffer is held.
LEMMA NothingHeld ==
  ASSUME ThreadsInv, CacheInv, LifeInv, status # "open", NEW b \in Buffers
  PROVE  buf[b].hold = 0
<1>1. \A u \in Threads : /\ loc[u].mine = NoBuffer /\ CallOK(pc[u], loc[u])
                         /\ loc[u].call \in Workers \cup {"none", "destroy"}
                         /\ loc[u].call = "none" => pc[u] \in {"idle", "destroyed"}
  BY DEF LifeInv
<1>2. \A u \in Threads : pc[u] \notin {"syncwait", "syncrelock"}
  BY <1>1 DEF CallOK, Destroying
<1>3. Clients(b) = {} /\ Flushers(b) = {}
  BY <1>1, <1>2, BuffersAssumption DEF Clients, Flushers
<1> QED
  BY <1>3, FS_EmptySet DEF CacheInv, HoldsAccounted

\* Drop goes on while a buffer is linked.
LEMMA DropRest ==
  ASSUME ThreadsInv, CacheInv, RestInv, NEW t \in Threads, Drop(t)
  PROVE  RestInv'
<1>0. /\ loc[t] \in Locals /\ pc[t] = "drop" /\ LifeInv /\ CallOK(pc[t], loc[t]) /\ OrderInv
      /\ UNCHANGED <<status, cacheVars>> /\ loc[t].call = "destroy" /\ status = "closing"
  BY ThreadFacts DEF Drop, RestInv, LifeInv, CallOK
<1>1. ASSUME NEW b, Go(t, "clean", [loc[t] EXCEPT !.cur = b, !.then = "drop"]) PROVE RestInv'
  <2>s. PICK s : s = [loc[t] EXCEPT !.cur = b, !.then = "drop"]
    OBVIOUS
  <2>1. s.call = loc[t].call /\ s.mine = loc[t].mine /\ s.then = "drop" /\ Go(t, "clean", s)
    BY <1>0, <1>1, <2>s DEF Locals
  <2>2. CallOK("clean", s)
    BY <1>0, <2>1 DEF CallOK, Destroying, Workers
  <2>3. LifeInv'
    BY <1>0, <2>1, <2>2, LifeGoesOn
  <2>4. Steady(t, "clean", s)
    BY <1>0, <2>1 DEF Steady, Waking, Seeking, Hand, Inserting
  <2> QED
    BY <1>0, <2>1, <2>3, <2>4, RestQuiet
<1>2. CASE Unclaimed = {} /\ Go(t, "unregister", loc[t])
  <2>1. \A p \in Lists : Unheld(List(p)) = List(p)
    BY <1>0, NothingHeld DEF Unheld, List
  <2>2. \A p \in Lists : Unheld(List(p)) = {} \/ Oldest(Unheld(List(p))) # {}
    BY <1>0, OldestExists DEF Unheld
  <2>3. List("clean") = {} /\ List("dirty") = {}
    BY <1>2, <2>1, <2>2 DEF Unclaimed, Lists
  <2>4. Linked = {}
    BY <2>3 DEF Linked, List, Lists
  <2>5. CallOK("unregister", loc[t])
    BY <1>0 DEF CallOK, Destroying, Workers
  <2>6. LifeInv'
    BY <1>0, <1>2, <2>5, LifeGoesOn
  <2>7. Steady(t, "unregister", loc[t])
    BY <1>0, <2>4, EmptyHanded DEF Steady, Waking, Seeking
  <2> QED
    BY <1>0, <1>2, <2>6, <2>7, RestQuiet
<1> QED
  BY <1>1, <1>2 DEF Drop

\* Unregister: the reserve is whole, and everything is freed.
LEMMA UnregisterRest ==
  ASSUME ThreadsInv, CacheInv, RestInv, NEW t \in Threads, Unregister(t)
  PROVE  RestInv'
<1>0. /\ pc[t] = "unregister" /\ \A u \in Threads \ {t} : pc[u] = "idle"
      /\ LifeInv /\ CallOK(pc[t], loc[t]) /\ UNCHANGED <<recent, need, sleepers>>
      /\ status' = "closed" /\ Go(t, "destroyed", Rest(loc[t].mine))
      /\ buf' = [b \in Buffers |-> IF buf[b].where = "reserved" THEN Blank("free") ELSE buf[b]]
  BY DEF Unregister, RestInv, LifeInv
<1>1. /\ pc'[t] = "destroyed" /\ loc'[t] = Rest(loc[t].mine)
      /\ \A u \in Threads \ {t} : pc'[u] = "idle" /\ loc'[u] = loc[u]
  BY <1>0, GoFacts
<1>2. Rest(loc[t].mine).call = "none" /\ Rest(loc[t].mine).mine = loc[t].mine
  BY DEF Rest
<1>3. status = "closing" /\ loc[t].call = "destroy"
  BY <1>0 DEF CallOK
<1>4. LifeInv'
  <2>1. \A u \in Threads : loc'[u].mine = NoBuffer /\ loc'[u].call = "none"
    BY <1>0, <1>1, <1>2, <1>3 DEF LifeInv, CallOK
  <2>2. \A u \in Threads : pc'[u] \in {"idle", "destroyed"}
    BY <1>1
  <2> QED
    BY <1>0, <2>1, <2>2 DEF LifeInv, CallOK, Workers
<1>5. \A b \in Buffers : buf'[b].where = IF buf[b].where = "reserved" THEN "free" ELSE buf[b].where
  BY <1>0, BlankTyped
<1>6. Out = {}
  <2>1. Linked = {} /\ List("hand") = {}
    BY <1>0 DEF RestInv, ReserveInv, InHandOfOne, Inserting
  <2> QED
    BY <2>1 DEF Out, Linked, List
<1>7. need = 0
  BY <1>6, FS_EmptySet DEF RestInv, ReserveInv, CacheInv, DataType
<1>8. \A b \in Buffers : buf[b].where \in {"free", "reserved"}
  BY <1>6 DEF Out, CacheInv, IndexInv, Buffer, Places
<1>9. ReserveInv'
  <2>1. List("free")' = Buffers /\ List("hand")' = {} /\ Out' = {}
    BY <1>5, <1>8 DEF List, Out, Lists
  <2>2. need' <= Cardinality(Out')
    BY <1>0, <1>7, <2>1, FS_EmptySet
  <2> QED
    BY <1>0, <1>1, <1>7, <2>1, <2>2 DEF ReserveInv, ReserveAccounted, InHandOfOne
<1>10. OrderInv'
  BY <1>0, <1>5, OrderKept DEF RestInv, Lists
<1>11. WakeInv'
  <2>1. sleepers = {}
    BY <1>0 DEF RestInv, WakeInv, CacheInv, DataType
  <2> QED
    BY <1>0, <2>1, WakeAll
<1>12. AgeInv'
  BY <1>1 DEF AgeInv
<1>13. SeekInv'
  BY <1>1, SeekMade DEF Seeking
<1> QED
  BY <1>4, <1>9, <1>10, <1>11, <1>12, <1>13 DEF RestInv

-----------------------------------------------------------------------------
(* The device, the start, and all steps.                                   *)

\* ReadDone and WriteDone change bits, errors and contents.
LEMMA DeviceRest ==
  ASSUME ThreadsInv, CacheInv, RestInv, NEW b \in Buffers, ReadDone(b) \/ WriteDone(b)
  PROVE  RestInv'
<1>1. buf \in [Buffers -> Buffer]
  BY DEF CacheInv, IndexInv
<1>2. SameIndex
  BY <1>1 DEF ReadDone, WriteDone, SameIndex, Buffer
<1> QED
  BY <1>2, RestSame DEF ReadDone, WriteDone

\* A client that was just created.
LEMMA InitRest == Init => RestInv
<1> SUFFICES ASSUME Init PROVE RestInv
  OBVIOUS
<1>1. /\ \A t \in Threads : pc[t] = "idle" /\ loc[t] = Rest(NoBuffer)
      /\ Rest(NoBuffer).call = "none" /\ Rest(NoBuffer).mine = NoBuffer
      /\ status = "open" /\ need = 0 /\ sleepers = {}
  BY DEF Init, Rest
<1>2. PICK R \in SUBSET Buffers :
        /\ Cardinality(R) = ReservedBuffers
        /\ buf = [b \in Buffers |-> Blank(IF b \in R THEN "reserved" ELSE "free")]
  BY DEF Init
<1>3. \A b \in Buffers : buf[b].where = IF b \in R THEN "reserved" ELSE "free"
  BY <1>2 DEF Blank
<1>4. Out = {} /\ List("reserved") = R /\ \A p \in Lists \cup {"hand"} : List(p) = {}
  BY <1>3 DEF Out, List, Lists
<1>5. OrderInv
  BY <1>4 DEF OrderInv
<1>6. LifeInv
  BY <1>1 DEF LifeInv, CallOK, Workers
<1>7. ReserveInv
  <2>1. need <= Cardinality(Out) /\ Cardinality(List("reserved")) + need = ReservedBuffers
    BY <1>1, <1>2, <1>4, FS_EmptySet, ReserveAssumption
  <2> QED
    BY <1>1, <1>4, <2>1 DEF ReserveInv, ReserveAccounted, InHandOfOne
<1>8. SeekInv /\ WakeInv /\ AgeInv
  BY <1>1 DEF SeekInv, Seeking, WakeInv, NoLostWakeup, AgeInv
<1> QED
  BY <1>5, <1>6, <1>7, <1>8 DEF RestInv

\* The start of a call keeps the layers.
LEMMA StartRest ==
  ASSUME ThreadsInv, CacheInv, RestInv, NEW t \in Threads, Start(t)
  PROVE  RestInv'
<1>1. \A k \in Blocks, c \in {"read", "new", "get"} : NewRead(t, c, k) => RestInv'
  BY NewReadRest
<1>2. \A k \in Blocks, n \in PrefetchSizes : Prefetch(t, k, n) => RestInv'
  BY PrefetchRest
<1>3. \A k \in Blocks : Forget(t, k) \/ Move(t, k) => RestInv'
  BY ForgetRest, MoveRest
<1>4. \A c \in ApiCalls, n \in ScanSizes : Scan(t, c, n) => RestInv'
  BY ScanRest
<1> QED
  BY <1>1, <1>2, <1>3, <1>4, MarkDirtyRest, WriteAsyncRest, SyncRest, AgeRest, DestroyRest DEF Start

\* So does every further step of it.
LEMMA ContinueRest ==
  ASSUME ThreadsInv, CacheInv, RestInv, NEW t \in Threads, Continue(t)
  PROVE  RestInv'
BY LookupRest, AllocRest, WakeUpRest, RecheckRest, WatermarkRest,
     LinkNewRest, FlushRest, SubmitReadRest, WaitReadRest, OverwriteRest,
     CleanWriteRest, CleanDoneRest, WriteBackRest, SyncWalkRest, SyncVisitRest,
     SyncParkRest, SyncWakeRest, SyncRelockRest, SyncEndRest, TakeErrorRest,
     IssueFlushRest, MoveFindRest, MoveWriteRest, MoveRelinkRest, MoveCopiedRest,
     ScanVisitRest, AgeVisitRest, DropStartRest, DropRest, UnregisterRest
   DEF Continue

\* The layers are inductive, given the ones of the threads and of the index.
LEMMA StepRest == CoreInv /\ RestInv /\ [Next]_vars => RestInv'
<1> SUFFICES ASSUME CoreInv, RestInv, [Next]_vars PROVE RestInv'
  OBVIOUS
<1>0. ThreadsInv /\ CacheInv
  BY DEF CoreInv
<1>1. CASE UNCHANGED vars
  <2>1. UNCHANGED <<pc, loc, status, buf, need, sleepers, recent>>
    BY <1>1 DEF vars, cacheVars
  <2> QED
    BY <1>0, <2>1, RestSame DEF SameIndex
<1> QED
  BY <1>0, <1>1, StartRest, ContinueRest, ReleaseRefRest, DeviceRest DEF Next

HIDE DEF At, Unlock, KeepLock, Acquire, Momentarily, Locked

-----------------------------------------------------------------------------
(* The first three layers together.                                        *)

\* A client that was just created: no buffer is linked and nobody has one.
LEMMA InitCore == Init => CoreInv
<1> SUFFICES ASSUME Init PROVE CoreInv
  OBVIOUS
<1>1. /\ \A t \in Threads : pc[t] = "idle" /\ loc[t] = Rest(NoBuffer)
      /\ Rest(NoBuffer) \in Locals /\ ThreadOK("idle", Rest(NoBuffer)) /\ Rest(NoBuffer).mine = NoBuffer
  BY RestFacts DEF Init
<1>2. ThreadsInv
  <2>1. pc \in [Threads -> Points] /\ loc \in [Threads -> Locals]
    BY <1>1 DEF Init, Points, Unlocked
  <2>2. latest \in Snapshot /\ disk \in Snapshot /\ durable \in Snapshot
    BY MaxGenAssumption DEF Init, Snapshot, Gens
  <2>3. LockOwner
    BY <1>1, ThreadsAssumption DEF LockOwner, Init, Locked
  <2> QED
    BY <1>1, <2>1, <2>2, <2>3 DEF ThreadsInv, ThreadsType, Init, Points
<1>3. \A b \in Buffers : \E p \in {"free", "reserved"} : buf[b] = Blank(p)
  BY DEF Init
<1>4. buf \in [Buffers -> Buffer] /\ Linked = {} /\ \A b \in Buffers : buf[b].hold = 0
  <2>1. \A b \in Buffers : buf[b] \in Buffer /\ buf[b].where \notin Lists /\ buf[b].hold = 0
    BY <1>3, BlankTyped DEF Lists
  <2>2. buf = [b \in Buffers |-> buf[b]]
    BY DEF Init
  <2> QED
    BY <2>1, <2>2 DEF Linked
<1>5. IndexInv
  BY <1>4 DEF IndexInv, UnlinkedUnheld, LinkedHasBlock, OneBufferPerBlock
<1>6. HoldsAccounted
  <2>1. \A b \in Buffers : Clients(b) = {} /\ Flushers(b) = {}
    BY <1>1, BuffersAssumption DEF Clients, Flushers
  <2> QED
    BY <1>4, <2>1, FS_EmptySet DEF HoldsAccounted
<1>7. DataType /\ ReadsHaveBlock
  <2>1. NoRequest \in Request /\ NoRequest.rw = "none"
    BY MaxGenAssumption DEF NoRequest, Request, Gens
  <2>2. disk \in Snapshot /\ durable \in Snapshot
    BY MaxGenAssumption DEF Init, Snapshot, Gens
  <2> QED
    BY <2>1, <2>2 DEF DataType, ReadsHaveBlock, Init
<1>8. \A t \in Threads : LockHolderOK(pc[t], loc[t])
  BY <1>1 DEF LockHolderOK, InHand, Vacant, Victim, Walking, Inserting
<1> QED
  BY <1>2, <1>5, <1>6, <1>7, <1>8 DEF CoreInv, CacheInv

-----------------------------------------------------------------------------

\* dm_bufio_release_move relinks a buffer that has a block to go back to.
LEMMA RelinkHolds ==
  ASSUME CoreInv, NEW t \in Threads, MoveRelink(t)
  PROVE  buf[loc[t].mine].block \in Blocks
<1>1. loc[t].mine \in Buffers
  BY ThreadFacts DEF CoreInv, MoveRelink, At, ThreadOK, Possession, Moving
<1> QED
  BY <1>1, HeldLinked DEF CoreInv

\* The start of a call keeps the invariant.
LEMMA StartCore ==
  ASSUME CoreInv, NEW t \in Threads, Start(t)
  PROVE  CoreInv'
<1>0. ThreadsInv /\ CacheInv
  BY DEF CoreInv
<1>1. ASSUME NEW k \in Blocks, NEW c \in {"read", "new", "get"}, NewRead(t, c, k) PROVE CoreInv'
  BY <1>0, <1>1, NewReadThread, NewReadCache DEF CoreInv
<1>2. ASSUME NEW k \in Blocks, NEW n \in PrefetchSizes, Prefetch(t, k, n) PROVE CoreInv'
  BY <1>0, <1>2, PrefetchThread, PrefetchCache DEF CoreInv
<1>3. ASSUME NEW k \in Blocks, Forget(t, k) PROVE CoreInv'
  BY <1>0, <1>3, ForgetThread, ForgetCache DEF CoreInv
<1>4. ASSUME NEW k \in Blocks, Move(t, k) PROVE CoreInv'
  BY <1>0, <1>4, MoveThread, MoveCache DEF CoreInv
<1>5. ASSUME MarkDirty(t) PROVE CoreInv'
  BY <1>0, <1>5, MakeDirtyThread, MarkDirtyCache DEF CoreInv, MarkDirty, Call, At
<1>6. ASSUME WriteAsync(t) PROVE CoreInv'
  BY <1>0, <1>6, WriteAsyncThread, WriteAsyncCache DEF CoreInv
<1>7. ASSUME Sync(t) PROVE CoreInv'
  BY <1>0, <1>7, SyncThread, SyncCache DEF CoreInv
<1>8. ASSUME Age(t) PROVE CoreInv'
  BY <1>0, <1>8, AgeThread, AgeCache DEF CoreInv
<1>9. ASSUME Destroy(t) PROVE CoreInv'
  BY <1>0, <1>9, DestroyThread, DestroyCache DEF CoreInv
<1>10. ASSUME NEW c \in ApiCalls, NEW n \in ScanSizes, Scan(t, c, n) PROVE CoreInv'
  BY <1>0, <1>10, ScanThread, ScanCache DEF CoreInv
<1> QED
  BY <1>1, <1>2, <1>3, <1>4, <1>5, <1>6, <1>7, <1>8, <1>9, <1>10 DEF Start

\* So does every further step of it.
LEMMA ContinueCore ==
  ASSUME CoreInv, NEW t \in Threads, Continue(t)
  PROVE  CoreInv'
<1>0. ThreadsInv /\ CacheInv
  BY DEF CoreInv
<1>1. ASSUME Lookup(t) PROVE CoreInv'
  BY <1>0, <1>1, LookupThread, LookupCache DEF CoreInv
<1>2. ASSUME Alloc(t) PROVE CoreInv'
  BY <1>0, <1>2, AllocThread, AllocCache DEF CoreInv
<1>3. ASSUME WakeUp(t) PROVE CoreInv'
  BY <1>0, <1>3, WakeUpThread, WakeUpCache DEF CoreInv
<1>4. ASSUME Recheck(t) PROVE CoreInv'
  BY <1>0, <1>4, RecheckThread, RecheckCache DEF CoreInv
<1>5. ASSUME Watermark(t) PROVE CoreInv'
  BY <1>0, <1>5, WatermarkThread, WatermarkCache DEF CoreInv
<1>6. ASSUME LinkNew(t) PROVE CoreInv'
  BY <1>0, <1>6, LinkNewThread, LinkNewCache DEF CoreInv
<1>7. ASSUME Flush(t) PROVE CoreInv'
  BY <1>0, <1>7, FlushThread, FlushCache DEF CoreInv
<1>8. ASSUME SubmitRead(t) PROVE CoreInv'
  BY <1>0, <1>8, SubmitReadThread, SubmitReadCache DEF CoreInv
<1>9. ASSUME WaitRead(t) PROVE CoreInv'
  BY <1>0, <1>9, WaitReadThread, WaitReadCache DEF CoreInv
<1>10. ASSUME Overwrite(t) PROVE CoreInv'
  BY <1>0, <1>10, MakeDirtyThread, OverwriteCache DEF CoreInv, Overwrite, At
<1>11. ASSUME CleanWrite(t) PROVE CoreInv'
  BY <1>0, <1>11, CleanWriteThread, CleanWriteCache DEF CoreInv
<1>12. ASSUME CleanDone(t) PROVE CoreInv'
  BY <1>0, <1>12, CleanDoneThread, CleanDoneCache DEF CoreInv
<1>13. ASSUME WriteBack(t) PROVE CoreInv'
  BY <1>0, <1>13, WriteBackThread, WriteBackCache DEF CoreInv
<1>14. ASSUME SyncWalk(t) PROVE CoreInv'
  BY <1>0, <1>14, SyncWalkThread, SyncWalkCache DEF CoreInv
<1>15. ASSUME SyncVisit(t) PROVE CoreInv'
  BY <1>0, <1>15, SyncVisitThread, SyncVisitCache DEF CoreInv
<1>16. ASSUME SyncPark(t) PROVE CoreInv'
  BY <1>0, <1>16, SyncParkThread, SyncParkCache DEF CoreInv
<1>17. ASSUME SyncWake(t) PROVE CoreInv'
  BY <1>0, <1>17, SyncWakeThread, SyncWakeCache DEF CoreInv
<1>18. ASSUME SyncRelock(t) PROVE CoreInv'
  BY <1>0, <1>18, SyncRelockThread, SyncRelockCache DEF CoreInv
<1>19. ASSUME SyncEnd(t) PROVE CoreInv'
  BY <1>0, <1>19, SyncEndThread, SyncEndCache DEF CoreInv
<1>20. ASSUME TakeError(t) PROVE CoreInv'
  BY <1>0, <1>20, TakeErrorThread, TakeErrorCache DEF CoreInv
<1>21. ASSUME IssueFlush(t) PROVE CoreInv'
  BY <1>0, <1>21, IssueFlushThread, IssueFlushCache DEF CoreInv
<1>22. ASSUME MoveFind(t) PROVE CoreInv'
  BY <1>0, <1>22, MoveFindThread, MoveFindCache DEF CoreInv
<1>23. ASSUME MoveWrite(t) PROVE CoreInv'
  BY <1>0, <1>23, MoveWriteThread, MoveWriteCache DEF CoreInv
<1>24. ASSUME MoveRelink(t) PROVE CoreInv'
  BY <1>0, <1>24, RelinkHolds, MoveRelinkThread, MoveRelinkCache DEF CoreInv
<1>25. ASSUME MoveCopied(t) PROVE CoreInv'
  BY <1>0, <1>25, MoveCopiedThread, MoveCopiedCache DEF CoreInv
<1>26. ASSUME ScanVisit(t) PROVE CoreInv'
  BY <1>0, <1>26, ScanVisitThread, ScanVisitCache DEF CoreInv
<1>27. ASSUME AgeVisit(t) PROVE CoreInv'
  BY <1>0, <1>27, AgeVisitThread, AgeVisitCache DEF CoreInv
<1>28. ASSUME DropStart(t) PROVE CoreInv'
  BY <1>0, <1>28, DropStartThread, DropStartCache DEF CoreInv
<1>29. ASSUME Drop(t) PROVE CoreInv'
  BY <1>0, <1>29, DropThread, DropCache DEF CoreInv
<1>30. ASSUME Unregister(t) PROVE CoreInv'
  BY <1>0, <1>30, UnregisterThread, UnregisterCache DEF CoreInv
<1> QED
  BY <1>1, <1>2, <1>3, <1>4, <1>5, <1>6, <1>7, <1>8, <1>9, <1>10, <1>11, <1>12,
     <1>13, <1>14, <1>15, <1>16, <1>17, <1>18, <1>19, <1>20, <1>21, <1>22, <1>23, <1>24,
     <1>25, <1>26, <1>27, <1>28, <1>29, <1>30 DEF Continue

\* A step in which nothing changes keeps everything.
LEMMA StutterCore ==
  ASSUME CoreInv, UNCHANGED vars
  PROVE  CoreInv'
<1>1. /\ UNCHANGED <<lock, pc, loc, buf, io, status, asyncError, need, sleepers, recent>>
      /\ UNCHANGED <<disk, durable, latest, failed, reported>>
  BY DEF vars, cacheVars, ioVars, deviceVars
<1>2. ThreadsInv'
  BY <1>1, ThreadsUnchanged DEF CoreInv, ThreadsInv, ThreadsType
<1>3. CacheInv'
  <2>1. SameIndex /\ buf' \in [Buffers -> Buffer]
    BY <1>1 DEF SameIndex, CoreInv, CacheInv, IndexInv
  <2>2. DataType' /\ ReadsHaveBlock'
    BY <1>1 DEF CoreInv, CacheInv, DataType, ReadsHaveBlock
  <2> QED
    BY <1>1, <2>1, <2>2, BitsOnly DEF CoreInv
<1> QED
  BY <1>2, <1>3 DEF CoreInv

\* The invariant is inductive: threads, the device, and time.
LEMMA StepCore == CoreInv /\ [Next]_vars => CoreInv'
<1> SUFFICES ASSUME CoreInv, [Next]_vars PROVE CoreInv'
  OBVIOUS
<1>1. ASSUME NEW t \in Threads, Start(t) PROVE CoreInv'
  BY <1>1, StartCore
<1>2. ASSUME NEW t \in Threads, Continue(t) PROVE CoreInv'
  BY <1>2, ContinueCore
<1>3. ASSUME NEW t \in Threads, ReleaseRef(t) PROVE CoreInv'
  BY <1>3, ReleaseRefThread, ReleaseRefCache DEF CoreInv
<1>4. ASSUME NEW b \in Buffers, ReadDone(b) PROVE CoreInv'
  BY <1>4, DeviceThread, ReadDoneCache DEF CoreInv
<1>5. ASSUME NEW b \in Buffers, WriteDone(b) PROVE CoreInv'
  BY <1>5, DeviceThread, WriteDoneCache DEF CoreInv
<1>6. CASE UNCHANGED vars
  BY <1>6, StutterCore
<1> QED
  BY <1>1, <1>2, <1>3, <1>4, <1>5, <1>6 DEF Next

-----------------------------------------------------------------------------
(* The contents of the blocks: ContentInv, what buffers and device hold    *)
(* compared with the newest content, and FlushInv, what a flush has done   *)
(* for its caller.  First what the kinds of steps do to the contents, then *)
(* one lemma per action.  The layers below hold before and after the step. *)

USE DEF At, Unlock, KeepLock, Acquire, Momentarily, Locked

Base == ThreadsInv /\ CacheInv /\ BitsInv

\* A buffer whose block, bits, content and error stay; one that had no bit and
\* leaves the index, or is not in it.
Kept(b) == /\ buf'[b].block = buf[b].block /\ buf'[b].state = buf[b].state
           /\ buf'[b].gen = buf[b].gen /\ buf'[b].err = buf[b].err
           /\ b \in Linked' <=> b \in Linked
Dropped(b) == buf[b].state = {} /\ buf'[b].state = {} /\ b \notin Linked'

SameDevice == disk' = disk /\ latest' = latest /\ failed' \cup reported' = failed \cup reported
Calm == (\A b \in Buffers : Kept(b) \/ Dropped(b)) /\ UNCHANGED io /\ SameDevice

\* Who overwrites a buffer, and who lends it, goes on doing so.
Loans == \A b \in Buffers : /\ Lent(b) => Lent(b)'
                            /\ Fresh(b) => Fresh(b)' \/ "read" \in buf[b].err

\* Who holds a buffer after the step finds it in the index.
LEMMA HeldNext ==
  ASSUME CacheInv', NEW t \in Threads, NEW b \in Buffers, loc'[t].mine = b
  PROVE  b \in Linked'
<1>1. t \in Clients(b)'
  BY DEF Clients
<1>2. IsFiniteSet(Clients(b)') /\ IsFiniteSet(Flushers(b)')
  BY ThreadsAssumption, FS_Subset DEF Clients, Flushers
<1>3. Cardinality(Clients(b)') \in Nat \ {0} /\ Cardinality(Flushers(b)') \in Nat
  BY <1>1, <1>2, FS_CardinalityType, FS_EmptySet
<1>4. buf'[b].hold # 0
  BY <1>3 DEF CacheInv, HoldsAccounted
<1> QED
  BY <1>4 DEF CacheInv, IndexInv, UnlinkedUnheld

\* What the layers below say of one buffer.
LEMMA BufferFacts ==
  ASSUME Base, NEW b \in Buffers
  PROVE  /\ buf[b] \in Buffer /\ io[b] \in Request
         /\ b \in Linked => buf[b].block \in Blocks
         /\ buf[b].state # {} => b \in Linked
         /\ "dirty" \in buf[b].state => buf[b].where = "dirty"
         /\ "reading" \in buf[b].state => buf[b].state = {"reading"}
         /\ io[b].rw = "write" => "writing" \in buf[b].state /\ io[b].block = buf[b].block
         /\ io[b].rw = "read" => buf[b].state = {"reading"} /\ io[b].block = buf[b].block
         /\ latest \in Snapshot /\ disk \in Snapshot
BY DEF Base, BitsInv, BitsOfList, RequestOfBits, CacheInv, IndexInv, LinkedHasBlock, DataType,
       ThreadsInv, ThreadsType

\* A step that changes no content of a buffer in the index.
LEMMA CalmContent ==
  ASSUME Base, Base', ContentInv, Calm, Loans
  PROVE  (\A b \in Buffers : ContentOf(b)') /\ DeviceInv' /\ CacheCoherent'
<1>1. ASSUME NEW b \in Buffers PROVE ContentOf(b)'
  <2>1. ContentOf(b) /\ (Kept(b) \/ Dropped(b)) /\ (Lent(b) => Lent(b)')
    BY DEF ContentInv, Calm, Loans
  <2>2. RequestOfBits(b)'
    BY DEF Base, BitsInv
  <2>3. CASE Kept(b)
    BY <2>1, <2>3 DEF ContentOf, Kept, Calm, SameDevice
  <2>4. CASE Dropped(b)
    BY <2>2, <2>4 DEF ContentOf, RequestOfBits, Dropped
  <2> QED
    BY <2>1, <2>3, <2>4
<1>2. ASSUME NEW k \in Blocks, Settled(k)' PROVE Current(k, disk[k])'
  <2>1. Settled(k)
    BY <1>2 DEF Settled, Find, Linked, Calm, Kept, Dropped
  <2> QED
    BY <2>1 DEF ContentInv, DeviceInv, Current, Calm, SameDevice
<1>3. ASSUME NEW b \in Buffers, Handed(b)'
      PROVE  (buf[b].gen = latest[buf[b].block] \/ buf[b].block \in failed \cup reported)'
  <2>1. Kept(b)
    BY <1>3 DEF Handed, Calm, Dropped
  <2>2. ~Lent(b)' /\ ~Fresh(b)' /\ "read" \notin buf[b].err
    BY <1>3, <2>1 DEF Handed, Lent, Fresh, Kept
  <2>3. ~Lent(b) /\ ~Fresh(b)
    BY <2>2 DEF Loans
  <2>4. Handed(b)
    BY <1>3, <2>1, <2>3 DEF Handed, Lent, Fresh, Kept
  <2> QED
    BY <2>1, <2>4 DEF ContentInv, CacheCoherent, Kept, Calm, SameDevice
<1> QED
  BY <1>1, <1>2, <1>3 DEF DeviceInv, CacheCoherent

\* What a thread must have is not disturbed by a calm step of another one.
LEMMA CalmKeeping ==
  ASSUME Base, Base', ContentInv, Calm, Loans, NEW u \in Threads, UNCHANGED <<pc[u], loc[u]>>
  PROVE  Keeping(pc[u], loc[u])'
<1>1. Keeping(pc[u], loc[u]) /\ ThreadOK(pc[u], loc[u]) /\ loc[u] \in Locals
  BY ThreadFacts DEF ContentInv, Base
<1>2. loc[u].mine \in Buffers => Kept(loc[u].mine)
  BY HeldNext DEF Calm, Dropped, Base
<1>3. pc[u] \in {"relink", "movecopy"} => loc[u].mine \in Buffers /\ loc[u].call \notin Getting
  BY <1>1 DEF ThreadOK, Possession, Moving
<1>4. pc[u] = "release" => loc[u].mine \in Buffers
  BY <1>1 DEF ThreadOK, Possession
<1>5. pc[u] = "movecopy" /\ ~Fresh(loc[u].mine)' => Current(loc[u].blk, buf[loc[u].mine].gen)'
  <2>1. SUFFICES ASSUME pc[u] = "movecopy", ~Fresh(loc[u].mine)' 
                 PROVE Current(loc[u].blk, buf[loc[u].mine].gen)'
    OBVIOUS
  <2>2. loc[u].mine \in Buffers /\ "read" \notin buf[loc[u].mine].err
    BY <1>1, <1>3, <2>1 DEF Keeping
  <2>3. ~Fresh(loc[u].mine)
    BY <2>1, <2>2 DEF Loans, Fresh
  <2>4. Current(loc[u].blk, buf[loc[u].mine].gen)
    BY <1>1, <2>1, <2>3 DEF Keeping
  <2> QED
    BY <1>2, <2>2, <2>4 DEF Current, Kept, Calm, SameDevice
<1> QED
  BY <1>1, <1>2, <1>3, <1>4, <1>5 DEF Keeping, Kept, Calm

\* A thread that goes on with its buffer, or takes or gives back one, but does not
\* give back or lend one that has no content yet.
GoesOn(t, s) == /\ pc[t] # "movecopy"
                /\ loc[t].mine \in Buffers /\ loc[t].call = "new" =>
                     \/ s.mine = loc[t].mine /\ s.call = "new"
                     \/ "read" \in buf[loc[t].mine].err

\* Such a thread leaves the lent and the fresh buffers what they are.
LEMMA GoesOnLoans ==
  ASSUME Base, NEW t \in Threads, NEW l, NEW s, Go(t, l, s), GoesOn(t, s)
  PROVE  Loans
<1>1. /\ pc'[t] = l /\ loc'[t] = s
      /\ \A u \in Threads \ {t} : pc'[u] = pc[u] /\ loc'[u] = loc[u]
  BY GoFacts DEF Base
<1> QED
  BY <1>1 DEF Loans, Lent, Fresh, GoesOn

\* A calm step of a thread.
LEMMA CalmStep ==
  ASSUME Base, Base', ContentInv, Calm, NEW t \in Threads, NEW l, NEW s, Go(t, l, s),
         GoesOn(t, s), Keeping(l, s)'
  PROVE  ContentInv'
<1>1. /\ pc'[t] = l /\ loc'[t] = s
      /\ \A u \in Threads \ {t} : pc'[u] = pc[u] /\ loc'[u] = loc[u]
  BY GoFacts DEF Base
<1>2. Loans
  BY GoesOnLoans
<1>3. \A u \in Threads \ {t} : Keeping(pc[u], loc[u])'
  BY <1>1, <1>2, CalmKeeping
<1>4. Keeping(pc[t], loc[t])'
  BY <1>1 DEF Keeping, Fresh
<1> QED
  BY <1>2, <1>3, <1>4, CalmContent DEF ContentInv

\* Steps of a thread whose buffer is read, or has to be read first.
Own(t, l, s) ==
  /\ l \notin {"release", "relink", "movecopy", "overwrite"}
  /\ s.mine \in Buffers /\ s.call \notin Getting => s.mine = loc[t].mine /\ loc[t].call \notin Getting
  /\ loc[t].mine \in Buffers /\ loc[t].call = "new" => s.mine = loc[t].mine /\ s.call = "new"
  /\ pc[t] # "movecopy"

\* A calm step of such a thread.
LEMMA CalmOwn ==
  ASSUME Base, Base', ContentInv, Calm, NEW t \in Threads, NEW l, NEW s, Go(t, l, s), Own(t, l, s)
  PROVE  ContentInv'
<1>1. GoesOn(t, s)
  BY DEF Own, GoesOn
<1>2. Keeping(l, s)'
  <2>1. s.mine \in Buffers /\ s.call \notin Getting => "read" \notin buf'[s.mine].err
    <3>1. SUFFICES ASSUME s.mine \in Buffers, s.call \notin Getting PROVE "read" \notin buf'[s.mine].err
      OBVIOUS
    <3>2. loc'[t].mine = s.mine /\ s.mine = loc[t].mine
      BY <3>1, GoFacts DEF Own, Base
    <3>3. Kept(s.mine)
      BY <3>1, <3>2, HeldNext DEF Calm, Dropped, Base
    <3> QED
      BY <3>1, <3>2, <3>3 DEF Own, ContentInv, Keeping, Kept
  <2> QED
    BY <2>1 DEF Keeping, Own
<1> QED
  BY <1>1, <1>2, CalmStep

\* A step that no thread takes, or that leaves its thread where it was.
LEMMA CalmStill ==
  ASSUME Base, Base', ContentInv, Calm, UNCHANGED <<pc, loc>>
  PROVE  ContentInv'
<1>1. Loans
  BY DEF Loans, Lent, Fresh
<1> QED
  BY <1>1, CalmContent, CalmKeeping DEF ContentInv

-----------------------------------------------------------------------------
(* What the kinds of steps do for a flush.                                 *)

\* Nothing that was on its way to the device gets lost.
Progress ==
  \A k \in Blocks, g \in Gens : g <= latest[k] =>
    /\ g <= latest'[k]
    /\ Reached(k, g) => Reached(k, g)'
    /\ Recorded(k, g) => Recorded(k, g)'
    /\ Leaving(k, g) => Leaving(k, g)' \/ Reached(k, g)'

\* A calm step is progress, or none.
LEMMA CalmProgress ==
  ASSUME Calm, reported \subseteq reported'
  PROVE  Progress
<1> SUFFICES ASSUME NEW k \in Blocks, NEW g \in Gens, g <= latest[k]
             PROVE  /\ g <= latest'[k]
                    /\ Reached(k, g) => Reached(k, g)'
                    /\ Recorded(k, g) => Recorded(k, g)'
                    /\ Leaving(k, g) => Leaving(k, g)' \/ Reached(k, g)'
  BY DEF Progress
<1>1. \A b \in Buffers : (Younger(b, g)' <=> Younger(b, g))
  BY DEF Younger, Calm
<1>2. Ahead(k, g)' <=> Ahead(k, g)
  BY <1>1 DEF Ahead, Calm
<1>3. Leaving(k, g) => Leaving(k, g)'
  BY <1>1 DEF Leaving, Find, Linked, Calm, Kept, Dropped
<1> QED
  BY <1>2, <1>3 DEF Reached, Recorded, Calm, SameDevice

\* A flush is not set back by a step of another thread.
LEMMA FlushOther ==
  ASSUME Base, FlushInv, Progress, NEW u \in Threads, UNCHANGED <<pc[u], loc[u]>>,
         lock # u \/ SameIndex
  PROVE  FlushOK(pc[u], loc[u])'
<1>1. FlushOK(pc[u], loc[u]) /\ loc[u] \in Locals
  BY ThreadFacts DEF FlushInv, Base
<1>2. pc[u] \in {"wb", "sync", "park"} => \A k : Find(k)' = Find(k)
  <2>1. SUFFICES ASSUME pc[u] \in {"wb", "sync", "park"} PROVE SameIndex
    BY Soft DEF SameIndex, Find, Linked
  <2>2. lock = u
    BY <2>1, ThreadFacts DEF Base
  <2> QED
    BY <2>2
<1>3. SUFFICES ASSUME loc[u].call = "sync", NEW k \in Blocks, NEW g, g = loc[u].snap[k]
      PROVE /\ g <= latest'[k]
            /\ pc[u] = "wb" => Reached(k, g)' \/ Leaving(k, g)' \/ Find(k)' \cap loc[u].walk # {}
            /\ pc[u] \in {"flush", "relock", "syncwait", "syncrelock"} => Reached(k, g)' \/ Leaving(k, g)'
            /\ pc[u] \in {"sync", "park"} => Reached(k, g)' \/ (Leaving(k, g)' /\ Find(k)' \cap loc[u].walk # {})
            /\ pc[u] = "xchg" => Reached(k, g)'
            /\ pc[u] = "issueflush" /\ ~loc[u].res => Recorded(k, g)'
  BY DEF FlushOK, Reached, Recorded, Leaving, Ahead, Younger, Find, Linked
<1>4. g \in Gens
  BY <1>1, <1>3 DEF Locals, Snapshot
<1>5. /\ g <= latest[k]
      /\ pc[u] = "wb" => Reached(k, g) \/ Leaving(k, g) \/ Find(k) \cap loc[u].walk # {}
      /\ pc[u] \in {"flush", "relock", "syncwait", "syncrelock"} => Reached(k, g) \/ Leaving(k, g)
      /\ pc[u] \in {"sync", "park"} => Reached(k, g) \/ (Leaving(k, g) /\ Find(k) \cap loc[u].walk # {})
      /\ pc[u] = "xchg" => Reached(k, g)
      /\ pc[u] = "issueflush" /\ ~loc[u].res => Recorded(k, g)
  BY <1>1, <1>3 DEF FlushOK
<1> QED
  BY <1>2, <1>4, <1>5 DEF Progress

\* The threads that flush, beside a step of t.
LEMMA FlushStep ==
  ASSUME Base, FlushInv, Progress, NEW t \in Threads, NEW l, NEW s, Go(t, l, s),
         lock \in {t, Nobody} \/ SameIndex, FlushOK(l, s)', ~asyncError' => failed' = {}
  PROVE  FlushInv'
<1>1. /\ pc'[t] = l /\ loc'[t] = s
      /\ \A u \in Threads \ {t} : pc'[u] = pc[u] /\ loc'[u] = loc[u]
  BY GoFacts DEF Base
<1>2. FlushOK(pc[t], loc[t])'
  BY <1>1 DEF FlushOK
<1>3. ASSUME NEW u \in Threads \ {t} PROVE FlushOK(pc[u], loc[u])'
  BY <1>1, FlushOther, ThreadsAssumption
<1> QED
  BY <1>2, <1>3 DEF FlushInv

-----------------------------------------------------------------------------
(* Calm steps, put together.                                               *)

Lasting == ContentInv /\ FlushInv

\* Where a thread is on the way through dm_bufio_write_dirty_buffers.
FlushPoints == {"wb", "flush", "relock", "syncwait", "syncrelock", "sync", "park", "xchg", "issueflush"}

\* A thread that does not flush for a caller at l, or nothing yet.
Away(t, l, s) == s.call = "sync" => /\ loc[t].call = "sync" /\ s.snap = loc[t].snap
                                    /\ l \notin FlushPoints

\* Such a thread owes the caller of a flush nothing more than it did.
LEMMA AwayFlush ==
  ASSUME Base, FlushInv, Progress, NEW t \in Threads, NEW l, NEW s, Away(t, l, s)
  PROVE  FlushOK(l, s)'
<1> SUFFICES ASSUME s.call = "sync", NEW k \in Blocks PROVE s.snap[k] <= latest'[k]
  BY DEF FlushOK, Away, FlushPoints
<1>1. loc[t].call = "sync" /\ s.snap = loc[t].snap
  BY DEF Away
<1>2. s.snap[k] <= latest[k] /\ s.snap[k] \in Gens
  BY <1>1, ThreadFacts DEF FlushInv, FlushOK, Base, Locals, Snapshot
<1> QED
  BY <1>2 DEF Progress

\* A calm step of a thread that neither flushes nor gets a new buffer.
LEMMA Quietly ==
  ASSUME Base, Base', Lasting, Calm, UNCHANGED <<asyncError, failed, reported>>,
         NEW t \in Threads, NEW l, NEW s, Go(t, l, s), Own(t, l, s), Away(t, l, s),
         lock \in {t, Nobody} \/ SameIndex
  PROVE  Lasting'
<1>1. ContentInv'
  BY CalmOwn DEF Lasting
<1>2. Progress
  BY CalmProgress
<1>3. FlushOK(l, s)'
  BY <1>2, AwayFlush DEF Lasting
<1> QED
  BY <1>1, <1>2, <1>3, FlushStep DEF Lasting, FlushInv

\* A calm step of a thread in dm_bufio_write_dirty_buffers.
LEMMA FlushQuietly ==
  ASSUME Base, Base', Lasting, Calm, UNCHANGED <<asyncError, failed, reported>>,
         NEW t \in Threads, NEW l, NEW s, Go(t, l, s), Own(t, l, s),
         lock \in {t, Nobody} \/ SameIndex, Progress => FlushOK(l, s)'
  PROVE  Lasting'
<1>1. ContentInv'
  BY CalmOwn DEF Lasting
<1>2. Progress
  BY CalmProgress
<1> QED
  BY <1>1, <1>2, FlushStep DEF Lasting, FlushInv

\* Which steps are calm: no buffer changes, ...
LEMMA CalmSame ==
  ASSUME UNCHANGED <<buf, io, deviceVars>>
  PROVE  Calm /\ SameIndex /\ UNCHANGED <<failed, reported>>
BY DEF Calm, Kept, SameDevice, Linked, SameIndex, deviceVars

\* ... one goes to another place on a list, ...
LEMMA CalmLink ==
  ASSUME CacheInv, UNCHANGED <<io, deviceVars>>, NEW b \in Linked, NEW r \in Buffer, NEW l \in Lists,
         r.block = buf[b].block, r.state = buf[b].state, r.gen = buf[b].gen, r.err = buf[b].err,
         Link(b, r, l)
  PROVE  Calm /\ UNCHANGED <<failed, reported>>
<1>1. /\ Linked' = Linked /\ buf'[b] = [r EXCEPT !.where = l]
      /\ \A c \in Buffers \ {b} : buf'[c] = buf[c]
  BY LinkFacts
<1>2. Kept(b)
  BY <1>1 DEF Kept, Buffer
<1> QED
  BY <1>1, <1>2 DEF Calm, Kept, SameDevice, deviceVars

\* ... or stays where it is, unless it belongs on the clean list, ...
LEMMA CalmSettle ==
  ASSUME CacheInv, UNCHANGED <<io, deviceVars>>, NEW b \in Linked, NEW r \in Buffer,
         r.block = buf[b].block, r.state = buf[b].state, r.gen = buf[b].gen, r.err = buf[b].err,
         r.where = buf[b].where, Settle(b, r)
  PROVE  Calm /\ UNCHANGED <<failed, reported>>
<1>1. CASE Link(b, r, "clean")
  BY <1>1, CalmLink DEF Lists
<1>2. CASE buf' = [buf EXCEPT ![b] = r]
  <2>1. /\ b \in Buffers /\ buf'[b] = r /\ \A c \in Buffers \ {b} : buf'[c] = buf[c]
    BY <1>2 DEF CacheInv, IndexInv, Linked
  <2>2. Linked' = Linked
    BY <2>1 DEF Linked
  <2> QED
    BY <2>1, <2>2 DEF Calm, Kept, SameDevice, deviceVars
<1> QED
  BY <1>1, <1>2 DEF Settle

\* ... or an idle one is freed or taken.
LEMMA CalmFree ==
  ASSUME CacheInv, UNCHANGED <<io, deviceVars>>, NEW b \in Buffers, buf[b].state = {}, FreeBufferWake(b)
  PROVE  Calm /\ UNCHANGED <<failed, reported>>
<1>1. PICK p \in {"free", "reserved"} : buf' = [buf EXCEPT ![b] = Blank(p)]
  BY DEF FreeBufferWake
<1>2. buf'[b] = Blank(p) /\ \A c \in Buffers \ {b} : buf'[c] = buf[c] /\ (c \in Linked' <=> c \in Linked)
  BY <1>1 DEF CacheInv, IndexInv, Linked
<1>3. Dropped(b)
  BY <1>2 DEF Dropped, Blank, Linked, Lists
<1> QED
  BY <1>2, <1>3 DEF Calm, Kept, SameDevice, deviceVars

\* The same for a buffer that is taken.
LEMMA CalmTake ==
  ASSUME CacheInv, UNCHANGED <<io, deviceVars>>, NEW b \in Buffers, buf[b].state = {}, Take(b)
  PROVE  Calm /\ UNCHANGED <<failed, reported>>
<1>1. /\ buf' = [buf EXCEPT ![b] = [buf[b] EXCEPT !.where = "hand", !.block = NoBlock]]
      /\ buf[b] \in Buffer /\ buf \in [Buffers -> Buffer]
  BY DEF Take, CacheInv, IndexInv
<1>2. buf'[b].where = "hand" /\ buf'[b].state = {}
      /\ \A c \in Buffers \ {b} : buf'[c] = buf[c] /\ (c \in Linked' <=> c \in Linked)
  BY <1>1 DEF Linked, Buffer
<1>3. Dropped(b)
  BY <1>2 DEF Dropped, Linked, Lists
<1> QED
  BY <1>2, <1>3 DEF Calm, Kept, SameDevice, deviceVars

\* A thread that goes on with its call and its buffer.
LEMMA Onward ==
  ASSUME NEW t \in Threads, NEW l, NEW s, pc[t] # "movecopy",
         s.mine = loc[t].mine, s.call = loc[t].call, s.snap = loc[t].snap,
         l \notin FlushPoints \cup {"release", "relink", "movecopy", "overwrite"}
  PROVE  Own(t, l, s) /\ Away(t, l, s)
BY DEF Own, Away

\* A call that returns with the buffer its thread had before it.
LEMMA ReturningCalm ==
  ASSUME NEW t \in Threads, pc[t] # "movecopy",
         loc[t].mine \in Buffers => loc[t].call \notin Getting
  PROVE  Own(t, "idle", Rest(loc[t].mine)) /\ Away(t, "idle", Rest(loc[t].mine))
BY DEF Own, Away, Rest, Getting

-----------------------------------------------------------------------------
(* Steps that change contents.                                             *)

\* What another thread must have, when its buffer is not one that changes.
LEMMA HeldKeeping ==
  ASSUME ContentInv, NEW u \in Threads, UNCHANGED <<pc[u], loc[u]>>,
         pc[u] \notin {"relink", "movecopy"},
         loc[u].mine \in Buffers =>
           ("read" \in buf'[loc[u].mine].err <=> "read" \in buf[loc[u].mine].err),
         pc[u] = "release" => loc[u].mine \in Buffers
  PROVE  Keeping(pc[u], loc[u])'
BY DEF ContentInv, Keeping

\* Nothing gets lost as long as writes carry the newest content, and end.
LEMMA ProgressOf ==
  ASSUME Base, Base', disk' = disk, failed' \cup reported' = failed \cup reported,
         reported \subseteq reported', \A k \in Blocks : latest[k] <= latest'[k],
         \A b \in Buffers : \/ io'[b] = io[b] \/ io'[b].rw # "write"
                            \/ io'[b].block \in Blocks /\ io'[b].gen >= latest[io'[b].block],
         \A b \in Linked : "writing" \in buf[b].state =>
           b \in Linked' /\ buf'[b].block = buf[b].block /\ "writing" \in buf'[b].state
  PROVE  Progress
<1> SUFFICES ASSUME NEW k \in Blocks, NEW g \in Gens, g <= latest[k]
             PROVE  /\ g <= latest'[k]
                    /\ Reached(k, g) => Reached(k, g)'
                    /\ Recorded(k, g) => Recorded(k, g)'
                    /\ Leaving(k, g) => Leaving(k, g)' \/ Reached(k, g)'
  BY DEF Progress
<1>1. latest \in Snapshot /\ latest' \in Snapshot /\ io' \in [Buffers -> Request] /\ Gens \subseteq Nat
  BY DEF Base, ThreadsInv, ThreadsType, CacheInv, DataType, Gens
<1>2. g <= latest'[k]
  <2>1. g \in Nat /\ latest[k] \in Nat /\ latest'[k] \in Nat /\ latest[k] <= latest'[k]
    BY <1>1 DEF Snapshot
  <2> QED
    BY <2>1
<1>3. ASSUME NEW b \in Buffers, io'[b].block = k, io[b].block = k => Younger(b, g)
      PROVE  Younger(b, g)'
  <2>1. CASE io'[b].rw = "write" /\ io'[b].gen >= latest[k]
    <3>1. io'[b].gen \in Nat /\ latest[k] \in Nat /\ g \in Nat
      BY <1>1 DEF Request, Snapshot
    <3> QED
      BY <2>1, <3>1 DEF Younger
  <2> QED
    BY <1>3, <2>1 DEF Younger
<1>4. Ahead(k, g) => Ahead(k, g)'
  BY <1>3 DEF Ahead
<1>5. Leaving(k, g) => Leaving(k, g)'
  <2> SUFFICES ASSUME NEW b \in Find(k), "writing" \in buf[b].state, Younger(b, g)
               PROVE  Leaving(k, g)'
    BY DEF Leaving
  <2>1. b \in Buffers /\ b \in Linked /\ buf[b].block = k
    BY DEF Find, Linked
  <2>2. b \in Find(k)' /\ "writing" \in buf'[b].state
    BY <2>1 DEF Find
  <2>3. io'[b].rw = "write" => io'[b].block = k
    BY <2>1, <2>2 DEF Base, BitsInv, RequestOfBits, Find
  <2>4. Younger(b, g)'
    BY <1>3, <2>1, <2>3 DEF Younger
  <2> QED
    BY <2>2, <2>4 DEF Leaving
<1> QED
  BY <1>2, <1>4, <1>5 DEF Reached, Recorded

\* A request is submitted, or the bit that promises a write replaces the dirty one:
\* the content of the buffer stays, and what is written is the newest.
Begins(b) ==
  /\ b \in Linked /\ UNCHANGED <<asyncError, deviceVars>>
  /\ \A c \in Buffers \ {b} : buf'[c] = buf[c] /\ io'[c] = io[c]
  /\ buf'[b].block = buf[b].block /\ buf'[b].gen = buf[b].gen /\ buf'[b].err = buf[b].err
  /\ buf'[b].where = buf[b].where /\ buf'[b].hold = buf[b].hold
  /\ \/ buf'[b].state = buf[b].state /\ buf[b].state # {}
     \/ Writable(b) /\ buf'[b].state = Writing(buf[b].state)
  /\ \/ io'[b] = io[b]
     \/ io'[b].rw = "read" /\ "reading" \in buf[b].state
     \/ io'[b].rw = "write" /\ io'[b].block = buf[b].block /\ io'[b].gen = latest[buf[b].block]

\* Such a step leaves the index, the contents and the flushes as they were.
LEMMA BeginsContent ==
  ASSUME Base, Base', Lasting, NEW b \in Buffers, Begins(b), Loans
  PROVE  /\ (\A c \in Buffers : ContentOf(c)') /\ DeviceInv' /\ CacheCoherent'
         /\ SameIndex /\ Progress /\ (~asyncError' => failed' = {})
<1>1. /\ b \in Linked /\ UNCHANGED <<asyncError, disk, latest, failed, reported>>
      /\ \A c \in Buffers \ {b} : buf'[c] = buf[c] /\ io'[c] = io[c]
      /\ buf'[b].block = buf[b].block /\ buf'[b].gen = buf[b].gen /\ buf'[b].err = buf[b].err
      /\ buf'[b].where = buf[b].where /\ buf'[b].hold = buf[b].hold
  BY DEF Begins, deviceVars
<1>2. SameIndex /\ Linked' = Linked
  <2>1. SameIndex
    BY <1>1 DEF SameIndex
  <2> QED
    BY <2>1 DEF SameIndex, Linked
<1>3. /\ buf[b].block \in Blocks /\ "read" \notin buf[b].err
      /\ "writing" \in buf[b].state => "writing" \in buf'[b].state
      /\ "dirty" \in buf'[b].state => "dirty" \in buf[b].state
      /\ buf'[b].state # {}
      /\ io[b].rw = "write" => "writing" \in buf[b].state
      /\ ContentOf(b) /\ io'[b] \in Request /\ RequestOfBits(b)'
  <2>1. ContentOf(b)
    BY DEF Lasting, ContentInv
  <2>2. buf[b].block \in Blocks /\ (io[b].rw = "write" => "writing" \in buf[b].state)
    BY <1>1, BufferFacts
  <2>3. io'[b] \in Request /\ RequestOfBits(b)'
    BY DEF Base, CacheInv, DataType, BitsInv
  <2> QED
    BY <2>1, <2>2, <2>3 DEF Begins, ContentOf, Writable, Writing
<1>4. ASSUME NEW c \in Buffers PROVE ContentOf(c)'
  <2>1. CASE c # b
    BY <1>1, <2>1 DEF Lasting, ContentInv, ContentOf, Loans
  <2>2. CASE c = b
    <3>1. CASE buf'[b].state = buf[b].state
      BY <1>1, <1>3, <2>2, <3>1 DEF Begins, ContentOf, Loans, RequestOfBits
    <3>2. CASE Writable(b) /\ buf'[b].state = Writing(buf[b].state)
      BY <1>1, <1>3, <2>2, <3>2 DEF Begins, ContentOf, Writable, Writing, RequestOfBits
    <3> QED
      BY <3>1, <3>2 DEF Begins
  <2> QED
    BY <2>1, <2>2
<1>5. DeviceInv'
  <2> SUFFICES ASSUME NEW k \in Blocks, Settled(k)' PROVE Current(k, disk[k])'
    BY DEF DeviceInv
  <2>1. \A c \in Find(k) : c \in Buffers /\ c \in Find(k)' 
    BY <1>1, <1>2 DEF Find, Linked
  <2>2. buf'[b].state \cap {"dirty", "writing"} = {} => buf[b].state \cap {"dirty", "writing"} = {}
    BY DEF Begins, Writable, Writing
  <2>3. Settled(k)
    BY <1>1, <2>1, <2>2 DEF Settled
  <2> QED
    BY <1>1, <2>3 DEF Lasting, ContentInv, DeviceInv, Current
<1>6. CacheCoherent'
  <2> SUFFICES ASSUME NEW c \in Buffers, Handed(c)'
               PROVE  (buf[c].gen = latest[buf[c].block] \/ buf[c].block \in failed \cup reported)'
    BY DEF CacheCoherent
  <2>1. c \in Linked /\ "reading" \notin buf[c].state /\ "read" \notin buf[c].err
    <3>1. "reading" \notin buf'[b].state => "reading" \notin buf[b].state
      BY DEF Begins, Writing
    <3> QED
      BY <1>1, <1>2, <3>1 DEF Handed
  <2>2. ~Lent(c) /\ ~Fresh(c)
    BY <2>1 DEF Handed, Loans, Lent, Fresh
  <2>3. Handed(c)
    BY <2>1, <2>2 DEF Handed, Lent, Fresh
  <2> QED
    BY <1>1, <2>3 DEF Lasting, ContentInv, CacheCoherent
<1>7. Progress
  <2>1. \A k \in Blocks : latest[k] <= latest'[k]
    BY <1>1 DEF Base, ThreadsInv, ThreadsType, Snapshot, Gens
  <2>2. \A c \in Buffers : \/ io'[c] = io[c] \/ io'[c].rw # "write"
                           \/ io'[c].block \in Blocks /\ io'[c].gen >= latest[io'[c].block]
    <3>1. latest \in Snapshot
      BY DEF Base, ThreadsInv, ThreadsType
    <3>2. latest[buf[b].block] >= latest[buf[b].block]
      BY <1>3, <3>1 DEF Snapshot, Gens
    <3> QED
      BY <1>1, <1>3, <3>2 DEF Begins
  <2>3. \A c \in Linked : "writing" \in buf[c].state =>
           c \in Linked' /\ buf'[c].block = buf[c].block /\ "writing" \in buf'[c].state
    BY <1>1, <1>2, <1>3 DEF Linked
  <2>4. disk' = disk /\ failed' \cup reported' = failed \cup reported /\ reported \subseteq reported'
    BY <1>1
  <2> QED
    BY <2>1, <2>2, <2>3, <2>4, ProgressOf
<1> QED
  BY <1>1, <1>2, <1>4, <1>5, <1>6, <1>7 DEF Lasting, FlushInv

\* A thread the step is not of keeps what it must have.
LEMMA BeginsKeeping ==
  ASSUME Base, Base', Lasting, NEW b \in Buffers, Begins(b), Loans,
         NEW u \in Threads, UNCHANGED <<pc[u], loc[u]>>,
         pc[u] = "movecopy" /\ loc[u].mine = b /\ "writing" \in buf'[b].state => io'[b].rw = "write"
  PROVE  Keeping(pc[u], loc[u])'
<1>1. Keeping(pc[u], loc[u]) /\ ThreadOK(pc[u], loc[u]) /\ loc[u] \in Locals
  BY ThreadFacts DEF Lasting, ContentInv, Base
<1>2. /\ UNCHANGED <<latest, failed, reported>>
      /\ \A c \in Buffers : /\ buf'[c].err = buf[c].err /\ buf'[c].gen = buf[c].gen
                            /\ "dirty" \in buf'[c].state => "dirty" \in buf[c].state
      /\ \A c \in Buffers \ {b} : buf'[c] = buf[c] /\ io'[c] = io[c]
  BY DEF Begins, deviceVars, Writing
<1>3. pc[u] \in {"relink", "movecopy"} => loc[u].mine \in Buffers /\ loc[u].call \notin Getting
  BY <1>1 DEF ThreadOK, Possession, Moving
<1>4. pc[u] = "release" => loc[u].mine \in Buffers
  BY <1>1 DEF ThreadOK, Possession
<1>5. pc[u] = "movecopy" /\ ~Fresh(loc[u].mine)' => Current(loc[u].blk, buf[loc[u].mine].gen)'
  <2>1. SUFFICES ASSUME pc[u] = "movecopy", ~Fresh(loc[u].mine)'
                 PROVE Current(loc[u].blk, buf[loc[u].mine].gen)'
    OBVIOUS
  <2>2. loc[u].mine \in Buffers /\ "read" \notin buf[loc[u].mine].err
    BY <1>1, <1>3, <2>1 DEF Keeping
  <2>3. ~Fresh(loc[u].mine)
    BY <2>1, <2>2 DEF Loans, Fresh
  <2> QED
    BY <1>1, <1>2, <2>1, <2>2, <2>3 DEF Keeping, Current
<1> QED
  BY <1>1, <1>2, <1>3, <1>4, <1>5 DEF Keeping
=============================================================================

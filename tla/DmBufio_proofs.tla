--------------------------- MODULE DmBufio_proofs ---------------------------
(***************************************************************************)
(* What is true of DmBufio whatever the number of threads, buffers and     *)
(* blocks, whatever the threads call and wherever the device fails: the    *)
(* inductive invariant IInv of DmBufioInv, and what follows from it.       *)
(*                                                                         *)
(* Init establishes every layer, and every action keeps it: those of the   *)
(* threads, the index, the counts and the lock holder, the state bits and  *)
(* the requests, and those of the list order, the life of the client, the  *)
(* reserve, the movers, the sleepers and the age worker are kept in        *)
(* DmBufioLayers_proofs; here, together, those of the contents and the     *)
(* flushes.                                                                *)
(*                                                                         *)
(* Then the refinement: DmBufio implements BlockCache, every step of the   *)
(* code is a step of the block cache, or one that changes nothing its      *)
(* clients can see.                                                        *)
(***************************************************************************)
EXTENDS DmBufioLayers_proofs

USE DEF At, Unlock, KeepLock, Acquire, Momentarily, Locked

-----------------------------------------------------------------------------
(* Getting a buffer.                                                       *)

\* BufioNew takes a reference, or gives up.
LEMMA BufioNewContent ==
  ASSUME Base, Base', Lasting, NEW t \in Threads, NEW r \in Locals, BufioNew(t, r),
         lock \in {t, Nobody}, r.mine = NoBuffer, loc[t].mine = NoBuffer, r.call \in Getting,
         pc[t] # "movecopy", UNCHANGED <<ioVars, status, deviceVars>>
  PROVE  Lasting'
<1>0. CacheInv /\ UNCHANGED <<io, asyncError>> /\ UNCHANGED <<io, deviceVars>> /\ NoBuffer \notin Buffers
  BY BuffersAssumption DEF Base, ioVars
<1>1. ASSUME NEW b \in Find(r.blk), Link(b, [buf[b] EXCEPT !.hold = @ + 1], ListFor(buf[b].state)),
             Go(t, "wait", [r EXCEPT !.mine = b])
      PROVE  Lasting'
  <2>1. b \in Linked /\ b \in Buffers /\ buf[b] \in Buffer
    BY <1>0 DEF Find, Linked, CacheInv, IndexInv
  <2>2. PICK x : x = [buf[b] EXCEPT !.hold = @ + 1]
    OBVIOUS
  <2>3. /\ x \in Buffer /\ x.block = buf[b].block /\ x.state = buf[b].state /\ x.gen = buf[b].gen
        /\ x.err = buf[b].err /\ ListFor(buf[b].state) \in Lists
        /\ Link(b, x, ListFor(buf[b].state))
    BY <1>1, <2>1, <2>2, ListForTyped DEF Buffer
  <2>4. Calm /\ UNCHANGED <<failed, reported>>
    BY <1>0, <2>1, <2>3, CalmLink
  <2>5. PICK s : s = [r EXCEPT !.mine = b]
    OBVIOUS
  <2>6. s.call = r.call /\ Go(t, "wait", s)
    BY <1>1, <2>5 DEF Locals
  <2>7. Own(t, "wait", s) /\ Away(t, "wait", s)
    BY <1>0, <2>6 DEF Own, Away, Getting
  <2> QED
    BY <1>0, <2>4, <2>6, <2>7, Quietly
<1>2. ASSUME UNCHANGED cacheVars, NEW l \in {"idle", "lookup", "alloc"}, NEW s,
             s.mine = NoBuffer, s.call # "sync", Go(t, l, s)
      PROVE  Lasting'
  <2>1. Own(t, l, s) /\ Away(t, l, s)
    BY <1>0, <1>2 DEF Own, Away
  <2> QED
    BY <1>0, <1>2, <2>1, CalmSame, Quietly DEF cacheVars
<1>3. /\ Rest(NoBuffer).mine = NoBuffer /\ Rest(NoBuffer).call # "sync" /\ r.call # "sync"
      /\ [r EXCEPT !.blk = @ + 1, !.left = @ - 1].mine = NoBuffer
      /\ [r EXCEPT !.blk = @ + 1, !.left = @ - 1].call # "sync"
  BY DEF Rest, Locals, Getting
<1> QED
  BY <1>1, <1>2, <1>3 DEF BufioNew, GiveUp, Return

\* NewRead, Prefetch and Lookup are BufioNew for their block.
LEMMA NewReadContent ==
  ASSUME Base, Base', Lasting, NEW t \in Threads, NEW c \in {"read", "new", "get"},
         NEW k \in Blocks, NewRead(t, c, k)
  PROVE  Lasting'
<1>1. Wanted(c, k, 0) \in Locals /\ Wanted(c, k, 0).mine = NoBuffer /\ Wanted(c, k, 0).call \in Getting
  BY WantedFacts, BlocksAssumption DEF Getting
<1> QED
  BY <1>1, BufioNewContent DEF NewRead, Call

\* Prefetch is BufioNew for the first block of its range.
LEMMA PrefetchContent ==
  ASSUME Base, Base', Lasting, NEW t \in Threads, NEW k \in Blocks, NEW n \in PrefetchSizes,
         Prefetch(t, k, n)
  PROVE  Lasting'
<1>1. n - 1 \in Nat /\ \A i \in 0 .. n - 1 : k + i \in Blocks
  BY SizesAssumption DEF Prefetch
<1>2. /\ Wanted("prefetch", k, n - 1) \in Locals /\ Wanted("prefetch", k, n - 1).mine = NoBuffer
      /\ Wanted("prefetch", k, n - 1).call \in Getting
  BY <1>1, WantedFacts DEF Getting
<1> QED
  BY <1>2, BufioNewContent DEF Prefetch, Call

\* Lookup is BufioNew for the thread's block.
LEMMA LookupContent ==
  ASSUME Base, Base', Lasting, NEW t \in Threads, Lookup(t)
  PROVE  Lasting'
<1>1. loc[t] \in Locals /\ ThreadOK(pc[t], loc[t]) /\ ((lock = t) <=> pc[t] \in Locked)
  BY ThreadFacts DEF Base
<1>2. loc[t].mine = NoBuffer /\ lock \in {t, Nobody} /\ loc[t].call \in Getting /\ pc[t] # "movecopy"
  <2>1. At(t, "lookup") \/ (At(t, "relock") /\ loc[t].call = "prefetch" /\ lock = Nobody)
    BY DEF Lookup
  <2> QED
    BY <1>1, <2>1 DEF ThreadOK, Possession, Getting, Locals
<1>3. BufioNew(t, loc[t]) /\ UNCHANGED <<ioVars, status, deviceVars>>
  BY DEF Lookup
<1> QED
  BY <1>1, <1>2, <1>3, BufioNewContent

\* Alloc takes an idle buffer that is free, or goes on to clean one, or to sleep.
LEMMA AllocContent ==
  ASSUME Base, Base', Lasting, NEW t \in Threads, Alloc(t)
  PROVE  Lasting'
<1>0. /\ loc[t] \in Locals /\ ThreadOK(pc[t], loc[t]) /\ At(t, "alloc") /\ lock = t
      /\ UNCHANGED <<io, asyncError>> /\ UNCHANGED <<io, deviceVars>> /\ CacheInv
  BY ThreadFacts DEF Alloc, Base, ioVars
<1>1. loc[t].call \in Getting /\ loc[t].mine = NoBuffer /\ NoBuffer \notin Buffers
  BY <1>0, BuffersAssumption DEF ThreadOK, Possession, Locals
<1>2. ASSUME NEW l \in {"recheck", "idle", "lookup", "clean", "asleep"}, NEW s, Go(t, l, s),
             s.mine = NoBuffer, s.call # "sync", Calm, UNCHANGED <<failed, reported>>
      PROVE  Lasting'
  <2>1. Own(t, l, s) /\ Away(t, l, s)
    BY <1>0, <1>1, <1>2 DEF Own, Away
  <2> QED
    BY <1>0, <1>2, <2>1, Quietly
<1>3. ASSUME NEW b \in Buffers, buf[b].where \in {"free", "reserved"}, Take(b),
             Go(t, "recheck", [loc[t] EXCEPT !.newb = b])
      PROVE  Lasting'
  <2>1. buf[b].state = {}
    BY <1>3 DEF Base, BitsInv, BitsOfList, Linked, Lists
  <2>2. [loc[t] EXCEPT !.newb = b].mine = NoBuffer /\ [loc[t] EXCEPT !.newb = b].call # "sync"
    BY <1>0, <1>1 DEF Locals, Getting
  <2> QED
    BY <1>0, <1>2, <1>3, <2>1, <2>2, CalmTake
<1>4. /\ Rest(NoBuffer).mine = NoBuffer /\ Rest(NoBuffer).call # "sync"
      /\ [loc[t] EXCEPT !.blk = @ + 1, !.left = @ - 1].mine = NoBuffer
      /\ [loc[t] EXCEPT !.blk = @ + 1, !.left = @ - 1].call # "sync"
      /\ \A b : [loc[t] EXCEPT !.cur = b, !.then = "alloc"].mine = NoBuffer
      /\ \A b : [loc[t] EXCEPT !.cur = b, !.then = "alloc"].call # "sync"
      /\ [loc[t] EXCEPT !.then = "alloc"].mine = NoBuffer
      /\ [loc[t] EXCEPT !.then = "alloc"].call # "sync"
  BY <1>0, <1>1 DEF Locals, Getting, Rest
<1>5. UNCHANGED buf => Calm /\ UNCHANGED <<failed, reported>>
  BY <1>0, CalmSame
<1> QED
  BY <1>2, <1>3, <1>4, <1>5 DEF Alloc, Lend, List, GiveUp, Return, cacheVars

\* WakeUp, Recheck and Watermark: the thread goes on to allocate.
LEMMA WakeUpContent ==
  ASSUME Base, Base', Lasting, NEW t \in Threads, WakeUp(t)
  PROVE  Lasting'
<1>0. /\ loc[t] \in Locals /\ ThreadOK(pc[t], loc[t]) /\ lock \in {t, Nobody}
      /\ UNCHANGED <<buf, io, deviceVars>> /\ UNCHANGED asyncError
  BY ThreadFacts DEF WakeUp, Base, ioVars, cacheVars
<1>1. PICK s : s = [loc[t] EXCEPT !.then = "idle"]
  OBVIOUS
<1>2. s.mine = loc[t].mine /\ s.call = loc[t].call /\ s.snap = loc[t].snap /\ Go(t, loc[t].then, s)
  BY <1>0, <1>1 DEF WakeUp, Locals
<1>3. pc[t] = "asleep" /\ loc[t].then \in {"alloc", "move"}
  BY <1>0 DEF WakeUp, ThreadOK, Continuation
<1>4. Own(t, loc[t].then, s) /\ Away(t, loc[t].then, s)
  BY <1>2, <1>3, Onward DEF FlushPoints
<1> QED
  BY <1>0, <1>2, <1>4, CalmSame, Quietly

\* Recheck keeps the new buffer, or gives it back.
LEMMA RecheckContent ==
  ASSUME Base, Base', Lasting, NEW t \in Threads, Recheck(t)
  PROVE  Lasting'
<1>0. /\ loc[t] \in Locals /\ ThreadOK(pc[t], loc[t]) /\ LockHolderOK(pc[t], loc[t])
      /\ At(t, "recheck") /\ lock = t /\ UNCHANGED <<io, asyncError>> /\ UNCHANGED <<io, deviceVars>>
      /\ CacheInv
  BY ThreadFacts DEF Recheck, Base, CacheInv, ioVars
<1>1. CASE FreeBufferWake(loc[t].newb) /\ Go(t, "lookup", [loc[t] EXCEPT !.newb = NoBuffer])
  <2>1. PICK s : s = [loc[t] EXCEPT !.newb = NoBuffer]
    OBVIOUS
  <2>2. s.mine = loc[t].mine /\ s.call = loc[t].call /\ s.snap = loc[t].snap /\ Go(t, "lookup", s)
    BY <1>0, <1>1, <2>1 DEF Locals
  <2>3. Own(t, "lookup", s) /\ Away(t, "lookup", s)
    BY <1>0, <2>2, Onward DEF FlushPoints
  <2>4. loc[t].newb \in Buffers /\ buf[loc[t].newb].where = "hand"
    BY <1>0 DEF ThreadOK, Possession, LockHolderOK, InHand
  <2>5. buf[loc[t].newb].state = {}
    BY <2>4 DEF Base, BitsInv, BitsOfList, Linked, Lists
  <2>6. Calm /\ UNCHANGED <<failed, reported>>
    BY <1>0, <1>1, <2>4, <2>5, CalmFree
  <2> QED
    BY <1>0, <2>2, <2>3, <2>6, Quietly
<1>2. ASSUME NEW l \in Limits, UNCHANGED cacheVars, Go(t, "watermark", [loc[t] EXCEPT !.lim = l])
      PROVE  Lasting'
  <2>1. PICK s : s = [loc[t] EXCEPT !.lim = l]
    OBVIOUS
  <2>2. s.mine = loc[t].mine /\ s.call = loc[t].call /\ s.snap = loc[t].snap /\ Go(t, "watermark", s)
    BY <1>0, <1>2, <2>1 DEF Locals
  <2>3. Own(t, "watermark", s) /\ Away(t, "watermark", s)
    BY <1>0, <2>2, Onward DEF FlushPoints
  <2> QED
    BY <1>0, <1>2, <2>2, <2>3, CalmSame, Quietly DEF cacheVars
<1> QED
  BY <1>1, <1>2 DEF Recheck

\* Watermark chooses what to clean or to write.
LEMMA WatermarkContent ==
  ASSUME Base, Base', Lasting, NEW t \in Threads, Watermark(t)
  PROVE  Lasting'
<1>0. /\ loc[t] \in Locals /\ ThreadOK(pc[t], loc[t]) /\ At(t, "watermark") /\ lock = t
      /\ UNCHANGED asyncError /\ UNCHANGED <<buf, io, deviceVars>>
  BY ThreadFacts DEF Watermark, Base, ioVars, cacheVars
<1>1. PICK l, s : /\ Go(t, l, s) /\ l \in {"clean", "link", "wb"}
                  /\ s.mine = loc[t].mine /\ s.call = loc[t].call
  <2>1. /\ \A b : [loc[t] EXCEPT !.cur = b, !.then = "watermark"].mine = loc[t].mine
        /\ \A b : [loc[t] EXCEPT !.cur = b, !.then = "watermark"].call = loc[t].call
        /\ [loc[t] EXCEPT !.walk = List("dirty"), !.then = "link"].mine = loc[t].mine
        /\ [loc[t] EXCEPT !.walk = List("dirty"), !.then = "link"].call = loc[t].call
    BY <1>0 DEF Locals
  <2> QED
    BY <2>1 DEF Watermark
<1>2. loc[t].call \in Getting
  BY <1>0 DEF ThreadOK, Possession
<1>3. Own(t, l, s) /\ Away(t, l, s)
  BY <1>0, <1>1, <1>2 DEF Own, Away, Getting
<1> QED
  BY <1>0, <1>1, <1>3, CalmSame, Quietly

\* LinkNew: the buffer has to be read, or will be overwritten, before it is handed out.
LEMMA LinkNewContent ==
  ASSUME Base, Base', Lasting, NEW t \in Threads, LinkNew(t)
  PROVE  Lasting'
<1>b. PICK b : b = loc[t].newb
  OBVIOUS
<1>k. PICK k : k = loc[t].blk
  OBVIOUS
<1>0. /\ loc[t] \in Locals /\ ThreadOK(pc[t], loc[t]) /\ LockHolderOK(pc[t], loc[t])
      /\ At(t, "link") /\ lock = t /\ UNCHANGED <<io, asyncError, deviceVars>>
  BY ThreadFacts DEF Base, CacheInv, LinkNew, ioVars
<1>1. /\ b \in Buffers /\ b \notin Linked /\ k \in Blocks /\ Find(k) = {}
      /\ loc[t].call \in Getting
  <2>1. loc[t].call \in Getting
    BY <1>0 DEF ThreadOK, Possession
  <2> QED
    BY <1>0, <1>b, <1>k, <2>1 DEF ThreadOK, Possession, Inserting, BlockRange, LockHolderOK,
       InHand, Vacant, Linked, Lists
<1>2. buf[b] \in Buffer /\ buf \in [Buffers -> Buffer]
  BY <1>1 DEF Base, CacheInv, IndexInv
<1>3. /\ buf'[b].block = k /\ buf'[b].err = {} /\ buf'[b].where = "clean"
      /\ buf'[b].state = IF loc[t].call = "new" THEN {} ELSE {"reading"}
      /\ \A c \in Buffers \ {b} : buf'[c] = buf[c]
  BY <1>1, <1>2, <1>b, <1>k DEF LinkNew, Link, Buffer
<1>4. \A c \in Buffers \ {b} : Kept(c)
  BY <1>3 DEF Kept, Linked
<1>5. PICK l, s : /\ Go(t, l, s) /\ l \in {"flush", "wait", "submit"}
                  /\ s.mine = b /\ s.call = loc[t].call
  <2>1. \A a : /\ [loc[t] EXCEPT !.mine = loc[t].newb, !.newb = NoBuffer, !.then = a, !.lim = 0].mine = b
               /\ [loc[t] EXCEPT !.mine = loc[t].newb, !.newb = NoBuffer, !.then = a, !.lim = 0].call = loc[t].call
    BY <1>0, <1>b DEF Locals
  <2> QED
    BY <2>1 DEF LinkNew
<1>6. /\ pc'[t] = l /\ loc'[t] = s
      /\ \A u \in Threads \ {t} : pc'[u] = pc[u] /\ loc'[u] = loc[u]
  BY <1>5, GoFacts DEF Base
<1>7. \A c \in Buffers \ {b} : (Lent(c)' <=> Lent(c)) /\ (Fresh(c)' <=> Fresh(c))
  <2>1. loc[t].mine \notin Buffers
    BY <1>0, <1>1 DEF ThreadOK, Possession
  <2> QED
    BY <1>0, <1>5, <1>6, <2>1 DEF Lent, Fresh
<1>8. \A c \in Buffers : ContentOf(c)'
  <2>1. ASSUME NEW c \in Buffers \ {b} PROVE ContentOf(c)'
    BY <1>0, <1>4, <1>7 DEF Lasting, ContentInv, ContentOf, Kept, deviceVars
  <2>2. RequestOfBits(b)'
    BY <1>1 DEF Base, BitsInv
  <2>3. ContentOf(b)'
    BY <1>3, <2>2 DEF ContentOf, RequestOfBits
  <2> QED
    BY <2>1, <2>3
<1>9. DeviceInv'
  <2> SUFFICES ASSUME NEW j \in Blocks, Settled(j)' PROVE Current(j, disk[j])'
    BY DEF DeviceInv
  <2>1. Settled(j)
    BY <1>1, <1>4 DEF Settled, Find, Linked, Kept
  <2> QED
    BY <1>0, <2>1 DEF Lasting, ContentInv, DeviceInv, Current, deviceVars
<1>10. CacheCoherent'
  <2> SUFFICES ASSUME NEW c \in Buffers, Handed(c)'
               PROVE  (buf[c].gen = latest[buf[c].block] \/ buf[c].block \in failed \cup reported)'
    BY DEF CacheCoherent
  <2>1. c # b
    BY <1>3, <1>5, <1>6 DEF Handed
  <2>2. Handed(c)
    BY <1>4, <1>7, <2>1 DEF Handed, Kept, Lent, Fresh
  <2> QED
    BY <1>0, <1>4, <2>1, <2>2 DEF Lasting, ContentInv, CacheCoherent, Kept, deviceVars
<1>11. ASSUME NEW u \in Threads PROVE Keeping(pc[u], loc[u])'
  <2>1. CASE u = t
    BY <1>1, <1>5, <1>6, <2>1 DEF Keeping
  <2>2. CASE u # t
    <3>1. pc[u] \notin {"relink", "movecopy"}
      BY <1>0, <2>2, ThreadFacts DEF Base
    <3>2. loc[u].mine # b
      BY <1>1, HeldLinked DEF Base
    <3>3. pc[u] = "release" => loc[u].mine \in Buffers
      BY ThreadFacts DEF Base, ThreadOK, Possession
    <3> QED
      BY <1>4, <1>6, <2>2, <3>1, <3>2, <3>3, HeldKeeping DEF Lasting, Kept
  <2> QED
    BY <2>1, <2>2
<1>12. Progress
  <2>1. \A j \in Blocks : latest[j] <= latest'[j]
    BY <1>0 DEF Base, ThreadsInv, ThreadsType, Snapshot, Gens, deviceVars
  <2> QED
    BY <1>0, <1>1, <1>4, <2>1, ProgressOf DEF Kept, Linked, deviceVars
<1>13. FlushInv'
  BY <1>0, <1>1, <1>5, <1>12, FlushStep DEF Lasting, FlushInv, FlushOK, Getting, deviceVars
<1> QED
  BY <1>8, <1>9, <1>10, <1>11, <1>13 DEF Lasting, ContentInv

-----------------------------------------------------------------------------
(* Requests.                                                               *)

\* A request for the block of a buffer.
LEMMA SubmitGen ==
  ASSUME CacheInv, NEW b \in Buffers, NEW rw, NEW g, Submit(b, rw, buf[b].block, g)
  PROVE  /\ io'[b].rw = rw /\ io'[b].block = buf[b].block /\ io'[b].gen = g
         /\ \A c \in Buffers \ {b} : io'[c] = io[c]
BY DEF CacheInv, DataType, Submit

\* A step of a thread that begins a request, and what its thread has to have then.
LEMMA BeginsStep ==
  ASSUME Base, Base', Lasting, NEW b \in Buffers, Begins(b), NEW t \in Threads, NEW l, NEW s,
         Go(t, l, s), GoesOn(t, s), Keeping(l, s)', Progress => FlushOK(l, s)',
         \A u \in Threads : pc[u] = "movecopy" /\ loc[u].mine = b /\ "writing" \in buf'[b].state
                            => io'[b].rw = "write"
  PROVE  Lasting'
<1>1. /\ pc'[t] = l /\ loc'[t] = s
      /\ \A u \in Threads \ {t} : pc'[u] = pc[u] /\ loc'[u] = loc[u]
  BY GoFacts DEF Base
<1>2. Loans
  BY GoesOnLoans
<1>3. /\ (\A c \in Buffers : ContentOf(c)') /\ DeviceInv' /\ CacheCoherent'
      /\ SameIndex /\ Progress /\ (~asyncError' => failed' = {})
  BY <1>2, BeginsContent
<1>4. \A u \in Threads \ {t} : Keeping(pc[u], loc[u])'
  BY <1>1, <1>2, BeginsKeeping
<1>5. Keeping(pc[t], loc[t])'
  BY <1>1 DEF Keeping, Fresh
<1>6. FlushInv'
  BY <1>3, FlushStep DEF Lasting
<1> QED
  BY <1>3, <1>4, <1>5, <1>6 DEF Lasting, ContentInv

\* Flush: what was promised is submitted.
LEMMA FlushContent ==
  ASSUME Base, Base', Lasting, NEW t \in Threads, Flush(t)
  PROVE  Lasting'
<1>0. /\ loc[t] \in Locals /\ ThreadOK(pc[t], loc[t]) /\ At(t, "flush")
      /\ UNCHANGED <<buf, asyncError, deviceVars>> /\ UNCHANGED <<asyncError, failed, reported>>
      /\ Promises(pc[t], loc[t]) /\ lock # t
      /\ FlushOK(pc[t], loc[t]) /\ Keeping(pc[t], loc[t])
  BY ThreadFacts DEF Flush, cacheVars, deviceVars, Base, BitsInv, Lasting, FlushInv, ContentInv, Unlocked
<1>1. CASE UNCHANGED io /\ Return(t, loc[t].mine) /\ loc[t].then = "idle"
  <2>1. loc[t].mine \in Buffers => loc[t].call \notin Getting
    BY <1>0, <1>1 DEF ThreadOK, Continuation
  <2>2. Own(t, "idle", Rest(loc[t].mine)) /\ Away(t, "idle", Rest(loc[t].mine))
    BY <1>0, <2>1, ReturningCalm
  <2> QED
    BY <1>0, <1>1, <2>2, CalmSame, Quietly DEF Return
<1>2. CASE UNCHANGED io /\ Go(t, loc[t].then, loc[t]) /\ loc[t].wl = {} /\ loc[t].then # "idle"
  <2>1. PICK l, s : l = loc[t].then /\ s = loc[t]
    OBVIOUS
  <2>2. Go(t, l, s) /\ l \in {"submit", "wait", "relock"} /\ (s.call = "sync" => l = "relock")
    BY <1>0, <1>2, <2>1 DEF ThreadOK, Continuation, Getting
  <2>3. Own(t, l, s)
    BY <1>0, <2>1, <2>2 DEF Own
  <2>4. Progress => FlushOK(l, s)'
    <3>1. SUFFICES ASSUME Progress, s.call = "sync", NEW k \in Blocks, NEW g, g = s.snap[k]
                   PROVE  g <= latest'[k] /\ (Reached(k, g)' \/ Leaving(k, g)')
      BY <2>2 DEF FlushOK, Reached, Leaving, Ahead, Younger, Find, Linked
    <3>2. g \in Gens
      BY <1>0, <2>1, <3>1 DEF Locals, Snapshot
    <3> QED
      BY <1>0, <2>1, <3>1, <3>2 DEF FlushOK, Progress
  <2> QED
    BY <1>0, <1>2, <2>2, <2>3, <2>4, CalmSame, FlushQuietly
<1>3. ASSUME NEW b \in loc[t].wl, Submit(b, "write", buf[b].block, buf[b].gen),
             Go(t, "flush", [loc[t] EXCEPT !.wl = @ \ {b}])
      PROVE  Lasting'
  <2>1. PICK s : s = [loc[t] EXCEPT !.wl = @ \ {b}]
    OBVIOUS
  <2>2. /\ s.mine = loc[t].mine /\ s.call = loc[t].call /\ s.snap = loc[t].snap /\ b \in Buffers
        /\ Go(t, "flush", s)
    BY <1>0, <1>3, <2>1 DEF Locals
  <2>3. "writing" \in buf[b].state /\ io[b].rw # "write" /\ b \in Linked
    BY <1>0, <2>2, BufferFacts DEF Promises
  <2>4. /\ io'[b].rw = "write" /\ io'[b].block = buf[b].block /\ io'[b].gen = buf[b].gen
        /\ \A c \in Buffers \ {b} : io'[c] = io[c]
    BY <1>3, <2>2, SubmitGen DEF Base
  <2>5. buf[b].gen = latest[buf[b].block]
    <3>1. ~Lent(b)
      <4> SUFFICES ASSUME NEW u \in Threads, At(u, "movecopy"), loc[u].mine = b PROVE FALSE
        BY DEF Lent
      <4>1. Keeping(pc[u], loc[u])
        BY DEF Lasting, ContentInv
      <4> QED
        BY <2>3, <4>1 DEF Keeping
    <3> QED
      BY <2>2, <2>3, <3>1 DEF Lasting, ContentInv, ContentOf
  <2>6. Begins(b)
    BY <1>0, <2>3, <2>4, <2>5 DEF Begins
  <2>7. GoesOn(t, s)
    BY <1>0, <2>2 DEF GoesOn
  <2>8. Keeping("flush", s)'
    BY <1>0, <2>2 DEF Keeping
  <2>9. Progress => FlushOK("flush", s)'
    <3>1. SUFFICES ASSUME Progress, s.call = "sync", NEW k \in Blocks, NEW g, g = s.snap[k]
                   PROVE  g <= latest'[k] /\ (Reached(k, g)' \/ Leaving(k, g)')
      BY <2>1 DEF FlushOK, Reached, Leaving, Ahead, Younger, Find, Linked
    <3>2. g \in Gens
      BY <1>0, <2>2, <3>1 DEF Locals, Snapshot
    <3> QED
      BY <1>0, <2>2, <3>1, <3>2 DEF FlushOK, Progress
  <2> QED
    BY <2>2, <2>4, <2>6, <2>7, <2>8, <2>9, BeginsStep
<1> QED
  BY <1>1, <1>2, <1>3 DEF Flush

\* SubmitRead: the bit of the buffer becomes a request.
LEMMA SubmitReadContent ==
  ASSUME Base, Base', Lasting, NEW t \in Threads, SubmitRead(t)
  PROVE  Lasting'
<1>b. PICK b, s : b = loc[t].mine /\ s = loc[t]
  OBVIOUS
<1>0. /\ loc[t] \in Locals /\ ThreadOK(pc[t], loc[t]) /\ At(t, "submit") /\ UNCHANGED buf
      /\ UNCHANGED <<asyncError, deviceVars>> /\ Promises(pc[t], loc[t]) /\ FlushOK(pc[t], loc[t])
  BY ThreadFacts DEF SubmitRead, cacheVars, Base, BitsInv, Lasting, FlushInv
<1>1. /\ b \in Buffers /\ loc[t].call \in Getting /\ "reading" \in buf[b].state /\ b \in Linked
      /\ "writing" \notin buf[b].state
  BY <1>0, <1>b, BufferFacts DEF ThreadOK, Possession, Promises, Submitting
<1>2. /\ io'[b].rw = "read" /\ \A c \in Buffers \ {b} : io'[c] = io[c]
  BY <1>1, <1>b, SubmitGen DEF SubmitRead, Base
<1>3. PICK l \in {"release", "wait"} : Go(t, l, s) /\ (l = "release" => s.call = "prefetch")
  BY <1>b DEF SubmitRead
<1>4. Begins(b)
  BY <1>0, <1>1, <1>2 DEF Begins
<1>5. GoesOn(t, s) /\ Keeping(l, s)' /\ FlushOK(l, s)'
  BY <1>0, <1>1, <1>3, <1>b DEF GoesOn, Keeping, FlushOK, Getting
<1> QED
  BY <1>0, <1>1, <1>3, <1>4, <1>5, BeginsStep

\* A calm step of a thread that does not flush, or nothing yet.
LEMMA Calmly ==
  ASSUME Base, Base', Lasting, Calm, UNCHANGED <<asyncError, failed, reported>>,
         NEW t \in Threads, NEW l, NEW s, Go(t, l, s), GoesOn(t, s), Keeping(l, s)',
         Away(t, l, s), lock \in {t, Nobody} \/ SameIndex
  PROVE  Lasting'
<1>1. ContentInv'
  BY CalmStep DEF Lasting
<1>2. Progress
  BY CalmProgress
<1>3. FlushOK(l, s)'
  BY <1>2, AwayFlush DEF Lasting
<1> QED
  BY <1>1, <1>2, <1>3, FlushStep DEF Lasting, FlushInv

\* WaitRead hands out what was read, or gives up the reference.
LEMMA WaitReadContent ==
  ASSUME Base, Base', Lasting, NEW t \in Threads, WaitRead(t)
  PROVE  Lasting'
<1>b. PICK b, s : b = loc[t].mine /\ s = loc[t]
  OBVIOUS
<1>0. /\ loc[t] \in Locals /\ ThreadOK(pc[t], loc[t]) /\ At(t, "wait")
      /\ UNCHANGED <<buf, io, deviceVars>> /\ UNCHANGED asyncError
  BY ThreadFacts DEF WaitRead, cacheVars, ioVars, Base
<1>1. b \in Buffers /\ loc[t].call \in Getting
  BY <1>0, <1>b DEF ThreadOK, Possession
<1>2. PICK l, r : /\ Go(t, l, r) /\ l \in {"release", "idle", "overwrite"} /\ r.mine = b
                  /\ r.call # "sync"
                  /\ IF l = "idle" THEN loc[t].call # "new" ELSE r = s
                  /\ l = "release" <=> "read" \in buf[b].err
  <2>1. Rest(b).mine = b /\ Rest(b).call # "sync" /\ loc[t].call # "sync"
    BY <1>1 DEF Rest, Getting
  <2> QED
    BY <1>b, <2>1 DEF WaitRead, Return
<1>3. GoesOn(t, r) /\ Away(t, l, r)
  BY <1>0, <1>2, <1>b DEF GoesOn, Away
<1>4. Keeping(l, r)'
  BY <1>0, <1>1, <1>2, <1>b DEF Keeping, Getting
<1> QED
  BY <1>0, <1>2, <1>3, <1>4, CalmSame, Calmly

-----------------------------------------------------------------------------
(* Generations.                                                            *)

\* What a client writes next is not older.
LEMMA BumpFacts ==
  ASSUME NEW g \in Gens
  PROVE  Bump(g) \in Gens /\ g <= Bump(g)
BY MaxGenAssumption DEF Bump, Gens

-----------------------------------------------------------------------------
(* Giving a buffer back, and making it dirty.                              *)

\* ReleaseRef: the buffer was read, or nobody will see that it was not.
LEMMA ReleaseRefContent ==
  ASSUME Base, Base', Lasting, NEW t \in Threads, ReleaseRef(t)
  PROVE  Lasting'
<1>0. /\ loc[t] \in Locals /\ ThreadOK(pc[t], loc[t]) /\ (At(t, "release") \/ At(t, "idle"))
      /\ UNCHANGED <<io, deviceVars>> /\ UNCHANGED <<failed, reported>> /\ lock = Nobody
      /\ UNCHANGED asyncError /\ Keeping(pc[t], loc[t]) /\ CacheInv
  BY ThreadFacts DEF ReleaseRef, Base, ioVars, deviceVars, Lasting, ContentInv
<1>1. PICK b \in Buffers : b = loc[t].mine
  BY <1>0 DEF ReleaseRef, ThreadOK, Possession, Locals
<1>2. buf[b] \in Buffer
  BY <1>1 DEF Base, CacheInv, IndexInv
<1>3. PICK l, s : l \in {"relock", "idle"} /\ s.mine = NoBuffer /\ s.call # "sync" /\ Go(t, l, s)
  <2>1. Rest(NoBuffer).mine = NoBuffer /\ Rest(NoBuffer).call # "sync"
    BY DEF Rest
  <2>2. /\ Wanted("prefetch", loc[t].blk + 1, loc[t].left - 1).mine = NoBuffer
        /\ Wanted("prefetch", loc[t].blk + 1, loc[t].left - 1).call # "sync"
    BY DEF Wanted, Rest
  <2> QED
    BY <2>1, <2>2 DEF ReleaseRef, Return
<1>4. GoesOn(t, s)
  BY <1>0, <1>1 DEF GoesOn, Keeping, ThreadOK, Possession, Getting
<1>5. Keeping(l, s)' /\ Away(t, l, s)
  BY <1>3, BuffersAssumption DEF Keeping, Away
<1>6. CASE Spoiled(b) /\ FreeBufferWake(b)
  BY <1>0, <1>3, <1>4, <1>5, <1>6, CalmFree, Calmly DEF Spoiled
<1>7. CASE buf' = [buf EXCEPT ![b] = Unhold(@)]
  <2>1. /\ buf'[b] = [buf[b] EXCEPT !.hold = @ - 1]
        /\ \A c \in Buffers \ {b} : buf'[c] = buf[c]
    BY <1>7 DEF Base, CacheInv, IndexInv, Unhold
  <2>2. \A c \in Buffers : Kept(c)
    BY <1>2, <2>1 DEF Buffer, Kept, Linked
  <2>3. Calm
    BY <1>0, <2>2 DEF Calm, SameDevice, deviceVars
  <2> QED
    BY <1>0, <1>3, <1>4, <1>5, <2>3, Calmly
<1> QED
  BY <1>1, <1>6, <1>7 DEF ReleaseRef

\* A calm step that moves no thread.
LEMMA CalmNobody ==
  ASSUME Base, Base', Lasting, Calm, UNCHANGED <<asyncError, failed, reported, pc, loc>>,
         lock = Nobody \/ SameIndex
  PROVE  Lasting'
<1>1. ContentInv'
  BY CalmStill DEF Lasting
<1>2. Progress
  BY CalmProgress
<1>3. FlushInv'
  BY <1>2, FlushOther, ThreadsAssumption DEF Lasting, FlushInv
<1> QED
  BY <1>1, <1>3 DEF Lasting

\* Forget: an idle buffer goes away, and the device has its content.
LEMMA ForgetContent ==
  ASSUME Base, Base', Lasting, NEW t \in Threads, NEW k \in Blocks, Forget(t, k)
  PROVE  Lasting'
<1>1. PICK b \in Find(k) : buf[b].state = {} /\ FreeBufferWake(b)
  BY DEF Forget
<1>2. /\ b \in Buffers /\ UNCHANGED <<asyncError, pc, loc>> /\ UNCHANGED <<io, deviceVars>>
      /\ lock = Nobody /\ CacheInv
  BY DEF Find, Linked, Forget, ioVars, Base
<1> QED
  BY <1>1, <1>2, CalmFree, CalmNobody

\* MakeDirty: the buffer gets the newest content of its block, and is on the dirty list.
LEMMA MakeDirtyContent ==
  ASSUME Base, Base', Lasting, NEW t \in Threads, MakeDirty(t), loc[t].mine \in Buffers,
         At(t, "idle") \/ At(t, "overwrite")
  PROVE  Lasting'
<1>b. PICK b \in Buffers : b = loc[t].mine
  OBVIOUS
<1>k. PICK k : k = buf[b].block
  OBVIOUS
<1>g. PICK g : g = Bump(latest[k])
  OBVIOUS
<1>0. /\ lock = Nobody /\ UNCHANGED <<io, asyncError, disk, failed, reported>>
      /\ b \in Linked /\ k \in Blocks /\ buf[b] \in Buffer /\ buf \in [Buffers -> Buffer]
      /\ latest \in Snapshot /\ ThreadOK(pc[t], loc[t]) /\ Keeping(pc[t], loc[t])
  BY <1>b, <1>k, HeldLinked, ThreadFacts
     DEF MakeDirty, ioVars, Base, CacheInv, IndexInv, Lasting, ContentInv
<1>1. /\ latest' = [latest EXCEPT ![k] = g] /\ g \in Gens /\ latest'[k] = g /\ latest[k] <= g
      /\ \A j \in Blocks \ {k} : latest'[j] = latest[j]
  <2>1. latest' = [latest EXCEPT ![k] = g]
    BY <1>b, <1>k, <1>g DEF MakeDirty
  <2>2. latest[k] \in Gens
    BY <1>0 DEF Snapshot
  <2>3. g \in Gens /\ latest[k] <= g
    BY <1>g, <2>2, BumpFacts
  <2> QED
    BY <1>0, <2>1, <2>3 DEF Snapshot
<1>2. PICK r : r = [buf[b] EXCEPT !.state = @ \cup {"dirty"}, !.gen = g]
  OBVIOUS
<1>3. /\ r.state = buf[b].state \cup {"dirty"} /\ r.block = k /\ r.err = buf[b].err /\ r.gen = g
      /\ r.where = buf[b].where /\ r \in Buffer
      /\ [r EXCEPT !.where = "dirty"].state = r.state /\ [r EXCEPT !.where = "dirty"].block = r.block
      /\ [r EXCEPT !.where = "dirty"].where = "dirty" /\ [r EXCEPT !.where = "dirty"].gen = g
      /\ [r EXCEPT !.where = "dirty"].err = r.err
  BY <1>0, <1>1, <1>2, <1>k DEF Buffer, Bits
<1>4. \/ Link(b, r, "dirty")
      \/ buf' = [buf EXCEPT ![b] = r]
  BY <1>2, <1>b, <1>k, <1>g DEF MakeDirty
<1>5. /\ buf'[b].state = buf[b].state \cup {"dirty"} /\ buf'[b].block = k /\ buf'[b].gen = g
      /\ buf'[b].err = buf[b].err /\ b \in Linked'
      /\ \A c \in Buffers \ {b} : buf'[c] = buf[c]
  BY <1>0, <1>3, <1>4 DEF Link, Linked, Lists
<1>6. \A c \in Buffers : c \in Linked' <=> c \in Linked
  BY <1>0, <1>5 DEF Linked
<1>7. \A c \in Buffers \ {b} : c \in Linked => buf[c].block # k
  BY <1>0, <1>k DEF Base, CacheInv, IndexInv, OneBufferPerBlock
<1>8. /\ pc'[t] = "idle" /\ loc'[t] = Rest(b) /\ Go(t, "idle", Rest(b))
      /\ \A u \in Threads \ {t} : pc'[u] = pc[u] /\ loc'[u] = loc[u]
  BY <1>b, GoFacts DEF MakeDirty, Return, Base
<1>9. \A u \in Threads : pc[u] \notin {"relink", "movecopy"} /\ pc'[u] \notin {"relink", "movecopy"}
  BY <1>0, <1>8, ThreadFacts, ThreadsAssumption DEF Base
<1>10. "read" \notin buf[b].err
  BY <1>0, <1>b DEF Keeping, ThreadOK, Possession
<1>11. \A c \in Buffers : ContentOf(c)'
  <2>1. ASSUME NEW c \in Buffers \ {b} PROVE ContentOf(c)'
    <3>1. buf[c].state # {} => c \in Linked /\ buf[c].block \in Blocks
      BY BufferFacts
    <3>2. io[c].rw = "write" => c \in Linked /\ io[c].block = buf[c].block /\ buf[c].block \in Blocks
      BY BufferFacts
    <3>3. ContentOf(c)
      BY DEF Lasting, ContentInv
    <3> QED
      BY <1>0, <1>1, <1>5, <1>7, <1>9, <3>1, <3>2, <3>3 DEF ContentOf, Lent
  <2>2. ContentOf(b)'
    BY <1>1, <1>5, <1>10 DEF ContentOf
  <2> QED
    BY <2>1, <2>2
<1>12. DeviceInv'
  <2> SUFFICES ASSUME NEW j \in Blocks, Settled(j)' PROVE Current(j, disk[j])'
    BY DEF DeviceInv
  <2>1. j # k
    BY <1>5 DEF Settled, Find
  <2>2. Settled(j)
    BY <1>5, <1>6, <1>k, <2>1 DEF Settled, Find, Linked
  <2> QED
    BY <1>0, <1>1, <2>1, <2>2 DEF Lasting, ContentInv, DeviceInv, Current
<1>13. CacheCoherent'
  <2> SUFFICES ASSUME NEW c \in Buffers, Handed(c)'
               PROVE  (buf[c].gen = latest[buf[c].block] \/ buf[c].block \in failed \cup reported)'
    BY DEF CacheCoherent
  <2>1. CASE c = b
    BY <1>1, <1>5, <2>1
  <2>2. CASE c # b
    <3>1. Handed(c)
      BY <1>5, <1>6, <1>8, <1>9, <1>b, <2>2 DEF Handed
    <3>2. c \in Linked /\ buf[c].block \in Blocks \ {k}
      BY <1>7, <2>2, <3>1, BufferFacts DEF Handed
    <3> QED
      BY <1>0, <1>1, <1>5, <2>2, <3>1, <3>2 DEF Lasting, ContentInv, CacheCoherent
  <2> QED
    BY <2>1, <2>2
<1>14. ASSUME NEW u \in Threads PROVE Keeping(pc[u], loc[u])'
  <2>1. CASE u = t
    BY <1>5, <1>8, <1>10, <2>1 DEF Keeping, Rest
  <2>2. CASE u # t
    <3>1. pc[u] = "release" => loc[u].mine \in Buffers
      BY ThreadFacts DEF Base, ThreadOK, Possession
    <3> QED
      BY <1>5, <1>8, <1>9, <2>2, <3>1, HeldKeeping DEF Lasting
  <2> QED
    BY <2>1, <2>2
<1>15. Progress
  <2>1. \A j \in Blocks : latest[j] <= latest'[j]
    BY <1>0, <1>1 DEF Snapshot, Gens
  <2>2. \A c \in Linked : "writing" \in buf[c].state =>
          c \in Linked' /\ buf'[c].block = buf[c].block /\ "writing" \in buf'[c].state
    BY <1>5, <1>6, <1>k DEF Linked
  <2> QED
    BY <1>0, <2>1, <2>2, ProgressOf
<1>16. FlushInv'
  <2>1. Rest(b).call # "sync"
    BY DEF Rest
  <2>2. FlushOK("idle", Rest(b))'
    BY <2>1 DEF FlushOK
  <2> QED
    BY <1>0, <1>8, <1>15, <2>2, FlushStep DEF Lasting, FlushInv
<1> QED
  BY <1>11, <1>12, <1>13, <1>14, <1>16 DEF Lasting, ContentInv

\* MarkDirty, between two calls, and Overwrite, at the end of dm_bufio_new.
LEMMA MarkDirtyContent ==
  ASSUME Base, Base', Lasting, NEW t \in Threads, MarkDirty(t)
  PROVE  Lasting'
<1>1. loc[t].mine \in Buffers
  BY ThreadFacts DEF MarkDirty, Locals, Base
<1> QED
  BY <1>1, MakeDirtyContent DEF MarkDirty, Call

\* The overwriter has its buffer.
LEMMA OverwriteContent ==
  ASSUME Base, Base', Lasting, NEW t \in Threads, Overwrite(t)
  PROVE  Lasting'
<1>1. loc[t].mine \in Buffers
  BY ThreadFacts DEF Overwrite, ThreadOK, Possession, Base
<1> QED
  BY <1>1, MakeDirtyContent DEF Overwrite

-----------------------------------------------------------------------------
(* Making a buffer clean, and writing it back.                             *)

\* StartWrite is the beginning of a request.
LEMMA StartWriteBegins ==
  ASSUME Base, Lasting, NEW b \in Buffers, Writable(b), StartWrite(b),
         UNCHANGED <<asyncError, deviceVars>>,
         UNCHANGED io \/ Submit(b, "write", buf[b].block, buf[b].gen)
  PROVE  Begins(b) /\ buf'[b].state = Writing(buf[b].state)
<1>1. /\ buf[b] \in Buffer /\ buf' = [buf EXCEPT ![b] = [buf[b] EXCEPT !.state = Writing(@)]]
      /\ buf \in [Buffers -> Buffer] /\ CacheInv
  BY DEF StartWrite, Base, CacheInv, IndexInv
<1>2. /\ buf'[b] = [buf[b] EXCEPT !.state = Writing(@)]
      /\ \A c \in Buffers \ {b} : buf'[c] = buf[c]
  BY <1>1
<1>3. /\ buf'[b].state = Writing(buf[b].state) /\ buf'[b].block = buf[b].block /\ buf'[b].gen = buf[b].gen
      /\ buf'[b].err = buf[b].err /\ buf'[b].where = buf[b].where /\ buf'[b].hold = buf[b].hold
  BY <1>1, <1>2 DEF Buffer
<1>4. b \in Linked
  BY BufferFacts DEF Writable
<1>5. buf[b].gen = latest[buf[b].block]
  BY DEF Lasting, ContentInv, ContentOf, Writable
<1>6. \/ UNCHANGED io
      \/ /\ io'[b].rw = "write" /\ io'[b].block = buf[b].block /\ io'[b].gen = buf[b].gen
         /\ \A c \in Buffers \ {b} : io'[c] = io[c]
  BY <1>1, SubmitGen
<1> QED
  BY <1>2, <1>3, <1>4, <1>5, <1>6 DEF Begins

\* CleanWrite: a dirty victim is written where it is.
LEMMA CleanWriteContent ==
  ASSUME Base, Base', Lasting, NEW t \in Threads, CleanWrite(t)
  PROVE  Lasting'
<1>b. PICK b : b = loc[t].cur
  OBVIOUS
<1>0. b \in Buffers /\ UNCHANGED <<pc, loc>> /\ UNCHANGED <<asyncError, deviceVars>>
  BY <1>b, ThreadFacts DEF CleanWrite, ThreadOK, Possession, Base
<1>1. CacheInv /\ Submit(b, "write", buf[b].block, buf[b].gen) /\ Writable(b) /\ StartWrite(b)
  BY <1>b DEF CleanWrite, Base
<1>2. Begins(b) /\ io'[b].rw = "write"
  BY <1>0, <1>1, StartWriteBegins, SubmitGen
<1>3. Loans
  BY <1>0 DEF Loans, Lent, Fresh
<1>4. /\ (\A c \in Buffers : ContentOf(c)') /\ DeviceInv' /\ CacheCoherent'
      /\ SameIndex /\ Progress /\ (~asyncError' => failed' = {})
  BY <1>0, <1>2, <1>3, BeginsContent
<1>5. \A u \in Threads : Keeping(pc[u], loc[u])'
  BY <1>0, <1>2, <1>3, BeginsKeeping
<1>6. \A u \in Threads : FlushOK(pc[u], loc[u])'
  BY <1>0, <1>4, FlushOther DEF Lasting
<1> QED
  BY <1>4, <1>5, <1>6 DEF Lasting, ContentInv, FlushInv

\* CleanDone: an idle buffer goes away, and the device has its content.
LEMMA CleanDoneContent ==
  ASSUME Base, Base', Lasting, NEW t \in Threads, CleanDone(t)
  PROVE  Lasting'
<1>b. PICK b : b = loc[t].cur
  OBVIOUS
<1>0. /\ loc[t] \in Locals /\ ThreadOK(pc[t], loc[t]) /\ At(t, "clean") /\ lock = t
      /\ UNCHANGED <<io, deviceVars>> /\ UNCHANGED asyncError /\ CacheInv
      /\ b \in Buffers /\ buf[b].state = {}
  BY <1>b, ThreadFacts DEF CleanDone, ioVars, ThreadOK, Possession, Quiescent, Base
<1>1. PICK l, s : Go(t, l, s) /\ Own(t, l, s) /\ Away(t, l, s)
  <2>1. CASE loc[t].then = "alloc"
    <3>1. PICK s : s = [loc[t] EXCEPT !.newb = loc[t].cur, !.cur = NoBuffer, !.then = "idle"]
      OBVIOUS
    <3>2. Go(t, "recheck", s) /\ s.mine = loc[t].mine /\ s.call = loc[t].call /\ s.snap = loc[t].snap
      BY <1>0, <2>1, <3>1 DEF CleanDone, Locals
    <3> QED
      BY <1>0, <3>2, Onward DEF FlushPoints
  <2>2. CASE loc[t].then \in {"watermark", "drop", "move"}
    <3>1. PICK s : s = [loc[t] EXCEPT !.cur = NoBuffer, !.then = "idle"]
      OBVIOUS
    <3>2. /\ Go(t, loc[t].then, s) /\ s.mine = loc[t].mine /\ s.call = loc[t].call
          /\ s.snap = loc[t].snap
      BY <1>0, <2>2, <3>1 DEF CleanDone, Locals
    <3>3. PICK l : l = loc[t].then
      OBVIOUS
    <3> QED
      BY <1>0, <2>2, <3>2, <3>3, Onward DEF FlushPoints
  <2>3. CASE loc[t].then = "scan"
    <3>1. PICK r : r = [loc[t] EXCEPT !.left = @ - 1, !.count = @ - 1, !.cur = NoBuffer]
      OBVIOUS
    <3>2. r.mine = loc[t].mine /\ r.call = loc[t].call /\ r.snap = loc[t].snap
      BY <1>0, <3>1 DEF Locals
    <3>3. Return(t, loc[t].mine) \/ Go(t, "scan", r)
      BY <2>3, <3>1, <3>2 DEF CleanDone, Scanned
    <3>4. loc[t].mine \in Buffers => loc[t].call \notin Getting
      BY <1>0 DEF ThreadOK, Possession
    <3> QED
      BY <1>0, <3>2, <3>3, <3>4, Onward, ReturningCalm DEF FlushPoints, Return
  <2> QED
    BY <2>1, <2>2, <2>3 DEF CleanDone
<1>2. Calm /\ UNCHANGED <<failed, reported>>
  BY <1>0, <1>b, CalmFree, CalmTake DEF CleanDone
<1> QED
  BY <1>0, <1>1, <1>2, Quietly

-----------------------------------------------------------------------------
(* Flushing.                                                               *)

\* A thread that goes on with its call and its buffer, flushing or not ...
LEMMA OwnOn ==
  ASSUME NEW t \in Threads, NEW l, NEW s, pc[t] # "movecopy",
         s.mine = loc[t].mine, s.call = loc[t].call,
         l \notin {"release", "relink", "movecopy", "overwrite"}
  PROVE  Own(t, l, s)
BY DEF Own

\* ... and one that begins a call with the buffer it has.
LEMMA OwnBegins ==
  ASSUME Base, NEW t \in Threads, NEW l, NEW s, At(t, "idle"), s.mine = loc[t].mine,
         l \notin {"release", "relink", "movecopy", "overwrite"}
  PROVE  Own(t, l, s)
<1>1. loc[t].mine \in Buffers => loc[t].call \notin Getting
  BY ThreadFacts DEF Base, ThreadOK, Possession
<1> QED
  BY <1>1 DEF Own, Getting

\* What nobody has to write has reached the device, or failed to.
LEMMA SettledReached ==
  ASSUME Base, Lasting, NEW k \in Blocks, Settled(k), NEW g \in Gens, g <= latest[k]
  PROVE  Reached(k, g)
<1>1. Ahead(k, g)
  <2> SUFFICES ASSUME NEW b \in Buffers, io[b].block = k, io[b].rw = "write" PROVE FALSE
    BY DEF Ahead, Younger
  <2>1. b \in Find(k) /\ "writing" \in buf[b].state
    BY BufferFacts DEF Find
  <2> QED
    BY <2>1 DEF Settled
<1>2. Current(k, disk[k])
  BY DEF Lasting, ContentInv, DeviceInv
<1>3. disk[k] = latest[k] => disk[k] >= g
  <2>1. latest[k] \in Nat /\ g \in Nat
    BY DEF Base, ThreadsInv, ThreadsType, Snapshot, Gens
  <2> QED
    BY <2>1
<1> QED
  BY <1>1, <1>2, <1>3 DEF Reached, Current

\* While nobody moves a buffer, what is being written is on the dirty list.
LEMMA WritingListed ==
  ASSUME Base, NEW b \in Buffers, "writing" \in buf[b].state,
         \A t \in Threads : ~At(t, "movecopy")
  PROVE  b \in Linked /\ buf[b].where = "dirty"
BY DEF Base, BitsInv, BitsOfList, Linked, Lists

\* WriteAsync starts a walk of the dirty list.
LEMMA WriteAsyncContent ==
  ASSUME Base, Base', Lasting, NEW t \in Threads, WriteAsync(t)
  PROVE  Lasting'
<1>0. /\ loc[t] \in Locals /\ At(t, "idle") /\ lock = Nobody
      /\ UNCHANGED <<buf, io, deviceVars>> /\ UNCHANGED asyncError
  BY ThreadFacts DEF WriteAsync, Call, cacheVars, ioVars, Base
<1>1. PICK s : s = [loc[t] EXCEPT !.call = "async", !.walk = List("dirty"), !.then = "idle"]
  OBVIOUS
<1>2. Go(t, "wb", s) /\ s.mine = loc[t].mine /\ s.call = "async"
  BY <1>0, <1>1 DEF WriteAsync, StartWriteBack, Locals
<1>3. Own(t, "wb", s) /\ Away(t, "wb", s)
  BY <1>0, <1>2, OwnBegins DEF Away
<1> QED
  BY <1>0, <1>2, <1>3, CalmSame, Quietly

\* Sync: what its caller wants to be durable has reached the device, or is on the
\* dirty list.
LEMMA SyncContent ==
  ASSUME Base, Base', Lasting, NEW t \in Threads, Sync(t)
  PROVE  Lasting'
<1>0. /\ loc[t] \in Locals /\ At(t, "idle") /\ lock = Nobody
      /\ UNCHANGED <<buf, io, deviceVars>> /\ UNCHANGED asyncError
      /\ latest \in Snapshot
  BY ThreadFacts DEF Sync, Call, cacheVars, ioVars, Base
<1>1. PICK s : s = [loc[t] EXCEPT !.call = "sync", !.walk = List("dirty"),
                                  !.then = "relock", !.snap = latest, !.res = FALSE]
  OBVIOUS
<1>2. /\ Go(t, "wb", s) /\ s.mine = loc[t].mine /\ s.call = "sync" /\ s.walk = List("dirty")
      /\ s.snap = latest
  BY <1>0, <1>1 DEF Sync, Locals
<1>3. Own(t, "wb", s)
  BY <1>0, <1>2, OwnBegins
<1>4. \A u \in Threads : ~At(u, "movecopy")
  BY <1>0, ThreadFacts, ThreadsAssumption DEF Base
<1>5. ASSUME Progress PROVE FlushOK("wb", s)'
  <2> SUFFICES ASSUME NEW k \in Blocks, NEW g, g = s.snap[k]
               PROVE  g <= latest'[k] /\ (Reached(k, g)' \/ Find(k)' \cap s.walk # {})
    BY DEF FlushOK, Reached, Ahead, Younger, Find, Linked
  <2>1. g \in Gens /\ g = latest[k] /\ g <= latest[k]
    BY <1>0, <1>2 DEF Snapshot, Gens
  <2>2. CASE Settled(k)
    <3>1. Reached(k, g)
      BY <2>1, <2>2, SettledReached
    <3> QED
      BY <1>5, <2>1, <3>1 DEF Progress
  <2>3. CASE ~Settled(k)
    <3>1. PICK b \in Find(k) : buf[b].state \cap {"dirty", "writing"} # {}
      BY <2>3 DEF Settled
    <3>2. b \in Buffers /\ b \in Find(k)'
      BY <1>0, <3>1 DEF Find, Linked
    <3>3. buf[b].where = "dirty"
      BY <1>4, <3>1, <3>2, WritingListed, BufferFacts
    <3> QED
      BY <1>2, <1>5, <2>1, <3>2, <3>3 DEF List, Progress
  <2> QED
    BY <2>2, <2>3
<1> QED
  BY <1>0, <1>2, <1>3, <1>5, CalmSame, FlushQuietly

\* WriteBack: a flush leaves no buffer behind, it starts a write of it, meets one that
\* is of the newest content, or finds it clean.
LEMMA WriteBackContent ==
  ASSUME Base, Base', Lasting, NEW t \in Threads, WriteBack(t)
  PROVE  Lasting'
<1>0. /\ loc[t] \in Locals /\ ThreadOK(pc[t], loc[t]) /\ At(t, "wb") /\ lock = t
      /\ UNCHANGED asyncError /\ UNCHANGED <<io, deviceVars>> /\ CacheInv
      /\ FlushOK(pc[t], loc[t]) /\ loc[t].walk \subseteq Linked
  BY ThreadFacts DEF WriteBack, ioVars, Base, Lasting, FlushInv, CacheInv, LockHolderOK, Walking
<1>1. \A u \in Threads : ~At(u, "movecopy")
  BY <1>0, ThreadFacts DEF Base
<1>2. loc[t].call = "sync" => loc[t].then # "link"
  BY <1>0 DEF ThreadOK, Continuation, Getting
\* What holds of a block whose buffer is not the one that is looked at.
<1>3. ASSUME NEW b \in loc[t].walk, NEW s, s.mine = loc[t].mine, s.call = loc[t].call,
             s.snap = loc[t].snap, s.walk = loc[t].walk \ {b} \/ s.call # "sync",
             Progress, \A k : Find(k)' = Find(k),
             \A k \in Blocks, g \in Gens :
               g <= latest[k] /\ b \in Find(k) => Reached(k, g) \/ Leaving(k, g) \/ Leaving(k, g)'
      PROVE  FlushOK("wb", s)'
  <2> SUFFICES ASSUME s.call = "sync", NEW k \in Blocks, NEW g, g = s.snap[k]
               PROVE  g <= latest'[k] /\ (Reached(k, g)' \/ Leaving(k, g)' \/ Find(k)' \cap s.walk # {})
    BY DEF FlushOK, Reached, Leaving, Ahead, Younger, Find, Linked
  <2>1. g \in Gens /\ g <= latest[k]
    BY <1>0, <1>3 DEF Locals, Snapshot, FlushOK
  <2>2. Reached(k, g) \/ Leaving(k, g) \/ Find(k) \cap loc[t].walk # {}
    BY <1>0, <1>3 DEF FlushOK
  <2>3. Reached(k, g) \/ Leaving(k, g) => Reached(k, g)' \/ Leaving(k, g)'
    BY <1>3, <2>1 DEF Progress
  <2> QED
    BY <1>3, <2>1, <2>2, <2>3 DEF Progress
<1>4. ASSUME NEW b \in loc[t].walk, ListFor(buf[b].state) = "clean", Link(b, buf[b], "clean"),
             Go(t, "wb", [loc[t] EXCEPT !.walk = @ \ {b}])
      PROVE  Lasting'
  <2>1. PICK s : s = [loc[t] EXCEPT !.walk = @ \ {b}]
    OBVIOUS
  <2>2. /\ Go(t, "wb", s) /\ s.mine = loc[t].mine /\ s.call = loc[t].call /\ s.snap = loc[t].snap
        /\ s.walk = loc[t].walk \ {b}
    BY <1>0, <1>4, <2>1 DEF Locals
  <2>3. b \in Linked /\ b \in Buffers /\ buf[b] \in Buffer
    BY <1>0, <1>4, BufferFacts DEF Linked
  <2>4. Calm /\ UNCHANGED <<failed, reported>> /\ \A k : Find(k)' = Find(k)
    BY <1>0, <1>4, <2>3, CalmLink, LinkFacts DEF Lists
  <2>5. \A k \in Blocks, g \in Gens : g <= latest[k] /\ b \in Find(k) => Reached(k, g)
    <3> SUFFICES ASSUME NEW k \in Blocks, b \in Find(k) PROVE Settled(k)
      BY SettledReached
    <3>1. Find(k) = {b}
      BY <1>0 DEF Find, CacheInv, IndexInv, OneBufferPerBlock
    <3> QED
      BY <1>4, <3>1 DEF Settled, ListFor
  <2>6. Progress => FlushOK("wb", s)'
    BY <1>3, <2>2, <2>4, <2>5
  <2>7. Own(t, "wb", s)
    BY <1>0, <2>2, OwnOn
  <2> QED
    BY <1>0, <2>2, <2>4, <2>6, <2>7, FlushQuietly
<1>5. ASSUME NEW b \in loc[t].walk, Writable(b), StartWrite(b),
             Go(t, "wb", [loc[t] EXCEPT !.walk = @ \ {b}, !.wl = @ \cup {b}])
      PROVE  Lasting'
  <2>1. PICK s : s = [loc[t] EXCEPT !.walk = @ \ {b}, !.wl = @ \cup {b}]
    OBVIOUS
  <2>2. /\ Go(t, "wb", s) /\ s.mine = loc[t].mine /\ s.call = loc[t].call /\ s.snap = loc[t].snap
        /\ s.walk = loc[t].walk \ {b}
    BY <1>0, <1>5, <2>1 DEF Locals
  <2>3. b \in Linked /\ b \in Buffers
    BY <1>0, <1>5 DEF Linked
  <2>4. Begins(b) /\ buf'[b].state = Writing(buf[b].state)
    BY <1>0, <1>5, <2>3, StartWriteBegins
  <2>5. \A k : Find(k)' = Find(k)
    BY <2>4 DEF Begins, Find, Linked
  <2>6. ASSUME NEW k \in Blocks, NEW g, b \in Find(k) PROVE Leaving(k, g)'
    <3>1. io[b].rw # "write"
      BY <1>5, <2>3, BufferFacts DEF Writable
    <3>2. Younger(b, g)' /\ "writing" \in buf'[b].state
      BY <1>0, <2>4, <3>1 DEF Younger, Writing
    <3> QED
      BY <2>5, <2>6, <3>2 DEF Leaving
  <2>7. Progress => FlushOK("wb", s)'
    BY <1>3, <2>2, <2>5, <2>6
  <2>8. GoesOn(t, s) /\ Keeping("wb", s)'
    <3>1. Own(t, "wb", s) /\ Keeping(pc[t], loc[t])
      BY <1>0, <2>2, OwnOn DEF Lasting, ContentInv
    <3>2. \A c \in Buffers : buf'[c].err = buf[c].err
      BY <2>4 DEF Begins
    <3> QED
      BY <1>0, <2>2, <3>1, <3>2 DEF Own, GoesOn, Keeping
  <2> QED
    BY <1>1, <2>2, <2>3, <2>4, <2>7, <2>8, BeginsStep
<1>6. ASSUME NEW b \in loc[t].walk, NEW s, "writing" \in buf[b].state,
             s.call = "sync" => "dirty" \notin buf[b].state,
             s.mine = loc[t].mine, s.call = loc[t].call, s.snap = loc[t].snap,
             s.walk = loc[t].walk \ {b} \/ s.call # "sync", UNCHANGED buf, Go(t, "wb", s)
      PROVE  Lasting'
  <2>1. b \in Linked /\ b \in Buffers
    BY <1>0, <1>6 DEF Linked
  <2>2. s.call = "sync" => \A k \in Blocks, g \in Gens : g <= latest[k] /\ b \in Find(k) => Leaving(k, g)
    <3> SUFFICES ASSUME s.call = "sync", NEW k \in Blocks, NEW g \in Gens, g <= latest[k], b \in Find(k)
                 PROVE  Younger(b, g)
      BY <1>6 DEF Leaving
    <3>1. io[b].rw = "write" => io[b].gen = latest[k]
      BY <1>6, <2>1, BufferFacts DEF Lasting, ContentInv, ContentOf, Find
    <3>2. latest[k] \in Nat /\ g \in Nat
      BY DEF Base, ThreadsInv, ThreadsType, Snapshot, Gens
    <3> QED
      BY <3>1, <3>2 DEF Younger
  <2>3. \A k : Find(k)' = Find(k)
    BY <1>6 DEF Find, Linked
  <2>4. Progress => FlushOK("wb", s)'
    <3>1. CASE s.call = "sync"
      BY <1>3, <1>6, <2>2, <2>3, <3>1
    <3>2. CASE s.call # "sync"
      BY <3>2 DEF FlushOK
    <3> QED
      BY <3>1, <3>2
  <2>5. Own(t, "wb", s)
    BY <1>0, <1>6, OwnOn
  <2> QED
    BY <1>0, <1>6, <2>4, <2>5, CalmSame, FlushQuietly
<1>7. ASSUME NEW l, UNCHANGED buf, loc[t].walk = {}, Go(t, l, loc[t]),
             l = "flush" \/ (l = "link" /\ loc[t].call # "sync")
      PROVE  Lasting'
  <2>1. PICK s : s = loc[t]
    OBVIOUS
  <2>2. Progress => FlushOK(l, s)'
    <3> SUFFICES ASSUME Progress, s.call = "sync", NEW k \in Blocks, NEW g, g = s.snap[k]
                 PROVE  g <= latest'[k] /\ (Reached(k, g)' \/ Leaving(k, g)')
      BY <1>7, <2>1 DEF FlushOK, Reached, Leaving, Ahead, Younger, Find, Linked
    <3>1. g \in Gens /\ g <= latest[k] /\ (Reached(k, g) \/ Leaving(k, g))
      BY <1>0, <1>7, <2>1 DEF Locals, Snapshot, FlushOK
    <3> QED
      BY <3>1 DEF Progress
  <2>3. Own(t, l, s)
    BY <1>0, <1>7, <2>1, OwnOn
  <2> QED
    BY <1>0, <1>7, <2>1, <2>2, <2>3, CalmSame, FlushQuietly
<1>8. ASSUME NEW b \in loc[t].walk, "writing" \in buf[b].state, UNCHANGED buf,
             loc[t].then = "link" \/ "dirty" \notin buf[b].state,
             \/ loc[t].then = "link" /\ Go(t, "wb", [loc[t] EXCEPT !.walk = {}])
             \/ loc[t].then # "link" /\ Go(t, "wb", [loc[t] EXCEPT !.walk = @ \ {b}])
      PROVE  Lasting'
  <2>1. PICK s : /\ Go(t, "wb", s) /\ s.mine = loc[t].mine /\ s.call = loc[t].call
                 /\ s.snap = loc[t].snap /\ (s.walk = loc[t].walk \ {b} \/ s.call # "sync")
    BY <1>0, <1>2, <1>8 DEF Locals
  <2> QED
    BY <1>2, <1>6, <1>8, <2>1
<1> QED
  BY <1>2, <1>4, <1>5, <1>7, <1>8 DEF WriteBack, Oldest

\* What the second walk of a flush has ahead of it.
LEMMA WalkFlush ==
  ASSUME Base, Calm, Progress, NEW l \in {"sync", "park"}, NEW s, s.snap \in Snapshot,
         \A k \in Blocks :
           /\ s.snap[k] <= latest[k]
           /\ \/ Reached(k, s.snap[k])
              \/ \E b \in Find(k) \cap s.walk : "writing" \in buf[b].state /\ Younger(b, s.snap[k])
  PROVE  FlushOK(l, s)'
<1> SUFFICES ASSUME s.call = "sync", NEW k \in Blocks, NEW g, g = s.snap[k]
             PROVE  g <= latest'[k] /\ (Reached(k, g)' \/ (Leaving(k, g)' /\ Find(k)' \cap s.walk # {}))
  BY DEF FlushOK, Reached, Leaving, Ahead, Younger, Find, Linked
<1>1. g \in Gens /\ g <= latest[k]
  BY DEF Snapshot
<1>2. CASE Reached(k, g)
  BY <1>1, <1>2 DEF Progress
<1>3. ASSUME NEW b \in Find(k) \cap s.walk, "writing" \in buf[b].state, Younger(b, g)
      PROVE  Reached(k, g)' \/ (Leaving(k, g)' /\ Find(k)' \cap s.walk # {})
  <2>1. Leaving(k, g)
    BY <1>3 DEF Leaving
  <2>2. b \in Find(k)'
    BY <1>3 DEF Calm, Kept, Dropped, Find, Linked
  <2> QED
    BY <1>1, <1>3, <2>1, <2>2 DEF Progress
<1> QED
  BY <1>1, <1>2, <1>3 DEF Progress

\* What a thread of the second walk knows of its blocks.
LEMMA WalkKnows ==
  ASSUME Base, Lasting, NEW t \in Threads, loc[t].call = "sync", pc[t] \in {"sync", "park"},
         NEW k \in Blocks
  PROVE  /\ loc[t].snap \in Snapshot /\ loc[t].snap[k] <= latest[k]
         /\ \/ Reached(k, loc[t].snap[k])
            \/ \E b \in Find(k) \cap loc[t].walk :
                 "writing" \in buf[b].state /\ Younger(b, loc[t].snap[k])
<1>1. loc[t].snap \in Snapshot /\ FlushOK(pc[t], loc[t])
  BY ThreadFacts DEF Base, Locals, Lasting, FlushInv
<1>2. PICK g : g = loc[t].snap[k]
  OBVIOUS
<1>3. g <= latest[k] /\ (Reached(k, g) \/ (Leaving(k, g) /\ Find(k) \cap loc[t].walk # {}))
  BY <1>1, <1>2 DEF FlushOK
<1>4. CASE Leaving(k, g) /\ Find(k) \cap loc[t].walk # {}
  <2>1. PICK b \in Find(k) : "writing" \in buf[b].state /\ Younger(b, g)
    BY <1>4 DEF Leaving
  <2>2. \A c \in Find(k) : c = b
    BY DEF Base, CacheInv, IndexInv, OneBufferPerBlock, Find
  <2> QED
    BY <1>1, <1>2, <1>3, <1>4, <2>1, <2>2
<1> QED
  BY <1>1, <1>2, <1>3, <1>4

\* SyncWalk: what is being written is on the list that is walked.
LEMMA SyncWalkContent ==
  ASSUME Base, Base', Lasting, NEW t \in Threads, SyncWalk(t)
  PROVE  Lasting'
<1>0. /\ loc[t] \in Locals /\ At(t, "relock") /\ lock = Nobody /\ loc[t].call = "sync"
      /\ UNCHANGED <<buf, io, deviceVars>> /\ UNCHANGED asyncError
      /\ FlushOK(pc[t], loc[t])
  BY ThreadFacts DEF SyncWalk, cacheVars, ioVars, Base, Lasting, FlushInv
<1>1. PICK s : s = [loc[t] EXCEPT !.walk = List("dirty")]
  OBVIOUS
<1>2. /\ Go(t, "sync", s) /\ s.mine = loc[t].mine /\ s.call = "sync" /\ s.walk = List("dirty")
      /\ s.snap = loc[t].snap /\ s.snap \in Snapshot
  BY <1>0, <1>1 DEF SyncWalk, Locals
<1>3. Own(t, "sync", s)
  BY <1>0, <1>2, OwnOn
<1>4. \A u \in Threads : ~At(u, "movecopy")
  BY <1>0, ThreadFacts, ThreadsAssumption DEF Base
<1>5. ASSUME NEW k \in Blocks, NEW g, g = s.snap[k]
      PROVE  /\ g <= latest[k]
             /\ Reached(k, g) \/ \E b \in Find(k) \cap s.walk : "writing" \in buf[b].state /\ Younger(b, g)
  <2>1. g <= latest[k] /\ (Reached(k, g) \/ Leaving(k, g))
    BY <1>0, <1>2, <1>5 DEF FlushOK
  <2>2. ASSUME NEW b \in Find(k), "writing" \in buf[b].state PROVE b \in s.walk
    <3>1. b \in Buffers
      BY DEF Find, Linked
    <3> QED
      BY <1>2, <1>4, <2>2, <3>1, WritingListed DEF List
  <2> QED
    BY <2>1, <2>2 DEF Leaving
<1>6. Calm
  BY <1>0, CalmSame
<1>7. Progress => FlushOK("sync", s)'
  BY <1>2, <1>5, <1>6, WalkFlush
<1> QED
  BY <1>0, <1>2, <1>3, <1>7, CalmSame, FlushQuietly

\* SyncVisit waits for the write of a buffer, or passes one that is not written.
LEMMA SyncVisitContent ==
  ASSUME Base, Base', Lasting, NEW t \in Threads, SyncVisit(t)
  PROVE  Lasting'
<1>0. /\ loc[t] \in Locals /\ ThreadOK(pc[t], loc[t]) /\ At(t, "sync") /\ lock = t
      /\ UNCHANGED asyncError /\ UNCHANGED <<io, deviceVars>> /\ CacheInv
      /\ loc[t].walk \subseteq Linked
  BY ThreadFacts DEF SyncVisit, ioVars, Base, CacheInv, LockHolderOK, Walking
<1>1. PICK r : r = [loc[t] EXCEPT !.count = Processed(loc[t])]
  OBVIOUS
<1>2. r.mine = loc[t].mine /\ r.call = loc[t].call /\ r.snap = loc[t].snap /\ r.walk = loc[t].walk
  BY <1>0, <1>1 DEF Locals
<1>3. /\ \A b : /\ [r EXCEPT !.cur = b, !.walk = {}].mine = loc[t].mine
                /\ [r EXCEPT !.cur = b, !.walk = {}].call = loc[t].call
                /\ [r EXCEPT !.cur = b, !.walk = {}].snap = loc[t].snap
                /\ [r EXCEPT !.cur = b].mine = loc[t].mine /\ [r EXCEPT !.cur = b].call = loc[t].call
                /\ [r EXCEPT !.cur = b].snap = loc[t].snap /\ [r EXCEPT !.cur = b].walk = loc[t].walk
                /\ [r EXCEPT !.walk = @ \ {b}].mine = loc[t].mine
                /\ [r EXCEPT !.walk = @ \ {b}].call = loc[t].call
                /\ [r EXCEPT !.walk = @ \ {b}].snap = loc[t].snap
                /\ [r EXCEPT !.walk = @ \ {b}].walk = loc[t].walk \ {b}
  BY <1>0, <1>1, <1>2 DEF Locals
<1>4. PICK b \in loc[t].walk :
        \/ /\ buf' = [buf EXCEPT ![b].hold = @ + 1]
           /\ Go(t, "syncwait", [r EXCEPT !.cur = b, !.walk = {}])
        \/ Go(t, "park", [r EXCEPT !.cur = b]) /\ UNCHANGED buf
        \/ /\ "writing" \notin buf[b].state /\ Settle(b, buf[b])
           /\ Go(t, "sync", [r EXCEPT !.walk = @ \ {b}])
  BY <1>1, <1>2 DEF SyncVisit, Oldest
<1>5. b \in Linked /\ b \in Buffers /\ buf[b] \in Buffer /\ buf \in [Buffers -> Buffer]
  BY <1>0 DEF Linked, CacheInv, IndexInv
<1>6. CASE buf' = [buf EXCEPT ![b].hold = @ + 1] /\ Go(t, "syncwait", [r EXCEPT !.cur = b, !.walk = {}])
  <2>1. PICK s : s = [r EXCEPT !.cur = b, !.walk = {}]
    OBVIOUS
  <2>2. Go(t, "syncwait", s) /\ s.mine = loc[t].mine /\ s.call = loc[t].call /\ s.snap = loc[t].snap
    BY <1>3, <1>6, <2>1
  <2>3. Calm /\ UNCHANGED <<failed, reported>>
    <3>1. /\ buf'[b] = [buf[b] EXCEPT !.hold = @ + 1]
          /\ \A c \in Buffers \ {b} : buf'[c] = buf[c]
      BY <1>5, <1>6
    <3>2. \A c \in Buffers : Kept(c)
      BY <1>5, <3>1 DEF Buffer, Kept, Linked
    <3> QED
      BY <1>0, <3>2 DEF Calm, SameDevice, deviceVars
  <2>4. Progress => FlushOK("syncwait", s)'
    <3> SUFFICES ASSUME Progress, s.call = "sync", NEW k \in Blocks, NEW g, g = s.snap[k]
                 PROVE  g <= latest'[k] /\ (Reached(k, g)' \/ Leaving(k, g)')
      BY DEF FlushOK, Reached, Leaving, Ahead, Younger, Find, Linked
    <3>1. g \in Gens /\ g <= latest[k] /\ (Reached(k, g) \/ Leaving(k, g))
      BY <1>0, <2>2, WalkKnows DEF Snapshot, Leaving
    <3> QED
      BY <3>1 DEF Progress
  <2>5. Own(t, "syncwait", s)
    BY <1>0, <2>2, OwnOn
  <2> QED
    BY <1>0, <2>2, <2>3, <2>4, <2>5, FlushQuietly
<1>7. CASE Go(t, "park", [r EXCEPT !.cur = b]) /\ UNCHANGED buf
  <2>1. PICK s : s = [r EXCEPT !.cur = b]
    OBVIOUS
  <2>2. /\ Go(t, "park", s) /\ s.mine = loc[t].mine /\ s.call = loc[t].call /\ s.snap = loc[t].snap
        /\ s.walk = loc[t].walk
    BY <1>3, <1>7, <2>1
  <2>3. Calm /\ UNCHANGED <<failed, reported>>
    BY <1>0, <1>7, CalmSame
  <2>4. Progress => FlushOK("park", s)'
    <3>1. CASE s.call = "sync"
      <4>1. s.snap \in Snapshot
        BY <1>0, <2>2 DEF Locals
      <4> QED
        BY <1>0, <2>2, <2>3, <3>1, <4>1, WalkKnows, WalkFlush
    <3>2. CASE s.call # "sync"
      BY <3>2 DEF FlushOK
    <3> QED
      BY <3>1, <3>2
  <2>5. Own(t, "park", s)
    BY <1>0, <2>2, OwnOn
  <2> QED
    BY <1>0, <2>2, <2>3, <2>4, <2>5, FlushQuietly
<1>8. CASE /\ "writing" \notin buf[b].state /\ Settle(b, buf[b])
           /\ Go(t, "sync", [r EXCEPT !.walk = @ \ {b}])
  <2>1. PICK s : s = [r EXCEPT !.walk = @ \ {b}]
    OBVIOUS
  <2>2. /\ Go(t, "sync", s) /\ s.mine = loc[t].mine /\ s.call = loc[t].call /\ s.snap = loc[t].snap
        /\ s.walk = loc[t].walk \ {b}
    BY <1>3, <1>8, <2>1
  <2>3. Calm /\ UNCHANGED <<failed, reported>>
    BY <1>0, <1>5, <1>8, CalmSettle
  <2>4. Progress => FlushOK("sync", s)'
    <3>1. CASE s.call = "sync"
      <4>1. s.snap \in Snapshot
        BY <1>0, <2>2 DEF Locals
      <4>2. \A k \in Blocks :
              /\ s.snap[k] <= latest[k]
              /\ \/ Reached(k, s.snap[k])
                 \/ \E c \in Find(k) \cap s.walk : "writing" \in buf[c].state /\ Younger(c, s.snap[k])
        BY <1>0, <1>8, <2>2, <3>1, WalkKnows
      <4> QED
        BY <2>3, <4>1, <4>2, WalkFlush
    <3>2. CASE s.call # "sync"
      BY <3>2 DEF FlushOK
    <3> QED
      BY <3>1, <3>2
  <2>5. Own(t, "sync", s)
    BY <1>0, <2>2, OwnOn
  <2> QED
    BY <1>0, <2>2, <2>3, <2>4, <2>5, FlushQuietly
<1> QED
  BY <1>4, <1>6, <1>7, <1>8

\* SyncPark: the write it waited for is over.
LEMMA SyncParkContent ==
  ASSUME Base, Base', Lasting, NEW t \in Threads, SyncPark(t)
  PROVE  Lasting'
<1>b. PICK b : b = loc[t].cur
  OBVIOUS
<1>0. /\ loc[t] \in Locals /\ ThreadOK(pc[t], loc[t]) /\ At(t, "park") /\ lock = t
      /\ UNCHANGED asyncError /\ UNCHANGED <<io, deviceVars>> /\ CacheInv
      /\ LockHolderOK(pc[t], loc[t])
  BY ThreadFacts DEF SyncPark, ioVars, Base, CacheInv
<1>1. /\ b \in Linked /\ buf[b] \in Buffer /\ "writing" \notin buf[b].state /\ Settle(b, buf[b])
  BY <1>0, <1>b DEF LockHolderOK, Walking, Linked, CacheInv, IndexInv, SyncPark, WriteOver
<1>2. PICK s : s = [loc[t] EXCEPT !.walk = @ \ {b}, !.cur = NoBuffer]
  OBVIOUS
<1>3. /\ Go(t, "sync", s) /\ s.mine = loc[t].mine /\ s.call = loc[t].call /\ s.snap = loc[t].snap
      /\ s.walk = loc[t].walk \ {b} /\ s.snap \in Snapshot
  BY <1>0, <1>2, <1>b DEF SyncPark, Locals
<1>4. Calm /\ UNCHANGED <<failed, reported>>
  BY <1>0, <1>1, CalmSettle
<1>5. Progress => FlushOK("sync", s)'
  <2>1. CASE s.call = "sync"
    <3>1. \A k \in Blocks :
            /\ s.snap[k] <= latest[k]
            /\ \/ Reached(k, s.snap[k])
               \/ \E c \in Find(k) \cap s.walk : "writing" \in buf[c].state /\ Younger(c, s.snap[k])
      BY <1>0, <1>1, <1>3, <2>1, WalkKnows
    <3> QED
      BY <1>3, <1>4, <3>1, WalkFlush
  <2>2. CASE s.call # "sync"
    BY <2>2 DEF FlushOK
  <2> QED
    BY <2>1, <2>2
<1>6. Own(t, "sync", s)
  BY <1>0, <1>3, OwnOn
<1> QED
  BY <1>0, <1>3, <1>4, <1>5, <1>6, FlushQuietly

\* SyncWake: what is true of the blocks before the lock is retaken stays true.
LEMMA SyncWakeContent ==
  ASSUME Base, Base', Lasting, NEW t \in Threads, SyncWake(t)
  PROVE  Lasting'
<1>0. /\ loc[t] \in Locals /\ At(t, "syncwait") /\ UNCHANGED asyncError
      /\ UNCHANGED <<buf, io, deviceVars>> /\ FlushOK(pc[t], loc[t])
  BY ThreadFacts DEF SyncWake, ioVars, cacheVars, Base, Lasting, FlushInv
<1>1. PICK s : s = loc[t]
  OBVIOUS
<1>2. Go(t, "syncrelock", s)
  BY <1>1 DEF SyncWake
<1>3. Progress => FlushOK("syncrelock", s)'
  <2> SUFFICES ASSUME Progress, s.call = "sync", NEW k \in Blocks, NEW g, g = s.snap[k]
               PROVE  g <= latest'[k] /\ (Reached(k, g)' \/ Leaving(k, g)')
    BY DEF FlushOK, Reached, Leaving, Ahead, Younger, Find, Linked
  <2>1. g \in Gens /\ g <= latest[k] /\ (Reached(k, g) \/ Leaving(k, g))
    BY <1>0, <1>1 DEF Locals, Snapshot, FlushOK
  <2> QED
    BY <2>1 DEF Progress
<1>4. Own(t, "syncrelock", s)
  BY <1>0, <1>1, OwnOn
<1> QED
  BY <1>0, <1>2, <1>3, <1>4, CalmSame, FlushQuietly

\* SyncRelock starts the walk again: what is being written is still on the list.
LEMMA SyncRelockContent ==
  ASSUME Base, Base', Lasting, NEW t \in Threads, SyncRelock(t)
  PROVE  Lasting'
<1>b. PICK b : b = loc[t].cur
  OBVIOUS
<1>0. /\ loc[t] \in Locals /\ ThreadOK(pc[t], loc[t]) /\ At(t, "syncrelock") /\ lock = Nobody
      /\ UNCHANGED asyncError /\ UNCHANGED <<io, deviceVars>> /\ CacheInv
      /\ FlushOK(pc[t], loc[t])
  BY ThreadFacts DEF SyncRelock, ioVars, Base, Lasting, FlushInv
<1>1. b \in Buffers /\ b \in Linked /\ buf[b] \in Buffer /\ buf[b].hold \in Nat \ {0}
  BY <1>0, <1>b, HeldLinked DEF ThreadOK, Possession, Flushing, Base
<1>2. PICK r : r = Unhold(buf[b])
  OBVIOUS
<1>3. /\ r \in Buffer /\ r.block = buf[b].block /\ r.state = buf[b].state /\ r.gen = buf[b].gen
      /\ r.err = buf[b].err /\ r.where = buf[b].where /\ Settle(b, r)
  BY <1>1, <1>2, <1>b DEF Unhold, Buffer, SyncRelock
<1>4. Calm /\ UNCHANGED <<failed, reported>>
  BY <1>0, <1>1, <1>3, CalmSettle
<1>5. PICK w : w = {c \in Buffers : buf'[c].where = "dirty"}
  OBVIOUS
<1>6. PICK s : s = [loc[t] EXCEPT !.cur = NoBuffer, !.walk = w]
  OBVIOUS
<1>7. /\ Go(t, "sync", s) /\ s.mine = loc[t].mine /\ s.call = loc[t].call /\ s.snap = loc[t].snap
      /\ s.walk = w /\ s.snap \in Snapshot
  BY <1>0, <1>5, <1>6 DEF SyncRelock, Locals
<1>8. \A u \in Threads : ~At(u, "movecopy")
  BY <1>0, ThreadFacts, ThreadsAssumption DEF Base
<1>9. ASSUME NEW c \in Buffers, "writing" \in buf[c].state PROVE c \in w
  <2>1. buf[c].where = "dirty"
    BY <1>8, <1>9, WritingListed
  <2>2. CASE c = b
    <3>1. ListFor(r.state) # "clean"
      BY <1>3, <1>9, <2>2 DEF ListFor
    <3>2. buf' = [buf EXCEPT ![b] = r]
      BY <1>3, <3>1 DEF Settle
    <3> QED
      BY <1>0, <1>1, <1>3, <1>5, <2>1, <2>2, <3>2 DEF CacheInv, IndexInv
  <2>3. CASE c # b
    <3>1. buf'[c] = buf[c]
      BY <1>3, <2>3 DEF Settle, Link, Base, CacheInv, IndexInv
    <3> QED
      BY <1>5, <2>1, <3>1
  <2> QED
    BY <2>2, <2>3
<1>10. Progress => FlushOK("sync", s)'
  <2>1. CASE s.call = "sync"
    <3>1. ASSUME NEW k \in Blocks, NEW g, g = s.snap[k]
          PROVE  /\ g <= latest[k]
                 /\ Reached(k, g) \/ \E c \in Find(k) \cap s.walk : "writing" \in buf[c].state /\ Younger(c, g)
      <4>1. g <= latest[k] /\ (Reached(k, g) \/ Leaving(k, g))
        BY <1>0, <1>7, <2>1, <3>1 DEF FlushOK
      <4>2. \A c \in Find(k) : c \in Buffers
        BY DEF Find, Linked
      <4> QED
        BY <1>7, <1>9, <4>1, <4>2 DEF Leaving
    <3> QED
      BY <1>4, <1>7, <3>1, WalkFlush
  <2>2. CASE s.call # "sync"
    BY <2>2 DEF FlushOK
  <2> QED
    BY <2>1, <2>2
<1>11. Own(t, "sync", s)
  BY <1>0, <1>7, OwnOn
<1> QED
  BY <1>0, <1>4, <1>7, <1>10, <1>11, FlushQuietly

\* SyncEnd: nothing is left to walk, so all of it has reached the device.
LEMMA SyncEndContent ==
  ASSUME Base, Base', Lasting, NEW t \in Threads, SyncEnd(t)
  PROVE  Lasting'
<1>0. /\ loc[t] \in Locals /\ At(t, "sync") /\ lock = t /\ loc[t].walk = {}
      /\ UNCHANGED asyncError /\ UNCHANGED <<buf, io, deviceVars>>
  BY ThreadFacts DEF SyncEnd, ioVars, Base
<1>1. PICK s : s = [loc[t] EXCEPT !.count = 0]
  OBVIOUS
<1>2. Go(t, "xchg", s) /\ s.mine = loc[t].mine /\ s.call = loc[t].call /\ s.snap = loc[t].snap
  BY <1>0, <1>1 DEF SyncEnd, Locals
<1>3. Progress => FlushOK("xchg", s)'
  <2> SUFFICES ASSUME Progress, s.call = "sync", NEW k \in Blocks, NEW g, g = s.snap[k]
               PROVE  g <= latest'[k] /\ Reached(k, g)'
    BY DEF FlushOK, Reached, Ahead, Younger, Find, Linked
  <2>1. g \in Gens /\ g <= latest[k] /\ Reached(k, g)
    BY <1>0, <1>2, WalkKnows DEF Snapshot
  <2> QED
    BY <2>1 DEF Progress
<1>4. Own(t, "xchg", s)
  BY <1>0, <1>2, OwnOn
<1> QED
  BY <1>0, <1>2, <1>3, <1>4, CalmSame, FlushQuietly

\* TakeError: the caller learns of every write that failed so far.
LEMMA TakeErrorContent ==
  ASSUME Base, Base', Lasting, NEW t \in Threads, TakeError(t)
  PROVE  Lasting'
<1>0. /\ loc[t] \in Locals /\ At(t, "xchg") /\ FlushOK(pc[t], loc[t])
      /\ UNCHANGED <<buf, io, disk, latest>> /\ (~asyncError => failed = {})
  BY ThreadFacts DEF TakeError, cacheVars, Base, Lasting, FlushInv
<1>1. PICK s : s = [loc[t] EXCEPT !.res = asyncError]
  OBVIOUS
<1>2. /\ Go(t, "issueflush", s) /\ s.mine = loc[t].mine /\ s.call = loc[t].call
      /\ s.snap = loc[t].snap /\ s.res = asyncError
  BY <1>0, <1>1 DEF TakeError, Locals
<1>3. /\ failed' = {} /\ reported' = reported \cup failed
  BY <1>0 DEF TakeError
<1>4. Calm /\ SameIndex /\ reported \subseteq reported'
  BY <1>0, <1>3 DEF Calm, Kept, SameDevice, Linked, SameIndex
<1>5. Progress
  BY <1>4, CalmProgress
<1>6. FlushOK("issueflush", s)'
  <2> SUFFICES ASSUME s.call = "sync", NEW k \in Blocks, NEW g, g = s.snap[k]
               PROVE  g <= latest'[k] /\ (~s.res => Recorded(k, g)')
    BY DEF FlushOK, Recorded, Ahead, Younger
  <2>1. g \in Gens /\ g <= latest[k] /\ Reached(k, g)
    BY <1>0, <1>2 DEF Locals, Snapshot, FlushOK
  <2>2. Reached(k, g)'
    BY <1>5, <2>1 DEF Progress
  <2> QED
    BY <1>3, <1>5, <2>1, <2>2 DEF Progress, Reached, Recorded
<1>7. Own(t, "issueflush", s)
  BY <1>0, <1>2, OwnOn
<1>8. ContentInv'
  BY <1>2, <1>4, <1>7, CalmOwn DEF Lasting
<1>9. FlushInv'
  BY <1>2, <1>3, <1>4, <1>5, <1>6, FlushStep DEF Lasting
<1> QED
  BY <1>8, <1>9 DEF Lasting

\* IssueFlush: the flush returns.
LEMMA IssueFlushContent ==
  ASSUME Base, Base', Lasting, NEW t \in Threads, IssueFlush(t)
  PROVE  Lasting'
<1>0. /\ loc[t] \in Locals /\ ThreadOK(pc[t], loc[t]) /\ At(t, "issueflush")
      /\ UNCHANGED <<buf, io, disk, latest, failed, reported>> /\ UNCHANGED asyncError
      /\ UNCHANGED <<asyncError, failed, reported>>
  BY ThreadFacts DEF IssueFlush, cacheVars, ioVars, Base
<1>1. PICK s : Go(t, "idle", s) /\ s.mine = loc[t].mine /\ s.call = "none"
  BY DEF IssueFlush, Rest
<1>2. Calm /\ SameIndex
  BY <1>0 DEF Calm, Kept, SameDevice, Linked, SameIndex
<1>3. loc[t].mine \in Buffers => loc[t].call \notin Getting
  BY <1>0 DEF ThreadOK, Possession
<1>4. Own(t, "idle", s) /\ Away(t, "idle", s)
  BY <1>0, <1>1, <1>3 DEF Own, Away, Getting
<1> QED
  BY <1>0, <1>1, <1>2, <1>4, Quietly

-----------------------------------------------------------------------------
(* Moving a buffer to another block.                                       *)

\* Move begins, with a buffer that was read.
LEMMA MoveContent ==
  ASSUME Base, Base', Lasting, NEW t \in Threads, NEW k \in Blocks, Move(t, k)
  PROVE  Lasting'
<1>0. /\ At(t, "idle") /\ lock = Nobody /\ UNCHANGED <<buf, io, deviceVars>> /\ UNCHANGED asyncError
  BY DEF Move, Call, cacheVars, ioVars
<1>1. PICK s : s = [Rest(loc[t].mine) EXCEPT !.call = "move", !.blk = k]
  OBVIOUS
<1>2. Go(t, "move", s) /\ s.mine = loc[t].mine /\ s.call = "move"
  BY <1>1 DEF Move, Rest
<1>3. Own(t, "move", s) /\ Away(t, "move", s)
  BY <1>0, <1>2, OwnBegins DEF Away
<1> QED
  BY <1>0, <1>2, <1>3, CalmSame, Quietly

\* MoveFind looks only.
LEMMA MoveFindContent ==
  ASSUME Base, Base', Lasting, NEW t \in Threads, MoveFind(t)
  PROVE  Lasting'
<1>0. /\ loc[t] \in Locals /\ At(t, "move") /\ lock = t
      /\ UNCHANGED <<buf, io, deviceVars>> /\ UNCHANGED asyncError
  BY ThreadFacts DEF MoveFind, ioVars, Base
<1>1. PICK l, s : /\ Go(t, l, s) /\ l \in {"asleep", "clean", "movewrite"}
                  /\ s.mine = loc[t].mine /\ s.call = loc[t].call /\ s.snap = loc[t].snap
  <2>1. /\ [loc[t] EXCEPT !.then = "move"].mine = loc[t].mine
        /\ [loc[t] EXCEPT !.then = "move"].call = loc[t].call
        /\ [loc[t] EXCEPT !.then = "move"].snap = loc[t].snap
        /\ \A b : /\ [loc[t] EXCEPT !.cur = b, !.then = "move"].mine = loc[t].mine
                  /\ [loc[t] EXCEPT !.cur = b, !.then = "move"].call = loc[t].call
                  /\ [loc[t] EXCEPT !.cur = b, !.then = "move"].snap = loc[t].snap
    BY <1>0 DEF Locals
  <2> QED
    BY <2>1 DEF MoveFind
<1>2. Own(t, l, s) /\ Away(t, l, s)
  BY <1>0, <1>1, Onward DEF FlushPoints
<1> QED
  BY <1>0, <1>1, <1>2, CalmSame, Quietly

\* MoveWrite: the buffer is not dirty any more when it is moved.
LEMMA MoveWriteContent ==
  ASSUME Base, Base', Lasting, NEW t \in Threads, MoveWrite(t)
  PROVE  Lasting'
<1>b. PICK b, s : b = loc[t].mine /\ s = loc[t]
  OBVIOUS
<1>0. /\ loc[t] \in Locals /\ ThreadOK(pc[t], loc[t]) /\ At(t, "movewrite") /\ lock = t
      /\ UNCHANGED <<asyncError, deviceVars>> /\ Go(t, "relink", s) /\ CacheInv
      /\ Keeping(pc[t], loc[t])
  BY <1>b, ThreadFacts DEF MoveWrite, Base, Lasting, ContentInv
<1>1. b \in Buffers /\ loc[t].call \notin Getting
  BY <1>0, <1>b DEF ThreadOK, Possession, Moving
<1>2. GoesOn(t, s) /\ s.call \notin Getting
  BY <1>0, <1>1, <1>b DEF GoesOn, Getting
<1>3. CASE "dirty" \notin buf[b].state /\ UNCHANGED <<buf, io>>
  <2>1. Keeping("relink", s)'
    BY <1>0, <1>1, <1>3, <1>b DEF Keeping
  <2>2. UNCHANGED <<buf, io, deviceVars>>
    BY <1>0, <1>3
  <2>3. Away(t, "relink", s)
    BY <1>b DEF Away, FlushPoints
  <2> QED
    BY <1>0, <1>2, <2>1, <2>2, <2>3, CalmSame, Calmly
<1>4. CASE Writable(b) /\ StartWrite(b) /\ Submit(b, "write", buf[b].block, buf[b].gen)
  <2>1. Begins(b) /\ buf'[b].state = Writing(buf[b].state) /\ io'[b].rw = "write"
    BY <1>0, <1>1, <1>4, StartWriteBegins, SubmitGen
  <2>2. Keeping("relink", s)'
    BY <1>0, <1>1, <1>b, <2>1 DEF Keeping, Begins, Writing
  <2>3. Progress => FlushOK("relink", s)'
    <3>1. Away(t, "relink", s)
      BY <1>b DEF Away, FlushPoints
    <3> QED
      BY <3>1, AwayFlush DEF Lasting
  <2> QED
    BY <1>0, <1>1, <1>2, <2>1, <2>2, <2>3, BeginsStep
<1> QED
  BY <1>b, <1>3, <1>4 DEF MoveWrite

\* What is true when a thread moves its buffer b, with no bit, to or back to block k.
LEMMA MoverFacts ==
  ASSUME Base, Lasting, NEW t \in Threads, At(t, "relink") \/ At(t, "movecopy"),
         WriteOver(loc[t].mine)
  PROVE  LET b == loc[t].mine IN
         /\ b \in Linked /\ b \in Buffers /\ buf[b] \in Buffer /\ buf \in [Buffers -> Buffer]
         /\ buf[b].block \in Blocks /\ loc[t].blk \in Blocks /\ Find(loc[t].blk) = {}
         /\ buf[b].block # loc[t].blk /\ Find(buf[b].block) = {b} /\ Settled(buf[b].block)
         /\ buf[b].state = {} /\ io[b] = NoRequest /\ "read" \notin buf[b].err
         /\ loc[t].call \notin Getting /\ lock = t
         /\ \A u \in Threads \ {t} : pc[u] \notin {"relink", "movecopy"}
<1>b. PICK b : b = loc[t].mine
  OBVIOUS
<1>1. /\ ThreadOK(pc[t], loc[t]) /\ LockHolderOK(pc[t], loc[t]) /\ lock = t /\ CacheInv
      /\ Keeping(pc[t], loc[t]) /\ Promises(pc[t], loc[t])
  BY ThreadFacts DEF Base, CacheInv, BitsInv, Lasting, ContentInv
<1>2. b \in Buffers /\ loc[t].blk \in Blocks /\ loc[t].call \notin Getting /\ Find(loc[t].blk) = {}
  BY <1>1, <1>b DEF ThreadOK, Possession, Moving, LockHolderOK, Vacant
<1>3. b \in Linked /\ buf[b].block \in Blocks /\ buf[b] \in Buffer
  BY <1>2, <1>b, HeldLinked DEF Base
<1>4. buf[b].state = {}
  <2>1. "reading" \notin buf[b].state /\ "dirty" \notin buf[b].state /\ "writing" \notin buf[b].state
    BY <1>1, <1>2, <1>b DEF Promises, Reading, Keeping, WriteOver
  <2> QED
    BY <1>3, <2>1 DEF Buffer, Bits
<1>5. io[b] = NoRequest
  BY <1>1, <1>2, <1>4, NoBitsNoRequest DEF Base
<1>6. Find(buf[b].block) = {b} /\ buf[b].block # loc[t].blk
  BY <1>1, <1>2, <1>3 DEF Find, CacheInv, IndexInv, OneBufferPerBlock
<1>7. Settled(buf[b].block)
  BY <1>4, <1>6 DEF Settled
<1>8. \A u \in Threads \ {t} : pc[u] \notin {"relink", "movecopy"}
  BY <1>1, ThreadFacts DEF Base
<1>9. "read" \notin buf[b].err
  BY <1>1, <1>2, <1>b DEF Keeping
<1>10. buf \in [Buffers -> Buffer]
  BY DEF Base, CacheInv, IndexInv
<1> QED
  BY <1>1, <1>2, <1>3, <1>4, <1>5, <1>6, <1>7, <1>8, <1>9, <1>10, <1>b

\* A buffer without a bit goes to another block: what the step leaves true.  Only
\* block k may get a newer content.
LEMMA Relocates ==
  ASSUME Base, Base', Lasting, NEW t \in Threads, At(t, "relink") \/ At(t, "movecopy"),
         WriteOver(loc[t].mine), NEW b, b = loc[t].mine, NEW k, k = loc[t].blk,
         buf'[b].block = k, buf'[b].err = buf[b].err, b \in Linked',
         \A c \in Buffers \ {b} : buf'[c] = buf[c] /\ io'[c] = io[c],
         UNCHANGED <<asyncError, disk, failed, reported>>,
         latest[k] <= latest'[k], \A j \in Blocks \ {k} : latest'[j] = latest[j],
         io'[b] = io[b] \/ (io'[b].rw = "write" /\ io'[b].block = k /\ io'[b].gen >= latest[k]),
         latest'[k] = latest[k] \/ buf'[b].state # {}, "reading" \notin buf'[b].state,
         NEW l \in {"release", "movecopy"}, NEW s, Go(t, l, s), s.mine = b, s.call = loc[t].call,
         s.snap = loc[t].snap, ContentOf(b)', Keeping(l, s)',
         Handed(b)' => (buf[b].gen = latest[k] \/ k \in failed \cup reported)'
  PROVE  Lasting'
<1>0. /\ b \in Linked /\ b \in Buffers /\ buf[b].block \in Blocks /\ k \in Blocks /\ Find(k) = {}
      /\ buf[b].block # k /\ Find(buf[b].block) = {b} /\ Settled(buf[b].block)
      /\ buf[b].state = {} /\ loc[t].call \notin Getting /\ lock = t
      /\ \A u \in Threads \ {t} : pc[u] \notin {"relink", "movecopy"}
  BY MoverFacts
<1>1. /\ pc'[t] = l /\ loc'[t] = s
      /\ \A u \in Threads \ {t} : pc'[u] = pc[u] /\ loc'[u] = loc[u]
  BY GoFacts DEF Base
<1>2. \A c \in Buffers : c \in Linked' <=> c \in Linked
  BY <1>0 DEF Linked
<1>3. \A c \in Buffers \ {b} : (Lent(c)' <=> Lent(c)) /\ (Fresh(c)' <=> Fresh(c))
  BY <1>1 DEF Lent, Fresh
<1>4. \A c \in Buffers \ {b} : c \in Linked => buf[c].block \in Blocks \ {k}
  BY <1>0, BufferFacts DEF Find
<1>5. \A c \in Buffers : ContentOf(c)'
  <2> SUFFICES ASSUME NEW c \in Buffers \ {b} PROVE ContentOf(c)'
    OBVIOUS
  <2>1. buf[c].state # {} => buf[c].block \in Blocks \ {k}
    BY <1>4, BufferFacts
  <2>2. io[c].rw = "write" => io[c].block \in Blocks \ {k}
    BY <2>1, BufferFacts
  <2> QED
    BY <1>3, <2>1, <2>2 DEF Lasting, ContentInv, ContentOf
<1>6. DeviceInv'
  <2> SUFFICES ASSUME NEW j \in Blocks, Settled(j)' PROVE Current(j, disk[j])'
    BY DEF DeviceInv
  <2>1. Settled(j)
    <3> SUFFICES ASSUME NEW c \in Find(j), c # b PROVE buf[c].state \cap {"dirty", "writing"} = {}
      BY <1>0 DEF Settled
    <3>1. c \in Buffers \ {b}
      BY DEF Find, Linked
    <3>2. c \in Find(j)' /\ buf'[c] = buf[c]
      BY <1>2, <3>1 DEF Find
    <3> QED
      BY <3>2 DEF Settled
  <2>2. CASE j # k
    BY <2>1, <2>2 DEF Lasting, ContentInv, DeviceInv, Current
  <2>3. CASE j = k
    <3>1. latest'[k] = latest[k]
      BY <2>3, <1>0, <1>2, <1>5 DEF Settled, Find, Base, CacheInv, IndexInv, Buffer, Bits
    <3> QED
      BY <2>1, <2>3, <3>1 DEF Lasting, ContentInv, DeviceInv, Current
  <2> QED
    BY <2>2, <2>3
<1>7. CacheCoherent'
  <2> SUFFICES ASSUME NEW c \in Buffers \ {b}, Handed(c)'
               PROVE  (buf[c].gen = latest[buf[c].block] \/ buf[c].block \in failed \cup reported)'
    BY DEF CacheCoherent
  <2>1. Handed(c)
    BY <1>2, <1>3 DEF Handed, Lent, Fresh
  <2> QED
    BY <1>4, <2>1 DEF Lasting, ContentInv, CacheCoherent, Handed
<1>8. ASSUME NEW u \in Threads PROVE Keeping(pc[u], loc[u])'
  <2>1. CASE u = t
    BY <1>1, <2>1 DEF Keeping, Fresh
  <2>2. CASE u # t
    <3>1. pc[u] = "release" => loc[u].mine \in Buffers
      BY ThreadFacts DEF Base, ThreadOK, Possession
    <3> QED
      BY <1>0, <1>1, <2>2, <3>1, HeldKeeping DEF Lasting
  <2> QED
    BY <2>1, <2>2
<1>9. Progress
  <2>1. \A j \in Blocks : latest[j] <= latest'[j]
    BY DEF Base, ThreadsInv, ThreadsType, Snapshot, Gens
  <2>2. \A c \in Linked : "writing" \in buf[c].state =>
          c \in Linked' /\ buf'[c].block = buf[c].block /\ "writing" \in buf'[c].state
    BY <1>0, <1>2 DEF Linked
  <2> QED
    BY <1>0, <2>1, <2>2, ProgressOf
<1>10. Away(t, l, s)
  BY DEF Away, FlushPoints
<1>11. FlushInv'
  BY <1>0, <1>9, <1>10, AwayFlush, FlushStep DEF Lasting, FlushInv
<1> QED
  BY <1>5, <1>6, <1>7, <1>8, <1>11 DEF Lasting, ContentInv

\* MoveRelink: the new block gets the content, in the buffer or in a request, and the
\* device has that of the old one.
LEMMA MoveRelinkContent ==
  ASSUME Base, Base', Lasting, NEW t \in Threads, MoveRelink(t)
  PROVE  Lasting'
<1>b. PICK b, k, g, old : /\ b = loc[t].mine /\ k = loc[t].blk /\ g = Bump(latest[k])
                          /\ old = buf[b].block
  OBVIOUS
<1>0. /\ b \in Linked /\ b \in Buffers /\ buf[b] \in Buffer /\ buf \in [Buffers -> Buffer]
      /\ old \in Blocks /\ k \in Blocks /\ old # k /\ buf[b].state = {} /\ io[b] = NoRequest
      /\ "read" \notin buf[b].err /\ loc[t].call \notin Getting /\ lock = t
      /\ \A u \in Threads \ {t} : pc[u] \notin {"relink", "movecopy"}
  BY <1>b, MoverFacts DEF MoveRelink
<1>1. /\ loc[t] \in Locals /\ At(t, "relink") /\ WriteOver(b)
      /\ UNCHANGED <<asyncError, disk, failed, reported>> /\ CacheInv
  BY <1>b, ThreadFacts DEF MoveRelink, Base
<1>2. /\ latest' = [latest EXCEPT ![k] = g] /\ g \in Gens /\ latest'[k] = g /\ latest[k] <= g
      /\ \A j \in Blocks \ {k} : latest'[j] = latest[j]
  <2>1. latest' = [latest EXCEPT ![k] = g]
    BY <1>b DEF MoveRelink
  <2>2. latest \in Snapshot /\ latest[k] \in Gens
    BY <1>0 DEF Base, ThreadsInv, ThreadsType, Snapshot
  <2>3. g \in Gens /\ latest[k] <= g
    BY <1>b, <2>2, BumpFacts
  <2> QED
    BY <1>0, <2>1, <2>2, <2>3 DEF Snapshot
<1>3. CASE /\ Link(b, Moved(buf[b], k, g), "dirty") /\ Go(t, "release", loc[t]) /\ UNCHANGED io
  <2>1. PICK r, s : r = Moved(buf[b], k, g) /\ s = loc[t]
    OBVIOUS
  <2>2. /\ r.block = k /\ r.state = {"dirty"} /\ r.gen = g /\ r.err = buf[b].err
        /\ [r EXCEPT !.where = "dirty"].block = k /\ [r EXCEPT !.where = "dirty"].state = {"dirty"}
        /\ [r EXCEPT !.where = "dirty"].gen = g /\ [r EXCEPT !.where = "dirty"].err = buf[b].err
        /\ [r EXCEPT !.where = "dirty"].where = "dirty"
    BY <1>0, <2>1 DEF Moved, Buffer
  <2>3. /\ buf'[b] = [r EXCEPT !.where = "dirty"]
        /\ \A c \in Buffers \ {b} : buf'[c] = buf[c] /\ io'[c] = io[c]
    BY <1>0, <1>3, <2>1 DEF Link
  <2>4. b \in Linked'
    BY <1>0, <2>2, <2>3 DEF Linked, Lists
  <2>5. ContentOf(b)'
    BY <1>0, <1>2, <2>2, <2>3 DEF ContentOf
  <2>6. Keeping("release", s)'
    BY <1>0, <1>b, <2>1, <2>2, <2>3 DEF Keeping, Getting
  <2>7. /\ buf'[b].block = k /\ buf'[b].err = buf[b].err /\ buf'[b].state = {"dirty"}
        /\ "reading" \notin buf'[b].state /\ buf'[b].state # {} /\ buf'[b].gen = latest'[k]
        /\ io'[b] = io[b]
    BY <1>2, <1>3, <2>2, <2>3
  <2>8. s.mine = b /\ s.call = loc[t].call /\ s.snap = loc[t].snap /\ Go(t, "release", s)
    BY <1>3, <1>b, <2>1
  <2>9. Handed(b)' => (buf[b].gen = latest[k] \/ k \in failed \cup reported)'
    BY <2>7
  <2>10. /\ \A j \in Blocks \ {k} : latest'[j] = latest[j]
         /\ latest[k] <= latest'[k] /\ WriteOver(loc[t].mine) /\ At(t, "relink")
         /\ UNCHANGED <<asyncError, disk, failed, reported>>
    BY <1>1, <1>2, <1>b
  <2> QED
    BY <1>b, <2>3, <2>4, <2>5, <2>6, <2>7, <2>8, <2>9, <2>10, Relocates
<1>4. CASE /\ Link(b, [buf[b] EXCEPT !.block = k, !.state = @ \cup {"writing"}], buf[b].where)
           /\ Submit(b, "write", k, g)
           /\ Go(t, "movecopy", [loc[t] EXCEPT !.blk = old])
  <2>1. PICK r, s : /\ r = [buf[b] EXCEPT !.block = k, !.state = @ \cup {"writing"}]
                    /\ s = [loc[t] EXCEPT !.blk = old]
    OBVIOUS
  <2>w. PICK w \in Lists : w = buf[b].where
    BY <1>0 DEF Linked
  <2>2. /\ r.block = k /\ r.state = {"writing"} /\ r.gen = buf[b].gen /\ r.err = buf[b].err
        /\ [r EXCEPT !.where = w].block = k /\ [r EXCEPT !.where = w].state = {"writing"}
        /\ [r EXCEPT !.where = w].gen = buf[b].gen /\ [r EXCEPT !.where = w].err = buf[b].err
        /\ [r EXCEPT !.where = w].where = w
    BY <1>0, <2>1 DEF Buffer
  <2>3. /\ buf'[b] = [r EXCEPT !.where = w] /\ \A c \in Buffers \ {b} : buf'[c] = buf[c]
    BY <1>0, <1>4, <2>1, <2>w DEF Link
  <2>4. /\ io'[b] = [rw |-> "write", block |-> k, gen |-> g]
        /\ \A c \in Buffers \ {b} : io'[c] = io[c]
    BY <1>0, <1>1, <1>4 DEF Submit, CacheInv, DataType
  <2>5. b \in Linked'
    BY <1>0, <2>2, <2>3 DEF Linked
  <2>6. /\ s.mine = b /\ s.call = loc[t].call /\ s.snap = loc[t].snap /\ s.blk = old
        /\ Go(t, "movecopy", s)
    BY <1>1, <1>4, <1>b, <2>1 DEF Locals
  <2>7. /\ buf'[b].block = k /\ buf'[b].err = buf[b].err /\ buf'[b].state = {"writing"}
        /\ "reading" \notin buf'[b].state /\ buf'[b].state # {} /\ buf'[b].gen = buf[b].gen
        /\ io'[b].rw = "write" /\ io'[b].block = k /\ io'[b].gen = g
    BY <2>2, <2>3, <2>4
  <2>8. pc'[t] = "movecopy" /\ loc'[t] = s /\ \A u \in Threads \ {t} : loc'[u] = loc[u]
    BY <2>6, GoFacts DEF Base
  <2>9. Lent(b)'
    BY <2>6, <2>8 DEF Lent
  <2>10. ContentOf(b)'
    BY <1>0, <1>2, <2>7, <2>9 DEF ContentOf
  <2>11. ~Handed(b)'
    BY <2>9 DEF Handed, Lent
  <2>12. ~Fresh(b)' => Current(old, buf[b].gen)'
    <3>1. SUFFICES ASSUME ~Fresh(b)' PROVE Current(old, buf[b].gen)'
      OBVIOUS
    <3>2. ~Fresh(b) /\ ~Lent(b)
      BY <1>0, <1>1, <2>6, <2>8, <3>1 DEF Fresh, Lent
    <3>3. Handed(b)
      BY <1>0, <3>2 DEF Handed, Fresh, Lent
    <3>4. Current(old, buf[b].gen)
      BY <1>0, <1>b, <3>3 DEF Lasting, ContentInv, CacheCoherent, Current
    <3> QED
      BY <1>0, <1>1, <1>2, <2>7, <3>4 DEF Current
  <2>13. Keeping("movecopy", s)'
    BY <1>0, <2>6, <2>7, <2>12 DEF Keeping
  <2>14. /\ \A j \in Blocks \ {k} : latest'[j] = latest[j]
         /\ latest[k] <= latest'[k] /\ WriteOver(loc[t].mine) /\ At(t, "relink")
         /\ UNCHANGED <<asyncError, disk, failed, reported>>
    BY <1>1, <1>2, <1>b
  <2>15. io'[b].rw = "write" /\ io'[b].block = k /\ io'[b].gen >= latest[k]
    <3>1. latest[k] \in Nat /\ g \in Nat
      BY <1>0, <1>2 DEF Base, ThreadsInv, ThreadsType, Snapshot, Gens
    <3> QED
      BY <1>2, <2>7, <3>1
  <2>16. \A c \in Buffers \ {b} : buf'[c] = buf[c] /\ io'[c] = io[c]
    BY <2>3, <2>4
  <2> QED
    BY <1>b, <2>5, <2>6, <2>7, <2>10, <2>11, <2>13, <2>14, <2>15, <2>16, Relocates
<1> QED
  BY <1>b, <1>3, <1>4 DEF MoveRelink

\* MoveCopied: the buffer is back, with the content of its block.
LEMMA MoveCopiedContent ==
  ASSUME Base, Base', Lasting, NEW t \in Threads, MoveCopied(t)
  PROVE  Lasting'
<1>b. PICK b, k, s : b = loc[t].mine /\ k = loc[t].blk /\ s = loc[t]
  OBVIOUS
<1>0. /\ b \in Linked /\ b \in Buffers /\ buf[b] \in Buffer /\ buf \in [Buffers -> Buffer]
      /\ k \in Blocks /\ buf[b].state = {} /\ io[b] = NoRequest
      /\ "read" \notin buf[b].err /\ loc[t].call \notin Getting
  BY <1>b, MoverFacts DEF MoveCopied
<1>1. /\ loc[t] \in Locals /\ At(t, "movecopy") /\ WriteOver(b) /\ Go(t, "release", s)
      /\ UNCHANGED <<asyncError, disk, failed, reported, latest, io>>
      /\ Keeping(pc[t], loc[t])
  BY <1>b, ThreadFacts DEF MoveCopied, Base, ioVars, deviceVars, Lasting, ContentInv
<1>w. PICK w \in Lists : w = buf[b].where
  BY <1>0 DEF Linked
<1>2. PICK r : r = [buf[b] EXCEPT !.block = k]
  OBVIOUS
<1>3. /\ [r EXCEPT !.where = w].block = k /\ [r EXCEPT !.where = w].state = {}
      /\ [r EXCEPT !.where = w].gen = buf[b].gen /\ [r EXCEPT !.where = w].err = buf[b].err
      /\ [r EXCEPT !.where = w].where = w
  BY <1>0, <1>2 DEF Buffer
<1>4. /\ buf'[b] = [r EXCEPT !.where = w] /\ \A c \in Buffers \ {b} : buf'[c] = buf[c]
  BY <1>0, <1>2, <1>b, <1>w DEF MoveCopied, Link
<1>5. /\ buf'[b].block = k /\ buf'[b].err = buf[b].err /\ buf'[b].state = {}
      /\ buf'[b].gen = buf[b].gen /\ b \in Linked'
  BY <1>0, <1>3, <1>4 DEF Linked
<1>6. ContentOf(b)'
  BY <1>0, <1>1, <1>5 DEF ContentOf, NoRequest
<1>7. Keeping("release", s)'
  BY <1>0, <1>5, <1>b DEF Keeping, Getting
<1>8. Handed(b)' => (buf[b].gen = latest[k] \/ k \in failed \cup reported)'
  <2>1. SUFFICES ASSUME Handed(b)' PROVE Current(k, buf[b].gen)
    BY <1>1, <1>5 DEF Current
  <2>2. \A u \in Threads \ {t} : loc'[u] = loc[u]
    BY <1>1, GoFacts DEF Base
  <2>3. ~Fresh(b)
    BY <1>0, <2>1, <2>2 DEF Handed, Fresh, Getting
  <2> QED
    BY <1>1, <1>b, <2>3 DEF Keeping
<1>9. latest[k] \in Nat /\ \A c \in Buffers \ {b} : buf'[c] = buf[c] /\ io'[c] = io[c]
  BY <1>0, <1>1, <1>4 DEF Base, ThreadsInv, ThreadsType, Snapshot, Gens
<1>10. /\ latest[k] <= latest'[k] /\ latest'[k] = latest[k] /\ io'[b] = io[b]
       /\ \A j \in Blocks \ {k} : latest'[j] = latest[j]
       /\ UNCHANGED <<asyncError, disk, failed, reported>> /\ "reading" \notin buf'[b].state
       /\ s.mine = b /\ s.call = loc[t].call /\ s.snap = loc[t].snap
  BY <1>1, <1>5, <1>9, <1>b
<1> QED
  BY <1>1, <1>5, <1>6, <1>7, <1>8, <1>9, <1>10, <1>b, Relocates

-----------------------------------------------------------------------------
(* The shrinker, the age worker, and the end of the client.                *)

\* Scan begins a walk.
LEMMA ScanContent ==
  ASSUME Base, Base', Lasting, NEW t \in Threads, NEW c \in ApiCalls, NEW n \in ScanSizes,
         Scan(t, c, n)
  PROVE  Lasting'
<1>0. /\ At(t, "idle") /\ lock = Nobody /\ UNCHANGED <<buf, io, deviceVars>> /\ UNCHANGED asyncError
  BY DEF Scan, Call, cacheVars, ioVars
<1>1. PICK s : s = [Rest(loc[t].mine) EXCEPT !.call = c, !.walk = Linked, !.left = n, !.count = n]
  OBVIOUS
<1>2. Go(t, "scan", s) /\ s.mine = loc[t].mine /\ s.call = c /\ c # "sync"
  BY <1>1 DEF Scan, Rest
<1>3. Own(t, "scan", s) /\ Away(t, "scan", s)
  BY <1>0, <1>2, OwnBegins DEF Away
<1> QED
  BY <1>0, <1>2, <1>3, CalmSame, Quietly

\* ScanVisit looks only; the eviction is CleanDone.
LEMMA ScanVisitContent ==
  ASSUME Base, Base', Lasting, NEW t \in Threads, ScanVisit(t)
  PROVE  Lasting'
<1>0. /\ loc[t] \in Locals /\ ThreadOK(pc[t], loc[t]) /\ At(t, "scan") /\ lock = t
      /\ UNCHANGED <<buf, io, deviceVars>> /\ UNCHANGED asyncError
  BY ThreadFacts DEF ScanVisit, ioVars, cacheVars, Base
<1>1. loc[t].mine \in Buffers => loc[t].call \notin Getting
  BY <1>0 DEF ThreadOK, Possession
<1>2. PICK l, s : Go(t, l, s) /\ Own(t, l, s) /\ Away(t, l, s)
  <2>1. ASSUME NEW l \in {"scan", "clean"}, NEW s, Go(t, l, s), s.mine = loc[t].mine,
               s.call = loc[t].call, s.snap = loc[t].snap
        PROVE  Own(t, l, s) /\ Away(t, l, s)
    BY <1>0, <2>1, Onward DEF FlushPoints
  <2>2. \A b : /\ [loc[t] EXCEPT !.walk = @ \ {b}, !.left = @ - 1].mine = loc[t].mine
               /\ [loc[t] EXCEPT !.walk = @ \ {b}, !.left = @ - 1].call = loc[t].call
               /\ [loc[t] EXCEPT !.walk = @ \ {b}, !.left = @ - 1].snap = loc[t].snap
               /\ [loc[t] EXCEPT !.walk = @ \ {b}, !.cur = b, !.then = "scan"].mine = loc[t].mine
               /\ [loc[t] EXCEPT !.walk = @ \ {b}, !.cur = b, !.then = "scan"].call = loc[t].call
               /\ [loc[t] EXCEPT !.walk = @ \ {b}, !.cur = b, !.then = "scan"].snap = loc[t].snap
    BY <1>0 DEF Locals
  <2>3. \/ \E b : Go(t, "scan", [loc[t] EXCEPT !.walk = @ \ {b}, !.left = @ - 1])
        \/ \E b : Go(t, "clean", [loc[t] EXCEPT !.walk = @ \ {b}, !.cur = b, !.then = "scan"])
        \/ Return(t, loc[t].mine)
    BY DEF ScanVisit
  <2>4. CASE Return(t, loc[t].mine)
    BY <1>0, <1>1, <2>4, ReturningCalm DEF Return
  <2> QED
    BY <2>1, <2>2, <2>3, <2>4
<1> QED
  BY <1>0, <1>2, CalmSame, Quietly

\* Age begins a walk.
LEMMA AgeContent ==
  ASSUME Base, Base', Lasting, NEW t \in Threads, Age(t)
  PROVE  Lasting'
<1>0. /\ At(t, "idle") /\ lock = Nobody /\ UNCHANGED <<buf, io, deviceVars>> /\ UNCHANGED asyncError
  BY DEF Age, Call, cacheVars, ioVars
<1>1. PICK s : s = [Rest(loc[t].mine) EXCEPT !.call = "age", !.walk = List("clean"),
                                            !.count = Cardinality(Linked)]
  OBVIOUS
<1>2. Go(t, "age", s) /\ s.mine = loc[t].mine /\ s.call = "age"
  BY <1>1 DEF Age, Rest
<1>3. Own(t, "age", s) /\ Away(t, "age", s)
  BY <1>0, <1>2, OwnBegins DEF Away
<1> QED
  BY <1>0, <1>2, <1>3, CalmSame, Quietly

\* AgeVisit evicts idle buffers.
LEMMA AgeVisitContent ==
  ASSUME Base, Base', Lasting, NEW t \in Threads, AgeVisit(t)
  PROVE  Lasting'
<1>0. /\ loc[t] \in Locals /\ ThreadOK(pc[t], loc[t]) /\ At(t, "age") /\ lock = t
      /\ LockHolderOK(pc[t], loc[t]) /\ UNCHANGED <<io, deviceVars>> /\ UNCHANGED asyncError /\ CacheInv
  BY ThreadFacts DEF AgeVisit, ioVars, Base, CacheInv
<1>1. loc[t].mine \in Buffers => loc[t].call \notin Getting
  BY <1>0 DEF ThreadOK, Possession
<1>2. PICK l, s : Go(t, l, s) /\ Own(t, l, s) /\ Away(t, l, s)
  <2>1. ASSUME NEW s, Go(t, "age", s), s.mine = loc[t].mine, s.call = loc[t].call, s.snap = loc[t].snap
        PROVE  Own(t, "age", s) /\ Away(t, "age", s)
    BY <1>0, <2>1, Onward DEF FlushPoints
  <2>2. \A b : /\ [loc[t] EXCEPT !.walk = @ \ {b}, !.count = @ - 1].mine = loc[t].mine
               /\ [loc[t] EXCEPT !.walk = @ \ {b}, !.count = @ - 1].call = loc[t].call
               /\ [loc[t] EXCEPT !.walk = @ \ {b}, !.count = @ - 1].snap = loc[t].snap
               /\ [loc[t] EXCEPT !.walk = @ \ {b}].mine = loc[t].mine
               /\ [loc[t] EXCEPT !.walk = @ \ {b}].call = loc[t].call
               /\ [loc[t] EXCEPT !.walk = @ \ {b}].snap = loc[t].snap
    BY <1>0 DEF Locals
  <2>3. \/ \E b : Go(t, "age", [loc[t] EXCEPT !.walk = @ \ {b}, !.count = @ - 1])
        \/ \E b : Go(t, "age", [loc[t] EXCEPT !.walk = @ \ {b}])
        \/ Return(t, loc[t].mine)
    BY DEF AgeVisit
  <2>4. CASE Return(t, loc[t].mine)
    BY <1>0, <1>1, <2>4, ReturningCalm DEF Return
  <2> QED
    BY <2>1, <2>2, <2>3, <2>4
<1>3. Calm /\ UNCHANGED <<failed, reported>>
  <2>1. ASSUME NEW b \in Oldest(loc[t].walk), ~Busy(b), FreeBufferWake(b)
        PROVE  Calm /\ UNCHANGED <<failed, reported>>
    <3>1. b \in Buffers /\ buf[b].state = {}
      BY <1>0, <2>1 DEF Oldest, LockHolderOK, Walking, Linked, Busy
    <3> QED
      BY <1>0, <2>1, <3>1, CalmFree
  <2>2. CASE UNCHANGED cacheVars
    BY <1>0, <2>2, CalmSame DEF cacheVars
  <2> QED
    BY <2>1, <2>2 DEF AgeVisit
<1> QED
  BY <1>0, <1>2, <1>3, Quietly

\* Destroy begins to write back.
LEMMA DestroyContent ==
  ASSUME Base, Base', Lasting, NEW t \in Threads, Destroy(t)
  PROVE  Lasting'
<1>0. /\ loc[t] \in Locals /\ At(t, "idle") /\ lock = Nobody
      /\ UNCHANGED <<buf, io, deviceVars>> /\ UNCHANGED asyncError
  BY ThreadFacts DEF Destroy, Call, cacheVars, ioVars, Base
<1>1. PICK s : s = [loc[t] EXCEPT !.call = "destroy", !.walk = List("dirty"), !.then = "relock"]
  OBVIOUS
<1>2. Go(t, "wb", s) /\ s.mine = loc[t].mine /\ s.call = "destroy"
  BY <1>0, <1>1 DEF Destroy, StartWriteBack, Locals
<1>3. Own(t, "wb", s) /\ Away(t, "wb", s)
  BY <1>0, <1>2, OwnBegins DEF Away
<1> QED
  BY <1>0, <1>2, <1>3, CalmSame, Quietly

\* DropStart and Drop look for what is to be cleaned.
LEMMA DropStartContent ==
  ASSUME Base, Base', Lasting, NEW t \in Threads, DropStart(t)
  PROVE  Lasting'
<1>0. /\ At(t, "relock") /\ lock = Nobody /\ UNCHANGED <<buf, io, deviceVars>> /\ UNCHANGED asyncError
  BY DEF DropStart, cacheVars, ioVars
<1>1. PICK s : s = loc[t]
  OBVIOUS
<1>2. Go(t, "drop", s)
  BY <1>1 DEF DropStart
<1>3. Own(t, "drop", s) /\ Away(t, "drop", s)
  BY <1>0, <1>1, Onward DEF FlushPoints
<1> QED
  BY <1>0, <1>2, <1>3, CalmSame, Quietly

\* Drop looks only.
LEMMA DropContent ==
  ASSUME Base, Base', Lasting, NEW t \in Threads, Drop(t)
  PROVE  Lasting'
<1>0. /\ loc[t] \in Locals /\ At(t, "drop") /\ lock = t
      /\ UNCHANGED <<buf, io, deviceVars>> /\ UNCHANGED asyncError
  BY ThreadFacts DEF Drop, cacheVars, ioVars, Base
<1>1. PICK l, s : /\ Go(t, l, s) /\ l \in {"clean", "unregister"}
                  /\ s.mine = loc[t].mine /\ s.call = loc[t].call /\ s.snap = loc[t].snap
  <2>1. \A b : /\ [loc[t] EXCEPT !.cur = b, !.then = "drop"].mine = loc[t].mine
               /\ [loc[t] EXCEPT !.cur = b, !.then = "drop"].call = loc[t].call
               /\ [loc[t] EXCEPT !.cur = b, !.then = "drop"].snap = loc[t].snap
    BY <1>0 DEF Locals
  <2>2. \/ \E b : Go(t, "clean", [loc[t] EXCEPT !.cur = b, !.then = "drop"])
        \/ Go(t, "unregister", loc[t])
    BY DEF Drop
  <2> QED
    BY <2>1, <2>2
<1>2. Own(t, l, s) /\ Away(t, l, s)
  BY <1>0, <1>1, Onward DEF FlushPoints
<1> QED
  BY <1>0, <1>1, <1>2, CalmSame, Quietly

\* Unregister frees the reserve.
LEMMA UnregisterContent ==
  ASSUME Base, Base', Lasting, NEW t \in Threads, Unregister(t)
  PROVE  Lasting'
<1>0. /\ loc[t] \in Locals /\ ThreadOK(pc[t], loc[t]) /\ At(t, "unregister")
      /\ UNCHANGED <<io, deviceVars>> /\ UNCHANGED asyncError /\ CacheInv
  BY ThreadFacts DEF Unregister, ioVars, Base
<1>1. PICK s : s = Rest(loc[t].mine)
  OBVIOUS
<1>2. Go(t, "destroyed", s) /\ s.mine = loc[t].mine /\ s.call = "none"
  BY <1>1 DEF Unregister, Rest
<1>3. Own(t, "destroyed", s) /\ Away(t, "destroyed", s)
  <2>1. loc[t].mine \in Buffers => loc[t].call \notin Getting
    BY <1>0 DEF ThreadOK, Possession
  <2> QED
    BY <1>0, <1>2, <2>1 DEF Own, Away, Getting
<1>4. \A b \in Buffers : buf'[b] = IF buf[b].where = "reserved" THEN Blank("free") ELSE buf[b]
  BY DEF Unregister
<1>5. \A b \in Buffers : Kept(b) \/ Dropped(b)
  <2> SUFFICES ASSUME NEW b \in Buffers PROVE Kept(b) \/ Dropped(b)
    OBVIOUS
  <2>1. CASE buf[b].where = "reserved"
    <3>1. buf[b].state = {}
      BY <2>1 DEF Base, BitsInv, BitsOfList, Linked, Lists
    <3> QED
      BY <1>4, <2>1, <3>1 DEF Dropped, Blank, Linked, Lists
  <2>2. CASE buf[b].where # "reserved"
    BY <1>4, <2>2 DEF Kept, Linked
  <2> QED
    BY <2>1, <2>2
<1>6. Calm /\ UNCHANGED <<failed, reported>>
  BY <1>0, <1>5 DEF Calm, SameDevice, deviceVars
<1>7. lock = Nobody
  BY <1>0, ThreadFacts, ThreadsAssumption DEF Unregister, Base, ThreadsInv, ThreadsType, Unlocked
<1> QED
  BY <1>0, <1>2, <1>3, <1>6, <1>7, Quietly

-----------------------------------------------------------------------------
(* Interrupts.                                                             *)

\* ReadDone: the content read is the last one, for nobody had to write the block.
LEMMA ReadDoneContent ==
  ASSUME Base, Base', Lasting, NEW b \in Buffers, ReadDone(b)
  PROVE  Lasting'
<1>k. PICK k : k = buf[b].block
  OBVIOUS
<1>0. /\ b \in Linked /\ k \in Blocks /\ buf[b] \in Buffer /\ buf \in [Buffers -> Buffer]
      /\ buf[b].state = {"reading"} /\ io[b].block = k /\ io[b].rw = "read"
      /\ UNCHANGED <<asyncError, pc, loc, disk, latest, failed, reported>>
      /\ io \in [Buffers -> Request] /\ io' = [io EXCEPT ![b] = NoRequest]
  BY <1>k, BufferFacts DEF ReadDone, deviceVars, Base, CacheInv, IndexInv, DataType
<1>1. /\ buf'[b].state = {} /\ buf'[b].block = k /\ buf'[b].where = buf[b].where
      /\ buf'[b].hold = buf[b].hold
      /\ buf'[b].gen = disk[k] \/ "read" \in buf'[b].err
      /\ \A c \in Buffers \ {b} : buf'[c] = buf[c] /\ io'[c] = io[c]
      /\ io'[b] = NoRequest
  <2>1. CASE buf' = [buf EXCEPT ![b].state = @ \ {"reading"}, ![b].err = @ \ {"read"},
                                ![b].gen = disk[io[b].block]]
    <3>1. /\ buf'[b] = [buf[b] EXCEPT !.state = @ \ {"reading"}, !.err = @ \ {"read"}, !.gen = disk[k]]
          /\ \A c \in Buffers \ {b} : buf'[c] = buf[c]
      BY <1>0, <2>1
    <3> QED
      BY <1>0, <1>k, <3>1 DEF Buffer
  <2>2. CASE buf' = [buf EXCEPT ![b].state = @ \ {"reading"}, ![b].err = @ \cup {"read"}]
    <3>1. /\ buf'[b] = [buf[b] EXCEPT !.state = @ \ {"reading"}, !.err = @ \cup {"read"}]
          /\ \A c \in Buffers \ {b} : buf'[c] = buf[c]
      BY <1>0, <2>2
    <3> QED
      BY <1>0, <1>k, <3>1 DEF Buffer
  <2> QED
    BY <2>1, <2>2 DEF ReadDone
<1>2. SameIndex /\ Linked' = Linked /\ \A j : Find(j)' = Find(j)
  <2>1. SameIndex
    BY <1>1, <1>k DEF SameIndex
  <2> QED
    BY <2>1, Soft DEF Base, CacheInv, SameIndex, Linked, Find
<1>3. "read" \notin buf[b].err
  BY <1>0 DEF Lasting, ContentInv, ContentOf
<1>4. \A c \in Buffers : ContentOf(c)'
  <2>1. ASSUME NEW c \in Buffers \ {b} PROVE ContentOf(c)'
    BY <1>0, <1>1 DEF Lasting, ContentInv, ContentOf, Lent
  <2>2. ContentOf(b)'
    BY <1>1 DEF ContentOf, NoRequest
  <2> QED
    BY <2>1, <2>2
<1>5. ASSUME NEW j \in Blocks, Settled(j)' PROVE Settled(j)
  <2> SUFFICES ASSUME NEW c \in Find(j) PROVE buf[c].state \cap {"dirty", "writing"} = {}
    BY DEF Settled
  <2>1. c \in Buffers /\ c \in Find(j)'
    BY <1>2 DEF Find, Linked
  <2> QED
    BY <1>0, <1>1, <1>5, <2>1 DEF Settled
<1>6. DeviceInv'
  BY <1>0, <1>5 DEF Lasting, ContentInv, DeviceInv, Current
<1>7. CacheCoherent'
  <2> SUFFICES ASSUME NEW c \in Buffers, Handed(c)'
               PROVE  (buf[c].gen = latest[buf[c].block] \/ buf[c].block \in failed \cup reported)'
    BY DEF CacheCoherent
  <2>1. CASE c = b
    <3>1. Settled(k)
      BY <1>0, <1>k DEF Settled, Find, Base, CacheInv, IndexInv, OneBufferPerBlock
    <3>2. Current(k, disk[k])
      BY <1>0, <3>1 DEF Lasting, ContentInv, DeviceInv
    <3> QED
      BY <1>0, <1>1, <2>1, <3>2 DEF Handed, Current
  <2>2. CASE c # b
    <3>1. Handed(c)
      BY <1>0, <1>1, <1>2, <2>2 DEF Handed
    <3> QED
      BY <1>0, <1>1, <2>2, <3>1 DEF Lasting, ContentInv, CacheCoherent
  <2> QED
    BY <2>1, <2>2
<1>8. ASSUME NEW u \in Threads PROVE Keeping(pc[u], loc[u])'
  <2>0. /\ Keeping(pc[u], loc[u]) /\ ThreadOK(pc[u], loc[u]) /\ Promises(pc[u], loc[u])
        /\ UNCHANGED <<pc[u], loc[u]>>
    BY <1>0, ThreadFacts DEF Lasting, ContentInv, Base, BitsInv
  <2>1. CASE loc[u].mine = b
    <3>1. loc[u].call \in Getting /\ pc[u] \in {"submit", "wait", "flush", "release"}
      BY <1>0, <2>0, <2>1 DEF Promises, Reading
    <3>2. ~(pc[u] = "release" /\ loc[u].call = "new")
      BY <1>3, <2>0, <2>1 DEF Keeping
    <3> QED
      BY <2>0, <3>1, <3>2 DEF Keeping
  <2>2. CASE loc[u].mine # b
    <3>1. loc[u].mine \in Buffers => buf'[loc[u].mine] = buf[loc[u].mine] /\ io'[loc[u].mine] = io[loc[u].mine]
      BY <1>1, <2>2
    <3>2. pc[u] \in {"release", "relink", "movecopy"} => loc[u].mine \in Buffers
      BY <2>0 DEF ThreadOK, Possession, Moving
    <3>3. Fresh(loc[u].mine)' <=> Fresh(loc[u].mine)
      BY <1>0 DEF Fresh
    <3> QED
      BY <1>0, <2>0, <3>1, <3>2, <3>3 DEF Keeping, Current
  <2> QED
    BY <2>1, <2>2
<1>9. Progress
  <2>1. \A j \in Blocks : latest[j] <= latest'[j]
    BY <1>0 DEF Base, ThreadsInv, ThreadsType, Snapshot, Gens
  <2>2. \A c \in Buffers : io'[c] = io[c] \/ io'[c].rw # "write"
    BY <1>1 DEF NoRequest
  <2>3. \A c \in Linked : "writing" \in buf[c].state =>
          c \in Linked' /\ buf'[c].block = buf[c].block /\ "writing" \in buf'[c].state
    BY <1>0, <1>1, <1>2 DEF Linked
  <2> QED
    BY <1>0, <2>1, <2>2, <2>3, ProgressOf
<1>10. FlushInv'
  BY <1>0, <1>2, <1>9, FlushOther DEF Lasting, FlushInv
<1> QED
  BY <1>4, <1>6, <1>7, <1>8, <1>10 DEF Lasting, ContentInv

\* WriteDone: the device has the content that was written, or the error is noted.
LEMMA WriteDoneContent ==
  ASSUME Base, Base', Lasting, NEW b \in Buffers, WriteDone(b)
  PROVE  Lasting'
<1>k. PICK k : k = io[b].block
  OBVIOUS
<1>0. /\ b \in Linked /\ k \in Blocks /\ buf[b] \in Buffer /\ buf \in [Buffers -> Buffer]
      /\ "writing" \in buf[b].state /\ buf[b].block = k /\ io[b].rw = "write"
      /\ UNCHANGED <<pc, loc, latest>> /\ disk \in Snapshot
      /\ io \in [Buffers -> Request] /\ io' = [io EXCEPT ![b] = NoRequest]
      /\ ContentOf(b)
  BY <1>k, BufferFacts DEF WriteDone, Base, CacheInv, IndexInv, DataType, Lasting, ContentInv
<1>1. /\ buf'[b].state = buf[b].state \ {"writing"} /\ buf'[b].block = k /\ buf'[b].where = buf[b].where
      /\ buf'[b].hold = buf[b].hold /\ buf'[b].gen = buf[b].gen
      /\ "read" \in buf'[b].err <=> "read" \in buf[b].err
      /\ \A c \in Buffers \ {b} : buf'[c] = buf[c] /\ io'[c] = io[c]
      /\ io'[b] = NoRequest
  <2>1. CASE buf' = [buf EXCEPT ![b].state = Written(@), ![b].err = @ \ {"write"}]
    <3>1. /\ buf'[b] = [buf[b] EXCEPT !.state = Written(@), !.err = @ \ {"write"}]
          /\ \A c \in Buffers \ {b} : buf'[c] = buf[c]
      BY <1>0, <2>1
    <3> QED
      BY <1>0, <3>1 DEF Buffer, Written
  <2>2. CASE buf' = [buf EXCEPT ![b].state = Written(@), ![b].err = @ \cup {"write"}]
    <3>1. /\ buf'[b] = [buf[b] EXCEPT !.state = Written(@), !.err = @ \cup {"write"}]
          /\ \A c \in Buffers \ {b} : buf'[c] = buf[c]
      BY <1>0, <2>2
    <3> QED
      BY <1>0, <3>1 DEF Buffer, Written
  <2> QED
    BY <2>1, <2>2 DEF WriteDone
<1>2. \/ /\ disk' = [disk EXCEPT ![k] = io[b].gen] /\ UNCHANGED asyncError
         /\ failed' = failed \ {k} /\ reported' = reported \ {k}
      \/ asyncError' = TRUE /\ failed' = failed \cup {k} /\ UNCHANGED <<disk, reported>>
  BY <1>k DEF WriteDone, NoteError
<1>3. /\ \A j \in Blocks \ {k} : /\ disk'[j] = disk[j]
                                 /\ j \in failed' <=> j \in failed
                                 /\ j \in reported' <=> j \in reported
      /\ \/ disk'[k] = io[b].gen
         \/ k \in failed' /\ disk' = disk /\ reported' = reported
  BY <1>0, <1>2 DEF Snapshot
<1>4. SameIndex /\ Linked' = Linked /\ \A j : Find(j)' = Find(j)
  <2>1. SameIndex
    BY <1>0, <1>1 DEF SameIndex
  <2> QED
    BY <2>1, Soft DEF Base, CacheInv, SameIndex, Linked, Find
<1>5. Find(k) = {b}
  BY <1>0 DEF Find, Base, CacheInv, IndexInv, OneBufferPerBlock
<1>6. \A c \in Buffers \ {b} : c \in Linked => buf[c].block \in Blocks \ {k}
  BY <1>5, BufferFacts DEF Find
<1>7. \A c \in Buffers : ContentOf(c)'
  <2>1. ASSUME NEW c \in Buffers \ {b} PROVE ContentOf(c)'
    BY <1>0, <1>1 DEF Lasting, ContentInv, ContentOf, Lent
  <2>2. ContentOf(b)'
    BY <1>0, <1>1 DEF ContentOf, NoRequest
  <2> QED
    BY <2>1, <2>2
<1>8. DeviceInv'
  <2> SUFFICES ASSUME NEW j \in Blocks, Settled(j)' PROVE Current(j, disk[j])'
    BY DEF DeviceInv
  <2>1. CASE j = k
    <3>1. "dirty" \notin buf[b].state
      BY <1>1, <1>4, <1>5, <2>1 DEF Settled
    <3>2. io[b].gen = latest[k]
      BY <1>0, <1>k, <3>1 DEF ContentOf
    <3> QED
      BY <1>0, <1>3, <2>1, <3>2 DEF Current
  <2>2. CASE j # k
    <3>1. \A c \in Find(j) : c \in Buffers \ {b} /\ c \in Find(j)'
      BY <1>0, <1>4, <2>2 DEF Find, Linked
    <3>2. Settled(j)
      BY <1>1, <3>1 DEF Settled
    <3> QED
      BY <1>0, <1>3, <2>2, <3>2 DEF Lasting, ContentInv, DeviceInv, Current
  <2> QED
    BY <2>1, <2>2
<1>9. CacheCoherent'
  <2> SUFFICES ASSUME NEW c \in Buffers, Handed(c)'
               PROVE  (buf[c].gen = latest[buf[c].block] \/ buf[c].block \in failed \cup reported)'
    BY DEF CacheCoherent
  <2>1. CASE c = b
    <3>1. ~Lent(b)
      BY <1>0, <2>1 DEF Handed, Lent
    <3> QED
      BY <1>0, <1>1, <2>1, <3>1 DEF ContentOf
  <2>2. CASE c # b
    <3>1. Handed(c)
      BY <1>0, <1>1, <1>4, <2>2 DEF Handed
    <3>2. buf[c].block \in Blocks \ {k}
      BY <1>6, <2>2, <3>1 DEF Handed
    <3> QED
      BY <1>0, <1>1, <1>3, <2>2, <3>1, <3>2 DEF Lasting, ContentInv, CacheCoherent
  <2> QED
    BY <2>1, <2>2
<1>10. ASSUME NEW u \in Threads PROVE Keeping(pc[u], loc[u])'
  <2>0. /\ Keeping(pc[u], loc[u]) /\ ThreadOK(pc[u], loc[u]) /\ LockHolderOK(pc[u], loc[u])
        /\ UNCHANGED <<pc[u], loc[u]>>
    BY <1>0, ThreadFacts DEF Lasting, ContentInv, Base, CacheInv
  <2>1. pc[u] = "movecopy" => loc[u].blk \in Blocks \ {k}
    BY <1>5, <2>0 DEF ThreadOK, Possession, Moving, LockHolderOK, Vacant
  <2>2. pc[u] \in {"release", "relink", "movecopy"} => loc[u].mine \in Buffers
    BY <2>0 DEF ThreadOK, Possession, Moving
  <2>3. Fresh(loc[u].mine)' <=> Fresh(loc[u].mine)
    BY <1>0 DEF Fresh
  <2>4. \A c \in Buffers : /\ buf'[c].gen = buf[c].gen
                           /\ "read" \in buf'[c].err <=> "read" \in buf[c].err
                           /\ "dirty" \in buf'[c].state => "dirty" \in buf[c].state
                           /\ "writing" \in buf'[c].state => "writing" \in buf[c].state /\ io'[c] = io[c]
    BY <1>1
  <2>5. pc[u] = "movecopy" /\ ~Fresh(loc[u].mine)' => Current(loc[u].blk, buf[loc[u].mine].gen)'
    BY <1>0, <1>3, <2>0, <2>1, <2>2, <2>3, <2>4 DEF Keeping, Current
  <2> QED
    BY <2>0, <2>2, <2>4, <2>5 DEF Keeping
<1>11. Progress
  <2> SUFFICES ASSUME NEW j \in Blocks, NEW g \in Gens, g <= latest[j]
               PROVE  /\ g <= latest'[j]
                      /\ Reached(j, g) => Reached(j, g)'
                      /\ Recorded(j, g) => Recorded(j, g)'
                      /\ Leaving(j, g) => Leaving(j, g)' \/ Reached(j, g)'
    BY DEF Progress
  <2>1. \A c \in Buffers \ {b} : Younger(c, g)' <=> Younger(c, g)
    BY <1>1 DEF Younger
  <2>2. Younger(b, g)'
    BY <1>1 DEF Younger, NoRequest
  <2>3. Ahead(j, g) => Ahead(j, g)'
    BY <1>1, <2>1, <2>2 DEF Ahead
  <2>4. CASE j # k
    <3>1. (Reached(j, g) => Reached(j, g)') /\ (Recorded(j, g) => Recorded(j, g)')
      BY <1>3, <2>3, <2>4 DEF Reached, Recorded
    <3>2. Leaving(j, g) => Leaving(j, g)'
      <4> SUFFICES ASSUME NEW c \in Find(j), "writing" \in buf[c].state, Younger(c, g) PROVE Leaving(j, g)'
        BY DEF Leaving
      <4>1. c \in Buffers \ {b} /\ c \in Find(j)'
        BY <1>0, <1>4, <2>4 DEF Find, Linked
      <4> QED
        BY <1>1, <2>1, <4>1 DEF Leaving
    <3> QED
      BY <1>0, <3>1, <3>2
  <2>5. CASE j = k
    <3>1. Ahead(k, g) => Younger(b, g)
      BY <1>k DEF Ahead
    <3>2. Younger(b, g) => disk'[k] >= g \/ (k \in failed' /\ disk' = disk /\ reported' = reported)
      BY <1>0, <1>3 DEF Younger
    <3>3. Leaving(k, g) => Ahead(k, g)
      <4> SUFFICES ASSUME Younger(b, g), NEW c \in Buffers, io[c].block = k PROVE Younger(c, g)
        BY <1>5 DEF Leaving, Ahead
      <4> QED
        BY <1>6, BufferFacts DEF Younger
    <3> QED
      BY <1>0, <2>3, <2>5, <3>1, <3>2, <3>3 DEF Reached, Recorded
  <2> QED
    BY <2>4, <2>5
<1>12. ~asyncError' => failed' = {}
  BY <1>2 DEF Lasting, FlushInv
<1>13. FlushInv'
  BY <1>0, <1>4, <1>11, <1>12, FlushOther DEF Lasting, FlushInv
<1> QED
  BY <1>7, <1>8, <1>9, <1>10, <1>13 DEF Lasting, ContentInv

-----------------------------------------------------------------------------
(* All the actions.                                                        *)

\* A client that was just created has no content.
LEMMA InitContent == Init => Lasting
<1> SUFFICES ASSUME Init PROVE Lasting
  OBVIOUS
<1>1. /\ \A t \in Threads : pc[t] = "idle" /\ loc[t] = Rest(NoBuffer)
      /\ Rest(NoBuffer).mine \notin Buffers /\ Rest(NoBuffer).call = "none"
  BY BuffersAssumption DEF Init, Rest
<1>2. \A b \in Buffers : buf[b].state = {} /\ buf[b].err = {} /\ io[b] = NoRequest /\ b \notin Linked
  BY DEF Init, Blank, Linked, Lists
<1>3. \A k \in Blocks : disk[k] = latest[k]
  BY DEF Init
<1>4. ContentInv
  BY <1>1, <1>2, <1>3 DEF ContentInv, ContentOf, DeviceInv, Current, CacheCoherent, Handed,
                          Keeping, NoRequest, Getting
<1>5. FlushInv
  BY <1>1 DEF FlushInv, FlushOK, Init
<1> QED
  BY <1>4, <1>5 DEF Lasting

\* The start of a call keeps the layer.
LEMMA StartContent ==
  ASSUME Base, Base', Lasting, NEW t \in Threads, Start(t)
  PROVE  Lasting'
<1>1. \A k \in Blocks, c \in {"read", "new", "get"} : NewRead(t, c, k) => Lasting'
  BY NewReadContent
<1>2. \A k \in Blocks, n \in PrefetchSizes : Prefetch(t, k, n) => Lasting'
  BY PrefetchContent
<1>3. \A k \in Blocks : Forget(t, k) \/ Move(t, k) => Lasting'
  BY ForgetContent, MoveContent
<1>4. \A c \in ApiCalls, n \in ScanSizes : Scan(t, c, n) => Lasting'
  BY ScanContent
<1> QED
  BY <1>1, <1>2, <1>3, <1>4, MarkDirtyContent, WriteAsyncContent, SyncContent, AgeContent, DestroyContent DEF Start

\* So does every further step of it.
LEMMA ContinueContent ==
  ASSUME Base, Base', Lasting, NEW t \in Threads, Continue(t)
  PROVE  Lasting'
BY LookupContent, AllocContent, WakeUpContent, RecheckContent, WatermarkContent,
     LinkNewContent, FlushContent, SubmitReadContent, WaitReadContent, OverwriteContent,
     CleanWriteContent, CleanDoneContent, WriteBackContent, SyncWalkContent, SyncVisitContent,
     SyncParkContent, SyncWakeContent, SyncRelockContent, SyncEndContent, TakeErrorContent,
     IssueFlushContent, MoveFindContent, MoveWriteContent, MoveRelinkContent, MoveCopiedContent,
     ScanVisitContent, AgeVisitContent, DropStartContent, DropContent, UnregisterContent
   DEF Continue

\* The layer is inductive, given those below it before and after the step.
LEMMA StepContent == Base /\ Base' /\ Lasting /\ [Next]_vars => Lasting'
<1> SUFFICES ASSUME Base, Base', Lasting, [Next]_vars PROVE Lasting'
  OBVIOUS
<1>1. CASE UNCHANGED vars
  <2>1. UNCHANGED <<pc, loc, asyncError>> /\ UNCHANGED <<buf, io, deviceVars>>
    BY <1>1 DEF vars, cacheVars, ioVars, deviceVars
  <2> QED
    BY <2>1, CalmSame, CalmNobody
<1> QED
  BY <1>1, StartContent, ContinueContent, ReleaseRefContent, ReadDoneContent, WriteDoneContent DEF Next

-----------------------------------------------------------------------------
(* The age worker.                                                         *)

\* A thread without the lock, while another has it, changes no place ...
LEMMA StartLockedOut ==
  ASSUME ThreadsInv, CacheInv, NEW t \in Threads, lock \notin {t, Nobody}, Start(t)
  PROVE  UNCHANGED Linked
<1>1. \A k \in Blocks : ~Forget(t, k) /\ ~Move(t, k)
  BY DEF Forget, Move
<1>2. \A k \in Blocks, c \in {"read", "new", "get"} : ~NewRead(t, c, k)
  BY DEF NewRead
<1>3. \A k \in Blocks, n \in PrefetchSizes : ~Prefetch(t, k, n)
  BY DEF Prefetch
<1>4. \A c \in ApiCalls, n \in ScanSizes : ~Scan(t, c, n)
  BY DEF Scan
<1>5. ~MarkDirty(t) /\ ~WriteAsync(t) /\ ~Sync(t) /\ ~Age(t) /\ ~Destroy(t)
  BY DEF MarkDirty, MakeDirty, WriteAsync, Sync, Age, Destroy
<1> QED
  BY <1>1, <1>2, <1>3, <1>4, <1>5 DEF Start

\* ... whatever step of its call it is at.
LEMMA ContinueLockedOut ==
  ASSUME ThreadsInv, CacheInv, NEW t \in Threads, lock \notin {t, Nobody}, Continue(t),
         \E u \in Threads \ {t} : pc[u] # "idle"
  PROVE  UNCHANGED Linked
<1>0. pc[t] \notin Locked
  BY ThreadFacts
<1>1. UNCHANGED buf => UNCHANGED Linked
  BY DEF Linked
<1>2. ~Lookup(t) /\ ~Alloc(t) /\ ~WakeUp(t) /\ ~Recheck(t) /\ ~Watermark(t) /\ ~LinkNew(t)
  BY <1>0 DEF Lookup, Alloc, WakeUp, Recheck, Watermark, LinkNew
<1>3. Flush(t) \/ SubmitRead(t) \/ WaitRead(t) \/ SyncWake(t) \/ TakeError(t) \/ IssueFlush(t)
      => UNCHANGED buf
  BY DEF Flush, SubmitRead, WaitRead, SyncWake, TakeError, IssueFlush, cacheVars
<1>4. ~Overwrite(t) /\ ~CleanWrite(t) /\ ~CleanDone(t) /\ ~WriteBack(t) /\ ~SyncWalk(t)
  BY <1>0 DEF Overwrite, MakeDirty, CleanWrite, CleanDone, WriteBack, SyncWalk
<1>5. ~SyncVisit(t) /\ ~SyncPark(t) /\ ~SyncRelock(t) /\ ~SyncEnd(t)
  BY <1>0 DEF SyncVisit, SyncPark, SyncRelock, SyncEnd
<1>6. ~MoveFind(t) /\ ~MoveWrite(t) /\ ~MoveRelink(t) /\ ~MoveCopied(t)
  BY <1>0 DEF MoveFind, MoveWrite, MoveRelink, MoveCopied
<1>7. ~ScanVisit(t) /\ ~AgeVisit(t) /\ ~DropStart(t) /\ ~Drop(t) /\ ~Unregister(t)
  BY <1>0 DEF ScanVisit, AgeVisit, DropStart, Drop, Unregister
<1> QED
  BY <1>1, <1>2, <1>3, <1>4, <1>5, <1>6, <1>7 DEF Continue

\* A thread comes to the loop of the age worker by calling it ...
LEMMA StartsAgeing ==
  ASSUME ThreadsInv, NEW t \in Threads, Start(t), pc'[t] = "age"
  PROVE  UNCHANGED Linked
<1>1. \A l, s : Go(t, l, s) => l = "age"
  BY GoFacts
<1>2. \A m : ~Return(t, m)
  BY <1>1 DEF Return
<1>3. \A k \in Blocks : ~Forget(t, k) /\ ~Move(t, k)
  BY <1>1 DEF Forget, Move, Call
<1>4. \A r : ~BufioNew(t, r)
  BY <1>1, <1>2 DEF BufioNew, GiveUp
<1>5. /\ \A k \in Blocks, c \in {"read", "new", "get"} : ~NewRead(t, c, k)
      /\ \A k \in Blocks, n \in PrefetchSizes : ~Prefetch(t, k, n)
  BY <1>4 DEF NewRead, Prefetch
<1>6. /\ \A c \in ApiCalls, n \in ScanSizes : ~Scan(t, c, n)
      /\ ~MarkDirty(t) /\ ~WriteAsync(t) /\ ~Sync(t) /\ ~Destroy(t)
  BY <1>1, <1>2 DEF Scan, MarkDirty, MakeDirty, WriteAsync, Sync, Destroy, StartWriteBack
<1>7. Age(t) => UNCHANGED Linked
  BY DEF Age, cacheVars, Linked
<1> QED
  BY <1>3, <1>5, <1>6, <1>7 DEF Start

\* ... and stays in it.
LEMMA StaysAgeing ==
  ASSUME ThreadsInv, NEW t \in Threads, Continue(t), pc'[t] = "age"
  PROVE  AgeVisit(t)
<1>1. \A l, s : Go(t, l, s) => l = "age"
  BY GoFacts
<1>2. \A m : ~Return(t, m)
  BY <1>1 DEF Return
<1>3. \A r : ~BufioNew(t, r) /\ ~GiveUp(t, r)
  BY <1>1, <1>2 DEF BufioNew, GiveUp
<1>4. ThreadOK(pc[t], loc[t])
  BY ThreadFacts
<1>5. ~Lookup(t) /\ ~Alloc(t) /\ ~WakeUp(t)
  BY <1>1, <1>3, <1>4 DEF Lookup, Alloc, WakeUp, ThreadOK, Continuation
<1>6. ~Recheck(t) /\ ~Watermark(t) /\ ~LinkNew(t)
  BY <1>1 DEF Recheck, Watermark, LinkNew
<1>7. ~Flush(t) /\ ~SubmitRead(t) /\ ~WaitRead(t) /\ ~Overwrite(t)
  BY <1>1, <1>2, <1>4 DEF Flush, SubmitRead, WaitRead, Overwrite, MakeDirty, ThreadOK, Continuation, Getting
<1>8. ~CleanWrite(t) /\ ~CleanDone(t)
  BY <1>1, <1>2 DEF CleanWrite, CleanDone, Scanned
<1>9. ~WriteBack(t) /\ ~SyncWalk(t) /\ ~SyncVisit(t) /\ ~SyncPark(t)
  BY <1>1 DEF WriteBack, SyncWalk, SyncVisit, SyncPark
<1>10. ~SyncWake(t) /\ ~SyncRelock(t) /\ ~SyncEnd(t) /\ ~TakeError(t) /\ ~IssueFlush(t)
  BY <1>1 DEF SyncWake, SyncRelock, SyncEnd, TakeError, IssueFlush
<1>11. ~MoveFind(t) /\ ~MoveWrite(t) /\ ~MoveRelink(t) /\ ~MoveCopied(t)
  BY <1>1 DEF MoveFind, MoveWrite, MoveRelink, MoveCopied
<1>12. ~ScanVisit(t) /\ ~DropStart(t) /\ ~Drop(t) /\ ~Unregister(t)
  BY <1>1, <1>2 DEF ScanVisit, DropStart, Drop, Unregister
<1> QED
  BY <1>5, <1>6, <1>7, <1>8, <1>9, <1>10, <1>11, <1>12 DEF Continue

\* The age worker evicts above the retain target only, and counts right.
LEMMA AgeEvicts ==
  ASSUME CoreInv, AgeInv, NEW t \in Threads, AgeVisit(t), Cardinality(Linked') < Cardinality(Linked)
  PROVE  Cardinality(Linked') >= RetainTarget
<1>1. UNCHANGED cacheVars => UNCHANGED Linked
  BY DEF cacheVars, Linked
<1>2. PICK b \in Oldest(loc[t].walk) : AboveTarget(loc[t].count) /\ FreeBufferWake(b)
  <2>1. ~UNCHANGED cacheVars
    BY <1>1, LinkedCount
  <2> QED
    BY <2>1 DEF AgeVisit
<1>3. b \in Linked /\ b \in Buffers /\ loc[t].count = Cardinality(Linked)
  BY DEF AgeVisit, AgeInv, CoreInv, CacheInv, LockHolderOK, Walking, Oldest, Linked
<1>4. Linked' = Linked \ {b}
  BY <1>2, <1>3, FreeFacts DEF CoreInv
<1>5. Cardinality(Linked') = Cardinality(Linked) - 1
  BY <1>3, <1>4, LinkedCount, FS_RemoveElement
<1> QED
  BY <1>2, <1>3, <1>5, LinkedCount, LimitsAssumption DEF AboveTarget

\* The device moves no buffer.
LEMMA DeviceKeepsLinked ==
  ASSUME CoreInv, NEW b \in Buffers, ReadDone(b) \/ WriteDone(b)
  PROVE  UNCHANGED Linked
<1>1. buf \in [Buffers -> Buffer]
  BY DEF CoreInv, CacheInv, IndexInv
<1>2. \A c \in Buffers : buf'[c].where = buf[c].where
  BY <1>1 DEF ReadDone, WriteDone, Buffer
<1> QED
  BY <1>2 DEF Linked

\* No step takes a buffer from below the retain target while t ages.
LEMMA AgeStep ==
  ASSUME CoreInv, LifeInv, AgeInv, [Next]_vars, NEW t \in Threads, pc'[t] = "age",
         loc[t].call = "age", Cardinality(Linked') < Cardinality(Linked)
  PROVE  Cardinality(Linked') >= RetainTarget
<1>0. ThreadsInv /\ CacheInv
  BY DEF CoreInv
<1>1. ~UNCHANGED Linked
  BY LinkedCount
<1>2. CASE UNCHANGED vars
  BY <1>1, <1>2 DEF vars, cacheVars, Linked
<1>3. ASSUME NEW u \in Threads, Start(u) \/ Continue(u) \/ ReleaseRef(u)
      PROVE  Cardinality(Linked') >= RetainTarget
  <2>1. CASE u = t
    <3>1. ~Start(t)
      BY <1>0, <1>1, StartsAgeing
    <3>2. ~ReleaseRef(t)
      BY <1>0, GoFacts DEF ReleaseRef, Return
    <3> QED
      BY <1>0, <1>3, <2>1, <3>1, <3>2, StaysAgeing, AgeEvicts
  <2>2. CASE u # t
    <3>1. pc[t] \in {"scan", "age", "clean"}
      BY DEF LifeInv, CallOK, Workers
    <3>2. lock = t
      BY <1>0, <3>1, ThreadFacts
    <3>3. lock \notin {u, Nobody}
      BY <2>2, <3>2, ThreadsAssumption
    <3>4. ~Start(u) /\ ~Continue(u)
      BY <1>0, <1>1, <2>2, <3>1, <3>3, StartLockedOut, ContinueLockedOut
    <3> QED
      BY <1>3, <3>3, <3>4 DEF ReleaseRef
  <2> QED
    BY <2>1, <2>2
<1> QED
  BY <1>1, <1>2, <1>3, DeviceKeepsLinked DEF Next

-----------------------------------------------------------------------------
(* Flushes.                                                                *)

Unmoved(t) == pc'[t] = pc[t] /\ loc'[t] = loc[t]

\* No step of a thread moves another one: what it wakes goes on by itself.
LEMMA OthersStay ==
  ASSUME ThreadsInv, NEW u \in Threads, NEW t \in Threads, u # t,
         Start(u) \/ Continue(u) \/ ReleaseRef(u)
  PROVE  Unmoved(t)
<1>1. \A l, s : Go(u, l, s) => Unmoved(t)
  BY GoFacts DEF Unmoved
<1>2. \A m : Return(u, m) => Unmoved(t)
  BY <1>1 DEF Return
<1>3. \A r : BufioNew(u, r) \/ GiveUp(u, r) => Unmoved(t)
  BY <1>1, <1>2 DEF BufioNew, GiveUp
<1>4. Start(u) => Unmoved(t)
  BY <1>1, <1>2, <1>3 DEF Start, NewRead, Prefetch, Forget, Move, MarkDirty, MakeDirty, WriteAsync,
                          StartWriteBack, Sync, Age, Destroy, Scan, Unmoved
<1>5. ReleaseRef(u) => Unmoved(t)
  BY <1>1, <1>2 DEF ReleaseRef
<1>6. Lookup(u) \/ Alloc(u) \/ WakeUp(u) \/ Recheck(u) \/ Watermark(u) \/ LinkNew(u) => Unmoved(t)
  BY <1>1, <1>3 DEF Lookup, Alloc, WakeUp, Recheck, Watermark, LinkNew
<1>7. Flush(u) \/ SubmitRead(u) \/ WaitRead(u) \/ Overwrite(u) => Unmoved(t)
  BY <1>1, <1>2 DEF Flush, SubmitRead, WaitRead, Overwrite, MakeDirty
<1>8. CleanWrite(u) \/ CleanDone(u) => Unmoved(t)
  BY <1>1, <1>2 DEF CleanWrite, CleanDone, Scanned, Unmoved
<1>9. WriteBack(u) \/ SyncWalk(u) \/ SyncVisit(u) \/ SyncPark(u) \/ SyncWake(u) => Unmoved(t)
  BY <1>1 DEF WriteBack, SyncWalk, SyncVisit, SyncPark, SyncWake
<1>10. SyncRelock(u) \/ SyncEnd(u) \/ TakeError(u) \/ IssueFlush(u) => Unmoved(t)
  BY <1>1 DEF SyncRelock, SyncEnd, TakeError, IssueFlush
<1>11. MoveFind(u) \/ MoveWrite(u) \/ MoveRelink(u) \/ MoveCopied(u) => Unmoved(t)
  BY <1>1 DEF MoveFind, MoveWrite, MoveRelink, MoveCopied
<1>12. ScanVisit(u) \/ AgeVisit(u) \/ DropStart(u) \/ Drop(u) \/ Unregister(u) => Unmoved(t)
  BY <1>1, <1>2 DEF ScanVisit, AgeVisit, DropStart, Drop, Unregister
<1> QED
  BY <1>4, <1>5, <1>6, <1>7, <1>8, <1>9, <1>10, <1>11, <1>12 DEF Continue

\* Only dm_bufio_write_dirty_buffers comes to its second half.
LEMMA SyncingOwn ==
  ASSUME ThreadsInv, Syncing, NEW t \in Threads, Start(t) \/ Continue(t) \/ ReleaseRef(t),
         pc'[t] \in SyncSteps
  PROVE  loc'[t].call = "sync"
<1>0. \A l, s : Go(t, l, s) => loc'[t] = s
  BY GoFacts
<1>1. \A l, s : Go(t, l, s) =>
        l = "sync" \/ l = "park" \/ l = "syncwait" \/ l = "syncrelock" \/ l = "xchg" \/ l = "issueflush"
  BY GoFacts DEF SyncSteps
<1>2. \A m : ~Return(t, m)
  BY <1>1 DEF Return, SyncSteps
<1>3. \A r : ~BufioNew(t, r) /\ ~GiveUp(t, r)
  BY <1>1, <1>2 DEF BufioNew, GiveUp
<1>4. ThreadOK(pc[t], loc[t]) /\ loc[t] \in Locals
  BY ThreadFacts
<1>5. ~Start(t)
  <2>1. \A k \in Blocks, c \in {"read", "new", "get"} : ~NewRead(t, c, k)
    BY <1>3 DEF NewRead
  <2>2. \A k \in Blocks, n \in PrefetchSizes : ~Prefetch(t, k, n)
    BY <1>3 DEF Prefetch
  <2>3. \A k \in Blocks : ~Forget(t, k) /\ ~Move(t, k)
    BY <1>1 DEF Forget, Call, Move, SyncSteps
  <2>4. \A c \in ApiCalls, n \in ScanSizes : ~Scan(t, c, n)
    BY <1>1 DEF Scan, SyncSteps
  <2>5. ~MarkDirty(t) /\ ~WriteAsync(t) /\ ~Sync(t) /\ ~Age(t) /\ ~Destroy(t)
    BY <1>1, <1>2 DEF MarkDirty, MakeDirty, WriteAsync, StartWriteBack, Sync, Age, Destroy, SyncSteps
  <2> QED
    BY <2>1, <2>2, <2>3, <2>4, <2>5 DEF Start
<1>6. ~ReleaseRef(t)
  BY <1>1, <1>2 DEF ReleaseRef, SyncSteps
<1>7. /\ ~Lookup(t) /\ ~Alloc(t) /\ ~WakeUp(t) /\ ~Recheck(t) /\ ~Watermark(t) /\ ~LinkNew(t)
      /\ ~SubmitRead(t) /\ ~WaitRead(t) /\ ~Overwrite(t)
  <2>1. ~Lookup(t) /\ ~Alloc(t) /\ ~WakeUp(t)
    BY <1>1, <1>3, <1>4 DEF Lookup, Alloc, WakeUp, ThreadOK, Continuation
  <2>2. ~Recheck(t) /\ ~Watermark(t) /\ ~LinkNew(t)
    BY <1>1 DEF Recheck, Watermark, LinkNew
  <2>3. ~SubmitRead(t) /\ ~WaitRead(t) /\ ~Overwrite(t)
    BY <1>1, <1>2 DEF SubmitRead, WaitRead, Overwrite, MakeDirty
  <2> QED
    BY <2>1, <2>2, <2>3
<1>8. ~Flush(t) /\ ~CleanDone(t) /\ ~WriteBack(t)
  BY <1>1, <1>2, <1>4 DEF Flush, CleanDone, Scanned, WriteBack, SyncSteps, ThreadOK, Continuation, Getting
<1>9. ~CleanWrite(t)
  BY <1>1 DEF CleanWrite, SyncSteps
<1>10. SyncWalk(t) => loc'[t].call = "sync"
  BY <1>0, <1>4 DEF SyncWalk, Locals
<1>11. /\ ~MoveFind(t) /\ ~MoveWrite(t) /\ ~MoveRelink(t) /\ ~MoveCopied(t)
       /\ ~ScanVisit(t) /\ ~AgeVisit(t) /\ ~DropStart(t) /\ ~Drop(t) /\ ~Unregister(t)
  <2>1. ~MoveFind(t) /\ ~MoveWrite(t) /\ ~MoveRelink(t) /\ ~MoveCopied(t)
    BY <1>1 DEF MoveFind, MoveWrite, MoveRelink, MoveCopied
  <2>2. ~ScanVisit(t) /\ ~AgeVisit(t)
    BY <1>1, <1>2 DEF ScanVisit, AgeVisit
  <2>3. ~DropStart(t) /\ ~Drop(t) /\ ~Unregister(t)
    BY <1>1 DEF DropStart, Drop, Unregister
  <2> QED
    BY <2>1, <2>2, <2>3
<1>12. ~IssueFlush(t)
  BY <1>1 DEF IssueFlush, SyncSteps
<1>13. SyncVisit(t) \/ SyncPark(t) \/ SyncWake(t) \/ SyncRelock(t) \/ SyncEnd(t) \/ TakeError(t)
       => loc'[t].call = loc[t].call /\ pc[t] \in SyncSteps
  BY <1>0, <1>4 DEF SyncVisit, SyncPark, SyncWake, SyncRelock, SyncEnd, TakeError, SyncSteps, Locals
<1> QED
  BY <1>5, <1>6, <1>7, <1>8, <1>9, <1>10, <1>11, <1>12, <1>13 DEF Continue, Syncing

\* That holds in every step.
LEMMA StepSyncing == ThreadsInv /\ Syncing /\ [Next]_vars => Syncing'
<1> SUFFICES ASSUME ThreadsInv, Syncing, [Next]_vars, NEW t \in Threads, pc'[t] \in SyncSteps
             PROVE  loc'[t].call = "sync"
  BY DEF Syncing
<1>1. ASSUME Unmoved(t) PROVE loc'[t].call = "sync"
  BY <1>1 DEF Unmoved, Syncing
<1>2. UNCHANGED vars \/ (\E b \in Buffers : ReadDone(b) \/ WriteDone(b)) => Unmoved(t)
  BY DEF vars, ReadDone, WriteDone, Unmoved
<1>3. ASSUME NEW u \in Threads, Start(u) \/ Continue(u) \/ ReleaseRef(u) PROVE loc'[t].call = "sync"
  BY <1>1, <1>3, OthersStay, SyncingOwn
<1> QED
  BY <1>1, <1>2, <1>3 DEF Next

\* dm_bufio_write_dirty_buffers returns from dm_bufio_issue_flush only.
LEMMA ReturnsFromFlush ==
  ASSUME ThreadsInv, [Next]_vars, NEW t \in Threads, pc[t] = "issueflush", pc'[t] = "idle"
  PROVE  IssueFlush(t)
<1>1. ~UNCHANGED pc
  OBVIOUS
<1>2. ~UNCHANGED vars /\ \A b \in Buffers : ~ReadDone(b) /\ ~WriteDone(b)
  BY <1>1 DEF vars, ReadDone, WriteDone
<1>3. \A u \in Threads \ {t} : ~(Start(u) \/ Continue(u) \/ ReleaseRef(u))
  BY OthersStay DEF Unmoved
<1>4. ~Start(t) /\ ~ReleaseRef(t)
  BY <1>1 DEF Start, NewRead, Prefetch, Forget, Move, MarkDirty, WriteAsync, Sync, Age, Destroy,
              Scan, Call, ReleaseRef
<1>5. Continue(t)
  BY <1>2, <1>3, <1>4 DEF Next
<1>6. ~Lookup(t) /\ ~Alloc(t) /\ ~WakeUp(t) /\ ~Recheck(t) /\ ~Watermark(t) /\ ~LinkNew(t)
  BY DEF Lookup, Alloc, WakeUp, Recheck, Watermark, LinkNew
<1>7. /\ ~Flush(t) /\ ~SubmitRead(t) /\ ~WaitRead(t) /\ ~Overwrite(t) /\ ~CleanWrite(t)
      /\ ~CleanDone(t) /\ ~WriteBack(t) /\ ~SyncWalk(t) /\ ~SyncVisit(t) /\ ~SyncPark(t)
  BY DEF Flush, SubmitRead, WaitRead, Overwrite, CleanWrite, CleanDone, WriteBack, SyncWalk,
         SyncVisit, SyncPark
<1>8. ~SyncWake(t) /\ ~SyncRelock(t) /\ ~SyncEnd(t) /\ ~TakeError(t)
  BY DEF SyncWake, SyncRelock, SyncEnd, TakeError
<1>9. /\ ~MoveFind(t) /\ ~MoveWrite(t) /\ ~MoveRelink(t) /\ ~MoveCopied(t)
      /\ ~ScanVisit(t) /\ ~AgeVisit(t) /\ ~DropStart(t) /\ ~Drop(t) /\ ~Unregister(t)
  BY DEF MoveFind, MoveWrite, MoveRelink, MoveCopied, ScanVisit, AgeVisit, DropStart, Drop, Unregister
<1> QED
  BY <1>5, <1>6, <1>7, <1>8, <1>9 DEF Continue

\* When it returns 0, what its caller wanted to be durable is, or has a write error
\* that was reported.
LEMMA ReturnedDurable ==
  ASSUME ThreadsInv, FlushInv, Syncing, [Next]_vars, NEW t \in Threads, SyncReturns0(t), NEW k \in Blocks
  PROVE  durable'[k] >= loc[t].snap[k] \/ k \in reported
<1>1. IssueFlush(t)
  BY ReturnsFromFlush DEF SyncReturns0
<1>2. loc[t] \in Locals /\ ThreadOK(pc[t], loc[t])
  BY ThreadFacts
<1>3. durable' = disk /\ ~loc[t].res
  <2>1. \A l, s : Go(t, l, s) => loc'[t] = s
    BY GoFacts
  <2>2. [Rest(loc[t].mine) EXCEPT !.res = TRUE].res /\ [Rest(loc[t].mine) EXCEPT !.res = loc[t].res].res = loc[t].res
    BY DEF Rest
  <2> QED
    BY <1>1, <2>1, <2>2 DEF IssueFlush, SyncReturns0
<1>4. loc[t].call = "sync" => Recorded(k, loc[t].snap[k])
  BY <1>1, <1>3 DEF FlushInv, FlushOK, IssueFlush
<1>5. loc[t].call = "sync"
  BY <1>1 DEF Syncing, SyncSteps, IssueFlush
<1> QED
  BY <1>3, <1>4, <1>5 DEF Recorded

-----------------------------------------------------------------------------
(* The theorems.                                                           *)

\* The inductive invariant holds in every reachable state: the locals of a
\* thread, the index, the reference counts, the state bits, the requests, the
\* reserve and the sleepers fit together at every point where a thread may
\* sleep or lose the lock.
THEOREM Invariant == Spec => []IInv
<1>1. Init => IInv
  BY InitCore, InitBits, InitRest, InitContent DEF IInv, RestInv, Lasting, Init, Syncing, SyncSteps
<1>2. IInv /\ [Next]_vars => IInv'
  <2> SUFFICES ASSUME IInv, [Next]_vars PROVE IInv'
    OBVIOUS
  <2>1. CoreInv' /\ BitsInv' /\ RestInv'
    BY StepCore, StepBits, StepRest DEF IInv, RestInv
  <2>2. Lasting'
    BY <2>1, StepContent DEF IInv, Base, CoreInv, Lasting
  <2>3. Syncing'
    BY StepSyncing DEF IInv, CoreInv
  <2> QED
    BY <2>1, <2>2, <2>3 DEF IInv, RestInv, Lasting
<1> QED
  BY <1>1, <1>2, PTL DEF Spec

\* No hold count goes below zero, no buffer gets a place or a bit it may not have.
THEOREM TypeCorrect == Spec => []TypeOK
<1>1. IInv => TypeOK
  BY DEF IInv, CoreInv, ThreadsInv, ThreadsType, CacheInv, DataType, IndexInv, TypeOK
<1> QED
  BY <1>1, Invariant, PTL

\* c->lock: at most one thread is between a lock and the unlock after it.
THEOREM MutualExclusion == Spec => []LockOwner
<1>1. IInv => LockOwner
  BY DEF IInv, CoreInv, ThreadsInv
<1> QED
  BY <1>1, Invariant, PTL

\* Although __bufio_new allocates between two lookups and the lock may be lost
\* there, and although dm_bufio_release_move takes buffers to other blocks, no
\* block ever has two buffers.
THEOREM OneBuffer == Spec => []OneBufferPerBlock
<1>1. IInv => OneBufferPerBlock
  BY DEF IInv, CoreInv, CacheInv, IndexInv
<1> QED
  BY <1>1, Invariant, PTL

\* hold_count is the number of references, those of a flush that waits without
\* the lock included: a buffer with hold_count 0 is nobody's.
THEOREM References == Spec => []HoldsAccounted
<1>1. IInv => HoldsAccounted
  BY DEF IInv, CoreInv, CacheInv
<1> QED
  BY <1>1, Invariant, PTL

\* The lists of the head comment of dm-bufio.c: what is dirty or written is on the
\* dirty list, although the writes are started and end without the lock.
THEOREM ListsAgree == Spec => []ListsMatchBits
<1>1. IInv => ListsMatchBits
  BY DEF IInv, BitsInv, BitsOfList, ListsMatchBits, Linked, Lists
<1> QED
  BY <1>1, Invariant, PTL

\* Nobody waits for a bit that will not be cleared: its request is in flight or a
\* thread that needs no lock for it will submit it; read_endio and write_endio
\* find the bit they clear.
THEOREM BitsAreOwned == Spec => []ActivityHasOwner
<1>1. IInv => ActivityHasOwner
  <2> SUFFICES ASSUME IInv, NEW b \in Buffers
               PROVE  /\ "reading" \in buf[b].state =>
                           \/ io[b].rw = "read"
                           \/ \E t \in Threads : /\ loc[t].mine = b
                                               /\ \/ At(t, "submit")
                                                  \/ At(t, "flush") /\ loc[t].then = "submit"
                      /\ "writing" \in buf[b].state =>
                           \/ io[b].rw = "write"
                           \/ \E t \in Threads : b \in loc[t].wl /\ pc[t] \in {"wb", "link", "flush"}
                      /\ io[b].rw = "read" => "reading" \in buf[b].state
                      /\ io[b].rw = "write" => "writing" \in buf[b].state
    BY DEF ActivityHasOwner
  <2>1. Promised(b) /\ RequestOfBits(b) /\ \A t \in Threads : Promises(pc[t], loc[t])
    BY DEF IInv, BitsInv
  <2> QED
    BY <2>1 DEF Promised, RequestOfBits, Promises, Submitting
<1> QED
  BY <1>1, Invariant, PTL

\* Two requests in flight are for different blocks, so that the order in which the
\* device takes them does not matter; the buffers a move lends included.
THEOREM OneRequest == Spec => []InflightExclusive
<1>1. IInv => InflightExclusive
  <2> SUFFICES ASSUME IInv, NEW b \in Buffers, NEW c \in Buffers,
                      b # c, io[b] # NoRequest, io[c] # NoRequest
               PROVE  io[b].block # io[c].block
    BY DEF InflightExclusive
  <2>1. ASSUME NEW d \in {b, c} PROVE d \in Linked /\ io[d].block = buf[d].block
    <3>1. BitsOfList(d) /\ RequestOfBits(d) /\ io[d] \in Request
      BY DEF IInv, BitsInv, CoreInv, CacheInv, DataType
    <3> QED
      BY <3>1 DEF BitsOfList, RequestOfBits, Request
  <2> QED
    BY <2>1 DEF IInv, CoreInv, CacheInv, IndexInv, OneBufferPerBlock
<1> QED
  BY <1>1, Invariant, PTL

\* A buffer that was evicted, freed or put back into the reserve is quiet: it can be
\* used for another block at once.
THEOREM FreeIsQuiet == Spec => []QuietWhenUnlinked
<1>1. IInv => QuietWhenUnlinked
  <2> SUFFICES ASSUME IInv, NEW b \in Buffers \ Linked
               PROVE  /\ buf[b].state = {} /\ io[b] = NoRequest /\ Clients(b) \cup Flushers(b) = {}
                      /\ \A t \in Threads : b \notin loc[t].wl
    BY DEF QuietWhenUnlinked
  <2>1. BitsOfList(b) /\ RequestOfBits(b) /\ \A t \in Threads : Promises(pc[t], loc[t])
    BY DEF IInv, BitsInv
  <2>2. buf[b].hold = 0 /\ io[b] \in Request /\ buf[b].hold = Cardinality(Clients(b)) + Cardinality(Flushers(b))
    BY DEF IInv, CoreInv, CacheInv, IndexInv, UnlinkedUnheld, DataType, HoldsAccounted
  <2>3. buf[b].state = {} /\ io[b] = NoRequest
    BY <2>1, <2>2 DEF BitsOfList, RequestOfBits, Request
  <2>4. Clients(b) = {} /\ Flushers(b) = {}
    BY <2>2, RefsFinite, FS_EmptySet
  <2> QED
    BY <2>1, <2>3, <2>4 DEF Promises
<1> QED
  BY <1>1, Invariant, PTL

\* The reserve is whole but for the buffers lent from it, and when the client is gone
\* nothing is owed and everything is freed: the BUG_ONs of
\* dm_bufio_client_destroy do not fire.
THEOREM ReservePaidBack == Spec => []ReserveAccounted
<1>1. IInv => ReserveAccounted
  BY DEF IInv, ReserveInv
<1> QED
  BY <1>1, Invariant, PTL

\* No wake-up of free_buffer_wait is lost: who sleeps there still has something to
\* wait for, or somebody is on the way to wake it.
THEOREM SleepersWoken == Spec => []NoLostWakeup
<1>1. IInv => NoLostWakeup
  BY DEF IInv, WakeInv
<1> QED
  BY <1>1, Invariant, PTL

\* The age worker evicts nothing once the cache is down to the retain target: its
\* count of the buffers stays right, as it keeps the lock all the time.
THEOREM AgeingStops == Spec => AgeRetains
<1>1. IInv /\ [Next]_vars =>
        [\A t \in Threads : loc[t].call = "age" /\ Cardinality(Linked') < Cardinality(Linked)
                             /\ pc'[t] = "age" => Cardinality(Linked') >= RetainTarget]_vars
  BY AgeStep DEF IInv
<1> QED
  BY <1>1, Invariant, PTL DEF Spec, AgeRetains

\* Whatever was evicted, moved, written and read again since: a buffer that is read
\* and in nobody's hands but a reader's has the last content of its block, unless a
\* write error took it.
THEOREM Coherence == Spec => []CacheCoherent
<1>1. IInv => CacheCoherent
  BY DEF IInv, ContentInv
<1> QED
  BY <1>1, Invariant, PTL

\* When the client is gone all content is in the device: drop_buffers writes what the
\* last write-back missed, and no buffer is left behind.
THEOREM NothingLost == Spec => []DestroyLosesNothing
<1>1. IInv => DestroyLosesNothing
  <2> SUFFICES ASSUME IInv, status = "closed", NEW k \in Blocks
               PROVE  disk[k] = latest[k] \/ k \in failed \cup reported
    BY DEF DestroyLosesNothing
  <2>1. List("free") = Buffers
    BY DEF IInv, ReserveInv, ReserveAccounted
  <2>2. Find(k) = {}
    BY <2>1 DEF Find, Linked, List, Lists
  <2>3. Current(k, disk[k])
    BY <2>2 DEF IInv, ContentInv, DeviceInv, Settled
  <2> QED
    BY <2>3 DEF Current
<1> QED
  BY <1>1, Invariant, PTL

\* dm_bufio_write_dirty_buffers tells the truth: if it returns 0, all that was dirty
\* when it was called is durable, or the error of its write went to another caller.
THEOREM FlushKeepsItsWord == Spec => SyncTruthful
<1>1. IInv /\ [Next]_vars =>
        [\A t \in Threads : SyncReturns0(t) =>
           \A k \in Blocks : durable'[k] >= loc[t].snap[k] \/ k \in reported]_vars
  BY ReturnedDurable DEF IInv, CoreInv
<1> QED
  BY <1>1, Invariant, PTL DEF Spec, SyncTruthful

-----------------------------------------------------------------------------
(* The calls: which one a thread can be in at a control point.             *)

\* What is known of a thread before its step.
Known(t) == /\ ThreadOK(pc[t], loc[t]) /\ loc[t] \in Locals /\ PointsOf(pc[t], loc[t])
            /\ CallOK(pc[t], loc[t]) /\ (pc[t] \in SyncSteps => loc[t].call = "sync")

\* A thread that is through with a call is in none.
LEMMA RestPoints ==
  ASSUME NEW m
  PROVE  PointsOf("idle", Rest(m)) /\ PointsOf("destroyed", Rest(m))
BY DEF PointsOf, Rest, Moving, SyncSteps, Workers, Getting

\* What a call was made with, and its result so far.
SameCall(s, r) == /\ s.call = r.call /\ s.blk = r.blk /\ s.snap = r.snap /\ s.res = r.res
                  /\ s.mine = r.mine

\* A thread goes on with its call.
Plain(t) == /\ SameCall(loc'[t], loc[t]) /\ PointsOf(pc'[t], loc'[t])
            /\ Asks(pc'[t], loc'[t]) <=> Asks(pc[t], loc[t])
            /\ pc[t] # "movecopy" /\ pc'[t] # "movecopy"

\* It returns from a call the cache has nothing to do with.
Back(t) == /\ pc'[t] = "idle" /\ loc'[t] = Rest(loc[t].mine) /\ pc[t] # "movecopy"
           /\ loc[t].call \notin Getting \cup {"move", "sync"}

\* A step of __bufio_new goes on with the call, and so does one ...
LEMMA GettingPlain ==
  ASSUME ThreadsInv, NEW t \in Threads, Known(t),
         Recheck(t) \/ Watermark(t) \/ WakeUp(t) \/ SubmitRead(t)
  PROVE  Plain(t)
<1>1. ThreadOK(pc[t], loc[t]) /\ loc[t] \in Locals /\ PointsOf(pc[t], loc[t]) /\ CallOK(pc[t], loc[t])
      /\ (pc[t] \in SyncSteps => loc[t].call = "sync")
  BY DEF Known
<1>2. ASSUME Recheck(t) PROVE Plain(t)
  <2>1. /\ SameCall(loc'[t], loc[t]) /\ loc'[t].left = loc[t].left
                  /\ pc'[t] \in {"lookup", "watermark"}
    BY <1>1, <1>2 DEF Recheck, SameCall, Locals, Go, ThreadsInv, ThreadsType
  <2>2. loc[t].call \in Getting /\ loc[t].call # "get"
    BY <1>1, <1>2 DEF Recheck, ThreadOK, Possession, Continuation, PointsOf, CallOK, Getting,
           Moving, SyncSteps
  <2> QED
    BY <1>1, <1>2, <2>1, <2>2 DEF Recheck, Plain, SameCall, Asks, PointsOf, Moving, Getting,
           Workers, SyncSteps
<1>3. ASSUME Watermark(t) PROVE Plain(t)
  <2> DEFINE P == /\ SameCall(loc'[t], loc[t]) /\ loc'[t].left = loc[t].left
                  /\ \/ pc'[t] = "link" \/ (pc'[t] = "clean" /\ loc'[t].then = "watermark")
                     \/ (pc'[t] = "wb" /\ loc'[t].then = "link")
  <2>1. \A x : Go(t, "clean", [loc[t] EXCEPT !.cur = x, !.then = "watermark"]) => P
    BY <1>1 DEF SameCall, Locals, Go, ThreadsInv, ThreadsType
  <2>2. \A x : Go(t, "wb", [loc[t] EXCEPT !.walk = x, !.then = "link"]) => P
    BY <1>1 DEF SameCall, Locals, Go, ThreadsInv, ThreadsType
  <2>3. Go(t, "link", loc[t]) => P
    BY <1>1 DEF SameCall, Locals, Go, ThreadsInv, ThreadsType
  <2>4. P
    BY <1>3, <2>1, <2>2, <2>3 DEF Watermark
  <2>5. loc[t].call \in Getting /\ loc[t].call # "get"
    BY <1>1, <1>3 DEF Watermark, ThreadOK, Possession, Continuation, PointsOf, CallOK, Getting,
           Moving, SyncSteps
  <2> QED
    BY <1>1, <1>3, <2>4, <2>5 DEF Watermark, Plain, SameCall, Asks, PointsOf, Moving, Getting,
           Workers, SyncSteps
<1>4. ASSUME WakeUp(t) PROVE Plain(t)
  <2>1. /\ SameCall(loc'[t], loc[t]) /\ loc'[t].left = loc[t].left
                  /\ pc'[t] = loc[t].then
    BY <1>1, <1>4 DEF WakeUp, SameCall, Locals, Go, ThreadsInv, ThreadsType
  <2>2. (loc[t].call \in Getting /\ loc[t].call # "get" /\ loc[t].then = "alloc") \/ (loc[t].call = "move" /\ loc[t].then = "move")
    BY <1>1, <1>4 DEF WakeUp, ThreadOK, Possession, Continuation, PointsOf, CallOK, Getting,
           Moving, SyncSteps
  <2> QED
    BY <1>1, <1>4, <2>1, <2>2 DEF WakeUp, Plain, SameCall, Asks, PointsOf, Moving, Getting,
           Workers, SyncSteps
<1>5. ASSUME SubmitRead(t) PROVE Plain(t)
  <2>1. /\ SameCall(loc'[t], loc[t]) /\ loc'[t].left = loc[t].left
                  /\ pc'[t] = IF loc[t].call = "prefetch" THEN "release" ELSE "wait"
    BY <1>1, <1>5 DEF SubmitRead, SameCall, Locals, Go, ThreadsInv, ThreadsType
  <2>2. loc[t].call \in Getting /\ loc[t].call # "get"
    BY <1>1, <1>5 DEF SubmitRead, ThreadOK, Possession, Continuation, PointsOf, CallOK, Getting,
           Moving, SyncSteps
  <2> QED
    BY <1>1, <1>5, <2>1, <2>2 DEF SubmitRead, Plain, SameCall, Asks, PointsOf, Moving, Getting,
           Workers, SyncSteps
<1> QED
  BY <1>2, <1>3, <1>4, <1>5

\* ... of a flush ...
LEMMA SyncPlain ==
  ASSUME ThreadsInv, NEW t \in Threads, Known(t),
         SyncWalk(t) \/ SyncVisit(t) \/ SyncPark(t) \/ SyncWake(t) \/ SyncRelock(t) \/ SyncEnd(t)
  PROVE  Plain(t)
<1>1. ThreadOK(pc[t], loc[t]) /\ loc[t] \in Locals /\ PointsOf(pc[t], loc[t]) /\ CallOK(pc[t], loc[t])
      /\ (pc[t] \in SyncSteps => loc[t].call = "sync")
  BY DEF Known
<1>2. ASSUME SyncWalk(t) PROVE Plain(t)
  <2>1. /\ SameCall(loc'[t], loc[t]) /\ loc'[t].left = loc[t].left
                  /\ pc'[t] = "sync"
    BY <1>1, <1>2 DEF SyncWalk, SameCall, Locals, Go, ThreadsInv, ThreadsType
  <2>2. loc[t].call = "sync"
    BY <1>1, <1>2 DEF SyncWalk, ThreadOK, Possession, Continuation, PointsOf, CallOK, Getting,
           Moving, SyncSteps
  <2> QED
    BY <1>1, <1>2, <2>1, <2>2 DEF SyncWalk, Plain, SameCall, Asks, PointsOf, Moving, Getting,
           Workers, SyncSteps
<1>3. ASSUME SyncVisit(t) PROVE Plain(t)
  <2> DEFINE P == /\ SameCall(loc'[t], loc[t]) /\ loc'[t].left = loc[t].left
                  /\ pc'[t] \in {"sync", "syncwait", "park"}
  <2>1. \A x, y : Go(t, "syncwait", [[loc[t] EXCEPT !.count = Processed(loc[t])] EXCEPT !.cur = x, !.walk = y]) => P
    BY <1>1 DEF SameCall, Locals, Go, ThreadsInv, ThreadsType
  <2>2. \A x : Go(t, "park", [[loc[t] EXCEPT !.count = Processed(loc[t])] EXCEPT !.cur = x]) => P
    BY <1>1 DEF SameCall, Locals, Go, ThreadsInv, ThreadsType
  <2>3. \A x : Go(t, "sync", [[loc[t] EXCEPT !.count = Processed(loc[t])] EXCEPT !.walk = x]) => P
    BY <1>1 DEF SameCall, Locals, Go, ThreadsInv, ThreadsType
  <2>4. P
    BY <1>3, <2>1, <2>2, <2>3 DEF SyncVisit
  <2>5. loc[t].call = "sync"
    BY <1>1, <1>3 DEF SyncVisit, ThreadOK, Possession, Continuation, PointsOf, CallOK, Getting,
           Moving, SyncSteps
  <2> QED
    BY <1>1, <1>3, <2>4, <2>5 DEF SyncVisit, Plain, SameCall, Asks, PointsOf, Moving, Getting,
           Workers, SyncSteps
<1>4. ASSUME SyncPark(t) PROVE Plain(t)
  <2>1. /\ SameCall(loc'[t], loc[t]) /\ loc'[t].left = loc[t].left
                  /\ pc'[t] = "sync"
    BY <1>1, <1>4 DEF SyncPark, SameCall, Locals, Go, ThreadsInv, ThreadsType
  <2>2. loc[t].call = "sync"
    BY <1>1, <1>4 DEF SyncPark, ThreadOK, Possession, Continuation, PointsOf, CallOK, Getting,
           Moving, SyncSteps
  <2> QED
    BY <1>1, <1>4, <2>1, <2>2 DEF SyncPark, Plain, SameCall, Asks, PointsOf, Moving, Getting,
           Workers, SyncSteps
<1>5. ASSUME SyncWake(t) PROVE Plain(t)
  <2>1. /\ SameCall(loc'[t], loc[t]) /\ loc'[t].left = loc[t].left
                  /\ pc'[t] = "syncrelock"
    BY <1>1, <1>5 DEF SyncWake, SameCall, Locals, Go, ThreadsInv, ThreadsType
  <2>2. loc[t].call = "sync"
    BY <1>1, <1>5 DEF SyncWake, ThreadOK, Possession, Continuation, PointsOf, CallOK, Getting,
           Moving, SyncSteps
  <2> QED
    BY <1>1, <1>5, <2>1, <2>2 DEF SyncWake, Plain, SameCall, Asks, PointsOf, Moving, Getting,
           Workers, SyncSteps
<1>6. ASSUME SyncRelock(t) PROVE Plain(t)
  <2>1. /\ SameCall(loc'[t], loc[t]) /\ loc'[t].left = loc[t].left
                  /\ pc'[t] = "sync"
    BY <1>1, <1>6 DEF SyncRelock, SameCall, Locals, Go, ThreadsInv, ThreadsType
  <2>2. loc[t].call = "sync"
    BY <1>1, <1>6 DEF SyncRelock, ThreadOK, Possession, Continuation, PointsOf, CallOK, Getting,
           Moving, SyncSteps
  <2> QED
    BY <1>1, <1>6, <2>1, <2>2 DEF SyncRelock, Plain, SameCall, Asks, PointsOf, Moving, Getting,
           Workers, SyncSteps
<1>7. ASSUME SyncEnd(t) PROVE Plain(t)
  <2>1. /\ SameCall(loc'[t], loc[t]) /\ loc'[t].left = loc[t].left
                  /\ pc'[t] = "xchg"
    BY <1>1, <1>7 DEF SyncEnd, SameCall, Locals, Go, ThreadsInv, ThreadsType
  <2>2. loc[t].call = "sync"
    BY <1>1, <1>7 DEF SyncEnd, ThreadOK, Possession, Continuation, PointsOf, CallOK, Getting,
           Moving, SyncSteps
  <2> QED
    BY <1>1, <1>7, <2>1, <2>2 DEF SyncEnd, Plain, SameCall, Asks, PointsOf, Moving, Getting,
           Workers, SyncSteps
<1> QED
  BY <1>2, <1>3, <1>4, <1>5, <1>6, <1>7

\* ... of a move and of a destroyer ...
LEMMA MovePlain ==
  ASSUME ThreadsInv, NEW t \in Threads, Known(t),
         MoveFind(t) \/ MoveWrite(t) \/ DropStart(t) \/ Drop(t)
  PROVE  Plain(t)
<1>1. ThreadOK(pc[t], loc[t]) /\ loc[t] \in Locals /\ PointsOf(pc[t], loc[t]) /\ CallOK(pc[t], loc[t])
      /\ (pc[t] \in SyncSteps => loc[t].call = "sync")
  BY DEF Known
<1>2. ASSUME MoveFind(t) PROVE Plain(t)
  <2> DEFINE P == /\ SameCall(loc'[t], loc[t]) /\ loc'[t].left = loc[t].left
                  /\ pc'[t] \in {"asleep", "clean", "movewrite"} /\ (pc'[t] # "movewrite" => loc'[t].then = "move")
  <2>1. Go(t, "asleep", [loc[t] EXCEPT !.then = "move"]) => P
    BY <1>1 DEF SameCall, Locals, Go, ThreadsInv, ThreadsType
  <2>2. \A x : Go(t, "clean", [loc[t] EXCEPT !.cur = x, !.then = "move"]) => P
    BY <1>1 DEF SameCall, Locals, Go, ThreadsInv, ThreadsType
  <2>3. Go(t, "movewrite", loc[t]) => P
    BY <1>1 DEF SameCall, Locals, Go, ThreadsInv, ThreadsType
  <2>4. P
    BY <1>2, <2>1, <2>2, <2>3 DEF MoveFind
  <2>5. loc[t].call = "move"
    BY <1>1, <1>2 DEF MoveFind, ThreadOK, Possession, Continuation, PointsOf, CallOK, Getting,
           Moving, SyncSteps
  <2> QED
    BY <1>1, <1>2, <2>4, <2>5 DEF MoveFind, Plain, SameCall, Asks, PointsOf, Moving, Getting,
           Workers, SyncSteps
<1>3. ASSUME MoveWrite(t) PROVE Plain(t)
  <2>1. /\ SameCall(loc'[t], loc[t]) /\ loc'[t].left = loc[t].left
                  /\ pc'[t] = "relink"
    BY <1>1, <1>3 DEF MoveWrite, SameCall, Locals, Go, ThreadsInv, ThreadsType
  <2>2. loc[t].call = "move"
    BY <1>1, <1>3 DEF MoveWrite, ThreadOK, Possession, Continuation, PointsOf, CallOK, Getting,
           Moving, SyncSteps
  <2> QED
    BY <1>1, <1>3, <2>1, <2>2 DEF MoveWrite, Plain, SameCall, Asks, PointsOf, Moving, Getting,
           Workers, SyncSteps
<1>4. ASSUME DropStart(t) PROVE Plain(t)
  <2>1. /\ SameCall(loc'[t], loc[t]) /\ loc'[t].left = loc[t].left
                  /\ pc'[t] = "drop"
    BY <1>1, <1>4 DEF DropStart, SameCall, Locals, Go, ThreadsInv, ThreadsType
  <2>2. loc[t].call = "destroy"
    BY <1>1, <1>4 DEF DropStart, ThreadOK, Possession, Continuation, PointsOf, CallOK, Getting,
           Moving, SyncSteps
  <2> QED
    BY <1>1, <1>4, <2>1, <2>2 DEF DropStart, Plain, SameCall, Asks, PointsOf, Moving, Getting,
           Workers, SyncSteps
<1>5. ASSUME Drop(t) PROVE Plain(t)
  <2> DEFINE P == /\ SameCall(loc'[t], loc[t]) /\ loc'[t].left = loc[t].left
                  /\ (pc'[t] = "unregister" \/ (pc'[t] = "clean" /\ loc'[t].then = "drop"))
  <2>1. \A x : Go(t, "clean", [loc[t] EXCEPT !.cur = x, !.then = "drop"]) => P
    BY <1>1 DEF SameCall, Locals, Go, ThreadsInv, ThreadsType
  <2>2. Go(t, "unregister", loc[t]) => P
    BY <1>1 DEF SameCall, Locals, Go, ThreadsInv, ThreadsType
  <2>3. P
    BY <1>5, <2>1, <2>2 DEF Drop
  <2>4. loc[t].call = "destroy"
    BY <1>1, <1>5 DEF Drop, ThreadOK, Possession, Continuation, PointsOf, CallOK, Getting,
           Moving, SyncSteps
  <2> QED
    BY <1>1, <1>5, <2>3, <2>4 DEF Drop, Plain, SameCall, Asks, PointsOf, Moving, Getting,
           Workers, SyncSteps
<1> QED
  BY <1>2, <1>3, <1>4, <1>5

\* ... of an allocation, unless it gives up ...
LEMMA AllocPlain ==
  ASSUME ThreadsInv, NEW t \in Threads, Known(t), Alloc(t)
  PROVE  Plain(t) \/ (GiveUp(t, loc[t]) /\ loc[t].call = "prefetch" /\ UNCHANGED buf)
<1>1. ThreadOK(pc[t], loc[t]) /\ loc[t] \in Locals /\ PointsOf(pc[t], loc[t])
  BY DEF Known
<1>2. loc[t].call \in Getting /\ loc[t].call # "get"
  BY <1>1 DEF Alloc, ThreadOK, Possession, PointsOf
<1>3. CASE \E b : Go(t, "recheck", [loc[t] EXCEPT !.newb = b])
  <2>1. SameCall(loc'[t], loc[t]) /\ loc'[t].left = loc[t].left /\ pc'[t] = "recheck"
    BY <1>1, <1>3 DEF SameCall, Locals, Go, ThreadsInv, ThreadsType
  <2> QED
    BY <1>1, <1>2, <2>1 DEF Alloc, Plain, SameCall, Asks, PointsOf, Moving, Getting
<1>4. CASE \E b : Go(t, "clean", [loc[t] EXCEPT !.cur = b, !.then = "alloc"])
  <2>1. SameCall(loc'[t], loc[t]) /\ loc'[t].left = loc[t].left /\ pc'[t] = "clean" /\ loc'[t].then = "alloc"
    BY <1>1, <1>4 DEF SameCall, Locals, Go, ThreadsInv, ThreadsType
  <2> QED
    BY <1>1, <1>2, <2>1 DEF Alloc, Plain, SameCall, Asks, PointsOf, Moving, Getting
<1>5. CASE Go(t, "asleep", [loc[t] EXCEPT !.then = "alloc"])
  <2>1. SameCall(loc'[t], loc[t]) /\ loc'[t].left = loc[t].left /\ pc'[t] = "asleep" /\ loc'[t].then = "alloc"
    BY <1>1, <1>5 DEF SameCall, Locals, Go, ThreadsInv, ThreadsType
  <2> QED
    BY <1>1, <1>2, <2>1 DEF Alloc, Plain, SameCall, Asks, PointsOf, Moving, Getting
<1> QED
  BY <1>3, <1>4, <1>5 DEF Alloc, cacheVars

\* ... of an eviction ...
LEMMA CleanPlain ==
  ASSUME ThreadsInv, NEW t \in Threads, Known(t), CleanDone(t)
  PROVE  Plain(t) \/ Back(t)
<1>1. /\ ThreadOK(pc[t], loc[t]) /\ loc[t] \in Locals /\ PointsOf(pc[t], loc[t]) /\ CallOK(pc[t], loc[t])
      /\ pc[t] = "clean"
  BY DEF Known, CleanDone
<1>2. CASE loc[t].then = "alloc"
  <2>1. SameCall(loc'[t], loc[t]) /\ loc'[t].left = loc[t].left /\ pc'[t] = "recheck"
    <3>1. \A x, y, z : Go(t, "recheck", [loc[t] EXCEPT !.newb = x, !.cur = y, !.then = z])
             => SameCall(loc'[t], loc[t]) /\ loc'[t].left = loc[t].left /\ pc'[t] = "recheck"
      BY <1>1 DEF SameCall, Locals, Go, ThreadsInv, ThreadsType
    <3> QED
      BY <1>2, <3>1 DEF CleanDone
  <2>2. loc[t].call \in Getting /\ loc[t].call # "get"
    BY <1>1, <1>2 DEF ThreadOK, Continuation, PointsOf
  <2> QED
    BY <1>1, <2>1, <2>2 DEF Plain, SameCall, Asks, PointsOf, Moving, Getting
<1>3. CASE loc[t].then \in {"watermark", "drop", "move"}
  <2>1. /\ SameCall(loc'[t], loc[t]) /\ loc'[t].left = loc[t].left
        /\ pc'[t] = loc[t].then
    <3>1. \A x, y, z : Go(t, x, [loc[t] EXCEPT !.cur = y, !.then = z])
             => SameCall(loc'[t], loc[t]) /\ loc'[t].left = loc[t].left /\ pc'[t] = x
      BY <1>1 DEF SameCall, Locals, Go, ThreadsInv, ThreadsType
    <3> QED
      BY <1>3, <3>1 DEF CleanDone
  <2>2. /\ loc[t].then = "watermark" => loc[t].call \in Getting /\ loc[t].call # "get"
        /\ loc[t].then = "drop" => loc[t].call = "destroy"
        /\ loc[t].then = "move" => loc[t].call = "move"
    BY <1>1 DEF ThreadOK, Continuation, PointsOf, CallOK, Getting, Moving
  <2> QED
    BY <1>1, <1>3, <2>1, <2>2 DEF Plain, SameCall, Asks, PointsOf, Moving, Getting
<1>4. CASE loc[t].then = "scan"
  <2>0. loc[t].call \in Workers
    BY <1>1, <1>4 DEF PointsOf
  <2>1. CASE \E r : /\ r = [loc[t] EXCEPT !.left = @ - 1, !.count = @ - 1, !.cur = NoBuffer]
                    /\ Go(t, "scan", r)
    <3>1. SameCall(loc'[t], loc[t]) /\ pc'[t] = "scan"
      BY <1>1, <2>1 DEF SameCall, Locals, Go, ThreadsInv, ThreadsType
    <3> QED
      BY <1>1, <2>0, <3>1 DEF Plain, SameCall, Asks, PointsOf, Moving, Getting, Workers
  <2>2. CASE Return(t, loc[t].mine)
    BY <1>1, <2>0, <2>2, GoFacts DEF Return, Back, Getting, Workers
  <2>3. [loc[t] EXCEPT !.left = @ - 1, !.count = @ - 1, !.cur = NoBuffer].mine = loc[t].mine
    BY <1>1 DEF Locals
  <2> QED
    BY <1>1, <1>4, <2>1, <2>2, <2>3 DEF CleanDone, Scanned
<1> QED
  BY <1>1, <1>2, <1>3, <1>4 DEF CleanDone

\* ... of a write-back ...
LEMMA WriteBackPlain ==
  ASSUME ThreadsInv, NEW t \in Threads, Known(t), WriteBack(t)
  PROVE  Plain(t)
<1>1. /\ ThreadOK(pc[t], loc[t]) /\ loc[t] \in Locals /\ PointsOf(pc[t], loc[t]) /\ CallOK(pc[t], loc[t])
      /\ pc[t] = "wb"
  BY DEF Known, WriteBack
<1>2. loc[t].then = "link" \/ loc[t].call \notin Getting
  BY <1>1 DEF ThreadOK, Continuation
<1>3. CASE \E x, y : Go(t, "wb", [loc[t] EXCEPT !.walk = x]) \/ Go(t, "wb", [loc[t] EXCEPT !.walk = x, !.wl = y])
  <2> DEFINE P == /\ SameCall(loc'[t], loc[t]) /\ loc'[t].left = loc[t].left
                  /\ loc'[t].then = loc[t].then /\ pc'[t] = "wb"
  <2>1. \A x : Go(t, "wb", [loc[t] EXCEPT !.walk = x]) => P
    BY <1>1 DEF SameCall, Locals, Go, ThreadsInv, ThreadsType
  <2>2. \A x, y : Go(t, "wb", [loc[t] EXCEPT !.walk = x, !.wl = y]) => P
    BY <1>1 DEF SameCall, Locals, Go, ThreadsInv, ThreadsType
  <2>3. P
    BY <1>3, <2>1, <2>2
  <2> QED
    BY <1>1, <2>3 DEF Plain, SameCall, Asks, PointsOf, Moving, Getting
<1>4. CASE Go(t, IF loc[t].then = "link" THEN "link" ELSE "flush", loc[t])
  <2>1. loc'[t] = loc[t] /\ pc'[t] = IF loc[t].then = "link" THEN "link" ELSE "flush"
    BY <1>4, GoFacts
  <2> QED
    BY <1>1, <1>2, <2>1 DEF Plain, SameCall, Asks, PointsOf, Moving, Getting, SyncSteps
<1> QED
  BY <1>3, <1>4 DEF WriteBack

\* ... of the writes it has promised ...
LEMMA FlushPlain ==
  ASSUME ThreadsInv, NEW t \in Threads, Known(t), Flush(t)
  PROVE  Plain(t) \/ Back(t)
<1>1. ThreadOK(pc[t], loc[t]) /\ loc[t] \in Locals /\ PointsOf(pc[t], loc[t]) /\ pc[t] = "flush"
  BY DEF Known, Flush
<1>2. loc[t].then \in {"submit", "wait"} \/ (loc[t].then \in {"relock", "idle"} /\ loc[t].call \notin Getting)
  BY <1>1 DEF ThreadOK, Continuation
<1>3. CASE \E x : Go(t, "flush", [loc[t] EXCEPT !.wl = x])
  <2>1. /\ SameCall(loc'[t], loc[t]) /\ loc'[t].left = loc[t].left /\ loc'[t].then = loc[t].then
        /\ pc'[t] = "flush"
    BY <1>1, <1>3 DEF SameCall, Locals, Go, ThreadsInv, ThreadsType
  <2> QED
    BY <1>1, <2>1 DEF Plain, SameCall, Asks, PointsOf, Moving, Getting
<1>4. CASE loc[t].then # "idle" /\ Go(t, loc[t].then, loc[t])
  <2>1. loc'[t] = loc[t] /\ pc'[t] = loc[t].then
    BY <1>4, GoFacts
  <2> QED
    BY <1>1, <1>2, <1>4, <2>1 DEF Plain, SameCall, Asks, PointsOf, Moving, Getting, SyncSteps
<1>5. CASE loc[t].then = "idle" /\ Return(t, loc[t].mine)
  BY <1>1, <1>2, <1>5, GoFacts DEF Return, Back, Getting, PointsOf, Moving, SyncSteps
<1> QED
  BY <1>3, <1>4, <1>5 DEF Flush

\* ... and of the shrinker and the age worker.
LEMMA WorkerPlain ==
  ASSUME ThreadsInv, NEW t \in Threads, Known(t), ScanVisit(t) \/ AgeVisit(t)
  PROVE  Plain(t) \/ Back(t)
<1>1. /\ ThreadOK(pc[t], loc[t]) /\ loc[t] \in Locals /\ PointsOf(pc[t], loc[t])
      /\ pc[t] \in {"scan", "age"}
  BY DEF Known, ScanVisit, AgeVisit
<1>2. loc[t].call \in Workers
  BY <1>1 DEF PointsOf
<1>3. CASE \E x, y : \/ Go(t, "scan", [loc[t] EXCEPT !.walk = x, !.left = y])
                     \/ Go(t, "age", [loc[t] EXCEPT !.walk = x, !.count = y])
                     \/ Go(t, "age", [loc[t] EXCEPT !.walk = x])
  <2> DEFINE P == SameCall(loc'[t], loc[t]) /\ pc'[t] \in {"scan", "age"}
  <2>1. \A x, y : Go(t, "scan", [loc[t] EXCEPT !.walk = x, !.left = y]) => P
    BY <1>1 DEF SameCall, Locals, Go, ThreadsInv, ThreadsType
  <2>2. \A x, y : Go(t, "age", [loc[t] EXCEPT !.walk = x, !.count = y]) => P
    BY <1>1 DEF SameCall, Locals, Go, ThreadsInv, ThreadsType
  <2>3. \A x : Go(t, "age", [loc[t] EXCEPT !.walk = x]) => P
    BY <1>1 DEF SameCall, Locals, Go, ThreadsInv, ThreadsType
  <2>4. P
    BY <1>3, <2>1, <2>2, <2>3
  <2> QED
    BY <1>1, <1>2, <2>4 DEF Plain, SameCall, Asks, PointsOf, Moving, Getting, Workers
<1>4. CASE \E x, y : Go(t, "clean", [loc[t] EXCEPT !.walk = x, !.cur = y, !.then = "scan"])
  <2>1. SameCall(loc'[t], loc[t]) /\ pc'[t] = "clean" /\ loc'[t].then = "scan"
    BY <1>1, <1>4 DEF SameCall, Locals, Go, ThreadsInv, ThreadsType
  <2> QED
    BY <1>1, <1>2, <2>1 DEF Plain, SameCall, Asks, PointsOf, Moving, Getting, Workers
<1>5. CASE Return(t, loc[t].mine)
  BY <1>1, <1>2, <1>5, GoFacts DEF Return, Back, Getting, Workers
<1>6. ScanVisit(t) => \/ \E x, y : Go(t, "clean", [loc[t] EXCEPT !.walk = x, !.cur = y, !.then = "scan"])
                      \/ Return(t, loc[t].mine)
                      \/ \E x, y : Go(t, "scan", [loc[t] EXCEPT !.walk = x, !.left = y])
  BY DEF ScanVisit
<1>7. AgeVisit(t) => \/ \E x, y : Go(t, "age", [loc[t] EXCEPT !.walk = x, !.count = y])
                     \/ Return(t, loc[t].mine)
                     \/ \E x : Go(t, "age", [loc[t] EXCEPT !.walk = x])
  BY DEF AgeVisit
<1> QED
  BY <1>3, <1>4, <1>5, <1>6, <1>7
-----------------------------------------------------------------------------
(* Steps of a thread that its client does not see.                         *)

\* Whether a reference in the hands of a client, or one it still waits for, is what
\* it was; or one is taken or given back that the client never sees.
SameHand(t) ==
  LET r == loc[t]  s == loc'[t] IN
  \/ s.mine = r.mine /\ r.call \notin Getting /\ s.call \notin Getting
  \/ s.mine = r.mine /\ r.call \in Getting /\ s.call \in Getting /\ s.blk = r.blk
  \/ s.mine = NoBuffer /\ (r.mine = NoBuffer \/ r.call \in Getting)
  \/ r.mine = NoBuffer /\ s.call \in Getting /\ s.mine \in Buffers /\ Home(loc[t].mine)' = s.blk

Unseen(t) ==
  /\ CallOf(pc'[t], loc'[t]) = CallOf(pc[t], loc[t]) /\ WantOf(loc'[t]) = WantOf(loc[t])
  /\ loc'[t].res => loc[t].res
  /\ pc[t] # "movecopy" /\ pc'[t] # "movecopy"
  /\ SameHand(t) /\ PointsOf(pc'[t], loc'[t])

\* To go on with a call is such a step, ...
LEMMA PlainUnseen == ASSUME NEW t \in Threads, Plain(t) PROVE Unseen(t)
<1>1. CallOf(pc'[t], loc'[t]) = CallOf(pc[t], loc[t]) /\ WantOf(loc'[t]) = WantOf(loc[t])
  BY DEF Plain, SameCall, CallOf, WantOf
<1>2. SameHand(t)
  BY DEF Plain, SameCall, SameHand
<1> QED
  BY <1>1, <1>2 DEF Plain, SameCall, Unseen

\* ... to return from one, ...
LEMMA BackUnseen == ASSUME NEW t \in Threads, Back(t) PROVE Unseen(t)
<1>0. PointsOf(pc'[t], loc'[t])
  BY RestPoints DEF Back
<1>1. loc'[t].call = "none" /\ loc'[t].mine = loc[t].mine /\ ~loc'[t].res
  BY DEF Back, Rest
<1>2. CallOf(pc'[t], loc'[t]) = CallOf(pc[t], loc[t]) /\ WantOf(loc'[t]) = WantOf(loc[t])
  BY <1>1 DEF Back, CallOf, Asks, WantOf, Getting
<1>3. SameHand(t)
  BY <1>1 DEF Back, SameHand, Getting
<1> QED
  BY <1>0, <1>1, <1>2, <1>3 DEF Back, Unseen

\* ... and to begin one that asks for nothing.
LEMMA BeginUnseen ==
  ASSUME NEW t \in Threads, Known(t), pc[t] = "idle", loc'[t].mine = loc[t].mine,
         loc'[t].res => loc[t].res,
         \/ pc'[t] \in {"scan", "age"} /\ loc'[t].call \in Workers
         \/ pc'[t] = "wb" /\ loc'[t].call \in {"async", "destroy"}
  PROVE  Unseen(t)
<1>1. loc[t].call = "none"
  BY DEF Known, CallOK
<1>2. loc'[t].call \notin Getting \cup {"none", "sync", "move"}
  BY DEF Workers, Getting
<1>3. CallOf(pc'[t], loc'[t]) = CallOf(pc[t], loc[t]) /\ WantOf(loc'[t]) = WantOf(loc[t])
  BY <1>1, <1>2 DEF CallOf, Asks, WantOf, Getting
<1>4. SameHand(t)
  BY <1>1, <1>2 DEF SameHand, Getting
<1>5. PointsOf(pc'[t], loc'[t])
  BY <1>2 DEF PointsOf, Moving, Getting, Workers
<1> QED
  BY <1>3, <1>4, <1>5 DEF Unseen

\* Nobody lends a buffer while the lock is free or with another thread.
LEMMA NobodyLends ==
  ASSUME ThreadsInv, NEW t \in Threads, lock \in {t, Nobody}, pc[t] # "movecopy"
  PROVE  \A b : ~Lent(b) /\ Home(b) = buf[b].block
<1>1. \A u \in Threads : pc[u] = "movecopy" => lock = u
  BY DEF ThreadsInv, LockOwner
<1>2. \A b : ~Lent(b)
  BY <1>1, ThreadsAssumption DEF Lent
<1> QED
  BY <1>2 DEF Home

\* The same after a step of such a thread.
LEMMA NobodyLendsNext ==
  ASSUME ThreadsInv, NEW t \in Threads, lock \in {t, Nobody}, pc'[t] # "movecopy",
         \A u \in Threads \ {t} : Unmoved(u)
  PROVE  \A b : ~Lent(b)' /\ Home(b)' = buf'[b].block
<1>1. \A u \in Threads : pc[u] = "movecopy" => lock = u
  BY DEF ThreadsInv, LockOwner
<1>2. \A u \in Threads : pc'[u] # "movecopy"
  BY <1>1, ThreadsAssumption DEF Unmoved
<1>3. \A b : ~Lent(b)'
  BY <1>2 DEF Lent
<1> QED
  BY <1>3 DEF Home

\* A thread that takes no other way with its request.
LEMMA OthersUnmoved ==
  ASSUME ThreadsInv, NEW t \in Threads, NEW l, NEW s, Go(t, l, s)
  PROVE  pc'[t] = l /\ loc'[t] = s /\ \A u \in Threads \ {t} : Unmoved(u)
BY GoFacts DEF Unmoved

\* __bufio_new returns NULL to a prefetch.
LEMMA GiveUpUnseen ==
  ASSUME ThreadsInv, NEW t \in Threads, NEW r \in Locals, r.call = "prefetch", r.mine = NoBuffer,
         r.res => loc[t].res, loc[t].mine = NoBuffer, loc[t].call \in {"none", "prefetch"},
         pc[t] # "movecopy", GiveUp(t, r)
  PROVE  Unseen(t)
<1>1. /\ loc'[t].mine = NoBuffer /\ (loc'[t].res => loc[t].res)
      /\ \/ pc'[t] = "idle" /\ loc'[t] = Rest(NoBuffer)
         \/ pc'[t] = "lookup" /\ loc'[t].call = "prefetch"
  <2>1. CASE Return(t, NoBuffer)
    BY <2>1, GoFacts DEF Return, Rest
  <2>2. CASE Go(t, "lookup", [r EXCEPT !.blk = @ + 1, !.left = @ - 1])
    <3>1. PICK s : s = [r EXCEPT !.blk = @ + 1, !.left = @ - 1]
      OBVIOUS
    <3>2. s.call = "prefetch" /\ s.mine = NoBuffer /\ (s.res => loc[t].res)
      BY <3>1 DEF Locals
    <3>3. pc'[t] = "lookup" /\ loc'[t] = s
      BY <2>2, <3>1, GoFacts
    <3> QED
      BY <3>2, <3>3
  <2> QED
    BY <2>1, <2>2 DEF GiveUp
<1>2. loc'[t].call \in {"none", "prefetch"}
  BY <1>1 DEF Rest
<1>3. CallOf(pc'[t], loc'[t]) = CallOf(pc[t], loc[t]) /\ WantOf(loc'[t]) = WantOf(loc[t])
  BY <1>2 DEF CallOf, Asks, WantOf
<1>4. PointsOf(pc'[t], loc'[t])
  <2>1. PointsOf("idle", Rest(NoBuffer))
    BY RestPoints
  <2>2. pc'[t] = "lookup" /\ loc'[t].call = "prefetch" => PointsOf(pc'[t], loc'[t])
    BY DEF PointsOf, Moving
  <2> QED
    BY <1>1, <2>1, <2>2
<1> QED
  BY <1>1, <1>3, <1>4 DEF Unseen, SameHand

\* __bufio_new finds the block, or goes to allocate a buffer: for a caller that is in
\* the call already, or for a prefetch.
LEMMA BufioNewUnseen ==
  ASSUME ThreadsInv, CacheInv, NEW t \in Threads, NEW r \in Locals, r.call \in Getting \ {"get"},
         r.call # "prefetch" => r.left = 0,
         r.mine = NoBuffer, r.res => loc[t].res, loc[t].mine = NoBuffer,
         loc[t] = r \/ (r.call = "prefetch" /\ loc[t].call = "none" /\ ~r.res),
         pc[t] \in {"idle", "lookup", "relock"}, lock \in {t, Nobody}, BufioNew(t, r)
  PROVE  Unseen(t)
<1>1. CASE GiveUp(t, r) /\ r.call = "prefetch"
  BY <1>1, GiveUpUnseen
<1>2. ASSUME NEW b \in Find(r.blk), ~Declined(r, b), Go(t, "wait", [r EXCEPT !.mine = b]),
             Link(b, [buf[b] EXCEPT !.hold = @ + 1], ListFor(buf[b].state))
      PROVE  Unseen(t)
  <2>1. r.call # "prefetch" /\ loc[t] = r /\ r.left = 0
    BY <1>2 DEF Declined
  <2>2. PICK s : s = [r EXCEPT !.mine = b]
    OBVIOUS
  <2>3. /\ s.call = r.call /\ s.blk = r.blk /\ s.res = r.res /\ s.snap = r.snap /\ s.mine = b /\ s.left = r.left
        /\ b \in Buffers /\ buf[b].block = r.blk
    BY <2>2 DEF Locals, Find, Linked
  <2>4. pc'[t] = "wait" /\ loc'[t] = s /\ \A u \in Threads \ {t} : Unmoved(u)
    BY <1>2, <2>2, OthersUnmoved
  <2>5. buf'[b].block = r.blk
    BY <1>2, <2>3 DEF Link, CacheInv, IndexInv, Buffer
  <2>6. Home(b)' = r.blk
    BY <2>4, <2>5, NobodyLendsNext
  <2>7. CallOf(pc'[t], loc'[t]) = CallOf(pc[t], loc[t]) /\ WantOf(loc'[t]) = WantOf(loc[t])
    BY <2>1, <2>3, <2>4 DEF CallOf, Asks, WantOf, Getting
  <2>8. PointsOf(pc'[t], loc'[t])
    BY <2>1, <2>3, <2>4 DEF PointsOf, Moving, Getting
  <2>9. SameHand(t)
    BY <2>3, <2>4, <2>6 DEF SameHand
  <2>10. loc'[t].res => loc[t].res
    BY <2>1, <2>3, <2>4
  <2> QED
    BY <2>4, <2>7, <2>8, <2>9, <2>10 DEF Unseen
<1>3. CASE Go(t, "alloc", r)
  <2>1. pc'[t] = "alloc" /\ loc'[t] = r
    BY <1>3, GoFacts
  <2>2. CallOf(pc'[t], loc'[t]) = CallOf(pc[t], loc[t]) /\ WantOf(loc'[t]) = WantOf(loc[t])
    BY <2>1 DEF CallOf, Asks, WantOf, Getting
  <2>3. PointsOf(pc'[t], loc'[t])
    BY <2>1 DEF PointsOf, Moving, Getting
  <2> QED
    BY <2>1, <2>2, <2>3 DEF Unseen, SameHand
<1>4. BufioNew(t, r) => \/ \E b \in Find(r.blk) :
                             /\ ~Declined(r, b) /\ Go(t, "wait", [r EXCEPT !.mine = b])
                             /\ Link(b, [buf[b] EXCEPT !.hold = @ + 1], ListFor(buf[b].state))
                        \/ GiveUp(t, r) /\ r.call = "prefetch"
                        \/ Go(t, "alloc", r)
  BY DEF BufioNew, Declined
<1> QED
  BY <1>1, <1>2, <1>3, <1>4

-----------------------------------------------------------------------------
(* What is in a buffer that stays in the index.                            *)

Unaltered == \A b \in Linked \cap Linked' : buf'[b].block = buf[b].block /\ buf'[b].gen = buf[b].gen

\* No buffer changes, ...
LEMMA UnalteredSame == ASSUME UNCHANGED buf PROVE Unaltered
BY DEF Unaltered

\* ... one changes but for what is in it, ...
LEMMA UnalteredBut ==
  ASSUME NEW b, NEW r, CacheInv, buf' = [buf EXCEPT ![b] = r],
         r.block = buf[b].block /\ r.gen = buf[b].gen
  PROVE  Unaltered
BY DEF Unaltered, CacheInv, IndexInv, Linked

\* ... or one leaves the index.
LEMMA UnalteredOut ==
  ASSUME NEW b, NEW r, CacheInv, buf' = [buf EXCEPT ![b] = r], r.where \notin Lists
  PROVE  Unaltered
BY DEF Unaltered, CacheInv, IndexInv, Linked

\* The same for the ways the code does that: to link, ...
LEMMA UnalteredLink ==
  ASSUME NEW b, NEW r \in Buffer, NEW l, CacheInv, Link(b, r, l), r.block = buf[b].block, r.gen = buf[b].gen
  PROVE  Unaltered
<1>1. PICK s : s = [r EXCEPT !.where = l]
  OBVIOUS
<1>2. s.block = r.block /\ s.gen = r.gen
  BY <1>1 DEF Buffer
<1> QED
  BY <1>1, <1>2, UnalteredBut DEF Link

\* ... to free, ...
LEMMA UnalteredFree == ASSUME NEW b, CacheInv, FreeBufferWake(b) PROVE Unaltered
<1>1. PICK p \in {"free", "reserved"} : buf' = [buf EXCEPT ![b] = Blank(p)]
  BY DEF FreeBufferWake
<1>2. Blank(p).where \notin Lists
  BY DEF Blank, Lists
<1> QED
  BY <1>1, <1>2, UnalteredOut

\* ... to take, ...
LEMMA UnalteredTake == ASSUME NEW b \in Buffers, CacheInv, Take(b) PROVE Unaltered
<1>1. PICK r : r = [buf[b] EXCEPT !.where = "hand", !.block = NoBlock]
  OBVIOUS
<1>2. r.where \notin Lists
  BY <1>1 DEF CacheInv, IndexInv, Buffer, Lists
<1>3. buf' = [buf EXCEPT ![b] = r]
  BY <1>1 DEF Take
<1> QED
  BY <1>2, <1>3, UnalteredOut

\* ... to settle, ...
LEMMA UnalteredSettle ==
  ASSUME NEW b, NEW r \in Buffer, CacheInv, Settle(b, r), r.block = buf[b].block, r.gen = buf[b].gen
  PROVE  Unaltered
BY UnalteredLink, UnalteredBut DEF Settle

\* ... to start a write, ...
LEMMA UnalteredWrite == ASSUME NEW b \in Buffers, CacheInv, StartWrite(b) PROVE Unaltered
<1>1. PICK r : r = [buf[b] EXCEPT !.state = Writing(@)]
  OBVIOUS
<1>2. r.block = buf[b].block /\ r.gen = buf[b].gen /\ buf' = [buf EXCEPT ![b] = r]
  BY <1>1 DEF StartWrite, CacheInv, IndexInv, Buffer
<1> QED
  BY <1>2, UnalteredBut

\* ... and to count a reference.
LEMMA HoldFacts ==
  ASSUME NEW b \in Buffers, CacheInv, NEW n
  PROVE  /\ [buf[b] EXCEPT !.hold = n].block = buf[b].block
         /\ [buf[b] EXCEPT !.hold = n].gen = buf[b].gen
         /\ n \in Nat => [buf[b] EXCEPT !.hold = n] \in Buffer
         /\ buf[b] \in Buffer /\ buf[b].hold \in Nat
BY DEF CacheInv, IndexInv, Buffer

\* __bufio_new takes a reference at most.
LEMMA BufioNewUnaltered ==
  ASSUME CacheInv, NEW t, NEW r, BufioNew(t, r)
  PROVE  Unaltered
<1>1. ASSUME NEW b \in Find(r.blk), Link(b, [buf[b] EXCEPT !.hold = @ + 1], ListFor(buf[b].state))
      PROVE  Unaltered
  <2>1. PICK s : s = [buf[b] EXCEPT !.hold = @ + 1]
    OBVIOUS
  <2>2. b \in Buffers
    BY DEF Find, Linked
  <2>3. s \in Buffer /\ s.block = buf[b].block /\ s.gen = buf[b].gen
    BY <2>1, <2>2, HoldFacts
  <2> QED
    BY <1>1, <2>1, <2>3, UnalteredLink
<1> QED
  BY <1>1, UnalteredSame DEF BufioNew, cacheVars

-----------------------------------------------------------------------------
(* The actions nobody but their thread sees.                               *)

\* A thread that stays where it is.
LEMMA StillUnseen ==
  ASSUME NEW t \in Threads, Known(t), UNCHANGED <<pc, loc>>, pc[t] # "movecopy"
  PROVE  Unseen(t)
BY DEF Unseen, SameHand, Known

\* Calls that ask for nothing.
LEMMA StartSilent ==
  ASSUME ThreadsInv, CacheInv, NEW t \in Threads, Known(t),
         \/ \E k \in Blocks : Forget(t, k) \/ \E n \in PrefetchSizes : Prefetch(t, k, n)
         \/ WriteAsync(t) \/ Age(t) \/ Destroy(t)
         \/ \E c \in ApiCalls, n \in ScanSizes : Scan(t, c, n)
  PROVE  Unseen(t) /\ Unaltered
<1>0. pc[t] = "idle" /\ loc[t].mine \in Buffers \cup {NoBuffer} /\ loc[t] \in Locals /\ loc[t].call = "none"
  BY DEF Forget, Prefetch, WriteAsync, Age, Destroy, Scan, Call, Known, Locals, CallOK
<1>1. ASSUME NEW k \in Blocks, Forget(t, k) PROVE Unseen(t) /\ Unaltered
  <2>1. Unaltered
    BY <1>1, UnalteredFree DEF Forget
  <2> QED
    BY <1>0, <1>1, <2>1, StillUnseen DEF Forget
<1>2. ASSUME NEW k \in Blocks, NEW n \in PrefetchSizes, Prefetch(t, k, n) PROVE Unseen(t) /\ Unaltered
  <2>1. PICK r : r = Wanted("prefetch", k, n - 1)
    OBVIOUS
  <2>2. n - 1 \in Nat /\ \A i \in 0 .. n - 1 : k + i \in Blocks
    BY <1>2, SizesAssumption DEF Prefetch
  <2>3. r \in Locals /\ r.call = "prefetch" /\ r.mine = NoBuffer
    BY <2>1, <2>2, WantedFacts DEF Getting
  <2>4. ~r.res
    BY <2>1 DEF Wanted, Rest
  <2>5. BufioNew(t, r) /\ lock = Nobody /\ loc[t].mine = NoBuffer
    BY <1>2, <2>1 DEF Prefetch
  <2>6. Unseen(t)
    BY <1>0, <2>3, <2>4, <2>5, BufioNewUnseen DEF Getting
  <2> QED
    BY <2>5, <2>6, BufioNewUnaltered
<1>3. ASSUME WriteAsync(t) \/ Destroy(t) PROVE Unseen(t) /\ Unaltered
  <2>1. ASSUME NEW c, NEW y, StartWriteBack(t, c, y)
        PROVE  pc'[t] = "wb" /\ loc'[t].call = c /\ loc'[t].mine = loc[t].mine /\ loc'[t].res = loc[t].res
    BY <1>0, <2>1 DEF StartWriteBack, Locals, Go, ThreadsInv, ThreadsType
  <2>2. /\ pc'[t] = "wb" /\ loc'[t].call \in {"async", "destroy"}
        /\ loc'[t].mine = loc[t].mine /\ loc'[t].res = loc[t].res
    BY <1>3, <2>1 DEF WriteAsync, Destroy
  <2>3. Unseen(t)
    BY <1>0, <2>2, BeginUnseen
  <2> QED
    BY <1>3, <2>3, UnalteredSame DEF WriteAsync, Destroy, cacheVars
<1>4. ASSUME Age(t) PROVE Unseen(t) /\ Unaltered
  <2>1. PICK x, y : Go(t, "age", [Rest(loc[t].mine) EXCEPT !.call = "age", !.walk = x, !.count = y])
    BY <1>4 DEF Age
  <2>2. pc'[t] = "age" /\ loc'[t].call = "age" /\ loc'[t].mine = loc[t].mine /\ ~loc'[t].res
    BY <1>0, <2>1 DEF Rest, Go, ThreadsInv, ThreadsType
  <2>3. Unseen(t)
    BY <1>0, <2>2, BeginUnseen DEF Workers
  <2> QED
    BY <1>4, <2>3, UnalteredSame DEF Age, cacheVars
<1>5. ASSUME NEW c \in ApiCalls, NEW n \in ScanSizes, Scan(t, c, n) PROVE Unseen(t) /\ Unaltered
  <2>1. PICK x : Go(t, "scan", [Rest(loc[t].mine) EXCEPT !.call = c, !.walk = x, !.left = n, !.count = n])
    BY <1>5 DEF Scan
  <2>2. pc'[t] = "scan" /\ loc'[t].call = c /\ loc'[t].mine = loc[t].mine /\ ~loc'[t].res
    BY <1>0, <2>1 DEF Rest, Go, ThreadsInv, ThreadsType
  <2>3. Unseen(t)
    BY <1>0, <1>5, <2>2, BeginUnseen DEF Workers, Scan
  <2> QED
    BY <1>5, <2>3, UnalteredSame DEF Scan, cacheVars
<1> QED
  BY <1>1, <1>2, <1>3, <1>4, <1>5

\* The next block of a prefetch, or another turn of __bufio_new.
LEMMA LookupSilent ==
  ASSUME ThreadsInv, CacheInv, NEW t \in Threads, Known(t), Lookup(t)
  PROVE  Unseen(t) /\ Unaltered
<1>1. ThreadOK(pc[t], loc[t]) /\ loc[t] \in Locals /\ PointsOf(pc[t], loc[t]) /\ pc[t] \in {"lookup", "relock"}
  BY DEF Known, Lookup
<1>2. loc[t].call \in Getting \ {"get"} /\ loc[t].mine = NoBuffer
      /\ (loc[t].call # "prefetch" => loc[t].left = 0)
  BY <1>1 DEF Lookup, ThreadOK, Possession, PointsOf, Getting, Locals
<1>3. lock \in {t, Nobody} /\ BufioNew(t, loc[t])
  BY <1>1, ThreadFacts DEF Lookup
<1>4. Unseen(t)
  BY <1>1, <1>2, <1>3, BufioNewUnseen
<1> QED
  BY <1>3, <1>4, BufioNewUnaltered

\* A turn of the allocation.
LEMMA AllocSilent ==
  ASSUME ThreadsInv, CacheInv, NEW t \in Threads, Known(t), Alloc(t)
  PROVE  Unseen(t) /\ Unaltered
<1>1. ThreadOK(pc[t], loc[t]) /\ loc[t] \in Locals /\ pc[t] = "alloc"
  BY DEF Known, Alloc
<1>2. loc[t].mine = NoBuffer
  BY <1>1 DEF ThreadOK, Possession, Locals
<1>3. Unaltered
  <2>1. (\E b \in Buffers : Take(b)) \/ UNCHANGED buf
    BY DEF Alloc, Lend, List, cacheVars
  <2> QED
    BY <2>1, UnalteredTake, UnalteredSame
<1>4. GiveUp(t, loc[t]) /\ loc[t].call = "prefetch" => Unseen(t)
  BY <1>1, <1>2, GiveUpUnseen
<1> QED
  BY <1>3, <1>4, AllocPlain, PlainUnseen

\* A new buffer is linked: nobody had it before.
LEMMA LinkNewSilent ==
  ASSUME ThreadsInv, CacheInv, NEW t \in Threads, Known(t), LinkNew(t)
  PROVE  Unseen(t) /\ Unaltered
<1>r. PICK r : r = loc[t]
  OBVIOUS
<1>b. PICK b : b = r.newb
  OBVIOUS
<1>1. /\ ThreadOK("link", r) /\ r \in Locals /\ PointsOf("link", r) /\ LockHolderOK("link", r) /\ pc[t] = "link"
      /\ lock = t
  BY <1>r, ThreadFacts DEF Known, LinkNew, CacheInv
<1>2. /\ r.call \in Getting \ {"get"} /\ r.mine = NoBuffer /\ b \in Buffers /\ buf[b].where = "hand"
      /\ r.call # "prefetch" => r.left = 0
  BY <1>1, <1>b DEF ThreadOK, Possession, PointsOf, Locals, Inserting, LockHolderOK, InHand, Getting
<1>3. PICK after : after = IF r.call = "new" THEN "wait" ELSE "submit"
  OBVIOUS
<1>s. PICK s : s = [r EXCEPT !.mine = b, !.newb = NoBuffer, !.then = after, !.lim = 0]
  OBVIOUS
<1>4. PICK l \in {"flush", after} : Go(t, l, s)
  BY <1>r, <1>b, <1>3, <1>s DEF LinkNew
<1>5. /\ s.call = r.call /\ s.blk = r.blk /\ s.res = r.res /\ s.snap = r.snap /\ s.mine = b
      /\ s.left = r.left /\ s.then = after
  BY <1>1, <1>s DEF Locals
<1>6. pc'[t] = l /\ loc'[t] = s /\ \A u \in Threads \ {t} : Unmoved(u)
  BY <1>4, OthersUnmoved
<1>7. PICK x : x = [buf[b] EXCEPT !.block = r.blk, !.hold = 1, !.err = {},
                      !.state = IF r.call = "new" THEN {} ELSE {"reading"}]
  OBVIOUS
<1>8. buf' = [buf EXCEPT ![b] = [x EXCEPT !.where = "clean"]]
  BY <1>r, <1>b, <1>7 DEF LinkNew, Link
<1>9. buf'[b].block = r.blk /\ \A c \in Buffers \ {b} : buf'[c] = buf[c]
  BY <1>2, <1>7, <1>8 DEF CacheInv, IndexInv, Buffer
<1>10. Unaltered
  BY <1>2, <1>9 DEF Unaltered, Linked, Lists
<1>11. Home(b)' = r.blk
  <2>1. pc'[t] # "movecopy"
    BY <1>3, <1>6
  <2> QED
    BY <1>1, <1>6, <1>9, <2>1, NobodyLendsNext
<1>12. CallOf(pc'[t], loc'[t]) = CallOf(pc[t], loc[t]) /\ WantOf(loc'[t]) = WantOf(loc[t])
  BY <1>r, <1>1, <1>2, <1>5, <1>6 DEF CallOf, Asks, WantOf, Getting
<1>13. PointsOf(pc'[t], loc'[t])
  BY <1>2, <1>3, <1>5, <1>6 DEF PointsOf, Moving, Getting
<1>14. SameHand(t)
  BY <1>r, <1>2, <1>5, <1>6, <1>11 DEF SameHand
<1>15. (loc'[t].res => loc[t].res) /\ pc[t] # "movecopy" /\ pc'[t] # "movecopy"
  BY <1>r, <1>1, <1>3, <1>5, <1>6
<1> QED
  BY <1>10, <1>12, <1>13, <1>14, <1>15 DEF Unseen

\* No step of a flush but its last two is seen.
LEMMA SyncSilent ==
  ASSUME ThreadsInv, CacheInv, NEW t \in Threads, Known(t),
         SyncWalk(t) \/ SyncVisit(t) \/ SyncPark(t) \/ SyncWake(t) \/ SyncRelock(t) \/ SyncEnd(t)
  PROVE  Unseen(t) /\ Unaltered
<1>1. Unseen(t)
  BY SyncPlain, PlainUnseen
<1>2. UNCHANGED buf => Unaltered
  BY UnalteredSame
<1>3. ASSUME NEW b \in Buffers, Settle(b, buf[b]) PROVE Unaltered
  <2>1. buf[b] \in Buffer
    BY DEF CacheInv, IndexInv
  <2> QED
    BY <1>3, <2>1, UnalteredSettle
<1>4. SyncVisit(t) => Unaltered
  <2> SUFFICES ASSUME NEW b \in loc[t].walk,
                      \/ buf' = [buf EXCEPT ![b].hold = @ + 1]
                      \/ Settle(b, buf[b])
               PROVE  Unaltered
    <3>1. [loc[t] EXCEPT !.count = Processed(loc[t])].walk = loc[t].walk
      BY DEF Known, Locals
    <3> QED
      BY <1>2, <3>1 DEF SyncVisit, Oldest
  <2>1. b \in Buffers
    BY DEF Known, Locals
  <2>2. CASE buf' = [buf EXCEPT ![b].hold = @ + 1]
    <3>1. buf' = [buf EXCEPT ![b] = [buf[b] EXCEPT !.hold = buf[b].hold + 1]]
      BY <2>1, <2>2 DEF CacheInv, IndexInv
    <3> QED
      BY <2>1, <3>1, HoldFacts, UnalteredBut
  <2> QED
    BY <1>3, <2>1, <2>2
<1>5. SyncPark(t) \/ SyncRelock(t) => loc[t].cur \in Buffers
  BY DEF SyncPark, SyncRelock, Known, ThreadOK, Possession
<1>6. SyncPark(t) => Unaltered
  BY <1>3, <1>5 DEF SyncPark
<1>7. SyncRelock(t) => Unaltered
  <2> SUFFICES ASSUME NEW b \in Buffers, b = loc[t].cur, pc[t] = "syncrelock", Settle(b, Unhold(buf[b]))
               PROVE  Unaltered
    BY <1>5 DEF SyncRelock
  <2>1. PICK r : r = [buf[b] EXCEPT !.hold = buf[b].hold - 1]
    OBVIOUS
  <2>2. buf[b].hold \in Nat \ {0}
    BY HeldLinked DEF Flushing
  <2>3. buf[b].hold - 1 \in Nat
    BY <2>2
  <2>4. r \in Buffer /\ r.block = buf[b].block /\ r.gen = buf[b].gen
    BY <2>1, <2>3, HoldFacts
  <2>5. Settle(b, r)
    BY <2>1 DEF Unhold
  <2> QED
    BY <2>4, <2>5, UnalteredSettle
<1> QED
  BY <1>1, <1>2, <1>4, <1>6, <1>7 DEF SyncWalk, SyncWake, SyncEnd, cacheVars

\* Nor is what happens before and after a buffer is got, ...
LEMMA GettingSilent ==
  ASSUME ThreadsInv, CacheInv, NEW t \in Threads, Known(t),
         WakeUp(t) \/ Recheck(t) \/ Watermark(t) \/ SubmitRead(t) \/ Flush(t)
  PROVE  Unseen(t) /\ Unaltered
<1>1. Unseen(t)
  BY GettingPlain, FlushPlain, PlainUnseen, BackUnseen
<1>2. Recheck(t) => Unaltered
  BY UnalteredFree, UnalteredSame DEF Recheck, cacheVars
<1> QED
  BY <1>1, <1>2, UnalteredSame DEF WakeUp, Watermark, SubmitRead, Flush, cacheVars

\* ... nor an eviction or a write-back, ...
LEMMA EvictSilent ==
  ASSUME ThreadsInv, CacheInv, NEW t \in Threads, Known(t), CleanWrite(t) \/ CleanDone(t) \/ WriteBack(t)
  PROVE  Unseen(t) /\ Unaltered
<1>0. loc[t] \in Locals /\ (CleanWrite(t) \/ CleanDone(t) => loc[t].cur \in Buffers)
  BY DEF CleanWrite, CleanDone, Known, ThreadOK, Possession
<1>1. CleanWrite(t) => Unseen(t) /\ Unaltered
  BY <1>0, StillUnseen, UnalteredWrite DEF CleanWrite
<1>2. CleanDone(t) => Unseen(t) /\ Unaltered
  BY <1>0, CleanPlain, PlainUnseen, BackUnseen, UnalteredTake, UnalteredFree DEF CleanDone
<1>3. WriteBack(t) => Unaltered
  <2> SUFFICES ASSUME NEW b \in loc[t].walk, Link(b, buf[b], "clean") \/ StartWrite(b) PROVE Unaltered
    BY UnalteredSame DEF WriteBack, Oldest
  <2>1. b \in Buffers /\ buf[b] \in Buffer
    BY <1>0 DEF Locals, CacheInv, IndexInv
  <2> QED
    BY <2>1, UnalteredLink, UnalteredWrite
<1> QED
  BY <1>1, <1>2, <1>3, WriteBackPlain, PlainUnseen

\* ... nor the search of a move, the shrinker, the age worker and a destroyer.
LEMMA WorkSilent ==
  ASSUME ThreadsInv, CacheInv, NEW t \in Threads, Known(t),
         MoveFind(t) \/ MoveWrite(t) \/ ScanVisit(t) \/ AgeVisit(t) \/ DropStart(t) \/ Drop(t)
  PROVE  Unseen(t) /\ Unaltered
<1>1. Unseen(t)
  BY MovePlain, WorkerPlain, PlainUnseen, BackUnseen
<1>2. MoveWrite(t) => Unaltered
  <2>1. MoveWrite(t) => loc[t].mine \in Buffers
    BY DEF MoveWrite, Known, ThreadOK, Possession, Moving
  <2> QED
    BY <2>1, UnalteredWrite, UnalteredSame DEF MoveWrite
<1>3. AgeVisit(t) => Unaltered
  BY UnalteredFree, UnalteredSame DEF AgeVisit, cacheVars
<1> QED
  BY <1>1, <1>2, <1>3, UnalteredSame DEF MoveFind, ScanVisit, DropStart, Drop, cacheVars

\* A read that has failed, or a buffer that is still to be overwritten, goes on.
LEMMA WaitReadSilent ==
  ASSUME ThreadsInv, NEW t \in Threads, Known(t), WaitRead(t), ~Return(t, loc[t].mine)
  PROVE  Unseen(t) /\ Unaltered
<1>1. /\ ThreadOK("wait", loc[t]) /\ loc[t] \in Locals /\ PointsOf("wait", loc[t]) /\ pc[t] = "wait"
      /\ loc'[t] = loc[t] /\ (pc'[t] = "release" \/ (pc'[t] = "overwrite" /\ loc[t].call = "new"))
  BY GoFacts DEF Known, WaitRead
<1>2. loc[t].call \in Getting \ {"prefetch"}
  BY <1>1 DEF ThreadOK, Possession, PointsOf
<1>3. Plain(t)
  BY <1>1, <1>2 DEF Plain, SameCall, Asks, PointsOf, Moving, Getting
<1> QED
  BY <1>3, PlainUnseen, UnalteredSame DEF WaitRead, cacheVars

-----------------------------------------------------------------------------
(* From the state of the code to that of the block cache.                  *)

\* A buffer that nobody lends or takes back stays the buffer of its block.
LEMMA HomeStays ==
  ASSUME ThreadsInv, ThreadsInv', Unaltered, NEW t \in Threads, \A u \in Threads \ {t} : Unmoved(u),
         pc[t] # "movecopy", pc'[t] # "movecopy", NEW b \in Linked \cap Linked'
  PROVE  Home(b)' = Home(b)
<1>1. \A u \in Threads : /\ pc[u] = "movecopy" => lock = u
                         /\ pc'[u] = "movecopy" => lock' = u
  BY DEF ThreadsInv, LockOwner
<1>2. CASE Lent(b)
  <2>1. PICK u \in Threads \ {t} : pc[u] = "movecopy" /\ loc[u].mine = b
    BY <1>2 DEF Lent
  <2>2. pc'[u] = "movecopy" /\ loc'[u] = loc[u] /\ lock = u /\ lock' = u
    BY <1>1, <2>1 DEF Unmoved
  <2>3. Lent(b)'
    BY <2>1, <2>2 DEF Lent
  <2> QED
    BY <1>2, <2>2, <2>3 DEF Home
<1>3. CASE ~Lent(b)
  <2>1. ~Lent(b)'
    BY <1>3 DEF Lent, Unmoved
  <2> QED
    BY <1>3, <2>1 DEF Home, Unaltered
<1> QED
  BY <1>2, <1>3

\* What a client has in its hands is in the index before and after a step of another.
LEMMA HeldStays ==
  ASSUME ThreadsInv, CacheInv, CacheInv', NEW u \in Threads, loc'[u].mine = loc[u].mine,
         loc[u].mine \in Buffers
  PROVE  loc[u].mine \in Linked \cap Linked'
BY HeldLinked, HeldNext

\* So it keeps it.
LEMMA HandsStay ==
  ASSUME ThreadsInv, ThreadsInv', CacheInv, CacheInv', Unaltered, NEW t \in Threads,
         \A u \in Threads \ {t} : Unmoved(u), pc[t] # "movecopy", pc'[t] # "movecopy",
         NEW u \in Threads, loc'[u].mine = loc[u].mine, loc'[u].call \in Getting <=> loc[u].call \in Getting
  PROVE  /\ HandOf(loc[u])' = HandOf(loc[u])
         /\ loc[u].mine \in Buffers => Home(loc[u].mine)' = Home(loc[u].mine)
<1>1. CASE loc[u].mine \notin Buffers
  BY <1>1 DEF HandOf
<1>2. CASE loc[u].mine \in Buffers
  <2>1. PICK b \in Linked \cap Linked' : b = loc[u].mine /\ b = loc'[u].mine /\ b \in Buffers
    BY <1>2, HeldStays
  <2>2. Home(b)' = Home(b) /\ buf'[b].gen = buf[b].gen
    BY HomeStays DEF Unaltered
  <2> QED
    BY <2>1, <2>2 DEF HandOf
<1> QED
  BY <1>1, <1>2

\* A step of one thread, as the block cache sees it.
LEMMA Mapped ==
  ASSUME NEW t \in Threads, \A u \in Threads \ {t} : Unmoved(u)
  PROVE  /\ Asked' = [Asked EXCEPT ![t] = CallOf(pc'[t], loc'[t])]
         /\ Wanting' = [Wanting EXCEPT ![t] = WantOf(loc'[t])]
         /\ (\A u \in Threads \ {t} : HandOf(loc[u])' = HandOf(loc[u]))
              => Hands' = [Hands EXCEPT ![t] = HandOf(loc[t])']
         /\ loc'[t].res => Erring' = Erring \cup {t}
         /\ ~loc'[t].res => Erring' = Erring \ {t}
<1>1. Asked' = [Asked EXCEPT ![t] = CallOf(pc'[t], loc'[t])]
  BY DEF Asked, Unmoved
<1>2. Wanting' = [Wanting EXCEPT ![t] = WantOf(loc'[t])]
  BY DEF Wanting, Unmoved
<1>3. (\A u \in Threads \ {t} : HandOf(loc[u])' = HandOf(loc[u]))
         => Hands' = [Hands EXCEPT ![t] = HandOf(loc[t])']
  BY DEF Hands
<1>4. (loc'[t].res => Erring' = Erring \cup {t}) /\ (~loc'[t].res => Erring' = Erring \ {t})
  BY DEF Erring, Unmoved
<1> QED
  BY <1>1, <1>2, <1>3, <1>4

\* Nothing the block cache knows of a thread changes.
LEMMA UnseenMapped ==
  ASSUME ThreadsInv, ThreadsInv', CacheInv, CacheInv', Unaltered, NEW t \in Threads,
         \A u \in Threads \ {t} : Unmoved(u), Unseen(t)
  PROVE  Asked' = Asked /\ Wanting' = Wanting /\ Hands' = Hands /\ Erring' \in {Erring, Erring \ {t}}
<1>1. Asked' = Asked /\ Wanting' = Wanting
  BY Mapped DEF Unseen, Asked, Wanting
<1>2. HandOf(loc[t])' = HandOf(loc[t])
  <2>1. NoBuffer \notin Buffers
    BY BuffersAssumption
  <2>2. CASE loc'[t].mine = loc[t].mine /\ (loc'[t].call \in Getting <=> loc[t].call \in Getting)
    BY <2>2, HandsStay DEF Unseen
  <2>3. CASE /\ loc[t].mine = NoBuffer \/ loc[t].call \in Getting
             /\ loc'[t].mine = NoBuffer \/ loc'[t].call \in Getting
    BY <2>1, <2>3 DEF HandOf
  <2> QED
    BY <2>2, <2>3 DEF Unseen, SameHand
<1>3. \A u \in Threads \ {t} : HandOf(loc[u])' = HandOf(loc[u])
  BY HandsStay DEF Unseen, Unmoved
<1>4. Hands' = Hands
  BY <1>2, <1>3 DEF Hands
<1>5. Erring' \in {Erring, Erring \ {t}}
  <2>1. loc[t].res => Erring \cup {t} = Erring
    BY DEF Erring
  <2> QED
    BY <2>1, Mapped DEF Unseen
<1> QED
  BY <1>1, <1>4, <1>5

\* A step its client does not see is one of the block cache in which nothing happens.
LEMMA UnseenStep ==
  ASSUME ThreadsInv, ThreadsInv', CacheInv, CacheInv', Unaltered, NEW t \in Threads,
         \A u \in Threads \ {t} : Unmoved(u), Unseen(t), UNCHANGED deviceVars,
         status # "closed", status' # "closed"
  PROVE  Cache!Next
<1>1. Asked' = Asked /\ Wanting' = Wanting /\ Hands' = Hands /\ Erring' \in {Erring, Erring \ {t}}
  BY UnseenMapped
<1>2. Cache!Other(t)
  BY <1>1 DEF Cache!Other, Cache!Calling, Cache!device, deviceVars
<1> QED
  BY <1>2 DEF Cache!Next, Cache!Client

\* What a thread waits for stays the buffer of its block.
LEMMA ServedStays ==
  ASSUME ThreadsInv, ThreadsInv', CacheInv, CacheInv', Unaltered, Served, NEW t \in Threads,
         \A u \in Threads \ {t} : Unmoved(u), pc[t] # "movecopy", pc'[t] # "movecopy",
         loc'[t].call \in Getting /\ loc'[t].mine \in Buffers => Home(loc[t].mine)' = loc'[t].blk
  PROVE  Served'
<1>1. ASSUME NEW u \in Threads \ {t}, loc'[u].call \in Getting, loc'[u].mine \in Buffers
      PROVE  Home(loc[u].mine)' = loc'[u].blk
  <2>1. Home(loc[u].mine)' = Home(loc[u].mine)
    BY <1>1, HandsStay DEF Unmoved
  <2> QED
    BY <1>1, <2>1 DEF Unmoved, Served
<1> QED
  BY <1>1 DEF Served

\* In particular after a step that is not seen.
LEMMA UnseenServed ==
  ASSUME ThreadsInv, ThreadsInv', CacheInv, CacheInv', Unaltered, Served, NEW t \in Threads,
         \A u \in Threads \ {t} : Unmoved(u), Unseen(t)
  PROVE  Served'
<1>1. ASSUME loc'[t].call \in Getting, loc'[t].mine \in Buffers PROVE Home(loc[t].mine)' = loc'[t].blk
  <2>1. loc'[t].mine # NoBuffer
    BY <1>1, BuffersAssumption
  <2>2. CASE loc'[t].mine = loc[t].mine /\ loc[t].call \in Getting /\ loc'[t].blk = loc[t].blk
    <3>1. Home(loc[t].mine)' = Home(loc[t].mine)
      BY <1>1, <2>2, HandsStay DEF Unseen
    <3> QED
      BY <1>1, <2>2, <3>1 DEF Served
  <2> QED
    BY <1>1, <2>1, <2>2 DEF Unseen, SameHand
<1> QED
  BY <1>1, ServedStays DEF Unseen

-----------------------------------------------------------------------------
(* The order of writes.                                                    *)

\* A step that starts a write only of the last content keeps the order.
LEMMA WritesKept ==
  ASSUME Base, WritesInOrder, latest' \in Snapshot, disk' = disk,
         \A k \in Blocks : latest[k] <= latest'[k],
         \A b \in Buffers : \/ io'[b] = io[b]
                            \/ io'[b].rw # "write"
                            \/ io'[b].block \in Blocks /\ io'[b].gen = latest'[io'[b].block]
  PROVE  WritesInOrder'
<1>0. disk \in Snapshot /\ latest \in Snapshot
  BY DEF Base, CacheInv, DataType, ThreadsInv, ThreadsType
<1>1. \A k \in Blocks : disk[k] \in Nat /\ latest[k] \in Nat /\ latest'[k] \in Nat
  BY <1>0, MaxGenAssumption DEF Snapshot, Gens
<1>2. \A k \in Blocks : disk'[k] <= latest'[k]
  BY <1>1 DEF WritesInOrder
<1>3. ASSUME NEW b \in Buffers, io'[b].rw = "write"
      PROVE  disk'[io'[b].block] <= io'[b].gen /\ io'[b].gen <= latest'[io'[b].block]
  <2>1. CASE io'[b] = io[b]
    <3>1. io[b].block \in Blocks /\ io[b].gen \in Nat
      BY <1>3, <2>1, BufferFacts, MaxGenAssumption DEF Request, Gens
    <3> QED
      BY <1>1, <1>3, <2>1, <3>1 DEF WritesInOrder
  <2>2. CASE io'[b].block \in Blocks /\ io'[b].gen = latest'[io'[b].block]
    BY <1>1, <1>2, <2>2
  <2> QED
    BY <1>3, <2>1, <2>2
<1> QED
  BY <1>2, <1>3 DEF WritesInOrder

\* Most steps start none and change no block.
LEMMA WritesSame ==
  ASSUME Base, WritesInOrder, UNCHANGED <<io, disk, latest>>
  PROVE  WritesInOrder'
BY DEF WritesInOrder

\* A buffer that is dirty, or that somebody has promised to write, has the last content.
LEMMA WritesSubmit ==
  ASSUME Base, Lasting, WritesInOrder, NEW b \in Linked, UNCHANGED <<disk, latest>>,
         \/ "dirty" \in buf[b].state
         \/ "writing" \in buf[b].state /\ io[b].rw # "write",
         Submit(b, "write", buf[b].block, buf[b].gen)
  PROVE  WritesInOrder'
<1>1. b \in Buffers /\ buf[b].block \in Blocks
  BY DEF Linked, Base, CacheInv, IndexInv, LinkedHasBlock
<1>2. buf[b].gen = latest[buf[b].block]
  <2>1. CASE "dirty" \in buf[b].state
    BY <1>1, <2>1 DEF Lasting, ContentInv, ContentOf
  <2>2. CASE "writing" \in buf[b].state /\ io[b].rw # "write"
    <3>1. ~Lent(b)
      BY <2>2 DEF Lent, Lasting, ContentInv, Keeping
    <3> QED
      BY <1>1, <2>2, <3>1 DEF Lasting, ContentInv, ContentOf
  <2> QED
    BY <2>1, <2>2
<1>3. /\ io'[b].block = buf[b].block /\ io'[b].gen = latest'[buf[b].block]
      /\ \A c \in Buffers \ {b} : io'[c] = io[c]
  BY <1>1, <1>2, SubmitGen DEF Base
<1>4. latest \in Snapshot /\ \A k \in Blocks : latest[k] \in Nat
  BY MaxGenAssumption DEF Base, ThreadsInv, ThreadsType, Snapshot, Gens
<1> QED
  BY <1>1, <1>3, <1>4, WritesKept

\* Making a buffer dirty makes new content.
LEMMA WritesDirty ==
  ASSUME Base, WritesInOrder, UNCHANGED <<io, disk>>, NEW k \in Blocks,
         latest' = [latest EXCEPT ![k] = Bump(latest[k])]
  PROVE  /\ WritesInOrder' /\ latest' \in Snapshot
         /\ \A j \in Blocks : latest[j] <= latest'[j]
<1>1. latest \in Snapshot /\ \A j \in Blocks : latest[j] \in Nat /\ latest[j] \in Gens
  BY MaxGenAssumption DEF Base, ThreadsInv, ThreadsType, Snapshot, Gens
<1>2. Bump(latest[k]) \in Gens /\ latest[k] <= Bump(latest[k])
  BY <1>1, BumpFacts
<1>3. latest' \in Snapshot /\ \A j \in Blocks : latest[j] <= latest'[j]
  BY <1>1, <1>2 DEF Snapshot
<1> QED
  BY <1>3, WritesKept

\* The steps of a thread keep the order.
LEMMA StartWrites ==
  ASSUME Base, Lasting, WritesInOrder, NEW t \in Threads, Start(t) \/ ReleaseRef(t)
  PROVE  WritesInOrder'
<1>1. UNCHANGED <<io, disk, latest>> \/ MarkDirty(t)
  BY DEF Start, ReleaseRef, NewRead, Prefetch, Forget, Move, WriteAsync, Sync, Age, Destroy, Scan,
         ioVars, deviceVars
<1>2. CASE MarkDirty(t)
  <2>1. loc[t].mine \in Buffers
    BY <1>2, ThreadFacts DEF MarkDirty, Locals, Base
  <2>2. buf[loc[t].mine].block \in Blocks
    BY <2>1, HeldLinked DEF Base
  <2> QED
    BY <1>2, <2>2, WritesDirty DEF MarkDirty, MakeDirty, ioVars
<1> QED
  BY <1>1, <1>2, WritesSame

\* A step of a call that has begun keeps the order of writes.
LEMMA ContinueWrites ==
  ASSUME Base, Lasting, WritesInOrder, NEW t \in Threads, Continue(t)
  PROVE  WritesInOrder'
<1>0. ThreadOK(pc[t], loc[t]) /\ loc[t] \in Locals
  BY ThreadFacts DEF Base
<1>1. \/ UNCHANGED <<io, disk, latest>>
      \/ Flush(t) \/ SubmitRead(t) \/ Overwrite(t) \/ CleanWrite(t) \/ MoveWrite(t) \/ MoveRelink(t)
  <2>1. Lookup(t) \/ Alloc(t) \/ WakeUp(t) \/ Recheck(t) \/ Watermark(t) \/ LinkNew(t) \/ WaitRead(t)
        \/ CleanDone(t) \/ WriteBack(t) => UNCHANGED <<io, disk, latest>>
    BY DEF Lookup, Alloc, WakeUp, Recheck, Watermark, LinkNew, WaitRead, CleanDone, WriteBack,
           ioVars, deviceVars
  <2>2. SyncWalk(t) \/ SyncVisit(t) \/ SyncPark(t) \/ SyncWake(t) \/ SyncRelock(t) \/ SyncEnd(t)
        \/ TakeError(t) \/ IssueFlush(t) => UNCHANGED <<io, disk, latest>>
    BY DEF SyncWalk, SyncVisit, SyncPark, SyncWake, SyncRelock, SyncEnd, TakeError, IssueFlush,
           ioVars, deviceVars
  <2>3. MoveFind(t) \/ MoveCopied(t) \/ ScanVisit(t) \/ AgeVisit(t) \/ DropStart(t) \/ Drop(t)
        \/ Unregister(t) => UNCHANGED <<io, disk, latest>>
    BY DEF MoveFind, MoveCopied, ScanVisit, AgeVisit, DropStart, Drop, Unregister, ioVars,
           deviceVars
  <2> QED
    BY <2>1, <2>2, <2>3 DEF Continue
<1>2. CASE Flush(t)
  <2>1. UNCHANGED <<disk, latest>>
    BY <1>2 DEF Flush, deviceVars
  <2>2. ASSUME NEW b \in loc[t].wl, Submit(b, "write", buf[b].block, buf[b].gen) PROVE WritesInOrder'
    <3>1. b \in Buffers /\ "writing" \in buf[b].state /\ io[b].rw # "write"
      BY <1>0 DEF Locals, Base, BitsInv, Promises
    <3>2. b \in Linked
      BY <3>1, BufferFacts
    <3> QED
      BY <2>1, <2>2, <3>1, <3>2, WritesSubmit
  <2> QED
    BY <1>2, <2>1, <2>2, WritesSame DEF Flush
<1>3. CASE SubmitRead(t)
  <2>1. loc[t].mine \in Buffers /\ UNCHANGED <<disk, latest>>
    BY <1>0, <1>3 DEF SubmitRead, ThreadOK, Possession, deviceVars
  <2>2. io'[loc[t].mine].rw = "read" /\ \A c \in Buffers \ {loc[t].mine} : io'[c] = io[c]
    BY <1>3, <2>1, SubmitGen DEF SubmitRead, Base
  <2>3. latest \in Snapshot /\ \A k \in Blocks : latest[k] \in Nat
    BY MaxGenAssumption DEF Base, ThreadsInv, ThreadsType, Snapshot, Gens
  <2> QED
    BY <2>1, <2>2, <2>3, WritesKept
<1>4. CASE Overwrite(t)
  <2>1. loc[t].mine \in Buffers
    BY <1>0, <1>4 DEF Overwrite, ThreadOK, Possession
  <2>2. buf[loc[t].mine].block \in Blocks
    BY <2>1, HeldLinked DEF Base
  <2> QED
    BY <1>4, <2>2, WritesDirty DEF Overwrite, MakeDirty, ioVars
<1>5. CASE CleanWrite(t)
  <2>1. loc[t].cur \in Buffers /\ "dirty" \in buf[loc[t].cur].state
    BY <1>0, <1>5 DEF CleanWrite, ThreadOK, Possession, Writable
  <2>2. loc[t].cur \in Linked
    BY <2>1, BufferFacts
  <2> QED
    BY <1>5, <2>1, <2>2, WritesSubmit DEF CleanWrite, deviceVars
<1>6. CASE MoveWrite(t)
  <2>1. loc[t].mine \in Buffers
    BY <1>0, <1>6 DEF MoveWrite, ThreadOK, Possession, Moving
  <2>2. loc[t].mine \in Linked /\ UNCHANGED <<disk, latest>>
    BY <1>6, <2>1, HeldLinked DEF Base, MoveWrite, deviceVars
  <2> QED
    BY <1>6, <2>2, WritesSubmit, WritesSame DEF MoveWrite, Writable
<1>7. CASE MoveRelink(t)
  <2>1. loc[t].mine \in Buffers /\ loc[t].blk \in Blocks
    BY <1>0, <1>7 DEF MoveRelink, ThreadOK, Possession, Moving
  <2>2. CASE UNCHANGED io
    BY <1>7, <2>1, <2>2, WritesDirty DEF MoveRelink
  <2>3. CASE Submit(loc[t].mine, "write", loc[t].blk, Bump(latest[loc[t].blk]))
    <3>1. \A k \in Blocks : latest[k] \in Gens /\ latest[k] \in Nat
      BY MaxGenAssumption DEF Base, ThreadsInv, ThreadsType, Snapshot, Gens
    <3>2. latest' \in Snapshot /\ \A k \in Blocks : latest[k] <= latest'[k]
      <4>1. Bump(latest[loc[t].blk]) \in Gens /\ latest[loc[t].blk] <= Bump(latest[loc[t].blk])
        BY <2>1, <3>1, BumpFacts
      <4> QED
        BY <1>7, <2>1, <3>1, <4>1 DEF MoveRelink, Base, ThreadsInv, ThreadsType, Snapshot
    <3>3. /\ io'[loc[t].mine].block = loc[t].blk /\ io'[loc[t].mine].gen = latest'[loc[t].blk]
          /\ \A c \in Buffers \ {loc[t].mine} : io'[c] = io[c]
      BY <1>7, <2>1, <2>3 DEF MoveRelink, Submit, Base, CacheInv, DataType, ThreadsInv,
             ThreadsType, Snapshot
    <3> QED
      BY <1>7, <2>1, <3>2, <3>3, WritesKept DEF MoveRelink
  <2> QED
    BY <1>7, <2>2, <2>3 DEF MoveRelink
<1> QED
  BY <1>1, <1>2, <1>3, <1>4, <1>5, <1>6, <1>7, WritesSame

-----------------------------------------------------------------------------
(* The device.                                                             *)

\* An interrupt moves no thread and gives no buffer to another block.
LEMMA DeviceStays ==
  ASSUME UNCHANGED <<lock, pc, loc>>, \A b \in Buffers : buf'[b].block = buf[b].block
  PROVE  /\ \A b \in Buffers : Home(b)' = Home(b)
         /\ Asked' = Asked /\ Wanting' = Wanting /\ Erring' = Erring
         /\ Served => Served'
         /\ CallInv => CallInv'
         /\ (\A t \in Threads : loc[t].mine \in Buffers /\ loc[t].call \notin Getting
                                  => buf'[loc[t].mine].gen = buf[loc[t].mine].gen)
              => Hands' = Hands
<1>1. \A b \in Buffers : Home(b)' = Home(b)
  BY DEF Home, Lent
<1>2. Asked' = Asked /\ Wanting' = Wanting /\ Erring' = Erring
  BY DEF Asked, Wanting, Erring
<1>3. Served => Served'
  BY <1>1 DEF Served
<1>4. CallInv => CallInv'
  BY DEF CallInv
<1>5. ASSUME \A t \in Threads : loc[t].mine \in Buffers /\ loc[t].call \notin Getting
                                  => buf'[loc[t].mine].gen = buf[loc[t].mine].gen
      PROVE  Hands' = Hands
  <2>1. \A t \in Threads : HandOf(loc[t])' = HandOf(loc[t])
    BY <1>1, <1>5 DEF HandOf
  <2> QED
    BY <2>1 DEF Hands
<1> QED
  BY <1>1, <1>2, <1>3, <1>4, <1>5

\* There is no request in flight, and no buffer, once the client is closed.
LEMMA ClosedQuiet ==
  ASSUME Base, ReserveInv, status = "closed", NEW b \in Buffers
  PROVE  io[b].rw = "none"
<1>1. buf[b].where = "free" /\ b \notin Linked
  BY DEF ReserveInv, ReserveAccounted, List, Linked, Lists
<1> QED
  BY <1>1, BufferFacts DEF Request

\* The end of a read is not seen: the buffer is in nobody's hands yet.
LEMMA ReadDoneStep ==
  ASSUME Base, CacheMapInv, NEW b \in Buffers, ReadDone(b)
  PROVE  UNCHANGED Cache!vars /\ CacheMapInv'
<1>1. "reading" \in buf[b].state /\ buf[b] \in Buffer
  BY BufferFacts DEF ReadDone
<1>2. /\ UNCHANGED <<lock, pc, loc>> /\ \A c \in Buffers : buf'[c].block = buf[c].block
      /\ \A c \in Buffers \ {b} : buf'[c] = buf[c]
  BY <1>1 DEF ReadDone, Base, CacheInv, IndexInv, Buffer
<1>3. \A t \in Threads : loc[t].mine = b => loc[t].call \in Getting
  BY <1>1 DEF Base, BitsInv, Promises, Reading
<1>4. Hands' = Hands
  BY <1>2, <1>3, DeviceStays
<1>5. UNCHANGED <<disk, latest>> /\ io' = [io EXCEPT ![b] = NoRequest]
  BY DEF ReadDone, deviceVars
<1>6. WritesInOrder'
  <2>1. \A c \in Buffers : io'[c] = io[c] \/ io'[c].rw # "write"
    BY <1>5 DEF NoRequest, Base, CacheInv, DataType
  <2>2. latest \in Snapshot /\ \A k \in Blocks : latest[k] \in Nat
    BY MaxGenAssumption DEF Base, ThreadsInv, ThreadsType, Snapshot, Gens
  <2> QED
    BY <1>5, <2>1, <2>2, WritesKept DEF CacheMapInv
<1>7. UNCHANGED Cache!vars
  BY <1>2, <1>4, DeviceStays DEF Cache!vars, Cache!device, ReadDone, deviceVars
<1> QED
  BY <1>2, <1>6, <1>7, DeviceStays DEF CacheMapInv

\* There are no two writes to one block on their way to the device.
LEMMA WriteAlone ==
  ASSUME Base, NEW b \in Buffers, io[b].rw = "write"
  PROVE  /\ io[b].block \in Blocks /\ io[b].gen \in Gens
         /\ \A c \in Buffers \ {b} : io[c].rw = "write" => io[c].block \in Blocks /\ io[c].block # io[b].block
<1>1. \A c \in Buffers : io[c].rw = "write" => c \in Linked /\ io[c].block = buf[c].block /\ io[c].block \in Blocks
  BY BufferFacts
<1>2. OneBufferPerBlock
  BY DEF Base, CacheInv, IndexInv
<1> QED
  BY <1>1, <1>2, BufferFacts DEF OneBufferPerBlock, Request

\* The end of a write is one of the device of the block cache.
LEMMA WriteDoneStep ==
  ASSUME Base, ReserveInv, CacheMapInv, NEW b \in Buffers, WriteDone(b)
  PROVE  Cache!Next /\ CacheMapInv'
<1>k. PICK k : k = io[b].block
  OBVIOUS
<1>g. PICK g : g = io[b].gen
  OBVIOUS
<1>1. /\ k \in Blocks /\ g \in Gens /\ buf[b] \in Buffer
      /\ \A c \in Buffers \ {b} : io[c].rw = "write" => io[c].block \in Blocks /\ io[c].block # k
  BY <1>k, <1>g, WriteAlone, BufferFacts DEF WriteDone
<1>2. /\ UNCHANGED <<lock, pc, loc>>
      /\ \A c \in Buffers : buf'[c].block = buf[c].block /\ buf'[c].gen = buf[c].gen
  BY <1>1 DEF WriteDone, Base, CacheInv, IndexInv, Buffer
<1>3. /\ Hands' = Hands /\ Asked' = Asked /\ Wanting' = Wanting /\ Erring' = Erring /\ Served' /\ CallInv'
  BY <1>2, DeviceStays DEF CacheMapInv
<1>4. UNCHANGED <<status, durable, latest>> /\ status # "closed"
  BY ClosedQuiet DEF WriteDone
<1>5. /\ disk \in Snapshot /\ latest \in Snapshot
      /\ \A j \in Blocks : disk[j] \in Nat /\ latest[j] \in Nat
      /\ disk[k] <= g /\ g <= latest[k] /\ g \in Nat
  BY <1>k, <1>g, <1>1, MaxGenAssumption
     DEF CacheMapInv, WritesInOrder, WriteDone, Base, CacheInv, DataType, ThreadsInv, ThreadsType, Snapshot, Gens
<1>6. io'[b] = NoRequest /\ \A c \in Buffers \ {b} : io'[c] = io[c]
  BY DEF WriteDone, Base, CacheInv, DataType
<1>7. CASE disk' = [disk EXCEPT ![k] = g] /\ failed' = failed \ {k} /\ reported' = reported \ {k}
  <2>1. Cache!Write(k)
    <3>1. g \in disk[k] .. latest[k]
      BY <1>1, <1>5
    <3>2. Cache!Quietly
      BY <1>3, <1>4 DEF Cache!Quietly
    <3> QED
      BY <1>3, <1>4, <1>7, <3>1, <3>2 DEF Cache!Write
  <2>2. WritesInOrder'
    <3>1. \A j \in Blocks : disk'[j] <= latest'[j]
      BY <1>1, <1>4, <1>5, <1>7 DEF CacheMapInv, WritesInOrder, Snapshot
    <3>2. ASSUME NEW c \in Buffers, io'[c].rw = "write"
          PROVE  disk'[io'[c].block] <= io'[c].gen /\ io'[c].gen <= latest'[io'[c].block]
      <4>1. c # b /\ io'[c] = io[c]
        BY <1>6, <3>2 DEF NoRequest
      <4>2. io[c].block \in Blocks \ {k}
        BY <1>1, <3>2, <4>1
      <4>3. disk'[io[c].block] = disk[io[c].block]
        BY <1>5, <1>7, <4>2 DEF Snapshot
      <4> QED
        BY <1>4, <3>2, <4>1, <4>3 DEF CacheMapInv, WritesInOrder
    <3> QED
      BY <3>1, <3>2 DEF WritesInOrder
  <2> QED
    BY <1>1, <1>3, <1>4, <2>1, <2>2 DEF Cache!Next, CacheMapInv
<1>8. CASE failed' = failed \cup {k} /\ UNCHANGED <<disk, reported>>
  <2>1. Cache!WriteFails(k)
    BY <1>3, <1>4, <1>8 DEF Cache!WriteFails, Cache!Quietly
  <2>2. \A c \in Buffers : io'[c] = io[c] \/ io'[c].rw # "write"
    BY <1>6 DEF NoRequest
  <2>3. WritesInOrder'
    BY <1>4, <1>5, <1>8, <2>2, WritesKept DEF CacheMapInv
  <2> QED
    BY <1>1, <1>3, <1>4, <2>1, <2>3 DEF Cache!Next, CacheMapInv
<1> QED
  BY <1>k, <1>g, <1>7, <1>8 DEF WriteDone

-----------------------------------------------------------------------------
(* The steps a client sees.                                                *)

\* What is known before a step of thread t, and what is known after it.
Whole == /\ ThreadsInv /\ CacheInv /\ BitsInv /\ LifeInv /\ ReserveInv
         /\ ContentInv /\ FlushInv /\ Syncing /\ CacheMapInv
Around(t) == Whole /\ ThreadsInv' /\ CacheInv' /\ \A u \in Threads \ {t} : Unmoved(u)

\* The whole invariant has what the lemmas about single steps ask for.
LEMMA WholeFacts ==
  ASSUME Whole
  PROVE  Base /\ Lasting /\ \A t \in Threads : Known(t)
BY ThreadFacts DEF Whole, Base, Lasting, Known, LifeInv, Syncing, CacheMapInv, CallInv

\* The step of a thread is one of the block cache, and keeps what the mapping needs.
Maps(t) == Cache!Next /\ Served' /\ PointsOf(pc'[t], loc'[t])

\* A thread in a call, or with a buffer, is with a client that was not destroyed.
LEMMA InUse ==
  ASSUME Whole, NEW t \in Threads, loc[t].mine # NoBuffer \/ pc[t] \notin {"idle", "destroyed"}
  PROVE  status # "closed"
BY DEF Whole, LifeInv

\* What is not seen.
LEMMA UnseenMaps ==
  ASSUME NEW t \in Threads, Around(t), Unseen(t), Unaltered, UNCHANGED deviceVars,
         status # "closed", status' # "closed"
  PROVE  Maps(t)
BY UnseenStep, UnseenServed DEF Maps, Around, Whole, CacheMapInv, Unseen

\* A step that changes what a thread asks for or has, and no buffer.
LEMMA OwnMapped ==
  ASSUME NEW t \in Threads, Around(t), Unaltered,
         pc[t] # "movecopy", pc'[t] # "movecopy",
         loc'[t].call \in Getting /\ loc'[t].mine \in Buffers => Home(loc[t].mine)' = loc'[t].blk
  PROVE  /\ Asked' = [Asked EXCEPT ![t] = CallOf(pc'[t], loc'[t])]
         /\ Wanting' = [Wanting EXCEPT ![t] = WantOf(loc'[t])]
         /\ Hands' = [Hands EXCEPT ![t] = HandOf(loc[t])']
         /\ loc'[t].res => Erring' = Erring \cup {t}
         /\ ~loc'[t].res => Erring' = Erring \ {t}
         /\ Served'
<1>1. \A u \in Threads \ {t} : HandOf(loc[u])' = HandOf(loc[u])
  BY HandsStay DEF Around, Whole, Unmoved
<1>2. Served'
  BY ServedStays DEF Around, Whole, CacheMapInv
<1> QED
  BY <1>1, <1>2, Mapped DEF Around

\* What the block cache knows of one thread.
LEMMA OfThread ==
  ASSUME NEW t \in Threads
  PROVE  Asked[t] = CallOf(pc[t], loc[t]) /\ Hands[t] = HandOf(loc[t]) /\ Wanting[t] = WantOf(loc[t])
BY DEF Asked, Hands, Wanting

\* A call asks for a block.
LEMMA AskMaps ==
  ASSUME NEW t \in Threads, Around(t), Unaltered, UNCHANGED deviceVars, UNCHANGED status, status # "closed",
         pc[t] = "idle", loc[t].call = "none", loc'[t].res => loc[t].res,
         NEW k \in Blocks, NEW op \in {"get", "new", "move"},
         CallOf(pc'[t], loc'[t]) = {[op |-> op, block |-> k]}, WantOf(loc'[t]) = {},
         HandOf(loc[t])' = HandOf(loc[t]), op # "move" => loc[t].mine = NoBuffer,
         pc'[t] # "movecopy", PointsOf(pc'[t], loc'[t]),
         loc'[t].call \in Getting /\ loc'[t].mine \in Buffers => Home(loc[t].mine)' = loc'[t].blk
  PROVE  Maps(t)
<1>1. CallOf(pc[t], loc[t]) = {} /\ WantOf(loc[t]) = {} /\ (op # "move" => HandOf(loc[t]) = {})
  BY BuffersAssumption DEF CallOf, Asks, WantOf, HandOf
<1>2. /\ Asked' = [Asked EXCEPT ![t] = {[op |-> op, block |-> k]}]
      /\ Wanting' = Wanting /\ Hands' = Hands /\ Served'
  <2>1. [Wanting EXCEPT ![t] = Wanting[t]] = Wanting /\ [Hands EXCEPT ![t] = Hands[t]] = Hands
    BY DEF Wanting, Hands
  <2>2. /\ Asked' = [Asked EXCEPT ![t] = CallOf(pc'[t], loc'[t])]
        /\ Wanting' = [Wanting EXCEPT ![t] = WantOf(loc'[t])]
        /\ Hands' = [Hands EXCEPT ![t] = HandOf(loc[t])']
        /\ Served'
    BY OwnMapped
  <2>3. Hands[t] = HandOf(loc[t])' /\ Wanting[t] = WantOf(loc'[t])
    BY <1>1, OfThread
  <2> QED
    BY <2>1, <2>2, <2>3
<1>3. Erring' \in {Erring, Erring \ {t}}
  <2>1. loc[t].res => Erring \cup {t} = Erring
    BY DEF Erring
  <2> QED
    BY <2>1, OwnMapped
<1>4. Cache!Ask(t, op, k)
  BY <1>1, <1>2, <1>3, OfThread DEF Cache!Ask, Cache!Calling, Cache!device, deviceVars
<1> QED
  BY <1>2, <1>4 DEF Maps, Cache!Next, Cache!Client

\* dm_bufio_read, dm_bufio_get and dm_bufio_new ask for a block, or find at once that
\* it is not there.
LEMMA NewReadMaps ==
  ASSUME NEW t \in Threads, Around(t), NEW c \in {"read", "new", "get"}, NEW k \in Blocks, NewRead(t, c, k)
  PROVE  Maps(t)
<1>0. PICK r : r = Wanted(c, k, 0)
  OBVIOUS
<1>1. r \in Locals /\ r.call = c /\ r.mine = NoBuffer /\ r.blk = k /\ r.left = 0 /\ ~r.res
  <2>1. \A i \in 0 .. 0 : k + i \in Blocks
    BY BlocksAssumption
  <2>2. r \in Locals /\ r.call = c /\ r.mine = NoBuffer
    BY <1>0, <2>1, WantedFacts DEF Getting
  <2> QED
    BY <1>0, <2>2 DEF Wanted, Rest
<1>2. /\ pc[t] = "idle" /\ loc[t].mine = NoBuffer /\ loc[t].call = "none" /\ lock = Nobody
      /\ status = "open" /\ UNCHANGED <<status, deviceVars>> /\ BufioNew(t, r)
  BY <1>0, WholeFacts DEF NewRead, Call, Around, Known, CallOK
<1>3. Unaltered
  BY <1>2, BufioNewUnaltered DEF Around, Whole
<1>4. PICK op \in {"get", "new"} : op = IF c = "read" THEN "get" ELSE c
  OBVIOUS
<1>5. ThreadsInv /\ CacheInv
  BY DEF Around, Whole
<1>6. ASSUME NEW b \in Find(k), Go(t, "wait", [r EXCEPT !.mine = b]),
             Link(b, [buf[b] EXCEPT !.hold = @ + 1], ListFor(buf[b].state))
      PROVE  Maps(t)
  <2>1. PICK s : s = [r EXCEPT !.mine = b]
    OBVIOUS
  <2>2. /\ s.call = c /\ s.blk = k /\ ~s.res /\ s.mine = b /\ s.left = 0
        /\ b \in Buffers /\ buf[b].block = k
    BY <1>1, <1>6, <2>1 DEF Locals, Find, Linked
  <2>3. pc'[t] = "wait" /\ loc'[t] = s /\ \A u \in Threads \ {t} : Unmoved(u)
    BY <1>5, <1>6, <2>1, OthersUnmoved
  <2>4. buf'[b].block = k
    BY <1>5, <1>6, <2>2 DEF Link, CacheInv, IndexInv, Buffer
  <2>5. Home(b)' = k
    BY <1>2, <1>5, <2>3, <2>4, NobodyLendsNext
  <2>6. CallOf(pc'[t], loc'[t]) = {[op |-> op, block |-> k]} /\ WantOf(loc'[t]) = {}
    BY <1>4, <2>2, <2>3 DEF CallOf, Asks, WantOf
  <2>7. PointsOf(pc'[t], loc'[t])
    BY <2>2, <2>3 DEF PointsOf, Moving
  <2>8. HandOf(loc[t])' = HandOf(loc[t])
    BY <1>2, <2>2, <2>3, BuffersAssumption DEF HandOf, Getting
  <2> QED
    BY <1>2, <1>3, <2>2, <2>3, <2>5, <2>6, <2>7, <2>8, AskMaps
<1>7. CASE Go(t, "alloc", r) /\ c # "get"
  <2>1. pc'[t] = "alloc" /\ loc'[t] = r
    BY <1>5, <1>7, GoFacts
  <2>2. CallOf(pc'[t], loc'[t]) = {[op |-> op, block |-> k]} /\ WantOf(loc'[t]) = {}
    BY <1>1, <1>4, <2>1 DEF CallOf, Asks, WantOf
  <2>3. PointsOf(pc'[t], loc'[t])
    BY <1>1, <1>7, <2>1 DEF PointsOf, Moving
  <2>4. HandOf(loc[t])' = HandOf(loc[t])
    BY <1>1, <1>2, <2>1, BuffersAssumption DEF HandOf
  <2> QED
    BY <1>1, <1>2, <1>3, <2>1, <2>2, <2>3, <2>4, BuffersAssumption, AskMaps
<1>8. CASE GiveUp(t, r)
  <2>1. pc'[t] = "idle" /\ loc'[t] = Rest(NoBuffer)
    BY <1>1, <1>5, <1>8, GoFacts DEF GiveUp, Return
  <2>2. loc'[t].call = "none" /\ loc'[t].mine = NoBuffer /\ ~loc'[t].res
    BY <2>1 DEF Rest
  <2>3. Unseen(t)
    BY <1>2, <2>1, <2>2, RestPoints DEF Unseen, SameHand, CallOf, Asks, WantOf, Getting
  <2> QED
    BY <1>2, <1>3, <2>3, UnseenMaps
<1>9. \/ \E b \in Find(k) : /\ Go(t, "wait", [r EXCEPT !.mine = b])
                            /\ Link(b, [buf[b] EXCEPT !.hold = @ + 1], ListFor(buf[b].state))
      \/ GiveUp(t, r)
      \/ Go(t, "alloc", r) /\ c # "get"
  BY <1>1, <1>2 DEF BufioNew
<1> QED
  BY <1>6, <1>7, <1>8, <1>9

\* dm_bufio_release_move asks for the block it moves its buffer to.
LEMMA MoveMaps ==
  ASSUME NEW t \in Threads, Around(t), NEW k \in Blocks, Move(t, k)
  PROVE  Maps(t)
<1>0. PICK b : b = loc[t].mine
  OBVIOUS
<1>1. PICK r : r = [Rest(b) EXCEPT !.call = "move", !.blk = k]
  OBVIOUS
<1>2. /\ r.call = "move" /\ r.blk = k /\ r.mine = b /\ ~r.res
  BY <1>1 DEF Rest
<1>3. /\ pc[t] = "idle" /\ loc[t].call = "none" /\ status = "open" /\ UNCHANGED <<status, deviceVars>>
      /\ UNCHANGED buf /\ pc'[t] = "move" /\ loc'[t] = r
  BY <1>0, <1>1, GoFacts, WholeFacts DEF Move, Call, Around, Whole, Known, CallOK, cacheVars
<1>4. Unaltered
  BY <1>3, UnalteredSame
<1>5. HandOf(loc[t])' = HandOf(loc[t])
  BY <1>0, <1>2, <1>3, <1>4, HandsStay DEF Around, Whole, Getting
<1>6. CallOf(pc'[t], loc'[t]) = {[op |-> "move", block |-> k]} /\ WantOf(loc'[t]) = {}
  BY <1>2, <1>3 DEF CallOf, Asks, WantOf
<1>7. PointsOf(pc'[t], loc'[t])
  BY <1>2, <1>3 DEF PointsOf, Moving, Getting, Workers, SyncSteps
<1> QED
  BY <1>2, <1>3, <1>4, <1>5, <1>6, <1>7, AskMaps DEF Getting

\* What a client is given is the last content of the block it asked for: if some other
\* is about to overwrite the buffer, or lends it, that is as the block cache allows.
LEMMA GivenSound ==
  ASSUME Whole, NEW b \in Linked, NEW k, Home(b) = k, "reading" \notin buf[b].state, "read" \notin buf[b].err
  PROVE  Cache!Sound(k, buf[b].gen)
<1>1. CASE Fresh(b)
  <2>1. PICK u \in Threads : loc[u].mine = b /\ loc[u].call = "new"
    BY <1>1 DEF Fresh
  <2>2. loc[u].blk = k
    BY <2>1 DEF Whole, CacheMapInv, Served, Getting, Linked
  <2>3. Asked[u] = {[op |-> "new", block |-> k]}
    BY <2>1, <2>2 DEF Asked, CallOf, Asks
  <2> QED
    BY <2>3 DEF Cache!Sound, Cache!BeingMade
<1>2. CASE ~Fresh(b) /\ Lent(b)
  <2>1. PICK u \in Threads : pc[u] = "movecopy" /\ loc[u].mine = b
    BY <1>2 DEF Lent
  <2>2. lock = u
    BY <2>1 DEF Whole, ThreadsInv, LockOwner
  <2>3. loc[u].blk = k
    BY <1>2, <2>2 DEF Home
  <2>4. Current(k, buf[b].gen)
    BY <1>2, <2>1, <2>3 DEF Whole, ContentInv, Keeping
  <2> QED
    BY <2>4 DEF Current, Cache!Sound, Cache!Missing
<1>3. CASE ~Fresh(b) /\ ~Lent(b)
  <2>1. Handed(b) /\ buf[b].block = k
    BY <1>3 DEF Handed, Fresh, Lent, Home
  <2>2. b \in Buffers
    BY DEF Linked
  <2> QED
    BY <2>1, <2>2 DEF Whole, ContentInv, CacheCoherent, Cache!Sound, Cache!Missing
<1> QED
  BY <1>1, <1>2, <1>3

\* The end of dm_bufio_read and dm_bufio_get.
LEMMA WaitReadMaps ==
  ASSUME NEW t \in Threads, Around(t), WaitRead(t), Return(t, loc[t].mine), loc[t].call # "new",
         "read" \notin buf[loc[t].mine].err
  PROVE  Maps(t)
<1>b. PICK b : b = loc[t].mine
  OBVIOUS
<1>k. PICK k : k = loc[t].blk
  OBVIOUS
<1>1. /\ ThreadOK("wait", loc[t]) /\ loc[t] \in Locals /\ PointsOf("wait", loc[t]) /\ pc[t] = "wait"
  BY WholeFacts DEF Around, Known, WaitRead
<1>2. loc[t].call \in {"read", "get"} /\ b \in Buffers /\ k \in Blocks
  BY <1>b, <1>k, <1>1 DEF ThreadOK, Possession, PointsOf, BlockRange, Getting
<1>3. /\ pc'[t] = "idle" /\ loc'[t] = Rest(b) /\ UNCHANGED <<buf, status, deviceVars>> /\ lock' = lock
      /\ "reading" \notin buf[b].state
  BY <1>b, GoFacts DEF Return, Around, Whole, WaitRead, cacheVars
<1>4. loc'[t].call = "none" /\ loc'[t].mine = b /\ ~loc'[t].res
  BY <1>3 DEF Rest
<1>5. Unaltered
  BY <1>3, UnalteredSame
<1>6. b \in Linked /\ b \in Linked'
  BY <1>b, <1>2, <1>3, HeldLinked DEF Around, Whole, Linked
<1>7. Home(b) = k /\ Home(b)' = k
  <2>1. Home(b) = k
    BY <1>b, <1>k, <1>2 DEF Around, Whole, CacheMapInv, Served, Getting
  <2> QED
    BY <1>1, <1>3, <1>5, <1>6, <2>1, HomeStays DEF Around, Whole
<1>8. buf[b].gen \in Gens
  BY <1>2 DEF Around, Whole, CacheInv, IndexInv, Buffer
<1>9. Cache!Sound(k, buf[b].gen)
  BY <1>b, <1>3, <1>6, <1>7, GivenSound DEF Around
<1>10. /\ CallOf(pc[t], loc[t]) = {[op |-> "get", block |-> k]} /\ CallOf(pc'[t], loc'[t]) = {}
       /\ WantOf(loc[t]) = {} /\ WantOf(loc'[t]) = {}
  BY <1>k, <1>2, <1>4 DEF CallOf, Asks, WantOf
<1>11. HandOf(loc[t])' = {[block |-> k, gen |-> buf[b].gen]}
  BY <1>2, <1>3, <1>4, <1>7 DEF HandOf, Getting
<1>12. /\ Asked' = [Asked EXCEPT ![t] = {}] /\ Wanting' = Wanting
       /\ Hands' = [Hands EXCEPT ![t] = {[block |-> k, gen |-> buf[b].gen]}]
       /\ Served' /\ Erring' = Erring \ {t}
  <2>1. [Wanting EXCEPT ![t] = Wanting[t]] = Wanting /\ Wanting[t] = {}
    BY <1>10, OfThread DEF Wanting
  <2>2. loc'[t].call \notin Getting
    BY <1>4 DEF Getting
  <2>3. /\ Asked' = [Asked EXCEPT ![t] = CallOf(pc'[t], loc'[t])]
        /\ Wanting' = [Wanting EXCEPT ![t] = WantOf(loc'[t])]
        /\ Hands' = [Hands EXCEPT ![t] = HandOf(loc[t])']
        /\ Served' /\ Erring' = Erring \ {t}
    BY <1>1, <1>3, <1>4, <1>5, <2>2, OwnMapped
  <2> QED
    BY <1>10, <1>11, <2>1, <2>3
<1>13. status # "closed"
  BY <1>1, InUse DEF Around
<1>14. Cache!Get(t)
  <2>1. Asked[t] = {[op |-> "get", block |-> k]}
    BY <1>10, OfThread
  <2>2. Cache!Calling(t)
    BY <1>12, <1>13 DEF Cache!Calling
  <2> QED
    BY <1>2, <1>3, <1>8, <1>9, <1>12, <2>1, <2>2 DEF Cache!Get, Cache!device, deviceVars
<1>15. PointsOf(pc'[t], loc'[t])
  BY <1>3, RestPoints
<1> QED
  BY <1>3, <1>12, <1>14, <1>15 DEF Maps, Cache!Next, Cache!Client

\* A client gives its buffer back, or has got none.
LEMMA ReleaseRefMaps ==
  ASSUME NEW t \in Threads, Around(t), ReleaseRef(t)
  PROVE  Maps(t)
<1>r. PICK r : r = loc[t]
  OBVIOUS
<1>b. PICK b : b = r.mine
  OBVIOUS
<1>1. /\ ThreadOK(pc[t], r) /\ r \in Locals /\ PointsOf(pc[t], r) /\ CallOK(pc[t], r)
      /\ pc[t] \in {"release", "idle"} /\ b # NoBuffer /\ b \in Buffers /\ lock = Nobody
      /\ ThreadsInv /\ CacheInv
  <2>1. ThreadOK(pc[t], r) /\ r \in Locals /\ PointsOf(pc[t], r) /\ CallOK(pc[t], r)
    BY <1>r, WholeFacts DEF Around, Known
  <2> QED
    BY <1>r, <1>b, <2>1, BuffersAssumption DEF ReleaseRef, ThreadOK, Possession, Locals, Around,
           Whole
<1>2. Unaltered
  <2>1. CASE FreeBufferWake(b)
    BY <1>1, <2>1, UnalteredFree
  <2>2. CASE buf' = [buf EXCEPT ![b] = Unhold(@)]
    <3>1. PICK s : s = [buf[b] EXCEPT !.hold = buf[b].hold - 1]
      OBVIOUS
    <3>2. buf' = [buf EXCEPT ![b] = s]
      BY <1>1, <2>2, <3>1 DEF Unhold, CacheInv, IndexInv
    <3> QED
      BY <1>1, <3>1, <3>2, HoldFacts, UnalteredBut
  <2> QED
    BY <1>r, <1>b, <2>1, <2>2 DEF ReleaseRef
<1>3. UNCHANGED <<status, deviceVars>> /\ status # "closed"
  BY <1>r, <1>b, <1>1, InUse DEF ReleaseRef, Around
<1>4. CASE r.call = "prefetch"
  <2>1. /\ loc'[t].mine = NoBuffer /\ ~loc'[t].res
        /\ \/ pc'[t] = "idle" /\ loc'[t] = Rest(NoBuffer)
           \/ pc'[t] = "relock" /\ loc'[t].call = "prefetch"
    <3>1. CASE Return(t, NoBuffer)
      BY <1>1, <3>1, GoFacts DEF Return, Rest
    <3>2. CASE Go(t, "relock", Wanted("prefetch", r.blk + 1, r.left - 1))
      <4>1. \A x, y : LET s == Wanted("prefetch", x, y) IN s.call = "prefetch" /\ s.mine = NoBuffer /\ ~s.res
        BY DEF Wanted, Rest
      <4> QED
        BY <1>1, <3>2, <4>1, GoFacts
    <3> QED
      BY <1>r, <3>1, <3>2 DEF ReleaseRef
  <2>2. loc'[t].call \in {"none", "prefetch"}
    BY <2>1 DEF Rest
  <2>3. CallOf(pc'[t], loc'[t]) = CallOf(pc[t], loc[t]) /\ WantOf(loc'[t]) = WantOf(loc[t])
    BY <1>r, <1>4, <2>2 DEF CallOf, Asks, WantOf
  <2>4. PointsOf(pc'[t], loc'[t])
    <3>1. PointsOf("idle", Rest(NoBuffer))
      BY RestPoints
    <3>2. pc'[t] = "relock" /\ loc'[t].call = "prefetch" => PointsOf(pc'[t], loc'[t])
      BY DEF PointsOf, Moving
    <3> QED
      BY <2>1, <3>1, <3>2
  <2>5. Unseen(t)
    BY <1>r, <1>1, <1>4, <2>1, <2>3, <2>4 DEF Unseen, SameHand, Getting
  <2> QED
    BY <1>2, <1>3, <2>5, UnseenMaps
<1>5. CASE r.call # "prefetch"
  <2>1. pc'[t] = "idle" /\ loc'[t] = Rest(NoBuffer)
    BY <1>r, <1>1, <1>5, GoFacts DEF ReleaseRef, Return
  <2>2. loc'[t].call = "none" /\ loc'[t].mine = NoBuffer /\ ~loc'[t].res
    BY <2>1 DEF Rest
  <2>3. /\ CallOf(pc'[t], loc'[t]) = {} /\ WantOf(loc[t]) = {} /\ WantOf(loc'[t]) = {}
        /\ HandOf(loc[t])' = {}
    BY <1>r, <1>1, <2>2, BuffersAssumption DEF CallOf, Asks, WantOf, HandOf, PointsOf,
           SyncSteps, Getting, CallOK
  <2>4. /\ Asked' = [Asked EXCEPT ![t] = {}] /\ Wanting' = Wanting /\ Hands' = [Hands EXCEPT ![t] = {}]
        /\ Served' /\ Erring' = Erring \ {t}
    <3>1. [Wanting EXCEPT ![t] = Wanting[t]] = Wanting /\ Wanting[t] = {}
      BY <2>3, OfThread DEF Wanting
    <3>2. loc'[t].call \notin Getting
      BY <2>2 DEF Getting
    <3>3. /\ Asked' = [Asked EXCEPT ![t] = CallOf(pc'[t], loc'[t])]
          /\ Wanting' = [Wanting EXCEPT ![t] = WantOf(loc'[t])]
          /\ Hands' = [Hands EXCEPT ![t] = HandOf(loc[t])']
          /\ Served' /\ Erring' = Erring \ {t}
      BY <1>1, <1>2, <2>1, <2>2, <3>2, OwnMapped
    <3> QED
      BY <2>3, <3>1, <3>3
  <2>5. Cache!Calling(t)
    BY <1>3, <2>4 DEF Cache!Calling
  <2>6. CASE r.call \in Getting
    <3>1. CallOf(pc[t], loc[t]) # {} /\ HandOf(loc[t]) = {}
      BY <1>r, <1>5, <2>6 DEF CallOf, Asks, HandOf, Getting
    <3>2. [Hands EXCEPT ![t] = Hands[t]] = Hands
      BY DEF Hands
    <3>3. Hands' = Hands
      BY <2>4, <3>1, <3>2, OfThread
    <3>4. Asked[t] # {} /\ Hands[t] = {}
      BY <3>1, OfThread
    <3>5. Cache!GetNothing(t)
      BY <1>3, <2>4, <2>5, <3>3, <3>4 DEF Cache!GetNothing, Cache!device, deviceVars
    <3> QED
      BY <1>3, <2>1, <2>4, <3>5, RestPoints DEF Maps, Cache!Next, Cache!Client
  <2>7. CASE r.call \notin Getting
    <3>1. CallOf(pc[t], loc[t]) = {}
      BY <1>r, <1>1, <2>7 DEF CallOf, Asks, PointsOf, CallOK, Getting
    <3>2. [Asked EXCEPT ![t] = Asked[t]] = Asked
      BY DEF Asked
    <3>3. Asked' = Asked /\ Asked[t] = {} /\ Wanting[t] = {}
      BY <2>3, <2>4, <3>1, <3>2, OfThread
    <3>4. Cache!Give(t)
      BY <1>3, <2>4, <2>5, <3>3 DEF Cache!Give, Cache!device, deviceVars
    <3> QED
      BY <1>3, <2>1, <2>4, <3>4, RestPoints DEF Maps, Cache!Next, Cache!Client
  <2> QED
    BY <2>6, <2>7
<1> QED
  BY <1>4, <1>5

\* A step of a flush: buffers and references stay.
LEMMA FlushMapped ==
  ASSUME NEW t \in Threads, Around(t), UNCHANGED buf, pc[t] # "movecopy", pc'[t] # "movecopy",
         loc[t].call \in {"none", "sync"}, loc'[t].call \in {"none", "sync"}, loc'[t].mine = loc[t].mine
  PROVE  /\ Asked' = Asked /\ Asked[t] = {} /\ Hands' = Hands
         /\ Wanting' = [Wanting EXCEPT ![t] = WantOf(loc'[t])]
         /\ loc'[t].res => Erring' = Erring \cup {t}
         /\ ~loc'[t].res => Erring' = Erring \ {t}
         /\ Served'
<1>1. Unaltered
  BY UnalteredSame
<1>2. loc[t].call \notin Getting /\ loc'[t].call \notin Getting
  BY DEF Getting
<1>3. HandOf(loc[t])' = HandOf(loc[t])
  BY <1>1, <1>2, HandsStay DEF Around, Whole
<1>4. CallOf(pc[t], loc[t]) = {} /\ CallOf(pc'[t], loc'[t]) = {}
  BY DEF CallOf, Asks
<1>5. [Asked EXCEPT ![t] = Asked[t]] = Asked /\ [Hands EXCEPT ![t] = Hands[t]] = Hands
  BY DEF Asked, Hands
<1>6. /\ Asked' = [Asked EXCEPT ![t] = CallOf(pc'[t], loc'[t])]
      /\ Hands' = [Hands EXCEPT ![t] = HandOf(loc[t])']
      /\ Wanting' = [Wanting EXCEPT ![t] = WantOf(loc'[t])]
      /\ loc'[t].res => Erring' = Erring \cup {t}
      /\ ~loc'[t].res => Erring' = Erring \ {t}
      /\ Served'
  BY <1>1, <1>2, OwnMapped
<1> QED
  BY <1>3, <1>4, <1>5, <1>6, OfThread

\* dm_bufio_write_dirty_buffers is called, ...
LEMMA SyncMaps ==
  ASSUME NEW t \in Threads, Around(t), Sync(t)
  PROVE  Maps(t)
<1>1. pc[t] = "idle" /\ loc[t].call = "none" /\ loc[t] \in Locals
  BY WholeFacts DEF Sync, Call, Around, Known, CallOK
<1>2. PICK x : Go(t, "wb", [loc[t] EXCEPT !.call = "sync", !.walk = x, !.then = "relock",
                                          !.snap = latest, !.res = FALSE])
  BY DEF Sync
<1>3. PICK s : s = [loc[t] EXCEPT !.call = "sync", !.walk = x, !.then = "relock",
                                  !.snap = latest, !.res = FALSE]
  OBVIOUS
<1>4. s.call = "sync" /\ s.then = "relock" /\ s.snap = latest /\ ~s.res /\ s.mine = loc[t].mine
  BY <1>1, <1>3 DEF Locals
<1>5. pc'[t] = "wb" /\ loc'[t] = s
  BY <1>2, <1>3, GoFacts DEF Around, Whole
<1>6. UNCHANGED <<buf, status, deviceVars>> /\ status = "open"
  BY DEF Sync, cacheVars
<1>7. /\ Asked' = Asked /\ Asked[t] = {} /\ Hands' = Hands /\ Served'
      /\ Wanting' = [Wanting EXCEPT ![t] = {latest}] /\ Erring' = Erring \ {t}
  BY <1>1, <1>4, <1>5, <1>6, FlushMapped DEF WantOf
<1>8. Wanting[t] = {}
  BY <1>1, OfThread DEF WantOf
<1>9. Cache!Flush(t)
  BY <1>6, <1>7, <1>8 DEF Cache!Flush, Cache!device, deviceVars
<1>10. PointsOf(pc'[t], loc'[t])
  BY <1>4, <1>5 DEF PointsOf, Moving, Getting, Workers, SyncSteps
<1> QED
  BY <1>6, <1>7, <1>9, <1>10 DEF Maps, Cache!Next, Cache!Client

\* ... takes the errors of the writes, if there were any, ...
LEMMA TakeErrorMaps ==
  ASSUME NEW t \in Threads, Around(t), TakeError(t)
  PROVE  Maps(t)
<1>1. pc[t] = "xchg" /\ loc[t].call = "sync" /\ loc[t] \in Locals
  BY WholeFacts DEF TakeError, Around, Known, SyncSteps
<1>2. PICK s : s = [loc[t] EXCEPT !.res = asyncError]
  OBVIOUS
<1>3. s.call = "sync" /\ s.res = asyncError /\ s.mine = loc[t].mine /\ s.snap = loc[t].snap /\ asyncError \in BOOLEAN
  BY <1>1, <1>2 DEF Locals, Around, Whole, ThreadsInv, ThreadsType
<1>4. pc'[t] = "issueflush" /\ loc'[t] = s
  BY <1>2, GoFacts DEF Around, Whole, TakeError
<1>5. UNCHANGED <<buf, status, disk, durable, latest>> /\ status # "closed"
  BY <1>1, InUse DEF TakeError, cacheVars, Around
<1>6. /\ Asked' = Asked /\ Hands' = Hands /\ Served'
      /\ Wanting' = [Wanting EXCEPT ![t] = {loc[t].snap}]
      /\ asyncError => Erring' = Erring \cup {t}
      /\ ~asyncError => Erring' = Erring \ {t}
  BY <1>1, <1>3, <1>4, <1>5, FlushMapped DEF WantOf
<1>7. Wanting[t] = {loc[t].snap} /\ [Wanting EXCEPT ![t] = Wanting[t]] = Wanting
  BY <1>1, OfThread DEF WantOf, Wanting
<1>8. ~asyncError => failed = {}
  BY DEF Around, Whole, FlushInv
<1>9. reported' = reported \cup failed /\ failed' = {}
  BY <1>8 DEF TakeError
<1>10. Cache!Tell(t)
  BY <1>3, <1>5, <1>6, <1>7, <1>8, <1>9 DEF Cache!Tell
<1>11. PointsOf(pc'[t], loc'[t])
  BY <1>3, <1>4 DEF PointsOf, Moving, Getting, Workers, SyncSteps
<1> QED
  BY <1>5, <1>6, <1>10, <1>11 DEF Maps, Cache!Next, Cache!Client

\* ... and returns.
LEMMA IssueFlushMaps ==
  ASSUME NEW t \in Threads, Around(t), IssueFlush(t)
  PROVE  Maps(t)
<1>1. pc[t] = "issueflush" /\ loc[t].call = "sync" /\ loc[t] \in Locals
  BY WholeFacts DEF IssueFlush, Around, Known, SyncSteps
<1>2. PICK e \in BOOLEAN : /\ Go(t, "idle", [Rest(loc[t].mine) EXCEPT !.res = e])
                           /\ \/ durable' = disk /\ e = loc[t].res
                              \/ UNCHANGED durable /\ e = TRUE
  BY <1>1 DEF IssueFlush, Locals
<1>3. PICK s : s = [Rest(loc[t].mine) EXCEPT !.res = e]
  OBVIOUS
<1>4. s.call = "none" /\ s.res = e /\ s.mine = loc[t].mine
  BY <1>3 DEF Rest
<1>5. pc'[t] = "idle" /\ loc'[t] = s
  BY <1>2, <1>3, GoFacts DEF Around, Whole
<1>6. UNCHANGED <<buf, status, disk, latest, failed, reported>> /\ status # "closed"
  BY <1>1, InUse DEF IssueFlush, cacheVars, Around
<1>7. /\ Asked' = Asked /\ Hands' = Hands /\ Served'
      /\ Wanting' = [Wanting EXCEPT ![t] = {}]
      /\ e => Erring' = Erring \cup {t}
      /\ ~e => Erring' = Erring \ {t}
  BY <1>1, <1>4, <1>5, <1>6, FlushMapped DEF WantOf
<1>8. Wanting[t] = {loc[t].snap}
  BY <1>1, OfThread DEF WantOf
<1>9. Cache!Returns(t)
  BY <1>6, <1>7 DEF Cache!Returns
<1>10. ASSUME e PROVE Cache!Next
  <2>1. Cache!FlushFails(t)
    BY <1>2, <1>6, <1>7, <1>8, <1>9, <1>10 DEF Cache!FlushFails
  <2> QED
    BY <1>6, <2>1 DEF Cache!Next, Cache!Client
<1>11. ASSUME ~e PROVE Cache!Next
  <2>1. ~loc[t].res /\ durable' = disk
    BY <1>2, <1>11
  <2>2. \A k \in Blocks : disk[k] >= loc[t].snap[k] \/ k \in reported
    BY <1>1, <2>1 DEF Around, Whole, FlushInv, FlushOK, Recorded
  <2>3. t \notin Erring /\ Erring' = Erring
    BY <1>7, <1>11, <2>1 DEF Erring
  <2>4. Cache!FlushSucceeds(t)
    BY <1>6, <1>8, <1>9, <2>1, <2>2, <2>3 DEF Cache!FlushSucceeds
  <2> QED
    BY <1>6, <2>4 DEF Cache!Next, Cache!Client
<1>12. PointsOf(pc'[t], loc'[t])
  BY <1>4, <1>5 DEF PointsOf, Moving, Getting, Workers, SyncSteps
<1> QED
  BY <1>2, <1>7, <1>10, <1>11, <1>12 DEF Maps

-----------------------------------------------------------------------------
(* Contents.                                                               *)

\* While nobody lends a buffer, those who have one of block k have the only one.
LEMMA HandedOutOnce ==
  ASSUME Whole, \A b : Home(b) = buf[b].block, NEW b \in Linked, NEW u \in Threads
  PROVE  u \in Cache!HandedOut(buf[b].block) <=> (loc[u].mine = b /\ loc[u].call \notin Getting)
<1>1. ASSUME loc[u].mine \in Buffers PROVE loc[u].mine \in Linked
  BY <1>1, HeldLinked DEF Whole
<1>2. b \in Buffers
  BY DEF Linked
<1>3. \A c \in Linked : buf[c].block = buf[b].block => c = b
  BY DEF Whole, CacheInv, IndexInv, OneBufferPerBlock
<1>4. u \in Cache!HandedOut(buf[b].block) <=> \E h \in HandOf(loc[u]) : h.block = buf[b].block
  BY OfThread DEF Cache!HandedOut
<1>5. (\E h \in HandOf(loc[u]) : h.block = buf[b].block)
        <=> /\ loc[u].mine \in Buffers /\ loc[u].call \notin Getting
            /\ buf[loc[u].mine].block = buf[b].block
  <2>1. CASE loc[u].mine \in Buffers /\ loc[u].call \notin Getting
    <3>1. HandOf(loc[u]) = {[block |-> buf[loc[u].mine].block, gen |-> buf[loc[u].mine].gen]}
      BY <2>1 DEF HandOf
    <3> QED
      BY <2>1, <3>1
  <2>2. CASE ~(loc[u].mine \in Buffers /\ loc[u].call \notin Getting)
    BY <2>2 DEF HandOf
  <2> QED
    BY <2>1, <2>2
<1> QED
  BY <1>1, <1>2, <1>3, <1>4, <1>5

\* A buffer is made dirty: everyone who has it sees the new content of its block.
LEMMA MakeDirtyHands ==
  ASSUME NEW t \in Threads, Around(t), pc[t] # "movecopy", NEW b \in Buffers, b = loc[t].mine, MakeDirty(t)
  PROVE  LET k == buf[b].block  g == Bump(latest[k]) IN
         /\ b \in Linked /\ k \in Blocks /\ g \in Cache!Newer(k) /\ latest' = [latest EXCEPT ![k] = g]
         /\ Home(b) = k
         /\ Hands' = [Cache!Share(k, g) EXCEPT ![t] = {[block |-> k, gen |-> g]}]
         /\ Asked' = [Asked EXCEPT ![t] = {}] /\ Wanting' = [Wanting EXCEPT ![t] = {}]
         /\ Erring' = Erring \ {t} /\ Served' /\ PointsOf(pc'[t], loc'[t])
         /\ UNCHANGED <<status, disk, durable, failed, reported>> /\ status # "closed"
<1>k. PICK k : k = buf[b].block
  OBVIOUS
<1>g. PICK g : g = Bump(latest[k])
  OBVIOUS
<1>0. ThreadsInv /\ CacheInv /\ ThreadsInv' /\ CacheInv' /\ lock = Nobody
  BY DEF Around, Whole, MakeDirty
<1>1. b \in Linked /\ k \in Blocks /\ buf[b] \in Buffer /\ t \in Threads
  BY <1>0, <1>k, HeldLinked
<1>2. pc'[t] = "idle" /\ loc'[t] = Rest(b)
  BY <1>0, GoFacts DEF MakeDirty, Return
<1>3. loc'[t].call = "none" /\ loc'[t].mine = b /\ ~loc'[t].res
  BY <1>2 DEF Rest
<1>4. \A c : Home(c) = buf[c].block
  BY <1>0, NobodyLends
<1>5. \A c : Home(c)' = buf'[c].block
  BY <1>0, <1>2, NobodyLendsNext DEF Around
<1>6. latest[k] \in Gens /\ g \in Gens /\ latest[k] <= g
  BY <1>0, <1>1, <1>g, BumpFacts DEF ThreadsInv, ThreadsType, Snapshot
<1>7. g \in Cache!Newer(k)
  BY <1>6, MaxGenAssumption DEF Cache!Newer, Gens
<1>8. /\ buf'[b].block = k /\ buf'[b].gen = g /\ \A c \in Buffers \ {b} : buf'[c] = buf[c]
  <2>1. PICK r : r = [buf[b] EXCEPT !.state = @ \cup {"dirty"}, !.gen = g]
    OBVIOUS
  <2>2. r.block = k /\ r.gen = g /\ [r EXCEPT !.where = "dirty"].block = k /\ [r EXCEPT !.where = "dirty"].gen = g
    BY <1>1, <1>k, <2>1 DEF Buffer
  <2>3. Link(b, r, "dirty") \/ buf' = [buf EXCEPT ![b] = r]
    BY <1>k, <1>g, <2>1 DEF MakeDirty
  <2> QED
    BY <1>0, <2>2, <2>3 DEF Link, CacheInv, IndexInv
<1>9. \A u \in Threads \ {t} : HandOf(loc[u])' = Cache!Share(k, g)[u]
  <2> SUFFICES ASSUME NEW u \in Threads \ {t} PROVE HandOf(loc[u])' = Cache!Share(k, g)[u]
    OBVIOUS
  <2>1. loc'[u] = loc[u]
    BY DEF Around, Unmoved
  <2>2. Cache!Share(k, g)[u] = IF loc[u].mine = b /\ loc[u].call \notin Getting
                               THEN {[block |-> k, gen |-> g]} ELSE HandOf(loc[u])
    BY <1>k, <1>1, <1>4, HandedOutOnce, OfThread DEF Cache!Share, Around
  <2>3. CASE loc[u].mine = b
    BY <1>5, <1>8, <2>1, <2>2, <2>3 DEF HandOf
  <2>4. CASE loc[u].mine # b
    BY <1>4, <1>5, <1>8, <2>1, <2>2, <2>4 DEF HandOf
  <2> QED
    BY <2>3, <2>4
<1>10. HandOf(loc[t])' = {[block |-> k, gen |-> g]}
  BY <1>3, <1>5, <1>8 DEF HandOf, Getting
<1>11. Hands' = [Cache!Share(k, g) EXCEPT ![t] = {[block |-> k, gen |-> g]}]
  BY <1>9, <1>10 DEF Hands, Cache!Share
<1>12. Asked' = [Asked EXCEPT ![t] = {}] /\ Wanting' = [Wanting EXCEPT ![t] = {}] /\ Erring' = Erring \ {t}
  <2>1. CallOf(pc'[t], loc'[t]) = {} /\ WantOf(loc'[t]) = {}
    BY <1>3 DEF CallOf, Asks, WantOf
  <2> QED
    BY <1>3, <2>1, Mapped DEF Around
<1>13. Served'
  <2> SUFFICES ASSUME NEW u \in Threads, loc'[u].call \in Getting, loc'[u].mine \in Buffers
               PROVE  Home(loc[u].mine)' = loc'[u].blk
    BY DEF Served
  <2>1. u # t /\ loc'[u] = loc[u]
    BY <1>3 DEF Around, Unmoved, Getting
  <2>2. buf[loc[u].mine].block = loc[u].blk
    BY <1>4, <2>1 DEF Around, Whole, CacheMapInv, Served
  <2> QED
    BY <1>k, <1>5, <1>8, <2>1, <2>2
<1>14. UNCHANGED <<status, disk, durable, failed, reported>> /\ status # "closed"
  <2>1. loc[t].mine # NoBuffer
    BY BuffersAssumption
  <2> QED
    BY <2>1, InUse DEF MakeDirty, Around
<1>15. latest' = [latest EXCEPT ![k] = g]
  BY <1>k, <1>g DEF MakeDirty
<1>16. PointsOf(pc'[t], loc'[t])
  BY <1>2, RestPoints
<1> QED
  BY <1>k, <1>g, <1>1, <1>4, <1>7, <1>11, <1>12, <1>13, <1>14, <1>15, <1>16

\* The client of dm_bufio_new fills the buffer, ...
LEMMA OverwriteMaps ==
  ASSUME NEW t \in Threads, Around(t), Overwrite(t)
  PROVE  Maps(t)
<1>b. PICK b : b = loc[t].mine
  OBVIOUS
<1>k. PICK k : k = buf[b].block
  OBVIOUS
<1>g. PICK g : g = Bump(latest[k])
  OBVIOUS
<1>1. /\ pc[t] = "overwrite" /\ loc[t].call = "new" /\ b \in Buffers
  BY <1>b, WholeFacts DEF Overwrite, Around, Known, PointsOf, ThreadOK, Possession
<1>2. /\ k \in Blocks /\ g \in Cache!Newer(k) /\ latest' = [latest EXCEPT ![k] = g]
      /\ Home(b) = k
      /\ Hands' = [Cache!Share(k, g) EXCEPT ![t] = {[block |-> k, gen |-> g]}]
      /\ Asked' = [Asked EXCEPT ![t] = {}] /\ Wanting' = [Wanting EXCEPT ![t] = {}]
      /\ Erring' = Erring \ {t} /\ Served' /\ PointsOf(pc'[t], loc'[t])
      /\ UNCHANGED <<status, disk, durable, failed, reported>> /\ status # "closed"
  BY <1>b, <1>k, <1>g, <1>1, MakeDirtyHands DEF Overwrite
<1>3. loc[t].blk = k
  BY <1>b, <1>1, <1>2 DEF Around, Whole, CacheMapInv, Served, Getting
<1>4. Asked[t] = {[op |-> "new", block |-> k]} /\ Wanting' = Wanting
  <2>1. Wanting[t] = {} /\ [Wanting EXCEPT ![t] = Wanting[t]] = Wanting
    BY <1>1, OfThread DEF WantOf, Wanting
  <2> QED
    BY <1>1, <1>2, <1>3, <2>1, OfThread DEF CallOf, Asks
<1>5. Cache!Make(t)
  BY <1>2, <1>4 DEF Cache!Make, Cache!Calling, Cache!device
<1> QED
  BY <1>2, <1>5 DEF Maps, Cache!Next, Cache!Client

\* ... and any client changes the one it has.
LEMMA MarkDirtyMaps ==
  ASSUME NEW t \in Threads, Around(t), MarkDirty(t)
  PROVE  Maps(t)
<1>b. PICK b : b = loc[t].mine
  OBVIOUS
<1>k. PICK k : k = buf[b].block
  OBVIOUS
<1>g. PICK g : g = Bump(latest[k])
  OBVIOUS
<1>1. /\ pc[t] = "idle" /\ loc[t].call = "none" /\ b \in Buffers
  BY <1>b, WholeFacts DEF MarkDirty, Call, Around, Known, CallOK, Locals
<1>2. /\ b \in Linked /\ k \in Blocks /\ g \in Cache!Newer(k) /\ latest' = [latest EXCEPT ![k] = g]
      /\ Home(b) = k
      /\ Hands' = [Cache!Share(k, g) EXCEPT ![t] = {[block |-> k, gen |-> g]}]
      /\ Asked' = [Asked EXCEPT ![t] = {}] /\ Wanting' = [Wanting EXCEPT ![t] = {}]
      /\ Erring' = Erring \ {t} /\ Served' /\ PointsOf(pc'[t], loc'[t])
      /\ UNCHANGED <<status, disk, durable, failed, reported>> /\ status # "closed"
  BY <1>b, <1>k, <1>g, <1>1, MakeDirtyHands DEF MarkDirty
<1>3. Asked[t] = {} /\ Wanting[t] = {} /\ Asked' = Asked /\ Wanting' = Wanting
  <2>1. Wanting[t] = {} /\ [Wanting EXCEPT ![t] = Wanting[t]] = Wanting
    BY <1>1, OfThread DEF WantOf, Wanting
  <2>2. Asked[t] = {} /\ [Asked EXCEPT ![t] = Asked[t]] = Asked
    BY <1>1, OfThread DEF CallOf, Asks, Asked
  <2> QED
    BY <1>2, <2>1, <2>2
<1>4. PICK h : h = [block |-> k, gen |-> buf[b].gen]
  OBVIOUS
<1>5. h \in Hands[t] /\ h.block = k /\ t \in Cache!HandedOut(k)
  <2>1. HandOf(loc[t]) = {h}
    BY <1>b, <1>1, <1>2, <1>4 DEF HandOf, Getting
  <2> QED
    BY <1>4, <2>1, OfThread DEF Cache!HandedOut
<1>6. Hands' = Cache!Share(k, g)
  BY <1>2, <1>5 DEF Cache!Share
<1>7. Cache!Change(t)
  BY <1>2, <1>3, <1>5, <1>6 DEF Cache!Change, Cache!Calling, Cache!device
<1> QED
  BY <1>2, <1>7 DEF Maps, Cache!Next, Cache!Client

\* A buffer is moved to another block, which nobody has.
LEMMA MoveRelinkMaps ==
  ASSUME NEW t \in Threads, Around(t), MoveRelink(t)
  PROVE  Maps(t)
<1>b. PICK b : b = loc[t].mine
  OBVIOUS
<1>k. PICK k : k = loc[t].blk
  OBVIOUS
<1>g. PICK g : g = Bump(latest[k])
  OBVIOUS
<1>o. PICK old : old = buf[b].block
  OBVIOUS
<1>0. ThreadsInv /\ CacheInv /\ ThreadsInv' /\ CacheInv' /\ Base /\ Lasting
  BY WholeFacts DEF Around, Whole
<1>1. /\ b \in Linked /\ b \in Buffers /\ buf[b] \in Buffer /\ buf \in [Buffers -> Buffer]
      /\ old \in Blocks /\ k \in Blocks /\ Find(k) = {} /\ old # k
      /\ loc[t].call \notin Getting /\ lock = t /\ pc[t] = "relink"
  BY <1>b, <1>k, <1>o, <1>0, MoverFacts DEF MoveRelink
<1>2. loc[t].call = "move" /\ loc[t] \in Locals
  BY <1>1, WholeFacts DEF Around, Known, PointsOf, Moving
<1>3. \A c : Home(c) = buf[c].block
  BY <1>0, <1>1, NobodyLends
<1>4. latest[k] \in Gens /\ g \in Gens /\ latest[k] <= g
  BY <1>0, <1>1, <1>g, BumpFacts DEF ThreadsInv, ThreadsType, Snapshot
<1>5. g \in Cache!Newer(k)
  BY <1>4, MaxGenAssumption DEF Cache!Newer, Gens
<1>6. Cache!HandedOut(k) = {}
  <2> SUFFICES ASSUME NEW u \in Threads, NEW h \in HandOf(loc[u]), h.block = k PROVE FALSE
    BY OfThread DEF Cache!HandedOut
  <2>1. loc[u].mine \in Buffers /\ buf[loc[u].mine].block = k
    BY <1>3 DEF HandOf
  <2>2. loc[u].mine \in Linked
    BY <1>0, <2>1, HeldLinked
  <2> QED
    BY <1>1, <2>1, <2>2 DEF Find
<1>7. Asked[t] = {[op |-> "move", block |-> k]}
  BY <1>k, <1>1, <1>2, OfThread DEF CallOf, Asks
<1>8. /\ UNCHANGED <<status, disk, durable, failed, reported>> /\ status # "closed"
      /\ latest' = [latest EXCEPT ![k] = g]
  BY <1>k, <1>g, <1>1, InUse DEF MoveRelink, Around
<1>9. \A c \in Linked : buf[c].block # k
  BY <1>1 DEF Find
\* It stays in the lock until the buffer is back, or nobody else has it.
<1>10. ASSUME /\ \A u \in Threads \ {t} : HandOf(loc[u])' = HandOf(loc[u])
              /\ HandOf(loc[t])' \in {HandOf(loc[t]), {[block |-> k, gen |-> g]}}
              /\ pc'[t] \in {"release", "movecopy"} /\ loc'[t].call = "move" /\ loc'[t].res = loc[t].res
              /\ \A u \in Threads : loc'[u].call \in Getting /\ loc'[u].mine \in Buffers
                                      => Home(loc[u].mine)' = loc'[u].blk
       PROVE  Maps(t)
  <2>1. Asked' = [Asked EXCEPT ![t] = {}] /\ Wanting' = Wanting
    <3>1. CallOf(pc'[t], loc'[t]) = {} /\ WantOf(loc'[t]) = {} /\ WantOf(loc[t]) = {}
      BY <1>2, <1>10 DEF CallOf, Asks, WantOf
    <3>2. [Wanting EXCEPT ![t] = Wanting[t]] = Wanting /\ Wanting[t] = {}
      BY <3>1, OfThread DEF Wanting
    <3> QED
      BY <3>1, <3>2, Mapped DEF Around
  <2>2. Hands' \in {Hands, [Hands EXCEPT ![t] = {[block |-> k, gen |-> g]}]}
    <3>1. Hands' = [Hands EXCEPT ![t] = HandOf(loc[t])']
      BY <1>10, Mapped DEF Around
    <3>2. [Hands EXCEPT ![t] = Hands[t]] = Hands /\ Hands[t] = HandOf(loc[t])
      BY OfThread DEF Hands
    <3> QED
      BY <1>10, <3>1, <3>2
  <2>3. Erring' = Erring
    BY <1>2, <1>10 DEF Erring, Around, Unmoved
  <2>4. Cache!Move(t)
    BY <1>1, <1>5, <1>6, <1>7, <1>8, <2>1, <2>2, <2>3 DEF Cache!Move, Cache!Calling, Cache!device
  <2>5. PointsOf(pc'[t], loc'[t])
    BY <1>10 DEF PointsOf, Moving, Getting, Workers, SyncSteps
  <2>6. Served'
    BY <1>10 DEF Served
  <2> QED
    BY <1>8, <2>4, <2>5, <2>6 DEF Maps, Cache!Next, Cache!Client
<1>11. CASE buf[b].hold = 1
  <2>1. PICK r : r = [Moved(buf[b], k, g) EXCEPT !.where = "dirty"]
    OBVIOUS
  <2>2. r.block = k /\ r.gen = g
    BY <1>1, <2>1 DEF Moved, Buffer
  <2>3. buf' = [buf EXCEPT ![b] = r] /\ Go(t, "release", loc[t])
    BY <1>b, <1>k, <1>g, <1>11, <2>1 DEF MoveRelink, Link
  <2>4. pc'[t] = "release" /\ loc' = loc /\ \A c \in Buffers \ {b} : buf'[c] = buf[c]
    BY <1>0, <1>1, <2>3, GoFacts DEF Go, ThreadsInv, ThreadsType
  <2>5. \A c : Home(c)' = buf'[c].block
    BY <1>0, <1>1, <2>4, NobodyLendsNext DEF Around
  <2>6. \A u \in Threads \ {t} : loc[u].mine # b
    BY <1>b, <1>0, <1>1, <1>11, SoleHolder
  <2>7. ASSUME NEW u \in Threads \ {t}, loc[u].mine \in Buffers
        PROVE  Home(loc[u].mine)' = Home(loc[u].mine) /\ buf'[loc[u].mine].gen = buf[loc[u].mine].gen
    BY <1>3, <2>4, <2>5, <2>6, <2>7
  <2>8. \A u \in Threads \ {t} : HandOf(loc[u])' = HandOf(loc[u])
    BY <2>4, <2>7 DEF HandOf
  <2>9. HandOf(loc[t])' = {[block |-> k, gen |-> g]}
    BY <1>b, <1>1, <2>2, <2>3, <2>4, <2>5 DEF HandOf
  <2>10. \A u \in Threads : loc'[u].call \in Getting /\ loc'[u].mine \in Buffers
                             => Home(loc[u].mine)' = loc'[u].blk
    BY <1>1, <2>4, <2>7 DEF Around, Whole, CacheMapInv, Served
  <2> QED
    BY <1>2, <1>10, <2>4, <2>8, <2>9, <2>10
<1>12. CASE buf[b].hold # 1
  <2>1. PICK r : r = [[buf[b] EXCEPT !.block = k, !.state = @ \cup {"writing"}] EXCEPT !.where = buf[b].where]
    OBVIOUS
  <2>2. r.block = k /\ r.gen = buf[b].gen
    BY <1>1, <2>1 DEF Buffer
  <2>3. PICK s : s = [loc[t] EXCEPT !.blk = old]
    OBVIOUS
  <2>4. buf' = [buf EXCEPT ![b] = r] /\ Go(t, "movecopy", s) /\ lock' = lock
    BY <1>b, <1>k, <1>g, <1>o, <1>12, <2>1, <2>3 DEF MoveRelink, Link
  <2>5. s.call = "move" /\ s.mine = b /\ s.blk = old /\ s.res = loc[t].res
    BY <1>b, <1>2, <2>3 DEF Locals
  <2>6. /\ pc'[t] = "movecopy" /\ loc'[t] = s /\ \A u \in Threads \ {t} : Unmoved(u)
        /\ buf'[b] = r /\ \A c \in Buffers \ {b} : buf'[c] = buf[c]
    BY <1>0, <1>1, <2>4, OthersUnmoved
  <2>7. Lent(b)' /\ \A c \in Buffers \ {b} : ~Lent(c)'
    <3>1. \A u \in Threads \ {t} : pc[u] # "movecopy"
      BY <1>0, <1>1 DEF ThreadsInv, LockOwner
    <3> QED
      BY <2>5, <2>6, <3>1 DEF Lent, Unmoved
  <2>8. \A c \in Buffers : Home(c)' = Home(c)
    <3>1. Home(b)' = old
      BY <1>1, <2>4, <2>5, <2>6, <2>7 DEF Home
    <3>2. \A c \in Buffers \ {b} : Home(c)' = buf[c].block
      BY <2>6, <2>7 DEF Home
    <3> QED
      BY <1>3, <1>o, <3>1, <3>2
  <2>9. \A c \in Buffers : buf'[c].gen = buf[c].gen
    BY <2>2, <2>6
  <2>10. \A u \in Threads \ {t} : HandOf(loc[u])' = HandOf(loc[u])
    BY <2>6, <2>8, <2>9 DEF HandOf, Unmoved
  <2>11. HandOf(loc[t])' = HandOf(loc[t])
    BY <1>b, <1>2, <2>5, <2>6, <2>8, <2>9 DEF HandOf
  <2>12. \A u \in Threads : loc'[u].call \in Getting /\ loc'[u].mine \in Buffers
                             => Home(loc[u].mine)' = loc'[u].blk
    BY <2>5, <2>6, <2>8 DEF Around, Whole, CacheMapInv, Served, Unmoved, Getting
  <2> QED
    BY <1>10, <2>5, <2>6, <2>10, <2>11, <2>12
<1> QED
  BY <1>11, <1>12

\* It is linked back: that was its block for those who have it all the time.
LEMMA MoveCopiedStep ==
  ASSUME NEW t \in Threads, Around(t), MoveCopied(t)
  PROVE  UNCHANGED Cache!vars /\ Served' /\ PointsOf(pc'[t], loc'[t])
<1>b. PICK b : b = loc[t].mine
  OBVIOUS
<1>0. ThreadsInv /\ CacheInv /\ ThreadsInv' /\ CacheInv' /\ Base /\ Lasting
  BY WholeFacts DEF Around, Whole
<1>1. /\ b \in Linked /\ b \in Buffers /\ buf[b] \in Buffer /\ buf \in [Buffers -> Buffer]
      /\ lock = t /\ pc[t] = "movecopy"
  BY <1>b, <1>0, MoverFacts DEF MoveCopied
<1>2. loc[t].call = "move"
  BY <1>1, WholeFacts DEF Around, Known, PointsOf, Moving
<1>3. pc'[t] = "release" /\ loc' = loc
  BY <1>0, GoFacts DEF MoveCopied, Go, ThreadsInv, ThreadsType
<1>4. /\ buf'[b].block = loc[t].blk /\ buf'[b].gen = buf[b].gen /\ \A c \in Buffers \ {b} : buf'[c] = buf[c]
  <2>1. PICK r : r = [[buf[b] EXCEPT !.block = loc[t].blk] EXCEPT !.where = buf[b].where]
    OBVIOUS
  <2>2. r.block = loc[t].blk /\ r.gen = buf[b].gen
    BY <1>1, <2>1 DEF Buffer
  <2>3. buf' = [buf EXCEPT ![b] = r]
    BY <1>b, <2>1 DEF MoveCopied, Link
  <2> QED
    BY <1>1, <2>2, <2>3
<1>5. \A c \in Buffers : Home(c)' = Home(c) /\ buf'[c].gen = buf[c].gen
  <2>1. \A u \in Threads \ {t} : pc[u] # "movecopy"
    BY <1>0, <1>1 DEF ThreadsInv, LockOwner
  <2>2. Lent(b) /\ \A c \in Buffers \ {b} : ~Lent(c)
    BY <1>b, <1>1, <2>1 DEF Lent
  <2>3. \A c : ~Lent(c)'
    BY <1>3, <2>1 DEF Lent, Around, Unmoved
  <2>4. Home(b)' = Home(b)
    BY <1>1, <1>4, <2>2, <2>3 DEF Home
  <2>5. \A c \in Buffers \ {b} : Home(c)' = Home(c)
    BY <1>4, <2>2, <2>3 DEF Home
  <2> QED
    BY <1>4, <2>4, <2>5
<1>6. Hands' = Hands /\ Served'
  <2>1. \A u \in Threads : HandOf(loc[u])' = HandOf(loc[u])
    BY <1>3, <1>5 DEF HandOf
  <2>2. Served'
    BY <1>3, <1>5 DEF Around, Whole, CacheMapInv, Served
  <2> QED
    BY <2>1, <2>2 DEF Hands
<1>7. Asked' = Asked /\ Wanting' = Wanting /\ Erring' = Erring
  <2>1. \A u \in Threads : CallOf(pc[u], loc[u]) = CallOf(pc'[u], loc'[u])
    BY <1>1, <1>2, <1>3 DEF CallOf, Asks, Around, Unmoved
  <2> QED
    BY <1>3, <2>1 DEF Asked, Wanting, Erring
<1>8. UNCHANGED <<status, deviceVars>>
  BY DEF MoveCopied
<1>9. PointsOf(pc'[t], loc'[t])
  BY <1>2, <1>3 DEF PointsOf, Moving, Getting, Workers, SyncSteps
<1> QED
  BY <1>6, <1>7, <1>8, <1>9 DEF Cache!vars, Cache!device, deviceVars

\* dm_bufio_client_destroy: nobody is in a call or has a buffer, and none is left.
LEMMA UnregisterMaps ==
  ASSUME NEW t \in Threads, Around(t), Unregister(t)
  PROVE  Maps(t)
<1>1. /\ pc[t] = "unregister" /\ loc[t].call = "destroy" /\ status = "closing"
      /\ \A u \in Threads : loc[u].mine = NoBuffer /\ loc[u].call \in {"none", "destroy"}
  <2>1. pc[t] = "unregister" /\ loc[t].call = "destroy" /\ status = "closing"
    BY WholeFacts DEF Unregister, Around, Known, CallOK
  <2>2. \A u \in Threads : loc[u].mine = NoBuffer
    BY <2>1 DEF Around, Whole, LifeInv
  <2>3. \A u \in Threads \ {t} : loc[u].call = "none"
    BY WholeFacts DEF Unregister, Around, Known, CallOK
  <2> QED
    BY <2>1, <2>2, <2>3
<1>2. /\ pc'[t] = "destroyed" /\ loc'[t] = Rest(NoBuffer) /\ status' = "closed" /\ UNCHANGED deviceVars
      /\ \A u \in Threads \ {t} : Unmoved(u)
  BY <1>1, GoFacts DEF Unregister, Around, Whole
<1>3. \A u \in Threads : loc'[u].mine = NoBuffer /\ loc'[u].call \in {"none", "destroy"}
  BY <1>1, <1>2 DEF Rest, Unmoved
<1>4. \A u \in Threads : /\ CallOf(pc[u], loc[u]) = {} /\ HandOf(loc[u]) = {} /\ WantOf(loc[u]) = {}
                         /\ CallOf(pc'[u], loc'[u]) = {} /\ HandOf(loc[u])' = {} /\ WantOf(loc'[u]) = {}
  BY <1>1, <1>3, BuffersAssumption DEF CallOf, Asks, HandOf, WantOf
<1>5. Asked' = Asked /\ Hands' = Hands /\ Wanting' = Wanting
  BY <1>4 DEF Asked, Hands, Wanting
<1>6. Erring' = Erring \ {t}
  BY <1>2, Mapped DEF Rest
<1>7. \A k \in Blocks : disk[k] = latest[k] \/ k \in failed \cup reported
  <2>1. Linked = {}
    BY <1>1 DEF Around, Whole, ReserveInv
  <2>2. \A k \in Blocks : Settled(k)
    BY <2>1 DEF Settled, Find
  <2> QED
    BY <2>2 DEF Around, Whole, ContentInv, DeviceInv, Current
<1>8. \A u \in Threads : Asked[u] = {} /\ Hands[u] = {} /\ Wanting[u] = {}
  BY <1>4, OfThread
<1>9. Cache!Destroy
  BY <1>1, <1>2, <1>5, <1>6, <1>7, <1>8 DEF Cache!Destroy, Cache!device, Cache!Missing, deviceVars
<1>10. Served'
  BY <1>3, BuffersAssumption DEF Served
<1>11. PointsOf(pc'[t], loc'[t])
  BY <1>2, RestPoints
<1> QED
  BY <1>9, <1>10, <1>11 DEF Maps, Cache!Next

-----------------------------------------------------------------------------
(* All steps.                                                              *)

\* A call begins.
LEMMA StartMaps ==
  ASSUME NEW t \in Threads, Around(t), Start(t)
  PROVE  Maps(t)
<1>1. ThreadsInv /\ CacheInv /\ Known(t)
  BY WholeFacts DEF Around, Whole
<1>2. CASE \/ \E k \in Blocks : Forget(t, k) \/ \E n \in PrefetchSizes : Prefetch(t, k, n)
           \/ WriteAsync(t) \/ Age(t) \/ Destroy(t)
           \/ \E c \in ApiCalls, n \in ScanSizes : Scan(t, c, n)
  <2>1. Unseen(t) /\ Unaltered
    BY <1>1, <1>2, StartSilent
  <2>2. UNCHANGED deviceVars /\ status # "closed" /\ status' # "closed"
    BY <1>2 DEF Forget, Prefetch, WriteAsync, Age, Destroy, Scan
  <2> QED
    BY <2>1, <2>2, UnseenMaps
<1>3. ASSUME NEW k \in Blocks, NEW c \in {"read", "new", "get"}, NewRead(t, c, k) PROVE Maps(t)
  BY <1>3, NewReadMaps
<1>4. ASSUME NEW k \in Blocks, Move(t, k) PROVE Maps(t)
  BY <1>4, MoveMaps
<1> QED
  BY <1>2, <1>3, <1>4, MarkDirtyMaps, SyncMaps DEF Start

\* A call goes on; only the end of a lent buffer is nothing to the block cache at all.
LEMMA ContinueMaps ==
  ASSUME NEW t \in Threads, Around(t), Continue(t)
  PROVE  Maps(t) \/ (UNCHANGED Cache!vars /\ Served' /\ PointsOf(pc'[t], loc'[t]))
<1>1. ThreadsInv /\ CacheInv /\ Known(t)
  BY WholeFacts DEF Around, Whole
<1>2. ASSUME Unseen(t), Unaltered, UNCHANGED <<status, deviceVars>>, pc[t] \notin {"idle", "destroyed"}
      PROVE  Maps(t)
  BY <1>2, InUse, UnseenMaps DEF Around
<1>3. ASSUME Lookup(t) \/ Alloc(t) \/ LinkNew(t) PROVE Maps(t)
  <2>1. Unseen(t) /\ Unaltered
    BY <1>1, <1>3, LookupSilent, AllocSilent, LinkNewSilent
  <2>2. UNCHANGED <<status, deviceVars>> /\ pc[t] \notin {"idle", "destroyed"}
    BY <1>3 DEF Lookup, Alloc, LinkNew
  <2> QED
    BY <1>2, <2>1, <2>2
<1>4. ASSUME WakeUp(t) \/ Recheck(t) \/ Watermark(t) \/ SubmitRead(t) \/ Flush(t) PROVE Maps(t)
  <2>1. Unseen(t) /\ Unaltered
    BY <1>1, <1>4, GettingSilent
  <2>2. UNCHANGED <<status, deviceVars>> /\ pc[t] \notin {"idle", "destroyed"}
    BY <1>4 DEF WakeUp, Recheck, Watermark, SubmitRead, Flush
  <2> QED
    BY <1>2, <2>1, <2>2
<1>5. ASSUME CleanWrite(t) \/ CleanDone(t) \/ WriteBack(t) PROVE Maps(t)
  <2>1. Unseen(t) /\ Unaltered
    BY <1>1, <1>5, EvictSilent
  <2>2. UNCHANGED <<status, deviceVars>> /\ pc[t] \notin {"idle", "destroyed"}
    BY <1>5 DEF CleanWrite, CleanDone, WriteBack
  <2> QED
    BY <1>2, <2>1, <2>2
<1>6. ASSUME SyncWalk(t) \/ SyncVisit(t) \/ SyncPark(t) \/ SyncWake(t) \/ SyncRelock(t) \/ SyncEnd(t)
      PROVE  Maps(t)
  <2>1. Unseen(t) /\ Unaltered
    BY <1>1, <1>6, SyncSilent
  <2>2. UNCHANGED <<status, deviceVars>> /\ pc[t] \notin {"idle", "destroyed"}
    BY <1>6 DEF SyncWalk, SyncVisit, SyncPark, SyncWake, SyncRelock, SyncEnd
  <2> QED
    BY <1>2, <2>1, <2>2
<1>7. ASSUME MoveFind(t) \/ MoveWrite(t) \/ ScanVisit(t) \/ AgeVisit(t) \/ DropStart(t) \/ Drop(t)
      PROVE  Maps(t)
  <2>1. Unseen(t) /\ Unaltered
    BY <1>1, <1>7, WorkSilent
  <2>2. UNCHANGED <<status, deviceVars>> /\ pc[t] \notin {"idle", "destroyed"}
    BY <1>7 DEF MoveFind, MoveWrite, ScanVisit, AgeVisit, DropStart, Drop
  <2> QED
    BY <1>2, <2>1, <2>2
<1>8. ASSUME WaitRead(t) PROVE Maps(t)
  <2>1. CASE Return(t, loc[t].mine) /\ loc[t].call # "new" /\ "read" \notin buf[loc[t].mine].err
    BY <1>8, <2>1, WaitReadMaps
  <2>2. CASE ~Return(t, loc[t].mine)
    <3>1. Unseen(t) /\ Unaltered
      BY <1>1, <1>8, <2>2, WaitReadSilent
    <3>2. UNCHANGED <<status, deviceVars>> /\ pc[t] \notin {"idle", "destroyed"}
      BY <1>8 DEF WaitRead
    <3> QED
      BY <1>2, <3>1, <3>2
  <2>3. Return(t, loc[t].mine) => loc[t].call # "new" /\ "read" \notin buf[loc[t].mine].err
    <3>1. Return(t, loc[t].mine) => pc'[t] = "idle"
      BY <1>1, GoFacts DEF Return
    <3>2. Go(t, "release", loc[t]) \/ Go(t, "overwrite", loc[t]) => pc'[t] # "idle"
      BY <1>1, GoFacts
    <3> QED
      BY <1>8, <3>1, <3>2 DEF WaitRead
  <2> QED
    BY <2>1, <2>2, <2>3
<1> QED
  BY <1>3, <1>4, <1>5, <1>6, <1>7, <1>8, OverwriteMaps, TakeErrorMaps, IssueFlushMaps,
         MoveRelinkMaps,
     MoveCopiedStep, UnregisterMaps DEF Continue

\* The initial state of the code is that of the block cache.
LEMMA InitMaps == Init => Cache!Init /\ CacheMapInv
<1> SUFFICES ASSUME Init PROVE Cache!Init /\ CacheMapInv
  OBVIOUS
<1>1. /\ pc = [t \in Threads |-> "idle"] /\ loc = [t \in Threads |-> Rest(NoBuffer)]
      /\ status = "open" /\ failed = {} /\ reported = {}
      /\ disk = [k \in Blocks |-> 1] /\ durable = disk /\ latest = disk
      /\ io = [b \in Buffers |-> NoRequest]
  BY DEF Init
<1>2. \A t \in Threads : /\ CallOf(pc[t], loc[t]) = {} /\ HandOf(loc[t]) = {} /\ WantOf(loc[t]) = {}
                         /\ loc[t].mine = NoBuffer /\ ~loc[t].res
  BY <1>1, BuffersAssumption DEF CallOf, Asks, HandOf, WantOf, Rest
<1>3. Cache!Init
  BY <1>1, <1>2 DEF Cache!Init, Asked, Hands, Wanting, Erring
<1>4. CallInv
  BY <1>1, RestPoints DEF CallInv
<1>5. WritesInOrder
  BY <1>1 DEF WritesInOrder, NoRequest
<1>6. Served
  BY <1>2, BuffersAssumption DEF Served
<1> QED
  BY <1>3, <1>4, <1>5, <1>6 DEF CacheMapInv

\* Every step of the code is one of the block cache, or none.
LEMMA StepMaps ==
  ASSUME IInv, IInv', CacheMapInv, [Next]_vars
  PROVE  [Cache!Next]_(Cache!vars) /\ CacheMapInv'
<1>1. Whole /\ ThreadsInv /\ CacheInv /\ ThreadsInv' /\ CacheInv'
  BY DEF IInv, CoreInv, Whole
<1>2. Base /\ Lasting
  BY <1>1, WholeFacts
<1>3. ASSUME NEW t \in Threads, Start(t) \/ Continue(t) \/ ReleaseRef(t)
      PROVE  [Cache!Next]_(Cache!vars) /\ CacheMapInv'
  <2>1. \A u \in Threads \ {t} : Unmoved(u)
    BY <1>1, <1>3, OthersStay
  <2>2. Around(t)
    BY <1>1, <2>1 DEF Around
  <2>3. [Cache!Next]_(Cache!vars) /\ Served' /\ PointsOf(pc'[t], loc'[t])
    BY <1>3, <2>2, StartMaps, ContinueMaps, ReleaseRefMaps DEF Maps
  <2>4. CallInv'
    BY <2>1, <2>3 DEF CallInv, Unmoved, CacheMapInv
  <2>5. WritesInOrder'
    BY <1>2, <1>3, StartWrites, ContinueWrites DEF CacheMapInv
  <2> QED
    BY <2>3, <2>4, <2>5 DEF CacheMapInv
<1>4. ASSUME NEW b \in Buffers, ReadDone(b) \/ WriteDone(b)
      PROVE  [Cache!Next]_(Cache!vars) /\ CacheMapInv'
  BY <1>1, <1>2, <1>4, ReadDoneStep, WriteDoneStep DEF Whole
<1>5. CASE UNCHANGED vars
  <2>1. UNCHANGED <<lock, buf, io, status, pc, loc, disk, durable, latest, failed, reported>>
    BY <1>5 DEF vars, cacheVars, ioVars, deviceVars
  <2>2. Asked' = Asked /\ Hands' = Hands /\ Wanting' = Wanting /\ Erring' = Erring /\ Served' /\ CallInv'
    BY <2>1, DeviceStays DEF CacheMapInv
  <2> QED
    BY <1>2, <2>1, <2>2, WritesSame DEF CacheMapInv, Cache!vars, Cache!device
<1> QED
  BY <1>3, <1>4, <1>5 DEF Next

\* What the mapping to the block cache rests on: which call a thread is in where it
\* is, that nothing older overtakes what is newer on the way to the device, and that
\* a buffer somebody waits for stays the buffer of the block asked for.
THEOREM MappingHolds == Spec => []CacheMapInv
<1>1. Init => CacheMapInv
  BY InitMaps
<1>2. IInv /\ IInv' /\ CacheMapInv /\ [Next]_vars => CacheMapInv'
  BY StepMaps
<1> QED
  BY <1>1, <1>2, Invariant, PTL DEF Spec

\* dm-bufio is a write-back cache to its clients: whatever is evicted, moved, shared,
\* prefetched, written back or read again, they get of a block what was last given for
\* it, but for what a failed write has taken, a flush returns 0 only when what was
\* changed before it is durable, a failed write is told, and the client is destroyed
\* only when the device has everything.
THEOREM CacheRefines == Spec => ImplementsCache
<1>1. Init => Cache!Init
  BY InitMaps
<1>2. IInv /\ IInv' /\ CacheMapInv /\ [Next]_vars => [Cache!Next]_(Cache!vars)
  BY StepMaps
<1> QED
  BY <1>1, <1>2, Invariant, MappingHolds, PTL DEF Spec, ImplementsCache, Cache!Spec
=============================================================================

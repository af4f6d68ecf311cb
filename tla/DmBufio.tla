------------------------------ MODULE DmBufio ------------------------------
(***************************************************************************)
(* The buffered-I/O cache of ch10/dm-verity/dm-bufio.c: one client, the    *)
(* threads that call it, the memory shrinker, the age worker and the block *)
(* device under it.                                                        *)
(*                                                                         *)
(* A thread is a program counter and its local variables.  Everything the  *)
(* code does under c->lock without sleeping is one action; every place     *)
(* where it sleeps with the lock held, drops the lock, or submits a        *)
(* request is a control point of its own, so that interrupts (IoDone) and  *)
(* other threads interleave exactly where they can in the code.            *)
(***************************************************************************)
EXTENDS Naturals, FiniteSets

CONSTANTS
  Threads,          \* kernel threads that use the client
  Buffers,          \* all the struct dm_buffer that memory has room for
  Blocks,           \* block numbers of the device
  ReservedBuffers,  \* argument of dm_bufio_client_create
  Limits,           \* values limit_buffers can take (the cache size may change)
  RetainTarget,     \* get_retain_buffers()
  ScanSizes,        \* nr_to_scan the shrinker passes
  PrefetchSizes,    \* n_blocks of dm_bufio_prefetch
  MaxGen,           \* bound: generations of a block's content that are told apart
  Calls,            \* Calls[t]: the functions thread t may call
  Failures,         \* directions in which the device may fail
  Nobody, NoBuffer, NoBlock

ApiCalls == {"read", "new", "get", "prefetch", "dirty", "move", "forget",
             "async", "sync", "scan_fs", "scan_nofs", "age", "destroy"}

ASSUME BlocksAssumption  == Blocks \subseteq Nat /\ NoBlock \notin Blocks
ASSUME BuffersAssumption == IsFiniteSet(Buffers) /\ NoBuffer \notin Buffers
ASSUME ThreadsAssumption == IsFiniteSet(Threads) /\ Nobody \notin Threads
ASSUME ReserveAssumption == ReservedBuffers \in Nat \ {0}
                            /\ ReservedBuffers <= Cardinality(Buffers)
ASSUME LimitsAssumption  == Limits \subseteq Nat \ {0} /\ RetainTarget \in Nat
ASSUME SizesAssumption   == /\ ScanSizes \subseteq Nat \ {0}
                            /\ PrefetchSizes \subseteq Nat \ {0}
ASSUME MaxGenAssumption  == MaxGen \in Nat \ {0}
ASSUME CallsAssumption   == Calls \in [Threads -> SUBSET ApiCalls]
ASSUME FailAssumption    == Failures \subseteq {"read", "write"}

VARIABLES
  lock,        \* c->lock: the thread that holds it, or Nobody
  buf,         \* the struct dm_buffer of each buffer
  recent,      \* <<a, b>>: a is nearer than b to the head of the LRU list both are on
  need,        \* c->need_reserved_buffers
  sleepers,    \* threads on c->free_buffer_wait
  asyncError,  \* c->async_write_error
  io,          \* the request in flight of each buffer (its bio)
  status,      \* "open", "closing" in dm_bufio_client_destroy, "closed" after it
  pc, loc,     \* control point and local variables of each thread
  disk,        \* content of each block in the device, its volatile cache included
  durable,     \* content of each block that survives a power cut
  latest,      \* ghost: the newest content a client gave each block
  failed,      \* ghost: blocks with a failed write, its error still in asyncError
  reported     \* ghost: blocks with a failed write, its error taken by a sync

cacheVars  == <<buf, recent, need, sleepers>>
deviceVars == <<disk, durable, latest, failed, reported>>
ioVars     == <<io, asyncError>>
vars == <<lock, cacheVars, ioVars, status, pc, loc, deviceVars>>

-----------------------------------------------------------------------------
(* Data.  The content of a block is a generation number: 0 is memory that   *)
(* was never filled, 1 the initial content, and marking the block dirty     *)
(* makes the next one; MaxGen stands for itself and all later ones.         *)

Gens   == 0 .. MaxGen
Bump(g) == IF g + 1 \in Gens THEN g + 1 ELSE MaxGen
Bits   == {"reading", "writing", "dirty"}       \* dm_buffer->state
Lists  == {"clean", "dirty"}                    \* dm_buffer->list_mode
Places == Lists \cup {"free", "reserved", "hand"}

Buffer == [where : Places, block : Blocks \cup {NoBlock}, hold : Nat,
           state : SUBSET Bits, err : SUBSET {"read", "write"}, gen : Gens]
Request == [rw : {"none", "read", "write"}, block : Blocks \cup {NoBlock}, gen : Gens]

\* A buffer no list of the client holds, freed or in the reserve.
Blank(place) == [where |-> place, block |-> NoBlock, hold |-> 0,
                 state |-> {}, err |-> {}, gen |-> 0]
NoRequest == [rw |-> "none", block |-> NoBlock, gen |-> 0]

List(l)   == {b \in Buffers : buf[b].where = l}
Linked    == {b \in Buffers : buf[b].where \in Lists}
Find(k)   == {b \in Linked : buf[b].block = k}              \* at most one buffer
HeldOrNot(S) == S                                 \* fault: hold_count not tested
Unheld(S) == {b \in S : buf[b].hold = 0}
Oldest(S) == {b \in S : \A c \in S \ {b} : <<c, b>> \in recent}

\* The buffer __get_unclaimed_buffer picks: from the tail of the clean list,
\* else from the tail of the dirty list; empty when every buffer is held.
Unclaimed ==
  IF Unheld(List("clean")) # {} THEN Oldest(Unheld(List("clean")))
                                ELSE Oldest(Unheld(List("dirty")))

\* list_del, and list_add at the head of list l.
Forgotten(b) == {p \in recent : p[1] # b /\ p[2] # b}
Newest(b, l) == Forgotten(b) \cup {<<b, c>> : c \in List(l) \ {b}}

\* __relink_lru and __link_buffer: b, now the record r, to the head of list l.
Link(b, r, l) == /\ buf' = [buf EXCEPT ![b] = [r EXCEPT !.where = l]]
                 /\ recent' = Newest(b, l)

\* Fault: the reserve is paid although nothing is owed.
FreeBufferWakeUnasked(b) ==
  /\ buf' = [buf EXCEPT ![b] = Blank("reserved")]
  /\ need' = need - 1 /\ sleepers' = {} /\ recent' = Forgotten(b)

\* __free_buffer_wake: to the reserve while it is short, else to the allocator.
FreeBufferWake(b) ==
  /\ buf' = [buf EXCEPT ![b] = Blank(IF need = 0 THEN "free" ELSE "reserved")]
  /\ need' = IF need = 0 THEN 0 ELSE need - 1
  /\ sleepers' = {}
  /\ recent' = Forgotten(b)                  \* __unlink_buffer when it was linked

\* Fault: B_WRITING is not tested.
ListForDirty(state) == IF "dirty" \in state THEN "dirty" ELSE "clean"

\* __relink_lru to the list the bits ask for, as the end of __bufio_new does.
ListFor(state) == IF state \cap {"dirty", "writing"} = {} THEN "clean" ELSE "dirty"

\* submit_io: the request carries the content the buffer has now.
Submit(b, rw, k, g) == io' = [io EXCEPT ![b] = [rw |-> rw, block |-> k, gen |-> g]]

-----------------------------------------------------------------------------
(* Threads.                                                                *)

Locked == {"lookup", "alloc", "clean", "recheck", "watermark", "link", "wb",
           "sync", "park", "drop", "move", "movewrite", "relink", "movecopy",
           "scan", "age"}
Unlocked == {"idle", "asleep", "flush", "submit", "wait", "overwrite", "release",
             "relock", "syncwait", "syncrelock", "xchg", "issueflush",
             "unregister", "destroyed"}

Snapshot == [Blocks -> Gens]
NoSnap   == [k \in Blocks |-> 0]
Locals   == [call : ApiCalls \cup {"none"}, then : Locked \cup Unlocked,
             mine : Buffers \cup {NoBuffer}, cur : Buffers \cup {NoBuffer},
             newb : Buffers \cup {NoBuffer}, blk : Blocks \cup {NoBlock},
             wl : SUBSET Buffers, walk : SUBSET Buffers,
             left : Nat, count : Nat, lim : Nat, res : BOOLEAN, snap : Snapshot]

\* The locals of a thread between two calls: only its reference is left.
Rest(m) == [call |-> "none", then |-> "idle", mine |-> m, cur |-> NoBuffer,
            newb |-> NoBuffer, blk |-> NoBlock, wl |-> {}, walk |-> {}, left |-> 0,
            count |-> 0, lim |-> 0, res |-> FALSE, snap |-> NoSnap]

At(t, l)      == pc[t] = l
Go(t, l, r)   == pc' = [pc EXCEPT ![t] = l] /\ loc' = [loc EXCEPT ![t] = r]
Return(t, m)  == Go(t, "idle", Rest(m))
Acquire(t)    == lock = Nobody /\ lock' = t
Momentarily   == lock = Nobody /\ lock' = Nobody   \* lock, work, unlock
Unlock        == lock' = Nobody
KeepLock      == UNCHANGED lock
Call(t, c)    == At(t, "idle") /\ c \in Calls[t]

\* The state dm_bufio_client_create leaves: the reserve is full.
Init ==
  /\ lock = Nobody /\ need = 0 /\ sleepers = {} /\ asyncError = FALSE /\ status = "open"
  /\ \E R \in SUBSET Buffers :
       /\ Cardinality(R) = ReservedBuffers
       /\ buf = [b \in Buffers |-> Blank(IF b \in R THEN "reserved" ELSE "free")]
  /\ recent = {}
  /\ io = [b \in Buffers |-> NoRequest]
  /\ pc = [t \in Threads |-> "idle"]
  /\ loc = [t \in Threads |-> Rest(NoBuffer)]
  /\ disk = [k \in Blocks |-> 1] /\ durable = disk /\ latest = disk
  /\ failed = {} /\ reported = {}

-----------------------------------------------------------------------------
(* Getting a buffer: __bufio_new under new_read and dm_bufio_prefetch.      *)

\* __bufio_new returns NULL: new_read hands it on, dm_bufio_prefetch goes to
\* its next block without having dropped the lock.
GiveUp(t, r) ==
  \/ r.left = 0 /\ Unlock /\ Return(t, NoBuffer)
  \/ r.left > 0 /\ lock' = t
                /\ Go(t, "lookup", [r EXCEPT !.blk = @ + 1, !.left = @ - 1])

\* found_buffer: dm_bufio_get must not wait for a read that is in progress.
Declined(r, b) == \/ r.call = "prefetch"
                  \/ r.call = "get" /\ "reading" \in buf[b].state

\* The part of __bufio_new before the allocation, for a thread whose locals
\* are r and which holds the lock or takes it in this step.
BufioNew(t, r) ==
  \/ \E b \in Find(r.blk) :
       /\ ~Declined(r, b)
       /\ Link(b, [buf[b] EXCEPT !.hold = @ + 1], ListFor(buf[b].state))
       /\ Unlock /\ Go(t, "wait", [r EXCEPT !.mine = b])
       /\ UNCHANGED <<need, sleepers>>
  \/ /\ \/ \E b \in Find(r.blk) : Declined(r, b)
        \/ Find(r.blk) = {} /\ r.call = "get"
     /\ GiveUp(t, r) /\ UNCHANGED cacheVars
  \/ /\ Find(r.blk) = {} /\ r.call # "get"
     /\ lock' = t /\ Go(t, "alloc", r) /\ UNCHANGED cacheVars

Wanted(c, k, n) == [Rest(NoBuffer) EXCEPT !.call = c, !.blk = k, !.left = n]

\* dm_bufio_read, dm_bufio_new, dm_bufio_get: a client takes one reference at a time.
NewRead(t, c, k) ==
  /\ Call(t, c) /\ loc[t].mine = NoBuffer /\ status = "open" /\ lock = Nobody
  /\ BufioNew(t, Wanted(c, k, 0))
  /\ UNCHANGED <<ioVars, status, deviceVars>>

Prefetch(t, k, n) ==
  /\ Call(t, "prefetch") /\ loc[t].mine = NoBuffer /\ status = "open" /\ lock = Nobody
  /\ \A i \in 0 .. n - 1 : k + i \in Blocks
  /\ BufioNew(t, Wanted("prefetch", k, n - 1))
  /\ UNCHANGED <<ioVars, status, deviceVars>>

\* The next block of a prefetch, or the retry of a lookup that lost the race.
Lookup(t) ==
  /\ At(t, "lookup") \/ (At(t, "relock") /\ loc[t].call = "prefetch" /\ lock = Nobody)
  /\ BufioNew(t, loc[t])
  /\ UNCHANGED <<ioVars, status, deviceVars>>

\* __alloc_buffer_wait_no_callback, one turn of its loop.  Memory may be short
\* at any time, so the allocation may fail although a buffer is free.
Take(b) == buf' = [buf EXCEPT ![b].where = "hand", ![b].block = NoBlock]
LendFree(b) == Take(b) /\ UNCHANGED need          \* fault: the loan is not recorded
Lend(b) == Take(b) /\ need' = need + 1             \* from the reserve

Alloc(t) ==
  /\ At(t, "alloc") /\ UNCHANGED <<ioVars, status, deviceVars>>
  /\ \/ \E b \in List("free") :
          /\ Take(b) /\ Go(t, "recheck", [loc[t] EXCEPT !.newb = b])
          /\ UNCHANGED <<lock, recent, need, sleepers>>
     \/ /\ loc[t].call = "prefetch"
        /\ GiveUp(t, loc[t]) /\ UNCHANGED cacheVars
     \/ \E b \in List("reserved") :
          /\ loc[t].call # "prefetch"
          /\ Lend(b) /\ Go(t, "recheck", [loc[t] EXCEPT !.newb = b])
          /\ UNCHANGED <<lock, recent, sleepers>>
     \/ \E b \in Unclaimed :
          /\ loc[t].call # "prefetch" /\ List("reserved") = {}
          /\ Go(t, "clean", [loc[t] EXCEPT !.cur = b, !.then = "alloc"])
          /\ KeepLock /\ UNCHANGED cacheVars
     \/ /\ loc[t].call # "prefetch" /\ List("reserved") = {} /\ Unclaimed = {}
        /\ Unlock /\ sleepers' = sleepers \cup {t}
        /\ Go(t, "asleep", [loc[t] EXCEPT !.then = "alloc"])
        /\ UNCHANGED <<buf, recent, need>>

\* __wait_for_free_buffer was woken: take the lock and try again.
WakeUp(t) ==
  /\ At(t, "asleep") /\ t \notin sleepers /\ Acquire(t)
  /\ Go(t, loc[t].then, [loc[t] EXCEPT !.then = "idle"])
  /\ UNCHANGED <<cacheVars, ioVars, status, deviceVars>>

\* Fault: the hash table is not checked again.
RecheckSkipped(t) ==
  /\ At(t, "recheck") /\ KeepLock
  /\ \E l \in Limits : Go(t, "watermark", [loc[t] EXCEPT !.lim = l])
  /\ UNCHANGED <<cacheVars, ioVars, status, deviceVars>>

\* The lock may have been dropped during the allocation: look again.
Recheck(t) ==
  /\ At(t, "recheck") /\ KeepLock /\ UNCHANGED <<ioVars, status, deviceVars>>
  /\ \/ /\ Find(loc[t].blk) # {}
        /\ FreeBufferWake(loc[t].newb)
        /\ Go(t, "lookup", [loc[t] EXCEPT !.newb = NoBuffer])
     \/ /\ Find(loc[t].blk) = {}
        /\ \E l \in Limits : Go(t, "watermark", [loc[t] EXCEPT !.lim = l])
        /\ UNCHANGED cacheVars

\* __check_watermark, one turn of its loop, and the start of the write-back.
Threshold(l) == (l * 75) \div 100
OverLimit(t) == Cardinality(Linked) > loc[t].lim

Watermark(t) ==
  /\ At(t, "watermark") /\ KeepLock /\ UNCHANGED <<cacheVars, ioVars, status, deviceVars>>
  /\ \/ \E b \in Unclaimed :
          /\ OverLimit(t)
          /\ Go(t, "clean", [loc[t] EXCEPT !.cur = b, !.then = "watermark"])
     \/ /\ OverLimit(t) /\ Unclaimed = {}
        /\ Go(t, "link", loc[t])
     \/ /\ ~OverLimit(t) /\ Cardinality(List("dirty")) > Threshold(loc[t].lim)
        /\ Go(t, "wb", [loc[t] EXCEPT !.walk = List("dirty"), !.then = "link"])
     \/ /\ ~OverLimit(t) /\ Cardinality(List("dirty")) <= Threshold(loc[t].lim)
        /\ Go(t, "link", loc[t])

\* Fault: dm_bufio_prefetch does not look at its write list.
MustFlushNotPrefetch(r) == r.wl # {} /\ r.call # "prefetch"
MustFlush(r) == r.wl # {}

\* The end of __bufio_new: link the buffer, with one reference, and unlock.
LinkNew(t) ==
  LET r == loc[t]
      after == IF r.call = "new" THEN "wait" ELSE "submit"
  IN /\ At(t, "link") /\ Unlock /\ UNCHANGED <<need, sleepers, ioVars, status, deviceVars>>
     /\ Link(r.newb,
             [buf[r.newb] EXCEPT !.block = r.blk, !.hold = 1, !.err = {},
                !.state = IF r.call = "new" THEN {} ELSE {"reading"}],
             "clean")
     /\ Go(t, IF MustFlush(r) THEN "flush" ELSE after,
           [r EXCEPT !.mine = r.newb, !.newb = NoBuffer, !.then = after, !.lim = 0])

\* __flush_write_list, without the lock; dm_bufio_prefetch retakes the lock
\* for a moment when it is through.
Flush(t) ==
  /\ At(t, "flush") /\ UNCHANGED <<cacheVars, asyncError, status, deviceVars>>
  /\ \/ \E b \in loc[t].wl :
          /\ Submit(b, "write", buf[b].block, buf[b].gen)
          /\ Go(t, "flush", [loc[t] EXCEPT !.wl = @ \ {b}])
          /\ UNCHANGED lock
     \/ /\ loc[t].wl = {}
        /\ IF loc[t].call = "prefetch" THEN Momentarily ELSE UNCHANGED lock
        /\ IF loc[t].then = "idle" THEN Return(t, loc[t].mine)
                                   ELSE Go(t, loc[t].then, loc[t])
        /\ UNCHANGED io

\* new_read and dm_bufio_prefetch submit the read after they dropped the lock.
SubmitRead(t) ==
  LET b == loc[t].mine IN
  /\ At(t, "submit") /\ UNCHANGED <<lock, cacheVars, asyncError, status, deviceVars>>
  /\ Submit(b, "read", buf[b].block, 0)
  /\ Go(t, IF loc[t].call = "prefetch" THEN "release" ELSE "wait", loc[t])

\* new_read: a failed read costs the caller its reference.
WaitRead(t) ==
  LET b == loc[t].mine IN
  /\ At(t, "wait") /\ "reading" \notin buf[b].state
  /\ UNCHANGED <<lock, cacheVars, ioVars, status, deviceVars>>
  /\ \/ "read" \in buf[b].err /\ Go(t, "release", loc[t])
     \/ "read" \notin buf[b].err /\ loc[t].call # "new" /\ Return(t, b)
     \/ "read" \notin buf[b].err /\ loc[t].call = "new" /\ Go(t, "overwrite", loc[t])

-----------------------------------------------------------------------------
(* Giving a buffer back, and making it dirty.                              *)

\* A buffer with an error and no activity is not worth caching.
Spoiled(b) == buf[b].err # {} /\ buf[b].state = {}

KeepHold(r) == r                                  \* fault: hold_count-- is missing
Unhold(r)   == [r EXCEPT !.hold = @ - 1]
NoWake(b)   == UNCHANGED sleepers                 \* fault: wake_up is missing

\* The last reference wakes who waits for a buffer.
WakeIfLast(b) == sleepers' = IF buf[b].hold = 1 THEN {} ELSE sleepers

\* dm_bufio_release, by a client or at the end of a failed or prefetched read.
ReleaseRef(t) ==
  LET r == loc[t]
      b == r.mine
      more == r.call = "prefetch" /\ r.left > 0
  IN /\ At(t, "release") \/ (At(t, "idle") /\ b # NoBuffer)
     /\ Momentarily /\ UNCHANGED <<ioVars, status, deviceVars>>
     /\ \/ /\ buf[b].hold = 1 /\ Spoiled(b)
           /\ FreeBufferWake(b)
        \/ /\ ~(buf[b].hold = 1 /\ Spoiled(b))
           /\ buf' = [buf EXCEPT ![b] = Unhold(@)]
           /\ WakeIfLast(b) /\ UNCHANGED <<recent, need>>
     /\ IF more THEN Go(t, "relock", Wanted("prefetch", r.blk + 1, r.left - 1))
                ELSE Return(t, NoBuffer)

\* The client changes the data it holds and calls dm_bufio_mark_buffer_dirty.
MakeDirty(t) ==
  LET b == loc[t].mine
      g == Bump(latest[buf[b].block])
      r == [buf[b] EXCEPT !.state = @ \cup {"dirty"}, !.gen = g]
  IN /\ Momentarily
     /\ \/ /\ "dirty" \notin buf[b].state
           /\ Link(b, r, "dirty")
        \/ /\ "dirty" \in buf[b].state
           /\ buf' = [buf EXCEPT ![b] = r] /\ UNCHANGED recent
     /\ latest' = [latest EXCEPT ![buf[b].block] = g]
     /\ Return(t, b)
     /\ UNCHANGED <<need, sleepers, ioVars, status, disk, durable, failed, reported>>

MarkDirty(t) == Call(t, "dirty") /\ loc[t].mine # NoBuffer /\ MakeDirty(t)
Overwrite(t) == At(t, "overwrite") /\ MakeDirty(t)     \* what dm_bufio_new is for

\* dm_bufio_forget: drop the block if it is idle, else do nothing.
Forget(t, k) ==
  /\ Call(t, "forget") /\ status = "open" /\ Momentarily
  /\ \E b \in Find(k) :
       /\ buf[b].hold = 0 /\ buf[b].state = {}
       /\ FreeBufferWake(b)
  /\ UNCHANGED <<ioVars, status, pc, loc, deviceVars>>

-----------------------------------------------------------------------------
(* Making a buffer clean, and evicting it.                                 *)

\* __write_dirty_buffer: a write waits for the one before it, then takes over
\* the dirty bit.  Nobody else looks at the two bits in between.
Writable(b) == "dirty" \in buf[b].state /\ "writing" \notin buf[b].state
Writing(s)  == (s \ {"dirty"}) \cup {"writing"}
StartWrite(b) == buf' = [buf EXCEPT ![b].state = Writing(@)]

NoIo(b) == buf[b].state \cap {"reading", "writing"} = {}   \* fault: dirty or not
NotDirty(b)  == buf[b].state \cap {"reading", "dirty"} = {}  \* fault: written or not
Quiescent(b) == buf[b].state = {}

\* __make_buffer_clean: the buffer is read completely, then written if dirty.
CleanWrite(t) ==
  LET b == loc[t].cur IN
  /\ At(t, "clean") /\ Writable(b) /\ "reading" \notin buf[b].state
  /\ StartWrite(b) /\ Submit(b, "write", buf[b].block, buf[b].gen)
  /\ UNCHANGED <<lock, recent, need, sleepers, asyncError, status, pc, loc, deviceVars>>

NotBelowTarget(n) == n >= RetainTarget            \* fault: off by one
AboveTarget(n) == n > RetainTarget

\* One buffer walked by __scan: stop after nr_to_scan of them, or when
\* "count - freed" is down to the retain target.
Scanned(t, freed) ==
  LET r == [loc[t] EXCEPT !.left = @ - 1, !.count = @ - freed, !.cur = NoBuffer]
  IN IF r.left = 0 \/ ~AboveTarget(r.count)
     THEN Unlock /\ Return(t, r.mine)
     ELSE KeepLock /\ Go(t, "scan", r)

\* __make_buffer_clean is through: unlink the buffer, and use or free it.
CleanDone(t) ==
  LET r == loc[t] IN
  /\ At(t, "clean") /\ Quiescent(r.cur) /\ UNCHANGED <<ioVars, status, deviceVars>>
  /\ \/ /\ r.then = "alloc"
        /\ Take(r.cur) /\ recent' = Forgotten(r.cur) /\ UNCHANGED <<need, sleepers>>
        /\ Go(t, "recheck", [r EXCEPT !.newb = r.cur, !.cur = NoBuffer, !.then = "idle"])
        /\ KeepLock
     \/ /\ r.then \in {"watermark", "drop", "move"}
        /\ FreeBufferWake(r.cur)
        /\ Go(t, r.then, [r EXCEPT !.cur = NoBuffer, !.then = "idle"])
        /\ KeepLock
     \/ /\ r.then = "scan"
        /\ FreeBufferWake(r.cur) /\ Scanned(t, 1)

-----------------------------------------------------------------------------
(* Writing back.                                                           *)

\* The call, with the lock: __write_dirty_buffers_async walks the dirty list.
StartWriteBack(t, c, after) ==
  Go(t, "wb", [loc[t] EXCEPT !.call = c, !.walk = List("dirty"), !.then = after])

WriteAsync(t) ==
  /\ Call(t, "async") /\ status = "open" /\ Acquire(t)
  /\ StartWriteBack(t, "async", "idle")
  /\ UNCHANGED <<cacheVars, ioVars, status, deviceVars>>

\* dm_bufio_write_dirty_buffers; snap is what the caller wants to be durable.
Sync(t) ==
  /\ Call(t, "sync") /\ status = "open" /\ Acquire(t)
  /\ Go(t, "wb", [loc[t] EXCEPT !.call = "sync", !.walk = List("dirty"),
                                !.then = "relock", !.snap = latest, !.res = FALSE])
  /\ UNCHANGED <<cacheVars, ioVars, status, deviceVars>>

\* One turn of the loop of __write_dirty_buffers_async; from __check_watermark
\* (then = "link") it stops rather than wait for a write.
WriteBack(t) ==
  LET r == loc[t]
      seen(b) == Go(t, "wb", [r EXCEPT !.walk = @ \ {b}])
      nowait == r.then = "link"
  IN
  /\ At(t, "wb") /\ UNCHANGED <<need, sleepers, ioVars, status, deviceVars>>
  /\ \/ \E b \in Oldest(r.walk) :
          /\ ListFor(buf[b].state) = "clean"
          /\ Link(b, buf[b], "clean") /\ seen(b) /\ KeepLock
     \/ \E b \in Oldest(r.walk) :
          /\ Writable(b)
          /\ StartWrite(b) /\ UNCHANGED recent
          /\ Go(t, "wb", [r EXCEPT !.walk = @ \ {b}, !.wl = @ \cup {b}]) /\ KeepLock
     \/ \E b \in Oldest(r.walk) :
          /\ "writing" \in buf[b].state /\ (nowait \/ "dirty" \notin buf[b].state)
          /\ IF nowait THEN Go(t, "wb", [r EXCEPT !.walk = {}]) ELSE seen(b)
          /\ KeepLock /\ UNCHANGED <<buf, recent>>
     \/ /\ r.walk = {}
        /\ IF nowait THEN KeepLock /\ Go(t, "link", r) ELSE Unlock /\ Go(t, "flush", r)
        /\ UNCHANGED <<buf, recent>>

\* dm_bufio_write_dirty_buffers, the part after its write list is flushed.
SyncWalk(t) ==
  /\ At(t, "relock") /\ loc[t].call = "sync" /\ Acquire(t)
  /\ Go(t, "sync", [loc[t] EXCEPT !.walk = List("dirty")])
  /\ UNCHANGED <<cacheVars, ioVars, status, deviceVars>>

\* buffers_processed, which bounds how often the walk drops the lock.
Processed(r) == IF r.count < Cardinality(List("dirty")) THEN r.count + 1 ELSE r.count
AlwaysDrop(n) == TRUE                             \* fault: the walk is not bounded
MayDrop(n)   == n < Cardinality(List("dirty"))

NoWait(b)    == TRUE                              \* fault: wait_on_bit_io is missing
WriteOver(b) == "writing" \notin buf[b].state

Settle(b, r) == IF ListFor(r.state) = "clean"      \* relink what is clean now
                THEN Link(b, r, "clean")
                ELSE buf' = [buf EXCEPT ![b] = r] /\ UNCHANGED recent

SyncVisit(t) ==
  LET r == [loc[t] EXCEPT !.count = Processed(loc[t])] IN
  /\ At(t, "sync") /\ UNCHANGED <<need, sleepers, ioVars, status, deviceVars>>
  /\ \E b \in Oldest(r.walk) :
       \/ /\ "writing" \in buf[b].state /\ MayDrop(r.count)
          /\ buf' = [buf EXCEPT ![b].hold = @ + 1] /\ UNCHANGED recent
          /\ Unlock /\ Go(t, "syncwait", [r EXCEPT !.cur = b, !.walk = {}])
       \/ /\ "writing" \in buf[b].state /\ ~MayDrop(r.count)
          /\ KeepLock /\ Go(t, "park", [r EXCEPT !.cur = b])
          /\ UNCHANGED <<buf, recent>>
       \/ /\ "writing" \notin buf[b].state
          /\ Settle(b, buf[b])
          /\ KeepLock /\ Go(t, "sync", [r EXCEPT !.walk = @ \ {b}])

\* It waits for the write with the lock held ...
SyncPark(t) ==
  LET b == loc[t].cur IN
  /\ At(t, "park") /\ WriteOver(b)
  /\ Settle(b, buf[b])
  /\ KeepLock /\ Go(t, "sync", [loc[t] EXCEPT !.walk = @ \ {b}, !.cur = NoBuffer])
  /\ UNCHANGED <<need, sleepers, ioVars, status, deviceVars>>

\* ... or without it, holding the buffer, and then starts the walk again.
SyncWake(t) ==
  /\ At(t, "syncwait") /\ WriteOver(loc[t].cur)
  /\ Go(t, "syncrelock", loc[t])
  /\ UNCHANGED <<lock, cacheVars, ioVars, status, deviceVars>>

SyncRelock(t) ==
  LET b == loc[t].cur IN
  /\ At(t, "syncrelock") /\ Acquire(t)
  /\ Settle(b, Unhold(buf[b]))
  /\ Go(t, "sync", [loc[t] EXCEPT !.cur = NoBuffer,
        !.walk = {c \in Buffers : buf'[c].where = "dirty"}])
  /\ UNCHANGED <<need, sleepers, ioVars, status, deviceVars>>

SyncEnd(t) ==
  /\ At(t, "sync") /\ loc[t].walk = {}
  /\ sleepers' = {} /\ Unlock
  /\ Go(t, "xchg", [loc[t] EXCEPT !.count = 0])
  /\ UNCHANGED <<buf, recent, need, ioVars, status, deviceVars>>

\* a = xchg(&c->async_write_error, 0)
TakeError(t) ==
  /\ At(t, "xchg")
  /\ Go(t, "issueflush", [loc[t] EXCEPT !.res = asyncError])
  /\ asyncError' = FALSE
  /\ IF asyncError THEN reported' = reported \cup failed /\ failed' = {}
                   ELSE UNCHANGED <<reported, failed>>
  /\ UNCHANGED <<lock, cacheVars, io, status, disk, durable, latest>>

\* dm_bufio_issue_flush, and the return of the first error.
IssueFlush(t) ==
  /\ At(t, "issueflush")
  /\ \/ /\ durable' = disk
        /\ Go(t, "idle", [Rest(loc[t].mine) EXCEPT !.res = loc[t].res])
     \/ /\ "write" \in Failures /\ UNCHANGED durable
        /\ Go(t, "idle", [Rest(loc[t].mine) EXCEPT !.res = TRUE])
  /\ UNCHANGED <<lock, cacheVars, ioVars, status, disk, latest, failed, reported>>

-----------------------------------------------------------------------------
(* dm_bufio_release_move: write the buffer held to another block.          *)

Move(t, k) ==
  LET b == loc[t].mine IN
  /\ Call(t, "move") /\ b # NoBuffer /\ status = "open" /\ buf[b].block # k /\ Acquire(t)
  /\ Go(t, "move", [Rest(b) EXCEPT !.call = "move", !.blk = k])
  /\ UNCHANGED <<cacheVars, ioVars, status, deviceVars>>

\* Fault: a buffer of the new block is not looked for.
MoveAnyway(t) == /\ At(t, "move") /\ Go(t, "movewrite", loc[t])
                 /\ UNCHANGED <<lock, cacheVars, ioVars, status, deviceVars>>

\* First get rid of any other buffer of the new block; wait while it is held.
MoveFind(t) ==
  LET r == loc[t] IN
  /\ At(t, "move") /\ UNCHANGED <<buf, recent, need, ioVars, status, deviceVars>>
  /\ \/ \E new \in Find(r.blk) :
          /\ buf[new].hold # 0
          /\ Unlock /\ sleepers' = sleepers \cup {t}
          /\ Go(t, "asleep", [r EXCEPT !.then = "move"])
     \/ \E new \in Find(r.blk) :
          /\ buf[new].hold = 0
          /\ KeepLock /\ UNCHANGED sleepers
          /\ Go(t, "clean", [r EXCEPT !.cur = new, !.then = "move"])
     \/ /\ Find(r.blk) = {}
        /\ KeepLock /\ UNCHANGED sleepers
        /\ Go(t, "movewrite", r)

\* Then write it to the block it is the buffer of.
MoveWrite(t) ==
  LET b == loc[t].mine IN
  /\ At(t, "movewrite") /\ Go(t, "relink", loc[t])
  /\ \/ "dirty" \notin buf[b].state /\ UNCHANGED <<buf, io>>
     \/ Writable(b) /\ StartWrite(b) /\ Submit(b, "write", buf[b].block, buf[b].gen)
  /\ UNCHANGED <<lock, recent, need, sleepers, asyncError, status, deviceVars>>

MovedClean(r, k, g) == [r EXCEPT !.block = k, !.gen = g]   \* fault: set_bit is missing
Moved(r, k, g) == [r EXCEPT !.block = k, !.gen = g, !.state = @ \cup {"dirty"}]

\* The only holder relinks it, dirty, to the new block.  Another holder must
\* find it where it was: then it is only written there, and linked back.
MoveRelink(t) ==
  LET b == loc[t].mine
      k == loc[t].blk
      g == Bump(latest[k])
      old == buf[b].block
  IN
  /\ At(t, "relink") /\ WriteOver(b)
  /\ latest' = [latest EXCEPT ![k] = g]
  /\ \/ /\ buf[b].hold = 1
        /\ Link(b, Moved(buf[b], k, g), "dirty")
        /\ Unlock /\ Go(t, "release", loc[t]) /\ UNCHANGED io
     \/ /\ buf[b].hold # 1
        /\ Link(b, [buf[b] EXCEPT !.block = k, !.state = @ \cup {"writing"}], buf[b].where)
        /\ Submit(b, "write", k, g)
        /\ KeepLock /\ Go(t, "movecopy", [loc[t] EXCEPT !.blk = old])
  /\ UNCHANGED <<need, sleepers, asyncError, status, disk, durable, failed, reported>>

MoveCopied(t) ==
  LET b == loc[t].mine IN
  /\ At(t, "movecopy") /\ WriteOver(b)
  /\ Link(b, [buf[b] EXCEPT !.block = loc[t].blk], buf[b].where)
  /\ Unlock /\ Go(t, "release", loc[t])
  /\ UNCHANGED <<need, sleepers, ioVars, status, deviceVars>>

-----------------------------------------------------------------------------
(* The shrinker and the age worker.                                        *)

BusyDirty(b) == "dirty" \in buf[b].state          \* fault: I/O is not tested
Busy(b) == buf[b].state # {}

\* dm_bufio_shrink_scan; without __GFP_FS it gives up when the lock is taken.
Scan(t, c, n) ==
  /\ Call(t, c) /\ c \in {"scan_fs", "scan_nofs"} /\ status # "closed" /\ Acquire(t)
  /\ Go(t, "scan", [Rest(loc[t].mine) EXCEPT !.call = c, !.walk = Linked,
                                            !.left = n, !.count = n])
  /\ UNCHANGED <<cacheVars, ioVars, status, deviceVars>>

\* Both lists from their tails, the clean one first.
ScanNext(S) == IF S \cap List("clean") # {} THEN Oldest(S \cap List("clean"))
                                           ELSE Oldest(S)

ScanVisit(t) ==
  LET r == loc[t]
      kept(b) == buf[b].hold # 0 \/ (r.call = "scan_nofs" /\ Busy(b))
  IN
  /\ At(t, "scan") /\ UNCHANGED <<cacheVars, ioVars, status, deviceVars>>
  /\ \/ \E b \in ScanNext(r.walk) :
          /\ kept(b)
          /\ LET s == [r EXCEPT !.walk = @ \ {b}, !.left = @ - 1]
             IN IF s.left = 0 \/ ~AboveTarget(s.count)
                THEN Unlock /\ Return(t, r.mine)
                ELSE KeepLock /\ Go(t, "scan", s)
     \/ \E b \in ScanNext(r.walk) :
          /\ ~kept(b)
          /\ KeepLock
          /\ Go(t, "clean", [r EXCEPT !.walk = @ \ {b}, !.cur = b, !.then = "scan"])
     \/ r.walk = {} /\ Unlock /\ Return(t, r.mine)

\* __evict_old_buffers: the clean list from its tail, down to the retain
\* target, until a buffer is young (age is not modelled: any may be).
Age(t) ==
  /\ Call(t, "age") /\ status # "closed" /\ Acquire(t)
  /\ Go(t, "age", [Rest(loc[t].mine) EXCEPT !.call = "age", !.walk = List("clean"),
                                           !.count = Cardinality(Linked)])
  /\ UNCHANGED <<cacheVars, ioVars, status, deviceVars>>

AgeVisit(t) ==
  LET r == loc[t] IN
  /\ At(t, "age") /\ UNCHANGED <<ioVars, status, deviceVars>>
  /\ \/ \E b \in Oldest(r.walk) :
          /\ AboveTarget(r.count) /\ buf[b].hold = 0 /\ ~Busy(b)
          /\ FreeBufferWake(b)
          /\ KeepLock /\ Go(t, "age", [r EXCEPT !.walk = @ \ {b}, !.count = @ - 1])
     \/ \E b \in Oldest(r.walk) :
          /\ AboveTarget(r.count) /\ (buf[b].hold # 0 \/ Busy(b))
          /\ KeepLock /\ Go(t, "age", [r EXCEPT !.walk = @ \ {b}]) /\ UNCHANGED cacheVars
     \/ Unlock /\ Return(t, r.mine) /\ UNCHANGED cacheVars

-----------------------------------------------------------------------------
(* dm_bufio_client_destroy: "it is required that there are no references on *)
(* any buffers", and only the shrinker and the age worker come in any more. *)

NobodyElse(t) == \A u \in Threads \ {t} :
  /\ loc[u].mine = NoBuffer
  /\ At(u, "idle") \/ loc[u].call \in {"scan_fs", "scan_nofs", "age"}

\* drop_buffers: write what is dirty, all at once ...
Destroy(t) ==
  /\ Call(t, "destroy") /\ status = "open" /\ loc[t].mine = NoBuffer /\ NobodyElse(t) /\ Acquire(t)
  /\ status' = "closing"
  /\ StartWriteBack(t, "destroy", "relock")
  /\ UNCHANGED <<cacheVars, ioVars, deviceVars>>

\* ... then evict every buffer.
DropStart(t) ==
  /\ At(t, "relock") /\ loc[t].call = "destroy" /\ Acquire(t)
  /\ Go(t, "drop", loc[t])
  /\ UNCHANGED <<cacheVars, ioVars, status, deviceVars>>

Drop(t) ==
  /\ At(t, "drop") /\ UNCHANGED <<cacheVars, ioVars, status, deviceVars>>
  /\ \/ \E b \in Unclaimed :
          KeepLock /\ Go(t, "clean", [loc[t] EXCEPT !.cur = b, !.then = "drop"])
     \/ Unclaimed = {} /\ Unlock /\ Go(t, "unregister", loc[t])

\* unregister_shrinker and dm_bufio_clients_lock wait for the shrinker and the
\* worker; then the reserve is freed.
Unregister(t) ==
  /\ At(t, "unregister") /\ \A u \in Threads \ {t} : At(u, "idle")
  /\ buf' = [b \in Buffers |-> IF buf[b].where = "reserved" THEN Blank("free") ELSE buf[b]]
  /\ status' = "closed" /\ Go(t, "destroyed", Rest(loc[t].mine))
  /\ UNCHANGED <<lock, recent, need, sleepers, ioVars, deviceVars>>

-----------------------------------------------------------------------------
(* read_endio and write_endio, in interrupt context: no lock is taken.      *)

WrittenClean(s) == s \ {"writing", "dirty"}       \* fault: a later change is forgotten
Written(s) == s \ {"writing"}
NoteNothing == UNCHANGED asyncError               \* fault: the error is not kept
NoteError == asyncError' = TRUE                       \* cmpxchg from 0

ReadDone(b) ==
  /\ io[b].rw = "read"
  /\ \/ buf' = [buf EXCEPT ![b].state = @ \ {"reading"}, ![b].err = @ \ {"read"},
                              ![b].gen = disk[io[b].block]]
     \/ /\ "read" \in Failures
        /\ buf' = [buf EXCEPT ![b].state = @ \ {"reading"}, ![b].err = @ \cup {"read"}]
  /\ io' = [io EXCEPT ![b] = NoRequest]
  /\ UNCHANGED <<lock, recent, need, sleepers, asyncError, status, pc, loc, deviceVars>>

WriteDone(b) ==
  LET k == io[b].block IN
  /\ io[b].rw = "write"
  /\ \/ /\ buf' = [buf EXCEPT ![b].state = Written(@), ![b].err = @ \ {"write"}]
        /\ disk' = [disk EXCEPT ![k] = io[b].gen]
        /\ failed' = failed \ {k} /\ reported' = reported \ {k} /\ UNCHANGED asyncError
     \/ /\ "write" \in Failures
        /\ buf' = [buf EXCEPT ![b].state = Written(@), ![b].err = @ \cup {"write"}]
        /\ NoteError
        /\ failed' = failed \cup {k} /\ UNCHANGED <<disk, reported>>
  /\ io' = [io EXCEPT ![b] = NoRequest]
  /\ UNCHANGED <<lock, recent, need, sleepers, status, pc, loc, durable, latest>>

-----------------------------------------------------------------------------
(* The specification.  Start begins a call; Continue is every step a call in *)
(* progress takes, up to its return.                                         *)

Start(t) ==
  \/ \E k \in Blocks : \/ \E c \in {"read", "new", "get"} : NewRead(t, c, k)
                      \/ \E n \in PrefetchSizes : Prefetch(t, k, n)
                      \/ Forget(t, k)
                      \/ Move(t, k)
  \/ MarkDirty(t) \/ WriteAsync(t) \/ Sync(t) \/ Age(t) \/ Destroy(t)
  \/ \E c \in ApiCalls, n \in ScanSizes : Scan(t, c, n)

Continue(t) ==
  \/ Lookup(t) \/ Alloc(t) \/ WakeUp(t) \/ Recheck(t) \/ Watermark(t) \/ LinkNew(t)
  \/ Flush(t) \/ SubmitRead(t) \/ WaitRead(t) \/ Overwrite(t) \/ CleanWrite(t) \/ CleanDone(t)
  \/ WriteBack(t) \/ SyncWalk(t) \/ SyncVisit(t) \/ SyncPark(t) \/ SyncWake(t)
  \/ SyncRelock(t) \/ SyncEnd(t) \/ TakeError(t) \/ IssueFlush(t)
  \/ MoveFind(t) \/ MoveWrite(t) \/ MoveRelink(t) \/ MoveCopied(t)
  \/ ScanVisit(t) \/ AgeVisit(t) \/ DropStart(t) \/ Drop(t) \/ Unregister(t)

Next == \/ \E t \in Threads : Start(t) \/ Continue(t) \/ ReleaseRef(t)
        \/ \E b \in Buffers : ReadDone(b) \/ WriteDone(b)

Spec == Init /\ [][Next]_vars

\* The device answers every request, the mutex is fair, a thread in a call is
\* scheduled, and a client gives back, in the end, every buffer it holds.
Fairness == /\ \A t \in Threads : SF_vars(Continue(t)) /\ SF_vars(ReleaseRef(t))
            /\ \A b \in Buffers : WF_vars(ReadDone(b) \/ WriteDone(b))
FairSpec == Spec /\ Fairness

-----------------------------------------------------------------------------
(* Properties.                                                             *)

\* Every variable keeps its type: no hold count below zero, no unknown state bit.
TypeOK ==
  /\ lock \in Threads \cup {Nobody} /\ need \in Nat /\ sleepers \subseteq Threads
  /\ asyncError \in BOOLEAN /\ status \in {"open", "closing", "closed"}
  /\ buf \in [Buffers -> Buffer] /\ recent \subseteq Buffers \X Buffers
  /\ io \in [Buffers -> Request]
  /\ pc \in [Threads -> Locked \cup Unlocked] /\ loc \in [Threads -> Locals]
  /\ disk \in Snapshot /\ durable \in Snapshot /\ latest \in Snapshot
  /\ failed \cup reported \subseteq Blocks \cup {NoBlock}

\* The mutex: the thread that holds it is the one between lock and unlock.
LockOwner == \A t \in Threads : (lock = t) <=> pc[t] \in Locked

\* "Linking of buffers" (head of the file) and the BUG_ONs of the list walks: a
\* dirty or written buffer is on the dirty list, a buffer being read is not.
\* Only dm_bufio_release_move writes from the clean list, with the lock held.
ListsMatchBits ==
  \A b \in Linked :
    /\ buf[b].where = "dirty" => "reading" \notin buf[b].state
    /\ buf[b].where = "clean" =>
         \/ buf[b].state \cap {"dirty", "writing"} = {}
         \/ \E t \in Threads : At(t, "movecopy") /\ loc[t].mine = b

\* The index holds at most one buffer of a block, although the lock is dropped
\* between __find and __link_buffer.
OneBufferPerBlock ==
  \A b, c \in Linked : buf[b].block = buf[c].block => b = c

\* hold_count is the number of references: clients', and those of a
\* dm_bufio_write_dirty_buffers that waits without the lock.
Clients(b)  == {t \in Threads : loc[t].mine = b}
Flushers(b) == {t \in Threads : pc[t] \in {"syncwait", "syncrelock"} /\ loc[t].cur = b}
HoldsAccounted ==
  \A b \in Buffers : buf[b].hold = Cardinality(Clients(b)) + Cardinality(Flushers(b))

\* A buffer that was evicted, freed or put back into the reserve has no I/O in
\* flight or promised on it, no state bit, and nobody has a reference to it.
QuietWhenUnlinked ==
  \A b \in Buffers \ Linked :
    /\ buf[b].state = {} /\ io[b] = NoRequest /\ Clients(b) \cup Flushers(b) = {}
    /\ \A t \in Threads : b \notin loc[t].wl

\* A state bit is a promise that somebody will clear it: the request is in
\* flight, or a thread that does not need the lock any more will submit it.
ActivityHasOwner ==
  \A b \in Buffers :
    /\ "reading" \in buf[b].state =>
         \/ io[b].rw = "read"
         \/ \E t \in Threads : /\ loc[t].mine = b
                             /\ \/ At(t, "submit")
                                \/ At(t, "flush") /\ loc[t].then = "submit"
    /\ "writing" \in buf[b].state =>
         \/ io[b].rw = "write"
         \/ \E t \in Threads : b \in loc[t].wl /\ pc[t] \in {"wb", "link", "flush"}
    /\ io[b].rw = "read" => "reading" \in buf[b].state      \* BUG_ON in read_endio
    /\ io[b].rw = "write" => "writing" \in buf[b].state     \* BUG_ON in write_endio

\* Two requests in flight are never for the same block.
InflightExclusive ==
  \A b, c \in Buffers :
    b # c /\ io[b] # NoRequest /\ io[c] # NoRequest => io[b].block # io[c].block

\* What the cache hands out for a block is the last content any client gave it,
\* whatever was evicted, moved, written and read again since; only a write error
\* may lose it.  Buffers on their way are left out: not yet read, read in vain,
\* not yet overwritten after dm_bufio_new, lent to another block by a move.
Handed(b) ==
  /\ b \in Linked /\ "reading" \notin buf[b].state /\ "read" \notin buf[b].err
  /\ \A t \in Threads : loc[t].mine = b => ~At(t, "movecopy") /\ loc[t].call # "new"
CacheCoherent ==
  \A b \in Buffers : Handed(b) =>
    \/ buf[b].gen = latest[buf[b].block]
    \/ buf[b].block \in failed \cup reported

\* dm_bufio_write_dirty_buffers that returns 0: what was dirty when it was called
\* is durable, or its write error went to another caller.
SyncReturns0(t) == At(t, "issueflush") /\ pc'[t] = "idle" /\ ~loc'[t].res
SyncTruthful ==
  [][\A t \in Threads : SyncReturns0(t) =>
       \A k \in Blocks : durable'[k] >= loc[t].snap[k] \/ k \in reported]_vars

\* free_buffer_wait: "wait until some other threads free some buffer or release
\* hold count on some buffer".  A thread sleeps only while somebody has yet to do
\* that: one that is short of buffers while every buffer is held and the reserve
\* is empty, a mover while a buffer other than its own is held; or a flush, which
\* wakes everybody at its end, is past the point where it lets buffers go.
WillWake(u) == pc[u] \in {"sync", "park", "syncwait", "syncrelock"}
AllHeld     == List("reserved") = {} /\ Unheld(Linked) = {}
OtherHeld(t) == \E b \in Linked \ {loc[t].mine} : buf[b].hold # 0
NoLostWakeup ==
  \A t \in sleepers :
    \/ \E u \in Threads : WillWake(u)
    \/ loc[t].then = "alloc" /\ AllHeld
    \/ loc[t].then = "move" /\ OtherHeld(t)

\* The reserve: buffers lent from it are owed to it, and at the end it is paid
\* back and everything is freed (the BUG_ONs of dm_bufio_client_destroy).
ReserveAccounted ==
  /\ status # "closed" => Cardinality(List("reserved")) + need = ReservedBuffers
  /\ status = "closed" => need = 0 /\ List("free") = Buffers

\* Nothing is lost when the client goes away: all content is in the device, but
\* for what a write error took.
DestroyLosesNothing ==
  status = "closed" =>
    \A k \in Blocks : disk[k] = latest[k] \/ k \in failed \cup reported

\* The age worker leaves the retain target in the cache.
AgeRetains ==
  [][\A t \in Threads : loc[t].call = "age" /\ Cardinality(Linked') < Cardinality(Linked)
                        /\ pc'[t] = "age" => Cardinality(Linked') >= RetainTarget]_vars

\* "Try to keep at least this many bytes cached in memory" (retain_bytes): so
\* should the shrinker.
ScanRetains ==
  [][\A t \in Threads : At(t, "clean") /\ loc[t].then = "scan" /\ pc'[t] # "clean"
       => Cardinality(Linked') >= RetainTarget]_vars

\* Every call returns, the flush among threads that go on dirtying buffers
\* ("this may livelock ...") included.
EveryCallReturns ==
  \A t \in Threads : pc[t] \notin {"idle", "destroyed"} ~> pc[t] \in {"idle", "destroyed"}
=============================================================================

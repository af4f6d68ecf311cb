----------------------------- MODULE DmBufioInv -----------------------------
(***************************************************************************)
(* The inductive invariant of DmBufio: what is true of the locals of a     *)
(* thread, of the index and of the reference counts at every control point.*)
(* The runs check it on instances, DmBufio_proofs for all constants.       *)
(*                                                                         *)
(* It has layers, each proved with the help of those before it.            *)
(* ThreadsInv speaks of the threads and the lock only: what a thread at    *)
(* control point l with locals r carries with it.  CacheInv speaks of the  *)
(* index and the counts; only the thread that holds the lock has an        *)
(* interest in it, which is what makes the lock do its work.  BitsInv says *)
(* who answers for each state bit and request; then come the order of the  *)
(* lists, the life of the client, the reserve, the movers, the sleepers    *)
(* and the age worker, and at last the contents and the flushes.           *)
(*                                                                         *)
(* At the end the refinement mapping to BlockCache and what it needs.      *)
(***************************************************************************)
EXTENDS DmBufio

Getting == {"read", "new", "get", "prefetch"}

\* Where a thread goes from a place it waits or works at.
Continuation(l, r) ==
  /\ l = "asleep" => r.then = IF r.call \in Getting THEN "alloc" ELSE "move"
  /\ l = "clean"  => r.then \in IF r.call \in Getting THEN {"alloc", "watermark"}
                                                      ELSE {"drop", "move", "scan"}
  /\ l = "wb"     => r.then \in IF r.call \in Getting THEN {"link"} ELSE {"relock", "idle"}
  /\ l = "flush"  => r.then \in IF r.call \in Getting THEN {"submit", "wait"}
                                                      ELSE {"relock", "idle"}

\* The block a call is about, and the rest of the range of a prefetch.
BlockRange(r) ==
  r.call \in Getting => /\ r.blk \in Blocks
                        /\ \A i \in 0 .. r.left : r.blk + i \in Blocks

\* Between the second __find and __link_buffer of __bufio_new.
Inserting(l, r) == \/ l \in {"watermark", "link"}
                   \/ l = "wb" /\ r.then = "link"
                   \/ l = "clean" /\ r.then = "watermark"

Moving(l, r) == \/ l \in {"move", "movewrite", "relink", "movecopy"}
                \/ l \in {"asleep", "clean"} /\ r.then = "move"

\* The buffers a thread has to have.
Possession(l, r) ==
  /\ l \in {"lookup", "alloc", "recheck", "watermark", "link", "submit", "wait", "overwrite"}
       => r.call \in Getting
  /\ l \in {"scan", "drop"} => r.call \notin Getting
  /\ r.call \in Getting =>
       (r.mine \in Buffers <=> l \in {"submit", "wait", "overwrite", "release", "flush"})
  /\ l = "release" => r.mine \in Buffers
  /\ Moving(l, r) => r.mine \in Buffers /\ r.blk \in Blocks
  /\ l = "recheck" \/ Inserting(l, r) => r.newb \in Buffers
  /\ l \in {"clean", "syncwait", "syncrelock", "park"} => r.cur \in Buffers

\* __scan has not looked at more buffers than it was asked to.
Scanning(l, r) ==
  l = "scan" \/ (l = "clean" /\ r.then = "scan") => 1 <= r.left /\ r.left <= r.count

ThreadOK(l, r) == Continuation(l, r) /\ BlockRange(r) /\ Possession(l, r) /\ Scanning(l, r)

ThreadsType ==
  /\ lock \in Threads \cup {Nobody} /\ latest \in Snapshot /\ asyncError \in BOOLEAN
  /\ pc \in [Threads -> Locked \cup Unlocked] /\ loc \in [Threads -> Locals]

ThreadsInv == ThreadsType /\ LockOwner /\ \A t \in Threads : ThreadOK(pc[t], loc[t])

-----------------------------------------------------------------------------

\* The new buffer is in hand until it is linked ...
InHand(l, r) == l = "recheck" \/ Inserting(l, r) => buf[r.newb].where = "hand"

\* ... and the block a thread is about to link a buffer to is not cached.
Vacant(l, r) ==
  Inserting(l, r) \/ l \in {"movewrite", "relink", "movecopy"} => Find(r.blk) = {}

\* A buffer that is being cleaned is linked and nobody holds it.
Victim(l, r) == l = "clean" => r.cur \in Linked /\ buf[r.cur].hold = 0

\* The walks, which keep the lock, see only buffers that are linked.
Walking(l, r) ==
  /\ l \in {"wb", "sync", "park", "scan", "age"} => r.walk \subseteq Linked
  /\ l = "clean" /\ r.then = "scan" => r.walk \subseteq Linked \ {r.cur}
  /\ l = "park" => r.cur \in Linked

LockHolderOK(l, r) == InHand(l, r) /\ Vacant(l, r) /\ Victim(l, r) /\ Walking(l, r)

\* A buffer the index does not know is held by nobody.
UnlinkedUnheld == \A b \in Buffers \ Linked : buf[b].hold = 0
LinkedHasBlock == \A b \in Linked : buf[b].block \in Blocks
ReadsHaveBlock == \A b \in Buffers : io[b].rw = "read" => io[b].block \in Blocks

\* The variables no thread owns keep their types.
DataType ==
  /\ need \in Nat /\ sleepers \subseteq Threads /\ status \in {"open", "closing", "closed"}
  /\ io \in [Buffers -> Request] /\ recent \subseteq Buffers \X Buffers
  /\ disk \in Snapshot /\ durable \in Snapshot
  /\ failed \cup reported \subseteq Blocks \cup {NoBlock}

\* The index of the client, as a whole.
IndexInv == /\ buf \in [Buffers -> Buffer]
            /\ UnlinkedUnheld /\ LinkedHasBlock /\ OneBufferPerBlock

CacheInv == /\ DataType /\ IndexInv /\ HoldsAccounted /\ ReadsHaveBlock
            /\ \A t \in Threads : LockHolderOK(pc[t], loc[t])

CoreInv == ThreadsInv /\ CacheInv

-----------------------------------------------------------------------------
(* State bits and requests.                                                *)

\* A thread that will submit the read of its buffer, and one that may hold a
\* buffer which is not read yet.
Submitting(l, r) == l = "submit" \/ (l = "flush" /\ r.then = "submit")
Reading(l, r)    == r.call \in Getting /\ l \in {"submit", "wait", "flush", "release"}

\* The bits agree with the list; a buffer that is read is on the clean one.
BitsOfList(b) ==
  /\ b \notin Linked => buf[b].state = {}
  /\ "reading" \in buf[b].state => buf[b].state = {"reading"} /\ buf[b].where = "clean"
  /\ "dirty" \in buf[b].state => buf[b].where = "dirty"
  /\ "writing" \in buf[b].state /\ buf[b].where = "clean" =>
       \E t \in Threads : At(t, "movecopy") /\ loc[t].mine = b

\* A request in flight is for the block its buffer has, and the bit says so.
RequestOfBits(b) ==
  /\ io[b].rw = "none" => io[b] = NoRequest
  /\ io[b].rw = "read" => "reading" \in buf[b].state
  /\ io[b].rw = "write" => "writing" \in buf[b].state
  /\ io[b].rw # "none" => io[b].block = buf[b].block

\* A bit whose request is not in flight is somebody's promise to submit it.
Promised(b) ==
  /\ "reading" \in buf[b].state /\ io[b].rw # "read" =>
       \E t \in Threads : Submitting(pc[t], loc[t]) /\ loc[t].mine = b
  /\ "writing" \in buf[b].state /\ io[b].rw # "write" =>
       \E t \in Threads : b \in loc[t].wl

\* What a thread at l with locals r has promised, and what it may have.
Promises(l, r) ==
  /\ r.wl # {} => l \in {"wb", "link", "flush"}
  /\ \A b \in r.wl : "writing" \in buf[b].state /\ io[b].rw # "write"
  /\ Submitting(l, r) => "reading" \in buf[r.mine].state /\ io[r.mine].rw # "read"
  /\ r.mine \in Buffers /\ ~Reading(l, r) => "reading" \notin buf[r.mine].state

\* No two threads promise the same.
PromisedOnce ==
  \A t, u \in Threads : t # u =>
    /\ loc[t].wl \cap loc[u].wl = {}
    /\ Submitting(pc[t], loc[t]) /\ Submitting(pc[u], loc[u]) => loc[t].mine # loc[u].mine

BitsInv == /\ \A b \in Buffers : BitsOfList(b) /\ RequestOfBits(b) /\ Promised(b)
           /\ \A t \in Threads : Promises(pc[t], loc[t])
           /\ PromisedOnce

-----------------------------------------------------------------------------
(* The LRU lists, the life of the client, and the reserve.                 *)

\* Each list is in order: of two buffers one is nearer to the head.
OrderInv ==
  \A l \in Lists : \A b, c, d \in List(l) :
    /\ b # c => <<b, c>> \in recent \/ <<c, b>> \in recent
    /\ <<b, c>> \in recent => <<c, b>> \notin recent
    /\ <<b, c>> \in recent /\ <<c, d>> \in recent => <<b, d>> \in recent

Workers == {"scan_fs", "scan_nofs", "age"}

\* Where the thread that destroys the client comes along.
Destroying(l, r) ==
  /\ l \in {"wb", "flush", "relock", "drop", "clean", "unregister"}
  /\ l \in {"wb", "flush"} => r.then = "relock"
  /\ l = "clean" => r.then = "drop"

\* A thread between calls has none; only a destroyer drops buffers, and the
\* shrinker and the age worker only walk the lists and evict.
CallOK(l, r) ==
  /\ l \in {"idle", "destroyed"} => r.call = "none"
  /\ l \in {"drop", "unregister"} \/ (l = "clean" /\ r.then = "drop") => r.call = "destroy"
  /\ r.call = "destroy" => Destroying(l, r) /\ status = "closing"
  /\ r.call \in Workers => l \in {"scan", "age"} \/ (l = "clean" /\ r.then = "scan")
  /\ l = "destroyed" => status = "closed"

\* Once the client is being destroyed nobody has a reference, and besides the
\* destroyer only the shrinker and the age worker are inside.
LifeInv ==
  /\ \A t \in Threads : CallOK(pc[t], loc[t])
  /\ status # "open" => \A t \in Threads :
       /\ loc[t].mine = NoBuffer
       /\ loc[t].call \in Workers \cup {"none", "destroy"}
       /\ loc[t].call = "none" => pc[t] \in {"idle", "destroyed"}
  /\ status = "closed" => \A t \in Threads : loc[t].call = "none"

\* Buffers that are neither free nor in the reserve; those in hand have a thread.
Out == {b \in Buffers : buf[b].where \in Lists \cup {"hand"}}
InHandOfOne ==
  \A b \in List("hand") : \E t \in Threads :
    (pc[t] = "recheck" \/ Inserting(pc[t], loc[t])) /\ loc[t].newb = b

\* What the reserve is short of is out, so that it comes back in the end.
ReserveInv ==
  /\ ReserveAccounted /\ need <= Cardinality(Out) /\ InHandOfOne
  /\ \A t \in Threads : At(t, "unregister") => Linked = {}

\* Who sleeps is on the way to nothing else, and somebody will wake it.
WakeInv == NoLostWakeup /\ \A t \in sleepers : At(t, "asleep")

\* dm_bufio_release_move looks for a buffer of another block than its own is of,
\* whatever block another holder writes that buffer to in the meantime.
Seeking(l, r) == l = "move" \/ (l \in {"asleep", "clean"} /\ r.then = "move")
Lenders(b) == {u \in Threads : At(u, "movecopy") /\ loc[u].mine = b}
SeekInv ==
  \A t \in Threads : Seeking(pc[t], loc[t]) =>
    /\ \A u \in Lenders(loc[t].mine) : loc[u].blk # loc[t].blk
    /\ Lenders(loc[t].mine) = {} => buf[loc[t].mine].block # loc[t].blk

\* The age worker knows how many buffers the client has.
AgeInv == \A t \in Threads : At(t, "age") => loc[t].count = Cardinality(Linked)

-----------------------------------------------------------------------------
(* Contents.                                                               *)

Lent(b)  == \E t \in Threads : At(t, "movecopy") /\ loc[t].mine = b
Fresh(b) == \E t \in Threads : loc[t].mine = b /\ loc[t].call = "new"

\* Content g of block k is the last one, unless a write error took that.
Current(k, g) == g = latest[k] \/ k \in failed \cup reported

\* A buffer that is dirty has the last content, and what is being written is that,
\* unless the buffer was changed again.
ContentOf(b) ==
  /\ "read" \in buf[b].err => buf[b].state = {}
  /\ "dirty" \in buf[b].state => buf[b].gen = latest[buf[b].block]
  /\ "writing" \in buf[b].state /\ ~Lent(b) => buf[b].gen = latest[buf[b].block]
  /\ io[b].rw = "write" /\ "dirty" \notin buf[b].state => io[b].gen = latest[io[b].block]

\* The device has the last content of a block nobody has to write.
Settled(k) == \A b \in Find(k) : buf[b].state \cap {"dirty", "writing"} = {}
DeviceInv  == \A k \in Blocks : Settled(k) => Current(k, disk[k])

\* A client has a buffer that was read, and who lends one to another block gives it
\* back as it was.
Keeping(l, r) ==
  /\ r.mine \in Buffers /\ (r.call \notin Getting \/ l = "overwrite") => "read" \notin buf[r.mine].err
  /\ l = "release" /\ r.call = "new" => "read" \in buf[r.mine].err
  /\ l \in {"relink", "movecopy"} => "dirty" \notin buf[r.mine].state
  /\ l = "movecopy" =>
       /\ "writing" \in buf[r.mine].state => io[r.mine].rw = "write"
       /\ ~Fresh(r.mine) => Current(r.blk, buf[r.mine].gen)

ContentInv == /\ \A b \in Buffers : ContentOf(b)
              /\ DeviceInv /\ CacheCoherent
              /\ \A t \in Threads : Keeping(pc[t], loc[t])

-----------------------------------------------------------------------------
(* What a flush has done for its caller, who wants content g of block k to be *)
(* durable.                                                                *)

\* Nothing older than g can come to the device any more.
Younger(b, g)  == io[b].rw = "write" => io[b].gen >= g
Ahead(k, g)    == \A b \in Buffers : io[b].block = k => Younger(b, g)
Reached(k, g)  == Ahead(k, g) /\ (disk[k] >= g \/ k \in failed \cup reported)
Recorded(k, g) == Ahead(k, g) /\ (disk[k] >= g \/ k \in reported)

\* Content g or a later one of block k is on the way to the device.
Leaving(k, g)  == \E b \in Find(k) : "writing" \in buf[b].state /\ Younger(b, g)

\* The walks of dm_bufio_write_dirty_buffers forget nothing.
FlushOK(l, r) ==
  r.call = "sync" => \A k \in Blocks : LET g == r.snap[k] IN
    /\ g <= latest[k]
    /\ l = "wb" => Reached(k, g) \/ Leaving(k, g) \/ Find(k) \cap r.walk # {}
    /\ l \in {"flush", "relock", "syncwait", "syncrelock"} => Reached(k, g) \/ Leaving(k, g)
    /\ l \in {"sync", "park"} => Reached(k, g) \/ (Leaving(k, g) /\ Find(k) \cap r.walk # {})
    /\ l = "xchg" => Reached(k, g)
    /\ l = "issueflush" /\ ~r.res => Recorded(k, g)

\* Nobody else comes to the second half of dm_bufio_write_dirty_buffers.
SyncSteps == {"sync", "park", "syncwait", "syncrelock", "xchg", "issueflush"}
Syncing   == \A t \in Threads : pc[t] \in SyncSteps => loc[t].call = "sync"

FlushInv == /\ \A t \in Threads : FlushOK(pc[t], loc[t])
            /\ ~asyncError => failed = {}

-----------------------------------------------------------------------------

IInv == /\ CoreInv /\ BitsInv /\ OrderInv
        /\ LifeInv /\ ReserveInv /\ SeekInv /\ WakeInv /\ AgeInv
        /\ ContentInv /\ FlushInv /\ Syncing

-----------------------------------------------------------------------------
(* DmBufio implements a write-back cache: what each variable of BlockCache *)
(* is in a state of the code.                                              *)

\* The block a buffer is of for those who hold it, also while a move has lent it
\* to the block it writes: who does that has the lock.
Home(b) == IF Lent(b) THEN loc[lock].blk ELSE buf[b].block

\* What a call is for, until it has its effect; nobody waits for a prefetch.
Asks(l, r)   == \/ r.call \in {"read", "get", "new"}
                \/ r.call = "move" /\ l \notin {"movecopy", "release"}
CallOf(l, r) == IF Asks(l, r)
                THEN {[op |-> IF r.call = "read" THEN "get" ELSE r.call, block |-> r.blk]}
                ELSE {}

\* A reference that is still being waited for is in nobody's hands.
HandOf(r) == IF r.mine \in Buffers /\ r.call \notin Getting
             THEN {[block |-> Home(r.mine), gen |-> buf[r.mine].gen]} ELSE {}

WantOf(r) == IF r.call = "sync" THEN {r.snap} ELSE {}

Asked  == [t \in Threads |-> CallOf(pc[t], loc[t])]
Hands  == [t \in Threads |-> HandOf(loc[t])]
Wanting == [t \in Threads |-> WantOf(loc[t])]
Erring == {t \in Threads : loc[t].res}

Cache == INSTANCE BlockCache WITH
  Users <- Threads, Contents <- Gens, open <- (status # "closed"), lost <- failed, told <- reported,
  call <- Asked, hand <- Hands, want <- Wanting, error <- Erring

\* Whatever happens to buffers, to the clients of dm-bufio they are a write-back
\* cache: they get what was last given, of the block they asked for; nothing older
\* overtakes what is newer on the way to the device; a flush that returns 0 has
\* made durable what was changed before; and in the end all is in the device.
ImplementsCache == Cache!Spec

-----------------------------------------------------------------------------
(* What the refinement needs besides IInv.                                 *)

\* Writes to a block reach the device in the order of its contents.
WritesInOrder ==
  /\ \A k \in Blocks : disk[k] <= latest[k]
  /\ \A b \in Buffers : io[b].rw = "write" =>
       disk[io[b].block] <= io[b].gen /\ io[b].gen <= latest[io[b].block]

\* The buffer a thread waits for, or was given, stays the buffer of that block.
Served == \A t \in Threads :
  loc[t].call \in Getting /\ loc[t].mine \in Buffers => Home(loc[t].mine) = loc[t].blk

\* Which call a thread can be in at a control point, as far as Possession, CallOK
\* and Syncing do not say it.
PointsOf(l, r) ==
  /\ r.call = "prefetch" => l \notin {"wait", "overwrite"} /\ (l = "flush" => r.then = "submit")
  /\ r.call \in {"read", "new", "get"} => r.left = 0
  /\ r.call = "get" => l \in {"wait", "release"}
  /\ l = "overwrite" => r.call = "new"
  /\ l = "release" => r.call \in Getting \cup {"move"}
  /\ Moving(l, r) => r.call = "move"
  /\ r.call = "move" => Moving(l, r) \/ l = "release"
  /\ r.call = "sync" => l \in SyncSteps \cup {"relock"} \/ (l \in {"wb", "flush"} /\ r.then = "relock")
  /\ l \in {"scan", "age"} => r.call \in Workers
  /\ l = "clean" /\ r.then = "scan" => r.call \in Workers
CallInv == \A t \in Threads : PointsOf(pc[t], loc[t])

CacheMapInv == CallInv /\ WritesInOrder /\ Served
=============================================================================

----------------------------- MODULE BufioMemory -----------------------------
(***************************************************************************)
(* The memory of dm-bufio: clients come and go, each with blocks of a size *)
(* of its own, while buffers are allocated and freed from three            *)
(* allocators.  The slab caches for small blocks are shared by the clients *)
(* and stay until the module goes; every allocation of                     *)
(* dm_bufio_client_create may fail.  Sizes are counted in the smallest.    *)
(***************************************************************************)
EXTENDS Integers, FiniteSets

CONSTANTS
    Clients,
    Sizes,          \* block sizes a client may ask for
    PageSize,
    GfpLimit,       \* DM_BUFIO_BLOCK_SIZE_GFP_LIMIT
    Reserve,        \* reserved_buffers of every client
    MaxCached       \* bound: buffers of a client besides its reserve

Modes == {"slab", "get_free_pages", "vmalloc"}
SlabLimit == PageSize \div 2
Small == {s \in Sizes : s < PageSize}
NoOne == "none"

WellFormed ==
    /\ IsFiniteSet(Clients) /\ NoOne \notin Clients
    /\ Sizes \subseteq Nat /\ Sizes # {}
    /\ {PageSize, GfpLimit, Reserve} \subseteq Nat

VARIABLES
    module,         \* loaded or unloaded
    clients_lock,   \* who has it
    caches,         \* sizes that have a slab cache
    made,           \* caches ever made, by size
    allocated,      \* the counters, by mode
    out,            \* bytes every allocator has given out
    client_count,
    cl              \* of every client: where it is, its block size, the mode of
                    \* the buffer in hand, buffers by mode, in the reserve and
                    \* not, need_reserved_buffers, and what else it has

vars == <<module, clients_lock, caches, made, allocated, out, client_count, cl>>

Slabs == <<module, caches, made>>
Memory == <<allocated, out>>

None == [m \in Modes |-> 0]

Init ==
    /\ module = "loaded" /\ clients_lock = NoOne
    /\ caches = {} /\ made = [s \in Sizes |-> 0]
    /\ allocated = None /\ out = None /\ client_count = 0
    /\ cl = [c \in Clients |-> [pc |-> "out", size |-> CHOOSE s \in Sizes : TRUE, mode |-> "slab",
                                reserved |-> None, cached |-> None, need |-> 0, have |-> {}]]

At(c, label) == cl[c].pc = label

TypeOK ==
    /\ caches \subseteq Small /\ clients_lock \in Clients \cup {NoOne}
    /\ \A m \in Modes : allocated[m] >= 0 /\ out[m] >= allocated[m]
    /\ client_count \in 0..Cardinality(Clients)
    /\ \A c \in Clients : cl[c].need \in 0..Reserve
                          /\ \A m \in Modes : cl[c].reserved[m] >= 0 /\ cl[c].cached[m] >= 0

----------------------------------------------------------------------------
(* alloc_buffer and free_buffer: a step of the allocator and one for the   *)
(* counters, under param_spinlock, in this order and in the other.         *)

\* alloc_buffer_data; noretry is __GFP_NORETRY
ModeFor(s, noretry) ==
    IF s <= SlabLimit THEN "slab"
    ELSE IF s <= GfpLimit /\ noretry THEN "get_free_pages" ELSE "vmalloc"

Alloc(c, noretry, next) ==
    LET m == ModeFor(cl[c].size, noretry) IN
    /\ out' = [out EXCEPT ![m] = @ + cl[c].size]
    /\ cl' = [cl EXCEPT ![c].mode = m, ![c].pc = next]
    /\ UNCHANGED <<Slabs, clients_lock, allocated, client_count>>

adjust_total_allocated(m, diff) ==
    /\ allocated' = [allocated EXCEPT ![m] = @ + diff]
    /\ UNCHANGED <<Slabs, clients_lock, out, client_count>>

\* fault: the allocator is guessed from the size, as for a new buffer
BySize(c) == ModeFor(cl[c].size, TRUE)
DataMode(c) == cl[c].mode

After == [free_up |-> "up", free_drop |-> "drop", free_rest |-> "rest"]

\* The end of free_buffer, wherever it was called.
FreeData(c) ==
    /\ cl[c].pc \in DOMAIN After
    /\ out' = [out EXCEPT ![DataMode(c)] = @ - cl[c].size]
    /\ cl' = [cl EXCEPT ![c].pc = After[@]]
    /\ UNCHANGED <<Slabs, clients_lock, allocated, client_count>>

----------------------------------------------------------------------------
(* dm_bufio_client_create.                                                 *)

Start(c) ==     \* kzalloc, which may fail and leaves everything as it is
    /\ At(c, "out") /\ module = "loaded"
    /\ \E s \in Sizes :
        cl' = [cl EXCEPT ![c].pc = "dm_io", ![c].size = s, ![c].need = Reserve,
                         ![c].have = {"client"}]
    /\ UNCHANGED <<Slabs, clients_lock, Memory, client_count>>

DmIo(c) ==
    /\ At(c, "dm_io")
    /\ \/ cl' = [cl EXCEPT ![c].pc = "lock", ![c].have = @ \cup {"dm_io"}]
       \/ cl' = [cl EXCEPT ![c].pc = "bad_dm_io"]
    /\ UNCHANGED <<Slabs, clients_lock, Memory, client_count>>

\* fault: nobody waits for dm_bufio_clients_lock
NoLock == TRUE
ClientsLockFree == clients_lock = NoOne

Lock(c) ==
    /\ At(c, "lock") /\ ClientsLockFree
    /\ clients_lock' = c
    /\ cl' = [cl EXCEPT ![c].pc = IF cl[c].size \in Small THEN "cache" ELSE "unlock"]
    /\ UNCHANGED <<Slabs, Memory, client_count>>

\* Name and cache, unless there are any.
Cache(c) ==
    /\ At(c, "cache")
    /\ \E next \in IF cl[c].size \in caches THEN {"unlock"} ELSE {"make", "bad_cache"} :
        cl' = [cl EXCEPT ![c].pc = next]
    /\ UNCHANGED <<Slabs, clients_lock, Memory, client_count>>

\* kmem_cache_create takes its time.
Make(c) ==
    /\ At(c, "make")
    /\ caches' = caches \cup {cl[c].size}
    /\ made' = [made EXCEPT ![cl[c].size] = @ + 1]
    /\ cl' = [cl EXCEPT ![c].pc = "unlock"]
    /\ UNCHANGED <<module, clients_lock, Memory, client_count>>

\* fault: the path of a cache that cannot be made forgets the lock
KeepLock(c) == IF At(c, "unlock") THEN NoOne ELSE c
GiveLock(c) == NoOne

Unlock(c) ==
    /\ cl[c].pc \in {"unlock", "bad_cache"}
    /\ clients_lock' = GiveLock(c)
    /\ cl' = [cl EXCEPT ![c].pc = IF @ = "unlock" THEN "reserve" ELSE "rest"]
    /\ UNCHANGED <<Slabs, Memory, client_count>>

ReserveOne(c) ==
    /\ At(c, "reserve") /\ cl[c].need > 0
    /\ \/ Alloc(c, FALSE, "reserve_count")
       \/ /\ cl' = [cl EXCEPT ![c].pc = "rest"]
          /\ UNCHANGED <<Slabs, clients_lock, Memory, client_count>>

\* __free_buffer_wake puts it into the reserve.
ReserveCount(c) ==
    /\ At(c, "reserve_count")
    /\ adjust_total_allocated(cl[c].mode, cl[c].size)
    /\ cl' = [cl EXCEPT ![c].pc = "reserve", ![c].need = @ - 1, ![c].reserved[cl[c].mode] = @ + 1]

\* The lock is had for the list and __cache_size_refresh alone.
Register(c) ==
    /\ At(c, "reserve") /\ cl[c].need = 0 /\ clients_lock = NoOne
    /\ client_count' = client_count + 1
    /\ cl' = [cl EXCEPT ![c].pc = "up", ![c].have = @ \cup {"listed", "shrinker"}]
    /\ UNCHANGED <<Slabs, clients_lock, Memory>>

----------------------------------------------------------------------------
(* A client at work, under its own lock.                                   *)

All(n) == n["slab"] + n["get_free_pages"] + n["vmalloc"]

Held(c) == All(cl[c].cached)

Grow(c) ==
    /\ At(c, "up") /\ Held(c) < MaxCached
    /\ Alloc(c, TRUE, "grow_count")

GrowCount(c) ==
    /\ At(c, "grow_count")
    /\ adjust_total_allocated(cl[c].mode, cl[c].size)
    /\ cl' = [cl EXCEPT ![c].pc = "up", ![c].cached[cl[c].mode] = @ + 1]

\* The allocation fails, and a buffer of the reserve is taken.
Lend(c, m) ==
    /\ At(c, "up") /\ Held(c) < MaxCached /\ cl[c].reserved[m] > 0
    /\ cl' = [cl EXCEPT ![c].reserved[m] = @ - 1, ![c].cached[m] = @ + 1, ![c].need = @ + 1]
    /\ UNCHANGED <<Slabs, clients_lock, Memory, client_count>>

\* fault: a buffer is freed although the reserve lacks one
NotNeeded(c) == TRUE
Full(c) == cl[c].need = 0

\* __free_buffer_wake of an evicted buffer that the reserve needs or not.
PutBack(c, m) ==
    /\ cl[c].pc \in {"up", "drop"} /\ cl[c].cached[m] > 0 /\ ~Full(c)
    /\ cl' = [cl EXCEPT ![c].cached[m] = @ - 1, ![c].reserved[m] = @ + 1, ![c].need = @ - 1]
    /\ UNCHANGED <<Slabs, clients_lock, Memory, client_count>>

FreeBuffer(c, m) ==
    /\ cl[c].pc \in {"up", "drop"} /\ cl[c].cached[m] > 0 /\ Full(c)
    /\ adjust_total_allocated(m, -cl[c].size)
    /\ cl' = [cl EXCEPT ![c].cached[m] = @ - 1, ![c].mode = m,
                        ![c].pc = IF @ = "up" THEN "free_up" ELSE "free_drop"]

----------------------------------------------------------------------------
(* dm_bufio_client_destroy, whose end is the error path of create, too.    *)

Destroy(c) ==
    /\ At(c, "up")
    /\ cl' = [cl EXCEPT ![c].pc = "drop"]
    /\ UNCHANGED <<Slabs, clients_lock, Memory, client_count>>

Delist(c) ==    \* drop_buffers and unregister_shrinker are done
    /\ At(c, "drop") /\ Held(c) = 0 /\ clients_lock = NoOne
    /\ client_count' = client_count - 1
    /\ cl' = [cl EXCEPT ![c].pc = "rest", ![c].have = @ \ {"listed", "shrinker"}]
    /\ UNCHANGED <<Slabs, clients_lock, Memory>>

FreeReserved(c, m) ==
    /\ At(c, "rest") /\ cl[c].reserved[m] > 0
    /\ adjust_total_allocated(m, -cl[c].size)
    /\ cl' = [cl EXCEPT ![c].reserved[m] = @ - 1, ![c].mode = m, ![c].pc = "free_rest"]

\* fault: a reserve that could not be had leaves the dm_io client behind
KeepIo(c) == IF cl[c].need > 0 THEN cl[c].have \cap {"dm_io"} ELSE {}
Kept(c) == {}

\* dm_io_client_destroy and kfree
Gone(c) ==
    /\ \/ At(c, "rest") /\ cl[c].reserved = None
       \/ At(c, "bad_dm_io")
    /\ cl' = [cl EXCEPT ![c].pc = "out", ![c].need = 0, ![c].have = Kept(c)]
    /\ UNCHANGED <<Slabs, clients_lock, Memory, client_count>>

\* dm_bufio_exit, when nobody uses the module any more.
Exit ==
    /\ module = "loaded" /\ \A c \in Clients : At(c, "out")
    /\ module' = "unloaded" /\ caches' = {}
    /\ UNCHANGED <<made, clients_lock, Memory, client_count, cl>>

Create(c) ==
    \/ DmIo(c) \/ Lock(c) \/ Cache(c) \/ Make(c) \/ Unlock(c)
    \/ ReserveOne(c) \/ ReserveCount(c) \/ Register(c)

Use(c) == Grow(c) \/ GrowCount(c) \/ \E m \in Modes : Lend(c, m)

Leave(c) ==
    \/ FreeData(c) \/ Delist(c) \/ Gone(c)
    \/ \E m \in Modes : PutBack(c, m) \/ FreeBuffer(c, m) \/ FreeReserved(c, m)

\* What a call does: a client that is up calls nothing.
Call(c) == ~At(c, "up") /\ (Create(c) \/ Leave(c))

Next == Exit \/ \E c \in Clients : Start(c) \/ Create(c) \/ Use(c) \/ Destroy(c) \/ Leave(c)

Spec == Init /\ [][Next]_vars

----------------------------------------------------------------------------
InHand(c) == cl[c].pc \in {"reserve_count", "grow_count"} \cup DOMAIN After

\* of a client, in a mode
Had(c, m) == cl[c].size * (cl[c].reserved[m] + cl[c].cached[m])
Taken(c, m) == IF InHand(c) /\ cl[c].mode = m THEN cl[c].size ELSE 0

\* So many as the clients have together.
Total(n) == Cardinality(UNION {{c} \X (1..n[c]) : c \in Clients})

Bytes(m) == Total([c \in Clients |-> Had(c, m)])

(***************************************************************************)
(* The counters say how much memory the buffers of all clients have, and   *)
(* no allocator has given out more or less than they and the buffers in    *)
(* the hands of alloc_buffer and free_buffer: what was allocated in one    *)
(* mode is not freed in another, although a client may have both.          *)
(***************************************************************************)
Accounted ==
    \A m \in Modes :
        /\ allocated[m] = Bytes(m)
        /\ out[m] = Bytes(m) + Total([c \in Clients |-> Taken(c, m)])

(***************************************************************************)
(* There is one cache for all clients with small blocks of a size, and it  *)
(* is there for as long as one of them has buffers, or may allocate some.  *)
(***************************************************************************)
CachesShared ==
    /\ \A s \in Sizes : made[s] <= 1
    /\ \A c \in Clients :
          /\ cl[c].size \in Small
          /\ \/ InHand(c) \/ cl[c].pc \in {"reserve", "up"}
             \/ cl[c].reserved # None \/ cl[c].cached # None
          => cl[c].size \in caches

(***************************************************************************)
(* A client that is gone, and one whose creation failed wherever it        *)
(* failed, leaves nothing; dm_bufio_exit finds every counter at zero, and  *)
(* does not come to its BUG().                                             *)
(***************************************************************************)
NothingLeft ==
    /\ \A c \in Clients : At(c, "out") => cl[c].have = {}
    /\ module = "unloaded" => allocated = None /\ out = None /\ client_count = 0

(***************************************************************************)
(* When every buffer was dropped the reserve is complete again, whoever    *)
(* borrowed from it: the BUG_ON of dm_bufio_client_destroy.                *)
(***************************************************************************)
ReserveBack ==
    \A c \in Clients : At(c, "drop") /\ Held(c) = 0 => cl[c].need = 0

(***************************************************************************)
(* dm_bufio_client_create and dm_bufio_client_destroy return, also when    *)
(* somebody else's creation failed under dm_bufio_clients_lock.            *)
(***************************************************************************)
ClientsReturn ==
    \A c \in Clients : /\ At(c, "lock") ~> cl[c].pc \in {"up", "out"}
                       /\ At(c, "drop") ~> At(c, "out")
=============================================================================

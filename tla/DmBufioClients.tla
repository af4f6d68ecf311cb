--------------------------- MODULE DmBufioClients ---------------------------
(***************************************************************************)
(* What the clients of ch10/dm-verity/dm-bufio.c share: the size of the    *)
(* cache, a module parameter that the user may write at any time, its      *)
(* latch, the number of clients and the share of each, the list of clients *)
(* that the age worker walks, and the locks.  The buffers of a client are  *)
(* the matter of DmBufio; here a client is its lock and its life.          *)
(*                                                                         *)
(* The sections under dm_bufio_clients_lock are split where another thread *)
(* reads the size, the latch or the share without that lock.               *)
(***************************************************************************)
EXTENDS Naturals, FiniteSets

CONSTANTS
  Threads, Clients,
  Sizes,        \* values the user writes to max_cache_size_bytes
  DefaultSize,  \* what dm_bufio_init computes from the memory there is
  Calls,        \* Calls[t]: what thread t may do
  Nobody, NoClient

Work == {"create", "use", "destroy", "age", "scan_fs", "scan_nofs"}

ASSUME ThreadsAssumption == Nobody \notin Threads
ASSUME ClientsAssumption == IsFiniteSet(Clients) /\ NoClient \notin Clients
ASSUME SizesAssumption   == Sizes \subseteq Nat /\ DefaultSize \in Nat \ {0}
ASSUME CallsAssumption   == Calls \in [Threads -> SUBSET Work]

VARIABLES
  clientsLock,  \* dm_bufio_clients_lock: its owner, or Nobody
  clientLock,   \* c->lock of each client
  cacheSize,    \* dm_bufio_cache_size, the parameter
  latch,        \* dm_bufio_cache_size_latch
  perClient,    \* dm_bufio_cache_size_per_client
  count,        \* dm_bufio_client_count
  listed,       \* dm_bufio_all_clients
  hooked,       \* clients whose shrinker is registered
  life,         \* of each client: "none", "creating", "open", "closing"
  pc, loc       \* control point and locals of each thread

sizeVars   == <<cacheSize, latch, perClient>>
clientVars == <<count, listed, hooked, life>>
vars == <<clientsLock, clientLock, sizeVars, clientVars, pc, loc>>

\* dm_bufio_cache_size_latch / (dm_bufio_client_count ? : 1)
Share(size, n) == size \div (IF n = 0 THEN 1 ELSE n)

\* The control points inside __cache_size_refresh, and those where a thread
\* holds dm_bufio_clients_lock.
Refreshing == {"latch", "zero", "default", "share"}
Global     == Refreshing \cup {"walk", "evict"}
Local      == {"idle", "reserve", "register", "hook", "size", "compare", "want", "read",
               "unhook", "unlist", "free", "scan"}

\* client: the one the call is about; walk: clients the age worker has not seen;
\* seen: the size read; then: where a refresh goes on; changed: ghost, the
\* parameter was written since the call began.
Locals == [client : Clients \cup {NoClient}, walk : SUBSET Clients, seen : Nat,
           then : Local, waits : BOOLEAN, changed : BOOLEAN]
Rest == [client |-> NoClient, walk |-> {}, seen |-> 0, then |-> "idle",
         waits |-> FALSE, changed |-> FALSE]
On(c) == [Rest EXCEPT !.client = c]

At(t, l)    == pc[t] = l
Call(t, w)  == At(t, "idle") /\ w \in Calls[t]
Go(t, l, r) == pc' = [pc EXCEPT ![t] = l] /\ loc' = [loc EXCEPT ![t] = r]
Return(t)   == Go(t, "idle", Rest)
Acquire(t)  == clientsLock = Nobody /\ clientsLock' = t
Users(c)    == {t \in Threads : loc[t].client = c}

\* dm_bufio_init: the parameter may have been given when the module was loaded.
Init ==
  /\ clientsLock = Nobody /\ clientLock = [c \in Clients |-> Nobody]
  /\ cacheSize \in (Sizes \ {0}) \cup {DefaultSize}
  /\ latch = cacheSize /\ perClient = Share(latch, 0)
  /\ count = 0 /\ listed = {} /\ hooked = {}
  /\ life = [c \in Clients |-> "none"]
  /\ pc = [t \in Threads |-> "idle"] /\ loc = [t \in Threads |-> Rest]

\* The user writes the parameter; no lock is taken.
SetSize(size) ==
  /\ cacheSize' = size
  /\ loc' = [t \in Threads |-> IF At(t, "idle") THEN loc[t]
                                              ELSE [loc[t] EXCEPT !.changed = TRUE]]
  /\ UNCHANGED <<clientsLock, clientLock, latch, perClient, clientVars, pc>>

-----------------------------------------------------------------------------
(* __cache_size_refresh, with dm_bufio_clients_lock held.                   *)

Latch(t) ==
  /\ At(t, "latch") /\ latch' = cacheSize
  /\ Go(t, IF cacheSize = 0 THEN "zero" ELSE "share", loc[t])
  /\ UNCHANGED <<clientsLock, clientLock, cacheSize, perClient, clientVars>>

\* fault: a plain store instead of cmpxchg.
ZeroStored(t) ==
  /\ At(t, "zero") /\ cacheSize' = DefaultSize
  /\ Go(t, "default", loc[t])
  /\ UNCHANGED <<clientsLock, clientLock, latch, perClient, clientVars>>

\* cmpxchg: the user may have written the parameter since it was read.
Zero(t) ==
  /\ At(t, "zero") /\ cacheSize' = IF cacheSize = 0 THEN DefaultSize ELSE cacheSize
  /\ Go(t, "default", loc[t])
  /\ UNCHANGED <<clientsLock, clientLock, latch, perClient, clientVars>>

Default(t) ==
  /\ At(t, "default") /\ latch' = DefaultSize
  /\ Go(t, "share", loc[t])
  /\ UNCHANGED <<clientsLock, clientLock, cacheSize, perClient, clientVars>>

SetShare(t) ==
  /\ At(t, "share") /\ perClient' = Share(latch, count)
  /\ clientsLock' = Nobody
  /\ Go(t, loc[t].then, [loc[t] EXCEPT !.then = "idle"])
  /\ UNCHANGED <<clientLock, cacheSize, latch, clientVars>>

-----------------------------------------------------------------------------
(* dm_bufio_client_create.                                                 *)

\* The slab cache of the block size is made under the lock, if there is none.
Create(t, c) ==
  /\ Call(t, "create") /\ life[c] = "none" /\ clientsLock = Nobody
  /\ life' = [life EXCEPT ![c] = "creating"] /\ Go(t, "reserve", On(c))
  /\ UNCHANGED <<clientsLock, clientLock, sizeVars, count, listed, hooked>>

\* fault: the client is counted out again although it was not counted in.
ReserveUncounts(t) ==
  /\ At(t, "reserve") /\ Return(t) /\ count' = count - 1
  /\ life' = [life EXCEPT ![loc[t].client] = "none"]
  /\ UNCHANGED <<clientsLock, clientLock, sizeVars, listed, hooked>>

\* The reserve is allocated; bad_buffer frees the client again.
Reserve(t) ==
  LET c == loc[t].client IN
  /\ At(t, "reserve")
  /\ \/ Go(t, "register", loc[t]) /\ UNCHANGED life
     \/ Return(t) /\ life' = [life EXCEPT ![c] = "none"]
  /\ UNCHANGED <<clientsLock, clientLock, sizeVars, count, listed, hooked>>

Register(t) ==
  LET c == loc[t].client IN
  /\ At(t, "register") /\ Acquire(t)
  /\ count' = count + 1 /\ listed' = listed \cup {c}
  /\ Go(t, "latch", [loc[t] EXCEPT !.then = "hook"])
  /\ UNCHANGED <<clientLock, sizeVars, hooked, life>>

Hook(t) ==
  LET c == loc[t].client IN
  /\ At(t, "hook")
  /\ hooked' = hooked \cup {c} /\ life' = [life EXCEPT ![c] = "open"]
  /\ Return(t)
  /\ UNCHANGED <<clientsLock, clientLock, sizeVars, count, listed>>

-----------------------------------------------------------------------------
(* A call that inserts a block: __get_memory_limit with c->lock held.       *)

Use(t, c) ==
  /\ Call(t, "use") /\ life[c] = "open" /\ clientLock[c] = Nobody
  /\ clientLock' = [clientLock EXCEPT ![c] = t] /\ Go(t, "size", On(c))
  /\ UNCHANGED <<clientsLock, sizeVars, clientVars>>

ReadSize(t) ==
  /\ At(t, "size") /\ Go(t, "compare", [loc[t] EXCEPT !.seen = cacheSize])
  /\ UNCHANGED <<clientsLock, clientLock, sizeVars, clientVars>>

NeverOutdated(size) == FALSE                    \* fault: the parameter is not followed
Outdated(size) == size # latch

Compare(t) ==
  /\ At(t, "compare") /\ Go(t, IF Outdated(loc[t].seen) THEN "want" ELSE "read", loc[t])
  /\ UNCHANGED <<clientsLock, clientLock, sizeVars, clientVars>>

\* mutex_lock(&dm_bufio_clients_lock), inside c->lock.
Want(t) ==
  /\ At(t, "want") /\ Acquire(t)
  /\ Go(t, "latch", [loc[t] EXCEPT !.then = "read"])
  /\ UNCHANGED <<clientLock, sizeVars, clientVars>>

ReadLimit(t) ==
  /\ At(t, "read") /\ clientLock' = [clientLock EXCEPT ![loc[t].client] = Nobody]
  /\ Return(t)
  /\ UNCHANGED <<clientsLock, sizeVars, clientVars>>

-----------------------------------------------------------------------------
(* dm_bufio_client_destroy: no call on the client is in progress but those  *)
(* of the shrinker and the age worker.                                     *)

\* drop_buffers, with c->lock.
Destroy(t, c) ==
  /\ Call(t, "destroy") /\ life[c] = "open" /\ clientLock[c] = Nobody
  /\ \A u \in Users(c) : pc[u] \in {"scan", "evict"}
  /\ life' = [life EXCEPT ![c] = "closing"] /\ Go(t, "unhook", On(c))
  /\ UNCHANGED <<clientsLock, clientLock, sizeVars, count, listed, hooked>>

\* unregister_shrinker waits for a scan that is running.
DoNotWait(c) == TRUE                            \* fault: it does not
ScansOver(c) == \A u \in Users(c) : ~At(u, "scan")

Unhook(t) ==
  LET c == loc[t].client IN
  /\ At(t, "unhook") /\ ScansOver(c) /\ hooked' = hooked \ {c}
  /\ Go(t, "unlist", loc[t])
  /\ UNCHANGED <<clientsLock, clientLock, sizeVars, count, listed, life>>

\* fault: the shares are not computed again.
UnlistOnly(t) ==
  /\ At(t, "unlist") /\ clientsLock = Nobody
  /\ listed' = listed \ {loc[t].client} /\ count' = count - 1
  /\ Go(t, "free", loc[t])
  /\ UNCHANGED <<clientsLock, clientLock, sizeVars, hooked, life>>

\* fault: without dm_bufio_clients_lock.
UnlistUnlocked(t) ==
  /\ At(t, "unlist") /\ listed' = listed \ {loc[t].client} /\ count' = count - 1
  /\ Go(t, "free", loc[t])
  /\ UNCHANGED <<clientsLock, clientLock, sizeVars, hooked, life>>

Unlist(t) ==
  LET c == loc[t].client IN
  /\ At(t, "unlist") /\ Acquire(t)
  /\ listed' = listed \ {c} /\ count' = count - 1
  /\ Go(t, "latch", [loc[t] EXCEPT !.then = "free"])
  /\ UNCHANGED <<clientLock, sizeVars, hooked, life>>

Free(t) ==
  LET c == loc[t].client IN
  /\ At(t, "free") /\ life' = [life EXCEPT ![c] = "none"] /\ Return(t)
  /\ UNCHANGED <<clientsLock, clientLock, sizeVars, count, listed, hooked>>

-----------------------------------------------------------------------------
(* cleanup_old_buffers takes c->lock inside dm_bufio_clients_lock.          *)

Age(t) ==
  /\ Call(t, "age") /\ Acquire(t)
  /\ Go(t, "walk", [Rest EXCEPT !.walk = listed])
  /\ UNCHANGED <<clientLock, sizeVars, clientVars>>

AgeNext(t) ==
  /\ At(t, "walk") /\ UNCHANGED <<clientLock, sizeVars, clientVars>>
  /\ \/ \E c \in loc[t].walk :
          /\ Go(t, "evict", [loc[t] EXCEPT !.client = c, !.walk = @ \ {c}])
          /\ UNCHANGED clientsLock
     \/ loc[t].walk = {} /\ clientsLock' = Nobody /\ Return(t)

\* __evict_old_buffers: lock, evict what is idle without waiting, unlock.
AgeEvict(t) ==
  /\ At(t, "evict") /\ clientLock[loc[t].client] = Nobody
  /\ Go(t, "walk", [loc[t] EXCEPT !.client = NoClient])
  /\ UNCHANGED <<clientsLock, clientLock, sizeVars, clientVars>>

(* dm_bufio_shrink_scan; without __GFP_FS it does not wait for c->lock.     *)

Scan(t, c, w) ==
  /\ Call(t, w) /\ w \in {"scan_fs", "scan_nofs"} /\ c \in hooked
  /\ Go(t, "scan", [On(c) EXCEPT !.waits = (w = "scan_fs")])
  /\ UNCHANGED <<clientsLock, clientLock, sizeVars, clientVars>>

ScanDone(t) ==
  /\ At(t, "scan") /\ (clientLock[loc[t].client] = Nobody \/ ~loc[t].waits)
  /\ Return(t)
  /\ UNCHANGED <<clientsLock, clientLock, sizeVars, clientVars>>

-----------------------------------------------------------------------------

Start(t) ==
  \/ \E c \in Clients : \/ Create(t, c) \/ Use(t, c) \/ Destroy(t, c)
                       \/ \E w \in Work : Scan(t, c, w)
  \/ Age(t)

Continue(t) ==
  \/ Latch(t) \/ Zero(t) \/ Default(t) \/ SetShare(t)
  \/ Reserve(t) \/ Register(t) \/ Hook(t)
  \/ ReadSize(t) \/ Compare(t) \/ Want(t) \/ ReadLimit(t)
  \/ Unhook(t) \/ Unlist(t) \/ Free(t)
  \/ AgeNext(t) \/ AgeEvict(t) \/ ScanDone(t)

Next == \/ \E t \in Threads : Start(t) \/ Continue(t)
        \/ \E size \in Sizes : SetSize(size)

Spec == Init /\ [][Next]_vars

-----------------------------------------------------------------------------
(* Properties.                                                             *)

\* The variables keep their types; the number of clients never goes below zero.
TypeOK ==
  /\ clientsLock \in Threads \cup {Nobody}
  /\ clientLock \in [Clients -> Threads \cup {Nobody}]
  /\ cacheSize \in Nat /\ latch \in Nat /\ perClient \in Nat
  /\ count \in Nat /\ listed \subseteq Clients /\ hooked \subseteq Clients
  /\ life \in [Clients -> {"none", "creating", "open", "closing"}]
  /\ pc \in [Threads -> Global \cup Local] /\ loc \in [Threads -> Locals]

\* "This mutex protects dm_bufio_cache_size_latch, dm_bufio_cache_size_per_client
\* and dm_bufio_client_count": whenever nobody has it they fit each other and the list,
\* and a parameter of 0 has not stayed in the latch. While somebody has it, even the
\* age worker, which changes nothing, this says nothing; SizeInv does.
SharesFit ==
  clientsLock = Nobody =>
    /\ count = Cardinality(listed) /\ latch # 0
    /\ perClient = Share(latch, count)

\* Nobody works on a client that is freed: a call, the age worker that is on its
\* way through the list, the shrinker.
NoUseAfterFree ==
  \A t \in Threads :
    /\ loc[t].client # NoClient => life[loc[t].client] # "none"
    /\ \A c \in loc[t].walk : life[c] # "none"

\* A call that inserts a block takes its limit from the parameter as it was at
\* some time of the call, unless another thread is just changing the share.
Effective(size) == IF size = 0 THEN DefaultSize ELSE size
SizeFollowed ==
  [][\A t \in Threads : At(t, "read") /\ pc'[t] = "idle" =>
       \/ perClient = Share(Effective(cacheSize), count)
       \/ loc[t].changed \/ clientsLock # Nobody]_vars

\* No thread waits for dm_bufio_clients_lock inside a c->lock that its owner
\* waits for ("because we hold dm_bufio_clients_lock and we would risk deadlock").
NoLockCycle ==
  \A t, u \in Threads :
    ~ (At(t, "want") /\ At(u, "evict") /\ loc[t].client = loc[u].client)

----------------------------------------------------------------------------
(* The inductive invariant.                                                *)

\* Where a refresh of the shares goes on counts for where it is called from.
In(t, S) == pc[t] \in S \/ (pc[t] \in Refreshing /\ loc[t].then \in S)

Creating(t) == In(t, {"reserve", "register", "hook"})
Closing(t)  == In(t, {"unhook", "unlist", "free"})
Using(t)    == In(t, {"size", "compare", "want", "read"})

\* dm_bufio_clients_lock belongs to the thread between lock and unlock.
LockOwner == \A t \in Threads : clientsLock = t <=> pc[t] \in Global

\* What thread t knows of the client it works on, and of those it walks over.
ThreadOK(t) ==
  LET c == loc[t].client IN
  /\ c = NoClient <=> pc[t] \in {"idle", "walk"}
  /\ pc[t] \in Refreshing => loc[t].then \in {"hook", "read", "free"}
  /\ pc[t] \notin {"walk", "evict"} => loc[t].walk = {}
  /\ loc[t].walk \subseteq listed
  /\ At(t, "evict") => c \in listed
  /\ At(t, "scan") => c \in hooked
  /\ Creating(t) => life[c] = "creating" /\ c \notin hooked
  /\ pc[t] \in {"reserve", "register"} => c \notin listed
  /\ In(t, {"hook"}) => c \in listed
  /\ Using(t) => life[c] = "open" /\ clientLock[c] = t
  /\ Closing(t) => life[c] = "closing"
  /\ pc[t] \in {"unhook", "unlist"} => c \in listed
  /\ In(t, {"unlist", "free"}) => c \notin hooked
  /\ In(t, {"free"}) => c \notin listed

ClientOK(c) ==
  /\ life[c] = "none" => c \notin listed /\ c \notin hooked
  /\ life[c] = "open" => c \in listed

\* One thread at most brings a client up or takes it down.
OneKeeper ==
  \A t, u \in Threads :
    /\ Creating(t) \/ Closing(t)
    /\ Creating(u) \/ Closing(u)
    /\ loc[t].client = loc[u].client
    => t = u

\* The latch is 0 only on the way to the default, and the share fits the latch
\* and the number of clients but inside a refresh.
LatchOK ==
  /\ \A t \in Threads : pc[t] \in {"zero", "default"} => latch = 0
  /\ latch = 0 => \E t \in Threads : pc[t] \in {"zero", "default"}
ShareOK ==
  (\A t \in Threads : pc[t] \notin Refreshing) => perClient = Share(latch, count)
CountOK == count = Cardinality(listed)

\* A call that found the latch equal to the parameter, or copied it, still
\* has it so, but for a change by the user and for a refresh yet to come.
FollowOK(t) ==
  ~loc[t].changed =>
    /\ At(t, "compare") => Effective(loc[t].seen) = Effective(cacheSize)
    /\ pc[t] \in {"zero", "default", "share", "read"} =>
         (\E u \in Threads : At(u, "latch")) \/ Effective(latch) = Effective(cacheSize)

\* LifeInv: locks and the lives of the clients; SizeInv: the numbers.
LifeInv ==
  /\ TypeOK /\ LockOwner /\ OneKeeper /\ CountOK
  /\ \A t \in Threads : ThreadOK(t)
  /\ \A c \in Clients : ClientOK(c)
SizeInv == LatchOK /\ ShareOK /\ \A t \in Threads : FollowOK(t)

\* What DmBufioClients_proofs shows inductive.
ClientsInv == LifeInv /\ SizeInv
=============================================================================

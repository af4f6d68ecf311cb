# Models and proofs for memo-linux

memo-linux is a set of notes on Linux with programs beside them: small user-space
demonstrations (processes, threads, memory, sockets, IPC), kernel-module examples,
and a complete copy of two kernel components, the buffered-I/O cache **dm-bufio**
and the hash-tree target **dm-verity** built on it (`ch10/dm-verity`). This
directory holds TLA+ specifications of its programs, the TLC configurations that
check them, and TLAPS proofs.

Each program has a module, or a few where it has parts that can be checked apart.
The programs do not interact, with two exceptions: dm-verity is a client of dm-bufio,
and `select()` clients are clients of `select()` servers; these are modelled together.

## 1. Inventory

| component (source) | state it keeps | operations | hard behaviour | correct when | modules |
|---|---|---|---|---|---|
| **dm-bufio, one client** (`ch10/dm-verity/dm-bufio.c`) | `struct dm_bufio_client`: the mutex, two LRU lists, the index of buffers by block, the reserve, wait queue, write error; `struct dm_buffer`: state bits, hold count, errors | `read`, `new`, `get`, `prefetch`, `release`, `mark_buffer_dirty`, `write_dirty_buffers[_async]`, `release_move`, `forget`; shrinker; age worker; `client_destroy`; ends of I/O in interrupt context | the lock is dropped in the middle of operations; bits change in interrupts; waiting with and without the lock; a write error is noted once for all; the cache is at its limit | one buffer per block; evicted buffers are quiet; references are exact; nothing written is lost; a flush that returns 0 tells the truth; every call returns | `BlockCache` (abstract), `DmBufio` |
| dm-bufio, ageing (same file) | `jiffies`, `last_accessed`, the order of the clean list | `get_max_age_hz`, `older_than`, `__evict_old_buffers`, and all that links a buffer | arithmetic that wraps; a worker that stops at the first young buffer | nothing goes too early, nothing old is passed over | `BufferAge` |
| dm-bufio, memory (same file) | the counters of three allocators, slab caches and their users, reserve | `alloc_buffer`, `free_buffer`, `adjust_total_allocated`, `client_create`, `client_destroy`, `dm_bufio_exit` | five failing allocations, two clients at once, buffers that go back another way than they came | counters are exact, caches shared, nothing leaked | `BufioMemory` |
| dm-bufio, all clients (same file) | `dm_bufio_clients_lock`, cache size, latch, per-client share, client list, module parameters | `client_create`, `client_destroy`, `__cache_size_refresh`, `cleanup_old_buffers` | two locks taken in two orders; values read without the lock; parameters changed at any time | no deadlock; shares follow size and number of clients; nothing reaches a freed client | `DmBufioClients` |
| **dm-verity** (`ch10/dm-verity/dm-verity.c`) | tree geometry, `hash_verified` per buffer, `hash_failed`, `corrupted_errs` | `verity_ctr`, `verity_dtr`, `verity_map`, `verity_verify_io`, `verity_prefetch_io`, `verity_handle_err` | workers share flags and counters without a lock; level arithmetic that may wrap; twenty ways to fail in the constructor | no unverified block is passed on; prefetch stays in the tree; nothing leaks | `VerityTree`, `VerityTarget`, `DmVerity` |
| **myusb** (`ch10/tests/usb/myusb.c`) | `usb_skel`: URBs, read buffer, `errors`, `disconnected`, one DMA buffer, `limit_sem`, `kref` | `probe`, `open`, `read`, `write`, `flush`, `release`, `disconnect`, `suspend`, `pre/post_reset`, two callbacks | callbacks against readers, disconnect against everything, a buffer shared by writers | data had once and in order; slots balanced; nothing touched after disconnect | `UsbSkel` |
| producers and consumers (`ch08/t/producer_consumer_1..5.c`) | pipes; a shared stack with two semaphores and a mutex; a queue with a condition | produce, consume | end of a pipe, one variable passed to all threads, signals without a predicate | everything produced is consumed once, all terminate | `Warehouse` (abstract), `PcPipe`, `PcSemaphores`, `PcCondition` |
| pthread counter (`ch04/t/02_pthread_rwlock*.c`) | a counter under a read-write lock | write, read, cancel, destroy | check-then-lock | no count lost; how far the limit is passed; the main thread ends | `RwCounter` |
| lightweight semaphore (`ch04/t/04_atomicops.h`) | `m_count`, `m_sema` | `wait`, `tryWait`, timed `wait`, `signal` | a timeout races a signal | a counting semaphore | `CountingSemaphore` (abstract), `LightSemaphore` |
| message queues (`ch08/t/01_msg.cpp`, `ipc_mq.c`) | a System V queue, a flag a handler clears | send, receive, remove | a signal between test and blocking call; removal under a receiver | both processes end; a line is read once; the queue is removed | `MsgPair`, `MsgOnce` |
| Rio package (`ch03/t/posix.c`) | `rio_t`: buffer and count | `rio_readn`, `rio_writen`, `rio_readnb`, `rio_readlineb` | short counts, `EINTR`, errors, end in the middle of a line | a stream of bytes | `ByteStream` (abstract), `Rio` |
| select servers and clients (`ch07/02_select`) | descriptor sets, `maxfd`, the stream of each client | accept, receive, reject | clients that vanish, messages the stream runs together | who is connected is watched; messages are received and printed | `SelectServer` |
| peeking server (`ch07/01_socket/msgpeek_*.c`) | a stream and the header peeked at | peek, receive | part of a header | messages stay apart | `MsgPeek` |
| getting a socket (`ch03`, `ch07`) | the sockets tried | ten programs' calls for each address | any call fails | none left open, the program ends up with one or gives up | `Endpoint` |
| timer, tasklet (`ch10/timer_list`, `ch10/tasklet`) | pending and running callbacks | init, exit, callback | unload against a callback | callbacks come as often as they should; modules go | `DeferredWork` |
| character devices (`ch11/d`, `ch11/dd`, `ch10/create_cdev/d`) | regions, cdevs, classes, nodes | init, exit, open, write, release | partial failure of init | what a number leads to is loaded | `CharDevices` |
| RAM disk (`ch10/create_blkdev/blkdev_test.c`) | the memory, the request queue | init, exit, `my_request` | unload with requests queued; size computed in an `int` | requests find the memory | `RamDisk` |

The composition of the device mapper's two pieces is in `DmVerity`: the cache there is
what a client sees of dm-bufio (a block is read when it is missing, held and released,
evicted when nobody holds it), and `OneBufferPerBlock`, `HoldsAccounted` and
`QuietWhenUnlinked`, checked of `DmBufio`, are what entitles it to that.

`PROJECT.json` lists the hazards of each program at the line where it bites, with the
properties that cover it.

## 2. How the models correspond to the code

`DmBufio.tla` is one client with all its callers.

* **A thread** is a control point `pc[t]` and its local variables `loc[t]`
  (`mine` is the reference it holds, `cur` the buffer it works on, `newb` the one
  it is about to insert, `wl` its write list, `walk` what is left of a list walk).
  `Calls[t]` says which functions it may call. Between two calls a thread is
  `"idle"` and may hold one reference.
* **An action is what the code does without sleeping.** A place where it sleeps
  with the lock held (`clean`, `park`, `relink`, `movecopy`, `wb`), drops the lock
  (`asleep`, `syncwait`, `flush`), or acts without it (`submit`, `xchg`,
  `issueflush`) is a control point, so that interrupts and other threads come in
  where they can in the code and nowhere else. `Locked` are the control points at
  which `c->lock` is held.
* **A list** is the set of buffers with `where` equal to its name; its order is
  the relation `recent` (`<<a, b>>`: a is nearer to the head). `n_buffers` is its
  cardinality, `__find` the set `Find(k)`. Buffers that are not linked are in the
  reserve, free, or in the hand of the thread that took them.
* **The content** of a block is a generation number; `mark_buffer_dirty` makes
  the next one, a write carries the generation of the buffer when it is submitted
  (`Submit`), a read brings that of the device. `disk` includes the volatile cache
  of the device, `durable` is what a flush moved on.
* `latest`, `failed`, `reported` and `snap` are history: the newest content of a
  block, the failed writes whose error is still in `async_write_error` or went to
  a caller, and what was current when a flush was called. They guard nothing.

| code | actions |
|---|---|
| `new_read`, `__bufio_new` | `NewRead`, `Lookup`, `Alloc`, `WakeUp`, `Recheck`, `Watermark`, `LinkNew`, `Flush`, `SubmitRead`, `WaitRead`, `Overwrite` |
| `dm_bufio_prefetch` | `Prefetch`, then the same; `ReleaseRef` goes on with the next block |
| `dm_bufio_release`, `mark_buffer_dirty`, `forget` | `ReleaseRef`, `MarkDirty`, `Forget` |
| `__make_buffer_clean`, `__write_dirty_buffer` and what follows in each caller | `CleanWrite`, `CleanDone` |
| `__write_dirty_buffers_async` | `WriteAsync`, `WriteBack`, `Flush` |
| `dm_bufio_write_dirty_buffers` | `Sync`, `WriteBack`, `Flush`, `SyncWalk`, `SyncVisit`, `SyncPark`, `SyncWake`, `SyncRelock`, `SyncEnd`, `TakeError`, `IssueFlush` |
| `dm_bufio_release_move` | `Move`, `MoveFind`, `MoveWrite`, `MoveRelink`, `MoveCopied`, `ReleaseRef` |
| `dm_bufio_shrink_scan`, `__scan`, `__try_evict_buffer` | `Scan`, `ScanVisit`, `CleanDone` |
| `__evict_old_buffers` | `Age`, `AgeVisit` |
| `drop_buffers`, `dm_bufio_client_destroy` | `Destroy`, `WriteBack`, `Flush`, `DropStart`, `Drop`, `CleanDone`, `Unregister` |
| `read_endio`, `write_endio` | `ReadDone`, `WriteDone` |

Abstractions, all on the side of more behaviour:

* memory may be short at any allocation (`alloc_buffer` fails or not); `Buffers`
  are all the buffers there is room for;
* the limit `__get_memory_limit` computes may be any value of `Limits`, as the
  size of the cache and the number of clients may change at any time;
* a buffer may be too young for the age worker at any time;
* the device answers in any order and, where `Failures` allows it, with an error.

A client of the model takes one reference at a time, and marks a buffer dirty only
while it holds it and nobody reads it (the header of dm-bufio asks for that). It
overwrites what it got from `dm_bufio_new`, as the comment on `new_read` assumes.
`dm_bufio_client_destroy` is called when no client has a reference ("It is required
that there are no references on any buffers").

Definitions marked `fault:` are plausible bugs; each replaces the definition after
it when a property is tried against that bug. No specification uses them.

`DmBufioInv.tla` is the inductive invariant, `MCDmBufio.tla` gives `Calls` its
values for TLC, and the proofs are in `DmBufioLayers_proofs` and in `DmBufio_proofs`, which
extends it.

**What dm-bufio promises** is `BlockCache.tla`: a write-back cache over a device that has a
volatile cache and can fail. It has no buffers, lists, locks, counts or state bits. Its
state is the newest content of each block, the device, the failed writes, and of each
client what it asks for (`call`), has (`hand`), wants a flush to make durable (`want`) and
was told (`error`). The end of `DmBufioInv.tla` says what each of these is in a state of
`DmBufio`:

| `BlockCache` | in `DmBufio` |
|---|---|
| `call[t]` | the call `t` is in, until it has its effect (`Asks`); prefetches are not calls |
| `hand[t]` | the buffer `t` has and no longer waits for, as block (`Home`) and content; a buffer a move has lent to another block counts as the block it was |
| `want[t]` | `latest` when `t` called `dm_bufio_write_dirty_buffers` |
| `error` | threads with `loc[t].res`, the result of the flush so far |
| `open`, `lost`, `told` | `status # "closed"`, `failed`, `reported` |
| `latest`, `disk`, `durable` | the same |

| step of `BlockCache` | what it is in the code |
|---|---|
| `Ask`, `Get`, `GetNothing` | a read begins; `WaitRead` ends and the client has the newest content of the block; the read fails, or `dm_bufio_get` misses |
| `Make` | `dm_bufio_new` and the client overwriting what it got (`Overwrite`) |
| `Change`, `Move`, `Give` | `MarkDirty`; `MoveRelink` or `MoveCopied`; `ReleaseRef` |
| `Write`, `WriteFails` | `WriteDone`, and nothing else, whoever submitted the write |
| `Flush`, `Tell`, `FlushSucceeds`, `FlushFails` | `Sync`, `TakeError`, `IssueFlush` |
| `Destroy` | `Unregister`, the last step that can lose something |

All other steps (lookups, allocation, eviction, the shrinker, the age worker, list walks,
sleeping and waking, submitting, reads of the device) change nothing of that.

### All clients

`DmBufioClients.tla` is what the clients share. A client is its lock, its place on
`dm_bufio_all_clients`, its shrinker and its life (`none`, `creating`, `open`,
`closing`); its buffers are left to `DmBufio`, and the two meet in one place: the
limit that `__get_memory_limit` computes from `perClient`, for which `DmBufio` takes
any value of `Limits`.

| code | actions |
|---|---|
| the user writes `max_cache_size_bytes` | `SetSize` |
| `__cache_size_refresh` | `Latch`, `Zero`, `Default`, `SetShare`: the parameter, the latch and the share are read elsewhere without the lock, so each assignment is a step |
| `dm_bufio_client_create` | `Create`, `Reserve`, `Register`, refresh, `Hook` |
| `__get_memory_limit`, inside `c->lock` | `Use`, `ReadSize`, `Compare`, `Want`, refresh, `ReadLimit` |
| `dm_bufio_client_destroy` | `Destroy`, `Unhook`, `Unlist`, refresh, `Free` |
| `cleanup_old_buffers`, `__evict_old_buffers` | `Age`, `AgeNext`, `AgeEvict` |
| `dm_bufio_shrink_scan` | `Scan`, `ScanDone` |

`register_shrinker` and `unregister_shrinker` are the kernel's: a scan starts only on
a registered shrinker, and `unregister_shrinker` waits for a scan that runs. A client
is destroyed when no call on it is in progress. `loc[t].changed` is history: the
parameter was written since the call began. The inductive invariant is at the end of
the module; `MCDmBufioClients.tla` gives `Calls` its values.

### Ageing and memory of dm-bufio

`DmBufio` leaves two things open on purpose, each of which has a module of its own.

`BufferAge` is the clock: `now` is true time, and what the code stores is
`(Boot + time) % ULongSize`, so that `jiffies` wraps during a behaviour; `AfterEq` is
`time_after_eq`. `lru` is the clean list in its order and `when` the access times, which
the code keeps in two places and which must agree for the worker's early stop. `Get`,
`Insert`, `Release`, `MarkDirty`, `Written`, `Drop`, `ReadDone` are what the operations
of dm-bufio do to the two; `ReadAge`, `Begin`, `Visit`, `Over`, `Unlock` are
`get_max_age_hz` and `__evict_old_buffers`.

`BufioMemory` is the memory: `out` is what each of `slab`, `get_free_pages` and `vmalloc`
has really given out, `allocated` the counters. `Start`, `DmIo`, `Lock`, `Cache`, `Make`,
`Unlock`, `ReserveOne`, `ReserveCount`, `Register` are `dm_bufio_client_create`, with an
alternative that fails wherever an allocation is; `Grow`, `GrowCount`, `Lend`, `PutBack`,
`FreeBuffer` are `alloc_buffer`, `free_buffer` and the reserve while the client is in use;
`Destroy`, `Delist`, `FreeReserved`, `Gone` are `dm_bufio_client_destroy`, whose last
part is also the error path of the constructor, and `Exit` is `dm_bufio_exit`, which does
not look at the counter of the slab caches, so that only the other two are in its guard.

### dm-verity

| code | actions |
|---|---|
| arithmetic of `verity_ctr`, `verity_position_at_level`, `verity_hash_at_level`, the range of `verity_prefetch_io` | operators of `VerityTree`; `sector_t` has `Width` bits, shifts wrap; `TwoTo[k]` is 1 shifted by `k` |
| `verity_ctr` | `Ctr`, `Version`, `Device`, `DataBlockSize`, `HashBlockSize`, `DataBlocks`, `HashStart`, `AlgName`, `Tfm`, `DigestSize`, `RootDigest`, `Hex`, `Salt`, `Options`, `Layout`, `Bufio`, `DeviceSize`, `Workqueue`: each with the errors it may end in; `ptr` is what a field holds (an error pointer, too), `held` what is allocated |
| `verity_dtr` | `Dtr` (goes by `ptr`, as the code does); `DestroyWorkqueue`, `DestroyBufio` where work is in progress |
| `verity_map` | `Map`, `Answered` (`VerityTarget`), `Map` (`DmVerity`) |
| `verity_end_io`, `verity_work`, `verity_verify_io` | `EndIo`, `Work`, `NextBlock`, `TestData` |
| `verity_verify_level` | `ReadHash`, `TestFlag`, `Compare`, `Entry`, `Take` |
| `verity_handle_err` | `Failed`, `Fail`, `Load`, `Store`, `Resolve`: the counter is loaded and stored in two steps, since two workers may be there |
| `verity_prefetch_io`, and dm-bufio below | `Prefetch`, `Evict` |

A worker is an `io` record with a control point
`pc`, the block `b` and the `level` it is at, the digest it compares with (`want`), and
`skip`, which is set on the shortcut to level 0. In `VerityTarget`, `table` says what the user
may write into a target's table and what sizes the hash device may have; a behaviour is of one of
`Tables`. `Verity` puts the workers and the target side by side for TLC and for the proofs, which
are in `DmVerity_proofs`, and states `TablesAssumption`.

A digest is the block it is of: collisions are left out, and so is what a hash function
computes. A forged hash block holds digests of forged blocks (`Below`), so that a
whole false subtree exists, which only the comparison with the level above exposes.

### myusb

A step of `UsbSkel` ends where another thread may come between: under `err_lock` never,
under `io_mutex` yes, because callbacks and writers go on there. `pc[p]` is where a
process is in `skel_open` ... `skel_write`, `hub` where the USB core's thread is in
`skel_probe`, `skel_suspend`, `skel_pre_reset`, `skel_disconnect`. `Probe*`, `Open*`,
`Read*`, `Write*`, `Flush*`, `Disconnect*`, `Suspend`, `Resume`, `PreReset`, `PostReset`
are the parts of the functions of those names; `ReadDone`, `WriteDone` the callbacks with
every status; `KillRead`, `KillWrite` what `usb_kill_urb` and `usb_kill_anchored_urbs`
bring about. `given`, `taken` and `lost` are history: what
the device gave, the units reads returned to users, in that order, and those that went with a
URB that failed or with a `copy_to_user` that faulted, which the driver skips (393-400).
The proofs are in the first half of `Kernel_proofs`.

### The small programs

| module | the code | what a step is |
|---|---|---|
| `PcPipe` | `producer_consumer_1.c`, `_2.c` | `fork` (which may fail), each `close`, `read`, `write`, exit; `ends[q]` are the ends of the pipe a process has, `SIGPIPE` and end of file follow from them |
| `PcSemaphores` | `producer_consumer_3.c`, `_4.c` | each semaphore and mutex operation, each access to the stack and to its index, and the read of the number, which main passes in one variable for all |
| `PcCondition` | `producer_consumer_5.c` | each access to the queue, the indices and the condition, spurious wakeups included |
| `RwCounter` | `02_pthread_rwlock.c`, `_2.c` | test, lock, store, unlock, sleep, cancellation |
| `LightSemaphore` | `LightweightSemaphore`, `Semaphore` of `04_atomicops.h` | each access to `m_count` and `m_sema` |
| `MsgPair`, `MsgOnce` | `01_msg.cpp`, `ipc_mq.c` | each call on the queue; `SigInt` sends Ctrl-C to both at any time, each takes it in a step of its own (`Handler`) before it goes on; ids of queues are never used again |
| `Rio` | `rio_readn`, `rio_writen`, `rio_read`, `rio_readnb`, `rio_readlineb` | each `read` and `write`, which the kernel may cut, interrupt or fail; each copy out of `rio_buf` |
| `SelectServer` | `talk_server.c`, `text_server.c`, and what the clients do | `select`, one descriptor of the scan, `accept`, `recv`; a client's write, end, disappearance, reset |
| `Endpoint` | socket setup of eight programs, `open_clientfd`, `open_listenfd` | one call on the socket; a program is a list of calls and three facts on its error handling; `good` is the set of addresses bind and connect succeed for |
| `MsgPeek` | `msgpeek_server.c`, `msgpeek_client.c` | send, arrival of any part of the stream, peek, receive; `torn` is history: a message was taken before its payload had come whole |
| `CharDevices` | `chrdevbase.c`, `chrdevbase_dynamic.c`, `dev_test.c` | each kernel call of init and exit; open and release by a task |
| `DeferredWork` | `my_timer_module.c`, `my_tasklet_module.c` | load, callback in three parts, the parts of exit |
| `RamDisk` | `blkdev_test.c` | each resource of init; a segment of a request; the parts of exit |

`Warehouse`, `ByteStream` and `CountingSemaphore` are what these promise, in a few lines
each; the modules above implement them (`ImplementsWarehouse`, `ImplementsStream`,
`ImplementsSemaphore`).

`Threads` puts the programs of ch04 and ch08 side by side, `Sockets` those of ch03 and ch07,
and `KernelModules` the modules of ch10 and ch11 with the two parts of dm-bufio above: an
instance of each component, the CONSTANTS they need, and `SuiteAssumption` (in `Sockets`
`SocketsAssumption`), which is that each instance is `WellFormed`. A
module that is instantiated cannot have an ASSUME that TLC evaluates, so each component
defines what its constants owe it as `WellFormed`. `MCThreads`, `MCSockets` and `MCModules`
give the constants their values. How a program is used is a variable where it is
used in several ways: `ops` of `Rio` is what the reader calls (one of `Uses`: `rio_readn`
alone or the buffered calls, since mixing them on one descriptor loses what the buffer
has), and `setup` of `SelectServer` is which of the two servers it is, who its clients are, the limit, and
whether the clients may vanish, be reset, or wait for the server (one of `Setups`). The proofs are in `Programs_proofs` and `Kernel_proofs`; what a
pipe and a stack are good for is proved apart, in `PcPipe_proofs` and `PcSemaphores_proofs`, for
each of which there are two programs.

## 3. What TLC checks

| run | module | what is in it | properties |
|---|---|---|---|
| `calls` | `MCDmBufio` | scenarios `writers`, `sharers`, `flushers`, `movers`, `destroyers` | `IInv`, `ListsMatchBits`, `ActivityHasOwner`, `CacheCoherent`, `InflightExclusive`, `ReserveAccounted`, `SyncTruthful`, `ImplementsCache` |
| `cache` | `MCDmBufio` | scenarios `readers`, `shrinkers` | `HoldsAccounted`, `OneBufferPerBlock`, `QuietWhenUnlinked`, `NoLostWakeup`, `AgeRetains` |
| `live` | `MCDmBufio` | scenario `dirtiers`, under fairness | `EveryCallReturns` |
| `scan_retain` | `MCDmBufio` | scenario `shrinkers` | `ScanRetains`: violated |
| `clients` | `MCDmBufioClients` | scenarios `resizing`, `aging` | `ClientsInv`, `SharesFit`, `NoUseAfterFree`, `SizeFollowed` |
| `lock_order` | `MCDmBufioClients` | scenario `both` | `NoLockCycle`: violated |
| `verity` | `MCVerity` | three instances of `DmVerity`; `VerityTarget` with two of `Tables` | `OnlyVerified`, `Reported`, `Released`, `Placed`, `BiosEnd` |
| `usb` | `MCUsb` | three instances of `UsbSkel` | `Accounted`, `NothingAfterDisconnect`, `UnitsInOrder`, `CallsEnd` |
| `buffer` | `UsbSkel` | two writers | `OwnBuffer`: violated |
| `threads` | `MCThreads` | nine programs of ch04 and ch08 | `Agree`, `ImplementsSemaphore`, `Warehouses`, `SharedKept`, `QueuesServe`, `AllEnd` |
| `sockets` | `MCSockets` | the programs of ch03 and ch07: two uses of Rio, four setups of the servers, ten programs that get a socket, the peeking server | `Arrives`, `Descriptors`, `AllServed` |
| `modules` | `MCModules` | three modules of ch10 and ch11; ageing and memory of dm-bufio | `NothingDangles`, `MemoryAccounted`, `AgesRight`, `ModulesGo` |

**One program at a time.** A behaviour of `MCVerity`, `MCUsb`, `MCThreads`, `MCSockets`
and `MCModules` is one of *one* of the instances in it: `program` (`example` in `Sockets`) is chosen in the
initial state and never changes, `SuiteNext` is the step of that instance, and the others
stay at their initial state (`Threads`, `Sockets` and `KernelModules` define this for
`MCThreads`, `MCSockets` and `MCModules`, the other two do it themselves). The states are so the sum, not the product, of those of the
instances, and nothing is lost, since the programs have nothing in common. A property of
such a suite is a conjunction over the instances it applies to; fairness is stated there
too.

The scenarios of `MCDmBufio` and `MCDmBufioClients`, the three instances of `MCUsb` and the
three of the workers in `MCVerity` are of one module: they share its variables and differ
in the constants of the steps (who may call what, what may fail, how much of it), and
`scenario` or `program` says which. The properties are those of the module itself, and
the theorems of section 4 name the same definitions.

### dm-bufio

* `IInv`: the inductive invariant of section 4, every part of it, in the five scenarios
  with the most kinds of steps.
* `OneBufferPerBlock`: the lock is dropped between the lookup and the insertion;
  the second `__find` is what keeps the index one-to-one.
* `QuietWhenUnlinked`, `ActivityHasOwner`: a buffer leaves the cache only when no
  request on it is in flight or promised by somebody's write list, and a state bit
  always has somebody who will clear it (the `BUG_ON`s of the two endio routines).
* `ListsMatchBits`: the `BUG_ON`s of the list walks. `dm_bufio_release_move` sets
  `B_WRITING` on a buffer that stays on the clean list, but only while it keeps the
  lock; the property says so.
* `HoldsAccounted`: `hold_count` is the number of clients plus the number of
  flushers that wait for the buffer without the lock.
* `CacheCoherent`: what the cache hands out is the last content any client gave the
  block, through evictions, re-reads, moves and writes in flight.
* `SyncTruthful` (action property): at the step where `write_dirty_buffers`
  returns 0, what was current at the call is durable, or its write error was taken
  by another flusher. The second part is the code's: there is one
  `async_write_error` per client and `xchg` takes it. `flushers` has two flushers for
  that reason.
* `ImplementsCache` (refinement): every step is one of `BlockCache` or changes nothing
  there. A client that asked for a block gets that block, with the content that was last
  given to it; the writes of a block end in the order its contents were made, although
  they are submitted by whoever makes room; a mover's block is in nobody's hands when it
  takes its new content; after `dm_bufio_client_destroy` everything is in the device that
  no failed write has taken.
* `InflightExclusive`: no two requests for one block at a time, so the device
  cannot reorder them.
* `NoLostWakeup`: a sleeper on `free_buffer_wait` that wants memory sleeps only while the
  reserve is empty and every buffer is held (`AllHeld`), one that moves its buffer onto a
  cached block only while somebody holds another buffer than its own (`OtherHeld`), or
  else a flush, which ends with a `wake_up`, is past the point where it gives its
  buffers back (`WillWake`). A mover may so be woken late, when the buffer it waits for is
  given back but by the last of several holders, and two movers may wait for each
  other's buffer: both are the code's.
* `ReserveAccounted`, `DestroyLosesNothing`: reserve plus debt is constant, at the
  end the debt is 0 and every buffer is free, and the device has all content.
* `AgeRetains` (action property): the age worker evicts nothing once the cache is down to
  the retain target.
* `EveryCallReturns`: the flush ends although another thread dirties and writes
  buffers for ever; with the bound on buffers walked taken out TLC finds the
  livelock the comment at line 1278 speaks of.
* `SharesFit`: outside of `dm_bufio_clients_lock` the share is the latch divided by
  the number of clients on the list, and a parameter of 0 never stays in the latch.
* `NoUseAfterFree`: nobody is inside a client that is freed, and the age worker has
  none on the way.
* `SizeFollowed` (action property): a call that inserts a block takes its limit from
  a value the parameter had during the call, although parameter and latch are
  compared without the lock, unless another thread is just changing the shares.
* `AgesRight`: the worker evicts nothing younger than the clamped age
  (`NotTooYoung`), and a pass that was not ended by the retain target leaves no old
  buffer but those it had to skip because they were held (`NoOldLeft`): the list is in
  the order of access times because `__relink_lru` and `last_accessed` go together.
* `MemoryAccounted`: the counters are what the allocators gave out; a buffer goes back
  to the allocator its mode names, not the one its size suggests; two clients of one
  size make one slab cache; whatever fails, a constructor that returns an error has
  kept nothing; the reserve is complete again when the client is destroyed.

### dm-verity

* `OnlyVerified`: a `dm_buffer` is held exactly by the workers between `dm_bufio_read` and
  `dm_bufio_release`, on every path (`HoldsMatch`); the digest a worker compares with is that
  of the block it is at, the good one unless mismatches are ignored and one was met
  (`WantsRight`); a buffer with `hash_verified` is good, though it was read, flagged,
  evicted and read again by any worker or the prefetch, and digests are taken from no
  other (`VerifiedGood`); no bio ends well with other content (`DeliveredGood`).
* `Reported`: logging lets wrong blocks through, and then `hash_failed` says so
  ("Corruption should be visible in device status in all modes"); a device nobody
  tampered with never fails; and *two* workers take the error counter, which they test and
  increment without a lock, one beyond its limit at most (`ErrsBounded`). With three it is
  otherwise: see the disagreements below.
* `Released`: types, and the order of `verity_dtr`: no bio is under way, the workqueue is
  drained before the cache goes, and no path has kept a buffer.
* `Placed`: levels have their own blocks one after the other from `hash_start`,
  digests do not overlap in either version of the format, `verity_map` lets pass what
  fits, the blocks it lets pass have their hashes on the hash device up to the root
  (`PathsSound`), and a prefetch range holds the blocks the bio needs and ends inside the
  tree; and `verity_dtr` frees exactly what was taken, at each of the places where `verity_ctr` can
  fail (`NothingLeaks`).
* `BiosEnd`: whatever is evicted under it, a bio is completed, or the machine restarts.

### myusb

* `Accounted`: `io_mutex` is held by exactly the threads between its lock and its unlock;
  free slots of `limit_sem` plus writers on the way plus URBs in flight are the limit on
  every path; the count of the device is that of its files and the interface; while the
  read URB is in flight `ongoing_read` is set and nobody fills it again; what a reader
  found out under `io_mutex` (connected, the URB over, the buffer empty) stays so until
  it unlocks; and how far the hub thread has got says what is registered and in flight.
* `NothingAfterDisconnect`: a writer that had passed its checks either sees
  `disconnected` or its URB is killed; no one is inside `usb_skel` after the last
  `kref_put`. One case is exempt, because the code is wrong there: a probe that gets no
  DMA memory gives the device up and leaves its minor registered (`LeftBehind`).
* `UnitsInOrder`: the units users had are those of the device, in order and each once; one they
  did not have waits in the buffer, or it came with a URB that failed or was in a chunk whose
  `copy_to_user` faulted: none is written over by a fill that came too early.
* `CallsEnd`: `skel_disconnect` ends and everybody comes out of the driver, although a
  reader waits for its URB with `io_mutex` held.

### Small programs and modules

* `Warehouses`: each of the five producer-consumer programs implements `Warehouse`.
* `SharedKept`: with any subset of forks failing, consumers stay to the end of the pipe;
  the queue of the condition variable is handed over in order; with three writers no
  count is lost and the counter passes the limit by at most two.
* `Agree`, `ImplementsSemaphore`: the count and the kernel's semaphore of
  `LightweightSemaphore` agree in every state, and a wait that returns false took
  nothing, whatever the timeout races with.
* `QueuesServe`: an instance of `ipc_mq.c` that waits has a line to wait for, or loses
  the queue; lines are read once; a queue is left only by instances without input;
  `01_msg.cpp` leaves none but the queue 0.
* `AllEnd`: they all end, each in the sense its module gives. Two things may keep one from it,
  and the properties say exactly when: the main thread of the counter misses the limit
  (`Missed`), and the receiver of `01_msg.cpp` waits on a queue nobody will remove
  (`LeftWaiting`).
* `Arrives`: Rio is a stream; short counts mean the end; lines are whole; messages that
  were peeked at stay apart until one is torn (`Framed`); a client that waits after each message has all printed.
* `Descriptors`: the descriptor sets stay within what the limit allows; no program ends
  with a socket it has forgotten (the two of `posix.c`, which forget it when a later call
  fails, are exempt: `closes` is FALSE for them).
* `AllServed`: Rio calls return, the servers receive all that was sent to them by
  clients that stay, every program has its socket or gives up (but for `Stuck`: a client that
  tries one connect for ever), all messages are counted if none was torn.
* `NothingDangles`: a device number or open file leads to a loaded driver; a removed
  driver leaves no class, node or tasklet; requests are served from memory that is there.
  Where an error path of the code forgets something, the property says what
  (`chrdevbase_dynamic.c` class and node, `blkdev_test.c` the request queue).
* `ModulesGo`: callbacks come as often as they were asked for, and `rmmod` returns.

### Bounds

*dm-bufio.* Two blocks and two or three buffers are enough for every case of the
code: found and not found, the cache over its limit (`Limits`), no buffer to take
(all held), two buffers on a list in either order, a move onto a cached block, a
reserve that is lent out. `MaxGen` bounds the generations that are told apart; the
last stands for all later ones, so content that is stale by more than `MaxGen`
changes looks current: up to 3 where a block is dirtied again during its write
(`writers`, `sharers`; the first generation is what the device has at the start).
`ScanSizes` includes sizes above and below the size of the cache. In `flushers` the
calls name block 0 only (`Only`): its question is who gets an error, not which block.
The buffers are interchangeable (`SymBuffers`) except in the liveness run, where
symmetry would be unsound. Threads have different roles and are not symmetric.
Two clients are enough for a share to be divided, for the age worker to go on from one
client to the next, and for one to come while the other goes; the sizes are 0 (the
default is taken), 6, and the default 4, all divided differently by 1 and 2.
In `BufferAge` `HZ` is 2, `jiffies` has 32 values and wraps at time 2, an unsigned int has
four, so that an age of 2 seconds does not fit and is clamped; `MaxNow` 4 lets a buffer get
old. In `BufioMemory` the sizes 1, 4 and 16 are for the three allocators.

*dm-verity.* Two levels over three blocks are the least with a flag at an inner node and
two data blocks under different hash blocks. Two workers with one block each (`Shared`)
meet at every flag; one with two blocks (`Long`) goes on from one path to the next; a
device of one block has no tree (`Bare`, all modes, all contents), and there the limit of
errors is 2, so that the counter can be short of it, at it and beyond. In `VerityTarget`
sectors have 2 bytes, pages 8, and `sector_t` 8 bits, so that every check for overflow is
met; `SmallCounts` go around each power of two. `AllTables` takes every way through
`verity_ctr`, `FewTables` every bio that `verity_map` may be asked for. A shift by the full
width, which the code computes for the largest counts and which C leaves undefined, is
wrapped as x86 does; the tables keep to counts for which there is none (`ShiftsFit`).

*myusb.* Two processes and two URBs. `Calling` has two calls of each, with units of size 1;
`Reads` one call of each, with a buffer of two units and a reset; `Short` one call of each,
a probe that may get no DMA memory, and every end: there each call must return.

*Others.* Two producers and consumers and a store of two places: full, empty, and two who
race for either. Rounds are 2 or 3, but for `producer_consumer_1.c`, whose 8 goods are all there;
of the 50000 goods of `producer_consumer_5.c` 24 are kept, more than twice the 10 the
producer may be ahead. The counter has three writers of the four, and a limit of 2, so that it
may meet the limit, or pass it by one or two. `FirstIds` is {0, 1}: the queue a system has
first, and any other. Of three addresses the first and the last, the last two or none are
good (`SomeGood`). Streams of 4 to 6 bytes with buffers of 2 are cut at
every place, and so is the stream of the peeking server; what that takes for the length of
a payload, once it looks at something else, is between 0 and twice the true one. `MaxSignals`, `MaxErrors`, `MaxInterrupts` and `Faults` bound how often the
environment interferes. `Crowd` in `MCSockets` has more clients than the limit.

### Fairness

`live`: `SF(Continue(t))`: a thread in a call is scheduled and the kernel's mutex hands
the lock to its waiters, so a step that is possible again and again is taken.
`SF(ReleaseRef(t))`: a client gives back, in the end, what it holds. `WF` on the ends of
I/O: the device answers. Nothing makes a thread start a call. The run has a buffer
in reserve for the one thread that holds a buffer: a client that holds more buffers than
there is memory for waits for itself, which dm-bufio leaves to its callers
(`reserved_buffers`). `dm_bufio_release_move` is left out: two threads that move their
buffers onto each other's block wait for each other, which the code leaves to its
callers too.

The MC modules state theirs at `Fairness`. Weak fairness of a process, thread or callback
is the scheduler's; strong fairness is asked only of taking a mutex or lock, where the
kernel and glibc queue their waiters or a lock is free again and again: `WriteLock` and
`DisconnectFlag` of `UsbSkel`, the two locks of `PcCondition`, `WrLock` of each
writer of `RwCounter`, and calls on clients in `BufioMemory`. Clients of servers, users
who load modules and processes that open files owe nothing. A plugged-in device need
not answer; the end of its URBs is fair only after it was unplugged.

The runs of the suites have `CHECK_DEADLOCK FALSE` because the programs end. Deadlock is
checked in all runs of `MCDmBufio` and `MCDmBufioClients`.

### Where the code and its documents disagree

Three runs end in a counterexample.

* **Lock order** (`lock_order`). `__get_memory_limit` takes `dm_bufio_clients_lock` inside
  `c->lock` (`dm-bufio.c:918`), the age worker takes `c->lock` inside
  `dm_bufio_clients_lock` (1782 and 1758). After the user has written the parameter a
  thread that inserts a block and the age worker wait for each other. In `clients`
  deadlock is checked, with either of the two alone, and there is none.
* **Retain target** (`scan_retain`). `ScanRetains` asks of the shrinker what
  `retain_bytes` promises ("Try to keep at least this many bytes cached in memory",
  line 1908) and what the age worker does. `__scan` starts its count at `nr_to_scan`
  (1528) and not at the size of the cache, so it evicts below the target, and a scan
  of few buffers stops early whatever the cache holds.
* **One buffer for all writers** (`buffer`). "create a urb, and a buffer for it, and copy
  the data to the urb" (`myusb.c:489`): all URBs share `dev->dma_buf`, and a second write
  replaces the data of the first in flight.

Others were met while modelling. The models do what the code does there, and each can be
seen in the model, but no run is kept for them:

* `dm-bufio.c:42` "Free buffers when they are older than this (seconds)": where a long has
  32 bits an age of 2^31 jiffies or more, to which the clamp of 1739 leads too, makes
  `time_before` answer for the past: buffers are evicted at once, and one that was idle
  for 2^31 jiffies looks young. `BufferAge` has a long in which the ages fit.
* `dm-verity.c:75` "Number of errors for corrupted blocks": it is incremented without a lock
  (208), so that two workers may count one error for two blocks. And the test of the limit there is no
  bound on what is counted, as soon as there are three workers: one that loaded the counter early and stores it late puts it back below the
  limit, the test lets others in again, and this may repeat. With three workers and a
  limit of 2 TLC reaches 5. `ErrsBounded` is about two workers for that reason.
* `myusb.c:629` "we can register the device now, as it is ready": the DMA buffer is allocated
  afterwards, and when that fails the device is freed but stays registered, so that
  `skel_open` finds freed memory. 667 "prevent more I/O from starting": a writer that is
  not yet at `io_mutex` copies into the DMA buffer while `skel_disconnect` frees it.
  359 and 480 "any error is reported once": `skel_read` looks at `dev->errors` without
  `err_lock`, so that a writer or `skel_flush` may report the same error, and 482 "to
  preserve notifications about reset": the reader clears an `-EPIPE` that came meanwhile.
* `talk_server.c:189` handles a client that is gone by `nr == 0`, which 179 has taken away:
  its descriptor is watched, and readable, for ever. 177 "recv failed, but continue": a
  connection that was reset makes `getpeername` (167) fail, which ends the server.
* `text_server.c:18` says that a descriptor must be cleared after its text, "or the server
  cannot print the texts of later clients, for reasons unknown". The model shows one:
  the `break` of 169 leaves the scan, and leaves the descriptor of a client that is gone
  readable, so that descriptors above it are not looked at any more.
* `text_client.c:61` and `talk_client.c:73` "try every address until connect succeeds": the
  `continue` of the first (78) is that of the inner loop, which goes on for ever with the
  descriptor it has closed; the second (`goto retry`, 90) starts again at the first
  address, and never gets to another one if that is refused each time (`Stuck`).
* `01_socket/README.md:14`, "peek at the header, then take data of that length": when the
  stream is cut inside a payload, the second `recv` (`msgpeek_server.c:125`) returns what there
  is, the message is not counted, and the rest of it is taken for a header. In `MsgPeek` the
  stream may be cut there; `Framed` and `Counted` hold until it happens (`torn`). That a wrong
  length may be more than `dbuf` has room for is left out.
* `02_pthread_rwlock_2.c:16` tests the limit before the lock is taken, and main waits for the
  counter to be equal to it (77): when several writers pass the test together, the counter
  jumps over the limit, and main waits for ever (`Missed`).
* `chrdevbase.c:110` "0 success, others failure": init returns 0 when `register_chrdev`
  failed. 74 "prints the data of user space": a text that is shorter than the last is
  printed with the rest of it. `ch11/07_设备号.md:43`, the number must be released after the
  device: neither of the two drivers with an allocated number does.
* `my_timer_module.c:38` deletes the timer: `del_timer` does not wait for a callback that
  runs, and the timer it starts again is pending in a module that is gone.
* `blkdev_test.c:137` prints a capacity the disk does not have when the size in bytes does
  not fit in an `int`.
* `producer_consumer_4.c:24` "get the producer's number": it is read from the one variable
  main goes on changing (87), so that two may have one number.
* `02_pthread_rwlock_2.c:90`: the lock is destroyed though cancelled threads may hold it.
* `04_atomicops.h:636` lets `signal(0)` pass, which nobody calls and which would wake a
  sleeper for nothing; the theorems of `Programs_proofs` suppose a unit at least.
* `01_mq.cpp` receives into 63 bytes (`sizeof(rbuf) - 1`) messages that may have 64, and
  fails with `EMSGSIZE` before it has any. `sigdaemon.cpp` tests a failed `fork` for
  being nonzero before it tests it for being negative, and exits with 0. `01_msg.cpp:46`
  and 64 do not remove a queue whose id is 0, which is what Linux gives to the first one:
  it stays when both have ended, and a receiver that tested the flag just before Ctrl-C
  waits on it for ever (`QueueRemoved` and `LeftWaiting` of `MsgPair`).

Two things the code leaves open, and the properties with it: with as many waiters as
reserved buffers one waiter may be passed over again and again (`dm-bufio.c:852`), and who
finds a block whose prefetch failed gets the error of that time until the buffer is
dropped (`dm-bufio.c:1078`).

## 4. What is proved

For any sets of threads, buffers and blocks, and any `Calls` (the named ASSUMEs of
`DmBufio`: finite sets, a reserve of at least one buffer that fits in memory, block
numbers are naturals, the placeholders are none of the values they stand in for):

| theorem (`DmBufio_proofs`) | statement | in words |
|---|---|---|
| `Invariant` | `Spec => []IInv` | the inductive invariant |
| `TypeCorrect` | `Spec => []TypeOK` | hold counts and the debt to the reserve are never negative |
| `MutualExclusion` | `Spec => []LockOwner` | the lock has one owner, which is between lock and unlock |
| `OneBuffer` | `Spec => []OneBufferPerBlock` | the index is one-to-one |
| `References` | `Spec => []HoldsAccounted` | `hold_count` is the number of holders |
| `ListsAgree` | `Spec => []ListsMatchBits` | lists and state bits agree |
| `BitsAreOwned` | `Spec => []ActivityHasOwner` | somebody answers for each bit |
| `OneRequest` | `Spec => []InflightExclusive` | no two requests for a block |
| `FreeIsQuiet` | `Spec => []QuietWhenUnlinked` | what leaves the index is quiet |
| `ReservePaidBack` | `Spec => []ReserveAccounted` | reserve and debt add up, at the end it is paid back |
| `SleepersWoken` | `Spec => []NoLostWakeup` | nobody sleeps for nothing |
| `AgeingStops` | `Spec => AgeRetains` | ageing stops at the retain target |
| `Coherence` | `Spec => []CacheCoherent` | the cache hands out the newest content |
| `NothingLost` | `Spec => []DestroyLosesNothing` | the device has it at the end |
| `FlushKeepsItsWord` | `Spec => SyncTruthful` | a flush that returns 0 tells the truth |
| `MappingHolds` | `Spec => []CacheMapInv` | what the refinement needs besides `IInv` |
| `CacheRefines` | `Spec => ImplementsCache` | dm-bufio implements a write-back cache |

For any sets of threads and clients and any sizes (the ASSUMEs of `DmBufioClients`):

| theorem (`DmBufioClients_proofs`) | statement |
|---|---|
| `ClientsInvariant` | `Spec => []ClientsInv` |
| `ClientsTyped` | `Spec => []TypeOK` |
| `Shares` | `Spec => []SharesFit` |
| `NoUse` | `Spec => []NoUseAfterFree` |
| `Followed` | `Spec => SizeFollowed` |

For any number of workers, any tree, any bios, modes, contents, prefetches and limit (the
ASSUMEs of `DmVerity`; `PathAssumption` and `RootAssumption` are what the arithmetic of
`verity_ctr` owes the workers: the hash blocks of a path are on the hash device and the
highest level is the one block the root digest is of. `PathsSound`, in `Placed` below, is the
same said of the trees that `verity_ctr` accepts):

| theorem (`DmVerity_proofs`) | statement | in words |
|---|---|---|
| `VerityOnlyVerified` | `Spec => []OnlyVerified` | nothing is delivered that the root does not vouch for |
| `VerityReported` | `Spec => []Reported` | what is let through is told, and nothing else is |
| `VerityReleased` | `Spec => []Released` | types; nothing is left when the target is gone |

For any width of `sector_t`, any size of sectors, blocks and digests, any counts, starts, lengths
and values of `prefetch_cluster` (`WidthAssumption`, `TablesAssumption`):

| theorem (`DmVerity_proofs`) | statement | in words |
|---|---|---|
| `TreesPlaced` | `Target!Spec => []Placed` | the tree of a target that is up has its levels side by side, each with the blocks it needs and all under one root; what is let through has its hashes there; nothing leaks |

`TablesAssumption` asks that the numbers of a table fit a `sector_t`, that digests have a byte or
more and that a sector is no longer than a logical block (the block layer's own rule). Its
`ShiftsFit` is the one thing `verity_ctr` needs and does not check: for the number of data blocks
written in the table, the loop that counts the levels ends before its shift count reaches the
width, and what the next loop adds before it shifts does not overflow. With a width of 64
this is so for up to 2^63 data blocks if a hash block holds 128 digests, and for up to 2^56 if it
holds 256; a device with 63-bit byte offsets has 2^54 of the smallest blocks.

For any finite set of processes, any number of calls, URBs, units and resets
(`UsbAssumption`):

| theorem (`Kernel_proofs`) | statement | in words |
|---|---|---|
| `UsbAccounted` | `Spec => []Accounted` | mutex, slots, URBs and references, as in section 3 |
| `NothingLeft` | `Spec => []NothingAfterDisconnect` | no URB and no user of a device that is gone |
| `UnitsHadOnce` | `Spec => []UnitsInOrder` | users get units in order and once, and lack none but those of a URB that failed or a copy that faulted |

For any finite set of producers and any bound on the count (`SemaphoreAssumption`):

| theorem (`Programs_proofs`) | statement |
|---|---|
| `SemaphoreAgrees` | `Fewest > 0 => (Spec => []Agree)` |
| `SemaphoreRefines` | `Fewest > 0 => (Spec => ImplementsSemaphore)` |

For any values of the constants of `Threads`: goods, rounds, room, threads, limits, instances,
the order of the forks and which children write (`SuiteAssumption`: finite sets, numbers that
are naturals, no process twice among the children, at least one pair and a limit of at least 1):

| theorem | statement | in words |
|---|---|---|
| `ThreadsShare` | `Fewest > 0 => (SuiteSpec => []SharedKept)` | counts of the semaphores, ends of the pipe, order of the queue, no count lost under the lock |
| `LinesHad` | `Fewest > 0 => (SuiteSpec => []QueuesServe)` | a line is had once, who waits has one to wait for, the queue is removed unless its id is 0 |
| `GoodsHadOnce` | `Fewest > 0 => (SuiteSpec => Warehouses)` | all five implement `Warehouse` |
| `PipeRefines` (`PcPipe_proofs`) | `WellFormed => (Spec => ImplementsWarehouse)` | a pipe between forked processes is a warehouse |
| `StackRefines` (`PcSemaphores_proofs`) | `WellFormed => (Spec => ImplementsWarehouse)` | so is a stack with two semaphores and a mutex |

`Fewest` is the least a `signal` of the lightweight semaphore may bring; the semaphore is one
of the programs of the suite, and with `signal(0)` not even its types are kept.

For any values of the constants of `Sockets` (`SocketsAssumption`: a message of at least one
byte, writes and calls that ask for at least one; a reader calls `rio_readn` alone or the
buffered calls; finitely many clients, limits that are naturals; a header and a payload of at
least one unit):

| theorem (`Programs_proofs`) | statement | in words |
|---|---|---|
| `DescriptorsKept` | `SocketsSpec => []Descriptors` | what the servers watch stays within the limit, no socket is forgotten |
| `SentArrives` | `SocketsSpec => Arrives` | Rio is a stream with whole lines, peeked messages stay apart until one is torn, what waiting clients sent is printed |

For any values of the constants of `KernelModules` (`SuiteAssumption`: the two kinds of drivers
and of deferred work are disjoint, sizes of disks are integers and a C `int` has at least
one value, the finite sets and naturals the rest is, and for the clock
`UIntMax + MaxNow < ULongSize \div 2`: the longest age there is and the time the behaviour
takes fit in half of a `long`, which is what `time_after_eq` asks for):

| theorem (`Kernel_proofs`) | statement | in words |
|---|---|---|
| `KernelSound` | `SuiteSpec => []NothingDangles` | numbers lead to drivers that are in, no tasklet outlives its module, requests find their memory |
| `MemoryHolds` | `SuiteSpec => []MemoryAccounted` | counters are exact, one cache for a size, what is gone keeps nothing |
| `BuffersAge` | `SuiteSpec => AgesRight` | no buffer goes too early, no old one is passed over, through a wrap of `jiffies` |

### dm-bufio

None of the properties of `DmBufio` is inductive by itself. `IInv` is, and it has layers;
the proof that a step keeps a layer uses the layers before it.

* `ThreadsInv` (`DmBufioLayers_proofs`): about `pc`, `loc` and `lock` only. What a thread at
  a control point carries with it (`ThreadOK`), and who has the lock.
* `CacheInv` (`DmBufioLayers_proofs`): the index and the counts. That the index stays
  one-to-one depends on what the inserting thread knows since its second lookup
  (`Vacant`), which survives because no other thread links a buffer without the lock;
  a move knows the same of its block. Hold counts are exact because a buffer is unheld
  when it is unlinked (`Victim`) and list walks only see linked buffers (`Walking`).
  These are interests of the thread that holds the lock (`LockHolderOK`), so that the
  others' steps need no look at them. The counting is a few lemmas on cardinalities
  of sets of holders.
* `BitsInv` (`DmBufioLayers_proofs`): a bit whose request is not in flight is the promise of
  exactly one thread to submit it (`Promised`, `Promises`, `PromisedOnce`). Since
  interrupts clear a bit with its request, and the walks only take quiet buffers,
  evicted buffers have none. `ListsMatchBits`, `ActivityHasOwner` and
  `QuietWhenUnlinked` follow; `InflightExclusive` follows from the requests having the
  block of their buffer and from the index being one-to-one.
* `OrderInv`, `LifeInv`, `ReserveInv`, `SeekInv`, `WakeInv`, `AgeInv` (`DmBufioLayers_proofs`).
  The lists are in order; who is inside a client that is being destroyed; what the reserve
  is short of is out and so will come back; a mover looks for a block its buffer does not
  have, even while another holder lends that buffer (`SeekInv`: that is why the buffer it
  finds is not its own); `NoLostWakeup` needs that each release of a last reference and
  each buffer put back wakes everybody, and that a walk that gives up references in
  silence belongs to a flush that wakes at its end.
* `ContentInv` (`DmBufio_proofs`): a dirty buffer has the newest content, a write in flight
  carries it unless the buffer was dirtied again, and a block nobody has to write is newest
  on the device (`DeviceInv`). A buffer a move has lent to another block is the exception
  everywhere (`Lent`), and `Keeping` says that it comes back as it was.
* `FlushInv`, `Syncing` (`DmBufio_proofs`): for content that was newest at the call of
  `dm_bufio_write_dirty_buffers`, either the device has it (or its error is recorded) and
  nothing older can come (`Reached`), or a write that is not older is on the way
  (`Leaving`), or the buffer is among those the walk has yet to see. The walk restarts
  whenever it dropped the lock, and what it counts on is only this.

TLC checks `IInv` in the run `calls`, with each of its parts.

**The refinement** (the second half of `DmBufio_proofs`). The invariant says what is true of each state;
`CacheRefines` says that each *step* is one a client of a write-back cache could explain.
It needs `IInv` and `CacheMapInv`, which has three parts:

* `CallInv`: which call a thread can be in at a control point. `IInv` did not need it; here
  it decides whether a step has its effect for a client.
* `WritesInOrder`: a write in flight is not older than what the device has of its block and
  not newer than `latest`. That a write which ends never takes a block back is due to
  `InflightExclusive`, to the wait for `B_WRITING` before each new write (`WriteOver`), and to
  a buffer being clean when its block leaves it: so a write that starts carries the newest
  content (`WritesSubmit`, from `ContentInv`).
* `Served`: between the lookup and the end of the wait for `B_READING` the buffer stays the
  one of the block asked for. The reference keeps it from being evicted and, for other
  blocks, from being moved (`MoveRelink` needs the only reference).

The proof has one lemma per kind of step. Most steps are silent: the call and the hand of
their thread stay (`Unseen`, for which control points are enough) and so does the content of
the buffers in hands (`Unaltered`). The others (`WaitReadMaps`, `MarkDirtyMaps`,
`OverwriteMaps`, `MoveRelinkMaps`, `MoveCopiedStep`, `ReleaseRefMaps`, `SyncMaps`, `TakeErrorMaps`,
`IssueFlushMaps`, `WriteDoneStep`, `UnregisterMaps`) each name the step of `BlockCache` they are,
and its guard is where the layers of `IInv` come in: `Sound` from `ContentInv`, `FlushSucceeds`
from `FlushInv`, `Destroy` from `LifeInv` and `DeviceInv`, `HandedOut(k) = {}` of a move from what is held
being linked. A buffer shared by several clients changes in all their hands at once (`Share`),
which is why a change by one is a step of `BlockCache` about all.

TLC checks `ImplementsCache` in the run `calls`.

### All clients

`LifeInv` says which thread holds which lock, and what a thread at
a control point knows of its client: a client on the way in or out has one thread
that brings it there (`OneKeeper`), a walk of the age worker stays on the list, which
nobody changes meanwhile (`LockOwner`), a scan stays on a registered shrinker. From
that, freeing meets nobody. `SizeInv` is on top of it: the latch is 0 only between
`Latch` and `Default`, the share fits the latch outside of a refresh, and a call that
found the latch equal to the parameter (`FollowOK`) has them equal still, up to the
default for 0, but for a write by the user and for a refresh that has not read the
parameter yet. The lemmas `QuietLife` and `QuietSize` settle the steps that leave the
clients, or the numbers, alone; the rest is one lemma per action.

### dm-verity

`Inv == OnlyVerified /\ Reported /\ Released` is inductive; TLC checks the three in the run
`verity`. No part is, on its own:

* `HoldsMatch` is stated for each block and each worker, so that a step changes it at one
  place. It keeps a held buffer from being evicted and read again with other content
  between the comparison, the flag and the taking of the digest.
* `WantsRight`: `want` is a digest of the block at hand for every level of a path down from
  the root, and after the shortcut to level 0 it is only used when it was
  taken from a verified buffer; what a failed shortcut leaves in it is
  replaced by the root digest (`RootIsRight`, from `RootAssumption`).
* `VerifiedGood`: the flag is set where the digest matched, and digests name their content
  (collisions are left out), so it is good whenever `want` was. Two workers may both set it;
  a fresh buffer does not have it.
* All of it is under `Trusted`: in logging mode, once a mismatch was passed over, nothing is
  promised but that `hash_failed` is 1, which `CorruptionVisible` keeps. `StillUntrusted`
  says that there is no way back.
* `NoFalseAlarm`: on a device nobody tampered with all content is good, so every comparison
  succeeds; this needs `WantsRight` too, since a digest of another block would not match.
* `ErrsBounded` counts the pairs of places two workers may be at between the test, the load
  and the store of the counter.

A step of a worker is first cut into what it does to the bio (`StepBio`), to the holders
(`StepHold`) and to what was passed (`StepPasses`); each part of the invariant is then proved
from these, and the actions themselves are not opened again.

For the target the invariant is `TargetInv`: what each field holds is what is allocated, place by
place (`TargetHolds`); what the checks up to here have established (`Checked`); and bios
come to a target that is up (`TargetBio`). It is `Checked` that makes the invariant inductive:
`Layout` needs that two digests fit a hash block, which was checked seven steps before.

The arithmetic is by induction, with one lemma for all of it: a set of natural numbers that is
not empty has a least one (`LeastNumber`). If something fails for some number, it does so for a
least one, and that contradicts the number before it.

* `TwoTo` is a recursive function: it exists (`PowersExist`) and is unique (`PowersAgree`), so its
  definition may be unfolded (`TwoToSays`), and shifts add up (`TwoToSum`).
* `FlsSays`, `LevelsSay` and `HashPositionSays` do the same for the highest bit, for the loop that
  counts the levels and for the one that places them.
* `LevelSizeSays`: the size of a level, rounded up by the code with an addition that might
  overflow, is the number of the last group of data blocks, and one.
* `Tree(v, f)` is what is left of it all when nothing overflowed (`NoOverflow`): level `i` goes from
  `f[i + 1]` to `f[i]`. `HashAtSays` and `HashAtAll`: with the block's number divided by what a
  hash block of the level covers, every block of the level is reached and no other.
* From there `LevelsInOrder` and `LevelUses` give `LayoutSound`; `SlotRoom` and `SideBySide`
  give `SlotsSound`; `BlockSectorsSay` and `MultipleSays` give `MapServes`; and
  `PathsSound` and `PrefetchSound` follow since a quotient never falls when the number grows.

### myusb

`Accounted` is inductive, and the other two follow with it. A reader alone with `io_mutex`
keeps what it found (`ReaderKnows`): only it fills the read URB in, and the callback, which
does not take the mutex, runs only while the URB is in flight. `ongoing_read` is set exactly
while the URB is in flight or about to be submitted by the reader that set it. A write
URB in flight belongs to a call that has returned (`UrbsReturned`), so that the next call of
the process makes a different one and the count of `limit_sem` goes by one. `Phases` is about
the hub thread: `disconnected` is set when `io_mutex` is free, after that no `r_submit` and
no `w_submit` finds the device connected, and so what `skel_disconnect` kills afterwards
is all there is. Each step outside `io_mutex` is a lemma on what it leaves alone.

### The semaphore

`Agree` relates the count, the semaphore under it and the place of the
consumer: `Debt` says that it has subtracted one from the count that it does not have yet,
`Owed` that by the count its unit was signalled, and then the unit is either in `m_sema` or
about to be posted by one producer. To be inductive it needs to know what the consumer has
seen of the count and how it waits (`AtPc`). Only the consumer subtracts, so what it has seen
stays. A signal that finds the count negative adds one poster, and the cardinality of the
set of posters follows (`SignalIInv`, `PostIInv`). With `Fewest = 0` it is false, which is the
remark on `signal(0)` above. For the refinement `avail` is the count with the consumer's
debt added back: `Subtract`, `Undo` and `Redo` then take nothing or stutter, and a wait that
returns true takes the unit that `Agree` says is there.

### The small programs

`SuiteInv` of `Programs_proofs` is the inductive invariant of each of the programs; a behaviour
is one of one program and the others stay, so each is proved alone and one lemma puts them
together.

* The pipe (`Inv` of `PcPipe_proofs`): who has which end at which place (`EndsOpen`), what is not
  forked has not run (`Unforked`), everything sold or in the pipe was written in a round that is
  over (`Written`). A consumer that has not seen the end has the reading end (`Reading`), a
  producer is killed only when every reader is gone before one was born (`Unread`), and the
  parent goes last (`Last`). End of file and `SIGPIPE` follow from the ends, so that
  `ConsumersStayToTheEnd` needs all of it, for every order of forks and every fork that fails.
* The stack (`Inv` of `PcSemaphores_proofs`): `Counts` says that product and warehouse add up to the
  slots less what is between the two semaphores, as cardinalities of the sets of threads at
  the places between; `Stacked` that what is below `idx` was stored, not sold, and there once,
  and what the thread inside the mutex is in the middle of.
* The queue (`QueueInv`): how far the producer and the consumer are (`Produced`, `Consumed`), and
  that what lies between them is filled in. The lag of ten, and not the condition, is what
  keeps the producer ahead (`QueueAhead`).
* The counter (`CounterInv`): `CounterCount` counts the writers that have passed the test and not
  stored yet (`Past`): each may pass the limit by one, and no others may any more.
* `ipc_mq.c` (`OnceInv`): as many lines in the queue as instances that wait for one
  (`OnceCount`, by cardinality), each line of one that has sent it. `01_msg.cpp` (`PairInv`): who owns the
  queue that is there (`PairOwned`), that ids only grow (`PairNewer`), and that when one was
  told to stop the other was too or had ended (`PairTold`), so that a queue made after the
  first was removed is removed by its maker. Once the queue 0 is there nothing more is said.

`Pipe1Same`, `Pipe2Same`, `StackSame` and `CloneSame` say that the step of the program in the suite is
the step the generic proof is about; the refinements of `Warehouse` carry over with it.

### The programs with sockets

`SocketsInv` of `Programs_proofs` has an invariant for each of the four.

* Rio (`PosixInv`): what was sent is what readers had, then the buffer, then the channel
  (`PosixBytes`), from which it follows that each copy out of either is the next part of the
  stream. A call that has not returned wants more and has met no newline
  (`PosixCall`), so that what it returns is as long as was asked, ends at a newline, or
  the stream has ended (`PosixReturn`). That `rio_writen` writes whole chunks
  (`WritesWhole`) is a fact about remainders, `ChunkMore`.
* The servers (`SelectInv`): `SelectWatch` says what is watched: the listening descriptor and
  one for each accepted client, all different, none above `maxfd`. The kernel gives the lowest number that is
  free, which exists because the clients are finite (`FreeOne`, by the pigeonhole
  principle), and `select` tests the greatest one (`GreatestOne`) before it accepts, so the
  limit can be passed by one and no more. `SelectShown` is about clients that wait: one
  message at most is under way, after those that were printed.
* Getting a socket (`SocketInv`): a program that closes what it opened has no socket before its first call
  and at most the one it works on after it, whichever call fails.
* The peeking server (`FramingInv`): `Messages` says that what was sent and not taken is a row of whole
  messages, wherever it is cut; so what is peeked, when enough of it is there, is a header, and
  what is then taken is one message or a part of it, and in that case it is torn. Until then
  the number of units there is that of the messages that are neither unsent nor counted
  (`FramingWhole`).

### The kernel modules

`SuiteInv` of `Kernel_proofs` has five parts, one for each component.

* `CharInv`: what a number leads to is a driver that is in the kernel and has that number
  (`CharReached`), at every stage of an init that may fail and of the exit that undoes it in
  another order; what is open keeps its driver in (`CharOpen`).
* `WorkInv`: a tasklet is pending or runs only while its module is in or its exit waits for it.
* `DiskInv`: what the module has at each stage of init and exit (`DiskStages`), each request ends
  within the disk (`DiskRequests`), and the memory is what was written.
* `AgeInv`: `AgeLists`, that the clean list has each buffer once and is ordered by last use, which
  is what entitles the worker to stop at the first young buffer; `AgePass`, that what the worker
  passed over was in use; and `NoOldLeft`. `AgeWrapped` is the arithmetic: the comparison modulo
  `ULongSize` is the true one when both sums fit in half of it. The lemmas on moving an element
  of the list to its front, and on dropping one, keep order and uniqueness.
* `MemInv`: at each place of a client what it has, what the reserve lacks and what it owes
  (`need + reserve = Reserve`, `need <= Held`). The totals are cardinalities of sets of pairs of a
  client and a buffer, so that they need no recursion: a step changes one client
  (`MemMoves`), and the total by as much as that client (`TotalChange`). A slab cache is
  made only under `dm_bufio_clients_lock` by one that found none, so it is made once.

### Only model-checked

* Liveness everywhere: `EveryCallReturns`, `BiosEnd`, `CallsEnd`, `AllEnd`, `AllServed`,
  `ModulesGo` (fairness and `ENABLED` are out of TLAPS's reach).
* What is false cannot be proved: `ScanRetains`, `NoLockCycle`, `OwnBuffer`.

## 5. What is not modelled, and what is left to do

### Not modelled

* **Generated and vendored code.** `ch05/t/struct.pb.*` is the output of protoc, used to
  measure the size of one message.
* **Programs without state of their own.** The huge-page, `brk` and `mmap` demonstrations
  of ch05, `hpallocator.h`, the shared-memory and signal programs of ch08, the `fork`
  programs of ch03, the file-system, directory and terminal programs: straight lines of system
  calls, where a model would be one of the kernel. `my_delay_module.c` waits three times
  in its init function.
* **Wrappers.** Most of `ch03/t/posix.c` calls one function of libc and logs its failure.
  What has control flow in it, Rio and the two socket helpers, is in `Rio` and `Endpoint`.
* **Fences.** `04_atomicops.h` also has memory fences and `weak_atomic`. Each access of the
  semaphore is one step in `LightSemaphore`, in an order all threads agree on; weaker orders are
  out of reach of interleavings.
* **`pthread_cond.c`.** Its threads are kept in step by `sleep`, not by the condition: a
  model without time would report what the sleeps exclude.
* **`01_mq.cpp`.** It fails with its first message (see the disagreements).
* **Of dm-bufio**: the default cache size computed from the memory of the machine; the
  peak of the allocation counter, which the user may write and nothing reads; the names of
  the slab caches; the two callbacks of a client. dm-verity, the one client here, has no
  `write_callback`, and its `alloc_callback` clears `hash_verified`, which `DmVerity` does.
* **Of dm-verity**: the text of `verity_status`, `verity_prepare_ioctl`, `verity_iterate_devices`,
  the physical block size in `verity_io_hints`, and the registration of the target.
* **Of the servers**: the 5 s timeout of `select`, which goes round the loop again;
  the conversation of `socket_server.c` and its client, one line each way; and what the cleanup
  of `socket_server.c` and `talk_server.c` closes when they fail before a descriptor was
  assigned: `cfd` (17) and `sfd` (24) are not initialised, so that it may be any descriptor.
* **Of the character devices**: `my_ioctl`, which fills in a record, `chrdevbase_read`, which
  copies a constant, and the user programs that call them.

### To do

1. A variant of `DmBufioClients` with `mutex_trylock` at 918, to show what the lock order
   needs.

## 6. Running

    tlc -config DmBufio_calls.cfg MCDmBufio.tla              # also _cache, _live, _scan_retain
    tlc -config DmBufioClients_clients.cfg MCDmBufioClients.tla    # also _lock_order
    tlc -config MCVerity.cfg MCVerity.tla                    # MCUsb, MCThreads, MCSockets, MCModules
    tlc -config UsbSkel_buffer.cfg UsbSkel.tla
    tlapm DmBufio_proofs.tla                                 # and the other *_proofs.tla

Each run ends within five minutes with two workers; `scan_retain`, `lock_order` and `buffer`
end in their counterexamples. `tlapm` on the eight modules with proofs takes about an
hour in all, most of it `DmBufioLayers_proofs`, `DmBufio_proofs` and `Kernel_proofs`.

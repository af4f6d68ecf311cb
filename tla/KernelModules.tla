---------------------------- MODULE KernelModules ----------------------------
(***************************************************************************)
(* The kernel modules of ch10 and ch11 but myusb and dm-verity, and of dm- *)
(* bufio its worker's clock and its memory. They have nothing to do with   *)
(* each other, so a behaviour is one of one of them, which program names;  *)
(* the others stay where they start.                                       *)
(***************************************************************************)
EXTENDS Integers, Sequences

CONSTANTS
    FixedDrivers, DynamicDrivers, Tasks,    \* character drivers by the way they
    Majors,                                 \*   have their major number
    Timers, Tasklets, TimerRounds,          \* modules with deferred work; rounds of
    MaxLoads,                               \*   a timer; how often one is loaded
    DiskSizes, IntSize, Contents,           \* RAM disk: sizes asked for, as an int,
    MaxQueue, MaxLength,                    \*   what a sector has; its queue
    Buffers, HZ, UIntMax, ULongSize, Boot,  \* the age worker of dm-bufio: jiffies
    Ages, Targets, MaxNow,                  \*   and what it is asked for
    Clients, BlockSizes, PageSize,          \* the memory of dm-bufio
    GfpLimit, Reserve, MaxCached

VARIABLES
    program,    \* the one this behaviour is of
    cd_pc, cd_dev, cd_region, cd_cdev, cd_memClass, cd_classes, cd_node,
    cd_file, dw_state, dw_pending, dw_running, dw_count, dw_loads,
    rd_state, rd_have, rd_diskmb, rd_disk_size, rd_ramdisk, rd_queue,
    rd_written, ba_now, ba_lru, ba_dirty, ba_when, ba_held, ba_reading,
    ba_pass, bm_module, bm_clients_lock, bm_caches, bm_made, bm_allocated,
    bm_out, bm_client_count, bm_cl

\* chrdevbase.c, chrdevbase_dynamic.c and dev_test.c
Chars == INSTANCE CharDevices WITH
    Fixed <- FixedDrivers, Dynamic <- DynamicDrivers,
    Tasks <- Tasks, Majors <- Majors, MayFail <- {"class", "cdev"},
    Others <- {0}, pc <- cd_pc, dev <- cd_dev, region <- cd_region,
    cdev <- cd_cdev, memClass <- cd_memClass, classes <- cd_classes,
    node <- cd_node, file <- cd_file

\* my_timer_module.c and my_tasklet_module.c
Deferred == INSTANCE DeferredWork WITH
    Timers <- Timers, Tasklets <- Tasklets, Rounds <- TimerRounds,
    Loads <- MaxLoads, state <- dw_state, pending <- dw_pending,
    running <- dw_running, count <- dw_count, loads <- dw_loads

\* blkdev_test.c
Disk == INSTANCE RamDisk WITH
    Sizes <- DiskSizes, IntSize <- IntSize, Values <- Contents,
    MayFail <- {"ramdisk", "queue", "major", "disk"}, MaxQueue <- MaxQueue,
    MaxLength <- MaxLength, state <- rd_state, have <- rd_have,
    diskmb <- rd_diskmb, disk_size <- rd_disk_size, ramdisk <- rd_ramdisk,
    queue <- rd_queue, written <- rd_written

\* the worker of dm-bufio
Ageing == INSTANCE BufferAge WITH
    Buffers <- Buffers, HZ <- HZ, UIntMax <- UIntMax, ULongSize <- ULongSize,
    Boot <- Boot, Ages <- Ages, Targets <- Targets, MaxNow <- MaxNow,
    now <- ba_now, lru <- ba_lru, dirty <- ba_dirty, when <- ba_when,
    held <- ba_held, reading <- ba_reading, pass <- ba_pass

\* the memory of dm-bufio
Memory == INSTANCE BufioMemory WITH
    Clients <- Clients, Sizes <- BlockSizes, PageSize <- PageSize,
    GfpLimit <- GfpLimit, Reserve <- Reserve, MaxCached <- MaxCached, module <- bm_module,
    clients_lock <- bm_clients_lock, caches <- bm_caches, made <- bm_made,
    allocated <- bm_allocated, out <- bm_out,
    client_count <- bm_client_count, cl <- bm_cl

ASSUME SuiteAssumption ==
    /\ Chars!WellFormed /\ Deferred!WellFormed /\ Disk!WellFormed
    /\ Ageing!WellFormed /\ Memory!WellFormed

charsState ==
  <<cd_pc, cd_dev, cd_region, cd_cdev, cd_memClass, cd_classes, cd_node,
    cd_file>>
deferredState ==
  <<dw_state, dw_pending, dw_running, dw_count, dw_loads>>
diskState ==
  <<rd_state, rd_have, rd_diskmb, rd_disk_size, rd_ramdisk, rd_queue,
    rd_written>>
ageingState ==
  <<ba_now, ba_lru, ba_dirty, ba_when, ba_held, ba_reading, ba_pass>>
memoryState ==
  <<bm_module, bm_clients_lock, bm_caches, bm_made, bm_allocated, bm_out,
    bm_client_count, bm_cl>>

Programs == {"Chars", "Deferred", "Disk", "Ageing", "Memory"}

SuiteInit ==
    /\ program \in Programs
    /\ Chars!Init
    /\ Deferred!Init
    /\ Disk!Init
    /\ Ageing!Init
    /\ Memory!Init
    /\ program # "Chars" => cd_region[0] = "none"
    /\ program # "Disk" => rd_diskmb = CHOOSE n \in DiskSizes : TRUE

SuiteNext ==
    /\ UNCHANGED program
    /\ IF program = "Chars" THEN Chars!Next ELSE UNCHANGED charsState
    /\ IF program = "Deferred" THEN Deferred!Next ELSE UNCHANGED deferredState
    /\ IF program = "Disk" THEN Disk!Next ELSE UNCHANGED diskState
    /\ IF program = "Ageing" THEN Ageing!Next ELSE UNCHANGED ageingState
    /\ IF program = "Memory" THEN Memory!Next ELSE UNCHANGED memoryState

\* Timers expire, softirqs run, the block layer has its queue served, and an
\* rmmod that was begun goes on.  Nobody has to load or unload a module, or to
\* make or destroy a client; a call that is made goes on, and a mutex that is
\* free again and again is had in the end.
Fairness ==
    /\ \A m \in Deferred!Modules :
          /\ WF_deferredState(program = "Deferred" /\ Deferred!Callback(m))
          /\ WF_deferredState(program = "Deferred" /\ Deferred!Killed(m))
    /\ WF_diskState(program = "Disk" /\ Disk!Serve)
    /\ WF_diskState(program = "Disk" /\ Disk!Cleanup)
    /\ \A c \in Clients : SF_memoryState(program = "Memory" /\ Memory!Call(c))

SuiteSpec ==
    /\ SuiteInit
    /\ [][SuiteNext]_<<program, charsState, deferredState, diskState, ageingState, memoryState>>
    /\ Fairness

----------------------------------------------------------------------------
\* What a name or a callback leads to is there: a device number or an open file
\* leads to a loaded driver, nothing of an unloaded one is shown, no tasklet is
\* left of an unloaded module, and requests find the memory of the disk, until
\* the last was served, and write what they should; init leaves behind only
\* what the error paths of the code forget.
NothingDangles ==
    /\ Chars!CodePresent /\ Chars!NothingShown
    /\ Deferred!TaskletGone
    /\ Disk!Backed /\ Disk!Written /\ Disk!LeftBehind

\* The age worker of dm-bufio frees no buffer before its time, with the age cut
\* to an unsigned int, and when it ends without need to keep buffers it has
\* passed over none that is old, through a wrap of jiffies.
AgesRight == [][Ageing!NotTooYoung /\ Ageing!NoOldLeft']_(Ageing!vars)

\* The memory of dm-bufio: counters are what the three allocators gave out,
\* clients share one slab cache for a size, a client that failed half way or
\* was destroyed keeps nothing, and a buffer lent from the reserve comes back.
MemoryAccounted ==
    /\ Ageing!TypeOK /\ Memory!TypeOK
    /\ Memory!Accounted /\ Memory!CachesShared
    /\ Memory!NothingLeft /\ Memory!ReserveBack

\* Timer and tasklets run as often as they were started, modules that are being
\* removed go, also with requests in the queue of the disk, and the calls of
\* dm-bufio that make or destroy a client return.
ModulesGo ==
    /\ program = "Deferred" => Deferred!AllRounds /\ Deferred!Unloads
    /\ program = "Disk" => Disk!Goes
    /\ program = "Memory" => Memory!ClientsReturn
=============================================================================

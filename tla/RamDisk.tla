------------------------------- MODULE RamDisk -------------------------------
(***************************************************************************)
(* blkdev_test.c of src/ch10/create_blkdev: a block device in memory.  Its *)
(* init function takes four resources, its exit function gives them back;  *)
(* between the two my_request serves the requests of the queue, a segment  *)
(* at a time.  Sizes are counted in sectors, and a megabyte is a sector.   *)
(***************************************************************************)
EXTENDS Integers, Sequences, FiniteSets

CONSTANTS
    Sizes,          \* values of the module parameter size
    IntSize,        \* sizes an int has bits for: the upper half is negative
    Values,         \* contents of a sector
    MayFail,        \* resources that may not be there
    MaxQueue,       \* bound: requests in the queue
    MaxLength       \* bound: sectors of a request

Resources == {"ramdisk", "queue", "major", "disk"}

VARIABLES
    state,      \* out, the call of init that is next, in, an exit step, failed
    have,       \* resources the module holds
    diskmb, disk_size,
    ramdisk,    \* contents
    queue,      \* requests, the first is being served
    written     \* the contents the requests that are done should have left

vars == <<state, have, diskmb, disk_size, ramdisk, queue, written>>

Data == <<ramdisk, queue, written>>

\* int arithmetic
Wrapped(n) ==
    LET r == n % IntSize IN IF r < IntSize \div 2 THEN r ELSE r - IntSize

WellFormed == Sizes \subseteq Int /\ IntSize \in Nat \ {0}

Init ==
    /\ state = "out" /\ have = {}
    /\ diskmb \in Sizes /\ disk_size = 0
    /\ ramdisk = <<>> /\ queue = <<>> /\ written = <<>>

----------------------------------------------------------------------------
(* my_init.                                                                *)

Begin ==
    /\ state \in {"out", "failed"}
    /\ have' = {}       \* what an earlier load left is lost
    /\ disk_size' = Wrapped(diskmb)
    /\ state' = "ramdisk"
    /\ UNCHANGED <<diskmb, Data>>

\* vmalloc of nothing or of a negative size, too, fails
Possible(r) == r = "ramdisk" => disk_size > 0
After == [ramdisk |-> "queue", queue |-> "major", major |-> "disk", disk |-> "in"]

Take(r) ==
    /\ state = r /\ Possible(r)
    /\ have' = have \cup {r}
    /\ state' = After[r]
    /\ IF r = "ramdisk"
       THEN \E v \in Values : /\ ramdisk' = [s \in 1..disk_size |-> v]
                              /\ written' = [s \in 1..disk_size |-> v]
       ELSE UNCHANGED <<ramdisk, written>>
    /\ UNCHANGED <<diskmb, disk_size, queue>>

\* fault: the error path forgets the major number
KeepMajor(r) == have \ {"ramdisk"}
LeftBy(r) == have \ {"ramdisk", "major"}

\* the queue stays, whatever fails after it
Lack(r) ==
    /\ state = r /\ (r \in MayFail \/ ~Possible(r))
    /\ have' = LeftBy(r)
    /\ state' = "failed"
    /\ UNCHANGED <<diskmb, disk_size, Data>>

----------------------------------------------------------------------------
(* Requests.                                                               *)

\* The block layer keeps a request within the capacity and splits it into
\* segments; the queue takes requests until blk_cleanup_queue.
Submit ==
    /\ state = "in" /\ Len(queue) < MaxQueue
    /\ \E first \in 1..disk_size, v \in Values, write \in BOOLEAN, n \in 1..MaxLength :
        /\ first + n - 1 <= disk_size
        /\ \E k \in 1..n :
            queue' = Append(queue, [write |-> write, value |-> v, pos |-> first, cur |-> k, left |-> n])
    /\ UNCHANGED <<state, have, diskmb, disk_size, ramdisk, written>>

Put(contents, rq, n) ==
    [s \in DOMAIN contents |->
        IF rq.write /\ s \in rq.pos..(rq.pos + n - 1) THEN rq.value ELSE contents[s]]

\* fault: an off-by-one refuses the last sector
BeforeLast(rq) == rq.pos + rq.cur - 1 >= disk_size
PastEnd(rq) == rq.pos + rq.cur - 1 > disk_size

\* fault: a segment that was ended is not taken off its request
Stuck(rq, k) == [rq EXCEPT !.cur = k]
Rest(rq, k) ==
    [write |-> rq.write, value |-> rq.value,
     pos |-> rq.pos + rq.cur, cur |-> k, left |-> rq.left - rq.cur]

\* A segment: copied if it lies on the disk, and ended with success anyway.
Serve ==
    /\ queue # <<>> /\ "queue" \in have
    /\ LET rq == Head(queue) IN
        /\ ramdisk' = IF PastEnd(rq) THEN ramdisk ELSE Put(ramdisk, rq, rq.cur)
        /\ written' = Put(written, rq, rq.cur)
        /\ IF rq.left = rq.cur THEN queue' = Tail(queue)
           ELSE \E k \in 1..(rq.left - rq.cur) :
                queue' = <<Rest(rq, k)>> \o Tail(queue)
    /\ UNCHANGED <<state, have, diskmb, disk_size>>

----------------------------------------------------------------------------
(* my_exit.                                                                *)

Exit ==     \* del_gendisk, put_disk, unregister_blkdev
    /\ state = "in"
    /\ have' = have \ {"disk", "major"}
    /\ state' = "cleanup"
    /\ UNCHANGED <<diskmb, disk_size, Data>>

\* fault: the memory goes before the queue is empty
AtOnce == TRUE
Drained == queue = <<>>

Cleanup ==  \* blk_cleanup_queue, which waits, and vfree
    /\ state = "cleanup" /\ Drained
    /\ have' = have \ {"queue", "ramdisk"}
    /\ state' = "out"
    /\ UNCHANGED <<diskmb, disk_size, Data>>

Next ==
    \/ Begin \/ Submit \/ Serve \/ Exit \/ Cleanup
    \/ \E r \in Resources : Take(r) \/ Lack(r)

Spec == Init /\ [][Next]_vars

----------------------------------------------------------------------------
(***************************************************************************)
(* A request finds the memory and the queue, also while the module is      *)
(* being removed.                                                          *)
(***************************************************************************)
Backed == queue # <<>> => {"ramdisk", "queue"} \subseteq have

(***************************************************************************)
(* Every sector has what the last request that was ended wrote there,      *)
(* although my_request says success also when it copies nothing.           *)
(***************************************************************************)
Written == ramdisk = written

(***************************************************************************)
(* What is left behind: nothing by exit, and nothing but the request queue *)
(* by an init function that failed.                                        *)
(***************************************************************************)
LeftBehind ==
    /\ state = "out" => have = {}
    /\ state = "failed" => have \subseteq {"queue"}

(***************************************************************************)
(* Requests are ended, so that the module can be removed.                  *)
(***************************************************************************)
Goes == state = "cleanup" ~> state = "out"
=============================================================================

------------------------------ MODULE UsbSkel ------------------------------
(***************************************************************************)
(* The USB skeleton driver of src/ch10/tests/usb/myusb.c: one device from  *)
(* its probe to its disconnect, and processes that open it, read, write,   *)
(* flush and release it.                                                   *)
(*                                                                         *)
(* A step is what runs between two points at which another thread may come *)
(* between: the sections under err_lock are single steps, the ones under   *)
(* io_mutex are not, because callbacks of the host controller and writers  *)
(* that do not hold it yet go on meanwhile.  Both bulk pipes, the anchor   *)
(* and the hub thread are the USB core's and modelled from their use here: *)
(* a killed URB has had its callback when the kill returns, and an URB of  *)
(* an unplugged device ends with an error.  That the core itself refuses   *)
(* URBs for a device that is gone is not assumed.                          *)
(***************************************************************************)
EXTENDS Integers, FiniteSets, Sequences

CONSTANTS
    Procs,      \* processes that use the device
    Calls,      \* the calls they make: subset of {"read", "write", "flush"}
    MaxOps,     \* bound: calls of one process
    Limit,      \* WRITES_IN_FLIGHT
    Size,       \* bulk_in_size, in units a read may ask for
    MaxIn,      \* bound: units the device has to give
    MaxResets,  \* bound: resets and suspends
    DmaMayFail  \* whether usb_alloc_coherent2 may fail

ASSUME UsbAssumption ==
    /\ Calls \subseteq {"read", "write", "flush"}
    /\ MaxOps \in Nat /\ Limit \in Nat \ {0} /\ Size \in Nat \ {0}
    /\ MaxIn \in Nat /\ MaxResets \in Nat /\ DmaMayFail \in BOOLEAN
    /\ IsFiniteSet(Procs) /\ "nobody" \notin Procs /\ "hub" \notin Procs

VARIABLES
    dev,        \* struct usb_skel
    inflight,   \* the read URB's length (0: not submitted), the set of write URBs
    iface,      \* the interface: plugged in, minor registered, intfdata set
    hub,        \* where the hub thread is
    pc, file, count,    \* of a process: where it is, has it a file, units to read
    ops,        \* of a process: calls made
    resets,     \* resets and suspends so far
    given,      \* units the device gave so far; each is named by its number
    buffer,     \* bulk_in_buffer, as far as it was filled last: the units in it
    taken,      \* the units users were given by reads that succeeded, in order
    lost        \* the units of an URB that failed or of a copy that faulted

vars == <<dev, inflight, iface, hub, pc, file, count, ops, resets, given, buffer, taken, lost>>

None == "none"
NoUrb == [read |-> 0, writes |-> {}]

\* What probe sets up before it registers the device.
NewDev == [kref |-> 1, mutex |-> "nobody", sem |-> Limit, errors |-> None,
           ongoing |-> FALSE, filled |-> 0, copied |-> 0,
           disconnected |-> FALSE, dma |-> "null", data |-> <<>>]

Init ==
    /\ dev = [NewDev EXCEPT !.kref = 0]
    /\ inflight = NoUrb
    /\ iface = [plugged |-> TRUE, minor |-> FALSE, data |-> FALSE]
    /\ hub = "probe"
    /\ pc = [p \in Procs |-> "out"]
    /\ file = [p \in Procs |-> FALSE]
    /\ count = [p \in Procs |-> 1]
    /\ ops = [p \in Procs |-> 0]
    /\ resets = 0 /\ given = 0 /\ buffer = <<>> /\ taken = <<>> /\ lost = {}

----------------------------------------------------------------------------
(* Frames: what a thread moves, and what it leaves alone.                  *)

Goto(p, l) == pc' = [pc EXCEPT ![p] = l]
Return(p) == Goto(p, "out")
HubGoto(l) == hub' = l

OfProcs == <<pc, file, count, ops>>
OfHub == <<hub, iface, resets>>
Units == <<given, buffer, taken, lost>>

(* Into dev.errors, where whoever looks next takes it away.                *)
Raise(d, e) == [d EXCEPT !.errors = e]

(* skel_delete happens when the count falls to 0.                          *)
KrefPut(d) == [d EXCEPT !.kref = @ - 1]

----------------------------------------------------------------------------
(* Completion callbacks.                                                   *)

\* skel_read_bulk_callback, given a status (None: n units arrived)
ReadCallback(d, status, n) ==
    IF status = None THEN [d EXCEPT !.filled = n, !.ongoing = FALSE]
    ELSE [Raise(d, status) EXCEPT !.ongoing = FALSE]

\* fault: the write callback gives the slot back only when all went well
UpUnlessError(d, status) ==
    IF status = None THEN [d EXCEPT !.sem = @ + 1] ELSE Raise(d, status)
\* skel_write_bulk_callback
WriteCallback(d, status) ==
    [IF status = None THEN d ELSE Raise(d, status) EXCEPT !.sem = @ + 1]

\* n units came into the buffer
Arrived(n) ==
    /\ given + n <= MaxIn
    /\ given' = given + n
    /\ buffer' = [i \in 1..n |-> given + i]

\* The URB ends with an error: actual_length, of what came all the same, is not
\* looked at.
ReadBroken(status) ==
    /\ dev' = ReadCallback(dev, status, 0)
    /\ \E n \in 0..inflight.read :
        /\ Arrived(n)
        /\ lost' = lost \cup (given + 1)..(given + n)

ReadDone ==
    /\ inflight.read > 0
    /\ \/ \E n \in 1..inflight.read :
            /\ iface.plugged /\ Arrived(n)
            /\ dev' = ReadCallback(dev, None, n)
            /\ UNCHANGED lost
       \/ ReadBroken("EIO")
    /\ inflight' = [inflight EXCEPT !.read = 0]
    /\ UNCHANGED <<OfProcs, OfHub, taken>>

WriteDone ==
    \E u \in inflight.writes :
        /\ inflight' = [inflight EXCEPT !.writes = @ \ {u}]
        /\ \/ /\ iface.plugged
              /\ dev' = WriteCallback(dev, None)
           \/ dev' = WriteCallback(dev, "EIO")
        /\ UNCHANGED <<OfProcs, OfHub, Units>>

\* usb_kill_urb of the read URB, the callback included
KillRead ==
    IF inflight.read = 0 THEN UNCHANGED <<dev, inflight, Units>>
    ELSE /\ ReadBroken("ENOENT")
         /\ inflight' = [inflight EXCEPT !.read = 0]
         /\ UNCHANGED taken

\* usb_kill_anchored_urbs, one URB of the anchor, which must not be empty
KillWrite ==
    \E u \in inflight.writes :
        /\ dev' = WriteCallback(dev, "ENOENT")
        /\ inflight' = [inflight EXCEPT !.writes = @ \ {u}]
        /\ UNCHANGED Units

----------------------------------------------------------------------------
(* What a process may do: nothing while the device is suspended, since all *)
(* of them are frozen then, or have no file and an open wakes it up first. *)
Awake == hub \notin {"s_drain", "asleep"}

(* skel_open, under the minor_rwsem of the USB core, and skel_release.     *)

OpenLookup(p) ==
    /\ Awake /\ pc[p] = "out" /\ ~file[p] /\ ops[p] < MaxOps
    /\ iface.minor /\ iface.data
    /\ Goto(p, "open")
    /\ UNCHANGED <<dev, inflight, OfHub, file, count, ops, Units>>

\* the device cannot be woken up, or it is opened
OpenGet(p) ==
    /\ pc[p] = "open"
    /\ Return(p)
    /\ \/ UNCHANGED <<dev, file>>
       \/ /\ dev' = [dev EXCEPT !.kref = @ + 1]
          /\ file' = [file EXCEPT ![p] = TRUE]
    /\ UNCHANGED <<inflight, OfHub, count, ops, Units>>

Release(p) ==
    /\ Awake /\ pc[p] = "out" /\ file[p]
    /\ dev' = KrefPut(dev)
    /\ file' = [file EXCEPT ![p] = FALSE]
    /\ ops' = [ops EXCEPT ![p] = MaxOps]
    /\ UNCHANGED <<inflight, OfHub, pc, count, Units>>

Call(p, what, l) ==
    /\ Awake /\ pc[p] = "out" /\ file[p] /\ ops[p] < MaxOps /\ what \in Calls
    /\ Goto(p, l)
    /\ ops' = [ops EXCEPT ![p] = @ + 1]

Lock(p) == dev.mutex = "nobody" /\ dev' = [dev EXCEPT !.mutex = p]
Unlocked(d) == [d EXCEPT !.mutex = "nobody"]

----------------------------------------------------------------------------
(* skel_flush                                                              *)

FlushCall(p) ==
    /\ Call(p, "flush", "f_drain")
    /\ Lock(p)
    /\ UNCHANGED <<inflight, OfHub, file, count, Units>>

\* skel_draw_down: the anchor empties within its second or is emptied
FlushDrain(p) ==
    /\ pc[p] = "f_drain"
    /\ \/ KillWrite /\ UNCHANGED pc
       \/ inflight.writes = {} /\ KillRead /\ Goto(p, "f_err")
    /\ UNCHANGED <<OfHub, file, count, ops>>

FlushErrors(p) ==
    /\ pc[p] = "f_err"
    /\ dev' = Unlocked(Raise(dev, None))
    /\ Return(p)
    /\ UNCHANGED <<inflight, OfHub, file, count, ops, Units>>

----------------------------------------------------------------------------
(* skel_read                                                               *)

ReadCall(p) ==
    /\ Call(p, "read", "r_start")
    /\ Lock(p)
    /\ \E n \in 1..(Size + 1) : count' = [count EXCEPT ![p] = n]
    /\ UNCHANGED <<inflight, OfHub, file, Units>>

ReadStart(p) ==
    /\ pc[p] = "r_start"
    /\ Goto(p, IF dev.disconnected THEN "r_exit" ELSE "r_retry")
    /\ UNCHANGED <<dev, inflight, OfHub, file, count, ops, Units>>

\* fault: the state of the URB is not asked again after it was submitted
RetryUnseen(p) ==
    /\ pc[p] = "r_retry"
    /\ Goto(p, "r_error")
    /\ UNCHANGED <<dev, inflight, OfHub, file, count, ops, Units>>
\* ongoing: O_NONBLOCK gives up, the others wait
ReadRetry(p) ==
    /\ pc[p] = "r_retry"
    /\ \/ ~dev.ongoing /\ Goto(p, "r_error")
       \/ dev.ongoing /\ (Goto(p, "r_exit") \/ Goto(p, "r_wait"))
    /\ UNCHANGED <<dev, inflight, OfHub, file, count, ops, Units>>

\* wait_event_interruptible
ReadWait(p) ==
    /\ pc[p] = "r_wait"
    /\ \/ ~dev.ongoing /\ Goto(p, "r_error")
       \/ Goto(p, "r_exit")
    /\ UNCHANGED <<dev, inflight, OfHub, file, count, ops, Units>>

\* the error is looked at, and in another step cleared, without err_lock
ReadError(p) ==
    /\ pc[p] = "r_error"
    /\ Goto(p, IF dev.errors # None THEN "r_clear" ELSE "r_data")
    /\ UNCHANGED <<dev, inflight, OfHub, file, count, ops, Units>>

ReadClear(p) ==
    /\ pc[p] = "r_clear"
    /\ dev' = Raise(dev, None)
    /\ Goto(p, "r_exit")
    /\ UNCHANGED <<inflight, OfHub, file, count, ops, Units>>

Least(a, b) == IF a < b THEN a ELSE b
Available == dev.filled - dev.copied

Chunk(p) == Least(Available, count[p])

\* bulk_in_copied += chunk, whether copy_to_user succeeded or not
Copied(p) == [dev EXCEPT !.copied = @ + Chunk(p)]

\* The units the chunk is of.
InChunk(p) == SubSeq(buffer, dev.copied + 1, dev.copied + Chunk(p))

\* copy_to_user: the user has the chunk, or the read returns -EFAULT
CopyToUser(p) ==
    \/ taken' = taken \o InChunk(p) /\ UNCHANGED lost
    \/ lost' = lost \cup {InChunk(p)[i] : i \in 1..Chunk(p)} /\ UNCHANGED taken

ReadData(p) ==
    /\ pc[p] = "r_data"
    /\ IF Available = 0
       THEN Goto(p, "r_fill") /\ UNCHANGED <<dev, count, taken, lost>>
       ELSE /\ CopyToUser(p)
            /\ dev' = Copied(p)
            /\ IF Available < count[p]
               THEN /\ count' = [count EXCEPT ![p] = @ - Available]
                    /\ Goto(p, "r_ahead")
               ELSE Goto(p, "r_exit") /\ UNCHANGED count
    /\ UNCHANGED <<inflight, OfHub, file, ops, given, buffer>>

\* skel_do_read_io, in a read that waits for the data or one that does not
Filling(p) == pc[p] \in {"r_fill", "r_ahead"}

\* fault: the place readers have got to is kept for the next URB
KeepPlace == [dev EXCEPT !.ongoing = TRUE, !.filled = 0]
Emptied == [dev EXCEPT !.ongoing = TRUE, !.filled = 0, !.copied = 0]

ReadFill(p) ==
    /\ Filling(p)
    /\ dev' = Emptied
    /\ Goto(p, IF pc[p] = "r_fill" THEN "r_submit" ELSE "r_submit_ahead")
    /\ UNCHANGED <<inflight, OfHub, file, count, ops, Units>>

ReadSubmit(p) ==
    /\ pc[p] \in {"r_submit", "r_submit_ahead"}
    /\ \/ /\ inflight' = [inflight EXCEPT !.read = Least(Size, count[p])]
          /\ UNCHANGED dev
          /\ Goto(p, IF pc[p] = "r_submit" THEN "r_retry" ELSE "r_exit")
       \/ /\ dev' = [dev EXCEPT !.ongoing = FALSE]
          /\ Goto(p, "r_exit")
          /\ UNCHANGED inflight
    /\ UNCHANGED <<OfHub, file, count, ops, Units>>

ReadExit(p) ==
    /\ pc[p] = "r_exit"
    /\ dev' = Unlocked(dev)
    /\ Return(p)
    /\ UNCHANGED <<inflight, OfHub, file, count, ops, Units>>

----------------------------------------------------------------------------
(* skel_write                                                              *)

\* down of limit_sem, interrupted or refused with O_NONBLOCK when there is none
WriteCall(p) ==
    /\ Call(p, "write", "w_error")
    /\ dev.sem > 0
    /\ dev' = [dev EXCEPT !.sem = @ - 1]
    /\ UNCHANGED <<inflight, OfHub, file, count, Units>>

WriteError(p) ==
    /\ pc[p] = "w_error"
    /\ dev' = Raise(dev, None)
    /\ Goto(p, IF dev.errors # None THEN "w_up" ELSE "w_copy")
    /\ UNCHANGED <<inflight, OfHub, file, count, ops, Units>>

Payload(p) == <<p, ops[p]>>

\* no memory, or the data goes into the one buffer of the device, or it faults
WriteCopy(p) ==
    /\ pc[p] = "w_copy"
    /\ \/ Goto(p, "w_up") /\ UNCHANGED dev
       \/ /\ dev.dma # "null"
          /\ dev' = [dev EXCEPT !.data = Payload(p)]
          /\ Goto(p, "w_lock")
    /\ UNCHANGED <<inflight, OfHub, file, count, ops, Units>>

WriteLock(p) ==
    /\ pc[p] = "w_lock"
    /\ Lock(p)
    /\ Goto(p, "w_submit")
    /\ UNCHANGED <<inflight, OfHub, file, count, ops, Units>>

\* fault: the device is taken to be there, as it was when the file was opened
StillConnected == TRUE
Connected == ~dev.disconnected

WriteSubmit(p) ==
    /\ pc[p] = "w_submit"
    /\ dev' = Unlocked(dev)
    /\ \/ /\ Connected
          /\ inflight' = [inflight EXCEPT !.writes = @ \cup {Payload(p)}]
          /\ Return(p)
       \/ Goto(p, "w_up") /\ UNCHANGED inflight
    /\ UNCHANGED <<OfHub, file, count, ops, Units>>

\* error: the URB, which holds nothing any more, and the slot are given back
WriteUp(p) ==
    /\ pc[p] = "w_up"
    /\ dev' = [dev EXCEPT !.sem = @ + 1]
    /\ Return(p)
    /\ UNCHANGED <<inflight, OfHub, file, count, ops, Units>>

----------------------------------------------------------------------------
(* skel_probe                                                              *)

ProbeSetup ==
    /\ hub = "probe"
    /\ \/ UNCHANGED dev /\ HubGoto("unbound")       \* something is missing
       \/ dev' = NewDev /\ HubGoto("register")
    /\ UNCHANGED <<inflight, iface, resets, OfProcs, Units>>

ProbeRegister ==
    /\ hub = "register"
    /\ \/ /\ iface' = [iface EXCEPT !.minor = TRUE, !.data = TRUE]
          /\ HubGoto("dma") /\ UNCHANGED dev
       \/ /\ dev' = KrefPut(dev)
          /\ HubGoto("unbound") /\ UNCHANGED iface
    /\ UNCHANGED <<inflight, resets, OfProcs, Units>>

ProbeDma ==
    /\ hub = "dma"
    /\ \/ dev' = [dev EXCEPT !.dma = "there"] /\ HubGoto("bound")
       \/ DmaMayFail /\ dev' = KrefPut(dev) /\ HubGoto("failed")
    /\ UNCHANGED <<inflight, iface, resets, OfProcs, Units>>

\* probe failed: the USB core clears the interface's data
ProbeFailed ==
    /\ hub = "failed"
    /\ iface' = [iface EXCEPT !.data = FALSE]
    /\ HubGoto("unbound")
    /\ UNCHANGED <<dev, inflight, resets, OfProcs, Units>>

----------------------------------------------------------------------------
(* skel_suspend (all processes are frozen or have no file), skel_pre_reset *)
(* and skel_post_reset                                                     *)

Suspend ==
    /\ hub = "bound" /\ resets < MaxResets
    /\ \A p \in Procs : pc[p] = "out"
    /\ resets' = resets + 1
    /\ HubGoto("s_drain")
    /\ UNCHANGED <<dev, inflight, iface, OfProcs, Units>>

PreReset ==
    /\ hub = "bound" /\ resets < MaxResets
    /\ Lock("hub")
    /\ resets' = resets + 1
    /\ HubGoto("p_drain")
    /\ UNCHANGED <<inflight, iface, OfProcs, Units>>

HubDrain ==
    /\ hub \in {"s_drain", "p_drain"}
    /\ \/ KillWrite /\ UNCHANGED hub
       \/ /\ inflight.writes = {}
          /\ KillRead
          /\ HubGoto(IF hub = "s_drain" THEN "asleep" ELSE "reset")
    /\ UNCHANGED <<iface, resets, OfProcs>>

\* skel_resume; the processes are thawed
Resume ==
    /\ hub = "asleep"
    /\ HubGoto("bound")
    /\ UNCHANGED <<dev, inflight, iface, resets, OfProcs, Units>>

\* fault: the mutex taken in pre_reset is not given back
ResetKeepsLock == Raise(dev, "EPIPE")
AfterReset == Unlocked(Raise(dev, "EPIPE"))

PostReset ==
    /\ hub = "reset"
    /\ dev' = AfterReset
    /\ HubGoto("bound")
    /\ UNCHANGED <<inflight, iface, resets, OfProcs, Units>>

----------------------------------------------------------------------------
(* skel_disconnect                                                         *)

\* every URB fails from here on; then the driver is called
Unplug ==
    /\ hub = "bound"
    /\ iface' = [iface EXCEPT !.plugged = FALSE]
    /\ HubGoto("gone")
    /\ UNCHANGED <<dev, inflight, resets, OfProcs, Units>>

DisconnectData ==
    /\ hub = "gone"
    /\ iface' = [iface EXCEPT !.data = FALSE]
    /\ HubGoto("d_minor")
    /\ UNCHANGED <<dev, inflight, resets, OfProcs, Units>>

\* fault: the minor is given back while an open of it is under way
OpensAnyhow == TRUE
\* usb_deregister_dev takes the minor_rwsem for writing
NoOpenUnderWay == \A p \in Procs : pc[p] # "open"

DisconnectMinor ==
    /\ hub = "d_minor" /\ NoOpenUnderWay
    /\ iface' = [iface EXCEPT !.minor = FALSE]
    /\ HubGoto("d_lock")
    /\ UNCHANGED <<dev, inflight, resets, OfProcs, Units>>

MutexFree == dev.mutex = "nobody"

DisconnectFlag ==
    /\ hub = "d_lock" /\ MutexFree
    /\ dev' = [dev EXCEPT !.disconnected = TRUE]
    /\ HubGoto("d_kill")
    /\ UNCHANGED <<inflight, iface, resets, OfProcs, Units>>

DisconnectKill ==
    /\ hub = "d_kill"
    /\ KillRead
    /\ HubGoto("d_anchor")
    /\ UNCHANGED <<iface, resets, OfProcs>>

DisconnectAnchor ==
    /\ hub = "d_anchor"
    /\ \/ KillWrite /\ UNCHANGED hub
       \/ inflight.writes = {} /\ HubGoto("d_free") /\ UNCHANGED <<dev, inflight, Units>>
    /\ UNCHANGED <<iface, resets, OfProcs>>

DisconnectFree ==
    /\ hub = "d_free"
    /\ dev' = KrefPut([dev EXCEPT !.dma = "freed"])
    /\ HubGoto("unbound")
    /\ UNCHANGED <<inflight, iface, resets, OfProcs, Units>>

----------------------------------------------------------------------------
Driver(p) ==
    \/ OpenGet(p)
    \/ FlushDrain(p) \/ FlushErrors(p)
    \/ ReadStart(p) \/ ReadRetry(p) \/ ReadWait(p) \/ ReadError(p) \/ ReadClear(p)
    \/ ReadData(p) \/ ReadFill(p) \/ ReadSubmit(p) \/ ReadExit(p)
    \/ WriteError(p) \/ WriteCopy(p) \/ WriteLock(p) \/ WriteSubmit(p) \/ WriteUp(p)

User(p) ==
    \/ OpenLookup(p) \/ Release(p)
    \/ FlushCall(p) \/ ReadCall(p) \/ WriteCall(p)

Probe == ProbeSetup \/ ProbeRegister \/ ProbeDma \/ ProbeFailed

Power == Suspend \/ PreReset \/ HubDrain \/ Resume \/ PostReset

Disconnect ==
    \/ DisconnectData \/ DisconnectMinor \/ DisconnectFlag \/ DisconnectKill
    \/ DisconnectAnchor \/ DisconnectFree

Next ==
    \/ \E p \in Procs : User(p) \/ Driver(p)
    \/ ReadDone \/ WriteDone
    \/ Probe \/ Power \/ Unplug \/ Disconnect

Spec == Init /\ [][Next]_vars

----------------------------------------------------------------------------
Writing == {"w_error", "w_copy", "w_lock", "w_submit", "w_up"}
Reading == {"r_start", "r_retry", "r_wait", "r_error", "r_clear", "r_data",
            "r_fill", "r_ahead", "r_submit", "r_submit_ahead", "r_exit"}
HoldsMutex == Reading \cup {"f_drain", "f_err", "w_submit"}
Submitting == {"r_submit", "r_submit_ahead"}

\* Where the hub thread is while the device is there, and when it goes.
Present == {"bound", "s_drain", "asleep", "p_drain", "reset"}
Leaving == {"gone", "d_minor", "d_lock", "d_kill", "d_anchor", "d_free", "unbound"}

Device == [kref : Nat, mutex : Procs \cup {"nobody", "hub"}, sem : Nat,
           errors : {None, "EIO", "ENOENT", "EPIPE"}, ongoing : BOOLEAN,
           filled : 0..Size, copied : 0..Size, disconnected : BOOLEAN,
           dma : {"null", "there", "freed"}, data : {<<>>} \cup (Procs \X Nat)]

DeviceOK == dev \in Device /\ dev.copied <= dev.filled

Places == {"out", "open", "f_drain", "f_err"} \cup Reading \cup Writing
ProcsOK ==
    /\ pc \in [Procs -> Places] /\ file \in [Procs -> BOOLEAN]
    /\ count \in [Procs -> 1..(Size + 1)] /\ ops \in [Procs -> 0..MaxOps]

Stages == {"probe", "register", "dma", "failed"} \cup Present \cup Leaving
HubOK ==
    /\ iface \in [plugged : BOOLEAN, minor : BOOLEAN, data : BOOLEAN]
    /\ hub \in Stages /\ resets \in 0..MaxResets

UrbsOK ==
    /\ inflight \in [read : 0..Size, writes : SUBSET (Procs \X (0..MaxOps))]
    /\ given \in 0..MaxIn /\ lost \subseteq 1..given
    /\ taken \in Seq(1..given) /\ buffer \in Seq(1..given)

TypeOK == DeviceOK /\ ProcsOK /\ HubOK /\ UrbsOK

\* io_mutex is held by exactly the threads that are between its lock and its unlock,
\* whichever exit they take.
MutexOwner ==
    /\ \A p \in Procs : dev.mutex = p <=> pc[p] \in HoldsMutex
    /\ dev.mutex = "hub" <=> hub \in {"p_drain", "reset"}

\* Every slot of limit_sem is free, with a writer inside skel_write or with a URB in
\* flight: a failed write and a failed URB give back exactly one, a submitted one
\* none (lines 442 and 550).
SlotsAccounted ==
    dev.sem + Cardinality({p \in Procs : pc[p] \in Writing})
            + Cardinality(inflight.writes) = Limit

\* The read URB is filled in and submitted only while it is not in flight, and
\* whoever finds ongoing_read unset finds it given back (289, 335).
ReadUrbExclusive ==
    /\ \A p \in Procs : Filling(p) \/ pc[p] \in Submitting => inflight.read = 0
    /\ inflight.read > 0 => dev.ongoing
    /\ dev.ongoing => inflight.read > 0 \/ \E p \in Procs : pc[p] \in Submitting

\* The count of the device is that of its open files, and of the interface.
RefsAccounted ==
    dev.kref = Cardinality({p \in Procs : file[p]})
               + IF hub \in {"probe", "failed", "unbound"} THEN 0 ELSE 1

\* What a reader found out stays so for as long as it holds io_mutex: the device is
\* connected (330), the URB is over (341, 351), nothing is left in the buffer (377), and
\* nothing is put into it before the URB is under way.
ReaderKnows ==
    /\ \A p \in Procs :
         /\ pc[p] \in Reading \ {"r_start", "r_exit"} => ~dev.disconnected
         /\ pc[p] \in {"r_error", "r_clear", "r_data", "r_fill", "r_ahead"} => ~dev.ongoing
         /\ Filling(p) => Available = 0
         /\ pc[p] \in Submitting => dev.ongoing /\ dev.filled = 0 /\ dev.copied = 0
    /\ inflight.read > 0 => dev.filled = 0 /\ dev.copied = 0

\* A write URB in flight is of a call that has returned.
UrbsReturned ==
    \A u \in inflight.writes :
        u[2] <= ops[u[1]] /\ (pc[u[1]] \in Writing => u[2] < ops[u[1]])

\* Who is inside has a file, or opens its first one while the minor is registered.
Inside ==
    \A p \in Procs :
        /\ pc[p] \notin {"out", "open"} => file[p]
        /\ pc[p] = "open" => iface.minor /\ ~file[p]

NobodyIn == \A p \in Procs : pc[p] = "out" /\ ~file[p]

\* How far the hub thread has got says what is registered, what is set up and what
\* may be in flight.
Phases ==
    /\ hub = "probe" => dev = [NewDev EXCEPT !.kref = 0]
    /\ hub \in {"probe", "register"} => NobodyIn /\ inflight = NoUrb
    /\ hub \in {"probe", "register", "d_lock", "d_kill", "d_anchor", "d_free"} => ~iface.minor
    /\ hub \in {"dma", "failed", "gone", "d_minor"} \cup Present => iface.minor
    /\ hub \in {"d_kill", "d_anchor", "d_free"} => dev.disconnected
    /\ dev.disconnected => hub \in {"d_kill", "d_anchor", "d_free", "unbound"}
    /\ hub \in {"d_anchor", "d_free"} => inflight.read = 0
    /\ hub = "d_free" => inflight.writes = {}
    /\ hub = "unbound" /\ ~iface.minor => inflight = NoUrb /\ (dev.disconnected \/ NobodyIn)

\* Slots of limit_sem and the URBs that took them match, references to the device
\* and files do, and while a read URB is in flight nobody takes its buffer for its
\* own: bulk_in_filled and _copied are changed by the callback and by the reader
\* that found it over.
Accounted ==
    /\ TypeOK /\ MutexOwner /\ SlotsAccounted /\ ReadUrbExclusive /\ RefsAccounted
    /\ ReaderKnows /\ UrbsReturned /\ Inside /\ Phases

\* When its DMA memory is not there probe gives the device up, but leaves its minor
\* registered (629-653).
LeftBehind == hub \in {"failed", "unbound"} /\ iface.minor

\* Once disconnect has killed what was in flight no URB is in flight any more (509:
\* "this lock makes sure we don't submit URBs to gone devices").
NoUrbAfterDisconnect ==
    hub = "d_free" \/ (hub = "unbound" /\ ~LeftBehind) => inflight = NoUrb

\* The device exists as long as somebody may look at it: a file, an open under way,
\* a URB whose callback will run, the hub thread.
NoUseAfterFree ==
    ~LeftBehind /\ (\/ \E p \in Procs : file[p] \/ pc[p] # "out"
                    \/ inflight # NoUrb
                    \/ hub \notin {"probe", "unbound"}) => dev.kref > 0

\* When skel_disconnect is over no URB is in flight, whatever a writer that had
\* passed its checks did meanwhile, and nobody is inside a device that was freed.
NothingAfterDisconnect == NoUrbAfterDisconnect /\ NoUseAfterFree

\* The units of the last fill that no read has had yet.
Waiting == {buffer[i] : i \in (dev.copied + 1)..dev.filled}

Had == {taken[i] : i \in DOMAIN taken}

\* Reads return the units of the device in their order, each of them to one read.
\* Every unit was had by a user or waits in the buffer, but for those of an URB that
\* failed (258) and of a read that returned -EFAULT (393): none is lost because
\* the buffer was filled again too early, and none is had twice.
UnitsInOrder ==
    /\ \A i, j \in DOMAIN taken : i < j => taken[i] < taken[j]
    /\ 1..given = Had \cup Waiting \cup lost
    /\ lost \cap (Had \cup Waiting) = {} /\ \A u \in Waiting, h \in Had : h < u

(***************************************************************************)
(* A read that waits is not left waiting when its URB is back; every read, *)
(* write and flush of a device that was unplugged returns, and disconnect  *)
(* gets to its end (656-679).                                              *)
(***************************************************************************)
DisconnectEnds ==
    hub = "gone" ~> hub = "unbound" /\ \A p \in Procs : pc[p] = "out"

----------------------------------------------------------------------------
(* What a comment of the file says and the code does not do.               *)

(***************************************************************************)
(* 489: "create a urb, and a buffer for it, and copy the data to the urb": *)
(* what a URB in flight carries is what its own write gave it.             *)
(***************************************************************************)
OwnBuffer == \A u \in inflight.writes : dev.data = u
============================================================================

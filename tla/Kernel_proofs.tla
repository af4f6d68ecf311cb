---------------------------- MODULE Kernel_proofs ----------------------------
(***************************************************************************)
(* The kernel modules but dm-verity, for any number of processes, clients, *)
(* buffers, requests and resets: the USB skeleton driver, character        *)
(* drivers, deferred work, the RAM disk, and of dm-bufio the age of its    *)
(* buffers and its memory.                                                 *)
(***************************************************************************)
EXTENDS UsbSkel, KernelModules, FiniteSetTheorems, SequenceTheorems, TLAPS

----------------------------------------------------------------------------
(* The USB skeleton driver: what Accounted says of the threads that hold   *)
(* io_mutex, of the slots, the URBs and the references is an invariant, and*)
(* with it no unit is lost and nothing is left when the device is gone.    *)

\* The names of the owners of io_mutex are different things.
LEMMA Owners == ASSUME NEW p \in Procs PROVE p # "nobody" /\ p # "hub"
  BY UsbAssumption

\* The steps that are not a process's: callbacks and the hub thread.
ByOthers == ReadDone \/ WriteDone \/ Probe \/ Power \/ Unplug \/ Disconnect

Errors == {None, "EIO", "ENOENT", "EPIPE"}

\* What an error put into the device leaves alone.
LEMMA RaiseFields ==
    ASSUME NEW d \in Device, NEW e \in Errors
    PROVE  /\ Raise(d, e) \in Device
           /\ Raise(d, e).kref = d.kref
           /\ Raise(d, e).mutex = d.mutex
           /\ Raise(d, e).sem = d.sem
           /\ Raise(d, e).ongoing = d.ongoing
           /\ Raise(d, e).filled = d.filled
           /\ Raise(d, e).copied = d.copied
           /\ Raise(d, e).disconnected = d.disconnected
           /\ Raise(d, e).errors = e
  BY DEF Raise, Device, Errors

\* What the write callback changes, whatever the status.
LEMMA WriteCallbackFields ==
    ASSUME NEW d \in Device, NEW e \in Errors
    PROVE  /\ WriteCallback(d, e) \in Device
           /\ WriteCallback(d, e).kref = d.kref
           /\ WriteCallback(d, e).mutex = d.mutex
           /\ WriteCallback(d, e).sem = d.sem + 1
           /\ WriteCallback(d, e).ongoing = d.ongoing
           /\ WriteCallback(d, e).filled = d.filled
           /\ WriteCallback(d, e).copied = d.copied
           /\ WriteCallback(d, e).disconnected = d.disconnected
  BY DEF WriteCallback, Raise, Device, Errors

\* What the read callback changes: after an error the buffer is as it was.
LEMMA ReadCallbackFields ==
    ASSUME NEW d \in Device, NEW e \in Errors, NEW n \in 0..Size
    PROVE  /\ ReadCallback(d, e, n) \in Device
           /\ ReadCallback(d, e, n).kref = d.kref
           /\ ReadCallback(d, e, n).mutex = d.mutex
           /\ ReadCallback(d, e, n).sem = d.sem
           /\ ReadCallback(d, e, n).copied = d.copied
           /\ ReadCallback(d, e, n).disconnected = d.disconnected
           /\ ReadCallback(d, e, n).ongoing = FALSE
           /\ ReadCallback(d, e, n).filled = IF e = None THEN n ELSE d.filled
  BY DEF ReadCallback, Raise, Device, Errors

\* A URB that failed has brought units nobody looks at.
Broken ==
    \E n \in 0..inflight.read :
        Arrived(n) /\ lost' = lost \cup (given + 1)..(given + n)

\* Killing the read URB: it is back, and what is filled and copied is as it was.
LEMMA KillReadFields ==
    ASSUME DeviceOK, UrbsOK, KillRead
    PROVE  /\ dev' \in Device
           /\ dev'.kref = dev.kref /\ dev'.mutex = dev.mutex /\ dev'.sem = dev.sem
           /\ dev'.filled = dev.filled /\ dev'.copied = dev.copied
           /\ dev'.disconnected = dev.disconnected
           /\ inflight.read # 0 => dev'.ongoing = FALSE
           /\ inflight.read = 0 => dev' = dev
           /\ inflight' = [read |-> 0, writes |-> inflight.writes]
  <1>1. CASE inflight.read = 0
    BY <1>1 DEF KillRead, DeviceOK, UrbsOK
  <1>2. CASE inflight.read # 0
    <2>1. dev' = ReadCallback(dev, "ENOENT", 0) /\ inflight' = [inflight EXCEPT !.read = 0]
      BY <1>2 DEF KillRead, ReadBroken
    <2>2. "ENOENT" \in Errors /\ "ENOENT" # None /\ 0 \in 0..Size
      BY UsbAssumption DEF Errors, None
    <2>3. inflight' = [read |-> 0, writes |-> inflight.writes]
      BY <2>1 DEF UrbsOK
    <2>4. /\ dev' \in Device
          /\ dev'.kref = dev.kref /\ dev'.mutex = dev.mutex /\ dev'.sem = dev.sem
          /\ dev'.filled = dev.filled /\ dev'.copied = dev.copied
          /\ dev'.disconnected = dev.disconnected /\ dev'.ongoing = FALSE
      BY <2>1, <2>2, ReadCallbackFields DEF DeviceOK
    <2> QED BY <1>2, <2>3, <2>4
  <1> QED BY <1>1, <1>2

\* What a write URB that is back has changed: its slot is free.
WriteBack(u) ==
    /\ u \in inflight.writes
    /\ dev' \in Device
    /\ dev'.kref = dev.kref /\ dev'.mutex = dev.mutex /\ dev'.sem = dev.sem + 1
    /\ dev'.ongoing = dev.ongoing /\ dev'.filled = dev.filled /\ dev'.copied = dev.copied
    /\ dev'.disconnected = dev.disconnected
    /\ inflight' = [read |-> inflight.read, writes |-> inflight.writes \ {u}]

\* Killing a write URB gives it back.
LEMMA KillWriteFields ==
    ASSUME DeviceOK, UrbsOK, KillWrite PROVE \E u \in inflight.writes : WriteBack(u)
  <1>1. PICK u \in inflight.writes :
            /\ dev' = WriteCallback(dev, "ENOENT")
            /\ inflight' = [inflight EXCEPT !.writes = @ \ {u}]
    BY DEF KillWrite
  <1>2. "ENOENT" \in Errors BY DEF Errors
  <1>3. inflight' = [read |-> inflight.read, writes |-> inflight.writes \ {u}]
    BY <1>1 DEF UrbsOK
  <1>4. WriteBack(u)
    BY <1>1, <1>2, <1>3, WriteCallbackFields DEF DeviceOK, WriteBack
  <1> QED BY <1>4

\* So does its completion.
LEMMA WriteDoneFields ==
    ASSUME DeviceOK, UrbsOK, WriteDone PROVE \E u \in inflight.writes : WriteBack(u)
  <1>1. PICK u \in inflight.writes :
            /\ inflight' = [inflight EXCEPT !.writes = @ \ {u}]
            /\ \E e \in Errors : dev' = WriteCallback(dev, e)
    BY DEF WriteDone, Errors
  <1>2. PICK e \in Errors : dev' = WriteCallback(dev, e) BY <1>1
  <1>3. inflight' = [read |-> inflight.read, writes |-> inflight.writes \ {u}]
    BY <1>1 DEF UrbsOK
  <1>4. WriteBack(u)
    BY <1>1, <1>2, <1>3, WriteCallbackFields DEF DeviceOK, WriteBack
  <1> QED BY <1>4

\* What the read URB's completion has changed: n units are in the buffer, or it ended
\* with an error.
ReadBack(n) ==
    /\ inflight.read > 0
    /\ dev' \in Device
    /\ dev'.kref = dev.kref /\ dev'.mutex = dev.mutex /\ dev'.sem = dev.sem
    /\ dev'.ongoing = FALSE /\ dev'.copied = dev.copied
    /\ dev'.disconnected = dev.disconnected
    /\ inflight' = [read |-> 0, writes |-> inflight.writes]
    /\ \/ dev'.filled = n /\ Arrived(n) /\ lost' = lost
       \/ dev'.filled = dev.filled /\ Broken

\* The read URB completes.
LEMMA ReadDoneFields ==
    ASSUME DeviceOK, UrbsOK, ReadDone
    PROVE  \E n \in 0..Size : ReadBack(n)
  <1>0. /\ "EIO" \in Errors /\ None \in Errors /\ "EIO" # None
        /\ inflight' = [read |-> 0, writes |-> inflight.writes] /\ inflight.read \in 0..Size
        /\ Size \in Nat /\ inflight.read > 0
    BY UsbAssumption DEF Errors, None, ReadDone, UrbsOK
  <1>1. CASE \E n \in 1..inflight.read :
                Arrived(n) /\ dev' = ReadCallback(dev, None, n) /\ UNCHANGED lost
    <2>1. PICK n \in 1..inflight.read :
              Arrived(n) /\ dev' = ReadCallback(dev, None, n) /\ lost' = lost
      BY <1>1
    <2>2. n \in 0..Size BY <1>0
    <2>3. /\ dev' \in Device
          /\ dev'.kref = dev.kref /\ dev'.mutex = dev.mutex /\ dev'.sem = dev.sem
          /\ dev'.filled = n /\ dev'.copied = dev.copied
          /\ dev'.disconnected = dev.disconnected /\ dev'.ongoing = FALSE
      BY <1>0, <2>1, <2>2, ReadCallbackFields DEF DeviceOK
    <2>4. ReadBack(n)
      BY <1>0, <2>1, <2>3 DEF ReadBack
    <2> QED BY <2>2, <2>4
  <1>2. CASE ReadBroken("EIO")
    <2>1. 0 \in 0..Size /\ dev' = ReadCallback(dev, "EIO", 0) /\ Broken BY <1>0, <1>2 DEF ReadBroken, Broken
    <2>2. /\ dev' \in Device
          /\ dev'.kref = dev.kref /\ dev'.mutex = dev.mutex /\ dev'.sem = dev.sem
          /\ dev'.filled = dev.filled /\ dev'.copied = dev.copied
          /\ dev'.disconnected = dev.disconnected /\ dev'.ongoing = FALSE
      BY <1>0, <1>2, <2>1, ReadCallbackFields DEF DeviceOK
    <2>3. ReadBack(0)
      BY <1>0, <2>1, <2>2 DEF ReadBack
    <2> QED BY <2>1, <2>3
  <1> QED BY <1>1, <1>2 DEF ReadDone

----------------------------------------------------------------------------
(* Types.                                                                  *)

\* TypeOK holds initially.
LEMMA InitTypeOK == ASSUME Init PROVE TypeOK
  <1>1. DeviceOK
    <2>1. dev = [kref |-> 0, mutex |-> "nobody", sem |-> Limit, errors |-> None,
                 ongoing |-> FALSE, filled |-> 0, copied |-> 0,
                 disconnected |-> FALSE, dma |-> "null", data |-> <<>>]
      BY DEF Init, NewDev
    <2>2. 0 \in 0..Size /\ Limit \in Nat BY UsbAssumption
    <2> QED BY <2>1, <2>2 DEF DeviceOK, Device
  <1>2. ProcsOK
    BY UsbAssumption DEF Init, ProcsOK, Places
  <1>3. HubOK
    BY UsbAssumption DEF Init, HubOK, Stages
  <1>4. UrbsOK
    BY UsbAssumption DEF Init, UrbsOK, NoUrb
  <1> QED BY <1>1, <1>2, <1>3, <1>4 DEF TypeOK

\* Places hold each of the labels a process may go to.
LEMMA Labels ==
    /\ {"out", "open", "f_drain", "f_err", "r_start", "r_retry", "r_wait", "r_error", "r_clear",
        "r_data", "r_fill", "r_ahead", "r_submit", "r_submit_ahead", "r_exit", "w_error",
        "w_copy", "w_lock", "w_submit", "w_up"} = Places
  BY DEF Places, Reading, Writing

\* A process that goes somewhere, with what else of it may change.
LEMMA Moved ==
    ASSUME ProcsOK, NEW p \in Procs, NEW l \in Places, Goto(p, l),
           file' \in [Procs -> BOOLEAN], count' \in [Procs -> 1..(Size + 1)],
           ops' \in [Procs -> 0..MaxOps]
    PROVE  ProcsOK'
  BY DEF ProcsOK, Goto

\* The steps of the processes keep ProcsOK.
LEMMA ProcessProcsOK ==
    ASSUME ProcsOK, DeviceOK, NEW p \in Procs, User(p) \/ Driver(p) PROVE ProcsOK'
  <1> USE Moved, Labels DEF Return
  <1>0. /\ ops[p] \in 0..MaxOps /\ MaxOps \in Nat /\ count[p] \in 1..(Size + 1) /\ Size \in Nat
        /\ file \in [Procs -> BOOLEAN] /\ count \in [Procs -> 1..(Size + 1)]
        /\ ops \in [Procs -> 0..MaxOps]
    BY UsbAssumption DEF ProcsOK
  <1>1. ASSUME NEW w, NEW l \in Places, Call(p, w, l), UNCHANGED file,
               count' \in [Procs -> 1..(Size + 1)]
        PROVE  ProcsOK'
    <2>1. ops[p] + 1 \in 0..MaxOps BY <1>0, <1>1 DEF Call
    <2>2. ops' \in [Procs -> 0..MaxOps] BY <1>0, <1>1, <2>1 DEF Call
    <2> QED BY <1>0, <1>1, <2>2 DEF Call
  <1>2. CASE OpenLookup(p) BY <1>0, <1>2 DEF OpenLookup
  <1>3. CASE Release(p) BY <1>0, <1>3 DEF Release, ProcsOK
  <1>4. CASE FlushCall(p) BY <1>0, <1>1, <1>4 DEF FlushCall
  <1>5. CASE ReadCall(p)
    <2>1. count' \in [Procs -> 1..(Size + 1)] BY <1>0, <1>5 DEF ReadCall
    <2> QED BY <1>1, <1>5, <2>1 DEF ReadCall
  <1>6. CASE WriteCall(p) BY <1>0, <1>1, <1>6 DEF WriteCall
  <1>7. CASE OpenGet(p) BY <1>0, <1>7 DEF OpenGet
  <1>8. CASE FlushDrain(p)
    <2>1. CASE UNCHANGED pc BY <1>8, <2>1 DEF FlushDrain, ProcsOK
    <2>2. CASE Goto(p, "f_err") BY <1>0, <1>8, <2>2 DEF FlushDrain
    <2> QED BY <1>8, <2>1, <2>2 DEF FlushDrain
  <1>9. CASE FlushErrors(p) \/ ReadStart(p) \/ ReadRetry(p)
    BY <1>0, <1>9 DEF FlushErrors, ReadStart, ReadRetry
  <1>10. CASE ReadWait(p) \/ ReadError(p) \/ ReadClear(p)
    BY <1>0, <1>10 DEF ReadWait, ReadError, ReadClear
  <1>11. CASE ReadData(p)
    <2>1. dev.copied \in 0..Size /\ dev.filled \in 0..Size /\ dev.copied <= dev.filled
      BY DEF DeviceOK, Device
    <2>2. ASSUME Available # 0, Available < count[p]
          PROVE  count[p] - Available \in 1..(Size + 1)
      BY <1>0, <2>1, <2>2 DEF Available
    <2>3. count' \in [Procs -> 1..(Size + 1)] BY <1>0, <1>11, <2>2 DEF ReadData
    <2> QED BY <1>0, <1>11, <2>3 DEF ReadData
  <1>12. CASE ReadFill(p) \/ ReadSubmit(p) \/ ReadExit(p)
    BY <1>0, <1>12 DEF ReadFill, ReadSubmit, ReadExit
  <1>13. CASE WriteError(p) \/ WriteCopy(p) \/ WriteLock(p)
    BY <1>0, <1>13 DEF WriteError, WriteCopy, WriteLock
  <1>14. CASE WriteSubmit(p) \/ WriteUp(p)
    BY <1>0, <1>14 DEF WriteSubmit, WriteUp
  <1> QED BY <1>2, <1>3, <1>4, <1>5, <1>6, <1>7, <1>8, <1>9, <1>10, <1>11, <1>12, <1>13, <1>14
          DEF User, Driver

\* How many files there are is a number, and not 0 when there is one.
LEMMA Files ==
    ASSUME ProcsOK
    PROVE  /\ Cardinality({q \in Procs : file[q]}) \in Nat
           /\ \A p \in Procs : file[p] => Cardinality({q \in Procs : file[q]}) > 0
  <1>1. IsFiniteSet({q \in Procs : file[q]})
    BY UsbAssumption, FS_Subset
  <1>2. Cardinality({q \in Procs : file[q]}) \in Nat
    BY <1>1, FS_CardinalityType
  <1>3. ASSUME NEW p \in Procs, file[p] PROVE Cardinality({q \in Procs : file[q]}) # 0
    BY <1>1, <1>3, FS_EmptySet
  <1> QED BY <1>2, <1>3

\* The steps of the processes keep DeviceOK.
LEMMA ProcessDeviceOK ==
    ASSUME TypeOK, RefsAccounted, NEW p \in Procs, User(p) \/ Driver(p) PROVE DeviceOK'
  <1> USE DEF TypeOK
  <1>0. Size \in Nat /\ Limit \in Nat /\ 0 \in 0..Size
    BY UsbAssumption
  <1>1. CASE OpenLookup(p) \/ ReadStart(p) \/ ReadRetry(p) \/ ReadWait(p) \/ ReadError(p)
    BY <1>1 DEF OpenLookup, ReadStart, ReadRetry, ReadWait, ReadError, DeviceOK
  <1>2. CASE Release(p)
    <2>1. dev.kref > 0 /\ dev.kref \in Nat BY <1>2, Files DEF Release, RefsAccounted, DeviceOK, Device
    <2>2. dev.kref - 1 \in Nat BY <2>1
    <2>3. dev' = [dev EXCEPT !.kref = dev.kref - 1] BY <1>2 DEF Release, KrefPut, DeviceOK, Device
    <2> QED BY <2>2, <2>3 DEF DeviceOK, Device
  <1>3. CASE FlushCall(p) \/ ReadCall(p) \/ WriteLock(p)
    BY <1>3 DEF FlushCall, ReadCall, WriteLock, Lock, DeviceOK, Device
  <1>4. CASE WriteCall(p)
    BY <1>4 DEF WriteCall, DeviceOK, Device
  <1>5. CASE OpenGet(p) \/ WriteUp(p)
    BY <1>5 DEF OpenGet, WriteUp, DeviceOK, Device
  <1>6. CASE FlushDrain(p)
    BY <1>6, KillReadFields, KillWriteFields DEF FlushDrain, DeviceOK, WriteBack
  <1>7. CASE FlushErrors(p)
    BY <1>7 DEF FlushErrors, Unlocked, Raise, DeviceOK, Device
  <1>8. CASE ReadClear(p) \/ WriteError(p)
    BY <1>8 DEF ReadClear, WriteError, Raise, DeviceOK, Device
  <1>9. CASE ReadData(p)
    <2>1. CASE Available = 0 BY <1>9, <2>1 DEF ReadData, DeviceOK
    <2>2. CASE Available # 0
      <3> DEFINE c == dev.copied + Least(Available, count[p])
      <3>1. dev.copied \in 0..Size /\ dev.filled \in 0..Size /\ count[p] \in 1..(Size + 1)
        BY DEF DeviceOK, Device, ProcsOK
      <3>2. c \in 0..dev.filled
        BY <1>0, <3>1 DEF Least, Available, DeviceOK
      <3>3. c \in 0..Size /\ c <= dev.filled BY <1>0, <3>1, <3>2
      <3>4. dev' = [dev EXCEPT !.copied = c]
        BY <1>9, <2>2 DEF ReadData, Copied, Chunk
      <3> HIDE DEF c
      <3> QED BY <3>3, <3>4 DEF DeviceOK, Device
    <2> QED BY <2>1, <2>2
  <1>10. CASE ReadFill(p)
    <2>1. dev' \in Device BY <1>0, <1>10 DEF ReadFill, Emptied, DeviceOK, Device
    <2>2. dev'.copied = 0 /\ dev'.filled = 0 BY <1>10 DEF ReadFill, Emptied, DeviceOK, Device
    <2> QED BY <2>1, <2>2 DEF DeviceOK
  <1>11. CASE ReadSubmit(p)
    BY <1>11 DEF ReadSubmit, DeviceOK, Device
  <1>12. CASE ReadExit(p) \/ WriteSubmit(p)
    BY <1>12 DEF ReadExit, WriteSubmit, Unlocked, DeviceOK, Device
  <1>13. CASE WriteCopy(p)
    <2>1. Payload(p) \in Procs \X Nat BY UsbAssumption DEF Payload, ProcsOK
    <2> QED BY <1>13, <2>1 DEF WriteCopy, DeviceOK, Device
  <1> QED BY <1>1, <1>2, <1>3, <1>4, <1>5, <1>6, <1>7, <1>8, <1>9, <1>10, <1>11, <1>12, <1>13
          DEF User, Driver

\* A kill leaves no URB that was not there.
LEMMA KillsFewer ==
    ASSUME DeviceOK, UrbsOK, KillRead \/ KillWrite
    PROVE  /\ inflight'.read \in {inflight.read, 0} /\ inflight'.writes \subseteq inflight.writes
           /\ inflight' \in [read : 0..Size, writes : SUBSET (Procs \X (0..MaxOps))]
  <1>1. \E n \in {inflight.read, 0}, W \in SUBSET inflight.writes :
            inflight' = [read |-> n, writes |-> W]
    <2>1. CASE KillRead BY <2>1, KillReadFields
    <2>2. CASE KillWrite
      <3>1. PICK u : WriteBack(u) BY <2>2, KillWriteFields
      <3>2. inflight.writes \ {u} \in SUBSET inflight.writes OBVIOUS
      <3> QED BY <3>1, <3>2 DEF WriteBack
    <2> QED BY <2>1, <2>2
  <1>2. inflight'.read \in 0..Size /\ inflight'.writes \subseteq Procs \X (0..MaxOps)
    BY <1>1, UsbAssumption DEF UrbsOK
  <1> QED BY <1>1, <1>2

\* A unit that was given stays one.
LEMMA MoreGiven ==
    ASSUME UrbsOK, NEW n \in Nat, Arrived(n)
    PROVE  /\ given' \in 0..MaxIn /\ given' = given + n /\ taken \in Seq(1..given')
           /\ buffer' \in Seq(1..given') /\ lost \subseteq 1..given'
           /\ lost \cup (given + 1)..(given + n) \subseteq 1..given'
  <1>1. given \in Nat /\ given' = given + n /\ given' <= MaxIn /\ MaxIn \in Nat
    BY UsbAssumption DEF UrbsOK, Arrived
  <1>2. 1..given \subseteq 1..given' BY <1>1
  <1>3. taken \in Seq(1..given') BY <1>2, SeqMonotonic DEF UrbsOK
  <1>4. buffer' = [i \in 1..n |-> given + i] /\ \A i \in 1..n : given + i \in 1..given'
    BY <1>1 DEF Arrived
  <1>5. buffer' \in Seq(1..given') BY <1>4
  <1>6. lost \subseteq 1..given' BY <1>2 DEF UrbsOK
  <1>7. (given + 1)..(given + n) \subseteq 1..given' BY <1>1
  <1>8. given' \in 0..MaxIn BY <1>1
  <1> QED BY <1>1, <1>3, <1>5, <1>6, <1>7, <1>8

\* A kill may make units lost that had come.
LEMMA KillsGive ==
    ASSUME UrbsOK, KillRead \/ KillWrite
    PROVE  /\ given' \in 0..MaxIn /\ lost' \subseteq 1..given'
           /\ taken' \in Seq(1..given') /\ buffer' \in Seq(1..given')
  <1>1. CASE UNCHANGED Units BY <1>1 DEF Units, UrbsOK
  <1>2. CASE Broken /\ UNCHANGED taken
    <2>1. PICK n \in 0..inflight.read : Arrived(n) /\ lost' = lost \cup (given + 1)..(given + n)
      BY <1>2 DEF Broken
    <2>2. n \in Nat BY UsbAssumption DEF UrbsOK
    <2> QED BY <1>2, <2>1, <2>2, MoreGiven
  <1> QED BY <1>1, <1>2 DEF KillRead, KillWrite, ReadBroken, Broken

\* A piece of a sequence.
LEMMA Piece ==
    ASSUME NEW S, NEW s \in Seq(S), NEW k \in Nat, NEW c \in Nat, k + c <= Len(s)
    PROVE  /\ SubSeq(s, k + 1, k + c) \in Seq(S) /\ Len(SubSeq(s, k + 1, k + c)) = c
           /\ \A i \in 1..c : SubSeq(s, k + 1, k + c)[i] = s[k + i] /\ s[k + i] \in S
  <1>1. PICK m \in Int, n \in Int : m = k + 1 /\ n = k + c
    <2>1. k + 1 \in Int /\ k + c \in Int OBVIOUS
    <2> QED BY <2>1
  <1>2. Len(s) \in Nat OBVIOUS
  <1>3. \A i \in m..n : i \in 1..Len(s) BY <1>1, <1>2
  <1>4. \A i \in m..n : s[i] \in S BY <1>3, ElementOfSeq
  <1>5. /\ SubSeq(s, m, n) \in Seq(S)
        /\ Len(SubSeq(s, m, n)) = IF m <= n THEN n - m + 1 ELSE 0
        /\ \A i \in 1..(n - m + 1) : SubSeq(s, m, n)[i] = s[m + i - 1]
    BY <1>4, SubSeqProperties
  <1>6. Len(SubSeq(s, m, n)) = c BY <1>1, <1>5
  <1>7. n - m + 1 = c /\ \A i \in 1..c : m + i - 1 = k + i /\ k + i \in m..n BY <1>1
  <1>8. \A i \in 1..c : SubSeq(s, m, n)[i] = s[k + i] /\ s[k + i] \in S BY <1>4, <1>5, <1>7
  <1> QED BY <1>1, <1>5, <1>6, <1>8

\* The chunk is of the buffer.
LEMMA ChunkUnits ==
    ASSUME TypeOK, NEW p \in Procs
    PROVE  /\ Chunk(p) \in Nat /\ dev.copied + Chunk(p) <= dev.filled /\ dev.copied \in Nat /\ dev.filled \in Nat
  BY UsbAssumption DEF Chunk, Least, Available, TypeOK, DeviceOK, Device, ProcsOK

\* What is copied, or not, is of the buffer.
LEMMA CopiesUnits ==
    ASSUME TypeOK, dev.filled <= Len(buffer), NEW p \in Procs, CopyToUser(p)
    PROVE  taken' \in Seq(1..given) /\ lost' \subseteq 1..given
  <1>1. /\ Chunk(p) \in Nat /\ dev.copied + Chunk(p) <= dev.filled /\ dev.copied \in Nat /\ dev.filled \in Nat
    BY ChunkUnits
  <1>2. buffer \in Seq(1..given) /\ taken \in Seq(1..given) /\ lost \subseteq 1..given BY DEF TypeOK, UrbsOK
  <1>3. Len(buffer) \in Nat BY <1>2
  <1>4. InChunk(p) \in Seq(1..given) /\ Len(InChunk(p)) = Chunk(p)
    <2> DEFINE k == dev.copied
               c == Chunk(p)
    <2>1. k \in Nat /\ c \in Nat /\ k + c <= Len(buffer) BY <1>1, <1>3
    <2>2. InChunk(p) = SubSeq(buffer, k + 1, k + c) BY DEF InChunk
    <2>3. c = Chunk(p) OBVIOUS
    <2> HIDE DEF k, c
    <2>4. given \in Nat BY UsbAssumption DEF TypeOK, UrbsOK
    <2> DEFINE S == 1..given
    <2>5. buffer \in Seq(S) BY <1>2
    <2> HIDE DEF S
    <2>6. SubSeq(buffer, k + 1, k + c) \in Seq(S) /\ Len(SubSeq(buffer, k + 1, k + c)) = c
      BY <2>1, <2>5, Piece
    <2> QED BY <2>2, <2>3, <2>6 DEF S
  <1>5. \A i \in 1..Chunk(p) : InChunk(p)[i] \in 1..given BY <1>4, ElementOfSeq
  <1>6. CASE taken' = taken \o InChunk(p) /\ UNCHANGED lost
    BY <1>2, <1>4, <1>6, ConcatProperties
  <1>7. CASE lost' = lost \cup {InChunk(p)[i] : i \in 1..Chunk(p)} /\ UNCHANGED taken
    BY <1>2, <1>5, <1>7
  <1> QED BY <1>6, <1>7 DEF CopyToUser

\* The steps of the processes keep UrbsOK.
LEMMA ProcessUrbsOK ==
    ASSUME TypeOK, dev.filled <= Len(buffer), NEW p \in Procs, User(p) \/ Driver(p) PROVE UrbsOK'
  <1> USE DEF TypeOK, Units
  <1>1. CASE User(p)
    BY <1>1 DEF User, OpenLookup, Release, FlushCall, ReadCall, WriteCall, UrbsOK
  <1>2. CASE OpenGet(p) \/ FlushErrors(p) \/ ReadStart(p) \/ ReadRetry(p) \/ ReadWait(p)
    BY <1>2 DEF OpenGet, FlushErrors, ReadStart, ReadRetry, ReadWait, UrbsOK
  <1>3. CASE ReadError(p) \/ ReadClear(p) \/ ReadFill(p) \/ ReadExit(p)
    BY <1>3 DEF ReadError, ReadClear, ReadFill, ReadExit, UrbsOK
  <1>4. CASE WriteError(p) \/ WriteCopy(p) \/ WriteLock(p) \/ WriteUp(p)
    BY <1>4 DEF WriteError, WriteCopy, WriteLock, WriteUp, UrbsOK
  <1>5. CASE FlushDrain(p)
    BY <1>5, KillsFewer, KillsGive DEF FlushDrain, UrbsOK
  <1>6. CASE ReadData(p)
    <2>1. UNCHANGED <<inflight, given, buffer>> BY <1>6 DEF ReadData
    <2>2. taken' \in Seq(1..given) /\ lost' \subseteq 1..given
      BY <1>6, CopiesUnits DEF ReadData, UrbsOK
    <2> QED BY <2>1, <2>2 DEF UrbsOK
  <1>7. CASE ReadSubmit(p)
    <2>1. Least(Size, count[p]) \in 0..Size
      BY UsbAssumption DEF Least, ProcsOK
    <2> QED BY <1>7, <2>1 DEF ReadSubmit, UrbsOK
  <1>8. CASE WriteSubmit(p)
    <2>1. Payload(p) \in Procs \X (0..MaxOps) BY DEF Payload, ProcsOK
    <2>2. UNCHANGED <<given, buffer, taken, lost>> BY <1>8 DEF WriteSubmit
    <2>3. \/ inflight' = inflight
          \/ inflight' = [inflight EXCEPT !.writes = @ \cup {Payload(p)}]
      BY <1>8 DEF WriteSubmit
    <2>4. inflight' \in [read : 0..Size, writes : SUBSET (Procs \X (0..MaxOps))]
      BY <2>1, <2>3 DEF UrbsOK
    <2> QED BY <2>2, <2>4 DEF UrbsOK
  <1> QED BY <1>1, <1>2, <1>3, <1>4, <1>5, <1>6, <1>7, <1>8 DEF Driver

\* Whoever is not a process leaves the processes alone.
LEMMA OthersProcsOK == ASSUME ProcsOK, ByOthers PROVE UNCHANGED OfProcs /\ ProcsOK'
  <1>1. UNCHANGED OfProcs
    BY DEF ByOthers, ReadDone, WriteDone, Probe, ProbeSetup, ProbeRegister, ProbeDma, ProbeFailed,
           Power, Suspend, PreReset, HubDrain, Resume, PostReset, Unplug, Disconnect,
           DisconnectData, DisconnectMinor, DisconnectFlag, DisconnectKill, DisconnectAnchor,
           DisconnectFree
  <1> QED BY <1>1 DEF OfProcs, ProcsOK

\* The processes leave the hub thread and the interface alone.
LEMMA ProcessOfHub == ASSUME NEW p \in Procs, User(p) \/ Driver(p) PROVE UNCHANGED OfHub
  BY DEF User, Driver, OpenLookup, Release, FlushCall, ReadCall, WriteCall, OpenGet, FlushDrain,
         FlushErrors, ReadStart, ReadRetry, ReadWait, ReadError, ReadClear, ReadData, ReadFill,
         ReadSubmit, ReadExit, WriteError, WriteCopy, WriteLock, WriteSubmit, WriteUp

\* The hub thread keeps HubOK.
LEMMA OthersHubOK == ASSUME HubOK, ByOthers PROVE HubOK'
  <1> USE DEF HubOK, HubGoto, OfHub, Stages, Present, Leaving
  <1>1. CASE ReadDone \/ WriteDone BY <1>1 DEF ReadDone, WriteDone
  <1>2. CASE Probe BY <1>2 DEF Probe, ProbeSetup, ProbeRegister, ProbeDma, ProbeFailed
  <1>3. CASE Power
    BY <1>3, UsbAssumption DEF Power, Suspend, PreReset, HubDrain, Resume, PostReset
  <1>4. CASE Unplug BY <1>4 DEF Unplug
  <1>5. CASE DisconnectData \/ DisconnectMinor \/ DisconnectFlag
    BY <1>5 DEF DisconnectData, DisconnectMinor, DisconnectFlag
  <1>6. CASE DisconnectKill \/ DisconnectAnchor \/ DisconnectFree
    BY <1>6 DEF DisconnectKill, DisconnectAnchor, DisconnectFree
  <1> QED BY <1>1, <1>2, <1>3, <1>4, <1>5, <1>6 DEF ByOthers, Disconnect

\* The steps that are not a process's keep DeviceOK.
LEMMA OthersDeviceOK ==
    ASSUME TypeOK, RefsAccounted, ReaderKnows, ByOthers PROVE DeviceOK'
  <1> USE DEF TypeOK
  <1>0. Size \in Nat /\ Limit \in Nat /\ 0 \in 0..Size
    BY UsbAssumption
  <1>1. CASE ReadDone
    <2>1. PICK n \in 0..Size : ReadBack(n) BY <1>1, ReadDoneFields
    <2>2. inflight.read > 0 => dev.copied = 0 BY DEF ReaderKnows
    <2> QED BY <1>0, <2>1, <2>2 DEF ReadBack, DeviceOK, Device
  <1>2. CASE WriteDone
    BY <1>2, WriteDoneFields DEF WriteBack, DeviceOK
  <1>3. CASE ProbeSetup
    <2>1. NewDev \in Device BY <1>0 DEF NewDev, Device, None
    <2>2. NewDev.copied <= NewDev.filled BY DEF NewDev
    <2> QED BY <1>3, <2>1, <2>2 DEF ProbeSetup, DeviceOK
  <1>4. ASSUME dev' = KrefPut(dev), hub \notin {"probe", "failed", "unbound"} PROVE DeviceOK'
    <2>1. dev.kref \in Nat /\ dev.kref > 0 BY <1>4, Files DEF RefsAccounted, DeviceOK, Device
    <2>2. dev' = [dev EXCEPT !.kref = dev.kref - 1] BY <1>4 DEF KrefPut, DeviceOK, Device
    <2>3. dev.kref - 1 \in Nat BY <2>1
    <2> QED BY <2>2, <2>3 DEF DeviceOK, Device
  <1>5. CASE ProbeRegister BY <1>4, <1>5 DEF ProbeRegister, DeviceOK
  <1>6. CASE ProbeDma
    <2>1. CASE dev' = [dev EXCEPT !.dma = "there"] BY <2>1 DEF DeviceOK, Device
    <2> QED BY <1>4, <1>6, <2>1 DEF ProbeDma
  <1>7. CASE ProbeFailed \/ Suspend \/ Resume \/ Unplug \/ DisconnectData \/ DisconnectMinor
    BY <1>7 DEF ProbeFailed, Suspend, Resume, Unplug, DisconnectData, DisconnectMinor, DeviceOK
  <1>8. CASE PreReset BY <1>8 DEF PreReset, Lock, DeviceOK, Device
  <1>9. CASE HubDrain
    BY <1>9, KillReadFields, KillWriteFields DEF HubDrain, DeviceOK, WriteBack
  <1>10. CASE PostReset
    BY <1>10 DEF PostReset, AfterReset, Unlocked, Raise, DeviceOK, Device
  <1>11. CASE DisconnectFlag BY <1>11 DEF DisconnectFlag, DeviceOK, Device
  <1>12. CASE DisconnectKill BY <1>12, KillReadFields DEF DisconnectKill, DeviceOK
  <1>13. CASE DisconnectAnchor
    BY <1>13, KillWriteFields DEF DisconnectAnchor, DeviceOK, WriteBack
  <1>14. CASE DisconnectFree
    <2>1. dev.kref \in Nat /\ dev.kref > 0
      BY <1>14, Files DEF DisconnectFree, RefsAccounted, DeviceOK, Device
    <2>2. dev' = [dev EXCEPT !.dma = "freed", !.kref = dev.kref - 1]
      BY <1>14 DEF DisconnectFree, KrefPut, DeviceOK, Device
    <2>3. dev.kref - 1 \in Nat BY <2>1
    <2> QED BY <2>2, <2>3 DEF DeviceOK, Device
  <1> QED BY <1>1, <1>2, <1>3, <1>5, <1>6, <1>7, <1>8, <1>9, <1>10, <1>11, <1>12, <1>13, <1>14
          DEF ByOthers, Probe, Power, Disconnect

\* The steps that are not a process's keep UrbsOK.
LEMMA OthersUrbsOK ==
    ASSUME TypeOK, ByOthers PROVE UrbsOK'
  <1> USE DEF TypeOK, Units
  <1>1. CASE ReadDone
    <2>1. PICK n \in 0..Size : ReadBack(n) BY <1>1, ReadDoneFields
    <2>2. n \in Nat /\ 0 \in 0..Size BY UsbAssumption
    <2>3. taken' = taken /\ inflight' = [read |-> 0, writes |-> inflight.writes]
      BY <1>1, <2>1 DEF ReadDone, ReadBack
    <2>4. PICK m \in Nat : Arrived(m) /\ (lost' = lost \/ lost' = lost \cup (given + 1)..(given + m))
      <3>1. CASE Broken
        <4>1. \A m \in 0..inflight.read : m \in Nat BY UsbAssumption DEF UrbsOK
        <4> QED BY <3>1, <4>1 DEF Broken
      <3>2. CASE Arrived(n) /\ lost' = lost BY <2>2, <3>2
      <3> QED BY <2>1, <3>1, <3>2 DEF ReadBack
    <2>5. /\ given' \in 0..MaxIn /\ lost' \subseteq 1..given'
          /\ taken' \in Seq(1..given') /\ buffer' \in Seq(1..given')
      BY <2>3, <2>4, MoreGiven
    <2> QED BY <2>2, <2>3, <2>5 DEF UrbsOK
  <1>2. CASE WriteDone
    <2>1. PICK u : WriteBack(u) BY <1>2, WriteDoneFields
    <2> QED BY <1>2, <2>1 DEF WriteDone, WriteBack, UrbsOK
  <1>3. CASE HubDrain \/ DisconnectKill \/ DisconnectAnchor
    BY <1>3, KillsFewer, KillsGive DEF HubDrain, DisconnectKill, DisconnectAnchor, UrbsOK
  <1>4. CASE Probe \/ Unplug
    BY <1>4 DEF Probe, ProbeSetup, ProbeRegister, ProbeDma, ProbeFailed, Unplug, UrbsOK
  <1>5. CASE Suspend \/ PreReset \/ Resume \/ PostReset
    BY <1>5 DEF Suspend, PreReset, Resume, PostReset, UrbsOK
  <1>6. CASE DisconnectData \/ DisconnectMinor \/ DisconnectFlag \/ DisconnectFree
    BY <1>6 DEF DisconnectData, DisconnectMinor, DisconnectFlag, DisconnectFree, UrbsOK
  <1> QED BY <1>1, <1>2, <1>3, <1>4, <1>5, <1>6 DEF ByOthers, Power, Disconnect

----------------------------------------------------------------------------
(* io_mutex.                                                               *)

\* A process that goes from a place to another with io_mutex, or without it.
LEMMA KeepsMutex ==
    ASSUME ProcsOK, MutexOwner, NEW p \in Procs, NEW l, Goto(p, l), UNCHANGED hub,
           dev'.mutex = dev.mutex, l \in HoldsMutex <=> pc[p] \in HoldsMutex
    PROVE  MutexOwner'
  BY DEF ProcsOK, MutexOwner, Goto

\* One that takes it.
LEMMA TakesMutex ==
    ASSUME ProcsOK, MutexOwner, NEW p \in Procs, NEW l \in HoldsMutex, Goto(p, l), UNCHANGED hub,
           dev.mutex = "nobody", dev'.mutex = p
    PROVE  MutexOwner'
  <1>1. \A q \in Procs : q # "nobody" /\ q # "hub" BY UsbAssumption
  <1> QED BY <1>1 DEF ProcsOK, MutexOwner, Goto

\* One that gives it back.
LEMMA GivesMutex ==
    ASSUME ProcsOK, MutexOwner, NEW p \in Procs, NEW l, l \notin HoldsMutex, Goto(p, l),
           UNCHANGED hub, pc[p] \in HoldsMutex, dev'.mutex = "nobody"
    PROVE  MutexOwner'
  <1>1. \A q \in Procs : q # "nobody" /\ q # "hub" BY UsbAssumption
  <1> QED BY <1>1 DEF ProcsOK, MutexOwner, Goto

\* The processes take io_mutex and give it back where MutexOwner says.
LEMMA ProcessMutexOwner ==
    ASSUME TypeOK, MutexOwner, NEW p \in Procs, User(p) \/ Driver(p) PROVE MutexOwner'
  <1> USE DEF TypeOK, OfHub
  <1>0. dev \in Device /\ \A q \in Procs : q # "nobody" /\ q # "hub"
    BY UsbAssumption DEF DeviceOK
  <1>1. CASE OpenLookup(p) \/ OpenGet(p) \/ Release(p)
    <2>1. dev'.mutex = dev.mutex
      BY <1>0, <1>1 DEF OpenLookup, OpenGet, Release, KrefPut, Device
    <2>2. CASE Release(p) BY <1>1, <2>1, <2>2 DEF Release, MutexOwner
    <2> QED BY <1>1, <2>1, <2>2, KeepsMutex DEF OpenLookup, OpenGet, Goto, Return, HoldsMutex, Reading
  <1>2. CASE FlushCall(p) \/ ReadCall(p)
    <2>1. dev.mutex = "nobody" /\ dev'.mutex = p
      BY <1>0, <1>2 DEF FlushCall, ReadCall, Lock, Device
    <2> QED BY <1>2, <2>1, TakesMutex DEF FlushCall, ReadCall, Call, HoldsMutex, Reading
  <1>3. CASE WriteCall(p) \/ WriteError(p) \/ WriteCopy(p) \/ WriteUp(p)
    <2>1. dev'.mutex = dev.mutex
      BY <1>0, <1>3 DEF WriteCall, WriteError, WriteCopy, WriteUp, Raise, Device
    <2>2. CASE WriteCall(p)
      BY <2>1, <2>2, KeepsMutex DEF WriteCall, Call, HoldsMutex, Reading
    <2>3. CASE WriteError(p) \/ WriteCopy(p) \/ WriteUp(p)
      BY <2>1, <2>3, KeepsMutex DEF WriteError, WriteCopy, WriteUp, Return, HoldsMutex, Reading
    <2> QED BY <1>3, <2>2, <2>3
  <1>4. CASE FlushDrain(p)
    <2>1. dev'.mutex = dev.mutex
      BY <1>4, KillReadFields, KillWriteFields DEF FlushDrain, WriteBack
    <2>2. CASE UNCHANGED pc BY <1>4, <2>1, <2>2 DEF FlushDrain, MutexOwner
    <2>3. CASE Goto(p, "f_err") BY <1>4, <2>1, <2>3, KeepsMutex DEF FlushDrain, HoldsMutex
    <2> QED BY <1>4, <2>2, <2>3 DEF FlushDrain
  <1>5. CASE FlushErrors(p) \/ ReadExit(p) \/ WriteSubmit(p)
    <2>1. dev'.mutex = "nobody"
      BY <1>0, <1>5 DEF FlushErrors, ReadExit, WriteSubmit, Unlocked, Raise, Device
    <2> QED BY <1>5, <2>1, GivesMutex
            DEF FlushErrors, ReadExit, WriteSubmit, Return, HoldsMutex, Reading
  <1>6. CASE ReadStart(p) \/ ReadRetry(p) \/ ReadWait(p) \/ ReadError(p) \/ ReadClear(p)
    <2>1. dev'.mutex = dev.mutex
      BY <1>0, <1>6 DEF ReadStart, ReadRetry, ReadWait, ReadError, ReadClear, Raise, Device
    <2> QED BY <1>6, <2>1, KeepsMutex
            DEF ReadStart, ReadRetry, ReadWait, ReadError, ReadClear, HoldsMutex, Reading
  <1>7. CASE ReadData(p) \/ ReadFill(p) \/ ReadSubmit(p)
    <2>1. dev'.mutex = dev.mutex
      BY <1>0, <1>7 DEF ReadData, ReadFill, ReadSubmit, Copied, Chunk, Emptied, Device
    <2> QED BY <1>7, <2>1, KeepsMutex
            DEF ReadData, ReadFill, Filling, ReadSubmit, HoldsMutex, Reading
  <1>8. CASE WriteLock(p)
    <2>1. dev.mutex = "nobody" /\ dev'.mutex = p BY <1>0, <1>8 DEF WriteLock, Lock, Device
    <2> QED BY <1>8, <2>1, TakesMutex DEF WriteLock, HoldsMutex
  <1> QED BY <1>1, <1>2, <1>3, <1>4, <1>5, <1>6, <1>7, <1>8 DEF User, Driver

\* So does the hub thread.
LEMMA OthersMutexOwner ==
    ASSUME TypeOK, MutexOwner, Phases, ByOthers PROVE MutexOwner'
  <1> USE DEF TypeOK, OfProcs, HubGoto
  <1>0. dev \in Device /\ \A q \in Procs : q # "nobody" /\ q # "hub"
    BY UsbAssumption DEF DeviceOK
  <1>1. CASE ReadDone
    <2>1. dev'.mutex = dev.mutex BY <1>1, ReadDoneFields DEF ReadBack
    <2> QED BY <1>1, <2>1 DEF ReadDone, OfHub, MutexOwner
  <1>2. CASE WriteDone
    <2>1. dev'.mutex = dev.mutex BY <1>2, WriteDoneFields DEF WriteBack
    <2> QED BY <1>2, <2>1 DEF WriteDone, OfHub, MutexOwner
  <1>3. CASE ProbeSetup
    <2>1. dev.mutex = "nobody" /\ dev'.mutex = "nobody"
      BY <1>3 DEF ProbeSetup, Phases, NewDev
    <2> QED BY <1>3, <2>1 DEF ProbeSetup, MutexOwner
  <1>4. CASE ProbeRegister \/ ProbeDma \/ ProbeFailed
    <2>1. dev'.mutex = dev.mutex
      BY <1>0, <1>4 DEF ProbeRegister, ProbeDma, ProbeFailed, KrefPut, Device
    <2> QED BY <1>4, <2>1 DEF ProbeRegister, ProbeDma, ProbeFailed, MutexOwner
  <1>5. CASE Suspend \/ Resume \/ Unplug
    BY <1>5 DEF Suspend, Resume, Unplug, MutexOwner
  <1>6. CASE PreReset
    <2>1. dev.mutex = "nobody" /\ dev'.mutex = "hub" BY <1>0, <1>6 DEF PreReset, Lock, Device
    <2> QED BY <1>0, <1>6, <2>1 DEF PreReset, MutexOwner
  <1>7. CASE HubDrain
    <2>1. dev'.mutex = dev.mutex
      BY <1>7, KillReadFields, KillWriteFields DEF HubDrain, WriteBack
    <2> QED BY <1>7, <2>1 DEF HubDrain, MutexOwner
  <1>8. CASE PostReset
    <2>1. dev'.mutex = "nobody" BY <1>0, <1>8 DEF PostReset, AfterReset, Unlocked, Raise, Device
    <2> QED BY <1>0, <1>8, <2>1 DEF PostReset, MutexOwner
  <1>9. CASE DisconnectData \/ DisconnectMinor \/ DisconnectFlag \/ DisconnectFree
    <2>1. dev'.mutex = dev.mutex
      BY <1>0, <1>9 DEF DisconnectData, DisconnectMinor, DisconnectFlag, DisconnectFree, KrefPut, Device
    <2> QED BY <1>9, <2>1
            DEF DisconnectData, DisconnectMinor, DisconnectFlag, DisconnectFree, MutexOwner
  <1>10. CASE DisconnectKill \/ DisconnectAnchor
    <2>1. dev'.mutex = dev.mutex
      BY <1>10, KillReadFields, KillWriteFields DEF DisconnectKill, DisconnectAnchor, WriteBack
    <2> QED BY <1>10, <2>1 DEF DisconnectKill, DisconnectAnchor, MutexOwner
  <1> QED BY <1>1, <1>2, <1>3, <1>4, <1>5, <1>6, <1>7, <1>8, <1>9, <1>10
          DEF ByOthers, Probe, Power, Disconnect

----------------------------------------------------------------------------
(* The slots of limit_sem.                                                 *)

Writers == {p \in Procs : pc[p] \in Writing}

\* A finite set with another element, or without one it had.
LEMMA OneMore ==
    ASSUME NEW A, IsFiniteSet(A), NEW x
    PROVE  /\ Cardinality(A) \in Nat
           /\ x \notin A => Cardinality(A \cup {x}) = Cardinality(A) + 1
           /\ x \in A => Cardinality(A \ {x}) = Cardinality(A) - 1
  BY FS_CardinalityType, FS_AddElement, FS_RemoveElement

\* There are finitely many write URBs and writers.
LEMMA SlotsFinite ==
    ASSUME ProcsOK, UrbsOK
    PROVE  IsFiniteSet(inflight.writes) /\ IsFiniteSet(Writers)
  <1>1. IsFiniteSet(0..MaxOps) BY UsbAssumption, FS_Interval
  <1>2. IsFiniteSet(Procs \X (0..MaxOps)) BY <1>1, UsbAssumption, FS_Product
  <1>3. inflight.writes \subseteq Procs \X (0..MaxOps) BY DEF UrbsOK
  <1>4. Writers \subseteq Procs BY DEF Writers
  <1> QED BY <1>2, <1>3, <1>4, UsbAssumption, FS_Subset

\* SlotsAccounted of the numbers.
LEMMA SlotsNow ==
    ASSUME ProcsOK, DeviceOK, UrbsOK, SlotsAccounted
    PROVE  /\ IsFiniteSet(inflight.writes) /\ IsFiniteSet(Writers) /\ dev.sem \in Nat
           /\ Cardinality(inflight.writes) \in Nat /\ Cardinality(Writers) \in Nat
           /\ dev.sem + Cardinality(Writers) + Cardinality(inflight.writes) = Limit
  BY SlotsFinite, OneMore DEF SlotsAccounted, DeviceOK, Device, Writers

\* SlotsAccounted after a step.
LEMMA SlotsNext ==
    ASSUME dev'.sem + Cardinality(Writers') + Cardinality(inflight'.writes) = Limit
    PROVE  SlotsAccounted'
  BY DEF SlotsAccounted, Writers

\* A URB that is back has given back its slot.
LEMMA SlotBack ==
    ASSUME ProcsOK, DeviceOK, UrbsOK, SlotsAccounted, NEW u, WriteBack(u), Writers' = Writers
    PROVE  SlotsAccounted'
  <1>1. Cardinality(inflight'.writes) = Cardinality(inflight.writes) - 1
    BY SlotsNow, OneMore DEF WriteBack
  <1>2. dev'.sem = dev.sem + 1 BY DEF WriteBack
  <1>3. Cardinality(Writers') = Cardinality(Writers) OBVIOUS
  <1> QED BY <1>1, <1>2, <1>3, SlotsNow, SlotsNext

\* A writer comes, and takes one.
LEMMA SlotTaken ==
    ASSUME ProcsOK, DeviceOK, UrbsOK, SlotsAccounted, NEW p \in Procs, p \notin Writers,
           Writers' = Writers \cup {p}, UNCHANGED inflight, dev'.sem = dev.sem - 1
    PROVE  SlotsAccounted'
  <1>1. Cardinality(Writers') = Cardinality(Writers) + 1 BY SlotsNow, OneMore
  <1> QED BY <1>1, SlotsNow, SlotsNext

\* A writer goes, and gives it back.
LEMMA SlotGiven ==
    ASSUME ProcsOK, DeviceOK, UrbsOK, SlotsAccounted, NEW p \in Procs, p \in Writers,
           Writers' = Writers \ {p}, UNCHANGED inflight, dev'.sem = dev.sem + 1
    PROVE  SlotsAccounted'
  <1>1. Cardinality(Writers') = Cardinality(Writers) - 1 BY SlotsNow, OneMore
  <1> QED BY <1>1, SlotsNow, SlotsNext

\* A writer goes, and leaves it to its URB.
LEMMA SlotPassed ==
    ASSUME ProcsOK, DeviceOK, UrbsOK, SlotsAccounted, NEW p \in Procs, p \in Writers,
           Writers' = Writers \ {p}, dev'.sem = dev.sem, Payload(p) \notin inflight.writes,
           inflight'.writes = inflight.writes \cup {Payload(p)}
    PROVE  SlotsAccounted'
  <1>1. Cardinality(Writers') = Cardinality(Writers) - 1 BY SlotsNow, OneMore
  <1>2. Cardinality(inflight'.writes) = Cardinality(inflight.writes) + 1 BY SlotsNow, OneMore
  <1> QED BY <1>1, <1>2, SlotsNow, SlotsNext

\* Nobody comes or goes.
LEMMA SlotSame ==
    ASSUME ProcsOK, DeviceOK, UrbsOK, SlotsAccounted, Writers' = Writers,
           inflight'.writes = inflight.writes, dev'.sem = dev.sem
    PROVE  SlotsAccounted'
  <1>1. Cardinality(Writers') = Cardinality(Writers) OBVIOUS
  <1> QED BY <1>1, SlotsNow, SlotsNext

\* A process that goes from a place of a writer to another, or of none to none.
LEMMA KeepsWriters ==
    ASSUME ProcsOK, NEW p \in Procs, NEW l, Goto(p, l), l \in Writing <=> pc[p] \in Writing
    PROVE  Writers' = Writers
  BY DEF ProcsOK, Writers, Goto

\* What the steps of the processes that write do with the slots.
LEMMA ProcessSlots ==
    ASSUME TypeOK, SlotsAccounted, UrbsReturned, NEW p \in Procs, User(p) \/ Driver(p)
    PROVE  SlotsAccounted'
  <1> USE DEF TypeOK
  <1>0. dev \in Device BY DEF DeviceOK
  <1>1. CASE OpenLookup(p) \/ OpenGet(p) \/ Release(p)
    <2>1. dev'.sem = dev.sem /\ UNCHANGED inflight
      BY <1>0, <1>1 DEF OpenLookup, OpenGet, Release, KrefPut, Device
    <2>2. Writers' = Writers
      <3>1. CASE Release(p) BY <3>1 DEF Release, Writers
      <3> QED BY <1>1, <3>1, KeepsWriters DEF OpenLookup, OpenGet, Return, Writing
    <2> QED BY <2>1, <2>2, SlotSame
  <1>2. CASE FlushCall(p) \/ ReadCall(p)
    <2>1. dev'.sem = dev.sem /\ UNCHANGED inflight
      BY <1>0, <1>2 DEF FlushCall, ReadCall, Lock, Device
    <2>2. Writers' = Writers
      BY <1>2, KeepsWriters DEF FlushCall, ReadCall, Call, Writing
    <2> QED BY <2>1, <2>2, SlotSame
  <1>3. CASE WriteCall(p)
    <2>1. dev'.sem = dev.sem - 1 /\ UNCHANGED inflight BY <1>0, <1>3 DEF WriteCall, Device
    <2>2. p \notin Writers /\ Writers' = Writers \cup {p}
      BY <1>3 DEF WriteCall, Call, Goto, Writers, Writing, ProcsOK
    <2> QED BY <2>1, <2>2, SlotTaken
  <1>4. CASE FlushDrain(p)
    <2>1. Writers' = Writers
      BY <1>4, KeepsWriters DEF FlushDrain, Writing, Writers
    <2>2. CASE KillWrite
      <3>1. PICK u : WriteBack(u) BY <2>2, KillWriteFields
      <3> QED BY <2>1, <3>1, SlotBack
    <2>3. CASE KillRead
      <3>1. inflight'.writes = inflight.writes /\ dev'.sem = dev.sem BY <2>3, KillReadFields
      <3> QED BY <2>1, <3>1, SlotSame
    <2> QED BY <1>4, <2>2, <2>3 DEF FlushDrain
  <1>5. CASE FlushErrors(p) \/ ReadExit(p)
    <2>1. dev'.sem = dev.sem /\ UNCHANGED inflight
      BY <1>0, <1>5 DEF FlushErrors, ReadExit, Unlocked, Raise, Device
    <2>2. Writers' = Writers
      BY <1>5, KeepsWriters DEF FlushErrors, ReadExit, Return, Writing
    <2> QED BY <2>1, <2>2, SlotSame
  <1>6. CASE ReadStart(p) \/ ReadRetry(p) \/ ReadWait(p) \/ ReadError(p) \/ ReadClear(p)
    <2>1. dev'.sem = dev.sem /\ UNCHANGED inflight
      BY <1>0, <1>6 DEF ReadStart, ReadRetry, ReadWait, ReadError, ReadClear, Raise, Device
    <2>2. Writers' = Writers
      BY <1>6, KeepsWriters DEF ReadStart, ReadRetry, ReadWait, ReadError, ReadClear, Writing
    <2> QED BY <2>1, <2>2, SlotSame
  <1>7. CASE ReadData(p) \/ ReadFill(p) \/ ReadSubmit(p)
    <2>1. dev'.sem = dev.sem /\ inflight'.writes = inflight.writes
      BY <1>0, <1>7 DEF ReadData, ReadFill, ReadSubmit, Copied, Chunk, Emptied, Device, UrbsOK
    <2>2. Writers' = Writers
      BY <1>7, KeepsWriters DEF ReadData, ReadFill, Filling, ReadSubmit, Writing
    <2> QED BY <2>1, <2>2, SlotSame
  <1>8. CASE WriteError(p) \/ WriteCopy(p) \/ WriteLock(p)
    <2>1. dev'.sem = dev.sem /\ UNCHANGED inflight
      BY <1>0, <1>8 DEF WriteError, WriteCopy, WriteLock, Lock, Raise, Device
    <2>2. Writers' = Writers
      BY <1>8, KeepsWriters DEF WriteError, WriteCopy, WriteLock, Writing
    <2> QED BY <2>1, <2>2, SlotSame
  <1>9. CASE WriteSubmit(p)
    <2>1. dev'.sem = dev.sem BY <1>0, <1>9 DEF WriteSubmit, Unlocked, Device
    <2>2. CASE Goto(p, "w_up") /\ UNCHANGED inflight
      <3>1. Writers' = Writers BY <1>9, <2>2, KeepsWriters DEF WriteSubmit, Writing
      <3> QED BY <2>1, <2>2, <3>1, SlotSame
    <2>3. CASE /\ inflight' = [inflight EXCEPT !.writes = @ \cup {Payload(p)}] /\ Return(p)
      <3>1. inflight'.writes = inflight.writes \cup {Payload(p)} BY <2>3 DEF UrbsOK
      <3>2. p \in Writers /\ Writers' = Writers \ {p}
        BY <1>9, <2>3 DEF WriteSubmit, Return, Goto, Writers, Writing, ProcsOK
      <3>3. Payload(p) \notin inflight.writes
        <4>1. ops[p] \in Int /\ pc[p] \in Writing BY <1>9 DEF WriteSubmit, Writing, ProcsOK
        <4> QED BY <4>1 DEF Payload, UrbsReturned
      <3> QED BY <2>1, <3>1, <3>2, <3>3, SlotPassed
    <2> QED BY <1>9, <2>2, <2>3 DEF WriteSubmit
  <1>10. CASE WriteUp(p)
    <2>1. dev'.sem = dev.sem + 1 /\ UNCHANGED inflight BY <1>0, <1>10 DEF WriteUp, Device
    <2>2. p \in Writers /\ Writers' = Writers \ {p}
      BY <1>10 DEF WriteUp, Return, Goto, Writers, Writing, ProcsOK
    <2> QED BY <2>1, <2>2, SlotGiven
  <1> QED BY <1>1, <1>2, <1>3, <1>4, <1>5, <1>6, <1>7, <1>8, <1>9, <1>10 DEF User, Driver

\* Callbacks and kills give back the slot of the URB.
LEMMA OthersSlots ==
    ASSUME TypeOK, SlotsAccounted, Phases, ByOthers PROVE SlotsAccounted'
  <1> USE DEF TypeOK
  <1>a. UNCHANGED pc BY OthersProcsOK DEF OfProcs
  <1>0. dev \in Device /\ Writers' = Writers BY <1>a DEF DeviceOK, Writers
  <1>1. CASE ReadDone
    <2>1. PICK n : ReadBack(n) BY <1>1, ReadDoneFields
    <2>2. inflight'.writes = inflight.writes /\ dev'.sem = dev.sem BY <2>1 DEF ReadBack
    <2> QED BY <1>0, <2>2, SlotSame
  <1>2. CASE WriteDone
    <2>1. PICK u : WriteBack(u) BY <1>2, WriteDoneFields
    <2> QED BY <1>0, <2>1, SlotBack
  <1>3. CASE HubDrain \/ DisconnectKill \/ DisconnectAnchor
    <2>1. CASE KillWrite
      <3>1. PICK u : WriteBack(u) BY <2>1, KillWriteFields
      <3> QED BY <1>0, <3>1, SlotBack
    <2>2. CASE KillRead
      <3>1. inflight'.writes = inflight.writes /\ dev'.sem = dev.sem BY <2>2, KillReadFields
      <3> QED BY <1>0, <3>1, SlotSame
    <2>3. CASE UNCHANGED <<dev, inflight>> BY <1>0, <2>3, SlotSame
    <2> QED BY <1>3, <2>1, <2>2, <2>3 DEF HubDrain, DisconnectKill, DisconnectAnchor
  <1>4. CASE Probe
    <2>1. dev'.sem = dev.sem /\ UNCHANGED inflight
      BY <1>0, <1>4 DEF Probe, ProbeSetup, ProbeRegister, ProbeDma, ProbeFailed, KrefPut, NewDev,
                        Phases, Device
    <2> QED BY <1>0, <2>1, SlotSame
  <1>5. CASE Suspend \/ PreReset \/ Resume \/ PostReset \/ Unplug
    <2>1. dev'.sem = dev.sem /\ UNCHANGED inflight
      BY <1>0, <1>5 DEF Suspend, PreReset, Resume, PostReset, Unplug, Lock, AfterReset, Unlocked,
                        Raise, Device
    <2> QED BY <1>0, <2>1, SlotSame
  <1>6. CASE DisconnectData \/ DisconnectMinor \/ DisconnectFlag \/ DisconnectFree
    <2>1. dev'.sem = dev.sem /\ UNCHANGED inflight
      BY <1>0, <1>6 DEF DisconnectData, DisconnectMinor, DisconnectFlag, DisconnectFree, KrefPut, Device
    <2> QED BY <1>0, <2>1, SlotSame
  <1> QED BY <1>1, <1>2, <1>3, <1>4, <1>5, <1>6 DEF ByOthers, Power, Disconnect

----------------------------------------------------------------------------
(* The references.                                                         *)

\* The count of the device after a step that moves neither files nor the hub thread's
\* own reference.
LEMMA RefsSame ==
    ASSUME RefsAccounted, dev'.kref = dev.kref, UNCHANGED file,
           hub' \in {"probe", "failed", "unbound"} <=> hub \in {"probe", "failed", "unbound"}
    PROVE  RefsAccounted'
  BY DEF RefsAccounted

\* Opens and releases move the count with the files, other calls leave both.
LEMMA ProcessRefs ==
    ASSUME TypeOK, RefsAccounted, Inside, NEW p \in Procs, User(p) \/ Driver(p)
    PROVE  RefsAccounted'
  <1> USE DEF TypeOK, OfHub
  <1> DEFINE F == {q \in Procs : file[q]}
  <1>0. dev \in Device /\ UNCHANGED hub BY ProcessOfHub DEF DeviceOK
  <1>1. IsFiniteSet(F) /\ Cardinality(F) \in Nat
    BY UsbAssumption, FS_Subset, FS_CardinalityType
  <1>2. RefsAccounted <=>
            dev.kref = Cardinality(F) + IF hub \in {"probe", "failed", "unbound"} THEN 0 ELSE 1
    BY DEF RefsAccounted
  <1>3. RefsAccounted' <=>
            dev'.kref = Cardinality(F') + IF hub \in {"probe", "failed", "unbound"} THEN 0 ELSE 1
    BY <1>0 DEF RefsAccounted
  <1>4. CASE OpenGet(p)
    <2>1. CASE UNCHANGED <<dev, file>> BY <1>0, <2>1, RefsSame
    <2>2. CASE dev' = [dev EXCEPT !.kref = @ + 1] /\ file' = [file EXCEPT ![p] = TRUE]
      <3>1. dev'.kref = dev.kref + 1 BY <1>0, <2>2 DEF Device
      <3>2. ~file[p] BY <1>4 DEF OpenGet, Inside
      <3>3. p \notin F /\ F' = F \cup {p} BY <2>2, <3>2 DEF ProcsOK
      <3>4. Cardinality(F') = Cardinality(F) + 1 BY <1>1, <3>3, OneMore
      <3> HIDE DEF F
      <3> QED BY <1>0, <1>1, <1>2, <1>3, <3>1, <3>4
    <2> QED BY <1>4, <2>1, <2>2 DEF OpenGet
  <1>5. CASE Release(p)
    <2>1. dev'.kref = dev.kref - 1 BY <1>0, <1>5 DEF Release, KrefPut, Device
    <2>2. p \in F /\ F' = F \ {p} BY <1>5 DEF Release, ProcsOK
    <2>3. Cardinality(F') = Cardinality(F) - 1 BY <1>1, <2>2, OneMore
    <2> HIDE DEF F
    <2> QED BY <1>0, <1>1, <1>2, <1>3, <2>1, <2>3
  <1>6. CASE OpenLookup(p) \/ FlushCall(p) \/ ReadCall(p) \/ WriteCall(p)
    <2>1. dev'.kref = dev.kref /\ UNCHANGED file
      BY <1>0, <1>6 DEF OpenLookup, FlushCall, ReadCall, WriteCall, Lock, Device
    <2> QED BY <1>0, <2>1, RefsSame
  <1>7. CASE FlushDrain(p)
    <2>1. dev'.kref = dev.kref /\ UNCHANGED file
      BY <1>7, KillReadFields, KillWriteFields DEF FlushDrain, WriteBack
    <2> QED BY <1>0, <2>1, RefsSame
  <1>8. CASE FlushErrors(p) \/ ReadStart(p) \/ ReadRetry(p) \/ ReadWait(p) \/ ReadError(p)
    <2>1. dev'.kref = dev.kref /\ UNCHANGED file
      BY <1>0, <1>8 DEF FlushErrors, ReadStart, ReadRetry, ReadWait, ReadError, Unlocked, Raise, Device
    <2> QED BY <1>0, <2>1, RefsSame
  <1>9. CASE ReadClear(p) \/ ReadData(p) \/ ReadFill(p) \/ ReadSubmit(p) \/ ReadExit(p)
    <2>1. dev'.kref = dev.kref /\ UNCHANGED file
      BY <1>0, <1>9 DEF ReadClear, ReadData, ReadFill, ReadSubmit, ReadExit, Copied, Chunk, Emptied,
                        Unlocked, Raise, Device
    <2> QED BY <1>0, <2>1, RefsSame
  <1>10. CASE WriteError(p) \/ WriteCopy(p) \/ WriteLock(p) \/ WriteSubmit(p) \/ WriteUp(p)
    <2>1. dev'.kref = dev.kref /\ UNCHANGED file
      BY <1>0, <1>10 DEF WriteError, WriteCopy, WriteLock, WriteSubmit, WriteUp, Lock, Unlocked,
                         Raise, Device
    <2> QED BY <1>0, <2>1, RefsSame
  <1> QED BY <1>4, <1>5, <1>6, <1>7, <1>8, <1>9, <1>10 DEF User, Driver

\* Probe and disconnect take and give back the reference of the interface.
LEMMA OthersRefs ==
    ASSUME TypeOK, RefsAccounted, Phases, ByOthers PROVE RefsAccounted'
  <1> USE DEF TypeOK, HubGoto, OfHub
  <1> DEFINE N == Cardinality({q \in Procs : file[q]})
  <1>0. dev \in Device /\ dev.kref \in Nat /\ UNCHANGED file /\ N' = N /\ N \in Nat
    <2>1. UNCHANGED file BY OthersProcsOK DEF OfProcs
    <2> QED BY <2>1, Files DEF DeviceOK, Device
  <1>a. /\ RefsAccounted =>
               dev.kref = N + IF hub \in {"probe", "failed", "unbound"} THEN 0 ELSE 1
        /\ dev'.kref = N' + (IF hub' \in {"probe", "failed", "unbound"} THEN 0 ELSE 1)
               => RefsAccounted'
    BY DEF RefsAccounted
  <1> HIDE DEF N
  <1>1. CASE ReadDone
    BY <1>0, <1>1, ReadDoneFields, RefsSame DEF ReadBack, ReadDone
  <1>2. CASE WriteDone
    BY <1>0, <1>2, WriteDoneFields, RefsSame DEF WriteBack, WriteDone
  <1>3. CASE HubDrain
    <2>1. dev'.kref = dev.kref
      BY <1>3, KillReadFields, KillWriteFields DEF HubDrain, WriteBack
    <2> QED BY <1>0, <1>3, <2>1, RefsSame DEF HubDrain
  <1>4. CASE DisconnectKill \/ DisconnectAnchor
    <2>1. dev'.kref = dev.kref
      BY <1>4, KillReadFields, KillWriteFields DEF DisconnectKill, DisconnectAnchor, WriteBack
    <2> QED BY <1>0, <1>4, <2>1, RefsSame DEF DisconnectKill, DisconnectAnchor
  <1>5. CASE ProbeSetup
    <2>1. CASE UNCHANGED dev /\ hub' = "unbound" BY <1>0, <1>5, <2>1, RefsSame DEF ProbeSetup
    <2>2. CASE dev' = NewDev /\ hub' = "register"
      <3>1. dev.kref = 0 /\ dev'.kref = 1 BY <1>5, <2>2 DEF ProbeSetup, Phases, NewDev
      <3> QED BY <1>0, <1>a, <1>5, <2>2, <3>1 DEF ProbeSetup
    <2> QED BY <1>5, <2>1, <2>2 DEF ProbeSetup
  <1>6. CASE ProbeRegister \/ ProbeDma
    <2>1. CASE dev' = KrefPut(dev)
      <3>1. dev'.kref = dev.kref - 1 BY <1>0, <2>1 DEF KrefPut, Device
      <3>2. hub \in {"register", "dma"} /\ hub' \in {"unbound", "failed"}
        BY <1>0, <1>6, <2>1, <3>1 DEF ProbeRegister, ProbeDma, Device
      <3> QED BY <1>0, <1>a, <3>1, <3>2
    <2>2. CASE dev' # KrefPut(dev)
      <3>1. dev'.kref = dev.kref /\ hub \in {"register", "dma"} /\ hub' \in {"dma", "bound"}
        BY <1>0, <1>6, <2>2 DEF ProbeRegister, ProbeDma, Device
      <3> QED BY <1>0, <3>1, RefsSame
    <2> QED BY <2>1, <2>2
  <1>7. CASE ProbeFailed BY <1>0, <1>7, RefsSame DEF ProbeFailed
  <1>8. CASE Suspend \/ PreReset \/ Resume \/ PostReset \/ Unplug
    <2>1. dev'.kref = dev.kref
      BY <1>0, <1>8 DEF Suspend, PreReset, Resume, PostReset, Unplug, Lock, AfterReset, Unlocked,
                        Raise, Device
    <2> QED BY <1>0, <1>8, <2>1, RefsSame DEF Suspend, PreReset, Resume, PostReset, Unplug
  <1>9. CASE DisconnectData \/ DisconnectMinor \/ DisconnectFlag
    <2>1. dev'.kref = dev.kref
      BY <1>0, <1>9 DEF DisconnectData, DisconnectMinor, DisconnectFlag, Device
    <2> QED BY <1>0, <1>9, <2>1, RefsSame DEF DisconnectData, DisconnectMinor, DisconnectFlag
  <1>10. CASE DisconnectFree
    <2>1. dev'.kref = dev.kref - 1 BY <1>0, <1>10 DEF DisconnectFree, KrefPut, Device
    <2>2. hub = "d_free" /\ hub' = "unbound" BY <1>10 DEF DisconnectFree
    <2> QED BY <1>0, <1>a, <2>1, <2>2
  <1> QED BY <1>1, <1>2, <1>3, <1>4, <1>5, <1>6, <1>7, <1>8, <1>9, <1>10
          DEF ByOthers, Probe, Power, Disconnect

----------------------------------------------------------------------------
(* Files, and what is in flight of a call that has returned.               *)

\* The calls keep Inside: only who has a file gets past an open.
LEMMA ProcessInside ==
    ASSUME TypeOK, Inside, NEW p \in Procs, User(p) \/ Driver(p) PROVE Inside'
  <1> USE DEF TypeOK, Goto, Return
  <1>0. UNCHANGED iface BY ProcessOfHub DEF OfHub
  <1>1. CASE OpenLookup(p) \/ OpenGet(p) \/ Release(p)
    BY <1>0, <1>1 DEF OpenLookup, OpenGet, Release, Inside, ProcsOK
  <1>2. CASE FlushCall(p) \/ ReadCall(p) \/ WriteCall(p)
    BY <1>0, <1>2 DEF FlushCall, ReadCall, WriteCall, Call, Inside, ProcsOK
  <1>3. ASSUME NEW l, pc' = [pc EXCEPT ![p] = l], l # "open", pc[p] \notin {"out", "open"},
               UNCHANGED file
        PROVE  Inside'
    BY <1>0, <1>3 DEF Inside, ProcsOK
  <1>4. CASE FlushDrain(p)
    <2>1. CASE UNCHANGED pc BY <1>0, <1>4, <2>1 DEF FlushDrain, Inside
    <2> QED BY <1>3, <1>4, <2>1 DEF FlushDrain
  <1>5. CASE FlushErrors(p) \/ ReadStart(p) \/ ReadRetry(p) \/ ReadWait(p)
    BY <1>3, <1>5 DEF FlushErrors, ReadStart, ReadRetry, ReadWait
  <1>6. CASE ReadError(p) \/ ReadClear(p) \/ ReadData(p) \/ ReadExit(p)
    BY <1>3, <1>6 DEF ReadError, ReadClear, ReadData, ReadExit
  <1>7. CASE ReadFill(p) \/ ReadSubmit(p)
    BY <1>3, <1>7 DEF ReadFill, Filling, ReadSubmit
  <1>8. CASE WriteError(p) \/ WriteCopy(p) \/ WriteLock(p)
    BY <1>3, <1>8 DEF WriteError, WriteCopy, WriteLock
  <1>9. CASE WriteSubmit(p) \/ WriteUp(p)
    BY <1>3, <1>9 DEF WriteSubmit, WriteUp
  <1> QED BY <1>1, <1>2, <1>4, <1>5, <1>6, <1>7, <1>8, <1>9 DEF User, Driver

\* The minor is given back when no open is under way.
LEMMA OthersInside ==
    ASSUME TypeOK, Inside, ByOthers PROVE Inside'
  <1> USE DEF OfProcs, OfHub
  <1>0. UNCHANGED OfProcs BY OthersProcsOK DEF TypeOK
  <1>1. CASE DisconnectMinor
    BY <1>0, <1>1 DEF DisconnectMinor, NoOpenUnderWay, Inside
  <1>2. iface'.minor = iface.minor \/ iface'.minor = TRUE \/ DisconnectMinor
    <2>1. CASE ReadDone \/ WriteDone \/ Unplug
      BY <2>1 DEF ReadDone, WriteDone, Unplug, TypeOK, HubOK
    <2>2. CASE Probe \/ Power
      BY <2>2 DEF Probe, ProbeSetup, ProbeRegister, ProbeDma, ProbeFailed, Power, Suspend, PreReset,
                  HubDrain, Resume, PostReset, TypeOK, HubOK
    <2>3. CASE Disconnect
      BY <2>3 DEF Disconnect, DisconnectData, DisconnectFlag, DisconnectKill, DisconnectAnchor,
                  DisconnectFree, TypeOK, HubOK
    <2> QED BY <2>1, <2>2, <2>3 DEF ByOthers
  <1>3. CASE iface'.minor = iface.minor \/ iface'.minor = TRUE
    BY <1>0, <1>3 DEF Inside
  <1> QED BY <1>1, <1>2, <1>3

\* A write URB in flight after the step of a process was in flight before, or is the
\* one it submits on its way out.
LEMMA ProcessReturned ==
    ASSUME TypeOK, UrbsReturned, NEW p \in Procs, User(p) \/ Driver(p) PROVE UrbsReturned'
  <1> USE DEF TypeOK, Goto, Return
  <1>0. /\ MaxOps \in Nat /\ \A q \in Procs : ops[q] \in 0..MaxOps
        /\ \A u \in inflight.writes : u[1] \in Procs /\ u[2] \in 0..MaxOps
    BY UsbAssumption DEF ProcsOK, UrbsOK
  <1>1. CASE OpenLookup(p)
    BY <1>0, <1>1 DEF OpenLookup, UrbsReturned, ProcsOK, Writing
  <1>2. CASE Release(p)
    BY <1>0, <1>2 DEF Release, UrbsReturned, ProcsOK, Writing
  <1>3. CASE FlushCall(p) \/ ReadCall(p) \/ WriteCall(p)
    <2>1. /\ UNCHANGED inflight /\ ops' = [ops EXCEPT ![p] = @ + 1]
          /\ \E l : pc' = [pc EXCEPT ![p] = l]
      BY <1>3 DEF FlushCall, ReadCall, WriteCall, Call
    <2>2. ops'[p] = ops[p] + 1 /\ \A q \in Procs \ {p} : ops'[q] = ops[q] /\ pc'[q] = pc[q]
      BY <2>1 DEF ProcsOK
    <2>3. ASSUME NEW u \in inflight.writes
          PROVE  u[2] <= ops'[u[1]] /\ (pc'[u[1]] \in Writing => u[2] < ops'[u[1]])
      <3>1. CASE u[1] = p BY <1>0, <2>2, <3>1 DEF UrbsReturned
      <3>2. CASE u[1] # p BY <1>0, <2>2, <3>2 DEF UrbsReturned
      <3> QED BY <3>1, <3>2
    <2> QED BY <2>1, <2>3 DEF UrbsReturned
  <1>4. ASSUME NEW l, pc' = [pc EXCEPT ![p] = l], l \in Writing => pc[p] \in Writing,
               inflight'.writes \subseteq inflight.writes, UNCHANGED ops
        PROVE  UrbsReturned'
    BY <1>0, <1>4 DEF UrbsReturned, ProcsOK
  <1>5. CASE OpenGet(p) \/ FlushErrors(p) \/ ReadStart(p) \/ ReadRetry(p) \/ ReadWait(p)
    BY <1>4, <1>5 DEF OpenGet, FlushErrors, ReadStart, ReadRetry, ReadWait, Writing
  <1>6. CASE FlushDrain(p)
    <2>1. inflight'.writes \subseteq inflight.writes BY <1>6, KillsFewer DEF FlushDrain
    <2>2. CASE UNCHANGED pc BY <1>0, <1>6, <2>1, <2>2 DEF FlushDrain, UrbsReturned
    <2>3. CASE pc' = [pc EXCEPT ![p] = "f_err"]
      BY <1>4, <1>6, <2>1, <2>3 DEF FlushDrain, Writing
    <2> QED BY <1>6, <2>2, <2>3 DEF FlushDrain
  <1>7. CASE ReadError(p) \/ ReadClear(p) \/ ReadData(p) \/ ReadExit(p)
    BY <1>4, <1>7 DEF ReadError, ReadClear, ReadData, ReadExit, Writing
  <1>8. CASE ReadFill(p) \/ ReadSubmit(p)
    <2>1. inflight'.writes = inflight.writes BY <1>8 DEF ReadFill, ReadSubmit, UrbsOK
    <2> QED BY <1>4, <1>8, <2>1 DEF ReadFill, ReadSubmit, Writing
  <1>9. CASE WriteError(p) \/ WriteCopy(p) \/ WriteLock(p) \/ WriteUp(p)
    BY <1>4, <1>9 DEF WriteError, WriteCopy, WriteLock, WriteUp, Writing
  <1>10. CASE WriteSubmit(p)
    <2>1. CASE UNCHANGED inflight BY <1>4, <1>10, <2>1 DEF WriteSubmit, Writing
    <2>2. CASE /\ inflight' = [inflight EXCEPT !.writes = @ \cup {Payload(p)}]
               /\ pc' = [pc EXCEPT ![p] = "out"]
      <3>1. inflight'.writes = inflight.writes \cup {<<p, ops[p]>>} BY <2>2 DEF UrbsOK, Payload
      <3>2. UNCHANGED ops /\ pc'[p] = "out" /\ \A q \in Procs \ {p} : pc'[q] = pc[q]
        BY <1>10, <2>2 DEF WriteSubmit, ProcsOK
      <3>3. ASSUME NEW u \in inflight'.writes
            PROVE  u[2] <= ops[u[1]] /\ (pc'[u[1]] \in Writing => u[2] < ops[u[1]])
        <4>1. CASE u = <<p, ops[p]>> BY <1>0, <3>2, <4>1 DEF Writing
        <4>2. CASE u \in inflight.writes /\ u[1] = p BY <3>2, <4>2 DEF UrbsReturned, Writing
        <4>3. CASE u \in inflight.writes /\ u[1] # p BY <1>0, <3>2, <4>3 DEF UrbsReturned
        <4> QED BY <3>1, <3>3, <4>1, <4>2, <4>3
      <3> QED BY <3>2, <3>3 DEF UrbsReturned
    <2> QED BY <1>10, <2>1, <2>2 DEF WriteSubmit
  <1> QED BY <1>1, <1>2, <1>3, <1>5, <1>6, <1>7, <1>8, <1>9, <1>10 DEF User, Driver

\* The other steps only end URBs.
LEMMA OthersFewer ==
    ASSUME TypeOK, ByOthers PROVE inflight'.writes \subseteq inflight.writes
  <1> USE DEF TypeOK
  <1>1. CASE ReadDone
    <2>1. PICK n : ReadBack(n) BY <1>1, ReadDoneFields
    <2> QED BY <2>1 DEF ReadBack
  <1>2. CASE WriteDone BY <1>2, WriteDoneFields DEF WriteBack
  <1>3. CASE HubDrain \/ DisconnectKill \/ DisconnectAnchor
    BY <1>3, KillsFewer DEF HubDrain, DisconnectKill, DisconnectAnchor
  <1>4. CASE Probe \/ Unplug
    BY <1>4 DEF Probe, ProbeSetup, ProbeRegister, ProbeDma, ProbeFailed, Unplug
  <1>5. CASE Suspend \/ PreReset \/ Resume \/ PostReset
    BY <1>5 DEF Suspend, PreReset, Resume, PostReset
  <1>6. CASE DisconnectData \/ DisconnectMinor \/ DisconnectFlag \/ DisconnectFree
    BY <1>6 DEF DisconnectData, DisconnectMinor, DisconnectFlag, DisconnectFree
  <1> QED BY <1>1, <1>2, <1>3, <1>4, <1>5, <1>6 DEF ByOthers, Power, Disconnect

\* So they keep UrbsReturned.
LEMMA OthersReturned ==
    ASSUME TypeOK, UrbsReturned, ByOthers PROVE UrbsReturned'
  <1>1. UNCHANGED <<pc, ops>> BY OthersProcsOK DEF TypeOK, OfProcs
  <1> QED BY <1>1, OthersFewer DEF UrbsReturned

----------------------------------------------------------------------------
(* The read URB and its buffer.                                            *)

\* Whom a read URB in flight, or io_mutex, keeps away.
Alone(p) == \A q \in Procs \ {p} : pc[q] \notin HoldsMutex

\* Who holds io_mutex is alone with it.
LEMMA OneHolder ==
    ASSUME MutexOwner, NEW p \in Procs
    PROVE  /\ pc[p] \in HoldsMutex => Alone(p)
           /\ dev.mutex = "nobody" => \A q \in Procs : pc[q] \notin HoldsMutex
           /\ hub \in {"p_drain", "reset"} => \A q \in Procs : pc[q] \notin HoldsMutex
  <1>1. \A q \in Procs : q # "nobody" /\ q # "hub" BY UsbAssumption
  <1> QED BY <1>1 DEF MutexOwner, Alone

\* The two parts about reads, which a step that does not touch the read URB, the
\* buffer or the flags keeps when it brings no reader to a place it must earn.
Earned == {"r_retry", "r_wait", "r_error", "r_clear", "r_data", "r_fill", "r_ahead",
           "r_submit", "r_submit_ahead"}

\* A process that is not a reader, or that leaves, changes nothing for the readers.
LEMMA ReadersSame ==
    ASSUME TypeOK, ReadUrbExclusive, ReaderKnows, NEW p \in Procs,
           \A q \in Procs \ {p} : pc'[q] = pc[q], pc'[p] = pc[p] \/ pc'[p] \notin Earned,
           pc[p] \notin Submitting \/ pc'[p] = pc[p],
           inflight'.read = inflight.read, dev'.ongoing = dev.ongoing,
           dev'.filled = dev.filled, dev'.copied = dev.copied,
           dev'.disconnected = dev.disconnected
    PROVE  ReadUrbExclusive' /\ ReaderKnows'
  <1>1. \A q \in Procs : pc'[q] = pc[q] \/ pc'[q] \notin Earned
    OBVIOUS
  <1>2. \A q \in Procs : pc[q] \in Submitting => pc'[q] \in Submitting
    BY DEF Submitting
  <1>3. ReadUrbExclusive'
    BY <1>1, <1>2 DEF ReadUrbExclusive, Filling, Submitting, Earned
  <1>4. ReaderKnows'
    BY <1>1 DEF ReaderKnows, Filling, Submitting, Earned, Reading, Available
  <1> QED BY <1>3, <1>4

\* When the read URB is not in flight any more its waiter may go on.
LEMMA ReaderBack ==
    ASSUME TypeOK, ReadUrbExclusive, ReaderKnows,
           \A q \in Procs : pc'[q] = pc[q] \/ (pc'[q] \notin Earned /\ pc[q] \notin Submitting),
           inflight.read > 0 => dev'.ongoing = FALSE,
           inflight.read = 0 => dev'.ongoing = dev.ongoing /\ dev'.filled = dev.filled
                                /\ dev'.copied = dev.copied,
           inflight'.read = 0, dev'.disconnected = dev.disconnected
    PROVE  ReadUrbExclusive' /\ ReaderKnows'
  <1>0. inflight.read \in 0..Size /\ Size \in Nat BY UsbAssumption DEF TypeOK, UrbsOK
  <1>1. CASE inflight.read = 0
    <2>1. ReadUrbExclusive' BY <1>1 DEF ReadUrbExclusive, Filling, Submitting, Earned
    <2>2. ReaderKnows'
      BY <1>1 DEF ReaderKnows, Filling, Submitting, Earned, Reading, Available
    <2> QED BY <2>1, <2>2
  <1>2. CASE inflight.read > 0
    <2>1. dev.ongoing /\ \A q \in Procs : pc[q] \notin {"r_fill", "r_ahead", "r_submit", "r_submit_ahead"}
      BY <1>2 DEF ReadUrbExclusive, Filling, Submitting
    <2>2. \A q \in Procs : pc'[q] \notin {"r_fill", "r_ahead", "r_submit", "r_submit_ahead"}
      BY <2>1 DEF Earned
    <2>3. ReadUrbExclusive' BY <1>2, <2>2 DEF ReadUrbExclusive, Filling, Submitting
    <2>4. ReaderKnows'
      BY <1>2, <2>2 DEF ReaderKnows, Filling, Submitting, Earned, Reading
    <2> QED BY <2>3, <2>4
  <1> QED BY <1>0, <1>1, <1>2

\* A reader with io_mutex is alone: what it finds out and does is all that changes.
LEMMA ReaderAlone ==
    ASSUME TypeOK, MutexOwner, NEW p \in Procs, pc[p] \in HoldsMutex, NEW l,
           pc' = [pc EXCEPT ![p] = l]
    PROVE  pc'[p] = l /\ \A q \in Procs \ {p} : pc'[q] \notin Earned
  <1>1. \A q \in Procs \ {p} : pc'[q] = pc[q] /\ pc[q] \notin HoldsMutex
    BY OneHolder DEF Alone, TypeOK, ProcsOK
  <1> QED BY <1>1 DEF TypeOK, ProcsOK, Earned, HoldsMutex, Reading

\* The readers' own steps.
LEMMA ReaderSteps ==
    ASSUME TypeOK, MutexOwner, ReadUrbExclusive, ReaderKnows, NEW p \in Procs,
           \/ ReadStart(p) \/ ReadRetry(p) \/ ReadWait(p) \/ ReadError(p) \/ ReadClear(p)
           \/ ReadData(p) \/ ReadFill(p) \/ ReadSubmit(p)
    PROVE  ReadUrbExclusive' /\ ReaderKnows'
  <1> USE DEF TypeOK, Goto
  <1>0. dev \in Device /\ dev.copied \in 0..Size /\ dev.filled \in 0..Size /\ Size \in Nat
        /\ inflight.read \in 0..Size /\ count[p] \in 1..(Size + 1)
    BY UsbAssumption DEF DeviceOK, Device, UrbsOK, ProcsOK
  <1>1. pc[p] \in Reading
    BY DEF ReadStart, ReadRetry, ReadWait, ReadError, ReadClear, ReadData, ReadFill, Filling,
           ReadSubmit, Reading
  <1>2. PICK l : pc' = [pc EXCEPT ![p] = l]
    BY DEF ReadStart, ReadRetry, ReadWait, ReadError, ReadClear, ReadData, ReadFill, ReadSubmit
  <1>3. pc'[p] = l /\ \A q \in Procs \ {p} : pc'[q] \notin Earned
    BY <1>1, <1>2, ReaderAlone DEF HoldsMutex
  <1>4. \A q \in Procs : q # p => ~(\/ pc'[q] \in Submitting \/ pc'[q] \in Earned
                                    \/ pc'[q] \in {"r_fill", "r_ahead"})
    BY <1>3 DEF Submitting, Earned
  <1>5. \A q \in Procs \ {p} : pc[q] \notin Submitting
    BY <1>1, OneHolder DEF Alone, HoldsMutex, Reading, Submitting
  <1> HIDE DEF Goto
  <1>6. CASE ReadStart(p)
    <2>1. UNCHANGED <<dev, inflight>> /\ l \in {"r_exit", "r_retry"} /\ pc[p] = "r_start"
          /\ (l = "r_retry" => ~dev.disconnected)
      BY <1>2, <1>3, <1>6 DEF ReadStart, Goto, ProcsOK
    <2>2. ReadUrbExclusive' BY <1>3, <1>4, <1>5, <2>1 DEF ReadUrbExclusive, Filling, Submitting
    <2>3. ReaderKnows' BY <1>3, <1>4, <2>1 DEF ReaderKnows, Filling, Submitting, Reading, Earned
    <2> QED BY <2>2, <2>3
  <1>7. CASE ReadRetry(p) \/ ReadWait(p)
    <2>1. UNCHANGED <<dev, inflight>> /\ l \in {"r_exit", "r_error", "r_wait"}
          /\ pc[p] \in {"r_retry", "r_wait"} /\ (l = "r_error" => ~dev.ongoing)
      BY <1>2, <1>3, <1>7 DEF ReadRetry, ReadWait, Goto, ProcsOK
    <2>2. ~dev.disconnected BY <2>1 DEF ReaderKnows, Reading
    <2>3. ReadUrbExclusive' BY <1>3, <1>4, <1>5, <2>1 DEF ReadUrbExclusive, Filling, Submitting
    <2>4. ReaderKnows' BY <1>3, <1>4, <2>1, <2>2 DEF ReaderKnows, Filling, Submitting, Reading, Earned
    <2> QED BY <2>3, <2>4
  <1>8. CASE ReadError(p) \/ ReadClear(p)
    <2>1. /\ l \in {"r_exit", "r_clear", "r_data"} /\ pc[p] \in {"r_error", "r_clear"}
          /\ UNCHANGED inflight
          /\ dev'.ongoing = dev.ongoing /\ dev'.filled = dev.filled
          /\ dev'.copied = dev.copied /\ dev'.disconnected = dev.disconnected
      BY <1>0, <1>2, <1>3, <1>8 DEF ReadError, ReadClear, Raise, Device, Goto, ProcsOK
    <2>2. ~dev.disconnected /\ ~dev.ongoing BY <2>1 DEF ReaderKnows, Reading
    <2>3. ReadUrbExclusive' BY <1>3, <1>4, <1>5, <2>1 DEF ReadUrbExclusive, Filling, Submitting
    <2>4. ReaderKnows' BY <1>3, <1>4, <2>1, <2>2 DEF ReaderKnows, Filling, Submitting, Reading, Earned
    <2> QED BY <2>3, <2>4
  <1>9. CASE ReadData(p)
    <2>1. ~dev.disconnected /\ ~dev.ongoing /\ pc[p] = "r_data"
      BY <1>9 DEF ReadData, ReaderKnows, Reading
    <2>2. inflight.read = 0 BY <1>0, <2>1 DEF ReadUrbExclusive
    <2>3. /\ UNCHANGED inflight /\ l \in {"r_fill", "r_ahead", "r_exit"}
          /\ dev'.ongoing = dev.ongoing /\ dev'.disconnected = dev.disconnected
          /\ dev'.filled = dev.filled
      BY <1>0, <1>2, <1>3, <1>9 DEF ReadData, Copied, Device, Goto, ProcsOK
    <2>4. l \in {"r_fill", "r_ahead"} => Available' = 0
      <3>1. CASE Available = 0 BY <1>9, <3>1 DEF ReadData, Available
      <3>2. CASE Available # 0 /\ Available < count[p]
        <4>1. dev' = [dev EXCEPT !.copied = @ + (dev.filled - dev.copied)]
          BY <1>9, <3>2 DEF ReadData, Copied, Chunk, Least, Available
        <4>2. dev'.copied = dev.copied + (dev.filled - dev.copied) BY <1>0, <4>1 DEF Device
        <4> QED BY <1>0, <2>3, <4>2 DEF Available
      <3>3. CASE Available # 0 /\ ~(Available < count[p])
        <4>1. l = "r_exit" BY <1>2, <1>3, <1>9, <3>3 DEF ReadData, Goto, ProcsOK
        <4> QED BY <4>1
      <3> QED BY <3>1, <3>2, <3>3
    <2>5. ReadUrbExclusive'
      BY <1>3, <1>4, <1>5, <2>1, <2>2, <2>3 DEF ReadUrbExclusive, Filling, Submitting
    <2>6. ReaderKnows'
      BY <1>3, <1>4, <2>1, <2>2, <2>3, <2>4 DEF ReaderKnows, Filling, Submitting, Reading, Earned
    <2> QED BY <2>5, <2>6
  <1>10. CASE ReadFill(p)
    <2>1. ~dev.disconnected /\ inflight.read = 0
      BY <1>10 DEF ReadFill, Filling, ReaderKnows, Reading, ReadUrbExclusive
    <2>2. /\ UNCHANGED inflight /\ l \in Submitting
          /\ dev'.ongoing = TRUE /\ dev'.disconnected = dev.disconnected
          /\ dev'.filled = 0 /\ dev'.copied = 0
      BY <1>0, <1>2, <1>3, <1>10 DEF ReadFill, Emptied, Device, Goto, ProcsOK, Submitting
    <2>3. ReadUrbExclusive' BY <1>3, <1>4, <2>1, <2>2 DEF ReadUrbExclusive, Filling, Submitting
    <2>4. ReaderKnows'
      BY <1>3, <1>4, <2>1, <2>2 DEF ReaderKnows, Filling, Submitting, Reading, Earned
    <2> QED BY <2>3, <2>4
  <1>11. CASE ReadSubmit(p)
    <2>1. ~dev.disconnected /\ inflight.read = 0 /\ dev.ongoing /\ dev.filled = 0 /\ dev.copied = 0
      BY <1>11 DEF ReadSubmit, Submitting, ReaderKnows, Reading, ReadUrbExclusive
    <2>2. l \in {"r_retry", "r_exit"}
      BY <1>2, <1>3, <1>11 DEF ReadSubmit, Goto, ProcsOK
    <2>3. \/ UNCHANGED dev /\ inflight'.read > 0
          \/ /\ inflight'.read = 0 /\ dev'.ongoing = FALSE /\ dev'.disconnected = dev.disconnected
      <3>1. CASE UNCHANGED dev /\ inflight' = [inflight EXCEPT !.read = Least(Size, count[p])]
        <4>1. Least(Size, count[p]) > 0 BY <1>0, UsbAssumption DEF Least
        <4>2. inflight'.read = Least(Size, count[p]) BY <3>1 DEF UrbsOK
        <4> QED BY <3>1, <4>1, <4>2
      <3>2. CASE UNCHANGED inflight /\ dev' = [dev EXCEPT !.ongoing = FALSE]
        BY <1>0, <2>1, <3>2 DEF Device
      <3> QED BY <1>11, <3>1, <3>2 DEF ReadSubmit
    <2>4. ReadUrbExclusive'
      BY <1>3, <1>4, <2>1, <2>2, <2>3 DEF ReadUrbExclusive, Filling, Submitting
    <2>5. ReaderKnows'
      BY <1>3, <1>4, <2>1, <2>2, <2>3 DEF ReaderKnows, Filling, Submitting, Reading, Earned
    <2> QED BY <2>4, <2>5
  <1> QED BY <1>6, <1>7, <1>8, <1>9, <1>10, <1>11

\* The other steps of a process leave the read URB to the readers.
LEMMA ProcessReaders ==
    ASSUME TypeOK, MutexOwner, ReadUrbExclusive, ReaderKnows, NEW p \in Procs, User(p) \/ Driver(p)
    PROVE  ReadUrbExclusive' /\ ReaderKnows'
  <1> USE DEF TypeOK
  <1>0. dev \in Device /\ inflight.read \in Nat BY UsbAssumption DEF DeviceOK, UrbsOK
  <1>1. ASSUME NEW l, l \notin Earned, Goto(p, l), pc[p] \notin Submitting,
               inflight'.read = inflight.read, dev'.ongoing = dev.ongoing,
               dev'.filled = dev.filled, dev'.copied = dev.copied,
               dev'.disconnected = dev.disconnected
        PROVE  ReadUrbExclusive' /\ ReaderKnows'
    <2>1. pc'[p] = l /\ \A q \in Procs \ {p} : pc'[q] = pc[q] BY <1>1 DEF Goto, ProcsOK
    <2> QED BY <1>1, <2>1, ReadersSame
  <1>2. CASE OpenLookup(p) \/ OpenGet(p)
    <2>1. /\ inflight'.read = inflight.read /\ dev'.ongoing = dev.ongoing
          /\ dev'.filled = dev.filled /\ dev'.copied = dev.copied
          /\ dev'.disconnected = dev.disconnected
      BY <1>0, <1>2 DEF OpenLookup, OpenGet, Device
    <2> QED BY <1>1, <1>2, <2>1 DEF OpenLookup, OpenGet, Return, Earned, Submitting
  <1>3. CASE Release(p)
    <2>1. /\ inflight'.read = inflight.read /\ dev'.ongoing = dev.ongoing
          /\ dev'.filled = dev.filled /\ dev'.copied = dev.copied
          /\ dev'.disconnected = dev.disconnected /\ UNCHANGED pc
      BY <1>0, <1>3 DEF Release, KrefPut, Device
    <2> QED BY <2>1, ReadersSame
  <1>4. CASE FlushCall(p) \/ ReadCall(p) \/ WriteCall(p)
    <2>1. /\ inflight'.read = inflight.read /\ dev'.ongoing = dev.ongoing
          /\ dev'.filled = dev.filled /\ dev'.copied = dev.copied
          /\ dev'.disconnected = dev.disconnected
      BY <1>0, <1>4 DEF FlushCall, ReadCall, WriteCall, Lock, Device
    <2> QED BY <1>1, <1>4, <2>1 DEF FlushCall, ReadCall, WriteCall, Call, Earned, Submitting
  <1>5. CASE FlushDrain(p)
    <2>1. CASE KillWrite /\ UNCHANGED pc
      <3>1. PICK u : WriteBack(u) BY <2>1, KillWriteFields
      <3>2. inflight'.read = inflight.read BY <3>1 DEF WriteBack
      <3> QED BY <2>1, <3>1, <3>2, ReadersSame DEF WriteBack
    <2>2. CASE KillRead /\ Goto(p, "f_err")
      <3>a. inflight'.read = 0 /\ dev'.disconnected = dev.disconnected BY <2>2, KillReadFields
      <3>b. inflight.read # 0 => dev'.ongoing = FALSE BY <2>2, KillReadFields
      <3>c. inflight.read = 0 => dev' = dev BY <2>2, KillReadFields
      <3>1. /\ inflight'.read = 0 /\ dev'.disconnected = dev.disconnected
            /\ inflight.read > 0 => dev'.ongoing = FALSE
            /\ inflight.read = 0 => dev'.ongoing = dev.ongoing /\ dev'.filled = dev.filled
                                    /\ dev'.copied = dev.copied
        BY <1>0, <3>a, <3>b, <3>c
      <3>2. \A q \in Procs : pc'[q] = pc[q] \/ (pc'[q] \notin Earned /\ pc[q] \notin Submitting)
        BY <1>5, <2>2 DEF FlushDrain, Goto, ProcsOK, Earned, Submitting
      <3> QED BY <3>1, <3>2, ReaderBack
    <2> QED BY <1>5, <2>1, <2>2 DEF FlushDrain
  <1>6. CASE FlushErrors(p) \/ ReadExit(p)
    <2>1. /\ inflight'.read = inflight.read /\ dev'.ongoing = dev.ongoing
          /\ dev'.filled = dev.filled /\ dev'.copied = dev.copied
          /\ dev'.disconnected = dev.disconnected
      BY <1>0, <1>6 DEF FlushErrors, ReadExit, Unlocked, Raise, Device
    <2> QED BY <1>1, <1>6, <2>1 DEF FlushErrors, ReadExit, Return, Earned, Submitting
  <1>7. CASE WriteError(p) \/ WriteCopy(p) \/ WriteLock(p)
    <2>1. /\ inflight'.read = inflight.read /\ dev'.ongoing = dev.ongoing
          /\ dev'.filled = dev.filled /\ dev'.copied = dev.copied
          /\ dev'.disconnected = dev.disconnected
      BY <1>0, <1>7 DEF WriteError, WriteCopy, WriteLock, Lock, Raise, Device
    <2> QED BY <1>1, <1>7, <2>1 DEF WriteError, WriteCopy, WriteLock, Return, Earned, Submitting
  <1>8. CASE WriteSubmit(p) \/ WriteUp(p)
    <2>1. /\ inflight'.read = inflight.read /\ dev'.ongoing = dev.ongoing
          /\ dev'.filled = dev.filled /\ dev'.copied = dev.copied
          /\ dev'.disconnected = dev.disconnected
      BY <1>0, <1>8 DEF WriteSubmit, WriteUp, Unlocked, Device, UrbsOK
    <2> QED BY <1>1, <1>8, <2>1 DEF WriteSubmit, WriteUp, Return, Earned, Submitting
  <1> QED BY <1>2, <1>3, <1>4, <1>5, <1>6, <1>7, <1>8, ReaderSteps DEF User, Driver

\* Callbacks end what a reader waits for, and disconnect waits for the readers.
LEMMA OthersReaders ==
    ASSUME TypeOK, MutexOwner, ReadUrbExclusive, ReaderKnows, Phases, ByOthers
    PROVE  ReadUrbExclusive' /\ ReaderKnows'
  <1> USE DEF TypeOK
  <1>0. dev \in Device /\ UNCHANGED pc /\ inflight.read \in Nat
    BY OthersProcsOK, UsbAssumption DEF DeviceOK, OfProcs, UrbsOK
  <1>a. \A q \in Procs : pc'[q] = pc[q] \/ (pc'[q] \notin Earned /\ pc[q] \notin Submitting)
    BY <1>0
  <1>1. ASSUME inflight'.read = inflight.read, dev'.ongoing = dev.ongoing,
               dev'.filled = dev.filled, dev'.copied = dev.copied,
               dev'.disconnected = dev.disconnected
        PROVE  ReadUrbExclusive' /\ ReaderKnows'
    BY <1>0, <1>1 DEF ReadUrbExclusive, ReaderKnows, Filling, Available
  <1>2. CASE ReadDone
    <2>1. PICK n : ReadBack(n) BY <1>2, ReadDoneFields
    <2>2. /\ inflight'.read = 0 /\ dev'.disconnected = dev.disconnected
          /\ inflight.read > 0 => dev'.ongoing = FALSE
          /\ inflight.read = 0 => dev'.ongoing = dev.ongoing /\ dev'.filled = dev.filled
                                  /\ dev'.copied = dev.copied
      BY <1>0, <2>1 DEF ReadBack
    <2> QED BY <1>a, <2>2, ReaderBack
  <1>3. CASE WriteDone
    <2>1. PICK u : WriteBack(u) BY <1>3, WriteDoneFields
    <2> QED BY <1>1, <2>1 DEF WriteBack
  <1>4. CASE HubDrain \/ DisconnectKill \/ DisconnectAnchor
    <2>1. CASE KillWrite
      <3>1. PICK u : WriteBack(u) BY <2>1, KillWriteFields
      <3> QED BY <1>1, <3>1 DEF WriteBack
    <2>2. CASE KillRead
      <3>a. inflight'.read = 0 /\ dev'.disconnected = dev.disconnected BY <2>2, KillReadFields
      <3>b. inflight.read # 0 => dev'.ongoing = FALSE BY <2>2, KillReadFields
      <3>c. inflight.read = 0 => dev' = dev BY <2>2, KillReadFields
      <3>1. /\ inflight'.read = 0 /\ dev'.disconnected = dev.disconnected
            /\ inflight.read > 0 => dev'.ongoing = FALSE
            /\ inflight.read = 0 => dev'.ongoing = dev.ongoing /\ dev'.filled = dev.filled
                                    /\ dev'.copied = dev.copied
        BY <1>0, <3>a, <3>b, <3>c
      <3> QED BY <1>a, <3>1, ReaderBack
    <2>3. CASE UNCHANGED <<dev, inflight>> BY <1>1, <2>3
    <2> QED BY <1>4, <2>1, <2>2, <2>3 DEF HubDrain, DisconnectKill, DisconnectAnchor
  <1>5. CASE Probe
    <2>1. CASE ProbeSetup
      <3>1. dev.ongoing = FALSE /\ dev.filled = 0 /\ dev.copied = 0 /\ dev.disconnected = FALSE
        BY <2>1 DEF ProbeSetup, Phases, NewDev
      <3>2. dev'.ongoing = FALSE /\ dev'.filled = 0 /\ dev'.copied = 0 /\ dev'.disconnected = FALSE
        BY <2>1, <3>1 DEF ProbeSetup, NewDev
      <3> QED BY <1>1, <2>1, <3>1, <3>2 DEF ProbeSetup
    <2>2. CASE ProbeRegister \/ ProbeDma \/ ProbeFailed
      <3>1. /\ dev'.ongoing = dev.ongoing /\ dev'.filled = dev.filled /\ dev'.copied = dev.copied
            /\ dev'.disconnected = dev.disconnected
        BY <1>0, <2>2 DEF ProbeRegister, ProbeDma, ProbeFailed, KrefPut, Device
      <3> QED BY <1>1, <2>2, <3>1 DEF ProbeRegister, ProbeDma, ProbeFailed
    <2> QED BY <1>5, <2>1, <2>2 DEF Probe
  <1>6. CASE Suspend \/ PreReset \/ Resume \/ PostReset \/ Unplug
    <2>1. /\ dev'.ongoing = dev.ongoing /\ dev'.filled = dev.filled /\ dev'.copied = dev.copied
          /\ dev'.disconnected = dev.disconnected /\ UNCHANGED inflight
      BY <1>0, <1>6 DEF Suspend, PreReset, Resume, PostReset, Unplug, Lock, AfterReset, Unlocked,
                        Raise, Device
    <2> QED BY <1>1, <2>1
  <1>7. CASE DisconnectData \/ DisconnectMinor \/ DisconnectFree
    <2>1. /\ dev'.ongoing = dev.ongoing /\ dev'.filled = dev.filled /\ dev'.copied = dev.copied
          /\ dev'.disconnected = dev.disconnected /\ UNCHANGED inflight
      BY <1>0, <1>7 DEF DisconnectData, DisconnectMinor, DisconnectFree, KrefPut, Device
    <2> QED BY <1>1, <2>1
  <1>8. CASE DisconnectFlag
    <2>1. \A q \in Procs : pc[q] \notin HoldsMutex
      BY <1>8, OneHolder DEF DisconnectFlag, MutexFree
    <2>2. /\ dev'.ongoing = dev.ongoing /\ dev'.filled = dev.filled /\ dev'.copied = dev.copied
          /\ UNCHANGED inflight
      BY <1>0, <1>8 DEF DisconnectFlag, Device
    <2>3. ReadUrbExclusive' BY <1>0, <2>2 DEF ReadUrbExclusive, Filling
    <2>4. ReaderKnows'
      BY <1>0, <2>1, <2>2 DEF ReaderKnows, Filling, Available, HoldsMutex, Reading, Submitting
    <2> QED BY <2>3, <2>4
  <1> QED BY <1>2, <1>3, <1>4, <1>5, <1>6, <1>7, <1>8 DEF ByOthers, Power, Disconnect

----------------------------------------------------------------------------
(* The phases of the hub thread.                                           *)

\* The steps of the processes keep Phases: nothing is submitted while the device is
\* not there, or when it is disconnected.
LEMMA ProcessPhases ==
    ASSUME Accounted, NEW p \in Procs, User(p) \/ Driver(p) PROVE Phases'
  <1> USE DEF Accounted, TypeOK
  <1>0. dev \in Device /\ UNCHANGED <<hub, iface>> BY ProcessOfHub DEF DeviceOK, OfHub
  <1>1. hub \notin {"probe", "register"}
    <2>1. CASE OpenLookup(p) BY <2>1 DEF OpenLookup, Phases
    <2>2. CASE pc[p] # "out" \/ file[p] BY <2>2 DEF Phases, NobodyIn
    <2>3. pc[p] # "out" \/ file[p] \/ OpenLookup(p)
      BY DEF User, Driver, Release, FlushCall, ReadCall, WriteCall, Call, OpenGet, FlushDrain,
             FlushErrors, ReadStart, ReadRetry, ReadWait, ReadError, ReadClear, ReadData, ReadFill,
             Filling, ReadSubmit, ReadExit, WriteError, WriteCopy, WriteLock, WriteSubmit, WriteUp
    <2> QED BY <2>1, <2>2, <2>3
  <1>2. ~(hub = "unbound" /\ ~iface.minor /\ NobodyIn)
    <2>1. CASE OpenLookup(p) BY <2>1 DEF OpenLookup
    <2>2. CASE pc[p] # "out" \/ file[p] BY <2>2 DEF NobodyIn
    <2>3. pc[p] # "out" \/ file[p] \/ OpenLookup(p)
      BY DEF User, Driver, Release, FlushCall, ReadCall, WriteCall, Call, OpenGet, FlushDrain,
             FlushErrors, ReadStart, ReadRetry, ReadWait, ReadError, ReadClear, ReadData, ReadFill,
             Filling, ReadSubmit, ReadExit, WriteError, WriteCopy, WriteLock, WriteSubmit, WriteUp
    <2> QED BY <2>1, <2>2, <2>3
  <1>3. dev'.disconnected = dev.disconnected
    <2>1. CASE User(p)
      BY <1>0, <2>1 DEF User, OpenLookup, Release, FlushCall, ReadCall, WriteCall, KrefPut, Lock, Device
    <2>2. CASE OpenGet(p) \/ FlushErrors(p) \/ ReadStart(p) \/ ReadRetry(p) \/ ReadWait(p)
      BY <1>0, <2>2 DEF OpenGet, FlushErrors, ReadStart, ReadRetry, ReadWait, Unlocked, Raise, Device
    <2>3. CASE FlushDrain(p)
      BY <2>3, KillReadFields, KillWriteFields DEF FlushDrain, WriteBack
    <2>4. CASE ReadError(p) \/ ReadClear(p) \/ ReadData(p) \/ ReadFill(p) \/ ReadSubmit(p)
      BY <1>0, <2>4 DEF ReadError, ReadClear, ReadData, ReadFill, ReadSubmit, Copied, Chunk, Emptied,
                        Raise, Device
    <2>5. CASE ReadExit(p) \/ WriteError(p) \/ WriteCopy(p) \/ WriteLock(p) \/ WriteSubmit(p) \/ WriteUp(p)
      BY <1>0, <2>5 DEF ReadExit, WriteError, WriteCopy, WriteLock, WriteSubmit, WriteUp, Lock,
                        Unlocked, Raise, Device
    <2> QED BY <2>1, <2>2, <2>3, <2>4, <2>5 DEF Driver
  <1>4. inflight' # inflight /\ ~FlushDrain(p) => ~dev.disconnected
    <2>1. CASE User(p)
      BY <2>1 DEF User, OpenLookup, Release, FlushCall, ReadCall, WriteCall
    <2>2. CASE OpenGet(p) \/ FlushErrors(p) \/ ReadStart(p) \/ ReadRetry(p) \/ ReadWait(p)
      BY <2>2 DEF OpenGet, FlushErrors, ReadStart, ReadRetry, ReadWait
    <2>3. CASE ReadError(p) \/ ReadClear(p) \/ ReadData(p) \/ ReadFill(p) \/ ReadExit(p)
      BY <2>3 DEF ReadError, ReadClear, ReadData, ReadFill, ReadExit
    <2>4. CASE ReadSubmit(p) BY <2>4 DEF ReadSubmit, ReaderKnows, Reading
    <2>5. CASE WriteError(p) \/ WriteCopy(p) \/ WriteLock(p) \/ WriteUp(p)
      BY <2>5 DEF WriteError, WriteCopy, WriteLock, WriteUp
    <2>6. CASE WriteSubmit(p) BY <2>6 DEF WriteSubmit, Connected
    <2> QED BY <2>1, <2>2, <2>3, <2>4, <2>5, <2>6 DEF Driver
  <1>5. CASE inflight' = inflight
    BY <1>0, <1>1, <1>2, <1>3, <1>5 DEF Phases
  <1>6. CASE ~dev.disconnected
    BY <1>0, <1>1, <1>2, <1>3, <1>6 DEF Phases
  <1>7. CASE FlushDrain(p)
    <2>1. KillRead \/ KillWrite BY <1>7 DEF FlushDrain
    <2>2. inflight'.read \in {inflight.read, 0} /\ inflight'.writes \subseteq inflight.writes
          /\ inflight' \in [read : 0..Size, writes : SUBSET (Procs \X (0..MaxOps))]
      BY <2>1, KillsFewer
    <2>3. inflight = NoUrb => inflight' = NoUrb BY <2>2 DEF NoUrb
    <2> QED BY <1>0, <1>1, <1>2, <1>3, <2>2, <2>3 DEF Phases
  <1> QED BY <1>4, <1>5, <1>6, <1>7

\* So do the callbacks, and the hub thread goes from phase to phase.
LEMMA OthersPhases ==
    ASSUME Accounted, ByOthers PROVE Phases'
  <1> USE DEF Accounted, TypeOK, HubGoto, OfHub
  <1>0. dev \in Device BY DEF DeviceOK
  <1>a. UNCHANGED <<pc, file>> BY OthersProcsOK DEF OfProcs
  <1>b. NobodyIn' <=> NobodyIn BY <1>a DEF NobodyIn
  <1>c. inflight = [read |-> inflight.read, writes |-> inflight.writes] BY DEF UrbsOK
  <1> USE DEF Present
  <1>1. CASE ReadDone
    <2>1. PICK n : ReadBack(n) BY <1>1, ReadDoneFields
    <2>2. inflight'.read = 0 /\ inflight'.writes = inflight.writes /\ inflight # NoUrb
          /\ dev'.disconnected = dev.disconnected
      BY <2>1 DEF ReadBack, NoUrb
    <2>3. UNCHANGED <<hub, iface>> BY <1>1 DEF ReadDone
    <2>4. hub \notin {"probe", "register"} BY <2>2 DEF Phases
    <2>5. ~(hub = "unbound" /\ ~iface.minor) BY <2>2 DEF Phases
    <2> QED BY <1>b, <2>2, <2>3, <2>4, <2>5 DEF Phases
  <1>2. CASE WriteDone
    <2>1. PICK u : WriteBack(u) BY <1>2, WriteDoneFields
    <2>2. inflight'.read = inflight.read /\ inflight'.writes \subseteq inflight.writes /\ inflight # NoUrb
          /\ dev'.disconnected = dev.disconnected
      BY <2>1 DEF WriteBack, NoUrb
    <2>3. UNCHANGED <<hub, iface>> BY <1>2 DEF WriteDone
    <2>4. hub \notin {"probe", "register"} BY <2>2 DEF Phases
    <2>5. ~(hub = "unbound" /\ ~iface.minor) BY <2>2 DEF Phases
    <2> QED BY <1>b, <2>2, <2>3, <2>4, <2>5 DEF Phases
  <1>3. CASE ProbeSetup
    <2>1. dev'.disconnected = FALSE /\ ~iface.minor /\ NobodyIn /\ inflight = NoUrb
      BY <1>3 DEF ProbeSetup, Phases, NewDev
    <2> QED BY <1>3, <1>b, <2>1 DEF ProbeSetup, Phases
  <1>4. CASE ProbeRegister
    <2>1. dev'.disconnected = dev.disconnected BY <1>0, <1>4 DEF ProbeRegister, KrefPut, Device
    <2>2. ~iface.minor /\ NobodyIn /\ inflight = NoUrb BY <1>4 DEF ProbeRegister, Phases
    <2>3. hub' = "dma" => iface'.minor BY <1>4 DEF ProbeRegister, HubOK
    <2> QED BY <1>4, <1>b, <2>1, <2>2, <2>3 DEF ProbeRegister, Phases
  <1>5. CASE ProbeDma \/ ProbeFailed
    <2>1. dev'.disconnected = dev.disconnected BY <1>0, <1>5 DEF ProbeDma, ProbeFailed, KrefPut, Device
    <2>2. iface'.minor = iface.minor /\ UNCHANGED inflight BY <1>5 DEF ProbeDma, ProbeFailed, HubOK
    <2>3. hub \in {"dma", "failed"} /\ hub' \in {"bound", "failed", "unbound"}
      BY <1>5 DEF ProbeDma, ProbeFailed
    <2> QED BY <1>b, <2>1, <2>2, <2>3 DEF Phases
  <1>6. CASE Suspend \/ PreReset \/ Resume \/ PostReset \/ Unplug
    <2>1. dev'.disconnected = dev.disconnected
      BY <1>0, <1>6 DEF Suspend, PreReset, Resume, PostReset, Unplug, Lock, AfterReset, Unlocked,
                        Raise, Device
    <2>2. iface'.minor = iface.minor /\ UNCHANGED inflight
      BY <1>6 DEF Suspend, PreReset, Resume, PostReset, Unplug, HubOK
    <2>3. hub \in Present /\ hub' \in Present \cup {"gone"}
      BY <1>6 DEF Suspend, PreReset, Resume, PostReset, Unplug
    <2> QED BY <1>b, <2>1, <2>2, <2>3 DEF Phases
  <1>7. CASE HubDrain
    <2>1. dev'.disconnected = dev.disconnected
      BY <1>7, KillReadFields, KillWriteFields DEF HubDrain, WriteBack
    <2>2. UNCHANGED iface /\ hub \in Present /\ hub' \in Present BY <1>7 DEF HubDrain
    <2> QED BY <1>b, <2>1, <2>2 DEF Phases
  <1>8. CASE DisconnectData \/ DisconnectMinor
    <2>1. UNCHANGED <<dev, inflight>> BY <1>8 DEF DisconnectData, DisconnectMinor
    <2>2. \/ hub = "gone" /\ hub' = "d_minor" /\ iface'.minor = iface.minor
          \/ hub = "d_minor" /\ hub' = "d_lock" /\ iface'.minor = FALSE
      BY <1>8 DEF DisconnectData, DisconnectMinor, HubOK
    <2> QED BY <1>b, <2>1, <2>2 DEF Phases
  <1>9. CASE DisconnectFlag
    <2>1. dev'.disconnected = TRUE BY <1>0, <1>9 DEF DisconnectFlag, Device
    <2> QED BY <1>9, <1>b, <2>1 DEF DisconnectFlag, Phases
  <1>10. CASE DisconnectKill
    <2>1. dev'.disconnected = dev.disconnected /\ inflight'.read = 0
      BY <1>10, KillReadFields DEF DisconnectKill
    <2> QED BY <1>10, <1>b, <2>1 DEF DisconnectKill, Phases
  <1>11. CASE DisconnectAnchor
    <2>1. CASE KillWrite /\ UNCHANGED hub
      <3>1. PICK u : WriteBack(u) BY <2>1, KillWriteFields
      <3>2. dev'.disconnected = dev.disconnected /\ inflight'.read = inflight.read
        BY <3>1 DEF WriteBack
      <3> QED BY <1>11, <1>b, <2>1, <3>2 DEF DisconnectAnchor, Phases
    <2>2. CASE inflight.writes = {} /\ hub' = "d_free" /\ UNCHANGED <<dev, inflight>>
      BY <1>11, <1>b, <2>2 DEF DisconnectAnchor, Phases
    <2> QED BY <1>11, <2>1, <2>2 DEF DisconnectAnchor
  <1>12. CASE DisconnectFree
    <2>1. dev'.disconnected = dev.disconnected BY <1>0, <1>12 DEF DisconnectFree, KrefPut, Device
    <2>2. inflight = NoUrb BY <1>12, <1>c DEF DisconnectFree, Phases, NoUrb
    <2> QED BY <1>12, <1>b, <2>1, <2>2 DEF DisconnectFree, Phases
  <1> QED BY <1>1, <1>2, <1>3, <1>4, <1>5, <1>6, <1>7, <1>8, <1>9, <1>10, <1>11, <1>12
          DEF ByOthers, Probe, Power, Disconnect

----------------------------------------------------------------------------
(* The units.                                                              *)

\* What is filled is in the buffer, in the order in which it came.
Buffered ==
    /\ dev.filled <= Len(buffer)
    /\ \A i, j \in 1..Len(buffer) : i < j => buffer[i] < buffer[j]

UnitsInv == UnitsInOrder /\ Buffered

\* Numbers and sequences the units are told with.
LEMMA UnitsTypes ==
    ASSUME TypeOK
    PROVE  /\ dev \in Device /\ dev.filled \in Nat /\ dev.copied \in Nat /\ dev.copied <= dev.filled
           /\ given \in Nat /\ taken \in Seq(1..given) /\ buffer \in Seq(1..given) /\ lost \subseteq 1..given
           /\ Len(buffer) \in Nat /\ Len(taken) \in Nat /\ DOMAIN taken = 1..Len(taken)
  <1>1. /\ dev \in Device /\ dev.filled \in Nat /\ dev.copied \in Nat /\ dev.copied <= dev.filled /\ given \in Nat
    BY UsbAssumption DEF TypeOK, DeviceOK, Device, UrbsOK
  <1>2. taken \in Seq(1..given) /\ buffer \in Seq(1..given) /\ lost \subseteq 1..given BY DEF TypeOK, UrbsOK
  <1> QED BY <1>1, <1>2

\* What does not touch the buffer keeps the units.
LEMMA UnitsSame ==
    ASSUME UnitsInv, dev'.filled = dev.filled, dev'.copied = dev.copied, UNCHANGED Units
    PROVE  UnitsInv'
  BY DEF UnitsInv, UnitsInOrder, Buffered, Waiting, Had, Units

\* New units come into a buffer of which everything was had.
LEMMA UnitsCome ==
    ASSUME TypeOK, UnitsInv, dev.filled = 0, NEW n \in Nat, Arrived(n), taken' = taken, dev'.copied = 0,
           \/ dev'.filled = n /\ lost' = lost
           \/ dev'.filled = 0 /\ lost' = lost \cup (given + 1)..(given + n)
    PROVE  UnitsInv'
  <1>1. /\ given \in Nat /\ given' = given + n /\ buffer' = [i \in 1..n |-> given + i]
        /\ taken \in Seq(1..given) /\ DOMAIN taken = 1..Len(taken) /\ lost \subseteq 1..given
    BY UnitsTypes DEF Arrived
  <1>2. Len(buffer') = n /\ \A i \in 1..n : buffer'[i] = given + i BY <1>1
  <1>3. Buffered' BY <1>1, <1>2 DEF Buffered
  <1>4. Waiting = {} /\ Had' = Had
    <2>1. (dev.copied + 1)..dev.filled = {} BY UnitsTypes
    <2> QED BY <2>1 DEF Waiting, Had
  <1>5. Had \subseteq 1..given BY <1>1 DEF Had
  <1>6. Waiting' = IF dev'.filled = n THEN (given + 1)..(given + n) ELSE {}
    <2>1. CASE dev'.filled = n
      <3>1. Waiting' = {given + i : i \in 1..n} BY <1>2, <2>1 DEF Waiting
      <3>2. ASSUME NEW u \in (given + 1)..(given + n) PROVE u \in {given + i : i \in 1..n}
        <4>1. u - given \in 1..n /\ u = given + (u - given) BY <1>1
        <4> QED BY <4>1
      <3>3. {given + i : i \in 1..n} \subseteq (given + 1)..(given + n) BY <1>1
      <3> QED BY <2>1, <3>1, <3>2, <3>3
    <2>2. CASE dev'.filled # n
      BY <2>2 DEF Waiting
    <2> QED BY <2>1, <2>2
  <1>7. 1..given' = 1..given \cup (given + 1)..(given + n) BY <1>1
  <1>8. 1..given = Had \cup lost /\ lost \cap Had = {} BY <1>4 DEF UnitsInv, UnitsInOrder
  <1>9. 1..given' = Had' \cup Waiting' \cup lost'
    <2>1. CASE dev'.filled = n /\ lost' = lost BY <1>4, <1>6, <1>7, <1>8, <2>1
    <2>2. CASE dev'.filled = 0 /\ lost' = lost \cup (given + 1)..(given + n)
      <3>1. n = 0 => (given + 1)..(given + n) = {} BY <1>1
      <3>2. Waiting' = {} BY <1>6, <2>2, <3>1
      <3> QED BY <1>4, <1>7, <1>8, <2>2, <3>2
    <2> QED BY <2>1, <2>2
  <1>10. lost' \cap (Had' \cup Waiting') = {}
    <2>0. \A u \in 1..given : u \notin (given + 1)..(given + n) BY <1>1
    <2>1. CASE dev'.filled = n /\ lost' = lost BY <1>1, <1>4, <1>6, <1>8, <2>0, <2>1
    <2>2. CASE dev'.filled = 0 /\ lost' = lost \cup (given + 1)..(given + n)
      <3>1. n = 0 => (given + 1)..(given + n) = {} BY <1>1
      <3>2. Waiting' = {} BY <1>6, <2>2, <3>1
      <3> QED BY <1>4, <1>5, <1>8, <2>0, <2>2, <3>2
    <2> QED BY <2>1, <2>2
  <1>11. \A u \in Waiting', h \in Had' : h < u
    <2>1. \A u \in (given + 1)..(given + n), h \in 1..given : h < u BY <1>1
    <2> QED BY <1>4, <1>5, <1>6, <2>1
  <1>12. \A i, j \in DOMAIN taken' : i < j => taken'[i] < taken'[j] BY DEF UnitsInv, UnitsInOrder
  <1> QED BY <1>3, <1>9, <1>10, <1>11, <1>12 DEF UnitsInv, UnitsInOrder

\* A chunk goes to the user or is passed over.
LEMMA UnitsCopied ==
    ASSUME TypeOK, UnitsInv, NEW p \in Procs, CopyToUser(p), dev'.filled = dev.filled,
           dev'.copied = dev.copied + Chunk(p), UNCHANGED <<given, buffer>>
    PROVE  UnitsInv'
  <1> DEFINE c == Chunk(p)
             k == dev.copied
             S == {InChunk(p)[i] : i \in 1..c}
  <1>0. c \in Nat /\ k + c <= dev.filled /\ k \in Nat /\ dev.filled \in Nat BY ChunkUnits
  <1>1. /\ given \in Nat /\ taken \in Seq(1..given) /\ buffer \in Seq(1..given)
        /\ Len(buffer) \in Nat /\ Len(taken) \in Nat /\ DOMAIN taken = 1..Len(taken)
        /\ dev.filled <= Len(buffer) /\ \A i, j \in 1..Len(buffer) : i < j => buffer[i] < buffer[j]
    BY UnitsTypes DEF UnitsInv, Buffered
  <1>a. Len(taken) \in Nat BY <1>1
  <1>2. /\ InChunk(p) \in Seq(1..given) /\ Len(InChunk(p)) = c
        /\ \A i \in 1..c : InChunk(p)[i] = buffer[k + i]
    <2>1. k + c <= Len(buffer) BY <1>0, <1>1
    <2>2. InChunk(p) = SubSeq(buffer, k + 1, k + c) BY DEF InChunk
    <2> HIDE DEF k, c
    <2> QED BY <1>0, <1>1, <2>1, <2>2, Piece
  <1>3. /\ 1..given = Had \cup Waiting \cup lost
        /\ lost \cap (Had \cup Waiting) = {} /\ \A u \in Waiting, h \in Had : h < u
        /\ \A i, j \in DOMAIN taken : i < j => taken[i] < taken[j]
    BY DEF UnitsInv, UnitsInOrder
  <1>b. k' = k + c /\ buffer' = buffer /\ dev'.filled = dev.filled OBVIOUS
  <1> HIDE DEF c, k
  <1>4. Waiting' = {buffer[i] : i \in (k + c + 1)..dev.filled} /\ Waiting = {buffer[i] : i \in (k + 1)..dev.filled}
    BY <1>b DEF Waiting, k
  <1>5. S = {buffer[i] : i \in (k + 1)..(k + c)}
    <2>1. \A i \in 1..c : k + i \in (k + 1)..(k + c) BY <1>0
    <2>2. \A i \in (k + 1)..(k + c) : i - k \in 1..c /\ k + (i - k) = i BY <1>0
    <2> QED BY <1>2, <2>1, <2>2
  <1> HIDE DEF S
  <1>6. Waiting = S \cup Waiting'
    <2>1. (k + 1)..dev.filled = (k + 1)..(k + c) \cup (k + c + 1)..dev.filled BY <1>0
    <2> QED BY <1>4, <1>5, <2>1
  <1>7. \A u \in Waiting', h \in S : h < u
    <2>1. \A i \in (k + 1)..(k + c), j \in (k + c + 1)..dev.filled : i < j /\ i \in 1..Len(buffer) /\ j \in 1..Len(buffer)
      BY <1>0, <1>1
    <2>2. \A i \in (k + 1)..(k + c), j \in (k + c + 1)..dev.filled : buffer[i] < buffer[j]
      BY <1>1, <2>1
    <2> QED BY <1>4, <1>5, <2>2
  <1>8. S \cap Waiting' = {}
    <2>1. \A u \in S : u \in Int BY <1>1, <1>3, <1>6
    <2> QED BY <1>7, <2>1
  <1>9. Buffered' BY <1>1, <1>b DEF Buffered
  <1>10. CASE taken' = taken \o InChunk(p) /\ UNCHANGED lost
    <2>1. /\ Len(taken') = Len(taken) + c /\ DOMAIN taken' = 1..(Len(taken) + c)
          /\ \A i \in 1..Len(taken) : taken'[i] = taken[i]
          /\ \A i \in (Len(taken) + 1)..(Len(taken) + c) : taken'[i] = InChunk(p)[i - Len(taken)]
      <3>1. /\ taken' \in Seq(1..given) /\ Len(taken') = Len(taken) + Len(InChunk(p))
            /\ \A i \in 1..(Len(taken) + Len(InChunk(p))) :
                 taken'[i] = IF i <= Len(taken) THEN taken[i] ELSE InChunk(p)[i - Len(taken)]
        BY <1>1, <1>2, <1>10, ConcatProperties
      <3>2. DOMAIN taken' = 1..(Len(taken) + c) BY <1>2, <3>1, LenProperties
      <3>3. \A i \in 1..Len(taken) : i \in 1..(Len(taken) + c) /\ i <= Len(taken) BY <1>0, <1>a
      <3>4. \A i \in (Len(taken) + 1)..(Len(taken) + c) : i \in 1..(Len(taken) + c) /\ ~(i <= Len(taken))
        BY <1>0, <1>a
      <3> QED BY <1>2, <3>1, <3>2, <3>3, <3>4
    <2>2. Had' = Had \cup S
      <3>1. ASSUME NEW u \in Had' PROVE u \in Had \cup S
        <4>1. PICK i \in 1..(Len(taken) + c) : u = taken'[i] BY <2>1, <3>1 DEF Had
        <4>2. CASE i <= Len(taken)
          <5>1. i \in 1..Len(taken) BY <1>a, <1>0, <4>2
          <5>2. u = taken[i] BY <2>1, <4>1, <5>1
          <5> QED BY <1>1, <5>1, <5>2 DEF Had
        <4>3. CASE i > Len(taken)
          <5>1. i - Len(taken) \in 1..c /\ i \in (Len(taken) + 1)..(Len(taken) + c) BY <1>a, <1>0, <4>3
          <5> QED BY <2>1, <4>1, <5>1 DEF S
        <4> QED BY <4>2, <4>3, <1>a, <1>0
      <3>2. Had \subseteq Had'
        <4>1. \A i \in 1..Len(taken) : i \in 1..(Len(taken) + c) BY <1>a, <1>0
        <4> QED BY <1>1, <2>1, <4>1 DEF Had
      <3>3. ASSUME NEW i \in 1..c PROVE InChunk(p)[i] \in Had'
        <4>1. /\ Len(taken) + i \in (Len(taken) + 1)..(Len(taken) + c) /\ Len(taken) + i \in 1..(Len(taken) + c)
              /\ (Len(taken) + i) - Len(taken) = i
          BY <1>a, <1>0
        <4>2. taken'[Len(taken) + i] = InChunk(p)[i] BY <2>1, <4>1
        <4>3. taken'[Len(taken) + i] \in Had' BY <2>1, <4>1 DEF Had
        <4> QED BY <4>2, <4>3
      <3> QED BY <3>1, <3>2, <3>3 DEF S
    <2>3. ASSUME NEW i \in DOMAIN taken', NEW j \in DOMAIN taken', i < j PROVE taken'[i] < taken'[j]
      <3>1. i \in 1..(Len(taken) + c) /\ j \in 1..(Len(taken) + c) BY <2>1, <2>3
      <3>2. CASE j <= Len(taken)
        <4>1. i \in 1..Len(taken) /\ j \in 1..Len(taken) BY <1>a, <1>0, <2>3, <3>1, <3>2
        <4> QED BY <1>1, <1>3, <2>1, <2>3, <4>1
      <3>3. CASE i <= Len(taken) /\ j > Len(taken)
        <4>1. i \in 1..Len(taken) /\ j - Len(taken) \in 1..c /\ j \in (Len(taken) + 1)..(Len(taken) + c)
          BY <1>a, <1>0, <3>1, <3>3
        <4>2. taken'[i] \in Had /\ taken'[j] \in S BY <1>1, <2>1, <4>1 DEF Had, S
        <4> QED BY <1>3, <1>6, <4>2
      <3>4. CASE i > Len(taken)
        <4>1. /\ i - Len(taken) \in 1..c /\ i \in (Len(taken) + 1)..(Len(taken) + c)
              /\ j - Len(taken) \in 1..c /\ j \in (Len(taken) + 1)..(Len(taken) + c)
              /\ k + (i - Len(taken)) < k + (j - Len(taken))
              /\ k + (i - Len(taken)) \in 1..Len(buffer) /\ k + (j - Len(taken)) \in 1..Len(buffer)
          <5>1. i - Len(taken) \in 1..c /\ i \in (Len(taken) + 1)..(Len(taken) + c)
            BY <1>a, <1>0, <3>1, <3>4
          <5>2. j - Len(taken) \in 1..c /\ j \in (Len(taken) + 1)..(Len(taken) + c)
            BY <1>a, <1>0, <2>3, <3>1, <3>4
          <5>3. k + (i - Len(taken)) < k + (j - Len(taken)) BY <1>a, <1>0, <2>3, <3>1
          <5>4. \A m \in 1..c : k + m \in 1..Len(buffer) BY <1>0, <1>1
          <5> QED BY <5>1, <5>2, <5>3, <5>4
        <4>2. taken'[i] = buffer[k + (i - Len(taken))] /\ taken'[j] = buffer[k + (j - Len(taken))]
          BY <1>2, <2>1, <4>1
        <4> QED BY <1>1, <4>1, <4>2
      <3> QED BY <1>a, <1>0, <3>1, <3>2, <3>3, <3>4
    <2>4. 1..given' = Had' \cup Waiting' \cup lost' /\ lost' \cap (Had' \cup Waiting') = {}
      BY <1>3, <1>6, <1>10, <2>2
    <2>5. \A u \in Waiting', h \in Had' : h < u BY <1>3, <1>6, <1>7, <2>2
    <2> QED BY <1>9, <2>3, <2>4, <2>5 DEF UnitsInv, UnitsInOrder
  <1>11. CASE lost' = lost \cup S /\ UNCHANGED taken
    <2>1. Had' = Had BY <1>11 DEF Had
    <2>2. \A u \in S, h \in Had : h < u BY <1>3, <1>6
    <2>3. S \cap Had = {}
      <3>1. \A h \in Had : h \in Int BY <1>1, <1>3
      <3> QED BY <2>2, <3>1
    <2>4. 1..given' = Had' \cup Waiting' \cup lost' /\ lost' \cap (Had' \cup Waiting') = {}
      BY <1>3, <1>6, <1>8, <1>11, <2>1, <2>3
    <2>5. \A u \in Waiting', h \in Had' : h < u BY <1>3, <1>6, <2>1
    <2>6. \A i, j \in DOMAIN taken' : i < j => taken'[i] < taken'[j] BY <1>3, <1>11
    <2> QED BY <1>9, <2>4, <2>5, <2>6 DEF UnitsInv, UnitsInOrder
  <1> QED BY <1>10, <1>11 DEF CopyToUser, c, S

\* A kill finds the buffer of the read URB empty, if there is one in flight.
LEMMA UnitsKilled ==
    ASSUME TypeOK, ReaderKnows, UnitsInv, KillRead \/ KillWrite PROVE UnitsInv'
  <1>1. CASE KillWrite
    BY <1>1, UnitsSame, KillWriteFields DEF KillWrite, WriteBack, TypeOK
  <1>2. CASE KillRead /\ inflight.read = 0
    BY <1>2, UnitsSame DEF KillRead
  <1>3. CASE KillRead /\ inflight.read # 0
    <2>1. inflight.read \in Nat /\ inflight.read > 0 BY <1>3, UsbAssumption DEF TypeOK, UrbsOK
    <2>2. dev.filled = 0 /\ dev.copied = 0 BY <2>1 DEF ReaderKnows
    <2>3. dev'.filled = 0 /\ dev'.copied = 0 BY <1>3, <2>2, KillReadFields DEF TypeOK
    <2>4. PICK n \in 0..inflight.read : Arrived(n) /\ lost' = lost \cup (given + 1)..(given + n)
      BY <1>3 DEF KillRead, ReadBroken
    <2>5. n \in Nat /\ taken' = taken BY <1>3, <2>1 DEF KillRead
    <2> QED BY <2>2, <2>3, <2>4, <2>5, UnitsCome
  <1> QED BY <1>1, <1>2, <1>3

\* No step of a process loses a unit: a buffer is emptied only when it was copied.
LEMMA ProcessUnits ==
    ASSUME TypeOK, ReaderKnows, UnitsInv, NEW p \in Procs, User(p) \/ Driver(p)
    PROVE  UnitsInv'
  <1> USE DEF TypeOK
  <1>0. dev \in Device BY UnitsTypes
  <1>1. ASSUME dev'.filled = dev.filled, dev'.copied = dev.copied, UNCHANGED Units
        PROVE  UnitsInv'
    BY <1>1, UnitsSame
  <1>2. CASE User(p)
    BY <1>0, <1>1, <1>2 DEF User, OpenLookup, Release, FlushCall, ReadCall, WriteCall, KrefPut, Lock, Device
  <1>3. CASE OpenGet(p) \/ FlushErrors(p) \/ ReadStart(p) \/ ReadRetry(p) \/ ReadWait(p)
    BY <1>0, <1>1, <1>3 DEF OpenGet, FlushErrors, ReadStart, ReadRetry, ReadWait, Unlocked, Raise, Device
  <1>4. CASE FlushDrain(p)
    BY <1>4, UnitsKilled DEF FlushDrain
  <1>5. CASE ReadError(p) \/ ReadClear(p) \/ ReadSubmit(p) \/ ReadExit(p)
    BY <1>0, <1>1, <1>5 DEF ReadError, ReadClear, ReadSubmit, ReadExit, Unlocked, Raise, Device
  <1>6. CASE ReadFill(p)
    <2>1. dev.filled - dev.copied = 0 BY <1>6 DEF ReadFill, ReaderKnows, Available
    <2>2. dev'.filled = 0 /\ dev'.copied = 0 /\ UNCHANGED Units
      BY <1>0, <1>6 DEF ReadFill, Emptied, Device
    <2>3. dev.filled = dev.copied BY <2>1, UnitsTypes
    <2>4. Waiting = {} /\ Waiting' = {} BY <2>2, <2>3, UnitsTypes DEF Waiting
    <2>5. Had' = Had BY <2>2 DEF Had, Units
    <2>6. Buffered' BY <2>2, UnitsTypes DEF Buffered, UnitsInv, Units
    <2> QED BY <2>2, <2>4, <2>5, <2>6 DEF UnitsInv, UnitsInOrder, Units
  <1>7. CASE ReadData(p)
    <2>1. CASE Available = 0 BY <1>1, <1>7, <2>1 DEF ReadData, Units
    <2>2. CASE Available # 0
      <3>1. dev' = [dev EXCEPT !.copied = @ + Chunk(p)] /\ CopyToUser(p) /\ UNCHANGED <<given, buffer>>
        BY <1>7, <2>2 DEF ReadData, Copied
      <3>2. dev'.filled = dev.filled /\ dev'.copied = dev.copied + Chunk(p) BY <1>0, <3>1 DEF Device
      <3> QED BY <3>1, <3>2, UnitsCopied
    <2> QED BY <2>1, <2>2
  <1>8. CASE WriteError(p) \/ WriteCopy(p) \/ WriteLock(p) \/ WriteSubmit(p) \/ WriteUp(p)
    BY <1>0, <1>1, <1>8 DEF WriteError, WriteCopy, WriteLock, WriteSubmit, WriteUp, Lock, Unlocked,
                            Raise, Device
  <1> QED BY <1>2, <1>3, <1>4, <1>5, <1>6, <1>7, <1>8 DEF Driver

\* Nor does another step: the callback fills a buffer that is empty.
LEMMA OthersUnits ==
    ASSUME TypeOK, ReaderKnows, Phases, UnitsInv, ByOthers PROVE UnitsInv'
  <1> USE DEF TypeOK
  <1>0. dev \in Device BY UnitsTypes
  <1>1. ASSUME dev'.filled = dev.filled, dev'.copied = dev.copied, UNCHANGED Units
        PROVE  UnitsInv'
    BY <1>1, UnitsSame
  <1>2. CASE ReadDone
    <2>1. PICK n \in 0..Size : ReadBack(n) BY <1>2, ReadDoneFields
    <2>2. dev.filled = 0 /\ dev.copied = 0 BY <2>1 DEF ReadBack, ReaderKnows
    <2>3. dev'.copied = 0 /\ taken' = taken
      BY <1>2, <2>1, <2>2 DEF ReadBack, ReadDone
    <2>4. CASE dev'.filled = n /\ Arrived(n) /\ lost' = lost
      BY <2>2, <2>3, <2>4, UnitsCome, UsbAssumption
    <2>5. CASE dev'.filled = dev.filled /\ Broken
      <3>1. PICK m \in 0..inflight.read : Arrived(m) /\ lost' = lost \cup (given + 1)..(given + m)
        BY <2>5 DEF Broken
      <3>2. m \in Nat BY UsbAssumption DEF UrbsOK
      <3> QED BY <2>2, <2>3, <2>5, <3>1, <3>2, UnitsCome
    <2> QED BY <2>1, <2>4, <2>5 DEF ReadBack
  <1>3. CASE WriteDone
    BY <1>1, <1>3, WriteDoneFields DEF WriteDone, WriteBack
  <1>4. CASE HubDrain \/ DisconnectKill \/ DisconnectAnchor
    <2>1. CASE KillRead \/ KillWrite BY <2>1, UnitsKilled
    <2>2. CASE UNCHANGED <<dev, inflight, Units>>
      BY <1>1, <1>4, <2>2 DEF HubDrain, DisconnectKill, DisconnectAnchor
    <2> QED BY <1>4, <2>1, <2>2 DEF HubDrain, DisconnectKill, DisconnectAnchor
  <1>5. CASE ProbeSetup
    <2>1. dev'.filled = dev.filled /\ dev'.copied = dev.copied
      BY <1>5 DEF ProbeSetup, Phases, NewDev
    <2> QED BY <1>1, <1>5, <2>1 DEF ProbeSetup
  <1>6. CASE ProbeRegister \/ ProbeDma \/ ProbeFailed \/ Unplug
    BY <1>0, <1>1, <1>6 DEF ProbeRegister, ProbeDma, ProbeFailed, Unplug, KrefPut, Device
  <1>7. CASE Suspend \/ PreReset \/ Resume \/ PostReset
    BY <1>0, <1>1, <1>7 DEF Suspend, PreReset, Resume, PostReset, Lock, AfterReset, Unlocked, Raise, Device
  <1>8. CASE DisconnectData \/ DisconnectMinor \/ DisconnectFlag \/ DisconnectFree
    BY <1>0, <1>1, <1>8 DEF DisconnectData, DisconnectMinor, DisconnectFlag, DisconnectFree, KrefPut, Device
  <1> QED BY <1>2, <1>3, <1>4, <1>5, <1>6, <1>7, <1>8 DEF ByOthers, Probe, Power, Disconnect

----------------------------------------------------------------------------
(* The theorems.                                                           *)

\* Init establishes Accounted, and no unit has been given or taken.
LEMMA InitAccounted == ASSUME Init PROVE Accounted /\ UnitsInv
  <1>1. TypeOK BY InitTypeOK
  <1>2. hub = "probe" /\ inflight = NoUrb /\ NobodyIn /\ ~iface.minor
        /\ dev = [NewDev EXCEPT !.kref = 0] /\ given = 0 /\ taken = <<>> /\ buffer = <<>> /\ lost = {}
    BY DEF Init, NobodyIn
  <1>3. dev = [kref |-> 0, mutex |-> "nobody", sem |-> Limit, errors |-> None,
               ongoing |-> FALSE, filled |-> 0, copied |-> 0,
               disconnected |-> FALSE, dma |-> "null", data |-> <<>>]
    BY <1>2 DEF NewDev
  <1>4. \A p \in Procs : pc[p] = "out" /\ ~file[p] /\ p # "nobody" /\ p # "hub"
    BY <1>2, UsbAssumption DEF NobodyIn
  <1>5. MutexOwner BY <1>2, <1>3, <1>4 DEF MutexOwner, HoldsMutex, Reading
  <1>6. SlotsAccounted
    <2>1. {p \in Procs : pc[p] \in Writing} = {} BY <1>4 DEF Writing
    <2>2. inflight.writes = {} BY <1>2 DEF NoUrb
    <2>3. Cardinality({p \in Procs : pc[p] \in Writing}) = 0 BY <2>1, FS_EmptySet
    <2>4. Cardinality(inflight.writes) = 0 BY <2>2, FS_EmptySet
    <2>5. dev.sem = Limit /\ Limit \in Nat BY <1>3, UsbAssumption
    <2> QED BY <2>3, <2>4, <2>5 DEF SlotsAccounted
  <1>7. RefsAccounted
    <2>1. {p \in Procs : file[p]} = {} BY <1>4
    <2>2. Cardinality({p \in Procs : file[p]}) = 0 BY <2>1, FS_EmptySet
    <2> QED BY <1>2, <1>3, <2>2 DEF RefsAccounted
  <1>8. inflight.read = 0 /\ inflight.writes = {} BY <1>2 DEF NoUrb
  <1>9. ReadUrbExclusive BY <1>3, <1>4, <1>8 DEF ReadUrbExclusive, Filling, Submitting
  <1>10. ReaderKnows BY <1>3, <1>4, <1>8 DEF ReaderKnows, Filling, Submitting, Reading
  <1>11. UrbsReturned BY <1>8 DEF UrbsReturned
  <1>12. Inside BY <1>4 DEF Inside
  <1>13. Phases BY <1>2, <1>3 DEF Phases, Present
  <1>14. UnitsInv
    <2>1. Had = {} /\ Waiting = {} BY <1>2, <1>3 DEF Had, Waiting
    <2>2. Buffered BY <1>2, <1>3 DEF Buffered
    <2> QED BY <1>2, <2>1, <2>2 DEF UnitsInv, UnitsInOrder
  <1> QED BY <1>1, <1>5, <1>6, <1>7, <1>9, <1>10, <1>11, <1>12, <1>13, <1>14 DEF Accounted

\* Every step keeps it, and loses no unit.
LEMMA StepAccounted ==
    ASSUME Accounted, UnitsInv, [Next]_vars PROVE Accounted' /\ UnitsInv'
  <1> USE DEF Accounted
  <1>1. ASSUME NEW p \in Procs, User(p) \/ Driver(p) PROVE Accounted' /\ UnitsInv'
    <2>1. TypeOK'
      <3>1. HubOK' BY <1>1, ProcessOfHub DEF OfHub, HubOK, TypeOK
      <3> QED BY <1>1, <3>1, ProcessDeviceOK, ProcessProcsOK, ProcessUrbsOK DEF TypeOK, UnitsInv, Buffered
    <2>2. MutexOwner' BY <1>1, ProcessMutexOwner
    <2>3. SlotsAccounted' BY <1>1, ProcessSlots
    <2>4. RefsAccounted' BY <1>1, ProcessRefs
    <2>5. ReadUrbExclusive' /\ ReaderKnows' BY <1>1, ProcessReaders
    <2>6. UrbsReturned' BY <1>1, ProcessReturned
    <2>7. Inside' BY <1>1, ProcessInside
    <2>8. Phases' BY <1>1, ProcessPhases
    <2>9. UnitsInv' BY <1>1, ProcessUnits
    <2> QED BY <2>1, <2>2, <2>3, <2>4, <2>5, <2>6, <2>7, <2>8, <2>9
  <1>2. CASE ByOthers
    <2>1. TypeOK' BY <1>2, OthersDeviceOK, OthersProcsOK, OthersHubOK, OthersUrbsOK DEF TypeOK
    <2>2. MutexOwner' BY <1>2, OthersMutexOwner
    <2>3. SlotsAccounted' BY <1>2, OthersSlots
    <2>4. RefsAccounted' BY <1>2, OthersRefs
    <2>5. ReadUrbExclusive' /\ ReaderKnows' BY <1>2, OthersReaders
    <2>6. UrbsReturned' BY <1>2, OthersReturned
    <2>7. Inside' BY <1>2, OthersInside
    <2>8. Phases' BY <1>2, OthersPhases
    <2>9. UnitsInv' BY <1>2, OthersUnits
    <2> QED BY <2>1, <2>2, <2>3, <2>4, <2>5, <2>6, <2>7, <2>8, <2>9
  <1>3. CASE UNCHANGED vars
    <2> USE <1>3 DEF vars
    <2>1. TypeOK' BY DEF TypeOK, DeviceOK, ProcsOK, HubOK, UrbsOK
    <2>2. MutexOwner' /\ SlotsAccounted' /\ RefsAccounted'
      BY DEF MutexOwner, SlotsAccounted, RefsAccounted
    <2>3. ReadUrbExclusive' /\ ReaderKnows'
      BY DEF ReadUrbExclusive, ReaderKnows, Filling, Available
    <2>4. UrbsReturned' /\ Inside' BY DEF UrbsReturned, Inside
    <2>5. Phases' BY DEF Phases, NobodyIn
    <2>6. UnitsInv' BY UnitsSame DEF Units
    <2> QED BY <2>1, <2>2, <2>3, <2>4, <2>5, <2>6
  <1> QED BY <1>1, <1>2, <1>3 DEF Next, ByOthers

\* What the threads of the driver hold, io_mutex, the slots, the URBs and the references,
\* is accounted for at every moment (lines 282-555 and 656-679).
THEOREM UsbAccounted == Spec => []Accounted
  <1>1. Spec => [](Accounted /\ UnitsInv)
    BY InitAccounted, StepAccounted, PTL DEF Spec
  <1> QED BY <1>1, PTL

\* Users get the units of the device in their order and each of them once, and lack none
\* but those of a URB that failed or of a copy that faulted, whatever the callback, the
\* kills and the readers that wait do meanwhile (249-274, 276-311, 313-419).
THEOREM UnitsHadOnce == Spec => []UnitsInOrder
  <1>1. Spec => [](Accounted /\ UnitsInv)
    BY InitAccounted, StepAccounted, PTL DEF Spec
  <1>2. UnitsInv => UnitsInOrder BY DEF UnitsInv
  <1> QED BY <1>1, <1>2, PTL

\* Accounted leaves nothing in flight when disconnect is over, and no one in a device
\* without references.
LEMMA AccountedNothingLeft == ASSUME Accounted PROVE NothingAfterDisconnect
  <1> USE DEF Accounted, TypeOK
  <1>1. NoUrbAfterDisconnect
    <2>1. CASE hub = "d_free"
      <3>1. inflight.read = 0 /\ inflight.writes = {} BY <2>1 DEF Phases
      <3> QED BY <3>1 DEF NoUrbAfterDisconnect, NoUrb, UrbsOK
    <2>2. CASE hub = "unbound" /\ ~LeftBehind
      BY <2>2 DEF NoUrbAfterDisconnect, LeftBehind, Phases
    <2> QED BY <2>1, <2>2 DEF NoUrbAfterDisconnect
  <1>2. NoUseAfterFree
    <2> SUFFICES ASSUME ~LeftBehind,
                        \/ \E p \in Procs : file[p] \/ pc[p] # "out"
                        \/ inflight # NoUrb
                        \/ hub \notin {"probe", "unbound"}
                 PROVE  dev.kref > 0
      BY DEF NoUseAfterFree
    <2>1. Cardinality({q \in Procs : file[q]}) \in Nat BY Files
    <2>2. hub # "failed" BY DEF LeftBehind, Phases
    <2>3. CASE hub \notin {"probe", "unbound"}
      BY <2>1, <2>2, <2>3 DEF RefsAccounted
    <2>4. CASE hub = "probe" BY <2>4 DEF Phases, NobodyIn
    <2>5. CASE hub = "unbound"
      <3>1. ~iface.minor BY <2>5 DEF LeftBehind
      <3>2. inflight = NoUrb BY <2>5, <3>1 DEF Phases
      <3>3. PICK p \in Procs : file[p] \/ pc[p] # "out" BY <2>5, <3>2
      <3>4. file[p] BY <3>1, <3>3 DEF Inside
      <3>5. Cardinality({q \in Procs : file[q]}) > 0 BY <3>4, Files
      <3> QED BY <2>1, <2>5, <3>5 DEF RefsAccounted
    <2> QED BY <2>3, <2>4, <2>5
  <1> QED BY <1>1, <1>2 DEF NothingAfterDisconnect

\* When skel_disconnect is over no URB is in flight any more, although a writer submits
\* its own long after its checks, and the device is there for whoever is still inside
\* (505-513, 656-679).
THEOREM NothingLeft == Spec => []NothingAfterDisconnect
  BY UsbAccounted, AccountedNothingLeft, PTL

----------------------------------------------------------------------------
(* chrdevbase.c, chrdevbase_dynamic.c and dev_test.c.                      *)

\* Names, numbers and nodes.
CharTypes ==
    /\ cd_pc \in [Chars!Drivers -> {"out", "class", "node", "cdev", "in", "del", "oops", "failed"}]
    /\ \A m \in FixedDrivers : cd_pc[m] \in {"out", "in"}
    /\ cd_region \in [Majors \cup {Chars!FixedMajor} -> Chars!Drivers \cup {Chars!None, "other"}]
    /\ cd_cdev \in [Majors \cup {Chars!FixedMajor} -> Chars!Drivers \cup {Chars!None, "other"}]
    /\ cd_dev \in [Chars!Drivers -> Majors \cup {Chars!FixedMajor}]
    /\ cd_node \in [Chars!Drivers -> Majors \cup {Chars!FixedMajor, Chars!NoNode}]
    /\ cd_memClass \in [Chars!Drivers -> {"null", "ok", "err"}]
    /\ cd_file \in [Tasks -> Chars!Drivers \cup {Chars!None}]

\* A number reaches the operations of a driver that is in the kernel and has it.
CharReached ==
    /\ \A m \in DynamicDrivers : cd_pc[m] \in {"class", "node", "cdev", "in", "del", "oops"} => cd_dev[m] \in Majors
    /\ \A k \in Majors : cd_cdev[k] \in {Chars!None, cd_region[k]}
    /\ \A k \in Majors : cd_cdev[k] \in DynamicDrivers => cd_pc[cd_cdev[k]] \in {"in", "del", "oops"} /\ cd_dev[cd_cdev[k]] = k
    /\ \A k \in Majors : cd_cdev[k] \notin FixedDrivers
    /\ cd_cdev[Chars!FixedMajor] \notin DynamicDrivers
    /\ cd_cdev[Chars!FixedMajor] \in FixedDrivers => cd_pc[cd_cdev[Chars!FixedMajor]] = "in"
    /\ \A m \in DynamicDrivers : cd_pc[m] \in {"class", "node", "cdev", "in", "del", "oops"} => cd_region[cd_dev[m]] = m

\* A node is of a number its driver has had, and keeps.
CharNodes ==
    /\ \A m \in DynamicDrivers : cd_node[m] # Chars!NoNode => cd_node[m] \in Majors /\ cd_region[cd_node[m]] = m
    /\ \A m \in DynamicDrivers : cd_pc[m] \in {"out", "del"} => m \notin cd_classes /\ cd_node[m] = Chars!NoNode

CharOpen == \A t \in Tasks : cd_file[t] # Chars!None => cd_pc[cd_file[t]] = "in"

CharInv == CharTypes /\ CharReached /\ CharNodes /\ CharOpen

\* chrdevbase.
LEMMA CharFixed ==
    ASSUME Chars!WellFormed, CharInv, NEW m \in Chars!Drivers, Chars!FixedInit(m) \/ Chars!FixedExit(m)
    PROVE  CharInv'
<1> USE DEF Chars!Drivers, Chars!WellFormed
<1>1. m \in FixedDrivers /\ m \notin DynamicDrivers /\ UNCHANGED <<cd_dev, cd_memClass, cd_classes, cd_node, cd_file>>
  BY DEF Chars!FixedInit, Chars!FixedExit
<1>2. /\ \A k \in Majors : cd_region'[k] = cd_region[k] /\ cd_cdev'[k] = cd_cdev[k]
      /\ \A d \in DynamicDrivers : cd_pc'[d] = cd_pc[d]
  BY <1>1 DEF Chars!FixedInit, Chars!FixedExit, Chars!Goto, CharInv, CharTypes
<1>3. CharTypes'
  BY <1>1 DEF Chars!FixedInit, Chars!FixedExit, Chars!Goto, CharInv, CharTypes
<1>4. CharReached'
  <2>1. cd_cdev'[Chars!FixedMajor] \notin DynamicDrivers
    BY <1>1 DEF Chars!FixedInit, Chars!FixedExit, CharInv, CharTypes, CharReached, Chars!None
  <2>2. cd_cdev'[Chars!FixedMajor] \in FixedDrivers => cd_pc'[cd_cdev'[Chars!FixedMajor]] = "in"
    BY <1>1 DEF Chars!FixedInit, Chars!FixedExit, Chars!Goto, CharInv, CharTypes, CharReached, Chars!None
  <2> QED
    BY <1>1, <1>2, <2>1, <2>2 DEF CharInv, CharTypes, CharReached
<1>5. CharNodes'
  BY <1>1, <1>2 DEF CharInv, CharNodes
<1>6. CharOpen'
  BY <1>1 DEF Chars!FixedInit, Chars!FixedExit, Chars!Goto, Chars!Unused, CharInv, CharTypes, CharOpen
<1> QED
  BY <1>3, <1>4, <1>5, <1>6 DEF CharInv

\* A number that is free becomes the driver's, for ever.
LEMMA CharAlloc == ASSUME Chars!WellFormed, CharInv, NEW m \in Chars!Drivers, Chars!Alloc(m) PROVE CharInv'
<1> USE DEF Chars!Drivers, Chars!WellFormed
<1>1. m \in DynamicDrivers /\ m \notin FixedDrivers /\ cd_pc[m] \in {"out", "failed"} /\ UNCHANGED <<cd_cdev, cd_classes, cd_node, cd_file>>
  BY DEF Chars!Alloc
<1>2. CASE UNCHANGED <<cd_region, cd_dev, cd_memClass>> /\ Chars!Goto(m, "failed")
  <2>1. /\ cd_pc' = [cd_pc EXCEPT ![m] = "failed"]
        /\ \A k \in Majors : cd_cdev[k] # m
    BY <1>1, <1>2 DEF Chars!Goto, CharInv, CharReached, CharTypes
  <2> QED
    BY <1>1, <1>2, <2>1 DEF CharInv, CharTypes, CharReached, CharNodes, CharOpen
<1>3. ASSUME NEW k \in Majors, cd_region[k] = Chars!None, cd_region' = [cd_region EXCEPT ![k] = m],
             cd_dev' = [cd_dev EXCEPT ![m] = k], cd_memClass' = [cd_memClass EXCEPT ![m] = "null"],
             cd_pc' = [cd_pc EXCEPT ![m] = "class"]
      PROVE  CharInv'
  <2>1. k # Chars!FixedMajor /\ Chars!None \notin Chars!Drivers
    OBVIOUS
  <2>2. \A i \in Majors : cd_cdev[i] # m
    BY <1>1 DEF CharInv, CharReached, CharTypes
  <2>3. CharTypes'
    BY <1>1, <1>3 DEF CharInv, CharTypes
  <2>4. \A d \in DynamicDrivers : d # m => cd_dev'[d] = cd_dev[d] /\ cd_pc'[d] = cd_pc[d]
    BY <1>3 DEF CharInv, CharTypes
  <2>5. cd_dev'[m] = k /\ cd_pc'[m] = "class" /\ cd_region'[k] = m /\ \A i \in Majors \cup {Chars!FixedMajor} : i # k => cd_region'[i] = cd_region[i]
    BY <1>3 DEF CharInv, CharTypes
  <2>6. CharReached'
    <3>1. \A i \in Majors : cd_cdev'[i] \in {Chars!None, cd_region'[i]}
      BY <1>1, <1>3, <2>5 DEF CharInv, CharReached
    <3>2. \A i \in Majors : cd_cdev'[i] \in DynamicDrivers => cd_pc'[cd_cdev'[i]] \in {"in", "del", "oops"} /\ cd_dev'[cd_cdev'[i]] = i
      BY <1>1, <2>2, <2>4 DEF CharInv, CharReached
    <3>3. \A d \in DynamicDrivers : cd_pc'[d] \in {"class", "node", "cdev", "in", "del", "oops"} => cd_dev'[d] \in Majors /\ cd_region'[cd_dev'[d]] = d
      <4> SUFFICES ASSUME NEW d \in DynamicDrivers, d # m, cd_pc[d] \in {"class", "node", "cdev", "in", "del", "oops"}
                   PROVE  cd_dev[d] \in Majors /\ cd_region'[cd_dev[d]] = d
        BY <2>4, <2>5
      <4>1. cd_dev[d] \in Majors /\ cd_region[cd_dev[d]] = d
        BY DEF CharInv, CharReached
      <4>2. cd_dev[d] # k
        BY <1>3, <4>1, <2>1
      <4> QED
        BY <2>5, <4>1, <4>2
    <3>4. /\ \A i \in Majors : cd_cdev'[i] \notin FixedDrivers
          /\ cd_cdev'[Chars!FixedMajor] \notin DynamicDrivers
          /\ cd_cdev'[Chars!FixedMajor] \in FixedDrivers => cd_pc'[cd_cdev'[Chars!FixedMajor]] = "in"
      BY <1>1, <1>3 DEF CharInv, CharTypes, CharReached
    <3> QED
      BY <3>1, <3>2, <3>3, <3>4 DEF CharReached
  <2>7. CharNodes'
    <3>1. \A d \in DynamicDrivers : cd_node[d] # Chars!NoNode => cd_node[d] \in Majors /\ cd_node[d] # k /\ cd_region[cd_node[d]] = d
      BY <1>3, <2>1 DEF CharInv, CharNodes
    <3>2. \A d \in DynamicDrivers : cd_pc'[d] \in {"out", "del"} => cd_pc[d] \in {"out", "del"}
      BY <2>4, <2>5
    <3> QED
      BY <1>1, <2>5, <3>1, <3>2 DEF CharInv, CharNodes
  <2>8. CharOpen'
    BY <1>1, <1>3 DEF CharInv, CharTypes, CharOpen
  <2> QED
    BY <2>3, <2>6, <2>7, <2>8 DEF CharInv
<1> QED
  BY <1>2, <1>3 DEF Chars!Alloc, Chars!Goto

\* The class and the node.
LEMMA CharShow == ASSUME Chars!WellFormed, CharInv, NEW m \in Chars!Drivers, Chars!Class(m) \/ Chars!Node(m) PROVE CharInv'
<1> USE DEF Chars!Drivers, Chars!WellFormed
<1>1. /\ cd_pc[m] \in {"class", "node"} /\ m \in DynamicDrivers /\ m \notin FixedDrivers
      /\ \E l \in {"node", "cdev"} : cd_pc' = [cd_pc EXCEPT ![m] = l]
      /\ UNCHANGED <<cd_dev, cd_region, cd_cdev, cd_file>>
      /\ cd_node' \in {cd_node, [cd_node EXCEPT ![m] = cd_dev[m]]}
      /\ cd_memClass' \in [Chars!Drivers -> {"null", "ok", "err"}]
      /\ cd_classes' \in {cd_classes, cd_classes \cup {m}}
  BY DEF Chars!Class, Chars!Node, Chars!Goto, CharInv, CharTypes
<1>2. \A k \in Majors \cup {Chars!FixedMajor} : cd_cdev[k] # m
  BY <1>1 DEF CharInv, CharReached
<1>3. \A t \in Tasks : cd_file[t] # m
  BY <1>1 DEF CharInv, CharOpen, Chars!None
<1>4. CharTypes'
  BY <1>1 DEF CharInv, CharTypes
<1>5. CharReached'
  BY <1>1, <1>2 DEF CharInv, CharTypes, CharReached
<1>6. CharNodes'
  <2>1. cd_dev[m] \in Majors /\ cd_region[cd_dev[m]] = m
    BY <1>1 DEF CharInv, CharReached
  <2> QED
    BY <1>1, <2>1 DEF CharInv, CharTypes, CharNodes
<1>7. CharOpen'
  BY <1>1, <1>3 DEF CharInv, CharTypes, CharOpen
<1> QED
  BY <1>4, <1>5, <1>6, <1>7 DEF CharInv

\* The operations become reachable, and are taken back.
LEMMA CharOperations == ASSUME Chars!WellFormed, CharInv, NEW m \in Chars!Drivers, Chars!CdevAdd(m) \/ Chars!CdevDel(m) PROVE CharInv'
<1> USE DEF Chars!Drivers, Chars!WellFormed
<1>1. /\ cd_pc[m] \in {"cdev", "del"} /\ m \in DynamicDrivers /\ m \notin FixedDrivers
      /\ UNCHANGED <<cd_dev, cd_region, cd_memClass, cd_classes, cd_node, cd_file>>
      /\ \/ cd_pc[m] = "cdev" /\ cd_pc' = [cd_pc EXCEPT ![m] = "in"] /\ cd_cdev' = [cd_cdev EXCEPT ![cd_dev[m]] = m]
         \/ cd_pc[m] = "cdev" /\ cd_pc' = [cd_pc EXCEPT ![m] = "failed"] /\ cd_cdev' = cd_cdev
         \/ cd_pc[m] = "del" /\ cd_pc' = [cd_pc EXCEPT ![m] = "out"] /\ cd_cdev' = [cd_cdev EXCEPT ![cd_dev[m]] = Chars!None]
  BY DEF Chars!CdevAdd, Chars!CdevDel, Chars!NoCdev, Chars!Goto, CharInv, CharTypes
<1>2. cd_dev[m] \in Majors /\ cd_region[cd_dev[m]] = m /\ cd_dev[m] # Chars!FixedMajor
  BY <1>1 DEF CharInv, CharReached
<1>3. \A t \in Tasks : cd_file[t] # m
  BY <1>1 DEF CharInv, CharOpen, Chars!None
<1>4. CharTypes'
  BY <1>1, <1>2 DEF CharInv, CharTypes
<1>5. \A k \in Majors : k # cd_dev[m] => cd_cdev'[k] = cd_cdev[k] /\ cd_cdev[k] # m
  BY <1>1 DEF CharInv, CharTypes, CharReached
<1>6. cd_pc[m] = "cdev" => cd_cdev[cd_dev[m]] # m
  BY <1>1, <1>2 DEF CharInv, CharReached
<1>7. /\ cd_cdev'[cd_dev[m]] = m => cd_pc'[m] = "in"
      /\ cd_cdev'[cd_dev[m]] \in {Chars!None, m}
      /\ cd_cdev'[Chars!FixedMajor] = cd_cdev[Chars!FixedMajor]
  BY <1>1, <1>2, <1>6 DEF CharInv, CharTypes, CharReached
<1>8. \A d \in Chars!Drivers : d # m => cd_pc'[d] = cd_pc[d]
  BY <1>1 DEF CharInv, CharTypes
<1>9. CharReached'
  BY <1>1, <1>2, <1>5, <1>7, <1>8 DEF CharInv, CharTypes, CharReached, Chars!None
<1>10. CharNodes'
  BY <1>1 DEF CharInv, CharTypes, CharNodes
<1>11. CharOpen'
  BY <1>1, <1>3 DEF CharInv, CharTypes, CharOpen
<1> QED
  BY <1>4, <1>9, <1>10, <1>11 DEF CharInv

\* exit begins when nobody has the device open.
LEMMA CharDestroy == ASSUME Chars!WellFormed, CharInv, NEW m \in Chars!Drivers, Chars!Destroy(m) PROVE CharInv'
<1> USE DEF Chars!Drivers, Chars!WellFormed
<1>1. /\ cd_pc[m] = "in" /\ m \in DynamicDrivers /\ m \notin FixedDrivers /\ \A t \in Tasks : cd_file[t] # m
      /\ UNCHANGED <<cd_dev, cd_region, cd_cdev, cd_file>>
      /\ \/ cd_pc' = [cd_pc EXCEPT ![m] = "oops"] /\ UNCHANGED <<cd_memClass, cd_classes, cd_node>>
         \/ /\ cd_pc' = [cd_pc EXCEPT ![m] = "del"] /\ cd_node' = [cd_node EXCEPT ![m] = Chars!NoNode]
            /\ cd_classes' = cd_classes \ {m} /\ cd_memClass' = [cd_memClass EXCEPT ![m] = "null"]
  BY DEF Chars!Destroy, Chars!Unused, Chars!Removed, Chars!Goto
<1>2. CharTypes'
  BY <1>1 DEF CharInv, CharTypes
<1>3. CharReached'
  BY <1>1 DEF CharInv, CharTypes, CharReached
<1>4. CharNodes'
  BY <1>1 DEF CharInv, CharTypes, CharNodes
<1>5. CharOpen'
  BY <1>1 DEF CharInv, CharTypes, CharOpen
<1> QED
  BY <1>2, <1>3, <1>4, <1>5 DEF CharInv

\* A node that is opened leads to its own driver, which is in the kernel.
LEMMA CharTask == ASSUME Chars!WellFormed, CharInv, NEW t \in Tasks, Chars!Use(t) PROVE CharInv'
<1> USE DEF Chars!Drivers, Chars!WellFormed
<1>1. UNCHANGED <<cd_pc, cd_dev, cd_memClass, cd_region, cd_cdev, cd_classes, cd_node>>
  BY DEF Chars!Use, Chars!Open, Chars!Release, Chars!Registered
<1>2. PICK d \in Chars!Drivers \cup {Chars!None} : cd_file' = [cd_file EXCEPT ![t] = d] /\ (d # Chars!None => cd_pc[d] = "in")
  <2>1. ASSUME NEW m \in Chars!Drivers, Chars!Open(t, m)
        PROVE  cd_file' = [cd_file EXCEPT ![t] = m] /\ cd_pc[m] = "in"
    <3>1. cd_file' = [cd_file EXCEPT ![t] = m] /\ cd_node[m] # Chars!NoNode /\ cd_cdev[cd_node[m]] = m /\ cd_pc[m] \notin {"del", "oops"}
      BY <2>1 DEF Chars!Open
    <3>2. cd_node[m] \in Majors \cup {Chars!FixedMajor}
      BY <3>1 DEF CharInv, CharTypes
    <3> QED
      BY <3>1, <3>2 DEF CharInv, CharReached
  <2> QED
    BY <2>1 DEF Chars!Use, Chars!Release
<1>3. CharTypes' /\ CharOpen'
  BY <1>1, <1>2 DEF CharInv, CharTypes, CharOpen
<1> QED
  BY <1>1, <1>3 DEF CharInv, CharReached, CharNodes

\* Every step keeps the invariant.
LEMMA CharStep == ASSUME Chars!WellFormed, CharInv, [Chars!Next]_(Chars!vars) PROVE CharInv'
<1>1. CASE UNCHANGED Chars!vars
  BY <1>1 DEF Chars!vars, CharInv, CharTypes, CharReached, CharNodes, CharOpen
<1> QED
  BY <1>1, CharFixed, CharAlloc, CharShow, CharOperations, CharDestroy, CharTask DEF Chars!Next, Chars!Load, Chars!Unload

\* No driver is there at first, and other drivers have numbers of their own.
LEMMA CharStart == ASSUME Chars!WellFormed, Chars!Init PROVE CharInv
<1> USE DEF Chars!Drivers, Chars!WellFormed
<1>1. CharTypes
  BY DEF Chars!Init, CharTypes, Chars!None
<1>2. \A k \in Majors \cup {Chars!FixedMajor} : cd_cdev[k] = cd_region[k] /\ cd_cdev[k] \in {Chars!None, "other"}
  BY DEF Chars!Init
<1>3. CharReached
  BY <1>2 DEF Chars!Init, CharReached, Chars!None
<1>4. CharNodes /\ CharOpen
  BY DEF Chars!Init, CharNodes, CharOpen
<1> QED
  BY <1>1, <1>3, <1>4 DEF CharInv

\* Numbers and files lead to drivers that are there, and nothing else is shown.
LEMMA CharMeans == ASSUME Chars!WellFormed, CharInv PROVE Chars!CodePresent /\ Chars!NothingShown
<1> USE DEF Chars!Drivers, Chars!WellFormed
<1>1. DOMAIN cd_cdev = Majors \cup {Chars!FixedMajor}
  BY DEF CharInv, CharTypes
<1>2. Chars!CodePresent
  BY <1>1 DEF CharInv, CharReached, CharOpen, Chars!CodePresent
<1>3. Chars!NothingShown
  BY DEF CharInv, CharNodes, CharReached, Chars!NothingShown
<1> QED
  BY <1>2, <1>3

----------------------------------------------------------------------------
(* my_timer_module.c and my_tasklet_module.c.                              *)

WorkInv ==
    /\ dw_state \in [Deferred!Modules -> {"out", "in", "killing"}]
    /\ dw_running \in [Deferred!Modules -> {"idle", "entered", "counted"}]
    /\ \A m \in Tasklets : dw_state[m] = "out" => m \notin dw_pending /\ dw_running[m] = "idle"

\* A tasklet is scheduled by the init of its module only, and waited for by its exit.
LEMMA WorkStep == ASSUME Deferred!WellFormed, WorkInv, [Deferred!Next]_(Deferred!vars) PROVE WorkInv'
<1>1. CASE UNCHANGED Deferred!vars
  BY <1>1 DEF Deferred!vars, WorkInv
<1>2. ASSUME NEW m \in Deferred!Modules, Deferred!Load(m) \/ Deferred!Callback(m) \/ Deferred!DelTimer(m) \/ Deferred!Kill(m) \/ Deferred!Killed(m) PROVE WorkInv'
  <2>1. CASE Deferred!Load(m)
    <3>1. dw_state' \in [Deferred!Modules -> {"out", "in", "killing"}] /\ dw_state'[m] = "in" /\ UNCHANGED dw_running
      BY <2>1 DEF Deferred!Load, WorkInv
    <3>2. \A i \in Deferred!Modules : i # m => dw_state'[i] = dw_state[i] /\ (i \in dw_pending' => i \in dw_pending)
      BY <2>1 DEF Deferred!Load, WorkInv
    <3> QED
      BY <3>1, <3>2 DEF WorkInv, Deferred!Modules
  <2>2. CASE Deferred!Fire(m) \/ Deferred!Count(m)
    BY <2>2 DEF Deferred!Fire, Deferred!Count, WorkInv, Deferred!Modules
  <2>3. CASE Deferred!Leave(m)
    BY <2>3 DEF Deferred!Leave, Deferred!Again, Deferred!WellFormed, WorkInv
  <2>4. CASE Deferred!DelTimer(m)
    BY <2>4 DEF Deferred!DelTimer, Deferred!WellFormed, WorkInv
  <2>5. CASE Deferred!Kill(m) \/ Deferred!Killed(m)
    BY <2>5 DEF Deferred!Kill, Deferred!Killed, Deferred!Over, Deferred!WellFormed, WorkInv, Deferred!Modules
  <2> QED
    BY <1>2, <2>1, <2>2, <2>3, <2>4, <2>5 DEF Deferred!Callback
<1> QED
  BY <1>1, <1>2 DEF Deferred!Next

\* No module is there at first.
LEMMA WorkStart == ASSUME Deferred!Init PROVE WorkInv
BY DEF Deferred!Init, WorkInv, Deferred!Modules

\* No function of the tasklet module runs when the module has gone.
LEMMA WorkMeans == ASSUME WorkInv PROVE Deferred!TaskletGone
BY DEF WorkInv, Deferred!TaskletGone

----------------------------------------------------------------------------
(* blkdev_test.c.                                                          *)

\* What the module has at each point of its life.
DiskStages ==
    /\ rd_state \in {"out", "failed", "in", "cleanup"} \cup Disk!Resources
    /\ rd_diskmb \in DiskSizes /\ rd_disk_size \in Int
    /\ rd_state = "out" => rd_have = {}
    /\ rd_state = "failed" => rd_have \subseteq {"queue"}
    /\ rd_state = "ramdisk" => rd_have = {}
    /\ rd_state = "queue" => rd_have = {"ramdisk"}
    /\ rd_state = "major" => rd_have = {"ramdisk", "queue"}
    /\ rd_state = "disk" => rd_have = {"ramdisk", "queue", "major"}
    /\ rd_state = "in" => rd_have = Disk!Resources
    /\ rd_state = "cleanup" => rd_have = {"ramdisk", "queue"}
    /\ rd_state \notin {"in", "cleanup"} => rd_queue = <<>>

\* What the block layer makes of a request stays within the disk.
Segment == {rq \in [write : BOOLEAN, value : Contents, pos : Nat, cur : Nat, left : Nat] :
              1 <= rq.cur /\ rq.cur <= rq.left}

DiskRequests ==
    /\ rd_queue \in Seq(Segment)
    /\ \A i \in 1..Len(rd_queue) : rd_queue[i].pos + rd_queue[i].left - 1 <= rd_disk_size

DiskInv == DiskStages /\ DiskRequests /\ rd_ramdisk = rd_written

\* init and exit.
LEMMA DiskLife ==
    ASSUME Disk!WellFormed, DiskInv,
           Disk!Begin \/ Disk!Exit \/ Disk!Cleanup \/ \E r \in Disk!Resources : Disk!Take(r) \/ Disk!Lack(r)
    PROVE  DiskInv'
<1>1. rd_queue' = rd_queue /\ (rd_ramdisk = rd_written => rd_ramdisk' = rd_written')
  BY DEF Disk!Begin, Disk!Exit, Disk!Cleanup, Disk!Take, Disk!Lack, Disk!Data
<1>2. DiskStages'
  <2>1. CASE Disk!Begin
    <3>1. rd_disk_size' \in Int
      <4>1. rd_diskmb % IntSize \in Int /\ IntSize \in Int
        BY DEF Disk!WellFormed, DiskInv, DiskStages
      <4> QED
        BY <2>1, <4>1 DEF Disk!Begin, Disk!Wrapped
    <3> QED
      BY <2>1, <3>1 DEF Disk!Begin, Disk!Data, DiskInv, DiskStages, Disk!Resources
  <2>2. CASE Disk!Exit \/ Disk!Cleanup
    BY <2>2 DEF Disk!Exit, Disk!Cleanup, Disk!Drained, Disk!Data, DiskInv, DiskStages, Disk!Resources
  <2>3. ASSUME NEW r \in Disk!Resources, Disk!Take(r) PROVE DiskStages'
    BY <2>3 DEF Disk!Take, Disk!After, DiskInv, DiskStages, Disk!Resources
  <2>4. ASSUME NEW r \in Disk!Resources, Disk!Lack(r) PROVE DiskStages'
    BY <2>4 DEF Disk!Lack, Disk!LeftBy, Disk!Data, DiskInv, DiskStages, Disk!Resources
  <2> QED
    BY <2>1, <2>2, <2>3, <2>4
<1>3. rd_disk_size' = rd_disk_size \/ rd_queue = <<>>
  BY DEF Disk!Begin, Disk!Exit, Disk!Cleanup, Disk!Take, Disk!Lack, Disk!Data, DiskInv, DiskStages, Disk!Resources
<1>4. DiskRequests'
  BY <1>1, <1>3 DEF DiskInv, DiskRequests
<1> QED
  BY <1>1, <1>2, <1>4 DEF DiskInv

\* A request is put into the queue.
LEMMA DiskSubmit == ASSUME Disk!WellFormed, DiskInv, Disk!Submit PROVE DiskInv'
<1>1. PICK first \in 1..rd_disk_size, v \in Contents, write \in BOOLEAN, n \in 1..MaxLength :
          /\ first + n - 1 <= rd_disk_size
          /\ \E k \in 1..n :
                rd_queue' = Append(rd_queue, [write |-> write, value |-> v, pos |-> first, cur |-> k, left |-> n])
  BY DEF Disk!Submit
<1>2. PICK k \in 1..n : rd_queue' = Append(rd_queue, [write |-> write, value |-> v, pos |-> first, cur |-> k, left |-> n])
  BY <1>1
<1> DEFINE rq == [write |-> write, value |-> v, pos |-> first, cur |-> k, left |-> n]
<1>3. rq \in Segment /\ rq.pos + rq.left - 1 <= rd_disk_size
  BY <1>1, <1>2 DEF Segment
<1> HIDE DEF rq
<1>4. UNCHANGED <<rd_state, rd_have, rd_diskmb, rd_disk_size, rd_ramdisk, rd_written>> /\ rd_state = "in"
  BY DEF Disk!Submit
<1>5. rd_queue' \in Seq(Segment) /\ Len(rd_queue') = Len(rd_queue) + 1
      /\ rd_queue'[Len(rd_queue) + 1] = rq /\ \A i \in 1..Len(rd_queue) : rd_queue'[i] = rd_queue[i]
  BY <1>2, <1>3, AppendProperties DEF rq, DiskInv, DiskRequests
<1>6. DiskRequests'
  <2>1. Len(rd_queue) \in Nat
    BY LenProperties DEF DiskInv, DiskRequests
  <2>2. ASSUME NEW i \in 1..Len(rd_queue') PROVE i \in 1..Len(rd_queue) \/ i = Len(rd_queue) + 1
    BY <1>5, <2>1
  <2> QED
    BY <1>3, <1>4, <1>5, <2>2 DEF DiskInv, DiskRequests
<1> QED
  BY <1>4, <1>6 DEF DiskInv, DiskStages

\* A segment lies on the disk, so it is copied, and what is left does, too.
LEMMA DiskServe == ASSUME Disk!WellFormed, DiskInv, Disk!Serve PROVE DiskInv'
<1> DEFINE rq == Head(rd_queue)
<1>1. rd_queue # <<>> /\ rq = rd_queue[1] /\ Len(rd_queue) \in Nat \ {0} /\ rq \in Segment /\ rq.pos + rq.left - 1 <= rd_disk_size
      /\ Tail(rd_queue) \in Seq(Segment) /\ Len(Tail(rd_queue)) = Len(rd_queue) - 1
      /\ \A i \in 1..Len(Tail(rd_queue)) : Tail(rd_queue)[i] = rd_queue[i + 1]
  BY EmptySeq, LenProperties, HeadTailProperties DEF Disk!Serve, DiskInv, DiskRequests
<1>2. UNCHANGED <<rd_state, rd_have, rd_diskmb, rd_disk_size>> /\ rd_disk_size \in Int
  BY DEF Disk!Serve, DiskInv, DiskStages
<1>3. ~Disk!PastEnd(rq)
  BY <1>1, <1>2 DEF Disk!PastEnd, Segment
<1>4. rd_ramdisk' = rd_written'
  BY <1>3 DEF Disk!Serve, DiskInv
<1>5. CASE rd_queue' = Tail(rd_queue)
  <2>1. DiskRequests'
    <3>1. ASSUME NEW i \in 1..Len(rd_queue') PROVE rd_queue'[i] = rd_queue[i + 1] /\ i + 1 \in 1..Len(rd_queue)
      BY <1>1, <1>5
    <3> QED
      BY <1>1, <1>2, <1>5, <3>1 DEF DiskInv, DiskRequests
  <2> QED
    BY <1>1, <1>2, <1>4, <2>1 DEF DiskInv, DiskStages
<1>6. ASSUME NEW k \in 1..(rq.left - rq.cur), rd_queue' = <<Disk!Rest(rq, k)>> \o Tail(rd_queue)
      PROVE  DiskInv'
  <2> DEFINE next == Disk!Rest(rq, k)
  <2>1. next \in Segment /\ next.pos + next.left - 1 <= rd_disk_size
    <3>1. /\ rq = [write |-> rq.write, value |-> rq.value, pos |-> rq.pos, cur |-> rq.cur, left |-> rq.left]
          /\ rq.write \in BOOLEAN /\ rq.value \in Contents /\ rq.pos \in Nat /\ rq.cur \in Nat /\ rq.left \in Nat
          /\ 1 <= rq.cur /\ rq.cur <= rq.left
      BY <1>1 DEF Segment
    <3>2. next = [write |-> rq.write, value |-> rq.value, pos |-> rq.pos + rq.cur, cur |-> k, left |-> rq.left - rq.cur]
      BY DEF Disk!Rest
    <3> HIDE DEF next, rq
    <3>3. /\ next.pos = rq.pos + rq.cur /\ next.left = rq.left - rq.cur /\ next.cur = k
          /\ next.pos \in Nat /\ next.left \in Nat /\ k \in Nat /\ 1 <= k /\ k <= next.left
      BY <3>1, <3>2, <1>6
    <3>4. next \in Segment
      BY <3>1, <3>2, <3>3 DEF Segment
    <3>5. next.pos + next.left = rq.pos + rq.left
      BY <3>1, <3>3
    <3> QED
      BY <1>1, <1>2, <3>1, <3>3, <3>4, <3>5
  <2> HIDE DEF next
  <2>2. <<next>> \in Seq(Segment) /\ Len(<<next>>) = 1 /\ <<next>>[1] = next
    BY <2>1
  <2>3. /\ rd_queue' \in Seq(Segment) /\ Len(rd_queue') = 1 + Len(Tail(rd_queue))
        /\ \A i \in 1..Len(rd_queue') : rd_queue'[i] = IF i <= 1 THEN next ELSE Tail(rd_queue)[i - 1]
    <3>1. rd_queue' = <<next>> \o Tail(rd_queue)
      BY <1>6 DEF next
    <3> QED
      BY <1>1, <2>2, <3>1, ConcatProperties
  <2>4. DiskRequests'
    <3>1. ASSUME NEW i \in 1..Len(rd_queue') PROVE rd_queue'[i] = next \/ (rd_queue'[i] = rd_queue[i] /\ i \in 1..Len(rd_queue))
      BY <1>1, <2>3
    <3> QED
      BY <1>2, <2>1, <2>3, <3>1 DEF DiskInv, DiskRequests
  <2>5. rd_state \in {"in", "cleanup"}
    BY <1>1 DEF DiskInv, DiskStages
  <2> QED
    BY <1>2, <1>4, <2>4, <2>5 DEF DiskInv, DiskStages
<1> QED
  BY <1>5, <1>6 DEF Disk!Serve

\* Every step keeps the invariant.
LEMMA DiskStep == ASSUME Disk!WellFormed, DiskInv, [Disk!Next]_(Disk!vars) PROVE DiskInv'
<1>1. CASE UNCHANGED Disk!vars
  BY <1>1 DEF Disk!vars, DiskInv, DiskStages, DiskRequests
<1> QED
  BY <1>1, DiskLife, DiskSubmit, DiskServe DEF Disk!Next

\* There is no disk at first.
LEMMA DiskStart == ASSUME Disk!Init PROVE DiskInv
BY DEF Disk!Init, DiskInv, DiskStages, DiskRequests, Disk!Resources

\* A request finds the memory, what it writes is there, and nothing but the
\* request queue is left behind.
LEMMA DiskMeans == ASSUME DiskInv PROVE Disk!Backed /\ Disk!Written /\ Disk!LeftBehind
BY DEF DiskInv, DiskStages, Disk!Resources, Disk!Backed, Disk!Written, Disk!LeftBehind

----------------------------------------------------------------------------
(* dm-bufio: the age of its buffers.                                       *)

\* The clean list has every buffer once, the one used last first.
AgeLists ==
    /\ ba_now \in 0..MaxNow /\ ba_lru \in Seq(Buffers) /\ ba_dirty \subseteq Buffers
    /\ Ageing!IsInjective(ba_lru) /\ Ageing!Clean \cap ba_dirty = {}
    /\ ba_when \in [Buffers -> 0..ba_now]
    /\ ba_held \cup ba_reading \subseteq Ageing!Clean \cup ba_dirty
    /\ \A i, j \in DOMAIN ba_lru : i <= j => ba_when[ba_lru[j]] <= ba_when[ba_lru[i]]

AgeReads == [step : {"age"}, max_age : Ages, age_hz : Nat]

Scans ==
    [step : {"scan", "done"}, max_age : Ages, age_hz : Nat, retain_target : Targets,
     next : Nat, began : Nat, skipped : SUBSET Buffers]

\* The worker knows how old buffers have to be, and has skipped what it passed.
AgePass ==
    /\ ba_pass \in {Ageing!Idle} \cup AgeReads \cup Scans
    /\ ba_pass # Ageing!Idle => ba_pass.age_hz = HZ * Ageing!Clamped(ba_pass.max_age)
    /\ ba_pass \in Scans =>
          /\ ba_pass.began <= ba_now
          /\ ba_pass.next <= Len(ba_lru)
          /\ \A i \in DOMAIN ba_lru : i > ba_pass.next => ba_lru[i] \in ba_pass.skipped

AgeInv == AgeLists /\ AgePass /\ Ageing!NoOldLeft

----------------------------------------------------------------------------
\* There are so many buffers.
LEMMA AgeFinite == ASSUME Ageing!WellFormed PROVE IsFiniteSet(Buffers)
BY DEF Ageing!WellFormed, Ageing!IsFiniteSet, IsFiniteSet

\* They are counted on both lists.
LEMMA AgeCount == Ageing!Count = Len(ba_lru) + Cardinality(ba_dirty)
BY DEF Ageing!Count, Ageing!Cardinality, Cardinality

\* A list without one of its elements.
LEMMA AgeRemove ==
    ASSUME NEW s \in Seq(Buffers), Ageing!IsInjective(s), NEW i \in DOMAIN s
    PROVE  LET t == Ageing!RemoveAt(s, i) IN
           /\ t \in Seq(Buffers) /\ Len(t) = Len(s) - 1
           /\ \A j \in DOMAIN t : t[j] = s[IF j < i THEN j ELSE j + 1]
           /\ Ageing!IsInjective(t) /\ Ageing!ToSet(t) = Ageing!ToSet(s) \ {s[i]}
<1> DEFINE t == Ageing!RemoveAt(s, i)
           at(j) == IF j < i THEN j ELSE j + 1
<1>1. Len(s) \in Nat /\ DOMAIN s = 1..Len(s) /\ i \in 1..Len(s) /\ \A j \in 1..Len(s) : s[j] \in Buffers
  BY LenProperties, ElementOfSeq
<1>2. /\ SubSeq(s, 1, i - 1) \in Seq(Buffers) /\ Len(SubSeq(s, 1, i - 1)) = i - 1
      /\ \A j \in 1..i - 1 : SubSeq(s, 1, i - 1)[j] = s[j]
  <2>1. \A j \in 1..i - 1 : s[j] \in Buffers
    BY <1>1
  <2>2. \A j \in 1..i - 1 : 1 + j - 1 = j
    BY <1>1
  <2>3. i - 1 \in Int /\ (i - 1) - 1 + 1 = i - 1 /\ (1 <= i - 1 \/ i - 1 = 0)
    BY <1>1
  <2> QED
    BY <2>1, <2>2, <2>3, SubSeqProperties
<1>3. /\ SubSeq(s, i + 1, Len(s)) \in Seq(Buffers) /\ Len(SubSeq(s, i + 1, Len(s))) = Len(s) - i
      /\ \A j \in 1..Len(s) - i : SubSeq(s, i + 1, Len(s))[j] = s[i + j]
  <2>1. \A j \in i + 1..Len(s) : s[j] \in Buffers
    BY <1>1
  <2>2. \A j \in 1..Len(s) - i : (i + 1) + j - 1 = i + j
    BY <1>1
  <2>3. i + 1 \in Int /\ Len(s) \in Int /\ Len(s) - (i + 1) + 1 = Len(s) - i /\ (i + 1 <= Len(s) \/ Len(s) - i = 0)
    BY <1>1
  <2> QED
    BY <2>1, <2>2, <2>3, SubSeqProperties
<1>4. /\ t \in Seq(Buffers) /\ Len(t) = Len(s) - 1
      /\ \A j \in 1..Len(s) - 1 : t[j] = s[at(j)]
  <2> DEFINE u == SubSeq(s, 1, i - 1)
             v == SubSeq(s, i + 1, Len(s))
  <2>1. t = u \o v
    BY DEF Ageing!RemoveAt
  <2>2. /\ u \in Seq(Buffers) /\ Len(u) = i - 1 /\ \A j \in 1..i - 1 : u[j] = s[j]
        /\ v \in Seq(Buffers) /\ Len(v) = Len(s) - i /\ \A j \in 1..Len(s) - i : v[j] = s[i + j]
    BY <1>2, <1>3
  <2> HIDE DEF t, u, v
  <2>3. t \in Seq(Buffers) /\ Len(t) = Len(u) + Len(v) /\ \A j \in 1..Len(u) + Len(v) : t[j] = IF j <= Len(u) THEN u[j] ELSE v[j - Len(u)]
    BY <2>1, <2>2, ConcatProperties
  <2>4. Len(u) + Len(v) = Len(s) - 1
    BY <1>1, <2>2
  <2>5. ASSUME NEW j \in 1..Len(s) - 1 PROVE t[j] = s[at(j)]
    <3>1. CASE j < i
      <4>1. j \in 1..i - 1 /\ j <= Len(u)
        BY <1>1, <2>2, <3>1
      <4> QED
        BY <2>2, <2>3, <2>4, <3>1, <4>1
    <3>2. CASE ~(j < i)
      <4>1. j - (i - 1) \in 1..Len(s) - i /\ ~(j <= Len(u)) /\ i + (j - (i - 1)) = j + 1
        BY <1>1, <2>2, <3>2
      <4> QED
        BY <2>2, <2>3, <2>4, <3>2, <4>1
    <3> QED
      BY <3>1, <3>2
  <2> QED
    BY <2>3, <2>4, <2>5
<1>5. DOMAIN t = 1..Len(s) - 1
  BY <1>4, LenProperties
<1> HIDE DEF t
<1>6. \A j \in 1..Len(s) - 1 : at(j) \in 1..Len(s) /\ at(j) # i
  BY <1>1
<1>7. Ageing!IsInjective(t)
  <2> SUFFICES ASSUME NEW a \in 1..Len(s) - 1, NEW b \in 1..Len(s) - 1, t[a] = t[b] PROVE a = b
    BY <1>5 DEF Ageing!IsInjective
  <2>1. at(a) = at(b)
    BY <1>1, <1>4, <1>6 DEF Ageing!IsInjective
  <2> QED
    BY <1>1, <2>1
<1>8. Ageing!ToSet(t) = Ageing!ToSet(s) \ {s[i]}
  <2>1. ASSUME NEW j \in 1..Len(s) - 1 PROVE t[j] \in Ageing!ToSet(s) \ {s[i]}
    BY <1>1, <1>4, <1>6 DEF Ageing!ToSet, Ageing!IsInjective
  <2>2. ASSUME NEW k \in 1..Len(s), k # i PROVE \E j \in 1..Len(s) - 1 : t[j] = s[k]
    <3>1. (IF k < i THEN k ELSE k - 1) \in 1..Len(s) - 1 /\ at(IF k < i THEN k ELSE k - 1) = k
      BY <1>1, <2>2
    <3> QED
      BY <1>4, <3>1
  <2>3. ASSUME NEW x \in Ageing!ToSet(t) PROVE x \in Ageing!ToSet(s) \ {s[i]}
    BY <1>5, <2>1, <2>3 DEF Ageing!ToSet
  <2>4. ASSUME NEW x \in Ageing!ToSet(s), x # s[i] PROVE x \in Ageing!ToSet(t)
    <3>1. PICK k \in 1..Len(s) : x = s[k] /\ k # i
      BY <1>1, <2>4 DEF Ageing!ToSet
    <3> QED
      BY <1>5, <2>2, <3>1 DEF Ageing!ToSet
  <2> QED
    BY <2>3, <2>4
<1> QED
  BY <1>4, <1>5, <1>7, <1>8 DEF t

\* Of the clean list one buffer is unlinked, and the order of the others stays.
LEMMA AgeUnlinked ==
    ASSUME AgeLists, NEW b
    PROVE  LET t == Ageing!Unlinked(b) IN
           /\ t \in Seq(Buffers) /\ Ageing!IsInjective(t) /\ Ageing!ToSet(t) = Ageing!Clean \ {b} /\ Len(t) <= Len(ba_lru)
           /\ \A i, j \in DOMAIN t : i <= j => ba_when[t[j]] <= ba_when[t[i]]
<1>1. ba_lru \in Seq(Buffers) /\ Ageing!IsInjective(ba_lru) /\ Len(ba_lru) \in Nat /\ DOMAIN ba_lru = 1..Len(ba_lru)
  BY LenProperties DEF AgeLists
<1>2. CASE b \notin Ageing!Clean
  BY <1>1, <1>2 DEF Ageing!Unlinked, Ageing!Clean, AgeLists
<1>3. CASE b \in Ageing!Clean
  <2> DEFINE i == CHOOSE k \in DOMAIN ba_lru : ba_lru[k] = b
             t == Ageing!RemoveAt(ba_lru, i)
  <2>1. i \in DOMAIN ba_lru /\ ba_lru[i] = b
    BY <1>3 DEF Ageing!Clean, Ageing!ToSet
  <2>2. /\ t \in Seq(Buffers) /\ Len(t) = Len(ba_lru) - 1
        /\ \A j \in DOMAIN t : t[j] = ba_lru[IF j < i THEN j ELSE j + 1]
        /\ Ageing!IsInjective(t) /\ Ageing!ToSet(t) = Ageing!ToSet(ba_lru) \ {ba_lru[i]}
    BY <1>1, <2>1, AgeRemove
  <2>3. Ageing!Unlinked(b) = t
    BY <1>3 DEF Ageing!Unlinked
  <2> HIDE DEF i, t
  <2>4. DOMAIN t = 1..Len(ba_lru) - 1
    BY <1>1, <2>2, LenProperties
  <2>5. ASSUME NEW j \in DOMAIN t, NEW k \in DOMAIN t, j <= k PROVE ba_when[t[k]] <= ba_when[t[j]]
    <3> DEFINE at(n) == IF n < i THEN n ELSE n + 1
    <3>1. at(j) \in DOMAIN ba_lru /\ at(k) \in DOMAIN ba_lru /\ at(j) <= at(k)
      BY <1>1, <2>1, <2>4, <2>5
    <3> QED
      BY <2>2, <3>1 DEF AgeLists
  <2> QED
    BY <1>1, <2>1, <2>2, <2>3, <2>5 DEF Ageing!Clean
<1> QED
  BY <1>2, <1>3

\* The buffer that is used is the first of the list, and the latest.
LEMMA AgeToFront ==
    ASSUME AgeLists, NEW b \in Buffers, NEW w, w = [ba_when EXCEPT ![b] = ba_now]
    PROVE  LET t == Ageing!ToFront(b) IN
           /\ t \in Seq(Buffers) /\ Ageing!IsInjective(t) /\ Ageing!ToSet(t) = Ageing!Clean \cup {b}
           /\ \A i, j \in DOMAIN t : i <= j => w[t[j]] <= w[t[i]]
<1> DEFINE u == Ageing!Unlinked(b)
           t == <<b>> \o u
<1>1. /\ u \in Seq(Buffers) /\ Ageing!IsInjective(u) /\ Ageing!ToSet(u) = Ageing!Clean \ {b}
      /\ \A i, j \in DOMAIN u : i <= j => ba_when[u[j]] <= ba_when[u[i]]
  BY AgeUnlinked
<1>2. <<b>> \in Seq(Buffers) /\ Len(<<b>>) = 1 /\ <<b>>[1] = b
  OBVIOUS
<1> HIDE DEF u
<1>3. Len(u) \in Nat /\ DOMAIN u = 1..Len(u)
  BY <1>1, LenProperties
<1>4. t \in Seq(Buffers) /\ Len(t) = Len(u) + 1 /\ \A i \in 1..Len(u) + 1 : t[i] = IF i = 1 THEN b ELSE u[i - 1]
  BY <1>1, <1>2, <1>3, ConcatProperties
<1> HIDE DEF t
<1>5. DOMAIN t = 1..Len(u) + 1
  BY <1>4, LenProperties
<1>6. \A i \in DOMAIN u : u[i] # b /\ u[i] \in Buffers
  BY <1>1, ElementOfSeq, <1>3 DEF Ageing!ToSet
<1>7. Ageing!IsInjective(t)
  <2> SUFFICES ASSUME NEW i \in 1..Len(u) + 1, NEW j \in 1..Len(u) + 1, t[i] = t[j] PROVE i = j
    BY <1>5 DEF Ageing!IsInjective
  <2>1. \A k \in 1..Len(u) + 1 : k = 1 \/ k - 1 \in DOMAIN u
    BY <1>3
  <2>2. i # 1 /\ j # 1 => i - 1 = j - 1
    BY <1>1, <1>4, <2>1 DEF Ageing!IsInjective
  <2> QED
    BY <1>4, <1>6, <2>1, <2>2
<1>8. Ageing!ToSet(t) = Ageing!Clean \cup {b}
  <2>1. 1 \in DOMAIN t /\ t[1] = b
    BY <1>3, <1>4, <1>5
  <2>2. \A i \in DOMAIN u : i + 1 \in DOMAIN t /\ t[i + 1] = u[i]
    BY <1>3, <1>4, <1>5
  <2>3. \A i \in DOMAIN t : i = 1 \/ (i - 1 \in DOMAIN u /\ t[i] = u[i - 1])
    BY <1>3, <1>4, <1>5
  <2>4. Ageing!ToSet(t) = Ageing!ToSet(u) \cup {b}
    BY <2>1, <2>2, <2>3 DEF Ageing!ToSet
  <2> QED
    BY <1>1, <2>4
<1>9. ASSUME NEW i \in DOMAIN t, NEW j \in DOMAIN t, i <= j PROVE w[t[j]] <= w[t[i]]
  <2>1. w[b] = ba_now /\ \A x \in Buffers : x # b => w[x] = ba_when[x] /\ ba_when[x] <= ba_now
    BY DEF AgeLists
  <2>2. ba_now \in Nat
    BY DEF AgeLists
  <2>3. CASE i = 1
    <3>1. w[t[i]] = ba_now
      BY <1>4, <1>5, <2>1, <2>3
    <3>2. t[j] \in Buffers
      BY <1>4, ElementOfSeq
    <3>3. w[t[j]] <= ba_now
      BY <2>1, <2>2, <3>2
    <3> QED
      BY <3>1, <3>3
  <2>4. CASE i # 1
    <3>1. i - 1 \in DOMAIN u /\ j - 1 \in DOMAIN u /\ i - 1 <= j - 1 /\ t[i] = u[i - 1] /\ t[j] = u[j - 1]
      BY <1>3, <1>4, <1>5, <1>9, <2>4
    <3> QED
      BY <1>1, <1>6, <2>1, <3>1
  <2> QED
    BY <2>3, <2>4
<1> QED
  BY <1>4, <1>7, <1>8, <1>9 DEF t, u, Ageing!ToFront

----------------------------------------------------------------------------
\* A product with something else is not between.
LEMMA AgeTimes ==
    ASSUME NEW U \in Nat \ {0}, NEW q \in Int, -U < U * q, U * q < U
    PROVE  q = 0
<1>1. CASE q >= 1
  <2>1. PICK d \in Nat : q = d + 1
    BY <1>1
  <2>2. U * q = U * d + U /\ U * d >= 0
    BY <2>1
  <2> QED
    BY <2>2
<1>2. CASE q <= -1
  <2>1. PICK d \in Nat : q = -d - 1
    <3>1. -q - 1 \in Nat /\ q = -(-q - 1) - 1
      BY <1>2
    <3> QED
      BY <3>1
  <2>2. U * q = -(U * d) - U /\ U * d >= 0
    BY <2>1
  <2> QED
    BY <2>2
<1> QED
  BY <1>1, <1>2

\* What is left of a division.
LEMMA AgeRest ==
    ASSUME NEW U \in Nat \ {0}, NEW a \in Int
    PROVE  a % U \in 0..U - 1 /\ \E q \in Int : a = U * q + (a % U)
<1>1. a % U \in 0..U - 1
  OBVIOUS
<1>2. a \div U \in Int /\ a = U * (a \div U) + (a % U)
  OBVIOUS
<1> QED
  BY <1>1, <1>2

\* A number below the divisor is the remainder.
LEMMA AgeUnique ==
    ASSUME NEW U \in Nat \ {0}, NEW q \in Int, NEW r \in 0..U - 1
    PROVE  (U * q + r) % U = r
<1> DEFINE a == U * q + r
<1>1. a \in Int
  OBVIOUS
<1>2. PICK p \in Int : a = U * p + (a % U) /\ a % U \in 0..U - 1
  BY <1>1, AgeRest
<1>3. U * (q - p) = U * q - U * p
  OBVIOUS
<1>4. U * (q - p) = (a % U) - r
  BY <1>2, <1>3
<1>5. q - p = 0
  <2>1. q - p \in Int /\ -U < U * (q - p) /\ U * (q - p) < U
    BY <1>2, <1>4
  <2> QED
    BY <2>1, AgeTimes
<1> QED
  BY <1>2, <1>5

\* jiffies and ages in an unsigned long, and their difference as a signed one.
LEMMA AgeWrapped ==
    ASSUME NEW U \in Nat \ {0}, NEW boot \in Nat, NEW n \in Nat, NEW w \in Nat, NEW a \in Nat,
           w <= n, a + n < U \div 2
    PROVE  (((boot + n) % U) - ((((boot + w) % U) + a) % U)) % U < U \div 2 <=> n - w >= a
<1> DEFINE x == (boot + n) % U
           y == (boot + w) % U
           z == (y + a) % U
           d == n - w - a
<1>1. PICK i \in Int : boot + n = U * i + x /\ x \in 0..U - 1
  <2>1. boot + n \in Int
    OBVIOUS
  <2> QED
    BY <2>1, AgeRest
<1>2. PICK j \in Int : boot + w = U * j + y /\ y \in 0..U - 1
  <2>1. boot + w \in Int
    OBVIOUS
  <2> QED
    BY <2>1, AgeRest
<1>3. PICK k \in Int : y + a = U * k + z /\ z \in 0..U - 1
  <2>1. y + a \in Int
    BY <1>2
  <2> QED
    BY <2>1, AgeRest
<1> HIDE DEF x, y, z
<1>4. x - z = U * (j + k - i) + d
  <2>1. U * (j + k - i) = U * j + U * k - U * i
    OBVIOUS
  <2> QED
    BY <1>1, <1>2, <1>3, <2>1
<1>5. d \in Int /\ d < U \div 2 /\ 2 * d > -U /\ U \div 2 \in Int /\ 2 * (U \div 2) <= U /\ U <= 2 * (U \div 2) + 1
  OBVIOUS
<1> HIDE DEF d
<1>6. CASE d >= 0
  <2>1. d \in 0..U - 1
    BY <1>5, <1>6
  <2>2. ((x - z) % U) = d
    BY <1>4, <2>1, AgeUnique
  <2>3. d < U \div 2 /\ n - w >= a
    BY <1>5, <1>6 DEF d
  <2> QED
    BY <2>2, <2>3 DEF x, y, z
<1>7. CASE d < 0
  <2>1. d + U \in 0..U - 1 /\ j + k - i - 1 \in Int
    BY <1>5, <1>7
  <2>2. U * (j + k - i) + d = U * (j + k - i - 1) + (d + U)
    BY <1>5
  <2>3. ((x - z) % U) = d + U
    BY <1>4, <2>1, <2>2, AgeUnique
  <2>4. ~(d + U < U \div 2) /\ ~(n - w >= a)
    BY <1>5, <1>7 DEF d
  <2> QED
    BY <2>3, <2>4 DEF x, y, z
<1> QED
  BY <1>5, <1>6, <1>7

\* As many seconds as fit are so many jiffies.
LEMMA AgeFits ==
    ASSUME NEW h \in Nat \ {0}, NEW m \in Nat
    PROVE  m \div h \in Nat /\ h * (m \div h) <= m
<1>1. m = h * (m \div h) + (m % h) /\ m % h \in 0..h - 1 /\ m \div h \in Int
  OBVIOUS
<1>2. m \div h >= 0
  <2> SUFFICES ASSUME m \div h <= -1 PROVE FALSE
    BY <1>1
  <2>1. PICK d \in Nat : m \div h = -d - 1
    <3>1. -(m \div h) - 1 \in Nat /\ m \div h = -(-(m \div h) - 1) - 1
      BY <1>1
    <3> QED
      BY <3>1
  <2>2. h * (m \div h) = -(h * d) - h /\ h * d >= 0
    BY <2>1
  <2> QED
    BY <1>1, <2>2
<1> QED
  BY <1>1, <1>2

\* Older than an age is older than it, wherever jiffies are.
LEMMA AgeOlder ==
    ASSUME Ageing!WellFormed, AgeLists, NEW b \in Buffers, NEW a \in 0..UIntMax
    PROVE  Ageing!older_than(b, a) <=> ba_now - ba_when[b] >= a
<1>1. /\ ULongSize \in Nat \ {0} /\ Boot \in Nat /\ ba_now \in Nat /\ ba_when[b] \in Nat /\ a \in Nat
      /\ ba_when[b] <= ba_now /\ a + ba_now < ULongSize \div 2
  <2>1. ba_when[b] \in 0..ba_now /\ ba_now \in 0..MaxNow
    BY DEF AgeLists
  <2>2. ULongSize \in Nat \ {0}
    <3>1. ULongSize # 0
      BY DEF Ageing!WellFormed
    <3> QED
      BY <3>1 DEF Ageing!WellFormed
  <2>3. ULongSize \div 2 \in Int /\ UIntMax + MaxNow < ULongSize \div 2
    BY DEF Ageing!WellFormed
  <2>4. a + ba_now <= UIntMax + MaxNow
    BY <2>1 DEF Ageing!WellFormed
  <2>5. a + ba_now < ULongSize \div 2
    BY <2>1, <2>3, <2>4 DEF Ageing!WellFormed
  <2> QED
    BY <2>1, <2>2, <2>5 DEF Ageing!WellFormed
<1>2. (((Boot + ba_now) % ULongSize) - ((((Boot + ba_when[b]) % ULongSize) + a) % ULongSize)) % ULongSize < ULongSize \div 2
        <=> ba_now - ba_when[b] >= a
  BY <1>1, AgeWrapped
<1> QED
  BY <1>2 DEF Ageing!older_than, Ageing!AfterEq, Ageing!jiffies, Ageing!last_accessed

\* A factor that is no larger makes no larger product.
LEMMA AgeTimesLess ==
    ASSUME NEW h \in Nat, NEW a \in Nat, NEW c \in Nat, a <= c
    PROVE  h * a <= h * c /\ h * a \in Nat
<1>1. PICK d \in Nat : c = a + d
  <2>1. c - a \in Nat /\ c = a + (c - a)
    OBVIOUS
  <2> QED
    BY <2>1
<1>2. h * c = h * a + h * d /\ h * d \in Nat /\ h * a \in Nat
  BY <1>1
<1> QED
  BY <1>2

\* The seconds are cut so that their jiffies fit.
LEMMA AgeHz ==
    ASSUME Ageing!WellFormed, NEW a \in Nat
    PROVE  HZ * Ageing!Clamped(a) \in 0..UIntMax /\ Ageing!get_max_age_hz(a) = HZ * Ageing!Clamped(a)
<1> DEFINE m == UIntMax \div HZ
<1>1. m \in Nat /\ HZ * m <= UIntMax /\ HZ \in Nat /\ UIntMax \in Nat
  BY AgeFits DEF Ageing!WellFormed
<1>2. Ageing!Clamped(a) \in Nat /\ Ageing!Clamped(a) <= m
  BY <1>1 DEF Ageing!Clamped
<1>3. HZ * Ageing!Clamped(a) \in 0..UIntMax
  <2> HIDE DEF m
  <2>1. HZ * Ageing!Clamped(a) <= HZ * m /\ HZ * Ageing!Clamped(a) \in Nat /\ HZ * m \in Nat
    BY <1>1, <1>2, AgeTimesLess
  <2> QED
    BY <1>1, <2>1
<1>4. (Ageing!Clamped(a) * HZ) % (UIntMax + 1) = HZ * Ageing!Clamped(a)
  <2>1. Ageing!Clamped(a) * HZ = HZ * Ageing!Clamped(a)
    BY <1>1, <1>2
  <2>2. ASSUME NEW x \in 0..UIntMax PROVE x % (UIntMax + 1) = x
    BY <1>1, <2>2
  <2> QED
    BY <1>3, <2>1, <2>2
<1> QED
  BY <1>3, <1>4 DEF Ageing!get_max_age_hz

----------------------------------------------------------------------------
\* The shapes of a pass are told apart by its step.
LEMMA AgeStages ==
    ASSUME AgePass
    PROVE  /\ ba_pass.step \in {"idle", "age", "scan", "done"}
           /\ ba_pass.step = "idle" <=> ba_pass = Ageing!Idle
           /\ ba_pass.step = "age" <=> ba_pass \in AgeReads
           /\ ba_pass.step \in {"scan", "done"} <=> ba_pass \in Scans
BY DEF AgePass, Ageing!Idle, AgeReads, Scans

\* While nobody scans the list may change as it likes.
LEMMA AgeUnlocked ==
    ASSUME AgeInv, Ageing!Unlocked, AgeLists', UNCHANGED <<ba_now, ba_pass>>
    PROVE  AgeInv'
<1>1. ba_pass.step \in {"idle", "age"} /\ ba_pass \notin Scans
  BY AgeStages DEF AgeInv, Ageing!Unlocked
<1> QED
  BY <1>1 DEF AgeInv, AgePass, Ageing!NoOldLeft

\* A buffer is linked to the clean list.
LEMMA AgeLinkClean ==
    ASSUME AgeLists, NEW b \in Buffers, Ageing!LinkClean(b), UNCHANGED ba_now,
           ba_held' \subseteq ba_held \cup {b}, ba_reading' \subseteq ba_reading \cup {b}
    PROVE  AgeLists'
<1>1. /\ ba_lru' \in Seq(Buffers) /\ Ageing!IsInjective(ba_lru') /\ Ageing!ToSet(ba_lru') = Ageing!Clean \cup {b}
      /\ \A i, j \in DOMAIN ba_lru' : i <= j => ba_when'[ba_lru'[j]] <= ba_when'[ba_lru'[i]]
  BY AgeToFront DEF Ageing!LinkClean
<1>2. ba_when' \in [Buffers -> 0..ba_now']
  BY DEF Ageing!LinkClean, AgeLists
<1> QED
  BY <1>1, <1>2 DEF Ageing!LinkClean, AgeLists, Ageing!Clean

\* A buffer is taken from the clean list.
LEMMA AgeUnlink ==
    ASSUME AgeLists, NEW b \in Buffers, ba_lru' = Ageing!Unlinked(b), UNCHANGED ba_now,
           \A x \in Buffers : x # b => ba_when'[x] = ba_when[x], ba_when' \in [Buffers -> 0..ba_now],
           ba_dirty' \subseteq Buffers, ba_dirty' \subseteq ba_dirty \cup {b},
           ba_held' \cup ba_reading' \subseteq (Ageing!Clean \ {b}) \cup ba_dirty'
    PROVE  AgeLists'
<1>1. /\ ba_lru' \in Seq(Buffers) /\ Ageing!IsInjective(ba_lru') /\ Ageing!ToSet(ba_lru') = Ageing!Clean \ {b}
      /\ \A i, j \in DOMAIN ba_lru' : i <= j => ba_when[ba_lru'[j]] <= ba_when[ba_lru'[i]]
  BY AgeUnlinked
<1>2. \A i \in DOMAIN ba_lru' : ba_lru'[i] \in Buffers /\ ba_lru'[i] # b
  <2>1. DOMAIN ba_lru' = 1..Len(ba_lru')
    BY <1>1, LenProperties
  <2>2. \A i \in 1..Len(ba_lru') : ba_lru'[i] \in Buffers
    BY <1>1, ElementOfSeq
  <2>3. \A i \in DOMAIN ba_lru' : ba_lru'[i] \in Ageing!ToSet(ba_lru')
    BY DEF Ageing!ToSet
  <2> QED
    BY <1>1, <2>1, <2>2, <2>3
<1> QED
  BY <1>1, <1>2 DEF AgeLists, Ageing!Clean

\* A buffer is used now.
LEMMA AgeWhen ==
    ASSUME AgeLists, NEW b \in Buffers, ba_when' = [ba_when EXCEPT ![b] = ba_now]
    PROVE  ba_when' \in [Buffers -> 0..ba_now] /\ \A x \in Buffers : x # b => ba_when'[x] = ba_when[x]
<1>1. ba_now \in 0..ba_now
  BY DEF AgeLists
<1> QED
  BY <1>1 DEF AgeLists

\* The users of the cache.
LEMMA AgeUsers ==
    ASSUME Ageing!WellFormed, AgeInv, NEW b \in Buffers,
           Ageing!Insert(b) \/ Ageing!Get(b) \/ Ageing!Release(b) \/ Ageing!MarkDirty(b) \/ Ageing!Written(b) \/ Ageing!Drop(b)
    PROVE  AgeInv'
<1>1. Ageing!Unlocked /\ UNCHANGED <<ba_now, ba_pass>> /\ AgeLists
  BY DEF Ageing!Insert, Ageing!Get, Ageing!Release, Ageing!MarkDirty, Ageing!Written, Ageing!Drop, AgeInv
<1>2. AgeLists'
  <2>1. CASE Ageing!Insert(b)
    BY <1>1, <2>1, AgeLinkClean DEF Ageing!Insert
  <2>2. CASE Ageing!Get(b)
    <3>1. CASE b \in ba_dirty
      <4>1. /\ ba_lru' = Ageing!Unlinked(b) /\ UNCHANGED ba_now /\ ba_dirty' = ba_dirty /\ ba_when' = [ba_when EXCEPT ![b] = ba_now]
            /\ ba_held' = ba_held \cup {b} /\ UNCHANGED ba_reading
        BY <2>2, <3>1 DEF Ageing!Get, Ageing!LinkDirty
      <4>2. b \notin Ageing!Clean
        BY <1>1, <3>1 DEF AgeLists
      <4> QED
        BY <1>1, <3>1, <4>1, <4>2, AgeUnlink, AgeWhen DEF AgeLists
    <3>2. CASE b \notin ba_dirty
      BY <1>1, <2>2, <3>2, AgeLinkClean DEF Ageing!Get
    <3> QED
      BY <3>1, <3>2
  <2>3. CASE Ageing!Release(b)
    BY <1>1, <2>3 DEF Ageing!Release, AgeLists, Ageing!Clean
  <2>4. CASE Ageing!MarkDirty(b)
    <3>1. /\ ba_lru' = Ageing!Unlinked(b) /\ UNCHANGED ba_now /\ ba_dirty' = ba_dirty \cup {b} /\ ba_when' = [ba_when EXCEPT ![b] = ba_now]
          /\ UNCHANGED <<ba_held, ba_reading>>
      BY <2>4 DEF Ageing!MarkDirty, Ageing!LinkDirty
    <3> QED
      BY <1>1, <3>1, AgeUnlink, AgeWhen DEF AgeLists
  <2>5. CASE Ageing!Written(b)
    BY <1>1, <2>5, AgeLinkClean DEF Ageing!Written
  <2>6. CASE Ageing!Drop(b)
    BY <1>1, <2>6, AgeUnlink DEF Ageing!Drop, AgeLists
  <2> QED
    BY <2>1, <2>2, <2>3, <2>4, <2>5, <2>6
<1> QED
  BY <1>1, <1>2, AgeUnlocked

\* Time goes on and reads end, whoever has the lock.
LEMMA AgeClock ==
    ASSUME Ageing!WellFormed, AgeInv, Ageing!Tick \/ \E b \in Buffers : Ageing!ReadDone(b)
    PROVE  AgeInv'
<1>1. /\ UNCHANGED <<ba_lru, ba_dirty, ba_when, ba_held, ba_pass>> /\ ba_reading' \subseteq ba_reading
      /\ ba_now' \in 0..MaxNow /\ ba_now <= ba_now' /\ ba_now \in 0..MaxNow
  BY DEF Ageing!Tick, Ageing!ReadDone, AgeInv, AgeLists, Ageing!WellFormed
<1>2. AgeLists'
  BY <1>1 DEF AgeInv, AgeLists, Ageing!Clean
<1>3. AgePass'
  BY <1>1 DEF AgeInv, AgePass, Scans
<1>4. Ageing!NoOldLeft'
  BY <1>1 DEF AgeInv, Ageing!NoOldLeft, Ageing!Clean, Ageing!Count, Ageing!Age
<1> QED
  BY <1>2, <1>3, <1>4 DEF AgeInv

\* The worker before it has the lock, and when it gives it back.
LEMMA AgeBegins ==
    ASSUME Ageing!WellFormed, AgeInv, Ageing!ReadAge \/ Ageing!Begin \/ Ageing!Unlock
    PROVE  AgeInv'
<1>1. UNCHANGED <<ba_now, ba_lru, ba_dirty, ba_when, ba_held, ba_reading>>
  BY DEF Ageing!ReadAge, Ageing!Begin, Ageing!Unlock
<1>2. AgeLists'
  BY <1>1 DEF AgeInv, AgeLists, Ageing!Clean
<1>3. AgePass' /\ ba_pass'.step # "done"
  <2>1. CASE Ageing!ReadAge
    <3>1. PICK a \in Ages : ba_pass' = [step |-> "age", max_age |-> a, age_hz |-> Ageing!get_max_age_hz(a)]
      BY <2>1 DEF Ageing!ReadAge
    <3>2. Ageing!get_max_age_hz(a) \in Nat /\ Ageing!get_max_age_hz(a) = HZ * Ageing!Clamped(a)
      BY AgeHz DEF Ageing!WellFormed
    <3> QED
      BY <3>1, <3>2 DEF AgePass, AgeReads, Scans
  <2>2. CASE Ageing!Begin
    <3>1. ba_pass.step = "age" /\ ba_pass \in AgeReads /\ ba_pass.age_hz = HZ * Ageing!Clamped(ba_pass.max_age)
      BY <2>2, AgeStages DEF Ageing!Begin, AgeInv, AgePass, Ageing!Idle
    <3>2. PICK t \in Targets :
        ba_pass' = [step |-> "scan", max_age |-> ba_pass.max_age, age_hz |-> ba_pass.age_hz,
                 retain_target |-> t, next |-> Len(ba_lru), began |-> ba_now, skipped |-> {}]
      BY <2>2 DEF Ageing!Begin
    <3>3. Len(ba_lru) \in Nat /\ DOMAIN ba_lru = 1..Len(ba_lru) /\ ba_now \in Nat
      BY LenProperties DEF AgeInv, AgeLists
    <3>4. ba_pass' \in Scans
      BY <3>1, <3>2, <3>3 DEF Scans, AgeReads
    <3> QED
      BY <1>1, <3>1, <3>2, <3>3, <3>4 DEF AgePass
  <2>3. CASE Ageing!Unlock
    BY <2>3 DEF Ageing!Unlock, Ageing!Idle, AgePass, Scans
  <2> QED
    BY <2>1, <2>2, <2>3
<1> QED
  BY <1>2, <1>3 DEF AgeInv, Ageing!NoOldLeft

\* The worker passes over the last buffer it has not seen, or evicts it.
LEMMA AgeVisit ==
    ASSUME Ageing!WellFormed, AgeInv, Ageing!Visit
    PROVE  AgeInv' /\ Ageing!NotTooYoung
<1>1. /\ ba_pass \in Scans /\ ba_pass.step = "scan" /\ UNCHANGED <<ba_now, ba_dirty, ba_when, ba_held, ba_reading>>
      /\ ba_pass.next > 0 /\ Ageing!older_than(ba_lru[ba_pass.next], ba_pass.age_hz)
      /\ ba_pass.age_hz = HZ * Ageing!Clamped(ba_pass.max_age) /\ ba_pass.next <= Len(ba_lru)
      /\ \A i \in DOMAIN ba_lru : i > ba_pass.next => ba_lru[i] \in ba_pass.skipped
  BY AgeStages DEF Ageing!Visit, Ageing!More, AgeInv, AgePass, Ageing!Idle
<1>2. Len(ba_lru) \in Nat /\ DOMAIN ba_lru = 1..Len(ba_lru) /\ ba_pass.next \in DOMAIN ba_lru /\ ba_lru[ba_pass.next] \in Buffers
  <2>1. Len(ba_lru) \in Nat /\ DOMAIN ba_lru = 1..Len(ba_lru) /\ ba_pass.next \in Nat
    BY <1>1, LenProperties DEF AgeInv, AgeLists, Scans
  <2>2. ba_pass.next \in 1..Len(ba_lru)
    BY <1>1, <2>1
  <2> QED
    BY <2>1, <2>2, ElementOfSeq DEF AgeInv, AgeLists
<1>3. CASE ba_lru[ba_pass.next] \in ba_held \cup ba_reading
  <2>1. UNCHANGED ba_lru /\ ba_pass' = [ba_pass EXCEPT !.next = @ - 1, !.skipped = @ \cup {ba_lru[ba_pass.next]}]
    BY <1>3 DEF Ageing!Visit
  <2>2. /\ ba_pass' \in Scans /\ ba_pass'.step = "scan" /\ ba_pass'.next = ba_pass.next - 1 /\ ba_pass'.began = ba_pass.began
        /\ ba_pass'.skipped = ba_pass.skipped \cup {ba_lru[ba_pass.next]}
        /\ ba_pass'.age_hz = ba_pass.age_hz /\ ba_pass'.max_age = ba_pass.max_age
    <3> DEFINE n == ba_pass.next - 1
               sk == ba_pass.skipped \cup {ba_lru[ba_pass.next]}
    <3>1. n \in Nat /\ sk \in SUBSET Buffers
      BY <1>1, <1>2 DEF Scans
    <3>2. ba_pass' = [ba_pass EXCEPT !.next = n, !.skipped = sk]
      BY <2>1
    <3> HIDE DEF n, sk
    <3>3. ba_pass' \in Scans /\ ba_pass'.step = "scan" /\ ba_pass'.next = n /\ ba_pass'.began = ba_pass.began
          /\ ba_pass'.skipped = sk /\ ba_pass'.age_hz = ba_pass.age_hz /\ ba_pass'.max_age = ba_pass.max_age
      BY <1>1, <3>1, <3>2 DEF Scans
    <3> QED
      BY <3>3 DEF n, sk
  <2>3. ASSUME NEW i \in DOMAIN ba_lru, i > ba_pass'.next PROVE ba_lru[i] \in ba_pass'.skipped
    BY <1>1, <1>2, <2>2, <2>3
  <2>4. ba_pass'.next <= Len(ba_lru)
    BY <1>1, <1>2, <2>2
  <2>5. AgePass'
    BY <1>1, <2>1, <2>2, <2>3, <2>4 DEF AgeInv, AgePass
  <2>6. AgeLists'
    BY <1>1, <2>1 DEF AgeInv, AgeLists, Ageing!Clean
  <2> QED
    BY <2>1, <2>2, <2>5, <2>6 DEF AgeInv, Ageing!NoOldLeft, Ageing!NotTooYoung, Ageing!Clean
<1>4. CASE ba_lru[ba_pass.next] \notin ba_held \cup ba_reading
  <2>1. ba_lru' = Ageing!RemoveAt(ba_lru, ba_pass.next) /\ ba_pass' = [ba_pass EXCEPT !.next = @ - 1]
    BY <1>4 DEF Ageing!Visit
  <2>2. /\ ba_pass' \in Scans /\ ba_pass'.step = "scan" /\ ba_pass'.next = ba_pass.next - 1 /\ ba_pass'.began = ba_pass.began
        /\ ba_pass'.skipped = ba_pass.skipped /\ ba_pass'.age_hz = ba_pass.age_hz /\ ba_pass'.max_age = ba_pass.max_age
    BY <1>1, <1>2, <2>1 DEF Scans
  <2>3. /\ ba_lru' \in Seq(Buffers) /\ Len(ba_lru') = Len(ba_lru) - 1
        /\ \A j \in DOMAIN ba_lru' : ba_lru'[j] = ba_lru[IF j < ba_pass.next THEN j ELSE j + 1]
        /\ Ageing!IsInjective(ba_lru') /\ Ageing!ToSet(ba_lru') = Ageing!Clean \ {ba_lru[ba_pass.next]}
    BY <1>2, <2>1, AgeRemove DEF AgeInv, AgeLists, Ageing!Clean
  <2>4. DOMAIN ba_lru' = 1..Len(ba_lru) - 1
    BY <1>2, <2>3, LenProperties
  <2>5. ASSUME NEW i \in DOMAIN ba_lru', NEW j \in DOMAIN ba_lru', i <= j PROVE ba_when'[ba_lru'[j]] <= ba_when'[ba_lru'[i]]
    <3> DEFINE at(n) == IF n < ba_pass.next THEN n ELSE n + 1
    <3>1. at(i) \in DOMAIN ba_lru /\ at(j) \in DOMAIN ba_lru /\ at(i) <= at(j)
      BY <1>2, <2>4, <2>5
    <3> QED
      BY <1>1, <2>3, <3>1 DEF AgeInv, AgeLists
  <2>6. AgeLists'
    BY <1>1, <1>4, <2>3, <2>5 DEF AgeInv, AgeLists, Ageing!Clean
  <2>7. ASSUME NEW i \in DOMAIN ba_lru', i > ba_pass'.next PROVE ba_lru'[i] \in ba_pass'.skipped
    <3>1. ~(i < ba_pass.next) /\ i + 1 \in DOMAIN ba_lru /\ i + 1 > ba_pass.next
      BY <1>2, <2>2, <2>4, <2>7
    <3> QED
      BY <1>1, <2>2, <2>3, <3>1
  <2>8. ba_pass'.next <= Len(ba_lru')
    BY <1>1, <1>2, <2>2, <2>3
  <2>9. AgePass'
    BY <1>1, <2>2, <2>7, <2>8 DEF AgeInv, AgePass
  <2>10. Ageing!NotTooYoung
    <3>1. HZ * Ageing!Clamped(ba_pass.max_age) \in 0..UIntMax
      BY <1>1, AgeHz DEF Scans, Ageing!WellFormed
    <3>2. ba_now - ba_when[ba_lru[ba_pass.next]] >= ba_pass.age_hz
      BY <1>1, <1>2, <3>1, AgeOlder DEF AgeInv
    <3> QED
      BY <1>1, <2>3, <3>2 DEF Ageing!NotTooYoung, Ageing!Age
  <2> QED
    BY <2>2, <2>6, <2>9, <2>10 DEF AgeInv, Ageing!NoOldLeft
<1> QED
  BY <1>3, <1>4

\* The worker stops: at the head of the list, at the target, or at a buffer
\* before which all were used later.
LEMMA AgeOver ==
    ASSUME Ageing!WellFormed, AgeInv, Ageing!Over
    PROVE  AgeInv'
<1>1. /\ ba_pass \in Scans /\ ba_pass.step = "scan" /\ UNCHANGED <<ba_now, ba_lru, ba_dirty, ba_when, ba_held, ba_reading>>
      /\ ba_pass.age_hz = HZ * Ageing!Clamped(ba_pass.max_age) /\ ba_pass.next <= Len(ba_lru) /\ ba_pass.began <= ba_now
      /\ \A i \in DOMAIN ba_lru : i > ba_pass.next => ba_lru[i] \in ba_pass.skipped
      /\ ba_pass' = [ba_pass EXCEPT !.step = "done"] /\ ~Ageing!More
  BY AgeStages DEF Ageing!Over, AgeInv, AgePass, Ageing!Idle
<1>2. /\ ba_pass' \in Scans /\ ba_pass'.step = "done" /\ ba_pass'.next = ba_pass.next /\ ba_pass'.began = ba_pass.began
      /\ ba_pass'.skipped = ba_pass.skipped /\ ba_pass'.age_hz = ba_pass.age_hz /\ ba_pass'.max_age = ba_pass.max_age
      /\ ba_pass'.retain_target = ba_pass.retain_target
  BY <1>1 DEF Scans
<1>3. AgeLists' /\ AgePass'
  BY <1>1, <1>2 DEF AgeInv, AgeLists, AgePass, Ageing!Clean
<1>4. /\ Len(ba_lru) \in Nat /\ DOMAIN ba_lru = 1..Len(ba_lru) /\ ba_pass.next \in Nat /\ Ageing!Count \in Nat
      /\ ba_pass.retain_target \in Nat /\ ba_now \in Nat /\ ba_pass.began \in Nat /\ ba_pass.age_hz \in 0..UIntMax
  <2>1. IsFiniteSet(ba_dirty)
    BY AgeFinite, FS_Subset DEF AgeInv, AgeLists
  <2>2. Cardinality(ba_dirty) \in Nat /\ Len(ba_lru) \in Nat /\ DOMAIN ba_lru = 1..Len(ba_lru)
    BY <2>1, FS_CardinalityType, LenProperties DEF AgeInv, AgeLists
  <2>3. Ageing!Count \in Nat
    BY <2>2, AgeCount
  <2>4. ba_pass.age_hz \in 0..UIntMax
    BY <1>1, AgeHz DEF Scans, Ageing!WellFormed
  <2>5. ba_pass.next \in Nat /\ ba_pass.retain_target \in Nat /\ ba_now \in Nat /\ ba_pass.began \in Nat
    BY <1>1 DEF Scans, Ageing!WellFormed, AgeInv, AgeLists
  <2> QED
    BY <2>2, <2>3, <2>4, <2>5
<1>5. ASSUME NEW i \in DOMAIN ba_lru
      PROVE  Ageing!Age(ba_lru[i], ba_pass.began) < ba_pass.age_hz \/ ba_lru[i] \in ba_pass.skipped \/ Ageing!Count <= ba_pass.retain_target
  <2>1. CASE i > ba_pass.next
    BY <1>1, <2>1
  <2>2. CASE Ageing!Count <= ba_pass.retain_target
    BY <2>2
  <2>3. CASE ~(i > ba_pass.next) /\ ~(Ageing!Count <= ba_pass.retain_target)
    <3>1. ba_pass.next > 0 /\ Ageing!Count > ba_pass.retain_target /\ i <= ba_pass.next /\ ba_pass.next \in DOMAIN ba_lru
      BY <1>1, <1>4, <2>3
    <3>2. ba_lru[ba_pass.next] \in Buffers /\ ba_lru[i] \in Buffers
      BY <1>4, <3>1, ElementOfSeq DEF AgeInv, AgeLists
    <3>3. ~(ba_now - ba_when[ba_lru[ba_pass.next]] >= ba_pass.age_hz)
      BY <1>1, <1>4, <3>1, <3>2, AgeOlder DEF Ageing!More, AgeInv
    <3>4. ba_when[ba_lru[ba_pass.next]] <= ba_when[ba_lru[i]] /\ ba_when[ba_lru[i]] \in Nat /\ ba_when[ba_lru[ba_pass.next]] \in Nat
      <4>1. ba_when[ba_lru[ba_pass.next]] <= ba_when[ba_lru[i]]
        BY <3>1 DEF AgeInv, AgeLists
      <4>2. \A x \in Buffers : ba_when[x] \in 0..ba_now
        BY DEF AgeInv, AgeLists
      <4> QED
        BY <3>2, <4>1, <4>2
    <3>5. ba_pass.began - ba_when[ba_lru[i]] < ba_pass.age_hz
      BY <1>1, <1>4, <3>3, <3>4
    <3> QED
      BY <3>5 DEF Ageing!Age
  <2> QED
    BY <2>1, <2>2, <2>3
<1>6. Ageing!NoOldLeft'
  <2>1. Ageing!Count' = Ageing!Count /\ Ageing!Clean' = Ageing!Clean
    BY <1>1 DEF Ageing!Count, Ageing!Clean
  <2>2. \A b \in Ageing!Clean : Ageing!Age(b, ba_pass.began) < ba_pass.age_hz \/ b \in ba_pass.skipped \/ Ageing!Count <= ba_pass.retain_target
    BY <1>5 DEF Ageing!Clean, Ageing!ToSet
  <2> QED
    BY <1>1, <1>2, <2>1, <2>2 DEF Ageing!NoOldLeft, Ageing!Age
<1> QED
  BY <1>3, <1>6 DEF AgeInv

\* A step keeps the invariant, and evicts only what is old.
LEMMA AgeStep == ASSUME Ageing!WellFormed, AgeInv, [Ageing!Next]_(Ageing!vars) PROVE AgeInv' /\ Ageing!NotTooYoung
<1>1. CASE UNCHANGED Ageing!vars
  BY <1>1 DEF Ageing!vars, AgeInv, AgeLists, AgePass, Ageing!NoOldLeft, Ageing!NotTooYoung, Ageing!Clean, Ageing!Count, Ageing!Age
<1>2. CASE Ageing!Visit
  BY <1>2, AgeVisit
<1>3. CASE Ageing!Tick \/ \E b \in Buffers : Ageing!ReadDone(b)
  <2>1. UNCHANGED ba_lru
    BY <1>3 DEF Ageing!Tick, Ageing!ReadDone
  <2> QED
    BY <1>3, <2>1, AgeClock DEF Ageing!NotTooYoung, Ageing!Clean
<1>4. CASE Ageing!ReadAge \/ Ageing!Begin \/ Ageing!Unlock
  <2>1. UNCHANGED ba_lru
    BY <1>4 DEF Ageing!ReadAge, Ageing!Begin, Ageing!Unlock
  <2> QED
    BY <1>4, <2>1, AgeBegins DEF Ageing!NotTooYoung, Ageing!Clean
<1>5. CASE Ageing!Over
  <2>1. UNCHANGED ba_lru
    BY <1>5 DEF Ageing!Over
  <2> QED
    BY <1>5, <2>1, AgeOver DEF Ageing!NotTooYoung, Ageing!Clean
<1>6. ASSUME NEW b \in Buffers, Ageing!Insert(b) \/ Ageing!Get(b) \/ Ageing!Release(b) \/ Ageing!MarkDirty(b) \/ Ageing!Written(b) \/ Ageing!Drop(b)
      PROVE  AgeInv' /\ Ageing!NotTooYoung
  <2>1. ba_pass.step # "scan"
    BY <1>6 DEF Ageing!Unlocked, Ageing!Insert, Ageing!Get, Ageing!Release, Ageing!MarkDirty, Ageing!Written, Ageing!Drop
  <2> QED
    BY <1>6, <2>1, AgeUsers DEF Ageing!NotTooYoung
<1> QED
  BY <1>1, <1>2, <1>3, <1>4, <1>5, <1>6 DEF Ageing!Next

\* Lists are empty at first.
LEMMA AgeStart == ASSUME Ageing!WellFormed, Ageing!Init PROVE AgeInv
<1>1. ba_lru \in Seq(Buffers) /\ DOMAIN ba_lru = {} /\ Ageing!Clean = {}
  BY DEF Ageing!Init, Ageing!Clean, Ageing!ToSet
<1>2. AgeLists
  BY <1>1 DEF Ageing!Init, AgeLists, Ageing!IsInjective, Ageing!WellFormed
<1>3. ba_pass = Ageing!Idle /\ ba_pass \notin Scans /\ ba_pass.step # "done"
  BY DEF Ageing!Init, Ageing!Idle, Scans
<1> QED
  BY <1>2, <1>3 DEF AgeInv, AgePass, Ageing!NoOldLeft

\* What the invariant means.
LEMMA AgeMeans == ASSUME Ageing!WellFormed, AgeInv PROVE Ageing!TypeOK /\ Ageing!NoOldLeft
  BY AgeStages DEF AgeInv, AgeLists, Ageing!TypeOK

----------------------------------------------------------------------------
(* dm-bufio: its memory.                                                   *)

Building == {"dm_io", "lock", "cache", "make", "unlock", "bad_cache", "bad_dm_io"}
Locked == {"cache", "make", "unlock", "bad_cache"}
InReserve == {"reserve", "reserve_count"}
Registered == {"up", "grow_count", "free_up", "drop", "free_drop"}
Ending == {"rest", "free_rest"}

Client ==
    [pc : {"out"} \cup Building \cup InReserve \cup Registered \cup Ending, size : BlockSizes, mode : Memory!Modes,
     reserved : [Memory!Modes -> Nat], cached : [Memory!Modes -> Nat], need : 0..Reserve,
     have : SUBSET {"client", "dm_io", "listed", "shrinker"}]

MemTypes ==
    /\ bm_module \in {"loaded", "unloaded"} /\ bm_cl \in [Clients -> Client]
    /\ bm_allocated \in [Memory!Modes -> Int] /\ bm_out \in [Memory!Modes -> Int]
    /\ bm_module = "unloaded" => \A c \in Clients : Memory!At(c, "out")

\* What a client has, and lacks, at every place.
ClientOK(c) ==
    /\ bm_cl[c].pc \in {"out"} \cup Building => bm_cl[c].reserved = Memory!None
    /\ bm_cl[c].pc \notin Registered => bm_cl[c].cached = Memory!None
    /\ Memory!At(c, "out") => bm_cl[c].need = 0 /\ bm_cl[c].have = {}
    /\ bm_cl[c].pc \in Building => bm_cl[c].need = Reserve
    /\ bm_cl[c].pc \in InReserve \cup Registered => bm_cl[c].need + Memory!All(bm_cl[c].reserved) = Reserve
    /\ Memory!At(c, "reserve_count") => bm_cl[c].need > 0
    /\ bm_cl[c].pc \in Registered => bm_cl[c].need <= Memory!Held(c)

\* Small blocks come from a slab cache that is there.
SlabOK(c) ==
    /\ bm_cl[c].pc \in {"cache", "make"} => bm_cl[c].size \in Memory!Small
    /\ Memory!At(c, "make") => bm_cl[c].size \notin bm_caches
    /\ bm_cl[c].size \in Memory!Small /\ bm_cl[c].pc \in {"unlock", "free_rest"} \cup InReserve \cup Registered => bm_cl[c].size \in bm_caches
    /\ bm_cl[c].size \in Memory!Small /\ Memory!At(c, "rest") /\ bm_cl[c].reserved # Memory!None => bm_cl[c].size \in bm_caches

MemSlabs ==
    /\ bm_caches \subseteq Memory!Small /\ bm_made \in [BlockSizes -> Nat]
    /\ \A s \in BlockSizes : bm_made[s] <= 1
    /\ bm_module = "loaded" => \A s \in BlockSizes \ bm_caches : bm_made[s] = 0

MemLock ==
    /\ bm_clients_lock \in Clients \cup {Memory!NoOne}
    /\ \A c \in Clients : bm_cl[c].pc \in Locked <=> bm_clients_lock = c

MemCount == bm_client_count = Cardinality({c \in Clients : bm_cl[c].pc \in Registered})

MemInv ==
    /\ MemTypes /\ MemSlabs /\ MemLock /\ MemCount /\ Memory!Accounted
    /\ \A c \in Clients : ClientOK(c) /\ SlabOK(c)

----------------------------------------------------------------------------
\* There are so many clients.
LEMMA MemFinite == ASSUME Memory!WellFormed PROVE IsFiniteSet(Clients)
BY DEF Memory!WellFormed, Memory!IsFiniteSet, IsFiniteSet

\* A total is the size of a set.
LEMMA MemTotal == \A n : Memory!Total(n) = Cardinality(UNION {{c} \X (1..n[c]) : c \in Clients})
BY DEF Memory!Total, Memory!Cardinality, Cardinality

\* The memory's module has the numbers of this one.
LEMMA MemNumber == Memory!Cardinality(Clients) = Cardinality(Clients)
BY DEF Memory!Cardinality, Cardinality

\* What the clients have together changes by what one of them has more.
LEMMA MemTotalChange ==
    ASSUME Memory!WellFormed, NEW f \in [Clients -> Nat], NEW g \in [Clients -> Nat], NEW c \in Clients,
           \A d \in Clients : d # c => g[d] = f[d]
    PROVE  Memory!Total(f) \in Nat /\ Memory!Total(g) = Memory!Total(f) + g[c] - f[c]
<1> DEFINE Rest == UNION {{d} \X (1..f[d]) : d \in Clients \ {c}}
           Mine(n) == {c} \X (1..n)
<1>1. IsFiniteSet(Rest)
  <2>1. IsFiniteSet(Clients \ {c})
    BY MemFinite, FS_Difference
  <2>2. IsFiniteSet({{d} \X (1..f[d]) : d \in Clients \ {c}})
    <3> DEFINE D == Clients \ {c}
               F == [d \in D |-> {d} \X (1..f[d])]
    <3>1. F \in Surjection(D, {{d} \X (1..f[d]) : d \in D})
      BY DEF Surjection
    <3> QED
      BY <2>1, <3>1, FS_Surjection
  <2>3. ASSUME NEW d \in Clients PROVE IsFiniteSet({d} \X (1..f[d]))
    <3>1. f[d] \in Int /\ 1 \in Int
      OBVIOUS
    <3>2. IsFiniteSet({d}) /\ IsFiniteSet(1..f[d])
      BY <3>1, FS_Singleton, FS_Interval
    <3> QED
      BY <3>2, FS_Product
  <2> QED
    BY <2>2, <2>3, FS_UNION
<1>2. ASSUME NEW n \in Nat PROVE IsFiniteSet(Mine(n)) /\ Cardinality(Mine(n)) = n
  <2>1. IsFiniteSet({c}) /\ Cardinality({c}) = 1
    BY FS_Singleton
  <2>2. IsFiniteSet(1..n) /\ Cardinality(1..n) = n
    <3>1. 1 \in Int /\ n \in Int
      OBVIOUS
    <3>2. IsFiniteSet(1..n) /\ Cardinality(1..n) = IF 1 > n THEN 0 ELSE n - 1 + 1
      BY <3>1, FS_Interval
    <3> QED
      BY <3>2
  <2>3. IsFiniteSet({c} \X (1..n)) /\ Cardinality({c} \X (1..n)) = Cardinality({c}) * Cardinality(1..n)
    BY <2>1, <2>2, FS_Product
  <2> QED
    BY <2>1, <2>2, <2>3
<1>3. ASSUME NEW n \in Nat PROVE Rest \cap Mine(n) = {}
  OBVIOUS
<1>4. UNION {{d} \X (1..f[d]) : d \in Clients} = Rest \cup Mine(f[c])
  OBVIOUS
<1>5. UNION {{d} \X (1..g[d]) : d \in Clients} = Rest \cup Mine(g[c])
  <2>1. \A d \in Clients \ {c} : {d} \X (1..g[d]) = {d} \X (1..f[d])
    OBVIOUS
  <2>2. UNION {{d} \X (1..g[d]) : d \in Clients \ {c}} = Rest
    BY <2>1
  <2> QED
    BY <2>2
<1> HIDE DEF Rest, Mine
<1>6. f[c] \in Nat /\ g[c] \in Nat
  OBVIOUS
<1>7. Cardinality(Rest) \in Nat /\ Cardinality({}) = 0
  BY <1>1, FS_CardinalityType, FS_EmptySet
<1>8. Memory!Total(f) = Cardinality(Rest) + f[c] /\ Memory!Total(g) = Cardinality(Rest) + g[c]
  <2>1. ASSUME NEW n \in Nat PROVE Cardinality(Rest \cup Mine(n)) = Cardinality(Rest) + n
    <3>1. IsFiniteSet(Mine(n)) /\ Cardinality(Mine(n)) = n /\ Cardinality(Rest \cap Mine(n)) = 0
      BY <1>2, <1>3, <1>7
    <3>2. Cardinality(Rest \cup Mine(n)) = Cardinality(Rest) + Cardinality(Mine(n)) - Cardinality(Rest \cap Mine(n))
      BY <1>1, <3>1, FS_Union
    <3> QED
      BY <1>7, <3>1, <3>2
  <2> QED
    BY <1>4, <1>5, <1>6, <2>1, MemTotal
<1> QED
  BY <1>6, <1>7, <1>8

\* Nobody has anything.
LEMMA MemTotalNone ==
    ASSUME NEW f \in [Clients -> Nat], \A c \in Clients : f[c] = 0
    PROVE  Memory!Total(f) = 0
<1>1. UNION {{c} \X (1..f[c]) : c \in Clients} = {}
  OBVIOUS
<1> QED
  BY <1>1, FS_EmptySet, MemTotal

\* Modes are three.
LEMMA MemModes ==
    /\ Memory!None \in [Memory!Modes -> Nat] /\ Memory!All(Memory!None) = 0
    /\ \A n \in [Memory!Modes -> Nat] : Memory!All(n) \in Nat /\ (Memory!All(n) = 0 => n = Memory!None)
    /\ \A n \in [Memory!Modes -> Nat], m \in Memory!Modes : n[m] > 0 => Memory!All(n) > 0
    /\ \A n \in [Memory!Modes -> Nat], m \in Memory!Modes :
          /\ [n EXCEPT ![m] = @ + 1] \in [Memory!Modes -> Nat] /\ Memory!All([n EXCEPT ![m] = @ + 1]) = Memory!All(n) + 1
          /\ n[m] > 0 => [n EXCEPT ![m] = @ - 1] \in [Memory!Modes -> Nat] /\ Memory!All([n EXCEPT ![m] = @ - 1]) = Memory!All(n) - 1
<1>1. Memory!None \in [Memory!Modes -> Nat] /\ Memory!All(Memory!None) = 0
  BY DEF Memory!None, Memory!All, Memory!Modes
<1>2. ASSUME NEW n \in [Memory!Modes -> Nat] PROVE Memory!All(n) \in Nat /\ (Memory!All(n) = 0 => n = Memory!None)
  <2>1. n["slab"] \in Nat /\ n["get_free_pages"] \in Nat /\ n["vmalloc"] \in Nat
    BY DEF Memory!Modes
  <2>2. ASSUME Memory!All(n) = 0 PROVE \A m \in Memory!Modes : n[m] = 0
    BY <2>1, <2>2 DEF Memory!All, Memory!Modes
  <2>3. ASSUME \A m \in Memory!Modes : n[m] = 0 PROVE n = Memory!None
    BY <2>3 DEF Memory!None
  <2> QED
    BY <2>1, <2>2, <2>3 DEF Memory!All
<1>3. ASSUME NEW n \in [Memory!Modes -> Nat], NEW m \in Memory!Modes
      PROVE  /\ n[m] > 0 => Memory!All(n) > 0
             /\ [n EXCEPT ![m] = @ + 1] \in [Memory!Modes -> Nat] /\ Memory!All([n EXCEPT ![m] = @ + 1]) = Memory!All(n) + 1
             /\ n[m] > 0 => [n EXCEPT ![m] = @ - 1] \in [Memory!Modes -> Nat] /\ Memory!All([n EXCEPT ![m] = @ - 1]) = Memory!All(n) - 1
  <2>1. n["slab"] \in Nat /\ n["get_free_pages"] \in Nat /\ n["vmalloc"] \in Nat
    BY DEF Memory!Modes
  <2>2. m = "slab" \/ m = "get_free_pages" \/ m = "vmalloc"
    BY DEF Memory!Modes
  <2>3. n[m] > 0 => Memory!All(n) > 0
    BY <2>1, <2>2 DEF Memory!All
  <2>4. [n EXCEPT ![m] = @ + 1] \in [Memory!Modes -> Nat] /\ (n[m] > 0 => [n EXCEPT ![m] = @ - 1] \in [Memory!Modes -> Nat])
    OBVIOUS
  <2>5. Memory!All([n EXCEPT ![m] = @ + 1]) = Memory!All(n) + 1 /\ Memory!All([n EXCEPT ![m] = @ - 1]) = Memory!All(n) - 1
    BY <2>1, <2>2 DEF Memory!All, Memory!Modes
  <2> QED
    BY <2>3, <2>4, <2>5
<1> QED
  BY <1>1, <1>2, <1>3

----------------------------------------------------------------------------
One(c) == IF bm_cl[c].pc \in Registered THEN 1 ELSE 0

\* Of a step of one client: the counters follow what it has, and it has what
\* it should where it comes to.
MemMoves(c) ==
    /\ bm_module = "loaded" /\ UNCHANGED bm_module
    /\ bm_cl' \in [Clients -> Client] /\ \A d \in Clients : d # c => bm_cl'[d] = bm_cl[d]
    /\ bm_allocated' \in [Memory!Modes -> Int] /\ bm_out' \in [Memory!Modes -> Int]
    /\ \A m \in Memory!Modes : /\ bm_allocated'[m] = bm_allocated[m] + Memory!Had(c, m)' - Memory!Had(c, m)
                        /\ bm_out'[m] = bm_out[m] + (Memory!Had(c, m)' - Memory!Had(c, m)) + (Memory!Taken(c, m)' - Memory!Taken(c, m))
    /\ bm_client_count' = bm_client_count + One(c)' - One(c)
    /\ bm_clients_lock' \in Clients \cup {Memory!NoOne}
    /\ bm_cl'[c].pc \in Locked <=> bm_clients_lock' = c
    /\ \A d \in Clients : d # c => (bm_clients_lock' = d <=> bm_clients_lock = d)
    /\ bm_caches \subseteq bm_caches' /\ MemSlabs'
    /\ \A d \in Clients : d # c /\ Memory!At(d, "make") => bm_cl[d].size \notin bm_caches'
    /\ ClientOK(c)' /\ SlabOK(c)'

\* Sizes are numbers.
LEMMA MemSizes ==
    ASSUME Memory!WellFormed
    PROVE  /\ BlockSizes \subseteq Nat /\ BlockSizes # {} /\ Reserve \in Nat /\ Memory!NoOne \notin Clients
           /\ \A a, b \in Nat : a + b \in Nat
BY DEF Memory!WellFormed

\* What a client has in bytes is a number.
LEMMA MemHad ==
    ASSUME Memory!WellFormed, bm_cl \in [Clients -> Client], NEW c \in Clients, NEW m \in Memory!Modes
    PROVE  Memory!Had(c, m) \in Nat /\ Memory!Taken(c, m) \in Nat
<1>1. bm_cl[c].size \in Nat /\ bm_cl[c].reserved[m] + bm_cl[c].cached[m] \in Nat
  <2>1. bm_cl[c] \in Client
    OBVIOUS
  <2>2. bm_cl[c].size \in BlockSizes /\ bm_cl[c].reserved \in [Memory!Modes -> Nat] /\ bm_cl[c].cached \in [Memory!Modes -> Nat]
    BY <2>1 DEF Client
  <2>3. bm_cl[c].reserved[m] \in Nat /\ bm_cl[c].cached[m] \in Nat
    BY <2>2
  <2> QED
    BY <2>2, <2>3, MemSizes
<1>2. \A x, y \in Nat : x * y \in Nat
  OBVIOUS
<1> QED
  BY <1>1, <1>2 DEF Memory!Had, Memory!Taken

\* A client whose step moves what it should keeps the invariant of all.
LEMMA MemKept ==
    ASSUME Memory!WellFormed, MemInv, NEW c \in Clients, MemMoves(c)
    PROVE  MemInv'
<1>1. MemTypes'
  BY DEF MemMoves, MemInv, MemTypes
<1>2. MemSlabs' /\ MemLock'
  BY DEF MemMoves, MemInv, MemLock
<1>3. \A d \in Clients : ClientOK(d)' /\ SlabOK(d)'
  <2>1. ASSUME NEW d \in Clients, d # c PROVE ClientOK(d)' /\ SlabOK(d)'
    <3>1. bm_cl'[d] = bm_cl[d] /\ bm_caches \subseteq bm_caches' /\ (Memory!At(d, "make") => bm_cl[d].size \notin bm_caches')
      BY <2>1 DEF MemMoves
    <3> QED
      BY <3>1 DEF MemInv, ClientOK, SlabOK, Memory!At, Memory!Held
  <2> QED
    BY <2>1 DEF MemMoves
<1>4. MemCount'
  <2> DEFINE S == {d \in Clients : bm_cl[d].pc \in Registered}
  <2>1. IsFiniteSet(S)
    BY MemFinite, FS_Subset
  <2>2. bm_client_count = Cardinality(S) /\ Cardinality(S) \in Nat
    BY <2>1, FS_CardinalityType DEF MemInv, MemCount
  <2>3. CASE One(c)' = One(c)
    <3>1. {d \in Clients : bm_cl'[d].pc \in Registered} = S
      BY <2>3 DEF One, MemMoves
    <3>2. bm_client_count' = bm_client_count
      BY <2>2, <2>3 DEF One, MemMoves
    <3> QED
      BY <2>2, <3>1, <3>2 DEF MemCount
  <2>4. CASE One(c)' = 1 /\ One(c) = 0
    <3>1. {d \in Clients : bm_cl'[d].pc \in Registered} = S \cup {c} /\ c \notin S
      BY <2>4 DEF One, MemMoves
    <3>2. bm_client_count' = bm_client_count + 1
      BY <2>2, <2>4 DEF MemMoves
    <3> QED
      BY <2>1, <2>2, <3>1, <3>2, FS_AddElement DEF MemCount
  <2>5. CASE One(c)' = 0 /\ One(c) = 1
    <3>1. {d \in Clients : bm_cl'[d].pc \in Registered} = S \ {c} /\ c \in S
      BY <2>5 DEF One, MemMoves
    <3>2. bm_client_count' = bm_client_count - 1
      BY <2>2, <2>5 DEF MemMoves
    <3> QED
      <4>1. Cardinality(S \ {c}) = Cardinality(S) - 1
        BY <2>1, <3>1, FS_RemoveElement
      <4> QED
        BY <2>2, <3>1, <3>2, <4>1 DEF MemCount
  <2> QED
    BY <2>3, <2>4, <2>5 DEF One
<1>5. Memory!Accounted'
  <2> SUFFICES ASSUME NEW m \in Memory!Modes
               PROVE  /\ bm_allocated'[m] = Memory!Bytes(m)'
                      /\ bm_out'[m] = Memory!Bytes(m)' + Memory!Total([d \in Clients |-> Memory!Taken(d, m)'])
    BY DEF Memory!Accounted, Memory!Total
  <2>1. bm_cl \in [Clients -> Client] /\ bm_cl' \in [Clients -> Client]
    BY DEF MemInv, MemTypes, MemMoves
  <2> DEFINE h == [d \in Clients |-> Memory!Had(d, m)]
             k == [d \in Clients |-> Memory!Had(d, m)']
             t == [d \in Clients |-> Memory!Taken(d, m)]
             u == [d \in Clients |-> Memory!Taken(d, m)']
  <2>2. \A d \in Clients : Memory!Had(d, m) \in Nat /\ Memory!Taken(d, m) \in Nat
    BY <2>1, MemHad
  <2>3. \A d \in Clients : Memory!Had(d, m)' \in Nat /\ Memory!Taken(d, m)' \in Nat
    <3>1. \A d \in Clients : bm_cl'[d].size \in Nat /\ bm_cl'[d].reserved[m] + bm_cl'[d].cached[m] \in Nat
      <4> SUFFICES ASSUME NEW d \in Clients PROVE bm_cl'[d].size \in Nat /\ bm_cl'[d].reserved[m] + bm_cl'[d].cached[m] \in Nat
        OBVIOUS
      <4>1. bm_cl'[d] \in Client
        BY <2>1
      <4>2. bm_cl'[d].size \in BlockSizes /\ bm_cl'[d].reserved \in [Memory!Modes -> Nat] /\ bm_cl'[d].cached \in [Memory!Modes -> Nat]
        BY <4>1 DEF Client
      <4>3. bm_cl'[d].reserved[m] \in Nat /\ bm_cl'[d].cached[m] \in Nat
        BY <4>2
      <4> QED
        BY <4>2, <4>3, MemSizes
    <3>2. \A x, y \in Nat : x * y \in Nat
      OBVIOUS
    <3> QED
      BY <3>1, <3>2 DEF Memory!Had, Memory!Taken
  <2>4. \A d \in Clients : d # c => Memory!Had(d, m)' = Memory!Had(d, m) /\ Memory!Taken(d, m)' = Memory!Taken(d, m)
    BY DEF MemMoves, Memory!Had, Memory!Taken, Memory!InHand
  <2>5. h \in [Clients -> Nat] /\ k \in [Clients -> Nat] /\ t \in [Clients -> Nat] /\ u \in [Clients -> Nat]
    BY <2>2, <2>3
  <2>6. Memory!Total(h) \in Nat /\ Memory!Total(k) = Memory!Total(h) + Memory!Had(c, m)' - Memory!Had(c, m)
    <3>1. \A d \in Clients : d # c => k[d] = h[d]
      BY <2>4
    <3>2. Memory!Total(h) \in Nat /\ Memory!Total(k) = Memory!Total(h) + k[c] - h[c]
      BY <2>5, <3>1, MemTotalChange
    <3> QED
      BY <3>2
  <2>7. Memory!Total(t) \in Nat /\ Memory!Total(u) = Memory!Total(t) + Memory!Taken(c, m)' - Memory!Taken(c, m)
    <3>1. \A d \in Clients : d # c => u[d] = t[d]
      BY <2>4
    <3>2. Memory!Total(t) \in Nat /\ Memory!Total(u) = Memory!Total(t) + u[c] - t[c]
      BY <2>5, <3>1, MemTotalChange
    <3> QED
      BY <3>2
  <2>8. Memory!Bytes(m) = Memory!Total(h) /\ Memory!Bytes(m)' = Memory!Total(k)
    BY DEF Memory!Bytes, Memory!Total
  <2> HIDE DEF h, k, t, u
  <2>9. bm_allocated[m] = Memory!Total(h) /\ bm_out[m] = Memory!Total(h) + Memory!Total(t)
    BY <2>8 DEF MemInv, Memory!Accounted, t
  <2>10. /\ bm_allocated'[m] = bm_allocated[m] + Memory!Had(c, m)' - Memory!Had(c, m)
         /\ bm_out'[m] = bm_out[m] + (Memory!Had(c, m)' - Memory!Had(c, m)) + (Memory!Taken(c, m)' - Memory!Taken(c, m))
    BY DEF MemMoves
  <2>11. bm_allocated'[m] = Memory!Total(k) /\ bm_out'[m] = Memory!Total(k) + Memory!Total(u)
    BY <2>2, <2>3, <2>6, <2>7, <2>9, <2>10
  <2> QED
    BY <2>8, <2>11 DEF u
<1> QED
  BY <1>1, <1>2, <1>3, <1>4, <1>5 DEF MemInv
----------------------------------------------------------------------------
\* What is known of a client.
LEMMA MemAt ==
    ASSUME Memory!WellFormed, MemInv, NEW c \in Clients
    PROVE  /\ bm_cl \in [Clients -> Client] /\ bm_cl[c] \in Client /\ ClientOK(c) /\ SlabOK(c)
           /\ bm_cl[c].size \in Nat /\ bm_cl[c].size \in BlockSizes /\ bm_cl[c].mode \in Memory!Modes
           /\ bm_cl[c].reserved \in [Memory!Modes -> Nat] /\ bm_cl[c].cached \in [Memory!Modes -> Nat]
           /\ bm_cl[c].need \in 0..Reserve /\ Reserve \in Nat
           /\ \A m \in Memory!Modes : bm_cl[c].reserved[m] \in Nat /\ bm_cl[c].cached[m] \in Nat
                               /\ Memory!Had(c, m) \in Nat /\ Memory!Taken(c, m) \in Nat
           /\ ~Memory!At(c, "out") => bm_module = "loaded"
<1>1. bm_cl \in [Clients -> Client] /\ bm_cl[c] \in Client /\ ClientOK(c) /\ SlabOK(c)
  BY DEF MemInv, MemTypes
<1>2. /\ bm_cl[c].size \in BlockSizes /\ bm_cl[c].mode \in Memory!Modes /\ bm_cl[c].need \in 0..Reserve
      /\ bm_cl[c].reserved \in [Memory!Modes -> Nat] /\ bm_cl[c].cached \in [Memory!Modes -> Nat]
  BY <1>1 DEF Client
<1>3. \A m \in Memory!Modes : Memory!Had(c, m) \in Nat /\ Memory!Taken(c, m) \in Nat
  BY <1>1, MemHad
<1>4. bm_cl[c].size \in Nat /\ Reserve \in Nat
  BY <1>2, MemSizes
<1>5. ~Memory!At(c, "out") => bm_module = "loaded"
  BY DEF MemInv, MemTypes
<1> QED
  BY <1>1, <1>2, <1>3, <1>4, <1>5

\* One more, and one less.
LEMMA MemProducts ==
    ASSUME NEW x \in Nat, NEW n \in Nat
    PROVE  x * (n + 1) = x * n + x /\ (n > 0 => x * (n - 1) = x * n - x)
<1>1. x * (n + 1) = x * n + x
  OBVIOUS
<1>2. ASSUME n > 0 PROVE x * (n - 1) = x * n - x
  OBVIOUS
<1> QED
  BY <1>1, <1>2

\* A buffer more in a mode, one less, or in another list.
LEMMA MemHadMore ==
    ASSUME Memory!WellFormed, MemInv, NEW c \in Clients, NEW m \in Memory!Modes, bm_cl'[c].size = bm_cl[c].size,
           \A n \in Memory!Modes : bm_cl'[c].reserved[n] + bm_cl'[c].cached[n]
                              = bm_cl[c].reserved[n] + bm_cl[c].cached[n] + (IF n = m THEN 1 ELSE 0)
    PROVE  \A n \in Memory!Modes : Memory!Had(c, n)' = Memory!Had(c, n) + (IF n = m THEN bm_cl[c].size ELSE 0)
<1> SUFFICES ASSUME NEW n \in Memory!Modes PROVE Memory!Had(c, n)' = Memory!Had(c, n) + (IF n = m THEN bm_cl[c].size ELSE 0)
  OBVIOUS
<1> DEFINE x == bm_cl[c].size
           k == bm_cl[c].reserved[n] + bm_cl[c].cached[n]
<1>1. x \in Nat /\ k \in Nat /\ Memory!Had(c, n) = x * k /\ Memory!Had(c, n) \in Nat
  BY MemAt DEF Memory!Had
<1>2. Memory!Had(c, n)' = x * (k + (IF n = m THEN 1 ELSE 0))
  BY DEF Memory!Had
<1> HIDE DEF x, k
<1>3. x * (k + 1) = x * k + x /\ k + 0 = k /\ x * k \in Nat
  BY <1>1, MemProducts
<1> QED
  BY <1>1, <1>2, <1>3 DEF x

\* One less.
LEMMA MemHadLess ==
    ASSUME Memory!WellFormed, MemInv, NEW c \in Clients, NEW m \in Memory!Modes, bm_cl'[c].size = bm_cl[c].size,
           bm_cl[c].reserved[m] + bm_cl[c].cached[m] > 0,
           \A n \in Memory!Modes : bm_cl'[c].reserved[n] + bm_cl'[c].cached[n]
                              = (bm_cl[c].reserved[n] + bm_cl[c].cached[n]) - (IF n = m THEN 1 ELSE 0)
    PROVE  \A n \in Memory!Modes : Memory!Had(c, n)' = Memory!Had(c, n) - (IF n = m THEN bm_cl[c].size ELSE 0)
<1> SUFFICES ASSUME NEW n \in Memory!Modes PROVE Memory!Had(c, n)' = Memory!Had(c, n) - (IF n = m THEN bm_cl[c].size ELSE 0)
  OBVIOUS
<1> DEFINE x == bm_cl[c].size
           k == bm_cl[c].reserved[n] + bm_cl[c].cached[n]
<1>1. x \in Nat /\ k \in Nat /\ Memory!Had(c, n) = x * k /\ Memory!Had(c, n) \in Nat /\ (n = m => k > 0)
  BY MemAt DEF Memory!Had
<1>2. Memory!Had(c, n)' = x * (k - (IF n = m THEN 1 ELSE 0))
  <2>1. bm_cl'[c].reserved[n] + bm_cl'[c].cached[n] = k - (IF n = m THEN 1 ELSE 0)
    OBVIOUS
  <2> QED
    BY <2>1 DEF Memory!Had
<1> HIDE DEF x, k
<1>3. (n = m => x * (k - 1) = x * k - x) /\ k - 0 = k /\ x * k \in Nat
  BY <1>1, MemProducts
<1> QED
  BY <1>1, <1>2, <1>3 DEF x

\* A step that takes no memory, makes no cache and lists nobody.
LEMMA MemPlain ==
    ASSUME Memory!WellFormed, MemInv, NEW c \in Clients, bm_module = "loaded", UNCHANGED <<Memory!Slabs, Memory!Memory, bm_client_count>>,
           bm_cl' \in [Clients -> Client], \A d \in Clients : d # c => bm_cl'[d] = bm_cl[d],
           \A m \in Memory!Modes : Memory!Had(c, m)' = Memory!Had(c, m) /\ Memory!Taken(c, m)' = Memory!Taken(c, m),
           One(c)' = One(c),
           \/ bm_clients_lock' = bm_clients_lock /\ (bm_cl'[c].pc \in Locked <=> bm_cl[c].pc \in Locked)
           \/ bm_clients_lock = Memory!NoOne /\ bm_clients_lock' = c /\ bm_cl'[c].pc \in Locked
           \/ bm_clients_lock = c /\ bm_clients_lock' = Memory!NoOne /\ bm_cl'[c].pc \notin Locked,
           ClientOK(c)', SlabOK(c)'
    PROVE  MemMoves(c)
<1>1. /\ UNCHANGED bm_module /\ bm_allocated' \in [Memory!Modes -> Int] /\ bm_out' \in [Memory!Modes -> Int]
      /\ \A m \in Memory!Modes : bm_allocated'[m] = bm_allocated[m] /\ bm_out'[m] = bm_out[m] /\ bm_allocated[m] \in Int /\ bm_out[m] \in Int
  BY DEF MemInv, MemTypes, Memory!Memory, Memory!Slabs
<1>2. \A m \in Memory!Modes : /\ bm_allocated'[m] = bm_allocated[m] + Memory!Had(c, m)' - Memory!Had(c, m)
                       /\ bm_out'[m] = bm_out[m] + (Memory!Had(c, m)' - Memory!Had(c, m)) + (Memory!Taken(c, m)' - Memory!Taken(c, m))
  <2>1. \A m \in Memory!Modes : Memory!Had(c, m) \in Nat /\ Memory!Taken(c, m) \in Nat
    BY MemAt
  <2> QED
    BY <1>1, <2>1
<1>3. bm_client_count' = bm_client_count + One(c)' - One(c)
  <2>1. bm_client_count \in Nat
    <3>1. IsFiniteSet({d \in Clients : bm_cl[d].pc \in Registered})
      BY MemFinite, FS_Subset
    <3> QED
      BY <3>1, FS_CardinalityType DEF MemInv, MemCount
  <2> QED
    BY <2>1 DEF One
<1>4. /\ bm_clients_lock' \in Clients \cup {Memory!NoOne} /\ (bm_cl'[c].pc \in Locked <=> bm_clients_lock' = c)
      /\ \A d \in Clients : d # c => (bm_clients_lock' = d <=> bm_clients_lock = d)
  <2>1. Memory!NoOne \notin Clients
    BY MemSizes
  <2> QED
    BY <2>1 DEF MemInv, MemLock
<1>5. bm_caches \subseteq bm_caches' /\ MemSlabs' /\ \A d \in Clients : d # c /\ Memory!At(d, "make") => bm_cl[d].size \notin bm_caches'
  BY DEF Memory!Slabs, MemInv, MemSlabs, SlabOK
<1> QED
  BY <1>1, <1>2, <1>3, <1>4, <1>5 DEF MemMoves

ClientPlaces == {"out"} \cup Building \cup InReserve \cup Registered \cup Ending
Things == {"client", "dm_io", "listed", "shrinker"}

\* A client goes to its next place.
LEMMA MemGoes ==
    ASSUME bm_cl \in [Clients -> Client], NEW c \in Clients, NEW p \in ClientPlaces,
           bm_cl' = [bm_cl EXCEPT ![c].pc = p]
    PROVE  /\ bm_cl' \in [Clients -> Client] /\ \A d \in Clients : d # c => bm_cl'[d] = bm_cl[d]
           /\ bm_cl'[c].pc = p /\ bm_cl'[c].size = bm_cl[c].size /\ bm_cl'[c].mode = bm_cl[c].mode
           /\ bm_cl'[c].reserved = bm_cl[c].reserved /\ bm_cl'[c].cached = bm_cl[c].cached
           /\ bm_cl'[c].need = bm_cl[c].need /\ bm_cl'[c].have = bm_cl[c].have
BY DEF ClientPlaces, Client

\* It goes there, and has more or less.
LEMMA MemGoesWith ==
    ASSUME bm_cl \in [Clients -> Client], NEW c \in Clients, NEW p \in ClientPlaces, NEW h \in SUBSET Things,
           bm_cl' = [bm_cl EXCEPT ![c].pc = p, ![c].have = h]
    PROVE  /\ bm_cl' \in [Clients -> Client] /\ \A d \in Clients : d # c => bm_cl'[d] = bm_cl[d]
           /\ bm_cl'[c].pc = p /\ bm_cl'[c].size = bm_cl[c].size /\ bm_cl'[c].mode = bm_cl[c].mode
           /\ bm_cl'[c].reserved = bm_cl[c].reserved /\ bm_cl'[c].cached = bm_cl[c].cached
           /\ bm_cl'[c].need = bm_cl[c].need /\ bm_cl'[c].have = h
BY DEF ClientPlaces, Things, Client

\* It allocates or frees.
LEMMA MemGoesMode ==
    ASSUME bm_cl \in [Clients -> Client], NEW c \in Clients, NEW p \in ClientPlaces, NEW m \in Memory!Modes,
           bm_cl' = [bm_cl EXCEPT ![c].mode = m, ![c].pc = p]
    PROVE  /\ bm_cl' \in [Clients -> Client] /\ \A d \in Clients : d # c => bm_cl'[d] = bm_cl[d]
           /\ bm_cl'[c].pc = p /\ bm_cl'[c].size = bm_cl[c].size /\ bm_cl'[c].mode = m
           /\ bm_cl'[c].reserved = bm_cl[c].reserved /\ bm_cl'[c].cached = bm_cl[c].cached
           /\ bm_cl'[c].need = bm_cl[c].need /\ bm_cl'[c].have = bm_cl[c].have
BY DEF ClientPlaces, Client

\* A client that is being made has no buffers yet, wherever it goes.
LEMMA MemEmpty ==
    ASSUME Memory!WellFormed, MemInv, NEW c \in Clients, bm_cl[c].pc \in {"out"} \cup Building,
           bm_cl' \in [Clients -> Client], bm_cl'[c].reserved = bm_cl[c].reserved, bm_cl'[c].cached = bm_cl[c].cached,
           bm_cl'[c].pc \in Building \cup {"reserve", "rest"} \/ bm_cl'[c].pc = "out"
    PROVE  /\ bm_cl[c].reserved = Memory!None /\ bm_cl[c].cached = Memory!None
           /\ \A m \in Memory!Modes : Memory!Had(c, m)' = Memory!Had(c, m) /\ Memory!Taken(c, m)' = Memory!Taken(c, m)
           /\ One(c)' = One(c)
<1> USE DEF Building, Registered
<1>1. bm_cl[c].reserved = Memory!None /\ bm_cl[c].cached = Memory!None
  BY MemAt DEF ClientOK
<1>2. \A m \in Memory!Modes, x \in Nat : x * (Memory!None[m] + Memory!None[m]) = 0
  BY DEF Memory!None
<1>3. bm_cl[c].size \in Nat /\ bm_cl'[c].size \in Nat
  <2>1. bm_cl'[c] \in Client
    OBVIOUS
  <2> QED
    BY <2>1, MemAt, MemSizes DEF Client
<1>4. \A m \in Memory!Modes : Memory!Had(c, m) = 0 /\ Memory!Had(c, m)' = 0
  BY <1>1, <1>2, <1>3 DEF Memory!Had
<1>5. \A m \in Memory!Modes : Memory!Taken(c, m) = 0 /\ Memory!Taken(c, m)' = 0
  BY DEF Memory!Taken, Memory!InHand, Memory!After
<1>6. One(c)' = One(c)
  BY DEF One
<1> QED
  BY <1>1, <1>4, <1>5, <1>6

\* A client comes.
LEMMA MemStart == ASSUME Memory!WellFormed, MemInv, NEW c \in Clients, Memory!Start(c) PROVE MemMoves(c)
<1>1. PICK s \in BlockSizes :
        bm_cl' = [bm_cl EXCEPT ![c].pc = "dm_io", ![c].size = s, ![c].need = Reserve, ![c].have = {"client"}]
  BY DEF Memory!Start
<1>2. Memory!At(c, "out") /\ bm_module = "loaded" /\ UNCHANGED <<Memory!Slabs, bm_clients_lock, Memory!Memory, bm_client_count>>
  BY DEF Memory!Start
<1>3. /\ bm_cl' \in [Clients -> Client] /\ \A d \in Clients : d # c => bm_cl'[d] = bm_cl[d]
      /\ bm_cl'[c].pc = "dm_io" /\ bm_cl'[c].size = s /\ bm_cl'[c].need = Reserve /\ bm_cl'[c].have = {"client"}
      /\ bm_cl'[c].reserved = bm_cl[c].reserved /\ bm_cl'[c].cached = bm_cl[c].cached
  <2>1. Reserve \in 0..Reserve /\ bm_cl \in [Clients -> Client]
    BY MemAt
  <2>2. bm_cl[c] \in Client /\ c \in DOMAIN bm_cl
    BY <2>1
  <2>3. bm_cl' = [bm_cl EXCEPT ![c] = [bm_cl[c] EXCEPT !.pc = "dm_io", !.size = s, !.need = Reserve, !.have = {"client"}]]
    BY <1>1, <2>1, Zenon
  <2>4. ASSUME NEW r \in Client
        PROVE  LET q == [r EXCEPT !.pc = "dm_io", !.size = s, !.need = Reserve, !.have = {"client"}] IN
               /\ q \in Client /\ q.pc = "dm_io" /\ q.size = s /\ q.need = Reserve /\ q.have = {"client"}
               /\ q.reserved = r.reserved /\ q.cached = r.cached
    BY <2>1, <2>4 DEF Client, Building
  <2> QED
    BY <2>1, <2>2, <2>3, <2>4
<1>4. /\ bm_cl[c].reserved = Memory!None /\ bm_cl[c].cached = Memory!None
      /\ \A m \in Memory!Modes : Memory!Had(c, m)' = Memory!Had(c, m) /\ Memory!Taken(c, m)' = Memory!Taken(c, m)
      /\ One(c)' = One(c)
  BY <1>2, <1>3, MemEmpty DEF Memory!At, Building
<1>5. ClientOK(c)' /\ SlabOK(c)'
  BY <1>3, <1>4 DEF ClientOK, SlabOK, Memory!At, Building, InReserve, Registered
<1> QED
  BY <1>2, <1>3, <1>4, <1>5, MemPlain DEF Locked, Memory!At

\* The steps of its creation before it has buffers.
LEMMA MemCreate ==
    ASSUME Memory!WellFormed, MemInv, NEW c \in Clients, Memory!DmIo(c) \/ Memory!Lock(c) \/ Memory!Cache(c) \/ Memory!Unlock(c)
    PROVE  MemMoves(c)
<1>1. bm_cl[c].pc \in {"dm_io", "lock", "cache", "unlock", "bad_cache"} /\ UNCHANGED <<Memory!Slabs, Memory!Memory, bm_client_count>>
  BY DEF Memory!DmIo, Memory!Lock, Memory!Cache, Memory!Unlock, Memory!At
<1>2. bm_cl \in [Clients -> Client] /\ bm_module = "loaded" /\ bm_cl[c].need = Reserve /\ ClientOK(c) /\ SlabOK(c)
  BY <1>1, MemAt DEF Memory!At, ClientOK, Building
<1>3. bm_clients_lock = c <=> bm_cl[c].pc \in Locked
  BY DEF MemInv, MemLock
<1> DEFINE Goes(p) ==
        /\ bm_cl' \in [Clients -> Client] /\ \A d \in Clients : d # c => bm_cl'[d] = bm_cl[d]
        /\ bm_cl'[c].pc = p /\ bm_cl'[c].size = bm_cl[c].size /\ bm_cl'[c].need = bm_cl[c].need
        /\ bm_cl'[c].reserved = bm_cl[c].reserved /\ bm_cl'[c].cached = bm_cl[c].cached
<1>4. ASSUME NEW p \in Building \cup {"reserve", "rest"}, Goes(p),
             \/ bm_clients_lock' = bm_clients_lock /\ (p \in Locked <=> bm_cl[c].pc \in Locked)
             \/ bm_clients_lock = Memory!NoOne /\ bm_clients_lock' = c /\ p \in Locked
             \/ bm_clients_lock = c /\ bm_clients_lock' = Memory!NoOne /\ p \notin Locked,
             p \in {"cache", "make"} => bm_cl[c].size \in Memory!Small,
             p = "make" => bm_cl[c].size \notin bm_caches,
             p \in {"unlock", "reserve"} /\ bm_cl[c].size \in Memory!Small => bm_cl[c].size \in bm_caches
      PROVE  MemMoves(c)
  <2>1. /\ bm_cl[c].reserved = Memory!None /\ bm_cl[c].cached = Memory!None
        /\ \A m \in Memory!Modes : Memory!Had(c, m)' = Memory!Had(c, m) /\ Memory!Taken(c, m)' = Memory!Taken(c, m)
        /\ One(c)' = One(c)
    BY <1>1, <1>4, MemEmpty DEF Building
  <2>2. Memory!All(Memory!None) = 0 /\ Reserve + 0 = Reserve
    BY MemModes, MemSizes
  <2>3. ClientOK(c)'
    BY <1>2, <1>4, <2>1, <2>2 DEF ClientOK, Memory!At, Building, InReserve, Registered
  <2>4. bm_caches' = bm_caches
    BY <1>1 DEF Memory!Slabs
  <2>5. SlabOK(c)'
    BY <1>4, <2>1, <2>4 DEF SlabOK, Memory!At, Building, InReserve, Registered
  <2> QED
    BY <1>1, <1>2, <1>4, <2>1, <2>3, <2>5, MemPlain
<1>5. CASE Memory!DmIo(c)
  <2>1. Memory!At(c, "dm_io") /\ bm_clients_lock' = bm_clients_lock
    BY <1>5 DEF Memory!DmIo
  <2>2. CASE bm_cl' = [bm_cl EXCEPT ![c].pc = "lock", ![c].have = @ \cup {"dm_io"}]
    <3> DEFINE h == bm_cl[c].have \cup {"dm_io"}
    <3>1. h \in SUBSET Things /\ "lock" \in ClientPlaces
      BY MemAt DEF Client, Things, ClientPlaces, Building
    <3>2. Goes("lock")
      BY <1>2, <2>2, <3>1, MemGoesWith
    <3> QED
      BY <1>4, <2>1, <3>2 DEF Memory!At, Building, Locked
  <2>3. CASE bm_cl' = [bm_cl EXCEPT ![c].pc = "bad_dm_io"]
    <3>1. Goes("bad_dm_io")
      BY <1>2, <2>3, MemGoes DEF ClientPlaces, Building
    <3> QED
      BY <1>4, <2>1, <3>1 DEF Memory!At, Building, Locked
  <2> QED
    BY <1>5, <2>2, <2>3 DEF Memory!DmIo
<1>6. CASE Memory!Lock(c)
  <2> DEFINE p == IF bm_cl[c].size \in Memory!Small THEN "cache" ELSE "unlock"
  <2>1. Memory!At(c, "lock") /\ bm_clients_lock = Memory!NoOne /\ bm_clients_lock' = c /\ bm_cl' = [bm_cl EXCEPT ![c].pc = p]
    BY <1>6 DEF Memory!Lock, Memory!ClientsLockFree
  <2>2. p \in ClientPlaces /\ p \in Building /\ p \in Locked
    BY DEF ClientPlaces, Building, Locked
  <2>3. Goes(p)
    <3> HIDE DEF p
    <3> QED
      BY <1>2, <2>1, <2>2, MemGoes
  <2> QED
    BY <1>4, <2>1, <2>2, <2>3
<1>7. CASE Memory!Cache(c)
  <2>1. PICK p \in IF bm_cl[c].size \in bm_caches THEN {"unlock"} ELSE {"make", "bad_cache"} : bm_cl' = [bm_cl EXCEPT ![c].pc = p]
    BY <1>7 DEF Memory!Cache
  <2>2. Memory!At(c, "cache") /\ bm_clients_lock' = bm_clients_lock /\ p \in ClientPlaces /\ p \in Building /\ p \in Locked
    BY <1>7 DEF Memory!Cache, ClientPlaces, Building, Locked
  <2>3. Goes(p)
    BY <1>2, <2>1, <2>2, MemGoes
  <2>4. bm_cl[c].size \in Memory!Small
    BY <1>2, <2>2 DEF SlabOK, Memory!At
  <2>5. (p = "make" => bm_cl[c].size \notin bm_caches) /\ (p = "unlock" => bm_cl[c].size \in bm_caches) /\ p # "reserve"
    BY <2>1
  <2>6. bm_cl[c].pc \in Locked
    BY <2>2 DEF Memory!At, Locked
  <2> QED
    BY <1>4, <2>2, <2>3, <2>4, <2>5, <2>6
<1>8. CASE Memory!Unlock(c)
  <2> DEFINE p == IF bm_cl[c].pc = "unlock" THEN "reserve" ELSE "rest"
  <2>1. bm_cl' = [bm_cl EXCEPT ![c].pc = p] /\ bm_clients_lock' = Memory!NoOne /\ bm_cl[c].pc \in {"unlock", "bad_cache"}
    BY <1>8 DEF Memory!Unlock, Memory!GiveLock
  <2>2. p \in ClientPlaces /\ p \in {"reserve", "rest"} /\ p \notin Locked /\ (p = "reserve" => Memory!At(c, "unlock"))
    BY DEF ClientPlaces, InReserve, Ending, Locked, Memory!At
  <2>3. Goes(p)
    <3> HIDE DEF p
    <3> QED
      BY <1>2, <2>1, <2>2, MemGoes
  <2>4. bm_clients_lock = c
    BY <1>3, <2>1 DEF Locked
  <2> HIDE DEF p
  <2>5. p = "reserve" /\ bm_cl[c].size \in Memory!Small => bm_cl[c].size \in bm_caches
    BY <1>2, <2>2 DEF SlabOK, Memory!At
  <2> QED
    BY <1>4, <2>1, <2>2, <2>3, <2>4, <2>5
<1> QED
  BY <1>5, <1>6, <1>7, <1>8
----------------------------------------------------------------------------
\* A client becomes another.
LEMMA MemSet ==
    ASSUME bm_cl \in [Clients -> Client], NEW c \in Clients, NEW q \in Client, bm_cl' = [bm_cl EXCEPT ![c] = q]
    PROVE  bm_cl' \in [Clients -> Client] /\ bm_cl'[c] = q /\ \A d \in Clients : d # c => bm_cl'[d] = bm_cl[d]
OBVIOUS

\* A step of a client that has left the lock behind.
LEMMA MemWork ==
    ASSUME Memory!WellFormed, MemInv, NEW c \in Clients, UNCHANGED <<Memory!Slabs, bm_clients_lock>>,
           bm_cl[c].pc \notin Locked \cup {"out"}, bm_cl'[c].pc \notin Locked,
           bm_cl' \in [Clients -> Client], \A d \in Clients : d # c => bm_cl'[d] = bm_cl[d],
           bm_allocated' \in [Memory!Modes -> Int], bm_out' \in [Memory!Modes -> Int],
           \A m \in Memory!Modes : /\ bm_allocated'[m] = bm_allocated[m] + Memory!Had(c, m)' - Memory!Had(c, m)
                            /\ bm_out'[m] = bm_out[m] + (Memory!Had(c, m)' - Memory!Had(c, m)) + (Memory!Taken(c, m)' - Memory!Taken(c, m)),
           bm_client_count' = bm_client_count + One(c)' - One(c),
           ClientOK(c)', SlabOK(c)'
    PROVE  MemMoves(c)
<1>1. bm_module = "loaded" /\ UNCHANGED bm_module
  BY MemAt DEF Memory!At, Memory!Slabs
<1>2. /\ bm_clients_lock' \in Clients \cup {Memory!NoOne} /\ (bm_cl'[c].pc \in Locked <=> bm_clients_lock' = c)
      /\ \A d \in Clients : d # c => (bm_clients_lock' = d <=> bm_clients_lock = d)
  BY DEF MemInv, MemLock
<1>3. bm_caches \subseteq bm_caches' /\ MemSlabs' /\ \A d \in Clients : d # c /\ Memory!At(d, "make") => bm_cl[d].size \notin bm_caches'
  BY DEF Memory!Slabs, MemInv, MemSlabs, SlabOK
<1> QED
  BY <1>1, <1>2, <1>3 DEF MemMoves

\* The count of clients is a number.
LEMMA MemCounted == ASSUME Memory!WellFormed, MemInv PROVE bm_client_count \in Nat
<1>1. IsFiniteSet({d \in Clients : bm_cl[d].pc \in Registered})
  BY MemFinite, FS_Subset
<1> QED
  BY <1>1, FS_CardinalityType DEF MemInv, MemCount

\* An allocator gives a buffer.
LEMMA MemAlloc ==
    ASSUME Memory!WellFormed, MemInv, NEW c \in Clients, NEW noretry, NEW p \in {"reserve_count", "grow_count"},
           Memory!Alloc(c, noretry, p),
           (Memory!At(c, "reserve") /\ bm_cl[c].need > 0 /\ p = "reserve_count") \/ (Memory!At(c, "up") /\ p = "grow_count")
    PROVE  MemMoves(c)
<1> DEFINE x == Memory!ModeFor(bm_cl[c].size, noretry)
<1>1. /\ x \in Memory!Modes /\ bm_out' = [bm_out EXCEPT ![x] = @ + bm_cl[c].size] /\ bm_cl' = [bm_cl EXCEPT ![c].mode = x, ![c].pc = p]
      /\ UNCHANGED <<Memory!Slabs, bm_clients_lock, bm_allocated, bm_client_count>>
  BY DEF Memory!Alloc, Memory!ModeFor, Memory!Modes
<1> HIDE DEF x
<1>2. /\ bm_cl' \in [Clients -> Client] /\ \A d \in Clients : d # c => bm_cl'[d] = bm_cl[d]
      /\ bm_cl'[c].pc = p /\ bm_cl'[c].size = bm_cl[c].size /\ bm_cl'[c].mode = x
      /\ bm_cl'[c].reserved = bm_cl[c].reserved /\ bm_cl'[c].cached = bm_cl[c].cached
      /\ bm_cl'[c].need = bm_cl[c].need /\ bm_cl'[c].have = bm_cl[c].have
  <2>1. bm_cl \in [Clients -> Client] /\ p \in ClientPlaces
    BY MemAt DEF ClientPlaces, InReserve, Registered
  <2> QED
    BY <1>1, <2>1, MemGoesMode
<1>3. \A m \in Memory!Modes : /\ Memory!Had(c, m)' = Memory!Had(c, m) /\ Memory!Had(c, m) \in Nat
                       /\ Memory!Taken(c, m) = 0 /\ Memory!Taken(c, m)' = IF m = x THEN bm_cl[c].size ELSE 0
  BY <1>2, MemAt DEF Memory!Had, Memory!Taken, Memory!InHand, Memory!At, Memory!After
<1>4. /\ bm_cl[c].size \in Nat /\ bm_out \in [Memory!Modes -> Int] /\ bm_allocated \in [Memory!Modes -> Int]
      /\ bm_out' \in [Memory!Modes -> Int] /\ bm_allocated' \in [Memory!Modes -> Int]
  BY <1>1, MemAt DEF MemInv, MemTypes
<1>5. \A m \in Memory!Modes : /\ bm_allocated'[m] = bm_allocated[m] + Memory!Had(c, m)' - Memory!Had(c, m)
                       /\ bm_out'[m] = bm_out[m] + (Memory!Had(c, m)' - Memory!Had(c, m)) + (Memory!Taken(c, m)' - Memory!Taken(c, m))
  BY <1>1, <1>3, <1>4
<1>6. bm_client_count' = bm_client_count + One(c)' - One(c)
  BY <1>1, <1>2, MemCounted DEF One, Memory!At, Registered
<1>7. ClientOK(c)' /\ SlabOK(c)'
  BY <1>1, <1>2, MemAt DEF ClientOK, SlabOK, Memory!At, Memory!Held, Building, InReserve, Registered, Memory!Slabs
<1> QED
  BY <1>1, <1>2, <1>4, <1>5, <1>6, <1>7, MemWork DEF Locked, Memory!At

\* It takes one back.
LEMMA MemFree == ASSUME Memory!WellFormed, MemInv, NEW c \in Clients, Memory!FreeData(c) PROVE MemMoves(c)
<1> DEFINE x == bm_cl[c].mode
           p == Memory!After[bm_cl[c].pc]
<1>1. /\ bm_cl[c].pc \in {"free_up", "free_drop", "free_rest"} /\ x \in Memory!Modes
      /\ bm_out' = [bm_out EXCEPT ![x] = @ - bm_cl[c].size] /\ bm_cl' = [bm_cl EXCEPT ![c].pc = p]
      /\ UNCHANGED <<Memory!Slabs, bm_clients_lock, bm_allocated, bm_client_count>>
  BY MemAt DEF Memory!FreeData, Memory!After, Memory!DataMode
<1>2. /\ bm_cl[c].pc = "free_up" => p = "up"
      /\ bm_cl[c].pc = "free_drop" => p = "drop"
      /\ bm_cl[c].pc = "free_rest" => p = "rest"
  BY DEF Memory!After
<1> HIDE DEF x, p
<1>3. /\ bm_cl' \in [Clients -> Client] /\ \A d \in Clients : d # c => bm_cl'[d] = bm_cl[d]
      /\ bm_cl'[c].pc = p /\ bm_cl'[c].size = bm_cl[c].size /\ bm_cl'[c].mode = bm_cl[c].mode
      /\ bm_cl'[c].reserved = bm_cl[c].reserved /\ bm_cl'[c].cached = bm_cl[c].cached
      /\ bm_cl'[c].need = bm_cl[c].need /\ bm_cl'[c].have = bm_cl[c].have
  BY <1>1, <1>2, MemAt, MemGoes DEF ClientPlaces, InReserve, Registered, Ending
<1>4. \A m \in Memory!Modes : /\ Memory!Had(c, m)' = Memory!Had(c, m) /\ Memory!Had(c, m) \in Nat
                       /\ Memory!Taken(c, m)' = 0 /\ Memory!Taken(c, m) = IF m = x THEN bm_cl[c].size ELSE 0
  BY <1>1, <1>2, <1>3, MemAt DEF Memory!Had, Memory!Taken, Memory!InHand, Memory!After, x
<1>5. /\ bm_cl[c].size \in Nat /\ bm_out \in [Memory!Modes -> Int] /\ bm_allocated \in [Memory!Modes -> Int]
      /\ bm_out' \in [Memory!Modes -> Int] /\ bm_allocated' \in [Memory!Modes -> Int]
  BY <1>1, MemAt DEF MemInv, MemTypes
<1>6. \A m \in Memory!Modes : /\ bm_allocated'[m] = bm_allocated[m] + Memory!Had(c, m)' - Memory!Had(c, m)
                       /\ bm_out'[m] = bm_out[m] + (Memory!Had(c, m)' - Memory!Had(c, m)) + (Memory!Taken(c, m)' - Memory!Taken(c, m))
  BY <1>1, <1>4, <1>5
<1>7. bm_client_count' = bm_client_count + One(c)' - One(c)
  BY <1>1, <1>2, <1>3, MemCounted DEF One, Registered
<1>8. ClientOK(c)' /\ SlabOK(c)'
  BY <1>1, <1>2, <1>3, MemAt DEF ClientOK, SlabOK, Memory!At, Memory!Held, Building, InReserve, Registered, Memory!Slabs
<1> QED
  BY <1>1, <1>2, <1>3, <1>5, <1>6, <1>7, <1>8, MemWork DEF Locked

\* A step of a client at work that moves no memory: it goes on, borrows from
\* the reserve or gives back.
LEMMA MemSame ==
    ASSUME Memory!WellFormed, MemInv, NEW c \in Clients, UNCHANGED <<Memory!Slabs, bm_clients_lock, Memory!Memory, bm_client_count>>,
           bm_cl[c].pc \in {"reserve", "up", "drop", "rest", "bad_dm_io"},
           bm_cl' \in [Clients -> Client], \A d \in Clients : d # c => bm_cl'[d] = bm_cl[d],
           bm_cl'[c].pc \in {"rest", "up", "drop", "out"}, One(c)' = One(c), bm_cl'[c].size = bm_cl[c].size,
           \A m \in Memory!Modes : bm_cl'[c].reserved[m] + bm_cl'[c].cached[m] = bm_cl[c].reserved[m] + bm_cl[c].cached[m],
           ClientOK(c)', SlabOK(c)'
    PROVE  MemMoves(c)
<1>1. \A m \in Memory!Modes : Memory!Had(c, m)' = Memory!Had(c, m) /\ Memory!Taken(c, m)' = Memory!Taken(c, m)
  BY DEF Memory!Had, Memory!Taken, Memory!InHand, Memory!After
<1>2. bm_module = "loaded" /\ UNCHANGED <<Memory!Slabs, Memory!Memory, bm_client_count>>
  BY MemAt DEF Memory!At
<1>3. bm_clients_lock' = bm_clients_lock /\ (bm_cl'[c].pc \in Locked <=> bm_cl[c].pc \in Locked)
  BY DEF Locked
<1> QED
  BY <1>1, <1>2, <1>3, MemPlain

\* The reserve is not had, a client is destroyed, or is gone.
LEMMA MemEnds ==
    ASSUME Memory!WellFormed, MemInv, NEW c \in Clients,
           \/ /\ Memory!At(c, "reserve") /\ bm_cl' = [bm_cl EXCEPT ![c].pc = "rest"]
              /\ UNCHANGED <<Memory!Slabs, bm_clients_lock, Memory!Memory, bm_client_count>>
           \/ Memory!Destroy(c) \/ Memory!Gone(c)
    PROVE  MemMoves(c)
<1>1. UNCHANGED <<Memory!Slabs, bm_clients_lock, Memory!Memory, bm_client_count>> /\ bm_cl \in [Clients -> Client] /\ ClientOK(c) /\ SlabOK(c)
  BY MemAt DEF Memory!Destroy, Memory!Gone
<1>2. CASE Memory!At(c, "reserve") /\ bm_cl' = [bm_cl EXCEPT ![c].pc = "rest"]
  <2>1. /\ bm_cl' \in [Clients -> Client] /\ \A d \in Clients : d # c => bm_cl'[d] = bm_cl[d]
        /\ bm_cl'[c].pc = "rest" /\ bm_cl'[c].size = bm_cl[c].size
        /\ bm_cl'[c].reserved = bm_cl[c].reserved /\ bm_cl'[c].cached = bm_cl[c].cached
    BY <1>1, <1>2, MemGoes DEF ClientPlaces, Ending
  <2>2. One(c)' = One(c) /\ ClientOK(c)' /\ SlabOK(c)'
    BY <1>1, <1>2, <2>1 DEF One, ClientOK, SlabOK, Memory!At, Building, InReserve, Registered, Memory!Slabs
  <2> QED
    BY <1>1, <1>2, <2>1, <2>2, MemSame DEF Memory!At
<1>3. CASE Memory!Destroy(c)
  <2>1. Memory!At(c, "up") /\ bm_cl' = [bm_cl EXCEPT ![c].pc = "drop"]
    BY <1>3 DEF Memory!Destroy
  <2>2. /\ bm_cl' \in [Clients -> Client] /\ \A d \in Clients : d # c => bm_cl'[d] = bm_cl[d]
        /\ bm_cl'[c].pc = "drop" /\ bm_cl'[c].size = bm_cl[c].size /\ bm_cl'[c].need = bm_cl[c].need
        /\ bm_cl'[c].reserved = bm_cl[c].reserved /\ bm_cl'[c].cached = bm_cl[c].cached
    BY <1>1, <2>1, MemGoes DEF ClientPlaces, Registered
  <2>3. One(c)' = One(c) /\ ClientOK(c)' /\ SlabOK(c)'
    BY <1>1, <2>1, <2>2 DEF One, ClientOK, SlabOK, Memory!At, Memory!Held, Building, InReserve, Registered, Memory!Slabs
  <2> QED
    BY <1>1, <2>1, <2>2, <2>3, MemSame DEF Memory!At
<1>4. CASE Memory!Gone(c)
  <2>1. bm_cl' = [bm_cl EXCEPT ![c].pc = "out", ![c].need = 0, ![c].have = {}]
        /\ ((Memory!At(c, "rest") /\ bm_cl[c].reserved = Memory!None) \/ Memory!At(c, "bad_dm_io"))
    BY <1>4 DEF Memory!Gone, Memory!Kept
  <2>2. bm_cl[c] \in Client /\ 0 \in 0..Reserve
    BY MemAt
  <2>3. bm_cl' = [bm_cl EXCEPT ![c] = [bm_cl[c] EXCEPT !.pc = "out", !.need = 0, !.have = {}]]
    BY <1>1, <2>1, Zenon
  <2>4. ASSUME NEW r \in Client
        PROVE  LET q == [r EXCEPT !.pc = "out", !.need = 0, !.have = {}] IN
               /\ q \in Client /\ q.pc = "out" /\ q.need = 0 /\ q.have = {}
               /\ q.size = r.size /\ q.reserved = r.reserved /\ q.cached = r.cached
    BY <2>2, <2>4 DEF Client
  <2>5. /\ bm_cl' \in [Clients -> Client] /\ \A d \in Clients : d # c => bm_cl'[d] = bm_cl[d]
        /\ bm_cl'[c].pc = "out" /\ bm_cl'[c].need = 0 /\ bm_cl'[c].have = {}
        /\ bm_cl'[c].size = bm_cl[c].size /\ bm_cl'[c].reserved = bm_cl[c].reserved /\ bm_cl'[c].cached = bm_cl[c].cached
    BY <1>1, <2>2, <2>3, <2>4, MemSet
  <2>6. bm_cl[c].reserved = Memory!None /\ bm_cl[c].cached = Memory!None
    BY <1>1, <2>1 DEF ClientOK, Memory!At, Building, Registered
  <2>7. One(c)' = One(c) /\ ClientOK(c)' /\ SlabOK(c)'
    BY <1>1, <2>1, <2>5, <2>6 DEF One, ClientOK, SlabOK, Memory!At, Building, InReserve, Registered, Memory!Slabs
  <2> QED
    BY <1>1, <2>1, <2>5, <2>7, MemSame DEF Memory!At
<1> QED
  BY <1>2, <1>3, <1>4
\* A list with one more, or one less.
LEMMA MemLists ==
    ASSUME NEW n \in [Memory!Modes -> Nat], NEW m \in Memory!Modes
    PROVE  /\ [n EXCEPT ![m] = @ + 1] \in [Memory!Modes -> Nat] /\ Memory!All([n EXCEPT ![m] = @ + 1]) = Memory!All(n) + 1
           /\ \A k \in Memory!Modes : [n EXCEPT ![m] = @ + 1][k] = n[k] + (IF k = m THEN 1 ELSE 0)
           /\ n[m] > 0 => /\ [n EXCEPT ![m] = @ - 1] \in [Memory!Modes -> Nat] /\ Memory!All([n EXCEPT ![m] = @ - 1]) = Memory!All(n) - 1
                          /\ \A k \in Memory!Modes : [n EXCEPT ![m] = @ - 1][k] = n[k] - (IF k = m THEN 1 ELSE 0)
                          /\ Memory!All(n) > 0 /\ n # Memory!None
           /\ Memory!All(n) \in Nat /\ \A k \in Memory!Modes : n[k] \in Nat
<1>1. \A k \in Memory!Modes : [n EXCEPT ![m] = @ + 1][k] = n[k] + (IF k = m THEN 1 ELSE 0)
  OBVIOUS
<1>2. \A k \in Memory!Modes : [n EXCEPT ![m] = @ - 1][k] = n[k] - (IF k = m THEN 1 ELSE 0)
  OBVIOUS
<1>3. n[m] > 0 => n # Memory!None
  BY DEF Memory!None
<1> QED
  BY <1>1, <1>2, <1>3, MemModes

OneBufferMore(n, m, u) == u = [n EXCEPT ![m] = @ + 1]
OneBufferLess(n, m, u) == u = [n EXCEPT ![m] = @ - 1]

\* One more, and one less, of a list by its own name.
LEMMA MemOneMore ==
    ASSUME NEW n \in [Memory!Modes -> Nat], NEW m \in Memory!Modes, NEW u, OneBufferMore(n, m, u)
    PROVE  /\ u \in [Memory!Modes -> Nat] /\ Memory!All(u) = Memory!All(n) + 1 /\ Memory!All(n) \in Nat
           /\ \A k \in Memory!Modes : n[k] \in Nat /\ u[k] = n[k] + (IF k = m THEN 1 ELSE 0)
BY MemLists DEF OneBufferMore

\* One less.
LEMMA MemOneLess ==
    ASSUME NEW n \in [Memory!Modes -> Nat], NEW m \in Memory!Modes, n[m] > 0, NEW u, OneBufferLess(n, m, u)
    PROVE  /\ u \in [Memory!Modes -> Nat] /\ Memory!All(u) = Memory!All(n) - 1 /\ Memory!All(n) \in Nat /\ Memory!All(n) > 0
           /\ \A k \in Memory!Modes : n[k] \in Nat /\ u[k] = n[k] - (IF k = m THEN 1 ELSE 0)
BY MemLists DEF OneBufferLess

\* A buffer is lent by the reserve, or comes back to it.
LEMMA MemLend ==
    ASSUME Memory!WellFormed, MemInv, NEW c \in Clients, NEW m \in Memory!Modes, Memory!Lend(c, m) \/ Memory!PutBack(c, m)
    PROVE  MemMoves(c)
<1> DEFINE x == bm_cl[c].reserved
           y == bm_cl[c].cached
<1>1. /\ UNCHANGED <<Memory!Slabs, bm_clients_lock, Memory!Memory, bm_client_count>> /\ bm_cl \in [Clients -> Client]
      /\ bm_cl[c] \in Client /\ ClientOK(c) /\ SlabOK(c)
      /\ x \in [Memory!Modes -> Nat] /\ y \in [Memory!Modes -> Nat] /\ bm_cl[c].need \in 0..Reserve /\ Reserve \in Nat
  BY MemAt DEF Memory!Lend, Memory!PutBack
<1>2. bm_cl[c].pc \in {"up", "drop"}
  BY DEF Memory!Lend, Memory!PutBack, Memory!At
<1>3. bm_cl[c].need + Memory!All(x) = Reserve /\ bm_cl[c].need <= Memory!All(y)
  BY <1>1, <1>2 DEF ClientOK, Memory!Held, Registered
<1>4. bm_cl[c].size \in Memory!Small => bm_cl[c].size \in bm_caches
  BY <1>1, <1>2 DEF SlabOK, Registered
<1>5. ASSUME NEW u \in [Memory!Modes -> Nat], NEW v \in [Memory!Modes -> Nat], NEW n \in 0..Reserve,
             bm_cl' = [bm_cl EXCEPT ![c] = [bm_cl[c] EXCEPT !.reserved = u, !.cached = v, !.need = n]],
             \A k \in Memory!Modes : u[k] + v[k] = x[k] + y[k],
             n + Memory!All(u) = Reserve, n <= Memory!All(v)
      PROVE  MemMoves(c)
  <2>1. ASSUME NEW r \in Client
        PROVE  LET q == [r EXCEPT !.reserved = u, !.cached = v, !.need = n] IN
               /\ q \in Client /\ q.reserved = u /\ q.cached = v /\ q.need = n
               /\ q.pc = r.pc /\ q.size = r.size
    BY <1>5, <2>1 DEF Client
  <2>2. /\ bm_cl' \in [Clients -> Client] /\ \A d \in Clients : d # c => bm_cl'[d] = bm_cl[d]
        /\ bm_cl'[c].reserved = u /\ bm_cl'[c].cached = v /\ bm_cl'[c].need = n
        /\ bm_cl'[c].pc = bm_cl[c].pc /\ bm_cl'[c].size = bm_cl[c].size
    BY <1>1, <1>5, <2>1, MemSet
  <2>3. One(c)' = One(c) /\ ClientOK(c)' /\ SlabOK(c)'
    BY <1>1, <1>2, <1>4, <1>5, <2>2 DEF One, ClientOK, SlabOK, Memory!At, Memory!Held, Building, InReserve, Registered, Memory!Slabs
  <2> QED
    BY <1>1, <1>2, <1>5, <2>2, <2>3, MemSame
<1>6. CASE Memory!Lend(c, m)
  <2> DEFINE u == [x EXCEPT ![m] = @ - 1]
             v == [y EXCEPT ![m] = @ + 1]
             n == bm_cl[c].need + 1
  <2>1. x[m] > 0 /\ bm_cl' = [bm_cl EXCEPT ![c].reserved[m] = @ - 1, ![c].cached[m] = @ + 1, ![c].need = @ + 1]
    BY <1>6 DEF Memory!Lend
  <2>2. /\ u \in [Memory!Modes -> Nat] /\ v \in [Memory!Modes -> Nat] /\ Memory!All(u) = Memory!All(x) - 1 /\ Memory!All(v) = Memory!All(y) + 1
        /\ Memory!All(x) \in Nat /\ Memory!All(y) \in Nat /\ Memory!All(x) > 0
        /\ \A k \in Memory!Modes : u[k] + v[k] = x[k] + y[k]
    <3>1. x \in [Memory!Modes -> Nat] /\ y \in [Memory!Modes -> Nat] /\ x[m] > 0 /\ OneBufferLess(x, m, u) /\ OneBufferMore(y, m, v)
      BY <1>1, <2>1 DEF OneBufferMore, OneBufferLess
    <3> HIDE DEF u, v, x, y
    <3>2. /\ u \in [Memory!Modes -> Nat] /\ Memory!All(u) = Memory!All(x) - 1 /\ Memory!All(x) \in Nat /\ Memory!All(x) > 0
          /\ \A k \in Memory!Modes : x[k] \in Nat /\ u[k] = x[k] - (IF k = m THEN 1 ELSE 0)
      BY <3>1, MemOneLess
    <3>3. /\ v \in [Memory!Modes -> Nat] /\ Memory!All(v) = Memory!All(y) + 1 /\ Memory!All(y) \in Nat
          /\ \A k \in Memory!Modes : y[k] \in Nat /\ v[k] = y[k] + (IF k = m THEN 1 ELSE 0)
      BY <3>1, MemOneMore
    <3> QED
      BY <3>2, <3>3
  <2>3. bm_cl' = [bm_cl EXCEPT ![c] = [bm_cl[c] EXCEPT !.reserved = u, !.cached = v, !.need = n]]
    BY <1>1, <2>1, Zenon
  <2> HIDE DEF u, v
  <2>4. n \in 0..Reserve /\ n + Memory!All(u) = Reserve /\ n <= Memory!All(v)
    BY <1>1, <1>3, <2>2
  <2> QED
    BY <1>5, <2>2, <2>3, <2>4
<1>7. CASE Memory!PutBack(c, m)
  <2> DEFINE u == [x EXCEPT ![m] = @ + 1]
             v == [y EXCEPT ![m] = @ - 1]
             n == bm_cl[c].need - 1
  <2>1. y[m] > 0 /\ bm_cl[c].need # 0 /\ bm_cl' = [bm_cl EXCEPT ![c].cached[m] = @ - 1, ![c].reserved[m] = @ + 1, ![c].need = @ - 1]
    BY <1>7 DEF Memory!PutBack, Memory!Full
  <2>2. /\ u \in [Memory!Modes -> Nat] /\ v \in [Memory!Modes -> Nat] /\ Memory!All(u) = Memory!All(x) + 1 /\ Memory!All(v) = Memory!All(y) - 1
        /\ Memory!All(x) \in Nat /\ Memory!All(y) \in Nat /\ Memory!All(y) > 0
        /\ \A k \in Memory!Modes : u[k] + v[k] = x[k] + y[k]
    <3>1. x \in [Memory!Modes -> Nat] /\ y \in [Memory!Modes -> Nat] /\ y[m] > 0 /\ OneBufferMore(x, m, u) /\ OneBufferLess(y, m, v)
      BY <1>1, <2>1 DEF OneBufferMore, OneBufferLess
    <3> HIDE DEF u, v, x, y
    <3>2. /\ v \in [Memory!Modes -> Nat] /\ Memory!All(v) = Memory!All(y) - 1 /\ Memory!All(y) \in Nat /\ Memory!All(y) > 0
          /\ \A k \in Memory!Modes : y[k] \in Nat /\ v[k] = y[k] - (IF k = m THEN 1 ELSE 0)
      BY <3>1, MemOneLess
    <3>3. /\ u \in [Memory!Modes -> Nat] /\ Memory!All(u) = Memory!All(x) + 1 /\ Memory!All(x) \in Nat
          /\ \A k \in Memory!Modes : x[k] \in Nat /\ u[k] = x[k] + (IF k = m THEN 1 ELSE 0)
      BY <3>1, MemOneMore
    <3> QED
      BY <3>2, <3>3
  <2>3. bm_cl' = [bm_cl EXCEPT ![c] = [bm_cl[c] EXCEPT !.cached = v, !.reserved = u, !.need = n]]
    BY <1>1, <2>1, Zenon
  <2>4. [bm_cl[c] EXCEPT !.cached = v, !.reserved = u, !.need = n] = [bm_cl[c] EXCEPT !.reserved = u, !.cached = v, !.need = n]
    BY <1>1 DEF Client
  <2> HIDE DEF u, v
  <2>5. n \in 0..Reserve /\ n + Memory!All(u) = Reserve /\ n <= Memory!All(v)
    BY <1>1, <1>3, <2>1, <2>2
  <2> QED
    BY <1>5, <2>2, <2>3, <2>4, <2>5
<1> QED
  BY <1>6, <1>7

\* The counter goes up when a buffer in hand is put into a list.
LEMMA MemCountUp ==
    ASSUME Memory!WellFormed, MemInv, NEW c \in Clients, Memory!ReserveCount(c) \/ Memory!GrowCount(c)
    PROVE  MemMoves(c)
<1> DEFINE x == bm_cl[c].reserved
           y == bm_cl[c].cached
           m == bm_cl[c].mode
<1>1. /\ bm_cl \in [Clients -> Client] /\ bm_cl[c] \in Client /\ ClientOK(c) /\ SlabOK(c) /\ m \in Memory!Modes
      /\ x \in [Memory!Modes -> Nat] /\ y \in [Memory!Modes -> Nat] /\ bm_cl[c].need \in 0..Reserve /\ Reserve \in Nat
      /\ bm_cl[c].size \in Nat /\ \A k \in Memory!Modes : x[k] \in Nat /\ y[k] \in Nat
  BY MemAt
<1>2. /\ bm_allocated' = [bm_allocated EXCEPT ![m] = @ + bm_cl[c].size] /\ UNCHANGED <<Memory!Slabs, bm_clients_lock, bm_out, bm_client_count>>
      /\ bm_cl[c].pc \in {"reserve_count", "grow_count"}
  BY DEF Memory!ReserveCount, Memory!GrowCount, Memory!adjust_total_allocated, Memory!At
<1>3. /\ bm_allocated \in [Memory!Modes -> Int] /\ bm_out \in [Memory!Modes -> Int]
      /\ bm_allocated' \in [Memory!Modes -> Int] /\ bm_out' \in [Memory!Modes -> Int]
  BY <1>1, <1>2 DEF MemInv, MemTypes
<1>4. ASSUME bm_cl' \in [Clients -> Client], \A d \in Clients : d # c => bm_cl'[d] = bm_cl[d],
             bm_cl'[c].size = bm_cl[c].size, bm_cl'[c].pc \in {"reserve", "up"}, One(c)' = One(c),
             \A k \in Memory!Modes : bm_cl'[c].reserved[k] + bm_cl'[c].cached[k] = x[k] + y[k] + (IF k = m THEN 1 ELSE 0),
             ClientOK(c)', SlabOK(c)'
      PROVE  MemMoves(c)
  <2>1. \A k \in Memory!Modes : Memory!Had(c, k)' = Memory!Had(c, k) + (IF k = m THEN bm_cl[c].size ELSE 0)
    BY <1>1, <1>4, MemHadMore
  <2>2. \A k \in Memory!Modes : Memory!Had(c, k) \in Nat /\ Memory!Taken(c, k)' = 0 /\ Memory!Taken(c, k) = IF k = m THEN bm_cl[c].size ELSE 0
    BY <1>2, <1>4, MemAt DEF Memory!Taken, Memory!InHand, Memory!After
  <2>3. \A k \in Memory!Modes : /\ bm_allocated'[k] = bm_allocated[k] + Memory!Had(c, k)' - Memory!Had(c, k)
                         /\ bm_out'[k] = bm_out[k] + (Memory!Had(c, k)' - Memory!Had(c, k)) + (Memory!Taken(c, k)' - Memory!Taken(c, k))
    BY <1>1, <1>2, <1>3, <2>1, <2>2
  <2>4. bm_client_count' = bm_client_count + One(c)' - One(c)
    BY <1>2, <1>4, MemCounted DEF One
  <2> QED
    BY <1>2, <1>3, <1>4, <2>3, <2>4, MemWork DEF Locked
<1>5. CASE Memory!ReserveCount(c)
  <2> DEFINE u == [x EXCEPT ![m] = @ + 1]
             n == bm_cl[c].need - 1
  <2>1. Memory!At(c, "reserve_count") /\ bm_cl' = [bm_cl EXCEPT ![c].pc = "reserve", ![c].need = @ - 1, ![c].reserved[m] = @ + 1]
    BY <1>5 DEF Memory!ReserveCount
  <2>2. /\ u \in [Memory!Modes -> Nat] /\ Memory!All(u) = Memory!All(x) + 1 /\ Memory!All(x) \in Nat
        /\ \A k \in Memory!Modes : u[k] = x[k] + (IF k = m THEN 1 ELSE 0)
    <3>1. x \in [Memory!Modes -> Nat] /\ m \in Memory!Modes /\ OneBufferMore(x, m, u)
      BY <1>1 DEF OneBufferMore
    <3> HIDE DEF u, x, m
    <3> QED
      BY <3>1, MemOneMore
  <2>3. bm_cl' = [bm_cl EXCEPT ![c] = [bm_cl[c] EXCEPT !.pc = "reserve", !.need = n, !.reserved = u]]
    BY <1>1, <2>1, Zenon
  <2> HIDE DEF u
  <2>4. bm_cl[c].need > 0 /\ bm_cl[c].need + Memory!All(x) = Reserve /\ y = Memory!None /\ (bm_cl[c].size \in Memory!Small => bm_cl[c].size \in bm_caches)
    BY <1>1, <2>1 DEF ClientOK, SlabOK, Memory!At, InReserve, Registered
  <2>5. n \in 0..Reserve /\ n + Memory!All(u) = Reserve
    BY <1>1, <2>2, <2>4
  <2> HIDE DEF n
  <2>6. ASSUME NEW r \in Client
        PROVE  LET q == [r EXCEPT !.pc = "reserve", !.need = n, !.reserved = u] IN
               /\ q \in Client /\ q.reserved = u /\ q.cached = r.cached /\ q.need = n
               /\ q.pc = "reserve" /\ q.size = r.size
    BY <2>2, <2>5, <2>6 DEF Client, InReserve
  <2>7. /\ bm_cl' \in [Clients -> Client] /\ \A d \in Clients : d # c => bm_cl'[d] = bm_cl[d]
        /\ bm_cl'[c].reserved = u /\ bm_cl'[c].cached = y /\ bm_cl'[c].need = n
        /\ bm_cl'[c].pc = "reserve" /\ bm_cl'[c].size = bm_cl[c].size
    BY <1>1, <2>3, <2>6, MemSet
  <2>8. One(c)' = One(c) /\ ClientOK(c)' /\ SlabOK(c)'
    BY <1>1, <1>2, <2>1, <2>4, <2>5, <2>7 DEF One, ClientOK, SlabOK, Memory!At, Building, InReserve, Registered, Memory!Slabs
  <2>9. \A k \in Memory!Modes : bm_cl'[c].reserved[k] + bm_cl'[c].cached[k] = x[k] + y[k] + (IF k = m THEN 1 ELSE 0)
    BY <1>1, <2>2, <2>7
  <2> QED
    BY <1>4, <2>7, <2>8, <2>9
<1>6. CASE Memory!GrowCount(c)
  <2> DEFINE v == [y EXCEPT ![m] = @ + 1]
  <2>1. Memory!At(c, "grow_count") /\ bm_cl' = [bm_cl EXCEPT ![c].pc = "up", ![c].cached[m] = @ + 1]
    BY <1>6 DEF Memory!GrowCount
  <2>2. /\ v \in [Memory!Modes -> Nat] /\ Memory!All(v) = Memory!All(y) + 1 /\ Memory!All(y) \in Nat
        /\ \A k \in Memory!Modes : v[k] = y[k] + (IF k = m THEN 1 ELSE 0)
    <3>1. y \in [Memory!Modes -> Nat] /\ m \in Memory!Modes /\ OneBufferMore(y, m, v)
      BY <1>1 DEF OneBufferMore
    <3> HIDE DEF v, y, m
    <3> QED
      BY <3>1, MemOneMore
  <2>3. bm_cl' = [bm_cl EXCEPT ![c] = [bm_cl[c] EXCEPT !.pc = "up", !.cached = v]]
    BY <1>1, <2>1, Zenon
  <2> HIDE DEF v
  <2>4. bm_cl[c].need <= Memory!All(y) /\ bm_cl[c].need + Memory!All(x) = Reserve /\ (bm_cl[c].size \in Memory!Small => bm_cl[c].size \in bm_caches)
    BY <1>1, <2>1 DEF ClientOK, SlabOK, Memory!At, Memory!Held, InReserve, Registered
  <2>5. bm_cl[c].need <= Memory!All(v)
    BY <1>1, <2>2, <2>4
  <2>6. ASSUME NEW r \in Client
        PROVE  LET q == [r EXCEPT !.pc = "up", !.cached = v] IN
               /\ q \in Client /\ q.reserved = r.reserved /\ q.cached = v /\ q.need = r.need
               /\ q.pc = "up" /\ q.size = r.size
    BY <2>2, <2>6 DEF Client, Registered
  <2>7. /\ bm_cl' \in [Clients -> Client] /\ \A d \in Clients : d # c => bm_cl'[d] = bm_cl[d]
        /\ bm_cl'[c].reserved = x /\ bm_cl'[c].cached = v /\ bm_cl'[c].need = bm_cl[c].need
        /\ bm_cl'[c].pc = "up" /\ bm_cl'[c].size = bm_cl[c].size
    BY <1>1, <2>3, <2>6, MemSet
  <2>8. One(c)' = One(c) /\ ClientOK(c)' /\ SlabOK(c)'
    BY <1>1, <1>2, <2>1, <2>4, <2>5, <2>7 DEF One, ClientOK, SlabOK, Memory!At, Memory!Held, Building, InReserve, Registered, Memory!Slabs
  <2>9. \A k \in Memory!Modes : bm_cl'[c].reserved[k] + bm_cl'[c].cached[k] = x[k] + y[k] + (IF k = m THEN 1 ELSE 0)
    BY <1>1, <2>2, <2>7
  <2> QED
    BY <1>4, <2>7, <2>8, <2>9
<1> QED
  BY <1>5, <1>6

\* The counter goes down when one is taken off its list.
LEMMA MemCountDown ==
    ASSUME Memory!WellFormed, MemInv, NEW c \in Clients, NEW m \in Memory!Modes, Memory!FreeBuffer(c, m) \/ Memory!FreeReserved(c, m)
    PROVE  MemMoves(c)
<1> DEFINE x == bm_cl[c].reserved
           y == bm_cl[c].cached
<1>1. /\ bm_cl \in [Clients -> Client] /\ bm_cl[c] \in Client /\ ClientOK(c) /\ SlabOK(c)
      /\ x \in [Memory!Modes -> Nat] /\ y \in [Memory!Modes -> Nat] /\ bm_cl[c].need \in 0..Reserve /\ Reserve \in Nat
      /\ bm_cl[c].size \in Nat /\ \A k \in Memory!Modes : x[k] \in Nat /\ y[k] \in Nat
  BY MemAt
<1>2. /\ bm_allocated' = [bm_allocated EXCEPT ![m] = @ + (-bm_cl[c].size)] /\ UNCHANGED <<Memory!Slabs, bm_clients_lock, bm_out, bm_client_count>>
      /\ bm_cl[c].pc \in {"up", "drop", "rest"} /\ x[m] + y[m] > 0
  BY <1>1 DEF Memory!FreeBuffer, Memory!FreeReserved, Memory!adjust_total_allocated, Memory!At
<1>3. /\ bm_allocated \in [Memory!Modes -> Int] /\ bm_out \in [Memory!Modes -> Int]
      /\ bm_allocated' \in [Memory!Modes -> Int] /\ bm_out' \in [Memory!Modes -> Int]
  BY <1>1, <1>2 DEF MemInv, MemTypes
<1>4. ASSUME bm_cl' \in [Clients -> Client], \A d \in Clients : d # c => bm_cl'[d] = bm_cl[d],
             bm_cl'[c].size = bm_cl[c].size, bm_cl'[c].pc \in {"free_up", "free_drop", "free_rest"}, bm_cl'[c].mode = m,
             One(c)' = One(c),
             \A k \in Memory!Modes : bm_cl'[c].reserved[k] + bm_cl'[c].cached[k] = (x[k] + y[k]) - (IF k = m THEN 1 ELSE 0),
             ClientOK(c)', SlabOK(c)'
      PROVE  MemMoves(c)
  <2>1. \A k \in Memory!Modes : Memory!Had(c, k)' = Memory!Had(c, k) - (IF k = m THEN bm_cl[c].size ELSE 0)
    BY <1>1, <1>2, <1>4, MemHadLess
  <2>2. \A k \in Memory!Modes : Memory!Had(c, k) \in Nat /\ Memory!Taken(c, k) = 0 /\ Memory!Taken(c, k)' = IF k = m THEN bm_cl[c].size ELSE 0
    BY <1>2, <1>4, MemAt DEF Memory!Taken, Memory!InHand, Memory!After
  <2>3. \A k \in Memory!Modes : /\ bm_allocated'[k] = bm_allocated[k] + Memory!Had(c, k)' - Memory!Had(c, k)
                         /\ bm_out'[k] = bm_out[k] + (Memory!Had(c, k)' - Memory!Had(c, k)) + (Memory!Taken(c, k)' - Memory!Taken(c, k))
    BY <1>1, <1>2, <1>3, <2>1, <2>2
  <2>4. bm_client_count' = bm_client_count + One(c)' - One(c)
    BY <1>2, <1>4, MemCounted DEF One
  <2> QED
    BY <1>2, <1>3, <1>4, <2>3, <2>4, MemWork DEF Locked
<1>5. CASE Memory!FreeBuffer(c, m)
  <2> DEFINE v == [y EXCEPT ![m] = @ - 1]
             p == IF bm_cl[c].pc = "up" THEN "free_up" ELSE "free_drop"
  <2>1. /\ bm_cl[c].pc \in {"up", "drop"} /\ y[m] > 0 /\ bm_cl[c].need = 0
        /\ bm_cl' = [bm_cl EXCEPT ![c].cached[m] = @ - 1, ![c].mode = m,
                            ![c].pc = IF @ = "up" THEN "free_up" ELSE "free_drop"]
    BY <1>5 DEF Memory!FreeBuffer, Memory!Full
  <2>2. /\ v \in [Memory!Modes -> Nat] /\ Memory!All(v) \in Nat
        /\ \A k \in Memory!Modes : v[k] = y[k] - (IF k = m THEN 1 ELSE 0)
    BY <1>1, <2>1, MemLists
  <2>3. bm_cl' = [bm_cl EXCEPT ![c] = [bm_cl[c] EXCEPT !.cached = v, !.mode = m, !.pc = p]]
    BY <1>1, <2>1, Zenon
  <2>4. p \in {"free_up", "free_drop"}
    OBVIOUS
  <2> HIDE DEF v, p
  <2>5. bm_cl[c].need + Memory!All(x) = Reserve /\ (bm_cl[c].size \in Memory!Small => bm_cl[c].size \in bm_caches)
    BY <1>1, <2>1 DEF ClientOK, SlabOK, Memory!At, InReserve, Registered
  <2>6. ASSUME NEW r \in Client
        PROVE  LET q == [r EXCEPT !.cached = v, !.mode = m, !.pc = p] IN
               /\ q \in Client /\ q.reserved = r.reserved /\ q.cached = v /\ q.need = r.need
               /\ q.pc = p /\ q.size = r.size /\ q.mode = m
    BY <2>2, <2>4, <2>6 DEF Client, Registered
  <2>7. /\ bm_cl' \in [Clients -> Client] /\ \A d \in Clients : d # c => bm_cl'[d] = bm_cl[d]
        /\ bm_cl'[c].reserved = x /\ bm_cl'[c].cached = v /\ bm_cl'[c].need = bm_cl[c].need
        /\ bm_cl'[c].pc = p /\ bm_cl'[c].size = bm_cl[c].size /\ bm_cl'[c].mode = m
    BY <1>1, <2>3, <2>6, MemSet
  <2>8. One(c)' = One(c) /\ ClientOK(c)' /\ SlabOK(c)'
    BY <1>1, <1>2, <2>1, <2>2, <2>4, <2>5, <2>7 DEF One, ClientOK, SlabOK, Memory!At, Memory!Held, Building, InReserve, Registered, Memory!Slabs
  <2>9. \A k \in Memory!Modes : bm_cl'[c].reserved[k] + bm_cl'[c].cached[k] = (x[k] + y[k]) - (IF k = m THEN 1 ELSE 0)
    BY <1>1, <2>2, <2>7
  <2> QED
    BY <1>4, <2>4, <2>7, <2>8, <2>9
<1>6. CASE Memory!FreeReserved(c, m)
  <2> DEFINE u == [x EXCEPT ![m] = @ - 1]
  <2>1. Memory!At(c, "rest") /\ x[m] > 0 /\ bm_cl' = [bm_cl EXCEPT ![c].reserved[m] = @ - 1, ![c].mode = m, ![c].pc = "free_rest"]
    BY <1>6 DEF Memory!FreeReserved
  <2>2. /\ u \in [Memory!Modes -> Nat] /\ \A k \in Memory!Modes : u[k] = x[k] - (IF k = m THEN 1 ELSE 0) /\ x # Memory!None
    BY <1>1, <2>1, MemLists
  <2>3. bm_cl' = [bm_cl EXCEPT ![c] = [bm_cl[c] EXCEPT !.reserved = u, !.mode = m, !.pc = "free_rest"]]
    BY <1>1, <2>1, Zenon
  <2> HIDE DEF u
  <2>4. y = Memory!None /\ (bm_cl[c].size \in Memory!Small => bm_cl[c].size \in bm_caches)
    BY <1>1, <2>1, <2>2 DEF ClientOK, SlabOK, Memory!At, InReserve, Registered
  <2>5. ASSUME NEW r \in Client
        PROVE  LET q == [r EXCEPT !.reserved = u, !.mode = m, !.pc = "free_rest"] IN
               /\ q \in Client /\ q.reserved = u /\ q.cached = r.cached /\ q.need = r.need
               /\ q.pc = "free_rest" /\ q.size = r.size /\ q.mode = m
    BY <2>2, <2>5 DEF Client, Ending
  <2>6. /\ bm_cl' \in [Clients -> Client] /\ \A d \in Clients : d # c => bm_cl'[d] = bm_cl[d]
        /\ bm_cl'[c].reserved = u /\ bm_cl'[c].cached = y /\ bm_cl'[c].need = bm_cl[c].need
        /\ bm_cl'[c].pc = "free_rest" /\ bm_cl'[c].size = bm_cl[c].size /\ bm_cl'[c].mode = m
    BY <1>1, <2>3, <2>5, MemSet
  <2>7. One(c)' = One(c) /\ ClientOK(c)' /\ SlabOK(c)'
    BY <1>1, <1>2, <2>1, <2>4, <2>6 DEF One, ClientOK, SlabOK, Memory!At, Building, InReserve, Registered, Memory!Slabs
  <2>8. \A k \in Memory!Modes : bm_cl'[c].reserved[k] + bm_cl'[c].cached[k] = (x[k] + y[k]) - (IF k = m THEN 1 ELSE 0)
    <3> SUFFICES ASSUME NEW k \in Memory!Modes
                 PROVE  bm_cl'[c].reserved[k] + bm_cl'[c].cached[k] = (x[k] + y[k]) - (IF k = m THEN 1 ELSE 0)
      OBVIOUS
    <3>1. \A a, b, e \in Int : (a - e) + b = (a + b) - e
      OBVIOUS
    <3>2. bm_cl'[c].reserved[k] = x[k] - (IF k = m THEN 1 ELSE 0) /\ bm_cl'[c].cached[k] = y[k]
      BY <2>2, <2>6
    <3>3. x[k] \in Int /\ y[k] \in Int /\ (IF k = m THEN 1 ELSE 0) \in Int
      BY <1>1
    <3> HIDE DEF x, y
    <3> QED
      BY <3>1, <3>2, <3>3
  <2> QED
    BY <1>4, <2>6, <2>7, <2>8
<1> QED
  BY <1>5, <1>6
----------------------------------------------------------------------------
\* A cache is made, of which there was none: the others wait for the lock.
LEMMA MemMake == ASSUME Memory!WellFormed, MemInv, NEW c \in Clients, Memory!Make(c) PROVE MemMoves(c)
<1> DEFINE s == bm_cl[c].size
<1>1. /\ bm_cl[c].pc = "make" /\ bm_caches' = bm_caches \cup {s} /\ bm_made' = [bm_made EXCEPT ![s] = @ + 1]
      /\ bm_cl' = [bm_cl EXCEPT ![c].pc = "unlock"] /\ UNCHANGED <<bm_module, bm_clients_lock, Memory!Memory, bm_client_count>>
  BY DEF Memory!Make, Memory!At
<1>2. /\ bm_cl \in [Clients -> Client] /\ bm_module = "loaded" /\ bm_cl[c].need = Reserve /\ s \in BlockSizes
      /\ s \in Memory!Small /\ s \notin bm_caches
  BY <1>1, MemAt DEF Memory!At, ClientOK, SlabOK, Building
<1>3. bm_clients_lock = c /\ \A d \in Clients : d # c => bm_cl[d].pc # "make"
  BY <1>1 DEF MemInv, MemLock, Locked
<1>4. /\ bm_cl' \in [Clients -> Client] /\ \A d \in Clients : d # c => bm_cl'[d] = bm_cl[d]
      /\ bm_cl'[c].pc = "unlock" /\ bm_cl'[c].size = s /\ bm_cl'[c].need = bm_cl[c].need
      /\ bm_cl'[c].reserved = bm_cl[c].reserved /\ bm_cl'[c].cached = bm_cl[c].cached
  BY <1>1, <1>2, MemGoes DEF ClientPlaces, Building
<1>5. /\ bm_cl[c].reserved = Memory!None /\ bm_cl[c].cached = Memory!None
      /\ \A m \in Memory!Modes : Memory!Had(c, m)' = Memory!Had(c, m) /\ Memory!Taken(c, m)' = Memory!Taken(c, m)
      /\ One(c)' = One(c)
  BY <1>1, <1>4, MemEmpty DEF Building
<1>6. bm_caches \subseteq bm_caches' /\ MemSlabs'
  <2>1. bm_made \in [BlockSizes -> Nat] /\ bm_made[s] = 0
    BY <1>2 DEF MemInv, MemSlabs
  <2>2. bm_made' \in [BlockSizes -> Nat] /\ bm_made'[s] = 1 /\ \A z \in BlockSizes : z # s => bm_made'[z] = bm_made[z]
    BY <1>1, <1>2, <2>1
  <2> HIDE DEF s
  <2> QED
    BY <1>1, <1>2, <2>2 DEF MemInv, MemSlabs
<1>7. /\ bm_allocated' \in [Memory!Modes -> Int] /\ bm_out' \in [Memory!Modes -> Int]
      /\ \A m \in Memory!Modes : bm_allocated'[m] = bm_allocated[m] /\ bm_out'[m] = bm_out[m] /\ bm_allocated[m] \in Int /\ bm_out[m] \in Int
  BY <1>1 DEF MemInv, MemTypes, Memory!Memory
<1>8. \A m \in Memory!Modes : /\ bm_allocated'[m] = bm_allocated[m] + Memory!Had(c, m)' - Memory!Had(c, m)
                       /\ bm_out'[m] = bm_out[m] + (Memory!Had(c, m)' - Memory!Had(c, m)) + (Memory!Taken(c, m)' - Memory!Taken(c, m))
  <2>1. \A m \in Memory!Modes : Memory!Had(c, m) \in Nat /\ Memory!Taken(c, m) \in Nat
    BY MemAt
  <2> QED
    BY <1>5, <1>7, <2>1
<1>9. bm_client_count' = bm_client_count + One(c)' - One(c)
  BY <1>1, <1>5, MemCounted DEF One
<1>10. /\ bm_clients_lock' \in Clients \cup {Memory!NoOne} /\ (bm_cl'[c].pc \in Locked <=> bm_clients_lock' = c)
       /\ \A d \in Clients : d # c => (bm_clients_lock' = d <=> bm_clients_lock = d)
  BY <1>1, <1>3, <1>4 DEF Locked
<1>11. ClientOK(c)' /\ SlabOK(c)'
  <2>1. s \in bm_caches'
    BY <1>1
  <2> QED
    BY <1>2, <1>4, <1>5, <2>1 DEF ClientOK, SlabOK, Memory!At, Building, InReserve, Registered
<1>12. \A d \in Clients : d # c /\ Memory!At(d, "make") => bm_cl[d].size \notin bm_caches'
  BY <1>3 DEF Memory!At
<1> QED
  BY <1>1, <1>2, <1>4, <1>6, <1>7, <1>8, <1>9, <1>10, <1>11, <1>12 DEF MemMoves

\* A client is listed when its reserve is complete, and delisted when it has
\* given back what it borrowed.
LEMMA MemListed ==
    ASSUME Memory!WellFormed, MemInv, NEW c \in Clients, Memory!Register(c) \/ Memory!Delist(c)
    PROVE  MemMoves(c)
<1> DEFINE p == IF Memory!At(c, "reserve") THEN "up" ELSE "rest"
           h == IF Memory!At(c, "reserve") THEN bm_cl[c].have \cup {"listed", "shrinker"}
                ELSE bm_cl[c].have \ {"listed", "shrinker"}
           i == IF Memory!At(c, "reserve") THEN 1 ELSE -1
<1>1. /\ bm_cl' = [bm_cl EXCEPT ![c].pc = p, ![c].have = h] /\ bm_client_count' = bm_client_count + i
      /\ UNCHANGED <<Memory!Slabs, bm_clients_lock, Memory!Memory>>
      /\ (bm_cl[c].pc = "reserve" /\ bm_cl[c].need = 0) \/ (bm_cl[c].pc = "drop" /\ Memory!Held(c) = 0)
  <2>1. bm_client_count \in Nat
    BY MemCounted
  <2>2. CASE Memory!Register(c)
    BY <2>1, <2>2 DEF Memory!Register, Memory!At
  <2>3. CASE Memory!Delist(c)
    BY <2>1, <2>3 DEF Memory!Delist, Memory!At
  <2> QED
    BY <2>2, <2>3
<1>2. /\ bm_cl \in [Clients -> Client] /\ ClientOK(c) /\ SlabOK(c) /\ bm_cl[c].have \in SUBSET Things
      /\ bm_cl[c].reserved \in [Memory!Modes -> Nat] /\ bm_cl[c].cached \in [Memory!Modes -> Nat]
      /\ bm_cl[c].need \in 0..Reserve /\ Reserve \in Nat
  BY MemAt DEF Client, Things
<1>3. p \in ClientPlaces /\ p \in {"up", "rest"} /\ h \in SUBSET Things /\ i \in Int
      /\ (bm_cl[c].pc = "reserve" => p = "up" /\ i = 1) /\ (bm_cl[c].pc = "drop" => p = "rest" /\ i = -1)
  BY <1>2 DEF ClientPlaces, Registered, Ending, Things, Memory!At
<1> HIDE DEF p, h, i
<1>4. /\ bm_cl' \in [Clients -> Client] /\ \A d \in Clients : d # c => bm_cl'[d] = bm_cl[d]
      /\ bm_cl'[c].pc = p /\ bm_cl'[c].size = bm_cl[c].size /\ bm_cl'[c].mode = bm_cl[c].mode
      /\ bm_cl'[c].reserved = bm_cl[c].reserved /\ bm_cl'[c].cached = bm_cl[c].cached /\ bm_cl'[c].need = bm_cl[c].need
  BY <1>1, <1>2, <1>3, MemGoesWith
<1>5. \A m \in Memory!Modes : Memory!Had(c, m)' = Memory!Had(c, m) /\ Memory!Taken(c, m)' = Memory!Taken(c, m)
  BY <1>1, <1>3, <1>4 DEF Memory!Had, Memory!Taken, Memory!InHand, Memory!After
<1>6. /\ bm_allocated' \in [Memory!Modes -> Int] /\ bm_out' \in [Memory!Modes -> Int]
      /\ \A m \in Memory!Modes : bm_allocated'[m] = bm_allocated[m] /\ bm_out'[m] = bm_out[m] /\ bm_allocated[m] \in Int /\ bm_out[m] \in Int
  BY <1>1 DEF MemInv, MemTypes, Memory!Memory
<1>7. \A m \in Memory!Modes : /\ bm_allocated'[m] = bm_allocated[m] + Memory!Had(c, m)' - Memory!Had(c, m)
                       /\ bm_out'[m] = bm_out[m] + (Memory!Had(c, m)' - Memory!Had(c, m)) + (Memory!Taken(c, m)' - Memory!Taken(c, m))
  <2>1. \A m \in Memory!Modes : Memory!Had(c, m) \in Nat /\ Memory!Taken(c, m) \in Nat
    BY MemAt
  <2> QED
    BY <1>5, <1>6, <2>1
<1>8. bm_client_count' = bm_client_count + One(c)' - One(c)
  BY <1>1, <1>3, <1>4, MemCounted DEF One, Registered
<1>9. Memory!All(bm_cl[c].cached) \in Nat /\ (Memory!All(bm_cl[c].cached) = 0 => bm_cl[c].cached = Memory!None) /\ Memory!All(Memory!None) = 0
  BY <1>2, MemModes
<1>10. ClientOK(c)' /\ SlabOK(c)'
  <2>1. CASE bm_cl[c].pc = "reserve" /\ bm_cl[c].need = 0
    BY <1>1, <1>2, <1>3, <1>4, <1>9, <2>1 DEF ClientOK, SlabOK, Memory!At, Memory!Held, Building, InReserve, Registered, Memory!Slabs
  <2>2. CASE bm_cl[c].pc = "drop" /\ Memory!Held(c) = 0
    BY <1>1, <1>2, <1>3, <1>4, <1>9, <2>2 DEF ClientOK, SlabOK, Memory!At, Memory!Held, Building, InReserve, Registered, Memory!Slabs
  <2> QED
    BY <1>1, <2>1, <2>2
<1>11. bm_cl[c].pc \notin Locked \cup {"out"} /\ bm_cl'[c].pc \notin Locked
  BY <1>1, <1>3, <1>4 DEF Locked
<1> QED
  BY <1>1, <1>4, <1>6, <1>7, <1>8, <1>10, <1>11, MemWork

\* The module goes when every client is gone.
LEMMA MemExit == ASSUME Memory!WellFormed, MemInv, Memory!Exit PROVE MemInv'
<1>1. /\ bm_module = "loaded" /\ \A c \in Clients : bm_cl[c].pc = "out"
      /\ bm_module' = "unloaded" /\ bm_caches' = {} /\ UNCHANGED <<bm_made, bm_clients_lock, bm_allocated, bm_out, bm_client_count, bm_cl>>
  BY DEF Memory!Exit, Memory!At, Memory!Memory
<1>2. MemTypes' /\ MemSlabs' /\ MemLock' /\ MemCount'
  BY <1>1 DEF MemInv, MemTypes, MemSlabs, MemLock, MemCount, Memory!At
<1>3. Memory!Accounted'
  BY <1>1 DEF MemInv, Memory!Accounted, Memory!Bytes, Memory!Had, Memory!Taken, Memory!InHand, Memory!Total
<1>4. \A c \in Clients : ClientOK(c)' /\ SlabOK(c)'
  BY <1>1 DEF MemInv, ClientOK, SlabOK, Memory!At, Memory!Held, Building, InReserve, Registered
<1> QED
  BY <1>2, <1>3, <1>4 DEF MemInv

\* Nobody has anything at first.
LEMMA MemInit == ASSUME Memory!WellFormed, Memory!Init PROVE MemInv
<1> DEFINE s0 == CHOOSE s \in BlockSizes : TRUE
<1>1. s0 \in BlockSizes /\ Reserve \in Nat /\ Memory!NoOne \notin Clients /\ s0 \in Nat
  BY MemSizes
<1>2. bm_cl = [c \in Clients |-> [pc |-> "out", size |-> s0, mode |-> "slab",
                                reserved |-> Memory!None, cached |-> Memory!None, need |-> 0, have |-> {}]]
  BY DEF Memory!Init
<1> HIDE DEF s0
<1>3. Memory!None \in [Memory!Modes -> Nat] /\ "slab" \in Memory!Modes
  BY DEF Memory!None, Memory!Modes
<1>4. bm_cl \in [Clients -> Client]
  BY <1>1, <1>2, <1>3 DEF Client
<1>5. \A c \in Clients : /\ bm_cl[c].pc = "out" /\ bm_cl[c].size = s0 /\ bm_cl[c].reserved = Memory!None /\ bm_cl[c].cached = Memory!None
                         /\ bm_cl[c].need = 0 /\ bm_cl[c].have = {}
  BY <1>2
<1>6. MemTypes
  BY <1>3, <1>4, <1>5 DEF MemTypes, Memory!Init, Memory!At
<1>7. MemSlabs /\ MemLock
  BY <1>1, <1>5 DEF MemSlabs, MemLock, Locked, Memory!Init
<1>8. MemCount
  <2>1. {c \in Clients : bm_cl[c].pc \in Registered} = {}
    BY <1>5 DEF Registered
  <2> QED
    BY <2>1, FS_EmptySet DEF MemCount, Memory!Init
<1>9. Memory!Accounted
  <2> SUFFICES ASSUME NEW m \in Memory!Modes
               PROVE  bm_allocated[m] = Memory!Bytes(m) /\ bm_out[m] = Memory!Bytes(m) + Memory!Total([c \in Clients |-> Memory!Taken(c, m)])
    BY DEF Memory!Accounted
  <2>1. Memory!None[m] = 0
    BY DEF Memory!None
  <2>2. \A c \in Clients : Memory!Had(c, m) = 0 /\ Memory!Taken(c, m) = 0
    <3>1. s0 * (0 + 0) = 0
      BY <1>1
    <3> QED
      BY <1>5, <2>1, <3>1 DEF Memory!Had, Memory!Taken, Memory!InHand, Memory!After
  <2>3. Memory!Total([c \in Clients |-> Memory!Had(c, m)]) = 0
    <3> DEFINE f == [c \in Clients |-> Memory!Had(c, m)]
    <3>1. f \in [Clients -> Nat] /\ \A c \in Clients : f[c] = 0
      BY <2>2
    <3> HIDE DEF f
    <3>2. Memory!Total(f) = 0
      BY <3>1, MemTotalNone
    <3> QED
      BY <3>2 DEF f
  <2>4. Memory!Total([c \in Clients |-> Memory!Taken(c, m)]) = 0
    <3> DEFINE f == [c \in Clients |-> Memory!Taken(c, m)]
    <3>1. f \in [Clients -> Nat] /\ \A c \in Clients : f[c] = 0
      BY <2>2
    <3> HIDE DEF f
    <3>2. Memory!Total(f) = 0
      BY <3>1, MemTotalNone
    <3> QED
      BY <3>2 DEF f
  <2>5. bm_allocated[m] = 0 /\ bm_out[m] = 0
    BY <2>1 DEF Memory!Init
  <2> QED
    BY <2>3, <2>4, <2>5 DEF Memory!Bytes
<1>10. \A c \in Clients : ClientOK(c) /\ SlabOK(c)
  BY <1>5 DEF ClientOK, SlabOK, Memory!At, Building, InReserve, Registered
<1> QED
  BY <1>6, <1>7, <1>8, <1>9, <1>10 DEF MemInv

\* Every step keeps it.
LEMMA MemStep == ASSUME Memory!WellFormed, MemInv, [Memory!Next]_(Memory!vars) PROVE MemInv'
<1>1. CASE UNCHANGED Memory!vars
  BY <1>1 DEF Memory!vars, MemInv, MemTypes, MemSlabs, MemLock, MemCount, Memory!Accounted, Memory!Bytes, Memory!Had, Memory!Taken, Memory!InHand, Memory!Total,
              ClientOK, SlabOK, Memory!At, Memory!Held
<1>2. CASE Memory!Exit
  BY <1>2, MemExit
<1>3. ASSUME NEW c \in Clients, Memory!Start(c) \/ Memory!Create(c) \/ Memory!Use(c) \/ Memory!Destroy(c) \/ Memory!Leave(c)
      PROVE  MemMoves(c)
  <2>1. CASE Memory!Start(c)
    BY <2>1, MemStart
  <2>2. CASE Memory!DmIo(c) \/ Memory!Lock(c) \/ Memory!Cache(c) \/ Memory!Unlock(c)
    BY <2>2, MemCreate
  <2>3. CASE Memory!Make(c)
    BY <2>3, MemMake
  <2>4. CASE Memory!ReserveOne(c)
    <3>1. CASE Memory!Alloc(c, FALSE, "reserve_count")
      BY <2>4, <3>1, MemAlloc DEF Memory!ReserveOne
    <3>2. CASE bm_cl' = [bm_cl EXCEPT ![c].pc = "rest"] /\ UNCHANGED <<Memory!Slabs, bm_clients_lock, Memory!Memory, bm_client_count>>
      BY <2>4, <3>2, MemEnds DEF Memory!ReserveOne
    <3> QED
      BY <2>4, <3>1, <3>2 DEF Memory!ReserveOne
  <2>5. CASE Memory!ReserveCount(c) \/ Memory!GrowCount(c)
    BY <2>5, MemCountUp
  <2>6. CASE Memory!Register(c) \/ Memory!Delist(c)
    BY <2>6, MemListed
  <2>7. CASE Memory!Grow(c)
    BY <2>7, MemAlloc DEF Memory!Grow
  <2>8. ASSUME NEW m \in Memory!Modes, Memory!Lend(c, m) \/ Memory!PutBack(c, m) PROVE MemMoves(c)
    BY <2>8, MemLend
  <2>9. ASSUME NEW m \in Memory!Modes, Memory!FreeBuffer(c, m) \/ Memory!FreeReserved(c, m) PROVE MemMoves(c)
    BY <2>9, MemCountDown
  <2>10. CASE Memory!FreeData(c)
    BY <2>10, MemFree
  <2>11. CASE Memory!Destroy(c) \/ Memory!Gone(c)
    BY <2>11, MemEnds
  <2> QED
    BY <1>3, <2>1, <2>2, <2>3, <2>4, <2>5, <2>6, <2>7, <2>8, <2>9, <2>10, <2>11 DEF Memory!Create, Memory!Use, Memory!Leave
<1> QED
  BY <1>1, <1>2, <1>3, MemKept DEF Memory!Next

\* What the invariant says of the counters, the caches, the clients that are
\* gone and the reserve.
LEMMA MemMeans ==
    ASSUME Memory!WellFormed, MemInv
    PROVE  Memory!TypeOK /\ Memory!Accounted /\ Memory!CachesShared /\ Memory!NothingLeft /\ Memory!ReserveBack
<1>1. \A c \in Clients : /\ bm_cl[c] \in Client /\ ClientOK(c) /\ SlabOK(c)
                         /\ bm_cl[c].size \in BlockSizes /\ bm_cl[c].need \in 0..Reserve /\ Reserve \in Nat
                         /\ bm_cl[c].reserved \in [Memory!Modes -> Nat] /\ bm_cl[c].cached \in [Memory!Modes -> Nat]
  BY MemAt
<1>2. \A m \in Memory!Modes : /\ [c \in Clients |-> Memory!Had(c, m)] \in [Clients -> Nat]
                       /\ [c \in Clients |-> Memory!Taken(c, m)] \in [Clients -> Nat]
  BY MemAt
<1>3. Memory!Accounted
  BY DEF MemInv
<1>4. \A f \in [Clients -> Nat] : Memory!Total(f) \in Nat
  <2> SUFFICES ASSUME NEW f \in [Clients -> Nat] PROVE Memory!Total(f) \in Nat
    OBVIOUS
  <2>1. CASE Clients = {}
    <3>1. \A c \in Clients : f[c] = 0
      BY <2>1
    <3>2. Memory!Total(f) = 0
      BY <3>1, MemTotalNone
    <3> QED
      BY <3>2
  <2>2. ASSUME NEW c \in Clients PROVE Memory!Total(f) \in Nat
    BY <2>2, MemTotalChange
  <2> QED
    BY <2>1, <2>2
<1>5. Memory!TypeOK
  <2>1. bm_caches \subseteq Memory!Small /\ bm_clients_lock \in Clients \cup {Memory!NoOne}
    BY DEF MemInv, MemSlabs, MemLock
  <2>2. \A m \in Memory!Modes : bm_allocated[m] >= 0 /\ bm_out[m] >= bm_allocated[m]
    <3> SUFFICES ASSUME NEW m \in Memory!Modes PROVE bm_allocated[m] >= 0 /\ bm_out[m] >= bm_allocated[m]
      OBVIOUS
    <3>1. Memory!Bytes(m) \in Nat /\ Memory!Total([c \in Clients |-> Memory!Taken(c, m)]) \in Nat
      BY <1>2, <1>4 DEF Memory!Bytes
    <3>2. bm_allocated[m] = Memory!Bytes(m) /\ bm_out[m] = Memory!Bytes(m) + Memory!Total([c \in Clients |-> Memory!Taken(c, m)])
      BY <1>3 DEF Memory!Accounted
    <3>3. \A a, b \in Nat : a >= 0 /\ a + b >= a
      OBVIOUS
    <3> QED
      BY <3>1, <3>2, <3>3
  <2>3. bm_client_count \in 0..Cardinality(Clients)
    <3> DEFINE L == {c \in Clients : bm_cl[c].pc \in Registered}
    <3>1. IsFiniteSet(Clients) /\ L \subseteq Clients
      BY MemFinite
    <3>2. Cardinality(L) \in Nat /\ Cardinality(Clients) \in Nat /\ Cardinality(L) <= Cardinality(Clients)
      <4> HIDE DEF L
      <4> QED
        BY <3>1, FS_Subset, FS_CardinalityType
    <3> QED
      BY <3>2 DEF MemInv, MemCount
  <2>4. \A c \in Clients, m \in Memory!Modes : bm_cl[c].reserved[m] >= 0 /\ bm_cl[c].cached[m] >= 0
    BY <1>1
  <2> QED
    BY <1>1, <2>1, <2>2, <2>3, <2>4, MemNumber DEF Memory!TypeOK
<1>6. Memory!CachesShared
  <2>1. \A s \in BlockSizes : bm_made[s] <= 1
    BY DEF MemInv, MemSlabs
  <2>2. ASSUME NEW c \in Clients, bm_cl[c].size \in Memory!Small,
               \/ Memory!InHand(c) \/ bm_cl[c].pc \in {"reserve", "up"}
               \/ bm_cl[c].reserved # Memory!None \/ bm_cl[c].cached # Memory!None
        PROVE  bm_cl[c].size \in bm_caches
    <3>1. bm_cl[c].pc \in {"out"} \cup Building \cup InReserve \cup Registered \cup Ending
      BY <1>1 DEF Client
    <3> QED
      BY <1>1, <2>2, <3>1 DEF ClientOK, SlabOK, Memory!InHand, Memory!After, Memory!At, InReserve, Registered, Building, Ending
  <2> QED
    BY <2>1, <2>2 DEF Memory!CachesShared
<1>7. Memory!NothingLeft
  <2>1. \A c \in Clients : Memory!At(c, "out") => bm_cl[c].have = {}
    BY <1>1 DEF ClientOK
  <2>2. ASSUME bm_module = "unloaded" PROVE bm_allocated = Memory!None /\ bm_out = Memory!None /\ bm_client_count = 0
    <3>1. \A c \in Clients : Memory!At(c, "out")
      BY <2>2 DEF MemInv, MemTypes
    <3>2. \A c \in Clients : bm_cl[c].reserved = Memory!None /\ bm_cl[c].cached = Memory!None
      BY <1>1, <3>1 DEF ClientOK, Memory!At, Registered
    <3>3. ASSUME NEW m \in Memory!Modes PROVE bm_allocated[m] = 0 /\ bm_out[m] = 0
      <4>1. \A c \in Clients : Memory!Had(c, m) = 0 /\ Memory!Taken(c, m) = 0
        <5>1. Memory!None[m] = 0 /\ \A x \in Nat : x * (0 + 0) = 0
          BY DEF Memory!None
        <5>2. \A c \in Clients : bm_cl[c].size \in Nat
          BY MemAt
        <5> QED
          BY <3>1, <3>2, <5>1, <5>2 DEF Memory!Had, Memory!Taken, Memory!InHand, Memory!At, Memory!After
      <4> DEFINE f == [c \in Clients |-> Memory!Had(c, m)]
                 g == [c \in Clients |-> Memory!Taken(c, m)]
      <4>2. /\ f \in [Clients -> Nat] /\ g \in [Clients -> Nat]
            /\ \A c \in Clients : f[c] = 0 /\ g[c] = 0
        BY <4>1
      <4>3. Memory!Bytes(m) = Memory!Total(f) /\ Memory!Total([c \in Clients |-> Memory!Taken(c, m)]) = Memory!Total(g)
        BY DEF Memory!Bytes
      <4> HIDE DEF f, g
      <4>4. Memory!Total(f) = 0 /\ Memory!Total(g) = 0
        BY <4>2, MemTotalNone
      <4> QED
        BY <1>3, <4>3, <4>4 DEF Memory!Accounted
    <3>4. bm_allocated = Memory!None /\ bm_out = Memory!None
      <4>1. bm_allocated \in [Memory!Modes -> Int] /\ bm_out \in [Memory!Modes -> Int]
        BY DEF MemInv, MemTypes
      <4> QED
        BY <3>3, <4>1 DEF Memory!None
    <3>5. bm_client_count = 0
      <4>1. {c \in Clients : bm_cl[c].pc \in Registered} = {}
        BY <3>1 DEF Memory!At, Registered
      <4> QED
        BY <4>1, FS_EmptySet DEF MemInv, MemCount
    <3> QED
      BY <3>4, <3>5
  <2> QED
    BY <2>1, <2>2 DEF Memory!NothingLeft
<1>8. Memory!ReserveBack
  <2> SUFFICES ASSUME NEW c \in Clients, Memory!At(c, "drop"), Memory!Held(c) = 0 PROVE bm_cl[c].need = 0
    BY DEF Memory!ReserveBack
  <2>1. bm_cl[c].need <= Memory!Held(c)
    BY <1>1 DEF ClientOK, Memory!At, Registered
  <2> QED
    BY <1>1, <2>1
<1> QED
  BY <1>3, <1>5, <1>6, <1>7, <1>8
----------------------------------------------------------------------------
(* The suite: each module keeps its invariant, the others stay.            *)

SuiteInv == CharInv /\ WorkInv /\ DiskInv /\ AgeInv /\ MemInv

suiteVars ==
  <<program, charsState, deferredState, diskState, ageingState, memoryState>>

\* A step of the suite is one of each module, or leaves it.
LEMMA SuiteSteps ==
    ASSUME [SuiteNext]_suiteVars
    PROVE  /\ [Chars!Next]_(Chars!vars) /\ [Deferred!Next]_(Deferred!vars)
           /\ [Disk!Next]_(Disk!vars) /\ [Ageing!Next]_(Ageing!vars)
           /\ [Memory!Next]_(Memory!vars)
<1> USE DEF suiteVars, SuiteNext
<1>1. [Chars!Next]_(Chars!vars) /\ [Deferred!Next]_(Deferred!vars)
  BY DEF charsState, deferredState, Chars!vars, Deferred!vars
<1>2. [Disk!Next]_(Disk!vars) /\ [Ageing!Next]_(Ageing!vars)
  BY DEF diskState, ageingState, Disk!vars, Ageing!vars
<1>3. [Memory!Next]_(Memory!vars)
  BY DEF memoryState, Memory!vars
<1> QED
  BY <1>1, <1>2, <1>3

\* All modules start with their invariants.
LEMMA SuiteStart == ASSUME SuiteInit PROVE SuiteInv
  BY SuiteAssumption, CharStart, WorkStart, DiskStart, AgeStart, MemInit DEF SuiteInit, SuiteInv

\* A step of the suite keeps them, and the worker frees nothing too young.
LEMMA SuiteStep ==
    ASSUME SuiteInv, [SuiteNext]_suiteVars
    PROVE  SuiteInv' /\ Ageing!NotTooYoung
<1>1. CharInv' /\ WorkInv' /\ DiskInv'
  BY SuiteAssumption, SuiteSteps, CharStep, WorkStep, DiskStep DEF SuiteInv
<1>2. AgeInv' /\ Ageing!NotTooYoung
  BY SuiteAssumption, SuiteSteps, AgeStep DEF SuiteInv
<1>3. MemInv'
  BY SuiteAssumption, SuiteSteps, MemStep DEF SuiteInv
<1> QED
  BY <1>1, <1>2, <1>3 DEF SuiteInv

\* What the invariants mean for the modules.
LEMMA SuiteMeans ==
    ASSUME SuiteInv
    PROVE  NothingDangles /\ MemoryAccounted /\ Ageing!NoOldLeft
<1>1. NothingDangles
  BY SuiteAssumption, CharMeans, WorkMeans, DiskMeans DEF SuiteInv, NothingDangles
<1>2. Ageing!TypeOK /\ Ageing!NoOldLeft
  BY SuiteAssumption, AgeMeans DEF SuiteInv
<1>3. MemoryAccounted
  BY <1>2, SuiteAssumption, MemMeans DEF SuiteInv, MemoryAccounted
<1> QED
  BY <1>1, <1>2, <1>3

(***************************************************************************)
(* A number or an open file of the character drivers leads to a driver     *)
(* that is in the kernel, no tasklet outlives its module, and requests     *)
(* find the memory of the RAM disk until the last was served, for any      *)
(* number of drivers, tasks, modules, loads, sizes and requests.           *)
(***************************************************************************)
THEOREM KernelSound == SuiteSpec => []NothingDangles
<1>1. SuiteInit => SuiteInv
  BY SuiteStart
<1>2. SuiteInv /\ [SuiteNext]_suiteVars => SuiteInv'
  BY SuiteStep
<1>3. SuiteInv => NothingDangles
  BY SuiteMeans
<1> QED
  BY <1>1, <1>2, <1>3, PTL DEF SuiteSpec, suiteVars

(***************************************************************************)
(* The counters of dm-bufio are what its clients have, clients share a     *)
(* slab cache, those that are gone keep nothing and the reserve comes back *)
(* whole, for any number of clients, block sizes and reserved buffers.     *)
(***************************************************************************)
THEOREM MemoryHolds == SuiteSpec => []MemoryAccounted
<1>1. SuiteInit => SuiteInv
  BY SuiteStart
<1>2. SuiteInv /\ [SuiteNext]_suiteVars => SuiteInv'
  BY SuiteStep
<1>3. SuiteInv => MemoryAccounted
  BY SuiteMeans
<1> QED
  BY <1>1, <1>2, <1>3, PTL DEF SuiteSpec, suiteVars

(***************************************************************************)
(* The age worker of dm-bufio frees nothing before its time and leaves     *)
(* nothing old, through a wrap of jiffies, for any HZ, any ages and any    *)
(* number of buffers, as long as an age in jiffies and the time the        *)
(* machine runs fit into half of an unsigned long.                         *)
(***************************************************************************)
THEOREM BuffersAge == SuiteSpec => AgesRight
<1>1. SuiteInit => SuiteInv
  BY SuiteStart
<1>2. SuiteInv /\ [SuiteNext]_suiteVars => SuiteInv' /\ Ageing!NotTooYoung
  BY SuiteStep
<1>3. SuiteInv => Ageing!NoOldLeft
  BY SuiteMeans
<1> QED
  BY <1>1, <1>2, <1>3, PTL DEF SuiteSpec, suiteVars, AgesRight
=============================================================================

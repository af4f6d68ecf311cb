------------------------------- MODULE MsgPair -------------------------------
(***************************************************************************)
(* 01_msg.cpp of src/ch08/t: a child sends to a System V message queue,    *)
(* its parent receives, and Ctrl-C tells both to stop.  The handler only   *)
(* clears a flag, which is tested before a call that may block: a signal   *)
(* that comes between the two is lost on the parent, and what ends it then *)
(* is the child, which removes the queue under it, unless its id is 0: the *)
(* first queue of a system has that id, and both take it for an error.     *)
(***************************************************************************)
EXTENDS Integers

CONSTANTS
    FirstIds,       \* ids msgget may give to the first queue: 0 if the system
                    \*   has had none before
    Room,           \* messages a queue has room for
    MaxInterrupts   \* bound: how often Ctrl-C is pressed

VARIABLES
    key,            \* the id of the queue msgget finds, or NoQueue
    next_id,
    msgs,           \* messages in it
    pc, qid, _running,
    pending,        \* processes a signal was sent to that have not taken it
    interrupts

vars == <<key, next_id, msgs, pc, qid, _running, pending, interrupts>>

Queue == <<key, next_id, msgs>>
Signals == <<_running, pending, interrupts>>
Procs == {"parent", "child"}
NoQueue == -1
WellFormed == FirstIds \subseteq Nat

Init ==
    /\ key = NoQueue /\ next_id \in FirstIds /\ msgs = 0
    /\ pc = [p \in Procs |-> "get"] /\ qid = [p \in Procs |-> NoQueue]
    /\ _running = [p \in Procs |-> TRUE] /\ pending = {} /\ interrupts = 0

Goto(p, label) == pc' = [pc EXCEPT ![p] = label]

\* an id that was removed does not come back
There(p) == key = qid[p]

MsgGet(p) ==
    /\ pc[p] = "get"
    /\ IF key = NoQueue
       THEN /\ key' = next_id /\ next_id' = next_id + 1 /\ msgs' = 0
       ELSE UNCHANGED Queue
    /\ qid' = [qid EXCEPT ![p] = key']
    /\ Goto(p, "test")
    /\ UNCHANGED Signals

Test(p) ==
    /\ pc[p] = "test"
    /\ Goto(p, IF ~_running[p] THEN "rmid" ELSE IF p = "child" THEN "send" ELSE "receive")
    /\ UNCHANGED <<Queue, qid, Signals>>

\* IPC_NOWAIT: a full queue, too, is an error, and the queue stays.
MsgSnd ==
    /\ pc["child"] = "send"
    /\ IF There("child") /\ msgs < Room
       THEN msgs' = msgs + 1 /\ Goto("child", "sleep")
       ELSE Goto("child", "failed") /\ UNCHANGED msgs
    /\ UNCHANGED <<key, next_id, qid, Signals>>

Wake ==     \* a second later
    /\ pc["child"] = "sleep" /\ Goto("child", "test")
    /\ UNCHANGED <<Queue, qid, Signals>>

\* Blocks on an empty queue until something comes, or the queue goes.
MsgRcv ==
    /\ pc["parent"] \in {"receive", "blocked"}
    /\ IF ~There("parent") THEN Goto("parent", "failed") /\ UNCHANGED msgs
       ELSE IF msgs > 0 THEN msgs' = msgs - 1 /\ Goto("parent", "test")
       ELSE pc["parent"] = "receive" /\ Goto("parent", "blocked") /\ UNCHANGED msgs
    /\ UNCHANGED <<key, next_id, qid, Signals>>

\* fault: only the parent removes the queue
ByParent(p) == p = "parent"
Valid(p) == qid[p] > 0

\* An id that is gone is an error nobody looks at, and 0 is none.
Rmid(p) ==
    /\ pc[p] = "rmid"
    /\ IF Valid(p) /\ There(p) THEN key' = NoQueue /\ msgs' = 0
       ELSE UNCHANGED <<key, msgs>>
    /\ Goto(p, "done")
    /\ UNCHANGED <<next_id, qid, Signals>>

Ended(p) == pc[p] \in {"done", "failed"}

\* Ctrl-C: the terminal sends the signal to both.
SigInt ==
    /\ interrupts < MaxInterrupts
    /\ interrupts' = interrupts + 1
    /\ pending' = {p \in Procs : ~Ended(p)}
    /\ UNCHANGED <<Queue, pc, qid, _running>>

\* The handler, which also ends the call its process waits in.
Handler(p) ==
    /\ p \in pending
    /\ pending' = pending \ {p}
    /\ _running' = [_running EXCEPT ![p] = FALSE]
    /\ IF pc[p] \in {"blocked", "sleep"} THEN Goto(p, "test") ELSE UNCHANGED pc
    /\ UNCHANGED <<Queue, qid, interrupts>>

\* A process takes a signal before it goes on.
Step(p) ==
    \/ Handler(p)
    \/ /\ p \notin pending
       /\ \/ MsgGet(p) \/ Test(p) \/ Rmid(p)
          \/ p = "child" /\ (MsgSnd \/ Wake)
          \/ p = "parent" /\ MsgRcv

Next == SigInt \/ \E p \in Procs : Step(p)

Spec == Init /\ [][Next]_vars

----------------------------------------------------------------------------
(* A parent the signal was lost on, and whose queue nobody will remove.    *)
LeftWaiting == pc["parent"] = "blocked" /\ (pc["child"] = "failed" \/ qid["parent"] = 0)

(***************************************************************************)
(* Ctrl-C ends both, wherever it finds them, but for a parent that had     *)
(* tested the flag and was not yet in msgrcv, if the child was gone before *)
(* (it may fail on a full queue) or leaves the queue 0 in place.           *)
(***************************************************************************)
CtrlCEnds ==
    interrupts > 0 ~> Ended("child") /\ (Ended("parent") \/ LeftWaiting)

(***************************************************************************)
(* When both have ended no queue is left in the system, whichever of them  *)
(* made it and whoever was first, except the queue 0.                      *)
(***************************************************************************)
QueueRemoved == (\A p \in Procs : Ended(p)) => key \in {NoQueue, 0}
=============================================================================

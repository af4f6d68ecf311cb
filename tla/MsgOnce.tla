------------------------------- MODULE MsgOnce -------------------------------
(***************************************************************************)
(* ipc_mq.c of src/ch08/t, started several times: every instance opens the *)
(* queue of the same key, sends one line, receives whichever line is first *)
(* and removes the queue, also under those that have not received yet.     *)
(***************************************************************************)
EXTENDS Integers, Sequences, FiniteSets

CONSTANTS
    Procs,
    Room            \* messages a queue has room for

VARIABLES
    key,            \* the queue the key stands for, or NoQueue
    made,           \* queues there have been
    msgs,           \* whose lines are in the queue
    pc, qid,
    got             \* whose line an instance has

vars == <<key, made, msgs, pc, qid, got>>

NoQueue == 0
NoLine == "none"
WellFormed == IsFiniteSet(Procs) /\ NoLine \notin Procs

Init ==
    /\ key = NoQueue /\ made = 0 /\ msgs = <<>>
    /\ pc = [p \in Procs |-> "get"] /\ qid = [p \in Procs |-> NoQueue]
    /\ got = [p \in Procs |-> NoLine]

Goto(p, label) == pc' = [pc EXCEPT ![p] = label]
There(p) == key = qid[p]

MsgGet(p) ==
    /\ pc[p] = "get"
    /\ IF key = NoQueue
       THEN /\ made' = made + 1 /\ key' = made' /\ msgs' = <<>>
       ELSE UNCHANGED <<key, made, msgs>>
    /\ qid' = [qid EXCEPT ![p] = key']
    /\ Goto(p, "input")
    /\ UNCHANGED got

\* fgets: a line, or the end of the input, which ends the program
Input(p) ==
    /\ pc[p] = "input"
    /\ Goto(p, "send") \/ Goto(p, "no_input")
    /\ UNCHANGED <<key, made, msgs, qid, got>>

MsgSnd(p) ==
    /\ pc[p] = "send"
    /\ IF There(p)
       THEN Len(msgs) < Room /\ msgs' = Append(msgs, p) /\ Goto(p, "receive")
       ELSE Goto(p, "failed") /\ UNCHANGED msgs
    /\ UNCHANGED <<key, made, qid, got>>

\* fault: the line stays in the queue
Peeked == msgs
\* fault: whoever reads takes everything
Drained == <<>>
Rest == Tail(msgs)

\* any type, so the first there is
MsgRcv(p) ==
    /\ pc[p] = "receive"
    /\ IF There(p)
       THEN /\ msgs # <<>>
            /\ got' = [got EXCEPT ![p] = Head(msgs)] /\ msgs' = Rest
            /\ Goto(p, "remove")
       ELSE Goto(p, "failed") /\ UNCHANGED <<got, msgs>>
    /\ UNCHANGED <<key, made, qid>>

MsgCtl(p) ==
    /\ pc[p] = "remove"
    /\ IF There(p) THEN key' = NoQueue /\ msgs' = <<>> /\ Goto(p, "done")
       ELSE Goto(p, "failed") /\ UNCHANGED <<key, msgs>>
    /\ UNCHANGED <<made, qid, got>>

Run(p) == MsgGet(p) \/ MsgSnd(p) \/ MsgRcv(p) \/ MsgCtl(p)

Next == \E p \in Procs : Run(p) \/ Input(p)

Spec == Init /\ [][Next]_vars

----------------------------------------------------------------------------
Ended(p) == pc[p] \in {"done", "failed", "no_input"}

(***************************************************************************)
(* Nobody waits for a message in vain: whoever does has put one in, so     *)
(* that there is one for everybody, or the queue is removed.               *)
(***************************************************************************)
OneForEach == \A p \in Procs : pc[p] = "receive" /\ There(p) => msgs # <<>>

(***************************************************************************)
(* No line is read twice.                                                  *)
(***************************************************************************)
ReadOnce ==
    \A p, q \in Procs : got[p] = got[q] /\ got[p] # NoLine => p = q

(***************************************************************************)
(* When all have ended the queue is left only by those that had no input.  *)
(***************************************************************************)
LeftByNoInput ==
    (\A p \in Procs : Ended(p)) /\ key # NoQueue =>
        \A p \in Procs : There(p) => pc[p] = "no_input"
=============================================================================

------------------------------- MODULE PcPipe -------------------------------
(***************************************************************************)
(* The producer-consumer programs of src/ch08/t with a pipe.  In           *)
(* producer_consumer_1.c the parent produces and its one child consumes;   *)
(* in producer_consumer_2.c the parent forks all producers and consumers   *)
(* and waits.  A child inherits both ends of the pipe, a read returns 0    *)
(* only when no process has the write end any more, and a write without a  *)
(* read end ends the writer with SIGPIPE.                                  *)
(*                                                                         *)
(* Records of 5 bytes are written and read whole: a write up to PIPE_BUF   *)
(* is atomic, and every read asks for one record.                          *)
(***************************************************************************)
EXTENDS Integers, Sequences, FiniteSets

CONSTANTS
    Parent,         \* the process that forks the others
    Children,       \* sequence of the processes it forks, in order
    Producers,      \* the processes that produce: the parent or children
    Rounds,         \* records of one producer
    PipeSize,       \* records the pipe can hold
    ForkMayFail     \* producer_consumer_2.c does not look at a failed fork

VARIABLES
    pipe,       \* records in the pipe
    ends,       \* of a process: the ends it has open
    at, round,  \* of a process: where it is, records written
    forked,     \* children the parent has tried to fork
    sold        \* records read

vars == <<pipe, ends, at, round, forked, sold>>

Procs == {Parent} \cup {Children[i] : i \in DOMAIN Children}
Consumers == Procs \ (Producers \cup {Parent})
Goods == Producers \X (1..Rounds)
Gone == {"over", "killed", "unborn"}

\* The children are different processes, and only they and the parent produce.
WellFormed ==
    /\ Children \in Seq(Procs \ {Parent})
    /\ \A i, j \in DOMAIN Children : Children[i] = Children[j] => i = j
    /\ Producers \subseteq Procs
    /\ Rounds \in Nat /\ PipeSize \in Nat

Init ==
    /\ pipe = <<>>
    /\ ends = [q \in Procs |-> IF q = Parent THEN {"r", "w"} ELSE {}]
    /\ at = [q \in Procs |-> IF q = Parent THEN "fork" ELSE "unborn"]
    /\ round = [q \in Producers |-> 0]
    /\ forked = 0
    /\ sold = {}

Go(q, l) == at' = [at EXCEPT ![q] = l]
Has(e) == \E q \in Procs : e \in ends[q]
Closed(q, es) == [ends EXCEPT ![q] = @ \ es]

----------------------------------------------------------------------------
(* The parent.                                                             *)

Fork ==
    /\ at[Parent] = "fork" /\ forked < Len(Children)
    /\ forked' = forked + 1
    /\ \/ /\ at' = [at EXCEPT ![Children[forked + 1]] = "close"]
          /\ ends' = [ends EXCEPT ![Children[forked + 1]] = ends[Parent]]
       \/ /\ ForkMayFail
          /\ UNCHANGED <<at, ends>>
    /\ UNCHANGED <<pipe, round, sold>>

\* fault: the parent keeps the ends of the pipe it does not use
KeepEnds == {}
\* what the parent closes after the forks: both ends, or the one it does not use
Unused == IF Parent \in Producers THEN {"r"} ELSE {"r", "w"}

ParentCloses ==
    /\ at[Parent] = "fork" /\ forked = Len(Children)
    /\ ends' = Closed(Parent, Unused)
    /\ Go(Parent, IF Parent \in Producers THEN "work" ELSE "wait")
    /\ UNCHANGED <<pipe, round, forked, sold>>

\* wait for every child there is
ParentWaits ==
    /\ at[Parent] = "wait"
    /\ \A q \in Procs \ {Parent} : at[q] \in Gone
    /\ Go(Parent, "over")
    /\ ends' = Closed(Parent, {"r", "w"})
    /\ UNCHANGED <<pipe, round, forked, sold>>

----------------------------------------------------------------------------
ForeignEnd(q) == IF q \in Producers THEN "r" ELSE "w"

ChildCloses(q) ==
    /\ at[q] = "close"
    /\ ends' = Closed(q, {ForeignEnd(q)})
    /\ Go(q, "work")
    /\ UNCHANGED <<pipe, round, forked, sold>>

\* fault: a round that wrote its record is not counted
SameRound(p) == round[p]
NextRound(p) == round[p] + 1

Write(p) ==
    /\ at[p] = "work" /\ round[p] < Rounds
    /\ Has("r") /\ Len(pipe) < PipeSize
    /\ pipe' = Append(pipe, <<p, round[p] + 1>>)
    /\ round' = [round EXCEPT ![p] = NextRound(p)]
    /\ UNCHANGED <<ends, at, forked, sold>>

\* SIGPIPE
WriteKilled(p) ==
    /\ at[p] = "work" /\ round[p] < Rounds /\ ~Has("r")
    /\ Go(p, "killed")
    /\ ends' = Closed(p, {"r", "w"})
    /\ UNCHANGED <<pipe, round, forked, sold>>

LastClosed == {"w"}

ProducerEnds(p) ==
    /\ at[p] = "work" /\ round[p] = Rounds
    /\ ends' = Closed(p, LastClosed)
    /\ Go(p, IF p = Parent THEN "wait" ELSE "over")
    /\ UNCHANGED <<pipe, round, forked, sold>>

Read(c) ==
    /\ at[c] = "work" /\ pipe # <<>>
    /\ sold' = sold \cup {Head(pipe)}
    /\ pipe' = Tail(pipe)
    /\ UNCHANGED <<ends, at, round, forked>>

\* fault: an empty pipe is taken for the end of the file
PipeEmpty == pipe = <<>>
AtEof == pipe = <<>> /\ ~Has("w")

ConsumerEnds(c) ==
    /\ at[c] = "work" /\ AtEof
    /\ ends' = Closed(c, {"r"})
    /\ Go(c, "over")
    /\ UNCHANGED <<pipe, round, forked, sold>>

Producer(p) == Write(p) \/ WriteKilled(p) \/ ProducerEnds(p)
Consumer(c) == Read(c) \/ ConsumerEnds(c)

Process(q) ==
    \/ ChildCloses(q)
    \/ q \in Producers /\ Producer(q)
    \/ q \in Consumers /\ Consumer(q)

ParentStep == Fork \/ ParentCloses \/ ParentWaits

Next == ParentStep \/ \E q \in Procs : Process(q)

Spec == Init /\ [][Next]_vars

----------------------------------------------------------------------------
(***************************************************************************)
(* Types; a process has an end of the pipe only as long as it uses it, and *)
(* the pipe holds no more than it can.                                     *)
(***************************************************************************)
TypeOK ==
    /\ pipe \in Seq(Goods) /\ Len(pipe) <= PipeSize
    /\ \A q \in Procs : at[q] \in {"over", "killed", "unborn"} => ends[q] = {}
    /\ \A q \in Procs : at[q] = "work" =>
           ends[q] = {IF q \in Producers THEN "w" ELSE "r"}

(***************************************************************************)
(* The pipe implements the warehouse: every record is read once, by one of *)
(* the consumers.                                                          *)
(***************************************************************************)
Store == INSTANCE Warehouse WITH
    Capacity <- PipeSize, stock <- {pipe[i] : i \in DOMAIN pipe}, sold <- sold

ImplementsWarehouse == Store!Spec

(***************************************************************************)
(* No producer is killed and nothing is left in the pipe, unless there     *)
(* never was a consumer: a consumer leaves only when the pipe is empty and *)
(* no producer, not even one that has yet to close its copy of the write   *)
(* end, can write to it.                                                   *)
(***************************************************************************)
ConsumersStayToTheEnd ==
    (\E c \in Consumers : at[c] # "unborn") =>
        /\ \A p \in Producers : at[p] # "killed"
        /\ at[Parent] = "over" => pipe = <<>>

(***************************************************************************)
(* Every process ends (comment at producer_consumer_2.c:98: without        *)
(* closing both ends in main readers or writers would wait for ever).      *)
(***************************************************************************)
AllEnd == <>(\A q \in Procs : at[q] \in Gone)
============================================================================

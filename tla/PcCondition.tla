---------------------------- MODULE PcCondition ----------------------------
(***************************************************************************)
(* src/ch08/t/producer_consumer_5.c: one producer and one consumer with a  *)
(* queue of Work goods, a mutex and a condition variable.  The consumer    *)
(* waits for a signal before each look at the queue, whether there are     *)
(* goods or not; the producer makes up for it: it goes on signalling while *)
(* it is more than Lag goods ahead (10 in the program), and in the end     *)
(* until it finds no good left.  queue and the indices are also used       *)
(* without the mutex.                                                      *)
(***************************************************************************)
EXTENDS Integers, FiniteSets

CONSTANTS Work, Lag

VARIABLES
    queue,          \* 0 nothing yet, 1 produced, 2 consumed
    idx_p, idx_c,
    mutex,          \* who has it
    waiting,        \* the consumer is in pthread_cond_wait and not woken yet
    pp, pcons,      \* where the producer and the consumer are
    count           \* the producer's last scan found a good not consumed

vars == <<queue, idx_p, idx_c, mutex, waiting, pp, pcons, count>>

Items == 0..(Work - 1)
WellFormed == Work \in Nat /\ Lag \in Nat

Init ==
    /\ queue = [i \in Items |-> 0]
    /\ idx_p = 0 /\ idx_c = 0
    /\ mutex = "nobody" /\ waiting = FALSE
    /\ pp = "loop" /\ pcons = "loop"
    /\ count = FALSE

\* pthread_cond_signal: nobody hears it unless the consumer waits
Signal == waiting' = FALSE

----------------------------------------------------------------------------
(* thread_producer                                                         *)

ProducerLoop ==
    /\ pp = "loop"
    /\ pp' = IF idx_p < Work THEN "lock" ELSE "scan"
    /\ idx_p' = IF idx_p < Work THEN idx_p ELSE 0
    /\ UNCHANGED <<queue, idx_c, mutex, waiting, pcons, count>>

ProducerLock ==
    /\ pp = "lock" /\ mutex = "nobody"
    /\ mutex' = "producer" /\ pp' = "produce"
    /\ UNCHANGED <<queue, idx_p, idx_c, waiting, pcons, count>>

\* the place is always empty ("produce exception" is not reached, see TypeOK)
Produce ==
    /\ pp = "produce"
    /\ queue' = [queue EXCEPT ![idx_p] = 1]
    /\ idx_p' = idx_p + 1
    /\ pp' = "signal"
    /\ UNCHANGED <<idx_c, mutex, waiting, pcons, count>>

ProducerSignal ==
    /\ pp = "signal"
    /\ Signal /\ pp' = "unlock"
    /\ UNCHANGED <<queue, idx_p, idx_c, mutex, pcons, count>>

ProducerUnlock ==
    /\ pp = "unlock"
    /\ mutex' = "nobody" /\ pp' = "urge"
    /\ UNCHANGED <<queue, idx_p, idx_c, waiting, pcons, count>>

\* fault: the producer does not mind how far it is ahead
NeverAhead == FALSE
TooFarAhead == idx_p - idx_c > Lag

\* while (idx_p - idx_c > Lag) pthread_cond_signal
ProducerUrge ==
    /\ pp = "urge"
    /\ IF TooFarAhead THEN Signal /\ UNCHANGED pp
       ELSE pp' = "loop" /\ UNCHANGED waiting
    /\ UNCHANGED <<queue, idx_p, idx_c, mutex, pcons, count>>

\* one turn of the scan for a good that is not consumed
ProducerScan ==
    /\ pp = "scan"
    /\ IF idx_p < Work /\ queue[idx_p] # 1
       THEN idx_p' = idx_p + 1 /\ UNCHANGED <<pp, count>>
       ELSE /\ count' = (idx_p < Work)
            /\ pp' = "scanned" /\ UNCHANGED idx_p
    /\ UNCHANGED <<queue, idx_c, mutex, waiting, pcons>>

\* fault: the producer signals once and leaves
LeaveAtOnce == "over"
AfterScan == IF count THEN "scan" ELSE "over"

ProducerScanned ==
    /\ pp = "scanned"
    /\ IF count THEN Signal ELSE UNCHANGED waiting
    /\ pp' = AfterScan
    /\ idx_p' = 0
    /\ UNCHANGED <<queue, idx_c, mutex, pcons, count>>

Producer ==
    \/ ProducerLoop \/ ProducerLock \/ Produce \/ ProducerSignal \/ ProducerUnlock
    \/ ProducerUrge \/ ProducerScan \/ ProducerScanned

----------------------------------------------------------------------------
(* thread_consumer                                                         *)

ConsumerLoop ==
    /\ pcons = "loop"
    /\ pcons' = IF idx_c < Work THEN "lock" ELSE "over"
    /\ UNCHANGED <<queue, idx_p, idx_c, mutex, waiting, pp, count>>

ConsumerLock ==
    /\ pcons = "lock" /\ mutex = "nobody"
    /\ mutex' = "consumer" /\ pcons' = "wait"
    /\ UNCHANGED <<queue, idx_p, idx_c, waiting, pp, count>>

\* pthread_cond_wait gives the mutex back and waits in one step
ConsumerWait ==
    /\ pcons = "wait"
    /\ mutex' = "nobody" /\ waiting' = TRUE /\ pcons' = "relock"
    /\ UNCHANGED <<queue, idx_p, idx_c, pp, count>>

\* it may wake up for no reason
Spurious ==
    /\ waiting
    /\ waiting' = FALSE
    /\ UNCHANGED <<queue, idx_p, idx_c, mutex, pp, pcons, count>>

\* the mutex is taken once more and given back at once
ConsumerWoken ==
    /\ pcons = "relock" /\ ~waiting /\ mutex = "nobody"
    /\ pcons' = "look"
    /\ UNCHANGED <<queue, idx_p, idx_c, mutex, waiting, pp, count>>

\* fault: the consumer takes whatever is there for a good
AnyGood == TRUE
IsGood == queue[idx_c] = 1

ConsumerLook ==
    /\ pcons = "look"
    /\ pcons' = IF IsGood THEN "consume" ELSE "loop"
    /\ UNCHANGED <<queue, idx_p, idx_c, mutex, waiting, pp, count>>

\* queue[idx_c++] = 2: the two stores in either order, seen by the producer
Consume ==
    /\ pcons = "consume"
    /\ \/ /\ queue' = [queue EXCEPT ![idx_c] = 2]
          /\ pcons' = "advance" /\ UNCHANGED idx_c
       \/ /\ idx_c' = idx_c + 1
          /\ pcons' = "store" /\ UNCHANGED queue
    /\ UNCHANGED <<idx_p, mutex, waiting, pp, count>>

ConsumeSecond ==
    /\ \/ /\ pcons = "advance"
          /\ idx_c' = idx_c + 1 /\ UNCHANGED queue
       \/ /\ pcons = "store"
          /\ queue' = [queue EXCEPT ![idx_c - 1] = 2] /\ UNCHANGED idx_c
    /\ pcons' = "loop"
    /\ UNCHANGED <<idx_p, mutex, waiting, pp, count>>

Consumer ==
    \/ ConsumerLoop \/ ConsumerLock \/ ConsumerWait \/ ConsumerWoken
    \/ ConsumerLook \/ Consume \/ ConsumeSecond

Next == Producer \/ Consumer \/ Spurious

Spec == Init /\ [][Next]_vars

----------------------------------------------------------------------------
(***************************************************************************)
(* Types; neither "produce exception" (87) nor a place beyond the queue is *)
(* ever reached, and the mutex has one holder.                             *)
(***************************************************************************)
TypeOK ==
    /\ queue \in [Items -> 0..2]
    /\ idx_p \in 0..Work /\ idx_c \in 0..Work
    /\ pp \in {"lock", "produce"} => idx_p < Work /\ queue[idx_p] = 0
    /\ pcons \in {"look", "consume"} => idx_c < Work
    /\ mutex = "producer" <=> pp \in {"produce", "signal", "unlock"}
    /\ mutex = "consumer" <=> pcons = "wait"

(***************************************************************************)
(* Goods are consumed once and in the order they were produced: what is    *)
(* left is what lies between the indices, even while the producer uses its *)
(* index to scan and although the consumer does not hold the mutex.        *)
(***************************************************************************)
InOrder ==
    \A i, j \in Items : i < j => queue[i] >= queue[j]

(***************************************************************************)
(* The queue implements the warehouse with place for Lag + 1 goods: the    *)
(* test for being too far ahead lets the producer be one good further      *)
(* ahead than it says, and a consumed good counts until it is stored so.   *)
(***************************************************************************)
Store == INSTANCE Warehouse WITH
    Goods <- Items, Capacity <- Lag + 2,
    stock <- {i \in Items : queue[i] = 1}, sold <- {i \in Items : queue[i] = 2}

ImplementsWarehouse == Store!Spec

(***************************************************************************)
(* Both threads end and main finds every good consumed ("success", 158),   *)
(* although every single signal may be lost: none is remembered for a      *)
(* consumer that does not wait yet.                                        *)
(***************************************************************************)
Success ==
    <>(pp = "over" /\ pcons = "over" /\ \A i \in Items : queue[i] = 2)
============================================================================

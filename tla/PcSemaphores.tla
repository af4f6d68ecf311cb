---------------------------- MODULE PcSemaphores ----------------------------
(***************************************************************************)
(* The producer-consumer programs of src/ch08/t with two counting          *)
(* semaphores, a mutex and a stack of slots: producer_consumer_4.c, whose  *)
(* main creates threads and joins them, and producer_consumer_3.c, whose   *)
(* main clones processes that share its memory and exits at once.  All     *)
(* threads get their number through one variable of main.                  *)
(***************************************************************************)
EXTENDS Integers, FiniteSets

CONSTANTS
    N,          \* pairs of a producer and a consumer
    Rounds,     \* goods of one producer
    Slots,      \* length of buf
    Joins       \* main waits for the threads (producer_consumer_4.c)

VARIABLES
    product, warehouse, mutex,  \* the semaphores (the mutex is one, too)
    buf, idx,
    arg, main,                  \* main's variable, where main is
    at, number, round,          \* of a thread: where it is, t, i
    sold                        \* what the consumers got

vars == <<product, warehouse, mutex, buf, idx, arg, main, at, number, round, sold>>

Makers == {<<"producer", n>> : n \in 1..N}
Takers == {<<"consumer", n>> : n \in 1..N}
Threads == Makers \cup Takers
Goods == Makers \X (1..Rounds)
WellFormed == N \in Nat \ {0} /\ Rounds \in Nat /\ Slots \in Nat

Init ==
    /\ product = 0 /\ warehouse = Slots /\ mutex = 1
    /\ buf = [i \in 0..(Slots - 1) |-> <<>>] /\ idx = 0
    /\ arg = 1 /\ main = <<"producer", 1>>
    /\ at = [t \in Threads |-> "unborn"]
    /\ number = [t \in Threads |-> 0]
    /\ round = [t \in Threads |-> 1]
    /\ sold = {}

Shared == <<product, warehouse, mutex, buf, idx, sold>>
Go(t, l) == at' = [at EXCEPT ![t] = l]

----------------------------------------------------------------------------
(* main: a producer and a consumer for each value of arg.                  *)

Create ==
    /\ main \in Threads
    /\ Go(main, "number")
    /\ IF main \in Makers
       THEN main' = <<"consumer", main[2]>> /\ UNCHANGED arg
       ELSE IF main[2] < N
            THEN main' = <<"producer", main[2] + 1>> /\ arg' = main[2] + 1
            ELSE main' = <<"join", 0>> /\ UNCHANGED arg
    /\ UNCHANGED <<Shared, number, round>>

MainEnds ==
    /\ main = <<"join", 0>>
    /\ Joins => \A t \in Threads : at[t] = "over"
    /\ main' = <<"exit", 0>>
    /\ UNCHANGED <<Shared, arg, at, number, round>>

----------------------------------------------------------------------------
(* What the threads have in common.                                        *)

\* t = *((int*)args)
ReadNumber(t) ==
    /\ at[t] = "number"
    /\ number' = [number EXCEPT ![t] = arg]
    /\ Go(t, IF Rounds = 0 THEN "over" ELSE "wait")
    /\ UNCHANGED <<Shared, arg, main, round>>

\* fault: the slots are used without taking the mutex
LockFree == TRUE
Free == mutex > 0

Lock(t, next) ==
    /\ at[t] = "lock" /\ Free
    /\ mutex' = mutex - 1
    /\ Go(t, next)
    /\ UNCHANGED <<product, warehouse, buf, idx, sold, arg, main, number, round>>

Unlock(t) ==
    /\ at[t] = "unlock"
    /\ mutex' = mutex + 1
    /\ Go(t, "post")
    /\ UNCHANGED <<product, warehouse, buf, idx, sold, arg, main, number, round>>

NextRound(t) ==
    /\ at[t] = "post"
    /\ round' = [round EXCEPT ![t] = @ + 1]
    /\ Go(t, IF round[t] < Rounds THEN "wait" ELSE "over")
    /\ UNCHANGED <<mutex, buf, idx, sold, arg, main, number>>

----------------------------------------------------------------------------
\* fault: the producer does not wait for a free slot
AnyRoom == warehouse + Slots > 0
Room == warehouse > 0

ProducerWait(p) ==
    /\ at[p] = "wait" /\ Room
    /\ warehouse' = warehouse - 1
    /\ Go(p, "lock")
    /\ UNCHANGED <<product, mutex, buf, idx, sold, arg, main, number, round>>

\* strcpy of the number; the good is told apart by its producer and round
ProducerCopy(p) ==
    /\ at[p] = "copy"
    /\ buf' = [buf EXCEPT ![idx] = <<p, round[p]>>]
    /\ Go(p, "index")
    /\ UNCHANGED <<product, warehouse, mutex, idx, sold, arg, main, number, round>>

ProducerIndex(p) ==
    /\ at[p] = "index"
    /\ idx' = idx + 1
    /\ Go(p, "unlock")
    /\ UNCHANGED <<product, warehouse, mutex, buf, sold, arg, main, number, round>>

ProducerPost(p) ==
    /\ NextRound(p)
    /\ product' = product + 1
    /\ UNCHANGED warehouse

Producer(p) ==
    \/ ReadNumber(p) \/ ProducerWait(p) \/ Lock(p, "copy") \/ ProducerCopy(p)
    \/ ProducerIndex(p) \/ Unlock(p) \/ ProducerPost(p)

----------------------------------------------------------------------------
ConsumerWait(c) ==
    /\ at[c] = "wait" /\ product > 0
    /\ product' = product - 1
    /\ Go(c, "lock")
    /\ UNCHANGED <<warehouse, mutex, buf, idx, sold, arg, main, number, round>>

ConsumerIndex(c) ==
    /\ at[c] = "index"
    /\ idx' = idx - 1
    /\ Go(c, "read")
    /\ UNCHANGED <<product, warehouse, mutex, buf, sold, arg, main, number, round>>

ConsumerRead(c) ==
    /\ at[c] = "read"
    /\ sold' = sold \cup {buf[idx]}
    /\ Go(c, "unlock")
    /\ UNCHANGED <<product, warehouse, mutex, buf, idx, arg, main, number, round>>

\* fault: the consumer does not tell the producers
PostNothing == UNCHANGED <<product, warehouse>>
PostWarehouse == warehouse' = warehouse + 1 /\ UNCHANGED product

ConsumerPost(c) == NextRound(c) /\ PostWarehouse

Consumer(c) ==
    \/ ReadNumber(c) \/ ConsumerWait(c) \/ Lock(c, "index") \/ ConsumerIndex(c)
    \/ ConsumerRead(c) \/ Unlock(c) \/ ConsumerPost(c)

----------------------------------------------------------------------------
MainStep == Create \/ MainEnds

Next ==
    \/ MainStep
    \/ \E p \in Makers : Producer(p)
    \/ \E c \in Takers : Consumer(c)

Spec == Init /\ [][Next]_vars

----------------------------------------------------------------------------
(***************************************************************************)
(* The stack implements the warehouse.  A good is there from idx++ on, and *)
(* until the consumer that did idx-- has read it.                          *)
(***************************************************************************)
InHand == {buf[idx] : c \in {d \in Takers : at[d] = "read"}}
OnStack == {buf[i] : i \in 0..(idx - 1)} \cup InHand

Store == INSTANCE Warehouse WITH
    Capacity <- Slots, stock <- OnStack, sold <- sold

(***************************************************************************)
(* Each good is put into a free place and got exactly once, and there are  *)
(* never more than Slots of them (both loops of producer_consumer_4.c).    *)
(***************************************************************************)
ImplementsWarehouse == Store!Spec

(***************************************************************************)
(* Types; and the semaphores count what they stand for: a slot is free, or *)
(* on the stack, or with the one thread that took its semaphore.           *)
(***************************************************************************)
Between(S, ls) == Cardinality({t \in S : at[t] \in ls})

TypeOK ==
    /\ idx \in 0..Slots /\ mutex \in 0..1
    /\ mutex + Cardinality({t \in Threads :
                 at[t] \in {"copy", "index", "read", "unlock"}}) = 1
    /\ product + Between(Takers, {"lock", "index"})
        + Between(Makers, {"unlock", "post"}) = idx
    /\ warehouse + idx + Between(Makers, {"lock", "copy", "index"})
        + Between(Takers, {"read", "unlock", "post"}) = Slots

(***************************************************************************)
(* Everything that is to be produced is produced and got, and main ends,   *)
(* with the joins and, other than one may fear, without them.              *)
(***************************************************************************)
AllGot == <>(main = <<"exit", 0>> /\ sold = Goods)
============================================================================

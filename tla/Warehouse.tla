----------------------------- MODULE Warehouse -----------------------------
(***************************************************************************)
(* What the producer-consumer programs of src/ch08/t promise, whatever     *)
(* they are built from: goods are put into a store of limited capacity and *)
(* taken out of it, each of them once.  The programs with pipes, with      *)
(* semaphores and with a condition variable each implement it.             *)
(***************************************************************************)
EXTENDS Naturals, FiniteSets

CONSTANTS Goods, Capacity

VARIABLES stock, sold

Init == stock = {} /\ sold = {}

Put(g) ==
    /\ g \notin stock \cup sold
    /\ Cardinality(stock) < Capacity
    /\ stock' = stock \cup {g}
    /\ UNCHANGED sold

Get(g) ==
    /\ g \in stock
    /\ stock' = stock \ {g}
    /\ sold' = sold \cup {g}

Next == \E g \in Goods : Put(g) \/ Get(g)

Spec == Init /\ [][Next]_<<stock, sold>>
============================================================================

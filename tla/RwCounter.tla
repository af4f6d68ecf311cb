------------------------------ MODULE RwCounter ------------------------------
(***************************************************************************)
(* 02_pthread_rwlock.c and 02_pthread_rwlock_2.c of src/ch04/t: writers    *)
(* count a shared variable up under a read-write lock, readers print it,   *)
(* and the main thread waits without the lock until it is Limit, cancels   *)
(* everybody and destroys the lock.  The writers test the variable before  *)
(* they have the lock.                                                     *)
(***************************************************************************)
EXTENDS Integers, FiniteSets

CONSTANTS
    Writers, Readers,
    Limit           \* 20

Threads == Writers \cup Readers

VARIABLES
    pc,         \* of a thread: top, lock, inside, print, sleep, or ended
    writer,     \* who has the lock for writing
    readers,    \* who has it for reading
    shared,
    old,        \* of a writer: the value its shared++ has read
    cancelled,  \* threads pthread_cancel was called for
    main        \* waiting, cancelling, or destroyed

vars == <<pc, writer, readers, shared, old, cancelled, main>>

None == "none"
WellFormed ==
    /\ IsFiniteSet(Writers) /\ Writers \cap Readers = {} /\ None \notin Writers
    /\ Limit \in Nat \ {0}

Init ==
    /\ pc = [t \in Threads |-> "top"]
    /\ writer = None /\ readers = {}
    /\ shared = 0 /\ old = [w \in Writers |-> 0]
    /\ cancelled = {} /\ main = "waiting"

Goto(t, label) == pc' = [pc EXCEPT ![t] = label]

\* fault: the writers do not look at the limit
Always == TRUE
\* fault: they stop one before it
Early == shared + 1 < Limit
BelowLimit == shared < Limit

Test(w) ==
    /\ w \in Writers /\ pc[w] = "top"
    /\ IF BelowLimit THEN Goto(w, "lock") ELSE UNCHANGED pc
    /\ UNCHANGED <<writer, readers, shared, old, cancelled, main>>

\* fault: a writer does not wait for the lock
NoWait == TRUE
NobodyIn == writer = None /\ readers = {}

\* pthread_rwlock_wrlock, and the load of shared++
WrLock(w) ==
    /\ w \in Writers /\ pc[w] = "lock" /\ NobodyIn
    /\ writer' = w
    /\ old' = [old EXCEPT ![w] = shared]
    /\ Goto(w, "inside")
    /\ UNCHANGED <<readers, shared, cancelled, main>>

RdLock(r) ==
    /\ r \in Readers /\ pc[r] = "top" /\ writer = None
    /\ readers' = readers \cup {r}
    /\ Goto(r, "inside")
    /\ UNCHANGED <<writer, shared, old, cancelled, main>>

Store(w) ==
    /\ w \in Writers /\ pc[w] = "inside"
    /\ shared' = old[w] + 1
    /\ Goto(w, "print")
    /\ UNCHANGED <<writer, readers, old, cancelled, main>>

Printing(t) == pc[t] = IF t \in Writers THEN "print" ELSE "inside"

\* printf, pthread_rwlock_unlock, and sleep
Unlock(t) ==
    /\ Printing(t)
    /\ writer' = IF writer = t THEN None ELSE writer
    /\ readers' = readers \ {t}
    /\ Goto(t, "sleep")
    /\ UNCHANGED <<shared, old, cancelled, main>>

Awake(t) ==
    /\ pc[t] = "sleep" /\ t \notin cancelled
    /\ Goto(t, "top")
    /\ UNCHANGED <<writer, readers, shared, old, cancelled, main>>

\* A cancelled thread ends in printf or in sleep, whatever it has locked.
Die(t) ==
    /\ t \in cancelled
    /\ pc[t] = "sleep" \/ Printing(t)
    /\ Goto(t, "ended")
    /\ UNCHANGED <<writer, readers, shared, old, cancelled, main>>

----------------------------------------------------------------------------
\* shared is compared for equality, again and again.
Reached ==
    /\ main = "waiting" /\ shared = Limit
    /\ main' = "cancelling"
    /\ UNCHANGED <<pc, writer, readers, shared, old, cancelled>>

\* the writers first
Cancel ==
    /\ main = "cancelling"
    /\ \E t \in Threads \ cancelled :
        /\ t \in Readers => Writers \subseteq cancelled
        /\ cancelled' = cancelled \cup {t}
    /\ UNCHANGED <<pc, writer, readers, shared, old, main>>

Destroy ==
    /\ main = "cancelling" /\ cancelled = Threads
    /\ main' = "destroyed"
    /\ UNCHANGED <<pc, writer, readers, shared, old, cancelled>>

Work(t) == Test(t) \/ WrLock(t) \/ RdLock(t) \/ Store(t) \/ Unlock(t) \/ Awake(t) \/ Die(t)

Main == Reached \/ Cancel \/ Destroy

Next == main # "destroyed" /\ (Main \/ \E t \in Threads : Work(t))

Spec == Init /\ [][Next]_vars

----------------------------------------------------------------------------
(***************************************************************************)
(* Every write counts one, and the writers that had passed the test before *)
(* the limit was reached may lead beyond it, each of them by one.          *)
(***************************************************************************)
Overshoot ==
    /\ shared <= Limit + Cardinality(Writers) - 1
    /\ shared > Limit =>
        Cardinality({w \in Writers : pc[w] = "lock"}) <= Limit + Cardinality(Writers) - 1 - shared

(***************************************************************************)
(* No write is lost: the value a writer is about to store is the next one. *)
(***************************************************************************)
NothingLost == \A w \in Writers : pc[w] = "inside" => old[w] = shared

(***************************************************************************)
(* The main thread ends, unless it waits for a limit the writers have      *)
(* passed: it may look at 19 and then at 21.                               *)
(***************************************************************************)
Missed == main = "waiting" /\ shared > Limit

MainEnds == <>(main = "destroyed" \/ Missed)
=============================================================================

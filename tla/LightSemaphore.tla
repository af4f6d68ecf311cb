--------------------------- MODULE LightSemaphore ---------------------------
(***************************************************************************)
(* LightweightSemaphore of src/ch04/t/04_atomicops.h: a count that is      *)
(* changed by fetch_add only, and a semaphore of the system that is used   *)
(* when the count says the consumer has to sleep.  Any number of threads   *)
(* signal; one waits, as the name spsc_sema (line 341) says.               *)
(***************************************************************************)
EXTENDS Integers, FiniteSets

CONSTANTS
    Producers,
    Initial,        \* initialCount
    Fewest,         \* units signalled at a time: at least this many
    MaxUnits        \* bound: m_count does not go beyond it

ASSUME SemaphoreAssumption ==
    /\ IsFiniteSet(Producers)
    /\ Initial \in Nat /\ Fewest \in Nat
    /\ MaxUnits \in Nat /\ Initial <= MaxUnits

VARIABLES
    m_count, m_sema,
    pc,         \* of the consumer: idle, or its next access to a shared variable
    mode,       \* of the consumer: idle, or how long it waits
    posting     \* producers that have yet to signal m_sema

vars == <<m_count, m_sema, pc, mode, posting>>

TypeOK ==
    /\ m_count \in Int /\ m_count >= -1 /\ m_sema \in Nat
    /\ pc \in {"idle", "load", "take", "spin", "subtract", "sleep", "undo", "redo", "try"}
    /\ mode \in {"idle", "once", "timed", "forever"}
    /\ posting \subseteq Producers

Init ==
    /\ m_count = Initial /\ m_sema = 0
    /\ pc = "idle" /\ mode = "idle" /\ posting = {}

----------------------------------------------------------------------------
(* Producers.                                                              *)

\* fault: the last waiter is not woken
Late == m_count < -1
Sleeping == m_count < 0

\* signal: fetch_add, and what it returned decides about m_sema
Signal(p) ==
    /\ p \notin posting
    /\ \E count \in Fewest..MaxUnits :
        /\ m_count + count <= MaxUnits
        /\ m_count' = m_count + count
    /\ posting' = IF Sleeping THEN posting \cup {p} ELSE posting
    /\ UNCHANGED <<m_sema, pc, mode>>

Post(p) ==
    /\ p \in posting
    /\ m_sema' = m_sema + 1
    /\ posting' = posting \ {p}
    /\ UNCHANGED <<m_count, pc, mode>>

----------------------------------------------------------------------------
(* The consumer.                                                           *)

Return == pc' = "idle" /\ mode' = "idle"
Goto(label) == pc' = label /\ mode' = mode

\* tryWait(), wait(timeout_usecs) or wait()
Wait ==
    /\ pc = "idle"
    /\ pc' = "load" /\ mode' \in {"once", "timed", "forever"}
    /\ UNCHANGED <<m_count, m_sema, posting>>

\* tryWait, and the spinning: load the count, which leads to the fetch_add
Load ==
    /\ pc \in {"load", "spin"}
    /\ \/ m_count > 0 /\ Goto("take")
       \/ m_count <= 0 /\ pc = "load" /\ mode = "once" /\ Return
       \/ m_count <= 0 /\ pc = "load" /\ mode # "once" /\ Goto("spin")
       \/ m_count <= 0 /\ pc = "spin" /\ Goto("subtract")     \* spun enough
    /\ UNCHANGED <<m_count, m_sema, posting>>

Take ==
    /\ pc = "take"
    /\ m_count' = m_count - 1
    /\ Return
    /\ UNCHANGED <<m_sema, posting>>

Subtract ==
    /\ pc = "subtract"
    /\ m_count' = m_count - 1
    /\ IF m_count > 0 THEN Return ELSE Goto("sleep")
    /\ UNCHANGED <<m_sema, posting>>

\* m_sema.wait or m_sema.timed_wait
Wake ==
    /\ pc = "sleep" /\ m_sema > 0
    /\ m_sema' = m_sema - 1
    /\ Return
    /\ UNCHANGED <<m_count, posting>>

Timeout ==
    /\ pc = "sleep" /\ mode = "timed"
    /\ Goto("undo")
    /\ UNCHANGED <<m_count, m_sema, posting>>

\* fault: a timeout never settles
Stubborn == m_count < -1
\* fault: a timeout gives up without looking whether it was signalled
GiveUp == TRUE
NotSignalled == m_count < 0

\* the count is put right; if it was not negative there was a signal
Undo ==
    /\ pc = "undo"
    /\ m_count' = m_count + 1
    /\ IF NotSignalled THEN Return ELSE Goto("redo")
    /\ UNCHANGED <<m_sema, posting>>

Redo ==
    /\ pc = "redo"
    /\ m_count' = m_count - 1
    /\ IF m_count > 0 THEN Goto("try") ELSE Goto("undo")
    /\ UNCHANGED <<m_sema, posting>>

\* m_sema.try_wait: the signal may not have reached m_sema
TryAgain ==
    /\ pc = "try"
    /\ \/ m_sema > 0 /\ m_sema' = m_sema - 1 /\ Return
       \/ m_sema = 0 /\ m_sema' = m_sema /\ Goto("undo")
    /\ UNCHANGED <<m_count, posting>>

Consume == Load \/ Take \/ Subtract \/ Wake \/ Undo \/ Redo \/ TryAgain

Next ==
    \/ Wait \/ Timeout \/ Consume
    \/ \E p \in Producers : Signal(p) \/ Post(p)

Spec == Init /\ [][Next]_vars

----------------------------------------------------------------------------
\* The consumer has subtracted one that it does not have yet.
Debt == pc \in {"sleep", "undo", "try"}

(***************************************************************************)
(* The count and m_sema agree: m_sema is signalled, or a producer is about *)
(* to signal it, once and only if the consumer is in debt and the count    *)
(* says that there was a unit for it.                                      *)
(***************************************************************************)
Owed == (pc = "redo") \/ (Debt /\ m_count >= 0)
Agree ==
    /\ m_count >= IF Debt THEN -1 ELSE 0
    /\ m_sema + Cardinality(posting) = IF Owed THEN 1 ELSE 0

(***************************************************************************)
(* To its callers it is a counting semaphore: nothing that was signalled   *)
(* is lost, nothing is had twice, whenever a timeout falls.                *)
(***************************************************************************)
Available == m_count + (IF Debt THEN 1 ELSE 0)
Sem == INSTANCE CountingSemaphore WITH avail <- Available
ImplementsSemaphore == Sem!Spec

(***************************************************************************)
(* A wait returns if it has a timeout, or units are there or come in: the  *)
(* loop that undoes a wait ends although it retries.                       *)
(***************************************************************************)
TimedReturns == mode \in {"once", "timed"} ~> mode = "idle"
WaitReturns == (mode = "forever" /\ Available > 0) ~> mode = "idle"
=============================================================================

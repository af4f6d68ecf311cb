-------------------------- MODULE CountingSemaphore --------------------------
(***************************************************************************)
(* What a counting semaphore with one consumer promises: a wait that says  *)
(* TRUE has taken one of the units that were signalled, a wait that says   *)
(* FALSE has taken nothing, and only one that need not wait for ever may.  *)
(***************************************************************************)
EXTENDS Integers

CONSTANT Initial

VARIABLES
    avail,      \* units that can be had
    mode        \* of the consumer: idle, once, timed or forever

vars == <<avail, mode>>

Init == avail = Initial /\ mode = "idle"

Signal == mode' = mode /\ avail' \in Nat /\ avail' >= avail

Call == mode = "idle" /\ mode' \in {"once", "timed", "forever"} /\ avail' = avail

ReturnTrue == mode # "idle" /\ mode' = "idle" /\ avail > 0 /\ avail' = avail - 1

ReturnFalse == mode \in {"once", "timed"} /\ mode' = "idle" /\ avail' = avail

Next == Signal \/ Call \/ ReturnTrue \/ ReturnFalse

Spec == Init /\ [][Next]_vars
=============================================================================

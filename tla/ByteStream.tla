----------------------------- MODULE ByteStream -----------------------------
(***************************************************************************)
(* What reading from a descriptor promises: the bytes that were sent       *)
(* arrive, in their order, each of them once.                              *)
(***************************************************************************)
EXTENDS Naturals, Sequences

VARIABLES sent, got

Init == sent = <<>> /\ got = <<>>

Extends(s, t) == Len(s) <= Len(t) /\ SubSeq(t, 1, Len(s)) = s

Send == sent # sent' /\ Extends(sent, sent') /\ UNCHANGED got

Receive == got # got' /\ Extends(got, got') /\ Extends(got', sent) /\ UNCHANGED sent

Spec == Init /\ [][Send \/ Receive]_<<sent, got>>
============================================================================

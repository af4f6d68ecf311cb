------------------------------- MODULE MsgPeek -------------------------------
(***************************************************************************)
(* msgpeek_client.c and msgpeek_server.c of src/ch07/01_socket: the client *)
(* sends messages of a header and a payload; the server peeks at a header, *)
(* takes the length of the payload from it and receives both in one call,  *)
(* which returns what has come: less, if the network has cut the payload.  *)
(* The stream is a sequence of units <<message, place>>; the header is the *)
(* first Header units of a message.                                        *)
(***************************************************************************)
EXTENDS Integers, Sequences

CONSTANTS
    Total,      \* TOTAL
    Header,     \* HBUFSIZE, in units
    Payload     \* units of a payload

WellFormed == Total \in Nat /\ {Header, Payload} \subseteq Nat \ {0}

VARIABLES
    circle,         \* messages the client has still to send
    wire, rbuf,     \* sent and not yet arrived, arrived and not yet received
    pc, psize,      \* the server: at peek or take, and what it has peeked
    count,
    torn            \* a message was taken before its payload had come whole

vars == <<circle, wire, rbuf, pc, psize, count, torn>>

Units == Header + Payload

Init ==
    /\ circle = Total
    /\ wire = <<>> /\ rbuf = <<>>
    /\ pc = "peek" /\ psize = 0 /\ count = 0 /\ torn = FALSE

Send ==
    /\ circle > 0
    /\ circle' = circle - 1
    /\ wire' = wire \o [i \in 1..Units |-> <<circle, i>>]
    /\ UNCHANGED <<rbuf, pc, psize, count, torn>>

\* The network cuts the stream where it likes.
Arrive ==
    \E n \in 1..Len(wire) :
        /\ rbuf' = rbuf \o SubSeq(wire, 1, n)
        /\ wire' = SubSeq(wire, n + 1, Len(wire))
        /\ UNCHANGED <<circle, pc, psize, count, torn>>

AtHeader(s) == \A i \in 1..Header : s[i] = <<s[1][1], i>>

\* fault: the length is taken from what has arrived of the header
AnyPeek == rbuf # <<>>
FullPeek == Len(rbuf) >= Header

\* recv with MSG_PEEK; a short or an empty result is tried again. What is taken for
\* a header and is none may hold any length, up to a bound.
Peek ==
    /\ pc = "peek" /\ FullPeek
    /\ psize' \in IF Len(rbuf) >= Header /\ AtHeader(rbuf) THEN {Payload} ELSE 0..(2 * Payload)
    /\ pc' = "take"
    /\ UNCHANGED <<circle, wire, rbuf, count, torn>>

\* fault: the header is not received with the payload
PayloadOnly == psize
Asked == Header + psize

Take ==
    /\ pc = "take"
    /\ LET n == IF Asked <= Len(rbuf) THEN Asked ELSE Len(rbuf) IN
        /\ rbuf' = SubSeq(rbuf, n + 1, Len(rbuf))
        /\ count' = IF n = Asked THEN count + 1 ELSE count
        /\ torn' = (torn \/ (n < Asked /\ Len(rbuf) >= Header))
    /\ pc' = "peek"
    /\ UNCHANGED <<circle, wire, psize>>

Serve == Peek \/ Take

Next == Send \/ Arrive \/ Serve

Spec == Init /\ [][Next]_vars

----------------------------------------------------------------------------
(***************************************************************************)
(* "First peek to get the length of the payload from the message header,   *)
(* then take data of that length" (README.md:14 of 01_socket): a header    *)
(* comes next, and every message sent was counted or is still to be taken. *)
(* That is so until one is taken whose payload had come in part: its rest  *)
(* is then looked at as a header (125-128).                                *)
(***************************************************************************)
Framed ==
    LET rest == rbuf \o wire IN
    ~torn => /\ Len(rest) = Units * (Total - circle - count)
             /\ rest # <<>> => rest[1][2] = 1

(***************************************************************************)
(* All messages are counted in the end, if each was taken whole.           *)
(***************************************************************************)
Counted == <>(count = Total \/ torn)
=============================================================================

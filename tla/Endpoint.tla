------------------------------ MODULE Endpoint ------------------------------
(***************************************************************************)
(* How the programs of src/ch07 and posix.c of src/ch03 get their socket:  *)
(* each is a list of calls on it, made for one address, or for every       *)
(* address getaddrinfo returned until all calls succeed for one.           *)
(*                                                                         *)
(* A record stands for a program: its calls; whether it goes through the   *)
(* addresses; whether it closes the socket when a later call fails; and    *)
(* what it does when connect is refused.                                   *)
(***************************************************************************)
EXTENDS Integers, Sequences, FiniteSets

CONSTANTS
    Programs,   \* names of the programs looked at
    Addresses,  \* number of addresses of getaddrinfo
    Goods,      \* sets of those that bind and connect may succeed for
    Failing,    \* other calls that may fail
    Faults      \* bound: failures of those calls and interrupts of connect

VARIABLES
    prog, good, \* the program, and the addresses bind and connect succeed for
    rp, pc,     \* the address, the call that is next
    open,       \* sockets that are open
    sock,       \* sfd, cfd, fd, clientfd or listenfd
    out,        \* running, ok or failed
    faults

vars == <<prog, good, rp, pc, open, sock, out, faults>>

Unset == -1     \* the variable was never assigned

----------------------------------------------------------------------------
(* The programs.                                                           *)

TalkServer ==
    [name |-> "talk_server",
     calls |-> <<"socket", "getsockopt", "setsockopt", "bind", "listen", "nonblock", "cloexec">>,
     each |-> TRUE, closes |-> TRUE, refused |-> "next"]

TextServer == [TalkServer EXCEPT !.name = "text_server"]

TalkClient ==
    [name |-> "talk_client",
     calls |-> <<"socket", "cloexec", "connect">>,
     each |-> TRUE, closes |-> TRUE, refused |-> "retry"]

TextClient ==
    [name |-> "text_client",
     calls |-> <<"socket", "cloexec", "connect", "setsockopt">>,
     each |-> TRUE, closes |-> TRUE, refused |-> "again"]

SocketServer ==
    [name |-> "socket_server",
     calls |-> <<"socket", "setsockopt", "bind", "listen", "accept">>,
     each |-> FALSE, closes |-> TRUE, refused |-> "next"]

SocketClient ==
    [name |-> "socket_client",
     calls |-> <<"socket", "connect", "getsockname">>,
     each |-> FALSE, closes |-> TRUE, refused |-> "next"]

PeekServer ==
    [name |-> "msgpeek_server",
     calls |-> <<"socket", "setsockopt", "bind", "listen", "nonblock", "accept">>,
     each |-> FALSE, closes |-> TRUE, refused |-> "next"]

PeekClient == [SocketClient EXCEPT !.name = "msgpeek_client"]

\* the address is looked up after the socket was made
OpenClient ==
    [name |-> "open_clientfd",
     calls |-> <<"socket", "gethostbyname", "connect">>,
     each |-> FALSE, closes |-> FALSE, refused |-> "next"]

OpenListen ==
    [name |-> "open_listenfd",
     calls |-> <<"socket", "setsockopt", "bind", "listen">>,
     each |-> FALSE, closes |-> FALSE, refused |-> "next"]

AllPrograms ==
    {TalkServer, TextServer, TalkClient, TextClient, SocketServer, SocketClient,
     PeekServer, PeekClient, OpenClient, OpenListen}

----------------------------------------------------------------------------
Init ==
    /\ prog \in {q \in AllPrograms : q.name \in Programs}
    /\ good \in Goods
    /\ rp = 1 /\ pc = 1 /\ open = {} /\ sock = Unset
    /\ out = "running" /\ faults = 0

Call == prog.calls[pc]

\* Of a socket that is closed, connect and the others say EBADF.
Able ==
    /\ Call \in {"bind", "connect"} => rp \in good
    /\ Call = "socket" \/ sock \in open

LowestFree == CHOOSE d \in 0..Cardinality(open) : d \notin open

Succeed ==
    /\ out = "running" /\ Able
    /\ IF Call = "socket" THEN sock' = LowestFree /\ open' = open \cup {LowestFree}
       ELSE UNCHANGED <<sock, open>>
    /\ IF pc = Len(prog.calls) THEN out' = "ok" /\ UNCHANGED pc
       ELSE pc' = pc + 1 /\ UNCHANGED out
    /\ UNCHANGED <<prog, good, rp, faults>>

\* an interrupted connect, or an accept without a client, is called again
Interrupted ==
    /\ out = "running" /\ Able
    /\ \/ Call = "connect" /\ prog.each
       \/ Call = "accept" /\ prog.name = "msgpeek_server"
    /\ faults < Faults /\ faults' = faults + 1
    /\ UNCHANGED <<prog, good, rp, pc, open, sock, out>>

Fails ==
    /\ out = "running"
    /\ \/ ~Able /\ UNCHANGED faults
       \/ Call \in Failing /\ faults < Faults /\ faults' = faults + 1

\* fault: a failed call leaves the socket open
LeaveOpen == open
CloseSock == open \ {sock}

\* What is left open: socket_server and the others close in their cleanup.
OpenAfter == IF Call # "socket" /\ prog.closes THEN CloseSock ELSE open
SockAfter == IF Call = "socket" THEN Unset ELSE sock

\* the next address; behind the last one, cleanup closes sock once more
NextAddress ==
    /\ Fails /\ prog.each
    /\ Call = "connect" => prog.refused = "next"
    /\ IF rp = Addresses
       THEN open' = OpenAfter \ {sock} /\ out' = "failed" /\ UNCHANGED <<rp, pc>>
       ELSE open' = OpenAfter /\ rp' = rp + 1 /\ pc' = 1 /\ UNCHANGED out
    /\ sock' = SockAfter
    /\ UNCHANGED <<prog, good>>

\* fault: a refused connect is tried again on the socket that was closed
SameSocket == pc
NewSocket == 1

\* talk_client: goto retry
Retry ==
    /\ Fails /\ prog.each /\ Call = "connect" /\ prog.refused = "retry"
    /\ open' = OpenAfter
    /\ rp' = 1 /\ pc' = NewSocket
    /\ UNCHANGED <<prog, good, sock, out>>

\* text_client: continue, which is the inner loop's
Again ==
    /\ Fails /\ prog.each /\ Call = "connect" /\ prog.refused = "again"
    /\ open' = OpenAfter
    /\ UNCHANGED <<prog, good, rp, pc, sock, out>>

GiveUp ==
    /\ Fails /\ ~prog.each
    /\ open' = OpenAfter
    /\ sock' = SockAfter
    /\ out' = "failed"
    /\ UNCHANGED <<prog, good, rp, pc>>

Next == Succeed \/ Interrupted \/ NextAddress \/ Retry \/ Again \/ GiveUp

Spec == Init /\ [][Next]_vars

----------------------------------------------------------------------------
(***************************************************************************)
(* However many addresses and calls have failed, a program that closes in  *)
(* its cleanup (open_clientfd and open_listenfd do not) has no socket open *)
(* but the one in use, and none when it has given up.                      *)
(***************************************************************************)
NothingLeft == prog.closes =>
    /\ open \subseteq {sock}
    /\ out = "failed" => open = {}
    /\ out = "ok" => open = {sock}

(* talk_client starts over at the first address when a connect is refused  *)
(* (90), against its comment that each is tried (73): the first may refuse *)
(* it for ever. text_client goes on to connect the socket it has closed.   *)
Stuck ==
    /\ out = "running" /\ Call = "connect"
    /\ \/ prog.refused = "retry" /\ rp = 1 /\ 1 \notin good
       \/ prog.refused = "again" /\ sock \notin open

(***************************************************************************)
(* A program gets a socket or gives up, if it is not one of those two that *)
(* try a connect for ever.                                                 *)
(***************************************************************************)
Settles == <>(out # "running" \/ Stuck)
=============================================================================

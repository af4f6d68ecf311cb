---------------------------- MODULE SelectServer ----------------------------
(***************************************************************************)
(* The select servers of src/ch07/02_select and their clients:             *)
(* talk_server.c with talk_client.c (Text = FALSE) and text_server.c with  *)
(* text_client.c (Text = TRUE).  A client sends messages, each a length    *)
(* and a text in one write, and as the last one "q" or 0x04; it may also   *)
(* vanish without that (end of its input, a failed write) or be reset.     *)
(*                                                                         *)
(* The stream does not keep messages apart.  A message is two pieces here, *)
(* and a recv returns any number of the pieces that have arrived: when it  *)
(* does not begin with a whole message the lengths do not match; what      *)
(* follows the first message in the buffer is not looked at.               *)
(***************************************************************************)
EXTENDS Integers, Sequences, FiniteSets, FiniteSetsExt

CONSTANTS
    Clients,
    Setups      \* servers and how clients use them

VARIABLES
    setup,          \* the one of this behaviour
    srv,            \* the server: at select, scanning, or ended
    rtfds, rfds,    \* the descriptors watched, those select found ready
    maxfd, id,
    fd,             \* of a client: the server's descriptor for it
    peer,           \* of a client: off, up, fin or rst
    sent, chan,     \* of a client: messages sent, pieces not received yet
    shown           \* of a client: messages the server printed

vars == <<setup, srv, rtfds, rfds, maxfd, id, fd, peer, sent, chan, shown>>

Server == <<setup, srv, rtfds, rfds, maxfd, id, fd, shown>>

Text      == setup.text         \* text_server.c, or talk_server.c
TopLimit  == setup.top_limit    \* toplimit, counted from the listening descriptor 0
Paced     == setup.paced        \* a client sleeps until its message has been received
Users     == setup.users        \* clients that connect
MayVanish == setup.may_vanish   \* those that may end without their last message
MayReset  == setup.may_reset    \* those whose connection may be reset
MaxSent   == setup.max_sent     \* bound: messages of a client, its last one not counted

WellFormed ==
    /\ IsFiniteSet(Clients)
    /\ \A s \in Setups :
          /\ {s.users, s.may_vanish, s.may_reset} \subseteq SUBSET Clients
          /\ {s.top_limit, s.max_sent} \subseteq Nat

Listening == 0
NotAccepted == 0
Closed == -1
Final == 0              \* the number of the last message, "q" or 0x04

Init ==
    /\ setup \in Setups
    /\ srv = "select" /\ rtfds = {Listening} /\ rfds = {}
    /\ maxfd = Listening /\ id = 0
    /\ fd = [c \in Clients |-> NotAccepted]
    /\ peer = [c \in Clients |-> "off"]
    /\ sent = [c \in Clients |-> 0]
    /\ chan = [c \in Clients |-> <<>>]
    /\ shown = [c \in Clients |-> <<>>]

----------------------------------------------------------------------------
(* Clients.                                                                *)

\* connect, tried again until it succeeds
Connect(c) ==
    /\ c \in Users /\ peer[c] = "off" /\ srv # "ended"
    /\ peer' = [peer EXCEPT ![c] = "up"]
    /\ UNCHANGED <<Server, sent, chan>>

\* fault: the client does not sleep between its messages
NoSleep(c) == TRUE
Slept(c) == Paced => chan[c] = <<>>

Write(c, n) ==
    /\ peer[c] = "up" /\ fd[c] # Closed /\ Slept(c)
    /\ chan' = [chan EXCEPT ![c] = @ \o <<<<n, 1>>, <<n, 2>>>>]

Send(c) ==
    /\ sent[c] < MaxSent
    /\ Write(c, sent[c] + 1)
    /\ sent' = [sent EXCEPT ![c] = @ + 1]
    /\ UNCHANGED <<Server, peer>>

\* the last message, and close
Finish(c) ==
    /\ Write(c, Final)
    /\ peer' = [peer EXCEPT ![c] = "fin"]
    /\ UNCHANGED <<Server, sent>>

\* goto cleanup: the input has ended, or a write failed
Vanish(c) ==
    /\ peer[c] = "up" /\ (c \in MayVanish \/ fd[c] = Closed)
    /\ peer' = [peer EXCEPT ![c] = "fin"]
    /\ UNCHANGED <<Server, sent, chan>>

Reset(c) ==
    /\ peer[c] = "up" /\ c \in MayReset
    /\ peer' = [peer EXCEPT ![c] = "rst"]
    /\ chan' = [chan EXCEPT ![c] = <<>>]
    /\ UNCHANGED <<Server, sent>>

----------------------------------------------------------------------------
(* The server's loop.                                                      *)

Backlog == {c \in Clients : peer[c] # "off" /\ fd[c] = NotAccepted}

Ready(d) ==
    IF d = Listening THEN Backlog # {}
    ELSE \E c \in Clients : fd[c] = d /\ (chan[c] # <<>> \/ peer[c] \in {"fin", "rst"})

\* the highest descriptor of the set, looked for up to maxfd only
Watched == Max({d \in rtfds : d <= maxfd})

\* fault: the number of descriptors is not limited
NoLimit == FALSE
OverLimit == Watched > TopLimit

\* maxfd is found anew; too large a descriptor ends the server
Select ==
    /\ srv = "select"
    /\ IF OverLimit
       THEN srv' = "ended" /\ UNCHANGED <<rfds, maxfd, id>>
       ELSE /\ \E d \in rtfds : Ready(d)
            /\ rfds' = {d \in rtfds : Ready(d)}
            /\ maxfd' = Watched
            /\ id' = 0
            /\ srv' = "scan"
    /\ UNCHANGED <<setup, rtfds, fd, peer, sent, chan, shown>>

\* the next descriptor, or back to select behind the last one
Continue(last) ==
    IF id < last THEN id' = id + 1 /\ UNCHANGED srv
    ELSE srv' = "select" /\ UNCHANGED id
Break == srv' = "select" /\ UNCHANGED id

Skip ==
    /\ srv = "scan" /\ id \notin rfds
    /\ Continue(maxfd)
    /\ UNCHANGED <<setup, rtfds, rfds, maxfd, fd, peer, sent, chan, shown>>

\* fault: maxfd is not raised for a new descriptor
NotRaised(d) == maxfd
Raised(d) == Max({maxfd, d})

LowestFree == CHOOSE d \in 1..(Cardinality(Clients) + 1) :
    d \notin rtfds /\ \A e \in 1..(d - 1) : e \in rtfds

\* accept fails, or getnameinfo does and the connection is closed again
Reject ==
    /\ \/ UNCHANGED fd
       \/ \E c \in Backlog : fd' = [fd EXCEPT ![c] = Closed]
    /\ UNCHANGED <<rtfds, maxfd>>

Accept ==
    /\ srv = "scan" /\ id = Listening /\ id \in rfds
    /\ \/ \E c \in Backlog :
            /\ fd' = [fd EXCEPT ![c] = LowestFree]
            /\ rtfds' = rtfds \cup {LowestFree}
            /\ maxfd' = Raised(LowestFree)
       \/ Reject
    /\ Continue(maxfd')
    /\ UNCHANGED <<setup, rfds, peer, sent, chan, shown>>

Speaker == CHOOSE c \in Clients : fd[c] = id

\* What a recv may return: some of the pieces there are.
Chunks(c) == IF Paced THEN {Len(chan[c])} ELSE 1..Len(chan[c])
Whole(s) == Len(s) >= 2 /\ s[1][2] = 1

\* fault: the descriptor of a client that is done stays in the set
KeepWatched == rtfds
Unwatched == rtfds \ {id}

\* close and FD_CLR of a client that has sent its last message
Done(c) ==
    /\ fd' = [fd EXCEPT ![c] = Closed]
    /\ rtfds' = Unwatched

\* after that, and after the end of the file, the text server looks no further
Leave == IF Text THEN Break ELSE Continue(maxfd)

Receive(c) ==
    \E k \in Chunks(c) :
        LET s == SubSeq(chan[c], 1, k) IN
        /\ chan' = [chan EXCEPT ![c] = SubSeq(@, k + 1, Len(@))]
        /\ IF Whole(s) /\ s[1][1] = Final
           THEN Done(c) /\ Leave /\ UNCHANGED shown
           ELSE /\ shown' = IF Whole(s) THEN [shown EXCEPT ![c] = Append(@, s[1][1])]
                            ELSE shown
                /\ Continue(maxfd)
                /\ UNCHANGED <<fd, rtfds>>

\* getpeername fails (talk) or recv does; only talk's recv lets it go on
FromReset ==
    /\ \/ srv' = "ended" /\ UNCHANGED id
       \/ ~Text /\ Continue(maxfd)
    /\ UNCHANGED <<fd, rtfds, chan, shown>>

Recv ==
    /\ srv = "scan" /\ id \in rfds /\ id # Listening
    /\ CASE peer[Speaker] = "rst" -> FromReset
         [] chan[Speaker] # <<>> -> Receive(Speaker)
         [] OTHER -> Leave /\ UNCHANGED <<fd, rtfds, chan, shown>>     \* nr == 0
    /\ UNCHANGED <<setup, rfds, maxfd, peer, sent>>

Serve == Select \/ Skip \/ Accept \/ Recv

Client(c) == Connect(c) \/ Send(c) \/ Finish(c) \/ Vanish(c) \/ Reset(c)

Next == Serve \/ \E c \in Clients : Client(c)

Spec == Init /\ [][Next]_vars

----------------------------------------------------------------------------
Accepted == {c \in Clients : fd[c] \notin {NotAccepted, Closed}}

(***************************************************************************)
(* Types; the server watches exactly the descriptors it has open, and no   *)
(* descriptor stands for two clients.                                      *)
(***************************************************************************)
TypeOK ==
    /\ srv \in {"select", "scan", "ended"}
    /\ rtfds = {Listening} \cup {fd[c] : c \in Accepted}
    /\ \A c, d \in Accepted : fd[c] = fd[d] => c = d

(***************************************************************************)
(* A descriptor put into the set is below toplimit plus one, far below     *)
(* FD_SETSIZE, although it is put there before the limit is looked at.     *)
(***************************************************************************)
FdsInRange == \A d \in rtfds : d <= TopLimit + 1

(***************************************************************************)
(* When every client waits until its message has been received, as the     *)
(* sleep at text_client.c:116 means to, all of them are printed in order.  *)
(***************************************************************************)
AllShown == Paced =>
    \A c \in Clients : peer[c] # "rst" =>
        LET pending == {chan[c][i][1] : i \in DOMAIN chan[c]} \ {Final} IN
        shown[c] = [n \in 1..(sent[c] - Cardinality(pending)) |-> n]

(***************************************************************************)
(* What an accepted client has sent is received, unless the server ends:   *)
(* clients that are silent, finished or gone do not keep it from that.     *)
(***************************************************************************)
Served ==
    \A c \in Clients :
        c \in Accepted /\ chan[c] # <<>> ~> chan[c] = <<>> \/ srv = "ended"
=============================================================================

------------------------------- MODULE Sockets -------------------------------
(***************************************************************************)
(* The programs of ch03 and ch07 that read and write descriptors. They     *)
(* have nothing to do with each other, so a behaviour is one of one of     *)
(* them, which example names; the others stay where they start.            *)
(***************************************************************************)
EXTENDS Integers, Sequences

CONSTANTS
    Message, Chunk, ChannelSize, RioBuf,    \* posix.c: bytes written, so many at a
    MaxAsk, Uses,                           \*   time; RIO_BUFSIZE; what a reader calls
    Signals, Errors,                        \*   and how often read and write break
    Clients, Setups,                        \* select servers, and how they are used
    Getting, Addresses, Goods,              \* programs that get a socket, addresses and
    Failing, Faults,                        \*   those that work, calls that may fail
    Total, Header, Payload                  \* msgpeek: messages, and their two parts

VARIABLES
    example,    \* the one this behaviour is of
    rb_ops, rb_sent, rb_chan, rb_closed, rb_wleft, rb_buf, rb_op, rb_want,
    rb_out, rb_ret, rb_got, rb_signals, rb_errors, sv_setup, sv_srv,
    sv_rtfds, sv_rfds, sv_maxfd, sv_id, sv_fd, sv_peer, sv_sent, sv_chan,
    sv_shown, ep_prog, ep_good, ep_rp, ep_pc, ep_open, ep_sock, ep_out, ep_faults,
    pk_circle, pk_wire, pk_rbuf, pk_pc, pk_psize, pk_count, pk_torn

\* posix.c: rio_writen with rio_readn, or with rio_readnb and rio_readlineb
Posix == INSTANCE Rio WITH
    Message <- Message, Chunk <- Chunk, PipeSize <- ChannelSize, BufSize <- RioBuf,
    MaxAsk <- MaxAsk, Uses <- Uses, MaxSignals <- Signals, MaxErrors <- Errors,
    ops <- rb_ops, sent <- rb_sent, chan <- rb_chan, closed <- rb_closed,
    wleft <- rb_wleft, buf <- rb_buf, op <- rb_op, want <- rb_want,
    out <- rb_out, ret <- rb_ret, got <- rb_got, signals <- rb_signals,
    errors <- rb_errors

\* talk_server.c and text_server.c with their clients
Select == INSTANCE SelectServer WITH
    Clients <- Clients, Setups <- Setups, setup <- sv_setup, srv <- sv_srv,
    rtfds <- sv_rtfds, rfds <- sv_rfds, maxfd <- sv_maxfd, id <- sv_id,
    fd <- sv_fd, peer <- sv_peer, sent <- sv_sent, chan <- sv_chan,
    shown <- sv_shown

\* the calls all of them make to get a socket
Socket == INSTANCE Endpoint WITH
    Programs <- Getting, Addresses <- Addresses, Goods <- Goods, Failing <- Failing,
    Faults <- Faults, prog <- ep_prog, good <- ep_good, rp <- ep_rp,
    pc <- ep_pc, open <- ep_open, sock <- ep_sock, out <- ep_out,
    faults <- ep_faults

\* msgpeek_client.c and msgpeek_server.c
Framing == INSTANCE MsgPeek WITH
    Total <- Total, Header <- Header, Payload <- Payload,
    circle <- pk_circle, wire <- pk_wire, rbuf <- pk_rbuf, pc <- pk_pc,
    psize <- pk_psize, count <- pk_count, torn <- pk_torn

ASSUME SocketsAssumption ==
    Posix!WellFormed /\ Select!WellFormed /\ Framing!WellFormed

posixState ==
  <<rb_ops, rb_sent, rb_chan, rb_closed, rb_wleft, rb_buf, rb_op, rb_want,
    rb_out, rb_ret, rb_got, rb_signals, rb_errors>>
selectState ==
  <<sv_setup, sv_srv, sv_rtfds, sv_rfds, sv_maxfd, sv_id, sv_fd, sv_peer,
    sv_sent, sv_chan, sv_shown>>
socketState ==
  <<ep_prog, ep_good, ep_rp, ep_pc, ep_open, ep_sock, ep_out, ep_faults>>
framingState ==
  <<pk_circle, pk_wire, pk_rbuf, pk_pc, pk_psize, pk_count, pk_torn>>

socketsVars == <<example, posixState, selectState, socketState, framingState>>

\* what is not of the example has one way to start
SocketsInit ==
    /\ example \in {"Posix", "Select", "Socket", "Framing"}
    /\ Posix!Init /\ Select!Init /\ Socket!Init /\ Framing!Init
    /\ example # "Posix" => rb_ops = CHOOSE u \in Uses : TRUE
    /\ example # "Select" => sv_setup = CHOOSE s \in Setups : TRUE
    /\ example # "Socket" => ep_prog = CHOOSE p \in Socket!AllPrograms : p.name \in Getting
    /\ example # "Socket" => ep_good = CHOOSE g \in Goods : TRUE

SocketsNext ==
    /\ UNCHANGED example
    /\ IF example = "Posix" THEN Posix!Next ELSE UNCHANGED posixState
    /\ IF example = "Select" THEN Select!Next ELSE UNCHANGED selectState
    /\ IF example = "Socket" THEN Socket!Next ELSE UNCHANGED socketState
    /\ IF example = "Framing" THEN Framing!Next ELSE UNCHANGED framingState

\* The programs run: the reader and the writer of a descriptor, the servers (of
\* the clients nothing is asked), and a call that may succeed does in the end.
SocketsFairness ==
    /\ WF_posixState(/\ example = "Posix"
                     /\ Posix!WriteCall \/ Posix!WriteSome \/ Posix!Close)
    /\ WF_posixState(example = "Posix" /\ Posix!Read)
    /\ WF_selectState(example = "Select" /\ Select!Serve)
    /\ WF_socketState(example = "Socket" /\ Socket!Next)
    /\ WF_framingState(example = "Framing" /\ Framing!Send)
    /\ WF_framingState(example = "Framing" /\ Framing!Arrive)
    /\ WF_framingState(example = "Framing" /\ Framing!Serve)

SocketsSpec ==
    /\ SocketsInit
    /\ [][SocketsNext]_socketsVars
    /\ SocketsFairness

----------------------------------------------------------------------------
\* What is sent arrives. Rio reads and writes are a stream of bytes; a call of
\* it is short only at the end and a line ends at its newline, through cuts,
\* interrupts and errors; messages taken after a peek at their header stay
\* apart until one is taken that has come in part; and the text server prints
\* what a client that waits for it sent.
Arrives ==
    /\ Posix!ImplementsStream
    /\ [](/\ Posix!WritesWhole /\ Posix!ShortOnlyAtEof /\ Posix!LinesWhole
          /\ Framing!Framed
          /\ Select!AllShown)

\* Descriptors: those a server watches never pass the limit it sets itself,
\* however many clients come, and a program that found no address that works
\* has closed the sockets it tried.
Descriptors ==
    /\ Posix!TypeOK
    /\ Select!TypeOK /\ Select!FdsInRange
    /\ Socket!NothingLeft

\* Nobody waits for ever: Rio calls return, the servers receive what any client
\* sent but the text server whose scan a vanished client breaks off, a program has
\* its socket or gives up unless it is one of two that try a refused connect for ever,
\* and all messages are counted unless one was taken in part.
AllServed ==
    /\ example = "Posix" => Posix!CallsReturn
    /\ example = "Select" /\ ~(sv_setup.text /\ sv_setup.may_vanish # {}) => Select!Served
    /\ example = "Socket" => Socket!Settles
    /\ example = "Framing" => Framing!Counted
=============================================================================

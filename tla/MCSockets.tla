------------------------------ MODULE MCSockets ------------------------------
(***************************************************************************)
(* The programs with sockets, with short buffers and few clients.          *)
(***************************************************************************)
EXTENDS Sockets

Lines == <<"a", "nl", "b", "c", "nl", "d">>

Calls == {{"readn"}, {"readnb", "readlineb"}}

Three == {"c1", "c2", "c3"}
Two == {"c1", "c2"}

\* talk_server.c with two clients that may go or break as they like
Talk == [text |-> FALSE, users |-> Two, max_sent |-> 1, top_limit |-> 3,
         may_vanish |-> Two, may_reset |-> Two, paced |-> FALSE]

\* talk_server.c with more clients than its limit allows
Crowd == [text |-> FALSE, users |-> Three, max_sent |-> 0, top_limit |-> 1,
          may_vanish |-> {}, may_reset |-> Three, paced |-> FALSE]

\* text_server.c with clients that wait and end with their last message
Texts == [text |-> TRUE, users |-> Two, max_sent |-> 2, top_limit |-> 3,
          may_vanish |-> {}, may_reset |-> {}, paced |-> TRUE]

\* the same with clients that may vanish
TextsGone == [Texts EXCEPT !.may_vanish = Two]

Servers == {Talk, Crowd, Texts, TextsGone}

\* the first address among them or not, or none
SomeGood == {{1, 3}, {2, 3}, {}}

MayFail == {"socket", "getsockopt", "setsockopt", "listen", "nonblock", "cloexec",
            "gethostbyname", "getsockname", "accept", "bind", "connect"}

EveryProgram ==
    {"talk_server", "text_server", "talk_client", "text_client", "socket_server",
     "socket_client", "msgpeek_server", "msgpeek_client", "open_clientfd", "open_listenfd"}
=============================================================================

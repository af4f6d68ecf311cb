-------------------------------- MODULE Rio --------------------------------
(***************************************************************************)
(* The Rio package of src/ch03/t/posix.c over one descriptor: a writer     *)
(* calls rio_writen and closes, a reader calls either rio_readn or the     *)
(* buffered rio_readnb and rio_readlineb.  The kernel cuts reads and       *)
(* writes short, interrupts them with EINTR and may fail them.             *)
(***************************************************************************)
EXTENDS Integers, Sequences, SequencesExt

CONSTANTS
    Message,        \* the bytes the writer sends, in turn
    Chunk,          \* bytes of one rio_writen
    PipeSize,       \* bytes the channel holds
    BufSize,        \* RIO_BUFSIZE
    MaxAsk,         \* bound: bytes a read asks for
    Uses,           \* what a reader may call: {"readn"}, or the buffered ones
    MaxSignals,     \* bound: interrupts
    MaxErrors       \* bound: reads and writes that fail otherwise

WellFormed ==
    /\ Message \in Seq({Message[i] : i \in DOMAIN Message}) /\ Message # <<>>
    /\ {Chunk, MaxAsk} \subseteq Nat \ {0} /\ {PipeSize, BufSize} \subseteq Nat
    /\ Uses \subseteq {{"readn"}} \cup SUBSET {"readnb", "readlineb"}

VARIABLES
    ops,                    \* what this reader calls
    sent, chan, closed,     \* written so far, still in the channel, end of file
    wleft,                  \* rio_writen: nleft
    buf,                    \* rio_t: the bytes that are not copied yet
    op, want, out,          \* the reader's call, its nleft or maxlen, usrbuf
    ret,                    \* what the last call returned
    got,                    \* all bytes copied into user buffers
    signals, errors

vars == <<ops, sent, chan, closed, wleft, buf, op, want, out, ret, got, signals, errors>>

Newline == "nl"
Least(a, b) == IF a < b THEN a ELSE b

Init ==
    /\ ops \in Uses
    /\ sent = <<>> /\ chan = <<>> /\ closed = FALSE
    /\ wleft = 0
    /\ buf = <<>>                       \* rio_readinitb
    /\ op = "none" /\ want = 0 /\ out = <<>>
    /\ ret = [op |-> "none", val |-> 0]
    /\ got = <<>>
    /\ signals = 0 /\ errors = 0

Reader == <<ops, buf, op, want, out, ret, got>>
Writer == <<sent, closed, wleft>>

Signal == signals < MaxSignals /\ signals' = signals + 1 /\ UNCHANGED errors
Fail == errors < MaxErrors /\ errors' = errors + 1 /\ UNCHANGED signals
Calm == UNCHANGED <<signals, errors>>

----------------------------------------------------------------------------
(* rio_writen                                                              *)

WriteCall ==
    /\ wleft = 0 /\ ~closed /\ Len(sent) < Len(Message)
    /\ wleft' = Least(Chunk, Len(Message) - Len(sent))
    /\ UNCHANGED <<sent, chan, closed, Reader, signals, errors>>

Written(k) == SubSeq(Message, Len(sent) + 1, Len(sent) + k)

\* fault: a write that was cut short is taken for all
DoneAnyway(k) == 0
LeftToWrite(k) == wleft - k

\* write: some of the bytes, an interrupt, or an error, which ends the call
WriteSome ==
    /\ wleft > 0 /\ ~closed
    /\ \/ \E k \in 1..wleft :
            /\ Len(chan) + k <= PipeSize
            /\ Len(sent) + k <= Len(Message)
            /\ sent' = sent \o Written(k) /\ chan' = chan \o Written(k)
            /\ wleft' = LeftToWrite(k)
            /\ Calm /\ UNCHANGED closed
       \/ Signal /\ UNCHANGED <<sent, chan, closed, wleft>>
       \/ Fail /\ closed' = TRUE /\ UNCHANGED <<sent, chan, wleft>>
    /\ UNCHANGED Reader

\* the writer is done: end of file
Close ==
    /\ wleft = 0 /\ ~closed
    /\ closed' = TRUE
    /\ UNCHANGED <<sent, chan, wleft, Reader, signals, errors>>

----------------------------------------------------------------------------
(* The reader's calls.                                                     *)

Call(o) ==
    /\ op = "none" /\ o \in ops
    /\ op' = o
    /\ \E n \in 1..MaxAsk : want' = n
    /\ out' = <<>>
    /\ UNCHANGED <<Writer, ops, chan, buf, ret, got, signals, errors>>

Return(val) ==
    /\ op' = "none"
    /\ ret' = [op |-> op, val |-> val, want |-> want, out |-> out']

\* read(fd, .., n): the bytes it gives
Given(n) == {SubSeq(chan, 1, k) : k \in 1..Least(n, Len(chan))}
AtEof == closed /\ chan = <<>>

\* fault: a read of 0 bytes is tried again
EofAgain == FALSE
EofSeen == AtEof

\* fault: a short read is all there is
ShortIsAll(bytes) == bytes # <<>>
Complete(bytes) == Len(out) + Len(bytes) = want

\* rio_readn: one turn of its loop
ReadnSome ==
    /\ op = "readn"
    /\ \/ \E bytes \in Given(want - Len(out)) :
            /\ chan' = SubSeq(chan, Len(bytes) + 1, Len(chan))
            /\ out' = out \o bytes /\ got' = got \o bytes
            /\ IF Complete(bytes) THEN Return(Len(out')) ELSE UNCHANGED <<op, ret>>
            /\ Calm
       \/ /\ EofSeen
          /\ UNCHANGED <<chan, out, got>> /\ Calm
          /\ Return(Len(out))
       \/ /\ Signal /\ UNCHANGED <<chan, op, out, ret, got>>
       \/ /\ Fail /\ UNCHANGED <<chan, out, got>>
          /\ Return(-1)
    /\ UNCHANGED <<Writer, ops, buf, want>>

Buffered == op \in {"readnb", "readlineb"}

\* What a call of readlineb returns: n, which runs one ahead of the bytes
\* unless the last one is a newline.
LineValue(s) == IF s # <<>> /\ Last(s) = Newline THEN Len(s) ELSE Len(s) + 1

\* end of file: readlineb tells no data from some
EofValue == IF op = "readnb" \/ out = <<>> THEN Len(out) ELSE LineValue(out)

\* n runs from 1 to maxlen - 1: a place is kept for the terminating NUL
LineRoom == want - 1
LineFull == op = "readlineb" /\ Len(out) >= LineRoom

\* fault: the buffer is filled again although there are bytes in it
BufMayHold == TRUE
BufIsEmpty == buf = <<>>

\* rio_read with an empty buffer: refill it, try again after an interrupt
Refill ==
    /\ Buffered /\ ~LineFull /\ BufIsEmpty
    /\ \/ \E bytes \in Given(BufSize) :
            /\ buf' = bytes
            /\ chan' = SubSeq(chan, Len(bytes) + 1, Len(chan))
            /\ Calm /\ UNCHANGED <<op, out, ret>>
       \/ /\ EofSeen
          /\ UNCHANGED <<buf, chan, out>> /\ Calm
          /\ Return(EofValue)
       \/ Signal /\ UNCHANGED <<buf, chan, op, out, ret>>
       \/ /\ Fail /\ UNCHANGED <<buf, chan, out>>
          /\ Return(-1)
    /\ UNCHANGED <<Writer, ops, want, got>>

\* rio_read with bytes in the buffer: n of them are copied
TakeBuf(n) ==
    /\ out' = out \o SubSeq(buf, 1, n)
    /\ got' = got \o SubSeq(buf, 1, n)
    /\ buf' = SubSeq(buf, n + 1, Len(buf))

ReadnbCopy ==
    /\ op = "readnb" /\ buf # <<>>
    /\ TakeBuf(Least(Len(buf), want - Len(out)))
    /\ IF Len(out') = want THEN Return(Len(out')) ELSE UNCHANGED <<op, ret>>
    /\ UNCHANGED <<Writer, ops, chan, want, signals, errors>>

\* fault: the newline does not end the line
NoEnd(c) == FALSE
LineEnd(c) == c = Newline

ReadlineCopy ==
    /\ op = "readlineb" /\ ~LineFull /\ buf # <<>>
    /\ TakeBuf(1)
    /\ IF LineEnd(Head(buf)) THEN Return(LineValue(out')) ELSE UNCHANGED <<op, ret>>
    /\ UNCHANGED <<Writer, ops, chan, want, signals, errors>>

ReadlineFull ==
    /\ LineFull
    /\ UNCHANGED <<Writer, ops, chan, buf, want, out, got, signals, errors>>
    /\ Return(LineValue(out))

Read == ReadnSome \/ Refill \/ ReadnbCopy \/ ReadlineCopy \/ ReadlineFull

Next ==
    \/ WriteCall \/ WriteSome \/ Close
    \/ \E o \in ops : Call(o)
    \/ Read

Spec == Init /\ [][Next]_vars

----------------------------------------------------------------------------
(***************************************************************************)
(* Types; and what a line may hold: at most maxlen - 1 bytes, since a NUL  *)
(* is stored behind them (688).                                            *)
(***************************************************************************)
TypeOK ==
    /\ Len(buf) <= BufSize /\ Len(chan) <= PipeSize
    /\ wleft \in 0..Chunk /\ op \in ops \cup {"none"}
    /\ ret.op = "readlineb" => Len(ret.out) < ret.want
    /\ ret.op \in {"readn", "readnb"} => Len(ret.out) <= ret.want

(***************************************************************************)
(* rio_writen leaves nothing out: between two calls the bytes sent are     *)
(* whole arguments of them.                                                *)
(***************************************************************************)
WritesWhole ==
    LET n == Len(sent) + wleft IN n % Chunk = 0 \/ n = Len(Message)

(***************************************************************************)
(* The bytes reach the callers in order and once, however reads and writes *)
(* are cut and interrupted and through whatever mixture of calls.          *)
(***************************************************************************)
Stream == INSTANCE ByteStream

ImplementsStream == Stream!Spec

(***************************************************************************)
(* A call of rio_readn or rio_readnb that returns fewer bytes than asked   *)
(* for, and no error, has met the end of the file (540, 640: "robustly     *)
(* read n bytes").                                                         *)
(***************************************************************************)
ShortOnlyAtEof ==
    (op = "none" /\ ret.op \in {"readn", "readnb"} /\ ret.val >= 0 /\ ret.val < ret.want)
        => AtEof /\ buf = <<>>

(***************************************************************************)
(* A line ends at its newline and nowhere else, unless it fills its buffer *)
(* or the file ends.                                                       *)
(***************************************************************************)
LinesWhole ==
    (op = "none" /\ ret.op = "readlineb" /\ ret.val > 0) =>
        /\ \A i \in 1..(Len(ret.out) - 1) : ret.out[i] # Newline
        /\ \/ Len(ret.out) = ret.want - 1
           \/ Last(ret.out) = Newline
           \/ AtEof /\ buf = <<>>

(***************************************************************************)
(* Every call returns: reads are taken up again after interrupts, and the  *)
(* end of the file is noticed.                                             *)
(***************************************************************************)
CallsReturn == op # "none" ~> op = "none"

============================================================================

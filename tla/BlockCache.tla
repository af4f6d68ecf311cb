----------------------------- MODULE BlockCache -----------------------------
(***************************************************************************)
(* What the clients of dm-bufio.c may rely on: a write-back cache over a   *)
(* device that can fail and that has a volatile cache of its own.  There   *)
(* are no buffers, lists, locks, reference counts or state bits here, only *)
(* blocks, what the clients have in their hands, and the device.           *)
(*                                                                         *)
(* The contents of a block are numbered in the order they are made.  What  *)
(* a client has or does not have is a set with one element or none.        *)
(***************************************************************************)
EXTENDS Naturals

CONSTANTS
  Users,
  Blocks,
  Contents    \* numbers

VARIABLES
  open,       \* the cache was not destroyed
  latest,     \* the newest content of each block
  disk,       \* its content in the device
  durable,    \* its content that survives a power cut
  lost,       \* blocks with a write that failed, nobody was told of it
  told,       \* blocks with a write that failed, a flush has returned an error
  call,       \* of a client: the block it asks for, or moves its buffer to
  hand,       \* of a client: the block and the content of the buffer it has
  want,       \* of a client: the contents its flush is to make durable
  error       \* clients whose last flush failed

device == <<disk, durable, lost, told>>
vars == <<open, latest, device, call, hand, want, error>>

Missing  == lost \cup told
Newer(k) == {g \in Contents : g >= latest[k]}

Init ==
  /\ open = TRUE
  /\ latest = [k \in Blocks |-> 1] /\ disk = latest /\ durable = latest
  /\ lost = {} /\ told = {}
  /\ call = [t \in Users |-> {}] /\ hand = [t \in Users |-> {}]
  /\ want = [t \in Users |-> {}] /\ error = {}

\* Any call but a flush may drop the result of the last flush of its client.
Calling(t)  == open /\ error' \in {error, error \ {t}}
Quietly   == open /\ UNCHANGED error

HandedOut(k) == {t \in Users : \E h \in hand[t] : h.block = k}

\* A client that makes block k anew has yet to say what is in it.
BeingMade(k) == \E u \in Users : [op |-> "new", block |-> k] \in call[u]

-----------------------------------------------------------------------------
(* Buffers.                                                                *)

\* dm_bufio_read and dm_bufio_get ("get"), dm_bufio_new, dm_bufio_release_move.
Ask(t, op, k) ==
  /\ Calling(t) /\ call[t] = {} /\ want[t] = {} /\ (op # "move" => hand[t] = {})
  /\ call' = [call EXCEPT ![t] = {[op |-> op, block |-> k]}]
  /\ UNCHANGED <<latest, device, hand, want>>

\* It has the last content of the block, unless a failed write took that.
Sound(k, g) == g = latest[k] \/ k \in Missing \/ BeingMade(k)

Get(t) == \E k \in Blocks, g \in Contents :
  /\ Calling(t) /\ call[t] = {[op |-> "get", block |-> k]} /\ Sound(k, g)
  /\ hand' = [hand EXCEPT ![t] = {[block |-> k, gen |-> g]}]
  /\ call' = [call EXCEPT ![t] = {}]
  /\ UNCHANGED <<latest, device, want>>

\* The device could not read it, or dm_bufio_get did not find it.
GetNothing(t) ==
  /\ Calling(t) /\ hand[t] = {} /\ call[t] # {}
  /\ call' = [call EXCEPT ![t] = {}]
  /\ UNCHANGED <<latest, device, hand, want>>

\* All who have a buffer of block k share its memory.
Share(k, g) == [u \in Users |-> IF u \in HandedOut(k) THEN {[block |-> k, gen |-> g]}
                                                        ELSE hand[u]]

\* The client writes to the buffer it has and marks it dirty.
Change(t) == \E h \in hand[t] : \E g \in Newer(h.block) :
  /\ Calling(t) /\ call[t] = {} /\ want[t] = {}
  /\ latest' = [latest EXCEPT ![h.block] = g]
  /\ hand' = Share(h.block, g)
  /\ UNCHANGED <<device, call, want>>

\* The client of dm_bufio_new does that before anything else.
Make(t) == \E k \in Blocks : \E g \in Newer(k) :
  /\ Calling(t) /\ call[t] = {[op |-> "new", block |-> k]}
  /\ latest' = [latest EXCEPT ![k] = g]
  /\ hand' = [Share(k, g) EXCEPT ![t] = {[block |-> k, gen |-> g]}]
  /\ call' = [call EXCEPT ![t] = {}]
  /\ UNCHANGED <<device, want>>

\* What the client has becomes the content of another block, which nobody has.
\* Whoever else has it keeps it as the block it was.
Move(t) == \E k \in Blocks : \E g \in Newer(k) :
  /\ Calling(t) /\ call[t] = {[op |-> "move", block |-> k]} /\ HandedOut(k) = {}
  /\ latest' = [latest EXCEPT ![k] = g]
  /\ hand' \in {hand, [hand EXCEPT ![t] = {[block |-> k, gen |-> g]}]}
  /\ call' = [call EXCEPT ![t] = {}]
  /\ UNCHANGED <<device, want>>

Give(t) ==
  /\ Calling(t) /\ call[t] = {} /\ want[t] = {}
  /\ hand' = [hand EXCEPT ![t] = {}]
  /\ UNCHANGED <<latest, device, call, want>>

\* Any other call.
Other(t) == Calling(t) /\ UNCHANGED <<latest, device, call, hand, want>>

-----------------------------------------------------------------------------
(* The device.                                                             *)

\* The contents of a block are written in the order they were made, the cache
\* may skip some; a write that succeeds makes up for one that failed.
Write(k) ==
  /\ Quietly
  /\ \E g \in disk[k] .. latest[k] : disk' = [disk EXCEPT ![k] = g]
  /\ lost' = lost \ {k} /\ told' = told \ {k}
  /\ UNCHANGED <<latest, durable, call, hand, want>>

WriteFails(k) ==
  /\ Quietly /\ lost' = lost \cup {k}
  /\ UNCHANGED <<latest, disk, durable, told, call, hand, want>>

-----------------------------------------------------------------------------
(* dm_bufio_write_dirty_buffers.                                           *)

Flush(t) ==
  /\ open /\ call[t] = {} /\ want[t] = {}
  /\ want' = [want EXCEPT ![t] = {latest}]
  /\ error' = error \ {t}
  /\ UNCHANGED <<latest, device, call, hand>>

\* A failed write is told to one flush, and to some flush it is.
Tell(t) ==
  /\ open /\ want[t] # {}
  /\ told' = told \cup lost /\ lost' = {}
  /\ \/ error' = error \cup {t}
     \/ lost = {} /\ error' = error \ {t}
  /\ UNCHANGED <<latest, disk, durable, call, hand, want>>

Returns(t) == want' = [want EXCEPT ![t] = {}] /\ UNCHANGED <<latest, disk, lost, told, call, hand>>

\* All that the clients had changed before the call is durable, but what the
\* errors of which some flush was told have taken.
FlushSucceeds(t) == \E snap \in want[t] :
  /\ open /\ t \notin error /\ UNCHANGED error
  /\ \A k \in Blocks : disk[k] >= snap[k] \/ k \in told
  /\ durable' = disk /\ Returns(t)

FlushFails(t) ==
  /\ open /\ want[t] # {} /\ error' = error \cup {t}
  /\ durable' \in {durable, disk} /\ Returns(t)

\* dm_bufio_client_destroy: everything is in the device.
Destroy ==
  /\ open /\ open' = FALSE /\ error' \subseteq error
  /\ \A t \in Users : call[t] = {} /\ hand[t] = {} /\ want[t] = {}
  /\ \A k \in Blocks : disk[k] = latest[k] \/ k \in Missing
  /\ UNCHANGED <<latest, device, call, hand, want>>

-----------------------------------------------------------------------------
Client(t) ==
  \/ Other(t)
  \/ \E k \in Blocks, op \in {"get", "new", "move"} : Ask(t, op, k)
  \/ Get(t) \/ GetNothing(t) \/ Change(t) \/ Make(t) \/ Move(t) \/ Give(t)
  \/ Flush(t) \/ Tell(t) \/ FlushSucceeds(t) \/ FlushFails(t)

Next == \/ /\ UNCHANGED open
           /\ \/ \E t \in Users : Client(t)
              \/ \E k \in Blocks : Write(k) \/ WriteFails(k)
        \/ Destroy

Spec == Init /\ [][Next]_vars
=============================================================================

------------------------------ MODULE BufferAge ------------------------------
(***************************************************************************)
(* The ageing of dm-bufio's buffers in machine arithmetic: last_accessed   *)
(* and jiffies wrap around with an unsigned long, the age the worker uses  *)
(* is computed in an unsigned int, and it looks at the clean list from its *)
(* tail until it meets a buffer that is too young.  One client; its lock   *)
(* is held while the worker is in __evict_old_buffers.  Both parameters    *)
(* may change at any time, so that reading them gives any of their values. *)
(***************************************************************************)
EXTENDS Integers, Sequences, FiniteSets, SequencesExt

CONSTANTS
    Buffers,
    HZ,
    UIntMax,        \* UINT_MAX
    ULongSize,      \* ULONG_MAX + 1
    Boot,           \* jiffies at time 0, shortly before they wrap around
    Ages,           \* values of dm_bufio_max_age, in seconds
    Targets,        \* what get_retain_buffers may return
    MaxNow          \* bound: how long the machine runs, in jiffies

\* A long has room for every age and the time the machine runs, as 64 bits do.
WellFormed ==
    /\ IsFiniteSet(Buffers) /\ HZ \in Nat \ {0} /\ UIntMax \in Nat
    /\ ULongSize \in Nat /\ Boot \in Nat /\ MaxNow \in Nat
    /\ Ages \subseteq Nat /\ Targets \subseteq Nat
    /\ UIntMax + MaxNow < ULongSize \div 2

VARIABLES
    now,        \* true time
    lru,        \* the clean list, first the one linked last
    dirty,      \* buffers on the dirty list
    when,       \* true time of the last access
    held, reading,
    pass        \* what the worker is doing

vars == <<now, lru, dirty, when, held, reading, pass>>

Idle == [step |-> "idle"]

Init ==
    /\ now = 0 /\ lru = <<>> /\ dirty = {}
    /\ when = [b \in Buffers |-> 0]
    /\ held = {} /\ reading = {} /\ pass = Idle

Clean == ToSet(lru)

TypeOK ==
    /\ now \in 0..MaxNow /\ lru \in Seq(Buffers) /\ dirty \subseteq Buffers
    /\ IsInjective(lru) /\ Clean \cap dirty = {}
    /\ when \in [Buffers -> 0..now]
    /\ held \cup reading \subseteq Clean \cup dirty
    /\ pass.step \in {"idle", "age", "scan", "done"}

jiffies(t) == (Boot + t) % ULongSize
last_accessed(b) == jiffies(when[b])

Tick ==
    /\ now < MaxNow /\ now' = now + 1
    /\ UNCHANGED <<lru, dirty, when, held, reading, pass>>

----------------------------------------------------------------------------
(* The users, under the lock of the client.                                *)

Unlocked == pass.step \notin {"scan", "done"}

Unlinked(b) ==
    IF b \in Clean THEN RemoveAt(lru, CHOOSE i \in DOMAIN lru : lru[i] = b) ELSE lru

\* fault: the buffer is linked a second time
Unmoved(b) == <<b>> \o lru
\* fault: the buffer stays where it is in the list
InPlace(b) == IF b \in Clean THEN lru ELSE <<b>> \o lru
ToFront(b) == <<b>> \o Unlinked(b)

LinkClean(b) ==
    /\ lru' = ToFront(b) /\ dirty' = dirty \ {b}
    /\ when' = [when EXCEPT ![b] = now]

LinkDirty(b) ==
    /\ lru' = Unlinked(b) /\ dirty' = dirty \cup {b}
    /\ when' = [when EXCEPT ![b] = now]

\* A new buffer, which is read or overwritten.
Insert(b) ==
    /\ Unlocked /\ b \notin Clean \cup dirty
    /\ LinkClean(b)
    /\ held' = held \cup {b}
    /\ reading' \in {reading, reading \cup {b}}
    /\ UNCHANGED <<now, pass>>

\* One that is found is linked again to the list it is on.
Get(b) ==
    /\ Unlocked /\ b \in (Clean \cup dirty) \ held
    /\ IF b \in dirty THEN LinkDirty(b) ELSE LinkClean(b)
    /\ held' = held \cup {b}
    /\ UNCHANGED <<now, reading, pass>>

Release(b) ==
    /\ Unlocked /\ b \in held
    /\ held' = held \ {b}
    /\ UNCHANGED <<now, lru, dirty, when, reading, pass>>

MarkDirty(b) ==
    /\ Unlocked /\ b \in (held \cap Clean) \ reading
    /\ LinkDirty(b)
    /\ UNCHANGED <<now, held, reading, pass>>

\* Its write is over, and somebody finds it on the dirty list.
Written(b) ==
    /\ Unlocked /\ b \in dirty
    /\ LinkClean(b)
    /\ UNCHANGED <<now, held, reading, pass>>

\* The shrinker takes it, a full cache, or the end of a failed read.
Drop(b) ==
    /\ Unlocked /\ b \in Clean \ (held \cup reading)
    /\ lru' = Unlinked(b)
    /\ UNCHANGED <<now, dirty, when, held, reading, pass>>

\* needs no lock
ReadDone(b) ==
    /\ b \in reading
    /\ reading' = reading \ {b}
    /\ UNCHANGED <<now, lru, dirty, when, held, pass>>

----------------------------------------------------------------------------
(* The worker.                                                             *)

Clamped(max_age) == IF max_age > UIntMax \div HZ THEN UIntMax \div HZ ELSE max_age

\* fault: the number of seconds is not cut
Unclamped(max_age) == (max_age * HZ) % (UIntMax + 1)
get_max_age_hz(max_age) == (Clamped(max_age) * HZ) % (UIntMax + 1)

\* time_after_eq: the difference as a signed long is not negative
AfterEq(s, t) == (s - t) % ULongSize < ULongSize \div 2

older_than(b, age_hz) == AfterEq(jiffies(now), (last_accessed(b) + age_hz) % ULongSize)

ReadAge ==
    /\ pass.step = "idle"
    /\ \E a \in Ages : pass' = [step |-> "age", max_age |-> a, age_hz |-> get_max_age_hz(a)]
    /\ UNCHANGED <<now, lru, dirty, when, held, reading>>

Begin ==
    /\ pass.step = "age"
    /\ \E t \in Targets :
        pass' = [step |-> "scan", max_age |-> pass.max_age, age_hz |-> pass.age_hz,
                 retain_target |-> t, next |-> Len(lru), began |-> now, skipped |-> {}]
    /\ UNCHANGED <<now, lru, dirty, when, held, reading>>

\* nobody else changes it under the lock
Count == Len(lru) + Cardinality(dirty)

More ==
    /\ pass.next > 0
    /\ Count > pass.retain_target
    /\ older_than(lru[pass.next], pass.age_hz)

Visit ==
    /\ pass.step = "scan" /\ More
    /\ LET b == lru[pass.next] IN
        IF b \in held \cup reading
        THEN /\ pass' = [pass EXCEPT !.next = @ - 1, !.skipped = @ \cup {b}]
             /\ UNCHANGED lru
        ELSE /\ pass' = [pass EXCEPT !.next = @ - 1]
             /\ lru' = RemoveAt(lru, pass.next)
    /\ UNCHANGED <<now, dirty, when, held, reading>>

Over ==
    /\ pass.step = "scan" /\ ~More
    /\ pass' = [pass EXCEPT !.step = "done"]
    /\ UNCHANGED <<now, lru, dirty, when, held, reading>>

Unlock ==
    /\ pass.step = "done"
    /\ pass' = Idle
    /\ UNCHANGED <<now, lru, dirty, when, held, reading>>

Next ==
    \/ Tick \/ ReadAge \/ Begin \/ Visit \/ Over \/ Unlock
    \/ \E b \in Buffers : \/ Insert(b) \/ Get(b) \/ Release(b)
                          \/ MarkDirty(b) \/ Written(b) \/ ReadDone(b) \/ Drop(b)

Spec == Init /\ [][Next]_vars

----------------------------------------------------------------------------
Age(b, t) == t - when[b]

(***************************************************************************)
(* Of a step: a buffer the worker frees was not used for the seconds the   *)
(* parameter said when it was read, or for as many as an unsigned int of   *)
(* jiffies has; wherever jiffies are.                                      *)
(***************************************************************************)
NotTooYoung ==
    pass.step = "scan" =>
        \A b \in Clean \ ToSet(lru') : Age(b, now) >= HZ * Clamped(pass.max_age)

(***************************************************************************)
(* A pass that is over left no buffer that was old when it began, unless   *)
(* it was in use when it was looked at or no more may be freed: the worker *)
(* stops at the first young one because everything nearer to the head was  *)
(* used after it.                                                          *)
(***************************************************************************)
NoOldLeft ==
    pass.step = "done" =>
        \A b \in Clean : \/ Age(b, pass.began) < pass.age_hz
                         \/ b \in pass.skipped
                         \/ Count <= pass.retain_target
=============================================================================

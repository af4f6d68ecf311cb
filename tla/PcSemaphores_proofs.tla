------------------------- MODULE PcSemaphores_proofs -------------------------
(***************************************************************************)
(* For any number of pairs, rounds and slots.                              *)
(***************************************************************************)
EXTENDS PcSemaphores, FiniteSetTheorems, TLAPS

Labels == {"unborn", "number", "wait", "lock", "copy", "index", "read", "unlock", "post", "over"}
Working == {"wait", "lock", "copy", "index", "read", "unlock", "post"}
Inside  == {"copy", "index", "read", "unlock"}

Types ==
    /\ product \in Nat /\ warehouse \in Nat /\ idx \in Nat /\ mutex \in Nat
    /\ at \in [Threads -> Labels]
    /\ round \in [Threads -> Nat]
    /\ buf \in [0..(Slots - 1) -> Goods \cup {<<>>}]
    /\ sold \subseteq Goods
    /\ \A t \in Threads : at[t] \in Working => round[t] \in 1..Rounds
    /\ \A t \in Threads : at[t] \in {"unborn", "number"} => round[t] = 1
    /\ \A p \in Makers : at[p] # "read"
    /\ \A c \in Takers : at[c] # "copy"

\* Main creates each thread once.
Later(t, m) == t[2] > m[2] \/ (t[2] = m[2] /\ (t = m \/ t[1] = "consumer"))
Unborn ==
    /\ main \in Threads \cup {<<"join", 0>>, <<"exit", 0>>}
    /\ main \in Threads => \A t \in Threads : Later(t, main) => at[t] = "unborn"

\* The semaphores count what they stand for.
Critical == Between(Threads, Inside)
Counts ==
    /\ mutex + Critical = 1
    /\ product + Between(Takers, {"lock", "index"}) + Between(Makers, {"unlock", "post"}) = idx
    /\ warehouse + idx + Between(Makers, {"lock", "copy", "index"})
         + Between(Takers, {"read", "unlock", "post"}) = Slots

\* The places with a good, the one somebody is just reading included.
Reading == \E c \in Takers : at[c] = "read"
Held    == IF Reading THEN idx + 1 ELSE idx

\* The goods there are were made in a round that is over but for its end.
Made(g) == g \in Goods /\ (g[2] < round[g[1]] \/ (g[2] = round[g[1]] /\ at[g[1]] \in {"unlock", "post"}))
Stacked ==
    /\ \A i \in 0..(Held - 1) : Made(buf[i])
    /\ \A g \in sold : Made(g)
    /\ \A i, j \in 0..(Held - 1) : buf[i] = buf[j] => i = j
    /\ \A p \in Makers : at[p] = "index" => buf[idx] = <<p, round[p]>>

Inv == Types /\ Unborn /\ Counts /\ Stacked

----------------------------------------------------------------------------
(* Counting.                                                               *)

\* The threads are finitely many, in two kinds.
LEMMA ThreadsFinite ==
    ASSUME WellFormed
    PROVE  /\ IsFiniteSet(Makers) /\ IsFiniteSet(Takers) /\ IsFiniteSet(Threads)
           /\ Makers \cap Takers = {}
<1>1. \A k : IsFiniteSet({<<k, n>> : n \in 1..N})
  <2>1. IsFiniteSet(1..N)
    BY FS_Interval DEF WellFormed
  <2>2. TAKE k
  <2>3. [n \in 1..N |-> <<k, n>>] \in Surjection(1..N, {<<k, n>> : n \in 1..N})
    BY DEF Surjection
  <2> QED
    BY <2>1, <2>3, FS_Surjection
<1>2. IsFiniteSet(Makers) /\ IsFiniteSet(Takers)
  BY <1>1 DEF Makers, Takers
<1>3. Makers \cap Takers = {}
  BY DEF Makers, Takers
<1>4. IsFiniteSet(Threads)
  BY <1>2, FS_Union DEF Threads
<1> QED
  BY <1>2, <1>3, <1>4

In(x, S) == IF x \in S THEN 1 ELSE 0

\* One thread moves: a count changes by what it leaves and what it comes to.
LEMMA CountMoves ==
    ASSUME WellFormed, at \in [Threads -> Labels], NEW S \in SUBSET Threads, NEW ls,
           NEW t \in Threads, NEW l, at' = [at EXCEPT ![t] = l]
    PROVE  /\ Between(S, ls) \in Nat /\ Between(S, ls)' \in Nat
           /\ Between(S, ls)' = IF t \in S THEN Between(S, ls) - In(at[t], ls) + In(l, ls) ELSE Between(S, ls)
<1> DEFINE A == {u \in S : at[u] \in ls}
           B == {u \in S : at'[u] \in ls}
<1>1. IsFiniteSet(A) /\ IsFiniteSet(B)
  BY ThreadsFinite, FS_Subset
<1>2. Cardinality(A) \in Nat /\ Cardinality(B) \in Nat
  BY <1>1, FS_CardinalityType
<1>3. Cardinality(A \ {t}) = IF t \in A THEN Cardinality(A) - 1 ELSE Cardinality(A)
  BY <1>1, FS_RemoveElement
<1>4. Cardinality(B \ {t}) = IF t \in B THEN Cardinality(B) - 1 ELSE Cardinality(B)
  BY <1>1, FS_RemoveElement
<1>5. A \ {t} = B \ {t} /\ (t \in A <=> t \in S /\ at[t] \in ls) /\ (t \in B <=> t \in S /\ l \in ls)
  OBVIOUS
<1>6. Cardinality(B) = IF t \in S THEN Cardinality(A) - In(at[t], ls) + In(l, ls) ELSE Cardinality(A)
  <2>1. Cardinality(A \ {t}) = Cardinality(B \ {t})
    BY <1>5
  <2> QED
    BY <1>2, <1>3, <1>4, <1>5, <2>1 DEF In
<1> QED
  BY <1>2, <1>6 DEF Between

\* What one step of a thread does to the five counts.
Change(S, ls, t, l) == IF t \in S THEN In(l, ls) - In(at[t], ls) ELSE 0

\* A step of one thread changes each of the five counts by no more than one.
LEMMA AllCounts ==
    ASSUME WellFormed, Types, NEW t \in Threads, NEW l, at' = [at EXCEPT ![t] = l]
    PROVE  /\ Critical \in Nat /\ Critical' = Critical + Change(Threads, Inside, t, l)
           /\ \A S \in {Makers, Takers} : \A ls \in {{"lock", "index"}, {"unlock", "post"}, {"lock", "copy", "index"}, {"read", "unlock", "post"}} :
                /\ Between(S, ls) \in Nat /\ Between(S, ls)' \in Nat
                /\ Between(S, ls)' = Between(S, ls) + Change(S, ls, t, l)
<1>0. \A S \in {Makers, Takers, Threads} : S \in SUBSET Threads
  BY DEF Threads
<1>1. Critical \in Nat /\ Critical' = Critical + Change(Threads, Inside, t, l)
  <2>1. Between(Threads, Inside) \in Nat /\ Between(Threads, Inside)' = Between(Threads, Inside) - In(at[t], Inside) + In(l, Inside)
    BY <1>0, CountMoves DEF Types
  <2> QED
    BY <2>1 DEF Critical, Change, In
<1>2. ASSUME NEW S \in {Makers, Takers}, NEW ls
      PROVE  /\ Between(S, ls) \in Nat /\ Between(S, ls)' \in Nat
             /\ Between(S, ls)' = Between(S, ls) + Change(S, ls, t, l)
  <2>1. /\ Between(S, ls) \in Nat /\ Between(S, ls)' \in Nat
        /\ Between(S, ls)' = IF t \in S THEN Between(S, ls) - In(at[t], ls) + In(l, ls) ELSE Between(S, ls)
    BY <1>0, CountMoves DEF Types
  <2> QED
    BY <2>1 DEF Change, In
<1> QED
  BY <1>1, <1>2

\* A place where a thread is counts at least for one.
LEMMA Counted ==
    ASSUME WellFormed, NEW S \in {Makers, Takers, Threads}, NEW ls, NEW t \in S, at[t] \in ls
    PROVE  Between(S, ls) >= 1 /\ (Between(S, ls) = 1 => \A u \in S : at[u] \in ls => u = t)
<1> DEFINE A == {u \in S : at[u] \in ls}
<1>1. IsFiniteSet(A) /\ t \in A
  BY ThreadsFinite, FS_Subset
<1>2. Cardinality(A) \in Nat /\ Cardinality(A \ {t}) = Cardinality(A) - 1 /\ Cardinality(A \ {t}) \in Nat /\ IsFiniteSet(A \ {t})
  BY <1>1, FS_RemoveElement, FS_CardinalityType, FS_Subset
<1>3. Cardinality(A) = 1 => A \ {t} = {}
  BY <1>2, FS_EmptySet
<1> QED
  BY <1>2, <1>3 DEF Between

\* A thread with the mutex is alone with it.
LEMMA Alone ==
    ASSUME WellFormed, Inv, NEW t \in Threads, at[t] \in Inside
    PROVE  mutex = 0 /\ \A u \in Threads : at[u] \in Inside => u = t
<1>1. Critical >= 1 /\ (Critical = 1 => \A u \in Threads : at[u] \in Inside => u = t)
  BY Counted DEF Critical
<1>2. mutex \in Nat /\ mutex + Critical = 1 /\ Critical \in Nat
  <2>1. at' = [at EXCEPT ![t] = "over"] => Critical \in Nat
    BY AllCounts DEF Inv
  <2>2. IsFiniteSet({u \in Threads : at[u] \in Inside})
    BY ThreadsFinite, FS_Subset
  <2>3. Critical \in Nat
    BY <2>2, FS_CardinalityType DEF Critical, Between
  <2> QED
    BY <2>3 DEF Inv, Types, Counts
<1> QED
  BY <1>1, <1>2

\* The counts are numbers.
LEMMA CountNat == ASSUME WellFormed, NEW S \in {Makers, Takers, Threads}, NEW ls PROVE Between(S, ls) \in Nat
<1>1. IsFiniteSet({u \in S : at[u] \in ls})
  BY ThreadsFinite, FS_Subset
<1> QED
  BY <1>1, FS_CardinalityType DEF Between

\* What is on the stack, in one expression.
LEMMA StackIs == ASSUME idx \in Nat PROVE OnStack = {buf[i] : i \in 0..(Held - 1)}
<1>1. CASE Reading
  <2>1. InHand = {buf[idx]}
    BY <1>1 DEF InHand, Reading
  <2>2. 0..(Held - 1) = 0..(idx - 1) \cup {idx}
    BY <1>1 DEF Held
  <2> QED
    BY <2>1, <2>2 DEF OnStack
<1>2. CASE ~Reading
  <2>1. InHand = {}
    BY <1>2 DEF InHand, Reading
  <2> QED
    BY <1>2, <2>1 DEF OnStack, Held
<1> QED
  BY <1>1, <1>2

----------------------------------------------------------------------------
(* Steps.                                                                  *)

\* A thread goes on; its round ends, or stays.
Moves(t, l) ==
    /\ at' = [at EXCEPT ![t] = l] /\ l \in Labels
    /\ \/ /\ round' = round
          /\ at[t] \in {"unlock", "post"} => l \in {"unlock", "post"}
       \/ at[t] = "post" /\ round' = [round EXCEPT ![t] = @ + 1]

\* What is made stays made.
LEMMA MadeStays == ASSUME Types, NEW t \in Threads, NEW l, Moves(t, l) PROVE \A g : Made(g) => Made(g)'
<1> SUFFICES ASSUME NEW g, Made(g) PROVE Made(g)'
  OBVIOUS
<1>1. g \in Goods /\ g[1] \in Threads /\ g[2] \in Nat
  BY DEF Made, Goods, Threads
<1>2. round[g[1]] \in Nat
  BY <1>1 DEF Types
<1>3. CASE g[1] = t
  BY <1>1, <1>2, <1>3 DEF Made, Moves, Types
<1>4. CASE g[1] # t
  BY <1>1, <1>2, <1>4 DEF Made, Moves, Types
<1> QED
  BY <1>3, <1>4

\* A thread comes to a place of its own loop, in a round there is.
Legal(t, l) ==
    /\ l \in Working => round'[t] \in 1..Rounds
    /\ l # "unborn" /\ (l = "number" => round'[t] = 1)
    /\ t \in Makers => l # "read"
    /\ t \in Takers => l # "copy"

\* Types and main's progress survive such a step.
LEMMA TypesKept ==
    ASSUME WellFormed, Inv, NEW t \in Threads, NEW l, Moves(t, l), Legal(t, l), at[t] # "unborn",
           product' \in Nat, warehouse' \in Nat, idx' \in Nat, mutex' \in Nat,
           buf' \in [0..(Slots - 1) -> Goods \cup {<<>>}], sold' \subseteq Goods, main' = main
    PROVE  Types' /\ Unborn'
<1>1. \A u \in Makers \cup Takers : u \in Threads
  BY DEF Threads
<1>2. at' \in [Threads -> Labels] /\ round' \in [Threads -> Nat]
  BY DEF Inv, Types, Moves
<1>3. \A u \in Threads : u # t => at'[u] = at[u] /\ round'[u] = round[u]
  BY DEF Inv, Types, Moves
<1>4. at'[t] = l
  BY DEF Inv, Types, Moves
<1>5. /\ \A u \in Threads : at'[u] \in Working => round'[u] \in 1..Rounds
      /\ \A u \in Threads : at'[u] \in {"unborn", "number"} => round'[u] = 1
      /\ \A p \in Makers : at'[p] # "read"
      /\ \A u \in Takers : at'[u] # "copy"
  BY <1>1, <1>3, <1>4 DEF Inv, Types, Legal
<1>6. Types'
  BY <1>2, <1>5 DEF Types
<1>7. Unborn'
  BY <1>3 DEF Inv, Unborn, Later
<1> QED
  BY <1>6, <1>7

\* Nothing happens on the stack.
LEMMA StackedKept ==
    ASSUME WellFormed, Inv, NEW t \in Threads, NEW l, Moves(t, l), UNCHANGED <<buf, idx, sold>>,
           at[t] # "read" \/ t \in Makers, l # "read" \/ t \in Makers, t \in Makers => l # "index"
    PROVE  Stacked' /\ UNCHANGED <<OnStack, sold>>
<1>1. Makers \cap Takers = {} /\ Threads = Makers \cup Takers
  BY ThreadsFinite DEF Threads
<1>2. \A u \in Takers : at'[u] = "read" <=> at[u] = "read"
  BY <1>1 DEF Inv, Types, Moves
<1>3. Reading' = Reading /\ Held' = Held /\ UNCHANGED OnStack
  BY <1>2 DEF Reading, Held, OnStack, InHand
<1>4. \A g : Made(g) => Made(g)'
  BY MadeStays DEF Inv
<1>5. \A p \in Makers : at'[p] = "index" => at[p] = "index" /\ round'[p] = round[p]
  BY <1>1 DEF Inv, Types, Moves
<1> QED
  BY <1>3, <1>4, <1>5 DEF Inv, Stacked

\* What the semaphores and the index have to be after a step.
Tallied(t, l) ==
    /\ mutex' \in Nat /\ product' \in Nat /\ warehouse' \in Nat /\ idx' \in Nat
    /\ mutex' = mutex - Change(Threads, Inside, t, l)
    /\ product' + Change(Takers, {"lock", "index"}, t, l) + Change(Makers, {"unlock", "post"}, t, l)
         = product + (idx' - idx)
    /\ warehouse' + (idx' - idx) + Change(Makers, {"lock", "copy", "index"}, t, l)
         + Change(Takers, {"read", "unlock", "post"}, t, l) = warehouse

\* The counts after a step of one thread.
LEMMA CountsKept ==
    ASSUME WellFormed, Inv, NEW t \in Threads, NEW l, at' = [at EXCEPT ![t] = l], Tallied(t, l)
    PROVE  Counts'
<1> DEFINE A == Between(Takers, {"lock", "index"})
           B == Between(Makers, {"unlock", "post"})
           C == Between(Makers, {"lock", "copy", "index"})
           D == Between(Takers, {"read", "unlock", "post"})
           a == Change(Takers, {"lock", "index"}, t, l)
           b == Change(Makers, {"unlock", "post"}, t, l)
           c == Change(Makers, {"lock", "copy", "index"}, t, l)
           d == Change(Takers, {"read", "unlock", "post"}, t, l)
<1>1. /\ A \in Nat /\ A' \in Nat /\ B \in Nat /\ B' \in Nat /\ C \in Nat /\ C' \in Nat /\ D \in Nat /\ D' \in Nat
      /\ A' = A + a /\ B' = B + b /\ C' = C + c /\ D' = D + d
  BY AllCounts DEF Inv
<1>2. Critical \in Nat /\ Critical' = Critical + Change(Threads, Inside, t, l)
  BY AllCounts DEF Inv
<1>3. /\ product + A + B = idx /\ warehouse + idx + C + D = Slots /\ mutex + Critical = 1
      /\ product \in Nat /\ warehouse \in Nat /\ idx \in Nat /\ mutex \in Nat /\ Slots \in Nat
  BY DEF Inv, Counts, Types, WellFormed
<1>4. Change(Threads, Inside, t, l) \in Int /\ a \in Int /\ b \in Int /\ c \in Int /\ d \in Int
  BY DEF Change, In
<1>5. /\ mutex' = mutex - Change(Threads, Inside, t, l)
      /\ mutex' \in Nat /\ product' \in Nat /\ warehouse' \in Nat /\ idx' \in Nat
      /\ product' + a + b = product + (idx' - idx)
      /\ warehouse' + (idx' - idx) + c + d = warehouse
  BY DEF Tallied
<1>6. mutex' + Critical' = 1
  BY <1>2, <1>3, <1>4, <1>5
<1>7. product' + A' + B' = idx' /\ warehouse' + idx' + C' + D' = Slots
  <2>1. \A x, y, i, j, u, v, e, f \in Int :
           x + u + v = i /\ y + e + f = x + (j - i) => y + (u + e) + (v + f) = j
    OBVIOUS
  <2>2. \A x, y, i, j, u, v, e, f \in Int :
           x + i + u + v = Slots /\ y + (j - i) + e + f = x => y + j + (u + e) + (v + f) = Slots
    BY <1>3
  <2>3. product' + (A + a) + (B + b) = idx'
    <3> QED
      BY <1>1, <1>3, <1>4, <1>5, <2>1
  <2>4. warehouse' + idx' + (C + c) + (D + d) = Slots
    <3> QED
      BY <1>1, <1>3, <1>4, <1>5, <2>2
  <2> QED
    BY <1>1, <2>3, <2>4
<1> QED
  BY <1>6, <1>7 DEF Counts

\* A step beside the stack keeps everything.
LEMMA QuietKept ==
    ASSUME WellFormed, Inv, NEW t \in Threads, NEW l, Moves(t, l), Legal(t, l), Tallied(t, l),
           at[t] # "unborn", at[t] # "read", l # "read", t \in Makers => l # "index",
           UNCHANGED <<buf, idx, sold, main>>
    PROVE  Inv' /\ UNCHANGED <<OnStack, sold>>
<1>1. Stacked' /\ UNCHANGED <<OnStack, sold>>
  BY StackedKept
<1>2. Types' /\ Unborn'
  BY TypesKept DEF Tallied, Inv, Types
<1>3. Counts'
  BY CountsKept DEF Moves
<1> QED
  BY <1>1, <1>2, <1>3 DEF Inv

\* Facts about the thread that acts.
LEMMA Thread ==
    ASSUME WellFormed, Inv, NEW t \in Threads
    PROVE  /\ Makers \cap Takers = {} /\ Threads = Makers \cup Takers
           /\ product \in Nat /\ warehouse \in Nat /\ idx \in Nat /\ mutex \in Nat /\ Rounds \in Nat /\ Slots \in Nat
           /\ round[t] \in Nat /\ round \in [Threads -> Nat] /\ at \in [Threads -> Labels] /\ at[t] \in Labels
           /\ at[t] \in Working => round[t] \in 1..Rounds
           /\ at[t] \in {"unborn", "number"} => round[t] = 1
           /\ t \in Makers => at[t] # "read"
           /\ t \in Takers => at[t] # "copy"
BY ThreadsFinite DEF Threads, Inv, Types, WellFormed

\* A thread reads its number.
LEMMA ReadNumberInv ==
    ASSUME WellFormed, Inv, NEW t \in Threads, ReadNumber(t) PROVE Inv' /\ UNCHANGED <<OnStack, sold>>
<1> DEFINE l == IF Rounds = 0 THEN "over" ELSE "wait"
<1>1. Moves(t, l) /\ UNCHANGED <<buf, idx, sold, main, round>> /\ at[t] = "number"
  BY DEF ReadNumber, Moves, Shared, Go, Labels
<1>2. Legal(t, l)
  BY <1>1, Thread DEF Legal, Working
<1>3. Tallied(t, l)
  BY <1>1, Thread DEF Tallied, Change, In, ReadNumber, Shared, Inside
<1> QED
  BY <1>1, <1>2, <1>3, QuietKept

\* A thread takes the mutex.
LEMMA LockInv ==
    ASSUME WellFormed, Inv, NEW t \in Threads, NEW l, Lock(t, l), l = IF t \in Makers THEN "copy" ELSE "index"
    PROVE  Inv' /\ UNCHANGED <<OnStack, sold>>
<1>1. Moves(t, l) /\ UNCHANGED <<buf, idx, sold, main, round>> /\ at[t] = "lock"
  BY DEF Lock, Moves, Go, Labels
<1>2. Legal(t, l)
  BY <1>1, Thread DEF Legal, Working
<1>3. Tallied(t, l)
  BY <1>1, Thread DEF Tallied, Change, In, Lock, Inside, Free
<1> QED
  BY <1>1, <1>2, <1>3, QuietKept

\* A thread gives the mutex back.
LEMMA UnlockInv ==
    ASSUME WellFormed, Inv, NEW t \in Threads, Unlock(t) PROVE Inv' /\ UNCHANGED <<OnStack, sold>>
<1>1. Moves(t, "post") /\ UNCHANGED <<buf, idx, sold, main, round>> /\ at[t] = "unlock"
  BY DEF Unlock, Moves, Go, Labels
<1>2. Legal(t, "post")
  BY <1>1, Thread DEF Legal, Working
<1>3. Tallied(t, "post")
  BY <1>1, Thread DEF Tallied, Change, In, Unlock, Inside
<1> QED
  BY <1>1, <1>2, <1>3, QuietKept

\* A thread waits for its semaphore.
LEMMA WaitInv ==
    ASSUME WellFormed, Inv, NEW t \in Threads,
           \/ t \in Makers /\ ProducerWait(t)
           \/ t \in Takers /\ ConsumerWait(t)
    PROVE  Inv' /\ UNCHANGED <<OnStack, sold>>
<1>1. Moves(t, "lock") /\ UNCHANGED <<buf, idx, sold, main, round>> /\ at[t] = "wait"
  BY DEF ProducerWait, ConsumerWait, Moves, Go, Labels
<1>2. Legal(t, "lock")
  BY <1>1, Thread DEF Legal, Working
<1>3. Tallied(t, "lock")
  BY <1>1, Thread DEF Tallied, Change, In, ProducerWait, ConsumerWait, Inside, Room
<1> QED
  BY <1>1, <1>2, <1>3, QuietKept

\* A thread posts the other semaphore, and its round is over.
LEMMA PostInv ==
    ASSUME WellFormed, Inv, NEW t \in Threads,
           \/ t \in Makers /\ ProducerPost(t)
           \/ t \in Takers /\ ConsumerPost(t)
    PROVE  Inv' /\ UNCHANGED <<OnStack, sold>>
<1> DEFINE l == IF round[t] < Rounds THEN "wait" ELSE "over"
<1>1. Moves(t, l) /\ UNCHANGED <<buf, idx, sold, main>> /\ at[t] = "post" /\ round' = [round EXCEPT ![t] = @ + 1]
  BY DEF ProducerPost, ConsumerPost, NextRound, Moves, Go, Labels
<1>2. round'[t] = round[t] + 1
  BY <1>1, Thread
<1>3. Legal(t, l)
  BY <1>1, <1>2, Thread DEF Legal, Working
<1>4. Tallied(t, l)
  BY <1>1, Thread DEF Tallied, Change, In, ProducerPost, ConsumerPost, NextRound, PostWarehouse, Inside
<1> QED
  BY <1>1, <1>3, <1>4, QuietKept

\* Main creates a thread, or ends.
LEMMA MainInv == ASSUME WellFormed, Inv, MainStep PROVE Inv' /\ UNCHANGED <<OnStack, sold>>
<1>1. CASE MainEnds
  <2>1. UNCHANGED <<product, warehouse, mutex, buf, idx, sold, at, round>> /\ main' = <<"exit", 0>>
    BY <1>1 DEF MainEnds, Shared
  <2>2. <<"exit", 0>> \notin Threads
    BY DEF Threads, Makers, Takers
  <2> QED
    BY <2>1, <2>2 DEF Inv, Types, Unborn, Counts, Critical, Between, Stacked, Made, Reading, Held, OnStack, InHand
<1>2. CASE Create
  <2>1. /\ main \in Threads /\ at' = [at EXCEPT ![main] = "number"]
        /\ UNCHANGED <<product, warehouse, mutex, buf, idx, sold, round>>
    BY <1>2 DEF Create, Go, Shared
  <2>2. at[main] = "unborn" /\ round[main] = 1
    BY <2>1 DEF Inv, Unborn, Later, Types
  <2>3. Counts'
    <3>1. Tallied(main, "number")
      BY <2>1, <2>2, Thread DEF Tallied, Change, In, Inside
    <3> QED
      BY <2>1, <3>1, CountsKept
  <2>4. /\ Moves(main, "number") /\ UNCHANGED <<buf, idx, sold>>
    BY <2>1, <2>2 DEF Moves, Labels
  <2>5. Stacked' /\ UNCHANGED <<OnStack, sold>>
    BY <2>1, <2>2, <2>4, StackedKept
  <2>6. /\ main' \in Threads \cup {<<"join", 0>>, <<"exit", 0>>}
        /\ main' \in Threads => \A t \in Threads : Later(t, main') => Later(t, main) /\ t # main
    <3>1. /\ \A x : x \in Threads <=> \E n \in 1..N : x = <<"producer", n>> \/ x = <<"consumer", n>>
          /\ \A x : x \in Makers <=> \E n \in 1..N : x = <<"producer", n>>
      BY DEF Threads, Makers, Takers
    <3>2. PICK n \in 1..N : main = <<"producer", n>> \/ main = <<"consumer", n>>
      BY <2>1, <3>1
    <3>3. CASE main = <<"producer", n>>
      <4>1. main' = <<"consumer", n>>
        BY <1>2, <3>1, <3>3 DEF Create
      <4> QED
        BY <3>1, <3>3, <4>1 DEF Later
    <3>4. CASE main = <<"consumer", n>>
      <4>1. main \notin Makers
        BY <3>1, <3>4
      <4>2. CASE n < N
        <5>1. main' = <<"producer", n + 1>> /\ n + 1 \in 1..N
          BY <1>2, <3>4, <4>1, <4>2 DEF Create, WellFormed
        <5> QED
          BY <3>1, <3>4, <5>1 DEF Later
      <4>3. CASE ~(n < N)
        <5>1. main' = <<"join", 0>> /\ main' \notin Threads
          BY <1>2, <3>1, <3>4, <4>1, <4>3 DEF Create
        <5> QED
          BY <5>1
      <4> QED
        BY <4>2, <4>3
    <3> QED
      BY <3>2, <3>3, <3>4
  <2>7. Unborn'
    BY <2>1, <2>6 DEF Inv, Unborn, Types
  <2>8. Types'
    <3>1. Threads = Makers \cup Takers
      BY DEF Threads
    <3>2. at' \in [Threads -> Labels]
      BY <2>1 DEF Inv, Types, Labels
    <3>3. /\ \A t \in Threads : at'[t] \in Working => round[t] \in 1..Rounds
          /\ \A t \in Threads : at'[t] \in {"unborn", "number"} => round[t] = 1
          /\ \A p \in Makers : at'[p] # "read"
          /\ \A c \in Takers : at'[c] # "copy"
      BY <2>1, <2>2, <3>1 DEF Inv, Types, Working
    <3> QED
      BY <2>1, <3>2, <3>3 DEF Inv, Types
  <2> QED
    BY <2>3, <2>5, <2>7, <2>8 DEF Inv
<1> QED
  BY <1>1, <1>2 DEF MainStep

\* Only one thread uses the stack at a time.
LEMMA Lonely ==
    ASSUME WellFormed, Inv, NEW t \in Threads, at[t] \in Inside, at[t] # "read"
    PROVE  ~Reading /\ Held = idx
<1>1. \A c \in Takers : c \in Threads /\ (at[c] = "read" => at[c] \in Inside)
  BY DEF Threads, Inside
<1>2. \A c \in Takers : at[c] # "read"
  BY <1>1, Alone
<1> QED
  BY <1>2 DEF Reading, Held

\* There is room for the good of a producer that is in its turn.
LEMMA RoomFor ==
    ASSUME WellFormed, Inv, NEW p \in Makers, at[p] \in {"copy", "index"}
    PROVE  idx < Slots
<1>1. /\ Between(Makers, {"lock", "copy", "index"}) >= 1 /\ Between(Takers, {"read", "unlock", "post"}) \in Nat
      /\ Between(Makers, {"lock", "copy", "index"}) \in Nat
  BY Counted, CountNat
<1> QED
  BY <1>1 DEF Inv, Types, Counts, WellFormed

\* There is a good for a consumer that is in its turn.
LEMMA GoodFor ==
    ASSUME WellFormed, Inv, NEW c \in Takers
    PROVE  (at[c] = "index" => idx >= 1) /\ (at[c] = "read" => idx < Slots)
<1>1. CASE at[c] = "index"
  <2>1. /\ Between(Takers, {"lock", "index"}) >= 1 /\ Between(Makers, {"unlock", "post"}) \in Nat
        /\ Between(Takers, {"lock", "index"}) \in Nat
    BY <1>1, Counted, CountNat
  <2> QED
    BY <1>1, <2>1 DEF Inv, Types, Counts
<1>2. CASE at[c] = "read"
  <2>1. /\ Between(Takers, {"read", "unlock", "post"}) >= 1 /\ Between(Makers, {"lock", "copy", "index"}) \in Nat
        /\ Between(Takers, {"read", "unlock", "post"}) \in Nat
    BY <1>2, Counted, CountNat
  <2> QED
    BY <1>2, <2>1 DEF Inv, Types, Counts, WellFormed
<1> QED
  BY <1>1, <1>2

\* A producer writes its good above the stack.
LEMMA CopyInv ==
    ASSUME WellFormed, Inv, NEW p \in Makers, ProducerCopy(p)
    PROVE  Inv' /\ UNCHANGED <<OnStack, sold>>
<1>0. p \in Threads /\ at[p] = "copy" /\ idx < Slots /\ idx \in Nat /\ Slots \in Nat
  BY RoomFor DEF Threads, ProducerCopy, Inv, Types, WellFormed
<1>1. Moves(p, "index") /\ UNCHANGED <<product, warehouse, mutex, idx, sold, main, round>>
      /\ buf' = [buf EXCEPT ![idx] = <<p, round[p]>>]
  BY <1>0 DEF ProducerCopy, Moves, Go, Labels
<1>2. <<p, round[p]>> \in Goods
  BY <1>0, Thread DEF Goods, Working
<1>3. Legal(p, "index") /\ Tallied(p, "index")
  BY <1>0, <1>1, Thread DEF Legal, Working, Tallied, Change, In, Inside
<1>4. Types' /\ Unborn'
  <2>1. buf' \in [0..(Slots - 1) -> Goods \cup {<<>>}]
    BY <1>1, <1>2 DEF Inv, Types
  <2> QED
    BY <1>0, <1>1, <1>3, <2>1, TypesKept DEF Inv, Types
<1>5. Counts'
  BY <1>0, <1>1, <1>3, CountsKept DEF Moves
<1>6. ~Reading /\ Held = idx
  BY <1>0, Lonely DEF Inside
<1>7. ~Reading' /\ Held' = idx
  BY <1>0, <1>1, <1>6, Thread DEF Reading, Held, Moves
<1>8. buf'[idx] = <<p, round[p]>> /\ \A i \in 0..(idx - 1) : buf'[i] = buf[i]
  BY <1>0, <1>1 DEF Inv, Types
<1>9. Stacked'
  <2>1. \A g : Made(g) => Made(g)'
    BY <1>0, <1>1, MadeStays DEF Inv
  <2>2. \A q \in Makers : q \in Threads /\ (at'[q] = "index" => q = p)
    <3>1. \A q \in Makers : q \in Threads /\ (at[q] = "index" => at[q] \in Inside)
      BY DEF Threads, Inside
    <3> QED
      BY <1>0, <1>1, <3>1, Alone DEF Inside, Moves, Inv, Types
  <2> QED
    BY <1>1, <1>6, <1>7, <1>8, <2>1, <2>2 DEF Inv, Stacked
<1>10. UNCHANGED OnStack
  <2>1. OnStack = {buf[i] : i \in 0..(idx - 1)}
    BY <1>0, <1>6, StackIs
  <2>2. InHand' = {}
    BY <1>7 DEF InHand, Reading
  <2> QED
    BY <1>1, <1>8, <2>1, <2>2 DEF OnStack
<1> QED
  BY <1>1, <1>4, <1>5, <1>9, <1>10 DEF Inv

\* It counts the good in, which was not there before.
LEMMA ProducerIndexInv ==
    ASSUME WellFormed, Inv, NEW p \in Makers, ProducerIndex(p)
    PROVE  /\ Inv' /\ sold' = sold
           /\ OnStack = {buf[i] : i \in 0..(idx - 1)} /\ idx < Slots
           /\ <<p, round[p]>> \in Goods /\ <<p, round[p]>> \notin OnStack \cup sold
           /\ OnStack' = OnStack \cup {<<p, round[p]>>}
<1> DEFINE g == <<p, round[p]>>
<1>0. p \in Threads /\ at[p] = "index" /\ idx < Slots /\ idx \in Nat /\ Slots \in Nat
  BY RoomFor DEF Threads, ProducerIndex, Inv, Types, WellFormed
<1>1. Moves(p, "unlock") /\ UNCHANGED <<product, warehouse, mutex, buf, sold, main, round>> /\ idx' = idx + 1
  BY <1>0 DEF ProducerIndex, Moves, Go, Labels
<1>2. g \in Goods /\ g[1] = p /\ g[2] = round[p] /\ round[p] \in Nat
  BY <1>0, Thread DEF Goods, Working
<1>3. Legal(p, "unlock") /\ Tallied(p, "unlock")
  BY <1>0, <1>1, Thread DEF Legal, Working, Tallied, Change, In, Inside
<1>4. Types' /\ Unborn'
  BY <1>0, <1>1, <1>3, TypesKept DEF Inv, Types
<1>5. Counts'
  BY <1>0, <1>1, <1>3, CountsKept DEF Moves
<1>6. ~Reading /\ Held = idx
  BY <1>0, Lonely DEF Inside
<1>7. ~Reading' /\ Held' = idx + 1
  BY <1>0, <1>1, <1>6, Thread DEF Reading, Held, Moves
<1>8. buf[idx] = g /\ ~Made(g)
  BY <1>0, <1>2 DEF Inv, Stacked, Made
<1>9. Made(g)' /\ g' = g
  BY <1>0, <1>1, <1>2, Thread DEF Made, Moves
<1>10. 0..(idx' - 1) = 0..(idx - 1) \cup {idx} /\ 0..(Held' - 1) = 0..(idx' - 1)
  BY <1>0, <1>1, <1>7
<1> HIDE DEF g
<1>11. Stacked'
  <2>1. \A h : Made(h) => Made(h)'
    BY <1>0, <1>1, MadeStays DEF Inv
  <2>2. \A q \in Makers : at'[q] # "index"
    <3>1. \A q \in Makers : q \in Threads /\ (at[q] = "index" => at[q] \in Inside)
      BY DEF Threads, Inside
    <3> QED
      BY <1>0, <1>1, <3>1, Alone DEF Inside, Moves, Inv, Types
  <2>3. \A i \in 0..(idx - 1) : Made(buf[i]) /\ buf[i] # g
    BY <1>6, <1>8 DEF Inv, Stacked
  <2>4. \A i \in 0..(Held' - 1) : Made(buf[i])'
    <3>1. \A i : i = idx => Made(buf[i])'
      BY <1>1, <1>8, <1>9
    <3>2. \A i \in 0..(idx - 1) : Made(buf[i])'
      BY <1>1, <2>1, <2>3
    <3> QED
      BY <1>10, <3>1, <3>2
  <2>5. \A i, j \in 0..(Held' - 1) : buf'[i] = buf'[j] => i = j
    <3>1. \A i, j \in 0..(idx - 1) : buf[i] = buf[j] => i = j
      BY <1>6 DEF Inv, Stacked
    <3>2. \A i \in 0..(Held' - 1) : buf'[i] = buf[i] /\ (i \in 0..(idx - 1) \/ i = idx)
      BY <1>1, <1>10
    <3> QED
      BY <1>8, <2>3, <3>1, <3>2
  <2> QED
    BY <1>1, <2>1, <2>2, <2>4, <2>5 DEF Inv, Stacked
<1>12. OnStack = {buf[i] : i \in 0..(idx - 1)}
  BY <1>0, <1>6, StackIs
<1>13. g \notin OnStack \cup sold
  BY <1>6, <1>8, <1>12 DEF Inv, Stacked
<1>14. OnStack' = OnStack \cup {g}
  <2>1. InHand' = {}
    BY <1>7 DEF InHand, Reading
  <2>2. OnStack' = {buf[i] : i \in 0..(idx' - 1)}
    BY <1>1, <2>1 DEF OnStack
  <2> QED
    BY <1>8, <1>10, <1>12, <2>2
<1> QED
  BY <1>0, <1>1, <1>2, <1>4, <1>5, <1>11, <1>12, <1>13, <1>14 DEF Inv, g

\* A consumer counts out the good it is going to read.
LEMMA ConsumerIndexInv ==
    ASSUME WellFormed, Inv, NEW c \in Takers, ConsumerIndex(c)
    PROVE  Inv' /\ UNCHANGED <<OnStack, sold>>
<1>0. c \in Threads /\ at[c] = "index" /\ idx >= 1 /\ idx \in Nat
  BY GoodFor DEF Threads, ConsumerIndex, Inv, Types
<1>1. Moves(c, "read") /\ UNCHANGED <<product, warehouse, mutex, buf, sold, main, round>> /\ idx' = idx - 1 /\ idx' \in Nat
  BY <1>0 DEF ConsumerIndex, Moves, Go, Labels
<1>2. c \notin Makers
  BY Thread DEF Threads
<1>3. Legal(c, "read") /\ Tallied(c, "read")
  BY <1>0, <1>1, <1>2, Thread DEF Legal, Working, Tallied, Change, In, Inside
<1>4. Types' /\ Unborn'
  BY <1>0, <1>1, <1>3, TypesKept DEF Inv, Types
<1>5. Counts'
  BY <1>0, <1>1, <1>3, CountsKept DEF Moves
<1>6. ~Reading /\ Held = idx
  BY <1>0, Lonely DEF Inside
<1>7. Reading' /\ Held' = idx
  BY <1>0, <1>1, Thread DEF Reading, Held, Moves
<1>8. Stacked'
  <2>1. \A h : Made(h) => Made(h)'
    BY <1>0, <1>1, MadeStays DEF Inv
  <2>2. \A q \in Makers : at'[q] # "index"
    <3>1. \A q \in Makers : q \in Threads /\ (at[q] = "index" => at[q] \in Inside)
      BY DEF Threads, Inside
    <3> QED
      BY <1>0, <1>1, <1>2, <3>1, Alone DEF Inside, Moves, Inv, Types
  <2> QED
    BY <1>1, <1>6, <1>7, <2>1, <2>2 DEF Inv, Stacked
<1>9. UNCHANGED OnStack
  <2>1. OnStack = {buf[i] : i \in 0..(idx - 1)}
    BY <1>0, <1>6, StackIs
  <2>2. InHand' = {buf[idx - 1]}
    BY <1>1, <1>7 DEF InHand, Reading
  <2>3. OnStack' = {buf[i] : i \in 0..(idx - 1 - 1)} \cup {buf[idx - 1]}
    BY <1>1, <2>2 DEF OnStack
  <2>4. 0..(idx - 1) = 0..(idx - 1 - 1) \cup {idx - 1}
    BY <1>0
  <2> QED
    BY <2>1, <2>3, <2>4
<1> QED
  BY <1>1, <1>4, <1>5, <1>8, <1>9 DEF Inv

\* It reads it, and nobody else will.
LEMMA ConsumerReadInv ==
    ASSUME WellFormed, Inv, NEW c \in Takers, ConsumerRead(c)
    PROVE  /\ Inv' /\ buf[idx] \in OnStack /\ buf[idx] \in Goods
           /\ OnStack' = OnStack \ {buf[idx]} /\ sold' = sold \cup {buf[idx]}
<1>0. c \in Threads /\ at[c] = "read" /\ idx < Slots /\ idx \in Nat /\ c \notin Makers
  BY GoodFor, Thread DEF Threads, ConsumerRead, Inv, Types
<1>1. Moves(c, "unlock") /\ UNCHANGED <<product, warehouse, mutex, buf, idx, main, round>> /\ sold' = sold \cup {buf[idx]}
  BY <1>0 DEF ConsumerRead, Moves, Go, Labels
<1>3. Legal(c, "unlock") /\ Tallied(c, "unlock")
  BY <1>0, <1>1, Thread DEF Legal, Working, Tallied, Change, In, Inside
<1>6. Reading /\ Held = idx + 1
  BY <1>0 DEF Reading, Held
<1>7. Made(buf[idx]) /\ \A i \in 0..(idx - 1) : Made(buf[i]) /\ buf[i] # buf[idx]
  <2>1. idx \in 0..(Held - 1) /\ \A i \in 0..(idx - 1) : i \in 0..(Held - 1) /\ i # idx
    BY <1>0, <1>6
  <2> QED
    BY <2>1 DEF Inv, Stacked
<1>4. Types' /\ Unborn'
  <2>1. sold' \subseteq Goods
    BY <1>1, <1>7 DEF Inv, Types, Made
  <2> QED
    BY <1>0, <1>1, <1>3, <2>1, TypesKept DEF Inv, Types
<1>5. Counts'
  BY <1>0, <1>1, <1>3, CountsKept DEF Moves
<1>8. ~Reading' /\ Held' = idx
  <2>1. \A d \in Takers : d \in Threads /\ (at[d] = "read" => d = c)
    <3>1. \A d \in Takers : d \in Threads /\ (at[d] = "read" => at[d] \in Inside)
      BY DEF Threads, Inside
    <3> QED
      BY <1>0, <3>1, Alone DEF Inside
  <2> QED
    BY <1>0, <1>1, <2>1, Thread DEF Reading, Held, Moves
<1>9. Stacked'
  <2>1. \A h : Made(h) => Made(h)'
    BY <1>0, <1>1, MadeStays DEF Inv
  <2>2. \A q \in Makers : at'[q] # "index"
    <3>1. \A q \in Makers : q \in Threads /\ (at[q] = "index" => at[q] \in Inside)
      BY DEF Threads, Inside
    <3> QED
      BY <1>0, <1>1, <3>1, Alone DEF Inside, Moves, Inv, Types
  <2>3. \A i \in 0..(idx - 1) : i \in 0..(Held - 1)
    BY <1>0, <1>6
  <2> QED
    BY <1>1, <1>7, <1>8, <2>1, <2>2, <2>3 DEF Inv, Stacked
<1>10. OnStack = {buf[i] : i \in 0..(idx - 1)} \cup {buf[idx]}
  BY <1>6 DEF OnStack, InHand, Reading
<1>11. OnStack' = {buf[i] : i \in 0..(idx - 1)}
  <2>1. InHand' = {}
    BY <1>8 DEF InHand, Reading
  <2> QED
    BY <1>1, <2>1 DEF OnStack
<1>12. OnStack' = OnStack \ {buf[idx]}
  BY <1>7, <1>10, <1>11
<1> QED
  BY <1>1, <1>4, <1>5, <1>7, <1>9, <1>10, <1>12 DEF Inv, Made

----------------------------------------------------------------------------
\* Every step keeps the invariant, and is one of the warehouse or leaves it alone.
LEMMA StackStep ==
    ASSUME WellFormed, Inv, [Next]_vars
    PROVE  Inv' /\ [Store!Next]_<<OnStack, sold>>
<1>1. CASE MainStep
  BY <1>1, MainInv
<1>2. ASSUME NEW t \in Threads,
             \/ ReadNumber(t) \/ Unlock(t)
             \/ t \in Makers /\ (ProducerWait(t) \/ Lock(t, "copy") \/ ProducerCopy(t) \/ ProducerPost(t))
             \/ t \in Takers /\ (ConsumerWait(t) \/ Lock(t, "index") \/ ConsumerIndex(t) \/ ConsumerPost(t))
      PROVE  Inv' /\ UNCHANGED <<OnStack, sold>>
  <2>1. t \in Takers => t \notin Makers
    BY ThreadsFinite
  <2>2. Lock(t, "copy") /\ t \in Makers => Inv' /\ UNCHANGED <<OnStack, sold>>
    BY LockInv
  <2>3. Lock(t, "index") /\ t \in Takers => Inv' /\ UNCHANGED <<OnStack, sold>>
    BY <2>1, LockInv
  <2> QED
    BY <1>2, <2>2, <2>3, ReadNumberInv, UnlockInv, WaitInv, PostInv, CopyInv, ConsumerIndexInv
<1>3. ASSUME NEW p \in Makers, ProducerIndex(p) PROVE Inv' /\ Store!Next
  <2> DEFINE g == <<p, round[p]>>
  <2>1. /\ Inv' /\ sold' = sold /\ OnStack = {buf[i] : i \in 0..(idx - 1)} /\ idx < Slots
        /\ g \in Goods /\ g \notin OnStack \cup sold /\ OnStack' = OnStack \cup {g}
    BY <1>3, ProducerIndexInv
  <2> HIDE DEF g
  <2>2. idx \in Nat /\ Slots \in Nat
    BY DEF Inv, Types, WellFormed
  <2>3. IsFiniteSet(0..(idx - 1)) /\ Cardinality(0..(idx - 1)) = idx
    BY <2>2, FS_Interval
  <2>4. [i \in 0..(idx - 1) |-> buf[i]] \in Surjection(0..(idx - 1), OnStack)
    BY <2>1 DEF Surjection
  <2>5. IsFiniteSet(OnStack) /\ Cardinality(OnStack) <= idx
    BY <2>3, <2>4, FS_Surjection
  <2>6. Cardinality(OnStack) < Slots
    BY <2>1, <2>2, <2>5, FS_CardinalityType
  <2>7. Store!Cardinality(OnStack) = Cardinality(OnStack)
    BY DEF Store!Cardinality, Cardinality
  <2> QED
    BY <2>1, <2>6, <2>7 DEF Store!Next, Store!Put
<1>4. ASSUME NEW c \in Takers, ConsumerRead(c) PROVE Inv' /\ Store!Next
  BY <1>4, ConsumerReadInv DEF Store!Next, Store!Get
<1>5. CASE UNCHANGED vars
  <2>1. UNCHANGED <<OnStack, sold>>
    BY <1>5 DEF vars, OnStack, InHand
  <2> QED
    BY <1>5, <2>1 DEF vars, Inv, Types, Unborn, Counts, Critical, Between, Stacked, Made, Reading, Held
<1>6. ASSUME NEW p \in Makers, Producer(p) PROVE Inv' /\ [Store!Next]_<<OnStack, sold>>
  BY <1>2, <1>3, <1>6 DEF Producer, Threads
<1>7. ASSUME NEW c \in Takers, Consumer(c) PROVE Inv' /\ [Store!Next]_<<OnStack, sold>>
  BY <1>2, <1>4, <1>7 DEF Consumer, Threads
<1> QED
  BY <1>1, <1>5, <1>6, <1>7 DEF Next

\* In the beginning all slots are free, and the warehouse is empty.
LEMMA StackStart == ASSUME WellFormed, Init PROVE Inv /\ Store!Init
<1>1. Threads = Makers \cup Takers /\ \A t \in Threads : at[t] = "unborn"
  BY DEF Init, Threads
<1>2. \A S \in {Makers, Takers, Threads} : \A ls : "unborn" \notin ls => Between(S, ls) = 0
  <2> SUFFICES ASSUME NEW S \in {Makers, Takers, Threads}, NEW ls, "unborn" \notin ls PROVE Between(S, ls) = 0
    OBVIOUS
  <2>1. {t \in S : at[t] \in ls} = {}
    BY <1>1
  <2> QED
    BY <2>1, FS_EmptySet DEF Between
<1>3. Counts
  <2>1. /\ Critical = 0
        /\ Between(Takers, {"lock", "index"}) = 0 /\ Between(Makers, {"unlock", "post"}) = 0
        /\ Between(Makers, {"lock", "copy", "index"}) = 0 /\ Between(Takers, {"read", "unlock", "post"}) = 0
    BY <1>2 DEF Critical, Inside
  <2> QED
    BY <2>1 DEF Init, Counts, WellFormed
<1>4. Types
  <2>1. 1 \in Nat /\ Slots \in Nat /\ Slots \in 0..Slots
    BY DEF WellFormed
  <2> QED
    BY <1>1, <2>1 DEF Init, Types, Labels, Working
<1>5. <<"producer", 1>> \in Threads
  BY DEF Threads, Makers, WellFormed
<1>6. ~Reading /\ Held = 0 /\ InHand = {}
  BY <1>1 DEF Init, Reading, Held, InHand
<1>7. Stacked /\ OnStack = {}
  BY <1>1, <1>6 DEF Init, Stacked, OnStack
<1> QED
  BY <1>1, <1>3, <1>4, <1>5, <1>7 DEF Init, Inv, Unborn, Store!Init

\* The invariant says that the semaphores count what they stand for.
LEMMA StackMeans == ASSUME WellFormed, Inv PROVE TypeOK
<1>1. \A S \in {Makers, Takers, Threads} : \A ls : Between(S, ls) \in Nat
  BY CountNat
<1>2. /\ Between(Takers, {"lock", "index"}) \in Nat /\ Between(Makers, {"unlock", "post"}) \in Nat
      /\ Between(Makers, {"lock", "copy", "index"}) \in Nat /\ Between(Takers, {"read", "unlock", "post"}) \in Nat
      /\ Critical \in Nat
  BY <1>1 DEF Critical
<1>3. idx \in 0..Slots /\ mutex \in 0..1
  BY <1>2 DEF Inv, Types, Counts, WellFormed
<1>4. Critical = Cardinality({t \in Threads : at[t] \in {"copy", "index", "read", "unlock"}})
  BY DEF Critical, Between, Inside
<1> QED
  BY <1>3, <1>4 DEF Inv, Counts, TypeOK

\* producer_consumer_3.c and _4.c implement the warehouse: each good is put into a
\* free place and got once, by one consumer.
THEOREM StackRefines == WellFormed => (Spec => ImplementsWarehouse)
<1> SUFFICES ASSUME WellFormed PROVE Spec => ImplementsWarehouse
  OBVIOUS
<1>1. Init => Inv /\ Store!Init
  BY StackStart
<1>2. Inv /\ [Next]_vars => Inv' /\ [Store!Next]_<<OnStack, sold>>
  BY StackStep
<1> QED
  BY <1>1, <1>2, PTL DEF Spec, ImplementsWarehouse, Store!Spec

\* The mutex is had by one thread, and each semaphore counts what it stands for.
THEOREM StackKept == WellFormed => (Spec => []TypeOK)
<1> SUFFICES ASSUME WellFormed PROVE Spec => []TypeOK
  OBVIOUS
<1>1. Init => Inv
  BY StackStart
<1>2. Inv /\ [Next]_vars => Inv'
  BY StackStep
<1>3. Inv => TypeOK
  BY StackMeans
<1> QED
  BY <1>1, <1>2, <1>3, PTL DEF Spec
=============================================================================

---------------------------- MODULE PcPipe_proofs ----------------------------
(***************************************************************************)
(* For any processes, rounds and size of the pipe.                         *)
(***************************************************************************)
EXTENDS PcPipe, SequenceTheorems, FiniteSetTheorems, TLAPS

Types ==
    /\ pipe \in Seq(Goods) /\ Len(pipe) <= PipeSize
    /\ at \in [Procs -> {"unborn", "fork", "close", "work", "wait", "over", "killed"}]
    /\ ends \in [Procs -> SUBSET {"r", "w"}]
    /\ round \in [Producers -> 0..Rounds]
    /\ forked \in 0..Len(Children)

\* Where a process is says which ends it has.
EndsOpen == \A q \in Procs :
    /\ at[q] \in Gone \cup {"wait"} => ends[q] = {}
    /\ at[q] = "work" => ends[q] = {IF q \in Producers THEN "w" ELSE "r"}
    /\ at[q] \in {"fork", "close"} => ends[q] = {"r", "w"}
    /\ at[q] \in {"fork", "wait"} => q = Parent

\* The children are forked one after the other, the parent is nobody's child.
Unforked ==
    /\ \A i \in (forked + 1)..Len(Children) : at[Children[i]] = "unborn"
    /\ at[Parent] \notin {"unborn", "close"}

\* A record is written once: the next one of its producer is new.
Written ==
    /\ \A i \in DOMAIN pipe : pipe[i][2] <= round[pipe[i][1]]
    /\ \A g \in sold : g \in Goods /\ g[2] <= round[g[1]]
    /\ \A i, j \in DOMAIN pipe : pipe[i] = pipe[j] => i = j

Born == \E c \in Consumers : at[c] # "unborn"

\* While there may be a record to come, some consumer is there.
Reading ==
    Born => \/ \E c \in Consumers : at[c] \in {"close", "work"}
            \/ ~Has("w") /\ pipe = <<>>

\* A producer is killed only when nobody will ever read.
Unread == (\E p \in Producers : at[p] = "killed") => at[Parent] # "fork" /\ ~Born

Last == at[Parent] = "over" => \A q \in Procs \ {Parent} : at[q] \in Gone

Inv == Types /\ EndsOpen /\ Unforked /\ Written /\ Reading /\ Unread /\ Last

----------------------------------------------------------------------------
\* The parent and its children are the processes; the parent is not among the children.
LEMMA Family ==
    ASSUME WellFormed
    PROVE  /\ Parent \in Procs /\ Len(Children) \in Nat /\ DOMAIN Children = 1..Len(Children)
           /\ \A i \in 1..Len(Children) : Children[i] \in Procs \ {Parent}
           /\ \A q \in Procs \ {Parent} : \E i \in 1..Len(Children) : q = Children[i]
<1>1. Len(Children) \in Nat /\ DOMAIN Children = 1..Len(Children)
  BY LenProperties DEF WellFormed
<1>2. \A i \in 1..Len(Children) : Children[i] \in Procs \ {Parent}
  BY ElementOfSeq DEF WellFormed
<1> QED
  BY <1>1, <1>2 DEF Procs

\* The first state: the parent alone, with both ends of an empty pipe.
LEMMA InitInv == ASSUME WellFormed, Init PROVE Inv
<1>1. Types
  BY Family, EmptySeq DEF WellFormed, Init, Types
<1>2. EndsOpen
  BY Family DEF Init, EndsOpen, Gone
<1>4. Unforked
  BY Family DEF Init, Unforked
<1>5. Unread /\ Last
  BY Family DEF Init, Unread, Last, WellFormed
<1>3. Written /\ Reading
  BY Family DEF Init, Written, Reading, Born, Consumers, WellFormed
<1> QED
  BY <1>1, <1>2, <1>3, <1>4, <1>5 DEF Inv

\* A step that leaves the pipe and the rounds leaves what was written.
LEMMA SameWritten == ASSUME Written, UNCHANGED <<pipe, round, sold>> PROVE Written'
BY DEF Written

\* A child is forked, or could not be.
LEMMA ForkInv == ASSUME WellFormed, Inv, Fork PROVE Inv'
<1> DEFINE x == Children[forked + 1]
<1>0. forked \in Nat /\ Len(Children) \in Nat /\ forked + 1 \in 1..Len(Children)
  BY Family DEF Fork, Inv, Types
<1>1. /\ x \in Procs \ {Parent} /\ at[x] = "unborn" /\ ends[Parent] = {"r", "w"} /\ at[Parent] = "fork"
      /\ \A i \in (forked + 2)..Len(Children) : Children[i] # x
  <2>1. x \in Procs \ {Parent} /\ at[x] = "unborn"
    BY <1>0, Family DEF Inv, Unforked
  <2>2. ends[Parent] = {"r", "w"} /\ at[Parent] = "fork"
    BY Family DEF Fork, Inv, EndsOpen
  <2>3. \A i \in (forked + 2)..Len(Children) : i \in 1..Len(Children) /\ i # forked + 1
    BY <1>0
  <2>4. \A i \in (forked + 2)..Len(Children) : Children[i] # x
    BY <1>0, <2>3, Family DEF WellFormed
  <2> QED
    BY <2>1, <2>2, <2>4
<1>2. /\ UNCHANGED <<pipe, round, sold>>
      /\ \/ at' = [at EXCEPT ![x] = "close"] /\ ends' = [ends EXCEPT ![x] = {"r", "w"}]
         \/ UNCHANGED <<at, ends>>
      /\ forked' = forked + 1 /\ forked < Len(Children)
  BY <1>1 DEF Fork
<1> HIDE DEF x
<1>3. Types'
  <2>1. at' \in [Procs -> {"unborn", "fork", "close", "work", "wait", "over", "killed"}]
    BY <1>1, <1>2 DEF Inv, Types
  <2>2. ends' \in [Procs -> SUBSET {"r", "w"}]
    BY <1>1, <1>2 DEF Inv, Types
  <2>3. forked' \in 0..Len(Children)
    BY <1>0, <1>2
  <2> QED
    BY <1>2, <2>1, <2>2, <2>3 DEF Inv, Types
<1>4. EndsOpen'
  BY <1>1, <1>2 DEF Inv, Types, EndsOpen, Gone
<1>5. Unforked'
  BY <1>1, <1>2, Family DEF Inv, Types, Unforked
<1>6. Written'
  BY <1>2, SameWritten DEF Inv
<1>7. Has("w")
  BY <1>1, Family DEF Has
<1>8. Reading'
  BY <1>1, <1>2, <1>7 DEF Inv, Types, Reading, Born, Consumers
<1>9. Unread'
  <2>1. \A p \in Producers : at[p] # "killed"
    BY <1>1 DEF Inv, Unread
  <2> QED
    BY <1>1, <1>2, <2>1 DEF Inv, Types, Unread, WellFormed
<1>10. Last'
  BY <1>1, <1>2, Family DEF Inv, Types, Last
<1> QED
  BY <1>10, <1>3, <1>4, <1>5, <1>6, <1>8, <1>9 DEF Inv

\* A process goes on, closes ends, and leaves the pipe alone.
Moves(q, l, es) ==
    /\ at' = [at EXCEPT ![q] = l] /\ ends' = [ends EXCEPT ![q] = @ \ es]
    /\ UNCHANGED <<pipe, round, forked, sold>>

\* It comes to a place where it has the ends it should.
Placed(q, l) ==
    /\ l \in {"work", "wait", "over", "killed"} /\ at[q] # "unborn"
    /\ l \in Gone \cup {"wait"} => ends'[q] = {}
    /\ l = "work" => ends'[q] = {IF q \in Producers THEN "w" ELSE "r"}
    /\ l = "wait" => q = Parent

\* Types, ends and what is written survive that.
LEMMA MovesInv ==
    ASSUME WellFormed, Inv, NEW q \in Procs, NEW l, NEW es, Moves(q, l, es), Placed(q, l)
    PROVE  /\ Types' /\ EndsOpen' /\ Unforked' /\ Written'
           /\ at' = [at EXCEPT ![q] = l]
           /\ \A e : Has(e)' => Has(e)
<1>1. Types'
  BY DEF Inv, Types, Moves, Placed
<1>2. EndsOpen'
  BY DEF Inv, Types, EndsOpen, Moves, Placed, Gone
<1>3. Unforked'
  BY Family DEF Inv, Types, Unforked, Moves, Placed
<1>4. Written'
  BY SameWritten DEF Inv, Moves
<1>5. \A e : Has(e)' => Has(e)
  BY DEF Inv, Types, Moves, Has
<1> QED
  BY <1>1, <1>2, <1>3, <1>4, <1>5 DEF Moves

\* The parent closes what it does not use, and ends after its children.
LEMMA ParentInv == ASSUME WellFormed, Inv, ParentCloses \/ ParentWaits PROVE Inv'
<1>1. Parent \in Procs /\ Parent \notin Consumers
  BY Family DEF Consumers
<1>2. PICK l, es : Moves(Parent, l, es) /\ Placed(Parent, l)
  <2>1. CASE ParentCloses
    <3>1. Moves(Parent, IF Parent \in Producers THEN "work" ELSE "wait", Unused)
      BY <2>1 DEF ParentCloses, Moves, Closed, Go
    <3>2. ends[Parent] = {"r", "w"} /\ at[Parent] = "fork"
      BY <1>1, <2>1 DEF ParentCloses, Inv, EndsOpen
    <3>3. Placed(Parent, IF Parent \in Producers THEN "work" ELSE "wait")
      BY <1>1, <3>1, <3>2 DEF Moves, Placed, Unused, Inv, Types, Gone
    <3> QED
      BY <3>1, <3>3
  <2>2. CASE ParentWaits
    <3>1. Moves(Parent, "over", {"r", "w"})
      BY <2>2 DEF ParentWaits, Moves, Closed, Go
    <3>2. Placed(Parent, "over")
      BY <1>1, <2>2, <3>1 DEF ParentWaits, Moves, Placed, Inv, Types, Gone
    <3> QED
      BY <3>1, <3>2
  <2> QED
    BY <2>1, <2>2
<1>3. /\ Types' /\ EndsOpen' /\ Unforked' /\ Written'
      /\ at' = [at EXCEPT ![Parent] = l]
      /\ \A e : Has(e)' => Has(e)
  BY <1>1, <1>2, MovesInv
<1>4. Reading'
  BY <1>1, <1>2, <1>3 DEF Inv, Types, Reading, Born, Consumers, Moves
<1>5. Unread'
  <2>1. l # "fork" /\ l # "killed"
    BY <1>1, <1>2, <1>3 DEF Placed, Inv, Types, ParentCloses, ParentWaits, Go
  <2> QED
    BY <1>1, <1>3, <2>1 DEF Inv, Types, Unread, Born, Consumers
<1>6. Last'
  BY <1>1, <1>2, <1>3 DEF Inv, Types, Last, ParentCloses, ParentWaits, Go
<1> QED
  BY <1>3, <1>4, <1>5, <1>6 DEF Inv

\* A child closes the end it does not use, a producer is done or killed.
LEMMA CloseInv ==
    ASSUME WellFormed, Inv, NEW q \in Procs,
           \/ ChildCloses(q)
           \/ q \in Producers /\ (WriteKilled(q) \/ ProducerEnds(q))
           \/ q \in Consumers /\ ConsumerEnds(q)
    PROVE  Inv'
<1>1. PICK l, es : Moves(q, l, es) /\ Placed(q, l)
  <2>1. CASE ChildCloses(q)
    <3>1. Moves(q, "work", {ForeignEnd(q)}) /\ ends[q] = {"r", "w"}
      BY <2>1 DEF ChildCloses, Moves, Closed, Go, Inv, EndsOpen
    <3>2. Placed(q, "work")
      BY <2>1, <3>1 DEF ChildCloses, Moves, Placed, ForeignEnd, Inv, Types, Gone
    <3> QED
      BY <3>1, <3>2
  <2>2. CASE q \in Producers /\ WriteKilled(q)
    <3>1. Moves(q, "killed", {"r", "w"})
      BY <2>2 DEF WriteKilled, Moves, Closed, Go
    <3>2. Placed(q, "killed")
      BY <2>2, <3>1 DEF WriteKilled, Moves, Placed, Inv, Types, Gone
    <3> QED
      BY <3>1, <3>2
  <2>3. CASE q \in Producers /\ ProducerEnds(q)
    <3>1. Moves(q, IF q = Parent THEN "wait" ELSE "over", {"w"}) /\ ends[q] = {"w"}
      BY <2>3 DEF ProducerEnds, Moves, Closed, Go, LastClosed, Inv, EndsOpen
    <3>2. Placed(q, IF q = Parent THEN "wait" ELSE "over")
      BY <2>3, <3>1 DEF ProducerEnds, Moves, Placed, Inv, Types, Gone
    <3> QED
      BY <3>1, <3>2
  <2>4. CASE q \in Consumers /\ ConsumerEnds(q)
    <3>1. Moves(q, "over", {"r"}) /\ ends[q] = {"r"}
      BY <2>4 DEF ConsumerEnds, Moves, Closed, Go, Inv, EndsOpen, Consumers
    <3>2. Placed(q, "over")
      BY <2>4, <3>1 DEF ConsumerEnds, Moves, Placed, Inv, Types, Gone
    <3> QED
      BY <3>1, <3>2
  <2> QED
    BY <2>1, <2>2, <2>3, <2>4
<1>2. /\ Types' /\ EndsOpen' /\ Unforked' /\ Written'
      /\ at' = [at EXCEPT ![q] = l]
      /\ \A e : Has(e)' => Has(e)
  BY <1>1, MovesInv
<1>3. /\ at[q] \in {"close", "work"} /\ l # "fork" /\ pipe' = pipe
      /\ l = "killed" => q \in Producers /\ ~Has("r")
      /\ q \in Consumers => \/ l = "work"
                            \/ l = "over" /\ pipe = <<>> /\ ~Has("w")
  BY <1>1, <1>2 DEF Inv, Types, Moves, Placed, Consumers, ChildCloses, WriteKilled, ProducerEnds, ConsumerEnds, Go, AtEof
<1>4. Reading'
  BY <1>2, <1>3 DEF Inv, Types, Reading, Born, Consumers
<1>5. Unread'
  <2>1. CASE l = "killed"
    <3>1. ~Has("r") /\ q \notin Consumers
      BY <1>3, <2>1 DEF Consumers
    <3>2. at[Parent] # "fork"
      BY <3>1, Family DEF Has, Inv, EndsOpen
    <3>3. \A c \in Consumers : at[c] \notin {"close", "work"}
      BY <3>1, Family DEF Has, Inv, EndsOpen, Consumers
    <3>4. Has("w")
      BY <1>3, <2>1 DEF Has, Inv, EndsOpen
    <3>5. ~Born
      BY <3>3, <3>4 DEF Inv, Reading
    <3> QED
      BY <1>2, <1>3, <3>1, <3>2, <3>5, Family DEF Inv, Types, Unread, Born, Consumers
  <2>2. CASE l # "killed"
    BY <1>2, <1>3, <2>2, Family DEF Inv, Types, Unread, Born, Consumers
  <2> QED
    BY <2>1, <2>2
<1>6. Last'
  BY <1>1, <1>2, <1>3, Family DEF Inv, Types, Last, Placed, Gone, Moves, ProducerEnds, Go, ChildCloses, WriteKilled, ConsumerEnds, Consumers
<1> QED
  BY <1>2, <1>4, <1>5, <1>6 DEF Inv

\* A process that is done or not yet there has no end of the pipe to use.
LEMMA WorkerHas ==
    ASSUME Inv, NEW q \in Procs, at[q] = "work"
    PROVE  Has(IF q \in Producers THEN "w" ELSE "r")
BY DEF Inv, EndsOpen, Has

\* A record is appended, the next one of its producer.
LEMMA WriteInv ==
    ASSUME WellFormed, Inv, NEW p \in Producers, Write(p)
    PROVE  /\ Inv'
           /\ <<p, round[p] + 1>> \in Goods
           /\ \A i \in DOMAIN pipe : pipe[i] # <<p, round[p] + 1>>
           /\ <<p, round[p] + 1>> \notin sold
<1> DEFINE g == <<p, round[p] + 1>>
<1>1. p \in Procs /\ round[p] \in 0..Rounds /\ round[p] < Rounds /\ Rounds \in Nat
  BY DEF WellFormed, Inv, Types, Write
<1>2. g \in Goods /\ g[1] = p /\ g[2] = round[p] + 1
  BY <1>1 DEF Goods
<1>3. (\A i \in DOMAIN pipe : pipe[i] # g) /\ g \notin sold
  BY <1>1, <1>2 DEF Inv, Written
<1> HIDE DEF g
<1>4. /\ pipe' = Append(pipe, g) /\ round' = [round EXCEPT ![p] = @ + 1]
      /\ UNCHANGED <<ends, at, forked, sold>> /\ Len(pipe) < PipeSize
  BY DEF Write, NextRound, g
<1>5. /\ Len(pipe) \in Nat /\ DOMAIN pipe = 1..Len(pipe) /\ pipe' \in Seq(Goods)
      /\ Len(pipe') = Len(pipe) + 1 /\ DOMAIN pipe' = 1..(Len(pipe) + 1)
      /\ \A i \in 1..Len(pipe) : pipe'[i] = pipe[i]
      /\ pipe'[Len(pipe) + 1] = g
  BY <1>2, <1>4, LenProperties, AppendProperties DEF Inv, Types
<1>6. Types'
  BY <1>1, <1>4, <1>5 DEF Inv, Types, WellFormed
<1>7. EndsOpen' /\ Unforked' /\ Unread' /\ Last'
  BY <1>4 DEF Inv, EndsOpen, Unforked, Unread, Last, Born, Consumers
<1>8. Written'
  <2>1. \A i \in DOMAIN pipe' : pipe'[i][2] <= round'[pipe'[i][1]]
    <3>1. ASSUME NEW i \in 1..Len(pipe) PROVE pipe'[i][2] <= round'[pipe'[i][1]]
      <4>0. pipe[i] \in Producers \X (1..Rounds)
        BY <1>5, ElementOfSeq DEF Inv, Types, Goods
      <4>1. pipe[i][1] \in Producers /\ pipe[i][2] \in Nat
        BY <1>1, <4>0
      <4>2. \A q \in Producers : round[q] \in Nat /\ round'[q] \in Nat /\ round[q] <= round'[q]
        BY <1>1, <1>4 DEF Inv, Types
      <4>3. pipe[i][2] <= round[pipe[i][1]]
        BY <1>5 DEF Inv, Written
      <4> QED
        BY <1>5, <4>1, <4>2, <4>3
    <3>2. g[2] <= round'[g[1]]
      BY <1>1, <1>2, <1>4 DEF Inv, Types
    <3> QED
      BY <1>5, <3>1, <3>2
  <2>2. \A h \in sold' : h \in Goods /\ h[2] <= round'[h[1]]
    BY <1>1, <1>4 DEF Inv, Written, Types, Goods
  <2>3. \A i, j \in DOMAIN pipe' : pipe'[i] = pipe'[j] => i = j
    BY <1>3, <1>5 DEF Inv, Written
  <2> QED
    BY <2>1, <2>2, <2>3 DEF Written
<1>9. Reading'
  <2>1. Has("w")
    BY <1>1, WorkerHas DEF Write
  <2> QED
    BY <1>4, <2>1 DEF Inv, Reading, Born, Consumers
<1> QED
  BY <1>2, <1>3, <1>6, <1>7, <1>8, <1>9 DEF Inv, g

\* The first record is taken out.
LEMMA ReadInv ==
    ASSUME WellFormed, Inv, NEW c \in Consumers, Read(c)
    PROVE  /\ Inv'
           /\ Head(pipe) \in Goods
           /\ {pipe'[i] : i \in DOMAIN pipe'} = {pipe[i] : i \in DOMAIN pipe} \ {Head(pipe)}
<1>1. /\ pipe' = Tail(pipe) /\ sold' = sold \cup {Head(pipe)} /\ at[c] = "work"
      /\ UNCHANGED <<ends, at, round, forked>>
  BY DEF Read
<1>2. /\ Len(pipe) \in Nat \ {0} /\ DOMAIN pipe = 1..Len(pipe) /\ Head(pipe) = pipe[1] /\ Head(pipe) \in Goods
      /\ pipe' \in Seq(Goods) /\ Len(pipe') = Len(pipe) - 1 /\ DOMAIN pipe' = 1..(Len(pipe) - 1)
      /\ \A i \in 1..(Len(pipe) - 1) : pipe'[i] = pipe[i + 1]
  BY <1>1, EmptySeq, LenProperties, HeadTailProperties DEF Inv, Types, Read
<1>3. Types'
  BY <1>1, <1>2 DEF Inv, Types, WellFormed
<1>4. EndsOpen' /\ Unforked' /\ Unread' /\ Last' /\ Reading'
  BY <1>1 DEF Inv, EndsOpen, Unforked, Unread, Last, Reading, Born, Consumers
<1>5. Written'
  <2>1. /\ \A i \in DOMAIN pipe' : i + 1 \in DOMAIN pipe /\ pipe'[i] = pipe[i + 1]
        /\ \A i, j \in DOMAIN pipe' : i + 1 = j + 1 => i = j
        /\ 1 \in DOMAIN pipe
    BY <1>2
  <2> QED
    BY <1>1, <1>2, <2>1 DEF Inv, Written
<1>6. {pipe'[i] : i \in DOMAIN pipe'} = {pipe[i] : i \in DOMAIN pipe} \ {Head(pipe)}
  <2>1. \A i \in DOMAIN pipe' : i + 1 \in DOMAIN pipe /\ pipe'[i] = pipe[i + 1] /\ pipe[i + 1] # pipe[1]
    BY <1>2 DEF Inv, Written
  <2>2. \A i \in DOMAIN pipe \ {1} : i - 1 \in DOMAIN pipe' /\ pipe'[i - 1] = pipe[i]
    BY <1>2
  <2>3. ASSUME NEW x \in {pipe'[i] : i \in DOMAIN pipe'} PROVE x \in {pipe[i] : i \in DOMAIN pipe} \ {pipe[1]}
    BY <2>1
  <2>4. ASSUME NEW x \in {pipe[i] : i \in DOMAIN pipe} \ {pipe[1]} PROVE x \in {pipe'[i] : i \in DOMAIN pipe'}
    BY <2>2
  <2> QED
    BY <1>2, <2>3, <2>4
<1> QED
  BY <1>2, <1>3, <1>4, <1>5, <1>6 DEF Inv

----------------------------------------------------------------------------
\* A step that leaves the records leaves the warehouse.
LEMMA SameStore == ASSUME UNCHANGED <<pipe, sold>> PROVE UNCHANGED <<{pipe[i] : i \in DOMAIN pipe}, sold>>
OBVIOUS

\* Every step keeps the invariant, and is one of the warehouse or leaves it alone.
LEMMA PipeStep ==
    ASSUME WellFormed, Inv, [Next]_vars
    PROVE  Inv' /\ [Store!Next]_<<{pipe[i] : i \in DOMAIN pipe}, sold>>
<1>1. CASE Fork
  BY <1>1, ForkInv, SameStore DEF Fork
<1>2. CASE ParentCloses \/ ParentWaits
  BY <1>2, ParentInv, SameStore DEF ParentCloses, ParentWaits
<1>3. ASSUME NEW q \in Procs,
             \/ ChildCloses(q)
             \/ q \in Producers /\ (WriteKilled(q) \/ ProducerEnds(q))
             \/ q \in Consumers /\ ConsumerEnds(q)
      PROVE  Inv' /\ UNCHANGED <<pipe, sold>>
  BY <1>3, CloseInv DEF ChildCloses, WriteKilled, ProducerEnds, ConsumerEnds
<1>4. ASSUME NEW p \in Producers, Write(p) PROVE Inv' /\ Store!Next
  <2> DEFINE g == <<p, round[p] + 1>>
             S == {pipe[i] : i \in DOMAIN pipe}
  <2>1. Inv' /\ g \in Goods /\ g \notin S \cup sold
    BY <1>4, WriteInv
  <2>2. Len(pipe) \in Nat /\ DOMAIN pipe = 1..Len(pipe) /\ pipe \in Surjection(1..Len(pipe), S)
    BY LenProperties DEF Inv, Types, Surjection
  <2>3. IsFiniteSet(1..Len(pipe)) /\ Cardinality(1..Len(pipe)) = Len(pipe)
    <3>1. ASSUME NEW n \in Nat PROVE IsFiniteSet(1..n) /\ Cardinality(1..n) = n
      BY FS_Interval
    <3> QED
      BY <2>2, <3>1
  <2>4. IsFiniteSet(S) /\ Cardinality(S) <= Len(pipe)
    BY <2>2, <2>3, FS_Surjection
  <2>5. Cardinality(S) < PipeSize
    BY <1>4, <2>2, <2>4, FS_CardinalityType DEF Write, WellFormed
  <2>6. {pipe'[i] : i \in DOMAIN pipe'} = S \cup {g} /\ sold' = sold
    <3>1. pipe' = Append(pipe, g) /\ sold' = sold
      BY <1>4 DEF Write
    <3>2. /\ DOMAIN pipe' = 1..(Len(pipe) + 1) /\ pipe'[Len(pipe) + 1] = g
          /\ \A i \in 1..Len(pipe) : pipe'[i] = pipe[i]
      BY <2>1, <2>2, <3>1, LenProperties, AppendProperties DEF Inv, Types
    <3> QED
      BY <2>2, <3>1, <3>2
  <2> HIDE DEF g
  <2>7. Store!Cardinality(S) = Cardinality(S)
    BY DEF Store!Cardinality, Cardinality
  <2> QED
    BY <2>1, <2>5, <2>6, <2>7 DEF Store!Next, Store!Put
<1>5. ASSUME NEW c \in Consumers, Read(c) PROVE Inv' /\ Store!Next
  <2>1. Head(pipe) \in {pipe[i] : i \in DOMAIN pipe} /\ sold' = sold \cup {Head(pipe)}
    BY <1>5, EmptySeq, LenProperties DEF Read, Inv, Types
  <2> QED
    BY <1>5, <2>1, ReadInv DEF Store!Next, Store!Get
<1>6. CASE UNCHANGED vars
  BY <1>6 DEF vars, Inv, Types, EndsOpen, Unforked, Written, Reading, Unread, Last, Has, Born
<1>7. ASSUME NEW q \in Procs, Process(q) PROVE Inv' /\ (Store!Next \/ UNCHANGED <<pipe, sold>>)
  BY <1>3, <1>4, <1>5, <1>7 DEF Process, Producer, Consumer
<1> QED
  BY <1>1, <1>2, <1>6, <1>7, SameStore DEF Next, ParentStep

\* In the beginning the warehouse is empty.
LEMMA PipeStart == ASSUME WellFormed, Init PROVE Inv /\ Store!Init
BY InitInv DEF Init, Store!Init

\* What the programs promise of the pipe is part of the invariant.
LEMMA PipeMeans == ASSUME WellFormed, Inv PROVE TypeOK /\ ConsumersStayToTheEnd
<1>1. TypeOK
  BY DEF Inv, Types, EndsOpen, TypeOK, Gone
<1>2. ASSUME Born, at[Parent] = "over" PROVE pipe = <<>>
  <2>1. \A c \in Consumers : at[c] \in Gone
    BY <1>2 DEF Inv, Last, Consumers
  <2> QED
    BY <1>2, <2>1 DEF Inv, Reading, Gone
<1> QED
  BY <1>1, <1>2 DEF Inv, Unread, Born, ConsumersStayToTheEnd

\* producer_consumer_1.c and _2.c implement the warehouse: a record is read once,
\* by one consumer, and the pipe holds no more than it can.
THEOREM PipeRefines == WellFormed => (Spec => ImplementsWarehouse)
<1> SUFFICES ASSUME WellFormed PROVE Spec => ImplementsWarehouse
  OBVIOUS
<1>1. Init => Inv /\ Store!Init
  BY PipeStart
<1>2. Inv /\ [Next]_vars => Inv' /\ [Store!Next]_<<{pipe[i] : i \in DOMAIN pipe}, sold>>
  BY PipeStep
<1> QED
  BY <1>1, <1>2, PTL DEF Spec, ImplementsWarehouse, Store!Spec

\* Consumers of producer_consumer_2.c read to the end whichever fork failed.
THEOREM PipeKept == WellFormed => (Spec => [](TypeOK /\ ConsumersStayToTheEnd))
<1> SUFFICES ASSUME WellFormed PROVE Spec => [](TypeOK /\ ConsumersStayToTheEnd)
  OBVIOUS
<1>1. Init => Inv
  BY PipeStart
<1>2. Inv /\ [Next]_vars => Inv'
  BY PipeStep
<1>3. Inv => TypeOK /\ ConsumersStayToTheEnd
  BY PipeMeans
<1> QED
  BY <1>1, <1>2, <1>3, PTL DEF Spec
=============================================================================

-------------------------- MODULE Programs_proofs --------------------------
(***************************************************************************)
(* The small programs, for any number of threads, goods, rounds, clients   *)
(* and messages.  Of the threads: what they share is kept, what is between *)
(* producers and consumers is a warehouse, and the semaphore counts.  Of   *)
(* the sockets: what is sent arrives, and descriptors are within their     *)
(* limits.                                                                 *)
(***************************************************************************)
EXTENDS Threads, Sockets, FiniteSetTheorems, SequenceTheorems, WellFoundedInduction, TLAPS

----------------------------------------------------------------------------
(* LightweightSemaphore.  If every signal brings a unit, the count and the *)
(* semaphore agree, and together they are a counting semaphore.            *)

\* What holds at each point of the consumer that Agree does not say: it has
\* seen a unit, which nobody else can take from it, or is in a wait that may
\* time out.
AtPc ==
    /\ (pc = "idle") = (mode = "idle")
    /\ pc \in {"take", "redo"} => m_count >= 1
    /\ pc = "try" => m_count >= 0
    /\ pc \in {"undo", "redo", "try"} => mode = "timed"

IInv == TypeOK /\ Agree /\ AtPc

\* So many are posting.
LEMMA PostingFinite == ASSUME TypeOK PROVE IsFiniteSet(posting) /\ Cardinality(posting) \in Nat
BY SemaphoreAssumption, FS_Subset, FS_CardinalityType DEF TypeOK

\* It holds at first.
LEMMA InitIInv == Init => IInv
BY SemaphoreAssumption, FS_EmptySet DEF Init, IInv, TypeOK, Agree, AtPc, Owed, Debt

----------------------------------------------------------------------------
(* Producers.                                                              *)

\* A producer that finds the consumer asleep is the one that owes the signal.
LEMMA SignalIInv ==
    ASSUME Fewest > 0, IInv, NEW p \in Producers, Signal(p) PROVE IInv'
<1>1. PICK count \in Fewest..MaxUnits : m_count' = m_count + count
  BY DEF Signal
<1>2. count \in Nat /\ count > 0 /\ m_count \in Int
  BY SemaphoreAssumption DEF IInv, TypeOK
<1>3. IsFiniteSet(posting) /\ Cardinality(posting) \in Nat
  BY PostingFinite DEF IInv
<1>4. Cardinality(posting') = IF Sleeping THEN Cardinality(posting) + 1 ELSE Cardinality(posting)
  BY <1>3, FS_AddElement DEF Signal
<1>5. TypeOK' /\ AtPc'
  BY <1>1, <1>2 DEF Signal, IInv, TypeOK, AtPc
<1>6. Agree'
  BY <1>1, <1>2, <1>3, <1>4 DEF Signal, Sleeping, IInv, TypeOK, Agree, AtPc, Owed, Debt
<1> QED
  BY <1>5, <1>6 DEF IInv

\* Of what was owed, one moves from the producer to the semaphore.
LEMMA PostIInv == ASSUME IInv, NEW p \in Producers, Post(p) PROVE IInv'
<1>1. IsFiniteSet(posting) /\ Cardinality(posting) \in Nat
  BY PostingFinite DEF IInv
<1>2. Cardinality(posting') = Cardinality(posting) - 1
  BY <1>1, FS_RemoveElement DEF Post
<1> QED
  BY <1>1, <1>2 DEF Post, IInv, TypeOK, Agree, AtPc, Owed, Debt

----------------------------------------------------------------------------
(* The consumer.  Where it takes from the semaphore nobody is posting.     *)

\* A step of the consumer keeps it.
LEMMA ConsumerIInv == ASSUME IInv, Wait \/ Timeout \/ Consume PROVE IInv'
<1>1. Cardinality(posting) \in Nat
  BY PostingFinite DEF IInv
<1>2. posting' = posting
  BY DEF Wait, Timeout, Consume, Load, Take, Subtract, Wake, Undo, Redo, TryAgain
<1>3. CASE Wait
  BY <1>1, <1>2, <1>3 DEF Wait, IInv, TypeOK, Agree, AtPc, Owed, Debt
<1>4. CASE Timeout
  BY <1>1, <1>2, <1>4 DEF Timeout, Goto, IInv, TypeOK, Agree, AtPc, Owed, Debt
<1>5. CASE Load
  BY <1>1, <1>2, <1>5 DEF Load, Goto, Return, IInv, TypeOK, Agree, AtPc, Owed, Debt
<1>6. CASE Take
  BY <1>1, <1>2, <1>6 DEF Take, Return, IInv, TypeOK, Agree, AtPc, Owed, Debt
<1>7. CASE Subtract
  <2>1. m_count \in Int /\ m_count >= 0 /\ m_sema + Cardinality(posting) = 0
    BY <1>7 DEF Subtract, IInv, TypeOK, Agree, Owed, Debt
  <2>2. CASE m_count > 0
    BY <1>1, <1>2, <1>7, <2>1, <2>2 DEF Subtract, Return, IInv, TypeOK, Agree, AtPc, Owed, Debt
  <2>3. CASE m_count = 0
    BY <1>1, <1>2, <1>7, <2>1, <2>3 DEF Subtract, Goto, IInv, TypeOK, Agree, AtPc, Owed, Debt
  <2> QED
    BY <2>1, <2>2, <2>3
<1>8. CASE Wake
  BY <1>1, <1>2, <1>8 DEF Wake, Return, IInv, TypeOK, Agree, AtPc, Owed, Debt
<1>9. CASE Undo
  BY <1>1, <1>2, <1>9 DEF Undo, NotSignalled, Goto, Return, IInv, TypeOK, Agree, AtPc, Owed, Debt
<1>10. CASE Redo
  BY <1>1, <1>2, <1>10 DEF Redo, Goto, IInv, TypeOK, Agree, AtPc, Owed, Debt
<1>11. CASE TryAgain
  BY <1>1, <1>2, <1>11 DEF TryAgain, Goto, Return, IInv, TypeOK, Agree, AtPc, Owed, Debt
<1> QED
  BY <1>3, <1>4, <1>5, <1>6, <1>7, <1>8, <1>9, <1>10, <1>11 DEF Consume

\* Every step keeps it.
LEMMA StepIInv == ASSUME Fewest > 0, IInv, [Next]_vars PROVE IInv'
<1>1. CASE UNCHANGED vars
  BY <1>1 DEF vars, IInv, TypeOK, Agree, AtPc, Owed, Debt
<1>2. CASE Next
  BY <1>2, SignalIInv, PostIInv, ConsumerIInv DEF Next
<1> QED
  BY <1>1, <1>2

(***************************************************************************)
(* The count and m_sema agree in every state (04_atomicops.h 581-605 and   *)
(* 634-643), if no call of signal brings nothing.                          *)
(***************************************************************************)
THEOREM SemaphoreAgrees == Fewest > 0 => (Spec => []Agree)
<1> SUFFICES ASSUME Fewest > 0 PROVE Spec => []Agree
  OBVIOUS
<1>1. IInv /\ [Next]_vars => IInv'
  BY StepIInv
<1>2. IInv => Agree
  BY DEF IInv
<1> QED
  BY InitIInv, <1>1, <1>2, PTL DEF Spec

----------------------------------------------------------------------------
(* Refinement.  A wait takes its unit in the step in which it returns TRUE *)
(* and the steps of undoing change nothing that a caller can see.          *)

\* Every step is one of a counting semaphore, or changes nothing.
LEMMA StepRefines == ASSUME IInv, [Next]_vars PROVE [Sem!Next]_(Sem!vars)
<1> USE DEF Sem!vars, Available, Debt
<1>1. CASE UNCHANGED vars
  BY <1>1 DEF vars
<1>2. ASSUME NEW p \in Producers, Signal(p) PROVE Sem!Signal
  <2>1. PICK count \in Fewest..MaxUnits : m_count' = m_count + count
    BY <1>2 DEF Signal
  <2>2. count \in Nat /\ m_count \in Int
    BY SemaphoreAssumption DEF IInv, TypeOK
  <2> QED
    BY <1>2, <2>1, <2>2 DEF Signal, Sem!Signal, IInv, TypeOK, Agree
<1>3. ASSUME NEW p \in Producers, Post(p) PROVE UNCHANGED Sem!vars
  BY <1>3 DEF Post
<1>4. CASE Wait
  BY <1>4 DEF Wait, Sem!Next, Sem!Call, IInv, AtPc
<1>5. CASE Timeout
  BY <1>5 DEF Timeout, Goto
<1>6. CASE Load
  BY <1>6 DEF Load, Goto, Return, Sem!Next, Sem!ReturnFalse
<1>7. CASE Take
  BY <1>7 DEF Take, Return, Sem!Next, Sem!ReturnTrue, IInv, TypeOK, AtPc
<1>8. CASE Subtract
  BY <1>8 DEF Subtract, Goto, Return, Sem!Next, Sem!ReturnTrue, IInv, TypeOK, AtPc
<1>9. CASE Wake
  <2>1. m_count >= 0
    BY <1>9, PostingFinite DEF Wake, IInv, TypeOK, Agree, Owed
  <2> QED
    BY <1>9, <2>1 DEF Wake, Return, Sem!Next, Sem!ReturnTrue, IInv, TypeOK, AtPc
<1>10. CASE Undo
  BY <1>10 DEF Undo, Goto, Return, Sem!Next, Sem!ReturnFalse, IInv, TypeOK, AtPc
<1>11. CASE Redo
  BY <1>11 DEF Redo, Goto, IInv, TypeOK, AtPc
<1>12. CASE TryAgain
  BY <1>12 DEF TryAgain, Goto, Return, Sem!Next, Sem!ReturnTrue, IInv, TypeOK, AtPc
<1> QED
  BY <1>1, <1>2, <1>3, <1>4, <1>5, <1>6, <1>7, <1>8, <1>9, <1>10, <1>11, <1>12
  DEF Next, Consume, Sem!Next

(***************************************************************************)
(* Under the same assumption LightweightSemaphore is a counting semaphore: *)
(* a TRUE of wait is a unit that was signalled, a FALSE took none.         *)
(***************************************************************************)
THEOREM SemaphoreRefines == Fewest > 0 => (Spec => ImplementsSemaphore)
<1> SUFFICES ASSUME Fewest > 0 PROVE Spec => ImplementsSemaphore
  OBVIOUS
<1>1. IInv /\ [Next]_vars => IInv'
  BY StepIInv
<1>2. IInv /\ [Next]_vars => [Sem!Next]_(Sem!vars)
  BY StepRefines
<1>3. Init => Sem!Init
  BY SemaphoreAssumption DEF Init, Sem!Init, Available, Debt
<1> QED
  BY InitIInv, <1>1, <1>2, <1>3, PTL DEF Spec, ImplementsSemaphore, Sem!Spec

----------------------------------------------------------------------------
(* producer_consumer_5.c.                                                  *)

\* Where the two threads can be, and who has the mutex there.
QueueTypes ==
    /\ cq_idx_p \in 0..QueueGoods /\ cq_idx_c \in 0..QueueGoods
    /\ cq_mutex \in {"nobody", "producer", "consumer"}
    /\ cq_pp \in {"loop", "lock", "produce", "signal", "unlock", "urge", "scan", "scanned", "over"}
    /\ cq_pcons \in {"loop", "lock", "wait", "relock", "look", "consume", "advance", "store", "over"}
    /\ cq_pp \in {"lock", "produce"} => cq_idx_p < QueueGoods
    /\ cq_pcons \in {"lock", "wait", "relock", "look", "consume", "advance"} => cq_idx_c < QueueGoods
    /\ cq_pcons = "store" => cq_idx_c > 0
    /\ cq_mutex = "producer" <=> cq_pp \in {"produce", "signal", "unlock"}
    /\ cq_mutex = "consumer" <=> cq_pcons = "wait"

\* So many goods have been produced, and consumed: the producer uses its index to
\* scan, and the two stores of the consumer come in either order.
Produced == IF cq_pp \in {"scan", "scanned", "over"} THEN QueueGoods ELSE cq_idx_p
Consumed == IF cq_pcons = "advance" THEN cq_idx_c + 1 ELSE IF cq_pcons = "store" THEN cq_idx_c - 1 ELSE cq_idx_c

QueueFilled ==
    /\ cq_queue \in [Queue!Items -> 0..2]
    /\ \A i \in Queue!Items : cq_queue[i] = IF i < Consumed THEN 2 ELSE IF i < Produced THEN 1 ELSE 0
    /\ Consumed <= Produced
    /\ cq_pcons = "consume" => cq_idx_c < Produced
    /\ cq_pcons = "store" => cq_idx_c <= Produced

QueueAhead == cq_pp \in {"loop", "lock", "produce"} => cq_idx_p - cq_idx_c <= QueueLag

QueueInv == QueueTypes /\ QueueFilled /\ QueueAhead

\* A step that stores no good leaves the warehouse.
LEMMA QueueSame ==
    ASSUME UNCHANGED cq_queue
    PROVE  UNCHANGED <<{i \in Queue!Items : cq_queue[i] = 1}, {i \in Queue!Items : cq_queue[i] = 2}>>
OBVIOUS

\* The producer goes on, the queue stays.
LEMMA QueueProducer ==
    ASSUME Queue!WellFormed, QueueInv,
           \/ Queue!ProducerLoop \/ Queue!ProducerLock \/ Queue!ProducerSignal \/ Queue!ProducerUnlock
           \/ Queue!ProducerUrge \/ Queue!ProducerScan \/ Queue!ProducerScanned
    PROVE  QueueInv' /\ UNCHANGED cq_queue
<1>1. CASE Queue!ProducerLoop
  BY <1>1 DEF Queue!ProducerLoop, Queue!WellFormed, QueueInv, QueueTypes, QueueFilled, QueueAhead, Produced, Consumed
<1>2. CASE Queue!ProducerLock \/ Queue!ProducerSignal \/ Queue!ProducerUnlock
  BY <1>2 DEF Queue!ProducerLock, Queue!ProducerSignal, Queue!ProducerUnlock, Queue!WellFormed, QueueInv, QueueTypes, QueueFilled, QueueAhead, Produced, Consumed
<1>3. CASE Queue!ProducerUrge
  BY <1>3 DEF Queue!ProducerUrge, Queue!TooFarAhead, Queue!WellFormed, QueueInv, QueueTypes, QueueFilled, QueueAhead, Produced, Consumed
<1>4. CASE Queue!ProducerScan
  <2>1. UNCHANGED <<cq_queue, cq_idx_c, cq_mutex, cq_pcons>> /\ cq_pp = "scan" /\ cq_pp' \in {"scan", "scanned"} /\ cq_idx_p' \in {cq_idx_p, cq_idx_p + 1}
    BY <1>4 DEF Queue!ProducerScan
  <2>2. cq_idx_p' \in 0..QueueGoods
    BY <1>4, <2>1 DEF Queue!ProducerScan, Queue!WellFormed, QueueInv, QueueTypes
  <2>3. Produced' = Produced /\ Consumed' = Consumed
    BY <2>1 DEF Produced, Consumed
  <2> QED
    BY <2>1, <2>2, <2>3 DEF QueueInv, QueueTypes, QueueFilled, QueueAhead
<1>5. CASE Queue!ProducerScanned
  BY <1>5 DEF Queue!ProducerScanned, Queue!AfterScan, Queue!WellFormed, QueueInv, QueueTypes, QueueFilled, QueueAhead, Produced, Consumed
<1> QED
  BY <1>1, <1>2, <1>3, <1>4, <1>5

\* The consumer goes on, the queue stays.
LEMMA QueueConsumer ==
    ASSUME Queue!WellFormed, QueueInv,
           Queue!ConsumerLoop \/ Queue!ConsumerLock \/ Queue!ConsumerWait \/ Queue!Spurious \/ Queue!ConsumerWoken \/ Queue!ConsumerLook
    PROVE  QueueInv' /\ UNCHANGED cq_queue
<1>1. CASE Queue!ConsumerLoop \/ Queue!ConsumerLock \/ Queue!ConsumerWait \/ Queue!Spurious \/ Queue!ConsumerWoken
  BY <1>1 DEF Queue!ConsumerLoop, Queue!ConsumerLock, Queue!ConsumerWait, Queue!Spurious, Queue!ConsumerWoken, Queue!WellFormed,
              QueueInv, QueueTypes, QueueFilled, QueueAhead, Produced, Consumed
<1>2. CASE Queue!ConsumerLook
  <2>1. Queue!IsGood => cq_idx_c < Produced
    BY <1>2 DEF Queue!ConsumerLook, Queue!IsGood, QueueInv, QueueTypes, QueueFilled, Consumed, Queue!Items, Queue!WellFormed
  <2> QED
    BY <1>2, <2>1 DEF Queue!ConsumerLook, Queue!WellFormed, QueueInv, QueueTypes, QueueFilled, QueueAhead, Produced, Consumed
<1> QED
  BY <1>1, <1>2

\* A good is produced where there is none, and there is room for it.
LEMMA QueueProduces ==
    ASSUME Queue!WellFormed, QueueInv, Queue!Produce
    PROVE  QueueInv' /\ Queue!Store!Next
<1>1. /\ cq_pp = "produce" /\ cq_pp' = "signal" /\ cq_idx_p \in Queue!Items /\ cq_idx_p' = cq_idx_p + 1
      /\ cq_queue' = [cq_queue EXCEPT ![cq_idx_p] = 1] /\ UNCHANGED <<cq_idx_c, cq_mutex, cq_pcons>>
      /\ Produced = cq_idx_p /\ Produced' = cq_idx_p + 1 /\ Consumed' = Consumed
  BY DEF Queue!Produce, QueueInv, QueueTypes, Queue!Items, Queue!WellFormed, Produced, Consumed
<1>2. /\ cq_idx_p \in Nat /\ Consumed \in Nat /\ Consumed <= cq_idx_p /\ cq_idx_p - Consumed < QueueLag + 2
      /\ cq_idx_p < QueueGoods /\ QueueGoods \in Nat /\ QueueLag \in Nat /\ cq_idx_c \in Nat
  <2>1. /\ cq_idx_p \in Nat /\ cq_idx_p < QueueGoods /\ QueueGoods \in Nat /\ QueueLag \in Nat /\ cq_idx_c \in Nat
        /\ cq_idx_p - cq_idx_c <= QueueLag /\ (cq_pcons = "store" => cq_idx_c > 0)
    BY <1>1 DEF QueueInv, QueueTypes, QueueAhead, Queue!WellFormed, Queue!Items
  <2>2. Consumed <= cq_idx_p
    BY <1>1 DEF QueueInv, QueueFilled
  <2>3. Consumed \in Nat /\ Consumed >= cq_idx_c - 1
    BY <2>1 DEF Consumed
  <2> QED
    BY <2>1, <2>2, <2>3
<1>3. \A i \in Queue!Items : i \in Nat /\ i < QueueGoods /\ cq_queue[i] = IF i < Consumed THEN 2 ELSE IF i < cq_idx_p THEN 1 ELSE 0
  BY <1>1, <1>2 DEF QueueInv, QueueFilled, Queue!Items
<1>4. /\ cq_queue' \in [Queue!Items -> 0..2]
      /\ \A i \in Queue!Items : cq_queue'[i] = IF i < Consumed THEN 2 ELSE IF i < cq_idx_p + 1 THEN 1 ELSE 0
  <2>1. cq_queue' \in [Queue!Items -> 0..2] /\ \A i \in Queue!Items : cq_queue'[i] = IF i = cq_idx_p THEN 1 ELSE cq_queue[i]
    BY <1>1 DEF QueueInv, QueueFilled
  <2> QED
    BY <1>2, <1>3, <2>1
<1>5. QueueInv'
  <2>1. QueueTypes' /\ QueueAhead'
    BY <1>1, <1>2 DEF QueueInv, QueueTypes, QueueAhead
  <2>3. cq_pcons = "consume" => cq_idx_c < cq_idx_p + 1
    BY <1>1, <1>2 DEF QueueInv, QueueFilled
  <2>4. cq_pcons = "store" => cq_idx_c <= cq_idx_p + 1
    BY <1>1, <1>2 DEF QueueInv, QueueFilled
  <2> QED
    BY <1>1, <1>2, <1>4, <2>1, <2>3, <2>4 DEF QueueInv, QueueFilled
<1> DEFINE S == {i \in Queue!Items : cq_queue[i] = 1}
<1>6. S = Consumed..(cq_idx_p - 1)
  <2>1. \A i \in Consumed..(cq_idx_p - 1) : i \in Queue!Items
    BY <1>2 DEF Queue!Items
  <2>2. \A i \in Queue!Items : cq_queue[i] = 1 <=> i \in Consumed..(cq_idx_p - 1)
    BY <1>2, <1>3
  <2> QED
    BY <2>1, <2>2
<1>7. Queue!Store!Cardinality(S) < QueueLag + 2
  <2>1. Cardinality(S) = IF Consumed > cq_idx_p - 1 THEN 0 ELSE cq_idx_p - 1 - Consumed + 1
    <3>1. Consumed \in Int /\ cq_idx_p - 1 \in Int
      BY <1>2
    <3> HIDE DEF S
    <3> QED
      BY <1>6, <3>1, FS_Interval
  <2>2. Cardinality(S) < QueueLag + 2
    BY <1>2, <2>1
  <2> QED
    BY <2>2 DEF Queue!Store!Cardinality, Cardinality
<1>8. /\ cq_idx_p \notin S \cup {i \in Queue!Items : cq_queue[i] = 2}
      /\ {i \in Queue!Items : cq_queue'[i] = 1} = S \cup {cq_idx_p}
      /\ {i \in Queue!Items : cq_queue'[i] = 2} = {i \in Queue!Items : cq_queue[i] = 2}
  BY <1>1, <1>2, <1>3, <1>4 DEF Queue!Items
<1> HIDE DEF S
<1>9. Queue!Store!Next
  BY <1>1, <1>7, <1>8 DEF Queue!Store!Next, Queue!Store!Put, S
<1> QED
  BY <1>5, <1>9

\* A good is consumed, the first there is; the index may be ahead of it.
LEMMA QueueConsumes ==
    ASSUME Queue!WellFormed, QueueInv, Queue!Consume \/ Queue!ConsumeSecond
    PROVE  QueueInv' /\ (UNCHANGED cq_queue \/ Queue!Store!Next)
<1>1. /\ UNCHANGED <<cq_idx_p, cq_mutex, cq_pp>> /\ Produced' = Produced
      /\ Produced \in Nat /\ Produced <= QueueGoods /\ QueueGoods \in Nat
      /\ cq_idx_c \in Nat /\ cq_idx_c <= QueueGoods
  <2>1. UNCHANGED <<cq_idx_p, cq_mutex, cq_pp>>
    BY DEF Queue!Consume, Queue!ConsumeSecond
  <2>2. /\ Produced \in Nat /\ Produced <= QueueGoods /\ QueueGoods \in Nat
        /\ cq_idx_c \in Nat /\ cq_idx_c <= QueueGoods
    BY DEF Produced, QueueInv, QueueTypes, Queue!WellFormed
  <2> QED
    BY <2>1, <2>2 DEF Produced
<1>2. \/ UNCHANGED cq_queue /\ cq_idx_c' = cq_idx_c + 1
         /\ \/ cq_pcons = "consume" /\ cq_pcons' = "store" /\ cq_idx_c < Produced
            \/ cq_pcons = "advance" /\ cq_pcons' = "loop"
      \/ UNCHANGED cq_idx_c
         /\ \/ cq_pcons = "consume" /\ cq_pcons' = "advance" /\ cq_queue' = [cq_queue EXCEPT ![cq_idx_c] = 2] /\ cq_idx_c < Produced
            \/ cq_pcons = "store" /\ cq_pcons' = "loop" /\ cq_queue' = [cq_queue EXCEPT ![cq_idx_c - 1] = 2] /\ cq_idx_c > 0 /\ cq_idx_c <= Produced
  BY DEF Queue!Consume, Queue!ConsumeSecond, QueueInv, QueueTypes, QueueFilled
<1>3. QueueTypes' /\ QueueAhead'
  <2>1. cq_idx_c' \in 0..QueueGoods
    BY <1>1, <1>2 DEF QueueInv, QueueTypes
  <2>2. QueueTypes'
    BY <1>1, <1>2, <2>1 DEF QueueInv, QueueTypes
  <2>3. QueueAhead'
    <3>0. \A i, j, k, l \in Nat : j <= k => (i - j <= l => i - k <= l)
      OBVIOUS
    <3>1. cq_idx_p \in Nat /\ QueueLag \in Nat /\ cq_idx_c \in Nat /\ cq_idx_c' \in Nat /\ cq_idx_c' >= cq_idx_c
      BY <1>1, <1>2, <2>1 DEF QueueInv, QueueTypes, Queue!WellFormed
    <3>2. cq_pp \in {"loop", "lock", "produce"} => cq_idx_p - cq_idx_c <= QueueLag
      BY DEF QueueInv, QueueAhead
    <3>3. cq_idx_p - cq_idx_c <= QueueLag => cq_idx_p - cq_idx_c' <= QueueLag
      BY <3>0, <3>1
    <3> QED
      BY <1>1, <3>2, <3>3 DEF QueueAhead
  <2> QED
    BY <2>2, <2>3
<1>4. CASE UNCHANGED cq_queue /\ cq_idx_c' = cq_idx_c + 1
  <2>1. Consumed' = Consumed /\ (cq_pcons' = "store" => cq_idx_c' <= Produced)
    BY <1>1, <1>2, <1>4 DEF Consumed
  <2>2. cq_pcons' # "consume"
    BY <1>2
  <2> QED
    BY <1>1, <1>2, <1>3, <1>4, <2>1, <2>2 DEF QueueInv, QueueFilled
<1>5. CASE ~(UNCHANGED cq_queue /\ cq_idx_c' = cq_idx_c + 1)
  <2>1. /\ Consumed \in Queue!Items /\ Consumed < Produced /\ Consumed' = Consumed + 1
        /\ cq_queue' = [cq_queue EXCEPT ![Consumed] = 2]
        /\ cq_pcons' \notin {"consume", "store"}
    BY <1>1, <1>2, <1>5 DEF QueueInv, QueueTypes, QueueFilled, Consumed, Queue!Items
  <2>2. \A i \in Queue!Items : i \in Nat /\ cq_queue[i] = IF i < Consumed THEN 2 ELSE IF i < Produced THEN 1 ELSE 0
    BY DEF QueueInv, QueueFilled, Queue!Items
  <2>3. cq_queue' \in [Queue!Items -> 0..2] /\ \A i \in Queue!Items : cq_queue'[i] = IF i = Consumed THEN 2 ELSE cq_queue[i]
    BY <2>1 DEF QueueInv, QueueFilled
  <2>4. \A i \in Queue!Items : cq_queue'[i] = IF i < Consumed + 1 THEN 2 ELSE IF i < Produced THEN 1 ELSE 0
    BY <1>1, <2>1, <2>2, <2>3
  <2>5. QueueFilled'
    BY <1>1, <2>1, <2>3, <2>4 DEF QueueFilled, Queue!Items
  <2>6. /\ Consumed \in {i \in Queue!Items : cq_queue[i] = 1}
        /\ {i \in Queue!Items : cq_queue'[i] = 1} = {i \in Queue!Items : cq_queue[i] = 1} \ {Consumed}
        /\ {i \in Queue!Items : cq_queue'[i] = 2} = {i \in Queue!Items : cq_queue[i] = 2} \cup {Consumed}
    BY <1>1, <2>1, <2>2, <2>3
  <2>7. Queue!Store!Next
    BY <2>1, <2>6 DEF Queue!Store!Next, Queue!Store!Get
  <2> QED
    BY <1>3, <2>5, <2>7 DEF QueueInv
<1> QED
  BY <1>4, <1>5

\* Every step keeps the invariant, and is one of the warehouse or leaves it alone.
LEMMA QueueStep ==
    ASSUME Queue!WellFormed, QueueInv, [Queue!Next]_(Queue!vars)
    PROVE  /\ QueueInv'
           /\ [Queue!Store!Next]_<<{i \in Queue!Items : cq_queue[i] = 1}, {i \in Queue!Items : cq_queue[i] = 2}>>
<1>1. CASE UNCHANGED Queue!vars
  BY <1>1, QueueSame DEF Queue!vars, QueueInv, QueueTypes, QueueFilled, QueueAhead, Produced, Consumed
<1>2. CASE Queue!Next
  BY <1>2, QueueSame, QueueProducer, QueueConsumer, QueueProduces, QueueConsumes DEF Queue!Next, Queue!Producer, Queue!Consumer
<1> QED
  BY <1>1, <1>2

\* In the beginning nothing is produced.
LEMMA QueueStart == ASSUME Queue!WellFormed, Queue!Init PROVE QueueInv /\ Queue!Store!Init
BY DEF Queue!WellFormed, Queue!Init, QueueInv, QueueTypes, QueueFilled, QueueAhead, Produced, Consumed, Queue!Items, Queue!Store!Init

\* The goods are in the order they were produced in.
LEMMA QueueMeans == ASSUME Queue!WellFormed, QueueInv PROVE Queue!TypeOK /\ Queue!InOrder
<1>1. /\ Produced \in Nat /\ Consumed \in Int
      /\ \A i \in Queue!Items : i \in Nat /\ cq_queue[i] = IF i < Consumed THEN 2 ELSE IF i < Produced THEN 1 ELSE 0
  BY DEF QueueInv, QueueTypes, QueueFilled, Produced, Consumed, Queue!Items, Queue!WellFormed
<1>2. Queue!InOrder
  BY <1>1 DEF Queue!InOrder
<1>3. cq_queue \in [Queue!Items -> 0..2]
  BY <1>1 DEF QueueInv, QueueFilled
<1>4. cq_pp \in {"lock", "produce"} => cq_idx_p \in Queue!Items /\ Produced = cq_idx_p /\ Consumed <= cq_idx_p
  BY DEF QueueInv, QueueTypes, QueueFilled, Queue!Items, Produced, Queue!WellFormed
<1> QED
  BY <1>1, <1>2, <1>3, <1>4 DEF QueueInv, QueueTypes, Queue!TypeOK, Queue!WellFormed

----------------------------------------------------------------------------
(* 02_pthread_rwlock.c.                                                    *)

\* Who is to write has the lock alone, and has read the count.
CounterTypes ==
    /\ rw_pc \in [Counter!Threads -> {"top", "lock", "inside", "print", "sleep", "ended"}]
    /\ rw_shared \in Nat /\ rw_old \in [Writers -> Nat]
CounterLocked == \A w \in Writers : rw_pc[w] = "inside" => rw_writer = w /\ rw_old[w] = rw_shared

\* The writers that are past the test, with the counts there are.
Past == {w \in Writers : rw_pc[w] \in {"lock", "inside"}}
CounterCount == rw_shared + Cardinality(Past) <= CountLimit + Cardinality(Writers) - 1

CounterInv == CounterTypes /\ CounterLocked /\ CounterCount

\* The module of the lock has the sets and numbers of this one.
LEMMA CounterNotions ==
    ASSUME Counter!WellFormed
    PROVE  IsFiniteSet(Writers) /\ \A S : Counter!Cardinality(S) = Cardinality(S)
BY DEF Counter!WellFormed, Counter!IsFiniteSet, IsFiniteSet, Counter!Cardinality, Cardinality

\* There are no more than all of them.
LEMMA CounterFinite ==
    ASSUME Counter!WellFormed
    PROVE  /\ IsFiniteSet(Past) /\ Cardinality(Past) \in Nat /\ Cardinality(Writers) \in Nat
           /\ Cardinality(Past) <= Cardinality(Writers)
           /\ CountLimit \in Nat \ {0}
BY CounterNotions, FS_Subset, FS_CardinalityType DEF Past, Counter!WellFormed

\* Steps of readers and of main, and those of a writer that is not past the test.
LEMMA CounterQuiet ==
    ASSUME Counter!WellFormed, CounterInv, NEW t \in Counter!Threads, NEW l \in {"top", "inside", "print", "sleep", "ended"},
           rw_pc' = [rw_pc EXCEPT ![t] = l], t \in Writers => rw_pc[t] \notin {"lock", "inside"} /\ l # "inside",
           UNCHANGED <<rw_shared, rw_old>>, rw_writer' = rw_writer \/ (rw_writer = t /\ (t \in Writers => rw_pc[t] # "inside"))
    PROVE  CounterInv'
<1>1. CounterTypes'
  BY DEF CounterInv, CounterTypes
<1>2. \A w \in Writers : w \in Counter!Threads /\ (rw_pc'[w] = "inside" => rw_pc[w] = "inside" /\ w # t)
  BY DEF CounterInv, CounterTypes, Counter!Threads
<1>3. CounterLocked'
  BY <1>2 DEF CounterInv, CounterLocked
<1>4. Past' = Past
  BY DEF CounterInv, CounterTypes, Counter!Threads, Past
<1> QED
  BY <1>1, <1>3, <1>4 DEF CounterInv, CounterCount

\* A writer passes the test.
LEMMA CounterTest ==
    ASSUME Counter!WellFormed, CounterInv, NEW w \in Writers, Counter!Test(w)
    PROVE  CounterInv'
<1>0. w \in Counter!Threads /\ rw_pc[w] = "top" /\ UNCHANGED <<rw_writer, rw_shared, rw_old>>
  BY DEF Counter!Test, Counter!Threads
<1>1. CASE Counter!BelowLimit
  <2>1. rw_pc' = [rw_pc EXCEPT ![w] = "lock"]
    BY <1>1 DEF Counter!Test, Counter!Goto
  <2>2. CounterTypes' /\ CounterLocked'
    BY <1>0, <2>1 DEF CounterInv, CounterTypes, CounterLocked, Counter!Threads
  <2>3. /\ Cardinality(Past)' \in Nat /\ Cardinality(Past)' <= Cardinality(Writers) /\ Cardinality(Writers) \in Nat
        /\ CountLimit \in Nat
    <3>1. IsFiniteSet(Writers) /\ Past' \subseteq Writers
      BY CounterNotions DEF Past
    <3>2. IsFiniteSet(Past') /\ Cardinality(Past') <= Cardinality(Writers)
      BY <3>1, FS_Subset
    <3> QED
      BY <3>1, <3>2, CounterFinite, FS_CardinalityType
  <2>4. rw_shared \in Nat /\ rw_shared < CountLimit
    BY <1>1 DEF Counter!BelowLimit, CounterInv, CounterTypes
  <2>5. CounterCount'
    BY <1>0, <2>3, <2>4 DEF CounterCount
  <2> QED
    BY <2>2, <2>5 DEF CounterInv
<1>2. CASE ~Counter!BelowLimit
  BY <1>0, <1>2 DEF Counter!Test, CounterInv, CounterTypes, CounterLocked, CounterCount, Past
<1> QED
  BY <1>1, <1>2

\* A writer has the lock, and reads the count.
LEMMA CounterWrLock ==
    ASSUME Counter!WellFormed, CounterInv, NEW w \in Writers, Counter!WrLock(w)
    PROVE  CounterInv'
<1>1. /\ w \in Counter!Threads /\ rw_pc[w] = "lock" /\ rw_writer = Counter!None /\ rw_writer' = w
      /\ rw_pc' = [rw_pc EXCEPT ![w] = "inside"] /\ rw_old' = [rw_old EXCEPT ![w] = rw_shared] /\ rw_shared' = rw_shared
  BY DEF Counter!WrLock, Counter!Threads, Counter!NobodyIn, Counter!Goto
<1>2. \A v \in Writers : v \in Counter!Threads /\ rw_pc[v] # "inside"
  BY <1>1 DEF CounterInv, CounterLocked, Counter!WellFormed, Counter!Threads
<1>3. CounterTypes' /\ CounterLocked'
  BY <1>1, <1>2 DEF CounterInv, CounterTypes, CounterLocked
<1>4. Past' = Past
  BY <1>1, <1>2 DEF CounterInv, CounterTypes, Past
<1> QED
  BY <1>1, <1>3, <1>4 DEF CounterInv, CounterCount

\* It stores the next one.
LEMMA CounterStore ==
    ASSUME Counter!WellFormed, CounterInv, NEW w \in Writers, Counter!Store(w)
    PROVE  CounterInv'
<1>1. /\ w \in Counter!Threads /\ rw_pc[w] = "inside" /\ rw_shared' = rw_old[w] + 1 /\ rw_old[w] = rw_shared /\ rw_shared \in Nat
      /\ rw_pc' = [rw_pc EXCEPT ![w] = "print"] /\ UNCHANGED <<rw_writer, rw_old>>
  BY DEF Counter!Store, Counter!Threads, Counter!Goto, CounterInv, CounterTypes, CounterLocked
<1>2. \A v \in Writers : v \in Counter!Threads /\ (v # w => rw_pc[v] # "inside")
  BY <1>1 DEF CounterInv, CounterLocked, Counter!Threads
<1>3. CounterTypes' /\ CounterLocked'
  BY <1>1, <1>2 DEF CounterInv, CounterTypes, CounterLocked
<1>4. Past' = Past \ {w} /\ w \in Past
  BY <1>1, <1>2 DEF CounterInv, CounterTypes, Past
<1>5. Cardinality(Past') = Cardinality(Past) - 1
  BY <1>4, CounterFinite, FS_RemoveElement
<1>6. Cardinality(Past) \in Nat /\ Cardinality(Writers) \in Nat /\ CountLimit \in Nat
  BY CounterFinite
<1>7. CounterCount'
  BY <1>1, <1>5, <1>6 DEF CounterInv, CounterCount
<1> QED
  BY <1>3, <1>7 DEF CounterInv

\* Every step keeps the invariant.
LEMMA CounterStep == ASSUME Counter!WellFormed, CounterInv, [Counter!Next]_(Counter!vars) PROVE CounterInv'
<1>1. CASE Counter!Main \/ UNCHANGED Counter!vars
  <2>1. UNCHANGED <<rw_pc, rw_writer, rw_shared, rw_old>>
    BY <1>1 DEF Counter!Main, Counter!Reached, Counter!Cancel, Counter!Destroy, Counter!vars
  <2> QED
    BY <2>1 DEF CounterInv, CounterTypes, CounterLocked, CounterCount, Past
<1>2. ASSUME NEW t \in Counter!Threads, Counter!Work(t) PROVE CounterInv'
  <2>0. t \in Writers => t \notin Readers
    BY DEF Counter!WellFormed
  <2>1. CASE Counter!RdLock(t)
    <3>1. rw_pc' = [rw_pc EXCEPT ![t] = "inside"] /\ t \notin Writers /\ UNCHANGED <<rw_writer, rw_shared, rw_old>>
      BY <2>0, <2>1 DEF Counter!RdLock, Counter!Goto
    <3> QED
      BY <3>1, CounterQuiet
  <2>2. CASE Counter!Unlock(t)
    <3>1. /\ rw_pc' = [rw_pc EXCEPT ![t] = "sleep"] /\ (t \in Writers => rw_pc[t] = "print")
          /\ UNCHANGED <<rw_shared, rw_old>> /\ (rw_writer' = rw_writer \/ rw_writer = t)
      BY <2>2 DEF Counter!Unlock, Counter!Goto, Counter!Printing
    <3> QED
      BY <3>1, CounterQuiet
  <2>3. CASE Counter!Awake(t)
    <3>1. rw_pc' = [rw_pc EXCEPT ![t] = "top"] /\ rw_pc[t] = "sleep" /\ UNCHANGED <<rw_writer, rw_shared, rw_old>>
      BY <2>3 DEF Counter!Awake, Counter!Goto
    <3> QED
      BY <3>1, CounterQuiet
  <2>4. CASE Counter!Die(t)
    <3>1. /\ rw_pc' = [rw_pc EXCEPT ![t] = "ended"] /\ (t \in Writers => rw_pc[t] \in {"sleep", "print"})
          /\ UNCHANGED <<rw_writer, rw_shared, rw_old>>
      BY <2>4 DEF Counter!Die, Counter!Goto, Counter!Printing
    <3> QED
      BY <3>1, CounterQuiet
  <2>5. CASE Counter!Test(t) \/ Counter!WrLock(t) \/ Counter!Store(t)
    BY <2>5, CounterTest, CounterWrLock, CounterStore DEF Counter!Test, Counter!WrLock, Counter!Store
  <2> QED
    BY <1>2, <2>1, <2>2, <2>3, <2>4, <2>5 DEF Counter!Work
<1> QED
  BY <1>1, <1>2 DEF Counter!Next

\* In the beginning nobody is past the test.
LEMMA CounterStart == ASSUME Counter!WellFormed, Counter!Init PROVE CounterInv
<1>1. CounterTypes /\ CounterLocked
  BY DEF Counter!Init, CounterTypes, CounterLocked, Counter!Threads
<1>2. Past = {}
  BY DEF Counter!Init, Past, Counter!Threads
<1>3. CounterCount
  BY <1>2, CounterFinite, FS_EmptySet DEF Counter!Init, CounterCount
<1> QED
  BY <1>1, <1>3 DEF CounterInv

\* No count is lost, and the limit is passed by one for each writer but one.
LEMMA CounterMeans == ASSUME Counter!WellFormed, CounterInv PROVE Counter!NothingLost /\ Counter!Overshoot
<1>1. Counter!NothingLost
  BY DEF CounterInv, CounterLocked, Counter!NothingLost
<1> DEFINE L == {w \in Writers : rw_pc[w] = "lock"}
<1>2. IsFiniteSet(Past) /\ L \subseteq Past
  BY CounterFinite DEF Past
<1>3. Cardinality(L) \in Nat /\ Cardinality(L) <= Cardinality(Past)
  BY <1>2, FS_Subset, FS_CardinalityType
<1>4. Cardinality(Past) \in Nat /\ Cardinality(Writers) \in Nat /\ CountLimit \in Nat /\ rw_shared \in Nat
  BY CounterFinite DEF CounterInv, CounterTypes
<1>5. Counter!Cardinality(Writers) = Cardinality(Writers) /\ Counter!Cardinality(L) = Cardinality(L)
  BY CounterNotions
<1>6. Counter!Overshoot
  BY <1>3, <1>4, <1>5 DEF CounterInv, CounterCount, Counter!Overshoot
<1> QED
  BY <1>1, <1>6

----------------------------------------------------------------------------
(* ipc_mq.c.                                                               *)

\* An id is of a queue there is or was, and one that is gone does not come back.
OnceTypes ==
    /\ mo_key \in Nat /\ mo_made \in Nat /\ mo_key <= mo_made
    /\ mo_msgs \in Seq(Instances)
    /\ mo_pc \in [Instances -> {"get", "input", "send", "receive", "remove", "done", "failed", "no_input"}]
    /\ mo_qid \in [Instances -> Nat]
    /\ mo_got \in [Instances -> Instances \cup {Once!NoLine}]
OnceIds == \A p \in Instances :
    /\ mo_qid[p] <= mo_made
    /\ mo_pc[p] # "get" => mo_qid[p] # Once!NoQueue
    /\ mo_pc[p] \in {"done", "failed"} => mo_qid[p] # mo_key

\* A line is of somebody who has sent one, and in one place.
Sent == {p \in Instances : mo_pc[p] \notin {"get", "input", "send"}}
OnceLines ==
    /\ \A i \in DOMAIN mo_msgs : mo_msgs[i] \in Sent
    /\ \A i, j \in DOMAIN mo_msgs : mo_msgs[i] = mo_msgs[j] => i = j
    /\ \A p \in Instances : mo_got[p] # Once!NoLine => mo_got[p] \in Sent /\ \A i \in DOMAIN mo_msgs : mo_msgs[i] # mo_got[p]
    /\ \A p, q \in Instances : mo_got[p] = mo_got[q] /\ mo_got[p] # Once!NoLine => p = q

\* There are as many lines as instances that wait for one.
Waiting == {p \in Instances : mo_pc[p] = "receive" /\ mo_qid[p] = mo_key}
OnceCount == mo_key # Once!NoQueue => Len(mo_msgs) = Cardinality(Waiting)

OnceInv == OnceTypes /\ OnceIds /\ OnceLines /\ OnceCount

\* There are so many instances.
LEMMA OnceFinite == ASSUME Once!WellFormed PROVE IsFiniteSet(Instances)
BY DEF Once!WellFormed, Once!IsFiniteSet, IsFiniteSet

\* The lines are a sequence.
LEMMA OnceSeq ==
    ASSUME OnceInv
    PROVE  Len(mo_msgs) \in Nat /\ DOMAIN mo_msgs = 1..Len(mo_msgs)
BY LenProperties DEF OnceInv, OnceTypes

\* A step that leaves the queue and the lines.
LEMMA OnceQuiet ==
    ASSUME Once!WellFormed, OnceInv, NEW p \in Instances, NEW l \in {"send", "no_input", "failed"},
           mo_pc' = [mo_pc EXCEPT ![p] = l], UNCHANGED <<mo_key, mo_made, mo_msgs, mo_qid, mo_got>>,
           mo_pc[p] \in {"input", "send", "receive", "remove"},
           l = "failed" => mo_key # mo_qid[p], l # "failed" => mo_pc[p] = "input"
    PROVE  OnceInv'
<1>1. OnceTypes' /\ OnceIds'
  BY DEF OnceInv, OnceTypes, OnceIds
<1>2. Sent \subseteq Sent'
  BY DEF OnceInv, OnceTypes, Sent
<1>3. OnceLines'
  BY <1>2 DEF OnceInv, OnceLines
<1>4. Waiting' = Waiting
  BY DEF OnceInv, OnceTypes, Waiting
<1>5. OnceCount'
  BY <1>4 DEF OnceInv, OnceCount
<1> QED
  BY <1>1, <1>3, <1>5 DEF OnceInv

\* msgget finds the queue, or makes one that nobody had before.
LEMMA OnceGet == ASSUME Once!WellFormed, OnceInv, NEW p \in Instances, Once!MsgGet(p) PROVE OnceInv'
<1>1. /\ mo_pc[p] = "get" /\ mo_pc' = [mo_pc EXCEPT ![p] = "input"] /\ mo_qid' = [mo_qid EXCEPT ![p] = mo_key'] /\ mo_got' = mo_got
      /\ mo_key' \in Nat /\ mo_made' \in Nat /\ mo_key' <= mo_made' /\ mo_made <= mo_made' /\ mo_key' # Once!NoQueue
      /\ \/ mo_key' = mo_key /\ mo_msgs' = mo_msgs
         \/ mo_key' > mo_made /\ mo_msgs' = <<>>
  BY DEF Once!MsgGet, Once!Goto, OnceInv, OnceTypes, Once!NoQueue
<1>2. OnceTypes'
  BY <1>1, EmptySeq DEF OnceInv, OnceTypes
<1>3. OnceIds'
  BY <1>1 DEF OnceInv, OnceTypes, OnceIds
<1>4. Sent' = Sent
  BY <1>1 DEF OnceInv, OnceTypes, Sent
<1>5. OnceLines'
  <2>1. CASE mo_msgs' = mo_msgs
    BY <1>1, <1>4, <2>1 DEF OnceInv, OnceLines
  <2>2. CASE mo_msgs' = <<>>
    <3>1. DOMAIN mo_msgs' = {}
      BY <2>2
    <3> QED
      BY <1>1, <1>4, <3>1 DEF OnceInv, OnceLines
  <2> QED
    BY <1>1, <2>1, <2>2
<1>6. OnceCount'
  <2>1. CASE mo_key' = mo_key /\ mo_msgs' = mo_msgs
    <3>1. Waiting' = Waiting
      BY <1>1, <2>1 DEF OnceInv, OnceTypes, Waiting
    <3> QED
      BY <1>1, <2>1, <3>1 DEF OnceInv, OnceCount
  <2>2. CASE mo_key' > mo_made /\ mo_msgs' = <<>>
    <3>1. Waiting' = {}
      BY <1>1, <2>2 DEF OnceInv, OnceTypes, OnceIds, Waiting
    <3> QED
      BY <2>2, <3>1, EmptySeq, FS_EmptySet DEF OnceCount
  <2> QED
    BY <1>1, <2>1, <2>2
<1> QED
  BY <1>2, <1>3, <1>5, <1>6 DEF OnceInv

\* One more line, and one more that waits.
LEMMA OnceSnd ==
    ASSUME Once!WellFormed, OnceInv, NEW p \in Instances, Once!MsgSnd(p), Once!There(p)
    PROVE  OnceInv'
<1>1. /\ mo_pc[p] = "send" /\ mo_pc' = [mo_pc EXCEPT ![p] = "receive"] /\ mo_msgs' = Append(mo_msgs, p)
      /\ UNCHANGED <<mo_key, mo_made, mo_qid, mo_got>> /\ mo_qid[p] = mo_key
  BY DEF Once!MsgSnd, Once!Goto, Once!There
<1>2. /\ Len(mo_msgs) \in Nat /\ DOMAIN mo_msgs = 1..Len(mo_msgs)
      /\ mo_msgs' \in Seq(Instances) /\ Len(mo_msgs') = Len(mo_msgs) + 1 /\ DOMAIN mo_msgs' = DOMAIN mo_msgs \cup {Len(mo_msgs) + 1}
      /\ Len(mo_msgs) + 1 \notin DOMAIN mo_msgs
      /\ \A i \in DOMAIN mo_msgs : mo_msgs'[i] = mo_msgs[i]
      /\ mo_msgs'[Len(mo_msgs) + 1] = p
  <2>1. Len(mo_msgs) \in Nat /\ DOMAIN mo_msgs = 1..Len(mo_msgs) /\ mo_msgs \in Seq(Instances)
    BY OnceSeq DEF OnceInv, OnceTypes
  <2> QED
    BY <1>1, <2>1, LenProperties, AppendProperties
<1>3. OnceTypes'
  BY <1>1, <1>2 DEF OnceInv, OnceTypes
<1>4. OnceIds'
  BY <1>1 DEF OnceInv, OnceTypes, OnceIds
<1>5. Sent' = Sent \cup {p} /\ p \notin Sent
  BY <1>1 DEF OnceInv, OnceTypes, Sent
<1>6. OnceLines'
  BY <1>1, <1>2, <1>5 DEF OnceInv, OnceLines
<1>7. Waiting' = Waiting \cup {p} /\ p \notin Waiting
  BY <1>1 DEF OnceInv, OnceTypes, Waiting
<1>8. IsFiniteSet(Waiting)
  BY OnceFinite, FS_Subset DEF Waiting
<1>9. OnceCount'
  <2>1. Cardinality(Waiting') = Cardinality(Waiting) + 1
    BY <1>7, <1>8, FS_AddElement
  <2> QED
    BY <1>1, <1>2, <2>1 DEF OnceInv, OnceCount
<1> QED
  BY <1>3, <1>4, <1>6, <1>9 DEF OnceInv

\* One line less, and one less that waits.
LEMMA OnceRcv ==
    ASSUME Once!WellFormed, OnceInv, NEW p \in Instances, Once!MsgRcv(p), Once!There(p)
    PROVE  OnceInv'
<1>1. /\ mo_pc[p] = "receive" /\ mo_pc' = [mo_pc EXCEPT ![p] = "remove"] /\ mo_msgs' = Tail(mo_msgs) /\ mo_msgs # <<>>
      /\ mo_got' = [mo_got EXCEPT ![p] = Head(mo_msgs)]
      /\ UNCHANGED <<mo_key, mo_made, mo_qid>> /\ mo_qid[p] = mo_key
  BY DEF Once!MsgRcv, Once!Goto, Once!There, Once!Rest
<1>2. /\ Len(mo_msgs) \in Nat \ {0} /\ DOMAIN mo_msgs = 1..Len(mo_msgs) /\ Head(mo_msgs) = mo_msgs[1] /\ Head(mo_msgs) \in Instances
      /\ mo_msgs' \in Seq(Instances) /\ Len(mo_msgs') = Len(mo_msgs) - 1 /\ DOMAIN mo_msgs' = 1..(Len(mo_msgs) - 1)
      /\ \A i \in 1..(Len(mo_msgs) - 1) : mo_msgs'[i] = mo_msgs[i + 1]
  BY <1>1, EmptySeq, LenProperties, HeadTailProperties DEF OnceInv, OnceTypes
<1>3. OnceTypes'
  BY <1>1, <1>2 DEF OnceInv, OnceTypes
<1>4. OnceIds'
  BY <1>1 DEF OnceInv, OnceTypes, OnceIds
<1>5. Sent' = Sent
  BY <1>1 DEF OnceInv, OnceTypes, Sent
<1>6. /\ \A i \in DOMAIN mo_msgs' : i + 1 \in DOMAIN mo_msgs /\ i + 1 # 1 /\ mo_msgs'[i] = mo_msgs[i + 1]
      /\ \A i, j \in DOMAIN mo_msgs' : i + 1 = j + 1 => i = j
      /\ 1 \in DOMAIN mo_msgs
  BY <1>2
<1>7. OnceLines'
  <2>1. /\ \A i \in DOMAIN mo_msgs' : mo_msgs'[i] \in Sent /\ mo_msgs'[i] # Head(mo_msgs)
        /\ \A i, j \in DOMAIN mo_msgs' : mo_msgs'[i] = mo_msgs'[j] => i = j
        /\ Head(mo_msgs) \in Sent
    BY <1>2, <1>6 DEF OnceInv, OnceLines
  <2>2. \A q \in Instances : mo_got[q] # Once!NoLine => /\ mo_got[q] \in Sent /\ mo_got[q] # Head(mo_msgs)
                                            /\ \A i \in DOMAIN mo_msgs' : mo_msgs'[i] # mo_got[q]
    BY <1>2, <1>6 DEF OnceInv, OnceLines
  <2>3. \A q \in Instances : mo_got'[q] = IF q = p THEN Head(mo_msgs) ELSE mo_got[q]
    BY <1>1 DEF OnceInv, OnceTypes
  <2>4. \A q, r \in Instances : mo_got[q] = mo_got[r] /\ mo_got[q] # Once!NoLine => q = r
    BY DEF OnceInv, OnceLines
  <2> QED
    BY <1>5, <2>1, <2>2, <2>3, <2>4 DEF OnceLines
<1>8. Waiting' = Waiting \ {p} /\ p \in Waiting
  BY <1>1 DEF OnceInv, OnceTypes, Waiting
<1>9. IsFiniteSet(Waiting)
  BY OnceFinite, FS_Subset DEF Waiting
<1>10. OnceCount'
  BY <1>1, <1>2, <1>8, <1>9, FS_RemoveElement DEF OnceInv, OnceCount
<1> QED
  BY <1>3, <1>4, <1>7, <1>10 DEF OnceInv

\* The queue is removed, with the lines in it.
LEMMA OnceCtl ==
    ASSUME Once!WellFormed, OnceInv, NEW p \in Instances, Once!MsgCtl(p), Once!There(p)
    PROVE  OnceInv'
<1>1. /\ mo_pc[p] = "remove" /\ mo_pc' = [mo_pc EXCEPT ![p] = "done"] /\ mo_msgs' = <<>> /\ mo_key' = Once!NoQueue
      /\ UNCHANGED <<mo_made, mo_qid, mo_got>>
  BY DEF Once!MsgCtl, Once!Goto, Once!There
<1>2. OnceTypes'
  BY <1>1, EmptySeq DEF OnceInv, OnceTypes, Once!NoQueue
<1>3. OnceIds' /\ OnceCount'
  BY <1>1 DEF OnceInv, OnceTypes, OnceIds, OnceCount
<1>4. Sent' = Sent /\ DOMAIN mo_msgs' = {}
  BY <1>1 DEF OnceInv, OnceTypes, Sent
<1>5. OnceLines'
  BY <1>1, <1>4 DEF OnceInv, OnceLines
<1> QED
  BY <1>2, <1>3, <1>5 DEF OnceInv

\* Every step keeps the invariant.
LEMMA OnceStep == ASSUME Once!WellFormed, OnceInv, [Once!Next]_(Once!vars) PROVE OnceInv'
<1>1. CASE UNCHANGED Once!vars
  BY <1>1 DEF Once!vars, OnceInv, OnceTypes, OnceIds, OnceLines, Sent, OnceCount, Waiting
<1>2. ASSUME NEW p \in Instances, Once!Run(p) \/ Once!Input(p) PROVE OnceInv'
  <2>1. CASE Once!Input(p)
    <3>1. PICK l \in {"send", "no_input"} : mo_pc' = [mo_pc EXCEPT ![p] = l]
      BY <2>1 DEF Once!Input, Once!Goto
    <3> QED
      BY <2>1, <3>1, OnceQuiet DEF Once!Input
  <2>2. CASE (Once!MsgSnd(p) \/ Once!MsgRcv(p) \/ Once!MsgCtl(p)) /\ ~Once!There(p)
    <3>1. /\ mo_pc' = [mo_pc EXCEPT ![p] = "failed"] /\ UNCHANGED <<mo_key, mo_made, mo_msgs, mo_qid, mo_got>>
          /\ mo_pc[p] \in {"send", "receive", "remove"} /\ mo_key # mo_qid[p]
      BY <2>2 DEF Once!MsgSnd, Once!MsgRcv, Once!MsgCtl, Once!There, Once!Goto
    <3> QED
      BY <3>1, OnceQuiet
  <2> QED
    BY <1>2, <2>1, <2>2, OnceGet, OnceSnd, OnceRcv, OnceCtl DEF Once!Run
<1> QED
  BY <1>1, <1>2 DEF Once!Next

\* In the beginning there is no queue.
LEMMA OnceStart == ASSUME Once!WellFormed, Once!Init PROVE OnceInv
<1>1. DOMAIN mo_msgs = {}
  BY DEF Once!Init
<1> QED
  BY <1>1, EmptySeq DEF Once!Init, OnceInv, OnceTypes, OnceIds, OnceLines, OnceCount, Once!NoQueue

\* A line is read once, there is one for everybody, and who leaves a queue had no input.
LEMMA OnceMeans == ASSUME Once!WellFormed, OnceInv PROVE Once!ReadOnce /\ Once!OneForEach /\ Once!LeftByNoInput
<1>1. Once!ReadOnce
  BY DEF OnceInv, OnceLines, Once!ReadOnce
<1>2. Once!OneForEach
  <2> SUFFICES ASSUME NEW p \in Instances, mo_pc[p] = "receive", Once!There(p) PROVE mo_msgs # <<>>
    BY DEF Once!OneForEach
  <2>1. p \in Waiting /\ IsFiniteSet(Waiting) /\ mo_key # Once!NoQueue
    BY OnceFinite, FS_Subset DEF Waiting, Once!There, OnceInv, OnceIds
  <2>2. Cardinality(Waiting) # 0
    BY <2>1, FS_EmptySet
  <2> QED
    BY <2>1, <2>2, EmptySeq DEF OnceInv, OnceCount
<1>3. Once!LeftByNoInput
  BY DEF OnceInv, OnceIds, Once!LeftByNoInput, Once!Ended, Once!There
<1> QED
  BY <1>1, <1>2, <1>3

----------------------------------------------------------------------------
(* 01_msg.cpp.                                                             *)

Asleep == {"sleep", "blocked"}
PairTypes ==
    /\ mp_next_id \in Nat
    /\ mp_key = Pair!NoQueue \/ (mp_key = mp_next_id - 1 /\ mp_key \in Nat)
    /\ mp_pc \in [Pair!Procs -> {"get", "test", "send", "receive", "rmid", "done", "failed"} \cup Asleep]
    /\ mp_qid \in [Pair!Procs -> Int]
    /\ \A p \in Pair!Procs : IF mp_pc[p] = "get" THEN mp_qid[p] = Pair!NoQueue ELSE 0 <= mp_qid[p] /\ mp_qid[p] < mp_next_id
    /\ mp__running \in [Pair!Procs -> BOOLEAN] /\ mp_pending \subseteq Pair!Procs

\* If one was told to stop, the other was too, or it had ended.
Told(p) == p \in mp_pending \/ ~mp__running[p] \/ Pair!Ended(p)
PairTold == \A p, q \in Pair!Procs : p \in mp_pending \/ ~mp__running[p] => Told(q)

\* Who removes a queue was told to stop, and it is no longer the queue of the key.
PairStopped == \A p \in Pair!Procs :
    /\ mp_pc[p] \in {"rmid", "done"} => ~mp__running[p]
    /\ mp_pc[p] = "done" \/ (p = "parent" /\ mp_pc[p] = "failed") => mp_qid[p] # mp_key

\* The queue there is belongs to one of the two; one that is gone was removed.
PairOwned ==
    /\ mp_key # Pair!NoQueue => \E p \in Pair!Procs : mp_qid[p] = mp_key
    /\ \A p \in Pair!Procs : mp_qid[p] # Pair!NoQueue /\ mp_qid[p] # mp_key => \E q \in Pair!Procs : mp_pc[q] = "done"

\* Who made a queue after the other one had removed his sends and waits no more.
PairNewer == \A p, q \in Pair!Procs :
    mp_qid[p] > mp_qid[q] /\ mp_qid[q] # Pair!NoQueue => mp_pc[q] = "done" /\ mp_pc[p] \in {"test", "rmid", "done"}

\* Nobody has the queue 0, which would stay.
PairKept == (\A p \in Pair!Procs : mp_qid[p] # 0) /\ PairStopped /\ PairOwned /\ PairNewer

PairInv == PairTypes /\ PairTold /\ (mp_key = 0 \/ PairKept)

\* Steps that leave ids and queue alone.
LEMMA PairQuiet ==
    ASSUME Pair!WellFormed, PairInv, NEW p \in Pair!Procs, NEW l \in {"test", "send", "receive", "rmid", "failed"} \cup Asleep,
           mp_pc' = [mp_pc EXCEPT ![p] = l], UNCHANGED <<mp_key, mp_next_id, mp_qid, mp__running, mp_pending>>,
           mp_pc[p] \in {"test", "send", "receive"} \cup Asleep, p \notin mp_pending,
           mp_pc[p] = "test" => l = IF ~mp__running[p] THEN "rmid" ELSE IF p = "child" THEN "send" ELSE "receive",
           mp_pc[p] # "test" => l # "rmid",
           l = "failed" /\ p = "parent" => mp_key # mp_qid[p]
    PROVE  PairInv'
<1>1. /\ mp_pc'[p] = l /\ \A q \in Pair!Procs : q # p => mp_pc'[q] = mp_pc[q]
      /\ \A q \in Pair!Procs : (mp_pc'[q] = "get" <=> mp_pc[q] = "get") /\ (mp_pc'[q] = "done" <=> mp_pc[q] = "done")
      /\ \A q \in Pair!Procs : Pair!Ended(q) => Pair!Ended(q)'
  BY DEF PairInv, PairTypes, Pair!Procs, Pair!Ended, Asleep
<1>2. PairTypes'
  BY <1>1 DEF PairInv, PairTypes
<1>3. PairTold'
  BY <1>1 DEF PairInv, PairTold, Told
<1> SUFFICES ASSUME PairKept PROVE PairKept'
  BY <1>2, <1>3 DEF PairInv
<1>4. PairStopped'
  BY <1>1 DEF PairKept, PairStopped
<1>5. PairOwned'
  BY <1>1 DEF PairKept, PairOwned
<1>6. PairNewer'
  <2>1. ASSUME NEW q \in Pair!Procs, mp_pc[q] = "done" PROVE mp_pc[p] = "test" => l = "rmid"
    BY <2>1 DEF PairInv, PairKept, PairStopped, PairTold, Told, Pair!Ended
  <2> QED
    BY <1>1, <2>1 DEF PairKept, PairNewer, Asleep
<1> QED
  BY <1>4, <1>5, <1>6 DEF PairKept

\* Ctrl-C is sent to both.
LEMMA PairSigInt == ASSUME Pair!WellFormed, PairInv, Pair!SigInt PROVE PairInv'
<1>1. /\ UNCHANGED <<mp_key, mp_next_id, mp_qid, mp_pc, mp__running>>
      /\ mp_pending' = {p \in Pair!Procs : ~Pair!Ended(p)}
  BY DEF Pair!SigInt, Pair!Queue
<1>2. PairTypes' /\ (PairKept => PairKept')
  BY <1>1 DEF PairInv, PairTypes, PairKept, PairStopped, PairOwned, PairNewer
<1>3. PairTold'
  BY <1>1 DEF PairTold, Told, Pair!Ended
<1> QED
  BY <1>1, <1>2, <1>3 DEF PairInv

\* One of them is told to stop.
LEMMA PairHandler == ASSUME Pair!WellFormed, PairInv, NEW p \in Pair!Procs, Pair!Handler(p) PROVE PairInv'
<1>1. /\ UNCHANGED <<mp_key, mp_next_id, mp_qid>> /\ p \in mp_pending /\ mp_pending' = mp_pending \ {p}
      /\ mp__running' = [mp__running EXCEPT ![p] = FALSE]
      /\ mp_pc' \in [Pair!Procs -> {"get", "test", "send", "receive", "rmid", "done", "failed"} \cup Asleep]
      /\ \A q \in Pair!Procs : mp_pc'[q] = mp_pc[q] \/ (mp_pc[q] \in Asleep /\ mp_pc'[q] = "test")
  BY DEF Pair!Handler, Pair!Queue, Pair!Goto, PairInv, PairTypes, Asleep
<1>2. \A q \in Pair!Procs : (mp_pc'[q] = "get" <=> mp_pc[q] = "get") /\ (mp_pc'[q] = "done" <=> mp_pc[q] = "done")
  BY <1>1 DEF Asleep
<1>3. PairTypes'
  BY <1>1, <1>2 DEF PairInv, PairTypes
<1>4. \A q \in Pair!Procs : mp__running'[q] = IF q = p THEN FALSE ELSE mp__running[q]
  BY <1>1 DEF PairInv, PairTypes
<1>5. PairTold'
  <2>1. \A q \in Pair!Procs : Pair!Ended(q) => Pair!Ended(q)'
    BY <1>1 DEF Pair!Ended, Asleep
  <2>2. \A q \in Pair!Procs : Told(q)
    BY <1>1 DEF PairInv, PairTold
  <2> QED
    BY <1>1, <1>4, <2>1, <2>2 DEF PairTold, Told
<1> SUFFICES ASSUME PairKept PROVE PairKept'
  BY <1>1, <1>3, <1>5 DEF PairInv
<1>6. PairStopped'
  BY <1>1, <1>2, <1>4 DEF PairKept, PairStopped, Asleep
<1>7. PairOwned'
  BY <1>1, <1>2 DEF PairKept, PairOwned
<1>8. PairNewer'
  BY <1>1, <1>2 DEF PairKept, PairNewer, Asleep
<1> QED
  BY <1>1, <1>6, <1>7, <1>8 DEF PairKept

\* msgget finds the queue, or makes the next one.
LEMMA PairGet ==
    ASSUME Pair!WellFormed, PairInv, NEW p \in Pair!Procs, p \notin mp_pending, Pair!MsgGet(p) PROVE PairInv'
<1>1. /\ mp_pc[p] = "get" /\ mp_pc' = [mp_pc EXCEPT ![p] = "test"] /\ mp_qid' = [mp_qid EXCEPT ![p] = mp_key']
      /\ UNCHANGED <<mp__running, mp_pending>>
      /\ mp_key' \in Nat /\ mp_next_id' = mp_key' + 1 /\ mp_next_id <= mp_key' + 1 /\ mp_next_id' \in Nat
      /\ mp_next_id \in Nat
      /\ mp_qid[p] = Pair!NoQueue
      /\ \/ mp_key = Pair!NoQueue /\ mp_key' = mp_next_id
         \/ mp_key # Pair!NoQueue /\ mp_key' = mp_key
  BY DEF Pair!MsgGet, Pair!Queue, Pair!Signals, Pair!Goto, PairInv, PairTypes, Pair!NoQueue
<1>2. /\ mp_pc'[p] = "test" /\ mp_qid'[p] = mp_key'
      /\ \A q \in Pair!Procs : q # p => mp_pc'[q] = mp_pc[q] /\ mp_qid'[q] = mp_qid[q]
      /\ \A q \in Pair!Procs : mp_qid[q] \in Int /\ mp_qid[q] < mp_next_id /\ (mp_qid[q] = Pair!NoQueue \/ mp_qid[q] >= 0)
  BY <1>1 DEF PairInv, PairTypes, Pair!NoQueue
<1>0. \A q \in Pair!Procs : mp_qid[q] <= mp_key' /\ (mp_qid[q] # mp_key => mp_qid[q] # mp_key')
  <2>1. \A i \in Int, j, k \in Nat : (i < j /\ j <= k + 1 => i <= k) /\ (i < j => i # j)
    OBVIOUS
  <2>2. \A q \in Pair!Procs : mp_qid[q] <= mp_key'
    BY <1>1, <1>2, <2>1
  <2>3. \A q \in Pair!Procs : mp_qid[q] # mp_next_id
    BY <1>1, <1>2, <2>1
  <2> QED
    BY <1>1, <2>2, <2>3
<1>3. PairTypes'
  <2>1. mp_pc' \in [Pair!Procs -> {"get", "test", "send", "receive", "rmid", "done", "failed"} \cup Asleep] /\ mp_qid' \in [Pair!Procs -> Int]
    BY <1>1 DEF PairInv, PairTypes
  <2>2. ASSUME NEW q \in Pair!Procs
        PROVE  IF mp_pc'[q] = "get" THEN mp_qid'[q] = Pair!NoQueue ELSE 0 <= mp_qid'[q] /\ mp_qid'[q] < mp_next_id'
    <3>1. CASE q = p
      BY <1>1, <1>2, <3>1
    <3>2. CASE q # p
      <4>1. IF mp_pc[q] = "get" THEN mp_qid[q] = Pair!NoQueue ELSE 0 <= mp_qid[q] /\ mp_qid[q] < mp_next_id
        BY DEF PairInv, PairTypes
      <4> QED
        BY <1>0, <1>1, <1>2, <3>2, <4>1
    <3> QED
      BY <3>1, <3>2
  <2>3. mp_key' = mp_next_id' - 1
    <3>1. \A k, m \in Nat : m = k + 1 => k = m - 1
      OBVIOUS
    <3> QED
      BY <1>1, <3>1
  <2> QED
    BY <1>1, <2>1, <2>2, <2>3 DEF PairInv, PairTypes
<1>4. PairTold'
  <2>1. \A q \in Pair!Procs : Pair!Ended(q) <=> Pair!Ended(q)'
    BY <1>1, <1>2 DEF Pair!Ended
  <2> QED
    BY <1>1, <2>1 DEF PairInv, PairTold, Told
<1> SUFFICES ASSUME mp_key' # 0 PROVE PairKept'
  BY <1>3, <1>4 DEF PairInv
<1>5. PairKept
  BY <1>1 DEF PairInv, Pair!NoQueue
<1>6. \A q \in Pair!Procs : q # p /\ mp_qid[q] # Pair!NoQueue /\ mp_qid[q] # mp_key => mp_pc[q] = "done"
  BY <1>1, <1>5 DEF PairKept, PairOwned, Pair!Procs
<1>7. \A q \in Pair!Procs : q # p /\ mp_qid[q] # Pair!NoQueue /\ mp_qid[q] # mp_key' => mp_pc[q] = "done"
  BY <1>1, <1>2, <1>6
<1>8. PairStopped'
  <2>1. \A q \in Pair!Procs : q # p /\ mp_qid[q] # mp_key => mp_qid[q] # mp_key'
    BY <1>0
  <2> QED
    BY <1>1, <1>2, <1>5, <2>1 DEF PairKept, PairStopped
<1>9. PairOwned'
  BY <1>1, <1>2, <1>7 DEF PairOwned
<1>10. PairNewer'
  <2>1. \A q \in Pair!Procs : mp_qid'[q] \in Int /\ mp_qid'[q] <= mp_key' /\ mp_qid'[p] # Pair!NoQueue
    <3>1. mp_qid'[p] # Pair!NoQueue
      BY <1>1, <1>2 DEF Pair!NoQueue
    <3>2. \A q \in Pair!Procs : q # p => mp_qid'[q] \in Int /\ mp_qid'[q] <= mp_key'
      BY <1>0, <1>2
    <3> QED
      BY <1>1, <1>2, <3>1, <3>2
  <2>2. \A q, r \in Pair!Procs : q # p => r = p \/ r = q
    BY DEF Pair!Procs
  <2> SUFFICES ASSUME NEW q \in Pair!Procs, NEW r \in Pair!Procs, mp_qid'[q] > mp_qid'[r], mp_qid'[r] # Pair!NoQueue
               PROVE  mp_pc'[r] = "done" /\ mp_pc'[q] \in {"test", "rmid", "done"}
    BY DEF PairNewer
  <2>3. q = p /\ r # p
    BY <1>2, <2>1, <2>2
  <2> QED
    BY <1>2, <1>7, <2>1, <2>3
<1>11. \A q \in Pair!Procs : mp_qid'[q] # 0
  BY <1>2, <1>5 DEF PairKept
<1> QED
  BY <1>8, <1>9, <1>10, <1>11 DEF PairKept

\* The queue is removed, or the id was gone, or it is 0.
LEMMA PairRmid == ASSUME Pair!WellFormed, PairInv, NEW p \in Pair!Procs, Pair!Rmid(p) PROVE PairInv'
<1>1. /\ mp_pc[p] = "rmid" /\ mp_pc' = [mp_pc EXCEPT ![p] = "done"]
      /\ UNCHANGED <<mp_next_id, mp_qid, mp__running, mp_pending>>
      /\ mp_qid[p] >= 0 /\ mp_qid[p] \in Int
  BY DEF Pair!Rmid, Pair!Goto, Pair!Signals, PairInv, PairTypes
<1>2. IF mp_key = mp_qid[p] /\ mp_qid[p] # 0 THEN mp_key' = Pair!NoQueue ELSE mp_key' = mp_key
  <2>1. Pair!Valid(p) <=> mp_qid[p] # 0
    BY <1>1 DEF Pair!Valid
  <2> QED
    BY <2>1 DEF Pair!Rmid, Pair!There
<1>3. /\ mp_pc'[p] = "done" /\ \A q \in Pair!Procs : q # p => mp_pc'[q] = mp_pc[q]
      /\ \A q \in Pair!Procs : (mp_pc'[q] = "get" <=> mp_pc[q] = "get")
  BY <1>1 DEF PairInv, PairTypes
<1>4. PairTypes'
  BY <1>1, <1>2, <1>3 DEF PairInv, PairTypes
<1>5. PairTold'
  <2>1. \A q \in Pair!Procs : Pair!Ended(q) => Pair!Ended(q)'
    BY <1>3 DEF Pair!Ended
  <2> QED
    BY <1>1, <2>1 DEF PairInv, PairTold, Told
<1> SUFFICES ASSUME PairKept PROVE PairKept'
  <2>1. mp_key = 0 => mp_key' = 0
    BY <1>2
  <2> QED
    BY <1>4, <1>5, <2>1 DEF PairInv
<1>6. mp_qid[p] # mp_key' /\ \A q \in Pair!Procs : mp_qid[q] # mp_key /\ mp_pc[q] # "get" => mp_qid[q] # mp_key'
  BY <1>1, <1>2 DEF PairKept, Pair!NoQueue, PairInv, PairTypes
<1>7. PairStopped'
  BY <1>1, <1>3, <1>6 DEF PairKept, PairStopped
<1>8. PairOwned'
  BY <1>1, <1>2, <1>3 DEF PairKept, PairOwned
<1>9. PairNewer'
  BY <1>1, <1>3 DEF PairKept, PairNewer
<1> QED
  BY <1>1, <1>7, <1>8, <1>9 DEF PairKept

\* Every step keeps the invariant.
LEMMA PairStep == ASSUME Pair!WellFormed, PairInv, [Pair!Next]_(Pair!vars) PROVE PairInv'
<1>1. CASE UNCHANGED Pair!vars
  BY <1>1 DEF Pair!vars, PairInv, PairTypes, PairTold, Told, Pair!Ended, PairKept, PairStopped, PairOwned, PairNewer
<1>2. ASSUME NEW p \in Pair!Procs, p \notin mp_pending, Pair!Test(p) PROVE PairInv'
  <2> DEFINE l == IF ~mp__running[p] THEN "rmid" ELSE IF p = "child" THEN "send" ELSE "receive"
  <2>1. /\ mp_pc[p] = "test" /\ mp_pc' = [mp_pc EXCEPT ![p] = l]
        /\ UNCHANGED <<mp_key, mp_next_id, mp_qid, mp__running, mp_pending>>
        /\ l \in {"test", "send", "receive", "rmid", "failed"} \cup Asleep /\ l # "failed"
    BY <1>2 DEF Pair!Test, Pair!Goto, Pair!Queue, Pair!Signals
  <2> QED
    BY <1>2, <2>1, PairQuiet
<1>3. CASE (Pair!MsgSnd \/ Pair!Wake) /\ "child" \notin mp_pending
  <2>1. PICK l \in {"test", "sleep", "failed"} : mp_pc' = [mp_pc EXCEPT !["child"] = l]
    BY <1>3 DEF Pair!MsgSnd, Pair!Wake, Pair!Goto
  <2>2. /\ UNCHANGED <<mp_key, mp_next_id, mp_qid, mp__running, mp_pending>>
        /\ mp_pc["child"] \in {"send", "sleep"} /\ "child" \in Pair!Procs
    BY <1>3 DEF Pair!MsgSnd, Pair!Wake, Pair!Queue, Pair!Signals, Pair!Procs
  <2>3. l \in {"test", "send", "receive", "rmid", "failed"} \cup Asleep
    BY DEF Asleep
  <2>4. mp_pc["child"] \in {"test", "send", "receive"} \cup Asleep
    BY <2>2 DEF Asleep
  <2> QED
    BY <1>3, <2>1, <2>2, <2>3, <2>4, PairQuiet
<1>4. CASE Pair!MsgRcv /\ "parent" \notin mp_pending
  <2>1. PICK l \in {"test", "blocked", "failed"} :
             mp_pc' = [mp_pc EXCEPT !["parent"] = l] /\ (l = "failed" => mp_key # mp_qid["parent"])
    BY <1>4 DEF Pair!MsgRcv, Pair!There, Pair!Goto
  <2>2. /\ UNCHANGED <<mp_key, mp_next_id, mp_qid, mp__running, mp_pending>>
        /\ mp_pc["parent"] \in {"receive", "blocked"} /\ "parent" \in Pair!Procs
    BY <1>4 DEF Pair!MsgRcv, Pair!Signals, Pair!Procs
  <2>3. l \in {"test", "send", "receive", "rmid", "failed"} \cup Asleep
    BY DEF Asleep
  <2>4. mp_pc["parent"] \in {"test", "send", "receive"} \cup Asleep
    BY <2>2 DEF Asleep
  <2> QED
    BY <1>4, <2>1, <2>2, <2>3, <2>4, PairQuiet
<1> QED
  BY <1>1, <1>2, <1>3, <1>4, PairSigInt, PairHandler, PairGet, PairRmid DEF Pair!Next, Pair!Step

\* In the beginning there is no queue.
LEMMA PairStart == ASSUME Pair!WellFormed, Pair!Init PROVE PairInv
BY DEF Pair!Init, Pair!WellFormed, PairInv, PairTypes, PairTold, Told, PairKept, PairStopped, PairOwned, PairNewer,
       Pair!Procs, Pair!NoQueue

\* When both have ended there is none, or it is the queue 0.
LEMMA PairMeans == ASSUME Pair!WellFormed, PairInv PROVE Pair!QueueRemoved
<1> SUFFICES ASSUME \A p \in Pair!Procs : Pair!Ended(p), mp_key # Pair!NoQueue, PairKept PROVE FALSE
  BY DEF Pair!QueueRemoved, PairInv
<1>1. PICK p \in Pair!Procs : mp_qid[p] = mp_key
  BY DEF PairKept, PairOwned
<1>2. p = "child" /\ mp_pc[p] = "failed"
  BY <1>1 DEF PairKept, PairStopped, Pair!Ended, Pair!Procs
<1>3. "parent" \in Pair!Procs /\ mp_qid["parent"] # mp_key
  BY DEF PairKept, PairStopped, Pair!Ended, Pair!Procs
<1>4. /\ mp_qid["parent"] < mp_next_id /\ mp_qid["parent"] \in Int /\ mp_qid["parent"] # Pair!NoQueue
      /\ mp_key = mp_next_id - 1 /\ mp_next_id \in Nat
  BY <1>3 DEF PairInv, PairTypes, Pair!Ended, Pair!NoQueue
<1>5. mp_qid[p] > mp_qid["parent"]
  BY <1>1, <1>3, <1>4
<1> QED
  BY <1>2, <1>3, <1>4, <1>5 DEF PairKept, PairNewer

----------------------------------------------------------------------------
(* The four programs whose proofs are in modules of their own.             *)

Pipe1Proofs == INSTANCE PcPipe_proofs WITH
    Parent <- "main", Children <- <<"child">>, Producers <- {"main"},
    Rounds <- LineGoods, PipeSize <- LineSize, ForkMayFail <- FALSE,
    pipe <- p1_pipe, ends <- p1_ends, at <- p1_at, round <- p1_round,
    forked <- p1_forked, sold <- p1_sold

Pipe2Proofs == INSTANCE PcPipe_proofs WITH
    Parent <- "main", Children <- Forks, Producers <- Fillers,
    Rounds <- FillerGoods, PipeSize <- PipeRoom, ForkMayFail <- TRUE, pipe <- p2_pipe, ends <- p2_ends, at <- p2_at,
    round <- p2_round, forked <- p2_forked, sold <- p2_sold

StackProofs == INSTANCE PcSemaphores_proofs WITH
    N <- Pairs, Rounds <- PairGoods, Slots <- StackRoom, Joins <- TRUE, product <- st_product,
    warehouse <- st_warehouse, mutex <- st_mutex, buf <- st_buf,
    idx <- st_idx, arg <- st_arg, main <- st_main, at <- st_at,
    number <- st_number, round <- st_round, sold <- st_sold

CloneProofs == INSTANCE PcSemaphores_proofs WITH
    N <- Pairs, Rounds <- PairGoods, Slots <- 1, Joins <- FALSE, product <- cl_product,
    warehouse <- cl_warehouse, mutex <- cl_mutex, buf <- cl_buf,
    idx <- cl_idx, arg <- cl_arg, main <- cl_main, at <- cl_at,
    number <- cl_number, round <- cl_round, sold <- cl_sold

\* What is proved of the pipe is about producer_consumer_1.c.
LEMMA Pipe1Same ==
    /\ Pipe1!WellFormed <=> Pipe1Proofs!WellFormed
    /\ Pipe1!Init <=> Pipe1Proofs!Init
    /\ [Pipe1!Next]_(Pipe1!vars) <=> [Pipe1Proofs!Next]_(Pipe1Proofs!vars)
    /\ Pipe1!Store!Init <=> Pipe1Proofs!Store!Init
    /\ Pipe1!Store!Next <=> Pipe1Proofs!Store!Next
<1>1. Pipe1!WellFormed <=> Pipe1Proofs!WellFormed
  BY DEF Pipe1!WellFormed, Pipe1Proofs!WellFormed, Pipe1!Procs, Pipe1Proofs!Procs
<1>2. Pipe1!Init <=> Pipe1Proofs!Init
  BY DEF Pipe1!Init, Pipe1Proofs!Init, Pipe1!Procs, Pipe1Proofs!Procs
<1>3. [Pipe1!Next]_(Pipe1!vars) <=> [Pipe1Proofs!Next]_(Pipe1Proofs!vars)
  BY DEF
    Pipe1!vars, Pipe1Proofs!vars, Pipe1!Procs, Pipe1Proofs!Procs, Pipe1!Consumers,
    Pipe1Proofs!Consumers, Pipe1!Goods, Pipe1Proofs!Goods, Pipe1!Gone, Pipe1Proofs!Gone,
    Pipe1!Go, Pipe1Proofs!Go, Pipe1!Has, Pipe1Proofs!Has, Pipe1!Closed, Pipe1Proofs!Closed,
    Pipe1!Fork, Pipe1Proofs!Fork, Pipe1!Unused, Pipe1Proofs!Unused, Pipe1!ParentCloses,
    Pipe1Proofs!ParentCloses, Pipe1!ParentWaits, Pipe1Proofs!ParentWaits, Pipe1!ForeignEnd,
    Pipe1Proofs!ForeignEnd, Pipe1!ChildCloses, Pipe1Proofs!ChildCloses, Pipe1!NextRound,
    Pipe1Proofs!NextRound, Pipe1!Write, Pipe1Proofs!Write, Pipe1!WriteKilled,
    Pipe1Proofs!WriteKilled, Pipe1!LastClosed, Pipe1Proofs!LastClosed, Pipe1!ProducerEnds,
    Pipe1Proofs!ProducerEnds, Pipe1!Read, Pipe1Proofs!Read, Pipe1!AtEof, Pipe1Proofs!AtEof,
    Pipe1!ConsumerEnds, Pipe1Proofs!ConsumerEnds, Pipe1!Producer, Pipe1Proofs!Producer,
    Pipe1!Consumer, Pipe1Proofs!Consumer, Pipe1!Process, Pipe1Proofs!Process, Pipe1!ParentStep,
    Pipe1Proofs!ParentStep, Pipe1!Next, Pipe1Proofs!Next
<1>4. Pipe1!Store!Init <=> Pipe1Proofs!Store!Init
  BY DEF Pipe1!Store!Init, Pipe1Proofs!Store!Init
<1>5. \A S : Pipe1!Store!Cardinality(S) = Pipe1Proofs!Store!Cardinality(S)
  BY DEF Pipe1!Store!Cardinality, Pipe1Proofs!Store!Cardinality
<1>6. Pipe1!Store!Next <=> Pipe1Proofs!Store!Next
  BY <1>5 DEF
    Pipe1!Store!Next, Pipe1Proofs!Store!Next, Pipe1!Store!Put, Pipe1Proofs!Store!Put,
    Pipe1!Store!Get, Pipe1Proofs!Store!Get, Pipe1!Goods, Pipe1Proofs!Goods, Pipe1!Procs,
    Pipe1Proofs!Procs
<1> QED
  BY <1>1, <1>2, <1>3, <1>4, <1>6

\* What is proved of the pipe is about producer_consumer_2.c.
LEMMA Pipe2Same ==
    /\ Pipe2!WellFormed <=> Pipe2Proofs!WellFormed
    /\ Pipe2!Init <=> Pipe2Proofs!Init
    /\ [Pipe2!Next]_(Pipe2!vars) <=> [Pipe2Proofs!Next]_(Pipe2Proofs!vars)
    /\ Pipe2!Store!Init <=> Pipe2Proofs!Store!Init
    /\ Pipe2!Store!Next <=> Pipe2Proofs!Store!Next
<1>1. Pipe2!WellFormed <=> Pipe2Proofs!WellFormed
  BY DEF Pipe2!WellFormed, Pipe2Proofs!WellFormed, Pipe2!Procs, Pipe2Proofs!Procs
<1>2. Pipe2!Init <=> Pipe2Proofs!Init
  BY DEF Pipe2!Init, Pipe2Proofs!Init, Pipe2!Procs, Pipe2Proofs!Procs
<1>3. [Pipe2!Next]_(Pipe2!vars) <=> [Pipe2Proofs!Next]_(Pipe2Proofs!vars)
  BY DEF
    Pipe2!vars, Pipe2Proofs!vars, Pipe2!Procs, Pipe2Proofs!Procs, Pipe2!Consumers,
    Pipe2Proofs!Consumers, Pipe2!Goods, Pipe2Proofs!Goods, Pipe2!Gone, Pipe2Proofs!Gone,
    Pipe2!Go, Pipe2Proofs!Go, Pipe2!Has, Pipe2Proofs!Has, Pipe2!Closed, Pipe2Proofs!Closed,
    Pipe2!Fork, Pipe2Proofs!Fork, Pipe2!Unused, Pipe2Proofs!Unused, Pipe2!ParentCloses,
    Pipe2Proofs!ParentCloses, Pipe2!ParentWaits, Pipe2Proofs!ParentWaits, Pipe2!ForeignEnd,
    Pipe2Proofs!ForeignEnd, Pipe2!ChildCloses, Pipe2Proofs!ChildCloses, Pipe2!NextRound,
    Pipe2Proofs!NextRound, Pipe2!Write, Pipe2Proofs!Write, Pipe2!WriteKilled,
    Pipe2Proofs!WriteKilled, Pipe2!LastClosed, Pipe2Proofs!LastClosed, Pipe2!ProducerEnds,
    Pipe2Proofs!ProducerEnds, Pipe2!Read, Pipe2Proofs!Read, Pipe2!AtEof, Pipe2Proofs!AtEof,
    Pipe2!ConsumerEnds, Pipe2Proofs!ConsumerEnds, Pipe2!Producer, Pipe2Proofs!Producer,
    Pipe2!Consumer, Pipe2Proofs!Consumer, Pipe2!Process, Pipe2Proofs!Process, Pipe2!ParentStep,
    Pipe2Proofs!ParentStep, Pipe2!Next, Pipe2Proofs!Next
<1>4. Pipe2!Store!Init <=> Pipe2Proofs!Store!Init
  BY DEF Pipe2!Store!Init, Pipe2Proofs!Store!Init
<1>5. \A S : Pipe2!Store!Cardinality(S) = Pipe2Proofs!Store!Cardinality(S)
  BY DEF Pipe2!Store!Cardinality, Pipe2Proofs!Store!Cardinality
<1>6. Pipe2!Store!Next <=> Pipe2Proofs!Store!Next
  BY <1>5 DEF
    Pipe2!Store!Next, Pipe2Proofs!Store!Next, Pipe2!Store!Put, Pipe2Proofs!Store!Put,
    Pipe2!Store!Get, Pipe2Proofs!Store!Get, Pipe2!Goods, Pipe2Proofs!Goods, Pipe2!Procs,
    Pipe2Proofs!Procs
<1> QED
  BY <1>1, <1>2, <1>3, <1>4, <1>6

\* What is proved of the stack is about producer_consumer_4.c.
LEMMA StackSame ==
    /\ Stack!WellFormed <=> StackProofs!WellFormed
    /\ Stack!Init <=> StackProofs!Init
    /\ [Stack!Next]_(Stack!vars) <=> [StackProofs!Next]_(StackProofs!vars)
    /\ Stack!Store!Init <=> StackProofs!Store!Init
    /\ Stack!Store!Next <=> StackProofs!Store!Next
<1>1. Stack!WellFormed <=> StackProofs!WellFormed
  BY DEF Stack!WellFormed, StackProofs!WellFormed
<1>2. Stack!Init <=> StackProofs!Init
  BY DEF Stack!Init, StackProofs!Init, Stack!Threads, StackProofs!Threads, Stack!Makers,
StackProofs!Makers, Stack!Takers, StackProofs!Takers
<1>3. [Stack!Next]_(Stack!vars) <=> [StackProofs!Next]_(StackProofs!vars)
  BY DEF
    Stack!vars, StackProofs!vars, Stack!Makers, StackProofs!Makers, Stack!Takers,
    StackProofs!Takers, Stack!Threads, StackProofs!Threads, Stack!Goods, StackProofs!Goods,
    Stack!Shared, StackProofs!Shared, Stack!Go, StackProofs!Go, Stack!Create,
    StackProofs!Create, Stack!MainEnds, StackProofs!MainEnds, Stack!ReadNumber,
    StackProofs!ReadNumber, Stack!Free, StackProofs!Free, Stack!Lock, StackProofs!Lock,
    Stack!Unlock, StackProofs!Unlock, Stack!NextRound, StackProofs!NextRound, Stack!Room,
    StackProofs!Room, Stack!ProducerWait, StackProofs!ProducerWait, Stack!ProducerCopy,
    StackProofs!ProducerCopy, Stack!ProducerIndex, StackProofs!ProducerIndex,
    Stack!ProducerPost, StackProofs!ProducerPost, Stack!Producer, StackProofs!Producer,
    Stack!ConsumerWait, StackProofs!ConsumerWait, Stack!ConsumerIndex,
    StackProofs!ConsumerIndex, Stack!ConsumerRead, StackProofs!ConsumerRead,
    Stack!PostWarehouse, StackProofs!PostWarehouse, Stack!ConsumerPost,
    StackProofs!ConsumerPost, Stack!Consumer, StackProofs!Consumer, Stack!MainStep,
    StackProofs!MainStep, Stack!Next, StackProofs!Next
<1>4. Stack!Store!Init <=> StackProofs!Store!Init
  BY DEF Stack!Store!Init, StackProofs!Store!Init, Stack!OnStack, StackProofs!OnStack, Stack!InHand,
StackProofs!InHand, Stack!Takers, StackProofs!Takers
<1>5. \A S : Stack!Store!Cardinality(S) = StackProofs!Store!Cardinality(S)
  BY DEF Stack!Store!Cardinality, StackProofs!Store!Cardinality
<1>6. Stack!Store!Next <=> StackProofs!Store!Next
  BY <1>5 DEF
    Stack!Store!Next, StackProofs!Store!Next, Stack!Store!Put, StackProofs!Store!Put,
    Stack!Store!Get, StackProofs!Store!Get, Stack!OnStack, StackProofs!OnStack, Stack!InHand,
    StackProofs!InHand, Stack!Takers, StackProofs!Takers, Stack!Goods, StackProofs!Goods,
    Stack!Makers, StackProofs!Makers
<1> QED
  BY <1>1, <1>2, <1>3, <1>4, <1>6

\* What is proved of the stack is about producer_consumer_3.c.
LEMMA CloneSame ==
    /\ Clone!WellFormed <=> CloneProofs!WellFormed
    /\ Clone!Init <=> CloneProofs!Init
    /\ [Clone!Next]_(Clone!vars) <=> [CloneProofs!Next]_(CloneProofs!vars)
    /\ Clone!Store!Init <=> CloneProofs!Store!Init
    /\ Clone!Store!Next <=> CloneProofs!Store!Next
<1>1. Clone!WellFormed <=> CloneProofs!WellFormed
  BY DEF Clone!WellFormed, CloneProofs!WellFormed
<1>2. Clone!Init <=> CloneProofs!Init
  BY DEF Clone!Init, CloneProofs!Init, Clone!Threads, CloneProofs!Threads, Clone!Makers,
CloneProofs!Makers, Clone!Takers, CloneProofs!Takers
<1>3. [Clone!Next]_(Clone!vars) <=> [CloneProofs!Next]_(CloneProofs!vars)
  BY DEF
    Clone!vars, CloneProofs!vars, Clone!Makers, CloneProofs!Makers, Clone!Takers,
    CloneProofs!Takers, Clone!Threads, CloneProofs!Threads, Clone!Goods, CloneProofs!Goods,
    Clone!Shared, CloneProofs!Shared, Clone!Go, CloneProofs!Go, Clone!Create,
    CloneProofs!Create, Clone!MainEnds, CloneProofs!MainEnds, Clone!ReadNumber,
    CloneProofs!ReadNumber, Clone!Free, CloneProofs!Free, Clone!Lock, CloneProofs!Lock,
    Clone!Unlock, CloneProofs!Unlock, Clone!NextRound, CloneProofs!NextRound, Clone!Room,
    CloneProofs!Room, Clone!ProducerWait, CloneProofs!ProducerWait, Clone!ProducerCopy,
    CloneProofs!ProducerCopy, Clone!ProducerIndex, CloneProofs!ProducerIndex,
    Clone!ProducerPost, CloneProofs!ProducerPost, Clone!Producer, CloneProofs!Producer,
    Clone!ConsumerWait, CloneProofs!ConsumerWait, Clone!ConsumerIndex,
    CloneProofs!ConsumerIndex, Clone!ConsumerRead, CloneProofs!ConsumerRead,
    Clone!PostWarehouse, CloneProofs!PostWarehouse, Clone!ConsumerPost,
    CloneProofs!ConsumerPost, Clone!Consumer, CloneProofs!Consumer, Clone!MainStep,
    CloneProofs!MainStep, Clone!Next, CloneProofs!Next
<1>4. Clone!Store!Init <=> CloneProofs!Store!Init
  BY DEF Clone!Store!Init, CloneProofs!Store!Init, Clone!OnStack, CloneProofs!OnStack, Clone!InHand,
CloneProofs!InHand, Clone!Takers, CloneProofs!Takers
<1>5. \A S : Clone!Store!Cardinality(S) = CloneProofs!Store!Cardinality(S)
  BY DEF Clone!Store!Cardinality, CloneProofs!Store!Cardinality
<1>6. Clone!Store!Next <=> CloneProofs!Store!Next
  BY <1>5 DEF
    Clone!Store!Next, CloneProofs!Store!Next, Clone!Store!Put, CloneProofs!Store!Put,
    Clone!Store!Get, CloneProofs!Store!Get, Clone!OnStack, CloneProofs!OnStack, Clone!InHand,
    CloneProofs!InHand, Clone!Takers, CloneProofs!Takers, Clone!Goods, CloneProofs!Goods,
    Clone!Makers, CloneProofs!Makers
<1> QED
  BY <1>1, <1>2, <1>3, <1>4, <1>6

----------------------------------------------------------------------------
(* The suite: each program keeps its invariant, the others stay.           *)

SuiteInv ==
    /\ IInv
    /\ Pipe1Proofs!Inv /\ Pipe2Proofs!Inv /\ StackProofs!Inv /\ CloneProofs!Inv
    /\ QueueInv /\ CounterInv /\ OnceInv /\ PairInv

suiteVars ==
  <<program, vars, pipe1State, pipe2State, stackState, cloneState, queueState,
    counterState, pairState, onceState>>

\* A step of the suite is one of each program, or leaves it.
LEMMA SuiteSteps ==
    ASSUME [SuiteNext]_suiteVars
    PROVE  /\ [Next]_vars
           /\ [Pipe1!Next]_(Pipe1!vars) /\ [Pipe2!Next]_(Pipe2!vars)
           /\ [Stack!Next]_(Stack!vars) /\ [Clone!Next]_(Clone!vars)
           /\ [Queue!Next]_(Queue!vars) /\ [Counter!Next]_(Counter!vars)
           /\ [Once!Next]_(Once!vars) /\ [Pair!Next]_(Pair!vars)
<1> USE DEF suiteVars, SuiteNext
<1>1. [Next]_vars
  OBVIOUS
<1>2. [Pipe1!Next]_(Pipe1!vars) /\ [Pipe2!Next]_(Pipe2!vars)
  BY DEF pipe1State, pipe2State, Pipe1!vars, Pipe2!vars
<1>3. [Stack!Next]_(Stack!vars) /\ [Clone!Next]_(Clone!vars)
  BY DEF stackState, cloneState, Stack!vars, Clone!vars
<1>4. [Queue!Next]_(Queue!vars) /\ [Counter!Next]_(Counter!vars)
  BY DEF queueState, counterState, Queue!vars, Counter!vars
<1>5. [Once!Next]_(Once!vars) /\ [Pair!Next]_(Pair!vars)
  BY DEF onceState, pairState, Once!vars, Pair!vars
<1> QED
  BY <1>1, <1>2, <1>3, <1>4, <1>5

\* All programs start with their invariants, and the stores are empty.
LEMMA SuiteStart ==
    ASSUME SuiteInit
    PROVE  /\ SuiteInv
           /\ Pipe1!Store!Init /\ Pipe2!Store!Init /\ Stack!Store!Init /\ Clone!Store!Init
           /\ Queue!Store!Init
<1>1. IInv
  BY InitIInv DEF SuiteInit
<1>2. Pipe1Proofs!Inv /\ Pipe1!Store!Init /\ Pipe2Proofs!Inv /\ Pipe2!Store!Init
  BY SuiteAssumption, Pipe1Same, Pipe2Same, Pipe1Proofs!PipeStart, Pipe2Proofs!PipeStart DEF SuiteInit
<1>3. StackProofs!Inv /\ Stack!Store!Init /\ CloneProofs!Inv /\ Clone!Store!Init
  BY SuiteAssumption, StackSame, CloneSame, StackProofs!StackStart, CloneProofs!StackStart DEF SuiteInit
<1>4. QueueInv /\ Queue!Store!Init /\ CounterInv /\ OnceInv /\ PairInv
  BY SuiteAssumption, QueueStart, CounterStart, OnceStart, PairStart DEF SuiteInit
<1> QED
  BY <1>1, <1>2, <1>3, <1>4 DEF SuiteInv

\* A step of the suite keeps the invariants of all programs.
LEMMA SuiteStep ==
    ASSUME Fewest > 0, SuiteInv, [SuiteNext]_suiteVars
    PROVE  SuiteInv'
<1>1. IInv'
  BY SuiteSteps, StepIInv DEF SuiteInv
<1>2. Pipe1Proofs!Inv'
  BY SuiteAssumption, SuiteSteps, Pipe1Same, Pipe1Proofs!PipeStep DEF SuiteInv
<1>3. Pipe2Proofs!Inv'
  BY SuiteAssumption, SuiteSteps, Pipe2Same, Pipe2Proofs!PipeStep DEF SuiteInv
<1>4. StackProofs!Inv'
  BY SuiteAssumption, SuiteSteps, StackSame, StackProofs!StackStep DEF SuiteInv
<1>5. CloneProofs!Inv'
  BY SuiteAssumption, SuiteSteps, CloneSame, CloneProofs!StackStep DEF SuiteInv
<1>6. QueueInv' /\ CounterInv' /\ OnceInv' /\ PairInv'
  BY SuiteAssumption, SuiteSteps, QueueStep, CounterStep, OnceStep, PairStep DEF SuiteInv
<1> QED
  BY <1>1, <1>2, <1>3, <1>4, <1>5, <1>6 DEF SuiteInv

\* What the invariants mean for the programs.
LEMMA SuiteMeans == ASSUME SuiteInv PROVE SharedKept /\ QueuesServe
<1>1. Pipe2!TypeOK /\ Pipe2!ConsumersStayToTheEnd
  <2>1. Pipe2Proofs!TypeOK /\ Pipe2Proofs!ConsumersStayToTheEnd
    BY SuiteAssumption, Pipe2Same, Pipe2Proofs!PipeMeans DEF SuiteInv
  <2> QED
    BY <2>1
    DEF Pipe2!TypeOK, Pipe2Proofs!TypeOK, Pipe2!ConsumersStayToTheEnd, Pipe2Proofs!ConsumersStayToTheEnd,
        Pipe2!Goods, Pipe2Proofs!Goods, Pipe2!Procs, Pipe2Proofs!Procs, Pipe2!Consumers, Pipe2Proofs!Consumers
<1>2. Stack!TypeOK
  <2>1. StackProofs!TypeOK
    BY SuiteAssumption, StackSame, StackProofs!StackMeans DEF SuiteInv
  <2> QED
    BY <2>1
    DEF Stack!TypeOK, StackProofs!TypeOK, Stack!Between, StackProofs!Between, Stack!Threads, StackProofs!Threads,
        Stack!Makers, StackProofs!Makers, Stack!Takers, StackProofs!Takers, Stack!Cardinality, StackProofs!Cardinality
<1>3. Queue!TypeOK /\ Queue!InOrder /\ Counter!NothingLost /\ Counter!Overshoot
  BY SuiteAssumption, QueueMeans, CounterMeans DEF SuiteInv
<1>4. Once!ReadOnce /\ Once!OneForEach /\ Once!LeftByNoInput /\ Pair!QueueRemoved
  BY SuiteAssumption, OnceMeans, PairMeans DEF SuiteInv
<1> QED
  BY <1>1, <1>2, <1>3, <1>4 DEF SuiteInv, IInv, SharedKept, QueuesServe

\* A step of a program is one of its warehouse, or leaves it.
LEMMA SuiteStores ==
    ASSUME SuiteInv, [SuiteNext]_suiteVars
    PROVE  /\ [Pipe1!Store!Next]_<<{p1_pipe[i] : i \in DOMAIN p1_pipe}, p1_sold>>
           /\ [Pipe2!Store!Next]_<<{p2_pipe[i] : i \in DOMAIN p2_pipe}, p2_sold>>
           /\ [Stack!Store!Next]_<<Stack!OnStack, st_sold>>
           /\ [Clone!Store!Next]_<<Clone!OnStack, cl_sold>>
           /\ [Queue!Store!Next]_<<{i \in Queue!Items : cq_queue[i] = 1}, {i \in Queue!Items : cq_queue[i] = 2}>>
<1>1. [Pipe1!Store!Next]_<<{p1_pipe[i] : i \in DOMAIN p1_pipe}, p1_sold>>
  BY SuiteAssumption, SuiteSteps, Pipe1Same, Pipe1Proofs!PipeStep DEF SuiteInv
<1>2. [Pipe2!Store!Next]_<<{p2_pipe[i] : i \in DOMAIN p2_pipe}, p2_sold>>
  BY SuiteAssumption, SuiteSteps, Pipe2Same, Pipe2Proofs!PipeStep DEF SuiteInv
<1>3. [Stack!Store!Next]_<<Stack!OnStack, st_sold>>
  <2>1. [StackProofs!Store!Next]_<<StackProofs!OnStack, st_sold>>
    BY SuiteAssumption, SuiteSteps, StackSame, StackProofs!StackStep DEF SuiteInv
  <2> QED
    BY <2>1, StackSame DEF Stack!OnStack, StackProofs!OnStack, Stack!InHand, StackProofs!InHand, Stack!Takers, StackProofs!Takers
<1>4. [Clone!Store!Next]_<<Clone!OnStack, cl_sold>>
  <2>1. [CloneProofs!Store!Next]_<<CloneProofs!OnStack, cl_sold>>
    BY SuiteAssumption, SuiteSteps, CloneSame, CloneProofs!StackStep DEF SuiteInv
  <2> QED
    BY <2>1, CloneSame DEF Clone!OnStack, CloneProofs!OnStack, Clone!InHand, CloneProofs!InHand, Clone!Takers, CloneProofs!Takers
<1>5. [Queue!Store!Next]_<<{i \in Queue!Items : cq_queue[i] = 1}, {i \in Queue!Items : cq_queue[i] = 2}>>
  BY SuiteAssumption, SuiteSteps, QueueStep DEF SuiteInv
<1> QED
  BY <1>1, <1>2, <1>3, <1>4, <1>5

(***************************************************************************)
(* The mutex and the semaphores of producer_consumer_4.c count, a consumer *)
(* of producer_consumer_2.c reads to the end whichever fork failed, the    *)
(* consumer of producer_consumer_5.c consumes in order, and the writers of *)
(* 02_pthread_rwlock.c lose no count and pass the limit by no more than    *)
(* their number less one, for any number of threads and goods.             *)
(***************************************************************************)
THEOREM ThreadsShare == Fewest > 0 => (SuiteSpec => []SharedKept)
<1> SUFFICES ASSUME Fewest > 0 PROVE SuiteSpec => []SharedKept
  OBVIOUS
<1>1. SuiteInit => SuiteInv
  BY SuiteStart
<1>2. SuiteInv /\ [SuiteNext]_suiteVars => SuiteInv'
  BY SuiteStep
<1>3. SuiteInv => SharedKept
  BY SuiteMeans
<1> QED
  BY <1>1, <1>2, <1>3, PTL DEF SuiteSpec, suiteVars

(***************************************************************************)
(* An instance of ipc_mq.c reads a line nobody else reads, one that waits  *)
(* has a line to wait for, and 01_msg.cpp leaves its queue behind only     *)
(* where it gives up, for any number of instances and interrupts.          *)
(***************************************************************************)
THEOREM LinesHad == Fewest > 0 => (SuiteSpec => []QueuesServe)
<1> SUFFICES ASSUME Fewest > 0 PROVE SuiteSpec => []QueuesServe
  OBVIOUS
<1>1. SuiteInit => SuiteInv
  BY SuiteStart
<1>2. SuiteInv /\ [SuiteNext]_suiteVars => SuiteInv'
  BY SuiteStep
<1>3. SuiteInv => QueuesServe
  BY SuiteMeans
<1> QED
  BY <1>1, <1>2, <1>3, PTL DEF SuiteSpec, suiteVars

(***************************************************************************)
(* Both pipes, the stack of slots, the single slot and the queue with the  *)
(* condition variable each implement the warehouse: a good that was made   *)
(* is had once, and no more are in it than it has room for.                *)
(***************************************************************************)
THEOREM GoodsHadOnce == Fewest > 0 => (SuiteSpec => Warehouses)
<1> SUFFICES ASSUME Fewest > 0 PROVE SuiteSpec => Warehouses
  OBVIOUS
<1>1. SuiteInit => SuiteInv /\ Pipe1!Store!Init /\ Pipe2!Store!Init /\ Stack!Store!Init /\ Clone!Store!Init /\ Queue!Store!Init
  BY SuiteStart
<1>2. SuiteInv /\ [SuiteNext]_suiteVars => SuiteInv'
  BY SuiteStep
<1>3. SuiteInv /\ [SuiteNext]_suiteVars =>
          /\ [Pipe1!Store!Next]_<<{p1_pipe[i] : i \in DOMAIN p1_pipe}, p1_sold>>
          /\ [Pipe2!Store!Next]_<<{p2_pipe[i] : i \in DOMAIN p2_pipe}, p2_sold>>
          /\ [Stack!Store!Next]_<<Stack!OnStack, st_sold>>
          /\ [Clone!Store!Next]_<<Clone!OnStack, cl_sold>>
          /\ [Queue!Store!Next]_<<{i \in Queue!Items : cq_queue[i] = 1}, {i \in Queue!Items : cq_queue[i] = 2}>>
  BY SuiteStores
<1> QED
  BY <1>1, <1>2, <1>3, PTL
  DEF SuiteSpec, suiteVars, Warehouses, Pipe1!ImplementsWarehouse, Pipe2!ImplementsWarehouse,
      Stack!ImplementsWarehouse, Clone!ImplementsWarehouse, Queue!ImplementsWarehouse,
      Pipe1!Store!Spec, Pipe2!Store!Spec, Stack!Store!Spec, Clone!Store!Spec, Queue!Store!Spec

----------------------------------------------------------------------------
(* The Rio package.                                                        *)

\* What a message is made of.
Bytes == {Message[i] : i \in DOMAIN Message}

\* Sequences of bytes, within the room there is for them.
PosixTypes ==
    /\ rb_ops \in Uses /\ rb_op \in rb_ops \cup {"none"}
    /\ {rb_sent, rb_chan, rb_buf, rb_out, rb_got} \subseteq Seq(Bytes)
    /\ rb_closed \in BOOLEAN
    /\ rb_wleft \in 0..Chunk /\ rb_want \in Nat
    /\ Len(rb_buf) <= RioBuf /\ Len(rb_chan) <= ChannelSize

\* What was sent has been had, waits in the buffer, or is on its way; the
\* unbuffered reads leave nothing in a buffer.
PosixBytes ==
    /\ rb_sent = rb_got \o (rb_buf \o rb_chan)
    /\ Len(rb_sent) + rb_wleft <= Len(Message)
    /\ Posix!WritesWhole
    /\ "readn" \in rb_ops => rb_buf = <<>>

\* A call that has not returned wants more, and has met no newline.
PosixCall ==
    /\ rb_op # "none" => rb_want >= 1
    /\ rb_op \in {"readn", "readnb", "readlineb"} => Len(rb_out) < rb_want
    /\ rb_op = "readlineb" => \A i \in 1..Len(rb_out) : rb_out[i] # "nl"

\* What the last call returned.
PosixReturn ==
    /\ rb_ret.op = "readlineb" => Len(rb_ret.out) < rb_ret.want
    /\ rb_ret.op \in {"readn", "readnb"} => Len(rb_ret.out) <= rb_ret.want
    /\ Posix!ShortOnlyAtEof
    /\ Posix!LinesWhole

\* Together these are inductive.
PosixInv == PosixTypes /\ PosixBytes /\ PosixCall /\ PosixReturn

\* A sequence is what is in front of a place and what is behind it.
LEMMA BytesCut ==
    ASSUME NEW S, NEW s \in Seq(S), NEW n \in 0..Len(s)
    PROVE  /\ SubSeq(s, 1, n) \in Seq(S) /\ Len(SubSeq(s, 1, n)) = n
           /\ SubSeq(s, n + 1, Len(s)) \in Seq(S) /\ Len(SubSeq(s, n + 1, Len(s))) = Len(s) - n
           /\ SubSeq(s, 1, n) \o SubSeq(s, n + 1, Len(s)) = s
           /\ n > 0 => SubSeq(s, 1, n) # <<>>
<1>0. Len(s) \in Nat /\ n \in Nat /\ n <= Len(s)
  BY LenProperties
<1>1. \A i \in 1..Len(s) : s[i] \in S
  BY ElementOfSeq
<1>2. SubSeq(s, 1, n) \in Seq(S) /\ Len(SubSeq(s, 1, n)) = n
  <2>1. \A i \in 1..n : s[i] \in S
    BY <1>0, <1>1
  <2>2. SubSeq(s, 1, n) \in Seq(S) /\ Len(SubSeq(s, 1, n)) = (IF 1 <= n THEN n - 1 + 1 ELSE 0)
    BY <1>0, <2>1, SubSeqProperties
  <2> QED
    BY <1>0, <2>2
<1>3. SubSeq(s, n + 1, Len(s)) \in Seq(S) /\ Len(SubSeq(s, n + 1, Len(s))) = Len(s) - n
  <2>1. \A i \in (n + 1)..Len(s) : s[i] \in S
    BY <1>0, <1>1
  <2>2. n + 1 \in Int /\ Len(s) \in Int
    BY <1>0
  <2>3. /\ SubSeq(s, n + 1, Len(s)) \in Seq(S)
        /\ Len(SubSeq(s, n + 1, Len(s))) = (IF n + 1 <= Len(s) THEN Len(s) - (n + 1) + 1 ELSE 0)
    BY <2>1, <2>2, SubSeqProperties
  <2> QED
    BY <1>0, <2>3
<1>4. SubSeq(s, 1, n) \o SubSeq(s, n + 1, Len(s)) = s
  <2>1. 1 \in 1..Len(s) + 1 /\ n \in 1 - 1..Len(s) /\ Len(s) \in n..Len(s)
    BY <1>0
  <2>2. SubSeq(s, 1, n) \o SubSeq(s, n + 1, Len(s)) = SubSeq(s, 1, Len(s))
    BY <2>1, ConcatAdjacentSubSeq
  <2> QED
    BY <2>2, SubSeqFull
<1>5. n > 0 => SubSeq(s, 1, n) # <<>>
  BY <1>2
<1> QED
  BY <1>2, <1>3, <1>4, <1>5

\* What is put behind a sequence extends it.
LEMMA BytesExtend ==
    ASSUME NEW S, NEW s \in Seq(S), NEW t \in Seq(S)
    PROVE  s \o t \in Seq(S) /\ Len(s \o t) = Len(s) + Len(t) /\ Posix!Stream!Extends(s, s \o t)
<1>0. Len(s) \in Nat /\ Len(t) \in Nat
  BY LenProperties
<1>1. /\ s \o t \in Seq(S) /\ Len(s \o t) = Len(s) + Len(t)
      /\ \A i \in 1..Len(s) + Len(t) : (s \o t)[i] = IF i <= Len(s) THEN s[i] ELSE t[i - Len(s)]
  BY ConcatProperties
<1>2. SubSeq(s \o t, 1, Len(s)) = s
  <2> DEFINE u == SubSeq(s \o t, 1, Len(s))
  <2>1. \A i \in 1..Len(s) : (s \o t)[i] = s[i] /\ s[i] \in S
    BY <1>0, <1>1, ElementOfSeq
  <2>2. u \in Seq(S) /\ Len(u) = (IF 1 <= Len(s) THEN Len(s) - 1 + 1 ELSE 0)
        /\ \A i \in 1..Len(s) - 1 + 1 : u[i] = (s \o t)[1 + i - 1]
    BY <1>0, <2>1, SubSeqProperties
  <2>3. Len(u) = Len(s)
    BY <1>0, <2>2
  <2>4. \A i \in 1..Len(u) : u[i] = s[i]
    BY <1>0, <2>1, <2>2, <2>3
  <2> HIDE DEF u
  <2> QED
    BY <2>2, <2>3, <2>4, SeqEqual DEF u
<1> QED
  BY <1>0, <1>1, <1>2 DEF Posix!Stream!Extends

\* Adding the divisor leaves the remainder what it is.
LEMMA ChunkMore ==
    ASSUME NEW c \in Nat \ {0}, NEW a \in Nat, a % c = 0
    PROVE  (a + c) % c = 0
<1>1. PICK q \in Int : a = c * q
  <2> DEFINE d == a \div c
             r == a % c
  <2>1. a = c * d + r /\ d \in Int /\ r = 0
    OBVIOUS
  <2> HIDE DEF d, r
  <2>2. c * d + 0 = c * d
    BY <2>1
  <2> QED
    BY <2>1, <2>2
<1>2. a + c = c * (q + 1)
  <2>1. c * (q + 1) = c * q + c
    OBVIOUS
  <2> QED
    BY <1>1, <2>1
<1>3. \A n \in Int : (c * n) % c = 0
  <2> SUFFICES ASSUME NEW n \in Int PROVE (c * n) % c = 0
    OBVIOUS
  <2> DEFINE b == c * n
             r == b % c
             p == b \div c
  <2>1. b \in Int /\ b = c * p + r /\ r \in 0..c - 1 /\ p \in Int
    OBVIOUS
  <2>2. c * (n - p) = r
    <3>1. c * (n - p) = c * n - c * p
      BY <2>1
    <3> QED
      BY <2>1, <3>1
  <2> HIDE DEF r, p
  <2>3. \A m \in Int : c * m >= 0 /\ c * m < c => m = 0
    <3> SUFFICES ASSUME NEW m \in Int, c * m >= 0, c * m < c PROVE m = 0
      OBVIOUS
    <3>1. CASE m >= 1
      <4>1. PICK d \in Nat : m = d + 1
        BY <3>1
      <4>2. c * m = c * d + c /\ c * d >= 0
        BY <4>1
      <4> QED
        BY <4>2
    <3>2. CASE m <= -1
      <4>1. PICK d \in Nat : m = -d - 1
        <5>1. -m - 1 \in Nat /\ m = -(-m - 1) - 1
          BY <3>2
        <5> QED
          BY <5>1
      <4>2. c * m = -(c * d) - c /\ c * d >= 0
        BY <4>1
      <4> QED
        BY <4>2
    <3> QED
      BY <3>1, <3>2
  <2>4. n - p = 0
    BY <2>1, <2>2, <2>3
  <2> QED
    BY <2>2, <2>4 DEF r
<1> QED
  BY <1>1, <1>2, <1>3

\* Nothing is sent at first.
LEMMA PosixStart == ASSUME Posix!WellFormed, Posix!Init PROVE PosixInv /\ Posix!Stream!Init
<1>1. Chunk \in Nat \ {0} /\ RioBuf \in Nat /\ ChannelSize \in Nat
  BY DEF Posix!WellFormed
<1>2. 0 % Chunk = 0
  BY <1>1
<1>3. Message \in Seq(Bytes) /\ Len(Message) \in Nat
  BY LenProperties DEF Posix!WellFormed, Bytes
<1>4. <<>> \in Seq(Bytes) /\ Len(<<>>) = 0
  BY EmptySeq
<1>5. <<>> \o (<<>> \o <<>>) = <<>>
  BY <1>4, ConcatEmptySeq
<1>6. PosixTypes
  <2>1. {rb_sent, rb_chan, rb_buf, rb_out, rb_got} \subseteq Seq(Bytes)
    BY <1>4 DEF Posix!Init
  <2>2. rb_wleft \in 0..Chunk /\ rb_want \in Nat /\ Len(rb_buf) <= RioBuf /\ Len(rb_chan) <= ChannelSize
    BY <1>1, <1>4 DEF Posix!Init
  <2>3. rb_ops \in Uses /\ rb_op \in rb_ops \cup {"none"} /\ rb_closed \in BOOLEAN
    BY DEF Posix!Init
  <2> QED
    BY <2>1, <2>2, <2>3 DEF PosixTypes
<1>7. PosixBytes
  BY <1>1, <1>2, <1>3, <1>4, <1>5 DEF Posix!Init, PosixBytes, Posix!WritesWhole
<1>8. PosixCall /\ PosixReturn
  BY DEF Posix!Init, PosixCall, PosixReturn, Posix!ShortOnlyAtEof, Posix!LinesWhole
<1> QED
  BY <1>6, <1>7, <1>8 DEF PosixInv, Posix!Init, Posix!Stream!Init

\* Of the constants, and of the sequences.
LEMMA PosixFacts ==
    ASSUME Posix!WellFormed, PosixInv
    PROVE  /\ Chunk \in Nat \ {0} /\ MaxAsk \in Nat \ {0} /\ RioBuf \in Nat /\ ChannelSize \in Nat
           /\ Message \in Seq(Bytes) /\ Len(Message) \in Nat
           /\ rb_ops = {"readn"} \/ rb_ops \subseteq {"readnb", "readlineb"}
           /\ {rb_sent, rb_chan, rb_buf, rb_out, rb_got, rb_buf \o rb_chan} \subseteq Seq(Bytes)
           /\ {Len(rb_sent), Len(rb_chan), Len(rb_buf), Len(rb_out), Len(rb_got)} \subseteq Nat
           /\ rb_wleft \in Nat /\ rb_want \in Nat
<1>1. {Len(rb_sent), Len(rb_chan), Len(rb_buf), Len(rb_out), Len(rb_got)} \subseteq Nat
  BY LenProperties DEF PosixInv, PosixTypes
<1>2. rb_buf \o rb_chan \in Seq(Bytes)
  BY ConcatProperties DEF PosixInv, PosixTypes
<1>3. Chunk \in Nat \ {0} /\ MaxAsk \in Nat \ {0} /\ RioBuf \in Nat /\ ChannelSize \in Nat
  BY DEF Posix!WellFormed
<1>4. Message \in Seq(Bytes) /\ Len(Message) \in Nat
  BY LenProperties DEF Posix!WellFormed, Bytes
<1>5. rb_ops = {"readn"} \/ rb_ops \subseteq {"readnb", "readlineb"}
  BY DEF Posix!WellFormed, PosixInv, PosixTypes
<1>6. rb_wleft \in Nat
  BY <1>3 DEF PosixInv, PosixTypes
<1> QED
  BY <1>1, <1>2, <1>3, <1>4, <1>5, <1>6 DEF PosixInv, PosixTypes

\* The writer: of what is left of its argument, some is sent.
LEMMA PosixWrite ==
    ASSUME Posix!WellFormed, PosixInv, Posix!WriteCall \/ Posix!WriteSome \/ Posix!Close
    PROVE  PosixInv' /\ (Posix!Stream!Send \/ UNCHANGED <<rb_sent, rb_got>>)
<1> USE PosixFacts
<1>0. /\ UNCHANGED <<rb_ops, rb_buf, rb_op, rb_want, rb_out, rb_ret, rb_got>> /\ rb_closed = FALSE
      /\ rb_closed' \in BOOLEAN
  BY DEF Posix!WriteCall, Posix!WriteSome, Posix!Close, Posix!Reader, PosixInv, PosixTypes
<1>1. PosixCall' /\ PosixReturn'
  <2>1. PosixCall'
    BY <1>0 DEF PosixInv, PosixCall
  <2>2. Posix!ShortOnlyAtEof' /\ Posix!LinesWhole'
    BY <1>0 DEF PosixInv, PosixReturn, Posix!ShortOnlyAtEof, Posix!LinesWhole, Posix!AtEof
  <2> QED
    BY <1>0, <2>1, <2>2 DEF PosixInv, PosixReturn
<1>2. CASE Posix!WriteCall
  <2>1. /\ UNCHANGED <<rb_sent, rb_chan, rb_closed>> /\ rb_wleft = 0 /\ Len(rb_sent) < Len(Message)
        /\ rb_wleft' = Posix!Least(Chunk, Len(Message) - Len(rb_sent))
    BY <1>2 DEF Posix!WriteCall
  <2>2. rb_wleft' \in 0..Chunk /\ Len(rb_sent) + rb_wleft' <= Len(Message)
        /\ (rb_wleft' = Chunk \/ Len(rb_sent) + rb_wleft' = Len(Message))
    BY <2>1 DEF Posix!Least
  <2>3. Posix!WritesWhole'
    <3>1. Len(rb_sent) % Chunk = 0
      BY <2>1 DEF PosixInv, PosixBytes, Posix!WritesWhole
    <3>2. (Len(rb_sent) + Chunk) % Chunk = 0
      BY <3>1, ChunkMore
    <3> QED
      BY <2>1, <2>2, <3>2 DEF Posix!WritesWhole
  <2> QED
    BY <1>0, <1>1, <2>1, <2>2, <2>3 DEF PosixInv, PosixTypes, PosixBytes
<1>3. CASE Posix!WriteSome
  <2>1. CASE UNCHANGED <<rb_sent, rb_chan, rb_wleft>>
    BY <1>0, <1>1, <2>1 DEF PosixInv, PosixTypes, PosixBytes, Posix!WritesWhole
  <2>2. ASSUME NEW k \in 1..rb_wleft, Len(rb_chan) + k <= ChannelSize, Len(rb_sent) + k <= Len(Message),
               rb_sent' = rb_sent \o Posix!Written(k), rb_chan' = rb_chan \o Posix!Written(k),
               rb_wleft' = Posix!LeftToWrite(k)
        PROVE  PosixInv' /\ Posix!Stream!Send
    <3> DEFINE w == Posix!Written(k)
    <3>1. w \in Seq(Bytes) /\ Len(w) = k
      <4>1. \A i \in (Len(rb_sent) + 1)..(Len(rb_sent) + k) : Message[i] \in Bytes
        BY <2>2, ElementOfSeq
      <4>2. Len(rb_sent) + 1 \in Int /\ Len(rb_sent) + k \in Int
        OBVIOUS
      <4>3. w \in Seq(Bytes) /\ Len(w) = (IF Len(rb_sent) + 1 <= Len(rb_sent) + k
                THEN (Len(rb_sent) + k) - (Len(rb_sent) + 1) + 1 ELSE 0)
        BY <4>1, <4>2, SubSeqProperties DEF Posix!Written
      <4> HIDE DEF w
      <4> QED
        BY <4>3
    <3> HIDE DEF w
    <3>2. rb_sent' = rb_sent \o w /\ rb_chan' = rb_chan \o w
      BY <2>2 DEF w
    <3>3. rb_sent' \in Seq(Bytes) /\ Len(rb_sent') = Len(rb_sent) + k /\ Posix!Stream!Extends(rb_sent, rb_sent')
      BY <3>1, <3>2, BytesExtend
    <3>4. rb_chan' \in Seq(Bytes) /\ Len(rb_chan') = Len(rb_chan) + k
      BY <3>1, <3>2, BytesExtend
    <3>5. rb_sent' = rb_got' \o (rb_buf' \o rb_chan')
      <4>0. rb_got \in Seq(Bytes) /\ rb_buf \in Seq(Bytes) /\ rb_chan \in Seq(Bytes) /\ rb_buf \o rb_chan \in Seq(Bytes)
        BY PosixFacts
      <4>1. (rb_got \o (rb_buf \o rb_chan)) \o w = rb_got \o ((rb_buf \o rb_chan) \o w)
        <5> DEFINE z == rb_buf \o rb_chan
        <5>1. z \in Seq(Bytes)
          BY <4>0
        <5> HIDE DEF z
        <5>2. (rb_got \o z) \o w = rb_got \o (z \o w)
          BY ONLY <3>1, <4>0, <5>1, ConcatAssociative
        <5> QED
          BY <5>2 DEF z
      <4>2. (rb_buf \o rb_chan) \o w = rb_buf \o (rb_chan \o w)
        BY ONLY <3>1, <4>0, ConcatAssociative
      <4>3. rb_sent = rb_got \o (rb_buf \o rb_chan)
        BY DEF PosixInv, PosixBytes
      <4> QED
        BY <1>0, <3>2, <4>1, <4>2, <4>3, Zenon
    <3>6. rb_wleft' = rb_wleft - k /\ rb_wleft' \in 0..Chunk /\ Len(rb_sent') + rb_wleft' = Len(rb_sent) + rb_wleft
      BY <2>2, <3>3 DEF Posix!LeftToWrite, PosixInv, PosixTypes
    <3>7. PosixTypes'
      BY <1>0, <2>2, <3>3, <3>4, <3>6 DEF PosixInv, PosixTypes
    <3>8. PosixBytes'
      BY <1>0, <3>5, <3>6 DEF PosixInv, PosixBytes, Posix!WritesWhole
    <3>9. rb_sent' # rb_sent
      BY <3>3
    <3> QED
      BY <1>0, <1>1, <3>3, <3>7, <3>8, <3>9 DEF PosixInv, Posix!Stream!Send
  <2> QED
    BY <1>3, <2>1, <2>2 DEF Posix!WriteSome
<1>4. CASE Posix!Close
  <2>1. UNCHANGED <<rb_sent, rb_chan, rb_wleft>>
    BY <1>4 DEF Posix!Close
  <2> QED
    BY <1>0, <1>1, <2>1 DEF PosixInv, PosixTypes, PosixBytes, Posix!WritesWhole
<1> QED
  BY <1>2, <1>3, <1>4

\* A call begins.
LEMMA PosixBegin ==
    ASSUME Posix!WellFormed, PosixInv, NEW o \in rb_ops, Posix!Call(o)
    PROVE  PosixInv' /\ UNCHANGED <<rb_sent, rb_got>>
<1> USE PosixFacts
<1>1. PICK n \in 1..MaxAsk : rb_want' = n
  BY DEF Posix!Call
<1>2. /\ UNCHANGED <<rb_sent, rb_closed, rb_wleft, rb_ops, rb_chan, rb_buf, rb_ret, rb_got>>
      /\ rb_op' = o /\ rb_out' = <<>> /\ o # "none"
  BY DEF Posix!Call, Posix!Writer
<1>3. rb_out' \in Seq(Bytes) /\ Len(rb_out') = 0
  BY <1>2, EmptySeq
<1>4. PosixTypes'
  BY <1>1, <1>2, <1>3 DEF PosixInv, PosixTypes
<1>5. PosixBytes'
  BY <1>2 DEF PosixInv, PosixBytes, Posix!WritesWhole
<1>6. PosixCall'
  BY <1>1, <1>2, <1>3 DEF PosixCall
<1>7. PosixReturn'
  BY <1>2 DEF PosixInv, PosixReturn, Posix!ShortOnlyAtEof, Posix!LinesWhole
<1> QED
  BY <1>2, <1>4, <1>5, <1>6, <1>7 DEF PosixInv

\* What a read gives is in front of what stays in the channel.
LEMMA PosixGiven ==
    ASSUME Posix!WellFormed, PosixInv, NEW n \in Int, NEW bytes \in Posix!Given(n)
    PROVE  LET rest == SubSeq(rb_chan, Len(bytes) + 1, Len(rb_chan)) IN
           /\ bytes \in Seq(Bytes) /\ Len(bytes) \in 1..n /\ bytes # <<>>
           /\ rest \in Seq(Bytes) /\ Len(rest) <= ChannelSize /\ rb_chan = bytes \o rest
<1> USE PosixFacts
<1>1. PICK k \in 1..Posix!Least(n, Len(rb_chan)) : bytes = SubSeq(rb_chan, 1, k)
  BY DEF Posix!Given
<1>2. k \in 1..n /\ k \in 0..Len(rb_chan) /\ k > 0
  BY <1>1 DEF Posix!Least
<1>3. /\ bytes \in Seq(Bytes) /\ Len(bytes) = k /\ bytes # <<>>
      /\ SubSeq(rb_chan, k + 1, Len(rb_chan)) \in Seq(Bytes)
      /\ Len(SubSeq(rb_chan, k + 1, Len(rb_chan))) = Len(rb_chan) - k
      /\ bytes \o SubSeq(rb_chan, k + 1, Len(rb_chan)) = rb_chan
  BY <1>1, <1>2, BytesCut
<1>4. Len(rb_chan) - k <= ChannelSize
  BY <1>2 DEF PosixInv, PosixTypes
<1> QED
  BY <1>2, <1>3, <1>4

\* Bytes that are next are had: they are received, and what is behind them stays.
LEMMA PosixHad ==
    ASSUME Posix!WellFormed, PosixInv, NEW t \in Seq(Bytes), NEW r \in Seq(Bytes), t # <<>>,
           rb_sent = rb_got \o (t \o r), rb_got' = rb_got \o t, UNCHANGED rb_sent
    PROVE  rb_got' \in Seq(Bytes) /\ rb_sent' = rb_got' \o r /\ Posix!Stream!Receive
<1>0. rb_got \in Seq(Bytes)
  BY PosixFacts
<1>1. rb_got' \in Seq(Bytes) /\ Posix!Stream!Extends(rb_got, rb_got')
  BY <1>0, BytesExtend
<1>2. (rb_got \o t) \o r = rb_got \o (t \o r)
  <2>1. \A x, y, z \in Seq(Bytes) : (x \o y) \o z = x \o (y \o z)
    BY ONLY ConcatAssociative
  <2> QED
    BY <1>0, <2>1, Zenon
<1>3. rb_sent = rb_got' \o r
  BY <1>2, Zenon
<1>4. Posix!Stream!Extends(rb_got', rb_sent)
  BY <1>1, <1>3, BytesExtend
<1>5. rb_got # rb_got'
  <2>1. rb_got \o t = rb_got <=> t = <<>>
    BY <1>0, ConcatEqualIffEmpty
  <2> QED
    BY <2>1
<1> QED
  BY <1>1, <1>3, <1>4, <1>5 DEF Posix!Stream!Receive

\* rio_readn: what read gives, or the end, or an error.
LEMMA PosixReadn ==
    ASSUME Posix!WellFormed, PosixInv, Posix!ReadnSome
    PROVE  PosixInv' /\ (Posix!Stream!Receive \/ UNCHANGED <<rb_sent, rb_got>>)
<1> USE PosixFacts
<1>0. /\ UNCHANGED <<rb_sent, rb_closed, rb_wleft, rb_ops, rb_buf, rb_want>> /\ rb_op = "readn"
      /\ "readn" \in rb_ops /\ rb_buf = <<>> /\ Len(rb_out) < rb_want
  BY DEF Posix!ReadnSome, Posix!Writer, PosixInv, PosixTypes, PosixBytes, PosixCall
<1>1. \A s \in Seq(Bytes) : <<>> \o s = s
  BY ConcatEmptySeq
<1>2. Posix!WritesWhole' /\ Len(rb_sent') + rb_wleft' <= Len(Message)
  BY <1>0 DEF PosixInv, PosixBytes, Posix!WritesWhole
<1>3. ASSUME NEW bytes \in Posix!Given(rb_want - Len(rb_out)),
             rb_chan' = SubSeq(rb_chan, Len(bytes) + 1, Len(rb_chan)),
             rb_out' = rb_out \o bytes, rb_got' = rb_got \o bytes,
             IF Posix!Complete(bytes) THEN Posix!Return(Len(rb_out')) ELSE UNCHANGED <<rb_op, rb_ret>>
      PROVE  PosixInv' /\ Posix!Stream!Receive
  <2>1. /\ bytes \in Seq(Bytes) /\ Len(bytes) \in 1..(rb_want - Len(rb_out)) /\ bytes # <<>>
        /\ rb_chan' \in Seq(Bytes) /\ Len(rb_chan') <= ChannelSize /\ rb_chan = bytes \o rb_chan'
    <3>1. rb_want - Len(rb_out) \in Int
      OBVIOUS
    <3> QED
      BY ONLY Posix!WellFormed, PosixInv, <1>3, <3>1, PosixGiven
  <2>2. rb_out' \in Seq(Bytes) /\ Len(rb_out') = Len(rb_out) + Len(bytes) /\ Len(rb_out') <= rb_want
    BY <1>3, <2>1, BytesExtend
  <2>3. rb_sent = rb_got \o (bytes \o rb_chan')
    BY <1>0, <1>1, <2>1 DEF PosixInv, PosixBytes
  <2>4. rb_got' \in Seq(Bytes) /\ rb_sent' = rb_got' \o rb_chan' /\ Posix!Stream!Receive
    BY <1>0, <1>3, <2>1, <2>3, PosixHad
  <2>5. rb_sent' = rb_got' \o (rb_buf' \o rb_chan')
    BY <1>0, <1>1, <2>1, <2>4
  <2>6. PosixBytes'
    BY <1>0, <1>2, <2>5 DEF PosixBytes
  <2>7. rb_op' \in {"readn", "none"}
    BY <1>0, <1>3 DEF Posix!Return
  <2>8. PosixTypes'
    BY <1>0, <2>1, <2>2, <2>4, <2>7 DEF PosixInv, PosixTypes
  <2>9. CASE Posix!Complete(bytes)
    <3>1. rb_op' = "none" /\ rb_ret' = [op |-> "readn", val |-> Len(rb_out'), want |-> rb_want, out |-> rb_out']
          /\ Len(rb_out') = rb_want
      BY <1>0, <1>3, <2>2, <2>9 DEF Posix!Return, Posix!Complete
    <3>2. PosixCall' /\ PosixReturn'
      BY <3>1 DEF PosixCall, PosixReturn, Posix!ShortOnlyAtEof, Posix!LinesWhole
    <3> QED
      BY <2>4, <2>6, <2>8, <3>2 DEF PosixInv
  <2>10. CASE ~Posix!Complete(bytes)
    <3>1. UNCHANGED <<rb_op, rb_ret>> /\ Len(rb_out') < rb_want
      <4>1. UNCHANGED <<rb_op, rb_ret>> /\ Len(rb_out) + Len(bytes) # rb_want
        BY <1>3, <2>10 DEF Posix!Complete
      <4>2. Len(rb_out') \in Nat /\ rb_want \in Nat /\ Len(rb_out') # rb_want
        BY <2>1, <2>2, <4>1
      <4> QED
        BY ONLY <2>2, <4>1, <4>2
    <3>2. PosixCall' /\ PosixReturn'
      BY <1>0, <3>1 DEF PosixInv, PosixCall, PosixReturn, Posix!ShortOnlyAtEof, Posix!LinesWhole
    <3> QED
      BY <2>4, <2>6, <2>8, <3>2 DEF PosixInv
  <2> QED
    BY <2>9, <2>10
<1>4. ASSUME UNCHANGED <<rb_chan, rb_out, rb_got>>,
             \/ UNCHANGED <<rb_op, rb_ret>>
             \/ Posix!AtEof /\ Posix!Return(Len(rb_out))
             \/ Posix!Return(-1)
      PROVE  PosixInv'
  <2>1. PosixBytes'
    BY <1>0, <1>2, <1>4 DEF PosixInv, PosixBytes
  <2>2. rb_op' \in {"readn", "none"}
    BY <1>0, <1>4 DEF Posix!Return
  <2>3. PosixTypes'
    BY <1>0, <1>4, <2>2 DEF PosixInv, PosixTypes
  <2>4. PosixCall'
    BY <1>0, <1>4, <2>2 DEF PosixInv, PosixCall
  <2>5. PosixReturn'
    <3>1. CASE UNCHANGED <<rb_op, rb_ret>>
      BY <1>0, <3>1 DEF PosixInv, PosixReturn, Posix!ShortOnlyAtEof, Posix!LinesWhole
    <3>2. CASE Posix!AtEof /\ Posix!Return(Len(rb_out))
      <4>1. rb_ret' = [op |-> "readn", val |-> Len(rb_out), want |-> rb_want, out |-> rb_out]
            /\ Posix!AtEof' /\ rb_buf' = <<>>
        BY <1>0, <1>4, <3>2 DEF Posix!Return, Posix!AtEof
      <4> QED
        BY <1>0, <4>1 DEF PosixReturn, Posix!ShortOnlyAtEof, Posix!LinesWhole
    <3>3. CASE Posix!Return(-1)
      <4>1. rb_ret' = [op |-> "readn", val |-> -1, want |-> rb_want, out |-> rb_out]
        BY <1>0, <1>4, <3>3 DEF Posix!Return
      <4> QED
        BY <1>0, <4>1 DEF PosixReturn, Posix!ShortOnlyAtEof, Posix!LinesWhole
    <3> QED
      BY <1>4, <3>1, <3>2, <3>3
  <2> QED
    BY <2>1, <2>3, <2>4, <2>5 DEF PosixInv
<1> QED
  BY <1>0, <1>3, <1>4 DEF Posix!ReadnSome, Posix!EofSeen

\* rio_read with an empty buffer: it is filled.
LEMMA PosixRefill ==
    ASSUME Posix!WellFormed, PosixInv, Posix!Refill
    PROVE  PosixInv' /\ UNCHANGED <<rb_sent, rb_got>>
<1> USE PosixFacts
<1>0. /\ UNCHANGED <<rb_sent, rb_closed, rb_wleft, rb_ops, rb_want, rb_got>>
      /\ rb_op \in {"readnb", "readlineb"}
      /\ ~("readn" \in rb_ops) /\ rb_buf = <<>> /\ Len(rb_out) < rb_want
  BY DEF Posix!Refill, Posix!Writer, Posix!Buffered, Posix!BufIsEmpty, PosixInv, PosixTypes, PosixCall
<1>1. \A s \in Seq(Bytes) : <<>> \o s = s
  BY ConcatEmptySeq
<1>2. Posix!WritesWhole' /\ Len(rb_sent') + rb_wleft' <= Len(Message)
  BY <1>0 DEF PosixInv, PosixBytes, Posix!WritesWhole
<1>3. ASSUME NEW bytes \in Posix!Given(RioBuf), rb_buf' = bytes,
             rb_chan' = SubSeq(rb_chan, Len(bytes) + 1, Len(rb_chan)), UNCHANGED <<rb_op, rb_out, rb_ret>>
      PROVE  PosixInv'
  <2>1. /\ bytes \in Seq(Bytes) /\ Len(bytes) \in 1..RioBuf /\ bytes # <<>>
        /\ rb_chan' \in Seq(Bytes) /\ Len(rb_chan') <= ChannelSize /\ rb_chan = bytes \o rb_chan'
    <3>1. RioBuf \in Int
      OBVIOUS
    <3> QED
      BY ONLY Posix!WellFormed, PosixInv, <1>3, <3>1, PosixGiven
  <2>2. rb_sent' = rb_got' \o (rb_buf' \o rb_chan')
    BY <1>0, <1>1, <1>3, <2>1 DEF PosixInv, PosixBytes
  <2>3. PosixBytes'
    BY <1>0, <1>2, <2>2 DEF PosixBytes
  <2>4. PosixTypes'
    BY <1>0, <1>3, <2>1 DEF PosixInv, PosixTypes
  <2>5. PosixCall' /\ PosixReturn'
    BY <1>0, <1>3 DEF PosixInv, PosixCall, PosixReturn, Posix!ShortOnlyAtEof, Posix!LinesWhole
  <2> QED
    BY <2>3, <2>4, <2>5 DEF PosixInv
<1>4. ASSUME UNCHANGED <<rb_buf, rb_chan, rb_out>>,
             \/ UNCHANGED <<rb_op, rb_ret>>
             \/ Posix!AtEof /\ Posix!Return(Posix!EofValue)
             \/ Posix!Return(-1)
      PROVE  PosixInv'
  <2>1. PosixBytes'
    BY <1>0, <1>2, <1>4 DEF PosixInv, PosixBytes
  <2>2. rb_op' \in {rb_op, "none"}
    BY <1>4 DEF Posix!Return
  <2>3. PosixTypes'
    BY <1>0, <1>4, <2>2 DEF PosixInv, PosixTypes
  <2>4. PosixCall'
    BY <1>0, <1>4, <2>2 DEF PosixInv, PosixCall
  <2>5. PosixReturn'
    <3>1. CASE UNCHANGED <<rb_op, rb_ret>>
      BY <1>0, <3>1 DEF PosixInv, PosixReturn, Posix!ShortOnlyAtEof, Posix!LinesWhole
    <3>2. CASE Posix!AtEof /\ Posix!Return(Posix!EofValue)
      <4>1. rb_ret' = [op |-> rb_op, val |-> Posix!EofValue, want |-> rb_want, out |-> rb_out]
            /\ Posix!AtEof' /\ rb_buf' = <<>>
        BY <1>0, <1>4, <3>2 DEF Posix!Return, Posix!AtEof
      <4>2. rb_op = "readlineb" => \A i \in 1..Len(rb_out) - 1 : rb_out[i] # "nl"
        BY DEF PosixInv, PosixCall
      <4> QED
        BY <1>0, <4>1, <4>2 DEF PosixReturn, Posix!ShortOnlyAtEof, Posix!LinesWhole, Posix!Newline
    <3>3. CASE Posix!Return(-1)
      <4>1. rb_ret' = [op |-> rb_op, val |-> -1, want |-> rb_want, out |-> rb_out]
        BY <1>0, <1>4, <3>3 DEF Posix!Return
      <4> QED
        BY <1>0, <4>1 DEF PosixReturn, Posix!ShortOnlyAtEof, Posix!LinesWhole
    <3> QED
      BY <1>4, <3>1, <3>2, <3>3
  <2> QED
    BY <2>1, <2>3, <2>4, <2>5 DEF PosixInv
<1> QED
  BY <1>0, <1>3, <1>4 DEF Posix!Refill, Posix!EofSeen

\* rio_read copies bytes out of the buffer.
LEMMA PosixTake ==
    ASSUME Posix!WellFormed, PosixInv, NEW n \in 1..Len(rb_buf), Posix!TakeBuf(n), UNCHANGED <<rb_sent, rb_chan>>
    PROVE  /\ SubSeq(rb_buf, 1, n) \in Seq(Bytes) /\ Len(SubSeq(rb_buf, 1, n)) = n
           /\ {rb_out', rb_buf', rb_got'} \subseteq Seq(Bytes)
           /\ Len(rb_buf') <= RioBuf /\ Len(rb_out') = Len(rb_out) + n
           /\ rb_sent' = rb_got' \o (rb_buf' \o rb_chan')
           /\ Posix!Stream!Receive
<1> DEFINE t == SubSeq(rb_buf, 1, n)
           r == SubSeq(rb_buf, n + 1, Len(rb_buf))
<1>0. /\ {rb_sent, rb_chan, rb_buf, rb_out, rb_got} \subseteq Seq(Bytes) /\ RioBuf \in Nat
      /\ Len(rb_buf) \in Nat /\ Len(rb_buf) <= RioBuf
  BY PosixFacts DEF PosixInv, PosixTypes
<1>1. /\ t \in Seq(Bytes) /\ Len(t) = n /\ t # <<>>
      /\ r \in Seq(Bytes) /\ Len(r) = Len(rb_buf) - n /\ t \o r = rb_buf
  <2>1. n \in 0..Len(rb_buf) /\ n > 0
    BY <1>0
  <2> QED
    BY <1>0, <2>1, BytesCut
<1>2. rb_out' = rb_out \o t /\ rb_got' = rb_got \o t /\ rb_buf' = r
  BY DEF Posix!TakeBuf
<1> HIDE DEF t, r
<1>3. rb_out' \in Seq(Bytes) /\ Len(rb_out') = Len(rb_out) + n
  BY <1>0, <1>1, <1>2, BytesExtend
<1>4. rb_sent = rb_got \o (t \o (r \o rb_chan))
  <2>1. (t \o r) \o rb_chan = t \o (r \o rb_chan)
    <3>1. t \in Seq(Bytes) /\ r \in Seq(Bytes) /\ rb_chan \in Seq(Bytes)
      BY <1>0, <1>1
    <3> QED
      BY ONLY <3>1, ConcatAssociative
  <2>2. rb_sent = rb_got \o (rb_buf \o rb_chan)
    BY DEF PosixInv, PosixBytes
  <2> QED
    BY ONLY <1>1, <2>1, <2>2
<1>5. r \o rb_chan \in Seq(Bytes)
  BY <1>0, <1>1, ConcatProperties
<1>6. rb_got' \in Seq(Bytes) /\ rb_sent' = rb_got' \o (r \o rb_chan) /\ Posix!Stream!Receive
  BY <1>1, <1>2, <1>4, <1>5, PosixHad
<1>7. rb_sent' = rb_got' \o (rb_buf' \o rb_chan')
  BY <1>2, <1>6
<1>8. Len(rb_buf') <= RioBuf
  BY <1>0, <1>1, <1>2
<1> QED
  BY <1>1, <1>2, <1>3, <1>6, <1>7, <1>8 DEF t

\* rio_readnb: as many as it wants and there are.
LEMMA PosixReadnb ==
    ASSUME Posix!WellFormed, PosixInv, Posix!ReadnbCopy
    PROVE  PosixInv' /\ Posix!Stream!Receive
<1> DEFINE n == Posix!Least(Len(rb_buf), rb_want - Len(rb_out))
<1>0. /\ UNCHANGED <<rb_sent, rb_closed, rb_wleft, rb_ops, rb_chan, rb_want>>
      /\ rb_op = "readnb" /\ rb_buf # <<>> /\ Posix!TakeBuf(n)
      /\ IF Len(rb_out') = rb_want THEN Posix!Return(Len(rb_out')) ELSE UNCHANGED <<rb_op, rb_ret>>
      /\ Len(rb_out) < rb_want
  BY DEF Posix!ReadnbCopy, Posix!Writer, PosixInv, PosixCall
<1>1. Len(rb_buf) \in Nat \ {0} /\ Len(rb_out) \in Nat /\ rb_want \in Nat
  BY <1>0, PosixFacts, EmptySeq
<1>2. n \in 1..Len(rb_buf) /\ Len(rb_out) + n <= rb_want
  BY <1>0, <1>1 DEF Posix!Least
<1> HIDE DEF n
<1>3. /\ {rb_out', rb_buf', rb_got'} \subseteq Seq(Bytes)
      /\ Len(rb_buf') <= RioBuf /\ Len(rb_out') = Len(rb_out) + n
      /\ rb_sent' = rb_got' \o (rb_buf' \o rb_chan') /\ Posix!Stream!Receive
  BY <1>0, <1>2, PosixTake
<1>4. ~("readn" \in rb_ops)
  <2>1. "readnb" \in rb_ops
    BY <1>0 DEF PosixInv, PosixTypes
  <2> QED
    BY <2>1, PosixFacts
<1>5. PosixBytes'
  BY <1>0, <1>3, <1>4 DEF PosixInv, PosixBytes, Posix!WritesWhole
<1>6. rb_op' \in {"readnb", "none"}
  BY <1>0 DEF Posix!Return
<1>7. PosixTypes'
  BY <1>0, <1>3, <1>6 DEF PosixInv, PosixTypes
<1>8. CASE Len(rb_out') = rb_want
  <2>1. rb_op' = "none" /\ rb_ret' = [op |-> "readnb", val |-> Len(rb_out'), want |-> rb_want, out |-> rb_out']
    BY <1>0, <1>8 DEF Posix!Return
  <2>2. PosixCall' /\ PosixReturn'
    BY <1>1, <1>8, <2>1 DEF PosixCall, PosixReturn, Posix!ShortOnlyAtEof, Posix!LinesWhole
  <2> QED
    BY <1>3, <1>5, <1>7, <2>2 DEF PosixInv
<1>9. CASE Len(rb_out') # rb_want
  <2>1. UNCHANGED <<rb_op, rb_ret>> /\ Len(rb_out') < rb_want
    <3>1. UNCHANGED <<rb_op, rb_ret>>
      BY <1>0, <1>9
    <3>2. Len(rb_out') < rb_want
      <4>1. Len(rb_out') \in Nat /\ rb_want \in Nat /\ Len(rb_out') <= rb_want
        BY ONLY <1>1, <1>2, <1>3
      <4> QED
        BY ONLY <1>9, <4>1
    <3> QED
      BY <3>1, <3>2
  <2>2. PosixCall' /\ PosixReturn'
    BY <1>0, <2>1 DEF PosixInv, PosixCall, PosixReturn, Posix!ShortOnlyAtEof, Posix!LinesWhole
  <2> QED
    BY <1>3, <1>5, <1>7, <2>2 DEF PosixInv
<1> QED
  BY <1>8, <1>9

\* rio_readlineb: one more, and the line may end with it.
LEMMA PosixReadline ==
    ASSUME Posix!WellFormed, PosixInv, Posix!ReadlineCopy
    PROVE  PosixInv' /\ Posix!Stream!Receive
<1> DEFINE t == SubSeq(rb_buf, 1, 1)
<1>0. /\ UNCHANGED <<rb_sent, rb_closed, rb_wleft, rb_ops, rb_chan, rb_want>>
      /\ rb_op = "readlineb" /\ rb_buf # <<>> /\ Posix!TakeBuf(1) /\ ~Posix!LineFull
      /\ IF Posix!LineEnd(Head(rb_buf)) THEN Posix!Return(Posix!LineValue(rb_out')) ELSE UNCHANGED <<rb_op, rb_ret>>
      /\ rb_want >= 1 /\ \A i \in 1..Len(rb_out) : rb_out[i] # "nl"
  BY DEF Posix!ReadlineCopy, Posix!Writer, PosixInv, PosixCall
<1>1. Len(rb_buf) \in Nat \ {0} /\ Len(rb_out) \in Nat /\ rb_want \in Nat
  BY <1>0, PosixFacts, EmptySeq
<1>2. 1 \in 1..Len(rb_buf) /\ Len(rb_out) + 1 < rb_want
  BY <1>0, <1>1 DEF Posix!LineFull, Posix!LineRoom
<1>3. /\ {rb_out', rb_buf', rb_got'} \subseteq Seq(Bytes)
      /\ Len(rb_buf') <= RioBuf /\ Len(rb_out') = Len(rb_out) + 1
      /\ rb_sent' = rb_got' \o (rb_buf' \o rb_chan') /\ Posix!Stream!Receive
      /\ t \in Seq(Bytes) /\ Len(t) = 1
  BY <1>0, <1>2, PosixTake
<1>4. ~("readn" \in rb_ops)
  <2>1. "readlineb" \in rb_ops
    BY <1>0 DEF PosixInv, PosixTypes
  <2> QED
    BY <2>1, PosixFacts
<1>5. PosixBytes'
  BY <1>0, <1>3, <1>4 DEF PosixInv, PosixBytes, Posix!WritesWhole
<1>6. rb_op' \in {"readlineb", "none"}
  BY <1>0 DEF Posix!Return
<1>7. PosixTypes'
  BY <1>0, <1>3, <1>6 DEF PosixInv, PosixTypes
<1>8. /\ \A i \in 1..Len(rb_out) : rb_out'[i] = rb_out[i]
      /\ rb_out'[Len(rb_out) + 1] = Head(rb_buf)
  <2>1. rb_out' = rb_out \o t /\ rb_out \in Seq(Bytes) /\ rb_buf \in Seq(Bytes)
    BY <1>0, PosixFacts DEF Posix!TakeBuf
  <2>2. t[1] = Head(rb_buf)
    BY <1>1, <2>1
  <2> HIDE DEF t
  <2>3. \A i \in 1..Len(rb_out) + Len(t) : (rb_out \o t)[i] = IF i <= Len(rb_out) THEN rb_out[i] ELSE t[i - Len(rb_out)]
    BY <1>3, <2>1, ConcatProperties
  <2>4. Len(rb_out) + 1 \in 1..Len(rb_out) + Len(t) /\ ~(Len(rb_out) + 1 <= Len(rb_out))
        /\ (Len(rb_out) + 1) - Len(rb_out) = 1
    BY <1>1, <1>3
  <2>5. rb_out'[Len(rb_out) + 1] = t[1]
    BY <2>1, <2>3, <2>4
  <2>6. \A i \in 1..Len(rb_out) : rb_out'[i] = rb_out[i]
    BY <1>1, <1>3, <2>1, <2>3
  <2> QED
    BY <2>2, <2>5, <2>6
<1>9. CASE Head(rb_buf) = "nl"
  <2>1. rb_op' = "none" /\ rb_ret' = [op |-> "readlineb", val |-> Posix!LineValue(rb_out'), want |-> rb_want, out |-> rb_out']
    BY <1>0, <1>9 DEF Posix!Return, Posix!LineEnd, Posix!Newline
  <2>2. /\ \A i \in 1..Len(rb_out') - 1 : rb_out'[i] # "nl"
        /\ rb_out'[Len(rb_out')] = "nl" /\ Len(rb_out') < rb_want
    <3>1. Len(rb_out') - 1 = Len(rb_out) /\ Len(rb_out') < rb_want
      BY <1>1, <1>2, <1>3
    <3> QED
      BY <1>0, <1>3, <1>8, <1>9, <3>1
  <2>3. PosixCall' /\ PosixReturn'
    BY <2>1, <2>2 DEF PosixCall, PosixReturn, Posix!ShortOnlyAtEof, Posix!LinesWhole, Posix!Newline, Posix!Last
  <2> QED
    BY <1>3, <1>5, <1>7, <2>3 DEF PosixInv
<1>10. CASE Head(rb_buf) # "nl"
  <2>1. UNCHANGED <<rb_op, rb_ret>> /\ Len(rb_out') < rb_want
    BY <1>0, <1>2, <1>3, <1>10 DEF Posix!LineEnd, Posix!Newline
  <2>2. \A i \in 1..Len(rb_out') : rb_out'[i] # "nl"
    <3>1. \A i \in 1..Len(rb_out') : i \in 1..Len(rb_out) \/ i = Len(rb_out) + 1
      BY <1>1, <1>3
    <3> QED
      BY <1>0, <1>8, <1>10, <3>1
  <2>3. PosixCall' /\ PosixReturn'
    BY <1>0, <2>1, <2>2 DEF PosixInv, PosixCall, PosixReturn, Posix!ShortOnlyAtEof, Posix!LinesWhole
  <2> QED
    BY <1>3, <1>5, <1>7, <2>3 DEF PosixInv
<1> QED
  BY <1>9, <1>10

\* rio_readlineb: the line fills its buffer.
LEMMA PosixFull ==
    ASSUME Posix!WellFormed, PosixInv, Posix!ReadlineFull
    PROVE  PosixInv' /\ UNCHANGED <<rb_sent, rb_got>>
<1>0. /\ UNCHANGED <<rb_sent, rb_closed, rb_wleft, rb_ops, rb_chan, rb_buf, rb_want, rb_out, rb_got>>
      /\ rb_op = "readlineb" /\ Len(rb_out) >= rb_want - 1 /\ Len(rb_out) < rb_want /\ rb_op' = "none"
      /\ rb_ret' = [op |-> "readlineb", val |-> Posix!LineValue(rb_out), want |-> rb_want, out |-> rb_out]
      /\ \A i \in 1..Len(rb_out) : rb_out[i] # "nl"
  BY DEF Posix!ReadlineFull, Posix!LineFull, Posix!LineRoom, Posix!Return, Posix!Writer, PosixInv, PosixCall
<1>1. Len(rb_out) \in Nat /\ rb_want \in Nat
  BY PosixFacts
<1>2. PosixTypes' /\ PosixBytes' /\ PosixCall'
  BY <1>0 DEF PosixInv, PosixTypes, PosixBytes, PosixCall, Posix!WritesWhole
<1>3. Len(rb_out) = rb_want - 1 /\ \A i \in 1..Len(rb_out) - 1 : rb_out[i] # "nl"
  BY <1>0, <1>1
<1>4. PosixReturn'
  BY <1>0, <1>3 DEF PosixReturn, Posix!ShortOnlyAtEof, Posix!LinesWhole, Posix!Newline
<1> QED
  BY <1>0, <1>2, <1>4 DEF PosixInv

\* Every step keeps the invariant, and sends or has bytes or does neither.
LEMMA PosixStep ==
    ASSUME Posix!WellFormed, PosixInv, [Posix!Next]_(Posix!vars)
    PROVE  PosixInv' /\ [Posix!Stream!Send \/ Posix!Stream!Receive]_<<rb_sent, rb_got>>
<1>1. CASE UNCHANGED Posix!vars
  BY <1>1 DEF Posix!vars, PosixInv, PosixTypes, PosixBytes, PosixCall, PosixReturn, Posix!WritesWhole,
              Posix!ShortOnlyAtEof, Posix!LinesWhole, Posix!AtEof
<1>2. CASE Posix!Read
  BY <1>2, PosixReadn, PosixRefill, PosixReadnb, PosixReadline, PosixFull DEF Posix!Read
<1>3. CASE \E o \in rb_ops : Posix!Call(o)
  BY <1>3, PosixBegin
<1>4. CASE Posix!WriteCall \/ Posix!WriteSome \/ Posix!Close
  BY <1>4, PosixWrite
<1> QED
  BY <1>1, <1>2, <1>3, <1>4 DEF Posix!Next

\* What it means.
LEMMA PosixMeans ==
    ASSUME Posix!WellFormed, PosixInv
    PROVE  Posix!TypeOK /\ Posix!WritesWhole /\ Posix!ShortOnlyAtEof /\ Posix!LinesWhole
BY DEF PosixInv, PosixTypes, PosixBytes, PosixReturn, Posix!TypeOK

----------------------------------------------------------------------------
(* The select servers.                                                     *)

\* A message is a length and a text.
Piece == Nat \X (1..2)
Msg(n) == <<<<n, 1>>, <<n, 2>>>>

\* No descriptor is below that of a client that is gone.
SelectTypes ==
    /\ sv_setup \in Setups
    /\ sv_srv \in {"select", "scan", "ended"} /\ sv_maxfd \in Nat /\ sv_id \in Nat
    /\ sv_fd \in [Clients -> Int] /\ \A c \in Clients : sv_fd[c] >= -1
    /\ sv_peer \in [Clients -> {"off", "up", "fin", "rst"}]
    /\ sv_sent \in [Clients -> Nat]
    /\ sv_chan \in [Clients -> Seq(Piece)]
    /\ sv_shown \in [Clients -> Seq(Nat)]

\* What is watched is known to be below maxfd, and, until the next client is
\* accepted, to be within the limit; what is still to be looked at is watched.
SelectWatch ==
    /\ sv_rtfds = {0} \cup {sv_fd[c] : c \in Select!Accepted}
    /\ \A c, d \in Select!Accepted : sv_fd[c] = sv_fd[d] => c = d
    /\ \A d \in sv_rtfds : d <= sv_maxfd /\ d <= Select!TopLimit + 1
    /\ sv_srv = "scan" /\ sv_id = 0 => \A d \in sv_rtfds : d <= Select!TopLimit
    /\ sv_srv = "scan" => \A d \in sv_rfds : d \in Int /\ (d >= sv_id => d \in sv_rtfds)

\* With a client that waits, one message at most is on its way.
ShownOf(c) ==
    sv_peer[c] # "rst" =>
        \/ sv_chan[c] \in {<<>>, Msg(0)} /\ sv_shown[c] = [n \in 1..sv_sent[c] |-> n]
        \/ /\ sv_sent[c] > 0 /\ sv_chan[c] = Msg(sv_sent[c])
           /\ sv_shown[c] = [n \in 1..(sv_sent[c] - 1) |-> n]

\* That holds where the clients wait.
SelectShown == Select!Paced => \A c \in Clients : ShownOf(c)

\* Together these are inductive.
SelectInv == SelectTypes /\ SelectWatch /\ SelectShown


\* A set of numbers has a least one.
LEMMA LeastOne ==
    ASSUME NEW T \in SUBSET Nat, T # {}
    PROVE  \E m \in T : \A x \in T : m <= x
<1> DEFINE Sets == {0..x : x \in T}
<1>1. Sets \subseteq FiniteSubsetsOf(Nat) /\ Sets # {}
  <2>1. ASSUME NEW x \in T PROVE 0..x \in FiniteSubsetsOf(Nat)
    <3>1. IsFiniteSet(0..x)
      BY FS_Interval
    <3>2. 0..x \in SUBSET Nat
      OBVIOUS
    <3> QED
      BY <3>1, <3>2 DEF FiniteSubsetsOf
  <2> QED
    BY <2>1
<1>2. PICK X \in Sets : \A Y \in Sets : <<Y, X>> \notin StrictSubsetOrdering(Nat)
  BY <1>1, FS_StrictSubsetOrderingWellFounded, WFMin
<1>3. PICK m \in T : X = 0..m
  OBVIOUS
<1>4. ASSUME NEW x \in T, x < m PROVE FALSE
  <2>1. 0..x \in SUBSET Nat /\ 0..m \in SUBSET Nat /\ 0..x \subseteq 0..m /\ m \in 0..m /\ m \notin 0..x
    BY <1>4
  <2>2. <<0..x, X>> \in StrictSubsetOrdering(Nat)
    BY <1>3, <2>1 DEF StrictSubsetOrdering
  <2> QED
    BY <1>2, <2>2
<1>5. \A x \in T : m <= x
  BY <1>4
<1> QED
  BY <1>5

\* A set of numbers that has a bound has a greatest one.
LEMMA GreatestOne ==
    ASSUME NEW S \in SUBSET Nat, S # {}, NEW n \in Nat, \A x \in S : x <= n
    PROVE  Select!Max(S) \in S /\ \A x \in S : Select!Max(S) >= x
<1> DEFINE T == {n - x : x \in S}
<1>1. T \in SUBSET Nat /\ T # {}
  <2>1. \A x \in S : n - x \in Nat
    OBVIOUS
  <2> QED
    BY <2>1
<1>2. PICK m \in T : \A x \in T : m <= x
  BY <1>1, LeastOne
<1>3. PICK g \in S : m = n - g
  OBVIOUS
<1>4. \A x \in S : g >= x
  <2>1. \A x \in S : n - x \in T
    OBVIOUS
  <2> HIDE DEF T
  <2>2. \A x \in S : n - g <= n - x
    BY <1>2, <1>3, <2>1
  <2> QED
    BY <2>2
<1>5. \E y \in S : \A x \in S : y >= x
  BY <1>4
<1> QED
  BY <1>5 DEF Select!Max

\* Of the clients there are finitely many.
LEMMA ClientsFinite ==
    ASSUME Select!WellFormed
    PROVE  /\ IsFiniteSet(Clients) /\ Cardinality(Clients) \in Nat
           /\ \A S : Select!Cardinality(S) = Cardinality(S)
<1>1. IsFiniteSet(Clients)
  BY DEF Select!WellFormed, Select!IsFiniteSet, IsFiniteSet
<1>2. \A S : Select!Cardinality(S) = Cardinality(S)
  BY DEF Select!Cardinality, Cardinality
<1> QED
  BY <1>1, <1>2, FS_CardinalityType

\* What is watched are numbers, and those of accepted clients are above that of
\* the listening descriptor.
LEMMA WatchedNumbers ==
    ASSUME SelectTypes, SelectWatch
    PROVE  /\ sv_rtfds \in SUBSET Nat /\ 0 \in sv_rtfds
           /\ \A c \in Clients : c \in Select!Accepted <=> sv_fd[c] > 0
           /\ \A d \in sv_rtfds : d # 0 => \E c \in Select!Accepted : sv_fd[c] = d
<1>1. \A c \in Clients : c \in Select!Accepted <=> sv_fd[c] > 0
  <2>1. \A c \in Clients : sv_fd[c] \in Int /\ sv_fd[c] >= -1
    BY DEF SelectTypes
  <2> QED
    BY <2>1 DEF Select!Accepted, Select!NotAccepted, Select!Closed
<1>2. Select!Accepted \subseteq Clients
  BY DEF Select!Accepted
<1>3. \A c \in Select!Accepted : sv_fd[c] \in Nat
  BY <1>1, <1>2 DEF SelectTypes
<1> QED
  BY <1>1, <1>2, <1>3 DEF SelectWatch

\* The highest of them is found, since none is above maxfd.
LEMMA WatchedHighest ==
    ASSUME SelectTypes, SelectWatch
    PROVE  Select!Watched \in sv_rtfds /\ \A d \in sv_rtfds : d <= Select!Watched
<1>1. {d \in sv_rtfds : d <= sv_maxfd} = sv_rtfds /\ sv_maxfd \in Nat
  BY DEF SelectTypes, SelectWatch
<1>2. sv_rtfds \in SUBSET Nat /\ sv_rtfds # {} /\ \A d \in sv_rtfds : d <= sv_maxfd
  BY WatchedNumbers DEF SelectWatch
<1>3. Select!Max(sv_rtfds) \in sv_rtfds /\ \A d \in sv_rtfds : Select!Max(sv_rtfds) >= d
  BY <1>1, <1>2, GreatestOne
<1>4. Select!Watched = Select!Max(sv_rtfds)
  BY <1>1 DEF Select!Watched
<1> QED
  BY <1>2, <1>3, <1>4

\* There is a free descriptor, and those below the lowest one are watched: there
\* are fewer clients than descriptors to choose from.
LEMMA FreeOne ==
    ASSUME Select!WellFormed, SelectTypes, SelectWatch
    PROVE  /\ Select!LowestFree \in Nat \ {0} /\ Select!LowestFree \notin sv_rtfds
           /\ \A e \in 1..(Select!LowestFree - 1) : e \in sv_rtfds
<1> DEFINE N == Cardinality(Clients)
           T == (1..(N + 1)) \ sv_rtfds
<1>1. N \in Nat /\ IsFiniteSet(Clients) /\ Select!Cardinality(Clients) = N
  BY ClientsFinite
<1> HIDE DEF N
<1>2. ASSUME T = {} PROVE FALSE
  <2> DEFINE g == [d \in 1..(N + 1) |-> CHOOSE c \in Select!Accepted : sv_fd[c] = d]
  <2>1. \A d \in 1..(N + 1) : \E c \in Select!Accepted : sv_fd[c] = d
    <3>1. \A d \in 1..(N + 1) : d \in sv_rtfds /\ d # 0
      BY <1>1, <1>2
    <3> QED
      BY <3>1, WatchedNumbers
  <2>2. \A d \in 1..(N + 1) : g[d] \in Clients /\ sv_fd[g[d]] = d
    BY <2>1 DEF Select!Accepted
  <2>3. g \in [1..(N + 1) -> Clients]
    BY <2>2
  <2> HIDE DEF g
  <2>4. IsFiniteSet(1..(N + 1)) /\ Cardinality(1..(N + 1)) = N + 1
    <3>1. 1 \in Int /\ N + 1 \in Int /\ ~(1 > N + 1)
      BY <1>1
    <3>2. IsFiniteSet(1..(N + 1)) /\ Cardinality(1..(N + 1)) = (N + 1) - 1 + 1
      BY <3>1, FS_Interval
    <3> QED
      BY <1>1, <3>2
  <2>5. Cardinality(Clients) < Cardinality(1..(N + 1))
    BY <1>1, <2>4 DEF N
  <2>6. \E x, y \in 1..(N + 1) : x # y /\ g[x] = g[y]
    BY <1>1, <2>3, <2>4, <2>5, FS_PigeonHole
  <2> QED
    BY <2>2, <2>6
<1>3. T \in SUBSET Nat
  BY <1>1
<1>4. PICK m \in T : \A x \in T : m <= x
  BY <1>2, <1>3, LeastOne
<1>5. \A e \in 1..(m - 1) : e \in sv_rtfds
  <2> SUFFICES ASSUME NEW e \in 1..(m - 1), e \notin sv_rtfds PROVE FALSE
    OBVIOUS
  <2>1. e \in T
    BY <1>1, <1>4
  <2> QED
    BY <1>3, <1>4, <2>1
<1>6. m \in 1..(Select!Cardinality(Clients) + 1) /\ m \notin sv_rtfds
  BY <1>1
<1>7. /\ Select!LowestFree \in 1..(N + 1) /\ Select!LowestFree \notin sv_rtfds
      /\ \A e \in 1..(Select!LowestFree - 1) : e \in sv_rtfds
  BY <1>1, <1>5, <1>6 DEF Select!LowestFree
<1> QED
  BY <1>1, <1>7

\* Numbers in a row, and one more.
LEMMA InARow ==
    ASSUME NEW k \in Nat, k > 0
    PROVE  /\ Append([n \in 1..(k - 1) |-> n], k) = [n \in 1..k |-> n]
<1> DEFINE s == [n \in 1..(k - 1) |-> n]
           t == [n \in 1..k |-> n]
           a == Append(s, k)
<1>1. s \in Seq(Nat) /\ Len(s) = k - 1 /\ \A i \in 1..(k - 1) : s[i] = i
  OBVIOUS
<1>2. t \in Seq(Nat) /\ Len(t) = k /\ \A i \in 1..k : t[i] = i
  OBVIOUS
<1> HIDE DEF s, t
<1>3. a \in Seq(Nat) /\ Len(a) = Len(s) + 1 /\ (\A i \in 1..Len(s) : a[i] = s[i]) /\ a[Len(s) + 1] = k
  BY <1>1, AppendProperties
<1> HIDE DEF a
<1>4. \A i \in 1..Len(a) : a[i] = t[i]
  BY <1>1, <1>2, <1>3
<1>5. a = t
  BY <1>1, <1>2, <1>3, <1>4, SeqEqual
<1> QED
  BY <1>5 DEF a, s, t

\* A message is two pieces.
LEMMA MsgPieces ==
    ASSUME NEW n \in Nat
    PROVE  /\ Msg(n) \in Seq(Piece) /\ Len(Msg(n)) = 2 /\ Msg(n) # <<>>
           /\ Msg(n)[1] = <<n, 1>> /\ Msg(n)[2] = <<n, 2>>
<1>1. <<n, 1>> \in Piece /\ <<n, 2>> \in Piece
  BY DEF Piece
<1> QED
  BY <1>1 DEF Msg

\* At first only the listening descriptor is watched, and nothing was sent.
LEMMA SelectStart == ASSUME Select!WellFormed, Select!Init PROVE SelectInv
<1>1. \A c \in Clients : sv_fd[c] = 0
  BY DEF Select!Init, Select!NotAccepted
<1>2. Select!Accepted = {}
  BY <1>1 DEF Select!Accepted, Select!NotAccepted
<1>3. SelectTypes
  <2>1. <<>> \in Seq(Piece) /\ <<>> \in Seq(Nat)
    BY EmptySeq
  <2> QED
    BY <2>1 DEF Select!Init, SelectTypes, Select!NotAccepted, Select!Listening
<1>4. Select!TopLimit \in Nat
  BY <1>3 DEF SelectTypes, Select!WellFormed, Select!TopLimit
<1>5. SelectWatch
  BY <1>2, <1>4 DEF Select!Init, SelectWatch, Select!Listening
<1>6. SelectShown
  <2>1. [n \in 1..0 |-> n] = <<>>
    OBVIOUS
  <2> QED
    BY <2>1 DEF Select!Init, SelectShown, ShownOf
<1> QED
  BY <1>3, <1>5, <1>6 DEF SelectInv

\* Clients connect, send and go.
LEMMA SelectClient ==
    ASSUME Select!WellFormed, SelectInv, NEW c \in Clients, Select!Client(c)
    PROVE  SelectInv'
<1>0. /\ UNCHANGED <<sv_setup, sv_srv, sv_rtfds, sv_rfds, sv_maxfd, sv_id, sv_fd, sv_shown>>
      /\ SelectTypes /\ SelectWatch /\ SelectShown
  BY DEF Select!Client, Select!Connect, Select!Send, Select!Finish, Select!Vanish, Select!Reset,
         Select!Server, SelectInv
<1>1. SelectWatch'
  BY <1>0 DEF SelectWatch, Select!Accepted, Select!TopLimit
<1>2. ASSUME SelectTypes', Select!Paced => \A b \in Clients : ShownOf(b)' PROVE SelectInv'
  BY <1>0, <1>1, <1>2 DEF SelectInv, SelectShown, Select!Paced
<1>3. ASSUME Select!Paced PROVE \A b \in Clients : ShownOf(b)
  BY <1>0, <1>3 DEF SelectShown
<1>4. CASE Select!Connect(c)
  <2>1. sv_peer' = [sv_peer EXCEPT ![c] = "up"] /\ sv_peer[c] = "off" /\ UNCHANGED <<sv_sent, sv_chan>>
    BY <1>4 DEF Select!Connect
  <2>2. SelectTypes'
    BY <1>0, <2>1 DEF SelectTypes
  <2>3. \A b \in Clients : sv_peer'[b] # "rst" => sv_peer[b] # "rst"
    BY <1>0, <2>1 DEF SelectTypes
  <2>4. Select!Paced => \A b \in Clients : ShownOf(b)'
    BY <1>0, <1>3, <2>1, <2>3 DEF ShownOf
  <2> QED
    BY <1>2, <2>2, <2>4
<1>5. CASE Select!Send(c)
  <2>1. /\ sv_sent' = [sv_sent EXCEPT ![c] = sv_sent[c] + 1] /\ UNCHANGED sv_peer
        /\ sv_chan' = [sv_chan EXCEPT ![c] = sv_chan[c] \o Msg(sv_sent[c] + 1)]
        /\ sv_peer[c] = "up" /\ (Select!Paced => sv_chan[c] = <<>>)
    BY <1>5 DEF Select!Send, Select!Write, Select!Slept, Msg
  <2>2. sv_sent[c] \in Nat /\ sv_chan[c] \in Seq(Piece) /\ sv_sent[c] + 1 \in Nat
    BY <1>0 DEF SelectTypes
  <2>3. Msg(sv_sent[c] + 1) \in Seq(Piece)
    BY <2>2, MsgPieces
  <2>4. sv_chan[c] \o Msg(sv_sent[c] + 1) \in Seq(Piece)
    BY <2>2, <2>3, ConcatProperties
  <2>5. SelectTypes'
    BY <1>0, <2>1, <2>2, <2>4 DEF SelectTypes
  <2>6. /\ sv_sent'[c] = sv_sent[c] + 1 /\ sv_chan'[c] = sv_chan[c] \o Msg(sv_sent[c] + 1)
        /\ \A b \in Clients : b # c => sv_sent'[b] = sv_sent[b] /\ sv_chan'[b] = sv_chan[b]
    BY <1>0, <2>1 DEF SelectTypes
  <2>7. ASSUME Select!Paced PROVE ShownOf(c)'
    <3>1. sv_chan'[c] = Msg(sv_sent'[c])
      <4>1. sv_chan'[c] = <<>> \o Msg(sv_sent[c] + 1)
        BY <2>1, <2>6, <2>7
      <4>2. <<>> \o Msg(sv_sent[c] + 1) = Msg(sv_sent[c] + 1)
        BY <2>3, ConcatEmptySeq
      <4> QED
        BY <2>6, <4>1, <4>2
    <3>2. sv_shown[c] = [n \in 1..sv_sent[c] |-> n]
      <4>1. sv_chan[c] # Msg(sv_sent[c])
        BY <2>1, <2>2, <2>7, MsgPieces
      <4> QED
        BY <1>3, <2>1, <2>7, <4>1 DEF ShownOf
    <3>3. sv_sent'[c] > 0 /\ sv_sent'[c] - 1 = sv_sent[c]
      BY <2>2, <2>6
    <3> QED
      BY <1>0, <3>1, <3>2, <3>3 DEF ShownOf
  <2>8. Select!Paced => \A b \in Clients : ShownOf(b)'
    BY <1>0, <1>3, <2>1, <2>6, <2>7 DEF ShownOf
  <2> QED
    BY <1>2, <2>5, <2>8
<1>6. CASE Select!Finish(c)
  <2>1. /\ sv_peer' = [sv_peer EXCEPT ![c] = "fin"] /\ UNCHANGED sv_sent
        /\ sv_chan' = [sv_chan EXCEPT ![c] = sv_chan[c] \o Msg(0)]
        /\ sv_peer[c] = "up" /\ (Select!Paced => sv_chan[c] = <<>>)
    BY <1>6 DEF Select!Finish, Select!Write, Select!Slept, Select!Final, Msg
  <2>2. sv_sent[c] \in Nat /\ sv_chan[c] \in Seq(Piece)
    BY <1>0 DEF SelectTypes
  <2>3. Msg(0) \in Seq(Piece)
    BY MsgPieces
  <2>4. sv_chan[c] \o Msg(0) \in Seq(Piece)
    BY <2>2, <2>3, ConcatProperties
  <2>5. SelectTypes'
    BY <1>0, <2>1, <2>4 DEF SelectTypes
  <2>6. /\ sv_peer'[c] = "fin" /\ sv_chan'[c] = sv_chan[c] \o Msg(0)
        /\ \A b \in Clients : b # c => sv_peer'[b] = sv_peer[b] /\ sv_chan'[b] = sv_chan[b]
    BY <1>0, <2>1 DEF SelectTypes
  <2>7. ASSUME Select!Paced PROVE ShownOf(c)'
    <3>1. sv_chan'[c] = Msg(0)
      <4>1. sv_chan'[c] = <<>> \o Msg(0)
        BY <2>1, <2>6, <2>7
      <4>2. <<>> \o Msg(0) = Msg(0)
        BY <2>3, ConcatEmptySeq
      <4> QED
        BY <4>1, <4>2
    <3>2. sv_shown[c] = [n \in 1..sv_sent[c] |-> n]
      <4>1. sv_chan[c] # Msg(sv_sent[c])
        BY <2>1, <2>2, <2>7, MsgPieces
      <4> QED
        BY <1>3, <2>1, <2>7, <4>1 DEF ShownOf
    <3> QED
      BY <1>0, <2>1, <3>1, <3>2 DEF ShownOf
  <2>8. Select!Paced => \A b \in Clients : ShownOf(b)'
    BY <1>0, <1>3, <2>1, <2>6, <2>7 DEF ShownOf
  <2> QED
    BY <1>2, <2>5, <2>8
<1>7. CASE Select!Vanish(c)
  <2>1. sv_peer' = [sv_peer EXCEPT ![c] = "fin"] /\ sv_peer[c] = "up" /\ UNCHANGED <<sv_sent, sv_chan>>
    BY <1>7 DEF Select!Vanish
  <2>2. SelectTypes'
    BY <1>0, <2>1 DEF SelectTypes
  <2>3. \A b \in Clients : sv_peer'[b] # "rst" => sv_peer[b] # "rst"
    BY <1>0, <2>1 DEF SelectTypes
  <2>4. Select!Paced => \A b \in Clients : ShownOf(b)'
    BY <1>0, <1>3, <2>1, <2>3 DEF ShownOf
  <2> QED
    BY <1>2, <2>2, <2>4
<1>8. CASE Select!Reset(c)
  <2>1. /\ sv_peer' = [sv_peer EXCEPT ![c] = "rst"] /\ sv_chan' = [sv_chan EXCEPT ![c] = <<>>]
        /\ UNCHANGED sv_sent
    BY <1>8 DEF Select!Reset
  <2>2. <<>> \in Seq(Piece)
    BY EmptySeq
  <2>3. SelectTypes'
    BY <1>0, <2>1, <2>2 DEF SelectTypes
  <2>4. sv_peer'[c] = "rst" /\ \A b \in Clients : b # c => sv_peer'[b] = sv_peer[b] /\ sv_chan'[b] = sv_chan[b]
    BY <1>0, <2>1 DEF SelectTypes
  <2>5. Select!Paced => \A b \in Clients : ShownOf(b)'
    BY <1>0, <1>3, <2>1, <2>4 DEF ShownOf
  <2> QED
    BY <1>2, <2>3, <2>5
<1> QED
  BY <1>4, <1>5, <1>6, <1>7, <1>8 DEF Select!Client

\* What is watched stays when the server goes on.
LEMMA SelectGoesOn ==
    ASSUME SelectTypes, SelectWatch, sv_srv = "scan", NEW last \in Nat, Select!Continue(last) \/ Select!Break,
           UNCHANGED <<sv_setup, sv_rfds, sv_fd, sv_rtfds, sv_maxfd>>
    PROVE  SelectWatch' /\ sv_srv' \in {"select", "scan"} /\ sv_id' \in Nat
<1>1. \/ sv_srv' = "select" /\ sv_id' = sv_id
      \/ sv_srv' = "scan" /\ sv_id' = sv_id + 1
  BY DEF Select!Continue, Select!Break
<1>2. sv_id \in Nat
  BY DEF SelectTypes
<1>3. Select!Accepted' = Select!Accepted /\ Select!TopLimit' = Select!TopLimit
  BY DEF Select!Accepted, Select!TopLimit
<1>4. ASSUME sv_srv' = "scan" PROVE sv_id' # 0 /\ \A d \in sv_rfds : d \in Int /\ (d >= sv_id' => d >= sv_id)
  BY <1>1, <1>2, <1>4 DEF SelectWatch
<1> QED
  BY <1>1, <1>2, <1>3, <1>4 DEF SelectWatch

\* select, and the search for the highest descriptor.
LEMMA SelectSelect ==
    ASSUME Select!WellFormed, SelectInv, Select!Select
    PROVE  SelectInv'
<1>0. /\ UNCHANGED <<sv_setup, sv_rtfds, sv_fd, sv_peer, sv_sent, sv_chan, sv_shown>>
      /\ SelectTypes /\ SelectWatch /\ SelectShown
  BY DEF Select!Select, SelectInv
<1>1. SelectShown'
  BY <1>0 DEF SelectShown, ShownOf, Select!Paced
<1>2. Select!Accepted' = Select!Accepted /\ Select!TopLimit' = Select!TopLimit
  BY <1>0 DEF Select!Accepted, Select!TopLimit
<1>3. CASE Select!OverLimit
  <2>1. sv_srv' = "ended" /\ UNCHANGED <<sv_rfds, sv_maxfd, sv_id>>
    BY <1>3 DEF Select!Select
  <2> QED
    BY <1>0, <1>1, <1>2, <2>1 DEF SelectInv, SelectTypes, SelectWatch
<1>4. CASE ~Select!OverLimit
  <2>1. /\ sv_rfds' \subseteq sv_rtfds /\ sv_maxfd' = Select!Watched /\ sv_id' = 0 /\ sv_srv' = "scan"
    BY <1>4 DEF Select!Select
  <2>2. Select!Watched \in sv_rtfds /\ \A d \in sv_rtfds : d <= Select!Watched
    BY <1>0, WatchedHighest
  <2>3. sv_rtfds \in SUBSET Nat
    BY <1>0, WatchedNumbers
  <2>4. Select!TopLimit \in Nat
    BY <1>0 DEF SelectTypes, Select!WellFormed, Select!TopLimit
  <2>5. Select!Watched <= Select!TopLimit
    BY <1>4, <2>2, <2>3, <2>4 DEF Select!OverLimit
  <2>6. \A d \in sv_rtfds : d <= Select!TopLimit
    BY <2>2, <2>3, <2>4, <2>5
  <2>7. SelectTypes'
    BY <1>0, <2>1, <2>2, <2>3 DEF SelectTypes
  <2>8. SelectWatch'
    <3>1. \A d \in sv_rfds' : d \in Int /\ d \in sv_rtfds
      BY <2>1, <2>3
    <3> QED
      BY <1>0, <1>2, <2>1, <2>2, <2>6, <3>1 DEF SelectWatch
  <2> QED
    BY <1>1, <2>7, <2>8 DEF SelectInv
<1> QED
  BY <1>3, <1>4

\* A descriptor that is not ready is passed over.
LEMMA SelectSkip ==
    ASSUME Select!WellFormed, SelectInv, Select!Skip
    PROVE  SelectInv'
<1>0. /\ UNCHANGED <<sv_setup, sv_rtfds, sv_rfds, sv_maxfd, sv_fd, sv_peer, sv_sent, sv_chan, sv_shown>>
      /\ SelectTypes /\ SelectWatch /\ SelectShown /\ sv_srv = "scan" /\ Select!Continue(sv_maxfd)
      /\ sv_maxfd \in Nat
  BY DEF Select!Skip, SelectInv, SelectTypes
<1>1. SelectWatch' /\ sv_srv' \in {"select", "scan"} /\ sv_id' \in Nat
  BY <1>0, SelectGoesOn
<1> QED
  BY <1>0, <1>1 DEF SelectInv, SelectTypes, SelectShown, ShownOf, Select!Paced

\* A client that is accepted has the lowest free descriptor: until then all were
\* within the limit, so this one is at most one above it.
LEMMA SelectAccept ==
    ASSUME Select!WellFormed, SelectInv, Select!Accept
    PROVE  SelectInv'
<1>0. /\ UNCHANGED <<sv_setup, sv_rfds, sv_peer, sv_sent, sv_chan, sv_shown>>
      /\ SelectTypes /\ SelectWatch /\ SelectShown /\ sv_srv = "scan" /\ sv_id = 0
      /\ Select!Continue(sv_maxfd')
  BY DEF Select!Accept, Select!Listening, SelectInv
<1>1. SelectShown'
  BY <1>0 DEF SelectShown, ShownOf, Select!Paced
<1>2. /\ sv_maxfd \in Nat /\ sv_fd \in [Clients -> Int]
      /\ sv_srv' \in {"select", "scan"} /\ sv_id' \in {0, 1} /\ (sv_srv' = "scan" => sv_id' = 1)
      /\ Select!TopLimit' = Select!TopLimit /\ Select!TopLimit \in Nat
  BY <1>0 DEF SelectTypes, Select!Continue, Select!TopLimit, Select!WellFormed
<1>3. /\ sv_rtfds \in SUBSET Nat /\ \A b \in Clients : b \in Select!Accepted <=> sv_fd[b] > 0
      /\ Select!Accepted \subseteq Clients
  BY <1>0, WatchedNumbers DEF Select!Accepted
<1>4. \A e \in sv_rfds' : e \in Int /\ (e >= 1 => e \in sv_rtfds)
  BY <1>0 DEF SelectWatch
<1>5. ASSUME NEW c \in Select!Backlog, sv_fd' = [sv_fd EXCEPT ![c] = Select!LowestFree],
             sv_rtfds' = sv_rtfds \cup {Select!LowestFree}, sv_maxfd' = Select!Raised(Select!LowestFree)
      PROVE  SelectInv'
  <2> DEFINE d == Select!LowestFree
  <2>1. d \in Nat \ {0} /\ d \notin sv_rtfds /\ \A e \in 1..(d - 1) : e \in sv_rtfds
    BY <1>0, FreeOne
  <2>2. sv_fd' = [sv_fd EXCEPT ![c] = d] /\ sv_rtfds' = sv_rtfds \cup {d}
    BY <1>5
  <2>3. sv_maxfd' \in Nat /\ sv_maxfd' >= d /\ sv_maxfd' >= sv_maxfd
    <3>1. {sv_maxfd, d} \in SUBSET Nat /\ {sv_maxfd, d} # {} /\ sv_maxfd + d \in Nat
          /\ \A x \in {sv_maxfd, d} : x <= sv_maxfd + d
      BY <1>2, <2>1
    <3>2. Select!Max({sv_maxfd, d}) \in {sv_maxfd, d} /\ \A x \in {sv_maxfd, d} : Select!Max({sv_maxfd, d}) >= x
      BY <3>1, GreatestOne
    <3>3. sv_maxfd' = Select!Max({sv_maxfd, d})
      BY <1>5 DEF Select!Raised
    <3> QED
      BY <1>2, <2>1, <3>2, <3>3
  <2> HIDE DEF d
  <2>4. c \in Clients /\ sv_fd[c] = 0
    BY DEF Select!Backlog, Select!NotAccepted
  <2>5. sv_fd'[c] = d /\ \A b \in Clients : b # c => sv_fd'[b] = sv_fd[b]
    BY <1>2, <2>2, <2>4
  <2>6. Select!Accepted' = Select!Accepted \cup {c} /\ c \notin Select!Accepted
    BY <1>3, <2>1, <2>4, <2>5 DEF Select!Accepted, Select!NotAccepted, Select!Closed
  <2>7. SelectTypes'
    <3>0. d \in Int /\ d >= -1 /\ \A b \in Clients : sv_fd[b] \in Int /\ sv_fd[b] >= -1
      BY <1>0, <2>1 DEF SelectTypes
    <3>1. sv_fd' \in [Clients -> Int]
      BY ONLY <1>2, <2>2, <3>0
    <3>2. \A b \in Clients : sv_fd'[b] >= -1
      BY ONLY <2>5, <3>0
    <3> QED
      BY <1>0, <1>2, <2>3, <3>1, <3>2 DEF SelectTypes
  <2>8. sv_rtfds' = {0} \cup {sv_fd'[b] : b \in Select!Accepted'}
    <3>1. {sv_fd'[b] : b \in Select!Accepted'} = {sv_fd[b] : b \in Select!Accepted} \cup {d}
      BY <1>3, <2>5, <2>6
    <3>2. sv_rtfds = {0} \cup {sv_fd[b] : b \in Select!Accepted}
      BY <1>0 DEF SelectWatch
    <3> QED
      BY <2>2, <3>1, <3>2
  <2>9. \A a, b \in Select!Accepted' : sv_fd'[a] = sv_fd'[b] => a = b
    <3>1. \A b \in Select!Accepted : sv_fd'[b] = sv_fd[b] /\ sv_fd[b] # d
      <4>1. \A b \in Select!Accepted : sv_fd[b] \in sv_rtfds
        BY <1>0 DEF SelectWatch
      <4> QED
        BY <1>3, <2>1, <2>5, <2>6, <4>1
    <3>2. \A a, b \in Select!Accepted : sv_fd[a] = sv_fd[b] => a = b
      BY <1>0 DEF SelectWatch
    <3> QED
      BY <2>5, <2>6, <3>1, <3>2
  <2>10. \A e \in sv_rtfds' : e <= sv_maxfd' /\ e <= Select!TopLimit + 1
    <3>1. \A e \in sv_rtfds : e <= sv_maxfd /\ e <= Select!TopLimit
      BY <1>0 DEF SelectWatch
    <3>2. d <= Select!TopLimit + 1
      <4>1. CASE d = 1
        BY <1>2, <4>1
      <4>2. CASE d > 1
        <5>1. d - 1 \in 1..(d - 1)
          BY <2>1, <4>2
        <5>2. d - 1 <= Select!TopLimit
          BY <2>1, <3>1, <5>1
        <5> QED
          BY <1>2, <2>1, <5>2
      <4> QED
        BY <2>1, <4>1, <4>2
    <3>3. \A e \in sv_rtfds : e <= sv_maxfd' /\ e <= Select!TopLimit + 1
      BY <1>2, <1>3, <2>3, <3>1
    <3> QED
      BY <2>2, <2>3, <3>2, <3>3
  <2>11. SelectWatch'
    BY <1>2, <1>4, <2>2, <2>8, <2>9, <2>10 DEF SelectWatch
  <2> QED
    BY <1>1, <2>7, <2>11 DEF SelectInv
<1>6. CASE Select!Reject
  <2>1. UNCHANGED <<sv_rtfds, sv_maxfd>>
    BY <1>6 DEF Select!Reject
  <2>2. /\ sv_fd' \in [Clients -> Int] /\ \A b \in Clients : sv_fd'[b] >= -1
        /\ \A b \in Clients : sv_fd'[b] = sv_fd[b] \/ (sv_fd[b] = 0 /\ sv_fd'[b] = -1)
    <3>1. CASE UNCHANGED sv_fd
      BY <1>0, <3>1 DEF SelectTypes
    <3>2. CASE \E c \in Select!Backlog : sv_fd' = [sv_fd EXCEPT ![c] = Select!Closed]
      <4>1. PICK c \in Select!Backlog : sv_fd' = [sv_fd EXCEPT ![c] = -1]
        BY <3>2 DEF Select!Closed
      <4>2. c \in Clients /\ sv_fd[c] = 0
        BY DEF Select!Backlog, Select!NotAccepted
      <4> QED
        BY <1>0, <4>1, <4>2 DEF SelectTypes
    <3> QED
      BY <1>6, <3>1, <3>2 DEF Select!Reject
  <2>3. Select!Accepted' = Select!Accepted /\ \A b \in Select!Accepted : sv_fd'[b] = sv_fd[b]
    BY <2>2 DEF Select!Accepted, Select!NotAccepted, Select!Closed
  <2>4. {sv_fd'[b] : b \in Select!Accepted'} = {sv_fd[b] : b \in Select!Accepted}
    BY <2>3
  <2>5. SelectTypes'
    BY <1>0, <1>2, <2>1, <2>2 DEF SelectTypes
  <2>6. SelectWatch'
    BY <1>0, <1>2, <1>4, <2>1, <2>3, <2>4 DEF SelectWatch
  <2> QED
    BY <1>1, <2>5, <2>6 DEF SelectInv
<1> QED
  BY <1>5, <1>6 DEF Select!Accept

\* What is received: a client's message is printed, or its descriptor closed.
LEMMA SelectReceive ==
    ASSUME Select!WellFormed, SelectInv, sv_srv = "scan", NEW c \in Select!Accepted, sv_fd[c] = sv_id,
           Select!Receive(c), UNCHANGED <<sv_setup, sv_rfds, sv_maxfd, sv_peer, sv_sent>>
    PROVE  SelectInv'
<1>0. SelectTypes /\ SelectWatch /\ SelectShown /\ c \in Clients /\ sv_maxfd \in Nat
  BY DEF SelectInv, SelectTypes, Select!Accepted
<1>1. PICK k \in Select!Chunks(c) :
        LET s == SubSeq(sv_chan[c], 1, k) IN
        /\ sv_chan' = [sv_chan EXCEPT ![c] = SubSeq(sv_chan[c], k + 1, Len(sv_chan[c]))]
        /\ IF Select!Whole(s) /\ s[1][1] = Select!Final
           THEN Select!Done(c) /\ Select!Leave /\ UNCHANGED sv_shown
           ELSE /\ sv_shown' = IF Select!Whole(s) THEN [sv_shown EXCEPT ![c] = Append(@, s[1][1])]
                               ELSE sv_shown
                /\ Select!Continue(sv_maxfd)
                /\ UNCHANGED <<sv_fd, sv_rtfds>>
  BY DEF Select!Receive
<1> DEFINE s == SubSeq(sv_chan[c], 1, k)
           r == SubSeq(sv_chan[c], k + 1, Len(sv_chan[c]))
           Last == Select!Whole(s) /\ s[1][1] = 0
<1>2. /\ sv_chan[c] \in Seq(Piece) /\ Len(sv_chan[c]) \in Nat /\ k \in 0..Len(sv_chan[c])
      /\ (Select!Paced => k = Len(sv_chan[c]))
  <2>1. sv_chan[c] \in Seq(Piece)
    BY <1>0 DEF SelectTypes
  <2>2. Len(sv_chan[c]) \in Nat
    BY <2>1, LenProperties
  <2> QED
    BY <2>1, <2>2 DEF Select!Chunks
<1>3. s \in Seq(Piece) /\ r \in Seq(Piece) /\ Len(r) = Len(sv_chan[c]) - k
  BY <1>2, BytesCut
<1>4. sv_chan' = [sv_chan EXCEPT ![c] = r]
  BY <1>1
<1>5. IF Last THEN Select!Done(c) /\ Select!Leave /\ UNCHANGED sv_shown
      ELSE /\ sv_shown' = IF Select!Whole(s) THEN [sv_shown EXCEPT ![c] = Append(@, s[1][1])] ELSE sv_shown
           /\ Select!Continue(sv_maxfd) /\ UNCHANGED <<sv_fd, sv_rtfds>>
  BY <1>1 DEF Select!Final
<1>6. sv_chan'[c] = r /\ \A b \in Clients : b # c => sv_chan'[b] = sv_chan[b]
  BY <1>0, <1>4 DEF SelectTypes
<1>7. Select!Whole(s) => s[1][1] \in Nat
  <2>1. Len(s) \in Nat
    BY <1>3, LenProperties
  <2>2. ASSUME Select!Whole(s) PROVE s[1] \in Piece
    <3>0. Len(s) >= 2
      BY <2>2, Zenon DEF Select!Whole
    <3>1. 1 \in 1..Len(s)
      <4>1. \A n \in Nat : n >= 2 => 1 \in 1..n
        OBVIOUS
      <4> QED
        BY <2>1, <3>0, <4>1, Zenon
    <3> QED
      BY <1>3, <3>1, ElementOfSeq
  <2> QED
    BY <2>2 DEF Piece
<1>8. Select!Paced => r = <<>> /\ s = sv_chan[c]
  <2>1. ASSUME Select!Paced PROVE Len(r) = 0 /\ s = sv_chan[c]
    BY <1>2, <1>3, <2>1, SubSeqFull
  <2> QED
    BY <1>3, <2>1, EmptySeq
<1> HIDE DEF s, r
<1>9. sv_chan' \in [Clients -> Seq(Piece)]
  BY <1>0, <1>3, <1>4 DEF SelectTypes
<1>10. CASE Last
  <2>1. sv_fd' = [sv_fd EXCEPT ![c] = -1] /\ sv_rtfds' = sv_rtfds \ {sv_id} /\ UNCHANGED sv_shown
    BY <1>5, <1>10 DEF Select!Done, Select!Closed, Select!Unwatched
  <2>2. \/ sv_srv' = "select" /\ sv_id' = sv_id
        \/ sv_srv' = "scan" /\ sv_id' = sv_id + 1
    BY <1>5, <1>10 DEF Select!Leave, Select!Break, Select!Continue
  <2>3. sv_id \in Nat /\ sv_fd \in [Clients -> Int]
    BY <1>0 DEF SelectTypes
  <2>4. sv_fd'[c] = -1 /\ \A b \in Clients : b # c => sv_fd'[b] = sv_fd[b]
    BY <1>0, <2>1, <2>3
  <2>5. Select!Accepted' = Select!Accepted \ {c}
    BY <1>0, <2>4 DEF Select!Accepted, Select!NotAccepted, Select!Closed
  <2>6. Select!TopLimit' = Select!TopLimit
    BY DEF Select!TopLimit
  <2>7. SelectTypes'
    <3>0. \A b \in Clients : sv_fd[b] \in Int /\ sv_fd[b] >= -1
      BY <1>0 DEF SelectTypes
    <3>1. sv_fd' \in [Clients -> Int]
      <4>1. \A e \in Int : [sv_fd EXCEPT ![c] = e] \in [Clients -> Int]
        BY ONLY <2>3
      <4>2. -1 \in Int
        OBVIOUS
      <4> QED
        BY <2>1, <4>1, <4>2
    <3>2. \A b \in Clients : sv_fd'[b] >= -1
      BY ONLY <2>4, <3>0
    <3> QED
      BY <1>0, <1>9, <2>1, <2>2, <2>3, <3>1, <3>2 DEF SelectTypes
  <2>8. \A a, b \in Select!Accepted : sv_fd[a] = sv_fd[b] => a = b
    BY <1>0 DEF SelectWatch
  <2>9. sv_rtfds' = {0} \cup {sv_fd'[b] : b \in Select!Accepted'}
    <3>1. \A b \in Select!Accepted' : sv_fd'[b] = sv_fd[b] /\ sv_fd[b] # sv_id
      BY <2>4, <2>5, <2>8 DEF Select!Accepted
    <3>2. {sv_fd'[b] : b \in Select!Accepted'} = {sv_fd[b] : b \in Select!Accepted} \ {sv_id}
      BY <2>5, <3>1
    <3>3. sv_id # 0
      BY DEF Select!Accepted, Select!NotAccepted
    <3>4. sv_rtfds = {0} \cup {sv_fd[b] : b \in Select!Accepted}
      BY <1>0 DEF SelectWatch
    <3> QED
      BY <2>1, <3>2, <3>3, <3>4
  <2>10. \A a, b \in Select!Accepted' : sv_fd'[a] = sv_fd'[b] => a = b
    BY <2>4, <2>5, <2>8 DEF Select!Accepted
  <2>11. ASSUME sv_srv' = "scan"
         PROVE  sv_id' # 0 /\ \A d \in sv_rfds : d \in Int /\ (d >= sv_id' => d >= sv_id /\ d # sv_id)
    BY <1>0, <2>2, <2>3, <2>11 DEF SelectWatch
  <2>12. SelectWatch'
    BY <1>0, <2>1, <2>6, <2>9, <2>10, <2>11 DEF SelectWatch
  <2>13. SelectShown'
    <3> SUFFICES ASSUME Select!Paced, NEW b \in Clients PROVE ShownOf(b)'
      BY DEF SelectShown, Select!Paced
    <3>1. ShownOf(b)
      BY <1>0 DEF SelectShown
    <3>2. CASE b # c
      BY <1>6, <2>1, <3>1, <3>2 DEF ShownOf
    <3>3. CASE b = c
      <4>1. sv_chan'[c] = <<>> /\ Last
        BY <1>6, <1>8, <1>10
      <4>2. sv_sent[c] \in Nat
        BY <1>0 DEF SelectTypes
      <4>3. sv_sent[c] > 0 => sv_chan[c] # Msg(sv_sent[c])
        <5>1. s[1][1] = 0 /\ s = sv_chan[c]
          BY <1>8, <1>10
        <5> QED
          BY <4>2, <5>1, MsgPieces
      <4> QED
        BY <2>1, <3>1, <3>3, <4>1, <4>3 DEF ShownOf
    <3> QED
      BY <3>2, <3>3
  <2> QED
    BY <2>7, <2>12, <2>13 DEF SelectInv
<1>11. CASE ~Last
  <2>1. /\ Select!Continue(sv_maxfd) /\ UNCHANGED <<sv_fd, sv_rtfds>>
        /\ sv_shown' = IF Select!Whole(s) THEN [sv_shown EXCEPT ![c] = Append(@, s[1][1])] ELSE sv_shown
    BY <1>5, <1>11
  <2>2. SelectWatch' /\ sv_srv' \in {"select", "scan"} /\ sv_id' \in Nat
    BY <1>0, <2>1, SelectGoesOn
  <2>3. sv_shown' \in [Clients -> Seq(Nat)]
    <3>1. sv_shown[c] \in Seq(Nat) /\ sv_shown \in [Clients -> Seq(Nat)]
      BY <1>0 DEF SelectTypes
    <3>2. CASE Select!Whole(s)
      <4>1. Append(sv_shown[c], s[1][1]) \in Seq(Nat)
        BY <1>7, <3>1, <3>2, AppendProperties
      <4>2. sv_shown' = [sv_shown EXCEPT ![c] = Append(sv_shown[c], s[1][1])]
        BY <2>1, <3>2
      <4> QED
        BY <3>1, <4>1, <4>2
    <3>3. CASE ~Select!Whole(s)
      BY <2>1, <3>1, <3>3
    <3> QED
      BY <3>2, <3>3
  <2>4. SelectTypes'
    BY <1>0, <1>9, <2>1, <2>2, <2>3 DEF SelectTypes
  <2>5. SelectShown'
    <3> SUFFICES ASSUME Select!Paced, NEW b \in Clients PROVE ShownOf(b)'
      BY DEF SelectShown, Select!Paced
    <3>1. ShownOf(b)
      BY <1>0 DEF SelectShown
    <3>2. CASE b # c
      <4>1. sv_shown'[b] = sv_shown[b]
        BY <1>0, <2>1, <3>2 DEF SelectTypes
      <4> QED
        BY <1>6, <3>1, <3>2, <4>1 DEF ShownOf
    <3>3. CASE b = c /\ sv_peer[c] # "rst"
      <4>1. sv_chan'[c] = <<>> /\ s = sv_chan[c]
        BY <1>6, <1>8
      <4>2. sv_sent[c] \in Nat /\ sv_sent'[c] = sv_sent[c]
        BY <1>0 DEF SelectTypes
      <4>3. CASE sv_chan[c] = <<>> /\ sv_shown[c] = [n \in 1..sv_sent[c] |-> n]
        <5>1. ~Select!Whole(s)
          BY <4>1, <4>3, EmptySeq DEF Select!Whole
        <5>2. sv_shown' = sv_shown
          BY <2>1, <5>1
        <5> QED
          BY <3>3, <4>1, <4>2, <4>3, <5>2 DEF ShownOf
      <4>4. CASE sv_chan[c] = Msg(0)
        <5>1. Last
          BY <4>1, <4>4, MsgPieces DEF Select!Whole
        <5> QED
          BY <1>11, <5>1
      <4>5. CASE /\ sv_sent[c] > 0 /\ sv_chan[c] = Msg(sv_sent[c])
                 /\ sv_shown[c] = [n \in 1..(sv_sent[c] - 1) |-> n]
        <5>1. Select!Whole(s) /\ s[1][1] = sv_sent[c]
          BY <4>1, <4>2, <4>5, MsgPieces DEF Select!Whole
        <5>2. sv_shown' = [sv_shown EXCEPT ![c] = Append(sv_shown[c], sv_sent[c])]
          BY <2>1, <5>1
        <5>3. sv_shown'[c] = Append(sv_shown[c], sv_sent[c])
          BY <1>0, <5>2 DEF SelectTypes
        <5>4. Append([n \in 1..(sv_sent[c] - 1) |-> n], sv_sent[c]) = [n \in 1..sv_sent[c] |-> n]
          BY <4>2, <4>5, InARow
        <5>5. sv_shown'[c] = [n \in 1..sv_sent[c] |-> n]
          BY <4>5, <5>3, <5>4
        <5> QED
          BY <3>3, <4>1, <4>2, <5>5 DEF ShownOf
      <4> QED
        BY <3>1, <3>3, <4>3, <4>4, <4>5 DEF ShownOf
    <3>4. CASE b = c /\ sv_peer[c] = "rst"
      BY <3>4 DEF ShownOf
    <3> QED
      BY <3>2, <3>3, <3>4
  <2> QED
    BY <2>2, <2>4, <2>5 DEF SelectInv
<1> QED
  BY <1>10, <1>11

\* A descriptor that is ready and is not the listening one is a client's.
LEMMA SelectRecv ==
    ASSUME Select!WellFormed, SelectInv, Select!Recv
    PROVE  SelectInv'
<1> DEFINE c == Select!Speaker
<1>0. /\ UNCHANGED <<sv_setup, sv_rfds, sv_maxfd, sv_peer, sv_sent>>
      /\ SelectTypes /\ SelectWatch /\ SelectShown /\ sv_srv = "scan" /\ sv_id \in sv_rfds /\ sv_id # 0
      /\ sv_maxfd \in Nat /\ sv_id \in Nat
  BY DEF Select!Recv, Select!Listening, SelectInv, SelectTypes
<1>1. c \in Select!Accepted /\ sv_fd[c] = sv_id
  <2>1. sv_id \in sv_rtfds
    BY <1>0 DEF SelectWatch
  <2>2. \E b \in Clients : sv_fd[b] = sv_id
    BY <1>0, <2>1, WatchedNumbers DEF Select!Accepted
  <2>3. c \in Clients /\ sv_fd[c] = sv_id
    BY <2>2 DEF Select!Speaker
  <2> QED
    BY <1>0, <2>3, WatchedNumbers
<1>2. \/ Select!FromReset
      \/ Select!Receive(c)
      \/ Select!Leave /\ UNCHANGED <<sv_fd, sv_rtfds, sv_chan, sv_shown>>
  BY DEF Select!Recv
<1> HIDE DEF c
<1>3. ASSUME UNCHANGED <<sv_fd, sv_rtfds, sv_chan, sv_shown>>,
             \/ sv_srv' = "ended" /\ UNCHANGED sv_id
             \/ Select!Continue(sv_maxfd) \/ Select!Break
      PROVE  SelectInv'
  <2>1. SelectShown'
    BY <1>0, <1>3 DEF SelectShown, ShownOf, Select!Paced
  <2>2. CASE sv_srv' = "ended" /\ UNCHANGED sv_id
    BY <1>0, <1>3, <2>1, <2>2 DEF SelectInv, SelectTypes, SelectWatch, Select!Accepted, Select!TopLimit
  <2>3. CASE Select!Continue(sv_maxfd) \/ Select!Break
    <3>1. SelectWatch' /\ sv_srv' \in {"select", "scan"} /\ sv_id' \in Nat
      BY <1>0, <1>3, <2>3, SelectGoesOn
    <3> QED
      BY <1>0, <1>3, <2>1, <3>1 DEF SelectInv, SelectTypes
  <2> QED
    BY <1>3, <2>2, <2>3
<1>4. CASE Select!FromReset
  BY <1>3, <1>4 DEF Select!FromReset
<1>5. CASE Select!Receive(c)
  BY <1>0, <1>1, <1>5, SelectReceive
<1>6. CASE Select!Leave /\ UNCHANGED <<sv_fd, sv_rtfds, sv_chan, sv_shown>>
  BY <1>3, <1>6 DEF Select!Leave
<1> QED
  BY <1>2, <1>4, <1>5, <1>6

\* Every step keeps it.
LEMMA SelectStep ==
    ASSUME Select!WellFormed, SelectInv, [Select!Next]_(Select!vars)
    PROVE  SelectInv'
<1>1. CASE UNCHANGED Select!vars
  BY <1>1 DEF Select!vars, SelectInv, SelectTypes, SelectWatch, SelectShown, ShownOf, Select!Accepted,
              Select!TopLimit, Select!Paced
<1>2. CASE Select!Serve
  BY <1>2, SelectSelect, SelectSkip, SelectAccept, SelectRecv DEF Select!Serve
<1>3. CASE \E c \in Clients : Select!Client(c)
  BY <1>3, SelectClient
<1> QED
  BY <1>1, <1>2, <1>3 DEF Select!Next

\* What it means: the descriptors are within the limit, and with clients that wait
\* all that is not on its way has been printed.
LEMMA SelectMeans ==
    ASSUME Select!WellFormed, SelectInv
    PROVE  Select!TypeOK /\ Select!FdsInRange /\ Select!AllShown
<1>1. Select!TypeOK /\ Select!FdsInRange
  BY DEF SelectInv, SelectTypes, SelectWatch, Select!TypeOK, Select!FdsInRange, Select!Listening
<1>2. ASSUME Select!Paced, NEW c \in Clients, sv_peer[c] # "rst"
      PROVE  LET pending == {sv_chan[c][i][1] : i \in DOMAIN sv_chan[c]} \ {Select!Final} IN
             sv_shown[c] = [n \in 1..(sv_sent[c] - Select!Cardinality(pending)) |-> n]
  <2> DEFINE pending == {sv_chan[c][i][1] : i \in DOMAIN sv_chan[c]} \ {0}
  <2>1. ShownOf(c) /\ sv_sent[c] \in Nat
    BY <1>2 DEF SelectInv, SelectShown, SelectTypes
  <2>2. Select!Cardinality(pending) = Cardinality(pending)
    BY ClientsFinite
  <2>3. ASSUME NEW n \in Nat, sv_chan[c] = Msg(n) PROVE pending = {n} \ {0}
    BY <2>3 DEF Msg
  <2>4. sv_chan[c] = <<>> => pending = {}
    OBVIOUS
  <2> HIDE DEF pending
  <2>5. CASE sv_chan[c] \in {<<>>, Msg(0)} /\ sv_shown[c] = [n \in 1..sv_sent[c] |-> n]
    <3>1. pending = {}
      BY <2>3, <2>4, <2>5
    <3>2. sv_sent[c] - Select!Cardinality(pending) = sv_sent[c]
      BY <2>1, <2>2, <3>1, FS_EmptySet
    <3> QED
      BY <2>5, <3>2 DEF pending, Select!Final
  <2>6. CASE /\ sv_sent[c] > 0 /\ sv_chan[c] = Msg(sv_sent[c])
             /\ sv_shown[c] = [n \in 1..(sv_sent[c] - 1) |-> n]
    <3>1. pending = {sv_sent[c]}
      BY <2>1, <2>3, <2>6
    <3>2. Cardinality(pending) = 1
      BY <3>1, FS_Singleton
    <3> QED
      BY <2>2, <2>6, <3>2 DEF pending, Select!Final
  <2> QED
    BY <1>2, <2>1, <2>5, <2>6 DEF ShownOf
<1>3. Select!AllShown
  BY <1>2 DEF Select!AllShown
<1> QED
  BY <1>1, <1>3

----------------------------------------------------------------------------
(* Programs that get a socket.                                             *)

\* A program that closes what it opened has no socket before its first call, and
\* the one it works on after that.
SocketInv ==
    /\ ep_prog \in Socket!AllPrograms
    /\ ep_pc \in 1..Len(ep_prog.calls)
    /\ ep_out \in {"running", "ok", "failed"}
    /\ ep_prog.closes =>
          /\ ep_open \subseteq {ep_sock}
          /\ ep_pc = 1 \/ ep_out = "failed" => ep_open = {}
          /\ ep_out = "ok" => ep_open = {ep_sock}

\* Every program makes its socket first, and once.
LEMMA SocketCalls ==
    ASSUME NEW p \in Socket!AllPrograms
    PROVE  /\ Len(p.calls) \in Nat /\ Len(p.calls) > 1
           /\ \A i \in 1..Len(p.calls) : p.calls[i] = "socket" <=> i = 1
           /\ p.closes \in BOOLEAN /\ p.each \in BOOLEAN
<1> DEFINE Right(q) == /\ Len(q.calls) \in Nat /\ Len(q.calls) > 1
                       /\ \A i \in 1..Len(q.calls) : q.calls[i] = "socket" <=> i = 1
                       /\ q.closes \in BOOLEAN /\ q.each \in BOOLEAN
<1>1. Right(Socket!TalkServer)
  BY DEF Socket!TalkServer
<1>2. Right(Socket!TextServer)
  BY DEF Socket!TextServer, Socket!TalkServer
<1>3. Right(Socket!TalkClient) /\ Right(Socket!TextClient)
  BY DEF Socket!TalkClient, Socket!TextClient
<1>4. Right(Socket!SocketServer) /\ Right(Socket!SocketClient)
  BY DEF Socket!SocketServer, Socket!SocketClient
<1>5. Right(Socket!PeekServer)
  BY DEF Socket!PeekServer
<1>6. Right(Socket!PeekClient)
  BY DEF Socket!PeekClient, Socket!SocketClient
<1>7. Right(Socket!OpenClient) /\ Right(Socket!OpenListen)
  BY DEF Socket!OpenClient, Socket!OpenListen
<1> HIDE DEF Right
<1>8. Right(p)
  BY <1>1, <1>2, <1>3, <1>4, <1>5, <1>6, <1>7 DEF Socket!AllPrograms
<1> QED
  BY <1>8 DEF Right

\* Nothing is open at first.
LEMMA SocketStart == ASSUME Socket!Init PROVE SocketInv
<1>1. ep_prog \in Socket!AllPrograms
  BY DEF Socket!Init
<1> QED
  BY <1>1, SocketCalls DEF Socket!Init, SocketInv

\* A call that fails closes the socket, a call that succeeds needs it.
LEMMA SocketStep == ASSUME SocketInv, [Socket!Next]_(Socket!vars) PROVE SocketInv'
<1> USE DEF SocketInv
<1>0. /\ Len(ep_prog.calls) > 1 /\ Len(ep_prog.calls) \in Nat /\ ep_pc \in Nat
      /\ Socket!Call = "socket" <=> ep_pc = 1
      /\ ep_prog.closes \in BOOLEAN /\ ep_prog.each \in BOOLEAN
  BY SocketCalls DEF Socket!Call
<1>1. CASE Socket!Succeed
  <2>1. CASE ep_pc = 1
    <3>1. ep_open' = ep_open \cup {ep_sock'}
      BY <1>0, <1>1, <2>1 DEF Socket!Succeed
    <3>0. ~(ep_pc = Len(ep_prog.calls))
      <4>1. \A n \in Nat : n > 1 => ~(1 = n)
        OBVIOUS
      <4> QED
        BY <1>0, <2>1, <4>1, Zenon
    <3>2. ep_out' = ep_out /\ ep_prog' = ep_prog /\ ep_out = "running" /\ ep_pc' = ep_pc + 1
      BY <1>1, <3>0 DEF Socket!Succeed
    <3>3. ep_pc' = 2
      BY <2>1, <3>2
    <3> QED
      BY <1>0, <2>1, <3>1, <3>2, <3>3
  <2>2. CASE ep_pc # 1
    BY <1>0, <1>1, <2>2 DEF Socket!Succeed, Socket!Able
  <2> QED
    BY <2>1, <2>2
<1>2. CASE Socket!Interrupted
  BY <1>2 DEF Socket!Interrupted
<1>3. ASSUME Socket!Fails PROVE ep_prog.closes => Socket!OpenAfter = {}
  BY <1>0, <1>3 DEF Socket!OpenAfter, Socket!CloseSock
<1>4. CASE Socket!NextAddress
  BY <1>0, <1>3, <1>4 DEF Socket!NextAddress, Socket!Fails
<1>5. CASE Socket!Retry \/ Socket!Again
  BY <1>0, <1>3, <1>5 DEF Socket!Retry, Socket!Again, Socket!NewSocket, Socket!Fails
<1>6. CASE Socket!GiveUp
  BY <1>0, <1>3, <1>6 DEF Socket!GiveUp, Socket!Fails
<1>7. CASE UNCHANGED Socket!vars
  BY <1>7 DEF Socket!vars
<1> QED
  BY <1>1, <1>2, <1>4, <1>5, <1>6, <1>7 DEF Socket!Next

\* No socket is left open but the one in use.
LEMMA SocketMeans == ASSUME SocketInv PROVE Socket!NothingLeft
BY DEF SocketInv, Socket!NothingLeft

----------------------------------------------------------------------------
(* The framing with MSG_PEEK.                                              *)

\* A unit of a message, and what has been sent and not taken.
Unit == Nat \X (1..Framing!Units)
Stream == pk_rbuf \o pk_wire

\* The counts, and the units.
FramingTypes ==
    /\ pk_circle \in 0..Total /\ pk_count \in Nat
    /\ pk_wire \in Seq(Unit) /\ pk_rbuf \in Seq(Unit)
    /\ pk_pc \in {"peek", "take"} /\ pk_psize \in Nat /\ pk_torn \in BOOLEAN

\* What a message begins it completes, and behind it another one begins.
Messages(s) ==
    /\ \A i \in 1..Len(s) : s[i][2] = 1 =>
          /\ i + Framing!Units - 1 <= Len(s)
          /\ \A k \in 1..Framing!Units : s[i + k - 1] = <<s[i][1], k>>
    /\ \A i \in 1..Len(s) : s[i][2] = Framing!Units /\ i < Len(s) => s[i + 1][2] = 1
    /\ s # <<>> => s[1][2] = 1 /\ s[Len(s)][2] = Framing!Units

\* As long as none was torn, the messages that are left follow each other, and what
\* was peeked is the header of the first.
FramingWhole ==
    /\ Messages(Stream)
    /\ Len(Stream) = Framing!Units * (Total - pk_circle - pk_count)
    /\ pk_pc = "take" => pk_psize = Payload /\ Len(pk_rbuf) >= Header

FramingInv == FramingTypes /\ (pk_torn \/ FramingWhole)

\* A message has so many units.
LEMMA UnitsNumber == ASSUME Framing!WellFormed
    PROVE /\ Framing!Units \in Nat /\ Framing!Units > 1 /\ Header \in Nat /\ Payload \in Nat
          /\ Header >= 1 /\ Payload >= 1 /\ Framing!Units = Header + Payload /\ Total \in Nat
BY DEF Framing!WellFormed, Framing!Units

\* Whole messages behind whole messages.
LEMMA MessagesSent ==
    ASSUME Framing!WellFormed, NEW s \in Seq(Unit), Messages(s), NEW c \in Nat
    PROVE  LET t == [i \in 1..Framing!Units |-> <<c, i>>] IN
           t \in Seq(Unit) /\ Len(t) = Framing!Units /\ Messages(s \o t)
<1> DEFINE t == [i \in 1..Framing!Units |-> <<c, i>>]
           u == s \o t
<1>0. Framing!Units \in Nat /\ Framing!Units > 1
  BY UnitsNumber
<1>1. t \in Seq(Unit) /\ Len(t) = Framing!Units /\ \A i \in 1..Framing!Units : t[i] = <<c, i>>
  <2>1. \A i \in 1..Framing!Units : <<c, i>> \in Unit
    BY DEF Unit
  <2> QED
    BY <1>0, <2>1
<1>2. /\ Len(s) \in Nat /\ Len(u) = Len(s) + Framing!Units
      /\ \A i \in 1..Len(s) : u[i] = s[i]
      /\ \A i \in (Len(s) + 1)..Len(u) : u[i] = <<c, i - Len(s)>>
  BY <1>0, <1>1, ConcatProperties
<1> HIDE DEF t, u
<1>3. \A i \in 1..Len(u) : u[i][2] = 1 =>
          i + Framing!Units - 1 <= Len(u) /\ \A k \in 1..Framing!Units : u[i + k - 1] = <<u[i][1], k>>
  <2> SUFFICES ASSUME NEW i \in 1..Len(u), u[i][2] = 1
               PROVE  i + Framing!Units - 1 <= Len(u) /\ \A k \in 1..Framing!Units : u[i + k - 1] = <<u[i][1], k>>
    OBVIOUS
  <2>1. CASE i <= Len(s)
    <3>1. i \in 1..Len(s) /\ s[i][2] = 1
      BY <1>0, <1>2, <2>1
    <3>2. i + Framing!Units - 1 <= Len(s) /\ \A k \in 1..Framing!Units : s[i + k - 1] = <<s[i][1], k>>
      BY <3>1 DEF Messages
    <3>3. \A k \in 1..Framing!Units : i + k - 1 \in 1..Len(s)
      BY <1>0, <1>2, <3>1, <3>2
    <3>4. \A k \in 1..Framing!Units : u[i + k - 1] = s[i + k - 1]
      BY <1>2, <3>3
    <3>5. i + Framing!Units - 1 <= Len(u) /\ u[i] = s[i]
      BY <1>0, <1>2, <3>1, <3>2
    <3> QED
      BY <3>2, <3>4, <3>5
  <2>2. CASE i > Len(s)
    <3>1. i \in (Len(s) + 1)..Len(u) /\ u[i] = <<c, i - Len(s)>>
      BY <1>0, <1>2, <2>2
    <3>2. i = Len(s) + 1 /\ u[i][1] = c
      BY <1>2, <3>1
    <3>3. \A k \in 1..Framing!Units : i + k - 1 \in (Len(s) + 1)..Len(u) /\ (i + k - 1) - Len(s) = k
      BY <1>0, <1>2, <3>2
    <3>4. ASSUME NEW k \in 1..Framing!Units PROVE u[i + k - 1] = <<u[i][1], k>>
      BY <1>2, <3>2, <3>3
    <3>5. i + Framing!Units - 1 <= Len(u)
      BY <1>0, <1>2, <3>2
    <3> QED
      BY <3>4, <3>5
  <2>3. i \in Nat
    BY <1>0, <1>2
  <2> QED
    BY <1>2, <2>1, <2>2, <2>3
<1>4. \A i \in 1..Len(u) : u[i][2] = Framing!Units /\ i < Len(u) => u[i + 1][2] = 1
  <2> SUFFICES ASSUME NEW i \in 1..Len(u), u[i][2] = Framing!Units, i < Len(u)
               PROVE  u[i + 1][2] = 1
    OBVIOUS
  <2>1. CASE i < Len(s)
    <3>1. i \in 1..Len(s) /\ i + 1 \in 1..Len(s)
      BY <1>0, <1>2, <2>1
    <3>2. s[i][2] = Framing!Units
      BY <1>2, <3>1
    <3>3. s[i + 1][2] = 1
      BY <2>1, <3>1, <3>2 DEF Messages
    <3> QED
      BY <1>2, <3>1, <3>3
  <2>2. CASE i = Len(s)
    <3>1. i + 1 \in (Len(s) + 1)..Len(u) /\ (i + 1) - Len(s) = 1
      BY <1>0, <1>2, <2>2
    <3> QED
      BY <1>2, <3>1
  <2>3. CASE i > Len(s)
    <3>1. i \in (Len(s) + 1)..Len(u) /\ u[i][2] = i - Len(s)
      BY <1>0, <1>2, <2>3
    <3> QED
      BY <1>0, <1>2, <3>1
  <2> QED
    BY <1>2, <2>1, <2>2, <2>3
<1>5. u # <<>> => u[1][2] = 1 /\ u[Len(u)][2] = Framing!Units
  <2>1. Len(u) \in (Len(s) + 1)..Len(u) /\ Len(u) - Len(s) = Framing!Units
    BY <1>0, <1>2
  <2>2. u[Len(u)][2] = Framing!Units
    BY <1>2, <2>1
  <2>3. CASE s = <<>>
    <3>1. 1 \in (Len(s) + 1)..Len(u) /\ 1 - Len(s) = 1
      BY <1>0, <1>2, <2>3
    <3> QED
      BY <1>2, <2>2, <3>1
  <2>4. CASE s # <<>>
    <3>1. 1 \in 1..Len(s)
      BY <2>4, EmptySeq
    <3> QED
      BY <1>2, <2>2, <2>4, <3>1 DEF Messages
  <2> QED
    BY <2>3, <2>4
<1> QED
  BY <1>1, <1>3, <1>4, <1>5 DEF Messages, t, u

\* What is behind the first message is messages.
LEMMA MessagesRest ==
    ASSUME Framing!WellFormed, NEW s \in Seq(Unit), Messages(s), s # <<>>
    PROVE  /\ Framing!Units <= Len(s) /\ \A k \in 1..Framing!Units : s[k][2] = k
           /\ LET r == SubSeq(s, Framing!Units + 1, Len(s)) IN
              r \in Seq(Unit) /\ Len(r) = Len(s) - Framing!Units /\ Messages(r)
<1> DEFINE n == Framing!Units
           r == SubSeq(s, n + 1, Len(s))
<1>0. n \in Nat /\ n > 1 /\ Len(s) \in Nat /\ Len(s) > 0
  BY UnitsNumber, EmptySeq
<1>1. n <= Len(s) /\ \A k \in 1..n : s[1 + k - 1] = <<s[1][1], k>>
  <2>1. 1 \in 1..Len(s) /\ s[1][2] = 1
    BY <1>0 DEF Messages
  <2> QED
    BY <1>0, <2>1 DEF Messages
<1>2. \A k \in 1..n : s[k][2] = k
  <2> SUFFICES ASSUME NEW k \in 1..n PROVE s[k][2] = k
    OBVIOUS
  <2>1. 1 + k - 1 = k
    BY <1>0
  <2> QED
    BY <1>1, <2>1
<1>3. r \in Seq(Unit) /\ Len(r) = Len(s) - n /\ \A i \in 1..Len(r) : r[i] = s[i + n]
  <2>1. \A i \in (n + 1)..Len(s) : s[i] \in Unit
    BY <1>0, ElementOfSeq
  <2>2. n + 1 \in Int /\ Len(s) \in Int
    BY <1>0
  <2>3. r \in Seq(Unit) /\ Len(r) = (IF n + 1 <= Len(s) THEN Len(s) - (n + 1) + 1 ELSE 0)
        /\ \A i \in 1..(Len(s) - (n + 1) + 1) : r[i] = s[(n + 1) + i - 1]
    BY <2>1, <2>2, SubSeqProperties
  <2>4. Len(r) = Len(s) - n
    BY <1>0, <1>1, <2>3
  <2>5. ASSUME NEW i \in 1..Len(r) PROVE r[i] = s[i + n]
    <3>1. i \in 1..(Len(s) - (n + 1) + 1) /\ (n + 1) + i - 1 = i + n
      BY <1>0, <2>4
    <3> QED
      BY <2>3, <3>1
  <2> QED
    BY <2>3, <2>4, <2>5
<1> HIDE DEF r, n
<1>4. ASSUME NEW i \in 1..Len(r), r[i][2] = 1
      PROVE  i + n - 1 <= Len(r) /\ \A k \in 1..n : r[i + k - 1] = <<r[i][1], k>>
  <2>1. i + n \in 1..Len(s) /\ s[i + n][2] = 1
    BY <1>0, <1>3, <1>4
  <2>2. i + n + n - 1 <= Len(s) /\ \A k \in 1..n : s[i + n + k - 1] = <<s[i + n][1], k>>
    BY <2>1 DEF Messages, n
  <2>3. i + n - 1 <= Len(r)
    BY <1>0, <1>3, <2>2
  <2>4. ASSUME NEW k \in 1..n PROVE r[i + k - 1] = <<r[i][1], k>>
    <3>1. i + k - 1 \in 1..Len(r) /\ i + k - 1 + n = i + n + k - 1
      BY <1>0, <1>3, <2>3
    <3> QED
      BY <1>3, <2>2, <3>1
  <2> QED
    BY <2>3, <2>4
<1>5. ASSUME NEW i \in 1..Len(r), r[i][2] = n, i < Len(r)
      PROVE  r[i + 1][2] = 1
  <2>1. i + n \in 1..Len(s) /\ i + n < Len(s) /\ i + 1 \in 1..Len(r) /\ i + n + 1 = i + 1 + n
    BY <1>0, <1>3, <1>5
  <2>2. s[i + n][2] = n
    BY <1>3, <1>5
  <2>3. s[i + n + 1][2] = 1
    BY <2>1, <2>2 DEF Messages, n
  <2> QED
    BY <1>3, <2>1, <2>3
<1>6. ASSUME r # <<>> PROVE r[1][2] = 1 /\ r[Len(r)][2] = n
  <2>1. Len(r) \in Nat /\ Len(r) > 0
    BY <1>3, <1>6, EmptySeq
  <2>2. 1 \in 1..Len(r) /\ Len(r) \in 1..Len(r) /\ Len(r) + n = Len(s) /\ n \in 1..Len(s) /\ n < Len(s) /\ 1 + n = n + 1 /\ n \in 1..n
    BY <1>0, <1>1, <1>3, <2>1
  <2>3. s[n][2] = n
    BY <1>2, <2>2
  <2>4. s[n + 1][2] = 1
    BY <2>2, <2>3 DEF Messages, n
  <2>5. s[Len(s)][2] = n
    BY DEF Messages, n
  <2> QED
    BY <1>3, <2>2, <2>4, <2>5
<1> QED
  BY <1>1, <1>2, <1>3, <1>4, <1>5, <1>6 DEF Messages, n, r

\* Nothing was sent.
LEMMA FramingStart == ASSUME Framing!WellFormed, Framing!Init PROVE FramingInv
<1>1. Stream = <<>> /\ Len(Stream) = 0 /\ <<>> \in Seq(Unit)
  BY ConcatEmptySeq, EmptySeq DEF Framing!Init, Stream
<1>2. Messages(Stream)
  BY <1>1 DEF Messages
<1>3. Framing!Units * (Total - pk_circle - pk_count) = 0
  BY UnitsNumber DEF Framing!Init
<1>4. FramingTypes
  <2>1. /\ pk_circle \in 0..Total /\ pk_count \in Nat /\ pk_psize \in Nat
        /\ pk_wire = <<>> /\ pk_rbuf = <<>> /\ pk_pc = "peek" /\ pk_torn = FALSE
    BY UnitsNumber DEF Framing!Init
  <2> QED
    BY <1>1, <2>1 DEF FramingTypes
<1>5. FramingWhole
  <2>1. pk_pc # "take" /\ Len(Stream) = Framing!Units * (Total - pk_circle - pk_count)
    BY <1>1, <1>3 DEF Framing!Init
  <2> QED
    BY <1>2, <2>1 DEF FramingWhole
<1> QED
  BY <1>4, <1>5 DEF FramingInv

\* A message more.
LEMMA FramingSend == ASSUME Framing!WellFormed, FramingInv, Framing!Send PROVE FramingInv'
<1> DEFINE t == [i \in 1..Framing!Units |-> <<pk_circle, i>>]
<1>0. Framing!Units \in Nat /\ Framing!Units > 1 /\ Total \in Nat
  BY UnitsNumber
<1>1. pk_wire \in Seq(Unit) /\ pk_rbuf \in Seq(Unit) /\ pk_circle \in Nat /\ pk_count \in Nat
  BY <1>0 DEF FramingInv, FramingTypes
<1>2. Stream \in Seq(Unit)
  BY <1>1, ConcatProperties DEF Stream
<1>3. t \in Seq(Unit) /\ Len(t) = Framing!Units /\ (FramingWhole => Messages(Stream \o t))
  <2>1. t \in Seq(Unit) /\ Len(t) = Framing!Units
    <3>1. Messages(<<>>) /\ <<>> \in Seq(Unit)
      BY DEF Messages
    <3> QED
      BY <1>1, <3>1, MessagesSent
  <2> QED
    BY <1>1, <1>2, <2>1, MessagesSent DEF FramingWhole
<1>4. pk_wire' = pk_wire \o t /\ pk_rbuf' = pk_rbuf /\ pk_circle' = pk_circle - 1 /\ pk_circle > 0
      /\ UNCHANGED <<pk_pc, pk_psize, pk_count, pk_torn>>
  BY DEF Framing!Send
<1> HIDE DEF t
<1>5. Stream' = Stream \o t
  <2>1. (pk_rbuf \o pk_wire) \o t = pk_rbuf \o (pk_wire \o t)
    BY <1>1, <1>3, ConcatAssociative
  <2> QED
    BY <1>4, <2>1, Zenon DEF Stream
<1>6. pk_wire' \in Seq(Unit)
  BY <1>1, <1>3, <1>4, ConcatProperties
<1>7. FramingTypes'
  BY <1>0, <1>1, <1>4, <1>6 DEF FramingInv, FramingTypes
<1> SUFFICES ASSUME FramingWhole PROVE FramingWhole'
  BY <1>4, <1>7 DEF FramingInv
<1>8. Len(Stream') = Framing!Units * (Total - pk_circle' - pk_count')
  <2>1. Len(Stream') = Len(Stream) + Framing!Units
    BY <1>2, <1>3, <1>5, ConcatProperties
  <2>2. Len(Stream) = Framing!Units * (Total - pk_circle - pk_count)
    BY DEF FramingWhole
  <2>3. \A u \in Nat, m \in Int : u * m + u = u * (m + 1)
    OBVIOUS
  <2>4. Total - pk_circle - pk_count \in Int /\ Total - pk_circle' - pk_count' = (Total - pk_circle - pk_count) + 1
    BY <1>0, <1>1, <1>4
  <2> QED
    BY <1>0, <2>1, <2>2, <2>3, <2>4
<1> QED
  BY <1>3, <1>4, <1>5, <1>8 DEF FramingWhole

\* The network cuts the stream, and that changes nothing of it.
LEMMA FramingArrive == ASSUME Framing!WellFormed, FramingInv, Framing!Arrive PROVE FramingInv'
<1>0. pk_wire \in Seq(Unit) /\ pk_rbuf \in Seq(Unit)
  BY DEF FramingInv, FramingTypes
<1>1. PICK n \in 1..Len(pk_wire) :
        /\ pk_rbuf' = pk_rbuf \o SubSeq(pk_wire, 1, n)
        /\ pk_wire' = SubSeq(pk_wire, n + 1, Len(pk_wire))
        /\ UNCHANGED <<pk_circle, pk_pc, pk_psize, pk_count, pk_torn>>
  BY DEF Framing!Arrive
<1> DEFINE a == SubSeq(pk_wire, 1, n)
           b == SubSeq(pk_wire, n + 1, Len(pk_wire))
<1>2. Len(pk_wire) \in Nat /\ n \in Nat /\ n >= 1 /\ n <= Len(pk_wire)
  BY <1>0
<1>3. a \in Seq(Unit) /\ Len(a) = n
  <2>1. \A i \in 1..n : pk_wire[i] \in Unit
    BY <1>0, <1>2, ElementOfSeq
  <2>2. a \in Seq(Unit) /\ Len(a) = (IF 1 <= n THEN n - 1 + 1 ELSE 0)
        /\ \A i \in 1..(n - 1 + 1) : a[i] = pk_wire[1 + i - 1]
    BY <1>2, <2>1, SubSeqProperties
  <2> QED
    BY <1>2, <2>2
<1>4. b \in Seq(Unit)
  <2>1. \A i \in (n + 1)..Len(pk_wire) : pk_wire[i] \in Unit
    BY <1>0, <1>2, ElementOfSeq
  <2>2. n + 1 \in Int /\ Len(pk_wire) \in Int
    BY <1>2
  <2> QED
    BY <2>1, <2>2, SubSeqProperties
<1>5. a \o b = pk_wire
  <2>1. 1 \in 1..(Len(pk_wire) + 1) /\ n \in (1 - 1)..Len(pk_wire) /\ Len(pk_wire) \in n..Len(pk_wire)
    BY <1>2
  <2>2. a \o b = SubSeq(pk_wire, 1, Len(pk_wire))
    BY <1>0, <2>1, ConcatAdjacentSubSeq
  <2> QED
    BY <1>0, <2>2, SubSeqFull
<1>6. pk_rbuf' = pk_rbuf \o a /\ pk_wire' = b
  BY <1>1
<1> HIDE DEF a, b
<1>7. Stream' = Stream
  <2>1. (pk_rbuf \o a) \o b = pk_rbuf \o (a \o b)
    BY <1>0, <1>3, <1>4, ConcatAssociative
  <2> QED
    BY <1>5, <1>6, <2>1, Zenon DEF Stream
<1>8. pk_rbuf' \in Seq(Unit) /\ Len(pk_rbuf') = Len(pk_rbuf) + n
  BY <1>0, <1>3, <1>6, ConcatProperties
<1>9. Len(pk_rbuf') >= Len(pk_rbuf) /\ Header \in Nat /\ Len(pk_rbuf) \in Nat
  BY <1>0, <1>2, <1>8, UnitsNumber
<1>10. FramingTypes'
  BY <1>1, <1>4, <1>6, <1>8 DEF FramingInv, FramingTypes
<1>11. FramingWhole => FramingWhole'
  <2>1. Len(pk_rbuf) >= Header => Len(pk_rbuf') >= Header
    BY <1>2, <1>8, <1>9
  <2> QED
    BY <1>1, <1>7, <2>1 DEF FramingWhole
<1> QED
  BY <1>1, <1>10, <1>11 DEF FramingInv

\* What is peeked is the header of a message, if none was torn.
LEMMA FramingPeek == ASSUME Framing!WellFormed, FramingInv, Framing!Peek PROVE FramingInv'
<1> DEFINE n == Framing!Units
<1>0. n \in Nat /\ n > 1 /\ n = Header + Payload /\ Header \in Nat /\ Payload \in Nat /\ Payload >= 1 /\ Header >= 1
  BY UnitsNumber
<1>1. pk_wire \in Seq(Unit) /\ pk_rbuf \in Seq(Unit) /\ Len(pk_rbuf) \in Nat
  BY DEF FramingInv, FramingTypes
<1>2. Len(pk_rbuf) >= Header /\ pk_rbuf # <<>>
  BY <1>0, <1>1 DEF Framing!Peek, Framing!FullPeek
<1>9. /\ pk_pc' = "take" /\ UNCHANGED <<pk_circle, pk_wire, pk_rbuf, pk_count, pk_torn>>
      /\ pk_psize' \in Nat
  BY <1>0 DEF Framing!Peek
<1>10. FramingTypes'
  BY <1>9 DEF FramingInv, FramingTypes
<1> SUFFICES ASSUME FramingWhole PROVE FramingWhole'
  BY <1>9, <1>10 DEF FramingInv
<1>3. /\ Stream \in Seq(Unit) /\ Len(Stream) = Len(pk_rbuf) + Len(pk_wire)
      /\ \A i \in 1..Len(pk_rbuf) : Stream[i] = pk_rbuf[i]
  <2>1. /\ Stream \in Seq(Unit) /\ Len(Stream) = Len(pk_rbuf) + Len(pk_wire)
        /\ \A i \in 1..(Len(pk_rbuf) + Len(pk_wire)) : Stream[i] = IF i <= Len(pk_rbuf) THEN pk_rbuf[i] ELSE pk_wire[i - Len(pk_rbuf)]
    BY <1>1, ConcatProperties DEF Stream
  <2>2. Len(pk_wire) \in Nat
    BY <1>1
  <2> QED
    BY <1>1, <2>1, <2>2
<1>4. Stream # <<>> /\ Messages(Stream)
  BY <1>0, <1>1, <1>2, <1>3, EmptySeq DEF FramingWhole
<1>5. n <= Len(Stream) /\ \A k \in 1..n : Stream[k][2] = k
  BY <1>3, <1>4, MessagesRest
<1>6. \A k \in 1..n : Stream[1 + k - 1] = <<Stream[1][1], k>>
  <2>1. 1 \in 1..Len(Stream) /\ Stream[1][2] = 1
    BY <1>0, <1>4, <1>5 DEF Messages
  <2> QED
    BY <1>4, <2>1 DEF Messages
<1>7. Framing!AtHeader(pk_rbuf)
  <2> SUFFICES ASSUME NEW i \in 1..Header PROVE pk_rbuf[i] = <<pk_rbuf[1][1], i>>
    BY DEF Framing!AtHeader
  <2>1. i \in 1..n /\ i \in 1..Len(pk_rbuf) /\ 1 \in 1..Len(pk_rbuf) /\ 1 + i - 1 = i
    BY <1>0, <1>1, <1>2
  <2> QED
    BY <1>3, <1>6, <2>1
<1>8. pk_psize' = Payload
  BY <1>2, <1>7 DEF Framing!Peek
<1> QED
  BY <1>2, <1>8, <1>9 DEF FramingWhole, Stream

\* The first message goes, or, if its payload had come in part, it is torn.
LEMMA FramingTake == ASSUME Framing!WellFormed, FramingInv, Framing!Take PROVE FramingInv'
<1> DEFINE n == Framing!Units
           r == SubSeq(Stream, n + 1, Len(Stream))
           q == SubSeq(pk_rbuf, n + 1, Len(pk_rbuf))
<1>0. n \in Nat /\ n > 1 /\ n = Header + Payload /\ Total \in Nat
  BY UnitsNumber
<1>1. pk_wire \in Seq(Unit) /\ pk_rbuf \in Seq(Unit) /\ Len(pk_rbuf) \in Nat /\ Len(pk_wire) \in Nat
      /\ pk_circle \in Nat /\ pk_count \in Nat
  BY <1>0 DEF FramingInv, FramingTypes
<1>2. /\ Stream \in Seq(Unit) /\ Len(Stream) = Len(pk_rbuf) + Len(pk_wire)
      /\ \A i \in 1..(Len(pk_rbuf) + Len(pk_wire)) : Stream[i] = IF i <= Len(pk_rbuf) THEN pk_rbuf[i] ELSE pk_wire[i - Len(pk_rbuf)]
  BY <1>1, ConcatProperties DEF Stream
<1>3. FramingTypes'
  <2> DEFINE k == IF Framing!Asked <= Len(pk_rbuf) THEN Framing!Asked ELSE Len(pk_rbuf)
  <2>1. pk_psize \in Nat /\ Framing!Asked \in Nat /\ k \in Nat
    BY <1>0, <1>1, UnitsNumber DEF Framing!Asked, FramingInv, FramingTypes
  <2>2. /\ pk_rbuf' = SubSeq(pk_rbuf, k + 1, Len(pk_rbuf)) /\ pk_pc' = "peek"
        /\ pk_count' = (IF k = Framing!Asked THEN pk_count + 1 ELSE pk_count)
        /\ pk_torn' = (pk_torn \/ (k < Framing!Asked /\ Len(pk_rbuf) >= Header))
        /\ UNCHANGED <<pk_circle, pk_wire, pk_psize>>
    BY DEF Framing!Take
  <2> HIDE DEF k
  <2>3. \A i \in (k + 1)..Len(pk_rbuf) : pk_rbuf[i] \in Unit
    BY <1>1, <2>1, ElementOfSeq
  <2>4. k + 1 \in Int /\ Len(pk_rbuf) \in Int
    BY <1>1, <2>1
  <2>5. pk_rbuf' \in Seq(Unit)
    BY <2>2, <2>3, <2>4, SubSeqProperties
  <2>6. pk_count' \in Nat /\ pk_torn' \in BOOLEAN
    BY <1>1, <2>2 DEF FramingInv, FramingTypes
  <2> QED
    BY <2>2, <2>5, <2>6 DEF FramingInv, FramingTypes
<1> SUFFICES ASSUME ~pk_torn' PROVE FramingWhole'
  BY <1>3 DEF FramingInv
<1>4. FramingWhole
  BY DEF Framing!Take, FramingInv
<1>5. Framing!Asked = n /\ n <= Len(pk_rbuf)
  <2>1. pk_pc = "take" /\ Framing!Asked = n /\ Len(pk_rbuf) >= Header
    BY <1>0, <1>4 DEF Framing!Take, Framing!Asked, FramingWhole
  <2>2. ~((IF Framing!Asked <= Len(pk_rbuf) THEN Framing!Asked ELSE Len(pk_rbuf)) < Framing!Asked)
    BY <2>1 DEF Framing!Take
  <2> QED
    BY <1>0, <1>1, <2>1, <2>2
<1>6. /\ pk_rbuf' = q /\ pk_count' = pk_count + 1 /\ pk_pc' = "peek"
      /\ UNCHANGED <<pk_circle, pk_wire, pk_psize>>
  BY <1>5 DEF Framing!Take
<1>7. Stream # <<>> /\ Messages(Stream)
  BY <1>0, <1>1, <1>2, <1>5, <1>4, EmptySeq DEF FramingWhole
<1>8. r \in Seq(Unit) /\ Len(r) = Len(Stream) - n /\ Messages(r)
  BY <1>2, <1>7, MessagesRest
<1>9. q \in Seq(Unit) /\ Len(q) = Len(pk_rbuf) - n /\ \A i \in 1..Len(q) : q[i] = pk_rbuf[i + n]
  <2>1. \A i \in (n + 1)..Len(pk_rbuf) : pk_rbuf[i] \in Unit
    BY <1>0, <1>1, ElementOfSeq
  <2>2. n + 1 \in Int /\ Len(pk_rbuf) \in Int
    BY <1>0, <1>1
  <2>3. q \in Seq(Unit) /\ Len(q) = (IF n + 1 <= Len(pk_rbuf) THEN Len(pk_rbuf) - (n + 1) + 1 ELSE 0)
        /\ \A i \in 1..(Len(pk_rbuf) - (n + 1) + 1) : q[i] = pk_rbuf[(n + 1) + i - 1]
    BY <2>1, <2>2, SubSeqProperties
  <2>4. Len(q) = Len(pk_rbuf) - n
    BY <1>0, <1>1, <1>5, <2>3
  <2>5. ASSUME NEW i \in 1..Len(q) PROVE q[i] = pk_rbuf[i + n]
    <3>1. i \in 1..(Len(pk_rbuf) - (n + 1) + 1) /\ (n + 1) + i - 1 = i + n
      BY <1>0, <1>1, <2>4
    <3> QED
      BY <2>3, <3>1
  <2> QED
    BY <2>3, <2>4, <2>5
<1>10. \A i \in 1..Len(r) : r[i] = Stream[i + n]
  <2>1. \A i \in (n + 1)..Len(Stream) : Stream[i] \in Unit
    BY <1>0, <1>1, <1>2, ElementOfSeq
  <2>2. n + 1 \in Int /\ Len(Stream) \in Int
    BY <1>0, <1>1, <1>2
  <2>3. \A i \in 1..(Len(Stream) - (n + 1) + 1) : r[i] = Stream[(n + 1) + i - 1]
    BY <2>1, <2>2, SubSeqProperties
  <2> SUFFICES ASSUME NEW i \in 1..Len(r) PROVE r[i] = Stream[i + n]
    OBVIOUS
  <2>4. i \in 1..(Len(Stream) - (n + 1) + 1) /\ (n + 1) + i - 1 = i + n
    BY <1>0, <1>1, <1>2, <1>8
  <2> QED
    BY <2>3, <2>4
<1> HIDE DEF n, r, q
<1>11. q \o pk_wire = r
  <2>1. /\ q \o pk_wire \in Seq(Unit) /\ Len(q \o pk_wire) = Len(q) + Len(pk_wire)
        /\ \A i \in 1..(Len(q) + Len(pk_wire)) : (q \o pk_wire)[i] = IF i <= Len(q) THEN q[i] ELSE pk_wire[i - Len(q)]
    BY <1>1, <1>9, ConcatProperties
  <2>2. Len(q \o pk_wire) = Len(r)
    BY <1>0, <1>1, <1>2, <1>8, <1>9, <2>1
  <2>3. ASSUME NEW i \in 1..Len(q \o pk_wire) PROVE (q \o pk_wire)[i] = r[i]
    <3>1. /\ i \in 1..Len(r) /\ i \in 1..(Len(q) + Len(pk_wire)) /\ i \in Nat
          /\ i + n \in 1..(Len(pk_rbuf) + Len(pk_wire))
          /\ i + n <= Len(pk_rbuf) <=> i <= Len(q)
          /\ (i + n) - Len(pk_rbuf) = i - Len(q)
          /\ i <= Len(q) => i \in 1..Len(q)
      <4>1. Len(q) \in Nat /\ Len(q) = Len(pk_rbuf) - n /\ i \in 1..(Len(q) + Len(pk_wire))
        BY <1>0, <1>1, <1>5, <1>9, <2>1
      <4>2. i \in 1..Len(r)
        BY <2>2
      <4> QED
        BY <1>0, <1>1, <4>1, <4>2
    <3>2. r[i] = IF i + n <= Len(pk_rbuf) THEN pk_rbuf[i + n] ELSE pk_wire[(i + n) - Len(pk_rbuf)]
      <4>1. r[i] = Stream[i + n]
        BY <1>10, <3>1
      <4>2. Stream[i + n] = IF i + n <= Len(pk_rbuf) THEN pk_rbuf[i + n] ELSE pk_wire[(i + n) - Len(pk_rbuf)]
        BY <1>2, <3>1
      <4> QED
        BY <4>1, <4>2, Zenon
    <3>3. (q \o pk_wire)[i] = IF i <= Len(q) THEN q[i] ELSE pk_wire[i - Len(q)]
      BY <2>1, <3>1
    <3> QED
      BY <1>9, <3>1, <3>2, <3>3
  <2> QED
    BY <1>8, <2>1, <2>2, <2>3, SeqEqual
<1>12. Stream' = r
  BY <1>6, <1>11 DEF Stream
<1>13. Messages(Stream')
  BY <1>8, <1>12
<1>14. Len(Stream') = n * (Total - pk_circle' - pk_count')
  <2>1. Len(Stream) = n * (Total - pk_circle - pk_count)
    BY <1>4 DEF FramingWhole, n
  <2>2. \A u \in Nat, m \in Int : u * m - u = u * (m - 1)
    OBVIOUS
  <2>3. Total - pk_circle - pk_count \in Int /\ Total - pk_circle' - pk_count' = (Total - pk_circle - pk_count) - 1
    BY <1>0, <1>1, <1>6
  <2> QED
    BY <1>0, <1>8, <1>12, <2>1, <2>2, <2>3
<1> QED
  BY <1>6, <1>13, <1>14 DEF FramingWhole, n

\* The client sends, the network cuts, the server peeks and takes.
LEMMA FramingStep == ASSUME Framing!WellFormed, FramingInv, [Framing!Next]_(Framing!vars) PROVE FramingInv'
<1>1. CASE UNCHANGED Framing!vars
  BY <1>1 DEF Framing!vars, FramingInv, FramingTypes, FramingWhole, Stream
<1> QED
  BY <1>1, FramingSend, FramingArrive, FramingPeek, FramingTake DEF Framing!Next, Framing!Serve

\* What comes next is a message, and what was not counted is still there.
LEMMA FramingMeans == ASSUME Framing!WellFormed, FramingInv PROVE Framing!Framed
BY DEF Framing!Framed, FramingInv, FramingWhole, Messages, Stream

----------------------------------------------------------------------------
(* The programs with sockets together.                                     *)

\* One behaviour is of one of them; their invariants hold of all.
SocketsInv == PosixInv /\ SelectInv /\ SocketInv /\ FramingInv

\* A step of the programs is a step of each of them, or leaves it as it is.
LEMMA SocketsSteps ==
    ASSUME [SocketsNext]_socketsVars
    PROVE  /\ [Posix!Next]_(Posix!vars) /\ [Select!Next]_(Select!vars)
           /\ [Socket!Next]_(Socket!vars) /\ [Framing!Next]_(Framing!vars)
<1> USE DEF socketsVars, SocketsNext
<1>1. [Posix!Next]_(Posix!vars)
  BY DEF posixState, Posix!vars
<1>2. [Select!Next]_(Select!vars)
  BY DEF selectState, Select!vars
<1>3. [Socket!Next]_(Socket!vars)
  BY DEF socketState, Socket!vars
<1>4. [Framing!Next]_(Framing!vars)
  BY DEF framingState, Framing!vars
<1> QED
  BY <1>1, <1>2, <1>3, <1>4

\* They start with their invariants, and nothing was sent.
LEMMA SocketsStart == ASSUME SocketsInit PROVE SocketsInv /\ Posix!Stream!Init
<1>1. PosixInv /\ Posix!Stream!Init
  BY SocketsAssumption, PosixStart DEF SocketsInit
<1>2. SelectInv
  BY SocketsAssumption, SelectStart DEF SocketsInit
<1>3. SocketInv
  BY SocketStart DEF SocketsInit
<1>4. FramingInv
  BY SocketsAssumption, FramingStart DEF SocketsInit
<1> QED
  BY <1>1, <1>2, <1>3, <1>4 DEF SocketsInv

\* They keep them, and what Rio does is a step of the stream.
LEMMA SocketsStep ==
    ASSUME SocketsInv, [SocketsNext]_socketsVars
    PROVE  SocketsInv' /\ [Posix!Stream!Send \/ Posix!Stream!Receive]_<<rb_sent, rb_got>>
<1>1. PosixInv' /\ [Posix!Stream!Send \/ Posix!Stream!Receive]_<<rb_sent, rb_got>>
  BY SocketsAssumption, SocketsSteps, PosixStep DEF SocketsInv
<1>2. SelectInv'
  BY SocketsAssumption, SocketsSteps, SelectStep DEF SocketsInv
<1>3. SocketInv'
  BY SocketsSteps, SocketStep DEF SocketsInv
<1>4. FramingInv'
  BY SocketsAssumption, SocketsSteps, FramingStep DEF SocketsInv
<1> QED
  BY <1>1, <1>2, <1>3, <1>4 DEF SocketsInv

(***************************************************************************)
(* A Rio buffer and the channel never hold more than they have room for,   *)
(* and a line leaves a place for its NUL (posix.c:688); a select server    *)
(* watches just the descriptors it has open, none above the limit it sets  *)
(* itself plus one, for any number of clients; and a program that found no *)
(* address that works has closed the sockets it tried.                     *)
(***************************************************************************)
THEOREM DescriptorsKept == SocketsSpec => []Descriptors
<1>1. SocketsInit => SocketsInv
  BY SocketsStart
<1>2. SocketsInv /\ [SocketsNext]_socketsVars => SocketsInv'
  BY SocketsStep
<1>3. SocketsInv => Descriptors
  BY SocketsAssumption, PosixMeans, SelectMeans, SocketMeans DEF SocketsInv, Descriptors
<1> QED
  BY <1>1, <1>2, <1>3, PTL DEF SocketsSpec

(***************************************************************************)
(* What is sent arrives: through short reads and writes, interrupts and    *)
(* errors, Rio's calls deliver the bytes in their order and once, calls    *)
(* are short only at the end and lines end at their newline; the messages  *)
(* of msgpeek stay apart until one is taken whose payload had come in part;*)
(* and the text server prints what a client that waits for it sent.  For   *)
(* any message, sizes of buffers and numbers of clients, messages,         *)
(* interrupts and errors.                                                  *)
(***************************************************************************)
THEOREM SentArrives == SocketsSpec => Arrives
<1> DEFINE Right == /\ Posix!WritesWhole /\ Posix!ShortOnlyAtEof /\ Posix!LinesWhole
                    /\ Framing!Framed /\ Select!AllShown
<1>1. SocketsInit => SocketsInv /\ Posix!Stream!Init
  BY SocketsStart
<1>2. SocketsInv /\ [SocketsNext]_socketsVars => SocketsInv'
  BY SocketsStep
<1>3. SocketsInv /\ [SocketsNext]_socketsVars =>
          [Posix!Stream!Send \/ Posix!Stream!Receive]_<<rb_sent, rb_got>>
  BY SocketsStep
<1>4. SocketsInv => Right
  BY SocketsAssumption, PosixMeans, SelectMeans, FramingMeans DEF SocketsInv
<1> QED
  BY <1>1, <1>2, <1>3, <1>4, PTL
  DEF SocketsSpec, Arrives, Posix!ImplementsStream, Posix!Stream!Spec
=============================================================================

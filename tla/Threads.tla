------------------------------- MODULE Threads -------------------------------
(***************************************************************************)
(* The small programs of ch04 and ch08 whose threads or processes share    *)
(* memory, semaphores, a pipe or a message queue. They have nothing to do  *)
(* with each other, so a behaviour is one of one of them, which program    *)
(* names; the others stay where they start.                                *)
(***************************************************************************)
EXTENDS LightSemaphore

CONSTANTS
    LineGoods, LineSize,            \* producer_consumer_1.c: goods, size of the pipe
    Forks, Fillers,                 \* producer_consumer_2.c: its children in the
                                    \*   order of their forks, and those that write,
    FillerGoods, PipeRoom,          \*   the goods each writes, and the size of the pipe
    Pairs, PairGoods, StackRoom,    \* producer_consumer_3.c, _4.c: producers, as many
                                    \*   consumers, rounds, and the size of the stack
    QueueGoods, QueueLag,           \* producer_consumer_5.c: WORK and its lag of 10
    Writers, Readers, CountLimit,   \* 02_pthread_rwlock.c: threads and the limit
    FirstIds, Interrupts,           \* 01_msg.cpp: first ids a queue may have, and
                                    \*   how often Ctrl-C is pressed
    Instances,                      \* ipc_mq.c: its processes
    QueueRoom                       \* messages a queue has room for

VARIABLES
    program,    \* the one this behaviour is of
    p1_pipe, p1_ends, p1_at, p1_round, p1_forked, p1_sold, p2_pipe,
    p2_ends, p2_at, p2_round, p2_forked, p2_sold, st_product, st_warehouse,
    st_mutex, st_buf, st_idx, st_arg, st_main, st_at, st_number, st_round,
    st_sold, cl_product, cl_warehouse, cl_mutex, cl_buf, cl_idx, cl_arg,
    cl_main, cl_at, cl_number, cl_round, cl_sold, cq_queue, cq_idx_p,
    cq_idx_c, cq_mutex, cq_waiting, cq_pp, cq_pcons, cq_count, rw_pc,
    rw_writer, rw_readers, rw_shared, rw_old, rw_cancelled, rw_main,
    mp_key, mp_next_id, mp_msgs, mp_pc, mp_qid, mp__running, mp_pending,
    mp_interrupts, mo_key, mo_made, mo_msgs, mo_pc, mo_qid, mo_got

\* producer_consumer_1.c: the parent writes, its child reads
Pipe1 == INSTANCE PcPipe WITH
    Parent <- "main", Children <- <<"child">>, Producers <- {"main"},
    Rounds <- LineGoods, PipeSize <- LineSize, ForkMayFail <- FALSE,
    pipe <- p1_pipe, ends <- p1_ends, at <- p1_at, round <- p1_round,
    forked <- p1_forked, sold <- p1_sold

\* producer_consumer_2.c
Pipe2 == INSTANCE PcPipe WITH
    Parent <- "main", Children <- Forks, Producers <- Fillers,
    Rounds <- FillerGoods, PipeSize <- PipeRoom, ForkMayFail <- TRUE, pipe <- p2_pipe, ends <- p2_ends, at <- p2_at,
    round <- p2_round, forked <- p2_forked, sold <- p2_sold

\* producer_consumer_4.c
Stack == INSTANCE PcSemaphores WITH
    N <- Pairs, Rounds <- PairGoods, Slots <- StackRoom, Joins <- TRUE, product <- st_product,
    warehouse <- st_warehouse, mutex <- st_mutex, buf <- st_buf,
    idx <- st_idx, arg <- st_arg, main <- st_main, at <- st_at,
    number <- st_number, round <- st_round, sold <- st_sold

\* producer_consumer_3.c, where main does not wait
Clone == INSTANCE PcSemaphores WITH
    N <- Pairs, Rounds <- PairGoods, Slots <- 1, Joins <- FALSE, product <- cl_product,
    warehouse <- cl_warehouse, mutex <- cl_mutex, buf <- cl_buf,
    idx <- cl_idx, arg <- cl_arg, main <- cl_main, at <- cl_at,
    number <- cl_number, round <- cl_round, sold <- cl_sold

\* producer_consumer_5.c
Queue == INSTANCE PcCondition WITH
    Work <- QueueGoods, Lag <- QueueLag, queue <- cq_queue, idx_p <- cq_idx_p,
    idx_c <- cq_idx_c, mutex <- cq_mutex, waiting <- cq_waiting,
    pp <- cq_pp, pcons <- cq_pcons, count <- cq_count

\* 02_pthread_rwlock.c and 02_pthread_rwlock_2.c
Counter == INSTANCE RwCounter WITH
    Writers <- Writers, Readers <- Readers, Limit <- CountLimit,
    pc <- rw_pc, writer <- rw_writer, readers <- rw_readers,
    shared <- rw_shared, old <- rw_old, cancelled <- rw_cancelled,
    main <- rw_main

\* 01_msg.cpp
Pair == INSTANCE MsgPair WITH
    FirstIds <- FirstIds, Room <- QueueRoom, MaxInterrupts <- Interrupts, key <- mp_key,
    next_id <- mp_next_id, msgs <- mp_msgs, pc <- mp_pc, qid <- mp_qid,
    _running <- mp__running, pending <- mp_pending, interrupts <- mp_interrupts

\* some instances of ipc_mq.c
Once == INSTANCE MsgOnce WITH
    Procs <- Instances, Room <- QueueRoom, key <- mo_key, made <- mo_made,
    msgs <- mo_msgs, pc <- mo_pc, qid <- mo_qid, got <- mo_got

ASSUME SuiteAssumption ==
    /\ Pipe1!WellFormed /\ Pipe2!WellFormed
    /\ Stack!WellFormed /\ Clone!WellFormed
    /\ Queue!WellFormed /\ Counter!WellFormed
    /\ Pair!WellFormed /\ Once!WellFormed

pipe1State ==
  <<p1_pipe, p1_ends, p1_at, p1_round, p1_forked, p1_sold>>
pipe2State ==
  <<p2_pipe, p2_ends, p2_at, p2_round, p2_forked, p2_sold>>
stackState ==
  <<st_product, st_warehouse, st_mutex, st_buf, st_idx, st_arg, st_main,
    st_at, st_number, st_round, st_sold>>
cloneState ==
  <<cl_product, cl_warehouse, cl_mutex, cl_buf, cl_idx, cl_arg, cl_main,
    cl_at, cl_number, cl_round, cl_sold>>
queueState ==
  <<cq_queue, cq_idx_p, cq_idx_c, cq_mutex, cq_waiting, cq_pp, cq_pcons,
    cq_count>>
counterState ==
  <<rw_pc, rw_writer, rw_readers, rw_shared, rw_old, rw_cancelled, rw_main>>
pairState ==
  <<mp_key, mp_next_id, mp_msgs, mp_pc, mp_qid, mp__running, mp_pending,
    mp_interrupts>>
onceState ==
  <<mo_key, mo_made, mo_msgs, mo_pc, mo_qid, mo_got>>

Programs == {"Semaphore", "Pipe1", "Pipe2", "Stack", "Clone", "Queue", "Counter", "Pair", "Once"}

SuiteInit ==
    /\ program \in Programs
    /\ Init
    /\ Pipe1!Init
    /\ Pipe2!Init
    /\ Stack!Init
    /\ Clone!Init
    /\ Queue!Init
    /\ Counter!Init
    /\ Pair!Init
    /\ Once!Init

SuiteNext ==
    /\ UNCHANGED program
    /\ IF program = "Semaphore" THEN Next ELSE UNCHANGED vars
    /\ IF program = "Pipe1" THEN Pipe1!Next ELSE UNCHANGED pipe1State
    /\ IF program = "Pipe2" THEN Pipe2!Next ELSE UNCHANGED pipe2State
    /\ IF program = "Stack" THEN Stack!Next ELSE UNCHANGED stackState
    /\ IF program = "Clone" THEN Clone!Next ELSE UNCHANGED cloneState
    /\ IF program = "Queue" THEN Queue!Next ELSE UNCHANGED queueState
    /\ IF program = "Counter" THEN Counter!Next ELSE UNCHANGED counterState
    /\ IF program = "Pair" THEN Pair!Next ELSE UNCHANGED pairState
    /\ IF program = "Once" THEN Once!Next ELSE UNCHANGED onceState

\* Every process and thread is scheduled, a timeout passes, and a semaphore or
\* a lock that is free again and again is had in the end.
Fairness ==
    /\ WF_vars(program = "Semaphore" /\ Consume)
    /\ WF_vars(program = "Semaphore" /\ Timeout)
    /\ \A p \in Producers : WF_vars(program = "Semaphore" /\ Post(p))
    /\ WF_pipe1State(program = "Pipe1" /\ Pipe1!ParentStep)
    /\ \A q \in Pipe1!Procs : WF_pipe1State(program = "Pipe1" /\ Pipe1!Process(q))
    /\ WF_pipe2State(program = "Pipe2" /\ Pipe2!ParentStep)
    /\ \A q \in Pipe2!Procs : WF_pipe2State(program = "Pipe2" /\ Pipe2!Process(q))
    /\ WF_stackState(program = "Stack" /\ Stack!MainStep)
    /\ \A p \in Stack!Makers : WF_stackState(program = "Stack" /\ Stack!Producer(p))
    /\ \A q \in Stack!Takers : WF_stackState(program = "Stack" /\ Stack!Consumer(q))
    /\ WF_cloneState(program = "Clone" /\ Clone!MainStep)
    /\ \A p \in Clone!Makers : WF_cloneState(program = "Clone" /\ Clone!Producer(p))
    /\ \A q \in Clone!Takers : WF_cloneState(program = "Clone" /\ Clone!Consumer(q))
    /\ WF_queueState(program = "Queue" /\ Queue!Producer)
    /\ WF_queueState(program = "Queue" /\ Queue!Consumer)
    /\ SF_queueState(program = "Queue" /\ Queue!ProducerLock)
    /\ SF_queueState(program = "Queue" /\ (Queue!ConsumerLock \/ Queue!ConsumerWoken))
    /\ WF_counterState(program = "Counter" /\ Counter!Main)
    /\ \A t \in Writers \cup Readers :
           WF_counterState(program = "Counter" /\ rw_main # "destroyed" /\ Counter!Work(t))
    /\ \A w \in Writers :
           SF_counterState(program = "Counter" /\ rw_main # "destroyed" /\ Counter!WrLock(w))
    /\ \A p \in {"parent", "child"} : WF_pairState(program = "Pair" /\ Pair!Step(p))

SuiteSpec ==
    /\ SuiteInit
    /\ [][SuiteNext]_<<program, vars, pipe1State, pipe2State, stackState, cloneState, queueState, counterState, pairState, onceState>>
    /\ Fairness

----------------------------------------------------------------------------
\* What is between producers and consumers, a pipe, a stack, one place or a
\* queue, is a warehouse: a good is had once, nobody has one that was not made,
\* and no more are in it than it has room for.
Warehouses ==
    /\ Pipe1!ImplementsWarehouse /\ Pipe2!ImplementsWarehouse
    /\ Stack!ImplementsWarehouse /\ Clone!ImplementsWarehouse
    /\ Queue!ImplementsWarehouse

\* What threads do to memory, locks and ends of pipes they share: a consumer of
\* producer_consumer_2.c reads to the end whichever fork failed, the queue of
\* producer_consumer_5.c is read in order although its indices are used
\* without the mutex, and the writers of the read-write lock lose no count and
\* pass the limit, which each tests before it has the lock, by two at most.
SharedKept ==
    /\ TypeOK /\ Pipe2!TypeOK /\ Stack!TypeOK /\ Queue!TypeOK
    /\ Pipe2!ConsumersStayToTheEnd
    /\ Queue!InOrder
    /\ Counter!NothingLost /\ Counter!Overshoot

\* The message queues: an instance of ipc_mq.c reads a line nobody else reads,
\* and one that waits has a line to wait for or the queue removed under it;
\* a queue is left behind only where the code gives up without removing it, or
\* takes its id, 0, for an error.
QueuesServe ==
    /\ Once!ReadOnce /\ Once!OneForEach /\ Once!LeftByNoInput
    /\ Pair!QueueRemoved

\* Everybody ends: the processes of the pipes, the threads of the stack with all
\* goods had, the consumer of the condition, the main thread that waits for
\* the counter unless that passes the limit unseen, waits on the semaphore that
\* have a timeout or a unit, and the two processes of 01_msg.cpp after Ctrl-C
\* unless nobody removes the queue a parent waits on.
AllEnd ==
    /\ program \in {"Pipe1", "Pipe2"} => Pipe1!AllEnd \/ Pipe2!AllEnd
    /\ program \in {"Stack", "Clone"} => Stack!AllGot \/ Clone!AllGot
    /\ program = "Queue" => Queue!Success
    /\ program = "Counter" => Counter!MainEnds
    /\ program = "Semaphore" => TimedReturns /\ WaitReturns
    /\ program = "Pair" => Pair!CtrlCEnds
=============================================================================

---------------------------- MODULE DeferredWork ----------------------------
(***************************************************************************)
(* my_timer_module.c (ch10/timer_list) and my_tasklet_module.c             *)
(* (ch10/tasklet): a module whose init function starts a timer that starts *)
(* itself again, and one that schedules a tasklet.  The callback runs on   *)
(* another CPU than the exit function, which takes it back: del_timer does *)
(* not wait for a callback that is running, tasklet_kill does.             *)
(***************************************************************************)
EXTENDS Integers, FiniteSets

CONSTANTS
    Timers, Tasklets,   \* modules of either kind
    Rounds,             \* after so many calls the timer is not set again
    Loads               \* bound: how often a module is loaded

Modules == Timers \cup Tasklets

VARIABLES
    state,      \* of a module: out, in, killing
    pending,    \* modules whose timer is set or whose tasklet is scheduled
    running,    \* of a module: idle, entered, or counted
    count,
    loads

vars == <<state, pending, running, count, loads>>

WellFormed == Timers \cap Tasklets = {}

Init ==
    /\ state = [m \in Modules |-> "out"]
    /\ pending = {}
    /\ running = [m \in Modules |-> "idle"]
    /\ count = [m \in Modules |-> 0]
    /\ loads = [m \in Modules |-> 0]

\* timer_setup and mod_timer, or tasklet_init and tasklet_schedule
Load(m) ==
    /\ state[m] = "out" /\ loads[m] < Loads
    /\ m \notin pending /\ running[m] = "idle"
    /\ state' = [state EXCEPT ![m] = "in"]
    /\ pending' = pending \cup {m}
    /\ count' = [count EXCEPT ![m] = 0]
    /\ loads' = [loads EXCEPT ![m] = @ + 1]
    /\ UNCHANGED running

\* fault: a tasklet is disabled when its module goes
NotGoing(m) == state[m] # "killing"
Enabled(m) == TRUE

\* The timer expires, or the softirq takes the tasklet.
Fire(m) ==
    /\ m \in pending /\ running[m] = "idle" /\ Enabled(m)
    /\ pending' = pending \ {m}
    /\ running' = [running EXCEPT ![m] = "entered"]
    /\ UNCHANGED <<state, count, loads>>

Count(m) ==
    /\ running[m] = "entered"
    /\ count' = [count EXCEPT ![m] = @ + 1]
    /\ running' = [running EXCEPT ![m] = "counted"]
    /\ UNCHANGED <<state, pending, loads>>

\* fault: the timer is set again by the first calls only
Stops(m) == count[m] > Rounds
Again(m) == m \in Timers /\ count[m] < Rounds

Leave(m) ==
    /\ running[m] = "counted"
    /\ running' = [running EXCEPT ![m] = "idle"]
    /\ pending' = IF Again(m) THEN pending \cup {m} ELSE pending
    /\ UNCHANGED <<state, count, loads>>

DelTimer(m) ==
    /\ m \in Timers /\ state[m] = "in"
    /\ pending' = pending \ {m}
    /\ state' = [state EXCEPT ![m] = "out"]
    /\ UNCHANGED <<running, count, loads>>

Kill(m) ==
    /\ m \in Tasklets /\ state[m] = "in"
    /\ state' = [state EXCEPT ![m] = "killing"]
    /\ UNCHANGED <<pending, running, count, loads>>

\* fault: a tasklet that has begun is not waited for
NotScheduled(m) == m \notin pending
Over(m) == m \notin pending /\ running[m] = "idle"

\* tasklet_kill returns and the module goes
Killed(m) ==
    /\ state[m] = "killing" /\ Over(m)
    /\ state' = [state EXCEPT ![m] = "out"]
    /\ UNCHANGED <<pending, running, count, loads>>

Callback(m) == Fire(m) \/ Count(m) \/ Leave(m)

Next == \E m \in Modules :
    Load(m) \/ Callback(m) \/ DelTimer(m) \/ Kill(m) \/ Killed(m)

Spec == Init /\ [][Next]_vars

----------------------------------------------------------------------------
(***************************************************************************)
(* "Disable the tasklet (makes sure it is not accessed after it has run)", *)
(* my_tasklet_module.c:34: no function of the tasklet module runs, or will *)
(* run, when the module has gone.                                          *)
(***************************************************************************)
TaskletGone == \A m \in Tasklets : state[m] = "out" => m \notin pending /\ running[m] = "idle"

Times(m) == IF m \in Timers THEN Rounds ELSE 1

(***************************************************************************)
(* The callback is called Rounds times and no more, unless the module goes *)
(* before that; a tasklet once.                                            *)
(***************************************************************************)
AllRounds ==
    \A m \in Modules :
        state[m] = "in" ~> \/ state[m] = "out"
                           \/ count[m] = Times(m) /\ m \notin pending /\ running[m] = "idle"

(***************************************************************************)
(* A module being unloaded goes.                                           *)
(***************************************************************************)
Unloads == \A m \in Modules : state[m] = "killing" ~> state[m] = "out"
=============================================================================

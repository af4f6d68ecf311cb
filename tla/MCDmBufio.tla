----------------------------- MODULE MCDmBufio -----------------------------
(***************************************************************************)
(* Instances of DmBufio for TLC.  A behaviour is of one scenario: which    *)
(* thread may call what, what the device may fail and what the limits are. *)
(***************************************************************************)
EXTENDS DmBufioInv, TLC

CONSTANTS t1, t2, t3, Scenarios

VARIABLE scenario

Three(c1, c2, c3) == [t \in Threads |-> CASE t = t1 -> c1 [] t = t2 -> c2 [] t = t3 -> c3]
Two(c1, c2)       == Three(c1, c2, {})

\* Both threads look for the same blocks, in every way there is.
Readers == INSTANCE DmBufio WITH
  Calls <- Two({"read", "new", "get", "prefetch"}, {"read", "get", "prefetch"}),
  Limits <- {1}, PrefetchSizes <- {1, 2}, Failures <- {"read"}

\* One thread dirties blocks, again and again, and flushes, while the other brings
\* blocks in; whoever finds no buffer writes one back.
Writers == INSTANCE DmBufio WITH
  Calls <- Two({"read", "dirty", "sync"}, {"prefetch"}),
  Limits <- {1}, PrefetchSizes <- {1}, Failures <- {}

\* One thread dirties blocks and starts writes, the other one uses the blocks too.
Sharers == INSTANCE DmBufio WITH
  Calls <- Two({"read", "dirty", "async"}, {"read", "prefetch"}),
  Limits <- {1}, PrefetchSizes <- {1}, Failures <- {}

\* One thread dirties a block; two flush, and the error of a write goes to one of them.
TwoFlushers == INSTANCE DmBufio WITH
  Calls <- Three({"read", "dirty"}, {"sync"}, {"sync"}),
  Limits <- {2}, MaxGen <- 2, Failures <- {"read", "write"}

\* One thread moves blocks the other one holds, dirties and flushes.
Movers == INSTANCE DmBufio WITH
  Calls <- Two({"read", "dirty", "move"}, {"read", "dirty", "sync"}),
  Limits <- {2}, MaxGen <- 2, Failures <- {}

\* A client beside the shrinker and the age worker.
Shrinkers == INSTANCE DmBufio WITH
  Calls <- Three({"read", "dirty", "forget", "prefetch"}, {"scan_fs", "scan_nofs"}, {"age"}),
  Limits <- {3}, PrefetchSizes <- {1}, Failures <- {"write"}

\* A client that is destroyed while the shrinker and the age worker run.
Destroyers == INSTANCE DmBufio WITH
  Calls <- Three({"read", "dirty", "prefetch", "destroy"}, {"scan_fs"}, {"age"}),
  Limits <- {2}, PrefetchSizes <- {2}, MaxGen <- 2, Failures <- {"read", "write"}

\* One thread dirties buffers and starts writes for ever, the other flushes.
Dirtiers == INSTANCE DmBufio WITH
  Calls <- Two({"read", "dirty", "async"}, {"sync"}),
  Limits <- {2}, PrefetchSizes <- {1}, Failures <- {}

\* The calls of this step name no block outside S.
Only(S) == \A t \in Threads : loc'[t].blk \in S \cup {NoBlock}

Idle == [t \in Threads |-> {}]

SuiteInit == scenario \in Scenarios /\ Init

SuiteNext ==
  /\ UNCHANGED scenario
  /\ \/ scenario = "readers"    /\ Readers!Next
     \/ scenario = "writers"    /\ Writers!Next
     \/ scenario = "sharers"    /\ Sharers!Next
     \/ scenario = "flushers"   /\ TwoFlushers!Next /\ Only({0})
     \/ scenario = "movers"     /\ Movers!Next
     \/ scenario = "shrinkers"  /\ Shrinkers!Next
     \/ scenario = "destroyers" /\ Destroyers!Next
     \/ scenario = "dirtiers"   /\ Dirtiers!Next
     \/ status = "closed" /\ UNCHANGED vars     \* a destroyed client stops

SuiteSpec == SuiteInit /\ [][SuiteNext]_<<scenario, vars>>

\* See DmBufio for what is fair.
FairSuiteSpec == SuiteSpec /\ Fairness

SymBuffers == Permutations(Buffers)
=============================================================================

-------------------------- MODULE MCDmBufioClients --------------------------
(***************************************************************************)
(* Instances of DmBufioClients for TLC.  A behaviour is of one scenario:   *)
(* which thread may call what, and the sizes a user may set.               *)
(***************************************************************************)
EXTENDS DmBufioClients

CONSTANTS t1, t2, t3, Scenarios

VARIABLE scenario

Three(c1, c2, c3) == [t \in Threads |-> CASE t = t1 -> c1 [] t = t2 -> c2 [] t = t3 -> c3]

\* Two threads create, use and destroy clients beside the shrinker, while the
\* user writes the parameter; the age worker does not run.
Resizing == INSTANCE DmBufioClients WITH
  Sizes <- {0, 6},
  Calls <- Three({"create", "use", "destroy"}, {"create", "use", "destroy"},
                 {"scan_fs", "scan_nofs"})

\* The age worker runs, and the parameter stays as it is.
Aging == INSTANCE DmBufioClients WITH
  Sizes <- {},
  Calls <- Three({"create", "use", "destroy"}, {"use", "destroy", "scan_fs"}, {"age"})

\* The age worker runs while the user writes the parameter.
Both == INSTANCE DmBufioClients WITH
  Sizes <- {6},
  Calls <- Three({"create", "use", "destroy"}, {"use", "destroy", "scan_fs"}, {"age"})

Idle == [t \in Threads |-> {}]

SuiteInit == scenario \in Scenarios /\ Init

SuiteNext ==
  /\ UNCHANGED scenario
  /\ \/ scenario = "resizing" /\ Resizing!Next
     \/ scenario = "aging"    /\ Aging!Next
     \/ scenario = "both"     /\ Both!Next

SuiteSpec == SuiteInit /\ [][SuiteNext]_<<scenario, vars>>
=============================================================================

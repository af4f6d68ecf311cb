------------------------------ MODULE MCModules ------------------------------
(***************************************************************************)
(* Three drivers, a timer and two tasklets, a RAM disk, the worker of dm-  *)
(* bufio with jiffies that wrap at time 2, where 2 seconds do not fit into *)
(* an unsigned int, and two clients of dm-bufio with a block size for      *)
(* every allocator.                                                        *)
(***************************************************************************)
EXTENDS KernelModules

OneFixed == {"chrdevbase"}
TwoDynamic == {"chrdevbase_dynamic", "dev_test"}
OneTask == {"t1"}
ThreeMajors == 1..3

OneTimer == {"timer"}
TwoTasklets == {"tasklet", "tasklet2"}

\* 9 is 1 as an int
FourSizes == {0, 2, 3, 9}
TwoContents == {"v1", "v2"}

TwoBuffers == {"b1", "b2"}
TwoAges == {1, 2}
TwoTargets == {0, 1}

TwoClients == {"c1", "c2"}
ThreeBlockSizes == {1, 4, 16}
=============================================================================

------------------------------ MODULE MCThreads ------------------------------
(***************************************************************************)
(* The small programs, each with the fewest threads and goods in which     *)
(* they wait for each other in every way they can.                         *)
(***************************************************************************)
EXTENDS Threads

CONSTANTS a, b, c

ThreeProducers == {a, b, c}

\* two producers and two consumers of the three each of the source
FourForks == <<"p1", "p2", "c1", "c2">>
TwoFillers == {"p1", "p2"}

ThreeWriters == {"w1", "w2", "w3"}
OneReader == {"r1"}

\* the first queue of the system, or not
ZeroOrOne == {0, 1}

ThreeInstances == {"i1", "i2", "i3"}
=============================================================================

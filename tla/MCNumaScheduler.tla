-------------------------- MODULE MCNumaScheduler --------------------------
(***************************************************************************)
(* NumaScheduler for TLC: two workers with tasks on two NUMA nodes.        *)
(***************************************************************************)
EXTENDS NumaScheduler, TLC

CONSTANTS w1, w2

\* w1 has a vertex on each node, w2 one vertex whose hint exceeds the number
\* of nodes.
TwoHints == w1 :> <<0, 1>> @@ w2 :> <<3>>
============================================================================

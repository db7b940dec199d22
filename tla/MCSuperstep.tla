---------------------------- MODULE MCSuperstep ----------------------------
(***************************************************************************)
(* Instances of Superstep for TLC.  Vertex v belongs to worker             *)
(* v % WorkerCount: with two workers, 0 and 2 to worker 0 and 1 to worker  *)
(* 1.                                                                      *)
(***************************************************************************)
EXTENDS Superstep, TLC

\* Everybody may send to vertex 0, which answers.
TriangleEdges == 0 :> {1, 2} @@ 1 :> {0} @@ 2 :> {0}

\* Vertex 0 sends to a vertex of its own worker, which answers, and to one of
\* the other worker.
ForkEdges == 0 :> {1, 2} @@ 1 :> {} @@ 2 :> {0}

\* Two vertices that send to each other.
PairEdges == 0 :> {1} @@ 1 :> {0}
============================================================================

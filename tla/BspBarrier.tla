---------------------------- MODULE BspBarrier ----------------------------
(***************************************************************************)
(* What a reusable barrier promises: worker w arrives at its n-th barrier  *)
(* and passes it only after every worker has arrived at an n-th barrier.   *)
(* arrivals[w] and passes[w] count w's arrivals and departures.            *)
(*                                                                         *)
(* BarrierSync shows that MessageBus::barrier_sync implements this         *)
(* specification; Superstep uses it as its barrier.                        *)
(***************************************************************************)
EXTENDS Naturals

CONSTANT Workers

VARIABLES arrivals, passes

barrierVars == <<arrivals, passes>>

BarrierInit ==
  /\ arrivals = [w \in Workers |-> 0]
  /\ passes   = [w \in Workers |-> 0]

Arrive(w) ==
  /\ arrivals[w] = passes[w]
  /\ arrivals' = [arrivals EXCEPT ![w] = @ + 1]
  /\ UNCHANGED passes

Pass(w) ==
  /\ passes[w] < arrivals[w]
  /\ \A v \in Workers : arrivals[v] >= arrivals[w]
  /\ passes' = [passes EXCEPT ![w] = @ + 1]
  /\ UNCHANGED arrivals

BarrierNext == \E w \in Workers : Arrive(w) \/ Pass(w)

BarrierSpec == BarrierInit /\ [][BarrierNext]_barrierVars
===========================================================================

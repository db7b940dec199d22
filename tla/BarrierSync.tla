---------------------------- MODULE BarrierSync ----------------------------
(***************************************************************************)
(* MessageBus::barrier_sync (message_bus.cpp), the barrier every worker    *)
(* crosses at the end of a superstep.  It is built from two process-wide   *)
(* atomics, barrier_counter_ and barrier_epoch_, and is reused in every    *)
(* superstep without being re-initialised.                                 *)
(*                                                                         *)
(* Each atomic operation of the function is one action, so that any two    *)
(* workers may be anywhere inside it.  Callers are left unconstrained:     *)
(* a worker may call the barrier again as soon as its last call returned,  *)
(* which is more than Coordinator::run allows.                             *)
(***************************************************************************)
EXTENDS Naturals, FiniteSets

CONSTANTS
  Workers,    \* the threads that share the barrier (total_workers of them)
  EpochMod,   \* number of values of barrier_epoch_ (2^32 in the code)
  MaxRounds   \* bound: how often each worker calls barrier_sync

ASSUME WorkersAssumption  == IsFiniteSet(Workers) /\ Workers # {}
ASSUME EpochModAssumption == EpochMod \in Nat /\ EpochMod >= 2
ASSUME RoundsAssumption   == MaxRounds \in Nat

VARIABLES
  barrier_counter,  \* static std::atomic<uint64_t> barrier_counter_
  barrier_epoch,    \* static std::atomic<uint32_t> barrier_epoch_
  pc,               \* where each worker is in barrier_sync
  epoch,            \* the local variable epoch of each worker
  arrivals,         \* history: fetch_adds on barrier_counter_ by each worker
  passes,           \* history: returns from barrier_sync by each worker
  releases          \* history: fetch_adds on barrier_epoch_

vars == <<barrier_counter, barrier_epoch, pc, epoch, arrivals, passes, releases>>

TotalWorkers == Cardinality(Workers)

\* "out": not in the function; "loaded": epoch read, not yet counted;
\* "reset" and "flip": the last to arrive, before its store and before its
\* fetch_add; "spin": waiting for the epoch to change.
PC == {"out", "loaded", "reset", "flip", "spin"}

Init ==
  /\ barrier_counter = 0
  /\ barrier_epoch = 0
  /\ pc       = [w \in Workers |-> "out"]
  /\ epoch    = [w \in Workers |-> 0]
  /\ arrivals = [w \in Workers |-> 0]
  /\ passes   = [w \in Workers |-> 0]
  /\ releases = 0

\* Faulty variants of the definitions below, one plausible slip each; a run
\* that replaces the definition by its variant must find a violation.
BumpWithoutWrap == barrier_epoch + 1

LastButOne(arrived) == arrived = TotalWorkers - 1

ResetForgotten(w) ==
  /\ pc[w] = "reset"
  /\ pc' = [pc EXCEPT ![w] = "flip"]
  /\ UNCHANGED <<barrier_counter, barrier_epoch, epoch, arrivals, passes, releases>>

ResetToOne(w) ==
  /\ pc[w] = "reset"
  /\ barrier_counter' = 1
  /\ pc' = [pc EXCEPT ![w] = "flip"]
  /\ UNCHANGED <<barrier_epoch, epoch, arrivals, passes, releases>>

SpinIsNoLoop(w) ==
  /\ pc[w] = "spin"
  /\ pc' = [pc EXCEPT ![w] = "out"]
  /\ passes' = [passes EXCEPT ![w] = @ + 1]
  /\ UNCHANGED <<barrier_counter, barrier_epoch, epoch, arrivals, releases>>

----------------------------------------------------------------------------
LoadEpoch(w) ==
  /\ pc[w] = "out"
  /\ passes[w] < MaxRounds
  /\ epoch' = [epoch EXCEPT ![w] = barrier_epoch]
  /\ pc' = [pc EXCEPT ![w] = "loaded"]
  /\ UNCHANGED <<barrier_counter, barrier_epoch, arrivals, passes, releases>>

IsLast(arrived) == arrived = TotalWorkers

Arrive(w) ==
  /\ pc[w] = "loaded"
  /\ barrier_counter' = barrier_counter + 1
  /\ pc' = [pc EXCEPT ![w] = IF IsLast(barrier_counter') THEN "reset" ELSE "spin"]
  /\ arrivals' = [arrivals EXCEPT ![w] = @ + 1]
  /\ UNCHANGED <<barrier_epoch, epoch, passes, releases>>

ResetCounter(w) ==
  /\ pc[w] = "reset"
  /\ barrier_counter' = 0
  /\ pc' = [pc EXCEPT ![w] = "flip"]
  /\ UNCHANGED <<barrier_epoch, epoch, arrivals, passes, releases>>

NextEpoch == (barrier_epoch + 1) % EpochMod

\* The fetch_add on the epoch releases the spinners; the last to arrive
\* returns without spinning.
FlipEpoch(w) ==
  /\ pc[w] = "flip"
  /\ barrier_epoch' = NextEpoch
  /\ releases' = releases + 1
  /\ pc' = [pc EXCEPT ![w] = "out"]
  /\ passes' = [passes EXCEPT ![w] = @ + 1]
  /\ UNCHANGED <<barrier_counter, epoch, arrivals>>

\* Iterations of the spin loop that see the old epoch change nothing.
LeaveSpin(w) ==
  /\ pc[w] = "spin"
  /\ barrier_epoch # epoch[w]
  /\ pc' = [pc EXCEPT ![w] = "out"]
  /\ passes' = [passes EXCEPT ![w] = @ + 1]
  /\ UNCHANGED <<barrier_counter, barrier_epoch, epoch, arrivals, releases>>

Step(w) ==
  LoadEpoch(w) \/ Arrive(w) \/ ResetCounter(w) \/ FlipEpoch(w) \/ LeaveSpin(w)

Done ==
  /\ \A w \in Workers : pc[w] = "out" /\ passes[w] = MaxRounds
  /\ UNCHANGED vars

Next == (\E w \in Workers : Step(w)) \/ Done

Spec == Init /\ [][Next]_vars

\* Every worker is a running thread that calls the barrier in each superstep.
Fairness == \A w \in Workers : WF_vars(Step(w))
FairSpec == Spec /\ Fairness

----------------------------------------------------------------------------
TypeOK ==
  /\ barrier_counter \in Nat
  /\ barrier_epoch \in 0 .. EpochMod - 1
  /\ pc       \in [Workers -> PC]
  /\ epoch    \in [Workers -> 0 .. EpochMod - 1]
  /\ arrivals \in [Workers -> Nat]
  /\ passes   \in [Workers -> Nat]
  /\ releases \in Nat

\* No worker is past its n-th barrier while another has not reached its own
\* n-th: the counter and the epoch never let a thread through early, even
\* when fast workers are back in the barrier before slow ones have left it.
BarrierHolds == \A u, v \in Workers : passes[u] <= arrivals[v]

\* Whenever no worker is inside barrier_sync the counter is back at zero.
\* barrier_counter_ is static and outlives the engine: the next superstep,
\* or the next GraphEngine with another worker count (bench_throughput),
\* starts from it.
QuiescentReset ==
  (\A w \in Workers : pc[w] = "out") => barrier_counter = 0

\* Every worker gets through all of its barriers: nobody is left spinning on
\* an epoch that was advanced, wrapped around or skipped.
AllRoundsPass == <>[](\A w \in Workers : passes[w] = MaxRounds)

----------------------------------------------------------------------------
\* The abstract barrier, and barrier_sync as an implementation of it.
Abs == INSTANCE BspBarrier
ImplementsBarrier == Abs!BarrierSpec

----------------------------------------------------------------------------
(***************************************************************************)
(* The inductive invariant.  releases is the number R of completed rounds. *)
(***************************************************************************)
Arrived == {w \in Workers : arrivals[w] = releases + 1}
Last    == {w \in Workers : pc[w] \in {"reset", "flip"}}

\* What a worker's position says about its counts and its copy of the epoch.
RoundInv(w) ==
  /\ pc[w] \in {"out", "loaded"} => arrivals[w] = releases /\ passes[w] = releases
  /\ pc[w] = "loaded" => epoch[w] = barrier_epoch
  /\ pc[w] \in {"reset", "flip"} => arrivals[w] = releases + 1 /\ passes[w] = releases
  /\ pc[w] = "spin" =>
       \/ epoch[w] = barrier_epoch /\ arrivals[w] = releases + 1 /\ passes[w] = releases
       \/ epoch[w] # barrier_epoch /\ arrivals[w] = releases /\ passes[w] + 1 = releases

\* What the counter says about who has arrived.
CounterInv ==
  /\ (\A w \in Workers : pc[w] # "flip") => barrier_counter = Cardinality(Arrived)
  /\ Last = {} => Arrived # Workers
  /\ Last # {} => Arrived = Workers
  /\ \A u, v \in Last : u = v
  /\ (\E w \in Workers : pc[w] = "flip") => barrier_counter = 0

IInv == TypeOK /\ (\A w \in Workers : RoundInv(w)) /\ CounterInv
============================================================================

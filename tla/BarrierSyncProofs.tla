------------------------- MODULE BarrierSyncProofs -------------------------
(***************************************************************************)
(* Proofs about BarrierSync for every finite, nonempty set of workers, any *)
(* width of the epoch of at least one bit and any number of rounds.        *)
(***************************************************************************)
EXTENDS BarrierSync, FiniteSetTheorems, TLAPS

\* Cardinality facts about the set of workers that arrived in a round.
LEMMA ArrivedCardinality ==
  ASSUME NEW S \in SUBSET Workers
  PROVE  /\ IsFiniteSet(S)
         /\ Cardinality(S) \in Nat
         /\ Cardinality(S) = TotalWorkers <=> S = Workers
         /\ \A w \in Workers \ S : Cardinality(S \cup {w}) = Cardinality(S) + 1
<1>1. IsFiniteSet(S)
  BY FS_Subset, WorkersAssumption
<1>2. Cardinality(S) \in Nat
  BY <1>1, FS_CardinalityType
<1>3. Cardinality(S) = TotalWorkers <=> S = Workers
  BY FS_Subset, WorkersAssumption DEF TotalWorkers
<1>4. \A w \in Workers \ S : Cardinality(S \cup {w}) = Cardinality(S) + 1
  BY <1>1, FS_AddElement
<1> QED
  BY <1>1, <1>2, <1>3, <1>4

\* The epoch after a release differs from the epoch before it.
LEMMA EpochMoves ==
  ASSUME NEW e \in 0 .. EpochMod - 1
  PROVE  /\ (e + 1) % EpochMod \in 0 .. EpochMod - 1
         /\ (e + 1) % EpochMod # e
<1>1. CASE e + 1 = EpochMod
  <2>1. (e + 1) % EpochMod = 0
    BY <1>1, EpochModAssumption
  <2> QED
    BY <1>1, <2>1, EpochModAssumption
<1>2. CASE e + 1 < EpochMod
  <2>1. (e + 1) % EpochMod = e + 1
    BY <1>2, EpochModAssumption
  <2> QED
    BY <1>2, <2>1, EpochModAssumption
<1> QED
  BY <1>1, <1>2, EpochModAssumption

\* The initial state satisfies the inductive invariant.
LEMMA InitIInv == Init => IInv
<1> SUFFICES ASSUME Init PROVE IInv
  OBVIOUS
<1>1. TypeOK
  BY EpochModAssumption DEF Init, TypeOK, PC
<1>2. \A w \in Workers : RoundInv(w)
  BY DEF Init, RoundInv
<1>3. Arrived = {} /\ Last = {}
  BY DEF Init, Arrived, Last
<1>4. CounterInv
  BY <1>3, FS_EmptySet, WorkersAssumption DEF Init, CounterInv
<1> QED
  BY <1>1, <1>2, <1>4 DEF IInv

\* Every action of every worker preserves the inductive invariant.
LEMMA NextIInv == IInv /\ [Next]_vars => IInv'
<1> SUFFICES ASSUME IInv, [Next]_vars PROVE IInv'
  OBVIOUS
<1> USE DEF IInv
<1>1. ASSUME NEW w \in Workers, LoadEpoch(w) PROVE IInv'
  <2>1. TypeOK'
    BY <1>1 DEF LoadEpoch, TypeOK, PC
  <2>2. \A v \in Workers : RoundInv(v)'
    BY <1>1 DEF LoadEpoch, TypeOK, PC, RoundInv
  <2>3. Arrived' = Arrived /\ Last' = Last
    BY <1>1 DEF LoadEpoch, TypeOK, Arrived, Last
  <2>4. CounterInv'
    BY <1>1, <2>3 DEF LoadEpoch, TypeOK, CounterInv, Last
  <2> QED
    BY <2>1, <2>2, <2>4
<1>2. ASSUME NEW w \in Workers, Arrive(w) PROVE IInv'
  <2>1. Arrived \in SUBSET Workers /\ w \notin Arrived /\ w \notin Last
    BY <1>2 DEF Arrive, RoundInv, Arrived, Last, TypeOK
  <2>2. Last = {} /\ \A v \in Workers : pc[v] # "flip"
    BY <1>2, <2>1 DEF CounterInv, Last, Arrive
  <2>3. barrier_counter = Cardinality(Arrived)
    BY <2>2 DEF CounterInv
  <2>4. Arrived' = Arrived \cup {w}
    BY <1>2 DEF Arrive, RoundInv, Arrived, TypeOK
  <2>5. barrier_counter' = Cardinality(Arrived')
    BY <1>2, <2>1, <2>3, <2>4, ArrivedCardinality DEF Arrive
  <2>6. IsLast(barrier_counter') <=> Arrived' = Workers
    BY <2>1, <2>4, <2>5, ArrivedCardinality DEF IsLast
  <2>7. TypeOK'
    BY <1>2 DEF Arrive, TypeOK, PC
  <2>8. \A v \in Workers : RoundInv(v)'
    BY <1>2 DEF Arrive, TypeOK, PC, RoundInv
  <2>9. Last' = IF IsLast(barrier_counter') THEN {w} ELSE {}
    BY <1>2, <2>2 DEF Arrive, TypeOK, Last
  <2>10. \A v \in Workers : pc'[v] # "flip"
    BY <1>2, <2>2 DEF Arrive, TypeOK
  <2>11. CounterInv'
    BY <2>5, <2>6, <2>9, <2>10 DEF CounterInv
  <2> QED
    BY <2>7, <2>8, <2>11
<1>3. ASSUME NEW w \in Workers, ResetCounter(w) PROVE IInv'
  <2>1. TypeOK'
    BY <1>3 DEF ResetCounter, TypeOK, PC
  <2>2. \A v \in Workers : RoundInv(v)'
    BY <1>3 DEF ResetCounter, TypeOK, PC, RoundInv
  <2>3. Arrived' = Arrived /\ Last' = Last /\ w \in Last
    BY <1>3 DEF ResetCounter, TypeOK, Arrived, Last
  <2>4. CounterInv'
    BY <1>3, <2>3 DEF ResetCounter, TypeOK, CounterInv
  <2> QED
    BY <2>1, <2>2, <2>4
<1>4. ASSUME NEW w \in Workers, FlipEpoch(w) PROVE IInv'
  <2>1. w \in Last /\ Arrived = Workers
    BY <1>4 DEF FlipEpoch, CounterInv, Last
  <2>2. /\ barrier_epoch' \in 0 .. EpochMod - 1
        /\ barrier_epoch' # barrier_epoch
    BY <1>4, EpochMoves DEF FlipEpoch, NextEpoch, TypeOK
  <2>3. TypeOK'
    BY <1>4, <2>2 DEF FlipEpoch, TypeOK, PC
  <2>4. \A v \in Workers \ {w} : pc[v] = "spin" /\ epoch[v] = barrier_epoch
    BY <2>1 DEF CounterInv, Last, Arrived, RoundInv, TypeOK, PC
  <2>5. \A v \in Workers : RoundInv(v)'
    <3> SUFFICES ASSUME NEW v \in Workers PROVE RoundInv(v)'
      OBVIOUS
    <3>1. CASE v = w
      BY <1>4, <3>1 DEF FlipEpoch, TypeOK, RoundInv
    <3>2. CASE v # w
      BY <1>4, <2>1, <2>2, <2>4, <3>2 DEF FlipEpoch, TypeOK, RoundInv, Arrived
    <3> QED
      BY <3>1, <3>2
  <2>6. Arrived' = {}
    BY <1>4, <2>1 DEF FlipEpoch, TypeOK, Arrived
  <2>7. Last' = {}
    BY <1>4, <2>4 DEF FlipEpoch, TypeOK, Last
  <2>8. barrier_counter' = 0
    BY <1>4 DEF FlipEpoch, CounterInv
  <2>9. CounterInv'
    BY <2>6, <2>7, <2>8, FS_EmptySet, WorkersAssumption DEF CounterInv, Last
  <2> QED
    BY <2>3, <2>5, <2>9
<1>5. ASSUME NEW w \in Workers, LeaveSpin(w) PROVE IInv'
  <2>1. TypeOK'
    BY <1>5 DEF LeaveSpin, TypeOK, PC
  <2>2. \A v \in Workers : RoundInv(v)'
    BY <1>5 DEF LeaveSpin, TypeOK, PC, RoundInv
  <2>3. Arrived' = Arrived /\ Last' = Last
    BY <1>5 DEF LeaveSpin, TypeOK, Arrived, Last
  <2>4. CounterInv'
    BY <1>5, <2>3 DEF LeaveSpin, TypeOK, CounterInv
  <2> QED
    BY <2>1, <2>2, <2>4
<1>6. CASE UNCHANGED vars
  BY <1>6 DEF vars, TypeOK, RoundInv, CounterInv, Arrived, Last
<1> QED
  BY <1>1, <1>2, <1>3, <1>4, <1>5, <1>6 DEF Next, Step, Done

\* The inductive invariant holds in every reachable state.
THEOREM Invariance == Spec => []IInv
  BY InitIInv, NextIInv, PTL DEF Spec

\* All variables of barrier_sync keep their types; in particular the epoch
\* stays within its width.
THEOREM TypeCorrect == Spec => []TypeOK
<1>1. IInv => TypeOK
  BY DEF IInv
<1> QED
  BY <1>1, Invariance, PTL

\* No worker leaves barrier_sync for the n-th time before all have counted
\* themselves in for the n-th time.
THEOREM BarrierSafety == Spec => []BarrierHolds
<1>1. IInv => BarrierHolds
  <2> SUFFICES ASSUME IInv, NEW u \in Workers, NEW v \in Workers
               PROVE  passes[u] <= arrivals[v]
    BY DEF BarrierHolds
  <2>1. passes[u] <= releases
    BY DEF IInv, RoundInv, TypeOK, PC
  <2>2. releases <= arrivals[v]
    BY DEF IInv, RoundInv, TypeOK, PC
  <2> QED
    BY <2>1, <2>2 DEF IInv, TypeOK
<1> QED
  BY <1>1, Invariance, PTL

\* barrier_counter_ is zero whenever no thread is inside barrier_sync.
THEOREM CounterReset == Spec => []QuiescentReset
<1>1. IInv => QuiescentReset
  <2> SUFFICES ASSUME IInv, \A w \in Workers : pc[w] = "out"
               PROVE  barrier_counter = 0
    BY DEF QuiescentReset
  <2>1. Arrived = {}
    BY DEF IInv, RoundInv, TypeOK, Arrived
  <2> QED
    BY <2>1, FS_EmptySet DEF IInv, CounterInv
<1> QED
  BY <1>1, Invariance, PTL

\* barrier_sync implements the abstract barrier of BspBarrier: its fetch_add
\* on the counter is the abstract arrival and its return the abstract pass.
THEOREM Refinement == Spec => ImplementsBarrier
<1>1. Init => Abs!BarrierInit
  BY DEF Init, Abs!BarrierInit
<1>2. IInv /\ [Next]_vars => [Abs!BarrierNext]_(Abs!barrierVars)
  <2> SUFFICES ASSUME IInv, [Next]_vars
               PROVE  [Abs!BarrierNext]_(Abs!barrierVars)
    OBVIOUS
  <2> USE DEF Abs!BarrierNext, Abs!barrierVars, Abs!Arrive, Abs!Pass
  <2>1. ASSUME NEW w \in Workers, Arrive(w) PROVE Abs!Arrive(w)
    BY <2>1 DEF Arrive, IInv, RoundInv, TypeOK
  <2>2. ASSUME NEW w \in Workers, FlipEpoch(w) PROVE Abs!Pass(w)
    <3>1. w \in Last /\ Arrived = Workers
      BY <2>2 DEF FlipEpoch, IInv, CounterInv, Last
    <3> QED
      BY <2>2, <3>1 DEF FlipEpoch, IInv, RoundInv, TypeOK, Arrived
  <2>3. ASSUME NEW w \in Workers, LeaveSpin(w) PROVE Abs!Pass(w)
    <3>1. arrivals[w] = releases /\ passes[w] + 1 = releases
      BY <2>3 DEF LeaveSpin, IInv, RoundInv
    <3>2. \A v \in Workers : arrivals[v] >= releases
      BY DEF IInv, RoundInv, TypeOK, PC
    <3> QED
      BY <2>3, <3>1, <3>2 DEF LeaveSpin, IInv, TypeOK
  <2>4. ASSUME NEW w \in Workers, LoadEpoch(w) \/ ResetCounter(w)
        PROVE  UNCHANGED <<arrivals, passes>>
    BY <2>4 DEF LoadEpoch, ResetCounter
  <2>5. CASE UNCHANGED vars
    BY <2>5 DEF vars
  <2> QED
    BY <2>1, <2>2, <2>3, <2>4, <2>5 DEF Next, Step, Done
<1> QED
  BY <1>1, <1>2, Invariance, PTL DEF Spec, ImplementsBarrier, Abs!BarrierSpec
============================================================================

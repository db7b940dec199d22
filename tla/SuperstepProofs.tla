-------------------------- MODULE SuperstepProofs --------------------------
(***************************************************************************)
(* Proofs about Superstep, for any number of workers, any graph, any       *)
(* vertex program and any number of supersteps.                            *)
(***************************************************************************)
EXTENDS Superstep, FiniteSetTheorems, TLAPS

(***************************************************************************)
(* Where a worker is in run_superstep                                      *)
(***************************************************************************)
Arrived(w)    == pc[w] \in {"spin", "active", "returned"}
Flushed(w)    == pc[w] \in {"barrier", "spin", "active", "returned"}
Waited(w)     == pc[w] = "collect" \/ Flushed(w)
Starting(w)   == pc[w] \in {"drain", "build"}
Submitting(w) == pc[w] \in {"submit", "count"}

\* Workers between their push and their increment of total_submitted_.
Counting == {w \in Workers : pc[w] = "count"}

\* The members have their types.
WorkOK ==
  /\ pc \in [Workers -> PC]
  /\ todo \in [Workers -> SUBSET Vertices]
  /\ counted \in [Workers -> SUBSET Vertices]
  /\ clearing \in [Workers -> SUBSET Vertices]
  /\ active \in [Workers -> 0 .. Cardinality(Vertices)]
VertexOK ==
  /\ halted \in [Vertices -> BOOLEAN]
  /\ outbox \in [Vertices -> SUBSET Message]
  /\ sending \in [Vertices -> SUBSET Vertices]
  /\ computed \subseteq Vertices
  /\ produced \in 0 .. MaxMessages
PlacesOK ==
  /\ vertex_inbox \in [Workers -> SUBSET Message]
  /\ bus_outbox \in [Workers -> SUBSET Message]
  /\ bus_inbox \in [Workers -> SUBSET Message]
  /\ wire \in [Workers -> SUBSET Message]
  /\ qp_inbox \in [Workers -> SUBSET Message]
  /\ dropped \in [Workers -> SUBSET Message]
StatsOK ==
  /\ messages_sent \in [Workers -> Nat] /\ msgs_sent \in [Workers -> Nat]
  /\ messages_received \in [Workers -> Nat]
PoolOK ==
  /\ pool \subseteq Vertices /\ ran \subseteq Vertices
  /\ total_submitted \in Nat /\ total_completed \in Nat
CoordOK ==
  /\ step \in 0 .. MaxSupersteps - 1
  /\ outcome \in {"running", "converged", "exhausted"}
BarrierOK ==
  arrivals \in [Workers -> Nat] /\ passes \in [Workers -> Nat]

\* A worker has passed one barrier per superstep and arrived at one more when
\* it spins; one that is past this superstep's has seen all others arrive.
CrossInv ==
  /\ \A w \in Workers :
       /\ arrivals[w] = IF Arrived(w) THEN step + 1 ELSE step
       /\ passes[w] = IF w \in Past THEN step + 1 ELSE step
  /\ Past # {} => \A w \in Workers : Arrived(w)

\* Tasks are pushed, run and counted once, and their vertices get their turn:
\* the two counters differ by the tasks under way and the workers in
\* mid-submit.  When the last worker is back from wait_all, none is left.
TaskInv ==
  /\ \A w \in Workers :
       /\ todo[w] \subseteq Owned(w)
       /\ clearing[w] \subseteq Owned(w)
       /\ counted[w] \subseteq Owned(w)
       /\ counted[w] \cup clearing[w] # {} => pc[w] = "collect"
       /\ counted[w] = {} \/ clearing[w] = {}
  /\ pool \cap computed = {} /\ ran \subseteq computed
  /\ \A w \in Workers : Starting(w) => Owned(w) \cap (pool \cup computed) = {}
  /\ \A w \in Workers : Submitting(w) => todo[w] \cap (pool \cup computed) = {}
CountInv ==
  total_submitted + Cardinality(Counting)
    = total_completed + Cardinality(pool) + Cardinality(ran)
QuietInv == (\A w \in Workers : Waited(w)) => pool = {} /\ ran = {}

\* v has a task that is to be pushed or to be run.
HasTask(w, v) == v \in pool \/ (Submitting(w) /\ v \in todo[w])

\* Once the tasks are built, a vertex without one has computed or is halted,
\* and the mail of the worker's own vertices is mail of those with a task.
TurnInv ==
  \A w \in Workers : ~Starting(w) =>
    /\ \A v \in Owned(w) : HasTask(w, v) \/ v \in computed \/ halted[v]
    /\ \A m \in vertex_inbox[w] : Owner(m.dst) = w => HasTask(w, m.dst)
DrainedInv ==
  \A w \in Workers : pc[w] = "drain" => \A m \in vertex_inbox[w] : Owner(m.dst) # w

\* The supersteps of the messages in each place.
OutboxInv ==
  \A v \in Vertices : \A m \in outbox[v] :
    LET w == Owner(v) IN
    /\ m.src = v /\ m.step <= step /\ m.step + 1 >= step
    /\ Flushed(w) \/ (pc[w] = "collect" /\ v \notin todo[w] \cup counted[w] \cup clearing[w])
         => m.step = step
BusInv ==
  \A w \in Workers :
    /\ \A m \in bus_outbox[w] :
         pc[w] = "collect" /\ m.step <= step /\ m.step + 1 >= step
    /\ \A m \in bus_inbox[w] :
         /\ Owner(m.dst) = w
         /\ \/ pc[w] = "drain" /\ m.step < step /\ m.step + 2 >= step
            \/ Flushed(w) /\ m.step <= step /\ m.step + 1 >= step

\* What a worker has collected and not received back.
Collected(w) == bus_outbox[w] \cup wire[w] \cup qp_inbox[w] \cup dropped[w]

\* Messages of a worker's vertices, those on a queue pair for other workers,
\* and each in one place.
Apart(w) ==
  /\ \A m \in Collected(w) : Owner(m.src) = w /\ m.step <= step
  /\ \A m \in wire[w] \cup qp_inbox[w] : Owner(m.dst) # w
  /\ bus_outbox[w] \cap (wire[w] \cup qp_inbox[w] \cup dropped[w]) = {}
  /\ wire[w] \cap (qp_inbox[w] \cup dropped[w]) = {}
  /\ qp_inbox[w] \cap dropped[w] = {}

\* A vertex that has not computed has sent nothing in this superstep, and what
\* is in its outbox has not been collected, but for the moment before clear().
Fresh(v) ==
  /\ v \notin computed =>
       \A m \in outbox[v] \cup Collected(Owner(v)) : m.src = v => m.step < step
  /\ v \notin clearing[Owner(v)] => outbox[v] \cap Collected(Owner(v)) = {}

\* A vertex that has messages left to send has a task under way, and what it
\* is to send is nowhere yet.
Unsent(v) ==
  /\ sending[v] # {} => v \in ran
  /\ Messages(v, sending[v]) \cap (outbox[v] \cup Collected(Owner(v))) = {}

\* A counted outbox holds at least what was counted.
Ahead(w) ==
  \A v \in counted[w] :
    /\ counted[w] = {v}
    /\ messages_sent[w]
         <= msgs_sent[w] + Cardinality(bus_outbox[w]) + Cardinality(outbox[v])

ApartInv == \A w \in Workers : Apart(w)
SendInv  == \A v \in Vertices : Unsent(v)
AheadInv == \A w \in Workers : Ahead(w)
FreshInv == \A v \in Vertices : Fresh(v)

Types == CoordOK /\ WorkOK /\ VertexOK /\ PlacesOK /\ StatsOK /\ PoolOK /\ BarrierOK

IInv ==
  /\ Types
  /\ CrossInv /\ TaskInv /\ CountInv /\ QuietInv /\ TurnInv /\ DrainedInv
  /\ OutboxInv /\ BusInv /\ ApartInv /\ FreshInv /\ SendInv /\ AheadInv /\ LocalDelay
  /\ SentAccounted

----------------------------------------------------------------------------
(* Lemmas about the graph and finite sets *)

USE WorkerCountAssumption, GraphAssumption, ConfigAssumption

\* PartitionMap::owner_of names a worker.
LEMMA OwnerType == \A v \in Vertices : Owner(v) \in Workers
<1> SUFFICES ASSUME NEW v \in Vertices PROVE v % WorkerCount \in 0 .. WorkerCount - 1
  BY DEF Owner, Workers
<1>1. v \in Nat /\ WorkerCount \in Nat /\ WorkerCount > 0
  OBVIOUS
<1> QED
  BY <1>1

\* There are finitely many workers and messages.
LEMMA FinitelyMany == IsFiniteSet(Workers) /\ IsFiniteSet(Message)
<1> DEFINE S == 0 .. MaxSupersteps - 1
           P == Vertices \X S
           T == Vertices \X P
           f == [x \in T |-> [src |-> x[1], dst |-> x[2][1], step |-> x[2][2]]]
<1>1. IsFiniteSet(Workers) /\ IsFiniteSet(S)
  BY FS_Interval DEF Workers
<1>2. IsFiniteSet(T)
  BY <1>1, FS_Product
<1>3. f \in Surjection(T, Message)
  <2>1. f \in [T -> Message]
    BY DEF Message
  <2>2. ASSUME NEW m \in Message PROVE \E x \in T : f[x] = m
    <3>1. <<m.src, <<m.dst, m.step>>>> \in T
      BY DEF Message
    <3>2. f[<<m.src, <<m.dst, m.step>>>>] = m
      BY <3>1 DEF Message
    <3> QED
      BY <3>1, <3>2
  <2> QED
    BY <2>1, <2>2 DEF Surjection
<1> HIDE DEF T, f
<1> QED
  BY <1>1, <1>2, <1>3, FS_Surjection

\* A set of messages has a size.
LEMMA MessageCount ==
  ASSUME NEW S \in SUBSET Message
  PROVE  IsFiniteSet(S) /\ Cardinality(S) \in Nat
  BY FinitelyMany, FS_Subset, FS_CardinalityType

\* A set of vertices has a size.
LEMMA VertexCount ==
  ASSUME NEW S \in SUBSET Vertices
  PROVE  IsFiniteSet(S) /\ Cardinality(S) \in 0 .. Cardinality(Vertices)
<1>1. IsFiniteSet(S) /\ Cardinality(S) <= Cardinality(Vertices)
  BY FS_Subset
<1>2. Cardinality(S) \in Nat /\ Cardinality(Vertices) \in Nat
  BY <1>1, FS_CardinalityType
<1> QED
  BY <1>1, <1>2

\* The sizes of disjoint sets add up.
LEMMA DisjointCount ==
  ASSUME NEW S \in SUBSET Message, NEW T \in SUBSET Message, S \cap T = {}
  PROVE  Cardinality(S \cup T) = Cardinality(S) + Cardinality(T)
<1>1. IsFiniteSet(S) /\ IsFiniteSet(T) /\ Cardinality(S) \in Nat /\ Cardinality(T) \in Nat
  BY MessageCount
<1>2. Cardinality(S \cup T) = Cardinality(S) + Cardinality(T) - Cardinality(S \cap T)
  BY <1>1, FS_Union
<1>3. Cardinality(S \cap T) = 0
  BY FS_EmptySet
<1> QED
  BY <1>1, <1>2, <1>3

\* A message sent by compute() is one of this superstep.
LEMMA MessagesType ==
  ASSUME CoordOK, NEW v \in Vertices, NEW D \in SUBSET Vertices
  PROVE  Messages(v, D) \in SUBSET Message
  BY DEF CoordOK, Messages, Message

----------------------------------------------------------------------------
(* Types *)

\* The members keep their types in a step of a worker.
LEMMA WorkerTypes ==
  ASSUME IInv, NEW w \in Workers, WorkerStep(w)
  PROVE  Types'
<1>0. CoordOK /\ WorkOK /\ VertexOK /\ PlacesOK /\ StatsOK /\ PoolOK /\ BarrierOK
  BY DEF IInv, Types
<1>1. CASE Drain(w)
  <2>1. Cardinality(DrainInbox(w)) \in Nat
    BY <1>0, MessageCount DEF PlacesOK, DrainInbox, ReceiveAll
  <2>2. UNCHANGED <<coordVars, todo, counted, clearing, active, vertVars, bus_outbox, wire,
                    dropped, messages_sent, msgs_sent, poolVars, barrier>>
    BY <1>1 DEF Drain
  <2>3. WorkOK'
    BY <1>0, <1>1, <2>2 DEF Drain, Goto, WorkOK, PC
  <2>4. PlacesOK'
    BY <1>0, <1>1, <2>2 DEF Drain, PlacesOK, DrainInbox, ReceiveAll
  <2>5. StatsOK'
    BY <1>0, <1>1, <2>1, <2>2 DEF Drain, StatsOK
  <2>6. CoordOK' /\ VertexOK' /\ PoolOK' /\ BarrierOK'
    BY <1>0, <2>2 DEF coordVars, vertVars, poolVars, barrier, CoordOK, VertexOK, PoolOK, BarrierOK
  <2> QED
    BY <2>3, <2>4, <2>5, <2>6 DEF Types
<1>2. CASE Build(w)
  <2>1. UNCHANGED <<coordVars, counted, clearing, active, outbox, sending, computed, produced,
                    vertex_inbox, busVars, statVars, poolVars, barrier>>
    BY <1>2 DEF Build
  <2>2. WorkOK'
    BY <1>0, <1>2, <2>1 DEF Build, Goto, WorkOK, PC, ToCompute, Owned
  <2>3. VertexOK'
    BY <1>0, <1>2, <2>1 DEF Build, VertexOK
  <2>4. CoordOK' /\ PlacesOK' /\ StatsOK' /\ PoolOK' /\ BarrierOK'
    BY <1>0, <2>1 DEF coordVars, busVars, statVars, poolVars, barrier, CoordOK, PlacesOK,
       StatsOK, PoolOK, BarrierOK
  <2> QED
    BY <2>2, <2>3, <2>4 DEF Types
<1>3. CASE (\E v \in Vertices : Submit(w, v)) \/ CountSubmitted(w) \/ WaitAll(w)
  <2>1. UNCHANGED <<coordVars, counted, clearing, active, vertVars, vertex_inbox, busVars,
                    statVars, ran, total_completed, barrier>>
    BY <1>3 DEF Submit, CountSubmitted, WaitAll, poolVars
  <2>2. WorkOK'
    BY <1>0, <1>3, <2>1 DEF Submit, CountSubmitted, WaitAll, Goto, WorkOK, PC, Owned
  <2>3. PoolOK'
    <3>1. pool' \subseteq Vertices
      BY <1>0, <1>3 DEF Submit, CountSubmitted, WaitAll, PoolOK, poolVars
    <3>2. total_submitted' \in Nat
      BY <1>0, <1>3 DEF Submit, CountSubmitted, WaitAll, PoolOK, poolVars
    <3> QED
      BY <1>0, <2>1, <3>1, <3>2 DEF PoolOK
  <2>4. CoordOK' /\ VertexOK' /\ PlacesOK' /\ StatsOK' /\ BarrierOK'
    BY <1>0, <2>1 DEF coordVars, vertVars, busVars, statVars, barrier, CoordOK, VertexOK,
       PlacesOK, StatsOK, BarrierOK
  <2> QED
    BY <2>2, <2>3, <2>4 DEF Types
<1>4. CASE \E v \in Vertices : CollectCount(w, v) \/ CollectCopy(w, v) \/ CollectClear(w, v)
  <2>1. PICK v \in Vertices : CollectCount(w, v) \/ CollectCopy(w, v) \/ CollectClear(w, v)
    BY <1>4
  <2>2. UNCHANGED <<coordVars, pc, active, halted, sending, computed, produced, vertex_inbox,
                    bus_inbox, wire, qp_inbox, dropped, msgs_sent, messages_received, poolVars,
                    barrier>>
    BY <2>1 DEF CollectCount, CollectCopy, CollectClear, vertVars, busVars, statVars
  <2>3. Cardinality(outbox[v]) \in Nat
    BY <1>0, MessageCount DEF VertexOK
  <2>4. WorkOK'
    BY <1>0, <2>1, <2>2 DEF CollectCount, CollectCopy, CollectClear, WorkOK
  <2>5. VertexOK'
    BY <1>0, <2>1, <2>2 DEF CollectCount, CollectCopy, CollectClear, VertexOK, vertVars
  <2>6. PlacesOK'
    BY <1>0, <2>1, <2>2 DEF CollectCount, CollectCopy, CollectClear, PlacesOK, VertexOK,
       EnqueueBatch, busVars
  <2>7. StatsOK'
    BY <1>0, <2>1, <2>2, <2>3 DEF CollectCount, CollectCopy, CollectClear, StatsOK, statVars
  <2>8. CoordOK' /\ PoolOK' /\ BarrierOK'
    BY <1>0, <2>2 DEF coordVars, poolVars, barrier, CoordOK, PoolOK, BarrierOK
  <2> QED
    BY <2>4, <2>5, <2>6, <2>7, <2>8 DEF Types
<1>5. CASE Flush(w)
  <2>1. UNCHANGED <<coordVars, todo, counted, clearing, active, vertVars, vertex_inbox,
                    qp_inbox, messages_sent, messages_received, poolVars, barrier>>
    BY <1>5 DEF Flush
  <2>2. WorkOK'
    BY <1>0, <1>5, <2>1 DEF Flush, Goto, WorkOK, PC
  <2>3. PlacesOK'
    BY <1>0, <1>5, <2>1 DEF Flush, PlacesOK, Local, Remote
  <2>4. Cardinality(bus_outbox[w]) \in Nat
    BY <1>0, MessageCount DEF PlacesOK
  <2>5. StatsOK'
    BY <1>0, <1>5, <2>1, <2>4 DEF Flush, StatsOK
  <2>6. CoordOK' /\ VertexOK' /\ PoolOK' /\ BarrierOK'
    BY <1>0, <2>1 DEF coordVars, vertVars, poolVars, barrier, CoordOK, VertexOK, PoolOK, BarrierOK
  <2> QED
    BY <2>2, <2>3, <2>5, <2>6 DEF Types
<1>6. CASE ArriveBarrier(w) \/ PassBarrier(w) \/ CountActive(w)
  <2>1. UNCHANGED <<coordVars, todo, counted, clearing, vertVars, vertex_inbox, busVars, statVars,
                    poolVars>>
    BY <1>6 DEF ArriveBarrier, PassBarrier, CountActive
  <2>2. Cardinality({v \in Owned(w) : ~halted[v]}) \in 0 .. Cardinality(Vertices)
    BY VertexCount DEF Owned
  <2>3. WorkOK'
    BY <1>0, <1>6, <2>1, <2>2 DEF ArriveBarrier, PassBarrier, CountActive, Goto, WorkOK, PC
  <2>4. BarrierOK'
    BY <1>0, <1>6 DEF ArriveBarrier, PassBarrier, CountActive, BarrierOK, Barrier!Arrive,
       Barrier!Pass, barrier
  <2>5. CoordOK' /\ VertexOK' /\ PlacesOK' /\ StatsOK' /\ PoolOK'
    BY <1>0, <2>1 DEF coordVars, vertVars, busVars, statVars, poolVars, CoordOK, VertexOK,
       PlacesOK, StatsOK, PoolOK
  <2> QED
    BY <2>3, <2>4, <2>5 DEF Types
<1> QED
  BY <1>1, <1>2, <1>3, <1>4, <1>5, <1>6 DEF WorkerStep

\* The members keep their types in a step of the pool, the network or the
\* coordinator.
LEMMA OtherTypes ==
  ASSUME IInv, PoolStep \/ NetStep \/ CoordStep
  PROVE  Types'
<1>0. CoordOK /\ WorkOK /\ VertexOK /\ PlacesOK /\ StatsOK /\ PoolOK /\ BarrierOK
  BY DEF IInv, Types
<1>1. CASE \E v \in Vertices : Compute(v)
  <2>1. PICK v \in Vertices : Compute(v)
    BY <1>1
  <2>2. PICK D \in SUBSET Edges[v] :
          /\ produced + Cardinality(D) <= MaxMessages
          /\ produced' = produced + Cardinality(D)
          /\ sending' = [sending EXCEPT ![v] = D]
    BY <2>1 DEF Compute
  <2>3. D \in SUBSET Vertices
    OBVIOUS
  <2>5. Cardinality(D) \in Nat
    BY <2>3, VertexCount, FS_CardinalityType
  <2>6. produced' \in 0 .. MaxMessages
    BY <1>0, <2>2, <2>5 DEF VertexOK
  <2>7. outbox' \in [Vertices -> SUBSET Message] /\ sending' \in [Vertices -> SUBSET Vertices]
    BY <1>0, <2>1, <2>2, <2>3 DEF Compute, VertexOK
  <2>8. halted' \in [Vertices -> BOOLEAN]
    <3>1. PICK h \in BOOLEAN : halted' = [halted EXCEPT ![v] = h]
      BY <2>1 DEF Compute
    <3> QED
      BY <1>0, <3>1, Zenon DEF VertexOK
  <2>9. computed' \subseteq Vertices /\ pool' \subseteq Vertices /\ ran' \subseteq Vertices
    BY <1>0, <2>1 DEF Compute, VertexOK, PoolOK
  <2>10. vertex_inbox' \in [Workers -> SUBSET Message]
    BY <1>0, <2>1 DEF Compute, PlacesOK
  <2>11. UNCHANGED <<coordVars, workVars, busVars, statVars, total_submitted, total_completed,
                     barrier>>
    BY <2>1 DEF Compute
  <2>12. VertexOK'
    BY <2>6, <2>7, <2>8, <2>9 DEF VertexOK
  <2>13. CoordOK' /\ WorkOK' /\ PlacesOK' /\ StatsOK' /\ PoolOK' /\ BarrierOK'
    BY <1>0, <2>9, <2>10, <2>11 DEF coordVars, workVars, busVars, statVars, barrier, CoordOK,
       WorkOK, PlacesOK, StatsOK, PoolOK, BarrierOK
  <2> QED
    BY <2>12, <2>13 DEF Types
<1>2. CASE \E v \in Vertices : CountCompleted(v)
  <2>1. PICK v \in Vertices : CountCompleted(v)
    BY <1>2
  <2>2. UNCHANGED <<coordVars, workVars, vertVars, vertex_inbox, busVars, statVars,
                    pool, total_submitted, barrier>>
    BY <2>1 DEF CountCompleted
  <2>3. PoolOK'
    BY <1>0, <2>1, <2>2 DEF CountCompleted, PoolOK
  <2> QED
    BY <1>0, <2>2, <2>3 DEF Types, coordVars, workVars, vertVars, busVars, statVars, barrier,
       CoordOK, WorkOK, VertexOK, PlacesOK, StatsOK, BarrierOK
<1>3. CASE NetStep
  <2>1. PICK w \in Workers : \E m \in wire[w] : Deliver(w, m)
    BY <1>3 DEF NetStep
  <2>2. PICK m \in wire[w] : Deliver(w, m)
    BY <2>1
  <2>3. UNCHANGED <<coordVars, workVars, vertVars, vertex_inbox, bus_outbox,
                    bus_inbox, dropped, statVars, poolVars, barrier>>
    BY <2>2 DEF Deliver
  <2>4. PlacesOK'
    BY <1>0, <2>2, <2>3 DEF Deliver, PlacesOK
  <2> QED
    BY <1>0, <2>3, <2>4 DEF Types, coordVars, workVars, vertVars, statVars, poolVars, barrier,
       CoordOK, WorkOK, VertexOK, StatsOK, PoolOK, BarrierOK
<1>4. CASE CoordStep
  <2>1. UNCHANGED <<todo, counted, clearing, active, halted, outbox, sending, produced,
                    vertex_inbox, busVars, statVars, poolVars, barrier>>
    BY <1>4 DEF CoordStep, NextStep, BenchmarkStep, StartSuperstep, Converge, Exhaust, workVars,
       vertVars
  <2>2. pc' \in [Workers -> PC]
    BY <1>0, <1>4 DEF CoordStep, NextStep, BenchmarkStep, StartSuperstep, Converge, Exhaust,
       workVars, WorkOK, PC
  <2>3. computed' \subseteq Vertices
    BY <1>0, <1>4 DEF CoordStep, NextStep, BenchmarkStep, StartSuperstep, Converge, Exhaust,
       vertVars, VertexOK
  <2>4. CoordOK'
    BY <1>0, <1>4 DEF CoordStep, NextStep, BenchmarkStep, StartSuperstep, Converge, Exhaust,
       CoordOK
  <2>5. WorkOK' /\ VertexOK'
    BY <1>0, <2>1, <2>2, <2>3 DEF WorkOK, VertexOK
  <2> QED
    BY <1>0, <2>1, <2>4, <2>5 DEF Types, busVars, statVars, poolVars, barrier,
       PlacesOK, StatsOK, PoolOK, BarrierOK
<1>5. CASE \E v \in Vertices : \E d \in sending[v] : SendMessage(v, d)
  <2>1. PICK v \in Vertices : \E d \in sending[v] : SendMessage(v, d)
    BY <1>5
  <2>2. PICK d \in sending[v] : SendMessage(v, d)
    BY <2>1
  <2>3. UNCHANGED <<coordVars, workVars, halted, computed, produced, vertex_inbox, busVars,
                    statVars, poolVars, barrier>>
    BY <2>2 DEF SendMessage
  <2>4. Messages(v, {d}) \in SUBSET Message
    BY <1>0, <2>2, MessagesType DEF VertexOK
  <2>5. VertexOK'
    BY <1>0, <2>2, <2>3, <2>4 DEF SendMessage, VertexOK
  <2> QED
    BY <1>0, <2>3, <2>5 DEF Types, coordVars, workVars, busVars, statVars, poolVars, barrier,
       CoordOK, WorkOK, PlacesOK, StatsOK, PoolOK, BarrierOK
<1> QED
  BY <1>1, <1>2, <1>3, <1>4, <1>5 DEF PoolStep

----------------------------------------------------------------------------
(* The barrier *)

\* The step before the barrier that worker w takes.
EarlyStep(w) ==
  \/ Drain(w) \/ Build(w) \/ (\E v \in Vertices : Submit(w, v)) \/ CountSubmitted(w)
  \/ WaitAll(w) \/ Flush(w)
  \/ (\E v \in Vertices : CollectCount(w, v) \/ CollectCopy(w, v) \/ CollectClear(w, v))

Early == {"drain", "build", "submit", "count", "wait", "collect", "barrier"}

\* Nothing but a superstep's start, an arrival or a departure moves the barrier.
LEMMA CrossStep ==
  ASSUME IInv, [Next]_vars
  PROVE  CrossInv'
<1>0. WorkOK /\ CoordOK /\ BarrierOK /\ CrossInv
  BY DEF IInv, Types
<1>1. ASSUME UNCHANGED <<pc, step, barrier>> PROVE CrossInv'
  BY <1>0, <1>1 DEF CrossInv, Arrived, Past, barrier
<1>2. CASE \E w \in Workers : EarlyStep(w)
  <2>1. PICK w \in Workers : EarlyStep(w)
    BY <1>2
  <2>2. UNCHANGED <<step, arrivals, passes>>
    BY <2>1 DEF EarlyStep, Drain, Build, Submit, CountSubmitted, WaitAll, CollectCount, CollectCopy,
       CollectClear, Flush, coordVars, barrier
  <2>3. pc[w] \in Early /\ \E label \in Early : pc' = [pc EXCEPT ![w] = label]
    <3>1. CASE Drain(w) \/ Build(w) \/ CountSubmitted(w) \/ WaitAll(w) \/ Flush(w)
      BY <3>1 DEF Drain, Build, CountSubmitted, WaitAll, Flush, Goto, Early
    <3>2. CASE \E v \in Vertices : Submit(w, v)
      BY <3>2 DEF Submit, Goto, Early
    <3>3. CASE \E v \in Vertices : CollectCount(w, v) \/ CollectCopy(w, v) \/ CollectClear(w, v)
      <4>1. pc[w] = "collect" /\ pc' = pc
        BY <3>3 DEF CollectCount, CollectCopy, CollectClear
      <4>2. pc' = [pc EXCEPT ![w] = "collect"]
        BY <1>0, <4>1 DEF WorkOK
      <4> QED
        BY <4>1, <4>2 DEF Early
    <3> QED
      BY <2>1, <3>1, <3>2, <3>3 DEF EarlyStep
  <2>4. \A u \in Workers : /\ Arrived(u)' <=> Arrived(u)
                           /\ u \in Past' <=> u \in Past
    BY <1>0, <2>3 DEF WorkOK, Early, Arrived, Past
  <2> QED
    BY <1>0, <2>2, <2>4 DEF CrossInv, Past
<1>3. CASE \E w \in Workers : ArriveBarrier(w)
  <2>1. PICK w \in Workers : ArriveBarrier(w)
    BY <1>3
  <2>2. /\ pc[w] = "barrier" /\ pc' = [pc EXCEPT ![w] = "spin"] /\ UNCHANGED <<step, passes>>
        /\ arrivals' = [arrivals EXCEPT ![w] = arrivals[w] + 1]
    BY <2>1 DEF ArriveBarrier, Goto, Barrier!Arrive, coordVars
  <2>3. \A u \in Workers : /\ Arrived(u)' <=> (Arrived(u) \/ u = w)
                           /\ u \in Past' <=> u \in Past
    BY <1>0, <2>2 DEF WorkOK, Arrived, Past
  <2>4. ~Arrived(w)
    BY <2>2 DEF Arrived
  <2> QED
    BY <1>0, <2>2, <2>3, <2>4 DEF CrossInv, Past, BarrierOK, CoordOK
<1>4. CASE \E w \in Workers : PassBarrier(w)
  <2>1. PICK w \in Workers : PassBarrier(w)
    BY <1>4
  <2>2. /\ pc[w] = "spin" /\ pc' = [pc EXCEPT ![w] = "active"] /\ UNCHANGED <<step, arrivals>>
        /\ passes' = [passes EXCEPT ![w] = passes[w] + 1]
        /\ \A v \in Workers : arrivals[v] >= arrivals[w]
    BY <2>1 DEF PassBarrier, Goto, Barrier!Pass, coordVars
  <2>3. \A u \in Workers : /\ Arrived(u)' <=> Arrived(u)
                           /\ u \in Past' <=> (u \in Past \/ u = w)
    BY <1>0, <2>2 DEF WorkOK, Arrived, Past
  <2>4. w \notin Past /\ Arrived(w)
    BY <2>2 DEF Past, Arrived
  <2>5. \A u \in Workers : Arrived(u)
    BY <1>0, <2>2, <2>4 DEF CrossInv, CoordOK
  <2> QED
    BY <1>0, <2>2, <2>3, <2>4, <2>5 DEF CrossInv, Past, BarrierOK, CoordOK
<1>5. CASE \E w \in Workers : CountActive(w)
  <2>1. PICK w \in Workers : CountActive(w)
    BY <1>5
  <2>2. /\ pc[w] = "active" /\ pc' = [pc EXCEPT ![w] = "returned"]
        /\ UNCHANGED <<step, arrivals, passes>>
    BY <2>1 DEF CountActive, Goto, coordVars, barrier
  <2>3. \A u \in Workers : /\ Arrived(u)' <=> Arrived(u)
                           /\ u \in Past' <=> u \in Past
    BY <1>0, <2>2 DEF WorkOK, Arrived, Past
  <2> QED
    BY <1>0, <2>2, <2>3 DEF CrossInv, Past
<1>6. CASE PoolStep \/ NetStep
  <2>1. UNCHANGED <<pc, step, barrier>>
    BY <1>6 DEF PoolStep, NetStep, Compute, SendMessage, CountCompleted, Deliver, coordVars,
       workVars
  <2> QED
    BY <1>1, <2>1
<1>7. CASE NextStep \/ BenchmarkStep
  <2>1. /\ Joined /\ step' = step + 1 /\ pc' = [w \in Workers |-> "drain"]
        /\ UNCHANGED <<arrivals, passes>>
    BY <1>7 DEF NextStep, BenchmarkStep, StartSuperstep, barrier
  <2>2. \A u \in Workers : Arrived(u) /\ u \in Past
    BY <2>1 DEF Joined, Arrived, Past
  <2>3. \A u \in Workers : ~Arrived(u)' /\ u \notin Past'
    BY <2>1 DEF Arrived, Past
  <2> QED
    BY <1>0, <2>1, <2>2, <2>3 DEF CrossInv, Past, CoordOK
<1>8. CASE Converge \/ Exhaust \/ Done \/ UNCHANGED vars
  <2>1. UNCHANGED <<pc, step, barrier>>
    BY <1>8 DEF Converge, Exhaust, Done, vars, coordVars, workVars
  <2> QED
    BY <1>1, <2>1
<1> QED
  BY <1>2, <1>3, <1>4, <1>5, <1>6, <1>7, <1>8 DEF Next, WorkerStep, EarlyStep, CoordStep

----------------------------------------------------------------------------
(* Tasks and their counters *)

\* The counters that wait_all() compares, and the sets they count.
LEMMA TaskCount ==
  ASSUME PoolOK
  PROVE  /\ IsFiniteSet(pool) /\ Cardinality(pool) \in Nat
         /\ IsFiniteSet(ran) /\ Cardinality(ran) \in Nat
         /\ IsFiniteSet(Counting) /\ Cardinality(Counting) \in Nat
<1>1. IsFiniteSet(pool) /\ IsFiniteSet(ran) /\ IsFiniteSet(Counting)
  BY VertexCount, FinitelyMany, FS_Subset DEF PoolOK, Counting
<1> QED
  BY <1>1, FS_CardinalityType

\* Where nothing is counted, the counters keep their difference.
LEMMA CountKept ==
  ASSUME IInv, UNCHANGED <<pool, ran, total_submitted, total_completed>>, Counting' = Counting
  PROVE  CountInv'
  BY DEF IInv, CountInv

\* A worker leaves wait_all, and it is the last: everything has been counted.
LEMMA LastWaits ==
  ASSUME IInv, AllCompleted, Counting = {}
  PROVE  pool = {} /\ ran = {}
<1>1. PoolOK /\ CountInv
  BY DEF IInv, Types
<1>2. Cardinality(Counting) = 0
  BY FS_EmptySet
<1>3. Cardinality(pool) = 0 /\ Cardinality(ran) = 0
  BY <1>1, <1>2, TaskCount DEF CountInv, AllCompleted, PoolOK
<1> QED
  BY <1>1, <1>3, TaskCount, FS_EmptySet

\* No vertex has two owners.
LEMMA OwnedApart ==
  ASSUME NEW v, NEW u, NEW w, v \in Owned(u), v \in Owned(w)
  PROVE  u = w
  BY DEF Owned

\* A worker that starts or submits is not back from wait_all.
LEMMA NotQuiet ==
  ASSUME WorkOK', NEW w \in Workers, pc'[w] \in {"drain", "build", "submit", "count", "wait"}
  PROVE  QuietInv'
<1>1. ~Waited(w)'
  BY DEF Waited, Flushed
<1> QED
  BY <1>1 DEF QuietInv

TaskGroup == TaskInv /\ CountInv /\ QuietInv

\* The tasks in a step of a worker.
LEMMA WorkerTasks ==
  ASSUME IInv, NEW w \in Workers, WorkerStep(w)
  PROVE  TaskGroup'
<1>0. WorkOK /\ VertexOK /\ PoolOK /\ TaskInv /\ CountInv /\ QuietInv /\ WorkOK'
  BY WorkerTypes DEF IInv, Types
<1>1. CASE Drain(w)
  <2>1. /\ UNCHANGED <<todo, counted, clearing, computed, pool, ran, total_submitted,
                       total_completed>>
        /\ pc[w] = "drain" /\ pc' = [pc EXCEPT ![w] = "build"]
    BY <1>1 DEF Drain, Goto, vertVars, poolVars
  <2>2. \A u \in Workers : pc'[u] = IF u = w THEN "build" ELSE pc[u]
    BY <1>0, <2>1 DEF WorkOK
  <2>3. TaskInv'
    BY <1>0, <2>1, <2>2 DEF TaskInv, Starting, Submitting
  <2>4. Counting' = Counting
    BY <2>1, <2>2 DEF Counting
  <2> QED
    BY <1>0, <2>1, <2>2, <2>3, <2>4, CountKept, NotQuiet DEF TaskGroup
<1>2. CASE Build(w)
  <2>1. /\ UNCHANGED <<counted, clearing, computed, pool, ran, total_submitted, total_completed>>
        /\ pc[w] = "build" /\ todo' = [todo EXCEPT ![w] = ToCompute(w)]
        /\ ToCompute(w) \subseteq Owned(w)
    BY <1>2 DEF Build, poolVars, ToCompute
  <2>2. PICK label \in {"wait", "submit"} : pc' = [pc EXCEPT ![w] = label]
    BY <1>2 DEF Build, Goto
  <2>3. \A u \in Workers : /\ pc'[u] = IF u = w THEN label ELSE pc[u]
                           /\ todo'[u] = IF u = w THEN ToCompute(w) ELSE todo[u]
    BY <1>0, <2>1, <2>2 DEF WorkOK
  <2>4. TaskInv'
    BY <1>0, <2>1, <2>3 DEF TaskInv, Starting, Submitting
  <2>5. Counting' = Counting
    BY <2>1, <2>3 DEF Counting
  <2> QED
    BY <1>0, <2>1, <2>3, <2>4, <2>5, CountKept, NotQuiet DEF TaskGroup
<1>3. CASE \E v \in Vertices : Submit(w, v)
  <2>1. PICK v \in Vertices : Submit(w, v)
    BY <1>3
  <2>2. /\ UNCHANGED <<counted, clearing, computed, ran, total_submitted, total_completed>>
        /\ pc[w] = "submit" /\ pc' = [pc EXCEPT ![w] = "count"] /\ v \in todo[w]
        /\ todo' = [todo EXCEPT ![w] = todo[w] \ {v}] /\ pool' = pool \cup {v}
    BY <2>1 DEF Submit, Goto, vertVars
  <2>3. \A u \in Workers : /\ pc'[u] = IF u = w THEN "count" ELSE pc[u]
                           /\ todo'[u] = IF u = w THEN todo[w] \ {v} ELSE todo[u]
    BY <1>0, <2>2 DEF WorkOK
  <2>4. v \notin pool /\ v \notin computed /\ v \in Owned(w)
    BY <1>0, <2>2 DEF TaskInv, Submitting
  <2>5. \A u \in Workers : u # w => v \notin Owned(u)
    BY <2>4, OwnedApart
  <2>6. TaskInv'
    BY <1>0, <2>2, <2>3, <2>4, <2>5 DEF TaskInv, Starting, Submitting
  <2>7. CountInv'
    <3>1. Counting' = Counting \cup {w} /\ w \notin Counting
      BY <2>2, <2>3 DEF Counting
    <3>2. Cardinality(Counting') = Cardinality(Counting) + 1
      BY <1>0, <3>1, TaskCount, FS_AddElement
    <3>3. Cardinality(pool') = Cardinality(pool) + 1
      BY <1>0, <2>2, <2>4, TaskCount, FS_AddElement
    <3> QED
      BY <1>0, <2>2, <3>2, <3>3, TaskCount DEF CountInv, PoolOK
  <2> QED
    BY <1>0, <2>3, <2>6, <2>7, NotQuiet DEF TaskGroup
<1>4. CASE CountSubmitted(w)
  <2>1. /\ UNCHANGED <<todo, counted, clearing, computed, pool, ran, total_completed>>
        /\ pc[w] = "count" /\ total_submitted' = total_submitted + 1
    BY <1>4 DEF CountSubmitted, vertVars
  <2>2. PICK label \in {"wait", "submit"} : pc' = [pc EXCEPT ![w] = label]
    BY <1>4 DEF CountSubmitted, Goto
  <2>3. \A u \in Workers : pc'[u] = IF u = w THEN label ELSE pc[u]
    BY <1>0, <2>2 DEF WorkOK
  <2>4. TaskInv'
    BY <1>0, <2>1, <2>3 DEF TaskInv, Starting, Submitting
  <2>5. CountInv'
    <3>1. Counting' = Counting \ {w} /\ w \in Counting
      BY <2>1, <2>3 DEF Counting
    <3>2. Cardinality(Counting') = Cardinality(Counting) - 1
      BY <1>0, <3>1, TaskCount, FS_RemoveElement
    <3> QED
      BY <1>0, <2>1, <3>2, TaskCount DEF CountInv, PoolOK
  <2> QED
    BY <1>0, <2>3, <2>4, <2>5, NotQuiet DEF TaskGroup
<1>5. CASE WaitAll(w)
  <2>1. /\ UNCHANGED <<counted, clearing, computed, pool, ran, total_submitted, total_completed>>
        /\ pc[w] = "wait" /\ pc' = [pc EXCEPT ![w] = "collect"] /\ AllCompleted
        /\ todo' = [todo EXCEPT ![w] = Owned(w)]
    BY <1>5 DEF WaitAll, Goto, vertVars, poolVars
  <2>2. \A u \in Workers : /\ pc'[u] = IF u = w THEN "collect" ELSE pc[u]
                           /\ todo'[u] = IF u = w THEN Owned(w) ELSE todo[u]
    BY <1>0, <2>1 DEF WorkOK
  <2>3. TaskInv'
    BY <1>0, <2>1, <2>2 DEF TaskInv, Starting, Submitting
  <2>4. Counting' = Counting
    BY <2>1, <2>2 DEF Counting
  <2>5. QuietInv'
    <3> SUFFICES ASSUME \A u \in Workers : Waited(u)'
                 PROVE  pool = {} /\ ran = {}
      BY <2>1 DEF QuietInv
    <3>1. Counting = {}
      BY <2>1, <2>2 DEF Waited, Flushed, Counting
    <3> QED
      BY <2>1, <3>1, LastWaits
  <2> QED
    BY <2>1, <2>3, <2>4, <2>5, CountKept DEF TaskGroup
<1>6. CASE \E v \in Vertices : CollectCount(w, v) \/ CollectCopy(w, v) \/ CollectClear(w, v)
  <2>1. PICK v \in Vertices : CollectCount(w, v) \/ CollectCopy(w, v) \/ CollectClear(w, v)
    BY <1>6
  <2>2. UNCHANGED <<pc, computed, pool, ran, total_submitted, total_completed>> /\ pc[w] = "collect"
    BY <2>1 DEF CollectCount, CollectCopy, CollectClear, vertVars, poolVars
  <2>3. /\ \A u \in Workers : u # w => /\ todo'[u] = todo[u] /\ counted'[u] = counted[u]
                                       /\ clearing'[u] = clearing[u]
        /\ todo'[w] \subseteq todo[w]
        /\ counted'[w] \cup clearing'[w] \subseteq todo[w] \cup counted[w] \cup clearing[w]
        /\ counted'[w] = {} \/ clearing'[w] = {}
    BY <1>0, <2>1 DEF CollectCount, CollectCopy, CollectClear, WorkOK
  <2>4. TaskInv'
    BY <1>0, <2>2, <2>3 DEF TaskInv, Starting, Submitting
  <2>5. Counting' = Counting /\ QuietInv'
    BY <1>0, <2>2 DEF Counting, QuietInv, Waited, Flushed
  <2> QED
    BY <2>2, <2>4, <2>5, CountKept DEF TaskGroup
<1>7. CASE Flush(w) \/ ArriveBarrier(w) \/ PassBarrier(w) \/ CountActive(w)
  <2>1. /\ UNCHANGED <<todo, counted, clearing, computed, pool, ran, total_submitted,
                       total_completed>>
        /\ pc[w] = "collect" => counted[w] = {} /\ clearing[w] = {}
        /\ pc[w] \in {"collect", "barrier", "spin", "active"}
    BY <1>7 DEF Flush, ArriveBarrier, PassBarrier, CountActive, vertVars, poolVars
  <2>2. PICK label \in {"barrier", "spin", "active", "returned"} : pc' = [pc EXCEPT ![w] = label]
    BY <1>7 DEF Flush, ArriveBarrier, PassBarrier, CountActive, Goto
  <2>3. \A u \in Workers : pc'[u] = IF u = w THEN label ELSE pc[u]
    BY <1>0, <2>2 DEF WorkOK
  <2>4. TaskInv'
    BY <1>0, <2>1, <2>3 DEF TaskInv, Starting, Submitting
  <2>5. Counting' = Counting
    BY <2>1, <2>3 DEF Counting
  <2>6. QuietInv'
    BY <1>0, <2>1, <2>3 DEF QuietInv, Waited, Flushed
  <2> QED
    BY <2>1, <2>4, <2>5, <2>6, CountKept DEF TaskGroup
<1> QED
  BY <1>1, <1>2, <1>3, <1>4, <1>5, <1>6, <1>7 DEF WorkerStep

\* The tasks in every other step.
LEMMA OtherTasks ==
  ASSUME IInv, PoolStep \/ NetStep \/ CoordStep \/ UNCHANGED vars
  PROVE  TaskGroup'
<1>0. WorkOK /\ VertexOK /\ PoolOK /\ TaskInv /\ CountInv /\ QuietInv
  BY DEF IInv, Types
<1>1. CASE \E v \in Vertices : Compute(v)
  <2>1. PICK v \in Vertices : Compute(v)
    BY <1>1
  <2>2. /\ UNCHANGED <<pc, todo, counted, clearing, total_submitted, total_completed>>
        /\ v \in pool /\ pool' = pool \ {v} /\ ran' = ran \cup {v} /\ computed' = computed \cup {v}
    BY <2>1 DEF Compute, workVars
  <2>3. v \notin computed /\ v \notin ran /\ pool' \cup computed' = pool \cup computed
    BY <1>0, <2>2 DEF TaskInv
  <2>4. TaskInv'
    BY <1>0, <2>2, <2>3 DEF TaskInv, Starting, Submitting
  <2>5. CountInv'
    <3>1. Cardinality(pool') = Cardinality(pool) - 1
      BY <1>0, <2>2, TaskCount, FS_RemoveElement
    <3>2. Cardinality(ran') = Cardinality(ran) + 1
      BY <1>0, <2>2, <2>3, TaskCount, FS_AddElement
    <3>3. Counting' = Counting
      BY <2>2 DEF Counting
    <3> QED
      BY <1>0, <2>2, <3>1, <3>2, <3>3, TaskCount DEF CountInv, PoolOK
  <2>6. QuietInv'
    BY <1>0, <2>2 DEF QuietInv, Waited, Flushed
  <2> QED
    BY <2>4, <2>5, <2>6 DEF TaskGroup
<1>2. CASE \E v \in Vertices : CountCompleted(v)
  <2>1. PICK v \in Vertices : CountCompleted(v)
    BY <1>2
  <2>2. /\ UNCHANGED <<pc, todo, counted, clearing, computed, pool, total_submitted>>
        /\ v \in ran /\ ran' = ran \ {v} /\ total_completed' = total_completed + 1
    BY <2>1 DEF CountCompleted, workVars, vertVars
  <2>3. TaskInv'
    BY <1>0, <2>2 DEF TaskInv, Starting, Submitting
  <2>4. CountInv'
    <3>1. Cardinality(ran') = Cardinality(ran) - 1
      BY <1>0, <2>2, TaskCount, FS_RemoveElement
    <3>2. Counting' = Counting
      BY <2>2 DEF Counting
    <3> QED
      BY <1>0, <2>2, <3>1, <3>2, TaskCount DEF CountInv, PoolOK
  <2>5. QuietInv'
    BY <1>0, <2>2 DEF QuietInv, Waited, Flushed
  <2> QED
    BY <2>3, <2>4, <2>5 DEF TaskGroup
<1>3. CASE NextStep \/ BenchmarkStep
  <2>1. /\ Joined /\ pc' = [w \in Workers |-> "drain"] /\ computed' = {}
        /\ UNCHANGED <<todo, counted, clearing, pool, ran, total_submitted, total_completed>>
    BY <1>3 DEF NextStep, BenchmarkStep, StartSuperstep, poolVars
  <2>2. pool = {} /\ ran = {}
    BY <1>0, <2>1 DEF Joined, QuietInv, Waited, Flushed
  <2>3. \A w \in Workers : counted[w] = {} /\ clearing[w] = {} /\ pc'[w] = "drain"
    BY <1>0, <2>1 DEF TaskInv, Joined
  <2>4. TaskInv'
    BY <1>0, <2>1, <2>2, <2>3 DEF TaskInv, Starting, Submitting
  <2>5. Counting' = Counting
    BY <2>1, <2>3 DEF Counting, Joined
  <2>6. QuietInv'
    BY <2>1, <2>2 DEF QuietInv
  <2> QED
    BY <2>1, <2>4, <2>5, <2>6, CountKept DEF TaskGroup
<1>4. CASE \/ \E v \in Vertices : \E d \in sending[v] : SendMessage(v, d)
           \/ NetStep \/ Converge \/ Exhaust \/ UNCHANGED vars
  <2>1. UNCHANGED <<pc, todo, counted, clearing, computed, pool, ran, total_submitted,
                    total_completed>>
    BY <1>4 DEF SendMessage, NetStep, Deliver, Converge, Exhaust, vars, workVars, vertVars, poolVars
  <2>2. TaskInv' /\ QuietInv' /\ Counting' = Counting
    BY <1>0, <2>1 DEF TaskInv, Starting, Submitting, QuietInv, Waited, Flushed, Counting
  <2> QED
    BY <2>1, <2>2, CountKept DEF TaskGroup
<1> QED
  BY <1>1, <1>2, <1>3, <1>4 DEF PoolStep, CoordStep

----------------------------------------------------------------------------
(* Turns and mail *)

TurnGroup == TurnInv /\ DrainedInv

\* The vertices and their mail in a step of a worker.
LEMMA WorkerTurns ==
  ASSUME IInv, NEW w \in Workers, WorkerStep(w)
  PROVE  TurnGroup'
<1>0. WorkOK /\ VertexOK /\ PlacesOK /\ PoolOK /\ TaskInv /\ TurnInv /\ DrainedInv
  BY DEF IInv, Types
<1>1. CASE Drain(w)
  <2>1. /\ UNCHANGED <<todo, computed, pool, halted>>
        /\ pc[w] = "drain" /\ pc' = [pc EXCEPT ![w] = "build"]
        /\ \A u \in Workers : u # w => vertex_inbox'[u] = vertex_inbox[u]
    BY <1>0, <1>1 DEF Drain, Goto, vertVars, poolVars, PlacesOK
  <2>2. \A u \in Workers : pc'[u] = IF u = w THEN "build" ELSE pc[u]
    BY <1>0, <2>1 DEF WorkOK
  <2> QED
    BY <1>0, <2>1, <2>2 DEF TurnGroup, TurnInv, DrainedInv, HasTask, Starting, Submitting
<1>2. CASE Build(w)
  <2>1. /\ UNCHANGED <<computed, pool, vertex_inbox>> /\ pc[w] = "build"
        /\ todo' = [todo EXCEPT ![w] = ToCompute(w)]
        /\ halted' = [v \in Vertices |-> halted[v] /\ v \notin ToCompute(w)]
        /\ pc' = [pc EXCEPT ![w] = IF ToCompute(w) = {} THEN "wait" ELSE "submit"]
    BY <1>2 DEF Build, Goto, poolVars
  <2>2. \A u \in Workers : /\ u # w => pc'[u] = pc[u] /\ todo'[u] = todo[u]
                           /\ u = w => /\ pc'[u] = IF ToCompute(w) = {} THEN "wait" ELSE "submit"
                                       /\ todo'[u] = ToCompute(w)
    BY <1>0, <2>1 DEF WorkOK
  <2>3. \A u \in Workers : u # w => \A v \in Owned(u) : v \in Vertices /\ halted'[v] = halted[v]
    BY <1>0, <2>1, OwnedApart DEF Owned, ToCompute, VertexOK
  <2>4. \A v \in Owned(w) : v \in ToCompute(w) \/ halted'[v]
    BY <2>1 DEF Owned, ToCompute
  <2>5. \A m \in vertex_inbox[w] : Owner(m.dst) = w => m.dst \in ToCompute(w)
    BY <1>0 DEF ToCompute, HasMail, Owned, PlacesOK, Message
  <2>6. TurnInv'
    <3> SUFFICES ASSUME NEW u \in Workers, ~Starting(u)'
                 PROVE  /\ \A v \in Owned(u) : HasTask(u, v)' \/ v \in computed' \/ halted'[v]
                        /\ \A m \in vertex_inbox'[u] : Owner(m.dst) = u => HasTask(u, m.dst)'
      BY DEF TurnInv, Owned, Owner
    <3>1. CASE u # w
      BY <1>0, <2>1, <2>2, <2>3, <3>1 DEF TurnInv, HasTask, Starting, Submitting
    <3>2. CASE u = w
      BY <2>1, <2>2, <2>4, <2>5, <3>2 DEF HasTask, Submitting
    <3> QED
      BY <3>1, <3>2
  <2>7. DrainedInv'
    BY <1>0, <2>1, <2>2 DEF DrainedInv
  <2> QED
    BY <2>6, <2>7 DEF TurnGroup
<1>3. CASE \E v \in Vertices : Submit(w, v)
  <2>1. PICK v \in Vertices : Submit(w, v)
    BY <1>3
  <2>2. /\ UNCHANGED <<computed, halted, vertex_inbox>>
        /\ pc[w] = "submit" /\ pc' = [pc EXCEPT ![w] = "count"] /\ v \in todo[w]
        /\ todo' = [todo EXCEPT ![w] = todo[w] \ {v}] /\ pool' = pool \cup {v}
    BY <2>1 DEF Submit, Goto, vertVars
  <2>3. \A u \in Workers : /\ pc'[u] = IF u = w THEN "count" ELSE pc[u]
                           /\ todo'[u] = IF u = w THEN todo[w] \ {v} ELSE todo[u]
    BY <1>0, <2>2 DEF WorkOK
  <2>4. \A u \in Workers : \A x : HasTask(u, x) => HasTask(u, x)'
    BY <2>2, <2>3 DEF HasTask, Submitting
  <2> QED
    BY <1>0, <2>2, <2>3, <2>4 DEF TurnGroup, TurnInv, DrainedInv, Starting
<1>4. CASE CountSubmitted(w)
  <2>1. /\ UNCHANGED <<todo, computed, halted, vertex_inbox, pool>> /\ pc[w] = "count"
        /\ pc' = [pc EXCEPT ![w] = IF todo[w] = {} THEN "wait" ELSE "submit"]
    BY <1>4 DEF CountSubmitted, Goto, vertVars
  <2>2. \A u \in Workers : /\ u # w => pc'[u] = pc[u]
                           /\ u = w => pc'[u] = IF todo[w] = {} THEN "wait" ELSE "submit"
    BY <1>0, <2>1 DEF WorkOK
  <2>3. \A u \in Workers : \A x : HasTask(u, x) => HasTask(u, x)'
    BY <2>1, <2>2 DEF HasTask, Submitting
  <2> QED
    BY <1>0, <2>1, <2>2, <2>3 DEF TurnGroup, TurnInv, DrainedInv, Starting
<1>5. CASE \/ WaitAll(w)
           \/ \E v \in Vertices : CollectCount(w, v) \/ CollectCopy(w, v) \/ CollectClear(w, v)
  <2>1. /\ UNCHANGED <<computed, halted, vertex_inbox, pool>> /\ pc[w] \in {"wait", "collect"}
        /\ \A u \in Workers : /\ u # w => pc'[u] = pc[u] /\ todo'[u] = todo[u]
                              /\ u = w => pc'[u] = "collect"
    BY <1>0, <1>5 DEF WaitAll, CollectCount, CollectCopy, CollectClear, Goto, vertVars, poolVars,
       WorkOK
  <2>2. \A u \in Workers : \A x : HasTask(u, x) => HasTask(u, x)'
    BY <2>1 DEF HasTask, Submitting
  <2> QED
    BY <1>0, <2>1, <2>2 DEF TurnGroup, TurnInv, DrainedInv, Starting
<1>6. CASE Flush(w) \/ ArriveBarrier(w) \/ PassBarrier(w) \/ CountActive(w)
  <2>1. /\ UNCHANGED <<todo, computed, halted, vertex_inbox, pool>>
        /\ pc[w] \in {"collect", "barrier", "spin", "active"}
    BY <1>6 DEF Flush, ArriveBarrier, PassBarrier, CountActive, vertVars, poolVars
  <2>2. PICK label \in {"barrier", "spin", "active", "returned"} : pc' = [pc EXCEPT ![w] = label]
    BY <1>6 DEF Flush, ArriveBarrier, PassBarrier, CountActive, Goto
  <2>3. \A u \in Workers : pc'[u] = IF u = w THEN label ELSE pc[u]
    BY <1>0, <2>2 DEF WorkOK
  <2>4. \A u \in Workers : \A x : HasTask(u, x) => HasTask(u, x)'
    BY <2>1, <2>3 DEF HasTask, Submitting
  <2> QED
    BY <1>0, <2>1, <2>3, <2>4 DEF TurnGroup, TurnInv, DrainedInv, Starting
<1> QED
  BY <1>1, <1>2, <1>3, <1>4, <1>5, <1>6 DEF WorkerStep

\* The vertices and their mail in every other step.
LEMMA OtherTurns ==
  ASSUME IInv, PoolStep \/ NetStep \/ CoordStep \/ UNCHANGED vars
  PROVE  TurnGroup'
<1>0. WorkOK /\ VertexOK /\ PlacesOK /\ PoolOK /\ TaskInv /\ QuietInv /\ TurnInv /\ DrainedInv
  BY DEF IInv, Types
<1>1. CASE \E v \in Vertices : Compute(v)
  <2>1. PICK v \in Vertices : Compute(v)
    BY <1>1
  <2>2. /\ UNCHANGED <<pc, todo>> /\ v \in pool /\ pool' = pool \ {v}
        /\ computed' = computed \cup {v}
        /\ vertex_inbox' = [vertex_inbox EXCEPT ![Owner(v)] =
                              {m \in vertex_inbox[Owner(v)] : m.dst # v}]
    BY <2>1 DEF Compute, workVars
  <2>3. \A x \in Vertices : x # v => halted'[x] = halted[x]
    BY <1>0, <2>1 DEF Compute, VertexOK
  <2>4. \A u \in Workers : \A m \in vertex_inbox'[u] :
          m \in vertex_inbox[u] /\ (Owner(m.dst) = u => m.dst # v)
    BY <1>0, <2>2, OwnerType DEF PlacesOK
  <2>5. \A u \in Workers : \A x : x # v /\ HasTask(u, x) => HasTask(u, x)'
    BY <2>2 DEF HasTask, Submitting
  <2>6. \A u \in Workers : Starting(u)' <=> Starting(u)
    BY <2>2 DEF Starting
  <2>7. TurnInv'
    <3> SUFFICES ASSUME NEW u \in Workers, ~Starting(u)'
                 PROVE  /\ \A x \in Owned(u) : HasTask(u, x)' \/ x \in computed' \/ halted'[x]
                        /\ \A m \in vertex_inbox'[u] : Owner(m.dst) = u => HasTask(u, m.dst)'
      BY DEF TurnInv, Owned, Owner
    <3>1. \A x \in Owned(u) : HasTask(u, x)' \/ x \in computed' \/ halted'[x]
      BY <1>0, <2>2, <2>3, <2>5, <2>6 DEF TurnInv, Owned
    <3>2. \A m \in vertex_inbox'[u] : Owner(m.dst) = u => HasTask(u, m.dst)'
      BY <1>0, <2>4, <2>5, <2>6 DEF TurnInv
    <3> QED
      BY <3>1, <3>2
  <2>8. DrainedInv'
    BY <1>0, <2>2, <2>4 DEF DrainedInv
  <2> QED
    BY <2>7, <2>8 DEF TurnGroup
<1>2. CASE NextStep \/ BenchmarkStep
  <2>1. Joined /\ pc' = [w \in Workers |-> "drain"] /\ UNCHANGED vertex_inbox
    BY <1>2 DEF NextStep, BenchmarkStep, StartSuperstep
  <2>2. pool = {}
    BY <1>0, <2>1 DEF Joined, QuietInv, Waited, Flushed
  <2>3. \A w \in Workers : ~Starting(w) /\ ~Submitting(w) /\ Starting(w)'
    BY <2>1 DEF Joined, Starting, Submitting
  <2>4. \A w \in Workers : \A m \in vertex_inbox[w] : Owner(m.dst) # w
    BY <1>0, <2>2, <2>3 DEF TurnInv, HasTask
  <2> QED
    BY <2>1, <2>3, <2>4 DEF TurnGroup, TurnInv, DrainedInv
<1>3. CASE \/ \E v \in Vertices : CountCompleted(v) \/ \E d \in sending[v] : SendMessage(v, d)
           \/ NetStep \/ Converge \/ Exhaust \/ UNCHANGED vars
  <2>1. UNCHANGED <<pc, todo, computed, pool, halted, vertex_inbox>>
    BY <1>3 DEF CountCompleted, SendMessage, NetStep, Deliver, Converge, Exhaust, vars, workVars,
       vertVars, poolVars
  <2> QED
    BY <1>0, <2>1 DEF TurnGroup, TurnInv, DrainedInv, HasTask, Starting, Submitting
<1> QED
  BY <1>1, <1>2, <1>3 DEF PoolStep, CoordStep

----------------------------------------------------------------------------
(* The supersteps of messages *)

StepGroup == OutboxInv /\ BusInv /\ LocalDelay

\* What the outbox of v may hold while its owner is where it is.
Outdated(v) ==
  LET w == Owner(v) IN
  ~(Flushed(w) \/ (pc[w] = "collect" /\ v \notin todo[w] \cup counted[w] \cup clearing[w]))

\* An outbox may hold messages of the superstep before until it is cleared.
LEMMA OutboxForm ==
  OutboxInv <=>
    \A v \in Vertices : \A m \in outbox[v] :
      /\ m.src = v /\ m.step <= step /\ m.step + 1 >= step
      /\ ~Outdated(v) => m.step = step
  BY DEF OutboxInv, Outdated

\* Outboxes that are left alone.
LEMMA OutboxKept ==
  ASSUME IInv, UNCHANGED <<outbox, step>>,
         \A v \in Vertices : Outdated(v) /\ outbox[v] # {} => Outdated(v)'
  PROVE  OutboxInv'
<1>1. \A v \in Vertices : \A m \in outbox'[v] :
        /\ m.src = v /\ m.step <= step' /\ m.step + 1 >= step'
        /\ ~Outdated(v)' => m.step = step'
  BY OutboxForm DEF IInv
<1> QED
  BY <1>1 DEF OutboxInv, Outdated

\* The supersteps of messages in a step of a worker.
LEMMA WorkerSteps ==
  ASSUME IInv, NEW w \in Workers, WorkerStep(w)
  PROVE  StepGroup'
<1>0. CoordOK /\ WorkOK /\ VertexOK /\ PlacesOK /\ OutboxInv /\ BusInv /\ LocalDelay
      /\ TaskInv /\ DrainedInv
  BY DEF IInv, Types
<1>1. CASE Drain(w)
  <2>1. /\ UNCHANGED <<step, todo, counted, clearing, outbox, bus_outbox>>
        /\ pc[w] = "drain" /\ pc' = [pc EXCEPT ![w] = "build"]
        /\ vertex_inbox' = [vertex_inbox EXCEPT ![w] = vertex_inbox[w] \cup DrainInbox(w)]
        /\ bus_inbox' = [bus_inbox EXCEPT ![w] = {}]
    BY <1>1 DEF Drain, Goto, coordVars, vertVars
  <2>2. \A u \in Workers : /\ pc'[u] = IF u = w THEN "build" ELSE pc[u]
                           /\ bus_inbox'[u] = IF u = w THEN {} ELSE bus_inbox[u]
                           /\ u # w => vertex_inbox'[u] = vertex_inbox[u]
    BY <1>0, <2>1 DEF WorkOK, PlacesOK
  <2>3. OutboxInv'
    <3>1. \A v \in Vertices : Outdated(v)' <=> Outdated(v)
      BY <2>1, <2>2, OwnerType DEF Outdated, Flushed
    <3> QED
      BY <2>1, <3>1, OutboxKept
  <2>4. BusInv'
    BY <1>0, <2>1, <2>2 DEF BusInv, Flushed
  <2>5. LocalDelay'
    <3>1. \A m \in DrainInbox(w) : Owner(m.dst) = w => m \in bus_inbox[w]
      BY DEF DrainInbox, ReceiveAll, IInv, ApartInv, Apart
    <3>2. \A m \in DrainInbox(w) : Owner(m.dst) = w => m.step < step /\ m.step + 2 >= step
      BY <1>0, <2>1, <3>1 DEF BusInv, Flushed
    <3>3. vertex_inbox'[w] = vertex_inbox[w] \cup DrainInbox(w)
      BY <1>0, <2>1 DEF PlacesOK
    <3> QED
      BY <1>0, <2>1, <2>2, <3>2, <3>3 DEF LocalDelay
  <2> QED
    BY <2>3, <2>4, <2>5 DEF StepGroup
<1>2. CASE Build(w) \/ (\E v \in Vertices : Submit(w, v)) \/ CountSubmitted(w) \/ WaitAll(w)
  <2>1. /\ UNCHANGED <<step, counted, clearing, outbox, bus_outbox, bus_inbox, vertex_inbox>>
        /\ pc[w] \in {"build", "submit", "count", "wait"}
        /\ \A u \in Workers : u # w => todo'[u] = todo[u]
    BY <1>0, <1>2 DEF Build, Submit, CountSubmitted, WaitAll, coordVars, vertVars, busVars, WorkOK
  <2>2. PICK label \in {"submit", "count", "wait", "collect"} :
          pc' = [pc EXCEPT ![w] = label] /\ (label = "collect" => todo'[w] = Owned(w))
    BY <1>0, <1>2 DEF Build, Submit, CountSubmitted, WaitAll, Goto, WorkOK
  <2>3. \A u \in Workers : pc'[u] = IF u = w THEN label ELSE pc[u]
    BY <1>0, <2>2 DEF WorkOK
  <2>4. OutboxInv'
    <3>1. \A v \in Vertices : Outdated(v) => Outdated(v)'
      BY <2>1, <2>2, <2>3, OwnerType DEF Outdated, Flushed, Owned
    <3> QED
      BY <2>1, <3>1, OutboxKept
  <2>5. BusInv'
    BY <1>0, <2>1, <2>3 DEF BusInv, Flushed
  <2>6. LocalDelay'
    BY <1>0, <2>1 DEF LocalDelay
  <2> QED
    BY <2>4, <2>5, <2>6 DEF StepGroup
<1>7. CASE \E v \in Vertices : CollectCount(w, v)
  <2>1. PICK v \in Vertices : CollectCount(w, v)
    BY <1>7
  <2>2. /\ UNCHANGED <<pc, step, clearing, outbox, bus_outbox, bus_inbox, vertex_inbox>>
        /\ todo' = [todo EXCEPT ![w] = todo[w] \ {v}]
        /\ counted' = [counted EXCEPT ![w] = IF outbox[v] = {} THEN {} ELSE {v}]
        /\ counted[w] = {}
    BY <2>1 DEF CollectCount, coordVars, vertVars, busVars
  <2>3. /\ \A u \in Workers : u # w => todo'[u] = todo[u] /\ counted'[u] = counted[u]
        /\ todo'[w] = todo[w] \ {v} /\ counted'[w] = IF outbox[v] = {} THEN {} ELSE {v}
    BY <1>0, <2>2 DEF WorkOK
  <2>4. OutboxInv'
    <3>1. \A x \in Vertices : Outdated(x) /\ outbox[x] # {} => Outdated(x)'
      BY <2>2, <2>3, OwnerType DEF Outdated, Flushed
    <3> QED
      BY <2>2, <3>1, OutboxKept
  <2>5. BusInv' /\ LocalDelay'
    BY <1>0, <2>2 DEF BusInv, Flushed, LocalDelay
  <2> QED
    BY <2>4, <2>5 DEF StepGroup
<1>3. CASE \E v \in Vertices : CollectCopy(w, v)
  <2>1. PICK v \in Vertices : CollectCopy(w, v)
    BY <1>3
  <2>2. /\ UNCHANGED <<pc, step, todo, outbox, bus_inbox, vertex_inbox>>
        /\ pc[w] = "collect" /\ counted[w] = {v}
        /\ counted' = [counted EXCEPT ![w] = {}] /\ clearing' = [clearing EXCEPT ![w] = {v}]
        /\ bus_outbox' = [bus_outbox EXCEPT ![w] = bus_outbox[w] \cup outbox[v]]
    BY <2>1 DEF CollectCopy, coordVars, vertVars, EnqueueBatch
  <2>3. /\ \A u \in Workers : u # w => /\ counted'[u] = counted[u] /\ clearing'[u] = clearing[u]
                                       /\ bus_outbox'[u] = bus_outbox[u]
        /\ counted'[w] = {} /\ clearing'[w] = {v}
        /\ bus_outbox'[w] = bus_outbox[w] \cup outbox[v]
    BY <1>0, <2>2 DEF WorkOK, PlacesOK
  <2>4. OutboxInv'
    <3>1. clearing[w] = {}
      BY <1>0, <2>2 DEF TaskInv
    <3>2. \A x \in Vertices : Outdated(x)' <=> Outdated(x)
      BY <2>2, <2>3, <3>1, OwnerType DEF Outdated, Flushed
    <3> QED
      BY <2>2, <3>2, OutboxKept
  <2>5. BusInv'
    <3>1. \A m \in outbox[v] : m.step <= step /\ m.step + 1 >= step
      BY <1>0 DEF OutboxInv
    <3> QED
      BY <1>0, <2>2, <2>3, <3>1 DEF BusInv, Flushed
  <2>6. LocalDelay'
    BY <1>0, <2>2 DEF LocalDelay
  <2> QED
    BY <2>4, <2>5, <2>6 DEF StepGroup
<1>4. CASE \E v \in Vertices : CollectClear(w, v)
  <2>1. PICK v \in Vertices : CollectClear(w, v)
    BY <1>4
  <2>2. /\ UNCHANGED <<pc, step, todo, counted, bus_outbox, bus_inbox, vertex_inbox>>
        /\ pc[w] = "collect" /\ clearing[w] = {v}
        /\ outbox' = [outbox EXCEPT ![v] = {}]
        /\ clearing' = [clearing EXCEPT ![w] = {}]
    BY <2>1 DEF CollectClear, coordVars, busVars
  <2>3. \A u \in Workers : clearing'[u] = IF u = w THEN {} ELSE clearing[u]
    BY <1>0, <2>2 DEF WorkOK
  <2>4. \A x \in Vertices : outbox'[x] = IF x = v THEN {} ELSE outbox[x]
    BY <1>0, <2>2 DEF VertexOK
  <2>5. OutboxInv'
    <3>1. \A x \in Vertices : x # v => (Outdated(x)' <=> Outdated(x))
      BY <2>2, <2>3, OwnerType DEF Outdated, Flushed
    <3>2. \A x \in Vertices : \A m \in outbox'[x] :
            /\ m.src = x /\ m.step <= step' /\ m.step + 1 >= step'
            /\ ~Outdated(x)' => m.step = step'
      BY <1>0, <2>2, <2>4, <3>1, OutboxForm
    <3> QED
      BY <3>2 DEF OutboxInv, Outdated
  <2>6. BusInv' /\ LocalDelay'
    BY <1>0, <2>2 DEF BusInv, Flushed, LocalDelay
  <2> QED
    BY <2>5, <2>6 DEF StepGroup
<1>5. CASE Flush(w)
  <2>1. /\ UNCHANGED <<step, todo, counted, clearing, outbox, vertex_inbox>>
        /\ pc[w] = "collect" /\ pc' = [pc EXCEPT ![w] = "barrier"]
        /\ counted[w] = {} /\ clearing[w] = {} /\ todo[w] = {}
        /\ bus_inbox' = [bus_inbox EXCEPT ![w] = bus_inbox[w] \cup Local(w, bus_outbox[w])]
        /\ bus_outbox' = [bus_outbox EXCEPT ![w] = {}]
    BY <1>5 DEF Flush, Goto, coordVars, vertVars
  <2>2. /\ \A u \in Workers : u # w => /\ bus_inbox'[u] = bus_inbox[u] /\ pc'[u] = pc[u]
                                       /\ bus_outbox'[u] = bus_outbox[u]
        /\ bus_inbox'[w] = bus_inbox[w] \cup Local(w, bus_outbox[w])
        /\ bus_outbox'[w] = {} /\ pc'[w] = "barrier"
    BY <1>0, <2>1 DEF WorkOK, PlacesOK
  <2>3. OutboxInv'
    <3>1. \A v \in Vertices : Outdated(v) => Outdated(v)'
      BY <2>1, <2>2, OwnerType DEF Outdated, Flushed
    <3> QED
      BY <2>1, <3>1, OutboxKept
  <2>4. bus_inbox[w] = {}
    BY <1>0, <2>1 DEF BusInv, Flushed
  <2>5. \A m \in Local(w, bus_outbox[w]) : Owner(m.dst) = w /\ m \in bus_outbox[w]
    BY DEF Local
  <2>6. BusInv'
    BY <1>0, <2>1, <2>2, <2>4, <2>5 DEF BusInv, Flushed
  <2>7. LocalDelay'
    BY <1>0, <2>1 DEF LocalDelay
  <2> QED
    BY <2>3, <2>6, <2>7 DEF StepGroup
<1>6. CASE ArriveBarrier(w) \/ PassBarrier(w) \/ CountActive(w)
  <2>1. /\ UNCHANGED <<step, todo, counted, clearing, outbox, bus_outbox, bus_inbox, vertex_inbox>>
        /\ pc[w] \in {"barrier", "spin", "active"}
    BY <1>6 DEF ArriveBarrier, PassBarrier, CountActive, coordVars, vertVars, busVars
  <2>2. PICK label \in {"spin", "active", "returned"} : pc' = [pc EXCEPT ![w] = label]
    BY <1>6 DEF ArriveBarrier, PassBarrier, CountActive, Goto
  <2>3. \A u \in Workers : pc'[u] = IF u = w THEN label ELSE pc[u]
    BY <1>0, <2>2 DEF WorkOK
  <2>4. OutboxInv'
    <3>1. \A v \in Vertices : Outdated(v) => Outdated(v)'
      BY <2>1, <2>3, OwnerType DEF Outdated, Flushed
    <3> QED
      BY <2>1, <3>1, OutboxKept
  <2>5. BusInv' /\ LocalDelay'
    BY <1>0, <2>1, <2>3 DEF BusInv, Flushed, LocalDelay
  <2> QED
    BY <2>4, <2>5 DEF StepGroup
<1> QED
  BY <1>1, <1>2, <1>3, <1>4, <1>5, <1>6, <1>7 DEF WorkerStep

\* The supersteps of messages in every other step.
LEMMA OtherSteps ==
  ASSUME IInv, PoolStep \/ NetStep \/ CoordStep \/ UNCHANGED vars
  PROVE  StepGroup'
<1>0. CoordOK /\ WorkOK /\ VertexOK /\ PlacesOK /\ OutboxInv /\ BusInv /\ LocalDelay
      /\ QuietInv /\ TurnInv
  BY DEF IInv, Types
<1>1. CASE \E v \in Vertices : Compute(v)
  <2>1. PICK v \in Vertices : Compute(v)
    BY <1>1
  <2>2. /\ UNCHANGED <<pc, todo, counted, clearing, step, outbox, bus_outbox, bus_inbox>>
        /\ vertex_inbox' = [vertex_inbox EXCEPT ![Owner(v)] =
                              {m \in vertex_inbox[Owner(v)] : m.dst # v}]
    BY <2>1 DEF Compute, coordVars, workVars, busVars
  <2>3. OutboxInv'
    <3>1. \A x \in Vertices : Outdated(x)' <=> Outdated(x)
      BY <2>2 DEF Outdated, Flushed
    <3> QED
      BY <2>2, <3>1, OutboxKept
  <2>4. BusInv'
    BY <1>0, <2>2 DEF BusInv, Flushed
  <2>5. LocalDelay'
    <3>1. \A u \in Workers : vertex_inbox'[u] \subseteq vertex_inbox[u]
      BY <1>0, <2>2, OwnerType DEF PlacesOK
    <3> QED
      BY <1>0, <2>2, <3>1 DEF LocalDelay
  <2> QED
    BY <2>3, <2>4, <2>5 DEF StepGroup
<1>4. CASE \E v \in Vertices : \E d \in sending[v] : SendMessage(v, d)
  <2>1. PICK v \in Vertices : \E d \in sending[v] : SendMessage(v, d)
    BY <1>4
  <2>2. PICK d \in sending[v] : SendMessage(v, d)
    BY <2>1
  <2>3. /\ UNCHANGED <<pc, todo, counted, clearing, step, bus_outbox, bus_inbox, vertex_inbox>>
        /\ outbox' = [outbox EXCEPT ![v] = outbox[v] \cup Messages(v, {d})]
    BY <2>2 DEF SendMessage, coordVars, workVars, busVars
  <2>4. \A m \in Messages(v, {d}) : m.src = v /\ m.step = step
    BY DEF Messages
  <2>5. \A x \in Vertices :
          outbox'[x] = IF x = v THEN outbox[v] \cup Messages(v, {d}) ELSE outbox[x]
    BY <1>0, <2>3 DEF VertexOK
  <2>6. OutboxInv'
    <3>1. \A x \in Vertices : Outdated(x)' <=> Outdated(x)
      BY <2>3 DEF Outdated, Flushed
    <3>2. \A x \in Vertices : \A m \in outbox'[x] :
            /\ m.src = x /\ m.step <= step' /\ m.step + 1 >= step'
            /\ ~Outdated(x)' => m.step = step'
      <4> SUFFICES ASSUME NEW x \in Vertices, NEW m \in outbox'[x]
                   PROVE  /\ m.src = x /\ m.step <= step /\ m.step + 1 >= step
                          /\ ~Outdated(x) => m.step = step
        BY <2>3, <3>1
      <4>1. step \in Nat
        BY <1>0 DEF CoordOK
      <4>2. CASE m \in outbox[x]
        BY <1>0, <4>2, OutboxForm
      <4>3. CASE x = v /\ m \in Messages(v, {d})
        BY <2>4, <4>1, <4>3
      <4> QED
        BY <2>5, <4>2, <4>3
    <3> QED
      BY <3>2 DEF OutboxInv, Outdated
  <2>7. BusInv' /\ LocalDelay'
    BY <1>0, <2>3 DEF BusInv, Flushed, LocalDelay
  <2> QED
    BY <2>6, <2>7 DEF StepGroup
<1>2. CASE NextStep \/ BenchmarkStep
  <2>1. /\ Joined /\ pc' = [w \in Workers |-> "drain"] /\ step' = step + 1
        /\ UNCHANGED <<todo, counted, clearing, outbox, bus_outbox, bus_inbox, vertex_inbox>>
    BY <1>2 DEF NextStep, BenchmarkStep, StartSuperstep, busVars
  <2>2. pool = {}
    BY <1>0, <2>1 DEF Joined, QuietInv, Waited, Flushed
  <2>3. \A u \in Workers : pc[u] = "returned" /\ pc'[u] = "drain"
    BY <2>1 DEF Joined
  <2>4. OutboxInv'
    <3>1. \A v \in Vertices : ~Outdated(v) /\ Outdated(v)'
      BY <2>3, OwnerType DEF Outdated, Flushed
    <3>2. \A x \in Vertices : \A m \in outbox'[x] :
            /\ m.src = x /\ m.step <= step' /\ m.step + 1 >= step'
            /\ ~Outdated(x)' => m.step = step'
      <4>1. \A x \in Vertices : \A m \in outbox[x] : m.src = x /\ m.step = step
        BY <1>0, <3>1, OutboxForm
      <4>2. step \in Nat
        BY <1>0 DEF CoordOK
      <4> QED
        BY <2>1, <3>1, <4>1, <4>2
    <3> QED
      BY <3>2 DEF OutboxInv, Outdated
  <2>5. BusInv'
    <3>1. ASSUME NEW u \in Workers
          PROVE  /\ bus_outbox[u] = {}
                 /\ \A m \in bus_inbox[u] : Owner(m.dst) = u /\ m.step <= step /\ m.step + 1 >= step
      BY <1>0, <2>3 DEF BusInv, Flushed
    <3>2. \A u \in Workers : \A m \in bus_inbox[u] : m.step \in Nat
      BY <1>0 DEF PlacesOK, Message
    <3> QED
      BY <1>0, <2>1, <2>3, <3>1, <3>2 DEF BusInv, CoordOK
  <2>6. LocalDelay'
    <3>1. \A w \in Workers : \A m \in vertex_inbox[w] : Owner(m.dst) # w
      BY <1>0, <2>2, <2>3 DEF TurnInv, HasTask, Starting, Submitting
    <3> QED
      BY <2>1, <3>1 DEF LocalDelay
  <2> QED
    BY <2>4, <2>5, <2>6 DEF StepGroup
<1>3. CASE \/ \E v \in Vertices : CountCompleted(v)
           \/ NetStep \/ Converge \/ Exhaust \/ UNCHANGED vars
  <2>1. UNCHANGED <<pc, todo, counted, clearing, step, outbox, bus_outbox, bus_inbox, vertex_inbox>>
    BY <1>3 DEF CountCompleted, NetStep, Deliver, Converge, Exhaust, vars, coordVars, workVars,
       vertVars, busVars
  <2>2. OutboxInv'
    <3>1. \A v \in Vertices : Outdated(v)' <=> Outdated(v)
      BY <2>1 DEF Outdated, Flushed
    <3> QED
      BY <2>1, <3>1, OutboxKept
  <2>3. BusInv' /\ LocalDelay'
    BY <1>0, <2>1 DEF BusInv, Flushed, LocalDelay
  <2> QED
    BY <2>2, <2>3 DEF StepGroup
<1> QED
  BY <1>1, <1>2, <1>3, <1>4 DEF PoolStep, CoordStep

----------------------------------------------------------------------------
(* Each message is in one place and accounted for *)

OnceGroup == ApartInv /\ FreshInv /\ SendInv /\ AheadInv /\ SentAccounted

\* The two halves of the accounting of worker w.
Balanced(w) ==
  msgs_sent[w] = messages_received[w] + Cardinality(bus_inbox[w])
    + Cardinality(wire[w]) + Cardinality(qp_inbox[w]) + Cardinality(dropped[w])
NotOver(w) == messages_sent[w] <= msgs_sent[w] + Cardinality(bus_outbox[w])

\* SentAccounted by halves, before and after a step.
LEMMA AccountForm ==
  /\ SentAccounted <=> \A w \in Workers : Balanced(w) /\ (counted[w] = {} => NotOver(w))
  /\ SentAccounted' <=> \A w \in Workers : Balanced(w)' /\ (counted'[w] = {} => NotOver(w)')
  BY DEF SentAccounted, Balanced, NotOver

\* The places a worker's messages can be in.
places == <<bus_outbox, bus_inbox, wire, qp_inbox, dropped>>

\* Where places are left alone.
LEMMA PlacesKept ==
  ASSUME IInv, UNCHANGED places
  PROVE  /\ \A u \in Workers : Collected(u)' = Collected(u)
         /\ UNCHANGED step => ApartInv'
         /\ UNCHANGED <<statVars, counted>> => SentAccounted'
         /\ UNCHANGED <<statVars, counted, outbox>> => AheadInv'
<1>1. /\ \A u \in Workers : Collected(u)' = Collected(u)
      /\ UNCHANGED step => ApartInv'
  BY DEF IInv, places, Collected, ApartInv, Apart
<1>2. UNCHANGED <<statVars, counted>> => SentAccounted'
  BY DEF IInv, places, statVars, SentAccounted
<1>3. UNCHANGED <<statVars, counted, outbox>> => AheadInv'
  BY DEF IInv, places, statVars, AheadInv, Ahead
<1> QED
  BY <1>1, <1>2, <1>3

\* Where nothing is sent, and nothing collected comes back.
LEMMA FreshKept ==
  ASSUME IInv, UNCHANGED <<outbox, computed, clearing, step>>,
         \A u \in Workers : Collected(u)' \subseteq Collected(u)
  PROVE  FreshInv'
<1>1. \A v \in Vertices : Collected(Owner(v))' \subseteq Collected(Owner(v))
  BY OwnerType
<1>2. \A v \in Vertices : Fresh(v)
  BY DEF IInv, FreshInv
<1>3. ASSUME NEW v \in Vertices PROVE Fresh(v)'
  BY <1>1, <1>2 DEF Fresh
<1> QED
  BY <1>3 DEF FreshInv

\* The same for what is yet to be sent.
LEMMA SendKept ==
  ASSUME IInv, UNCHANGED <<outbox, sending, ran, step>>,
         \A u \in Workers : Collected(u)' \subseteq Collected(u)
  PROVE  SendInv'
<1>1. \A v \in Vertices : Collected(Owner(v))' \subseteq Collected(Owner(v))
  BY OwnerType
<1>2. \A v \in Vertices : Unsent(v)
  BY DEF IInv, SendInv
<1>3. ASSUME NEW v \in Vertices PROVE Unsent(v)'
  BY <1>1, <1>2 DEF Unsent, Messages
<1> QED
  BY <1>3 DEF SendInv

\* The sizes of a worker's places.
LEMMA PlaceCounts ==
  ASSUME PlacesOK, StatsOK, NEW u \in Workers
  PROVE  /\ messages_sent[u] \in Nat /\ msgs_sent[u] \in Nat /\ messages_received[u] \in Nat
         /\ Cardinality(bus_outbox[u]) \in Nat /\ Cardinality(bus_inbox[u]) \in Nat
         /\ Cardinality(wire[u]) \in Nat /\ Cardinality(qp_inbox[u]) \in Nat
         /\ Cardinality(dropped[u]) \in Nat
  BY MessageCount DEF PlacesOK, StatsOK

\* drain_inbox() counts what it takes.
LEMMA DrainOnce ==
  ASSUME IInv, NEW w \in Workers, Drain(w)
  PROVE  OnceGroup'
<1>0. /\ PlacesOK /\ StatsOK /\ BusInv /\ ApartInv /\ AheadInv /\ SentAccounted
  BY DEF IInv, Types
<1>1. /\ UNCHANGED <<step, outbox, sending, ran, computed, counted, clearing, bus_outbox, wire,
                     dropped, messages_sent, msgs_sent>>
      /\ messages_received' = [messages_received EXCEPT ![w] =
           messages_received[w] + Cardinality(DrainInbox(w))]
      /\ bus_inbox' = [bus_inbox EXCEPT ![w] = {}] /\ qp_inbox' = [qp_inbox EXCEPT ![w] = {}]
  BY DEF Drain, coordVars, vertVars, poolVars
<1>2. \A u \in Workers :
        /\ u # w => /\ bus_inbox'[u] = bus_inbox[u] /\ qp_inbox'[u] = qp_inbox[u]
                    /\ messages_received'[u] = messages_received[u]
        /\ u = w => /\ bus_inbox'[u] = {} /\ qp_inbox'[u] = {}
                    /\ messages_received'[u] = messages_received[u] + Cardinality(DrainInbox(w))
  BY <1>0, <1>1 DEF PlacesOK, StatsOK
<1>3. \A u \in Workers : Collected(u)' \subseteq Collected(u)
  BY <1>1, <1>2 DEF Collected
<1>4. FreshInv' /\ SendInv' /\ AheadInv'
  BY <1>0, <1>1, <1>3, FreshKept, SendKept DEF AheadInv, Ahead
<1>5. ApartInv'
  BY <1>0, <1>1, <1>2, <1>3 DEF ApartInv, Apart
<1>6. Cardinality(DrainInbox(w)) = Cardinality(bus_inbox[w]) + Cardinality(qp_inbox[w])
  <2>1. bus_inbox[w] \cap qp_inbox[w] = {}
    BY <1>0 DEF BusInv, ApartInv, Apart
  <2>2. bus_inbox[w] \in SUBSET Message /\ qp_inbox[w] \in SUBSET Message
    BY <1>0 DEF PlacesOK
  <2> QED
    BY <2>1, <2>2, DisjointCount DEF DrainInbox, ReceiveAll
<1>7. SentAccounted'
  <2> SUFFICES ASSUME NEW u \in Workers
               PROVE  Balanced(u)' /\ (counted'[u] = {} => NotOver(u)')
    BY AccountForm
  <2>0. Balanced(u) /\ (counted[u] = {} => NotOver(u))
    BY <1>0, AccountForm
  <2>1. CASE u # w
    BY <1>1, <1>2, <2>0, <2>1 DEF Balanced, NotOver
  <2>2. CASE u = w
    <3>1. Cardinality(bus_inbox'[u]) = 0 /\ Cardinality(qp_inbox'[u]) = 0
      BY <1>2, <2>2, FS_EmptySet
    <3>2. messages_received'[u] =
            messages_received[u] + Cardinality(bus_inbox[u]) + Cardinality(qp_inbox[u])
      BY <1>0, <1>2, <1>6, <2>2, PlaceCounts
    <3> QED
      BY <1>0, <1>1, <2>0, <3>1, <3>2, PlaceCounts DEF Balanced, NotOver
  <2> QED
    BY <2>1, <2>2
<1> QED
  BY <1>4, <1>5, <1>7 DEF OnceGroup

\* collect_and_route_outbox() counts an outbox before it copies it.
LEMMA CountOnce ==
  ASSUME IInv, NEW w \in Workers, NEW v \in Vertices, CollectCount(w, v)
  PROVE  OnceGroup'
<1>0. WorkOK /\ VertexOK /\ PlacesOK /\ StatsOK /\ AheadInv /\ SentAccounted
  BY DEF IInv, Types
<1>1. /\ UNCHANGED <<step, outbox, sending, ran, computed, clearing, places, msgs_sent,
                     messages_received>>
      /\ counted[w] = {} /\ counted' = [counted EXCEPT ![w] = IF outbox[v] = {} THEN {} ELSE {v}]
      /\ messages_sent' = [messages_sent EXCEPT ![w] = messages_sent[w] + Cardinality(outbox[v])]
  BY DEF CollectCount, coordVars, vertVars, busVars, poolVars, places
<1>2. \A u \in Workers :
        /\ u # w => counted'[u] = counted[u] /\ messages_sent'[u] = messages_sent[u]
        /\ u = w => /\ counted'[u] = IF outbox[v] = {} THEN {} ELSE {v}
                    /\ messages_sent'[u] = messages_sent[u] + Cardinality(outbox[v])
  BY <1>0, <1>1 DEF WorkOK, StatsOK
<1>3. ApartInv' /\ FreshInv' /\ SendInv'
  BY <1>1, PlacesKept, FreshKept, SendKept
<1>4. UNCHANGED <<bus_outbox, bus_inbox, wire, qp_inbox, dropped>>
  BY <1>1 DEF places
<1>5. Cardinality(outbox[v]) \in Nat
  BY <1>0, MessageCount DEF VertexOK
<1>6. NotOver(w)
  BY <1>0, <1>1, AccountForm
<1>7. ASSUME NEW u \in Workers
      PROVE  Ahead(u)' /\ Balanced(u)' /\ (counted'[u] = {} => NotOver(u)')
  <2>0. Ahead(u) /\ Balanced(u) /\ (counted[u] = {} => NotOver(u))
    BY <1>0, AccountForm DEF AheadInv
  <2>1. CASE u # w
    BY <1>1, <1>2, <1>4, <2>0, <2>1 DEF Ahead, Balanced, NotOver
  <2>2. CASE u = w /\ outbox[v] = {}
    <3>1. counted'[u] = {} /\ messages_sent'[u] = messages_sent[u]
      BY <1>0, <1>2, <2>2, FS_EmptySet, PlaceCounts
    <3> QED
      BY <1>1, <1>4, <1>6, <2>0, <2>2, <3>1 DEF Ahead, Balanced, NotOver
  <2>3. CASE u = w /\ outbox[v] # {}
    <3>1. counted'[u] = {v} /\ messages_sent'[u] = messages_sent[w] + Cardinality(outbox[v])
      BY <1>2, <2>3
    <3>2. messages_sent'[u]
            <= msgs_sent[u] + Cardinality(bus_outbox[u]) + Cardinality(outbox[v])
      BY <1>0, <1>5, <1>6, <2>3, <3>1, PlaceCounts DEF NotOver
    <3>3. Ahead(u)'
      BY <1>1, <1>4, <3>1, <3>2 DEF Ahead
    <3> QED
      BY <1>1, <1>4, <2>0, <3>1, <3>3 DEF Balanced
  <2> QED
    BY <2>1, <2>2, <2>3
<1> QED
  BY <1>3, <1>7, AccountForm DEF OnceGroup, AheadInv

\* collect_and_route_outbox() copies what is nowhere else.
LEMMA CopyOnce ==
  ASSUME IInv, NEW w \in Workers, NEW v \in Vertices, CollectCopy(w, v)
  PROVE  OnceGroup'
<1>0. /\ WorkOK /\ VertexOK /\ PlacesOK /\ StatsOK /\ TaskInv /\ OutboxInv /\ ApartInv
      /\ FreshInv /\ SendInv /\ AheadInv /\ SentAccounted
  BY DEF IInv, Types
<1>1. /\ UNCHANGED <<step, outbox, sending, ran, computed, bus_inbox, wire, qp_inbox, dropped,
                     messages_sent, msgs_sent, messages_received>>
      /\ counted[w] = {v} /\ counted' = [counted EXCEPT ![w] = {}]
      /\ clearing' = [clearing EXCEPT ![w] = {v}]
      /\ bus_outbox' = [bus_outbox EXCEPT ![w] = bus_outbox[w] \cup outbox[v]]
  BY DEF CollectCopy, coordVars, vertVars, statVars, poolVars, EnqueueBatch
<1>2. \A u \in Workers :
        /\ u # w => /\ bus_outbox'[u] = bus_outbox[u] /\ counted'[u] = counted[u]
                    /\ clearing'[u] = clearing[u]
        /\ u = w => /\ bus_outbox'[u] = bus_outbox[u] \cup outbox[v]
                    /\ counted'[u] = {} /\ clearing'[u] = {v}
  BY <1>0, <1>1 DEF WorkOK, PlacesOK
<1>3. Owner(v) = w /\ clearing[w] = {}
  BY <1>0, <1>1 DEF TaskInv, Owned
<1>4. \A x \in Vertices : \A m \in outbox[x] : m.src = x /\ m.step <= step
  BY <1>0 DEF OutboxInv
<1>5. outbox[v] \cap Collected(w) = {}
  BY <1>0, <1>1, <1>3 DEF FreshInv, Fresh
<1>6. \A u \in Workers : Collected(u)' = IF u = w THEN Collected(w) \cup outbox[v] ELSE Collected(u)
  BY <1>1, <1>2 DEF Collected
<1>7. ApartInv'
  <2> SUFFICES ASSUME NEW u \in Workers PROVE Apart(u)'
    BY DEF ApartInv
  <2>1. CASE u # w
    BY <1>0, <1>1, <1>2, <1>6, <2>1 DEF ApartInv, Apart
  <2>2. CASE u = w
    <3>1. \A m \in Collected(u)' : Owner(m.src) = u /\ m.step <= step
      BY <1>0, <1>3, <1>4, <1>6, <2>2 DEF ApartInv, Apart
    <3>2. outbox[v] \cap (wire[w] \cup qp_inbox[w] \cup dropped[w]) = {}
      BY <1>5 DEF Collected
    <3> QED
      BY <1>0, <1>1, <1>2, <2>2, <3>1, <3>2 DEF ApartInv, Apart, Owner
  <2> QED
    BY <2>1, <2>2
<1>8. FreshInv'
  <2> SUFFICES ASSUME NEW x \in Vertices PROVE Fresh(x)'
    BY DEF FreshInv
  <2>0. Fresh(x) /\ Fresh(v)
    BY <1>0 DEF FreshInv
  <2>1. CASE Owner(x) # w
    <3>1. Collected(Owner(x))' = Collected(Owner(x)) /\ clearing'[Owner(x)] = clearing[Owner(x)]
      BY <1>2, <1>6, <2>1, OwnerType
    <3> QED
      BY <1>1, <2>0, <3>1 DEF Fresh
  <2>2. CASE Owner(x) = w
    <3>1. Collected(Owner(x))' = Collected(w) \cup outbox[v]
      BY <1>6, <2>2
    <3>2. x \notin computed =>
            \A m \in outbox[x] \cup Collected(w) \cup outbox[v] : m.src = x => m.step < step
      BY <1>4, <2>0, <2>2 DEF Fresh
    <3>3. x \notin clearing'[w] => outbox[x] \cap (Collected(w) \cup outbox[v]) = {}
      <4>1. x \notin clearing[w]
        BY <1>3
      <4>2. outbox[x] \cap Collected(w) = {}
        BY <2>0, <2>2, <4>1 DEF Fresh
      <4>3. x # v => outbox[x] \cap outbox[v] = {}
        BY <1>4
      <4>4. x \notin clearing'[w] => x # v
        BY <1>2
      <4> QED
        BY <4>2, <4>3, <4>4
    <3> QED
      BY <1>1, <2>2, <3>1, <3>2, <3>3 DEF Fresh
  <2> QED
    BY <2>1, <2>2
<1>9. SendInv'
  <2> SUFFICES ASSUME NEW x \in Vertices PROVE Unsent(x)'
    BY DEF SendInv
  <2>0. Unsent(x) /\ Messages(x, sending[x])' = Messages(x, sending[x])
    BY <1>0, <1>1 DEF SendInv, Messages
  <2>1. \A m \in Messages(x, sending[x]) : m.src = x
    BY DEF Messages
  <2>2. Messages(x, sending[x]) \cap outbox[v] = {}
    <3>1. CASE x = v
      BY <2>0, <3>1 DEF Unsent
    <3>2. CASE x # v
      BY <1>4, <2>1, <3>2
    <3> QED
      BY <3>1, <3>2
  <2>3. Collected(Owner(x))' \subseteq Collected(Owner(x)) \cup outbox[v]
    BY <1>6, OwnerType
  <2> QED
    BY <1>1, <2>0, <2>2, <2>3 DEF Unsent
<1>10. ASSUME NEW u \in Workers
       PROVE  Ahead(u)' /\ Balanced(u)' /\ (counted'[u] = {} => NotOver(u)')
  <2>0. Ahead(u) /\ Balanced(u) /\ (counted[u] = {} => NotOver(u))
    BY <1>0, AccountForm DEF AheadInv
  <2>1. Balanced(u)'
    BY <1>1, <2>0 DEF Balanced
  <2>2. CASE u # w
    BY <1>1, <1>2, <2>0, <2>1, <2>2 DEF Ahead, NotOver
  <2>3. CASE u = w
    <3>1. bus_outbox[w] \cap outbox[v] = {}
      BY <1>5 DEF Collected
    <3>2. bus_outbox[w] \in SUBSET Message /\ outbox[v] \in SUBSET Message
      BY <1>0 DEF PlacesOK, VertexOK
    <3>3. Cardinality(bus_outbox'[u]) = Cardinality(bus_outbox[u]) + Cardinality(outbox[v])
      BY <1>2, <2>3, <3>1, <3>2, DisjointCount
    <3>4. Cardinality(outbox[v]) \in Nat
      BY <3>2, MessageCount
    <3>5. messages_sent[u] <= msgs_sent[u] + Cardinality(bus_outbox[u]) + Cardinality(outbox[v])
      BY <1>1, <2>0, <2>3 DEF Ahead
    <3>6. NotOver(u)'
      BY <1>0, <1>1, <3>3, <3>4, <3>5, PlaceCounts DEF NotOver
    <3> QED
      BY <1>2, <2>1, <2>3, <3>6 DEF Ahead
  <2> QED
    BY <2>2, <2>3
<1> QED
  BY <1>7, <1>8, <1>9, <1>10, AccountForm DEF OnceGroup, AheadInv

\* flush() sorts what was collected into inbox_, the queue pairs or nothing.
LEMMA FlushOnce ==
  ASSUME IInv, NEW w \in Workers, Flush(w)
  PROVE  OnceGroup'
<1>0. PlacesOK /\ StatsOK /\ BusInv /\ ApartInv /\ AheadInv /\ SentAccounted
  BY DEF IInv, Types
<1> DEFINE L == Local(w, bus_outbox[w])
           R == Remote(w, bus_outbox[w])
<1>1. /\ UNCHANGED <<step, outbox, sending, ran, computed, counted, clearing, qp_inbox,
                     messages_sent, messages_received>>
      /\ pc[w] = "collect" /\ counted[w] = {}
      /\ msgs_sent' = [msgs_sent EXCEPT ![w] = msgs_sent[w] + Cardinality(bus_outbox[w])]
      /\ bus_inbox' = [bus_inbox EXCEPT ![w] = bus_inbox[w] \cup L]
      /\ wire' = [wire EXCEPT ![w] = IF UseRdma THEN wire[w] \cup R ELSE wire[w]]
      /\ dropped' = [dropped EXCEPT ![w] = IF UseRdma THEN dropped[w] ELSE dropped[w] \cup R]
      /\ bus_outbox' = [bus_outbox EXCEPT ![w] = {}]
  BY DEF Flush, coordVars, vertVars, poolVars
<1>2. /\ L \cup R = bus_outbox[w] /\ L \cap R = {}
      /\ \A m \in R : Owner(m.dst) # w
  BY DEF Local, Remote
<1>3. bus_inbox[w] = {}
  BY <1>0, <1>1 DEF BusInv, Flushed
<1> HIDE DEF L, R
<1>4. \A u \in Workers :
        /\ u # w => /\ bus_inbox'[u] = bus_inbox[u] /\ wire'[u] = wire[u]
                    /\ msgs_sent'[u] = msgs_sent[u]
                    /\ dropped'[u] = dropped[u] /\ bus_outbox'[u] = bus_outbox[u]
        /\ u = w => /\ bus_inbox'[u] = L /\ bus_outbox'[u] = {}
                    /\ msgs_sent'[u] = msgs_sent[u] + Cardinality(bus_outbox[u])
                    /\ wire'[u] = IF UseRdma THEN wire[u] \cup R ELSE wire[u]
                    /\ dropped'[u] = IF UseRdma THEN dropped[u] ELSE dropped[u] \cup R
  BY <1>0, <1>1, <1>3 DEF PlacesOK, StatsOK
<1>5. \A u \in Workers : Collected(u)' \subseteq Collected(u)
  BY <1>1, <1>2, <1>4 DEF Collected
<1>6. FreshInv' /\ SendInv'
  BY <1>1, <1>5, FreshKept, SendKept
<1>9. AheadInv'
  BY <1>0, <1>1, <1>4 DEF AheadInv, Ahead
<1>7. ApartInv'
  <2> SUFFICES ASSUME NEW u \in Workers PROVE Apart(u)'
    BY DEF ApartInv
  <2>0. Apart(u)
    BY <1>0 DEF ApartInv
  <2>1. CASE u # w
    BY <1>1, <1>4, <1>5, <2>0, <2>1 DEF Apart
  <2>2. CASE u = w
    <3>1. \A m \in Collected(u)' : Owner(m.src) = u /\ m.step <= step
      BY <1>5, <2>0 DEF Apart
    <3>2. R \cap (wire[u] \cup qp_inbox[u] \cup dropped[u]) = {}
      BY <1>2, <2>0, <2>2 DEF Apart
    <3>3. \A m \in wire'[u] \cup qp_inbox'[u] : Owner(m.dst) # u
      BY <1>1, <1>2, <1>4, <2>0, <2>2 DEF Apart
    <3>4. /\ wire'[u] \cap (qp_inbox'[u] \cup dropped'[u]) = {}
          /\ qp_inbox'[u] \cap dropped'[u] = {} /\ bus_outbox'[u] = {}
      <4>1. CASE UseRdma
        <5>1. /\ wire'[u] = wire[u] \cup R /\ dropped'[u] = dropped[u]
              /\ qp_inbox'[u] = qp_inbox[u] /\ bus_outbox'[u] = {}
          BY <1>1, <1>4, <2>2, <4>1
        <5> QED
          BY <2>0, <3>2, <5>1 DEF Apart
      <4>2. CASE ~UseRdma
        <5>1. /\ wire'[u] = wire[u] /\ dropped'[u] = dropped[u] \cup R
              /\ qp_inbox'[u] = qp_inbox[u] /\ bus_outbox'[u] = {}
          BY <1>1, <1>4, <2>2, <4>2
        <5> QED
          BY <2>0, <3>2, <5>1 DEF Apart
      <4> QED
        BY <4>1, <4>2
    <3> QED
      BY <1>1, <3>1, <3>3, <3>4 DEF Apart, Owner
  <2> QED
    BY <2>1, <2>2
<1>8. SentAccounted'
  <2> SUFFICES ASSUME NEW u \in Workers
               PROVE  Balanced(u)' /\ (counted'[u] = {} => NotOver(u)')
    BY AccountForm
  <2>0. Balanced(u) /\ (counted[u] = {} => NotOver(u))
    BY <1>0, AccountForm
  <2>1. CASE u # w
    BY <1>1, <1>4, <2>0, <2>1 DEF Balanced, NotOver
  <2>2. CASE u = w
    <3>1. L \in SUBSET Message /\ R \in SUBSET Message /\ wire[w] \in SUBSET Message
          /\ dropped[w] \in SUBSET Message
      BY <1>0, <1>2 DEF PlacesOK
    <3>2. /\ Cardinality(bus_outbox[u]) = Cardinality(L) + Cardinality(R)
          /\ Cardinality(L) \in Nat /\ Cardinality(R) \in Nat
      BY <1>2, <2>2, <3>1, DisjointCount, MessageCount
    <3>3. R \cap wire[w] = {} /\ R \cap dropped[w] = {}
      BY <1>0, <1>2 DEF ApartInv, Apart
    <3>4. /\ Cardinality(wire[w] \cup R) = Cardinality(wire[w]) + Cardinality(R)
          /\ Cardinality(dropped[w] \cup R) = Cardinality(dropped[w]) + Cardinality(R)
      BY <3>1, <3>3, DisjointCount
    <3>5. /\ Cardinality(bus_outbox'[u]) = 0 /\ Cardinality(bus_inbox'[u]) = Cardinality(L)
          /\ Cardinality(bus_inbox[u]) = 0
      BY <1>3, <1>4, <2>2, FS_EmptySet
    <3>6. Cardinality(wire'[u]) + Cardinality(dropped'[u])
            = Cardinality(wire[u]) + Cardinality(dropped[u]) + Cardinality(R)
      <4>0. Cardinality(wire[w]) \in Nat /\ Cardinality(dropped[w]) \in Nat
        BY <1>0, PlaceCounts
      <4>1. CASE UseRdma
        <5>1. wire'[u] = wire[w] \cup R /\ dropped'[u] = dropped[w]
          BY <1>4, <2>2, <4>1
        <5> QED
          BY <2>2, <3>2, <3>4, <4>0, <5>1
      <4>2. CASE ~UseRdma
        <5>1. wire'[u] = wire[w] /\ dropped'[u] = dropped[w] \cup R
          BY <1>4, <2>2, <4>2
        <5> QED
          BY <2>2, <3>2, <3>4, <4>0, <5>1
      <4> QED
        BY <4>1, <4>2
    <3>7. Cardinality(wire'[u]) \in Nat /\ Cardinality(dropped'[u]) \in Nat
      <4>1. wire'[u] \in SUBSET Message /\ dropped'[u] \in SUBSET Message
        BY <1>4, <2>2, <3>1
      <4> QED
        BY <4>1, MessageCount
    <3>8. msgs_sent'[u] = msgs_sent[u] + Cardinality(bus_outbox[u])
      BY <1>4, <2>2
    <3>9. Balanced(u)'
      BY <1>0, <1>1, <2>0, <3>2, <3>5, <3>6, <3>7, <3>8, PlaceCounts DEF Balanced
    <3>10. NotOver(u)'
      BY <1>0, <1>1, <2>0, <2>2, <3>5, <3>8, PlaceCounts DEF NotOver
    <3> QED
      BY <3>9, <3>10
  <2> QED
    BY <2>1, <2>2
<1> QED
  BY <1>6, <1>7, <1>8, <1>9 DEF OnceGroup

\* Delivery moves a message from in_flight_ to inbox_ of its queue pair.
LEMMA DeliverOnce ==
  ASSUME IInv, NEW w \in Workers, NEW m \in wire[w], Deliver(w, m)
  PROVE  OnceGroup'
<1>0. PlacesOK /\ StatsOK /\ ApartInv /\ AheadInv /\ SentAccounted
  BY DEF IInv, Types
<1>1. /\ UNCHANGED <<step, outbox, sending, ran, computed, counted, clearing, bus_outbox,
                     bus_inbox, dropped, messages_sent, msgs_sent, messages_received>>
      /\ wire' = [wire EXCEPT ![w] = wire[w] \ {m}]
      /\ qp_inbox' = [qp_inbox EXCEPT ![w] = qp_inbox[w] \cup {m}]
  BY DEF Deliver, coordVars, workVars, vertVars, statVars, poolVars
<1>2. \A u \in Workers :
        /\ u # w => wire'[u] = wire[u] /\ qp_inbox'[u] = qp_inbox[u]
        /\ u = w => wire'[u] = wire[u] \ {m} /\ qp_inbox'[u] = qp_inbox[u] \cup {m}
  BY <1>0, <1>1 DEF PlacesOK
<1>3. \A u \in Workers : Collected(u)' \subseteq Collected(u)
  BY <1>1, <1>2 DEF Collected
<1>4. FreshInv' /\ SendInv' /\ AheadInv'
  BY <1>0, <1>1, <1>3, FreshKept, SendKept DEF AheadInv, Ahead
<1>5. ApartInv'
  <2> SUFFICES ASSUME NEW u \in Workers PROVE Apart(u)'
    BY DEF ApartInv
  <2>1. Apart(u)
    BY <1>0 DEF ApartInv
  <2>2. \A n \in Collected(u)' : Owner(n.src) = u /\ n.step <= step
    BY <1>3, <2>1 DEF Apart
  <2>3. CASE u # w
    BY <1>1, <1>2, <2>1, <2>2, <2>3 DEF Apart
  <2>4. CASE u = w
    BY <1>1, <1>2, <2>1, <2>2, <2>4 DEF Apart
  <2> QED
    BY <2>3, <2>4
<1>6. SentAccounted'
  <2> SUFFICES ASSUME NEW u \in Workers
               PROVE  Balanced(u)' /\ (counted'[u] = {} => NotOver(u)')
    BY AccountForm
  <2>0. Balanced(u) /\ (counted[u] = {} => NotOver(u))
    BY <1>0, AccountForm
  <2>1. CASE u # w
    BY <1>1, <1>2, <2>0, <2>1 DEF Balanced, NotOver
  <2>2. CASE u = w
    <3>1. m \notin qp_inbox[w]
      BY <1>0 DEF ApartInv, Apart
    <3>2. IsFiniteSet(wire[w]) /\ IsFiniteSet(qp_inbox[w])
      BY <1>0, MessageCount DEF PlacesOK
    <3>3. Cardinality(wire'[u]) = Cardinality(wire[u]) - 1
      <4>1. wire'[u] = wire[w] \ {m}
        BY <1>2, <2>2
      <4>2. Cardinality(wire[w] \ {m}) = Cardinality(wire[w]) - 1
        BY <3>2, FS_RemoveElement
      <4> QED
        BY <2>2, <4>1, <4>2
    <3>4. Cardinality(qp_inbox'[u]) = Cardinality(qp_inbox[u]) + 1
      BY <1>2, <2>2, <3>1, <3>2, FS_AddElement
    <3> QED
      BY <1>0, <1>1, <2>0, <3>3, <3>4, PlaceCounts DEF Balanced, NotOver
  <2> QED
    BY <2>1, <2>2
<1> QED
  BY <1>4, <1>5, <1>6 DEF OnceGroup

\* What compute() is to send is nowhere yet.
LEMMA ComputeOnce ==
  ASSUME IInv, NEW v \in Vertices, Compute(v)
  PROVE  OnceGroup'
<1>0. CoordOK /\ VertexOK /\ PlacesOK /\ TaskInv /\ FreshInv /\ SendInv
  BY DEF IInv, Types
<1>1. /\ UNCHANGED <<step, outbox, counted, clearing, places, statVars>>
      /\ v \in pool /\ computed' = computed \cup {v} /\ ran' = ran \cup {v}
  BY DEF Compute, coordVars, workVars, busVars, places
<1>2. PICK D : sending' = [sending EXCEPT ![v] = D]
  BY DEF Compute
<1>3. \A x \in Vertices : sending'[x] = IF x = v THEN D ELSE sending[x]
  BY <1>0, <1>2 DEF VertexOK
<1>4. \A m \in Messages(v, D) : m.src = v /\ m.step = step
  BY DEF Messages
<1>5. v \notin computed
  BY <1>0, <1>1 DEF TaskInv
<1>6. \A x \in Vertices : Collected(Owner(x))' = Collected(Owner(x)) /\ Fresh(x) /\ Unsent(x)
  BY <1>0, <1>1, PlacesKept, OwnerType DEF FreshInv, SendInv
<1>7. ASSUME NEW x \in Vertices PROVE Fresh(x)'
  BY <1>1, <1>6 DEF Fresh
<1>8. ASSUME NEW x \in Vertices PROVE Unsent(x)'
  <2>1. CASE x # v
    <3>1. sending'[x] = sending[x] /\ Messages(x, sending[x])' = Messages(x, sending[x])
      BY <1>1, <1>3, <2>1 DEF Messages
    <3> QED
      BY <1>1, <1>3, <1>6, <2>1, <3>1 DEF Unsent
  <2>2. CASE x = v
    <3>1. Messages(x, sending[x])' = Messages(v, D)
      BY <1>1, <1>3, <2>2 DEF Messages
    <3>2. \A m \in outbox[v] \cup Collected(Owner(v)) : m.src = v => m.step < step
      BY <1>5, <1>6 DEF Fresh
    <3>3. Messages(v, D) \cap (outbox[v] \cup Collected(Owner(v))) = {}
      BY <1>0, <1>4, <3>2 DEF CoordOK
    <3> QED
      BY <1>1, <1>6, <2>2, <3>1, <3>3 DEF Unsent
  <2> QED
    BY <2>1, <2>2
<1> QED
  BY <1>1, <1>7, <1>8, PlacesKept DEF OnceGroup, FreshInv, SendInv

\* send_message pushes a message that is nowhere yet.
LEMMA SendOnce ==
  ASSUME IInv, NEW v \in Vertices, NEW d \in sending[v], SendMessage(v, d)
  PROVE  OnceGroup'
<1>0. CoordOK /\ WorkOK /\ VertexOK /\ PlacesOK /\ StatsOK /\ TaskInv /\ FreshInv /\ SendInv
      /\ AheadInv
  BY DEF IInv, Types
<1>1. /\ UNCHANGED <<step, computed, ran, counted, clearing, places, statVars>>
      /\ sending' = [sending EXCEPT ![v] = sending[v] \ {d}]
      /\ outbox' = [outbox EXCEPT ![v] = outbox[v] \cup Messages(v, {d})]
  BY DEF SendMessage, coordVars, workVars, busVars, poolVars, places
<1>2. \A x \in Vertices :
        /\ x # v => sending'[x] = sending[x] /\ outbox'[x] = outbox[x]
        /\ x = v => /\ sending'[x] = sending[v] \ {d}
                    /\ outbox'[x] = outbox[v] \cup Messages(v, {d})
  BY <1>0, <1>1 DEF VertexOK
<1>3. \A x \in Vertices : Collected(Owner(x))' = Collected(Owner(x)) /\ Fresh(x) /\ Unsent(x)
  BY <1>0, <1>1, PlacesKept, OwnerType DEF FreshInv, SendInv
<1>4. /\ Messages(v, {d}) \subseteq Messages(v, sending[v])
      /\ Messages(v, sending[v] \ {d}) \subseteq Messages(v, sending[v])
      /\ Messages(v, sending[v] \ {d}) \cap Messages(v, {d}) = {}
  BY DEF Messages
<1>5. v \in ran /\ v \in computed
  BY <1>0, <1>3 DEF Unsent, TaskInv
<1>6. ASSUME NEW x \in Vertices PROVE Fresh(x)'
  <2>1. CASE x # v
    BY <1>1, <1>2, <1>3, <2>1 DEF Fresh
  <2>2. CASE x = v
    <3>1. Messages(v, {d}) \cap Collected(Owner(v)) = {}
      BY <1>3, <1>4 DEF Unsent
    <3> QED
      BY <1>1, <1>2, <1>3, <1>5, <2>2, <3>1 DEF Fresh
  <2> QED
    BY <2>1, <2>2
<1>7. ASSUME NEW x \in Vertices PROVE Unsent(x)'
  <2>1. CASE x # v
    <3>1. sending'[x] = sending[x] /\ Messages(x, sending[x])' = Messages(x, sending[x])
      BY <1>1, <1>2, <2>1 DEF Messages
    <3> QED
      BY <1>1, <1>2, <1>3, <2>1, <3>1 DEF Unsent
  <2>2. CASE x = v
    <3>1. Messages(x, sending[x])' = Messages(v, sending[v] \ {d})
      BY <1>1, <1>2, <2>2 DEF Messages
    <3>2. Messages(v, sending[v]) \cap (outbox[v] \cup Collected(Owner(v))) = {}
      BY <1>3 DEF Unsent
    <3>3. Messages(v, sending[v] \ {d})
            \cap (outbox[v] \cup Messages(v, {d}) \cup Collected(Owner(v))) = {}
      BY <1>4, <3>2
    <3> QED
      BY <1>1, <1>2, <1>3, <1>5, <2>2, <3>1, <3>3 DEF Unsent
  <2> QED
    BY <2>1, <2>2
<1>8. ASSUME NEW u \in Workers PROVE Ahead(u)'
  <2>1. UNCHANGED <<counted, messages_sent, msgs_sent, bus_outbox>> /\ Ahead(u)
    BY <1>0, <1>1 DEF places, statVars, AheadInv
  <2>2. ASSUME NEW x \in counted[u]
        PROVE  /\ Cardinality(outbox[x]) <= Cardinality(outbox'[x])
               /\ Cardinality(outbox[x]) \in Nat /\ Cardinality(outbox'[x]) \in Nat
    <3>1. x \in Vertices
      BY <1>0 DEF WorkOK
    <3>2. outbox[x] \subseteq outbox'[x] /\ outbox[x] \in SUBSET Message
      BY <1>0, <1>2, <3>1 DEF VertexOK
    <3>3. Messages(v, {d}) \in SUBSET Message
      BY <1>0, MessagesType DEF VertexOK
    <3>4. outbox'[x] \in SUBSET Message
      BY <1>0, <1>2, <3>1, <3>2, <3>3 DEF VertexOK
    <3> QED
      BY <3>2, <3>4, MessageCount, FS_Subset
  <2>3. ASSUME NEW x \in counted[u]
        PROVE  messages_sent[u]
                 <= msgs_sent[u] + Cardinality(bus_outbox[u]) + Cardinality(outbox'[x])
    BY <1>0, <2>1, <2>2, PlaceCounts DEF Ahead
  <2> QED
    BY <2>1, <2>3 DEF Ahead
<1> QED
  BY <1>1, <1>6, <1>7, <1>8, PlacesKept DEF OnceGroup, FreshInv, SendInv, AheadInv

\* Each message stays in one place and accounted for, in every step.
LEMMA OnceStep ==
  ASSUME IInv, [Next]_vars
  PROVE  OnceGroup'
<1>0. /\ CoordOK /\ WorkOK /\ VertexOK /\ PlacesOK /\ TaskInv /\ QuietInv /\ OutboxInv /\ ApartInv
      /\ FreshInv /\ SendInv /\ AheadInv /\ SentAccounted
  BY DEF IInv, Types
<1>1. ASSUME UNCHANGED <<step, outbox, sending, ran, computed, counted, clearing, places, statVars>>
      PROVE  OnceGroup'
  BY <1>1, PlacesKept, FreshKept, SendKept DEF OnceGroup
<1>2. CASE \E w \in Workers : \E v \in Vertices : CollectClear(w, v)
  <2>1. PICK w \in Workers, v \in Vertices : CollectClear(w, v)
    BY <1>2
  <2>2. /\ UNCHANGED <<step, sending, ran, computed, counted, places, statVars>>
        /\ clearing[w] = {v}
        /\ outbox' = [outbox EXCEPT ![v] = {}] /\ clearing' = [clearing EXCEPT ![w] = {}]
    BY <2>1 DEF CollectClear, coordVars, busVars, poolVars, places
  <2>3. \A x \in Vertices : outbox'[x] = IF x = v THEN {} ELSE outbox[x]
    BY <1>0, <2>2 DEF VertexOK
  <2>4. \A x \in Vertices : x # v => (x \in clearing[Owner(x)] => x \in clearing'[Owner(x)])
    BY <1>0, <2>2, OwnerType DEF WorkOK
  <2>5. \A x \in Vertices : Collected(Owner(x))' = Collected(Owner(x))
    BY <2>2, OwnerType, PlacesKept
  <2>6. ASSUME NEW x \in Vertices PROVE Fresh(x)' /\ Unsent(x)'
    <3>1. Fresh(x) /\ Unsent(x) /\ Messages(x, sending[x])' = Messages(x, sending[x])
      BY <1>0, <2>2 DEF FreshInv, SendInv, Messages
    <3>2. Fresh(x)'
      BY <2>2, <2>3, <2>4, <2>5, <3>1 DEF Fresh
    <3> QED
      BY <2>2, <2>3, <2>5, <3>1, <3>2 DEF Unsent
  <2>7. ASSUME NEW u \in Workers PROVE Ahead(u)'
    <3>1. \A x \in counted[u] : x \in Vertices /\ x # v
      BY <1>0, <2>2, OwnedApart DEF TaskInv, Owned
    <3> QED
      BY <1>0, <2>2, <2>3, <3>1 DEF AheadInv, Ahead, places, statVars
  <2> QED
    BY <2>2, <2>6, <2>7, PlacesKept DEF OnceGroup, FreshInv, SendInv, AheadInv
<1>3. CASE NextStep \/ BenchmarkStep
  <2>1. /\ UNCHANGED <<outbox, sending, ran, counted, clearing, places, statVars>>
        /\ step' = step + 1 /\ Joined
    BY <1>3 DEF NextStep, BenchmarkStep, StartSuperstep, busVars, poolVars, places
  <2>2. \A u \in Workers : Collected(u)' = Collected(u)
    BY <2>1, PlacesKept
  <2>3. \A u \in Workers : \A m \in Collected(u) : m.step \in Nat /\ m.step <= step
    BY <1>0 DEF ApartInv, Apart, Collected, PlacesOK, Message
  <2>4. \A v \in Vertices : \A m \in outbox[v] : m.step \in Nat /\ m.step <= step
    BY <1>0 DEF OutboxInv, VertexOK, Message
  <2>5. ApartInv'
    <3> SUFFICES ASSUME NEW u \in Workers PROVE Apart(u)'
      BY DEF ApartInv
    <3>1. \A m \in Collected(u)' : Owner(m.src) = u /\ m.step <= step'
      BY <1>0, <2>1, <2>2, <2>3 DEF ApartInv, Apart, CoordOK
    <3> QED
      BY <1>0, <2>1, <3>1 DEF ApartInv, Apart, places
  <2>6. FreshInv'
    <3> SUFFICES ASSUME NEW x \in Vertices PROVE Fresh(x)'
      BY DEF FreshInv
    <3>1. Fresh(x) /\ Collected(Owner(x))' = Collected(Owner(x))
      BY <1>0, <2>2, OwnerType DEF FreshInv
    <3>2. \A m \in outbox[x] \cup Collected(Owner(x)) : m.step < step'
      BY <1>0, <2>1, <2>3, <2>4, OwnerType DEF CoordOK
    <3> QED
      BY <2>1, <3>1, <3>2 DEF Fresh
  <2>7. ASSUME NEW x \in Vertices PROVE Unsent(x)'
    <3>1. sending[x] = {}
      BY <1>0, <2>1 DEF Joined, QuietInv, Waited, Flushed, SendInv, Unsent
    <3> QED
      BY <2>1, <3>1 DEF Unsent, Messages
  <2> QED
    BY <2>1, <2>5, <2>6, <2>7, PlacesKept DEF OnceGroup, SendInv
<1>4. CASE \E w \in Workers :
             \/ Build(w) \/ (\E v \in Vertices : Submit(w, v)) \/ CountSubmitted(w) \/ WaitAll(w)
             \/ ArriveBarrier(w) \/ PassBarrier(w) \/ CountActive(w)
  <2>1. UNCHANGED <<step, outbox, sending, ran, computed, counted, clearing, places, statVars>>
    BY <1>4 DEF Build, Submit, CountSubmitted, WaitAll, ArriveBarrier, PassBarrier, CountActive,
       coordVars, vertVars, busVars, poolVars, places
  <2> QED
    BY <1>1, <2>1
<1>5. CASE Converge \/ Exhaust \/ Done \/ UNCHANGED vars
  <2>1. UNCHANGED <<step, outbox, sending, ran, computed, counted, clearing, places, statVars>>
    BY <1>5 DEF Converge, Exhaust, Done, vars, coordVars, workVars, vertVars, busVars, poolVars,
       places
  <2> QED
    BY <1>1, <2>1
<1>6. CASE \E w \in Workers :
             \/ Drain(w) \/ Flush(w)
             \/ \E v \in Vertices : CollectCount(w, v) \/ CollectCopy(w, v)
  BY <1>6, DrainOnce, CountOnce, CopyOnce, FlushOnce
<1>7. CASE NetStep \/ \E v \in Vertices : Compute(v) \/ \E d \in sending[v] : SendMessage(v, d)
  BY <1>7, DeliverOnce, ComputeOnce, SendOnce DEF NetStep
<1>8. CASE \E v \in Vertices : CountCompleted(v)
  <2>1. PICK v \in Vertices : CountCompleted(v)
    BY <1>8
  <2>2. /\ UNCHANGED <<step, outbox, sending, computed, counted, clearing, places, statVars>>
        /\ sending[v] = {} /\ ran' = ran \ {v}
    BY <2>1 DEF CountCompleted, coordVars, workVars, vertVars, busVars, places
  <2>3. \A u \in Workers : Collected(u)' = Collected(u)
    BY <2>2, PlacesKept
  <2>4. FreshInv'
    BY <2>2, <2>3, FreshKept
  <2>5. ASSUME NEW x \in Vertices PROVE Unsent(x)'
    <3>1. /\ Unsent(x) /\ Messages(x, sending[x])' = Messages(x, sending[x])
          /\ Collected(Owner(x))' = Collected(Owner(x))
      BY <1>0, <2>2, <2>3, OwnerType DEF SendInv, Messages
    <3> QED
      BY <2>2, <3>1 DEF Unsent
  <2> QED
    BY <2>2, <2>4, <2>5, PlacesKept DEF OnceGroup, SendInv
<1> QED
  BY <1>2, <1>3, <1>4, <1>5, <1>6, <1>7, <1>8 DEF Next, WorkerStep, PoolStep, CoordStep

----------------------------------------------------------------------------
(* The theorems *)

\* The initial state satisfies the invariant.
LEMMA InitInv == Init => IInv
<1> SUFFICES ASSUME Init PROVE IInv
  OBVIOUS
<1>1. CoordOK /\ PoolOK /\ StatsOK
  BY DEF Init, CoordOK, PoolOK, StatsOK
<1>2. WorkOK
  <2>1. 0 \in 0 .. Cardinality(Vertices)
    BY FS_CardinalityType
  <2> QED
    BY <2>1 DEF Init, WorkOK, PC
<1>3. VertexOK /\ PlacesOK /\ BarrierOK
  BY DEF Init, VertexOK, PlacesOK, BarrierOK, Barrier!BarrierInit
<1>4. CrossInv
  BY DEF Init, CrossInv, Arrived, Past, Barrier!BarrierInit
<1>5. TaskInv /\ QuietInv
  BY DEF Init, TaskInv, QuietInv, Starting, Submitting
<1>6. CountInv
  <2>1. Counting = {}
    BY DEF Init, Counting
  <2> QED
    BY <2>1, FS_EmptySet DEF Init, CountInv
<1>7. TurnInv /\ DrainedInv /\ LocalDelay /\ OutboxInv /\ BusInv
  BY DEF Init, TurnInv, DrainedInv, LocalDelay, OutboxInv, BusInv, Starting
<1>8. \A w \in Workers : Collected(w) = {}
  BY DEF Init, Collected
<1>9. ApartInv
  BY <1>8 DEF Init, ApartInv, Apart
<1>10. FreshInv
  BY <1>8, OwnerType DEF Init, FreshInv, Fresh
<1>11. SentAccounted /\ AheadInv
  BY FS_EmptySet DEF Init, SentAccounted, AheadInv, Ahead
<1>12. SendInv
  BY <1>8, OwnerType DEF Init, SendInv, Unsent, Messages
<1> QED
  BY <1>1, <1>2, <1>3, <1>4, <1>5, <1>6, <1>7, <1>9, <1>10, <1>11, <1>12
     DEF IInv, Types

\* Every step keeps the invariant.
LEMMA NextInv == IInv /\ [Next]_vars => IInv'
<1> SUFFICES ASSUME IInv, [Next]_vars PROVE IInv'
  OBVIOUS
<1>1. CrossInv' /\ OnceGroup'
  BY CrossStep, OnceStep
<1>2. CASE \E w \in Workers : WorkerStep(w)
  <2>1. Types' /\ TaskGroup' /\ TurnGroup' /\ StepGroup'
    BY <1>2, WorkerTypes, WorkerTasks, WorkerTurns, WorkerSteps
  <2> QED
    BY <1>1, <2>1 DEF IInv, TaskGroup, TurnGroup, StepGroup, OnceGroup
<1>3. CASE PoolStep \/ NetStep \/ CoordStep
  <2>1. Types' /\ TaskGroup' /\ TurnGroup' /\ StepGroup'
    BY <1>3, OtherTypes, OtherTasks, OtherTurns, OtherSteps
  <2> QED
    BY <1>1, <2>1 DEF IInv, TaskGroup, TurnGroup, StepGroup, OnceGroup
<1>4. CASE Done \/ UNCHANGED vars
  <2>1. UNCHANGED vars
    BY <1>4 DEF Done
  <2>2. TaskGroup' /\ TurnGroup' /\ StepGroup'
    BY <2>1, OtherTasks, OtherTurns, OtherSteps
  <2>3. Types'
    BY <2>1 DEF vars, coordVars, workVars, vertVars, busVars, statVars, poolVars, barrier, IInv,
       Types, CoordOK, WorkOK, VertexOK, PlacesOK, StatsOK, PoolOK, BarrierOK
  <2> QED
    BY <1>1, <2>2, <2>3 DEF IInv, TaskGroup, TurnGroup, StepGroup, OnceGroup
<1> QED
  BY <1>2, <1>3, <1>4 DEF Next

\* The inductive invariant holds in every run.
THEOREM Invariance == Spec => []IInv
  BY InitInv, NextInv, PTL DEF Spec

\* The engine's members keep their types; the number of active vertices a
\* worker returns is one of its graph.
THEOREM TypeCorrect == Spec => []TypeOK
<1>1. IInv => TypeOK
  BY DEF IInv, Types, CoordOK, WorkOK, VertexOK, PlacesOK, StatsOK, PoolOK, BarrierOK, TypeOK
<1> QED
  BY <1>1, Invariance, PTL

\* However many workers share the two counters of wait_all(), and however
\* early it returns for some of them, no task of the superstep is left once
\* one worker is past the barrier.
THEOREM Quiescence == Spec => []BarrierQuiesces
<1>1. IInv => BarrierQuiesces
  <2> SUFFICES ASSUME IInv, Past # {}
               PROVE  /\ pool = {} /\ ran = {} /\ total_completed = total_submitted
                      /\ \A v \in Vertices : v \in computed \/ halted[v]
    BY DEF BarrierQuiesces
  <2>0. PoolOK /\ CrossInv /\ CountInv /\ QuietInv /\ TurnInv
    BY DEF IInv, Types
  <2>1. \A w \in Workers : Arrived(w)
    BY <2>0 DEF CrossInv
  <2>2. pool = {} /\ ran = {}
    BY <2>0, <2>1 DEF QuietInv, Waited, Flushed, Arrived
  <2>3. Counting = {}
    BY <2>1 DEF Counting, Arrived
  <2>4. total_completed = total_submitted
    BY <2>0, <2>2, <2>3, FS_EmptySet DEF CountInv, PoolOK
  <2>5. ASSUME NEW v \in Vertices PROVE v \in computed \/ halted[v]
    <3>1. Owner(v) \in Workers /\ v \in Owned(Owner(v))
      BY OwnerType DEF Owned
    <3> QED
      BY <2>0, <2>1, <2>2, <3>1 DEF TurnInv, HasTask, Arrived, Starting, Submitting
  <2> QED
    BY <2>2, <2>4, <2>5
<1> QED
  BY <1>1, Invariance, PTL

\* What flush() of a worker counted is what the worker received, what is on its
\* way and what was discarded, each message once; and messages_sent, counted
\* before the copy, is at most what the bus got, whatever a compute() that is
\* still running adds in between.
THEOREM Accounting == Spec => []SentAccounted
<1>1. IInv => SentAccounted
  BY DEF IInv
<1> QED
  BY <1>1, Invariance, PTL

\* A local message is received one superstep after it was sent, or two when
\* wait_all() returned early; never in the same one and never later.
THEOREM DelayBounded == Spec => []LocalDelay
<1>1. IInv => LocalDelay
  BY DEF IInv
<1> QED
  BY <1>1, Invariance, PTL

\* Past the barrier no mail of the worker's own vertices is left.
THEOREM MailTaken == Spec => []NoMailLeft
<1>1. IInv => NoMailLeft
  <2> SUFFICES ASSUME IInv, Past # {}, NEW w \in Workers, NEW m \in vertex_inbox[w]
               PROVE  Owner(m.dst) # w
    BY DEF NoMailLeft
  <2>0. CrossInv /\ QuietInv /\ TurnInv
    BY DEF IInv
  <2>1. \A u \in Workers : Arrived(u)
    BY <2>0 DEF CrossInv
  <2>2. pool = {}
    BY <2>0, <2>1 DEF QuietInv, Waited, Flushed, Arrived
  <2> QED
    BY <2>0, <2>1, <2>2 DEF TurnInv, HasTask, Arrived, Starting, Submitting
<1> QED
  BY <1>1, Invariance, PTL
============================================================================

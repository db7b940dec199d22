-------------------------- MODULE SuperstepPregel --------------------------
(***************************************************************************)
(* With one worker the engine is the Pregel model: Superstep implements    *)
(* PregelBSP, for every graph, vertex program and number of supersteps.    *)
(*                                                                         *)
(* With one worker nobody else's tasks are between push and count, so      *)
(* wait_all() never returns early, and no message leaves the worker.       *)
(***************************************************************************)
EXTENDS SuperstepProofs

\* Whoever has a task is awake.
AwakeInv == \A v \in Vertices : HasTask(0, v) => ~halted[v]

\* The vertices whose outbox may hold something.
MaySend(v) ==
  \/ pc[0] \in {"submit", "count", "wait"}
  \/ pc[0] = "collect" /\ v \in todo[0] \cup counted[0] \cup clearing[0]

\* What is in an outbox, in bus_outbox or behind the flush is of this
\* superstep, and an outbox that waits for clear() has been copied.
SentInv ==
  /\ \A v \in Vertices :
       /\ \A m \in outbox[v] : MaySend(v) /\ m.step = step
       /\ v \in clearing[0] => outbox[v] \subseteq bus_outbox[0]
  /\ \A m \in bus_outbox[0] : m.step = step
  /\ Flushed(0) => \A m \in bus_inbox[0] : m.step = step

OneInv == IInv /\ AwakeInv /\ SentInv

----------------------------------------------------------------------------
(* One worker *)

\* The worker owns everything.
LEMMA OneWorker ==
  ASSUME WorkerCount = 1
  PROVE  /\ Workers = {0} /\ 0 \in Workers
         /\ Owned(0) = Vertices
         /\ \A v \in Vertices : Owner(v) = 0
<1>1. Workers = {0}
  BY DEF Workers
<1> QED
  BY <1>1, OwnerType DEF Owned

\* Messages in outboxes and those about to be pushed to them.
Outboxes == UNION {outbox[v] \cup Messages(v, sending[v]) : v \in Vertices}

\* Vertices that send nothing in a step.
LEMMA OutboxesKept ==
  ASSUME UNCHANGED <<step, outbox, sending>>
  PROVE  Outboxes' = Outboxes
<1>1. \A v \in Vertices : Messages(v, sending[v])' = Messages(v, sending[v])
  BY DEF Messages
<1> QED
  BY <1>1 DEF Outboxes

\* The messages of the run, before and after a step.
LEMMA EverywhereForm ==
  ASSUME WorkerCount = 1
  PROVE  /\ Everywhere = InFlight(0) \cup vertex_inbox[0] \cup Outboxes
         /\ Everywhere' = InFlight(0)' \cup vertex_inbox'[0] \cup Outboxes'
<1> DEFINE A == {InFlight(w) \cup vertex_inbox[w] : w \in Workers}
           X == InFlight(0) \cup vertex_inbox[0]
           B == {InFlight(w)' \cup vertex_inbox'[w] : w \in Workers}
           Y == InFlight(0)' \cup vertex_inbox'[0]
<1>1. A = {X} /\ B = {Y}
  BY OneWorker, Zenon
<1>2. Everywhere = (UNION A) \cup Outboxes /\ Everywhere' = (UNION B) \cup Outboxes'
  BY Zenon DEF Everywhere, Outboxes
<1> HIDE DEF A, X, B, Y
<1>3. UNION A = X /\ UNION B = Y
  BY <1>1
<1>4. Everywhere = X \cup Outboxes /\ Everywhere' = Y \cup Outboxes'
  BY <1>2, <1>3
<1> QED
  BY <1>4, Zenon DEF X, Y

\* No message is for another worker: nothing is ever on a queue pair.
LEMMA NothingRemote ==
  ASSUME WorkerCount = 1, IInv
  PROVE  /\ wire[0] = {} /\ qp_inbox[0] = {}
         /\ Local(0, bus_outbox[0]) = bus_outbox[0] /\ Remote(0, bus_outbox[0]) = {}
         /\ \A m \in vertex_inbox[0] : Owner(m.dst) = 0
<1>1. PlacesOK /\ ApartInv
  BY DEF IInv, Types
<1>2. \A S \in SUBSET Message : \A m \in S : Owner(m.dst) = 0
  BY OneWorker DEF Message
<1>3. /\ wire[0] \in SUBSET Message /\ qp_inbox[0] \in SUBSET Message
      /\ bus_outbox[0] \in SUBSET Message /\ vertex_inbox[0] \in SUBSET Message
  BY <1>1, OneWorker DEF PlacesOK
<1>4. \A m \in wire[0] \cup qp_inbox[0] : Owner(m.dst) # 0
  BY <1>1, OneWorker DEF ApartInv, Apart
<1> QED
  BY <1>2, <1>3, <1>4 DEF Local, Remote

\* The mail of the Pregel model is in vertex_inbox_, or still in inbox_; what
\* is sent is elsewhere.
LEMMA WhereMailIs ==
  ASSUME WorkerCount = 1, OneInv
  PROVE  /\ \A m \in vertex_inbox[0] : m.step < step
         /\ \A m \in bus_inbox[0] : IF pc[0] = "drain" THEN m.step < step ELSE m.step = step
         /\ \A m \in bus_outbox[0] \cup Outboxes : m.step = step
         /\ step \in Nat /\ \A m \in Everywhere : m.step \in Nat
<1>1. CoordOK /\ PlacesOK /\ VertexOK /\ LocalDelay /\ BusInv /\ SentInv
  BY DEF OneInv, IInv, Types
<1>0. \A v \in Vertices : \A m \in Messages(v, sending[v]) : m.step = step /\ m \in Message
  BY <1>1 DEF Messages, Message, CoordOK, VertexOK
<1>2. \A m \in vertex_inbox[0] : m.step < step
  BY <1>1, OneWorker, NothingRemote DEF LocalDelay, OneInv
<1>3. \A m \in bus_inbox[0] : IF pc[0] = "drain" THEN m.step < step ELSE m.step = step
  BY <1>1, OneWorker DEF BusInv, SentInv, Flushed
<1>4. \A m \in bus_outbox[0] \cup Outboxes : m.step = step
  BY <1>0, <1>1 DEF SentInv, Outboxes
<1>5. step \in Nat
  BY <1>1 DEF CoordOK
<1>6. \A m \in Everywhere : m \in Message
  BY <1>0, <1>1, OneWorker, EverywhereForm DEF InFlight, Outboxes, PlacesOK, VertexOK
<1>7. \A m \in Message : m.step \in Nat
  BY DEF Message
<1> QED
  BY <1>2, <1>3, <1>4, <1>5, <1>6, <1>7

\* Messages change place and nothing else happens.
LEMMA MovesOnly ==
  ASSUME UNCHANGED <<step, halted, computed>>, Everywhere' = Everywhere
  PROVE  UNCHANGED Bsp!bspVars
  BY DEF Bsp!bspVars

PregelStep == AwakeInv' /\ SentInv' /\ (Bsp!BspNext \/ UNCHANGED Bsp!bspVars)

\* drain_inbox() and dispatch_messages() move the mail.
LEMMA DrainPregel ==
  ASSUME WorkerCount = 1, OneInv, Drain(0)
  PROVE  PregelStep
<1>0. WorkOK /\ PlacesOK /\ AwakeInv /\ SentInv /\ 0 \in Workers
  BY OneWorker DEF OneInv, IInv, Types
<1>1. /\ UNCHANGED <<step, halted, computed, outbox, sending, todo, counted, clearing, pool,
                     bus_outbox, wire>>
      /\ pc[0] = "drain" /\ pc'[0] = "build" /\ bus_inbox'[0] = {} /\ qp_inbox'[0] = {}
      /\ vertex_inbox'[0] = vertex_inbox[0] \cup bus_inbox[0] \cup qp_inbox[0]
  BY <1>0 DEF Drain, Goto, WorkOK, PlacesOK, coordVars, vertVars, poolVars, DrainInbox, ReceiveAll
<1>2. AwakeInv'
  BY <1>0, <1>1 DEF AwakeInv, HasTask, Submitting
<1>3. SentInv'
  BY <1>0, <1>1 DEF SentInv, MaySend, Flushed
<1>4. Everywhere' = Everywhere
  BY <1>1, EverywhereForm, OutboxesKept DEF InFlight
<1> QED
  BY <1>1, <1>2, <1>3, <1>4, MovesOnly DEF PregelStep

\* The tasks are built: halted vertices with mail wake up.
LEMMA BuildPregel ==
  ASSUME WorkerCount = 1, OneInv, Build(0)
  PROVE  PregelStep
<1>0. /\ WorkOK /\ VertexOK /\ PlacesOK /\ TaskInv /\ LocalDelay /\ AwakeInv /\ SentInv
      /\ 0 \in Workers /\ Owned(0) = Vertices
  BY OneWorker DEF OneInv, IInv, Types
<1>1. /\ UNCHANGED <<step, computed, outbox, sending, counted, clearing, pool, bus_outbox,
                     bus_inbox, wire, qp_inbox, vertex_inbox>>
      /\ pc[0] = "build" /\ todo'[0] = ToCompute(0)
      /\ pc'[0] = IF ToCompute(0) = {} THEN "wait" ELSE "submit"
      /\ halted' = [v \in Vertices |-> halted[v] /\ v \notin ToCompute(0)]
  BY <1>0 DEF Build, Goto, WorkOK, coordVars, busVars, poolVars
<1>2. pool \cap Vertices = {} /\ computed \cap Vertices = {}
  BY <1>0, <1>1 DEF TaskInv, Starting
<1>3. AwakeInv'
  BY <1>0, <1>1, <1>2 DEF AwakeInv, HasTask, Submitting
<1>4. SentInv'
  BY <1>0, <1>1 DEF SentInv, MaySend, Flushed
<1>5. Everywhere' = Everywhere
  BY <1>1, EverywhereForm, OutboxesKept DEF InFlight
<1> DEFINE S == {v \in ToCompute(0) : halted[v]}
<1>6. S \in SUBSET Bsp!Wakeable
  <2> SUFFICES ASSUME NEW v \in S PROVE v \in Bsp!Wakeable
    OBVIOUS
  <2>1. v \in Vertices /\ v \notin computed /\ halted[v] /\ HasMail(0, v)
    BY <1>0, <1>2 DEF ToCompute
  <2>2. PICK m \in vertex_inbox[0] : m.dst = v
    BY <2>1 DEF HasMail
  <2>3. m \in Everywhere /\ m.step < step
    BY <2>2, EverywhereForm, WhereMailIs
  <2>4. m \in Bsp!MailOf(v)
    BY <2>2, <2>3 DEF Bsp!MailOf
  <2> QED
    BY <2>1, <2>4 DEF Bsp!Wakeable
<1>7. halted' = [v \in Vertices |-> halted[v] /\ v \notin S]
  BY <1>1
<1>8. Bsp!Wake(S)
  BY <1>1, <1>5, <1>7 DEF Bsp!Wake
<1> QED
  BY <1>3, <1>4, <1>6, <1>8 DEF PregelStep, Bsp!BspNext

\* Submission, wait_all() and the barrier: nothing the vertices can see.
LEMMA QuietPregel ==
  ASSUME WorkerCount = 1, OneInv,
         \/ \E v \in Vertices : Submit(0, v)
         \/ CountSubmitted(0) \/ WaitAll(0)
         \/ ArriveBarrier(0) \/ PassBarrier(0) \/ CountActive(0)
  PROVE  PregelStep
<1>0. /\ WorkOK /\ TaskInv /\ AwakeInv /\ SentInv /\ 0 \in Workers /\ Owned(0) = Vertices
  BY OneWorker DEF OneInv, IInv, Types
<1>1. UNCHANGED <<step, halted, computed, outbox, sending, counted, clearing, bus_outbox, bus_inbox,
                  wire, qp_inbox, vertex_inbox>>
  BY DEF Submit, CountSubmitted, WaitAll, ArriveBarrier, PassBarrier, CountActive, coordVars,
     vertVars, busVars
<1>2. Everywhere' = Everywhere
  BY <1>1, EverywhereForm, OutboxesKept DEF InFlight
<1>3. AwakeInv' /\ SentInv'
  <2>1. CASE \E v \in Vertices : Submit(0, v)
    <3>1. PICK v \in Vertices : Submit(0, v)
      BY <2>1
    <3>2. /\ pc[0] = "submit" /\ pc'[0] = "count" /\ v \in todo[0]
          /\ pool' = pool \cup {v} /\ todo'[0] = todo[0] \ {v}
      BY <1>0, <3>1 DEF Submit, Goto, WorkOK
    <3> QED
      BY <1>0, <1>1, <3>2 DEF AwakeInv, HasTask, Submitting, SentInv, MaySend, Flushed
  <2>2. CASE CountSubmitted(0)
    <3>1. /\ pc[0] = "count" /\ UNCHANGED <<pool, todo>>
          /\ pc'[0] = IF todo[0] = {} THEN "wait" ELSE "submit"
      BY <1>0, <2>2 DEF CountSubmitted, Goto, WorkOK
    <3> QED
      BY <1>0, <1>1, <3>1 DEF AwakeInv, HasTask, Submitting, SentInv, MaySend, Flushed
  <2>3. CASE WaitAll(0)
    <3>1. pc[0] = "wait" /\ pc'[0] = "collect" /\ UNCHANGED pool /\ todo'[0] = Vertices
      BY <1>0, <2>3 DEF WaitAll, Goto, WorkOK, poolVars
    <3> QED
      BY <1>0, <1>1, <3>1 DEF AwakeInv, HasTask, Submitting, SentInv, MaySend, Flushed
  <2>4. CASE ArriveBarrier(0) \/ PassBarrier(0) \/ CountActive(0)
    <3>1. /\ pc[0] \in {"barrier", "spin", "active"} /\ pc'[0] \in {"spin", "active", "returned"}
          /\ UNCHANGED <<pool, todo>>
      BY <1>0, <2>4 DEF ArriveBarrier, PassBarrier, CountActive, Goto, WorkOK, poolVars
    <3> QED
      BY <1>0, <1>1, <3>1 DEF AwakeInv, HasTask, Submitting, SentInv, MaySend, Flushed
  <2> QED
    BY <2>1, <2>2, <2>3, <2>4
<1> QED
  BY <1>1, <1>2, <1>3, MovesOnly DEF PregelStep

\* collect_and_route_outbox() and flush() move what was sent.
LEMMA RoutePregel ==
  ASSUME WorkerCount = 1, OneInv,
         \/ \E v \in Vertices : CollectCount(0, v) \/ CollectCopy(0, v) \/ CollectClear(0, v)
         \/ Flush(0)
  PROVE  PregelStep
<1>0. /\ WorkOK /\ VertexOK /\ PlacesOK /\ TaskInv /\ BusInv /\ SendInv /\ AwakeInv /\ SentInv
      /\ 0 \in Workers
  BY OneWorker DEF OneInv, IInv, Types
<1>1. /\ UNCHANGED <<step, halted, computed, sending, vertex_inbox, qp_inbox, pool>>
      /\ pc[0] = "collect"
  BY DEF CollectCount, CollectCopy, CollectClear, Flush, coordVars, vertVars, busVars, poolVars
<1>2. CASE \E v \in Vertices : CollectCopy(0, v)
  <2>1. PICK v \in Vertices : CollectCopy(0, v)
    BY <1>2
  <2>2. /\ UNCHANGED <<pc, todo, outbox, bus_inbox, wire>> /\ counted[0] = {v}
        /\ counted'[0] = {} /\ clearing'[0] = {v} /\ clearing[0] = {}
        /\ bus_outbox'[0] = bus_outbox[0] \cup outbox[v]
    BY <1>0, <2>1 DEF CollectCopy, vertVars, EnqueueBatch, WorkOK, PlacesOK, TaskInv
  <2>3. AwakeInv'
    BY <1>0, <1>1, <2>2 DEF AwakeInv, HasTask, Submitting
  <2>4. SentInv'
    <3>1. \A m \in bus_outbox'[0] : m.step = step
      BY <1>0, <2>2 DEF SentInv
    <3>2. \A x \in Vertices : \A m \in outbox[x] : MaySend(x)'
      BY <1>0, <1>1, <2>2 DEF SentInv, MaySend
    <3> QED
      BY <1>0, <1>1, <2>2, <3>1, <3>2 DEF SentInv, Flushed
  <2>5. Everywhere' = Everywhere
    <3>1. Outboxes' = Outboxes /\ outbox[v] \subseteq Outboxes
      BY <1>1, <2>2 DEF Outboxes, Messages
    <3> QED
      BY <1>1, <2>2, <3>1, EverywhereForm DEF InFlight
  <2> QED
    BY <1>1, <2>3, <2>4, <2>5, MovesOnly DEF PregelStep
<1>3. CASE \E v \in Vertices : CollectClear(0, v)
  <2>1. PICK v \in Vertices : CollectClear(0, v)
    BY <1>3
  <2>2. /\ UNCHANGED <<pc, todo, counted, bus_outbox, bus_inbox, wire>> /\ clearing[0] = {v}
        /\ clearing'[0] = {} /\ outbox' = [outbox EXCEPT ![v] = {}]
    BY <1>0, <2>1 DEF CollectClear, busVars, WorkOK
  <2>3. \A x \in Vertices : outbox'[x] = IF x = v THEN {} ELSE outbox[x]
    BY <1>0, <2>2 DEF VertexOK
  <2>4. AwakeInv'
    BY <1>0, <1>1, <2>2 DEF AwakeInv, HasTask, Submitting
  <2>5. SentInv'
    <3>1. \A x \in Vertices : \A m \in outbox'[x] : MaySend(x)' /\ m.step = step
      BY <1>0, <1>1, <2>2, <2>3 DEF SentInv, MaySend
    <3> QED
      BY <1>0, <1>1, <2>2, <3>1 DEF SentInv, Flushed
  <2>6. Everywhere' = Everywhere
    <3>1. outbox[v] \subseteq bus_outbox[0]
      BY <1>0, <2>2 DEF SentInv
    <3>2. Outboxes = Outboxes' \cup outbox[v]
      BY <1>1, <2>3 DEF Outboxes, Messages
    <3> QED
      BY <1>1, <2>2, <3>1, <3>2, EverywhereForm DEF InFlight
  <2> QED
    BY <1>1, <2>4, <2>5, <2>6, MovesOnly DEF PregelStep
<1>4. CASE Flush(0)
  <2>1. bus_inbox[0] = {}
    BY <1>0, <1>1 DEF BusInv, Flushed
  <2>2. /\ Local(0, bus_outbox[0]) = bus_outbox[0] /\ Remote(0, bus_outbox[0]) = {}
    BY NothingRemote DEF OneInv
  <2>3. /\ UNCHANGED <<outbox, todo, counted, clearing>>
        /\ counted[0] = {} /\ clearing[0] = {} /\ todo[0] = {}
        /\ pc'[0] = "barrier" /\ bus_outbox'[0] = {} /\ bus_inbox'[0] = bus_outbox[0]
        /\ wire'[0] = wire[0]
    BY <1>0, <1>4, <2>1, <2>2 DEF Flush, Goto, vertVars, WorkOK, PlacesOK
  <2>4. AwakeInv'
    BY <1>0, <1>1, <2>3 DEF AwakeInv, HasTask, Submitting
  <2>5. \A v \in Vertices : outbox[v] = {}
    BY <1>0, <1>1, <2>3 DEF SentInv, MaySend
  <2>6. SentInv'
    BY <1>0, <1>1, <2>3, <2>5 DEF SentInv, MaySend
  <2>7. Everywhere' = Everywhere
    BY <1>1, <2>1, <2>3, EverywhereForm, OutboxesKept DEF InFlight
  <2> QED
    BY <1>1, <2>4, <2>6, <2>7, MovesOnly DEF PregelStep
<1>5. CASE \E v \in Vertices : CollectCount(0, v)
  <2>1. PICK v \in Vertices : CollectCount(0, v)
    BY <1>5
  <2>2. /\ UNCHANGED <<pc, outbox, clearing, bus_outbox, bus_inbox, wire>>
        /\ counted[0] = {} /\ clearing[0] = {}
        /\ todo'[0] = todo[0] \ {v} /\ counted'[0] = IF outbox[v] = {} THEN {} ELSE {v}
    BY <1>0, <2>1 DEF CollectCount, vertVars, busVars, WorkOK
  <2>3. AwakeInv'
    BY <1>0, <1>1, <2>2 DEF AwakeInv, HasTask, Submitting
  <2>4. SentInv'
    <3>1. \A x \in Vertices : \A m \in outbox[x] : MaySend(x)'
      BY <1>0, <1>1, <2>2 DEF SentInv, MaySend
    <3> QED
      BY <1>0, <1>1, <2>2, <3>1 DEF SentInv, Flushed
  <2>5. Everywhere' = Everywhere
    BY <1>1, <2>2, EverywhereForm, OutboxesKept DEF InFlight
  <2> QED
    BY <1>1, <2>3, <2>4, <2>5, MovesOnly DEF PregelStep
<1> QED
  BY <1>2, <1>3, <1>4, <1>5

\* A task runs: the vertex takes all its mail and sends along its edges.
LEMMA ComputePregel ==
  ASSUME WorkerCount = 1, OneInv, NEW v \in Vertices, Compute(v)
  PROVE  PregelStep
<1>0. /\ VertexOK /\ PlacesOK /\ TaskInv /\ QuietInv /\ SendInv /\ AwakeInv /\ SentInv
      /\ 0 \in Workers /\ Workers = {0} /\ Owner(v) = 0 /\ Owned(0) = Vertices
  BY OneWorker DEF OneInv, IInv, Types
<1>1. /\ UNCHANGED <<step, pc, todo, counted, clearing, outbox, bus_outbox, bus_inbox, wire,
                     qp_inbox>>
      /\ v \in pool /\ pool' = pool \ {v} /\ computed' = computed \cup {v}
      /\ vertex_inbox'[0] = {m \in vertex_inbox[0] : m.dst # v}
  BY <1>0 DEF Compute, coordVars, workVars, busVars, PlacesOK
<1>2. ~Waited(0) /\ ~Starting(0)
  BY <1>0, <1>1 DEF QuietInv, TaskInv
<1>3. pc[0] \in {"submit", "count", "wait"}
  BY <1>0, <1>2 DEF OneInv, IInv, Types, WorkOK, PC, Waited, Flushed, Starting
<1>4. PICK D \in SUBSET Edges[v] : sending' = [sending EXCEPT ![v] = D]
  BY DEF Compute
<1>5. PICK h \in BOOLEAN : halted' = [halted EXCEPT ![v] = h]
  BY DEF Compute
<1>6. /\ \A x \in Vertices : sending'[x] = IF x = v THEN D ELSE sending[x]
      /\ sending[v] = {}
  BY <1>0, <1>1, <1>4 DEF VertexOK, SendInv, Unsent, TaskInv
<1>7. \A m \in Messages(v, D) : m.step = step
  BY DEF Messages
<1>8. v \notin computed /\ ~halted[v]
  BY <1>0, <1>1 DEF TaskInv, AwakeInv, HasTask
<1>9. AwakeInv'
  <2> SUFFICES ASSUME NEW x \in Vertices, HasTask(0, x)' PROVE ~halted'[x]
    BY DEF AwakeInv
  <2>1. x # v
    BY <1>0, <1>1 DEF HasTask, Submitting, TaskInv
  <2>2. HasTask(0, x)
    BY <1>1 DEF HasTask, Submitting
  <2>3. halted'[x] = halted[x]
    BY <1>0, <1>5, <2>1 DEF VertexOK
  <2> QED
    BY <1>0, <2>2, <2>3 DEF AwakeInv
<1>10. SentInv'
  <2>1. \A x \in Vertices : \A m \in outbox'[x] : MaySend(x)' /\ m.step = step
    BY <1>0, <1>1 DEF SentInv, MaySend
  <2>2. clearing[0] = {}
    BY <1>0, <1>3 DEF TaskInv
  <2> QED
    BY <1>0, <1>1, <2>1, <2>2 DEF SentInv, Flushed
<1>11. Outboxes' = Outboxes \cup Messages(v, D)
  <2>1. \A x \in Vertices :
          Messages(x, sending[x])' = IF x = v THEN Messages(v, D) ELSE Messages(x, sending[x])
    BY <1>1, <1>6 DEF Messages
  <2>2. Messages(v, sending[v]) = {}
    BY <1>6 DEF Messages
  <2> QED
    BY <1>1, <2>1, <2>2 DEF Outboxes
<1>12. /\ Everywhere = InFlight(0) \cup vertex_inbox[0] \cup Outboxes
       /\ Everywhere' = InFlight(0) \cup {m \in vertex_inbox[0] : m.dst # v}
                          \cup Outboxes \cup Messages(v, D)
  BY <1>1, <1>11, EverywhereForm DEF InFlight
<1>13. /\ \A m \in vertex_inbox[0] : m.step < step
       /\ \A m \in InFlight(0) \cup Outboxes : m.step = step
       /\ step \in Nat
  <2>1. bus_inbox[0] = {} \/ pc[0] # "drain"
    BY <1>3
  <2> QED
    BY <1>3, WhereMailIs, NothingRemote DEF InFlight, OneInv
<1>14. {m \in Everywhere' : m.step < step'}
         = {m \in Everywhere : m.step < step} \ Bsp!MailOf(v)
  <2>1. {m \in Everywhere : m.step < step} = vertex_inbox[0]
    BY <1>12, <1>13
  <2>2. {m \in Everywhere' : m.step < step'} = {m \in vertex_inbox[0] : m.dst # v}
    BY <1>1, <1>7, <1>12, <1>13
  <2> QED
    BY <2>1, <2>2 DEF Bsp!MailOf
<1>15. {m \in Everywhere' : m.step = step'}
         = {m \in Everywhere : m.step = step}
             \cup {[src |-> v, dst |-> d, step |-> step] : d \in D}
  <2>1. {m \in Everywhere : m.step = step} = InFlight(0) \cup Outboxes
    BY <1>12, <1>13
  <2>2. {m \in Everywhere' : m.step = step'} = InFlight(0) \cup Outboxes \cup Messages(v, D)
    BY <1>1, <1>7, <1>12, <1>13
  <2> QED
    BY <2>1, <2>2 DEF Messages
<1>16. Bsp!Compute(v)
  BY <1>1, <1>5, <1>8, <1>14, <1>15 DEF Bsp!Compute
<1> QED
  BY <1>9, <1>10, <1>16 DEF PregelStep, Bsp!BspNext

\* send_message moves a message to the outbox, which is still to be collected.
LEMMA SendPregel ==
  ASSUME WorkerCount = 1, OneInv, NEW v \in Vertices, NEW d \in sending[v], SendMessage(v, d)
  PROVE  PregelStep
<1>0. /\ WorkOK /\ VertexOK /\ TaskInv /\ QuietInv /\ SendInv /\ AwakeInv /\ SentInv
      /\ 0 \in Workers /\ Workers = {0} /\ Owned(0) = Vertices
  BY OneWorker DEF OneInv, IInv, Types
<1>1. /\ UNCHANGED <<step, halted, computed, pc, todo, counted, clearing, pool, bus_outbox,
                     bus_inbox, wire, qp_inbox, vertex_inbox>>
      /\ sending' = [sending EXCEPT ![v] = sending[v] \ {d}]
      /\ outbox' = [outbox EXCEPT ![v] = outbox[v] \cup Messages(v, {d})]
  BY DEF SendMessage, coordVars, workVars, busVars, poolVars
<1>2. v \in ran /\ v \in computed
  BY <1>0 DEF SendInv, Unsent, TaskInv
<1>3. ~Waited(0) /\ ~Starting(0)
  BY <1>0, <1>2 DEF QuietInv, TaskInv
<1>4. pc[0] \in {"submit", "count", "wait"}
  BY <1>0, <1>3 DEF WorkOK, PC, Waited, Flushed, Starting
<1>5. /\ \A x \in Vertices : x # v => outbox'[x] = outbox[x] /\ sending'[x] = sending[x]
      /\ outbox'[v] = outbox[v] \cup Messages(v, {d}) /\ sending'[v] = sending[v] \ {d}
  BY <1>0, <1>1 DEF VertexOK
<1>6. AwakeInv'
  BY <1>0, <1>1 DEF AwakeInv, HasTask, Submitting
<1>7. SentInv'
  <2>1. \A m \in Messages(v, {d}) : m.step = step
    BY DEF Messages
  <2>2. \A x \in Vertices : \A m \in outbox'[x] : MaySend(x)' /\ m.step = step
    BY <1>0, <1>1, <1>4, <1>5, <2>1 DEF SentInv, MaySend
  <2>3. clearing[0] = {}
    BY <1>0, <1>4 DEF TaskInv
  <2> QED
    BY <1>0, <1>1, <2>2, <2>3 DEF SentInv, Flushed
<1>8. Everywhere' = Everywhere
  <2>1. Messages(v, sending[v])' = Messages(v, sending[v] \ {d})
    BY <1>1, <1>5 DEF Messages
  <2>2. Messages(v, sending[v]) = Messages(v, {d}) \cup Messages(v, sending[v] \ {d})
    BY DEF Messages
  <2>3. \A x \in Vertices :
          outbox'[x] \cup Messages(x, sending[x])' = outbox[x] \cup Messages(x, sending[x])
    <3>1. \A x \in Vertices : x # v => Messages(x, sending[x])' = Messages(x, sending[x])
      BY <1>1, <1>5 DEF Messages
    <3> QED
      BY <1>5, <2>1, <2>2, <3>1
  <2>4. Outboxes' = Outboxes
    BY <2>3 DEF Outboxes
  <2> QED
    BY <1>1, <2>4, EverywhereForm DEF InFlight
<1> QED
  BY <1>1, <1>6, <1>7, <1>8, MovesOnly DEF PregelStep

\* The next superstep: what was sent is the mail.
LEMMA StartPregel ==
  ASSUME WorkerCount = 1, OneInv, NextStep \/ BenchmarkStep
  PROVE  PregelStep
<1>0. /\ QuietInv /\ TurnInv /\ BusInv /\ SendInv /\ SentInv
      /\ 0 \in Workers /\ Workers = {0} /\ Owned(0) = Vertices
  BY OneWorker DEF OneInv, IInv, Types
<1>1. /\ UNCHANGED <<halted, outbox, sending, todo, counted, clearing, pool, bus_outbox,
                     bus_inbox, wire, qp_inbox, vertex_inbox>>
      /\ Joined /\ step' = step + 1 /\ pc' = [w \in Workers |-> "drain"] /\ computed' = {}
  BY DEF NextStep, BenchmarkStep, StartSuperstep, busVars, poolVars
<1>2. pc[0] = "returned" /\ pc'[0] = "drain"
  BY <1>0, <1>1 DEF Joined
<1>3. pool = {} /\ ran = {}
  BY <1>0, <1>1 DEF Joined, QuietInv, Waited, Flushed
<1>4. \A v \in Vertices : v \in computed \/ halted[v]
  BY <1>0, <1>2, <1>3 DEF TurnInv, HasTask, Starting, Submitting
<1>5. vertex_inbox[0] = {}
  <2>1. \A m \in vertex_inbox[0] : Owner(m.dst) = 0
    BY NothingRemote DEF OneInv
  <2> QED
    BY <1>0, <1>2, <1>3, <2>1 DEF TurnInv, HasTask, Starting, Submitting
<1>6. \A v \in Vertices : outbox[v] = {}
  BY <1>0, <1>2 DEF SentInv, MaySend
<1>7. bus_outbox[0] = {}
  BY <1>0, <1>2 DEF BusInv
<1>8. AwakeInv' /\ SentInv'
  BY <1>0, <1>1, <1>2, <1>3, <1>6, <1>7 DEF AwakeInv, HasTask, Submitting, SentInv, MaySend, Flushed
<1>9. \A m \in Everywhere : m.step = step
  BY <1>2, <1>5, WhereMailIs, NothingRemote, EverywhereForm DEF InFlight, OneInv
<1>10. Everywhere' = Everywhere /\ step \in Nat
  <2>1. \A v \in Vertices : sending[v] = {}
    BY <1>0, <1>3 DEF SendInv, Unsent
  <2>2. \A v \in Vertices : Messages(v, sending[v])' = {} /\ Messages(v, sending[v]) = {}
    BY <1>1, <2>1 DEF Messages
  <2>3. Outboxes' = Outboxes
    BY <1>1, <2>2 DEF Outboxes
  <2> QED
    BY <1>1, <2>3, EverywhereForm, WhereMailIs DEF InFlight
<1>11. /\ {m \in Everywhere : m.step < step} = {}
       /\ {m \in Everywhere' : m.step < step'} = {m \in Everywhere : m.step = step}
       /\ {m \in Everywhere' : m.step = step'} = {}
  BY <1>1, <1>9, <1>10
<1>12. \A v \in Vertices \ computed : halted[v] /\ Bsp!MailOf(v) = {}
  BY <1>4, <1>11 DEF Bsp!MailOf
<1>13. Bsp!Advance
  BY <1>1, <1>11, <1>12 DEF Bsp!Advance
<1> QED
  BY <1>8, <1>13 DEF PregelStep, Bsp!BspNext

\* What is left changes nothing the vertices can see.
LEMMA IdlePregel ==
  ASSUME WorkerCount = 1, OneInv,
         \/ \E v \in Vertices : CountCompleted(v)
         \/ Converge \/ Exhaust \/ UNCHANGED vars
  PROVE  PregelStep
<1>1. UNCHANGED <<step, halted, computed, outbox, sending, pc, todo, counted, clearing, pool,
                  bus_outbox, bus_inbox, wire, qp_inbox, vertex_inbox>>
  BY DEF CountCompleted, Converge, Exhaust, vars, coordVars, workVars, vertVars, busVars, poolVars
<1>2. AwakeInv' /\ SentInv'
  BY <1>1 DEF OneInv, AwakeInv, HasTask, Submitting, SentInv, MaySend, Flushed
<1>3. Everywhere' = Everywhere
  BY <1>1, EverywhereForm, OutboxesKept DEF InFlight
<1> QED
  BY <1>1, <1>2, <1>3, MovesOnly DEF PregelStep

\* Every step keeps the invariant and is a step of the Pregel model or none.
LEMMA NextPregel ==
  ASSUME WorkerCount = 1
  PROVE  OneInv /\ [Next]_vars => OneInv' /\ [Bsp!BspNext]_(Bsp!bspVars)
<1> SUFFICES ASSUME OneInv, [Next]_vars
             PROVE  OneInv' /\ [Bsp!BspNext]_(Bsp!bspVars)
  OBVIOUS
<1>1. IInv'
  BY NextInv DEF OneInv
<1>2. PregelStep
  <2>1. CASE \E w \in Workers : WorkerStep(w)
    <3>1. WorkerStep(0)
      BY <2>1, OneWorker
    <3> QED
      BY <3>1, DrainPregel, BuildPregel, QuietPregel, RoutePregel DEF WorkerStep
  <2>2. ~NetStep
    BY OneWorker, NothingRemote DEF NetStep, OneInv
  <2>3. Done => UNCHANGED vars
    BY DEF Done
  <2> QED
    BY <2>1, <2>2, <2>3, ComputePregel, SendPregel, StartPregel,
       IdlePregel DEF Next, PoolStep, CoordStep
<1> QED
  BY <1>1, <1>2 DEF OneInv, PregelStep

\* The initial state is one of the Pregel model.
LEMMA InitPregel ==
  ASSUME WorkerCount = 1
  PROVE  Init => OneInv /\ Bsp!BspInit
<1> SUFFICES ASSUME Init PROVE OneInv /\ Bsp!BspInit
  OBVIOUS
<1>1. IInv
  BY InitInv
<1>2. AwakeInv /\ SentInv
  BY OneWorker DEF Init, AwakeInv, HasTask, Submitting, SentInv
<1>3. Everywhere = {}
  BY OneWorker, EverywhereForm DEF Init, InFlight, Outboxes, Messages
<1>4. Bsp!BspInit
  BY <1>3 DEF Init, Bsp!BspInit
<1> QED
  BY <1>1, <1>2, <1>4 DEF OneInv

\* run_superstep with one worker gives every vertex program the Pregel model,
\* whatever the order in which the pool runs the tasks: each active vertex
\* computes once a superstep, on exactly the messages sent to it in the
\* superstep before, and a halted one is woken by a message.
THEOREM OneWorkerPregel == WorkerCount = 1 => (Spec => ImplementsPregel)
<1> SUFFICES ASSUME WorkerCount = 1 PROVE Spec => ImplementsPregel
  OBVIOUS
<1>1. Init => OneInv /\ Bsp!BspInit
  BY InitPregel
<1>2. OneInv /\ [Next]_vars => OneInv' /\ [Bsp!BspNext]_(Bsp!bspVars)
  BY NextPregel
<1> QED
  BY <1>1, <1>2, PTL DEF Spec, ImplementsPregel, Bsp!BspSpec
============================================================================

----------------------------- MODULE Superstep -----------------------------
(***************************************************************************)
(* The superstep loop of the engine: Coordinator::run starts one thread    *)
(* per worker, WorkerNode::run_superstep drains the worker's MessageBus,   *)
(* submits one task per vertex to compute, waits, collects the outboxes,   *)
(* flushes them and crosses the barrier; the coordinator joins the         *)
(* threads and decides whether to go on.  GraphEngine::benchmark does the  *)
(* same without that decision.                                             *)
(*                                                                         *)
(* It composes the parts that have modules of their own:                   *)
(*   - the barrier is BspBarrier, which BarrierSync implements;            *)
(*   - the pool is the set of tasks pushed by NumaScheduler::submit and    *)
(*     the two counters wait_all compares; which thread runs which task,   *)
(*     and in which order, is left open;                                   *)
(*   - a worker's queue pairs are the messages in flight and those that    *)
(*     arrived, in no particular order (QueuePair has the order).          *)
(*                                                                         *)
(* A vertex is its id and its halted flag; compute() sends to any subset   *)
(* of the vertex's edges and halts or not, so every vertex program is      *)
(* covered.  A message is its source, destination and superstep.           *)
(***************************************************************************)
EXTENDS Naturals, FiniteSets

CONSTANTS
  WorkerCount,    \* config_.worker_count
  Vertices,       \* the vertex ids
  Edges,          \* Edges[v]: the vertices v may send to
  UseRdma,        \* config_.enable_rdma_sim
  Benchmark,      \* GraphEngine::benchmark in the place of Coordinator::run
  MaxSupersteps,  \* config_.max_supersteps, or the benchmark's argument
  MaxMessages     \* bound: messages sent in a run

ASSUME WorkerCountAssumption == WorkerCount \in Nat \ {0}
ASSUME GraphAssumption       == /\ IsFiniteSet(Vertices) /\ Vertices \subseteq Nat
                                /\ Edges \in [Vertices -> SUBSET Vertices]
ASSUME ConfigAssumption      == /\ UseRdma \in BOOLEAN /\ Benchmark \in BOOLEAN
                                /\ MaxSupersteps \in Nat \ {0}
                                /\ MaxMessages \in Nat

Workers == 0 .. WorkerCount - 1

\* PartitionMap::owner_of.  overrides_ stays empty: nothing calls
\* absorb_partition.
Owner(v) == v % WorkerCount
Owned(w) == {v \in Vertices : Owner(v) = w}

Message == [src : Vertices, dst : Vertices, step : 0 .. MaxSupersteps - 1]

VARIABLES
  step,             \* current_step_
  outcome,          \* "running", or why Coordinator::run left its loop
  pc,               \* pc[w]: where worker w's thread is in run_superstep
  todo,             \* todo[w]: vertices whose task or outbox is still to do
  counted,          \* counted[w]: vertex counted but not yet copied, as a set
  clearing,         \* clearing[w]: vertex copied but not yet cleared, as a set
  active,           \* active[w]: what run_superstep returned
  halted,           \* Vertex::halted_
  outbox,           \* Vertex::outbox_
  sending,          \* sending[v]: where v's running compute() has yet to send
  vertex_inbox,     \* WorkerNode::vertex_inbox_, as the set of its messages
  bus_outbox,       \* MessageBus::outboxes_, as one set
  bus_inbox,        \* MessageBus::inbox_
  wire,             \* in_flight_ of all queue pairs of a worker
  qp_inbox,         \* inbox_ of all queue pairs of a worker
  messages_sent,    \* WorkerStats::messages_sent
  msgs_sent,        \* MessageBus::msgs_sent_
  messages_received,\* WorkerStats::messages_received
  pool,             \* tasks pushed and not yet run, by vertex
  ran,              \* tasks begun and not yet counted in total_completed_
  total_submitted,  \* NumaScheduler::total_submitted_
  total_completed,  \* NumaScheduler::total_completed_
  arrivals, passes, \* the barrier
  computed,         \* history: vertices that computed in this superstep
  produced,         \* history: messages compute() sent so far
  dropped           \* history: dropped[w], the messages flush() of w discarded

coordVars == <<step, outcome>>
workVars  == <<pc, todo, counted, clearing, active>>
vertVars  == <<halted, outbox, sending, computed, produced>>
busVars   == <<bus_outbox, bus_inbox, wire, qp_inbox, dropped>>
statVars  == <<messages_sent, msgs_sent, messages_received>>
poolVars  == <<pool, ran, total_submitted, total_completed>>
barrier   == <<arrivals, passes>>

vars == <<coordVars, workVars, vertVars, vertex_inbox, busVars, statVars,
          poolVars, barrier>>

Barrier == INSTANCE BspBarrier

PC == {"drain", "build", "submit", "count", "wait", "collect",
       "barrier", "spin", "active", "returned"}

Init ==
  /\ step = 0
  /\ outcome = "running"
  /\ pc           = [w \in Workers |-> "drain"]
  /\ todo         = [w \in Workers |-> {}]
  /\ counted      = [w \in Workers |-> {}]
  /\ clearing     = [w \in Workers |-> {}]
  /\ active       = [w \in Workers |-> 0]
  /\ halted       = [v \in Vertices |-> FALSE]
  /\ outbox       = [v \in Vertices |-> {}]
  /\ sending      = [v \in Vertices |-> {}]
  /\ vertex_inbox = [w \in Workers |-> {}]
  /\ bus_outbox   = [w \in Workers |-> {}]
  /\ bus_inbox    = [w \in Workers |-> {}]
  /\ wire         = [w \in Workers |-> {}]
  /\ qp_inbox     = [w \in Workers |-> {}]
  /\ messages_sent     = [w \in Workers |-> 0]
  /\ msgs_sent         = [w \in Workers |-> 0]
  /\ messages_received = [w \in Workers |-> 0]
  /\ pool = {} /\ ran = {}
  /\ total_submitted = 0 /\ total_completed = 0
  /\ Barrier!BarrierInit
  /\ computed = {}
  /\ produced = 0
  /\ dropped = [w \in Workers |-> {}]

Goto(w, label) == pc' = [pc EXCEPT ![w] = label]

Messages(v, D) == {[src |-> v, dst |-> d, step |-> step] : d \in D}

\* Messages of a worker's outboxes for itself and for other workers.
Local(w, S)  == {m \in S : Owner(m.dst) = w}
Remote(w, S) == S \ Local(w, S)

HasMail(w, v) == \E m \in vertex_inbox[w] : m.dst = v

Joined == \A w \in Workers : pc[w] = "returned"

----------------------------------------------------------------------------
(* Faulty variants of the definitions below, one plausible slip each; a run *)
(* that replaces the definition by its variant must find a violation.       *)

NoWakeUp(w) == {v \in Owned(w) : ~halted[v]}

CountedTwice(w) ==
  /\ pc[w] = "count"
  /\ total_submitted' = total_submitted + 2
  /\ Goto(w, IF todo[w] = {} THEN "wait" ELSE "submit")
  /\ UNCHANGED <<coordVars, todo, counted, clearing, active, vertVars, vertex_inbox,
                 busVars, statVars, pool, ran, total_completed, barrier>>

AllButOneCompleted == total_completed + 1 >= total_submitted

RemoteReplacesLocal(w) == IF qp_inbox[w] = {} THEN bus_inbox[w] ELSE qp_inbox[w]

HaltedPassedOver(w, v) ==
  /\ pc[w] = "collect"
  /\ counted[w] = {} /\ clearing[w] = {}
  /\ v \in todo[w]
  /\ todo' = [todo EXCEPT ![w] = @ \ {v}]
  /\ counted' = [counted EXCEPT ![w] = IF outbox[v] = {} \/ halted[v] THEN {} ELSE {v}]
  /\ messages_sent' = [messages_sent EXCEPT ![w] =
                         IF halted[v] THEN @ ELSE @ + Cardinality(outbox[v])]
  /\ UNCHANGED <<coordVars, pc, clearing, active, vertVars, vertex_inbox, busVars,
                 msgs_sent, messages_received, poolVars, barrier>>

StepBoundInclusive ==
  /\ step + 1 <= MaxSupersteps
  /\ step' = step + 1
  /\ pc' = [w \in Workers |-> "drain"]
  /\ computed' = {}
  /\ UNCHANGED <<outcome, todo, counted, clearing, active, halted, outbox, sending, produced,
                 vertex_inbox, busVars, statVars, poolVars, barrier>>

----------------------------------------------------------------------------
(* run_superstep *)

\* receive_all() reads the inboxes of this worker's own queue pairs.
ReceiveAll(w) == qp_inbox[w]

\* drain_inbox() returns these and what is in inbox_, leaving both empty.
DrainInbox(w) == bus_inbox[w] \cup ReceiveAll(w)

\* drain_inbox() and dispatch_messages().
Drain(w) ==
  /\ pc[w] = "drain"
  /\ vertex_inbox' = [vertex_inbox EXCEPT ![w] = @ \cup DrainInbox(w)]
  /\ messages_received' =
       [messages_received EXCEPT ![w] = @ + Cardinality(DrainInbox(w))]
  /\ bus_inbox' = [bus_inbox EXCEPT ![w] = {}]
  /\ qp_inbox' = [qp_inbox EXCEPT ![w] = {}]
  /\ Goto(w, "build")
  /\ UNCHANGED <<coordVars, todo, counted, clearing, active, vertVars, bus_outbox, wire,
                 dropped, messages_sent, msgs_sent, poolVars, barrier>>

\* The vertices that get a task: all but the halted ones without messages.
ToCompute(w) == {v \in Owned(w) : halted[v] => HasMail(w, v)}

Build(w) ==
  /\ pc[w] = "build"
  /\ halted' = [v \in Vertices |-> halted[v] /\ v \notin ToCompute(w)]
  /\ todo' = [todo EXCEPT ![w] = ToCompute(w)]
  /\ Goto(w, IF ToCompute(w) = {} THEN "wait" ELSE "submit")
  /\ UNCHANGED <<coordVars, counted, clearing, active, outbox, sending, computed, produced,
                 vertex_inbox, busVars, statVars, poolVars, barrier>>

\* submit_bulk, one task at a time: the push ...
Submit(w, v) ==
  /\ pc[w] = "submit"
  /\ v \in todo[w]
  /\ pool' = pool \cup {v}
  /\ todo' = [todo EXCEPT ![w] = @ \ {v}]
  /\ Goto(w, "count")
  /\ UNCHANGED <<coordVars, counted, clearing, active, vertVars, vertex_inbox, busVars,
                 statVars, ran, total_submitted, total_completed, barrier>>

\* ... and then the count.
CountSubmitted(w) ==
  /\ pc[w] = "count"
  /\ total_submitted' = total_submitted + 1
  /\ Goto(w, IF todo[w] = {} THEN "wait" ELSE "submit")
  /\ UNCHANGED <<coordVars, todo, counted, clearing, active, vertVars, vertex_inbox,
                 busVars, statVars, pool, ran, total_completed, barrier>>

\* The exit test of wait_all(), as in NumaScheduler.
AllCompleted == total_completed >= total_submitted

WaitAll(w) ==
  /\ pc[w] = "wait"
  /\ AllCompleted
  /\ todo' = [todo EXCEPT ![w] = Owned(w)]
  /\ Goto(w, "collect")
  /\ UNCHANGED <<coordVars, counted, clearing, active, vertVars, vertex_inbox, busVars,
                 statVars, poolVars, barrier>>

\* collect_and_route_outbox(), one vertex at a time: an empty outbox is
\* skipped, another one is counted ...
CollectCount(w, v) ==
  /\ pc[w] = "collect"
  /\ counted[w] = {} /\ clearing[w] = {}
  /\ v \in todo[w]
  /\ todo' = [todo EXCEPT ![w] = @ \ {v}]
  /\ counted' = [counted EXCEPT ![w] = IF outbox[v] = {} THEN {} ELSE {v}]
  /\ messages_sent' = [messages_sent EXCEPT ![w] = @ + Cardinality(outbox[v])]
  /\ UNCHANGED <<coordVars, pc, clearing, active, vertVars, vertex_inbox, busVars,
                 msgs_sent, messages_received, poolVars, barrier>>

\* enqueue_batch().  outboxes_ is one set here: owners do not change, so
\* flush() may sort the messages by owner instead.
EnqueueBatch(w, msgs) == bus_outbox' = [bus_outbox EXCEPT ![w] = @ \cup msgs]

\* ... then copied by enqueue_batch ...
CollectCopy(w, v) ==
  /\ pc[w] = "collect"
  /\ counted[w] = {v}
  /\ EnqueueBatch(w, outbox[v])
  /\ counted' = [counted EXCEPT ![w] = {}]
  /\ clearing' = [clearing EXCEPT ![w] = {v}]
  /\ UNCHANGED <<coordVars, pc, todo, active, vertVars, vertex_inbox, bus_inbox, wire,
                 qp_inbox, dropped, statVars, poolVars, barrier>>

\* ... and then cleared.
CollectClear(w, v) ==
  /\ pc[w] = "collect"
  /\ clearing[w] = {v}
  /\ outbox' = [outbox EXCEPT ![v] = {}]
  /\ clearing' = [clearing EXCEPT ![w] = {}]
  /\ UNCHANGED <<coordVars, pc, todo, counted, active, halted, sending, computed, produced,
                 vertex_inbox, busVars, statVars, poolVars, barrier>>

\* flush(): the local box goes to inbox_, the others to the queue pairs, or
\* nowhere without RDMA (README: "pure in-process delivery"); all of them are
\* counted.
Flush(w) ==
  /\ pc[w] = "collect"
  /\ counted[w] = {} /\ clearing[w] = {} /\ todo[w] = {}
  /\ bus_inbox' = [bus_inbox EXCEPT ![w] = @ \cup Local(w, bus_outbox[w])]
  /\ wire' = [wire EXCEPT ![w] = IF UseRdma THEN @ \cup Remote(w, bus_outbox[w]) ELSE @]
  /\ dropped' = [dropped EXCEPT ![w] = IF UseRdma THEN @ ELSE @ \cup Remote(w, bus_outbox[w])]
  /\ msgs_sent' = [msgs_sent EXCEPT ![w] = @ + Cardinality(bus_outbox[w])]
  /\ bus_outbox' = [bus_outbox EXCEPT ![w] = {}]
  /\ Goto(w, "barrier")
  /\ UNCHANGED <<coordVars, todo, counted, clearing, active, vertVars, vertex_inbox,
                 qp_inbox, messages_sent, messages_received, poolVars, barrier>>

\* barrier_sync()
ArriveBarrier(w) ==
  /\ pc[w] = "barrier"
  /\ Barrier!Arrive(w)
  /\ Goto(w, "spin")
  /\ UNCHANGED <<coordVars, todo, counted, clearing, active, vertVars, vertex_inbox,
                 busVars, statVars, poolVars>>

PassBarrier(w) ==
  /\ pc[w] = "spin"
  /\ Barrier!Pass(w)
  /\ Goto(w, "active")
  /\ UNCHANGED <<coordVars, todo, counted, clearing, active, vertVars, vertex_inbox,
                 busVars, statVars, poolVars>>

CountActive(w) ==
  /\ pc[w] = "active"
  /\ active' = [active EXCEPT ![w] = Cardinality({v \in Owned(w) : ~halted[v]})]
  /\ Goto(w, "returned")
  /\ UNCHANGED <<coordVars, todo, counted, clearing, vertVars, vertex_inbox, busVars,
                 statVars, poolVars, barrier>>

----------------------------------------------------------------------------
(* The pool and the network *)

\* Task::fn: take the vertex's inbox and begin compute(), which is to send to
\* D and may vote to halt.  Nobody reads the vote before the barrier, so it is
\* made here.
Compute(v) ==
  /\ v \in pool
  /\ pool' = pool \ {v}
  /\ ran' = ran \cup {v}
  /\ vertex_inbox' = [vertex_inbox EXCEPT ![Owner(v)] = {m \in @ : m.dst # v}]
  /\ \E D \in SUBSET Edges[v] :
       /\ produced + Cardinality(D) <= MaxMessages
       /\ produced' = produced + Cardinality(D)
       /\ sending' = [sending EXCEPT ![v] = D]
  /\ \E h \in BOOLEAN : halted' = [halted EXCEPT ![v] = h]
  /\ computed' = computed \cup {v}
  /\ UNCHANGED <<coordVars, workVars, outbox, busVars, statVars, total_submitted,
                 total_completed, barrier>>

\* send_message: a push_back to the outbox.  While the owner collects it is a
\* data race with no lock: a message pushed after the count is copied
\* uncounted, one after the copy is lost in clear(), one later still waits
\* for the next superstep's collection.
SendMessage(v, d) ==
  /\ d \in sending[v]
  /\ sending' = [sending EXCEPT ![v] = @ \ {d}]
  /\ outbox' = [outbox EXCEPT ![v] = @ \cup Messages(v, {d})]
  /\ UNCHANGED <<coordVars, workVars, halted, computed, produced, vertex_inbox, busVars,
                 statVars, poolVars, barrier>>

\* compute() has returned.
CountCompleted(v) ==
  /\ v \in ran
  /\ sending[v] = {}
  /\ ran' = ran \ {v}
  /\ total_completed' = total_completed + 1
  /\ UNCHANGED <<coordVars, workVars, vertVars, vertex_inbox, busVars, statVars,
                 pool, total_submitted, barrier>>

\* A queue pair's network thread delivers into that same queue pair's inbox_:
\* the one drain_received() of the sending worker reads.
Deliver(w, m) ==
  /\ m \in wire[w]
  /\ wire' = [wire EXCEPT ![w] = @ \ {m}]
  /\ qp_inbox' = [qp_inbox EXCEPT ![w] = @ \cup {m}]
  /\ UNCHANGED <<coordVars, workVars, vertVars, vertex_inbox, bus_outbox,
                 bus_inbox, dropped, statVars, poolVars, barrier>>

----------------------------------------------------------------------------
(* Coordinator::run and GraphEngine::benchmark *)

\* The sum of the active counts is zero.
NoneActive == \A w \in Workers : active[w] = 0

\* The futures of the next superstep are started.
StartSuperstep ==
  /\ step + 1 < MaxSupersteps
  /\ step' = step + 1
  /\ pc' = [w \in Workers |-> "drain"]
  /\ computed' = {}
  /\ UNCHANGED <<outcome, todo, counted, clearing, active, halted, outbox, sending, produced,
                 vertex_inbox, busVars, statVars, poolVars, barrier>>

\* All futures are in and some vertex is active: the next superstep.
NextStep == ~Benchmark /\ outcome = "running" /\ Joined /\ ~NoneActive /\ StartSuperstep

\* The benchmark's loop has no test of convergence.
BenchmarkStep == Benchmark /\ outcome = "running" /\ Joined /\ StartSuperstep

Converge ==
  /\ ~Benchmark /\ outcome = "running" /\ Joined /\ NoneActive
  /\ outcome' = "converged"
  /\ UNCHANGED <<step, workVars, vertVars, vertex_inbox, busVars, statVars,
                 poolVars, barrier>>

Exhaust ==
  /\ outcome = "running" /\ Joined /\ (Benchmark \/ ~NoneActive)
  /\ step + 1 = MaxSupersteps
  /\ outcome' = "exhausted"
  /\ UNCHANGED <<step, workVars, vertVars, vertex_inbox, busVars, statVars,
                 poolVars, barrier>>

----------------------------------------------------------------------------
WorkerStep(w) ==
  \/ Drain(w) \/ Build(w)
  \/ (\E v \in Vertices : Submit(w, v)) \/ CountSubmitted(w) \/ WaitAll(w)
  \/ (\E v \in Vertices : CollectCount(w, v) \/ CollectCopy(w, v) \/ CollectClear(w, v))
  \/ Flush(w)
  \/ ArriveBarrier(w) \/ PassBarrier(w) \/ CountActive(w)

PoolStep  ==
  \E v \in Vertices : Compute(v) \/ (\E d \in sending[v] : SendMessage(v, d)) \/ CountCompleted(v)
NetStep   == \E w \in Workers : \E m \in wire[w] : Deliver(w, m)
CoordStep == NextStep \/ BenchmarkStep \/ Converge \/ Exhaust
Done      == outcome # "running" /\ UNCHANGED vars

Next == (\E w \in Workers : WorkerStep(w)) \/ PoolStep \/ NetStep \/ CoordStep \/ Done

Spec == Init /\ [][Next]_vars

\* Every worker thread, the pool and the coordinator keep running, and
\* compute() of every vertex returns.  Nothing is assumed of the network.
Fairness ==
  /\ \A w \in Workers : WF_vars(WorkerStep(w))
  /\ WF_vars(PoolStep) /\ WF_vars(CoordStep)

FairSpec == Spec /\ Fairness

----------------------------------------------------------------------------
(* Properties *)

TypeOK ==
  /\ step \in 0 .. MaxSupersteps - 1
  /\ outcome \in {"running", "converged", "exhausted"}
  /\ pc \in [Workers -> PC]
  /\ todo \in [Workers -> SUBSET Vertices]
  /\ counted \in [Workers -> SUBSET Vertices]
  /\ clearing \in [Workers -> SUBSET Vertices]
  /\ active \in [Workers -> 0 .. Cardinality(Vertices)]
  /\ halted \in [Vertices -> BOOLEAN]
  /\ outbox \in [Vertices -> SUBSET Message]
  /\ sending \in [Vertices -> SUBSET Vertices]
  /\ \A place \in {vertex_inbox, bus_outbox, bus_inbox, wire, qp_inbox, dropped} :
       place \in [Workers -> SUBSET Message]
  /\ messages_sent \in [Workers -> Nat] /\ msgs_sent \in [Workers -> Nat]
  /\ messages_received \in [Workers -> Nat]
  /\ pool \subseteq Vertices /\ ran \subseteq Vertices
  /\ total_submitted \in Nat /\ total_completed \in Nat
  /\ arrivals \in [Workers -> Nat] /\ passes \in [Workers -> Nat]
  /\ computed \subseteq Vertices
  /\ produced \in 0 .. MaxMessages

\* Workers past the barrier of this superstep.
Past == {w \in Workers : pc[w] \in {"active", "returned"}}

\* wait_all() may return early, but not for the worker that counts last: once
\* any worker is past the barrier, every task of the superstep has run and
\* been counted, so the votes counted after it are final and no task leaks
\* into the next superstep.
BarrierQuiesces ==
  Past # {} =>
    /\ pool = {} /\ ran = {}
    /\ total_completed = total_submitted
    /\ \A v \in Vertices : v \in computed \/ halted[v]

\* What flush() counted is accounted for, each message once: received, on its
\* way, or discarded without RDMA.  And collect_and_route_outbox, which counts
\* an outbox before it copies it, never counts a message the bus does not get,
\* though a compute() it did not wait for may add uncounted ones.
SentAccounted ==
  \A w \in Workers :
    /\ msgs_sent[w] = messages_received[w] + Cardinality(bus_inbox[w])
         + Cardinality(wire[w]) + Cardinality(qp_inbox[w]) + Cardinality(dropped[w])
    /\ counted[w] = {} => messages_sent[w] <= msgs_sent[w] + Cardinality(bus_outbox[w])

\* No vertex computes on a message of its own superstep, and one for a vertex
\* of the sending worker is received in the next superstep or, when wait_all
\* returned early, the one after: never later, whatever the interleaving.
LocalDelay ==
  \A w \in Workers : \A m \in vertex_inbox[w] :
    Owner(m.dst) = w => m.step < step /\ m.step + 2 >= step

\* Once the barrier is passed, no vertex has a message left from this
\* superstep's dispatch: a halted vertex is always woken by its mail, and a
\* task takes all of it.
NoMailLeft ==
  Past # {} => \A w \in Workers : \A m \in vertex_inbox[w] : Owner(m.dst) # w

\* Every run comes to an end.
RunEnds == <>(outcome # "running")

\* A message is dispatched by the worker that owns its destination (README:
\* "every vertex receives all messages sent to it in the prior superstep").
ArrivesAtOwner ==
  \A w \in Workers : \A m \in vertex_inbox[w] : Owner(m.dst) = w

\* Every local message is received in the superstep after the one it was sent
\* in (README: "every vertex receives all messages sent to it in the prior
\* superstep").
ReceivedNext ==
  \A w \in Workers : \A m \in vertex_inbox[w] :
    Owner(m.dst) = w => m.step + 1 = step

\* The run converges only when all vertices have halted and there are no
\* messages in flight (README, and the comment in Coordinator::run).
InFlight(w) == bus_outbox[w] \cup bus_inbox[w] \cup wire[w] \cup qp_inbox[w]

ConvergedQuiet ==
  outcome = "converged" => \A w \in Workers : InFlight(w) = {}

----------------------------------------------------------------------------
(***************************************************************************)
(* The engine as an implementation of PregelBSP.  The messages of the      *)
(* superstep before that are not yet taken by a task are the mail; those   *)
(* of this superstep, wherever they are, are the sent ones, with those a   *)
(* running compute() has yet to send.                                      *)
(***************************************************************************)
Everywhere ==
  (UNION {InFlight(w) \cup vertex_inbox[w] : w \in Workers})
    \cup (UNION {outbox[v] \cup Messages(v, sending[v]) : v \in Vertices})

Bsp == INSTANCE PregelBSP WITH
         superstep <- step,
         mail      <- {m \in Everywhere : m.step < step},
         sent      <- {m \in Everywhere : m.step = step}

\* With one worker, run_superstep gives vertices the Pregel model.
ImplementsPregel == Bsp!BspSpec
============================================================================

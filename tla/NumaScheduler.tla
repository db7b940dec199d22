--------------------------- MODULE NumaScheduler ---------------------------
(***************************************************************************)
(* NumaScheduler (numa_scheduler.hpp/.cpp): one task queue and one pool of *)
(* threads per NUMA node, shared by all workers of the engine.  In every   *)
(* superstep each worker submits one task per vertex to compute and then   *)
(* spins in wait_all() on two counters that all workers share.             *)
(*                                                                         *)
(* submit() pushes a task before it counts it, so the pool may finish a    *)
(* task that is not yet in total_submitted_.                               *)
(*                                                                         *)
(* A task is <<submitter, batch, index>>; what it computes is left to      *)
(* Superstep.  The cv.wait_for timeout makes every wait bounded, so the    *)
(* notifications themselves carry no state.                                *)
(***************************************************************************)
EXTENDS Naturals, Sequences, FiniteSets

CONSTANTS
  Submitters,      \* the worker threads that call submit_bulk and wait_all
  Hints,           \* Hints[w]: preferred_numa_node of each task of a batch of w
  NumaNodes,       \* numa_nodes_
  ThreadsPerNode,  \* threads_per_node_
  SpikeCap,        \* bound on spikes_ (1000 in the code)
  MaxBatches       \* bound: batches (supersteps) before the engine is destroyed

ASSUME SubmittersAssumption == IsFiniteSet(Submitters) /\ Submitters # {}
ASSUME HintsAssumption      == Hints \in [Submitters -> Seq(Nat)]
ASSUME NodesAssumption      == NumaNodes \in Nat \ {0} /\ ThreadsPerNode \in Nat \ {0}
ASSUME BoundsAssumption     == SpikeCap \in Nat \ {0} /\ MaxBatches \in Nat \ {0}

Nodes   == 0 .. NumaNodes - 1
Threads == Nodes \X (1 .. ThreadsPerNode)

VARIABLES
  running,          \* running_
  queue,            \* queue[n]: NumaQueue::tasks of node n
  active_tasks,     \* active_tasks[n]: NumaQueue::active_tasks of node n
  total_submitted,  \* total_submitted_
  total_completed,  \* total_completed_
  spike_count,      \* spike_count_
  spikes,           \* spikes_: the tasks in the latency history
  batch,            \* which submit_bulk the submitters are in
  next,             \* next[w]: index of the task w submits next
  sub,              \* sub[w]: where submitter w is
  thr,              \* thr[t]: where pool thread t is and the task it holds
  finished          \* history: the tasks counted in total_completed_

vars == <<running, queue, active_tasks, total_submitted, total_completed,
          spike_count, spikes, batch, next, sub, thr, finished>>

NoTask  == <<>>
Task    == Submitters \X (1 .. MaxBatches) \X Nat
SubPC   == {"submit", "count", "wait", "returned"}
ThrPC   == {"top", "waiting", "run", "spike", "log", "release", "complete", "exited"}

NodeOf(t)  == t[1]
\* The state of a submitter that has the tasks from index i on left to submit.
SubmitFrom(w, i) == IF i <= Len(Hints[w]) THEN "submit" ELSE "wait"

Init ==
  /\ running = TRUE
  /\ queue = [n \in Nodes |-> <<>>]
  /\ active_tasks = [n \in Nodes |-> 0]
  /\ total_submitted = 0
  /\ total_completed = 0
  /\ spike_count = 0
  /\ spikes = <<>>
  /\ batch = 1
  /\ next = [w \in Submitters |-> 1]
  /\ sub = [w \in Submitters |-> SubmitFrom(w, 1)]
  /\ thr = [t \in Threads |-> [pc |-> "top", task |-> NoTask]]
  /\ finished = {}

Goto(t, label) == thr' = [thr EXCEPT ![t].pc = label]

----------------------------------------------------------------------------
(* Faulty variants of the definitions below, one plausible slip each; a run *)
(* that replaces the definition by its variant must find a violation.       *)

AllButOneCompleted == total_completed + 1 >= total_submitted

LoopForever(t) ==
  /\ thr[t].pc = "top"
  /\ Goto(t, "waiting")
  /\ UNCHANGED <<running, queue, active_tasks, total_submitted, total_completed,
                 spike_count, spikes, batch, next, sub, finished>>

TakeWithoutPop(t) ==
  /\ thr[t].pc = "waiting"
  /\ queue[NodeOf(t)] # <<>>
  /\ thr' = [thr EXCEPT ![t] = [pc |-> "run", task |-> Head(queue[NodeOf(t)])]]
  /\ UNCHANGED <<running, queue, active_tasks, total_submitted, total_completed,
                 spike_count, spikes, batch, next, sub, finished>>

CappedTooEarly(s) == IF Len(s) >= SpikeCap THEN Tail(s) ELSE s

SlotKept(t) ==
  /\ thr[t].pc = "release"
  /\ Goto(t, "complete")
  /\ UNCHANGED <<running, queue, active_tasks, total_submitted, total_completed,
                 spike_count, spikes, batch, next, sub, finished>>

SlotReleasedTwice(t) ==
  /\ thr[t].pc = "release"
  /\ active_tasks' = [active_tasks EXCEPT ![NodeOf(t)] = @ - 2]
  /\ Goto(t, "complete")
  /\ UNCHANGED <<running, queue, total_submitted, total_completed,
                 spike_count, spikes, batch, next, sub, finished>>

----------------------------------------------------------------------------
(* Submitters *)

PreferredNode(w) == Hints[w][next[w]] % NumaNodes

\* submit(): push and active_tasks under the queue's mutex ...
Submit(w) ==
  /\ sub[w] = "submit"
  /\ LET n == PreferredNode(w) IN
       /\ queue' = [queue EXCEPT ![n] = Append(@, <<w, batch, next[w]>>)]
       /\ active_tasks' = [active_tasks EXCEPT ![n] = @ + 1]
  /\ sub' = [sub EXCEPT ![w] = "count"]
  /\ UNCHANGED <<running, total_submitted, total_completed, spike_count,
                 spikes, batch, next, thr, finished>>

\* ... and only then the increment of total_submitted_; submit_bulk loops.
CountSubmitted(w) ==
  /\ sub[w] = "count"
  /\ total_submitted' = total_submitted + 1
  /\ next' = [next EXCEPT ![w] = @ + 1]
  /\ sub' = [sub EXCEPT ![w] = SubmitFrom(w, next[w] + 1)]
  /\ UNCHANGED <<running, queue, active_tasks, total_completed, spike_count,
                 spikes, batch, thr, finished>>

\* wait_all() loads total_completed_ and then total_submitted_.  Both only
\* grow, so the loop exits exactly when one comparison at the second load
\* could: the two loads are one step.
AllCompleted == total_completed >= total_submitted

WaitAll(w) ==
  /\ sub[w] = "wait"
  /\ AllCompleted
  /\ sub' = [sub EXCEPT ![w] = "returned"]
  /\ UNCHANGED <<running, queue, active_tasks, total_submitted, total_completed,
                 spike_count, spikes, batch, next, thr, finished>>

\* All workers are back from wait_all and have crossed the barrier; the
\* coordinator starts the next superstep.
NextBatch ==
  /\ \A w \in Submitters : sub[w] = "returned"
  /\ batch < MaxBatches
  /\ batch' = batch + 1
  /\ next' = [w \in Submitters |-> 1]
  /\ sub' = [w \in Submitters |-> SubmitFrom(w, 1)]
  /\ UNCHANGED <<running, queue, active_tasks, total_submitted, total_completed,
                 spike_count, spikes, thr, finished>>

\* stop(), from the destructor after the last superstep.  The joins return
\* when the threads have exited; nothing drains the queues.
Stop ==
  /\ running
  /\ \A w \in Submitters : sub[w] = "returned"
  /\ batch = MaxBatches
  /\ running' = FALSE
  /\ UNCHANGED <<queue, active_tasks, total_submitted, total_completed,
                 spike_count, spikes, batch, next, sub, thr, finished>>

----------------------------------------------------------------------------
(* Pool threads: worker_thread() *)

\* while (running_)
LoopTest(t) ==
  /\ thr[t].pc = "top"
  /\ Goto(t, IF running THEN "waiting" ELSE "exited")
  /\ UNCHANGED <<running, queue, active_tasks, total_submitted, total_completed,
                 spike_count, spikes, batch, next, sub, finished>>

\* wait_for timed out, or stop() woke the thread: continue.
WakeEmpty(t) ==
  /\ thr[t].pc = "waiting"
  /\ queue[NodeOf(t)] = <<>>
  /\ Goto(t, "top")
  /\ UNCHANGED <<running, queue, active_tasks, total_submitted, total_completed,
                 spike_count, spikes, batch, next, sub, finished>>

TakeTask(t) ==
  /\ thr[t].pc = "waiting"
  /\ queue[NodeOf(t)] # <<>>
  /\ thr' = [thr EXCEPT ![t] = [pc |-> "run", task |-> Head(queue[NodeOf(t)])]]
  /\ queue' = [queue EXCEPT ![NodeOf(t)] = Tail(@)]
  /\ UNCHANGED <<running, active_tasks, total_submitted, total_completed,
                 spike_count, spikes, batch, next, sub, finished>>

\* task.fn() returns; whether it took more than SPIKE_THRESHOLD times the
\* expected duration is up to the clock.
RunTask(t) ==
  /\ thr[t].pc = "run"
  /\ Goto(t, "spike") \/ Goto(t, "release")
  /\ UNCHANGED <<running, queue, active_tasks, total_submitted, total_completed,
                 spike_count, spikes, batch, next, sub, finished>>

CountSpike(t) ==
  /\ thr[t].pc = "spike"
  /\ spike_count' = spike_count + 1
  /\ Goto(t, "log")
  /\ UNCHANGED <<running, queue, active_tasks, total_submitted, total_completed,
                 spikes, batch, next, sub, finished>>

\* push_back, then erase the oldest entry when the cap is exceeded.
Capped(s) == IF Len(s) > SpikeCap THEN Tail(s) ELSE s

LogSpike(t) ==
  /\ thr[t].pc = "log"
  /\ spikes' = Capped(Append(spikes, thr[t].task))
  /\ Goto(t, "release")
  /\ UNCHANGED <<running, queue, active_tasks, total_submitted, total_completed,
                 spike_count, batch, next, sub, finished>>

ReleaseSlot(t) ==
  /\ thr[t].pc = "release"
  /\ active_tasks' = [active_tasks EXCEPT ![NodeOf(t)] = @ - 1]
  /\ Goto(t, "complete")
  /\ UNCHANGED <<running, queue, total_submitted, total_completed,
                 spike_count, spikes, batch, next, sub, finished>>

CountCompleted(t) ==
  /\ thr[t].pc = "complete"
  /\ total_completed' = total_completed + 1
  /\ finished' = finished \cup {thr[t].task}
  /\ thr' = [thr EXCEPT ![t] = [pc |-> "top", task |-> NoTask]]
  /\ UNCHANGED <<running, queue, active_tasks, total_submitted,
                 spike_count, spikes, batch, next, sub>>

----------------------------------------------------------------------------
SubmitterStep(w) == Submit(w) \/ CountSubmitted(w) \/ WaitAll(w)

ThreadStep(t) ==
  \/ LoopTest(t) \/ WakeEmpty(t) \/ TakeTask(t) \/ RunTask(t)
  \/ CountSpike(t) \/ LogSpike(t) \/ ReleaseSlot(t) \/ CountCompleted(t)

Joined == ~running /\ \A t \in Threads : thr[t].pc = "exited"
Done   == Joined /\ UNCHANGED vars

Next ==
  \/ \E w \in Submitters : SubmitterStep(w)
  \/ NextBatch
  \/ Stop
  \/ \E t \in Threads : ThreadStep(t)
  \/ Done

Spec == Init /\ [][Next]_vars

\* Every submitter, the coordinator and every pool thread is a running OS
\* thread, and compute() of a vertex returns.
Fairness ==
  /\ \A w \in Submitters : WF_vars(SubmitterStep(w))
  /\ WF_vars(NextBatch \/ Stop)
  /\ \A t \in Threads : WF_vars(ThreadStep(t))

FairSpec == Spec /\ Fairness

----------------------------------------------------------------------------
(* Properties *)

\* Tasks pushed so far: all of earlier batches, and of this one those the
\* submitter has passed or is about to count.
Pushed ==
  {k \in Submitters \X (1 .. batch) \X UNION {DOMAIN Hints[w] : w \in Submitters} :
     /\ k[3] \in DOMAIN Hints[k[1]]
     /\ \/ k[2] < batch
        \/ k[3] < next[k[1]]
        \/ k[3] = next[k[1]] /\ sub[k[1]] = "count"}

\* Submitters between their push and their increment of total_submitted_.
Uncounted == {w \in Submitters : sub[w] = "count"}

InQueue  == UNION {{queue[n][i] : i \in DOMAIN queue[n]} : n \in Nodes}
Holding  == {t \in Threads : thr[t].pc \notin {"top", "waiting", "exited"}}
InHand   == {thr[t].task : t \in Holding}
\* Tasks whose function has not returned yet.
Unexecuted == InQueue \cup {thr[t].task : t \in {s \in Threads : thr[s].pc = "run"}}

TypeOK ==
  /\ running \in BOOLEAN
  /\ queue \in [Nodes -> Seq(Task)]
  /\ active_tasks \in [Nodes -> Nat]
  /\ total_submitted \in Nat
  /\ total_completed \in Nat
  /\ spike_count \in Nat
  /\ spikes \in Seq(Task)
  /\ batch \in 1 .. MaxBatches
  /\ next \in [Submitters -> Nat]
  /\ sub \in [Submitters -> SubPC]
  /\ thr \in [Threads -> [pc : ThrPC, task : Task \cup {NoTask}]]
  /\ finished \subseteq Task

\* Every pushed task is in one queue position, in the hand of one thread or
\* finished, never in two of them, and the two counters lag behind by exactly
\* the tasks in hand and the submitters in mid-submit.
TasksConserved ==
  /\ Pushed = InQueue \cup InHand \cup finished
  /\ InQueue \cap InHand = {} /\ InQueue \cap finished = {} /\ InHand \cap finished = {}
  /\ total_completed = Cardinality(finished)
  /\ total_submitted = Cardinality(Pushed) - Cardinality(Uncounted)

\* active_tasks of a node is its queue length plus the tasks its threads have
\* not released: the load least_loaded_node() compares never drifts.
LoadAccurate ==
  \A n \in Nodes :
    active_tasks[n] =
      Len(queue[n]) + Cardinality({t \in Holding : NodeOf(t) = n /\ thr[t].pc # "complete"})

\* The latency history never exceeds its cap and drops an entry only when it
\* is full; it lags spike_count by the threads between count and push.
SpikeHistoryBounded ==
  LET logged == spike_count - Cardinality({t \in Threads : thr[t].pc = "log"}) IN
  Len(spikes) = IF logged < SpikeCap THEN logged ELSE SpikeCap

\* What wait_all() gives a caller whatever the interleaving.  That all its
\* tasks have run, as the caller takes it to mean, it does not: it can be fooled
\* only by tasks that other submitters have pushed and not yet counted, so at
\* most one task per other submitter is still outstanding when it returns.
EarlyReturnBounded ==
  \A w \in Submitters :
    sub[w] = "returned" =>
      Cardinality({k \in Unexecuted : k[1] = w}) <= Cardinality(Submitters) - 1

\* Nothing submitted is dropped by stop(): when the pool has been joined the
\* queues are empty.
NothingDropped == Joined => InQueue = {}

\* Every wait_all returns, every batch ends and stop() joins every thread.
PoolTerminates == <>[]Joined
============================================================================

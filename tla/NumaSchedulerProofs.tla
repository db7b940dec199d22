------------------------ MODULE NumaSchedulerProofs ------------------------
(***************************************************************************)
(* Proofs about NumaScheduler, for any number of workers, NUMA nodes, pool *)
(* threads and tasks, any hints and any cap of the latency history.        *)
(***************************************************************************)
EXTENDS NumaScheduler, FiniteSetTheorems, SequenceTheorems, TLAPS

\* The number of tasks in a batch of w.
Size(w) == Len(Hints[w])

\* Task k is in position i of the queue of node n.
Cell(q, k, n, i) == i \in 1 .. Len(q[n]) /\ q[n][i] = k

----------------------------------------------------------------------------
(* The inductive invariant *)

QueueOK  == queue \in [Nodes -> Seq(Task)]
ThreadOK == thr \in [Threads -> [pc : ThrPC, task : Task \cup {NoTask}]]
SubOK    == /\ batch \in 1 .. MaxBatches
            /\ next \in [Submitters -> Nat]
            /\ sub \in [Submitters -> SubPC]
CountOK  == /\ running \in BOOLEAN
            /\ active_tasks \in [Nodes -> Nat]
            /\ total_submitted \in Nat /\ total_completed \in Nat
            /\ spike_count \in Nat /\ spikes \in Seq(Task)
            /\ finished \subseteq Task

Types == QueueOK /\ ThreadOK /\ SubOK /\ CountOK

\* A submitter has a task left exactly while it submits.
NextInv ==
  \A w \in Submitters :
    /\ next[w] >= 1
    /\ sub[w] \in {"submit", "count"} => next[w] <= Size(w)
    /\ sub[w] \in {"wait", "returned"} => next[w] = Size(w) + 1

\* No task is in two positions of the queues, or in the hands of two threads.
QueueInv ==
  \A m, n \in Nodes : \A i, j \in Nat : \A k \in Task :
    Cell(queue, k, m, i) /\ Cell(queue, k, n, j) => m = n /\ i = j
HandInv ==
  \A s, t \in Holding : thr[s].task = thr[t].task => s = t

\* Once every worker is back from wait_all, everything pushed is finished; the
\* pool is stopped after the last batch, and not before.
BackInv ==
  /\ (\A w \in Submitters : sub[w] = "returned") => Pushed = finished
  /\ ~running => batch = MaxBatches /\ \A w \in Submitters : sub[w] = "returned"

IInv ==
  /\ Types /\ NextInv /\ QueueInv /\ HandInv /\ IsFiniteSet(Pushed) /\ TasksConserved
  /\ LoadAccurate /\ SpikeHistoryBounded /\ EarlyReturnBounded /\ BackInv

----------------------------------------------------------------------------
(* Lemmas about the model's operators *)

\* A batch is a finite list.
LEMMA SizeNat ==
  \A w \in Submitters : Size(w) \in Nat /\ DOMAIN Hints[w] = 1 .. Size(w)
BY HintsAssumption DEF Size

\* Every hint and every thread has a node; the pool is finite.
LEMMA NodeFacts ==
  /\ \A t \in Threads : NodeOf(t) \in Nodes
  /\ \A h \in Nat : h % NumaNodes \in Nodes
  /\ IsFiniteSet(Threads)
<1>1. \A t \in Threads : NodeOf(t) \in Nodes
  BY DEF Threads, NodeOf
<1>2. \A h \in Nat : h % NumaNodes \in Nodes
  BY NodesAssumption DEF Nodes
<1>3. IsFiniteSet(Nodes) /\ IsFiniteSet(1 .. ThreadsPerNode)
  BY NodesAssumption, FS_Interval DEF Nodes
<1>4. IsFiniteSet(Threads)
  BY <1>3, FS_Product DEF Threads
<1> QED
  BY <1>1, <1>2, <1>4

\* The new last element of a sequence, and a sequence without its first one.
LEMMA AppendForm ==
  ASSUME NEW S, NEW s \in Seq(S), NEW e \in S
  PROVE  /\ Append(s, e) \in Seq(S)
         /\ Len(Append(s, e)) = Len(s) + 1
         /\ Append(s, e)[Len(s) + 1] = e
         /\ \A i \in 1 .. Len(s) : Append(s, e)[i] = s[i]
BY AppendProperties

\* What popping the head of a queue leaves.
LEMMA TailForm ==
  ASSUME NEW S, NEW s \in Seq(S), s # <<>>
  PROVE  /\ Head(s) \in S /\ Head(s) = s[1]
         /\ Tail(s) \in Seq(S)
         /\ Len(s) \in Nat /\ Len(s) >= 1
         /\ Len(Tail(s)) = Len(s) - 1
         /\ \A i \in 1 .. Len(s) - 1 : Tail(s)[i] = s[i + 1]
<1>1. /\ Head(s) \in S /\ Head(s) = s[1]
      /\ Tail(s) \in Seq(S)
      /\ Len(Tail(s)) = Len(s) - 1
      /\ \A i \in 1 .. Len(Tail(s)) : Tail(s)[i] = s[i + 1]
  BY HeadTailProperties
<1>2. Len(s) \in Nat /\ Len(s) # 0
  BY EmptySeq
<1> QED
  BY <1>1, <1>2

\* A task is in the queues when some cell of some queue holds it.
LEMMA InQueueForm ==
  /\ QueueOK => \A k : k \in InQueue <=> \E n \in Nodes, i \in Nat : Cell(queue, k, n, i)
  /\ QueueOK' => \A k : k \in InQueue' <=> \E n \in Nodes, i \in Nat : Cell(queue', k, n, i)
<1>1. ASSUME NEW q \in [Nodes -> Seq(Task)]
      PROVE  \A k : k \in UNION {{q[n][i] : i \in DOMAIN q[n]} : n \in Nodes}
                    <=> \E n \in Nodes, i \in Nat : Cell(q, k, n, i)
  <2>1. \A n \in Nodes : DOMAIN q[n] = 1 .. Len(q[n]) /\ Len(q[n]) \in Nat
    OBVIOUS
  <2>2. \A n \in Nodes : \A i : i \in DOMAIN q[n] <=> i \in Nat /\ i \in 1 .. Len(q[n])
    BY <2>1
  <2> DEFINE Row(n) == {q[n][i] : i \in DOMAIN q[n]}
  <2>3. \A k : \A n \in Nodes : k \in Row(n) <=> \E i \in Nat : Cell(q, k, n, i)
    BY <2>2 DEF Cell
  <2> HIDE DEF Row
  <2>4. \A k : k \in UNION {Row(n) : n \in Nodes} <=> \E n \in Nodes : k \in Row(n)
    OBVIOUS
  <2>5. \A k : k \in UNION {Row(n) : n \in Nodes}
               <=> \E n \in Nodes, i \in Nat : Cell(q, k, n, i)
    BY <2>3, <2>4
  <2> QED
    BY <2>5 DEF Row
<1> QED
  BY <1>1, Zenon DEF InQueue, QueueOK

\* What makes a task a pushed one, in a state with the given batch, next and sub.
IsPushed(k, b, nx, sb) ==
  /\ k \in Submitters \X (1 .. b) \X Nat
  /\ k[3] \in 1 .. Size(k[1])
  /\ \/ k[2] < b
     \/ k[3] < nx[k[1]]
     \/ k[3] = nx[k[1]] /\ sb[k[1]] = "count"

\* Membership in Pushed, before and after a step.
LEMMA PushedForm ==
  /\ \A k : k \in Pushed <=> IsPushed(k, batch, next, sub)
  /\ \A k : k \in Pushed' <=> IsPushed(k, batch', next', sub')
<1>1. ASSUME NEW b, NEW k
      PROVE  (k \in Submitters \X (1 .. b) \X UNION {DOMAIN Hints[w] : w \in Submitters}
                 /\ k[3] \in DOMAIN Hints[k[1]])
             <=> (k \in Submitters \X (1 .. b) \X Nat /\ k[3] \in 1 .. Size(k[1]))
  <2>1. ASSUME NEW w \in Submitters, NEW i
        PROVE  i \in DOMAIN Hints[w] <=> i \in Nat /\ i \in 1 .. Size(w)
    BY SizeNat
  <2> DEFINE I == UNION {DOMAIN Hints[w] : w \in Submitters}
  <2>2. ASSUME NEW i PROVE i \in I <=> \E w \in Submitters : i \in DOMAIN Hints[w]
    OBVIOUS
  <2> HIDE DEF I
  <2>3. ASSUME k \in Submitters \X (1 .. b) \X I, k[3] \in DOMAIN Hints[k[1]]
        PROVE  k \in Submitters \X (1 .. b) \X Nat /\ k[3] \in 1 .. Size(k[1])
    BY <2>3, <2>1
  <2>4. ASSUME k \in Submitters \X (1 .. b) \X Nat, k[3] \in 1 .. Size(k[1])
        PROVE  k \in Submitters \X (1 .. b) \X I /\ k[3] \in DOMAIN Hints[k[1]]
    BY <2>4, <2>1, <2>2
  <2> QED
    BY <2>3, <2>4 DEF I
<1> QED
  BY <1>1, Zenon DEF Pushed, IsPushed

----------------------------------------------------------------------------
(* What a step does to the threads and to the types *)

\* The threads of node n whose slot in active_tasks is still taken, and the
\* threads between the two halves of the spike bookkeeping.
Busy(n) == {t \in Holding : NodeOf(t) = n /\ thr[t].pc # "complete"}
Logging == {t \in Threads : thr[t].pc = "log"}

\* The sets of threads and submitters that the counters are compared with are
\* finite.
LEMMA FiniteThreadSets ==
  /\ \A n : IsFiniteSet(Busy(n)) /\ Cardinality(Busy(n)) \in Nat
  /\ IsFiniteSet(Logging) /\ Cardinality(Logging) \in Nat
  /\ IsFiniteSet(Uncounted) /\ Cardinality(Uncounted) \in Nat
<1>1. \A n : Busy(n) \subseteq Threads
  BY DEF Busy, Holding
<1>2. Logging \subseteq Threads
  BY DEF Logging
<1>3. Uncounted \subseteq Submitters
  BY DEF Uncounted
<1>4. (\A n : IsFiniteSet(Busy(n))) /\ IsFiniteSet(Logging) /\ IsFiniteSet(Uncounted)
  BY <1>1, <1>2, <1>3, NodeFacts, SubmittersAssumption, FS_Subset
<1> QED
  BY <1>4, FS_CardinalityType

\* A thread goes on and keeps its task.
LEMMA GotoForm ==
  ASSUME ThreadOK, NEW t \in Threads, NEW l \in ThrPC, Goto(t, l)
  PROVE  /\ ThreadOK'
         /\ \A s \in Threads : /\ thr'[s].pc = IF s = t THEN l ELSE thr[s].pc
                               /\ thr'[s].task = thr[s].task
BY DEF ThreadOK, Goto

\* A thread goes on with another task, or none.
LEMMA PutForm ==
  ASSUME ThreadOK, NEW t \in Threads, NEW l \in ThrPC, NEW k \in Task \cup {NoTask},
         thr' = [thr EXCEPT ![t] = [pc |-> l, task |-> k]]
  PROVE  /\ ThreadOK'
         /\ \A s \in Threads : /\ thr'[s].pc = IF s = t THEN l ELSE thr[s].pc
                               /\ thr'[s].task = IF s = t THEN k ELSE thr[s].task
BY DEF ThreadOK

\* A submitter submits as long as there is a task left, then waits.
LEMMA SubmitFromForm ==
  ASSUME NEW w \in Submitters, NEW i \in Nat, i >= 1, i <= Size(w) + 1
  PROVE  /\ SubmitFrom(w, i) \in {"submit", "wait"}
         /\ SubmitFrom(w, i) = "submit" => i <= Size(w)
         /\ SubmitFrom(w, i) = "wait" => i = Size(w) + 1
BY SizeNat DEF SubmitFrom, Size

\* A thread that has taken a task holds one that was pushed.
LEMMA PushedTask ==
  ASSUME Types, TasksConserved
  PROVE  /\ Pushed \subseteq Task
         /\ \A t \in Holding : thr[t].task \in InHand /\ thr[t].task \in Task
<1>1. \A k : IsPushed(k, batch, next, sub) => k \in Submitters \X (1 .. batch) \X Nat
  BY DEF IsPushed
<1>2. \A k : k \in Submitters \X (1 .. batch) \X Nat => k \in Task
  BY BoundsAssumption DEF Task, Types, SubOK
<1>3. Pushed \subseteq Task
  BY <1>1, <1>2, PushedForm, Zenon
<1>4. \A t \in Holding : thr[t].task \in InHand
  BY DEF InHand
<1> QED
  BY <1>3, <1>4 DEF TasksConserved

\* Every step of a submitter or of the coordinator keeps the types.
LEMMA SubTypes ==
  ASSUME Types, NextInv,
         (\E w \in Submitters : SubmitterStep(w)) \/ NextBatch \/ Stop
  PROVE  Types' /\ NextInv'
<1>0. QueueOK /\ ThreadOK /\ SubOK /\ CountOK
  BY DEF Types
<1>1. CASE \E w \in Submitters : Submit(w)
  <2>1. PICK w \in Submitters : Submit(w)
    BY <1>1
  <2> DEFINE n == PreferredNode(w)
             x == <<w, batch, next[w]>>
  <2>2. x \in Task /\ next[w] \in 1 .. Size(w)
    BY <1>0, <2>1, SizeNat DEF SubOK, NextInv, Submit, Task
  <2>3. n \in Nodes
    BY <2>2, SizeNat, NodeFacts, HintsAssumption DEF PreferredNode
  <2> HIDE DEF n, x
  <2>4. /\ queue' = [queue EXCEPT ![n] = Append(@, x)]
        /\ active_tasks' = [active_tasks EXCEPT ![n] = @ + 1]
        /\ sub' = [sub EXCEPT ![w] = "count"] /\ sub[w] = "submit"
        /\ UNCHANGED <<running, total_submitted, total_completed, spike_count,
                       spikes, batch, next, thr, finished>>
    BY <2>1 DEF Submit, n, x
  <2>5. QueueOK'
    BY <1>0, <2>2, <2>3, <2>4, AppendForm DEF QueueOK
  <2>6. ThreadOK' /\ SubOK' /\ NextInv'
    BY <1>0, <2>2, <2>4 DEF ThreadOK, SubOK, SubPC, NextInv
  <2>7. CountOK'
    BY <1>0, <2>3, <2>4 DEF CountOK
  <2> QED
    BY <2>5, <2>6, <2>7 DEF Types
<1>2. CASE \E w \in Submitters : CountSubmitted(w)
  <2>1. PICK w \in Submitters : CountSubmitted(w)
    BY <1>2
  <2>2. next[w] + 1 \in Nat /\ next[w] + 1 >= 1 /\ next[w] + 1 <= Size(w) + 1
    BY <1>0, <2>1, SizeNat DEF SubOK, NextInv, CountSubmitted
  <2> DEFINE l == SubmitFrom(w, next[w] + 1)
  <2>3. /\ l \in {"submit", "wait"}
        /\ l = "submit" => next[w] + 1 <= Size(w)
        /\ l = "wait" => next[w] + 1 = Size(w) + 1
    BY <2>2, SubmitFromForm
  <2>4. /\ total_submitted' = total_submitted + 1
        /\ next' = [next EXCEPT ![w] = @ + 1]
        /\ sub' = [sub EXCEPT ![w] = l]
        /\ UNCHANGED <<running, queue, active_tasks, total_completed, spike_count,
                       spikes, batch, thr, finished>>
    BY <2>1 DEF CountSubmitted
  <2> HIDE DEF l
  <2>5. SubOK' /\ NextInv'
    BY <1>0, <2>2, <2>3, <2>4 DEF SubOK, SubPC, NextInv
  <2> QED
    BY <1>0, <2>4, <2>5 DEF Types, QueueOK, ThreadOK, CountOK
<1>3. CASE \E w \in Submitters : WaitAll(w)
  BY <1>0, <1>3 DEF WaitAll, Types, QueueOK, ThreadOK, CountOK, SubOK, SubPC, NextInv
<1>4. CASE NextBatch
  <2>1. /\ batch < MaxBatches /\ batch' = batch + 1
        /\ next' = [w \in Submitters |-> 1]
        /\ sub' = [w \in Submitters |-> SubmitFrom(w, 1)]
        /\ UNCHANGED <<running, queue, active_tasks, total_submitted, total_completed,
                       spike_count, spikes, thr, finished>>
    BY <1>4 DEF NextBatch
  <2>2. \A w \in Submitters :
          /\ SubmitFrom(w, 1) \in {"submit", "wait"}
          /\ SubmitFrom(w, 1) = "submit" => 1 <= Size(w)
          /\ SubmitFrom(w, 1) = "wait" => 1 = Size(w) + 1
    BY SubmitFromForm, SizeNat
  <2>3. SubOK' /\ NextInv'
    BY <1>0, <2>1, <2>2, BoundsAssumption DEF SubOK, SubPC, NextInv
  <2> QED
    BY <1>0, <2>1, <2>3 DEF Types, QueueOK, ThreadOK, CountOK
<1>5. CASE Stop
  <2>1. running' = FALSE /\ UNCHANGED <<queue, active_tasks, total_submitted,
          total_completed, spike_count, spikes, batch, next, sub, thr, finished>>
    BY <1>5 DEF Stop
  <2> QED
    BY <1>0, <2>1 DEF Types, QueueOK, ThreadOK, CountOK, SubOK, NextInv
<1> QED
  BY <1>1, <1>2, <1>3, <1>4, <1>5 DEF SubmitterStep

\* The history after a push: one longer, or at the cap.
LEMMA CappedForm ==
  ASSUME NEW s \in Seq(Task), NEW k \in Task, Len(s) <= SpikeCap
  PROVE  /\ Capped(Append(s, k)) \in Seq(Task)
         /\ Len(Capped(Append(s, k))) = IF Len(s) < SpikeCap THEN Len(s) + 1 ELSE SpikeCap
<1> DEFINE a == Append(s, k)
<1>1. a \in Seq(Task) /\ Len(a) = Len(s) + 1 /\ Len(s) \in Nat
  BY AppendForm
<1> HIDE DEF a
<1>2. a # <<>>
  BY <1>1
<1>3. Tail(a) \in Seq(Task) /\ Len(Tail(a)) = Len(a) - 1
  BY <1>1, <1>2, TailForm
<1> QED
  BY <1>1, <1>3, BoundsAssumption DEF Capped, a

\* Every step of a pool thread keeps the types.
LEMMA ThrTypes ==
  ASSUME Types, NextInv, TasksConserved, LoadAccurate, SpikeHistoryBounded,
         NEW t \in Threads, ThreadStep(t)
  PROVE  Types' /\ NextInv'
<1>0. QueueOK /\ ThreadOK /\ SubOK /\ CountOK
  BY DEF Types
<1>1. ASSUME UNCHANGED <<batch, next, sub>> PROVE SubOK' /\ NextInv'
  BY <1>0, <1>1 DEF SubOK, NextInv
<1>2. NodeOf(t) \in Nodes
  BY NodeFacts
<1>3. CASE LoopTest(t) \/ WakeEmpty(t) \/ RunTask(t)
  <2>1. /\ \E l \in ThrPC : Goto(t, l)
        /\ UNCHANGED <<running, queue, active_tasks, total_submitted, total_completed,
                       spike_count, spikes, batch, next, sub, finished>>
    BY <1>3 DEF LoopTest, WakeEmpty, RunTask, ThrPC
  <2>2. ThreadOK'
    BY <1>0, <2>1, GotoForm
  <2> QED
    BY <1>0, <1>1, <2>1, <2>2 DEF Types, QueueOK, CountOK
<1>4. CASE TakeTask(t)
  <2> DEFINE n == NodeOf(t)
             q == queue[n]
  <2>1. /\ q # <<>>
        /\ thr' = [thr EXCEPT ![t] = [pc |-> "run", task |-> Head(q)]]
        /\ queue' = [queue EXCEPT ![n] = Tail(q)]
        /\ UNCHANGED <<running, active_tasks, total_submitted, total_completed,
                       spike_count, spikes, batch, next, sub, finished>>
    BY <1>4 DEF TakeTask
  <2>2. q \in Seq(Task)
    BY <1>0, <1>2 DEF QueueOK
  <2> HIDE DEF q, n
  <2>3. Head(q) \in Task /\ Tail(q) \in Seq(Task)
    BY <2>1, <2>2, TailForm
  <2>4. ThreadOK'
    BY <1>0, <2>1, <2>3, PutForm DEF ThrPC
  <2>5. QueueOK'
    BY <1>0, <2>1, <2>3 DEF QueueOK
  <2> QED
    BY <1>0, <1>1, <2>1, <2>4, <2>5 DEF Types, CountOK
<1>5. CASE CountSpike(t)
  <2>1. /\ Goto(t, "log") /\ spike_count' = spike_count + 1
        /\ UNCHANGED <<running, queue, active_tasks, total_submitted, total_completed,
                       spikes, batch, next, sub, finished>>
    BY <1>5 DEF CountSpike
  <2>2. ThreadOK'
    BY <1>0, <2>1, GotoForm DEF ThrPC
  <2> QED
    BY <1>0, <1>1, <2>1, <2>2 DEF Types, QueueOK, CountOK
<1>6. CASE LogSpike(t)
  <2>1. /\ Goto(t, "release") /\ spikes' = Capped(Append(spikes, thr[t].task))
        /\ thr[t].pc = "log"
        /\ UNCHANGED <<running, queue, active_tasks, total_submitted, total_completed,
                       spike_count, batch, next, sub, finished>>
    BY <1>6 DEF LogSpike
  <2>2. ThreadOK'
    BY <1>0, <2>1, GotoForm DEF ThrPC
  <2>3. thr[t].task \in Task
    BY <2>1, PushedTask DEF Holding
  <2>4. Len(spikes) <= SpikeCap
    BY <1>0, FiniteThreadSets, BoundsAssumption DEF SpikeHistoryBounded, CountOK, Logging
  <2>5. spikes' \in Seq(Task)
    BY <1>0, <2>1, <2>3, <2>4, CappedForm DEF CountOK
  <2> QED
    BY <1>0, <1>1, <2>1, <2>2, <2>5 DEF Types, QueueOK, CountOK
<1>7. CASE ReleaseSlot(t)
  <2> DEFINE n == NodeOf(t)
  <2>1. /\ Goto(t, "complete") /\ active_tasks' = [active_tasks EXCEPT ![n] = @ - 1]
        /\ thr[t].pc = "release"
        /\ UNCHANGED <<running, queue, total_submitted, total_completed, spike_count,
                       spikes, batch, next, sub, finished>>
    BY <1>7 DEF ReleaseSlot
  <2>2. ThreadOK'
    BY <1>0, <2>1, GotoForm DEF ThrPC
  <2>3. t \in Busy(n)
    BY <2>1 DEF Busy, Holding
  <2>4. Cardinality(Busy(n)) \in Nat /\ Cardinality(Busy(n)) # 0
    BY <2>3, FiniteThreadSets, FS_EmptySet
  <2>5. active_tasks[n] = Len(queue[n]) + Cardinality(Busy(n))
    BY <1>2 DEF LoadAccurate, Busy
  <2>6. Len(queue[n]) \in Nat /\ active_tasks[n] \in Nat
    BY <1>0, <1>2 DEF QueueOK, CountOK
  <2>7. active_tasks[n] - 1 \in Nat
    BY <2>4, <2>5, <2>6
  <2> HIDE DEF n
  <2>8. active_tasks' \in [Nodes -> Nat]
    BY <1>0, <2>1, <2>7 DEF CountOK
  <2> QED
    BY <1>0, <1>1, <2>1, <2>2, <2>8 DEF Types, QueueOK, CountOK
<1>8. CASE CountCompleted(t)
  <2>1. /\ thr[t].pc = "complete"
        /\ total_completed' = total_completed + 1
        /\ finished' = finished \cup {thr[t].task}
        /\ thr' = [thr EXCEPT ![t] = [pc |-> "top", task |-> NoTask]]
        /\ UNCHANGED <<running, queue, active_tasks, total_submitted, spike_count,
                       spikes, batch, next, sub>>
    BY <1>8 DEF CountCompleted
  <2>2. ThreadOK'
    BY <1>0, <2>1, PutForm DEF ThrPC
  <2>3. thr[t].task \in Task
    BY <2>1, PushedTask DEF Holding
  <2> QED
    BY <1>0, <1>1, <2>1, <2>2, <2>3 DEF Types, QueueOK, CountOK
<1> QED
  BY <1>3, <1>4, <1>5, <1>6, <1>7, <1>8 DEF ThreadStep

----------------------------------------------------------------------------
(* The ledger: where every pushed task is *)

Ledger == QueueInv /\ HandInv /\ IsFiniteSet(Pushed) /\ TasksConserved

\* submit() pushes a task that was nowhere before.
LEMMA SubmitEffect ==
  ASSUME Types, NextInv, QueueInv, TasksConserved, Types',
         NEW w \in Submitters, Submit(w), NEW x, x = <<w, batch, next[w]>>
  PROVE  /\ x \notin Pushed /\ Pushed' = Pushed \cup {x}
         /\ InQueue' = InQueue \cup {x} /\ QueueInv'
         /\ w \notin Uncounted /\ Uncounted' = Uncounted \cup {w}
<1>0. QueueOK /\ SubOK /\ QueueOK' /\ SubOK'
  BY DEF Types
<1> DEFINE n == PreferredNode(w)
<1>1. /\ x \in Submitters \X (1 .. batch) \X Nat /\ x[1] = w /\ x[2] = batch /\ x[3] = next[w]
      /\ x \in Task /\ next[w] \in 1 .. Size(w) /\ n \in Nodes
  <2>1. /\ x \in Submitters \X (1 .. batch) \X Nat /\ x[1] = w /\ x[2] = batch /\ x[3] = next[w]
        /\ x \in Task /\ next[w] \in 1 .. Size(w)
    BY <1>0, SizeNat DEF SubOK, NextInv, Submit, Task
  <2> QED
    BY <2>1, SizeNat, NodeFacts, HintsAssumption DEF PreferredNode
<1> HIDE DEF n
<1>2. /\ queue' = [queue EXCEPT ![n] = Append(@, x)]
      /\ sub' = [sub EXCEPT ![w] = "count"] /\ sub[w] = "submit"
      /\ UNCHANGED <<batch, next>>
  BY DEF Submit, n
<1>3. \A u \in Submitters : sub'[u] = IF u = w THEN "count" ELSE sub[u]
  BY <1>0, <1>2 DEF SubOK
<1>4. w \notin Uncounted /\ Uncounted' = Uncounted \cup {w}
  BY <1>2, <1>3 DEF Uncounted
<1>5. x \notin Pushed
  <2>1. ~ IsPushed(x, batch, next, sub)
    BY <1>0, <1>1, <1>2 DEF IsPushed, SubOK
  <2> QED
    BY <2>1, PushedForm
<1>6. Pushed' = Pushed \cup {x}
  <2>1. IsPushed(x, batch', next', sub')
    BY <1>1, <1>2, <1>3 DEF IsPushed
  <2>2. ASSUME NEW k, IsPushed(k, batch, next, sub) PROVE IsPushed(k, batch', next', sub')
    BY <1>2, <1>3, <2>2 DEF IsPushed
  <2>3. ASSUME NEW k, IsPushed(k, batch', next', sub'), ~ IsPushed(k, batch, next, sub)
        PROVE  k = x
    <3>1. /\ k \in Submitters \X (1 .. batch) \X Nat
          /\ k[1] = w /\ k[3] = next[w] /\ ~ (k[2] < batch)
      BY <1>2, <1>3, <2>3 DEF IsPushed
    <3>2. k = <<k[1], k[2], k[3]>> /\ k[2] = batch
      BY <1>0, <3>1 DEF SubOK
    <3> QED
      BY <3>1, <3>2
  <2> QED
    BY <2>1, <2>2, <2>3, PushedForm
<1>7. \A k, m, i : m \in Nodes /\ i \in Nat =>
        (Cell(queue', k, m, i)
         <=> Cell(queue, k, m, i) \/ (k = x /\ m = n /\ i = Len(queue[n]) + 1))
  <2> DEFINE q == queue[n]
             r == queue'[n]
  <2>1. q \in Seq(Task) /\ r = Append(q, x)
    BY <1>0, <1>1, <1>2 DEF QueueOK
  <2>2. \A m \in Nodes : m # n => queue'[m] = queue[m]
    BY <1>0, <1>1, <1>2 DEF QueueOK
  <2> HIDE DEF q, r
  <2>3. /\ r \in Seq(Task) /\ Len(r) = Len(q) + 1 /\ Len(q) \in Nat
        /\ r[Len(q) + 1] = x
        /\ \A i \in 1 .. Len(q) : r[i] = q[i]
    BY <1>1, <2>1, AppendForm
  <2>4. \A k : \A i \in Nat : (i \in 1 .. Len(r) /\ r[i] = k)
          <=> (i \in 1 .. Len(q) /\ q[i] = k) \/ (k = x /\ i = Len(q) + 1)
    BY <2>3
  <2>5. \A k : \A i \in Nat :
          Cell(queue', k, n, i) <=> Cell(queue, k, n, i) \/ (k = x /\ i = Len(queue[n]) + 1)
    BY <2>4 DEF Cell, q, r
  <2>6. \A k, i : \A m \in Nodes : m # n => (Cell(queue', k, m, i) <=> Cell(queue, k, m, i))
    BY <2>2 DEF Cell
  <2> QED
    BY <2>5, <2>6, Zenon
<1>8. InQueue' = InQueue \cup {x}
  <2>1. Len(queue[n]) + 1 \in Nat
    BY <1>0, <1>1 DEF QueueOK
  <2>2. \A k : k \in InQueue' => k \in InQueue \/ k = x
    BY <1>0, <1>7, InQueueForm
  <2>3. x \in InQueue'
    BY <1>0, <1>1, <1>7, <2>1, InQueueForm
  <2>4. \A k : k \in InQueue => k \in InQueue'
    BY <1>0, <1>7, InQueueForm
  <2> QED
    BY <2>2, <2>3, <2>4
<1>9. QueueInv'
  <2>1. \A m \in Nodes, i \in Nat : ~ Cell(queue, x, m, i)
    BY <1>0, <1>5, InQueueForm DEF TasksConserved
  <2>2. ASSUME NEW m \in Nodes, NEW j \in Nodes, NEW i \in Nat, NEW l \in Nat, NEW k \in Task,
               Cell(queue', k, m, i), Cell(queue', k, j, l)
        PROVE  m = j /\ i = l
    <3>1. CASE k = x
      BY <1>7, <2>1, <2>2, <3>1
    <3>2. CASE k # x
      <4>1. Cell(queue, k, m, i) /\ Cell(queue, k, j, l)
        BY <1>7, <2>2, <3>2
      <4> QED
        BY <4>1 DEF QueueInv
    <3> QED
      BY <3>1, <3>2
  <2> QED
    BY <2>2 DEF QueueInv
<1> QED
  BY <1>4, <1>5, <1>6, <1>8, <1>9

\* Counting, returning from wait_all and starting a batch push nothing.
LEMMA PushedKept ==
  ASSUME Types, NextInv, Types',
         \/ \E w \in Submitters : CountSubmitted(w) \/ WaitAll(w)
         \/ NextBatch
  PROVE  Pushed' = Pushed
<1>0. SubOK /\ SubOK'
  BY DEF Types
<1>1. CASE \E w \in Submitters : CountSubmitted(w)
  <2>1. PICK w \in Submitters : CountSubmitted(w)
    BY <1>1
  <2>2. /\ sub[w] = "count" /\ sub'[w] # "count" /\ next'[w] = next[w] + 1 /\ batch' = batch
        /\ \A u \in Submitters : u # w => next'[u] = next[u] /\ sub'[u] = sub[u]
    BY <1>0, <2>1 DEF CountSubmitted, SubOK, SubmitFrom
  <2>3. \A k : IsPushed(k, batch, next, sub) <=> IsPushed(k, batch', next', sub')
    BY <1>0, <2>2 DEF IsPushed, SubOK
  <2> QED
    BY <2>3, PushedForm
<1>2. CASE \E w \in Submitters : WaitAll(w)
  <2>1. PICK w \in Submitters : WaitAll(w)
    BY <1>2
  <2>2. /\ sub[w] # "count" /\ sub'[w] # "count" /\ next' = next /\ batch' = batch
        /\ \A u \in Submitters : u # w => sub'[u] = sub[u]
    BY <1>0, <2>1 DEF WaitAll, SubOK
  <2>3. \A k : IsPushed(k, batch, next, sub) <=> IsPushed(k, batch', next', sub')
    BY <2>2 DEF IsPushed
  <2> QED
    BY <2>3, PushedForm
<1>3. CASE NextBatch
  <2>1. /\ batch' = batch + 1
        /\ \A u \in Submitters : next'[u] = 1 /\ sub'[u] # "count" /\ next[u] = Size(u) + 1
    BY <1>3 DEF NextBatch, NextInv, SubmitFrom
  <2>2. \A k : IsPushed(k, batch, next, sub) <=> IsPushed(k, batch', next', sub')
    BY <1>0, <2>1, SizeNat DEF IsPushed, SubOK
  <2> QED
    BY <2>2, PushedForm
<1> QED
  BY <1>1, <1>2, <1>3

\* A thread takes the first task of its queue: from there into its hand.
LEMMA TakeEffect ==
  ASSUME Types, QueueInv, HandInv, TasksConserved, Types',
         NEW t \in Threads, TakeTask(t), NEW x, x = Head(queue[NodeOf(t)])
  PROVE  /\ x \in InQueue /\ InQueue' = InQueue \ {x} /\ QueueInv'
         /\ InHand' = InHand \cup {x} /\ HandInv'
         /\ t \notin Holding /\ Holding' = Holding \cup {t}
<1>0. QueueOK /\ ThreadOK /\ QueueOK' /\ ThreadOK'
  BY DEF Types
<1> DEFINE n == NodeOf(t)
           q == queue[n]
           r == queue'[n]
<1>1. n \in Nodes
  BY NodeFacts
<1>2. /\ thr[t].pc = "waiting" /\ q # <<>> /\ x = Head(q)
      /\ thr' = [thr EXCEPT ![t] = [pc |-> "run", task |-> x]]
      /\ queue' = [queue EXCEPT ![n] = Tail(q)]
  BY DEF TakeTask
<1>3. /\ q \in Seq(Task) /\ r = Tail(q)
      /\ \A m \in Nodes : m # n => queue'[m] = queue[m]
  BY <1>0, <1>1, <1>2 DEF QueueOK
<1> HIDE DEF n, q, r
<1>4. /\ x \in Task /\ x = q[1] /\ r \in Seq(Task)
      /\ Len(q) \in Nat /\ Len(q) >= 1 /\ Len(r) = Len(q) - 1
      /\ \A i \in 1 .. Len(q) - 1 : r[i] = q[i + 1]
  BY <1>2, <1>3, TailForm
<1>5. \A k : \A i \in Nat : (i \in 1 .. Len(r) /\ r[i] = k)
                           <=> (i >= 1 /\ i + 1 \in 1 .. Len(q) /\ q[i + 1] = k)
  BY <1>4
<1>6. \A k : \A i \in Nat : Cell(queue', k, n, i) <=> i >= 1 /\ Cell(queue, k, n, i + 1)
  BY <1>5 DEF Cell, q, r
<1>7. \A k, i : \A m \in Nodes : m # n => (Cell(queue', k, m, i) <=> Cell(queue, k, m, i))
  BY <1>3 DEF Cell
<1>8. Cell(queue, x, n, 1)
  BY <1>4 DEF Cell, q
<1>9. \A m \in Nodes, i \in Nat : Cell(queue, x, m, i) => m = n /\ i = 1
  BY <1>1, <1>4, <1>8 DEF QueueInv
<1>10. x \in InQueue
  BY <1>0, <1>1, <1>8, InQueueForm
<1>11. InQueue' = InQueue \ {x}
  <2>1. ASSUME NEW k \in InQueue' PROVE k \in InQueue /\ k # x
    <3>1. PICK m \in Nodes, i \in Nat : Cell(queue', k, m, i)
      BY <1>0, <2>1, InQueueForm
    <3>2. CASE m = n
      <4>1. i >= 1 /\ i + 1 \in Nat /\ Cell(queue, k, n, i + 1)
        BY <1>6, <3>1, <3>2
      <4>2. k \in InQueue
        BY <1>0, <1>1, <4>1, InQueueForm
      <4> QED
        BY <1>1, <1>9, <4>1, <4>2
    <3>3. CASE m # n
      BY <1>0, <1>7, <1>9, <3>1, <3>3, InQueueForm
    <3> QED
      BY <3>2, <3>3
  <2>2. ASSUME NEW k \in InQueue, k # x PROVE k \in InQueue'
    <3>1. PICK m \in Nodes, i \in Nat : Cell(queue, k, m, i)
      BY <1>0, <2>2, InQueueForm
    <3>2. CASE m = n
      <4>1. i >= 1 /\ i # 1
        BY <1>4, <2>2, <3>1, <3>2 DEF Cell, q
      <4>2. i - 1 \in Nat /\ i - 1 >= 1 /\ Cell(queue, k, n, (i - 1) + 1)
        BY <3>1, <3>2, <4>1
      <4>3. Cell(queue', k, n, i - 1)
        BY <1>6, <4>2
      <4> QED
        BY <1>0, <1>1, <4>2, <4>3, InQueueForm
    <3>3. CASE m # n
      BY <1>0, <1>7, <3>1, <3>3, InQueueForm
    <3> QED
      BY <3>2, <3>3
  <2> QED
    BY <2>1, <2>2
<1>12. QueueInv'
  <2>1. ASSUME NEW m \in Nodes, NEW j \in Nodes, NEW i \in Nat, NEW l \in Nat, NEW k \in Task,
               Cell(queue', k, m, i), Cell(queue', k, j, l)
        PROVE  m = j /\ i = l
    <3>1. PICK a \in Nat : Cell(queue, k, m, a) /\ a = IF m = n THEN i + 1 ELSE i
      BY <1>6, <1>7, <2>1
    <3>2. PICK b \in Nat : Cell(queue, k, j, b) /\ b = IF j = n THEN l + 1 ELSE l
      BY <1>6, <1>7, <2>1
    <3>3. m = j /\ a = b
      BY <3>1, <3>2 DEF QueueInv
    <3> QED
      BY <3>1, <3>2, <3>3
  <2> QED
    BY <2>1 DEF QueueInv
<1>13. \A s \in Threads : /\ thr'[s].pc = IF s = t THEN "run" ELSE thr[s].pc
                          /\ thr'[s].task = IF s = t THEN x ELSE thr[s].task
  BY <1>0, <1>2 DEF ThreadOK
<1>14. t \notin Holding /\ Holding' = Holding \cup {t}
  BY <1>2, <1>13 DEF Holding
<1>15. Holding \subseteq Threads
  BY DEF Holding
<1>16. InHand' = InHand \cup {x}
  <2>1. \A s \in Holding' : thr'[s].task = IF s = t THEN x ELSE thr[s].task
    BY <1>13, <1>14, <1>15
  <2> QED
    BY <1>14, <2>1 DEF InHand
<1>17. HandInv'
  <2>1. x \notin InHand
    BY <1>10 DEF TasksConserved
  <2>2. \A s \in Holding : s # t /\ thr'[s].task = thr[s].task /\ thr[s].task # x
    BY <1>13, <1>14, <1>15, <2>1 DEF InHand
  <2>3. thr'[t].task = x
    BY <1>13
  <2> QED
    BY <1>14, <2>2, <2>3 DEF HandInv
<1> QED
  BY <1>10, <1>11, <1>12, <1>14, <1>16, <1>17

\* Between taking a task and counting it a thread keeps it in its hand.
LEMMA HandKept ==
  ASSUME Types, HandInv, NEW t \in Threads, NEW l \in ThrPC, Goto(t, l),
         thr[t].pc \in {"top", "waiting", "exited"} <=> l \in {"top", "waiting", "exited"}
  PROVE  Holding' = Holding /\ InHand' = InHand /\ HandInv'
<1>1. \A s \in Threads : /\ thr'[s].pc = IF s = t THEN l ELSE thr[s].pc
                         /\ thr'[s].task = thr[s].task
  BY GotoForm DEF Types
<1>2. Holding' = Holding /\ Holding \subseteq Threads
  BY <1>1 DEF Holding
<1> QED
  BY <1>1, <1>2 DEF InHand, HandInv

\* A counted task moves from the hand to the finished ones.
LEMMA CompleteEffect ==
  ASSUME Types, HandInv, TasksConserved, NEW t \in Threads, CountCompleted(t),
         NEW x, x = thr[t].task
  PROVE  /\ x \in InHand /\ InHand' = InHand \ {x} /\ HandInv'
         /\ t \in Holding /\ Holding' = Holding \ {t}
<1>1. /\ thr[t].pc = "complete"
      /\ thr' = [thr EXCEPT ![t] = [pc |-> "top", task |-> NoTask]]
  BY DEF CountCompleted
<1>2. \A s \in Threads : /\ thr'[s].pc = IF s = t THEN "top" ELSE thr[s].pc
                         /\ thr'[s].task = IF s = t THEN NoTask ELSE thr[s].task
  BY <1>1 DEF ThreadOK, Types
<1>3. t \in Holding /\ Holding' = Holding \ {t} /\ Holding \subseteq Threads
  BY <1>1, <1>2 DEF Holding
<1>4. \A s \in Holding : s # t => thr'[s].task = thr[s].task /\ thr[s].task # x
  BY <1>2, <1>3 DEF HandInv
<1>5. x \in InHand /\ InHand' = InHand \ {x}
  BY <1>3, <1>4 DEF InHand
<1>6. HandInv'
  BY <1>3, <1>4 DEF HandInv
<1> QED
  BY <1>3, <1>5, <1>6

\* Submitters, the next batch and stop keep the account of the tasks.
LEMMA LedgerSub ==
  ASSUME Types, NextInv, Ledger, Types',
         (\E w \in Submitters : SubmitterStep(w)) \/ NextBatch \/ Stop
  PROVE  Ledger'
<1>0. QueueInv /\ HandInv /\ IsFiniteSet(Pushed) /\ TasksConserved /\ CountOK
  BY DEF Ledger, Types
<1>1. UNCHANGED <<thr, finished, total_completed>>
  BY DEF SubmitterStep, Submit, CountSubmitted, WaitAll, NextBatch, Stop
<1>2. Holding' = Holding /\ InHand' = InHand /\ HandInv'
  BY <1>0, <1>1 DEF Holding, InHand, HandInv
<1>3. CASE \E w \in Submitters : Submit(w)
  <2>1. PICK w \in Submitters : Submit(w)
    BY <1>3
  <2> DEFINE x == <<w, batch, next[w]>>
  <2>2. /\ x \notin Pushed /\ Pushed' = Pushed \cup {x}
        /\ InQueue' = InQueue \cup {x} /\ QueueInv'
        /\ w \notin Uncounted /\ Uncounted' = Uncounted \cup {w}
    BY <1>0, <2>1, SubmitEffect
  <2> HIDE DEF x
  <2>3. /\ IsFiniteSet(Pushed') /\ Cardinality(Pushed') = Cardinality(Pushed) + 1
        /\ Cardinality(Pushed) \in Nat
    BY <1>0, <2>2, FS_AddElement, FS_CardinalityType
  <2>4. /\ Cardinality(Uncounted') = Cardinality(Uncounted) + 1
        /\ Cardinality(Uncounted) \in Nat
    BY <2>2, FiniteThreadSets, FS_AddElement
  <2>5. total_submitted' = Cardinality(Pushed') - Cardinality(Uncounted')
    BY <1>0, <2>1, <2>3, <2>4 DEF TasksConserved, Submit
  <2> QED
    BY <1>0, <1>1, <1>2, <2>2, <2>3, <2>5 DEF Ledger, TasksConserved
<1>4. CASE \E w \in Submitters : CountSubmitted(w)
  <2>1. PICK w \in Submitters : CountSubmitted(w)
    BY <1>4
  <2>2. Pushed' = Pushed
    BY <2>1, PushedKept
  <2>3. /\ w \in Uncounted /\ Uncounted' = Uncounted \ {w}
        /\ total_submitted' = total_submitted + 1 /\ queue' = queue
    BY <2>1 DEF CountSubmitted, Uncounted, Types, SubOK, SubmitFrom
  <2>4. /\ Cardinality(Uncounted') = Cardinality(Uncounted) - 1
        /\ Cardinality(Uncounted) \in Nat /\ Cardinality(Pushed) \in Nat
    BY <1>0, <2>3, FiniteThreadSets, FS_RemoveElement, FS_CardinalityType
  <2>5. total_submitted' = Cardinality(Pushed') - Cardinality(Uncounted')
    BY <1>0, <2>2, <2>3, <2>4 DEF TasksConserved
  <2>6. InQueue' = InQueue /\ QueueInv'
    BY <1>0, <2>3 DEF InQueue, QueueInv
  <2> QED
    BY <1>0, <1>1, <1>2, <2>2, <2>5, <2>6 DEF Ledger, TasksConserved
<1>5. CASE (\E w \in Submitters : WaitAll(w)) \/ NextBatch \/ Stop
  <2>1. Pushed' = Pushed
    <3>1. CASE Stop
      BY <3>1 DEF Stop, Pushed
    <3> QED
      BY <1>5, <3>1, PushedKept
  <2>2. Uncounted' = Uncounted
    <3>1. CASE \E w \in Submitters : WaitAll(w)
      BY <3>1 DEF WaitAll, Uncounted, Types, SubOK
    <3>2. CASE NextBatch
      BY <3>2 DEF NextBatch, Uncounted, SubmitFrom
    <3>3. CASE Stop
      BY <3>3 DEF Stop, Uncounted
    <3> QED
      BY <1>5, <3>1, <3>2, <3>3
  <2>3. UNCHANGED <<queue, total_submitted>>
    BY <1>5 DEF WaitAll, NextBatch, Stop
  <2>4. InQueue' = InQueue /\ QueueInv'
    BY <1>0, <2>3 DEF InQueue, QueueInv
  <2> QED
    BY <1>0, <1>1, <1>2, <2>1, <2>2, <2>3, <2>4 DEF Ledger, TasksConserved
<1> QED
  BY <1>3, <1>4, <1>5 DEF SubmitterStep

\* So do the pool threads.
LEMMA LedgerThr ==
  ASSUME Types, Ledger, Types', NEW t \in Threads, ThreadStep(t)
  PROVE  Ledger'
<1>0. QueueInv /\ HandInv /\ IsFiniteSet(Pushed) /\ TasksConserved /\ CountOK
  BY DEF Ledger, Types
<1>1. UNCHANGED <<batch, next, sub, total_submitted>>
  BY DEF ThreadStep, LoopTest, WakeEmpty, TakeTask, RunTask, CountSpike, LogSpike,
         ReleaseSlot, CountCompleted
<1>2. Pushed' = Pushed /\ Uncounted' = Uncounted
  BY <1>1 DEF Pushed, Uncounted
<1>3. CASE TakeTask(t)
  <2> DEFINE x == Head(queue[NodeOf(t)])
  <2>1. /\ x \in InQueue /\ InQueue' = InQueue \ {x} /\ QueueInv'
        /\ InHand' = InHand \cup {x} /\ HandInv'
    BY <1>0, <1>3, TakeEffect
  <2>2. UNCHANGED <<finished, total_completed>>
    BY <1>3 DEF TakeTask
  <2> HIDE DEF x
  <2> QED
    BY <1>0, <1>1, <1>2, <2>1, <2>2 DEF Ledger, TasksConserved
<1>4. CASE CountCompleted(t)
  <2> DEFINE x == thr[t].task
  <2>1. x \in InHand /\ InHand' = InHand \ {x} /\ HandInv'
    BY <1>0, <1>4, CompleteEffect
  <2>2. /\ finished' = finished \cup {x} /\ total_completed' = total_completed + 1
        /\ queue' = queue
    BY <1>4 DEF CountCompleted
  <2> HIDE DEF x
  <2>3. InQueue' = InQueue /\ QueueInv'
    BY <1>0, <2>2 DEF InQueue, QueueInv
  <2>4. x \notin finished /\ finished \subseteq Pushed
    BY <1>0, <2>1 DEF TasksConserved
  <2>5. IsFiniteSet(finished)
    BY <1>0, <2>4, FS_Subset
  <2>6. Cardinality(finished') = Cardinality(finished) + 1
    BY <2>2, <2>4, <2>5, FS_AddElement
  <2>7. total_completed' = Cardinality(finished')
    BY <1>0, <2>2, <2>6 DEF TasksConserved
  <2> QED
    BY <1>0, <1>1, <1>2, <2>1, <2>2, <2>3, <2>7 DEF Ledger, TasksConserved
<1>5. CASE LoopTest(t) \/ WakeEmpty(t) \/ RunTask(t) \/ CountSpike(t) \/ LogSpike(t)
           \/ ReleaseSlot(t)
  <2>1. /\ \E l \in ThrPC :
             /\ Goto(t, l)
             /\ thr[t].pc \in {"top", "waiting", "exited"} <=> l \in {"top", "waiting", "exited"}
        /\ UNCHANGED <<queue, finished, total_completed>>
    BY <1>5 DEF LoopTest, WakeEmpty, RunTask, CountSpike, LogSpike, ReleaseSlot, ThrPC
  <2>2. InHand' = InHand /\ HandInv'
    BY <1>0, <2>1, HandKept
  <2>3. InQueue' = InQueue /\ QueueInv'
    BY <1>0, <2>1 DEF InQueue, QueueInv
  <2> QED
    BY <1>0, <1>1, <1>2, <2>1, <2>2, <2>3 DEF Ledger, TasksConserved
<1> QED
  BY <1>3, <1>4, <1>5 DEF ThreadStep

----------------------------------------------------------------------------
(* The load counters and the latency history *)

\* submit() raises the load of the node it pushes to.
LEMMA LoadSub ==
  ASSUME Types, NextInv, LoadAccurate, Types',
         (\E w \in Submitters : SubmitterStep(w)) \/ NextBatch \/ Stop
  PROVE  LoadAccurate'
<1>0. QueueOK /\ SubOK /\ CountOK
  BY DEF Types
<1>1. thr' = thr
  BY DEF SubmitterStep, Submit, CountSubmitted, WaitAll, NextBatch, Stop
<1>2. \A m : Busy(m)' = Busy(m) /\ Cardinality(Busy(m)) \in Nat
  BY <1>1, FiniteThreadSets DEF Busy, Holding
<1>3. \A m \in Nodes : active_tasks[m] = Len(queue[m]) + Cardinality(Busy(m))
  BY DEF LoadAccurate, Busy
<1>4. CASE \E w \in Submitters : Submit(w)
  <2>1. PICK w \in Submitters : Submit(w)
    BY <1>4
  <2> DEFINE n == PreferredNode(w)
             x == <<w, batch, next[w]>>
  <2>2. x \in Task /\ next[w] \in 1 .. Size(w)
    BY <1>0, <2>1, SizeNat DEF SubOK, NextInv, Submit, Task
  <2>3. n \in Nodes
    BY <2>2, SizeNat, NodeFacts, HintsAssumption DEF PreferredNode
  <2> HIDE DEF n, x
  <2>4. /\ queue' = [queue EXCEPT ![n] = Append(@, x)]
        /\ active_tasks' = [active_tasks EXCEPT ![n] = @ + 1]
    BY <2>1 DEF Submit, n, x
  <2>5. ASSUME NEW m \in Nodes PROVE active_tasks'[m] = Len(queue'[m]) + Cardinality(Busy(m)')
    <3> DEFINE q == queue[m]
               r == queue'[m]
    <3>1. q \in Seq(Task) /\ r = IF m = n THEN Append(q, x) ELSE q
      BY <1>0, <2>3, <2>4 DEF QueueOK
    <3>2. active_tasks[m] = Len(q) + Cardinality(Busy(m))
      BY <1>3
    <3> HIDE DEF q, r
    <3>3. Len(q) \in Nat /\ Len(r) = IF m = n THEN Len(q) + 1 ELSE Len(q)
      BY <2>2, <3>1, AppendForm
    <3>4. active_tasks'[m] = IF m = n THEN active_tasks[m] + 1 ELSE active_tasks[m]
      BY <1>0, <2>3, <2>4 DEF CountOK
    <3>5. active_tasks'[m] = Len(r) + Cardinality(Busy(m))
      BY <1>2, <3>2, <3>3, <3>4
    <3> QED
      BY <1>2, <3>5 DEF r
  <2> QED
    BY <2>5 DEF LoadAccurate, Busy
<1>5. CASE (\E w \in Submitters : CountSubmitted(w) \/ WaitAll(w)) \/ NextBatch \/ Stop
  <2>1. UNCHANGED <<queue, active_tasks>>
    BY <1>5 DEF CountSubmitted, WaitAll, NextBatch, Stop
  <2> QED
    BY <1>2, <1>3, <2>1 DEF LoadAccurate, Busy
<1> QED
  BY <1>4, <1>5 DEF SubmitterStep

\* A pool thread lowers it when it releases its slot, not when it pops.
LEMMA LoadThr ==
  ASSUME Types, LoadAccurate, QueueInv, HandInv, TasksConserved, Types',
         NEW t \in Threads, ThreadStep(t)
  PROVE  LoadAccurate'
<1>0. QueueOK /\ ThreadOK /\ CountOK
  BY DEF Types
<1> DEFINE n == NodeOf(t)
<1>1. n \in Nodes
  BY NodeFacts
<1>2. \A m \in Nodes : /\ active_tasks[m] = Len(queue[m]) + Cardinality(Busy(m))
                       /\ IsFiniteSet(Busy(m)) /\ Cardinality(Busy(m)) \in Nat
  BY FiniteThreadSets DEF LoadAccurate, Busy
<1>3. SUFFICES ASSUME NEW m \in Nodes
               PROVE  active_tasks'[m] = Len(queue'[m]) + Cardinality(Busy(m)')
  BY DEF LoadAccurate, Busy
<1>4. CASE TakeTask(t)
  <2> DEFINE q == queue[m]
             r == queue'[m]
  <2>1. /\ thr[t].pc = "waiting" /\ queue[n] # <<>> /\ active_tasks' = active_tasks
        /\ queue' = [queue EXCEPT ![n] = Tail(@)]
        /\ thr' = [thr EXCEPT ![t] = [pc |-> "run", task |-> Head(queue[n])]]
    BY <1>4 DEF TakeTask
  <2>2. \A s \in Threads : thr'[s].pc = IF s = t THEN "run" ELSE thr[s].pc
    BY <1>0, <2>1 DEF ThreadOK
  <2>3. t \notin Busy(m) /\ Busy(m)' = IF m = n THEN Busy(m) \cup {t} ELSE Busy(m)
    BY <2>1, <2>2 DEF Busy, Holding
  <2>4. Cardinality(Busy(m)') = Cardinality(Busy(m)) + (IF m = n THEN 1 ELSE 0)
    <3>1. Cardinality(Busy(m) \cup {t}) = Cardinality(Busy(m)) + 1
      BY <1>2, <2>3, FS_AddElement
    <3>2. CASE m = n
      BY <2>3, <3>1, <3>2
    <3>3. CASE m # n
      BY <1>2, <2>3, <3>3
    <3> QED
      BY <3>2, <3>3
  <2>5. q \in Seq(Task) /\ (m = n => q # <<>>) /\ r = IF m = n THEN Tail(q) ELSE q
    BY <1>0, <1>1, <2>1 DEF QueueOK
  <2>6. active_tasks[m] = Len(q) + Cardinality(Busy(m))
    BY <1>2
  <2> HIDE DEF q, r, n
  <2>7. Len(q) \in Nat /\ Len(r) = Len(q) - (IF m = n THEN 1 ELSE 0)
    BY <2>5, TailForm
  <2>8. active_tasks[m] = Len(r) + Cardinality(Busy(m)')
    BY <1>2, <2>4, <2>6, <2>7
  <2> QED
    BY <2>1, <2>8 DEF r
<1>5. CASE ReleaseSlot(t)
  <2>1. /\ thr[t].pc = "release" /\ Goto(t, "complete") /\ queue' = queue
        /\ active_tasks' = [active_tasks EXCEPT ![n] = @ - 1]
    BY <1>5 DEF ReleaseSlot
  <2>2. \A s \in Threads : thr'[s].pc = IF s = t THEN "complete" ELSE thr[s].pc
    BY <1>0, <2>1, GotoForm DEF ThrPC
  <2>3. Busy(m)' = (IF m = n THEN Busy(m) \ {t} ELSE Busy(m)) /\ (m = n => t \in Busy(m))
    BY <2>1, <2>2 DEF Busy, Holding
  <2>4. Cardinality(Busy(m)') = Cardinality(Busy(m)) - (IF m = n THEN 1 ELSE 0)
    <3>1. m = n => Cardinality(Busy(m) \ {t}) = Cardinality(Busy(m)) - 1
      BY <1>2, <2>3, FS_RemoveElement
    <3>2. CASE m = n
      BY <2>3, <3>1, <3>2
    <3>3. CASE m # n
      BY <1>2, <2>3, <3>3
    <3> QED
      BY <3>2, <3>3
  <2>5. active_tasks'[m] = active_tasks[m] - (IF m = n THEN 1 ELSE 0)
    BY <1>0, <1>1, <2>1 DEF CountOK
  <2>6. Len(queue[m]) \in Nat
    BY <1>0 DEF QueueOK
  <2>7. active_tasks'[m] = Len(queue[m]) + Cardinality(Busy(m)')
    BY <1>2, <2>4, <2>5, <2>6
  <2> QED
    BY <2>1, <2>7
<1>6. CASE LoopTest(t) \/ WakeEmpty(t) \/ RunTask(t) \/ CountSpike(t) \/ LogSpike(t)
           \/ CountCompleted(t)
  <2>1. UNCHANGED <<queue, active_tasks>>
    BY <1>6 DEF LoopTest, WakeEmpty, RunTask, CountSpike, LogSpike, CountCompleted
  <2>2. PICK l \in ThrPC :
          /\ \A s \in Threads : thr'[s].pc = IF s = t THEN l ELSE thr[s].pc
          /\ thr[t].pc \in {"top", "waiting", "exited", "complete"}
             <=> l \in {"top", "waiting", "exited", "complete"}
    <3>1. CASE CountCompleted(t)
      BY <1>0, <3>1 DEF CountCompleted, ThreadOK, ThrPC
    <3>2. CASE LoopTest(t) \/ WakeEmpty(t) \/ RunTask(t) \/ CountSpike(t) \/ LogSpike(t)
      <4>1. \E l \in ThrPC :
              /\ Goto(t, l)
              /\ thr[t].pc \in {"top", "waiting", "exited", "complete"}
                 <=> l \in {"top", "waiting", "exited", "complete"}
        BY <3>2 DEF LoopTest, WakeEmpty, RunTask, CountSpike, LogSpike, ThrPC
      <4> QED
        BY <1>0, <4>1, GotoForm
    <3> QED
      BY <1>6, <3>1, <3>2
  <2>3. Busy(m)' = Busy(m)
    BY <2>2 DEF Busy, Holding
  <2> QED
    BY <1>2, <2>1, <2>3
<1> QED
  BY <1>4, <1>5, <1>6 DEF ThreadStep

\* The history is trimmed in the step that appends to it.
LEMMA SpikeThr ==
  ASSUME Types, SpikeHistoryBounded, TasksConserved, NEW t \in Threads, ThreadStep(t)
  PROVE  SpikeHistoryBounded'
<1>0. ThreadOK /\ CountOK
  BY DEF Types
<1> DEFINE c == Cardinality(Logging)
<1>1. Len(spikes) = IF spike_count - c < SpikeCap THEN spike_count - c ELSE SpikeCap
  BY DEF SpikeHistoryBounded, Logging
<1>2. IsFiniteSet(Logging) /\ c \in Nat
  BY FiniteThreadSets
<1>3. CASE CountSpike(t)
  <2>1. /\ thr[t].pc = "spike" /\ Goto(t, "log")
        /\ spike_count' = spike_count + 1 /\ spikes' = spikes
    BY <1>3 DEF CountSpike
  <2>2. t \notin Logging /\ Logging' = Logging \cup {t}
    BY <1>0, <2>1, GotoForm DEF Logging, ThrPC
  <2>3. Cardinality(Logging') = c + 1
    BY <1>2, <2>2, FS_AddElement
  <2> HIDE DEF c
  <2>4. spike_count' - Cardinality(Logging') = spike_count - c
    BY <1>0, <1>2, <2>1, <2>3 DEF CountOK
  <2> QED
    BY <1>1, <2>1, <2>4 DEF SpikeHistoryBounded, Logging
<1>4. CASE LogSpike(t)
  <2>1. /\ thr[t].pc = "log" /\ Goto(t, "release")
        /\ spikes' = Capped(Append(spikes, thr[t].task)) /\ spike_count' = spike_count
    BY <1>4 DEF LogSpike
  <2>2. t \in Logging /\ Logging' = Logging \ {t}
    BY <1>0, <2>1, GotoForm DEF Logging, ThrPC
  <2>3. Cardinality(Logging') = c - 1
    BY <1>2, <2>2, FS_RemoveElement
  <2>4. thr[t].task \in Task
    BY <2>1, PushedTask DEF Holding
  <2> HIDE DEF c
  <2>5. Len(spikes) \in Nat /\ Len(spikes) <= SpikeCap
    BY <1>0, <1>1, <1>2, BoundsAssumption DEF CountOK
  <2>6. Len(spikes') = IF Len(spikes) < SpikeCap THEN Len(spikes) + 1 ELSE SpikeCap
    BY <1>0, <2>1, <2>4, <2>5, CappedForm DEF CountOK
  <2>7. Len(spikes') = IF spike_count' - Cardinality(Logging') < SpikeCap
                       THEN spike_count' - Cardinality(Logging') ELSE SpikeCap
    BY <1>0, <1>1, <1>2, <2>1, <2>3, <2>5, <2>6, BoundsAssumption DEF CountOK
  <2> QED
    BY <2>7 DEF SpikeHistoryBounded, Logging
<1>5. CASE LoopTest(t) \/ WakeEmpty(t) \/ TakeTask(t) \/ RunTask(t) \/ ReleaseSlot(t)
           \/ CountCompleted(t)
  <2>1. UNCHANGED <<spike_count, spikes>>
    BY <1>5 DEF LoopTest, WakeEmpty, TakeTask, RunTask, ReleaseSlot, CountCompleted
  <2>2. PICK l \in ThrPC :
          /\ \A s \in Threads : thr'[s].pc = IF s = t THEN l ELSE thr[s].pc
          /\ thr[t].pc # "log" /\ l # "log"
    <3>1. CASE CountCompleted(t) \/ TakeTask(t)
      BY <1>0, <3>1 DEF CountCompleted, TakeTask, ThreadOK, ThrPC
    <3>2. CASE LoopTest(t) \/ WakeEmpty(t) \/ RunTask(t) \/ ReleaseSlot(t)
      <4>1. \E l \in ThrPC : Goto(t, l) /\ thr[t].pc # "log" /\ l # "log"
        BY <3>2 DEF LoopTest, WakeEmpty, RunTask, ReleaseSlot, ThrPC
      <4> QED
        BY <1>0, <4>1, GotoForm
    <3> QED
      BY <1>5, <3>1, <3>2
  <2>3. Logging' = Logging
    BY <2>2 DEF Logging
  <2> QED
    BY <1>1, <2>1, <2>3 DEF SpikeHistoryBounded, Logging
<1> QED
  BY <1>3, <1>4, <1>5 DEF ThreadStep

----------------------------------------------------------------------------
(* What wait_all leaves behind *)

Outstanding(w) == {k \in Unexecuted : k[1] = w}
Running        == {thr[t].task : t \in {s \in Threads : thr[s].pc = "run"}}

\* A task that has not run is pushed and not finished.
LEMMA OutstandingForm ==
  ASSUME Ledger
  PROVE  \A w : /\ Outstanding(w) \subseteq Pushed \ finished
                /\ IsFiniteSet(Outstanding(w)) /\ Cardinality(Outstanding(w)) \in Nat
<1>1. Running \subseteq InHand /\ Unexecuted = InQueue \cup Running
  BY DEF Running, InHand, Holding, Unexecuted
<1>2. \A w : Outstanding(w) \subseteq Pushed \ finished
  BY <1>1 DEF Ledger, TasksConserved, Outstanding
<1>3. \A w : IsFiniteSet(Outstanding(w))
  BY <1>2, FS_Subset DEF Ledger
<1> QED
  BY <1>2, <1>3, FS_CardinalityType

\* Fewer outstanding tasks keep the bound.
LEMMA OutstandingShrinks ==
  ASSUME Ledger, NEW w \in Submitters,
         Cardinality(Outstanding(w)) <= Cardinality(Submitters) - 1,
         Outstanding(w)' \subseteq Outstanding(w)
  PROVE  Cardinality(Outstanding(w)') <= Cardinality(Submitters) - 1
<1>1. IsFiniteSet(Outstanding(w)) /\ Cardinality(Outstanding(w)) \in Nat
  BY OutstandingForm
<1>2. /\ Cardinality(Outstanding(w)') <= Cardinality(Outstanding(w))
      /\ IsFiniteSet(Outstanding(w)')
  BY <1>1, FS_Subset
<1>3. Cardinality(Outstanding(w)') \in Nat /\ Cardinality(Submitters) \in Nat
  BY <1>2, SubmittersAssumption, FS_CardinalityType
<1> QED
  BY <1>1, <1>2, <1>3

\* The two counters agree: no more tasks are unfinished than submitters are
\* between their push and their count.
LEMMA UnfinishedBounded ==
  ASSUME Ledger, AllCompleted
  PROVE  /\ IsFiniteSet(Pushed \ finished)
         /\ Cardinality(Pushed \ finished) <= Cardinality(Uncounted)
<1>1. /\ finished \subseteq Pushed /\ IsFiniteSet(Pushed)
      /\ total_completed = Cardinality(finished)
      /\ total_submitted = Cardinality(Pushed) - Cardinality(Uncounted)
      /\ total_completed >= total_submitted
  BY DEF Ledger, TasksConserved, AllCompleted
<1>2. Pushed \cap finished = finished
  BY <1>1
<1>3. /\ IsFiniteSet(Pushed \ finished)
      /\ Cardinality(Pushed \ finished) = Cardinality(Pushed) - Cardinality(finished)
  BY <1>1, <1>2, FS_Difference
<1>4. Cardinality(Pushed) \in Nat /\ Cardinality(finished) \in Nat /\ Cardinality(Uncounted) \in Nat
  BY <1>1, FS_Subset, FS_CardinalityType, FiniteThreadSets
<1> QED
  BY <1>1, <1>3, <1>4

\* wait_all returns when completions have caught up with submissions: the
\* surplus is what others have pushed and not yet counted.
LEMMA EarlySub ==
  ASSUME Types, NextInv, Ledger, EarlyReturnBounded, Types',
         (\E w \in Submitters : SubmitterStep(w)) \/ NextBatch \/ Stop
  PROVE  EarlyReturnBounded'
<1>0. SubOK /\ QueueInv /\ HandInv /\ TasksConserved
  BY DEF Types, Ledger
<1>1. SUFFICES ASSUME NEW u \in Submitters, sub'[u] = "returned"
               PROVE  Cardinality(Outstanding(u)') <= Cardinality(Submitters) - 1
  BY DEF EarlyReturnBounded, Outstanding
<1>2. sub[u] = "returned" => Cardinality(Outstanding(u)) <= Cardinality(Submitters) - 1
  BY DEF EarlyReturnBounded, Outstanding
<1>3. thr' = thr
  BY DEF SubmitterStep, Submit, CountSubmitted, WaitAll, NextBatch, Stop
<1>4. CASE \E w \in Submitters : Submit(w)
  <2>1. PICK w \in Submitters : Submit(w)
    BY <1>4
  <2> DEFINE x == <<w, batch, next[w]>>
  <2>2. InQueue' = InQueue \cup {x}
    BY <1>0, <2>1, SubmitEffect
  <2>3. u # w /\ sub[u] = "returned"
    BY <1>0, <1>1, <2>1 DEF Submit, SubOK
  <2>4. x[1] = w
    OBVIOUS
  <2> HIDE DEF x
  <2>5. Unexecuted' = Unexecuted \cup {x}
    BY <1>3, <2>2 DEF Unexecuted
  <2>6. Outstanding(u)' \subseteq Outstanding(u)
    BY <2>3, <2>4, <2>5 DEF Outstanding
  <2> QED
    BY <1>2, <2>3, <2>6, OutstandingShrinks
<1>5. CASE ~ (\E w \in Submitters : Submit(w))
  <2>1. queue' = queue
    BY <1>5 DEF SubmitterStep, CountSubmitted, WaitAll, NextBatch, Stop
  <2>2. Outstanding(u)' = Outstanding(u)
    BY <1>3, <2>1 DEF Outstanding, Unexecuted, InQueue
  <2>3. CASE sub[u] = "returned"
    BY <1>2, <2>2, <2>3
  <2>4. CASE sub[u] # "returned"
    <3>1. WaitAll(u)
      <4>1. CASE NextBatch \/ Stop
        BY <1>1, <2>4, <4>1 DEF NextBatch, Stop, SubmitFrom
      <4>2. CASE \E w \in Submitters : CountSubmitted(w)
        BY <1>0, <1>1, <2>4, <4>2 DEF CountSubmitted, SubmitFrom, SubOK
      <4>3. CASE \E w \in Submitters : WaitAll(w)
        BY <1>0, <1>1, <2>4, <4>3 DEF WaitAll, SubOK
      <4> QED
        BY <1>5, <4>1, <4>2, <4>3 DEF SubmitterStep
    <3>2. /\ IsFiniteSet(Pushed \ finished)
          /\ Cardinality(Pushed \ finished) <= Cardinality(Uncounted)
      BY <3>1, UnfinishedBounded DEF WaitAll
    <3>3. Uncounted \subseteq Submitters \ {u}
      BY <3>1 DEF WaitAll, Uncounted
    <3>4. /\ IsFiniteSet(Submitters \ {u})
          /\ Cardinality(Submitters \ {u}) = Cardinality(Submitters) - 1
      BY SubmittersAssumption, FS_RemoveElement
    <3>5. Cardinality(Uncounted) <= Cardinality(Submitters \ {u})
      BY <3>3, <3>4, FS_Subset
    <3>6. Outstanding(u) \subseteq Pushed \ finished
      BY OutstandingForm
    <3>7. Cardinality(Outstanding(u)) <= Cardinality(Pushed \ finished)
      BY <3>2, <3>6, FS_Subset
    <3>8. /\ Cardinality(Outstanding(u)) \in Nat /\ Cardinality(Pushed \ finished) \in Nat
          /\ Cardinality(Uncounted) \in Nat /\ Cardinality(Submitters) \in Nat
      BY <3>2, OutstandingForm, FiniteThreadSets, SubmittersAssumption, FS_CardinalityType
    <3>9. Cardinality(Outstanding(u)) <= Cardinality(Submitters) - 1
      BY <3>2, <3>4, <3>5, <3>7, <3>8
    <3> QED
      BY <2>2, <3>9
  <2> QED
    BY <2>3, <2>4
<1> QED
  BY <1>4, <1>5

\* A pool thread only lowers what is outstanding.
LEMMA EarlyThr ==
  ASSUME Types, Ledger, EarlyReturnBounded, Types', NEW t \in Threads, ThreadStep(t)
  PROVE  EarlyReturnBounded'
<1>0. ThreadOK /\ QueueInv /\ HandInv /\ TasksConserved
  BY DEF Types, Ledger
<1>1. SUFFICES ASSUME NEW u \in Submitters, sub'[u] = "returned"
               PROVE  Cardinality(Outstanding(u)') <= Cardinality(Submitters) - 1
  BY DEF EarlyReturnBounded, Outstanding
<1>2. sub' = sub
  BY DEF ThreadStep, LoopTest, WakeEmpty, TakeTask, RunTask, CountSpike, LogSpike,
         ReleaseSlot, CountCompleted
<1>3. Cardinality(Outstanding(u)) <= Cardinality(Submitters) - 1
  BY <1>1, <1>2 DEF EarlyReturnBounded, Outstanding
<1>4. Unexecuted = InQueue \cup Running /\ Unexecuted' = InQueue' \cup Running'
  BY DEF Unexecuted, Running
<1>5. CASE TakeTask(t)
  <2> DEFINE x == Head(queue[NodeOf(t)])
  <2>1. x \in InQueue /\ InQueue' = InQueue \ {x}
    BY <1>0, <1>5, TakeEffect
  <2>2. thr' = [thr EXCEPT ![t] = [pc |-> "run", task |-> x]] /\ thr[t].pc = "waiting"
    BY <1>5 DEF TakeTask
  <2> HIDE DEF x
  <2>3. \A s \in Threads : /\ thr'[s].pc = IF s = t THEN "run" ELSE thr[s].pc
                           /\ thr'[s].task = IF s = t THEN x ELSE thr[s].task
    BY <1>0, <2>2 DEF ThreadOK
  <2>4. Running' \subseteq Running \cup {x}
    BY <2>3 DEF Running
  <2>5. Outstanding(u)' \subseteq Outstanding(u)
    BY <1>4, <2>1, <2>4 DEF Outstanding
  <2> QED
    BY <1>3, <2>5, OutstandingShrinks
<1>6. CASE ~ TakeTask(t)
  <2>1. queue' = queue
    BY <1>6 DEF ThreadStep, LoopTest, WakeEmpty, RunTask, CountSpike, LogSpike,
                ReleaseSlot, CountCompleted
  <2>2. \A s \in Threads : thr'[s].pc = "run" => thr[s].pc = "run" /\ thr'[s].task = thr[s].task
    <3>1. CASE CountCompleted(t)
      BY <1>0, <3>1 DEF CountCompleted, ThreadOK
    <3>2. CASE ~ CountCompleted(t)
      <4>1. \E l \in ThrPC : Goto(t, l) /\ l # "run"
        BY <1>6, <3>2 DEF ThreadStep, LoopTest, WakeEmpty, RunTask, CountSpike, LogSpike,
                          ReleaseSlot, ThrPC
      <4> QED
        BY <1>0, <4>1, GotoForm
    <3> QED
      BY <3>1, <3>2
  <2>3. Running' \subseteq Running /\ InQueue' = InQueue
    BY <2>1, <2>2 DEF Running, InQueue
  <2>4. Outstanding(u)' \subseteq Outstanding(u)
    BY <1>4, <2>3 DEF Outstanding
  <2> QED
    BY <1>3, <2>4, OutstandingShrinks
<1> QED
  BY <1>5, <1>6

\* The last submitter to return sees the counters agree with nobody in
\* mid-submit, so nothing is left.
LEMMA BackSub ==
  ASSUME Types, NextInv, Ledger, BackInv, Types',
         (\E w \in Submitters : SubmitterStep(w)) \/ NextBatch \/ Stop
  PROVE  BackInv'
<1>0. SubOK
  BY DEF Types
<1>1. CASE \E w \in Submitters : Submit(w) \/ CountSubmitted(w)
  <2>1. PICK w \in Submitters : Submit(w) \/ CountSubmitted(w)
    BY <1>1
  <2>2. sub[w] # "returned" /\ sub'[w] # "returned" /\ running' = running
    BY <1>0, <2>1 DEF Submit, CountSubmitted, SubOK, SubmitFrom
  <2> QED
    BY <2>2 DEF BackInv
<1>2. CASE \E w \in Submitters : WaitAll(w)
  <2>1. PICK w \in Submitters : WaitAll(w)
    BY <1>2
  <2>2. Pushed' = Pushed /\ UNCHANGED <<finished, running>> /\ sub[w] = "wait" /\ AllCompleted
    BY <2>1, PushedKept DEF WaitAll
  <2>3. \A u \in Submitters : u # w => sub'[u] = sub[u]
    BY <1>0, <2>1 DEF WaitAll, SubOK
  <2>4. ASSUME \A u \in Submitters : sub'[u] = "returned" PROVE Pushed' = finished'
    <3>1. Uncounted = {}
      BY <2>2, <2>3, <2>4 DEF Uncounted
    <3>2. /\ IsFiniteSet(Pushed \ finished)
          /\ Cardinality(Pushed \ finished) <= 0
      BY <2>2, <3>1, UnfinishedBounded, FS_EmptySet
    <3>3. Cardinality(Pushed \ finished) = 0
      BY <3>2, FS_CardinalityType
    <3>4. Pushed \ finished = {}
      BY <3>2, <3>3, FS_EmptySet
    <3>5. finished \subseteq Pushed
      BY DEF Ledger, TasksConserved
    <3> QED
      BY <2>2, <3>4, <3>5
  <2>5. running'
    BY <2>1, <2>2 DEF BackInv
  <2> QED
    BY <2>4, <2>5 DEF BackInv
<1>3. CASE NextBatch
  <2>1. PICK w \in Submitters : TRUE
    BY SubmittersAssumption
  <2>2. sub'[w] # "returned" /\ batch < MaxBatches /\ running' = running
    BY <1>3, <2>1 DEF NextBatch, SubmitFrom
  <2>3. running
    BY <1>0, <2>2 DEF BackInv, SubOK
  <2> QED
    BY <2>2, <2>3 DEF BackInv
<1>4. CASE Stop
  <2>1. /\ batch = MaxBatches /\ \A w \in Submitters : sub[w] = "returned"
        /\ UNCHANGED <<batch, next, sub, finished>>
    BY <1>4 DEF Stop
  <2>2. Pushed' = Pushed
    BY <2>1 DEF Pushed
  <2> QED
    BY <2>1, <2>2 DEF BackInv
<1> QED
  BY <1>1, <1>2, <1>3, <1>4 DEF SubmitterStep

\* Once all submitters are back no pool thread has a task to finish.
LEMMA BackThr ==
  ASSUME Types, Ledger, BackInv, NEW t \in Threads, ThreadStep(t)
  PROVE  BackInv'
<1>1. UNCHANGED <<running, batch, next, sub>>
  BY DEF ThreadStep, LoopTest, WakeEmpty, TakeTask, RunTask, CountSpike, LogSpike,
         ReleaseSlot, CountCompleted
<1>2. Pushed' = Pushed
  BY <1>1 DEF Pushed
<1>3. finished \subseteq finished' /\ finished' \subseteq Pushed
  <2>1. CASE CountCompleted(t)
    <3>1. thr[t].task \in InHand
      BY <2>1 DEF CountCompleted, InHand, Holding
    <3> QED
      BY <2>1, <3>1 DEF CountCompleted, Ledger, TasksConserved
  <2>2. CASE ~ CountCompleted(t)
    <3>1. finished' = finished
      BY <2>2 DEF ThreadStep, LoopTest, WakeEmpty, TakeTask, RunTask, CountSpike, LogSpike,
                  ReleaseSlot
    <3> QED
      BY <3>1 DEF Ledger, TasksConserved
  <2> QED
    BY <2>1, <2>2
<1>4. (\A w \in Submitters : sub[w] = "returned") => Pushed' = finished'
  BY <1>2, <1>3 DEF BackInv
<1> QED
  BY <1>1, <1>4 DEF BackInv

----------------------------------------------------------------------------
(* The theorems *)

\* An empty pool.
LEMMA InitInv == Init => IInv
<1> SUFFICES ASSUME Init PROVE IInv
  OBVIOUS
<1>1. \A w \in Submitters :
        /\ SubmitFrom(w, 1) \in {"submit", "wait"}
        /\ SubmitFrom(w, 1) = "submit" => 1 <= Size(w)
        /\ SubmitFrom(w, 1) = "wait" => 1 = Size(w) + 1
  BY SubmitFromForm, SizeNat
<1>2. SubOK /\ NextInv
  BY <1>1, BoundsAssumption DEF Init, SubOK, SubPC, NextInv
<1>3. <<>> \in Seq(Task)
  BY EmptySeq
<1>4. QueueOK /\ CountOK
  BY <1>3 DEF Init, QueueOK, CountOK
<1>5. ThreadOK
  BY DEF Init, ThreadOK, ThrPC
<1>6. Pushed = {}
  <2>1. \A k : ~ IsPushed(k, batch, next, sub)
    BY <1>1 DEF Init, IsPushed
  <2> QED
    BY <2>1, PushedForm
<1>7. \A t \in Threads : thr[t].pc = "top"
  BY DEF Init
<1>8. Holding = {} /\ InHand = {} /\ Logging = {} /\ (\A n : Busy(n) = {}) /\ Running = {}
  BY <1>7 DEF Holding, InHand, Logging, Busy, Running
<1>9. Uncounted = {}
  BY <1>1 DEF Init, Uncounted
<1>10. \A k, n, i : n \in Nodes => ~ Cell(queue, k, n, i)
  BY DEF Init, Cell
<1>11. InQueue = {}
  BY <1>4, <1>10, InQueueForm
<1>12. QueueInv /\ HandInv
  BY <1>8, <1>10 DEF QueueInv, HandInv
<1>13. TasksConserved /\ IsFiniteSet(Pushed)
  BY <1>6, <1>8, <1>9, <1>11, FS_EmptySet DEF Init, TasksConserved
<1>14. LoadAccurate
  <2>1. \A n \in Nodes : active_tasks[n] = 0 /\ Len(queue[n]) = 0
    BY DEF Init
  <2>2. \A n : Cardinality(Busy(n)) = 0
    BY <1>8, FS_EmptySet
  <2>3. \A n \in Nodes : active_tasks[n] = Len(queue[n]) + Cardinality(Busy(n))
    BY <2>1, <2>2
  <2> QED
    BY <2>3 DEF LoadAccurate, Busy
<1>15. SpikeHistoryBounded
  <2>1. Cardinality(Logging) = 0
    BY <1>8, FS_EmptySet
  <2> QED
    BY <2>1, BoundsAssumption DEF Init, SpikeHistoryBounded, Logging
<1>16. \A w \in Submitters : sub[w] # "returned"
  BY <1>1 DEF Init
<1>17. EarlyReturnBounded /\ BackInv
  BY <1>16, SubmittersAssumption DEF Init, EarlyReturnBounded, BackInv
<1> QED
  BY <1>2, <1>4, <1>5, <1>12, <1>13, <1>14, <1>15, <1>17 DEF IInv, Types

\* The invariant is inductive.
LEMMA StepInv == IInv /\ [Next]_vars => IInv'
<1> SUFFICES ASSUME IInv, [Next]_vars PROVE IInv'
  OBVIOUS
<1>0. /\ Types /\ NextInv /\ Ledger /\ QueueInv /\ HandInv /\ TasksConserved
      /\ LoadAccurate /\ SpikeHistoryBounded /\ EarlyReturnBounded /\ BackInv
  BY DEF IInv, Ledger
<1>1. CASE (\E w \in Submitters : SubmitterStep(w)) \/ NextBatch \/ Stop
  <2>1. Types' /\ NextInv'
    BY <1>0, <1>1, SubTypes
  <2>2. Ledger' /\ LoadAccurate'
    BY <1>0, <1>1, <2>1, LedgerSub, LoadSub
  <2>3. EarlyReturnBounded' /\ BackInv'
    BY <1>0, <1>1, <2>1, EarlySub, BackSub
  <2>4. UNCHANGED <<thr, spike_count, spikes>>
    BY <1>1 DEF SubmitterStep, Submit, CountSubmitted, WaitAll, NextBatch, Stop
  <2>5. SpikeHistoryBounded'
    BY <1>0, <2>4 DEF SpikeHistoryBounded
  <2> QED
    BY <2>1, <2>2, <2>3, <2>5 DEF IInv, Ledger
<1>2. CASE \E t \in Threads : ThreadStep(t)
  <2>1. PICK t \in Threads : ThreadStep(t)
    BY <1>2
  <2>2. Types' /\ NextInv'
    BY <1>0, <2>1, ThrTypes
  <2>3. Ledger' /\ LoadAccurate'
    BY <1>0, <2>1, <2>2, LedgerThr, LoadThr
  <2>4. EarlyReturnBounded' /\ BackInv' /\ SpikeHistoryBounded'
    BY <1>0, <2>1, <2>2, EarlyThr, BackThr, SpikeThr
  <2> QED
    BY <2>2, <2>3, <2>4 DEF IInv, Ledger
<1>3. CASE Done \/ UNCHANGED vars
  <2>1. UNCHANGED vars
    BY <1>3 DEF Done
  <2>2. Types' /\ NextInv'
    BY <1>0, <2>1 DEF vars, Types, QueueOK, ThreadOK, SubOK, CountOK, NextInv
  <2>3. /\ UNCHANGED <<Pushed, Uncounted, InQueue, Holding, InHand, Unexecuted, total_submitted,
                       total_completed, finished>>
        /\ QueueInv' /\ LoadAccurate' /\ SpikeHistoryBounded' /\ HandInv'
    BY <1>0, <2>1 DEF vars, Pushed, Uncounted, InQueue, Holding, InHand, Unexecuted,
                      QueueInv, LoadAccurate, SpikeHistoryBounded, HandInv
  <2>4. IsFiniteSet(Pushed)' /\ TasksConserved'
    BY <1>0, <2>3 DEF Ledger, TasksConserved
  <2>5. EarlyReturnBounded' /\ BackInv'
    BY <1>0, <2>1, <2>3 DEF vars, EarlyReturnBounded, BackInv
  <2> QED
    BY <2>2, <2>3, <2>4, <2>5 DEF IInv
<1> QED
  BY <1>1, <1>2, <1>3 DEF Next

\* The inductive invariant holds in every reachable state.
THEOREM Invariance == Spec => []IInv
BY InitInv, StepInv, PTL DEF Spec

\* The scheduler's variables keep their types; in particular active_tasks, which
\* submit() raises and worker_thread() lowers without a test, never wraps below zero.
THEOREM TypeCorrect == Spec => []TypeOK
<1>1. IInv => TypeOK
  BY DEF IInv, Types, QueueOK, ThreadOK, SubOK, CountOK, TypeOK
<1> QED
  BY <1>1, Invariance, PTL

\* Every task submitted is in exactly one queue position, in exactly one thread's
\* hand or finished, and the two counters wait_all() compares are exact up to the
\* submitters between push and increment.
THEOREM Conservation == Spec => []TasksConserved
<1>1. IInv => TasksConserved
  BY DEF IInv
<1> QED
  BY <1>1, Invariance, PTL

\* active_tasks of every node is the node's real load.
THEOREM LoadExact == Spec => []LoadAccurate
<1>1. IInv => LoadAccurate
  BY DEF IInv
<1> QED
  BY <1>1, Invariance, PTL

\* The latency history holds the last spikes logged, as many as fit.
THEOREM SpikesBounded == Spec => []SpikeHistoryBounded
<1>1. IInv => SpikeHistoryBounded
  BY DEF IInv
<1> QED
  BY <1>1, Invariance, PTL

\* However many workers share the pool, wait_all() returns with at most one task
\* of the caller outstanding per other worker.
THEOREM EarlyReturn == Spec => []EarlyReturnBounded
<1>1. IInv => EarlyReturnBounded
  BY DEF IInv
<1> QED
  BY <1>1, Invariance, PTL

\* stop() drops nothing, although it drains nothing: all workers are back from
\* wait_all(), and then every task is finished.
THEOREM StopSafe == Spec => []NothingDropped
<1>1. IInv => NothingDropped
  <2> SUFFICES ASSUME IInv, Joined PROVE InQueue = {}
    BY DEF NothingDropped
  <2>1. Pushed = finished
    BY DEF IInv, BackInv, Joined
  <2> QED
    BY <2>1 DEF IInv, TasksConserved
<1> QED
  BY <1>1, Invariance, PTL
============================================================================

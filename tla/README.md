# Verification of the Pregel engine in TLA+

Specifications of the engine in `src/`: a single-process simulation of a Pregel
(bulk synchronous) graph engine, with worker threads, a shared task pool, a
simulated RDMA transport, an atomic barrier and a phi-accrual failure detector,
and the order-book simulation that runs on it. TLC checks the modules on small
instances; TLAPS proves every safety property that a passing run checks, and the
refinements of the two abstract specifications, for every value of the constants.

## 1. Inventory

| Part | State | Operations | Interacts with |
|---|---|---|---|
| **Coordinator** (`coordinator.cpp`) | superstep, done | superstep loop, convergence test, heartbeats, fault injection, choice of a new owner | starts and joins one thread per worker; owns the detector, whose failure callback it implements |
| **WorkerNode** (`worker_node.cpp`) | vertices, `vertex_inbox_`, statistics | `run_superstep`: drain, dispatch, submit, wait, collect, flush, barrier, count | its MessageBus, the shared NumaScheduler |
| **MessageBus, PartitionMap** (`message_bus.*`) | `outboxes_`, `inbox_`, static barrier counter and epoch, overrides | `enqueue_batch`, `flush`, `drain_inbox`, `barrier_sync`, `owner_of` | RdmaTransport for remote messages |
| **RdmaTransport, QueuePair** (`rdma_transport.*`) | `in_flight_`, `inbox_`, `cq_`, `pending_wr_` | `send`, `drain_received`, `poll_cq`, `flush`, network thread, destructor | one network thread per queue pair |
| **NumaScheduler** (`numa_scheduler.*`) | queues, loads, two counters, spike history | `submit`, `wait_all`, pool threads, `stop` | shared by all workers |
| **HeartbeatDetector** (`heartbeat.*`) | a record per worker (last seen, state, interval window) | `receive_heartbeat`, `inject_failure`, monitor thread | driven by the coordinator, calls it back |
| **Vertex** (`vertex.hpp`) | halted flag, edges, outbox | `compute`, `vote_to_halt`, `wake_up`, `send_message` | runs as a pool task |
| **Order-book vertices** (`order_book_graph.*`) | quotes of a venue; quantity and order count of a level; last price seen and idle time of an order; position and last quote of a market maker | four `compute` methods, graph builder | the application on top of the engine |
| **GraphEngine** (`graph_engine.cpp`) | none of its own | wiring, graph loading, `run` and the `benchmark` loop | all of the above |
| `main`, scripts | none | argument parsing, printing | |

What is hard to test in it: the two counters that all workers' `wait_all` share;
the barrier's static counters, left over for the next engine, and its epoch's wrap;
an outbox counted, copied and cleared while a task may still write it; the
counter of pending writes that is raised after the write is visible; heartbeats
racing the monitor; the end of the run with messages on their way; orders that
repeat unacknowledged offers, act on quotes two supersteps old and halt, only to
be woken again; market makers whose knowledge depends on the order of an inbox.
`PROJECT.json` lists these under `hazards`, at their lines.

What makes each part correct:

* barrier: nobody passes early, everybody passes, the counter is reset;
* pool: each task runs once, `wait_all` waits for the caller's tasks, `stop`
  drops nothing;
* superstep: every vertex computes once on exactly the messages of the previous
  superstep, and tasks do not outlive their superstep;
* transport: writes arrive once and in order, `flush` means delivered;
* detector: the window is the recent past, suspicion needs lateness and lasts
  until a heartbeat;
* coordinator: the run ends, and only when there is nothing left to do;
* order book: a level's quantity follows from its fills, quotes travel in a fixed
  time, nobody is forgotten, and the programs keep to the Pregel model.

## 2. Modules

| Module | Models | State and actions |
|---|---|---|
| `BspBarrier` | what a reusable barrier promises | counts of arrivals and departures |
| `BarrierSync` | `MessageBus::barrier_sync` | the two atomics, each worker's position and local epoch; one action per atomic operation |
| `NumaScheduler`, `MCNumaScheduler` | the scheduler and its callers | push, count, wait, and a pool thread from loop test to completion count |
| `PregelBSP` | the promise to the author of a vertex program | mail, sent messages, votes |
| `Superstep`, `MCSuperstep` | `run_superstep`, MessageBus, the loops of `Coordinator::run` and `GraphEngine::benchmark` | every place a message can be in; one action per step of a worker, of the pool, the network and the coordinator |
| `RdmaTransport` | transport and queue pairs | queues as sequences of `wr_id`s; steps of the client and of the network threads |
| `Heartbeat` | the detector as the coordinator drives it | time in monitor periods, records, the monitor thread from its loop test to its join, the injection |
| `OrderBookGraph` | `build_order_book_graph` | no state: ids, edges, prices and quantities in closed form |
| `OrderBook`, `MCOrderBook` | the four `compute` methods | the members of the vertices and the messages; a `Receive` action per turn of each inbox loop and a `Return` action for what follows it |
| `BarrierSyncProofs`, `NumaSchedulerProofs`, `SuperstepProofs`, `RdmaTransportProofs`, `HeartbeatProofs`, `OrderBookProofs` | theorems about the module each is named after | inductive invariants |
| `SuperstepPregel` | the refinement of `PregelBSP` by `Superstep` with one worker | extends `SuperstepProofs` |
| `OrderBookPregel` | the refinement of `PregelBSP` by `OrderBook`, and what mail each superstep has | extends `OrderBookProofs` |

`Superstep` composes the parts: it instantiates `BspBarrier` (implemented by
`BarrierSync`), uses the scheduler's push-then-count submission and its
`wait_all` test as they are in `NumaScheduler`, and has the messages of the
queue pairs as sets, without the order that `RdmaTransport` adds.

`OrderBook` runs on the Pregel model, which `Superstep` implements with one worker
(`engine_one`), and is itself shown to implement `PregelBSP`: its programs are
among the arbitrary ones `Superstep` was checked with. With several workers the
messages between workers do not arrive (`engine_loopback`), so `OrderBook`
describes the graph on one worker.

Abstractions worth knowing:

* A message is its source, destination and superstep; a vertex program sends at
  most one message per edge and superstep. Payloads matter to no property.
* `compute()` is any program: it sends to any subset of the edges, a message a
  step (`SendMessage`), and halts or not. `collect_and_route_outbox` counts an
  outbox, copies it and clears it in three steps. If it did not wait for
  `compute()`, a message may come before, between or after them: it is then
  collected, collected uncounted, lost, or left for the next superstep. The
  race is on a `std::vector` without a lock; what it can do beyond that to the
  vector itself (a reallocation under the reader, a `clear()` undone by a push
  that was half done, a corrupted heap) is not modelled.
* `wait_all` reads its two counters in one step. Both only grow, so the loop can
  exit exactly when one comparison at the second read could.
* Condition variables have timeouts throughout, so a notification carries no
  state; `sleep` and `yield` loops are enabled when their condition is.
* `phi` is compared with 8 and 4 through the squares of the corresponding normal
  quantiles, in integers. The `1e-9` in sigma matters only when all intervals
  are equal, where every positive excess exceeds both thresholds.
* Statistics are kept where a property uses them (`messages_sent`,
  `messages_received`, `bytes_sent`, `spike_count`); throughput, printing and
  the unread total of the coordinator are left out.

* In `OrderBook` vertices compute one after another in the order of their ids:
  they share nothing within a superstep, so the order has no effect. The order of
  an inbox does, and is arbitrary. What the builder draws at random is a constant
  of the graph, and a venue's noise any member of a set. Prices are integers
  without a width, and may fall below zero as in the code; halving a sum of two
  prices goes towards zero (`Half`). A level that a market maker draws twice has
  one edge.

The modules have a section of faulty variants of its definitions, one plausible
slip each (a missing reset, an off-by-one, a swapped order). Putting a variant
in the place of its definition must violate the property `PROJECT.json` pairs it
with, which shows that the property depends on that code.

## 3. Runs

| Run | Shows | Bounds |
|---|---|---|
| `barrier` | no early pass, counter reset, inductive invariant, refinement of `BspBarrier`; all workers get through all rounds | 4 workers, 4 rounds, epoch modulo 2, so that it wraps twice |
| `pool_shared` | tasks conserved, counters and load exact, history capped, early returns of `wait_all` bounded; every `wait_all` returns, `stop` joins and drops nothing | 2 workers, 2 NUMA nodes with a thread each, 2 supersteps, 3 tasks in each |
| `engine_two` | the benchmark loop: tasks end with their superstep, flushed messages accounted for and none counted that the bus does not get, local messages never early and at most one superstep late, mail wakes vertices; no deadlock | 2 workers, 3 vertices, 4 supersteps, 2 messages |
| `engine_one` | with one worker the engine implements `PregelBSP` and every run ends | 1 worker, 3 vertices, 3 supersteps, 3 messages |
| `rdma` | exactly once and in order, completions after delivery, pending counter exact, `flush` complete; writes are delivered, `flush` returns | 2 queue pairs, 3 writes, counter modulo 4 so that it wraps below zero |
| `heartbeat` | rolling window, no early suspicion, suspicion monotone | 3 workers, 3 supersteps, each up to one period beyond the timeout; an interval of 2 periods and a timeout of 5 |
| `orderbook` | levels account for their fills, quotes are two supersteps old when orders use them, everybody is woken in each superstep, the idle count is exact and decides when an order halts, refinement of `PregelBSP` | 2 venues, a level and an order on each side, 1 market maker, 6 supersteps, idle limit 2, a walk of -3 or +4 at a tick of 2 |

A late message needs three supersteps: sent in 0, collected in 1, received in 2. The
fourth is what lets `LocalDelay` fail: a message that missed two collections would
be received in 3. Two workers are enough for the scheduler race, since it takes one
worker between push and count and one in `wait_all`. Three heartbeats give two
measured intervals, enough to roll a window of 3 that starts with 2 seeds. With an
interval of 2 periods and a timeout of 5 a worker is `SUSPECTED` before it is
`FAILED` (the window 2, 2, 1 crosses phi = 4 at 4 periods and phi = 8 at 5) and,
with an irregular window (2, 2, 0), `FAILED` by the timeout alone at 6. Six
supersteps let an order see a quote (2), offer, and stay idle beyond its limit, and
let a level of three units take two fills of two; the walk crosses a limit in both
directions and takes the bid of one venue above the ask of the other. `TypeOK` of
`Superstep` is checked in `engine_two` only, where there are more places for
messages.

Five more runs check what a comment or the README states and are expected to be
violated by what the code does:

| Run | Statement | What happens |
|---|---|---|
| `engine_late` | README: every vertex receives the messages of the prior superstep | one worker has pushed and not yet counted a task that has already finished, so `wait_all` of another returns too early and looks at an outbox before `compute()` has sent; the message is collected a superstep later and received two supersteps after it was sent, on the same worker |
| `engine_loopback` | README: every vertex receives the messages of the prior superstep | a queue pair delivers into its own inbox, which its own worker drains: remote messages return to their sender |
| `engine_converged` | `coordinator.cpp:91`: "no messages in flight" | a vertex sends and halts; the run converges with its message in the inbox |
| `heartbeat_inject` | README: `--fault` "kills worker 1 at ~500ms" | the next superstep's heartbeat comes before the monitor's check and erases the injection |
| `orderbook_arbitrage` | README: a bid above another venue's ask is signalled | each quote overwrites both prices a market maker remembers, so it compares the two sides of one quote; crossed venues go unnoticed |

The loopback has a consequence for `engine_two`: no message ever crosses from
one worker to another, so its delivery properties are about messages within a
worker. That is what the code does; the properties about the barrier and the
pool do not depend on it.

`InjectionDetected` does not ask for a check the program never makes: a run that is
over, with the monitor joined, before another check is excused. `monitor_loop` tests
`running_` before it sleeps, so one check may still follow `stop()`; `LoopTest`,
`Tick`, `Check` and `Finish` have that order.

The models also differ from what the documents say where the code plainly does:

* without RDMA, "pure in-process delivery" (`README.md:128`), `flush` has no branch
  for the messages of other workers and discards them after counting them; they are
  `dropped` in `Superstep`, and a term of `SentAccounted`;
* the detector is "not fixed timeout" (`README.md:141`) and marks a worker `FAILED`
  "when phi exceeds a threshold" (`heartbeat.hpp:89`), but `check_worker` has a fixed
  timeout beside phi, and with an irregular window it is what decides; see `Verdict`;
* orders "inactive for 10 supersteps" halt (`README.md:112`); the test is `> 10`, so
  it is the eleventh; see `TooIdle`. `HaltedIffIdle` is about the count and its
  effect, and holds wherever the line is drawn.

The order book differs from the README's account of it in more than that. Fills go
from orders to their level only, so positions stay at zero and no order is ever
filled, cancelled or acknowledged (`OrderBookProofs!Invariance`); a marketable order
offers its whole quantity again in every superstep. An order that has halted is
woken by the next quote (`AllWoken`). Venues never halt, so the shipped graph never
converges.

**Fairness.** Liveness assumes weak fairness of each worker's thread, of the pool
threads, the coordinator and the network threads: they are operating-system
threads that are never blocked for ever, and `compute()` returns. Time is
assumed to pass (`BecomeDue`, `Tick`). `RunEnds` assumes nothing of the
network. The client of the transport need not start anything, only finish what it
started.

**Deadlock** is checked in every run; each module has a `Done` step for the state
in which its part of the program has ended.

## 4. Proofs

Every invariant, action property and refinement of the passing runs is a theorem,
under the assumptions the modules state on their constants. In each module the
inductive invariant is a conjunction of named parts, there is a lemma per action
or kind of step, and the theorems at the end follow from `Invariance`. The
assumptions only say what the program's types and construction give: non-empty sets
of workers, threads and peers, positive sizes, and the shape of the builder's graph.

**`BarrierSyncProofs`**: for any finite non-empty set of workers, any number of
rounds and any epoch width of at least one bit, `Invariance`, `TypeCorrect`,
`BarrierSafety`, `CounterReset` and `Refinement` of `BspBarrier`. `BarrierHolds` is
not inductive: from a state in which the counter is too high a worker would release
the others early. `IInv` adds what ties the counter and the epoch to the workers.
With R the number of epoch changes so far, `RoundInv` says where a worker's counts
stand relative to R for each position in the function, and that a spinner either
belongs to the current round, with the current epoch, or to the one just released,
with an older one; `CounterInv` says that the counter is the number of workers that
have arrived in the current round, except between the last arrival's store and its
epoch change, and that at most one worker is in that window. That a spinner can be
at most one round behind is why a two-valued epoch is enough and why its wrap is
harmless.

**`NumaSchedulerProofs`**: for any number of submitters, nodes, threads, tasks and
batches, `Conservation`, `LoadExact`, `SpikesBounded`, `EarlyReturn` and `StopSafe`
(`NothingDropped`). `TasksConserved` needs that no task is in two queue positions
(`QueueInv`) or in two threads' hands (`HandInv`): only then does taking one change
the counts by one. `EarlyReturnBounded` follows from it by counting. At the moment
`wait_all` sees the counters equal, the tasks pushed and not finished are at most as
many as the submitters between push and count (`UnfinishedBounded`), and the caller
is not one of those. `BackInv` carries this to `stop`: when the last submitter is
back there is nobody left in that window, so everything pushed is finished.

**`SuperstepProofs`**: for any number of workers, any graph, vertex program and
number of supersteps, both loops, with and without RDMA: `TypeCorrect`,
`Quiescence`, `Accounting`, `DelayBounded` and `MailTaken`. The parts of `IInv`:

* `CrossInv`: arrivals and passes are the superstep number, plus one past the
  barrier; nobody is past it before all have arrived;
* `TaskInv`, `CountInv`, `QuietInv`: tasks are pushed, run and counted once, the
  counters differ by what is under way, and when all workers are back from
  `wait_all` nothing is. So a `wait_all` that returns early is caught by the
  barrier, which is `BarrierQuiesces`;
* `TurnInv`, `DrainedInv`: whoever has no task has computed or is halted, and mail
  is mail of vertices with a task;
* `OutboxInv`, `BusInv`: how old a message in each place can be, from which
  `LocalDelay` follows;
* `ApartInv`, `FreshInv`, `SendInv`: each message is in one place, or has yet to be
  sent by a task under way, which makes `SentAccounted` a sum of cardinalities of
  disjoint sets;
* `AheadInv`: between count and copy an outbox only grows, so what is copied is at
  least what was counted. Equality would be false: `compute()` may push in between.

**`SuperstepPregel`**: `OneWorkerPregel`, that with one worker the engine implements
`PregelBSP`. `OneInv` adds that whoever has a task is awake, and that all that is in
an outbox, copied or flushed is of this superstep: with one worker nobody else is
between push and count, so the outbox race does not happen and no message is late.
The hypothesis is needed: `engine_loopback` is the counterexample with two.

**`RdmaTransportProofs`**: for any set of peers, any number of writes and any
counter width that can hold them, `OrderedDelivery`, `OrderedCompletion`,
`CounterExact` and `FlushSafety`. `IInv` is the conjunction of the properties with
`HandInv` (the network thread holds one write from `pop` to `fetch_sub`), `CountInv`
(what is in flight has been posted) and `SentInv` (a write is posted and not yet
counted exactly in `Send`'s second step). `CounterSteps` is the modular arithmetic:
the counter passes below zero when the network thread is done with a write before
the client has counted it, and comes back. `FlushComplete` holds because the client
that flushes is the one that would be counting.

**`HeartbeatProofs`**: for any number of workers, interval, timeout, window and
superstep lengths, `TypeCorrect`, `WindowContents`, `SuspicionJustified` and the
action property `VerdictsMonotone` (`SuspicionMonotone`), which needs `SuspicionInv`:
whoever is suspected is so by its present window and silence. `RolledLatest` says that
pushing an interval and popping the oldest keeps the latest ones; `SilenceGrows`
that the test for a suspicion stays true as the silence gets longer. The sum of the
window is a recursive function, whose type (`SumOfType`) needs induction on the
length: `SetInduction` states it for a set of numbers in place of a predicate,
proved from `LeastNat`, the least element of a set.

**`OrderBookProofs`**: for every graph whose edges run between the kinds of vertices
the builder connects (`EdgeAssumption`), and for all prices, quantities, limits and
noise, `TypeCorrect` (no unsigned quantity goes below zero) and `LevelsBalance`.
Neither is inductive, since each depends on what is in the inboxes. `Inv` adds
`MessageInv`: only price updates, fills and signals are ever on their way, fills only
to levels and signals only to levels and venues.
From it follows that orders receive quotes only, hence are never filled (`OrderOK`),
hence offer a natural quantity, which closes the circle.

**`OrderBookPregel`**: `PregelRefinement`, and on graphs in which every level is on
one venue and every order on one level, as the builder makes them
(`LinkAssumption`), with an idle limit of at least one (the code's is 10):
`EveryoneWoken`, `IdleExact` and `QuotesTimely`. The refinement needs `TaskInv` (whoever
has no task is halted without mail) and `OutboxInv` (an outbox is of the vertex whose
turn it is, and along its edges). The three others are about the end of a superstep;
`BookInv` says what holds in its middle:

* `WakeInv`: a venue that has computed has mail under way to all its targets, a
  level that has computed to all its orders, and one that has yet to compute has
  its mail. Venues never halt, so this goes on for ever;
* `IdleInv`: an order computes in every superstep, awake until its limit, which is
  not reached before the first quote is there, and woken by mail from then on. So
  counting the supersteps in which it computes counts them all;
* `LengthInv`, `MailInv`, `SentInv`, `BestInv`: with `Quote(v, k)` the quote v made k
  supersteps ago, an update for a level is `Quote(v, 1)` of its venue, one for an
  order `Quote(v, 2)`, and an order that has gone through its mail knows the latter.
  `QuotesKept` is the fact all steps within a superstep share.

The four programs' steps are reduced to three forms, `Loop`, `Quoting` and `Plain`
(`StepForm`), before these are proved.

Only model-checked: the liveness properties `AllRoundsPass`, `PoolTerminates`,
`RunEnds`, `WritesDelivered` and `FlushReturns`, since fairness and `ENABLED` are out
of the prover's reach. The five statements the code violates have counterexamples
and no proof.

## 5. Not modelled

* `absorb_partition`, `PartitionMap::migrate`, `migrate_vertex`,
  `least_loaded_node`, `RdmaBuffer`: nothing calls or uses them.
* `handle_worker_failure` chooses a worker and `redistribute_partition` prints the
  choice; neither changes anything. (The choice is made without asking the
  detector, so it may fall on a worker that has failed too.)
* Names, latencies, trader ids, trade ids and edge weights of the order book, which
  nothing reads.
* What the detached injection thread does after the coordinator is gone.
* Printing, statistics that nobody reads, argument parsing, build files.

## 6. Plan

1. The order in which messages of one worker's queue pairs arrive, which
   `RdmaTransport` gives and `Superstep` abstracts from: a refinement of a set of
   messages by the queue pair.
2. The closed forms of `OrderBookGraph` shown to satisfy `VertexAssumption`,
   `EdgeAssumption` and `LinkAssumption` for all sizes; at present TLC evaluates
   the assumptions on the graph of `orderbook`.
3. `Migration`, should the engine come to call `absorb_partition`,
   `PartitionMap::migrate` and `migrate_vertex`.

----------------------------- MODULE Heartbeat -----------------------------
(***************************************************************************)
(* HeartbeatDetector (heartbeat.cpp) as Coordinator::run drives it: at the *)
(* start of every superstep the coordinator enters a heartbeat of every    *)
(* worker, the monitor thread checks all records every interval_ms / 4,    *)
(* and with fault injection a detached thread backdates worker 1 once.     *)
(*                                                                         *)
(* Time is counted in monitor periods: it passes while the monitor sleeps, *)
(* and each period has its check.  The thread is taken to wake up on time, *)
(* but in any order with the coordinator's steps of that period.           *)
(*                                                                         *)
(* phi is compared with its threshold without computing it: it grows with  *)
(* y = (elapsed - mean) / sigma, so phi >= t is y >= z for the quantile z  *)
(* of t, which is a comparison of integers once squared.                   *)
(***************************************************************************)
EXTENDS Integers, Sequences, FiniteSets

CONSTANTS
  WorkerCount,      \* worker_count_; worker 0 is the detector's own
  Interval,         \* interval_ms_, in periods (4)
  Timeout,          \* timeout_ms_, in periods
  Window,           \* HeartbeatRecord::WINDOW (16)
  Seeds,            \* intervals a record starts with (8)
  FaultInjection,   \* config_.enable_fault_injection
  MaxSupersteps,    \* config_.max_supersteps
  MaxGap            \* bound: periods a superstep lasts

ASSUME CountAssumption == WorkerCount \in Nat \ {0}
ASSUME TimesAssumption == Interval \in Nat \ {0} /\ Timeout \in Nat \ {0}
ASSUME WindowAssumption == Seeds \in Nat \ {0} /\ Window \in Nat /\ Seeds <= Window
ASSUME RunAssumption == FaultInjection \in BOOLEAN /\ {MaxSupersteps, MaxGap} \subseteq Nat

Workers == 0 .. WorkerCount - 1
Tracked == Workers \ {0}
Target  == 1                  \* the worker Coordinator::run injects

VARIABLES
  since,       \* since[w]: now - last_seen
  state,       \* state[w]: NodeState
  intervals,   \* intervals[w]: the rolling window
  beats,       \* beats[w]: beat_count
  monitor,     \* where the monitor thread is in monitor_loop()
  running,     \* running_
  step,        \* the coordinator's superstep
  to_beat,     \* the next worker of its heartbeat loop
  gap,         \* periods since the superstep began
  done,        \* hb_->stop() has joined the monitor
  inject_in,   \* periods until the injection, -1 when there is none left
  injected,    \* history: the injection, and whether a check came after it
  gaps         \* history: gaps[w], every inter-arrival time of w

monitorVars == <<monitor, running>>
coordVars   == <<step, to_beat, gap, done>>
records     == <<since, state, intervals, beats, gaps>>
injectVars  == <<inject_in, injected>>
vars        == <<monitorVars, coordVars, records, injectVars>>

Init ==
  /\ since     = [w \in Tracked |-> 0]
  /\ state     = [w \in Tracked |-> "ALIVE"]
  /\ intervals = [w \in Tracked |-> [i \in 1 .. Seeds |-> Interval]]
  /\ beats     = [w \in Tracked |-> 0]
  /\ gaps      = [w \in Tracked |-> <<>>]
  /\ monitor = "test" /\ running = TRUE
  /\ step = 0 /\ to_beat = 0 /\ gap = 0 /\ done = FALSE
  /\ inject_in = IF FaultInjection /\ WorkerCount > 2 THEN Interval ELSE -1
  /\ injected = "no"

SumOf(s)     == LET sum[i \in 0 .. Len(s)] == IF i = 0 THEN 0 ELSE sum[i - 1] + s[i]
                IN  sum[Len(s)]
Square(x)    == x * x
Squares(s)   == [i \in 1 .. Len(s) |-> Square(s[i])]

----------------------------------------------------------------------------
(* Faulty variants of the definitions below, one plausible slip each; a run *)
(* that replaces the definition by its variant must find a violation.       *)

WindowOneShort(s) == IF Len(s) >= Window THEN Tail(s) ELSE s

WindowNeverErased(s) == s

SuspicionAsBand(failed, suspected, elapsed) ==
  IF elapsed > Timeout THEN "FAILED"
  ELSE IF suspected /\ ~failed THEN "SUSPECTED" ELSE "ALIVE"

BeatKeepsState(w) == state[w]

----------------------------------------------------------------------------
(* The monitor *)

\* n times elapsed - mean, and n^2 times the variance, of n intervals.
Excess(s, elapsed) == Len(s) * elapsed - SumOf(s)
Spread(s)          == Len(s) * SumOf(Squares(s)) - SumOf(s) * SumOf(s)

\* phi >= 8 and phi >= 4 are y >= 5.6120 and y >= 3.7190, whose squares are
\* 31.4945 and 13.8311.  The 1e-9 in sigma only matters when all intervals
\* are equal: any positive excess is then beyond both.
PhiFailed(s, elapsed) ==
  Excess(s, elapsed) > 0 /\ 10000 * Square(Excess(s, elapsed)) >= 314945 * Spread(s)
PhiSuspected(s, elapsed) ==
  Excess(s, elapsed) > 0 /\ 10000 * Square(Excess(s, elapsed)) >= 138311 * Spread(s)

\* phi is not alone to decide: beyond the timeout a worker is FAILED whatever
\* phi is (README: "adaptive suspicion level, not fixed timeout").
Verdict(failed, suspected, elapsed) ==
  IF failed \/ elapsed > Timeout THEN "FAILED"
  ELSE IF suspected THEN "SUSPECTED" ELSE "ALIVE"

\* check_worker(): a FAILED record is left alone.
Checked(w) ==
  IF state[w] = "FAILED" THEN "FAILED"
  ELSE Verdict(PhiFailed(intervals[w], since[w]),
               PhiSuspected(intervals[w], since[w]), since[w])

\* monitor_loop() tests running_ before it sleeps, so a check may follow
\* stop(), and is then the last.
LoopTest ==
  /\ monitor = "test"
  /\ monitor' = IF running THEN "sleep" ELSE "exited"
  /\ UNCHANGED <<running, coordVars, records, injectVars>>

\* One round of checks, under mu_ from the first record to the last.
\* failure_cb_ runs for each worker that becomes FAILED and only prints: it
\* chooses a new owner, and redistribute_partition() moves nothing.
Check ==
  /\ monitor = "check"
  /\ state' = [w \in Tracked |-> Checked(w)]
  /\ monitor' = "test"
  /\ injected' = IF injected = "unseen" THEN "seen" ELSE injected
  /\ UNCHANGED <<running, coordVars, since, intervals, beats, gaps, inject_in>>

----------------------------------------------------------------------------
(* The coordinator *)

\* push_back, then erase the oldest entry when the window is exceeded.
Rolled(s) == IF Len(s) > Window THEN Tail(s) ELSE s

StateAfterBeat(w) == "ALIVE"

\* receive_heartbeat(to_beat); worker 0 has no record.
Beat ==
  /\ running /\ to_beat \in Workers
  /\ to_beat' = to_beat + 1
  /\ IF to_beat \in Tracked
       THEN LET w == to_beat IN
            /\ intervals' = [intervals EXCEPT ![w] =
                               IF beats[w] > 0 THEN Rolled(Append(@, since[w])) ELSE @]
            /\ gaps' = [gaps EXCEPT ![w] = IF beats[w] > 0 THEN Append(@, since[w]) ELSE @]
            /\ since' = [since EXCEPT ![w] = 0]
            /\ beats' = [beats EXCEPT ![w] = @ + 1]
            /\ state' = [state EXCEPT ![w] = StateAfterBeat(w)]
       ELSE UNCHANGED records
  /\ UNCHANGED <<monitorVars, step, gap, done, injectVars>>

\* The superstep is over, and was not the last.
NextSuperstep ==
  /\ running /\ to_beat = WorkerCount
  /\ step + 1 < MaxSupersteps
  /\ step' = step + 1
  /\ to_beat' = 0
  /\ gap' = 0
  /\ UNCHANGED <<monitorVars, done, records, injectVars>>

\* The loop ends by convergence in any superstep, or after the last one, and
\* hb_->stop() tells the monitor to end ...
Stop ==
  /\ running /\ to_beat = WorkerCount
  /\ running' = FALSE
  /\ UNCHANGED <<monitor, coordVars, records, injectVars>>

\* ... and joins it.
Finish ==
  /\ ~running /\ monitor = "exited" /\ ~done
  /\ done' = TRUE
  /\ UNCHANGED <<monitorVars, step, to_beat, gap, records, injectVars>>

----------------------------------------------------------------------------
(* Time and the injection *)

Tick ==
  /\ monitor = "sleep"
  /\ running => gap < MaxGap
  /\ gap' = IF running THEN gap + 1 ELSE gap
  /\ since' = [w \in Tracked |-> since[w] + 1]
  /\ monitor' = "check"
  /\ inject_in' = IF inject_in > 0 THEN inject_in - 1 ELSE inject_in
  /\ UNCHANGED <<running, step, to_beat, done, state, intervals, beats, gaps, injected>>

\* inject_failure(1): last_seen moves ten timeouts into the past.
Inject ==
  /\ ~done /\ inject_in = 0
  /\ since' = [since EXCEPT ![Target] = @ + 10 * Timeout]
  /\ inject_in' = -1
  /\ injected' = "unseen"
  /\ UNCHANGED <<monitorVars, coordVars, state, intervals, beats, gaps>>

----------------------------------------------------------------------------
MonitorStep == LoopTest \/ Check
CoordStep   == Beat \/ NextSuperstep \/ Stop \/ Finish
Done        == done /\ UNCHANGED vars

Next == MonitorStep \/ CoordStep \/ Tick \/ Inject \/ Done

Spec == Init /\ [][Next]_vars

\* The monitor, the coordinator, the injecting thread and the clock go on.
FairSpec ==
  Spec /\ WF_vars(MonitorStep) /\ WF_vars(CoordStep) /\ WF_vars(Tick) /\ WF_vars(Inject)

----------------------------------------------------------------------------
(* Properties *)

NodeState == {"ALIVE", "SUSPECTED", "FAILED"}

TypeOK ==
  /\ since \in [Tracked -> Nat]
  /\ state \in [Tracked -> NodeState]
  /\ intervals \in [Tracked -> Seq(Nat)]
  /\ \A w \in Tracked : Len(intervals[w]) \in Seeds .. Window
  /\ beats \in [Tracked -> Nat]
  /\ gaps \in [Tracked -> Seq(Nat)]
  /\ monitor \in {"test", "sleep", "check", "exited"}
  /\ running \in BOOLEAN /\ done \in BOOLEAN /\ injected \in {"no", "unseen", "seen"}
  /\ step \in 0 .. MaxSupersteps /\ to_beat \in 0 .. WorkerCount /\ gap \in 0 .. MaxGap
  /\ inject_in \in -1 .. Interval

\* The window holds the most recent inter-arrival times, preceded by seeds
\* only as long as there are too few of them.
RollingWindow ==
  \A w \in Tracked :
    LET all == [i \in 1 .. Seeds |-> Interval] \o gaps[w]
        n   == IF Len(all) < Window THEN Len(all) ELSE Window
    IN  intervals[w] = SubSeq(all, Len(all) - n + 1, Len(all))

\* Nobody is suspected or failed while no later than its own mean interval,
\* unless it is past the timeout, and a heartbeat clears the suspicion.
NoEarlySuspicion ==
  \A w \in Tracked :
    state[w] # "ALIVE" => Excess(intervals[w], since[w]) > 0 \/ since[w] > Timeout

Severity == [ALIVE |-> 0, SUSPECTED |-> 1, FAILED |-> 2]

\* Suspicion never relaxes by itself: only a heartbeat, which restarts the
\* silence, makes a verdict milder.
SuspicionMonotone ==
  [][\A w \in Tracked : Severity[state'[w]] < Severity[state[w]] => since'[w] = 0]_vars

\* The injected failure of worker 1 is noticed (README: "--fault: Enable
\* fault injection -- kills worker 1 at ~500ms"), unless the run is over
\* before the monitor has made another check.
InjectionDetected ==
  injected = "unseen" ~> state[Target] = "FAILED" \/ (done /\ injected = "unseen")
============================================================================

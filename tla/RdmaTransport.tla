--------------------------- MODULE RdmaTransport ---------------------------
(***************************************************************************)
(* RdmaTransport and QueuePair (rdma_transport.cpp): the transport of one  *)
(* worker has a queue pair per remote worker, each with a network thread   *)
(* that delivers posted writes after a fixed latency.                      *)
(*                                                                         *)
(* The worker's thread is the only client of its transport (MessageBus);   *)
(* it may call the operations in any order.  A write is its wr_id.  What   *)
(* runs without the lock of the state it uses is a step of its own.        *)
(***************************************************************************)
EXTENDS Integers, Sequences

CONSTANTS
  Peers,           \* the remote workers, one queue pair each
  PendingMod,      \* number of values of pending_wr_ (2^64 in the code)
  MaxCompletions,  \* argument of poll_cq (64 by default)
  MaxPosts         \* bound: writes posted on the transport

ASSUME PeersAssumption  == Peers # {}
ASSUME ModAssumption    == PendingMod \in Nat /\ PendingMod > MaxPosts
ASSUME BoundsAssumption == MaxCompletions \in Nat \ {0} /\ MaxPosts \in Nat

VARIABLES
  rdma_ops,     \* rdma_ops_, the source of wr_ids
  bytes_sent,   \* bytes_sent_, in messages
  client,       \* what the worker's thread is doing, and on which peer
  in_flight,    \* QueuePair::in_flight_
  due,          \* due[p]: how many of them have deliver_at <= now
  inbox,        \* QueuePair::inbox_
  cq,           \* QueuePair::cq_
  pending_wr,   \* QueuePair::pending_wr_
  stop,         \* QueuePair::stop_
  net,          \* net[p]: where the network thread is
  pw,           \* pw[p]: the write the network thread holds, as a sequence
  posted,       \* history: writes posted to p
  received,     \* history: writes drain_received returned
  polled        \* history: completions poll_cq returned

clientVars == <<rdma_ops, bytes_sent, client>>
netVars    == <<net, pw>>
vars == <<clientVars, in_flight, due, inbox, cq, pending_wr, stop, netVars,
          posted, received, polled>>

WrId == 0 .. MaxPosts - 1
Net  == {"top", "wait", "deliver", "complete", "decrement", "exited"}

Client == [op : {"idle", "count", "flush", "closing"}, peer : Peers]
Idle   == client.op = "idle"

Init ==
  /\ rdma_ops = 0 /\ bytes_sent = 0
  /\ client \in [op : {"idle"}, peer : Peers]
  /\ in_flight  = [p \in Peers |-> <<>>]
  /\ due        = [p \in Peers |-> 0]
  /\ inbox      = [p \in Peers |-> <<>>]
  /\ cq         = [p \in Peers |-> <<>>]
  /\ pending_wr = [p \in Peers |-> 0]
  /\ stop       = [p \in Peers |-> FALSE]
  /\ net        = [p \in Peers |-> "top"]
  /\ pw         = [p \in Peers |-> <<>>]
  /\ posted     = [p \in Peers |-> <<>>]
  /\ received   = [p \in Peers |-> <<>>]
  /\ polled     = [p \in Peers |-> <<>>]

NetGoto(p, label) == net' = [net EXCEPT ![p] = label]

----------------------------------------------------------------------------
(* Faulty variants of the definitions below, one plausible slip each; a run *)
(* that replaces the definition by its variant must find a violation.       *)

PendingZeroOrOne(p) == pending_wr[p] <= 1

NoWrap(n) == n - 1

CountedDownTwice(n) == (n + PendingMod - 2) % PendingMod

\* front() and pop() at the wrong end of the queue.
PopBack(p) ==
  /\ net[p] = "wait"
  /\ due[p] > 0
  /\ pw' = [pw EXCEPT ![p] = <<in_flight[p][Len(in_flight[p])]>>]
  /\ in_flight' = [in_flight EXCEPT ![p] = SubSeq(@, 1, Len(@) - 1)]
  /\ due' = [due EXCEPT ![p] = @ - 1]
  /\ NetGoto(p, "deliver")
  /\ UNCHANGED <<clientVars, inbox, cq, pending_wr, stop, posted, received, polled>>

\* The completion is queued before the message is.
CompletionFirst(p) ==
  /\ net[p] = "deliver"
  /\ cq' = [cq EXCEPT ![p] = @ \o pw[p]]
  /\ NetGoto(p, "complete")
  /\ UNCHANGED <<clientVars, in_flight, due, inbox, pending_wr, stop, pw,
                 posted, received, polled>>

\* A timeout of wait_for ends the thread.
TimeoutEnds(p) ==
  /\ net[p] = "wait"
  /\ due[p] = 0
  /\ NetGoto(p, "exited")
  /\ UNCHANGED <<clientVars, in_flight, due, inbox, cq, pending_wr, stop, pw,
                 posted, received, polled>>

----------------------------------------------------------------------------
(* The client *)

\* send() up to the push in post_write().
Send(p) ==
  /\ Idle
  /\ rdma_ops < MaxPosts
  /\ rdma_ops' = rdma_ops + 1
  /\ in_flight' = [in_flight EXCEPT ![p] = Append(@, rdma_ops)]
  /\ posted' = [posted EXCEPT ![p] = Append(@, rdma_ops)]
  /\ client' = [op |-> "count", peer |-> p]
  /\ UNCHANGED <<bytes_sent, due, inbox, cq, pending_wr, stop, netVars,
                 received, polled>>

\* The rest of post_write() and of send().
CountPosted(p) ==
  /\ client = [op |-> "count", peer |-> p]
  /\ pending_wr' = [pending_wr EXCEPT ![p] = (@ + 1) % PendingMod]
  /\ bytes_sent' = bytes_sent + 1
  /\ client' = [client EXCEPT !.op = "idle"]
  /\ UNCHANGED <<rdma_ops, in_flight, due, inbox, cq, stop, netVars, posted,
                 received, polled>>

\* drain_received(): receive_from calls it once, receive_all for each peer.
DrainReceived(p) ==
  /\ Idle
  /\ received' = [received EXCEPT ![p] = @ \o inbox[p]]
  /\ inbox' = [inbox EXCEPT ![p] = <<>>]
  /\ UNCHANGED <<clientVars, in_flight, due, cq, pending_wr, stop, netVars,
                 posted, polled>>

\* poll_cq(), which poll_completions calls for each peer.
PollCq(p) ==
  /\ Idle
  /\ LET n == IF Len(cq[p]) < MaxCompletions THEN Len(cq[p]) ELSE MaxCompletions IN
       /\ polled' = [polled EXCEPT ![p] = @ \o SubSeq(cq[p], 1, n)]
       /\ cq' = [cq EXCEPT ![p] = SubSeq(@, n + 1, Len(@))]
  /\ UNCHANGED <<clientVars, in_flight, due, inbox, pending_wr, stop, netVars,
                 posted, received>>

Flush(p) ==
  /\ Idle
  /\ client' = [op |-> "flush", peer |-> p]
  /\ UNCHANGED <<rdma_ops, bytes_sent, in_flight, due, inbox, cq, pending_wr,
                 stop, netVars, posted, received, polled>>

NonePending(p) == pending_wr[p] = 0

\* flush() leaves its loop.
FlushReturn(p) ==
  /\ client = [op |-> "flush", peer |-> p]
  /\ NonePending(p)
  /\ client' = [client EXCEPT !.op = "idle"]
  /\ UNCHANGED <<rdma_ops, bytes_sent, in_flight, due, inbox, cq, pending_wr,
                 stop, netVars, posted, received, polled>>

\* The queue pairs' destructors, one after the other: each joins its network
\* thread before the next begins.
Destroy(p) ==
  /\ client.op \in {"idle", "closing"}
  /\ ~stop[p]
  /\ \A q \in Peers : stop[q] => net[q] = "exited"
  /\ stop' = [stop EXCEPT ![p] = TRUE]
  /\ client' = [op |-> "closing", peer |-> p]
  /\ UNCHANGED <<rdma_ops, bytes_sent, in_flight, due, inbox, cq, pending_wr,
                 netVars, posted, received, polled>>

----------------------------------------------------------------------------
(* network_loop() and the clock *)

\* The clock reaches the deliver_at of the next write.
BecomeDue(p) ==
  /\ due[p] < Len(in_flight[p])
  /\ due' = [due EXCEPT ![p] = @ + 1]
  /\ UNCHANGED <<clientVars, in_flight, inbox, cq, pending_wr, stop, netVars,
                 posted, received, polled>>

\* while (!stop_)
LoopTest(p) ==
  /\ net[p] = "top"
  /\ NetGoto(p, IF stop[p] THEN "exited" ELSE "wait")
  /\ UNCHANGED <<clientVars, in_flight, due, inbox, cq, pending_wr, stop, pw,
                 posted, received, polled>>

\* wait_for returned and nothing is due, or the inner loop ends.
NothingDue(p) ==
  /\ net[p] = "wait"
  /\ due[p] = 0
  /\ NetGoto(p, "top")
  /\ UNCHANGED <<clientVars, in_flight, due, inbox, cq, pending_wr, stop, pw,
                 posted, received, polled>>

\* The inner loop, which does not look at stop_.
PopFront(p) ==
  /\ net[p] = "wait"
  /\ due[p] > 0
  /\ pw' = [pw EXCEPT ![p] = <<Head(in_flight[p])>>]
  /\ in_flight' = [in_flight EXCEPT ![p] = Tail(@)]
  /\ due' = [due EXCEPT ![p] = @ - 1]
  /\ NetGoto(p, "deliver")
  /\ UNCHANGED <<clientVars, inbox, cq, pending_wr, stop, posted, received, polled>>

PushInbox(p) ==
  /\ net[p] = "deliver"
  /\ inbox' = [inbox EXCEPT ![p] = @ \o pw[p]]
  /\ NetGoto(p, "complete")
  /\ UNCHANGED <<clientVars, in_flight, due, cq, pending_wr, stop, pw,
                 posted, received, polled>>

PushCompletion(p) ==
  /\ net[p] = "complete"
  /\ cq' = [cq EXCEPT ![p] = @ \o pw[p]]
  /\ NetGoto(p, "decrement")
  /\ UNCHANGED <<clientVars, in_flight, due, inbox, pending_wr, stop, pw,
                 posted, received, polled>>

\* fetch_sub on an unsigned counter, which the client may not have
\* incremented for this write yet.
Decremented(n) == (n + PendingMod - 1) % PendingMod

Decrement(p) ==
  /\ net[p] = "decrement"
  /\ pending_wr' = [pending_wr EXCEPT ![p] = Decremented(@)]
  /\ pw' = [pw EXCEPT ![p] = <<>>]
  /\ NetGoto(p, "wait")
  /\ UNCHANGED <<clientVars, in_flight, due, inbox, cq, stop, posted, received, polled>>

----------------------------------------------------------------------------
ClientStep ==
  \E p \in Peers : \/ Send(p) \/ CountPosted(p) \/ DrainReceived(p) \/ PollCq(p)
                   \/ Flush(p) \/ FlushReturn(p) \/ Destroy(p)

NetStep(p) ==
  \/ LoopTest(p) \/ NothingDue(p) \/ PopFront(p)
  \/ PushInbox(p) \/ PushCompletion(p) \/ Decrement(p)

Destroyed == \A p \in Peers : net[p] = "exited"
Done      == Destroyed /\ UNCHANGED vars

Next == ClientStep \/ (\E p \in Peers : NetStep(p) \/ BecomeDue(p)) \/ Done

Spec == Init /\ [][Next]_vars

\* The network threads run and time passes; the client finishes what it has
\* begun, but need not begin anything.
Fairness ==
  \A p \in Peers :
    /\ WF_vars(NetStep(p)) /\ WF_vars(BecomeDue(p))
    /\ WF_vars(CountPosted(p)) /\ WF_vars(FlushReturn(p))

FairSpec == Spec /\ Fairness

----------------------------------------------------------------------------
(* Properties *)

TypeOK ==
  /\ rdma_ops \in 0 .. MaxPosts /\ bytes_sent \in 0 .. MaxPosts
  /\ client \in Client
  /\ \A queue \in {in_flight, inbox, cq, pw, posted, received, polled} :
       queue \in [Peers -> Seq(WrId)]
  /\ due \in [Peers -> 0 .. MaxPosts]
  /\ pending_wr \in [Peers -> 0 .. PendingMod - 1]
  /\ stop \in [Peers -> BOOLEAN]
  /\ net \in [Peers -> Net]

\* The write in hand while it is in neither in_flight_ nor inbox_.
InHand(p) == IF net[p] = "deliver" THEN pw[p] ELSE <<>>

\* Every posted write is received exactly once and in posting order, however
\* the network thread and the client interleave: what was drained, what
\* waits, what is in hand and what is in flight make up what was posted.
ExactlyOnceInOrder ==
  \A p \in Peers :
    received[p] \o inbox[p] \o InHand(p) \o in_flight[p] = posted[p]

\* A completion is reported only for a write that has reached inbox_, in
\* order and once: the completions are the delivered writes, or all but the
\* one whose completion is about to be queued.
CompletionFollowsDelivery ==
  \A p \in Peers :
    LET completed == polled[p] \o cq[p]
        delivered == received[p] \o inbox[p]
    IN  delivered = completed \o (IF net[p] = "complete" THEN pw[p] ELSE <<>>)

\* pending_wr_ drops below zero when the network thread finishes a write
\* before the client has counted it; the wrapped value is transient and the
\* counter never drifts.
Uncounted(p) == IF client = [op |-> "count", peer |-> p] THEN 1 ELSE 0

PendingExact ==
  \A p \in Peers :
    (pending_wr[p] + Uncounted(p)) % PendingMod = Len(in_flight[p]) + Len(pw[p])

\* When flush() can return to the client, all it has posted to that peer is
\* in the inbox or received, and completed.
FlushComplete ==
  \A p \in Peers :
    client = [op |-> "flush", peer |-> p] /\ NonePending(p) =>
      /\ received[p] \o inbox[p] = posted[p]
      /\ polled[p] \o cq[p] = posted[p]

\* Every write leaves in_flight_ unless the queue pair is destroyed first.
WritesDelivered ==
  \A p \in Peers :
    in_flight[p] # <<>> ~> (in_flight[p] = <<>> \/ stop[p])

\* Every flush() returns: the counter it polls does reach zero.
FlushReturns ==
  \A p \in Peers : client = [op |-> "flush", peer |-> p] ~> Idle
============================================================================

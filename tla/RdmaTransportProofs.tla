------------------------ MODULE RdmaTransportProofs ------------------------
(***************************************************************************)
(* Proofs about RdmaTransport for every set of peers, any number of posted *)
(* writes and any width of pending_wr_ that can count them.                *)
(***************************************************************************)
EXTENDS RdmaTransport, SequenceTheorems, TLAPS

(* The inductive invariant *)

\* The network thread holds a write exactly between pop() and fetch_sub.
Holds(p) == net[p] \in {"deliver", "complete", "decrement"}

HandInv ==
  \A p \in Peers : /\ Holds(p) => Len(pw[p]) = 1
                   /\ ~Holds(p) => pw[p] = <<>>

\* Only writes in flight become due, and the ones not yet counted down are
\* among the posted ones, of which there are no more than wr_ids.
CountInv ==
  \A p \in Peers :
    /\ due[p] <= Len(in_flight[p])
    /\ Len(in_flight[p]) + Len(pw[p]) <= Len(posted[p])
    /\ Len(posted[p]) <= rdma_ops

SentInv == rdma_ops = bytes_sent + (IF client.op = "count" THEN 1 ELSE 0)

IInv ==
  /\ TypeOK /\ HandInv /\ CountInv /\ SentInv
  /\ ExactlyOnceInOrder /\ CompletionFollowsDelivery /\ PendingExact

----------------------------------------------------------------------------
(* Lemmas about sequences and the counter *)

\* Appending to a concatenation appends to its last part.
LEMMA AppendToConcat ==
  ASSUME NEW S, NEW s \in Seq(S), NEW t \in Seq(S), NEW e \in S
  PROVE  s \o Append(t, e) = Append(s \o t, e)
<1>1. <<e>> \in Seq(S) /\ s \o t \in Seq(S)
  BY ConcatProperties
<1>2. Append(t, e) = t \o <<e>> /\ Append(s \o t, e) = (s \o t) \o <<e>>
  BY <1>1, AppendIsConcat
<1>3. (s \o t) \o <<e>> = s \o (t \o <<e>>)
  BY <1>1, ConcatAssociative
<1> QED
  BY <1>2, <1>3, Zenon

\* A nonempty sequence is its head followed by its tail.
LEMMA HeadThenTail ==
  ASSUME NEW S, NEW s \in Seq(S), s # <<>>
  PROVE  /\ <<Head(s)>> \in Seq(S) /\ Tail(s) \in Seq(S)
         /\ <<Head(s)>> \o Tail(s) = s
<1>1. Head(s) \in S /\ Tail(s) \in Seq(S) /\ Head(s) = s[1]
  BY HeadTailProperties
<1>2. Len(s) \in Nat \ {0}
  BY EmptySeq
<1>3. SubSeq(s, 1, Len(s)) = <<s[1]>> \o SubSeq(s, 1 + 1, Len(s))
  BY <1>2, SubSeqRecursiveFirst
<1>4. SubSeq(s, 1, Len(s)) = s /\ Tail(s) = SubSeq(s, 2, Len(s))
  BY SubSeqFull, TailIsSubSeq
<1> QED
  BY <1>1, <1>3, <1>4

\* A sequence is the part up to any of its positions followed by the rest.
LEMMA SplitAt ==
  ASSUME NEW S, NEW s \in Seq(S), NEW n \in 0 .. Len(s)
  PROVE  /\ SubSeq(s, 1, n) \in Seq(S) /\ SubSeq(s, n + 1, Len(s)) \in Seq(S)
         /\ SubSeq(s, 1, n) \o SubSeq(s, n + 1, Len(s)) = s
<1>1. Len(s) \in Nat /\ \A i \in 1 .. Len(s) : s[i] \in S
  BY LenProperties, ElementOfSeq
<1>2. SubSeq(s, 1, n) \in Seq(S) /\ SubSeq(s, n + 1, Len(s)) \in Seq(S)
  BY <1>1, SubSeqProperties
<1>3. SubSeq(s, 1, n) \o SubSeq(s, n + 1, Len(s)) = SubSeq(s, 1, Len(s))
  <2>1. 1 \in 1 .. Len(s) + 1 /\ n \in 1 - 1 .. Len(s) /\ Len(s) \in n .. Len(s)
    BY <1>1
  <2> QED
    BY <2>1, ConcatAdjacentSubSeq, Zenon
<1> QED
  BY <1>2, <1>3, SubSeqFull

\* Counting up and down wraps around at PendingMod and stays in range.
LEMMA CounterSteps ==
  ASSUME NEW n \in 0 .. PendingMod - 1
  PROVE  /\ (n + 1) % PendingMod = IF n = PendingMod - 1 THEN 0 ELSE n + 1
         /\ Decremented(n) = IF n = 0 THEN PendingMod - 1 ELSE n - 1
         /\ n % PendingMod = n
<1> PendingMod \in Nat \ {0}
  BY ModAssumption, BoundsAssumption
<1>1. n % PendingMod = n
  OBVIOUS
<1>2. (n + 1) % PendingMod = IF n = PendingMod - 1 THEN 0 ELSE n + 1
  <2>1. CASE n = PendingMod - 1
    BY <2>1
  <2>2. CASE n < PendingMod - 1
    BY <2>2
  <2> QED
    BY <2>1, <2>2
<1>3. Decremented(n) = IF n = 0 THEN PendingMod - 1 ELSE n - 1
  <2>1. CASE n = 0
    BY <2>1 DEF Decremented
  <2>2. CASE n > 0
    <3>1. n + PendingMod - 1 = (n - 1) + PendingMod
      OBVIOUS
    <3>2. ((n - 1) + PendingMod) % PendingMod = n - 1
      BY <2>2
    <3> QED
      BY <2>2, <3>1, <3>2 DEF Decremented
  <2> QED
    BY <2>1, <2>2
<1> QED
  BY <1>1, <1>2, <1>3
----------------------------------------------------------------------------
(* Types *)

QueuesOK ==
  /\ in_flight \in [Peers -> Seq(WrId)] /\ inbox \in [Peers -> Seq(WrId)]
  /\ cq \in [Peers -> Seq(WrId)] /\ pw \in [Peers -> Seq(WrId)]
  /\ posted \in [Peers -> Seq(WrId)] /\ received \in [Peers -> Seq(WrId)]
  /\ polled \in [Peers -> Seq(WrId)]

\* TypeOK types the queues.
LEMMA TypeOKQueues == TypeOK => QueuesOK
  BY DEF TypeOK, QueuesOK

\* What TypeOK says of the state of one peer.
LEMMA PeerTypes ==
  ASSUME TypeOK, NEW p \in Peers
  PROVE  /\ in_flight[p] \in Seq(WrId) /\ inbox[p] \in Seq(WrId)
         /\ cq[p] \in Seq(WrId) /\ pw[p] \in Seq(WrId)
         /\ posted[p] \in Seq(WrId) /\ received[p] \in Seq(WrId)
         /\ polled[p] \in Seq(WrId) /\ InHand(p) \in Seq(WrId)
         /\ received[p] \o inbox[p] \in Seq(WrId)
         /\ polled[p] \o cq[p] \in Seq(WrId)
         /\ Len(in_flight[p]) \in Nat /\ Len(pw[p]) \in Nat /\ Len(posted[p]) \in Nat
         /\ pending_wr[p] \in 0 .. PendingMod - 1 /\ due[p] \in Nat
<1>1. /\ in_flight[p] \in Seq(WrId) /\ inbox[p] \in Seq(WrId)
      /\ cq[p] \in Seq(WrId) /\ pw[p] \in Seq(WrId)
      /\ posted[p] \in Seq(WrId) /\ received[p] \in Seq(WrId)
      /\ polled[p] \in Seq(WrId)
  BY TypeOKQueues DEF QueuesOK
<1>2. InHand(p) \in Seq(WrId)
  BY <1>1 DEF InHand
<1>3. pending_wr[p] \in 0 .. PendingMod - 1 /\ due[p] \in Nat
  BY DEF TypeOK
<1>4. /\ received[p] \o inbox[p] \in Seq(WrId)
      /\ polled[p] \o cq[p] \in Seq(WrId)
  BY <1>1, ConcatProperties
<1>5. Len(in_flight[p]) \in Nat /\ Len(pw[p]) \in Nat /\ Len(posted[p]) \in Nat
  BY <1>1, LenProperties
<1> QED
  BY <1>1, <1>2, <1>3, <1>4, <1>5

----------------------------------------------------------------------------
(* The steps *)

\* Nothing has been posted in the initial state.
LEMMA InitIInv == Init => IInv
<1> SUFFICES ASSUME Init PROVE IInv
  OBVIOUS
<1>1. TypeOK
  <2>1. QueuesOK
    BY DEF Init, QueuesOK
  <2> QED
    BY <2>1, ModAssumption, BoundsAssumption DEF Init, QueuesOK, TypeOK, Client, Net
<1>2. client.op = "idle"
  BY DEF Init
<1>3. HandInv /\ CountInv
  BY DEF Init, HandInv, Holds, CountInv
<1>4. SentInv
  BY <1>2 DEF Init, SentInv
<1>5. ExactlyOnceInOrder /\ CompletionFollowsDelivery
  BY DEF Init, ExactlyOnceInOrder, CompletionFollowsDelivery, InHand
<1>6. PendingExact
  <2> SUFFICES ASSUME NEW p \in Peers
               PROVE  (pending_wr[p] + Uncounted(p)) % PendingMod
                        = Len(in_flight[p]) + Len(pw[p])
    BY DEF PendingExact
  <2>1. Uncounted(p) = 0
    BY <1>2 DEF Uncounted
  <2>2. pending_wr[p] = 0 /\ in_flight[p] = <<>> /\ pw[p] = <<>>
    BY DEF Init
  <2>3. 0 % PendingMod = 0
    BY ModAssumption, BoundsAssumption
  <2> QED
    BY <2>1, <2>2, <2>3
<1> QED
  BY <1>1, <1>3, <1>4, <1>5, <1>6 DEF IInv

\* The client posts a write: it joins the queue behind the others, and the
\* counter lags behind by one.
LEMMA SendIInv ==
  ASSUME IInv, NEW p \in Peers, Send(p)
  PROVE  IInv'
<1>0. /\ TypeOK /\ HandInv /\ CountInv /\ SentInv
      /\ ExactlyOnceInOrder /\ CompletionFollowsDelivery /\ PendingExact
  BY DEF IInv
<1>1. rdma_ops \in WrId /\ rdma_ops \in Nat /\ rdma_ops < MaxPosts
  BY <1>0, BoundsAssumption DEF Send, TypeOK, WrId
<1>2. /\ in_flight[p] \in Seq(WrId) /\ Len(in_flight[p]) \in Nat /\ Len(pw[p]) \in Nat
      /\ posted[p] \in Seq(WrId) /\ Len(posted[p]) \in Nat
  BY <1>0, PeerTypes
<1>3. /\ Append(in_flight[p], rdma_ops) \in Seq(WrId)
      /\ Append(posted[p], rdma_ops) \in Seq(WrId)
      /\ Len(Append(in_flight[p], rdma_ops)) = Len(in_flight[p]) + 1
      /\ Len(Append(posted[p], rdma_ops)) = Len(posted[p]) + 1
  BY <1>1, <1>2, AppendProperties
<1>4. QueuesOK /\ QueuesOK'
  BY <1>0, <1>3, TypeOKQueues DEF Send, QueuesOK, netVars
<1>5. TypeOK'
  <2>1. client' \in Client
    BY DEF Send, Client
  <2>2. rdma_ops' \in 0 .. MaxPosts
    BY <1>1, BoundsAssumption DEF Send
  <2> QED
    BY <1>0, <1>4, <2>1, <2>2 DEF Send, TypeOK, QueuesOK, netVars
<1>6. HandInv'
  BY <1>0 DEF Send, HandInv, Holds, netVars
<1>7. CountInv'
  <2>1. \A q \in Peers : /\ due[q] \in Nat /\ Len(in_flight[q]) \in Nat
                         /\ Len(pw[q]) \in Nat /\ Len(posted[q]) \in Nat
    BY <1>0, PeerTypes
  <2>2. /\ \A q \in Peers \ {p} : /\ in_flight'[q] = in_flight[q]
                                  /\ posted'[q] = posted[q]
        /\ Len(in_flight'[p]) = Len(in_flight[p]) + 1
        /\ Len(posted'[p]) = Len(posted[p]) + 1
        /\ due' = due /\ pw' = pw /\ rdma_ops' = rdma_ops + 1
    BY <1>3, <1>4 DEF Send, QueuesOK, netVars
  <2> SUFFICES ASSUME NEW q \in Peers
               PROVE  /\ due'[q] <= Len(in_flight'[q])
                      /\ Len(in_flight'[q]) + Len(pw'[q]) <= Len(posted'[q])
                      /\ Len(posted'[q]) <= rdma_ops'
    BY DEF CountInv
  <2>3. /\ due[q] <= Len(in_flight[q])
        /\ Len(in_flight[q]) + Len(pw[q]) <= Len(posted[q])
        /\ Len(posted[q]) <= rdma_ops
    BY <1>0 DEF CountInv
  <2>4. due \in [Peers -> Nat]
    BY <1>0 DEF TypeOK
  <2>5. CASE q = p
    BY <1>1, <1>4, <2>1, <2>2, <2>3, <2>4, <2>5 DEF QueuesOK
  <2>6. CASE q # p
    <3>1. in_flight'[q] = in_flight[q] /\ posted'[q] = posted[q]
      BY <2>2, <2>6
    <3>2. Len(posted[q]) <= rdma_ops + 1
      BY <1>1, <1>4, <2>1, <2>3 DEF QueuesOK
    <3> QED
      BY <2>2, <2>3, <3>1, <3>2
  <2> QED
    BY <2>5, <2>6
<1>8. SentInv'
  BY <1>0, <1>1 DEF Send, SentInv, TypeOK, Idle
<1>9. ExactlyOnceInOrder'
  <2> DEFINE before == received[p] \o inbox[p] \o InHand(p)
  <2>1. before \in Seq(WrId)
    <3>1. received[p] \o inbox[p] \in Seq(WrId) /\ InHand(p) \in Seq(WrId)
      BY <1>0, PeerTypes
    <3> QED
      BY <3>1, ConcatProperties
  <2>2. before \o in_flight[p] = posted[p]
    BY <1>0 DEF ExactlyOnceInOrder
  <2> HIDE DEF before
  <2>3. before \o Append(in_flight[p], rdma_ops) = Append(posted[p], rdma_ops)
    <3>1. rdma_ops \in WrId /\ in_flight[p] \in Seq(WrId)
      BY <1>1, <1>2
    <3>2. before \o Append(in_flight[p], rdma_ops) = Append(before \o in_flight[p], rdma_ops)
      BY <3>1, <2>1, AppendToConcat
    <3> QED
      BY <2>2, <3>2
  <2> QED
    BY <1>0, <1>4, <2>3 DEF before, Send, ExactlyOnceInOrder, InHand, QueuesOK, netVars
<1>10. CompletionFollowsDelivery'
  BY <1>0 DEF Send, CompletionFollowsDelivery, netVars
<1>11. PendingExact'
  <2>1. \A q \in Peers : Uncounted(q) = 0 /\ Uncounted(q)' = IF q = p THEN 1 ELSE 0
    BY DEF Send, Uncounted, Idle
  <2>2. pending_wr[p] \in 0 .. PendingMod - 1 /\ PendingMod \in Nat
    BY <1>0, PeerTypes, ModAssumption
  <2>3. pending_wr[p] = Len(in_flight[p]) + Len(pw[p])
    <3>1. (pending_wr[p] + 0) % PendingMod = Len(in_flight[p]) + Len(pw[p])
      BY <1>0, <2>1 DEF PendingExact
    <3>2. pending_wr[p] + 0 = pending_wr[p] /\ pending_wr[p] % PendingMod = pending_wr[p]
      BY <2>2, CounterSteps
    <3> QED
      BY <3>1, <3>2
  <2>4. pending_wr[p] < MaxPosts
    BY <1>0, <1>1, <1>2, <1>4, <2>3, BoundsAssumption DEF CountInv, QueuesOK
  <2>5. (pending_wr[p] + 1) % PendingMod = (Len(in_flight[p]) + 1) + Len(pw[p])
    <3>1. (pending_wr[p] + 1) % PendingMod = pending_wr[p] + 1
      BY <2>2, <2>4, CounterSteps, ModAssumption, BoundsAssumption
    <3> QED
      BY <1>2, <1>4, <2>3, <3>1 DEF QueuesOK
  <2> QED
    BY <1>0, <1>3, <1>4, <2>1, <2>5 DEF Send, PendingExact, QueuesOK, netVars
<1> QED
  BY <1>5, <1>6, <1>7, <1>8, <1>9, <1>10, <1>11 DEF IInv

\* The client counts the write, which the network thread may have finished.
LEMMA CountPostedIInv ==
  ASSUME IInv, NEW p \in Peers, CountPosted(p)
  PROVE  IInv'
<1>0. /\ TypeOK /\ HandInv /\ CountInv /\ SentInv
      /\ ExactlyOnceInOrder /\ CompletionFollowsDelivery /\ PendingExact
  BY DEF IInv
<1>1. client.op = "count" /\ client' \in Client /\ client'.op = "idle"
  BY <1>0 DEF CountPosted, TypeOK, Client
<1>2. pending_wr[p] \in 0 .. PendingMod - 1 /\ PendingMod \in Nat
  BY <1>0, PeerTypes, ModAssumption
<1>3. (pending_wr[p] + 1) % PendingMod \in 0 .. PendingMod - 1
  BY <1>2, CounterSteps
<1>4. TypeOK'
  <2>1. bytes_sent' \in 0 .. MaxPosts
    BY <1>0, <1>1 DEF CountPosted, SentInv, TypeOK
  <2> QED
    BY <1>0, <1>1, <1>3, <2>1 DEF CountPosted, TypeOK, netVars
<1>5. HandInv' /\ CountInv'
  BY <1>0 DEF CountPosted, HandInv, CountInv, Holds, netVars
<1>6. SentInv'
  BY <1>0, <1>1 DEF CountPosted, SentInv, TypeOK
<1>7. ExactlyOnceInOrder' /\ CompletionFollowsDelivery'
  BY <1>0 DEF CountPosted, ExactlyOnceInOrder, CompletionFollowsDelivery, InHand, netVars
<1>8. PendingExact'
  <2>1. \A q \in Peers : Uncounted(q)' = 0 /\ Uncounted(q) = IF q = p THEN 1 ELSE 0
    BY <1>1 DEF CountPosted, Uncounted
  <2>2. /\ pending_wr'[p] \in 0 .. PendingMod - 1
        /\ pending_wr'[p] = (pending_wr[p] + 1) % PendingMod
        /\ \A q \in Peers \ {p} : pending_wr'[q] = pending_wr[q]
    BY <1>0, <1>3 DEF CountPosted, TypeOK
  <2>3. (pending_wr'[p] + 0) % PendingMod = (pending_wr[p] + 1) % PendingMod
    <3>1. pending_wr'[p] + 0 = pending_wr'[p] /\ pending_wr'[p] % PendingMod = pending_wr'[p]
      BY <2>2, CounterSteps
    <3> QED
      BY <2>2, <3>1
  <2> QED
    BY <1>0, <2>1, <2>2, <2>3 DEF CountPosted, PendingExact, netVars
<1> QED
  BY <1>4, <1>5, <1>6, <1>7, <1>8 DEF IInv

\* drain_received() moves the inbox to the client as it is.
LEMMA DrainReceivedIInv ==
  ASSUME IInv, NEW p \in Peers, DrainReceived(p)
  PROVE  IInv'
<1>0. /\ TypeOK /\ HandInv /\ CountInv /\ SentInv
      /\ ExactlyOnceInOrder /\ CompletionFollowsDelivery /\ PendingExact
  BY DEF IInv
<1>1. received[p] \o inbox[p] \in Seq(WrId)
  BY <1>0, PeerTypes
<1>2. QueuesOK /\ QueuesOK'
  BY <1>0, <1>1, TypeOKQueues DEF DrainReceived, QueuesOK, netVars
<1>3. TypeOK'
  BY <1>0, <1>2 DEF DrainReceived, TypeOK, QueuesOK, clientVars, netVars
<1>4. HandInv' /\ CountInv' /\ SentInv' /\ PendingExact'
  BY <1>0 DEF DrainReceived, HandInv, Holds, CountInv, SentInv, PendingExact,
              Uncounted, clientVars, netVars
<1>5. \A q \in Peers : received'[q] \o inbox'[q] = received[q] \o inbox[q]
  <2>1. (received[p] \o inbox[p]) \o <<>> = received[p] \o inbox[p]
    BY <1>1, ConcatEmptySeq
  <2> QED
    BY <1>2, <2>1 DEF DrainReceived, QueuesOK
<1>6. ExactlyOnceInOrder' /\ CompletionFollowsDelivery'
  BY <1>0, <1>5 DEF DrainReceived, ExactlyOnceInOrder, CompletionFollowsDelivery,
                    InHand, netVars
<1> QED
  BY <1>3, <1>4, <1>6 DEF IInv

\* poll_cq() moves the oldest completions to the client.
LEMMA PollCqIInv ==
  ASSUME IInv, NEW p \in Peers, PollCq(p)
  PROVE  IInv'
<1>0. /\ TypeOK /\ HandInv /\ CountInv /\ SentInv
      /\ ExactlyOnceInOrder /\ CompletionFollowsDelivery /\ PendingExact
  BY DEF IInv
<1>1. cq[p] \in Seq(WrId) /\ polled[p] \in Seq(WrId)
  BY <1>0, PeerTypes
<1> DEFINE n == IF Len(cq[p]) < MaxCompletions THEN Len(cq[p]) ELSE MaxCompletions
           oldest == SubSeq(cq[p], 1, n)
           rest   == SubSeq(cq[p], n + 1, Len(cq[p]))
<1>2. n \in 0 .. Len(cq[p])
  <2>1. cq \in [Peers -> Seq(WrId)] /\ Len(cq[p]) \in Nat
    BY <1>0, <1>1, LenProperties, TypeOKQueues DEF QueuesOK
  <2> QED
    BY <2>1, BoundsAssumption
<1>3. /\ polled' = [polled EXCEPT ![p] = @ \o oldest]
      /\ cq' = [cq EXCEPT ![p] = rest]
      /\ UNCHANGED <<in_flight, inbox, pw, posted, received>>
  BY DEF PollCq, netVars
<1> HIDE DEF n
<1>4. oldest \in Seq(WrId) /\ rest \in Seq(WrId) /\ oldest \o rest = cq[p]
  BY <1>1, <1>2, SplitAt
<1> HIDE DEF oldest, rest
<1>5. /\ polled[p] \o oldest \in Seq(WrId)
      /\ (polled[p] \o oldest) \o rest = polled[p] \o cq[p]
  <2>1. polled[p] \o oldest \in Seq(WrId)
    BY <1>1, <1>4, ConcatProperties
  <2>2. (polled[p] \o oldest) \o rest = polled[p] \o (oldest \o rest)
    <3>1. polled \in [Peers -> Seq(WrId)] /\ oldest \in Seq(WrId) /\ rest \in Seq(WrId)
      BY <1>0, <1>4, TypeOKQueues DEF QueuesOK
    <3> QED
      BY <3>1, ConcatAssociative
  <2> QED
    BY <1>4, <2>1, <2>2
<1>6. QueuesOK /\ QueuesOK'
  BY <1>0, <1>3, <1>4, <1>5, TypeOKQueues DEF QueuesOK
<1>7. TypeOK'
  BY <1>0, <1>6 DEF PollCq, TypeOK, QueuesOK, clientVars, netVars
<1>8. HandInv' /\ CountInv' /\ SentInv' /\ PendingExact' /\ ExactlyOnceInOrder'
  BY <1>0 DEF PollCq, HandInv, Holds, CountInv, SentInv, PendingExact, Uncounted,
              ExactlyOnceInOrder, InHand, clientVars, netVars
<1>9. \A q \in Peers : polled'[q] \o cq'[q] = polled[q] \o cq[q]
  BY <1>3, <1>5, <1>6 DEF QueuesOK
<1>10. CompletionFollowsDelivery'
  BY <1>0, <1>9 DEF PollCq, CompletionFollowsDelivery, netVars
<1> QED
  BY <1>7, <1>8, <1>10 DEF IInv

\* The other steps of the client move no write and count none.
LEMMA ClientIInv ==
  ASSUME IInv, NEW p \in Peers, Flush(p) \/ FlushReturn(p) \/ Destroy(p)
  PROVE  IInv'
<1>0. /\ TypeOK /\ HandInv /\ CountInv /\ SentInv
      /\ ExactlyOnceInOrder /\ CompletionFollowsDelivery /\ PendingExact
  BY DEF IInv
<1>1. /\ client' \in Client /\ client.op # "count" /\ client'.op # "count"
      /\ stop' \in [Peers -> BOOLEAN]
  <2>1. client \in Client /\ stop \in [Peers -> BOOLEAN]
    BY <1>0 DEF TypeOK
  <2>2. CASE Flush(p)
    BY <2>1, <2>2 DEF Flush, Idle, Client
  <2>3. CASE FlushReturn(p)
    BY <2>1, <2>3 DEF FlushReturn, Client
  <2>4. CASE Destroy(p)
    <3>1. stop' \in [Peers -> BOOLEAN]
      BY <2>1, <2>4, Zenon DEF Destroy
    <3> QED
      BY <2>1, <2>4, <3>1 DEF Destroy, Client
  <2> QED
    BY <2>2, <2>3, <2>4
<1>2. /\ UNCHANGED <<rdma_ops, bytes_sent, in_flight, due, inbox, cq, pending_wr>>
      /\ UNCHANGED <<net, pw, posted, received, polled>>
  BY DEF Flush, FlushReturn, Destroy, netVars
<1>3. TypeOK'
  BY <1>0, <1>1, <1>2 DEF TypeOK
<1>4. HandInv' /\ CountInv' /\ ExactlyOnceInOrder' /\ CompletionFollowsDelivery'
  BY <1>0, <1>2 DEF HandInv, Holds, CountInv, ExactlyOnceInOrder,
                    CompletionFollowsDelivery, InHand
<1>5. SentInv'
  BY <1>0, <1>1, <1>2 DEF SentInv
<1>6. PendingExact'
  <2>1. \A q \in Peers : Uncounted(q) = 0 /\ Uncounted(q)' = 0
    BY <1>1 DEF Uncounted
  <2> QED
    BY <1>0, <1>2, <2>1 DEF PendingExact
<1> QED
  BY <1>3, <1>4, <1>5, <1>6 DEF IInv

\* So do the loop test, an empty round of the network thread and the clock.
LEMMA IdleRoundIInv ==
  ASSUME IInv, NEW p \in Peers, LoopTest(p) \/ NothingDue(p) \/ BecomeDue(p)
  PROVE  IInv'
<1>0. /\ TypeOK /\ HandInv /\ CountInv /\ SentInv
      /\ ExactlyOnceInOrder /\ CompletionFollowsDelivery /\ PendingExact
  BY DEF IInv
<1>1. /\ UNCHANGED <<rdma_ops, bytes_sent, client, in_flight, inbox, cq, pending_wr>>
      /\ UNCHANGED <<stop, pw, posted, received, polled>>
  BY DEF LoopTest, NothingDue, BecomeDue, clientVars, netVars
<1>2. QueuesOK /\ due \in [Peers -> 0 .. MaxPosts] /\ net \in [Peers -> Net]
  BY <1>0, TypeOKQueues DEF TypeOK
<1>3. /\ due' \in [Peers -> 0 .. MaxPosts]
      /\ \A q \in Peers : due'[q] <= Len(in_flight[q])
  <2>1. CASE BecomeDue(p)
    <3>1. Len(in_flight[p]) \in Nat /\ Len(pw[p]) \in Nat /\ Len(posted[p]) \in Nat
      BY <1>0, PeerTypes
    <3>2. Len(in_flight[p]) <= MaxPosts
      BY <1>0, <1>2, <3>1, BoundsAssumption DEF CountInv, TypeOK, QueuesOK
    <3>3. due[p] + 1 \in 0 .. MaxPosts /\ due[p] + 1 <= Len(in_flight[p])
      BY <1>2, <2>1, <3>1, <3>2, BoundsAssumption DEF BecomeDue, QueuesOK
    <3> QED
      BY <1>0, <1>2, <2>1, <3>3 DEF BecomeDue, CountInv
  <2>2. CASE LoopTest(p) \/ NothingDue(p)
    BY <1>0, <1>2, <2>2 DEF LoopTest, NothingDue, CountInv
  <2> QED
    BY <2>1, <2>2
<1>4. /\ net' \in [Peers -> Net]
      /\ \A q \in Peers : Holds(q)' = Holds(q)
      /\ \A q \in Peers : (net'[q] = "deliver") = (net[q] = "deliver")
      /\ \A q \in Peers : (net'[q] = "complete") = (net[q] = "complete")
  <2>1. CASE LoopTest(p)
    BY <1>2, <2>1 DEF LoopTest, NetGoto, Net, Holds
  <2>2. CASE NothingDue(p)
    BY <1>2, <2>2 DEF NothingDue, NetGoto, Net, Holds
  <2>3. CASE BecomeDue(p)
    BY <1>2, <2>3 DEF BecomeDue, netVars, Holds
  <2> QED
    BY <2>1, <2>2, <2>3
<1>5. TypeOK'
  BY <1>0, <1>1, <1>3, <1>4 DEF TypeOK
<1>6. HandInv'
  BY <1>0, <1>1, <1>4 DEF HandInv
<1>7. CountInv' /\ SentInv' /\ PendingExact'
  BY <1>0, <1>1, <1>3 DEF CountInv, SentInv, PendingExact, Uncounted
<1>8. ExactlyOnceInOrder' /\ CompletionFollowsDelivery'
  BY <1>0, <1>1, <1>4 DEF ExactlyOnceInOrder, CompletionFollowsDelivery, InHand
<1> QED
  BY <1>5, <1>6, <1>7, <1>8 DEF IInv

\* The oldest write in flight moves into the thread's hand.
LEMMA PopFrontIInv ==
  ASSUME IInv, NEW p \in Peers, PopFront(p)
  PROVE  IInv'
<1>0. /\ TypeOK /\ HandInv /\ CountInv /\ SentInv
      /\ ExactlyOnceInOrder /\ CompletionFollowsDelivery /\ PendingExact
  BY DEF IInv
<1>1. QueuesOK /\ due \in [Peers -> 0 .. MaxPosts] /\ net \in [Peers -> Net]
  BY <1>0, TypeOKQueues DEF TypeOK
<1>2. /\ in_flight[p] \in Seq(WrId) /\ Len(in_flight[p]) \in Nat
      /\ received[p] \o inbox[p] \in Seq(WrId) /\ pw[p] = <<>> /\ net[p] = "wait"
      /\ posted[p] \in Seq(WrId) /\ Len(posted[p]) \in Nat
  BY <1>0, PeerTypes DEF HandInv, Holds, PopFront
<1>3. in_flight[p] # <<>>
  <2>1. due[p] > 0 /\ due[p] <= Len(in_flight[p]) /\ due[p] \in Nat
    BY <1>0, PeerTypes DEF PopFront, CountInv
  <2>2. Len(in_flight[p]) # 0
    BY <1>1, <1>2, <2>1 DEF QueuesOK
  <2> QED
    BY <2>2
<1>4. /\ <<Head(in_flight[p])>> \in Seq(WrId) /\ Len(<<Head(in_flight[p])>>) = 1
      /\ Tail(in_flight[p]) \in Seq(WrId)
      /\ <<Head(in_flight[p])>> \o Tail(in_flight[p]) = in_flight[p]
      /\ Len(Tail(in_flight[p])) = Len(in_flight[p]) - 1
  BY <1>2, <1>3, HeadThenTail, HeadTailProperties
<1>5. QueuesOK'
  BY <1>1, <1>4 DEF PopFront, QueuesOK
<1>6. due' \in [Peers -> 0 .. MaxPosts] /\ net' \in [Peers -> Net]
  BY <1>1, BoundsAssumption DEF PopFront, NetGoto, Net
<1>7. TypeOK'
  BY <1>0, <1>5, <1>6 DEF PopFront, TypeOK, QueuesOK, clientVars
<1>8. HandInv'
  BY <1>0, <1>1, <1>4 DEF PopFront, NetGoto, HandInv, Holds, QueuesOK
<1>9. /\ \A q \in Peers \ {p} : UNCHANGED <<in_flight[q], pw[q], due[q], net[q]>>
      /\ Len(in_flight'[p]) = Len(in_flight[p]) - 1 /\ Len(pw'[p]) = 1
      /\ due'[p] = due[p] - 1
      /\ pw'[p] = <<Head(in_flight[p])>> /\ in_flight'[p] = Tail(in_flight[p])
      /\ net'[p] = "deliver"
  BY <1>1, <1>4 DEF PopFront, NetGoto, QueuesOK
<1>10. CountInv'
  <2> SUFFICES ASSUME NEW q \in Peers
               PROVE  /\ due'[q] <= Len(in_flight'[q])
                      /\ Len(in_flight'[q]) + Len(pw'[q]) <= Len(posted'[q])
                      /\ Len(posted'[q]) <= rdma_ops'
    BY DEF CountInv
  <2>1. /\ due[q] <= Len(in_flight[q])
        /\ Len(in_flight[q]) + Len(pw[q]) <= Len(posted[q])
        /\ Len(posted[q]) <= rdma_ops
        /\ posted' = posted /\ rdma_ops' = rdma_ops
    BY <1>0 DEF CountInv, PopFront, clientVars
  <2>2. CASE q = p
    <3>1. Len(pw[p]) = 0 /\ due[p] \in Nat
      BY <1>1, <1>2
    <3>2. due[p] - 1 <= Len(in_flight[p]) - 1
      BY <1>1, <1>2, <2>1, <2>2, <3>1 DEF QueuesOK
    <3>3. (Len(in_flight[p]) - 1) + 1 <= Len(posted[p])
      BY <1>1, <1>2, <2>1, <2>2, <3>1 DEF QueuesOK
    <3> QED
      BY <1>9, <2>1, <2>2, <3>2, <3>3
  <2>3. CASE q # p
    BY <1>9, <2>1, <2>3
  <2> QED
    BY <2>2, <2>3
<1>11. SentInv'
  BY <1>0 DEF PopFront, SentInv, clientVars
<1>12. ExactlyOnceInOrder'
  <2> DEFINE there == received[p] \o inbox[p]
  <2>1. there \in Seq(WrId) /\ there \o <<>> \o in_flight[p] = posted[p]
    BY <1>0, <1>2 DEF ExactlyOnceInOrder, InHand
  <2> HIDE DEF there
  <2>2. there \o <<>> = there
    BY <2>1, ConcatEmptySeq
  <2>3. (there \o <<Head(in_flight[p])>>) \o Tail(in_flight[p])
          = there \o (<<Head(in_flight[p])>> \o Tail(in_flight[p]))
    <3> DEFINE first == <<Head(in_flight[p])>>
               others == Tail(in_flight[p])
    <3>1. there \in Seq(WrId) /\ first \in Seq(WrId) /\ others \in Seq(WrId)
      BY <1>4, <2>1
    <3> HIDE DEF first, others
    <3>2. (there \o first) \o others = there \o (first \o others)
      BY <3>1, ConcatAssociative
    <3> QED
      BY <3>2 DEF first, others
  <2>4. (there \o <<Head(in_flight[p])>>) \o Tail(in_flight[p]) = posted[p]
    BY <1>4, <2>1, <2>2, <2>3
  <2>5. InHand(p)' = <<Head(in_flight[p])>>
        /\ \A q \in Peers \ {p} : InHand(q)' = InHand(q)
    BY <1>9 DEF InHand
  <2>6. UNCHANGED <<received, inbox, posted>>
    BY DEF PopFront
  <2> SUFFICES ASSUME NEW q \in Peers
               PROVE  received'[q] \o inbox'[q] \o InHand(q)' \o in_flight'[q] = posted'[q]
    BY DEF ExactlyOnceInOrder
  <2>7. CASE q = p
    BY <1>9, <2>4, <2>5, <2>6, <2>7 DEF there
  <2>8. CASE q # p
    BY <1>0, <1>9, <2>5, <2>6, <2>8 DEF ExactlyOnceInOrder
  <2> QED
    BY <2>7, <2>8
<1>13. CompletionFollowsDelivery'
  BY <1>0, <1>2, <1>9 DEF PopFront, CompletionFollowsDelivery
<1>14. PendingExact'
  <2>1. Len(in_flight'[p]) + Len(pw'[p]) = Len(in_flight[p]) + Len(pw[p])
    BY <1>1, <1>2, <1>5, <1>9 DEF QueuesOK
  <2> QED
    BY <1>0, <1>9, <2>1 DEF PopFront, PendingExact, Uncounted, clientVars
<1> QED
  BY <1>7, <1>8, <1>10, <1>11, <1>12, <1>13, <1>14 DEF IInv

\* The write in hand joins the inbox behind the earlier ones.
LEMMA PushInboxIInv ==
  ASSUME IInv, NEW p \in Peers, PushInbox(p)
  PROVE  IInv'
<1>0. /\ TypeOK /\ HandInv /\ CountInv /\ SentInv
      /\ ExactlyOnceInOrder /\ CompletionFollowsDelivery /\ PendingExact
  BY DEF IInv
<1>1. QueuesOK /\ net \in [Peers -> Net]
  BY <1>0, TypeOKQueues DEF TypeOK
<1>2. inbox[p] \o pw[p] \in Seq(WrId)
  <2>1. inbox[p] \in Seq(WrId) /\ pw[p] \in Seq(WrId)
    BY <1>0, PeerTypes
  <2> QED
    BY <2>1, ConcatProperties
<1>3. QueuesOK' /\ net' \in [Peers -> Net]
  BY <1>1, <1>2 DEF PushInbox, NetGoto, Net, QueuesOK
<1>4. TypeOK'
  BY <1>0, <1>3 DEF PushInbox, TypeOK, QueuesOK, clientVars
<1>5. HandInv'
  BY <1>0, <1>1 DEF PushInbox, NetGoto, HandInv, Holds
<1>6. CountInv' /\ SentInv' /\ PendingExact'
  BY <1>0 DEF PushInbox, CountInv, SentInv, PendingExact, Uncounted, clientVars
<1>7. /\ \A q \in Peers \ {p} : UNCHANGED <<inbox[q], net[q]>>
      /\ inbox'[p] = inbox[p] \o pw[p] /\ net[p] = "deliver" /\ net'[p] = "complete"
      /\ UNCHANGED <<received, in_flight, posted, pw, polled, cq>>
  BY <1>1 DEF PushInbox, NetGoto, QueuesOK
<1>8. received[p] \o (inbox[p] \o pw[p]) = (received[p] \o inbox[p]) \o pw[p]
  <2>1. /\ received \in [Peers -> Seq(WrId)] /\ inbox \in [Peers -> Seq(WrId)]
        /\ pw \in [Peers -> Seq(WrId)]
    BY <1>1 DEF QueuesOK
  <2> QED
    BY <2>1, ConcatAssociative
<1>9. ExactlyOnceInOrder'
  <2> DEFINE there == (received[p] \o inbox[p]) \o pw[p]
  <2>1. there \o <<>> = there
    <3>1. there \in Seq(WrId)
      <4>1. received[p] \o inbox[p] \in Seq(WrId) /\ pw[p] \in Seq(WrId)
        BY <1>0, PeerTypes
      <4> QED
        BY <4>1, ConcatProperties
    <3> HIDE DEF there
    <3> QED
      BY <3>1, ConcatEmptySeq
  <2>2. there \o in_flight[p] = posted[p]
    BY <1>0, <1>7 DEF ExactlyOnceInOrder, InHand
  <2>3. InHand(p)' = <<>> /\ \A q \in Peers \ {p} : InHand(q)' = InHand(q)
    BY <1>7 DEF InHand
  <2>4. received'[p] \o inbox'[p] = there
    BY <1>7, <1>8
  <2> HIDE DEF there
  <2> SUFFICES ASSUME NEW q \in Peers
               PROVE  received'[q] \o inbox'[q] \o InHand(q)' \o in_flight'[q] = posted'[q]
    BY DEF ExactlyOnceInOrder
  <2>5. CASE q = p
    BY <1>7, <2>1, <2>2, <2>3, <2>4, <2>5
  <2>6. CASE q # p
    BY <1>0, <1>7, <2>3, <2>6 DEF ExactlyOnceInOrder
  <2> QED
    BY <2>5, <2>6
<1>10. CompletionFollowsDelivery'
  <2> DEFINE before(q) == IF net[q] = "complete" THEN pw[q] ELSE <<>>
             after(q)  == IF net'[q] = "complete" THEN pw'[q] ELSE <<>>
  <2>1. \A q \in Peers : received[q] \o inbox[q] = (polled[q] \o cq[q]) \o before(q)
    BY <1>0 DEF CompletionFollowsDelivery
  <2>2. (polled[p] \o cq[p]) \o <<>> = polled[p] \o cq[p]
    <3>1. polled[p] \o cq[p] \in Seq(WrId)
      BY <1>0, PeerTypes
    <3> QED
      BY <3>1, ConcatEmptySeq
  <2>3. /\ before(p) = <<>> /\ after(p) = pw[p]
        /\ \A q \in Peers \ {p} : after(q) = before(q)
    BY <1>7
  <2> HIDE DEF before, after
  <2>4. received'[p] \o inbox'[p] = (polled[p] \o cq[p]) \o pw[p]
    BY <1>7, <1>8, <2>1, <2>2, <2>3
  <2>5. \A q \in Peers : received'[q] \o inbox'[q] = (polled'[q] \o cq'[q]) \o after(q)
    BY <1>7, <2>1, <2>3, <2>4
  <2> QED
    BY <2>5 DEF after, CompletionFollowsDelivery
<1> QED
  BY <1>4, <1>5, <1>6, <1>9, <1>10 DEF IInv

\* Its completion is queued behind those of the earlier ones.
LEMMA PushCompletionIInv ==
  ASSUME IInv, NEW p \in Peers, PushCompletion(p)
  PROVE  IInv'
<1>0. /\ TypeOK /\ HandInv /\ CountInv /\ SentInv
      /\ ExactlyOnceInOrder /\ CompletionFollowsDelivery /\ PendingExact
  BY DEF IInv
<1>1. QueuesOK /\ net \in [Peers -> Net]
  BY <1>0, TypeOKQueues DEF TypeOK
<1>2. cq[p] \o pw[p] \in Seq(WrId)
  <2>1. cq[p] \in Seq(WrId) /\ pw[p] \in Seq(WrId)
    BY <1>0, PeerTypes
  <2> QED
    BY <2>1, ConcatProperties
<1>3. QueuesOK' /\ net' \in [Peers -> Net]
  BY <1>1, <1>2 DEF PushCompletion, NetGoto, Net, QueuesOK
<1>4. TypeOK'
  BY <1>0, <1>3 DEF PushCompletion, TypeOK, QueuesOK, clientVars
<1>5. HandInv'
  BY <1>0, <1>1 DEF PushCompletion, NetGoto, HandInv, Holds
<1>6. CountInv' /\ SentInv' /\ PendingExact'
  BY <1>0 DEF PushCompletion, CountInv, SentInv, PendingExact, Uncounted, clientVars
<1>7. /\ \A q \in Peers \ {p} : UNCHANGED <<cq[q], net[q]>>
      /\ cq'[p] = cq[p] \o pw[p] /\ net[p] = "complete" /\ net'[p] = "decrement"
      /\ UNCHANGED <<received, inbox, in_flight, posted, pw, polled>>
  BY <1>1 DEF PushCompletion, NetGoto, QueuesOK
<1>8. polled[p] \o (cq[p] \o pw[p]) = (polled[p] \o cq[p]) \o pw[p]
  <2>1. /\ polled \in [Peers -> Seq(WrId)] /\ cq \in [Peers -> Seq(WrId)]
        /\ pw \in [Peers -> Seq(WrId)]
    BY <1>1 DEF QueuesOK
  <2> QED
    BY <2>1, ConcatAssociative
<1>9. ExactlyOnceInOrder'
  <2>1. \A q \in Peers : InHand(q)' = InHand(q)
    BY <1>7 DEF InHand
  <2> QED
    BY <1>0, <1>7, <2>1 DEF ExactlyOnceInOrder
<1>10. CompletionFollowsDelivery'
  <2> DEFINE before(q) == IF net[q] = "complete" THEN pw[q] ELSE <<>>
             after(q)  == IF net'[q] = "complete" THEN pw'[q] ELSE <<>>
  <2>1. \A q \in Peers : received[q] \o inbox[q] = (polled[q] \o cq[q]) \o before(q)
    BY <1>0 DEF CompletionFollowsDelivery
  <2>2. /\ before(p) = pw[p] /\ after(p) = <<>>
        /\ \A q \in Peers \ {p} : after(q) = before(q)
    BY <1>7
  <2> HIDE DEF before, after
  <2>3. polled'[p] \o cq'[p] = received[p] \o inbox[p]
    BY <1>7, <1>8, <2>1, <2>2
  <2>4. (received[p] \o inbox[p]) \o <<>> = received[p] \o inbox[p]
    <3>1. received[p] \o inbox[p] \in Seq(WrId)
      BY <1>0, PeerTypes
    <3> QED
      BY <3>1, ConcatEmptySeq
  <2>5. \A q \in Peers : received'[q] \o inbox'[q] = (polled'[q] \o cq'[q]) \o after(q)
    BY <1>7, <2>1, <2>2, <2>3, <2>4
  <2> QED
    BY <2>5 DEF after, CompletionFollowsDelivery
<1> QED
  BY <1>4, <1>5, <1>6, <1>9, <1>10 DEF IInv

\* The write is counted down, below zero when the client has yet to count it.
LEMMA DecrementIInv ==
  ASSUME IInv, NEW p \in Peers, Decrement(p)
  PROVE  IInv'
<1>0. /\ TypeOK /\ HandInv /\ CountInv /\ SentInv
      /\ ExactlyOnceInOrder /\ CompletionFollowsDelivery /\ PendingExact
  BY DEF IInv
<1>1. /\ QueuesOK /\ net \in [Peers -> Net]
      /\ pending_wr \in [Peers -> 0 .. PendingMod - 1]
  BY <1>0, TypeOKQueues DEF TypeOK
<1>2. PendingMod \in Nat \ {0}
  BY ModAssumption, BoundsAssumption
<1>3. /\ pending_wr[p] \in 0 .. PendingMod - 1
      /\ Decremented(pending_wr[p])
           = IF pending_wr[p] = 0 THEN PendingMod - 1 ELSE pending_wr[p] - 1
  BY <1>1, CounterSteps
<1>4. QueuesOK' /\ net' \in [Peers -> Net]
      /\ pending_wr' \in [Peers -> 0 .. PendingMod - 1]
  <2>1. Decremented(pending_wr[p]) \in 0 .. PendingMod - 1
    BY <1>2, <1>3
  <2>2. pending_wr' \in [Peers -> 0 .. PendingMod - 1]
    BY <1>1, <2>1 DEF Decrement
  <2> QED
    BY <1>1, <2>2 DEF Decrement, NetGoto, Net, QueuesOK
<1>5. TypeOK'
  BY <1>0, <1>4 DEF Decrement, TypeOK, QueuesOK, clientVars
<1>6. /\ \A q \in Peers \ {p} : UNCHANGED <<pending_wr[q], pw[q], net[q]>>
      /\ pending_wr'[p] = Decremented(pending_wr[p])
      /\ pw'[p] = <<>> /\ net[p] = "decrement" /\ net'[p] = "wait"
      /\ UNCHANGED <<rdma_ops, bytes_sent, client, in_flight, due, inbox, cq>>
      /\ UNCHANGED <<posted, received, polled>>
  BY <1>1 DEF Decrement, NetGoto, QueuesOK, clientVars
<1>7. HandInv'
  BY <1>0, <1>6 DEF HandInv, Holds
<1>8. Len(pw[p]) = 1
  BY <1>0, <1>6 DEF HandInv, Holds
<1>9. Len(in_flight[p]) \in Nat /\ Len(posted[p]) \in Nat /\ rdma_ops \in 0 .. MaxPosts
  BY <1>0, PeerTypes DEF TypeOK
<1>10. CountInv'
  <2> SUFFICES ASSUME NEW q \in Peers
               PROVE  /\ due[q] <= Len(in_flight[q])
                      /\ Len(in_flight[q]) + Len(pw'[q]) <= Len(posted[q])
                      /\ Len(posted[q]) <= rdma_ops
    BY <1>6 DEF CountInv
  <2>1. /\ due[q] <= Len(in_flight[q])
        /\ Len(in_flight[q]) + Len(pw[q]) <= Len(posted[q])
        /\ Len(posted[q]) <= rdma_ops
    BY <1>0 DEF CountInv
  <2>2. CASE q = p
    <3>1. Len(in_flight[p]) + 0 <= Len(posted[p])
      BY <1>1, <1>8, <1>9, <2>1, <2>2 DEF QueuesOK
    <3>2. Len(pw'[p]) = 0
      BY <1>6
    <3> QED
      BY <2>1, <2>2, <3>1, <3>2
  <2>3. CASE q # p
    BY <1>6, <2>1, <2>3
  <2> QED
    BY <2>2, <2>3
<1>11. SentInv'
  BY <1>0, <1>6 DEF SentInv
<1>12. ExactlyOnceInOrder' /\ CompletionFollowsDelivery'
  <2>1. \A q \in Peers : InHand(q)' = InHand(q)
    BY <1>6 DEF InHand
  <2> QED
    BY <1>0, <1>6, <2>1 DEF ExactlyOnceInOrder, CompletionFollowsDelivery
<1>13. PendingExact'
  <2>1. \A q \in Peers : Uncounted(q)' = Uncounted(q)
    BY <1>6 DEF Uncounted
  <2> DEFINE n == pending_wr[p]
             u == Uncounted(p)
             l == Len(in_flight[p])
  <2>2. n \in 0 .. PendingMod - 1 /\ u \in {0, 1} /\ l \in Nat
    BY <1>3, <1>9 DEF Uncounted
  <2>3. l + 1 < PendingMod
    <3>1. l + Len(pw[p]) <= Len(posted[p]) /\ Len(posted[p]) <= rdma_ops
      BY <1>0 DEF CountInv
    <3> QED
      BY <1>1, <1>8, <1>9, <3>1, ModAssumption, BoundsAssumption DEF QueuesOK
  <2>4. (n + u) % PendingMod = l + 1
    BY <1>0, <1>8 DEF PendingExact
  <2>5. Decremented(n) = IF n = 0 THEN PendingMod - 1 ELSE n - 1
    BY <1>3
  <2> HIDE DEF n, u, l
  <2>6. (Decremented(n) + u) % PendingMod = l
    <3>1. CASE u = 0
      <4>1. n + 0 = n /\ n % PendingMod = n
        BY <2>2, CounterSteps
      <4>2. n = l + 1 /\ Decremented(n) = l
        BY <2>2, <2>4, <2>5, <3>1, <4>1
      <4>3. l \in 0 .. PendingMod - 1 /\ l + 0 = l
        BY <1>2, <2>2, <2>3
      <4>4. l % PendingMod = l
        BY <4>3, CounterSteps
      <4> QED
        BY <3>1, <4>2, <4>3, <4>4
    <3>2. CASE u = 1
      <4>1. (n + 1) % PendingMod = IF n = PendingMod - 1 THEN 0 ELSE n + 1
        BY <2>2, CounterSteps
      <4>2. n = l
        BY <1>2, <2>2, <2>4, <3>2, <4>1
      <4>3. Decremented(n) \in 0 .. PendingMod - 1
        BY <1>2, <2>2, <2>5
      <4>4. (Decremented(n) + 1) % PendingMod
              = IF Decremented(n) = PendingMod - 1 THEN 0 ELSE Decremented(n) + 1
        BY <4>3, CounterSteps
      <4> QED
        BY <1>2, <2>2, <2>3, <2>5, <3>2, <4>2, <4>4
    <3> QED
      BY <2>2, <3>1, <3>2
  <2>7. (pending_wr'[p] + Uncounted(p)') % PendingMod = Len(in_flight'[p]) + Len(pw'[p])
    <3>1. Len(in_flight[p]) + 0 = Len(in_flight[p])
      BY <1>1, <1>9 DEF QueuesOK
    <3>2. Len(pw'[p]) = 0
      BY <1>6
    <3> QED
      BY <1>6, <2>1, <2>6, <3>1, <3>2 DEF n, u, l
  <2> QED
    BY <1>0, <1>6, <2>1, <2>7 DEF PendingExact
<1> QED
  BY <1>5, <1>7, <1>10, <1>11, <1>12, <1>13 DEF IInv

\* Every step of the client, the network threads and the clock preserves the
\* inductive invariant.
LEMMA NextIInv == IInv /\ [Next]_vars => IInv'
<1> SUFFICES ASSUME IInv, [Next]_vars PROVE IInv'
  OBVIOUS
<1>1. CASE ClientStep
  BY <1>1, SendIInv, CountPostedIInv, DrainReceivedIInv, PollCqIInv, ClientIInv
     DEF ClientStep
<1>2. ASSUME NEW p \in Peers, NetStep(p) PROVE IInv'
  BY <1>2, IdleRoundIInv, PopFrontIInv, PushInboxIInv, PushCompletionIInv, DecrementIInv
     DEF NetStep
<1>3. ASSUME NEW p \in Peers, BecomeDue(p) PROVE IInv'
  BY <1>3, IdleRoundIInv
<1>4. CASE UNCHANGED vars
  BY <1>4 DEF IInv, TypeOK, HandInv, Holds, CountInv, SentInv, ExactlyOnceInOrder, InHand,
              CompletionFollowsDelivery, PendingExact, Uncounted, vars, clientVars, netVars
<1> QED
  BY <1>1, <1>2, <1>3, <1>4 DEF Next, Done

----------------------------------------------------------------------------
(* Theorems *)

\* The inductive invariant holds in every reachable state.
THEOREM Invariance == Spec => []IInv
  BY InitIInv, NextIInv, PTL DEF Spec

\* Every variable of the transport keeps its type: no more writes than
\* wr_ids, and pending_wr_ in the range of its width.
THEOREM TypeCorrect == Spec => []TypeOK
<1>1. IInv => TypeOK
  BY DEF IInv
<1> QED
  BY <1>1, Invariance, PTL

\* No write is lost, duplicated or overtaken between send() and
\* drain_received(), for any number of peers and of writes.
THEOREM OrderedDelivery == Spec => []ExactlyOnceInOrder
<1>1. IInv => ExactlyOnceInOrder
  BY DEF IInv
<1> QED
  BY <1>1, Invariance, PTL

\* A completion never runs ahead of the delivery it reports, and completions
\* come in the order of the deliveries.
THEOREM OrderedCompletion == Spec => []CompletionFollowsDelivery
<1>1. IInv => CompletionFollowsDelivery
  BY DEF IInv
<1> QED
  BY <1>1, Invariance, PTL

\* The wrap of pending_wr_ below zero is always transient: but for the write
\* the client has posted and not yet counted, it is the number of writes the
\* network thread has not finished.
THEOREM CounterExact == Spec => []PendingExact
<1>1. IInv => PendingExact
  BY DEF IInv
<1> QED
  BY <1>1, Invariance, PTL

\* flush() returns only when everything posted to that peer has been
\* delivered and completed, although it reads nothing but the counter.
THEOREM FlushSafety == Spec => []FlushComplete
<1>1. IInv => FlushComplete
  <2> SUFFICES ASSUME IInv, NEW p \in Peers,
                      client = [op |-> "flush", peer |-> p], NonePending(p)
               PROVE  /\ received[p] \o inbox[p] = posted[p]
                      /\ polled[p] \o cq[p] = posted[p]
    BY DEF FlushComplete
  <2>0. /\ TypeOK /\ HandInv /\ ExactlyOnceInOrder /\ CompletionFollowsDelivery
        /\ PendingExact /\ QueuesOK
    BY TypeOKQueues DEF IInv
  <2>1. Uncounted(p) = 0 /\ pending_wr[p] = 0
    BY DEF Uncounted, NonePending
  <2>2. 0 % PendingMod = 0
    BY ModAssumption, BoundsAssumption
  <2>3. Len(in_flight[p]) + Len(pw[p]) = 0
    <3>1. (0 + 0) % PendingMod = Len(in_flight[p]) + Len(pw[p])
      BY <2>0, <2>1 DEF PendingExact
    <3> QED
      BY <2>0, <2>2, <3>1 DEF QueuesOK
  <2>4. Len(in_flight[p]) = 0 /\ Len(pw[p]) = 0
    <3>1. Len(in_flight[p]) \in Nat /\ Len(pw[p]) \in Nat
      BY <2>0, PeerTypes
    <3> QED
      BY <2>0, <2>3, <3>1 DEF QueuesOK
  <2>5. in_flight[p] = <<>> /\ net[p] # "deliver" /\ net[p] # "complete"
    <3>1. in_flight[p] = <<>>
      BY <2>0, <2>4, EmptySeq DEF QueuesOK
    <3>2. ~Holds(p)
      BY <2>0, <2>4 DEF HandInv
    <3> QED
      BY <3>1, <3>2 DEF Holds
  <2>6. /\ received[p] \o inbox[p] \in Seq(WrId) /\ polled[p] \o cq[p] \in Seq(WrId)
    BY <2>0, PeerTypes
  <2>7. received[p] \o inbox[p] \o <<>> \o <<>> = posted[p]
    BY <2>0, <2>5 DEF ExactlyOnceInOrder, InHand
  <2>8. received[p] \o inbox[p] = (polled[p] \o cq[p]) \o <<>>
    BY <2>0, <2>5 DEF CompletionFollowsDelivery
  <2>9. received[p] \o inbox[p] = posted[p]
    BY <2>6, <2>7, ConcatEmptySeq
  <2>10. (polled[p] \o cq[p]) \o <<>> = polled[p] \o cq[p]
    BY <2>6, ConcatEmptySeq
  <2> QED
    BY <2>8, <2>9, <2>10
<1> QED
  BY <1>1, Invariance, PTL
============================================================================

-------------------------- MODULE OrderBookProofs --------------------------
(***************************************************************************)
(* Proofs about OrderBook, for every graph with the builder's edges and    *)
(* every price, quantity and random walk.                                  *)
(***************************************************************************)
EXTENDS OrderBook, TLAPS

EngineOK ==
  /\ superstep \in 0 .. MaxSupersteps - 1 /\ phase \in {"build", "compute"}
  /\ todo \subseteq Vertices /\ computed \subseteq Vertices /\ handled \subseteq mail
  /\ halted \in [Vertices -> BOOLEAN]
  /\ phase = "build" \/ todo = {} => handled = {}

UpdateBody == [type : {"PRICE_UPDATE"}, bid : Int, ask : Int, bid_qty : Nat, ask_qty : Nat]

IsSignal(m) == m.body.type = "ARBITRAGE_SIGNAL"

\* What is on its way: price updates, fills to levels only and signals to
\* levels and venues only.
Good(m) ==
  /\ m.src \in Vertices /\ m.dst \in Vertices /\ m.step \in 0 .. superstep
  /\ \/ m.body \in UpdateBody
     \/ m.dst \in Levels /\ IsFill(m) /\ m.body.qty \in Nat
     \/ m.dst \in Levels \cup Venues /\ IsSignal(m)

MessageInv == \A m \in InTransit : Good(m)

\* No order is ever filled or cancelled.
OrderOK ==
  /\ order \in [Orders -> OrderState] /\ last_offer \in [Orders -> -1 .. superstep]
  /\ \A o \in Orders : order[o].filled = 0 /\ order[o].active

LevelOK ==
  /\ level \in [Levels -> LevelState] /\ fills \in [Levels -> [number : Nat, sum : Nat]]
  /\ LevelAccount

VenueOK == venue \in [Venues -> VenueState]

MakerOK == maker \in [Makers -> MakerState]

Inv == EngineOK /\ MessageInv /\ OrderOK /\ LevelOK /\ VenueOK /\ MakerOK

----------------------------------------------------------------------------
USE VertexAssumption, EdgeAssumption, BookAssumption, ParameterAssumption

\* The half spread is a natural number.
LEMMA HalfSpreadType == HalfSpread \in Nat
  BY DEF HalfSpread

\* send_message() fills in source, destination and superstep.
LEMMA MessagesSent ==
  ASSUME NEW v, NEW D, NEW body, NEW m \in Messages(v, D, body)
  PROVE  m.src = v /\ m.dst \in D /\ m.step = superstep /\ m.body = body
  BY DEF Messages

\* The targets of a vertex are ends of its edges, by the kind of the vertex.
LEMMA TargetsType ==
  ASSUME NEW v \in Vertices, NEW types
  PROVE  /\ Targets(v, types) \subseteq Vertices
         /\ v \in Venues => Targets(v, types) \subseteq Levels \cup Makers
         /\ v \in Orders => Targets(v, types) \subseteq Levels
         /\ v \in Makers => Targets(v, types) \subseteq Venues \cup Levels
         /\ v \in Levels => Targets(v, {1}) \subseteq Orders /\ Targets(v, {2}) \subseteq Venues
  <1>1. ASSUME NEW d \in Targets(v, types)
        PROVE  \E e \in Edges[v] : d = e.dst /\ e.dst \in Vertices
    BY <1>1 DEF Targets
  <1>2. v \in Levels => Targets(v, {1}) \subseteq Orders /\ Targets(v, {2}) \subseteq Venues
    BY DEF Targets
  <1> QED
    BY <1>1, <1>2

\* Within a superstep, what is good stays good.
LEMMA GoodStable ==
  ASSUME superstep' = superstep, NEW n
  PROVE  Good(n)' <=> Good(n)
  BY DEF Good, IsFill, IsSignal

\* The loop over the inbox: the message is a good one for this vertex, and
\* the engine's variables keep their types if what is sent is good.
LEMMA ReceiveEngine ==
  ASSUME Inv, NEW v \in Vertices, NEW m \in mail, Receive(v, m),
         NEW msgs, outbox' = outbox \cup msgs, \A n \in msgs : Good(n)
  PROVE  m.dst = v /\ Good(m) /\ superstep' = superstep /\ EngineOK' /\ MessageInv'
  <1>1. m.dst = v /\ Good(m) /\ superstep' = superstep /\ mail' = mail /\ sent' = sent
    BY DEF Inv, MessageInv, InTransit, Receive, Unhandled, MailOf
  <1>2. \A n \in InTransit' : Good(n)
    BY <1>1 DEF InTransit, Inv, MessageInv
  <1>3. MessageInv'
    BY <1>1, <1>2, GoodStable DEF MessageInv
  <1> QED
    BY <1>1, <1>3 DEF Inv, EngineOK, Receive, Turn, Unhandled, MailOf

\* compute() returns: the same, with the messages sent after the loop.
LEMMA ReturnEngine ==
  ASSUME Inv, NEW v \in Vertices, NEW halts \in BOOLEAN, NEW msgs, Return(v, halts, msgs),
         \A n \in msgs : Good(n)
  PROVE  superstep' = superstep /\ EngineOK' /\ MessageInv'
  <1>1. superstep' = superstep
    BY DEF Return
  <1>2. \A n \in InTransit' : Good(n)
    BY DEF InTransit, Inv, MessageInv, Return, MailOf
  <1>3. MessageInv'
    BY <1>1, <1>2, GoodStable DEF MessageInv
  <1>4. halted' \in [Vertices -> BOOLEAN]
    BY DEF Inv, EngineOK, Return
  <1> QED
    BY <1>1, <1>3, <1>4 DEF Inv, EngineOK, Return

\* What a step leaves alone stays as it is.
LEMMA StatesKept ==
  ASSUME Inv
  PROVE  /\ UNCHANGED <<superstep, order, last_offer>> => OrderOK'
         /\ UNCHANGED <<level, fills>> => LevelOK'
         /\ UNCHANGED venue => VenueOK'
         /\ UNCHANGED maker => MakerOK'
  BY DEF Inv, OrderOK, LevelOK, LevelAccount, VenueOK, MakerOK

\* A fill leaves a natural quantity and a natural count.
LEMMA FillTaken ==
  ASSUME NEW s \in LevelState, NEW q \in Nat
  PROVE  /\ LevelAfter(s, q).total = IF q >= s.total THEN 0 ELSE s.total - q
         /\ LevelAfter(s, q).count = IF q >= s.total \/ s.count = 0 THEN 0
                                     ELSE s.count - 1
         /\ LevelAfter(s, q) \in LevelState
  <1> DEFINE less == IF s.count > 0 THEN s.count - 1 ELSE 0
  <1>1. \A x, y \in Nat : [s EXCEPT !.total = x, !.count = y] \in LevelState
    BY DEF LevelState
  <1>2. CASE q >= s.total
    <2>1. LevelAfter(s, q) = [s EXCEPT !.total = 0, !.count = 0]
      BY <1>2 DEF LevelAfter
    <2>2. LevelAfter(s, q).total = 0 /\ LevelAfter(s, q).count = 0
      BY <2>1 DEF LevelState
    <2>3. 0 \in Nat
      OBVIOUS
    <2>4. [s EXCEPT !.total = 0, !.count = 0] \in LevelState
      BY <1>1, <2>3, Zenon
    <2>5. LevelAfter(s, q) \in LevelState
      BY <2>1, <2>4
    <2> QED
      BY <1>2, <2>2, <2>5
  <1>3. CASE ~(q >= s.total)
    <2>1. LevelAfter(s, q) = [s EXCEPT !.total = @ - q, !.count = IF @ > 0 THEN @ - 1 ELSE 0]
      BY <1>3 DEF LevelAfter
    <2>2. LevelAfter(s, q) = [s EXCEPT !.total = s.total - q, !.count = less]
      BY <2>1 DEF LevelState
    <2>3. s.total - q \in Nat /\ less \in Nat
      BY <1>3 DEF LevelState
    <2>4. LevelAfter(s, q).total = s.total - q
      BY <1>3 DEF LevelAfter, LevelState
    <2>5. LevelAfter(s, q).count = IF s.count = 0 THEN 0 ELSE s.count - 1
      BY <1>3 DEF LevelAfter, LevelState
    <2> HIDE DEF less
    <2>6. [s EXCEPT !.total = s.total - q, !.count = less] \in LevelState
      BY <1>1, <2>3, Zenon
    <2>7. LevelAfter(s, q) \in LevelState
      BY <2>2, <2>6
    <2> QED
      BY <1>3, <2>4, <2>5, <2>7
  <1> QED
    BY <1>2, <1>3

\* A price update leaves a venue with integer prices and natural sizes.
LEMMA VenueUpdated ==
  ASSUME NEW q \in VenueState, NEW b \in UpdateBody
  PROVE  WithBid(q, b) \in VenueState /\ WithAsk(q, b) \in VenueState
  <1> DEFINE best == IF b.bid > q.best_bid THEN b.bid ELSE q.best_bid
             bids == q.bid_size + b.bid_qty
             asks == q.ask_size + b.ask_qty
  <1>1. best \in Int /\ bids \in Nat /\ asks \in Nat /\ b.ask \in Int
    BY DEF VenueState, UpdateBody
  <1>2. /\ [q EXCEPT !.best_bid = IF b.bid > @ THEN b.bid ELSE @, !.bid_size = @ + b.bid_qty]
             = [q EXCEPT !.best_bid = best, !.bid_size = bids]
        /\ [q EXCEPT !.best_ask = b.ask, !.ask_size = @ + b.ask_qty]
             = [q EXCEPT !.best_ask = b.ask, !.ask_size = asks]
    BY DEF VenueState
  <1> HIDE DEF best, bids, asks
  <1>3. \A x \in Int, y \in Nat :
          /\ [q EXCEPT !.best_bid = x, !.bid_size = y] \in VenueState
          /\ [q EXCEPT !.best_ask = x, !.ask_size = y] \in VenueState
    BY DEF VenueState
  <1>4. WithBid(q, b) \in VenueState
    BY <1>1, <1>2, <1>3, Zenon DEF WithBid
  <1> QED
    BY <1>1, <1>2, <1>3, <1>4, Zenon DEF WithAsk

\* A venue's new quote has integer prices.
LEMMA QuoteMade ==
  ASSUME NEW q \in VenueState, NEW mid \in Int
  PROVE  Requoted(q, mid) \in VenueState
  <1>1. mid - HalfSpread \in Int /\ mid + HalfSpread \in Int
    BY HalfSpreadType
  <1>2. \A x, y \in Int : [q EXCEPT !.best_bid = x, !.best_ask = y] \in VenueState
    BY DEF VenueState
  <1> QED
    BY <1>1, <1>2, Zenon DEF Requoted

\* A market maker that learns a quote keeps its type.
LEMMA QuoteKnown ==
  ASSUME NEW s \in MakerState, NEW b, b.bid \in Int, b.ask \in Int
  PROVE  Known(s, b) \in MakerState
  <1> DEFINE bid == IF b.bid > 0 THEN b.bid ELSE s.bid
             ask == IF b.ask > 0 THEN b.ask ELSE s.ask
  <1>1. bid \in Int /\ ask \in Int
    BY DEF MakerState
  <1>2. Known(s, b) = [s EXCEPT !.bid = bid, !.ask = ask]
    BY DEF Known, MakerState
  <1> HIDE DEF bid, ask
  <1>3. \A x, y \in Int : [s EXCEPT !.bid = x, !.ask = y] \in MakerState
    BY DEF MakerState
  <1>4. [s EXCEPT !.bid = bid, !.ask = ask] \in MakerState
    BY <1>1, <1>3, Zenon
  <1> QED
    BY <1>2, <1>4

----------------------------------------------------------------------------
\* The initial state satisfies the invariant.
LEMMA InitInv == Init => Inv
  <1> SUFFICES ASSUME Init PROVE Inv
    OBVIOUS
  <1>1. EngineOK
    BY DEF Init, EngineOK
  <1>2. MessageInv
    BY DEF Init, MessageInv, InTransit
  <1>3. OrderOK
    BY DEF Init, OrderOK, OrderState
  <1>4. LevelOK
    BY DEF Init, LevelOK, LevelState, LevelAccount
  <1>5. VenueOK
    BY DEF Init, VenueOK, VenueState
  <1>6. MakerOK
    BY DEF Init, MakerOK, MakerState
  <1> QED
    BY <1>1, <1>2, <1>3, <1>4, <1>5, <1>6 DEF Inv

\* OrderVertex: only quotes come in, and only to levels fills go out.
LEMMA OrderStepInv ==
  ASSUME Inv, NEW o \in Orders, OrderStep(o)
  PROVE  Inv'
  <1> o \in Vertices
    BY DEF Vertices
  <1>1. CASE \E m \in mail : ReceiveOrder(o, m)
    <2>1. PICK m \in mail : ReceiveOrder(o, m)
      BY <1>1
    <2>2. m.dst = o /\ Good(m) /\ superstep' = superstep /\ EngineOK' /\ MessageInv'
      <3>1. outbox' = outbox \cup {}
        BY <2>1 DEF ReceiveOrder
      <3> QED
        BY <2>1, <3>1, ReceiveEngine DEF ReceiveOrder
    <2>3. m.body \in UpdateBody /\ IsUpdate(m)
      BY <2>2 DEF Good, UpdateBody, IsUpdate
    <2>4. OrderAfter(o, m) = [order[o] EXCEPT !.best = OwnSide(o, m.body)]
      BY <2>3 DEF OrderAfter, IsUpdate, IsFill
    <2>5. OwnSide(o, m.body) \in Int
      BY <2>3 DEF OwnSide, UpdateBody
    <2>6. order' = [order EXCEPT ![o] = [order[o] EXCEPT !.best = OwnSide(o, m.body)]]
      BY <2>1, <2>4 DEF ReceiveOrder
    <2>7. last_offer' = last_offer
      BY <2>1 DEF ReceiveOrder, history
    <2>8. OrderOK'
      BY <2>2, <2>5, <2>6, <2>7 DEF Inv, OrderOK, OrderState
    <2> QED
      BY <2>1, <2>2, <2>8, StatesKept DEF Inv, ReceiveOrder, history
  <1>2. CASE ReturnOrder(o)
    <2>1. order[o].active /\ order[o].filled = 0 /\ order[o] \in OrderState
      BY DEF Inv, OrderOK
    <2> DEFINE offers == order[o].active /\ Marketable(o)
               idle   == IdleAfter(o, offers)
               msgs   == IF offers THEN Offer(o) ELSE {}
               halts  == ~order[o].active \/ TooIdle(idle)
    <2>2. idle \in Nat
      BY <2>1 DEF OrderState, IdleAfter
    <2>3. ASSUME NEW n \in Offer(o)
          PROVE  Good(n)
      <3>1. /\ n.src = o /\ n.dst \in Targets(o, AllTypes) /\ n.step = superstep
            /\ n.body = [type |-> "ORDER_FILL", price |-> Limit[o],
                         qty |-> Quantity[o] - order[o].filled]
        BY <2>3, MessagesSent DEF Offer
      <3>2. n.dst \in Levels /\ n.dst \in Vertices /\ n.dst \notin Makers
        BY <3>1, TargetsType DEF Vertices
      <3>3. IsFill(n) /\ n.body.qty \in Nat
        BY <2>1, <3>1 DEF IsFill
      <3> QED
        BY <3>1, <3>2, <3>3 DEF Good, Inv, EngineOK
    <2>4. Return(o, halts, msgs)
      BY <1>2 DEF ReturnOrder
    <2>5. halts \in BOOLEAN /\ \A n \in msgs : Good(n)
      BY <2>3
    <2> HIDE DEF halts, msgs, idle
    <2>6. superstep' = superstep /\ EngineOK' /\ MessageInv'
      BY <2>4, <2>5, ReturnEngine
    <2>7. order' = [order EXCEPT ![o].idle = idle]
      BY <1>2, <2>1 DEF ReturnOrder, idle
    <2>8. last_offer' \in [Orders -> -1 .. superstep]
      BY <1>2 DEF ReturnOrder, Inv, OrderOK, EngineOK
    <2>9. OrderOK'
      <3>1. order' \in [Orders -> OrderState]
        BY <2>2, <2>7 DEF Inv, OrderOK, OrderState
      <3>2. \A p \in Orders : order'[p].filled = order[p].filled /\ order'[p].active = order[p].active
        BY <2>7 DEF Inv, OrderOK, OrderState
      <3> QED
        BY <2>6, <2>8, <3>1, <3>2 DEF Inv, OrderOK
    <2> QED
      <3>1. UNCHANGED <<level, fills, venue, maker>>
        BY <1>2 DEF ReturnOrder
      <3> QED
        BY <2>6, <2>9, <3>1, StatesKept DEF Inv
  <1> QED
    BY <1>1, <1>2 DEF OrderStep

\* PriceLevelVertex: a fill keeps the account, quotes go on to orders and
\* the level's own updates to venues.
LEMMA LevelStepInv ==
  ASSUME Inv, NEW l \in Levels, LevelStep(l)
  PROVE  Inv'
  <1> l \in Vertices
    BY DEF Vertices
  <1>0. level[l] \in LevelState /\ fills[l] \in [number : Nat, sum : Nat]
    BY DEF Inv, LevelOK
  <1>1. CASE \E m \in mail : ReceiveLevel(l, m)
    <2>1. PICK m \in mail : ReceiveLevel(l, m)
      BY <1>1
    <2> DEFINE msgs == IF IsUpdate(m) THEN Forward(l, m) ELSE {}
    <2>2. m.dst = l /\ Good(m)
      BY <2>1 DEF ReceiveLevel, Receive, Unhandled, MailOf, Inv, MessageInv, InTransit
    <2>3. ASSUME NEW n \in msgs
          PROVE  Good(n)
      <3>1. IsUpdate(m) /\ n \in Messages(l, Targets(l, {1}), m.body)
        BY <2>3 DEF Forward
      <3>2. n.src = l /\ n.dst \in Targets(l, {1}) /\ n.step = superstep /\ n.body = m.body
        BY <3>1, MessagesSent
      <3>3. n.dst \in Vertices /\ n.dst \notin Makers
        BY <3>2, TargetsType DEF Vertices
      <3>4. m.body \in UpdateBody
        BY <2>2, <3>1 DEF Good, IsUpdate, IsFill, IsSignal
      <3> QED
        BY <3>2, <3>3, <3>4 DEF Good, Inv, EngineOK
    <2>4. superstep' = superstep /\ EngineOK' /\ MessageInv'
      <3>1. outbox' = outbox \cup msgs
        BY <2>1 DEF ReceiveLevel
      <3> HIDE DEF msgs
      <3> QED
        BY <2>1, <2>3, <3>1, ReceiveEngine DEF ReceiveLevel
    <2>5. LevelOK'
      <3>1. CASE ~IsFill(m)
        BY <2>1, <3>1, StatesKept DEF ReceiveLevel
      <3>2. CASE IsFill(m)
        <4> DEFINE q == m.body.qty
        <4>1. q \in Nat
          BY <2>2, <3>2 DEF Good, IsFill, IsSignal, UpdateBody
        <4>2. /\ level' = [level EXCEPT ![l] = LevelAfter(level[l], q)]
              /\ fills' = [fills EXCEPT ![l] = [number |-> @.number + 1, sum |-> @.sum + q]]
          BY <2>1, <3>2 DEF ReceiveLevel
        <4> HIDE DEF q
        <4>3. /\ LevelAfter(level[l], q).total = IF q >= level[l].total THEN 0 ELSE level[l].total - q
              /\ LevelAfter(level[l], q).count = IF q >= level[l].total \/ level[l].count = 0 THEN 0
                                          ELSE level[l].count - 1
              /\ LevelAfter(level[l], q) \in LevelState
          BY <1>0, <4>1, FillTaken
        <4>4. level' \in [Levels -> LevelState] /\ fills' \in [Levels -> [number : Nat, sum : Nat]]
          BY <1>0, <4>1, <4>2, <4>3 DEF Inv, LevelOK
        <4>5. /\ level'[l] = LevelAfter(level[l], q)
              /\ fills'[l].number = fills[l].number + 1 /\ fills'[l].sum = fills[l].sum + q
              /\ \A k \in Levels \ {l} : level'[k] = level[k] /\ fills'[k] = fills[k]
          BY <4>2 DEF Inv, LevelOK
        <4>6. LevelAccount'
          <5> DEFINE Account(s, f, k) ==
                /\ s.total = IF f.sum >= TotalQty[k] THEN 0 ELSE TotalQty[k] - f.sum
                /\ s.count = IF f.number = 0 THEN OrderCount[k]
                             ELSE IF f.sum >= TotalQty[k] \/ f.number >= OrderCount[k] THEN 0
                             ELSE OrderCount[k] - f.number
          <5>1. \A k \in Levels : Account(level[k], fills[k], k)
            BY DEF Inv, LevelOK, LevelAccount
          <5>2. TotalQty[l] \in Nat /\ OrderCount[l] \in Nat
            OBVIOUS
          <5>3. Account(level'[l], fills'[l], l)
            <6>1. /\ fills[l].number \in Nat /\ fills[l].sum \in Nat
                  /\ level[l].total \in Nat /\ level[l].count \in Nat
              BY <1>0 DEF LevelState
            <6>2. Account(level[l], fills[l], l)
              BY <5>1
            <6>3. /\ level'[l].total = IF q >= level[l].total THEN 0 ELSE level[l].total - q
                  /\ level'[l].count = IF q >= level[l].total \/ level[l].count = 0 THEN 0
                                       ELSE level[l].count - 1
              BY <4>3, <4>5
            <6>4. fills'[l].sum = fills[l].sum + q /\ fills'[l].number = fills[l].number + 1
              BY <4>5
            <6> DEFINE T == TotalQty[l]
                       C == OrderCount[l]
                       n == fills[l].number
                       sum == fills[l].sum
                       total == level[l].total
                       count == level[l].count
            <6>5. /\ total = IF sum >= T THEN 0 ELSE T - sum
                  /\ count = IF n = 0 THEN C ELSE IF sum >= T \/ n >= C THEN 0 ELSE C - n
              BY <6>2
            <6>6. /\ T \in Nat /\ C \in Nat /\ n \in Nat /\ sum \in Nat
                  /\ total \in Nat /\ count \in Nat
              BY <5>2, <6>1
            <6>7. /\ level'[l].total = IF q >= total THEN 0 ELSE total - q
                  /\ level'[l].count = IF q >= total \/ count = 0 THEN 0 ELSE count - 1
                  /\ fills'[l].sum = sum + q /\ fills'[l].number = n + 1
              BY <6>3, <6>4
            <6> HIDE DEF T, C, n, sum, total, count
            <6>8. /\ (IF q >= total THEN 0 ELSE total - q)
                       = IF sum + q >= T THEN 0 ELSE T - (sum + q)
                  /\ (IF q >= total \/ count = 0 THEN 0 ELSE count - 1)
                       = IF n + 1 = 0 THEN C
                         ELSE IF sum + q >= T \/ n + 1 >= C THEN 0 ELSE C - (n + 1)
              <7>1. CASE sum >= T
                BY <4>1, <6>5, <6>6, <7>1
              <7>2. CASE ~(sum >= T) /\ n = 0
                BY <4>1, <6>5, <6>6, <7>2
              <7>3. CASE ~(sum >= T) /\ n # 0
                BY <4>1, <6>5, <6>6, <7>3
              <7> QED
                BY <7>1, <7>2, <7>3
            <6>9. /\ level'[l].total = IF fills'[l].sum >= T THEN 0 ELSE T - fills'[l].sum
                  /\ level'[l].count = IF fills'[l].number = 0 THEN C
                       ELSE IF fills'[l].sum >= T \/ fills'[l].number >= C THEN 0
                       ELSE C - fills'[l].number
              BY <6>7, <6>8, Zenon
            <6> QED
              BY <6>9 DEF T, C
          <5>4. \A k \in Levels : Account(level'[k], fills'[k], k)
            BY <4>5, <5>1, <5>3
          <5> QED
            BY <5>4 DEF LevelAccount
        <4> QED
          BY <4>4, <4>6 DEF LevelOK
      <3> QED
        BY <3>1, <3>2
    <2>6. UNCHANGED <<order, venue, maker, last_offer>>
      BY <2>1 DEF ReceiveLevel
    <2> QED
      BY <2>4, <2>5, <2>6, StatesKept DEF Inv
  <1>2. CASE ReturnLevel(l)
    <2> DEFINE msgs  == IF level[l].total # level[l].prev
                          THEN Messages(l, Targets(l, {2}), OwnUpdate(l)) ELSE {}
               halts == level[l].total = 0 /\ MailOf(l) = {}
    <2>1. Return(l, halts, msgs)
      BY <1>2 DEF ReturnLevel
    <2>2. OwnUpdate(l) \in UpdateBody
      BY <1>0 DEF OwnUpdate, PriceUpdate, UpdateBody, LevelState
    <2>3. ASSUME NEW n \in msgs
          PROVE  Good(n)
      <3>1. /\ n.src = l /\ n.dst \in Targets(l, {2}) /\ n.step = superstep
            /\ n.body = OwnUpdate(l)
        BY <2>3, MessagesSent
      <3>2. n.dst \in Vertices /\ n.dst \notin Makers
        BY <3>1, TargetsType DEF Vertices
      <3> QED
        BY <2>2, <3>1, <3>2 DEF Good, Inv, EngineOK
    <2>4. halts \in BOOLEAN
      OBVIOUS
    <2> HIDE DEF halts, msgs
    <2>5. superstep' = superstep /\ EngineOK' /\ MessageInv'
      BY <2>1, <2>3, <2>4, ReturnEngine
    <2>6. /\ level' = [level EXCEPT ![l].prev = level[l].total]
          /\ UNCHANGED <<order, venue, maker, fills, last_offer>>
      BY <1>2 DEF ReturnLevel, history
    <2>7. LevelOK'
      BY <1>0, <2>6 DEF Inv, LevelOK, LevelAccount, LevelState
    <2> QED
      BY <2>5, <2>6, <2>7, StatesKept DEF Inv
  <1> QED
    BY <1>1, <1>2 DEF LevelStep

\* VenueVertex: a quote has integer prices wherever the random walk goes, and
\* a signal changes nothing.
LEMMA VenueStepInv ==
  ASSUME Inv, NEW v \in Venues, VenueStep(v)
  PROVE  Inv'
  <1> v \in Vertices
    BY DEF Vertices
  <1>0. venue[v] \in VenueState
    BY DEF Inv, VenueOK
  <1>1. CASE \E m \in mail : ReceiveVenue(v, m)
    <2>1. PICK m \in mail : ReceiveVenue(v, m)
      BY <1>1
    <2>2. m.dst = v /\ Good(m) /\ superstep' = superstep /\ EngineOK' /\ MessageInv'
      <3>1. outbox' = outbox \cup {}
        BY <2>1 DEF ReceiveVenue
      <3> QED
        BY <2>1, <3>1, ReceiveEngine DEF ReceiveVenue
    <2>3. VenueOK'
      <3>1. CASE IsUpdate(m)
        <4>1. m.body \in UpdateBody
          BY <2>2, <3>1 DEF Good, IsUpdate, IsFill, IsSignal
        <4>2. WithAsk(WithBid(venue[v], m.body), m.body) \in VenueState
          BY <1>0, <4>1, VenueUpdated
        <4> QED
          BY <2>1, <3>1, <4>2 DEF ReceiveVenue, Inv, VenueOK
      <3>2. CASE ~IsUpdate(m)
        BY <2>1, <3>2, StatesKept DEF ReceiveVenue
      <3> QED
        BY <3>1, <3>2
    <2>4. UNCHANGED <<order, level, maker, fills, last_offer>>
      BY <2>1 DEF ReceiveVenue, history
    <2> QED
      BY <2>2, <2>3, <2>4, StatesKept DEF Inv
  <1>2. CASE ReturnVenue(v)
    <2>1. PICK n \in Noise :
            LET q == Requoted(venue[v], Mid(v) + n) IN
            /\ venue' = [venue EXCEPT ![v] = q]
            /\ Return(v, FALSE, Messages(v, Targets(v, AllTypes), Nbbo(q)))
      BY <1>2 DEF ReturnVenue
    <2> DEFINE q == Requoted(venue[v], Mid(v) + n)
    <2>2. Mid(v) \in Int
      BY <1>0 DEF Mid, Half, VenueState
    <2>3. q \in VenueState
      <3>1. n \in Int
        BY Zenon
      <3>2. Mid(v) + n \in Int
        BY <2>2, <3>1
      <3> QED
        BY <1>0, <3>2, QuoteMade
    <2>4. /\ venue' = [venue EXCEPT ![v] = q]
          /\ Return(v, FALSE, Messages(v, Targets(v, AllTypes), Nbbo(q)))
      BY <2>1
    <2> HIDE DEF q
    <2>5. Nbbo(q) \in UpdateBody
      BY <2>3 DEF Nbbo, PriceUpdate, UpdateBody, VenueState
    <2>6. ASSUME NEW m \in Messages(v, Targets(v, AllTypes), Nbbo(q))
          PROVE  Good(m)
      <3>1. /\ m.src = v /\ m.dst \in Targets(v, AllTypes) /\ m.step = superstep
            /\ m.body = Nbbo(q)
        BY <2>6, MessagesSent
      <3>2. m.dst \in Vertices
        BY <3>1, TargetsType
      <3> QED
        BY <2>5, <3>1, <3>2 DEF Good, Inv, EngineOK
    <2>7. superstep' = superstep /\ EngineOK' /\ MessageInv'
      BY <2>4, <2>6, ReturnEngine
    <2>8. VenueOK'
      BY <2>3, <2>4 DEF Inv, VenueOK
    <2>9. UNCHANGED <<order, level, maker, fills, last_offer>>
      BY <1>2 DEF ReturnVenue
    <2> QED
      BY <2>7, <2>8, <2>9, StatesKept DEF Inv
  <1> QED
    BY <1>1, <1>2 DEF VenueStep

\* MarketMakerVertex: only quotes come in, and only to venues and levels
\* signals go out.
LEMMA MakerStepInv ==
  ASSUME Inv, NEW k \in Makers, MakerStep(k)
  PROVE  Inv'
  <1> k \in Vertices
    BY DEF Vertices
  <1>0. maker[k] \in MakerState
    BY DEF Inv, MakerOK
  <1>1. CASE \E m \in mail : ReceiveMaker(k, m)
    <2>1. PICK m \in mail : ReceiveMaker(k, m)
      BY <1>1
    <2>2. m.dst = k /\ Good(m) /\ superstep' = superstep /\ EngineOK' /\ MessageInv'
      <3>1. outbox' = outbox \cup {}
        BY <2>1 DEF ReceiveMaker
      <3> QED
        BY <2>1, <3>1, ReceiveEngine DEF ReceiveMaker
    <2> DEFINE b == m.body
    <2>3. b \in UpdateBody
      BY <2>2 DEF Good
    <2>4. b.bid \in Int /\ b.ask \in Int /\ IsUpdate(m) /\ ~IsFill(m)
      BY <2>3 DEF UpdateBody, IsUpdate, IsFill
    <2>5. MakerAfter(maker[k], m) = Known(maker[k], b)
      BY <2>4 DEF MakerAfter
    <2>6. Known(maker[k], b) \in MakerState
      BY <1>0, <2>4, QuoteKnown
    <2>7. /\ maker' = [maker EXCEPT ![k] = Known(maker[k], b)]
          /\ UNCHANGED <<order, level, venue, fills, last_offer>>
      BY <2>1, <2>5 DEF ReceiveMaker, history
    <2> HIDE DEF b
    <2>8. MakerOK'
      BY <2>6, <2>7 DEF Inv, MakerOK
    <2> QED
      BY <2>2, <2>7, <2>8, StatesKept DEF Inv
  <1>2. CASE ReturnMaker(k)
    <2>1. ASSUME NEW n \in Signal(k)
          PROVE  Good(n)
      <3> DEFINE body == [type |-> "ARBITRAGE_SIGNAL",
                          spread |-> Bps(maker[k].bid, maker[k].ask)]
      <3>1. n \in Messages(k, Targets(k, AllTypes), body)
        BY <2>1 DEF Signal
      <3>2. body.type = "ARBITRAGE_SIGNAL"
        OBVIOUS
      <3> HIDE DEF body
      <3>3. n.src = k /\ n.dst \in Targets(k, AllTypes) /\ n.step = superstep /\ n.body = body
        BY <3>1, MessagesSent
      <3>4. n.dst \in Vertices /\ n.dst \in Levels \cup Venues
        BY <3>3, TargetsType
      <3> QED
        BY <3>2, <3>3, <3>4 DEF Good, IsSignal, Inv, EngineOK
    <2> DEFINE halts   == OverLimit(maker[k].position) \/ (MailOf(k) = {} /\ Signal(k) = {})
               signals == IF Arbitrage(maker[k].bid, maker[k].ask)
                            THEN maker[k].signals + 1 ELSE maker[k].signals
    <2>2. Return(k, halts, Signal(k)) /\ halts \in BOOLEAN
      BY <1>2 DEF ReturnMaker, OverLimit
    <2>3. signals \in Nat
      BY <1>0 DEF MakerState
    <2>4. maker' = [maker EXCEPT ![k].signals = signals]
      BY <1>2 DEF ReturnMaker, Inv, MakerOK
    <2> HIDE DEF halts, signals
    <2>5. superstep' = superstep /\ EngineOK' /\ MessageInv'
      BY <2>1, <2>2, ReturnEngine
    <2>6. UNCHANGED <<order, level, venue, fills, last_offer>>
      BY <1>2 DEF ReturnMaker, history
    <2>7. MakerOK'
      BY <2>3, <2>4 DEF Inv, MakerOK, MakerState
    <2> QED
      BY <2>5, <2>6, <2>7, StatesKept DEF Inv
  <1> QED
    BY <1>1, <1>2 DEF MakerStep

----------------------------------------------------------------------------
\* Every step keeps the invariant.
LEMMA NextInv == Inv /\ [Next]_vars => Inv'
  <1> SUFFICES ASSUME Inv, [Next]_vars PROVE Inv'
    OBVIOUS
  <1>1. CASE UNCHANGED vars
    <2>1. UNCHANGED <<engine, order, level, venue, maker, fills, last_offer>>
      BY <1>1 DEF vars, states, history
    <2>2. EngineOK' /\ superstep' = superstep
      BY <2>1 DEF engine, Inv, EngineOK
    <2>3. MessageInv'
      BY <2>1, GoodStable DEF engine, Inv, MessageInv, InTransit
    <2> QED
      BY <2>1, <2>2, <2>3, StatesKept DEF Inv
  <1>2. CASE Build
    <2>1. EngineOK' /\ superstep' = superstep
      BY <1>2 DEF Build, Inv, EngineOK, Woken
    <2>2. MessageInv'
      BY <1>2, GoodStable DEF Build, Inv, MessageInv, InTransit
    <2>3. UNCHANGED <<order, level, venue, maker, fills, last_offer>>
      BY <1>2 DEF Build, states, history
    <2> QED
      BY <2>1, <2>2, <2>3, StatesKept DEF Inv
  <1>3. CASE NextSuperstep
    <2>1. EngineOK' /\ superstep' = superstep + 1
      BY <1>3 DEF NextSuperstep, Barrier, Inv, EngineOK
    <2>2. MessageInv'
      <3>1. \A n : Good(n) => Good(n)'
        BY <2>1 DEF Good, IsFill, IsSignal, Inv, EngineOK
      <3> QED
        BY <1>3, <3>1 DEF NextSuperstep, Inv, MessageInv, InTransit
    <2>3. UNCHANGED <<order, level, venue, maker, fills, last_offer>>
      BY <1>3 DEF NextSuperstep, states, history
    <2>4. OrderOK'
      BY <2>1, <2>3 DEF Inv, OrderOK, EngineOK
    <2> QED
      BY <2>1, <2>2, <2>3, <2>4, StatesKept DEF Inv
  <1>4. CASE Done
    <2>1. UNCHANGED vars
      BY <1>4 DEF Done
    <2> QED
      BY <1>1, <2>1
  <1> QED
    BY <1>1, <1>2, <1>3, <1>4, OrderStepInv, LevelStepInv, VenueStepInv, MakerStepInv DEF Next

\* The invariant holds in every run.
THEOREM Invariance == Spec => []Inv
  BY InitInv, NextInv, PTL DEF Spec

\* The members of the four vertex classes keep their types: no unsigned
\* quantity, count or size goes below zero.
THEOREM TypeCorrect == Spec => []TypeOK
  <1>1. Inv => TypeOK
    BY DEF Inv, EngineOK, MessageInv, Good, OrderOK, LevelOK, VenueOK, MakerOK, TypeOK, InTransit
  <1> QED
    BY <1>1, Invariance, PTL

\* A price level's quantity and order count are what its fills leave of them.
THEOREM LevelsBalance == Spec => []LevelAccount
  <1>1. Inv => LevelAccount
    BY DEF Inv, LevelOK
  <1> QED
    BY <1>1, Invariance, PTL
============================================================================

----------------------------- MODULE OrderBook -----------------------------
(***************************************************************************)
(* The order-book vertex programs (order_book_graph.cpp) run superstep by  *)
(* superstep: OrderVertex, PriceLevelVertex, VenueVertex and               *)
(* MarketMakerVertex, on any graph with the edges the builder makes.       *)
(*                                                                         *)
(* The engine around them is the Pregel model, which run_superstep gives   *)
(* with one worker (Superstep, ImplementsPregel).  Vertices share nothing  *)
(* while they compute, so they compute one at a time, in the order of      *)
(* their ids; the messages of an inbox come in any order, as that follows  *)
(* the iteration order of an unordered_map.                                *)
(*                                                                         *)
(* compute() is a step per message and a step for what follows the loop.   *)
(* A vertex has at most one message per sender and superstep.              *)
(***************************************************************************)
EXTENDS Integers, Sequences

CONSTANTS
  Venues, Levels, Orders, Makers,  \* the vertex ids, by VertexType
  Edges,            \* Edges[v]: the edges of v, [dst, type]
  Side,             \* Side[x]: side of a level or an order
  Price, TotalQty,  \* price and initial total_qty of a level
  OrderCount,       \* initial order_count of a level
  Limit, Quantity,  \* limit_price and quantity of an order
  InitialQuote,     \* state of a venue at the start
  TickSize,         \* TICK_SIZE (100)
  Noise,            \* bound: what a venue adds to its mid price
  DefaultMid,       \* mid price in the place of zero
  IdleLimit,        \* supersteps an order may be idle (10)
  InventoryLimit,   \* inventory_limit of a market maker
  MaxSupersteps     \* config_.max_supersteps

Vertices == Venues \cup Levels \cup Orders \cup Makers

ASSUME VertexAssumption ==
  /\ Vertices \subseteq Nat
  /\ Venues \cap (Levels \cup Orders \cup Makers) = {}
  /\ Levels \cap (Orders \cup Makers) = {}
  /\ Orders \cap Makers = {}

\* The edges build_order_book_graph makes: only venues have edges to market
\* makers, a level's edges are of type 1 to orders and of type 2 to venues.
ASSUME EdgeAssumption ==
  /\ Edges \in [Vertices -> SUBSET [dst : Vertices, type : 0 .. 3]]
  /\ \A v \in Venues : \A e \in Edges[v] : e.dst \in Levels \cup Makers
  /\ \A l \in Levels : \A e \in Edges[l] :
       \/ e.type = 1 /\ e.dst \in Orders
       \/ e.type = 2 /\ e.dst \in Venues
  /\ \A o \in Orders : \A e \in Edges[o] : e.dst \in Levels
  /\ \A k \in Makers : \A e \in Edges[k] : e.dst \in Venues \cup Levels

Targets(v, types) == {e.dst : e \in {f \in Edges[v] : f.type \in types}}
AllTypes == 0 .. 3

\* ... and every level is on one venue, every order on one level.
ASSUME LinkAssumption ==
  /\ \A l \in Levels : \E v \in Venues : {u \in Venues : l \in Targets(u, AllTypes)} = {v}
  /\ \A o \in Orders : \E l \in Levels : {k \in Levels : o \in Targets(k, {1})} = {l}

ASSUME BookAssumption ==
  /\ Side \in [Levels \cup Orders -> {"BID", "ASK"}]
  /\ Price \in [Levels -> Int] /\ TotalQty \in [Levels -> Nat]
  /\ OrderCount \in [Levels -> Nat]
  /\ Limit \in [Orders -> Int] /\ Quantity \in [Orders -> Nat]
  /\ InitialQuote \in
       [Venues -> [best_bid : Int, best_ask : Int, bid_size : Nat, ask_size : Nat]]

ASSUME ParameterAssumption ==
  /\ TickSize \in Nat \ {0} /\ Noise \subseteq Int /\ DefaultMid \in Nat
  /\ IdleLimit \in Nat \ {0} /\ InventoryLimit \in Nat /\ MaxSupersteps \in Nat \ {0}

VARIABLES
  superstep,
  phase,      \* "build": tasks are to be made; "compute": they run
  todo,       \* vertices that have yet to compute in this superstep
  mail,       \* messages of the superstep before, until their vertex is done
  handled,    \* those the computing vertex has been through
  outbox,     \* outbox_ of the computing vertex
  sent,       \* messages of the vertices that are done
  halted,     \* Vertex::halted_
  order,      \* OrderVertex: State and the two private members
  level,      \* PriceLevelVertex
  venue,      \* VenueVertex
  maker,      \* MarketMakerVertex
  computed,   \* history: the vertices done in this superstep
  fills,      \* history: fills[l], number and sum of the fills level l took
  last_offer, \* history: last_offer[o], the superstep o last sent a fill in
  quotes      \* history: quotes[v], the last three quotes of a venue

states  == <<order, level, venue, maker>>
history == <<fills, last_offer, quotes>>
engine  == <<superstep, phase, todo, mail, handled, outbox, sent, halted, computed>>
vars    == <<engine, states, history>>

Init ==
  /\ superstep = 0 /\ phase = "build"
  /\ todo = {} /\ mail = {} /\ handled = {} /\ outbox = {} /\ sent = {} /\ computed = {}
  /\ halted = [v \in Vertices |-> FALSE]
  /\ order  = [o \in Orders |-> [filled |-> 0, active |-> TRUE, best |-> 0, idle |-> 0]]
  /\ level  = [l \in Levels |-> [total |-> TotalQty[l], count |-> OrderCount[l], prev |-> 0]]
  /\ venue  = InitialQuote
  /\ maker  = [k \in Makers |-> [position |-> 0, pnl |-> 0, fill_count |-> 0,
                                 signals |-> 0, bid |-> 0, ask |-> 0]]
  /\ fills  = [l \in Levels |-> [number |-> 0, sum |-> 0]]
  /\ last_offer = [o \in Orders |-> -1]
  /\ quotes = [v \in Venues |-> <<>>]

MailOf(v)    == {m \in mail : m.dst = v}
Unhandled(v) == MailOf(v) \ handled

\* send_message() of a body to each of the vertices D.
Messages(v, D, body) ==
  {[src |-> v, dst |-> d, step |-> superstep, body |-> body] : d \in D}

PriceUpdate(bid, ask, bid_qty, ask_qty) ==
  [type |-> "PRICE_UPDATE", bid |-> bid, ask |-> ask,
   bid_qty |-> bid_qty, ask_qty |-> ask_qty]

IsFill(m)   == m.body.type = "ORDER_FILL"
IsUpdate(m) == m.body.type = "PRICE_UPDATE"

\* It is v's turn to compute.
Turn(v) == phase = "compute" /\ v \in todo /\ \A u \in todo : v <= u

\* The loop over the inbox gets to message m.
Receive(v, m) ==
  /\ Turn(v)
  /\ m \in Unhandled(v)
  /\ handled' = handled \cup {m}
  /\ UNCHANGED <<superstep, phase, todo, mail, sent, halted, computed>>

\* Faulty variant of Return: the inbox is copied and not moved out.
InboxKept(v, halts, msgs) ==
  /\ Turn(v)
  /\ sent' = sent \cup outbox \cup msgs
  /\ outbox' = {}
  /\ handled' = {}
  /\ halted' = [halted EXCEPT ![v] = @ \/ halts]
  /\ todo' = todo \ {v}
  /\ computed' = computed \cup {v}
  /\ UNCHANGED <<superstep, phase, mail>>

\* compute() returns, having sent msgs after the loop and voted or not.
Return(v, halts, msgs) ==
  /\ Turn(v)
  /\ sent' = sent \cup outbox \cup msgs
  /\ outbox' = {}
  /\ mail' = mail \ MailOf(v)
  /\ handled' = {}
  /\ halted' = [halted EXCEPT ![v] = @ \/ halts]
  /\ todo' = todo \ {v}
  /\ computed' = computed \cup {v}
  /\ UNCHANGED <<superstep, phase>>

\* best_market_price_ of an order comes from its own side of the quote.
OwnSide(o, body) == IF Side[o] = "BID" THEN body.bid ELSE body.ask

----------------------------------------------------------------------------
(* Faulty variants of the definitions below, one plausible slip each; a run *)
(* that replaces the definition by its variant must find a violation.       *)

OtherSideTaken(o, m) ==
  IF IsUpdate(m)
    THEN [order[o] EXCEPT !.best = IF Side[o] = "ASK" THEN m.body.bid ELSE m.body.ask]
    ELSE order[o]

IdleNotReset(o, offers) == IF offers THEN order[o].idle ELSE order[o].idle + 1

FillUnclamped(s, qty) ==
  [s EXCEPT !.total = @ - qty, !.count = IF @ > 0 THEN @ - 1 ELSE 0]

FillNotCounted(s, qty) ==
  [s EXCEPT !.total = IF qty >= @ THEN 0 ELSE @ - qty,
            !.count = IF qty >= s.total THEN 0 ELSE @]

ForwardToVenue(l, m) == Messages(l, Targets(l, {2}), m.body)

----------------------------------------------------------------------------
(* OrderVertex *)

OrderAfter(o, m) ==
  CASE IsUpdate(m) -> [order[o] EXCEPT !.best = OwnSide(o, m.body)]
    [] IsFill(m)   -> [order[o] EXCEPT
                         !.filled = @ + m.body.qty,
                         !.active = order[o].filled + m.body.qty < Quantity[o]]
    [] m.body.type = "CANCEL_ACK" -> [order[o] EXCEPT !.active = FALSE]
    [] OTHER -> order[o]

\* The loop is left as soon as the order is filled or cancelled.
ReceiveOrder(o, m) ==
  /\ order[o].active
  /\ Receive(o, m)
  /\ order' = [order EXCEPT ![o] = OrderAfter(o, m)]
  /\ UNCHANGED <<outbox, level, venue, maker, history>>

Marketable(o) ==
  /\ order[o].best > 0
  /\ IF Side[o] = "BID" THEN order[o].best <= Limit[o] ELSE order[o].best >= Limit[o]

Offer(o) ==
  Messages(o, Targets(o, AllTypes),
           [type |-> "ORDER_FILL", price |-> Limit[o], qty |-> Quantity[o] - order[o].filled])

\* steps_without_fill_ after the superstep.
IdleAfter(o, offers) == IF offers THEN 0 ELSE order[o].idle + 1

\* The eleventh idle superstep is the first that is one too many (README:
\* "inactive for 10 supersteps").
TooIdle(idle) == idle > IdleLimit

ReturnOrder(o) ==
  LET offers == order[o].active /\ Marketable(o)
      idle   == IdleAfter(o, offers)
  IN  /\ order[o].active => Unhandled(o) = {}
      /\ Return(o, ~order[o].active \/ TooIdle(idle), IF offers THEN Offer(o) ELSE {})
      /\ order' = IF order[o].active THEN [order EXCEPT ![o].idle = idle] ELSE order
      /\ last_offer' = IF offers THEN [last_offer EXCEPT ![o] = superstep] ELSE last_offer
      /\ UNCHANGED <<level, venue, maker, fills, quotes>>

----------------------------------------------------------------------------
(* PriceLevelVertex *)

\* A fill takes its quantity, or all that is left, and an order off the count.
LevelAfter(s, qty) ==
  IF qty >= s.total
    THEN [s EXCEPT !.total = 0, !.count = 0]
    ELSE [s EXCEPT !.total = @ - qty, !.count = IF @ > 0 THEN @ - 1 ELSE 0]

\* The venue's quote goes on to the orders.
Forward(l, m) == Messages(l, Targets(l, {1}), m.body)

ReceiveLevel(l, m) ==
  /\ Receive(l, m)
  /\ level' = IF IsFill(m) THEN [level EXCEPT ![l] = LevelAfter(level[l], m.body.qty)] ELSE level
  /\ outbox' = IF IsUpdate(m) THEN outbox \cup Forward(l, m) ELSE outbox
  /\ fills' = IF IsFill(m)
                THEN [fills EXCEPT ![l] = [number |-> @.number + 1, sum |-> @.sum + m.body.qty]]
                ELSE fills
  /\ UNCHANGED <<order, venue, maker, last_offer, quotes>>

OwnUpdate(l) ==
  IF Side[l] = "BID" THEN PriceUpdate(Price[l], 0, level[l].total, 0)
                     ELSE PriceUpdate(0, Price[l], 0, level[l].total)

ReturnLevel(l) ==
  /\ Unhandled(l) = {}
  /\ Return(l, level[l].total = 0 /\ MailOf(l) = {},
            IF level[l].total # level[l].prev
              THEN Messages(l, Targets(l, {2}), OwnUpdate(l)) ELSE {})
  /\ level' = [level EXCEPT ![l].prev = level[l].total]
  /\ UNCHANGED <<order, venue, maker, history>>

----------------------------------------------------------------------------
(* VenueVertex *)

\* A bid adds its size whether it improves the best bid or not, an ask only
\* when it does.
WithBid(q, b) ==
  IF b.bid > 0 THEN [q EXCEPT !.best_bid = IF b.bid > @ THEN b.bid ELSE @,
                              !.bid_size = @ + b.bid_qty] ELSE q
WithAsk(q, b) ==
  IF b.ask > 0 /\ (q.best_ask = 0 \/ b.ask < q.best_ask)
    THEN [q EXCEPT !.best_ask = b.ask, !.ask_size = @ + b.ask_qty] ELSE q

ReceiveVenue(v, m) ==
  /\ Receive(v, m)
  /\ venue' = IF IsUpdate(m)
                THEN [venue EXCEPT ![v] = WithAsk(WithBid(@, m.body), m.body)] ELSE venue
  /\ UNCHANGED <<outbox, order, level, maker, history>>

HalfSpread == 2 * TickSize

\* Division in C++, which goes towards zero.
Half(n) == IF n < 0 THEN -((-n) \div 2) ELSE n \div 2

Mid(v) == LET mid == Half(venue[v].best_bid + venue[v].best_ask)
          IN  IF mid = 0 THEN DefaultMid ELSE mid

Nbbo(q) == PriceUpdate(q.best_bid, q.best_ask, q.bid_size, q.ask_size)

Requoted(q, mid) == [q EXCEPT !.best_bid = mid - HalfSpread, !.best_ask = mid + HalfSpread]

\* The walk has no floor: prices may go below zero.
ReturnVenue(v) ==
  /\ Unhandled(v) = {}
  /\ \E n \in Noise :
       LET q == Requoted(venue[v], Mid(v) + n) IN
       /\ venue' = [venue EXCEPT ![v] = q]
       /\ Return(v, FALSE, Messages(v, Targets(v, AllTypes), Nbbo(q)))
       /\ quotes' = [quotes EXCEPT ![v] =
                       SubSeq(<<Nbbo(q)>> \o @, 1, IF Len(@) < 3 THEN Len(@) + 1 ELSE 3)]
  /\ UNCHANGED <<order, level, maker, fills, last_offer>>

----------------------------------------------------------------------------
(* MarketMakerVertex *)

\* Only the quote that comes last is known, whichever venue it is of.
Known(s, b) ==
  [s EXCEPT !.bid = IF b.bid > 0 THEN b.bid ELSE @,
            !.ask = IF b.ask > 0 THEN b.ask ELSE @]

MakerAfter(s, m) ==
  CASE IsFill(m)   -> [s EXCEPT !.position = @ + m.body.qty,
                                !.fill_count = @ + 1,
                                !.pnl = @ - m.body.price * m.body.qty]
    [] IsUpdate(m) -> Known(s, m.body)
    [] OTHER -> s

ReceiveMaker(k, m) ==
  /\ Receive(k, m)
  /\ maker' = [maker EXCEPT ![k] = MakerAfter(maker[k], m)]
  /\ UNCHANGED <<outbox, order, level, venue, history>>

\* ARB_THRESHOLD_BPS is 5.
Bps(bid, ask) ==
  LET mid == (bid + ask) \div 2 IN IF mid > 0 THEN ((bid - ask) * 10000) \div mid ELSE 0
Arbitrage(bid, ask) == bid > 0 /\ ask > 0 /\ bid > ask /\ Bps(bid, ask) >= 5

Signal(k) ==
  IF Arbitrage(maker[k].bid, maker[k].ask)
    THEN Messages(k, Targets(k, AllTypes),
                  [type |-> "ARBITRAGE_SIGNAL", spread |-> Bps(maker[k].bid, maker[k].ask)])
    ELSE {}

OverLimit(position) == position > InventoryLimit \/ -position > InventoryLimit

ReturnMaker(k) ==
  /\ Unhandled(k) = {}
  /\ Return(k, OverLimit(maker[k].position) \/ (MailOf(k) = {} /\ Signal(k) = {}), Signal(k))
  /\ maker' = [maker EXCEPT ![k].signals =
                 IF Arbitrage(maker[k].bid, maker[k].ask) THEN @ + 1 ELSE @]
  /\ UNCHANGED <<order, level, venue, history>>

----------------------------------------------------------------------------
(* The superstep loop *)

Woken == {v \in Vertices : halted[v] /\ MailOf(v) # {}}

\* run_superstep makes a task of every vertex that is awake or has mail.
Build ==
  /\ phase = "build"
  /\ phase' = "compute"
  /\ todo' = {v \in Vertices : ~halted[v]} \cup Woken
  /\ halted' = [v \in Vertices |-> halted[v] /\ v \notin Woken]
  /\ UNCHANGED <<superstep, mail, handled, outbox, sent, computed, states, history>>

\* The superstep is over.
Barrier == phase = "compute" /\ todo = {}

NoneActive == \A v \in Vertices : halted[v]

NextSuperstep ==
  /\ Barrier /\ ~NoneActive
  /\ superstep + 1 < MaxSupersteps
  /\ superstep' = superstep + 1
  /\ phase' = "build"
  /\ mail' = sent
  /\ sent' = {}
  /\ computed' = {}
  /\ UNCHANGED <<todo, handled, outbox, halted, states, history>>

Done == Barrier /\ (NoneActive \/ superstep + 1 = MaxSupersteps) /\ UNCHANGED vars

OrderStep(o) == (\E m \in mail : ReceiveOrder(o, m)) \/ ReturnOrder(o)
LevelStep(l) == (\E m \in mail : ReceiveLevel(l, m)) \/ ReturnLevel(l)
VenueStep(v) == (\E m \in mail : ReceiveVenue(v, m)) \/ ReturnVenue(v)
MakerStep(k) == (\E m \in mail : ReceiveMaker(k, m)) \/ ReturnMaker(k)

Next ==
  \/ Build \/ NextSuperstep \/ Done
  \/ \E o \in Orders : OrderStep(o)
  \/ \E l \in Levels : LevelStep(l)
  \/ \E v \in Venues : VenueStep(v)
  \/ \E k \in Makers : MakerStep(k)

Spec == Init /\ [][Next]_vars

----------------------------------------------------------------------------
(* Properties *)

InTransit == mail \cup outbox \cup sent

\* The members of the four vertex classes.
OrderState == [filled : Nat, active : BOOLEAN, best : Int, idle : Nat]
LevelState == [total : Nat, count : Nat, prev : Nat]
VenueState == [best_bid : Int, best_ask : Int, bid_size : Nat, ask_size : Nat]
MakerState == [position : Int, pnl : Int, fill_count : Nat, signals : Nat,
               bid : Int, ask : Int]

TypeOK ==
  /\ superstep \in 0 .. MaxSupersteps - 1 /\ phase \in {"build", "compute"}
  /\ todo \subseteq Vertices /\ computed \subseteq Vertices /\ handled \subseteq mail
  /\ \A m \in InTransit : m.src \in Vertices /\ m.dst \in Vertices /\ m.step \in 0 .. superstep
  /\ halted \in [Vertices -> BOOLEAN]
  /\ order \in [Orders -> OrderState] /\ level \in [Levels -> LevelState]
  /\ venue \in [Venues -> VenueState] /\ maker \in [Makers -> MakerState]
  /\ fills \in [Levels -> [number : Nat, sum : Nat]]
  /\ last_offer \in [Orders -> -1 .. superstep]

\* A level's quantity and order count are exactly what the fills it received
\* leave of them: no unsigned subtraction wraps, however often an order
\* repeats its offer, and no fill is taken twice or passed over.
LevelAccount ==
  \A l \in Levels :
    LET f == fills[l] IN
    /\ level[l].total = IF f.sum >= TotalQty[l] THEN 0 ELSE TotalQty[l] - f.sum
    /\ level[l].count = IF f.number = 0 THEN OrderCount[l]
                        ELSE IF f.sum >= TotalQty[l] \/ f.number >= OrderCount[l] THEN 0
                        ELSE OrderCount[l] - f.number

\* An order decides on the quote its venue sent two supersteps ago, one for
\* the way through the price level: never on an older one it failed to get
\* and never on one of another side.
QuoteAge ==
  Barrier /\ superstep >= 2 =>
    \A v \in Venues, l \in Levels : l \in Targets(v, AllTypes) =>
      \A o \in Targets(l, {1}) : order[o].best = OwnSide(o, quotes[v][3])

\* Nobody on the book falls silent: at the end of a superstep every level and
\* market maker has a message waiting, and from the second one on every order,
\* so each vertex computes in each superstep, halted or not.
AllWoken ==
  Barrier =>
    \A v \in Venues : \A x \in Targets(v, AllTypes) :
      /\ \E m \in sent : m.dst = x
      /\ x \in Levels /\ superstep >= 1 =>
           \A o \in Targets(x, {1}) : \E m \in sent : m.dst = o

\* steps_without_fill_ is the number of supersteps since the order's last
\* offer, although it only counts those in which the order computes, and an
\* order is halted exactly when TooIdle finds that number too large, whatever
\* number it draws the line at.
HaltedIffIdle ==
  Barrier => \A o \in Orders :
    /\ order[o].idle = superstep - last_offer[o]
    /\ halted[o] <=> TooIdle(superstep - last_offer[o])

\* When the bid one venue sent in the superstep before exceeds the ask of
\* another by the threshold, every market maker both reach signals it (README:
\* "If the observed bid from one venue exceeds the ask from another, they emit
\* an ARBITRAGE_SIGNAL").
ArbitrageSignalled ==
  Barrier /\ superstep >= 1 =>
    \A u, v \in Venues :
      Arbitrage(quotes[u][2].bid, quotes[v][2].ask) =>
        \A k \in Makers \cap Targets(u, AllTypes) \cap Targets(v, AllTypes) :
          \E m \in sent : m.src = k /\ m.body.type = "ARBITRAGE_SIGNAL"

----------------------------------------------------------------------------
(***************************************************************************)
(* The order book is one of the vertex programs PregelBSP allows: a        *)
(* vertex computes at its return, on all its mail, and sends along its     *)
(* edges.                                                                  *)
(***************************************************************************)
Headers(S) == {[src |-> m.src, dst |-> m.dst, step |-> m.step] : m \in S}

Bsp == INSTANCE PregelBSP WITH
         Edges <- [v \in Vertices |-> Targets(v, AllTypes)],
         mail  <- Headers(mail),
         sent  <- Headers(sent)

\* The four compute() functions keep to the Pregel model.
ImplementsPregel == Bsp!BspSpec
============================================================================

--------------------------- MODULE OrderBookGraph ---------------------------
(***************************************************************************)
(* build_order_book_graph (order_book_graph.cpp): the vertices, edges and  *)
(* initial states of a multi-venue order book.  What the builder draws at  *)
(* random for a given seed is given as functions of the vertex.            *)
(*                                                                         *)
(* Ids are handed out by next_id++: the venues first, then every price     *)
(* level followed by its orders, then the market makers.                   *)
(***************************************************************************)
EXTENDS Integers

CONSTANTS
  VenueCount, PriceLevels, OrdersPerLevel, MakerCount,   \* OrderBookGraphParams
  BasePrice,      \* BASE_PRICE
  Tick,           \* TICK_SIZE
  PriceNoise(_, _),  \* price_noise(rng) for a part of a vertex
  Qty(_, _),         \* qty_dist(rng) for a part of a vertex
  Sample(_)          \* the levels drawn for a market maker

VenueIds == 0 .. VenueCount - 1

\* A level and its orders take Block consecutive ids.
Block      == OrdersPerLevel + 1
FirstMaker == VenueCount + VenueCount * 2 * PriceLevels * Block
BookIds    == VenueCount .. FirstMaker - 1
Index(x)   == (x - VenueCount) \div Block

LevelIds == {x \in BookIds : (x - VenueCount) % Block = 0}
OrderIds == BookIds \ LevelIds
MakerIds == FirstMaker .. FirstMaker + MakerCount - 1

LevelOf(o) == VenueCount + Index(o) * Block
VenueOf(x) == Index(x) \div (2 * PriceLevels)
SideOf(x)  == IF (Index(x) \div PriceLevels) % 2 = 0 THEN "BID" ELSE "ASK"

Edge(dst, type) == [dst |-> dst, type |-> type]

VenueEdges(v) == {Edge(l, 0) : l \in {x \in LevelIds : VenueOf(x) = v}}
                   \cup {Edge(k, 3) : k \in MakerIds}
LevelEdges(l) == {Edge(VenueOf(l), 2)}
                   \cup {Edge(o, 1) : o \in {x \in OrderIds : LevelOf(x) = l}}
OrderEdges(o) == {Edge(LevelOf(o), 0)}
\* A level drawn twice has one edge here: the second would repeat a signal
\* that price levels ignore.
MakerEdges(k) == {Edge(v, 0) : v \in VenueIds} \cup {Edge(l, 2) : l \in Sample(k)}

BookEdges ==
  [x \in VenueIds \cup BookIds \cup MakerIds |->
     IF x \in VenueIds THEN VenueEdges(x) ELSE IF x \in LevelIds THEN LevelEdges(x)
     ELSE IF x \in OrderIds THEN OrderEdges(x) ELSE MakerEdges(x)]

BookSide == [x \in BookIds |-> SideOf(x)]

\* Level lvl of a side is lvl + 1 ticks away from the base price.
Offset(l) == LET d == ((Index(l) % PriceLevels) + 1) * Tick
             IN  IF SideOf(l) = "BID" THEN -d ELSE d
LevelPrice == [l \in LevelIds |-> BasePrice + Offset(l) + PriceNoise("level", l)]
LevelTotal == [l \in LevelIds |-> Qty("level", l) * OrdersPerLevel]
OrderLimit == [o \in OrderIds |-> LevelPrice[LevelOf(o)] + PriceNoise("order", o)]
OrderQty   == [o \in OrderIds |-> Qty("order", o)]

VenueQuote ==
  [v \in VenueIds |-> [best_bid |-> BasePrice - Tick + PriceNoise("bid", v),
                       best_ask |-> BasePrice + Tick + PriceNoise("ask", v),
                       bid_size |-> Qty("bid", v),
                       ask_size |-> Qty("ask", v)]]
============================================================================

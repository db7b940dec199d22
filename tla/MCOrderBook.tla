---------------------------- MODULE MCOrderBook ----------------------------
(***************************************************************************)
(* OrderBook for TLC, on the graph of OrderBookGraph.                      *)
(***************************************************************************)
EXTENDS OrderBook, OrderBookGraph

\* Venue 0 is a little cheaper, orders on the ask side a little eager.
SmallNoise(what, x) == IF what = "bid" /\ x = 0 THEN -1
                       ELSE IF what = "order" /\ SideOf(x) = "ASK" THEN -1 ELSE 0

\* A level lasts for two fills of its order.
SmallQty(what, x) == IF what = "level" THEN 3 ELSE IF what = "order" THEN 2 ELSE 1

FirstLevels(k) == {l \in LevelIds : VenueOf(l) = 0}

Walk == {-3, 4}

Counts == [l \in LevelIds |-> OrdersPerLevel]
============================================================================

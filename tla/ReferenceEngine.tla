--------------------------- MODULE ReferenceEngine ---------------------------
(***************************************************************************)
(* The pure-Python matching engine, src/src/engine/matching_engine.py: the *)
(* fallback when the extension is not built, and the baseline the tests    *)
(* compare the compiled one with.  It appends remainders to a plain list   *)
(* and sorts the OPPOSITE list at the start of every match, so a list is   *)
(* in priority order only from the moment an order arrives against it.     *)
(* It validates nothing and counts an order before matching it.            *)
(* The same algorithm is repeated in src/src/monitor/latency_monitor.py    *)
(* and in src/src/model/baseline_matcher.py.                               *)
(***************************************************************************)
EXTENDS EngineReports

CONSTANTS
    Prices, Quantities, Timestamps    \* of the orders that callers submit

ASSUME ReferenceEngineAssumption ==
    /\ Prices \subseteq Int
    /\ Quantities \subseteq Nat
    /\ Timestamps \subseteq Nat
    /\ MaxOrders \in Nat

vars == <<order_count, buy_orders, sell_orders, trades, pc, order, asked>>

OrderType == [order_id: Nat \ {0}, side: {BUY, SELL}, price: Int,
              quantity: Nat, timestamp: Nat]

Inputs == [side: {BUY, SELL}, price: Prices, quantity: Quantities, timestamp: Timestamps]

----------------------------------------------------------------------------
\* The sort keys: (price, timestamp) for sells, (-price, timestamp) for buys.
KeyLess(a, b) ==
    \/ IF a.side = BUY THEN a.price > b.price ELSE a.price < b.price
    \/ a.price = b.price /\ a.timestamp < b.timestamp

SortsBeforeReversed(book, i, j) ==   \* mutant: equal keys in reverse order
    \/ KeyLess(book[i], book[j])
    \/ ~ KeyLess(book[j], book[i]) /\ i > j

\* The sort puts place i of the list in front of place j.  list.sort is stable:
\* orders with equal keys keep their places.
SortsBefore(book, i, j) ==
    \/ KeyLess(book[i], book[j])
    \/ ~ KeyLess(book[j], book[i]) /\ i < j

\* Where the sort puts the order of place i: behind all those it puts before it.
Rank(book, i) == Cardinality({j \in DOMAIN book : SortsBefore(book, j, i)}) + 1

StableSort(book) ==
    [k \in DOMAIN book |-> book[CHOOSE i \in DOMAIN book : Rank(book, i) = k]]

Matchable ==
    /\ order.quantity > 0
    /\ IF order.side = BUY
       THEN sell_orders # <<>> /\ sell_orders[1].price <= order.price
       ELSE buy_orders  # <<>> /\ buy_orders[1].price  >= order.price

MatchedQuantity(o, best) ==
    IF o.quantity < best.quantity THEN o.quantity ELSE best.quantity

ReducedKeepsFilled(book, q) ==   \* mutant: a filled order stays in the list
    [book EXCEPT ![1].quantity = @ - q]

Reduced(book, q) ==
    IF book[1].quantity = q THEN Tail(book)
    ELSE [book EXCEPT ![1].quantity = @ - q]

----------------------------------------------------------------------------

Init ==
    /\ order_count = 0
    /\ buy_orders = <<>> /\ sell_orders = <<>> /\ trades = <<>>
    /\ pc = "idle" /\ order = NoOrder /\ asked = 0

\* add_order up to the first test of the loop.
AddOrder ==
    /\ pc = "idle"
    /\ order_count < MaxOrders
    /\ order_count' = order_count + 1
    /\ \E in \in Inputs :
        /\ order' = [order_id |-> order_count + 1, side |-> in.side, price |-> in.price,
                     quantity |-> in.quantity, timestamp |-> in.timestamp]
        /\ asked' = asked + in.quantity
        /\ IF in.side = BUY
           THEN sell_orders' = StableSort(sell_orders) /\ UNCHANGED buy_orders
           ELSE buy_orders' = StableSort(buy_orders) /\ UNCHANGED sell_orders
    /\ pc' = "match"
    /\ UNCHANGED trades

MatchBuy ==
    /\ pc = "match" /\ order.side = BUY /\ Matchable
    /\ LET best == sell_orders[1]
           q    == MatchedQuantity(order, best)
       IN  /\ trades' = Append(trades, [buy_id |-> order.order_id, sell_id |-> best.order_id,
                                        price |-> best.price, qty |-> q])
           /\ order' = [order EXCEPT !.quantity = @ - q]
           /\ sell_orders' = Reduced(sell_orders, q)
    /\ UNCHANGED <<order_count, buy_orders, pc, asked>>

MatchSell ==
    /\ pc = "match" /\ order.side = SELL /\ Matchable
    /\ LET best == buy_orders[1]
           q    == MatchedQuantity(order, best)
       IN  /\ trades' = Append(trades, [buy_id |-> best.order_id, sell_id |-> order.order_id,
                                        price |-> best.price, qty |-> q])
           /\ order' = [order EXCEPT !.quantity = @ - q]
           /\ buy_orders' = Reduced(buy_orders, q)
    /\ UNCHANGED <<order_count, sell_orders, pc, asked>>

\* The remainder is appended, whatever its price.
Return ==
    /\ pc = "match" /\ ~ Matchable
    /\ buy_orders'  = IF order.quantity > 0 /\ order.side = BUY
                      THEN Append(buy_orders, order) ELSE buy_orders
    /\ sell_orders' = IF order.quantity > 0 /\ order.side = SELL
                      THEN Append(sell_orders, order) ELSE sell_orders
    /\ pc' = "idle" /\ order' = NoOrder
    /\ UNCHANGED <<order_count, trades, asked>>

Finished == pc = "idle" /\ order_count = MaxOrders /\ UNCHANGED vars   \* no more callers

Next == AddOrder \/ MatchBuy \/ MatchSell \/ Return \/ Finished

Spec == Init /\ [][Next]_vars

----------------------------------------------------------------------------
\* Properties

\* SCHEMA.md: best_bid is the highest resting BUY price and best_ask the lowest
\* resting SELL price.  get_order_book_snapshot returns the first of each list.
SnapshotIsTopOfBook ==
    pc = "idle" =>
        /\ \A i \in 1 .. Len(buy_orders)  : buy_orders[i].price  <= buy_orders[1].price
        /\ \A i \in 1 .. Len(sell_orders) : sell_orders[i].price >= sell_orders[1].price

Market == INSTANCE PriceTimeMarket WITH
    Orders   <- OrderType,
    resting  <- ToSet(buy_orders) \cup ToSet(sell_orders),
    incoming <- order,
    tape     <- trades

\* Sorting lazily is enough for the trades: like the compiled engine's arrays,
\* the lists implement price-time matching over a set of orders.
ImplementsMarket == Market!MarketSpec
=============================================================================

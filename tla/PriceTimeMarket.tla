--------------------------- MODULE PriceTimeMarket ---------------------------
(***************************************************************************)
(* What a matching engine promises, with no book data structure at all:    *)
(* resting orders are a SET, an incoming order trades with the resting     *)
(* order of the other side that has price-time priority, at that order's   *)
(* price, for as long as the limit prices cross, and its remainder rests.  *)
(* MatchingEngine (the compiled engine's sorted arrays) and                *)
(* ReferenceEngine (the Python lists, sorted lazily) both implement it,    *)
(* which is why they produce the same trades for the same orders.          *)
(***************************************************************************)
EXTENDS Integers, Sequences

CONSTANT Orders          \* the orders that may arrive

BUY  == 0                \* matching_engine.pyx: C_BUY, C_SELL
SELL == 1

NoOrder == [order_id |-> 0, side |-> BUY, price |-> 0, quantity |-> 0, timestamp |-> 0]

VARIABLES
    resting,             \* the set of resting orders, both sides
    incoming,            \* the order being matched, or NoOrder
    tape                 \* the trades, oldest first

marketVars == <<resting, incoming, tape>>

----------------------------------------------------------------------------

\* a rests with priority over b: better price, then earlier timestamp, then
\* earlier arrival (orders are numbered as they arrive).
Precedes(a, b) ==
    \/ IF a.side = BUY THEN a.price > b.price ELSE a.price < b.price
    \/ a.price = b.price /\ a.timestamp < b.timestamp
    \/ a.price = b.price /\ a.timestamp = b.timestamp /\ a.order_id < b.order_id

\* The limit prices of an order and of a resting order of the other side cross.
Acceptable(o, r) ==
    /\ r.side # o.side
    /\ IF o.side = BUY THEN r.price <= o.price ELSE r.price >= o.price

Candidates == {r \in resting : Acceptable(incoming, r)}

Lesser(m, n) == IF m < n THEN m ELSE n

TradeOf(o, r, q) ==
    IF o.side = BUY
    THEN [buy_id |-> o.order_id, sell_id |-> r.order_id, price |-> r.price, qty |-> q]
    ELSE [buy_id |-> r.order_id, sell_id |-> o.order_id, price |-> r.price, qty |-> q]

----------------------------------------------------------------------------

MarketInit ==
    /\ resting = {}
    /\ incoming = NoOrder
    /\ tape = <<>>

Arrive ==
    /\ incoming = NoOrder
    /\ incoming' \in Orders
    /\ UNCHANGED <<resting, tape>>

\* The best acceptable resting order trades; it leaves when it is filled.
Trade ==
    /\ incoming.quantity > 0
    /\ \E r \in Candidates :
        /\ \A s \in Candidates \ {r} : Precedes(r, s)
        /\ LET q == Lesser(incoming.quantity, r.quantity)
               rest == [r EXCEPT !.quantity = @ - q]
           IN  /\ tape' = Append(tape, TradeOf(incoming, r, q))
               /\ incoming' = [incoming EXCEPT !.quantity = @ - q]
               /\ resting' = (resting \ {r}) \cup (IF rest.quantity > 0 THEN {rest} ELSE {})

\* Nothing is left to trade with: the remainder, if any, rests.
Settle ==
    /\ incoming # NoOrder
    /\ incoming.quantity > 0 => Candidates = {}
    /\ resting' = resting \cup (IF incoming.quantity > 0 THEN {incoming} ELSE {})
    /\ incoming' = NoOrder
    /\ UNCHANGED tape

\* The engine runs out of memory: the remainder is lost, the trades stand.
Abort ==
    /\ incoming # NoOrder
    /\ incoming' = NoOrder
    /\ UNCHANGED <<resting, tape>>

MarketNext == Arrive \/ Trade \/ Settle \/ Abort

MarketSpec == MarketInit /\ [][MarketNext]_marketVars
=============================================================================

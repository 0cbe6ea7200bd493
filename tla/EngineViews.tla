---------------------------- MODULE EngineViews ----------------------------
(***************************************************************************)
(* The compiled engine and what its readers see between two calls: the     *)
(* depth ladder, the aggregated depth, and the monitor's top of book.      *)
(***************************************************************************)
EXTENDS MatchingEngine, BookViews

CONSTANTS
    QuantityLimit,   \* 2^64: the ladder's sums are uint64
    MaxDepth         \* bound: levels asked for

\* A caller's quantity is a uint64 itself.
ASSUME EngineViewsAssumption ==
    /\ QuantityLimit \in Nat \ {0} /\ MaxDepth \in Nat
    /\ \A in \in Inputs : in.quantity < QuantityLimit

Wrap(n) == n % QuantityLimit

----------------------------------------------------------------------------
\* get_book_depth: one pass over a sorted side, one level open at a time.

\* The levels once the open one, if any, is appended.
Closed(w) == IF w.open THEN Append(w.levels, Level(w.price, w.qty)) ELSE w.levels

WalkStepOneMore(w, o, max_levels) ==   \* mutant: no test once a level is closed
    IF w.open /\ o.price = w.price
    THEN [w EXCEPT !.qty = Wrap(@ + o.quantity)]
    ELSE IF ~ w.open /\ Len(w.levels) >= max_levels
    THEN [levels |-> Closed(w), open |-> FALSE, price |-> w.price, qty |-> w.qty]
    ELSE [levels |-> Closed(w), open |-> TRUE, price |-> o.price, qty |-> o.quantity]

WalkStep(w, o, max_levels) ==
    IF w.open /\ o.price = w.price
    THEN [w EXCEPT !.qty = Wrap(@ + o.quantity)]
    ELSE IF Len(Closed(w)) >= max_levels
    THEN [levels |-> Closed(w), open |-> FALSE, price |-> w.price, qty |-> w.qty]
    ELSE [levels |-> Closed(w), open |-> TRUE, price |-> o.price, qty |-> o.quantity]

Ladder(book, max_levels) ==
    LET walk[k \in 0 .. Len(book)] ==
            IF k = 0 THEN [levels |-> <<>>, open |-> FALSE, price |-> 0, qty |-> 0]
            ELSE WalkStep(walk[k - 1], book[k], max_levels)
    IN  Closed(walk[Len(book)])

get_book_depth(buys, sells, max_levels) ==
    [bid_levels      |-> Ladder(buys, max_levels),
     ask_levels      |-> Ladder(sells, max_levels),
     total_bid_qty   |-> Wrap(Total(buys)),
     total_ask_qty   |-> Wrap(Total(sells)),
     bid_order_count |-> Len(buys),
     ask_order_count |-> Len(sells)]

----------------------------------------------------------------------------
Wrapped(levels) == [k \in DOMAIN levels |-> [levels[k] EXCEPT !.qty = Wrap(@)]]

LadderIsExact(depth) ==
    LET ladder == get_book_depth(buy_orders, sell_orders, depth)
        exact  == get_order_book_depth(buy_orders, sell_orders, depth)
    IN  /\ ladder.bid_levels = Wrapped(exact[1])
        /\ ladder.ask_levels = Wrapped(exact[2])

TopAgrees(depth) ==
    LET top == get_top_of_book(get_order_book_snapshot(buy_orders, sell_orders),
                               get_book_depth(buy_orders, sell_orders, depth), depth)
    IN  /\ ~ top.prices.is_crossed
        /\ \A s \in top.prices.spread : s > 0
        /\ depth > 0 => /\ top.prices.best_bid = FirstPrice(top.depth.bid_levels)
                        /\ top.prices.best_ask = FirstPrice(top.depth.ask_levels)
        /\ Len(top.depth.bid_levels) = Min({depth, Cardinality(PricesOf(buy_orders))})
        /\ Len(top.depth.ask_levels) = Min({depth, Cardinality(PricesOf(sell_orders))})

\* The two depth functions of the engine agree for every depth, though one walks
\* the array once and closes a level when the price changes (right only if equal
\* prices are next to each other) and the other adds up in a dict: the same
\* levels, best first, the walk's quantities modulo 2^64.  The monitor's top of
\* book shows as many levels as there are, the best price first, never crossed.
ViewsAgree ==
    pc = "idle" => \A depth \in 0 .. MaxDepth : LadderIsExact(depth) /\ TopAgrees(depth)
============================================================================

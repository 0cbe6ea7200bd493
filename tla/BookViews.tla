----------------------------- MODULE BookViews -----------------------------
(***************************************************************************)
(* What readers are told about a book and its trades, whatever the engine: *)
(* the snapshot and the aggregated depth, get_top_of_book of               *)
(* latency_monitor.py, which walks the Python engines' lists itself, and   *)
(* OrderBookAnalytics of metrics.py.  All are pure functions of two        *)
(* sequences of orders, or of the sequence of trades.                      *)
(*                                                                         *)
(* A price a reader may not find (None in the code) is a set of at most    *)
(* one price.  Averages are left as the sums they are the quotients of.    *)
(***************************************************************************)
EXTENDS Integers, Sequences, FiniteSets, SequencesExt, FiniteSetsExt, Sums

Level(p, q) == [price |-> p, qty |-> q]

Slice(levels, depth) == SubSeq(levels, 1, IF depth < Len(levels) THEN depth ELSE Len(levels))

Total(book) == SumOf([i \in DOMAIN book |-> book[i].quantity])

PricesOf(book) == {book[i].price : i \in DOMAIN book}

----------------------------------------------------------------------------
\* Aggregation in a dict, which needs no order and no width, and its sorting.

QuantityAt(book, p) ==
    SumOf([i \in DOMAIN book |-> IF book[i].price = p THEN book[i].quantity ELSE 0])

depth_by_price(book) == [p \in PricesOf(book) |-> QuantityAt(book, p)]

\* list.sort(reverse): the price of place k has k - 1 others before it.
ComesBefore(p, q, reverse) == IF reverse THEN p > q ELSE p < q

PlaceOf(p, prices, reverse) ==
    Cardinality({q \in prices : ComesBefore(q, p, reverse)}) + 1

SortedPrices(prices, reverse) ==
    [k \in 1 .. Cardinality(prices) |->
        CHOOSE p \in prices : PlaceOf(p, prices, reverse) = k]

SortedLevels(book, reverse) ==
    LET depth_map == depth_by_price(book)
        prices    == SortedPrices(PricesOf(book), reverse)
    IN  [k \in DOMAIN prices |-> Level(prices[k], depth_map[prices[k]])]

Bids(book) == SortedLevels(book, TRUE)
Asks(book) == SortedLevels(book, FALSE)

\* A negative depth raises ValueError.
get_order_book_depth(buys, sells, depth) == <<Slice(Bids(buys), depth), Slice(Asks(sells), depth)>>

FirstPrice(book) == IF book = <<>> THEN {} ELSE {book[1].price}

get_order_book_snapshot(buys, sells) == <<FirstPrice(buys), FirstPrice(sells)>>

----------------------------------------------------------------------------
\* LatencyMonitor.get_top_of_book: d is what the engine's get_book_depth gives,
\* or PythonDepth for an engine without one, whose lists Python can read.

PythonDepth(buys, sells) ==
    [bid_levels      |-> Bids(buys),
     ask_levels      |-> Asks(sells),
     total_bid_qty   |-> Total(buys),
     total_ask_qty   |-> Total(sells),
     bid_order_count |-> Len(buys),
     ask_order_count |-> Len(sells)]

\* spread, twice mid_price and is_crossed from the engine's snapshot.
TopPrices(best_bid, best_ask) ==
    [best_bid   |-> best_bid,
     best_ask   |-> best_ask,
     spread     |-> {a - b : a \in best_ask, b \in best_bid},
     twice_mid  |-> {a + b : a \in best_ask, b \in best_bid},
     is_crossed |-> \E b \in best_bid, a \in best_ask : b >= a]

get_top_of_book(snapshot, d, depth) ==
    [prices |-> TopPrices(snapshot[1], snapshot[2]),
     depth  |-> [d EXCEPT !.bid_levels = Slice(@, depth), !.ask_levels = Slice(@, depth)]]

----------------------------------------------------------------------------
\* OrderBookAnalytics: the best price is looked for in the whole list.

AnalyticsSnapshotOfFirst(buys, sells) ==   \* mutant: the first of the list, as if sorted
    [prices |-> TopPrices(FirstPrice(buys), FirstPrice(sells)),
     bid_depth |-> Len(buys), ask_depth |-> Len(sells),
     bid_qty |-> Total(buys), ask_qty |-> Total(sells)]

AnalyticsSnapshot(buys, sells) ==
    [prices |-> TopPrices(IF buys  = <<>> THEN {} ELSE {Max(PricesOf(buys))},
                          IF sells = <<>> THEN {} ELSE {Min(PricesOf(sells))}),
     bid_depth |-> Len(buys), ask_depth |-> Len(sells),
     bid_qty |-> Total(buys), ask_qty |-> Total(sells)]

Volume(trades) == SumOf([k \in DOMAIN trades |-> trades[k].qty])

Notional(trades) == SumOf([k \in DOMAIN trades |-> trades[k].price * trades[k].qty])

\* min_price and max_price; vwap is Notional over Volume, None when nothing traded.
trade_stats(trades) ==
    [count     |-> Len(trades),
     total_qty |-> Volume(trades),
     notional  |-> Notional(trades),
     min_price |-> IF trades = <<>> THEN {} ELSE {Min(PricesOf(trades))},
     max_price |-> IF trades = <<>> THEN {} ELSE {Max(PricesOf(trades))}]
============================================================================

--------------------------- MODULE EngineReports ---------------------------
(***************************************************************************)
(* What is reported between calls of an engine whose lists Python can read *)
(* (OrderBookAnalytics of metrics.py, get_top_of_book of                   *)
(* latency_monitor.py), and what it must add up to.                        *)
(***************************************************************************)
EXTENDS EngineBook, BookViews

VARIABLE asked   \* history: the quantity submitted so far, submitted_qty of benchmark.py

\* The analytics and the monitor's Python branch report the truth although the
\* lists are in no order: best prices that no list order can hide and that never
\* cross, levels that add up to the quantities resting, and a volume that
\* balances: what was asked rests, or was traded, once by each party.
ReportsBalance ==
    pc = "idle" =>
        LET seen  == AnalyticsSnapshot(buy_orders, sell_orders)
            top   == get_top_of_book(get_order_book_snapshot(buy_orders, sell_orders),
                                     PythonDepth(buy_orders, sell_orders), MaxOrders)
            stats == trade_stats(trades)
            Sum(levels) == SumOf([k \in DOMAIN levels |-> levels[k].qty])
        IN  /\ ~ seen.prices.is_crossed /\ ~ top.prices.is_crossed
            /\ seen.prices.best_bid = FirstPrice(top.depth.bid_levels)
            /\ seen.prices.best_ask = FirstPrice(top.depth.ask_levels)
            /\ seen.bid_qty = Sum(top.depth.bid_levels)
            /\ seen.ask_qty = Sum(top.depth.ask_levels)
            /\ seen.bid_qty + seen.ask_qty + 2 * stats.total_qty = asked
            /\ \A p \in stats.min_price : p * stats.total_qty <= stats.notional
            /\ \A p \in stats.max_price : p * stats.total_qty >= stats.notional
============================================================================

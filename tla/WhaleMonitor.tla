---------------------------- MODULE WhaleMonitor ----------------------------
(***************************************************************************)
(* LatencyMonitor of src/src/monitor/latency_monitor.py: one thread that   *)
(* submits orders to a matching engine, reports whale orders, trades and   *)
(* sweeps, and pushes the new trades into the queue of the persistence     *)
(* worker, which pops them concurrently.                                   *)
(*                                                                         *)
(* The engine is the market of PriceTimeMarket, which both engines         *)
(* implement: tape is its list of trades, and an order that it aborts, or  *)
(* refuses, raises out of step or add_custom_order before anything was     *)
(* detected or pushed.  The dashboard falls back to the headless loop then *)
(* and goes on with the same monitor.                                      *)
(***************************************************************************)
EXTENDS PriceTimeMarket, FiniteSets, SequencesExt, Sums

CONSTANTS
    Prices, Quantities,     \* of the orders submitted
    Thresholds,             \* whale thresholds; one number in "absolute" mode
    sweep_min_levels,       \* 0 switches the detection off
    QueueCapacity,          \* of the trade queue, which drops its oldest
    MaxEvents,              \* maxlen of the deque whale_events, 50
    RecentEvents,           \* those that get_market_state hands to the display, 6
    MaxCall,                \* largest num_orders of step
    MaxOrders, MaxResets    \* bounds: orders submitted, resets

ASSUME WhaleMonitorAssumption ==
    /\ Prices \subseteq Nat /\ Quantities \subseteq Nat \ {0}
    /\ Thresholds \subseteq Nat /\ Thresholds # {}
    /\ sweep_min_levels \in Nat
    /\ {QueueCapacity, MaxEvents, MaxCall} \subseteq Nat \ {0}
    /\ RecentEvents \in Nat
    /\ MaxOrders \in Nat /\ MaxResets \in Nat

VARIABLES
    pc,             \* "idle" | "submit" | "engine" | "sync"
    left,           \* orders that the running call has still to submit
    n_before,       \* trades of the engine before the order
    next,           \* the trade that the running sync looks at
    last_processed, \* _last_processed_trade_idx
    whale_events,   \* the deque
    queue,          \* the trade queue: <<generation, index on the tape>>
    order_count,    \* orders submitted since the last reset
    thresholds,     \* history: what get_current_whale_threshold gave for each
    raised,         \* history: those whose add_order raised
    swept,          \* history: those reported as a sweep
    evicted,        \* history: trades since the last reset that the queue dropped
    popped,         \* history: trades the worker has popped
    submitted,      \* history: orders submitted
    generation      \* history: resets made

call    == <<pc, left, n_before, next>>
reports == <<whale_events, thresholds, raised, swept>>
flow    == <<queue, evicted, popped>>
counts  == <<order_count, submitted, generation>>
vars    == <<marketVars, call, last_processed, reports, flow, counts>>

----------------------------------------------------------------------------

Init ==
    /\ MarketInit
    /\ pc = "idle" /\ left = 0 /\ n_before = 0 /\ next = 1
    /\ last_processed = 0
    /\ whale_events = <<>> /\ thresholds = <<>> /\ raised = {} /\ swept = {}
    /\ queue = <<>> /\ evicted = {} /\ popped = <<>>
    /\ order_count = 0 /\ submitted = 0 /\ generation = 0

Newest(n, s) == SubSeq(s, IF Len(s) > n THEN Len(s) - n + 1 ELSE 1, Len(s))

Report(e) == whale_events' = Newest(MaxEvents, Append(whale_events, e))

----------------------------------------------------------------------------
\* step and add_custom_order

\* step(num_orders), or add_custom_order with its one order.
BeginCall ==
    /\ pc = "idle"
    /\ left' \in 1 .. MaxCall
    /\ submitted + left' <= MaxOrders
    /\ pc' = "submit"
    /\ UNCHANGED <<marketVars, n_before, next, last_processed, reports, flow, counts>>

\* In "relative" mode the threshold depends on the last 200 quantities.
OnOrderSubmitted(o) ==
    \E thresh \in Thresholds :
        /\ thresholds' = Append(thresholds, thresh)
        /\ IF o.quantity >= thresh
           THEN Report([event_type |-> "RESTING_ORDER", order_id |-> o.order_id,
                        quantity |-> o.quantity])
           ELSE UNCHANGED whale_events

\* The trades are counted, and the engine takes the order or refuses it.
SubmitOrderStaleCount ==   \* mutant: the count is taken once per call
    /\ pc = "submit"
    /\ \E side \in {BUY, SELL}, price \in Prices, quantity \in Quantities :
        LET o == [order_id |-> order_count + 1, side |-> side, price |-> price,
                  quantity |-> quantity, timestamp |-> 0]
        IN  /\ OnOrderSubmitted(o)
            /\ \/ incoming' = o /\ Arrive /\ pc' = "engine" /\ UNCHANGED raised
               \/ pc' = "idle" /\ raised' = raised \cup {o.order_id} /\ UNCHANGED marketVars
    /\ n_before' = last_processed
    /\ order_count' = order_count + 1 /\ submitted' = submitted + 1
    /\ UNCHANGED <<left, next, last_processed, swept, flow, generation>>

SubmitOrder ==
    /\ pc = "submit"
    /\ \E side \in {BUY, SELL}, price \in Prices, quantity \in Quantities :
        LET o == [order_id |-> order_count + 1, side |-> side, price |-> price,
                  quantity |-> quantity, timestamp |-> 0]
        IN  /\ OnOrderSubmitted(o)
            /\ \/ incoming' = o /\ Arrive /\ pc' = "engine" /\ UNCHANGED raised
               \/ pc' = "idle" /\ raised' = raised \cup {o.order_id} /\ UNCHANGED marketVars
    /\ n_before' = Len(tape)
    /\ order_count' = order_count + 1 /\ submitted' = submitted + 1
    /\ UNCHANGED <<left, next, last_processed, swept, flow, generation>>

EngineTrades ==
    /\ pc = "engine"
    /\ Trade
    /\ UNCHANGED <<call, last_processed, reports, flow, counts>>

\* MemoryError in the middle of an order: the fills it made stay on the tape.
EngineRaises ==
    /\ pc = "engine"
    /\ Abort
    /\ pc' = "idle"
    /\ raised' = raised \cup {order_count}
    /\ UNCHANGED <<left, n_before, next, last_processed, whale_events, thresholds, swept,
                   flow, counts>>

Executed(fills) == SumOf([k \in DOMAIN fills |-> fills[k].qty])

\* Each level by the first fill that hit it: the one whose price was not yet seen.
LevelsHit(fills) ==
    {k \in DOMAIN fills : \A j \in 1 .. k - 1 : fills[j].price # fills[k].price}

DetectSweepByFills(o) ==   \* mutant: every fill is taken for a level
    LET fills == SubSeq(tape, n_before + 1, Len(tape)) IN
    IF /\ sweep_min_levels > 0
       /\ Len(fills) >= sweep_min_levels
       /\ Executed(fills) >= thresholds[o.order_id]
    THEN /\ Report([event_type |-> "WHALE_SWEEP", order_id |-> o.order_id, side |-> o.side,
                    quantity |-> Executed(fills), price |-> Head(fills).price,
                    levels_cleared |-> Len(fills), price_end |-> Last(fills).price])
         /\ swept' = swept \cup {o.order_id}
    ELSE UNCHANGED <<whale_events, swept>>

DetectSweep(o) ==
    LET fills  == SubSeq(tape, n_before + 1, Len(tape))
        levels == LevelsHit(fills)
    IN  IF /\ sweep_min_levels > 0
           /\ Cardinality(levels) >= sweep_min_levels
           /\ Executed(fills) >= thresholds[o.order_id]
        THEN /\ Report([event_type |-> "WHALE_SWEEP", order_id |-> o.order_id,
                        side |-> o.side, quantity |-> Executed(fills),
                        price |-> fills[Min(levels)].price,
                        levels_cleared |-> Cardinality(levels),
                        price_end |-> fills[Max(levels)].price])
             /\ swept' = swept \cup {o.order_id}
        ELSE UNCHANGED <<whale_events, swept>>

\* add_order has returned: the order is looked at, then the next one is submitted,
\* or the call goes on to the sync.
EngineReturns ==
    /\ pc = "engine"
    /\ Settle
    /\ DetectSweep(incoming)
    /\ left' = left - 1
    /\ pc' = IF left' > 0 THEN "submit" ELSE "sync"
    /\ next' = last_processed + 1
    /\ UNCHANGED <<n_before, last_processed, thresholds, raised, flow, counts>>

----------------------------------------------------------------------------
\* _sync_matched_trades_to_persistence

\* DROP_OLDEST: a push into a full queue evicts its first trade.
Push(trade) ==
    IF Len(queue) = QueueCapacity
    THEN queue' = Append(Tail(queue), trade) /\ evicted' = evicted \cup {Head(queue)}
    ELSE queue' = Append(queue, trade) /\ UNCHANGED evicted

SyncTrade ==
    /\ pc = "sync"
    /\ next <= Len(tape)
    /\ IF tape[next].qty >= thresholds[order_count]
       THEN Report([event_type |-> "MATCHED_TRADE", buy_id |-> tape[next].buy_id,
                    sell_id |-> tape[next].sell_id, quantity |-> tape[next].qty])
       ELSE UNCHANGED whale_events
    /\ Push(<<generation, next>>)
    /\ next' = next + 1
    /\ UNCHANGED <<marketVars, pc, left, n_before, last_processed, thresholds, raised, swept,
                   popped, counts>>

SyncDoneCountsNew ==   \* mutant: the number of new trades, not of all trades
    /\ pc = "sync"
    /\ next > Len(tape)
    /\ last_processed' = Len(tape) - last_processed
    /\ pc' = "idle"
    /\ UNCHANGED <<marketVars, left, n_before, next, reports, flow, counts>>

SyncDone ==
    /\ pc = "sync"
    /\ next > Len(tape)
    /\ last_processed' = Len(tape)
    /\ pc' = "idle"
    /\ UNCHANGED <<marketVars, left, n_before, next, reports, flow, counts>>

----------------------------------------------------------------------------

\* reset: a new engine, a cleared queue.  Trades that a raised call has left
\* unsynced go with the old engine.
ResetKeepsIndex ==   \* mutant: _last_processed_trade_idx survives the reset
    /\ pc = "idle"
    /\ generation < MaxResets
    /\ resting' = {} /\ tape' = <<>>
    /\ whale_events' = <<>> /\ thresholds' = <<>> /\ raised' = {} /\ swept' = {}
    /\ queue' = <<>> /\ evicted' = {}
    /\ order_count' = 0
    /\ generation' = generation + 1
    /\ UNCHANGED <<incoming, call, last_processed, popped, submitted>>

Reset ==
    /\ pc = "idle"
    /\ generation < MaxResets
    /\ resting' = {} /\ tape' = <<>>
    /\ last_processed' = 0
    /\ whale_events' = <<>> /\ thresholds' = <<>> /\ raised' = {} /\ swept' = {}
    /\ queue' = <<>> /\ evicted' = {}
    /\ order_count' = 0
    /\ generation' = generation + 1
    /\ UNCHANGED <<incoming, call, popped, submitted>>

\* The persistence worker's pop_batch.
WorkerPops ==
    /\ \E n \in 1 .. Len(queue) :
        /\ popped' = popped \o SubSeq(queue, 1, n)
        /\ queue' = SubSeq(queue, n + 1, Len(queue))
    /\ UNCHANGED <<marketVars, call, last_processed, reports, evicted, counts>>

----------------------------------------------------------------------------
\* What the display is given: events are told apart by their place in the deque,
\* as the code tells them apart by identity.

Recent == Newest(RecentEvents, [i \in DOMAIN whale_events |-> i])

\* last_whale_sweep, or none.
LastSweep ==
    LET sweeps == {i \in DOMAIN whale_events : whale_events[i].event_type = "WHALE_SWEEP"}
    IN  IF sweeps = {} THEN {} ELSE {Max(sweeps)}

select_whale_eventsSlice(n) ==   \* mutant: recent_whale_events[-(n - 1):] also for n = 1
    IF n <= 0 THEN <<>>
    ELSE IF LastSweep \subseteq ToSet(Newest(n, Recent)) THEN Newest(n, Recent)
    ELSE SetToSeq(LastSweep) \o (IF n = 1 THEN Recent ELSE Newest(n - 1, Recent))

\* The newest n events; a sweep that is not among them takes the first place.
select_whale_events(n) ==
    IF n <= 0 THEN <<>>
    ELSE IF LastSweep \subseteq ToSet(Newest(n, Recent)) THEN Newest(n, Recent)
    ELSE SetToSeq(LastSweep) \o (IF n > 1 THEN Newest(n - 1, Recent) ELSE <<>>)

----------------------------------------------------------------------------

Finished == pc = "idle" /\ submitted = MaxOrders /\ UNCHANGED vars   \* no more orders

Next ==
    \/ BeginCall \/ SubmitOrder
    \/ EngineTrades \/ EngineRaises \/ EngineReturns
    \/ SyncTrade \/ SyncDone
    \/ Reset \/ WorkerPops \/ Finished

Spec == Init /\ [][Next]_vars

----------------------------------------------------------------------------
\* Properties

Earlier(a, b) == a[1] < b[1] \/ (a[1] = b[1] /\ a[2] < b[2])

\* Every trade goes to the worker's queue once and in order, whatever raised and
\* whatever was reset while the worker was popping: no trade is pushed twice, none
\* of an older engine is in the queue, those of this engine are popped, queued or
\* evicted up to the sync's position, and nothing but a call that raised leaves the
\* sync behind the tape.
TradesFlowOnce ==
    LET passed == {<<generation, k>> : k \in 1 .. (IF pc = "sync" THEN next - 1
                                                    ELSE last_processed)}
        kept   == popped \o queue
        ours   == {e \in ToSet(kept) : e[1] = generation}
    IN  /\ \A i, j \in 1 .. Len(kept) : i < j => Earlier(kept[i], kept[j])
        /\ ToSet(queue) \subseteq ours
        /\ passed = ours \cup evicted
        /\ ours \cap evicted = {}
        /\ last_processed <= Len(tape)
        /\ pc = "idle" /\ order_count \notin raised => last_processed = Len(tape)

\* The fills that o took: the later arrival of the two is the taker.
FillsOf(o) == {k \in DOMAIN tape : IF tape[k].buy_id > tape[k].sell_id
                                   THEN tape[k].buy_id = o ELSE tape[k].sell_id = o}

LevelsOf(o)   == {tape[k].price : k \in FillsOf(o)}
QuantityOf(o) == SumOf([k \in DOMAIN tape |-> IF k \in FillsOf(o) THEN tape[k].qty ELSE 0])

\* However few events the display has room for, it shows the latest sweep that is
\* still in the deque, though newer trades have scrolled it out of the recent
\* events; never more events than there is room for, oldest first, none twice.
LatestSweepIsShown ==
    \A n \in 0 .. RecentEvents + 1 :
        LET shown == select_whale_events(n) IN
        /\ Len(shown) <= n
        /\ \A i, j \in DOMAIN shown : i < j => shown[i] < shown[j]
        /\ n > 0 => LastSweep \subseteq ToSet(shown)
        /\ n > 1 /\ whale_events # <<>> => Last(shown) = Len(whale_events)

\* A sweep is reported for exactly the orders whose own fills span enough levels and
\* reach the threshold, never for the fills of two orders together and also in the
\* middle of a step of many orders or after one that raised; and the event names the
\* best and the worst level hit.  The latest one is always shown.
SweepsOfOneOrder ==
    /\ LatestSweepIsShown
    /\ swept = {o \in (1 .. order_count) \ raised :
                   /\ pc # "engine" \/ o # order_count
                   /\ sweep_min_levels > 0
                   /\ Cardinality(LevelsOf(o)) >= sweep_min_levels
                   /\ QuantityOf(o) >= thresholds[o]}
    /\ \A i \in DOMAIN whale_events :
        LET e == whale_events[i] IN
        e.event_type = "WHALE_SWEEP" =>
            /\ e.quantity = QuantityOf(e.order_id)
            /\ e.levels_cleared = Cardinality(LevelsOf(e.order_id))
            /\ {e.price, e.price_end} \subseteq LevelsOf(e.order_id)
            /\ \A p \in LevelsOf(e.order_id) :
                IF e.side = BUY THEN e.price <= p /\ p <= e.price_end
                                ELSE e.price >= p /\ p >= e.price_end
=============================================================================

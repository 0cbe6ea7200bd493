--------------------------- MODULE MatchingEngine ---------------------------
(***************************************************************************)
(* The compiled matching engine, src/src/engine/matching_engine.pyx.       *)
(*                                                                         *)
(* Two arrays of resting orders kept sorted by every insertion, a growing  *)
(* array of trades, and the calls add_order and add_orders_batch.  A call  *)
(* runs to completion under the interpreter lock; its loop is modelled one *)
(* iteration per step, so that the places where it can fail half way (the  *)
(* realloc of a full array, an invalid member of a batch) are visible.     *)
(*                                                                         *)
(* Prices are positive integers: the engine only compares them.  Price 0   *)
(* stands for every price the validation refuses (NaN, infinite, <= 0).    *)
(***************************************************************************)
EXTENDS EngineBook, FiniteSets, SequencesExt, Sums

CONSTANTS
    Inputs,           \* what callers pass: side, price, quantity, timestamp
    MaxOrderCount,    \* largest value of the uint64 order_count
    InitialCapacity   \* 16 in the code

ASSUME MatchingEngineAssumption ==
    /\ Inputs \subseteq [side: Nat, price: Nat, quantity: Nat, timestamp: Nat]
    /\ MaxOrderCount \in Nat
    /\ InitialCapacity \in Nat \ {0}
    /\ MaxOrders \in Nat

VARIABLES
    buy_capacity, sell_capacity, trade_capacity,           \* allocated lengths
    in_batch,         \* the running call is add_orders_batch; pc is "batch" between members
    error,            \* what the last call raised, or "none"
    submitted,        \* history: the orders that passed validation, as given
    failed            \* history: ids of orders whose call raised MemoryError

books      == <<buy_orders, sell_orders>>
capacities == <<buy_capacity, sell_capacity, trade_capacity>>
control    == <<pc, in_batch, order, error>>
history    == <<submitted, failed>>
vars       == <<order_count, books, trades, capacities, control, history>>

OrderType == [order_id: Nat \ {0}, side: {BUY, SELL}, price: Nat \ {0},
              quantity: Nat, timestamp: Nat]
TradeType == [buy_id: Nat \ {0}, sell_id: Nat \ {0}, price: Nat \ {0}, qty: Nat \ {0}]

----------------------------------------------------------------------------
\* Helpers

Valid(in) == in.side \in {BUY, SELL} /\ in.price > 0 /\ in.quantity > 0

\* _ensure_*_capacity: growth happens only when the array is full.
IsFull(a, capacity) == ~ (Len(a) < capacity)
Grown(a, capacity) ==
    IF ~ IsFull(a, capacity) THEN capacity
    ELSE IF capacity = 0 THEN InitialCapacity ELSE 2 * capacity

GoesBeforeTiesFirst(o, r) ==   \* mutant: <= instead of <
    \/ IF o.side = BUY THEN o.price > r.price ELSE o.price < r.price
    \/ o.price = r.price /\ o.timestamp <= r.timestamp

\* The comparison of the insertion loops: o goes in front of the resting r.
GoesBefore(o, r) ==
    \/ IF o.side = BUY THEN o.price > r.price ELSE o.price < r.price
    \/ o.price = r.price /\ o.timestamp < r.timestamp

\* p is the first position whose order o goes in front of, or one past the end.
IsInsertPosition(book, o, p) ==
    /\ \A i \in 1 .. p - 1 : ~ GoesBefore(o, book[i])
    /\ p <= Len(book) => GoesBefore(o, book[p])

MatchableStrictly ==   \* mutant: < instead of <=
    /\ order.quantity > 0
    /\ IF order.side = BUY
       THEN sell_orders # <<>> /\ sell_orders[1].price < order.price
       ELSE buy_orders  # <<>> /\ buy_orders[1].price  > order.price

\* The while condition of _match_buy and _match_sell.
Matchable ==
    /\ order.quantity > 0
    /\ IF order.side = BUY
       THEN sell_orders # <<>> /\ sell_orders[1].price <= order.price
       ELSE buy_orders  # <<>> /\ buy_orders[1].price  >= order.price

MatchedQuantity(o, best) ==
    IF o.quantity < best.quantity THEN o.quantity ELSE best.quantity

ReducedKeepsFilled(book, q) ==   \* mutant: a filled order stays in the array
    [book EXCEPT ![1].quantity = @ - q]

\* The best resting order gives q, and is removed when nothing is left of it.
Reduced(book, q) ==
    IF book[1].quantity = q THEN Tail(book)
    ELSE [book EXCEPT ![1].quantity = @ - q]

----------------------------------------------------------------------------
\* Calls.  A call ends by returning or by raising; both leave no local order.

Init ==
    /\ order_count = 0
    /\ buy_orders = <<>> /\ sell_orders = <<>> /\ trades = <<>>
    /\ buy_capacity = 0 /\ sell_capacity = 0 /\ trade_capacity = 0
    /\ pc = "idle" /\ in_batch = FALSE /\ order = NoOrder /\ error = "none"
    /\ submitted = <<>> /\ failed = {}

Raise(e) ==
    /\ error' = e
    /\ pc' = "idle" /\ in_batch' = FALSE /\ order' = NoOrder

\* Validation, in the order of the code: values first, then the counter.
Refuse(in) ==
    /\ ~ Valid(in)
    /\ Raise("ValueError")
    /\ UNCHANGED <<order_count, books, trades, capacities, history>>

CountLimit(in) ==
    /\ Valid(in)
    /\ order_count = MaxOrderCount
    /\ Raise("OverflowError")
    /\ UNCHANGED <<order_count, books, trades, capacities, history>>

Begin(in) ==
    /\ Valid(in)
    /\ order_count # MaxOrderCount
    /\ Len(submitted) < MaxOrders
    /\ order' = [order_id |-> Len(submitted) + 1, side |-> in.side, price |-> in.price,
                 quantity |-> in.quantity, timestamp |-> in.timestamp]
    /\ submitted' = Append(submitted, order')
    /\ pc' = "match"
    /\ error' = "none"
    /\ UNCHANGED <<order_count, books, trades, capacities, failed>>

AddOrder ==
    /\ pc = "idle"
    /\ \E in \in Inputs :
        \/ Refuse(in)
        \/ CountLimit(in)
        \/ Begin(in) /\ UNCHANGED in_batch

BatchStart ==
    /\ pc = "idle"
    /\ pc' = "batch" /\ in_batch' = TRUE /\ error' = "none"
    /\ UNCHANGED <<order_count, books, trades, capacities, order, history>>

\* The members of a batch are chosen as the loop reaches them.  An invalid one
\* raises: the members before it stay applied, the ones after it are never seen.
BatchMember ==
    /\ pc = "batch"
    /\ \E in \in Inputs :
        \/ Refuse(in)
        \/ CountLimit(in)
        \/ Begin(in) /\ UNCHANGED in_batch

BatchReturn ==
    /\ pc = "batch"
    /\ pc' = "idle" /\ in_batch' = FALSE
    /\ UNCHANGED <<order_count, books, trades, capacities, order, error, history>>

----------------------------------------------------------------------------
\* One iteration of the matching loops.

RecordTradeOverwrites(buy_id, sell_id, price, qty) ==   \* mutant: trade_count not advanced
    /\ trade_capacity' = Grown(trades, trade_capacity)
    /\ trades' = <<[buy_id |-> buy_id, sell_id |-> sell_id, price |-> price, qty |-> qty]>>

RecordTrade(buy_id, sell_id, price, qty) ==
    /\ trade_capacity' = Grown(trades, trade_capacity)
    /\ trades' = Append(trades, [buy_id |-> buy_id, sell_id |-> sell_id,
                                 price |-> price, qty |-> qty])

MatchBuy ==
    /\ pc = "match" /\ order.side = BUY /\ Matchable
    /\ LET best == sell_orders[1]
           q    == MatchedQuantity(order, best)
       IN  /\ RecordTrade(order.order_id, best.order_id, best.price, q)
           /\ order' = [order EXCEPT !.quantity = @ - q]
           /\ sell_orders' = Reduced(sell_orders, q)
    /\ UNCHANGED <<order_count, buy_orders, buy_capacity, sell_capacity,
                   pc, in_batch, error, history>>

MatchSell ==
    /\ pc = "match" /\ order.side = SELL /\ Matchable
    /\ LET best == buy_orders[1]
           q    == MatchedQuantity(order, best)
       IN  /\ RecordTrade(best.order_id, order.order_id, best.price, q)
           /\ order' = [order EXCEPT !.quantity = @ - q]
           /\ buy_orders' = Reduced(buy_orders, q)
    /\ UNCHANGED <<order_count, sell_orders, buy_capacity, sell_capacity,
                   pc, in_batch, error, history>>

\* After the loop: _insert_buy / _insert_sell of a remainder, then the counter.
Finish ==
    /\ order_count' = order_count + 1
    /\ pc' = IF in_batch THEN "batch" ELSE "idle"
    /\ order' = NoOrder
    /\ UNCHANGED <<in_batch, error, trades, trade_capacity, history>>

Filled ==
    /\ pc = "match" /\ order.quantity = 0
    /\ Finish
    /\ UNCHANGED <<books, buy_capacity, sell_capacity>>

InsertBuy ==
    /\ pc = "match" /\ order.side = BUY /\ order.quantity > 0 /\ ~ Matchable
    /\ \E p \in 1 .. Len(buy_orders) + 1 :
        /\ IsInsertPosition(buy_orders, order, p)
        /\ buy_orders' = InsertAt(buy_orders, p, order)
    /\ buy_capacity' = Grown(buy_orders, buy_capacity)
    /\ Finish
    /\ UNCHANGED <<sell_orders, sell_capacity>>

InsertSell ==
    /\ pc = "match" /\ order.side = SELL /\ order.quantity > 0 /\ ~ Matchable
    /\ \E p \in 1 .. Len(sell_orders) + 1 :
        /\ IsInsertPosition(sell_orders, order, p)
        /\ sell_orders' = InsertAt(sell_orders, p, order)
    /\ sell_capacity' = Grown(sell_orders, sell_capacity)
    /\ Finish
    /\ UNCHANGED <<buy_orders, buy_capacity>>

OutOfMemoryCounted ==   \* mutant: the order is counted although its call raised
    /\ pc = "match"
    /\ \/ Matchable /\ IsFull(trades, trade_capacity)
       \/ /\ order.quantity > 0 /\ ~ Matchable
          /\ \/ order.side = BUY  /\ IsFull(buy_orders, buy_capacity)
             \/ order.side = SELL /\ IsFull(sell_orders, sell_capacity)
    /\ failed' = failed \cup {order.order_id}
    /\ Raise("MemoryError")
    /\ order_count' = order_count + 1
    /\ UNCHANGED <<books, trades, capacities, submitted>>

\* realloc fails while an array grows: the call raises, what it did stays done.
OutOfMemory ==
    /\ pc = "match"
    /\ \/ Matchable /\ IsFull(trades, trade_capacity)
       \/ /\ order.quantity > 0 /\ ~ Matchable
          /\ \/ order.side = BUY  /\ IsFull(buy_orders, buy_capacity)
             \/ order.side = SELL /\ IsFull(sell_orders, sell_capacity)
    /\ failed' = failed \cup {order.order_id}
    /\ Raise("MemoryError")
    /\ UNCHANGED <<order_count, books, trades, capacities, submitted>>

Next ==
    \/ AddOrder
    \/ BatchStart \/ BatchMember \/ BatchReturn
    \/ MatchBuy \/ MatchSell
    \/ Filled \/ InsertBuy \/ InsertSell
    \/ OutOfMemory

Spec == Init /\ [][Next]_vars

----------------------------------------------------------------------------
\* Properties

RestingType(side) == [order_id: Nat \ {0}, side: {side}, price: Nat \ {0},
                      quantity: Nat \ {0}, timestamp: Nat]

Fits(a, capacity) == capacity \in Nat /\ Len(a) <= capacity

\* Every field has its type; in particular an order rests on its own side of the
\* book and has quantity left, whatever was matched against it, and no array is
\* longer than what was allocated for it, also after a realloc that failed.
TypeOK ==
    /\ order_count \in Nat
    /\ buy_orders  \in Seq(RestingType(BUY))
    /\ sell_orders \in Seq(RestingType(SELL))
    /\ trades \in Seq(TradeType)
    /\ Fits(buy_orders, buy_capacity) /\ Fits(sell_orders, sell_capacity)
    /\ Fits(trades, trade_capacity)
    /\ pc \in {"idle", "batch", "match"}
    /\ in_batch \in BOOLEAN
    /\ IF pc = "match" THEN order \in OrderType ELSE order = NoOrder
    /\ error \in {"none", "ValueError", "OverflowError", "MemoryError"}
    /\ submitted \in Seq(OrderType)
    /\ failed \subseteq Nat

\* a has price-time priority over b: the better price, then the earlier
\* timestamp, then the earlier arrival.
HasPriority(a, b) ==
    \/ IF a.side = BUY THEN a.price > b.price ELSE a.price < b.price
    \/ a.price = b.price /\ a.timestamp < b.timestamp
    \/ a.price = b.price /\ a.timestamp = b.timestamp /\ a.order_id < b.order_id

InPriorityOrder(book) ==
    \A i, j \in 1 .. Len(book) : i < j => HasPriority(book[i], book[j])

\* Both arrays are always in price-time priority, arrival breaking ties, though
\* timestamps may arrive in any order (the caller supplies them): the matching
\* loops only ever look at element 0.
BooksInPriorityOrder == InPriorityOrder(buy_orders) /\ InPriorityOrder(sell_orders)

\* No resting buy crosses a resting sell, also half way through a match and
\* after a call that raised: two resting orders never trade with each other, so
\* a crossed pair would stay crossed.
BookNotCrossed ==
    \A i \in 1 .. Len(buy_orders), j \in 1 .. Len(sell_orders) :
        buy_orders[i].price < sell_orders[j].price

\* What order id gave or took in each trade of the tape, and has left in each
\* element of a book.
Fills(tape, id) ==
    [k \in DOMAIN tape |-> IF id \in {tape[k].buy_id, tape[k].sell_id} THEN tape[k].qty ELSE 0]
Shares(book, id) ==
    [i \in DOMAIN book |-> IF book[i].order_id = id THEN book[i].quantity ELSE 0]

Traded(id)  == SumOf(Fills(trades, id))
Resting(id) == SumOf(Shares(buy_orders, id)) + SumOf(Shares(sell_orders, id))
Working(id) == IF order.order_id = id THEN order.quantity ELSE 0

\* Quantity is neither created nor lost: what an order asked for is what it
\* traded, plus what rests, plus what the running call still holds.  An order
\* whose call raised MemoryError rests nowhere; the trades it made stand.
QuantityConserved ==
    \A id \in 1 .. Len(submitted) :
        IF id \in failed
        THEN Resting(id) = 0 /\ Traded(id) <= submitted[id].quantity
        ELSE Traded(id) + Resting(id) + Working(id) = submitted[id].quantity

\* order_count counts the calls that completed: not those refused, not the one
\* running, not those that ran out of memory after trading.
CountsCompletedOrders ==
    order_count + Cardinality(failed) + (IF pc = "match" THEN 1 ELSE 0) = Len(submitted)

Market == INSTANCE PriceTimeMarket WITH
    Orders   <- OrderType,
    resting  <- ToSet(buy_orders) \cup ToSet(sell_orders),
    incoming <- order,
    tape     <- trades

\* The sorted arrays implement price-time matching over a set of orders: every
\* step is a step of that specification or changes nothing it sees.
ImplementsMarket == Market!MarketSpec
============================================================================

# A specification of ChronosMatch in TLA+

ChronosMatch is an order-matching engine (Cython, with a pure-Python twin), a set of
shared-memory rings that bring orders to it, and a background pipeline that writes its
trades to SQLite.  This directory holds TLA+ models of these parts, TLC configurations
that check them on small instances, and proofs for the engine, the trade queue, the
persistence worker, the repository, the three rings, the path of an order through one of
them, and the monitor's flow of trades.

Paths below are relative to the repository (`src/src/engine/...` is the package
`src.engine`).  A definition that ends in `\* mutant: ...` is a plausible bug, kept beside
the definition it would replace; no model uses it.  `PROJECT.json` names, for every
property, the mutant that breaks it.

## 1. The system

| Component | State | Operations | Hard part |
|---|---|---|---|
| Compiled engine, `engine/matching_engine.pyx` | two sorted arrays of resting orders, array of trades, order counter, capacities | `add_order`, `add_orders_batch`, accessors | failure in the middle of a match or a batch; priority when timestamps go backwards |
| Pure-Python engines, `engine/matching_engine.py`, `model/baseline_matcher.py`, fallback in `monitor/latency_monitor.py` | two lists, trades | `add_order`, snapshot | sorts lazily, only the list it is about to match |
| Trade queue, `ipc/trade_queue.py` | bounded deque, counters, one lock and two conditions | `push` under four policies, `pop_batch`, `pop_nowait`, `close`, `clear`, subscribers | lost wakeups, timeouts racing notifications, two critical sections in one push |
| Persistence worker, `persistence/worker.py` | held batch, stop event, thread, state, counters | `start`, run loop, retry, `stop`, drain | failed saves, bounded retries at shutdown, a join that times out |
| Repository, `persistence/repository.py` | SQLite table, connection, lock, closed flag | `save_trades_batch`, queries, `close` | two processes on one file: locks, retries, kills; a batch commits or rolls back as a whole; duplicates ignored, and counted by a difference of `total_changes` |
| Order ring, `data_processing/ipc_buffer.py`, with `firehose.py` and `consumer.py` | file with two indexes and slots | `write`, `read`, the two main loops | no lock; torn records; no backpressure; kills and restarts |
| File-locked ring, `ipc/ring_buffer.py`, with `ipc/consumer.py` | file with read index, write index, count | `put`, `get`, `process_one`, `drain` | kills inside the critical section; a record the engine refuses |
| Sequence-numbered ring, `ipc/mmap_buffer.py` | file with head, tail, dropped count; a local read position | `write`, `read`, `read_batch`, attach | a lock that only covers one process; overwriting a lapped reader |
| Record format, `data_processing/processor.py` | none | `create_order`, `pack_order`, `unpack_order` | widths of the words; prices that are not numbers |
| Views: depth and snapshot of the engines, `get_top_of_book`, `analysis/metrics.py` | none | read the books and the trades | one walks a sorted array once, others read lists that are in no order |
| Monitor, `monitor/latency_monitor.py` | engine, statistics, whale events, position in the trades | `step`, `add_custom_order`, `reset`, `shutdown`, screens | trades pushed once each; sweeps attributed to one order |
| Simulator, plots; benchmarks and demonstrations | none of their own | | |

Orders go from `firehose.py` through a ring to `consumer.py`, which calls `add_order`.
The monitor calls `add_order` itself, reads the new trades and pushes them on the trade
queue; the worker's thread pops batches and saves them.  The engine runs under the
interpreter lock; the rings are between processes; queue, worker and repository are
between threads.

What makes each part correct: the engine trades by price-time priority, keeps the book
uncrossed and conserves quantity, also after an exception; both engines do the same; the
queue keeps order and capacity, accounts for every event and wakes whom it must; the
pipeline loses no trade silently and keeps the ledger in order; the rings are FIFO
channels that deliver whole records; the table is a ledger of whole batches in which no trade
is twice, and a save reports what it did; what the views tell is true of the book; an order
reaches the engine with the fields it was created with.

## 2. Modules

| Module | Models | Extends or instantiates |
|---|---|---|
| `PriceTimeMarket` | what an engine promises: resting orders are a set, the best acceptable one trades | |
| `EngineBook` | the fields that both engines have | |
| `MatchingEngine` | the compiled engine, one loop iteration per step | extends `EngineBook`, implements `PriceTimeMarket` |
| `MatchingEngineProofs` | the book's invariants, the refinement, the counter, the conservation of quantity and the views of the book, proved; and the refinement by the Python engine, with its reports | extends `EngineViews` and `EngineReports`, instantiates `ReferenceEngine` |
| `BookViews` | what readers compute from a book and its trades, for either engine | extends `Sums` |
| `EngineViews` | the compiled engine with its two depth functions | extends `MatchingEngine`, `BookViews` |
| `EngineReports` | what analytics and monitor report from the lists of an engine | extends `EngineBook`, `BookViews` |
| `ReferenceEngine` | the pure-Python engine | extends `EngineReports`, implements `PriceTimeMarket` |
| `TradeQueue` | `TradeEventQueue` and its condition variables | |
| `TradeQueueProofs` | theorems about it | extends `TradeQueue` |
| `PersistenceWorker` | the worker's threads composed with the queue (as the monitor builds it, DROP_OLDEST), the repository and the main thread | |
| `PersistenceWorkerProofs` | theorems about it, for a stop that waits for its thread | extends `PersistenceWorker` |
| `TradeLedger` | what a repository promises: a ledger of whole batches | |
| `TradeRepository` | the SQLite repository in several processes, row by row | implements `TradeLedger` |
| `TradeRepositoryProofs` | theorems about it | extends `TradeRepository` |
| `FifoChannel` | what a ring promises: a bounded FIFO channel | |
| `SpscRing` | the order ring with the loops of firehose and consumer | implements `FifoChannel` |
| `SpscRingProofs` | theorems about it | extends `SpscRing` |
| `LockedRing` | the file-locked ring with its consumer | implements `FifoChannel` |
| `OrderCodec` | validation, packing, unpacking, and the call made from a record | |
| `OrderPipeline` | orders packed, carried by the file-locked ring, unpacked and submitted | extends `LockedRing`, `OrderCodec` |
| `LockedRingProofs` | theorems about the ring, and about the orders it carries | extends `OrderPipeline` |
| `MmapRing` | the sequence-numbered ring, between threads and between processes | |
| `MmapRingProofs` | theorems about it | extends `MmapRing` |
| `WhaleMonitor` | the monitor, composed with the market and with a worker that pops | extends `PriceTimeMarket` |
| `WhaleMonitorProofs` | the flow of its trades and the sweeps it reports, proved | extends `WhaleMonitor` |
| `Sums` | the sum of a sequence, for `MatchingEngine`, `BookViews` and `WhaleMonitor` | |

Each `MC...` module gives the constants of its module small values.

### How state and actions correspond to the code

Variables keep the names of the fields.  `pc`-like variables (`pc`, `ppc`, `cpc`, `tpc`,
`wpc`, `rpc`) say where a thread or process is.  Variables marked *history* record what
happened, for the properties; no guard of the program reads them, except that bounds do.

* **MatchingEngine.**  `AddOrder`/`BatchMember` validate and begin (values, then the
  counter, in the order of the code); `MatchBuy`/`MatchSell` are one iteration of the
  `while`; `InsertBuy`/`InsertSell` put the remainder at the position the insertion loop
  finds; `Finish` counts; `OutOfMemory` is `realloc` failing where an array is full.  Prices
  are positive integers, as the engine only compares them; 0 stands for every refused
  price.  An order's id is its arrival number.
* **BookViews, EngineViews.**  Pure functions of two sequences of orders.  `Ladder` is the
  single pass of `get_book_depth` over a sorted array, with the `uint64` its sums are kept in
  (and a caller's quantity is one, `EngineViewsAssumption`); `Bids` and `Asks` are the
  aggregation in a dict of `get_order_book_depth`, of the monitor's Python branch and of
  `depth_by_price`.  The dict's sort is given by where it puts each price, `PlaceOf`.  A
  price that may be `None` is a set of at most one.
* **ReferenceEngine.**  The list about to be matched is sorted (stably) before the loop,
  the other one is not; there is no validation, so quantity 0 is an input.  The sort is
  given by where it puts each order, `Rank`: behind all those it puts in front of it.
* **TradeQueue.**  Each critical section is a step; a push of a dict has two.  A waiter
  whose wait timed out stays a waiter until it gets the lock, as in CPython's `Condition`.
  The policy is chosen in the initial state.  `dropped_count` means evictions or
  refusals, depending on the policy, as in the code.  An event is named by its rank: the
  n-th event accepted is event n.
* **PersistenceWorker.**  A thread's step ends where another thread can overtake it.
  `SaveCommits` and `SaveFails` are the two outcomes of a transaction.  Trades are numbered
  by their push.
* **TradeRepository.**  An attempt to save takes SQLite's write lock (`BeginTransaction`), tries
  the rows one by one (`InsertRow`) and commits, or fails or is refused anywhere in between;
  `Retry` is the loop over "locked" and "busy".  `total_changes` is SQLite's counter, which a
  rollback does not take back, and is reset by a new connection; `Inserted` and `Duplicates`
  are what the call returns.  `Kill` ends a process anywhere.  `ReadPage` is a client that pages
  through the table between all this.
* **OrderCodec, OrderPipeline.**  A record is the tuple of its fields; a call that raises
  yields no value.  The pipeline gives `LockedRing` the records that `process_order` makes.
* **SpscRing, LockedRing, MmapRing.**  A record is copied in two halves where no lock
  protects the copy, so that a torn one would show.  An index or header is loaded and
  stored in one step and in program order: an assumption about the machine (aligned
  8-byte words; for `MmapRing` and `LockedRing`, one small header).  A kill can happen
  between any two steps.  In `MmapRing` a read ends in two of them: `ReadEnd` stores the
  reader's sequence and the shared tail (`mmap_buffer.py:294-297`, `324-326`), `ReadReturn`
  returns the records (299, 328), and only then are they `delivered`; `abandoned` counts those
  of readers killed in between.
* **Who waits for room.**  `put` of `LockedRing` and `write` of `MmapRing` test for a full ring.
  `write` of `SpscRing` does not: it never looks at `read_index`.  The guard
  `WriterWaits => ...` of `WriteFirstHalf` is the caller's, and `RingNeverOverrun`
  (`WriterWaits`, or no more orders than slots) is the contract that `ipc_proof.py:14-18`
  describes and nothing enforces.  Every property of `SpscRing` is for callers that keep it.
* **WhaleMonitor.**  The engine is `PriceTimeMarket`, so what is shown holds over either
  engine: `Trade`, `Settle` and `Abort` are a fill, the return of `add_order` and its
  `MemoryError`; a refused order never arrives.  Both exceptions leave the call before
  detection and sync, and the dashboard's fallback goes on with the same monitor.  `step`
  submits several orders and syncs once; `add_custom_order` is the case of one.  In
  "relative" mode the threshold is any of `Thresholds` at each order.  The trade queue is
  the DROP_OLDEST deque of `TradeQueue`; persistence is on.  `select_whale_events` is the
  choice of events for the display.

## 3. Runs

| Run | Configuration | Question |
|---|---|---|
| `matching_engine` | `MatchingEngine.cfg` | book uncrossed and in priority order, quantity conserved, counter right, price-time matching implemented, all views of the book agree |
| `reference_engine` | `ReferenceEngine.cfg` | the lazily sorting engine implements the same market; what is computed from its unsorted lists balances |
| `reference_snapshot` | `ReferenceEngineSnapshot.cfg` | is the snapshot the top of the book? (violated) |
| `trade_queue` | `TradeQueue.cfg` | order, accounting, no lost wakeup, for every policy; close releases everybody; a push returns |
| `persistence_worker` | `PersistenceWorker.cfg` | nothing lost silently, ledger in order, stop ends and settles, recovery |
| `persistence_two_threads` | `PersistenceTwoThreads.cfg` | is anything lost after a stop that times out and a start? (violated) |
| `persistence_exit` | `PersistenceExit.cfg` | is everything counted at exit? (violated) |
| `trade_repository` | `TradeRepository.cfg` | whole batches and no trade twice; reports are true; pages are stable; every save returns |
| `spsc_ring` | `SpscRing.cfg` | for a caller that never overruns the ring: whole records, in order, once; FIFO channel; the consumer ends |
| `locked_ring` | `LockedRing.cfg` | FIFO channel under kills; the engine sees the orders that were created |
| `mmap_ring` | `MmapRing.cfg` | intact records, each once and in order, exact drop count, nothing passed over but what a killed reader had in hand, room again |
| `whale_monitor` | `WhaleMonitor.cfg` | each trade pushed once and in order; a sweep is one order's, and the latest is shown |

### Bounds, and why they are enough

* `MatchingEngine`: four orders of ten kinds, arrays of one element.  Two orders on each
  side, a sweep of two levels, an insertion between two orders, a tie by arrival, growth
  at the second and the third order, and every failure of a growth occur.  Depths 0 to 2
  are asked for; sums wrap at four, so a side of three orders of two units overflows.
* `ReferenceEngine`: four orders, two prices, two times, quantities 0 to 2; an unstable
  sort needs three.
* `TradeQueue`: three producers, two consumers, capacity two, batches of two, four pushes.  One
  `pop_batch` can free two slots for two sleeping pushes while a third takes one; that is
  what the wakeup properties turn on.  There is no symmetry, as the run checks liveness too.
* `TradeRepository`: two processes, three saves of four batches: two that share trades, one
  with a trade twice, one whose second row overflows, one with a NULL; two attempts; pages of
  up to two rows.  A third save meets a trade that the first stored and the second rolled back.
* `PersistenceWorker`: six trades, queue and batch of two, three starts: evictions, a held
  batch with newer trades behind it, drains of more than one batch, restarts.  `stop` waits
  for its thread in this run; the two runs with `JoinMayTimeOut` show what happens otherwise.
* `SpscRing`: five orders in two slots, so the ring wraps around twice, two restarts.  The run
  is for a writer whose caller waits for room (`WriterWaits`), as `test_ipc_buffer.py` does by
  reading in between.  `firehose.py --slots 2 --orders 5` does not wait: there the code overwrites
  unread orders, and none of the properties holds.  By default it makes a slot for each order.
* `LockedRing`: four puts in two slots, one kill of each side; three records, one of which the
  engine refuses.  The codec is checked on every combination of the values at the edges of
  what validation and packing take, with words of two bits.
* `MmapRing`: six writes in two slots, batches of up to two, two kills of the reader, each
  followed by an attach, and any number of the writer.  Two readers in a row can be killed
  with a full batch in hand while a stale write sets the tail back.
* `WhaleMonitor`: four orders of one or two units at two prices, `step` of up to two, one
  reset, a queue of two, a deque of three events of which two are shown.  One order can
  sweep two levels, two orders of one `step` can together look like a sweep, the queue
  overflows, an order that raised leaves trades for the next call or for a reset to drop.

`CHECK_DEADLOCK FALSE` is set where the program or its bound stops: an exited program, a
consumer that is done, the last write.  The engine and the queue never deadlock.

### Fairness

* `TradeQueue!WakeFairness`: a thread that can take the lock does; threads call `push` and
  `pop` when they like.  Timeouts are not assumed to pass, except as the premise of
  `PushReturns`.
* `PersistenceWorker!SchedulerFairness`: every thread is scheduled, `stop` goes on once it
  has begun.  Saves may fail for ever.  `DatabaseRecovers` (strong fairness of a commit) is
  the premise of `EverythingSettles` alone: the worker retries while the fault lasts.
* `TradeRepository`: a save that is running goes on; the lock is got or the busy timeout
  passes.  Attempts may fail for ever.
* `SpscRing`: both processes are scheduled and the consumer's timeout passes.
* `MmapRing`: the reader keeps polling and a write that has begun goes on; no new write is
  assumed.

## 4. What was found

* **Snapshot of the pure-Python engine** (`reference_snapshot`).  Remainders are appended,
  and a list is sorted only when the opposite side arrives; the snapshot returns the first
  elements as if sorted.  `SCHEMA.md` says best bid and best ask.
* **Two worker threads** (`persistence_two_threads`).  `stop` forgets its thread even if the
  join timed out; a later `start` clears the stop event, and both threads use the one
  `_pending_batch`.  When both fail, one batch overwrites the other.
* **Exit after a timed-out stop** (`persistence_exit`).  The daemon thread dies with trades
  in its hands that are in no counter; the module's comment says they are counted.

No run is about the shared tail of the mmap ring, which does go backwards in `MmapRing`:
the lock is per process, and a write stores the tail it read, undoing the reader's advance.
The effect is bounded, and that is what the runs check: `WriterGetsRoom` shows that the
next read repairs it, `NothingSkipped` that a reader attaching there repeats records and passes
over none but one batch at most: that of a predecessor killed after it stored the tail
(`mmap_buffer.py:297`, `326`) and before it returned (299, 328).  The other two rings lose
the one order in hand in the same way.
Between processes an overwriting write can in the same way count a drop for a record that
was returned, and overwrite a slot while it is copied; no property claims otherwise.

## 5. Proofs

`MatchingEngineProofs` proves, for every set of inputs and every capacity, limit and bound:

* `TypeCorrect`: `Spec => []TypeOK`, with the three arrays within their capacities;
* `PriorityOrder`: `Spec => []BooksInPriorityOrder`;
* `NeverCrossed`: `Spec => []BookNotCrossed`;
* `Implements`: `Spec => ImplementsMarket`, the refinement of `PriceTimeMarket`;
* `Counts`: `Spec => []CountsCompletedOrders`;
* `Conservation`: `Spec => []QuantityConserved`;
* `Views`: `Spec => []ViewsAgree`.

The assumption is `MatchingEngineAssumption` (inputs are natural numbers, the initial
capacity is positive); `Views` also uses `EngineViewsAssumption` (the words of the sums have a
positive limit, and a caller's quantity, a `uint64` itself, is below it).  None of the first three is inductive alone.  Their inductive invariant is

    IInv == TypeOK /\ ArrivalOrder /\ BooksInPriorityOrder /\ BookNotCrossed

`ArrivalOrder` (every resting order has a smaller id than the one being matched) is what
makes the insertion loop, which goes behind all equal keys, keep arrival order.
`BooksInPriorityOrder` is what `BookNotCrossed` needs: the matching loop looks only at the
first order of each side, and only in a sorted book does "the first does not cross" mean
that none does.  One lemma per action shows that it keeps `IInv`; lemmas about
`InsertAt`, `Reduced` and `IsInsertPosition` carry the data.

The refinement maps the two arrays to the set of their orders.  That the first order of an array
is the best of the set is `BooksInPriorityOrder` again, which is why it is part of `IInv`;
`BookNotCrossed` and the end of the loop give that no resting order is acceptable when the
remainder settles.  `Counts` adds `FailedBefore`: an order fails once, while it runs.

`Conservation` adds to that `TradesAreOfSubmitted` (no trade names an order that is still to
come, so that a new order starts with nothing traded).  What an order traded and what it has resting are
sums over the tape and the books, each the last of its partial sums, a function on `Nat`.
The library's induction theorems take an operator, which is out of reach; its theorem that
every set of natural numbers has a least member does not, and the sums are reasoned about
by the least number at which two of them differ: partial sums exist and are unique
(`PartialSumsExist`, `PartialSumsUnique`), sums are natural numbers, and an insertion
anywhere adds its term (`SumOfInsertion`).  What each action does to the sums follows:
`TradeAppended`, `ShareInserted`, `ShareReduced`.  An order that fails in the middle rests
nowhere: what it held is lost with it, and its trades stand.

`Views` says that the two depth functions agree for every book, depth and limit.  Its
invariant is `VInv == IInv /\ SmallQuantities`: the walk starts a level with an order's quantity
as it is and wraps only what it adds, so that the first order of a level must fit by itself.
`BooksInPriorityOrder` is needed again: the walk compares neighbours only, and only
in a sorted array is each price one run of orders.  The walk is a recursive function of the
number of orders read; what it holds after `k` of them (`WalkedOn`: the first levels, closed, and
the last one open, each with its sum modulo the limit) is proved of every `k` by the least
number at which it fails.  Closing it gives the first levels of the dict (`LadderLevels`,
`SlicesAre`), which the sort puts in the order in which the array has them (`PricesSorted`,
`LevelsInTurn`).  The sums wrap at every addition in the code and once in the statement;
`WrapsOnce` is the lemma on `%`.

Two parts of the module are about `ReferenceEngine`, over the same fields (`Python` is the
instance).  `PythonImplements` is `Python!Spec => Python!ImplementsMarket`, for all integer
prices and natural quantities and timestamps, which is `ReferenceEngineAssumption`, stated
in the theorem because the module does not extend `ReferenceEngine`.  Its inductive invariant is
`PythonInv`: between calls the lists are in no order, but orders equal in price and time stand
as they arrived (`TiesAsArrived`), which is all that a stable sort needs to put a list
into full priority order (`StableSortSorts`); while an order is matched, the list it is matched
against is in that order.  That the sort is a permutation is proved of the ranks: they
are injective because the sort is a strict total order (`SortIsTotalOrder`), so they are
all the places (`RanksArePlaces`).  What an iteration of the loop does is the same in both
engines (`TakesBestSell`, `TakesBestBuy`) and is proved to be a `Trade` once, for any set of
prices.  Both engines therefore make the trades of the same market, and no others.

`PythonReports` is `Python!Spec => []ReportsBalance`, under the same assumption (the property is
a definition of `EngineReports`, over the fields of `EngineBook`).  Its invariant is

    RInv == PythonInv /\ PythonBalance /\ PythonSizes /\ BookNotCrossed

`PythonBalance` is the balance with the order in hand: what rests in both lists, twice the volume of
the tape and what is still to be matched are what was asked for.  An append and a sort of a
list are where it could break: a sort changes no total (`TotalOfSorted`, from `SumByLabels`: a
sum added up label by label is the sum, here with the ranks as labels).  `BookNotCrossed`
is not about lists in an order; it holds because a loop ends only when the first order of a
*sorted* list does not cross.  `PythonSizes` bounds the number of levels, so that the depth
the statement asks for shows them all.  That the levels add up to the lists is
`LevelsAddUp` (`SumByLabels` with prices as labels), and that the average price is between the
lowest and the highest traded is `AverageWithinPrices`.

`LockedRingProofs` proves, for every capacity, every set of records and any number of puts
and kills (assumption: `LockedRingAssumption`, a positive capacity and a record to put):

* `TypeCorrect`: `Spec => []TypeOK`;
* `Fifo`: `Spec => []FifoOrder`;
* `Implements`: `Spec => ImplementsChannel`, the refinement of `FifoChannel`.

The inductive invariant is `TypeOK /\ HeldHeader /\ FifoOrder`.  `HeldHeader` says what the
file lock is for: whoever holds it knows the header that is in the file, and between the
copy and the header store the slot agrees with the record in hand.  Lemmas about `%`
(`SlotAfter`, `SlotsDiffer`, `StepFirst`, `StepLast`) give what each step does to the contents
of the ring: `PutRecord` nothing, `PutHeader` an `Append`, `GetHeader` a `Tail`, a kill
nothing.  The refinement reads its steps off the same lemmas.

The same module proves about `OrderPipeline`, for every set of inputs to `process_order`:

* `Submission`: `Spec => []TakenIsSubmitted`;
* `EngineCalls`: `Spec => []EngineSeesTheOrders`.

Here `OrderPipelineAssumption` is used as well: the ring carries records that `process_order`
makes, and the engine refuses exactly those whose call `add_order` would refuse.  `SubmitInv`
adds to `TakenIsSubmitted` that nothing submitted is refused.  `CodecExact` is about values,
not states: unpacking undoes packing wherever packing does not raise, as every word that
is packed is in the range that `unpack` gives back.

`TradeQueueProofs` proves, for any finite sets of producers and consumers, any capacity and
all four policies (assumption: `TradeQueueAssumption`): `TypeCorrect`, `Fifo`
(`[]FifoDelivery`), `Accounting` (`[]CountersAddUp`) and `Wakeups` (`[]NoLostWakeup`).  The
inductive invariant is their conjunction with `WaitingIsBlock`: nobody waits for a slot of
a closed queue or under another policy than BLOCK, and numbered pushes are not yet counted.
The awake threads are counted with the cardinality theorems of `FiniteSetTheorems`.

`TradeRepositoryProofs` proves, for any number of processes, every set of batches and any number
of attempts (assumption: `TradeRepositoryAssumption`): `TypeCorrect`, `Reports`
(`[]ReportsAreTrue`), `Pages` (`[]PagesAreStable`) and `Implements` (`ImplementsLedger`).  The
inductive invariant is `TypeOK /\ TableOK /\ \A r : SaveOK(r)`.  `SaveOK` says what the
process inside a transaction knows: the rows tried so far are in the table or pending, the
pending ones are new and as many as `total_changes` went up.  It survives the steps of others
because only the holder of the write lock changes the table.

`PersistenceWorkerProofs` proves, for every capacity, batch size, number of trades and of
starts (assumptions: `PersistenceWorkerAssumption`, and `~ JoinMayTimeOut`: a stop waits for its
thread), `TypeCorrect`, `NothingLost` (`[]NothingLostSilently`), `InOrder`
(`[]LedgerKeepsOrder`) and `StopSettles` (`[]StopSettlesEverything`).  The second assumption is
stated in each theorem, and it is needed: `persistence_two_threads` shows that without it a
trade is lost.  The inductive invariant is `ControlOK /\ DataOK`.  `ControlOK` says who may
touch what: one thread is alive at most, the one the worker knows of (`OneThread`);
`_pending_batch` holds nothing but that thread's own batch, and the main thread waits while
it drains (`ThreadOK`); a dead thread leaves nothing behind (`StopOK`).  `DataOK` says that the
queue is the latest trades pushed, and all that left it is stored, lost or in the one batch
in hand, which is in order and behind everything stored until it is stored itself.  A batch
is therefore never in the table when it is saved, so `INSERT OR IGNORE` appends all of it.
`NewRows` states that case apart: what `SelectSeq` leaves of a sequence would be induction
over data.

`SpscRingProofs` proves, for every number of slots, orders, kills and restarts for which the
ring is never overrun (assumptions: `SpscRingAssumption`, and `RingNeverOverrun`, which is stated
in each theorem: without it they are false): `TypeCorrect`, `Once` (`[]EachOrderOnce`) and
`Implements` (`ImplementsChannel`).  There is no lock; the inductive invariant says instead what each side
may rely on while the other runs: the records between the indexes are complete
(`PublishedIntact`), the writer's slot is free and half or wholly written (`WriterKnows`), the
reader holds what it has copied (`ReaderKnows`), and what an engine was given is behind
`read_index` (`ProcessedBehind`).

`MmapRingProofs` proves, for every capacity, batch size, number of writes and of kills
(assumption: `MmapRingAssumption`):

* `TypeCorrect`: `Spec => []TypeOK`;
* `Accounting`: `Spec => []NothingSkipped`, for both uses of the ring;
* `Whole`: `SafeUses => (Spec => []IntactRecords)`.

`SafeUses` says that each use in `Uses` either is one object (one lock around both sides)
or never overwrites; it is what the run's constants satisfy, and a use outside it does
return torn records (section 4).  The inductive invariant is `TypeOK` and what each use
may rely on.  `LockOK`: the lock of one object keeps the two calls apart.  `WriterOK`: the head is
the writer's alone, also between processes.  `ReaderOK`: what a call has copied is one run
of sequence numbers, behind the head that it read.  `LockedOK`: on one object the shared tail
is where the reader is, or a ring behind the head.  `QuietOK`: without overwriting, the shared
tail may go back to what a writer has read, never past it nor beyond the reader, and a call
returns what follows the reader's position.  `HistoryOK` is the account: what was returned is in
order and behind the records in hand; under one lock the tail is as many records on as were
returned, are in hand or were dropped; and without overwriting the records behind the reader
that no call returned nor is about to are at most `abandoned`.  It rests on the two before it:
a tail that went back lies within what was already accounted for (`SmallerUnreturned`), so
an attach adds no more than the batch of the reader that was killed.  `CountUnreturned` turns
the second part into the cardinality that `NothingSkipped` states: records returned in order are
as many as their numbers.  `DataOK`: the records from the oldest one that may still be
read to the head are whole.

`WhaleMonitorProofs` proves `FlowOnce` (`Spec => []TradesFlowOnce`) and `SweepsExact`
(`Spec => []SweepsOfOneOrder`) for every number of orders, queue size, sweep threshold,
size of the deque and of the display, and number of resets (assumption:
`WhaleMonitorAssumption`).  The inductive invariant of the flow is

    IInv == FlowTypes /\ SyncFollowsTape /\ FlowInOrder /\ FlowComplete

`SyncFollowsTape` is the protocol between engine and sync: the position is never beyond the tape,
and only a call that raised leaves trades behind it; a sync that runs ends at the end of
the tape.  `FlowInOrder` says that what was popped is older than what is queued, and both
are in order of generation and trade.  `FlowComplete` says that a trade of this generation up to the sync's position
is in exactly one place (popped, queued or evicted), that the queue holds no other
generation and that nothing belongs to a later one: this is what a `reset` needs, which
clears the queue and starts a new generation.

That of the sweeps is

    SInv == SweepTypes /\ OrdersKnown /\ Running /\ BestFirst /\ SweptExactly /\ EventsTell

`Running` is why `n_before`, a length read before `add_order`, marks the fills of one order:
the running order is newer than all that rest, and the trades behind `n_before` are those in
which it is the later of the two.  `BestFirst` says that those trades go from the best price
to the worst and that nothing left to trade with is better, so that the first and the last
level are the best and the worst.  `SweptExactly` and `EventsTell` hold of the orders that
have `Returned`, whose fills no later step touches.  The sums over a growing tape use the
lemmas on `SumOf` (a number more at the end, zeros in front), and the levels a bijection
between the prices and the first fill at each.

Model-checked only is all liveness, which is out of the prover's reach: `CloseReleasesAll`,
`PushReturns`, `SavesReturn`, `StopEnds`, `EverythingSettles`, `ConsumerEnds`, `WriterGetsRoom`.
What is computed from a whole book or tape is written with sums, places and ranks
in place of the recursive folds and sorts of the community modules, so that it can be proved
about; a fact about every prefix is proved by the least prefix at which it fails.

## 6. Not modelled

* Trade-queue subscribers: nothing in the program subscribes.  The delay statistics of the queue.
* The handler of unexpected exceptions in the worker's loop; the conversion of events.
* `query_aggregate_stats` of the repository, a sum over the table; the schema.
* A firehose that overruns its ring: `write` has no backpressure, and then no order is safe.
* A ring file left over from an earlier run; creation of a ring file by two processes at
  once; validation of headers; `close` of the rings.
* Readers with a sequence number of their own on the mmap ring: they change nothing shared.
* The drawing of the monitor's screens and its latency statistics; `fill_rate`,
  `whale_trades` and the latency and throughput records of the analytics; the simulator,
  plots, benchmarks and demonstrations, which have no protocol of their own.
* The accessors of the engines that return a copy of the trades or a counter.

## 7. What could come next

1. The life of a ring file: left over, validated, created by two processes at once.
2. A worker over `TradeRepository` in place of its own two-outcome save, so that a worker in
   another process can hold the lock.

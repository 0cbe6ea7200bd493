----------------------------- MODULE TradeQueue -----------------------------
(***************************************************************************)
(* The bounded, thread-safe queue between the matching engine and the      *)
(* persistence worker, src/src/ipc/trade_queue.py.                         *)
(*                                                                         *)
(* Every method body under self._lock is one step.  A push of a dict takes *)
(* the lock twice, once for its sequence number and once to enqueue, so    *)
(* other threads run between the two.  A thread inside Condition.wait is   *)
(* "blocked" and a member of the condition's waiters; a notification takes *)
(* it out of them, a timeout leaves it among them until it has the lock    *)
(* again (CPython's Condition), so a late notification can still reach it. *)
(* The fan-out to subscribers after an accepted push is left out: nothing  *)
(* in the program subscribes.                                              *)
(*                                                                         *)
(* An event is named by its rank: the n-th event accepted is event n.      *)
(***************************************************************************)
EXTENDS Integers, Sequences, FiniteSets

CONSTANTS
    Producers, Consumers,   \* threads that push, threads that pop
    Capacity,               \* self.capacity, at least 1
    MaxBatch,               \* largest max_items of a pop_batch call
    MaxPushes               \* bound: pushes begun

ASSUME TradeQueueAssumption ==
    /\ IsFiniteSet(Producers) /\ IsFiniteSet(Consumers)
    /\ Producers \cap Consumers = {}
    /\ Capacity \in Nat \ {0}
    /\ MaxBatch \in Nat \ {0}
    /\ MaxPushes \in Nat

Policies == {"DROP_OLDEST", "DROP_NEWEST", "BLOCK", "RAISE"}

VARIABLES
    backpressure,     \* the policy the queue was built with
    queue,            \* _queue: events, oldest first
    closed,           \* _closed
    sequence,         \* _sequence
    total_pushed, total_popped, dropped_count, high_watermark,
    ppc, cpc,         \* per producer and per consumer: where it is
    notFull,          \* waiters of _not_full (producers)
    notEmpty,         \* waiters of _not_empty (consumers)
    expired,          \* waiters whose wait has timed out
    last_popped,      \* history: the event that left last by a pop
    cleared           \* history: number of events thrown away by clear

counters == <<total_pushed, total_popped, dropped_count, high_watermark>>
waiters  == <<notFull, notEmpty, expired>>
threads  == <<ppc, cpc>>
history  == <<last_popped, cleared>>
vars     == <<backpressure, queue, closed, sequence, counters, threads, waiters, history>>

IsFullLate == Len(queue) > Capacity      \* mutant: off by one

IsFull == Len(queue) >= Capacity

Lesser(m, n)  == IF m < n THEN m ELSE n
Greater(m, n) == IF m > n THEN m ELSE n

NotifyNone(W, W2) == W2 = W     \* mutant: the notification is forgotten

\* Condition.notify wakes one waiter, if there is one; notify_all wakes all.
NotifyOne(W, W2) == IF W = {} THEN W2 = {} ELSE \E t \in W : W2 = W \ {t}

----------------------------------------------------------------------------

Init ==
    /\ backpressure \in Policies
    /\ queue = <<>> /\ closed = FALSE /\ sequence = 0
    /\ total_pushed = 0 /\ total_popped = 0 /\ dropped_count = 0 /\ high_watermark = 0
    /\ ppc = [p \in Producers |-> "idle"]
    /\ cpc = [c \in Consumers |-> "idle"]
    /\ notFull = {} /\ notEmpty = {} /\ expired = {}
    /\ last_popped = 0 /\ cleared = 0

----------------------------------------------------------------------------
\* push

TakeSequenceStale(p) ==   \* mutant: the counter is read and not advanced
    /\ ppc[p] = "idle"
    /\ sequence < MaxPushes
    /\ sequence' = sequence
    /\ ppc' = [ppc EXCEPT ![p] = "numbered"]
    /\ UNCHANGED <<backpressure, queue, closed, counters, cpc, waiters, history>>

\* The first critical section: a sequence number for the event, which is built
\* from the engine's dict before the lock is taken again.
TakeSequence(p) ==
    /\ ppc[p] = "idle"
    /\ sequence < MaxPushes
    /\ sequence' = sequence + 1
    /\ ppc' = [ppc EXCEPT ![p] = "numbered"]
    /\ UNCHANGED <<backpressure, queue, closed, counters, cpc, waiters, history>>

Return(p) == ppc' = [ppc EXCEPT ![p] = "idle"]

EnqueueFront(p, kept) ==   \* mutant: appendleft
    /\ queue' = <<total_pushed + 1>> \o kept
    /\ total_pushed' = total_pushed + 1
    /\ high_watermark' = Greater(high_watermark, Len(queue'))
    /\ NotifyOne(notEmpty, notEmpty')
    /\ Return(p)

\* The tail of push: append, count, notify one waiting consumer, return True.
Enqueue(p, kept) ==
    /\ queue' = Append(kept, total_pushed + 1)
    /\ total_pushed' = total_pushed + 1
    /\ high_watermark' = Greater(high_watermark, Len(queue'))
    /\ NotifyOne(notEmpty, notEmpty')
    /\ Return(p)

\* A push that finds the queue closed returns False and counts nothing.
RefuseClosed(p) ==
    /\ closed
    /\ Return(p)
    /\ UNCHANGED <<queue, total_pushed, dropped_count, high_watermark, notEmpty>>

RefuseFullUncounted(p) ==   \* mutant: a refusal leaves no trace
    /\ Return(p)
    /\ UNCHANGED <<queue, total_pushed, dropped_count, high_watermark, notEmpty>>

\* A push given up on a full queue: False or QueueFullError, and it is counted.
RefuseFull(p) ==
    /\ dropped_count' = dropped_count + 1
    /\ Return(p)
    /\ UNCHANGED <<queue, total_pushed, high_watermark, notEmpty>>

\* Condition.wait on _not_full: the lock is released.
Block(p) ==
    /\ notFull' = notFull \cup {p}
    /\ ppc' = [ppc EXCEPT ![p] = "blocked"]
    /\ UNCHANGED <<queue, total_pushed, dropped_count, high_watermark, notEmpty>>

\* The second critical section, up to its end or its first wait.
Push(p) ==
    /\ ppc[p] = "numbered"
    /\ \/ RefuseClosed(p) /\ UNCHANGED notFull
       \/ /\ ~ closed /\ ~ IsFull
          /\ Enqueue(p, queue)
          /\ UNCHANGED <<dropped_count, notFull>>
       \/ /\ ~ closed /\ IsFull /\ backpressure = "DROP_OLDEST"
          /\ Enqueue(p, Tail(queue))
          /\ dropped_count' = dropped_count + 1
          /\ UNCHANGED notFull
       \/ /\ ~ closed /\ IsFull /\ backpressure \in {"DROP_NEWEST", "RAISE"}
          /\ RefuseFull(p)
          /\ UNCHANGED notFull
       \/ /\ ~ closed /\ IsFull /\ backpressure = "BLOCK"
          /\ \/ Block(p)
             \/ RefuseFull(p) /\ UNCHANGED notFull     \* timeout <= 0
    /\ UNCHANGED <<backpressure, closed, sequence, total_popped, cpc,
                   expired, history>>

ResumePushNewDeadline(p) ==   \* mutant: the deadline restarts with every wait
    /\ ppc[p] = "blocked"
    /\ p \notin notFull \/ p \in expired
    /\ expired' = expired \ {p}
    /\ \/ RefuseClosed(p) /\ notFull' = notFull \ {p}
       \/ /\ ~ closed /\ ~ IsFull
          /\ Enqueue(p, queue)
          /\ notFull' = notFull \ {p}
          /\ UNCHANGED dropped_count
       \/ /\ ~ closed /\ IsFull
          /\ Block(p)
    /\ UNCHANGED <<backpressure, closed, sequence, total_popped, cpc,
                   history>>

\* Back from Condition.wait with the lock: the loop condition is tested again.
ResumePush(p) ==
    /\ ppc[p] = "blocked"
    /\ p \notin notFull \/ p \in expired
    /\ expired' = expired \ {p}
    /\ \/ RefuseClosed(p) /\ notFull' = notFull \ {p}
       \/ /\ ~ closed /\ ~ IsFull
          /\ Enqueue(p, queue)
          /\ notFull' = notFull \ {p}
          /\ UNCHANGED dropped_count
       \/ /\ ~ closed /\ IsFull                        \* the deadline has passed
          /\ RefuseFull(p)
          /\ notFull' = notFull \ {p}
       \/ /\ ~ closed /\ IsFull /\ p \notin expired    \* woken, but the slot is taken
          /\ Block(p)
    /\ UNCHANGED <<backpressure, closed, sequence, total_popped, cpc,
                   history>>

----------------------------------------------------------------------------
\* pop_batch, pop_nowait

TakeBatchNotifyOne(c) ==   \* mutant: notify() instead of notify_all()
    /\ \E max_items \in 1 .. MaxBatch :
        LET n == Lesser(max_items, Len(queue)) IN
        /\ last_popped' = IF n > 0 THEN queue[n] ELSE last_popped
        /\ queue' = SubSeq(queue, n + 1, Len(queue))
        /\ total_popped' = total_popped + n
        /\ IF n > 0 THEN NotifyOne(notFull, notFull') ELSE UNCHANGED notFull
    /\ cpc' = [cpc EXCEPT ![c] = "idle"]

\* Take up to max_items; if any, wake every blocked push.
TakeBatch(c) ==
    /\ \E max_items \in 1 .. MaxBatch :
        LET n == Lesser(max_items, Len(queue)) IN
        /\ last_popped' = IF n > 0 THEN queue[n] ELSE last_popped
        /\ queue' = SubSeq(queue, n + 1, Len(queue))
        /\ total_popped' = total_popped + n
        /\ notFull' = IF n > 0 THEN {} ELSE notFull
    /\ cpc' = [cpc EXCEPT ![c] = "idle"]

PopBatch(c) ==
    /\ cpc[c] = "idle"
    /\ \/ /\ queue = <<>> /\ ~ closed                  \* timeout > 0: wait once
          /\ notEmpty' = notEmpty \cup {c}
          /\ cpc' = [cpc EXCEPT ![c] = "blocked"]
          /\ UNCHANGED <<queue, total_popped, notFull, last_popped>>
       \/ TakeBatch(c) /\ UNCHANGED notEmpty
    /\ UNCHANGED <<backpressure, closed, sequence, total_pushed, dropped_count,
                   high_watermark, ppc, expired, cleared>>

\* Woken or timed out: there is no second wait, the batch may be empty.
ResumePopBatch(c) ==
    /\ cpc[c] = "blocked"
    /\ c \notin notEmpty \/ c \in expired
    /\ TakeBatch(c)
    /\ notEmpty' = notEmpty \ {c}
    /\ expired' = expired \ {c}
    /\ UNCHANGED <<backpressure, closed, sequence, total_pushed, dropped_count,
                   high_watermark, ppc, cleared>>

PopNowait ==
    /\ queue # <<>>
    /\ last_popped' = Head(queue)
    /\ queue' = Tail(queue)
    /\ total_popped' = total_popped + 1
    /\ NotifyOne(notFull, notFull')
    /\ UNCHANGED <<backpressure, closed, sequence, total_pushed, dropped_count,
                   high_watermark, threads, notEmpty, expired, cleared>>

----------------------------------------------------------------------------
\* close, clear, and time

CloseWakesConsumersOnly ==   \* mutant: _not_full is not notified
    /\ ~ closed
    /\ closed' = TRUE
    /\ notEmpty' = {}
    /\ UNCHANGED <<backpressure, queue, sequence, counters, threads, notFull, expired,
                   history>>

Close ==
    /\ ~ closed
    /\ closed' = TRUE
    /\ notFull' = {} /\ notEmpty' = {}
    /\ UNCHANGED <<backpressure, queue, sequence, counters, threads, expired, history>>

Clear ==
    /\ queue # <<>>
    /\ cleared' = cleared + Len(queue)
    /\ queue' = <<>>
    /\ notFull' = {}
    /\ UNCHANGED <<backpressure, closed, sequence, counters, threads, notEmpty, expired,
                   last_popped>>

\* The wait of t times out; t still has to get the lock.
Timeout(t) ==
    /\ t \in (notFull \cup notEmpty) \ expired
    /\ expired' = expired \cup {t}
    /\ UNCHANGED <<backpressure, queue, closed, sequence, counters, threads, notFull,
                   notEmpty, history>>

Next ==
    \/ \E p \in Producers : TakeSequence(p) \/ Push(p) \/ ResumePush(p)
    \/ \E c \in Consumers : PopBatch(c) \/ ResumePopBatch(c)
    \/ PopNowait
    \/ Close \/ Clear
    \/ \E t \in Producers \cup Consumers : Timeout(t)

Spec == Init /\ [][Next]_vars

\* A runnable thread gets the lock.  Nothing is assumed of timeouts.
WakeFairness ==
    /\ \A p \in Producers : WF_vars(Push(p)) /\ WF_vars(ResumePush(p))
    /\ \A c \in Consumers : WF_vars(ResumePopBatch(c))

\* Deadlines pass.
TimeFairness == \A t \in Producers \cup Consumers : WF_vars(Timeout(t))

WakeSpec == Spec /\ WakeFairness

----------------------------------------------------------------------------
\* Properties

Pushing == {p \in Producers : ppc[p] # "idle"}

\* Woken or timed-out waiters that have been taken out of the condition.
AwakeProducers == {p \in Producers : ppc[p] = "blocked"} \ notFull
AwakeConsumers == {c \in Consumers : cpc[c] = "blocked"} \ notEmpty

\* Every field has its type, and only a blocked thread is a waiter.
TypeOK ==
    /\ backpressure \in Policies
    /\ queue \in Seq(1 .. total_pushed)
    /\ closed \in BOOLEAN
    /\ sequence \in Nat
    /\ total_pushed \in 0 .. sequence /\ total_popped \in 0 .. total_pushed
    /\ dropped_count \in Nat /\ high_watermark \in Nat
    /\ ppc \in [Producers -> {"idle", "numbered", "blocked"}]
    /\ cpc \in [Consumers -> {"idle", "blocked"}]
    /\ notFull  \subseteq {p \in Producers : ppc[p] = "blocked"}
    /\ notEmpty \subseteq {c \in Consumers : cpc[c] = "blocked"}
    /\ expired  \subseteq {p \in Producers : ppc[p] = "blocked"}
                          \cup {c \in Consumers : cpc[c] = "blocked"}
    /\ last_popped \in 0 .. total_pushed
    /\ cleared \in Nat

\* Events leave in the order in which they were accepted, and none twice: what was
\* popped last is older than all that is queued, oldest first.  Evictions and
\* clears leave gaps, nothing else.
FifoDelivery ==
    /\ \A i \in 1 .. Len(queue) : last_popped < queue[i]
    /\ \A i, j \in 1 .. Len(queue) : i < j => queue[i] < queue[j]

\* The counters of stats() account for every accepted event, and while the queue
\* is open for every push whose fate is decided.  dropped_count means evicted
\* events under DROP_OLDEST and refused pushes otherwise; events thrown away by
\* clear, and pushes refused because the queue is closed, are in no counter.  The
\* watermark bounds the queue and never passes its capacity, also when a new push
\* takes the slot a woken one was promised.
CountersAddUp ==
    LET evicted == IF backpressure = "DROP_OLDEST" THEN dropped_count ELSE 0
        refused == dropped_count - evicted
    IN  /\ total_pushed = total_popped + Len(queue) + cleared + evicted
        /\ ~ closed => sequence = total_pushed + Cardinality(Pushing) + refused
        /\ Len(queue) <= high_watermark /\ high_watermark <= Capacity

\* No lost wakeup.  When some push still sleeps, every free slot has a woken push
\* of its own on the way to it; when some consumer still sleeps, every queued
\* event has a woken consumer on the way to it.
NoLostWakeup ==
    /\ notFull  # {} => Capacity - Len(queue) <= Cardinality(AwakeProducers)
    /\ notEmpty # {} => Len(queue) <= Cardinality(AwakeConsumers)

\* close releases every thread inside push or pop_batch without waiting for a
\* timeout.
CloseReleasesAll ==
    /\ \A p \in Producers : (closed /\ ppc[p] = "blocked") ~> (ppc[p] = "idle")
    /\ \A c \in Consumers : (closed /\ cpc[c] = "blocked") ~> (cpc[c] = "idle")

\* When deadlines pass, a push returns, whether or not anybody ever pops.
PushReturns ==
    TimeFairness => \A p \in Producers : (ppc[p] # "idle") ~> (ppc[p] = "idle")
=============================================================================

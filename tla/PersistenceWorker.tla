-------------------------- MODULE PersistenceWorker --------------------------
(***************************************************************************)
(* The background persistence of matched trades: one main thread that      *)
(* pushes trades and starts and stops the worker, the worker's daemon      *)
(* threads (src/src/persistence/worker.py), the queue between them         *)
(* (src/src/ipc/trade_queue.py under DROP_OLDEST, as the monitor builds    *)
(* it) and the ledger (src/src/persistence/repository.py).                 *)
(*                                                                         *)
(* The worker's fields are shared by all the threads it ever started, and  *)
(* only start and stop decide how many run: a stop whose join times out    *)
(* leaves its thread behind.  A thread's step ends where it can be         *)
(* overtaken: at a read or a write of a shared field, at the repository's  *)
(* lock, at a wait.  Trades are numbered as they are pushed.               *)
(***************************************************************************)
EXTENDS Integers, Sequences, FiniteSets, SequencesExt

CONSTANTS
    QueueCapacity,       \* TradeEventQueue.capacity
    BatchSize,           \* batch_size
    ShutdownAttempts,    \* shutdown_retry_attempts, 3 in the code
    AutoCloseRepo,       \* auto_close_repo
    JoinMayTimeOut,      \* can a stop(timeout) return before its thread ends?
    MaxTrades, MaxStarts \* bounds: trades pushed, threads started

ASSUME PersistenceWorkerAssumption ==
    /\ QueueCapacity \in Nat \ {0} /\ BatchSize \in Nat \ {0}
    /\ ShutdownAttempts \in Nat \ {0}
    /\ AutoCloseRepo \in BOOLEAN /\ JoinMayTimeOut \in BOOLEAN
    /\ MaxTrades \in Nat /\ MaxStarts \in Nat

Threads == 1 .. MaxStarts
None    == 0

VARIABLES
    pushed,           \* trades pushed so far: 1 .. pushed
    queue,            \* the queue's trades, oldest first
    dropped,          \* trades evicted by DROP_OLDEST (dropped_count counts them)
    \* the worker object
    pending,          \* _pending_batch, <<>> for None
    stop_event,       \* _stop_event
    thread,           \* _thread, or None
    state,            \* _state
    abandoned,        \* trades counted in trades_abandoned
    \* its threads
    tpc,              \* where each thread is
    batch,            \* the batch in its hands (locals batch, held)
    phase,            \* who called _persist_batch: "loop" | "held" | "drain"
    attempts,         \* of write_with_bounded_retries
    gave_up,          \* local of _drain_remaining
    \* the repository, and the main thread
    repo_lock,        \* the thread inside save_trades_batch, or None
    ledger,           \* rows of matched_trades in insertion order
    mpc               \* "running", inside stop, "stopped" by it, or "exited"

locals == <<tpc, batch, phase, attempts, gave_up>>
fields == <<pending, stop_event, thread, state, abandoned>>
vars   == <<pushed, queue, dropped, fields, locals, repo_lock, ledger, mpc>>

Trades == 1 .. MaxTrades

Alive(t)   == t # None /\ tpc[t] \notin {"unborn", "dead"}
Running(t) == mpc # "exited" /\ t \in Threads    \* daemon threads die with main

Go(t, where) == tpc' = [tpc EXCEPT ![t] = where]

Lesser(m, n) == IF m < n THEN m ELSE n

----------------------------------------------------------------------------

Init ==
    /\ pushed = 0 /\ queue = <<>> /\ dropped = <<>>
    /\ pending = <<>> /\ stop_event = FALSE /\ thread = None
    /\ state = "STOPPED" /\ abandoned = <<>>
    /\ tpc = [t \in Threads |-> "unborn"]
    /\ batch = [t \in Threads |-> <<>>]
    /\ phase = [t \in Threads |-> "loop"]
    /\ attempts = [t \in Threads |-> 0]
    /\ gave_up = [t \in Threads |-> FALSE]
    /\ repo_lock = None /\ ledger = <<>>
    /\ mpc = "running"

----------------------------------------------------------------------------
\* The main thread

\* TradeEventQueue.push of an engine trade: a full queue loses its oldest.
Push ==
    /\ mpc \in {"running", "stopped"}
    /\ pushed < MaxTrades
    /\ pushed' = pushed + 1
    /\ IF Len(queue) >= QueueCapacity
       THEN /\ queue' = Append(Tail(queue), pushed + 1)
            /\ dropped' = Append(dropped, Head(queue))
       ELSE queue' = Append(queue, pushed + 1) /\ UNCHANGED dropped
    /\ mpc' = "running"
    /\ UNCHANGED <<fields, locals, repo_lock, ledger>>

\* start does nothing while the thread it knows of is alive.
Start ==
    /\ mpc \in {"running", "stopped"}
    /\ ~ Alive(thread)
    /\ \E t \in Threads :
        /\ tpc[t] = "unborn"
        /\ \A u \in Threads : tpc[u] = "unborn" => t <= u
        /\ thread' = t
        /\ Go(t, "loop")
    /\ stop_event' = FALSE
    /\ state' = "RUNNING"
    /\ mpc' = "running"
    /\ UNCHANGED <<pushed, queue, dropped, pending, abandoned, batch, phase, attempts,
                   gave_up, repo_lock, ledger>>

\* stop with no live thread has nothing to join or to drain: it only closes.
Stop ==
    /\ mpc = "running"
    /\ stop_event' = TRUE
    /\ mpc' = IF Alive(thread) THEN "joining" ELSE "onlyclosing"
    /\ UNCHANGED <<pushed, queue, dropped, pending, thread, state, abandoned, locals,
                   repo_lock, ledger>>

\* join returns, because the thread ended or because the timeout passed; the
\* worker forgets the thread in both cases.
Join ==
    /\ mpc = "joining"
    /\ JoinMayTimeOut \/ ~ Alive(thread)
    /\ thread' = None
    /\ mpc' = "closing"
    /\ UNCHANGED <<pushed, queue, dropped, pending, stop_event, state, abandoned, locals,
                   repo_lock, ledger>>

\* repository.close waits for a save in progress.  A later save reopens the
\* database, so closing changes nothing the threads see.
CloseRepository ==
    /\ mpc \in {"closing", "onlyclosing"}
    /\ AutoCloseRepo => repo_lock = None
    /\ mpc' = IF mpc = "closing" THEN "stopped" ELSE "running"
    /\ UNCHANGED <<pushed, queue, dropped, fields, locals, repo_lock, ledger>>

\* The program ends after stopping its worker, and takes daemon threads with it.
Exit ==
    /\ mpc = "stopped"
    /\ mpc' = "exited"
    /\ UNCHANGED <<pushed, queue, dropped, fields, locals, repo_lock, ledger>>

----------------------------------------------------------------------------
\* A worker thread: _run_loop

LoopTestNoDrain(t) ==   \* mutant: the thread ends without draining
    /\ Running(t) /\ tpc[t] = "loop"
    /\ Go(t, IF stop_event THEN "final" ELSE "choose")
    /\ UNCHANGED <<pushed, queue, dropped, fields, batch, phase, attempts, gave_up,
                   repo_lock, ledger, mpc>>

\* while not stop_event.is_set()
LoopTest(t) ==
    /\ Running(t) /\ tpc[t] = "loop"
    /\ Go(t, IF stop_event THEN "flush" ELSE "choose")
    /\ UNCHANGED <<pushed, queue, dropped, fields, batch, phase, attempts, gave_up,
                   repo_lock, ledger, mpc>>

ChooseNewest(t) ==   \* mutant: a held batch does not hold back newer trades
    /\ Running(t) /\ tpc[t] = "choose"
    /\ \/ pending # <<>> /\ Go(t, "backoff")
       \/ Go(t, "take")
    /\ UNCHANGED <<pushed, queue, dropped, fields, batch, phase, attempts, gave_up,
                   repo_lock, ledger, mpc>>

\* A held batch is retried after a pause; otherwise newer trades are taken.
Choose(t) ==
    /\ Running(t) /\ tpc[t] = "choose"
    /\ Go(t, IF pending # <<>> THEN "backoff" ELSE "take")
    /\ UNCHANGED <<pushed, queue, dropped, fields, batch, phase, attempts, gave_up,
                   repo_lock, ledger, mpc>>

\* stop_event.wait(retry_delay): a stop ends the loop, time ends the pause.
Backoff(t) ==
    /\ Running(t) /\ tpc[t] = "backoff"
    /\ Go(t, IF stop_event THEN "flush" ELSE "retry")
    /\ UNCHANGED <<pushed, queue, dropped, fields, batch, phase, attempts, gave_up,
                   repo_lock, ledger, mpc>>

\* _persist_batch(self._pending_batch), a second read of the field: it is None
\* again if another thread has stored the batch, and then there is nothing to do.
Retry(t) ==
    /\ Running(t) /\ tpc[t] = "retry"
    /\ batch' = [batch EXCEPT ![t] = pending]
    /\ phase' = [phase EXCEPT ![t] = "loop"]
    /\ Go(t, IF pending = <<>> THEN "loop" ELSE "save")
    /\ UNCHANGED <<pushed, queue, dropped, fields, attempts, gave_up, repo_lock, ledger, mpc>>

\* pop_batch: the oldest trades, or nothing within the flush interval.
PopBatch(t) ==
    LET n == Lesser(BatchSize, Len(queue)) IN
    /\ batch' = [batch EXCEPT ![t] = SubSeq(queue, 1, n)]
    /\ queue' = SubSeq(queue, n + 1, Len(queue))

Take(t) ==
    /\ Running(t) /\ tpc[t] = "take"
    /\ PopBatch(t)
    /\ phase' = [phase EXCEPT ![t] = "loop"]
    /\ Go(t, IF queue = <<>> THEN "loop" ELSE "save")
    /\ UNCHANGED <<pushed, dropped, fields, attempts, gave_up, repo_lock, ledger, mpc>>

----------------------------------------------------------------------------
\* _persist_batch: the save holds the repository's lock; its outcome is then
\* written to _pending_batch, without a lock.

BeginSave(t) ==
    /\ Running(t) /\ tpc[t] = "save"
    /\ repo_lock = None
    /\ repo_lock' = t
    /\ Go(t, "saving")
    /\ UNCHANGED <<pushed, queue, dropped, fields, batch, phase, attempts, gave_up, ledger, mpc>>

\* INSERT OR IGNORE adds the rows not there yet: all of them, unless the batch was
\* stored before.
RowsNotThere(b) == SelectSeq(b, LAMBDA e : e \notin ToSet(ledger))

NewRows(b) == IF ToSet(b) \cap ToSet(ledger) = {} THEN b ELSE RowsNotThere(b)

\* The transaction commits.
SaveCommits(t) ==
    /\ Running(t) /\ tpc[t] = "saving"
    /\ ledger' = ledger \o NewRows(batch[t])
    /\ repo_lock' = None
    /\ Go(t, "saved")
    /\ UNCHANGED <<pushed, queue, dropped, fields, batch, phase, attempts, gave_up, mpc>>

\* It rolls back: locked beyond max_retries, or any other error.
SaveFails(t) ==
    /\ Running(t) /\ tpc[t] = "saving"
    /\ repo_lock' = None
    /\ Go(t, "failed")
    /\ UNCHANGED <<pushed, queue, dropped, fields, batch, phase, attempts, gave_up, ledger, mpc>>

\* Where a finished batch returns to.
AfterBatch(t) == IF phase[t] = "loop" THEN "loop" ELSE "drain"

\* _pending_batch = None; return True
Saved(t) ==
    /\ Running(t) /\ tpc[t] = "saved"
    /\ pending' = <<>>
    /\ batch' = [batch EXCEPT ![t] = <<>>]
    /\ attempts' = [attempts EXCEPT ![t] = 0]
    /\ Go(t, AfterBatch(t))
    /\ UNCHANGED <<pushed, queue, dropped, stop_event, thread, state, abandoned, phase,
                   gave_up, repo_lock, ledger, mpc>>

FailedForgets(t) ==   \* mutant: the failed batch of the loop is not kept
    /\ Running(t) /\ tpc[t] = "failed"
    /\ pending' = IF phase[t] = "loop" THEN <<>> ELSE batch[t]
    /\ IF phase[t] = "loop"
       THEN /\ Go(t, "loop")
            /\ batch' = [batch EXCEPT ![t] = <<>>]
            /\ UNCHANGED attempts
       ELSE /\ attempts' = [attempts EXCEPT ![t] = @ + 1]
            /\ Go(t, IF attempts[t] + 1 < ShutdownAttempts THEN "save" ELSE "abandon")
            /\ UNCHANGED batch
    /\ UNCHANGED <<pushed, queue, dropped, stop_event, thread, state, abandoned, phase,
                   gave_up, repo_lock, ledger, mpc>>

FailedTriesOnceMore(t) ==   \* mutant: <= instead of <
    /\ Running(t) /\ tpc[t] = "failed"
    /\ pending' = batch[t]
    /\ IF phase[t] = "loop"
       THEN /\ Go(t, "loop")
            /\ batch' = [batch EXCEPT ![t] = <<>>]
            /\ UNCHANGED attempts
       ELSE /\ attempts' = [attempts EXCEPT ![t] = @ + 1]
            /\ Go(t, IF attempts[t] + 1 <= ShutdownAttempts THEN "save" ELSE "abandon")
            /\ UNCHANGED batch
    /\ UNCHANGED <<pushed, queue, dropped, stop_event, thread, state, abandoned, phase,
                   gave_up, repo_lock, ledger, mpc>>

FailedRetriesForever(t) ==   \* mutant: no bound on the retries of the drain
    /\ Running(t) /\ tpc[t] = "failed"
    /\ pending' = batch[t]
    /\ IF phase[t] = "loop"
       THEN /\ Go(t, "loop")
            /\ batch' = [batch EXCEPT ![t] = <<>>]
            /\ UNCHANGED attempts
       ELSE /\ attempts' = attempts
            /\ Go(t, "save")
            /\ UNCHANGED batch
    /\ UNCHANGED <<pushed, queue, dropped, stop_event, thread, state, abandoned, phase,
                   gave_up, repo_lock, ledger, mpc>>

\* _pending_batch = batch; return False.  The drain tries again, boundedly.
Failed(t) ==
    /\ Running(t) /\ tpc[t] = "failed"
    /\ pending' = batch[t]
    /\ IF phase[t] = "loop"
       THEN /\ Go(t, "loop")
            /\ batch' = [batch EXCEPT ![t] = <<>>]
            /\ UNCHANGED attempts
       ELSE /\ attempts' = [attempts EXCEPT ![t] = @ + 1]
            /\ Go(t, IF attempts[t] + 1 < ShutdownAttempts THEN "save" ELSE "abandon")
            /\ UNCHANGED batch
    /\ UNCHANGED <<pushed, queue, dropped, stop_event, thread, state, abandoned, phase,
                   gave_up, repo_lock, ledger, mpc>>

----------------------------------------------------------------------------
\* _drain_remaining

Flush(t) ==
    /\ Running(t) /\ tpc[t] = "flush"
    /\ state' = "FLUSHING"
    /\ Go(t, "held")
    /\ UNCHANGED <<pushed, queue, dropped, pending, stop_event, thread, abandoned, batch,
                   phase, attempts, gave_up, repo_lock, ledger, mpc>>

\* The batch that failed before shutdown goes first.
Held(t) ==
    /\ Running(t) /\ tpc[t] = "held"
    /\ batch' = [batch EXCEPT ![t] = pending]
    /\ phase' = [phase EXCEPT ![t] = "held"]
    /\ attempts' = [attempts EXCEPT ![t] = 0]
    /\ Go(t, IF pending = <<>> THEN "drain" ELSE "save")
    /\ UNCHANGED <<pushed, queue, dropped, fields, gave_up, repo_lock, ledger, mpc>>

\* Then the queue, until a pop finds it empty.
Drain(t) ==
    /\ Running(t) /\ tpc[t] = "drain"
    /\ PopBatch(t)
    /\ phase' = [phase EXCEPT ![t] = "drain"]
    /\ attempts' = [attempts EXCEPT ![t] = 0]
    /\ Go(t, IF queue = <<>> THEN "final" ELSE IF gave_up[t] THEN "abandon" ELSE "save")
    /\ UNCHANGED <<pushed, dropped, fields, gave_up, repo_lock, ledger, mpc>>

AbandonKeepsHolding(t) ==   \* mutant: _pending_batch is not cleared
    /\ Running(t) /\ tpc[t] = "abandon"
    /\ abandoned' = abandoned \o batch[t]
    /\ batch' = [batch EXCEPT ![t] = <<>>]
    /\ gave_up' = [gave_up EXCEPT ![t] = TRUE]
    /\ Go(t, "drain")
    /\ UNCHANGED <<pushed, queue, dropped, pending, stop_event, thread, state, phase, attempts,
                   repo_lock, ledger, mpc>>

\* The first batch given up on gives up on all the rest.
Abandon(t) ==
    /\ Running(t) /\ tpc[t] = "abandon"
    /\ abandoned' = abandoned \o batch[t]
    /\ pending' = <<>>
    /\ batch' = [batch EXCEPT ![t] = <<>>]
    /\ gave_up' = [gave_up EXCEPT ![t] = TRUE]
    /\ Go(t, "drain")
    /\ UNCHANGED <<pushed, queue, dropped, stop_event, thread, state, phase, attempts,
                   repo_lock, ledger, mpc>>

Final(t) ==
    /\ Running(t) /\ tpc[t] = "final"
    /\ state' = IF gave_up[t] THEN "ERROR" ELSE "STOPPED"
    /\ Go(t, "dead")
    /\ UNCHANGED <<pushed, queue, dropped, pending, stop_event, thread, abandoned, batch,
                   phase, attempts, gave_up, repo_lock, ledger, mpc>>

ThreadStep(t) ==
    \/ LoopTest(t) \/ Choose(t) \/ Backoff(t) \/ Retry(t) \/ Take(t)
    \/ BeginSave(t) \/ SaveCommits(t) \/ SaveFails(t) \/ Saved(t) \/ Failed(t)
    \/ Flush(t) \/ Held(t) \/ Drain(t) \/ Abandon(t) \/ Final(t)

Main == Push \/ Start \/ Stop \/ Join \/ CloseRepository \/ Exit

Next == Main \/ \E t \in Threads : ThreadStep(t)

Spec == Init /\ [][Next]_vars

\* Threads are scheduled; a stop that has begun goes on.  The database may fail
\* for ever.
SchedulerFairness ==
    /\ \A t \in Threads : WF_vars(ThreadStep(t))
    /\ WF_vars(Join) /\ WF_vars(CloseRepository)

FairSpec == Spec /\ SchedulerFairness

\* The database does not stay down for ever.
DatabaseRecovers == \A t \in Threads : SF_vars(SaveCommits(t))

----------------------------------------------------------------------------
\* Properties

Batches == {b \in Seq(Trades) : Len(b) <= BatchSize}

\* Every field has its type, and the repository's lock is held by the thread
\* that is saving.
TypeOK ==
    /\ pushed \in 0 .. MaxTrades
    /\ queue \in Seq(Trades) /\ dropped \in Seq(Trades)
    /\ pending \in Batches
    /\ stop_event \in BOOLEAN
    /\ thread \in Threads \cup {None}
    /\ state \in {"STOPPED", "RUNNING", "FLUSHING", "ERROR"}
    /\ abandoned \in Seq(Trades)
    /\ tpc \in [Threads -> {"unborn", "loop", "choose", "backoff", "retry", "take", "save",
                            "saving", "saved", "failed", "flush", "held", "drain",
                            "abandon", "final", "dead"}]
    /\ batch \in [Threads -> Batches]
    /\ phase \in [Threads -> {"loop", "held", "drain"}]
    /\ attempts \in [Threads -> 0 .. ShutdownAttempts]
    /\ gave_up \in [Threads -> BOOLEAN]
    /\ \A t \in Threads : repo_lock = t <=> tpc[t] = "saving"
    /\ ledger \in Seq(Trades)
    /\ mpc \in {"running", "joining", "closing", "onlyclosing", "stopped", "exited"}

Stored    == ToSet(ledger)
Lost      == ToSet(dropped) \cup ToSet(abandoned)       \* lost, and counted
InMemory  == ToSet(queue) \cup ToSet(pending) \cup UNION {ToSet(batch[t]) : t \in Threads}

\* worker.py:8-14, README.md: no trade is lost silently.  Every trade pushed is
\* stored, or counted as dropped or abandoned, or still in the program's hands.
NothingLostSilently ==
    mpc # "exited" => 1 .. pushed \subseteq Stored \cup Lost \cup InMemory

\* worker.py:8-14: trades are never skipped and stay in order.  The ledger is in
\* the order of the pushes, and a trade older than a stored one is stored too
\* unless it is counted as lost; what is counted as lost is lost: not stored after
\* all, and not counted twice.
LedgerKeepsOrder ==
    /\ Stored \cap Lost = {}
    /\ IsInjective(dropped \o abandoned)
    /\ \A i, j \in 1 .. Len(ledger) : i < j => ledger[i] < ledger[j]
    /\ \A i \in 1 .. Len(ledger) : 1 .. ledger[i] \subseteq Stored \cup Lost

\* When stop has waited for the thread, nothing is left in memory: what was
\* pushed is stored or counted, and the worker is STOPPED or ERROR.
StopSettlesEverything ==
    (mpc = "closing" /\ ~ \E t \in Threads : Alive(t)) =>
        /\ 1 .. pushed \subseteq Stored \cup Lost
        /\ pending = <<>> /\ queue = <<>>
        /\ state \in {"STOPPED", "ERROR"}

\* README.md: a trade that cannot be written at shutdown is counted in
\* trades_abandoned, never lost silently.
ExitAccountsForAll == mpc = "exited" => 1 .. pushed \subseteq Stored \cup Lost

\* worker.py:12-13: retries at shutdown are bounded, so stop ends even if the
\* database never comes back.
StopEnds == mpc = "joining" ~> mpc \in {"stopped", "exited"}

\* While the worker is left running and the database recovers, every trade is
\* stored, or was evicted from a full queue.
EverythingSettles ==
    DatabaseRecovers => \A e \in Trades : (e <= pushed /\ Alive(thread)) ~> (e \in Stored \cup Lost)
=============================================================================

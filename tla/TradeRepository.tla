-------------------------- MODULE TradeRepository --------------------------
(***************************************************************************)
(* SQLiteTradeRepository, src/src/persistence/repository.py: repository    *)
(* objects of several processes on one database file.                      *)
(*                                                                         *)
(* Calls on one object are serialised by its lock, so an object is inside  *)
(* one save at a time.  SQLite is modelled by what the code relies on: one *)
(* writer at a time, a transaction nobody else sees before its commit, and *)
(* a rollback when it fails or its process dies; total_changes counts the  *)
(* rows a connection inserted, those rolled back included.                 *)
(***************************************************************************)
EXTENDS Integers, Sequences, SequencesExt

CONSTANTS
    Repositories,   \* repository objects, one per process
    Trades,         \* trade ids
    Batches,        \* what callers save: non-empty sequences of trades
    Overflowing,    \* trades with an integer above 2^63 - 1: binding raises OverflowError
    Incomplete,     \* trades with a NaN, which SQLite stores as NULL: NOT NULL fails
    Nobody,
    max_retries,    \* at least 1
    MaxSaves,       \* bound: saves begun
    MaxPage         \* bound: limit of a page

ASSUME TradeRepositoryAssumption ==
    /\ Batches \subseteq Seq(Trades) \ {<<>>}
    /\ Overflowing \subseteq Trades /\ Incomplete \subseteq Trades \ Overflowing
    /\ Nobody \notin Repositories
    /\ max_retries \in Nat \ {0}
    /\ MaxSaves \in Nat /\ MaxPage \in Nat

VARIABLES
    table,            \* the committed rows of matched_trades, by rowid
    writer,           \* who holds SQLite's write lock, or Nobody
    is_closed,        \* per object: _is_closed
    pc,               \* "idle" | "attempt" | "insert" | "committed"
    batch, attempt,   \* the save in progress: its rows, the attempts that failed
    row, pending,     \* the attempt: rows tried, rows its transaction has added
    total_changes, changes_before,
    saves,            \* saves begun
    seen              \* history: what a client has read, page after page

save   == <<pc, batch, attempt, row, pending, total_changes, changes_before>>
vars   == <<table, writer, is_closed, save, saves, seen>>

----------------------------------------------------------------------------
\* Queries, on the committed rows.

get_trade_count == Len(table)

Least(m, n) == IF m < n THEN m ELSE n

get_tradesNewestFirst(limit, offset) ==   \* mutant: ORDER BY rowid DESC
    SubSeq(Reverse(table), offset + 1, Least(offset + limit, Len(table)))

get_trades(limit, offset) == SubSeq(table, offset + 1, Least(offset + limit, Len(table)))

\* ORDER BY rowid DESC LIMIT, then reversed.
get_latest_trades(limit) ==
    LET descending == Reverse(table)
    IN  Reverse(SubSeq(descending, 1, Least(limit, Len(table))))

----------------------------------------------------------------------------

\* __init__ connects and creates the table if there is none.
Init ==
    /\ table = <<>> /\ writer = Nobody /\ saves = 0 /\ seen = <<>>
    /\ is_closed = [r \in Repositories |-> FALSE]
    /\ pc = [r \in Repositories |-> "idle"]
    /\ batch = [r \in Repositories |-> <<>>] /\ attempt = [r \in Repositories |-> 0]
    /\ row = [r \in Repositories |-> 0] /\ pending = [r \in Repositories |-> <<>>]
    /\ total_changes = [r \in Repositories |-> 0]
    /\ changes_before = [r \in Repositories |-> 0]

\* _get_connection: nothing resets _is_closed, so after a close every call opens
\* a new connection.
Connect(r) ==
    total_changes' = IF is_closed[r] THEN [total_changes EXCEPT ![r] = 0] ELSE total_changes

SaveBegin(r) ==
    /\ pc[r] = "idle"
    /\ saves < MaxSaves
    /\ saves' = saves + 1
    /\ \E b \in Batches : batch' = [batch EXCEPT ![r] = b]
    /\ Connect(r)
    /\ pc' = [pc EXCEPT ![r] = "attempt"]
    /\ UNCHANGED <<table, writer, is_closed, attempt, row, pending, changes_before, seen>>

\* The call returns or raises: its locals are gone.
End(r) ==
    /\ pc' = [pc EXCEPT ![r] = "idle"]
    /\ batch' = [batch EXCEPT ![r] = <<>>] /\ attempt' = [attempt EXCEPT ![r] = 0]
    /\ changes_before' = [changes_before EXCEPT ![r] = 0]

RollbackLater(r) ==   \* mutant: after an error the transaction stays open
    /\ UNCHANGED writer
    /\ row' = [row EXCEPT ![r] = 0] /\ pending' = [pending EXCEPT ![r] = <<>>]

\* The transaction is rolled back by __exit__ of the connection;
\* total_changes does not go back.
Rollback(r) ==
    /\ writer' = Nobody
    /\ row' = [row EXCEPT ![r] = 0] /\ pending' = [pending EXCEPT ![r] = <<>>]

BeginTransactionOnce(r) ==   \* mutant: changes_before is read before the loop
    /\ pc[r] = "attempt"
    /\ writer = Nobody
    /\ writer' = r
    /\ changes_before' = IF attempt[r] = 0 THEN [changes_before EXCEPT ![r] = total_changes[r]]
                         ELSE changes_before
    /\ pc' = [pc EXCEPT ![r] = "insert"]
    /\ UNCHANGED <<table, is_closed, batch, attempt, row, pending, total_changes, saves, seen>>

\* The first INSERT of an attempt takes the write lock.
BeginTransaction(r) ==
    /\ pc[r] = "attempt"
    /\ writer = Nobody
    /\ writer' = r
    /\ changes_before' = [changes_before EXCEPT ![r] = total_changes[r]]
    /\ pc' = [pc EXCEPT ![r] = "insert"]
    /\ UNCHANGED <<table, is_closed, batch, attempt, row, pending, total_changes, saves, seen>>

RetryForever(r) ==   \* mutant: while True instead of range(max_retries)
    /\ pc' = [pc EXCEPT ![r] = "attempt"]
    /\ UNCHANGED <<batch, attempt, changes_before>>

\* "locked" or "busy": back off and try again, and raise after the last attempt.
Retry(r) ==
    IF attempt[r] + 1 < max_retries
    THEN /\ attempt' = [attempt EXCEPT ![r] = @ + 1]
         /\ pc' = [pc EXCEPT ![r] = "attempt"]
         /\ UNCHANGED <<batch, changes_before>>
    ELSE End(r)

\* The busy timeout passes while another connection holds the write lock.
Busy(r) ==
    /\ pc[r] = "attempt"
    /\ writer # Nobody
    /\ Retry(r)
    /\ UNCHANGED <<table, writer, is_closed, row, pending, total_changes, saves, seen>>

IsStoredInTransaction(r, t) == t \in ToSet(pending[r])   \* mutant: no PRIMARY KEY on disk

IsStored(r, t) == t \in ToSet(table) \cup ToSet(pending[r])

\* One row of executemany.  INSERT OR IGNORE skips a trade that is stored
\* already, and also one that violates NOT NULL.
InsertRow(r) ==
    /\ pc[r] = "insert" /\ row[r] < Len(batch[r])
    /\ LET t == batch[r][row[r] + 1] IN
        /\ t \notin Overflowing
        /\ IF t \in Incomplete \/ IsStored(r, t)
           THEN UNCHANGED <<pending, total_changes>>
           ELSE /\ pending' = [pending EXCEPT ![r] = Append(@, t)]
                /\ total_changes' = [total_changes EXCEPT ![r] = @ + 1]
    /\ row' = [row EXCEPT ![r] = @ + 1]
    /\ UNCHANGED <<table, writer, is_closed, pc, batch, attempt, changes_before, saves, seen>>

\* A row that overflows, a full disk, an I/O error: rolled back, the save raises.
Fail(r) ==
    /\ pc[r] = "insert"
    /\ Rollback(r)
    /\ End(r)
    /\ UNCHANGED <<table, is_closed, total_changes, saves, seen>>

\* A database that could not be put into WAL mode (the pragma's answer is not
\* read) may find a reader in the way of its commit.
CommitBusy(r) ==
    /\ pc[r] = "insert" /\ row[r] = Len(batch[r])
    /\ Rollback(r)
    /\ Retry(r)
    /\ UNCHANGED <<table, is_closed, total_changes, saves, seen>>

CommitEveryRow(r) ==   \* mutant: autocommit, no transaction around the batch
    /\ pc[r] = "insert"
    /\ table' = table \o pending[r]
    /\ pending' = [pending EXCEPT ![r] = <<>>]
    /\ IF row[r] = Len(batch[r])
       THEN writer' = Nobody /\ pc' = [pc EXCEPT ![r] = "committed"]
       ELSE UNCHANGED <<writer, pc>>
    /\ UNCHANGED <<is_closed, batch, attempt, row, total_changes, changes_before, saves, seen>>

Commit(r) ==
    /\ pc[r] = "insert" /\ row[r] = Len(batch[r])
    /\ table' = table \o pending[r]
    /\ writer' = Nobody
    /\ pc' = [pc EXCEPT ![r] = "committed"]
    /\ UNCHANGED <<is_closed, batch, attempt, row, pending, total_changes, changes_before,
                   saves, seen>>

\* What save_trades_batch returns.
Inserted(r)   == total_changes[r] - changes_before[r]
Duplicates(r) == Len(batch[r]) - Inserted(r)

Return(r) ==
    /\ pc[r] = "committed"
    /\ End(r)
    /\ row' = [row EXCEPT ![r] = 0] /\ pending' = [pending EXCEPT ![r] = <<>>]
    /\ UNCHANGED <<table, writer, is_closed, total_changes, saves, seen>>

\* A second close returns early, also when calls have reopened a connection.
Close(r) ==
    /\ pc[r] = "idle" /\ ~ is_closed[r]
    /\ is_closed' = [is_closed EXCEPT ![r] = TRUE]
    /\ UNCHANGED <<table, writer, save, saves, seen>>

\* The process dies; SQLite rolls its transaction back, and a new process opens
\* the file.
Kill(r) ==
    /\ End(r)
    /\ writer' = IF writer = r THEN Nobody ELSE writer
    /\ row' = [row EXCEPT ![r] = 0] /\ pending' = [pending EXCEPT ![r] = <<>>]
    /\ total_changes' = [total_changes EXCEPT ![r] = 0]
    /\ is_closed' = [is_closed EXCEPT ![r] = FALSE]
    /\ UNCHANGED <<table, saves, seen>>

\* A client of get_trades goes on where its last page ended.
ReadPage ==
    /\ \E limit \in 1 .. MaxPage : seen' = seen \o get_trades(limit, Len(seen))
    /\ UNCHANGED <<table, writer, is_closed, save, saves>>

Step(r) ==
    \/ BeginTransaction(r) \/ Busy(r) \/ InsertRow(r) \/ Fail(r)
    \/ CommitBusy(r) \/ Commit(r) \/ Return(r)

Next ==
    \/ \E r \in Repositories : SaveBegin(r) \/ Step(r) \/ Close(r) \/ Kill(r)
    \/ ReadPage

\* A call that is running goes on: the lock is got or the busy timeout passes.
Spec == Init /\ [][Next]_vars /\ \A r \in Repositories : WF_vars(Step(r))

----------------------------------------------------------------------------
\* Properties

\* Every field has its type, and the write lock is held by the one transaction.
TypeOK ==
    /\ table \in Seq(Trades)
    /\ writer \in Repositories \cup {Nobody}
    /\ is_closed \in [Repositories -> BOOLEAN]
    /\ pc \in [Repositories -> {"idle", "attempt", "insert", "committed"}]
    /\ batch \in [Repositories -> Seq(Trades)]
    /\ attempt \in [Repositories -> 0 .. max_retries]
    /\ row \in [Repositories -> Nat] /\ pending \in [Repositories -> Seq(Trades)]
    /\ total_changes \in [Repositories -> Nat] /\ changes_before \in [Repositories -> Nat]
    /\ saves \in Nat /\ seen \in Seq(Trades)
    /\ \A r \in Repositories : pc[r] = "insert" <=> writer = r

\* What a save is about to return is true, after failed attempts, reopened
\* connections and saves of other processes: it inserted as many rows as it says,
\* and all of its batch is in the table; only a trade with a NULL column is not,
\* though it is reported as a duplicate.
ReportsAreTrue ==
    \A r \in Repositories : pc[r] = "committed" =>
        /\ Inserted(r) = Len(pending[r])
        /\ Duplicates(r) \in 0 .. Len(batch[r])
        /\ ToSet(batch[r]) \subseteq ToSet(table) \cup Incomplete

\* A client that pages through the table while others save has read each row
\* once, in order, from the first: rows never move.  The latest trades are the
\* last page.
PagesAreStable ==
    /\ seen = SubSeq(table, 1, Len(seen))
    /\ \A n \in 0 .. MaxPage :
        n <= get_trade_count => get_latest_trades(n) = get_trades(n, get_trade_count - n)

Ledger == INSTANCE TradeLedger WITH ledger <- table

\* Two processes saving the same trades, killed, retrying and failing half way
\* through a batch, keep one ledger of whole batches in which no trade is twice.
ImplementsLedger == Ledger!LedgerSpec

\* Every save ends, whatever holds the write lock: the attempts are bounded.
SavesReturn == \A r \in Repositories : (pc[r] # "idle") ~> (pc[r] = "idle")
============================================================================

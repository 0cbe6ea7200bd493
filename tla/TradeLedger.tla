---------------------------- MODULE TradeLedger ----------------------------
(***************************************************************************)
(* What a trade repository promises (the docstrings of                     *)
(* BaseTradeRepository, src/src/persistence/repository.py): a ledger that  *)
(* only grows, one whole batch at a time, in which a trade appears once    *)
(* however often it is saved.                                              *)
(***************************************************************************)
EXTENDS Integers, Sequences, SequencesExt

CONSTANTS
    Batches,      \* sequences of trades that callers save
    Overflowing,  \* trades no row can hold: a batch with one is refused whole
    Incomplete    \* trades with a NULL column: skipped

VARIABLE ledger

LedgerInit == ledger = <<>>

\* new comes after old, and holds what old holds and the trades of the batch.
Extends(old, new, batch) ==
    /\ IsPrefix(old, new)
    /\ ToSet(new) = ToSet(old) \cup (ToSet(batch) \ Incomplete)
    /\ IsInjective(new)

AppendBatch ==
    \E batch \in Batches :
        /\ ToSet(batch) \cap Overflowing = {}
        /\ Extends(ledger, ledger', batch)

LedgerSpec == LedgerInit /\ [][AppendBatch]_ledger
============================================================================

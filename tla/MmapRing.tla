------------------------------ MODULE MmapRing ------------------------------
(***************************************************************************)
(* MmapRingBuffer of src/src/ipc/mmap_buffer.py with one writer and one    *)
(* default reader (consumer_seq = None), through read or read_batch.       *)
(*                                                                         *)
(* The header holds head_seq, tail_seq and dropped_count.  The lock is a   *)
(* threading.Lock of the Python object: it serialises two threads that     *)
(* share one object and does nothing between two processes, each of which  *)
(* has an object of its own.                                               *)
(* A record is copied in two halves; a load or store of the header is one  *)
(* step (an assumption: its counters lie in one cache line), in program    *)
(* order.  Either process may be killed between any two of these.          *)
(***************************************************************************)
EXTENDS Integers, Sequences, FiniteSets

CONSTANTS
    Capacity,
    Uses,           \* how the ring may be used: see UseType
    MaxBatch,       \* largest max_records
    MaxWrites,      \* bound: records written
    MaxAttaches     \* bound: times the reader is killed and another one attaches

\* Do writer and reader share one object, and its lock?  Which values does the
\* writer pass for overwrite_if_full?
UseType == [one_object: BOOLEAN, overwrites: SUBSET BOOLEAN]

ASSUME MmapRingAssumption ==
    /\ Capacity \in Nat \ {0}
    /\ Uses \subseteq UseType
    /\ MaxBatch \in Nat \ {0}
    /\ MaxWrites \in Nat /\ MaxAttaches \in Nat

VARIABLES
    use,                                  \* the use, chosen once
    head_seq, tail_seq, dropped_count,    \* the shared header
    slots,                                \* slot -> the two halves of a record
    lock,                                 \* the object's lock: is it held?
    wpc, whead, wtail, wdropped,          \* write: next step, its locals
    rpc, rhead, rtail, curr_seq, left,    \* read: next step, its locals
    records,                              \* read_batch: records copied so far
    local_read_seq,                       \* _local_read_seq of the reader
    delivered,                            \* history: [seq, data] the calls returned
    attaches,                             \* history: readers that replaced a killed one
    abandoned                             \* history: records that readers killed after
                                          \* they had stored the tail never returned

shared  == <<head_seq, tail_seq, dropped_count>>
writer  == <<wpc, whead, wtail, wdropped>>
reading == <<rhead, rtail, curr_seq, left, records>>
reader  == <<rpc, reading, local_read_seq, delivered, attaches, abandoned>>
vars    == <<use, shared, slots, lock, writer, reader>>

OneObject  == use.one_object
Overwrites == use.overwrites

\* The record of sequence number s has payload s + 1; 0 is a fresh file.
Half      == 0 .. MaxWrites
Record(s) == [lo |-> s + 1, hi |-> s + 1]
Slot(s)   == s % Capacity

Lesser(m, n) == IF m < n THEN m ELSE n

Acquire == UNCHANGED use /\ IF OneObject THEN ~ lock /\ lock' = TRUE ELSE UNCHANGED lock
Keep    == UNCHANGED <<use, lock>>
Release == UNCHANGED use /\ lock' = FALSE

----------------------------------------------------------------------------

Init ==
    /\ use \in Uses
    /\ head_seq = 0 /\ tail_seq = 0 /\ dropped_count = 0
    /\ slots = [s \in 0 .. Capacity - 1 |-> [lo |-> 0, hi |-> 0]]
    /\ lock = FALSE
    /\ wpc = "idle" /\ whead = 0 /\ wtail = 0 /\ wdropped = 0
    /\ rpc = "idle" /\ rhead = 0 /\ rtail = 0 /\ curr_seq = 0 /\ left = 0
    /\ records = <<>>
    /\ local_read_seq = 0
    /\ delivered = <<>> /\ attaches = 0 /\ abandoned = 0

----------------------------------------------------------------------------
\* write

WriteBeginLate ==   \* mutant: > for >=
    /\ wpc = "idle"
    /\ head_seq < MaxWrites
    /\ Acquire
    /\ whead' = head_seq
    /\ IF head_seq - tail_seq > Capacity
       THEN /\ TRUE \in Overwrites
            /\ wtail' = head_seq - Capacity + 1
            /\ wdropped' = dropped_count + 1
       ELSE wtail' = tail_seq /\ wdropped' = dropped_count
    /\ wpc' = "slot"
    /\ UNCHANGED <<shared, slots, reader>>

\* The header is read; a full ring drops its oldest record, or (overwrite_if_full
\* FALSE) the call returns False and nothing has changed.
WriteBegin ==
    /\ wpc = "idle"
    /\ head_seq < MaxWrites
    /\ Acquire
    /\ whead' = head_seq
    /\ IF head_seq - tail_seq >= Capacity
       THEN /\ TRUE \in Overwrites
            /\ wtail' = head_seq - Capacity + 1
            /\ wdropped' = dropped_count + 1
       ELSE wtail' = tail_seq /\ wdropped' = dropped_count
    /\ wpc' = "slot"
    /\ UNCHANGED <<shared, slots, reader>>

WriteFirstHalf ==
    /\ wpc = "slot"
    /\ slots' = [slots EXCEPT ![Slot(whead)].lo = whead + 1]
    /\ wpc' = "half"
    /\ Keep
    /\ UNCHANGED <<shared, whead, wtail, wdropped, reader>>

WriteSecondHalf ==
    /\ wpc = "half"
    /\ slots' = [slots EXCEPT ![Slot(whead)].hi = whead + 1]
    /\ wpc' = "header"
    /\ Keep
    /\ UNCHANGED <<shared, whead, wtail, wdropped, reader>>

\* All three counters are stored, from the values read at the beginning.
WriteHeader ==
    /\ wpc = "header"
    /\ head_seq' = whead + 1
    /\ tail_seq' = wtail
    /\ dropped_count' = wdropped
    /\ wpc' = "idle"
    /\ Release
    /\ UNCHANGED <<slots, whead, wtail, wdropped, reader>>

----------------------------------------------------------------------------
\* read (one record) and read_batch

ReadBeginNoSkip ==   \* mutant: a reader that fell behind does not jump ahead
    /\ rpc = "idle"
    /\ local_read_seq < head_seq
    /\ Acquire
    /\ rhead' = head_seq /\ rtail' = tail_seq
    /\ curr_seq' = local_read_seq
    /\ \E max_records \in 1 .. MaxBatch : left' = Lesser(max_records, head_seq - curr_seq')
    /\ records' = <<>>
    /\ rpc' = "copy"
    /\ UNCHANGED <<shared, slots, writer, local_read_seq, delivered, attaches, abandoned>>

\* The header is read; a reader whose records were overwritten jumps to the
\* oldest slot.  With nothing new the call returns and nothing has changed.
ReadBegin ==
    /\ rpc = "idle"
    /\ local_read_seq < head_seq
    /\ Acquire
    /\ rhead' = head_seq /\ rtail' = tail_seq
    /\ curr_seq' = IF head_seq - local_read_seq > Capacity
                   THEN head_seq - Capacity ELSE local_read_seq
    /\ \E max_records \in 1 .. MaxBatch : left' = Lesser(max_records, head_seq - curr_seq')
    /\ records' = <<>>
    /\ rpc' = "copy"
    /\ UNCHANGED <<shared, slots, writer, local_read_seq, delivered, attaches, abandoned>>

CopyFirstHalf ==
    /\ rpc = "copy" /\ left > 0
    /\ records' = Append(records, [seq |-> curr_seq,
                                   data |-> [lo |-> slots[Slot(curr_seq)].lo, hi |-> 0]])
    /\ rpc' = "half"
    /\ Keep
    /\ UNCHANGED <<shared, slots, writer, rhead, rtail, curr_seq, left, local_read_seq,
                   delivered, attaches, abandoned>>

CopySecondHalf ==
    /\ rpc = "half"
    /\ records' = [records EXCEPT ![Len(records)].data.hi = slots[Slot(curr_seq)].hi]
    /\ curr_seq' = curr_seq + 1
    /\ left' = left - 1
    /\ rpc' = "copy"
    /\ Keep
    /\ UNCHANGED <<shared, slots, writer, rhead, rtail, local_read_seq, delivered, attaches,
                   abandoned>>

ReadEndIfNext ==   \* mutant: the tail moves only from the record just read
    /\ rpc = "copy" /\ left = 0
    /\ local_read_seq' = curr_seq
    /\ tail_seq' = IF rtail = curr_seq - Len(records) THEN curr_seq ELSE tail_seq
    /\ rpc' = "return"
    /\ Keep
    /\ UNCHANGED <<head_seq, dropped_count, slots, writer, reading, delivered, attaches,
                   abandoned>>

\* The reader's own sequence is stored, then the shared tail if it is ahead of the
\* tail read at the beginning.
ReadEnd ==
    /\ rpc = "copy" /\ left = 0
    /\ local_read_seq' = curr_seq
    /\ tail_seq' = IF curr_seq > rtail THEN curr_seq ELSE tail_seq
    /\ rpc' = "return"
    /\ Keep
    /\ UNCHANGED <<head_seq, dropped_count, slots, writer, reading, delivered, attaches,
                   abandoned>>

\* The call returns what it has copied, and only then has its caller the records.
ReadReturn ==
    /\ rpc = "return"
    /\ delivered' = delivered \o records
    /\ rpc' = "idle"
    /\ Release
    /\ UNCHANGED <<shared, slots, writer, reading, local_read_seq, attaches, abandoned>>

Abandon == abandoned' = IF rpc = "return" THEN abandoned + Len(records) ELSE abandoned

AttachAtHead ==   \* mutant: a new reader starts with the next record written
    /\ attaches < MaxAttaches
    /\ ~ OneObject
    /\ attaches' = attaches + 1
    /\ local_read_seq' = head_seq
    /\ rpc' = "idle"
    /\ Abandon
    /\ Keep
    /\ UNCHANGED <<shared, slots, writer, reading, delivered>>

\* The reader's process is killed, and another one attaches where the tail is.
Attach ==
    /\ attaches < MaxAttaches
    /\ ~ OneObject
    /\ attaches' = attaches + 1
    /\ local_read_seq' = tail_seq
    /\ rpc' = "idle"
    /\ Abandon
    /\ Keep
    /\ UNCHANGED <<shared, slots, writer, reading, delivered>>

\* The writer's process is killed, and another one goes on from the header.
WriterKilled ==
    /\ ~ OneObject
    /\ wpc # "idle"
    /\ wpc' = "idle"
    /\ Keep
    /\ UNCHANGED <<shared, slots, whead, wtail, wdropped, reader>>

WriterNext == WriteBegin \/ WriteFirstHalf \/ WriteSecondHalf \/ WriteHeader
ReaderNext == ReadBegin \/ CopyFirstHalf \/ CopySecondHalf \/ ReadEnd \/ ReadReturn

Next == WriterNext \/ ReaderNext \/ Attach \/ WriterKilled

Spec == Init /\ [][Next]_vars

\* The reader keeps polling, and a write that has begun goes on.
FairSpec == /\ Spec
            /\ WF_vars(ReaderNext)
            /\ WF_vars(WriteFirstHalf \/ WriteSecondHalf \/ WriteHeader)

----------------------------------------------------------------------------
\* Properties

\* Every field has its type; no counter passes the head; under the lock the tail
\* is never more than a ring behind; a killed reader takes at most a batch along.
TypeOK ==
    /\ use \in Uses
    /\ head_seq \in 0 .. MaxWrites
    /\ tail_seq \in 0 .. head_seq
    /\ OneObject => head_seq - tail_seq <= Capacity
    /\ local_read_seq \in 0 .. head_seq
    /\ dropped_count \in 0 .. head_seq
    /\ slots \in [0 .. Capacity - 1 -> [lo: Half, hi: Half]]
    /\ lock \in BOOLEAN
    /\ wpc \in {"idle", "slot", "half", "header"}
    /\ {whead, wtail, wdropped, rhead, rtail, curr_seq} \subseteq 0 .. MaxWrites
    /\ rpc \in {"idle", "copy", "half", "return"}
    /\ left \in 0 .. Lesser(MaxBatch, Capacity)
    /\ records \in Seq([seq: Half, data: [lo: Half, hi: Half]])
    /\ Len(records) <= MaxBatch
    /\ delivered \in Seq([seq: Half, data: [lo: Half, hi: Half]])
    /\ attaches \in 0 .. MaxAttaches
    /\ abandoned \in 0 .. MaxBatch * attaches

\* What a call returns for a sequence number is the record written under it,
\* whole, also while the ring wraps around under the reader.
IntactRecords ==
    \A k \in 1 .. Len(delivered) : delivered[k].data = Record(delivered[k].seq)

\* The sequence numbers below n that no call has returned.
Unreturned(n) == {s \in 0 .. n - 1 : \A k \in 1 .. Len(delivered) : delivered[k].seq # s}

\* Those that the reader is about to return.
Held == IF rpc = "return" THEN {records[k].seq : k \in 1 .. Len(records)} ELSE {}

\* No record disappears without a trace.  A reader that is not killed is returned
\* each record once and in order, whatever the writer drops.  Between two threads
\* of one object dropped_count is exactly the number of records behind the tail
\* that no call returned.  With overwrite_if_full FALSE, although the tail that the
\* two processes share goes backwards and readers are killed and attach at it
\* again, the only records behind the reader that no call returned are those in the
\* hands of a reader that had stored the tail and was killed before it returned.
NothingSkipped ==
    /\ attaches = 0 =>
        \A i, j \in 1 .. Len(delivered) : i < j => delivered[i].seq < delivered[j].seq
    /\ OneObject /\ rpc = "idle" /\ wpc = "idle" =>
        Cardinality(Unreturned(tail_seq)) = dropped_count
    /\ TRUE \notin Overwrites =>
        Cardinality(Unreturned(local_read_seq) \ Held) <= abandoned

\* A tail that a writer stored from an old header does not keep writers out for
\* ever: while the reader polls, a ring that looks full has room again.
WriterGetsRoom == head_seq - tail_seq >= Capacity ~> head_seq - tail_seq < Capacity
=============================================================================

------------------------------ MODULE SpscRing ------------------------------
(***************************************************************************)
(* The order pipeline: firehose.py writes packed orders into a shared      *)
(* memory ring (src/src/data_processing/ipc_buffer.py) and consumer.py, in *)
(* another process, reads them and feeds its matching engine.              *)
(*                                                                         *)
(* There is no lock.  The file holds two indexes, each stored by one side  *)
(* only, and the slots.  A 33-byte record is copied in two halves, so that *)
(* a record read while it is written would show; an index is 8 aligned     *)
(* bytes and is stored and loaded at once, in program order (x86).  The    *)
(* file outlives the processes: either may be killed, and a consumer may   *)
(* be started again on the same file.                                      *)
(*                                                                         *)
(* write never looks at read_index: a full ring is overwritten, unread     *)
(* slots first, and nothing tells either side.  Its callers size the ring  *)
(* for that (the defaults of firehose.py and ipc_proof.py: a slot for      *)
(* every order) or read before they wrap around (test_ipc_buffer.py, which *)
(* WriterWaits stands for).  A `firehose --slots 2 --orders 5` does        *)
(* neither.  RingNeverOverrun is this contract, which nothing enforces and *)
(* the properties below assume.                                            *)
(***************************************************************************)
EXTENDS Integers, Sequences, FiniteSets

CONSTANTS
    Slots,           \* num_slots
    NumOrders,       \* firehose --orders
    Wanted,          \* consumer --orders
    WriterWaits,     \* does the writer's caller wait when Slots orders are unread?
    WriterMayDie,    \* is the writer process ever killed?
    MaxCrashes       \* bound: times the consumer is killed and started again

ASSUME SpscRingAssumption ==
    /\ Slots \in Nat \ {0} /\ NumOrders \in Nat /\ Wanted \in Nat \ {0}
    /\ WriterWaits \in BOOLEAN /\ WriterMayDie \in BOOLEAN
    /\ MaxCrashes \in Nat

\* What write leaves to its caller.
RingNeverOverrun == WriterWaits \/ NumOrders <= Slots

VARIABLES
    file,                      \* "missing" | "empty" (created, size 0) | "ready"
    write_index, read_index,   \* the header
    slots,                     \* slot number -> the two halves it holds
    wpc,                       \* the firehose: next step
    rpc,                       \* the consumer: next step
    data,                      \* the record read() is copying, or has returned
    received,                  \* the consumer's counter
    taken,                     \* history: records returned by read()
    processed,                 \* history: records given to an engine
    crashes                    \* history: times the consumer was killed

writer == <<file, write_index, wpc>>
reader == <<read_index, rpc, data, received, taken, processed, crashes>>
vars   == <<slots, writer, reader>>

Orders == 1 .. NumOrders
Half   == 0 .. NumOrders                       \* 0: the zeros of a fresh file
Record(order) == [lo |-> order, hi |-> order]

Slot(index) == index % Slots

----------------------------------------------------------------------------

Init ==
    /\ file = "missing"
    /\ write_index = 0 /\ read_index = 0
    /\ slots = [s \in 0 .. Slots - 1 |-> Record(0)]
    /\ wpc = "create" /\ rpc = "attach"
    /\ data = Record(0)
    /\ received = 0
    /\ taken = <<>> /\ processed = <<>> /\ crashes = 0

----------------------------------------------------------------------------
\* The firehose

\* _create_file: the file exists before it has its size.
CreateFile ==
    /\ wpc = "create"
    /\ file' = "empty"
    /\ wpc' = "size"
    /\ UNCHANGED <<slots, write_index, reader>>

SizeFile ==
    /\ wpc = "size"
    /\ file' = "ready"
    /\ wpc' = "begin"
    /\ UNCHANGED <<slots, write_index, reader>>

\* write: the record goes into its slot first.  Only the caller can make it wait.
WriteFirstHalf ==
    /\ wpc = "begin"
    /\ write_index < NumOrders
    /\ WriterWaits => write_index - read_index < Slots
    /\ slots' = [slots EXCEPT ![Slot(write_index)].lo = write_index + 1]
    /\ wpc' = "half"
    /\ UNCHANGED <<file, write_index, reader>>

WriteSecondHalf ==
    /\ wpc = "half"
    /\ slots' = [slots EXCEPT ![Slot(write_index)].hi = write_index + 1]
    /\ wpc' = "publish"
    /\ UNCHANGED <<file, write_index, reader>>

PublishEarly ==   \* mutant: the index may be stored before the record is complete
    /\ wpc \in {"half", "publish"}
    /\ write_index' = write_index + 1
    /\ wpc' = "begin"
    /\ UNCHANGED <<file, slots, reader>>

\* The index comes after the record.
Publish ==
    /\ wpc = "publish"
    /\ write_index' = write_index + 1
    /\ wpc' = "begin"
    /\ UNCHANGED <<file, slots, reader>>

WriterDies ==
    /\ WriterMayDie
    /\ wpc # "dead"
    /\ wpc' = "dead"
    /\ UNCHANGED <<file, write_index, slots, reader>>

----------------------------------------------------------------------------
\* The consumer

\* open_buffer(create=False) raises unless the file is there and has its size.
Attach ==
    /\ rpc = "attach"
    /\ rpc' = IF file = "ready" THEN "poll" ELSE "failed"
    /\ received' = 0
    /\ UNCHANGED <<slots, writer, read_index, data, taken, processed, crashes>>

PollOneShort ==   \* mutant: the newest order is taken for one not yet written
    /\ rpc = "poll"
    /\ read_index + 1 < write_index
    /\ rpc' = "copy"
    /\ UNCHANGED <<slots, writer, read_index, data, received, taken, processed, crashes>>

PollTooEarly ==   \* mutant: > for >=
    /\ rpc = "poll"
    /\ read_index <= write_index
    /\ rpc' = "copy"
    /\ UNCHANGED <<slots, writer, read_index, data, received, taken, processed, crashes>>

\* read finds something new; otherwise the consumer polls again.
Poll ==
    /\ rpc = "poll"
    /\ read_index < write_index
    /\ rpc' = "copy"
    /\ UNCHANGED <<slots, writer, read_index, data, received, taken, processed, crashes>>

\* Nothing for poll_timeout_sec since the start.  After the first order the
\* consumer waits for ever.
GiveUp ==
    /\ rpc = "poll"
    /\ read_index >= write_index
    /\ received = 0
    /\ rpc' = "timedout"
    /\ UNCHANGED <<slots, writer, read_index, data, received, taken, processed, crashes>>

CopyFirstHalf ==
    /\ rpc = "copy"
    /\ data' = [data EXCEPT !.lo = slots[Slot(read_index)].lo]
    /\ rpc' = "half"
    /\ UNCHANGED <<slots, writer, read_index, received, taken, processed, crashes>>

CopySecondHalf ==
    /\ rpc = "half"
    /\ data' = [data EXCEPT !.hi = slots[Slot(read_index)].hi]
    /\ rpc' = "advance"
    /\ UNCHANGED <<slots, writer, read_index, received, taken, processed, crashes>>

AdvanceToNewest ==   \* mutant: the index jumps to the writer's
    /\ rpc = "advance"
    /\ read_index' = write_index
    /\ taken' = Append(taken, data)
    /\ rpc' = "process"
    /\ UNCHANGED <<slots, writer, data, received, processed, crashes>>

\* The slot is given back, read() returns.
Advance ==
    /\ rpc = "advance"
    /\ read_index' = read_index + 1
    /\ taken' = Append(taken, data)
    /\ rpc' = "process"
    /\ UNCHANGED <<slots, writer, data, received, processed, crashes>>

\* unpack_order, add_order, received += 1, and the loop condition.
Process ==
    /\ rpc = "process"
    /\ processed' = Append(processed, data)
    /\ received' = received + 1
    /\ rpc' = IF received + 1 < Wanted THEN "poll" ELSE "done"
    /\ UNCHANGED <<slots, writer, read_index, data, taken, crashes>>

RestartRereads ==   \* mutant: a consumer starts from the first slot
    /\ crashes < MaxCrashes
    /\ crashes' = crashes + 1
    /\ rpc' = "attach"
    /\ read_index' = 0
    /\ UNCHANGED <<slots, writer, data, received, taken, processed>>

\* The consumer ended or is killed, and another one is started on the same file.
Restart ==
    /\ crashes < MaxCrashes
    /\ crashes' = crashes + 1
    /\ rpc' = "attach"
    /\ UNCHANGED <<slots, writer, read_index, data, received, taken, processed>>

WriterNext == CreateFile \/ SizeFile \/ WriteFirstHalf \/ WriteSecondHalf \/ Publish

ReaderNext ==
    Attach \/ Poll \/ GiveUp \/ CopyFirstHalf \/ CopySecondHalf \/ Advance \/ Process

Next == WriterNext \/ WriterDies \/ ReaderNext \/ Restart

Spec == Init /\ [][Next]_vars

\* Both processes are scheduled, and the consumer's timeout passes.
FairSpec == Spec /\ WF_vars(WriterNext) /\ WF_vars(ReaderNext)

----------------------------------------------------------------------------
\* Properties

\* Every field has its type; the reader's index never passes the writer's, and,
\* as its caller sees to, the writer's is never more than a ring ahead.
TypeOK ==
    /\ file \in {"missing", "empty", "ready"}
    /\ write_index \in 0 .. NumOrders
    /\ read_index \in 0 .. write_index
    /\ write_index - read_index <= Slots
    /\ slots \in [0 .. Slots - 1 -> [lo: Half, hi: Half]]
    /\ wpc \in {"create", "size", "begin", "half", "publish", "dead"}
    /\ rpc \in {"attach", "failed", "poll", "timedout", "copy", "half", "advance",
                "process", "done"}
    /\ data \in [lo: Half, hi: Half]
    /\ received \in 0 .. Wanted
    /\ taken \in Seq([lo: Half, hi: Half])
    /\ processed \in Seq([lo: Half, hi: Half])
    /\ crashes \in 0 .. MaxCrashes

\* If the ring is never overrun, read returns the records as they were written:
\* whole, in order, none twice and none skipped, across restarts of the consumer
\* and, when the writer's caller waits, across wrap-around.  No order
\* reaches an engine twice, and none misses it but the one that a killed consumer
\* had taken out of the ring and not yet submitted.
EachOrderOnce ==
    /\ Len(taken) = read_index
    /\ \A k \in 1 .. Len(taken) : taken[k] = Record(k)
    /\ \A i, j \in 1 .. Len(processed) : i < j => processed[i].lo < processed[j].lo
    /\ read_index - Len(processed) <= crashes + (IF rpc = "process" THEN 1 ELSE 0)

Channel == INSTANCE FifoChannel WITH
    Values      <- {Record(i) : i \in Orders},
    ChannelSize <- Slots,
    channel     <- [k \in 1 .. write_index - read_index |-> slots[Slot(read_index + k - 1)]],
    received    <- taken

\* What lies in the slots between the two indexes is a FIFO channel, if the ring is
\* never overrun: a slot is not touched between the publication of its record and
\* the end of its read.  The bound of the channel is the caller's, not write's.
ImplementsChannel == Channel!ChannelSpec

\* A consumer that asks for no more orders than the firehose writes comes to an
\* end, though it waits without a timeout from its first order on: unless one of
\* the two is killed.
ConsumerEnds == <>(rpc \in {"done", "timedout", "failed"} \/ wpc = "dead" \/ crashes > 0)
=============================================================================

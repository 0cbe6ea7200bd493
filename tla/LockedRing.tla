----------------------------- MODULE LockedRing -----------------------------
(***************************************************************************)
(* The file-backed ring of src/src/ipc/ring_buffer.py between a producer   *)
(* process and the RingBufferConsumer of src/src/ipc/consumer.py.          *)
(*                                                                         *)
(* put and get run under an exclusive file lock.  Each reads the header,   *)
(* copies one record and writes the whole header back, so the lock is what *)
(* keeps one side from undoing the other's update.  A process may be       *)
(* killed between any two of these; the kernel then drops its lock and the *)
(* file stays as it is.  A header store is one step.                       *)
(***************************************************************************)
EXTENDS Integers, Sequences, FiniteSets

CONSTANTS
    Capacity,      \* slots of the ring
    Records,       \* the records that producers put
    Invalid,       \* those of them that the engine's add_order refuses
    MaxPuts,       \* bound: records put
    MaxKills       \* bound: times each process is killed and started again

ASSUME LockedRingAssumption ==
    /\ Capacity \in Nat \ {0}
    /\ Records # {} /\ Invalid \subseteq Records
    /\ MaxPuts \in Nat /\ MaxKills \in Nat

Nobody == "nobody"

VARIABLES
    header,            \* [read_idx, write_idx, count] in the file
    slots,             \* slot -> the record it holds
    lock,              \* "nobody", "producer" or "consumer"
    ppc, phdr, prec,   \* the producer: next step, header it read, record it puts
    cpc, chdr, crec,   \* the consumer: next step, header it read, record it got
    processed_count,   \* of the running consumer
    sent, taken,       \* history: records put, records removed by get
    submitted,         \* history: records the engine accepted
    refused,           \* history: number of records the engine refused
    pkills, ckills     \* history: times each process was killed

producer == <<ppc, phdr, prec>>
consumer == <<cpc, chdr, crec, processed_count>>
history  == <<sent, taken, submitted, refused, pkills, ckills>>
vars     == <<header, slots, lock, producer, consumer, history>>

Header == [read_idx: 0 .. Capacity - 1, write_idx: 0 .. Capacity - 1, count: 0 .. Capacity]
Empty  == [read_idx |-> 0, write_idx |-> 0, count |-> 0]

----------------------------------------------------------------------------

Zeros == CHOOSE r \in Records : TRUE     \* what a slot of a fresh file holds: never read

\* The first process to lock the file writes the header; later ones find it.
Init ==
    /\ header = Empty
    /\ slots = [s \in 0 .. Capacity - 1 |-> Zeros]
    /\ lock = Nobody
    /\ ppc = "idle" /\ phdr = Empty /\ prec = Zeros
    /\ cpc = "idle" /\ chdr = Empty /\ crec = Zeros
    /\ processed_count = 0
    /\ sent = <<>> /\ taken = <<>> /\ submitted = <<>> /\ refused = 0
    /\ pkills = 0 /\ ckills = 0

----------------------------------------------------------------------------
\* put

PutBeginUnlocked ==   \* mutant: the header is read before the lock is taken
    /\ ppc = "idle"
    /\ Len(sent) < MaxPuts
    /\ header.count # Capacity
    /\ phdr' = header
    /\ \E r \in Records : prec' = r
    /\ ppc' = "record"
    /\ UNCHANGED <<header, slots, lock, consumer, history>>

\* With the lock: a full ring raises BufferError, and nothing has changed.
PutBegin ==
    /\ ppc = "idle"
    /\ Len(sent) < MaxPuts
    /\ lock = Nobody
    /\ header.count # Capacity
    /\ lock' = "producer"
    /\ phdr' = header
    /\ \E r \in Records : prec' = r
    /\ ppc' = "record"
    /\ UNCHANGED <<header, slots, consumer, history>>

PutRecord ==
    /\ ppc = "record"
    /\ slots' = [slots EXCEPT ![phdr.write_idx] = prec]
    /\ ppc' = "header"
    /\ UNCHANGED <<header, lock, phdr, prec, consumer, history>>

PutHeaderNoCount ==   \* mutant: a put into the last slot is not counted
    /\ ppc = "header"
    /\ header' = [phdr EXCEPT !.write_idx = (@ + 1) % Capacity,
                              !.count = IF @ + 1 < Capacity THEN @ + 1 ELSE @]
    /\ lock' = Nobody
    /\ sent' = Append(sent, prec)
    /\ ppc' = "idle"
    /\ UNCHANGED <<slots, phdr, prec, consumer, taken, submitted, refused, pkills, ckills>>

\* The record counts from here on; the lock is released.
PutHeader ==
    /\ ppc = "header"
    /\ header' = [phdr EXCEPT !.write_idx = (@ + 1) % Capacity, !.count = @ + 1]
    /\ lock' = Nobody
    /\ sent' = Append(sent, prec)
    /\ ppc' = "idle"
    /\ UNCHANGED <<slots, phdr, prec, consumer, taken, submitted, refused, pkills, ckills>>

----------------------------------------------------------------------------
\* RingBufferConsumer.process_one: get, then unpack_order and add_order

\* With the lock: an empty ring gives None, and nothing has changed.
GetBegin ==
    /\ cpc = "idle"
    /\ lock = Nobody
    /\ header.count # 0
    /\ lock' = "consumer"
    /\ chdr' = header
    /\ cpc' = "record"
    /\ UNCHANGED <<header, slots, producer, crec, processed_count, history>>

GetRecord ==
    /\ cpc = "record"
    /\ crec' = slots[chdr.read_idx]
    /\ cpc' = "header"
    /\ UNCHANGED <<header, slots, lock, producer, chdr, processed_count, history>>

GetHeaderNotRemoved ==   \* mutant: the header is not written back
    /\ cpc = "header"
    /\ lock' = Nobody
    /\ taken' = taken
    /\ cpc' = "submit"
    /\ UNCHANGED <<header, slots, producer, chdr, crec, processed_count, sent, submitted,
                   refused, pkills, ckills>>

\* The record is gone from the ring from here on; the lock is released.
GetHeader ==
    /\ cpc = "header"
    /\ header' = [chdr EXCEPT !.read_idx = (@ + 1) % Capacity, !.count = @ - 1]
    /\ lock' = Nobody
    /\ taken' = Append(taken, crec)
    /\ cpc' = "submit"
    /\ UNCHANGED <<slots, producer, chdr, crec, processed_count, sent, submitted,
                   refused, pkills, ckills>>

\* A refused record raises out of process_one and drain: it has left the ring,
\* and is not counted.
Submit ==
    /\ cpc = "submit"
    /\ cpc' = "idle"
    /\ IF crec \in Invalid
       THEN refused' = refused + 1 /\ UNCHANGED <<submitted, processed_count>>
       ELSE /\ submitted' = Append(submitted, crec)
            /\ processed_count' = processed_count + 1
            /\ UNCHANGED refused
    /\ UNCHANGED <<header, slots, lock, producer, chdr, crec, sent, taken, pkills, ckills>>

----------------------------------------------------------------------------
\* Kills

KillProducer ==
    /\ pkills < MaxKills
    /\ ppc # "idle"
    /\ pkills' = pkills + 1
    /\ ppc' = "idle"
    /\ lock' = Nobody
    /\ UNCHANGED <<header, slots, phdr, prec, consumer, sent, taken, submitted, refused, ckills>>

KillConsumer ==
    /\ ckills < MaxKills
    /\ cpc # "idle"
    /\ ckills' = ckills + 1
    /\ cpc' = "idle"
    /\ lock' = IF lock = "consumer" THEN Nobody ELSE lock
    /\ processed_count' = 0
    /\ UNCHANGED <<header, slots, producer, chdr, crec, sent, taken, submitted, refused, pkills>>

Next ==
    \/ PutBegin \/ PutRecord \/ PutHeader
    \/ GetBegin \/ GetRecord \/ GetHeader \/ Submit
    \/ KillProducer \/ KillConsumer

Spec == Init /\ [][Next]_vars

----------------------------------------------------------------------------
\* Properties

\* The records between the two indexes, oldest first.
Contents == [k \in 1 .. header.count |-> slots[(header.read_idx + k - 1) % Capacity]]

\* Every field has its type; the lock is held by the side between its begin and
\* its header store; the two indexes are count slots apart.
TypeOK ==
    /\ header \in Header /\ phdr \in Header /\ chdr \in Header
    /\ header.write_idx = (header.read_idx + header.count) % Capacity
    /\ slots \in [0 .. Capacity - 1 -> Records]
    /\ lock \in {Nobody, "producer", "consumer"}
    /\ ppc \in {"idle", "record", "header"} /\ prec \in Records
    /\ cpc \in {"idle", "record", "header", "submit"} /\ crec \in Records
    /\ ppc # "idle" <=> lock = "producer"
    /\ cpc \in {"record", "header"} <=> lock = "consumer"
    /\ processed_count \in Nat /\ refused \in Nat
    /\ sent \in Seq(Records) /\ taken \in Seq(Records) /\ submitted \in Seq(Records)
    /\ pkills \in 0 .. MaxKills /\ ckills \in 0 .. MaxKills

\* What was put is what was taken and then what is in the ring, in that order:
\* a kill between the record and the header loses or repeats nothing else.
FifoOrder == sent = taken \o Contents

\* A record is submitted at most once, only a kill of the consumer or the engine's
\* refusal keeps one that was taken from being submitted, and processed_count of a
\* consumer that was never killed is its engine's orders.
TakenIsSubmitted ==
    LET lost == Len(taken) - Len(submitted) - refused
               - (IF cpc = "submit" THEN 1 ELSE 0)
    IN  /\ 0 <= lost /\ lost <= ckills
        /\ ckills = 0 => processed_count = Len(submitted)

Channel == INSTANCE FifoChannel WITH
    Values      <- Records,
    ChannelSize <- Capacity,
    channel     <- Contents,
    received    <- taken

\* The ring implements a bounded FIFO channel, also when processes are killed.
ImplementsChannel == Channel!ChannelSpec
=============================================================================

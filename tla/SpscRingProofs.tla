--------------------------- MODULE SpscRingProofs ---------------------------
(***************************************************************************)
(* For every number of slots and of orders that the writer's caller never  *)
(* lets overrun the ring, and for every number of restarts and kills: the  *)
(* order ring, without a lock, delivers whole records in order and once,   *)
(* and is a bounded FIFO channel.  RingNeverOverrun is an assumption of    *)
(* each theorem that needs it, for write does not establish it.            *)
(***************************************************************************)
EXTENDS SpscRing, SequenceTheorems, TLAPS

\* The records between the two indexes are complete.
PublishedIntact ==
    \A k \in Nat : read_index <= k /\ k < write_index => slots[Slot(k)] = Record(k + 1)

\* The writer, between begin and publish, has a free slot that holds as much of
\* the order as it has written.
WriterKnows ==
    wpc \in {"half", "publish"} =>
        /\ write_index < NumOrders /\ write_index - read_index < Slots
        /\ slots[Slot(write_index)].lo = write_index + 1
        /\ wpc = "publish" => slots[Slot(write_index)] = Record(write_index + 1)

\* The reader, inside read, has found an order and holds as much as it has copied.
ReaderKnows ==
    /\ rpc \in {"copy", "half", "advance"} => read_index < write_index
    /\ rpc = "half" => data.lo = read_index + 1
    /\ rpc = "advance" => data = Record(read_index + 1)
    /\ rpc \in {"poll", "copy", "half", "advance", "process"} => received < Wanted

\* What was given to an engine was read before; what was read last is not yet
\* among it while the consumer is about to submit it.
ProcessedBehind ==
    /\ \A i \in 1 .. Len(processed) : processed[i].lo <= read_index
    /\ rpc = "process" =>
        /\ data = Record(read_index)
        /\ \A i \in 1 .. Len(processed) : processed[i].lo < read_index

IInv ==
    /\ TypeOK /\ EachOrderOnce
    /\ PublishedIntact /\ WriterKnows /\ ReaderKnows /\ ProcessedBehind

----------------------------------------------------------------------------
\* Arithmetic of slots

LEMMA Division ==
    ASSUME NEW S \in Nat \ {0}, NEW a \in Nat
    PROVE  /\ a \div S \in Int /\ a % S \in 0 .. S - 1
           /\ a = S * (a \div S) + (a % S)
BY SMT

LEMMA NoMultiple ==
    ASSUME NEW S \in Nat \ {0}, NEW d \in Int
    PROVE  S * d \notin 1 .. S - 1
<1>1. CASE d <= 0
  <2>1. S * d <= 0  BY <1>1, SMT
  <2> QED BY <2>1
<1>2. CASE d >= 1
  <2>1. S * d >= S  BY <1>2, SMT
  <2> QED BY <2>1
<1> QED BY <1>1, <1>2

\* Fewer than a ring apart, two indexes have different slots.
LEMMA SlotsDiffer ==
    ASSUME NEW S \in Nat \ {0}, NEW a \in Nat, NEW b \in Nat, a < b, b - a < S
    PROVE  a % S # b % S
<1> DEFINE p == a \div S
           q == b \div S
<1>1. /\ p \in Int /\ q \in Int /\ a % S \in Int /\ b % S \in Int
      /\ a = S * p + (a % S) /\ b = S * q + (b % S)
  BY Division
<1> HIDE DEF p, q
<1>2. S * (q - p) = S * q - S * p  BY <1>1, SMT
<1>3. S * q \in Int /\ S * p \in Int  BY <1>1, SMT
<1>4. q - p \in Int  BY <1>1
<1>5. S * (q - p) \notin 1 .. S - 1  BY <1>4, NoMultiple
<1>6. b - a \in 1 .. S - 1  OBVIOUS
<1> QED BY <1>1, <1>2, <1>3, <1>5, <1>6

LEMMA SlotInRing ==
    ASSUME NEW k \in Nat
    PROVE  Slot(k) \in 0 .. Slots - 1
BY Division, SpscRingAssumption DEF Slot

----------------------------------------------------------------------------
\* Steps

LEMMA InitIInv == Init => IInv
<1> SUFFICES ASSUME Init PROVE IInv
  OBVIOUS
<1> USE SpscRingAssumption DEF Init, Record, Half
<1>1. <<>> \in Seq([lo: Half, hi: Half]) /\ Len(<<>>) = 0  BY EmptySeq
<1>2. TypeOK  BY <1>1 DEF TypeOK
<1>3. EachOrderOnce  BY <1>1 DEF EachOrderOnce
<1>4. PublishedIntact /\ WriterKnows /\ ReaderKnows /\ ProcessedBehind
  BY <1>1 DEF PublishedIntact, WriterKnows, ReaderKnows, ProcessedBehind
<1> QED BY <1>2, <1>3, <1>4 DEF IInv

\* What every step needs to know of the indexes.
LEMMA Indexes ==
    ASSUME TypeOK
    PROVE  /\ write_index \in Nat /\ read_index \in Nat /\ read_index <= write_index
           /\ write_index <= NumOrders /\ write_index - read_index <= Slots
           /\ NumOrders \in Nat /\ Slots \in Nat \ {0}
BY SpscRingAssumption DEF TypeOK

LEMMA StutterIInv ==
    ASSUME IInv, UNCHANGED vars
    PROVE  IInv'
BY DEF IInv, TypeOK, EachOrderOnce, PublishedIntact, WriterKnows, ReaderKnows,
       ProcessedBehind, vars, writer, reader

LEMMA PrepareStep ==
    ASSUME IInv, CreateFile \/ SizeFile \/ WriterDies
    PROVE  IInv'
<1>1. /\ UNCHANGED <<slots, write_index, reader>> /\ wpc' \in {"size", "begin", "dead"}
      /\ file' \in {"missing", "empty", "ready"}
  BY DEF CreateFile, SizeFile, WriterDies, IInv, TypeOK
<1>2. TypeOK'  BY <1>1 DEF IInv, TypeOK, reader
<1>3. EachOrderOnce'  BY <1>1 DEF IInv, EachOrderOnce, reader
<1>4. PublishedIntact' /\ WriterKnows' /\ ReaderKnows' /\ ProcessedBehind'
  BY <1>1 DEF IInv, PublishedIntact, WriterKnows, ReaderKnows, ProcessedBehind, reader
<1> QED BY <1>2, <1>3, <1>4 DEF IInv

\* Writing into the free slot leaves those between the indexes alone.
LEMMA WriteKeepsPublished ==
    ASSUME IInv, write_index - read_index < Slots, UNCHANGED <<write_index, reader>>,
           \A s \in 0 .. Slots - 1 : s # Slot(write_index) => slots'[s] = slots[s]
    PROVE  PublishedIntact'
<1>1. SUFFICES ASSUME NEW k \in Nat, read_index <= k, k < write_index
               PROVE  slots'[Slot(k)] = Record(k + 1)
  BY DEF PublishedIntact, reader
<1>2. TypeOK /\ PublishedIntact  BY DEF IInv
<1>3. Slot(k) # Slot(write_index)
  <2>1. write_index \in Nat /\ write_index - k < Slots /\ Slots \in Nat \ {0}
    BY <1>1, <1>2, Indexes
  <2> QED BY <2>1, <1>1, SlotsDiffer DEF Slot
<1> QED BY <1>1, <1>2, <1>3, SlotInRing DEF PublishedIntact

LEMMA WriteFirstHalfStep ==
    ASSUME RingNeverOverrun, IInv, WriteFirstHalf
    PROVE  IInv'
<1>1. /\ TypeOK /\ wpc = "begin" /\ write_index < NumOrders
      /\ slots' = [slots EXCEPT ![Slot(write_index)].lo = write_index + 1]
      /\ wpc' = "half" /\ UNCHANGED <<file, write_index, reader>>
  BY DEF IInv, WriteFirstHalf
<1>2. write_index - read_index < Slots
  BY <1>1, Indexes, SpscRingAssumption DEF RingNeverOverrun, WriteFirstHalf
<1>3. Slot(write_index) \in 0 .. Slots - 1 /\ write_index + 1 \in Half
  BY <1>1, Indexes, SlotInRing DEF Half
<1>4. slots' \in [0 .. Slots - 1 -> [lo: Half, hi: Half]]
  BY <1>1, <1>3 DEF TypeOK
<1>5. /\ slots'[Slot(write_index)].lo = write_index + 1
      /\ \A s \in 0 .. Slots - 1 : s # Slot(write_index) => slots'[s] = slots[s]
  BY <1>1, <1>3 DEF TypeOK
<1>6. TypeOK'  BY <1>1, <1>4 DEF TypeOK, reader
<1>7. EachOrderOnce'  BY <1>1 DEF IInv, EachOrderOnce, reader
<1>8. PublishedIntact'  BY <1>1, <1>2, <1>5, WriteKeepsPublished
<1>9. WriterKnows'  BY <1>1, <1>2, <1>5 DEF WriterKnows, reader
<1>10. ReaderKnows' /\ ProcessedBehind'
  BY <1>1 DEF IInv, ReaderKnows, ProcessedBehind, reader
<1> QED BY <1>6, <1>7, <1>8, <1>9, <1>10 DEF IInv

LEMMA WriteSecondHalfStep ==
    ASSUME IInv, WriteSecondHalf
    PROVE  IInv'
<1>1. /\ TypeOK /\ WriterKnows /\ wpc = "half"
      /\ slots' = [slots EXCEPT ![Slot(write_index)].hi = write_index + 1]
      /\ wpc' = "publish" /\ UNCHANGED <<file, write_index, reader>>
  BY DEF IInv, WriteSecondHalf
<1>2. /\ write_index < NumOrders /\ write_index - read_index < Slots
      /\ slots[Slot(write_index)].lo = write_index + 1
  BY <1>1 DEF WriterKnows
<1>3. Slot(write_index) \in 0 .. Slots - 1 /\ write_index + 1 \in Half
  BY <1>1, <1>2, Indexes, SlotInRing DEF Half
<1>4. slots' \in [0 .. Slots - 1 -> [lo: Half, hi: Half]]
  BY <1>1, <1>3 DEF TypeOK
<1>5. /\ slots'[Slot(write_index)] = Record(write_index + 1)
      /\ \A s \in 0 .. Slots - 1 : s # Slot(write_index) => slots'[s] = slots[s]
  BY <1>1, <1>2, <1>3 DEF TypeOK, Record
<1>6. TypeOK'  BY <1>1, <1>4 DEF TypeOK, reader
<1>7. EachOrderOnce'  BY <1>1 DEF IInv, EachOrderOnce, reader
<1>8. PublishedIntact'  BY <1>1, <1>2, <1>5, WriteKeepsPublished
<1>9. WriterKnows'  BY <1>1, <1>2, <1>5 DEF WriterKnows, Record, reader
<1>10. ReaderKnows' /\ ProcessedBehind'
  BY <1>1 DEF IInv, ReaderKnows, ProcessedBehind, reader
<1> QED BY <1>6, <1>7, <1>8, <1>9, <1>10 DEF IInv

LEMMA PublishStep ==
    ASSUME IInv, Publish
    PROVE  IInv'
<1>1. /\ TypeOK /\ WriterKnows /\ PublishedIntact /\ wpc = "publish"
      /\ write_index' = write_index + 1 /\ wpc' = "begin" /\ UNCHANGED <<file, slots, reader>>
  BY DEF IInv, Publish
<1>2. /\ write_index < NumOrders /\ write_index - read_index < Slots
      /\ slots[Slot(write_index)] = Record(write_index + 1)
  BY <1>1 DEF WriterKnows
<1>3. TypeOK'
  <2>1. /\ write_index' \in 0 .. NumOrders /\ read_index \in 0 .. write_index'
        /\ write_index' - read_index <= Slots
    BY <1>1, <1>2, Indexes
  <2> QED BY <1>1, <2>1 DEF TypeOK, reader
<1>4. EachOrderOnce'  BY <1>1 DEF IInv, EachOrderOnce, reader
<1>5. PublishedIntact'
  <2>1. SUFFICES ASSUME NEW k \in Nat, read_index <= k, k < write_index + 1
                 PROVE  slots[Slot(k)] = Record(k + 1)
    BY <1>1 DEF PublishedIntact, reader, Slot
  <2>2. CASE k < write_index  BY <2>1, <2>2, <1>1 DEF PublishedIntact
  <2>3. CASE k = write_index  BY <2>3, <1>2
  <2> QED BY <2>1, <2>2, <2>3, <1>1, Indexes
<1>6. WriterKnows'  BY <1>1 DEF WriterKnows
<1>7. ReaderKnows' /\ ProcessedBehind'
  <2>1. read_index < write_index => read_index < write_index'  BY <1>1, Indexes
  <2> QED BY <1>1, <2>1 DEF IInv, ReaderKnows, ProcessedBehind, reader
<1> QED BY <1>3, <1>4, <1>5, <1>6, <1>7 DEF IInv

\* The reader's steps that only look, or end a process.
LEMMA LookStep ==
    ASSUME IInv, Attach \/ Poll \/ GiveUp
    PROVE  IInv'
<1>1. /\ TypeOK /\ UNCHANGED <<slots, writer, read_index, data, taken, processed, crashes>>
      /\ rpc # "process" /\ rpc' \in {"poll", "failed", "copy", "timedout"}
      /\ rpc' = "copy" => read_index < write_index /\ rpc = "poll"
      /\ received' \in {0, received}
      /\ rpc' = "poll" => received' = 0
      /\ rpc' = "copy" => received' = received
  BY DEF IInv, Attach, Poll, GiveUp
<1>2. TypeOK'
  <2>1. received' \in 0 .. Wanted  BY <1>1, SpscRingAssumption DEF TypeOK
  <2> QED BY <1>1, <2>1 DEF TypeOK, writer
<1>3. EachOrderOnce'
  BY <1>1 DEF IInv, EachOrderOnce
<1>4. PublishedIntact' /\ WriterKnows'
  BY <1>1 DEF IInv, PublishedIntact, WriterKnows, writer
<1>5. ReaderKnows' /\ ProcessedBehind'
  BY <1>1, SpscRingAssumption DEF IInv, ReaderKnows, ProcessedBehind, writer
<1> QED BY <1>2, <1>3, <1>4, <1>5 DEF IInv

LEMMA RestartStep ==
    ASSUME IInv, Restart
    PROVE  IInv'
<1>1. /\ TypeOK /\ crashes < MaxCrashes /\ crashes' = crashes + 1 /\ rpc' = "attach"
      /\ UNCHANGED <<slots, writer, read_index, data, received, taken, processed>>
  BY DEF IInv, Restart
<1>2. TypeOK'
  <2>1. crashes' \in 0 .. MaxCrashes  BY <1>1, SpscRingAssumption DEF TypeOK
  <2> QED BY <1>1, <2>1 DEF TypeOK, writer
<1>3. EachOrderOnce'
  <2>1. /\ crashes \in Nat /\ read_index \in Nat /\ Len(processed) \in Nat
    BY <1>1, Indexes, LenProperties, SpscRingAssumption DEF TypeOK
  <2>2. read_index - Len(processed) <= crashes + (IF rpc = "process" THEN 1 ELSE 0)
    BY DEF IInv, EachOrderOnce
  <2>3. read_index - Len(processed) <= crashes' + (IF rpc' = "process" THEN 1 ELSE 0)
    BY <1>1, <2>1, <2>2
  <2> QED BY <1>1, <2>3 DEF IInv, EachOrderOnce
<1>4. PublishedIntact' /\ WriterKnows'
  BY <1>1 DEF IInv, PublishedIntact, WriterKnows, writer
<1>5. ReaderKnows' /\ ProcessedBehind'
  BY <1>1 DEF IInv, ReaderKnows, ProcessedBehind, writer
<1> QED BY <1>2, <1>3, <1>4, <1>5 DEF IInv

\* The record being copied is a published one.
LEMMA NextRecord ==
    ASSUME IInv, rpc \in {"copy", "half", "advance"}
    PROVE  /\ read_index < write_index
           /\ slots[Slot(read_index)] = Record(read_index + 1)
           /\ read_index + 1 \in Half
<1>1. /\ TypeOK /\ read_index < write_index /\ PublishedIntact
  BY DEF IInv, ReaderKnows
<1> QED BY <1>1, Indexes DEF PublishedIntact, Half

LEMMA CopyStep ==
    ASSUME IInv, CopyFirstHalf \/ CopySecondHalf
    PROVE  IInv'
<1>1. /\ TypeOK /\ UNCHANGED <<slots, writer, read_index, received, taken, processed, crashes>>
      /\ rpc \in {"copy", "half"} /\ rpc' \in {"half", "advance"}
  BY DEF IInv, CopyFirstHalf, CopySecondHalf
<1>2. /\ read_index < write_index /\ read_index + 1 \in Half
      /\ slots[Slot(read_index)] = Record(read_index + 1)
  BY <1>1, NextRecord
<1>3. /\ data' \in [lo: Half, hi: Half] /\ data'.lo = read_index + 1
      /\ rpc' = "advance" => data' = Record(read_index + 1)
  <2>1. CASE CopyFirstHalf
    BY <2>1, <1>1, <1>2 DEF CopyFirstHalf, TypeOK, Record
  <2>2. CASE CopySecondHalf
    <3>1. data.lo = read_index + 1  BY <2>2 DEF CopySecondHalf, IInv, ReaderKnows
    <3> QED BY <2>2, <3>1, <1>1, <1>2 DEF CopySecondHalf, TypeOK, Record
  <2> QED BY <2>1, <2>2
<1>4. TypeOK'  BY <1>1, <1>3 DEF TypeOK, writer
<1>5. EachOrderOnce'  BY <1>1 DEF IInv, EachOrderOnce
<1>6. PublishedIntact' /\ WriterKnows'
  BY <1>1 DEF IInv, PublishedIntact, WriterKnows, writer
<1>7. ReaderKnows' /\ ProcessedBehind'
  BY <1>1, <1>2, <1>3 DEF IInv, ReaderKnows, ProcessedBehind, writer
<1> QED BY <1>4, <1>5, <1>6, <1>7 DEF IInv

LEMMA AdvanceStep ==
    ASSUME IInv, Advance
    PROVE  IInv'
<1>1. /\ TypeOK /\ EachOrderOnce /\ rpc = "advance" /\ rpc' = "process"
      /\ read_index' = read_index + 1 /\ taken' = Append(taken, data)
      /\ UNCHANGED <<slots, writer, data, received, processed, crashes>>
  BY DEF IInv, Advance
<1>2. read_index < write_index /\ data = Record(read_index + 1)
  BY <1>1 DEF IInv, ReaderKnows
<1>3. /\ read_index \in Nat /\ write_index \in Nat /\ write_index <= NumOrders
      /\ write_index - read_index <= Slots /\ Slots \in Nat /\ NumOrders \in Nat
      /\ taken \in Seq([lo: Half, hi: Half]) /\ data \in [lo: Half, hi: Half]
      /\ Len(processed) \in Nat /\ crashes \in Nat
  BY <1>1, Indexes, LenProperties, SpscRingAssumption DEF TypeOK
<1>4. TypeOK'
  <2>1. read_index' \in 0 .. write_index /\ write_index - read_index' <= Slots
    BY <1>1, <1>2, <1>3
  <2>2. taken' \in Seq([lo: Half, hi: Half])  BY <1>1, <1>3, AppendProperties
  <2> QED BY <1>1, <2>1, <2>2 DEF TypeOK, writer
<1>5. EachOrderOnce'
  <2>1. /\ Len(taken') = read_index' /\ \A k \in 1 .. Len(taken') : taken'[k] = Record(k)
    <3>1. /\ Len(taken') = Len(taken) + 1 /\ taken'[Len(taken) + 1] = data
          /\ \A k \in 1 .. Len(taken) : taken'[k] = taken[k]
      BY <1>1, <1>3, AppendProperties
    <3>2. Len(taken) = read_index /\ \A k \in 1 .. Len(taken) : taken[k] = Record(k)
      BY <1>1 DEF EachOrderOnce
    <3>3. \A k \in 1 .. read_index + 1 : k \in 1 .. read_index \/ k = read_index + 1
      BY <1>3
    <3> QED BY <1>1, <1>2, <3>1, <3>2, <3>3
  <2>2. read_index' - Len(processed) <= crashes + (IF rpc' = "process" THEN 1 ELSE 0)
    <3>1. read_index - Len(processed) <= crashes  BY <1>1, <1>3 DEF EachOrderOnce
    <3> QED BY <1>1, <1>3, <3>1
  <2> QED BY <1>1, <2>1, <2>2 DEF EachOrderOnce
<1>6. PublishedIntact'
  <2>1. \A k \in Nat : read_index + 1 <= k => read_index <= k  BY <1>3
  <2> QED BY <1>1, <2>1 DEF IInv, PublishedIntact, Slot, writer
<1>7. WriterKnows'
  <2>1. write_index - read_index < Slots => write_index - (read_index + 1) < Slots
    BY <1>3
  <2> QED BY <1>1, <2>1 DEF IInv, WriterKnows, Slot, writer
<1>8. ReaderKnows'  BY <1>1 DEF IInv, ReaderKnows
<1>9. ProcessedBehind'
  <2>1. ASSUME NEW i \in 1 .. Len(processed)
        PROVE  processed[i].lo <= read_index + 1 /\ processed[i].lo < read_index + 1
    <3>1. processed[i] \in [lo: Half, hi: Half]  BY <1>1, ElementOfSeq DEF TypeOK
    <3>2. processed[i].lo <= read_index  BY DEF IInv, ProcessedBehind
    <3> QED BY <1>3, <3>1, <3>2 DEF Half
  <2> QED BY <1>1, <1>2, <2>1 DEF ProcessedBehind
<1> QED BY <1>4, <1>5, <1>6, <1>7, <1>8, <1>9 DEF IInv

LEMMA ProcessStep ==
    ASSUME IInv, Process
    PROVE  IInv'
<1>1. /\ TypeOK /\ EachOrderOnce /\ rpc = "process" /\ received' = received + 1
      /\ processed' = Append(processed, data)
      /\ rpc' = IF received + 1 < Wanted THEN "poll" ELSE "done"
      /\ UNCHANGED <<slots, writer, read_index, data, taken, crashes>>
  BY DEF IInv, Process
<1>2. /\ data = Record(read_index) /\ received < Wanted
      /\ \A i \in 1 .. Len(processed) : processed[i].lo < read_index
  BY <1>1 DEF IInv, ProcessedBehind, ReaderKnows
<1>3. /\ read_index \in Nat /\ received \in Nat /\ Wanted \in Nat /\ crashes \in Nat
      /\ processed \in Seq([lo: Half, hi: Half]) /\ data \in [lo: Half, hi: Half]
      /\ Len(processed) \in Nat
  BY <1>1, Indexes, LenProperties, SpscRingAssumption DEF TypeOK
<1>4. /\ Len(processed') = Len(processed) + 1 /\ processed' \in Seq([lo: Half, hi: Half])
      /\ processed'[Len(processed) + 1] = data
      /\ \A i \in 1 .. Len(processed) : processed'[i] = processed[i]
  BY <1>1, <1>3, AppendProperties
<1>5. /\ \A i \in 1 .. Len(processed') : i \in 1 .. Len(processed) \/ i = Len(processed) + 1
      /\ data.lo = read_index
  BY <1>2, <1>3, <1>4 DEF Record
<1>6. TypeOK'
  <2>1. received' \in 0 .. Wanted  BY <1>1, <1>2, <1>3
  <2> QED BY <1>1, <1>4, <2>1 DEF TypeOK, writer
<1>7. EachOrderOnce'
  <2>1. ASSUME NEW i \in 1 .. Len(processed'), NEW j \in 1 .. Len(processed'), i < j
        PROVE  processed'[i].lo < processed'[j].lo
    <3>1. i \in 1 .. Len(processed)  BY <2>1, <1>3, <1>4
    <3>2. CASE j \in 1 .. Len(processed)
      BY <2>1, <3>1, <3>2, <1>1, <1>4 DEF EachOrderOnce
    <3>3. CASE j = Len(processed) + 1
      BY <3>1, <3>3, <1>2, <1>4, <1>5
    <3> QED BY <1>5, <3>2, <3>3
  <2>2. read_index - Len(processed') <= crashes + (IF rpc' = "process" THEN 1 ELSE 0)
    <3>1. read_index - Len(processed) <= crashes + 1  BY <1>1 DEF EachOrderOnce
    <3>2. rpc' # "process"  BY <1>1
    <3> QED BY <1>3, <1>4, <3>1, <3>2
  <2> QED BY <1>1, <2>1, <2>2 DEF EachOrderOnce
<1>8. PublishedIntact' /\ WriterKnows'
  BY <1>1 DEF IInv, PublishedIntact, WriterKnows, writer
<1>9. ReaderKnows'  BY <1>1 DEF IInv, ReaderKnows
<1>10. ProcessedBehind'
  <2>1. ASSUME NEW i \in 1 .. Len(processed')
        PROVE  processed'[i].lo <= read_index
    <3>1. CASE i \in 1 .. Len(processed)
      <4>1. processed'[i] = processed[i] /\ processed[i].lo <= read_index
        BY <3>1, <1>4 DEF IInv, ProcessedBehind
      <4> QED BY <4>1
    <3>2. CASE i = Len(processed) + 1
      BY <3>2, <1>3, <1>4, <1>5
    <3> QED BY <3>1, <3>2, <1>5
  <2>2. rpc' # "process"  BY <1>1
  <2> QED BY <1>1, <2>1, <2>2 DEF ProcessedBehind
<1> QED BY <1>6, <1>7, <1>8, <1>9, <1>10 DEF IInv

LEMMA Inductive ==
    ASSUME RingNeverOverrun
    PROVE  IInv /\ [Next]_vars => IInv'
BY StutterIInv, PrepareStep, WriteFirstHalfStep, WriteSecondHalfStep, PublishStep,
   LookStep, RestartStep, CopyStep, AdvanceStep, ProcessStep
   DEF Next, WriterNext, ReaderNext

----------------------------------------------------------------------------
\* Theorems

\* The inductive invariant holds in every reachable state, if the ring is never
\* overrun.
THEOREM Invariance ==
    ASSUME RingNeverOverrun
    PROVE  Spec => []IInv
<1>1. IInv /\ [Next]_vars => IInv'  BY Inductive
<1> QED BY <1>1, InitIInv, PTL DEF Spec

\* Type correctness, if the ring is never overrun: read_index never passes
\* write_index, which is never more than a ring ahead of it.
THEOREM TypeCorrect ==
    ASSUME RingNeverOverrun
    PROVE  Spec => []TypeOK
<1>1. IInv => TypeOK  BY DEF IInv
<1>2. Spec => []IInv  BY Invariance
<1> QED BY <1>1, <1>2, PTL

\* If the writer's caller never overruns the ring, read() returns whole records, in
\* order, none twice and none skipped, and restarts of the consumer cost an engine
\* at most the order in its hands.
THEOREM Once ==
    ASSUME RingNeverOverrun
    PROVE  Spec => []EachOrderOnce
<1>1. IInv => EachOrderOnce  BY DEF IInv
<1>2. Spec => []IInv  BY Invariance
<1> QED BY <1>1, <1>2, PTL

\* The n records that follow the first r.
Run(r, n) == [k \in 1 .. n |-> Record(r + k)]

LEMMA RunIsSequence ==
    ASSUME NEW r \in Nat, NEW n \in Nat
    PROVE  /\ Run(r, n) \in Seq([lo: Nat, hi: Nat]) /\ Len(Run(r, n)) = n
           /\ \A k \in 1 .. n : Run(r, n)[k] = Record(r + k)
<1> DEFINE S == [lo: Nat, hi: Nat]
           s == Run(r, n)
<1>1. s \in [1 .. n -> S] /\ \A k \in 1 .. n : s[k] = Record(r + k)
  BY DEF Run, Record
<1> HIDE DEF S, s
<1>2. s \in Seq(S) /\ Len(s) = n  BY <1>1
<1> QED BY <1>1, <1>2 DEF S, s

LEMMA RunGrows ==
    ASSUME NEW r \in Nat, NEW n \in Nat
    PROVE  Append(Run(r, n), Record(r + (n + 1))) = Run(r, n + 1)
<1> DEFINE S == [lo: Nat, hi: Nat]
           e == Record(r + (n + 1))
           s == Run(r, n)
           t == Run(r, n + 1)
<1>1. /\ s \in Seq(S) /\ Len(s) = n /\ \A k \in 1 .. n : s[k] = Record(r + k)
  BY RunIsSequence
<1>2. n + 1 \in Nat /\ e \in S  BY DEF Record
<1>3. t \in Seq(S) /\ Len(t) = n + 1 /\ \A k \in 1 .. n + 1 : t[k] = Record(r + k)
  BY <1>2, RunIsSequence
<1> HIDE DEF s, t, e
<1>4. /\ Append(s, e) \in Seq(S) /\ Len(Append(s, e)) = n + 1
      /\ \A k \in 1 .. n : Append(s, e)[k] = s[k]
      /\ Append(s, e)[n + 1] = e
  BY <1>1, <1>2, AppendProperties
<1>5. \A k \in 1 .. n + 1 : Append(s, e)[k] = t[k]
  <2>1. \A k \in 1 .. n + 1 : k \in 1 .. n \/ k = n + 1  OBVIOUS
  <2> QED BY <2>1, <1>1, <1>3, <1>4 DEF e
<1>6. Append(s, e) = t  BY <1>3, <1>4, <1>5, SeqEqual
<1> QED BY <1>6 DEF s, t, e

LEMMA RunShrinks ==
    ASSUME NEW r \in Nat, NEW n \in Nat \ {0}
    PROVE  /\ Run(r, n) # <<>> /\ Head(Run(r, n)) = Record(r + 1)
           /\ Tail(Run(r, n)) = Run(r + 1, n - 1)
<1> DEFINE S == [lo: Nat, hi: Nat]
           s == Run(r, n)
           t == Run(r + 1, n - 1)
<1>1. s \in Seq(S) /\ Len(s) = n /\ \A k \in 1 .. n : s[k] = Record(r + k)
  BY RunIsSequence
<1>2. t \in Seq(S) /\ Len(t) = n - 1 /\ \A k \in 1 .. n - 1 : t[k] = Record((r + 1) + k)
  <2>1. r + 1 \in Nat /\ n - 1 \in Nat  OBVIOUS
  <2> QED BY <2>1, RunIsSequence
<1> HIDE DEF s, t
<1>3. s # <<>>  BY <1>1, EmptySeq
<1>4. Head(s) = Record(r + 1)
  <2>1. Head(s) = s[1]  BY <1>1, <1>3
  <2>2. 1 \in 1 .. n  OBVIOUS
  <2> QED BY <2>1, <2>2, <1>1
<1>5. /\ Tail(s) \in Seq(S) /\ Len(Tail(s)) = n - 1
      /\ \A k \in 1 .. n - 1 : Tail(s)[k] = s[k + 1]
  BY <1>1, <1>3, HeadTailProperties
<1>6. \A k \in 1 .. n - 1 : Tail(s)[k] = t[k]
  <2>1. \A k \in 1 .. n - 1 : k + 1 \in 1 .. n /\ r + (k + 1) = (r + 1) + k  OBVIOUS
  <2> QED BY <2>1, <1>1, <1>2, <1>5
<1>7. Tail(s) = t  BY <1>2, <1>5, <1>6, SeqEqual
<1> QED BY <1>3, <1>4, <1>7 DEF s, t

\* The channel, read off the slots and read off the indexes.
Contents == [k \in 1 .. write_index - read_index |-> slots[Slot(read_index + k - 1)]]

LEMMA ContentsAreRun ==
    ASSUME IInv
    PROVE  Contents = Run(read_index, write_index - read_index)
<1>1. TypeOK /\ PublishedIntact  BY DEF IInv
<1>2. ASSUME NEW k \in 1 .. write_index - read_index
      PROVE  slots[Slot(read_index + k - 1)] = Record(read_index + k)
  <2>1. /\ read_index + k - 1 \in Nat /\ read_index <= read_index + k - 1
        /\ read_index + k - 1 < write_index /\ read_index + k - 1 + 1 = read_index + k
    BY <1>1, Indexes
  <2> QED BY <1>1, <2>1 DEF PublishedIntact
<1> QED BY <1>2 DEF Contents, Run

\* A ring that is never overrun implements the bounded FIFO channel without a lock:
\* publishing sends, advancing receives, and no other step, kill or restart shows.
THEOREM Implements ==
    ASSUME RingNeverOverrun
    PROVE  Spec => ImplementsChannel
<1>1. Init => Channel!ChannelInit
  <2> SUFFICES ASSUME Init PROVE Channel!ChannelInit
    OBVIOUS
  <2>1. Contents = <<>>  BY DEF Init, Contents
  <2> QED BY <2>1 DEF Init, Channel!ChannelInit, Contents
<1>2. IInv /\ IInv' /\ [Next]_vars => [Channel!ChannelNext]_(Channel!channelVars)
  <2> SUFFICES ASSUME IInv, IInv', [Next]_vars
               PROVE  Channel!ChannelNext \/ (Contents' = Contents /\ taken' = taken)
    BY DEF Channel!channelVars, Contents
  <2>1. /\ Contents = Run(read_index, write_index - read_index)
        /\ Contents' = Run(read_index', write_index' - read_index')
    <3>1. IInv => Contents = Run(read_index, write_index - read_index)
      BY ContentsAreRun
    <3>2. (IInv => Contents = Run(read_index, write_index - read_index))'
      BY ContentsAreRun, PTL
    <3> QED BY <3>1, <3>2 DEF Run
  <2>2. TypeOK /\ WriterKnows /\ ReaderKnows  BY DEF IInv
  <2>3. CASE Publish
    <3> DEFINE n == write_index - read_index
    <3>1. write_index < NumOrders /\ n < Slots /\ wpc = "publish"
      BY <2>2, <2>3 DEF Publish, WriterKnows
    <3>2. /\ n \in Nat /\ read_index \in Nat /\ write_index + 1 \in Orders
          /\ write_index' - read_index' = n + 1 /\ read_index' = read_index
          /\ write_index + 1 = read_index + (n + 1) /\ taken' = taken
      BY <2>2, <2>3, <3>1, Indexes DEF Publish, reader, Orders
    <3>3. Contents' = Append(Contents, Record(write_index + 1))
      BY <2>1, <3>2, RunGrows
    <3>4. Len(Contents) < Slots
      BY <2>1, <3>1, <3>2, RunIsSequence
    <3>5. Channel!Send  BY <3>2, <3>3, <3>4 DEF Channel!Send, Contents
    <3> QED BY <3>5 DEF Channel!ChannelNext
  <2>4. CASE Advance
    <3> DEFINE n == write_index - read_index
    <3>1. read_index < write_index /\ data = Record(read_index + 1)
      BY <2>2, <2>4 DEF Advance, ReaderKnows
    <3>2. /\ n \in Nat \ {0} /\ read_index \in Nat
          /\ read_index' = read_index + 1 /\ write_index' - read_index' = n - 1
          /\ taken' = Append(taken, data)
      BY <2>2, <2>4, <3>1, Indexes DEF Advance, writer
    <3>3. Contents # <<>> /\ Head(Contents) = data /\ Contents' = Tail(Contents)
      BY <2>1, <3>1, <3>2, RunShrinks
    <3>4. Channel!Receive  BY <3>2, <3>3 DEF Channel!Receive, Contents
    <3> QED BY <3>4 DEF Channel!ChannelNext
  <2>5. ASSUME ~ Publish, ~ Advance
        PROVE  UNCHANGED <<write_index, read_index, taken>>
    BY <2>5 DEF Next, WriterNext, ReaderNext, CreateFile, SizeFile, WriteFirstHalf,
       WriteSecondHalf, WriterDies, Attach, Poll, GiveUp, CopyFirstHalf, CopySecondHalf,
       Process, Restart, vars, writer, reader
  <2> QED BY <2>1, <2>3, <2>4, <2>5
<1>3. Spec => []IInv  BY Invariance
<1> QED BY <1>1, <1>2, <1>3, PTL DEF Spec, ImplementsChannel, Channel!ChannelSpec
============================================================================

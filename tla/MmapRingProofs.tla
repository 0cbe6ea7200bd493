--------------------------- MODULE MmapRingProofs ---------------------------
(***************************************************************************)
(* For every capacity, batch size, number of writes and of kills: the      *)
(* counters of the mmap ring stay in range; no record disappears without a *)
(* trace; and where one lock covers both sides, or the writer never drops, *)
(* every record returned is whole.                                         *)
(***************************************************************************)
EXTENDS MmapRing, SequenceTheorems, FunctionTheorems, FiniteSetTheorems,
        TLAPS

\* The writer never drops a record.
NeverOverwrites == TRUE \notin Overwrites

\* The uses whose records stay whole: one lock for both sides, or no dropping.
SafeUse == OneObject \/ NeverOverwrites

Writing == wpc # "idle"
Reading == rpc # "idle"
Copying == rpc \in {"copy", "half"}

\* The lock of one object keeps the two calls apart.
LockOK == OneObject => (lock <=> Writing \/ Reading) /\ ~ (Writing /\ Reading)

\* What write knows: nobody else moves the head, and the counters it will store
\* stay below the new head.
WriterOK ==
    Writing =>
        /\ whead = head_seq /\ head_seq < MaxWrites
        /\ wtail <= whead /\ wdropped <= whead + 1
        /\ wpc = "half" => slots[Slot(whead)].lo = whead + 1
        /\ wpc = "header" => slots[Slot(whead)] = Record(whead)

\* The records that read has copied, and the sequence of the first of them.
Copied == IF rpc = "half" THEN Len(records) - 1 ELSE Len(records)
First  == curr_seq - Copied

ReaderOK ==
    Reading =>
        /\ rhead <= head_seq
        /\ curr_seq + left <= rhead
        /\ Copied \in Nat /\ Copied + left <= MaxBatch
        /\ rpc = "half" => left > 0
        /\ First \in Nat
        /\ Copied = 0 => left > 0
        /\ \A k \in 1 .. Len(records) : records[k].seq = First + k - 1
        /\ Copying => local_read_seq <= First
        /\ rpc = "return" => left = 0 /\ curr_seq = local_read_seq

\* No dropping: the shared tail may go back to what a writer has read, but not past
\* it, nor beyond the reader's position, and a read returns what follows that.
QuietOK ==
    NeverOverwrites =>
        /\ tail_seq <= local_read_seq /\ head_seq - tail_seq <= Capacity
        /\ Writing => wtail <= tail_seq /\ whead - wtail < Capacity
        /\ Copying => tail_seq <= rtail /\ rtail <= local_read_seq /\ First = local_read_seq

\* One object: the tail is where the reader is, or a ring behind the head.
Dropping == IF head_seq - tail_seq >= Capacity THEN 1 ELSE 0

LockedOK ==
    OneObject =>
        /\ tail_seq = IF head_seq - local_read_seq > Capacity
                      THEN head_seq - Capacity ELSE local_read_seq
        /\ Writing => wtail = tail_seq + Dropping /\ wdropped = dropped_count + Dropping
        /\ Reading => rhead = head_seq
        /\ Copying => rtail = tail_seq /\ First = tail_seq

\* What was returned lies before the records in hand, each record once and in order;
\* under one lock the records behind the tail were returned, dropped, or are in hand.
InOrder ==
    \A i, j \in 1 .. Len(delivered) : i < j => delivered[i].seq < delivered[j].seq

Before(n) == \A k \in 1 .. Len(delivered) : delivered[k].seq < n

Behind == IF rpc = "return" THEN First ELSE local_read_seq
InHand == IF rpc = "return" THEN Len(records) ELSE 0

HistoryOK ==
    /\ OneObject => attaches = 0
    /\ attaches = 0 => InOrder /\ Before(Behind)
    /\ OneObject => tail_seq = Len(delivered) + InHand + dropped_count
    /\ NeverOverwrites => Cardinality(Unreturned(local_read_seq) \ Held) <= abandoned

\* The oldest record that a reader may still be returned.
Oldest == IF Writing THEN wtail ELSE tail_seq

Intact(s) == \A k \in 1 .. Len(s) : s[k].data = Record(s[k].seq)

\* The records from the oldest to the head are whole, and so is what was copied.
DataOK ==
    SafeUse =>
        /\ \A s \in Oldest .. head_seq - 1 : slots[Slot(s)] = Record(s)
        /\ \A k \in 1 .. Copied : Reading => records[k].data = Record(records[k].seq)
        /\ rpc = "half" => records[Len(records)].data.lo = curr_seq + 1
        /\ IntactRecords

IInv == TypeOK /\ LockOK /\ WriterOK /\ ReaderOK /\ QuietOK /\ LockedOK /\ HistoryOK /\ DataOK

\* Do all the uses keep records whole?
SafeUses == \A u \in Uses : u.one_object \/ TRUE \notin u.overwrites

----------------------------------------------------------------------------
\* Arithmetic

LEMMA Division ==
    ASSUME NEW S \in Nat \ {0}, NEW a \in Nat
    PROVE  /\ a \div S \in Int /\ a % S \in 0 .. S - 1
           /\ a = S * (a \div S) + (a % S)
BY SMT

LEMMA NotBetweenMultiples ==
    ASSUME NEW S \in Nat \ {0}, NEW d \in Int
    PROVE  S * d \notin 1 .. S - 1
<1>1. CASE d <= 0
  <2>1. S * d <= 0  BY <1>1, SMT
  <2> QED BY <2>1
<1>2. CASE d >= 1
  <2>1. S * d >= S  BY <1>2, SMT
  <2> QED BY <2>1
<1> QED BY <1>1, <1>2

\* Sequence numbers less than a ring apart have different slots.
LEMMA SlotsDiffer ==
    ASSUME NEW a \in Nat, NEW b \in Nat, a < b, b - a < Capacity
    PROVE  Slot(a) # Slot(b)
<1> DEFINE p == a \div Capacity
           q == b \div Capacity
<1>1. Capacity \in Nat \ {0}  BY MmapRingAssumption
<1>2. /\ p \in Int /\ q \in Int /\ a % Capacity \in Int /\ b % Capacity \in Int
      /\ a = Capacity * p + (a % Capacity) /\ b = Capacity * q + (b % Capacity)
  BY <1>1, Division
<1> HIDE DEF p, q
<1>3. Capacity * (q - p) = Capacity * q - Capacity * p  BY <1>1, <1>2, SMT
<1>4. Capacity * q \in Int /\ Capacity * p \in Int  BY <1>1, <1>2, SMT
<1>5. q - p \in Int  BY <1>2
<1>6. Capacity * (q - p) \notin 1 .. Capacity - 1  BY <1>1, <1>5, NotBetweenMultiples
<1>7. b - a \in 1 .. Capacity - 1  BY <1>1
<1> QED BY <1>1, <1>2, <1>3, <1>4, <1>6, <1>7 DEF Slot

LEMMA SlotInRing ==
    ASSUME NEW s \in Nat
    PROVE  Slot(s) \in 0 .. Capacity - 1
BY Division, MmapRingAssumption DEF Slot

\* The fields that are numbers.
Nums ==
    /\ Capacity \in Nat /\ Capacity >= 1 /\ MaxWrites \in Nat
    /\ MaxBatch \in Nat /\ MaxBatch >= 1 /\ MaxAttaches \in Nat
    /\ head_seq \in Nat /\ head_seq <= MaxWrites
    /\ tail_seq \in Nat /\ tail_seq <= head_seq
    /\ local_read_seq \in Nat /\ local_read_seq <= head_seq
    /\ dropped_count \in Nat /\ dropped_count <= head_seq
    /\ whead \in Nat /\ wtail \in Nat /\ wdropped \in Nat
    /\ rhead \in Nat /\ rtail \in Nat /\ curr_seq \in Nat /\ left \in Nat
    /\ whead <= MaxWrites /\ wtail <= MaxWrites /\ wdropped <= MaxWrites
    /\ rhead <= MaxWrites /\ rtail <= MaxWrites /\ curr_seq <= MaxWrites
    /\ Len(records) \in Nat /\ Len(delivered) \in Nat
    /\ attaches \in Nat /\ abandoned \in Nat

LEMMA Numbers ==
    ASSUME TypeOK
    PROVE  Nums
<1>1. Len(records) \in Nat /\ Len(delivered) \in Nat
  BY LenProperties DEF TypeOK
<1>2. left \in Nat
  BY MmapRingAssumption DEF TypeOK, Lesser
<1> QED BY <1>1, <1>2, MmapRingAssumption DEF TypeOK, Nums

Cell == [lo: Half, hi: Half]
Copy == [seq: Half, data: [lo: Half, hi: Half]]

LEMMA Sequences ==
    ASSUME TypeOK
    PROVE  /\ records \in Seq(Copy) /\ delivered \in Seq(Copy)
           /\ slots \in [0 .. Capacity - 1 -> Cell]
BY DEF TypeOK, Copy, Cell

\* What a step that moves no history leaves true of it.
LEMMA KeptIntact ==
    ASSUME UNCHANGED delivered
    PROVE  IntactRecords' <=> IntactRecords
BY DEF IntactRecords, Record

LEMMA KeptHistory ==
    ASSUME HistoryOK,
           UNCHANGED <<use, local_read_seq, delivered, attaches, abandoned>>,
           \/ UNCHANGED <<rpc, curr_seq, records>>
           \/ rpc # "return" /\ rpc' # "return",
           OneObject => tail_seq' = Len(delivered) + InHand + dropped_count'
    PROVE  HistoryOK'
<1>1. OneObject' = OneObject /\ NeverOverwrites' = NeverOverwrites
  BY DEF OneObject, NeverOverwrites, Overwrites
<1>2. Behind' = Behind /\ InHand' = InHand /\ Held' = Held
  <2>1. CASE UNCHANGED <<rpc, curr_seq, records>>
    BY <2>1 DEF Behind, InHand, Held, First, Copied
  <2>2. CASE rpc # "return" /\ rpc' # "return"
    BY <2>2 DEF Behind, InHand, Held
  <2> QED BY <2>1, <2>2
<1>3. InOrder' = InOrder /\ Before(Behind)' = Before(Behind)
      /\ (Unreturned(local_read_seq) \ Held)' = Unreturned(local_read_seq) \ Held
  BY <1>2 DEF InOrder, Before, Unreturned
<1> QED BY <1>1, <1>2, <1>3 DEF HistoryOK

\* A set of sequence numbers behind n.
LEMMA FiniteBehind ==
    ASSUME NEW n \in Nat, NEW S, S \subseteq 0 .. n - 1
    PROVE  IsFiniteSet(S)
<1>1. IsFiniteSet(0 .. n - 1)  BY FS_Interval
<1> QED BY <1>1, FS_Subset

LEMMA SmallerUnreturned ==
    ASSUME NEW n \in Nat, NEW bound \in Nat, NEW T,
           T \subseteq Unreturned(n) \ Held,
           Cardinality(Unreturned(n) \ Held) <= bound
    PROVE  Cardinality(T) <= bound
<1> DEFINE S == Unreturned(n) \ Held
<1>1. S \subseteq 0 .. n - 1  BY DEF Unreturned
<1> HIDE DEF S
<1>2. IsFiniteSet(S) /\ Cardinality(S) \in Nat  BY <1>1, FiniteBehind, FS_CardinalityType
<1>3. IsFiniteSet(T) /\ Cardinality(T) <= Cardinality(S)  BY <1>2, FS_Subset DEF S
<1>4. Cardinality(T) \in Nat  BY <1>3, FS_CardinalityType
<1> QED BY <1>2, <1>3, <1>4 DEF S

\* Records returned once and in order: what was not returned below n is the rest.
LEMMA CountUnreturned ==
    ASSUME NEW n \in Nat, delivered \in Seq(Copy), InOrder, Before(n)
    PROVE  Cardinality(Unreturned(n)) = n - Len(delivered)
<1> DEFINE L == Len(delivered)
           f == [k \in 1 .. L |-> delivered[k].seq]
           R == {delivered[k].seq : k \in 1 .. L}
<1>1. L \in Nat /\ \A k \in 1 .. L : delivered[k].seq \in Nat /\ delivered[k].seq < n
  <2>1. \A k \in 1 .. L : delivered[k] \in Copy  BY ElementOfSeq
  <2>2. \A k \in 1 .. L : delivered[k].seq \in Nat
    BY <2>1, MmapRingAssumption DEF Copy, Half
  <2> QED BY <2>2, LenProperties DEF Before
<1>2. f \in Bijection(1 .. L, R)
  <2>1. \A i, j \in 1 .. L : f[i] = f[j] => i = j
    <3>1. \A i, j \in 1 .. L : i < j => f[i] < f[j] /\ f[i] \in Nat /\ f[j] \in Nat
      BY <1>1 DEF InOrder
    <3>2. \A i, j \in 1 .. L : i < j => f[i] # f[j]  BY <3>1
    <3>3. \A i, j \in 1 .. L : i = j \/ i < j \/ j < i  BY <1>1
    <3> HIDE DEF f
    <3> QED BY <3>2, <3>3
  <2>2. f \in [1 .. L -> R] /\ \A t \in R : \E k \in 1 .. L : f[k] = t
    OBVIOUS
  <2> HIDE DEF f, R
  <2> QED BY <2>1, <2>2, Fun_IsBij
<1>3. Cardinality(R) = L
  <2> HIDE DEF f, R
  <2>1. ExistsBijection(1 .. L, R)  BY <1>2, Zenon DEF ExistsBijection
  <2> QED BY <1>1, <2>1, FS_CountingElements
<1>4. R \subseteq 0 .. n - 1
  BY <1>1
<1>5. Unreturned(n) = (0 .. n - 1) \ R
  BY DEF Unreturned
<1>6. IsFiniteSet(0 .. n - 1) /\ Cardinality(0 .. n - 1) = n
  <2>1. IsFiniteSet(0 .. n - 1)
        /\ Cardinality(0 .. n - 1) = IF 0 > n - 1 THEN 0 ELSE (n - 1) - 0 + 1
    BY FS_Interval
  <2> QED BY <2>1
<1> HIDE DEF R, f
<1>7. (0 .. n - 1) \cap R = R  BY <1>4
<1>8. Cardinality((0 .. n - 1) \ R) = n - L
  <2> DEFINE N == 0 .. n - 1
  <2>1. IsFiniteSet(N) /\ Cardinality(N) = n /\ N \cap R = R  BY <1>6, <1>7
  <2> HIDE DEF N
  <2>2. Cardinality(N \ R) = Cardinality(N) - Cardinality(N \cap R)
    BY <2>1, FS_Difference
  <2> QED BY <1>3, <2>1, <2>2 DEF N
<1> QED BY <1>5, <1>8

----------------------------------------------------------------------------
\* The initial states

LEMMA InitIInv ==
    ASSUME Init
    PROVE  IInv
<1>1. /\ Capacity \in Nat \ {0} /\ MaxBatch \in Nat \ {0}
      /\ MaxWrites \in Nat /\ MaxAttaches \in Nat
  BY MmapRingAssumption
<1>2. <<>> \in Seq(Copy) /\ Len(<<>>) = 0
  BY EmptySeq
<1>3. TypeOK
  <2>1. 0 \in Half /\ 0 \in 0 .. Lesser(MaxBatch, Capacity)
    BY <1>1 DEF Half, Lesser
  <2>2. slots \in [0 .. Capacity - 1 -> [lo: Half, hi: Half]]
    BY <2>1 DEF Init
  <2>3. /\ head_seq \in 0 .. MaxWrites /\ tail_seq \in 0 .. head_seq
        /\ head_seq - tail_seq <= Capacity
        /\ local_read_seq \in 0 .. head_seq /\ dropped_count \in 0 .. head_seq
        /\ attaches \in 0 .. MaxAttaches /\ abandoned \in 0 .. MaxBatch * attaches
    BY <1>1 DEF Init
  <2>4. {whead, wtail, wdropped, rhead, rtail, curr_seq} \subseteq 0 .. MaxWrites
    BY <1>1 DEF Init
  <2>5. /\ records \in Seq(Copy) /\ Len(records) <= MaxBatch
        /\ delivered \in Seq(Copy)
    BY <1>1, <1>2 DEF Init
  <2>6. /\ use \in Uses /\ lock \in BOOLEAN /\ left \in 0 .. Lesser(MaxBatch, Capacity)
        /\ wpc \in {"idle", "slot", "half", "header"}
        /\ rpc \in {"idle", "copy", "half", "return"}
    BY <2>1 DEF Init
  <2> QED BY <2>2, <2>3, <2>4, <2>5, <2>6 DEF TypeOK, Copy
<1>4. LockOK /\ WriterOK /\ ReaderOK
  BY DEF Init, LockOK, WriterOK, ReaderOK, Writing, Reading
<1>5. QuietOK /\ LockedOK
  BY <1>1, <1>2 DEF Init, QuietOK, LockedOK, Writing, Reading, Copying
<1>6. HistoryOK
  <2>1. Len(delivered) = 0 /\ InHand = 0 /\ Held = {} /\ local_read_seq = 0
        /\ tail_seq = 0 /\ dropped_count = 0 /\ attaches = 0 /\ abandoned = 0
    BY <1>2 DEF Init, InHand, Held
  <2>2. InOrder /\ Before(Behind)  BY <2>1 DEF InOrder, Before
  <2>3. Unreturned(local_read_seq) \ Held = {}  BY <2>1 DEF Unreturned
  <2>4. Cardinality({}) = 0  BY FS_EmptySet
  <2> QED BY <2>1, <2>2, <2>3, <2>4 DEF HistoryOK
<1>7. DataOK
  <2>1. Oldest = 0 /\ Copied = 0 /\ ~ Reading /\ head_seq = 0 /\ rpc # "half"
    BY <1>2 DEF Init, Oldest, Copied, Writing, Reading
  <2>2. IntactRecords
    BY <1>2 DEF Init, IntactRecords
  <2> QED BY <2>1, <2>2 DEF DataOK
<1> QED BY <1>3, <1>4, <1>5, <1>6, <1>7 DEF IInv

----------------------------------------------------------------------------
\* write

LEMMA WriteBeginIInv ==
    ASSUME IInv, WriteBegin
    PROVE  IInv'
<1>0. Nums
  BY Numbers DEF IInv
<1>1. /\ wpc = "idle" /\ wpc' = "slot" /\ head_seq < MaxWrites
      /\ UNCHANGED <<use, head_seq, tail_seq, dropped_count, slots, rpc, rhead, rtail, curr_seq,
                     left, records, local_read_seq, delivered, attaches, abandoned>>
      /\ IF OneObject THEN ~ lock /\ lock' = TRUE ELSE UNCHANGED lock
      /\ whead' = head_seq
      /\ TypeOK /\ LockOK /\ ReaderOK /\ QuietOK /\ LockedOK /\ HistoryOK /\ DataOK
  BY DEF WriteBegin, Acquire, shared, reader, reading, IInv
<1>2. OneObject' = OneObject /\ NeverOverwrites' = NeverOverwrites /\ SafeUse' = SafeUse
  BY <1>1 DEF OneObject, NeverOverwrites, Overwrites, SafeUse
<1>3. \/ /\ head_seq - tail_seq >= Capacity /\ ~ NeverOverwrites
         /\ wtail' = head_seq - Capacity + 1 /\ wdropped' = dropped_count + 1
      \/ head_seq - tail_seq < Capacity /\ wtail' = tail_seq /\ wdropped' = dropped_count
  <2>1. head_seq - tail_seq \in Int /\ Capacity \in Int  BY <1>1, <1>0 DEF Nums
  <2>2. IF head_seq - tail_seq >= Capacity
        THEN /\ TRUE \in Overwrites
             /\ wtail' = head_seq - Capacity + 1
             /\ wdropped' = dropped_count + 1
        ELSE wtail' = tail_seq /\ wdropped' = dropped_count
    BY DEF WriteBegin
  <2>3. CASE head_seq - tail_seq >= Capacity  BY <2>2, <2>3 DEF NeverOverwrites
  <2>4. CASE ~ (head_seq - tail_seq >= Capacity)
    <3>1. head_seq - tail_seq < Capacity  BY <2>1, <2>4
    <3> QED BY <2>2, <2>4, <3>1
  <2> QED BY <2>3, <2>4
<1>4. /\ wtail' \in Nat /\ wtail' <= head_seq
      /\ wdropped' \in Nat /\ wdropped' <= head_seq + 1
  BY <1>1, <1>3, <1>0 DEF Nums
<1>5. OneObject => head_seq - tail_seq <= Capacity /\ ~ Reading
  BY <1>1 DEF TypeOK, LockOK
<1>6. TypeOK'
  <2>1. lock' \in BOOLEAN  BY <1>1 DEF TypeOK
  <2>2. {whead, wtail, wdropped, rhead, rtail, curr_seq}' \subseteq 0 .. MaxWrites
    BY <1>1, <1>4, <1>0 DEF Nums
  <2> QED BY <1>1, <1>2, <2>1, <2>2 DEF TypeOK
<1>7. LockOK'
  BY <1>1, <1>2, <1>5 DEF LockOK, Writing, Reading
<1>8. WriterOK'
  BY <1>1, <1>4 DEF WriterOK
<1>9. ReaderOK'
  BY <1>1 DEF ReaderOK, Reading, Copying, Copied, First
<1>10. QuietOK'
  BY <1>1, <1>2, <1>3, <1>0 DEF Nums, QuietOK, Copying, First, Copied
<1>11. LockedOK'
  <2>1. OneObject => wtail' = tail_seq + Dropping /\ wdropped' = dropped_count + Dropping
    BY <1>1, <1>3, <1>5, <1>0 DEF Nums, Dropping
  <2>2. Dropping' = Dropping  BY <1>1 DEF Dropping
  <2> QED BY <1>1, <1>2, <2>1, <2>2, <1>5 DEF LockedOK, Reading, Copying
<1>12. DataOK'
  <2>1. SafeUse => tail_seq <= wtail'
    BY <1>1, <1>3, <1>5, <1>0 DEF Nums, SafeUse
  <2>2. Oldest = tail_seq /\ Oldest' = wtail'
    BY <1>1 DEF Oldest, Writing
  <2>3. SafeUse => \A s \in wtail' .. head_seq - 1 : slots[Slot(s)] = Record(s)
    BY <1>1, <1>4, <2>1, <2>2, <1>0 DEF Nums, DataOK
  <2> QED BY <1>1, <1>2, <2>2, <2>3, KeptIntact DEF DataOK, Copied, Reading, Slot, Record
<1>13. HistoryOK'
  BY <1>1, KeptHistory DEF HistoryOK
<1> QED BY <1>6, <1>7, <1>8, <1>9, <1>10, <1>11, <1>12, <1>13 DEF IInv

\* A step that writes into the slot of whead, and nothing else.
LEMMA SlotStep ==
    ASSUME IInv, NEW c \in Cell,
           slots' = [slots EXCEPT ![Slot(whead)] = c],
           wpc \in {"slot", "half"}, wpc' \in {"half", "header"},
           wpc' = "half" => c.lo = whead + 1,
           wpc' = "header" => c = Record(whead),
           UNCHANGED <<use, lock, head_seq, tail_seq, dropped_count, whead, wtail, wdropped,
                       reader>>
    PROVE  IInv'
<1>0. Nums
  BY Numbers DEF IInv
<1>1. /\ UNCHANGED <<rpc, rhead, rtail, curr_seq, left, records, local_read_seq, delivered,
                     attaches, abandoned>>
      /\ TypeOK /\ LockOK /\ WriterOK /\ ReaderOK /\ QuietOK /\ LockedOK /\ HistoryOK /\ DataOK
      /\ Writing /\ Writing' /\ (Reading' <=> Reading) /\ (Copying' <=> Copying)
      /\ whead = head_seq /\ head_seq < MaxWrites
  BY DEF reader, reading, IInv, Writing, WriterOK, Reading, Copying
<1>2. OneObject' = OneObject /\ NeverOverwrites' = NeverOverwrites /\ SafeUse' = SafeUse
  BY DEF OneObject, NeverOverwrites, Overwrites, SafeUse
<1>3. Copied' = Copied /\ First' = First /\ Oldest' = Oldest /\ Oldest = wtail
  BY <1>1 DEF Copied, First, Oldest
<1>4. /\ Slot(whead) \in 0 .. Capacity - 1
      /\ slots \in [0 .. Capacity - 1 -> Cell]
      /\ slots' \in [0 .. Capacity - 1 -> Cell]
      /\ slots'[Slot(whead)] = c
      /\ \A i \in 0 .. Capacity - 1 : i # Slot(whead) => slots'[i] = slots[i]
  <2>1. Slot(whead) \in 0 .. Capacity - 1  BY <1>1, <1>0, SlotInRing DEF Nums
  <2>2. slots \in [0 .. Capacity - 1 -> Cell]  BY <1>1, Sequences
  <2> QED BY <2>1, <2>2
<1>5. TypeOK'
  BY <1>1, <1>2, <1>4 DEF TypeOK, Cell
<1>6. LockOK' /\ ReaderOK'
  BY <1>1, <1>2, <1>3 DEF LockOK, ReaderOK
<1>7. WriterOK'
  BY <1>1, <1>4 DEF WriterOK, Slot, Record
<1>8. QuietOK' /\ LockedOK'
  BY <1>1, <1>2, <1>3 DEF QuietOK, LockedOK, Dropping
<1>9. DataOK'
  <2>1. SafeUse => whead - wtail < Capacity
    <3>1. CASE NeverOverwrites  BY <1>1, <3>1 DEF QuietOK
    <3>2. CASE OneObject
      BY <1>1, <3>2, <1>0 DEF Nums, LockedOK, TypeOK, Dropping
    <3> QED BY <3>1, <3>2 DEF SafeUse
  <2>2. ASSUME SafeUse, NEW s \in wtail .. head_seq - 1
        PROVE  slots'[Slot(s)] = Record(s)
    <3>1. s \in Nat /\ s < whead /\ whead - s < Capacity /\ whead \in Nat
      <4>1. whead = head_seq /\ whead - wtail < Capacity  BY <1>1, <2>1, <2>2
      <4>2. wtail \in Nat /\ whead \in Nat /\ Capacity \in Nat  BY <1>0 DEF Nums
      <4> QED BY <4>1, <4>2
    <3>2. Slot(s) # Slot(whead)  BY <3>1, SlotsDiffer
    <3>3. slots'[Slot(s)] = slots[Slot(s)]  BY <1>4, <3>1, <3>2, SlotInRing
    <3> QED BY <1>1, <1>3, <2>2, <3>3 DEF DataOK
  <2> QED BY <1>1, <1>2, <1>3, <2>2, KeptIntact DEF DataOK, Slot, Record
<1>10. HistoryOK'
  BY <1>1, KeptHistory DEF HistoryOK
<1> QED BY <1>5, <1>6, <1>7, <1>8, <1>9, <1>10 DEF IInv

LEMMA WriteFirstHalfIInv ==
    ASSUME IInv, WriteFirstHalf
    PROVE  IInv'
<1>0. Nums
  BY Numbers DEF IInv
<1>1. TypeOK /\ WriterOK /\ wpc = "slot" /\ wpc' = "half"
      /\ slots' = [slots EXCEPT ![Slot(whead)].lo = whead + 1]
      /\ UNCHANGED <<use, lock, head_seq, tail_seq, dropped_count, whead, wtail, wdropped,
                     reader>>
  BY DEF WriteFirstHalf, Keep, shared, IInv
<1>2. /\ Slot(whead) \in 0 .. Capacity - 1 /\ slots \in [0 .. Capacity - 1 -> Cell]
      /\ whead + 1 \in Half
  <2>1. whead < MaxWrites  BY <1>1 DEF WriterOK, Writing
  <2>2. whead + 1 \in Half /\ whead \in Nat  BY <1>0, <2>1 DEF Nums, Half
  <2> QED BY <1>1, <2>2, Sequences, SlotInRing
<1> DEFINE c == [slots[Slot(whead)] EXCEPT !.lo = whead + 1]
<1>3. c \in Cell /\ c.lo = whead + 1 /\ slots' = [slots EXCEPT ![Slot(whead)] = c]
  BY <1>1, <1>2 DEF Cell
<1> HIDE DEF c
<1> QED BY <1>1, <1>3, SlotStep

LEMMA WriteSecondHalfIInv ==
    ASSUME IInv, WriteSecondHalf
    PROVE  IInv'
<1>0. Nums
  BY Numbers DEF IInv
<1>1. TypeOK /\ WriterOK /\ wpc = "half" /\ wpc' = "header"
      /\ slots' = [slots EXCEPT ![Slot(whead)].hi = whead + 1]
      /\ UNCHANGED <<use, lock, head_seq, tail_seq, dropped_count, whead, wtail, wdropped,
                     reader>>
  BY DEF WriteSecondHalf, Keep, shared, IInv
<1>2. /\ Slot(whead) \in 0 .. Capacity - 1 /\ slots \in [0 .. Capacity - 1 -> Cell]
      /\ whead + 1 \in Half /\ slots[Slot(whead)].lo = whead + 1
  <2>1. whead < MaxWrites /\ slots[Slot(whead)].lo = whead + 1
    BY <1>1 DEF WriterOK, Writing
  <2>2. whead + 1 \in Half /\ whead \in Nat  BY <1>0, <2>1 DEF Nums, Half
  <2> QED BY <1>1, <2>1, <2>2, Sequences, SlotInRing
<1> DEFINE c == [slots[Slot(whead)] EXCEPT !.hi = whead + 1]
<1>3. c \in Cell /\ c = Record(whead) /\ slots' = [slots EXCEPT ![Slot(whead)] = c]
  BY <1>1, <1>2 DEF Cell, Record
<1> HIDE DEF c
<1> QED BY <1>1, <1>3, SlotStep

LEMMA WriteHeaderIInv ==
    ASSUME IInv, WriteHeader
    PROVE  IInv'
<1>0. Nums
  BY Numbers DEF IInv
<1>1. /\ wpc = "header" /\ wpc' = "idle"
      /\ head_seq' = whead + 1 /\ tail_seq' = wtail /\ dropped_count' = wdropped
      /\ lock' = FALSE
      /\ UNCHANGED <<use, slots, whead, wtail, wdropped, rpc, rhead, rtail, curr_seq, left,
                     records, local_read_seq, delivered, attaches, abandoned>>
      /\ TypeOK /\ LockOK /\ WriterOK /\ ReaderOK /\ QuietOK /\ LockedOK /\ HistoryOK /\ DataOK
      /\ Writing /\ ~ Writing' /\ (Reading' <=> Reading) /\ (Copying' <=> Copying)
      /\ whead = head_seq /\ head_seq < MaxWrites /\ wtail <= whead /\ wdropped <= whead + 1
      /\ slots[Slot(whead)] = Record(whead)
  BY DEF WriteHeader, Release, reader, reading, IInv, Writing, Reading, Copying, WriterOK
<1>2. OneObject' = OneObject /\ NeverOverwrites' = NeverOverwrites /\ SafeUse' = SafeUse
  BY <1>1 DEF OneObject, NeverOverwrites, Overwrites, SafeUse
<1>3. Copied' = Copied /\ First' = First
  BY <1>1 DEF Copied, First
<1>4. OneObject => ~ Reading /\ head_seq + 1 - wtail <= Capacity
  BY <1>1, <1>0 DEF Nums, LockOK, LockedOK, TypeOK, Dropping
<1>5. TypeOK'
  <2>1. head_seq + 1 \in 0 .. MaxWrites /\ wtail \in 0 .. head_seq + 1
        /\ local_read_seq \in 0 .. head_seq + 1 /\ wdropped \in 0 .. head_seq + 1
    BY <1>0, <1>1 DEF Nums
  <2>2. head_seq' = head_seq + 1 /\ tail_seq' = wtail /\ dropped_count' = wdropped
        /\ UNCHANGED <<use, slots, whead, wtail, wdropped, rpc, rhead, rtail, curr_seq, left,
                       records, local_read_seq, delivered, attaches, abandoned>>
        /\ lock' \in BOOLEAN /\ wpc' \in {"idle", "slot", "half", "header"}
    BY <1>1
  <2>3. /\ use \in Uses /\ slots \in [0 .. Capacity - 1 -> [lo: Half, hi: Half]]
        /\ {whead, wtail, wdropped, rhead, rtail, curr_seq} \subseteq 0 .. MaxWrites
        /\ rpc \in {"idle", "copy", "half", "return"} /\ left \in 0 .. Lesser(MaxBatch, Capacity)
        /\ records \in Seq([seq: Half, data: [lo: Half, hi: Half]])
        /\ Len(records) <= MaxBatch
        /\ delivered \in Seq([seq: Half, data: [lo: Half, hi: Half]])
        /\ attaches \in 0 .. MaxAttaches /\ abandoned \in 0 .. MaxBatch * attaches
    BY <1>1 DEF TypeOK
  <2>4. OneObject' => head_seq' - tail_seq' <= Capacity
    BY <1>0, <1>2, <1>4, <2>2 DEF Nums
  <2> QED BY <2>1, <2>2, <2>3, <2>4 DEF TypeOK
<1>6. LockOK' /\ WriterOK'
  BY <1>1, <1>2, <1>4 DEF LockOK, WriterOK
<1>7. ReaderOK'
  BY <1>1, <1>3, <1>0 DEF Nums, ReaderOK
<1>8. QuietOK'
  <2>1. NeverOverwrites => wtail <= local_read_seq /\ head_seq + 1 - wtail <= Capacity
    <3>1. NeverOverwrites => wtail <= tail_seq /\ tail_seq <= local_read_seq
                             /\ whead - wtail < Capacity /\ whead = head_seq
      BY <1>1 DEF QuietOK
    <3> QED BY <1>0, <3>1 DEF Nums
  <2>2. NeverOverwrites /\ Copying => wtail <= rtail /\ rtail <= local_read_seq
                                      /\ First = local_read_seq
    BY <1>1, <1>0 DEF Nums, QuietOK
  <2>3. NeverOverwrites => tail_seq' <= local_read_seq' /\ head_seq' - tail_seq' <= Capacity
    <3>1. head_seq' = head_seq + 1 /\ tail_seq' = wtail /\ local_read_seq' = local_read_seq
      BY <1>1
    <3> QED BY <1>0, <2>1, <3>1 DEF Nums
  <2>4. NeverOverwrites /\ Copying' => tail_seq' <= rtail' /\ rtail' <= local_read_seq'
                                       /\ First' = local_read_seq'
    BY <1>1, <1>3, <2>2
  <2> QED BY <1>1, <1>2, <2>3, <2>4 DEF QuietOK
<1>9. LockedOK'
  <2>1. OneObject => wtail = IF head_seq + 1 - local_read_seq > Capacity
                             THEN head_seq + 1 - Capacity ELSE local_read_seq
    BY <1>1, <1>0 DEF Nums, LockedOK, TypeOK, Dropping
  <2>2. /\ head_seq' = head_seq + 1 /\ tail_seq' = wtail /\ local_read_seq' = local_read_seq
    BY <1>1
  <2>3. OneObject => ~ Writing' /\ ~ Reading' /\ ~ Copying'
    BY <1>1, <1>4 DEF Reading, Copying
  <2> QED BY <1>0, <1>2, <2>1, <2>2, <2>3 DEF Nums, LockedOK
<1>11. HistoryOK'
  <2>1. OneObject => wtail = Len(delivered) + InHand + wdropped
    <3>1. Dropping \in Int /\ (OneObject => InHand = 0)
      BY <1>4 DEF Dropping, InHand, Reading
    <3>2. OneObject => /\ tail_seq = Len(delivered) + InHand + dropped_count
                       /\ wtail = tail_seq + Dropping /\ wdropped = dropped_count + Dropping
      BY <1>1 DEF LockedOK, HistoryOK
    <3> QED BY <3>1, <3>2, <1>0 DEF Nums
  <2> QED BY <1>1, <2>1, KeptHistory
<1>10. DataOK'
  <2>1. Oldest = wtail /\ Oldest' = wtail
    BY <1>1 DEF Oldest
  <2>2. ASSUME SafeUse, NEW s \in wtail .. head_seq
        PROVE  slots[Slot(s)] = Record(s)
    <3>1. CASE s = whead  BY <1>1, <3>1
    <3>2. CASE s # whead
      <4>1. s \in wtail .. head_seq - 1  BY <1>1, <2>2, <3>2, <1>0 DEF Nums
      <4> QED BY <1>1, <2>1, <2>2, <4>1 DEF DataOK
    <3> QED BY <3>1, <3>2
  <2>3. head_seq' - 1 = head_seq  BY <1>1, <1>0 DEF Nums
  <2> QED BY <1>1, <1>2, <1>3, <2>1, <2>2, <2>3, KeptIntact DEF DataOK, Slot, Record
<1> QED BY <1>5, <1>6, <1>7, <1>8, <1>9, <1>10, <1>11 DEF IInv

----------------------------------------------------------------------------
\* read

LEMMA ReadBeginIInv ==
    ASSUME IInv, ReadBegin
    PROVE  IInv'
<1>0. Nums
  BY Numbers DEF IInv
<1>1. /\ rpc = "idle" /\ rpc' = "copy" /\ local_read_seq < head_seq
      /\ IF OneObject THEN ~ lock /\ lock' = TRUE ELSE UNCHANGED lock
      /\ rhead' = head_seq /\ rtail' = tail_seq /\ records' = <<>>
      /\ curr_seq' = IF head_seq - local_read_seq > Capacity
                     THEN head_seq - Capacity ELSE local_read_seq
      /\ UNCHANGED <<use, head_seq, tail_seq, dropped_count, slots, wpc, whead, wtail, wdropped,
                     local_read_seq, delivered, attaches, abandoned>>
      /\ TypeOK /\ LockOK /\ WriterOK /\ QuietOK /\ LockedOK /\ HistoryOK /\ DataOK
      /\ ~ Reading /\ Reading' /\ (Writing' <=> Writing)
  BY DEF ReadBegin, Acquire, shared, writer, IInv, Reading, Writing
<1>2. OneObject' = OneObject /\ NeverOverwrites' = NeverOverwrites /\ SafeUse' = SafeUse
  BY <1>1 DEF OneObject, NeverOverwrites, Overwrites, SafeUse
<1>3. PICK max_records \in 1 .. MaxBatch : left' = Lesser(max_records, head_seq - curr_seq')
  BY DEF ReadBegin
<1>4. /\ curr_seq' \in Nat /\ local_read_seq <= curr_seq' /\ curr_seq' < head_seq
      /\ head_seq - curr_seq' <= Capacity
  BY <1>1, <1>0 DEF Nums
<1>5. /\ left' \in Nat /\ left' > 0 /\ left' <= MaxBatch /\ left' <= Capacity
      /\ curr_seq' + left' <= head_seq
  BY <1>1, <1>3, <1>4, <1>0 DEF Nums, Lesser
<1>6. Len(<<>>) = 0 /\ <<>> \in Seq(Copy)
  BY EmptySeq
<1>7. Copied' = 0 /\ First' = curr_seq'
  <2>1. Copied' = 0  BY <1>1, <1>6 DEF Copied
  <2>2. First' = curr_seq' - 0  BY <2>1 DEF First
  <2>3. \A m \in Nat : m - 0 = m  OBVIOUS
  <2>4. curr_seq' - 0 = curr_seq'  BY <1>4, <2>3
  <2> QED BY <2>1, <2>2, <2>4, Zenon
<1>8. OneObject => ~ Writing
  BY <1>1 DEF LockOK
<1>9. TypeOK'
  <2>1. left' \in 0 .. Lesser(MaxBatch, Capacity)
    BY <1>1, <1>5, <1>0 DEF Nums, Lesser
  <2>2. lock' \in BOOLEAN  BY <1>1 DEF TypeOK
  <2>3. {whead, wtail, wdropped, rhead, rtail, curr_seq}' \subseteq 0 .. MaxWrites
    BY <1>1, <1>4, <1>0 DEF Nums
  <2>4. records' \in Seq([seq: Half, data: [lo: Half, hi: Half]]) /\ Len(records') <= MaxBatch
    BY <1>1, <1>6, <1>0 DEF Nums, Copy
  <2> QED BY <1>1, <1>2, <2>1, <2>2, <2>3, <2>4 DEF TypeOK
<1>10. LockOK'
  BY <1>1, <1>2, <1>8 DEF LockOK
<1>11. WriterOK'
  BY <1>1 DEF WriterOK, Slot, Record
<1>12. ReaderOK'
  <2>1. rpc' # "half" /\ Len(records') = 0 /\ rhead' <= head_seq'
    BY <1>1, <1>6, <1>0 DEF Nums
  <2>2. curr_seq' + left' <= rhead'  BY <1>1, <1>5
  <2>3. Copied' \in Nat /\ Copied' + left' <= MaxBatch /\ First' \in Nat
    <3>1. left' \in Nat /\ left' <= MaxBatch /\ curr_seq' \in Nat  BY <1>4, <1>5
    <3> QED BY <1>7, <3>1
  <2>4. \A k \in 1 .. Len(records') : FALSE  BY <2>1
  <2>5. local_read_seq' <= First' /\ rpc' # "return"  BY <1>1, <1>4, <1>7
  <2> QED BY <1>5, <2>1, <2>2, <2>3, <2>4, <2>5 DEF ReaderOK
<1>13. QuietOK'
  <2>1. NeverOverwrites => head_seq - local_read_seq <= Capacity
    <3>1. NeverOverwrites => tail_seq <= local_read_seq /\ head_seq - tail_seq <= Capacity
      BY <1>1 DEF QuietOK
    <3> QED BY <1>0, <3>1 DEF Nums
  <2>2. NeverOverwrites => curr_seq' = local_read_seq
    BY <1>1, <2>1, <1>0 DEF Nums
  <2> QED BY <1>1, <1>2, <1>7, <2>2, <1>0 DEF Nums, QuietOK
<1>14. LockedOK'
  <2>1. OneObject => curr_seq' = tail_seq
    BY <1>1 DEF LockedOK
  <2> QED BY <1>1, <1>2, <1>7, <1>8, <2>1 DEF LockedOK
<1>15. DataOK'
  <2>1. Oldest' = Oldest  BY <1>1 DEF Oldest
  <2>2. rpc' # "half"  BY <1>1
  <2> QED BY <1>1, <1>2, <1>7, <2>1, <2>2, KeptIntact DEF DataOK, Slot, Record
<1>16. HistoryOK'
  BY <1>1, KeptHistory DEF HistoryOK
<1> QED BY <1>9, <1>10, <1>11, <1>12, <1>13, <1>14, <1>15, <1>16 DEF IInv

\* The slot that is being copied belongs to a record that nobody is writing.
LEMMA CopiedSlot ==
    ASSUME IInv, Reading, SafeUse, left > 0
    PROVE  slots[Slot(curr_seq)] = Record(curr_seq)
<1>0. Nums
  BY Numbers DEF IInv
<1>1. /\ TypeOK /\ LockOK /\ WriterOK /\ ReaderOK /\ QuietOK /\ LockedOK /\ HistoryOK /\ DataOK
      /\ curr_seq + left <= head_seq /\ First <= curr_seq /\ First \in Nat /\ Copying
  <2>1. TypeOK /\ LockOK /\ WriterOK /\ ReaderOK /\ QuietOK /\ LockedOK /\ HistoryOK /\ DataOK
    BY DEF IInv
  <2>2. Copied \in Nat /\ rhead <= head_seq /\ curr_seq + left <= rhead /\ First \in Nat
    BY <2>1 DEF ReaderOK
  <2>3. Copying  BY <2>1, <1>0 DEF Nums, ReaderOK, Reading, Copying, TypeOK
  <2> QED BY <2>1, <2>2, <2>3, <1>0 DEF Nums, First
<1>2. Oldest <= curr_seq
  <2>1. CASE NeverOverwrites
    BY <1>1, <2>1, <1>0 DEF Nums, QuietOK, Oldest
  <2>2. CASE OneObject
    BY <1>1, <2>2, <1>0 DEF Nums, LockedOK, LockOK, Oldest
  <2> QED BY <2>1, <2>2 DEF SafeUse
<1>3. curr_seq \in Oldest .. head_seq - 1
  BY <1>1, <1>2, <1>0 DEF Nums, Oldest
<1> QED BY <1>1, <1>3 DEF DataOK

LEMMA CopyFirstHalfIInv ==
    ASSUME IInv, CopyFirstHalf
    PROVE  IInv'
<1> DEFINE r == [seq |-> curr_seq, data |-> [lo |-> slots[Slot(curr_seq)].lo, hi |-> 0]]
<1>0. Nums
  BY Numbers DEF IInv
<1>1. /\ rpc = "copy" /\ rpc' = "half" /\ left > 0
      /\ records' = Append(records, r)
      /\ UNCHANGED <<use, lock, head_seq, tail_seq, dropped_count, slots, wpc, whead, wtail,
                     wdropped, rhead, rtail, curr_seq, left, local_read_seq, delivered, attaches,
                     abandoned>>
      /\ TypeOK /\ LockOK /\ WriterOK /\ ReaderOK /\ QuietOK /\ LockedOK /\ HistoryOK /\ DataOK
      /\ Reading /\ Reading' /\ Copying /\ Copying' /\ (Writing' <=> Writing)
  BY DEF CopyFirstHalf, Keep, shared, writer, IInv, Reading, Copying, Writing
<1>2. OneObject' = OneObject /\ NeverOverwrites' = NeverOverwrites /\ SafeUse' = SafeUse
  BY <1>1 DEF OneObject, NeverOverwrites, Overwrites, SafeUse
<1>3. r \in Copy /\ r.seq = curr_seq /\ r.data.lo = slots[Slot(curr_seq)].lo
  <2>1. slots[Slot(curr_seq)] \in Cell
    <3>1. Slot(curr_seq) \in 0 .. Capacity - 1  BY <1>1, <1>0, SlotInRing DEF Nums
    <3> QED BY <1>1, <3>1, Sequences
  <2>2. curr_seq \in Half /\ 0 \in Half  BY <1>1, <1>0 DEF Nums, Half
  <2> QED BY <2>1, <2>2 DEF Cell, Copy
<1> HIDE DEF r
<1>4. /\ records \in Seq(Copy) /\ records' \in Seq(Copy) /\ Len(records) \in Nat
      /\ Len(records') = Len(records) + 1 /\ records'[Len(records) + 1] = r
      /\ \A k \in 1 .. Len(records) : records'[k] = records[k]
  BY <1>1, <1>3, Sequences, AppendProperties, LenProperties
<1>5. Copied = Len(records) /\ Copied' = Copied /\ First' = First /\ Oldest' = Oldest
  <2>1. Copied = Len(records) /\ Copied' = Len(records)  BY <1>1, <1>4 DEF Copied
  <2> QED BY <1>1, <2>1 DEF First, Oldest
<1>6. Copied \in Nat /\ Copied + left <= MaxBatch
  BY <1>1 DEF ReaderOK
<1>7. TypeOK'
  <2>1. Len(records') <= MaxBatch
    <3>1. Len(records) + left <= MaxBatch /\ left > 0  BY <1>1, <1>5, <1>6
    <3> QED BY <1>0, <1>4, <3>1 DEF Nums
  <2> QED BY <1>1, <1>2, <1>4, <2>1 DEF TypeOK, Copy
<1>8. LockOK' /\ WriterOK' /\ QuietOK' /\ LockedOK'
  BY <1>1, <1>2, <1>5 DEF LockOK, WriterOK, QuietOK, LockedOK, Slot, Record, Dropping
<1>9. ReaderOK'
  <2>1. ASSUME NEW k \in 1 .. Len(records')
        PROVE  records'[k].seq = First + k - 1
    <3>1. CASE k \in 1 .. Len(records)
      BY <1>1, <1>4, <3>1 DEF ReaderOK
    <3>2. CASE k \notin 1 .. Len(records)
      <4>1. k = Len(records) + 1  BY <1>4, <2>1, <3>2
      <4>2. First + k - 1 = curr_seq  BY <1>1, <1>4, <1>5, <4>1, <1>0 DEF Nums, First
      <4> QED BY <1>3, <1>4, <4>1, <4>2
    <3> QED BY <3>1, <3>2
  <2> QED BY <1>1, <1>5, <1>6, <2>1 DEF ReaderOK
<1>10. DataOK'
  <2>1. SafeUse => r.data.lo = curr_seq + 1
    BY <1>1, <1>3, CopiedSlot DEF Record
  <2>2. SafeUse => \A k \in 1 .. Copied : records'[k].data = Record(records'[k].seq)
    BY <1>1, <1>4, <1>5 DEF DataOK
  <2>3. records'[Len(records')] = r  BY <1>4
  <2> QED BY <1>1, <1>2, <1>5, <2>1, <2>2, <2>3, KeptIntact DEF DataOK, Slot, Record
<1>11. HistoryOK'
  BY <1>1, KeptHistory DEF HistoryOK
<1> QED BY <1>7, <1>8, <1>9, <1>10, <1>11 DEF IInv

LEMMA CopySecondHalfIInv ==
    ASSUME IInv, CopySecondHalf
    PROVE  IInv'
<1> DEFINE n == Len(records)
           r == [records[n] EXCEPT !.data.hi = slots[Slot(curr_seq)].hi]
<1>0. Nums
  BY Numbers DEF IInv
<1>1. /\ rpc = "half" /\ rpc' = "copy"
      /\ records' = [records EXCEPT ![n].data.hi = slots[Slot(curr_seq)].hi]
      /\ curr_seq' = curr_seq + 1 /\ left' = left - 1
      /\ UNCHANGED <<use, lock, head_seq, tail_seq, dropped_count, slots, wpc, whead, wtail,
                     wdropped, rhead, rtail, local_read_seq, delivered, attaches, abandoned>>
      /\ TypeOK /\ LockOK /\ WriterOK /\ ReaderOK /\ QuietOK /\ LockedOK /\ HistoryOK /\ DataOK
      /\ Reading /\ Reading' /\ Copying /\ Copying' /\ (Writing' <=> Writing)
  BY DEF CopySecondHalf, Keep, shared, writer, IInv, Reading, Copying, Writing
<1>2. OneObject' = OneObject /\ NeverOverwrites' = NeverOverwrites /\ SafeUse' = SafeUse
  BY <1>1 DEF OneObject, NeverOverwrites, Overwrites, SafeUse
<1>3. /\ Copied = n - 1 /\ Copied \in Nat /\ left > 0 /\ Copied + left <= MaxBatch
      /\ rhead <= head_seq /\ curr_seq + left <= rhead /\ n \in 1 .. n /\ First \in Nat
      /\ records \in Seq(Copy)
  <2>1. Copied = n - 1 /\ Copied \in Nat /\ left > 0 /\ Copied + left <= MaxBatch
        /\ rhead <= head_seq /\ curr_seq + left <= rhead /\ First \in Nat
    BY <1>1 DEF ReaderOK, Copied
  <2> QED BY <1>1, <2>1, <1>0, Sequences DEF Nums
<1>4. r \in Copy /\ r.seq = records[n].seq /\ r.data.lo = records[n].data.lo
      /\ r.data.hi = slots[Slot(curr_seq)].hi
  <2>1. slots[Slot(curr_seq)] \in Cell
    <3>1. Slot(curr_seq) \in 0 .. Capacity - 1  BY <1>1, <1>0, SlotInRing DEF Nums
    <3> QED BY <1>1, <3>1, Sequences
  <2>2. records[n] \in Copy  BY <1>3, ElementOfSeq
  <2> QED BY <2>1, <2>2 DEF Cell, Copy
<1>5. records' = [records EXCEPT ![n] = r]
  BY <1>1
<1> HIDE DEF r
<1>6. /\ records' \in Seq(Copy) /\ Len(records') = n /\ records'[n] = r
      /\ \A k \in 1 .. n - 1 : records'[k] = records[k]
  <2>1. n \in Nat /\ n \in DOMAIN records /\ DOMAIN records = 1 .. n
    BY <1>3, LenProperties
  <2>2. records' \in Seq(Copy) /\ Len(records') = n
    BY <1>3, <1>4, <1>5, <2>1, ExceptSeq
  <2>3. records \in [1 .. n -> Copy]  BY <1>3, LenProperties
  <2>4. \A k \in 1 .. n - 1 : k \in 1 .. n /\ k # n
    <3> HIDE DEF n
    <3> QED BY <2>1
  <2> QED BY <1>3, <1>5, <2>2, <2>3, <2>4
<1>7. Copied' = n /\ First' = First /\ Oldest' = Oldest
  <2>1. Copied' = n  BY <1>1, <1>6 DEF Copied
  <2> QED BY <1>1, <1>3, <2>1, <1>0, SMTT(30) DEF Nums, First, Oldest
<1>8. TypeOK'
  <2>1. left' \in 0 .. Lesser(MaxBatch, Capacity) /\ curr_seq' \in 0 .. MaxWrites
    <3>1. left \in 0 .. Lesser(MaxBatch, Capacity) /\ Lesser(MaxBatch, Capacity) \in Int
      BY <1>0, <1>1 DEF TypeOK, Nums, Lesser
    <3>2. left - 1 \in 0 .. Lesser(MaxBatch, Capacity)  BY <1>3, <3>1
    <3>3. curr_seq + 1 \in 0 .. MaxWrites  BY <1>0, <1>3 DEF Nums
    <3> QED BY <1>1, <3>2, <3>3
  <2>2. Len(records') <= MaxBatch  BY <1>1, <1>6 DEF TypeOK
  <2> QED BY <1>1, <1>2, <1>6, <2>1, <2>2 DEF TypeOK, Copy
<1>9. LockOK' /\ WriterOK' /\ QuietOK' /\ LockedOK'
  BY <1>1, <1>2, <1>7 DEF LockOK, WriterOK, QuietOK, LockedOK, Slot, Record, Dropping
<1>10. ReaderOK'
  <2>1. \A k \in 1 .. n : records'[k].seq = records[k].seq
    BY <1>3, <1>4, <1>6
  <2>2. n + left' <= MaxBatch /\ curr_seq' + left' <= rhead /\ n # 0 /\ n \in Nat
    <3>1. left' = left - 1 /\ curr_seq' = curr_seq + 1  BY <1>1
    <3>2. left \in Nat /\ curr_seq \in Nat /\ n \in Nat /\ MaxBatch \in Nat /\ rhead \in Nat
      BY <1>0 DEF Nums
    <3>3. (n - 1) + left <= MaxBatch /\ curr_seq + left <= rhead /\ n - 1 \in Nat
      BY <1>3
    <3> QED BY <3>1, <3>2, <3>3
  <2> QED BY <1>1, <1>3, <1>6, <1>7, <2>1, <2>2 DEF ReaderOK
<1>11. DataOK'
  <2>1. SafeUse => r.data = Record(r.seq)
    <3>1. records[n].seq = curr_seq
      <4>1. records[n].seq = First + n - 1  BY <1>1, <1>3 DEF ReaderOK
      <4>2. First = curr_seq - (n - 1)  BY <1>3 DEF First
      <4> QED BY <1>0, <4>1, <4>2 DEF Nums
    <3>2. SafeUse => r.data.lo = curr_seq + 1
      BY <1>1, <1>4 DEF DataOK
    <3>3. SafeUse => r.data.hi = curr_seq + 1
      BY <1>1, <1>3, <1>4, CopiedSlot DEF Record
    <3>4. r.data = [lo |-> r.data.lo, hi |-> r.data.hi]
      BY <1>4 DEF Copy
    <3> QED BY <1>4, <3>1, <3>2, <3>3, <3>4 DEF Record
  <2>2. SafeUse => \A k \in 1 .. n : records'[k].data = Record(records'[k].seq)
    <3>1. SafeUse => \A k \in 1 .. n - 1 : records[k].data = Record(records[k].seq)
      BY <1>1, <1>3 DEF DataOK
    <3> QED BY <1>3, <1>6, <2>1, <3>1
  <2>3. rpc' # "half"  BY <1>1
  <2> QED BY <1>1, <1>2, <1>7, <2>2, <2>3, KeptIntact DEF DataOK, Slot, Record
<1>12. HistoryOK'
  BY <1>1, KeptHistory DEF HistoryOK
<1> QED BY <1>8, <1>9, <1>10, <1>11, <1>12 DEF IInv

LEMMA ReadEndIInv ==
    ASSUME IInv, ReadEnd
    PROVE  IInv'
<1> DEFINE n == Len(records)
<1>0. Nums
  BY Numbers DEF IInv
<1>1. /\ rpc = "copy" /\ rpc' = "return" /\ left = 0
      /\ local_read_seq' = curr_seq
      /\ tail_seq' = IF curr_seq > rtail THEN curr_seq ELSE tail_seq
      /\ UNCHANGED <<use, lock, head_seq, dropped_count, slots, wpc, whead, wtail, wdropped,
                     rhead, rtail, curr_seq, left, records, delivered, attaches, abandoned>>
      /\ TypeOK /\ LockOK /\ WriterOK /\ ReaderOK /\ QuietOK /\ LockedOK /\ HistoryOK /\ DataOK
      /\ Reading /\ Reading' /\ Copying /\ ~ Copying' /\ (Writing' <=> Writing)
  BY DEF ReadEnd, Keep, writer, reading, IInv, Reading, Copying, Writing
<1>2. OneObject' = OneObject /\ NeverOverwrites' = NeverOverwrites /\ SafeUse' = SafeUse
  BY <1>1 DEF OneObject, NeverOverwrites, Overwrites, SafeUse
<1>3. /\ Copied = n /\ n \in Nat /\ n > 0 /\ First = curr_seq - n /\ First \in Nat
      /\ curr_seq <= head_seq /\ local_read_seq <= First
      /\ \A k \in 1 .. n : records[k].seq = First + k - 1
  <2>1. Copied = n  BY <1>1 DEF Copied
  <2> QED BY <1>1, <2>1, <1>0, SMTT(30) DEF Nums, ReaderOK, First
<1>4. Copied' = Copied /\ First' = First
  BY <1>1 DEF Copied, First
<1> HIDE DEF n
<1>5. OneObject => rtail = tail_seq /\ First = tail_seq /\ ~ Writing /\ tail_seq' = curr_seq
  BY <1>1, <1>3, <1>0 DEF Nums, LockOK, LockedOK
<1>6. tail_seq' \in Nat /\ tail_seq' <= head_seq
  BY <1>1, <1>3, <1>0 DEF Nums
<1>7. TypeOK'
  <2>1. OneObject => head_seq - tail_seq' <= Capacity
    <3>1. OneObject => head_seq - tail_seq <= Capacity /\ tail_seq = curr_seq - n
                       /\ tail_seq' = curr_seq
      BY <1>1, <1>3, <1>5 DEF TypeOK
    <3> QED BY <1>0, <1>3, <3>1 DEF Nums
  <2>2. curr_seq \in 0 .. head_seq /\ tail_seq' \in 0 .. head_seq
    BY <1>0, <1>3, <1>6 DEF Nums
  <2> QED BY <1>1, <1>2, <2>1, <2>2 DEF TypeOK
<1>8. LockOK'
  BY <1>1, <1>2 DEF LockOK
<1>9. WriterOK'
  BY <1>1 DEF WriterOK, Slot, Record
<1>10. ReaderOK'
  BY <1>1, <1>3, <1>4 DEF ReaderOK, n
<1>11. QuietOK'
  <2>1. NeverOverwrites => /\ tail_seq' <= curr_seq /\ tail_seq <= tail_seq'
                           /\ curr_seq - n = local_read_seq
    BY <1>1, <1>3, <1>0, SMTT(30) DEF Nums, QuietOK
  <2>2. NeverOverwrites => /\ tail_seq' <= local_read_seq'
                           /\ head_seq - tail_seq' <= Capacity
                           /\ (Writing => wtail <= tail_seq' /\ whead - wtail < Capacity)
    BY <1>1, <1>6, <2>1, <1>0 DEF Nums, QuietOK
  <2> QED BY <1>1, <1>2, <2>2 DEF QuietOK
<1>12. LockedOK'
  <2>1. OneObject => head_seq - curr_seq <= Capacity
    BY <1>1, <1>3, <1>5, <1>0 DEF Nums, TypeOK
  <2>2. ~ (head_seq - curr_seq > Capacity) <=> head_seq - curr_seq <= Capacity
    BY <1>1, <1>0 DEF Nums
  <2>3. OneObject => rhead = head_seq  BY <1>1 DEF LockedOK
  <2> QED BY <1>1, <1>2, <1>5, <2>1, <2>2, <2>3 DEF LockedOK
<1>13. HistoryOK'
  <2>1. InHand = 0 /\ InHand' = n /\ Behind = local_read_seq /\ Behind' = First /\ Held = {}
        /\ Held' = {records[k].seq : k \in 1 .. n}
    BY <1>1, <1>4 DEF InHand, Behind, Held, n
  <2>2. OneObject => tail_seq' = Len(delivered) + n + dropped_count
    <3>1. OneObject => tail_seq = Len(delivered) + 0 + dropped_count
      BY <1>1, <2>1 DEF HistoryOK
    <3> QED BY <1>0, <1>3, <1>5, <3>1 DEF Nums
  <2>3. attaches = 0 => InOrder' /\ Before(Behind)'
    <3>1. attaches = 0 => InOrder /\ Before(local_read_seq)  BY <1>1, <2>1 DEF HistoryOK
    <3>2. ASSUME attaches = 0, NEW k \in 1 .. Len(delivered)
          PROVE  delivered[k].seq < First
      <4>1. delivered[k].seq < local_read_seq  BY <3>1, <3>2 DEF Before
      <4>2. delivered[k].seq \in Nat
        <5>1. delivered[k] \in Copy  BY <1>1, <3>2, Sequences, ElementOfSeq
        <5> QED BY <5>1, MmapRingAssumption DEF Copy, Half
      <4> QED BY <1>0, <1>3, <4>1, <4>2 DEF Nums
    <3>3. attaches = 0 => Before(Behind)'  BY <1>1, <2>1, <3>2 DEF Before
    <3> QED BY <1>1, <3>1, <3>3 DEF InOrder
  <2>4. NeverOverwrites =>
          (Unreturned(local_read_seq) \ Held)' \subseteq Unreturned(local_read_seq) \ Held
    <3> SUFFICES ASSUME NeverOverwrites, NEW s \in 0 .. curr_seq - 1, s \notin Held',
                        \A k \in 1 .. Len(delivered) : delivered[k].seq # s
                 PROVE  s \in 0 .. local_read_seq - 1
      BY <1>1, <2>1 DEF Unreturned
    <3>1. First = local_read_seq  BY <1>1 DEF QuietOK
    <3>2. ASSUME ~ (s < local_read_seq) PROVE FALSE
      <4> DEFINE k == s - First + 1
      <4>1. k \in 1 .. n /\ First + k - 1 = s  BY <1>0, <1>3, <3>1, <3>2 DEF Nums
      <4>2. records[k].seq = s  BY <1>3, <4>1
      <4> HIDE DEF k
      <4> QED BY <2>1, <4>1, <4>2
    <3> QED BY <1>0, <3>2 DEF Nums
  <2>5. NeverOverwrites => Cardinality((Unreturned(local_read_seq) \ Held)') <= abandoned
    BY <1>0, <1>1, <2>4, SmallerUnreturned DEF HistoryOK, Nums
  <2> QED BY <1>1, <1>2, <2>1, <2>2, <2>3, <2>5 DEF HistoryOK
<1>14. DataOK'
  <2>1. SafeUse => Oldest <= Oldest' /\ Oldest \in Nat /\ Oldest' \in Nat
    <3>1. CASE NeverOverwrites
      BY <1>1, <1>3, <1>6, <3>1, <1>0 DEF Nums, QuietOK, Oldest
    <3>2. CASE OneObject
      <4>1. Oldest = tail_seq /\ Oldest' = tail_seq' /\ tail_seq' = curr_seq
            /\ tail_seq = curr_seq - n
        BY <1>1, <1>3, <1>5, <3>2 DEF Oldest
      <4> QED BY <1>0, <1>3, <1>6, <4>1 DEF Nums
    <3> QED BY <3>1, <3>2 DEF SafeUse
  <2>2. SafeUse => \A s \in Oldest' .. head_seq - 1 : slots[Slot(s)] = Record(s)
    BY <1>1, <2>1, <1>0 DEF Nums, DataOK
  <2>3. rpc' # "half"  BY <1>1
  <2> QED BY <1>1, <1>2, <1>4, <2>2, <2>3, KeptIntact DEF DataOK, Slot, Record
<1> QED BY <1>7, <1>8, <1>9, <1>10, <1>11, <1>12, <1>13, <1>14 DEF IInv

LEMMA ReadReturnIInv ==
    ASSUME IInv, ReadReturn
    PROVE  IInv'
<1> DEFINE n == Len(records)
           d == Len(delivered)
<1>0. Nums
  BY Numbers DEF IInv
<1>1. /\ rpc = "return" /\ rpc' = "idle"
      /\ delivered' = delivered \o records
      /\ lock' = FALSE
      /\ UNCHANGED <<use, head_seq, tail_seq, dropped_count, slots, wpc, whead, wtail, wdropped,
                     rhead, rtail, curr_seq, left, records, local_read_seq, attaches, abandoned>>
      /\ TypeOK /\ LockOK /\ WriterOK /\ ReaderOK /\ QuietOK /\ LockedOK /\ HistoryOK /\ DataOK
      /\ Reading /\ ~ Reading' /\ ~ Copying /\ ~ Copying' /\ (Writing' <=> Writing)
  BY DEF ReadReturn, Release, shared, writer, reading, IInv, Reading, Copying, Writing
<1>2. OneObject' = OneObject /\ NeverOverwrites' = NeverOverwrites /\ SafeUse' = SafeUse
  BY <1>1 DEF OneObject, NeverOverwrites, Overwrites, SafeUse
<1>3. /\ Copied = n /\ n \in Nat /\ d \in Nat /\ First = curr_seq - n /\ First \in Nat
      /\ curr_seq = local_read_seq
      /\ \A k \in 1 .. n : records[k].seq = First + k - 1
  <2>1. Copied = n  BY <1>1 DEF Copied
  <2> QED BY <1>1, <2>1, <1>0, SMTT(30) DEF Nums, ReaderOK, First
<1>4. /\ delivered \in Seq(Copy) /\ delivered' \in Seq(Copy)
      /\ Len(delivered') = d + n
      /\ \A k \in 1 .. d : delivered'[k] = delivered[k]
      /\ \A k \in 1 .. n : delivered'[d + k] = records[k] /\ d + k \in 1 .. d + n
      /\ \A k \in 1 .. d + n : k \in 1 .. d \/ (k - d \in 1 .. n /\ k = d + (k - d))
  <2>1. /\ records \in Seq(Copy) /\ delivered \in Seq(Copy)
    BY <1>1, Sequences
  <2>2. /\ delivered' \in Seq(Copy) /\ Len(delivered') = d + n
        /\ \A k \in 1 .. d + n : delivered'[k] = IF k <= d THEN delivered[k] ELSE records[k - d]
    BY <1>1, <2>1, ConcatProperties
  <2>3. \A k \in 1 .. d : k \in 1 .. d + n /\ k <= d
    BY <1>3
  <2>4. \A k \in 1 .. n : d + k \in 1 .. d + n /\ ~ (d + k <= d) /\ (d + k) - d = k
    BY <1>3
  <2>5. \A k \in 1 .. d + n : k \in 1 .. d \/ (k - d \in 1 .. n /\ k = d + (k - d))
    BY <1>3
  <2> QED BY <2>1, <2>2, <2>3, <2>4, <2>5
<1> HIDE DEF n, d
<1>5. TypeOK'
  <2>1. lock' \in BOOLEAN  BY <1>1
  <2> QED BY <1>1, <1>2, <1>4, <2>1 DEF TypeOK, Copy
<1>6. LockOK' /\ ReaderOK'
  BY <1>1, <1>2 DEF LockOK, ReaderOK
<1>7. WriterOK'
  BY <1>1 DEF WriterOK, Slot, Record
<1>8. QuietOK' /\ LockedOK'
  BY <1>1, <1>2 DEF QuietOK, LockedOK, LockOK
<1>9. HistoryOK'
  <2>1. InHand = n /\ InHand' = 0 /\ Behind = First /\ Behind' = local_read_seq /\ Held' = {}
        /\ Held = {records[k].seq : k \in 1 .. n}
    BY <1>1 DEF InHand, Behind, Held, n
  <2>2. OneObject => tail_seq = (d + n) + 0 + dropped_count
    <3>1. OneObject => tail_seq = d + n + dropped_count
      BY <1>1, <2>1 DEF HistoryOK, d
    <3> QED BY <1>0, <1>3, <3>1 DEF Nums
  <2>3. ASSUME attaches = 0
        PROVE  InOrder' /\ Before(Behind)'
    <3>1. /\ \A k \in 1 .. d : delivered[k].seq < First
          /\ \A i, j \in 1 .. d : i < j => delivered[i].seq < delivered[j].seq
      BY <1>1, <2>1, <2>3 DEF HistoryOK, InOrder, Before, d
    <3>2. \A k \in 1 .. d : delivered[k].seq \in Nat
      <4>1. \A k \in 1 .. d : delivered[k] \in Copy  BY <1>4, ElementOfSeq DEF d
      <4> QED BY <4>1, MmapRingAssumption DEF Copy, Half
    <3>3. ASSUME NEW k \in 1 .. d + n
          PROVE  IF k \in 1 .. d THEN delivered'[k].seq = delivered[k].seq
                                 ELSE delivered'[k].seq = First + (k - d) - 1
      <4>1. CASE k \in 1 .. d  BY <1>4, <4>1
      <4>2. CASE k \notin 1 .. d
        <5>1. k - d \in 1 .. n /\ k = d + (k - d)  BY <1>4, <4>2
        <5>2. delivered'[k] = records[k - d]  BY <1>4, <5>1
        <5> QED BY <1>3, <4>2, <5>1, <5>2
      <4> QED BY <4>1, <4>2
    <3>4. ASSUME NEW k \in 1 .. d + n
          PROVE  delivered'[k].seq < local_read_seq
      <4>1. CASE k \in 1 .. d
        <5>1. delivered'[k].seq = delivered[k].seq  BY <3>3, <4>1
        <5>2. delivered[k].seq < First /\ delivered[k].seq \in Nat  BY <3>1, <3>2, <4>1
        <5> QED BY <1>0, <1>3, <5>1, <5>2 DEF Nums
      <4>2. CASE k \notin 1 .. d
        <5>1. delivered'[k].seq = First + (k - d) - 1  BY <3>3, <4>2
        <5> QED BY <1>0, <1>3, <5>1 DEF Nums
      <4> QED BY <4>1, <4>2
    <3>5. ASSUME NEW i \in 1 .. d + n, NEW j \in 1 .. d + n, i < j
          PROVE  delivered'[i].seq < delivered'[j].seq
      <4>1. CASE j \in 1 .. d
        <5>1. i \in 1 .. d  BY <1>3, <3>5, <4>1
        <5>2. delivered'[i].seq = delivered[i].seq /\ delivered'[j].seq = delivered[j].seq
          BY <3>3, <4>1, <5>1
        <5> QED BY <3>1, <3>5, <4>1, <5>1, <5>2
      <4>2. CASE j \notin 1 .. d /\ i \in 1 .. d
        <5>1. delivered'[i].seq = delivered[i].seq /\ delivered'[j].seq = First + (j - d) - 1
          BY <3>3, <4>2
        <5>2. delivered[i].seq < First /\ delivered[i].seq \in Nat  BY <3>1, <3>2, <4>2
        <5>3. j - d \in 1 .. n  BY <1>4, <4>2
        <5> QED BY <1>3, <5>1, <5>2, <5>3
      <4>3. CASE j \notin 1 .. d /\ i \notin 1 .. d
        <5>1. delivered'[i].seq = First + (i - d) - 1 /\ delivered'[j].seq = First + (j - d) - 1
          BY <3>3, <4>3
        <5> QED BY <1>3, <3>5, <5>1
      <4> QED BY <4>1, <4>2, <4>3
    <3> QED BY <1>4, <2>1, <3>4, <3>5, <1>1 DEF InOrder, Before
  <2>4. (Unreturned(local_read_seq) \ Held)' \subseteq Unreturned(local_read_seq) \ Held
    <3> SUFFICES ASSUME NEW s \in 0 .. local_read_seq - 1,
                        \A k \in 1 .. d + n : delivered'[k].seq # s
                 PROVE  s \in Unreturned(local_read_seq) \ Held
      BY <1>1, <1>4, <2>1 DEF Unreturned
    <3>1. \A k \in 1 .. d : k \in 1 .. d + n  BY <1>3
    <3>2. \A k \in 1 .. d : delivered[k].seq # s  BY <1>4, <3>1
    <3>3. \A k \in 1 .. n : records[k].seq # s  BY <1>4
    <3> QED BY <2>1, <3>2, <3>3 DEF Unreturned, d
  <2>5. NeverOverwrites => Cardinality((Unreturned(local_read_seq) \ Held)') <= abandoned
    BY <1>0, <1>1, <2>4, SmallerUnreturned DEF HistoryOK, Nums
  <2> QED BY <1>1, <1>2, <1>4, <2>1, <2>2, <2>3, <2>5 DEF HistoryOK
<1>10. DataOK'
  <2>1. Oldest' = Oldest  BY <1>1 DEF Oldest
  <2>2. ASSUME SafeUse PROVE IntactRecords'
    <3> SUFFICES ASSUME NEW k \in 1 .. Len(delivered')
                 PROVE  delivered'[k].data = Record(delivered'[k].seq)
      BY DEF IntactRecords, Record
    <3>1. CASE k \in 1 .. d
      <4>1. delivered[k].data = Record(delivered[k].seq)
        BY <1>1, <2>2, <3>1 DEF DataOK, IntactRecords, d
      <4> QED BY <1>4, <3>1, <4>1
    <3>2. CASE k \notin 1 .. d
      <4>1. k - d \in 1 .. n /\ k = d + (k - d)  BY <1>4, <3>2
      <4>2. records[k - d].data = Record(records[k - d].seq)
        BY <1>1, <1>3, <2>2, <4>1 DEF DataOK
      <4>3. delivered'[k] = records[k - d]
        BY <1>4, <4>1
      <4> QED BY <4>2, <4>3
    <3> QED BY <3>1, <3>2
  <2>3. rpc' # "half"  BY <1>1
  <2> QED BY <1>1, <1>2, <2>1, <2>2, <2>3 DEF DataOK, Slot, Record
<1> QED BY <1>5, <1>6, <1>7, <1>8, <1>9, <1>10 DEF IInv

----------------------------------------------------------------------------
\* Kills

LEMMA AttachIInv ==
    ASSUME IInv, Attach
    PROVE  IInv'
<1> DEFINE U == Unreturned(local_read_seq) \ Held
<1>0. Nums
  BY Numbers DEF IInv
<1>1. /\ attaches < MaxAttaches /\ attaches' = attaches + 1 /\ ~ OneObject
      /\ local_read_seq' = tail_seq /\ rpc' = "idle"
      /\ abandoned' = IF rpc = "return" THEN abandoned + Len(records) ELSE abandoned
      /\ UNCHANGED <<use, lock, head_seq, tail_seq, dropped_count, slots, wpc, whead, wtail,
                     wdropped, rhead, rtail, curr_seq, left, records, delivered>>
      /\ TypeOK /\ LockOK /\ WriterOK /\ ReaderOK /\ QuietOK /\ LockedOK /\ HistoryOK /\ DataOK
      /\ ~ Reading' /\ ~ Copying' /\ (Writing' <=> Writing)
  BY DEF Attach, Abandon, Keep, shared, writer, reading, IInv, Reading, Copying, Writing
<1>2. OneObject' = OneObject /\ NeverOverwrites' = NeverOverwrites /\ SafeUse' = SafeUse
  BY <1>1 DEF OneObject, NeverOverwrites, Overwrites, SafeUse
<1>3. TypeOK'
  <2>1. abandoned <= MaxBatch * attaches /\ Len(records) <= MaxBatch
    BY <1>0, <1>1 DEF Nums, TypeOK
  <2>2. MaxBatch * (attaches + 1) = MaxBatch * attaches + MaxBatch /\ MaxBatch * attaches \in Nat
    BY <1>0, SMT DEF Nums
  <2>3. abandoned' \in 0 .. MaxBatch * attaches'
    <3> DEFINE m == MaxBatch * attaches
    <3>1. m \in Nat /\ abandoned <= m /\ MaxBatch * attaches' = m + MaxBatch
      BY <1>1, <2>1, <2>2
    <3> HIDE DEF m
    <3>2. abandoned' \in Nat /\ abandoned' <= m + MaxBatch
      BY <1>0, <1>1, <2>1, <3>1 DEF Nums
    <3> QED BY <1>0, <3>1, <3>2 DEF Nums
  <2>4. attaches' \in 0 .. MaxAttaches /\ tail_seq \in 0 .. head_seq  BY <1>0, <1>1 DEF Nums
  <2> QED BY <1>1, <1>2, <2>3, <2>4 DEF TypeOK
<1>4. LockOK' /\ WriterOK' /\ ReaderOK' /\ LockedOK'
  BY <1>1, <1>2 DEF LockOK, WriterOK, ReaderOK, LockedOK, Slot, Record
<1>5. QuietOK'
  BY <1>1, <1>2, <1>0, SMTT(30) DEF Nums, QuietOK
<1>6. HistoryOK'
  <2>1. InHand' = 0 /\ Held' = {} /\ attaches' # 0
    BY <1>0, <1>1 DEF InHand, Held, Nums
  <2>2. IsFiniteSet(U) /\ Cardinality(U) \in Nat
    <3>1. U \subseteq 0 .. local_read_seq - 1  BY DEF Unreturned
    <3> HIDE DEF U
    <3> QED BY <1>0, <3>1, FiniteBehind, FS_CardinalityType DEF Nums
  <2>3. IsFiniteSet(Held) /\ Cardinality(Held) \in Nat
        /\ Cardinality(Held) <= IF rpc = "return" THEN Len(records) ELSE 0
    <3>1. CASE rpc = "return"
      <4>1. /\ Copied = Len(records) /\ First = curr_seq - Len(records) /\ First \in Nat
            /\ \A k \in 1 .. Len(records) : records[k].seq = First + k - 1
        BY <1>1, <3>1 DEF ReaderOK, Reading, Copied, First
      <4>2. Held \subseteq First .. curr_seq - 1
        BY <1>0, <3>1, <4>1 DEF Nums, Held
      <4>3. /\ IsFiniteSet(First .. curr_seq - 1)
            /\ Cardinality(First .. curr_seq - 1) = Len(records)
        <5>1. First \in Int /\ curr_seq - 1 \in Int  BY <1>0, <4>1 DEF Nums
        <5>2. /\ IsFiniteSet(First .. curr_seq - 1)
              /\ Cardinality(First .. curr_seq - 1)
                   = IF First > curr_seq - 1 THEN 0 ELSE (curr_seq - 1) - First + 1
          BY <5>1, FS_Interval
        <5> QED BY <1>0, <4>1, <5>2 DEF Nums
      <4>4. IsFiniteSet(Held) /\ Cardinality(Held) <= Cardinality(First .. curr_seq - 1)
        BY <4>2, <4>3, FS_Subset
      <4>5. Cardinality(Held) \in Nat  BY <4>4, FS_CardinalityType
      <4> QED BY <3>1, <4>3, <4>4, <4>5
    <3>2. CASE rpc # "return"
      <4>1. Held = {}  BY <3>2 DEF Held
      <4> QED BY <3>2, <4>1, FS_EmptySet
    <3> QED BY <3>1, <3>2
  <2>4. IsFiniteSet(U \cup Held) /\ Cardinality(U \cup Held) <= Cardinality(U) + Cardinality(Held)
    <3>1. /\ IsFiniteSet(U \cup Held)
          /\ Cardinality(U \cup Held) =
               Cardinality(U) + Cardinality(Held) - Cardinality(U \cap Held)
      BY <2>2, <2>3, FS_Union
    <3>2. Cardinality(U \cap Held) \in Nat
      BY <2>2, FS_Intersection, FS_CardinalityType
    <3> HIDE DEF U
    <3> QED BY <2>2, <2>3, <3>1, <3>2
  <2>5. NeverOverwrites =>
          (Unreturned(local_read_seq) \ Held)' \subseteq U \cup Held
    <3>1. NeverOverwrites => \A s \in 0 .. tail_seq - 1 : s \in 0 .. local_read_seq - 1
      <4>1. NeverOverwrites => tail_seq <= local_read_seq  BY <1>1 DEF QuietOK
      <4> QED BY <1>0, <4>1 DEF Nums
    <3> QED BY <1>1, <3>1 DEF Unreturned
  <2>6. NeverOverwrites => Cardinality((Unreturned(local_read_seq) \ Held)') <= abandoned'
    <3> SUFFICES ASSUME NeverOverwrites
                 PROVE  Cardinality((Unreturned(local_read_seq) \ Held)') <= abandoned'
      OBVIOUS
    <3> DEFINE T == (Unreturned(local_read_seq) \ Held)'
    <3>1. Cardinality(U) <= abandoned  BY <1>1 DEF HistoryOK
    <3>2. T \subseteq U \cup Held  BY <2>5
    <3> HIDE DEF T, U
    <3>3. IsFiniteSet(T) /\ Cardinality(T) <= Cardinality(U \cup Held)
      BY <2>4, <3>2, FS_Subset
    <3>4. Cardinality(T) \in Nat /\ Cardinality(U \cup Held) \in Nat
      BY <2>4, <3>3, FS_CardinalityType
    <3>5. Cardinality(T) <= abandoned'
      BY <1>0, <1>1, <2>2, <2>3, <2>4, <3>1, <3>3, <3>4 DEF Nums
    <3> QED BY <3>5 DEF T
  <2> QED BY <1>1, <1>2, <2>1, <2>6 DEF HistoryOK
<1>7. DataOK'
  <2>1. Oldest' = Oldest /\ rpc' # "half"  BY <1>1 DEF Oldest
  <2> QED BY <1>1, <1>2, <2>1, KeptIntact DEF DataOK, Slot, Record
<1> QED BY <1>3, <1>4, <1>5, <1>6, <1>7 DEF IInv

LEMMA WriterKilledIInv ==
    ASSUME IInv, WriterKilled
    PROVE  IInv'
<1>0. Nums
  BY Numbers DEF IInv
<1>1. /\ ~ OneObject /\ Writing /\ ~ Writing' /\ wpc' = "idle"
      /\ UNCHANGED <<use, lock, head_seq, tail_seq, dropped_count, slots, whead, wtail,
                     wdropped, rpc, rhead, rtail, curr_seq, left, records, local_read_seq,
                     delivered, attaches, abandoned>>
      /\ TypeOK /\ LockOK /\ ReaderOK /\ QuietOK /\ LockedOK /\ HistoryOK /\ DataOK
      /\ (Reading' <=> Reading) /\ (Copying' <=> Copying)
  BY DEF WriterKilled, Keep, shared, reader, reading, IInv, Reading, Copying, Writing
<1>2. OneObject' = OneObject /\ NeverOverwrites' = NeverOverwrites /\ SafeUse' = SafeUse
  BY <1>1 DEF OneObject, NeverOverwrites, Overwrites, SafeUse
<1>3. Copied' = Copied /\ First' = First
  BY <1>1 DEF Copied, First
<1>4. TypeOK'
  BY <1>1, <1>2 DEF TypeOK
<1>5. LockOK' /\ WriterOK' /\ ReaderOK' /\ QuietOK' /\ LockedOK'
  BY <1>1, <1>2, <1>3 DEF LockOK, WriterOK, ReaderOK, QuietOK, LockedOK
<1>6. HistoryOK'
  BY <1>1, KeptHistory DEF HistoryOK
<1>7. DataOK'
  <2>1. SafeUse => Oldest <= Oldest' /\ Oldest \in Nat /\ Oldest' \in Nat
    BY <1>1, <1>0 DEF Nums, QuietOK, Oldest, SafeUse
  <2>2. SafeUse => \A s \in Oldest' .. head_seq - 1 : slots[Slot(s)] = Record(s)
    BY <1>1, <2>1, <1>0 DEF Nums, DataOK
  <2> QED BY <1>1, <1>2, <1>3, <2>2, KeptIntact DEF DataOK, Slot, Record
<1> QED BY <1>4, <1>5, <1>6, <1>7 DEF IInv

----------------------------------------------------------------------------
\* Theorems

LEMMA NextIInv ==
    ASSUME IInv, [Next]_vars
    PROVE  IInv'
<1>1. CASE WriterNext
  BY <1>1, WriteBeginIInv, WriteFirstHalfIInv, WriteSecondHalfIInv, WriteHeaderIInv
     DEF WriterNext
<1>2. CASE ReaderNext
  BY <1>2, ReadBeginIInv, CopyFirstHalfIInv, CopySecondHalfIInv, ReadEndIInv,
     ReadReturnIInv DEF ReaderNext
<1>3. CASE Attach \/ WriterKilled
  BY <1>3, AttachIInv, WriterKilledIInv
<1>4. CASE UNCHANGED vars
  <2>1. /\ UNCHANGED <<use, lock, head_seq, tail_seq, dropped_count, slots, wpc, whead, wtail,
                       wdropped, rpc, rhead, rtail, curr_seq, left, records, local_read_seq,
                       delivered, attaches, abandoned>>
        /\ TypeOK /\ LockOK /\ WriterOK /\ ReaderOK /\ QuietOK /\ LockedOK /\ HistoryOK /\ DataOK
    BY <1>4 DEF vars, shared, writer, reader, reading, IInv
  <2>2. OneObject' = OneObject /\ NeverOverwrites' = NeverOverwrites /\ SafeUse' = SafeUse
    BY <2>1 DEF OneObject, NeverOverwrites, Overwrites, SafeUse
  <2>3. /\ Copied' = Copied /\ First' = First /\ Oldest' = Oldest
        /\ (Writing' <=> Writing) /\ (Reading' <=> Reading) /\ (Copying' <=> Copying)
    BY <2>1 DEF Copied, First, Oldest, Writing, Reading, Copying
  <2>4. TypeOK' /\ LockOK' /\ WriterOK' /\ ReaderOK' /\ QuietOK' /\ LockedOK'
    BY <2>1, <2>2, <2>3, ZenonT(60)
       DEF TypeOK, LockOK, WriterOK, ReaderOK, QuietOK, LockedOK, Slot, Record, Dropping
  <2>5. DataOK'
    BY <2>1, <2>2, <2>3, KeptIntact DEF DataOK, Slot, Record
  <2>6. HistoryOK'
    BY <2>1, KeptHistory DEF HistoryOK
  <2> QED BY <2>4, <2>5, <2>6 DEF IInv
<1> QED BY <1>1, <1>2, <1>3, <1>4 DEF Next

THEOREM Invariance == Spec => []IInv
<1>1. Init => IInv  BY InitIInv
<1>2. IInv /\ [Next]_vars => IInv'  BY NextIInv
<1> QED BY <1>1, <1>2, PTL DEF Spec

\* However the ring is used, and whoever is killed, no counter passes the head, and
\* under one lock the tail stays within a ring of it.
THEOREM TypeCorrect == Spec => []TypeOK
<1>1. IInv => TypeOK  BY DEF IInv
<1> QED BY <1>1, Invariance, PTL

\* A reader that is not killed is returned each record once and in order; under one
\* lock dropped_count is exactly the number of records behind the tail that no call
\* returned; and without dropping, whoever is killed, the only records behind the
\* reader that no call returned are those which killed readers had in hand.
THEOREM Accounting == Spec => []NothingSkipped
<1>1. ASSUME IInv PROVE NothingSkipped
  <2>1. attaches = 0 =>
          \A i, j \in 1 .. Len(delivered) : i < j => delivered[i].seq < delivered[j].seq
    BY <1>1 DEF IInv, HistoryOK, InOrder
  <2>2. ASSUME OneObject, rpc = "idle", wpc = "idle"
        PROVE  Cardinality(Unreturned(tail_seq)) = dropped_count
    <3>0. Nums  BY <1>1, Numbers DEF IInv
    <3>1. /\ attaches = 0 /\ InOrder /\ Before(local_read_seq)
          /\ tail_seq = Len(delivered) + 0 + dropped_count
      BY <1>1, <2>2 DEF IInv, HistoryOK, Behind, InHand
    <3>2. local_read_seq <= tail_seq
      BY <1>1, <2>2, <3>0 DEF IInv, LockedOK, Nums
    <3>3. delivered \in Seq(Copy)  BY <1>1, Sequences DEF IInv
    <3>4. Before(tail_seq)
      <4>1. \A k \in 1 .. Len(delivered) : delivered[k] \in Copy  BY <3>3, ElementOfSeq
      <4>2. \A k \in 1 .. Len(delivered) : delivered[k].seq \in Nat
        BY <4>1, MmapRingAssumption DEF Copy, Half
      <4> QED BY <3>0, <3>1, <3>2, <4>2 DEF Before, Nums
    <3>5. Cardinality(Unreturned(tail_seq)) = tail_seq - Len(delivered)
      BY <3>0, <3>1, <3>3, <3>4, CountUnreturned DEF Nums
    <3> QED BY <3>0, <3>1, <3>5 DEF Nums
  <2>3. TRUE \notin Overwrites => Cardinality(Unreturned(local_read_seq) \ Held) <= abandoned
    BY <1>1 DEF IInv, HistoryOK, NeverOverwrites
  <2> QED BY <2>1, <2>2, <2>3 DEF NothingSkipped
<1> QED BY <1>1, Invariance, PTL

\* Where one lock covers both sides, or the writer never drops a record, no call
\* returns a torn record or another one than was written under its number.
THEOREM Whole ==
    ASSUME SafeUses
    PROVE  Spec => []IntactRecords
<1>1. TypeOK => SafeUse
  BY DEF SafeUses, SafeUse, TypeOK, OneObject, NeverOverwrites, Overwrites
<1>2. IInv => IntactRecords
  BY <1>1 DEF IInv, DataOK
<1> QED BY <1>2, Invariance, PTL
=============================================================================

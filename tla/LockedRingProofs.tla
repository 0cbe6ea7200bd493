-------------------------- MODULE LockedRingProofs --------------------------
(***************************************************************************)
(* For every capacity, every set of records, and any number of puts and    *)
(* kills: the file-locked ring keeps the records in order, implements a    *)
(* bounded FIFO channel, and its consumer gives the engine what it took.   *)
(* For every set of packed orders: the engine sees the orders created.     *)
(***************************************************************************)
EXTENDS OrderPipeline, SequenceTheorems, TLAPS

\* The holder of the lock knows the header, and from the copy to the header store
\* the slot and the local record agree.  The lock is what makes this inductive:
\* nobody else stores a header in between.
HeldHeader ==
    /\ ppc # "idle" => phdr = header /\ header.count # Capacity
    /\ ppc = "header" => slots[header.write_idx] = prec
    /\ cpc \in {"record", "header"} => chdr = header /\ header.count # 0
    /\ cpc = "header" => crec = slots[header.read_idx]

IInv == TypeOK /\ HeldHeader /\ FifoOrder

----------------------------------------------------------------------------
\* Arithmetic of slots

LEMMA ModSmall ==
    ASSUME NEW C \in Nat \ {0}, NEW x \in 0 .. C - 1 PROVE x % C = x
BY SMT

LEMMA ModWrap ==
    ASSUME NEW C \in Nat \ {0}, NEW x \in C .. 2 * C - 1 PROVE x % C = x - C
BY SMT

\* The slot i places after slot a.
LEMMA SlotAfter ==
    ASSUME NEW C \in Nat \ {0}, NEW a \in 0 .. C - 1, NEW i \in 0 .. C
    PROVE  (a + i) % C = IF a + i < C THEN a + i ELSE a + i - C
<1>1. CASE a + i < C
  <2>1. a + i \in 0 .. C - 1  BY <1>1
  <2>2. (a + i) % C = a + i  BY <2>1, ModSmall
  <2> QED BY <1>1, <2>2
<1>2. CASE ~ (a + i < C)
  <2>1. a + i \in C .. 2 * C - 1  BY <1>2
  <2>2. (a + i) % C = a + i - C  BY <2>1, ModWrap
  <2> QED BY <1>2, <2>2
<1> QED BY <1>1, <1>2

\* Fewer than C places apart, two slots differ.
LEMMA SlotsDiffer ==
    ASSUME NEW C \in Nat \ {0}, NEW a \in 0 .. C - 1,
           NEW i \in 0 .. C, NEW j \in 0 .. C, i < j, j - i < C
    PROVE  (a + i) % C # (a + j) % C
<1>1. (a + i) % C = IF a + i < C THEN a + i ELSE a + i - C  BY SlotAfter
<1>2. (a + j) % C = IF a + j < C THEN a + j ELSE a + j - C  BY SlotAfter
<1> QED BY <1>1, <1>2

\* Stepping first or last makes no difference.
LEMMA StepFirst ==
    ASSUME NEW C \in Nat \ {0}, NEW a \in 0 .. C - 1, NEW i \in 0 .. C - 1
    PROVE  /\ (a + 1) % C \in 0 .. C - 1
           /\ (((a + 1) % C) + i) % C = (a + (i + 1)) % C
<1>1. 1 \in 0 .. C /\ i \in 0 .. C /\ i + 1 \in 0 .. C  OBVIOUS
<1>2. (a + 1) % C = IF a + 1 < C THEN a + 1 ELSE a + 1 - C  BY <1>1, SlotAfter
<1>3. (a + 1) % C \in 0 .. C - 1  BY <1>2
<1>4. \A b \in 0 .. C - 1 : (b + i) % C = IF b + i < C THEN b + i ELSE b + i - C
  BY <1>1, SlotAfter
<1>5. (a + (i + 1)) % C = IF a + (i + 1) < C THEN a + (i + 1) ELSE a + (i + 1) - C
  BY <1>1, SlotAfter
<1> DEFINE b == (a + 1) % C
<1>6. (b + i) % C = IF b + i < C THEN b + i ELSE b + i - C  BY <1>3, <1>4
<1> QED BY <1>2, <1>3, <1>5, <1>6

LEMMA StepLast ==
    ASSUME NEW C \in Nat \ {0}, NEW a \in 0 .. C - 1, NEW i \in 0 .. C - 1
    PROVE  (((a + i) % C) + 1) % C = (a + (i + 1)) % C
<1>1. 1 \in 0 .. C /\ i \in 0 .. C /\ i + 1 \in 0 .. C  OBVIOUS
<1>2. (a + i) % C = IF a + i < C THEN a + i ELSE a + i - C  BY <1>1, SlotAfter
<1> DEFINE b == (a + i) % C
<1>3. b \in 0 .. C - 1  BY <1>2
<1>4. (b + 1) % C = IF b + 1 < C THEN b + 1 ELSE b + 1 - C  BY <1>1, <1>3, SlotAfter
<1>5. (a + (i + 1)) % C = IF a + (i + 1) < C THEN a + (i + 1) ELSE a + (i + 1) - C
  BY <1>1, SlotAfter
<1> QED BY <1>2, <1>4, <1>5

----------------------------------------------------------------------------
\* Sequences as functions

LEMMA AppendAsFunction ==
    ASSUME NEW S, NEW s \in Seq(S), NEW e \in S
    PROVE  Append(s, e) = [k \in 1 .. Len(s) + 1 |-> IF k = Len(s) + 1 THEN e ELSE s[k]]
<1> DEFINE t == Append(s, e)
<1>1. /\ t \in Seq(S) /\ Len(t) = Len(s) + 1 /\ Len(s) \in Nat
      /\ \A k \in 1 .. Len(s) : t[k] = s[k]
      /\ t[Len(s) + 1] = e
  BY AppendProperties, LenProperties
<1>2. t \in [1 .. Len(s) + 1 -> S]  BY <1>1, LenProperties
<1> HIDE DEF t
<1>3. \A k \in 1 .. Len(s) + 1 : t[k] = IF k = Len(s) + 1 THEN e ELSE s[k]
  BY <1>1
<1>4. t = [k \in 1 .. Len(s) + 1 |-> IF k = Len(s) + 1 THEN e ELSE s[k]]
  BY <1>2, <1>3
<1> QED BY <1>4 DEF t

LEMMA TailAsFunction ==
    ASSUME NEW S, NEW s \in Seq(S), s # <<>>
    PROVE  Tail(s) = [k \in 1 .. Len(s) - 1 |-> s[k + 1]]
<1> DEFINE t == Tail(s)
<1>1. /\ t \in Seq(S) /\ Len(t) = Len(s) - 1
      /\ \A k \in 1 .. Len(t) : t[k] = s[k + 1]
  BY HeadTailProperties
<1>2. t \in [1 .. Len(s) - 1 -> S]  BY <1>1, LenProperties
<1> HIDE DEF t
<1>3. t = [k \in 1 .. Len(s) - 1 |-> s[k + 1]]  BY <1>1, <1>2
<1> QED BY <1>3 DEF t

----------------------------------------------------------------------------
\* The contents of the ring

Place(k) == (header.read_idx + k - 1) % Capacity

LEMMA ContentsType ==
    ASSUME TypeOK
    PROVE  /\ header.read_idx \in 0 .. Capacity - 1 /\ header.write_idx \in 0 .. Capacity - 1
           /\ header.count \in 0 .. Capacity
           /\ \A k \in 1 .. header.count + 1 :
                 k <= Capacity + 1 => Place(k) \in 0 .. Capacity - 1
           /\ Contents \in Seq(Records) /\ Len(Contents) = header.count
           /\ \A k \in 1 .. header.count : Contents[k] = slots[Place(k)]
<1> USE LockedRingAssumption
<1>1. /\ header.read_idx \in 0 .. Capacity - 1 /\ header.write_idx \in 0 .. Capacity - 1
      /\ header.count \in 0 .. Capacity
  BY DEF TypeOK, Header
<1>2. ASSUME NEW k \in 1 .. header.count + 1, k <= Capacity + 1
      PROVE  Place(k) \in 0 .. Capacity - 1
  <2>1. k - 1 \in 0 .. Capacity  BY <1>1, <1>2
  <2> DEFINE r == header.read_idx
             i == k - 1
  <2>2. (r + i) % Capacity = IF r + i < Capacity THEN r + i ELSE r + i - Capacity
    BY <1>1, <2>1, SlotAfter
  <2>4. (header.read_idx + (k - 1)) % Capacity \in 0 .. Capacity - 1
    BY <1>1, <2>1, <2>2
  <2>3. header.read_idx + k - 1 = header.read_idx + (k - 1)  BY <1>1
  <2> QED BY <2>3, <2>4 DEF Place
<1>3. \A k \in 1 .. header.count : slots[Place(k)] \in Records
  <2>1. \A k \in 1 .. header.count : k \in 1 .. header.count + 1 /\ k <= Capacity + 1
    BY <1>1
  <2>2. \A k \in 1 .. header.count : Place(k) \in 0 .. Capacity - 1  BY <1>2, <2>1
  <2> QED BY <2>2 DEF TypeOK
<1>4. Contents = [k \in 1 .. header.count |-> slots[Place(k)]]
  BY DEF Contents, Place
<1>5. Contents \in [1 .. header.count -> Records]  BY <1>3, <1>4
<1>6. Contents \in Seq(Records) /\ Len(Contents) = header.count
  BY <1>1, <1>5
<1> QED BY <1>1, <1>2, <1>4, <1>6

\* Copying a record into the slot at the write index does not touch the others.
LEMMA CopyKeepsContents ==
    ASSUME IInv, PutRecord
    PROVE  Contents' = Contents
<1> USE LockedRingAssumption
<1>1. phdr = header /\ header.count # Capacity  BY DEF IInv, HeldHeader, PutRecord
<1>2. slots' = [slots EXCEPT ![header.write_idx] = prec] /\ header' = header
  BY <1>1 DEF PutRecord
<1>3. /\ header.read_idx \in 0 .. Capacity - 1 /\ header.count \in 0 .. Capacity - 1
      /\ header.write_idx = (header.read_idx + header.count) % Capacity
  BY <1>1 DEF IInv, TypeOK, Header
<1>4. \A k \in 1 .. header.count : Place(k) # header.write_idx
  <2> SUFFICES ASSUME NEW k \in 1 .. header.count PROVE Place(k) # header.write_idx
    OBVIOUS
  <2>1. /\ k - 1 \in 0 .. Capacity /\ header.count \in 0 .. Capacity
        /\ k - 1 < header.count /\ header.count - (k - 1) < Capacity
    BY <1>3
  <2>2. (header.read_idx + (k - 1)) % Capacity # (header.read_idx + header.count) % Capacity
    BY <1>3, <2>1, SlotsDiffer
  <2>3. header.read_idx + k - 1 = header.read_idx + (k - 1)  BY <1>3
  <2> QED BY <1>3, <2>2, <2>3 DEF Place
<1>5. \A k \in 1 .. header.count : slots'[Place(k)] = slots[Place(k)]
  BY <1>2, <1>4, ContentsType DEF IInv, TypeOK
<1> QED BY <1>2, <1>5 DEF Contents, Place

LEMMA PutAppends ==
    ASSUME IInv, PutHeader
    PROVE  /\ header.count < Capacity
           /\ header' = [header EXCEPT !.write_idx = (@ + 1) % Capacity, !.count = @ + 1]
           /\ Contents' = Append(Contents, prec)
<1> USE LockedRingAssumption
<1>1. phdr = header /\ header.count # Capacity /\ slots[header.write_idx] = prec
  BY DEF IInv, HeldHeader, PutHeader
<1>2. header' = [header EXCEPT !.write_idx = (@ + 1) % Capacity, !.count = @ + 1]
      /\ slots' = slots
  BY <1>1 DEF PutHeader
<1>3. header \in Header /\ header.write_idx = (header.read_idx + header.count) % Capacity
  BY DEF IInv, TypeOK
<1>4. header'.read_idx = header.read_idx /\ header'.count = header.count + 1
  BY <1>2, <1>3 DEF Header
<1>5. header.count \in Nat /\ header.count < Capacity /\ header.read_idx \in Nat
  BY <1>1, <1>3 DEF Header
<1>6. Place(header.count + 1) = header.write_idx
  <2>1. header.read_idx + (header.count + 1) - 1 = header.read_idx + header.count  BY <1>5
  <2> QED BY <1>3, <2>1 DEF Place
<1>7. Contents' = [k \in 1 .. header.count + 1 |-> slots[Place(k)]]
  BY <1>2, <1>4 DEF Contents, Place
<1>8. /\ Contents \in Seq(Records) /\ Len(Contents) = header.count /\ prec \in Records
      /\ \A k \in 1 .. header.count : Contents[k] = slots[Place(k)]
  BY ContentsType DEF IInv, TypeOK
<1>9. Append(Contents, prec) = [k \in 1 .. header.count + 1 |->
                                 IF k = header.count + 1 THEN prec ELSE Contents[k]]
  BY <1>8, AppendAsFunction
<1>10. \A k \in 1 .. header.count + 1 :
         slots[Place(k)] = IF k = header.count + 1 THEN prec ELSE Contents[k]
  BY <1>1, <1>5, <1>6, <1>8
<1> QED BY <1>2, <1>5, <1>7, <1>9, <1>10

LEMMA GetRemoves ==
    ASSUME IInv, GetHeader
    PROVE  /\ header.count > 0
           /\ header' = [header EXCEPT !.read_idx = (@ + 1) % Capacity, !.count = @ - 1]
           /\ Contents # <<>> /\ crec = Head(Contents) /\ Contents' = Tail(Contents)
<1> USE LockedRingAssumption
<1>1. chdr = header /\ header.count # 0 /\ crec = slots[header.read_idx]
  BY DEF IInv, HeldHeader, GetHeader
<1>2. header' = [header EXCEPT !.read_idx = (@ + 1) % Capacity, !.count = @ - 1]
      /\ slots' = slots
  BY <1>1 DEF GetHeader
<1>3. header \in Header  BY DEF IInv, TypeOK
<1>4. header'.read_idx = (header.read_idx + 1) % Capacity /\ header'.count = header.count - 1
  BY <1>2, <1>3 DEF Header
<1>5. /\ header.count \in 1 .. Capacity /\ header.read_idx \in 0 .. Capacity - 1
  BY <1>1, <1>3 DEF Header
<1>6. /\ Contents \in Seq(Records) /\ Len(Contents) = header.count
      /\ \A k \in 1 .. header.count : Contents[k] = slots[Place(k)]
  BY ContentsType DEF IInv
<1>7. crec = Contents[1]
  <2>1. header.read_idx + 1 - 1 = header.read_idx  BY <1>5
  <2>2. Place(1) = header.read_idx  BY <1>5, <2>1, ModSmall DEF Place
  <2> QED BY <1>1, <1>5, <1>6, <2>2
<1>8. Contents' = [k \in 1 .. header.count - 1 |->
                     slots[(((header.read_idx + 1) % Capacity) + k - 1) % Capacity]]
  BY <1>2, <1>4 DEF Contents
<1>9. \A k \in 1 .. header.count - 1 :
        (((header.read_idx + 1) % Capacity) + k - 1) % Capacity = Place(k + 1)
  <2> SUFFICES ASSUME NEW k \in 1 .. header.count - 1
               PROVE  (((header.read_idx + 1) % Capacity) + k - 1) % Capacity = Place(k + 1)
    OBVIOUS
  <2> DEFINE b == (header.read_idx + 1) % Capacity
  <2>1. k - 1 \in 0 .. Capacity - 1  BY <1>5
  <2>2. b \in 0 .. Capacity - 1
        /\ (b + (k - 1)) % Capacity = (header.read_idx + ((k - 1) + 1)) % Capacity
    BY <1>5, <2>1, StepFirst
  <2>3. header.read_idx + ((k - 1) + 1) = header.read_idx + (k + 1) - 1  BY <1>5
  <2>4. b + k - 1 = b + (k - 1)  BY <2>2
  <2> QED BY <2>2, <2>3, <2>4 DEF Place
<1>10. \A k \in 1 .. header.count - 1 : k + 1 \in 1 .. header.count  BY <1>5
<1>11. Contents # <<>> /\ Head(Contents) = Contents[1]  BY <1>5, <1>6
<1>12. Tail(Contents) = [k \in 1 .. header.count - 1 |-> Contents[k + 1]]
  BY <1>6, <1>11, TailAsFunction
<1>13. Contents' = Tail(Contents)
  BY <1>6, <1>8, <1>9, <1>10, <1>12
<1> QED BY <1>2, <1>5, <1>7, <1>11, <1>13

----------------------------------------------------------------------------
\* The inductive invariant

LEMMA InitIInv == Init => IInv
<1> SUFFICES ASSUME Init PROVE IInv
  OBVIOUS
<1> USE LockedRingAssumption
<1>1. Zeros \in Records  BY DEF Zeros
<1>2. Empty \in Header /\ Empty.read_idx = 0 /\ Empty.write_idx = 0 /\ Empty.count = 0
  BY DEF Empty, Header
<1>3. 0 = (0 + 0) % Capacity  BY ModSmall
<1>4. TypeOK
  BY <1>1, <1>2, <1>3 DEF Init, TypeOK, Nobody
<1>5. HeldHeader  BY DEF Init, HeldHeader
<1>6. Contents = <<>>  BY <1>2 DEF Init, Contents
<1>7. FifoOrder  BY <1>6 DEF Init, FifoOrder
<1> QED BY <1>4, <1>5, <1>7 DEF IInv

\* TypeOK in two parts: the file, and the processes.
FileOK ==
    /\ header \in Header
    /\ header.write_idx = (header.read_idx + header.count) % Capacity
    /\ slots \in [0 .. Capacity - 1 -> Records]

ProcessesOK ==
    /\ phdr \in Header /\ chdr \in Header
    /\ lock \in {Nobody, "producer", "consumer"}
    /\ ppc \in {"idle", "record", "header"} /\ prec \in Records
    /\ cpc \in {"idle", "record", "header", "submit"} /\ crec \in Records
    /\ ppc # "idle" <=> lock = "producer"
    /\ cpc \in {"record", "header"} <=> lock = "consumer"
    /\ processed_count \in Nat /\ refused \in Nat
    /\ sent \in Seq(Records) /\ taken \in Seq(Records) /\ submitted \in Seq(Records)
    /\ pkills \in 0 .. MaxKills /\ ckills \in 0 .. MaxKills

LEMMA TypeParts == TypeOK <=> FileOK /\ ProcessesOK
BY DEF TypeOK, FileOK, ProcessesOK

LEMMA TypePartsNext == FileOK' /\ ProcessesOK' => TypeOK'
BY DEF TypeOK, FileOK, ProcessesOK

\* The steps that store nothing in the file leave its contents alone.
LEMMA FileIInv ==
    ASSUME IInv, PutBegin \/ GetBegin \/ GetRecord \/ Submit \/ KillProducer \/ KillConsumer
    PROVE  IInv' /\ Contents' = Contents /\ taken' = taken
<1>1. header' = header /\ slots' = slots /\ sent' = sent /\ taken' = taken
  BY DEF PutBegin, GetBegin, GetRecord, Submit, KillProducer, KillConsumer, history
<1>2. Contents' = Contents  BY <1>1 DEF Contents
<1>3. FifoOrder'  BY <1>1, <1>2 DEF IInv, FifoOrder
<1>4. FileOK /\ ProcessesOK /\ HeldHeader  BY TypeParts DEF IInv
<1>5. FileOK'  BY <1>1, <1>4 DEF FileOK
<1>6. ProcessesOK' /\ HeldHeader'
  <2>1. CASE PutBegin
    BY <1>1, <1>4, <2>1
       DEF FileOK, ProcessesOK, HeldHeader, PutBegin, Nobody, consumer, history
  <2>2. CASE GetBegin
    BY <1>1, <1>4, <2>2
       DEF FileOK, ProcessesOK, HeldHeader, GetBegin, Nobody, producer, history
  <2>3. CASE GetRecord
    <3>1. header.read_idx \in 0 .. Capacity - 1  BY <1>4 DEF FileOK, Header
    <3>2. crec' = slots[header.read_idx] /\ crec' \in Records
      BY <1>4, <2>3, <3>1 DEF FileOK, HeldHeader, GetRecord
    <3> QED BY <1>1, <1>4, <2>3, <3>2
            DEF ProcessesOK, HeldHeader, GetRecord, Nobody, producer, history
  <2>4. CASE Submit
    <3>1. refused' \in Nat /\ processed_count' \in Nat  BY <1>4, <2>4 DEF ProcessesOK, Submit
    <3>2. submitted' \in Seq(Records)
      <4>1. submitted \in Seq(Records) /\ crec \in Records  BY <1>4 DEF ProcessesOK
      <4>2. Append(submitted, crec) \in Seq(Records)  BY <4>1, AppendProperties
      <4>3. submitted' = submitted \/ submitted' = Append(submitted, crec)
        BY <2>4 DEF Submit
      <4> QED BY <4>1, <4>2, <4>3
    <3> QED BY <1>1, <1>4, <2>4, <3>1, <3>2
            DEF ProcessesOK, HeldHeader, Submit, Nobody, producer
  <2>5. CASE KillProducer
    <3>1. pkills' \in 0 .. MaxKills
      BY <1>4, <2>5, LockedRingAssumption DEF ProcessesOK, KillProducer
    <3> QED BY <1>1, <1>4, <2>5, <3>1
            DEF ProcessesOK, HeldHeader, KillProducer, Nobody, consumer
  <2>6. CASE KillConsumer
    <3>1. ckills' \in 0 .. MaxKills
      BY <1>4, <2>6, LockedRingAssumption DEF ProcessesOK, KillConsumer
    <3> QED BY <1>1, <1>4, <2>6, <3>1
            DEF ProcessesOK, HeldHeader, KillConsumer, Nobody, producer
  <2> QED BY <2>1, <2>2, <2>3, <2>4, <2>5, <2>6
<1> QED BY <1>1, <1>2, <1>3, <1>5, <1>6, TypePartsNext DEF IInv

LEMMA PutRecordIInv == ASSUME IInv, PutRecord PROVE IInv'
<1>1. header.write_idx \in 0 .. Capacity - 1  BY DEF IInv, TypeOK, Header
<1>2. slots' = [slots EXCEPT ![header.write_idx] = prec]
  BY DEF IInv, HeldHeader, PutRecord
<1>3. slots' \in [0 .. Capacity - 1 -> Records] /\ slots'[header.write_idx] = prec
  BY <1>1, <1>2 DEF IInv, TypeOK
<1>4. TypeOK'  BY <1>3 DEF IInv, TypeOK, PutRecord, Nobody, consumer, history
<1>5. HeldHeader'
  BY <1>3 DEF IInv, TypeOK, HeldHeader, PutRecord, Nobody, consumer, history
<1>6. FifoOrder'  BY CopyKeepsContents DEF IInv, FifoOrder, PutRecord, history
<1> QED BY <1>4, <1>5, <1>6 DEF IInv

LEMMA PutHeaderIInv == ASSUME IInv, PutHeader PROVE IInv'
<1> USE LockedRingAssumption
<1>1. /\ header.count < Capacity
      /\ header' = [header EXCEPT !.write_idx = (@ + 1) % Capacity, !.count = @ + 1]
      /\ Contents' = Append(Contents, prec)
  BY PutAppends
<1>2. header \in Header /\ header.write_idx = (header.read_idx + header.count) % Capacity
  BY DEF IInv, TypeOK
<1>3. header.read_idx \in 0 .. Capacity - 1 /\ header.count \in 0 .. Capacity - 1
  BY <1>1, <1>2 DEF Header
<1>4. (header.write_idx + 1) % Capacity \in 0 .. Capacity - 1
      /\ (header.write_idx + 1) % Capacity = (header.read_idx + (header.count + 1)) % Capacity
  <2>1. header.write_idx \in 0 .. Capacity - 1 /\ 0 \in 0 .. Capacity - 1  BY <1>2 DEF Header
  <2>2. (header.write_idx + 1) % Capacity \in 0 .. Capacity - 1  BY <2>1, StepFirst
  <2>3. (((header.read_idx + header.count) % Capacity) + 1) % Capacity
           = (header.read_idx + (header.count + 1)) % Capacity
    BY <1>3, StepLast
  <2> QED BY <1>2, <2>2, <2>3
<1>5. /\ header' \in Header
      /\ header'.write_idx = (header'.read_idx + header'.count) % Capacity
  <2>1. /\ header'.read_idx = header.read_idx /\ header'.count = header.count + 1
        /\ header'.write_idx = (header.write_idx + 1) % Capacity
    BY <1>1, <1>2 DEF Header
  <2>2. header.count + 1 \in 0 .. Capacity  BY <1>3
  <2> DEFINE w == (header.write_idx + 1) % Capacity
  <2>3. w \in 0 .. Capacity - 1  BY <1>4
  <2> HIDE DEF w
  <2>4. header' = [header EXCEPT !.write_idx = w, !.count = header.count + 1]
    BY <1>1, <1>2 DEF w, Header
  <2>5. header' \in Header  BY <1>2, <2>2, <2>3, <2>4 DEF Header
  <2> QED BY <1>4, <2>1, <2>5
<1>6. prec \in Records /\ Contents \in Seq(Records) /\ taken \in Seq(Records)
  BY ContentsType DEF IInv, TypeOK
<1>7. sent' = Append(sent, prec) /\ taken' = taken /\ sent = taken \o Contents
  BY DEF IInv, FifoOrder, PutHeader
<1>8. sent' \in Seq(Records)  BY <1>6, <1>7, AppendProperties DEF IInv, TypeOK
<1>9. FifoOrder'
  <2>1. taken \o Contents \in Seq(Records) /\ <<prec>> \in Seq(Records)
    BY <1>6, ConcatProperties
  <2>2. sent' = (taken \o Contents) \o <<prec>>  BY <1>6, <1>7, <2>1, AppendIsConcat
  <2>3. Contents' = Contents \o <<prec>>  BY <1>1, <1>6, AppendIsConcat
  <2>4. (taken \o Contents) \o <<prec>> = taken \o (Contents \o <<prec>>)
    BY <1>6, <2>1, ConcatAssociative
  <2> QED BY <1>7, <2>2, <2>3, <2>4 DEF FifoOrder
<1>10. TypeOK'
  BY <1>5, <1>8 DEF IInv, TypeOK, PutHeader, Nobody, consumer
<1>11. HeldHeader'  BY DEF IInv, TypeOK, HeldHeader, PutHeader, Nobody, consumer
<1> QED BY <1>9, <1>10, <1>11 DEF IInv

LEMMA GetHeaderIInv == ASSUME IInv, GetHeader PROVE IInv'
<1> USE LockedRingAssumption
<1>1. /\ header.count > 0
      /\ header' = [header EXCEPT !.read_idx = (@ + 1) % Capacity, !.count = @ - 1]
      /\ Contents # <<>> /\ crec = Head(Contents) /\ Contents' = Tail(Contents)
  BY GetRemoves
<1>2. header \in Header /\ header.write_idx = (header.read_idx + header.count) % Capacity
  BY DEF IInv, TypeOK
<1>3. header.read_idx \in 0 .. Capacity - 1 /\ header.count \in 1 .. Capacity
  BY <1>1, <1>2 DEF Header
<1>4. (header.read_idx + 1) % Capacity \in 0 .. Capacity - 1
      /\ (((header.read_idx + 1) % Capacity) + (header.count - 1)) % Capacity
           = (header.read_idx + header.count) % Capacity
  <2>1. header.count - 1 \in 0 .. Capacity - 1 /\ (header.count - 1) + 1 = header.count
    BY <1>3
  <2> QED BY <1>3, <2>1, StepFirst
<1>5. /\ header' \in Header
      /\ header'.write_idx = (header'.read_idx + header'.count) % Capacity
  <2>1. /\ header'.read_idx = (header.read_idx + 1) % Capacity
        /\ header'.count = header.count - 1 /\ header'.write_idx = header.write_idx
    BY <1>1, <1>2 DEF Header
  <2>2. header.count - 1 \in 0 .. Capacity  BY <1>3
  <2> DEFINE r == (header.read_idx + 1) % Capacity
  <2>3. r \in 0 .. Capacity - 1  BY <1>4
  <2> HIDE DEF r
  <2>4. header' = [header EXCEPT !.read_idx = r, !.count = header.count - 1]
    BY <1>1, <1>2 DEF r, Header
  <2>5. header' \in Header  BY <1>2, <2>2, <2>3, <2>4 DEF Header
  <2> QED BY <1>2, <1>4, <2>1, <2>5
<1>6. Contents \in Seq(Records) /\ taken \in Seq(Records) /\ crec \in Records
  BY ContentsType DEF IInv, TypeOK
<1>7. taken' = Append(taken, crec) /\ sent' = sent /\ sent = taken \o Contents
  BY DEF IInv, FifoOrder, GetHeader
<1>8. taken' \in Seq(Records)  BY <1>6, <1>7, AppendProperties
<1>9. FifoOrder'
  <2>1. <<crec>> \in Seq(Records) /\ Tail(Contents) \in Seq(Records)
    BY <1>1, <1>6, HeadTailProperties
  <2>2. taken' = taken \o <<crec>>  BY <1>6, <1>7, AppendIsConcat
  <2>3. Contents = <<crec>> \o Tail(Contents)
    BY <1>1, <1>6
  <2>4. (taken \o <<crec>>) \o Tail(Contents) = taken \o (<<crec>> \o Tail(Contents))
    BY <1>6, <2>1, ConcatAssociative
  <2> QED BY <1>1, <1>7, <2>2, <2>3, <2>4 DEF FifoOrder
<1>10. TypeOK'
  BY <1>5, <1>8 DEF IInv, TypeOK, GetHeader, Nobody, producer
<1>11. HeldHeader'  BY DEF IInv, TypeOK, HeldHeader, GetHeader, Nobody, producer
<1> QED BY <1>9, <1>10, <1>11 DEF IInv

LEMMA StutterIInv ==
    ASSUME IInv, UNCHANGED vars
    PROVE  IInv' /\ Contents' = Contents /\ taken' = taken
<1>1. Contents' = Contents  BY DEF vars, Contents
<1>2. TypeOK' /\ HeldHeader'
  BY DEF IInv, TypeOK, HeldHeader, vars, producer, consumer, history
<1> QED BY <1>1, <1>2 DEF IInv, FifoOrder, vars, history

LEMMA NextIInv == IInv /\ [Next]_vars => IInv'
BY FileIInv, PutRecordIInv, PutHeaderIInv, GetHeaderIInv, StutterIInv DEF Next

LEMMA Invariance == Spec => []IInv
BY InitIInv, NextIInv, PTL DEF Spec

----------------------------------------------------------------------------
\* Theorems

\* The indexes of the ring are always count slots apart, and the file lock is held
\* exactly between a header's load and its store, wherever a process is killed.
THEOREM TypeCorrect == Spec => []TypeOK
<1>1. IInv => TypeOK  BY DEF IInv
<1> QED BY <1>1, Invariance, PTL

\* Nothing that was put is lost, repeated or reordered between put and get, for
\* rings and histories of any length and any number of kills.
THEOREM Fifo == Spec => []FifoOrder
<1>1. IInv => FifoOrder  BY DEF IInv
<1> QED BY <1>1, Invariance, PTL

\* The ring implements a bounded FIFO channel: storing a header is a send or a
\* receive, and every other step of either process stutters.
THEOREM Implements == Spec => ImplementsChannel
<1>1. Init => Channel!ChannelInit
  <2> SUFFICES ASSUME Init PROVE Channel!ChannelInit
    OBVIOUS
  <2>1. header.count = 0  BY DEF Init, Empty
  <2>2. Contents = <<>>  BY <2>1 DEF Contents
  <2> QED BY <2>2 DEF Init, Channel!ChannelInit
<1>2. IInv /\ [Next]_vars => [Channel!ChannelNext]_(Channel!channelVars)
  <2> SUFFICES ASSUME IInv, [Next]_vars
               PROVE  Channel!ChannelNext \/ (Contents' = Contents /\ taken' = taken)
    BY DEF Channel!channelVars
  <2>1. CASE PutBegin \/ GetBegin \/ GetRecord \/ Submit \/ KillProducer \/ KillConsumer
    BY <2>1, FileIInv
  <2>2. CASE PutRecord
    BY <2>2, CopyKeepsContents DEF PutRecord, history
  <2>3. CASE PutHeader
    <3>1. Contents' = Append(Contents, prec) /\ header.count < Capacity
      BY <2>3, PutAppends
    <3>2. Len(Contents) = header.count /\ prec \in Records
      BY ContentsType DEF IInv, TypeOK
    <3>3. taken' = taken  BY <2>3 DEF PutHeader
    <3>4. Channel!Send  BY <3>1, <3>2, <3>3 DEF Channel!Send
    <3> QED BY <3>4 DEF Channel!ChannelNext
  <2>4. CASE GetHeader
    <3>1. Contents # <<>> /\ crec = Head(Contents) /\ Contents' = Tail(Contents)
      BY <2>4, GetRemoves
    <3>2. taken' = Append(taken, crec)  BY <2>4 DEF GetHeader
    <3>3. Channel!Receive  BY <3>1, <3>2 DEF Channel!Receive
    <3> QED BY <3>3 DEF Channel!ChannelNext
  <2>5. CASE UNCHANGED vars
    BY <2>5, StutterIInv
  <2> QED BY <2>1, <2>2, <2>3, <2>4, <2>5 DEF Next
<1> QED BY <1>1, <1>2, Invariance, PTL DEF Spec, ImplementsChannel, Channel!ChannelSpec
----------------------------------------------------------------------------
\* What the consumer does with the records it took

Pending == IF cpc = "submit" THEN 1 ELSE 0
Lost    == Len(taken) - Len(submitted) - refused - Pending

\* The engine has accepted only what it does not refuse.
SubmittedOK ==
    \A k \in 1 .. Len(submitted) : submitted[k] \in Records /\ submitted[k] \notin Invalid

SubmitInv == TypeOK /\ TakenIsSubmitted /\ SubmittedOK

LEMMA LostIs ==
    TakenIsSubmitted <=> /\ 0 <= Lost /\ Lost <= ckills
                         /\ ckills = 0 => processed_count = Len(submitted)
BY DEF TakenIsSubmitted, Lost, Pending

LEMMA SubmitNumbers ==
    ASSUME TypeOK
    PROVE  /\ Len(taken) \in Nat /\ Len(submitted) \in Nat /\ refused \in Nat
           /\ processed_count \in Nat /\ ckills \in Nat /\ Pending \in {0, 1}
           /\ taken \in Seq(Records) /\ submitted \in Seq(Records) /\ crec \in Records
<1>1. /\ taken \in Seq(Records) /\ submitted \in Seq(Records) /\ crec \in Records
      /\ refused \in Nat /\ processed_count \in Nat /\ ckills \in Nat
  BY LockedRingAssumption DEF TypeOK
<1>2. Len(taken) \in Nat /\ Len(submitted) \in Nat  BY <1>1, LenProperties
<1> QED BY <1>1, <1>2 DEF Pending

\* A step that neither ends a get, nor submits, nor kills the consumer.
LEMMA OtherSubmitInv ==
    ASSUME SubmitInv, TypeOK',
           \/ PutBegin \/ PutRecord \/ PutHeader \/ GetBegin \/ GetRecord \/ KillProducer
           \/ UNCHANGED vars
    PROVE  SubmitInv'
<1>1. /\ UNCHANGED <<taken, submitted, refused, processed_count, ckills>>
      /\ cpc' = "submit" <=> cpc = "submit"
  BY DEF PutBegin, PutRecord, PutHeader, GetBegin, GetRecord, KillProducer, vars, consumer, history
<1>2. Lost' = Lost  BY <1>1 DEF Lost, Pending
<1>3. TakenIsSubmitted'
  BY <1>1 DEF SubmitInv, TakenIsSubmitted
<1>4. SubmittedOK'  BY <1>1 DEF SubmitInv, SubmittedOK
<1> QED BY <1>3, <1>4 DEF SubmitInv

LEMMA GetHeaderSubmitInv ==
    ASSUME SubmitInv, TypeOK', GetHeader
    PROVE  SubmitInv'
<1>1. /\ taken' = Append(taken, crec) /\ cpc = "header" /\ cpc' = "submit"
      /\ UNCHANGED <<submitted, refused, processed_count, ckills>>
  BY DEF GetHeader
<1>2. Len(taken') = Len(taken) + 1
  BY <1>1, SubmitNumbers, AppendProperties DEF SubmitInv
<1>3. Pending = 0 /\ Pending' = 1  BY <1>1 DEF Pending
<1>4. TakenIsSubmitted'
  <2>1. /\ 0 <= Lost /\ Lost <= ckills
        /\ ckills = 0 => processed_count = Len(submitted)
    BY LostIs DEF SubmitInv
  <2>2. Lost' = Len(taken') - Len(submitted') - refused' - Pending'  BY DEF Lost
  <2>3. Lost' = Lost
    BY <1>1, <1>2, <1>3, <2>2, SubmitNumbers DEF SubmitInv, Lost
  <2> QED BY <1>1, <2>1, <2>3 DEF TakenIsSubmitted, Lost, Pending
<1>5. SubmittedOK'  BY <1>1 DEF SubmitInv, SubmittedOK
<1> QED BY <1>4, <1>5 DEF SubmitInv

LEMMA SubmitSubmitInv ==
    ASSUME SubmitInv, TypeOK', Submit
    PROVE  SubmitInv'
<1>1. cpc = "submit" /\ cpc' = "idle" /\ taken' = taken /\ ckills' = ckills
  BY DEF Submit
<1>2. Pending = 1 /\ Pending' = 0  BY <1>1 DEF Pending
<1>3. \/ /\ refused' = refused + 1
         /\ submitted' = submitted /\ processed_count' = processed_count
      \/ /\ crec \notin Invalid /\ submitted' = Append(submitted, crec)
         /\ processed_count' = processed_count + 1 /\ refused' = refused
  BY DEF Submit
<1>4. /\ taken \in Seq(Records) /\ submitted \in Seq(Records) /\ crec \in Records
      /\ Len(taken) \in Nat /\ Len(submitted) \in Nat /\ refused \in Nat
      /\ processed_count \in Nat
  BY SubmitNumbers DEF SubmitInv
<1>5. ASSUME submitted' = Append(submitted, crec)
      PROVE  /\ Len(submitted') = Len(submitted) + 1
             /\ submitted'[Len(submitted) + 1] = crec
             /\ \A k \in 1 .. Len(submitted) : submitted'[k] = submitted[k]
  BY <1>4, <1>5, AppendProperties
<1>6. /\ 0 <= Lost /\ Lost <= ckills
      /\ ckills = 0 => processed_count = Len(submitted)
  BY LostIs DEF SubmitInv
<1>7. Lost' = Lost
  <2>1. Lost' = Len(taken') - Len(submitted') - refused' - Pending'  BY DEF Lost
  <2>2. Len(submitted') + refused' = Len(submitted) + refused + 1
        /\ Len(submitted') \in Nat /\ refused' \in Nat
    BY <1>3, <1>4, <1>5
  <2> QED BY <1>1, <1>2, <1>4, <2>1, <2>2 DEF Lost
<1>8. ckills' = 0 => processed_count' = Len(submitted')
  BY <1>1, <1>3, <1>5, <1>6
<1>9. TakenIsSubmitted'
  BY <1>1, <1>6, <1>7, <1>8 DEF TakenIsSubmitted, Lost, Pending
<1>10. SubmittedOK'
  <2>1. SubmittedOK  BY DEF SubmitInv
  <2>2. CASE submitted' = submitted  BY <2>1, <2>2 DEF SubmittedOK
  <2>3. CASE crec \notin Invalid /\ submitted' = Append(submitted, crec)
    <3>1. \A k \in 1 .. Len(submitted) + 1 : k \in 1 .. Len(submitted) \/ k = Len(submitted) + 1
      BY <1>4
    <3> QED BY <1>4, <1>5, <2>1, <2>3, <3>1 DEF SubmittedOK
  <2> QED BY <1>3, <2>2, <2>3
<1> QED BY <1>9, <1>10 DEF SubmitInv

LEMMA KillConsumerSubmitInv ==
    ASSUME SubmitInv, TypeOK', KillConsumer
    PROVE  SubmitInv'
<1>1. /\ cpc' = "idle" /\ ckills' = ckills + 1
      /\ UNCHANGED <<taken, submitted, refused>>
  BY DEF KillConsumer
<1>2. Pending' = 0  BY <1>1 DEF Pending
<1>3. /\ Len(taken) \in Nat /\ Len(submitted) \in Nat /\ refused \in Nat
      /\ ckills \in Nat /\ Pending \in {0, 1}
  BY SubmitNumbers DEF SubmitInv
<1>4. 0 <= Lost /\ Lost <= ckills  BY LostIs DEF SubmitInv
<1>5. 0 <= Lost' /\ Lost' <= ckills' /\ ckills' # 0
  <2>1. Lost' = Len(taken) - Len(submitted) - refused - 0  BY <1>1, <1>2 DEF Lost
  <2> QED BY <1>1, <1>3, <1>4, <2>1 DEF Lost
<1>6. TakenIsSubmitted'  BY <1>5 DEF TakenIsSubmitted, Lost, Pending
<1>7. SubmittedOK'  BY <1>1 DEF SubmitInv, SubmittedOK
<1> QED BY <1>6, <1>7 DEF SubmitInv

LEMMA SubmitInvariance == Spec => []SubmitInv
<1>1. Init /\ TypeOK => SubmitInv
  <2> SUFFICES ASSUME Init, TypeOK PROVE SubmitInv
    OBVIOUS
  <2>1. /\ Len(taken) = 0 /\ Len(submitted) = 0 /\ refused = 0 /\ cpc = "idle"
        /\ ckills = 0 /\ processed_count = 0
    BY EmptySeq DEF Init
  <2>2. TakenIsSubmitted  BY <2>1 DEF TakenIsSubmitted
  <2>3. SubmittedOK  BY <2>1 DEF SubmittedOK
  <2> QED BY <2>2, <2>3 DEF SubmitInv
<1>2. SubmitInv /\ TypeOK' /\ [Next]_vars => SubmitInv'
  BY OtherSubmitInv, GetHeaderSubmitInv, SubmitSubmitInv, KillConsumerSubmitInv DEF Next
<1>3. IInv => TypeOK  BY DEF IInv
<1> QED BY <1>1, <1>2, <1>3, Invariance, PTL DEF Spec

----------------------------------------------------------------------------
\* The record format

Created == [order_id: Int, side: {"BUY", "SELL"}, price: Int, quantity: Int, timestamp_ns: Int]

\* Packing and unpacking one order, for any record of any input.
LEMMA CodecExact ==
    ASSUME NEW in \in OrderInputs, NEW o \in create_order(in), NEW r \in pack_order(o)
    PROVE  /\ unpack_order(r) = o
           /\ ~ EngineAccepts(EngineCall(r)) => o.price \in {NaN, Infinity}
           /\ EngineCall(r) = [o EXCEPT !.side = IF o.side = "BUY" THEN BUY ELSE SELL]
           /\ o \in Created /\ {o.order_id, o.quantity, o.timestamp_ns} \subseteq Word
           /\ o.quantity > 0
<1>1. in \in [order_id: Int, side: STRING, price: Int, quantity: Int, timestamp_ns: Int]
  BY OrderPipelineAssumption
<1>2. /\ o = [in EXCEPT !.side = Upper(in.side)] /\ Upper(in.side) \in {"BUY", "SELL"}
      /\ in.price = NaN \/ in.price > 0
      /\ in.quantity > 0
  BY <1>1 DEF create_order
<1>3. /\ o \in Created /\ o.price = in.price /\ o.quantity = in.quantity
  <2> DEFINE u == Upper(in.side)
  <2>1. u \in {"BUY", "SELL"} /\ o = [in EXCEPT !.side = u]  BY <1>2
  <2> HIDE DEF u
  <2> QED BY <1>1, <2>1 DEF Created
<1>4. /\ {o.order_id, o.quantity, o.timestamp_ns} \subseteq Word
      /\ r = <<o.order_id, IF o.side = "BUY" THEN BUY ELSE SELL, o.price, o.quantity,
               o.timestamp_ns>>
  BY DEF pack_order
<1>5. /\ r[1] = o.order_id /\ r[2] = IF o.side = "BUY" THEN BUY ELSE SELL
      /\ r[3] = o.price /\ r[4] = o.quantity /\ r[5] = o.timestamp_ns
  BY <1>4
<1>6. unpack_order(r) = o
  <2>1. (IF r[2] = BUY THEN "BUY" ELSE "SELL") = o.side
    BY <1>3, <1>5 DEF BUY, SELL, Created
  <2>2. o = [order_id |-> o.order_id, side |-> o.side, price |-> o.price,
             quantity |-> o.quantity, timestamp_ns |-> o.timestamp_ns]
    BY <1>3 DEF Created
  <2> QED BY <1>5, <2>1, <2>2 DEF unpack_order
<1>7. EngineCall(r) = [o EXCEPT !.side = IF o.side = "BUY" THEN BUY ELSE SELL]
  BY <1>6 DEF EngineCall
<1>8. ~ EngineAccepts(EngineCall(r)) => o.price \in {NaN, Infinity}
  <2> DEFINE s == IF o.side = "BUY" THEN BUY ELSE SELL
  <2>1. s \in {BUY, SELL}  OBVIOUS
  <2>2. /\ [o EXCEPT !.side = s].side = s /\ [o EXCEPT !.side = s].price = o.price
        /\ [o EXCEPT !.side = s].quantity = o.quantity
    BY <1>3 DEF Created
  <2>3. o.price = NaN \/ o.price > 0  BY <1>2, <1>3
  <2> QED BY <1>2, <1>3, <1>7, <2>1, <2>2, <2>3 DEF EngineAccepts
<1> QED BY <1>2, <1>3, <1>4, <1>6, <1>7, <1>8

\* What the engine accepted is an order with a price above zero.
LEMMA AcceptedOrder ==
    ASSUME NEW r \in Records, r \notin Invalid
    PROVE  EngineCall(r) \in [order_id: Word, side: {BUY, SELL}, price: Nat \ {0},
                             quantity: Word \ {0}, timestamp_ns: Word]
<1>1. r \in PackedRecords /\ EngineAccepts(EngineCall(r))
  BY OrderPipelineAssumption DEF RefusedRecords
<1>2. PICK in \in OrderInputs : r \in process_order(in)
  BY <1>1 DEF PackedRecords
<1>3. PICK o \in create_order(in) : r \in pack_order(o)
  BY <1>2 DEF process_order
<1> DEFINE s == IF o.side = "BUY" THEN BUY ELSE SELL
<1>4. /\ EngineCall(r) = [o EXCEPT !.side = s]
      /\ o \in Created /\ {o.order_id, o.quantity, o.timestamp_ns} \subseteq Word
      /\ o.quantity > 0
  BY <1>2, <1>3, CodecExact
<1>5. s \in {BUY, SELL}  OBVIOUS
<1> HIDE DEF s
<1>6. [o EXCEPT !.side = s].price = o.price  BY <1>4 DEF Created
<1>7. o.price > 0  BY <1>1, <1>4, <1>6 DEF EngineAccepts
<1>8. o.price \in Nat \ {0}  BY <1>4, <1>7 DEF Created
<1>9. o.quantity \in Word \ {0}  BY <1>4
<1>10. [o EXCEPT !.side = s] = [order_id |-> o.order_id, side |-> s, price |-> o.price,
                               quantity |-> o.quantity, timestamp_ns |-> o.timestamp_ns]
  BY <1>4 DEF Created
<1> QED BY <1>4, <1>5, <1>8, <1>9, <1>10

\* A record is submitted at most once, and only a kill of the consumer or the
\* engine's refusal keeps one that was taken from the engine: for any capacity,
\* records, puts and kills.
THEOREM Submission == Spec => []TakenIsSubmitted
<1>1. SubmitInv => TakenIsSubmitted  BY DEF SubmitInv
<1> QED BY <1>1, SubmitInvariance, PTL

\* For every set of inputs to process_order: every order created is unpacked as it
\* was, and the engine is called with the orders taken from the ring, each at most
\* once, with words in range and prices above zero.
THEOREM EngineCalls == Spec => []EngineSeesTheOrders
<1>1. CodecIsExact  BY CodecExact DEF CodecIsExact
<1>2. SubmitInv => EngineSeesTheOrders
  <2> SUFFICES ASSUME SubmitInv PROVE EngineSeesTheOrders
    OBVIOUS
  <2>1. \A k \in 1 .. Len(submitted) : submitted[k] \in Records /\ submitted[k] \notin Invalid
    BY DEF SubmitInv, SubmittedOK
  <2> QED BY <1>1, <2>1, AcceptedOrder DEF SubmitInv, EngineSeesTheOrders
<1> QED BY <1>2, SubmitInvariance, PTL
=============================================================================

-------------------------- MODULE TradeQueueProofs --------------------------
(***************************************************************************)
(* For any number of producers and consumers, every capacity, every batch  *)
(* size and all four policies: the queue keeps the order of events, its    *)
(* counters account for every push, and no wakeup is lost.                 *)
(***************************************************************************)
EXTENDS TradeQueue, FiniteSetTheorems, SequenceTheorems, TLAPS

\* What the other invariants rest on: a closed queue has no waiting producer,
\* only BLOCK makes a push wait, and every push in progress has its number.
WaitingIsBlock ==
    /\ closed => notFull = {}
    /\ \A p \in Producers : ppc[p] = "blocked" => backpressure = "BLOCK"
    /\ total_pushed + Cardinality(Pushing) <= sequence

IInv == TypeOK /\ FifoDelivery /\ CountersAddUp /\ NoLostWakeup /\ WaitingIsBlock

----------------------------------------------------------------------------
\* Threads

\* The sets of threads are finite, so that they can be counted.
LEMMA ThreadsFinite ==
    ASSUME TypeOK
    PROVE  /\ IsFiniteSet(Pushing) /\ Cardinality(Pushing) \in Nat
           /\ IsFiniteSet(AwakeProducers) /\ Cardinality(AwakeProducers) \in Nat
           /\ IsFiniteSet(AwakeConsumers) /\ Cardinality(AwakeConsumers) \in Nat
<1>1. Pushing \subseteq Producers /\ AwakeProducers \subseteq Producers
      /\ AwakeConsumers \subseteq Consumers
  BY DEF Pushing, AwakeProducers, AwakeConsumers
<1> QED BY <1>1, TradeQueueAssumption, FS_Subset, FS_CardinalityType

\* A producer that leaves push, whatever it was doing there.
Leaves(p) ==
    /\ ppc[p] # "idle"
    /\ ppc' = [ppc EXCEPT ![p] = "idle"]
    /\ notFull' = notFull \ {p}
    /\ expired' = expired \ {p}

LEMMA LeavingProducer ==
    ASSUME TypeOK, NEW p \in Producers, Leaves(p)
    PROVE  /\ ppc' \in [Producers -> {"idle", "numbered", "blocked"}]
           /\ notFull' \subseteq {q \in Producers : ppc'[q] = "blocked"}
           /\ \A q \in Producers : ppc'[q] = "blocked" => ppc[q] = "blocked"
           /\ Cardinality(Pushing') = Cardinality(Pushing) - 1 /\ Cardinality(Pushing) >= 1
           /\ Cardinality(AwakeProducers') >= Cardinality(AwakeProducers) - 1
           /\ Cardinality(AwakeProducers') \in Nat
<1>1. Pushing' = Pushing \ {p} /\ p \in Pushing
  BY DEF TypeOK, Leaves, Pushing
<1>2. AwakeProducers' = AwakeProducers \ {p}
  BY DEF TypeOK, Leaves, AwakeProducers
<1>3. Cardinality(Pushing') = Cardinality(Pushing) - 1 /\ Cardinality(Pushing) >= 1
  <2>1. Cardinality(Pushing) # 0  BY <1>1, ThreadsFinite, FS_EmptySet
  <2>2. Cardinality(Pushing) >= 1  BY <2>1, ThreadsFinite
  <2>3. Cardinality(Pushing') = Cardinality(Pushing) - 1
    BY <1>1, ThreadsFinite, FS_RemoveElement
  <2> QED BY <2>2, <2>3
<1>4. /\ Cardinality(AwakeProducers \ {p}) \in Nat
      /\ Cardinality(AwakeProducers \ {p}) >= Cardinality(AwakeProducers) - 1
  <2>1. IsFiniteSet(AwakeProducers) /\ Cardinality(AwakeProducers) \in Nat
    BY ThreadsFinite
  <2>2. /\ IsFiniteSet(AwakeProducers \ {p})
        /\ Cardinality(AwakeProducers \ {p})
             = IF p \in AwakeProducers THEN Cardinality(AwakeProducers) - 1
               ELSE Cardinality(AwakeProducers)
    BY <2>1, FS_RemoveElement
  <2>3. Cardinality(AwakeProducers \ {p}) \in Nat  BY <2>2, FS_CardinalityType
  <2> QED BY <2>1, <2>2, <2>3
<1>5. /\ Cardinality(AwakeProducers') \in Nat
      /\ Cardinality(AwakeProducers') >= Cardinality(AwakeProducers) - 1
  BY <1>2, <1>4
<1> QED BY <1>3, <1>5 DEF TypeOK, Leaves

\* A notification takes one waiter, if there is one, out of the condition: an
\* event put in at the same time has its consumer.
LEMMA NotifiedConsumer ==
    ASSUME TypeOK, NotifyOne(notEmpty, notEmpty'), cpc' = cpc
    PROVE  /\ notEmpty' \subseteq {c \in Consumers : cpc'[c] = "blocked"}
           /\ Cardinality(AwakeConsumers') \in Nat
           /\ notEmpty' # {} =>
                notEmpty # {} /\ Cardinality(AwakeConsumers') = Cardinality(AwakeConsumers) + 1
<1>1. CASE notEmpty = {}
  <2>1. notEmpty' = {} /\ AwakeConsumers' = AwakeConsumers
    BY <1>1 DEF NotifyOne, AwakeConsumers
  <2> QED BY <2>1, ThreadsFinite
<1>2. CASE notEmpty # {}
  <2>1. PICK t \in notEmpty : notEmpty' = notEmpty \ {t}
    BY <1>2 DEF NotifyOne
  <2>2. AwakeConsumers' = AwakeConsumers \cup {t} /\ t \notin AwakeConsumers
    BY <2>1 DEF TypeOK, AwakeConsumers
  <2>3. Cardinality(AwakeConsumers') = Cardinality(AwakeConsumers) + 1
    BY <2>2, ThreadsFinite, FS_AddElement
  <2> QED BY <1>2, <2>1, <2>3, ThreadsFinite DEF TypeOK
<1> QED BY <1>1, <1>2

LEMMA NotifiedProducer ==
    ASSUME TypeOK, NotifyOne(notFull, notFull'), ppc' = ppc
    PROVE  /\ notFull' \subseteq {p \in Producers : ppc'[p] = "blocked"}
           /\ Cardinality(AwakeProducers') \in Nat
           /\ notFull = {} => notFull' = {}
           /\ notFull' # {} =>
                notFull # {} /\ Cardinality(AwakeProducers') = Cardinality(AwakeProducers) + 1
<1>1. CASE notFull = {}
  <2>1. notFull' = {} /\ AwakeProducers' = AwakeProducers
    BY <1>1 DEF NotifyOne, AwakeProducers
  <2> QED BY <2>1, ThreadsFinite
<1>2. CASE notFull # {}
  <2>1. PICK t \in notFull : notFull' = notFull \ {t}
    BY <1>2 DEF NotifyOne
  <2>2. AwakeProducers' = AwakeProducers \cup {t} /\ t \notin AwakeProducers
    BY <2>1 DEF TypeOK, AwakeProducers
  <2>3. Cardinality(AwakeProducers') = Cardinality(AwakeProducers) + 1
    BY <2>2, ThreadsFinite, FS_AddElement
  <2> QED BY <1>2, <2>1, <2>3, ThreadsFinite DEF TypeOK
<1> QED BY <1>1, <1>2

----------------------------------------------------------------------------
\* The queue

\* Appending the newest event, with or without evicting the oldest.
LEMMA AppendKeepsOrder ==
    ASSUME TypeOK, FifoDelivery, NEW kept,
           \/ kept = queue
           \/ queue # <<>> /\ kept = Tail(queue),
           queue' = Append(kept, total_pushed + 1),
           total_pushed' = total_pushed + 1, last_popped' = last_popped
    PROVE  /\ queue' \in Seq(1 .. total_pushed')
           /\ Len(queue') = Len(kept) + 1
           /\ Len(kept) = IF kept = queue THEN Len(queue) ELSE Len(queue) - 1
           /\ last_popped' \in 0 .. total_pushed'
           /\ FifoDelivery'
<1>1. total_pushed \in Nat /\ queue \in Seq(1 .. total_pushed) /\ last_popped \in 0 .. total_pushed
  BY DEF TypeOK
<1>2. /\ kept \in Seq(1 .. total_pushed)
      /\ Len(kept) = IF kept = queue THEN Len(queue) ELSE Len(queue) - 1
      /\ \A i \in 1 .. Len(kept) : last_popped < kept[i]
      /\ \A i, j \in 1 .. Len(kept) : i < j => kept[i] < kept[j]
  <2>1. CASE kept = queue
    BY <1>1, <2>1 DEF FifoDelivery
  <2>2. CASE queue # <<>> /\ kept = Tail(queue)
    <3>1. /\ kept \in Seq(1 .. total_pushed) /\ Len(kept) = Len(queue) - 1
          /\ \A i \in 1 .. Len(kept) : kept[i] = queue[i + 1]
      BY <1>1, <2>2, HeadTailProperties
    <3>2. Len(queue) \in Nat /\ Len(kept) \in Nat  BY <1>1, <3>1, LenProperties
    <3>3. \A i \in 1 .. Len(kept) : i + 1 \in 1 .. Len(queue)  BY <3>1, <3>2
    <3>4. kept # queue  BY <3>1, <3>2
    <3>5. \A i \in 1 .. Len(kept) : last_popped < kept[i]
      BY <3>1, <3>3 DEF FifoDelivery
    <3>6. ASSUME NEW i \in 1 .. Len(kept), NEW j \in 1 .. Len(kept), i < j
          PROVE  kept[i] < kept[j]
      <4>1. /\ i + 1 \in 1 .. Len(queue) /\ j + 1 \in 1 .. Len(queue) /\ i + 1 < j + 1
            /\ kept[i] = queue[i + 1] /\ kept[j] = queue[j + 1]
        BY <3>1, <3>2, <3>3, <3>6
      <4> QED BY <4>1 DEF FifoDelivery
    <3> QED BY <3>1, <3>4, <3>5, <3>6
  <2> QED BY <2>1, <2>2
<1>3. kept \in Seq(1 .. total_pushed + 1)
  BY <1>1, <1>2, SeqMonotonic
<1>4. /\ queue' \in Seq(1 .. total_pushed + 1) /\ Len(queue') = Len(kept) + 1
      /\ \A i \in 1 .. Len(kept) : queue'[i] = kept[i]
      /\ queue'[Len(kept) + 1] = total_pushed + 1
  BY <1>1, <1>3, AppendProperties
<1>5. Len(kept) \in Nat /\ \A i \in 1 .. Len(kept) : kept[i] \in 1 .. total_pushed
  BY <1>2, LenProperties, ElementOfSeq
<1>6. \A i \in 1 .. Len(queue') : last_popped < queue'[i]
  <2> SUFFICES ASSUME NEW i \in 1 .. Len(queue') PROVE last_popped < queue'[i]
    OBVIOUS
  <2>1. CASE i \in 1 .. Len(kept)  BY <1>2, <1>4, <2>1
  <2>2. CASE i = Len(kept) + 1  BY <1>1, <1>4, <2>2
  <2> QED BY <1>4, <1>5, <2>1, <2>2
<1>7. \A i, j \in 1 .. Len(queue') : i < j => queue'[i] < queue'[j]
  <2> SUFFICES ASSUME NEW i \in 1 .. Len(queue'), NEW j \in 1 .. Len(queue'), i < j
               PROVE  queue'[i] < queue'[j]
    OBVIOUS
  <2>1. i \in 1 .. Len(kept)  BY <1>4, <1>5
  <2>2. CASE j \in 1 .. Len(kept)  BY <1>2, <1>4, <2>1, <2>2
  <2>3. CASE j = Len(kept) + 1
    <3>1. queue'[i] \in 1 .. total_pushed  BY <1>4, <1>5, <2>1
    <3>2. queue'[j] = total_pushed + 1  BY <1>4, <2>3
    <3>3. total_pushed \in Nat  BY <1>1
    <3> QED BY <3>1, <3>2, <3>3
  <2>4. j \in 1 .. Len(kept) \/ j = Len(kept) + 1  BY <1>4, <1>5, SMTT(30)
  <2> QED BY <2>2, <2>3, <2>4
<1> QED BY <1>1, <1>2, <1>4, <1>6, <1>7 DEF FifoDelivery

\* Removing the n oldest events, the last of which becomes last_popped.
LEMMA RemoveKeepsOrder ==
    ASSUME TypeOK, FifoDelivery, NEW n \in 0 .. Len(queue),
           queue' = SubSeq(queue, n + 1, Len(queue)),
           last_popped' = IF n > 0 THEN queue[n] ELSE last_popped,
           total_pushed' = total_pushed
    PROVE  /\ queue' \in Seq(1 .. total_pushed')
           /\ Len(queue') = Len(queue) - n
           /\ last_popped' \in 0 .. total_pushed'
           /\ FifoDelivery'
<1>1. total_pushed \in Nat /\ queue \in Seq(1 .. total_pushed) /\ last_popped \in 0 .. total_pushed
  BY DEF TypeOK
<1>2. Len(queue) \in Nat /\ \A i \in 1 .. Len(queue) : queue[i] \in 1 .. total_pushed
  BY <1>1, LenProperties, ElementOfSeq
<1>3. \A i \in n + 1 .. Len(queue) : queue[i] \in 1 .. total_pushed
  BY <1>2
<1>4. /\ queue' \in Seq(1 .. total_pushed)
      /\ Len(queue') = Len(queue) - n
      /\ \A i \in 1 .. Len(queue) - n : queue'[i] = queue[n + i]
  <2>1. n + 1 \in Int /\ Len(queue) \in Int  BY <1>2
  <2>2. /\ queue' \in Seq(1 .. total_pushed)
        /\ Len(queue') = IF n + 1 <= Len(queue) THEN Len(queue) - (n + 1) + 1 ELSE 0
        /\ \A i \in 1 .. Len(queue) - (n + 1) + 1 : queue'[i] = queue[n + 1 + i - 1]
    BY <1>3, <2>1, SubSeqProperties
  <2> QED BY <1>2, <2>2
<1>5. \A i \in 1 .. Len(queue') : n + i \in 1 .. Len(queue) /\ queue'[i] = queue[n + i]
  BY <1>2, <1>4
<1>6. last_popped' \in 0 .. total_pushed
  BY <1>1, <1>2
<1>7. \A i \in 1 .. Len(queue') : last_popped' < queue'[i]
  <2> SUFFICES ASSUME NEW i \in 1 .. Len(queue') PROVE last_popped' < queue'[i]
    OBVIOUS
  <2>1. CASE n = 0  BY <1>5, <2>1 DEF FifoDelivery
  <2>2. CASE n > 0
    <3>1. n \in 1 .. Len(queue) /\ n < n + i  BY <1>4, <2>2, SMTT(30)
    <3> QED BY <1>5, <2>2, <3>1 DEF FifoDelivery
  <2> QED BY <2>1, <2>2
<1>8. \A i, j \in 1 .. Len(queue') : i < j => queue'[i] < queue'[j]
  <2> SUFFICES ASSUME NEW i \in 1 .. Len(queue'), NEW j \in 1 .. Len(queue'), i < j
               PROVE  queue'[i] < queue'[j]
    OBVIOUS
  <2>1. n + i < n + j  OBVIOUS
  <2> QED BY <1>5, <2>1 DEF FifoDelivery
<1> QED BY <1>1, <1>4, <1>6, <1>7, <1>8 DEF FifoDelivery

----------------------------------------------------------------------------
\* Each action keeps the invariant

LEMMA InitIInv == Init => IInv
<1> SUFFICES ASSUME Init PROVE IInv
  OBVIOUS
<1>1. Pushing = {} /\ Cardinality(Pushing) = 0 /\ Cardinality({}) = 0
  BY FS_EmptySet DEF Init, Pushing
<1>2. queue = <<>> /\ Len(queue) = 0 /\ queue \in Seq(1 .. total_pushed)
  BY EmptySeq DEF Init
<1>3. TypeOK
  <2>1. 0 \in Nat /\ 0 \in 0 .. 0  OBVIOUS
  <2>2. /\ notFull \subseteq {p \in Producers : ppc[p] = "blocked"}
        /\ notEmpty \subseteq {c \in Consumers : cpc[c] = "blocked"}
        /\ expired \subseteq {p \in Producers : ppc[p] = "blocked"}
                              \cup {c \in Consumers : cpc[c] = "blocked"}
    BY DEF Init
  <2>3. /\ ppc \in [Producers -> {"idle", "numbered", "blocked"}]
        /\ cpc \in [Consumers -> {"idle", "blocked"}]
    BY DEF Init
  <2> QED BY <1>2, <2>1, <2>2, <2>3 DEF Init, TypeOK
<1>4. FifoDelivery  BY <1>2 DEF FifoDelivery
<1>5. CountersAddUp  BY <1>1, <1>2, TradeQueueAssumption DEF Init, CountersAddUp
<1>6. NoLostWakeup  BY DEF Init, NoLostWakeup
<1>7. WaitingIsBlock  BY <1>1 DEF Init, WaitingIsBlock
<1> QED BY <1>3, <1>4, <1>5, <1>6, <1>7 DEF IInv

LEMMA TakeSequenceIInv ==
    ASSUME IInv, NEW p \in Producers, TakeSequence(p)
    PROVE  IInv'
<1>1. /\ TypeOK /\ FifoDelivery /\ CountersAddUp /\ NoLostWakeup /\ WaitingIsBlock
      /\ ppc[p] = "idle" /\ sequence' = sequence + 1
      /\ ppc' = [ppc EXCEPT ![p] = "numbered"]
      /\ UNCHANGED <<backpressure, queue, closed, cpc, total_pushed, total_popped,
                     dropped_count, high_watermark, notFull, notEmpty, expired,
                     last_popped, cleared>>
  BY DEF IInv, TakeSequence, counters, waiters, history
<1>2. Pushing' = Pushing \cup {p} /\ p \notin Pushing
  BY <1>1 DEF TypeOK, Pushing
<1>3. Cardinality(Pushing) \in Nat /\ Cardinality(Pushing') = Cardinality(Pushing) + 1
  BY <1>1, <1>2, ThreadsFinite, FS_AddElement
<1>4. AwakeProducers' = AwakeProducers /\ AwakeConsumers' = AwakeConsumers
  BY <1>1 DEF TypeOK, AwakeProducers, AwakeConsumers
<1>5. TypeOK'  BY <1>1 DEF TypeOK
<1>6. FifoDelivery'  BY <1>1 DEF FifoDelivery
<1>7. CountersAddUp'
  <2>1. sequence \in Nat /\ total_pushed \in Nat /\ dropped_count \in Nat
    BY <1>1 DEF TypeOK
  <2> QED BY <1>1, <1>3, <2>1, SMTT(30) DEF CountersAddUp
<1>8. NoLostWakeup'  BY <1>1, <1>4 DEF NoLostWakeup
<1>9. WaitingIsBlock'  BY <1>1, <1>3 DEF TypeOK, WaitingIsBlock
<1> QED BY <1>5, <1>6, <1>7, <1>8, <1>9 DEF IInv

\* The event enters the queue, which had room or evicts its oldest event.
LEMMA EnqueueIInv ==
    ASSUME IInv, NEW p \in Producers, Leaves(p), ~ closed, NEW kept,
           \/ kept = queue /\ ~ IsFull /\ dropped_count' = dropped_count
           \/ /\ kept = Tail(queue) /\ IsFull /\ backpressure = "DROP_OLDEST"
              /\ dropped_count' = dropped_count + 1,
           Enqueue(p, kept),
           UNCHANGED <<backpressure, closed, sequence, total_popped, cpc, history>>
    PROVE  IInv'
<1>1. /\ TypeOK /\ FifoDelivery /\ CountersAddUp /\ NoLostWakeup /\ WaitingIsBlock
      /\ queue' = Append(kept, total_pushed + 1) /\ total_pushed' = total_pushed + 1
      /\ high_watermark' = Greater(high_watermark, Len(queue'))
      /\ NotifyOne(notEmpty, notEmpty')
      /\ UNCHANGED <<backpressure, closed, sequence, total_popped, cpc, last_popped, cleared>>
  BY DEF IInv, Enqueue, history
<1>2. Capacity \in Nat \ {0}  BY TradeQueueAssumption
<1>3. /\ total_pushed \in Nat /\ total_popped \in Nat /\ dropped_count \in Nat
      /\ high_watermark \in Nat /\ cleared \in Nat /\ sequence \in Nat /\ Len(queue) \in Nat
      /\ backpressure \in Policies
  BY <1>1, LenProperties DEF TypeOK
<1>4. kept = queue \/ (queue # <<>> /\ kept = Tail(queue))
  <2>1. CASE kept = queue  BY <2>1
  <2>2. CASE kept = Tail(queue) /\ IsFull
    <3>1. Len(queue) >= 1  BY <1>2, <1>3, <2>2 DEF IsFull
    <3>2. queue # <<>>  BY <3>1
    <3> QED BY <2>2, <3>2
  <2> QED BY <2>1, <2>2
<1>5. /\ queue' \in Seq(1 .. total_pushed') /\ Len(queue') = Len(kept) + 1
      /\ Len(kept) = IF kept = queue THEN Len(queue) ELSE Len(queue) - 1
      /\ last_popped' \in 0 .. total_pushed' /\ FifoDelivery'
  BY <1>1, <1>4, AppendKeepsOrder
<1>6. \/ Len(queue') = Len(queue) + 1 /\ Len(queue) < Capacity /\ dropped_count' = dropped_count
      \/ /\ Len(queue') = Len(queue) /\ Len(queue) >= Capacity
         /\ backpressure = "DROP_OLDEST" /\ dropped_count' = dropped_count + 1
  <2>1. CASE kept = queue /\ ~ IsFull /\ dropped_count' = dropped_count
    BY <1>2, <1>3, <1>5, <2>1 DEF IsFull
  <2>2. CASE /\ kept = Tail(queue) /\ IsFull /\ backpressure = "DROP_OLDEST"
             /\ dropped_count' = dropped_count + 1
    <3>1. queue # <<>>
      <4>1. Len(queue) >= 1  BY <1>2, <1>3, <2>2 DEF IsFull
      <4> QED BY <4>1
    <3>2. Len(kept) = Len(queue) - 1
      BY <1>1, <2>2, <3>1, HeadTailProperties DEF TypeOK
    <3> QED BY <1>3, <1>5, <2>2, <3>2 DEF IsFull
  <2> QED BY <2>1, <2>2
<1>7. Len(queue) <= high_watermark /\ high_watermark <= Capacity
  BY <1>1 DEF CountersAddUp
<1>8. /\ high_watermark' \in Nat /\ Len(queue') <= high_watermark'
      /\ high_watermark' <= Capacity
  BY <1>1, <1>2, <1>3, <1>6, <1>7 DEF Greater
<1>9. /\ Cardinality(Pushing) \in Nat /\ Cardinality(Pushing') = Cardinality(Pushing) - 1
      /\ Cardinality(Pushing) >= 1
      /\ ppc' \in [Producers -> {"idle", "numbered", "blocked"}]
      /\ notFull' \subseteq {q \in Producers : ppc'[q] = "blocked"}
      /\ \A q \in Producers : ppc'[q] = "blocked" => ppc[q] = "blocked"
      /\ Cardinality(AwakeProducers) \in Nat /\ Cardinality(AwakeProducers') \in Nat
      /\ Cardinality(AwakeProducers') >= Cardinality(AwakeProducers) - 1
      /\ Cardinality(AwakeConsumers) \in Nat
  BY <1>1, LeavingProducer, ThreadsFinite
<1>10. /\ notEmpty' \subseteq {c \in Consumers : cpc'[c] = "blocked"}
       /\ Cardinality(AwakeConsumers') \in Nat
       /\ notEmpty' # {} =>
            notEmpty # {} /\ Cardinality(AwakeConsumers') = Cardinality(AwakeConsumers) + 1
  BY <1>1, NotifiedConsumer
<1>11. total_pushed + Cardinality(Pushing) <= sequence
  BY <1>1 DEF WaitingIsBlock
<1>12. TypeOK'
  <2>1. total_pushed' \in 0 .. sequence' /\ total_popped' \in 0 .. total_pushed'
    <3>1. total_popped \in 0 .. total_pushed  BY <1>1 DEF TypeOK
    <3> QED BY <1>1, <1>3, <1>9, <1>11, <3>1
  <2>2. dropped_count' \in Nat  BY <1>3, <1>6
  <2>3. expired' \subseteq {q \in Producers : ppc'[q] = "blocked"}
                           \cup {c \in Consumers : cpc'[c] = "blocked"}
    BY <1>1, TradeQueueAssumption DEF TypeOK, Leaves
  <2> QED BY <1>1, <1>5, <1>8, <1>9, <1>10, <2>1, <2>2, <2>3 DEF TypeOK
<1>13. CountersAddUp'
  <2> DEFINE evicted == IF backpressure = "DROP_OLDEST" THEN dropped_count ELSE 0
  <2>1. /\ total_pushed = total_popped + Len(queue) + cleared + evicted
        /\ sequence = total_pushed + Cardinality(Pushing) + (dropped_count - evicted)
    BY <1>1 DEF CountersAddUp
  <2>2. CASE backpressure = "DROP_OLDEST"
    <3>1. evicted = dropped_count /\ evicted' = dropped_count'  BY <1>1, <2>2
    <3>2. total_pushed' = total_popped' + Len(queue') + cleared' + evicted'
      <4>1. total_pushed = total_popped + Len(queue) + cleared + dropped_count
        BY <2>1, <3>1
      <4>2. Len(queue') + dropped_count' = Len(queue) + dropped_count + 1  BY <1>3, <1>6
      <4>3. total_pushed + 1 = total_popped + (Len(queue') + dropped_count') + cleared
        BY <1>3, <4>1, <4>2
      <4>4. Len(queue') \in Nat /\ dropped_count' \in Nat  BY <1>3, <1>6
      <4> QED BY <1>1, <1>3, <3>1, <4>3, <4>4
    <3>3. sequence' = total_pushed' + Cardinality(Pushing') + (dropped_count' - evicted')
      <4>1. dropped_count' - evicted' = 0 /\ dropped_count - evicted = 0
        BY <1>3, <1>6, <3>1
      <4>2. sequence = total_pushed + Cardinality(Pushing)
        <5> HIDE DEF evicted
        <5> QED BY <1>3, <1>9, <2>1, <4>1
      <4>3. total_pushed' + Cardinality(Pushing') = total_pushed + Cardinality(Pushing)
        BY <1>1, <1>3, <1>9
      <4>4. total_pushed' \in Nat /\ Cardinality(Pushing') \in Nat  BY <1>1, <1>3, <1>9
      <4> HIDE DEF evicted
      <4> QED BY <1>1, <4>1, <4>2, <4>3, <4>4
    <3> QED BY <1>8, <3>2, <3>3 DEF CountersAddUp
  <2>3. CASE backpressure # "DROP_OLDEST"
    <3>1. evicted = 0 /\ evicted' = 0 /\ dropped_count' = dropped_count  BY <1>1, <1>6, <2>3
    <3>2. total_pushed' = total_popped' + Len(queue') + cleared' + evicted'
      BY <1>1, <1>3, <1>6, <2>1, <2>3, <3>1, SMTT(30)
    <3>3. sequence' = total_pushed' + Cardinality(Pushing') + (dropped_count' - evicted')
      BY <1>1, <1>3, <1>6, <1>9, <2>1, <3>1
    <3> QED BY <1>8, <3>2, <3>3 DEF CountersAddUp
  <2> QED BY <2>2, <2>3
<1>14. NoLostWakeup'
  <2>1. notFull' # {} => Capacity - Len(queue') <= Cardinality(AwakeProducers')
    <3> SUFFICES ASSUME notFull' # {}
                 PROVE  Capacity - Len(queue') <= Cardinality(AwakeProducers')
      OBVIOUS
    <3>1. notFull # {}  BY DEF Leaves
    <3>2. backpressure = "BLOCK"  BY <1>1, <3>1 DEF TypeOK, WaitingIsBlock
    <3>3. Len(queue') = Len(queue) + 1  BY <1>6, <3>2
    <3>4. Capacity - Len(queue) <= Cardinality(AwakeProducers)
      BY <1>1, <3>1 DEF NoLostWakeup
    <3> QED BY <1>2, <1>3, <1>9, <3>3, <3>4
  <2>2. notEmpty' # {} => Len(queue') <= Cardinality(AwakeConsumers')
    <3> SUFFICES ASSUME notEmpty' # {}
                 PROVE  Len(queue') <= Cardinality(AwakeConsumers')
      OBVIOUS
    <3>1. Len(queue) <= Cardinality(AwakeConsumers)
      BY <1>1, <1>10 DEF NoLostWakeup
    <3> QED BY <1>3, <1>6, <1>9, <1>10, <3>1
  <2> QED BY <2>1, <2>2 DEF NoLostWakeup
<1>15. WaitingIsBlock'
  BY <1>1, <1>3, <1>9, <1>11, SMTT(30) DEF WaitingIsBlock
<1> QED BY <1>5, <1>12, <1>13, <1>14, <1>15 DEF IInv

\* A push that is refused, because the queue is closed or full.
LEMMA RefuseIInv ==
    ASSUME IInv, NEW p \in Producers, Leaves(p),
           \/ closed /\ dropped_count' = dropped_count
           \/ /\ ~ closed /\ IsFull /\ backpressure # "DROP_OLDEST"
              /\ dropped_count' = dropped_count + 1,
           UNCHANGED <<backpressure, queue, closed, sequence, total_pushed, total_popped,
                       high_watermark, cpc, notEmpty, history>>
    PROVE  IInv'
<1>1. /\ TypeOK /\ FifoDelivery /\ CountersAddUp /\ NoLostWakeup /\ WaitingIsBlock
      /\ UNCHANGED <<last_popped, cleared>>
  BY DEF IInv, history
<1>2. Capacity \in Nat \ {0}  BY TradeQueueAssumption
<1>3. /\ total_pushed \in Nat /\ total_popped \in Nat /\ dropped_count \in Nat
      /\ cleared \in Nat /\ sequence \in Nat /\ Len(queue) \in Nat
  BY <1>1, LenProperties DEF TypeOK
<1>4. /\ Cardinality(Pushing) \in Nat /\ Cardinality(Pushing') = Cardinality(Pushing) - 1
      /\ ppc' \in [Producers -> {"idle", "numbered", "blocked"}]
      /\ notFull' \subseteq {q \in Producers : ppc'[q] = "blocked"}
      /\ \A q \in Producers : ppc'[q] = "blocked" => ppc[q] = "blocked"
      /\ Cardinality(AwakeProducers') \in Nat
  BY <1>1, LeavingProducer, ThreadsFinite
<1>5. TypeOK'
  <2>1. dropped_count' \in Nat  BY <1>3
  <2>2. expired' \subseteq {q \in Producers : ppc'[q] = "blocked"}
                           \cup {c \in Consumers : cpc'[c] = "blocked"}
    BY <1>1, TradeQueueAssumption DEF TypeOK, Leaves
  <2> QED BY <1>1, <1>4, <2>1, <2>2 DEF TypeOK
<1>6. FifoDelivery'  BY <1>1 DEF FifoDelivery
<1>7. CountersAddUp'
  <2> DEFINE evicted == IF backpressure = "DROP_OLDEST" THEN dropped_count ELSE 0
  <2>1. /\ total_pushed = total_popped + Len(queue) + cleared + evicted
        /\ ~ closed => sequence = total_pushed + Cardinality(Pushing) + (dropped_count - evicted)
        /\ Len(queue) <= high_watermark /\ high_watermark <= Capacity
    BY <1>1 DEF CountersAddUp
  <2>2. evicted' = evicted  OBVIOUS
  <2>3. ~ closed => sequence = total_pushed + Cardinality(Pushing') + (dropped_count' - evicted')
    BY <1>3, <1>4, <2>1, <2>2, SMTT(30)
  <2> QED BY <1>1, <2>1, <2>2, <2>3 DEF CountersAddUp
<1>8. NoLostWakeup'
  <2>1. notFull' # {} => Capacity - Len(queue') <= Cardinality(AwakeProducers')
    <3> SUFFICES ASSUME notFull' # {}
                 PROVE  Capacity - Len(queue') <= Cardinality(AwakeProducers')
      OBVIOUS
    <3>1. ~ closed  BY <1>1 DEF Leaves, WaitingIsBlock
    <3>2. Capacity - Len(queue) <= 0  BY <1>2, <1>3, <3>1 DEF IsFull
    <3> QED BY <1>2, <1>3, <1>4, <3>2
  <2>2. AwakeConsumers' = AwakeConsumers  BY DEF AwakeConsumers
  <2> QED BY <1>1, <2>1, <2>2 DEF NoLostWakeup
<1>9. WaitingIsBlock'
  <2>1. closed' => notFull' = {}  BY <1>1 DEF WaitingIsBlock, Leaves
  <2> QED BY <1>1, <1>3, <1>4, <2>1 DEF WaitingIsBlock
<1> QED BY <1>5, <1>6, <1>7, <1>8, <1>9 DEF IInv

\* A push goes to sleep, for the first time or again.
LEMMA BlockIInv ==
    ASSUME IInv, NEW p \in Producers, ppc[p] # "idle", Block(p),
           ~ closed, IsFull, backpressure = "BLOCK",
           expired' = expired \ {p},
           UNCHANGED <<backpressure, closed, sequence, total_popped, cpc, history>>
    PROVE  IInv'
<1>1. /\ TypeOK /\ FifoDelivery /\ CountersAddUp /\ NoLostWakeup /\ WaitingIsBlock
      /\ notFull' = notFull \cup {p} /\ ppc' = [ppc EXCEPT ![p] = "blocked"]
      /\ UNCHANGED <<queue, total_pushed, dropped_count, high_watermark, notEmpty,
                     last_popped, cleared>>
  BY DEF IInv, Block, history
<1>2. Capacity \in Nat \ {0} /\ Len(queue) \in Nat
  BY <1>1, TradeQueueAssumption, LenProperties DEF TypeOK
<1>3. Pushing' = Pushing  BY <1>1 DEF TypeOK, Pushing
<1>4. AwakeConsumers' = AwakeConsumers  BY <1>1 DEF AwakeConsumers
<1>5. Cardinality(AwakeProducers') \in Nat
  <2>1. AwakeProducers' = AwakeProducers \ {p}  BY <1>1 DEF TypeOK, AwakeProducers
  <2>2. IsFiniteSet(AwakeProducers \ {p})  BY <1>1, ThreadsFinite, FS_RemoveElement
  <2> QED BY <2>1, <2>2, FS_CardinalityType
<1>6. TypeOK'
  <2>1. expired' \subseteq {q \in Producers : ppc'[q] = "blocked"}
                           \cup {c \in Consumers : cpc'[c] = "blocked"}
    BY <1>1 DEF TypeOK
  <2>2. notFull' \subseteq {q \in Producers : ppc'[q] = "blocked"}
    BY <1>1 DEF TypeOK
  <2>3. ppc' \in [Producers -> {"idle", "numbered", "blocked"}]
    BY <1>1 DEF TypeOK
  <2> QED BY <1>1, <2>1, <2>2, <2>3 DEF TypeOK
<1>7. FifoDelivery'  BY <1>1 DEF FifoDelivery
<1>8. CountersAddUp'  BY <1>1, <1>3 DEF CountersAddUp
<1>9. NoLostWakeup'
  <2>1. Capacity - Len(queue') <= Cardinality(AwakeProducers')
    BY <1>1, <1>2, <1>5 DEF IsFull
  <2> QED BY <1>1, <1>4, <2>1 DEF NoLostWakeup
<1>10. WaitingIsBlock'  BY <1>1, <1>3 DEF TypeOK, WaitingIsBlock
<1> QED BY <1>6, <1>7, <1>8, <1>9, <1>10 DEF IInv

\* A consumer takes the n oldest events, and if there are any wakes every push.
LEMMA TakeBatchIInv ==
    ASSUME IInv, NEW c \in Consumers, TakeBatch(c),
           notEmpty' = notEmpty \ {c}, expired' = expired \ {c},
           UNCHANGED <<backpressure, closed, sequence, total_pushed, dropped_count,
                       high_watermark, ppc, cleared>>
    PROVE  IInv'
<1>1. TypeOK /\ FifoDelivery /\ CountersAddUp /\ NoLostWakeup /\ WaitingIsBlock
  BY DEF IInv
<1>2. PICK max_items \in 1 .. MaxBatch :
        LET n == Lesser(max_items, Len(queue)) IN
        /\ last_popped' = IF n > 0 THEN queue[n] ELSE last_popped
        /\ queue' = SubSeq(queue, n + 1, Len(queue))
        /\ total_popped' = total_popped + n
        /\ notFull' = IF n > 0 THEN {} ELSE notFull
  BY DEF TakeBatch
<1> DEFINE n == Lesser(max_items, Len(queue))
<1>3. /\ Capacity \in Nat \ {0} /\ Len(queue) \in Nat /\ max_items \in Nat \ {0}
      /\ total_pushed \in Nat /\ total_popped \in Nat /\ dropped_count \in Nat
      /\ cleared \in Nat /\ sequence \in Nat /\ high_watermark \in Nat
  BY <1>1, TradeQueueAssumption, LenProperties DEF TypeOK
<1>4. n \in 0 .. Len(queue) /\ (Len(queue) > 0 => n > 0)  BY <1>3 DEF Lesser
<1>5. /\ last_popped' = IF n > 0 THEN queue[n] ELSE last_popped
      /\ queue' = SubSeq(queue, n + 1, Len(queue))
      /\ total_popped' = total_popped + n
      /\ notFull' = IF n > 0 THEN {} ELSE notFull
      /\ cpc' = [cpc EXCEPT ![c] = "idle"]
  BY <1>2 DEF TakeBatch
<1> HIDE DEF n
<1>6. /\ queue' \in Seq(1 .. total_pushed') /\ Len(queue') = Len(queue) - n
      /\ last_popped' \in 0 .. total_pushed' /\ FifoDelivery'
  BY <1>1, <1>4, <1>5, RemoveKeepsOrder
<1> DEFINE evicted == IF backpressure = "DROP_OLDEST" THEN dropped_count ELSE 0
<1>7. /\ total_pushed = total_popped + Len(queue) + cleared + evicted
      /\ ~ closed => sequence = total_pushed + Cardinality(Pushing) + (dropped_count - evicted)
      /\ Len(queue) <= high_watermark /\ high_watermark <= Capacity
      /\ evicted \in Nat /\ evicted' = evicted
  BY <1>1, <1>3 DEF CountersAddUp
<1>8. Pushing' = Pushing  BY DEF Pushing
<1>9. TypeOK'
  <2>1. total_popped' \in 0 .. total_pushed'
    <3>1. total_pushed = (total_popped + n) + (Len(queue) - n) + cleared + evicted
      BY <1>3, <1>4, <1>7
    <3> HIDE DEF evicted
    <3>2. Len(queue) - n >= 0 /\ evicted >= 0  BY <1>3, <1>4, <1>7
    <3> QED BY <1>3, <1>4, <1>5, <1>7, <3>1, <3>2
  <2>2. /\ cpc' \in [Consumers -> {"idle", "blocked"}]
        /\ notEmpty' \subseteq {d \in Consumers : cpc'[d] = "blocked"}
    BY <1>1, <1>5 DEF TypeOK
  <2>3. expired' \subseteq {p \in Producers : ppc'[p] = "blocked"}
                           \cup {d \in Consumers : cpc'[d] = "blocked"}
    BY <1>1, <1>5, TradeQueueAssumption DEF TypeOK
  <2>4. notFull' \subseteq {p \in Producers : ppc'[p] = "blocked"}
    BY <1>1, <1>5 DEF TypeOK
  <2> QED BY <1>1, <1>6, <2>1, <2>2, <2>3, <2>4 DEF TypeOK
<1>10. CountersAddUp'
  <2>1. total_pushed' = total_popped' + Len(queue') + cleared' + evicted'
    <3> HIDE DEF evicted
    <3>1. total_pushed = (total_popped + n) + (Len(queue) - n) + cleared + evicted
      BY <1>3, <1>4, <1>7
    <3> QED BY <1>5, <1>6, <1>7, <3>1
  <2>2. Len(queue') <= high_watermark'  BY <1>3, <1>4, <1>6, <1>7
  <2> QED BY <1>7, <1>8, <2>1, <2>2 DEF CountersAddUp
<1>11. NoLostWakeup'
  <2>1. notFull' # {} => Capacity - Len(queue') <= Cardinality(AwakeProducers')
    <3> SUFFICES ASSUME notFull' # {}
                 PROVE  Capacity - Len(queue') <= Cardinality(AwakeProducers')
      OBVIOUS
    <3>1. n = 0 /\ notFull' = notFull /\ Len(queue') = Len(queue)
      BY <1>3, <1>4, <1>5, <1>6
    <3>2. AwakeProducers' = AwakeProducers  BY <3>1 DEF AwakeProducers
    <3> QED BY <1>1, <3>1, <3>2 DEF NoLostWakeup
  <2>2. notEmpty' # {} => Len(queue') <= Cardinality(AwakeConsumers')
    <3> SUFFICES ASSUME notEmpty' # {}
                 PROVE  Len(queue') <= Cardinality(AwakeConsumers')
      OBVIOUS
    <3>1. Len(queue) <= Cardinality(AwakeConsumers)  BY <1>1 DEF NoLostWakeup
    <3>2. AwakeConsumers' = AwakeConsumers \ {c}
      BY <1>1, <1>5 DEF TypeOK, AwakeConsumers
    <3>3. /\ IsFiniteSet(AwakeConsumers) /\ Cardinality(AwakeConsumers) \in Nat
          /\ IsFiniteSet(AwakeConsumers \ {c})
          /\ Cardinality(AwakeConsumers \ {c}) >= Cardinality(AwakeConsumers) - 1
      <4>1. IsFiniteSet(AwakeConsumers) /\ Cardinality(AwakeConsumers) \in Nat
        BY <1>1, ThreadsFinite
      <4>2. /\ IsFiniteSet(AwakeConsumers \ {c})
            /\ Cardinality(AwakeConsumers \ {c})
                 = IF c \in AwakeConsumers THEN Cardinality(AwakeConsumers) - 1
                   ELSE Cardinality(AwakeConsumers)
        BY <4>1, FS_RemoveElement
      <4> QED BY <4>1, <4>2
    <3>4. Cardinality(AwakeConsumers \ {c}) \in Nat  BY <3>3, FS_CardinalityType
    <3>5. CASE Len(queue) = 0
      <4>0. n = 0  BY <1>4, <3>5
      <4>1. Len(queue') = 0  BY <1>6, <3>5, <4>0
      <4> QED BY <3>2, <3>4, <4>1
    <3>6. CASE Len(queue) > 0
      <4>1. Len(queue') <= Len(queue) - 1  BY <1>3, <1>4, <1>6, <3>6
      <4> QED BY <1>3, <1>4, <1>6, <3>1, <3>2, <3>3, <3>4, <4>1
    <3> QED BY <1>3, <3>5, <3>6
  <2> QED BY <2>1, <2>2 DEF NoLostWakeup
<1>12. WaitingIsBlock'
  <2>1. closed' => notFull' = {}  BY <1>1, <1>5 DEF WaitingIsBlock
  <2> QED BY <1>1, <1>8, <2>1 DEF WaitingIsBlock
<1> QED BY <1>6, <1>9, <1>10, <1>11, <1>12 DEF IInv

\* A consumer goes to sleep on an empty queue.
LEMMA WaitIInv ==
    ASSUME IInv, NEW c \in Consumers, cpc[c] = "idle", queue = <<>>,
           notEmpty' = notEmpty \cup {c}, cpc' = [cpc EXCEPT ![c] = "blocked"],
           UNCHANGED <<backpressure, queue, closed, sequence, counters, ppc, notFull,
                       expired, history>>
    PROVE  IInv'
<1>1. /\ TypeOK /\ FifoDelivery /\ CountersAddUp /\ NoLostWakeup /\ WaitingIsBlock
      /\ UNCHANGED <<total_pushed, total_popped, dropped_count, high_watermark,
                     last_popped, cleared>>
  BY DEF IInv, counters, history
<1>2. Pushing' = Pushing /\ AwakeProducers' = AwakeProducers
  BY DEF Pushing, AwakeProducers
<1>3. AwakeConsumers' = AwakeConsumers  BY <1>1 DEF TypeOK, AwakeConsumers
<1>4. TypeOK'
  <2>1. /\ cpc' \in [Consumers -> {"idle", "blocked"}]
        /\ notEmpty' \subseteq {d \in Consumers : cpc'[d] = "blocked"}
        /\ expired' \subseteq {p \in Producers : ppc'[p] = "blocked"}
                              \cup {d \in Consumers : cpc'[d] = "blocked"}
    BY <1>1 DEF TypeOK
  <2> QED BY <1>1, <2>1 DEF TypeOK
<1>5. FifoDelivery'  BY <1>1 DEF FifoDelivery
<1>6. CountersAddUp'  BY <1>1, <1>2 DEF CountersAddUp
<1>7. NoLostWakeup'
  <2>1. Len(queue') <= Cardinality(AwakeConsumers')
    BY <1>1, <1>3, ThreadsFinite, EmptySeq
  <2> QED BY <1>1, <1>2, <2>1 DEF NoLostWakeup
<1>8. WaitingIsBlock'  BY <1>1, <1>2 DEF WaitingIsBlock
<1> QED BY <1>4, <1>5, <1>6, <1>7, <1>8 DEF IInv

LEMMA PopNowaitIInv == ASSUME IInv, PopNowait PROVE IInv'
<1>1. /\ TypeOK /\ FifoDelivery /\ CountersAddUp /\ NoLostWakeup /\ WaitingIsBlock
      /\ queue # <<>> /\ last_popped' = Head(queue) /\ queue' = Tail(queue)
      /\ total_popped' = total_popped + 1 /\ NotifyOne(notFull, notFull')
      /\ UNCHANGED <<backpressure, closed, sequence, total_pushed, dropped_count,
                     high_watermark, ppc, cpc, notEmpty, expired, cleared>>
  BY DEF IInv, PopNowait, threads
<1>2. /\ Capacity \in Nat \ {0} /\ Len(queue) \in Nat /\ queue \in Seq(1 .. total_pushed)
      /\ total_pushed \in Nat /\ total_popped \in Nat /\ dropped_count \in Nat
      /\ cleared \in Nat /\ sequence \in Nat /\ high_watermark \in Nat
  BY <1>1, TradeQueueAssumption, LenProperties DEF TypeOK
<1>3. Len(queue) >= 1  BY <1>1, <1>2, EmptySeq
<1>4. /\ queue' \in Seq(1 .. total_pushed') /\ Len(queue') = Len(queue) - 1
      /\ last_popped' \in 0 .. total_pushed' /\ FifoDelivery'
  <2>1. queue' = SubSeq(queue, 1 + 1, Len(queue))
    BY <1>1, <1>2, TailIsSubSeq
  <2>2. last_popped' = queue[1]  BY <1>1
  <2>3. 1 \in 0 .. Len(queue)  BY <1>2, <1>3
  <2>4. last_popped' = IF 1 > 0 THEN queue[1] ELSE last_popped  BY <2>2
  <2> QED BY <1>1, <2>1, <2>3, <2>4, RemoveKeepsOrder
<1> DEFINE evicted == IF backpressure = "DROP_OLDEST" THEN dropped_count ELSE 0
<1>5. /\ total_pushed = total_popped + Len(queue) + cleared + evicted
      /\ ~ closed => sequence = total_pushed + Cardinality(Pushing) + (dropped_count - evicted)
      /\ Len(queue) <= high_watermark /\ high_watermark <= Capacity
      /\ evicted \in Nat /\ evicted' = evicted
  BY <1>1, <1>2 DEF CountersAddUp
<1>6. /\ notFull' \subseteq {p \in Producers : ppc'[p] = "blocked"}
      /\ Cardinality(AwakeProducers') \in Nat /\ Cardinality(AwakeProducers) \in Nat
      /\ notFull = {} => notFull' = {}
      /\ notFull' # {} =>
           notFull # {} /\ Cardinality(AwakeProducers') = Cardinality(AwakeProducers) + 1
  BY <1>1, NotifiedProducer, ThreadsFinite
<1>7. Pushing' = Pushing /\ AwakeConsumers' = AwakeConsumers
  BY <1>1 DEF Pushing, AwakeConsumers
<1>8. TypeOK'
  <2>1. total_popped' \in 0 .. total_pushed'  BY <1>1, <1>2, <1>3, <1>5
  <2> QED BY <1>1, <1>4, <1>6, <2>1 DEF TypeOK
<1>9. CountersAddUp'
  <2>1. total_pushed' = total_popped' + Len(queue') + cleared' + evicted'
    BY <1>1, <1>2, <1>4, <1>5
  <2>2. Len(queue') <= high_watermark'  BY <1>1, <1>2, <1>4, <1>5
  <2> QED BY <1>1, <1>5, <1>7, <2>1, <2>2 DEF CountersAddUp
<1>10. NoLostWakeup'
  <2>1. notFull' # {} => Capacity - Len(queue') <= Cardinality(AwakeProducers')
    BY <1>1, <1>2, <1>4, <1>6 DEF NoLostWakeup
  <2>2. notEmpty' # {} => Len(queue') <= Cardinality(AwakeConsumers')
    BY <1>1, <1>2, <1>4, <1>7, ThreadsFinite DEF NoLostWakeup
  <2> QED BY <2>1, <2>2 DEF NoLostWakeup
<1>11. WaitingIsBlock'  BY <1>1, <1>6, <1>7 DEF WaitingIsBlock
<1> QED BY <1>4, <1>8, <1>9, <1>10, <1>11 DEF IInv

\* close wakes everybody, clear wakes every producer, and a timeout nobody yet.
LEMMA CloseIInv == ASSUME IInv, Close PROVE IInv'
<1>1. /\ TypeOK /\ FifoDelivery /\ CountersAddUp /\ NoLostWakeup /\ WaitingIsBlock
      /\ closed' = TRUE /\ notFull' = {} /\ notEmpty' = {}
      /\ UNCHANGED <<backpressure, queue, sequence, total_pushed, total_popped,
                     dropped_count, high_watermark, ppc, cpc, expired, last_popped, cleared>>
  BY DEF IInv, Close, counters, threads, history
<1>2. Pushing' = Pushing  BY <1>1 DEF Pushing
<1>3. TypeOK'  BY <1>1 DEF TypeOK
<1>4. FifoDelivery' /\ NoLostWakeup'  BY <1>1 DEF FifoDelivery, NoLostWakeup
<1>5. CountersAddUp'  BY <1>1, <1>2 DEF CountersAddUp
<1>6. WaitingIsBlock'  BY <1>1, <1>2 DEF WaitingIsBlock
<1> QED BY <1>3, <1>4, <1>5, <1>6 DEF IInv

LEMMA ClearIInv == ASSUME IInv, Clear PROVE IInv'
<1>1. /\ TypeOK /\ FifoDelivery /\ CountersAddUp /\ NoLostWakeup /\ WaitingIsBlock
      /\ cleared' = cleared + Len(queue) /\ queue' = <<>> /\ notFull' = {}
      /\ UNCHANGED <<backpressure, closed, sequence, total_pushed, total_popped,
                     dropped_count, high_watermark, ppc, cpc, notEmpty, expired, last_popped>>
  BY DEF IInv, Clear, counters, threads
<1>2. /\ Len(queue) \in Nat /\ total_popped \in Nat /\ cleared \in Nat
      /\ dropped_count \in Nat /\ high_watermark \in Nat
  BY <1>1, LenProperties DEF TypeOK
<1>3. Len(queue') = 0 /\ queue' \in Seq(1 .. total_pushed')  BY <1>1, EmptySeq
<1>4. Pushing' = Pushing /\ AwakeConsumers' = AwakeConsumers
  BY <1>1 DEF Pushing, AwakeConsumers
<1>5. TypeOK'  BY <1>1, <1>2, <1>3 DEF TypeOK
<1>6. FifoDelivery'  BY <1>3 DEF FifoDelivery
<1>7. CountersAddUp'
  <2> DEFINE evicted == IF backpressure = "DROP_OLDEST" THEN dropped_count ELSE 0
  <2>1. /\ total_pushed = total_popped + Len(queue) + cleared + evicted
        /\ ~ closed => sequence = total_pushed + Cardinality(Pushing) + (dropped_count - evicted)
        /\ Len(queue) <= high_watermark /\ high_watermark <= Capacity
        /\ evicted \in Nat /\ evicted' = evicted
    BY <1>1, <1>2 DEF CountersAddUp
  <2>2. total_pushed' = total_popped' + Len(queue') + cleared' + evicted'
    <3> HIDE DEF evicted
    <3>1. total_pushed = total_popped + 0 + (cleared + Len(queue)) + evicted
      BY <1>2, <2>1
    <3> QED BY <1>1, <1>3, <2>1, <3>1
  <2>3. Len(queue') <= high_watermark'  BY <1>1, <1>2, <1>3
  <2> QED BY <1>1, <1>4, <2>1, <2>2, <2>3 DEF CountersAddUp
<1>8. NoLostWakeup'
  <2>1. Len(queue') <= Cardinality(AwakeConsumers')  BY <1>1, <1>3, <1>4, ThreadsFinite
  <2> QED BY <1>1, <2>1 DEF NoLostWakeup
<1>9. WaitingIsBlock'  BY <1>1, <1>4 DEF WaitingIsBlock
<1> QED BY <1>5, <1>6, <1>7, <1>8, <1>9 DEF IInv

LEMMA TimeoutIInv ==
    ASSUME IInv, NEW t \in Producers \cup Consumers, Timeout(t)
    PROVE  IInv'
<1>1. /\ TypeOK /\ FifoDelivery /\ CountersAddUp /\ NoLostWakeup /\ WaitingIsBlock
      /\ t \in notFull \cup notEmpty /\ expired' = expired \cup {t}
      /\ UNCHANGED <<backpressure, queue, closed, sequence, total_pushed, total_popped,
                     dropped_count, high_watermark, ppc, cpc, notFull, notEmpty,
                     last_popped, cleared>>
  BY DEF IInv, Timeout, counters, threads, history
<1>2. /\ Pushing' = Pushing
      /\ AwakeProducers' = AwakeProducers /\ AwakeConsumers' = AwakeConsumers
  BY <1>1 DEF Pushing, AwakeProducers, AwakeConsumers
<1>3. TypeOK'  BY <1>1 DEF TypeOK
<1>4. FifoDelivery' /\ NoLostWakeup'  BY <1>1, <1>2 DEF FifoDelivery, NoLostWakeup
<1>5. CountersAddUp'  BY <1>1, <1>2 DEF CountersAddUp
<1>6. WaitingIsBlock'  BY <1>1, <1>2 DEF WaitingIsBlock
<1> QED BY <1>3, <1>4, <1>5, <1>6 DEF IInv

LEMMA StutterIInv == ASSUME IInv, UNCHANGED vars PROVE IInv'
<1>1. /\ TypeOK /\ FifoDelivery /\ CountersAddUp /\ NoLostWakeup /\ WaitingIsBlock
      /\ UNCHANGED <<backpressure, queue, closed, sequence, total_pushed, total_popped,
                     dropped_count, high_watermark, ppc, cpc, notFull, notEmpty, expired,
                     last_popped, cleared>>
  BY DEF IInv, vars, counters, threads, waiters, history
<1>2. /\ Pushing' = Pushing
      /\ AwakeProducers' = AwakeProducers /\ AwakeConsumers' = AwakeConsumers
  BY <1>1 DEF Pushing, AwakeProducers, AwakeConsumers
<1>3. TypeOK'  BY <1>1 DEF TypeOK
<1>4. FifoDelivery' /\ NoLostWakeup'  BY <1>1, <1>2 DEF FifoDelivery, NoLostWakeup
<1>5. CountersAddUp'  BY <1>1, <1>2 DEF CountersAddUp
<1>6. WaitingIsBlock'  BY <1>1, <1>2 DEF WaitingIsBlock
<1> QED BY <1>3, <1>4, <1>5, <1>6 DEF IInv

\* The second critical section of push ends in one of three ways.
LEMMA PushIInv == ASSUME IInv, NEW p \in Producers, Push(p) PROVE IInv'
<1>1. p \notin notFull /\ p \notin expired
  BY TradeQueueAssumption DEF IInv, TypeOK, Push
<1>2. /\ ppc[p] = "numbered"
      /\ UNCHANGED <<backpressure, closed, sequence, total_popped, cpc, expired, history>>
  BY DEF Push
<1>3. expired' = expired \ {p}  BY <1>1, <1>2
<1>4. CASE RefuseClosed(p) /\ UNCHANGED notFull
  <2>1. Leaves(p)  BY <1>1, <1>2, <1>4 DEF Leaves, RefuseClosed, Return
  <2> QED BY <1>2, <1>4, <2>1, RefuseIInv DEF RefuseClosed
<1>5. CASE ~ closed /\ ~ IsFull /\ Enqueue(p, queue) /\ UNCHANGED <<dropped_count, notFull>>
  <2>1. Leaves(p)  BY <1>1, <1>2, <1>5 DEF Leaves, Enqueue, Return
  <2> QED BY <1>2, <1>5, <2>1, EnqueueIInv
<1>6. CASE /\ ~ closed /\ IsFull /\ backpressure = "DROP_OLDEST"
           /\ Enqueue(p, Tail(queue)) /\ dropped_count' = dropped_count + 1
           /\ UNCHANGED notFull
  <2>1. Leaves(p)  BY <1>1, <1>2, <1>6 DEF Leaves, Enqueue, Return
  <2> QED BY <1>2, <1>6, <2>1, EnqueueIInv
<1>7. CASE /\ ~ closed /\ IsFull /\ backpressure # "DROP_OLDEST"
           /\ RefuseFull(p) /\ UNCHANGED notFull
  <2>1. Leaves(p)  BY <1>1, <1>2, <1>7 DEF Leaves, RefuseFull, Return
  <2> QED BY <1>2, <1>7, <2>1, RefuseIInv DEF RefuseFull
<1>8. CASE ~ closed /\ IsFull /\ backpressure = "BLOCK" /\ Block(p)
  BY <1>2, <1>3, <1>8, BlockIInv
<1> QED BY <1>4, <1>5, <1>6, <1>7, <1>8 DEF Push

\* So does a push that comes back from its wait.
LEMMA ResumePushIInv == ASSUME IInv, NEW p \in Producers, ResumePush(p) PROVE IInv'
<1>1. /\ ppc[p] = "blocked" /\ expired' = expired \ {p} /\ backpressure = "BLOCK"
      /\ UNCHANGED <<backpressure, closed, sequence, total_popped, cpc, history>>
  BY DEF IInv, WaitingIsBlock, ResumePush
<1>2. CASE RefuseClosed(p) /\ notFull' = notFull \ {p}
  <2>1. Leaves(p)  BY <1>1, <1>2 DEF Leaves, RefuseClosed, Return
  <2> QED BY <1>1, <1>2, <2>1, RefuseIInv DEF RefuseClosed
<1>3. CASE /\ ~ closed /\ ~ IsFull /\ Enqueue(p, queue)
           /\ notFull' = notFull \ {p} /\ UNCHANGED dropped_count
  <2>1. Leaves(p)  BY <1>1, <1>3 DEF Leaves, Enqueue, Return
  <2> QED BY <1>1, <1>3, <2>1, EnqueueIInv
<1>4. CASE ~ closed /\ IsFull /\ RefuseFull(p) /\ notFull' = notFull \ {p}
  <2>1. Leaves(p)  BY <1>1, <1>4 DEF Leaves, RefuseFull, Return
  <2> QED BY <1>1, <1>4, <2>1, RefuseIInv DEF RefuseFull
<1>5. CASE ~ closed /\ IsFull /\ Block(p)
  BY <1>1, <1>5, BlockIInv
<1> QED BY <1>2, <1>3, <1>4, <1>5 DEF ResumePush

\* A pop_batch takes what there is, at once or after its one wait.
LEMMA PopBatchIInv ==
    ASSUME IInv, NEW c \in Consumers, PopBatch(c) \/ ResumePopBatch(c)
    PROVE  IInv'
<1>1. CASE /\ cpc[c] = "idle" /\ queue = <<>>
           /\ notEmpty' = notEmpty \cup {c} /\ cpc' = [cpc EXCEPT ![c] = "blocked"]
           /\ UNCHANGED <<backpressure, queue, closed, sequence, counters, ppc, notFull,
                          expired, history>>
  BY <1>1, WaitIInv
<1>2. CASE cpc[c] = "idle" /\ TakeBatch(c) /\ PopBatch(c) /\ UNCHANGED notEmpty
  <2>1. c \notin notEmpty /\ c \notin expired
    BY <1>2, TradeQueueAssumption DEF IInv, TypeOK
  <2>2. notEmpty' = notEmpty \ {c} /\ expired' = expired \ {c}
    BY <1>2, <2>1 DEF PopBatch
  <2> QED BY <1>2, <2>2, TakeBatchIInv DEF PopBatch
<1>3. CASE ResumePopBatch(c)
  BY <1>3, TakeBatchIInv DEF ResumePopBatch
<1> QED BY <1>1, <1>2, <1>3 DEF PopBatch, counters, history

LEMMA NextIInv == IInv /\ [Next]_vars => IInv'
BY TakeSequenceIInv, PushIInv, ResumePushIInv, PopBatchIInv, PopNowaitIInv, CloseIInv,
   ClearIInv, TimeoutIInv, StutterIInv DEF Next

LEMMA Invariance == Spec => []IInv
BY InitIInv, NextIInv, PTL DEF Spec

----------------------------------------------------------------------------
\* Theorems

\* Only threads inside a wait are waiters, and the counters never overtake the
\* numbers given out.
THEOREM TypeCorrect == Spec => []TypeOK
<1>1. IInv => TypeOK  BY DEF IInv
<1> QED BY <1>1, Invariance, PTL

\* Events leave in the order in which they were accepted, none twice, whatever is
\* evicted, refused or cleared in between.
THEOREM Fifo == Spec => []FifoDelivery
<1>1. IInv => FifoDelivery  BY DEF IInv
<1> QED BY <1>1, Invariance, PTL

\* Every accepted event and every decided push is in a counter, and the queue
\* never exceeds its capacity.
THEOREM Accounting == Spec => []CountersAddUp
<1>1. IInv => CountersAddUp  BY DEF IInv
<1> QED BY <1>1, Invariance, PTL

\* No wakeup is lost: nobody sleeps next to a free slot or an event unless as many
\* others are awake and on their way to it.
THEOREM Wakeups == Spec => []NoLostWakeup
<1>1. IInv => NoLostWakeup  BY DEF IInv
<1> QED BY <1>1, Invariance, PTL
=============================================================================

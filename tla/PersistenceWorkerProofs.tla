----------------------- MODULE PersistenceWorkerProofs -----------------------
(***************************************************************************)
(* For every capacity, batch size, number of trades and of starts, if stop *)
(* waits for its thread (~ JoinMayTimeOut): no trade is lost silently, the *)
(* ledger is in order, and stop leaves nothing in memory.                  *)
(***************************************************************************)
EXTENDS PersistenceWorker, SequenceTheorems, TLAPS

\* A batch is in the hands of a thread from a pop, or a read of the held batch, to
\* its outcome.
Holding == {"save", "saving", "saved", "failed", "abandon"}

\* At most one thread is alive: the one the worker knows of.
OneThread == \A t \in Threads : Alive(t) => t = thread

\* What a thread relies on: _pending_batch holds nothing but its own batch, and the
\* main thread waits in stop while it drains.
ThreadOK(t) ==
    /\ tpc[t] \notin Holding => batch[t] = <<>>
    /\ tpc[t] \in Holding => pending \in {<<>>, batch[t]}
    /\ tpc[t] \in {"take", "drain", "final"} => pending = <<>>
    /\ tpc[t] \in {"save", "saving", "failed"} /\ phase[t] # "loop"
          => attempts[t] < ShutdownAttempts
    /\ tpc[t] \in Holding /\ phase[t] # "loop" => mpc = "joining"
    /\ tpc[t] \in {"flush", "held", "drain", "abandon", "final"} => mpc = "joining"
    /\ tpc[t] = "final" => queue = <<>>

\* What a dead thread leaves behind.
AllDone == queue = <<>> /\ state \in {"STOPPED", "ERROR"}

StopOK ==
    /\ ~ Alive(thread) => pending = <<>>
    /\ stop_event /\ Alive(thread) => mpc = "joining"
    /\ mpc = "joining" /\ ~ Alive(thread) => AllDone
    /\ mpc = "closing" => thread = None /\ AllDone

ControlOK == TypeOK /\ OneThread /\ (\A t \in Threads : ThreadOK(t)) /\ StopOK

\* The batch that somebody still holds, and how many trades have left the queue.
Hands == IF thread # None /\ tpc[thread] \in Holding THEN batch[thread] ELSE pending

HandsStored == thread # None /\ tpc[thread] = "saved"

Gone == pushed - Len(queue)

\* The queue is the latest trades pushed.
QueueIsLatest ==
    /\ Len(queue) <= pushed
    /\ \A i \in 1 .. Len(queue) : queue[i] = Gone + i

\* All that left the queue is stored, lost or in hand, and the batch in hand is in
\* order and behind what is stored, until it is stored itself.
GoneSettled ==
    /\ 1 .. Gone = Stored \cup Lost \cup ToSet(Hands)
    /\ \A i, j \in 1 .. Len(Hands) : i < j => Hands[i] < Hands[j]
    /\ ToSet(Hands) \cap Lost = {}
    /\ HandsStored => ToSet(Hands) \subseteq Stored
    /\ ~ HandsStored => \A d \in Stored, e \in ToSet(Hands) : d < e

DataOK == QueueIsLatest /\ GoneSettled /\ LedgerKeepsOrder

IInv == ControlOK /\ DataOK

----------------------------------------------------------------------------
\* Control

\* A step of the one thread that is alive, which leaves its own part in order.
LEMMA OwnStep ==
    ASSUME ControlOK, NEW t \in Threads, Alive(t), NEW w,
           tpc' = [tpc EXCEPT ![t] = w], w # "unborn",
           UNCHANGED <<thread, stop_event, mpc>>,
           \A u \in Threads \ {t} : batch'[u] = batch[u],
           ThreadOK(t)',
           w = "dead" => pending' = <<>> /\ AllDone'
    PROVE  OneThread' /\ (\A u \in Threads : ThreadOK(u)') /\ StopOK'
<1>1. t = thread /\ t # None /\ tpc'[t] = w /\ thread' = thread /\ tpc[t] \notin {"unborn", "dead"}
  BY DEF ControlOK, OneThread, TypeOK, Alive
<1>2. \A u \in Threads \ {t} : /\ tpc'[u] = tpc[u] /\ tpc[u] \in {"unborn", "dead"}
                               /\ batch'[u] = <<>>
  <2> SUFFICES ASSUME NEW u \in Threads \ {t}
               PROVE  tpc'[u] = tpc[u] /\ tpc[u] \in {"unborn", "dead"} /\ batch'[u] = <<>>
    OBVIOUS
  <2>1. tpc'[u] = tpc[u]
    BY DEF ControlOK, TypeOK
  <2>2. tpc[u] \in {"unborn", "dead"}
    BY <1>1 DEF ControlOK, OneThread, Alive, Threads, None
  <2>3. batch[u] = <<>>
    BY <2>2 DEF ControlOK, ThreadOK, Holding
  <2> QED BY <2>1, <2>2, <2>3
<1>3. OneThread'
  BY <1>1, <1>2 DEF OneThread, Alive
<1>4. \A u \in Threads : ThreadOK(u)'
  <2> SUFFICES ASSUME NEW u \in Threads PROVE ThreadOK(u)'
    OBVIOUS
  <2>1. CASE u = t  BY <2>1
  <2>2. CASE u # t  BY <1>2, <2>2 DEF ThreadOK, Holding
  <2> QED BY <2>1, <2>2
<1>5. StopOK'
  <2>1. Alive(thread) /\ (Alive(thread)' <=> w # "dead")
    BY <1>1 DEF Alive
  <2>2. w = "dead" \/ mpc' # "closing"
    BY <1>1 DEF ControlOK, StopOK
  <2> QED BY <1>1, <2>1, <2>2 DEF ControlOK, StopOK, None
<1> QED BY <1>3, <1>4, <1>5

LEMMA HandsOfThread ==
    ASSUME NEW t \in Threads, t = thread
    PROVE  /\ Hands = IF tpc[t] \in Holding THEN batch[t] ELSE pending
           /\ HandsStored <=> tpc[t] = "saved"
BY DEF Hands, HandsStored, Threads, None

----------------------------------------------------------------------------
\* Data

\* Nothing moves.
LEMMA DataSame ==
    ASSUME DataOK, Hands' = Hands, HandsStored' <=> HandsStored,
           UNCHANGED <<pushed, queue, dropped, abandoned, ledger>>
    PROVE  DataOK'
<1>1. Gone' = Gone /\ Stored' = Stored /\ Lost' = Lost
  BY DEF Gone, Stored, Lost
<1> QED BY <1>1 DEF DataOK, QueueIsLatest, GoneSettled, LedgerKeepsOrder

\* The elements of a sequence.
LEMMA Elements ==
    ASSUME NEW S, NEW s \in Seq(S)
    PROVE  /\ ToSet(s) = {s[i] : i \in 1 .. Len(s)} /\ Len(s) \in Nat
           /\ \A i \in 1 .. Len(s) : s[i] \in S /\ s[i] \in ToSet(s)
           /\ \A e \in ToSet(s) : e \in S /\ \E i \in 1 .. Len(s) : e = s[i]
<1>1. DOMAIN s = 1 .. Len(s) /\ Len(s) \in Nat  BY LenProperties
<1>2. \A i \in 1 .. Len(s) : s[i] \in S  BY ElementOfSeq
<1> QED BY <1>1, <1>2 DEF ToSet

LEMMA Concatenated ==
    ASSUME NEW S, NEW s \in Seq(S), NEW t \in Seq(S)
    PROVE  /\ s \o t \in Seq(S) /\ Len(s \o t) = Len(s) + Len(t)
           /\ Len(s) \in Nat /\ Len(t) \in Nat
           /\ \A i \in 1 .. Len(s) : i \in 1 .. Len(s \o t) /\ (s \o t)[i] = s[i]
           /\ \A i \in 1 .. Len(t) :
                 Len(s) + i \in 1 .. Len(s \o t) /\ (s \o t)[Len(s) + i] = t[i]
           /\ \A i \in 1 .. Len(s \o t) :
                 i \in 1 .. Len(s) \/ \E k \in 1 .. Len(t) : i = Len(s) + k
           /\ ToSet(s \o t) = ToSet(s) \cup ToSet(t)
<1>1. /\ DOMAIN (s \o t) = 1 .. Len(s) + Len(t)
      /\ DOMAIN s = 1 .. Len(s) /\ Len(s) \in Nat
      /\ DOMAIN t = 1 .. Len(t) /\ Len(t) \in Nat
      /\ s \o t \in Seq(S) /\ Len(s \o t) = Len(s) + Len(t)
      /\ \A i \in 1 .. Len(s) + Len(t) :
            (s \o t)[i] = IF i <= Len(s) THEN s[i] ELSE t[i - Len(s)]
  BY ConcatProperties, LenProperties
<1>2. \A i \in 1 .. Len(s) : i \in 1 .. Len(s \o t) /\ (s \o t)[i] = s[i]
  BY <1>1
<1>3. \A i \in 1 .. Len(t) : Len(s) + i \in 1 .. Len(s \o t) /\ (s \o t)[Len(s) + i] = t[i]
  <2>1. \A i \in 1 .. Len(t) : /\ Len(s) + i \in 1 .. Len(s) + Len(t)
                               /\ ~ (Len(s) + i <= Len(s)) /\ (Len(s) + i) - Len(s) = i
    BY <1>1
  <2> QED BY <1>1, <2>1
<1>4. \A i \in 1 .. Len(s \o t) : i \in 1 .. Len(s) \/ \E k \in 1 .. Len(t) : i = Len(s) + k
  <2>1. \A i \in 1 .. Len(s) + Len(t) :
            i \in 1 .. Len(s) \/ (i - Len(s) \in 1 .. Len(t) /\ i = Len(s) + (i - Len(s)))
    BY <1>1
  <2> QED BY <1>1, <2>1
<1>5. ToSet(s \o t) = ToSet(s) \cup ToSet(t)
  <2>1. ToSet(s \o t) \subseteq ToSet(s) \cup ToSet(t)
    BY <1>1, <1>2, <1>3, <1>4, SMTT(30) DEF ToSet
  <2>2. ToSet(s) \subseteq ToSet(s \o t)  BY <1>1, <1>2 DEF ToSet
  <2>3. ToSet(t) \subseteq ToSet(s \o t)
    <3>1. SUFFICES ASSUME NEW i \in 1 .. Len(t) PROVE t[i] \in ToSet(s \o t)
      BY <1>1 DEF ToSet
    <3>2. Len(s) + i \in DOMAIN (s \o t) /\ (s \o t)[Len(s) + i] = t[i]
      BY <1>1, <1>3
    <3> QED BY <3>2 DEF ToSet
  <2> QED BY <2>1, <2>2, <2>3
<1> QED BY <1>1, <1>2, <1>3, <1>4, <1>5

LEMMA Appended ==
    ASSUME NEW S, NEW s \in Seq(S), NEW e \in S
    PROVE  /\ ToSet(Append(s, e)) = ToSet(s) \cup {e}
           /\ IsInjective(s) /\ e \notin ToSet(s) => IsInjective(Append(s, e))
<1>1. /\ DOMAIN Append(s, e) = 1 .. Len(s) + 1 /\ DOMAIN s = 1 .. Len(s) /\ Len(s) \in Nat
      /\ \A i \in 1 .. Len(s) : Append(s, e)[i] = s[i]
      /\ Append(s, e)[Len(s) + 1] = e
  BY AppendProperties, LenProperties
<1>2. \A i \in 1 .. Len(s) + 1 : i \in 1 .. Len(s) \/ i = Len(s) + 1
  BY <1>1
<1>3. ToSet(Append(s, e)) = ToSet(s) \cup {e}
  BY <1>1, <1>2 DEF ToSet
<1>4. IsInjective(s) /\ e \notin ToSet(s) => IsInjective(Append(s, e))
  BY <1>1, <1>2 DEF ToSet, IsInjective
<1> QED BY <1>3, <1>4

\* No element is twice in the two parts.
LEMMA InjectiveParts ==
    ASSUME NEW S, NEW s \in Seq(S), NEW t \in Seq(S)
    PROVE  IsInjective(s \o t) <=> IsInjective(s) /\ IsInjective(t) /\ ToSet(s) \cap ToSet(t) = {}
<1>1. /\ DOMAIN (s \o t) = 1 .. Len(s \o t) /\ DOMAIN s = 1 .. Len(s) /\ DOMAIN t = 1 .. Len(t)
      /\ Len(s) \in Nat /\ Len(t) \in Nat
      /\ \A i \in 1 .. Len(s) : i \in 1 .. Len(s \o t) /\ (s \o t)[i] = s[i]
      /\ \A i \in 1 .. Len(t) :
            Len(s) + i \in 1 .. Len(s \o t) /\ (s \o t)[Len(s) + i] = t[i]
      /\ \A i \in 1 .. Len(s \o t) :
            i \in 1 .. Len(s) \/ \E k \in 1 .. Len(t) : i = Len(s) + k
  BY Concatenated, LenProperties
<1>2. ASSUME IsInjective(s \o t)
      PROVE  IsInjective(s) /\ IsInjective(t) /\ ToSet(s) \cap ToSet(t) = {}
  <2>1. IsInjective(s)  BY <1>1, <1>2 DEF IsInjective
  <2>2. ASSUME NEW i \in 1 .. Len(t), NEW j \in 1 .. Len(t), t[i] = t[j] PROVE i = j
    <3>1. (s \o t)[Len(s) + i] = (s \o t)[Len(s) + j]  BY <1>1, <2>2
    <3>2. Len(s) + i = Len(s) + j  BY <1>1, <1>2, <3>1 DEF IsInjective
    <3> QED BY <1>1, <3>2
  <2>3. ASSUME NEW i \in 1 .. Len(s), NEW j \in 1 .. Len(t), s[i] = t[j] PROVE FALSE
    <3>1. i = Len(s) + j  BY <1>1, <1>2, <2>3 DEF IsInjective
    <3> QED BY <1>1, <3>1
  <2> QED BY <1>1, <2>1, <2>2, <2>3 DEF IsInjective, ToSet
<1>3. ASSUME IsInjective(s), IsInjective(t), ToSet(s) \cap ToSet(t) = {}
      PROVE  IsInjective(s \o t)
  <2>1. SUFFICES ASSUME NEW i \in 1 .. Len(s \o t), NEW j \in 1 .. Len(s \o t),
                        (s \o t)[i] = (s \o t)[j]
                 PROVE  i = j
    BY <1>1 DEF IsInjective
  <2>2. \A k \in 1 .. Len(s), m \in 1 .. Len(t) : s[k] # t[m]
    BY <1>1, <1>3 DEF ToSet
  <2>3. CASE i \in 1 .. Len(s) /\ j \in 1 .. Len(s)
    BY <1>1, <1>3, <2>1, <2>3 DEF IsInjective
  <2>4. ASSUME NEW k \in 1 .. Len(t), NEW m \in 1 .. Len(t), i = Len(s) + k, j = Len(s) + m
        PROVE  i = j
    <3>1. t[k] = t[m]  BY <1>1, <2>1, <2>4
    <3> QED BY <1>1, <1>3, <2>4, <3>1 DEF IsInjective
  <2>5. ASSUME NEW k \in 1 .. Len(s), NEW m \in 1 .. Len(t),
               (i = k /\ j = Len(s) + m) \/ (j = k /\ i = Len(s) + m)
        PROVE  FALSE
    <3>1. s[k] = t[m]  BY <1>1, <2>1, <2>5
    <3> QED BY <2>2, <3>1
  <2> QED BY <1>1, <2>3, <2>4, <2>5
<1> QED BY <1>2, <1>3

\* The first n events of the queue, which follow those that are gone.
LEMMA FirstOfQueue ==
    ASSUME TypeOK, QueueIsLatest, NEW n \in 0 .. Len(queue)
    PROVE  LET first == SubSeq(queue, 1, n)
               rest  == SubSeq(queue, n + 1, Len(queue))
           IN  /\ first \in Seq(Trades) /\ Len(first) = n
               /\ rest \in Seq(Trades) /\ Len(rest) = Len(queue) - n
               /\ \A i \in 1 .. n : first[i] = Gone + i
               /\ \A i \in 1 .. Len(rest) : rest[i] = Gone + n + i
               /\ ToSet(first) = Gone + 1 .. Gone + n
<1> DEFINE first == SubSeq(queue, 1, n)
           rest  == SubSeq(queue, n + 1, Len(queue))
<1>1. /\ Len(queue) \in Nat /\ queue \in Seq(Trades) /\ Gone \in Nat /\ pushed \in Nat
      /\ \A i \in 1 .. Len(queue) : queue[i] \in Trades
  BY LenProperties, ElementOfSeq DEF TypeOK, QueueIsLatest, Gone
<1>2. /\ first \in Seq(Trades) /\ Len(first) = n
      /\ \A i \in 1 .. n : first[i] = queue[i]
  <2>1. \A i \in 1 .. n : queue[i] \in Trades  BY <1>1
  <2> QED BY <2>1, SubSeqProperties
<1>3. /\ rest \in Seq(Trades) /\ Len(rest) = Len(queue) - n
      /\ \A i \in 1 .. Len(queue) - n : rest[i] = queue[n + i]
  <2>1. \A i \in n + 1 .. Len(queue) : queue[i] \in Trades  BY <1>1
  <2>2. /\ rest \in Seq(Trades)
        /\ Len(rest) = IF n + 1 <= Len(queue) THEN Len(queue) - (n + 1) + 1 ELSE 0
        /\ \A i \in 1 .. Len(queue) - (n + 1) + 1 : rest[i] = queue[n + 1 + i - 1]
    BY <1>1, <2>1, SubSeqProperties
  <2>3. Len(queue) - (n + 1) + 1 = Len(queue) - n
    BY <1>1
  <2>4. Len(rest) = Len(queue) - n
    <3> HIDE DEF rest
    <3> QED BY <1>1, <2>2
  <2>5. ASSUME NEW i \in 1 .. Len(queue) - n PROVE rest[i] = queue[n + i]
    <3>1. rest[i] = queue[n + 1 + i - 1]  BY <2>2, <2>3
    <3>2. n + 1 + i - 1 = n + i  OBVIOUS
    <3> QED BY <3>1, <3>2
  <2> QED BY <2>2, <2>4, <2>5
<1>4. \A i \in 1 .. n : first[i] = Gone + i
  BY <1>1, <1>2 DEF QueueIsLatest
<1>5. \A i \in 1 .. Len(rest) : rest[i] = Gone + n + i
  <2>1. \A i \in 1 .. Len(rest) : n + i \in 1 .. Len(queue) /\ Gone + (n + i) = Gone + n + i
    BY <1>1, <1>3, SMTT(30)
  <2> QED BY <1>3, <2>1 DEF QueueIsLatest
<1>6. ToSet(first) = Gone + 1 .. Gone + n
  <2>1. ToSet(first) = {first[i] : i \in 1 .. n}  BY <1>2, Elements
  <2>2. \A e \in Gone + 1 .. Gone + n : e - Gone \in 1 .. n /\ e = Gone + (e - Gone)
    BY <1>1
  <2>3. \A i \in 1 .. n : Gone + i \in Gone + 1 .. Gone + n  BY <1>1
  <2>4. ToSet(first) \subseteq Gone + 1 .. Gone + n  BY <1>4, <2>1, <2>3
  <2>5. Gone + 1 .. Gone + n \subseteq ToSet(first)
    <3> SUFFICES ASSUME NEW e \in Gone + 1 .. Gone + n PROVE e \in ToSet(first)
      OBVIOUS
    <3>1. e - Gone \in 1 .. n /\ Gone + (e - Gone) = e  BY <2>2
    <3>2. first[e - Gone] = e  BY <1>4, <3>1
    <3> QED BY <2>1, <3>1, <3>2
  <2> QED BY <2>4, <2>5
<1> QED BY <1>2, <1>3, <1>4, <1>5, <1>6

\* A pop: the batch goes from the queue into the hands of a thread.
LEMMA DataPop ==
    ASSUME TypeOK, DataOK, NEW n \in 0 .. Len(queue),
           Hands = <<>>, Hands' = SubSeq(queue, 1, n),
           queue' = SubSeq(queue, n + 1, Len(queue)),
           ~ HandsStored', UNCHANGED <<pushed, dropped, abandoned, ledger>>
    PROVE  DataOK'
<1>1. /\ Len(queue) \in Nat /\ pushed \in Nat /\ Len(queue) <= pushed
      /\ QueueIsLatest /\ GoneSettled /\ LedgerKeepsOrder
  BY LenProperties DEF TypeOK, DataOK, QueueIsLatest
<1>2. /\ Len(Hands') = n
      /\ Len(queue') = Len(queue) - n
      /\ \A i \in 1 .. n : Hands'[i] = Gone + i
      /\ \A i \in 1 .. Len(queue') : queue'[i] = Gone + n + i
      /\ ToSet(Hands') = Gone + 1 .. Gone + n
  BY <1>1, FirstOfQueue
<1>3. Gone \in Nat /\ Gone' = Gone + n
  <2>1. Gone = pushed - Len(queue) /\ Gone' = pushed - Len(queue')  BY DEF Gone
  <2> QED BY <1>1, <1>2, <2>1
<1>4. Stored' = Stored /\ Lost' = Lost /\ LedgerKeepsOrder'
  BY <1>1 DEF Stored, Lost, LedgerKeepsOrder
<1>5. QueueIsLatest'
  BY <1>1, <1>2, <1>3 DEF QueueIsLatest
<1>6. ToSet(Hands) = {}
  BY DEF ToSet
<1>7. Stored \cup Lost = 1 .. Gone
  BY <1>1, <1>6 DEF GoneSettled
<1>8. GoneSettled'
  <2>1. 1 .. Gone' = Stored' \cup Lost' \cup ToSet(Hands')
    <3>1. 1 .. Gone + n = (1 .. Gone) \cup (Gone + 1 .. Gone + n)  BY <1>3
    <3> QED BY <1>2, <1>3, <1>4, <1>7, <3>1
  <2>2. \A i, j \in 1 .. Len(Hands') : i < j => Hands'[i] < Hands'[j]
    BY <1>2, <1>3
  <2>3. \A d \in 1 .. Gone, e \in Gone + 1 .. Gone + n : d < e
    BY <1>3
  <2>4. ToSet(Hands') \cap Lost' = {}
    BY <1>2, <1>3, <1>4, <1>7, <2>3
  <2>5. \A d \in Stored', e \in ToSet(Hands') : d < e
    BY <1>2, <1>4, <1>7, <2>3
  <2> QED BY <2>1, <2>2, <2>4, <2>5 DEF GoneSettled
<1> QED BY <1>4, <1>5, <1>8 DEF DataOK

\* A push, onto the queue or onto what an eviction leaves of it.
LEMMA DataPush ==
    ASSUME TypeOK, TypeOK', DataOK, Push, Hands' = Hands, HandsStored' <=> HandsStored
    PROVE  DataOK'
<1>1. /\ Len(queue) \in Nat /\ pushed \in Nat /\ Len(queue) <= pushed
      /\ queue \in Seq(Trades) /\ dropped \in Seq(Trades)
      /\ QueueIsLatest /\ GoneSettled /\ LedgerKeepsOrder
      /\ \A i \in 1 .. Len(queue) : queue[i] = Gone + i
      /\ pushed' = pushed + 1 /\ pushed + 1 \in Trades
      /\ ledger' = ledger /\ abandoned' = abandoned
      /\ Gone \in Nat /\ Gone = pushed - Len(queue)
  BY LenProperties DEF TypeOK, DataOK, QueueIsLatest, Push, fields, Trades, Gone
<1>2. CASE Len(queue) < QueueCapacity
  <2>1. queue' = Append(queue, pushed + 1) /\ dropped' = dropped
    BY <1>1, <1>2, PersistenceWorkerAssumption DEF Push
  <2>2. /\ Len(queue') = Len(queue) + 1
        /\ \A i \in 1 .. Len(queue) : queue'[i] = queue[i]
        /\ queue'[Len(queue) + 1] = pushed + 1
    BY <1>1, <2>1, AppendProperties
  <2>3. Gone' = Gone
    BY <1>1, <2>2 DEF Gone
  <2>4. QueueIsLatest'
    <3>1. ASSUME NEW i \in 1 .. Len(queue') PROVE queue'[i] = Gone' + i
      <4>1. CASE i \in 1 .. Len(queue)  BY <1>1, <2>2, <2>3, <4>1
      <4>2. CASE i = Len(queue) + 1  BY <1>1, <2>2, <2>3, <4>2
      <4> QED BY <1>1, <2>2, <4>1, <4>2
    <3> QED BY <1>1, <2>2, <3>1 DEF QueueIsLatest
  <2>5. Stored' = Stored /\ Lost' = Lost
    BY <1>1, <2>1 DEF Stored, Lost
  <2> QED BY <1>1, <2>1, <2>3, <2>4, <2>5 DEF DataOK, GoneSettled, LedgerKeepsOrder
<1>3. CASE Len(queue) >= QueueCapacity
  <2>1. /\ queue' = Append(Tail(queue), pushed + 1) /\ dropped' = Append(dropped, Head(queue))
        /\ Len(queue) >= 1 /\ queue # <<>> /\ 1 \in 1 .. Len(queue)
    BY <1>1, <1>3, PersistenceWorkerAssumption DEF Push
  <2>2. /\ Tail(queue) \in Seq(Trades) /\ Len(Tail(queue)) = Len(queue) - 1
        /\ \A i \in 1 .. Len(Tail(queue)) : Tail(queue)[i] = queue[i + 1]
        /\ Head(queue) = queue[1]
    BY <1>1, <2>1, HeadTailProperties
  <2>3. /\ Len(queue') = Len(queue)
        /\ \A i \in 1 .. Len(queue) - 1 : queue'[i] = Tail(queue)[i]
        /\ queue'[Len(queue)] = pushed + 1
    BY <1>1, <2>1, <2>2, AppendProperties
  <2>4. Head(queue) = Gone + 1 /\ Gone' = Gone + 1
    BY <1>1, <2>1, <2>2, <2>3 DEF Gone
  <2>5. QueueIsLatest'
    <3>1. ASSUME NEW i \in 1 .. Len(queue') PROVE queue'[i] = Gone' + i
      <4>1. CASE i \in 1 .. Len(queue) - 1
        <5>1. i + 1 \in 1 .. Len(queue)  BY <1>1, <4>1
        <5>2. queue'[i] = Gone + (i + 1)  BY <1>1, <2>2, <2>3, <4>1, <5>1
        <5> QED BY <1>1, <2>4, <5>2
      <4>2. CASE i = Len(queue)  BY <1>1, <2>3, <2>4, <4>2
      <4> QED BY <1>1, <2>3, <4>1, <4>2
    <3> QED BY <1>1, <2>3, <3>1 DEF QueueIsLatest
  <2>6. ToSet(dropped') = ToSet(dropped) \cup {Gone + 1}
    BY <1>1, <2>1, <2>4, Appended DEF Trades
  <2>7. Stored' = Stored /\ Lost' = Lost \cup {Gone + 1}
    BY <1>1, <2>6 DEF Stored, Lost
  <2>8. /\ Gone + 1 \notin Stored \cup Lost \cup ToSet(Hands)
        /\ 1 .. Gone + 1 = (1 .. Gone) \cup {Gone + 1}
    BY <1>1 DEF GoneSettled
  <2>9. GoneSettled'
    <3>1. 1 .. Gone' = Stored' \cup Lost' \cup ToSet(Hands')
      BY <1>1, <2>4, <2>7, <2>8 DEF GoneSettled
    <3>2. ToSet(Hands') \cap Lost' = {}
      BY <1>1, <2>7, <2>8 DEF GoneSettled
    <3> QED BY <1>1, <2>7, <3>1, <3>2 DEF GoneSettled
  <2>10. LedgerKeepsOrder'
    <3>1. /\ abandoned \in Seq(Trades) /\ dropped' \in Seq(Trades)
          /\ IsInjective(dropped) /\ IsInjective(abandoned)
          /\ ToSet(dropped) \cap ToSet(abandoned) = {}
      BY <1>1, InjectiveParts DEF TypeOK, LedgerKeepsOrder
    <3>2. IsInjective(dropped') /\ ToSet(dropped') \cap ToSet(abandoned) = {}
      BY <1>1, <2>1, <2>4, <2>6, <2>8, <3>1, Appended DEF Lost, Trades
    <3>3. IsInjective(dropped' \o abandoned')
      BY <1>1, <3>1, <3>2, InjectiveParts
    <3> QED BY <1>1, <2>7, <2>8, <3>3 DEF LedgerKeepsOrder
  <2> QED BY <2>5, <2>9, <2>10 DEF DataOK
<1> QED BY <1>1, <1>2, <1>3, PersistenceWorkerAssumption

\* What is stored is older than the batch in hand, so all its rows are new.
LEMMA AllRowsNew ==
    ASSUME TypeOK, DataOK, ~ HandsStored, Hands \in Seq(Trades)
    PROVE  NewRows(Hands) = Hands
<1>1. \A d \in Stored, e \in ToSet(Hands) : d < e
  BY DEF DataOK, GoneSettled
<1>2. \A e \in Stored : e \in Int
  <2>1. \A e \in Stored : e \in Trades  BY Elements DEF TypeOK, Stored
  <2> QED BY <2>1 DEF Trades
<1>3. ToSet(Hands) \cap ToSet(ledger) = {}
  BY <1>1, <1>2 DEF Stored
<1> QED BY <1>3 DEF NewRows

\* A commit: the batch in hand is stored.
LEMMA DataCommit ==
    ASSUME TypeOK, DataOK, Hands \in Seq(Trades), ~ HandsStored,
           ledger' = ledger \o NewRows(Hands),
           Hands' = Hands, HandsStored', UNCHANGED <<pushed, queue, dropped, abandoned>>
    PROVE  ledger' \in Seq(Trades) /\ DataOK'
<1>1. /\ ledger' = ledger \o Hands /\ ledger \in Seq(Trades)
      /\ QueueIsLatest /\ GoneSettled /\ LedgerKeepsOrder
  BY AllRowsNew DEF TypeOK, DataOK
<1>2. /\ ledger' \in Seq(Trades) /\ Len(ledger') = Len(ledger) + Len(Hands)
      /\ Len(ledger) \in Nat /\ Len(Hands) \in Nat
      /\ \A i \in 1 .. Len(ledger) : i \in 1 .. Len(ledger') /\ ledger'[i] = ledger[i]
      /\ \A i \in 1 .. Len(Hands) :
            Len(ledger) + i \in 1 .. Len(ledger') /\ ledger'[Len(ledger) + i] = Hands[i]
      /\ \A i \in 1 .. Len(ledger') :
            i \in 1 .. Len(ledger) \/ \E k \in 1 .. Len(Hands) : i = Len(ledger) + k
  BY <1>1, Concatenated
<1>3. Stored' = Stored \cup ToSet(Hands) /\ Lost' = Lost /\ Gone' = Gone
  BY <1>1, Concatenated DEF Stored, Lost, Gone
<1>4. /\ \A i \in 1 .. Len(ledger) : ledger[i] \in Stored /\ ledger[i] \in Trades
      /\ \A i \in 1 .. Len(Hands) : Hands[i] \in ToSet(Hands) /\ Hands[i] \in Trades
      /\ \A e \in Stored \cup ToSet(Hands) : e \in Trades
  BY <1>1, Elements DEF Stored
<1>5. \A d \in Stored, e \in ToSet(Hands) : d < e
  BY <1>1 DEF GoneSettled
<1>6. QueueIsLatest'
  BY <1>1, <1>3 DEF QueueIsLatest
<1>7. GoneSettled'
  <2>1. 1 .. Gone' = Stored' \cup Lost' \cup ToSet(Hands')
    BY <1>1, <1>3 DEF GoneSettled
  <2> QED BY <1>1, <1>3, <2>1 DEF GoneSettled
<1>8. \A i, j \in 1 .. Len(ledger') : i < j => ledger'[i] < ledger'[j]
  <2> SUFFICES ASSUME NEW i \in 1 .. Len(ledger'), NEW j \in 1 .. Len(ledger'), i < j
               PROVE  ledger'[i] < ledger'[j]
    OBVIOUS
  <2>1. CASE j \in 1 .. Len(ledger)
    <3>1. i \in 1 .. Len(ledger)  BY <1>2, <2>1
    <3> QED BY <1>1, <1>2, <2>1, <3>1 DEF LedgerKeepsOrder
  <2>2. ASSUME NEW m \in 1 .. Len(Hands), j = Len(ledger) + m, i \in 1 .. Len(ledger)
        PROVE  ledger'[i] < ledger'[j]
    BY <1>2, <1>4, <1>5, <2>2
  <2>3. ASSUME NEW m \in 1 .. Len(Hands), j = Len(ledger) + m,
               NEW k \in 1 .. Len(Hands), i = Len(ledger) + k
        PROVE  ledger'[i] < ledger'[j]
    <3>1. k < m  BY <1>2, <2>3
    <3>2. Hands[k] < Hands[m]  BY <1>1, <3>1 DEF GoneSettled
    <3> QED BY <1>2, <2>3, <3>2
  <2> QED BY <1>2, <2>1, <2>2, <2>3
<1>9. \A i \in 1 .. Len(ledger') : 1 .. ledger'[i] \subseteq Stored' \cup Lost'
  <2> SUFFICES ASSUME NEW i \in 1 .. Len(ledger')
               PROVE  1 .. ledger'[i] \subseteq Stored' \cup Lost'
    OBVIOUS
  <2>1. ledger'[i] \in Stored'
    BY <1>2, Elements DEF Stored
  <2>2. 1 .. Gone = Stored' \cup Lost'
    BY <1>1, <1>3 DEF GoneSettled
  <2>3. Gone \in Int
    BY <1>1, LenProperties DEF Gone, TypeOK
  <2> QED BY <2>1, <2>2, <2>3
<1>10. LedgerKeepsOrder'
  <2>1. Stored' \cap Lost' = {}
    BY <1>1, <1>3 DEF LedgerKeepsOrder, GoneSettled
  <2> QED BY <1>1, <1>8, <1>9, <2>1 DEF LedgerKeepsOrder
<1> QED BY <1>2, <1>6, <1>7, <1>10 DEF DataOK

\* The stored batch is let go of.
LEMMA DataLetGo ==
    ASSUME DataOK, HandsStored, Hands' = <<>>, ~ HandsStored',
           UNCHANGED <<pushed, queue, dropped, abandoned, ledger>>
    PROVE  DataOK'
<1>1. /\ Gone' = Gone /\ Stored' = Stored /\ Lost' = Lost
      /\ QueueIsLatest /\ GoneSettled /\ LedgerKeepsOrder
  BY DEF Gone, Stored, Lost, DataOK
<1>2. ToSet(<<>>) = {} /\ Len(<<>>) = 0
  BY DEF ToSet
<1>3. GoneSettled'
  BY <1>1, <1>2 DEF GoneSettled
<1> QED BY <1>1, <1>3 DEF DataOK, QueueIsLatest, LedgerKeepsOrder

\* The batch in hand is given up, and counted.
LEMMA DataAbandon ==
    ASSUME TypeOK, DataOK, Hands \in Seq(Trades), ~ HandsStored,
           abandoned' = abandoned \o Hands, Hands' = <<>>, ~ HandsStored',
           UNCHANGED <<pushed, queue, dropped, ledger>>
    PROVE  abandoned' \in Seq(Trades) /\ DataOK'
<1>1. /\ abandoned \in Seq(Trades) /\ dropped \in Seq(Trades) /\ ledger \in Seq(Trades)
      /\ QueueIsLatest /\ GoneSettled /\ LedgerKeepsOrder
  BY DEF TypeOK, DataOK
<1>2. abandoned' \in Seq(Trades) /\ ToSet(abandoned') = ToSet(abandoned) \cup ToSet(Hands)
  BY <1>1, Concatenated
<1>3. Stored' = Stored /\ Lost' = Lost \cup ToSet(Hands) /\ Gone' = Gone
  BY <1>2 DEF Stored, Lost, Gone
<1>4. ToSet(<<>>) = {} /\ Len(<<>>) = 0
  BY DEF ToSet
<1>5. GoneSettled'
  <2>1. 1 .. Gone' = Stored' \cup Lost' \cup ToSet(Hands')
    BY <1>1, <1>3, <1>4 DEF GoneSettled
  <2> QED BY <1>4, <2>1 DEF GoneSettled
<1>6. Stored \cap ToSet(Hands) = {}
  <2>1. \A d \in Stored, e \in ToSet(Hands) : d < e  BY <1>1 DEF GoneSettled
  <2>2. \A d \in Stored : d \in Int
    <3>1. \A d \in Stored : d \in Trades  BY <1>1, Elements DEF Stored
    <3> QED BY <3>1 DEF Trades
  <2> QED BY <2>1, <2>2
<1>7. IsInjective(dropped' \o abandoned')
  <2>1. IsInjective(Hands)
    <3>1. DOMAIN Hands = 1 .. Len(Hands) /\ \A i \in 1 .. Len(Hands) : Hands[i] \in Int
      <4>1. DOMAIN Hands = 1 .. Len(Hands) /\ \A i \in 1 .. Len(Hands) : Hands[i] \in Trades
        BY LenProperties, ElementOfSeq
      <4> QED BY <4>1 DEF Trades
    <3>2. ASSUME NEW i \in 1 .. Len(Hands), NEW j \in 1 .. Len(Hands), Hands[i] = Hands[j]
          PROVE  i = j
      BY <1>1, <3>1, <3>2, SMTT(30) DEF GoneSettled
    <3> QED BY <3>1, <3>2 DEF IsInjective
  <2>2. /\ IsInjective(dropped) /\ IsInjective(abandoned)
        /\ ToSet(dropped) \cap ToSet(abandoned) = {}
    BY <1>1, InjectiveParts DEF LedgerKeepsOrder
  <2>3. ToSet(Hands) \cap (ToSet(dropped) \cup ToSet(abandoned)) = {}
    BY <1>1 DEF GoneSettled, Lost
  <2>4. IsInjective(abandoned')
    BY <1>1, <2>1, <2>2, <2>3, InjectiveParts
  <2>5. ToSet(dropped) \cap ToSet(abandoned') = {}
    BY <1>2, <2>2, <2>3
  <2>6. IsInjective(dropped \o abandoned')
    BY <1>1, <1>2, <2>2, <2>4, <2>5, InjectiveParts
  <2> QED BY <2>6
<1>8. LedgerKeepsOrder'
  BY <1>1, <1>3, <1>6, <1>7 DEF LedgerKeepsOrder
<1>9. QueueIsLatest'
  BY <1>1, <1>3 DEF QueueIsLatest
<1> QED BY <1>2, <1>5, <1>8, <1>9 DEF DataOK

----------------------------------------------------------------------------
\* Steps of a thread

LEMMA Runner ==
    ASSUME IInv, NEW t \in Threads, tpc[t] \notin {"unborn", "dead"}
    PROVE  /\ t = thread /\ Alive(t) /\ ThreadOK(t) /\ TypeOK /\ DataOK /\ ControlOK
           /\ Hands = IF tpc[t] \in Holding THEN batch[t] ELSE pending
           /\ HandsStored <=> tpc[t] = "saved"
           /\ batch[t] \in Seq(Trades) /\ Len(batch[t]) <= BatchSize
           /\ pending \in Seq(Trades) /\ Len(pending) <= BatchSize
<1>1. TypeOK /\ DataOK /\ ControlOK /\ OneThread /\ ThreadOK(t)
  BY DEF IInv, ControlOK
<1>2. Alive(t)
  BY DEF Alive, Threads, None
<1>3. t = thread
  BY <1>1, <1>2 DEF OneThread
<1>4. batch[t] \in Batches /\ pending \in Batches
  BY <1>1 DEF TypeOK
<1> QED BY <1>1, <1>2, <1>3, <1>4, HandsOfThread DEF Batches

\* The thread goes from one place to another and takes nothing, gives nothing away.
LEMMA MoveIInv ==
    ASSUME IInv, NEW t \in Threads, tpc[t] \notin {"unborn", "dead"}, NEW w,
           tpc' = [tpc EXCEPT ![t] = w], w \notin {"unborn", "dead"},
           w \in Holding <=> tpc[t] \in Holding, w = "saved" <=> tpc[t] = "saved",
           UNCHANGED <<pushed, queue, dropped, pending, stop_event, thread, abandoned,
                       batch, phase, attempts, ledger, mpc>>,
           TypeOK', ThreadOK(t)'
    PROVE  IInv'
<1>1. /\ t = thread /\ Alive(t) /\ TypeOK /\ DataOK /\ ControlOK /\ tpc'[t] = w
      /\ Hands = IF tpc[t] \in Holding THEN batch[t] ELSE pending
      /\ HandsStored <=> tpc[t] = "saved"
  BY Runner DEF TypeOK
<1>2. OneThread' /\ (\A u \in Threads : ThreadOK(u)') /\ StopOK'
  BY <1>1, OwnStep
<1>3. /\ Hands' = IF w \in Holding THEN batch'[t] ELSE pending'
      /\ HandsStored' <=> w = "saved"
  BY <1>1 DEF Hands, HandsStored, Threads, None
<1>4. DataOK'
  BY <1>1, <1>3, DataSame
<1> QED BY <1>2, <1>4 DEF IInv, ControlOK

\* A lock is taken and a failure met with the batch in hand; the rest is a choice of
\* the way on, by what the thread reads of the worker's fields.
LEMMA WayOnIInv ==
    ASSUME IInv, NEW t \in Threads,
           \/ LoopTest(t) \/ Choose(t) \/ Backoff(t) \/ BeginSave(t) \/ SaveFails(t) \/ Flush(t)
    PROVE  IInv'
<1>1. tpc[t] \in {"loop", "choose", "backoff", "save", "saving", "flush"}
  BY DEF LoopTest, Choose, Backoff, BeginSave, SaveFails, Flush
<1>2. t = thread /\ Alive(thread) /\ ThreadOK(t) /\ TypeOK /\ StopOK
  BY <1>1, Runner DEF ControlOK
<1>3. stop_event => mpc = "joining"
  BY <1>2 DEF StopOK
<1>4. CASE LoopTest(t)
  <2> DEFINE w == IF stop_event THEN "flush" ELSE "choose"
  <2>1. /\ tpc[t] = "loop" /\ tpc' = [tpc EXCEPT ![t] = w]
        /\ UNCHANGED <<pushed, queue, dropped, pending, stop_event, thread, state, abandoned,
                       batch, phase, attempts, gave_up, repo_lock, ledger, mpc>>
    BY <1>4 DEF LoopTest, Go, fields
  <2>2. TypeOK'  BY <1>2, <2>1 DEF TypeOK
  <2>3. tpc'[t] = w  BY <1>2, <2>1 DEF TypeOK
  <2>4. ThreadOK(t)'  BY <1>2, <1>3, <2>1, <2>3 DEF ThreadOK, Holding
  <2>5. /\ tpc[t] \notin {"unborn", "dead"} /\ w \notin {"unborn", "dead"}
        /\ w \in Holding <=> tpc[t] \in Holding
        /\ w = "saved" <=> tpc[t] = "saved"
    BY <2>1 DEF Holding
  <2> HIDE DEF w
  <2> QED BY <2>1, <2>2, <2>4, <2>5, MoveIInv
<1>5. CASE Choose(t)
  <2> DEFINE w == IF pending # <<>> THEN "backoff" ELSE "take"
  <2>1. /\ tpc[t] = "choose" /\ tpc' = [tpc EXCEPT ![t] = w]
        /\ UNCHANGED <<pushed, queue, dropped, pending, stop_event, thread, state, abandoned,
                       batch, phase, attempts, gave_up, repo_lock, ledger, mpc>>
    BY <1>5 DEF Choose, Go, fields
  <2>2. TypeOK'  BY <1>2, <2>1 DEF TypeOK
  <2>3. tpc'[t] = w  BY <1>2, <2>1 DEF TypeOK
  <2>4. ThreadOK(t)'  BY <1>2, <2>1, <2>3 DEF ThreadOK, Holding
  <2>5. /\ tpc[t] \notin {"unborn", "dead"} /\ w \notin {"unborn", "dead"}
        /\ w \in Holding <=> tpc[t] \in Holding
        /\ w = "saved" <=> tpc[t] = "saved"
    BY <2>1 DEF Holding
  <2> HIDE DEF w
  <2> QED BY <2>1, <2>2, <2>4, <2>5, MoveIInv
<1>6. CASE Backoff(t)
  <2> DEFINE w == IF stop_event THEN "flush" ELSE "retry"
  <2>1. /\ tpc[t] = "backoff" /\ tpc' = [tpc EXCEPT ![t] = w]
        /\ UNCHANGED <<pushed, queue, dropped, pending, stop_event, thread, state, abandoned,
                       batch, phase, attempts, gave_up, repo_lock, ledger, mpc>>
    BY <1>6 DEF Backoff, Go, fields
  <2>2. TypeOK'  BY <1>2, <2>1 DEF TypeOK
  <2>3. tpc'[t] = w  BY <1>2, <2>1 DEF TypeOK
  <2>4. ThreadOK(t)'  BY <1>2, <1>3, <2>1, <2>3 DEF ThreadOK, Holding
  <2>5. /\ tpc[t] \notin {"unborn", "dead"} /\ w \notin {"unborn", "dead"}
        /\ w \in Holding <=> tpc[t] \in Holding
        /\ w = "saved" <=> tpc[t] = "saved"
    BY <2>1 DEF Holding
  <2> HIDE DEF w
  <2> QED BY <2>1, <2>2, <2>4, <2>5, MoveIInv
<1>7. CASE BeginSave(t)
  <2>1. /\ tpc[t] = "save" /\ tpc' = [tpc EXCEPT ![t] = "saving"]
        /\ repo_lock = None /\ repo_lock' = t
        /\ UNCHANGED <<pushed, queue, dropped, pending, stop_event, thread, state, abandoned,
                       batch, phase, attempts, gave_up, ledger, mpc>>
    BY <1>7 DEF BeginSave, Go, fields
  <2>2. TypeOK'  BY <1>2, <2>1 DEF TypeOK, Threads, None
  <2>3. tpc'[t] = "saving"  BY <1>2, <2>1 DEF TypeOK
  <2>4. ThreadOK(t)'  BY <1>2, <2>1, <2>3 DEF ThreadOK, Holding
  <2>5. /\ tpc[t] \notin {"unborn", "dead"} /\ "saving" \notin {"unborn", "dead"}
        /\ "saving" \in Holding <=> tpc[t] \in Holding
        /\ "saving" = "saved" <=> tpc[t] = "saved"
    BY <2>1 DEF Holding
  <2> QED BY <2>1, <2>2, <2>4, <2>5, MoveIInv
<1>8. CASE SaveFails(t)
  <2>1. /\ tpc[t] = "saving" /\ tpc' = [tpc EXCEPT ![t] = "failed"] /\ repo_lock' = None
        /\ UNCHANGED <<pushed, queue, dropped, pending, stop_event, thread, state, abandoned,
                       batch, phase, attempts, gave_up, ledger, mpc>>
    BY <1>8 DEF SaveFails, Go, fields
  <2>2. TypeOK'  BY <1>2, <2>1 DEF TypeOK, Threads, None
  <2>3. tpc'[t] = "failed"  BY <1>2, <2>1 DEF TypeOK
  <2>4. ThreadOK(t)'  BY <1>2, <2>1, <2>3 DEF ThreadOK, Holding
  <2>5. /\ tpc[t] \notin {"unborn", "dead"} /\ "failed" \notin {"unborn", "dead"}
        /\ "failed" \in Holding <=> tpc[t] \in Holding
        /\ "failed" = "saved" <=> tpc[t] = "saved"
    BY <2>1 DEF Holding
  <2> QED BY <2>1, <2>2, <2>4, <2>5, MoveIInv
<1>9. CASE Flush(t)
  <2>1. /\ tpc[t] = "flush" /\ tpc' = [tpc EXCEPT ![t] = "held"] /\ state' = "FLUSHING"
        /\ UNCHANGED <<pushed, queue, dropped, pending, stop_event, thread, abandoned,
                       batch, phase, attempts, gave_up, repo_lock, ledger, mpc>>
    BY <1>9 DEF Flush, Go
  <2>2. TypeOK'  BY <1>2, <2>1 DEF TypeOK
  <2>3. tpc'[t] = "held"  BY <1>2, <2>1 DEF TypeOK
  <2>4. ThreadOK(t)'  BY <1>2, <2>1, <2>3 DEF ThreadOK, Holding
  <2>5. /\ tpc[t] \notin {"unborn", "dead"} /\ "held" \notin {"unborn", "dead"}
        /\ "held" \in Holding <=> tpc[t] \in Holding
        /\ "held" = "saved" <=> tpc[t] = "saved"
    BY <2>1 DEF Holding
  <2> QED BY <2>1, <2>2, <2>4, <2>5, MoveIInv
<1> QED BY <1>4, <1>5, <1>6, <1>7, <1>8, <1>9

\* The thread changes what it holds; the caller shows its own part and the data.
LEMMA HandIInv ==
    ASSUME IInv, NEW t \in Threads, tpc[t] \notin {"unborn", "dead"}, NEW w, NEW b,
           tpc' = [tpc EXCEPT ![t] = w], w # "unborn",
           batch' = [batch EXCEPT ![t] = b],
           UNCHANGED <<stop_event, thread, mpc>>,
           TypeOK', DataOK', ThreadOK(t)',
           w = "dead" => pending' = <<>> /\ AllDone'
    PROVE  IInv'
<1>1. Alive(t) /\ ControlOK /\ TypeOK  BY Runner
<1>2. \A u \in Threads \ {t} : batch'[u] = batch[u]  BY <1>1 DEF TypeOK
<1>3. OneThread' /\ (\A u \in Threads : ThreadOK(u)') /\ StopOK'
  BY <1>1, <1>2, OwnStep
<1> QED BY <1>3 DEF IInv, ControlOK

LEMMA HandsAfter ==
    ASSUME TypeOK, NEW t \in Threads, t = thread, thread' = thread, NEW w, NEW b,
           tpc' = [tpc EXCEPT ![t] = w], batch' = [batch EXCEPT ![t] = b]
    PROVE  /\ tpc'[t] = w /\ batch'[t] = b
           /\ Hands' = IF w \in Holding THEN b ELSE pending'
           /\ HandsStored' <=> w = "saved"
<1>1. tpc'[t] = w /\ batch'[t] = b  BY DEF TypeOK
<1> QED BY <1>1 DEF Hands, HandsStored, Threads, None

\* The held batch is taken up again.
LEMMA HeldIInv ==
    ASSUME IInv, NEW t \in Threads, Retry(t) \/ Held(t)
    PROVE  IInv'
<1>1. tpc[t] \in {"retry", "held"}
  BY DEF Retry, Held
<1>2. /\ t = thread /\ ThreadOK(t) /\ TypeOK /\ DataOK /\ Hands = pending /\ ~ HandsStored
      /\ pending \in Batches
  BY <1>1, Runner DEF Holding, TypeOK
<1> DEFINE w == IF pending # <<>> THEN "save" ELSE IF tpc[t] = "held" THEN "drain" ELSE "loop"
<1>3. /\ tpc' = [tpc EXCEPT ![t] = w] /\ batch' = [batch EXCEPT ![t] = pending]
      /\ phase' = [phase EXCEPT ![t] = IF tpc[t] = "held" THEN "held" ELSE "loop"]
      /\ \/ attempts' = [attempts EXCEPT ![t] = 0]
         \/ tpc[t] = "retry" /\ attempts' = attempts
      /\ UNCHANGED <<pushed, queue, dropped, pending, stop_event, thread, state, abandoned,
                     gave_up, repo_lock, ledger, mpc>>
  BY DEF Retry, Held, Go, fields
<1>4. /\ w \in {"save", "drain", "loop"} /\ (w = "save" <=> pending # <<>>)
      /\ w = "drain" => tpc[t] = "held"
  BY <1>1
<1> HIDE DEF w
<1>5. TypeOK'
  <2>1. /\ tpc'[t] = w /\ \A u \in Threads : tpc'[u] = "saving" <=> tpc[u] = "saving"
    BY <1>1, <1>2, <1>3, <1>4 DEF TypeOK
  <2>2. attempts' \in [Threads -> 0 .. ShutdownAttempts]
    BY <1>2, <1>3, PersistenceWorkerAssumption, SMTT(30) DEF TypeOK
  <2>3. /\ tpc' \in [Threads -> {"unborn", "loop", "choose", "backoff", "retry", "take", "save",
                            "saving", "saved", "failed", "flush", "held", "drain",
                            "abandon", "final", "dead"}]
        /\ batch' \in [Threads -> Batches]
        /\ phase' \in [Threads -> {"loop", "held", "drain"}]
    BY <1>2, <1>3, <1>4 DEF TypeOK
  <2> QED BY <1>2, <1>3, <2>1, <2>2, <2>3 DEF TypeOK
<1>6. /\ tpc'[t] = w /\ batch'[t] = pending
      /\ Hands' = IF w \in Holding THEN pending ELSE pending'
      /\ HandsStored' <=> w = "saved"
  BY <1>2, <1>3, HandsAfter
<1>7. DataOK'
  BY <1>2, <1>3, <1>4, <1>6, DataSame DEF Holding
<1>8. ThreadOK(t)'
  <2>1. /\ phase'[t] = IF tpc[t] = "held" THEN "held" ELSE "loop"
        /\ tpc[t] = "held" => attempts'[t] = 0
    BY <1>1, <1>2, <1>3 DEF TypeOK
  <2> QED BY <1>1, <1>2, <1>3, <1>4, <1>6, <2>1, PersistenceWorkerAssumption DEF ThreadOK, Holding
<1>9. w \notin {"unborn", "dead"}  BY <1>4
<1> QED BY <1>1, <1>3, <1>5, <1>7, <1>8, <1>9, HandIInv

\* A pop, in the loop or in the drain.
LEMMA PopIInv ==
    ASSUME IInv, NEW t \in Threads, Take(t) \/ Drain(t)
    PROVE  IInv'
<1> DEFINE n    == Lesser(BatchSize, Len(queue))
           took == SubSeq(queue, 1, n)
           rest == SubSeq(queue, n + 1, Len(queue))
<1>1. tpc[t] \in {"take", "drain"}
  BY DEF Take, Drain
<1>2. /\ t = thread /\ ThreadOK(t) /\ TypeOK /\ DataOK /\ QueueIsLatest
      /\ Hands = pending /\ ~ HandsStored /\ pending = <<>>
      /\ tpc[t] = "drain" => mpc = "joining"
  BY <1>1, Runner DEF Holding, TypeOK, ThreadOK, DataOK
<1>3. /\ n \in 0 .. Len(queue) /\ n <= BatchSize
      /\ (n = 0 <=> Len(queue) = 0) /\ (queue = <<>> <=> Len(queue) = 0)
  BY <1>2, LenProperties, EmptySeq, PersistenceWorkerAssumption DEF TypeOK, Lesser
<1>4. /\ took \in Batches /\ Len(took) = n /\ rest \in Seq(Trades)
      /\ (queue = <<>> => took = <<>> /\ rest = <<>>)
  <2>1. took \in Seq(Trades) /\ Len(took) = n /\ rest \in Seq(Trades) /\ Len(rest) = Len(queue) - n
    BY <1>2, <1>3, FirstOfQueue
  <2>2. queue = <<>> => took = <<>> /\ rest = <<>>
    BY <1>3, <2>1, EmptySeq
  <2> QED BY <1>3, <2>1, <2>2 DEF Batches
<1>5. PICK w : /\ w = IF queue # <<>> THEN (IF tpc[t] = "drain" /\ gave_up[t] THEN "abandon" ELSE "save")
                      ELSE IF tpc[t] = "drain" THEN "final" ELSE "loop"
               /\ tpc' = [tpc EXCEPT ![t] = w]
  BY <1>1 DEF Take, Drain, Go
<1>6. /\ batch' = [batch EXCEPT ![t] = took] /\ queue' = rest
      /\ phase' = [phase EXCEPT ![t] = IF tpc[t] = "drain" THEN "drain" ELSE "loop"]
      /\ \/ attempts' = [attempts EXCEPT ![t] = 0]
         \/ tpc[t] = "take" /\ attempts' = attempts
      /\ UNCHANGED <<pushed, dropped, pending, stop_event, thread, state, abandoned,
                     gave_up, repo_lock, ledger, mpc>>
  BY DEF Take, Drain, PopBatch, fields
<1>7. /\ w \in {"save", "abandon", "final", "loop"} /\ w # "unborn" /\ w # "dead"
      /\ w \in {"abandon", "final"} => tpc[t] = "drain"
      /\ w \in Holding <=> queue # <<>>
  BY <1>5 DEF Holding
<1> HIDE DEF n, took, rest
<1>8. TypeOK'
  <2>1. /\ tpc'[t] = w /\ \A u \in Threads : tpc'[u] = "saving" <=> tpc[u] = "saving"
    BY <1>1, <1>2, <1>5, <1>7 DEF TypeOK
  <2>2. attempts' \in [Threads -> 0 .. ShutdownAttempts]
    BY <1>2, <1>6, PersistenceWorkerAssumption DEF TypeOK
  <2>3. /\ tpc' \in [Threads -> {"unborn", "loop", "choose", "backoff", "retry", "take", "save",
                            "saving", "saved", "failed", "flush", "held", "drain",
                            "abandon", "final", "dead"}]
        /\ batch' \in [Threads -> Batches]
        /\ phase' \in [Threads -> {"loop", "held", "drain"}]
    BY <1>2, <1>4, <1>5, <1>6, <1>7 DEF TypeOK
  <2> QED BY <1>2, <1>4, <1>6, <2>1, <2>2, <2>3 DEF TypeOK
<1>9. /\ tpc'[t] = w /\ batch'[t] = took
      /\ Hands' = IF w \in Holding THEN took ELSE pending'
      /\ HandsStored' <=> w = "saved"
  <2>1. t = thread /\ thread' = thread /\ TypeOK  BY <1>2, <1>6
  <2>2. tpc' = [tpc EXCEPT ![t] = w] /\ batch' = [batch EXCEPT ![t] = took]  BY <1>5, <1>6
  <2> QED BY <2>1, <2>2, HandsAfter
<1>10. Hands' = took /\ ~ HandsStored'
  BY <1>2, <1>4, <1>6, <1>7, <1>9
<1>11. DataOK'
  BY <1>2, <1>3, <1>6, <1>10, DataPop DEF took, rest
<1>12. ThreadOK(t)'
  <2>1. /\ phase'[t] = IF tpc[t] = "drain" THEN "drain" ELSE "loop"
        /\ tpc[t] = "drain" => attempts'[t] = 0
    BY <1>1, <1>2, <1>6 DEF TypeOK
  <2>2. w = "final" => queue' = <<>>
    BY <1>4, <1>6, <1>7 DEF Holding
  <2>3. w \notin Holding => took = <<>>
    BY <1>4, <1>7
  <2> QED BY <1>1, <1>2, <1>6, <1>7, <1>9, <2>1, <2>2, <2>3, PersistenceWorkerAssumption DEF ThreadOK
<1> QED BY <1>1, <1>5, <1>6, <1>7, <1>8, <1>11, <1>12, HandIInv

\* A transaction commits.
LEMMA CommitIInv ==
    ASSUME IInv, NEW t \in Threads, SaveCommits(t)
    PROVE  IInv'
<1>1. /\ tpc[t] = "saving" /\ tpc' = [tpc EXCEPT ![t] = "saved"] /\ repo_lock' = None
      /\ ledger' = ledger \o NewRows(batch[t])
      /\ UNCHANGED <<pushed, queue, dropped, pending, stop_event, thread, state, abandoned,
                     batch, phase, attempts, gave_up, mpc>>
  BY DEF SaveCommits, Go, fields
<1>2. /\ t = thread /\ ThreadOK(t) /\ TypeOK /\ DataOK /\ Hands = batch[t] /\ ~ HandsStored
      /\ batch[t] \in Seq(Trades)
  BY <1>1, Runner DEF Holding
<1>3. batch' = [batch EXCEPT ![t] = batch[t]]
  BY <1>1, <1>2 DEF TypeOK
<1>4. /\ tpc'[t] = "saved" /\ batch'[t] = batch[t]
      /\ Hands' = batch[t] /\ HandsStored'
  <2>1. /\ tpc'[t] = "saved" /\ batch'[t] = batch[t]
        /\ Hands' = IF "saved" \in Holding THEN batch[t] ELSE pending'
        /\ HandsStored' <=> "saved" = "saved"
    BY <1>1, <1>2, <1>3, HandsAfter
  <2> QED BY <2>1 DEF Holding
<1>5. ledger' \in Seq(Trades) /\ DataOK'
  BY <1>1, <1>2, <1>4, DataCommit
<1>6. TypeOK'
  BY <1>1, <1>2, <1>5 DEF TypeOK, Threads, None
<1>7. ThreadOK(t)'
  BY <1>1, <1>2, <1>4 DEF ThreadOK, Holding
<1> QED BY <1>1, <1>3, <1>5, <1>6, <1>7, HandIInv

\* The stored batch is let go of.
LEMMA SavedIInv ==
    ASSUME IInv, NEW t \in Threads, Saved(t)
    PROVE  IInv'
<1> DEFINE w == IF phase[t] = "loop" THEN "loop" ELSE "drain"
<1>1. /\ tpc[t] = "saved" /\ tpc' = [tpc EXCEPT ![t] = w] /\ pending' = <<>>
      /\ batch' = [batch EXCEPT ![t] = <<>>] /\ attempts' = [attempts EXCEPT ![t] = 0]
      /\ UNCHANGED <<pushed, queue, dropped, stop_event, thread, state, abandoned,
                     phase, gave_up, repo_lock, ledger, mpc>>
  BY DEF Saved, AfterBatch, Go
<1>2. /\ t = thread /\ ThreadOK(t) /\ TypeOK /\ DataOK /\ HandsStored
  BY <1>1, Runner
<1>3. w \in {"loop", "drain"} /\ (w = "drain" => mpc = "joining")
  BY <1>1, <1>2 DEF ThreadOK, Holding
<1> HIDE DEF w
<1>4. /\ tpc'[t] = w /\ batch'[t] = <<>> /\ Hands' = <<>> /\ ~ HandsStored'
  <2>1. /\ tpc'[t] = w /\ batch'[t] = <<>>
        /\ Hands' = IF w \in Holding THEN <<>> ELSE pending'
        /\ HandsStored' <=> w = "saved"
    BY <1>1, <1>2, HandsAfter
  <2> QED BY <1>1, <1>3, <2>1
<1>5. DataOK'
  BY <1>1, <1>2, <1>4, DataLetGo
<1>6. <<>> \in Batches
  BY EmptySeq, PersistenceWorkerAssumption DEF Batches
<1>7. TypeOK'
  BY <1>1, <1>2, <1>3, <1>6, PersistenceWorkerAssumption DEF TypeOK
<1>8. ThreadOK(t)'
  BY <1>1, <1>3, <1>4 DEF ThreadOK, Holding
<1> QED BY <1>1, <1>3, <1>5, <1>7, <1>8, HandIInv

\* A failed batch is held: by the field in the loop, by the thread also in the drain.
LEMMA FailedIInv ==
    ASSUME IInv, NEW t \in Threads, Failed(t)
    PROVE  IInv'
<1>1. /\ tpc[t] = "failed" /\ pending' = batch[t]
      /\ UNCHANGED <<pushed, queue, dropped, stop_event, thread, state, abandoned,
                     phase, gave_up, repo_lock, ledger, mpc>>
  BY DEF Failed
<1>2. /\ t = thread /\ ThreadOK(t) /\ TypeOK /\ DataOK /\ Hands = batch[t] /\ ~ HandsStored
      /\ batch[t] \in Batches /\ attempts[t] \in 0 .. ShutdownAttempts
  BY <1>1, Runner DEF Holding, TypeOK
<1>3. <<>> \in Batches
  BY EmptySeq, PersistenceWorkerAssumption DEF Batches
<1>4. CASE phase[t] = "loop"
  <2>1. /\ tpc' = [tpc EXCEPT ![t] = "loop"] /\ batch' = [batch EXCEPT ![t] = <<>>]
        /\ attempts' = attempts
    BY <1>4 DEF Failed, Go
  <2>2. /\ tpc'[t] = "loop" /\ batch'[t] = <<>> /\ Hands' = Hands /\ ~ HandsStored'
    <3>1. /\ tpc'[t] = "loop" /\ batch'[t] = <<>>
          /\ Hands' = IF "loop" \in Holding THEN <<>> ELSE pending'
          /\ HandsStored' <=> "loop" = "saved"
      BY <1>1, <1>2, <2>1, HandsAfter
    <3> QED BY <1>1, <1>2, <3>1 DEF Holding
  <2>3. DataOK'
    BY <1>1, <1>2, <2>2, DataSame
  <2>4. TypeOK'
    BY <1>1, <1>2, <1>3, <2>1 DEF TypeOK
  <2>5. ThreadOK(t)'
    BY <2>2 DEF ThreadOK, Holding
  <2> QED BY <1>1, <2>1, <2>3, <2>4, <2>5, HandIInv
<1>5. CASE phase[t] # "loop"
  <2> DEFINE w == IF attempts[t] + 1 < ShutdownAttempts THEN "save" ELSE "abandon"
  <2>1. /\ tpc' = [tpc EXCEPT ![t] = w] /\ batch' = [batch EXCEPT ![t] = batch[t]]
        /\ attempts' = [attempts EXCEPT ![t] = attempts[t] + 1]
    BY <1>2, <1>5 DEF Failed, Go, TypeOK
  <2>2. /\ attempts[t] < ShutdownAttempts /\ mpc = "joining"
    BY <1>1, <1>2, <1>5 DEF ThreadOK, Holding
  <2>3. /\ attempts[t] + 1 \in 0 .. ShutdownAttempts
        /\ w \in {"save", "abandon"}
        /\ w = "save" => attempts[t] + 1 < ShutdownAttempts
    BY <1>2, <2>2, PersistenceWorkerAssumption
  <2> HIDE DEF w
  <2>4. /\ tpc'[t] = w /\ batch'[t] = batch[t] /\ Hands' = Hands /\ ~ HandsStored'
    <3>1. /\ tpc'[t] = w /\ batch'[t] = batch[t]
          /\ Hands' = IF w \in Holding THEN batch[t] ELSE pending'
          /\ HandsStored' <=> w = "saved"
      BY <1>1, <1>2, <2>1, HandsAfter
    <3> QED BY <1>1, <1>2, <2>3, <3>1
  <2>5. DataOK'
    BY <1>1, <1>2, <2>4, DataSame
  <2>6. TypeOK'
    <3>1. attempts' \in [Threads -> 0 .. ShutdownAttempts]
      BY <1>2, <2>1, <2>3 DEF TypeOK
    <3>2. /\ tpc' \in [Threads -> {"unborn", "loop", "choose", "backoff", "retry", "take", "save",
                            "saving", "saved", "failed", "flush", "held", "drain",
                            "abandon", "final", "dead"}]
          /\ \A u \in Threads : tpc'[u] = "saving" <=> tpc[u] = "saving"
      BY <1>1, <1>2, <2>1, <2>3 DEF TypeOK
    <3>3. batch' \in [Threads -> Batches]
      BY <1>2, <2>1 DEF TypeOK
    <3> QED BY <1>1, <1>2, <3>1, <3>2, <3>3 DEF TypeOK
  <2>7. ThreadOK(t)'
    <3>1. attempts'[t] = attempts[t] + 1  BY <1>2, <2>1 DEF TypeOK
    <3> QED BY <1>1, <2>2, <2>3, <2>4, <3>1 DEF ThreadOK, Holding
  <2> QED BY <1>1, <2>1, <2>3, <2>5, <2>6, <2>7, HandIInv
<1> QED BY <1>4, <1>5

\* A batch is given up.
LEMMA AbandonIInv ==
    ASSUME IInv, NEW t \in Threads, Abandon(t)
    PROVE  IInv'
<1>1. /\ tpc[t] = "abandon" /\ tpc' = [tpc EXCEPT ![t] = "drain"]
      /\ abandoned' = abandoned \o batch[t] /\ pending' = <<>>
      /\ batch' = [batch EXCEPT ![t] = <<>>] /\ gave_up' = [gave_up EXCEPT ![t] = TRUE]
      /\ UNCHANGED <<pushed, queue, dropped, stop_event, thread, state, phase, attempts,
                     repo_lock, ledger, mpc>>
  BY DEF Abandon, Go
<1>2. /\ t = thread /\ ThreadOK(t) /\ TypeOK /\ DataOK /\ Hands = batch[t] /\ ~ HandsStored
      /\ batch[t] \in Seq(Trades) /\ mpc = "joining"
  BY <1>1, Runner DEF Holding, ThreadOK
<1>3. /\ tpc'[t] = "drain" /\ batch'[t] = <<>> /\ Hands' = <<>> /\ ~ HandsStored'
  <2>1. /\ tpc'[t] = "drain" /\ batch'[t] = <<>>
        /\ Hands' = IF "drain" \in Holding THEN <<>> ELSE pending'
        /\ HandsStored' <=> "drain" = "saved"
    BY <1>1, <1>2, HandsAfter
  <2> QED BY <1>1, <2>1
<1>4. abandoned' \in Seq(Trades) /\ DataOK'
  BY <1>1, <1>2, <1>3, DataAbandon
<1>5. <<>> \in Batches
  BY EmptySeq, PersistenceWorkerAssumption DEF Batches
<1>6. TypeOK'
  BY <1>1, <1>2, <1>4, <1>5 DEF TypeOK
<1>7. ThreadOK(t)'
  BY <1>1, <1>2, <1>3 DEF ThreadOK, Holding
<1> QED BY <1>1, <1>4, <1>6, <1>7, HandIInv

\* The thread ends, with nothing in memory.
LEMMA FinalIInv ==
    ASSUME IInv, NEW t \in Threads, Final(t)
    PROVE  IInv'
<1>1. /\ tpc[t] = "final" /\ tpc' = [tpc EXCEPT ![t] = "dead"]
      /\ state' \in {"STOPPED", "ERROR"}
      /\ UNCHANGED <<pushed, queue, dropped, pending, stop_event, thread, abandoned, batch,
                     phase, attempts, gave_up, repo_lock, ledger, mpc>>
  BY DEF Final, Go
<1>2. /\ t = thread /\ ThreadOK(t) /\ TypeOK /\ DataOK /\ Hands = pending /\ ~ HandsStored
      /\ pending = <<>> /\ queue = <<>> /\ batch[t] = <<>>
  BY <1>1, Runner DEF Holding, ThreadOK
<1>3. batch' = [batch EXCEPT ![t] = <<>>]
  BY <1>1, <1>2 DEF TypeOK
<1>4. /\ tpc'[t] = "dead" /\ batch'[t] = <<>> /\ Hands' = Hands /\ ~ HandsStored'
  <2>1. /\ tpc'[t] = "dead" /\ batch'[t] = <<>>
        /\ Hands' = IF "dead" \in Holding THEN <<>> ELSE pending'
        /\ HandsStored' <=> "dead" = "saved"
    BY <1>1, <1>2, <1>3, HandsAfter
  <2> QED BY <1>1, <1>2, <2>1
<1>5. DataOK'
  BY <1>1, <1>2, <1>4, DataSame
<1>6. TypeOK'
  BY <1>1, <1>2 DEF TypeOK
<1>7. ThreadOK(t)'
  BY <1>4 DEF ThreadOK, Holding
<1>8. pending' = <<>> /\ AllDone'
  BY <1>1, <1>2 DEF AllDone
<1> QED BY <1>1, <1>3, <1>5, <1>6, <1>7, <1>8, HandIInv

----------------------------------------------------------------------------
\* Steps of the main thread

\* While main is not waiting in stop, no thread drains.
LEMMA NotDraining ==
    ASSUME IInv, mpc # "joining", NEW u \in Threads
    PROVE  /\ tpc[u] \notin {"flush", "held", "drain", "abandon", "final"}
           /\ tpc[u] \in Holding => phase[u] = "loop"
           /\ Alive(thread) => ~ stop_event
BY DEF IInv, ControlOK, ThreadOK, StopOK

LEMMA NobodyHolds ==
    ASSUME IInv, ~ Alive(thread)
    PROVE  /\ Hands = pending /\ ~ HandsStored /\ pending = <<>>
           /\ \A u \in Threads : ~ Alive(u) /\ tpc[u] \in {"unborn", "dead"}
<1>1. \A u \in Threads : ~ Alive(u)
  BY DEF IInv, ControlOK, OneThread
<1>2. \A u \in Threads : tpc[u] \in {"unborn", "dead"}
  BY <1>1 DEF Alive, Threads, None
<1>3. thread = None \/ tpc[thread] \in {"unborn", "dead"}
  BY DEF Alive
<1> QED BY <1>1, <1>2, <1>3 DEF Hands, HandsStored, Holding, IInv, ControlOK, StopOK

LEMMA PushIInv ==
    ASSUME IInv, Push
    PROVE  IInv'
<1>1. /\ mpc # "joining" /\ mpc' = "running" /\ pushed < MaxTrades /\ pushed' = pushed + 1
      /\ UNCHANGED <<pending, stop_event, thread, state, abandoned, tpc, batch, phase,
                     attempts, gave_up, repo_lock, ledger>>
      /\ TypeOK /\ DataOK /\ OneThread /\ StopOK /\ \A u \in Threads : ThreadOK(u)
  BY DEF Push, fields, locals, IInv, ControlOK
<1>2. TypeOK'
  <2>1. /\ pushed + 1 \in Trades /\ pushed' \in 0 .. MaxTrades
        /\ queue \in Seq(Trades) /\ dropped \in Seq(Trades) /\ Len(queue) \in Nat
    BY <1>1, LenProperties, PersistenceWorkerAssumption DEF TypeOK, Trades
  <2>2. queue' \in Seq(Trades) /\ dropped' \in Seq(Trades)
    <3>1. CASE Len(queue) >= QueueCapacity
      <4>1. Len(queue) # 0  BY <2>1, <3>1, PersistenceWorkerAssumption
      <4>2. queue # <<>>  BY <4>1
      <4>3. Tail(queue) \in Seq(Trades) /\ Head(queue) \in Trades
        BY <2>1, <4>2, HeadTailProperties
      <4>4. queue' = Append(Tail(queue), pushed + 1) /\ dropped' = Append(dropped, Head(queue))
        BY <3>1 DEF Push
      <4>5. Append(Tail(queue), pushed + 1) \in Seq(Trades)
        BY <2>1, <4>3, AppendProperties
      <4>6. Append(dropped, Head(queue)) \in Seq(Trades)
        BY <2>1, <4>3, AppendProperties
      <4> QED BY <4>4, <4>5, <4>6
    <3>2. CASE ~ (Len(queue) >= QueueCapacity)
      BY <2>1, <3>2, AppendProperties, SMTT(30) DEF Push
    <3> QED BY <3>1, <3>2
  <2> QED BY <1>1, <2>1, <2>2 DEF TypeOK
<1>3. DataOK'
  BY <1>1, <1>2, DataPush DEF Hands, HandsStored
<1>4. OneThread'
  BY <1>1 DEF OneThread, Alive
<1>5. \A u \in Threads : ThreadOK(u)'
  BY <1>1, NotDraining DEF ThreadOK
<1>6. StopOK'
  BY <1>1, NotDraining DEF StopOK, Alive
<1> QED BY <1>2, <1>3, <1>4, <1>5, <1>6 DEF IInv, ControlOK

LEMMA StartIInv ==
    ASSUME IInv, Start
    PROVE  IInv'
<1>1. /\ mpc # "joining" /\ mpc' = "running" /\ ~ Alive(thread)
      /\ stop_event' = FALSE /\ state' = "RUNNING"
      /\ UNCHANGED <<pushed, queue, dropped, pending, abandoned, batch, phase, attempts,
                     gave_up, repo_lock, ledger>>
      /\ TypeOK /\ DataOK /\ \A u \in Threads : ThreadOK(u)
  BY DEF Start, IInv, ControlOK
<1>2. PICK t \in Threads : /\ tpc[t] = "unborn" /\ thread' = t
                           /\ tpc' = [tpc EXCEPT ![t] = "loop"]
  BY DEF Start, Go
<1>3. /\ Hands = pending /\ ~ HandsStored /\ pending = <<>>
      /\ \A u \in Threads : tpc[u] \in {"unborn", "dead"}
  BY <1>1, NobodyHolds
<1>4. /\ tpc'[t] = "loop"
      /\ \A u \in Threads \ {t} : tpc'[u] = tpc[u] /\ tpc[u] \in {"unborn", "dead"}
      /\ \A u \in Threads : batch[u] = <<>>
  BY <1>1, <1>2, <1>3 DEF TypeOK, ThreadOK, Holding
<1>5. TypeOK'
  BY <1>1, <1>2 DEF TypeOK
<1>6. OneThread'
  BY <1>2, <1>4 DEF OneThread, Alive
<1>7. \A u \in Threads : ThreadOK(u)'
  BY <1>1, <1>4 DEF ThreadOK, Holding
<1>8. StopOK'
  BY <1>1, <1>3 DEF StopOK
<1>9. DataOK'
  <2>1. Hands' = pending /\ ~ HandsStored'
    BY <1>1, <1>2, <1>4 DEF Hands, HandsStored, Holding
  <2> QED BY <1>1, <1>3, <2>1, DataSame
<1> QED BY <1>5, <1>6, <1>7, <1>8, <1>9 DEF IInv, ControlOK

\* stop, and the end of it: nothing but where main is changes, and a join has
\* waited for its thread.
LEMMA StoppingIInv ==
    ASSUME ~ JoinMayTimeOut, IInv, Stop \/ Join \/ CloseRepository \/ Exit
    PROVE  IInv'
<1>1. /\ UNCHANGED <<pushed, queue, dropped, pending, state, abandoned, tpc, batch, phase,
                     attempts, gave_up, repo_lock, ledger>>
      /\ TypeOK /\ DataOK /\ OneThread /\ StopOK /\ \A u \in Threads : ThreadOK(u)
  BY DEF Stop, Join, CloseRepository, Exit, fields, locals, IInv, ControlOK
<1>2. CASE Stop \/ CloseRepository \/ Exit
  <2>1. /\ mpc # "joining" /\ thread' = thread
        /\ mpc' \in {"joining", "onlyclosing", "stopped", "running", "exited"}
        /\ mpc' = "joining" => Alive(thread)
        /\ stop_event' \in BOOLEAN /\ (stop_event' = stop_event \/ mpc' = "joining" \/ ~ Alive(thread))
    BY <1>1, <1>2 DEF Stop, CloseRepository, Exit, fields, TypeOK
  <2>2. TypeOK'
    BY <1>1, <2>1 DEF TypeOK
  <2>3. OneThread'
    BY <1>1, <2>1 DEF OneThread, Alive
  <2>4. \A u \in Threads : ThreadOK(u)'
    BY <1>1, <2>1, NotDraining DEF ThreadOK
  <2>5. StopOK'
    <3>1. /\ Alive(thread)' <=> Alive(thread)
          /\ Alive(thread) => ~ stop_event
      BY <1>1, <2>1 DEF Alive, StopOK
    <3> QED BY <1>1, <2>1, <3>1 DEF StopOK
  <2>6. DataOK'
    BY <1>1, <2>1, DataSame DEF Hands, HandsStored
  <2> QED BY <2>2, <2>3, <2>4, <2>5, <2>6 DEF IInv, ControlOK
<1>3. CASE Join
  <2>1. /\ mpc = "joining" /\ mpc' = "closing" /\ ~ Alive(thread) /\ thread' = None
        /\ stop_event' = stop_event
    BY <1>3 DEF Join
  <2>2. /\ Hands = pending /\ ~ HandsStored /\ pending = <<>> /\ AllDone
        /\ \A u \in Threads : ~ Alive(u) /\ tpc[u] \in {"unborn", "dead"}
    BY <1>1, <2>1, NobodyHolds DEF StopOK
  <2>3. TypeOK'
    BY <1>1, <2>1 DEF TypeOK
  <2>4. OneThread'
    BY <1>1, <2>2 DEF OneThread, Alive
  <2>5. \A u \in Threads : ThreadOK(u)'
    BY <1>1, <2>2 DEF ThreadOK, Holding
  <2>6. StopOK'
    BY <1>1, <2>1, <2>2 DEF StopOK, AllDone, Alive
  <2>7. DataOK'
    <3>1. Hands' = pending /\ ~ HandsStored'
      BY <1>1, <2>1 DEF Hands, HandsStored
    <3> QED BY <1>1, <2>2, <3>1, DataSame
  <2> QED BY <2>3, <2>4, <2>5, <2>6, <2>7 DEF IInv, ControlOK
<1> QED BY <1>2, <1>3

----------------------------------------------------------------------------
\* Theorems

LEMMA InitIInv ==
    ASSUME Init
    PROVE  IInv
<1>1. /\ ToSet(<<>>) = {} /\ Len(<<>>) = 0 /\ <<>> \in Seq(Trades)
      /\ <<>> \in Batches
  BY EmptySeq, PersistenceWorkerAssumption DEF ToSet, Batches
<1>2. TypeOK
  <2>1. /\ pushed \in 0 .. MaxTrades /\ queue \in Seq(Trades) /\ dropped \in Seq(Trades)
        /\ pending \in Batches /\ abandoned \in Seq(Trades) /\ ledger \in Seq(Trades)
    BY <1>1, PersistenceWorkerAssumption DEF Init
  <2>2. /\ stop_event \in BOOLEAN /\ thread \in Threads \cup {None}
        /\ state = "STOPPED" /\ mpc = "running"
    BY DEF Init
  <2>3. /\ tpc = [t \in Threads |-> "unborn"] /\ batch \in [Threads -> Batches]
        /\ phase = [t \in Threads |-> "loop"] /\ gave_up = [t \in Threads |-> FALSE]
    BY <1>1 DEF Init
  <2>4. attempts \in [Threads -> 0 .. ShutdownAttempts]
    <3>1. 0 \in 0 .. ShutdownAttempts  BY PersistenceWorkerAssumption
    <3> QED BY <3>1 DEF Init
  <2>5. \A t \in Threads : repo_lock = t <=> tpc[t] = "saving"
    <3>1. repo_lock = 0 /\ \A t \in Threads : t # 0  BY DEF Init, Threads, None
    <3> QED BY <2>3, <3>1
  <2> QED BY <2>1, <2>2, <2>3, <2>4, <2>5 DEF TypeOK
<1>3. OneThread /\ (\A t \in Threads : ThreadOK(t)) /\ StopOK
  BY DEF Init, OneThread, Alive, ThreadOK, StopOK, Holding
<1>4. Hands = <<>> /\ ~ HandsStored /\ Gone = 0 /\ Stored = {} /\ Lost = {}
  <2>1. thread = None /\ pending = <<>> /\ pushed = 0 /\ queue = <<>>
        /\ dropped = <<>> /\ abandoned = <<>> /\ ledger = <<>>
    BY DEF Init
  <2>2. Hands = <<>> /\ ~ HandsStored  BY <2>1 DEF Hands, HandsStored
  <2>3. Gone = 0
    <3>1. Gone = pushed - Len(queue)  BY DEF Gone
    <3>2. Len(queue) = 0  BY <2>1, EmptySeq
    <3>3. pushed = 0  BY <2>1
    <3> QED BY <3>1, <3>2, <3>3
  <2>4. Stored = {} /\ Lost = {}  BY <1>1, <2>1 DEF Stored, Lost
  <2> QED BY <2>2, <2>3, <2>4
<1>5. QueueIsLatest /\ GoneSettled
  BY <1>1, <1>4 DEF Init, QueueIsLatest, GoneSettled
<1>6. LedgerKeepsOrder
  <2>1. IsInjective(<<>> \o <<>>)
    <3>1. <<>> \o <<>> = <<>>  BY <1>1, ConcatEmptySeq
    <3> QED BY <3>1 DEF IsInjective
  <2> QED BY <1>1, <1>4, <2>1 DEF Init, LedgerKeepsOrder
<1> QED BY <1>2, <1>3, <1>5, <1>6 DEF IInv, ControlOK, DataOK

LEMMA NextIInv ==
    ASSUME ~ JoinMayTimeOut, IInv, [Next]_vars
    PROVE  IInv'
<1>1. CASE Main
  BY <1>1, PushIInv, StartIInv, StoppingIInv DEF Main
<1>2. ASSUME NEW t \in Threads, ThreadStep(t)
      PROVE  IInv'
  BY <1>2, WayOnIInv, HeldIInv, PopIInv, CommitIInv, SavedIInv, FailedIInv, AbandonIInv,
     FinalIInv DEF ThreadStep
<1>3. CASE UNCHANGED vars
  <2>1. /\ UNCHANGED <<pushed, queue, dropped, pending, stop_event, thread, state, abandoned,
                       tpc, batch, phase, attempts, gave_up, repo_lock, ledger, mpc>>
        /\ IInv
    BY <1>3 DEF vars, fields, locals
  <2>2. TypeOK'  BY <2>1 DEF IInv, ControlOK, TypeOK
  <2>3. OneThread'  BY <2>1 DEF IInv, ControlOK, OneThread, Alive
  <2>4. \A u \in Threads : ThreadOK(u)'  BY <2>1 DEF IInv, ControlOK, ThreadOK
  <2>5. StopOK'  BY <2>1 DEF IInv, ControlOK, StopOK, AllDone, Alive
  <2>6. DataOK'  BY <2>1, DataSame DEF IInv, Hands, HandsStored
  <2> QED BY <2>2, <2>3, <2>4, <2>5, <2>6 DEF IInv, ControlOK
<1> QED BY <1>1, <1>2, <1>3 DEF Next

\* What IInv says of the properties.
LEMMA IInvImplies ==
    ASSUME IInv
    PROVE  TypeOK /\ NothingLostSilently /\ LedgerKeepsOrder /\ StopSettlesEverything
<1>1. TypeOK /\ QueueIsLatest /\ GoneSettled /\ LedgerKeepsOrder
  BY DEF IInv, ControlOK, DataOK
<1>2. /\ Len(queue) \in Nat /\ pushed \in Nat /\ Gone = pushed - Len(queue) /\ Gone \in Nat
      /\ ToSet(queue) = {queue[i] : i \in 1 .. Len(queue)}
      /\ 1 .. Gone = Stored \cup Lost \cup ToSet(Hands)
  BY <1>1, Elements DEF TypeOK, QueueIsLatest, GoneSettled, Gone
<1>3. ToSet(Hands) \subseteq InMemory
  <2>1. CASE thread # None /\ tpc[thread] \in Holding
    <3>1. thread \in Threads /\ Hands = batch[thread]  BY <1>1, <2>1 DEF TypeOK, Hands
    <3> QED BY <3>1 DEF InMemory
  <2>2. CASE ~ (thread # None /\ tpc[thread] \in Holding)
    BY <2>2 DEF Hands, InMemory
  <2> QED BY <2>1, <2>2
<1>4. NothingLostSilently
  <2> SUFFICES ASSUME NEW e \in 1 .. pushed PROVE e \in Stored \cup Lost \cup InMemory
    BY DEF NothingLostSilently
  <2>1. CASE e \in 1 .. Gone  BY <1>2, <1>3, <2>1
  <2>2. CASE e \notin 1 .. Gone
    <3>1. e - Gone \in 1 .. Len(queue) /\ Gone + (e - Gone) = e  BY <1>2, <2>2
    <3>2. queue[e - Gone] = e  BY <1>1, <3>1 DEF QueueIsLatest
    <3> QED BY <1>2, <3>1, <3>2 DEF InMemory
  <2> QED BY <2>1, <2>2
<1>5. StopSettlesEverything
  <2> SUFFICES ASSUME mpc = "closing"
               PROVE  /\ 1 .. pushed \subseteq Stored \cup Lost
                      /\ pending = <<>> /\ queue = <<>>
                      /\ state \in {"STOPPED", "ERROR"}
    BY DEF StopSettlesEverything
  <2>1. thread = None /\ AllDone  BY DEF IInv, ControlOK, StopOK
  <2>2. ~ Alive(thread)  BY <2>1 DEF Alive
  <2>3. Hands = pending /\ pending = <<>>  BY <2>2, NobodyHolds
  <2>4. Gone = pushed  BY <1>2, <2>1, EmptySeq DEF AllDone
  <2>5. ToSet(Hands) = {}  BY <2>3 DEF ToSet
  <2> QED BY <1>2, <2>1, <2>3, <2>4, <2>5 DEF AllDone
<1> QED BY <1>1, <1>4, <1>5

THEOREM Invariance ==
    ASSUME ~ JoinMayTimeOut
    PROVE  Spec => []IInv
<1>1. Init => IInv  BY InitIInv
<1>2. IInv /\ [Next]_vars => IInv'  BY NextIInv
<1> QED BY <1>1, <1>2, PTL DEF Spec

\* Every field has its type and a batch fits its size: there is one thread, which
\* stop waits for, and it alone is inside the repository.
THEOREM TypeCorrect ==
    ASSUME ~ JoinMayTimeOut
    PROVE  Spec => []TypeOK
<1>1. IInv => TypeOK  BY IInvImplies
<1> QED BY <1>1, Invariance, PTL

\* However saves fail, batches are retried, stops drain and starts follow: a trade
\* pushed is stored, or counted as lost, or still in memory.
THEOREM NothingLost ==
    ASSUME ~ JoinMayTimeOut
    PROVE  Spec => []NothingLostSilently
<1>1. IInv => NothingLostSilently  BY IInvImplies
<1> QED BY <1>1, Invariance, PTL

\* The ledger grows in the order of the pushes and passes nothing over that is not
\* counted as lost, and what is counted as lost is never stored.
THEOREM InOrder ==
    ASSUME ~ JoinMayTimeOut
    PROVE  Spec => []LedgerKeepsOrder
<1>1. IInv => LedgerKeepsOrder  BY IInvImplies
<1> QED BY <1>1, Invariance, PTL

\* A stop that has waited for its thread leaves nothing in memory.
THEOREM StopSettles ==
    ASSUME ~ JoinMayTimeOut
    PROVE  Spec => []StopSettlesEverything
<1>1. IInv => StopSettlesEverything  BY IInvImplies
<1> QED BY <1>1, Invariance, PTL
=============================================================================

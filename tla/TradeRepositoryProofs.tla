----------------------- MODULE TradeRepositoryProofs -----------------------
(***************************************************************************)
(* For any number of processes, every set of batches and any number of     *)
(* attempts: the repository reports what it did, readers that page through *)
(* the table see each row once, and the table is the ledger of             *)
(* TradeLedger.                                                            *)
(***************************************************************************)
EXTENDS TradeRepository, SequenceTheorems, TLAPS

\* An open transaction: what it has added is new, comes from its batch, and,
\* with the table, holds every row it has tried.
TransactionOK(r) ==
    pc[r] = "insert" =>
        /\ row[r] <= Len(batch[r]) /\ Len(pending[r]) <= row[r]
        /\ total_changes[r] = changes_before[r] + Len(pending[r])
        /\ IsInjective(pending[r])
        /\ ToSet(pending[r]) \subseteq ToSet(batch[r]) \ Incomplete
        /\ ToSet(pending[r]) \cap ToSet(table) = {}
        /\ \A i \in 1 .. row[r] :
            /\ batch[r][i] \notin Overflowing
            /\ batch[r][i] \in Incomplete \cup ToSet(table) \cup ToSet(pending[r])

\* A committed save.
OutcomeOK(r) ==
    pc[r] = "committed" =>
        /\ Len(pending[r]) <= Len(batch[r])
        /\ total_changes[r] = changes_before[r] + Len(pending[r])
        /\ ToSet(batch[r]) \subseteq ToSet(table) \cup Incomplete

\* Between transactions nothing is pending, and an attempt is left to begin.
AttemptOK(r) ==
    /\ pc[r] # "idle" => batch[r] \in Batches /\ attempt[r] < max_retries
    /\ pc[r] = "idle" => attempt[r] = 0
    /\ pc[r] \in {"idle", "attempt"} => row[r] = 0 /\ pending[r] = <<>>

SaveOK(r) == TransactionOK(r) /\ OutcomeOK(r) /\ AttemptOK(r)

\* The rows keep their places, so that what was read is a beginning of the table.
TableOK ==
    /\ IsInjective(table)
    /\ Len(seen) <= Len(table) /\ seen = SubSeq(table, 1, Len(seen))

IInv == TypeOK /\ TableOK /\ \A r \in Repositories : SaveOK(r)

----------------------------------------------------------------------------
\* Sequences

LEMMA AppendedElement ==
    ASSUME NEW S, NEW s \in Seq(S), NEW e \in S
    PROVE  /\ ToSet(Append(s, e)) = ToSet(s) \cup {e}
           /\ IsInjective(s) /\ e \notin ToSet(s) => IsInjective(Append(s, e))
<1>1. /\ DOMAIN Append(s, e) = 1 .. Len(s) + 1 /\ DOMAIN s = 1 .. Len(s) /\ Len(s) \in Nat
      /\ \A i \in 1 .. Len(s) : Append(s, e)[i] = s[i]
      /\ Append(s, e)[Len(s) + 1] = e
  BY AppendProperties, LenProperties
<1>2. \A i \in 1 .. Len(s) + 1 : i \in 1 .. Len(s) \/ i = Len(s) + 1
  BY <1>1
<1>3. ToSet(Append(s, e)) = ToSet(s) \cup {e}
  BY <1>1, <1>2 DEF ToSet
<1>4. IsInjective(s) /\ e \notin ToSet(s) => IsInjective(Append(s, e))
  BY <1>1, <1>2 DEF ToSet, IsInjective
<1> QED BY <1>3, <1>4

\* A sequence that grows at its end: old places stay, the new elements come after.
LEMMA Grown ==
    ASSUME NEW S, NEW s \in Seq(S), NEW t \in Seq(S)
    PROVE  /\ ToSet(s \o t) = ToSet(s) \cup ToSet(t)
           /\ IsPrefix(s, s \o t)
           /\ Len(s) <= Len(s \o t)
           /\ \A n \in 0 .. Len(s) : SubSeq(s \o t, 1, n) = SubSeq(s, 1, n)
           /\ IsInjective(s) /\ IsInjective(t) /\ ToSet(s) \cap ToSet(t) = {}
                => IsInjective(s \o t)
<1>1. /\ DOMAIN (s \o t) = 1 .. Len(s) + Len(t)
      /\ DOMAIN s = 1 .. Len(s) /\ Len(s) \in Nat
      /\ DOMAIN t = 1 .. Len(t) /\ Len(t) \in Nat
      /\ s \o t \in Seq(S) /\ Len(s \o t) = Len(s) + Len(t)
      /\ \A i \in 1 .. Len(s) + Len(t) :
            (s \o t)[i] = IF i <= Len(s) THEN s[i] ELSE t[i - Len(s)]
  BY ConcatProperties, LenProperties
<1>2. /\ \A i \in 1 .. Len(s) : i \in 1 .. Len(s) + Len(t) /\ (s \o t)[i] = s[i]
      /\ \A i \in 1 .. Len(t) :
            Len(s) + i \in 1 .. Len(s) + Len(t) /\ (s \o t)[Len(s) + i] = t[i]
      /\ \A i \in 1 .. Len(s) + Len(t) :
            i \in 1 .. Len(s) \/ \E j \in 1 .. Len(t) : i = Len(s) + j
  <2>1. \A i \in 1 .. Len(s) + Len(t) :
            i \in 1 .. Len(s) \/ (i - Len(s) \in 1 .. Len(t) /\ i = Len(s) + (i - Len(s)))
    BY <1>1
  <2>2. \A i \in 1 .. Len(t) : ~ (Len(s) + i <= Len(s)) /\ (Len(s) + i) - Len(s) = i
    BY <1>1
  <2>3. \A i \in 1 .. Len(t) : Len(s) + i \in 1 .. Len(s) + Len(t)
    BY <1>1
  <2> QED BY <1>1, <2>1, <2>2, <2>3
<1>3. ToSet(s \o t) = ToSet(s) \cup ToSet(t)
  <2>1. ToSet(s \o t) \subseteq ToSet(s) \cup ToSet(t)  BY <1>1, <1>2, SMTT(30) DEF ToSet
  <2>2. ToSet(s) \subseteq ToSet(s \o t)  BY <1>1, <1>2 DEF ToSet
  <2>3. ToSet(t) \subseteq ToSet(s \o t)
    <3>1. SUFFICES ASSUME NEW i \in 1 .. Len(t)
                   PROVE  t[i] \in ToSet(s \o t)
      BY <1>1 DEF ToSet
    <3>2. Len(s) + i \in DOMAIN (s \o t) /\ (s \o t)[Len(s) + i] = t[i]
      BY <1>1, <1>2
    <3> QED BY <3>2 DEF ToSet
  <2> QED BY <2>1, <2>2, <2>3
<1>4. \A n \in 0 .. Len(s) : SubSeq(s \o t, 1, n) = SubSeq(s, 1, n)
  <2>1. SUFFICES ASSUME NEW n \in 0 .. Len(s)
                 PROVE  SubSeq(s \o t, 1, n) = SubSeq(s, 1, n)
    OBVIOUS
  <2>2. CASE n = 0  BY <2>2, SubSeqEmpty
  <2>3. CASE n # 0
    <3>1. n \in 1 .. Len(s) /\ 1 \in 1 .. Len(s)  BY <2>1, <2>3, <1>1
    <3> QED BY <3>1, SubSeqOfConcat1
  <2> QED BY <2>2, <2>3
<1>5. IsPrefix(s, s \o t)  BY <1>1, <1>4 DEF IsPrefix
<1>6. ASSUME IsInjective(s), IsInjective(t), ToSet(s) \cap ToSet(t) = {}
      PROVE  IsInjective(s \o t)
  <2>1. SUFFICES ASSUME NEW i \in 1 .. Len(s) + Len(t), NEW j \in 1 .. Len(s) + Len(t),
                        (s \o t)[i] = (s \o t)[j]
                 PROVE  i = j
    BY <1>1 DEF IsInjective
  <2>2. CASE i \in 1 .. Len(s) /\ j \in 1 .. Len(s)
    BY <2>1, <2>2, <1>1, <1>2, <1>6 DEF IsInjective
  <2>3. ASSUME NEW k \in 1 .. Len(t), NEW m \in 1 .. Len(t), i = Len(s) + k, j = Len(s) + m
        PROVE  i = j
    <3>1. t[k] = t[m]  BY <2>1, <2>3, <1>2
    <3> QED BY <3>1, <2>3, <1>1, <1>6 DEF IsInjective
  <2>4. ASSUME NEW k \in 1 .. Len(s), NEW m \in 1 .. Len(t)
        PROVE  s[k] # t[m]
    BY <1>1, <1>6 DEF ToSet
  <2>5. CASE i \in 1 .. Len(s) /\ j \notin 1 .. Len(s)
    <3>1. PICK m \in 1 .. Len(t) : j = Len(s) + m  BY <2>5, <1>2
    <3>2. (s \o t)[i] = s[i] /\ (s \o t)[j] = t[m]  BY <2>5, <3>1, <1>2
    <3> QED BY <3>2, <2>1, <2>4, <2>5
  <2>6. CASE i \notin 1 .. Len(s) /\ j \in 1 .. Len(s)
    <3>1. PICK k \in 1 .. Len(t) : i = Len(s) + k  BY <2>6, <1>2
    <3>2. (s \o t)[i] = t[k] /\ (s \o t)[j] = s[j]  BY <2>6, <3>1, <1>2
    <3> QED BY <3>2, <2>1, <2>4, <2>6
  <2>7. CASE i \notin 1 .. Len(s) /\ j \notin 1 .. Len(s)
    <3>1. PICK k \in 1 .. Len(t) : i = Len(s) + k  BY <2>7, <1>2
    <3>2. PICK m \in 1 .. Len(t) : j = Len(s) + m  BY <2>7, <1>2
    <3> QED BY <3>1, <3>2, <2>3
  <2> QED BY <2>2, <2>5, <2>6, <2>7
<1> QED BY <1>1, <1>3, <1>4, <1>5, <1>6

\* Two pages that meet are one: what was read and what comes next.
LEMMA NextPage ==
    ASSUME NEW S, NEW s \in Seq(S), NEW n \in 0 .. Len(s), NEW limit \in Nat
    PROVE  LET next == SubSeq(s, 1, n) \o SubSeq(s, n + 1, Least(n + limit, Len(s)))
           IN  next \in Seq(S) /\ Len(next) <= Len(s) /\ next = SubSeq(s, 1, Len(next))
<1> DEFINE k == Least(n + limit, Len(s))
<1>1. Len(s) \in Nat /\ k \in n .. Len(s)  BY LenProperties DEF Least
<1>2. SubSeq(s, 1, n) \o SubSeq(s, n + 1, k) = SubSeq(s, 1, k)
  <2>1. 1 \in 1 .. Len(s) + 1 /\ n \in 1 - 1 .. Len(s)  BY <1>1
  <2> QED BY <2>1, <1>1, ConcatAdjacentSubSeq
<1>3. SubSeq(s, 1, k) \in Seq(S) /\ Len(SubSeq(s, 1, k)) = k
  <2>1. \A i \in 1 .. k : s[i] \in S  BY <1>1, ElementOfSeq
  <2>2. k \in Nat /\ (IF 1 <= k THEN k - 1 + 1 ELSE 0) = k  BY <1>1
  <2> QED BY <2>1, <2>2, SubSeqProperties
<1> QED BY <1>1, <1>2, <1>3, SMTT(30)

----------------------------------------------------------------------------
\* Steps

\* What an action of one object leaves to the others: their calls, and the rows
\* that are in the table.
Elsewhere(r) ==
    \A q \in Repositories \ {r} :
        /\ pc'[q] = pc[q] /\ batch'[q] = batch[q] /\ attempt'[q] = attempt[q]
        /\ row'[q] = row[q] /\ pending'[q] = pending[q]
        /\ total_changes'[q] = total_changes[q]
        /\ changes_before'[q] = changes_before[q]

\* One writer at a time: when a transaction commits, no other is open, so that
\* the calls of the other objects stay as they should be.
LEMMA OthersKept ==
    ASSUME IInv, NEW r \in Repositories, Elsewhere(r),
           \/ table' = table
           \/ pc[r] = "insert" /\ ToSet(table) \subseteq ToSet(table')
    PROVE  \A q \in Repositories \ {r} : SaveOK(q)'
<1>1. SUFFICES ASSUME NEW q \in Repositories \ {r}
               PROVE  SaveOK(q)'
  OBVIOUS
<1>2. SaveOK(q)  BY DEF IInv
<1>3. table' = table \/ (pc[q] # "insert" /\ ToSet(table) \subseteq ToSet(table'))
  BY DEF IInv, TypeOK
<1>4. TransactionOK(q)'
  BY <1>2, <1>3 DEF Elsewhere, SaveOK, TransactionOK
<1>5. OutcomeOK(q)'
  BY <1>2, <1>3 DEF Elsewhere, SaveOK, OutcomeOK
<1>6. AttemptOK(q)'
  BY <1>2 DEF Elsewhere, SaveOK, AttemptOK
<1> QED BY <1>4, <1>5, <1>6 DEF SaveOK

\* What is left to show of an action that does not touch the table.
LEMMA TableKept ==
    ASSUME IInv, UNCHANGED <<table, seen>>, NEW r \in Repositories, Elsewhere(r),
           TypeOK', SaveOK(r)'
    PROVE  IInv'
<1>1. TableOK'  BY DEF IInv, TableOK
<1>2. \A q \in Repositories \ {r} : SaveOK(q)'  BY OthersKept
<1> QED BY <1>1, <1>2 DEF IInv

LEMMA InitIInv == Init => IInv
<1> SUFFICES ASSUME Init PROVE IInv
  OBVIOUS
<1> USE DEF Init
<1>1. <<>> \in Seq(Trades) /\ Len(<<>>) = 0 /\ DOMAIN <<>> = {}
  BY EmptySeq, LenProperties
<1>2. TypeOK
  BY <1>1, TradeRepositoryAssumption DEF TypeOK
<1>3. TableOK
  <2>1. IsInjective(<<>>)  BY <1>1 DEF IsInjective
  <2>2. SubSeq(<<>>, 1, 0) = <<>>  BY SubSeqEmpty
  <2> QED BY <1>1, <2>1, <2>2 DEF TableOK
<1>4. ASSUME NEW r \in Repositories PROVE SaveOK(r)
  BY DEF SaveOK, TransactionOK, OutcomeOK, AttemptOK
<1> QED BY <1>2, <1>3, <1>4 DEF IInv

LEMMA SaveBeginStep ==
    ASSUME IInv, NEW r \in Repositories, SaveBegin(r)
    PROVE  IInv'
<1> USE DEF SaveBegin, Connect
<1>1. Batches \subseteq Seq(Trades) /\ max_retries \in Nat \ {0}
  BY TradeRepositoryAssumption
<1>2. SaveOK(r) /\ pc[r] = "idle" /\ TypeOK  BY DEF IInv
<1>3. TypeOK'
  <2>1. batch' \in [Repositories -> Seq(Trades)]
    <3>1. PICK b \in Batches : batch' = [batch EXCEPT ![r] = b]  OBVIOUS
    <3>2. b \in Seq(Trades)  BY <1>1
    <3> QED BY <3>1, <3>2, <1>2 DEF TypeOK
  <2>2. total_changes' \in [Repositories -> Nat] /\ saves' \in Nat  BY <1>2 DEF TypeOK
  <2>3. /\ pc' \in [Repositories -> {"idle", "attempt", "insert", "committed"}]
        /\ \A q \in Repositories : pc'[q] = "insert" <=> writer' = q
    BY <1>2 DEF TypeOK
  <2> QED BY <2>1, <2>2, <2>3, <1>2 DEF TypeOK
<1>4. Elsewhere(r)  BY <1>2 DEF TypeOK, Elsewhere
<1>5. SaveOK(r)'
  BY <1>1, <1>2 DEF TypeOK, SaveOK, TransactionOK, OutcomeOK, AttemptOK
<1> QED BY <1>3, <1>4, <1>5, TableKept

\* The two ways out of an attempt that failed: another one, or the end.
LEMMA RetryOK ==
    ASSUME TypeOK, NEW r \in Repositories, AttemptOK(r), pc[r] # "idle", Retry(r)
    PROVE  /\ pc' \in [Repositories -> {"idle", "attempt", "insert", "committed"}]
           /\ batch' \in [Repositories -> Seq(Trades)]
           /\ attempt' \in [Repositories -> 0 .. max_retries]
           /\ changes_before' \in [Repositories -> Nat]
           /\ pc'[r] \in {"idle", "attempt"}
           /\ pc'[r] # "idle" => batch'[r] \in Batches /\ attempt'[r] < max_retries
           /\ pc'[r] = "idle" => attempt'[r] = 0
           /\ \A q \in Repositories \ {r} :
                /\ pc'[q] = pc[q] /\ batch'[q] = batch[q] /\ attempt'[q] = attempt[q]
                /\ changes_before'[q] = changes_before[q]
<1>1. max_retries \in Nat \ {0} /\ <<>> \in Seq(Trades)
  BY TradeRepositoryAssumption, EmptySeq
<1>2. CASE attempt[r] + 1 < max_retries
  <2>1. /\ attempt' = [attempt EXCEPT ![r] = attempt[r] + 1]
        /\ pc' = [pc EXCEPT ![r] = "attempt"]
        /\ batch' = batch /\ changes_before' = changes_before
    BY <1>2 DEF Retry
  <2>2. attempt[r] \in Nat /\ attempt[r] + 1 \in 0 .. max_retries
    BY <1>1, <1>2, SMTT(30) DEF TypeOK
  <2>3. attempt' \in [Repositories -> 0 .. max_retries] /\ attempt'[r] = attempt[r] + 1
    BY <2>1, <2>2 DEF TypeOK
  <2>4. \A q \in Repositories \ {r} : pc'[q] = pc[q] /\ attempt'[q] = attempt[q]
    BY <2>1 DEF TypeOK
  <2>5. pc' \in [Repositories -> {"idle", "attempt", "insert", "committed"}] /\ pc'[r] = "attempt"
    BY <2>1 DEF TypeOK
  <2> QED BY <2>1, <2>3, <2>4, <2>5, <1>2 DEF TypeOK, AttemptOK
<1>3. CASE ~ (attempt[r] + 1 < max_retries)
  <2>1. /\ pc' = [pc EXCEPT ![r] = "idle"]
        /\ batch' = [batch EXCEPT ![r] = <<>>] /\ attempt' = [attempt EXCEPT ![r] = 0]
        /\ changes_before' = [changes_before EXCEPT ![r] = 0]
    BY <1>3 DEF Retry, End
  <2>2. 0 \in 0 .. max_retries  BY <1>1
  <2>3. batch' \in [Repositories -> Seq(Trades)]  BY <1>1, <2>1 DEF TypeOK
  <2>4. attempt' \in [Repositories -> 0 .. max_retries] /\ attempt'[r] = 0
    BY <2>1, <2>2 DEF TypeOK
  <2>5. /\ pc' \in [Repositories -> {"idle", "attempt", "insert", "committed"}]
        /\ pc'[r] = "idle" /\ changes_before' \in [Repositories -> Nat]
    BY <2>1 DEF TypeOK
  <2>6. \A q \in Repositories \ {r} :
            /\ pc'[q] = pc[q] /\ batch'[q] = batch[q] /\ attempt'[q] = attempt[q]
            /\ changes_before'[q] = changes_before[q]
    BY <2>1 DEF TypeOK
  <2> QED BY <2>3, <2>4, <2>5, <2>6
<1> QED BY <1>2, <1>3

LEMMA BeginTransactionStep ==
    ASSUME IInv, NEW r \in Repositories, BeginTransaction(r)
    PROVE  IInv'
<1> USE DEF BeginTransaction
<1>1. SaveOK(r) /\ pc[r] = "attempt" /\ TypeOK  BY DEF IInv
<1>2. TypeOK'
  <2>1. /\ pc' \in [Repositories -> {"idle", "attempt", "insert", "committed"}]
        /\ \A q \in Repositories : pc'[q] = "insert" <=> writer' = q
    BY <1>1, TradeRepositoryAssumption DEF TypeOK
  <2>2. changes_before' \in [Repositories -> Nat]  BY <1>1 DEF TypeOK
  <2> QED BY <2>1, <2>2, <1>1 DEF TypeOK
<1>3. Elsewhere(r)  BY <1>1 DEF TypeOK, Elsewhere
<1>4. SaveOK(r)'
  <2>1. pending'[r] = <<>> /\ row'[r] = 0 /\ pc'[r] = "insert" /\ batch'[r] = batch[r]
        /\ Len(batch[r]) \in Nat
    BY <1>1, LenProperties DEF TypeOK, SaveOK, AttemptOK
  <2>2. IsInjective(<<>>) /\ ToSet(<<>>) = {} /\ Len(<<>>) = 0
    BY EmptySeq, LenProperties DEF IsInjective, ToSet
  <2>3. total_changes'[r] = changes_before'[r] /\ total_changes'[r] \in Nat
    BY <1>1 DEF TypeOK
  <2>4. TransactionOK(r)'  BY <2>1, <2>2, <2>3 DEF TransactionOK
  <2>5. OutcomeOK(r)'  BY <2>1 DEF OutcomeOK
  <2>6. AttemptOK(r)'  BY <2>1, <1>1 DEF TypeOK, SaveOK, AttemptOK
  <2> QED BY <2>4, <2>5, <2>6 DEF SaveOK
<1> QED BY <1>2, <1>3, <1>4, TableKept

LEMMA BusyStep ==
    ASSUME IInv, NEW r \in Repositories, Busy(r)
    PROVE  IInv'
<1> USE DEF Busy
<1>1. SaveOK(r) /\ AttemptOK(r) /\ pc[r] = "attempt" /\ TypeOK  BY DEF IInv, SaveOK
<1>2. Retry(r)  OBVIOUS
<1>3. TypeOK'
  <2>1. \A q \in Repositories : pc'[q] = "insert" <=> writer' = q
    <3>1. pc'[r] # "insert" /\ \A q \in Repositories \ {r} : pc'[q] = pc[q]
      BY <1>1, <1>2, RetryOK
    <3>2. writer' = writer /\ \A q \in Repositories : pc[q] = "insert" <=> writer = q
      BY <1>1 DEF TypeOK
    <3> QED BY <3>1, <3>2, <1>1
  <2>2. /\ pc' \in [Repositories -> {"idle", "attempt", "insert", "committed"}]
        /\ batch' \in [Repositories -> Seq(Trades)]
        /\ attempt' \in [Repositories -> 0 .. max_retries]
        /\ changes_before' \in [Repositories -> Nat]
    BY <1>1, <1>2, RetryOK
  <2> QED BY <1>1, <2>1, <2>2 DEF TypeOK
<1>4. Elsewhere(r)  BY <1>1, <1>2, RetryOK DEF Elsewhere
<1>5. SaveOK(r)'
  BY <1>1, <1>2, RetryOK DEF SaveOK, TransactionOK, OutcomeOK, AttemptOK
<1> QED BY <1>3, <1>4, <1>5, TableKept

\* A row that is added is new to the table and to the transaction; one that is
\* skipped is there already, or has a NULL column.
LEMMA InsertRowStep ==
    ASSUME IInv, NEW r \in Repositories, InsertRow(r)
    PROVE  IInv'
<1> DEFINE t == batch[r][row[r] + 1]
<1>1. /\ TypeOK /\ SaveOK(r) /\ TransactionOK(r) /\ AttemptOK(r)
      /\ pc[r] = "insert" /\ row[r] < Len(batch[r])
      /\ t \notin Overflowing
      /\ row' = [row EXCEPT ![r] = @ + 1]
      /\ UNCHANGED <<table, writer, is_closed, pc, batch, attempt, changes_before, saves, seen>>
  BY DEF IInv, SaveOK, InsertRow
<1>2. /\ row[r] \in Nat /\ batch[r] \in Seq(Trades) /\ Len(batch[r]) \in Nat
      /\ pending[r] \in Seq(Trades) /\ Len(pending[r]) \in Nat
      /\ total_changes[r] \in Nat /\ changes_before[r] \in Nat
  BY <1>1, LenProperties DEF TypeOK
<1>3. /\ row[r] + 1 \in 1 .. Len(batch[r])
      /\ t \in Trades /\ t \in ToSet(batch[r])
  <2>1. row[r] + 1 \in 1 .. Len(batch[r])  BY <1>1, <1>2
  <2>2. DOMAIN batch[r] = 1 .. Len(batch[r])  BY <1>2, LenProperties
  <2> QED BY <2>1, <2>2, <1>2, ElementOfSeq DEF ToSet
<1>4. row' \in [Repositories -> Nat] /\ row'[r] = row[r] + 1
  BY <1>1, <1>2 DEF TypeOK
<1>5. \A i \in 1 .. row'[r] : i \in 1 .. row[r] \/ batch[r][i] = t
  BY <1>2, <1>4
<1>6. OutcomeOK(r)' /\ AttemptOK(r)'
  BY <1>1 DEF OutcomeOK, AttemptOK
<1>7. CASE t \in Incomplete \/ IsStored(r, t)
  <2>1. pending' = pending /\ total_changes' = total_changes  BY <1>7 DEF InsertRow
  <2>2. TypeOK'  BY <1>1, <1>4, <2>1 DEF TypeOK
  <2>3. Elsewhere(r)  BY <1>1, <2>1 DEF TypeOK, Elsewhere
  <2>4. row'[r] <= Len(batch[r]) /\ Len(pending[r]) <= row'[r]
    BY <1>1, <1>2, <1>4 DEF TransactionOK
  <2>5. t \in Incomplete \cup ToSet(table) \cup ToSet(pending[r])  BY <1>7 DEF IsStored
  <2>6. TransactionOK(r)'
    BY <1>1, <1>5, <2>1, <2>4, <2>5 DEF TransactionOK
  <2>7. SaveOK(r)'  BY <1>6, <2>6 DEF SaveOK
  <2> QED BY <1>1, <2>2, <2>3, <2>7, TableKept
<1>8. CASE ~ (t \in Incomplete \/ IsStored(r, t))
  <2>1. /\ pending' = [pending EXCEPT ![r] = Append(@, t)]
        /\ total_changes' = [total_changes EXCEPT ![r] = @ + 1]
    BY <1>8 DEF InsertRow
  <2>2. /\ Append(pending[r], t) \in Seq(Trades)
        /\ Len(Append(pending[r], t)) = Len(pending[r]) + 1
        /\ ToSet(Append(pending[r], t)) = ToSet(pending[r]) \cup {t}
        /\ IsInjective(pending[r]) /\ t \notin ToSet(pending[r])
             => IsInjective(Append(pending[r], t))
    BY <1>2, <1>3, AppendProperties, AppendedElement
  <2>3. /\ pending' \in [Repositories -> Seq(Trades)]
        /\ total_changes' \in [Repositories -> Nat]
        /\ pending'[r] = Append(pending[r], t)
        /\ total_changes'[r] = total_changes[r] + 1
    BY <1>1, <1>2, <2>1, <2>2 DEF TypeOK
  <2>4. TypeOK'  BY <1>1, <1>4, <2>3 DEF TypeOK
  <2>5. Elsewhere(r)  BY <1>1, <2>1 DEF TypeOK, Elsewhere
  <2>6. t \notin Incomplete /\ t \notin ToSet(table) /\ t \notin ToSet(pending[r])
    BY <1>8 DEF IsStored
  <2>7. /\ row'[r] <= Len(batch[r]) /\ Len(pending'[r]) <= row'[r]
        /\ total_changes'[r] = changes_before[r] + Len(pending'[r])
    BY <1>1, <1>2, <1>4, <2>2, <2>3, SMTT(30) DEF TransactionOK
  <2>8. /\ IsInjective(pending'[r])
        /\ ToSet(pending'[r]) \subseteq ToSet(batch[r]) \ Incomplete
        /\ ToSet(pending'[r]) \cap ToSet(table) = {}
    BY <1>1, <1>3, <2>2, <2>3, <2>6 DEF TransactionOK
  <2>9. \A i \in 1 .. row'[r] :
            /\ batch[r][i] \notin Overflowing
            /\ batch[r][i] \in Incomplete \cup ToSet(table) \cup ToSet(pending'[r])
    BY <1>1, <1>5, <2>2, <2>3 DEF TransactionOK
  <2>10. TransactionOK(r)'  BY <1>1, <2>7, <2>8, <2>9 DEF TransactionOK
  <2>11. SaveOK(r)'  BY <1>6, <2>10 DEF SaveOK
  <2> QED BY <1>1, <2>4, <2>5, <2>11, TableKept
<1> QED BY <1>7, <1>8

LEMMA FailStep ==
    ASSUME IInv, NEW r \in Repositories, Fail(r)
    PROVE  IInv'
<1> USE DEF Fail, Rollback, End
<1>1. SaveOK(r) /\ pc[r] = "insert" /\ TypeOK /\ <<>> \in Seq(Trades)
      /\ 0 \in 0 .. max_retries
  BY EmptySeq, TradeRepositoryAssumption DEF IInv
<1>2. TypeOK'
  <2>1. /\ pc' \in [Repositories -> {"idle", "attempt", "insert", "committed"}]
        /\ writer' = Nobody
        /\ \A q \in Repositories : pc'[q] = "insert" <=> writer' = q
    BY <1>1, TradeRepositoryAssumption DEF TypeOK
  <2>2. /\ batch' \in [Repositories -> Seq(Trades)]
        /\ pending' \in [Repositories -> Seq(Trades)]
        /\ attempt' \in [Repositories -> 0 .. max_retries]
    BY <1>1 DEF TypeOK
  <2>3. row' \in [Repositories -> Nat] /\ changes_before' \in [Repositories -> Nat]
    BY <1>1 DEF TypeOK
  <2> QED BY <2>1, <2>2, <2>3, <1>1 DEF TypeOK
<1>3. Elsewhere(r)  BY <1>1 DEF TypeOK, Elsewhere
<1>4. SaveOK(r)'
  BY <1>1 DEF TypeOK, SaveOK, TransactionOK, OutcomeOK, AttemptOK
<1> QED BY <1>2, <1>3, <1>4, TableKept

LEMMA CommitBusyStep ==
    ASSUME IInv, NEW r \in Repositories, CommitBusy(r)
    PROVE  IInv'
<1> USE DEF CommitBusy, Rollback
<1>1. SaveOK(r) /\ AttemptOK(r) /\ pc[r] = "insert" /\ TypeOK /\ <<>> \in Seq(Trades)
  BY EmptySeq DEF IInv, SaveOK
<1>2. Retry(r)  OBVIOUS
<1>3. TypeOK'
  <2>1. writer' = Nobody /\ \A q \in Repositories : pc'[q] = "insert" <=> writer' = q
    BY <1>1, <1>2, RetryOK, TradeRepositoryAssumption DEF TypeOK
  <2>2. /\ pc' \in [Repositories -> {"idle", "attempt", "insert", "committed"}]
        /\ batch' \in [Repositories -> Seq(Trades)]
        /\ attempt' \in [Repositories -> 0 .. max_retries]
        /\ changes_before' \in [Repositories -> Nat]
    BY <1>1, <1>2, RetryOK
  <2>3. pending' \in [Repositories -> Seq(Trades)] /\ row' \in [Repositories -> Nat]
    BY <1>1 DEF TypeOK
  <2> QED BY <1>1, <2>1, <2>2, <2>3 DEF TypeOK
<1>4. /\ pending'[r] = <<>> /\ row'[r] = 0
      /\ \A q \in Repositories \ {r} : pending'[q] = pending[q] /\ row'[q] = row[q]
  BY <1>1 DEF TypeOK
<1>5. Elsewhere(r)  BY <1>1, <1>2, <1>4, RetryOK DEF Elsewhere
<1>6. SaveOK(r)'
  BY <1>1, <1>2, <1>4, RetryOK DEF SaveOK, TransactionOK, OutcomeOK, AttemptOK
<1> QED BY <1>3, <1>5, <1>6, TableKept

\* What a commit does to the table: it adds the rows of the transaction, none of
\* them twice, and then the batch is there.
LEMMA Committed ==
    ASSUME IInv, NEW r \in Repositories, Commit(r)
    PROVE  /\ table \in Seq(Trades) /\ pending[r] \in Seq(Trades)
           /\ table' = table \o pending[r] /\ table' \in Seq(Trades)
           /\ batch[r] \in Batches /\ ToSet(batch[r]) \cap Overflowing = {}
           /\ IsPrefix(table, table') /\ Len(table) <= Len(table')
           /\ ToSet(table') = ToSet(table) \cup (ToSet(batch[r]) \ Incomplete)
           /\ IsInjective(table')
<1>1. /\ TypeOK /\ TableOK /\ TransactionOK(r) /\ AttemptOK(r)
      /\ pc[r] = "insert" /\ row[r] = Len(batch[r]) /\ table' = table \o pending[r]
  BY DEF IInv, SaveOK, Commit
<1>2. /\ table \in Seq(Trades) /\ pending[r] \in Seq(Trades)
      /\ DOMAIN batch[r] = 1 .. Len(batch[r])
  BY <1>1, LenProperties DEF TypeOK
<1>3. /\ table \o pending[r] \in Seq(Trades)
      /\ ToSet(table') = ToSet(table) \cup ToSet(pending[r])
      /\ IsPrefix(table, table') /\ Len(table) <= Len(table')
  BY <1>1, <1>2, ConcatProperties, Grown
<1>4. IsInjective(table')
  BY <1>1, <1>2, Grown DEF TableOK, TransactionOK
<1>5. /\ ToSet(batch[r]) \cap Overflowing = {}
      /\ ToSet(batch[r]) \subseteq Incomplete \cup ToSet(table) \cup ToSet(pending[r])
      /\ ToSet(pending[r]) \subseteq ToSet(batch[r]) \ Incomplete
  BY <1>1, <1>2 DEF TransactionOK, ToSet
<1>6. batch[r] \in Batches  BY <1>1 DEF AttemptOK
<1> QED BY <1>1, <1>2, <1>3, <1>4, <1>5, <1>6

LEMMA CommitStep ==
    ASSUME IInv, NEW r \in Repositories, Commit(r)
    PROVE  IInv'
<1>1. /\ TypeOK /\ TableOK /\ SaveOK(r) /\ pc[r] = "insert" /\ row[r] = Len(batch[r])
      /\ pc' = [pc EXCEPT ![r] = "committed"] /\ writer' = Nobody
      /\ UNCHANGED <<is_closed, batch, attempt, row, pending, total_changes, changes_before,
                     saves, seen>>
  BY DEF IInv, Commit
<1>2. TypeOK'
  <2>1. /\ pc' \in [Repositories -> {"idle", "attempt", "insert", "committed"}]
        /\ \A q \in Repositories : pc'[q] = "insert" <=> writer' = q
    BY <1>1, TradeRepositoryAssumption DEF TypeOK
  <2> QED BY <1>1, <2>1, Committed DEF TypeOK
<1>3. Elsewhere(r)  BY <1>1 DEF TypeOK, Elsewhere
<1>4. \A q \in Repositories \ {r} : SaveOK(q)'
  BY <1>1, <1>3, OthersKept, Committed
<1>5. SaveOK(r)'
  <2>1. pc'[r] = "committed"  BY <1>1 DEF TypeOK
  <2>2. OutcomeOK(r)'
    BY <1>1, <2>1, Committed DEF OutcomeOK, SaveOK, TransactionOK
  <2> QED BY <1>1, <2>1, <2>2 DEF SaveOK, TransactionOK, AttemptOK
<1>6. TableOK'
  <2>1. Len(seen) \in 0 .. Len(table)  BY <1>1, LenProperties DEF TypeOK, TableOK
  <2>2. SubSeq(table', 1, Len(seen)) = SubSeq(table, 1, Len(seen))
    BY <2>1, Committed, Grown
  <2>3. Len(seen) <= Len(table')
    <3>1. Len(table) \in Nat /\ Len(table') \in Nat  BY Committed, LenProperties
    <3> QED BY <3>1, <2>1, Committed
  <2> QED BY <1>1, <2>2, <2>3, Committed DEF TableOK
<1> QED BY <1>2, <1>4, <1>5, <1>6 DEF IInv

LEMMA ReturnStep ==
    ASSUME IInv, NEW r \in Repositories, Return(r)
    PROVE  IInv'
<1> USE DEF Return, End
<1>1. SaveOK(r) /\ pc[r] = "committed" /\ TypeOK /\ <<>> \in Seq(Trades)
      /\ 0 \in 0 .. max_retries
  BY EmptySeq, TradeRepositoryAssumption DEF IInv
<1>2. TypeOK'
  <2>1. /\ pc' \in [Repositories -> {"idle", "attempt", "insert", "committed"}]
        /\ \A q \in Repositories : pc'[q] = "insert" <=> writer' = q
    BY <1>1 DEF TypeOK
  <2>2. /\ batch' \in [Repositories -> Seq(Trades)]
        /\ pending' \in [Repositories -> Seq(Trades)]
        /\ attempt' \in [Repositories -> 0 .. max_retries]
    BY <1>1 DEF TypeOK
  <2>3. row' \in [Repositories -> Nat] /\ changes_before' \in [Repositories -> Nat]
    BY <1>1 DEF TypeOK
  <2> QED BY <2>1, <2>2, <2>3, <1>1 DEF TypeOK
<1>3. Elsewhere(r)  BY <1>1 DEF TypeOK, Elsewhere
<1>4. SaveOK(r)'
  BY <1>1 DEF TypeOK, SaveOK, TransactionOK, OutcomeOK, AttemptOK
<1> QED BY <1>2, <1>3, <1>4, TableKept

LEMMA CloseStep ==
    ASSUME IInv, NEW r \in Repositories, Close(r)
    PROVE  IInv'
<1> USE DEF Close, save
<1>1. TypeOK /\ SaveOK(r)  BY DEF IInv
<1>2. TypeOK'  BY <1>1 DEF TypeOK
<1>3. Elsewhere(r)  BY DEF Elsewhere
<1>4. SaveOK(r)'
  BY <1>1 DEF SaveOK, TransactionOK, OutcomeOK, AttemptOK
<1> QED BY <1>2, <1>3, <1>4, TableKept

LEMMA KillStep ==
    ASSUME IInv, NEW r \in Repositories, Kill(r)
    PROVE  IInv'
<1> USE DEF Kill, End
<1>1. SaveOK(r) /\ TypeOK /\ <<>> \in Seq(Trades) /\ 0 \in 0 .. max_retries
  BY EmptySeq, TradeRepositoryAssumption DEF IInv
<1>2. TypeOK'
  <2>1. /\ pc' \in [Repositories -> {"idle", "attempt", "insert", "committed"}]
        /\ writer' \in Repositories \cup {Nobody}
        /\ \A q \in Repositories : pc'[q] = "insert" <=> writer' = q
    BY <1>1, TradeRepositoryAssumption DEF TypeOK
  <2>2. /\ batch' \in [Repositories -> Seq(Trades)]
        /\ pending' \in [Repositories -> Seq(Trades)]
        /\ attempt' \in [Repositories -> 0 .. max_retries]
    BY <1>1 DEF TypeOK
  <2>3. /\ row' \in [Repositories -> Nat] /\ changes_before' \in [Repositories -> Nat]
        /\ total_changes' \in [Repositories -> Nat]
        /\ is_closed' \in [Repositories -> BOOLEAN]
    BY <1>1 DEF TypeOK
  <2> QED BY <2>1, <2>2, <2>3, <1>1 DEF TypeOK
<1>3. Elsewhere(r)  BY <1>1 DEF TypeOK, Elsewhere
<1>4. SaveOK(r)'
  BY <1>1 DEF TypeOK, SaveOK, TransactionOK, OutcomeOK, AttemptOK
<1> QED BY <1>2, <1>3, <1>4, TableKept

LEMMA ReadPageStep ==
    ASSUME IInv, ReadPage
    PROVE  IInv'
<1>1. TypeOK /\ TableOK /\ \A r \in Repositories : SaveOK(r)  BY DEF IInv
<1>2. UNCHANGED <<table, writer, is_closed, pc, batch, attempt, row, pending,
                  total_changes, changes_before, saves>>
  BY DEF ReadPage, save
<1>3. PICK limit \in 1 .. MaxPage : seen' = seen \o get_trades(limit, Len(seen))
  BY DEF ReadPage
<1>4. /\ table \in Seq(Trades) /\ Len(seen) \in 0 .. Len(table)
      /\ limit \in Nat /\ seen = SubSeq(table, 1, Len(seen))
  BY <1>1, LenProperties DEF TypeOK, TableOK
<1>5. seen' \in Seq(Trades) /\ Len(seen') <= Len(table) /\ seen' = SubSeq(table, 1, Len(seen'))
  BY <1>3, <1>4, NextPage DEF get_trades
<1>6. TypeOK' /\ TableOK'  BY <1>1, <1>2, <1>5 DEF TypeOK, TableOK
<1>7. \A r \in Repositories : SaveOK(r)'
  BY <1>1, <1>2 DEF SaveOK, TransactionOK, OutcomeOK, AttemptOK
<1> QED BY <1>6, <1>7 DEF IInv

LEMMA Inductive == IInv /\ [Next]_vars => IInv'
<1> SUFFICES ASSUME IInv, [Next]_vars PROVE IInv'
  OBVIOUS
<1>1. CASE UNCHANGED vars
  BY <1>1 DEF IInv, TypeOK, TableOK, SaveOK, TransactionOK, OutcomeOK, AttemptOK, vars, save
<1>2. CASE ReadPage  BY <1>2, ReadPageStep
<1>3. ASSUME NEW r \in Repositories, SaveBegin(r) \/ Step(r) \/ Close(r) \/ Kill(r)
      PROVE  IInv'
  <2>1. CASE SaveBegin(r)  BY <2>1, SaveBeginStep
  <2>2. CASE Step(r)
    BY <2>2, BeginTransactionStep, BusyStep, InsertRowStep, FailStep, CommitBusyStep,
       CommitStep, ReturnStep DEF Step
  <2>3. CASE Close(r)  BY <2>3, CloseStep
  <2>4. CASE Kill(r)  BY <2>4, KillStep
  <2> QED BY <1>3, <2>1, <2>2, <2>3, <2>4
<1> QED BY <1>1, <1>2, <1>3 DEF Next

----------------------------------------------------------------------------
\* Theorems

\* The inductive invariant holds in every reachable state.
THEOREM Invariant == Spec => []IInv
<1> QED BY InitIInv, Inductive, PTL DEF Spec

\* Type correctness: and the write lock is always held by the one open transaction.
THEOREM TypeCorrect == Spec => []TypeOK
<1>1. IInv => TypeOK  BY DEF IInv
<1> QED BY <1>1, Invariant, PTL

\* save_trades_batch inserted what it says, and its batch is in the table, after
\* any failed attempts, reopened connections and saves of other processes.
THEOREM Reports == Spec => []ReportsAreTrue
<1>1. IInv => ReportsAreTrue
  <2>1. SUFFICES ASSUME IInv, NEW r \in Repositories, pc[r] = "committed"
                 PROVE  /\ Inserted(r) = Len(pending[r])
                        /\ Duplicates(r) \in 0 .. Len(batch[r])
                        /\ ToSet(batch[r]) \subseteq ToSet(table) \cup Incomplete
    BY DEF ReportsAreTrue
  <2>2. /\ Len(pending[r]) \in Nat /\ Len(batch[r]) \in Nat
        /\ total_changes[r] \in Nat /\ changes_before[r] \in Nat
    BY <2>1, LenProperties DEF IInv, TypeOK
  <2>3. OutcomeOK(r)  BY <2>1 DEF IInv, SaveOK
  <2> QED BY <2>1, <2>2, <2>3 DEF OutcomeOK, Inserted, Duplicates
<1> QED BY <1>1, Invariant, PTL

\* get_trades pages through the table without skipping or repeating a row, and
\* get_latest_trades is its last page, in the same order.
THEOREM Pages == Spec => []PagesAreStable
<1>1. IInv => PagesAreStable
  <2>1. SUFFICES ASSUME IInv, NEW n \in 0 .. MaxPage, n <= get_trade_count
                 PROVE  get_latest_trades(n) = get_trades(n, get_trade_count - n)
    BY DEF PagesAreStable, IInv, TableOK
  <2> DEFINE L == Len(table)
             descending == Reverse(table)
             newest == SubSeq(descending, 1, n)
  <2>2. table \in Seq(Trades) /\ L \in Nat /\ n \in 0 .. L
    BY <2>1, LenProperties DEF IInv, TypeOK, get_trade_count
  <2>3. /\ Least(n, L) = n /\ Least((L - n) + n, L) = L
    BY <2>2 DEF Least
  <2>4. \A i \in 1 .. L : descending[i] = table[(L - i) + 1] /\ descending[i] \in Trades
    BY <2>2, ElementOfSeq DEF Reverse
  <2>5. /\ newest \in Seq(Trades) /\ Len(newest) = n
        /\ \A i \in 1 .. n : newest[i] = table[(L - i) + 1]
    <3>1. \A i \in 1 .. n : descending[i] \in Trades /\ i \in 1 .. L  BY <2>2, <2>4
    <3>2. (IF 1 <= n THEN n - 1 + 1 ELSE 0) = n /\ \A i \in 1 .. n : 1 + i - 1 = i
          /\ n - 1 + 1 = n
      BY <2>2
    <3>3. /\ newest \in Seq(Trades)
          /\ Len(newest) = IF 1 <= n THEN n - 1 + 1 ELSE 0
          /\ \A i \in 1 .. n - 1 + 1 : newest[i] = descending[1 + i - 1]
      BY <3>1, <2>2, SubSeqProperties
    <3> QED BY <3>1, <3>2, <3>3, <2>4
  <2>6. /\ Reverse(newest) \in Seq(Trades) /\ Len(Reverse(newest)) = n
        /\ \A i \in 1 .. n : Reverse(newest)[i] = table[(L - n) + i]
    <3>1. \A i \in 1 .. n : (n - i) + 1 \in 1 .. n /\ (L - ((n - i) + 1)) + 1 = (L - n) + i
      BY <2>2
    <3>2. \A i \in 1 .. n : newest[(n - i) + 1] = table[(L - n) + i]  BY <3>1, <2>5
    <3>3. Reverse(newest) = [i \in 1 .. n |-> newest[(n - i) + 1]]  BY <2>5 DEF Reverse
    <3>4. \A i \in 1 .. n : newest[(n - i) + 1] \in Trades  BY <3>1, <2>5, ElementOfSeq
    <3>5. Reverse(newest) \in [1 .. n -> Trades]
      <4> HIDE DEF newest
      <4> QED BY <3>3, <3>4
    <3> QED BY <2>2, <3>2, <3>3, <3>5, SeqDef, SMTT(30)
  <2> DEFINE page == SubSeq(table, (L - n) + 1, L)
  <2>7. /\ page \in Seq(Trades) /\ Len(page) = n
        /\ \A i \in 1 .. n : page[i] = table[(L - n) + i]
    <3>1. \A i \in (L - n) + 1 .. L : table[i] \in Trades
      <4>1. \A i \in (L - n) + 1 .. L : i \in 1 .. L  BY <2>2
      <4> QED BY <4>1, <2>2, ElementOfSeq
    <3>2. /\ (L - n) + 1 \in Int /\ L \in Int
          /\ (IF (L - n) + 1 <= L THEN L - ((L - n) + 1) + 1 ELSE 0) = n
          /\ L - ((L - n) + 1) + 1 = n
          /\ \A i \in 1 .. n : (L - n) + 1 + i - 1 = (L - n) + i
      BY <2>2
    <3>3. /\ page \in Seq(Trades)
          /\ Len(page) = IF (L - n) + 1 <= L THEN L - ((L - n) + 1) + 1 ELSE 0
          /\ \A i \in 1 .. L - ((L - n) + 1) + 1 : page[i] = table[(L - n) + 1 + i - 1]
      BY <3>1, <3>2, SubSeqProperties
    <3> QED BY <3>2, <3>3
  <2>8. Reverse(newest) = page
    <3>1. \A i \in 1 .. n : Reverse(newest)[i] = page[i]  BY <2>6, <2>7
    <3> QED BY <3>1, <2>6, <2>7, SeqEqual
  <2> QED BY <2>3, <2>8 DEF get_latest_trades, get_trades, get_trade_count
<1> QED BY <1>1, Invariant, PTL

\* The table is the ledger that BaseTradeRepository promises: a commit appends
\* what is new in one whole batch, and nothing else changes it.
THEOREM Implements == Spec => ImplementsLedger
<1>1. Init => Ledger!LedgerInit
  BY DEF Init, Ledger!LedgerInit
<1>2. IInv /\ [Next]_vars => [Ledger!AppendBatch]_table
  <2> SUFFICES ASSUME IInv, [Next]_vars PROVE [Ledger!AppendBatch]_table
    OBVIOUS
  <2>1. ASSUME NEW r \in Repositories, Commit(r) PROVE Ledger!AppendBatch
    <3>1. Ledger!Extends(table, table', batch[r])
      BY <2>1, Committed DEF Ledger!Extends, Ledger!IsPrefix, Ledger!ToSet, Ledger!IsInjective,
                             IsPrefix, ToSet, IsInjective
    <3>2. batch[r] \in Batches /\ Ledger!ToSet(batch[r]) \cap Overflowing = {}
      BY <2>1, Committed DEF Ledger!ToSet, ToSet
    <3> QED BY <3>1, <3>2 DEF Ledger!AppendBatch
  <2>2. CASE UNCHANGED vars  BY <2>2 DEF vars
  <2>3. CASE ReadPage  BY <2>3 DEF ReadPage
  <2>4. ASSUME NEW r \in Repositories, ~ Commit(r),
               SaveBegin(r) \/ Step(r) \/ Close(r) \/ Kill(r)
        PROVE  table' = table
    BY <2>4 DEF Step, SaveBegin, BeginTransaction, Busy, InsertRow, Fail, CommitBusy,
                Return, Close, Kill
  <2> QED BY <2>1, <2>2, <2>3, <2>4 DEF Next
<1> QED BY <1>1, <1>2, Invariant, PTL DEF Spec, ImplementsLedger, Ledger!LedgerSpec
============================================================================

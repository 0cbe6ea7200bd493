------------------------- MODULE WhaleMonitorProofs -------------------------
(***************************************************************************)
(* The monitor hands every trade of its engine to the persistence worker   *)
(* once and in order: for orders of any price and quantity, any market,    *)
(* queues of any capacity, and any number of calls, failures and resets.   *)
(* It reports a sweep for exactly the orders that made one.                *)
(***************************************************************************)
EXTENDS WhaleMonitor, SequenceTheorems, FiniteSetTheorems, WellFoundedInduction, TLAPS

----------------------------------------------------------------------------
\* The inductive invariant

OrderTypes == [order_id: Nat, side: {BUY, SELL}, price: Nat, quantity: Nat, timestamp: Nat]
TradeTypes == [buy_id: Nat, sell_id: Nat, price: Nat, qty: Nat]

FlowTypes ==
    /\ resting \subseteq OrderTypes /\ incoming \in OrderTypes /\ tape \in Seq(TradeTypes)
    /\ pc \in {"idle", "submit", "engine", "sync"}
    /\ next \in Nat /\ last_processed \in Nat /\ order_count \in Nat /\ generation \in Nat
    /\ queue \in Seq(Nat \X Nat) /\ popped \in Seq(Nat \X Nat)
    /\ evicted \subseteq Nat \X Nat

\* The sync works its way from the last one's end to the end of the tape, and only
\* a call that raised leaves trades behind.
SyncFollowsTape ==
    /\ last_processed <= Len(tape)
    /\ pc = "sync" => last_processed < next /\ next <= Len(tape) + 1
    /\ pc = "idle" /\ order_count \notin raised => last_processed = Len(tape)

\* Where the sync has got to.
Passed == IF pc = "sync" THEN next - 1 ELSE last_processed

Elems(s) == {s[i] : i \in 1 .. Len(s)}

InTapeOrder(s) == \A i, j \in 1 .. Len(s) : i < j => Earlier(s[i], s[j])

\* What was popped came before what is queued, and both are in order.
FlowInOrder ==
    /\ InTapeOrder(popped) /\ InTapeOrder(queue)
    /\ \A e \in Elems(popped), f \in Elems(queue) : Earlier(e, f)

\* A trade of an older engine is not in the queue, and one of a later engine
\* nowhere; those of this engine are where they have got to.
FlowComplete ==
    /\ \A e \in Elems(popped) : e[1] <= generation
    /\ \A e \in Elems(queue) : e[1] = generation
    /\ \A e \in Nat \X Nat :
          e[1] = generation =>
            (1 <= e[2] /\ e[2] <= Passed
               <=> e \in Elems(popped) \/ e \in Elems(queue) \/ e \in evicted)
    /\ \A e \in evicted : e[1] = generation /\ e \notin Elems(popped) /\ e \notin Elems(queue)

IInv == FlowTypes /\ SyncFollowsTape /\ FlowInOrder /\ FlowComplete

----------------------------------------------------------------------------
\* Lemmas about the operators

LEMMA Indices ==
    ASSUME NEW S, NEW s \in Seq(S)
    PROVE  /\ Len(s) \in Nat
           /\ \A i \in 1 .. Len(s) : s[i] \in S /\ s[i] \in Elems(s)
           /\ \A e \in Elems(s) : e \in S /\ \E i \in 1 .. Len(s) : e = s[i]
BY LenProperties, ElementOfSeq DEF Elems

LEMMA EarlierIsAnOrder ==
    ASSUME NEW a \in Nat \X Nat, NEW b \in Nat \X Nat
    PROVE  Earlier(a, b) => a # b /\ ~ Earlier(b, a)
BY DEF Earlier

LEMMA AppendedInOrder ==
    ASSUME NEW s \in Seq(Nat \X Nat), NEW e \in Nat \X Nat, InTapeOrder(s),
           \A f \in Elems(s) : Earlier(f, e)
    PROVE  InTapeOrder(Append(s, e)) /\ Elems(Append(s, e)) = Elems(s) \cup {e}
<1> DEFINE t == Append(s, e)
<1>1. /\ Len(t) = Len(s) + 1 /\ Len(s) \in Nat /\ t[Len(s) + 1] = e
      /\ \A i \in 1 .. Len(s) : t[i] = s[i] /\ s[i] \in Elems(s)
  BY AppendProperties, Indices
<1> HIDE DEF t
<1>2. \A i \in 1 .. Len(t) : i \in 1 .. Len(s) \/ i = Len(s) + 1  BY <1>1
<1>3. InTapeOrder(t)
  <2> SUFFICES ASSUME NEW i \in 1 .. Len(t), NEW j \in 1 .. Len(t), i < j
               PROVE  Earlier(t[i], t[j])
    BY DEF InTapeOrder
  <2>1. i \in 1 .. Len(s)  BY <1>1
  <2>2. CASE j \in 1 .. Len(s)  BY <1>1, <2>1, <2>2 DEF InTapeOrder
  <2>3. CASE j = Len(s) + 1  BY <1>1, <2>1, <2>3
  <2> QED BY <1>2, <2>2, <2>3
<1>4. Elems(t) = Elems(s) \cup {e}
  <2>1. Elems(t) \subseteq Elems(s) \cup {e}  BY <1>1, <1>2, ZenonT(60) DEF Elems
  <2>2. \A i \in 1 .. Len(s) : i \in 1 .. Len(t)  BY <1>1
  <2>3. Len(s) + 1 \in 1 .. Len(t)  BY <1>1
  <2>4. Elems(s) \subseteq Elems(t)  BY <1>1, <2>2 DEF Elems
  <2>5. e \in Elems(t)  BY <1>1, <2>3 DEF Elems
  <2> QED BY <2>1, <2>4, <2>5
<1> QED BY <1>3, <1>4 DEF t

\* Dropping the first: it is before all others.
LEMMA TailInOrder ==
    ASSUME NEW s \in Seq(Nat \X Nat), s # <<>>, InTapeOrder(s)
    PROVE  /\ Tail(s) \in Seq(Nat \X Nat) /\ InTapeOrder(Tail(s))
           /\ Head(s) \in Elems(s) /\ Elems(Tail(s)) = Elems(s) \ {Head(s)}
<1> DEFINE t == Tail(s)
<1>1. /\ t \in Seq(Nat \X Nat) /\ Len(t) = Len(s) - 1 /\ Head(s) = s[1]
      /\ \A i \in 1 .. Len(s) - 1 : t[i] = s[i + 1]
  BY HeadTailProperties
<1>2. /\ Len(s) \in Nat /\ 1 \in 1 .. Len(s)
      /\ \A i \in 1 .. Len(s) : s[i] \in Nat \X Nat /\ s[i] \in Elems(s)
  <2>1. Len(s) \in Nat /\ Len(s) # 0  BY LenProperties, EmptySeq
  <2> QED BY <2>1, Indices
<1> HIDE DEF t
<1>3. \A i \in 1 .. Len(t) : i + 1 \in 2 .. Len(s) /\ i + 1 \in 1 .. Len(s)  BY <1>1, <1>2
<1>4. InTapeOrder(t)
  <2>1. \A i, j \in 1 .. Len(t) : i < j => i + 1 < j + 1  BY <1>1, <1>2
  <2>2. \A i \in 1 .. Len(t) : t[i] = s[i + 1]  BY <1>1
  <2> QED BY <1>3, <2>1, <2>2 DEF InTapeOrder
<1>5. \A j \in 2 .. Len(s) : s[j] # s[1]
  <2> TAKE j \in 2 .. Len(s)
  <2>1. j \in 1 .. Len(s) /\ 1 < j  BY <1>2
  <2>2. Earlier(s[1], s[j])  BY <1>2, <2>1 DEF InTapeOrder
  <2> QED BY <1>2, <2>1, <2>2, EarlierIsAnOrder
<1>6. ASSUME NEW e \in Elems(t) PROVE e \in Elems(s) \ {s[1]}
  <2>1. PICK i \in 1 .. Len(t) : e = t[i]  BY DEF Elems
  <2>2. e = s[i + 1]  BY <1>1, <2>1
  <2> QED BY <1>2, <1>3, <1>5, <2>1, <2>2
<1>7. ASSUME NEW e \in Elems(s) \ {s[1]} PROVE e \in Elems(t)
  <2>1. PICK j \in 1 .. Len(s) : e = s[j]  BY DEF Elems
  <2>2. j # 1  BY <2>1
  <2>3. j - 1 \in 1 .. Len(t) /\ (j - 1) + 1 = j  BY <1>1, <1>2, <2>2
  <2>4. t[j - 1] = e  BY <1>1, <2>1, <2>3
  <2> QED BY <2>3, <2>4 DEF Elems
<1> QED BY <1>1, <1>2, <1>4, <1>6, <1>7 DEF t

\* Two sequences in order, the second after the first.
LEMMA ConcatInOrder ==
    ASSUME NEW p \in Seq(Nat \X Nat), NEW s \in Seq(Nat \X Nat),
           InTapeOrder(p), InTapeOrder(s),
           \A e \in Elems(p), f \in Elems(s) : Earlier(e, f)
    PROVE  /\ p \o s \in Seq(Nat \X Nat) /\ InTapeOrder(p \o s)
           /\ Elems(p \o s) = Elems(p) \cup Elems(s)
<1> DEFINE c == p \o s
<1>1. /\ c \in Seq(Nat \X Nat) /\ Len(c) = Len(p) + Len(s)
      /\ Len(p) \in Nat /\ Len(s) \in Nat
      /\ \A i \in 1 .. Len(p) + Len(s) : c[i] = IF i <= Len(p) THEN p[i] ELSE s[i - Len(p)]
      /\ \A i \in 1 .. Len(p) : p[i] \in Elems(p)
      /\ \A i \in 1 .. Len(s) : s[i] \in Elems(s)
  BY ConcatProperties, Indices
<1> HIDE DEF c
<1>0. Len(p) \in Nat /\ Len(s) \in Nat /\ Len(c) = Len(p) + Len(s)  BY <1>1
<1>2. ASSUME NEW i \in 1 .. Len(c)
      PROVE  \/ i \in 1 .. Len(p) /\ i <= Len(p) /\ c[i] = p[i]
             \/ i > Len(p) /\ i - Len(p) \in 1 .. Len(s) /\ c[i] = s[i - Len(p)]
  <2>1. \/ i \in 1 .. Len(p) /\ i <= Len(p)
        \/ ~ (i <= Len(p)) /\ i > Len(p) /\ i - Len(p) \in 1 .. Len(s)
    BY <1>0
  <2>2. c[i] = IF i <= Len(p) THEN p[i] ELSE s[i - Len(p)]  BY <1>1
  <2> QED BY <2>1, <2>2
<1>3. InTapeOrder(c)
  <2> SUFFICES ASSUME NEW i \in 1 .. Len(c), NEW j \in 1 .. Len(c), i < j
               PROVE  Earlier(c[i], c[j])
    BY DEF InTapeOrder
  <2>1. CASE j \in 1 .. Len(p)
    <3>1. i \in 1 .. Len(p) /\ ~ (i > Len(p)) /\ ~ (j > Len(p))  BY <1>0, <2>1, SMTT(30)
    <3>2. c[i] = p[i] /\ c[j] = p[j]  BY <1>2, <3>1
    <3> QED BY <2>1, <3>1, <3>2 DEF InTapeOrder
  <2>2. CASE i \in 1 .. Len(p) /\ j \notin 1 .. Len(p)
    <3>1. c[i] = p[i]
      <4>1. ~ (i > Len(p))  BY <1>0, <2>2
      <4> QED BY <1>2, <4>1
    <3>2. j - Len(p) \in 1 .. Len(s) /\ c[j] = s[j - Len(p)]  BY <1>2, <2>2
    <3> QED BY <1>1, <2>2, <3>1, <3>2
  <2>3. CASE i \notin 1 .. Len(p)
    <3>1. i - Len(p) \in 1 .. Len(s) /\ c[i] = s[i - Len(p)] /\ i > Len(p)  BY <1>2, <2>3
    <3>2. j > Len(p) /\ i - Len(p) < j - Len(p) /\ ~ (j <= Len(p))  BY <1>0, <3>1, SMTT(30)
    <3>3. j - Len(p) \in 1 .. Len(s) /\ c[j] = s[j - Len(p)]  BY <1>2, <3>2
    <3> QED BY <3>1, <3>2, <3>3 DEF InTapeOrder
  <2> QED BY <2>1, <2>2, <2>3
<1>4. Elems(c) \subseteq Elems(p) \cup Elems(s)
  <2> SUFFICES ASSUME NEW i \in 1 .. Len(c) PROVE c[i] \in Elems(p) \cup Elems(s)
    BY DEF Elems
  <2> QED BY <1>1, <1>2
<1>5. Elems(p) \subseteq Elems(c)
  <2> SUFFICES ASSUME NEW i \in 1 .. Len(p) PROVE p[i] \in Elems(c)
    BY DEF Elems
  <2>1. i \in 1 .. Len(c) /\ ~ (i > Len(p))  BY <1>0
  <2>2. c[i] = p[i]  BY <1>2, <2>1
  <2> QED BY <2>1, <2>2 DEF Elems
<1>6. Elems(s) \subseteq Elems(c)
  <2> SUFFICES ASSUME NEW i \in 1 .. Len(s) PROVE s[i] \in Elems(c)
    BY DEF Elems
  <2>1. Len(p) + i \in 1 .. Len(c) /\ ~ (Len(p) + i <= Len(p))
        /\ (Len(p) + i) - Len(p) = i
    BY <1>0
  <2>2. Len(p) + i \in 1 .. Len(c) /\ c[Len(p) + i] = s[i]  BY <1>2, <2>1
  <2> QED BY <2>2 DEF Elems
<1> QED BY <1>1, <1>3, <1>4, <1>5, <1>6 DEF c

\* The first n and the rest.
LEMMA SplitInOrder ==
    ASSUME NEW s \in Seq(Nat \X Nat), InTapeOrder(s), NEW n \in 1 .. Len(s)
    PROVE  LET front == SubSeq(s, 1, n)
               back  == SubSeq(s, n + 1, Len(s))
           IN  /\ front \in Seq(Nat \X Nat) /\ back \in Seq(Nat \X Nat)
               /\ InTapeOrder(front) /\ InTapeOrder(back)
               /\ \A e \in Elems(front), f \in Elems(back) : Earlier(e, f)
               /\ Elems(s) = Elems(front) \cup Elems(back)
<1> DEFINE front == SubSeq(s, 1, n)
           back  == SubSeq(s, n + 1, Len(s))
<1>0. Len(s) \in Nat  BY LenProperties
<1>1. Len(s) \in Nat /\ \A i \in 1 .. Len(s) : s[i] \in Nat \X Nat
  BY LenProperties, ElementOfSeq
<1>2. /\ front \in Seq(Nat \X Nat) /\ Len(front) = n
      /\ \A i \in 1 .. n : front[i] = s[i]
  <2>1. 1 \in Int /\ n \in Int /\ \A i \in 1 .. n : s[i] \in Nat \X Nat  BY <1>1
  <2> QED BY <1>1, <2>1, SubSeqProperties
<1>3. /\ back \in Seq(Nat \X Nat) /\ Len(back) = Len(s) - n
      /\ \A i \in 1 .. Len(s) - n : back[i] = s[n + i]
  <2>1. n + 1 \in Int /\ Len(s) \in Int /\ \A i \in n + 1 .. Len(s) : s[i] \in Nat \X Nat
    BY <1>1
  <2>2. /\ back \in Seq(Nat \X Nat)
        /\ Len(back) = IF n + 1 <= Len(s) THEN Len(s) - (n + 1) + 1 ELSE 0
        /\ \A i \in 1 .. Len(s) - (n + 1) + 1 : back[i] = s[(n + 1) + i - 1]
    BY <2>1, SubSeqProperties, SMTT(30)
  <2>3. Len(s) - (n + 1) + 1 = Len(s) - n /\ \A i \in Int : (n + 1) + i - 1 = n + i
    BY <1>0
  <2>4. ~ (n + 1 <= Len(s)) => Len(s) - n = 0  BY <1>0
  <2> HIDE DEF back
  <2>5. Len(back) = Len(s) - n  BY <2>2, <2>3, <2>4
  <2>6. \A i \in 1 .. Len(s) - n : back[i] = s[n + i]
    <3> TAKE i \in 1 .. Len(s) - n
    <3>1. i \in 1 .. Len(s) - (n + 1) + 1 /\ i \in Int  BY <2>3
    <3>2. back[i] = s[(n + 1) + i - 1]  BY <2>2, <3>1
    <3>3. (n + 1) + i - 1 = n + i  BY <2>3, <3>1
    <3> QED BY <3>2, <3>3
  <2> QED BY <2>2, <2>5, <2>6
<1> HIDE DEF front, back
<1>4. InTapeOrder(front)
  <2>1. \A i \in 1 .. n : i \in 1 .. Len(s)  BY <1>1
  <2> QED BY <1>2, <2>1 DEF InTapeOrder
<1>5. InTapeOrder(back)
  <2>1. /\ \A i \in 1 .. Len(s) - n : n + i \in 1 .. Len(s)
        /\ \A i, j \in 1 .. Len(s) - n : i < j => n + i < n + j
    BY <1>1
  <2> QED BY <1>3, <2>1 DEF InTapeOrder
<1>6. ASSUME NEW e \in Elems(front), NEW f \in Elems(back)
      PROVE  Earlier(e, f) /\ e \in Elems(s) /\ f \in Elems(s)
  <2>1. PICK i \in 1 .. n : e = s[i]  BY <1>2 DEF Elems
  <2>2. PICK j \in 1 .. Len(s) - n : f = s[n + j]  BY <1>3 DEF Elems
  <2>3. i \in 1 .. Len(s) /\ n + j \in 1 .. Len(s) /\ i < n + j  BY <1>0, SMTT(30)
  <2> QED BY <2>1, <2>2, <2>3 DEF InTapeOrder, Elems
<1>7. Elems(s) \subseteq Elems(front) \cup Elems(back)
  <2> SUFFICES ASSUME NEW i \in 1 .. Len(s) PROVE s[i] \in Elems(front) \cup Elems(back)
    BY DEF Elems
  <2>1. CASE i <= n
    <3>1. i \in 1 .. n  BY <2>1
    <3> QED BY <1>2, <3>1 DEF Elems
  <2>2. CASE ~ (i <= n)
    <3>1. i - n \in 1 .. Len(s) - n /\ n + (i - n) = i  BY <1>1, <2>2, SMTT(30)
    <3> QED BY <1>3, <3>1 DEF Elems
  <2> QED BY <2>1, <2>2
<1>8. Elems(front) \subseteq Elems(s) /\ Elems(back) \subseteq Elems(s)
  <2>1. \A i \in 1 .. n : i \in 1 .. Len(s)  BY <1>0
  <2>2. \A i \in 1 .. Len(s) - n : n + i \in 1 .. Len(s)  BY <1>0
  <2>3. Elems(front) \subseteq Elems(s)  BY <1>2, <2>1 DEF Elems
  <2>4. Elems(back) \subseteq Elems(s)  BY <1>3, <2>2 DEF Elems
  <2> QED BY <2>3, <2>4
<1> QED BY <1>2, <1>3, <1>4, <1>5, <1>6, <1>7, <1>8 DEF front, back

----------------------------------------------------------------------------
\* Types

\* What is submitted is an order, and what the market does with it keeps the types.
LEMMA SubmitTypes ==
    ASSUME FlowTypes, SubmitOrder PROVE FlowTypes'
<1>1. PICK side \in {BUY, SELL}, price \in Prices, quantity \in Quantities :
        LET o == [order_id |-> order_count + 1, side |-> side, price |-> price,
                  quantity |-> quantity, timestamp |-> 0]
        IN  \/ incoming' = o /\ Arrive /\ pc' = "engine"
            \/ pc' = "idle" /\ UNCHANGED marketVars
  BY DEF SubmitOrder
<1>2. price \in Nat /\ quantity \in Nat  BY WhaleMonitorAssumption
<1>3. /\ order_count' = order_count + 1
      /\ UNCHANGED <<next, last_processed, queue, evicted, popped, generation>>
  BY DEF SubmitOrder, flow
<1>4. /\ resting' = resting /\ tape' = tape /\ pc' \in {"engine", "idle"}
      /\ incoming' \in OrderTypes
  <2>1. order_count + 1 \in Nat  BY DEF FlowTypes
  <2>2. [order_id |-> order_count + 1, side |-> side, price |-> price,
         quantity |-> quantity, timestamp |-> 0] \in OrderTypes
    BY <1>2, <2>1 DEF OrderTypes
  <2> QED BY <1>1, <2>2 DEF Arrive, marketVars, FlowTypes
<1> QED BY <1>3, <1>4 DEF FlowTypes

LEMMA TradeTypesKept ==
    ASSUME FlowTypes, Trade
    PROVE  /\ resting' \subseteq OrderTypes /\ incoming' \in OrderTypes
           /\ tape' \in Seq(TradeTypes) /\ Len(tape') = Len(tape) + 1
<1> DEFINE q(r)    == Lesser(incoming.quantity, r.quantity)
           rest(r) == [r EXCEPT !.quantity = @ - q(r)]
<1>1. PICK r \in Candidates :
        /\ tape' = Append(tape, TradeOf(incoming, r, q(r)))
        /\ incoming' = [incoming EXCEPT !.quantity = @ - q(r)]
        /\ resting' = (resting \ {r}) \cup (IF rest(r).quantity > 0 THEN {rest(r)} ELSE {})
  BY DEF Trade
<1>2. r \in OrderTypes /\ incoming \in OrderTypes /\ resting \subseteq OrderTypes
  BY DEF Candidates, FlowTypes
<1>3. r.quantity \in Nat /\ incoming.quantity \in Nat  BY <1>2 DEF OrderTypes
<1> DEFINE n == q(r)
<1>4. /\ n \in Nat /\ r.quantity - n \in Nat /\ incoming.quantity - n \in Nat
  BY <1>3 DEF Lesser
<1>5. /\ tape' = Append(tape, TradeOf(incoming, r, n))
      /\ incoming' = [incoming EXCEPT !.quantity = incoming.quantity - n]
      /\ resting' \subseteq resting \cup {[r EXCEPT !.quantity = r.quantity - n]}
  BY <1>1
<1> HIDE DEF n
<1>6. TradeOf(incoming, r, n) \in TradeTypes
  BY <1>2, <1>4 DEF TradeOf, TradeTypes, OrderTypes
<1>7. [r EXCEPT !.quantity = r.quantity - n] \in OrderTypes  BY <1>2, <1>4 DEF OrderTypes
<1>8. incoming' \in OrderTypes  BY <1>2, <1>4, <1>5 DEF OrderTypes
<1>9. tape' \in Seq(TradeTypes) /\ Len(tape') = Len(tape) + 1
  BY <1>5, <1>6, AppendProperties DEF FlowTypes
<1> QED BY <1>2, <1>5, <1>7, <1>8, <1>9

\* The calls of the monitor before the sync: they end with the tape as long as it
\* was or longer, and touch neither the queue nor the index.
LEMMA CallSteps ==
    ASSUME IInv, BeginCall \/ SubmitOrder \/ EngineTrades \/ EngineRaises \/ EngineReturns
    PROVE  /\ FlowTypes' /\ SyncFollowsTape'
           /\ UNCHANGED <<queue, popped, evicted, generation>> /\ Passed' = Passed
<1>0. /\ Len(tape) \in Nat /\ last_processed \in Nat /\ order_count \in Nat
      /\ last_processed <= Len(tape) /\ FlowTypes
  BY LenProperties DEF IInv, FlowTypes, SyncFollowsTape
<1>1. CASE BeginCall
  <2>1. /\ pc = "idle" /\ pc' = "submit"
        /\ UNCHANGED <<resting, incoming, tape, next, last_processed, raised, order_count,
                       queue, popped, evicted, generation>>
    BY <1>1 DEF BeginCall, marketVars, reports, flow, counts
  <2> QED BY <1>0, <2>1 DEF FlowTypes, SyncFollowsTape, Passed
<1>2. CASE SubmitOrder
  <2>1. /\ pc = "submit" /\ order_count' = order_count + 1
        /\ UNCHANGED <<next, last_processed, queue, evicted, popped, generation>>
    BY <1>2 DEF SubmitOrder, flow
  <2>2. /\ tape' = tape
        /\ pc' = "engine" \/ (pc' = "idle" /\ order_count + 1 \in raised')
    BY <1>2 DEF SubmitOrder, Arrive, marketVars
  <2> QED BY <1>0, <1>2, <2>1, <2>2, SubmitTypes DEF SyncFollowsTape, Passed
<1>3. CASE EngineTrades
  <2>1. /\ pc = "engine" /\ Trade
        /\ UNCHANGED <<pc, next, last_processed, raised, order_count,
                       queue, popped, evicted, generation>>
    BY <1>3 DEF EngineTrades, call, reports, flow, counts
  <2>2. /\ resting' \subseteq OrderTypes /\ incoming' \in OrderTypes
        /\ tape' \in Seq(TradeTypes) /\ Len(tape') = Len(tape) + 1
    BY <1>0, <2>1, TradeTypesKept
  <2>3. FlowTypes'  BY <1>0, <2>1, <2>2 DEF FlowTypes
  <2> QED BY <1>0, <2>1, <2>2, <2>3 DEF SyncFollowsTape, Passed
<1>4. CASE EngineRaises
  <2>1. /\ pc = "engine" /\ pc' = "idle" /\ order_count \in raised'
        /\ incoming' = NoOrder
        /\ UNCHANGED <<resting, tape, next, last_processed, order_count,
                       queue, popped, evicted, generation>>
    BY <1>4 DEF EngineRaises, Abort, flow, counts
  <2>2. NoOrder \in OrderTypes  BY DEF NoOrder, OrderTypes
  <2> QED BY <1>0, <2>1, <2>2 DEF FlowTypes, SyncFollowsTape, Passed
<1>5. CASE EngineReturns
  <2>1. /\ pc = "engine" /\ pc' \in {"submit", "sync"} /\ next' = last_processed + 1
        /\ incoming' = NoOrder /\ resting' \subseteq resting \cup {incoming}
        /\ UNCHANGED <<tape, last_processed, order_count, queue, popped, evicted, generation>>
    BY <1>5 DEF EngineReturns, Settle, flow, counts
  <2>2. NoOrder \in OrderTypes  BY DEF NoOrder, OrderTypes
  <2>3. FlowTypes'  BY <1>0, <2>1, <2>2 DEF FlowTypes
  <2> QED BY <1>0, <2>1, <2>3 DEF SyncFollowsTape, Passed
<1> QED BY <1>1, <1>2, <1>3, <1>4, <1>5

----------------------------------------------------------------------------
\* The flow

LEMMA FlowKept ==
    ASSUME IInv, UNCHANGED <<queue, popped, evicted, generation>>, Passed' = Passed
    PROVE  FlowInOrder' /\ FlowComplete'
BY DEF IInv, FlowInOrder, FlowComplete, InTapeOrder, Elems, Earlier

\* The new trade comes after everything that was popped or is queued, and nothing
\* of it has been seen before.
LEMMA NewTrade ==
    ASSUME IInv, pc = "sync", NEW t, t = <<generation, next>>
    PROVE  /\ t \in Nat \X Nat /\ t[1] = generation /\ t[2] = next
           /\ \A e \in Elems(popped) \cup Elems(queue) : Earlier(e, t)
           /\ t \notin Elems(popped) /\ t \notin Elems(queue) /\ t \notin evicted
<1>1. /\ t \in Nat \X Nat /\ t[1] = generation /\ t[2] = next
      /\ next \in Nat /\ generation \in Nat /\ Passed = next - 1 /\ Passed < next
  BY DEF IInv, FlowTypes, Passed
<1>2. ASSUME NEW e \in Nat \X Nat, e[1] = generation,
             e \in Elems(popped) \/ e \in Elems(queue) \/ e \in evicted
      PROVE  e[2] < next
  <2>1. e[2] <= Passed  BY <1>2 DEF IInv, FlowComplete
  <2>2. e[2] \in Nat  OBVIOUS
  <2> QED BY <1>1, <2>1, <2>2
<1>3. ASSUME NEW e \in Elems(popped) \cup Elems(queue)
      PROVE  Earlier(e, t)
  <2>1. e \in Nat \X Nat  BY Indices DEF IInv, FlowTypes
  <2>2. e[1] <= generation /\ e[1] \in Nat
    <3>1. e[1] \in Nat  BY <2>1
    <3>2. e \in Elems(queue) => e[1] = generation  BY DEF IInv, FlowComplete
    <3>3. e \in Elems(popped) => e[1] <= generation  BY DEF IInv, FlowComplete
    <3> QED BY <1>1, <3>1, <3>2, <3>3
  <2>3. e[1] = generation => e[2] < next  BY <1>2, <2>1
  <2> QED BY <1>1, <2>2, <2>3 DEF Earlier
<1>4. ~ (next < next)  BY <1>1
<1>5. t \notin Elems(popped) /\ t \notin Elems(queue) /\ t \notin evicted
  BY <1>1, <1>2, <1>4
<1> QED BY <1>1, <1>3, <1>5

\* Whatever the push evicts, each trade is in one place.
LEMMA PushKeepsFlow ==
    ASSUME IInv, SyncTrade
    PROVE  FlowTypes' /\ SyncFollowsTape' /\ FlowInOrder' /\ FlowComplete'
<1> DEFINE t == <<generation, next>>
<1>1. /\ pc = "sync" /\ next <= Len(tape) /\ Push(t) /\ next' = next + 1
      /\ UNCHANGED <<resting, incoming, tape, pc, last_processed, raised, popped,
                     order_count, generation>>
  BY DEF SyncTrade, marketVars, counts
<1>2. /\ t \in Nat \X Nat /\ t[1] = generation /\ t[2] = next
      /\ \A e \in Elems(popped) \cup Elems(queue) : Earlier(e, t)
      /\ t \notin Elems(popped) /\ t \notin Elems(queue) /\ t \notin evicted
  BY <1>1, NewTrade
<1> HIDE DEF t
<1>3. /\ FlowTypes /\ FlowInOrder /\ FlowComplete /\ Len(tape) \in Nat /\ next \in Nat
      /\ last_processed \in Nat /\ last_processed < next
  BY <1>1, LenProperties DEF IInv, FlowTypes, SyncFollowsTape
<1>4. /\ queue \in Seq(Nat \X Nat) /\ popped \in Seq(Nat \X Nat) /\ evicted \subseteq Nat \X Nat
      /\ InTapeOrder(queue) /\ InTapeOrder(popped)
  BY <1>3 DEF FlowTypes, FlowInOrder
<1>5. Passed = next - 1 /\ Passed' = next  BY <1>1, <1>3 DEF Passed
<1>6. /\ queue' \in Seq(Nat \X Nat) /\ InTapeOrder(queue)' /\ evicted' \subseteq Nat \X Nat
      /\ \E gone \in SUBSET Elems(queue) :
            /\ Elems(queue)' = (Elems(queue) \ gone) \cup {t}
            /\ evicted' = evicted \cup gone
  <2>1. CASE Len(queue) = QueueCapacity
    <3>1. queue # <<>>
      <4>1. QueueCapacity # 0  BY WhaleMonitorAssumption
      <4>2. Len(<<>>) = 0  OBVIOUS
      <4> QED BY <2>1, <4>1, <4>2
    <3>2. queue' = Append(Tail(queue), t) /\ evicted' = evicted \cup {Head(queue)}
      BY <1>1, <2>1 DEF Push
    <3>3. /\ Tail(queue) \in Seq(Nat \X Nat) /\ InTapeOrder(Tail(queue))
          /\ Head(queue) \in Elems(queue)
          /\ Elems(Tail(queue)) = Elems(queue) \ {Head(queue)}
      BY <1>4, <3>1, TailInOrder
    <3>4. /\ InTapeOrder(Append(Tail(queue), t))
          /\ Elems(Append(Tail(queue), t)) = Elems(Tail(queue)) \cup {t}
      <4>1. \A f \in Elems(Tail(queue)) : Earlier(f, t)  BY <1>2, <3>3
      <4> QED BY <1>2, <3>3, <4>1, AppendedInOrder
    <3>5. Append(Tail(queue), t) \in Seq(Nat \X Nat) /\ Head(queue) \in Nat \X Nat
      BY <1>2, <1>4, <3>3, AppendProperties, Indices
    <3>6. InTapeOrder(queue)'  BY <3>2, <3>4 DEF InTapeOrder
    <3>7. Elems(queue)' = (Elems(queue) \ {Head(queue)}) \cup {t}
      BY <3>2, <3>3, <3>4 DEF Elems
    <3> QED BY <1>4, <3>2, <3>3, <3>5, <3>6, <3>7
  <2>2. CASE Len(queue) # QueueCapacity
    <3>1. queue' = Append(queue, t) /\ evicted' = evicted  BY <1>1, <2>2 DEF Push
    <3>2. InTapeOrder(Append(queue, t)) /\ Elems(Append(queue, t)) = Elems(queue) \cup {t}
      BY <1>2, <1>4, AppendedInOrder
    <3>3. Append(queue, t) \in Seq(Nat \X Nat)  BY <1>2, <1>4, AppendProperties
    <3>4. InTapeOrder(queue)'  BY <3>1, <3>2 DEF InTapeOrder
    <3>5. Elems(queue)' = (Elems(queue) \ {}) \cup {t} /\ evicted' = evicted \cup {}
      BY <3>1, <3>2 DEF Elems
    <3> QED BY <1>4, <3>1, <3>3, <3>4, <3>5
  <2> QED BY <2>1, <2>2
<1>7. PICK gone \in SUBSET Elems(queue) :
        /\ Elems(queue)' = (Elems(queue) \ gone) \cup {t}
        /\ evicted' = evicted \cup gone
  BY <1>6
<1>8. Elems(popped)' = Elems(popped) /\ InTapeOrder(popped)'
  BY <1>1, <1>4 DEF Elems, InTapeOrder
<1>9. FlowTypes'
  <2>1. next' \in Nat  BY <1>1, <1>3
  <2> QED BY <1>1, <1>3, <1>6, <2>1 DEF FlowTypes
<1>10. SyncFollowsTape'
  <2>1. last_processed' < next' /\ next' <= Len(tape') + 1  BY <1>1, <1>3
  <2> QED BY <1>1, <1>3, <2>1 DEF IInv, SyncFollowsTape
<1>11. FlowInOrder'
  <2>1. \A e \in Elems(popped), f \in Elems(queue) : Earlier(e, f)
    BY <1>3 DEF FlowInOrder
  <2>2. \A e \in Elems(popped)', f \in Elems(queue)' : Earlier(e, f)
    BY <1>2, <1>7, <1>8, <2>1
  <2> QED BY <1>6, <1>8, <2>2 DEF FlowInOrder, Earlier
<1>12. FlowComplete'
  <2>1. /\ \A e \in Elems(popped)' : e[1] <= generation
        /\ \A e \in Elems(queue)' : e[1] = generation
    BY <1>2, <1>3, <1>7, <1>8 DEF FlowComplete
  <2>2. ASSUME NEW e \in Nat \X Nat, e[1] = generation
        PROVE  1 <= e[2] /\ e[2] <= next
                 <=> e \in Elems(popped)' \/ e \in Elems(queue)' \/ e \in evicted'
    <3>1. e[2] \in Nat /\ (e = t <=> e[2] = next)  BY <1>2, <2>2
    <3>2. 1 <= e[2] /\ e[2] <= next - 1
             <=> e \in Elems(popped) \/ e \in Elems(queue) \/ e \in evicted
      BY <1>3, <1>5, <2>2 DEF FlowComplete
    <3>3. e \in Elems(popped)' \/ e \in Elems(queue)' \/ e \in evicted'
            <=> e \in Elems(popped) \/ e \in Elems(queue) \/ e \in evicted \/ e = t
      BY <1>7, <1>8
    <3>4. e[2] <= next <=> e[2] <= next - 1 \/ e[2] = next  BY <1>3, <3>1
    <3>5. next >= 1  BY <1>3
    <3> QED BY <3>1, <3>2, <3>3, <3>4, <3>5
  <2>3. ASSUME NEW e \in evicted'
        PROVE  e[1] = generation /\ e \notin Elems(popped)' /\ e \notin Elems(queue)'
    <3>1. CASE e \in evicted
      BY <1>2, <1>3, <1>7, <1>8, <3>1 DEF FlowComplete
    <3>2. CASE e \in gone
      <4>1. e \in Elems(queue) /\ e[1] = generation /\ e # t
        BY <1>2, <1>3, <3>2 DEF FlowComplete
      <4>2. e \notin Elems(popped)
        <5>1. e \in Nat \X Nat  BY <1>4, <4>1, Indices
        <5>2. \A d \in Elems(popped) : Earlier(d, e)  BY <1>3, <4>1 DEF FlowInOrder
        <5> QED BY <5>1, <5>2, EarlierIsAnOrder
      <4> QED BY <1>7, <1>8, <3>2, <4>1, <4>2
    <3> QED BY <1>7, <3>1, <3>2
  <2> QED BY <1>1, <1>5, <2>1, <2>2, <2>3 DEF FlowComplete
<1> QED BY <1>9, <1>10, <1>11, <1>12

\* The worker moves the front of the queue behind what it has popped.
LEMMA PopKeepsFlow ==
    ASSUME IInv, WorkerPops
    PROVE  FlowTypes' /\ SyncFollowsTape' /\ FlowInOrder' /\ FlowComplete'
<1>1. PICK n \in 1 .. Len(queue) :
        /\ popped' = popped \o SubSeq(queue, 1, n)
        /\ queue' = SubSeq(queue, n + 1, Len(queue))
  BY DEF WorkerPops
<1>2. UNCHANGED <<resting, incoming, tape, pc, next, last_processed, raised, evicted,
                  order_count, generation>>
  BY DEF WorkerPops, marketVars, call, reports, counts
<1> DEFINE front == SubSeq(queue, 1, n)
           back  == SubSeq(queue, n + 1, Len(queue))
<1>3. /\ queue \in Seq(Nat \X Nat) /\ popped \in Seq(Nat \X Nat)
      /\ InTapeOrder(queue) /\ InTapeOrder(popped)
      /\ \A e \in Elems(popped), f \in Elems(queue) : Earlier(e, f)
  BY DEF IInv, FlowTypes, FlowInOrder
<1>4. /\ front \in Seq(Nat \X Nat) /\ back \in Seq(Nat \X Nat)
      /\ InTapeOrder(front) /\ InTapeOrder(back)
      /\ \A e \in Elems(front), f \in Elems(back) : Earlier(e, f)
      /\ Elems(queue) = Elems(front) \cup Elems(back)
  BY <1>3, SplitInOrder
<1> HIDE DEF front, back
<1>5. popped' = popped \o front /\ queue' = back  BY <1>1 DEF front, back
<1>6. /\ popped \o front \in Seq(Nat \X Nat) /\ InTapeOrder(popped \o front)
      /\ Elems(popped \o front) = Elems(popped) \cup Elems(front)
  BY <1>3, <1>4, ConcatInOrder
<1>7. /\ InTapeOrder(popped)' /\ InTapeOrder(queue)'
      /\ Elems(popped)' = Elems(popped) \cup Elems(front)
      /\ Elems(queue)' = Elems(back)
  BY <1>4, <1>5, <1>6 DEF InTapeOrder, Elems
<1>8. FlowTypes'  BY <1>2, <1>4, <1>5, <1>6 DEF IInv, FlowTypes
<1>9. SyncFollowsTape'  BY <1>2 DEF IInv, SyncFollowsTape
<1>10. FlowInOrder'
  <2>1. \A e \in Elems(popped)', f \in Elems(queue)' : Earlier(e, f)
    BY <1>3, <1>4, <1>7
  <2> QED BY <1>7, <2>1 DEF FlowInOrder, Earlier
<1>11. FlowComplete'
  <2>1. FlowComplete /\ Passed' = Passed  BY <1>2 DEF IInv, Passed
  <2>2. \A e \in Elems(queue) : e[1] = generation /\ generation \in Nat
    BY <2>1 DEF FlowComplete, IInv, FlowTypes
  <2>3. /\ \A e \in Elems(popped)' : e[1] <= generation
        /\ \A e \in Elems(queue)' : e[1] = generation
    BY <1>4, <1>7, <2>1, <2>2 DEF FlowComplete
  <2>4. \A e : e \in Elems(popped)' \/ e \in Elems(queue)'
                 <=> e \in Elems(popped) \/ e \in Elems(queue)
    BY <1>4, <1>7
  <2> QED BY <1>2, <2>1, <2>3, <2>4 DEF FlowComplete
<1> QED BY <1>8, <1>9, <1>10, <1>11

\* A reset takes what is queued with it; what was popped is of older engines now.
LEMMA ResetKeepsFlow ==
    ASSUME IInv, Reset
    PROVE  FlowTypes' /\ SyncFollowsTape' /\ FlowInOrder' /\ FlowComplete'
<1>1. /\ pc = "idle" /\ resting' = {} /\ tape' = <<>> /\ last_processed' = 0
      /\ queue' = <<>> /\ evicted' = {} /\ order_count' = 0 /\ generation' = generation + 1
      /\ UNCHANGED <<incoming, pc, next, popped>>
  BY DEF Reset, call
<1>2. Len(<<>>) = 0 /\ Elems(<<>>) = {}  BY DEF Elems
<1>3. /\ FlowTypes /\ generation \in Nat
      /\ \A e \in Elems(popped) : e \in Nat \X Nat /\ e[1] <= generation
      /\ InTapeOrder(popped)
  BY Indices DEF IInv, FlowTypes, FlowComplete, FlowInOrder
<1>4. FlowTypes'
  <2>1. generation' \in Nat  BY <1>1, <1>3
  <2>2. <<>> \in Seq(TradeTypes) /\ <<>> \in Seq(Nat \X Nat)  BY EmptySeq
  <2> QED BY <1>1, <1>3, <2>1, <2>2 DEF FlowTypes
<1>5. SyncFollowsTape'  BY <1>1, <1>2 DEF SyncFollowsTape
<1>6. Elems(popped)' = Elems(popped) /\ Elems(queue)' = {} /\ InTapeOrder(popped)'
      /\ InTapeOrder(queue)'
  BY <1>1, <1>2, <1>3 DEF Elems, InTapeOrder
<1>7. FlowInOrder'  BY <1>6 DEF FlowInOrder
<1>8. FlowComplete'
  <2>1. \A e \in Elems(popped)' : e[1] \in Nat /\ e[1] <= generation + 1 /\ e[1] # generation + 1
    <3>1. \A e \in Elems(popped) : e[1] \in Nat /\ e[1] <= generation  BY <1>3
    <3> QED BY <1>3, <1>6, <3>1
  <2>2. Passed' = 0  BY <1>1 DEF Passed
  <2>3. \A e \in Nat \X Nat : ~ (1 <= e[2] /\ e[2] <= 0)  OBVIOUS
  <2> QED BY <1>1, <1>6, <2>1, <2>2, <2>3 DEF FlowComplete
<1> QED BY <1>4, <1>5, <1>7, <1>8

LEMMA InitIInv == Init => IInv
<1> SUFFICES ASSUME Init PROVE IInv
  OBVIOUS
<1>1. Len(<<>>) = 0 /\ Elems(<<>>) = {} /\ NoOrder \in OrderTypes
  BY DEF Elems, NoOrder, OrderTypes
<1>2. FlowTypes  BY <1>1, EmptySeq DEF Init, MarketInit, FlowTypes
<1>3. SyncFollowsTape  BY <1>1 DEF Init, MarketInit, SyncFollowsTape
<1>4. FlowInOrder  BY <1>1 DEF Init, FlowInOrder, InTapeOrder
<1>5. FlowComplete
  <2>1. Passed = 0  BY DEF Init, Passed
  <2>2. \A e \in Nat \X Nat : ~ (1 <= e[2] /\ e[2] <= 0)  OBVIOUS
  <2> QED BY <1>1, <2>1, <2>2 DEF Init, FlowComplete
<1> QED BY <1>2, <1>3, <1>4, <1>5 DEF IInv

LEMMA NextIInv == IInv /\ [Next]_vars => IInv'
<1> SUFFICES ASSUME IInv, [Next]_vars PROVE IInv'
  OBVIOUS
<1>1. CASE BeginCall \/ SubmitOrder \/ EngineTrades \/ EngineRaises \/ EngineReturns
  BY <1>1, CallSteps, FlowKept DEF IInv
<1>2. CASE SyncTrade  BY <1>2, PushKeepsFlow DEF IInv
<1>3. CASE SyncDone
  <2>1. /\ pc = "sync" /\ next > Len(tape) /\ last_processed' = Len(tape) /\ pc' = "idle"
        /\ UNCHANGED <<resting, incoming, tape, next, raised, queue, evicted, popped,
                       order_count, generation>>
    BY <1>3 DEF SyncDone, marketVars, reports, flow, counts
  <2>2. /\ Len(tape) \in Nat /\ next \in Nat /\ next <= Len(tape) + 1 /\ FlowTypes
    BY <2>1, LenProperties DEF IInv, FlowTypes, SyncFollowsTape
  <2>3. Passed' = Passed  BY <2>1, <2>2 DEF Passed
  <2>4. FlowTypes' /\ SyncFollowsTape'  BY <2>1, <2>2 DEF FlowTypes, SyncFollowsTape
  <2> QED BY <2>1, <2>3, <2>4, FlowKept DEF IInv
<1>4. CASE Reset  BY <1>4, ResetKeepsFlow DEF IInv
<1>5. CASE WorkerPops  BY <1>5, PopKeepsFlow DEF IInv
<1>6. CASE Finished \/ UNCHANGED vars
  <2>1. UNCHANGED <<resting, incoming, tape, pc, next, last_processed, raised, queue, evicted,
                    popped, order_count, generation>>
    BY <1>6 DEF Finished, vars, marketVars, call, reports, flow, counts
  <2>2. Passed' = Passed  BY <2>1 DEF Passed
  <2>3. FlowTypes' /\ SyncFollowsTape'  BY <2>1 DEF IInv, FlowTypes, SyncFollowsTape
  <2> QED BY <2>1, <2>2, <2>3, FlowKept DEF IInv
<1> QED BY <1>1, <1>2, <1>3, <1>4, <1>5, <1>6 DEF Next

----------------------------------------------------------------------------
\* Theorems

LEMMA SameSet ==
    ASSUME NEW S, NEW s \in Seq(S)  PROVE ToSet(s) = Elems(s)
<1>1. DOMAIN s = 1 .. Len(s)  BY LenProperties
<1> QED BY <1>1 DEF ToSet, Elems

LEMMA FlowsOnce == IInv => TradesFlowOnce
<1> SUFFICES ASSUME IInv PROVE TradesFlowOnce
  OBVIOUS
<1> DEFINE kept   == popped \o queue
           passed == {<<generation, k>> : k \in 1 .. Passed}
           ours   == {e \in ToSet(kept) : e[1] = generation}
<1>1. /\ queue \in Seq(Nat \X Nat) /\ popped \in Seq(Nat \X Nat)
      /\ evicted \subseteq Nat \X Nat /\ generation \in Nat
      /\ FlowInOrder /\ FlowComplete /\ SyncFollowsTape
  BY DEF IInv, FlowTypes
<1>2. /\ kept \in Seq(Nat \X Nat) /\ InTapeOrder(kept)
      /\ ToSet(kept) = Elems(popped) \cup Elems(queue) /\ ToSet(queue) = Elems(queue)
  <2>1. /\ kept \in Seq(Nat \X Nat) /\ InTapeOrder(kept)
        /\ Elems(kept) = Elems(popped) \cup Elems(queue)
    BY <1>1, ConcatInOrder DEF FlowInOrder
  <2>2. ToSet(queue) = Elems(queue)  BY <1>1, SameSet
  <2> HIDE DEF kept
  <2>3. ToSet(kept) = Elems(kept)  BY <2>1, SameSet
  <2> QED BY <2>1, <2>2, <2>3
<1>3. Passed \in Nat
  BY DEF IInv, FlowTypes, SyncFollowsTape, Passed
<1>4. \A e \in ToSet(kept) : e \in Nat \X Nat  BY <1>1, <1>2, Indices
<1> HIDE DEF kept
<1>5. ToSet(queue) \subseteq ours  BY <1>1, <1>2 DEF FlowComplete
<1>6. passed = ours \cup evicted
  <2>1. ASSUME NEW e \in passed PROVE e \in ours \cup evicted
    <3>1. PICK k \in 1 .. Passed : e = <<generation, k>>  OBVIOUS
    <3>2. e \in Nat \X Nat /\ e[1] = generation /\ e[2] = k /\ 1 <= k /\ k <= Passed
      BY <1>1, <1>3, <3>1
    <3> QED BY <1>1, <1>2, <3>2 DEF FlowComplete
  <2>2. ASSUME NEW e \in ours \cup evicted PROVE e \in passed
    <3>1. e \in Nat \X Nat /\ e[1] = generation  BY <1>1, <1>4 DEF FlowComplete
    <3>2. 1 <= e[2] /\ e[2] <= Passed  BY <1>1, <1>2, <3>1 DEF FlowComplete
    <3>3. e[2] \in 1 .. Passed /\ e = <<generation, e[2]>>  BY <1>3, <3>1, <3>2
    <3> QED BY <3>3
  <2> QED BY <2>1, <2>2
<1>7. ours \cap evicted = {}  BY <1>1, <1>2 DEF FlowComplete
<1>8. /\ last_processed <= Len(tape)
      /\ pc = "idle" /\ order_count \notin raised => last_processed = Len(tape)
  BY <1>1 DEF SyncFollowsTape
<1> QED BY <1>2, <1>5, <1>6, <1>7, <1>8 DEF TradesFlowOnce, kept, InTapeOrder, Passed

\* Every trade goes to the worker's queue once and in order, whatever raised,
\* whatever was reset and whatever the full queue dropped while the worker popped.
THEOREM FlowOnce == Spec => []TradesFlowOnce
BY InitIInv, NextIInv, FlowsOnce, PTL DEF Spec

----------------------------------------------------------------------------
\* Sums of numbers, by the least place at which two partial sums could differ: the
\* lemmas of MatchingEngineProofs, whose variables are not those of the monitor.

LEMMA LeastNumber ==
    ASSUME NEW T \in SUBSET Nat, T # {}
    PROVE  \E n \in T : \A m \in T : n <= m
<1>1. IsWellFoundedOn(OpToRel(<, Nat), Nat)  BY NatLessThanWellFounded
<1>2. PICK n \in T : \A m \in T : ~ (<<m, n>> \in OpToRel(<, Nat))  BY <1>1, WFMin
<1>3. \A m \in T : ~ (m < n)  BY <1>2 DEF OpToRel
<1> QED BY <1>3

\* f[k] is the sum of the first k numbers of w, for every k up to n.
AddsUp(w, f, n) == f[0] = 0 /\ \A k \in 1 .. n : f[k] = f[k - 1] + w[k]

LEMMA PartialSumsExist ==
    ASSUME NEW w \in Seq(Nat), NEW n \in 0 .. Len(w)
    PROVE  \E f \in [0 .. n -> Nat] : AddsUp(w, f, n)
<1> DEFINE Summable(m) == \E f \in [0 .. m -> Nat] : AddsUp(w, f, m)
           T == {m \in 0 .. Len(w) : ~ Summable(m)}
<1>0. Len(w) \in Nat /\ \A k \in 1 .. Len(w) : w[k] \in Nat
  BY LenProperties
<1>1. Summable(0)
  <2>1. [k \in 0 .. 0 |-> 0] \in [0 .. 0 -> Nat]  OBVIOUS
  <2>2. AddsUp(w, [k \in 0 .. 0 |-> 0], 0)  BY DEF AddsUp
  <2> QED BY <2>1, <2>2
<1>2. ASSUME NEW m \in 1 .. Len(w), Summable(m - 1)
      PROVE  Summable(m)
  <2>1. PICK f \in [0 .. m - 1 -> Nat] : AddsUp(w, f, m - 1)  BY <1>2
  <2> DEFINE g == [k \in 0 .. m |-> IF k = m THEN f[m - 1] + w[m] ELSE f[k]]
  <2>2. g \in [0 .. m -> Nat]
    <3>1. m - 1 \in 0 .. m - 1 /\ f[m - 1] \in Nat /\ w[m] \in Nat  BY <1>0
    <3>2. \A k \in 0 .. m : k # m => k \in 0 .. m - 1  BY <1>0
    <3> QED BY <3>1, <3>2
  <2>3. g[0] = 0  BY <2>1, <1>0 DEF AddsUp
  <2>4. ASSUME NEW k \in 1 .. m PROVE g[k] = g[k - 1] + w[k]
    <3>1. k \in 0 .. m /\ k - 1 \in 0 .. m /\ k - 1 # m  BY <1>0
    <3>2. g[k - 1] = f[k - 1]  BY <3>1
    <3>3. CASE k = m  BY <3>1, <3>2, <3>3
    <3>4. CASE k # m
      <4>1. k \in 1 .. m - 1  BY <1>0, <3>4
      <4> QED BY <2>1, <3>1, <3>2, <3>4, <4>1 DEF AddsUp
    <3> QED BY <3>3, <3>4
  <2> HIDE DEF g
  <2>5. AddsUp(w, g, m)  BY <2>3, <2>4 DEF AddsUp
  <2> QED BY <2>2, <2>5
<1> HIDE DEF Summable
<1>3. ASSUME T # {} PROVE FALSE
  <2>1. T \in SUBSET Nat  BY <1>0
  <2>2. PICK m \in T : \A k \in T : m <= k  BY <1>3, <2>1, LeastNumber
  <2>3. m \in 1 .. Len(w)  BY <1>0, <1>1
  <2>4. m - 1 \in 0 .. Len(w) /\ ~ (m <= m - 1)  BY <1>0, <2>3
  <2>5. Summable(m - 1)  BY <2>2, <2>4
  <2> QED BY <1>2, <2>3, <2>5
<1>4. Summable(n)  BY <1>3
<1> QED BY <1>4 DEF Summable

LEMMA PartialSumsUnique ==
    ASSUME NEW w \in Seq(Nat), NEW f, NEW g,
           AddsUp(w, f, Len(w)), AddsUp(w, g, Len(w))
    PROVE  f[Len(w)] = g[Len(w)]
<1> DEFINE T == {m \in 0 .. Len(w) : f[m] # g[m]}
<1>0. Len(w) \in Nat  BY LenProperties
<1>1. ASSUME T # {} PROVE FALSE
  <2>1. T \in SUBSET Nat  BY <1>0
  <2>2. PICK m \in T : \A k \in T : m <= k  BY <1>1, <2>1, LeastNumber
  <2>3. m \in 1 .. Len(w)  BY <1>0, <2>2 DEF AddsUp
  <2>4. m - 1 \in 0 .. Len(w) /\ ~ (m <= m - 1)  BY <1>0, <2>3
  <2>5. f[m - 1] = g[m - 1]  BY <2>2, <2>4
  <2>6. f[m] = g[m]  BY <2>3, <2>5 DEF AddsUp
  <2> QED BY <2>2, <2>6
<1>2. Len(w) \in 0 .. Len(w)  BY <1>0
<1> QED BY <1>1, <1>2

\* What SumOf is, without the recursion.
LEMMA SumIs ==
    ASSUME NEW w \in Seq(Nat), NEW f, AddsUp(w, f, Len(w))
    PROVE  SumOf(w) = f[Len(w)]
<1> DEFINE Body(h) == [n \in 0 .. Len(w) |-> IF n = 0 THEN 0 ELSE h[n - 1] + w[n]]
           s == CHOOSE h : h = Body(h)
<1>0. Len(w) \in Nat  BY LenProperties
<1>1. \E h : h = Body(h)
  <2>1. Len(w) \in 0 .. Len(w)  BY <1>0
  <2>2. PICK h \in [0 .. Len(w) -> Nat] : AddsUp(w, h, Len(w))
    BY <2>1, PartialSumsExist
  <2>3. \A n \in 0 .. Len(w) : h[n] = IF n = 0 THEN 0 ELSE h[n - 1] + w[n]
    <3>1. \A n \in 0 .. Len(w) : n = 0 \/ n \in 1 .. Len(w)  BY <1>0
    <3> QED BY <2>2, <3>1 DEF AddsUp
  <2>4. h = Body(h)  BY <2>2, <2>3
  <2> QED BY <2>4
<1>2. s = Body(s)  BY <1>1
<1>3. SumOf(w) = s[Len(w)]  BY DEF SumOf
<1> HIDE DEF s
<1>4. AddsUp(w, s, Len(w))
  <2>1. 0 \in 0 .. Len(w) /\ \A k \in 1 .. Len(w) : k \in 0 .. Len(w) /\ k # 0  BY <1>0
  <2>2. s[0] = 0  BY <1>2, <2>1
  <2>3. ASSUME NEW k \in 1 .. Len(w) PROVE s[k] = s[k - 1] + w[k]
    <3>1. k \in 0 .. Len(w) /\ k # 0  BY <2>1
    <3> QED BY <1>2, <3>1
  <2> QED BY <2>2, <2>3 DEF AddsUp
<1> QED BY <1>3, <1>4, PartialSumsUnique

LEMMA SumIsNat ==
    ASSUME NEW w \in Seq(Nat)
    PROVE  SumOf(w) \in Nat
<1>1. Len(w) \in 0 .. Len(w)  BY LenProperties
<1>2. PICK f \in [0 .. Len(w) -> Nat] : AddsUp(w, f, Len(w))  BY <1>1, PartialSumsExist
<1> QED BY <1>1, <1>2, SumIs

\* One number more at the end.
LEMMA SumOfAppend ==
    ASSUME NEW w \in Seq(Nat), NEW x \in Nat
    PROVE  SumOf(Append(w, x)) = SumOf(w) + x
<1> DEFINE v == Append(w, x)
<1>1. /\ Len(w) \in Nat /\ v \in Seq(Nat) /\ Len(v) = Len(w) + 1 /\ v[Len(w) + 1] = x
      /\ \A k \in 1 .. Len(w) : v[k] = w[k]
  BY AppendProperties, LenProperties
<1>0. Len(w) \in 0 .. Len(w) /\ Len(w) \in Nat /\ Len(v) = Len(w) + 1  BY <1>1
<1> HIDE DEF v
<1>2. PICK f \in [0 .. Len(w) -> Nat] : AddsUp(w, f, Len(w))  BY <1>0, PartialSumsExist
<1> DEFINE g == [n \in 0 .. Len(w) + 1 |-> IF n <= Len(w) THEN f[n] ELSE f[Len(w)] + x]
<1>3. g[0] = 0
  <2>1. 0 \in 0 .. Len(w) + 1 /\ 0 <= Len(w)  BY <1>0
  <2> QED BY <1>2, <2>1 DEF AddsUp
<1>4. ASSUME NEW n \in 1 .. Len(w) + 1 PROVE g[n] = g[n - 1] + v[n]
  <2>1. n \in 0 .. Len(w) + 1 /\ n - 1 \in 0 .. Len(w) + 1 /\ n - 1 <= Len(w)  BY <1>0
  <2>2. g[n - 1] = f[n - 1]  BY <2>1
  <2>3. CASE n <= Len(w)
    <3>1. n \in 1 .. Len(w)  BY <1>0, <2>3
    <3> QED BY <1>1, <1>2, <2>1, <2>2, <2>3, <3>1 DEF AddsUp
  <2>4. CASE ~ (n <= Len(w))
    <3>1. n = Len(w) + 1 /\ n - 1 = Len(w)  BY <1>0, <2>4
    <3> QED BY <1>1, <2>1, <2>2, <2>4, <3>1
  <2> QED BY <2>3, <2>4
<1>5. g[Len(w) + 1] = f[Len(w)] + x
  <2>1. Len(w) + 1 \in 0 .. Len(w) + 1 /\ ~ (Len(w) + 1 <= Len(w))  BY <1>0
  <2> QED BY <2>1
<1> HIDE DEF g
<1>6. AddsUp(v, g, Len(v))  BY <1>0, <1>3, <1>4 DEF AddsUp
<1>7. SumOf(v) = g[Len(w) + 1]  BY <1>0, <1>1, <1>6, SumIs
<1>8. SumOf(w) = f[Len(w)]  BY <1>2, SumIs
<1> QED BY <1>5, <1>7, <1>8 DEF v

\* Zeros in front do not count.
LEMMA SumOfSuffix ==
    ASSUME NEW w \in Seq(Nat), NEW v \in Seq(Nat), NEW m \in 0 .. Len(w),
           Len(v) = Len(w) - m,
           \A k \in 1 .. m : w[k] = 0,
           \A k \in 1 .. Len(v) : w[m + k] = v[k]
    PROVE  SumOf(w) = SumOf(v)
<1>0. /\ Len(w) \in Nat /\ Len(v) \in Nat /\ m \in Nat /\ Len(w) = m + Len(v)
      /\ Len(v) \in 0 .. Len(v)
  BY LenProperties
<1>1. PICK f \in [0 .. Len(v) -> Nat] : AddsUp(v, f, Len(v))  BY <1>0, PartialSumsExist
<1> DEFINE g == [n \in 0 .. Len(w) |-> IF n <= m THEN 0 ELSE f[n - m]]
<1>2. g[0] = 0
  <2>1. 0 \in 0 .. Len(w) /\ 0 <= m  BY <1>0
  <2> QED BY <2>1
<1>3. ASSUME NEW n \in 1 .. Len(w) PROVE g[n] = g[n - 1] + w[n]
  <2>1. n \in 0 .. Len(w) /\ n - 1 \in 0 .. Len(w) /\ n \in Nat  BY <1>0
  <2>2. /\ g[n] = IF n <= m THEN 0 ELSE f[n - m]
        /\ g[n - 1] = IF n - 1 <= m THEN 0 ELSE f[(n - 1) - m]
    BY <2>1
  <2> HIDE DEF g
  <2>3. CASE n <= m
    <3>1. n \in 1 .. m /\ n - 1 <= m  BY <1>0, <2>1, <2>3
    <3>2. w[n] = 0  BY <3>1
    <3> QED BY <2>2, <2>3, <3>1, <3>2
  <2>4. CASE ~ (n <= m)
    <3>1. n - m \in 1 .. Len(v) /\ m + (n - m) = n /\ (n - m) - 1 = (n - 1) - m
      BY <1>0, <2>1, <2>4
    <3>2. f[n - m] = f[(n - 1) - m] + v[n - m] /\ w[n] = v[n - m]
      BY <1>1, <3>1 DEF AddsUp
    <3>3. g[n - 1] = f[(n - 1) - m]
      <4>1. CASE n - 1 <= m
        <5>1. (n - 1) - m = 0  BY <1>0, <2>1, <2>4, <4>1
        <5>2. f[(n - 1) - m] = 0  BY <1>1, <5>1 DEF AddsUp
        <5> QED BY <2>2, <4>1, <5>2
      <4>2. CASE ~ (n - 1 <= m)  BY <2>2, <4>2
      <4> QED BY <4>1, <4>2
    <3> QED BY <2>2, <2>4, <3>2, <3>3
  <2> QED BY <2>3, <2>4
<1>4. g[Len(w)] = f[Len(v)]
  <2>1. Len(w) \in 0 .. Len(w) /\ Len(w) - m = Len(v)  BY <1>0
  <2>2. CASE Len(w) <= m
    <3>1. Len(v) = 0  BY <1>0, <2>2
    <3> QED BY <1>1, <2>1, <2>2, <3>1 DEF AddsUp
  <2>3. CASE ~ (Len(w) <= m)  BY <2>1, <2>3
  <2> QED BY <2>2, <2>3
<1> HIDE DEF g
<1>5. AddsUp(w, g, Len(w))  BY <1>2, <1>3 DEF AddsUp
<1>6. SumOf(w) = g[Len(w)]  BY <1>5, SumIs
<1>7. SumOf(v) = f[Len(v)]  BY <1>1, SumIs
<1> QED BY <1>4, <1>6, <1>7

----------------------------------------------------------------------------
\* The deque of events and the levels of an order

LEMMA MinAndMax ==
    ASSUME NEW n \in Nat, NEW T \in SUBSET (1 .. n), T # {}
    PROVE  /\ Min(T) \in T /\ \A k \in T : Min(T) <= k
           /\ Max(T) \in T /\ \A k \in T : k <= Max(T)
<1>1. Min(T) \in T /\ \A k \in T : Min(T) <= k
  <2>1. \E m \in T : \A k \in T : m <= k  BY LeastNumber
  <2> QED BY <2>1 DEF Min
<1>2. Max(T) \in T /\ \A k \in T : Max(T) >= k
  <2> DEFINE U == {n - k : k \in T}
  <2>1. U \in SUBSET Nat /\ U # {}
    <3>1. \A k \in T : k \in 1 .. n /\ n - k \in Nat  OBVIOUS
    <3> QED BY <3>1
  <2> HIDE DEF U
  <2>2. PICK u \in U : \A x \in U : u <= x  BY <2>1, LeastNumber
  <2>3. PICK m \in T : u = n - m  BY DEF U
  <2>4. \A k \in T : n - m <= n - k  BY <2>2, <2>3 DEF U
  <2>5. \A k \in T : m >= k  BY <2>4
  <2> QED BY <2>5 DEF Max
<1> QED BY <1>1, <1>2

\* The last n of a sequence, or all of it.
LEMMA NewestProperties ==
    ASSUME NEW S, NEW s \in Seq(S), NEW n \in Nat
    PROVE  /\ Newest(n, s) \in Seq(S)
           /\ Len(Newest(n, s)) = IF Len(s) > n THEN n ELSE Len(s)
           /\ \A i \in 1 .. Len(Newest(n, s)) :
                 /\ Len(s) - Len(Newest(n, s)) + i \in 1 .. Len(s)
                 /\ Newest(n, s)[i] = s[Len(s) - Len(Newest(n, s)) + i]
<1> DEFINE m == IF Len(s) > n THEN Len(s) - n + 1 ELSE 1
           t == SubSeq(s, m, Len(s))
<1>0. Len(s) \in Nat  BY LenProperties
<1>1. m \in Int /\ 1 <= m /\ (m <= Len(s) + 1)  BY <1>0
<1>2. \A i \in m .. Len(s) : s[i] \in S
  <2>1. \A i \in m .. Len(s) : i \in 1 .. Len(s)  BY <1>0, <1>1
  <2> QED BY <2>1, ElementOfSeq
<1> HIDE DEF m
<1>3. /\ t \in Seq(S)
      /\ Len(t) = IF m <= Len(s) THEN Len(s) - m + 1 ELSE 0
      /\ \A i \in 1 .. Len(s) - m + 1 : t[i] = s[m + i - 1]
  BY <1>0, <1>1, <1>2, SubSeqProperties
<1> HIDE DEF t
<1>4. Len(t) = Len(s) - m + 1  BY <1>0, <1>1, <1>3
<1>5. ASSUME NEW i \in 1 .. Len(t)
      PROVE  /\ Len(s) - Len(t) + i \in 1 .. Len(s) /\ t[i] = s[Len(s) - Len(t) + i]
  <2>1. /\ i \in 1 .. Len(s) - m + 1 /\ Len(s) - Len(t) + i = m + i - 1
        /\ m + i - 1 \in 1 .. Len(s)
    BY <1>0, <1>1, <1>4
  <2> QED BY <1>3, <2>1
<1>6. Len(t) = IF Len(s) > n THEN n ELSE Len(s)  BY <1>0, <1>4 DEF m
<1> QED BY <1>3, <1>5, <1>6 DEF t, m, Newest

Events ==
    [event_type: {"RESTING_ORDER"}, order_id: Nat, quantity: Nat]
      \cup [event_type: {"MATCHED_TRADE"}, buy_id: Nat, sell_id: Nat, quantity: Nat]
      \cup [event_type: {"WHALE_SWEEP"}, order_id: Nat, side: {BUY, SELL}, quantity: Nat,
            price: Nat, levels_cleared: Nat, price_end: Nat]

LEMMA Reported ==
    ASSUME whale_events \in Seq(Events), NEW e \in Events, Report(e)
    PROVE  /\ whale_events' \in Seq(Events)
           /\ \A i \in 1 .. Len(whale_events') :
                 \/ whale_events'[i] = e
                 \/ \E j \in 1 .. Len(whale_events) : whale_events'[i] = whale_events[j]
<1> DEFINE a == Append(whale_events, e)
<1>1. /\ a \in Seq(Events) /\ Len(whale_events) \in Nat /\ Len(a) = Len(whale_events) + 1
      /\ a[Len(whale_events) + 1] = e
      /\ \A j \in 1 .. Len(whale_events) : a[j] = whale_events[j]
  BY AppendProperties, LenProperties
<1>2. whale_events' = Newest(MaxEvents, a)  BY DEF Report
<1> HIDE DEF a
<1>3. MaxEvents \in Nat  BY WhaleMonitorAssumption
<1>4. /\ whale_events' \in Seq(Events)
      /\ \A i \in 1 .. Len(whale_events') : \E k \in 1 .. Len(a) : whale_events'[i] = a[k]
  BY <1>1, <1>2, <1>3, NewestProperties, SMTT(30)
<1>5. \A k \in 1 .. Len(a) : k = Len(whale_events) + 1 \/ k \in 1 .. Len(whale_events)
  BY <1>1
<1> QED BY <1>1, <1>4, <1>5

\* One index for each price: the first that has it.
LEMMA LevelsProperties ==
    ASSUME NEW fills \in Seq(TradeTypes)
    PROVE  /\ LevelsHit(fills) \in SUBSET (1 .. Len(fills))
           /\ \A k \in 1 .. Len(fills) : \E j \in LevelsHit(fills) :
                 j <= k /\ fills[j].price = fills[k].price
           /\ Cardinality(LevelsHit(fills)) \in Nat
           /\ Cardinality(LevelsHit(fills)) = Cardinality({fills[k].price : k \in 1 .. Len(fills)})
<1> DEFINE L == LevelsHit(fills)
           P == {fills[k].price : k \in 1 .. Len(fills)}
           f == [k \in L |-> fills[k].price]
<1>0. Len(fills) \in Nat /\ DOMAIN fills = 1 .. Len(fills)  BY LenProperties
<1>1. L = {k \in 1 .. Len(fills) : \A j \in 1 .. k - 1 : fills[j].price # fills[k].price}
  BY <1>0 DEF LevelsHit
<1>2. L \in SUBSET (1 .. Len(fills))  BY <1>1
<1>3. ASSUME NEW k \in 1 .. Len(fills)
      PROVE  \E j \in L : j <= k /\ fills[j].price = fills[k].price
  <2> DEFINE T == {j \in 1 .. k : fills[j].price = fills[k].price}
  <2>1. T \in SUBSET Nat /\ k \in T  BY <1>0
  <2>2. PICK j \in T : \A i \in T : j <= i  BY <2>1, LeastNumber
  <2>3. j \in 1 .. Len(fills) /\ j <= k /\ fills[j].price = fills[k].price  BY <1>0, <2>2
  <2>4. \A i \in 1 .. j - 1 : fills[i].price # fills[j].price
    <3> TAKE i \in 1 .. j - 1
    <3>1. i \in 1 .. k /\ ~ (j <= i)  BY <1>0, <2>3
    <3> QED BY <2>2, <2>3, <3>1
  <2> QED BY <1>1, <2>3, <2>4
<1>4. ASSUME NEW i \in L, NEW j \in L, fills[i].price = fills[j].price
      PROVE  i = j
  <2>1. i \in 1 .. Len(fills) /\ j \in 1 .. Len(fills)  BY <1>2
  <2>2. ~ (i < j)
    <3>1. i < j => i \in 1 .. j - 1  BY <1>0, <2>1
    <3> QED BY <1>1, <1>4, <3>1
  <2>3. ~ (j < i)
    <3>1. j < i => j \in 1 .. i - 1  BY <1>0, <2>1
    <3> QED BY <1>1, <1>4, <3>1
  <2> QED BY <1>0, <2>1, <2>2, <2>3
<1>5. IsFiniteSet(L) /\ Cardinality(L) \in Nat
  <2>1. 1 \in Int /\ Len(fills) \in Int  BY <1>0
  <2>2. IsFiniteSet(1 .. Len(fills))  BY <2>1, FS_Interval
  <2>3. IsFiniteSet(L)  BY <1>2, <2>2, FS_Subset
  <2> QED BY <2>3, FS_CardinalityType
<1> HIDE DEF L
<1>6. f \in Bijection(L, P)
  <2>1. f \in [L -> P]  BY <1>2
  <2>2. \A i, j \in L : f[i] = f[j] => i = j  BY <1>4
  <2>3. \A p \in P : \E j \in L : f[j] = p
    <3> SUFFICES ASSUME NEW k \in 1 .. Len(fills) PROVE \E j \in L : f[j] = fills[k].price
      OBVIOUS
    <3> QED BY <1>3
  <2> HIDE DEF f, P
  <2>4. f \in Injection(L, P)  BY <2>1, <2>2 DEF Injection, IsInjective
  <2>5. f \in Surjection(L, P)  BY <2>1, <2>3 DEF Surjection
  <2> QED BY <2>4, <2>5 DEF Bijection
<1>7. Cardinality(P) = Cardinality(L)
  <2>1. ExistsBijection(L, P)  BY <1>6 DEF ExistsBijection
  <2> HIDE DEF P
  <2> QED BY <1>5, <2>1, FS_Bijection
<1> QED BY <1>2, <1>3, <1>5, <1>7 DEF L

----------------------------------------------------------------------------
\* The display

\* The display's newest events are the last places of the deque, in order.
LEMMA NewestOfRecent ==
    ASSUME whale_events \in Seq(Events), NEW n \in Nat
    PROVE  LET shown == Newest(n, Recent)
               k     == Len(shown)
           IN  /\ shown \in Seq(Nat) /\ k <= n /\ k <= Len(whale_events)
               /\ k = n \/ k = RecentEvents \/ k = Len(whale_events)
               /\ \A i \in 1 .. k : shown[i] = Len(whale_events) - k + i
<1> DEFINE places == [i \in DOMAIN whale_events |-> i]
           L == Len(whale_events)
           recent == Newest(RecentEvents, places)
           m == Len(recent)
           shown == Newest(n, recent)
           k == Len(shown)
<1>1. L \in Nat /\ DOMAIN whale_events = 1 .. L  BY LenProperties
<1>2. places \in Seq(Nat) /\ Len(places) = L /\ \A i \in 1 .. L : places[i] = i
  <2>1. places = [i \in 1 .. L |-> i]  BY <1>1
  <2>2. \A i \in 1 .. L : i \in Nat  BY <1>1
  <2>3. [i \in 1 .. L |-> i] \in [1 .. L -> Nat]  BY <2>2
  <2>4. places \in Seq(Nat)  BY <1>1, <2>1, <2>3, SeqDef
  <2>5. DOMAIN places = 1 .. L /\ DOMAIN places = 1 .. Len(places) /\ Len(places) \in Nat
    BY <2>1, <2>4, LenProperties
  <2>6. Len(places) = L  BY <1>1, <2>5
  <2> QED BY <2>1, <2>4, <2>6
<1> HIDE DEF places, L
<1>3. RecentEvents \in Nat  BY WhaleMonitorAssumption
<1>4. /\ recent \in Seq(Nat) /\ m = (IF L > RecentEvents THEN RecentEvents ELSE L)
      /\ \A i \in 1 .. m : L - m + i \in 1 .. L /\ recent[i] = places[L - m + i]
  BY <1>2, <1>3, NewestProperties
<1> HIDE DEF recent
<1>5. /\ shown \in Seq(Nat) /\ k = (IF m > n THEN n ELSE m)
      /\ \A i \in 1 .. k : m - k + i \in 1 .. m /\ shown[i] = recent[m - k + i]
  BY <1>4, NewestProperties
<1> HIDE DEF shown
<1>6. m \in Nat /\ k \in Nat
  BY <1>1, <1>3, <1>4, <1>5
<1> HIDE DEF m, k
<1>7. ASSUME NEW i \in 1 .. k PROVE shown[i] = L - k + i
  <2>1. m - k + i \in 1 .. m /\ shown[i] = recent[m - k + i]  BY <1>5
  <2>2. /\ L - m + (m - k + i) \in 1 .. L
        /\ recent[m - k + i] = places[L - m + (m - k + i)]
    BY <1>4, <2>1
  <2>3. L - m + (m - k + i) = L - k + i  BY <1>1, <1>6
  <2> QED BY <1>2, <2>1, <2>2, <2>3
<1>8. k <= n /\ k <= L /\ (k = n \/ k = RecentEvents \/ k = L)
  BY <1>1, <1>3, <1>4, <1>5, <1>6
<1> QED BY <1>5, <1>7, <1>8 DEF L, k, shown, recent, places, Recent

LEMMA OneElementSeq ==
    ASSUME NEW x
    PROVE  SetToSeq({x}) = <<x>>
<1>1. Cardinality({x}) = 1  BY FS_Singleton
<1>2. [i \in 1 .. 1 |-> x] \in [1 .. 1 -> {x}] /\ IsInjective([i \in 1 .. 1 |-> x])
  BY DEF IsInjective
<1>3. SetToSeq({x}) \in [1 .. 1 -> {x}]
  BY <1>1, <1>2 DEF SetToSeq
<1>4. \A f \in [1 .. 1 -> {x}] : f = [i \in 1 .. 1 |-> x]  OBVIOUS
<1>5. <<x>> = [i \in 1 .. 1 |-> x]  OBVIOUS
<1> QED BY <1>3, <1>4, <1>5

\* The latest sweep in the deque, if there is one.
LEMMA LastSweepProperties ==
    ASSUME whale_events \in Seq(Events)
    PROVE  LastSweep = {} \/ \E x \in 1 .. Len(whale_events) : LastSweep = {x}
<1> DEFINE T == {i \in DOMAIN whale_events : whale_events[i].event_type = "WHALE_SWEEP"}
<1>1. Len(whale_events) \in Nat /\ DOMAIN whale_events = 1 .. Len(whale_events)
  BY LenProperties
<1>2. T \in SUBSET (1 .. Len(whale_events))  BY <1>1
<1>3. LastSweep = IF T = {} THEN {} ELSE {Max(T)}  BY DEF LastSweep
<1> HIDE DEF T
<1>4. T # {} => Max(T) \in 1 .. Len(whale_events)  BY <1>1, <1>2, MinAndMax
<1> QED BY <1>3, <1>4

LEMMA DisplayShowsIt ==
    ASSUME whale_events \in Seq(Events)
    PROVE  LatestSweepIsShown
<1> DEFINE L == Len(whale_events)
<1>0. L \in Nat /\ RecentEvents \in Nat /\ (whale_events # <<>> => L # 0)
  BY WhaleMonitorAssumption, LenProperties, EmptySeq
<1> SUFFICES ASSUME NEW n \in 0 .. RecentEvents + 1
             PROVE  LET shown == select_whale_events(n) IN
                    /\ Len(shown) <= n
                    /\ \A i, j \in DOMAIN shown : i < j => shown[i] < shown[j]
                    /\ n > 0 => LastSweep \subseteq ToSet(shown)
                    /\ n > 1 /\ whale_events # <<>> => Last(shown) = L
  BY DEF LatestSweepIsShown
<1>1. n \in Nat  BY <1>0
<1> DEFINE t == Newest(n, Recent)
           k == Len(t)
<1>2. /\ t \in Seq(Nat) /\ k \in Nat /\ k <= n /\ k <= L
      /\ (k = n \/ k = RecentEvents \/ k = L)
      /\ \A i \in 1 .. k : t[i] = L - k + i
      /\ DOMAIN t = 1 .. k
  BY <1>1, NewestOfRecent, LenProperties
<1> HIDE DEF t
<1>8. /\ k \in Nat /\ k <= n /\ k <= L
      /\ (k = n \/ k = RecentEvents \/ k = L)
  BY <1>2
<1> HIDE DEF L, k
<1>9. L \in Nat /\ k \in Nat /\ RecentEvents \in Nat /\ n \in Nat /\ k <= n /\ k <= L
      /\ n <= RecentEvents + 1 /\ (k = n \/ k = RecentEvents \/ k = L)
      /\ (whale_events # <<>> => L > 0)
  BY <1>0, <1>1, <1>8
<1>3. CASE n <= 0
  <2>1. n = 0 /\ select_whale_events(n) = <<>>  BY <1>1, <1>3 DEF select_whale_events
  <2>2. Len(<<>>) = 0 /\ DOMAIN <<>> = {}  OBVIOUS
  <2> QED BY <2>1, <2>2
<1>4. CASE n > 0 /\ LastSweep \subseteq ToSet(t)
  <2>1. select_whale_events(n) = t  BY <1>1, <1>4 DEF select_whale_events, t
  <2>2. \A i, j \in DOMAIN t : i < j => t[i] < t[j]
    <3> SUFFICES ASSUME NEW i \in 1 .. k, NEW j \in 1 .. k, i < j PROVE t[i] < t[j]
      BY <1>2
    <3>1. t[i] = L - k + i /\ t[j] = L - k + j  BY <1>2
    <3> QED BY <1>9, <3>1
  <2>3. ASSUME n > 1, whale_events # <<>> PROVE Last(t) = L
    <3>1. k \in 1 .. k  BY <1>9, <2>3
    <3>2. t[k] = L - k + k  BY <1>2, <3>1
    <3>3. t[k] = L  BY <1>9, <3>2
    <3> QED BY <3>3 DEF Last, k
  <2> QED BY <1>2, <1>4, <2>1, <2>2, <2>3
<1>5. CASE n > 0 /\ ~ (LastSweep \subseteq ToSet(t))
  <2>1. PICK x \in 1 .. L : LastSweep = {x} /\ x \notin ToSet(t)
    BY <1>5, LastSweepProperties DEF L
  <2>2. x <= L - k
    <3>1. ASSUME x > L - k PROVE FALSE
      <4>1. x - (L - k) \in 1 .. k /\ L - k + (x - (L - k)) = x  BY <1>9, <2>1, <3>1
      <4>2. t[x - (L - k)] = x  BY <1>2, <4>1
      <4> QED BY <1>2, <2>1, <4>1, <4>2 DEF ToSet
    <3> QED BY <1>9, <2>1, <3>1
  <2> DEFINE back == IF n > 1 THEN Newest(n - 1, Recent) ELSE <<>>
             b == Len(back)
             shown == <<x>> \o back
  <2>3. select_whale_events(n) = shown
    <3>1. SetToSeq(LastSweep) = <<x>>  BY <2>1, OneElementSeq
    <3> QED BY <1>1, <1>5, <3>1 DEF select_whale_events, t
  <2>4. /\ back \in Seq(Nat) /\ b \in Nat /\ b <= n - 1 /\ b <= k
        /\ \A i \in 1 .. b : back[i] = L - b + i
        /\ n > 1 /\ whale_events # <<>> => b > 0
    <3>1. CASE n > 1
      <4>1. n - 1 \in Nat  BY <1>1, <3>1
      <4>2. back = Newest(n - 1, Recent)  BY <3>1
      <4> HIDE DEF back
      <4>3. /\ back \in Seq(Nat) /\ b <= n - 1 /\ b <= L
            /\ (b = n - 1 \/ b = RecentEvents \/ b = L)
            /\ \A i \in 1 .. b : back[i] = L - b + i
        BY <4>1, <4>2, NewestOfRecent DEF L
      <4>4. b \in Nat  BY <4>3, LenProperties
      <4>5. b <= k
        <5>1. n - 1 <= RecentEvents /\ n - 1 <= n /\ (b = RecentEvents => b = n - 1)
          BY <1>9, <3>1, <4>3, <4>4
        <5>2. b <= n - 1 /\ b <= L  BY <4>3
        <5> QED BY <1>9, <4>4, <5>1, <5>2
      <4>6. whale_events # <<>> => b > 0
        <5>1. b = n - 1 \/ b = RecentEvents \/ b = L  BY <4>3
        <5> QED BY <1>9, <3>1, <4>4, <5>1
      <4> QED BY <4>3, <4>4, <4>5, <4>6
    <3>2. CASE ~ (n > 1)
      <4>1. back = <<>> /\ b = 0 /\ <<>> \in Seq(Nat)  BY <3>2
      <4> HIDE DEF back
      <4>2. b \in Nat /\ b <= n - 1 /\ b <= k  BY <1>5, <1>9, <4>1
      <4>3. \A i \in 1 .. b : back[i] = L - b + i  BY <4>1
      <4> QED BY <3>2, <4>1, <4>2, <4>3
    <3> QED BY <3>1, <3>2
  <2> HIDE DEF back
  <2>5. /\ shown \in Seq(Nat) /\ Len(shown) = 1 + b /\ shown[1] = x
        /\ DOMAIN shown = 1 .. 1 + b
        /\ \A i \in 2 .. 1 + b : shown[i] = L - b + (i - 1)
    <3>1. <<x>> \in Seq(Nat) /\ Len(<<x>>) = 1 /\ <<x>>[1] = x  BY <1>0
    <3>2. /\ shown \in Seq(Nat) /\ Len(shown) = 1 + b
          /\ \A i \in 1 .. 1 + b : shown[i] = IF i <= 1 THEN <<x>>[i] ELSE back[i - 1]
      BY <2>4, <3>1, ConcatProperties
    <3> HIDE DEF shown
    <3>3. DOMAIN shown = 1 .. 1 + b  BY <3>2, LenProperties
    <3>4. shown[1] = x
      <4>1. 1 \in 1 .. 1 + b /\ 1 <= 1  BY <2>4
      <4> QED BY <3>1, <3>2, <4>1
    <3>5. ASSUME NEW i \in 2 .. 1 + b PROVE shown[i] = L - b + (i - 1)
      <4>1. i \in 1 .. 1 + b /\ ~ (i <= 1) /\ i - 1 \in 1 .. b  BY <2>4
      <4> QED BY <2>4, <3>2, <4>1
    <3> QED BY <3>2, <3>3, <3>4, <3>5
  <2> HIDE DEF shown
  <2>6. Len(shown) <= n
    <3>1. b \in Nat /\ b <= n - 1 /\ Len(shown) = 1 + b  BY <2>4, <2>5
    <3> QED BY <1>9, <3>1
  <2>7. \A i, j \in DOMAIN shown : i < j => shown[i] < shown[j]
    <3> SUFFICES ASSUME NEW i \in 1 .. 1 + b, NEW j \in 1 .. 1 + b, i < j
                 PROVE  shown[i] < shown[j]
      BY <2>5
    <3>1. j \in 2 .. 1 + b  BY <2>4
    <3>2. shown[j] = L - b + (j - 1)  BY <2>5, <3>1
    <3>3. CASE i = 1
      <4>1. shown[i] = x  BY <2>5, <3>3
      <4>2. b \in Nat /\ b <= k /\ j \in 2 .. 1 + b  BY <2>4, <3>1
      <4>3. x < L - b + (j - 1)  BY <1>9, <2>1, <2>2, <4>2
      <4> QED BY <3>2, <4>1, <4>3
    <3>4. CASE i # 1
      <4>1. i \in 2 .. 1 + b  BY <2>4, <3>4
      <4>2. shown[i] = L - b + (i - 1)  BY <2>5, <4>1
      <4> QED BY <1>0, <2>4, <3>2, <4>2
    <3> QED BY <3>3, <3>4
  <2>8. LastSweep \subseteq ToSet(shown)
    <3>1. 1 \in 1 .. 1 + b  BY <2>4
    <3> QED BY <2>1, <2>5, <3>1 DEF ToSet
  <2>9. ASSUME n > 1, whale_events # <<>> PROVE Last(shown) = L
    <3>1. b > 0 /\ 1 + b \in 2 .. 1 + b  BY <2>4, <2>9
    <3>2. shown[1 + b] = L - b + ((1 + b) - 1)  BY <2>5, <3>1
    <3> QED BY <1>0, <2>4, <2>5, <3>2 DEF Last
  <2> QED BY <2>3, <2>6, <2>7, <2>8, <2>9
<1> QED BY <1>0, <1>1, <1>3, <1>4, <1>5

----------------------------------------------------------------------------
\* The inductive invariant of the sweeps

\* The later arrival of the two.
Taker(tr) == IF tr.buy_id > tr.sell_id THEN tr.buy_id ELSE tr.sell_id

SweepTypes ==
    /\ n_before \in Nat
    /\ thresholds \in Seq(Nat) /\ Len(thresholds) = order_count
    /\ raised \subseteq 1 .. order_count
    /\ whale_events \in Seq(Events)

OrdersKnown ==
    /\ \A r \in resting : r.order_id <= order_count
    /\ \A k \in 1 .. Len(tape) : Taker(tape[k]) \in 1 .. order_count
    /\ pc # "engine" => incoming = NoOrder

\* The running order is the newest one, and its fills are those after n_before.
Running ==
    pc = "engine" =>
        /\ incoming.order_id = order_count /\ order_count > 0 /\ order_count \notin raised
        /\ \A r \in resting : r.order_id < order_count
        /\ n_before <= Len(tape)
        /\ \A k \in 1 .. Len(tape) : k > n_before <=> Taker(tape[k]) = order_count

\* For an order of this side, p is as good a price as q or a better one.
NotWorse(side, p, q) == IF side = BUY THEN p <= q ELSE p >= q

\* The running order hits the levels from the best to the worst.
BestFirst ==
    pc = "engine" =>
        \A k \in n_before + 1 .. Len(tape) :
            /\ \A j \in n_before + 1 .. k : NotWorse(incoming.side, tape[j].price, tape[k].price)
            /\ \A r \in Candidates : NotWorse(incoming.side, tape[k].price, r.price)

IsSweep(o) ==
    /\ sweep_min_levels > 0
    /\ Cardinality(LevelsOf(o)) >= sweep_min_levels
    /\ QuantityOf(o) >= thresholds[o]

Returned(o) == o \in 1 .. order_count /\ o \notin raised /\ (pc = "engine" => o # order_count)

SweptExactly == \A o \in swept \cup (1 .. order_count) : o \in swept <=> Returned(o) /\ IsSweep(o)

Tells(e) ==
    /\ e.quantity = QuantityOf(e.order_id)
    /\ e.levels_cleared = Cardinality(LevelsOf(e.order_id))
    /\ {e.price, e.price_end} \subseteq LevelsOf(e.order_id)
    /\ \A p \in LevelsOf(e.order_id) :
          NotWorse(e.side, e.price, p) /\ NotWorse(e.side, p, e.price_end)

EventsTell ==
    \A i \in 1 .. Len(whale_events) :
        whale_events[i].event_type = "WHALE_SWEEP" =>
            Returned(whale_events[i].order_id) /\ Tells(whale_events[i])

SInv == SweepTypes /\ OrdersKnown /\ Running /\ BestFirst /\ SweptExactly /\ EventsTell

----------------------------------------------------------------------------
\* The fills of an order

LEMMA FillsByTaker ==
    ASSUME tape \in Seq(TradeTypes), NEW o
    PROVE  FillsOf(o) = {k \in 1 .. Len(tape) : Taker(tape[k]) = o}
<1>1. DOMAIN tape = 1 .. Len(tape)  BY LenProperties
<1> QED BY <1>1 DEF FillsOf, Taker

\* What each trade of the tape counts for o.
CountsFor(o) == [k \in DOMAIN tape |-> IF k \in FillsOf(o) THEN tape[k].qty ELSE 0]

LEMMA CountsProperties ==
    ASSUME tape \in Seq(TradeTypes), NEW o
    PROVE  /\ CountsFor(o) \in Seq(Nat) /\ Len(CountsFor(o)) = Len(tape)
           /\ \A k \in 1 .. Len(tape) :
                 CountsFor(o)[k] = IF Taker(tape[k]) = o THEN tape[k].qty ELSE 0
           /\ QuantityOf(o) = SumOf(CountsFor(o))
<1> DEFINE c == CountsFor(o)
<1>1. DOMAIN tape = 1 .. Len(tape) /\ Len(tape) \in Nat  BY LenProperties
<1>2. \A k \in 1 .. Len(tape) : tape[k].qty \in Nat
  <2>1. \A k \in 1 .. Len(tape) : tape[k] \in TradeTypes  BY ElementOfSeq
  <2> QED BY <2>1 DEF TradeTypes
<1>3. c = [k \in 1 .. Len(tape) |-> IF Taker(tape[k]) = o THEN tape[k].qty ELSE 0]
  BY <1>1, FillsByTaker DEF CountsFor
<1> HIDE DEF c
<1>4. c \in [1 .. Len(tape) -> Nat]  BY <1>2, <1>3
<1>5. c \in Seq(Nat)  BY <1>1, <1>4, SeqDef
<1>6. Len(c) = Len(tape)
  <2>1. DOMAIN c = 1 .. Len(tape) /\ DOMAIN c = 1 .. Len(c) /\ Len(c) \in Nat
    BY <1>3, <1>5, LenProperties
  <2> QED BY <1>1, <2>1
<1>7. QuantityOf(o) = SumOf(c)  BY DEF QuantityOf, CountsFor, c
<1> QED BY <1>3, <1>5, <1>6, <1>7 DEF c

LEMMA SameTape ==
    ASSUME tape' = tape, NEW o
    PROVE  (LevelsOf(o))' = LevelsOf(o) /\ (QuantityOf(o))' = QuantityOf(o)
<1>1. (FillsOf(o))' = FillsOf(o)  BY DEF FillsOf
<1> QED BY <1>1 DEF LevelsOf, QuantityOf

\* A fill of another order changes nothing.
LEMMA TapeGrows ==
    ASSUME tape \in Seq(TradeTypes), NEW t \in TradeTypes, tape' = Append(tape, t),
           NEW o, Taker(t) # o
    PROVE  (LevelsOf(o))' = LevelsOf(o) /\ (QuantityOf(o))' = QuantityOf(o)
<1>1. /\ Len(tape) \in Nat /\ tape' \in Seq(TradeTypes) /\ Len(tape') = Len(tape) + 1
      /\ tape'[Len(tape) + 1] = t
      /\ \A k \in 1 .. Len(tape) : tape'[k] = tape[k]
  BY AppendProperties, LenProperties
<1>2. \A k \in 1 .. Len(tape') : k \in 1 .. Len(tape) \/ k = Len(tape) + 1  BY <1>1
<1>3. \A k \in 1 .. Len(tape) : k \in 1 .. Len(tape')  BY <1>1
<1>4. (FillsOf(o))' = {k \in 1 .. Len(tape') : Taker(tape'[k]) = o}
  <2>1. DOMAIN tape' = 1 .. Len(tape')  BY <1>1, LenProperties
  <2> QED BY <2>1 DEF FillsOf, Taker
<1>5. FillsOf(o) = {k \in 1 .. Len(tape) : Taker(tape[k]) = o}  BY FillsByTaker
<1>6. (FillsOf(o))' = FillsOf(o)  BY <1>1, <1>2, <1>3, <1>4, <1>5
<1>7. (LevelsOf(o))' = LevelsOf(o)
  <2>1. \A k \in FillsOf(o) : tape'[k] = tape[k]  BY <1>1, <1>5
  <2> QED BY <1>6, <2>1 DEF LevelsOf
<1>8. (QuantityOf(o))' = QuantityOf(o)
  <2> DEFINE c == CountsFor(o)
             d == [k \in DOMAIN tape' |-> IF k \in FillsOf(o) THEN tape'[k].qty ELSE 0]
  <2>1. /\ c \in Seq(Nat) /\ Len(c) = Len(tape) /\ QuantityOf(o) = SumOf(c)
        /\ \A k \in 1 .. Len(tape) : c[k] = IF k \in FillsOf(o) THEN tape[k].qty ELSE 0
    <3>1. \A k \in 1 .. Len(tape) : k \in FillsOf(o) <=> Taker(tape[k]) = o  BY <1>5
    <3>2. /\ c \in Seq(Nat) /\ Len(c) = Len(tape) /\ QuantityOf(o) = SumOf(c)
          /\ \A k \in 1 .. Len(tape) : c[k] = IF Taker(tape[k]) = o THEN tape[k].qty ELSE 0
      BY CountsProperties
    <3> QED BY <3>1, <3>2
  <2> HIDE DEF c
  <2>2. (QuantityOf(o))' = SumOf(d)  BY <1>6 DEF QuantityOf
  <2>3. d = Append(c, 0)
    <3>1. DOMAIN tape' = 1 .. Len(tape) + 1  BY <1>1, LenProperties
    <3>2. d = [k \in 1 .. Len(tape) + 1 |-> IF k \in FillsOf(o) THEN tape'[k].qty ELSE 0]
      BY <3>1
    <3> DEFINE a == Append(c, 0)
    <3>3. /\ a \in Seq(Nat) /\ Len(a) = Len(tape) + 1 /\ a[Len(tape) + 1] = 0
          /\ \A k \in 1 .. Len(tape) : a[k] = c[k]
      BY <2>1, AppendProperties
    <3> HIDE DEF a, d
    <3>4. DOMAIN a = 1 .. Len(tape) + 1  BY <3>3, LenProperties
    <3>5. ASSUME NEW k \in 1 .. Len(tape) + 1 PROVE a[k] = d[k]
      <4>1. CASE k \in 1 .. Len(tape)
        <5>1. tape'[k] = tape[k] /\ c[k] = IF k \in FillsOf(o) THEN tape[k].qty ELSE 0
          BY <1>1, <2>1, <4>1
        <5> QED BY <3>2, <3>3, <4>1, <5>1
      <4>2. CASE k = Len(tape) + 1
        <5>1. k \notin FillsOf(o)
          <6>1. k \notin 1 .. Len(tape)  BY <1>1, <4>2
          <6> QED BY <1>5, <6>1
        <5> QED BY <3>2, <3>3, <4>2, <5>1
      <4> QED BY <1>1, <4>1, <4>2
    <3>6. a = d
      <4>1. d = [k \in 1 .. Len(tape) + 1 |-> d[k]]  BY <3>2
      <4>2. a = [k \in 1 .. Len(tape) + 1 |-> a[k]]
        <5>1. a = [k \in 1 .. Len(a) |-> a[k]]  BY <3>3, SeqDef
        <5> QED BY <3>3, <5>1
      <4>3. [k \in 1 .. Len(tape) + 1 |-> d[k]] = [k \in 1 .. Len(tape) + 1 |-> a[k]]
        BY <3>5
      <4> QED BY <4>1, <4>2, <4>3
    <3> QED BY <3>6 DEF a
  <2>4. SumOf(Append(c, 0)) = SumOf(c) + 0 /\ SumOf(c) \in Nat  BY <2>1, SumOfAppend, SumIsNat
  <2> HIDE DEF d
  <2>5. SumOf(d) = SumOf(c)  BY <2>3, <2>4
  <2> QED BY <2>1, <2>2, <2>5
<1> QED BY <1>7, <1>8

\* When the engine returns, what it appended since n_before are the fills of the order.
LEMMA FillsOfTheOrder ==
    ASSUME IInv, SInv, pc = "engine"
    PROVE  LET fills  == SubSeq(tape, n_before + 1, Len(tape))
               levels == LevelsHit(fills)
           IN  /\ Executed(fills) = QuantityOf(order_count)
               /\ Executed(fills) \in Nat
               /\ Cardinality(levels) \in Nat
               /\ Cardinality(levels) = Cardinality(LevelsOf(order_count))
               /\ Cardinality(levels) > 0 =>
                    /\ {fills[Min(levels)].price, fills[Max(levels)].price}
                          \subseteq LevelsOf(order_count)
                    /\ {fills[Min(levels)].price, fills[Max(levels)].price} \subseteq Nat
                    /\ \A p \in LevelsOf(order_count) :
                          /\ NotWorse(incoming.side, fills[Min(levels)].price, p)
                          /\ NotWorse(incoming.side, p, fills[Max(levels)].price)
<1> DEFINE fills  == SubSeq(tape, n_before + 1, Len(tape))
           levels == LevelsHit(fills)
           n == Len(fills)
           o == order_count
<1>1. /\ tape \in Seq(TradeTypes) /\ Len(tape) \in Nat /\ n_before \in Nat
      /\ n_before <= Len(tape)
      /\ \A k \in 1 .. Len(tape) : k > n_before <=> Taker(tape[k]) = o
      /\ \A k \in 1 .. Len(tape) : tape[k] \in TradeTypes
  BY LenProperties, ElementOfSeq DEF IInv, FlowTypes, SInv, SweepTypes, Running
<1>0. Len(tape) \in Nat /\ n_before \in Nat /\ n_before <= Len(tape)  BY <1>1
<1>2. /\ fills \in Seq(TradeTypes) /\ n = Len(tape) - n_before
      /\ \A i \in 1 .. n : n_before + i \in 1 .. Len(tape) /\ fills[i] = tape[n_before + i]
  <2>1. n_before + 1 \in Int /\ Len(tape) \in Int
        /\ \A i \in n_before + 1 .. Len(tape) : tape[i] \in TradeTypes
    <3>1. \A i \in n_before + 1 .. Len(tape) : i \in 1 .. Len(tape)  BY <1>0
    <3> QED BY <1>0, <1>1, <3>1
  <2>2. /\ fills \in Seq(TradeTypes)
        /\ Len(fills) = IF n_before + 1 <= Len(tape)
                        THEN Len(tape) - (n_before + 1) + 1 ELSE 0
        /\ \A i \in 1 .. Len(tape) - (n_before + 1) + 1 :
              fills[i] = tape[(n_before + 1) + i - 1]
    BY <2>1, SubSeqProperties
  <2> HIDE DEF fills
  <2>3. n = Len(tape) - n_before  BY <1>0, <2>2
  <2>4. ASSUME NEW i \in 1 .. n
        PROVE  n_before + i \in 1 .. Len(tape) /\ fills[i] = tape[n_before + i]
    <3> HIDE DEF n
    <3>1. /\ i \in 1 .. Len(tape) - (n_before + 1) + 1 /\ (n_before + 1) + i - 1 = n_before + i
          /\ n_before + i \in 1 .. Len(tape)
      BY <1>0, <2>3
    <3> QED BY <2>2, <3>1
  <2> QED BY <2>2, <2>3, <2>4
<1> HIDE DEF fills
<1>3. n \in Nat /\ DOMAIN fills = 1 .. n  BY <1>2, LenProperties
<1>4. Executed(fills) = QuantityOf(o) /\ Executed(fills) \in Nat
  <2> DEFINE v == [k \in DOMAIN fills |-> fills[k].qty]
             w == CountsFor(o)
  <2>1. v = [k \in 1 .. n |-> fills[k].qty] /\ Executed(fills) = SumOf(v)
    BY <1>3 DEF Executed
  <2> HIDE DEF v, n
  <2>2. v \in Seq(Nat) /\ Len(v) = n /\ \A k \in 1 .. n : v[k] = tape[n_before + k].qty
    <3>1. \A k \in 1 .. n : fills[k] = tape[n_before + k] /\ tape[n_before + k] \in TradeTypes
      BY <1>1, <1>2 DEF n
    <3>2. \A k \in 1 .. n : fills[k].qty \in Nat  BY <3>1 DEF TradeTypes
    <3>3. v \in [1 .. n -> Nat]  BY <2>1, <3>2
    <3>4. v \in Seq(Nat)  BY <1>3, <3>3, SeqDef
    <3>5. DOMAIN v = 1 .. n /\ DOMAIN v = 1 .. Len(v) /\ Len(v) \in Nat
      BY <2>1, <3>4, LenProperties
    <3>6. Len(v) = n  BY <1>3, <3>5
    <3> QED BY <2>1, <3>1, <3>4, <3>6
  <2>3. /\ w \in Seq(Nat) /\ Len(w) = Len(tape) /\ QuantityOf(o) = SumOf(w)
        /\ \A k \in 1 .. Len(tape) : w[k] = IF Taker(tape[k]) = o THEN tape[k].qty ELSE 0
    BY <1>1, CountsProperties
  <2> HIDE DEF w
  <2>4. n_before \in 0 .. Len(w) /\ Len(v) = Len(w) - n_before
    BY <1>0, <1>2, <2>2, <2>3 DEF n
  <2>5. \A k \in 1 .. n_before : w[k] = 0
    <3> TAKE k \in 1 .. n_before
    <3>1. k \in 1 .. Len(tape) /\ ~ (k > n_before)  BY <1>0
    <3>2. Taker(tape[k]) # o  BY <1>1, <3>1
    <3> QED BY <2>3, <3>1, <3>2
  <2>6. \A k \in 1 .. Len(v) : w[n_before + k] = v[k]
    <3> TAKE k \in 1 .. Len(v)
    <3>1. k \in 1 .. n /\ n_before + k \in 1 .. Len(tape)  BY <1>2, <2>2 DEF n
    <3>2. n_before + k > n_before  BY <1>0, <1>3, <3>1
    <3>3. Taker(tape[n_before + k]) = o  BY <1>1, <3>1, <3>2
    <3> QED BY <2>2, <2>3, <3>1, <3>3
  <2>7. SumOf(w) = SumOf(v)  BY <2>2, <2>3, <2>4, <2>5, <2>6, SumOfSuffix
  <2> QED BY <2>1, <2>2, <2>3, <2>7, SumIsNat
<1>5. LevelsOf(o) = {fills[k].price : k \in 1 .. n}
  <2>1. FillsOf(o) = {k \in 1 .. Len(tape) : Taker(tape[k]) = o}  BY <1>1, FillsByTaker
  <2>2. ASSUME NEW k \in FillsOf(o) PROVE \E i \in 1 .. n : fills[i].price = tape[k].price
    <3>1. k \in 1 .. Len(tape) /\ k > n_before  BY <1>1, <2>1
    <3>2. k - n_before \in 1 .. n /\ n_before + (k - n_before) = k
      <4>1. n = Len(tape) - n_before  BY <1>2
      <4> HIDE DEF n
      <4> QED BY <1>0, <3>1, <4>1
    <3>3. fills[k - n_before] = tape[k]  BY <1>2, <3>2
    <3> QED BY <3>2, <3>3
  <2>3. ASSUME NEW i \in 1 .. n PROVE \E k \in FillsOf(o) : fills[i].price = tape[k].price
    <3>1. n_before + i \in 1 .. Len(tape) /\ fills[i] = tape[n_before + i]  BY <1>2
    <3>2. n_before + i > n_before  BY <1>0, <1>3
    <3>3. n_before + i \in FillsOf(o)  BY <1>1, <2>1, <3>1, <3>2
    <3> QED BY <3>1, <3>3
  <2>4. LevelsOf(o) = {tape[k].price : k \in FillsOf(o)}  BY DEF LevelsOf
  <2> HIDE DEF n, o
  <2> QED BY <2>2, <2>3, <2>4
<1>6. /\ levels \in SUBSET (1 .. n)
      /\ \A k \in 1 .. n : \E j \in levels : j <= k /\ fills[j].price = fills[k].price
      /\ Cardinality(levels) \in Nat
      /\ Cardinality(levels) = Cardinality({fills[k].price : k \in 1 .. n})
  BY <1>2, LevelsProperties
<1> HIDE DEF levels
<1>7. ASSUME Cardinality(levels) > 0
      PROVE  /\ {fills[Min(levels)].price, fills[Max(levels)].price} \subseteq LevelsOf(o)
             /\ {fills[Min(levels)].price, fills[Max(levels)].price} \subseteq Nat
             /\ \A p \in LevelsOf(o) :
                   /\ NotWorse(incoming.side, fills[Min(levels)].price, p)
                   /\ NotWorse(incoming.side, p, fills[Max(levels)].price)
  <2>1. levels # {}
    <3>1. Cardinality({}) = 0  BY FS_EmptySet
    <3>2. ~ (0 > 0)  OBVIOUS
    <3> QED BY <1>7, <3>1, <3>2
  <2> DEFINE a == Min(levels)
             b == Max(levels)
  <2>2. /\ a \in levels /\ \A k \in levels : a <= k
        /\ b \in levels /\ \A k \in levels : k <= b
    BY <1>3, <1>6, <2>1, MinAndMax
  <2>3. a \in 1 .. n /\ b \in 1 .. n  BY <1>6, <2>2
  <2> HIDE DEF a, b
  <2>4. ASSUME NEW i \in 1 .. n, NEW j \in 1 .. n, i <= j
        PROVE  NotWorse(incoming.side, fills[i].price, fills[j].price)
    <3>1. /\ n_before + i \in 1 .. Len(tape) /\ fills[i] = tape[n_before + i]
          /\ n_before + j \in 1 .. Len(tape) /\ fills[j] = tape[n_before + j]
      BY <1>2
    <3>2. n_before + j \in n_before + 1 .. Len(tape)
          /\ n_before + i \in n_before + 1 .. n_before + j
      BY <1>0, <1>3, <2>4, <3>1
    <3> QED BY <3>1, <3>2 DEF SInv, BestFirst
  <2>5. \A i \in 1 .. n : fills[i].price \in Nat
    <3>1. \A i \in 1 .. n : fills[i] \in TradeTypes  BY <1>2, ElementOfSeq
    <3> QED BY <3>1 DEF TradeTypes
  <2>6. ASSUME NEW k \in 1 .. n
        PROVE  /\ NotWorse(incoming.side, fills[a].price, fills[k].price)
               /\ NotWorse(incoming.side, fills[k].price, fills[b].price)
    <3>1. PICK j \in levels : j <= k /\ fills[j].price = fills[k].price  BY <1>6
    <3>2. j \in 1 .. n /\ a <= j /\ j <= b  BY <1>6, <2>2, <3>1
    <3>3. /\ NotWorse(incoming.side, fills[a].price, fills[j].price)
          /\ NotWorse(incoming.side, fills[j].price, fills[b].price)
      BY <2>3, <2>4, <3>2
    <3> QED BY <3>1, <3>3
  <2> QED BY <1>5, <2>3, <2>5, <2>6 DEF a, b
<1> QED BY <1>4, <1>5, <1>6, <1>7 DEF levels, fills

----------------------------------------------------------------------------
\* The steps

\* The events there were, and new ones that report no sweep.
NoNewSweep ==
    /\ whale_events' \in Seq(Events)
    /\ \A i \in 1 .. Len(whale_events') :
          \/ whale_events'[i].event_type # "WHALE_SWEEP"
          \/ \E j \in 1 .. Len(whale_events) : whale_events'[i] = whale_events[j]

LEMMA NoSweepReported ==
    ASSUME whale_events \in Seq(Events),
           \/ UNCHANGED whale_events
           \/ \E e \in Events : e.event_type # "WHALE_SWEEP" /\ Report(e)
    PROVE  NoNewSweep
<1>1. CASE UNCHANGED whale_events
  BY <1>1 DEF NoNewSweep
<1>2. CASE \E e \in Events : e.event_type # "WHALE_SWEEP" /\ Report(e)
  <2>1. PICK e \in Events : e.event_type # "WHALE_SWEEP" /\ Report(e)  BY <1>2
  <2> QED BY <2>1, Reported DEF NoNewSweep
<1> QED BY <1>1, <1>2

\* What is told of the orders that have returned stays true while their fills stay
\* theirs.
LEMMA EventsStillTell ==
    ASSUME EventsTell, NoNewSweep,
           \A o : Returned(o) => /\ (Returned(o))'
                                 /\ (LevelsOf(o))' = LevelsOf(o)
                                 /\ (QuantityOf(o))' = QuantityOf(o)
    PROVE  EventsTell'
<1> SUFFICES ASSUME NEW i \in 1 .. Len(whale_events'),
                    whale_events'[i].event_type = "WHALE_SWEEP"
             PROVE  (Returned(whale_events[i].order_id) /\ Tells(whale_events[i]))'
  BY DEF EventsTell
<1>1. PICK j \in 1 .. Len(whale_events) : whale_events'[i] = whale_events[j]
  BY DEF NoNewSweep
<1>2. PICK e : e = whale_events[j]  OBVIOUS
<1>3. PICK o : o = e.order_id  OBVIOUS
<1>4. e.event_type = "WHALE_SWEEP" /\ whale_events'[i] = e  BY <1>1, <1>2
<1>5. Returned(o) /\ Tells(e)  BY <1>2, <1>3, <1>4 DEF EventsTell
<1>6. (Returned(o))' /\ (LevelsOf(o))' = LevelsOf(o) /\ (QuantityOf(o))' = QuantityOf(o)
  BY <1>5
<1>7. (Tells(e))'  BY <1>3, <1>5, <1>6 DEF Tells
<1>8. (Returned(e.order_id))'  BY <1>3, <1>6 DEF Returned
<1> QED BY <1>4, <1>7, <1>8 DEF Tells, Returned

\* Steps that submit nothing, trade nothing and end no order.
LEMMA QuietSteps ==
    ASSUME SInv, NoNewSweep,
           UNCHANGED <<resting, incoming, tape, n_before, thresholds, raised, swept, order_count>>,
           pc' = pc \/ (pc # "engine" /\ pc' # "engine")
    PROVE  SInv'
<1>1. (pc' = "engine") <=> (pc = "engine")  OBVIOUS
<1>2. SweepTypes'  BY DEF SInv, SweepTypes, NoNewSweep
<1>3. OrdersKnown'  BY <1>1 DEF SInv, OrdersKnown, Taker
<1>4. Running'  BY <1>1 DEF SInv, Running, Taker
<1>5. BestFirst'  BY <1>1 DEF SInv, BestFirst, Candidates, Acceptable, NotWorse
<1>6. \A o : /\ (Returned(o))' <=> Returned(o)
             /\ (LevelsOf(o))' = LevelsOf(o) /\ (QuantityOf(o))' = QuantityOf(o)
  BY <1>1, SameTape DEF Returned
<1>7. SweptExactly'
  <2>1. \A o : (IsSweep(o))' <=> IsSweep(o)  BY <1>6 DEF IsSweep
  <2> QED BY <1>6, <2>1 DEF SInv, SweptExactly
<1>8. EventsTell'  BY <1>6, EventsStillTell DEF SInv
<1> QED BY <1>2, <1>3, <1>4, <1>5, <1>7, <1>8 DEF SInv

LEMMA SubmitKeepsSweeps ==
    ASSUME IInv, SInv, SubmitOrder
    PROVE  SInv'
<1> DEFINE n == order_count + 1
<1>1. PICK side \in {BUY, SELL}, price \in Prices, quantity \in Quantities :
        LET o == [order_id |-> n, side |-> side, price |-> price,
                  quantity |-> quantity, timestamp |-> 0]
        IN  /\ OnOrderSubmitted(o)
            /\ \/ incoming' = o /\ Arrive /\ pc' = "engine" /\ UNCHANGED raised
               \/ pc' = "idle" /\ raised' = raised \cup {n} /\ UNCHANGED marketVars
  BY DEF SubmitOrder
<1> DEFINE o == [order_id |-> n, side |-> side, price |-> price,
                 quantity |-> quantity, timestamp |-> 0]
<1>2. /\ pc = "submit" /\ n_before' = Len(tape) /\ order_count' = n /\ swept' = swept
  BY DEF SubmitOrder
<1>3. /\ resting' = resting /\ tape' = tape
      /\ \/ pc' = "engine" /\ incoming' = o /\ raised' = raised
         \/ pc' = "idle" /\ raised' = raised \cup {n} /\ incoming' = incoming
  BY <1>1 DEF Arrive, marketVars
<1>4. /\ order_count \in Nat /\ tape \in Seq(TradeTypes) /\ Len(tape) \in Nat
      /\ thresholds \in Seq(Nat) /\ Len(thresholds) = order_count
      /\ raised \subseteq 1 .. order_count /\ whale_events \in Seq(Events)
      /\ SweptExactly /\ EventsTell /\ OrdersKnown
  BY LenProperties DEF IInv, FlowTypes, SInv, SweepTypes
<1>0. order_count \in Nat /\ n = order_count + 1  BY <1>4
<1>5. PICK thresh \in Thresholds :
        /\ thresholds' = Append(thresholds, thresh)
        /\ \/ UNCHANGED whale_events
           \/ Report([event_type |-> "RESTING_ORDER", order_id |-> n, quantity |-> quantity])
  BY <1>1 DEF OnOrderSubmitted
<1>6. NoNewSweep
  <2> DEFINE e == [event_type |-> "RESTING_ORDER", order_id |-> n, quantity |-> quantity]
  <2>1. n \in Nat /\ quantity \in Nat  BY <1>4, WhaleMonitorAssumption
  <2>2. e \in Events /\ e.event_type # "WHALE_SWEEP"  BY <2>1 DEF Events
  <2> HIDE DEF e
  <2>3. UNCHANGED whale_events \/ Report(e)  BY <1>5 DEF e
  <2> QED BY <1>4, <2>2, <2>3, NoSweepReported
<1>7. /\ thresholds' \in Seq(Nat) /\ Len(thresholds') = n
      /\ \A k \in 1 .. order_count : thresholds'[k] = thresholds[k]
  <2>1. thresh \in Nat  BY WhaleMonitorAssumption
  <2> QED BY <1>4, <1>5, <2>1, AppendProperties
<1>8. o.order_id = n /\ o.side = side  OBVIOUS
<1> HIDE DEF o, n
<1>9. /\ n \in Nat /\ n > 0 /\ n \in 1 .. n /\ n \notin 1 .. order_count
      /\ \A k \in 1 .. order_count : k \in 1 .. n /\ k # n
      /\ \A k \in 1 .. n : k = n \/ k \in 1 .. order_count
      /\ \A k \in Nat : k <= order_count => k <= n /\ k < n
  BY <1>0
<1>10. SweepTypes'
  <2>1. raised' \subseteq 1 .. n  BY <1>3, <1>4, <1>9
  <2> QED BY <1>2, <1>4, <1>6, <1>7, <2>1 DEF SweepTypes, NoNewSweep
<1>11. \A r \in resting : r.order_id \in Nat /\ r.order_id <= order_count
  <2>1. \A r \in resting : r \in OrderTypes  BY DEF IInv, FlowTypes
  <2> QED BY <1>4, <2>1 DEF OrderTypes, OrdersKnown
<1>12. OrdersKnown'
  <2>1. \A r \in resting' : r.order_id <= n  BY <1>3, <1>9, <1>11
  <2>2. \A k \in 1 .. Len(tape') : Taker(tape'[k]) \in 1 .. n
    BY <1>3, <1>4, <1>9 DEF OrdersKnown
  <2>3. pc' # "engine" => incoming' = NoOrder
    BY <1>2, <1>3, <1>4 DEF OrdersKnown
  <2> QED BY <1>2, <2>1, <2>2, <2>3 DEF OrdersKnown, Taker
<1>13. Running'
  <2> SUFFICES ASSUME pc' = "engine"
               PROVE  /\ incoming'.order_id = order_count' /\ order_count' > 0
                      /\ order_count' \notin raised'
                      /\ \A r \in resting' : r.order_id < order_count'
                      /\ n_before' <= Len(tape')
                      /\ \A k \in 1 .. Len(tape') :
                            k > n_before' <=> (Taker(tape[k]))' = order_count'
    BY DEF Running
  <2>1. incoming' = o /\ raised' = raised  BY <1>3
  <2>2. \A r \in resting' : r.order_id < n  BY <1>3, <1>9, <1>11
  <2>3. n_before' <= Len(tape')  BY <1>2, <1>3, <1>4
  <2>4. ASSUME NEW k \in 1 .. Len(tape')
        PROVE  k > n_before' <=> (Taker(tape[k]))' = n
    <3>1. k \in 1 .. Len(tape) /\ ~ (k > n_before')  BY <1>2, <1>3, <1>4
    <3>2. Taker(tape[k]) # n  BY <1>4, <1>9, <3>1 DEF OrdersKnown
    <3> QED BY <1>3, <3>1, <3>2 DEF Taker
  <2> QED BY <1>2, <1>4, <1>8, <1>9, <2>1, <2>2, <2>3, <2>4
<1>14. BestFirst'
  <2>1. n_before' + 1 .. Len(tape') = {}  BY <1>2, <1>3, <1>4
  <2> QED BY <2>1 DEF BestFirst
<1>15. \A k : (Returned(k))' <=> Returned(k)
  <2> TAKE k
  <2>1. Returned(k) <=> k \in 1 .. order_count /\ k \notin raised  BY <1>2 DEF Returned
  <2>2. (Returned(k))' <=> k \in 1 .. n /\ k \notin raised' /\ (pc' = "engine" => k # n)
    BY <1>2 DEF Returned
  <2>3. CASE k = n  BY <1>3, <1>9, <2>1, <2>2, <2>3
  <2>4. CASE k # n  BY <1>3, <1>9, <2>1, <2>2, <2>4
  <2> QED BY <2>3, <2>4
<1>16. \A k : (LevelsOf(k))' = LevelsOf(k) /\ (QuantityOf(k))' = QuantityOf(k)
  BY <1>3, SameTape
<1>17. SweptExactly'
  <2>1. \A k \in 1 .. order_count : (IsSweep(k))' <=> IsSweep(k)
    BY <1>7, <1>16 DEF IsSweep
  <2>2. \A k \in swept : Returned(k)  BY <1>4 DEF SweptExactly
  <2>3. \A k : Returned(k) => k \in 1 .. order_count  BY DEF Returned
  <2> SUFFICES ASSUME NEW k \in swept \cup (1 .. n)
               PROVE  k \in swept <=> (Returned(k))' /\ (IsSweep(k))'
    BY <1>2 DEF SweptExactly
  <2>4. CASE k \in 1 .. order_count
    BY <1>4, <1>15, <2>1, <2>4 DEF SweptExactly
  <2>5. CASE k \notin 1 .. order_count
    BY <1>15, <2>2, <2>3, <2>5
  <2> QED BY <2>4, <2>5
<1>18. EventsTell'  BY <1>4, <1>6, <1>15, <1>16, EventsStillTell
<1> QED BY <1>10, <1>12, <1>13, <1>14, <1>17, <1>18 DEF SInv

\* The best of the resting orders trades, and none of those left has a better price.
LEMMA TradesWithBest ==
    ASSUME IInv, Trade
    PROVE  \E r \in Candidates, q \in Nat :
              /\ r \in OrderTypes
              /\ TradeOf(incoming, r, q) \in TradeTypes
              /\ tape' = Append(tape, TradeOf(incoming, r, q))
              /\ incoming' = [incoming EXCEPT !.quantity = incoming.quantity - q]
              /\ \A s \in resting' : s \in resting \/ s = [r EXCEPT !.quantity = r.quantity - q]
              /\ \A s \in Candidates : NotWorse(incoming.side, r.price, s.price)
<1> DEFINE q(r) == Lesser(incoming.quantity, r.quantity)
           rest(r) == [r EXCEPT !.quantity = @ - q(r)]
<1>1. PICK r \in Candidates :
        /\ \A s \in Candidates \ {r} : Precedes(r, s)
        /\ tape' = Append(tape, TradeOf(incoming, r, q(r)))
        /\ incoming' = [incoming EXCEPT !.quantity = @ - q(r)]
        /\ resting' = (resting \ {r}) \cup (IF rest(r).quantity > 0 THEN {rest(r)} ELSE {})
  BY DEF Trade
<1>2. /\ incoming \in OrderTypes /\ resting \subseteq OrderTypes
      /\ \A s \in Candidates : s \in OrderTypes /\ s.side # incoming.side
  BY DEF IInv, FlowTypes, Candidates, Acceptable
<1>3. incoming.quantity \in Nat /\ r.quantity \in Nat  BY <1>2 DEF OrderTypes
<1>4. q(r) \in Nat  BY <1>3 DEF Lesser
<1> DEFINE n == q(r)
<1>5. /\ tape' = Append(tape, TradeOf(incoming, r, n))
      /\ incoming' = [incoming EXCEPT !.quantity = incoming.quantity - n]
      /\ \A s \in resting' : s \in resting \/ s = [r EXCEPT !.quantity = r.quantity - n]
      /\ n \in Nat
  BY <1>1, <1>4
<1> HIDE DEF n
<1>6. TradeOf(incoming, r, n) \in TradeTypes
  BY <1>2, <1>5 DEF TradeOf, TradeTypes, OrderTypes
<1>7. ASSUME NEW s \in Candidates PROVE NotWorse(incoming.side, r.price, s.price)
  <2>1. /\ r.price \in Nat /\ s.price \in Nat
        /\ r.side \in {BUY, SELL} /\ s.side \in {BUY, SELL} /\ incoming.side \in {BUY, SELL}
        /\ r.side # incoming.side /\ s.side # incoming.side
    BY <1>2 DEF OrderTypes
  <2>2. CASE r = s  BY <2>1, <2>2 DEF NotWorse
  <2>3. CASE r # s
    <3>1. Precedes(r, s)  BY <1>1, <2>3
    <3>2. r.side = BUY <=> incoming.side # BUY  BY <2>1 DEF BUY, SELL
    <3> QED BY <2>1, <3>1, <3>2 DEF Precedes, NotWorse
  <2> QED BY <2>2, <2>3
<1> QED BY <1>2, <1>5, <1>6, <1>7

LEMMA TradeKeepsSweeps ==
    ASSUME IInv, SInv, EngineTrades
    PROVE  SInv'
<1>1. /\ pc = "engine" /\ Trade
      /\ UNCHANGED <<pc, n_before, whale_events, thresholds, raised, swept, order_count>>
  BY DEF EngineTrades, call, reports, counts
<1>2. PICK r \in Candidates, q \in Nat :
        /\ r \in OrderTypes
        /\ TradeOf(incoming, r, q) \in TradeTypes
        /\ tape' = Append(tape, TradeOf(incoming, r, q))
        /\ incoming' = [incoming EXCEPT !.quantity = incoming.quantity - q]
        /\ \A s \in resting' : s \in resting \/ s = [r EXCEPT !.quantity = r.quantity - q]
        /\ \A s \in Candidates : NotWorse(incoming.side, r.price, s.price)
  BY <1>1, TradesWithBest
<1>3. /\ SweepTypes /\ OrdersKnown /\ Running /\ BestFirst /\ SweptExactly /\ EventsTell
      /\ order_count \in Nat /\ n_before \in Nat
      /\ tape \in Seq(TradeTypes) /\ incoming \in OrderTypes
      /\ resting' \subseteq OrderTypes
  BY <1>1, TradeTypesKept DEF IInv, FlowTypes, SInv, SweepTypes
<1>4. /\ r \in resting /\ Acceptable(incoming, r)
      /\ r.order_id \in Nat /\ r.price \in Nat /\ r.order_id < order_count
      /\ incoming.order_id = order_count /\ n_before <= Len(tape)
      /\ order_count > 0 /\ order_count \notin raised
      /\ \A s \in resting : s.order_id < order_count
      /\ \A k \in 1 .. Len(tape) : k > n_before <=> Taker(tape[k]) = order_count
  BY <1>1, <1>2, <1>3 DEF Candidates, Running, OrderTypes
<1>5. /\ incoming'.order_id = incoming.order_id /\ incoming'.side = incoming.side
      /\ incoming'.price = incoming.price
  BY <1>2, <1>3 DEF OrderTypes
<1> DEFINE t == TradeOf(incoming, r, q)
<1>6. t.price = r.price /\ Taker(t) = order_count
  <2>1. /\ t.price = r.price
        /\ \/ t.buy_id = order_count /\ t.sell_id = r.order_id
           \/ t.sell_id = order_count /\ t.buy_id = r.order_id
    BY <1>4 DEF TradeOf
  <2> HIDE DEF t
  <2>2. ~ (r.order_id > order_count) /\ order_count > r.order_id  BY <1>3, <1>4
  <2> QED BY <2>1, <2>2 DEF Taker
<1> HIDE DEF t
<1>7. /\ Len(tape) \in Nat /\ tape' \in Seq(TradeTypes) /\ Len(tape') = Len(tape) + 1
      /\ tape'[Len(tape) + 1] = t
      /\ \A k \in 1 .. Len(tape) : tape'[k] = tape[k]
      /\ \A k \in 1 .. Len(tape) : tape[k] \in TradeTypes
  BY <1>2, <1>3, AppendProperties, LenProperties, ElementOfSeq DEF t
<1>0. Len(tape) \in Nat /\ Len(tape') = Len(tape) + 1 /\ n_before \in Nat /\ n_before <= Len(tape)
  BY <1>3, <1>4, <1>7
<1>8. \A k \in 1 .. Len(tape') : k \in 1 .. Len(tape) \/ k = Len(tape) + 1  BY <1>0
<1>9. SweepTypes'  BY <1>1, <1>3 DEF SweepTypes
<1>10. ASSUME NEW s \in resting'
       PROVE  \E s0 \in resting : /\ s.order_id = s0.order_id /\ s.price = s0.price
                                  /\ s.side = s0.side /\ (s = s0 \/ s0 = r)
  <2>1. CASE s \in resting  BY <2>1
  <2>2. CASE s = [r EXCEPT !.quantity = r.quantity - q]
    <3>1. s.order_id = r.order_id /\ s.price = r.price /\ s.side = r.side
      BY <1>2, <2>2 DEF OrderTypes
    <3> QED BY <1>4, <3>1
  <2> QED BY <1>2, <2>1, <2>2
<1>11. \A s \in resting' : s.order_id < order_count  BY <1>4, <1>10
<1>12. ASSUME NEW k \in 1 .. Len(tape')
       PROVE  /\ (Taker(tape[k]))' \in 1 .. order_count
              /\ k > n_before <=> (Taker(tape[k]))' = order_count
  <2>1. (Taker(tape[k]))' = Taker(tape'[k])  BY DEF Taker
  <2>2. CASE k \in 1 .. Len(tape)
    <3>1. tape'[k] = tape[k]  BY <1>7, <2>2
    <3>2. Taker(tape[k]) \in 1 .. order_count  BY <1>3, <2>2 DEF OrdersKnown
    <3>3. k > n_before <=> Taker(tape[k]) = order_count  BY <1>4, <2>2
    <3> QED BY <2>1, <3>1, <3>2, <3>3
  <2>3. CASE k = Len(tape) + 1
    <3>1. Taker(tape'[k]) = order_count  BY <1>6, <1>7, <2>3
    <3>2. k > n_before /\ order_count \in 1 .. order_count  BY <1>0, <1>3, <1>4, <2>3
    <3> QED BY <2>1, <3>1, <3>2
  <2> QED BY <1>8, <2>2, <2>3
<1>13. OrdersKnown'
  <2>1. \A s \in resting' : s.order_id <= order_count
    <3>1. \A s \in resting' : s.order_id \in Nat  BY <1>3 DEF OrderTypes
    <3> QED BY <1>3, <1>11, <3>1
  <2> QED BY <1>1, <1>12, <2>1 DEF OrdersKnown
<1>14. Running'
  <2>1. n_before <= Len(tape')  BY <1>0
  <2> QED BY <1>1, <1>4, <1>5, <1>11, <1>12, <2>1 DEF Running
<1>15. ASSUME NEW s \in Candidates'
       PROVE  \E s0 \in Candidates : s.price = s0.price
  <2>1. s \in resting' /\ (Acceptable(incoming, s))'  BY DEF Candidates
  <2>2. PICK s0 \in resting : s.price = s0.price /\ s.side = s0.side  BY <1>10, <2>1
  <2>3. Acceptable(incoming, s0)  BY <1>5, <2>1, <2>2 DEF Acceptable
  <2> QED BY <2>2, <2>3 DEF Candidates
<1>16. \A s \in Candidates : s.price \in Nat
  BY DEF IInv, FlowTypes, Candidates, OrderTypes
<1>17. \A k \in 1 .. Len(tape') : tape'[k].price \in Nat
  <2>1. \A k \in 1 .. Len(tape') : tape'[k] \in TradeTypes  BY <1>7, ElementOfSeq
  <2> QED BY <2>1 DEF TradeTypes
<1>18. ASSUME NEW k \in n_before + 1 .. Len(tape')
       PROVE  /\ \A j \in n_before + 1 .. k :
                    NotWorse(incoming.side, tape'[j].price, tape'[k].price)
              /\ \A s \in Candidates : NotWorse(incoming.side, tape'[k].price, s.price)
  <2>1. CASE k \in n_before + 1 .. Len(tape)
    <3>1. /\ k \in 1 .. Len(tape)
          /\ \A j \in n_before + 1 .. k : j \in 1 .. Len(tape)
      BY <1>0, <2>1
    <3>2. /\ tape'[k] = tape[k] /\ \A j \in n_before + 1 .. k : tape'[j] = tape[j]
      BY <1>7, <3>1
    <3>3. /\ \A j \in n_before + 1 .. k : NotWorse(incoming.side, tape[j].price, tape[k].price)
          /\ \A s \in Candidates : NotWorse(incoming.side, tape[k].price, s.price)
      BY <1>1, <1>3, <2>1 DEF BestFirst
    <3> QED BY <3>2, <3>3
  <2>2. CASE k = Len(tape) + 1
    <3>1. tape'[k].price = r.price  BY <1>6, <1>7, <2>2
    <3>2. ASSUME NEW j \in n_before + 1 .. k
          PROVE  NotWorse(incoming.side, tape'[j].price, r.price)
      <4>1. CASE j = k  BY <1>4, <3>1, <4>1 DEF NotWorse
      <4>2. CASE j # k
        <5>1. j \in n_before + 1 .. Len(tape) /\ j \in 1 .. Len(tape)
          BY <1>0, <2>2, <4>2
        <5>2. NotWorse(incoming.side, tape[j].price, r.price)
          BY <1>1, <1>3, <5>1 DEF BestFirst
        <5> QED BY <1>7, <5>1, <5>2
      <4> QED BY <4>1, <4>2
    <3> QED BY <1>2, <3>1, <3>2
  <2> QED BY <1>0, <2>1, <2>2
<1>19. BestFirst'
  <2> SUFFICES ASSUME NEW k \in n_before + 1 .. Len(tape')
               PROVE  /\ \A j \in n_before + 1 .. k :
                            NotWorse(incoming'.side, tape'[j].price, tape'[k].price)
                      /\ \A s \in Candidates' :
                            NotWorse(incoming'.side, tape'[k].price, s.price)
    BY <1>1 DEF BestFirst, NotWorse
  <2>1. \A s \in Candidates' : NotWorse(incoming.side, tape'[k].price, s.price)
    BY <1>15, <1>18
  <2> QED BY <1>5, <1>18, <2>1
<1>20. \A o : (Returned(o))' <=> Returned(o)  BY <1>1 DEF Returned
<1>21. ASSUME NEW o, o # order_count
       PROVE  (LevelsOf(o))' = LevelsOf(o) /\ (QuantityOf(o))' = QuantityOf(o)
  BY <1>2, <1>3, <1>6, <1>21, TapeGrows DEF t
<1>22. \A o : Returned(o) => o # order_count  BY <1>1 DEF Returned
<1>23. SweptExactly'
  <2>1. \A o : o # order_count => ((IsSweep(o))' <=> IsSweep(o))
    BY <1>1, <1>21 DEF IsSweep
  <2> SUFFICES ASSUME NEW o \in swept \cup (1 .. order_count)
               PROVE  o \in swept <=> (Returned(o))' /\ (IsSweep(o))'
    BY <1>1 DEF SweptExactly
  <2>2. o \in swept <=> Returned(o) /\ IsSweep(o)  BY <1>3 DEF SweptExactly
  <2> QED BY <1>20, <1>22, <2>1, <2>2
<1>24. EventsTell'
  <2>1. NoNewSweep  BY <1>1, <1>3, NoSweepReported DEF SweepTypes
  <2>2. \A o : Returned(o) => /\ (Returned(o))'
                              /\ (LevelsOf(o))' = LevelsOf(o)
                              /\ (QuantityOf(o))' = QuantityOf(o)
    BY <1>20, <1>21, <1>22
  <2> QED BY <1>3, <2>1, <2>2, EventsStillTell
<1> QED BY <1>9, <1>13, <1>14, <1>19, <1>23, <1>24 DEF SInv

LEMMA RaiseKeepsSweeps ==
    ASSUME IInv, SInv, EngineRaises
    PROVE  SInv'
<1>1. /\ pc = "engine" /\ pc' = "idle" /\ raised' = raised \cup {order_count}
      /\ incoming' = NoOrder
      /\ UNCHANGED <<resting, tape, n_before, whale_events, thresholds, swept, order_count>>
  BY DEF EngineRaises, Abort, counts
<1>2. /\ SweepTypes /\ OrdersKnown /\ Running /\ SweptExactly /\ EventsTell
      /\ order_count \in Nat
  BY DEF IInv, FlowTypes, SInv
<1>3. order_count \in 1 .. order_count /\ order_count \notin raised  BY <1>1, <1>2 DEF Running
<1>4. SweepTypes'  BY <1>1, <1>2, <1>3 DEF SweepTypes
<1>5. OrdersKnown'  BY <1>1, <1>2 DEF OrdersKnown, Taker
<1>6. Running' /\ BestFirst'  BY <1>1 DEF Running, BestFirst
<1>7. \A o : (Returned(o))' <=> Returned(o)  BY <1>1 DEF Returned
<1>8. \A o : (LevelsOf(o))' = LevelsOf(o) /\ (QuantityOf(o))' = QuantityOf(o)
  BY <1>1, SameTape
<1>9. SweptExactly'
  <2>1. \A o : (IsSweep(o))' <=> IsSweep(o)  BY <1>1, <1>8 DEF IsSweep
  <2> QED BY <1>1, <1>2, <1>7, <2>1 DEF SweptExactly
<1>10. EventsTell'
  <2>1. NoNewSweep  BY <1>1, <1>2, NoSweepReported DEF SweepTypes
  <2> QED BY <1>2, <1>7, <1>8, <2>1, EventsStillTell
<1> QED BY <1>4, <1>5, <1>6, <1>9, <1>10 DEF SInv

\* The order that returns is reported when, and only when, its fills are a sweep.
LEMMA Detects ==
    ASSUME IInv, SInv, EngineReturns
    PROVE  \/ /\ IsSweep(order_count) /\ swept' = swept \cup {order_count}
              /\ \E e \in Events : Report(e) /\ e.order_id = order_count /\ Tells(e)
           \/ ~ IsSweep(order_count) /\ swept' = swept /\ whale_events' = whale_events
<1> DEFINE fills  == SubSeq(tape, n_before + 1, Len(tape))
           levels == LevelsHit(fills)
           e == [event_type |-> "WHALE_SWEEP", order_id |-> order_count,
                 side |-> incoming.side, quantity |-> Executed(fills),
                 price |-> fills[Min(levels)].price,
                 levels_cleared |-> Cardinality(levels),
                 price_end |-> fills[Max(levels)].price]
<1>1. /\ pc = "engine" /\ incoming.order_id = order_count /\ order_count \in Nat
      /\ incoming.side \in {BUY, SELL}
  BY DEF EngineReturns, SInv, Running, IInv, FlowTypes, OrderTypes
<1>2. /\ Executed(fills) = QuantityOf(order_count) /\ Executed(fills) \in Nat
      /\ Cardinality(levels) \in Nat
      /\ Cardinality(levels) = Cardinality(LevelsOf(order_count))
      /\ Cardinality(levels) > 0 =>
            /\ {fills[Min(levels)].price, fills[Max(levels)].price} \subseteq LevelsOf(order_count)
            /\ {fills[Min(levels)].price, fills[Max(levels)].price} \subseteq Nat
            /\ \A p \in LevelsOf(order_count) :
                  /\ NotWorse(incoming.side, fills[Min(levels)].price, p)
                  /\ NotWorse(incoming.side, p, fills[Max(levels)].price)
  BY <1>1, FillsOfTheOrder
<1>3. IF /\ sweep_min_levels > 0
         /\ Cardinality(levels) >= sweep_min_levels
         /\ Executed(fills) >= thresholds[order_count]
      THEN Report(e) /\ swept' = swept \cup {order_count}
      ELSE UNCHANGED <<whale_events, swept>>
  BY <1>1 DEF EngineReturns, DetectSweep
<1> DEFINE a == fills[Min(levels)].price
           b == fills[Max(levels)].price
           c == Cardinality(levels)
           x == Executed(fills)
<1>4. e = [event_type |-> "WHALE_SWEEP", order_id |-> order_count, side |-> incoming.side,
           quantity |-> x, price |-> a, levels_cleared |-> c, price_end |-> b]
  OBVIOUS
<1>5. /\ x = QuantityOf(order_count) /\ x \in Nat /\ c \in Nat
      /\ c = Cardinality(LevelsOf(order_count))
      /\ c > 0 => /\ {a, b} \subseteq LevelsOf(order_count) /\ {a, b} \subseteq Nat
                  /\ \A p \in LevelsOf(order_count) :
                        NotWorse(incoming.side, a, p) /\ NotWorse(incoming.side, p, b)
  BY <1>2
<1>6. IF sweep_min_levels > 0 /\ c >= sweep_min_levels /\ x >= thresholds[order_count]
      THEN Report(e) /\ swept' = swept \cup {order_count}
      ELSE UNCHANGED <<whale_events, swept>>
  BY <1>3
<1> HIDE DEF e, a, b, c, x, fills, levels
<1>7. IsSweep(order_count) <=>
        sweep_min_levels > 0 /\ c >= sweep_min_levels /\ x >= thresholds[order_count]
  BY <1>5 DEF IsSweep
<1>8. CASE IsSweep(order_count)
  <2>1. Report(e) /\ swept' = swept \cup {order_count}  BY <1>6, <1>7, <1>8
  <2>2. c > 0
    <3>1. sweep_min_levels \in Nat /\ sweep_min_levels > 0 /\ c >= sweep_min_levels
      BY <1>7, <1>8, WhaleMonitorAssumption
    <3>2. c \in Nat  BY <1>5
    <3> QED BY <3>1, <3>2
  <2>3. e \in Events  BY <1>1, <1>4, <1>5, <2>2 DEF Events
  <2>4. /\ e.order_id = order_count /\ e.side = incoming.side /\ e.quantity = x
        /\ e.price = a /\ e.levels_cleared = c /\ e.price_end = b
    BY <1>4
  <2>5. Tells(e)  BY <1>5, <2>2, <2>4 DEF Tells
  <2> QED BY <1>8, <2>1, <2>3, <2>4, <2>5
<1>9. CASE ~ IsSweep(order_count)
  BY <1>6, <1>7, <1>9
<1> QED BY <1>8, <1>9

LEMMA ReturnKeepsSweeps ==
    ASSUME IInv, SInv, EngineReturns
    PROVE  SInv'
<1>1. /\ pc = "engine" /\ pc' \in {"submit", "sync"} /\ incoming' = NoOrder
      /\ resting' \subseteq resting \cup {incoming}
      /\ UNCHANGED <<tape, n_before, thresholds, raised, order_count>>
  BY DEF EngineReturns, Settle, counts
<1>2. /\ SweepTypes /\ OrdersKnown /\ Running /\ SweptExactly /\ EventsTell
      /\ order_count \in Nat /\ whale_events \in Seq(Events)
  BY DEF IInv, FlowTypes, SInv, SweepTypes
<1>3. /\ order_count \in 1 .. order_count /\ order_count \notin raised
      /\ incoming.order_id = order_count
  BY <1>1, <1>2 DEF Running
<1>4. \A o : (LevelsOf(o))' = LevelsOf(o) /\ (QuantityOf(o))' = QuantityOf(o)
  BY <1>1, SameTape
<1>5. \A o : (IsSweep(o))' <=> IsSweep(o)  BY <1>1, <1>4 DEF IsSweep
<1>6. \A o : (Returned(o))' <=> Returned(o) \/ o = order_count
  BY <1>1, <1>3 DEF Returned
<1>7. order_count \notin swept /\ \A o : Returned(o) => o # order_count
  <2>1. \A o : Returned(o) => o # order_count  BY <1>1 DEF Returned
  <2>2. \A o \in swept : Returned(o)  BY <1>2 DEF SweptExactly
  <2> QED BY <2>1, <2>2
<1>8. OrdersKnown'
  <2>1. \A r \in resting' : r.order_id <= order_count  BY <1>1, <1>2, <1>3 DEF OrdersKnown
  <2> QED BY <1>1, <1>2, <2>1 DEF OrdersKnown, Taker
<1>9. Running' /\ BestFirst'  BY <1>1 DEF Running, BestFirst
<1>10. SweptExactly'
  <2>1. swept' = IF IsSweep(order_count) THEN swept \cup {order_count} ELSE swept
    BY Detects
  <2> SUFFICES ASSUME NEW o \in swept' \cup (1 .. order_count)
               PROVE  o \in swept' <=> (Returned(o))' /\ (IsSweep(o))'
    BY <1>1 DEF SweptExactly
  <2>2. CASE o = order_count
    BY <1>5, <1>6, <1>7, <2>1, <2>2
  <2>3. CASE o # order_count
    <3>1. o \in swept' <=> o \in swept  BY <2>1, <2>3
    <3>2. o \in swept \cup (1 .. order_count)  BY <3>1
    <3>3. o \in swept <=> Returned(o) /\ IsSweep(o)  BY <1>2, <3>2 DEF SweptExactly
    <3> QED BY <1>5, <1>6, <2>3, <3>1, <3>3
  <2> QED BY <2>2, <2>3
<1>11. whale_events' \in Seq(Events) /\ EventsTell'
  <2>1. CASE whale_events' = whale_events
    <3>1. NoNewSweep  BY <1>2, <2>1, NoSweepReported
    <3>2. EventsTell'  BY <1>2, <1>4, <1>6, <3>1, EventsStillTell
    <3> QED BY <1>2, <2>1, <3>2
  <2>2. CASE \E e \in Events : Report(e) /\ e.order_id = order_count /\ Tells(e)
    <3>1. PICK e \in Events : Report(e) /\ e.order_id = order_count /\ Tells(e)  BY <2>2
    <3>2. /\ whale_events' \in Seq(Events)
          /\ \A i \in 1 .. Len(whale_events') :
                \/ whale_events'[i] = e
                \/ \E j \in 1 .. Len(whale_events) : whale_events'[i] = whale_events[j]
      BY <1>2, <3>1, Reported
    <3>3. ASSUME NEW d, Tells(d), Returned(d.order_id) \/ d.order_id = order_count
          PROVE  (Returned(d.order_id) /\ Tells(d))'
      <4>1. PICK o : o = d.order_id  OBVIOUS
      <4>2. (Returned(o))' /\ (LevelsOf(o))' = LevelsOf(o) /\ (QuantityOf(o))' = QuantityOf(o)
        BY <1>4, <1>6, <3>3, <4>1
      <4>3. (Tells(d))'  BY <3>3, <4>1, <4>2 DEF Tells
      <4>4. (Returned(d.order_id))'  BY <4>1, <4>2 DEF Returned
      <4> QED BY <4>3, <4>4
    <3>4. EventsTell'
      <4> SUFFICES ASSUME NEW i \in 1 .. Len(whale_events'),
                          whale_events'[i].event_type = "WHALE_SWEEP"
                   PROVE  (Returned(whale_events[i].order_id) /\ Tells(whale_events[i]))'
        BY DEF EventsTell
      <4>1. PICK d : d = whale_events'[i]  OBVIOUS
      <4>2. Tells(d) /\ (Returned(d.order_id) \/ d.order_id = order_count)
        <5>1. CASE d = e  BY <3>1, <5>1
        <5>2. CASE \E j \in 1 .. Len(whale_events) : d = whale_events[j]
          <6>1. PICK j \in 1 .. Len(whale_events) : d = whale_events[j]  BY <5>2
          <6>2. d.event_type = "WHALE_SWEEP"  BY <4>1
          <6> QED BY <1>2, <6>1, <6>2 DEF EventsTell
        <5> QED BY <3>2, <4>1, <5>1, <5>2
      <4>3. (Returned(d.order_id) /\ Tells(d))'  BY <3>3, <4>2
      <4> QED BY <4>1, <4>3 DEF Returned, Tells
    <3> QED BY <3>2, <3>4
  <2> QED BY <2>1, <2>2, Detects
<1>12. SweepTypes'  BY <1>1, <1>2, <1>11 DEF SweepTypes
<1> QED BY <1>8, <1>9, <1>10, <1>11, <1>12 DEF SInv

LEMMA SyncKeepsSweeps ==
    ASSUME IInv, SInv, SyncTrade
    PROVE  SInv'
<1>1. /\ pc = "sync" /\ next \in 1 .. Len(tape)
      /\ UNCHANGED <<resting, incoming, tape, pc, n_before, thresholds, raised, swept,
                     order_count>>
  BY LenProperties DEF SyncTrade, marketVars, counts, IInv, FlowTypes, SyncFollowsTape
<1>2. tape[next] \in TradeTypes /\ whale_events \in Seq(Events)
  BY <1>1, ElementOfSeq DEF IInv, FlowTypes, SInv, SweepTypes
<1> DEFINE e == [event_type |-> "MATCHED_TRADE", buy_id |-> tape[next].buy_id,
                 sell_id |-> tape[next].sell_id, quantity |-> tape[next].qty]
<1>3. e \in Events /\ e.event_type # "WHALE_SWEEP"  BY <1>2 DEF Events, TradeTypes
<1>4. Report(e) \/ UNCHANGED whale_events  BY DEF SyncTrade
<1> HIDE DEF e
<1>5. NoNewSweep  BY <1>2, <1>3, <1>4, NoSweepReported
<1> QED BY <1>1, <1>5, QuietSteps

LEMMA ResetKeepsSweeps ==
    ASSUME SInv, Reset
    PROVE  SInv'
<1>1. /\ pc = "idle" /\ resting' = {} /\ tape' = <<>> /\ order_count' = 0
      /\ whale_events' = <<>> /\ thresholds' = <<>> /\ raised' = {} /\ swept' = {}
      /\ UNCHANGED <<pc, n_before, incoming>>
  BY DEF Reset, call
<1>2. /\ Len(<<>>) = 0 /\ <<>> \in Seq(Nat) /\ <<>> \in Seq(Events) /\ 1 .. 0 = {}
  BY EmptySeq
<1>3. SweepTypes'  BY <1>1, <1>2 DEF SInv, SweepTypes
<1>4. OrdersKnown'  BY <1>1, <1>2 DEF SInv, OrdersKnown
<1>5. Running' /\ BestFirst'  BY <1>1 DEF Running, BestFirst
<1>6. SweptExactly'  BY <1>1, <1>2 DEF SweptExactly
<1>7. EventsTell'  BY <1>1, <1>2 DEF EventsTell
<1> QED BY <1>3, <1>4, <1>5, <1>6, <1>7 DEF SInv

LEMMA InitSInv == Init => SInv
<1> SUFFICES ASSUME Init PROVE SInv
  OBVIOUS
<1>1. /\ pc = "idle" /\ resting = {} /\ tape = <<>> /\ order_count = 0 /\ n_before = 0
      /\ whale_events = <<>> /\ thresholds = <<>> /\ raised = {} /\ swept = {}
      /\ incoming = NoOrder
  BY DEF Init, MarketInit
<1>2. /\ Len(<<>>) = 0 /\ <<>> \in Seq(Nat) /\ <<>> \in Seq(Events) /\ 1 .. 0 = {}
  BY EmptySeq
<1>3. SweepTypes  BY <1>1, <1>2 DEF SweepTypes
<1>4. OrdersKnown  BY <1>1, <1>2 DEF OrdersKnown
<1>5. Running /\ BestFirst  BY <1>1 DEF Running, BestFirst
<1>6. SweptExactly  BY <1>1, <1>2 DEF SweptExactly
<1>7. EventsTell  BY <1>1, <1>2 DEF EventsTell
<1> QED BY <1>3, <1>4, <1>5, <1>6, <1>7 DEF SInv

LEMMA NextSInv == IInv /\ SInv /\ [Next]_vars => SInv'
<1> SUFFICES ASSUME IInv, SInv, [Next]_vars PROVE SInv'
  OBVIOUS
<1>1. CASE BeginCall \/ SyncDone \/ WorkerPops \/ Finished \/ UNCHANGED vars
  <2>1. /\ UNCHANGED <<resting, incoming, tape, n_before, whale_events, thresholds, raised,
                       swept, order_count>>
        /\ pc' = pc \/ (pc # "engine" /\ pc' # "engine")
    BY <1>1 DEF BeginCall, SyncDone, WorkerPops, Finished, vars, marketVars, call, reports, counts
  <2>2. NoNewSweep  BY <2>1, NoSweepReported DEF SInv, SweepTypes
  <2> QED BY <2>1, <2>2, QuietSteps
<1>2. CASE SubmitOrder    BY <1>2, SubmitKeepsSweeps
<1>3. CASE EngineTrades   BY <1>3, TradeKeepsSweeps
<1>4. CASE EngineRaises   BY <1>4, RaiseKeepsSweeps
<1>5. CASE EngineReturns  BY <1>5, ReturnKeepsSweeps
<1>6. CASE SyncTrade      BY <1>6, SyncKeepsSweeps
<1>7. CASE Reset          BY <1>7, ResetKeepsSweeps
<1> QED BY <1>1, <1>2, <1>3, <1>4, <1>5, <1>6, <1>7 DEF Next

----------------------------------------------------------------------------
\* Theorem

LEMMA SweepsTold == IInv /\ SInv => SweepsOfOneOrder
<1> SUFFICES ASSUME IInv, SInv PROVE SweepsOfOneOrder
  OBVIOUS
<1>1. LatestSweepIsShown  BY DisplayShowsIt DEF SInv, SweepTypes
<1>2. swept = {o \in (1 .. order_count) \ raised :
                  /\ pc # "engine" \/ o # order_count
                  /\ sweep_min_levels > 0
                  /\ Cardinality(LevelsOf(o)) >= sweep_min_levels
                  /\ QuantityOf(o) >= thresholds[o]}
  <2>1. \A o \in swept \cup (1 .. order_count) : o \in swept <=> Returned(o) /\ IsSweep(o)
    BY DEF SInv, SweptExactly
  <2> QED BY <2>1 DEF Returned, IsSweep
<1>3. DOMAIN whale_events = 1 .. Len(whale_events)
  BY LenProperties DEF SInv, SweepTypes
<1>4. \A i \in 1 .. Len(whale_events) :
         whale_events[i].event_type = "WHALE_SWEEP" => Tells(whale_events[i])
  BY DEF SInv, EventsTell
<1> QED BY <1>1, <1>2, <1>3, <1>4 DEF SweepsOfOneOrder, Tells, NotWorse

\* A sweep is reported for exactly the orders whose own fills span enough levels and
\* reach the threshold, with their quantity and their best and worst price, however
\* many orders a step submits, whichever raised, and whatever the deque has dropped;
\* and the display shows the latest one that is still in the deque.
THEOREM SweepsExact == Spec => []SweepsOfOneOrder
<1>1. Init => IInv /\ SInv  BY InitIInv, InitSInv
<1>2. (IInv /\ SInv) /\ [Next]_vars => (IInv /\ SInv)'  BY NextIInv, NextSInv
<1> QED BY <1>1, <1>2, SweepsTold, PTL DEF Spec
=============================================================================

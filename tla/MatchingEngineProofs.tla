------------------------ MODULE MatchingEngineProofs ------------------------
(***************************************************************************)
(* For every set of prices, quantities and timestamps, and books of any    *)
(* length: the engine's arrays stay typed, in price-time priority and      *)
(* uncrossed; they implement price-time matching over a set of orders; the *)
(* counter counts the calls that completed; and quantity is conserved.     *)
(* Then ReferenceEngine, whose lists hold the orders of the same market:   *)
(* its lazy sort is enough to implement it too.  The last part is about    *)
(* what readers are told of either engine's books (BookViews): the depth   *)
(* ladder, the dict of levels, the monitor's top of book, the analytics.   *)
(***************************************************************************)
EXTENDS EngineViews, EngineReports, SequenceTheorems, FiniteSetTheorems,
        WellFoundedInduction, TLAPS

\* The inductive invariant.  Priority needs to know that the order being
\* inserted arrived after all that rest: the code never looks at ids, it puts
\* an order behind those equal to it.
ArrivedBefore(book, id) == \A i \in 1 .. Len(book) : book[i].order_id < id

ArrivalOrder ==
    /\ pc = "match" => /\ order.order_id = Len(submitted)
                       /\ ArrivedBefore(buy_orders, order.order_id)
                       /\ ArrivedBefore(sell_orders, order.order_id)
    /\ ArrivedBefore(buy_orders, Len(submitted) + 1)
    /\ ArrivedBefore(sell_orders, Len(submitted) + 1)

IInv == TypeOK /\ ArrivalOrder /\ BooksInPriorityOrder /\ BookNotCrossed

----------------------------------------------------------------------------
\* Lemmas about the operators

\* new is s with e put at position p.
IsInsertion(s, p, e, new) ==
    /\ Len(new) = Len(s) + 1
    /\ \A i \in 1 .. Len(s) + 1 :
          new[i] = IF i < p THEN s[i] ELSE IF i = p THEN e ELSE s[i - 1]

\* Every element of new is e or an element of s.
IsDrawnFrom(s, e, new) ==
    \A i \in 1 .. Len(new) : new[i] = e \/ \E k \in 1 .. Len(s) : new[i] = s[k]

\* What inserting one element does to a sequence.
LEMMA InsertAtProperties ==
    ASSUME NEW S, NEW s \in Seq(S), NEW p \in 1 .. Len(s) + 1, NEW e \in S
    PROVE  InsertAt(s, p, e) \in Seq(S) /\ IsInsertion(s, p, e, InsertAt(s, p, e))
<1> DEFINE left  == SubSeq(s, 1, p - 1)
           right == SubSeq(s, p, Len(s))
<1>0. Len(s) \in Nat /\ \A i \in 1 .. Len(s) : s[i] \in S
  BY LenProperties
<1>1. /\ left \in Seq(S) /\ Len(left) = p - 1
      /\ \A i \in 1 .. p - 1 : left[i] = s[i]
  <2>1. \A i \in 1 .. p - 1 : s[i] \in S  BY <1>0
  <2>2. 1 \in Int /\ p - 1 \in Int  BY <1>0
  <2> QED BY <1>0, <2>1, <2>2, SubSeqProperties
<1>2. /\ right \in Seq(S) /\ Len(right) = Len(s) - p + 1
      /\ \A i \in 1 .. Len(s) - p + 1 : right[i] = s[p + i - 1]
  <2>1. \A i \in p .. Len(s) : s[i] \in S  BY <1>0
  <2> QED BY <1>0, <2>1, SubSeqProperties
<1>3. <<e>> \in Seq(S) /\ Len(<<e>>) = 1 /\ <<e>>[1] = e
  OBVIOUS
<1> DEFINE l1 == left \o <<e>>
<1>4. /\ l1 \in Seq(S) /\ Len(l1) = p
      /\ \A i \in 1 .. p : l1[i] = IF i <= p - 1 THEN left[i] ELSE <<e>>[i - (p - 1)]
  <2> HIDE DEF left
  <2> QED BY <1>0, <1>1, <1>3, ConcatProperties
<1>5. /\ l1 \o right \in Seq(S) /\ Len(l1 \o right) = Len(s) + 1
      /\ \A i \in 1 .. Len(s) + 1 :
            (l1 \o right)[i] = IF i <= p THEN l1[i] ELSE right[i - p]
  <2> HIDE DEF l1, right
  <2>1. /\ l1 \o right \in Seq(S) /\ Len(l1 \o right) = Len(l1) + Len(right)
        /\ \A i \in 1 .. Len(l1) + Len(right) :
              (l1 \o right)[i] = IF i <= Len(l1) THEN l1[i] ELSE right[i - Len(l1)]
    BY <1>2, <1>4, ConcatProperties
  <2>2. Len(l1) = p /\ Len(right) = Len(s) - p + 1 /\ Len(l1) + Len(right) = Len(s) + 1
    BY <1>0, <1>2, <1>4
  <2> QED BY <2>1, <2>2
<1>6. InsertAt(s, p, e) = l1 \o right
  BY DEF InsertAt
<1> HIDE DEF left, right, l1
<1>7. ASSUME NEW i \in 1 .. Len(s) + 1
      PROVE  (l1 \o right)[i] = IF i < p THEN s[i] ELSE IF i = p THEN e ELSE s[i - 1]
  <2>1. CASE i < p  BY <2>1, <1>0, <1>1, <1>4, <1>5
  <2>2. CASE i = p  BY <2>2, <1>0, <1>3, <1>4, <1>5
  <2>3. CASE i > p
    <3>1. i - p \in 1 .. Len(s) - p + 1  BY <2>3, <1>0
    <3>2. right[i - p] = s[p + (i - p) - 1]  BY <3>1, <1>2
    <3>3. p + (i - p) - 1 = i - 1  BY <1>0
    <3> QED BY <2>3, <3>2, <3>3, <1>0, <1>5, SMTT(30)
  <2>4. i < p \/ i = p \/ i > p  BY <1>0
  <2> QED BY <2>1, <2>2, <2>3, <2>4
<1> QED BY <1>5, <1>6, <1>7 DEF IsInsertion

\* Every element of the result is the inserted one or an old one.
LEMMA InsertAtElements ==
    ASSUME NEW S, NEW s \in Seq(S), NEW p \in 1 .. Len(s) + 1, NEW e \in S
    PROVE  InsertAt(s, p, e) \in Seq(S) /\ IsDrawnFrom(s, e, InsertAt(s, p, e))
<1> DEFINE new == InsertAt(s, p, e)
<1>1. new \in Seq(S) /\ IsInsertion(s, p, e, new)  BY InsertAtProperties
<1> HIDE DEF new
<1>2. Len(s) \in Nat /\ Len(new) = Len(s) + 1  BY <1>1, LenProperties DEF IsInsertion
<1>3. ASSUME NEW i \in 1 .. Len(s) + 1, i # p
      PROVE  \E k \in 1 .. Len(s) : new[i] = s[k]
  <2>1. CASE i < p  BY <1>1, <1>2, <2>1 DEF IsInsertion
  <2>2. CASE i > p
    <3>1. i - 1 \in 1 .. Len(s)  BY <1>2, <2>2
    <3> QED BY <1>1, <1>2, <2>2, <3>1 DEF IsInsertion
  <2> QED BY <1>2, <1>3, <2>1, <2>2
<1>4. new[p] = e  BY <1>1, <1>2 DEF IsInsertion
<1>5. IsDrawnFrom(s, e, new)  BY <1>2, <1>3, <1>4 DEF IsDrawnFrom
<1> QED BY <1>1, <1>5 DEF new

\* The orders of one side at prices of P.  Here P is Nat \ {0}, since the calls
\* validate prices; the Python engine further down takes any number.
Priced(P, side) == [order_id: Nat \ {0}, side: {side}, price: P,
                    quantity: Nat \ {0}, timestamp: Nat]

\* Every field that priority compares is a number.
LEMMA PricedFields ==
    ASSUME NEW P \in SUBSET Int, NEW side, NEW a \in Priced(P, side)
    PROVE  /\ a.price \in P /\ a.price \in Int /\ a.timestamp \in Nat
           /\ a.order_id \in Nat \ {0} /\ a.side = side /\ a.quantity \in Nat \ {0}
<1>1. /\ a.price \in P /\ a.timestamp \in Nat
      /\ a.order_id \in Nat \ {0} /\ a.side = side /\ a.quantity \in Nat \ {0}
  BY DEF Priced
<1>2. P \subseteq Int  OBVIOUS
<1> QED BY <1>1, <1>2

LEMMA RestingPrices ==
    /\ Nat \ {0} \in SUBSET Int
    /\ \A side : RestingType(side) = Priced(Nat \ {0}, side)
BY DEF RestingType, Priced

\* new is book without its first d orders, up to the quantities.
IsShifted(book, new, d) ==
    /\ Len(new) = Len(book) - d
    /\ \A i \in 1 .. Len(book) - d :
          /\ i + d \in 1 .. Len(book)
          /\ \E n \in Nat \ {0} : new[i] = [book[i + d] EXCEPT !.quantity = n]

\* Taking q from the best order drops it or changes only its quantity.
LEMMA ReducedProperties ==
    ASSUME NEW P \in SUBSET Int, NEW side \in {BUY, SELL}, NEW book \in Seq(Priced(P, side)), book # <<>>,
           NEW q \in Nat \ {0}, q <= book[1].quantity
    PROVE  /\ Reduced(book, q) \in Seq(Priced(P, side))
           /\ \E d \in {0, 1} : IsShifted(book, Reduced(book, q), d)
<1> DEFINE T == Priced(P, side)
<1>0. /\ Len(book) \in Nat \ {0} /\ book[1] \in T
      /\ \A i \in 1 .. Len(book) : book[i] \in T
  BY LenProperties, EmptySeq
<1>1. CASE book[1].quantity = q
  <2>1. Reduced(book, q) = Tail(book)  BY <1>1 DEF Reduced
  <2>2. /\ Tail(book) \in Seq(T) /\ Len(Tail(book)) = Len(book) - 1
        /\ \A i \in 1 .. Len(book) - 1 : Tail(book)[i] = book[i + 1]
    <3> HIDE DEF T
    <3>1. book \in Seq(T) BY DEF T
    <3> QED BY <3>1, HeadTailProperties
  <2>3. ASSUME NEW i \in 1 .. Len(book) - 1
        PROVE  /\ i + 1 \in 1 .. Len(book)
               /\ \E n \in Nat \ {0} : Tail(book)[i] = [book[i + 1] EXCEPT !.quantity = n]
    <3>1. i + 1 \in 1 .. Len(book)  BY <1>0
    <3>2. book[i + 1] \in T  BY <1>0, <3>1
    <3>3. book[i + 1].quantity \in Nat \ {0}
          /\ book[i + 1] = [book[i + 1] EXCEPT !.quantity = book[i + 1].quantity]
      BY <3>2 DEF Priced
    <3> QED BY <2>2, <3>1, <3>3
  <2>4. IsShifted(book, Tail(book), 1)  BY <2>2, <2>3 DEF IsShifted
  <2> QED BY <2>1, <2>2, <2>4
<1>2. CASE book[1].quantity # q
  <2> DEFINE r == [book[1] EXCEPT !.quantity = book[1].quantity - q]
  <2>1. Reduced(book, q) = [book EXCEPT ![1] = r]  BY <1>2 DEF Reduced
  <2>2. book[1].quantity \in Nat \ {0}  BY <1>0 DEF Priced
  <2>3. book[1].quantity - q \in Nat \ {0}  BY <1>2, <2>2
  <2>4. r \in T  BY <1>0, <2>3 DEF Priced
  <2>5. /\ [book EXCEPT ![1] = r] \in Seq(T)
        /\ Len([book EXCEPT ![1] = r]) = Len(book)
        /\ \A i \in 1 .. Len(book) : [book EXCEPT ![1] = r][i] = IF i = 1 THEN r ELSE book[i]
    <3>1. 1 \in 1 .. Len(book)  BY <1>0
    <3> HIDE DEF T, r
    <3>2. book \in Seq(T) BY DEF T
    <3> QED BY <2>4, <3>1, <3>2, ExceptSeq
  <2>6. ASSUME NEW i \in 1 .. Len(book) - 0
        PROVE  /\ i + 0 \in 1 .. Len(book)
               /\ \E n \in Nat \ {0} :
                     [book EXCEPT ![1] = r][i] = [book[i + 0] EXCEPT !.quantity = n]
    <3>1. i + 0 = i /\ i \in 1 .. Len(book)  BY <1>0
    <3>2. CASE i = 1  BY <3>1, <3>2, <2>3, <2>5
    <3>3. CASE i # 1
      <4>1. book[i] \in T  BY <1>0, <3>1
      <4>2. book[i].quantity \in Nat \ {0}
            /\ book[i] = [book[i] EXCEPT !.quantity = book[i].quantity]
        BY <4>1 DEF Priced
      <4> QED BY <3>1, <3>3, <4>2, <2>5
    <3> QED BY <3>2, <3>3
  <2>7. Len([book EXCEPT ![1] = r]) = Len(book) - 0  BY <1>0, <2>5
  <2> HIDE DEF r
  <2>8. IsShifted(book, [book EXCEPT ![1] = r], 0)  BY <2>6, <2>7 DEF IsShifted
  <2> QED BY <2>1, <2>5, <2>8
<1> QED BY <1>1, <1>2

\* Priority is transitive on one side of the book.
LEMMA PriorityTransitive ==
    ASSUME NEW P \in SUBSET Int, NEW side \in {BUY, SELL}, NEW a \in Priced(P, side),
           NEW b \in Priced(P, side), NEW c \in Priced(P, side),
           HasPriority(a, b), HasPriority(b, c)
    PROVE  HasPriority(a, c)
<1>1. /\ a.price \in Int /\ a.timestamp \in Nat /\ a.order_id \in Nat /\ a.side = side
      /\ b.price \in Int /\ b.timestamp \in Nat /\ b.order_id \in Nat /\ b.side = side
      /\ c.price \in Int /\ c.timestamp \in Nat /\ c.order_id \in Nat
  BY PricedFields
<1> QED BY <1>1 DEF HasPriority, BUY, SELL

\* The insertion loops keep an array in priority order: they put the order
\* before the first one it goes before, so behind those equal to it.
LEMMA InsertKeepsPriority ==
    ASSUME NEW side \in {BUY, SELL}, NEW book \in Seq(RestingType(side)),
           InPriorityOrder(book),
           NEW o \in RestingType(side), ArrivedBefore(book, o.order_id),
           NEW p \in 1 .. Len(book) + 1, IsInsertPosition(book, o, p)
    PROVE  InPriorityOrder(InsertAt(book, p, o))
<1> DEFINE T == RestingType(side)
           new == InsertAt(book, p, o)
<1>0. Len(book) \in Nat /\ \A i \in 1 .. Len(book) : book[i] \in T
  BY LenProperties
<1>1. /\ Len(new) = Len(book) + 1
      /\ \A i \in 1 .. Len(book) + 1 :
            new[i] = IF i < p THEN book[i] ELSE IF i = p THEN o ELSE book[i - 1]
  BY InsertAtProperties DEF IsInsertion
<1>2. ASSUME NEW i \in 1 .. Len(book), i < p  PROVE HasPriority(book[i], o)
  <2>1. book[i] \in T /\ book[i].order_id < o.order_id  BY <1>0 DEF ArrivedBefore
  <2>2. ~ GoesBefore(o, book[i])  BY <1>2, <1>0 DEF IsInsertPosition
  <2>3. /\ o.side = side /\ book[i].side = side
        /\ o.price \in Nat /\ book[i].price \in Nat
        /\ o.timestamp \in Nat /\ book[i].timestamp \in Nat
    BY <2>1 DEF RestingType
  <2> QED BY <2>1, <2>2, <2>3 DEF HasPriority, GoesBefore
<1>3. ASSUME NEW i \in 1 .. Len(book), i >= p  PROVE HasPriority(o, book[i])
  <2>1. p \in 1 .. Len(book)  BY <1>3, <1>0
  <2>2. HasPriority(o, book[p])  BY <2>1 DEF IsInsertPosition, HasPriority, GoesBefore
  <2>3. CASE i = p  BY <2>2, <2>3
  <2>4. CASE i > p
    <3>1. HasPriority(book[p], book[i])  BY <2>1, <2>4 DEF InPriorityOrder
    <3>2. Nat \ {0} \in SUBSET Int /\ T = Priced(Nat \ {0}, side)  BY RestingPrices
    <3> QED BY <1>0, <2>1, <2>2, <3>1, <3>2, PriorityTransitive
  <2> QED BY <1>3, <1>0, <2>3, <2>4
<1>4. SUFFICES ASSUME NEW i \in 1 .. Len(book) + 1, NEW j \in 1 .. Len(book) + 1, i < j
               PROVE  HasPriority(new[i], new[j])
  <2> HIDE DEF new
  <2> QED BY <1>0, <1>1 DEF InPriorityOrder, new
<1> HIDE DEF new
<1>5. CASE j < p
  BY <1>0, <1>1, <1>4, <1>5 DEF InPriorityOrder
<1>6. CASE j = p
  BY <1>0, <1>1, <1>2, <1>4, <1>6
<1>7. CASE j > p
  <2>0. j - 1 \in 1 .. Len(book) /\ new[j] = book[j - 1]  BY <1>0, <1>1, <1>7
  <2>1. CASE i < p
    <3>1. i \in 1 .. Len(book) /\ i < j - 1 /\ new[i] = book[i]  BY <1>0, <1>1, <1>7, <2>1
    <3> QED BY <2>0, <3>1 DEF InPriorityOrder
  <2>2. CASE i = p
    <3>1. j - 1 >= p /\ new[i] = o  BY <1>0, <1>1, <1>7, <2>2
    <3> QED BY <2>0, <3>1, <1>3
  <2>3. CASE i > p
    <3>1. i - 1 \in 1 .. Len(book) /\ i - 1 < j - 1 /\ new[i] = book[i - 1]
      BY <1>0, <1>1, <1>4, <2>3
    <3> QED BY <2>0, <3>1 DEF InPriorityOrder
  <2>4. i < p \/ i = p \/ i > p  BY <1>0
  <2> QED BY <2>1, <2>2, <2>3, <2>4
<1>8. j < p \/ j = p \/ j > p  BY <1>0
<1> QED BY <1>5, <1>6, <1>7, <1>8

\* new is in priority order and its prices and ids are among those of book.
IsReducedBook(book, new) ==
    /\ InPriorityOrder(new)
    /\ \A i \in 1 .. Len(new) : \E k \in 1 .. Len(book) :
          new[i].price = book[k].price /\ new[i].order_id = book[k].order_id

\* Filling the best order keeps the array in priority order, adds no price to
\* it and no later arrival.
LEMMA ReducedKeepsPriority ==
    ASSUME NEW P \in SUBSET Int, NEW side \in {BUY, SELL}, NEW book \in Seq(Priced(P, side)), book # <<>>,
           NEW q \in Nat \ {0}, q <= book[1].quantity, InPriorityOrder(book)
    PROVE  IsReducedBook(book, Reduced(book, q))
<1> DEFINE T == Priced(P, side)
           new == Reduced(book, q)
<1>0. Len(book) \in Nat /\ \A i \in 1 .. Len(book) : book[i] \in T
  BY LenProperties
<1>1. PICK d \in {0, 1} : IsShifted(book, new, d)
  BY ReducedProperties
<1> HIDE DEF new
<1>2. ASSUME NEW i \in 1 .. Len(book) - d
      PROVE  /\ i + d \in 1 .. Len(book)
             /\ new[i].side = book[i + d].side
             /\ new[i].price = book[i + d].price
             /\ new[i].timestamp = book[i + d].timestamp
             /\ new[i].order_id = book[i + d].order_id
  <2>1. i + d \in 1 .. Len(book)  BY <1>1 DEF IsShifted
  <2>2. PICK n \in Nat \ {0} : new[i] = [book[i + d] EXCEPT !.quantity = n]  BY <1>1 DEF IsShifted
  <2>3. book[i + d] \in T  BY <1>0, <2>1
  <2> QED BY <2>1, <2>2, <2>3 DEF Priced
<1>3. ASSUME NEW i \in 1 .. Len(new), NEW j \in 1 .. Len(new), i < j
      PROVE  HasPriority(new[i], new[j])
  <2>1. i \in 1 .. Len(book) - d /\ j \in 1 .. Len(book) - d  BY <1>1 DEF IsShifted
  <2>2. i + d \in 1 .. Len(book) /\ j + d \in 1 .. Len(book) /\ i + d < j + d
    BY <1>2, <2>1, <1>0, <1>3
  <2>3. HasPriority(book[i + d], book[j + d])  BY <2>2 DEF InPriorityOrder
  <2> QED BY <1>2, <2>1, <2>3 DEF HasPriority
<1>4. InPriorityOrder(new)  BY <1>3 DEF InPriorityOrder
<1>5. ASSUME NEW i \in 1 .. Len(new)
      PROVE  \E k \in 1 .. Len(book) : new[i].price = book[k].price
                                    /\ new[i].order_id = book[k].order_id
  BY <1>1, <1>2 DEF IsShifted
<1> QED BY <1>4, <1>5 DEF new, IsReducedBook

----------------------------------------------------------------------------
\* The invariant is inductive

\* The quantity of a trade is positive and within both orders.
LEMMA MatchedQuantityProperties ==
    ASSUME NEW o, NEW best, o.quantity \in Nat \ {0}, best.quantity \in Nat \ {0}
    PROVE  /\ MatchedQuantity(o, best) \in Nat \ {0}
           /\ MatchedQuantity(o, best) <= o.quantity
           /\ MatchedQuantity(o, best) <= best.quantity
BY DEF MatchedQuantity

\* The array that _ensure_*_capacity leaves has room for one more.
LEMMA GrownFits ==
    ASSUME NEW S, NEW a \in Seq(S), NEW capacity, Fits(a, capacity),
           NEW T, NEW b \in Seq(T), Len(b) <= Len(a) + 1
    PROVE  Fits(b, Grown(a, capacity))
<1>1. /\ Len(a) \in Nat /\ Len(b) \in Nat /\ capacity \in Nat /\ Len(a) <= capacity
      /\ InitialCapacity \in Nat /\ InitialCapacity >= 1
  BY LenProperties, MatchingEngineAssumption DEF Fits
<1>2. Grown(a, capacity) \in Nat /\ Len(a) + 1 <= Grown(a, capacity)
  BY <1>1 DEF Grown, IsFull
<1> QED BY <1>1, <1>2 DEF Fits

\* Matching makes no book longer.
LEMMA ReducedFits ==
    ASSUME NEW side \in {BUY, SELL}, NEW book \in Seq(RestingType(side)), book # <<>>,
           NEW q \in Nat \ {0}, q <= book[1].quantity,
           NEW capacity, Fits(book, capacity)
    PROVE  Fits(Reduced(book, q), capacity)
<1>1. Nat \ {0} \in SUBSET Int /\ RestingType(side) = Priced(Nat \ {0}, side)
  BY RestingPrices
<1>2. book \in Seq(Priced(Nat \ {0}, side))  BY <1>1
<1>3. PICK d \in {0, 1} : IsShifted(book, Reduced(book, q), d)
  BY <1>1, <1>2, ReducedProperties
<1>4. Len(Reduced(book, q)) = Len(book) - d  BY <1>3 DEF IsShifted
<1>5. Len(book) \in Nat  BY LenProperties
<1> QED BY <1>4, <1>5 DEF Fits

\* In every typed state the running order's fields have their types.
LEMMA MatchingOrder ==
    ASSUME TypeOK, pc = "match"
    PROVE  /\ order \in OrderType
           /\ order.quantity > 0 => order \in RestingType(order.side)
           /\ order.side = BUY \/ order.side = SELL
BY DEF TypeOK, OrderType, RestingType

LEMMA InitIInv == Init => IInv
<1> SUFFICES ASSUME Init PROVE IInv
  OBVIOUS
<1>1. TypeOK
  <2>1. Fits(buy_orders, buy_capacity) /\ Fits(sell_orders, sell_capacity)
        /\ Fits(trades, trade_capacity)
    BY EmptySeq DEF Init, Fits
  <2> QED BY <2>1, EmptySeq DEF Init, TypeOK
<1>2. Len(buy_orders) = 0 /\ Len(sell_orders) = 0 /\ Len(submitted) = 0
  BY DEF Init
<1>3. ArrivalOrder
  BY <1>2 DEF Init, ArrivalOrder, ArrivedBefore
<1>4. BooksInPriorityOrder /\ BookNotCrossed
  BY <1>2 DEF BooksInPriorityOrder, InPriorityOrder, BookNotCrossed
<1> QED BY <1>1, <1>3, <1>4 DEF IInv

\* A refused call leaves books and history alone.
LEMMA RaiseIInv ==
    ASSUME IInv, NEW in, Refuse(in) \/ CountLimit(in)  PROVE IInv'
<1>1. error' \in {"ValueError", "OverflowError"} /\ pc' = "idle" /\ in_batch' = FALSE
      /\ order' = NoOrder
  BY DEF Refuse, CountLimit, Raise
<1>2. UNCHANGED <<order_count, buy_orders, sell_orders, trades, buy_capacity,
                  sell_capacity, trade_capacity, submitted, failed>>
  BY DEF Refuse, CountLimit, books, capacities, history
<1>3. TypeOK'  BY <1>1, <1>2 DEF IInv, TypeOK, Fits
<1>4. ArrivalOrder'  BY <1>1, <1>2 DEF IInv, ArrivalOrder, ArrivedBefore
<1>5. BooksInPriorityOrder' /\ BookNotCrossed'
  BY <1>2 DEF IInv, BooksInPriorityOrder, InPriorityOrder, HasPriority, BookNotCrossed
<1> QED BY <1>3, <1>4, <1>5 DEF IInv

\* An accepted order arrives after every order that rests.
LEMMA BeginIInv ==
    ASSUME IInv, NEW in \in Inputs, Begin(in), UNCHANGED in_batch  PROVE IInv'
<1>0. /\ UNCHANGED <<order_count, buy_orders, sell_orders, trades, buy_capacity,
                     sell_capacity, trade_capacity, failed, in_batch>>
      /\ submitted' = Append(submitted, order')
      /\ pc' = "match" /\ error' = "none"
  BY DEF Begin, books, capacities
<1>1. submitted \in Seq(OrderType) /\ Len(submitted) \in Nat
  BY LenProperties DEF IInv, TypeOK
<1>2. order'.order_id = Len(submitted) + 1
  BY DEF Begin
<1>3. order' \in OrderType
  <2>1. in.side \in {BUY, SELL} /\ in.price > 0 /\ in.quantity > 0
    BY DEF Begin, Valid
  <2>2. in.price \in Nat /\ in.quantity \in Nat /\ in.timestamp \in Nat
    BY MatchingEngineAssumption
  <2> QED BY <1>1, <2>1, <2>2 DEF Begin, OrderType
<1>4. submitted' \in Seq(OrderType) /\ Len(submitted') = Len(submitted) + 1
  BY <1>0, <1>1, <1>3, AppendProperties
<1>5. TypeOK'
  BY <1>0, <1>3, <1>4 DEF IInv, TypeOK, Fits
<1>6. ArrivalOrder'
  <2>1. /\ \A i \in 1 .. Len(buy_orders)  : buy_orders[i].order_id  < Len(submitted) + 1
        /\ \A i \in 1 .. Len(sell_orders) : sell_orders[i].order_id < Len(submitted) + 1
    BY DEF IInv, ArrivalOrder, ArrivedBefore
  <2>2. /\ \A i \in 1 .. Len(buy_orders)  : buy_orders[i].order_id  \in Nat
        /\ \A i \in 1 .. Len(sell_orders) : sell_orders[i].order_id \in Nat
    <3>1. /\ \A i \in 1 .. Len(buy_orders)  : buy_orders[i]  \in RestingType(BUY)
          /\ \A i \in 1 .. Len(sell_orders) : sell_orders[i] \in RestingType(SELL)
      BY LenProperties DEF IInv, TypeOK
    <3> QED BY <3>1 DEF RestingType
  <2> QED BY <1>0, <1>1, <1>2, <1>4, <2>1, <2>2 DEF ArrivalOrder, ArrivedBefore
<1>7. BooksInPriorityOrder' /\ BookNotCrossed'
  BY <1>0 DEF IInv, BooksInPriorityOrder, InPriorityOrder, HasPriority, BookNotCrossed
<1> QED BY <1>5, <1>6, <1>7 DEF IInv

\* A trade against the best sell: the sells keep their order and their prices.
LEMMA MatchBuyIInv == ASSUME IInv, MatchBuy PROVE IInv'
<1> DEFINE best == sell_orders[1]
           q    == MatchedQuantity(order, best)
           t    == [buy_id |-> order.order_id, sell_id |-> best.order_id,
                    price |-> best.price, qty |-> q]
<1>1. /\ pc = "match" /\ order.side = BUY /\ order.quantity > 0
      /\ sell_orders # <<>>
  BY DEF MatchBuy, Matchable
<1>2. /\ trades' = Append(trades, t)
      /\ trade_capacity' = Grown(trades, trade_capacity)
      /\ order' = [order EXCEPT !.quantity = order.quantity - q]
      /\ sell_orders' = Reduced(sell_orders, q)
      /\ UNCHANGED <<order_count, buy_orders, buy_capacity, sell_capacity,
                     pc, in_batch, error, submitted, failed>>
  BY DEF MatchBuy, RecordTrade, history
<1>3. order \in RestingType(BUY) /\ order.order_id \in Nat \ {0}
  BY <1>1, MatchingOrder DEF IInv, RestingType
<1>4. /\ sell_orders \in Seq(RestingType(SELL)) /\ Len(sell_orders) \in Nat \ {0}
      /\ best \in RestingType(SELL)
      /\ buy_orders \in Seq(RestingType(BUY))
  BY <1>1, EmptySeq, LenProperties DEF IInv, TypeOK
<1>5. q \in Nat \ {0} /\ q <= order.quantity /\ q <= best.quantity
  <2>1. order.quantity \in Nat \ {0} /\ best.quantity \in Nat \ {0}
    BY <1>3, <1>4 DEF RestingType
  <2> QED BY <2>1, MatchedQuantityProperties
<1>6. t \in TradeType
  BY <1>3, <1>4, <1>5 DEF TradeType, RestingType
<1> HIDE DEF q, t
<1>7. sell_orders' \in Seq(RestingType(SELL))
  <2>1. Nat \ {0} \in SUBSET Int /\ RestingType(SELL) = Priced(Nat \ {0}, SELL)
    BY RestingPrices
  <2>2. sell_orders \in Seq(Priced(Nat \ {0}, SELL))  BY <1>4, <2>1
  <2>3. Reduced(sell_orders, q) \in Seq(Priced(Nat \ {0}, SELL))
    BY <1>1, <1>5, <2>1, <2>2, ReducedProperties DEF SELL
  <2> QED BY <1>2, <2>1, <2>3
<1>8. /\ InPriorityOrder(sell_orders')
      /\ \A i \in 1 .. Len(sell_orders') : \E k \in 1 .. Len(sell_orders) :
            /\ sell_orders'[i].price = sell_orders[k].price
            /\ sell_orders'[i].order_id = sell_orders[k].order_id
  <2>1. SELL \in {BUY, SELL} /\ InPriorityOrder(sell_orders)  BY DEF IInv, BooksInPriorityOrder
  <2>2. /\ sell_orders \in Seq(Priced(Nat \ {0}, SELL)) /\ sell_orders # <<>>
        /\ Nat \ {0} \in SUBSET Int
    BY <1>1, <1>4, RestingPrices
  <2>3. IsReducedBook(sell_orders, Reduced(sell_orders, q))  BY <1>5, <2>1, <2>2, ReducedKeepsPriority
  <2> QED BY <1>2, <2>3 DEF IsReducedBook
<1>9. TypeOK'
  <2>1. order' \in OrderType
    BY <1>2, <1>3, <1>5 DEF OrderType, RestingType, BUY
  <2>2. trades' \in Seq(TradeType)
    BY <1>2, <1>6, AppendProperties DEF IInv, TypeOK
  <2>3. Fits(trades, trade_capacity)'
    <3>1. trades \in Seq(TradeType) /\ Fits(trades, trade_capacity)  BY DEF IInv, TypeOK
    <3>2. Len(trades') = Len(trades) + 1  BY <1>2, <1>6, <3>1, AppendProperties
    <3>3. Len(trades') <= Len(trades) + 1  BY <3>1, <3>2, LenProperties
    <3> QED BY <1>2, <2>2, <3>1, <3>3, GrownFits DEF Fits
  <2>4. Fits(sell_orders, sell_capacity)'
    <3>1. Fits(sell_orders, sell_capacity) /\ SELL \in {BUY, SELL}  BY DEF IInv, TypeOK
    <3> QED BY <1>1, <1>2, <1>4, <1>5, <3>1, ReducedFits DEF Fits
  <2>5. Fits(buy_orders, buy_capacity)'  BY <1>2 DEF IInv, TypeOK, Fits
  <2> QED BY <1>1, <1>2, <1>7, <2>1, <2>2, <2>3, <2>4, <2>5 DEF IInv, TypeOK
<1>10. ArrivalOrder'
  <2>1. order'.order_id = order.order_id
    BY <1>2, <1>3 DEF RestingType
  <2> QED BY <1>1, <1>2, <1>8, <2>1 DEF IInv, ArrivalOrder, ArrivedBefore
<1>11. BooksInPriorityOrder'
  BY <1>2, <1>8 DEF IInv, BooksInPriorityOrder, InPriorityOrder, HasPriority
<1>12. BookNotCrossed'
  BY <1>2, <1>8 DEF IInv, BookNotCrossed
<1> QED BY <1>9, <1>10, <1>11, <1>12 DEF IInv

\* The mirror image: a trade against the best buy.
LEMMA MatchSellIInv == ASSUME IInv, MatchSell PROVE IInv'
<1> DEFINE best == buy_orders[1]
           q    == MatchedQuantity(order, best)
           t    == [buy_id |-> best.order_id, sell_id |-> order.order_id,
                    price |-> best.price, qty |-> q]
<1>1. /\ pc = "match" /\ order.side = SELL /\ order.quantity > 0
      /\ buy_orders # <<>>
  BY DEF MatchSell, Matchable, BUY, SELL
<1>2. /\ trades' = Append(trades, t)
      /\ trade_capacity' = Grown(trades, trade_capacity)
      /\ order' = [order EXCEPT !.quantity = order.quantity - q]
      /\ buy_orders' = Reduced(buy_orders, q)
      /\ UNCHANGED <<order_count, sell_orders, buy_capacity, sell_capacity,
                     pc, in_batch, error, submitted, failed>>
  BY DEF MatchSell, RecordTrade, history
<1>3. order \in RestingType(SELL) /\ order.order_id \in Nat \ {0}
  BY <1>1, MatchingOrder DEF IInv, RestingType
<1>4. /\ buy_orders \in Seq(RestingType(BUY)) /\ Len(buy_orders) \in Nat \ {0}
      /\ best \in RestingType(BUY)
      /\ sell_orders \in Seq(RestingType(SELL))
  BY <1>1, EmptySeq, LenProperties DEF IInv, TypeOK
<1>5. q \in Nat \ {0} /\ q <= order.quantity /\ q <= best.quantity
  <2>1. order.quantity \in Nat \ {0} /\ best.quantity \in Nat \ {0}
    BY <1>3, <1>4 DEF RestingType
  <2> QED BY <2>1, MatchedQuantityProperties
<1>6. t \in TradeType
  BY <1>3, <1>4, <1>5 DEF TradeType, RestingType
<1> HIDE DEF q, t
<1>7. buy_orders' \in Seq(RestingType(BUY))
  <2>1. Nat \ {0} \in SUBSET Int /\ RestingType(BUY) = Priced(Nat \ {0}, BUY)
    BY RestingPrices
  <2>2. buy_orders \in Seq(Priced(Nat \ {0}, BUY))  BY <1>4, <2>1
  <2>3. Reduced(buy_orders, q) \in Seq(Priced(Nat \ {0}, BUY))
    BY <1>1, <1>5, <2>1, <2>2, ReducedProperties DEF BUY
  <2> QED BY <1>2, <2>1, <2>3
<1>8. /\ InPriorityOrder(buy_orders')
      /\ \A i \in 1 .. Len(buy_orders') : \E k \in 1 .. Len(buy_orders) :
            /\ buy_orders'[i].price = buy_orders[k].price
            /\ buy_orders'[i].order_id = buy_orders[k].order_id
  <2>1. BUY \in {BUY, SELL} /\ InPriorityOrder(buy_orders)  BY DEF IInv, BooksInPriorityOrder
  <2>2. /\ buy_orders \in Seq(Priced(Nat \ {0}, BUY)) /\ buy_orders # <<>>
        /\ Nat \ {0} \in SUBSET Int
    BY <1>1, <1>4, RestingPrices
  <2>3. IsReducedBook(buy_orders, Reduced(buy_orders, q))  BY <1>5, <2>1, <2>2, ReducedKeepsPriority
  <2> QED BY <1>2, <2>3 DEF IsReducedBook
<1>9. TypeOK'
  <2>1. order' \in OrderType
    BY <1>2, <1>3, <1>5 DEF OrderType, RestingType, SELL
  <2>2. trades' \in Seq(TradeType)
    BY <1>2, <1>6, AppendProperties DEF IInv, TypeOK
  <2>3. Fits(trades, trade_capacity)'
    <3>1. trades \in Seq(TradeType) /\ Fits(trades, trade_capacity)  BY DEF IInv, TypeOK
    <3>2. Len(trades') = Len(trades) + 1  BY <1>2, <1>6, <3>1, AppendProperties
    <3>3. Len(trades') <= Len(trades) + 1  BY <3>1, <3>2, LenProperties
    <3> QED BY <1>2, <2>2, <3>1, <3>3, GrownFits DEF Fits
  <2>4. Fits(buy_orders, buy_capacity)'
    <3>1. Fits(buy_orders, buy_capacity) /\ BUY \in {BUY, SELL}  BY DEF IInv, TypeOK
    <3> QED BY <1>1, <1>2, <1>4, <1>5, <3>1, ReducedFits DEF Fits
  <2>5. Fits(sell_orders, sell_capacity)'  BY <1>2 DEF IInv, TypeOK, Fits
  <2> QED BY <1>1, <1>2, <1>7, <2>1, <2>2, <2>3, <2>4, <2>5 DEF IInv, TypeOK
<1>10. ArrivalOrder'
  <2>1. order'.order_id = order.order_id
    BY <1>2, <1>3 DEF RestingType
  <2> QED BY <1>1, <1>2, <1>8, <2>1 DEF IInv, ArrivalOrder, ArrivedBefore
<1>11. BooksInPriorityOrder'
  BY <1>2, <1>8 DEF IInv, BooksInPriorityOrder, InPriorityOrder, HasPriority
<1>12. BookNotCrossed'
  BY <1>2, <1>8 DEF IInv, BookNotCrossed
<1> QED BY <1>9, <1>10, <1>11, <1>12 DEF IInv

\* A remaining buy is inserted in its place.  It crosses no sell: the loop
\* ended on the best sell, and every other sell asks at least as much.
LEMMA InsertBuyIInv == ASSUME IInv, InsertBuy PROVE IInv'
<1>1. /\ pc = "match" /\ order.side = BUY /\ order.quantity > 0 /\ ~ Matchable
  BY DEF InsertBuy
<1>2. PICK p \in 1 .. Len(buy_orders) + 1 :
        /\ IsInsertPosition(buy_orders, order, p)
        /\ buy_orders' = InsertAt(buy_orders, p, order)
  BY DEF InsertBuy
<1>3. /\ order_count' = order_count + 1
      /\ pc' \in {"batch", "idle"} /\ order' = NoOrder
      /\ buy_capacity' = Grown(buy_orders, buy_capacity)
      /\ UNCHANGED <<sell_orders, sell_capacity, in_batch, error, trades,
                     trade_capacity, submitted, failed>>
  BY DEF InsertBuy, Finish, history
<1>4. /\ order \in RestingType(BUY)
      /\ buy_orders \in Seq(RestingType(BUY)) /\ Len(buy_orders) \in Nat
      /\ sell_orders \in Seq(RestingType(SELL)) /\ Len(sell_orders) \in Nat
      /\ \A i \in 1 .. Len(sell_orders) : sell_orders[i] \in RestingType(SELL)
      /\ \A i \in 1 .. Len(buy_orders) : buy_orders[i] \in RestingType(BUY)
      /\ Len(submitted) \in Nat
  BY <1>1, MatchingOrder, LenProperties DEF IInv, TypeOK
<1>5. ArrivedBefore(buy_orders, order.order_id) /\ order.order_id = Len(submitted)
  BY <1>1 DEF IInv, ArrivalOrder
<1>6. /\ buy_orders' \in Seq(RestingType(BUY))
      /\ \A i \in 1 .. Len(buy_orders') :
            buy_orders'[i] = order \/ \E k \in 1 .. Len(buy_orders) : buy_orders'[i] = buy_orders[k]
  <2>1. buy_orders \in Seq(RestingType(BUY)) /\ order \in RestingType(BUY)  BY <1>4
  <2>2. /\ InsertAt(buy_orders, p, order) \in Seq(RestingType(BUY))
        /\ IsDrawnFrom(buy_orders, order, InsertAt(buy_orders, p, order))
    BY <2>1, InsertAtElements
  <2> QED BY <1>2, <2>2 DEF IsDrawnFrom
<1>7. /\ order.order_id \in Nat /\ order.price \in Nat
      /\ \A k \in 1 .. Len(buy_orders) : buy_orders[k].order_id \in Nat
      /\ \A k \in 1 .. Len(sell_orders) : sell_orders[k].price \in Nat
  BY <1>4 DEF RestingType
<1>8. TypeOK'
  <2>1. Fits(buy_orders, buy_capacity)'
    <3>1. Fits(buy_orders, buy_capacity)  BY DEF IInv, TypeOK
    <3>2. Len(buy_orders') = Len(buy_orders) + 1
      BY <1>2, <1>4, InsertAtProperties DEF IsInsertion
    <3>3. Len(buy_orders') <= Len(buy_orders) + 1  BY <1>4, <3>2
    <3> QED BY <1>3, <1>4, <1>6, <3>1, <3>3, GrownFits DEF Fits
  <2>2. Fits(sell_orders, sell_capacity)' /\ Fits(trades, trade_capacity)'
    BY <1>3 DEF IInv, TypeOK, Fits
  <2> QED BY <1>3, <1>6, <2>1, <2>2 DEF IInv, TypeOK
<1>9. ArrivalOrder'
  <2>1. ASSUME NEW i \in 1 .. Len(buy_orders')
        PROVE  buy_orders'[i].order_id < Len(submitted) + 1
    <3>1. CASE buy_orders'[i] = order  BY <1>4, <1>5, <1>7, <3>1
    <3>2. CASE \E k \in 1 .. Len(buy_orders) : buy_orders'[i] = buy_orders[k]
      BY <1>4, <1>5, <1>7, <3>2, SMTT(30) DEF ArrivedBefore
    <3> QED BY <1>6, <3>1, <3>2
  <2> QED BY <1>3, <2>1 DEF IInv, ArrivalOrder, ArrivedBefore
<1>10. BooksInPriorityOrder'
  <2>1. InPriorityOrder(InsertAt(buy_orders, p, order))
    BY <1>2, <1>4, <1>5, InsertKeepsPriority DEF IInv, BooksInPriorityOrder, BUY
  <2>2. InPriorityOrder(buy_orders')  BY <1>2, <2>1
  <2> QED BY <1>3, <2>2
        DEF IInv, BooksInPriorityOrder, InPriorityOrder, HasPriority
<1>11. BookNotCrossed'
  <2>1. ASSUME NEW j \in 1 .. Len(sell_orders) PROVE order.price < sell_orders[j].price
    <3>1. Len(sell_orders) # 0 /\ 1 \in 1 .. Len(sell_orders)  BY <1>4
    <3>2. sell_orders # <<>>  BY <3>1
    <3>3. order.price < sell_orders[1].price
      <4>1. ~ (sell_orders[1].price <= order.price)  BY <1>1, <3>2 DEF Matchable
      <4> QED BY <1>7, <3>1, <4>1
    <3>4. CASE j = 1  BY <3>3, <3>4
    <3>5. CASE j # 1
      <4>1. HasPriority(sell_orders[1], sell_orders[j])
        BY <1>4, <3>1, <3>5, SMTT(30) DEF IInv, BooksInPriorityOrder, InPriorityOrder
      <4>2. sell_orders[1] \in RestingType(SELL) /\ sell_orders[j] \in RestingType(SELL)
        BY <1>4, <3>1
      <4>3. sell_orders[1].price <= sell_orders[j].price
        BY <4>1, <4>2 DEF HasPriority, RestingType, BUY, SELL
      <4>4. order.price \in Nat /\ sell_orders[1].price \in Nat /\ sell_orders[j].price \in Nat
        BY <1>4, <4>2 DEF RestingType
      <4> QED BY <3>3, <4>3, <4>4
    <3> QED BY <3>4, <3>5
  <2>2. ASSUME NEW i \in 1 .. Len(buy_orders'), NEW j \in 1 .. Len(sell_orders)
        PROVE  buy_orders'[i].price < sell_orders[j].price
    BY <1>6, <2>1 DEF IInv, BookNotCrossed
  <2> QED BY <1>3, <2>2 DEF BookNotCrossed
<1> QED BY <1>8, <1>9, <1>10, <1>11 DEF IInv

\* The mirror image: a remaining sell.
LEMMA InsertSellIInv == ASSUME IInv, InsertSell PROVE IInv'
<1>1. /\ pc = "match" /\ order.side = SELL /\ order.quantity > 0 /\ ~ Matchable
  BY DEF InsertSell
<1>2. PICK p \in 1 .. Len(sell_orders) + 1 :
        /\ IsInsertPosition(sell_orders, order, p)
        /\ sell_orders' = InsertAt(sell_orders, p, order)
  BY DEF InsertSell
<1>3. /\ order_count' = order_count + 1
      /\ pc' \in {"batch", "idle"} /\ order' = NoOrder
      /\ sell_capacity' = Grown(sell_orders, sell_capacity)
      /\ UNCHANGED <<buy_orders, buy_capacity, in_batch, error, trades,
                     trade_capacity, submitted, failed>>
  BY DEF InsertSell, Finish, history
<1>4. /\ order \in RestingType(SELL)
      /\ sell_orders \in Seq(RestingType(SELL)) /\ Len(sell_orders) \in Nat
      /\ buy_orders \in Seq(RestingType(BUY)) /\ Len(buy_orders) \in Nat
      /\ \A i \in 1 .. Len(buy_orders) : buy_orders[i] \in RestingType(BUY)
      /\ \A i \in 1 .. Len(sell_orders) : sell_orders[i] \in RestingType(SELL)
      /\ Len(submitted) \in Nat
  BY <1>1, MatchingOrder, LenProperties DEF IInv, TypeOK
<1>5. ArrivedBefore(sell_orders, order.order_id) /\ order.order_id = Len(submitted)
  BY <1>1 DEF IInv, ArrivalOrder
<1>6. /\ sell_orders' \in Seq(RestingType(SELL))
      /\ \A i \in 1 .. Len(sell_orders') :
            sell_orders'[i] = order \/ \E k \in 1 .. Len(sell_orders) : sell_orders'[i] = sell_orders[k]
  <2>1. sell_orders \in Seq(RestingType(SELL)) /\ order \in RestingType(SELL)  BY <1>4
  <2>2. /\ InsertAt(sell_orders, p, order) \in Seq(RestingType(SELL))
        /\ IsDrawnFrom(sell_orders, order, InsertAt(sell_orders, p, order))
    BY <2>1, InsertAtElements
  <2> QED BY <1>2, <2>2 DEF IsDrawnFrom
<1>7. /\ order.order_id \in Nat /\ order.price \in Nat
      /\ \A k \in 1 .. Len(sell_orders) : sell_orders[k].order_id \in Nat
      /\ \A k \in 1 .. Len(buy_orders) : buy_orders[k].price \in Nat
  BY <1>4 DEF RestingType
<1>8. TypeOK'
  <2>1. Fits(sell_orders, sell_capacity)'
    <3>1. Fits(sell_orders, sell_capacity)  BY DEF IInv, TypeOK
    <3>2. Len(sell_orders') = Len(sell_orders) + 1
      BY <1>2, <1>4, InsertAtProperties DEF IsInsertion
    <3>3. Len(sell_orders') <= Len(sell_orders) + 1  BY <1>4, <3>2
    <3> QED BY <1>3, <1>4, <1>6, <3>1, <3>3, GrownFits DEF Fits
  <2>2. Fits(buy_orders, buy_capacity)' /\ Fits(trades, trade_capacity)'
    BY <1>3 DEF IInv, TypeOK, Fits
  <2> QED BY <1>3, <1>6, <2>1, <2>2 DEF IInv, TypeOK
<1>9. ArrivalOrder'
  <2>1. ASSUME NEW i \in 1 .. Len(sell_orders')
        PROVE  sell_orders'[i].order_id < Len(submitted) + 1
    <3>1. CASE sell_orders'[i] = order  BY <1>4, <1>5, <1>7, <3>1
    <3>2. CASE \E k \in 1 .. Len(sell_orders) : sell_orders'[i] = sell_orders[k]
      BY <1>4, <1>5, <1>7, <3>2 DEF ArrivedBefore
    <3> QED BY <1>6, <3>1, <3>2
  <2> QED BY <1>3, <2>1 DEF IInv, ArrivalOrder, ArrivedBefore
<1>10. BooksInPriorityOrder'
  <2>1. InPriorityOrder(InsertAt(sell_orders, p, order))
    BY <1>2, <1>4, <1>5, InsertKeepsPriority DEF IInv, BooksInPriorityOrder, SELL
  <2>2. InPriorityOrder(sell_orders')  BY <1>2, <2>1
  <2> QED BY <1>3, <2>2
        DEF IInv, BooksInPriorityOrder, InPriorityOrder, HasPriority
<1>11. BookNotCrossed'
  <2>1. ASSUME NEW j \in 1 .. Len(buy_orders) PROVE buy_orders[j].price < order.price
    <3>1. Len(buy_orders) # 0 /\ 1 \in 1 .. Len(buy_orders)  BY <1>4
    <3>2. buy_orders # <<>>  BY <3>1
    <3>3. buy_orders[1].price < order.price
      <4>1. ~ (buy_orders[1].price >= order.price)
        BY <1>1, <3>2 DEF Matchable, BUY, SELL
      <4> QED BY <1>7, <3>1, <4>1
    <3>4. CASE j = 1  BY <3>3, <3>4
    <3>5. CASE j # 1
      <4>1. HasPriority(buy_orders[1], buy_orders[j])
        BY <1>4, <3>1, <3>5 DEF IInv, BooksInPriorityOrder, InPriorityOrder
      <4>2. buy_orders[1] \in RestingType(BUY) /\ buy_orders[j] \in RestingType(BUY)
        BY <1>4, <3>1
      <4>3. buy_orders[1].price >= buy_orders[j].price
        BY <4>1, <4>2 DEF HasPriority, RestingType, BUY, SELL
      <4>4. order.price \in Nat /\ buy_orders[1].price \in Nat /\ buy_orders[j].price \in Nat
        BY <1>4, <4>2 DEF RestingType
      <4> QED BY <3>3, <4>3, <4>4
    <3> QED BY <3>4, <3>5
  <2>2. ASSUME NEW i \in 1 .. Len(buy_orders), NEW j \in 1 .. Len(sell_orders')
        PROVE  buy_orders[i].price < sell_orders'[j].price
    BY <1>6, <2>1 DEF IInv, BookNotCrossed
  <2> QED BY <1>3, <2>2 DEF BookNotCrossed
<1> QED BY <1>8, <1>9, <1>10, <1>11 DEF IInv

\* Steps that leave books and history alone: the start and end of a batch, the
\* end of a fully filled order, a failed allocation.
LEMMA ControlIInv ==
    ASSUME IInv, BatchStart \/ BatchReturn \/ Filled \/ OutOfMemory  PROVE IInv'
<1>1. /\ UNCHANGED <<buy_orders, sell_orders, trades, buy_capacity, sell_capacity,
                     trade_capacity, submitted>>
      /\ order_count' \in {order_count, order_count + 1}
      /\ pc' \in {"idle", "batch"} /\ order' = NoOrder
      /\ in_batch' \in {TRUE, FALSE, in_batch}
      /\ error' \in {error, "none", "MemoryError"}
      /\ failed' \in {failed, failed \cup {order.order_id}}
  <2>1. CASE BatchStart
    BY <2>1 DEF BatchStart, books, capacities, history, IInv, TypeOK
  <2>2. CASE BatchReturn
    BY <2>2 DEF BatchReturn, books, capacities, history, IInv, TypeOK
  <2>3. CASE Filled
    BY <2>3 DEF Filled, Finish, books, capacities, history
  <2>4. CASE OutOfMemory
    BY <2>4 DEF OutOfMemory, Raise, books, capacities, history
  <2> QED BY <2>1, <2>2, <2>3, <2>4
<1>2. failed' \subseteq Nat
  <2>1. CASE OutOfMemory
    <3>1. order.order_id \in Nat
      BY <2>1, MatchingOrder DEF OutOfMemory, IInv, OrderType
    <3> QED BY <1>1, <3>1 DEF IInv, TypeOK
  <2>2. CASE ~ OutOfMemory
    <3>1. failed' = failed
      BY <2>2 DEF BatchStart, BatchReturn, Filled, Finish, history
    <3> QED BY <3>1 DEF IInv, TypeOK
  <2> QED BY <2>1, <2>2
<1>3. TypeOK'
  <2>1. in_batch' \in BOOLEAN  BY <1>1 DEF IInv, TypeOK
  <2>2. order_count' \in Nat  BY <1>1 DEF IInv, TypeOK
  <2>3. error' \in {"none", "ValueError", "OverflowError", "MemoryError"}
    BY <1>1 DEF IInv, TypeOK
  <2> QED BY <1>1, <1>2, <2>1, <2>2, <2>3 DEF IInv, TypeOK, Fits
<1>4. ArrivalOrder'  BY <1>1 DEF IInv, ArrivalOrder, ArrivedBefore
<1>5. BooksInPriorityOrder' /\ BookNotCrossed'
  BY <1>1 DEF IInv, BooksInPriorityOrder, InPriorityOrder, HasPriority, BookNotCrossed
<1> QED BY <1>3, <1>4, <1>5 DEF IInv

LEMMA StutterIInv == ASSUME IInv, UNCHANGED vars PROVE IInv'
<1>1. UNCHANGED <<order_count, buy_orders, sell_orders, trades, buy_capacity,
                  sell_capacity, trade_capacity, pc, in_batch, order, error,
                  submitted, failed>>
  BY DEF vars, books, capacities, control, history
<1>2. TypeOK'  BY <1>1 DEF IInv, TypeOK, Fits
<1>3. ArrivalOrder'  BY <1>1 DEF IInv, ArrivalOrder, ArrivedBefore
<1>4. BooksInPriorityOrder' /\ BookNotCrossed'
  BY <1>1 DEF IInv, BooksInPriorityOrder, InPriorityOrder, HasPriority, BookNotCrossed
<1> QED BY <1>2, <1>3, <1>4 DEF IInv

LEMMA NextIInv == IInv /\ [Next]_vars => IInv'
<1> SUFFICES ASSUME IInv, [Next]_vars PROVE IInv'
  OBVIOUS
<1>1. CASE AddOrder
  BY <1>1, RaiseIInv, BeginIInv DEF AddOrder
<1>2. CASE BatchMember
  BY <1>2, RaiseIInv, BeginIInv DEF BatchMember
<1>3. CASE BatchStart \/ BatchReturn \/ Filled \/ OutOfMemory
  BY <1>3, ControlIInv
<1>4. CASE MatchBuy  BY <1>4, MatchBuyIInv
<1>5. CASE MatchSell  BY <1>5, MatchSellIInv
<1>6. CASE InsertBuy  BY <1>6, InsertBuyIInv
<1>7. CASE InsertSell  BY <1>7, InsertSellIInv
<1>8. CASE UNCHANGED vars  BY <1>8, StutterIInv
<1> QED BY <1>1, <1>2, <1>3, <1>4, <1>5, <1>6, <1>7, <1>8 DEF Next

LEMMA Invariance == Spec => []IInv
BY InitIInv, NextIInv, PTL DEF Spec

----------------------------------------------------------------------------
\* Theorems

\* The engine's fields keep their types: no order of quantity 0 ever rests, none
\* rests on the wrong side, and no array outgrows its allocation.
THEOREM TypeCorrect == Spec => []TypeOK
<1>1. IInv => TypeOK  BY DEF IInv
<1> QED BY <1>1, Invariance, PTL

\* Price-time priority: whatever the timestamps, the arrays the matching loops
\* take their first element from are sorted by price, timestamp and arrival.
THEOREM PriorityOrder == Spec => []BooksInPriorityOrder
<1>1. IInv => BooksInPriorityOrder  BY DEF IInv
<1> QED BY <1>1, Invariance, PTL

\* The book is never crossed, not even between two trades of one order or after
\* a call that raised.
THEOREM NeverCrossed == Spec => []BookNotCrossed
<1>1. IInv => BookNotCrossed  BY DEF IInv
<1> QED BY <1>1, Invariance, PTL

----------------------------------------------------------------------------
\* A sorted array as a set

LEMMA Elements ==
    ASSUME NEW S, NEW s \in Seq(S)
    PROVE  /\ ToSet(s) = {s[i] : i \in 1 .. Len(s)} /\ Len(s) \in Nat
           /\ \A i \in 1 .. Len(s) : s[i] \in S /\ s[i] \in ToSet(s)
           /\ \A e \in ToSet(s) : \E i \in 1 .. Len(s) : e = s[i]
           /\ s # <<>> => 1 \in 1 .. Len(s)
<1>1. DOMAIN s = 1 .. Len(s) /\ Len(s) \in Nat /\ (s # <<>> => Len(s) # 0)
  BY LenProperties, EmptySeq
<1>2. \A i \in 1 .. Len(s) : s[i] \in S  BY ElementOfSeq
<1> QED BY <1>1, <1>2 DEF ToSet

LEMMA InsertedElement ==
    ASSUME NEW S, NEW s \in Seq(S), NEW p \in 1 .. Len(s) + 1, NEW e \in S
    PROVE  ToSet(InsertAt(s, p, e)) = ToSet(s) \cup {e}
<1> DEFINE new == InsertAt(s, p, e)
<1>1. new \in Seq(S) /\ IsInsertion(s, p, e, new) /\ IsDrawnFrom(s, e, new)
  BY InsertAtProperties, InsertAtElements
<1> HIDE DEF new
<1>2. /\ Len(new) = Len(s) + 1 /\ Len(s) \in Nat
      /\ \A i \in 1 .. Len(s) + 1 :
            new[i] = IF i < p THEN s[i] ELSE IF i = p THEN e ELSE s[i - 1]
  BY <1>1, LenProperties DEF IsInsertion
<1>3. ToSet(new) \subseteq ToSet(s) \cup {e}
  <2>1. \A i \in 1 .. Len(new) : new[i] = e \/ \E k \in 1 .. Len(s) : new[i] = s[k]
    BY <1>1 DEF IsDrawnFrom
  <2> QED BY <2>1, <1>1, Elements
<1>4. e \in ToSet(new)
  <2>1. p \in 1 .. Len(new) /\ new[p] = e  BY <1>2
  <2> QED BY <2>1, <1>1, Elements
<1>5. ASSUME NEW i \in 1 .. Len(s)
      PROVE  s[i] \in ToSet(new)
  <2>1. CASE i < p
    <3>1. i \in 1 .. Len(new) /\ new[i] = s[i]  BY <2>1, <1>2
    <3> QED BY <3>1, <1>1, Elements
  <2>2. CASE ~ (i < p)
    <3>1. i + 1 \in 1 .. Len(new) /\ i + 1 > p /\ (i + 1) - 1 = i  BY <2>2, <1>2
    <3>2. new[i + 1] = s[i]  BY <3>1, <1>2
    <3> QED BY <3>1, <3>2, <1>1, Elements
  <2> QED BY <2>1, <2>2
<1>6. ToSet(s) \subseteq ToSet(new)  BY <1>5, Elements
<1> QED BY <1>3, <1>4, <1>6 DEF new

\* The first order of a sorted array has priority over every other, and is equal
\* to none of them.
LEMMA BestFirst ==
    ASSUME NEW P \in SUBSET Int, NEW side \in {BUY, SELL}, NEW book \in Seq(Priced(P, side)),
           InPriorityOrder(book), book # <<>>
    PROVE  /\ \A s \in ToSet(book) \ {book[1]} : HasPriority(book[1], s)
           /\ \A j \in 2 .. Len(book) : book[j] # book[1]
<1> DEFINE T == Priced(P, side)
<1>1. /\ Len(book) \in Nat /\ 1 \in 1 .. Len(book)
      /\ \A i \in 1 .. Len(book) : book[i] \in T
      /\ \A e \in ToSet(book) : \E i \in 1 .. Len(book) : e = book[i]
  BY Elements
<1>2. \A j \in 2 .. Len(book) : j \in 1 .. Len(book) /\ HasPriority(book[1], book[j])
  BY <1>1 DEF InPriorityOrder
<1>3. \A i \in 1 .. Len(book) : i = 1 \/ i \in 2 .. Len(book)
  BY <1>1
<1>4. \A a \in T : ~ HasPriority(a, a)
  <2>1. \A a \in T : a.price \in Int /\ a.timestamp \in Nat /\ a.order_id \in Nat
    BY PricedFields
  <2> QED BY <2>1 DEF HasPriority
<1> HIDE DEF T
<1> QED BY <1>1, <1>2, <1>3, <1>4

\* Filling the first order removes it from the set, or replaces it by what is left.
LEMMA ReducedSet ==
    ASSUME NEW P \in SUBSET Int, NEW side \in {BUY, SELL}, NEW book \in Seq(Priced(P, side)),
           InPriorityOrder(book), book # <<>>,
           NEW q \in Nat \ {0}, q <= book[1].quantity
    PROVE  LET rest == [book[1] EXCEPT !.quantity = @ - q]
           IN  ToSet(Reduced(book, q)) = (ToSet(book) \ {book[1]})
                                         \cup (IF rest.quantity > 0 THEN {rest} ELSE {})
<1> DEFINE T    == Priced(P, side)
           rest == [book[1] EXCEPT !.quantity = @ - q]
           left == book[1].quantity - q
<1>1. /\ Len(book) \in Nat /\ 1 \in 1 .. Len(book)
      /\ \A i \in 1 .. Len(book) : book[i] \in T /\ book[i] \in ToSet(book)
      /\ \A e \in ToSet(book) : \E i \in 1 .. Len(book) : e = book[i]
  BY Elements
<1>2. \A j \in 2 .. Len(book) : book[j] # book[1]  BY BestFirst
<1>3. \A i \in 1 .. Len(book) : i = 1 \/ i \in 2 .. Len(book)  BY <1>1
<1>4. \A i \in 2 .. Len(book) : i \in 1 .. Len(book)  BY <1>1
<1>5. ToSet(book) \ {book[1]} = {book[j] : j \in 2 .. Len(book)}
  BY <1>1, <1>2, <1>3, <1>4
<1>6. /\ book[1].quantity \in Nat \ {0} /\ left \in Nat
      /\ rest.quantity = left /\ rest \in [order_id: Nat \ {0}, side: {side},
                            price: P, quantity: Nat, timestamp: Nat]
  <2>1. book[1] \in [order_id: Nat \ {0}, side: {side}, price: P,
                     quantity: Nat \ {0}, timestamp: Nat]
    BY <1>1 DEF Priced
  <2>2. book[1].quantity \in Nat \ {0} /\ left \in Nat  BY <2>1
  <2>3. rest = [book[1] EXCEPT !.quantity = left]  OBVIOUS
  <2> HIDE DEF left, rest
  <2> QED BY <2>1, <2>2, <2>3
<1> HIDE DEF rest, left
<1>7. CASE book[1].quantity = q
  <2>1. Reduced(book, q) = Tail(book)  BY <1>7 DEF Reduced
  <2>2. /\ Tail(book) \in Seq(T) /\ Len(Tail(book)) = Len(book) - 1
        /\ \A i \in 1 .. Len(book) - 1 : Tail(book)[i] = book[i + 1]
    <3> HIDE DEF T
    <3>1. book \in Seq(T)  BY DEF T
    <3> QED BY <3>1, HeadTailProperties
  <2>3. /\ \A i \in 1 .. Len(Tail(book)) : Tail(book)[i] \in ToSet(Tail(book))
        /\ \A e \in ToSet(Tail(book)) : \E i \in 1 .. Len(Tail(book)) : e = Tail(book)[i]
    <3> HIDE DEF T
    <3> QED BY <2>2, Elements
  <2>4. ToSet(Tail(book)) = {book[j] : j \in 2 .. Len(book)}
    <3>1. \A i \in 1 .. Len(book) - 1 : i + 1 \in 2 .. Len(book)  BY <1>1
    <3>2. \A j \in 2 .. Len(book) : j - 1 \in 1 .. Len(book) - 1 /\ (j - 1) + 1 = j  BY <1>1
    <3>3. \A j \in 2 .. Len(book) : Tail(book)[j - 1] = book[j]  BY <3>2, <2>2
    <3>4. ToSet(Tail(book)) \subseteq {book[j] : j \in 2 .. Len(book)}
      BY <3>1, <2>2, <2>3
    <3>5. \A j \in 2 .. Len(book) : book[j] \in ToSet(Tail(book))
      BY <3>2, <3>3, <2>2, <2>3
    <3> QED BY <3>4, <3>5
  <2>5. ~ (rest.quantity > 0)  BY <1>6, <1>7 DEF left
  <2> QED BY <1>5, <2>1, <2>4, <2>5 DEF rest
<1>8. CASE book[1].quantity # q
  <2>1. left > 0 /\ left \in Nat \ {0}  BY <1>6, <1>8 DEF left
  <2>2. Reduced(book, q) = [book EXCEPT ![1] = rest]  BY <1>8 DEF Reduced, rest
  <2>3. rest \in T  BY <1>6, <2>1, <1>1 DEF Priced, rest, left
  <2>4. /\ [book EXCEPT ![1] = rest] \in Seq(T)
        /\ Len([book EXCEPT ![1] = rest]) = Len(book)
        /\ \A i \in 1 .. Len(book) : [book EXCEPT ![1] = rest][i] = IF i = 1 THEN rest ELSE book[i]
    <3> HIDE DEF T
    <3>1. book \in Seq(T)  BY DEF T
    <3> QED BY <1>1, <2>3, <3>1, ExceptSeq
  <2> DEFINE new == [book EXCEPT ![1] = rest]
  <2>5. /\ \A i \in 1 .. Len(new) : new[i] \in ToSet(new)
        /\ \A e \in ToSet(new) : \E i \in 1 .. Len(new) : e = new[i]
    <3> HIDE DEF T
    <3>1. new \in Seq(T)  BY <2>4
    <3> HIDE DEF new
    <3> QED BY <3>1, Elements
  <2>6. ToSet(new) = {rest} \cup {book[j] : j \in 2 .. Len(book)}
    <3>1. Len(new) = Len(book)  BY <2>4
    <3>2. /\ new[1] = rest
          /\ \A j \in 2 .. Len(book) : new[j] = book[j]
      <4>1. \A j \in 2 .. Len(book) : j # 1  OBVIOUS
      <4> QED BY <4>1, <1>1, <1>4, <2>4
    <3> HIDE DEF new
    <3>3. ASSUME NEW e \in ToSet(new)
          PROVE  e = rest \/ e \in {book[j] : j \in 2 .. Len(book)}
      <4>1. PICK i \in 1 .. Len(book) : e = new[i]  BY <3>1, <2>5
      <4> QED BY <4>1, <3>2, <1>3
    <3>4. rest \in ToSet(new)  BY <3>1, <3>2, <2>5, <1>1
    <3>5. \A j \in 2 .. Len(book) : book[j] \in ToSet(new)
      BY <3>1, <3>2, <2>5, <1>4
    <3> QED BY <3>3, <3>4, <3>5
  <2> QED BY <1>5, <1>6, <2>1, <2>2, <2>5, <2>6 DEF rest
<1> QED BY <1>7, <1>8

----------------------------------------------------------------------------
\* Steps of the market

Rest == ToSet(buy_orders) \cup ToSet(sell_orders)

BooksHold(P) ==
    buy_orders \in Seq(Priced(P, BUY)) /\ sell_orders \in Seq(Priced(P, SELL))

\* Whatever rests has its type, and its side tells which book it is in.
LEMMA RestingOrders ==
    ASSUME NEW P \in SUBSET Int, BooksHold(P)
    PROVE  /\ \A s \in ToSet(buy_orders)  : s \in Priced(P, BUY)  /\ s.side = BUY
           /\ \A s \in ToSet(sell_orders) : s \in Priced(P, SELL) /\ s.side = SELL
<1>1. /\ \A s \in ToSet(buy_orders)  : s \in Priced(P, BUY)
      /\ \A s \in ToSet(sell_orders) : s \in Priced(P, SELL)
  BY Elements DEF BooksHold
<1> QED BY <1>1 DEF Priced

\* The candidates of a running order rest on the other side at a price it accepts.
LEMMA CandidatesOfBuy ==
    ASSUME NEW P \in SUBSET Int, BooksHold(P), order.side = BUY
    PROVE  Market!Candidates = {s \in ToSet(sell_orders) : s.price <= order.price}
BY RestingOrders DEF Market!Candidates, Market!Acceptable, Market!BUY, BUY, SELL

LEMMA CandidatesOfSell ==
    ASSUME NEW P \in SUBSET Int, BooksHold(P), order.side = SELL
    PROVE  Market!Candidates = {s \in ToSet(buy_orders) : s.price >= order.price}
BY RestingOrders DEF Market!Candidates, Market!Acceptable, Market!BUY, BUY, SELL

\* What one iteration of a matching loop does, in either engine.
TakesBestSell ==
    LET best == sell_orders[1]
        q    == MatchedQuantity(order, best)
    IN  /\ trades' = Append(trades, [buy_id |-> order.order_id, sell_id |-> best.order_id,
                                     price |-> best.price, qty |-> q])
        /\ order' = [order EXCEPT !.quantity = @ - q]
        /\ sell_orders' = Reduced(sell_orders, q) /\ buy_orders' = buy_orders

TakesBestBuy ==
    LET best == buy_orders[1]
        q    == MatchedQuantity(order, best)
    IN  /\ trades' = Append(trades, [buy_id |-> best.order_id, sell_id |-> order.order_id,
                                     price |-> best.price, qty |-> q])
        /\ order' = [order EXCEPT !.quantity = @ - q]
        /\ buy_orders' = Reduced(buy_orders, q) /\ sell_orders' = sell_orders

\* The order the loop takes, element 0, is the candidate with priority over all.
LEMMA BuyTrades ==
    ASSUME NEW P \in SUBSET Int, BooksHold(P), order \in Priced(P, BUY), Matchable,
           InPriorityOrder(sell_orders), TakesBestSell
    PROVE  Market!Trade
<1> DEFINE best == sell_orders[1]
           q    == MatchedQuantity(order, best)
           rest == [best EXCEPT !.quantity = @ - q]
<1>1. /\ order.side = BUY /\ order.quantity > 0
      /\ sell_orders # <<>> /\ best.price <= order.price
      /\ trades' = Append(trades, [buy_id |-> order.order_id, sell_id |-> best.order_id,
                                   price |-> best.price, qty |-> q])
      /\ order' = [order EXCEPT !.quantity = @ - q]
      /\ sell_orders' = Reduced(sell_orders, q) /\ buy_orders' = buy_orders
  <2>1. order.side = BUY  BY DEF Priced
  <2> QED BY <2>1 DEF Matchable, TakesBestSell
<1>2. sell_orders \in Seq(Priced(P, SELL)) /\ SELL \in {BUY, SELL}
  BY DEF BooksHold
<1>3. best \in ToSet(sell_orders) /\ best \in Priced(P, SELL) /\ best \notin ToSet(buy_orders)
  BY <1>1, <1>2, Elements, RestingOrders DEF BUY, SELL
<1>4. q \in Nat \ {0} /\ q <= best.quantity /\ q = Market!Lesser(order.quantity, best.quantity)
  <2>1. order.quantity \in Nat \ {0} /\ best.quantity \in Nat \ {0}
    BY <1>3 DEF Priced
  <2> QED BY <2>1, MatchedQuantityProperties DEF MatchedQuantity, Market!Lesser
<1> HIDE DEF q
<1>5. best \in Market!Candidates
  BY <1>1, <1>3, CandidatesOfBuy
<1>6. \A s \in Market!Candidates \ {best} : Market!Precedes(best, s)
  <2>1. \A s \in ToSet(sell_orders) \ {best} : HasPriority(best, s)
    BY <1>1, <1>2, BestFirst
  <2> QED BY <2>1, <1>1, CandidatesOfBuy DEF HasPriority, Market!Precedes, Market!BUY, BUY
<1>7. (ToSet(buy_orders) \cup ToSet(sell_orders))'
        = (Rest \ {best}) \cup (IF rest.quantity > 0 THEN {rest} ELSE {})
  <2>1. ToSet(Reduced(sell_orders, q))
          = (ToSet(sell_orders) \ {best}) \cup (IF rest.quantity > 0 THEN {rest} ELSE {})
    BY <1>1, <1>2, <1>4, ReducedSet
  <2> HIDE DEF best, rest
  <2>2. (ToSet(buy_orders) \cup ToSet(sell_orders))'
          = ToSet(buy_orders) \cup ToSet(Reduced(sell_orders, q))
    BY <1>1
  <2> QED BY <2>1, <2>2, <1>3 DEF Rest
<1>8. Market!TradeOf(order, best, q) = [buy_id |-> order.order_id, sell_id |-> best.order_id,
                                        price |-> best.price, qty |-> q]
  BY <1>1 DEF Market!TradeOf, Market!BUY, BUY
<1> QED BY <1>1, <1>4, <1>5, <1>6, <1>7, <1>8 DEF Market!Trade, Rest

\* The mirror image: a sell takes the best buy.
LEMMA SellTrades ==
    ASSUME NEW P \in SUBSET Int, BooksHold(P), order \in Priced(P, SELL), Matchable,
           InPriorityOrder(buy_orders), TakesBestBuy
    PROVE  Market!Trade
<1> DEFINE best == buy_orders[1]
           q    == MatchedQuantity(order, best)
           rest == [best EXCEPT !.quantity = @ - q]
<1>1. /\ order.side = SELL /\ order.quantity > 0
      /\ buy_orders # <<>> /\ best.price >= order.price
      /\ trades' = Append(trades, [buy_id |-> best.order_id, sell_id |-> order.order_id,
                                   price |-> best.price, qty |-> q])
      /\ order' = [order EXCEPT !.quantity = @ - q]
      /\ buy_orders' = Reduced(buy_orders, q) /\ sell_orders' = sell_orders
  <2>1. order.side = SELL  BY DEF Priced
  <2> QED BY <2>1 DEF Matchable, TakesBestBuy, BUY, SELL
<1>2. buy_orders \in Seq(Priced(P, BUY)) /\ BUY \in {BUY, SELL}
  BY DEF BooksHold
<1>3. best \in ToSet(buy_orders) /\ best \in Priced(P, BUY) /\ best \notin ToSet(sell_orders)
  BY <1>1, <1>2, Elements, RestingOrders DEF BUY, SELL
<1>4. q \in Nat \ {0} /\ q <= best.quantity /\ q = Market!Lesser(order.quantity, best.quantity)
  <2>1. order.quantity \in Nat \ {0} /\ best.quantity \in Nat \ {0}
    BY <1>3 DEF Priced
  <2> QED BY <2>1, MatchedQuantityProperties DEF MatchedQuantity, Market!Lesser
<1> HIDE DEF q
<1>5. best \in Market!Candidates
  BY <1>1, <1>3, CandidatesOfSell
<1>6. \A s \in Market!Candidates \ {best} : Market!Precedes(best, s)
  <2>1. \A s \in ToSet(buy_orders) \ {best} : HasPriority(best, s)
    BY <1>1, <1>2, BestFirst
  <2> QED BY <2>1, <1>1, CandidatesOfSell DEF HasPriority, Market!Precedes, Market!BUY, BUY, SELL
<1>7. (ToSet(buy_orders) \cup ToSet(sell_orders))'
        = (Rest \ {best}) \cup (IF rest.quantity > 0 THEN {rest} ELSE {})
  <2>1. ToSet(Reduced(buy_orders, q))
          = (ToSet(buy_orders) \ {best}) \cup (IF rest.quantity > 0 THEN {rest} ELSE {})
    BY <1>1, <1>2, <1>4, ReducedSet
  <2> HIDE DEF best, rest
  <2>2. (ToSet(buy_orders) \cup ToSet(sell_orders))'
          = ToSet(sell_orders) \cup ToSet(Reduced(buy_orders, q))
    BY <1>1
  <2> QED BY <2>1, <2>2, <1>3 DEF Rest
<1>8. Market!TradeOf(order, best, q) = [buy_id |-> best.order_id, sell_id |-> order.order_id,
                                        price |-> best.price, qty |-> q]
  BY <1>1 DEF Market!TradeOf, Market!BUY, BUY, SELL
<1> QED BY <1>1, <1>4, <1>5, <1>6, <1>7, <1>8 DEF Market!Trade, Rest

\* The loop stops on element 0 of the book it matches against, and then no other
\* element would do either.
LEMMA NoCandidates ==
    ASSUME NEW P \in SUBSET Int, BooksHold(P), NEW side \in {BUY, SELL},
           order \in Priced(P, side), ~ Matchable,
           InPriorityOrder(IF side = BUY THEN sell_orders ELSE buy_orders)
    PROVE  Market!Candidates = {}
<1>1. /\ order.side = side /\ order.price \in Int /\ order.quantity > 0
      /\ buy_orders \in Seq(Priced(P, BUY)) /\ sell_orders \in Seq(Priced(P, SELL))
      /\ BUY \in {BUY, SELL} /\ SELL \in {BUY, SELL}
  <2>1. order.side = side /\ order.price \in Int /\ order.quantity \in Nat \ {0}
    BY PricedFields
  <2>2. order.quantity > 0  BY <2>1
  <2> QED BY <2>1, <2>2 DEF BooksHold
<1>2. CASE side = BUY
  <2>1. ASSUME NEW s \in ToSet(sell_orders), s.price <= order.price
        PROVE  FALSE
    <3>1. /\ sell_orders # <<>> /\ sell_orders[1] \in Priced(P, SELL)
          /\ s \in Priced(P, SELL)
      BY <1>1, <2>1, Elements
    <3>2. ~ (sell_orders[1].price <= order.price)  BY <1>1, <1>2, <3>1 DEF Matchable
    <3>3. s = sell_orders[1] \/ HasPriority(sell_orders[1], s)
      BY <1>1, <1>2, <3>1, <2>1, BestFirst
    <3>4. s.price \in Int /\ sell_orders[1].price \in Int /\ sell_orders[1].side = SELL
      BY <3>1 DEF Priced
    <3> QED BY <1>1, <2>1, <3>2, <3>3, <3>4 DEF HasPriority, BUY, SELL
  <2> QED BY <1>1, <1>2, <2>1, CandidatesOfBuy
<1>3. CASE side = SELL
  <2>1. ASSUME NEW s \in ToSet(buy_orders), s.price >= order.price
        PROVE  FALSE
    <3>1. /\ buy_orders # <<>> /\ buy_orders[1] \in Priced(P, BUY)
          /\ s \in Priced(P, BUY)
      BY <1>1, <2>1, Elements
    <3>2. ~ (buy_orders[1].price >= order.price)
      BY <1>1, <1>3, <3>1 DEF Matchable, BUY, SELL
    <3>3. s = buy_orders[1] \/ HasPriority(buy_orders[1], s)
      <4>1. InPriorityOrder(buy_orders)  BY <1>3 DEF BUY, SELL
      <4> QED BY <1>1, <3>1, <2>1, <4>1, BestFirst
    <3>4. s.price \in Int /\ buy_orders[1].price \in Int /\ buy_orders[1].side = BUY
      BY <3>1 DEF Priced
    <3> QED BY <1>1, <2>1, <3>2, <3>3, <3>4 DEF HasPriority, BUY, SELL
  <2> QED BY <1>1, <1>3, <2>1, CandidatesOfSell
<1> QED BY <1>2, <1>3

\* The compiled engine's books and running order, as the lemmas above want them.
LEMMA MatchingBooks ==
    ASSUME IInv
    PROVE  /\ Nat \ {0} \in SUBSET Int /\ BooksHold(Nat \ {0})
           /\ pc = "match" /\ order.quantity > 0 => order \in Priced(Nat \ {0}, order.side)
           /\ InPriorityOrder(buy_orders) /\ InPriorityOrder(sell_orders)
BY RestingPrices, MatchingOrder DEF IInv, TypeOK, BooksInPriorityOrder, BooksHold

LEMMA MatchingTrades == ASSUME IInv, MatchBuy \/ MatchSell PROVE Market!Trade
<1>1. pc = "match" /\ Matchable /\ order.quantity > 0  BY DEF MatchBuy, MatchSell, Matchable
<1>2. CASE MatchBuy
  <2>1. TakesBestSell /\ order.side = BUY  BY <1>2 DEF MatchBuy, RecordTrade, TakesBestSell
  <2> QED BY <1>1, <2>1, MatchingBooks, BuyTrades
<1>3. CASE MatchSell
  <2>1. TakesBestBuy /\ order.side = SELL  BY <1>3 DEF MatchSell, RecordTrade, TakesBestBuy
  <2> QED BY <1>1, <2>1, MatchingBooks, SellTrades
<1> QED BY <1>2, <1>3

LEMMA RunningOrder ==
    ASSUME TypeOK
    PROVE  (pc = "match") <=> (order # NoOrder)
<1>1. \A o \in OrderType : o # NoOrder  BY DEF OrderType, NoOrder
<1> QED BY <1>1 DEF TypeOK

LEMMA RemainderSettles ==
    ASSUME IInv, Filled \/ InsertBuy \/ InsertSell
    PROVE  Market!Settle
<1> DEFINE Rest1 == (ToSet(buy_orders) \cup ToSet(sell_orders))'
<1>1. /\ pc = "match" /\ order' = NoOrder /\ trades' = trades /\ order # NoOrder
      /\ order.quantity \in Nat
  BY MatchingOrder, RunningOrder DEF IInv, Filled, InsertBuy, InsertSell, Finish, OrderType
<1>2. CASE Filled
  <2>1. ~ (order.quantity > 0)  BY <1>2 DEF Filled
  <2>2. buy_orders' = buy_orders /\ sell_orders' = sell_orders  BY <1>2 DEF Filled, books
  <2>3. Rest1 = Rest  BY <2>2 DEF Rest
  <2> QED BY <1>1, <2>1, <2>3 DEF Market!Settle, Rest, Market!NoOrder, NoOrder, Market!BUY, BUY
<1>3. ASSUME InsertBuy \/ InsertSell
      PROVE  Rest1 = Rest \cup {order} /\ order.quantity > 0 /\ Market!Candidates = {}
  <2>1. order.quantity > 0 /\ Market!Candidates = {}
    <3>1. order.quantity > 0 /\ ~ Matchable  BY <1>3 DEF InsertBuy, InsertSell
    <3>2. order.side \in {BUY, SELL}  BY <1>1, MatchingOrder DEF IInv
    <3>3. InPriorityOrder(IF order.side = BUY THEN sell_orders ELSE buy_orders)
      BY MatchingBooks
    <3> QED BY <1>1, <3>1, <3>2, <3>3, MatchingBooks, NoCandidates
  <2>2. order \in RestingType(order.side)  BY <1>1, <2>1, MatchingOrder DEF IInv
  <2>3. CASE InsertBuy
    <3>1. PICK p \in 1 .. Len(buy_orders) + 1 : buy_orders' = InsertAt(buy_orders, p, order)
      BY <2>3 DEF InsertBuy
    <3>2. /\ buy_orders \in Seq(RestingType(BUY)) /\ order \in RestingType(BUY)
          /\ sell_orders' = sell_orders
      BY <2>2, <2>3 DEF InsertBuy, IInv, TypeOK
    <3>3. ToSet(InsertAt(buy_orders, p, order)) = ToSet(buy_orders) \cup {order}
      BY <3>2, InsertedElement
    <3> QED BY <2>1, <3>1, <3>2, <3>3 DEF Rest
  <2>4. CASE InsertSell
    <3>1. PICK p \in 1 .. Len(sell_orders) + 1 : sell_orders' = InsertAt(sell_orders, p, order)
      BY <2>4 DEF InsertSell
    <3>2. /\ sell_orders \in Seq(RestingType(SELL)) /\ order \in RestingType(SELL)
          /\ buy_orders' = buy_orders
      BY <2>2, <2>4 DEF InsertSell, IInv, TypeOK
    <3>3. ToSet(InsertAt(sell_orders, p, order)) = ToSet(sell_orders) \cup {order}
      BY <3>2, InsertedElement
    <3> QED BY <2>1, <3>1, <3>2, <3>3 DEF Rest
  <2> QED BY <1>3, <2>3, <2>4
<1>4. CASE InsertBuy \/ InsertSell
  BY <1>1, <1>3, <1>4 DEF Market!Settle, Rest, Market!NoOrder, NoOrder, Market!BUY, BUY
<1> QED BY <1>2, <1>4

\* A call that begins is an arrival; one that is refused, and the brackets of a
\* batch, do not show.
LEMMA CallsArrive ==
    ASSUME IInv, AddOrder \/ BatchMember \/ BatchStart \/ BatchReturn
    PROVE  \/ Market!Arrive
           \/ UNCHANGED <<buy_orders, sell_orders, order, trades>>
<1>1. TypeOK /\ TypeOK' /\ pc # "match" /\ order = NoOrder
  <2>1. IInv'
    BY NextIInv DEF Next
  <2> QED BY <2>1 DEF IInv, TypeOK, AddOrder, BatchMember, BatchStart, BatchReturn
<1>2. CASE BatchStart \/ BatchReturn
  BY <1>2 DEF BatchStart, BatchReturn, books
<1>3. ASSUME NEW in \in Inputs, Refuse(in) \/ CountLimit(in)
      PROVE  UNCHANGED <<buy_orders, sell_orders, order, trades>>
  BY <1>1, <1>3 DEF Refuse, CountLimit, Raise, books
<1>4. ASSUME NEW in \in Inputs, Begin(in)
      PROVE  Market!Arrive
  <2>1. UNCHANGED <<buy_orders, sell_orders, trades>> /\ pc' = "match"
    BY <1>4 DEF Begin, books
  <2>2. order' \in OrderType  BY <1>1, <2>1 DEF TypeOK
  <2> QED BY <1>1, <2>1, <2>2 DEF Market!Arrive, Market!NoOrder, NoOrder, Market!BUY, BUY
<1> QED BY <1>2, <1>3, <1>4 DEF AddOrder, BatchMember

----------------------------------------------------------------------------
\* The market and the counter

\* The engine's sorted arrays implement price-time matching over a set of orders:
\* each iteration of its loops is a trade with the best acceptable order, the
\* insertion settles the remainder, and a failed allocation aborts the order.
THEOREM Implements == Spec => ImplementsMarket
<1>1. Init => Market!MarketInit
  <2> SUFFICES ASSUME Init PROVE Market!MarketInit
    OBVIOUS
  <2>1. ToSet(<<>>) = {}  BY DEF ToSet
  <2> QED BY <2>1 DEF Init, Market!MarketInit, Market!NoOrder, NoOrder, Market!BUY, BUY
<1>2. IInv /\ [Next]_vars => [Market!MarketNext]_(Market!marketVars)
  <2> SUFFICES ASSUME IInv, [Next]_vars
               PROVE  \/ Market!MarketNext
                      \/ UNCHANGED <<ToSet(buy_orders) \cup ToSet(sell_orders), order, trades>>
    BY DEF Market!marketVars
  <2>1. CASE AddOrder \/ BatchMember \/ BatchStart \/ BatchReturn
    BY <2>1, CallsArrive DEF Market!MarketNext
  <2>2. CASE MatchBuy \/ MatchSell  BY <2>2, MatchingTrades DEF Market!MarketNext
  <2>3. CASE Filled \/ InsertBuy \/ InsertSell
    BY <2>3, RemainderSettles DEF Market!MarketNext
  <2>4. CASE OutOfMemory
    <3>1. /\ order # NoOrder /\ order' = NoOrder
          /\ UNCHANGED <<buy_orders, sell_orders, trades>>
      BY <2>4, RunningOrder DEF IInv, OutOfMemory, Raise, books
    <3>2. Market!Abort
      BY <3>1 DEF Market!Abort, Market!NoOrder, NoOrder, Market!BUY, BUY
    <3> QED BY <3>2 DEF Market!MarketNext
  <2>5. CASE UNCHANGED vars
    BY <2>5 DEF vars, books, control
  <2> QED BY <2>1, <2>2, <2>3, <2>4, <2>5 DEF Next
<1> QED BY <1>1, <1>2, Invariance, PTL DEF Spec, ImplementsMarket, Market!MarketSpec

\* What the counter needs to know: an order fails once, while it is running.
FailedBefore ==
    /\ IsFiniteSet(failed) /\ failed \subseteq 1 .. Len(submitted)
    /\ pc = "match" => order.order_id \notin failed

CInv == IInv /\ FailedBefore /\ CountsCompletedOrders

LEMMA InitCInv == Init => CInv
<1> SUFFICES ASSUME Init PROVE CInv
  OBVIOUS
<1>1. IsFiniteSet({}) /\ Cardinality({}) = 0  BY FS_EmptySet
<1>2. Len(<<>>) = 0  OBVIOUS
<1> QED BY InitIInv, <1>1, <1>2 DEF Init, CInv, FailedBefore, CountsCompletedOrders

LEMMA NextCInv == CInv /\ [Next]_vars => CInv'
<1> SUFFICES ASSUME CInv, [Next]_vars PROVE CInv'
  OBVIOUS
<1> USE DEF CInv
<1>1. IInv'  BY NextIInv
<1>2. /\ Len(submitted) \in Nat /\ order_count \in Nat
      /\ IsFiniteSet(failed) /\ Cardinality(failed) \in Nat
      /\ failed \subseteq 1 .. Len(submitted)
  BY LenProperties, FS_CardinalityType DEF FailedBefore, IInv, TypeOK
<1>3. ASSUME NEW in \in Inputs, pc # "match", Begin(in)
      PROVE  CInv'
  <2>1. /\ order_count' = order_count /\ failed' = failed /\ pc' = "match"
        /\ submitted' = Append(submitted, order') /\ order'.order_id = Len(submitted) + 1
    BY <1>3 DEF Begin
  <2>2. Len(submitted') = Len(submitted) + 1
    <3>1. submitted \in Seq(OrderType) /\ order' \in OrderType
      BY <1>1, <2>1 DEF IInv, TypeOK
    <3> QED BY <2>1, <3>1, AppendProperties
  <2>3. FailedBefore'
    <3>1. failed \subseteq 1 .. Len(submitted) + 1 /\ Len(submitted) + 1 \notin failed
      BY <1>2
    <3> QED BY <1>2, <2>1, <2>2, <3>1 DEF FailedBefore
  <2>4. CountsCompletedOrders'
    BY <1>2, <1>3, <2>1, <2>2 DEF CountsCompletedOrders
  <2> QED BY <1>1, <2>3, <2>4
<1>4. ASSUME pc # "match", pc' # "match", UNCHANGED <<order_count, submitted, failed>>
      PROVE  CInv'
  BY <1>1, <1>4 DEF FailedBefore, CountsCompletedOrders
<1>5. CASE AddOrder \/ BatchMember
  <2>1. PICK in \in Inputs : Refuse(in) \/ CountLimit(in) \/ Begin(in)
    BY <1>5 DEF AddOrder, BatchMember
  <2>2. pc # "match"  BY <1>5 DEF AddOrder, BatchMember
  <2>3. CASE Refuse(in) \/ CountLimit(in)
    BY <2>2, <2>3, <1>4 DEF Refuse, CountLimit, Raise, history
  <2> QED BY <2>1, <2>2, <2>3, <1>3
<1>6. CASE BatchStart \/ BatchReturn
  BY <1>4, <1>6 DEF BatchStart, BatchReturn, history
<1>7. CASE MatchBuy \/ MatchSell
  <2>1. /\ pc = "match" /\ UNCHANGED <<order_count, submitted, failed, pc>>
    BY <1>7 DEF MatchBuy, MatchSell, history
  <2>2. order'.order_id = order.order_id
    BY <1>1, <2>1 DEF IInv, ArrivalOrder
  <2> QED BY <1>1, <2>1, <2>2 DEF FailedBefore, CountsCompletedOrders
<1>8. CASE Filled \/ InsertBuy \/ InsertSell
  <2>1. /\ pc = "match" /\ pc' # "match" /\ order_count' = order_count + 1
        /\ UNCHANGED <<submitted, failed>>
    BY <1>8 DEF Filled, InsertBuy, InsertSell, Finish, history
  <2> QED BY <1>1, <1>2, <2>1 DEF FailedBefore, CountsCompletedOrders
<1>9. CASE OutOfMemory
  <2>1. /\ pc = "match" /\ pc' = "idle" /\ failed' = failed \cup {order.order_id}
        /\ UNCHANGED <<order_count, submitted>>
    BY <1>9 DEF OutOfMemory, Raise
  <2>2. order.order_id = Len(submitted) /\ order.order_id \in Nat \ {0}
    BY <2>1, MatchingOrder DEF IInv, ArrivalOrder, OrderType
  <2>3. order.order_id \notin failed  BY <2>1 DEF FailedBefore
  <2>4. /\ IsFiniteSet(failed \cup {order.order_id})
        /\ Cardinality(failed \cup {order.order_id}) = Cardinality(failed) + 1
    BY <1>2, <2>3, FS_AddElement
  <2>5. failed \cup {order.order_id} \subseteq 1 .. Len(submitted)
    <3>1. Len(submitted) \in Nat \ {0}  BY <2>2
    <3>2. order.order_id \in 1 .. Len(submitted)  BY <2>2, <3>1
    <3> QED BY <1>2, <3>2
  <2>6. FailedBefore'
    <3>1. /\ IsFiniteSet(failed') /\ failed' \subseteq 1 .. Len(submitted')
          /\ pc' # "match"
      BY <2>1, <2>4, <2>5
    <3> QED BY <3>1 DEF FailedBefore
  <2>7. CountsCompletedOrders'
    <3>1. Cardinality(failed') = Cardinality(failed) + 1
      BY <2>1, <2>4
    <3>2. order_count = Len(submitted) - Cardinality(failed) - 1
      BY <1>2, <2>1 DEF CountsCompletedOrders
    <3> QED BY <1>2, <2>1, <3>1, <3>2 DEF CountsCompletedOrders
  <2> QED BY <1>1, <2>6, <2>7 DEF CInv
<1>10. CASE UNCHANGED vars
  BY <1>1, <1>10 DEF vars, control, history, FailedBefore, CountsCompletedOrders
<1> QED BY <1>5, <1>6, <1>7, <1>8, <1>9, <1>10 DEF Next

\* order_count counts the calls that completed, whatever was refused, ran out of
\* memory or raised in the middle of a batch.
THEOREM Counts == Spec => []CountsCompletedOrders
<1>1. CInv => CountsCompletedOrders  BY DEF CInv
<1> QED BY <1>1, InitCInv, NextCInv, PTL DEF Spec


----------------------------------------------------------------------------
\* Sums.  What a sum is follows from its partial sums; that there are such, and
\* only one sequence of them, is an induction, by the least number that fails.

LEMMA LeastNumber ==
    ASSUME NEW T \in SUBSET Nat, T # {}
    PROVE  \E n \in T : \A m \in T : n <= m
<1>1. IsWellFoundedOn(OpToRel(<, Nat), Nat)  BY NatLessThanWellFounded
<1>2. PICK n \in T : \A m \in T : ~ (<<m, n>> \in OpToRel(<, Nat))  BY <1>1, WFMin
<1>3. \A m \in T : ~ (m < n)  BY <1>2 DEF OpToRel
<1> QED BY <1>3

\* f[k] is the sum of the first k numbers of w, for every k up to n.
AddsUp(w, f, n) == f[0] = 0 /\ \A k \in 1 .. n : f[k] = f[k - 1] + w[k]

LEMMA PartialSumsExist ==
    ASSUME NEW S \in {Nat, Int}, NEW w \in Seq(S), NEW n \in 0 .. Len(w)
    PROVE  \E f \in [0 .. n -> S] : AddsUp(w, f, n)
<1> DEFINE Summable(m) == \E f \in [0 .. m -> S] : AddsUp(w, f, m)
           T == {m \in 0 .. Len(w) : ~ Summable(m)}
<1>0. Len(w) \in Nat /\ \A k \in 1 .. Len(w) : w[k] \in S
  BY LenProperties
<1>1. Summable(0)
  <2>1. [k \in 0 .. 0 |-> 0] \in [0 .. 0 -> S]  OBVIOUS
  <2>2. AddsUp(w, [k \in 0 .. 0 |-> 0], 0)  BY DEF AddsUp
  <2> QED BY <2>1, <2>2
<1>2. ASSUME NEW m \in 1 .. Len(w), Summable(m - 1)
      PROVE  Summable(m)
  <2>1. PICK f \in [0 .. m - 1 -> S] : AddsUp(w, f, m - 1)  BY <1>2
  <2> DEFINE g == [k \in 0 .. m |-> IF k = m THEN f[m - 1] + w[m] ELSE f[k]]
  <2>2. g \in [0 .. m -> S]
    <3>0. m - 1 \in 0 .. m - 1 /\ f[m - 1] \in S /\ w[m] \in S  BY <1>0
    <3>1. f[m - 1] + w[m] \in S
      <4>1. CASE S = Nat  BY <3>0, <4>1
      <4>2. CASE S = Int  BY <3>0, <4>2
      <4> QED BY <4>1, <4>2
    <3>2. \A k \in 0 .. m : k # m => k \in 0 .. m - 1  BY <1>0
    <3> QED BY <3>1, <3>2
  <2>3. g[0] = 0  BY <2>1, <1>0 DEF AddsUp
  <2>4. ASSUME NEW k \in 1 .. m PROVE g[k] = g[k - 1] + w[k]
    <3>1. k \in 0 .. m /\ k - 1 \in 0 .. m /\ k - 1 # m  BY <1>0
    <3>2. g[k - 1] = f[k - 1]  BY <3>1
    <3>3. CASE k = m  BY <3>1, <3>2, <3>3
    <3>4. CASE k # m
      <4>1. k \in 1 .. m - 1  BY <1>0, <3>4
      <4> QED BY <2>1, <3>1, <3>2, <3>4, <4>1 DEF AddsUp
    <3> QED BY <3>3, <3>4
  <2> HIDE DEF g
  <2>5. AddsUp(w, g, m)  BY <2>3, <2>4 DEF AddsUp
  <2> QED BY <2>2, <2>5
<1> HIDE DEF Summable
<1>3. ASSUME T # {} PROVE FALSE
  <2>1. T \in SUBSET Nat  BY <1>0
  <2>2. PICK m \in T : \A k \in T : m <= k  BY <1>3, <2>1, LeastNumber
  <2>3. m \in 1 .. Len(w)  BY <1>0, <1>1
  <2>4. m - 1 \in 0 .. Len(w) /\ ~ (m <= m - 1)  BY <1>0, <2>3
  <2>5. Summable(m - 1)  BY <2>2, <2>4
  <2> QED BY <1>2, <2>3, <2>5
<1>4. Summable(n)  BY <1>3
<1> QED BY <1>4 DEF Summable

LEMMA PartialSumsUnique ==
    ASSUME NEW S \in {Nat, Int}, NEW w \in Seq(S), NEW f, NEW g,
           AddsUp(w, f, Len(w)), AddsUp(w, g, Len(w))
    PROVE  f[Len(w)] = g[Len(w)]
<1> DEFINE T == {m \in 0 .. Len(w) : f[m] # g[m]}
<1>0. Len(w) \in Nat  BY LenProperties
<1>1. ASSUME T # {} PROVE FALSE
  <2>1. T \in SUBSET Nat  BY <1>0
  <2>2. PICK m \in T : \A k \in T : m <= k  BY <1>1, <2>1, LeastNumber
  <2>3. m \in 1 .. Len(w)  BY <1>0, <2>2 DEF AddsUp
  <2>4. m - 1 \in 0 .. Len(w) /\ ~ (m <= m - 1)  BY <1>0, <2>3
  <2>5. f[m - 1] = g[m - 1]  BY <2>2, <2>4
  <2>6. f[m] = g[m]  BY <2>3, <2>5 DEF AddsUp
  <2> QED BY <2>2, <2>6
<1>2. Len(w) \in 0 .. Len(w)  BY <1>0
<1> QED BY <1>1, <1>2

\* What SumOf is, without the recursion.
LEMMA SumIs ==
    ASSUME NEW S \in {Nat, Int}, NEW w \in Seq(S), NEW f, AddsUp(w, f, Len(w))
    PROVE  SumOf(w) = f[Len(w)]
<1> DEFINE Body(h) == [n \in 0 .. Len(w) |-> IF n = 0 THEN 0 ELSE h[n - 1] + w[n]]
           s == CHOOSE h : h = Body(h)
<1>0. Len(w) \in Nat  BY LenProperties
<1>1. \E h : h = Body(h)
  <2>1. Len(w) \in 0 .. Len(w)  BY <1>0
  <2>2. PICK h \in [0 .. Len(w) -> S] : AddsUp(w, h, Len(w))
    BY <2>1, PartialSumsExist
  <2>3. \A n \in 0 .. Len(w) : h[n] = IF n = 0 THEN 0 ELSE h[n - 1] + w[n]
    <3>1. \A n \in 0 .. Len(w) : n = 0 \/ n \in 1 .. Len(w)  BY <1>0
    <3> QED BY <2>2, <3>1 DEF AddsUp
  <2>4. h = Body(h)  BY <2>2, <2>3
  <2> QED BY <2>4
<1>2. s = Body(s)  BY <1>1
<1>3. SumOf(w) = s[Len(w)]  BY DEF SumOf
<1> HIDE DEF s
<1>4. AddsUp(w, s, Len(w))
  <2>1. 0 \in 0 .. Len(w) /\ \A k \in 1 .. Len(w) : k \in 0 .. Len(w) /\ k # 0  BY <1>0
  <2>2. s[0] = 0  BY <1>2, <2>1
  <2>3. ASSUME NEW k \in 1 .. Len(w) PROVE s[k] = s[k - 1] + w[k]
    <3>1. k \in 0 .. Len(w) /\ k # 0  BY <2>1
    <3> QED BY <1>2, <3>1
  <2> QED BY <2>2, <2>3 DEF AddsUp
<1> QED BY <1>3, <1>4, PartialSumsUnique

LEMMA SumIsNat ==
    ASSUME NEW w \in Seq(Nat)
    PROVE  SumOf(w) \in Nat
<1>1. Len(w) \in 0 .. Len(w)  BY LenProperties
<1>2. PICK f \in [0 .. Len(w) -> Nat] : AddsUp(w, f, Len(w))  BY <1>1, PartialSumsExist
<1> QED BY <1>1, <1>2, SumIs

LEMMA SumOfZeros ==
    ASSUME NEW w \in Seq(Nat), \A k \in 1 .. Len(w) : w[k] = 0
    PROVE  SumOf(w) = 0
<1> DEFINE f == [n \in 0 .. Len(w) |-> 0]
<1>1. /\ Len(w) \in 0 .. Len(w) /\ 0 \in 0 .. Len(w)
      /\ \A k \in 1 .. Len(w) : k \in 0 .. Len(w) /\ k - 1 \in 0 .. Len(w)
  BY LenProperties
<1>2. AddsUp(w, f, Len(w))  BY <1>1 DEF AddsUp
<1>3. f[Len(w)] = 0  BY <1>1
<1> HIDE DEF f
<1> QED BY <1>2, <1>3, SumIs

\* A number more, anywhere in the sequence, is that much more.
LEMMA SumOfInsertion ==
    ASSUME NEW w \in Seq(Nat), NEW v \in Seq(Nat), NEW p \in 1 .. Len(w) + 1, NEW x \in Nat,
           IsInsertion(w, p, x, v)
    PROVE  SumOf(v) = SumOf(w) + x
<1>0. Len(w) \in Nat /\ Len(w) \in 0 .. Len(w) /\ Len(v) = Len(w) + 1
  BY LenProperties DEF IsInsertion
<1>1. PICK f \in [0 .. Len(w) -> Nat] : AddsUp(w, f, Len(w))  BY <1>0, PartialSumsExist
<1> DEFINE g == [n \in 0 .. Len(w) + 1 |-> IF n < p THEN f[n] ELSE f[n - 1] + x]
<1>2. g[0] = 0
  <2>1. 0 \in 0 .. Len(w) + 1 /\ 0 < p  BY <1>0
  <2> QED BY <1>1, <2>1 DEF AddsUp
<1>3. ASSUME NEW n \in 1 .. Len(w) + 1 PROVE g[n] = g[n - 1] + v[n]
  <2>1. n \in 0 .. Len(w) + 1 /\ n - 1 \in 0 .. Len(w) + 1 /\ n \in Int /\ p \in Int  BY <1>0
  <2>2. g[n] = IF n < p THEN f[n] ELSE f[n - 1] + x  BY <2>1
  <2>3. g[n - 1] = IF n - 1 < p THEN f[n - 1] ELSE f[(n - 1) - 1] + x  BY <2>1
  <2>4. v[n] = IF n < p THEN w[n] ELSE IF n = p THEN x ELSE w[n - 1]
    BY DEF IsInsertion
  <2> HIDE DEF g
  <2>5. CASE n < p
    <3>1. n \in 1 .. Len(w) /\ n - 1 < p  BY <1>0, <2>5
    <3>2. f[n] = f[n - 1] + w[n]  BY <1>1, <3>1 DEF AddsUp
    <3> QED BY <2>2, <2>3, <2>4, <2>5, <3>1, <3>2
  <2>6. CASE n = p
    <3>1. ~ (n < p) /\ n - 1 < p  BY <2>1, <2>6
    <3> QED BY <2>2, <2>3, <2>4, <2>6, <3>1
  <2>7. CASE n > p
    <3>1. n - 1 \in 1 .. Len(w) /\ ~ (n < p) /\ n # p /\ ~ (n - 1 < p)  BY <1>0, <2>7
    <3>2. f[n - 1] = f[(n - 1) - 1] + w[n - 1]  BY <1>1, <3>1 DEF AddsUp
    <3>3. (n - 1) - 1 \in 0 .. Len(w) /\ n - 1 \in 1 .. Len(w)  BY <1>0, <3>1
    <3>4. f[(n - 1) - 1] \in Nat /\ w[n - 1] \in Nat  BY <3>3, ElementOfSeq
    <3>5. g[n] = f[n - 1] + x /\ g[n - 1] = f[(n - 1) - 1] + x /\ v[n] = w[n - 1]
      BY <2>2, <2>3, <2>4, <3>1
    <3> QED BY <3>2, <3>4, <3>5
  <2> QED BY <2>1, <2>5, <2>6, <2>7
<1>4. g[Len(w) + 1] = f[Len(w)] + x
  <2>1. Len(w) + 1 \in 0 .. Len(w) + 1 /\ ~ (Len(w) + 1 < p) /\ (Len(w) + 1) - 1 = Len(w)
    BY <1>0
  <2> QED BY <2>1
<1> HIDE DEF g
<1>5. AddsUp(v, g, Len(v))  BY <1>0, <1>2, <1>3 DEF AddsUp
<1>6. SumOf(v) = g[Len(w) + 1]  BY <1>0, <1>5, SumIs
<1>7. SumOf(w) = f[Len(w)]  BY <1>1, SumIs
<1> QED BY <1>4, <1>6, <1>7

----------------------------------------------------------------------------
\* What trades and books hold for one order

LEMMA FillsAreNumbers ==
    ASSUME NEW tape \in Seq(TradeType), NEW id
    PROVE  /\ Fills(tape, id) \in Seq(Nat) /\ Len(Fills(tape, id)) = Len(tape)
           /\ \A k \in 1 .. Len(tape) :
                 Fills(tape, id)[k] =
                    IF id \in {tape[k].buy_id, tape[k].sell_id} THEN tape[k].qty ELSE 0
<1>1. /\ DOMAIN tape = 1 .. Len(tape) /\ Len(tape) \in Nat
      /\ \A k \in 1 .. Len(tape) : tape[k] \in TradeType
  BY LenProperties, ElementOfSeq
<1>2. \A k \in 1 .. Len(tape) : tape[k].qty \in Nat  BY <1>1 DEF TradeType
<1>3. Fills(tape, id) =
        [k \in 1 .. Len(tape) |->
            IF id \in {tape[k].buy_id, tape[k].sell_id} THEN tape[k].qty ELSE 0]
  BY <1>1 DEF Fills
<1>4. Fills(tape, id) \in [1 .. Len(tape) -> Nat]  BY <1>2, <1>3
<1>5. Fills(tape, id) \in Seq(Nat) /\ Len(Fills(tape, id)) = Len(tape)
  BY <1>1, <1>4, SeqDef, LenProperties
<1> QED BY <1>3, <1>5

LEMMA SharesAreNumbers ==
    ASSUME NEW side, NEW book \in Seq(RestingType(side)), NEW id
    PROVE  /\ Shares(book, id) \in Seq(Nat) /\ Len(Shares(book, id)) = Len(book)
           /\ \A i \in 1 .. Len(book) :
                 Shares(book, id)[i] = IF book[i].order_id = id THEN book[i].quantity ELSE 0
<1>1. /\ DOMAIN book = 1 .. Len(book) /\ Len(book) \in Nat
      /\ \A i \in 1 .. Len(book) : book[i] \in RestingType(side)
  BY LenProperties, ElementOfSeq
<1>2. \A i \in 1 .. Len(book) : book[i].quantity \in Nat  BY <1>1 DEF RestingType
<1>3. Shares(book, id) =
        [i \in 1 .. Len(book) |-> IF book[i].order_id = id THEN book[i].quantity ELSE 0]
  BY <1>1 DEF Shares
<1>4. Shares(book, id) \in [1 .. Len(book) -> Nat]  BY <1>2, <1>3
<1>5. Shares(book, id) \in Seq(Nat) /\ Len(Shares(book, id)) = Len(book)
  BY <1>1, <1>4, SeqDef, LenProperties
<1> QED BY <1>3, <1>5

\* A trade adds its quantity to what its two orders traded.
LEMMA TradeAppended ==
    ASSUME NEW tape \in Seq(TradeType), NEW t \in TradeType, NEW id
    PROVE  SumOf(Fills(Append(tape, t), id))
             = SumOf(Fills(tape, id)) + (IF id \in {t.buy_id, t.sell_id} THEN t.qty ELSE 0)
<1> DEFINE new == Append(tape, t)
           x   == IF id \in {t.buy_id, t.sell_id} THEN t.qty ELSE 0
<1>1. /\ new \in Seq(TradeType) /\ Len(new) = Len(tape) + 1 /\ Len(tape) \in Nat
      /\ \A k \in 1 .. Len(tape) : new[k] = tape[k]
      /\ new[Len(tape) + 1] = t
  BY AppendProperties, LenProperties
<1>2. x \in Nat  BY DEF TradeType
<1> HIDE DEF new
<1> DEFINE w == Fills(tape, id)
           v == Fills(new, id)
<1>3. /\ w \in Seq(Nat) /\ Len(w) = Len(tape)
      /\ \A k \in 1 .. Len(tape) :
            w[k] = IF id \in {tape[k].buy_id, tape[k].sell_id} THEN tape[k].qty ELSE 0
  BY FillsAreNumbers
<1>4. /\ v \in Seq(Nat) /\ Len(v) = Len(tape) + 1
      /\ \A k \in 1 .. Len(tape) + 1 :
            v[k] = IF id \in {new[k].buy_id, new[k].sell_id} THEN new[k].qty ELSE 0
  BY <1>1, FillsAreNumbers
<1> HIDE DEF w, v
<1>5. v[Len(tape) + 1] = x
  <2>1. Len(tape) + 1 \in 1 .. Len(tape) + 1  BY <1>1
  <2> QED BY <2>1, <1>1, <1>4
<1>6. ASSUME NEW k \in 1 .. Len(tape) PROVE v[k] = w[k]
  <2>1. k \in 1 .. Len(tape) + 1  BY <1>1
  <2> QED BY <2>1, <1>1, <1>3, <1>4
<1> HIDE DEF x
<1>7. IsInsertion(w, Len(tape) + 1, x, v)
  <2>1. ASSUME NEW k \in 1 .. Len(tape) + 1
        PROVE  \/ k = Len(tape) + 1 /\ ~ (k < Len(tape) + 1)
               \/ k \in 1 .. Len(tape) /\ k < Len(tape) + 1
    BY <1>1
  <2> QED BY <2>1, <1>3, <1>4, <1>5, <1>6 DEF IsInsertion
<1>8. Len(tape) + 1 \in 1 .. Len(w) + 1  BY <1>1, <1>3
<1>9. SumOf(v) = SumOf(w) + x  BY <1>2, <1>3, <1>4, <1>7, <1>8, SumOfInsertion
<1> QED BY <1>9 DEF v, w, new, x

\* The same of a book, wherever an order is put.
LEMMA ShareInserted ==
    ASSUME NEW side, NEW book \in Seq(RestingType(side)),
           NEW new \in Seq(RestingType(side)), NEW p \in 1 .. Len(book) + 1,
           NEW o \in RestingType(side), IsInsertion(book, p, o, new), NEW id
    PROVE  SumOf(Shares(new, id))
             = SumOf(Shares(book, id)) + (IF o.order_id = id THEN o.quantity ELSE 0)
<1> DEFINE x == IF o.order_id = id THEN o.quantity ELSE 0
           w == Shares(book, id)
           v == Shares(new, id)
<1>1. /\ Len(new) = Len(book) + 1 /\ Len(book) \in Nat
      /\ \A i \in 1 .. Len(book) + 1 :
            new[i] = IF i < p THEN book[i] ELSE IF i = p THEN o ELSE book[i - 1]
  BY LenProperties DEF IsInsertion
<1>2. x \in Nat  BY DEF RestingType
<1>3. /\ w \in Seq(Nat) /\ Len(w) = Len(book)
      /\ \A i \in 1 .. Len(book) : w[i] = IF book[i].order_id = id THEN book[i].quantity ELSE 0
  BY SharesAreNumbers
<1>4. /\ v \in Seq(Nat) /\ Len(v) = Len(book) + 1
      /\ \A i \in 1 .. Len(book) + 1 : v[i] = IF new[i].order_id = id THEN new[i].quantity ELSE 0
  BY <1>1, SharesAreNumbers
<1> HIDE DEF w, v
<1>5. ASSUME NEW i \in 1 .. Len(book) + 1
      PROVE  v[i] = IF i < p THEN w[i] ELSE IF i = p THEN x ELSE w[i - 1]
  <2>1. CASE i < p
    <3>1. i \in 1 .. Len(book)  BY <1>1, <2>1
    <3> QED BY <1>1, <1>3, <1>4, <2>1, <3>1
  <2>2. CASE i = p
    <3>1. ~ (i < p)  BY <1>1, <2>2
    <3>2. new[i] = o  BY <1>1, <2>2, <3>1
    <3> QED BY <1>4, <2>2, <3>1, <3>2
  <2>3. CASE i > p
    <3>1. i - 1 \in 1 .. Len(book) /\ ~ (i < p) /\ i # p  BY <1>1, <2>3
    <3>2. new[i] = book[i - 1]  BY <1>1, <3>1
    <3> QED BY <1>3, <1>4, <3>1, <3>2
  <2>4. i < p \/ i = p \/ i > p  BY <1>1
  <2> QED BY <2>1, <2>2, <2>3, <2>4
<1> HIDE DEF x
<1>6. IsInsertion(w, p, x, v)  BY <1>3, <1>4, <1>5 DEF IsInsertion
<1>7. p \in 1 .. Len(w) + 1  BY <1>3
<1>8. SumOf(v) = SumOf(w) + x  BY <1>2, <1>3, <1>4, <1>6, <1>7, SumOfInsertion
<1> QED BY <1>8 DEF v, w, x

\* What the best order gives is missing from its share of the book.
LEMMA ShareReduced ==
    ASSUME NEW side \in {BUY, SELL}, NEW book \in Seq(RestingType(side)), book # <<>>,
           NEW q \in Nat \ {0}, q <= book[1].quantity, NEW id
    PROVE  SumOf(Shares(Reduced(book, q), id)) + (IF book[1].order_id = id THEN q ELSE 0)
             = SumOf(Shares(book, id))
<1> DEFINE T    == RestingType(side)
           tail == Tail(book)
<1>1. /\ Len(book) \in Nat /\ 1 \in 1 .. Len(book) /\ book[1] \in T
      /\ book \in Seq(T)
  BY Elements
<1>2. /\ tail \in Seq(T) /\ Len(tail) = Len(book) - 1
      /\ \A i \in 1 .. Len(book) - 1 : tail[i] = book[i + 1]
  <2> HIDE DEF T
  <2> QED BY <1>1, HeadTailProperties
<1> HIDE DEF tail
<1>3. ASSUME NEW new \in Seq(T), Len(new) = Len(book),
             \A i \in 2 .. Len(book) : new[i] = book[i]
      PROVE  IsInsertion(tail, 1, new[1], new)
  <2>1. ASSUME NEW i \in 1 .. Len(tail) + 1, i # 1
        PROVE  i \in 2 .. Len(book) /\ i - 1 \in 1 .. Len(book) - 1 /\ (i - 1) + 1 = i
    BY <1>1, <1>2, <2>1
  <2>2. \A i \in 1 .. Len(tail) + 1 : ~ (i < 1)  BY <1>1, <1>2
  <2>3. ASSUME NEW i \in 1 .. Len(tail) + 1, i # 1
        PROVE  new[i] = tail[i - 1]
    BY <1>2, <1>3, <2>1, <2>3
  <2>4. Len(new) = Len(tail) + 1  BY <1>1, <1>2, <1>3
  <2> QED BY <2>2, <2>3, <2>4 DEF IsInsertion
<1>4. 1 \in 1 .. Len(tail) + 1  BY <1>1, <1>2
<1> DEFINE left == book[1].quantity - q
           rest == [book[1] EXCEPT !.quantity = left]
<1>5. book[1].quantity \in Nat /\ left \in Nat  BY <1>1 DEF RestingType
<1>6. SumOf(Shares(tail, id)) \in Nat  BY <1>2, SharesAreNumbers, SumIsNat
<1>7. SumOf(Shares(book, id))
        = SumOf(Shares(tail, id)) + (IF book[1].order_id = id THEN book[1].quantity ELSE 0)
  <2>1. IsInsertion(tail, 1, book[1], book)  BY <1>1, <1>3
  <2> QED BY <1>1, <1>2, <1>4, <2>1, ShareInserted
<1>8. CASE book[1].quantity = q
  <2>1. Reduced(book, q) = tail  BY <1>8 DEF Reduced, tail
  <2> QED BY <1>6, <1>7, <1>8, <2>1
<1>9. CASE book[1].quantity # q
  <2>1. left \in Nat \ {0}  BY <1>5, <1>9
  <2>2. rest \in T /\ rest.order_id = book[1].order_id /\ rest.quantity = left
    <3> HIDE DEF left
    <3> QED BY <1>1, <2>1 DEF RestingType
  <2>3. Reduced(book, q) = [book EXCEPT ![1] = rest]  BY <1>9 DEF Reduced
  <2> HIDE DEF rest
  <2>4. /\ [book EXCEPT ![1] = rest] \in Seq(T)
        /\ Len([book EXCEPT ![1] = rest]) = Len(book)
        /\ \A i \in 1 .. Len(book) : [book EXCEPT ![1] = rest][i] = IF i = 1 THEN rest ELSE book[i]
    <3> HIDE DEF T
    <3> QED BY <1>1, <2>2, ExceptSeq
  <2> DEFINE new == [book EXCEPT ![1] = rest]
  <2>5. new[1] = rest  BY <1>1, <2>4
  <2>6. \A i \in 2 .. Len(book) : new[i] = book[i]
    <3>1. \A i \in 2 .. Len(book) : i \in 1 .. Len(book) /\ i # 1  BY <1>1
    <3> QED BY <2>4, <3>1
  <2>7. new \in Seq(T) /\ Len(new) = Len(book)  BY <2>4
  <2> HIDE DEF new
  <2>8. IsInsertion(tail, 1, rest, new)  BY <1>3, <2>5, <2>6, <2>7
  <2>9. SumOf(Shares(new, id))
          = SumOf(Shares(tail, id)) + (IF rest.order_id = id THEN rest.quantity ELSE 0)
    BY <1>2, <1>4, <2>2, <2>7, <2>8, ShareInserted
  <2>10. SumOf(Shares(new, id)) + (IF book[1].order_id = id THEN q ELSE 0)
           = SumOf(Shares(book, id))
    <3> HIDE DEF T
    <3>1. CASE book[1].order_id = id
      <4>1. SumOf(Shares(new, id)) = SumOf(Shares(tail, id)) + left  BY <2>2, <2>9, <3>1
      <4>2. SumOf(Shares(book, id)) = SumOf(Shares(tail, id)) + book[1].quantity
        BY <1>7, <3>1
      <4>3. left + q = book[1].quantity  BY <1>5
      <4> HIDE DEF left
      <4> QED BY <1>5, <1>6, <3>1, <4>1, <4>2, <4>3
    <3>2. CASE book[1].order_id # id
      BY <1>6, <1>7, <2>2, <2>9, <3>2
    <3> QED BY <3>1, <3>2
  <2> QED BY <2>3, <2>10 DEF new
<1> QED BY <1>8, <1>9

LEMMA NoShare ==
    ASSUME NEW side, NEW book \in Seq(RestingType(side)), NEW id,
           \A i \in 1 .. Len(book) : book[i].order_id # id
    PROVE  SumOf(Shares(book, id)) = 0
<1>1. \A i \in 1 .. Len(Shares(book, id)) : Shares(book, id)[i] = 0  BY SharesAreNumbers
<1> QED BY <1>1, SharesAreNumbers, SumOfZeros

LEMMA NoFill ==
    ASSUME NEW tape \in Seq(TradeType), NEW id,
           \A k \in 1 .. Len(tape) : id \notin {tape[k].buy_id, tape[k].sell_id}
    PROVE  SumOf(Fills(tape, id)) = 0
<1>1. \A k \in 1 .. Len(Fills(tape, id)) : Fills(tape, id)[k] = 0  BY FillsAreNumbers
<1> QED BY <1>1, FillsAreNumbers, SumOfZeros

----------------------------------------------------------------------------
\* Conservation.  Beside the order of arrival and the orders that failed, the
\* invariant needs that every trade is between orders that were submitted.

TradesAreOfSubmitted ==
    \A k \in 1 .. Len(trades) :
        trades[k].buy_id <= Len(submitted) /\ trades[k].sell_id <= Len(submitted)

QInv == CInv /\ TradesAreOfSubmitted /\ QuantityConserved

LEMMA Amounts ==
    ASSUME TypeOK, NEW id
    PROVE  Traded(id) \in Nat /\ Resting(id) \in Nat
<1>1. /\ trades \in Seq(TradeType)
      /\ buy_orders \in Seq(RestingType(BUY)) /\ sell_orders \in Seq(RestingType(SELL))
  BY DEF TypeOK
<1>2. SumOf(Fills(trades, id)) \in Nat  BY <1>1, FillsAreNumbers, SumIsNat
<1>3. SumOf(Shares(buy_orders, id)) \in Nat /\ SumOf(Shares(sell_orders, id)) \in Nat
  BY <1>1, SharesAreNumbers, SumIsNat
<1> QED BY <1>2, <1>3 DEF Traded, Resting

\* The running order rests nowhere, nor does one that has not arrived.
LEMMA RestsNowhere ==
    ASSUME IInv, NEW id \in Nat,
           \/ pc = "match" /\ id = order.order_id
           \/ id = Len(submitted) + 1
    PROVE  Resting(id) = 0
<1>1. ArrivedBefore(buy_orders, id) /\ ArrivedBefore(sell_orders, id)
  BY DEF IInv, ArrivalOrder
<1>2. buy_orders \in Seq(RestingType(BUY)) /\ sell_orders \in Seq(RestingType(SELL))
  BY DEF IInv, TypeOK
<1>3. ~ (id < id)  OBVIOUS
<1>4. SumOf(Shares(buy_orders, id)) = 0 /\ SumOf(Shares(sell_orders, id)) = 0
  BY <1>1, <1>2, <1>3, NoShare DEF ArrivedBefore
<1> QED BY <1>4 DEF Resting

\* The order that begins has traded nothing and rests nowhere: all it asks for is
\* still to be worked.
LEMMA BeginConserves ==
    ASSUME QInv, pc # "match", NEW in \in Inputs, Begin(in), UNCHANGED in_batch
    PROVE  TradesAreOfSubmitted' /\ QuantityConserved'
<1>0. IInv /\ IInv' /\ FailedBefore
  BY BeginIInv DEF QInv, CInv
<1>1. /\ UNCHANGED <<buy_orders, sell_orders, trades, failed>>
      /\ submitted' = Append(submitted, order') /\ order'.order_id = Len(submitted) + 1
      /\ order' \in OrderType /\ order = NoOrder
  BY <1>0 DEF Begin, books, IInv, TypeOK
<1>2. /\ submitted \in Seq(OrderType) /\ Len(submitted) \in Nat
      /\ trades \in Seq(TradeType)
  BY <1>0, LenProperties DEF IInv, TypeOK
<1>3. /\ Len(submitted') = Len(submitted) + 1
      /\ \A i \in 1 .. Len(submitted) : submitted'[i] = submitted[i]
      /\ submitted'[Len(submitted) + 1] = order'
  BY <1>1, <1>2, AppendProperties
<1>4. /\ \A k \in 1 .. Len(trades) : trades[k] \in TradeType
      /\ \A k \in 1 .. Len(trades) : trades[k].buy_id \in Nat /\ trades[k].sell_id \in Nat
      /\ \A k \in 1 .. Len(trades) : /\ trades[k].buy_id <= Len(submitted)
                                     /\ trades[k].sell_id <= Len(submitted)
  <2>1. \A k \in 1 .. Len(trades) : trades[k] \in TradeType  BY <1>2, ElementOfSeq
  <2> QED BY <2>1 DEF TradeType, QInv, TradesAreOfSubmitted
<1>5. TradesAreOfSubmitted'
  BY <1>1, <1>2, <1>3, <1>4 DEF TradesAreOfSubmitted
<1>6. ASSUME NEW id \in 1 .. Len(submitted)
      PROVE  /\ Working(id) = 0 /\ Working(id)' = 0
             /\ Traded(id)' = Traded(id) /\ Resting(id)' = Resting(id)
  <2>1. id # 0 /\ id # Len(submitted) + 1  BY <1>2
  <2> QED BY <1>1, <2>1 DEF Working, NoOrder, Traded, Resting
<1>7. ASSUME NEW id \in Nat, id = Len(submitted) + 1
      PROVE  /\ Traded(id)' = 0 /\ Resting(id)' = 0
             /\ Working(id)' = order'.quantity
  <2>1. ~ (id <= Len(submitted))  BY <1>2, <1>7
  <2>2. SumOf(Fills(trades, id)) = 0
    <3>1. \A k \in 1 .. Len(trades) : id \notin {trades[k].buy_id, trades[k].sell_id}
      BY <1>4, <2>1
    <3> QED BY <1>2, <3>1, NoFill
  <2>3. Resting(id) = 0  BY <1>0, <1>7, RestsNowhere
  <2> QED BY <1>1, <1>7, <2>2, <2>3 DEF Traded, Resting, Working
<1>8. failed \subseteq 1 .. Len(submitted)  BY <1>0 DEF FailedBefore
<1>9. ASSUME NEW id \in 1 .. Len(submitted) + 1
      PROVE  IF id \in failed
             THEN Resting(id)' = 0 /\ Traded(id)' <= submitted'[id].quantity
             ELSE Traded(id)' + Resting(id)' + Working(id)' = submitted'[id].quantity
  <2>1. CASE id \in 1 .. Len(submitted)
    BY <1>3, <1>6, <2>1 DEF QInv, QuantityConserved
  <2>2. CASE id = Len(submitted) + 1
    <3>1. id \notin failed  BY <1>2, <1>8, <2>2
    <3>2. order'.quantity \in Nat /\ id \in Nat  BY <1>1, <1>2, <2>2 DEF OrderType
    <3>3. Traded(id)' = 0 /\ Resting(id)' = 0 /\ Working(id)' = order'.quantity
      BY <1>7, <2>2, <3>2
    <3>4. submitted'[id] = order'  BY <1>3, <2>2
    <3> QED BY <3>1, <3>2, <3>3, <3>4
  <2>3. id \in 1 .. Len(submitted) \/ id = Len(submitted) + 1  BY <1>2
  <2> QED BY <2>1, <2>2, <2>3
<1>10. QuantityConserved'
  BY <1>1, <1>3, <1>9 DEF QuantityConserved
<1> QED BY <1>5, <1>10

\* A trade moves q from what the running order holds, and from what the best
\* order rests with, to what each has traded.
LEMMA TradeConserves ==
    ASSUME QInv, IInv', pc = "match", UNCHANGED <<submitted, failed>>,
           NEW best_id \in Nat \ {0}, best_id < order.order_id, NEW q \in Nat \ {0},
           q <= order.quantity, order' = [order EXCEPT !.quantity = @ - q],
           \A id \in Nat : Traded(id)' = Traded(id)
                              + (IF id = order.order_id \/ id = best_id THEN q ELSE 0),
           \A id \in Nat : Resting(id)' + (IF id = best_id THEN q ELSE 0) = Resting(id)
    PROVE  QuantityConserved'
<1>1. /\ IInv /\ TypeOK /\ TypeOK' /\ order \in OrderType
      /\ order.order_id = Len(submitted) /\ order.order_id \notin failed
      /\ Len(submitted) \in Nat
  BY MatchingOrder, LenProperties DEF QInv, CInv, IInv, FailedBefore, ArrivalOrder, TypeOK
<1>2. order.quantity \in Nat /\ order.order_id \in Nat  BY <1>1 DEF OrderType
<1>3. order'.order_id = order.order_id /\ order'.quantity = order.quantity - q
  BY <1>1 DEF OrderType
<1>4. SUFFICES ASSUME NEW id \in 1 .. Len(submitted)
               PROVE  IF id \in failed
                      THEN Resting(id)' = 0 /\ Traded(id)' <= submitted[id].quantity
                      ELSE Traded(id)' + Resting(id)' + Working(id)' = submitted[id].quantity
  BY DEF QuantityConserved
<1>5. /\ IF id \in failed
         THEN Resting(id) = 0 /\ Traded(id) <= submitted[id].quantity
         ELSE Traded(id) + Resting(id) + Working(id) = submitted[id].quantity
      /\ id \in Nat
  BY <1>1 DEF QInv, QuantityConserved
<1>6. Traded(id) \in Nat /\ Resting(id) \in Nat  BY <1>1, Amounts
<1>7. Resting(id)' \in Nat
  <2>1. /\ buy_orders' \in Seq(RestingType(BUY)) /\ sell_orders' \in Seq(RestingType(SELL))
    BY <1>1 DEF TypeOK
  <2>2. SumOf(Shares(buy_orders', id)) \in Nat /\ SumOf(Shares(sell_orders', id)) \in Nat
    BY <2>1, SharesAreNumbers, SumIsNat
  <2> QED BY <2>2 DEF Resting
<1>8. CASE id = order.order_id
  <2>1. id # best_id /\ id \notin failed  BY <1>1, <1>2, <1>8
  <2>2. Traded(id)' = Traded(id) + q /\ Resting(id)' + 0 = Resting(id)
    BY <1>5, <1>8, <2>1
  <2>3. Working(id) = order.quantity /\ Working(id)' = order.quantity - q
    BY <1>3, <1>8 DEF Working
  <2> QED BY <1>2, <1>5, <1>6, <1>7, <2>1, <2>2, <2>3
<1>9. CASE id = best_id
  <2>1. id # order.order_id  BY <1>2, <1>9
  <2>2. Traded(id)' = Traded(id) + q /\ Resting(id)' + q = Resting(id)
    BY <1>5, <1>9
  <2>3. Working(id) = 0 /\ Working(id)' = 0  BY <1>3, <2>1 DEF Working
  <2>4. id \notin failed  BY <1>5, <1>7, <2>2
  <2> QED BY <1>5, <1>6, <1>7, <2>2, <2>3, <2>4
<1>10. CASE id # order.order_id /\ id # best_id
  <2>1. Traded(id)' = Traded(id) + 0 /\ Resting(id)' + 0 = Resting(id)
    BY <1>5, <1>10
  <2>2. Working(id) = 0 /\ Working(id)' = 0  BY <1>3, <1>10 DEF Working
  <2>3. Traded(id)' = Traded(id) /\ Resting(id)' = Resting(id)  BY <1>6, <1>7, <2>1
  <2> QED BY <1>5, <2>2, <2>3
<1> QED BY <1>8, <1>9, <1>10

LEMMA TradeKnown ==
    ASSUME QInv, UNCHANGED submitted, NEW t \in TradeType, trades' = Append(trades, t),
           t.buy_id <= Len(submitted), t.sell_id <= Len(submitted)
    PROVE  TradesAreOfSubmitted'
<1>1. trades \in Seq(TradeType)  BY DEF QInv, CInv, IInv, TypeOK
<1>2. /\ Len(trades') = Len(trades) + 1 /\ Len(trades) \in Nat
      /\ \A k \in 1 .. Len(trades) : trades'[k] = trades[k]
      /\ trades'[Len(trades) + 1] = t
  BY <1>1, AppendProperties, LenProperties
<1>3. \A k \in 1 .. Len(trades) + 1 : k \in 1 .. Len(trades) \/ k = Len(trades) + 1
  BY <1>2
<1> QED BY <1>2, <1>3 DEF QInv, TradesAreOfSubmitted

LEMMA MatchBuyConserves ==
    ASSUME QInv, MatchBuy
    PROVE  TradesAreOfSubmitted' /\ QuantityConserved'
<1> DEFINE best == sell_orders[1]
           q    == MatchedQuantity(order, best)
           t    == [buy_id |-> order.order_id, sell_id |-> best.order_id,
                    price |-> best.price, qty |-> q]
<1>1. /\ pc = "match" /\ order.side = BUY /\ order.quantity > 0 /\ sell_orders # <<>>
      /\ trades' = Append(trades, t) /\ order' = [order EXCEPT !.quantity = @ - q]
      /\ sell_orders' = Reduced(sell_orders, q)
      /\ UNCHANGED <<buy_orders, submitted, failed>>
  BY DEF MatchBuy, Matchable, RecordTrade, history
<1>2. IInv /\ IInv' /\ Len(submitted) \in Nat
  BY MatchBuyIInv, LenProperties DEF QInv, CInv, IInv, TypeOK
<1>3. /\ order \in RestingType(BUY) /\ order.order_id = Len(submitted)
      /\ sell_orders \in Seq(RestingType(SELL)) /\ trades \in Seq(TradeType)
      /\ buy_orders \in Seq(RestingType(BUY))
  BY <1>1, <1>2, MatchingOrder DEF IInv, TypeOK, ArrivalOrder
<1>4. best \in RestingType(SELL) /\ best.order_id < order.order_id
  <2>1. Len(sell_orders) \in Nat /\ 1 \in 1 .. Len(sell_orders) /\ best \in RestingType(SELL)
    BY <1>1, <1>3, Elements
  <2> QED BY <1>1, <1>2, <2>1 DEF IInv, ArrivalOrder, ArrivedBefore
<1>5. /\ best.order_id \in Nat \ {0} /\ best.quantity \in Nat \ {0}
      /\ order.order_id \in Nat \ {0} /\ order.quantity \in Nat \ {0}
      /\ best.price \in Nat \ {0}
  BY <1>3, <1>4 DEF RestingType
<1>6. q \in Nat \ {0} /\ q <= order.quantity /\ q <= best.quantity
  BY <1>5, MatchedQuantityProperties
<1>7. t \in TradeType  BY <1>5, <1>6 DEF TradeType
<1> HIDE DEF q
<1>8. TradesAreOfSubmitted'
  <2>1. best.order_id <= Len(submitted) /\ order.order_id <= Len(submitted)
    BY <1>2, <1>3, <1>4, <1>5
  <2>2. t.buy_id <= Len(submitted) /\ t.sell_id <= Len(submitted)  BY <2>1
  <2> HIDE DEF t
  <2> QED BY <1>1, <1>7, <2>2, TradeKnown
<1>9. ASSUME NEW id \in Nat
      PROVE  Traded(id)' = Traded(id)
                + (IF id = order.order_id \/ id = best.order_id THEN q ELSE 0)
  <2>1. SumOf(Fills(Append(trades, t), id))
          = SumOf(Fills(trades, id)) + (IF id \in {t.buy_id, t.sell_id} THEN t.qty ELSE 0)
    BY <1>3, <1>7, TradeAppended
  <2> QED BY <1>1, <2>1 DEF Traded
<1>10. ASSUME NEW id \in Nat
       PROVE  Resting(id)' + (IF id = best.order_id THEN q ELSE 0) = Resting(id)
  <2>1. SumOf(Shares(Reduced(sell_orders, q), id)) + (IF best.order_id = id THEN q ELSE 0)
          = SumOf(Shares(sell_orders, id))
    BY <1>1, <1>3, <1>6, ShareReduced DEF SELL
  <2>2. SumOf(Shares(buy_orders, id)) \in Nat  BY <1>3, SharesAreNumbers, SumIsNat
  <2>3. SumOf(Shares(sell_orders', id)) \in Nat
    BY <1>2, SharesAreNumbers, SumIsNat DEF IInv, TypeOK
  <2> HIDE DEF best
  <2>4. Resting(id)' = SumOf(Shares(buy_orders, id)) + SumOf(Shares(sell_orders', id))
    BY <1>1 DEF Resting
  <2>5. Resting(id) = SumOf(Shares(buy_orders, id)) + SumOf(Shares(sell_orders, id))
    BY DEF Resting
  <2> QED BY <1>1, <1>6, <2>1, <2>2, <2>3, <2>4, <2>5
<1>11. QuantityConserved'
  <2> HIDE DEF best
  <2> QED BY <1>1, <1>2, <1>4, <1>5, <1>6, <1>9, <1>10, TradeConserves
<1> QED BY <1>8, <1>11

\* The mirror image.
LEMMA MatchSellConserves ==
    ASSUME QInv, MatchSell
    PROVE  TradesAreOfSubmitted' /\ QuantityConserved'
<1> DEFINE best == buy_orders[1]
           q    == MatchedQuantity(order, best)
           t    == [buy_id |-> best.order_id, sell_id |-> order.order_id,
                    price |-> best.price, qty |-> q]
<1>1. /\ pc = "match" /\ order.side = SELL /\ order.quantity > 0 /\ buy_orders # <<>>
      /\ trades' = Append(trades, t) /\ order' = [order EXCEPT !.quantity = @ - q]
      /\ buy_orders' = Reduced(buy_orders, q)
      /\ UNCHANGED <<sell_orders, submitted, failed>>
  BY DEF MatchSell, Matchable, RecordTrade, history, BUY, SELL
<1>2. IInv /\ IInv' /\ Len(submitted) \in Nat
  BY MatchSellIInv, LenProperties DEF QInv, CInv, IInv, TypeOK
<1>3. /\ order \in RestingType(SELL) /\ order.order_id = Len(submitted)
      /\ buy_orders \in Seq(RestingType(BUY)) /\ trades \in Seq(TradeType)
      /\ sell_orders \in Seq(RestingType(SELL))
  BY <1>1, <1>2, MatchingOrder DEF IInv, TypeOK, ArrivalOrder
<1>4. best \in RestingType(BUY) /\ best.order_id < order.order_id
  <2>1. Len(buy_orders) \in Nat /\ 1 \in 1 .. Len(buy_orders) /\ best \in RestingType(BUY)
    BY <1>1, <1>3, Elements
  <2> QED BY <1>1, <1>2, <2>1 DEF IInv, ArrivalOrder, ArrivedBefore
<1>5. /\ best.order_id \in Nat \ {0} /\ best.quantity \in Nat \ {0}
      /\ order.order_id \in Nat \ {0} /\ order.quantity \in Nat \ {0}
      /\ best.price \in Nat \ {0}
  BY <1>3, <1>4 DEF RestingType
<1>6. q \in Nat \ {0} /\ q <= order.quantity /\ q <= best.quantity
  BY <1>5, MatchedQuantityProperties
<1>7. t \in TradeType  BY <1>5, <1>6 DEF TradeType
<1> HIDE DEF q
<1>8. TradesAreOfSubmitted'
  <2>1. best.order_id <= Len(submitted) /\ order.order_id <= Len(submitted)
    BY <1>2, <1>3, <1>4, <1>5
  <2>2. t.buy_id <= Len(submitted) /\ t.sell_id <= Len(submitted)  BY <2>1
  <2> HIDE DEF t
  <2> QED BY <1>1, <1>7, <2>2, TradeKnown
<1>9. ASSUME NEW id \in Nat
      PROVE  Traded(id)' = Traded(id)
                + (IF id = order.order_id \/ id = best.order_id THEN q ELSE 0)
  <2>1. SumOf(Fills(Append(trades, t), id))
          = SumOf(Fills(trades, id)) + (IF id \in {t.buy_id, t.sell_id} THEN t.qty ELSE 0)
    BY <1>3, <1>7, TradeAppended
  <2> QED BY <1>1, <2>1 DEF Traded
<1>10. ASSUME NEW id \in Nat
       PROVE  Resting(id)' + (IF id = best.order_id THEN q ELSE 0) = Resting(id)
  <2>1. SumOf(Shares(Reduced(buy_orders, q), id)) + (IF best.order_id = id THEN q ELSE 0)
          = SumOf(Shares(buy_orders, id))
    BY <1>1, <1>3, <1>6, ShareReduced DEF BUY
  <2>2. SumOf(Shares(sell_orders, id)) \in Nat  BY <1>3, SharesAreNumbers, SumIsNat
  <2>3. SumOf(Shares(buy_orders', id)) \in Nat
    BY <1>2, SharesAreNumbers, SumIsNat DEF IInv, TypeOK
  <2> HIDE DEF best
  <2>4. Resting(id)' = SumOf(Shares(buy_orders', id)) + SumOf(Shares(sell_orders, id))
    BY <1>1 DEF Resting
  <2>5. Resting(id) = SumOf(Shares(buy_orders, id)) + SumOf(Shares(sell_orders, id))
    BY DEF Resting
  <2> QED BY <1>1, <1>6, <2>1, <2>2, <2>3, <2>4, <2>5
<1>11. QuantityConserved'
  <2> HIDE DEF best
  <2> QED BY <1>1, <1>2, <1>4, <1>5, <1>6, <1>9, <1>10, TradeConserves
<1> QED BY <1>8, <1>11


\* The remainder moves from the running order into a book.
LEMMA InsertConserves ==
    ASSUME QInv, InsertBuy \/ InsertSell
    PROVE  TradesAreOfSubmitted' /\ QuantityConserved'
<1>1. /\ pc = "match" /\ order.quantity > 0 /\ order' = NoOrder
      /\ UNCHANGED <<trades, submitted, failed>>
  BY DEF InsertBuy, InsertSell, Finish, history
<1>2. /\ IInv /\ Len(submitted) \in Nat /\ order.order_id \notin failed
      /\ buy_orders \in Seq(RestingType(BUY)) /\ sell_orders \in Seq(RestingType(SELL))
  BY <1>1, LenProperties DEF QInv, CInv, IInv, TypeOK, FailedBefore
<1>3. order \in RestingType(order.side)  BY <1>1, <1>2, MatchingOrder DEF IInv
<1>4. order.quantity \in Nat /\ order.order_id \in Nat \ {0}  BY <1>3 DEF RestingType
<1>5. TradesAreOfSubmitted'  BY <1>1 DEF QInv, TradesAreOfSubmitted
<1>6. ASSUME NEW id \in Nat
      PROVE  Resting(id)' = Resting(id) + (IF order.order_id = id THEN order.quantity ELSE 0)
  <2>1. SumOf(Shares(buy_orders, id)) \in Nat /\ SumOf(Shares(sell_orders, id)) \in Nat
    BY <1>2, SharesAreNumbers, SumIsNat
  <2>2. CASE InsertBuy
    <3>1. /\ order \in RestingType(BUY) /\ sell_orders' = sell_orders
          /\ \E p \in 1 .. Len(buy_orders) + 1 : buy_orders' = InsertAt(buy_orders, p, order)
      BY <1>3, <2>2 DEF InsertBuy
    <3>2. PICK p \in 1 .. Len(buy_orders) + 1 : buy_orders' = InsertAt(buy_orders, p, order)
      BY <3>1
    <3>3. /\ buy_orders' \in Seq(RestingType(BUY))
          /\ IsInsertion(buy_orders, p, order, buy_orders')
      BY <1>2, <3>1, <3>2, InsertAtProperties
    <3>4. SumOf(Shares(buy_orders', id)) = SumOf(Shares(buy_orders, id))
             + (IF order.order_id = id THEN order.quantity ELSE 0)
      BY <1>2, <3>1, <3>3, ShareInserted
    <3>5. Resting(id)' = SumOf(Shares(buy_orders', id)) + SumOf(Shares(sell_orders, id))
      BY <3>1 DEF Resting
    <3> QED BY <1>4, <2>1, <3>4, <3>5 DEF Resting
  <2>3. CASE InsertSell
    <3>1. /\ order \in RestingType(SELL) /\ buy_orders' = buy_orders
          /\ \E p \in 1 .. Len(sell_orders) + 1 : sell_orders' = InsertAt(sell_orders, p, order)
      BY <1>3, <2>3 DEF InsertSell
    <3>2. PICK p \in 1 .. Len(sell_orders) + 1 : sell_orders' = InsertAt(sell_orders, p, order)
      BY <3>1
    <3>3. /\ sell_orders' \in Seq(RestingType(SELL))
          /\ IsInsertion(sell_orders, p, order, sell_orders')
      BY <1>2, <3>1, <3>2, InsertAtProperties
    <3>4. SumOf(Shares(sell_orders', id)) = SumOf(Shares(sell_orders, id))
             + (IF order.order_id = id THEN order.quantity ELSE 0)
      BY <1>2, <3>1, <3>3, ShareInserted
    <3>5. Resting(id)' = SumOf(Shares(buy_orders, id)) + SumOf(Shares(sell_orders', id))
      BY <3>1 DEF Resting
    <3> QED BY <1>4, <2>1, <3>4, <3>5 DEF Resting
  <2> QED BY <2>2, <2>3
<1>7. ASSUME NEW id \in 1 .. Len(submitted)
      PROVE  IF id \in failed
             THEN Resting(id)' = 0 /\ Traded(id)' <= submitted[id].quantity
             ELSE Traded(id)' + Resting(id)' + Working(id)' = submitted[id].quantity
  <2>1. id \in Nat /\ id # 0  BY <1>2
  <2>2. Traded(id)' = Traded(id) /\ Working(id)' = 0
    BY <1>1, <2>1 DEF Traded, Working, NoOrder
  <2>3. Traded(id) \in Nat /\ Resting(id) \in Nat  BY <1>2, Amounts DEF IInv
  <2>4. Resting(id)' = Resting(id) + Working(id) /\ Working(id) \in Nat
        /\ (id \in failed => Working(id) = 0)
    BY <1>2, <1>4, <1>6, <2>1 DEF Working
  <2>5. IF id \in failed
        THEN Resting(id) = 0 /\ Traded(id) <= submitted[id].quantity
        ELSE Traded(id) + Resting(id) + Working(id) = submitted[id].quantity
    BY DEF QInv, QuantityConserved
  <2>6. CASE id \in failed  BY <2>2, <2>3, <2>4, <2>5, <2>6
  <2>7. CASE id \notin failed  BY <2>2, <2>3, <2>4, <2>5, <2>7
  <2> QED BY <2>6, <2>7
<1>8. QuantityConserved'  BY <1>1, <1>7 DEF QuantityConserved
<1> QED BY <1>5, <1>8

\* A call that runs out of memory loses what it held and nothing else.
LEMMA OutOfMemoryConserves ==
    ASSUME QInv, OutOfMemory
    PROVE  TradesAreOfSubmitted' /\ QuantityConserved'
<1>1. /\ pc = "match" /\ order' = NoOrder /\ failed' = failed \cup {order.order_id}
      /\ UNCHANGED <<buy_orders, sell_orders, trades, submitted>>
  BY DEF OutOfMemory, Raise, books
<1>2. /\ IInv /\ TypeOK /\ Len(submitted) \in Nat /\ order.order_id \notin failed
      /\ order.order_id \in Nat \ {0} /\ order.quantity \in Nat
  BY <1>1, MatchingOrder, LenProperties DEF QInv, CInv, IInv, TypeOK, FailedBefore, OrderType
<1>3. Resting(order.order_id) = 0  BY <1>1, <1>2, RestsNowhere
<1>4. TradesAreOfSubmitted'  BY <1>1 DEF QInv, TradesAreOfSubmitted
<1>5. ASSUME NEW id \in 1 .. Len(submitted)
      PROVE  IF id \in failed'
             THEN Resting(id)' = 0 /\ Traded(id)' <= submitted[id].quantity
             ELSE Traded(id)' + Resting(id)' + Working(id)' = submitted[id].quantity
  <2>1. id # 0  BY <1>2
  <2>2. /\ Traded(id)' = Traded(id) /\ Resting(id)' = Resting(id) /\ Working(id)' = 0
    BY <1>1, <2>1 DEF Traded, Resting, Working, NoOrder
  <2>3. Traded(id) \in Nat /\ Resting(id) \in Nat  BY <1>2, Amounts
  <2>4. IF id \in failed
        THEN Resting(id) = 0 /\ Traded(id) <= submitted[id].quantity
        ELSE Traded(id) + Resting(id) + Working(id) = submitted[id].quantity
    BY DEF QInv, QuantityConserved
  <2>5. CASE id = order.order_id
    <3>1. Working(id) = order.quantity  BY <2>5 DEF Working
    <3>2. Traded(id) + 0 + order.quantity = submitted[id].quantity
      BY <1>2, <1>3, <2>4, <2>5, <3>1
    <3> QED BY <1>1, <1>2, <1>3, <2>2, <2>3, <2>5, <3>2
  <2>6. CASE id # order.order_id
    <3>1. Working(id) = 0  BY <2>6 DEF Working
    <3>2. id \in failed' <=> id \in failed  BY <1>1, <2>6
    <3> QED BY <2>2, <2>4, <3>1, <3>2
  <2> QED BY <2>5, <2>6
<1>6. QuantityConserved'  BY <1>1, <1>5 DEF QuantityConserved
<1> QED BY <1>4, <1>6

\* The other steps change no book, trade or history, and no quantity is at work
\* before or after them.
LEMMA IdleConserves ==
    ASSUME QInv, UNCHANGED <<buy_orders, sell_orders, trades, submitted, failed>>,
           order' = order \/ (order' = NoOrder /\ (pc = "match" => order.quantity = 0))
    PROVE  TradesAreOfSubmitted' /\ QuantityConserved'
<1>1. TypeOK /\ Len(submitted) \in Nat
  BY LenProperties DEF QInv, CInv, IInv, TypeOK
<1>2. ASSUME NEW id \in 1 .. Len(submitted)
      PROVE  /\ Traded(id)' = Traded(id) /\ Resting(id)' = Resting(id)
             /\ Working(id)' = Working(id)
  <2>1. id # 0  BY <1>1
  <2>2. CASE order' = order  BY <2>2 DEF Traded, Resting, Working
  <2>3. CASE order' = NoOrder /\ (pc = "match" => order.quantity = 0)
    <3>1. pc # "match" => order = NoOrder  BY <1>1 DEF TypeOK
    <3>2. Working(id) = 0 /\ Working(id)' = 0  BY <2>1, <2>3, <3>1 DEF Working, NoOrder
    <3> QED BY <3>2 DEF Traded, Resting
  <2> QED BY <2>2, <2>3
<1>3. QuantityConserved'  BY <1>2 DEF QInv, QuantityConserved
<1> QED BY <1>3 DEF QInv, TradesAreOfSubmitted

\* Quantity is neither created nor lost: what an order asked for is what it
\* traded, what rests and what the running call holds; one whose call ran out of
\* memory rests nowhere and keeps its trades.
THEOREM Conservation == Spec => []QuantityConserved
<1>1. Init => TradesAreOfSubmitted /\ QuantityConserved
  <2>1. Len(<<>>) = 0  OBVIOUS
  <2> QED BY <2>1 DEF Init, TradesAreOfSubmitted, QuantityConserved
<1>2. QInv /\ [Next]_vars => (TradesAreOfSubmitted /\ QuantityConserved)'
  <2> SUFFICES ASSUME QInv, [Next]_vars PROVE TradesAreOfSubmitted' /\ QuantityConserved'
    OBVIOUS
  <2>0. TypeOK  BY DEF QInv, CInv, IInv
  <2>1. CASE AddOrder \/ BatchMember
    <3>1. PICK in \in Inputs : Refuse(in) \/ CountLimit(in) \/ (Begin(in) /\ UNCHANGED in_batch)
      BY <2>1 DEF AddOrder, BatchMember
    <3>2. pc # "match"  BY <2>1 DEF AddOrder, BatchMember
    <3>3. CASE Refuse(in) \/ CountLimit(in)
      BY <3>2, <3>3, IdleConserves DEF Refuse, CountLimit, Raise, books, history
    <3> QED BY <3>1, <3>2, <3>3, BeginConserves
  <2>2. CASE BatchStart \/ BatchReturn
    BY <2>2, IdleConserves DEF BatchStart, BatchReturn, books, history
  <2>3. CASE MatchBuy  BY <2>3, MatchBuyConserves
  <2>4. CASE MatchSell  BY <2>4, MatchSellConserves
  <2>5. CASE Filled
    BY <2>5, IdleConserves DEF Filled, Finish, books, history
  <2>6. CASE InsertBuy \/ InsertSell  BY <2>6, InsertConserves
  <2>7. CASE OutOfMemory  BY <2>7, OutOfMemoryConserves
  <2>8. CASE UNCHANGED vars
    BY <2>8, IdleConserves DEF vars, books, control, history
  <2> QED BY <2>1, <2>2, <2>3, <2>4, <2>5, <2>6, <2>7, <2>8 DEF Next
<1>3. Init => QInv  BY <1>1, InitCInv DEF QInv
<1>4. QInv /\ [Next]_vars => QInv'  BY <1>2, NextCInv DEF QInv
<1>5. QInv => QuantityConserved  BY DEF QInv
<1> QED BY <1>3, <1>4, <1>5, PTL DEF Spec

----------------------------------------------------------------------------
\* The Python engine, over the same fields.  It sorts a list only when an order
\* arrives against it, so its lists are in no order between calls; what survives
\* between calls is that orders equal in price and time stand as they arrived.

CONSTANTS Prices, Quantities, Timestamps

Python == INSTANCE ReferenceEngine

\* The keys of one side are compared like pairs of numbers.
LEMMA KeysAreOrdered ==
    ASSUME NEW side \in {BUY, SELL}, NEW a, NEW b, NEW c,
           a.price \in Int, a.timestamp \in Nat, a.side = side,
           b.price \in Int, b.timestamp \in Nat, b.side = side,
           c.price \in Int, c.timestamp \in Nat, c.side = side
    PROVE  /\ Python!KeyLess(a, b) /\ ~ Python!KeyLess(c, b) => Python!KeyLess(a, c)
           /\ ~ Python!KeyLess(b, a) /\ Python!KeyLess(b, c) => Python!KeyLess(a, c)
           /\ ~ Python!KeyLess(b, a) /\ ~ Python!KeyLess(c, b) => ~ Python!KeyLess(c, a)
           /\ Python!KeyLess(a, b) => ~ Python!KeyLess(b, a)
<1>1. CASE side = BUY  BY <1>1 DEF Python!KeyLess, Python!BUY, BUY
<1>2. CASE side = SELL  BY <1>2 DEF Python!KeyLess, Python!BUY, BUY, SELL
<1> QED BY <1>1, <1>2

\* The sort puts the places of a list in a strict total order.
LEMMA SortIsTotalOrder ==
    ASSUME NEW P \in SUBSET Int, NEW side \in {BUY, SELL}, NEW book \in Seq(Priced(P, side))
    PROVE  /\ \A i \in 1 .. Len(book) : ~ Python!SortsBefore(book, i, i)
           /\ \A i, j \in 1 .. Len(book) :
                 i # j => Python!SortsBefore(book, i, j) \/ Python!SortsBefore(book, j, i)
           /\ \A i, j, k \in 1 .. Len(book) :
                 Python!SortsBefore(book, i, j) /\ Python!SortsBefore(book, j, k)
                 => Python!SortsBefore(book, i, k)
<1>1. /\ Len(book) \in Nat
      /\ \A i \in 1 .. Len(book) : /\ book[i].price \in Int /\ book[i].timestamp \in Nat
                                  /\ book[i].side = side
  BY Elements, PricedFields
<1>2. \A i \in 1 .. Len(book) : ~ Python!SortsBefore(book, i, i)
  BY <1>1 DEF Python!SortsBefore, Python!KeyLess
<1>3. ASSUME NEW i \in 1 .. Len(book), NEW j \in 1 .. Len(book), i # j
      PROVE  Python!SortsBefore(book, i, j) \/ Python!SortsBefore(book, j, i)
  <2>1. i < j \/ j < i  BY <1>1, <1>3
  <2> QED BY <1>1, <2>1 DEF Python!SortsBefore
<1>4. ASSUME NEW i \in 1 .. Len(book), NEW j \in 1 .. Len(book), NEW k \in 1 .. Len(book),
             Python!SortsBefore(book, i, j), Python!SortsBefore(book, j, k)
      PROVE  Python!SortsBefore(book, i, k)
  <2>1. /\ book[i].price \in Int /\ book[i].timestamp \in Nat /\ book[i].side = side
        /\ book[j].price \in Int /\ book[j].timestamp \in Nat /\ book[j].side = side
        /\ book[k].price \in Int /\ book[k].timestamp \in Nat /\ book[k].side = side
        /\ i \in Nat /\ j \in Nat /\ k \in Nat
    BY <1>1
  <2> DEFINE a == book[i]
             b == book[j]
             c == book[k]
  <2>2. /\ Python!KeyLess(a, b) /\ ~ Python!KeyLess(c, b) => Python!KeyLess(a, c)
        /\ ~ Python!KeyLess(b, a) /\ Python!KeyLess(b, c) => Python!KeyLess(a, c)
        /\ ~ Python!KeyLess(b, a) /\ ~ Python!KeyLess(c, b) => ~ Python!KeyLess(c, a)
        /\ Python!KeyLess(b, c) => ~ Python!KeyLess(c, b)
    BY <2>1, KeysAreOrdered
  <2> QED BY <1>4, <2>1, <2>2 DEF Python!SortsBefore
<1> QED BY <1>2, <1>3, <1>4

\* So the ranks of the places are the places again, in the order of the sort.
LEMMA RanksArePlaces ==
    ASSUME NEW P \in SUBSET Int, NEW side \in {BUY, SELL}, NEW book \in Seq(Priced(P, side))
    PROVE  /\ \A i \in 1 .. Len(book) : Python!Rank(book, i) \in 1 .. Len(book)
           /\ \A i, j \in 1 .. Len(book) :
                 Python!SortsBefore(book, i, j) => Python!Rank(book, i) < Python!Rank(book, j)
           /\ \A k \in 1 .. Len(book) : \E i \in 1 .. Len(book) : Python!Rank(book, i) = k
<1> DEFINE n == Len(book)
           InFront(i) == {j \in 1 .. n : Python!SortsBefore(book, j, i)}
           R(i) == Python!Rank(book, i)
<1>1. n \in Nat /\ DOMAIN book = 1 .. n  BY LenProperties
<1>2. IsFiniteSet(1 .. n) /\ Cardinality(1 .. n) = n
  <2>1. 1 \in Int /\ n \in Int  BY <1>1
  <2>2. Cardinality(1 .. n) = IF 1 > n THEN 0 ELSE n - 1 + 1  BY <2>1, FS_Interval
  <2> QED BY <1>1, <2>1, <2>2, FS_Interval, SMTT(30)
<1>3. ASSUME NEW i \in 1 .. n PROVE R(i) = Cardinality(InFront(i)) + 1
  <2>1. {j \in DOMAIN book : Python!SortsBefore(book, j, i)} = InFront(i)  BY <1>1
  <2>2. R(i) = Cardinality({j \in DOMAIN book : Python!SortsBefore(book, j, i)}) + 1
    BY DEF Python!Rank, Python!Cardinality, Cardinality
  <2> HIDE DEF InFront, R
  <2> QED BY <2>1, <2>2
<1>4. ASSUME NEW i \in 1 .. n
      PROVE  IsFiniteSet(InFront(i)) /\ Cardinality(InFront(i)) \in Nat
  BY <1>2, FS_Subset, FS_CardinalityType
<1>5. ASSUME NEW i \in 1 .. n PROVE R(i) \in 1 .. n
  <2>1. i \notin InFront(i)  BY SortIsTotalOrder
  <2>2. InFront(i) \in SUBSET (1 .. n) /\ InFront(i) # 1 .. n  BY <2>1
  <2> HIDE DEF InFront
  <2>3. Cardinality(InFront(i)) <= n /\ Cardinality(InFront(i)) # n
    BY <1>2, <2>2, FS_Subset
  <2> HIDE DEF R, n
  <2> QED BY <1>1, <1>3, <1>4, <2>3
<1>6. ASSUME NEW i \in 1 .. n, NEW j \in 1 .. n, Python!SortsBefore(book, i, j)
      PROVE  R(i) < R(j)
  <2>1. i \in InFront(j) /\ i \notin InFront(i)  BY <1>6, SortIsTotalOrder
  <2>2. InFront(i) \in SUBSET InFront(j) /\ InFront(i) # InFront(j)
    BY <1>6, <2>1, SortIsTotalOrder
  <2> HIDE DEF InFront
  <2>3. /\ Cardinality(InFront(i)) <= Cardinality(InFront(j))
        /\ Cardinality(InFront(i)) # Cardinality(InFront(j))
    BY <1>4, <2>2, FS_Subset
  <2> HIDE DEF R, n
  <2> QED BY <1>3, <1>4, <2>3
<1>7. ASSUME NEW k \in 1 .. n PROVE \E i \in 1 .. n : R(i) = k
  <2> DEFINE f == [i \in 1 .. n |-> R(i)]
  <2>1. f \in [1 .. n -> 1 .. n]  BY <1>5
  <2>2. ASSUME NEW i \in 1 .. n, NEW j \in 1 .. n, R(i) = R(j) PROVE i = j
    <3>1. ~ (R(i) < R(j)) /\ ~ (R(j) < R(i))  BY <1>5, <2>2
    <3> QED BY <1>6, <3>1, SortIsTotalOrder
  <2>3. \A i, j \in 1 .. n : f[i] = f[j] => i = j  BY <2>2
  <2> HIDE DEF R, n
  <2>4. f \in Injection(1 .. n, 1 .. n)  BY <2>1, <2>3 DEF Injection, IsInjective
  <2>5. f \in Surjection(1 .. n, 1 .. n)  BY <1>2, <2>4, FS_Injection
  <2> QED BY <2>5 DEF Surjection
<1> QED BY <1>5, <1>6, <1>7

\* Orders equal in price and time stand in the order they arrived in.
TiesAsArrived(book) ==
    \A i, j \in 1 .. Len(book) :
        i < j /\ book[i].price = book[j].price /\ book[i].timestamp = book[j].timestamp
        => book[i].order_id < book[j].order_id

\* The stable sort of such a list is in full priority order, and holds the same orders.
LEMMA StableSortSorts ==
    ASSUME NEW P \in SUBSET Int, NEW side \in {BUY, SELL}, NEW book \in Seq(Priced(P, side)),
           TiesAsArrived(book)
    PROVE  /\ Python!StableSort(book) \in Seq(Priced(P, side))
           /\ ToSet(Python!StableSort(book)) = ToSet(book)
           /\ InPriorityOrder(Python!StableSort(book))
<1> DEFINE n == Len(book)
           T == Priced(P, side)
           at(k) == CHOOSE i \in 1 .. n : Python!Rank(book, i) = k
           new == [k \in 1 .. n |-> book[at(k)]]
<1>1. /\ n \in Nat /\ DOMAIN book = 1 .. n
      /\ \A i \in 1 .. n : book[i] \in T /\ book[i] \in ToSet(book)
      /\ \A e \in ToSet(book) : \E i \in 1 .. n : e = book[i]
  BY Elements, LenProperties
<1>2. Python!StableSort(book) = new  BY <1>1 DEF Python!StableSort
<1>3. \A k \in 1 .. n : at(k) \in 1 .. n /\ Python!Rank(book, at(k)) = k
  BY RanksArePlaces
<1>4. \A i \in 1 .. n : at(Python!Rank(book, i)) = i /\ Python!Rank(book, i) \in 1 .. n
  <2>1. ASSUME NEW i \in 1 .. n, NEW j \in 1 .. n,
               Python!Rank(book, i) = Python!Rank(book, j)
        PROVE  i = j
    <3>1. /\ Python!Rank(book, i) \in Nat /\ Python!Rank(book, j) \in Nat
      <4>1. Python!Rank(book, i) \in 1 .. n /\ Python!Rank(book, j) \in 1 .. n
        BY RanksArePlaces
      <4> QED BY <4>1
    <3>2. /\ ~ (Python!Rank(book, i) < Python!Rank(book, j))
          /\ ~ (Python!Rank(book, j) < Python!Rank(book, i))
      BY <2>1, <3>1
    <3> QED BY <3>2, RanksArePlaces, SortIsTotalOrder
  <2>2. \A i \in 1 .. n : Python!Rank(book, i) \in 1 .. n  BY RanksArePlaces
  <2> HIDE DEF at, n
  <2> QED BY <1>3, <2>1, <2>2
<1> HIDE DEF at
<1>5. /\ new \in Seq(T) /\ Len(new) = n
      /\ \A k \in 1 .. n : new[k] = book[at(k)]
  <2>1. \A k \in 1 .. n : book[at(k)] \in T  BY <1>1, <1>3
  <2>2. new \in [1 .. n -> T]  BY <2>1
  <2>3. new \in Seq(T)  BY <1>1, <2>2, IsASeq
  <2>4. DOMAIN new = 1 .. n  OBVIOUS
  <2> HIDE DEF new, T
  <2>5. Len(new) = n  BY <1>1, <2>3, <2>4, LenProperties
  <2> QED BY <2>3, <2>5 DEF new
<1> HIDE DEF new
<1>6. /\ \A k \in 1 .. n : new[k] \in ToSet(new)
      /\ \A e \in ToSet(new) : \E k \in 1 .. n : e = new[k]
  <2> HIDE DEF T
  <2> QED BY <1>5, Elements
<1>7. ToSet(new) = ToSet(book)
  <2>1. \A k \in 1 .. n : new[k] \in ToSet(book)  BY <1>1, <1>3, <1>5
  <2>2. \A i \in 1 .. n : book[i] = new[Python!Rank(book, i)]  BY <1>4, <1>5
  <2>3. \A i \in 1 .. n : book[i] \in ToSet(new)  BY <1>4, <1>6, <2>2
  <2>4. ToSet(new) \subseteq ToSet(book)  BY <1>6, <2>1
  <2>5. ToSet(book) \subseteq ToSet(new)  BY <1>1, <2>3
  <2> QED BY <2>4, <2>5
<1>8. ASSUME NEW k \in 1 .. n, NEW l \in 1 .. n, k < l
      PROVE  HasPriority(new[k], new[l])
  <2> DEFINE i == at(k)
             j == at(l)
  <2>1. /\ i \in 1 .. n /\ j \in 1 .. n /\ new[k] = book[i] /\ new[l] = book[j]
        /\ Python!Rank(book, i) = k /\ Python!Rank(book, j) = l
    BY <1>3, <1>5
  <2> HIDE DEF i, j
  <2>2. i # j /\ ~ (l < k)  BY <1>8, <2>1
  <2>3. Python!SortsBefore(book, i, j)
    <3>1. ~ Python!SortsBefore(book, j, i)  BY <2>1, <2>2, RanksArePlaces
    <3> QED BY <2>1, <2>2, <3>1, SortIsTotalOrder
  <2>4. /\ book[i].price \in Int /\ book[i].timestamp \in Nat /\ book[i].side = side
        /\ book[j].price \in Int /\ book[j].timestamp \in Nat /\ book[j].side = side
    BY <1>1, <2>1, PricedFields
  <2>5. CASE Python!KeyLess(book[i], book[j])
    BY <2>1, <2>4, <2>5 DEF Python!KeyLess, HasPriority, Python!BUY, BUY
  <2>6. CASE ~ Python!KeyLess(book[j], book[i]) /\ i < j /\ ~ Python!KeyLess(book[i], book[j])
    <3>1. book[i].price = book[j].price /\ book[i].timestamp = book[j].timestamp
      BY <2>4, <2>6 DEF Python!KeyLess
    <3>2. book[i].order_id < book[j].order_id  BY <2>1, <2>6, <3>1 DEF TiesAsArrived
    <3> QED BY <2>1, <3>1, <3>2 DEF HasPriority
  <2> QED BY <2>3, <2>5, <2>6 DEF Python!SortsBefore
<1>9. InPriorityOrder(new)  BY <1>5, <1>8 DEF InPriorityOrder
<1> QED BY <1>2, <1>5, <1>7, <1>9

----------------------------------------------------------------------------
\* The Python engine's invariant, and its steps as steps of the market

PythonInv ==
    /\ BooksHold(Int)
    /\ order_count \in Nat
    /\ IF pc = "match"
       THEN order \in Python!OrderType /\ order.order_id = order_count
       ELSE pc = "idle" /\ order = NoOrder
    /\ LET next == IF pc = "match" THEN order_count ELSE order_count + 1
       IN  ArrivedBefore(buy_orders, next) /\ ArrivedBefore(sell_orders, next)
    /\ TiesAsArrived(buy_orders) /\ TiesAsArrived(sell_orders)
    /\ pc = "match" => InPriorityOrder(IF order.side = BUY THEN sell_orders ELSE buy_orders)

LEMMA PriorityKeepsTies ==
    ASSUME NEW P \in SUBSET Int, NEW side \in {BUY, SELL}, NEW book \in Seq(Priced(P, side)),
           InPriorityOrder(book)
    PROVE  TiesAsArrived(book)
<1>1. \A i \in 1 .. Len(book) : book[i].price \in Int /\ book[i].timestamp \in Nat
  BY Elements, PricedFields
<1> QED BY <1>1 DEF InPriorityOrder, HasPriority, TiesAsArrived

\* Sorting loses and adds nothing.
LEMMA SortedArrivals ==
    ASSUME NEW S, NEW s \in Seq(S), NEW t \in Seq(S), ToSet(t) = ToSet(s),
           NEW id, ArrivedBefore(s, id)
    PROVE  ArrivedBefore(t, id)
<1>1. \A e \in ToSet(s) : e.order_id < id  BY Elements DEF ArrivedBefore
<1>2. \A i \in 1 .. Len(t) : t[i] \in ToSet(t)  BY Elements
<1> QED BY <1>1, <1>2 DEF ArrivedBefore

LEMMA LaterArrivals ==
    ASSUME NEW P \in SUBSET Int, NEW side, NEW book \in Seq(Priced(P, side)),
           NEW id \in Nat, ArrivedBefore(book, id)
    PROVE  ArrivedBefore(book, id + 1)
<1>1. \A i \in 1 .. Len(book) : book[i].order_id \in Nat \ {0}  BY Elements, PricedFields
<1> QED BY <1>1 DEF ArrivedBefore

\* The remainder goes to the end, behind everything that arrived before it.
LEMMA AppendedOrder ==
    ASSUME NEW P \in SUBSET Int, NEW side, NEW book \in Seq(Priced(P, side)),
           NEW o \in Priced(P, side), ArrivedBefore(book, o.order_id), TiesAsArrived(book)
    PROVE  /\ Append(book, o) \in Seq(Priced(P, side))
           /\ ToSet(Append(book, o)) = ToSet(book) \cup {o}
           /\ ArrivedBefore(Append(book, o), o.order_id + 1)
           /\ TiesAsArrived(Append(book, o))
<1> DEFINE T   == Priced(P, side)
           n   == Len(book)
           new == Append(book, o)
<1>1. /\ n \in Nat
      /\ \A i \in 1 .. n : book[i] \in ToSet(book) /\ book[i].order_id \in Nat \ {0}
      /\ \A e \in ToSet(book) : \E i \in 1 .. n : e = book[i]
      /\ o.order_id \in Nat \ {0}
  BY Elements, PricedFields
<1>2. /\ new \in Seq(T) /\ Len(new) = n + 1
      /\ \A i \in 1 .. n : new[i] = book[i]
      /\ new[n + 1] = o
  <2> HIDE DEF T
  <2>1. book \in Seq(T) /\ o \in T  BY DEF T
  <2> QED BY <2>1, AppendProperties
<1>3. /\ \A i \in 1 .. n + 1 : new[i] \in ToSet(new)
      /\ \A e \in ToSet(new) : \E i \in 1 .. n + 1 : e = new[i]
  <2> HIDE DEF T, new
  <2> QED BY <1>2, Elements
<1> HIDE DEF new
<1>4. \A i \in 1 .. n + 1 : i \in 1 .. n \/ i = n + 1  BY <1>1
<1>5. n + 1 \in 1 .. n + 1 /\ \A i \in 1 .. n : i \in 1 .. n + 1  BY <1>1
<1>6. ToSet(new) = ToSet(book) \cup {o}
  <2>1. ToSet(new) \subseteq ToSet(book) \cup {o}  BY <1>1, <1>2, <1>3, <1>4
  <2>2. ToSet(book) \subseteq ToSet(new) /\ o \in ToSet(new)  BY <1>1, <1>2, <1>3, <1>5
  <2> QED BY <2>1, <2>2
<1>7. ArrivedBefore(new, o.order_id + 1)
  BY <1>1, <1>2, <1>4 DEF ArrivedBefore
<1>8. TiesAsArrived(new)
  <2>1. ASSUME NEW i \in 1 .. n + 1, NEW j \in 1 .. n + 1, i < j,
               new[i].price = new[j].price, new[i].timestamp = new[j].timestamp
        PROVE  new[i].order_id < new[j].order_id
    <3>1. i \in 1 .. n /\ new[i] = book[i]  BY <1>1, <1>2, <1>4, <2>1
    <3>2. CASE j = n + 1  BY <1>2, <3>1, <3>2 DEF ArrivedBefore
    <3>3. CASE j \in 1 .. n  BY <1>2, <2>1, <3>1, <3>3 DEF TiesAsArrived
    <3> QED BY <1>4, <3>2, <3>3
  <2> QED BY <1>2, <2>1 DEF TiesAsArrived
<1> QED BY <1>2, <1>6, <1>7, <1>8 DEF new

LEMMA PythonInit == Python!Init => PythonInv
<1> SUFFICES ASSUME Python!Init PROVE PythonInv
  OBVIOUS
<1>1. /\ buy_orders = <<>> /\ sell_orders = <<>> /\ order_count = 0
      /\ pc = "idle" /\ order = NoOrder
  BY DEF Python!Init, Python!NoOrder, NoOrder, Python!BUY, BUY
<1>2. Len(buy_orders) = 0 /\ Len(sell_orders) = 0  BY <1>1
<1>3. BooksHold(Int)  BY <1>1, EmptySeq DEF BooksHold
<1> QED BY <1>1, <1>2, <1>3 DEF PythonInv, ArrivedBefore, TiesAsArrived

\* A call counts the order, and sorts the list it arrives against.
LEMMA PythonArrival ==
    ASSUME Prices \subseteq Int, Quantities \subseteq Nat, Timestamps \subseteq Nat,
           PythonInv, Python!AddOrder
    PROVE  /\ PythonInv'
           /\ order = NoOrder /\ order' \in Python!OrderType /\ trades' = trades
           /\ (ToSet(buy_orders) \cup ToSet(sell_orders))' = Rest
<1>1. /\ pc = "idle" /\ pc' = "match" /\ order_count' = order_count + 1 /\ trades' = trades
      /\ \E in \in Python!Inputs :
           /\ order' = [order_id |-> order_count + 1, side |-> in.side, price |-> in.price,
                        quantity |-> in.quantity, timestamp |-> in.timestamp]
           /\ IF in.side = BUY
              THEN sell_orders' = Python!StableSort(sell_orders) /\ buy_orders' = buy_orders
              ELSE buy_orders' = Python!StableSort(buy_orders) /\ sell_orders' = sell_orders
  BY DEF Python!AddOrder, Python!BUY, BUY
<1>2. PICK in \in Python!Inputs :
        /\ order' = [order_id |-> order_count + 1, side |-> in.side, price |-> in.price,
                     quantity |-> in.quantity, timestamp |-> in.timestamp]
        /\ IF in.side = BUY
           THEN sell_orders' = Python!StableSort(sell_orders) /\ buy_orders' = buy_orders
           ELSE buy_orders' = Python!StableSort(buy_orders) /\ sell_orders' = sell_orders
  BY <1>1
<1>3. /\ in.side \in {BUY, SELL} /\ in.price \in Int /\ in.quantity \in Nat
      /\ in.timestamp \in Nat
  BY DEF Python!Inputs, Python!BUY, Python!SELL, BUY, SELL
<1>4. /\ order_count \in Nat /\ order = NoOrder
      /\ buy_orders \in Seq(Priced(Int, BUY)) /\ sell_orders \in Seq(Priced(Int, SELL))
      /\ ArrivedBefore(buy_orders, order_count + 1) /\ ArrivedBefore(sell_orders, order_count + 1)
      /\ TiesAsArrived(buy_orders) /\ TiesAsArrived(sell_orders)
  BY <1>1 DEF PythonInv, BooksHold
<1>5. /\ order' \in Python!OrderType /\ order'.order_id = order_count + 1
      /\ order'.side = in.side
  <2>1. order_count + 1 \in Nat \ {0}  BY <1>4
  <2> QED BY <1>2, <1>3, <2>1 DEF Python!OrderType, Python!BUY, Python!SELL, BUY, SELL
<1>6. Int \in SUBSET Int /\ BUY \in {BUY, SELL} /\ SELL \in {BUY, SELL}  OBVIOUS
<1>7. CASE in.side = BUY
  <2>1. sell_orders' = Python!StableSort(sell_orders) /\ buy_orders' = buy_orders
    BY <1>2, <1>7
  <2>2. /\ sell_orders' \in Seq(Priced(Int, SELL)) /\ ToSet(sell_orders') = ToSet(sell_orders)
        /\ InPriorityOrder(sell_orders')
    BY <1>4, <1>6, <2>1, StableSortSorts
  <2>3. TiesAsArrived(sell_orders')  BY <1>6, <2>2, PriorityKeepsTies
  <2>4. ArrivedBefore(sell_orders', order_count + 1)  BY <1>4, <2>2, SortedArrivals
  <2>5. PythonInv'
    BY <1>1, <1>4, <1>5, <1>7, <2>1, <2>2, <2>3, <2>4
    DEF PythonInv, BooksHold, ArrivedBefore, TiesAsArrived, InPriorityOrder, HasPriority
  <2> QED BY <1>1, <1>4, <1>5, <2>1, <2>2, <2>5 DEF Rest
<1>8. CASE in.side = SELL
  <2>1. buy_orders' = Python!StableSort(buy_orders) /\ sell_orders' = sell_orders
    BY <1>2, <1>8 DEF BUY, SELL
  <2>2. /\ buy_orders' \in Seq(Priced(Int, BUY)) /\ ToSet(buy_orders') = ToSet(buy_orders)
        /\ InPriorityOrder(buy_orders')
    BY <1>4, <1>6, <2>1, StableSortSorts
  <2>3. TiesAsArrived(buy_orders')  BY <1>6, <2>2, PriorityKeepsTies
  <2>4. ArrivedBefore(buy_orders', order_count + 1)  BY <1>4, <2>2, SortedArrivals
  <2>5. order'.side # BUY  BY <1>5, <1>8 DEF BUY, SELL
  <2>6. PythonInv'
    BY <1>1, <1>4, <1>5, <2>1, <2>2, <2>3, <2>4, <2>5
    DEF PythonInv, BooksHold, ArrivedBefore, TiesAsArrived, InPriorityOrder, HasPriority
  <2> QED BY <1>1, <1>4, <1>5, <2>1, <2>2, <2>6 DEF Rest
<1> QED BY <1>3, <1>7, <1>8

\* The order being matched, once there is something left of it.
LEMMA PythonOrder ==
    ASSUME PythonInv, pc = "match"
    PROVE  /\ order.side \in {BUY, SELL} /\ order.quantity \in Nat
           /\ order.quantity > 0 => order \in Priced(Int, order.side)
           /\ order.order_id = order_count /\ order_count \in Nat
           /\ order \in [order_id: Nat \ {0}, side: {order.side}, price: Int,
                         quantity: Nat, timestamp: Nat]
BY DEF PythonInv, Python!OrderType, Python!BUY, Python!SELL, BUY, SELL, Priced

\* Taking from the best order keeps the list typed, in order and no later.
LEMMA TakenList ==
    ASSUME NEW P \in SUBSET Int, NEW side \in {BUY, SELL}, NEW book \in Seq(Priced(P, side)),
           book # <<>>, InPriorityOrder(book),
           NEW q \in Nat \ {0}, q <= book[1].quantity, NEW id, ArrivedBefore(book, id)
    PROVE  /\ Reduced(book, q) \in Seq(Priced(P, side)) /\ InPriorityOrder(Reduced(book, q))
           /\ ArrivedBefore(Reduced(book, q), id) /\ TiesAsArrived(Reduced(book, q))
<1>1. Reduced(book, q) \in Seq(Priced(P, side))  BY ReducedProperties
<1>2. IsReducedBook(book, Reduced(book, q))  BY ReducedKeepsPriority
<1> DEFINE new == Reduced(book, q)
<1> HIDE DEF new
<1>3. ArrivedBefore(new, id)  BY <1>2 DEF IsReducedBook, ArrivedBefore, new
<1>4. TiesAsArrived(new)  BY <1>1, <1>2, PriorityKeepsTies DEF IsReducedBook, new
<1> QED BY <1>1, <1>2, <1>3, <1>4 DEF IsReducedBook, new

LEMMA PythonMatch ==
    ASSUME PythonInv, Python!MatchBuy \/ Python!MatchSell
    PROVE  PythonInv' /\ Market!Trade
<1>1. /\ pc = "match" /\ Matchable /\ order.quantity > 0
      /\ UNCHANGED <<order_count, pc>>
  BY DEF Python!MatchBuy, Python!MatchSell, Python!Matchable, Matchable, Python!BUY, BUY
<1>2. /\ BooksHold(Int) /\ Int \in SUBSET Int /\ BUY \in {BUY, SELL} /\ SELL \in {BUY, SELL}
      /\ buy_orders \in Seq(Priced(Int, BUY)) /\ sell_orders \in Seq(Priced(Int, SELL))
      /\ ArrivedBefore(buy_orders, order_count) /\ ArrivedBefore(sell_orders, order_count)
      /\ TiesAsArrived(buy_orders) /\ TiesAsArrived(sell_orders)
      /\ order.order_id = order_count /\ order_count \in Nat
      /\ order \in Priced(Int, order.side)
  BY <1>1, PythonOrder DEF PythonInv, BooksHold
<1>3. ASSUME NEW best, best.quantity \in Nat \ {0},
             order' = [order EXCEPT !.quantity = @ - MatchedQuantity(order, best)]
      PROVE  /\ order' \in Python!OrderType /\ order'.order_id = order_count
             /\ order'.side = order.side
             /\ MatchedQuantity(order, best) \in Nat \ {0}
             /\ MatchedQuantity(order, best) <= best.quantity
  <2> DEFINE q == MatchedQuantity(order, best)
  <2>1. order.quantity \in Nat \ {0} /\ order.side \in {BUY, SELL}
    BY <1>1, PythonOrder
  <2>2. q \in Nat \ {0} /\ q <= order.quantity /\ q <= best.quantity
    BY <1>3, <2>1, MatchedQuantityProperties
  <2> HIDE DEF q
  <2>3. order.quantity - q \in Nat  BY <2>1, <2>2
  <2>4. order' = [order EXCEPT !.quantity = order.quantity - q]  BY <1>3 DEF q
  <2>5. order \in [order_id: Nat \ {0}, side: {order.side}, price: Int,
                   quantity: Nat, timestamp: Nat]
    BY <1>1, PythonOrder
  <2> QED BY <1>2, <2>1, <2>2, <2>3, <2>4, <2>5
          DEF Python!OrderType, Python!BUY, Python!SELL, BUY, SELL, q
<1>4. CASE Python!MatchBuy
  <2> DEFINE best == sell_orders[1]
             q    == MatchedQuantity(order, best)
  <2>1. TakesBestSell /\ order.side = BUY /\ sell_orders # <<>>
    BY <1>4 DEF Python!MatchBuy, Python!Matchable, Python!MatchedQuantity, Python!Reduced,
                TakesBestSell, MatchedQuantity, Reduced, Python!BUY, BUY
  <2>2. InPriorityOrder(sell_orders)  BY <1>1, <2>1 DEF PythonInv
  <2>3. Market!Trade  BY <1>1, <1>2, <2>1, <2>2, BuyTrades
  <2>4. /\ order' = [order EXCEPT !.quantity = @ - q] /\ sell_orders' = Reduced(sell_orders, q)
        /\ buy_orders' = buy_orders
    BY <2>1 DEF TakesBestSell
  <2>5. best.quantity \in Nat \ {0}  BY <1>2, <2>1, Elements, PricedFields
  <2>6. /\ order' \in Python!OrderType /\ order'.order_id = order_count
        /\ order'.side = BUY /\ q \in Nat \ {0} /\ q <= best.quantity
    BY <1>3, <2>1, <2>4, <2>5
  <2> HIDE DEF q
  <2>7. /\ sell_orders' \in Seq(Priced(Int, SELL)) /\ InPriorityOrder(sell_orders')
        /\ ArrivedBefore(sell_orders', order_count) /\ TiesAsArrived(sell_orders')
    BY <1>2, <2>1, <2>2, <2>4, <2>6, TakenList
  <2>8. PythonInv'
    BY <1>1, <1>2, <2>4, <2>6, <2>7
    DEF PythonInv, BooksHold, ArrivedBefore, TiesAsArrived, InPriorityOrder, HasPriority
  <2> QED BY <2>3, <2>8
<1>5. CASE Python!MatchSell
  <2> DEFINE best == buy_orders[1]
             q    == MatchedQuantity(order, best)
  <2>1. TakesBestBuy /\ order.side = SELL /\ buy_orders # <<>>
    BY <1>5 DEF Python!MatchSell, Python!Matchable, Python!MatchedQuantity, Python!Reduced,
                TakesBestBuy, MatchedQuantity, Reduced, Python!BUY, Python!SELL, BUY, SELL
  <2>2. InPriorityOrder(buy_orders)  BY <1>1, <2>1 DEF PythonInv, BUY, SELL
  <2>3. Market!Trade  BY <1>1, <1>2, <2>1, <2>2, SellTrades
  <2>4. /\ order' = [order EXCEPT !.quantity = @ - q] /\ buy_orders' = Reduced(buy_orders, q)
        /\ sell_orders' = sell_orders
    BY <2>1 DEF TakesBestBuy
  <2>5. best.quantity \in Nat \ {0}  BY <1>2, <2>1, Elements, PricedFields
  <2>6. /\ order' \in Python!OrderType /\ order'.order_id = order_count
        /\ order'.side # BUY /\ q \in Nat \ {0} /\ q <= best.quantity
    BY <1>3, <2>1, <2>4, <2>5 DEF BUY, SELL
  <2> HIDE DEF q
  <2>7. /\ buy_orders' \in Seq(Priced(Int, BUY)) /\ InPriorityOrder(buy_orders')
        /\ ArrivedBefore(buy_orders', order_count) /\ TiesAsArrived(buy_orders')
    BY <1>2, <2>1, <2>2, <2>4, <2>6, TakenList
  <2>8. PythonInv'
    BY <1>1, <1>2, <2>4, <2>6, <2>7
    DEF PythonInv, BooksHold, ArrivedBefore, TiesAsArrived, InPriorityOrder, HasPriority
  <2> QED BY <2>3, <2>8
<1> QED BY <1>4, <1>5

\* The call ends where nothing acceptable is left, and the remainder rests.
LEMMA PythonReturn ==
    ASSUME PythonInv, Python!Return
    PROVE  PythonInv' /\ Market!Settle
<1>1. /\ pc = "match" /\ ~ Matchable /\ pc' = "idle" /\ order' = NoOrder
      /\ UNCHANGED <<order_count, trades>>
      /\ buy_orders'  = IF order.quantity > 0 /\ order.side = BUY
                        THEN Append(buy_orders, order) ELSE buy_orders
      /\ sell_orders' = IF order.quantity > 0 /\ order.side = SELL
                        THEN Append(sell_orders, order) ELSE sell_orders
  BY DEF Python!Return, Python!Matchable, Matchable, Python!NoOrder, NoOrder,
         Python!BUY, Python!SELL, BUY, SELL
<1>2. /\ BooksHold(Int) /\ Int \in SUBSET Int /\ BUY \in {BUY, SELL} /\ SELL \in {BUY, SELL}
      /\ buy_orders \in Seq(Priced(Int, BUY)) /\ sell_orders \in Seq(Priced(Int, SELL))
      /\ ArrivedBefore(buy_orders, order_count) /\ ArrivedBefore(sell_orders, order_count)
      /\ TiesAsArrived(buy_orders) /\ TiesAsArrived(sell_orders)
      /\ order.order_id = order_count /\ order_count \in Nat
      /\ order.side \in {BUY, SELL} /\ order.quantity \in Nat
  BY <1>1, PythonOrder DEF PythonInv, BooksHold
<1>3. /\ ArrivedBefore(buy_orders, order_count + 1)
      /\ ArrivedBefore(sell_orders, order_count + 1)
  BY <1>2, LaterArrivals
<1>4. order # NoOrder
  <2>1. order.order_id \in Nat \ {0}  BY <1>1, PythonOrder
  <2> QED BY <2>1 DEF NoOrder
<1>5. ASSUME buy_orders' \in Seq(Priced(Int, BUY)), sell_orders' \in Seq(Priced(Int, SELL)),
             ArrivedBefore(buy_orders', order_count + 1), TiesAsArrived(buy_orders'),
             ArrivedBefore(sell_orders', order_count + 1), TiesAsArrived(sell_orders')
      PROVE  PythonInv'
  BY <1>1, <1>2, <1>5 DEF PythonInv, BooksHold, ArrivedBefore, TiesAsArrived, NoOrder, BUY
<1>6. ASSUME order.quantity > 0 => Market!Candidates = {},
             (ToSet(buy_orders) \cup ToSet(sell_orders))'
                = Rest \cup (IF order.quantity > 0 THEN {order} ELSE {})
      PROVE  Market!Settle
  BY <1>1, <1>4, <1>6 DEF Market!Settle, Rest, Market!NoOrder, NoOrder, Market!BUY, BUY
<1>7. CASE ~ (order.quantity > 0)
  <2>1. buy_orders' = buy_orders /\ sell_orders' = sell_orders  BY <1>1, <1>7
  <2>2. (ToSet(buy_orders) \cup ToSet(sell_orders))' = Rest  BY <2>1 DEF Rest
  <2> QED BY <1>2, <1>3, <1>5, <1>6, <1>7, <2>1, <2>2
<1>8. CASE order.quantity > 0 /\ order.side = BUY
  <2>1. /\ buy_orders' = Append(buy_orders, order) /\ sell_orders' = sell_orders
        /\ order \in Priced(Int, BUY)
    BY <1>1, <1>8, PythonOrder DEF BUY, SELL
  <2>2. /\ buy_orders' \in Seq(Priced(Int, BUY)) /\ ToSet(buy_orders') = ToSet(buy_orders) \cup {order}
        /\ ArrivedBefore(buy_orders', order_count + 1) /\ TiesAsArrived(buy_orders')
    BY <1>2, <2>1, AppendedOrder
  <2>3. InPriorityOrder(IF BUY = BUY THEN sell_orders ELSE buy_orders)
    BY <1>1, <1>8 DEF PythonInv
  <2>4. Market!Candidates = {}  BY <1>1, <1>2, <2>1, <2>3, NoCandidates
  <2>5. (ToSet(buy_orders) \cup ToSet(sell_orders))' = Rest \cup {order}
    BY <2>1, <2>2 DEF Rest
  <2> QED BY <1>2, <1>3, <1>5, <1>6, <1>8, <2>1, <2>2, <2>4, <2>5
<1>9. CASE order.quantity > 0 /\ order.side = SELL
  <2>1. /\ sell_orders' = Append(sell_orders, order) /\ buy_orders' = buy_orders
        /\ order \in Priced(Int, SELL)
    BY <1>1, <1>9, PythonOrder DEF BUY, SELL
  <2>2. /\ sell_orders' \in Seq(Priced(Int, SELL)) /\ ToSet(sell_orders') = ToSet(sell_orders) \cup {order}
        /\ ArrivedBefore(sell_orders', order_count + 1) /\ TiesAsArrived(sell_orders')
    BY <1>2, <2>1, AppendedOrder
  <2>3. InPriorityOrder(IF SELL = BUY THEN sell_orders ELSE buy_orders)
    BY <1>1, <1>9 DEF PythonInv
  <2>4. Market!Candidates = {}  BY <1>1, <1>2, <2>1, <2>3, NoCandidates
  <2>5. (ToSet(buy_orders) \cup ToSet(sell_orders))' = Rest \cup {order}
    BY <2>1, <2>2 DEF Rest
  <2> QED BY <1>2, <1>3, <1>5, <1>6, <1>9, <2>1, <2>2, <2>4, <2>5
<1> QED BY <1>2, <1>7, <1>8, <1>9

\* The two instances of the market are the same but for the orders that arrive.
LEMMA SameMarket ==
    /\ Market!Trade => Python!Market!Trade
    /\ Market!Settle => Python!Market!Settle
BY DEF Python!Market!Trade, Python!Market!Settle, Python!Market!Candidates,
       Python!Market!Acceptable, Python!Market!Precedes, Python!Market!TradeOf,
       Python!Market!Lesser, Python!Market!BUY, Python!Market!NoOrder, Python!ToSet,
       Market!Trade, Market!Settle, Market!Candidates, Market!Acceptable, Market!Precedes,
       Market!TradeOf, Market!Lesser, Market!BUY, Market!NoOrder, ToSet

\* The Python engine implements the same market, whatever prices, quantities and
\* timestamps its callers pass: sorting a list only when an order arrives against
\* it, and appending remainders, makes the trades of the compiled engine.
THEOREM PythonImplements ==
    ASSUME Prices \subseteq Int, Quantities \subseteq Nat, Timestamps \subseteq Nat
    PROVE  Python!Spec => Python!ImplementsMarket
<1>1. Python!Init => Python!Market!MarketInit
  <2> SUFFICES ASSUME Python!Init PROVE Python!Market!MarketInit
    OBVIOUS
  <2>1. Python!ToSet(<<>>) = {}  BY DEF Python!ToSet
  <2> QED BY <2>1 DEF Python!Init, Python!Market!MarketInit, Python!Market!NoOrder,
                      Python!NoOrder, Python!Market!BUY, Python!BUY
<1>2. PythonInv /\ [Python!Next]_(Python!vars)
        => PythonInv' /\ [Python!Market!MarketNext]_(Python!Market!marketVars)
  <2> SUFFICES ASSUME PythonInv, [Python!Next]_(Python!vars)
               PROVE  /\ PythonInv'
                      /\ \/ Python!Market!MarketNext
                         \/ UNCHANGED <<Python!ToSet(buy_orders) \cup Python!ToSet(sell_orders),
                                        order, trades>>
    BY DEF Python!Market!marketVars
  <2>1. CASE Python!AddOrder
    <3>1. /\ PythonInv' /\ order = NoOrder /\ order' \in Python!OrderType /\ trades' = trades
          /\ (ToSet(buy_orders) \cup ToSet(sell_orders))' = Rest
      BY <2>1, PythonArrival
    <3>2. Python!Market!Arrive
      BY <3>1 DEF Python!Market!Arrive, Python!Market!NoOrder, NoOrder, Python!Market!BUY, BUY,
                  Rest, Python!ToSet, ToSet
    <3> QED BY <3>1, <3>2 DEF Python!Market!MarketNext
  <2>2. CASE Python!MatchBuy \/ Python!MatchSell
    BY <2>2, PythonMatch, SameMarket DEF Python!Market!MarketNext
  <2>3. CASE Python!Return
    BY <2>3, PythonReturn, SameMarket DEF Python!Market!MarketNext
  <2>4. CASE Python!Finished \/ UNCHANGED Python!vars
    <3>1. UNCHANGED <<order_count, buy_orders, sell_orders, trades, pc, order>>
      BY <2>4 DEF Python!Finished, Python!vars
    <3>2. PythonInv'
      BY <3>1 DEF PythonInv, BooksHold, ArrivedBefore, TiesAsArrived, InPriorityOrder, HasPriority
    <3> QED BY <3>1, <3>2
  <2> QED BY <2>1, <2>2, <2>3, <2>4 DEF Python!Next
<1> QED BY <1>1, <1>2, PythonInit, PTL
        DEF Python!Spec, Python!ImplementsMarket, Python!Market!MarketSpec

----------------------------------------------------------------------------
\* What a reader is told: the levels of a book

\* The places of a finite set of prices are 1 to their number, better ones first.
LEMMA PlacesOfPrices ==
    ASSUME NEW S \in SUBSET Int, IsFiniteSet(S), NEW reverse \in BOOLEAN
    PROVE  /\ Cardinality(S) \in Nat
           /\ \A p \in S : PlaceOf(p, S, reverse) \in 1 .. Cardinality(S)
           /\ \A p, q \in S : ComesBefore(p, q, reverse)
                                => PlaceOf(p, S, reverse) < PlaceOf(q, S, reverse)
           /\ \A k \in 1 .. Cardinality(S) : \E p \in S : PlaceOf(p, S, reverse) = k
<1> DEFINE n == Cardinality(S)
           Before(p) == {q \in S : ComesBefore(q, p, reverse)}
           place(p) == PlaceOf(p, S, reverse)
<1>1. n \in Nat  BY FS_CardinalityType
<1>2. IsFiniteSet(1 .. n) /\ Cardinality(1 .. n) = n
  <2>1. 1 \in Int /\ n \in Int  BY <1>1
  <2>2. Cardinality(1 .. n) = IF 1 > n THEN 0 ELSE n - 1 + 1  BY <2>1, FS_Interval
  <2> QED BY <1>1, <2>1, <2>2, FS_Interval
<1>3. /\ \A p \in S : ~ ComesBefore(p, p, reverse)
      /\ \A p, q \in S : p # q => ComesBefore(p, q, reverse) \/ ComesBefore(q, p, reverse)
      /\ \A p, q, r \in S : ComesBefore(p, q, reverse) /\ ComesBefore(q, r, reverse)
                              => ComesBefore(p, r, reverse)
  <2>1. \A p \in S : p \in Int  OBVIOUS
  <2> QED BY <2>1 DEF ComesBefore
<1>4. ASSUME NEW p \in S
      PROVE  /\ place(p) = Cardinality(Before(p)) + 1
             /\ IsFiniteSet(Before(p)) /\ Cardinality(Before(p)) \in Nat
  <2>1. Before(p) \in SUBSET S  OBVIOUS
  <2>2. place(p) = Cardinality(Before(p)) + 1  BY DEF PlaceOf
  <2> HIDE DEF Before, place
  <2> QED BY <2>1, <2>2, FS_Subset, FS_CardinalityType
<1>5. ASSUME NEW p \in S PROVE place(p) \in 1 .. n
  <2>1. Before(p) \in SUBSET S /\ Before(p) # S  BY <1>3
  <2> HIDE DEF Before
  <2>2. Cardinality(Before(p)) <= n /\ Cardinality(Before(p)) # n
    BY <2>1, FS_Subset
  <2> HIDE DEF place, n
  <2> QED BY <1>1, <1>4, <2>2
<1>6. ASSUME NEW p \in S, NEW q \in S, ComesBefore(p, q, reverse)
      PROVE  place(p) < place(q)
  <2>1. p \in Before(q) /\ p \notin Before(p)  BY <1>3, <1>6
  <2>2. Before(p) \in SUBSET Before(q) /\ Before(p) # Before(q)
    BY <1>3, <1>6, <2>1
  <2> HIDE DEF Before
  <2>3. /\ Cardinality(Before(p)) <= Cardinality(Before(q))
        /\ Cardinality(Before(p)) # Cardinality(Before(q))
    BY <1>4, <2>2, FS_Subset
  <2> HIDE DEF place
  <2> QED BY <1>4, <2>3
<1>7. ASSUME NEW k \in 1 .. n PROVE \E p \in S : place(p) = k
  <2> DEFINE f == [p \in S |-> place(p)]
  <2>1. f \in [S -> 1 .. n]  BY <1>5
  <2>2. ASSUME NEW p \in S, NEW q \in S, place(p) = place(q) PROVE p = q
    <3>1. ~ (place(p) < place(q)) /\ ~ (place(q) < place(p))  BY <1>5, <2>2
    <3> HIDE DEF place
    <3> QED BY <1>3, <1>6, <3>1
  <2>3. \A p, q \in S : f[p] = f[q] => p = q  BY <2>2
  <2> HIDE DEF place
  <2>4. f \in Injection(S, 1 .. n)
    <3> HIDE DEF n
    <3> QED BY <2>1, <2>3 DEF Injection, IsInjective
  <2>5. f \in Surjection(S, 1 .. n)
    <3>1. Cardinality(S) = Cardinality(1 .. n)  BY <1>2
    <3> HIDE DEF f, n
    <3> QED BY <1>2, <2>4, <3>1, FS_Injection
  <2> QED BY <2>5 DEF Surjection
<1> QED BY <1>1, <1>5, <1>6, <1>7

\* What SortedPrices is: an enumeration of the prices, better ones first.
LEMMA PricesSorted ==
    ASSUME NEW S \in SUBSET Int, IsFiniteSet(S), NEW reverse \in BOOLEAN
    PROVE  /\ SortedPrices(S, reverse) \in [1 .. Cardinality(S) -> S]
           /\ Cardinality(S) \in Nat
           /\ \A k, l \in 1 .. Cardinality(S) :
                 k < l <=> ComesBefore(SortedPrices(S, reverse)[k], SortedPrices(S, reverse)[l], reverse)
           /\ \A p \in S : \E k \in 1 .. Cardinality(S) : p = SortedPrices(S, reverse)[k]
<1> DEFINE n == Cardinality(S)
           place(p) == PlaceOf(p, S, reverse)
           at(k) == CHOOSE p \in S : place(p) = k
           s == [k \in 1 .. n |-> at(k)]
<1>1. SortedPrices(S, reverse) = s  BY DEF SortedPrices
<1>2. \A k \in 1 .. n : at(k) \in S /\ place(at(k)) = k  BY PlacesOfPrices
<1>3. \A p, q \in S : p # q => ComesBefore(p, q, reverse) \/ ComesBefore(q, p, reverse)
  <2>1. \A p \in S : p \in Int  OBVIOUS
  <2> QED BY <2>1 DEF ComesBefore
<1>4. \A p \in S : place(p) \in 1 .. n  BY PlacesOfPrices
<1>5. \A p, q \in S : ComesBefore(p, q, reverse) => place(p) < place(q)  BY PlacesOfPrices
<1> HIDE DEF place, at, n
<1>6. /\ s \in [1 .. n -> S]
      /\ \A k \in 1 .. n : s[k] \in S /\ place(s[k]) = k
  BY <1>2
<1> HIDE DEF s
<1>7. ASSUME NEW k \in 1 .. n, NEW l \in 1 .. n
      PROVE  k < l <=> ComesBefore(s[k], s[l], reverse)
  <2>1. CASE ComesBefore(s[k], s[l], reverse)  BY <1>5, <1>6, <2>1
  <2>2. CASE k < l
    <3>1. ~ (l < k) /\ k # l  BY <2>2
    <3>2. s[k] # s[l]  BY <1>6, <3>1
    <3> QED BY <1>3, <1>5, <1>6, <2>2, <3>1, <3>2
  <2> QED BY <2>1, <2>2
<1>8. ASSUME NEW p \in S PROVE \E k \in 1 .. n : p = s[k]
  <2>1. p = s[place(p)]
    <3>1. place(p) \in 1 .. n  BY <1>4
    <3>2. s[place(p)] \in S /\ place(s[place(p)]) = place(p)  BY <1>6, <3>1
    <3>3. /\ ~ (place(s[place(p)]) < place(p)) /\ ~ (place(p) < place(s[place(p)]))
      BY <3>1, <3>2
    <3> QED BY <1>3, <1>5, <3>2, <3>3
  <2> QED BY <1>4, <2>1
<1>9. n \in Nat  BY FS_CardinalityType DEF n
<1> QED BY <1>1, <1>6, <1>7, <1>8, <1>9 DEF n

\* The prices of a book are finitely many, no more than it has orders.
LEMMA PricesOfBook ==
    ASSUME NEW P \in SUBSET Int, NEW side, NEW book \in Seq(Priced(P, side))
    PROVE  /\ PricesOf(book) \in SUBSET P /\ PricesOf(book) \in SUBSET Int
           /\ IsFiniteSet(PricesOf(book)) /\ Cardinality(PricesOf(book)) <= Len(book)
           /\ \A i \in 1 .. Len(book) : book[i].price \in PricesOf(book)
           /\ \A p \in PricesOf(book) : \E i \in 1 .. Len(book) : p = book[i].price
<1> DEFINE n == Len(book)
           f == [i \in 1 .. n |-> book[i].price]
<1>1. n \in Nat /\ DOMAIN book = 1 .. n  BY LenProperties
<1>2. \A i \in 1 .. n : book[i].price \in P  BY Elements, PricedFields
<1>3. PricesOf(book) = {book[i].price : i \in 1 .. n}  BY <1>1 DEF PricesOf
<1>4. IsFiniteSet(1 .. n) /\ Cardinality(1 .. n) = n
  <2>1. 1 \in Int /\ n \in Int  BY <1>1
  <2>2. Cardinality(1 .. n) = IF 1 > n THEN 0 ELSE n - 1 + 1  BY <2>1, FS_Interval
  <2> QED BY <1>1, <2>1, <2>2, FS_Interval, SMTT(30)
<1>5. f \in Surjection(1 .. n, PricesOf(book))
  <2>1. f \in [1 .. n -> PricesOf(book)]  BY <1>3
  <2>2. \A p \in PricesOf(book) : \E i \in 1 .. n : f[i] = p  BY <1>3
  <2> HIDE DEF f, n
  <2> QED BY <2>1, <2>2 DEF Surjection
<1>6. IsFiniteSet(PricesOf(book)) /\ Cardinality(PricesOf(book)) <= n
  <2> HIDE DEF f, n
  <2> QED BY <1>4, <1>5, FS_Surjection
<1> QED BY <1>2, <1>3, <1>6

\* A function on 1 .. n is a sequence.
LEMMA SequenceOf ==
    ASSUME NEW S, NEW n \in Nat, NEW f \in [1 .. n -> S]
    PROVE  f \in Seq(S) /\ Len(f) = n /\ DOMAIN f = 1 .. n
<1>1. f \in Seq(S)  BY IsASeq
<1>2. DOMAIN f = 1 .. n  OBVIOUS
<1> QED BY <1>1, <1>2, LenProperties

\* Sums of sequences of one length add up number by number.
LEMMA SumOfSums ==
    ASSUME NEW w \in Seq(Nat), NEW v \in Seq(Nat), NEW u \in Seq(Nat),
           Len(v) = Len(w), Len(u) = Len(w),
           \A k \in 1 .. Len(w) : u[k] = w[k] + v[k]
    PROVE  SumOf(u) = SumOf(w) + SumOf(v)
<1> DEFINE n == Len(w)
<1>0. n \in Nat /\ n \in 0 .. n
  BY LenProperties
<1>1. PICK f \in [0 .. n -> Nat] : AddsUp(w, f, n)  BY <1>0, PartialSumsExist
<1>2. PICK g \in [0 .. n -> Nat] : AddsUp(v, g, n)  BY <1>0, PartialSumsExist
<1> DEFINE h == [k \in 0 .. n |-> f[k] + g[k]]
<1>3. h[0] = 0
  <2>1. 0 \in 0 .. n  BY <1>0
  <2> QED BY <1>1, <1>2, <2>1 DEF AddsUp
<1>4. ASSUME NEW k \in 1 .. n PROVE h[k] = h[k - 1] + u[k]
  <2>1. k \in 0 .. n /\ k - 1 \in 0 .. n  BY <1>0
  <2>2. w[k] \in Nat /\ v[k] \in Nat  BY ElementOfSeq
  <2>3. f[k] = f[k - 1] + w[k] /\ g[k] = g[k - 1] + v[k]  BY <1>1, <1>2 DEF AddsUp
  <2>4. f[k - 1] \in Nat /\ g[k - 1] \in Nat  BY <2>1
  <2>5. h[k] = f[k] + g[k] /\ h[k - 1] = f[k - 1] + g[k - 1]  BY <2>1
  <2>6. u[k] = w[k] + v[k]  OBVIOUS
  <2> DEFINE a == f[k - 1]
             b == w[k]
             c == g[k - 1]
             d == v[k]
  <2>7. /\ a \in Nat /\ b \in Nat /\ c \in Nat /\ d \in Nat
        /\ f[k] = a + b /\ g[k] = c + d /\ u[k] = b + d
        /\ h[k] = f[k] + g[k] /\ h[k - 1] = a + c
    BY <2>2, <2>3, <2>4, <2>5, <2>6
  <2> HIDE DEF h, a, b, c, d
  <2>8. (a + b) + (c + d) = (a + c) + (b + d)  BY <2>7
  <2> QED BY <2>7, <2>8
<1>5. h[n] = f[n] + g[n]  BY <1>0
<1> HIDE DEF h
<1>6. AddsUp(u, h, Len(u))  BY <1>3, <1>4 DEF AddsUp
<1>7. SumOf(u) = h[n] /\ SumOf(w) = f[n] /\ SumOf(v) = g[n]
  BY <1>1, <1>2, <1>6, SumIs
<1> QED BY <1>5, <1>7

\* A sequence of zeros but for one number sums up to it.
LEMMA SumOfOne ==
    ASSUME NEW w \in Seq(Nat), NEW p \in 1 .. Len(w),
           \A k \in 1 .. Len(w) : k # p => w[k] = 0
    PROVE  SumOf(w) = w[p]
<1> DEFINE n == Len(w)
           f == [k \in 0 .. n |-> IF k < p THEN 0 ELSE w[p]]
<1>1. n \in Nat /\ w[p] \in Nat /\ p \in Nat  BY LenProperties, ElementOfSeq
<1>2. f[0] = 0 /\ f[n] = w[p]
  <2>1. 0 \in 0 .. n /\ 0 < p /\ n \in 0 .. n /\ ~ (n < p)  BY <1>1
  <2> QED BY <2>1
<1>3. ASSUME NEW k \in 1 .. n PROVE f[k] = f[k - 1] + w[k]
  <2>1. k \in 0 .. n /\ k - 1 \in 0 .. n /\ k \in Int  BY <1>1
  <2>2. /\ f[k] = IF k < p THEN 0 ELSE w[p]
        /\ f[k - 1] = IF k - 1 < p THEN 0 ELSE w[p]
    BY <2>1
  <2> HIDE DEF f
  <2>3. CASE k = p
    <3>1. ~ (k < p) /\ k - 1 < p  BY <1>1, <2>3
    <3> QED BY <1>1, <2>2, <2>3, <3>1
  <2>4. CASE k # p
    <3>1. w[k] = 0  BY <2>4
    <3>2. k < p <=> k - 1 < p  BY <1>1, <2>1, <2>4
    <3> QED BY <1>1, <2>2, <3>1, <3>2
  <2> QED BY <2>3, <2>4
<1> HIDE DEF f
<1>4. AddsUp(w, f, n)  BY <1>2, <1>3 DEF AddsUp
<1> QED BY <1>2, <1>4, SumIs

\* The numbers of w that carry label k, zeros in the other places.
Labelled(w, label, k) ==
    [i \in 1 .. Len(w) |-> IF label[i] = k THEN w[i] ELSE 0]

\* Counting twice: added up label by label, the numbers of w give their sum.
LEMMA SumByLabels ==
    \A w \in Seq(Nat) : \A n \in Nat : \A label \in [1 .. Len(w) -> 1 .. n] : \A v \in Seq(Nat) :
        Len(v) = n /\ (\A k \in 1 .. n : v[k] = SumOf(Labelled(w, label, k)))
        => SumOf(v) = SumOf(w)
<1> TAKE w \in Seq(Nat)
<1> TAKE n \in Nat
<1> TAKE label \in [1 .. Len(w) -> 1 .. n]
<1> TAKE v \in Seq(Nat)
<1> HAVE Len(v) = n /\ (\A k \in 1 .. n : v[k] = SumOf(Labelled(w, label, k)))
<1> DEFINE m == Len(w)
           Upto(k) == [i \in 1 .. m |-> IF label[i] <= k THEN w[i] ELSE 0]
           F == [k \in 0 .. n |-> SumOf(Upto(k))]
<1>1. m \in Nat /\ \A i \in 1 .. m : w[i] \in Nat /\ label[i] \in 1 .. n
  BY LenProperties, ElementOfSeq
<1>2. ASSUME NEW k
      PROVE  /\ Labelled(w, label, k) \in Seq(Nat) /\ Len(Labelled(w, label, k)) = m
             /\ \A i \in 1 .. m : Labelled(w, label, k)[i] = IF label[i] = k THEN w[i] ELSE 0
  <2>1. Labelled(w, label, k) \in [1 .. m -> Nat]  BY <1>1 DEF Labelled
  <2>2. \A i \in 1 .. m : Labelled(w, label, k)[i] = IF label[i] = k THEN w[i] ELSE 0
    BY DEF Labelled
  <2> HIDE DEF m
  <2> QED BY <1>1, <2>1, <2>2, SequenceOf
<1>3. ASSUME NEW k
      PROVE  /\ Upto(k) \in Seq(Nat) /\ Len(Upto(k)) = m
             /\ \A i \in 1 .. m : Upto(k)[i] = IF label[i] <= k THEN w[i] ELSE 0
  <2>1. Upto(k) \in [1 .. m -> Nat]  BY <1>1
  <2>2. \A i \in 1 .. m : Upto(k)[i] = IF label[i] <= k THEN w[i] ELSE 0
    OBVIOUS
  <2> HIDE DEF m, Upto
  <2> QED BY <1>1, <2>1, <2>2, SequenceOf
<1> HIDE DEF Upto
<1>4. F[0] = 0
  <2>1. \A i \in 1 .. m : Upto(0)[i] = 0  BY <1>1, <1>3
  <2>2. SumOf(Upto(0)) = 0  BY <1>3, <2>1, SumOfZeros
  <2> QED BY <2>2
<1>5. ASSUME NEW k \in 1 .. n PROVE F[k] = F[k - 1] + v[k]
  <2>1. k \in 0 .. n /\ k - 1 \in 0 .. n  OBVIOUS
  <2>2. ASSUME NEW i \in 1 .. m
        PROVE  Upto(k)[i] = Upto(k - 1)[i] + Labelled(w, label, k)[i]
    <3>1. label[i] \in Int /\ w[i] \in Nat  BY <1>1
    <3>2. /\ Upto(k)[i] = IF label[i] <= k THEN w[i] ELSE 0
          /\ Upto(k - 1)[i] = IF label[i] <= k - 1 THEN w[i] ELSE 0
          /\ Labelled(w, label, k)[i] = IF label[i] = k THEN w[i] ELSE 0
      BY <1>2, <1>3
    <3>3. CASE label[i] = k
      <4>1. label[i] <= k /\ ~ (label[i] <= k - 1)  BY <3>1, <3>3
      <4> QED BY <3>1, <3>2, <3>3, <4>1
    <3>4. CASE label[i] # k
      <4>1. label[i] <= k <=> label[i] <= k - 1  BY <3>1, <3>4
      <4> QED BY <3>1, <3>2, <3>4, <4>1
    <3> QED BY <3>3, <3>4
  <2>3. SumOf(Upto(k)) = SumOf(Upto(k - 1)) + SumOf(Labelled(w, label, k))
    <3> HIDE DEF m
    <3>1. /\ Upto(k - 1) \in Seq(Nat) /\ Labelled(w, label, k) \in Seq(Nat) /\ Upto(k) \in Seq(Nat)
          /\ Len(Labelled(w, label, k)) = Len(Upto(k - 1)) /\ Len(Upto(k)) = Len(Upto(k - 1))
          /\ Len(Upto(k - 1)) = m
      BY <1>2, <1>3
    <3> QED BY <2>2, <3>1, SumOfSums
  <2> QED BY <2>1, <2>3
<1>6. F[n] = SumOf(w)
  <2>1. ASSUME NEW i \in 1 .. m PROVE Upto(n)[i] = w[i]
    <3>1. label[i] <= n  BY <1>1
    <3> QED BY <1>3, <3>1
  <2>2. Upto(n) = w  BY <1>3, <2>1, SeqEqual
  <2> QED BY <2>2
<1> HIDE DEF F
<1>7. AddsUp(v, F, Len(v))  BY <1>4, <1>5 DEF AddsUp
<1> QED BY <1>6, <1>7, SumIs

\* Sums whose numbers are at least, or at most, p times those of w.
LEMMA SumOfMultiples ==
    ASSUME NEW w \in Seq(Nat), NEW v \in Seq(Int), Len(v) = Len(w), NEW p \in Int
    PROVE  /\ (\A k \in 1 .. Len(w) : p * w[k] <= v[k]) => p * SumOf(w) <= SumOf(v)
           /\ (\A k \in 1 .. Len(w) : v[k] <= p * w[k]) => SumOf(v) <= p * SumOf(w)
<1> DEFINE n == Len(w)
<1>0. n \in Nat /\ n \in 0 .. n
  BY LenProperties
<1>1. PICK f \in [0 .. n -> Nat] : AddsUp(w, f, n)  BY <1>0, PartialSumsExist
<1>2. PICK g \in [0 .. n -> Int] : AddsUp(v, g, n)  BY <1>0, PartialSumsExist
<1>3. ASSUME NEW k \in 1 .. n
      PROVE  /\ p * f[k] = p * f[k - 1] + p * w[k] /\ g[k] = g[k - 1] + v[k]
             /\ p * f[k] \in Int /\ p * f[k - 1] \in Int /\ p * w[k] \in Int
             /\ g[k - 1] \in Int /\ v[k] \in Int
  <2>1. k \in 0 .. n /\ k - 1 \in 0 .. n  BY <1>0
  <2>2. w[k] \in Nat /\ v[k] \in Int  BY ElementOfSeq
  <2>3. f[k] = f[k - 1] + w[k] /\ g[k] = g[k - 1] + v[k]  BY <1>1, <1>2 DEF AddsUp
  <2>4. f[k - 1] \in Nat /\ f[k] \in Nat /\ g[k - 1] \in Int  BY <2>1
  <2>5. ASSUME NEW a \in Int, NEW b \in Int PROVE p * (a + b) = p * a + p * b
    OBVIOUS
  <2>6. p * (f[k - 1] + w[k]) = p * f[k - 1] + p * w[k]  BY <2>2, <2>4, <2>5
  <2>7. \A a \in Nat : p * a \in Int  OBVIOUS
  <2> QED BY <2>2, <2>3, <2>4, <2>6, <2>7
<1>4. SumOf(w) = f[n] /\ SumOf(v) = g[n]  BY <1>1, <1>2, SumIs
<1>5. p * f[0] = 0 /\ g[0] = 0  BY <1>1, <1>2 DEF AddsUp
<1>8. \A a, b, c, d \in Int : a <= c /\ b <= d => a + b <= c + d
  OBVIOUS
<1>6. ASSUME \A k \in 1 .. n : p * w[k] <= v[k]
      PROVE  p * f[n] <= g[n]
  <2> DEFINE T == {m \in 0 .. n : ~ (p * f[m] <= g[m])}
  <2>1. ASSUME T # {} PROVE FALSE
    <3>1. T \in SUBSET Nat  BY <1>0
    <3>2. PICK m \in T : \A k \in T : m <= k  BY <2>1, <3>1, LeastNumber
    <3>3. m \in 1 .. n  BY <1>0, <1>5, <3>2
    <3>4. m - 1 \in 0 .. n /\ ~ (m <= m - 1)  BY <1>0, <3>3
    <3>5. p * f[m - 1] <= g[m - 1]  BY <3>2, <3>4
    <3>6. p * w[m] <= v[m]  BY <1>6, <3>3
    <3>7. p * f[m - 1] + p * w[m] <= g[m - 1] + v[m]  BY <1>3, <1>8, <3>3, <3>5, <3>6
    <3>8. p * f[m] <= g[m]  BY <1>3, <3>3, <3>7
    <3> QED BY <3>2, <3>8
  <2> QED BY <1>0, <2>1
<1>7. ASSUME \A k \in 1 .. n : v[k] <= p * w[k]
      PROVE  g[n] <= p * f[n]
  <2> DEFINE T == {m \in 0 .. n : ~ (g[m] <= p * f[m])}
  <2>1. ASSUME T # {} PROVE FALSE
    <3>1. T \in SUBSET Nat  BY <1>0
    <3>2. PICK m \in T : \A k \in T : m <= k  BY <2>1, <3>1, LeastNumber
    <3>3. m \in 1 .. n  BY <1>0, <1>5, <3>2
    <3>4. m - 1 \in 0 .. n /\ ~ (m <= m - 1)  BY <1>0, <3>3
    <3>5. g[m - 1] <= p * f[m - 1]  BY <3>2, <3>4
    <3>6. v[m] <= p * w[m]  BY <1>7, <3>3
    <3>7. g[m - 1] + v[m] <= p * f[m - 1] + p * w[m]  BY <1>3, <1>8, <3>3, <3>5, <3>6
    <3>8. g[m] <= p * f[m]  BY <1>3, <3>3, <3>7
    <3> QED BY <3>2, <3>8
  <2> QED BY <1>0, <2>1
<1> QED BY <1>4, <1>6, <1>7

\* A number over a modulus: quotient and remainder.
LEMMA Division ==
    ASSUME NEW M \in Nat \ {0}, NEW a \in Nat
    PROVE  \E d \in Int, c \in 0 .. M - 1 : a = M * d + c
<1>1. PICK d \in Int : d = a \div M  OBVIOUS
<1>2. PICK c \in 0 .. M - 1 : c = a % M  OBVIOUS
<1>3. a = M * d + c  BY <1>1, <1>2
<1> QED BY <1>3

LEMMA Remainder ==
    ASSUME NEW M \in Nat \ {0}, NEW c \in 0 .. M - 1, NEW d \in Int
    PROVE  (M * d + c) % M = c
OBVIOUS

\* It does not matter how often a sum wraps around.
LEMMA WrapsOnce ==
    ASSUME NEW M \in Nat \ {0}, NEW a \in Nat, NEW q \in Nat
    PROVE  ((a % M) + q) % M = (a + q) % M
<1>1. PICK d \in Int, c \in 0 .. M - 1 : a = M * d + c  BY Division
<1>2. PICK e \in Int, b \in 0 .. M - 1 : c + q = M * e + b
  <2>1. c + q \in Nat  OBVIOUS
  <2> QED BY <2>1, Division
<1>3. a % M = c  BY <1>1, Remainder
<1>4. (c + q) % M = b  BY <1>2, Remainder
<1>5. a + q = M * (d + e) + b
  <2>1. M * (d + e) = M * d + M * e  OBVIOUS
  <2>2. M * d \in Int /\ M * e \in Int  OBVIOUS
  <2> QED BY <1>1, <1>2, <2>1, <2>2
<1>6. d + e \in Int  OBVIOUS
<1>7. (a + q) % M = b  BY <1>5, <1>6, Remainder
<1> QED BY <1>3, <1>4, <1>7

\* Order i of the book is at the price of level at[i].
LevelPrices(book, reverse) == SortedPrices(PricesOf(book), reverse)
LevelCount(book) == Cardinality(PricesOf(book))

IsLevelMap(book, reverse, at) ==
    /\ at \in [1 .. Len(book) -> 1 .. LevelCount(book)]
    /\ \A i \in 1 .. Len(book) : LevelPrices(book, reverse)[at[i]] = book[i].price

\* The levels of any book: as many as it has prices, each the price of some order,
\* better ones first.
LEMMA LevelsOfBook ==
    ASSUME NEW P \in SUBSET Int, NEW side, NEW book \in Seq(Priced(P, side)),
           NEW reverse \in BOOLEAN
    PROVE  /\ LevelCount(book) \in Nat /\ LevelCount(book) <= Len(book) /\ Len(book) \in Nat
           /\ LevelPrices(book, reverse) \in [1 .. LevelCount(book) -> PricesOf(book)]
           /\ \A j \in 1 .. LevelCount(book) :
                 /\ LevelPrices(book, reverse)[j] \in Int
                 /\ \E i \in 1 .. Len(book) : LevelPrices(book, reverse)[j] = book[i].price
           /\ \A j, k \in 1 .. LevelCount(book) :
                 j < k <=> ComesBefore(LevelPrices(book, reverse)[j],
                                       LevelPrices(book, reverse)[k], reverse)
           /\ \A j, k \in 1 .. LevelCount(book) :
                 LevelPrices(book, reverse)[j] = LevelPrices(book, reverse)[k] => j = k
           /\ \E at : IsLevelMap(book, reverse, at)
           /\ Len(book) > 0 => LevelCount(book) > 0
<1> DEFINE S == PricesOf(book)
           n == Len(book)
           N == LevelCount(book)
           s == LevelPrices(book, reverse)
<1>1. /\ S \in SUBSET Int /\ IsFiniteSet(S) /\ N <= n /\ n \in Nat
      /\ \A i \in 1 .. n : book[i].price \in S
      /\ \A p \in S : \E i \in 1 .. n : p = book[i].price
  BY PricesOfBook, LenProperties DEF LevelCount
<1>2. /\ s \in [1 .. N -> S] /\ N \in Nat
      /\ \A k, l \in 1 .. N : k < l <=> ComesBefore(s[k], s[l], reverse)
      /\ \A p \in S : \E k \in 1 .. N : p = s[k]
  BY <1>1, PricesSorted DEF LevelPrices, LevelCount
<1> HIDE DEF S, N, s, n
<1>3. \A j \in 1 .. N : s[j] \in Int /\ \E i \in 1 .. n : s[j] = book[i].price
  BY <1>1, <1>2
<1>4. ASSUME NEW j \in 1 .. N, NEW k \in 1 .. N, s[j] = s[k] PROVE j = k
  <2>1. ~ ComesBefore(s[j], s[j], reverse)  BY <1>3 DEF ComesBefore
  <2>2. ~ (j < k) /\ ~ (k < j)  BY <1>2, <1>4, <2>1
  <2> QED BY <2>2
<1>5. \E at : IsLevelMap(book, reverse, at)
  <2> DEFINE at == [i \in 1 .. n |-> CHOOSE k \in 1 .. N : book[i].price = s[k]]
  <2>1. \A i \in 1 .. n : at[i] \in 1 .. N /\ s[at[i]] = book[i].price  BY <1>1, <1>2
  <2>2. at \in [1 .. n -> 1 .. N]  BY <2>1
  <2> HIDE DEF at
  <2>3. IsLevelMap(book, reverse, at)  BY <2>1, <2>2 DEF IsLevelMap, n, N, s
  <2> QED BY <2>3
<1>6. n > 0 => N > 0
  <2>1. ASSUME n > 0 PROVE N > 0
    <3>1. 1 \in 1 .. n  BY <1>1, <2>1
    <3>2. \E k \in 1 .. N : book[1].price = s[k]  BY <1>1, <1>2, <3>1
    <3> QED BY <1>2, <3>2
  <2> QED BY <2>1
<1> QED BY <1>1, <1>2, <1>3, <1>4, <1>5, <1>6 DEF S, N, s, n

SortedBy(book, reverse) ==
    \A i, j \in 1 .. Len(book) :
        i < j => ~ ComesBefore(book[j].price, book[i].price, reverse)

\* A walk over a sorted book meets the levels in turn, and misses none.
LEMMA LevelsInTurn ==
    ASSUME NEW P \in SUBSET Int, NEW side, NEW book \in Seq(Priced(P, side)),
           NEW reverse \in BOOLEAN, SortedBy(book, reverse),
           NEW at, IsLevelMap(book, reverse, at), Len(book) > 0
    PROVE  /\ at[1] = 1 /\ at[Len(book)] = LevelCount(book)
           /\ \A k \in 2 .. Len(book) : at[k] = at[k - 1] \/ at[k] = at[k - 1] + 1
<1> DEFINE n == Len(book)
           N == LevelCount(book)
           s == LevelPrices(book, reverse)
<1>1. /\ N \in Nat /\ n \in Nat /\ n > 0
      /\ \A j \in 1 .. N : s[j] \in Int /\ \E i \in 1 .. n : s[j] = book[i].price
      /\ \A j, k \in 1 .. N : j < k <=> ComesBefore(s[j], s[k], reverse)
      /\ \A j, k \in 1 .. N : s[j] = s[k] => j = k
      /\ N > 0
  BY LevelsOfBook
<1>2. \A i \in 1 .. n : at[i] \in 1 .. N /\ s[at[i]] = book[i].price  BY DEF IsLevelMap
<1>3. \A i, j \in 1 .. n : i < j => ~ ComesBefore(book[j].price, book[i].price, reverse)
  BY DEF SortedBy
<1> HIDE DEF n, N, s
<1>4. ASSUME NEW i \in 1 .. n, NEW j \in 1 .. n, i <= j PROVE at[i] <= at[j]
  <2>1. CASE i = j  BY <1>2, <2>1
  <2>2. CASE i < j
    <3>1. at[i] \in 1 .. N /\ at[j] \in 1 .. N  BY <1>2
    <3>2. at[j] < at[i] => ComesBefore(s[at[j]], s[at[i]], reverse)  BY <1>1, <3>1
    <3>3. s[at[j]] = book[j].price /\ s[at[i]] = book[i].price  BY <1>2
    <3>4. ~ (at[j] < at[i])  BY <1>3, <2>2, <3>2, <3>3
    <3> QED BY <3>1, <3>4
  <2> QED BY <1>4, <2>1, <2>2
<1>5. ASSUME NEW j \in 1 .. N PROVE \E i \in 1 .. n : at[i] = j
  <2>1. PICK i \in 1 .. n : s[j] = book[i].price  BY <1>1
  <2>2. at[i] \in 1 .. N /\ s[at[i]] = s[j]  BY <1>2, <2>1
  <2>3. at[i] = j  BY <1>1, <2>2
  <2> QED BY <2>3
<1>6. at[1] = 1
  <2>1. 1 \in 1 .. n /\ 1 \in 1 .. N  BY <1>1
  <2>2. PICK i \in 1 .. n : at[i] = 1  BY <1>5, <2>1
  <2>3. at[1] <= at[i]  BY <1>4, <2>1
  <2> QED BY <1>2, <2>1, <2>2, <2>3
<1>7. at[n] = N
  <2>1. n \in 1 .. n /\ N \in 1 .. N  BY <1>1
  <2>2. PICK i \in 1 .. n : at[i] = N  BY <1>5, <2>1
  <2>3. at[i] <= at[n]  BY <1>4, <2>1
  <2> QED BY <1>2, <2>1, <2>2, <2>3
<1>8. ASSUME NEW k \in 2 .. n PROVE at[k] = at[k - 1] \/ at[k] = at[k - 1] + 1
  <2>1. k \in 1 .. n /\ k - 1 \in 1 .. n  BY <1>1
  <2>2. at[k] \in 1 .. N /\ at[k - 1] \in 1 .. N /\ at[k - 1] <= at[k]  BY <1>2, <1>4, <2>1
  <2>3. ASSUME at[k - 1] + 1 < at[k] PROVE FALSE
    <3>0. /\ at[k] \in Int /\ at[k - 1] \in Int /\ N \in Nat
          /\ 1 <= at[k - 1] /\ at[k] <= N /\ at[k - 1] + 1 < at[k]
      BY <1>1, <2>2, <2>3
    <3>1. at[k - 1] + 1 \in 1 .. N  BY <3>0
    <3>2. PICK i \in 1 .. n : at[i] = at[k - 1] + 1  BY <1>5, <3>1
    <3>3. i <= k - 1 \/ k <= i  BY <2>1
    <3>4. CASE i <= k - 1
      <4>1. at[i] <= at[k - 1]  BY <1>4, <2>1, <3>4
      <4> QED BY <2>2, <3>2, <4>1
    <3>5. CASE k <= i
      <4>1. at[k] <= at[i]  BY <1>4, <2>1, <3>5
      <4> QED BY <2>2, <2>3, <3>2, <4>1
    <3> QED BY <3>3, <3>4, <3>5
  <2> QED BY <2>2, <2>3
<1> QED BY <1>6, <1>7, <1>8 DEF n, N

\* The quantities of a book, and those of one of its levels.
Held(book) == [i \in 1 .. Len(book) |-> book[i].quantity]

LEMMA HeldQuantities ==
    ASSUME NEW P \in SUBSET Int, NEW side, NEW book \in Seq(Priced(P, side))
    PROVE  /\ Held(book) \in Seq(Nat) /\ Len(Held(book)) = Len(book) /\ Len(book) \in Nat
           /\ \A i \in 1 .. Len(book) : Held(book)[i] = book[i].quantity
                                        /\ book[i].quantity \in Nat
           /\ Total(book) = SumOf(Held(book))
<1>1. Len(book) \in Nat /\ DOMAIN book = 1 .. Len(book)  BY LenProperties
<1>2. \A i \in 1 .. Len(book) : book[i].quantity \in Nat  BY Elements, PricedFields
<1>3. Held(book) \in [1 .. Len(book) -> Nat]  BY <1>2 DEF Held
<1>4. Held(book) \in Seq(Nat) /\ Len(Held(book)) = Len(book)  BY <1>1, <1>3, SequenceOf
<1>5. Total(book) = SumOf(Held(book))  BY <1>1 DEF Total, Held
<1>6. \A i \in 1 .. Len(book) : Held(book)[i] = book[i].quantity  BY DEF Held
<1> QED BY <1>1, <1>2, <1>4, <1>5, <1>6

\* What the dict adds up for the price of a level is the sum over its orders.
LEMMA LevelQuantity ==
    ASSUME NEW P \in SUBSET Int, NEW side, NEW book \in Seq(Priced(P, side)),
           NEW reverse \in BOOLEAN, NEW at, IsLevelMap(book, reverse, at),
           NEW j \in 1 .. LevelCount(book)
    PROVE  /\ Labelled(Held(book), at, j) \in Seq(Nat)
           /\ Len(Labelled(Held(book), at, j)) = Len(book)
           /\ \A i \in 1 .. Len(book) :
                 Labelled(Held(book), at, j)[i] = IF at[i] = j THEN book[i].quantity ELSE 0
           /\ QuantityAt(book, LevelPrices(book, reverse)[j]) = SumOf(Labelled(Held(book), at, j))
<1> DEFINE n == Len(book)
           w == Labelled(Held(book), at, j)
           p == LevelPrices(book, reverse)[j]
<1>1. /\ n \in Nat /\ DOMAIN book = 1 .. n /\ Len(Held(book)) = n
      /\ \A i \in 1 .. n : Held(book)[i] = book[i].quantity /\ book[i].quantity \in Nat
  BY HeldQuantities, LenProperties
<1>2. w = [i \in 1 .. n |-> IF at[i] = j THEN Held(book)[i] ELSE 0]  BY <1>1 DEF Labelled
<1>3. \A i \in 1 .. n : w[i] = IF at[i] = j THEN book[i].quantity ELSE 0  BY <1>1, <1>2
<1>4. w \in [1 .. n -> Nat]
  <2>1. \A i \in 1 .. n : (IF at[i] = j THEN Held(book)[i] ELSE 0) \in Nat  BY <1>1
  <2> HIDE DEF w
  <2> QED BY <1>2, <2>1
<1> HIDE DEF w
<1>5. w \in Seq(Nat) /\ Len(w) = n  BY <1>1, <1>4, SequenceOf
<1>6. \A i \in 1 .. n : at[i] = j <=> book[i].price = p
  <2>1. \A i \in 1 .. n : at[i] \in 1 .. LevelCount(book)
                          /\ LevelPrices(book, reverse)[at[i]] = book[i].price
    BY DEF IsLevelMap
  <2>2. \A k \in 1 .. LevelCount(book) : LevelPrices(book, reverse)[k] = p => k = j
    BY LevelsOfBook
  <2> QED BY <2>1, <2>2
<1>7. w = [i \in DOMAIN book |-> IF book[i].price = p THEN book[i].quantity ELSE 0]
  <2>1. \A i \in 1 .. n : (IF at[i] = j THEN Held(book)[i] ELSE 0)
                            = (IF book[i].price = p THEN book[i].quantity ELSE 0)
    BY <1>1, <1>6
  <2> HIDE DEF p
  <2> QED BY <1>1, <1>2, <2>1
<1>8. QuantityAt(book, p) = SumOf(w)  BY <1>7 DEF QuantityAt
<1> QED BY <1>3, <1>5, <1>8 DEF w

----------------------------------------------------------------------------
\* The walk of get_book_depth

\* The partial sums of the levels: what the first k orders hold of level j.
AreLevelSums(book, reverse, at, sums) ==
    /\ sums \in [1 .. LevelCount(book) -> [0 .. Len(book) -> Nat]]
    /\ \A j \in 1 .. LevelCount(book) :
          /\ sums[j][0] = 0
          /\ \A k \in 1 .. Len(book) :
                sums[j][k] = sums[j][k - 1] + (IF at[k] = j THEN book[k].quantity ELSE 0)
          /\ QuantityAt(book, LevelPrices(book, reverse)[j]) = sums[j][Len(book)]

LEMMA LevelSums ==
    ASSUME NEW P \in SUBSET Int, NEW side, NEW book \in Seq(Priced(P, side)),
           NEW reverse \in BOOLEAN, NEW at, IsLevelMap(book, reverse, at)
    PROVE  \E sums : AreLevelSums(book, reverse, at, sums)
<1> DEFINE n == Len(book)
           N == LevelCount(book)
           w(j) == Labelled(Held(book), at, j)
           sums == [j \in 1 .. N |-> CHOOSE f \in [0 .. n -> Nat] : AddsUp(w(j), f, n)]
<1>1. ASSUME NEW j \in 1 .. N
      PROVE  /\ w(j) \in Seq(Nat) /\ Len(w(j)) = n /\ n \in Nat
             /\ \A k \in 1 .. n : w(j)[k] = IF at[k] = j THEN book[k].quantity ELSE 0
             /\ QuantityAt(book, LevelPrices(book, reverse)[j]) = SumOf(w(j))
  BY LevelQuantity, LenProperties
<1> HIDE DEF w
<1>2. ASSUME NEW j \in 1 .. N
      PROVE  sums[j] \in [0 .. n -> Nat] /\ AddsUp(w(j), sums[j], n)
  <2>1. n \in 0 .. Len(w(j))  BY <1>1
  <2>2. \E f \in [0 .. n -> Nat] : AddsUp(w(j), f, n)  BY <1>1, <2>1, PartialSumsExist
  <2> QED BY <2>2
<1>3. sums \in [1 .. N -> [0 .. n -> Nat]]  BY <1>2
<1> HIDE DEF sums
<1>4. ASSUME NEW j \in 1 .. N
      PROVE  /\ sums[j][0] = 0
             /\ \A k \in 1 .. n :
                   sums[j][k] = sums[j][k - 1] + (IF at[k] = j THEN book[k].quantity ELSE 0)
             /\ QuantityAt(book, LevelPrices(book, reverse)[j]) = sums[j][n]
  <2>1. sums[j][0] = 0 /\ \A k \in 1 .. n : sums[j][k] = sums[j][k - 1] + w(j)[k]
    BY <1>2 DEF AddsUp
  <2>2. SumOf(w(j)) = sums[j][n]  BY <1>1, <1>2, SumIs
  <2> QED BY <1>1, <2>1, <2>2
<1>5. AreLevelSums(book, reverse, at, sums)  BY <1>3, <1>4 DEF AreLevelSums
<1> QED BY <1>5

\* Nothing is held of a level that the walk has not reached.
LEMMA NotReached ==
    ASSUME NEW P \in SUBSET Int, NEW side, NEW book \in Seq(Priced(P, side)),
           NEW reverse \in BOOLEAN, SortedBy(book, reverse),
           NEW at, IsLevelMap(book, reverse, at),
           NEW sums, AreLevelSums(book, reverse, at, sums),
           NEW k \in 0 .. Len(book), NEW j \in 1 .. LevelCount(book), k > 0 => at[k] < j
    PROVE  sums[j][k] = 0
<1> DEFINE n == Len(book)
           N == LevelCount(book)
           T == {i \in 0 .. k : sums[j][i] # 0}
<1>1. n \in Nat /\ k \in Nat /\ N \in Nat  BY LenProperties, LevelsOfBook
<1>2. /\ sums[j][0] = 0
      /\ \A i \in 1 .. n : sums[j][i] = sums[j][i - 1] + (IF at[i] = j THEN book[i].quantity ELSE 0)
  BY DEF AreLevelSums
<1>3. \A i \in 1 .. n : at[i] \in 1 .. N
                        /\ LevelPrices(book, reverse)[at[i]] = book[i].price
  BY DEF IsLevelMap
<1>4. ASSUME NEW i \in 1 .. k PROVE at[i] # j
  <2>1. i \in 1 .. n /\ k \in 1 .. n /\ k > 0  BY <1>1
  <2>2. at[i] \in 1 .. N /\ at[k] \in 1 .. N /\ at[k] < j  BY <1>3, <2>1
  <2>3. CASE i = k  BY <2>2, <2>3
  <2>4. CASE i < k
    <3>1. at[k] < j => ComesBefore(LevelPrices(book, reverse)[at[k]],
                                   LevelPrices(book, reverse)[j], reverse)
      BY <2>2, LevelsOfBook
    <3>2. ~ ComesBefore(book[k].price, book[i].price, reverse)  BY <2>1, <2>4 DEF SortedBy
    <3>3. /\ LevelPrices(book, reverse)[at[k]] = book[k].price
          /\ LevelPrices(book, reverse)[at[i]] = book[i].price
      BY <1>3, <2>1
    <3>4. LevelPrices(book, reverse)[j] # book[i].price  BY <2>2, <3>1, <3>2, <3>3
    <3> QED BY <3>3, <3>4
  <2> QED BY <1>1, <2>3, <2>4
<1>5. ASSUME T # {} PROVE FALSE
  <2>1. T \in SUBSET Nat  BY <1>1
  <2>2. PICK i \in T : \A l \in T : i <= l  BY <1>5, <2>1, LeastNumber
  <2>3. i \in 1 .. k /\ i \in 1 .. n  BY <1>1, <1>2, <2>2
  <2>4. i - 1 \in 0 .. k /\ ~ (i <= i - 1)  BY <1>1, <2>3
  <2>5. sums[j][i - 1] = 0  BY <2>2, <2>4
  <2>6. sums[j][i] = 0  BY <1>2, <1>4, <2>3, <2>5
  <2> QED BY <2>2, <2>6
<1> QED BY <1>1, <1>5

\* The steps of get_book_depth's loop.  An order at the price of the open level;
\* one at another price, when the level was the last and when it was not; and an
\* order when no level is open, since the last was closed or none was begun.
OpenWalk(levels, p, q) == [levels |-> levels, open |-> TRUE, price |-> p, qty |-> q]
ShutWalk(levels, p, q) == [levels |-> levels, open |-> FALSE, price |-> p, qty |-> q]

Added(q, o) == Wrap(q + o.quantity)

\* An order at the price of the open level.
LEMMA WalkAdds ==
    ASSUME NEW levels, NEW p, NEW q, NEW o
    PROVE  [OpenWalk(levels, p, q) EXCEPT !.qty = Wrap(@ + o.quantity)]
             = OpenWalk(levels, p, Added(q, o))
<1>3. PICK open \in BOOLEAN : open = TRUE  OBVIOUS
<1>4. \A x, y : OpenWalk(levels, x, y)
                  = [levels |-> levels, open |-> open, price |-> x, qty |-> y]
  BY <1>3 DEF OpenWalk
<1>5. [[levels |-> levels, open |-> open, price |-> p, qty |-> q] EXCEPT !.qty = Wrap(@ + o.quantity)]
               = [levels |-> levels, open |-> open, price |-> p, qty |-> Wrap(q + o.quantity)]
  OBVIOUS
<1> QED BY <1>4, <1>5 DEF Added

\* An order at another price, when the open level is the last one asked for.
LEMMA WalkCloses ==
    ASSUME NEW levels, NEW p, NEW q, NEW o, NEW D,
           NEW w, w = OpenWalk(levels, p, q), o.price # p,
           NEW after, Append(levels, Level(p, q)) = after, Len(after) >= D
    PROVE  WalkStep(w, o, D) = ShutWalk(after, p, q)
<1>1. w.open /\ w.price = p /\ w.qty = q /\ Closed(w) = after
  BY DEF OpenWalk, ShutWalk, Closed
<1> QED BY <1>1 DEF WalkStep, OpenWalk, ShutWalk

\* An order when nothing is open: no level is begun once enough are shown.
LEMMA WalkEnds ==
    ASSUME NEW levels, NEW p, NEW q, NEW o, NEW D,
           NEW w, w = ShutWalk(levels, p, q), Len(levels) >= D
    PROVE  WalkStep(w, o, D) = w
<1>1. ~ w.open /\ w.price = p /\ w.qty = q /\ Closed(w) = levels
  BY DEF OpenWalk, ShutWalk, Closed
<1> QED BY <1>1 DEF WalkStep, OpenWalk, ShutWalk

LEMMA WalkBegins ==
    ASSUME NEW levels, NEW p, NEW q, NEW o, NEW D,
           NEW w, w = ShutWalk(levels, p, q), ~ (Len(levels) >= D)
    PROVE  WalkStep(w, o, D) = OpenWalk(levels, o.price, o.quantity)
<1>1. ~ w.open /\ w.price = p /\ w.qty = q /\ Closed(w) = levels
  BY DEF OpenWalk, ShutWalk, Closed
<1> QED BY <1>1 DEF WalkStep, OpenWalk, ShutWalk

Fewer(m, n) == IF m < n THEN m ELSE n

\* One more element at the end.
LEMMA Extended ==
    ASSUME NEW S, NEW m \in Nat \ {0}, NEW f \in [1 .. m -> S]
    PROVE  /\ Append([j \in 1 .. m - 1 |-> f[j]], f[m]) = f
           /\ Len(f) = m
<1> DEFINE g == [j \in 1 .. m - 1 |-> f[j]]
<1>1. f \in Seq(S) /\ Len(f) = m  BY SequenceOf
<1>2. g \in Seq(S) /\ Len(g) = m - 1 /\ \A j \in 1 .. m - 1 : g[j] = f[j]
  <2>1. g \in [1 .. m - 1 -> S] /\ m - 1 \in Nat  OBVIOUS
  <2>2. \A j \in 1 .. m - 1 : g[j] = f[j]  OBVIOUS
  <2> HIDE DEF g
  <2> QED BY <2>1, <2>2, SequenceOf
<1> HIDE DEF g
<1>3. f[m] \in S  OBVIOUS
<1>4. /\ Append(g, f[m]) \in Seq(S) /\ Len(Append(g, f[m])) = m
      /\ \A j \in 1 .. m - 1 : Append(g, f[m])[j] = g[j]
      /\ Append(g, f[m])[m] = f[m]
  <2>1. Len(g) + 1 = m  BY <1>2
  <2> QED BY <1>2, <1>3, <2>1, AppendProperties
<1>5. \A j \in 1 .. m : Append(g, f[m])[j] = f[j]
  <2>1. \A j \in 1 .. m : j = m \/ j \in 1 .. m - 1  OBVIOUS
  <2> QED BY <1>2, <1>4, <2>1
<1>6. Append(g, f[m]) = f  BY <1>1, <1>4, <1>5, SeqEqual
<1> QED BY <1>1, <1>6 DEF g

\* The first m levels of a walk that has seen k orders.
FirstLevels(book, reverse, sums, m, k) ==
    [j \in 1 .. m |-> Level(LevelPrices(book, reverse)[j], Wrap(sums[j][k]))]

\* The state of the walk when it has seen k orders, the last of them of level at[k]:
\* that level is open unless it is one too many.
Walked(book, reverse, at, sums, D, k) ==
    LET r == IF k = 0 THEN 0 ELSE at[k]
    IN  IF r = 0 \/ D = 0 THEN ShutWalk(<<>>, 0, 0)
        ELSE IF r <= D
        THEN OpenWalk(FirstLevels(book, reverse, sums, r - 1, k),
                      LevelPrices(book, reverse)[r], Wrap(sums[r][k]))
        ELSE ShutWalk(FirstLevels(book, reverse, sums, D, k), LevelPrices(book, reverse)[D], Wrap(sums[D][k]))

\* Closing the open level gives the first levels, one more of them.
LEMMA FirstLevelsAre ==
    ASSUME NEW P \in SUBSET Int, NEW side, NEW book \in Seq(Priced(P, side)),
           NEW reverse \in BOOLEAN,
           NEW at, IsLevelMap(book, reverse, at),
           NEW sums, AreLevelSums(book, reverse, at, sums),
           NEW m \in 0 .. LevelCount(book), NEW k \in 0 .. Len(book)
    PROVE  /\ Len(FirstLevels(book, reverse, sums, m, k)) = m
           /\ m > 0 => Append(FirstLevels(book, reverse, sums, m - 1, k),
                              Level(LevelPrices(book, reverse)[m], Wrap(sums[m][k])))
                         = FirstLevels(book, reverse, sums, m, k)
<1> DEFINE N == LevelCount(book)
           s == LevelPrices(book, reverse)
           L == FirstLevels(book, reverse, sums, m, k)
           S == [price: Int, qty: Int]
<1>1. m \in Nat /\ \A j \in 1 .. m : j \in 1 .. N
  BY LevelsOfBook
<1>2. ASSUME NEW j \in 1 .. m PROVE Level(s[j], Wrap(sums[j][k])) \in S
  <2>1. j \in 1 .. N  BY <1>1
  <2>2. s[j] \in Int  BY <2>1, LevelsOfBook
  <2>3. sums[j][k] \in Nat  BY <2>1 DEF AreLevelSums
  <2>4. Wrap(sums[j][k]) \in Int  BY <2>3, EngineViewsAssumption DEF Wrap
  <2> QED BY <2>2, <2>4 DEF Level
<1>3. L \in [1 .. m -> S] /\ \A j \in 1 .. m : L[j] = Level(s[j], Wrap(sums[j][k]))
  BY <1>2 DEF FirstLevels
<1>4. Len(L) = m  BY <1>1, <1>3, SequenceOf
<1>5. ASSUME m > 0
      PROVE  Append(FirstLevels(book, reverse, sums, m - 1, k), Level(s[m], Wrap(sums[m][k]))) = L
  <2>1. m \in Nat \ {0} /\ m \in 1 .. m /\ \A j \in 1 .. m - 1 : j \in 1 .. m  BY <1>1, <1>5
  <2>2. FirstLevels(book, reverse, sums, m - 1, k) = [j \in 1 .. m - 1 |-> L[j]]
    <3>1. \A j \in 1 .. m - 1 : Level(s[j], Wrap(sums[j][k])) = L[j]  BY <1>3, <2>1
    <3> HIDE DEF L, s
    <3>2. FirstLevels(book, reverse, sums, m - 1, k)
            = [j \in 1 .. m - 1 |-> Level(s[j], Wrap(sums[j][k]))]
      BY DEF FirstLevels, s
    <3> QED BY <3>1, <3>2
  <2>3. L[m] = Level(s[m], Wrap(sums[m][k]))  BY <1>3, <2>1
  <2> HIDE DEF L, S
  <2>4. Append([j \in 1 .. m - 1 |-> L[j]], L[m]) = L  BY <1>3, <2>1, Extended
  <2> QED BY <2>2, <2>3, <2>4
<1> QED BY <1>4, <1>5

\* Every order takes the walk from one of these states to the next.
LEMMA WalkedOn ==
    ASSUME NEW P \in SUBSET Int, NEW side, NEW book \in Seq(Priced(P, side)),
           NEW reverse \in BOOLEAN, SortedBy(book, reverse),
           \A i \in 1 .. Len(book) : book[i].quantity < QuantityLimit,
           NEW at, IsLevelMap(book, reverse, at),
           NEW sums, AreLevelSums(book, reverse, at, sums),
           NEW D \in Nat, NEW k \in 1 .. Len(book)
    PROVE  Walked(book, reverse, at, sums, D, k)
             = WalkStep(Walked(book, reverse, at, sums, D, k - 1), book[k], D)
<1> DEFINE n == Len(book)
           N == LevelCount(book)
           s == LevelPrices(book, reverse)
           L(m, l) == FirstLevels(book, reverse, sums, m, l)
           W(l) == Walked(book, reverse, at, sums, D, l)
           r == at[k]
           b == IF k - 1 = 0 THEN 0 ELSE at[k - 1]
           q == book[k].quantity
<1>1. /\ n \in Nat /\ N \in Nat /\ k \in Nat \ {0} /\ k - 1 \in 0 .. n /\ k \in 0 .. n
      /\ n > 0 /\ N > 0
  BY LevelsOfBook
<1>2. /\ r \in 1 .. N /\ b \in 0 .. N /\ (r = b \/ r = b + 1)
      /\ book[k].price = s[r]
  <2>1. \A i \in 1 .. n : at[i] \in 1 .. N /\ s[at[i]] = book[i].price  BY DEF IsLevelMap
  <2>2. CASE k = 1
    <3>1. at[1] = 1  BY <1>1, LevelsInTurn
    <3> QED BY <1>1, <2>1, <2>2, <3>1
  <2>3. CASE k # 1
    <3>1. k \in 2 .. n /\ k - 1 \in 1 .. n /\ k - 1 # 0  BY <1>1, <2>3
    <3>2. r = at[k - 1] \/ r = at[k - 1] + 1  BY <1>1, <3>1, LevelsInTurn
    <3>3. b = at[k - 1] /\ b \in 1 .. N  BY <2>1, <3>1
    <3> QED BY <1>1, <2>1, <3>2, <3>3
  <2> QED BY <2>2, <2>3
<1>3. ASSUME NEW j \in 1 .. N
      PROVE  /\ sums[j][k] = sums[j][k - 1] + (IF r = j THEN q ELSE 0)
             /\ sums[j][k - 1] \in Nat /\ sums[j][k] \in Nat
             /\ b < j => sums[j][k - 1] = 0
             /\ r # j => sums[j][k] = sums[j][k - 1]
  <2>1. /\ sums[j][k] = sums[j][k - 1] + (IF r = j THEN q ELSE 0)
        /\ sums[j][k - 1] \in Nat /\ sums[j][k] \in Nat
    BY <1>1 DEF AreLevelSums
  <2>2. ASSUME b < j PROVE sums[j][k - 1] = 0
    <3>1. k - 1 > 0 => at[k - 1] < j  BY <1>1, <2>2
    <3> QED BY <1>1, <3>1, NotReached
  <2>3. r # j => sums[j][k] = sums[j][k - 1]  BY <2>1
  <2> QED BY <2>1, <2>2, <2>3
<1>4. q \in Nat /\ q < QuantityLimit /\ QuantityLimit \in Nat \ {0}
  BY HeldQuantities, EngineViewsAssumption
<1>5. W(k) = IF D = 0 THEN ShutWalk(<<>>, 0, 0)
             ELSE IF r <= D THEN OpenWalk(L(r - 1, k), s[r], Wrap(sums[r][k]))
             ELSE ShutWalk(L(D, k), s[D], Wrap(sums[D][k]))
  <2>1. k # 0 /\ r # 0  BY <1>1, <1>2
  <2> QED BY <2>1 DEF Walked
<1>6. W(k - 1) = IF b = 0 \/ D = 0 THEN ShutWalk(<<>>, 0, 0)
                 ELSE IF b <= D THEN OpenWalk(L(b - 1, k - 1), s[b], Wrap(sums[b][k - 1]))
                 ELSE ShutWalk(L(D, k - 1), s[D], Wrap(sums[D][k - 1]))
  BY DEF Walked
<1>7. ASSUME NEW m \in 0 .. N, m < r PROVE L(m, k) = L(m, k - 1)
  <2>1. \A j \in 1 .. m : j \in 1 .. N /\ r # j  BY <1>1, <1>2, <1>7
  <2>2. \A j \in 1 .. m : sums[j][k] = sums[j][k - 1]  BY <1>3, <2>1
  <2> QED BY <2>2 DEF FirstLevels
<1>8. ASSUME NEW m \in 1 .. N
      PROVE  /\ Len(L(m, k - 1)) = m
             /\ Append(L(m - 1, k - 1), Level(s[m], Wrap(sums[m][k - 1]))) = L(m, k - 1)
  <2>1. m \in 0 .. N /\ m > 0  BY <1>1
  <2>2. k - 1 \in 0 .. Len(book) /\ m \in 0 .. LevelCount(book)  BY <1>1, <2>1
  <2>3. Len(L(m, k - 1)) = m  BY <2>2, FirstLevelsAre
  <2>4. Append(L(m - 1, k - 1), Level(s[m], Wrap(sums[m][k - 1]))) = L(m, k - 1)
    BY <2>1, <2>2, FirstLevelsAre
  <2> QED BY <2>3, <2>4
<1> HIDE DEF W, L, s, n, N, q
<1>9. Len(<<>>) = 0  OBVIOUS
<1>10. CASE D = 0
  <2>1. WalkStep(ShutWalk(<<>>, 0, 0), book[k], D) = ShutWalk(<<>>, 0, 0)
    <3>1. Len(<<>>) >= D  BY <1>9, <1>10
    <3> QED BY <3>1, WalkEnds
  <2> QED BY <1>5, <1>6, <1>10, <2>1 DEF W
<1>11. CASE D # 0 /\ b = 0
  <2>1. r = 1 /\ r <= D  BY <1>2, <1>11
  <2>2. WalkStep(ShutWalk(<<>>, 0, 0), book[k], D)
          = OpenWalk(<<>>, book[k].price, book[k].quantity)
    <3>1. ~ (Len(<<>>) >= D)  BY <1>9, <1>11
    <3> QED BY <3>1, WalkBegins
  <2>3. L(r - 1, k) = <<>>  BY <2>1 DEF L, FirstLevels
  <2>4. Wrap(sums[r][k]) = q
    <3>1. sums[r][k] = 0 + q  BY <1>2, <1>3, <1>11, <2>1
    <3>2. q % QuantityLimit = q  BY <1>4
    <3> QED BY <1>4, <3>1, <3>2 DEF Wrap
  <2> QED BY <1>2, <1>5, <1>6, <1>11, <2>1, <2>2, <2>3, <2>4 DEF W, q
<1>12. CASE D # 0 /\ b # 0 /\ r = b /\ r <= D
  <2>1. WalkStep(OpenWalk(L(b - 1, k - 1), s[b], Wrap(sums[b][k - 1])), book[k], D)
          = OpenWalk(L(b - 1, k - 1), s[b], Wrap(Wrap(sums[b][k - 1]) + q))
    <3>1. book[k].price = s[b]  BY <1>2, <1>12
    <3>2. PICK w : w = OpenWalk(L(b - 1, k - 1), s[b], Wrap(sums[b][k - 1]))  OBVIOUS
    <3>3. w.open /\ w.price = s[b]  BY <3>2 DEF OpenWalk
    <3>4. WalkStep(w, book[k], D) = [w EXCEPT !.qty = Wrap(@ + book[k].quantity)]
      BY <3>1, <3>3 DEF WalkStep
    <3>5. [OpenWalk(L(b - 1, k - 1), s[b], Wrap(sums[b][k - 1])) EXCEPT !.qty = Wrap(@ + book[k].quantity)]
            = OpenWalk(L(b - 1, k - 1), s[b], Added(Wrap(sums[b][k - 1]), book[k]))
      BY WalkAdds
    <3>6. Added(Wrap(sums[b][k - 1]), book[k]) = Wrap(Wrap(sums[b][k - 1]) + q)  BY DEF Added, q
    <3> QED BY <3>2, <3>4, <3>5, <3>6
  <2>2. Wrap(Wrap(sums[r][k - 1]) + q) = Wrap(sums[r][k])
    <3>1. sums[r][k] = sums[r][k - 1] + q /\ sums[r][k - 1] \in Nat  BY <1>2, <1>3
    <3>2. ((sums[r][k - 1] % QuantityLimit) + q) % QuantityLimit
            = (sums[r][k - 1] + q) % QuantityLimit
      BY <1>4, <3>1, WrapsOnce
    <3> QED BY <3>1, <3>2, Zenon DEF Wrap
  <2>3. r - 1 \in 0 .. N /\ r - 1 < r  BY <1>1, <1>2
  <2>4. L(r - 1, k) = L(r - 1, k - 1)  BY <1>7, <2>3
  <2> QED BY <1>5, <1>6, <1>12, <2>1, <2>2, <2>4 DEF W
<1>13. CASE D # 0 /\ b # 0 /\ r = b + 1 /\ b <= D
  <2>1. b \in 1 .. N /\ b < r /\ b \in 0 .. N  BY <1>2, <1>13
  <2>2. book[k].price # s[b]
    <3>1. s[b] = s[r] => b = r  BY <1>2, <2>1, LevelsOfBook DEF s, N
    <3> QED BY <1>2, <2>1, <3>1
  <2>3. WalkStep(OpenWalk(L(b - 1, k - 1), s[b], Wrap(sums[b][k - 1])), book[k], D)
          = IF b >= D THEN ShutWalk(L(b, k - 1), s[b], Wrap(sums[b][k - 1]))
            ELSE OpenWalk(L(b, k - 1), s[r], q)
    <3>1. /\ Append(L(b - 1, k - 1), Level(s[b], Wrap(sums[b][k - 1]))) = L(b, k - 1)
          /\ Len(L(b, k - 1)) = b
      BY <1>8, <2>1
    <3> DEFINE levels == L(b - 1, k - 1)
               old    == Wrap(sums[b][k - 1])
               o      == book[k]
               after  == L(b, k - 1)
               w      == OpenWalk(levels, s[b], old)
    <3>2. /\ w = OpenWalk(levels, s[b], old) /\ o.price # s[b]
          /\ Append(levels, Level(s[b], old)) = after /\ Len(after) = b
          /\ o.price = s[r] /\ o.quantity = q
      BY <1>2, <2>2, <3>1 DEF q
    <3> HIDE DEF levels, old, o, after, w
    <3>3. CASE b >= D
      <4>1. WalkStep(w, o, D) = ShutWalk(after, s[b], old)  BY <3>2, <3>3, WalkCloses, SMTT(30)
      <4> QED BY <3>3, <4>1 DEF levels, old, o, after, w
    <3>4. CASE ~ (b >= D)
      <4>1. ~ (Len(after) >= D)  BY <3>2, <3>4
      <4>2. w.open /\ w.price = s[b] /\ w.qty = old /\ Closed(w) = after
        BY <3>2 DEF OpenWalk, ShutWalk, Closed
      <4>3. WalkStep(w, o, D) = OpenWalk(after, o.price, o.quantity)
        BY <3>2, <4>1, <4>2 DEF WalkStep, OpenWalk, ShutWalk
      <4> QED BY <3>2, <3>4, <4>3 DEF levels, old, o, after, w
    <3> QED BY <3>3, <3>4
  <2>4. L(b, k) = L(b, k - 1)  BY <1>7, <2>1
  <2>5. CASE b = D
    <3>1. ~ (r <= D) /\ b >= D  BY <1>2, <1>13, <2>5
    <3>2. sums[D][k] = sums[D][k - 1]  BY <1>3, <2>1, <2>5
    <3> QED BY <1>5, <1>6, <1>13, <2>3, <2>4, <2>5, <3>1, <3>2 DEF W
  <2>6. CASE b < D
    <3>1. r <= D /\ ~ (b >= D) /\ r - 1 = b /\ b <= D  BY <1>2, <1>13, <2>6
    <3>2. Wrap(sums[r][k]) = q
      <4>1. sums[r][k] = 0 + q  BY <1>2, <1>3, <2>1
      <4>2. q % QuantityLimit = q  BY <1>4
      <4> QED BY <1>4, <4>1, <4>2 DEF Wrap
    <3> QED BY <1>5, <1>6, <1>13, <2>3, <2>4, <3>1, <3>2 DEF W
  <2> QED BY <1>2, <1>13, <2>5, <2>6
<1>14. CASE D # 0 /\ b # 0 /\ ~ (b <= D)
  <2>1. ~ (r <= D) /\ D \in 1 .. N /\ D \in 0 .. N /\ D < r  BY <1>1, <1>2, <1>14
  <2>2. Len(L(D, k - 1)) = D  BY <1>8, <2>1
  <2>3. WalkStep(ShutWalk(L(D, k - 1), s[D], Wrap(sums[D][k - 1])), book[k], D)
          = ShutWalk(L(D, k - 1), s[D], Wrap(sums[D][k - 1]))
    <3>1. Len(L(D, k - 1)) >= D  BY <2>2
    <3> QED BY <3>1, WalkEnds
  <2>4. L(D, k) = L(D, k - 1) /\ sums[D][k] = sums[D][k - 1]  BY <1>3, <1>7, <2>1
  <2> QED BY <1>5, <1>6, <1>14, <2>1, <2>3, <2>4 DEF W
<1>15. b <= D \/ ~ (b <= D)  OBVIOUS
<1>16. ASSUME r = b, b <= D PROVE r <= D  BY <1>16
<1> QED BY <1>2, <1>10, <1>11, <1>12, <1>13, <1>14, <1>16 DEF W

\* What get_book_depth shows of a sorted side: the first D levels, each with the
\* quantity of its price modulo 2^64.
ShownLevels(book, reverse, D) ==
    [j \in 1 .. Fewer(D, LevelCount(book)) |->
        Level(LevelPrices(book, reverse)[j], Wrap(QuantityAt(book, LevelPrices(book, reverse)[j])))]

\* The walk over a sorted side ends with those levels, by induction on the orders.
LEMMA LadderLevels ==
    ASSUME NEW P \in SUBSET Int, NEW side, NEW book \in Seq(Priced(P, side)),
           NEW reverse \in BOOLEAN, SortedBy(book, reverse),
           \A i \in 1 .. Len(book) : book[i].quantity < QuantityLimit,
           NEW D \in Nat
    PROVE  Ladder(book, D) = ShownLevels(book, reverse, D)
<1>1. PICK at : IsLevelMap(book, reverse, at)  BY LevelsOfBook
<1>2. PICK sums : AreLevelSums(book, reverse, at, sums)  BY <1>1, LevelSums
<1> DEFINE n == Len(book)
           N == LevelCount(book)
           s == LevelPrices(book, reverse)
           W(k) == Walked(book, reverse, at, sums, D, k)
           start == [levels |-> <<>>, open |-> FALSE, price |-> 0, qty |-> 0]
           Body(h) == [k \in 0 .. n |-> IF k = 0 THEN start ELSE WalkStep(h[k - 1], book[k], D)]
           walk == CHOOSE h : h = Body(h)
           hw == [k \in 0 .. n |-> W(k)]
<1>3. n \in Nat /\ N \in Nat /\ N <= n /\ n \in 0 .. n /\ (n > 0 => N > 0)  BY LevelsOfBook
<1>4. W(0) = start  BY DEF Walked, ShutWalk
<1>5. \A k \in 1 .. n : W(k) = WalkStep(W(k - 1), book[k], D)
  BY <1>1, <1>2, WalkedOn
<1> HIDE DEF W, start
<1>6. hw = Body(hw)
  <2>1. \A k \in 0 .. n : k # 0 => k \in 1 .. n /\ k - 1 \in 0 .. n  BY <1>3
  <2>2. \A k \in 0 .. n : hw[k] = W(k)  OBVIOUS
  <2> HIDE DEF hw
  <2>3. \A k \in 0 .. n : W(k) = IF k = 0 THEN start ELSE WalkStep(hw[k - 1], book[k], D)
    BY <1>4, <1>5, <2>1, <2>2
  <2> QED BY <2>2, <2>3 DEF hw
<1>7. walk = Body(walk)
  <2>1. \E h : h = Body(h)  BY <1>6
  <2> QED BY <2>1
<1> HIDE DEF walk
<1>8. \A k \in 0 .. n : walk[k] = IF k = 0 THEN start ELSE WalkStep(walk[k - 1], book[k], D)
  BY <1>7
<1>9. walk[n] = W(n)
  <2> DEFINE T == {k \in 0 .. n : walk[k] # W(k)}
  <2>1. ASSUME T # {} PROVE FALSE
    <3>1. T \in SUBSET Nat  BY <1>3
    <3>2. PICK k \in T : \A l \in T : k <= l  BY <2>1, <3>1, LeastNumber
    <3>3. k \in 0 .. n /\ walk[k] # W(k)  BY <3>2
    <3>4. k # 0  BY <1>3, <1>4, <1>8, <3>3
    <3>5. k \in 1 .. n /\ k - 1 \in 0 .. n /\ ~ (k <= k - 1)  BY <1>3, <3>3, <3>4
    <3>6. walk[k - 1] = W(k - 1)  BY <3>2, <3>5
    <3>7. walk[k] = WalkStep(W(k - 1), book[k], D)  BY <1>8, <3>3, <3>4, <3>6
    <3> QED BY <1>5, <3>3, <3>5, <3>7
  <2> QED BY <1>3, <2>1
<1>10. Ladder(book, D) = Closed(walk[n])
  BY DEF Ladder, walk, start
<1>11. \A j \in 1 .. N : sums[j][n] = QuantityAt(book, s[j])
  BY <1>2 DEF AreLevelSums
<1>12. \A m \in 0 .. N : FirstLevels(book, reverse, sums, m, n)
                           = [j \in 1 .. m |-> Level(s[j], Wrap(QuantityAt(book, s[j])))]
  <2> TAKE m \in 0 .. N
  <2>1. \A j \in 1 .. m : j \in 1 .. N  BY <1>3
  <2> HIDE DEF n, N, s
  <2> QED BY <1>11, <2>1 DEF FirstLevels, n, s
<1>13. Closed(W(n)) = FirstLevels(book, reverse, sums, Fewer(D, N), n)
  <2>1. CASE n = 0 \/ D = 0
    <3>1. W(n) = ShutWalk(<<>>, 0, 0)  BY <2>1 DEF W, Walked
    <3>2. Closed(W(n)) = <<>>
      <4> HIDE DEF W
      <4> QED BY <3>1 DEF ShutWalk, Closed
    <3>3. Fewer(D, N) = 0
      <4>1. n = 0 => N = 0  BY <1>3
      <4> QED BY <1>3, <2>1, <4>1 DEF Fewer
    <3> QED BY <3>2, <3>3 DEF FirstLevels
  <2>2. CASE n # 0 /\ D # 0
    <3>1. at[n] = N /\ N > 0  BY <1>1, <1>3, <2>2, LevelsInTurn
    <3>2. CASE N <= D
      <4>1. W(n) = OpenWalk(FirstLevels(book, reverse, sums, N - 1, n), s[N], Wrap(sums[N][n]))
        BY <1>3, <2>2, <3>1, <3>2 DEF W, Walked
      <4>2. Closed(W(n)) = Append(FirstLevels(book, reverse, sums, N - 1, n),
                                  Level(s[N], Wrap(sums[N][n])))
        <5> HIDE DEF s, n, N
        <5> QED BY <4>1 DEF OpenWalk, Closed
      <4>3. N \in 0 .. LevelCount(book) /\ n \in 0 .. Len(book)  BY <1>3
      <4>4. Closed(W(n)) = FirstLevels(book, reverse, sums, N, n)
        BY <1>1, <1>2, <3>1, <4>2, <4>3, FirstLevelsAre
      <4>5. Fewer(D, N) = N  BY <1>3, <3>2 DEF Fewer
      <4> QED BY <4>4, <4>5
    <3>3. CASE ~ (N <= D)
      <4>1. W(n) = ShutWalk(FirstLevels(book, reverse, sums, D, n), s[D], Wrap(sums[D][n]))
        BY <1>3, <2>2, <3>1, <3>3 DEF W, Walked
      <4>2. Closed(W(n)) = FirstLevels(book, reverse, sums, D, n)
        <5> HIDE DEF s, n, N
        <5> QED BY <4>1 DEF ShutWalk, Closed
      <4>3. Fewer(D, N) = D  BY <1>3, <3>3 DEF Fewer
      <4> QED BY <4>2, <4>3
    <3> QED BY <3>2, <3>3
  <2> QED BY <2>1, <2>2
<1>14. Fewer(D, N) \in 0 .. N  BY <1>3 DEF Fewer
<1> QED BY <1>9, <1>10, <1>12, <1>13, <1>14 DEF ShownLevels

----------------------------------------------------------------------------
\* The two depth functions agree

\* The two depth functions agree on a sorted side.
LEMMA SortedLevelsAre ==
    ASSUME NEW P \in SUBSET Int, NEW side, NEW book \in Seq(Priced(P, side)),
           NEW reverse \in BOOLEAN
    PROVE  /\ SortedLevels(book, reverse)
                = [j \in 1 .. LevelCount(book) |->
                      Level(LevelPrices(book, reverse)[j],
                            QuantityAt(book, LevelPrices(book, reverse)[j]))]
           /\ Len(SortedLevels(book, reverse)) = LevelCount(book)
           /\ \A j \in 1 .. LevelCount(book) :
                 QuantityAt(book, LevelPrices(book, reverse)[j]) \in Nat
<1> DEFINE N == LevelCount(book)
           s == LevelPrices(book, reverse)
           S == SortedLevels(book, reverse)
<1>1. /\ N \in Nat /\ s \in [1 .. N -> PricesOf(book)]
      /\ \A j \in 1 .. N : s[j] \in Int
      /\ \E at : IsLevelMap(book, reverse, at)
  BY LevelsOfBook
<1>2. PICK at : IsLevelMap(book, reverse, at)  BY <1>1
<1>3. ASSUME NEW j \in 1 .. N PROVE QuantityAt(book, s[j]) \in Nat
  <2>1. /\ Labelled(Held(book), at, j) \in Seq(Nat)
        /\ QuantityAt(book, LevelPrices(book, reverse)[j]) = SumOf(Labelled(Held(book), at, j))
    BY <1>2, LevelQuantity
  <2>2. SumOf(Labelled(Held(book), at, j)) \in Nat  BY <2>1, SumIsNat
  <2> QED BY <2>1, <2>2
<1> HIDE DEF N
<1>4. S = [j \in 1 .. N |-> Level(s[j], QuantityAt(book, s[j]))]
  <2>1. DOMAIN s = 1 .. N /\ \A j \in 1 .. N : s[j] \in PricesOf(book)  BY <1>1
  <2>2. \A j \in 1 .. N : depth_by_price(book)[s[j]] = QuantityAt(book, s[j])
    BY <2>1 DEF depth_by_price
  <2>3. S = [j \in DOMAIN s |-> Level(s[j], depth_by_price(book)[s[j]])]
    BY DEF SortedLevels, LevelPrices
  <2> HIDE DEF S, s
  <2> QED BY <2>1, <2>2, <2>3
<1>5. S \in [1 .. N -> [price: Int, qty: Int]]
  <2>1. \A j \in 1 .. N : Level(s[j], QuantityAt(book, s[j])) \in [price: Int, qty: Int]
    BY <1>1, <1>3 DEF Level
  <2> HIDE DEF S, s
  <2> QED BY <1>4, <2>1
<1> HIDE DEF S
<1>6. Len(S) = N  BY <1>1, <1>5, SequenceOf
<1> QED BY <1>3, <1>4, <1>6 DEF N, S

\* The dict, sorted and cut to D levels, gives the same without the modulus.
LEMMA SlicesAre ==
    ASSUME NEW P \in SUBSET Int, NEW side, NEW book \in Seq(Priced(P, side)),
           NEW reverse \in BOOLEAN, NEW D \in Nat
    PROVE  Slice(SortedLevels(book, reverse), D)
             = [j \in 1 .. Fewer(D, LevelCount(book)) |->
                      Level(LevelPrices(book, reverse)[j],
                            QuantityAt(book, LevelPrices(book, reverse)[j]))]
<1> DEFINE N == LevelCount(book)
           s == LevelPrices(book, reverse)
           S == SortedLevels(book, reverse)
           m == Fewer(D, N)
<1>1. /\ N \in Nat /\ Len(S) = N
      /\ S = [j \in 1 .. N |-> Level(s[j], QuantityAt(book, s[j]))]
      /\ \A j \in 1 .. N : s[j] \in Int /\ QuantityAt(book, s[j]) \in Nat
  BY LevelsOfBook, SortedLevelsAre
<1>2. m \in 0 .. N  BY <1>1 DEF Fewer
<1> HIDE DEF N, S, s
<1>3. S \in Seq([price: Int, qty: Int])
  <2>1. \A j \in 1 .. N : Level(s[j], QuantityAt(book, s[j])) \in [price: Int, qty: Int]
    BY <1>1 DEF Level
  <2>2. S \in [1 .. N -> [price: Int, qty: Int]]  BY <1>1, <2>1
  <2> QED BY <1>1, <2>2, SequenceOf
<1>4. Slice(S, D) = SubSeq(S, 1, m)  BY <1>1 DEF Slice, Fewer
<1> HIDE DEF m
<1>5. SubSeq(S, 1, m) = [j \in 1 .. m |-> S[j]]
  <2>1. 1 \in Int /\ m \in Int /\ m \in Nat /\ \A i \in 1 .. m : S[i] \in [price: Int, qty: Int]
    <3>1. \A i \in 1 .. m : i \in 1 .. N  BY <1>1, <1>2
    <3>2. \A i \in 1 .. N : Level(s[i], QuantityAt(book, s[i])) \in [price: Int, qty: Int]
      BY <1>1 DEF Level
    <3> QED BY <1>1, <1>2, <3>1, <3>2
  <2>2. /\ SubSeq(S, 1, m) \in Seq([price: Int, qty: Int])
        /\ Len(SubSeq(S, 1, m)) = m
        /\ \A i \in 1 .. m : SubSeq(S, 1, m)[i] = S[1 + i - 1]
    BY <1>3, <2>1, SubSeqProperties
  <2>3. \A i \in 1 .. m : SubSeq(S, 1, m)[i] = S[i]
    <3>1. \A i \in 1 .. m : 1 + i - 1 = i  BY <2>1
    <3> QED BY <2>2, <3>1
  <2>4. /\ [j \in 1 .. m |-> S[j]] \in Seq([price: Int, qty: Int])
        /\ Len([j \in 1 .. m |-> S[j]]) = m
    <3>1. [j \in 1 .. m |-> S[j]] \in [1 .. m -> [price: Int, qty: Int]]  BY <2>1
    <3> QED BY <2>1, <3>1, SequenceOf
  <2> QED BY <2>2, <2>3, <2>4, SeqEqual
<1>6. \A j \in 1 .. m : S[j] = Level(s[j], QuantityAt(book, s[j]))
  <2>1. \A i \in 1 .. m : i \in 1 .. N  BY <1>1, <1>2
  <2> QED BY <1>1, <2>1
<1> QED BY <1>4, <1>5, <1>6 DEF m, s, S, N

\* So the two depth functions, and what the monitor shows, agree on a sorted side.
LEMMA ViewsOfSide ==
    ASSUME NEW P \in SUBSET Int, NEW side, NEW book \in Seq(Priced(P, side)),
           NEW reverse \in BOOLEAN, SortedBy(book, reverse),
           \A i \in 1 .. Len(book) : book[i].quantity < QuantityLimit,
           NEW D \in Nat
    PROVE  /\ Ladder(book, D) = Wrapped(Slice(SortedLevels(book, reverse), D))
           /\ Slice(Ladder(book, D), D) = Ladder(book, D)
           /\ Len(Ladder(book, D)) = Fewer(D, Cardinality(PricesOf(book)))
           /\ D > 0 => FirstPrice(book) = FirstPrice(Ladder(book, D))
<1> DEFINE N == LevelCount(book)
           n == Len(book)
           s == LevelPrices(book, reverse)
           m == Fewer(D, N)
           E(j) == Level(s[j], QuantityAt(book, s[j]))
           R(j) == Level(s[j], Wrap(QuantityAt(book, s[j])))
           L == [j \in 1 .. m |-> R(j)]
           T == [price: Int, qty: Int]
<1>1. /\ N \in Nat /\ n \in Nat /\ N <= n /\ (n > 0 => N > 0)
      /\ \A j \in 1 .. N : s[j] \in Int /\ QuantityAt(book, s[j]) \in Nat
  BY LevelsOfBook, SortedLevelsAre
<1>2. m \in 0 .. N /\ m <= D /\ m \in Nat  BY <1>1 DEF Fewer
<1>3. Slice(SortedLevels(book, reverse), D) = [j \in 1 .. m |-> E(j)]  BY SlicesAre
<1>4. Ladder(book, D) = L  BY LadderLevels DEF ShownLevels
<1>5. \A j \in 1 .. m : j \in 1 .. N  BY <1>1, <1>2
<1>7. ASSUME NEW p, NEW q PROVE [Level(p, q) EXCEPT !.qty = Wrap(@)] = Level(p, Wrap(q))
  BY DEF Level
<1>8. Wrapped([j \in 1 .. m |-> E(j)]) = L
  <2> DEFINE F == [j \in 1 .. m |-> E(j)]
  <2>1. DOMAIN F = 1 .. m /\ \A j \in 1 .. m : F[j] = E(j)  OBVIOUS
  <2>2. \A j \in 1 .. m : [F[j] EXCEPT !.qty = Wrap(@)] = R(j)  BY <1>7, <2>1
  <2> HIDE DEF F
  <2>3. Wrapped(F) = [j \in 1 .. m |-> [F[j] EXCEPT !.qty = Wrap(@)]]  BY <2>1 DEF Wrapped
  <2>4. Wrapped(F) = L  BY <2>2, <2>3
  <2> QED BY <2>4 DEF F
<1>9. L \in [1 .. m -> T]
  <2>1. ASSUME NEW j \in 1 .. m PROVE R(j) \in T
    <3>1. QuantityAt(book, s[j]) \in Nat /\ s[j] \in Int  BY <1>1, <1>5
    <3>2. Wrap(QuantityAt(book, s[j])) \in Int  BY <3>1, EngineViewsAssumption DEF Wrap
    <3> QED BY <3>1, <3>2 DEF Level
  <2> HIDE DEF R, T
  <2> QED BY <2>1
<1>10. \A j \in 1 .. m : L[j] = R(j)  OBVIOUS
<1> HIDE DEF L
<1>11. L \in Seq(T) /\ Len(L) = m  BY <1>2, <1>9, SequenceOf
<1>12. Slice(L, D) = L
  <2>1. (IF D < Len(L) THEN D ELSE Len(L)) = m  BY <1>2, <1>11
  <2>2. Slice(L, D) = SubSeq(L, 1, m)  BY <2>1 DEF Slice
  <2>3. \A i \in 1 .. m : L[i] \in T  BY <1>9
  <2> HIDE DEF T, m
  <2>4. 1 \in Int /\ m \in Int  BY <1>2
  <2>5. /\ SubSeq(L, 1, m) \in Seq(T) /\ Len(SubSeq(L, 1, m)) = m
        /\ \A i \in 1 .. m : SubSeq(L, 1, m)[i] = L[1 + i - 1]
    BY <1>2, <1>11, <2>3, <2>4, SubSeqProperties
  <2>6. \A i \in 1 .. m : SubSeq(L, 1, m)[i] = L[i]
    <3>1. \A i \in 1 .. m : 1 + i - 1 = i  BY <1>2
    <3> QED BY <2>5, <3>1
  <2>7. SubSeq(L, 1, m) = L  BY <1>11, <2>5, <2>6, SeqEqual
  <2> QED BY <2>2, <2>7
<1>13. ASSUME D > 0 PROVE FirstPrice(book) = FirstPrice(L)
  <2>1. CASE n = 0
    <3>1. m = 0  BY <1>1, <1>2, <2>1
    <3>2. book = <<>> /\ L = <<>>  BY <1>11, <2>1, <3>1, EmptySeq
    <3> QED BY <3>2 DEF FirstPrice
  <2>2. CASE n > 0
    <3>1. m > 0 /\ 1 \in 1 .. m /\ 1 \in 1 .. n  BY <1>1, <1>2, <1>13, <2>2 DEF Fewer
    <3>2. book # <<>> /\ L # <<>>  BY <1>11, <2>2, <3>1, EmptySeq
    <3>3. PICK at : IsLevelMap(book, reverse, at)  BY LevelsOfBook
    <3>4. at[1] = 1  BY <2>2, <3>3, LevelsInTurn
    <3>5. s[1] = book[1].price  BY <3>1, <3>3, <3>4 DEF IsLevelMap
    <3>6. L[1].price = s[1]
      <4>1. L[1] = R(1)  BY <1>10, <3>1
      <4> HIDE DEF s
      <4> QED BY <4>1 DEF Level
    <3> QED BY <3>2, <3>5, <3>6 DEF FirstPrice
  <2> QED BY <1>1, <2>1, <2>2
<1> QED BY <1>3, <1>4, <1>8, <1>11, <1>12, <1>13 DEF LevelCount

\* Every quantity is one that a caller could have given.
Small(book) == \A i \in 1 .. Len(book) : book[i].quantity < QuantityLimit
SmallQuantities ==
    /\ Small(buy_orders) /\ Small(sell_orders)
    /\ pc = "match" => order.quantity < QuantityLimit

VInv == IInv /\ SmallQuantities

LEMMA SmallReduced ==
    ASSUME NEW P \in SUBSET Int, NEW side \in {BUY, SELL}, NEW book \in Seq(Priced(P, side)),
           book # <<>>, NEW q \in Nat \ {0}, q <= book[1].quantity, Small(book)
    PROVE  Small(Reduced(book, q))
<1> DEFINE T == Priced(P, side)
<1>0. /\ Len(book) \in Nat \ {0} /\ book[1] \in T
      /\ \A i \in 1 .. Len(book) : book[i] \in T
  BY LenProperties, EmptySeq
<1>1. CASE book[1].quantity = q
  <2>1. Reduced(book, q) = Tail(book)  BY <1>1 DEF Reduced
  <2>2. /\ Len(Tail(book)) = Len(book) - 1
        /\ \A i \in 1 .. Len(book) - 1 : Tail(book)[i] = book[i + 1]
    <3> HIDE DEF T
    <3>1. book \in Seq(T) BY DEF T
    <3> QED BY <3>1, HeadTailProperties
  <2>3. \A i \in 1 .. Len(book) - 1 : i + 1 \in 1 .. Len(book)  BY <1>0
  <2> QED BY <2>1, <2>2, <2>3 DEF Small
<1>2. CASE book[1].quantity # q
  <2> DEFINE r == [book[1] EXCEPT !.quantity = book[1].quantity - q]
  <2>1. Reduced(book, q) = [book EXCEPT ![1] = r]  BY <1>2 DEF Reduced
  <2>2. /\ book[1].quantity \in Nat \ {0} /\ QuantityLimit \in Nat
        /\ book[1].quantity < QuantityLimit
    BY <1>0, EngineViewsAssumption DEF Priced, Small
  <2>3. r \in T /\ r.quantity < QuantityLimit
    <3>1. r.quantity = book[1].quantity - q  BY <1>0 DEF Priced
    <3>2. book[1].quantity - q \in Nat \ {0} /\ book[1].quantity - q < QuantityLimit
      BY <1>2, <2>2
    <3> QED BY <1>0, <3>1, <3>2 DEF Priced
  <2>4. /\ Len([book EXCEPT ![1] = r]) = Len(book)
        /\ \A i \in 1 .. Len(book) : [book EXCEPT ![1] = r][i] = IF i = 1 THEN r ELSE book[i]
    <3>1. 1 \in 1 .. Len(book)  BY <1>0
    <3> HIDE DEF T, r
    <3>2. book \in Seq(T) BY DEF T
    <3> QED BY <2>3, <3>1, <3>2, ExceptSeq
  <2> HIDE DEF r
  <2>5. \A i \in 1 .. Len(book) : [book EXCEPT ![1] = r][i].quantity < QuantityLimit
    BY <2>3, <2>4 DEF Small
  <2> QED BY <2>1, <2>4, <2>5 DEF Small
<1> QED BY <1>1, <1>2

LEMMA SmallInserted ==
    ASSUME NEW S, NEW book \in Seq(S), NEW p \in 1 .. Len(book) + 1, NEW e \in S,
           Small(book), e.quantity < QuantityLimit
    PROVE  Small(InsertAt(book, p, e))
<1> DEFINE new == InsertAt(book, p, e)
<1>1. IsDrawnFrom(book, e, new)  BY InsertAtElements
<1> HIDE DEF new
<1>2. \A i \in 1 .. Len(new) : new[i].quantity < QuantityLimit
  BY <1>1 DEF IsDrawnFrom, Small
<1> QED BY <1>2 DEF Small, new

\* The calls keep every quantity below the limit: they only take from it.
LEMMA NextVInv == VInv /\ [Next]_vars => VInv'
<1> SUFFICES ASSUME VInv, [Next]_vars PROVE VInv'
  OBVIOUS
<1>0. IInv /\ SmallQuantities  BY DEF VInv
<1>1. IInv'  BY <1>0, NextIInv
<1>2. /\ Nat \ {0} \in SUBSET Int
      /\ buy_orders  \in Seq(Priced(Nat \ {0}, BUY))
      /\ sell_orders \in Seq(Priced(Nat \ {0}, SELL))
  BY <1>0, RestingPrices DEF IInv, TypeOK
<1>3. ASSUME UNCHANGED books, pc' = "match" => UNCHANGED <<pc, order>> PROVE VInv'
  BY <1>0, <1>1, <1>3 DEF VInv, SmallQuantities, Small, books
<1>4. CASE AddOrder \/ BatchMember
  <2>1. PICK in \in Inputs : Refuse(in) \/ CountLimit(in) \/ Begin(in)
    BY <1>4 DEF AddOrder, BatchMember
  <2>2. CASE Refuse(in) \/ CountLimit(in)
    BY <2>2, <1>3 DEF Refuse, CountLimit, Raise
  <2>3. CASE Begin(in)
    <3>1. order'.quantity = in.quantity /\ UNCHANGED books  BY <2>3 DEF Begin
    <3>2. in.quantity < QuantityLimit  BY EngineViewsAssumption
    <3> QED BY <1>0, <1>1, <3>1, <3>2 DEF VInv, SmallQuantities, Small, books
  <2> QED BY <2>1, <2>2, <2>3
<1>5. CASE BatchStart \/ BatchReturn \/ OutOfMemory
  BY <1>3, <1>5 DEF BatchStart, BatchReturn, OutOfMemory, Raise
<1>6. ASSUME NEW best, best.quantity \in Nat \ {0}, pc = "match", order.quantity > 0,
             NEW q, q = MatchedQuantity(order, best),
             order' = [order EXCEPT !.quantity = @ - q]
      PROVE  order'.quantity < QuantityLimit /\ q \in Nat \ {0} /\ q <= best.quantity
  <2>1. order \in OrderType /\ order.quantity \in Nat \ {0}
    BY <1>0, <1>6, MatchingOrder DEF IInv, OrderType
  <2>2. q \in Nat \ {0} /\ q <= order.quantity /\ q <= best.quantity
    BY <1>6, <2>1, MatchedQuantityProperties
  <2>3. order'.quantity = order.quantity - q  BY <1>6, <2>1 DEF OrderType
  <2>4. order.quantity < QuantityLimit  BY <1>0, <1>6 DEF SmallQuantities
  <2>5. order.quantity - q < QuantityLimit  BY <2>1, <2>2, <2>4, EngineViewsAssumption
  <2> QED BY <2>2, <2>3, <2>5
<1>7. CASE MatchBuy
  <2> DEFINE best == sell_orders[1]
             q == MatchedQuantity(order, best)
  <2>1. /\ pc = "match" /\ order.quantity > 0 /\ sell_orders # <<>>
        /\ order' = [order EXCEPT !.quantity = @ - q]
        /\ sell_orders' = Reduced(sell_orders, q)
        /\ UNCHANGED <<buy_orders, pc>>
    BY <1>7 DEF MatchBuy, Matchable
  <2>2. best.quantity \in Nat \ {0}  BY <1>2, <2>1, Elements, PricedFields
  <2>3. order'.quantity < QuantityLimit /\ q \in Nat \ {0} /\ q <= best.quantity
    <3> HIDE DEF best, q
    <3>1. q = MatchedQuantity(order, best)  BY DEF q
    <3> QED BY <1>6, <2>1, <2>2, <3>1
  <2>4. Small(sell_orders')
    <3>1. Small(sell_orders)  BY <1>0 DEF SmallQuantities
    <3> HIDE DEF q
    <3> QED BY <1>2, <2>1, <2>3, <3>1, SmallReduced
  <2> QED BY <1>0, <1>1, <2>1, <2>3, <2>4 DEF VInv, SmallQuantities, Small
<1>8. CASE MatchSell
  <2> DEFINE best == buy_orders[1]
             q == MatchedQuantity(order, best)
  <2>1. /\ pc = "match" /\ order.quantity > 0 /\ buy_orders # <<>>
        /\ order' = [order EXCEPT !.quantity = @ - q]
        /\ buy_orders' = Reduced(buy_orders, q)
        /\ UNCHANGED <<sell_orders, pc>>
    BY <1>8 DEF MatchSell, Matchable, BUY, SELL
  <2>2. best.quantity \in Nat \ {0}  BY <1>2, <2>1, Elements, PricedFields
  <2>3. order'.quantity < QuantityLimit /\ q \in Nat \ {0} /\ q <= best.quantity
    <3> HIDE DEF best, q
    <3>1. q = MatchedQuantity(order, best)  BY DEF q
    <3> QED BY <1>6, <2>1, <2>2, <3>1
  <2>4. Small(buy_orders')
    <3>1. Small(buy_orders)  BY <1>0 DEF SmallQuantities
    <3> HIDE DEF q
    <3> QED BY <1>2, <2>1, <2>3, <3>1, SmallReduced
  <2> QED BY <1>0, <1>1, <2>1, <2>3, <2>4 DEF VInv, SmallQuantities, Small
<1>9. CASE Filled
  <2>1. pc' # "match" /\ UNCHANGED books  BY <1>9 DEF Filled, Finish
  <2> QED BY <1>3, <2>1
<1>10. ASSUME InsertBuy \/ InsertSell
       PROVE  pc = "match" /\ pc' # "match" /\ order.quantity < QuantityLimit
              /\ order \in Priced(Nat \ {0}, order.side)
  <2>1. pc = "match" /\ pc' # "match" /\ order.quantity > 0
    BY <1>10 DEF InsertBuy, InsertSell, Finish
  <2> QED BY <1>0, <2>1, RestingPrices, MatchingOrder DEF IInv, SmallQuantities
<1>11. CASE InsertBuy
  <2>1. order.side = BUY /\ UNCHANGED sell_orders  BY <1>11 DEF InsertBuy
  <2>2. PICK p \in 1 .. Len(buy_orders) + 1 : buy_orders' = InsertAt(buy_orders, p, order)
    BY <1>11 DEF InsertBuy
  <2>3. Small(buy_orders')
    <3>1. Small(buy_orders)  BY <1>0 DEF SmallQuantities
    <3> QED BY <1>2, <1>10, <1>11, <2>1, <2>2, <3>1, SmallInserted
  <2> QED BY <1>0, <1>1, <1>10, <1>11, <2>1, <2>3 DEF VInv, SmallQuantities, Small
<1>12. CASE InsertSell
  <2>1. order.side = SELL /\ UNCHANGED buy_orders  BY <1>12 DEF InsertSell
  <2>2. PICK p \in 1 .. Len(sell_orders) + 1 : sell_orders' = InsertAt(sell_orders, p, order)
    BY <1>12 DEF InsertSell
  <2>3. Small(sell_orders')
    <3>1. Small(sell_orders)  BY <1>0 DEF SmallQuantities
    <3> QED BY <1>2, <1>10, <1>12, <2>1, <2>2, <3>1, SmallInserted
  <2> QED BY <1>0, <1>1, <1>10, <1>12, <2>1, <2>3 DEF VInv, SmallQuantities, Small
<1>13. CASE UNCHANGED vars
  BY <1>3, <1>13 DEF vars, control
<1> QED BY <1>4, <1>5, <1>7, <1>8, <1>9, <1>11, <1>12, <1>13 DEF Next

LEMMA TopFields ==
    ASSUME NEW snapshot, NEW d, NEW a, NEW b, NEW c1, NEW c2, NEW c3, NEW c4, NEW D,
           d = [bid_levels |-> a, ask_levels |-> b, total_bid_qty |-> c1, total_ask_qty |-> c2,
                bid_order_count |-> c3, ask_order_count |-> c4]
    PROVE  /\ get_top_of_book(snapshot, d, D).prices = TopPrices(snapshot[1], snapshot[2])
           /\ get_top_of_book(snapshot, d, D).depth.bid_levels = Slice(a, D)
           /\ get_top_of_book(snapshot, d, D).depth.ask_levels = Slice(b, D)
<1> DEFINE t == [d EXCEPT !.bid_levels = Slice(@, D), !.ask_levels = Slice(@, D)]
<1>1. t.bid_levels = Slice(a, D) /\ t.ask_levels = Slice(b, D)  OBVIOUS
<1> HIDE DEF t
<1> QED BY <1>1 DEF get_top_of_book, t

\* Priority order on a side sorts its prices, buys downwards and sells upwards.
LEMMA SideOrders ==
    ASSUME NEW P \in SUBSET Int, NEW side \in {BUY, SELL}, NEW book \in Seq(Priced(P, side)),
           InPriorityOrder(book)
    PROVE  SortedBy(book, side = BUY)
<1>1. ASSUME NEW i \in 1 .. Len(book), NEW j \in 1 .. Len(book), i < j
      PROVE  ~ ComesBefore(book[j].price, book[i].price, side = BUY)
  <2>1. HasPriority(book[i], book[j])  BY <1>1 DEF InPriorityOrder
  <2>2. book[i] \in Priced(P, side) /\ book[j] \in Priced(P, side)  BY ElementOfSeq
  <2>3. book[i].side = side /\ book[i].price \in Int  BY <2>2, PricedFields
  <2>4. book[j].price \in Int  BY <2>2, PricedFields
  <2> QED BY <2>1, <2>3, <2>4 DEF HasPriority, ComesBefore
<1> QED BY <1>1 DEF SortedBy

LEMMA TwoSides == (BUY = BUY) = TRUE /\ (SELL = BUY) = FALSE
BY DEF BUY, SELL

LEMMA FewerIsMin ==
    ASSUME NEW a \in Nat, NEW b \in Nat
    PROVE  Min({a, b}) = Fewer(a, b)
<1>1. Fewer(a, b) \in {a, b} /\ \A y \in {a, b} : Fewer(a, b) <= y  BY DEF Fewer
<1>2. \A x \in {a, b} : (\A y \in {a, b} : x <= y) => x = Fewer(a, b)  BY <1>1 DEF Fewer
<1> QED BY <1>1, <1>2 DEF Min

LEMMA VInvViews == VInv => ViewsAgree
<1> SUFFICES ASSUME VInv, NEW D \in 0 .. MaxDepth PROVE LadderIsExact(D) /\ TopAgrees(D)
  BY DEF ViewsAgree
<1> DEFINE BL == Ladder(buy_orders, D)
           AL == Ladder(sell_orders, D)
           top == get_top_of_book(get_order_book_snapshot(buy_orders, sell_orders),
                                  get_book_depth(buy_orders, sell_orders, D), D)
<1>1. /\ Nat \ {0} \in SUBSET Int /\ D \in Nat
      /\ buy_orders  \in Seq(Priced(Nat \ {0}, BUY))
      /\ sell_orders \in Seq(Priced(Nat \ {0}, SELL))
      /\ InPriorityOrder(buy_orders) /\ InPriorityOrder(sell_orders)
      /\ BookNotCrossed
  BY RestingPrices, EngineViewsAssumption DEF VInv, IInv, TypeOK, BooksInPriorityOrder
<1>2. SortedBy(buy_orders, TRUE) /\ SortedBy(sell_orders, FALSE)
  BY <1>1, SideOrders, TwoSides
<1>3. /\ \A i \in 1 .. Len(buy_orders)  : buy_orders[i].quantity < QuantityLimit
      /\ \A i \in 1 .. Len(sell_orders) : sell_orders[i].quantity < QuantityLimit
  BY DEF VInv, SmallQuantities, Small
<1>4. /\ BL = Wrapped(Slice(SortedLevels(buy_orders, TRUE), D))
      /\ Slice(BL, D) = BL
      /\ Len(BL) = Fewer(D, Cardinality(PricesOf(buy_orders)))
      /\ D > 0 => FirstPrice(buy_orders) = FirstPrice(BL)
  BY <1>1, <1>2, <1>3, ViewsOfSide
<1>5. /\ AL = Wrapped(Slice(SortedLevels(sell_orders, FALSE), D))
      /\ Slice(AL, D) = AL
      /\ Len(AL) = Fewer(D, Cardinality(PricesOf(sell_orders)))
      /\ D > 0 => FirstPrice(sell_orders) = FirstPrice(AL)
  BY <1>1, <1>2, <1>3, ViewsOfSide
<1>6. LadderIsExact(D)
  BY <1>4, <1>5 DEF LadderIsExact, get_book_depth, get_order_book_depth, Bids, Asks
<1>7. /\ top.prices = TopPrices(FirstPrice(buy_orders), FirstPrice(sell_orders))
      /\ top.depth.bid_levels = BL /\ top.depth.ask_levels = AL
  <2>1. /\ top.prices = TopPrices(get_order_book_snapshot(buy_orders, sell_orders)[1],
                                  get_order_book_snapshot(buy_orders, sell_orders)[2])
        /\ top.depth.bid_levels = Slice(BL, D) /\ top.depth.ask_levels = Slice(AL, D)
    BY TopFields DEF get_book_depth
  <2> QED BY <1>4, <1>5, <2>1 DEF get_order_book_snapshot
<1> HIDE DEF top, BL, AL
<1>8. ASSUME NEW b \in FirstPrice(buy_orders), NEW a \in FirstPrice(sell_orders)
      PROVE  b < a /\ a - b > 0
  <2>1. buy_orders # <<>> /\ sell_orders # <<>> /\ b = buy_orders[1].price
        /\ a = sell_orders[1].price
    BY <1>8 DEF FirstPrice
  <2>2. 1 \in 1 .. Len(buy_orders) /\ 1 \in 1 .. Len(sell_orders)
    BY <1>1, <2>1, Elements
  <2>3. a \in Int /\ b \in Int  BY <1>1, <2>1, <2>2, Elements, PricedFields
  <2>4. b < a  BY <1>1, <2>1, <2>2 DEF BookNotCrossed
  <2> QED BY <2>3, <2>4
<1>9. /\ top.prices.best_bid = FirstPrice(buy_orders)
      /\ top.prices.best_ask = FirstPrice(sell_orders)
      /\ top.prices.spread = {a - b : a \in FirstPrice(sell_orders), b \in FirstPrice(buy_orders)}
  BY <1>7 DEF TopPrices
<1>10. ~ top.prices.is_crossed
  <2>1. ~ \E b \in FirstPrice(buy_orders), a \in FirstPrice(sell_orders) : b >= a
    <3>1. \A b \in FirstPrice(buy_orders), a \in FirstPrice(sell_orders) : a \in Int /\ b \in Int
      BY <1>1, Elements, PricedFields DEF FirstPrice
    <3> QED BY <1>8, <3>1
  <2> QED BY <1>7, <2>1 DEF TopPrices
<1>11. \A s \in top.prices.spread : s > 0  BY <1>8, <1>9
<1>12. /\ Len(BL) = Min({D, Cardinality(PricesOf(buy_orders))})
       /\ Len(AL) = Min({D, Cardinality(PricesOf(sell_orders))})
  <2>1. LevelCount(buy_orders) \in Nat /\ LevelCount(sell_orders) \in Nat
    BY <1>1, LevelsOfBook
  <2> QED BY <1>1, <1>4, <1>5, <2>1, FewerIsMin DEF LevelCount
<1>13. TopAgrees(D)
  BY <1>4, <1>5, <1>7, <1>9, <1>10, <1>11, <1>12 DEF TopAgrees, top
<1> QED BY <1>6, <1>13

\* The two depth functions of the compiled engine agree for every book, every
\* depth and every limit of the sums, and the monitor's top of book shows the best
\* prices, never crossed and as many levels as there are: the walk, which only
\* compares neighbours, is right because the arrays are in priority order.
THEOREM Views == Spec => []ViewsAgree
<1>1. Init => VInv
  BY InitIInv DEF Init, VInv, SmallQuantities, Small
<1> QED BY <1>1, NextVInv, VInvViews, PTL DEF Spec

----------------------------------------------------------------------------
\* Totals of a list that changes

\* One number more at the end.
LEMMA SumOfAppend ==
    ASSUME NEW w \in Seq(Nat), NEW x \in Nat
    PROVE  SumOf(Append(w, x)) = SumOf(w) + x
<1> DEFINE v == Append(w, x)
           n == Len(w)
<1>1. /\ v \in Seq(Nat) /\ Len(v) = n + 1 /\ v[n + 1] = x
      /\ \A i \in 1 .. n : v[i] = w[i]
  BY AppendProperties
<1>2. n \in Nat /\ n + 1 \in 1 .. n + 1  BY LenProperties
<1> HIDE DEF v
<1>3. IsInsertion(w, n + 1, x, v)
  <2>1. ASSUME NEW i \in 1 .. n + 1
        PROVE  v[i] = IF i < n + 1 THEN w[i] ELSE IF i = n + 1 THEN x ELSE w[i - 1]
    <3>1. CASE i = n + 1  BY <1>1, <1>2, <3>1
    <3>2. CASE i # n + 1
      <4>1. i \in 1 .. n /\ i < n + 1  BY <1>2, <3>2
      <4> QED BY <1>1, <4>1
    <3> QED BY <3>1, <3>2
  <2> QED BY <1>1, <2>1 DEF IsInsertion
<1> QED BY <1>1, <1>2, <1>3, SumOfInsertion DEF v

\* Appending an order adds its quantity.
LEMMA TotalOfAppend ==
    ASSUME NEW P \in SUBSET Int, NEW side, NEW book \in Seq(Priced(P, side)),
           NEW o \in Priced(P, side)
    PROVE  /\ Total(Append(book, o)) = Total(book) + o.quantity
           /\ Len(Append(book, o)) = Len(book) + 1
<1> DEFINE T   == Priced(P, side)
           n   == Len(book)
           new == Append(book, o)
<1>1. /\ new \in Seq(T) /\ Len(new) = n + 1
      /\ \A i \in 1 .. n : new[i] = book[i]
      /\ new[n + 1] = o
  <2> HIDE DEF T
  <2>1. book \in Seq(T) /\ o \in T  BY DEF T
  <2> QED BY <2>1, AppendProperties
<1>2. /\ n \in Nat /\ Held(book) \in Seq(Nat) /\ Len(Held(book)) = n
      /\ \A i \in 1 .. n : Held(book)[i] = book[i].quantity
      /\ Total(book) = SumOf(Held(book))
  BY HeldQuantities
<1> HIDE DEF new
<1>3. /\ Held(new) \in Seq(Nat) /\ Len(Held(new)) = n + 1
      /\ \A i \in 1 .. n + 1 : Held(new)[i] = new[i].quantity
      /\ Total(new) = SumOf(Held(new))
  BY <1>1, HeldQuantities
<1>4. o.quantity \in Nat  BY PricedFields
<1>5. Held(new) = Append(Held(book), o.quantity)
  <2>1. /\ Append(Held(book), o.quantity) \in Seq(Nat)
        /\ Len(Append(Held(book), o.quantity)) = n + 1
        /\ \A i \in 1 .. n : Append(Held(book), o.quantity)[i] = Held(book)[i]
        /\ Append(Held(book), o.quantity)[n + 1] = o.quantity
    BY <1>2, <1>4, AppendProperties
  <2>2. \A i \in 1 .. n + 1 : i \in 1 .. n \/ i = n + 1  BY <1>2
  <2>3. \A i \in 1 .. n + 1 : Append(Held(book), o.quantity)[i] = Held(new)[i]
    BY <1>1, <1>2, <1>3, <2>1, <2>2
  <2> QED BY <1>3, <2>1, <2>3, SeqEqual
<1>6. SumOf(Held(new)) = SumOf(Held(book)) + o.quantity  BY <1>2, <1>4, <1>5, SumOfAppend
<1> QED BY <1>1, <1>2, <1>3, <1>6 DEF new

\* Taking q from the best order takes q from the total.
LEMMA TotalOfReduced ==
    ASSUME NEW P \in SUBSET Int, NEW side \in {BUY, SELL}, NEW book \in Seq(Priced(P, side)),
           book # <<>>, NEW q \in Nat \ {0}, q <= book[1].quantity
    PROVE  /\ Total(book) = Total(Reduced(book, q)) + q
           /\ Total(Reduced(book, q)) \in Nat
           /\ Len(Reduced(book, q)) <= Len(book)
<1> DEFINE T == Priced(P, side)
           n == Len(book)
           w == Held(book)
           new == Reduced(book, q)
<1>0. /\ n \in Nat \ {0} /\ book[1] \in T /\ 1 \in 1 .. n
      /\ \A i \in 1 .. n : book[i] \in T
  BY LenProperties, EmptySeq
<1>1. /\ w \in Seq(Nat) /\ Len(w) = n
      /\ \A i \in 1 .. n : w[i] = book[i].quantity
      /\ Total(book) = SumOf(w)
  BY HeldQuantities
<1>2. new \in Seq(T)  BY ReducedProperties
<1>3. /\ Held(new) \in Seq(Nat) /\ Len(Held(new)) = Len(new) /\ Len(new) \in Nat
      /\ \A i \in 1 .. Len(new) : Held(new)[i] = new[i].quantity
      /\ Total(new) = SumOf(Held(new))
  <2> HIDE DEF new
  <2> QED BY <1>2, HeldQuantities
<1>4. CASE book[1].quantity = q
  <2>1. new = Tail(book)  BY <1>4 DEF Reduced
  <2>2. /\ Len(Tail(book)) = n - 1
        /\ \A i \in 1 .. n - 1 : Tail(book)[i] = book[i + 1]
    <3> HIDE DEF T
    <3>1. book \in Seq(T) BY DEF T
    <3> QED BY <3>1, HeadTailProperties
  <2> HIDE DEF new, w
  <2>3. IsInsertion(Held(new), 1, q, w)
    <3>1. Len(w) = Len(Held(new)) + 1  BY <1>0, <1>1, <1>3, <2>1, <2>2
    <3>2. ASSUME NEW i \in 1 .. Len(Held(new)) + 1
          PROVE  w[i] = IF i < 1 THEN Held(new)[i] ELSE IF i = 1 THEN q ELSE Held(new)[i - 1]
      <4>1. i \in 1 .. n /\ ~ (i < 1)  BY <1>1, <3>1
      <4>2. CASE i = 1  BY <1>1, <1>4, <4>1, <4>2
      <4>3. CASE i # 1
        <5>1. i - 1 \in 1 .. n - 1 /\ i - 1 + 1 = i  BY <1>0, <4>1, <4>3
        <5>2. i - 1 \in 1 .. Len(new)  BY <2>1, <2>2, <5>1
        <5>3. Held(new)[i - 1] = book[i - 1 + 1].quantity  BY <1>3, <2>1, <2>2, <5>1, <5>2
        <5> QED BY <1>1, <4>1, <4>3, <5>1, <5>3
      <4> QED BY <4>2, <4>3
    <3> QED BY <3>1, <3>2 DEF IsInsertion
  <2>4. 1 \in 1 .. Len(Held(new)) + 1  BY <1>3
  <2>5. SumOf(w) = SumOf(Held(new)) + q  BY <1>1, <1>3, <2>3, <2>4, SumOfInsertion
  <2>6. Len(new) <= n  BY <1>0, <2>1, <2>2
  <2> QED BY <1>1, <1>3, <2>5, <2>6, SumIsNat DEF new
<1>5. CASE book[1].quantity # q
  <2> DEFINE r == [book[1] EXCEPT !.quantity = book[1].quantity - q]
             v == [i \in 1 .. n |-> IF i = 1 THEN q ELSE 0]
  <2>1. new = [book EXCEPT ![1] = r]  BY <1>5 DEF Reduced
  <2>2. /\ book[1].quantity \in Nat \ {0} /\ book[1].quantity - q \in Nat \ {0}
        /\ r.quantity = book[1].quantity - q
    BY <1>0, <1>5 DEF Priced
  <2>3. r \in T  BY <1>0, <2>2 DEF Priced
  <2>4. /\ Len(new) = n
        /\ \A i \in 1 .. n : new[i] = IF i = 1 THEN r ELSE book[i]
    <3> HIDE DEF T, r
    <3>2. book \in Seq(T) BY DEF T
    <3> QED BY <1>0, <2>1, <2>3, <3>2, ExceptSeq
  <2> HIDE DEF new, w, r
  <2>5. v \in Seq(Nat) /\ Len(v) = n
    <3>1. v \in [1 .. n -> Nat]  OBVIOUS
    <3> HIDE DEF v
    <3> QED BY <1>0, <3>1, SequenceOf
  <2>6. \A i \in 1 .. n : v[i] = IF i = 1 THEN q ELSE 0  OBVIOUS
  <2> HIDE DEF v
  <2>7. SumOf(v) = q
    <3>1. 1 \in 1 .. Len(v) /\ \A k \in 1 .. Len(v) : k # 1 => v[k] = 0  BY <1>0, <2>5, <2>6
    <3>2. SumOf(v) = v[1]  BY <2>5, <3>1, SumOfOne
    <3> QED BY <1>0, <2>6, <3>2
  <2>8. ASSUME NEW i \in 1 .. n PROVE w[i] = Held(new)[i] + v[i]
    <3>1. Held(new)[i] = new[i].quantity /\ w[i] = book[i].quantity  BY <1>1, <1>3, <2>4
    <3>2. CASE i = 1
      <4>1. Held(new)[i] = book[1].quantity - q /\ v[i] = q /\ w[i] = book[1].quantity
        BY <2>2, <2>4, <2>6, <3>1, <3>2
      <4> QED BY <2>2, <4>1
    <3>3. CASE i # 1
      <4>1. Held(new)[i] = book[i].quantity /\ v[i] = 0  BY <2>4, <2>6, <3>1, <3>3
      <4>2. w[i] \in Nat  BY <1>1, ElementOfSeq
      <4> QED BY <3>1, <4>1, <4>2
    <3> QED BY <3>2, <3>3
  <2>9. SumOf(w) = SumOf(Held(new)) + SumOf(v)
    BY <1>1, <1>3, <2>4, <2>5, <2>8, SumOfSums
  <2> QED BY <1>0, <1>1, <1>3, <2>4, <2>7, <2>9, SumIsNat DEF new
<1> QED BY <1>4, <1>5

\* Sorting a list neither adds nor loses quantity.
LEMMA TotalOfSorted ==
    ASSUME NEW P \in SUBSET Int, NEW side \in {BUY, SELL}, NEW book \in Seq(Priced(P, side)),
           TiesAsArrived(book)
    PROVE  /\ Total(Python!StableSort(book)) = Total(book)
           /\ Len(Python!StableSort(book)) = Len(book)
<1> DEFINE n == Len(book)
           T == Priced(P, side)
           w == Held(book)
           place(k) == CHOOSE i \in 1 .. n : Python!Rank(book, i) = k
           new == Python!StableSort(book)
           ranks == [i \in 1 .. n |-> Python!Rank(book, i)]
<1>1. n \in Nat /\ DOMAIN book = 1 .. n  BY LenProperties
<1>2. new = [k \in 1 .. n |-> book[place(k)]]  BY <1>1 DEF Python!StableSort
<1>3. \A k \in 1 .. n : place(k) \in 1 .. n /\ Python!Rank(book, place(k)) = k
  BY RanksArePlaces
<1>4. \A i, j \in 1 .. n : Python!Rank(book, i) = Python!Rank(book, j) => i = j
  <2>1. ASSUME NEW i \in 1 .. n, NEW j \in 1 .. n,
               Python!Rank(book, i) = Python!Rank(book, j)
        PROVE  i = j
    <3>1. Python!Rank(book, i) \in 1 .. n /\ Python!Rank(book, j) \in 1 .. n
      BY RanksArePlaces
    <3>2. /\ ~ (Python!Rank(book, i) < Python!Rank(book, j))
          /\ ~ (Python!Rank(book, j) < Python!Rank(book, i))
      BY <2>1, <3>1
    <3> QED BY <3>2, RanksArePlaces, SortIsTotalOrder
  <2> QED BY <2>1
<1> HIDE DEF place
<1>5. /\ new \in Seq(T) /\ Len(new) = n
      /\ \A k \in 1 .. n : new[k] = book[place(k)]
  <2>1. new \in Seq(T)  BY StableSortSorts
  <2>2. DOMAIN new = 1 .. n  BY <1>2
  <2>3. \A k \in 1 .. n : new[k] = book[place(k)]  BY <1>2
  <2> HIDE DEF new, T
  <2>4. Len(new) = n  BY <1>1, <2>1, <2>2, LenProperties
  <2> QED BY <2>1, <2>3, <2>4
<1> HIDE DEF new
<1>6. /\ w \in Seq(Nat) /\ Len(w) = n
      /\ \A i \in 1 .. n : w[i] = book[i].quantity /\ w[i] \in Nat
      /\ Total(book) = SumOf(w)
  BY HeldQuantities
<1>7. /\ Held(new) \in Seq(Nat) /\ Len(Held(new)) = n
      /\ \A i \in 1 .. n : Held(new)[i] = new[i].quantity
      /\ Total(new) = SumOf(Held(new))
  BY <1>5, HeldQuantities
<1>8. ranks \in [1 .. n -> 1 .. n]
  <2>1. \A i \in 1 .. n : Python!Rank(book, i) \in 1 .. n  BY RanksArePlaces
  <2> QED BY <2>1
<1>9. \A i \in 1 .. n : ranks[i] = Python!Rank(book, i)  OBVIOUS
<1> HIDE DEF ranks, w
<1>10. ASSUME NEW k \in 1 .. n PROVE Held(new)[k] = SumOf(Labelled(w, ranks, k))
  <2> DEFINE u == Labelled(w, ranks, k)
  <2>1. \A i \in 1 .. n : u[i] = IF ranks[i] = k THEN w[i] ELSE 0  BY <1>6 DEF Labelled
  <2>2. u \in [1 .. n -> Nat]
    <3>1. u = [i \in 1 .. n |-> IF ranks[i] = k THEN w[i] ELSE 0]  BY <1>6 DEF Labelled
    <3>2. \A i \in 1 .. n : (IF ranks[i] = k THEN w[i] ELSE 0) \in Nat  BY <1>6
    <3> HIDE DEF u
    <3> QED BY <3>1, <3>2
  <2> HIDE DEF u
  <2>3. u \in Seq(Nat) /\ Len(u) = n  BY <1>1, <2>2, SequenceOf
  <2>4. place(k) \in 1 .. n /\ ranks[place(k)] = k  BY <1>3, <1>9
  <2>5. \A i \in 1 .. n : i # place(k) => u[i] = 0
    <3>1. \A i \in 1 .. n : ranks[i] = k => i = place(k)  BY <1>3, <1>4, <1>9
    <3> QED BY <2>1, <3>1
  <2>6. SumOf(u) = u[place(k)]  BY <2>3, <2>4, <2>5, SumOfOne
  <2>7. u[place(k)] = book[place(k)].quantity  BY <1>6, <2>1, <2>4
  <2>8. Held(new)[k] = book[place(k)].quantity  BY <1>5, <1>7
  <2> QED BY <2>6, <2>7, <2>8 DEF u
<1>11. SumOf(Held(new)) = SumOf(w)
  <2> DEFINE v == Held(new)
  <2>1. ranks \in [1 .. Len(w) -> 1 .. n] /\ v \in Seq(Nat) /\ Len(v) = n
    BY <1>6, <1>7, <1>8
  <2>2. \A k \in 1 .. n : v[k] = SumOf(Labelled(w, ranks, k))  BY <1>10
  <2> HIDE DEF v, n, T
  <2>3. n \in Nat /\ w \in Seq(Nat)  BY <1>1, <1>6
  <2>4. \A m \in Nat : \A f \in [1 .. Len(w) -> 1 .. m] : \A u \in Seq(Nat) :
           Len(u) = m /\ (\A k \in 1 .. m : u[k] = SumOf(Labelled(w, f, k)))
           => SumOf(u) = SumOf(w)
    BY <2>3, SumByLabels
  <2>5. SumOf(v) = SumOf(w)  BY <2>1, <2>2, <2>3, <2>4
  <2> QED BY <2>5 DEF v
<1> QED BY <1>5, <1>6, <1>7, <1>11 DEF new

\* The levels of a book hold what its orders hold.
LEMMA LevelsAddUp ==
    ASSUME NEW P \in SUBSET Int, NEW side, NEW book \in Seq(Priced(P, side)),
           NEW reverse \in BOOLEAN, NEW levels, levels = SortedLevels(book, reverse)
    PROVE  SumOf([k \in DOMAIN levels |-> levels[k].qty]) = Total(book)
<1> DEFINE N == LevelCount(book)
           n == Len(book)
           s == LevelPrices(book, reverse)
           v == [k \in DOMAIN levels |-> levels[k].qty]
           w == Held(book)
<1>1. PICK at : IsLevelMap(book, reverse, at)  BY LevelsOfBook
<1>2. /\ N \in Nat
      /\ levels = [j \in 1 .. N |-> Level(s[j], QuantityAt(book, s[j]))]
      /\ \A j \in 1 .. N : QuantityAt(book, s[j]) \in Nat
  BY LevelsOfBook, SortedLevelsAre
<1>3. /\ w \in Seq(Nat) /\ Len(w) = n /\ Total(book) = SumOf(w)
  BY HeldQuantities
<1>4. at \in [1 .. n -> 1 .. N]  BY <1>1 DEF IsLevelMap
<1>5. \A j \in 1 .. N : QuantityAt(book, s[j]) = SumOf(Labelled(w, at, j))
  BY <1>1, LevelQuantity
<1> HIDE DEF N, n, s, w
<1>6. /\ DOMAIN levels = 1 .. N
      /\ \A j \in 1 .. N : levels[j].qty = QuantityAt(book, s[j])
  BY <1>2 DEF Level
<1>7. v \in [1 .. N -> Nat] /\ \A j \in 1 .. N : v[j] = QuantityAt(book, s[j])
  BY <1>2, <1>6
<1> HIDE DEF v
<1>8. v \in Seq(Nat) /\ Len(v) = N  BY <1>2, <1>7, SequenceOf
<1>9. SumOf(v) = SumOf(w)
  <2>1. at \in [1 .. Len(w) -> 1 .. N]  BY <1>3, <1>4
  <2>2. \A k \in 1 .. N : v[k] = SumOf(Labelled(w, at, k))  BY <1>5, <1>7
  <2>3. N \in Nat /\ w \in Seq(Nat)  BY <1>2, <1>3
  <2>4. \A m \in Nat : \A f \in [1 .. Len(w) -> 1 .. m] : \A u \in Seq(Nat) :
           Len(u) = m /\ (\A k \in 1 .. m : u[k] = SumOf(Labelled(w, f, k)))
           => SumOf(u) = SumOf(w)
    BY <2>3, SumByLabels
  <2> QED BY <1>8, <2>1, <2>2, <2>3, <2>4
<1> QED BY <1>3, <1>9 DEF v

\* The first of the sorted prices is the best of them all.
LEMMA BestOfPrices ==
    ASSUME NEW S \in SUBSET Int, IsFiniteSet(S), S # {}
    PROVE  /\ Cardinality(S) > 0
           /\ Max(S) = SortedPrices(S, TRUE)[1] /\ Max(S) \in S
           /\ Min(S) = SortedPrices(S, FALSE)[1] /\ Min(S) \in S
           /\ \A p \in S : Min(S) <= p /\ p <= Max(S)
<1> DEFINE n == Cardinality(S)
           u == SortedPrices(S, TRUE)
           d == SortedPrices(S, FALSE)
<1>1. /\ n \in Nat /\ u \in [1 .. n -> S] /\ d \in [1 .. n -> S]
      /\ \A k, l \in 1 .. n : k < l <=> ComesBefore(u[k], u[l], TRUE)
      /\ \A k, l \in 1 .. n : k < l <=> ComesBefore(d[k], d[l], FALSE)
      /\ \A p \in S : \E k \in 1 .. n : p = u[k]
      /\ \A p \in S : \E k \in 1 .. n : p = d[k]
  BY PricesSorted
<1> HIDE DEF n, u, d
<1>2. n > 0 /\ 1 \in 1 .. n
  <2>1. PICK p \in S : TRUE  OBVIOUS
  <2>2. PICK k \in 1 .. n : p = u[k]  BY <1>1
  <2> QED BY <1>1
<1>3. /\ u[1] \in S /\ d[1] \in S /\ u[1] \in Int /\ d[1] \in Int
      /\ \A p \in S : p \in Int
  BY <1>1, <1>2
<1>4. ASSUME NEW p \in S PROVE p <= u[1]
  <2>1. PICK k \in 1 .. n : p = u[k]  BY <1>1
  <2>2. ~ (k < 1)  OBVIOUS
  <2>3. ~ ComesBefore(u[k], u[1], TRUE)  BY <1>1, <1>2, <2>2
  <2> QED BY <1>3, <2>1, <2>3 DEF ComesBefore
<1>5. ASSUME NEW p \in S PROVE d[1] <= p
  <2>1. PICK k \in 1 .. n : p = d[k]  BY <1>1
  <2>2. ~ (k < 1)  OBVIOUS
  <2>3. ~ ComesBefore(d[k], d[1], FALSE)  BY <1>1, <1>2, <2>2
  <2> QED BY <1>3, <2>1, <2>3 DEF ComesBefore
<1>6. Max(S) = u[1]
  <2>1. \A x \in S : (\A y \in S : x >= y) => x = u[1]
    <3>1. ASSUME NEW x \in S, \A y \in S : x >= y PROVE x = u[1]
      <4>1. x >= u[1] /\ x <= u[1] /\ x \in Int  BY <1>3, <1>4, <3>1
      <4> QED BY <1>3, <4>1
    <3> QED BY <3>1
  <2>2. \A y \in S : u[1] >= y  BY <1>3, <1>4
  <2> QED BY <1>3, <2>1, <2>2 DEF Max
<1>7. Min(S) = d[1]
  <2>1. \A x \in S : (\A y \in S : x <= y) => x = d[1]
    <3>1. ASSUME NEW x \in S, \A y \in S : x <= y PROVE x = d[1]
      <4>1. x >= d[1] /\ x <= d[1] /\ x \in Int  BY <1>3, <1>5, <3>1
      <4> QED BY <1>3, <4>1
    <3> QED BY <3>1
  <2> QED BY <1>3, <1>5, <2>1 DEF Min
<1> QED BY <1>2, <1>3, <1>4, <1>5, <1>6, <1>7 DEF n, u, d

\* The tape of the Python engine.
PythonTrade == [buy_id: Nat \ {0}, sell_id: Nat \ {0}, price: Int, qty: Nat \ {0}]

LEMMA TapeNumbers ==
    ASSUME NEW tape \in Seq(PythonTrade)
    PROVE  /\ Len(tape) \in Nat /\ DOMAIN tape = 1 .. Len(tape)
           /\ \A k \in 1 .. Len(tape) : tape[k].price \in Int /\ tape[k].qty \in Nat
           /\ [k \in 1 .. Len(tape) |-> tape[k].qty] \in Seq(Nat)
           /\ Len([k \in 1 .. Len(tape) |-> tape[k].qty]) = Len(tape)
           /\ Volume(tape) = SumOf([k \in 1 .. Len(tape) |-> tape[k].qty])
           /\ Volume(tape) \in Nat
<1> DEFINE n == Len(tape)
           w == [k \in 1 .. n |-> tape[k].qty]
<1>1. n \in Nat /\ DOMAIN tape = 1 .. n  BY LenProperties
<1>2. \A k \in 1 .. n : tape[k].price \in Int /\ tape[k].qty \in Nat
  <2>1. \A k \in 1 .. n : tape[k] \in PythonTrade  BY Elements
  <2> QED BY <2>1 DEF PythonTrade
<1>3. w \in [1 .. n -> Nat]  BY <1>2
<1>4. Volume(tape) = SumOf(w)  BY <1>1 DEF Volume
<1> HIDE DEF w, n
<1>5. w \in Seq(Nat) /\ Len(w) = n  BY <1>1, <1>3, SequenceOf
<1>6. SumOf(w) \in Nat  BY <1>5, SumIsNat
<1> QED BY <1>1, <1>2, <1>4, <1>5, <1>6 DEF w, n

\* A trade adds its quantity to the volume.
LEMMA VolumeOfAppend ==
    ASSUME NEW tape \in Seq(PythonTrade), NEW t \in PythonTrade
    PROVE  /\ Append(tape, t) \in Seq(PythonTrade)
           /\ Volume(Append(tape, t)) = Volume(tape) + t.qty
<1> DEFINE n   == Len(tape)
           new == Append(tape, t)
           w   == [k \in 1 .. n |-> tape[k].qty]
           v   == [k \in 1 .. n + 1 |-> new[k].qty]
<1>1. /\ new \in Seq(PythonTrade) /\ Len(new) = n + 1
      /\ \A i \in 1 .. n : new[i] = tape[i]
      /\ new[n + 1] = t
  BY AppendProperties
<1> HIDE DEF new
<1>2. /\ n \in Nat /\ w \in Seq(Nat) /\ Len(w) = n /\ Volume(tape) = SumOf(w)
  BY TapeNumbers
<1>3. /\ v \in Seq(Nat) /\ Len(v) = n + 1 /\ Volume(new) = SumOf(v)
  BY <1>1, TapeNumbers
<1>4. t.qty \in Nat  BY DEF PythonTrade
<1>5. /\ \A i \in 1 .. n + 1 : v[i] = new[i].qty
      /\ \A i \in 1 .. n : w[i] = tape[i].qty
  OBVIOUS
<1> HIDE DEF v, w
<1>6. v = Append(w, t.qty)
  <2>1. /\ Append(w, t.qty) \in Seq(Nat)
        /\ Len(Append(w, t.qty)) = n + 1
        /\ \A i \in 1 .. n : Append(w, t.qty)[i] = w[i]
        /\ Append(w, t.qty)[n + 1] = t.qty
    BY <1>2, <1>4, AppendProperties
  <2>2. \A i \in 1 .. n + 1 : i \in 1 .. n \/ i = n + 1  BY <1>2
  <2>3. \A i \in 1 .. n + 1 : Append(w, t.qty)[i] = v[i]  BY <1>1, <1>5, <2>1, <2>2
  <2> QED BY <1>3, <2>1, <2>3, SeqEqual
<1>7. SumOf(v) = SumOf(w) + t.qty  BY <1>2, <1>4, <1>6, SumOfAppend
<1> QED BY <1>1, <1>2, <1>3, <1>7 DEF new

LEMMA Multiples ==
    ASSUME NEW a \in Int, NEW b \in Int, a <= b, NEW q \in Nat
    PROVE  a * q <= b * q
<1>1. PICK d \in Nat : b = a + d
  <2>1. b - a \in Nat /\ b = a + (b - a)  OBVIOUS
  <2> QED BY <2>1
<1>2. b * q = a * q + d * q  BY <1>1
<1>3. d * q \in Nat /\ a * q \in Int  OBVIOUS
<1> QED BY <1>2, <1>3

\* The average price of the tape lies between its lowest and its highest.
LEMMA AverageWithinPrices ==
    ASSUME NEW tape \in Seq(PythonTrade), tape # <<>>
    PROVE  /\ Min(PricesOf(tape)) * Volume(tape) <= Notional(tape)
           /\ Max(PricesOf(tape)) * Volume(tape) >= Notional(tape)
<1> DEFINE n == Len(tape)
           S == PricesOf(tape)
           w == [k \in 1 .. n |-> tape[k].qty]
           v == [k \in 1 .. n |-> tape[k].price * tape[k].qty]
           lo == Min(S)
           hi == Max(S)
<1>1. /\ n \in Nat /\ DOMAIN tape = 1 .. n
      /\ \A k \in 1 .. n : tape[k].price \in Int /\ tape[k].qty \in Nat
      /\ w \in Seq(Nat) /\ Len(w) = n
      /\ Volume(tape) = SumOf(w) /\ Volume(tape) \in Nat
  BY TapeNumbers
<1>2. n # 0  BY EmptySeq
<1>3. /\ S = {tape[k].price : k \in 1 .. n} /\ S \in SUBSET Int /\ S # {}
  <2>1. S = {tape[k].price : k \in 1 .. n}  BY <1>1 DEF PricesOf
  <2>2. 1 \in 1 .. n  BY <1>1, <1>2
  <2> HIDE DEF S, n
  <2> QED BY <1>1, <2>1, <2>2
<1>4. IsFiniteSet(S)
  <2>1. 1 \in Int /\ n \in Int  BY <1>1
  <2>2. IsFiniteSet(1 .. n)  BY <2>1, FS_Interval
  <2> DEFINE f == [k \in 1 .. n |-> tape[k].price]
  <2>3. f \in Surjection(1 .. n, S)
    <3>1. f \in [1 .. n -> S] /\ \A p \in S : \E k \in 1 .. n : f[k] = p  BY <1>3
    <3> HIDE DEF f, S, n
    <3> QED BY <3>1 DEF Surjection
  <2> HIDE DEF f, S, n
  <2> QED BY <2>2, <2>3, FS_Surjection
<1> HIDE DEF S
<1>5. /\ lo \in Int /\ hi \in Int /\ \A p \in S : lo <= p /\ p <= hi
  <2>1. lo \in S /\ hi \in S  BY <1>3, <1>4, BestOfPrices
  <2>2. \A p \in S : lo <= p /\ p <= hi  BY <1>3, <1>4, BestOfPrices
  <2> QED BY <1>3, <2>1, <2>2
<1> HIDE DEF lo, hi
<1>6. ASSUME NEW k \in 1 .. n
      PROVE  /\ tape[k].price * tape[k].qty \in Int
             /\ lo * tape[k].qty <= tape[k].price * tape[k].qty
             /\ tape[k].price * tape[k].qty <= hi * tape[k].qty
  <2>1. PICK p \in Int, q \in Nat : p = tape[k].price /\ q = tape[k].qty  BY <1>1
  <2>2. p \in S  BY <1>3, <2>1
  <2>3. lo <= p /\ p <= hi  BY <1>5, <2>2
  <2>4. p * q \in Int /\ lo * q <= p * q /\ p * q <= hi * q  BY <1>5, <2>3, Multiples
  <2> QED BY <2>1, <2>4
<1>7. Notional(tape) = SumOf(v)  BY <1>1 DEF Notional
<1>8. v \in [1 .. n -> Int]  BY <1>6
<1>9. /\ \A k \in 1 .. n : w[k] = tape[k].qty
      /\ \A k \in 1 .. n : v[k] = tape[k].price * tape[k].qty
  OBVIOUS
<1> HIDE DEF v, w
<1>10. v \in Seq(Int) /\ Len(v) = n  BY <1>1, <1>8, SequenceOf
<1>11. /\ \A k \in 1 .. n : lo * w[k] <= v[k]
       /\ \A k \in 1 .. n : v[k] <= hi * w[k]
  BY <1>6, <1>9
<1>12. lo * SumOf(w) <= SumOf(v)
  <2>1. Len(w) = n /\ Len(v) = Len(w)  BY <1>1, <1>10
  <2>2. \A k \in 1 .. Len(w) : lo * w[k] <= v[k]  BY <1>11, <2>1
  <2> QED BY <1>1, <1>5, <1>10, <2>1, <2>2, SumOfMultiples
<1>13. SumOf(v) <= hi * SumOf(w)
  <2>1. Len(w) = n /\ Len(v) = Len(w)  BY <1>1, <1>10
  <2>2. \A k \in 1 .. Len(w) : v[k] <= hi * w[k]  BY <1>11, <2>1
  <2> QED BY <1>1, <1>5, <1>10, <2>1, <2>2, SumOfMultiples
<1>14. hi * SumOf(w) >= SumOf(v)
  <2>1. PICK a : a = hi * SumOf(w)  OBVIOUS
  <2>2. hi * SumOf(w) \in Int /\ SumOf(v) \in Int
    <3>1. SumOf(w) \in Nat  BY <1>1
    <3>2. hi * SumOf(w) \in Int  BY <1>5, <3>1
    <3>3. n \in 0 .. Len(v)  BY <1>1, <1>10
    <3>4. PICK g \in [0 .. n -> Int] : AddsUp(v, g, n)  BY <1>10, <3>3, PartialSumsExist
    <3>5. SumOf(v) = g[n] /\ n \in 0 .. n  BY <1>1, <1>10, <3>4, SumIs
    <3> QED BY <3>2, <3>5
  <2> QED BY <1>13, <2>2
<1> QED BY <1>1, <1>7, <1>12, <1>14 DEF lo, hi, S

----------------------------------------------------------------------------
\* The invariant of the Python engine's reports

\* Nothing that was asked for is lost: it rests, was traded, once by each party,
\* or is still held by the running call.
PythonBalance ==
    /\ trades \in Seq(PythonTrade)
    /\ asked \in Nat
    /\ Total(buy_orders) + Total(sell_orders) + 2 * Volume(trades) + order.quantity = asked

\* Every order that was counted rests at most once.
PythonSizes ==
    /\ Len(buy_orders) + Len(sell_orders) + (IF pc = "match" THEN 1 ELSE 0) <= order_count
    /\ order_count <= MaxOrders

RInv == PythonInv /\ PythonBalance /\ PythonSizes /\ BookNotCrossed

LEMMA TotalIsNat ==
    ASSUME NEW P \in SUBSET Int, NEW side, NEW book \in Seq(Priced(P, side))
    PROVE  Total(book) \in Nat
BY HeldQuantities, SumIsNat

\* Which orders cross is a matter of the two sets of orders.
LEMMA NotCrossedSets ==
    ASSUME NEW S, NEW b \in Seq(S), NEW T, NEW s \in Seq(T)
    PROVE  (\A i \in 1 .. Len(b), j \in 1 .. Len(s) : b[i].price < s[j].price)
           <=> (\A x \in ToSet(b), y \in ToSet(s) : x.price < y.price)
<1>1. /\ \A i \in 1 .. Len(b) : b[i] \in ToSet(b)
      /\ \A x \in ToSet(b) : \E i \in 1 .. Len(b) : x = b[i]
  BY Elements
<1>2. /\ \A i \in 1 .. Len(s) : s[i] \in ToSet(s)
      /\ \A x \in ToSet(s) : \E i \in 1 .. Len(s) : x = s[i]
  BY Elements
<1> QED BY <1>1, <1>2

LEMMA InitRInv ==
    ASSUME Python!Init
    PROVE  RInv
<1>1. /\ buy_orders = <<>> /\ sell_orders = <<>> /\ trades = <<>> /\ order_count = 0
      /\ pc = "idle" /\ order = NoOrder /\ asked = 0
  BY DEF Python!Init, Python!NoOrder, NoOrder, Python!BUY, BUY
<1>2. PythonInv  BY PythonInit
<1>3. <<>> \in Seq(PythonTrade) /\ <<>> \in Seq(Nat) /\ Len(<<>>) = 0  BY EmptySeq
<1>4. SumOf(<<>>) = 0
  <2>1. \A k \in 1 .. Len(<<>>) : <<>>[k] = 0  BY <1>3
  <2> QED BY <1>3, <2>1, SumOfZeros
<1>5. Total(<<>>) = 0 /\ Volume(<<>>) = 0
  <2>1. DOMAIN <<>> = {}  OBVIOUS
  <2>2. [i \in DOMAIN <<>> |-> <<>>[i].quantity] = <<>>  BY <2>1
  <2>3. [i \in DOMAIN <<>> |-> <<>>[i].qty] = <<>>  BY <2>1
  <2> QED BY <1>4, <2>2, <2>3 DEF Total, Volume
<1>6. order.quantity = 0  BY <1>1 DEF NoOrder
<1>7. PythonBalance  BY <1>1, <1>3, <1>5, <1>6 DEF PythonBalance
<1>8. PythonSizes /\ BookNotCrossed
  <2>1. MaxOrders \in Nat  BY MatchingEngineAssumption
  <2> QED BY <1>1, <1>3, <2>1 DEF PythonSizes, BookNotCrossed
<1> QED BY <1>2, <1>7, <1>8 DEF RInv

\* A call asks for a quantity, and holds it; sorting a list changes no total.
LEMMA ArrivalRInv ==
    ASSUME Prices \subseteq Int, Quantities \subseteq Nat, Timestamps \subseteq Nat,
           RInv, Python!AddOrder
    PROVE  RInv'
<1>1. PythonInv'  BY PythonArrival DEF RInv
<1>2. /\ pc = "idle" /\ pc' = "match" /\ order_count' = order_count + 1 /\ trades' = trades
      /\ order_count < MaxOrders
      /\ \E in \in Python!Inputs :
           /\ order' = [order_id |-> order_count + 1, side |-> in.side, price |-> in.price,
                        quantity |-> in.quantity, timestamp |-> in.timestamp]
           /\ asked' = asked + in.quantity
           /\ IF in.side = BUY
              THEN sell_orders' = Python!StableSort(sell_orders) /\ buy_orders' = buy_orders
              ELSE buy_orders' = Python!StableSort(buy_orders) /\ sell_orders' = sell_orders
  BY DEF Python!AddOrder, Python!BUY, BUY
<1>3. PICK in \in Python!Inputs :
           /\ order' = [order_id |-> order_count + 1, side |-> in.side, price |-> in.price,
                        quantity |-> in.quantity, timestamp |-> in.timestamp]
           /\ asked' = asked + in.quantity
           /\ IF in.side = BUY
              THEN sell_orders' = Python!StableSort(sell_orders) /\ buy_orders' = buy_orders
              ELSE buy_orders' = Python!StableSort(buy_orders) /\ sell_orders' = sell_orders
  BY <1>2
<1>4. in.quantity \in Nat /\ order'.quantity = in.quantity
  BY <1>3 DEF Python!Inputs
<1>5. /\ order_count \in Nat /\ order = NoOrder /\ order.quantity = 0
      /\ buy_orders \in Seq(Priced(Int, BUY)) /\ sell_orders \in Seq(Priced(Int, SELL))
      /\ TiesAsArrived(buy_orders) /\ TiesAsArrived(sell_orders)
      /\ Int \in SUBSET Int /\ BUY \in {BUY, SELL} /\ SELL \in {BUY, SELL}
  BY <1>2 DEF RInv, PythonInv, BooksHold, NoOrder
<1>6. /\ buy_orders' \in Seq(Priced(Int, BUY)) /\ sell_orders' \in Seq(Priced(Int, SELL))
      /\ ToSet(buy_orders') = ToSet(buy_orders) /\ ToSet(sell_orders') = ToSet(sell_orders)
      /\ Total(buy_orders') = Total(buy_orders) /\ Total(sell_orders') = Total(sell_orders)
      /\ Len(buy_orders') = Len(buy_orders) /\ Len(sell_orders') = Len(sell_orders)
  <2>1. CASE in.side = BUY
    <3>1. sell_orders' = Python!StableSort(sell_orders) /\ buy_orders' = buy_orders
      BY <1>3, <2>1
    <3> QED BY <1>5, <3>1, StableSortSorts, TotalOfSorted
  <2>2. CASE in.side # BUY
    <3>1. buy_orders' = Python!StableSort(buy_orders) /\ sell_orders' = sell_orders
      BY <1>3, <2>2
    <3> QED BY <1>5, <3>1, StableSortSorts, TotalOfSorted
  <2> QED BY <2>1, <2>2
<1>7. Total(buy_orders) \in Nat /\ Total(sell_orders) \in Nat
  BY <1>5, TotalIsNat
<1>8. PythonBalance'
  <2>1. /\ trades \in Seq(PythonTrade) /\ asked \in Nat
        /\ Total(buy_orders) + Total(sell_orders) + 2 * Volume(trades) + order.quantity = asked
    BY DEF RInv, PythonBalance
  <2>2. Volume(trades) \in Nat  BY <2>1, TapeNumbers
  <2>3. asked' = asked + in.quantity /\ asked' \in Nat  BY <1>3, <1>4, <2>1
  <2>4. Total(buy_orders) + Total(sell_orders) + 2 * Volume(trades) + in.quantity = asked'
    BY <1>4, <1>5, <1>7, <2>1, <2>2, <2>3
  <2>5. /\ Total(buy_orders)' = Total(buy_orders) /\ Total(sell_orders)' = Total(sell_orders)
        /\ Volume(trades)' = Volume(trades) /\ order.quantity' = in.quantity
        /\ trades' = trades
    BY <1>2, <1>4, <1>6
  <2> QED BY <2>1, <2>3, <2>4, <2>5 DEF PythonBalance
<1>9. PythonSizes'
  <2>1. Len(buy_orders) + Len(sell_orders) <= order_count /\ MaxOrders \in Nat
        /\ Len(buy_orders) \in Nat /\ Len(sell_orders) \in Nat
    <3>1. Len(buy_orders) \in Nat /\ Len(sell_orders) \in Nat  BY <1>5, LenProperties
    <3> QED BY <1>2, <3>1, MatchingEngineAssumption DEF RInv, PythonSizes
  <2> QED BY <1>2, <1>5, <1>6, <2>1 DEF PythonSizes
<1>10. BookNotCrossed'
  <2>1. \A x \in ToSet(buy_orders), y \in ToSet(sell_orders) : x.price < y.price
    BY <1>5, NotCrossedSets DEF RInv, BookNotCrossed
  <2>2. \A i \in 1 .. Len(buy_orders'), j \in 1 .. Len(sell_orders') :
          buy_orders'[i].price < sell_orders'[j].price
    BY <1>6, <2>1, NotCrossedSets
  <2> QED BY <2>2 DEF BookNotCrossed
<1> QED BY <1>1, <1>8, <1>9, <1>10 DEF RInv

\* What a matching step of either side takes from the running order.
LEMMA TakenFromOrder ==
    ASSUME NEW o, o \in [order_id: Nat \ {0}, side: {o.side}, price: Int,
                         quantity: Nat, timestamp: Nat],
           NEW q \in Nat, q <= o.quantity
    PROVE  /\ [o EXCEPT !.quantity = @ - q].quantity = o.quantity - q
           /\ o.quantity - q \in Nat
<1>1. o.quantity \in Nat  OBVIOUS
<1>2. [o EXCEPT !.quantity = @ - q].quantity = o.quantity - q  OBVIOUS
<1> QED BY <1>1, <1>2

\* A trade takes its quantity from both parties.
LEMMA MatchRInv ==
    ASSUME RInv, Python!MatchBuy \/ Python!MatchSell
    PROVE  RInv'
<1>1. PythonInv'  BY PythonMatch DEF RInv
<1>2. /\ pc = "match" /\ Matchable /\ order.quantity > 0
      /\ UNCHANGED <<order_count, pc, asked>>
  BY DEF Python!MatchBuy, Python!MatchSell, Python!Matchable, Matchable, Python!BUY, BUY
<1>3. /\ Int \in SUBSET Int /\ BUY \in {BUY, SELL} /\ SELL \in {BUY, SELL}
      /\ buy_orders \in Seq(Priced(Int, BUY)) /\ sell_orders \in Seq(Priced(Int, SELL))
      /\ order \in [order_id: Nat \ {0}, side: {order.side}, price: Int,
                    quantity: Nat, timestamp: Nat]
      /\ order.quantity \in Nat \ {0} /\ order.order_id \in Nat \ {0}
  <2>1. PythonInv  BY DEF RInv
  <2>2. order \in [order_id: Nat \ {0}, side: {order.side}, price: Int,
                   quantity: Nat, timestamp: Nat]
    BY <1>2, <2>1, PythonOrder
  <2> QED BY <1>2, <2>1, <2>2 DEF PythonInv, BooksHold
<1>4. /\ trades \in Seq(PythonTrade) /\ asked \in Nat
      /\ Total(buy_orders) + Total(sell_orders) + 2 * Volume(trades) + order.quantity = asked
      /\ Total(buy_orders) \in Nat /\ Total(sell_orders) \in Nat /\ Volume(trades) \in Nat
  <2>1. trades \in Seq(PythonTrade) /\ asked \in Nat
        /\ Total(buy_orders) + Total(sell_orders) + 2 * Volume(trades) + order.quantity = asked
    BY DEF RInv, PythonBalance
  <2> QED BY <1>3, <2>1, TotalIsNat, TapeNumbers
<1>5. /\ Len(buy_orders) + Len(sell_orders) + 1 <= order_count /\ order_count <= MaxOrders
      /\ Len(buy_orders) \in Nat /\ Len(sell_orders) \in Nat
      /\ order_count \in Nat
  <2>1. Len(buy_orders) \in Nat /\ Len(sell_orders) \in Nat  BY <1>3, LenProperties
  <2> QED BY <1>2, <2>1 DEF RInv, PythonSizes, PythonInv
<1>6. ASSUME NEW best, best.quantity \in Nat \ {0}
      PROVE  LET q == MatchedQuantity(order, best)
             IN  /\ q \in Nat \ {0} /\ q <= order.quantity /\ q <= best.quantity
                 /\ [order EXCEPT !.quantity = @ - q].quantity = order.quantity - q
  <2> DEFINE q == MatchedQuantity(order, best)
  <2>1. q \in Nat \ {0} /\ q <= order.quantity /\ q <= best.quantity
    BY <1>3, <1>6, MatchedQuantityProperties
  <2> HIDE DEF q
  <2>2. [order EXCEPT !.quantity = @ - q].quantity = order.quantity - q
    BY <1>3, <2>1, TakenFromOrder
  <2> QED BY <2>1, <2>2 DEF q
<1>7. CASE Python!MatchBuy
  <2> DEFINE best == sell_orders[1]
             q    == MatchedQuantity(order, best)
             t    == [buy_id |-> order.order_id, sell_id |-> best.order_id,
                      price |-> best.price, qty |-> q]
  <2>1. TakesBestSell /\ order.side = BUY /\ sell_orders # <<>>
    BY <1>7 DEF Python!MatchBuy, Python!Matchable, Python!MatchedQuantity, Python!Reduced,
                TakesBestSell, MatchedQuantity, Reduced, Python!BUY, BUY
  <2>2. /\ trades' = Append(trades, t)
        /\ order' = [order EXCEPT !.quantity = @ - q] /\ sell_orders' = Reduced(sell_orders, q)
        /\ buy_orders' = buy_orders
    BY <2>1 DEF TakesBestSell
  <2>3. /\ best.quantity \in Nat \ {0} /\ best.price \in Int /\ best.order_id \in Nat \ {0}
    BY <1>3, <2>1, Elements, PricedFields
  <2>4. /\ q \in Nat \ {0} /\ q <= order.quantity /\ q <= best.quantity
        /\ order'.quantity = order.quantity - q
    BY <1>6, <2>2, <2>3
  <2>5. t \in PythonTrade /\ t.qty = q  BY <1>3, <2>3, <2>4 DEF PythonTrade
  <2> HIDE DEF q, t
  <2>6. trades' \in Seq(PythonTrade) /\ Volume(trades') = Volume(trades) + q
    BY <1>4, <2>2, <2>5, VolumeOfAppend
  <2>7. /\ Total(sell_orders) = Total(sell_orders') + q /\ Total(sell_orders') \in Nat
        /\ Len(sell_orders') <= Len(sell_orders)
    BY <1>3, <2>1, <2>2, <2>4, TotalOfReduced
  <2>8. InPriorityOrder(sell_orders)  BY <1>2, <2>1 DEF RInv, PythonInv
  <2>9. IsReducedBook(sell_orders, sell_orders')
    BY <1>3, <2>1, <2>2, <2>4, <2>8, ReducedKeepsPriority
  <2>10. sell_orders' \in Seq(Priced(Int, SELL))
    BY <1>3, <2>1, <2>2, <2>4, ReducedProperties
  <2>11. PythonBalance'
    <3>1. Total(buy_orders) + Total(sell_orders') + 2 * (Volume(trades) + q)
             + (order.quantity - q) = asked
      <4>1. PICK a, b, v, o, left \in Nat :
               /\ a = Total(buy_orders) /\ b = Total(sell_orders) /\ v = Volume(trades)
               /\ o = order.quantity /\ left = Total(sell_orders')
        BY <1>3, <1>4, <2>7
      <4>2. a + b + 2 * v + o = asked  BY <1>4, <4>1
      <4>3. b = left + q /\ q \in Nat  BY <2>4, <2>7, <4>1
      <4>4. a + left + 2 * (v + q) + (o - q) = asked  BY <4>2, <4>3
      <4> QED BY <4>1, <4>4
    <3>2. asked' = asked /\ Total(buy_orders)' = Total(buy_orders)
          /\ Total(sell_orders)' = Total(sell_orders') /\ Volume(trades)' = Volume(trades) + q
          /\ order.quantity' = order.quantity - q
      BY <1>2, <2>2, <2>4, <2>6
    <3>3. Total(buy_orders)' + Total(sell_orders)' + 2 * Volume(trades)' + order.quantity' = asked'
      BY <3>1, <3>2
    <3> QED BY <1>2, <1>4, <2>6, <3>3 DEF PythonBalance
  <2>12. PythonSizes'
    <3>1. Len(sell_orders') \in Nat  BY <2>10, LenProperties
    <3> QED BY <1>2, <1>5, <2>2, <2>7, <3>1 DEF PythonSizes
  <2>13. BookNotCrossed'
    BY <2>2, <2>9 DEF RInv, BookNotCrossed, IsReducedBook
  <2> QED BY <1>1, <2>11, <2>12, <2>13 DEF RInv
<1>8. CASE Python!MatchSell
  <2> DEFINE best == buy_orders[1]
             q    == MatchedQuantity(order, best)
             t    == [buy_id |-> best.order_id, sell_id |-> order.order_id,
                      price |-> best.price, qty |-> q]
  <2>1. TakesBestBuy /\ order.side = SELL /\ buy_orders # <<>>
    BY <1>8 DEF Python!MatchSell, Python!Matchable, Python!MatchedQuantity, Python!Reduced,
                TakesBestBuy, MatchedQuantity, Reduced, Python!BUY, Python!SELL, BUY, SELL
  <2>2. /\ trades' = Append(trades, t)
        /\ order' = [order EXCEPT !.quantity = @ - q] /\ buy_orders' = Reduced(buy_orders, q)
        /\ sell_orders' = sell_orders
    BY <2>1 DEF TakesBestBuy
  <2>3. /\ best.quantity \in Nat \ {0} /\ best.price \in Int /\ best.order_id \in Nat \ {0}
    BY <1>3, <2>1, Elements, PricedFields
  <2>4. /\ q \in Nat \ {0} /\ q <= order.quantity /\ q <= best.quantity
        /\ order'.quantity = order.quantity - q
    BY <1>6, <2>2, <2>3
  <2>5. t \in PythonTrade /\ t.qty = q  BY <1>3, <2>3, <2>4 DEF PythonTrade
  <2> HIDE DEF q, t
  <2>6. trades' \in Seq(PythonTrade) /\ Volume(trades') = Volume(trades) + q
    BY <1>4, <2>2, <2>5, VolumeOfAppend
  <2>7. /\ Total(buy_orders) = Total(buy_orders') + q /\ Total(buy_orders') \in Nat
        /\ Len(buy_orders') <= Len(buy_orders)
    BY <1>3, <2>1, <2>2, <2>4, TotalOfReduced
  <2>8. InPriorityOrder(buy_orders)  BY <1>2, <2>1 DEF RInv, PythonInv, BUY, SELL
  <2>9. IsReducedBook(buy_orders, buy_orders')
    BY <1>3, <2>1, <2>2, <2>4, <2>8, ReducedKeepsPriority
  <2>10. buy_orders' \in Seq(Priced(Int, BUY))
    BY <1>3, <2>1, <2>2, <2>4, ReducedProperties
  <2>11. PythonBalance'
    <3>1. Total(buy_orders') + Total(sell_orders) + 2 * (Volume(trades) + q)
             + (order.quantity - q) = asked
      <4>1. PICK a, b, v, o, left \in Nat :
               /\ a = Total(buy_orders) /\ b = Total(sell_orders) /\ v = Volume(trades)
               /\ o = order.quantity /\ left = Total(buy_orders')
        BY <1>3, <1>4, <2>7
      <4>2. a + b + 2 * v + o = asked  BY <1>4, <4>1
      <4>3. a = left + q /\ q \in Nat  BY <2>4, <2>7, <4>1
      <4>4. left + b + 2 * (v + q) + (o - q) = asked  BY <4>2, <4>3
      <4> QED BY <4>1, <4>4
    <3>2. asked' = asked /\ Total(sell_orders)' = Total(sell_orders)
          /\ Total(buy_orders)' = Total(buy_orders') /\ Volume(trades)' = Volume(trades) + q
          /\ order.quantity' = order.quantity - q
      BY <1>2, <2>2, <2>4, <2>6
    <3>3. Total(buy_orders)' + Total(sell_orders)' + 2 * Volume(trades)' + order.quantity' = asked'
      BY <3>1, <3>2
    <3> QED BY <1>2, <1>4, <2>6, <3>3 DEF PythonBalance
  <2>12. PythonSizes'
    <3>1. Len(buy_orders') \in Nat  BY <2>10, LenProperties
    <3> QED BY <1>2, <1>5, <2>2, <2>7, <3>1 DEF PythonSizes
  <2>13. BookNotCrossed'
    BY <2>2, <2>9 DEF RInv, BookNotCrossed, IsReducedBook
  <2> QED BY <1>1, <2>11, <2>12, <2>13 DEF RInv
<1> QED BY <1>7, <1>8

\* The remainder goes to a list, behind no order that it crosses.
LEMMA ReturnRInv ==
    ASSUME RInv, Python!Return
    PROVE  RInv'
<1>1. PythonInv /\ PythonInv'  BY PythonReturn DEF RInv
<1>2. /\ pc = "match" /\ ~ Matchable /\ pc' = "idle" /\ order' = NoOrder
      /\ UNCHANGED <<order_count, trades, asked>>
      /\ buy_orders'  = IF order.quantity > 0 /\ order.side = BUY
                        THEN Append(buy_orders, order) ELSE buy_orders
      /\ sell_orders' = IF order.quantity > 0 /\ order.side = SELL
                        THEN Append(sell_orders, order) ELSE sell_orders
  BY DEF Python!Return, Python!Matchable, Matchable, Python!NoOrder, NoOrder,
         Python!BUY, Python!SELL, BUY, SELL
<1>3. /\ BooksHold(Int) /\ Int \in SUBSET Int /\ BUY \in {BUY, SELL} /\ SELL \in {BUY, SELL}
      /\ buy_orders \in Seq(Priced(Int, BUY)) /\ sell_orders \in Seq(Priced(Int, SELL))
      /\ order.side \in {BUY, SELL} /\ order.quantity \in Nat
      /\ order.quantity > 0 => order \in Priced(Int, order.side)
      /\ order'.quantity = 0
      /\ ArrivedBefore(buy_orders, order.order_id) /\ ArrivedBefore(sell_orders, order.order_id)
      /\ TiesAsArrived(buy_orders) /\ TiesAsArrived(sell_orders)
  BY <1>1, <1>2, PythonOrder DEF PythonInv, BooksHold, NoOrder
<1>4. /\ trades \in Seq(PythonTrade) /\ asked \in Nat
      /\ Total(buy_orders) + Total(sell_orders) + 2 * Volume(trades) + order.quantity = asked
      /\ Total(buy_orders) \in Nat /\ Total(sell_orders) \in Nat /\ Volume(trades) \in Nat
  <2>1. trades \in Seq(PythonTrade) /\ asked \in Nat
        /\ Total(buy_orders) + Total(sell_orders) + 2 * Volume(trades) + order.quantity = asked
    BY DEF RInv, PythonBalance
  <2> QED BY <1>3, <2>1, TotalIsNat, TapeNumbers
<1>5. /\ Len(buy_orders) + Len(sell_orders) + 1 <= order_count /\ order_count <= MaxOrders
      /\ Len(buy_orders) \in Nat /\ Len(sell_orders) \in Nat
      /\ order_count \in Nat
  <2>1. Len(buy_orders) \in Nat /\ Len(sell_orders) \in Nat  BY <1>3, LenProperties
  <2> QED BY <1>2, <2>1 DEF RInv, PythonSizes, PythonInv
<1>6. \A x \in ToSet(buy_orders), y \in ToSet(sell_orders) : x.price < y.price
  BY <1>3, NotCrossedSets DEF RInv, BookNotCrossed
<1>7. ASSUME Total(buy_orders') + Total(sell_orders')
                = Total(buy_orders) + Total(sell_orders) + order.quantity,
             Total(buy_orders') \in Nat, Total(sell_orders') \in Nat,
             Len(buy_orders') + Len(sell_orders') <= Len(buy_orders) + Len(sell_orders) + 1,
             Len(buy_orders') \in Nat, Len(sell_orders') \in Nat,
             \A i \in 1 .. Len(buy_orders'), j \in 1 .. Len(sell_orders') :
                buy_orders'[i].price < sell_orders'[j].price
      PROVE  RInv'
  <2>1. PythonBalance'
    <3>1. Total(buy_orders') + Total(sell_orders') + 2 * Volume(trades) + 0 = asked
      <4>1. PICK a, b, v, o, a1, b1 \in Nat :
               /\ a = Total(buy_orders) /\ b = Total(sell_orders) /\ v = Volume(trades)
               /\ o = order.quantity /\ a1 = Total(buy_orders') /\ b1 = Total(sell_orders')
        BY <1>3, <1>4, <1>7
      <4>2. a + b + 2 * v + o = asked  BY <1>4, <4>1
      <4>3. a1 + b1 = a + b + o  BY <1>7, <4>1
      <4>4. a1 + b1 + 2 * v + 0 = asked  BY <4>2, <4>3
      <4> QED BY <4>1, <4>4
    <3>2. asked' = asked /\ Total(buy_orders)' = Total(buy_orders')
          /\ Total(sell_orders)' = Total(sell_orders') /\ Volume(trades)' = Volume(trades)
          /\ order.quantity' = 0
      BY <1>2, <1>3
    <3>3. Total(buy_orders)' + Total(sell_orders)' + 2 * Volume(trades)' + order.quantity' = asked'
      BY <3>1, <3>2
    <3> QED BY <1>2, <1>4, <3>3 DEF PythonBalance
  <2>2. PythonSizes'
    <3>1. (IF pc' = "match" THEN 1 ELSE 0) = 0  BY <1>2
    <3>2. Len(buy_orders') + Len(sell_orders') + 0 <= order_count  BY <1>5, <1>7
    <3> QED BY <1>2, <1>5, <3>1, <3>2 DEF PythonSizes
  <2>3. BookNotCrossed'  BY <1>7 DEF BookNotCrossed
  <2> QED BY <1>1, <2>1, <2>2, <2>3 DEF RInv
<1>8. CASE ~ (order.quantity > 0)
  <2>1. buy_orders' = buy_orders /\ sell_orders' = sell_orders /\ order.quantity = 0
    BY <1>2, <1>3, <1>8
  <2> QED BY <1>4, <1>5, <1>7, <2>1 DEF RInv, BookNotCrossed
<1>9. CASE order.quantity > 0 /\ order.side = BUY
  <2>1. /\ buy_orders' = Append(buy_orders, order) /\ sell_orders' = sell_orders
        /\ order \in Priced(Int, BUY) /\ order.side = BUY
    BY <1>2, <1>3, <1>9 DEF BUY, SELL
  <2>2. /\ Total(buy_orders') = Total(buy_orders) + order.quantity
        /\ Len(buy_orders') = Len(buy_orders) + 1
    BY <1>3, <2>1, TotalOfAppend
  <2>3. /\ buy_orders' \in Seq(Priced(Int, BUY))
        /\ ToSet(buy_orders') = ToSet(buy_orders) \cup {order}
    BY <1>3, <2>1, AppendedOrder
  <2>4. InPriorityOrder(IF BUY = BUY THEN sell_orders ELSE buy_orders)
    BY <1>2, <1>9 DEF RInv, PythonInv
  <2>5. Market!Candidates = {}  BY <1>2, <1>3, <2>1, <2>4, NoCandidates
  <2>6. \A y \in ToSet(sell_orders) : ~ (y.price <= order.price)
    BY <1>3, <2>1, <2>5, CandidatesOfBuy
  <2>7. order.price \in Int /\ \A y \in ToSet(sell_orders) : y.price \in Int
    BY <1>3, <2>1, RestingOrders, PricedFields
  <2>8. \A x \in ToSet(buy_orders'), y \in ToSet(sell_orders') : x.price < y.price
    BY <1>6, <2>1, <2>3, <2>6, <2>7
  <2>9. \A i \in 1 .. Len(buy_orders'), j \in 1 .. Len(sell_orders') :
            buy_orders'[i].price < sell_orders'[j].price
    BY <1>3, <2>1, <2>3, <2>8, NotCrossedSets
  <2>10. /\ Total(buy_orders') + Total(sell_orders')
               = Total(buy_orders) + Total(sell_orders) + order.quantity
         /\ Total(buy_orders') \in Nat /\ Total(sell_orders') \in Nat
    BY <1>3, <1>4, <2>1, <2>2, SMTT(30)
  <2>11. /\ Len(buy_orders') + Len(sell_orders') <= Len(buy_orders) + Len(sell_orders) + 1
         /\ Len(buy_orders') \in Nat /\ Len(sell_orders') \in Nat
    BY <1>5, <2>1, <2>2
  <2> QED BY <1>7, <2>9, <2>10, <2>11
<1>10. CASE order.quantity > 0 /\ order.side = SELL
  <2>1. /\ sell_orders' = Append(sell_orders, order) /\ buy_orders' = buy_orders
        /\ order \in Priced(Int, SELL) /\ order.side = SELL
    BY <1>2, <1>3, <1>10 DEF BUY, SELL
  <2>2. /\ Total(sell_orders') = Total(sell_orders) + order.quantity
        /\ Len(sell_orders') = Len(sell_orders) + 1
    BY <1>3, <2>1, TotalOfAppend
  <2>3. /\ sell_orders' \in Seq(Priced(Int, SELL))
        /\ ToSet(sell_orders') = ToSet(sell_orders) \cup {order}
    BY <1>3, <2>1, AppendedOrder
  <2>4. InPriorityOrder(IF SELL = BUY THEN sell_orders ELSE buy_orders)
    BY <1>2, <1>10 DEF RInv, PythonInv
  <2>5. Market!Candidates = {}  BY <1>2, <1>3, <2>1, <2>4, NoCandidates
  <2>6. \A x \in ToSet(buy_orders) : ~ (x.price >= order.price)
    BY <1>3, <2>1, <2>5, CandidatesOfSell
  <2>7. order.price \in Int /\ \A x \in ToSet(buy_orders) : x.price \in Int
    BY <1>3, <2>1, RestingOrders, PricedFields
  <2>8. \A x \in ToSet(buy_orders'), y \in ToSet(sell_orders') : x.price < y.price
    BY <1>6, <2>1, <2>3, <2>6, <2>7
  <2>9. \A i \in 1 .. Len(buy_orders'), j \in 1 .. Len(sell_orders') :
            buy_orders'[i].price < sell_orders'[j].price
    BY <1>3, <2>1, <2>3, <2>8, NotCrossedSets
  <2>10. /\ Total(buy_orders') + Total(sell_orders')
               = Total(buy_orders) + Total(sell_orders) + order.quantity
         /\ Total(buy_orders') \in Nat /\ Total(sell_orders') \in Nat
    BY <1>3, <1>4, <2>1, <2>2, SMTT(30)
  <2>11. /\ Len(buy_orders') + Len(sell_orders') <= Len(buy_orders) + Len(sell_orders) + 1
         /\ Len(buy_orders') \in Nat /\ Len(sell_orders') \in Nat
    BY <1>5, <2>1, <2>2
  <2> QED BY <1>7, <2>9, <2>10, <2>11
<1> QED BY <1>3, <1>8, <1>9, <1>10

LEMMA NextRInv ==
    ASSUME Prices \subseteq Int, Quantities \subseteq Nat, Timestamps \subseteq Nat,
           RInv, [Python!Next]_(Python!vars)
    PROVE  RInv'
<1>1. CASE Python!Finished \/ UNCHANGED Python!vars
  <2>1. UNCHANGED <<order_count, buy_orders, sell_orders, trades, pc, order, asked>>
    BY <1>1 DEF Python!Finished, Python!vars
  <2>2. PythonInv'
    BY <2>1 DEF RInv, PythonInv, BooksHold, ArrivedBefore, TiesAsArrived, InPriorityOrder, HasPriority
  <2>3. PythonBalance'
    <3>1. /\ Total(buy_orders)' = Total(buy_orders) /\ Total(sell_orders)' = Total(sell_orders)
          /\ Volume(trades)' = Volume(trades)
      BY <2>1
    <3> QED BY <2>1, <3>1 DEF RInv, PythonBalance
  <2>4. PythonSizes' /\ BookNotCrossed'
    BY <2>1 DEF RInv, PythonSizes, BookNotCrossed
  <2> QED BY <2>2, <2>3, <2>4 DEF RInv
<1> QED BY <1>1, ArrivalRInv, MatchRInv, ReturnRInv DEF Python!Next

----------------------------------------------------------------------------
\* What the invariant says of the reports

\* What the reports are to say of each other and of what was asked.
Balanced(seen, top, stats) ==
    LET Sum(levels) == SumOf([k \in DOMAIN levels |-> levels[k].qty])
    IN  /\ ~ seen.prices.is_crossed /\ ~ top.prices.is_crossed
        /\ seen.prices.best_bid = FirstPrice(top.depth.bid_levels)
        /\ seen.prices.best_ask = FirstPrice(top.depth.ask_levels)
        /\ seen.bid_qty = Sum(top.depth.bid_levels)
        /\ seen.ask_qty = Sum(top.depth.ask_levels)
        /\ seen.bid_qty + seen.ask_qty + 2 * stats.total_qty = asked
        /\ \A p \in stats.min_price : p * stats.total_qty <= stats.notional
        /\ \A p \in stats.max_price : p * stats.total_qty >= stats.notional

PythonTop == get_top_of_book(get_order_book_snapshot(buy_orders, sell_orders),
                             PythonDepth(buy_orders, sell_orders), MaxOrders)

\* The levels start at the best price of the book, whatever order its list is in,
\* and asking for as many levels as there are orders shows them all.
LEMMA LevelsStartAtBest ==
    ASSUME NEW P \in SUBSET Int, NEW side, NEW book \in Seq(Priced(P, side)),
           NEW reverse \in BOOLEAN, NEW D \in Nat, Len(book) <= D,
           NEW levels, levels = SortedLevels(book, reverse)
    PROVE  /\ Slice(levels, D) = levels
           /\ FirstPrice(levels)
                = IF book = <<>> THEN {} ELSE {LevelPrices(book, reverse)[1]}
<1> DEFINE N == LevelCount(book)
           s == LevelPrices(book, reverse)
           E == [j \in 1 .. N |-> Level(s[j], QuantityAt(book, s[j]))]
           T == [price: Int, qty: Int]
<1>1. /\ N \in Nat /\ Len(book) \in Nat /\ N <= Len(book)
      /\ Len(book) > 0 => N > 0
      /\ \A j \in 1 .. N : s[j] \in Int /\ QuantityAt(book, s[j]) \in Nat
      /\ levels = E
  BY LevelsOfBook, SortedLevelsAre
<1>2. Fewer(D, N) = N  BY <1>1 DEF Fewer
<1>3. Slice(levels, D) = [j \in 1 .. Fewer(D, N) |-> Level(s[j], QuantityAt(book, s[j]))]
  BY SlicesAre
<1>4. Slice(levels, D) = levels  BY <1>1, <1>2, <1>3
<1> HIDE DEF N, s
<1>5. E \in [1 .. N -> T] /\ \A j \in 1 .. N : E[j] = Level(s[j], QuantityAt(book, s[j]))
  <2>1. \A j \in 1 .. N : Level(s[j], QuantityAt(book, s[j])) \in T
    BY <1>1 DEF Level
  <2> QED BY <2>1
<1> HIDE DEF E
<1>6. E \in Seq(T) /\ Len(E) = N  BY <1>1, <1>5, SequenceOf
<1>7. CASE book = <<>>
  <2>1. Len(book) = 0  BY <1>7
  <2>2. N = 0  BY <1>1, <2>1
  <2>3. E = <<>>  BY <1>6, <2>2, EmptySeq
  <2> QED BY <1>1, <1>4, <1>7, <2>3 DEF FirstPrice
<1>8. CASE book # <<>>
  <2>1. Len(book) # 0  BY <1>8, EmptySeq
  <2>2. N > 0 /\ 1 \in 1 .. N  BY <1>1, <2>1
  <2>3. E # <<>>  BY <1>6, <2>2, EmptySeq
  <2>4. E[1].price = s[1]  BY <1>5, <2>2 DEF Level
  <2> QED BY <1>1, <1>4, <1>8, <2>3, <2>4 DEF FirstPrice, s
<1> QED BY <1>7, <1>8

\* The best price is a price of the book, first of its sorted prices.
LEMMA BestOfBook ==
    ASSUME NEW P \in SUBSET Int, NEW side, NEW book \in Seq(Priced(P, side)), book # <<>>
    PROVE  /\ Max(PricesOf(book)) = LevelPrices(book, TRUE)[1]
           /\ Min(PricesOf(book)) = LevelPrices(book, FALSE)[1]
           /\ \E i \in 1 .. Len(book) : Max(PricesOf(book)) = book[i].price
           /\ \E i \in 1 .. Len(book) : Min(PricesOf(book)) = book[i].price
<1> DEFINE S == PricesOf(book)
<1>1. /\ S \in SUBSET Int /\ IsFiniteSet(S)
      /\ \A i \in 1 .. Len(book) : book[i].price \in S
      /\ \A p \in S : \E i \in 1 .. Len(book) : p = book[i].price
  BY PricesOfBook
<1>2. 1 \in 1 .. Len(book)  BY Elements
<1>3. S # {}  BY <1>1, <1>2
<1> HIDE DEF S
<1>4. /\ Max(S) = SortedPrices(S, TRUE)[1] /\ Max(S) \in S
      /\ Min(S) = SortedPrices(S, FALSE)[1] /\ Min(S) \in S
  BY <1>1, <1>3, BestOfPrices
<1> QED BY <1>1, <1>4 DEF LevelPrices, S

LEMMA SnapshotFields ==
    ASSUME NEW b, NEW s
    PROVE  LET seen == AnalyticsSnapshot(b, s)
           IN  /\ seen.prices = TopPrices(IF b = <<>> THEN {} ELSE {Max(PricesOf(b))},
                                          IF s = <<>> THEN {} ELSE {Min(PricesOf(s))})
               /\ seen.bid_qty = Total(b) /\ seen.ask_qty = Total(s)
BY DEF AnalyticsSnapshot

LEMMA StatsFields ==
    ASSUME NEW t
    PROVE  LET stats == trade_stats(t)
           IN  /\ stats.total_qty = Volume(t) /\ stats.notional = Notional(t)
               /\ stats.min_price = IF t = <<>> THEN {} ELSE {Min(PricesOf(t))}
               /\ stats.max_price = IF t = <<>> THEN {} ELSE {Max(PricesOf(t))}
BY DEF trade_stats

\* Between two calls the reports balance.
LEMMA ReportsOfIdle ==
    ASSUME RInv, pc = "idle"
    PROVE  Balanced(AnalyticsSnapshot(buy_orders, sell_orders), PythonTop, trade_stats(trades))
<1> DEFINE seen  == AnalyticsSnapshot(buy_orders, sell_orders)
           stats == trade_stats(trades)
           BL == SortedLevels(buy_orders, TRUE)
           AL == SortedLevels(sell_orders, FALSE)
           bid == IF buy_orders = <<>> THEN {} ELSE {Max(PricesOf(buy_orders))}
           ask == IF sell_orders = <<>> THEN {} ELSE {Min(PricesOf(sell_orders))}
           Sum(levels) == SumOf([k \in DOMAIN levels |-> levels[k].qty])
<1>1. /\ Int \in SUBSET Int /\ MaxOrders \in Nat
      /\ buy_orders \in Seq(Priced(Int, BUY)) /\ sell_orders \in Seq(Priced(Int, SELL))
      /\ order.quantity = 0
      /\ trades \in Seq(PythonTrade) /\ BookNotCrossed
  BY MatchingEngineAssumption DEF RInv, PythonInv, PythonBalance, BooksHold, NoOrder
<1>2. Len(buy_orders) <= MaxOrders /\ Len(sell_orders) <= MaxOrders
  <2>1. Len(buy_orders) \in Nat /\ Len(sell_orders) \in Nat  BY <1>1, LenProperties
  <2>2. order_count \in Nat /\ order_count <= MaxOrders
        /\ Len(buy_orders) + Len(sell_orders) + 0 <= order_count
    BY DEF RInv, PythonInv, PythonSizes
  <2> QED BY <1>1, <2>1, <2>2
<1>3. /\ Slice(BL, MaxOrders) = BL
      /\ FirstPrice(BL) = IF buy_orders = <<>> THEN {} ELSE {LevelPrices(buy_orders, TRUE)[1]}
  BY <1>1, <1>2, LevelsStartAtBest, ZenonT(60)
<1>4. /\ Slice(AL, MaxOrders) = AL
      /\ FirstPrice(AL) = IF sell_orders = <<>> THEN {} ELSE {LevelPrices(sell_orders, FALSE)[1]}
  BY <1>1, <1>2, LevelsStartAtBest, ZenonT(60)
<1>5. FirstPrice(BL) = bid /\ FirstPrice(AL) = ask
  BY <1>1, <1>3, <1>4, BestOfBook
<1>6. Sum(BL) = Total(buy_orders) /\ Sum(AL) = Total(sell_orders)
  BY <1>1, LevelsAddUp
<1>7. /\ PythonTop.prices = TopPrices(FirstPrice(buy_orders), FirstPrice(sell_orders))
      /\ PythonTop.depth.bid_levels = BL /\ PythonTop.depth.ask_levels = AL
  <2>1. /\ PythonTop.prices = TopPrices(get_order_book_snapshot(buy_orders, sell_orders)[1],
                                        get_order_book_snapshot(buy_orders, sell_orders)[2])
        /\ PythonTop.depth.bid_levels = Slice(BL, MaxOrders)
        /\ PythonTop.depth.ask_levels = Slice(AL, MaxOrders)
    <3> DEFINE d == PythonDepth(buy_orders, sell_orders)
    <3>1. d = [bid_levels |-> BL, ask_levels |-> AL,
               total_bid_qty |-> Total(buy_orders), total_ask_qty |-> Total(sell_orders),
               bid_order_count |-> Len(buy_orders), ask_order_count |-> Len(sell_orders)]
      BY DEF PythonDepth, Bids, Asks
    <3> HIDE DEF BL, AL, d
    <3> QED BY <3>1, TopFields DEF PythonTop, d
  <2> QED BY <1>3, <1>4, <2>1 DEF get_order_book_snapshot
<1>8. /\ seen.prices = TopPrices(bid, ask)
      /\ seen.bid_qty = Total(buy_orders) /\ seen.ask_qty = Total(sell_orders)
  BY SnapshotFields
<1>9. ASSUME NEW i \in 1 .. Len(buy_orders), NEW j \in 1 .. Len(sell_orders)
      PROVE  ~ (buy_orders[i].price >= sell_orders[j].price)
  <2>1. buy_orders[i].price \in Int /\ sell_orders[j].price \in Int
    BY <1>1, Elements, PricedFields
  <2>2. buy_orders[i].price < sell_orders[j].price  BY <1>1 DEF BookNotCrossed
  <2> QED BY <2>1, <2>2
<1>10. ~ seen.prices.is_crossed
  <2>1. \A x \in bid : \E i \in 1 .. Len(buy_orders) : x = buy_orders[i].price
    BY <1>1, BestOfBook, ZenonT(60)
  <2>2. \A x \in ask : \E i \in 1 .. Len(sell_orders) : x = sell_orders[i].price
    BY <1>1, BestOfBook, ZenonT(60)
  <2>3. ~ \E x \in bid, y \in ask : x >= y  BY <1>9, <2>1, <2>2
  <2> HIDE DEF bid, ask, seen
  <2> QED BY <1>8, <2>3 DEF TopPrices
<1>11. ~ PythonTop.prices.is_crossed
  <2>1. \A x \in FirstPrice(buy_orders) : \E i \in 1 .. Len(buy_orders) : x = buy_orders[i].price
    BY <1>1, Elements DEF FirstPrice
  <2>2. \A x \in FirstPrice(sell_orders) : \E i \in 1 .. Len(sell_orders) : x = sell_orders[i].price
    BY <1>1, Elements DEF FirstPrice
  <2>3. ~ \E x \in FirstPrice(buy_orders), y \in FirstPrice(sell_orders) : x >= y
    BY <1>9, <2>1, <2>2
  <2> QED BY <1>7, <2>3 DEF TopPrices
<1>12. seen.prices.best_bid = bid /\ seen.prices.best_ask = ask
  <2> HIDE DEF bid, ask, seen
  <2> QED BY <1>8 DEF TopPrices
<1>13. /\ stats.total_qty = Volume(trades) /\ stats.notional = Notional(trades)
       /\ stats.min_price = IF trades = <<>> THEN {} ELSE {Min(PricesOf(trades))}
       /\ stats.max_price = IF trades = <<>> THEN {} ELSE {Max(PricesOf(trades))}
  BY StatsFields
<1>14. Total(buy_orders) + Total(sell_orders) + 2 * Volume(trades) = asked
  <2>1. Total(buy_orders) + Total(sell_orders) + 2 * Volume(trades) + 0 = asked
    BY <1>1 DEF RInv, PythonBalance
  <2>2. Total(buy_orders) \in Nat /\ Total(sell_orders) \in Nat /\ Volume(trades) \in Nat
    BY <1>1, TotalIsNat, TapeNumbers
  <2> QED BY <2>1, <2>2
<1> HIDE DEF seen, stats, bid, ask, BL, AL, Sum
<1>15. /\ \A p \in stats.min_price : p * stats.total_qty <= stats.notional
       /\ \A p \in stats.max_price : p * stats.total_qty >= stats.notional
  <2>1. CASE trades = <<>>  BY <1>13, <2>1
  <2>2. CASE trades # <<>>  BY <1>1, <1>13, <2>2, AverageWithinPrices
  <2> QED BY <2>1, <2>2
<1>16. /\ seen.bid_qty = Sum(PythonTop.depth.bid_levels)
       /\ seen.ask_qty = Sum(PythonTop.depth.ask_levels)
       /\ seen.bid_qty + seen.ask_qty + 2 * stats.total_qty = asked
  BY <1>6, <1>7, <1>8, <1>13, <1>14
<1>17. /\ seen.prices.best_bid = FirstPrice(PythonTop.depth.bid_levels)
       /\ seen.prices.best_ask = FirstPrice(PythonTop.depth.ask_levels)
  BY <1>5, <1>7, <1>12
<1> QED BY <1>10, <1>11, <1>15, <1>16, <1>17 DEF Balanced, seen, stats, Sum

\* Whatever its callers pass, the Python engine's lists, in no order between
\* calls, are reported truly: best prices that never cross, levels that add up to
\* what rests, and all that was asked either resting or traded, once by each party.
THEOREM PythonReports ==
    ASSUME Prices \subseteq Int, Quantities \subseteq Nat, Timestamps \subseteq Nat
    PROVE  Python!Spec => []ReportsBalance
<1>1. Python!Init => RInv  BY InitRInv
<1>2. RInv /\ [Python!Next]_(Python!vars) => RInv'  BY NextRInv
<1>3. RInv => ReportsBalance
  BY ReportsOfIdle DEF ReportsBalance, Balanced, PythonTop
<1> QED BY <1>1, <1>2, <1>3, PTL DEF Python!Spec
============================================================================

-------------------------- MODULE MCMatchingEngine --------------------------
(***************************************************************************)
(* A small instance of MatchingEngine: four orders.  A valid order has one *)
(* of five kinds on either side: two prices, quantities 1 and 2, and for   *)
(* price 1 and quantity 1 two timestamps, so that fills of either party,   *)
(* ties by arrival and timestamps that go backwards occur; one input of    *)
(* each kind the validation refuses.  Arrays of one element grow on the    *)
(* second order and on the third; the counter reaches its limit of four.   *)
(***************************************************************************)
EXTENDS EngineViews

Kind(p, q, t) == [side: {BUY, SELL}, price: {p}, quantity: {q}, timestamp: {t}]

ValidInputs ==
    Kind(1, 1, 0) \cup Kind(1, 1, 1) \cup Kind(1, 2, 0) \cup Kind(2, 1, 0) \cup Kind(2, 2, 1)

Refused ==
    { [side |-> 2,   price |-> 1, quantity |-> 1, timestamp |-> 0],
      [side |-> BUY, price |-> 0, quantity |-> 1, timestamp |-> 0],
      [side |-> BUY, price |-> 1, quantity |-> 0, timestamp |-> 0] }

SmallInputs == ValidInputs \cup Refused
=============================================================================

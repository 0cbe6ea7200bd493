---------------------------- MODULE MCTradeQueue ----------------------------
(***************************************************************************)
(* A small instance of TradeQueue.  Three producers race for a slot while  *)
(* two consumers race for an event; every backpressure policy is an        *)
(* initial state.  There is no symmetry: the run checks liveness too.      *)
(***************************************************************************)
EXTENDS TradeQueue, TLC

CONSTANTS p1, p2, p3, c1, c2

ThreeProducers == {p1, p2, p3}
TwoConsumers   == {c1, c2}
=============================================================================

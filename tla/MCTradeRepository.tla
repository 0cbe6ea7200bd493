------------------------- MODULE MCTradeRepository -------------------------
(***************************************************************************)
(* A small instance of TradeRepository: two processes that save batches    *)
(* sharing trades, one batch with a trade twice, one with a trade that     *)
(* overflows after one that does not, one with a NULL column.              *)
(***************************************************************************)
EXTENDS TradeRepository

CONSTANTS a, b, huge, nan

AllTrades == {a, b, huge, nan}

SmallBatches == {<<a, b>>, <<b, b>>, <<a, huge>>, <<nan, b>>}
============================================================================

---------------------------- MODULE MCLockedRing ----------------------------
(***************************************************************************)
(* OrderPipeline for TLC.  Callers give every combination of the values at *)
(* the edges of what create_order and struct.pack take; the ring carries   *)
(* three of the records that come out: a buy, a sell, an infinite price.   *)
(***************************************************************************)
EXTENDS OrderPipeline

EdgeInputs ==
    [order_id: {-1, 0, WordLimit - 1, WordLimit}, side: {"BUY", "sell", "HOLD"},
     price: {0, 1, Infinity, NaN}, quantity: {0, 1, WordLimit}, timestamp_ns: {-1, 0, 2}]

SomeRecords ==
    {r \in PackedRecords : /\ r[1] = 0 /\ r[5] = 2
                           /\ <<r[2], r[3]>> \in {<<BUY, 1>>, <<SELL, 1>>, <<BUY, Infinity>>}}
BadRecords  == SomeRecords \cap RefusedRecords
=============================================================================

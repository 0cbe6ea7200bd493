----------------------------- MODULE EngineBook -----------------------------
(***************************************************************************)
(* The fields that every engine of the program has, compiled or in Python, *)
(* and readers look at: two sequences of resting orders, the trades, the   *)
(* counter; and the call that is running.                                  *)
(***************************************************************************)
EXTENDS Integers, Sequences

CONSTANT MaxOrders    \* bound: orders submitted

BUY  == 0
SELL == 1

VARIABLES
    order_count, buy_orders, sell_orders, trades,   \* the engine's fields
    pc,               \* "idle" | "match" | "batch", of the compiled engine
    order             \* the order that is being matched, or NoOrder

NoOrder == [order_id |-> 0, side |-> BUY, price |-> 0, quantity |-> 0, timestamp |-> 0]
=============================================================================

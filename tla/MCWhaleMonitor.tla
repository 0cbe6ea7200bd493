--------------------------- MODULE MCWhaleMonitor ---------------------------
(***************************************************************************)
(* A small instance of WhaleMonitor: an order of two can take two orders   *)
(* of one, at one price or at two, which reaches the lower threshold.      *)
(***************************************************************************)
EXTENDS WhaleMonitor

TwoPrices     == {1, 2}
OneOrTwo      == {1, 2}
TwoThresholds == {2, 3}
ArrivedOrders == [order_id: 1 .. MaxOrders, side: {BUY, SELL}, price: Prices,
                  quantity: Quantities, timestamp: {0}]
=============================================================================

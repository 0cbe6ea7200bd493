------------------------- MODULE MCReferenceEngine -------------------------
(***************************************************************************)
(* Small instances of ReferenceEngine: two prices, two timestamps, orders  *)
(* of quantity 0 to 2 (nothing refuses 0), four orders.                    *)
(***************************************************************************)
EXTENDS ReferenceEngine

TwoPrices == {1, 2}
ZeroToTwo == {0, 1, 2}
OneOrTwo  == {1, 2}
One       == {1}
OneTime   == {0}
TwoTimes  == {0, 1}
============================================================================

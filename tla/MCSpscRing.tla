----------------------------- MODULE MCSpscRing -----------------------------
(***************************************************************************)
(* SpscRing for TLC: every bound is a number given in the configuration.   *)
(***************************************************************************)
EXTENDS SpscRing
=============================================================================

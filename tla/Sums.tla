-------------------------------- MODULE Sums --------------------------------
(***************************************************************************)
(* The sum of a sequence of numbers.                                       *)
(***************************************************************************)
EXTENDS Integers, Sequences

SumOf(w) ==
    LET upto[n \in 0 .. Len(w)] == IF n = 0 THEN 0 ELSE upto[n - 1] + w[n]
    IN  upto[Len(w)]
=============================================================================

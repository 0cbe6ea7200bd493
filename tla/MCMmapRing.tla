----------------------------- MODULE MCMmapRing -----------------------------
(***************************************************************************)
(* MmapRing for TLC.  Two threads of one object may overwrite or not; two  *)
(* processes do not overwrite: between them an overwriting writer can tear *)
(* the record that is being copied, and nothing promises otherwise.        *)
(***************************************************************************)
EXTENDS MmapRing

Threads   == [one_object |-> TRUE,  overwrites |-> {TRUE, FALSE}]
Processes == [one_object |-> FALSE, overwrites |-> {FALSE}]

BothUses == {Threads, Processes}
=============================================================================

------------------------ MODULE MCPersistenceWorker ------------------------
(***************************************************************************)
(* Small instances of PersistenceWorker, for a queue of two and batches of *)
(* two: evictions, a held batch with newer trades behind it, and starts    *)
(* after a stop.                                                           *)
(*   PersistenceWorker.cfg      six trades, every stop waits for its thread *)
(*   PersistenceTwoThreads.cfg  a start after a timed-out stop             *)
(*   PersistenceExit.cfg        an exit after a timed-out stop             *)
(***************************************************************************)
EXTENDS PersistenceWorker
=============================================================================

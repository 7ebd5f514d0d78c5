--------------------------- MODULE MCWorkerRunner ---------------------------
(* Instances of WorkerRunner for TLC. *)
EXTENDS WorkerRunner, TLC
=============================================================================

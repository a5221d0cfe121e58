---------------------------- MODULE MCWorkerPool ----------------------------
(* Instances of WorkerPool for TLC. *)
EXTENDS WorkerPool

CONSTANTS w1, w2, t1, t2
=============================================================================

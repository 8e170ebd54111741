---------------------------- MODULE MCWorkerPool ----------------------------
(* Instances of WorkerPool for TLC: the names of calls and broadcasts. *)
EXTENDS WorkerPool

CONSTANTS c1, c2, b1, b2
=============================================================================

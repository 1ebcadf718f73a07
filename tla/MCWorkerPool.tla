----------------------------- MODULE MCWorkerPool -----------------------------
(* Instances of WorkerPool for TLC; the constants are given in the cfg files. *)
EXTENDS WorkerPool
=============================================================================

------------------------------ MODULE MCSemaphore ------------------------------
(* Instances of Semaphore for TLC; the constants are given in the cfg file. *)
EXTENDS Semaphore
=============================================================================

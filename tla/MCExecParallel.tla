---------------------------- MODULE MCExecParallel ----------------------------
(* Instances of ExecParallel for TLC; the constants are given in the cfg files. *)
EXTENDS ExecParallel
=============================================================================

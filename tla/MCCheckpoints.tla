--------------------------- MODULE MCCheckpoints ---------------------------
(* Checkpoints for TLC: the ids 1 and 3 share a step.                      *)
EXTENDS Checkpoints, TLC

CONSTANTS engine, operator

TwoClients == {engine, operator}
Symmetry   == Permutations(TwoClients)
SomeSteps  == <<2, 1, 2>>
=============================================================================

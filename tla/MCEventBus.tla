---------------------------- MODULE MCEventBus ----------------------------
(* EventBus for TLC: a pattern of every shape, and names they hit or miss. *)
EXTENDS EventBus, TLC

CONSTANTS t1, t2

TwoThreads == {t1, t2}
Symmetry   == Permutations(TwoThreads)

(* a.b, *, a.*, *.b, and the names "", a, a.b                              *)
SomePatterns == {<<"a", "b">>, <<"*">>, <<"a", "*">>, <<"*", "b">>}
SomeEvents   == {<<"">>, <<"a">>, <<"a", "b">>}
=============================================================================

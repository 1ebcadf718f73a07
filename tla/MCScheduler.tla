------------------------------ MODULE MCScheduler ------------------------------
(* Instances of Scheduler for TLC: intervals, and the symmetry of the threads. *)
EXTENDS Scheduler, TLC

\* The last is the largest a script can pass: its float is cast with saturation.
ShortAndLongest == {1, 2, Word - 1}
Interchangeable == Permutations(Threads)
=============================================================================

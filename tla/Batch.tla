-------------------------------- MODULE Batch --------------------------------
(***************************************************************************)
(* What the EXEC phase relies on when it hands its jobs to the pool: one   *)
(* batch at a time is submitted, jobs come to their end in any order, and  *)
(* the batch is answered exactly once: with the outcome of every job, in   *)
(* the order in which they were dispatched, or with an error, or, if there *)
(* is a deadline, with a timeout.  Threads, queues and channels are not    *)
(* part of the promise.                                                    *)
(***************************************************************************)
EXTENDS Integers, Sequences

CONSTANTS NumJobs, HasDeadline

VARIABLES status, size, ended, out

vars == <<status, size, ended, out>>

InOrder(n) == [i \in 1..n |-> i]

Init == status = "none" /\ size = 0 /\ ended = {} /\ out = <<>>

\* A batch without jobs is answered on the spot.
Submit == /\ status # "running"
          /\ size' \in 0..NumJobs /\ ended' = {} /\ out' = <<>>
          /\ status' = IF size' = 0 THEN "ok" ELSE "running"

JobEnds == /\ status = "running"
           /\ \E j \in (1..size) \ ended : ended' = ended \cup {j}
           /\ UNCHANGED <<status, size, out>>

Complete == /\ status = "running" /\ ended = 1..size
            /\ status' = "ok" /\ out' = InOrder(size)
            /\ UNCHANGED <<size, ended>>

\* A job that failed or died has no outcome to wait for; the others' are discarded.
GiveUp == /\ status = "running"
          /\ status' \in {"error"} \cup IF HasDeadline THEN {"timeout"} ELSE {}
          /\ ended' = {} /\ UNCHANGED <<size, out>>

Answer == Complete \/ GiveUp

Next == Submit \/ JobEnds \/ Answer

Spec == Init /\ [][Next]_vars /\ WF_vars(Answer)
=============================================================================

--------------------------- MODULE CountingSemaphore ---------------------------
(***************************************************************************)
(* What the workers of exec.parallel rely on when they share a semaphore:  *)
(* who asks for a permit gets one when one is free, as one step; who is    *)
(* inside gives it back; and while somebody asks, no permit stays free for *)
(* ever.  Who of several gets it is left open, so that one thread may be   *)
(* passed over again and again.  Mutex, condition variable and the value a *)
(* thread read from the counter are not part of the promise.               *)
(***************************************************************************)
EXTENDS Integers

CONSTANTS Threads, Permits

VARIABLES free, asking, inside

vars == <<free, asking, inside>>

Init == free = Permits /\ asking = {} /\ inside = {}

Ask(t) ==
  /\ t \notin asking \cup inside
  /\ asking' = asking \cup {t} /\ UNCHANGED <<free, inside>>

Acquire(t) ==
  /\ t \in asking /\ free > 0
  /\ free' = free - 1 /\ asking' = asking \ {t} /\ inside' = inside \cup {t}

Release(t) ==
  /\ t \in inside
  /\ free' = free + 1 /\ inside' = inside \ {t} /\ UNCHANGED asking

Grant == \E t \in Threads : Acquire(t)

Next == Grant \/ \E t \in Threads : Ask(t) \/ Release(t)

Spec == Init /\ [][Next]_vars /\ WF_vars(Grant)
=============================================================================

------------------------------- MODULE Semaphore -------------------------------
(***************************************************************************)
(* The counting semaphore of exec.parallel                                 *)
(* (src/interpreter/builtins/exec.rs): an atomic counter of permits, and a *)
(* mutex and a condition variable for those who find none.                 *)
(*                                                                         *)
(* acquire tries the counter without a lock and, if that fails, looks at   *)
(* it again under the mutex before it sleeps; release adds the permit,     *)
(* then takes the mutex to notify one sleeper.  One step is one access to  *)
(* the counter, the mutex or the condition variable.  As in std, a wait    *)
(* gives up the mutex and falls asleep in one step, and may return for no  *)
(* reason.                                                                 *)
(***************************************************************************)
EXTENDS Integers, FiniteSets

CONSTANTS
  Threads,
  Permits,   \* the argument of `new`
  Rounds,    \* how often each thread acquires and releases
  Spurious   \* bound on the wake-ups for no reason

Nobody == "nobody"

ASSUME SemaphoreAssumption ==
  /\ IsFiniteSet(Threads) /\ Nobody \notin Threads
  /\ Permits \in Nat \ {0} /\ Rounds \in Nat /\ Spurious \in Nat

VARIABLES
  permits,
  mutex,     \* who holds it, or Nobody
  asleep,    \* the threads the condition variable may notify
  point,        \* where each thread is
  current,   \* what each thread read from the counter
  rounds,    \* rounds each thread has begun
  spurious   \* wake-ups for no reason so far

semaphoreVars == <<permits, mutex, asleep, point, current, rounds, spurious>>

Move(t, place) == point' = [point EXCEPT ![t] = place]

SemaphoreInit ==
  /\ permits = Permits /\ mutex = Nobody /\ asleep = {}
  /\ point = [t \in Threads |-> "idle"] /\ current = [t \in Threads |-> 0]
  /\ rounds = [t \in Threads |-> 0] /\ spurious = 0

-----------------------------------------------------------------------------
(* acquire *)

Begin(t) ==
  /\ point[t] = "idle" /\ rounds[t] < Rounds
  /\ rounds' = [rounds EXCEPT ![t] = @ + 1]
  /\ Move(t, "load")
  /\ UNCHANGED <<permits, mutex, asleep, current, spurious>>

Load(t) ==
  /\ point[t] = "load"
  /\ current' = [current EXCEPT ![t] = permits]
  /\ Move(t, IF permits > 0 THEN "swap" ELSE "lock")
  /\ UNCHANGED <<permits, mutex, asleep, rounds, spurious>>

\* A slip: the counter is written back without a look at what it is now.
StoreBack(t) ==
  /\ point[t] = "swap"
  /\ permits' = current[t] - 1 /\ Move(t, "inside")
  /\ UNCHANGED <<mutex, asleep, current, rounds, spurious>>
\* compare_exchange
Swap(t) ==
  /\ point[t] = "swap"
  /\ IF permits = current[t] THEN permits' = permits - 1 /\ Move(t, "inside")
                             ELSE Move(t, "lock") /\ UNCHANGED permits
  /\ UNCHANGED <<mutex, asleep, current, rounds, spurious>>

Lock(t) ==
  /\ point[t] = "lock" /\ mutex = Nobody
  /\ mutex' = t /\ Move(t, "recheck")
  /\ UNCHANGED <<permits, asleep, current, rounds, spurious>>

\* A slip: what was read without the mutex is good enough to sleep on.
NoRecheck(t) ==
  /\ point[t] = "recheck" /\ Move(t, "wait")
  /\ UNCHANGED <<permits, mutex, asleep, current, rounds, spurious>>
\* A slip: who finds a permit under the mutex looks again instead of taking it.
RecheckAgain(t) ==
  /\ point[t] = "recheck"
  /\ IF permits > 0 THEN Move(t, "lock") /\ mutex' = Nobody
                    ELSE Move(t, "wait") /\ UNCHANGED mutex
  /\ UNCHANGED <<permits, asleep, current, rounds, spurious>>
\* Only what the counter says under the mutex decides whether to sleep.
Recheck(t) ==
  /\ point[t] = "recheck"
  /\ IF permits > 0 THEN Move(t, "load") /\ mutex' = Nobody
                    ELSE Move(t, "wait") /\ UNCHANGED mutex
  /\ UNCHANGED <<permits, asleep, current, rounds, spurious>>

Wait(t) ==
  /\ point[t] = "wait"
  /\ mutex' = Nobody /\ asleep' = asleep \cup {t} /\ Move(t, "sleep")
  /\ UNCHANGED <<permits, current, rounds, spurious>>

SpuriousWake(t) ==
  /\ t \in asleep /\ spurious < Spurious
  /\ asleep' = asleep \ {t} /\ spurious' = spurious + 1
  /\ UNCHANGED <<permits, mutex, point, current, rounds>>

\* A slip: who was woken takes the permit it was woken for.
WakeTakes(t) ==
  /\ point[t] = "sleep" /\ t \notin asleep /\ mutex = Nobody
  /\ permits' = permits - 1 /\ Move(t, "inside")
  /\ UNCHANGED <<mutex, asleep, current, rounds, spurious>>
\* wait returns with the mutex, which is dropped at once.
Wake(t) ==
  /\ point[t] = "sleep" /\ t \notin asleep /\ mutex = Nobody
  /\ Move(t, "load")
  /\ UNCHANGED <<permits, mutex, asleep, current, rounds, spurious>>

-----------------------------------------------------------------------------
(* release *)

Add(t) ==
  /\ point[t] = "inside"
  /\ permits' = permits + 1 /\ Move(t, "notify")
  /\ UNCHANGED <<mutex, asleep, current, rounds, spurious>>

\* notify_one under the mutex, which is held for nothing else.
Notify(t) ==
  /\ point[t] = "notify" /\ mutex = Nobody
  /\ IF asleep = {} THEN UNCHANGED asleep
                    ELSE \E u \in asleep : asleep' = asleep \ {u}
  /\ Move(t, "idle")
  /\ UNCHANGED <<permits, mutex, current, rounds, spurious>>

-----------------------------------------------------------------------------
Step(t) ==
  \/ Begin(t) \/ Load(t) \/ Swap(t) \/ Lock(t) \/ Recheck(t) \/ Wait(t) \/ Wake(t)
  \/ Add(t) \/ Notify(t)

AllDone == \A t \in Threads : point[t] = "idle" /\ rounds[t] = Rounds
SemaphoreDone == AllDone /\ UNCHANGED semaphoreVars

SemaphoreNext == SemaphoreDone \/ \E t \in Threads : Step(t) \/ SpuriousWake(t)

\* Threads run.  Neither the mutex nor the condition variable is fair.
SemaphoreSpec ==
  /\ SemaphoreInit /\ [][SemaphoreNext]_semaphoreVars
  /\ \A t \in Threads : WF_semaphoreVars(Step(t))

-----------------------------------------------------------------------------
(* Properties *)

Points == {"idle", "load", "swap", "lock", "recheck", "wait", "sleep", "inside", "notify"}

\* Every variable holds a value of its kind, and the mutex is held by who is at
\* the point of the code that holds it.
SemaphoreTypeOK ==
  /\ permits \in Nat /\ mutex \in Threads \cup {Nobody} /\ asleep \subseteq Threads
  /\ point \in [Threads -> Points] /\ current \in [Threads -> Nat]
  /\ rounds \in [Threads -> 0..Rounds] /\ spurious \in 0..Spurious
  /\ \A t \in Threads : point[t] \in {"recheck", "wait"} <=> mutex = t
  /\ \A t \in asleep : point[t] = "sleep"

At(places) == {t \in Threads : point[t] \in places}

\* No permit is lost or made up, whatever acquires and releases overlap: those free
\* and those inside add up to what there was.  In particular no more than Permits
\* threads are inside.
PermitsConserved == permits + Cardinality(At({"inside"})) = Permits

\* Whoever may still take a permit, or is about to wake somebody who may.
OnTheirWay == At({"load", "swap", "lock", "recheck", "notify"}) \cup (At({"sleep"}) \ asleep)

\* No wake-up is lost: while somebody sleeps there are no more free permits than
\* threads on their way to take one or to wake somebody up.
NoLostWakeup == asleep # {} => permits <= Cardinality(OnTheirWay)

\* Every acquire and every release comes to an end.
AllPairsComplete == <>[]AllDone

\* From outside there are only requests, permits taken and permits given back, each in
\* one step: a swap that takes a permit somebody else took, or lets in a thread that
\* saw an older counter, would not be such a step; and a permit nobody takes although
\* somebody asks for one would break the promise's fairness.
Counter == INSTANCE CountingSemaphore WITH
  free <- permits, inside <- At({"inside"}),
  asking <- At({"load", "swap", "lock", "recheck", "wait", "sleep"})
ImplementsPermits == Counter!Spec
=============================================================================

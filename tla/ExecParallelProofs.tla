-------------------------- MODULE ExecParallelProofs --------------------------
(***************************************************************************)
(* A call of exec.parallel, for any number of commands and any limit.      *)
(*                                                                         *)
(* The bound on concurrent processes, the bound on late starts, and that a *)
(* permit is always at hand.  A process belongs to the worker that started *)
(* it until that worker takes another command; and a worker that leaves a  *)
(* live process behind has set `cancelled`, so it takes none, or has died, *)
(* or waiting for it failed and the process is counted by itself.          *)
(*                                                                         *)
(* The answer: every command taken has one entry in the channel or in what *)
(* is collected, or one worker that has it in hand or died with it; so the *)
(* answer has one entry for each command but those never taken, and the    *)
(* sort at the end puts them in order.                                     *)
(*                                                                         *)
(* The last part is about the semaphore of the call (module Semaphore).    *)
(***************************************************************************)
EXTENDS ExecParallel, Semaphore, RankingProofs

\* The part of the types the bounds rest on.
Typed ==
  /\ call.limit \in Workers /\ call.n \in Commands
  /\ cancelled \in BOOLEAN /\ nextIdx \in Nat \ {0}
  /\ pc \in [Workers -> Places] /\ idx \in [Workers -> Commands \cup {0}]
  /\ child \in [Commands -> {"none", "running", "ended", "unwaited", "abandoned", "orphaned"}]
  /\ late \in [Workers -> Nat]

\* A worker at work is one of the first `limit` and has a command in its hands.
Engaged ==
  \A w \in Workers :
    /\ pc[w] # "unborn" => w <= call.limit
    /\ pc[w] \in {"acquire", "start", "run", "grace"} => idx[w] \in Commands
    /\ pc[w] = "grace" => cancelled

\* Worker w answers for the process of command i: it waits for it, or left it behind
\* and will take no other, or died with it.
Answers(w, i) ==
  /\ idx[w] = i
  /\ \/ pc[w] \in {"run", "grace", "panicked"}
     \/ cancelled /\ pc[w] \in {"release", "send", "loop", "ended"}
Attended == Alive \ Abandoned
Owned == \A i \in Attended : \E w \in 1..call.limit : Answers(w, i)

\* A worker that has started a command after the return starts no other.
LastStart ==
  \A w \in Workers :
    /\ late[w] <= 1
    /\ late[w] > 0 => Returned /\ pc[w] \in {"run", "grace", "release", "send", "ended"}

ExecInv == Typed /\ Engaged /\ Owned /\ LastStart

-----------------------------------------------------------------------------
\* What the steps of the caller, and of the processes, leave alone.
CallerStep == Call /\ ~SpawnWorker
LEMMA CallerFrame ==
  CallerStep => UNCHANGED <<call, nextIdx, cancelled, pc, idx, child, late>>
                /\ (Returned => Returned')
BY DEF CallerStep, Call, StartCollecting, Receive, CollectEnds, GiveUp, Join, args,
       workerVars, sharedVars, Returned

LEMMA TypedStep == Typed /\ Engaged /\ [Next]_vars => Typed' /\ Engaged'
<1> SUFFICES ASSUME Typed, Engaged, [Next]_vars PROVE Typed' /\ Engaged'
  OBVIOUS
<1> USE ExecAssumption DEF Typed, Engaged, Places, NumWorkers
<1>1. ASSUME NEW w \in Workers, Work(w) PROVE Typed' /\ Engaged'
  <2> USE <1>1 DEF Go, args, callerVars, sharedVars
  <2>1. CASE CheckCancelled(w)
    BY <2>1 DEF CheckCancelled
  <2>2. CASE TakeNext(w)
    <3>1. CASE nextIdx > call.n
      BY <2>2, <3>1 DEF TakeNext
    <3>2. CASE ~(nextIdx > call.n)
      <4>1. nextIdx \in Commands
        BY <3>2 DEF Commands
      <4> QED
        BY <2>2, <3>2, <4>1 DEF TakeNext
    <3> QED
      BY <3>1, <3>2
  <2>3. CASE Acquire(w)
    BY <2>3 DEF Acquire
  <2>4. CASE SpawnFails(w)
    BY <2>4 DEF SpawnFails, Report
  <2>5. CASE SpawnChild(w)
    BY <2>5 DEF SpawnChild
  <2>6. CASE WaiterPanics(w)
    BY <2>6 DEF WaiterPanics
  <2>7. CASE WaitEnds(w)
    BY <2>7 DEF WaitEnds, Report
  <2>8. CASE TimeOut(w)
    BY <2>8 DEF TimeOut, Killed
  <2>9. CASE EndGrace(w)
    BY <2>9 DEF EndGrace, Report
  <2>10. CASE Release(w)
    BY <2>10 DEF Release
  <2>11. CASE Send(w)
    BY <2>11 DEF Send
  <2> QED
    BY <2>1, <2>2, <2>3, <2>4, <2>5, <2>6, <2>7, <2>8, <2>9, <2>10, <2>11 DEF Work
<1>2. CASE SpawnWorker
  <2>1. PICK w \in 1..NumWorkers : pc[w] = "unborn" /\ Go(w, "loop")
    BY <1>2 DEF SpawnWorker
  <2>2. w \in Workers /\ w <= call.limit
    BY <2>1 DEF Workers, Commands
  <2> HIDE DEF NumWorkers
  <2> QED
    BY <1>2, <2>1, <2>2 DEF SpawnWorker, Go, args, callerVars, sharedVars
<1>3. CASE CallerStep
  BY <1>3, CallerFrame
<1>4. ASSUME NEW i \in Commands, Exit(i) \/ WaitFails(i) PROVE Typed' /\ Engaged'
  BY <1>4 DEF Exit, WaitFails, args, callerVars, sharedVars, workerVars
<1>5. CASE UNCHANGED vars
  BY <1>5 DEF vars, args, callerVars, sharedVars, workerVars
<1> QED
  BY <1>1, <1>2, <1>3, <1>4, <1>5 DEF Next, CallerStep, Done

\* Every live process that is not abandoned keeps a worker that answers for it.
LEMMA OwnedStep == Typed /\ Engaged /\ Owned /\ [Next]_vars => Owned'
<1> SUFFICES ASSUME Typed, Engaged, Owned, [Next]_vars,
                    NEW i \in Attended'
             PROVE  \E w \in 1..call'.limit : Answers(w, i)'
  BY DEF Owned
<1> USE ExecAssumption DEF Typed, Places, Attended, Alive, Abandoned
<1>a. i \in Commands /\ 1..call.limit \subseteq Workers
  BY DEF Workers
<1>1. ASSUME NEW w \in Workers, Work(w) PROVE \E u \in 1..call'.limit : Answers(u, i)'
  <2> USE <1>1, <1>a DEF Go, args, callerVars, sharedVars
  <2>1. CASE (SpawnChild(w) \/ WaiterPanics(w)) /\ i = idx[w]
    <3>1. w \in 1..call.limit /\ call' = call
      BY <2>1 DEF SpawnChild, WaiterPanics, Engaged, Workers
    <3>2. Answers(w, i)'
      BY <2>1 DEF SpawnChild, WaiterPanics, Answers
    <3> QED
      BY <3>1, <3>2
  <2>2. CASE ~((SpawnChild(w) \/ WaiterPanics(w)) /\ i = idx[w])
    <3>1. i \in Attended /\ call' = call
      <4>1. CASE SpawnChild(w) \/ WaiterPanics(w)
        BY <2>2, <4>1 DEF SpawnChild, WaiterPanics, Engaged
      <4>2. CASE WaitEnds(w)
        BY <4>2 DEF WaitEnds, Engaged
      <4>3. CASE TimeOut(w)
        BY <4>3 DEF TimeOut, Killed, Engaged
      <4>4. CASE CheckCancelled(w) \/ TakeNext(w) \/ Acquire(w) \/ SpawnFails(w) \/ EndGrace(w)
                 \/ Release(w) \/ Send(w)
        BY <4>4 DEF CheckCancelled, TakeNext, Acquire, SpawnFails, EndGrace, Release, Send
      <4> QED
        BY <4>1, <4>2, <4>3, <4>4 DEF Work
    <3>2. PICK u \in 1..call.limit : Answers(u, i)
      BY <3>1 DEF Owned
    <3>3. CASE u # w
      <4>1. pc'[u] = pc[u] /\ idx'[u] = idx[u] /\ (cancelled => cancelled')
        BY <3>3 DEF Work, CheckCancelled, TakeNext, Acquire, SpawnFails, SpawnChild, WaiterPanics,
                    WaitEnds, TimeOut, EndGrace, Release, Send, Report
      <4> QED
        BY <3>1, <3>2, <4>1 DEF Answers
    <3>4. CASE u = w
      <4>1. CASE CheckCancelled(w)
        BY <3>1, <3>2, <3>4, <4>1 DEF CheckCancelled, Answers
      <4>2. CASE TakeNext(w) \/ Acquire(w) \/ SpawnFails(w) \/ SpawnChild(w) \/ WaiterPanics(w)
        BY <3>2, <3>4, <4>2
        DEF TakeNext, Acquire, SpawnFails, SpawnChild, WaiterPanics, Answers
      <4>3. CASE WaitEnds(w)
        BY <3>1, <3>2, <3>4, <4>3 DEF WaitEnds, Answers
      <4>4. CASE TimeOut(w)
        BY <3>1, <3>2, <3>4, <4>4 DEF TimeOut, Answers
      <4>5. CASE EndGrace(w)
        BY <3>1, <3>2, <3>4, <4>5 DEF EndGrace, Report, Answers, Engaged
      <4>6. CASE Release(w)
        BY <3>1, <3>2, <3>4, <4>6 DEF Release, Answers
      <4>7. CASE Send(w)
        BY <3>1, <3>2, <3>4, <4>7 DEF Send, Answers
      <4> QED
        BY <4>1, <4>2, <4>3, <4>4, <4>5, <4>6, <4>7 DEF Work
    <3> QED
      BY <3>3, <3>4
  <2> QED
    BY <2>1, <2>2
<1>2. CASE SpawnWorker
  <2>1. i \in Attended /\ call' = call
    BY <1>2 DEF SpawnWorker, args
  <2>2. PICK u \in 1..call.limit : Answers(u, i)
    BY <2>1 DEF Owned
  <2>3. Answers(u, i)'
    BY <1>2, <1>a, <2>2 DEF SpawnWorker, Answers, Go, sharedVars
  <2> QED
    BY <2>1, <2>3
<1>3. ASSUME UNCHANGED <<call, cancelled, pc, idx>>, i \in Attended
      PROVE  \E u \in 1..call'.limit : Answers(u, i)'
  BY <1>3 DEF Owned, Answers
<1>4. CASE CallerStep
  BY <1>3, <1>4, CallerFrame
<1>5. ASSUME NEW k \in Commands, Exit(k) \/ WaitFails(k)
      PROVE  \E u \in 1..call'.limit : Answers(u, i)'
  BY <1>3, <1>5 DEF Exit, WaitFails, args, sharedVars, workerVars
<1>6. CASE UNCHANGED vars
  BY <1>3, <1>6 DEF vars, args, sharedVars, workerVars
<1> QED
  BY <1>1, <1>2, <1>4, <1>5, <1>6 DEF Next, CallerStep, Done

\* Once the call has returned a worker stops as soon as it has something to send.
LEMMA LastStartStep == Typed /\ LastStart /\ [Next]_vars => LastStart'
<1> SUFFICES ASSUME Typed, LastStart, [Next]_vars PROVE LastStart'
  OBVIOUS
<1> USE DEF Typed, Places, LastStart
<1>1. ASSUME NEW w \in Workers, Work(w) PROVE LastStart'
  <2> USE <1>1 DEF Go, args, callerVars, sharedVars, Returned
  <2>1. CASE CheckCancelled(w) \/ TakeNext(w) \/ Acquire(w) \/ SpawnFails(w) \/ WaiterPanics(w)
    BY <2>1 DEF CheckCancelled, TakeNext, Acquire, SpawnFails, WaiterPanics, Report
  <2>2. CASE SpawnChild(w)
    BY <2>2 DEF SpawnChild
  <2>3. CASE WaitEnds(w) \/ TimeOut(w) \/ EndGrace(w) \/ Release(w)
    BY <2>3 DEF WaitEnds, TimeOut, EndGrace, Release, Report
  <2>4. CASE Send(w)
    BY <2>4 DEF Send
  <2> QED
    BY <2>1, <2>2, <2>3, <2>4 DEF Work
<1>2. CASE SpawnWorker
  BY <1>2 DEF SpawnWorker, Go, callerVars, Returned
<1>3. CASE CallerStep
  BY <1>3, CallerFrame
<1>4. ASSUME NEW i \in Commands, Exit(i) \/ WaitFails(i) PROVE LastStart'
  BY <1>4 DEF Exit, WaitFails, callerVars, workerVars, Returned
<1>5. CASE UNCHANGED vars
  BY <1>5 DEF vars, callerVars, workerVars, Returned
<1> QED
  BY <1>1, <1>2, <1>3, <1>4, <1>5 DEF Next, CallerStep, Done

-----------------------------------------------------------------------------
LEMMA InvHolds == Spec => []ExecInv
<1>1. Init => ExecInv
  <2> SUFFICES ASSUME Init PROVE ExecInv
    OBVIOUS
  <2>1. Typed
    <3>1. call.limit \in Workers /\ call.n \in Commands
      BY DEF Init
    <3>2. cancelled \in BOOLEAN
      BY DEF Init
    <3>4. nextIdx \in Nat \ {0}
      BY DEF Init
    <3>3. /\ pc \in [Workers -> Places] /\ idx \in [Workers -> Commands \cup {0}]
          /\ child \in [Commands -> {"none", "running", "ended", "unwaited", "abandoned", "orphaned"}]
          /\ late \in [Workers -> Nat]
      BY DEF Init, Places
    <3> QED
      BY <3>1, <3>2, <3>3, <3>4 DEF Typed
  <2>2. Attended = {}
    BY DEF Init, Attended, Alive
  <2> QED
    BY <2>1, <2>2 DEF Init, ExecInv, Engaged, Owned, LastStart
<1>2. ExecInv /\ [Next]_vars => ExecInv'
  BY TypedStep, OwnedStep, LastStartStep DEF ExecInv
<1> QED
  BY <1>1, <1>2, PTL DEF Spec

\* exec_parallel: max_concurrent bounds the processes alive, those included that a kill
\* missed and those whose worker died, but for one more per process on which waiting
\* failed.  Any other live process has a worker that answers for it, and a worker
\* answers for one.
THEOREM ConcurrencyBounded == Spec => []AtMostConcurrent
<1>1. ExecInv => AtMostConcurrent
  <2> SUFFICES ASSUME ExecInv PROVE AtMostConcurrent
    OBVIOUS
  <2> DEFINE Slots == 1..call.limit
             owner == [i \in Attended |-> CHOOSE w \in Slots : Answers(w, i)]
  <2>1. \A i \in Attended : owner[i] \in Slots /\ idx[owner[i]] = i
    BY DEF ExecInv, Owned, Answers
  <2>2. owner \in Injection(Attended, Slots)
    BY <2>1 DEF Injection, IsInjective
  <2>3. IsFiniteSet(Slots) /\ Cardinality(Slots) = call.limit
    <3>1. call.limit \in Nat /\ 1 \in Int
      BY DEF ExecInv, Typed, Workers
    <3>2. IsFiniteSet(1..call.limit)
            /\ Cardinality(1..call.limit) = IF 1 > call.limit THEN 0 ELSE call.limit - 1 + 1
      BY <3>1, FS_Interval
    <3> QED
      BY <3>1, <3>2
  <2> HIDE DEF owner, Slots
  <2>4. IsFiniteSet(Attended) /\ Cardinality(Attended) <= call.limit
    BY <2>2, <2>3, FS_Injection
  <2>5. IsFiniteSet(Abandoned)
    <3>1. Abandoned \subseteq 1..MaxCommands /\ MaxCommands \in Int /\ 1 \in Int
      BY ExecAssumption DEF Abandoned, Commands
    <3> QED
      BY <3>1, FS_Interval, FS_Subset
  <2>6. Alive = Attended \cup Abandoned /\ Attended \cap Abandoned = {}
    BY DEF Attended, Alive, Abandoned
  <2>7. Cardinality(Attended) \in Nat /\ Cardinality(Abandoned) \in Nat /\ call.limit \in Nat
    BY <2>4, <2>5, FS_CardinalityType DEF ExecInv, Typed, Workers
  <2>8. Cardinality(Alive) = Cardinality(Attended) + Cardinality(Abandoned)
    BY <2>4, <2>5, <2>6, <2>7, FS_Union, FS_EmptySet
  <2> QED
    BY <2>4, <2>7, <2>8 DEF AtMostConcurrent
<1> QED
  BY <1>1, InvHolds, PTL

\* exec_parallel: after the return a worker left behind starts at most one command.
THEOREM LateStartsBounded == Spec => []FewLateStarts
<1>1. ExecInv => FewLateStarts
  BY DEF ExecInv, LastStart, FewLateStarts
<1> QED
  BY <1>1, InvHolds, PTL

-----------------------------------------------------------------------------
\* The workers that have a permit in their hands, a dead one with it included.
Holders == {w \in Workers : pc[w] \in {"start", "run", "grace", "release", "panicked"}}
Accounted == free = call.limit - Cardinality(Holders)

\* The holders are among the first call.limit workers, so they can be counted.
LEMMA HoldersCounted ==
  Typed /\ Engaged => /\ Holders \subseteq 1..call.limit /\ IsFiniteSet(Holders)
                      /\ Cardinality(Holders) \in Nat
<1> SUFFICES ASSUME Typed, Engaged
             PROVE  /\ Holders \subseteq 1..call.limit /\ IsFiniteSet(Holders)
                    /\ Cardinality(Holders) \in Nat
  OBVIOUS
<1>1. call.limit \in Nat /\ 1 \in Int
  BY ExecAssumption DEF Typed, Workers
<1>2. Holders \subseteq 1..call.limit
  BY <1>1 DEF Holders, Engaged, Workers
<1>3. IsFiniteSet(1..call.limit)
  BY <1>1, FS_Interval
<1> QED
  BY <1>2, <1>3, FS_Subset, FS_CardinalityType

\* Every step keeps the account: acquire and release are the only ones that change it.
LEMMA AccountedStep == Typed /\ Engaged /\ Accounted /\ [Next]_vars => Accounted'
<1> SUFFICES ASSUME Typed, Engaged, Accounted, [Next]_vars PROVE Accounted'
  OBVIOUS
<1>0. /\ IsFiniteSet(Holders) /\ Cardinality(Holders) \in Nat
      /\ call.limit \in Nat /\ pc \in [Workers -> Places]
  BY HoldersCounted DEF Typed, Workers
<1>1. ASSUME UNCHANGED <<free, call>>, Holders' = Holders PROVE Accounted'
  BY <1>1 DEF Accounted
<1>2. ASSUME NEW w \in Workers, Work(w) PROVE Accounted'
  <2> USE <1>0 DEF Go, Report, args, callerVars, sharedVars
  <2>1. CASE CheckCancelled(w) \/ TakeNext(w) \/ Send(w)
    <3>1. UNCHANGED <<free, call>>
      BY <2>1 DEF CheckCancelled, TakeNext, Send
    <3>2. Holders' = Holders
      BY <2>1 DEF CheckCancelled, TakeNext, Send, Holders
    <3> QED
      BY <1>1, <3>1, <3>2
  <2>2. CASE Acquire(w)
    <3>1. w \notin Holders /\ Holders' = Holders \cup {w}
      BY <2>2 DEF Acquire, Holders
    <3>2. Cardinality(Holders') = Cardinality(Holders) + 1
      BY <3>1, FS_AddElement
    <3>3. free' = free - 1 /\ call' = call
      BY <2>2 DEF Acquire
    <3> QED
      BY <3>2, <3>3 DEF Accounted
  <2>3. CASE SpawnFails(w) \/ SpawnChild(w) \/ WaiterPanics(w)
    <3>1. UNCHANGED <<free, call>>
      BY <2>3 DEF SpawnFails, SpawnChild, WaiterPanics
    <3>2. Holders' = Holders
      BY <2>3 DEF SpawnFails, SpawnChild, WaiterPanics, Holders
    <3> QED
      BY <1>1, <3>1, <3>2
  <2>4. CASE WaitEnds(w) \/ TimeOut(w) \/ EndGrace(w)
    <3>1. UNCHANGED <<free, call>>
      BY <2>4 DEF WaitEnds, TimeOut, EndGrace
    <3>2. Holders' = Holders
      BY <2>4 DEF WaitEnds, TimeOut, EndGrace, Holders
    <3> QED
      BY <1>1, <3>1, <3>2
  <2>5. CASE Release(w)
    <3>1. w \in Holders /\ Holders' = Holders \ {w}
      BY <2>5 DEF Release, Holders
    <3>2. Cardinality(Holders') = Cardinality(Holders) - 1
      BY <3>1, FS_RemoveElement
    <3>3. free' = free + 1 /\ call' = call
      BY <2>5 DEF Release
    <3> QED
      BY <3>2, <3>3 DEF Accounted
  <2> QED
    BY <1>2, <2>1, <2>2, <2>3, <2>4, <2>5 DEF Work
<1>3. CASE SpawnWorker
  <2>1. UNCHANGED <<free, call>>
    BY <1>3 DEF SpawnWorker, args, sharedVars
  <2>2. Holders' = Holders
    BY <1>0, <1>3 DEF SpawnWorker, Go, Holders
  <2> QED
    BY <1>1, <2>1, <2>2
<1>4. CASE CallerStep
  <2>1. UNCHANGED <<free, call, pc>>
    BY <1>4 DEF CallerStep, Call, StartCollecting, Receive, CollectEnds, GiveUp, Join, args,
                workerVars, sharedVars
  <2> QED
    BY <1>1, <2>1 DEF Holders
<1>5. ASSUME NEW i \in Commands, Exit(i) \/ WaitFails(i) PROVE Accounted'
  BY <1>1, <1>5 DEF Exit, WaitFails, args, sharedVars, workerVars, Holders
<1>6. CASE UNCHANGED vars
  BY <1>1, <1>6 DEF vars, args, sharedVars, workerVars, Holders
<1> QED
  BY <1>2, <1>3, <1>4, <1>5, <1>6 DEF Next, CallerStep, Done

\* exec_parallel: no worker ever sleeps in the semaphore.  There are as many permits as
\* workers, and who comes for one has none, so one is left -- also when others died
\* with theirs.
THEOREM PermitAtHand == Spec => []NobodyWaitsForAPermit
<1>1. Init => Accounted
  <2> SUFFICES ASSUME Init PROVE Accounted
    OBVIOUS
  <2>1. Holders = {} /\ free = call.limit /\ call.limit \in Nat
    BY DEF Init, Holders, Workers
  <2> QED
    BY <2>1, FS_EmptySet DEF Accounted
<1>2. ExecInv => Typed /\ Engaged
  BY DEF ExecInv
<1>3. Spec => []Accounted
  BY <1>1, <1>2, AccountedStep, InvHolds, PTL DEF Spec
<1>4. ASSUME ExecInv, Accounted, NEW w \in Workers, pc[w] = "acquire"
      PROVE  free > 0
  <2>0. Typed /\ Engaged
    BY <1>4 DEF ExecInv
  <2>1. /\ Holders \subseteq 1..call.limit /\ IsFiniteSet(Holders) /\ Cardinality(Holders) \in Nat
        /\ call.limit \in Nat /\ w \notin Holders /\ w \in 1..call.limit
    <3>1. Holders \subseteq 1..call.limit /\ IsFiniteSet(Holders) /\ Cardinality(Holders) \in Nat
      BY <2>0, HoldersCounted
    <3>2. call.limit \in Nat
      BY <2>0, ExecAssumption DEF Typed, Workers
    <3>3. w \notin Holders
      BY <1>4 DEF Holders
    <3>4. w \in 1..call.limit
      BY <1>4, <2>0, <3>2, ExecAssumption DEF Engaged, Workers
    <3> QED
      BY <3>1, <3>2, <3>3, <3>4
  <2>2. Cardinality(Holders \cup {w}) = Cardinality(Holders) + 1
    BY <2>1, FS_AddElement
  <2>3. IsFiniteSet(1..call.limit) /\ Cardinality(1..call.limit) = call.limit
    <3>1. 1 \in Int /\ call.limit \in Int
      BY <2>1
    <3>2. IsFiniteSet(1..call.limit)
            /\ Cardinality(1..call.limit) = IF 1 > call.limit THEN 0 ELSE call.limit - 1 + 1
      BY <3>1, FS_Interval
    <3> QED
      BY <2>1, <3>2
  <2>4. Cardinality(Holders \cup {w}) <= Cardinality(1..call.limit)
    BY <2>1, <2>3, FS_Subset
  <2> QED
    BY <1>4, <2>1, <2>2, <2>3, <2>4 DEF Accounted
<1>5. ExecInv /\ Accounted => NobodyWaitsForAPermit
  BY <1>4 DEF NobodyWaitsForAPermit
<1> QED
  BY <1>3, <1>5, InvHolds, PTL

-----------------------------------------------------------------------------
\* Lists of entries: the commands they are about, and whether one tells of a timeout.
Once(s) == \A j, k \in DOMAIN s : s[j].idx = s[k].idx => j = k
TellsTimeout(s) == \E k \in DOMAIN s : s[k].kind = "timeout"

LEMMA EntryAdded ==
  ASSUME NEW s \in Seq(Entry), NEW e \in Entry
  PROVE  /\ Append(s, e) \in Seq(Entry) /\ Indices(Append(s, e)) = Indices(s) \cup {e.idx}
         /\ Once(s) /\ e.idx \notin Indices(s) => Once(Append(s, e))
         /\ TellsTimeout(s) \/ e.kind = "timeout" => TellsTimeout(Append(s, e))
<1> DEFINE new == Append(s, e)
<1>1. /\ new \in Seq(Entry) /\ Len(s) \in Nat /\ DOMAIN s = 1..Len(s)
      /\ DOMAIN new = 1..(Len(s) + 1) /\ new[Len(s) + 1] = e
      /\ \A j \in 1..Len(s) : new[j] = s[j]
  OBVIOUS
<1>2. \A j \in 1..(Len(s) + 1) : j \in 1..Len(s) \/ j = Len(s) + 1
  BY <1>1
<1>3. Len(s) + 1 \in 1..(Len(s) + 1) /\ 1..Len(s) \subseteq 1..(Len(s) + 1)
  BY <1>1
<1> HIDE DEF new
<1>4. Indices(new) = Indices(s) \cup {e.idx}
  BY <1>1, <1>2, <1>3 DEF Indices
<1>5. Once(s) /\ e.idx \notin Indices(s) => Once(new)
  BY <1>1, <1>2 DEF Once, Indices
<1>6. TellsTimeout(s) \/ e.kind = "timeout" => TellsTimeout(new)
  BY <1>1, <1>3 DEF TellsTimeout
<1> QED
  BY <1>1, <1>4, <1>5, <1>6 DEF new

LEMMA EntryTaken ==
  ASSUME NEW s \in Seq(Entry), s # <<>>
  PROVE  /\ Head(s) \in Entry /\ Tail(s) \in Seq(Entry)
         /\ Indices(s) = {Head(s).idx} \cup Indices(Tail(s))
         /\ Once(s) => Once(Tail(s)) /\ Head(s).idx \notin Indices(Tail(s))
         /\ TellsTimeout(s) => Head(s).kind = "timeout" \/ TellsTimeout(Tail(s))
<1> DEFINE new == Tail(s)
<1>1. /\ Len(s) \in Nat /\ Len(s) > 0 /\ DOMAIN s = 1..Len(s) /\ Head(s) = s[1] /\ s[1] \in Entry
      /\ new \in Seq(Entry) /\ DOMAIN new = 1..(Len(s) - 1)
      /\ \A j \in 1..(Len(s) - 1) : new[j] = s[j + 1]
  OBVIOUS
<1>2. ASSUME NEW k \in 1..Len(s)
      PROVE  k = 1 \/ \E j \in 1..(Len(s) - 1) : new[j] = s[k]
  <2>1. k = 1 \/ (k - 1 \in 1..(Len(s) - 1) /\ k - 1 + 1 = k)
    BY <1>1
  <2> QED
    BY <1>1, <2>1
<1>3. \A j \in 1..(Len(s) - 1) : j + 1 \in 1..Len(s) /\ j + 1 # 1 /\ new[j] = s[j + 1]
  BY <1>1
<1> HIDE DEF new
<1>4. Indices(s) = {Head(s).idx} \cup Indices(new)
  <2>1. 1 \in 1..Len(s)
    BY <1>1
  <2>2. ASSUME NEW i \in Indices(s) PROVE i \in {Head(s).idx} \cup Indices(new)
    <3>1. PICK k \in 1..Len(s) : i = s[k].idx
      BY <1>1 DEF Indices
    <3> QED
      BY <1>1, <1>2, <3>1 DEF Indices
  <2>3. ASSUME NEW i \in Indices(new) PROVE i \in Indices(s)
    <3>1. PICK j \in 1..(Len(s) - 1) : i = new[j].idx
      BY <1>1 DEF Indices
    <3>2. j + 1 \in DOMAIN s /\ i = s[j + 1].idx
      BY <1>1, <1>3, <3>1
    <3> QED
      BY <3>2 DEF Indices
  <2>4. Head(s).idx \in Indices(s)
    BY <1>1, <2>1 DEF Indices
  <2> QED
    BY <2>2, <2>3, <2>4
<1>5. Once(s) => Once(new) /\ Head(s).idx \notin Indices(new)
  <2> SUFFICES ASSUME Once(s) PROVE Once(new) /\ Head(s).idx \notin Indices(new)
    OBVIOUS
  <2>1. 1 \in 1..Len(s)
    BY <1>1
  <2>2. ASSUME NEW j \in 1..(Len(s) - 1), NEW k \in 1..(Len(s) - 1), new[j].idx = new[k].idx
        PROVE  j = k
    <3>0. /\ j + 1 \in DOMAIN s /\ k + 1 \in DOMAIN s /\ new[j] = s[j + 1] /\ new[k] = s[k + 1]
          /\ j \in Int /\ k \in Int
      BY <1>1, <1>3
    <3>1. j + 1 = k + 1
      BY <2>2, <3>0 DEF Once
    <3> QED
      BY <3>0, <3>1
  <2>3. ASSUME NEW j \in 1..(Len(s) - 1), new[j].idx = s[1].idx PROVE FALSE
    BY <1>1, <1>3, <2>1, <2>3 DEF Once
  <2> QED
    BY <1>1, <2>2, <2>3 DEF Once, Indices
<1>6. TellsTimeout(s) => Head(s).kind = "timeout" \/ TellsTimeout(new)
  <2> SUFFICES ASSUME NEW k \in 1..Len(s), s[k].kind = "timeout"
               PROVE  Head(s).kind = "timeout" \/ TellsTimeout(new)
    BY <1>1 DEF TellsTimeout
  <2> QED
    BY <1>1, <1>2 DEF TellsTimeout
<1> QED
  BY <1>1, <1>4, <1>5, <1>6 DEF new

\* A list with one entry for each of its commands is as long as they are many.
LEMMA OnceCounts ==
  ASSUME NEW s \in Seq(Entry), Once(s)
  PROVE  /\ IsFiniteSet(Indices(s)) /\ Cardinality(Indices(s)) = Len(s)
         /\ \A n \in Nat : Indices(s) \subseteq 1..n => (Len(s) = n <=> Indices(s) = 1..n)
<1> DEFINE f == [k \in 1..Len(s) |-> s[k].idx]
<1>1. Len(s) \in Nat /\ DOMAIN s = 1..Len(s)
  OBVIOUS
<1>2. f \in Bijection(1..Len(s), Indices(s))
  <2>1. f \in [1..Len(s) -> Indices(s)]
    BY <1>1 DEF Indices
  <2>2. \A i \in Indices(s) : \E k \in 1..Len(s) : f[k] = i
    BY <1>1 DEF Indices
  <2>3. \A j, k \in 1..Len(s) : f[j] = f[k] => j = k
    BY <1>1 DEF Once
  <2> QED
    BY <2>1, <2>2, <2>3 DEF Bijection, Injection, Surjection, IsInjective
<1>3. ExistsBijection(1..Len(s), Indices(s))
  BY <1>2 DEF ExistsBijection
<1>4. IsFiniteSet(Indices(s)) /\ Cardinality(Indices(s)) = Len(s)
  BY <1>1, <1>3, FS_NatBijection, FS_CountingElements
<1>5. ASSUME NEW n \in Nat, Indices(s) \subseteq 1..n
      PROVE  Len(s) = n <=> Indices(s) = 1..n
  <2>1. IsFiniteSet(1..n) /\ Cardinality(1..n) = n
    <3>1. 1 \in Int /\ n \in Int
      OBVIOUS
    <3>2. IsFiniteSet(1..n) /\ Cardinality(1..n) = IF 1 > n THEN 0 ELSE n - 1 + 1
      BY <3>1, FS_Interval
    <3> QED
      BY <3>2
  <2>2. Cardinality(Indices(s)) = Cardinality(1..n) => Indices(s) = 1..n
    BY <1>5, <2>1, FS_Subset
  <2> QED
    BY <1>4, <2>1, <2>2
<1> QED
  BY <1>4, <1>5

\* GiveUp: with the entries of those that have not reported, each command has one.
LEMMA UnreportedCompletes ==
  ASSUME answer \in Seq(Entry), Once(answer), call.n \in Commands, Indices(answer) \subseteq 1..call.n
  PROVE  Len(answer \o Unreported) = call.n /\ Indices(answer \o Unreported) = 1..call.n
<1> DEFINE missing == 1..call.n \ Indices(answer)
           places  == Ascending(missing)
           rest    == Unreported
           all     == answer \o Unreported
           m       == Cardinality(missing)
<1>1. call.n \in Nat /\ 1..call.n \subseteq Commands /\ 1..call.n \subseteq Int
  BY ExecAssumption DEF Commands
<1>2. IsFiniteSet(1..call.n) /\ Cardinality(1..call.n) = call.n
  <2>1. 1 \in Int /\ call.n \in Int
    BY <1>1
  <2>2. IsFiniteSet(1..call.n) /\ Cardinality(1..call.n) = IF 1 > call.n THEN 0 ELSE call.n - 1 + 1
    BY <2>1, FS_Interval
  <2> QED
    BY <1>1, <2>2
<1>3. IsFiniteSet(missing) /\ m = call.n - Len(answer)
  <2>1. Cardinality(Indices(answer)) = Len(answer)
    BY OnceCounts
  <2>2. 1..call.n \cap Indices(answer) = Indices(answer)
    OBVIOUS
  <2>3. IsFiniteSet(missing) /\ m = Cardinality(1..call.n) - Cardinality(1..call.n \cap Indices(answer))
    BY <1>2, FS_Difference
  <2> QED
    BY <1>2, <2>1, <2>2, <2>3
<1>4. /\ m \in Nat /\ places \in [1..m -> missing]
      /\ \A i \in missing : \E k \in 1..m : places[k] = i
  BY <1>1, <1>3, AscendingSorts
<1>5. rest = [k \in 1..m |-> [idx |-> places[k], kind |-> "unreported"]]
  BY <1>4 DEF Unreported
<1> HIDE DEF places, m, rest
<1>6. rest \in [1..m -> Entry]
  BY <1>1, <1>4, <1>5 DEF Entry
<1>7. rest \in Seq(Entry) /\ Len(rest) = m /\ DOMAIN rest = 1..m
  BY <1>4, <1>6
<1>8. /\ Len(answer) \in Nat /\ DOMAIN answer = 1..Len(answer) /\ Len(all) = Len(answer) + m
      /\ DOMAIN all = 1..(Len(answer) + m)
      /\ \A j \in 1..Len(answer) : all[j] = answer[j]
      /\ \A k \in 1..m : all[Len(answer) + k] = rest[k]
  BY <1>4, <1>7 DEF rest
<1> HIDE DEF all
<1>9. ASSUME NEW i \in Indices(all) PROVE i \in 1..call.n
  <2>1. PICK j \in 1..(Len(answer) + m) : i = all[j].idx
    BY <1>8 DEF Indices
  <2>2. CASE j \in 1..Len(answer)
    BY <1>8, <2>1, <2>2 DEF Indices
  <2>3. CASE j \notin 1..Len(answer)
    <3>1. j - Len(answer) \in 1..m /\ Len(answer) + (j - Len(answer)) = j
      BY <1>4, <1>8, <2>1, <2>3
    <3>2. i = rest[j - Len(answer)].idx
      BY <1>8, <2>1, <3>1
    <3> QED
      BY <1>4, <1>5, <3>1, <3>2
  <2> QED
    BY <2>2, <2>3
<1>10. ASSUME NEW i \in 1..call.n PROVE i \in Indices(all)
  <2>1. CASE i \in Indices(answer)
    <3>1. PICK j \in 1..Len(answer) : i = answer[j].idx
      BY <1>8, <2>1 DEF Indices
    <3>2. j \in 1..(Len(answer) + m) /\ all[j].idx = i
      BY <1>4, <1>8, <3>1
    <3> QED
      BY <1>8, <3>2 DEF Indices
  <2>2. CASE i \notin Indices(answer)
    <3>1. PICK k \in 1..m : places[k] = i
      BY <1>4, <2>2
    <3>2. Len(answer) + k \in 1..(Len(answer) + m) /\ all[Len(answer) + k].idx = i
      BY <1>4, <1>5, <1>8, <3>1
    <3> QED
      BY <1>8, <3>2 DEF Indices
  <2> QED
    BY <2>1, <2>2
<1>11. Indices(all) = 1..call.n
  BY <1>9, <1>10
<1>12. Len(all) = call.n
  BY <1>1, <1>3, <1>4, <1>8
<1> QED
  BY <1>11, <1>12 DEF all

\* Join: the sorted answer is the same entries, in the order of their commands.
LEMMA InOrderSorts ==
  ASSUME answer \in Seq(Entry), Once(answer)
  PROVE  /\ InOrder \in Seq(Entry) /\ Len(InOrder) = Len(answer)
         /\ Indices(InOrder) = Indices(answer)
         /\ TellsTimeout(answer) => TellsTimeout(InOrder)
         /\ \A j, k \in DOMAIN InOrder : j < k => InOrder[j].idx < InOrder[k].idx
<1> DEFINE n      == Cardinality(DOMAIN answer)
           places == Ranked(DOMAIN answer, ByIndex)
           new    == InOrder
<1>1. /\ Len(answer) \in Nat /\ DOMAIN answer = 1..Len(answer)
      /\ \A k \in DOMAIN answer : answer[k] \in Entry /\ answer[k].idx \in Int
  <2>1. \A e \in Entry : e.idx \in Int
    BY ExecAssumption DEF Entry, Commands
  <2>2. /\ Len(answer) \in Nat /\ DOMAIN answer = 1..Len(answer)
        /\ \A k \in DOMAIN answer : answer[k] \in Entry
    OBVIOUS
  <2> QED
    BY <2>1, <2>2
<1>2. IsFiniteSet(DOMAIN answer) /\ n = Len(answer)
  <2>1. 1 \in Int /\ Len(answer) \in Int
    BY <1>1
  <2>2. /\ IsFiniteSet(1..Len(answer))
        /\ Cardinality(1..Len(answer)) = IF 1 > Len(answer) THEN 0 ELSE Len(answer) - 1 + 1
    BY <2>1, FS_Interval
  <2> QED
    BY <1>1, <2>2
<1>3. \A j, k \in DOMAIN answer : <<j, k>> \in ByIndex <=> answer[j].idx < answer[k].idx
  <2>1. ASSUME NEW j \in DOMAIN answer, NEW k \in DOMAIN answer
        PROVE  <<j, k>> \in ByIndex <=> answer[j].idx < answer[k].idx
    <3>1. <<j, k>> \in ByIndex <=> \/ answer[j].idx < answer[k].idx
                                   \/ answer[j].idx = answer[k].idx /\ j < k
      BY DEF ByIndex
    <3>2. answer[j].idx = answer[k].idx => j = k /\ ~(j < k)
      BY <1>1 DEF Once
    <3> QED
      BY <3>1, <3>2
  <2> QED
    BY <2>1
<1>4. StrictOrder(ByIndex, DOMAIN answer)
  BY <1>1, <1>3 DEF StrictOrder, Once
<1>5. /\ places \in Bijection(1..n, DOMAIN answer)
      /\ \A j, k \in 1..n : j < k <=> <<places[j], places[k]>> \in ByIndex
  BY <1>2, <1>4, RankedSorts
<1>6. /\ places \in [1..n -> DOMAIN answer]
      /\ \A k \in DOMAIN answer : \E j \in 1..n : places[j] = k
  BY <1>5 DEF Bijection, Injection, Surjection
<1>7. new = [j \in 1..n |-> answer[places[j]]]
  BY <1>6 DEF InOrder, AtPlaces
<1> HIDE DEF n, places, new
<1>8. new \in [1..n -> Entry]
  BY <1>1, <1>6, <1>7
<1>9. new \in Seq(Entry) /\ Len(new) = Len(answer) /\ DOMAIN new = 1..n
  BY <1>1, <1>2, <1>8
<1>10. \A k \in DOMAIN answer : \E j \in DOMAIN new : new[j] = answer[k]
  BY <1>6, <1>7, <1>9
<1>11. \A j \in DOMAIN new : places[j] \in DOMAIN answer /\ new[j] = answer[places[j]]
  BY <1>6, <1>7, <1>9
<1>12. Indices(new) = Indices(answer)
  <2>1. ASSUME NEW i \in Indices(new) PROVE i \in Indices(answer)
    <3>1. PICK j \in DOMAIN new : i = new[j].idx
      BY DEF Indices
    <3> QED
      BY <1>11, <3>1 DEF Indices
  <2>2. ASSUME NEW i \in Indices(answer) PROVE i \in Indices(new)
    <3>1. PICK k \in DOMAIN answer : i = answer[k].idx
      BY DEF Indices
    <3>2. PICK j \in DOMAIN new : new[j] = answer[k]
      BY <1>10
    <3> QED
      BY <3>1, <3>2 DEF Indices
  <2> QED
    BY <2>1, <2>2
<1>13. TellsTimeout(answer) => TellsTimeout(new)
  <2> SUFFICES ASSUME NEW k \in DOMAIN answer, answer[k].kind = "timeout" PROVE TellsTimeout(new)
    BY DEF TellsTimeout
  <2>1. PICK j \in DOMAIN new : new[j] = answer[k]
    BY <1>10
  <2> QED
    BY <2>1 DEF TellsTimeout
<1>14. \A j, k \in DOMAIN new : j < k => new[j].idx < new[k].idx
  <2> SUFFICES ASSUME NEW j \in DOMAIN new, NEW k \in DOMAIN new, j < k
               PROVE  new[j].idx < new[k].idx
    OBVIOUS
  <2>1. j \in 1..n /\ k \in 1..n
    BY <1>9
  <2>2. <<places[j], places[k]>> \in ByIndex
    BY <1>5, <2>1
  <2>3. answer[places[j]].idx < answer[places[k]].idx
    BY <1>3, <1>11, <2>2
  <2> QED
    BY <1>11, <2>3
<1> QED
  BY <1>9, <1>12, <1>13, <1>14 DEF new

-----------------------------------------------------------------------------
\* Workers that have taken a command and have not sent its entry.
Keepers ==
  {w \in Workers : pc[w] \in {"acquire", "start", "run", "grace", "release", "send", "panicked"}}
Reported == Indices(answer) \cup Indices(sent)
Kinds == [Workers -> {"output", "failed", "timeout"}]

\* While the call lasts, a command that was taken has one entry, or one worker that
\* keeps it, and not both.
Ledger ==
  /\ answer \in Seq(Entry) /\ sent \in Seq(Entry)
  /\ Once(answer) /\ Once(sent) /\ Indices(answer) \cap Indices(sent) = {}
  /\ \A w \in Keepers : idx[w] \notin Reported /\ idx[w] \in 1..call.n /\ idx[w] < nextIdx
  /\ \A u, w \in Keepers : idx[u] = idx[w] => u = w
  /\ \A i \in Reported : i \in 1..call.n /\ i < nextIdx
  /\ \A i \in 1..call.n : i < nextIdx => i \in Reported \/ \E w \in Keepers : idx[w] = i

\* Only the workers the call has are at work, one that ends has a reason to, no command
\* starts before it is taken, and the collection ends for a reason.
Reasons ==
  /\ kind \in Kinds
  /\ \A w \in Workers : pc[w] # "unborn" => w \in 1..NumWorkers
  /\ \A w \in Workers : pc[w] = "ended" => cancelled \/ nextIdx > call.n
  /\ \A i \in Commands : child[i] # "none" => i < nextIdx
  /\ main = "join" => Len(answer) = call.n \/ Disconnected

\* A cancellation has an entry that tells of it, sent or about to be.
Tells(w) == pc[w] = "grace" \/ (pc[w] \in {"release", "send"} /\ kind[w] = "timeout")
Explained ==
  cancelled => TellsTimeout(answer) \/ TellsTimeout(sent) \/ \E w \in Workers : Tells(w)

\* What has been answered stays so.
Complete == Len(answer) = call.n /\ Indices(answer) = 1..call.n
Answered ==
  /\ main = "late" => Complete
  /\ main = "done" =>
       /\ \A w \in Workers : pc[w] \in {"unborn", "ended", "panicked"}
       /\ ~cancelled => Complete
       /\ InInputOrder

AnswerInv == (~Returned => Ledger /\ Reasons /\ Explained) /\ Answered

\* A step of a worker leaves the others and the caller alone.
LEMMA WorkFrame ==
  ASSUME Typed, kind \in Kinds, NEW w \in Workers, Work(w)
  PROVE  /\ UNCHANGED <<call, main, answer>> /\ pc[w] \notin {"unborn", "ended", "panicked"}
         /\ pc' \in [Workers -> Places] /\ pc'[w] # "unborn"
         /\ \A u \in Workers \ {w} : pc'[u] = pc[u] /\ idx'[u] = idx[u] /\ kind'[u] = kind[u]
<1> USE DEF Typed, Kinds, Go, Report, args, callerVars, sharedVars, Places
<1>1. CASE CheckCancelled(w) \/ TakeNext(w) \/ Acquire(w) \/ SpawnFails(w) \/ SpawnChild(w)
  BY <1>1 DEF CheckCancelled, TakeNext, Acquire, SpawnFails, SpawnChild
<1>2. CASE WaiterPanics(w) \/ WaitEnds(w) \/ TimeOut(w) \/ EndGrace(w)
  BY <1>2 DEF WaiterPanics, WaitEnds, TimeOut, EndGrace
<1>3. CASE Release(w) \/ Send(w)
  BY <1>3 DEF Release, Send
<1> QED
  BY <1>1, <1>2, <1>3 DEF Work

\* Most steps of a worker neither take a command nor send an entry.
KeepingStep(w) ==
  \/ CheckCancelled(w) \/ Acquire(w) \/ SpawnFails(w) \/ SpawnChild(w)
  \/ WaiterPanics(w) \/ WaitEnds(w) \/ TimeOut(w) \/ EndGrace(w) \/ Release(w)
LEMMA KeepingFrame ==
  ASSUME Typed, NEW w \in Workers, KeepingStep(w)
  PROVE  UNCHANGED <<call, main, answer, sent, nextIdx, idx>> /\ Keepers' = Keepers
<1> USE DEF Typed, Go, Report, args, callerVars, sharedVars
<1>1. UNCHANGED <<call, main, answer, sent, nextIdx, idx>>
  BY DEF KeepingStep, CheckCancelled, Acquire, SpawnFails, SpawnChild, WaiterPanics, WaitEnds,
         TimeOut, EndGrace, Release
<1>2. CASE CheckCancelled(w) \/ Acquire(w) \/ SpawnFails(w) \/ SpawnChild(w) \/ WaiterPanics(w)
  BY <1>2 DEF CheckCancelled, Acquire, SpawnFails, SpawnChild, WaiterPanics, Keepers
<1>3. CASE WaitEnds(w) \/ TimeOut(w) \/ EndGrace(w) \/ Release(w)
  BY <1>3 DEF WaitEnds, TimeOut, EndGrace, Release, Keepers
<1> QED
  BY <1>1, <1>2, <1>3 DEF KeepingStep

LEMMA LedgerKept ==
  ASSUME Ledger, UNCHANGED <<call, answer, sent, nextIdx, idx>>, Keepers' = Keepers
  PROVE  Ledger'
BY DEF Ledger, Reported

LEMMA LedgerStep ==
  ASSUME Typed, Ledger, kind \in Kinds, [Next]_vars, ~Returned'
  PROVE  Ledger'
<1>0. /\ call.n \in Nat /\ 1..call.n \subseteq Commands /\ nextIdx \in Nat /\ nextIdx >= 1
      /\ pc \in [Workers -> Places] /\ idx \in [Workers -> Commands \cup {0}]
      /\ Keepers \subseteq Workers /\ answer \in Seq(Entry) /\ sent \in Seq(Entry)
  BY ExecAssumption DEF Typed, Commands, Keepers, Ledger
<1>1. ASSUME NEW w \in Workers, TakeNext(w) PROVE Ledger'
  <2>1. CASE nextIdx > call.n
    <3>1. UNCHANGED <<call, answer, sent, idx>> /\ nextIdx' = nextIdx + 1
      BY <1>1, <2>1 DEF TakeNext, args, callerVars
    <3>2. Keepers' = Keepers
      BY <1>0, <1>1, <2>1 DEF TakeNext, Keepers, Go
    <3>3. \A i \in 1..call.n : i < nextIdx' <=> i < nextIdx
      BY <1>0, <2>1, <3>1
    <3> QED
      BY <1>0, <3>1, <3>2, <3>3 DEF Ledger, Reported
  <2>2. CASE ~(nextIdx > call.n)
    <3>1. /\ UNCHANGED <<call, answer, sent>> /\ nextIdx' = nextIdx + 1
          /\ idx' = [idx EXCEPT ![w] = nextIdx]
      BY <1>1, <2>2 DEF TakeNext, args, callerVars
    <3>2. Keepers' = Keepers \cup {w} /\ w \notin Keepers
      BY <1>0, <1>1, <2>2 DEF TakeNext, Keepers, Go
    <3>3. /\ idx'[w] = nextIdx /\ nextIdx \in 1..call.n
          /\ \A u \in Keepers : idx'[u] = idx[u] /\ u # w
      BY <1>0, <2>2, <3>1, <3>2
    <3>4. \A i \in 1..call.n : i < nextIdx' <=> i < nextIdx \/ i = nextIdx
      BY <1>0, <3>1
    <3>5. Reported' = Reported /\ nextIdx \notin Reported
      BY <1>0, <3>1 DEF Ledger, Reported
    <3>6. \A u \in Keepers' : idx'[u] \notin Reported /\ idx'[u] \in 1..call.n /\ idx'[u] < nextIdx'
      BY <3>2, <3>3, <3>4, <3>5 DEF Ledger
    <3>7. \A u \in Keepers : idx'[u] # nextIdx
      BY <1>0, <3>3 DEF Ledger
    <3>8. \A u, v \in Keepers' : idx'[u] = idx'[v] => u = v
      BY <3>2, <3>3, <3>7 DEF Ledger
    <3>9. \A i \in 1..call.n : i < nextIdx' => i \in Reported \/ \E u \in Keepers' : idx'[u] = i
      BY <3>2, <3>3, <3>4 DEF Ledger
    <3>10. \A i \in Reported : i \in 1..call.n /\ i < nextIdx'
      BY <3>4 DEF Ledger
    <3> QED
      BY <3>1, <3>5, <3>6, <3>8, <3>9, <3>10 DEF Ledger
  <2> QED
    BY <2>1, <2>2
<1>2. ASSUME NEW w \in Workers, Send(w) PROVE Ledger'
  <2>1. ~Returned
    BY <1>2 DEF Send, callerVars, Returned
  <2>2. /\ UNCHANGED <<call, answer, nextIdx, idx>> /\ sent' = Append(sent, EntryOf(w)) /\ pc[w] = "send"
    BY <1>2, <2>1 DEF Send, args, callerVars
  <2>3. Keepers' = Keepers \ {w} /\ w \in Keepers
    BY <1>0, <1>2, <2>1 DEF Send, Go, Keepers
  <2>4. EntryOf(w).idx = idx[w] /\ EntryOf(w) \in Entry
    <3>1. idx[w] \in Commands
      BY <1>0, <2>3 DEF Ledger
    <3>2. kind[w] \in {"output", "failed", "timeout"}
      BY DEF Kinds
    <3> QED
      BY <3>1, <3>2 DEF EntryOf, Entry
  <2>5. idx[w] \notin Reported /\ idx[w] \in 1..call.n /\ idx[w] < nextIdx
    BY <2>3 DEF Ledger
  <2>6. sent' \in Seq(Entry) /\ Indices(sent') = Indices(sent) \cup {idx[w]} /\ Once(sent')
    <3>1. Once(sent) /\ EntryOf(w).idx \notin Indices(sent)
      BY <2>4, <2>5 DEF Ledger, Reported
    <3> HIDE DEF EntryOf
    <3> QED
      BY <1>0, <2>2, <2>4, <3>1, EntryAdded
  <2>7. Reported' = Reported \cup {idx[w]}
    BY <2>2, <2>6 DEF Reported
  <2>8. Indices(answer) \cap Indices(sent') = {}
    BY <2>5, <2>6 DEF Ledger, Reported
  <2>9. \A u \in Keepers' : idx[u] \notin Reported' /\ idx[u] \in 1..call.n /\ idx[u] < nextIdx
    BY <2>3, <2>7 DEF Ledger
  <2>10. \A i \in 1..call.n : i < nextIdx => i \in Reported' \/ \E u \in Keepers' : idx[u] = i
    BY <2>3, <2>7 DEF Ledger
  <2>11. \A i \in Reported' : i \in 1..call.n /\ i < nextIdx
    BY <2>5, <2>7 DEF Ledger
  <2> QED
    BY <2>2, <2>3, <2>6, <2>8, <2>9, <2>10, <2>11 DEF Ledger
<1>3. ASSUME NEW w \in Workers, Work(w) PROVE Ledger'
  <2>1. KeepingStep(w) \/ TakeNext(w) \/ Send(w)
    BY <1>3 DEF Work, KeepingStep
  <2> QED
    BY <1>1, <1>2, <2>1, KeepingFrame, LedgerKept
<1>4. CASE SpawnWorker
  <2>1. UNCHANGED <<call, answer, sent, nextIdx, idx>>
    BY <1>4 DEF SpawnWorker, args, callerVars, sharedVars
  <2>2. Keepers' = Keepers
    BY <1>0, <1>4 DEF SpawnWorker, Keepers, Go
  <2> QED
    BY <2>1, <2>2, LedgerKept
<1>5. CASE StartCollecting \/ CollectEnds
  BY <1>5, LedgerKept DEF StartCollecting, CollectEnds, args, sharedVars, workerVars, Keepers
<1>6. CASE Receive
  <2>1. /\ UNCHANGED <<call, nextIdx, idx, pc>> /\ sent # <<>>
        /\ answer' = Append(answer, Head(sent)) /\ sent' = Tail(sent)
    BY <1>6 DEF Receive, args, workerVars
  <2>2. /\ Head(sent) \in Entry /\ sent' \in Seq(Entry)
        /\ Indices(sent) = {Head(sent).idx} \cup Indices(sent')
        /\ Once(sent') /\ Head(sent).idx \notin Indices(sent')
    BY <1>0, <2>1, EntryTaken DEF Ledger
  <2>3. Head(sent).idx \notin Indices(answer)
    BY <2>2 DEF Ledger
  <2>4. /\ answer' \in Seq(Entry) /\ Indices(answer') = Indices(answer) \cup {Head(sent).idx}
        /\ Once(answer')
    BY <1>0, <2>1, <2>2, <2>3, EntryAdded DEF Ledger
  <2>5. Reported' = Reported /\ Indices(answer') \cap Indices(sent') = {}
    BY <2>2, <2>4 DEF Reported, Ledger
  <2>6. Keepers' = Keepers
    BY <2>1 DEF Keepers
  <2> QED
    BY <2>1, <2>2, <2>4, <2>5, <2>6 DEF Ledger
<1>7. CASE GiveUp \/ Join
  BY <1>7 DEF GiveUp, Join, Returned
<1>8. ASSUME NEW i \in Commands, Exit(i) \/ WaitFails(i) PROVE Ledger'
  BY <1>8, LedgerKept DEF Exit, WaitFails, args, callerVars, sharedVars, workerVars, Keepers
<1>9. CASE UNCHANGED vars
  BY <1>9, LedgerKept DEF vars, args, callerVars, sharedVars, workerVars, Keepers
<1> QED
  BY <1>3, <1>4, <1>5, <1>6, <1>7, <1>8, <1>9 DEF Next, Call, Done

\* What the steps that are no worker's and do not end the call leave alone.
LEMMA OtherFrame ==
  ASSUME Typed, StartCollecting \/ Receive \/ CollectEnds \/ GiveUp \/ Join
                \/ (\E i \in Commands : Exit(i) \/ WaitFails(i)) \/ UNCHANGED vars
  PROVE  /\ UNCHANGED <<call, nextIdx, cancelled, pc, idx, kind>>
         /\ \A i \in Commands : child[i] = "none" => child'[i] = "none"
         /\ \A i \in Commands : child'[i] = "none" => child[i] = "none"
<1>1. CASE StartCollecting \/ Receive \/ CollectEnds \/ GiveUp \/ Join
  BY <1>1 DEF StartCollecting, Receive, CollectEnds, GiveUp, Join, args, sharedVars, workerVars
<1>2. CASE \E i \in Commands : Exit(i) \/ WaitFails(i)
  BY <1>2 DEF Typed, Exit, WaitFails, args, sharedVars, workerVars
<1>3. CASE UNCHANGED vars
  BY <1>3 DEF vars, args, sharedVars, workerVars
<1> QED
  BY <1>1, <1>2, <1>3

\* The workers the call has are not at work once they are over.
LEMMA OverStill ==
  ASSUME Typed, kind \in Kinds, NEW w \in Workers, Work(w),
         \A u \in Workers : pc[u] # "unborn" => u \in 1..NumWorkers
  PROVE  ~AllOver
BY WorkFrame DEF AllOver, Over

LEMMA ReasonsStep ==
  ASSUME Typed, Engaged, Ledger, Reasons, [Next]_vars, ~Returned'
  PROVE  Reasons'
<1>0. /\ kind \in Kinds /\ call.n \in Nat /\ nextIdx \in Nat /\ 1..NumWorkers \subseteq Workers
      /\ pc \in [Workers -> Places] /\ cancelled \in BOOLEAN
      /\ child \in [Commands -> {"none", "running", "ended", "unwaited", "abandoned", "orphaned"}]
      /\ \A w \in Keepers : idx[w] \in Commands /\ idx[w] < nextIdx
  BY ExecAssumption DEF Reasons, Typed, Commands, Workers, NumWorkers, Ledger
<1>1. ASSUME NEW w \in Workers, Work(w) PROVE Reasons'
  <2>1. /\ UNCHANGED <<call, main, answer>> /\ pc[w] # "unborn" /\ pc' \in [Workers -> Places]
        /\ \A u \in Workers \ {w} : pc'[u] = pc[u]
    BY <1>0, <1>1, WorkFrame
  <2>2. nextIdx' \in Nat /\ nextIdx' >= nextIdx /\ (cancelled => cancelled')
    BY <1>0, <1>1 DEF Work, CheckCancelled, TakeNext, Acquire, SpawnFails, SpawnChild, WaiterPanics,
                      WaitEnds, TimeOut, EndGrace, Release, Send, Report, sharedVars
  <2>3. kind' \in Kinds
    <3> USE DEF Kinds
    <3>1. CASE CheckCancelled(w) \/ TakeNext(w) \/ Acquire(w) \/ SpawnChild(w) \/ WaiterPanics(w)
               \/ TimeOut(w) \/ Release(w)
      BY <1>0, <3>1 DEF CheckCancelled, TakeNext, Acquire, SpawnChild, WaiterPanics, TimeOut, Release
    <3>2. CASE SpawnFails(w) \/ WaitEnds(w) \/ EndGrace(w) \/ Send(w)
      BY <1>0, <3>2 DEF SpawnFails, WaitEnds, EndGrace, Send, Report
    <3> QED
      BY <1>1, <3>1, <3>2 DEF Work
  <2>4. pc'[w] = "ended" => cancelled' \/ nextIdx' > call.n
    <3> USE <1>0 DEF Go, Report
    <3>1. CASE CheckCancelled(w)
      BY <3>1 DEF CheckCancelled, sharedVars
    <3>2. CASE TakeNext(w)
      BY <3>2 DEF TakeNext
    <3>3. CASE Send(w)
      BY <2>1, <3>3 DEF Send, Returned
    <3>4. CASE Acquire(w) \/ SpawnFails(w) \/ SpawnChild(w) \/ WaiterPanics(w) \/ WaitEnds(w)
               \/ TimeOut(w) \/ EndGrace(w) \/ Release(w)
      BY <3>4 DEF Acquire, SpawnFails, SpawnChild, WaiterPanics, WaitEnds, TimeOut, EndGrace, Release
    <3> QED
      BY <1>1, <3>1, <3>2, <3>3, <3>4 DEF Work
  <2>5. \A i \in Commands : child'[i] # "none" => i < nextIdx'
    <3>1. \A i \in Commands : child'[i] # "none" => child[i] # "none" \/ (i = idx[w] /\ w \in Keepers)
      <4>1. CASE SpawnChild(w) \/ WaiterPanics(w)
        BY <1>0, <4>1 DEF SpawnChild, WaiterPanics, Keepers
      <4>2. CASE TimeOut(w)
        BY <1>0, <4>2 DEF TimeOut, Killed
      <4>3. CASE WaitEnds(w)
        BY <1>0, <4>3 DEF WaitEnds
      <4>4. CASE CheckCancelled(w) \/ TakeNext(w) \/ Acquire(w) \/ SpawnFails(w)
                 \/ EndGrace(w) \/ Release(w) \/ Send(w)
        BY <4>4 DEF CheckCancelled, TakeNext, Acquire, SpawnFails, EndGrace, Release, Send
      <4> QED
        BY <1>1, <4>1, <4>2, <4>3, <4>4 DEF Work
    <3>2. \A i \in Commands : child'[i] # "none" => i < nextIdx
      BY <1>0, <3>1 DEF Reasons
    <3>3. \A i \in Commands : i \in Nat
      BY ExecAssumption DEF Commands
    <3> QED
      BY <1>0, <2>2, <3>2, <3>3
  <2>6. main' = "join" => Len(answer') = call.n
    <3>1. ~AllOver
      BY <1>0, <1>1, OverStill DEF Reasons
    <3> QED
      BY <2>1, <3>1 DEF Reasons, Disconnected
  <2>7. NumWorkers' = NumWorkers
    BY <2>1 DEF NumWorkers
  <2>8. \A u \in Workers : pc'[u] # "unborn" => u \in 1..NumWorkers
    BY <2>1 DEF Reasons
  <2>9. \A u \in Workers : pc'[u] = "ended" => cancelled' \/ nextIdx' > call.n
    BY <1>0, <2>1, <2>2, <2>4 DEF Reasons
  <2> QED
    BY <2>1, <2>3, <2>5, <2>6, <2>7, <2>8, <2>9 DEF Reasons
<1>2. CASE SpawnWorker
  <2>1. PICK w \in 1..NumWorkers : pc' = [pc EXCEPT ![w] = "loop"]
    BY <1>2 DEF SpawnWorker, Go
  <2>2. UNCHANGED <<call, main, answer, sent, nextIdx, cancelled, kind, child>> /\ main = "spawn"
    BY <1>2 DEF SpawnWorker, args, callerVars, sharedVars
  <2>3. \A u \in Workers : pc'[u] = pc[u] \/ (u = w /\ pc'[u] = "loop")
    BY <1>0, <2>1
  <2>4. NumWorkers' = NumWorkers
    BY <2>2 DEF NumWorkers
  <2> QED
    BY <2>2, <2>3, <2>4 DEF Reasons
<1>3. CASE StartCollecting \/ Receive \/ CollectEnds \/ GiveUp \/ Join
           \/ (\E i \in Commands : Exit(i) \/ WaitFails(i)) \/ UNCHANGED vars
  <2>1. /\ UNCHANGED <<call, nextIdx, cancelled, pc, kind>>
        /\ \A i \in Commands : child[i] = "none" => child'[i] = "none"
    BY <1>3, OtherFrame
  <2>2. main' = "join" => Len(answer') = call.n \/ (sent' = <<>> /\ AllOver)
    <3>1. CASE CollectEnds
      BY <3>1 DEF CollectEnds, Disconnected, sharedVars
    <3>2. CASE StartCollecting \/ Receive \/ GiveUp \/ Join
      BY <3>2 DEF StartCollecting, Receive, GiveUp, Join, Returned
    <3>3. CASE (\E i \in Commands : Exit(i) \/ WaitFails(i)) \/ UNCHANGED vars
      BY <3>3 DEF Exit, WaitFails, vars, callerVars, sharedVars, Reasons, Disconnected
    <3> QED
      BY <1>3, <3>1, <3>2, <3>3
  <2>3. NumWorkers' = NumWorkers /\ AllOver' = AllOver
    BY <2>1 DEF NumWorkers, AllOver, Over
  <2> QED
    BY <2>1, <2>2, <2>3 DEF Reasons, Disconnected
<1> QED
  BY <1>1, <1>2, <1>3 DEF Next, Call, Done

LEMMA ExplainedStep ==
  ASSUME Typed, Engaged, Ledger, kind \in Kinds, Explained, [Next]_vars, ~Returned'
  PROVE  Explained'
<1>0. /\ pc \in [Workers -> Places] /\ answer \in Seq(Entry) /\ sent \in Seq(Entry)
      /\ \A w \in Keepers : idx[w] \in Commands
  BY ExecAssumption DEF Typed, Ledger, Commands
<1>1. ASSUME NEW w \in Workers, Work(w) PROVE Explained'
  <2>1. /\ UNCHANGED <<main, answer>>
        /\ \A u \in Workers \ {w} : pc'[u] = pc[u] /\ kind'[u] = kind[u]
    BY <1>1, WorkFrame
  <2>2. \A u \in Workers \ {w} : Tells(u)' = Tells(u)
    BY <2>1 DEF Tells
  <2>3. CASE TimeOut(w)
    <3>1. Tells(w)'
      BY <1>0, <2>3 DEF TimeOut, Go, Tells
    <3> QED
      BY <3>1 DEF Explained
  <2>4. CASE Send(w)
    <3>1. /\ sent' = Append(sent, EntryOf(w)) /\ UNCHANGED cancelled /\ pc[w] = "send" /\ w \in Keepers
      BY <2>1, <2>4 DEF Send, Returned, Keepers
    <3>2. EntryOf(w) \in Entry /\ EntryOf(w).kind = kind[w]
      <4>1. kind[w] \in {"output", "failed", "timeout"} /\ idx[w] \in Commands
        BY <1>0, <3>1 DEF Kinds
      <4> QED
        BY <4>1 DEF EntryOf, Entry
    <3>3. TellsTimeout(sent) \/ Tells(w) => TellsTimeout(sent')
      <4>1. Tells(w) => kind[w] = "timeout"
        BY <3>1 DEF Tells
      <4> HIDE DEF EntryOf
      <4> QED
        BY <1>0, <3>1, <3>2, <4>1, EntryAdded
    <3> QED
      BY <2>1, <2>2, <3>1, <3>3 DEF Explained
  <2>5. CASE CheckCancelled(w) \/ TakeNext(w) \/ Acquire(w) \/ SpawnFails(w) \/ SpawnChild(w)
             \/ WaiterPanics(w) \/ WaitEnds(w) \/ EndGrace(w) \/ Release(w)
    <3>1. UNCHANGED <<cancelled, sent>>
      BY <2>5 DEF CheckCancelled, TakeNext, Acquire, SpawnFails, SpawnChild, WaiterPanics, WaitEnds,
                  EndGrace, Release, sharedVars
    <3>2. Tells(w) => Tells(w)'
      <4>1. CASE EndGrace(w)
        BY <1>0, <4>1 DEF EndGrace, Report, Go, Tells, Kinds
      <4>2. CASE Release(w)
        BY <1>0, <4>2 DEF Release, Go, Tells
      <4>3. CASE CheckCancelled(w) \/ TakeNext(w) \/ Acquire(w) \/ SpawnFails(w) \/ SpawnChild(w)
                 \/ WaiterPanics(w) \/ WaitEnds(w)
        <5>1. ~Tells(w)
          BY <4>3 DEF CheckCancelled, TakeNext, Acquire, SpawnFails, SpawnChild, WaiterPanics,
                      WaitEnds, Tells
        <5> QED
          BY <5>1
      <4> QED
        BY <2>5, <4>1, <4>2, <4>3
    <3> QED
      BY <2>1, <2>2, <3>1, <3>2 DEF Explained
  <2> QED
    BY <1>1, <2>3, <2>4, <2>5 DEF Work
<1>2. CASE SpawnWorker
  <2>1. PICK w \in 1..NumWorkers : pc[w] = "unborn" /\ pc' = [pc EXCEPT ![w] = "loop"]
    BY <1>2 DEF SpawnWorker, Go
  <2>2. UNCHANGED <<answer, sent, cancelled, kind>>
    BY <1>2 DEF SpawnWorker, callerVars, sharedVars
  <2>3. \A u \in Workers : Tells(u) => Tells(u)'
    BY <1>0, <2>1, <2>2 DEF Tells
  <2> QED
    BY <2>2, <2>3 DEF Explained
<1>3. CASE Receive
  <2>1. /\ UNCHANGED <<cancelled, pc, kind>> /\ sent # <<>>
        /\ answer' = Append(answer, Head(sent)) /\ sent' = Tail(sent)
    BY <1>3 DEF Receive, workerVars
  <2>2. TellsTimeout(sent) => TellsTimeout(answer') \/ TellsTimeout(sent')
    BY <1>0, <2>1, EntryAdded, EntryTaken
  <2>3. TellsTimeout(answer) => TellsTimeout(answer')
    BY <1>0, <2>1, EntryAdded, EntryTaken
  <2>4. \A u \in Workers : Tells(u)' = Tells(u)
    BY <2>1 DEF Tells
  <2> QED
    BY <2>1, <2>2, <2>3, <2>4 DEF Explained
<1>4. CASE GiveUp \/ Join
  BY <1>4 DEF GiveUp, Join, Returned
<1>5. CASE StartCollecting \/ CollectEnds \/ (\E i \in Commands : Exit(i) \/ WaitFails(i))
           \/ UNCHANGED vars
  <2>1. UNCHANGED <<answer, sent, cancelled, pc, kind>>
    BY <1>5 DEF StartCollecting, CollectEnds, Exit, WaitFails, vars, callerVars, sharedVars, workerVars
  <2> QED
    BY <2>1 DEF Explained, Tells
<1> QED
  BY <1>1, <1>2, <1>3, <1>4, <1>5 DEF Next, Call, Done

LEMMA WorkLeavesAnswer ==
  ASSUME NEW w \in Workers, Work(w)
  PROVE  UNCHANGED <<call, main, answer>> /\ pc[w] \notin {"unborn", "ended", "panicked"}
BY DEF Work, CheckCancelled, TakeNext, Acquire, SpawnFails, SpawnChild, WaiterPanics, WaitEnds, TimeOut,
       EndGrace, Release, Send, Report, args, callerVars

\* Once all are over, the workers that ended account for what the answer lacks.
LEMMA JoinAnswers ==
  ASSUME Typed, Ledger, Reasons, Explained, Join, main' = "done"
  PROVE  Answered'
<1>0. /\ call.n \in Nat \ {0} /\ 1..call.n \subseteq Commands /\ nextIdx \in Nat
      /\ NumWorkers \in Nat \ {0} /\ 1..NumWorkers \subseteq Workers
      /\ pc \in [Workers -> Places] /\ cancelled \in BOOLEAN
  BY ExecAssumption DEF Typed, Commands, Workers, NumWorkers
<1>1. /\ UNCHANGED <<call, nextIdx, cancelled, sent, pc, child>> /\ main = "join" /\ AllOver
      /\ ~SomePanic /\ answer' = InOrder
  BY DEF Join, args, sharedVars, workerVars
<1>2. \A w \in Workers : pc[w] = "unborn" \/ (w \in 1..NumWorkers /\ pc[w] = "ended")
  BY <1>1 DEF Reasons, AllOver, Over, SomePanic
<1>3. Keepers = {} /\ \A w \in Workers : ~Tells(w)
  BY <1>2 DEF Keepers, Tells
<1>4. cancelled \/ nextIdx > call.n
  <2>1. 1 \in 1..NumWorkers /\ pc[1] = "ended"
    BY <1>0, <1>1 DEF AllOver, Over, SomePanic
  <2> QED
    BY <1>0, <2>1 DEF Reasons
<1>5. /\ answer \in Seq(Entry) /\ Once(answer) /\ Indices(answer) \subseteq 1..call.n
      /\ Len(answer) = call.n <=> Indices(answer) = 1..call.n
  <2>1. answer \in Seq(Entry) /\ Once(answer) /\ Indices(answer) \subseteq 1..call.n
    BY DEF Ledger, Reported
  <2> QED
    BY <1>0, <2>1, OnceCounts
<1>6. \A i \in 1..call.n : i < nextIdx => i \in Indices(answer)
  <2>1. CASE Len(answer) = call.n
    BY <1>5, <2>1
  <2>2. CASE Disconnected
    <3>1. Indices(sent) = {}
      BY <2>2 DEF Disconnected, Indices
    <3> QED
      BY <1>3, <3>1 DEF Ledger, Reported
  <2> QED
    BY <1>1, <2>1, <2>2 DEF Reasons
<1>7. /\ answer' \in Seq(Entry) /\ Len(answer') = Len(answer) /\ Indices(answer') = Indices(answer)
      /\ TellsTimeout(answer) => TellsTimeout(answer')
      /\ \A j, k \in DOMAIN answer' : j < k => answer'[j].idx < answer'[k].idx
  BY <1>1, <1>5, InOrderSorts
<1>8. ~cancelled => Len(answer') = call.n /\ Indices(answer') = 1..call.n
  <2>1. nextIdx > call.n => 1..call.n \subseteq Indices(answer)
    BY <1>0, <1>6
  <2> QED
    BY <1>4, <1>5, <1>7, <2>1
<1>9. ASSUME NEW i \in 1..call.n \ Indices(answer')
      PROVE  child[i] = "none" /\ TellsTimeout(answer')
  <2>1. ~(i < nextIdx) /\ i \in Commands /\ ~(nextIdx > call.n)
    BY <1>0, <1>6, <1>7, <1>9
  <2>2. child[i] = "none"
    BY <2>1 DEF Reasons
  <2>3. Len(answer) # call.n
    BY <1>5, <1>7, <1>9
  <2>4. ~TellsTimeout(sent)
    BY <1>1, <2>3 DEF Reasons, Disconnected, TellsTimeout
  <2>5. TellsTimeout(answer)
    BY <1>3, <1>4, <2>1, <2>4 DEF Explained
  <2> QED
    BY <1>7, <2>2, <2>5
<1>10. InInputOrder'
  BY <1>1, <1>7, <1>9 DEF InInputOrder, TellsTimeout
<1> QED
  BY <1>1, <1>2, <1>8, <1>10 DEF Answered, Complete

LEMMA AnsweredStep ==
  ASSUME Typed, Engaged, AnswerInv, [Next]_vars
  PROVE  Answered'
<1>0. 1..call.n \subseteq Commands /\ pc \in [Workers -> Places]
  BY ExecAssumption DEF Typed, Commands
<1>1. ASSUME NEW w \in Workers, Work(w) PROVE Answered'
  <2>1. UNCHANGED <<call, main, answer>> /\ pc[w] \notin {"unborn", "ended", "panicked"}
    BY <1>1, WorkLeavesAnswer
  <2>2. main # "done"
    BY <2>1 DEF AnswerInv, Answered
  <2> QED
    BY <2>1, <2>2 DEF AnswerInv, Answered, Complete
<1>2. CASE SpawnWorker \/ StartCollecting \/ Receive \/ CollectEnds
  BY <1>2 DEF SpawnWorker, StartCollecting, Receive, CollectEnds, callerVars, Answered
<1>3. CASE GiveUp
  <2>1. Ledger /\ main' = "late" /\ answer' = answer \o Unreported /\ UNCHANGED call
    BY <1>3 DEF GiveUp, Returned, AnswerInv, args
  <2>2. /\ answer \in Seq(Entry) /\ Once(answer) /\ Indices(answer) \subseteq 1..call.n
        /\ call.n \in Commands
    BY <2>1 DEF Ledger, Reported, Typed
  <2>3. Complete'
    BY <2>1, <2>2, UnreportedCompletes DEF Complete
  <2> QED
    BY <2>1, <2>3 DEF Answered
<1>4. CASE Join
  <2>1. Ledger /\ Reasons /\ Explained /\ main' \in {"error", "done"}
    BY <1>4 DEF Join, Returned, AnswerInv
  <2>2. CASE main' = "done"
    BY <1>4, <2>1, <2>2, JoinAnswers
  <2>3. CASE main' = "error"
    BY <2>3 DEF Answered
  <2> QED
    BY <2>1, <2>2, <2>3
<1>5. CASE (\E i \in Commands : Exit(i) \/ WaitFails(i)) \/ UNCHANGED vars
  <2>1. /\ UNCHANGED <<call, main, answer, pc, cancelled>>
        /\ \A i \in Commands : child[i] = "none" => child'[i] = "none"
    BY <1>5, OtherFrame DEF Exit, WaitFails, vars, callerVars
  <2>2. InInputOrder => InInputOrder'
    BY <1>0, <2>1 DEF InInputOrder
  <2> QED
    BY <2>1, <2>2 DEF AnswerInv, Answered, Complete
<1> QED
  BY <1>1, <1>2, <1>3, <1>4, <1>5 DEF Next, Call, Done

LEMMA AnswerInvHolds == Spec => []AnswerInv
<1>1. Init => AnswerInv
  <2> SUFFICES ASSUME Init PROVE AnswerInv
    OBVIOUS
  <2>1. /\ <<>> \in Seq(Entry) /\ Indices(<<>>) = {} /\ Once(<<>>)
    BY DEF Indices, Once
  <2>2. Keepers = {} /\ Reported = {} /\ call.n \in 1..MaxCommands
    BY <2>1 DEF Init, Keepers, Reported, Commands
  <2>3. Ledger
    BY <2>1, <2>2, ExecAssumption DEF Ledger, Init
  <2>4. Reasons /\ Explained /\ Answered
    BY DEF Init, Reasons, Explained, Answered, Kinds
  <2> QED
    BY <2>3, <2>4 DEF AnswerInv
<1>2. ExecInv /\ AnswerInv /\ [Next]_vars => AnswerInv'
  <2> SUFFICES ASSUME ExecInv, AnswerInv, [Next]_vars PROVE AnswerInv'
    OBVIOUS
  <2>1. Typed /\ Engaged
    BY DEF ExecInv
  <2>2. Answered'
    BY <2>1, AnsweredStep
  <2>3. Returned => Returned'
    BY WorkLeavesAnswer DEF Next, Call, SpawnWorker, StartCollecting, Receive, CollectEnds, GiveUp, Join,
       Exit, WaitFails, Done, vars, callerVars, Returned
  <2>4. ASSUME ~Returned' PROVE Ledger' /\ Reasons' /\ Explained'
    <3>1. Ledger /\ Reasons /\ Explained /\ kind \in Kinds
      BY <2>3, <2>4 DEF AnswerInv, Reasons
    <3> QED
      BY <2>1, <2>4, <3>1, LedgerStep, ReasonsStep, ExplainedStep
  <2> QED
    BY <2>2, <2>4 DEF AnswerInv
<1> QED
  BY <1>1, <1>2, InvHolds, PTL DEF Spec

\* exec_parallel: a call that gave up, or was not cancelled, answers for each command
\* once.
THEOREM AnswerIsComplete == Spec => []CompleteAnswer
<1>1. AnswerInv => CompleteAnswer
  BY DEF AnswerInv, Answered, Complete, CompleteAnswer
<1> QED
  BY <1>1, AnswerInvHolds, PTL

\* exec_parallel: a call that saw its workers end answers in the order of its input, and
\* what the answer lacks was never started.
THEOREM AnswerIsInOrder == Spec => []InInputOrder
<1>1. AnswerInv => InInputOrder
  BY DEF AnswerInv, Answered, InInputOrder
<1> QED
  BY <1>1, AnswerInvHolds, PTL

-----------------------------------------------------------------------------
(***************************************************************************)
(* The semaphore of the call (module Semaphore), for any number of         *)
(* threads, permits and rounds: no permit and no wake-up is lost, and from *)
(* outside it is the atomic counter `free` the call takes it for (the      *)
(* safety part of the refinement of module CountingSemaphore).  What makes *)
(* the second inductive: a thread that found no permit under the mutex     *)
(* counts as asleep before it is, and while it is there nobody notifies,   *)
(* since notify_one needs the mutex too.                                   *)
(***************************************************************************)

\* A swap is only tried on a counter that was not 0.
Positive == \A t \in Threads : point[t] = "swap" => current[t] > 0

\* Whoever has decided to sleep is counted among the sleepers.
NoneLost ==
  asleep \cup At({"wait"}) # {} => permits <= Cardinality(OnTheirWay)

SemaphoreInv == SemaphoreTypeOK /\ Positive /\ PermitsConserved /\ NoneLost

-----------------------------------------------------------------------------
\* The threads at some place are finitely many, as are those on their way.
LEMMA Finite ==
  ASSUME SemaphoreTypeOK
  PROVE  /\ \A places : IsFiniteSet(At(places)) /\ Cardinality(At(places)) \in Nat
         /\ IsFiniteSet(OnTheirWay) /\ Cardinality(OnTheirWay) \in Nat
<1>1. ASSUME NEW S, S \subseteq Threads
      PROVE  IsFiniteSet(S) /\ Cardinality(S) \in Nat
  BY <1>1, SemaphoreAssumption, FS_Subset, FS_CardinalityType
<1>2. OnTheirWay \subseteq Threads /\ \A places : At(places) \subseteq Threads
  BY DEF OnTheirWay, At
<1> QED
  BY <1>1, <1>2

\* Every step keeps the types; the mutex is held at two places only.
LEMMA TypeStep ==
  SemaphoreTypeOK /\ Positive /\ [SemaphoreNext]_semaphoreVars => SemaphoreTypeOK' /\ Positive'
<1> SUFFICES ASSUME SemaphoreTypeOK, Positive, [SemaphoreNext]_semaphoreVars
             PROVE  SemaphoreTypeOK' /\ Positive'
  OBVIOUS
<1> USE SemaphoreAssumption DEF SemaphoreTypeOK, Positive, Points
<1>1. ASSUME NEW t \in Threads, Begin(t) PROVE SemaphoreTypeOK' /\ Positive'
  BY <1>1 DEF Begin, Move
<1>2. ASSUME NEW t \in Threads, Load(t) PROVE SemaphoreTypeOK' /\ Positive'
  BY <1>2 DEF Load, Move
<1>3. ASSUME NEW t \in Threads, Swap(t) PROVE SemaphoreTypeOK' /\ Positive'
  BY <1>3 DEF Swap, Move
<1>4. ASSUME NEW t \in Threads, Lock(t) PROVE SemaphoreTypeOK' /\ Positive'
  BY <1>4 DEF Lock, Move
<1>5. ASSUME NEW t \in Threads, Recheck(t) PROVE SemaphoreTypeOK' /\ Positive'
  BY <1>5 DEF Recheck, Move
<1>6. ASSUME NEW t \in Threads, Wait(t) PROVE SemaphoreTypeOK' /\ Positive'
  BY <1>6 DEF Wait, Move
<1>7. ASSUME NEW t \in Threads, Wake(t) PROVE SemaphoreTypeOK' /\ Positive'
  BY <1>7 DEF Wake, Move
<1>8. ASSUME NEW t \in Threads, Add(t) PROVE SemaphoreTypeOK' /\ Positive'
  BY <1>8 DEF Add, Move
<1>9. ASSUME NEW t \in Threads, Notify(t) PROVE SemaphoreTypeOK' /\ Positive'
  BY <1>9 DEF Notify, Move
<1>10. ASSUME NEW t \in Threads, SpuriousWake(t) PROVE SemaphoreTypeOK' /\ Positive'
  BY <1>10 DEF SpuriousWake
<1>11. CASE UNCHANGED semaphoreVars
  BY <1>11 DEF semaphoreVars
<1> QED
  BY <1>1, <1>2, <1>3, <1>4, <1>5, <1>6, <1>7, <1>8, <1>9, <1>10, <1>11
  DEF SemaphoreNext, Step, SemaphoreDone

\* Only a swap lets a thread in, and only an add lets one out.
LEMMA PermitsStep ==
  SemaphoreTypeOK /\ PermitsConserved /\ [SemaphoreNext]_semaphoreVars => PermitsConserved'
<1> SUFFICES ASSUME SemaphoreTypeOK, PermitsConserved, [SemaphoreNext]_semaphoreVars
             PROVE  PermitsConserved'
  OBVIOUS
<1> DEFINE Inside == At({"inside"})
<1> USE SemaphoreAssumption DEF SemaphoreTypeOK
<1>0. IsFiniteSet(Inside) /\ Cardinality(Inside) \in Nat
  BY Finite
<1>1. ASSUME UNCHANGED permits, Inside' = Inside PROVE PermitsConserved'
  BY <1>1 DEF PermitsConserved
<1>2. ASSUME NEW t \in Threads,
             Begin(t) \/ Load(t) \/ Lock(t) \/ Recheck(t) \/ Wait(t) \/ Wake(t) \/ Notify(t)
             \/ SpuriousWake(t)
      PROVE  PermitsConserved'
  BY <1>2, <1>1 DEF At, Begin, Load, Lock, Recheck, Wait, Wake, Notify, SpuriousWake, Move
<1>3. ASSUME NEW t \in Threads, Swap(t) PROVE PermitsConserved'
  <2>1. CASE permits = current[t]
    <3>1. t \notin Inside /\ Inside' = Inside \cup {t}
      BY <1>3, <2>1 DEF Swap, Move, At
    <3>2. Cardinality(Inside') = Cardinality(Inside) + 1
      BY <1>0, <3>1, FS_AddElement
    <3>3. permits' = permits - 1
      BY <1>3, <2>1 DEF Swap
    <3> QED
      BY <1>0, <3>2, <3>3 DEF PermitsConserved
  <2>2. CASE permits # current[t]
    BY <1>3, <2>2, <1>1 DEF Swap, Move, At
  <2> QED
    BY <2>1, <2>2
<1>4. ASSUME NEW t \in Threads, Add(t) PROVE PermitsConserved'
  <2>1. t \in Inside /\ Inside' = Inside \ {t}
    BY <1>4 DEF Add, Move, At
  <2>2. Cardinality(Inside') = Cardinality(Inside) - 1
    BY <1>0, <2>1, FS_RemoveElement
  <2>3. permits' = permits + 1
    BY <1>4 DEF Add
  <2> QED
    BY <1>0, <2>2, <2>3 DEF PermitsConserved
<1>5. CASE UNCHANGED semaphoreVars
  BY <1>5, <1>1 DEF semaphoreVars, At
<1> QED
  BY <1>2, <1>3, <1>4, <1>5 DEF SemaphoreNext, Step, SemaphoreDone

\* A thread leaves the way only with a permit, without one to be had, or once it has
\* put another on the way.
LEMMA NoneLostStep ==
  SemaphoreTypeOK /\ SemaphoreTypeOK' /\ NoneLost /\ [SemaphoreNext]_semaphoreVars => NoneLost'
<1> SUFFICES ASSUME SemaphoreTypeOK, SemaphoreTypeOK', NoneLost, [SemaphoreNext]_semaphoreVars
             PROVE  NoneLost'
  OBVIOUS
<1> DEFINE Sleepers == asleep \cup At({"wait"})
<1> USE SemaphoreAssumption DEF SemaphoreTypeOK
<1>0. /\ IsFiniteSet(OnTheirWay) /\ Cardinality(OnTheirWay) \in Nat
      /\ IsFiniteSet(OnTheirWay') /\ Cardinality(OnTheirWay') \in Nat
  <2>1. \A S : S \subseteq Threads => IsFiniteSet(S) /\ Cardinality(S) \in Nat
    BY FS_Subset, FS_CardinalityType
  <2>2. OnTheirWay \subseteq Threads /\ OnTheirWay' \subseteq Threads
    BY DEF OnTheirWay, At
  <2> QED
    BY <2>1, <2>2
<1>1. ASSUME UNCHANGED permits, OnTheirWay \subseteq OnTheirWay', Sleepers' \subseteq Sleepers
      PROVE  NoneLost'
  <2>1. Cardinality(OnTheirWay) <= Cardinality(OnTheirWay')
    BY <1>0, <1>1, FS_Subset
  <2> QED
    BY <1>0, <1>1, <2>1 DEF NoneLost
<1>2. ASSUME NEW t \in Threads,
             Begin(t) \/ Load(t) \/ Lock(t) \/ Wait(t) \/ Wake(t) \/ SpuriousWake(t)
      PROVE  NoneLost'
  <2>1. UNCHANGED permits /\ OnTheirWay \subseteq OnTheirWay'
    BY <1>2 DEF OnTheirWay, At, Begin, Load, Lock, Wait, Wake, SpuriousWake, Move
  <2>2. Sleepers' \subseteq Sleepers
    BY <1>2 DEF At, Begin, Load, Lock, Wait, Wake, SpuriousWake, Move
  <2> QED
    BY <1>1, <2>1, <2>2
<1>3. ASSUME NEW t \in Threads, Swap(t) PROVE NoneLost'
  <2>1. Sleepers' = Sleepers
    BY <1>3 DEF Swap, Move, At
  <2>2. CASE permits = current[t]
    <3>1. t \in OnTheirWay /\ OnTheirWay' = OnTheirWay \ {t}
      BY <1>3, <2>2 DEF Swap, Move, At, OnTheirWay
    <3>2. Cardinality(OnTheirWay') = Cardinality(OnTheirWay) - 1
      BY <1>0, <3>1, FS_RemoveElement
    <3>3. permits' = permits - 1
      BY <1>3, <2>2 DEF Swap
    <3> QED
      BY <1>0, <2>1, <3>2, <3>3 DEF NoneLost
  <2>3. CASE permits # current[t]
    <3>1. UNCHANGED permits /\ OnTheirWay \subseteq OnTheirWay'
      BY <1>3, <2>3 DEF Swap, Move, At, OnTheirWay
    <3> QED
      BY <1>1, <2>1, <3>1
  <2> QED
    BY <2>2, <2>3
<1>4. ASSUME NEW t \in Threads, Recheck(t) PROVE NoneLost'
  <2>1. CASE permits > 0
    <3>1. UNCHANGED permits /\ OnTheirWay \subseteq OnTheirWay'
      BY <1>4, <2>1 DEF Recheck, Move, At, OnTheirWay
    <3>2. Sleepers' \subseteq Sleepers
      BY <1>4, <2>1 DEF Recheck, Move, At
    <3> QED
      BY <1>1, <3>1, <3>2
  <2>2. CASE ~(permits > 0)
    BY <1>0, <1>4, <2>2 DEF Recheck, NoneLost
  <2> QED
    BY <2>1, <2>2
<1>5. ASSUME NEW t \in Threads, Add(t) PROVE NoneLost'
  <2>1. t \notin OnTheirWay /\ OnTheirWay' = OnTheirWay \cup {t}
    BY <1>5 DEF Add, Move, At, OnTheirWay
  <2>2. Cardinality(OnTheirWay') = Cardinality(OnTheirWay) + 1
    BY <1>0, <2>1, FS_AddElement
  <2>3. Sleepers' = Sleepers
    BY <1>5 DEF Add, Move, At
  <2>4. permits' = permits + 1
    BY <1>5 DEF Add
  <2> QED
    BY <1>0, <2>2, <2>3, <2>4 DEF NoneLost
<1>6. ASSUME NEW t \in Threads, Notify(t) PROVE NoneLost'
  <2>1. At({"wait"}) = {} /\ At({"wait"})' = {}
    BY <1>6 DEF Notify, At, Move
  <2>2. CASE asleep = {}
    BY <1>6, <2>1, <2>2 DEF Notify, NoneLost
  <2>3. CASE asleep # {}
    <3>1. PICK u \in asleep : asleep' = asleep \ {u}
      BY <1>6, <2>3 DEF Notify
    <3>2. t \in OnTheirWay /\ u \notin OnTheirWay /\ u # t
      BY <1>6, <3>1 DEF Notify, At, OnTheirWay
    <3>3. OnTheirWay' = (OnTheirWay \ {t}) \cup {u}
      BY <1>6, <3>1, <3>2 DEF Notify, At, OnTheirWay, Move
    <3>4. Cardinality(OnTheirWay') = Cardinality(OnTheirWay)
      <4>1. /\ IsFiniteSet(OnTheirWay \ {t})
            /\ Cardinality(OnTheirWay \ {t}) = Cardinality(OnTheirWay) - 1
        BY <1>0, <3>2, FS_RemoveElement
      <4>2. u \notin OnTheirWay \ {t}
        BY <3>2
      <4>3. Cardinality((OnTheirWay \ {t}) \cup {u}) = Cardinality(OnTheirWay \ {t}) + 1
        BY <4>1, <4>2, FS_AddElement
      <4> QED
        BY <1>0, <3>3, <4>1, <4>3
    <3>5. UNCHANGED permits /\ permits <= Cardinality(OnTheirWay)
      BY <1>6, <2>3 DEF Notify, NoneLost
    <3> QED
      BY <3>4, <3>5 DEF NoneLost
  <2> QED
    BY <2>2, <2>3
<1>7. CASE UNCHANGED semaphoreVars
  BY <1>7, <1>1 DEF semaphoreVars, OnTheirWay, At
<1> QED
  BY <1>2, <1>3, <1>4, <1>5, <1>6, <1>7 DEF SemaphoreNext, Step, SemaphoreDone

-----------------------------------------------------------------------------
LEMMA SemaphoreInvHolds == SemaphoreSpec => []SemaphoreInv
<1>1. SemaphoreInit => SemaphoreInv
  <2> SUFFICES ASSUME SemaphoreInit PROVE SemaphoreInv
    OBVIOUS
  <2>1. At({"inside"}) = {} /\ asleep \cup At({"wait"}) = {}
    BY DEF SemaphoreInit, At
  <2>2. PermitsConserved
    BY <2>1, FS_EmptySet, SemaphoreAssumption DEF PermitsConserved, SemaphoreInit
  <2> QED
    BY <2>1, <2>2, SemaphoreAssumption
    DEF SemaphoreInit, SemaphoreInv, SemaphoreTypeOK, Positive, NoneLost, Points
<1>2. SemaphoreInv /\ [SemaphoreNext]_semaphoreVars => SemaphoreInv'
  BY TypeStep, PermitsStep, NoneLostStep DEF SemaphoreInv
<1> QED
  BY <1>1, <1>2, PTL DEF SemaphoreSpec

\* Semaphore: what is free and who is inside always add up to the permits given to
\* `new`, so acquire never lets in more threads than that.
THEOREM Conservation == SemaphoreSpec => []PermitsConserved
<1>1. SemaphoreInv => PermitsConserved
  BY DEF SemaphoreInv
<1> QED
  BY <1>1, SemaphoreInvHolds, PTL

\* Semaphore::acquire and release: nobody sleeps on a permit that no thread is on its
\* way to take or to tell of; the window described above `acquire` is closed.
THEOREM WakeupsKept == SemaphoreSpec => []NoLostWakeup
<1>1. SemaphoreInv => NoLostWakeup
  BY DEF SemaphoreInv, NoneLost, NoLostWakeup
<1> QED
  BY <1>1, SemaphoreInvHolds, PTL

-----------------------------------------------------------------------------
(* The refinement *)

Asking == {"load", "swap", "lock", "recheck", "wait", "sleep"}

\* What becomes of the two sets when one thread moves.
LEMMA Moved ==
  ASSUME SemaphoreTypeOK, NEW t \in Threads, NEW place \in Points, Move(t, place), NEW places
  PROVE  At(places)' = IF place \in places THEN At(places) \cup {t} ELSE At(places) \ {t}
BY DEF SemaphoreTypeOK, Move, At

\* Every step of the semaphore is one of the abstract counter, or none at all: only
\* Begin, a Swap that succeeds and Add are seen from outside.
LEMMA MapsToCounter == SemaphoreTypeOK /\ Positive /\ [SemaphoreNext]_semaphoreVars => [Counter!Next]_(Counter!vars)
<1>. SUFFICES ASSUME SemaphoreTypeOK, Positive, [SemaphoreNext]_semaphoreVars PROVE [Counter!Next]_(Counter!vars)
  OBVIOUS
<1>. DEFINE asking == At(Asking)
            inside == At({"inside"})
<1>1. ASSUME UNCHANGED permits, asking' = asking, inside' = inside
      PROVE  [Counter!Next]_(Counter!vars)
  BY <1>1 DEF Counter!vars, Asking
<1>2. ASSUME NEW t \in Threads, Begin(t) PROVE Counter!Ask(t)
  <2>1. t \notin asking \cup inside /\ UNCHANGED permits /\ Move(t, "load")
    BY <1>2 DEF Begin, At, Asking
  <2>2. asking' = asking \cup {t} /\ inside' = inside \ {t}
    BY <2>1, Moved DEF Points, Asking
  <2>3. inside' = inside
    BY <2>1, <2>2
  <2>. QED BY <2>1, <2>2, <2>3 DEF Counter!Ask, Asking
<1>3. ASSUME NEW t \in Threads, Swap(t), permits = current[t] PROVE Counter!Acquire(t)
  <2>1. t \in asking /\ permits > 0 /\ permits' = permits - 1 /\ Move(t, "inside")
    BY <1>3 DEF Swap, Positive, At, Asking
  <2>2. asking' = asking \ {t} /\ inside' = inside \cup {t}
    BY <2>1, Moved DEF Points, Asking
  <2>. QED BY <2>1, <2>2 DEF Counter!Acquire, Asking
<1>4. ASSUME NEW t \in Threads, Add(t) PROVE Counter!Release(t)
  <2>1. t \in inside /\ t \notin asking /\ permits' = permits + 1 /\ Move(t, "notify")
    BY <1>4 DEF Add, At, Asking
  <2>2. asking' = asking \ {t} /\ inside' = inside \ {t}
    BY <2>1, Moved DEF Points, Asking
  <2>3. asking' = asking
    BY <2>1, <2>2
  <2>. QED BY <2>1, <2>2, <2>3 DEF Counter!Release, Asking
<1>5. ASSUME NEW t \in Threads,
             \/ Load(t) \/ Lock(t) \/ Recheck(t) \/ Wait(t) \/ Wake(t)
             \/ Swap(t) /\ permits # current[t]
      PROVE  [Counter!Next]_(Counter!vars)
  <2>1. PICK place \in Asking : Move(t, place)
    BY <1>5 DEF Load, Lock, Recheck, Wait, Wake, Swap, Asking
  <2>2. t \in asking /\ t \notin inside /\ UNCHANGED permits
    BY <1>5 DEF Load, Lock, Recheck, Wait, Wake, Swap, At, Asking
  <2>3. asking' = asking \cup {t} /\ inside' = inside \ {t}
    BY <2>1, Moved DEF Points, Asking
  <2>4. asking' = asking /\ inside' = inside
    BY <2>2, <2>3
  <2>. QED BY <1>1, <2>2, <2>4
<1>6. ASSUME NEW t \in Threads, Notify(t) PROVE [Counter!Next]_(Counter!vars)
  <2>1. t \notin asking \cup inside /\ UNCHANGED permits /\ Move(t, "idle")
    BY <1>6 DEF Notify, At, Asking
  <2>2. asking' = asking \ {t} /\ inside' = inside \ {t}
    BY <2>1, Moved DEF Points, Asking
  <2>3. asking' = asking /\ inside' = inside
    BY <2>1, <2>2
  <2>. QED BY <1>1, <2>1, <2>3
<1>7. ASSUME NEW t \in Threads, SpuriousWake(t) PROVE [Counter!Next]_(Counter!vars)
  BY <1>1, <1>7 DEF SpuriousWake, At
<1>8. CASE UNCHANGED semaphoreVars
  BY <1>1, <1>8 DEF semaphoreVars, At
<1>9. \A t \in Threads : Counter!Ask(t) \/ Counter!Acquire(t) \/ Counter!Release(t) => Counter!Next
  BY DEF Counter!Next, Counter!Grant
<1>. QED BY <1>2, <1>3, <1>4, <1>5, <1>6, <1>7, <1>8, <1>9 DEF SemaphoreNext, Step, SemaphoreDone

\* Semaphore::acquire and release are, seen from outside, an atomic counter of permits,
\* which is what module ExecParallel takes them to be: the safety part of
\* ImplementsPermits.
THEOREM RefinesPermits == SemaphoreSpec => Counter!Init /\ [][Counter!Next]_(Counter!vars)
<1>1. SemaphoreInit => Counter!Init
  BY DEF SemaphoreInit, Counter!Init, At
<1>2. SemaphoreInv /\ [SemaphoreNext]_semaphoreVars => [Counter!Next]_(Counter!vars)
  BY MapsToCounter DEF SemaphoreInv
<1>. QED BY <1>1, <1>2, SemaphoreInvHolds, PTL DEF SemaphoreSpec
=============================================================================

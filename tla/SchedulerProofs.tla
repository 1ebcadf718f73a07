---------------------------- MODULE SchedulerProofs ----------------------------
(***************************************************************************)
(* The two maps of the scheduler agree, no job fires early or after it is  *)
(* gone, and a tick leaves nothing due behind, for any number of threads,  *)
(* jobs and intervals.  What makes the agreement inductive is that an id   *)
(* whose add is under way has no entry yet, is nobody else's, and that     *)
(* nothing is in the hands of a tick unless that tick holds the mutex of   *)
(* the buckets.                                                            *)
(***************************************************************************)
EXTENDS Scheduler, TLAPS

Adding(th) == thread[th].pc \in {"insert", "index"}

\* Who is past the mutexes holds them; taken entries are due, and somebody's.
Locked ==
  /\ \A th \in Threads : /\ thread[th].pc \in {"locked", "fire"} => jobsLock = th
                         /\ thread[th].pc = "fire" => bucketsLock = th
  /\ bucketsLock = Nobody => due = NoEntries
  /\ \A th \in Threads, e \in Ids \X Times :
       thread[th].pc = "fire" /\ due[e] > 0 => e[2] <= thread[th].now

\* An add works on an id of its own, which has no entry yet.
Fresh ==
  /\ \A th \in Threads : Adding(th) =>
       /\ thread[th].id \in Ids /\ thread[th].id < nextId
       /\ thread[th].fire = DueTime(thread[th].id)
       /\ \A t \in Times : Timers(<<thread[th].id, t>>) = 0
  /\ \A th, other \in Threads :
       Adding(th) /\ Adding(other) /\ thread[th].id = thread[other].id => th = other
  /\ \A i \in Ids : i >= nextId => i \notin jobs /\ \A t \in Times : Timers(<<i, t>>) = 0

SchedInv == TypeOK /\ Locked /\ Fresh /\ EachJobHasItsTimer

-----------------------------------------------------------------------------
\* A sum of two times, taken as the machine does, is a time.
LEMMA Wraps == ASSUME NEW a \in Times, NEW b \in Times
               PROVE  (a + b) % Word \in Times
BY SchedulerAssumption DEF Times

\* The clock and the times of the jobs are times.
LEMMA ClockIsTime == 0..MaxTime \subseteq Times /\ 0 \in Times
BY SchedulerAssumption DEF Times

Places == {"idle", "insert", "index", "tick", "locked", "fire"}
ThreadState == [pc : Places, now : 0..MaxTime, id : Ids \cup {0}, fire : Times]

\* Every step keeps the types: what add computes and what tick reschedules are times.
LEMMA TypeStep == TypeOK /\ Fresh /\ [Next]_vars => TypeOK'
<1> SUFFICES ASSUME TypeOK, Fresh, [Next]_vars PROVE TypeOK'
  OBVIOUS
<1> USE SchedulerAssumption, ClockIsTime DEF TypeOK
<1>1. CASE SetClock
  BY <1>1 DEF SetClock
<1>2. ASSUME NEW th \in Threads, AddBegin(th)
      PROVE  TypeOK'
  <2>1. PICK j \in JobsToAdd(clock) :
          /\ job' = [job EXCEPT ![nextId] = j]
          /\ thread' = [thread EXCEPT ![th] =
                [pc |-> "insert", now |-> clock, id |-> nextId, fire |-> FirstFire(j)]]
    BY <1>2 DEF AddBegin
  <2>2. j \in Job
    BY <2>1 DEF JobsToAdd, Job, Times
  <2>3. FirstFire(j) \in Times
    BY <2>2, Wraps DEF FirstFire, Job, Times
  <2>4. nextId \in Ids /\ nextId' \in 1..MaxJobs + 1
    BY <1>2 DEF AddBegin, Ids
  <2> QED
    BY <1>2, <2>1, <2>2, <2>3, <2>4 DEF AddBegin
<1>3. ASSUME NEW th \in Threads,
             InsertJob(th) \/ Remove(th) \/ TickBegin(th) \/ LockJobs(th)
      PROVE  TypeOK'
  <2>1. CASE InsertJob(th)
    <3>1. thread[th].id \in Ids
      BY <2>1 DEF InsertJob, In, Fresh, Adding
    <3> QED
      BY <2>1, <3>1 DEF InsertJob, Go
  <2>2. CASE Remove(th)
    BY <2>2 DEF Remove
  <2>3. CASE TickBegin(th)
    BY <2>3 DEF TickBegin, Idle
  <2>4. CASE LockJobs(th)
    BY <2>4 DEF LockJobs, Go
  <2> QED
    BY <1>3, <2>1, <2>2, <2>3, <2>4
<1>4. ASSUME NEW th \in Threads, InsertEntry(th)
      PROVE  TypeOK'
  <2>1. <<thread[th].id, thread[th].fire>> \in Ids \X Times
    BY <1>4 DEF InsertEntry, In, Fresh, Adding
  <2>2. buckets' \in [Ids \X Times -> Nat]
    BY <1>4, <2>1 DEF InsertEntry
  <2> QED
    BY <1>4, <2>2 DEF InsertEntry, Leave, Idle
<1>5. ASSUME NEW th \in Threads, TakeDue(th) \/ TickEnd(th)
      PROVE  TypeOK'
  <2>1. CASE TakeDue(th)
    <3>1. due' \in [Ids \X Times -> Nat] /\ buckets' \in [Ids \X Times -> Nat]
      BY <2>1 DEF TakeDue
    <3> QED
      BY <2>1, <3>1 DEF TakeDue, Go
  <2>2. CASE TickEnd(th)
    BY <2>2 DEF TickEnd, Leave, Idle
  <2> QED
    BY <1>5, <2>1, <2>2
<1>6. ASSUME NEW th \in Threads, NEW e \in Ids \X Times, SkipEntry(th, e) \/ FireEntry(th, e)
      PROVE  TypeOK'
  <2>1. e[1] \in Ids /\ thread[th].now \in 0..MaxTime
    OBVIOUS
  <2>2. due' \in [Ids \X Times -> Nat]
    BY <1>6 DEF SkipEntry, FireEntry
  <2>3. CASE SkipEntry(th, e)
    BY <2>2, <2>3 DEF SkipEntry
  <2>4. CASE FireEntry(th, e)
    <3>1. fired' \in [Ids -> BOOLEAN]
      BY <2>1, <2>4 DEF FireEntry
    <3>2. CASE job[e[1]].kind = Every /\ job' = [job EXCEPT ![e[1]].last = thread[th].now]
      <4>1. job' \in [Ids -> Job]
        BY <2>1, <3>2 DEF Job
      <4>2. NextFire(e[1], thread[th].now) \in Times
        BY <2>1, Wraps DEF NextFire, Job
      <4>3. buckets' \in [Ids \X Times -> Nat]
        <5>1. PICK k \in Times : buckets' = [buckets EXCEPT ![<<e[1], k>>] = @ + 1]
          BY <2>4, <3>2, <4>2 DEF FireEntry, Every, At
        <5>2. <<e[1], k>> \in Ids \X Times
          BY <2>1
        <5> QED
          BY <5>1, <5>2
      <4>4. UNCHANGED <<clock, nextId, jobs, gone, jobsLock, bucketsLock, thread>>
        BY <2>4, <3>2 DEF FireEntry, Every, At
      <4> QED
        BY <2>2, <3>1, <4>1, <4>3, <4>4
    <3>3. CASE job[e[1]].kind = At
      BY <2>1, <2>2, <2>4, <3>1, <3>3 DEF FireEntry, Every, At
    <3> QED
      BY <2>4, <3>2, <3>3 DEF FireEntry
  <2> QED
    BY <1>6, <2>3, <2>4
<1>7. CASE UNCHANGED vars
  BY <1>7 DEF vars
<1> QED
  BY <1>1, <1>2, <1>3, <1>4, <1>5, <1>6, <1>7 DEF Next, Step

-----------------------------------------------------------------------------
\* The mutexes exclude: only their holder gets past them, and only a tick that holds
\* both has entries in its hands.
LEMMA LockedStep == TypeOK /\ Fresh /\ Locked /\ [Next]_vars => Locked'
<1> SUFFICES ASSUME TypeOK, Fresh, Locked, [Next]_vars PROVE Locked'
  OBVIOUS
<1> USE SchedulerAssumption DEF Locked
<1>1. CASE SetClock \/ UNCHANGED vars
  BY <1>1 DEF SetClock, vars
<1>2. ASSUME NEW th \in Threads, AddBegin(th) \/ InsertJob(th) \/ InsertEntry(th) \/ Remove(th)
                                 \/ TickBegin(th)
      PROVE  Locked'
  <2>1. UNCHANGED <<jobsLock, bucketsLock, due>>
    BY <1>2 DEF AddBegin, InsertJob, InsertEntry, Remove, TickBegin
  <2>2. /\ thread'[th].pc \notin {"locked", "fire"}
        /\ \A other \in Threads : other # th => thread'[other] = thread[other]
    <3>1. CASE AddBegin(th)
      BY <3>1 DEF AddBegin, TypeOK
    <3>2. CASE InsertJob(th) \/ InsertEntry(th)
      BY <3>2 DEF InsertJob, InsertEntry, Go, Leave, Idle, TypeOK
    <3>3. CASE Remove(th)
      BY <3>3 DEF Remove, In
    <3>4. CASE TickBegin(th)
      BY <3>4 DEF TickBegin, Idle, TypeOK
    <3> QED
      BY <1>2, <3>1, <3>2, <3>3, <3>4
  <2> QED
    BY <2>1, <2>2
<1>3. ASSUME NEW th \in Threads, LockJobs(th)
      PROVE  Locked'
  <2>1. /\ jobsLock = Nobody /\ jobsLock' = th /\ UNCHANGED <<bucketsLock, due>>
        /\ thread'[th].pc = "locked"
        /\ \A other \in Threads : other # th => thread'[other] = thread[other]
    BY <1>3 DEF LockJobs, Go, TypeOK
  <2> QED
    BY <2>1
<1>4. ASSUME NEW th \in Threads, TakeDue(th)
      PROVE  Locked'
  <2>1. /\ bucketsLock = Nobody /\ bucketsLock' = th /\ jobsLock = th /\ jobsLock' = jobsLock
        /\ thread'[th].pc = "fire" /\ thread'[th].now = thread[th].now
        /\ \A other \in Threads : other # th => thread'[other] = thread[other]
    BY <1>4 DEF TakeDue, Go, In, TypeOK
  <2>2. \A e \in Ids \X Times : due'[e] > 0 => e[2] <= thread[th].now
    BY <1>4 DEF TakeDue, DueAt
  <2> QED
    BY <2>1, <2>2
<1>5. ASSUME NEW th \in Threads, NEW f \in Ids \X Times, SkipEntry(th, f) \/ FireEntry(th, f)
      PROVE  Locked'
  <2>1. /\ UNCHANGED <<jobsLock, bucketsLock, thread>> /\ thread[th].pc = "fire"
        /\ due' = [due EXCEPT ![f] = @ - 1]
    BY <1>5 DEF SkipEntry, FireEntry, In
  <2>2. \A e \in Ids \X Times : due'[e] > 0 => due[e] > 0
    BY <2>1 DEF TypeOK
  <2>3. bucketsLock' # Nobody
    BY <2>1
  <2> QED
    BY <2>1, <2>2, <2>3
<1>6. ASSUME NEW th \in Threads, TickEnd(th)
      PROVE  Locked'
  <2>1. /\ thread[th].pc = "fire" /\ due' = NoEntries
        /\ thread'[th].pc = "idle"
        /\ \A other \in Threads : other # th => thread'[other] = thread[other]
    BY <1>6 DEF TickEnd, In, Leave, Idle, TypeOK
  <2>2. \A other \in Threads : thread'[other].pc \notin {"locked", "fire"}
    BY <2>1
  <2> QED
    BY <2>1, <2>2
<1> QED
  BY <1>1, <1>2, <1>3, <1>4, <1>5, <1>6 DEF Next, Step

-----------------------------------------------------------------------------
\* What the adds under way have in common: a step that leaves their threads, their
\* jobs and the entries of their ids alone, and adds no thread, keeps them fresh.
LEMMA FreshFrame ==
  ASSUME TypeOK, Fresh, nextId' = nextId,
         \A th \in Threads : thread'[th].pc \in {"insert", "index"} =>
           /\ Adding(th) /\ thread'[th].id = thread[th].id /\ thread'[th].fire = thread[th].fire
           /\ \A i \in Ids : i = thread[th].id =>
                job'[i] = job[i] /\ \A t \in Times : buckets'[<<i, t>>] + due'[<<i, t>>] = 0,
         \A i \in Ids : i >= nextId =>
           i \notin jobs' /\ \A t \in Times : buckets'[<<i, t>>] + due'[<<i, t>>] = 0
  PROVE  Fresh'
<1>1. ASSUME NEW th \in Threads, thread'[th].pc \in {"insert", "index"}
      PROVE  /\ thread'[th].id \in Ids /\ thread'[th].id < nextId'
             /\ thread'[th].fire = DueTime(thread[th].id)
             /\ job'[thread[th].id] = job[thread[th].id]
             /\ \A t \in Times : buckets'[<<thread'[th].id, t>>] + due'[<<thread'[th].id, t>>] = 0
  BY <1>1 DEF Fresh
<1>2. ASSUME NEW th \in Threads, NEW other \in Threads,
             thread'[th].pc \in {"insert", "index"}, thread'[other].pc \in {"insert", "index"},
             thread'[th].id = thread'[other].id
      PROVE  th = other
  BY <1>2 DEF Fresh
<1>3. \A th \in Threads : thread'[th].pc \in {"insert", "index"} =>
        thread'[th].fire = DueTime(thread[th].id)'
  BY <1>1 DEF DueTime
<1> QED
  BY <1>1, <1>2, <1>3 DEF Fresh, Adding, Timers

\* An entry taken out of `due` changes no other entry.
LEMMA OneEntry ==
  ASSUME TypeOK, NEW e \in Ids \X Times, due[e] > 0, due' = [due EXCEPT ![e] = @ - 1],
         buckets' = buckets
  PROVE  \A i \in Ids, t \in Times : <<i, t>> # e =>
           buckets'[<<i, t>>] + due'[<<i, t>>] = buckets[<<i, t>>] + due[<<i, t>>]
BY DEF TypeOK

\* The entry a tick looks at, if its job is still there, is the job's only one.
LEMMA TheOnlyEntry ==
  ASSUME SchedInv, NEW th \in Threads, NEW i \in jobs, NEW t \in Times, due[<<i, t>>] > 0
  PROVE  /\ t = DueTime(i) /\ ~BeingAdded(i) /\ due[<<i, t>>] = 1 /\ buckets[<<i, t>>] = 0
         /\ \A u \in Times \ {t} : buckets[<<i, u>>] = 0 /\ due[<<i, u>>] = 0
<1>1. i \in Ids /\ \A u \in Times : buckets[<<i, u>>] \in Nat /\ due[<<i, u>>] \in Nat
  BY DEF SchedInv, TypeOK
<1>2. \A u \in Times : buckets[<<i, u>>] + due[<<i, u>>] =
                         IF u = DueTime(i) /\ ~BeingAdded(i) THEN 1 ELSE 0
  BY DEF SchedInv, EachJobHasItsTimer, Timers
<1> QED
  BY <1>1, <1>2

\* Adds work on ids of their own in every step.
LEMMA FreshStep == SchedInv /\ [Next]_vars => Fresh'
<1> SUFFICES ASSUME SchedInv, [Next]_vars PROVE Fresh'
  OBVIOUS
<1>1. TypeOK /\ Fresh /\ Locked /\ EachJobHasItsTimer
  BY DEF SchedInv
<1>2. /\ \A th \in Threads : thread[th].pc \in {"insert", "index"} =>
           \A i \in Ids : i = thread[th].id =>
             \A t \in Times : buckets[<<i, t>>] + due[<<i, t>>] = 0
      /\ \A i \in Ids : i >= nextId =>
           i \notin jobs /\ \A t \in Times : buckets[<<i, t>>] + due[<<i, t>>] = 0
      /\ \A e \in Ids \X Times : buckets[e] \in Nat /\ due[e] \in Nat
  BY <1>1 DEF Fresh, Adding, Timers, TypeOK
<1>3. CASE SetClock \/ UNCHANGED vars
  <2>1. UNCHANGED <<nextId, jobs, job, buckets, due, thread>>
    BY <1>3 DEF SetClock, vars
  <2> QED
    BY <1>1, <1>2, <2>1, FreshFrame DEF Adding
<1>4. ASSUME NEW th \in Threads, AddBegin(th)
      PROVE  Fresh'
  <2>1. PICK j \in JobsToAdd(clock) :
          /\ job' = [job EXCEPT ![nextId] = j]
          /\ thread' = [thread EXCEPT ![th] =
                [pc |-> "insert", now |-> clock, id |-> nextId, fire |-> FirstFire(j)]]
    BY <1>4 DEF AddBegin
  <2>2. /\ nextId \in Ids /\ nextId' = nextId + 1 /\ UNCHANGED <<jobs, buckets, due>>
    BY <1>1, <1>4 DEF AddBegin, TypeOK, Ids
  <2>3. /\ thread'[th] = [pc |-> "insert", now |-> clock, id |-> nextId, fire |-> FirstFire(j)]
        /\ \A other \in Threads : other # th => thread'[other] = thread[other]
        /\ job'[nextId] = j /\ \A i \in Ids : i # nextId => job'[i] = job[i]
    BY <1>1, <2>1, <2>2 DEF TypeOK
  <2>4. ASSUME NEW other \in Threads, thread'[other].pc \in {"insert", "index"}
        PROVE  /\ thread'[other].id \in Ids /\ thread'[other].id < nextId'
               /\ thread'[other].fire = FirstFire(job'[thread'[other].id])
               /\ \A t \in Times : buckets'[<<thread'[other].id, t>>] + due'[<<thread'[other].id, t>>] = 0
    <3>1. nextId \in Nat /\ nextId < nextId'
      BY <2>2 DEF Ids
    <3>2. CASE other = th
      BY <3>1, <3>2, <2>2, <2>3, <1>2
    <3>3. CASE other # th
      <4>1. /\ thread[other].id \in Ids /\ thread[other].id < nextId
            /\ thread[other].fire = FirstFire(job[thread[other].id])
        BY <1>1, <2>3, <2>4, <3>3 DEF Fresh, Adding, DueTime
      <4> QED
        BY <4>1, <3>1, <3>3, <2>2, <2>3, <2>4, <1>2 DEF Ids
    <3> QED
      BY <3>2, <3>3
  <2>5. ASSUME NEW one \in Threads, NEW other \in Threads,
               thread'[one].pc \in {"insert", "index"}, thread'[other].pc \in {"insert", "index"},
               thread'[one].id = thread'[other].id
        PROVE  one = other
    <3>1. \A w \in Threads : w # th /\ thread'[w].pc \in {"insert", "index"} => thread'[w].id < nextId
      BY <1>1, <2>3 DEF Fresh, Adding
    <3> QED
      BY <1>1, <2>2, <2>3, <2>5, <3>1 DEF Fresh, Adding, Ids
  <2>6. \A i \in Ids : i >= nextId' =>
          i \notin jobs' /\ \A t \in Times : buckets'[<<i, t>>] + due'[<<i, t>>] = 0
    BY <2>2, <1>2 DEF Ids
  <2> QED
    BY <2>4, <2>5, <2>6 DEF Fresh, Adding, Timers, DueTime
<1>5. ASSUME NEW th \in Threads, InsertJob(th)
      PROVE  Fresh'
  <2>1. /\ UNCHANGED <<nextId, job, buckets, due>> /\ jobs' = jobs \cup {thread[th].id}
        /\ thread[th].pc = "insert"
        /\ \A other \in Threads : /\ thread'[other].id = thread[other].id
                                  /\ thread'[other].fire = thread[other].fire
                                  /\ other # th => thread'[other].pc = thread[other].pc
    BY <1>1, <1>5 DEF InsertJob, In, Go, TypeOK
  <2>2. thread[th].id < nextId /\ thread[th].id \in Ids /\ nextId \in Nat
    BY <1>1, <2>1 DEF Fresh, Adding, TypeOK
  <2>3. \A i \in Ids : i >= nextId => i \notin jobs'
    BY <2>1, <2>2, <1>2 DEF Ids
  <2> QED
    BY <1>1, <1>2, <2>1, <2>3, FreshFrame DEF Adding
<1>6. ASSUME NEW th \in Threads, InsertEntry(th)
      PROVE  Fresh'
  <2>1. /\ UNCHANGED <<nextId, jobs, job, due>> /\ thread[th].pc = "index"
        /\ buckets' = [buckets EXCEPT ![<<thread[th].id, thread[th].fire>>] = @ + 1]
        /\ thread'[th].pc = "idle"
        /\ \A other \in Threads : other # th => thread'[other] = thread[other]
    BY <1>1, <1>6 DEF InsertEntry, In, Leave, Idle, TypeOK
  <2>2. thread[th].id < nextId /\ thread[th].id \in Ids /\ nextId \in Nat
    BY <1>1, <2>1 DEF Fresh, Adding, TypeOK
  <2>3. \A i \in Ids, t \in Times : i # thread[th].id => buckets'[<<i, t>>] = buckets[<<i, t>>]
    BY <1>1, <2>1 DEF TypeOK
  <2>4. ASSUME NEW other \in Threads, thread'[other].pc \in {"insert", "index"}
        PROVE  other # th /\ Adding(other) /\ thread[other].id # thread[th].id
    BY <1>1, <2>1, <2>4 DEF Fresh, Adding
  <2>5. \A i \in Ids : i >= nextId => i # thread[th].id
    BY <2>2 DEF Ids
  <2> QED
    BY <1>1, <1>2, <2>1, <2>3, <2>4, <2>5, FreshFrame DEF Adding
<1>7. ASSUME NEW th \in Threads, Remove(th) \/ TickBegin(th) \/ LockJobs(th) \/ TickEnd(th)
      PROVE  Fresh'
  <2>1. UNCHANGED <<nextId, job, buckets, due>> /\ jobs' \subseteq jobs
    BY <1>7 DEF Remove, TickBegin, LockJobs, TickEnd
  <2>2. \A other \in Threads : thread'[other].pc \in {"insert", "index"} =>
                                 thread'[other] = thread[other]
    <3>1. CASE Remove(th)
      BY <3>1 DEF Remove
    <3>2. CASE TickBegin(th)
      BY <1>1, <3>2 DEF TickBegin, Idle, TypeOK
    <3>3. CASE LockJobs(th) \/ TickEnd(th)
      BY <1>1, <3>3 DEF LockJobs, TickEnd, Go, Leave, Idle, TypeOK
    <3> QED
      BY <1>7, <3>1, <3>2, <3>3
  <2> QED
    BY <1>1, <1>2, <2>1, <2>2, FreshFrame DEF Adding
<1>8. ASSUME NEW th \in Threads, TakeDue(th)
      PROVE  Fresh'
  <2>1. UNCHANGED <<nextId, job, jobs>> /\ due = NoEntries
    BY <1>1, <1>8 DEF TakeDue, Locked
  <2>2. \A e \in Ids \X Times : buckets'[e] + due'[e] = buckets[e] + due[e]
    BY <1>1, <1>2, <1>8, <2>1 DEF TakeDue, NoEntries
  <2>3. \A other \in Threads : thread'[other].pc \in {"insert", "index"} =>
                                 thread'[other] = thread[other]
    BY <1>1, <1>8 DEF TakeDue, Go, TypeOK
  <2> QED
    BY <1>1, <1>2, <2>1, <2>2, <2>3, FreshFrame DEF Adding
<1>9. ASSUME NEW th \in Threads, NEW e \in Ids \X Times, SkipEntry(th, e) \/ FireEntry(th, e)
      PROVE  Fresh'
  <2>1. /\ UNCHANGED <<nextId, thread>> /\ jobs' \subseteq jobs /\ due[e] > 0
        /\ due' = [due EXCEPT ![e] = @ - 1]
    BY <1>9 DEF SkipEntry, FireEntry
  <2>2. e[1] \in Ids /\ e[2] \in Times /\ e = <<e[1], e[2]>>
    OBVIOUS
  <2>3. e[1] < nextId /\ \A other \in Threads : Adding(other) => thread[other].id # e[1]
    BY <1>1, <1>2, <2>1, <2>2 DEF Adding, TypeOK, Ids
  <2>4. \A i \in Ids : i # e[1] => /\ job'[i] = job[i]
                                   /\ \A t \in Times : buckets'[<<i, t>>] = buckets[<<i, t>>]
                                                       /\ due'[<<i, t>>] = due[<<i, t>>]
    <3>1. \A i \in Ids, t \in Times : i # e[1] => due'[<<i, t>>] = due[<<i, t>>]
      BY <1>1, <2>1, <2>2 DEF TypeOK
    <3>2. job' = job \/ job' = [job EXCEPT ![e[1]].last = thread[th].now]
      BY <1>9 DEF SkipEntry, FireEntry
    <3>3. buckets' = buckets
          \/ buckets' = [buckets EXCEPT ![<<e[1], NextFire(e[1], thread[th].now)>>] = @ + 1]
      BY <1>9 DEF SkipEntry, FireEntry
    <3> HIDE DEF NextFire
    <3>4. \A i \in Ids, t \in Times : i # e[1] => buckets'[<<i, t>>] = buckets[<<i, t>>]
      BY <1>1, <3>3 DEF TypeOK
    <3> QED
      BY <1>1, <3>1, <3>2, <3>4 DEF TypeOK
  <2>5. \A i \in Ids : i >= nextId => i # e[1]
    BY <2>3, <1>1 DEF TypeOK, Ids
  <2> QED
    BY <1>1, <1>2, <2>1, <2>3, <2>4, <2>5, FreshFrame DEF Adding
<1> QED
  BY <1>3, <1>4, <1>5, <1>6, <1>7, <1>8, <1>9 DEF Next, Step

-----------------------------------------------------------------------------
\* A step that changes neither the entries nor the due times, and whose only effect on
\* the adds is that an id without entries joins the table, keeps the maps in agreement.
LEMMA TimersFrame ==
  ASSUME EachJobHasItsTimer,
         \A i \in jobs', t \in Times :
           /\ i \in jobs /\ BeingAdded(i)' = BeingAdded(i) /\ FirstFire(job'[i]) = FirstFire(job[i])
           /\ buckets'[<<i, t>>] + due'[<<i, t>>] = buckets[<<i, t>>] + due[<<i, t>>]
  PROVE  EachJobHasItsTimer'
<1>1. \A i \in jobs, t \in Times : buckets[<<i, t>>] + due[<<i, t>>] =
                                     IF t = FirstFire(job[i]) /\ ~BeingAdded(i) THEN 1 ELSE 0
  BY DEF EachJobHasItsTimer, Timers, DueTime
<1>2. \A i \in jobs', t \in Times : buckets'[<<i, t>>] + due'[<<i, t>>] =
        IF t = FirstFire(job'[i]) /\ ~BeingAdded(i)' THEN 1 ELSE 0
  BY <1>1
<1> QED
  BY <1>2 DEF EachJobHasItsTimer, Timers, DueTime

\* The maps agree after every step: an add makes the entry its job lacked, and a firing
\* replaces the entry it has used, or the job goes with it.
LEMMA TimersStep == SchedInv /\ [Next]_vars => EachJobHasItsTimer'
<1> SUFFICES ASSUME SchedInv, [Next]_vars PROVE EachJobHasItsTimer'
  OBVIOUS
<1>1. TypeOK /\ Fresh /\ Locked /\ EachJobHasItsTimer
  BY DEF SchedInv
<1>2. CASE SetClock \/ UNCHANGED vars
  <2>1. UNCHANGED <<jobs, job, buckets, due, thread>>
    BY <1>2 DEF SetClock, vars
  <2> QED
    BY <1>1, <2>1, TimersFrame DEF BeingAdded
<1>3. ASSUME NEW th \in Threads, AddBegin(th)
      PROVE  EachJobHasItsTimer'
  <2>1. /\ nextId \in Ids /\ nextId \notin jobs /\ jobs \subseteq Ids /\ UNCHANGED <<jobs, buckets, due>>
        /\ thread[th].pc = "idle" /\ thread'[th].id = nextId
        /\ \A other \in Threads : other # th => thread'[other] = thread[other]
        /\ \A i \in Ids : i # nextId => job'[i] = job[i]
    BY <1>1, <1>3 DEF AddBegin, In, TypeOK, Ids, Fresh
  <2>2. \A i \in jobs : BeingAdded(i)' = BeingAdded(i)
    BY <2>1 DEF BeingAdded
  <2> QED
    BY <1>1, <2>1, <2>2, TimersFrame
<1>4. ASSUME NEW th \in Threads, InsertJob(th)
      PROVE  EachJobHasItsTimer'
  <2>1. /\ UNCHANGED <<job, buckets, due>> /\ jobs' = jobs \cup {thread[th].id}
        /\ thread[th].pc = "insert" /\ thread'[th].pc = "index"
        /\ \A other \in Threads : thread'[other].id = thread[other].id
        /\ \A other \in Threads \ {th} : thread'[other].pc = thread[other].pc
    BY <1>1, <1>4 DEF InsertJob, In, Go, TypeOK
  <2>2. \A i \in Ids : BeingAdded(i)' = BeingAdded(i)
    BY <2>1 DEF BeingAdded
  <2>3. /\ thread[th].id \in Ids /\ BeingAdded(thread[th].id)
        /\ \A t \in Times : buckets[<<thread[th].id, t>>] + due[<<thread[th].id, t>>] = 0
    BY <1>1, <2>1 DEF Fresh, Adding, Timers, BeingAdded
  <2>4. \A i \in jobs', t \in Times : buckets'[<<i, t>>] + due'[<<i, t>>] =
          IF t = FirstFire(job'[i]) /\ ~BeingAdded(i)' THEN 1 ELSE 0
    <3> SUFFICES ASSUME NEW i \in jobs', NEW t \in Times
                 PROVE  buckets'[<<i, t>>] + due'[<<i, t>>] =
                          IF t = FirstFire(job'[i]) /\ ~BeingAdded(i)' THEN 1 ELSE 0
      OBVIOUS
    <3>1. CASE i = thread[th].id
      BY <3>1, <2>1, <2>2, <2>3
    <3>2. CASE i \in jobs
      BY <3>2, <1>1, <2>1, <2>2 DEF EachJobHasItsTimer, Timers, DueTime, TypeOK
    <3> QED
      BY <2>1, <3>1, <3>2
  <2> QED
    BY <2>4 DEF EachJobHasItsTimer, Timers, DueTime
<1>5. ASSUME NEW th \in Threads, InsertEntry(th)
      PROVE  EachJobHasItsTimer'
  <2> DEFINE id == thread[th].id
  <2>1. /\ UNCHANGED <<jobs, job, due>> /\ thread[th].pc = "index" /\ thread'[th].pc = "idle"
        /\ buckets' = [buckets EXCEPT ![<<id, thread[th].fire>>] = @ + 1]
        /\ \A other \in Threads \ {th} : thread'[other] = thread[other]
    BY <1>1, <1>5 DEF InsertEntry, In, Leave, Idle, TypeOK
  <2>2. /\ id \in Ids /\ thread[th].fire = FirstFire(job[id])
        /\ \A t \in Times : buckets[<<id, t>>] + due[<<id, t>>] = 0
        /\ \A other \in Threads \ {th} : Adding(other) => thread[other].id # id
    BY <1>1, <2>1 DEF Fresh, Adding, Timers, DueTime
  <2>3. \A i \in Ids : BeingAdded(i)' = (BeingAdded(i) /\ i # id)
    BY <2>1, <2>2 DEF BeingAdded, Adding
  <2>4. \A i \in Ids, t \in Times :
          buckets'[<<i, t>>] = IF i = id /\ t = FirstFire(job[id]) THEN buckets[<<i, t>>] + 1
                                                                   ELSE buckets[<<i, t>>]
    BY <1>1, <2>1, <2>2 DEF TypeOK
  <2> HIDE DEF id
  <2>5. ASSUME NEW i \in jobs, NEW t \in Times
        PROVE  buckets'[<<i, t>>] + due'[<<i, t>>] =
                 IF t = FirstFire(job'[i]) /\ ~BeingAdded(i)' THEN 1 ELSE 0
    <3>1. i \in Ids /\ buckets[<<i, t>>] \in Nat /\ due[<<i, t>>] \in Nat
      BY <1>1 DEF TypeOK
    <3>2. CASE i = id
      <4>1. ~BeingAdded(i)' /\ job' = job /\ due' = due
        BY <3>1, <3>2, <2>1, <2>3
      <4>2. buckets[<<i, t>>] + due[<<i, t>>] = 0
        BY <3>2, <2>2
      <4>3. buckets'[<<i, t>>] = IF t = FirstFire(job[i]) THEN buckets[<<i, t>>] + 1
                                                          ELSE buckets[<<i, t>>]
        BY <3>1, <3>2, <2>4
      <4> QED
        BY <3>1, <4>1, <4>2, <4>3
    <3>3. CASE i # id
      <4>1. buckets[<<i, t>>] + due[<<i, t>>] =
              IF t = FirstFire(job[i]) /\ ~BeingAdded(i) THEN 1 ELSE 0
        BY <1>1 DEF EachJobHasItsTimer, Timers, DueTime
      <4> QED
        BY <3>1, <3>3, <4>1, <2>1, <2>3, <2>4
    <3> QED
      BY <3>2, <3>3
  <2> QED
    BY <2>1, <2>5 DEF EachJobHasItsTimer, Timers, DueTime
<1>6. ASSUME NEW th \in Threads, Remove(th) \/ TickBegin(th) \/ LockJobs(th) \/ TickEnd(th)
      PROVE  EachJobHasItsTimer'
  <2>1. UNCHANGED <<job, buckets, due>> /\ jobs' \subseteq jobs
    BY <1>6 DEF Remove, TickBegin, LockJobs, TickEnd
  <2>2. /\ thread[th].pc \notin {"insert", "index"} /\ thread'[th].pc \notin {"insert", "index"}
        /\ \A other \in Threads \ {th} : thread'[other] = thread[other]
    <3>1. CASE Remove(th)
      BY <3>1 DEF Remove, In
    <3>2. CASE TickBegin(th)
      BY <1>1, <3>2 DEF TickBegin, In, Idle, TypeOK
    <3>3. CASE LockJobs(th) \/ TickEnd(th)
      BY <1>1, <3>3 DEF LockJobs, TickEnd, In, Go, Leave, Idle, TypeOK
    <3> QED
      BY <1>6, <3>1, <3>2, <3>3
  <2>3. \A i \in Ids : BeingAdded(i)' = BeingAdded(i)
    BY <2>2 DEF BeingAdded
  <2> QED
    BY <1>1, <2>1, <2>3, TimersFrame DEF TypeOK
<1>7. ASSUME NEW th \in Threads, TakeDue(th)
      PROVE  EachJobHasItsTimer'
  <2>1. UNCHANGED <<job, jobs>> /\ due = NoEntries
    BY <1>1, <1>7 DEF TakeDue, Locked
  <2>2. \A e \in Ids \X Times : buckets'[e] + due'[e] = buckets[e] + due[e]
    BY <1>1, <1>7, <2>1 DEF TakeDue, NoEntries, TypeOK
  <2>3. /\ thread[th].pc = "locked" /\ thread'[th].pc = "fire"
        /\ \A other \in Threads \ {th} : thread'[other] = thread[other]
    BY <1>1, <1>7 DEF TakeDue, In, Go, TypeOK
  <2>4. \A i \in Ids : BeingAdded(i)' = BeingAdded(i)
    BY <2>3 DEF BeingAdded
  <2> QED
    BY <1>1, <2>1, <2>2, <2>4, TimersFrame DEF TypeOK
<1>8. ASSUME NEW th \in Threads, NEW e \in Ids \X Times, SkipEntry(th, e)
      PROVE  EachJobHasItsTimer'
  <2>1. /\ UNCHANGED <<jobs, job, buckets, thread>> /\ e[1] \notin jobs
        /\ due' = [due EXCEPT ![e] = @ - 1]
    BY <1>8 DEF SkipEntry, Known
  <2>2. \A i \in jobs, t \in Times : due'[<<i, t>>] = due[<<i, t>>]
    BY <1>1, <2>1 DEF TypeOK
  <2> QED
    BY <1>1, <2>1, <2>2, TimersFrame DEF BeingAdded
<1>9. ASSUME NEW th \in Threads, NEW e \in Ids \X Times, FireEntry(th, e)
      PROVE  EachJobHasItsTimer'
  <2> DEFINE i == e[1]
             next == NextFire(i, thread[th].now)
  <2>1. /\ UNCHANGED thread /\ i \in jobs /\ i \in Ids /\ e[2] \in Times /\ e = <<i, e[2]>>
        /\ due[<<i, e[2]>>] > 0 /\ due' = [due EXCEPT ![<<i, e[2]>>] = @ - 1]
    <3>1. e[1] \in Ids /\ e[2] \in Times /\ e = <<e[1], e[2]>>
      OBVIOUS
    <3>2. UNCHANGED thread /\ e[1] \in jobs /\ due[e] > 0 /\ due' = [due EXCEPT ![e] = @ - 1]
      BY <1>9 DEF FireEntry, Known
    <3> QED
      BY <3>1, <3>2
  <2>2. /\ ~BeingAdded(i) /\ due[<<i, e[2]>>] = 1 /\ buckets[<<i, e[2]>>] = 0
        /\ \A u \in Times \ {e[2]} : buckets[<<i, u>>] = 0 /\ due[<<i, u>>] = 0
    BY <2>1, TheOnlyEntry
  <2>3. \A j \in Ids : BeingAdded(j)' = BeingAdded(j)
    BY <2>1 DEF BeingAdded
  <2>4. \A j \in Ids, t \in Times : due'[<<j, t>>] = IF j = i THEN 0 ELSE due[<<j, t>>]
    BY <1>1, <2>1, <2>2 DEF TypeOK
  <2>5. CASE job[i].kind = At
    <3>1. UNCHANGED <<job, buckets>> /\ jobs' = jobs \ {i}
      BY <1>9, <2>5 DEF FireEntry, Every, At
    <3> HIDE DEF i
    <3>2. \A j \in jobs', t \in Times : due'[<<j, t>>] = due[<<j, t>>]
      BY <1>1, <2>4, <3>1 DEF TypeOK
    <3> QED
      BY <1>1, <2>3, <3>1, <3>2, TimersFrame DEF TypeOK
  <2>6. CASE job[i].kind = Every
    <3>1. /\ jobs' = jobs /\ job' = [job EXCEPT ![i].last = thread[th].now]
          /\ buckets' = [buckets EXCEPT ![<<i, next>>] = @ + 1]
      BY <1>9, <2>6 DEF FireEntry, Every, At
    <3>2. thread[th].now \in 0..MaxTime /\ job[i] \in Job /\ job' \in [Ids -> Job]
      BY <1>1, <2>1, <3>1 DEF TypeOK, Job
    <3>3. next \in Times
      BY <3>2, ClockIsTime, Wraps DEF NextFire, Job
    <3>4. FirstFire(job'[i]) = next /\ \A j \in Ids : j # i => job'[j] = job[j]
      <4>1. /\ job'[i].kind = Every /\ job'[i].last = thread[th].now
            /\ job'[i].interval = job[i].interval
        BY <1>1, <2>1, <2>6, <3>1 DEF TypeOK, Job
      <4> QED
        BY <1>1, <3>1, <4>1 DEF TypeOK, FirstFire, NextFire
    <3> HIDE DEF i, next
    <3>5. \A j \in Ids, t \in Times :
            buckets'[<<j, t>>] = IF j = i /\ t = next THEN buckets[<<j, t>>] + 1
                                                      ELSE buckets[<<j, t>>]
      BY <1>1, <2>1, <3>1, <3>3 DEF TypeOK
    <3>6. \A t \in Times : buckets[<<i, t>>] = 0 /\ due'[<<i, t>>] = 0
      BY <2>1, <2>2, <2>4
    <3>7. ASSUME NEW j \in jobs, NEW t \in Times
          PROVE  buckets'[<<j, t>>] + due'[<<j, t>>] =
                   IF t = FirstFire(job'[j]) /\ ~BeingAdded(j)' THEN 1 ELSE 0
      <4>1. CASE j = i
        <5>1. ~BeingAdded(j)'
          BY <4>1, <2>1, <2>2, <2>3
        <5> QED
          BY <4>1, <5>1, <2>1, <3>4, <3>5, <3>6
      <4>2. CASE j # i
        <5>1. j \in Ids /\ job'[j] = job[j] /\ BeingAdded(j)' = BeingAdded(j)
          BY <1>1, <4>2, <2>3, <3>4 DEF TypeOK
        <5>2. buckets'[<<j, t>>] = buckets[<<j, t>>] /\ due'[<<j, t>>] = due[<<j, t>>]
          BY <4>2, <5>1, <2>4, <3>5
        <5> QED
          BY <1>1, <5>1, <5>2 DEF EachJobHasItsTimer, Timers, DueTime
      <4> QED
        BY <4>1, <4>2
    <3> QED
      BY <3>1, <3>7 DEF EachJobHasItsTimer, Timers, DueTime
  <2> QED
    BY <1>9, <2>5, <2>6 DEF FireEntry
<1> QED
  BY <1>2, <1>3, <1>4, <1>5, <1>6, <1>7, <1>8, <1>9 DEF Next, Step

-----------------------------------------------------------------------------
\* At the start there is no job, no entry and no call.
LEMMA SchedInit == Init => SchedInv
<1> SUFFICES ASSUME Init PROVE SchedInv
  OBVIOUS
<1> USE SchedulerAssumption, ClockIsTime DEF Init
<1>1. TypeOK
  BY DEF TypeOK, NoJob, Job, NoEntries, Idle, Ids
<1>2. Locked
  BY DEF Locked, Idle
<1>3. Fresh
  BY DEF Fresh, Adding, Idle, Timers, NoEntries
<1>4. EachJobHasItsTimer
  BY DEF EachJobHasItsTimer
<1> QED
  BY <1>1, <1>2, <1>3, <1>4 DEF SchedInv

LEMMA SchedStep == SchedInv /\ [Next]_vars => SchedInv'
BY TypeStep, LockedStep, FreshStep, TimersStep DEF SchedInv

\* The invariant holds in every state the scheduler reaches.
THEOREM Invariance == Spec => []SchedInv
BY SchedInit, SchedStep, PTL DEF Spec

\* The job table and the buckets agree in every state: each job that is listed has
\* exactly one entry, at its due time, unless its add has yet to make it.
THEOREM TimersExact == Spec => []EachJobHasItsTimer
<1>1. SchedInv => EachJobHasItsTimer
  BY DEF SchedInv
<1> QED
  BY <1>1, Invariance, PTL

\* No step lets a job fire before its time: the entry the firing tick holds is the
\* job's only one, it bears the due time, and it was due by the tick's own clock.
THEOREM FiresOnTime == Spec => NeverEarly
<1>1. ASSUME SchedInv, [Next]_vars, NEW i \in Ids, fired'[i] # fired[i], Fits(i)
      PROVE  \E th \in Threads : /\ In(th, "fire")
                                 /\ thread[th].now >= IF job[i].kind = At THEN job[i].at
                                                      ELSE job[i].last + job[i].interval
  <2>1. TypeOK /\ Locked
    BY <1>1 DEF SchedInv
  <2>2. PICK th \in Threads, e \in Ids \X Times : FireEntry(th, e)
    BY <1>1 DEF Next, Step, vars, SetClock, AddBegin, InsertJob, InsertEntry, Remove,
                TickBegin, LockJobs, TakeDue, TickEnd, SkipEntry
  <2>3. /\ In(th, "fire") /\ due[e] > 0 /\ e[1] \in jobs /\ e[1] = i
        /\ e[2] \in Times /\ e = <<i, e[2]>>
    BY <1>1, <2>1, <2>2 DEF FireEntry, Known, TypeOK
  <2>4. e[2] = DueTime(i)
    BY <1>1, <2>3, TheOnlyEntry
  <2>5. e[2] <= thread[th].now
    BY <2>1, <2>3 DEF Locked, In
  <2>6. job[i] \in Job /\ thread[th].now \in 0..MaxTime
    BY <2>1 DEF TypeOK
  <2>7. CASE job[i].kind = At
    BY <2>3, <2>4, <2>5, <2>7 DEF DueTime, FirstFire, Every, At
  <2>8. CASE job[i].kind = Every
    <3>1. job[i].last + job[i].interval \in 0..Word - 1
      BY <1>1, <2>6, SchedulerAssumption DEF Fits, Job, Times
    <3>2. (job[i].last + job[i].interval) % Word = job[i].last + job[i].interval
      BY <3>1, SchedulerAssumption
    <3> QED
      BY <2>3, <2>4, <2>5, <2>8, <3>2 DEF DueTime, FirstFire, Every, At
  <2> QED
    BY <2>6, <2>7, <2>8 DEF Job
<1>2. SchedInv /\ [Next]_vars =>
        [\A i \in Ids : fired'[i] # fired[i] /\ Fits(i) =>
           \E th \in Threads : /\ In(th, "fire")
                               /\ thread[th].now >= IF job[i].kind = At THEN job[i].at
                                                    ELSE job[i].last + job[i].interval]_vars
  BY <1>1
<1> QED
  BY <1>2, Invariance, PTL DEF Spec, NeverEarly

-----------------------------------------------------------------------------
\* An id is listed at most once in its life: while its add has yet to list it, it is
\* neither listed nor gone, and what is gone is not listed again.
Once ==
  /\ gone \cap jobs = {} /\ \A i \in gone : i < nextId
  /\ \A th \in Threads : thread[th].pc = "insert" => thread[th].id \notin jobs \cup gone

\* Every step keeps that: an add lists an id of its own, and only what is listed goes.
LEMMA OnceStep == SchedInv /\ Once /\ [Next]_vars => Once'
<1> SUFFICES ASSUME SchedInv, Once, [Next]_vars PROVE Once'
  OBVIOUS
<1>1. TypeOK /\ Fresh
  BY DEF SchedInv
<1>2. CASE SetClock \/ UNCHANGED vars
  BY <1>2 DEF Once, SetClock, vars
<1>3. ASSUME NEW th \in Threads, AddBegin(th)
      PROVE  Once'
  <2>1. /\ nextId \in Ids /\ nextId \notin jobs \cup gone /\ UNCHANGED <<jobs, gone>>
        /\ nextId' = nextId + 1 /\ thread'[th].id = nextId
        /\ \A other \in Threads : other # th => thread'[other] = thread[other]
    <3>1. nextId \in Ids /\ nextId' = nextId + 1 /\ UNCHANGED <<jobs, gone>>
      BY <1>1, <1>3 DEF AddBegin, TypeOK, Ids
    <3>2. PICK j \in JobsToAdd(clock) :
            thread' = [thread EXCEPT ![th] =
              [pc |-> "insert", now |-> clock, id |-> nextId, fire |-> FirstFire(j)]]
      BY <1>3 DEF AddBegin
    <3>3. nextId \notin jobs \cup gone
      BY <1>1, <3>1 DEF Once, Fresh, Ids
    <3> QED
      BY <1>1, <3>1, <3>3, <3>2 DEF TypeOK
  <2>2. \A i \in gone : i < nextId'
    BY <1>1, <2>1 DEF Once, TypeOK, Ids
  <2>3. \A other \in Threads : thread'[other].pc = "insert" => thread'[other].id \notin jobs \cup gone
    BY <2>1 DEF Once
  <2> QED
    BY <2>1, <2>2, <2>3 DEF Once
<1>4. ASSUME NEW th \in Threads, InsertJob(th)
      PROVE  Once'
  <2>1. /\ UNCHANGED <<nextId, gone>> /\ jobs' = jobs \cup {thread[th].id}
        /\ thread[th].pc = "insert" /\ thread'[th].pc = "index"
        /\ \A other \in Threads \ {th} : thread'[other] = thread[other]
    BY <1>1, <1>4 DEF InsertJob, In, Go, TypeOK
  <2>2. \A other \in Threads \ {th} : thread[other].pc = "insert" =>
                                        thread[other].id # thread[th].id
    BY <1>1, <2>1 DEF Fresh, Adding
  <2>3. thread[th].id \notin gone
    BY <2>1 DEF Once
  <2>4. \A other \in Threads : thread'[other].pc = "insert" =>
          other # th /\ thread'[other].id \notin jobs \cup gone /\ thread'[other].id # thread[th].id
    BY <2>1, <2>2 DEF Once
  <2> QED
    BY <2>1, <2>3, <2>4 DEF Once
<1>5. ASSUME NEW th \in Threads, InsertEntry(th) \/ TickBegin(th) \/ LockJobs(th)
                                 \/ TakeDue(th) \/ TickEnd(th)
      PROVE  Once'
  <2>1. UNCHANGED <<nextId, jobs, gone>>
    BY <1>5 DEF InsertEntry, TickBegin, LockJobs, TakeDue, TickEnd
  <2>2. \A other \in Threads : thread'[other].pc = "insert" => thread'[other] = thread[other]
    <3>1. \/ Leave(th) \/ Go(th, "locked") \/ Go(th, "fire")
          \/ thread' = [thread EXCEPT ![th] = [Idle EXCEPT !.pc = "tick", !.now = clock]]
      BY <1>5 DEF InsertEntry, TickBegin, LockJobs, TakeDue, TickEnd
    <3>2. thread \in [Threads -> ThreadState]
      BY <1>1 DEF TypeOK, ThreadState, Places
    <3>3. CASE Go(th, "locked") \/ Go(th, "fire")
      BY <3>2, <3>3 DEF Go, ThreadState
    <3>4. CASE Leave(th)
      BY <3>2, <3>4 DEF Leave, Idle
    <3>5. CASE thread' = [thread EXCEPT ![th] = [Idle EXCEPT !.pc = "tick", !.now = clock]]
      BY <3>2, <3>5 DEF Idle
    <3> QED
      BY <3>1, <3>3, <3>4, <3>5
  <2> QED
    BY <2>1, <2>2 DEF Once
<1>6. ASSUME NEW i \in jobs, jobs' = jobs \ {i}, gone' = gone \cup {i},
             UNCHANGED <<nextId, thread>>
      PROVE  Once'
  <2>1. i < nextId
    BY <1>1 DEF TypeOK, Fresh, Ids
  <2> QED
    BY <1>6, <2>1 DEF Once
<1>7. ASSUME NEW th \in Threads, Remove(th)
      PROVE  Once'
  BY <1>6, <1>7 DEF Remove
<1>8. ASSUME NEW th \in Threads, NEW e \in Ids \X Times, SkipEntry(th, e)
      PROVE  Once'
  BY <1>8 DEF Once, SkipEntry
<1>9. ASSUME NEW th \in Threads, NEW e \in Ids \X Times, FireEntry(th, e)
      PROVE  Once'
  <2>1. CASE UNCHANGED <<jobs, gone>>
    BY <1>9, <2>1 DEF Once, FireEntry
  <2>2. CASE jobs' = jobs \ {e[1]} /\ gone' = gone \cup {e[1]}
    BY <1>6, <1>9, <2>2 DEF FireEntry, Known
  <2> QED
    BY <1>9, <2>1, <2>2 DEF FireEntry
<1> QED
  BY <1>2, <1>3, <1>4, <1>5, <1>7, <1>8, <1>9 DEF Next, Step

\* A job that was removed, or has fired and was to fire once, sends no message in any
\* later step, though its id may still lie in a bucket or in the hands of a tick.
THEOREM NoMessageOfTheGone == Spec => GoneStaysSilent
<1>1. Init => Once
  BY DEF Init, Once, Idle
<1>2. Spec => []Once
  BY <1>1, OnceStep, Invariance, PTL DEF Spec
<1>3. ASSUME SchedInv, Once, [Next]_vars, NEW i \in gone
      PROVE  fired'[i] = fired[i]
  <2>1. CASE UNCHANGED fired
    BY <2>1
  <2>2. ASSUME NEW th \in Threads, NEW e \in Ids \X Times, FireEntry(th, e)
        PROVE  fired'[i] = fired[i]
    <3>1. e[1] \in Ids /\ e[1] # i /\ fired' = [fired EXCEPT ![e[1]] = ~@]
      BY <1>3, <2>2 DEF FireEntry, Known, Once
    <3>2. i \in Ids /\ fired \in [Ids -> BOOLEAN]
      BY <1>3 DEF SchedInv, TypeOK
    <3> QED
      BY <3>1, <3>2
  <2> QED
    BY <1>3, <2>1, <2>2 DEF Next, Step, vars, SetClock, AddBegin, InsertJob, InsertEntry,
                            Remove, TickBegin, LockJobs, TakeDue, TickEnd, SkipEntry
<1>4. SchedInv /\ Once /\ [Next]_vars => [\A i \in gone : fired'[i] = fired[i]]_vars
  BY <1>3
<1> QED
  BY <1>2, <1>4, Invariance, PTL DEF Spec, GoneStaysSilent

-----------------------------------------------------------------------------
\* While a tick fires, what is left in the buckets is due after its clock: an interval
\* is never 0, so what it reschedules comes after its clock as well.
Caught ==
  /\ \A i \in Ids : job[i].kind = Every => job[i].interval > 0
  /\ \A th \in Threads, i \in Ids, t \in Times :
       In(th, "fire") /\ Fits(i) /\ buckets[<<i, t>>] > 0 => t > thread[th].now

\* A step that brings no thread to firing, moves no clock of one that fires, and leaves
\* jobs and buckets alone, leaves nothing due in the buckets.
LEMMA CaughtFrame ==
  ASSUME Caught, UNCHANGED <<job, buckets>>,
         \A th \in Threads : thread'[th].pc = "fire" => thread'[th] = thread[th]
  PROVE  Caught'
BY DEF Caught, In, Fits

\* Every step keeps that: only the tick that holds the mutex of the buckets fills them
\* while one fires, and it does so with times to come.
LEMMA CaughtStep == SchedInv /\ Caught /\ [Next]_vars => Caught'
<1> SUFFICES ASSUME SchedInv, Caught, [Next]_vars PROVE Caught'
  OBVIOUS
<1>1. /\ TypeOK /\ Fresh /\ Locked
      /\ thread \in [Threads -> ThreadState] /\ job \in [Ids -> Job]
      /\ buckets \in [Ids \X Times -> Nat]
  BY DEF SchedInv, TypeOK, ThreadState, Places
<1>2. CASE SetClock \/ UNCHANGED vars
  BY <1>2, CaughtFrame DEF SetClock, vars
<1>3. ASSUME NEW th \in Threads, AddBegin(th)
      PROVE  Caught'
  <2>1. PICK j \in JobsToAdd(clock) :
          /\ job' = [job EXCEPT ![nextId] = j]
          /\ thread' = [thread EXCEPT ![th] =
                [pc |-> "insert", now |-> clock, id |-> nextId, fire |-> FirstFire(j)]]
    BY <1>3 DEF AddBegin
  <2>2. nextId \in Ids /\ UNCHANGED buckets
    BY <1>1, <1>3 DEF AddBegin, TypeOK, Ids
  <2>3. \A t \in Times : buckets[<<nextId, t>>] = 0
    <3>1. nextId >= nextId
      BY <2>2 DEF Ids
    <3> QED
      BY <1>1, <2>2, <3>1 DEF Fresh, Timers, TypeOK
  <2>4. j.kind = Every => j.interval > 0
    BY <2>1, SchedulerAssumption DEF JobsToAdd, Times, Every, At
  <2>5. \A other \in Threads : thread'[other].pc = "fire" => thread'[other] = thread[other]
    BY <1>1, <2>1
  <2>6. \A i \in Ids : job'[i] = IF i = nextId THEN j ELSE job[i]
    BY <1>1, <2>1, <2>2
  <2> QED
    BY <2>2, <2>3, <2>4, <2>5, <2>6 DEF Caught, In, Fits
<1>4. ASSUME NEW th \in Threads, InsertEntry(th)
      PROVE  Caught'
  <2>1. bucketsLock = Nobody /\ UNCHANGED job /\ thread' = [thread EXCEPT ![th] = Idle]
    BY <1>4 DEF InsertEntry, Leave
  <2>2. \A other \in Threads : thread'[other].pc # "fire"
    BY <1>1, <2>1, SchedulerAssumption DEF Locked, Idle
  <2> QED
    BY <2>1, <2>2 DEF Caught, In
<1>5. ASSUME NEW th \in Threads, InsertJob(th) \/ Remove(th) \/ TickBegin(th) \/ LockJobs(th)
                                 \/ TickEnd(th)
      PROVE  Caught'
  <2>1. UNCHANGED <<job, buckets>>
    BY <1>5 DEF InsertJob, Remove, TickBegin, LockJobs, TickEnd
  <2>2. CASE UNCHANGED thread \/ Leave(th) \/ Go(th, "index") \/ Go(th, "locked")
    BY <1>1, <2>1, <2>2, CaughtFrame DEF Leave, Go, Idle, ThreadState
  <2>3. CASE thread' = [thread EXCEPT ![th] = [Idle EXCEPT !.pc = "tick", !.now = clock]]
    BY <1>1, <2>1, <2>3, CaughtFrame DEF Idle
  <2> QED
    BY <1>5, <2>2, <2>3 DEF InsertJob, Remove, TickBegin, LockJobs, TickEnd
<1>6. ASSUME NEW th \in Threads, TakeDue(th)
      PROVE  Caught'
  <2>1. /\ UNCHANGED job /\ bucketsLock = Nobody
        /\ thread' = [thread EXCEPT ![th].pc = "fire"]
        /\ buckets' = [e \in Ids \X Times |-> IF e[2] <= thread[th].now THEN 0 ELSE buckets[e]]
    BY <1>6 DEF TakeDue, Go, DueAt
  <2>2. \A other \in Threads : thread'[other].pc = "fire" => other = th
    BY <1>1, <2>1, SchedulerAssumption DEF Locked
  <2>3. thread'[th].now = thread[th].now /\ thread[th].now \in 0..MaxTime
    BY <1>1, <2>1 DEF ThreadState
  <2>4. \A i \in Ids, t \in Times : buckets'[<<i, t>>] > 0 => t > thread[th].now
    BY <2>1, <2>3, SchedulerAssumption DEF Times
  <2> QED
    BY <2>1, <2>2, <2>3, <2>4 DEF Caught, In
<1>7. ASSUME NEW th \in Threads, NEW e \in Ids \X Times, SkipEntry(th, e)
      PROVE  Caught'
  BY <1>7, CaughtFrame DEF SkipEntry
<1>8. ASSUME NEW th \in Threads, NEW e \in Ids \X Times, FireEntry(th, e)
      PROVE  Caught'
  <2>1. CASE UNCHANGED <<job, buckets>>
    BY <1>8, <2>1, CaughtFrame DEF FireEntry
  <2>2. ASSUME job[e[1]].kind = Every,
               job' = [job EXCEPT ![e[1]].last = thread[th].now],
               buckets' = [buckets EXCEPT ![<<e[1], NextFire(e[1], thread[th].now)>>] = @ + 1]
        PROVE  Caught'
    <3> DEFINE i == e[1]
               next == NextFire(i, thread[th].now)
    <3>1. /\ i \in Ids /\ thread[th].now \in 0..MaxTime /\ UNCHANGED thread
          /\ \A other \in Threads : thread[other].pc = "fire" => other = th
      BY <1>1, <1>8 DEF FireEntry, In, Locked, ThreadState
    <3>2. \A k \in Ids : job'[k].kind = job[k].kind /\ job'[k].interval = job[k].interval
      BY <1>1, <2>2, <3>1 DEF Job
    <3>3. ASSUME Fits(i)
          PROVE  next > thread[th].now
      <4>1. job[i].interval \in Nat /\ job[i].interval > 0
        BY <1>1, <2>2, <3>1, SchedulerAssumption DEF Caught, Job, Times
      <4>2. thread[th].now + job[i].interval \in 0..Word - 1
        BY <3>1, <3>3, <4>1, SchedulerAssumption DEF Fits
      <4>3. next = thread[th].now + job[i].interval
        BY <4>2, SchedulerAssumption DEF NextFire
      <4> QED
        BY <3>1, <4>1, <4>3
    <3>4. next \in Times
      BY <1>1, <3>1, ClockIsTime, Wraps DEF NextFire, Job
    <3> HIDE DEF i, next
    <3>5. \A k \in Ids, t \in Times :
            buckets'[<<k, t>>] > 0 => buckets[<<k, t>>] > 0 \/ (k = i /\ t = next)
      <4>1. buckets' = [buckets EXCEPT ![<<i, next>>] = @ + 1]
        BY <2>2 DEF i, next
      <4> QED
        BY <1>1, <3>1, <3>4, <4>1
    <3>6. \A k \in Ids : Fits(k)' = Fits(k)
      BY <3>2 DEF Fits
    <3> QED
      BY <3>1, <3>2, <3>3, <3>5, <3>6 DEF Caught, In
  <2> QED
    BY <1>8, <2>1, <2>2 DEF FireEntry
<1> QED
  BY <1>2, <1>3, <1>4, <1>5, <1>6, <1>7, <1>8 DEF Next, Step

\* A tick that returns has fired all that was due: a job whose add is through is then
\* due after the clock the tick was called with.
THEOREM NothingLeftDue == Spec => TickCatchesUp
<1>1. Init => Caught
  BY DEF Init, Caught, In, Idle, NoJob, Every, At
<1>2. Spec => []Caught
  BY <1>1, CaughtStep, Invariance, PTL DEF Spec
<1>3. ASSUME SchedInv, Caught, [Next]_vars,
             NEW th \in Threads, In(th, "fire"), thread'[th].pc = "idle",
             NEW i \in jobs', Fits(i), ~BeingAdded(i)
      PROVE  DueTime(i) > thread[th].now
  <2>1. thread \in [Threads -> ThreadState] /\ job \in [Ids -> Job] /\ jobs \subseteq Ids
        /\ buckets \in [Ids \X Times -> Nat]
    BY <1>3 DEF SchedInv, TypeOK, ThreadState, Places
  <2>2. TickEnd(th)
    <3>1. thread'[th] # thread[th]
      BY <1>3 DEF In
    <3>2. PICK other \in Threads : Step(other)
      BY <1>3, <3>1 DEF Next, SetClock, vars
    <3>3. ASSUME NEW e \in Ids \X Times PROVE ~SkipEntry(other, e) /\ ~FireEntry(other, e)
      BY <3>1 DEF SkipEntry, FireEntry
    <3>4. ~Remove(other)
      BY <3>1 DEF Remove
    <3>5. ~LockJobs(other) /\ ~TakeDue(other) /\ ~InsertJob(other)
      BY <1>3, <2>1 DEF LockJobs, TakeDue, InsertJob, In, Go, ThreadState
    <3>6. ~TickBegin(other) /\ ~InsertEntry(other)
      BY <1>3, <2>1 DEF TickBegin, InsertEntry, In, Leave, Idle, ThreadState
    <3>7. ~AddBegin(other)
      BY <1>3, <2>1 DEF AddBegin, In
    <3>8. TickEnd(other)
      BY <3>2, <3>3, <3>4, <3>5, <3>6, <3>7 DEF Step
    <3> QED
      BY <1>3, <2>1, <3>8 DEF TickEnd, In, Leave
  <2>3. i \in jobs /\ due = NoEntries
    BY <1>3, <2>2 DEF TickEnd
  <2>4. DueTime(i) \in Times
    BY <2>1, <2>3, ClockIsTime, Wraps DEF DueTime, FirstFire, Job
  <2>5. buckets[<<i, DueTime(i)>>] = 1
    <3>1. Timers(<<i, DueTime(i)>>) = 1
      BY <1>3, <2>3, <2>4 DEF SchedInv, EachJobHasItsTimer
    <3>2. due[<<i, DueTime(i)>>] = 0 /\ buckets[<<i, DueTime(i)>>] \in Nat
      BY <2>1, <2>3, <2>4 DEF NoEntries
    <3> QED
      BY <3>1, <3>2 DEF Timers
  <2> QED
    BY <1>3, <2>1, <2>3, <2>4, <2>5 DEF Caught
<1>4. SchedInv /\ Caught /\ [Next]_vars =>
        [\A th \in Threads : In(th, "fire") /\ thread'[th].pc = "idle" =>
           \A i \in jobs' : Fits(i) /\ ~BeingAdded(i) => DueTime(i) > thread[th].now]_vars
  BY <1>3
<1> QED
  BY <1>2, <1>4, Invariance, PTL DEF Spec, TickCatchesUp
=============================================================================

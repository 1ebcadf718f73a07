------------------------------- MODULE Scheduler -------------------------------
(***************************************************************************)
(* The job scheduler behind schedule.add / remove / tick                   *)
(* (src/schedule/mod.rs), shared by the threads that hold a clone of it.   *)
(*                                                                         *)
(* Two maps, each behind a mutex of its own: `jobs` holds the jobs, and    *)
(* `buckets` maps a due time to the ids to look at then.  add fills them   *)
(* one after the other, remove forgets the job and leaves its id in the    *)
(* bucket, tick takes both mutexes, empties the buckets that are due and   *)
(* looks at their ids one by one.  persist_path is never set by the        *)
(* program, so save() does nothing.                                        *)
(*                                                                         *)
(* Time is u64 seconds of a wall clock, which may be set back; sums wrap,  *)
(* as they do in a release build.  A message stands for its job's id, and  *)
(* the ids within a bucket are looked at in any order.                     *)
(***************************************************************************)
EXTENDS Integers

CONSTANTS
  Threads,
  MaxJobs,    \* bound on the calls of add; ids are 1..MaxJobs
  MaxTime,    \* bound on the clock
  Word,       \* 2^64
  Intervals   \* the interval_s callers pass

Ids == 1..MaxJobs
Times == 0..Word - 1
Nobody == "nobody"
Every == "every"
At == "at"
Job == [kind : {Every, At}, interval : Times, at : Times, last : 0..MaxTime]
NoJob == [kind |-> At, interval |-> 0, at |-> 0, last |-> 0]
NoEntries == [e \in Ids \X Times |-> 0]

ASSUME SchedulerAssumption ==
  /\ MaxJobs \in Nat \ {0} /\ Word \in Nat \ {0}
  /\ MaxTime \in Nat /\ MaxTime < Word
  /\ Intervals \subseteq Times
  /\ Nobody \notin Threads

VARIABLES
  clock,              \* SystemTime
  nextId,
  jobs, job,          \* the ids in the map `jobs`, and what is known of each id
  buckets,            \* buckets[i, t]: how often id i is in the bucket of time t
  jobsLock, bucketsLock, \* holders of the two mutexes, or Nobody
  due,                \* the entries a tick has taken and not yet looked at
  thread,             \* where each thread is, with the locals of its call
  fired,              \* history: toggles whenever a message of the job is returned
  gone                \* history: jobs removed, and jobs of kind At that fired

vars == <<clock, nextId, jobs, job, buckets, jobsLock, bucketsLock, due, thread,
          fired, gone>>

\* add and tick read the clock once, so a thread carries the `now` of its call.
Idle == [pc |-> "idle", now |-> 0, id |-> 0, fire |-> 0]
In(th, pc) == thread[th].pc = pc
Go(th, pc) == thread' = [thread EXCEPT ![th].pc = pc]
Leave(th) == thread' = [thread EXCEPT ![th] = Idle]

\* A slip: the interval is counted from when the job was due, not from when it fired.
NextAligned(i, now) == (job[i].last + 2 * job[i].interval) % Word
\* When a job of kind Every that fires at `now` is due again.
NextFire(i, now) == (now + job[i].interval) % Word

Init ==
  /\ clock \in 0..MaxTime /\ nextId = 1
  /\ jobs = {} /\ job = [i \in Ids |-> NoJob] /\ buckets = NoEntries
  /\ jobsLock = Nobody /\ bucketsLock = Nobody /\ due = NoEntries
  /\ thread = [th \in Threads |-> Idle]
  /\ fired = [i \in Ids |-> FALSE] /\ gone = {}

-----------------------------------------------------------------------------
(* add *)

\* An interval of 0, or a time that is not in the future, is refused.
JobsToAdd(now) ==
  {[kind |-> Every, interval |-> n, at |-> 0, last |-> now] : n \in Intervals \ {0}} \cup
  {[kind |-> At, interval |-> 0, at |-> t, last |-> 0] : t \in now + 1..MaxTime}
\* When a job of this record is due; `last` counts as a firing when it is added.
FirstFire(j) == IF j.kind = Every THEN (j.last + j.interval) % Word ELSE j.at

AddBegin(th) ==
  /\ In(th, "idle") /\ nextId <= MaxJobs
  /\ nextId' = nextId + 1
  /\ \E j \in JobsToAdd(clock) :
       /\ job' = [job EXCEPT ![nextId] = j]
       /\ thread' = [thread EXCEPT ![th] =
                       [pc |-> "insert", now |-> clock, id |-> nextId, fire |-> FirstFire(j)]]
  /\ UNCHANGED <<clock, jobs, buckets, jobsLock, bucketsLock, due, fired, gone>>

InsertJob(th) ==
  /\ In(th, "insert") /\ jobsLock = Nobody
  /\ jobs' = jobs \cup {thread[th].id}
  /\ Go(th, "index")
  /\ UNCHANGED <<clock, nextId, job, buckets, jobsLock, bucketsLock, due, fired, gone>>

InsertEntry(th) ==
  /\ In(th, "index") /\ bucketsLock = Nobody
  /\ buckets' = [buckets EXCEPT ![<<thread[th].id, thread[th].fire>>] = @ + 1]
  /\ Leave(th)
  /\ UNCHANGED <<clock, nextId, jobs, job, jobsLock, bucketsLock, due, fired, gone>>

-----------------------------------------------------------------------------
(* remove: the id stays in its bucket *)

Remove(th) ==
  /\ In(th, "idle") /\ jobsLock = Nobody
  /\ \E i \in jobs : jobs' = jobs \ {i} /\ gone' = gone \cup {i}
  /\ UNCHANGED <<clock, nextId, job, buckets, jobsLock, bucketsLock, due, thread, fired>>

-----------------------------------------------------------------------------
(* tick *)

\* The caller reads the clock, then waits for the mutexes.
TickBegin(th) ==
  /\ In(th, "idle")
  /\ thread' = [thread EXCEPT ![th] = [Idle EXCEPT !.pc = "tick", !.now = clock]]
  /\ UNCHANGED <<clock, nextId, jobs, job, buckets, jobsLock, bucketsLock, due, fired, gone>>

LockJobs(th) ==
  /\ In(th, "tick") /\ jobsLock = Nobody
  /\ jobsLock' = th /\ Go(th, "locked")
  /\ UNCHANGED <<clock, nextId, jobs, job, buckets, bucketsLock, due, fired, gone>>

\* A slip: a bucket is due only when its time has passed.
DueBefore(t, now) == t < now
DueAt(t, now) == t <= now

\* A slip: what is due stays in its bucket.
TakeDueKeeps(th) ==
  /\ In(th, "locked") /\ bucketsLock = Nobody
  /\ bucketsLock' = th /\ Go(th, "fire")
  /\ due' = [e \in Ids \X Times |-> IF DueAt(e[2], thread[th].now) THEN buckets[e] ELSE 0]
  /\ UNCHANGED <<clock, nextId, jobs, job, buckets, jobsLock, fired, gone>>
\* Every bucket that is due is taken out of the map.
TakeDue(th) ==
  /\ In(th, "locked") /\ bucketsLock = Nobody
  /\ bucketsLock' = th /\ Go(th, "fire")
  /\ due' = [e \in Ids \X Times |-> IF DueAt(e[2], thread[th].now) THEN buckets[e] ELSE 0]
  /\ buckets' = [e \in Ids \X Times |-> IF DueAt(e[2], thread[th].now) THEN 0 ELSE buckets[e]]
  /\ UNCHANGED <<clock, nextId, jobs, job, jobsLock, fired, gone>>

\* A slip: the bucket's word is taken for it.
KnownByBucket(i) == TRUE
Known(i) == i \in jobs
\* The id of a job that was removed is passed over.
SkipEntry(th, e) ==
  /\ In(th, "fire") /\ due[e] > 0 /\ ~Known(e[1])
  /\ due' = [due EXCEPT ![e] = @ - 1]
  /\ UNCHANGED <<clock, nextId, jobs, job, buckets, jobsLock, bucketsLock, thread, fired, gone>>

\* The job fires: one of kind Every is due again an interval later, one of kind At
\* is deleted.
FireEntry(th, e) ==
  LET i == e[1]
      now == thread[th].now
  IN
  /\ In(th, "fire") /\ due[e] > 0 /\ Known(i)
  /\ due' = [due EXCEPT ![e] = @ - 1]
  /\ fired' = [fired EXCEPT ![i] = ~@]
  /\ \/ /\ job[i].kind = Every
        /\ job' = [job EXCEPT ![i].last = now]
        /\ buckets' = [buckets EXCEPT ![<<i, NextFire(i, now)>>] = @ + 1]
        /\ UNCHANGED <<jobs, gone>>
     \/ /\ job[i].kind = At
        /\ jobs' = jobs \ {i} /\ gone' = gone \cup {i}
        /\ UNCHANGED <<job, buckets>>
  /\ UNCHANGED <<clock, nextId, jobsLock, bucketsLock, thread>>

TickEnd(th) ==
  /\ In(th, "fire") /\ due = NoEntries
  /\ jobsLock' = Nobody /\ bucketsLock' = Nobody /\ Leave(th)
  /\ UNCHANGED <<clock, nextId, jobs, job, buckets, due, fired, gone>>

-----------------------------------------------------------------------------
\* The wall clock goes on, or is set.
SetClock ==
  /\ clock' \in 0..MaxTime \ {clock}
  /\ UNCHANGED <<nextId, jobs, job, buckets, jobsLock, bucketsLock, due, thread, fired, gone>>

Step(th) ==
  \/ AddBegin(th) \/ InsertJob(th) \/ InsertEntry(th) \/ Remove(th)
  \/ TickBegin(th) \/ LockJobs(th) \/ TakeDue(th) \/ TickEnd(th)
  \/ \E e \in Ids \X Times : SkipEntry(th, e) \/ FireEntry(th, e)

Next == SetClock \/ \E th \in Threads : Step(th)

Spec == Init /\ [][Next]_vars

-----------------------------------------------------------------------------
(* Properties *)

\* Every variable holds a value of its kind.
TypeOK ==
  /\ clock \in 0..MaxTime /\ nextId \in 1..MaxJobs + 1
  /\ jobs \subseteq Ids /\ job \in [Ids -> Job] /\ gone \subseteq Ids
  /\ buckets \in [Ids \X Times -> Nat] /\ due \in [Ids \X Times -> Nat]
  /\ jobsLock \in Threads \cup {Nobody} /\ bucketsLock \in Threads \cup {Nobody}
  /\ thread \in [Threads -> [pc : {"idle", "insert", "index", "tick", "locked", "fire"},
                             now : 0..MaxTime, id : Ids \cup {0}, fire : Times]]
  /\ fired \in [Ids -> BOOLEAN]

DueTime(i) == FirstFire(job[i])
BeingAdded(i) == \E th \in Threads : thread[th].pc \in {"insert", "index"} /\ thread[th].id = i
Timers(e) == buckets[e] + due[e]

\* The two maps agree, although no lock covers both inserts of add and remove
\* touches one of them only: a job in the table has exactly one entry, in the bucket
\* of the time it is due (or in the hands of the tick looking at it), but for a job
\* whose add has yet to make it.  A job without an entry would never fire, one with
\* two would fire twice.
EachJobHasItsTimer ==
  \A i \in jobs : \A t \in Times :
    Timers(<<i, t>>) = IF t = DueTime(i) /\ ~BeingAdded(i) THEN 1 ELSE 0

\* An interval for which the sum with any time of the clock fits the word.
Fits(i) == job[i].interval + MaxTime < Word

\* Two messages of a job are an interval apart, and none comes before its time,
\* whatever ticks are waiting with a clock they read earlier or later.
NeverEarly ==
  [][\A i \in Ids : fired'[i] # fired[i] /\ Fits(i) =>
       \E th \in Threads : /\ In(th, "fire")
                           /\ thread[th].now >= IF job[i].kind = At THEN job[i].at
                                                ELSE job[i].last + job[i].interval]_vars

\* A job that was removed, or has fired and was to fire once, is never heard of
\* again: not even by a tick that found its id in a bucket.
GoneStaysSilent ==
  [][\A i \in gone : fired'[i] = fired[i]]_vars

\* A tick leaves nothing due behind: every job whose add is through is then due
\* later than the clock the tick was called with.
TickCatchesUp ==
  [][\A th \in Threads : In(th, "fire") /\ thread'[th].pc = "idle" =>
       \A i \in jobs' : Fits(i) /\ ~BeingAdded(i) => DueTime(i) > thread[th].now]_vars
=============================================================================

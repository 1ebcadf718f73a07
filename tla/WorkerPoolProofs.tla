--------------------------- MODULE WorkerPoolProofs ---------------------------
(***************************************************************************)
(* What the caller of the pool and its workers may rely on, for any number *)
(* of workers, jobs and batches.                                           *)
(*                                                                         *)
(* A job is started at most once: the jobs left in a batch's queue are     *)
(* exactly those that were never started, and the queue only shrinks; that *)
(* every worker received a copy of the batch, or the same worker several,  *)
(* does not matter, and neither does a pool dropped in the meantime.       *)
(*                                                                         *)
(* "ok" is a barrier, an error has a cause, the wait is bounded, and from  *)
(* outside there are only batches, ends of jobs and one answer to each     *)
(* batch (the safety part of the refinement of module Batch).  All rests   *)
(* on an account of the jobs: each is in the queue, in the hands of one    *)
(* worker, or over; and what is over and went well is in the result        *)
(* channel or among the outcomes, once.                                    *)
(***************************************************************************)
EXTENDS WorkerPool, RankingProofs

Hist == [started : [Batches -> [Jobs -> Nat]], ended : SUBSET (0..NumJobs),
         wrong : SUBSET (0..NumJobs)]
Thread == [pc : Places, batch : Batches \cup {None}, job : Jobs \cup {None}]

\* The types the argument needs, and that a worker that pulls has a batch.
Typed ==
  /\ batch \in 0..MaxBatches /\ (caller = "sending" => batch \in Batches)
  /\ mailbox \in [Pools -> Seq(Batches)]
  /\ worker \in [Workers -> Thread]
  /\ \A w \in Workers : worker[w].pc \in {"pull", "work", "stuck"} => worker[w].batch \in Batches
  /\ queue \in [Batches -> 0..NumJobs]
  /\ hist \in Hist

\* What is in a queue was not started; a batch to come has neither.
Untouched ==
  /\ \A b \in Batches : b > batch => queue[b] = 0 /\ \A j \in Jobs : hist.started[b][j] = 0
  /\ \A b \in Batches, j \in Jobs : j <= queue[b] => hist.started[b][j] = 0

PoolInv == Typed /\ Untouched /\ EachJobOnce

-----------------------------------------------------------------------------

\* At the start no pool, no batch and no job exists.
LEMMA InitPoolInv == Init => PoolInv
  <1> SUFFICES ASSUME Init PROVE PoolInv
    OBVIOUS
  <1> USE PoolAssumption DEF Init, HistInit, Free, Batches, Jobs, Workers, Pools, None, Places
  <1>1. Typed
    <2>1. hist \in Hist
      BY DEF Hist
    <2>2. worker \in [Workers -> Thread]
      BY DEF Thread
    <2>3. mailbox \in [Pools -> Seq(Batches)]
      OBVIOUS
    <2> QED
      BY <2>1, <2>2, <2>3 DEF Typed
  <1>2. Untouched /\ EachJobOnce
    BY DEF Untouched, EachJobOnce
  <1> QED
    BY <1>1, <1>2 DEF PoolInv

\* A new batch fills a queue that nobody had touched.
LEMMA SubmitPoolInv == PoolInv /\ Submit => PoolInv'
  <1> SUFFICES ASSUME PoolInv, Submit PROVE PoolInv'
    OBVIOUS
  <1>1. PICK n \in 0..NumJobs : /\ queue' = [queue EXCEPT ![batch'] = n]
                                /\ n # 0 => caller' = "sending"
    BY PoolAssumption DEF Submit, Jobs
  <1>2. batch' = batch + 1 /\ batch' \in Batches /\ mailbox' = mailbox
    BY PoolAssumption DEF Submit, PoolInv, Typed, Batches
  <1>3. /\ hist' = [hist EXCEPT !.ended = {}, !.wrong = {}]
        /\ hist \in Hist
    BY DEF Submit, PoolInv, Typed
  <1>4. hist' \in Hist /\ hist'.started = hist.started
    BY <1>3 DEF Hist
  <1>5. /\ worker' \in [Workers -> Thread]
        /\ \A w \in Workers : worker'[w] = worker[w] \/ worker'[w].pc = "lock"
    <2>1. worker \in [Workers -> Thread] /\ Free("lock") \in Thread /\ Free("lock").pc = "lock"
      BY DEF PoolInv, Typed, Thread, Free, Places
    <2>2. \/ worker' = worker
          \/ worker' = [w \in Workers |-> IF w[1] = pools' THEN Free("lock") ELSE worker[w]]
      BY DEF Submit
    <2> QED
      BY <2>1, <2>2
  <1>6. Typed'
    <2>1. queue \in [Batches -> 0..NumJobs] /\ queue' \in [Batches -> 0..NumJobs]
      BY <1>1 DEF PoolInv, Typed
    <2>2. batch' \in 0..MaxBatches
      BY <1>2 DEF Batches
    <2>3. mailbox' \in [Pools -> Seq(Batches)]
      BY <1>2 DEF PoolInv, Typed
    <2>4. \A w \in Workers : worker'[w].pc \in {"pull", "work", "stuck"} => worker'[w].batch \in Batches
      BY <1>5 DEF PoolInv, Typed
    <2> QED
      BY <1>2, <1>4, <1>5, <2>1, <2>2, <2>3, <2>4 DEF Typed
  <1>7. Untouched' /\ EachJobOnce'
    <2>1. queue \in [Batches -> 0..NumJobs] /\ batch \in Int /\ Batches \subseteq Int
      BY DEF PoolInv, Typed, Batches
    <2>2. \A b \in Batches : queue'[b] = IF b = batch' THEN n ELSE queue[b]
      BY <1>1, <2>1
    <2>3. \A b \in Batches : b > batch' => queue'[b] = 0 /\ \A j \in Jobs : hist'.started[b][j] = 0
      <3>1. \A b \in Batches : b > batch' => b > batch /\ b # batch'
        BY <1>2, <2>1
      <3> QED
        BY <1>4, <2>2, <3>1 DEF PoolInv, Untouched
    <2>4. ASSUME NEW b \in Batches, NEW j \in Jobs, j <= queue'[b]
          PROVE  hist'.started[b][j] = 0
      <3>1. CASE b = batch'
        BY <1>2, <1>4, <2>1, <3>1 DEF PoolInv, Untouched
      <3>2. CASE b # batch'
        BY <1>4, <2>2, <2>4, <3>2 DEF PoolInv, Untouched
      <3> QED
        BY <3>1, <3>2
    <2> QED
      BY <1>4, <2>3, <2>4 DEF PoolInv, Untouched, EachJobOnce
  <1> QED
    BY <1>6, <1>7 DEF PoolInv

\* The caller's other steps leave queues, threads and history alone.
LEMMA CallerPoolInv == PoolInv /\ (Serve \/ Drop) => PoolInv'
  <1> SUFFICES ASSUME PoolInv, Serve \/ Drop PROVE PoolInv'
    OBVIOUS
  <1>1. CASE Broadcast
    <2>1. batch \in Batches /\ mailbox \in [Pools -> Seq(Batches)]
      BY <1>1 DEF Broadcast, PoolInv, Typed
    <2>2. mailbox' \in [Pools -> Seq(Batches)]
      <3>1. Append(mailbox[pool], batch) \in Seq(Batches) \/ pool \notin Pools
        BY <2>1
      <3>2. mailbox' = mailbox \/ mailbox' = [mailbox EXCEPT ![pool] = Append(mailbox[pool], batch)]
        BY <1>1 DEF Broadcast
      <3> QED
        BY <2>1, <3>1, <3>2
    <2> QED
      BY <1>1, <2>2 DEF Broadcast, PoolInv, Typed, Untouched, EachJobOnce
  <1>2. CASE \/ Broadcasted \/ Collect \/ Timeout \/ Disconnected \/ Complete \/ Tick \/ Drop
    <2>1. UNCHANGED <<batch, mailbox, worker, queue, hist>> /\ (caller' = "sending" => caller = "sending")
      BY <1>2 DEF Broadcasted, Collect, Timeout, Disconnected, Complete, Tick, Drop,
                  CallerOnly, Return, Waiting
    <2> QED
      BY <2>1 DEF PoolInv, Typed, Untouched, EachJobOnce
  <1> QED
    BY <1>1, <1>2 DEF Serve

\* A worker takes the last job of its batch's queue, which nobody had started; its
\* other steps start nothing.
LEMMA WorkerPoolInv == ASSUME NEW w \in Workers, PoolInv, Run(w) PROVE PoolInv'
  <1>1. /\ batch' = batch /\ caller' = caller /\ hist \in Hist
        /\ worker[w] \in Thread /\ worker \in [Workers -> Thread]
    BY DEF PoolInv, Typed, Run, Lock, Receive, Exit, TakeJob, Drained, JobDone, JobFails,
           Report, JobPanics, JobHangs, WorkerOnly, callerVars
  <1>2. CASE TakeJob(w)
    <2> DEFINE b == worker[w].batch
    <2>1. /\ b \in Batches /\ queue[b] \in Jobs /\ mailbox' = mailbox
          /\ worker' = [worker EXCEPT ![w] = [@ EXCEPT !.pc = "work", !.job = queue[b]]]
          /\ queue' = [queue EXCEPT ![b] = @ - 1]
          /\ hist' = [hist EXCEPT !.started[b][queue[b]] = @ + 1]
      BY <1>2, PoolAssumption DEF TakeJob, PoolInv, Typed, At, Jobs
    <2>2. queue \in [Batches -> 0..NumJobs] /\ queue' \in [Batches -> 0..NumJobs]
      BY <2>1, PoolAssumption DEF PoolInv, Typed, Jobs
    <2> DEFINE st == [hist.started EXCEPT ![b][queue[b]] = @ + 1]
    <2>3. hist.started \in [Batches -> [Jobs -> Nat]]
      BY <1>1 DEF Hist
    <2>4. st \in [Batches -> [Jobs -> Nat]]
      BY <2>1, <2>3
    <2>5. hist' = [hist EXCEPT !.started = st]
      BY <2>1, <1>1 DEF Hist
    <2> HIDE DEF st
    <2>6. hist' \in Hist /\ hist'.started = st
      BY <1>1, <2>4, <2>5 DEF Hist
    <2>7. [worker[w] EXCEPT !.pc = "work", !.job = queue[b]] \in Thread
      BY <1>1, <2>1 DEF Thread, Places
    <2>8. /\ worker' \in [Workers -> Thread]
          /\ \A v \in Workers : worker'[v].batch = worker[v].batch
                                /\ (v # w => worker'[v].pc = worker[v].pc)
      BY <1>1, <2>1, <2>7 DEF Thread
    <2>9. Typed'
      BY <1>1, <2>1, <2>2, <2>6, <2>8 DEF PoolInv, Typed
    <2>10. \A c \in Batches, j \in Jobs :
            hist'.started[c][j] = IF c = b /\ j = queue[b] THEN hist.started[c][j] + 1
                                                           ELSE hist.started[c][j]
      BY <2>6, <2>1, <2>3 DEF st
    <2>11. b <= batch /\ hist.started[b][queue[b]] = 0
      <3>1. queue[b] > 0 /\ b \in Int /\ batch \in Int
        BY <2>1, <1>1 DEF PoolInv, Typed, Batches, Jobs
      <3>2. b <= batch
        BY <2>1, <3>1 DEF PoolInv, Untouched
      <3>3. queue[b] <= queue[b]
        BY <2>1 DEF Jobs
      <3> QED
        BY <2>1, <3>2, <3>3 DEF PoolInv, Untouched
    <2>12. /\ queue'[b] = queue[b] - 1 /\ queue[b] \in Nat
           /\ \A c \in Batches : c # b => queue'[c] = queue[c]
      BY <2>1, <2>2 DEF Jobs
    <2>13. ASSUME NEW c \in Batches, c > batch'
           PROVE  queue'[c] = 0 /\ \A j \in Jobs : hist'.started[c][j] = 0
      <3>1. c # b /\ c > batch
        BY <1>1, <2>1, <2>11, <2>13 DEF Batches, PoolInv, Typed
      <3> QED
        BY <3>1, <2>10, <2>12 DEF PoolInv, Untouched
    <2>14. ASSUME NEW c \in Batches, NEW j \in Jobs, j <= queue'[c]
           PROVE  hist'.started[c][j] = 0
      <3>1. j <= queue[c] /\ ~(c = b /\ j = queue[b])
        BY <2>12, <2>14 DEF Jobs
      <3> QED
        BY <3>1, <2>10 DEF PoolInv, Untouched
    <2>15. EachJobOnce'
      BY <2>10, <2>11 DEF PoolInv, EachJobOnce
    <2> QED
      BY <2>9, <2>13, <2>14, <2>15 DEF PoolInv, Untouched
  <1>3. CASE Receive(w)
    <2> DEFINE c == Head(mailbox[w[1]])
    <2>1. c \in Batches /\ w[1] \in Pools /\ mailbox' = [mailbox EXCEPT ![w[1]] = Tail(@)]
          /\ mailbox \in [Pools -> Seq(Batches)] /\ mailbox[w[1]] # <<>>
      <3>1. w[1] \in Pools /\ mailbox \in [Pools -> Seq(Batches)]
        BY DEF PoolInv, Typed, Workers
      <3>2. mailbox[w[1]] # <<>> /\ mailbox' = [mailbox EXCEPT ![w[1]] = Tail(@)]
        BY <1>3 DEF Receive
      <3> QED
        BY <3>1, <3>2
    <2>2. mailbox' \in [Pools -> Seq(Batches)]
      BY <2>1
    <2>3. /\ worker' \in [Workers -> Thread] /\ worker'[w].batch = c
          /\ \A v \in Workers : v # w => worker'[v] = worker[v]
      BY <1>1, <1>3, <2>1 DEF Receive, Thread, Places
    <2>4. hist' \in Hist /\ hist'.started = hist.started /\ queue' = queue
      BY <1>1, <1>3 DEF Receive, Hist
    <2> HIDE DEF c
    <2>5. \A v \in Workers : worker'[v].pc \in {"pull", "work", "stuck"} => worker'[v].batch \in Batches
      BY <2>1, <2>3 DEF PoolInv, Typed
    <2>6. Typed'
      BY <1>1, <2>2, <2>3, <2>4, <2>5 DEF PoolInv, Typed
    <2>7. Untouched' /\ EachJobOnce'
      BY <1>1, <2>4 DEF PoolInv, Untouched, EachJobOnce
    <2> QED
      BY <2>6, <2>7 DEF PoolInv
  <1>4. CASE Lock(w) \/ Exit(w) \/ Drained(w) \/ JobHangs(w)
    <2>1. UNCHANGED <<mailbox, queue, hist>>
      BY <1>4 DEF Lock, Exit, Drained, JobHangs
    <2>2. /\ worker' \in [Workers -> Thread]
          /\ worker'[w].pc \in {"pull", "work", "stuck"} => worker'[w].batch \in Batches
          /\ \A v \in Workers : v # w => worker'[v] = worker[v]
      <3>1. CASE Lock(w)
        BY <1>1, <3>1 DEF Lock, Place, Thread, Places
      <3>2. CASE Exit(w)
        BY <1>1, <3>2 DEF Exit, Free, Thread, Places
      <3>3. CASE Drained(w)
        BY <1>1, <3>3 DEF Drained, Free, Thread, Places
      <3>4. CASE JobHangs(w)
        BY <1>1, <3>4 DEF JobHangs, Place, At, Thread, Places, PoolInv, Typed
      <3> QED
        BY <1>4, <3>1, <3>2, <3>3, <3>4
    <2> QED
      BY <1>1, <2>1, <2>2 DEF PoolInv, Typed, Untouched, EachJobOnce
  <1>5. CASE JobDone(w) \/ JobFails(w) \/ JobPanics(w)
    <2>1. /\ queue' = queue /\ mailbox' \in [Pools -> Seq(Batches)]
          /\ worker' \in [Workers -> Thread]
          /\ worker'[w].pc \in {"pull", "work", "stuck"} => worker'[w].batch \in Batches
          /\ \A v \in Workers : v # w => worker'[v] = worker[v]
      <3>1. CASE JobDone(w) \/ JobFails(w)
        <4>1. worker' = [worker EXCEPT ![w] = [@ EXCEPT !.pc = "pull", !.job = None]]
              /\ worker[w].pc = "work" /\ queue' = queue /\ mailbox' = mailbox
          BY <3>1 DEF JobDone, JobFails, Report, At
        <4>2. [worker[w] EXCEPT !.pc = "pull", !.job = None] \in Thread
          BY <1>1 DEF Thread, Places
        <4>3. [worker[w] EXCEPT !.pc = "pull", !.job = None].batch = worker[w].batch
          BY <1>1 DEF Thread
        <4> QED
          BY <1>1, <4>1, <4>2, <4>3 DEF PoolInv, Typed
      <3>2. CASE JobPanics(w)
        <4>1. Free("dead") \in Thread /\ Free("dead").pc = "dead"
          BY DEF Free, Thread, Places
        <4>2. worker' = [worker EXCEPT ![w] = Free("dead")] /\ queue' = queue
              /\ (mailbox' = mailbox \/ mailbox' = [mailbox EXCEPT ![w[1]] = <<>>])
          BY <3>2 DEF JobPanics
        <4>3. mailbox \in [Pools -> Seq(Batches)] /\ <<>> \in Seq(Batches)
          BY DEF PoolInv, Typed
        <4>4. mailbox' \in [Pools -> Seq(Batches)]
          BY <4>2, <4>3
        <4> QED
          BY <1>1, <4>1, <4>2, <4>4
      <3> QED
        BY <1>5, <3>1, <3>2
    <2>2. hist' \in Hist /\ hist'.started = hist.started
      <3>1. worker[w].job \in 0..NumJobs
        BY <1>1, PoolAssumption DEF Thread, Jobs, None
      <3>2. CASE JobDone(w) \/ JobFails(w)
        <4>1. \/ hist' = hist
              \/ hist' = [hist EXCEPT !.ended = @ \cup {worker[w].job}]
              \/ hist' = [hist EXCEPT !.wrong = @ \cup {worker[w].job}]
          BY <3>2 DEF JobDone, JobFails, Report
        <4> QED
          BY <1>1, <3>1, <4>1 DEF Hist
      <3>3. CASE JobPanics(w)
        <4>1. hist' = hist \/ hist' = [hist EXCEPT !.wrong = @ \cup {worker[w].job}]
          BY <3>3 DEF JobPanics
        <4> QED
          BY <1>1, <3>1, <4>1 DEF Hist
      <3> QED
        BY <1>5, <3>2, <3>3
    <2>3. \A v \in Workers : worker'[v].pc \in {"pull", "work", "stuck"} => worker'[v].batch \in Batches
      BY <2>1 DEF PoolInv, Typed
    <2>4. Typed'
      BY <1>1, <2>1, <2>2, <2>3 DEF PoolInv, Typed
    <2>5. Untouched' /\ EachJobOnce'
      BY <1>1, <2>1, <2>2 DEF PoolInv, Untouched, EachJobOnce
    <2> QED
      BY <2>4, <2>5 DEF PoolInv
  <1> QED
    BY <1>2, <1>3, <1>4, <1>5 DEF Run

\* Every step keeps the invariant.
LEMMA PoolInvStep == PoolInv /\ [Next]_vars => PoolInv'
  <1> SUFFICES ASSUME PoolInv, [Next]_vars PROVE PoolInv'
    OBVIOUS
  <1>1. CASE Submit
    BY <1>1, SubmitPoolInv
  <1>2. CASE Serve \/ Drop
    BY <1>2, CallerPoolInv
  <1>3. ASSUME NEW w \in Workers, Run(w) PROVE PoolInv'
    BY <1>3, WorkerPoolInv
  <1>4. CASE UNCHANGED vars
    BY <1>4 DEF vars, callerVars, PoolInv, Typed, Untouched, EachJobOnce
  <1> QED
    BY <1>1, <1>2, <1>3, <1>4 DEF Next, Done

\* No job is started twice (EachJobOnce): a super-step's agent runs at most once per
\* batch, whatever the number of workers and of copies.
THEOREM JobsStartOnce == Spec => []EachJobOnce
  <1>1. PoolInv => EachJobOnce
    BY DEF PoolInv
  <1> QED
    BY <1>1, InitPoolInv, PoolInvStep, PTL DEF Spec

-----------------------------------------------------------------------------
Outcome == [job : Jobs, ok : BOOLEAN]

\* The worker is inside job j of batch b, whether the job returns or not.
Doing(w, b, j) ==
  worker[w].pc \in {"work", "stuck"} /\ worker[w].batch = b /\ worker[w].job = j

\* The types of what the caller keeps, and where it is while a batch runs.
Kinds ==
  /\ caller \in {"idle", "sending", "collecting"}
  /\ status \in {"none", "running", "ok", "error", "timeout"}
  /\ caller # "idle" <=> status = "running"
  /\ status # "none" => batch \in Batches
  /\ size \in [Batches -> 0..NumJobs] /\ copies \in 0..NumWorkers
  /\ caller = "collecting" => copies = 0
  /\ status = "running" => out \in Seq(Jobs)
  /\ results \in Seq(Outcome)
  /\ \A w \in Workers :
       /\ worker[w].pc \in {"work", "stuck"} => worker[w].job \in Jobs
       /\ worker[w].batch # None => worker[w].pc \in {"pull", "work", "stuck"}

\* What is under way is of a batch that was submitted.
Ages ==
  /\ \A w \in Workers : worker[w].batch <= batch
  /\ \A p \in Pools : \A i \in DOMAIN mailbox[p] : mailbox[p][i] <= batch

\* A job that was taken is in one worker's hands, until it is over.
Taken ==
  /\ \A b \in Batches : queue[b] <= size[b]
  /\ \A w \in Workers, b \in Batches, j \in Jobs : Doing(w, b, j) => queue[b] < j /\ j <= size[b]
  /\ \A v, w \in Workers, b \in Batches, j \in Jobs : Doing(v, b, j) /\ Doing(w, b, j) => v = w
  /\ \A w \in Workers, b \in Batches, j \in Jobs :
       b = batch /\ Doing(w, b, j) => j \notin hist.ended
  /\ \A j \in hist.ended : batch \in Batches /\ j \in Jobs /\ queue[batch] < j /\ j <= size[batch]

-----------------------------------------------------------------------------
(* What the steps do to the jobs *)

LEMMA AppendType ==
  ASSUME NEW S, NEW s \in Seq(S), NEW e \in S PROVE Append(s, e) \in Seq(S)
OBVIOUS

LEMMA ElementType ==
  ASSUME NEW S, NEW s \in Seq(S), NEW i \in DOMAIN s PROVE s[i] \in S
OBVIOUS

LEMMA TakeFacts ==
  ASSUME PoolInv, NEW w \in Workers, TakeJob(w), NEW b, b = worker[w].batch
  PROVE  /\ b \in Batches /\ queue[b] \in Jobs /\ worker[w].pc = "pull"
         /\ \A v \in Workers : worker'[v].batch = worker[v].batch
         /\ \A v \in Workers : v # w => worker'[v] = worker[v]
         /\ worker'[w].pc = "work" /\ worker'[w].job = queue[b]
         /\ \A c \in Batches : queue'[c] = IF c = b THEN queue[b] - 1 ELSE queue[c]
         /\ hist'.ended = hist.ended /\ hist'.wrong = hist.wrong
         /\ UNCHANGED <<callerVars, mailbox, results>>
<1>1. /\ worker[w].pc = "pull" /\ queue[b] > 0
      /\ worker' = [worker EXCEPT ![w] = [@ EXCEPT !.pc = "work", !.job = queue[b]]]
      /\ queue' = [queue EXCEPT ![b] = @ - 1]
      /\ hist' = [hist EXCEPT !.started[b][queue[b]] = @ + 1]
      /\ UNCHANGED <<callerVars, mailbox, results>>
  BY DEF TakeJob, At, WorkerOnly
<1>2. b \in Batches /\ worker \in [Workers -> Thread] /\ queue \in [Batches -> 0..NumJobs]
  BY <1>1 DEF PoolInv, Typed
<1>3. queue[b] \in Jobs
  BY <1>1, <1>2, PoolAssumption DEF Jobs
<1>4. hist'.ended = hist.ended /\ hist'.wrong = hist.wrong
  BY <1>1 DEF PoolInv, Typed, Hist
<1>5. /\ \A v \in Workers : worker'[v].batch = worker[v].batch
      /\ \A v \in Workers : v # w => worker'[v] = worker[v]
      /\ worker'[w].pc = "work" /\ worker'[w].job = queue[b]
  BY <1>1, <1>2 DEF Thread
<1>6. \A c \in Batches : queue'[c] = IF c = b THEN queue[b] - 1 ELSE queue[c]
  BY <1>1, <1>2
<1>. QED BY <1>1, <1>2, <1>3, <1>4, <1>5, <1>6

\* A job comes to its end: it succeeds, fails, or takes its thread with it.
LEMMA EndFacts ==
  ASSUME PoolInv, Kinds, NEW w \in Workers, JobDone(w) \/ JobFails(w) \/ JobPanics(w),
         NEW b, NEW j, b = worker[w].batch, j = worker[w].job
  PROVE  /\ b \in Batches /\ j \in Jobs /\ worker[w].pc = "work"
         /\ \A v \in Workers : v # w => worker'[v] = worker[v]
         /\ \/ worker'[w].pc = "pull" /\ worker'[w].batch = b
            \/ worker'[w].pc = "dead" /\ worker'[w].batch = None
         /\ UNCHANGED <<callerVars, queue>>
         /\ b # batch => UNCHANGED <<hist, results>>
         /\ b = batch =>
              \/ /\ hist'.ended = hist.ended \cup {j} /\ hist'.wrong = hist.wrong
                 /\ results' = IF status = "running" THEN Append(results, [job |-> j, ok |-> TRUE])
                                                     ELSE results
              \/ /\ hist'.ended = hist.ended /\ hist'.wrong = hist.wrong \cup {j}
                 /\ \/ results' = results
                    \/ results' = Append(results, [job |-> j, ok |-> FALSE])
<1>1. b \in Batches /\ j \in Jobs /\ worker[w].pc = "work"
  BY DEF JobDone, JobFails, JobPanics, At, PoolInv, Typed, Kinds
<1>2. worker \in [Workers -> Thread] /\ hist \in Hist
  BY DEF PoolInv, Typed
<1>3. ASSUME NEW ok \in BOOLEAN, Report(w, ok)
      PROVE  /\ worker' = [worker EXCEPT ![w] = [@ EXCEPT !.pc = "pull", !.job = None]]
             /\ UNCHANGED <<callerVars, queue, mailbox>>
             /\ results' = IF b = batch /\ status = "running"
                           THEN Append(results, [job |-> j, ok |-> ok]) ELSE results
             /\ hist' = IF b # batch THEN hist
                        ELSE IF ok THEN [hist EXCEPT !.ended = @ \cup {j}]
                                   ELSE [hist EXCEPT !.wrong = @ \cup {j}]
  BY <1>3 DEF Report, Heard, WorkerOnly
<1>4. CASE JobDone(w)
  <2>1. Report(w, TRUE)
    BY <1>4 DEF JobDone
  <2>. QED BY <1>1, <1>2, <1>3, <2>1 DEF Hist, Thread
<1>5. CASE JobFails(w)
  <2>1. Report(w, FALSE)
    BY <1>5 DEF JobFails
  <2>. QED BY <1>1, <1>2, <1>3, <2>1 DEF Hist, Thread
<1>6. CASE JobPanics(w)
  <2>1. /\ worker' = [worker EXCEPT ![w] = Free("dead")]
        /\ hist' = IF b # batch THEN hist ELSE [hist EXCEPT !.wrong = @ \cup {j}]
        /\ UNCHANGED <<callerVars, queue, results>>
    BY <1>6 DEF JobPanics, WorkerOnly
  <2>2. Free("dead").pc = "dead" /\ Free("dead").batch = None
    BY DEF Free
  <2>. QED BY <1>1, <1>2, <2>1, <2>2 DEF Hist
<1>. QED BY <1>4, <1>5, <1>6

\* The steps of a worker between jobs, and of a job that never returns.
Quiet(w) == Lock(w) \/ Receive(w) \/ Exit(w) \/ Drained(w) \/ JobHangs(w)

LEMMA QuietFacts ==
  ASSUME PoolInv, NEW w \in Workers, Quiet(w)
  PROVE  /\ UNCHANGED <<callerVars, queue, results, hist>>
         /\ \A v \in Workers : v # w => worker'[v] = worker[v]
         /\ \/ /\ worker[w].pc = "work" /\ worker'[w].pc = "stuck"
               /\ worker'[w].batch = worker[w].batch /\ worker'[w].job = worker[w].job
            \/ /\ worker[w].pc \in {"lock", "recv", "pull"}
               /\ \/ /\ worker[w].pc = "lock" /\ worker'[w].pc = "recv"
                     /\ worker'[w].batch = worker[w].batch
                  \/ worker'[w].pc \in {"lock", "exited"} /\ worker'[w].batch = None
                  \/ /\ worker'[w].pc = "pull" /\ mailbox[w[1]] # <<>> /\ Receive(w)
                     /\ worker'[w].batch = Head(mailbox[w[1]])
<1>1. UNCHANGED <<callerVars, queue, results, hist>>
  BY DEF Quiet, Lock, Receive, Exit, Drained, JobHangs, WorkerOnly
<1>2. worker \in [Workers -> Thread]
  BY DEF PoolInv, Typed
<1>3. CASE Lock(w)
  BY <1>1, <1>2, <1>3 DEF Lock, Place, At, Thread
<1>4. CASE Receive(w)
  BY <1>1, <1>2, <1>4 DEF Receive, At, Thread
<1>5. CASE Exit(w)
  BY <1>1, <1>2, <1>5 DEF Exit, Free, At
<1>6. CASE Drained(w)
  BY <1>1, <1>2, <1>6 DEF Drained, Free, At
<1>7. CASE JobHangs(w)
  BY <1>1, <1>2, <1>7 DEF JobHangs, Place, At, Thread
<1>. QED BY <1>3, <1>4, <1>5, <1>6, <1>7 DEF Quiet

\* A new batch: nobody is on it.
LEMMA SubmitFacts ==
  ASSUME PoolInv, Kinds, Submit
  PROVE  /\ caller = "idle" /\ status # "running"
         /\ batch' = batch + 1 /\ batch' \in Batches /\ size'[batch'] \in 0..NumJobs
         /\ size' = [size EXCEPT ![batch'] = size'[batch']]
         /\ queue' = [queue EXCEPT ![batch'] = size'[batch']]
         /\ hist'.ended = {} /\ hist'.wrong = {} /\ out' = <<>> /\ results' = <<>>
         /\ IF size'[batch'] = 0 THEN status' = "ok" /\ caller' = "idle" /\ copies' = 0
            ELSE status' = "running" /\ caller' = "sending" /\ copies' = NumWorkers
         /\ \A w \in Workers : \/ worker'[w] = worker[w]
                               \/ worker'[w].pc = "lock" /\ worker'[w].batch = None
         /\ UNCHANGED <<idle, elapsed, mailbox>>
<1>1. PICK n \in 0..NumJobs :
        /\ size' = [size EXCEPT ![batch'] = n] /\ queue' = [queue EXCEPT ![batch'] = n]
        /\ IF n = 0 THEN status' = "ok" /\ copies' = 0 /\ UNCHANGED caller
                    ELSE status' = "running" /\ copies' = NumWorkers /\ caller' = "sending"
  BY DEF Submit
<1>2. caller = "idle" /\ batch' = batch + 1 /\ batch' \in Batches
  BY PoolAssumption DEF Submit, PoolInv, Typed, Batches
<1>3. size'[batch'] = n
  BY <1>1, <1>2 DEF Kinds
<1>4. hist'.ended = {} /\ hist'.wrong = {}
  BY DEF Submit, PoolInv, Typed, Hist
<1>5. \A w \in Workers : \/ worker'[w] = worker[w]
                         \/ worker'[w].pc = "lock" /\ worker'[w].batch = None
  <2>1. \/ worker' = worker
        \/ worker' = [w \in Workers |-> IF w[1] = pools' THEN Free("lock") ELSE worker[w]]
    BY DEF Submit
  <2>2. Free("lock").pc = "lock" /\ Free("lock").batch = None
    BY DEF Free
  <2>. QED BY <2>1, <2>2
<1>6. /\ out' = <<>> /\ results' = <<>> /\ UNCHANGED <<idle, elapsed, mailbox>>
      /\ status # "running"
  BY <1>2 DEF Submit, Kinds
<1>. QED BY <1>1, <1>2, <1>3, <1>4, <1>5, <1>6

\* The caller while it serves a batch, and when it drops the pool.
LEMMA CallerFacts ==
  ASSUME Serve \/ Drop
  PROVE  /\ UNCHANGED <<batch, size, pools, rx, worker, queue, hist>>
         /\ mailbox' = mailbox \/ Broadcast
BY DEF Serve, Broadcast, Broadcasted, Collect, Timeout, Disconnected, Complete, Tick, Drop,
       CallerOnly

-----------------------------------------------------------------------------
(* The account of the jobs *)

AccountInv == Kinds /\ Ages /\ Taken

LEMMA AccountInit == Init => AccountInv
<1>. SUFFICES ASSUME Init PROVE AccountInv
  OBVIOUS
<1>1. \A w \in Workers : worker[w].pc = "unborn" /\ worker[w].batch = None
  BY DEF Init, Free
<1>2. Kinds
  BY <1>1, PoolAssumption DEF Init, Kinds
<1>3. Ages
  BY <1>1 DEF Init, Ages, None
<1>4. Taken
  BY <1>1 DEF Init, Taken, Doing, HistInit
<1>. QED BY <1>2, <1>3, <1>4 DEF AccountInv

LEMMA KindsStep ==
  ASSUME PoolInv, Kinds, [Next]_vars PROVE Kinds'
<1>1. CASE Submit
  <2>1. /\ \A w \in Workers : \/ worker'[w] = worker[w]
                              \/ worker'[w].pc = "lock" /\ worker'[w].batch = None
        /\ size' = [size EXCEPT ![batch'] = size'[batch']] /\ size'[batch'] \in 0..NumJobs
        /\ batch' \in Batches /\ out' = <<>> /\ results' = <<>>
        /\ IF size'[batch'] = 0 THEN status' = "ok" /\ caller' = "idle" /\ copies' = 0
           ELSE status' = "running" /\ caller' = "sending" /\ copies' = NumWorkers
    BY <1>1, SubmitFacts
  <2>2. size' \in [Batches -> 0..NumJobs]
    BY <2>1 DEF Kinds
  <2>3. copies' \in 0..NumWorkers
    BY <2>1, PoolAssumption
  <2>4. out' \in Seq(Jobs) /\ results' \in Seq(Outcome)
    BY <2>1
  <2>5. \A w \in Workers :
          /\ worker'[w].pc \in {"work", "stuck"} => worker'[w].job \in Jobs
          /\ worker'[w].batch # None => worker'[w].pc \in {"pull", "work", "stuck"}
    BY <2>1 DEF Kinds
  <2>. QED BY <2>1, <2>2, <2>3, <2>4, <2>5 DEF Kinds
<1>2. CASE Serve \/ Drop
  <2>1. UNCHANGED <<batch, size, worker>>
    BY <1>2, CallerFacts
  <2>2. CASE Broadcast
    <3>1. /\ UNCHANGED <<caller, status, out, results>> /\ copies' = copies - 1
          /\ caller = "sending" /\ copies > 0
      BY <2>2 DEF Broadcast
    <3>2. copies' \in 0..NumWorkers
      BY <3>1, PoolAssumption DEF Kinds
    <3>. QED BY <2>1, <3>1, <3>2 DEF Kinds
  <2>3. CASE Broadcasted
    BY <2>1, <2>3 DEF Broadcasted, Kinds
  <2>4. CASE Collect
    <3>1. Waiting /\ results # <<>> /\ UNCHANGED copies
      BY <2>4 DEF Collect, CallerOnly
    <3>2. Head(results) \in Outcome /\ Tail(results) \in Seq(Outcome)
      BY <3>1 DEF Kinds
    <3>3. CASE Head(results).ok
      <4>1. out' = Append(out, Head(results).job) /\ results' = Tail(results)
            /\ UNCHANGED <<caller, status>>
        BY <2>4, <3>3 DEF Collect
      <4>2. out' \in Seq(Jobs)
        BY <3>1, <3>2, <4>1 DEF Kinds, Waiting, Outcome
      <4>. QED BY <2>1, <3>1, <3>2, <4>1, <4>2 DEF Kinds
    <3>4. CASE ~Head(results).ok
      BY <2>1, <2>4, <3>1, <3>4 DEF Collect, Return, Kinds, Waiting
    <3>. QED BY <3>3, <3>4
  <2>5. CASE Timeout \/ Disconnected \/ Complete
    <3>1. /\ caller' = "idle" /\ status' \in {"ok", "error", "timeout"} /\ results' = <<>>
          /\ caller = "collecting" /\ copies' = copies
      BY <2>5 DEF Timeout, Disconnected, Complete, Return, CallerOnly, Waiting
    <3>. QED BY <2>1, <3>1 DEF Kinds
  <2>6. CASE Tick \/ Drop
    BY <2>1, <2>6 DEF Tick, Drop, CallerOnly, Kinds
  <2>. QED BY <1>2, <2>2, <2>3, <2>4, <2>5, <2>6 DEF Serve
<1>3. ASSUME NEW w \in Workers, Run(w) PROVE Kinds'
  <2>1. UNCHANGED callerVars
    BY <1>3 DEF Run, Lock, Receive, Exit, TakeJob, Drained, JobDone, JobFails, Report,
                JobPanics, JobHangs, WorkerOnly
  <2>2. results' \in Seq(Outcome)
    <3>1. CASE Quiet(w) \/ TakeJob(w)
      BY <3>1, QuietFacts DEF TakeJob, Kinds
    <3>2. CASE JobDone(w) \/ JobFails(w) \/ JobPanics(w)
      <4>1. /\ worker[w].job \in Jobs
            /\ \/ results' = results
               \/ \E ok \in BOOLEAN : results' = Append(results, [job |-> worker[w].job, ok |-> ok])
        BY <3>2, EndFacts
      <4>2. \A ok \in BOOLEAN : [job |-> worker[w].job, ok |-> ok] \in Outcome
        BY <4>1 DEF Outcome
      <4>3. results \in Seq(Outcome)
        BY DEF Kinds
      <4>. QED BY <4>1, <4>2, <4>3, AppendType
    <3>. QED BY <1>3, <3>1, <3>2 DEF Run, Quiet
  <2>3. /\ \A v \in Workers : v # w => worker'[v] = worker[v]
        /\ worker'[w].pc \in {"work", "stuck"} => worker'[w].job \in Jobs
        /\ worker'[w].batch # None => worker'[w].pc \in {"pull", "work", "stuck"}
    <3>1. CASE Quiet(w)
      BY <3>1, QuietFacts DEF Kinds
    <3>2. CASE TakeJob(w)
      BY <3>2, TakeFacts
    <3>3. CASE JobDone(w) \/ JobFails(w) \/ JobPanics(w)
      BY <3>3, EndFacts
    <3>. QED BY <1>3, <3>1, <3>2, <3>3 DEF Run, Quiet
  <2>. QED BY <2>1, <2>2, <2>3 DEF Kinds, callerVars
<1>4. CASE UNCHANGED vars
  BY <1>4 DEF vars, callerVars, Kinds
<1>. QED BY <1>1, <1>2, <1>3, <1>4 DEF Next, Done

\* What is put into a mailbox and what a worker gets from it is a batch submitted.
LEMMA AgesStep ==
  ASSUME PoolInv, Kinds, Ages, [Next]_vars PROVE Ages'
<1>0. batch \in 0..MaxBatches /\ mailbox \in [Pools -> Seq(Batches)]
      /\ \A w \in Workers : worker[w].batch \in 0..MaxBatches
  BY PoolAssumption DEF PoolInv, Typed, Thread, Batches, None
<1>1. CASE Submit
  <2>1. /\ batch' = batch + 1 /\ mailbox' = mailbox
        /\ \A w \in Workers : worker'[w] = worker[w] \/ worker'[w].batch = None
    BY <1>1, SubmitFacts
  <2>2. \A w \in Workers : worker'[w].batch <= batch'
    BY <1>0, <2>1 DEF Ages, None
  <2>3. \A p \in Pools : \A i \in DOMAIN mailbox[p] : mailbox[p][i] \in Int
    <3>. SUFFICES ASSUME NEW p \in Pools PROVE \A i \in DOMAIN mailbox[p] : mailbox[p][i] \in Int
      OBVIOUS
    <3>1. mailbox[p] \in Seq(Batches)
      BY <1>0
    <3>2. \A i \in DOMAIN mailbox[p] : mailbox[p][i] \in Batches
      BY <3>1, ElementType
    <3>. QED BY <3>2 DEF Batches
  <2>. QED BY <1>0, <2>1, <2>2, <2>3 DEF Ages
<1>2. CASE Serve \/ Drop
  <2>1. UNCHANGED <<batch, worker>> /\ (mailbox' = mailbox \/ Broadcast)
    BY <1>2, CallerFacts
  <2>2. ASSUME Broadcast, NEW p \in Pools, NEW i \in DOMAIN mailbox'[p]
        PROVE  mailbox'[p][i] <= batch
    <3>1. CASE mailbox'[p] = mailbox[p]
      BY <2>2, <3>1 DEF Ages
    <3>2. CASE mailbox'[p] = Append(mailbox[p], batch)
      <4>1. batch \in Batches /\ mailbox[p] \in Seq(Batches)
        BY <1>0, <2>2 DEF Broadcast, PoolInv, Typed
      <4>2. \A k \in DOMAIN mailbox'[p] :
              \/ k \in DOMAIN mailbox[p] /\ mailbox'[p][k] = mailbox[p][k]
              \/ mailbox'[p][k] = batch
        BY <3>2, <4>1
      <4>. QED BY <1>0, <2>2, <4>1, <4>2 DEF Ages
    <3>3. mailbox' = mailbox \/ mailbox' = [mailbox EXCEPT ![pool] = Append(mailbox[pool], batch)]
      BY <2>2 DEF Broadcast
    <3>. QED BY <1>0, <3>1, <3>2, <3>3
  <2>. QED BY <2>1, <2>2 DEF Ages
<1>3. ASSUME NEW w \in Workers, Run(w) PROVE Ages'
  <2>1. batch' = batch
    BY <1>3 DEF Run, Lock, Receive, Exit, TakeJob, Drained, JobDone, JobFails, Report,
                JobPanics, JobHangs, WorkerOnly, callerVars
  <2>2. w[1] \in Pools
    BY DEF Workers
  <2>3. \A v \in Workers : worker'[v].batch <= batch
    <3>1. CASE Quiet(w)
      <4>1. mailbox[w[1]] # <<>> => Head(mailbox[w[1]]) <= batch
        <5>1. ASSUME mailbox[w[1]] # <<>>
              PROVE 1 \in DOMAIN mailbox[w[1]] /\ Head(mailbox[w[1]]) = mailbox[w[1]][1]
          BY <1>0, <2>2, <5>1
        <5>. QED BY <2>2, <5>1 DEF Ages
      <4>. QED BY <1>0, <3>1, <4>1, QuietFacts DEF Ages, None
    <3>2. CASE TakeJob(w)
      BY <3>2, TakeFacts DEF Ages
    <3>3. CASE JobDone(w) \/ JobFails(w) \/ JobPanics(w)
      <4>1. worker'[w].batch \in {worker[w].batch, None}
        BY <3>3, EndFacts
      <4>2. \A v \in Workers : v # w => worker'[v] = worker[v]
        BY <3>3, EndFacts
      <4>. QED BY <1>0, <4>1, <4>2 DEF Ages, None
    <3>. QED BY <1>3, <3>1, <3>2, <3>3 DEF Run, Quiet
  <2>4. ASSUME NEW p \in Pools, NEW i \in DOMAIN mailbox'[p] PROVE mailbox'[p][i] <= batch
    <3>1. CASE mailbox'[p] = mailbox[p]
      BY <2>4, <3>1 DEF Ages
    <3>2. CASE mailbox'[p] = Tail(mailbox[p]) /\ mailbox[p] # <<>>
      <4>1. mailbox[p] \in Seq(Batches)
        BY <1>0
      <4>2. i + 1 \in DOMAIN mailbox[p] /\ mailbox'[p][i] = mailbox[p][i + 1]
        BY <2>4, <3>2, <4>1
      <4>. QED BY <4>2 DEF Ages
    <3>3. CASE mailbox'[p] = <<>>
      BY <2>4, <3>3
    <3>4. \/ mailbox' = mailbox
          \/ mailbox' = [mailbox EXCEPT ![w[1]] = <<>>]
          \/ mailbox' = [mailbox EXCEPT ![w[1]] = Tail(@)] /\ mailbox[w[1]] # <<>>
      BY <1>3 DEF Run, Lock, Receive, Exit, TakeJob, Drained, JobDone, JobFails, Report,
                  JobPanics, JobHangs
    <3>. QED BY <1>0, <3>1, <3>2, <3>3, <3>4
  <2>. QED BY <2>1, <2>3, <2>4 DEF Ages
<1>4. CASE UNCHANGED vars
  BY <1>4 DEF vars, callerVars, Ages
<1>. QED BY <1>1, <1>2, <1>3, <1>4 DEF Next, Done

\* What the steps do to who is doing what.
LEMMA QuietDoing ==
  ASSUME PoolInv, NEW w \in Workers, Quiet(w)
  PROVE  \A v \in Workers, c \in Batches, j \in Jobs : Doing(v, c, j)' <=> Doing(v, c, j)
BY QuietFacts DEF Doing

LEMMA TakeDoing ==
  ASSUME PoolInv, NEW w \in Workers, TakeJob(w), NEW b, b = worker[w].batch
  PROVE  \A v \in Workers, c \in Batches, j \in Jobs :
           Doing(v, c, j)' <=> Doing(v, c, j) \/ (v = w /\ c = b /\ j = queue[b])
BY TakeFacts DEF Doing

LEMMA EndDoing ==
  ASSUME PoolInv, Kinds, NEW w \in Workers, JobDone(w) \/ JobFails(w) \/ JobPanics(w),
         NEW b, NEW j, b = worker[w].batch, j = worker[w].job
  PROVE  /\ Doing(w, b, j)
         /\ \A v \in Workers, c \in Batches, i \in Jobs :
              Doing(v, c, i)' <=> Doing(v, c, i) /\ v # w
BY EndFacts DEF Doing

LEMMA SubmitDoing ==
  ASSUME PoolInv, Kinds, Ages, Submit
  PROVE  \A v \in Workers, c \in Batches, j \in Jobs :
           Doing(v, c, j)' => Doing(v, c, j) /\ c # batch'
<1>1. batch \in Int /\ batch' = batch + 1
  BY SubmitFacts DEF PoolInv, Typed
<1>2. \A v \in Workers : worker[v].batch # batch'
  BY <1>1 DEF Ages, PoolInv, Typed, Thread, Batches, None
<1>3. \A v \in Workers : worker'[v] = worker[v] \/ worker'[v].pc = "lock"
  BY SubmitFacts
<1>. QED BY <1>2, <1>3 DEF Doing

LEMMA TakenStep ==
  ASSUME PoolInv, Kinds, Ages, Taken, [Next]_vars PROVE Taken'
<1>0. queue \in [Batches -> 0..NumJobs] /\ size \in [Batches -> 0..NumJobs]
  BY DEF PoolInv, Typed, Kinds
<1>1. CASE Submit
  <2>1. /\ batch' \in Batches /\ size'[batch'] \in 0..NumJobs /\ hist'.ended = {}
        /\ \A c \in Batches : /\ size'[c] = IF c = batch' THEN size'[batch'] ELSE size[c]
                              /\ queue'[c] = IF c = batch' THEN size'[batch'] ELSE queue[c]
    <3>1. /\ batch' \in Batches /\ size'[batch'] \in 0..NumJobs /\ hist'.ended = {}
          /\ size' = [size EXCEPT ![batch'] = size'[batch']]
          /\ queue' = [queue EXCEPT ![batch'] = size'[batch']]
      BY <1>1, SubmitFacts
    <3>. DEFINE n == size'[batch']
    <3>2. size' = [size EXCEPT ![batch'] = n] /\ queue' = [queue EXCEPT ![batch'] = n]
      BY <3>1
    <3>. HIDE DEF n
    <3>3. \A c \in Batches : /\ size'[c] = IF c = batch' THEN n ELSE size[c]
                            /\ queue'[c] = IF c = batch' THEN n ELSE queue[c]
      BY <1>0, <3>2
    <3>. QED BY <3>1, <3>3 DEF n
  <2>2. \A v \in Workers, c \in Batches, j \in Jobs :
          Doing(v, c, j)' => Doing(v, c, j) /\ c # batch'
    BY <1>1, SubmitDoing
  <2>. QED BY <1>0, <2>1, <2>2 DEF Taken
<1>2. CASE Serve \/ Drop
  BY <1>2, CallerFacts DEF Taken, Doing
<1>3. ASSUME NEW w \in Workers, Quiet(w) PROVE Taken'
  <2>1. UNCHANGED <<batch, size, queue, hist>>
    BY <1>3, QuietFacts DEF callerVars
  <2>. QED BY <1>3, <2>1, QuietDoing DEF Taken
<1>4. ASSUME NEW w \in Workers, TakeJob(w) PROVE Taken'
  <2>1. PICK b : b = worker[w].batch
    OBVIOUS
  <2>2. /\ b \in Batches /\ queue[b] \in Jobs /\ hist'.ended = hist.ended
        /\ \A c \in Batches : queue'[c] = IF c = b THEN queue[b] - 1 ELSE queue[c]
        /\ UNCHANGED <<batch, size>>
    BY <1>4, <2>1, TakeFacts DEF callerVars
  <2>3. \A v \in Workers, c \in Batches, j \in Jobs :
          Doing(v, c, j)' <=> Doing(v, c, j) \/ (v = w /\ c = b /\ j = queue[b])
    BY <1>4, <2>1, TakeDoing
  <2>4. \A c \in Batches : queue'[c] <= queue[c] /\ queue'[c] \in Int /\ queue[c] \in Int
                          /\ size[c] \in Int
    BY <1>0, <2>2
  <2>5. \A v \in Workers, j \in Jobs : Doing(v, b, j) => j # queue[b]
    BY <2>2, <2>4 DEF Taken
  <2>6. \A j \in hist.ended : b = batch => j # queue[b]
    BY <2>4, <2>2 DEF Taken
  <2>7. Jobs \subseteq Int
    BY DEF Jobs
  <2>8. \A c \in Batches : queue'[c] <= size[c]
    BY <2>4 DEF Taken
  <2>9. ASSUME NEW v \in Workers, NEW c \in Batches, NEW j \in Jobs, Doing(v, c, j)'
        PROVE  queue'[c] < j /\ j <= size[c]
    <3>1. CASE Doing(v, c, j)
      BY <2>4, <2>7, <3>1 DEF Taken
    <3>2. CASE v = w /\ c = b /\ j = queue[b]
      BY <2>2, <2>4, <2>7, <3>2 DEF Taken
    <3>. QED BY <2>3, <2>9, <3>1, <3>2
  <2>10. ASSUME NEW u \in Workers, NEW v \in Workers, NEW c \in Batches, NEW j \in Jobs,
                Doing(u, c, j)', Doing(v, c, j)'
         PROVE  u = v
    BY <2>3, <2>5, <2>10 DEF Taken
  <2>11. ASSUME NEW v \in Workers, NEW c \in Batches, NEW j \in Jobs, c = batch, Doing(v, c, j)'
         PROVE  j \notin hist.ended
    BY <2>3, <2>6, <2>11 DEF Taken
  <2>12. \A j \in hist.ended : batch \in Batches /\ j \in Jobs /\ queue'[batch] < j
                              /\ j <= size[batch]
    <3>. SUFFICES ASSUME NEW j \in hist.ended
                  PROVE  batch \in Batches /\ j \in Jobs /\ queue'[batch] < j /\ j <= size[batch]
      OBVIOUS
    <3>1. batch \in Batches /\ j \in Jobs /\ queue[batch] < j /\ j <= size[batch]
      BY DEF Taken
    <3>2. queue'[batch] <= queue[batch] /\ queue'[batch] \in Int /\ queue[batch] \in Int /\ j \in Int
      BY <2>4, <2>7, <3>1
    <3>. QED BY <3>1, <3>2
  <2>. QED BY <2>2, <2>8, <2>9, <2>10, <2>11, <2>12 DEF Taken
<1>5. ASSUME NEW w \in Workers, JobDone(w) \/ JobFails(w) \/ JobPanics(w) PROVE Taken'
  <2>1. PICK b, j : b = worker[w].batch /\ j = worker[w].job
    OBVIOUS
  <2>2. /\ b \in Batches /\ j \in Jobs /\ UNCHANGED <<batch, size, queue>>
        /\ \/ hist'.ended = hist.ended
           \/ b = batch /\ hist'.ended = hist.ended \cup {j}
    BY <1>5, <2>1, EndFacts DEF callerVars
  <2>3. /\ Doing(w, b, j)
        /\ \A v \in Workers, c \in Batches, i \in Jobs :
             Doing(v, c, i)' <=> Doing(v, c, i) /\ v # w
    BY <1>5, <2>1, EndDoing
  <2>4. ASSUME NEW v \in Workers, NEW i \in Jobs, NEW c \in Batches, c = batch, Doing(v, c, i)'
        PROVE  i \notin hist'.ended
    BY <2>2, <2>3, <2>4 DEF Taken
  <2>. QED BY <2>2, <2>3, <2>4 DEF Taken
<1>6. CASE UNCHANGED vars
  BY <1>6 DEF vars, callerVars, Taken, Doing
<1>. QED BY <1>1, <1>2, <1>3, <1>4, <1>5, <1>6 DEF Next, Done, Run, Quiet

LEMMA AccountStep == PoolInv /\ AccountInv /\ [Next]_vars => AccountInv'
BY KindsStep, AgesStep, TakenStep DEF AccountInv

-----------------------------------------------------------------------------
(* The outcomes of a batch *)

\* What ended well is reported once: it waits in the channel or has been collected.
\* Only a job that went wrong is reported as failed.
Delivered ==
  status = "running" =>
    /\ Len(out) <= size[batch]
    /\ \A i, k \in DOMAIN out : out[i] = out[k] => i = k
    /\ \A i \in DOMAIN out : out[i] \in hist.ended
    /\ \A i \in DOMAIN results : results[i].ok =>
         /\ results[i].job \in hist.ended
         /\ \A k \in DOMAIN out : out[k] # results[i].job
    /\ \A i, k \in DOMAIN results :
         results[i].ok /\ results[k].ok /\ results[i].job = results[k].job => i = k
    /\ \A i \in DOMAIN results : ~results[i].ok => hist.wrong # {}
    /\ \A j \in hist.ended :
         \/ \E i \in DOMAIN out : out[i] = j
         \/ \E i \in DOMAIN results : results[i].ok /\ results[i].job = j

\* After an answer without error all jobs are over and their outcomes in order.
Finished ==
  status = "ok" =>
    /\ hist.ended = 1..size[batch]
    /\ size[batch] > 0 => out = [i \in 1..size[batch] |-> i]

OutcomeInv == Delivered /\ Finished

LEMMA AppendFacts ==
  ASSUME NEW S, NEW s \in Seq(S), NEW e
  PROVE  /\ \A i \in DOMAIN s : i \in DOMAIN Append(s, e) /\ Append(s, e)[i] = s[i] /\ i # Len(s) + 1
         /\ Len(s) + 1 \in DOMAIN Append(s, e) /\ Append(s, e)[Len(s) + 1] = e
         /\ \A i \in DOMAIN Append(s, e) : i \in DOMAIN s \/ i = Len(s) + 1
         /\ Len(Append(s, e)) = Len(s) + 1 /\ Len(s) \in Nat
OBVIOUS

LEMMA TailFacts ==
  ASSUME NEW S, NEW s \in Seq(S), s # <<>>
  PROVE  /\ 1 \in DOMAIN s /\ Head(s) = s[1]
         /\ \A i \in DOMAIN Tail(s) : i + 1 \in DOMAIN s /\ Tail(s)[i] = s[i + 1] /\ i \in Nat \ {0}
         /\ \A i \in DOMAIN s : i # 1 => i - 1 \in DOMAIN Tail(s) /\ Tail(s)[i - 1] = s[i]
OBVIOUS

\* All outcomes of a batch, once each, are all its jobs.
LEMMA AllCollected ==
  ASSUME PoolInv, AccountInv, Delivered, status = "running", Len(out) = size[batch]
  PROVE  /\ {out[i] : i \in DOMAIN out} = 1..size[batch]
         /\ hist.ended = 1..size[batch]
<1>1. batch \in Batches /\ out \in Seq(Jobs) /\ size[batch] \in Nat
  BY DEF AccountInv, Kinds
<1>. DEFINE n == size[batch]
<1>2. DOMAIN out = 1..n /\ n \in Nat
  BY <1>1
<1>3. hist.ended \subseteq 1..n
  BY <1>1 DEF AccountInv, Taken, Jobs
<1>4. \A i \in 1..n : out[i] \in 1..n
  BY <1>2, <1>3 DEF Delivered
<1>5. out \in [1..n -> 1..n]
  BY <1>1, <1>2, <1>4
<1>6. out \in Injection(1..n, 1..n)
  <2>1. \A i, k \in 1..n : out[i] = out[k] => i = k
    BY <1>2 DEF Delivered
  <2>. QED BY <1>5, <2>1 DEF Injection, IsInjective
<1>7. IsFiniteSet(1..n)
  BY <1>2, FS_Interval
<1>8. out \in Surjection(1..n, 1..n)
  BY <1>6, <1>7, FS_Injection
<1>9. \A j \in 1..n : \E i \in 1..n : out[i] = j
  BY <1>8 DEF Surjection
<1>10. \A j \in 1..n : j \in hist.ended
  <2>1. \A i \in 1..n : out[i] \in hist.ended
    BY <1>2 DEF Delivered
  <2>. QED BY <1>9, <2>1
<1>11. {out[i] : i \in DOMAIN out} = 1..n
  BY <1>2, <1>4, <1>9
<1>. QED BY <1>3, <1>10, <1>11

LEMMA OutcomeInit == Init => OutcomeInv
BY DEF Init, OutcomeInv, Delivered, Finished

\* An outcome goes from the channel to the outcomes.
LEMMA CollectDelivered ==
  ASSUME Kinds, OutcomeInv, Collect PROVE OutcomeInv'
<1>1. /\ Waiting /\ results # <<>> /\ status = "running"
      /\ UNCHANGED <<batch, size, hist>>
  BY DEF Collect, CallerOnly, Waiting, Kinds
<1>2. CASE ~Head(results).ok
  BY <1>2 DEF Collect, Return, OutcomeInv, Delivered, Finished
<1>3. CASE Head(results).ok
  <2>1. out' = Append(out, Head(results).job) /\ results' = Tail(results) /\ status' = status
    BY <1>3 DEF Collect
  <2>. DEFINE job == results[1].job
  <2>2. /\ 1 \in DOMAIN results /\ Head(results) = results[1]
        /\ \A i \in DOMAIN results' : /\ i + 1 \in DOMAIN results /\ results'[i] = results[i + 1]
                                     /\ i \in Nat \ {0}
        /\ \A i \in DOMAIN results : i # 1 => i - 1 \in DOMAIN results' /\ results'[i - 1] = results[i]
    BY <1>1, <2>1, TailFacts DEF Kinds
  <2>3. results[1].ok /\ out' = Append(out, job)
    BY <1>3, <2>1, <2>2
  <2>. DEFINE last == Len(out) + 1
  <2>4. /\ \A i \in DOMAIN out : i \in DOMAIN out' /\ out'[i] = out[i] /\ i # last
        /\ last \in DOMAIN out' /\ out'[last] = job
        /\ \A i \in DOMAIN out' : i \in DOMAIN out \/ i = last
        /\ Len(out') = Len(out) + 1 /\ Len(out) \in Nat
    BY <1>1, <2>3, AppendFacts DEF Kinds
  <2>5. Len(out') <= size[batch]
    BY <1>1, <2>4 DEF Waiting, Kinds
  <2>6. job \in hist.ended /\ \A k \in DOMAIN out : out[k] # job
    BY <1>1, <2>2, <2>3 DEF OutcomeInv, Delivered
  <2>. HIDE DEF job, last
  <2>7. \A i, k \in DOMAIN out' : out'[i] = out'[k] => i = k
    <3>1. \A i, k \in DOMAIN out : out[i] = out[k] => i = k
      BY <1>1 DEF OutcomeInv, Delivered
    <3>. QED BY <2>4, <2>6, <3>1
  <2>8. \A i \in DOMAIN out' : out'[i] \in hist.ended
    <3>1. \A i \in DOMAIN out : out[i] \in hist.ended
      BY <1>1 DEF OutcomeInv, Delivered
    <3>. QED BY <2>4, <2>6, <3>1
  <2>9. ASSUME NEW i \in DOMAIN results', results'[i].ok
        PROVE  /\ results'[i].job \in hist.ended
               /\ \A k \in DOMAIN out' : out'[k] # results'[i].job
    <3>1. i + 1 \in DOMAIN results /\ results'[i] = results[i + 1] /\ i + 1 # 1
      BY <2>2, <2>9
    <3>2. /\ results[i + 1].job \in hist.ended
          /\ \A k \in DOMAIN out : out[k] # results[i + 1].job
      BY <1>1, <2>9, <3>1 DEF OutcomeInv, Delivered
    <3>3. results[i + 1].job # job
      BY <1>1, <2>2, <2>3, <2>9, <3>1 DEF OutcomeInv, Delivered, job
    <3>. QED BY <2>4, <3>1, <3>2, <3>3
  <2>10. ASSUME NEW i \in DOMAIN results', NEW k \in DOMAIN results',
                results'[i].ok, results'[k].ok, results'[i].job = results'[k].job
         PROVE  i = k
    <3>1. i + 1 = k + 1
      BY <1>1, <2>2, <2>10 DEF OutcomeInv, Delivered
    <3>. QED BY <2>2, <2>10, <3>1
  <2>11. ASSUME NEW i \in DOMAIN results', ~results'[i].ok PROVE hist.wrong # {}
    BY <1>1, <2>2, <2>11 DEF OutcomeInv, Delivered
  <2>12. ASSUME NEW j \in hist.ended
         PROVE  \/ \E i \in DOMAIN out' : out'[i] = j
                \/ \E i \in DOMAIN results' : results'[i].ok /\ results'[i].job = j
    <3>1. \/ \E i \in DOMAIN out : out[i] = j
          \/ \E i \in DOMAIN results : results[i].ok /\ results[i].job = j
      BY <1>1, <2>12 DEF OutcomeInv, Delivered
    <3>2. CASE \E i \in DOMAIN out : out[i] = j
      BY <2>4, <3>2
    <3>3. ASSUME NEW i \in DOMAIN results, results[i].ok, results[i].job = j
          PROVE  \/ \E k \in DOMAIN out' : out'[k] = j
                 \/ \E k \in DOMAIN results' : results'[k].ok /\ results'[k].job = j
      BY <2>2, <2>4, <3>3 DEF job
    <3>. QED BY <3>1, <3>2, <3>3
  <2>13. Delivered'
    BY <1>1, <2>5, <2>7, <2>8, <2>9, <2>10, <2>11, <2>12 DEF Delivered
  <2>. QED BY <1>1, <2>1, <2>13 DEF OutcomeInv, Finished
<1>. QED BY <1>2, <1>3

\* A job that ends well is reported once, and one that went wrong is known.
LEMMA EndDelivered ==
  ASSUME PoolInv, AccountInv, OutcomeInv, NEW w \in Workers,
         JobDone(w) \/ JobFails(w) \/ JobPanics(w)
  PROVE  OutcomeInv'
<1>1. PICK b, j : b = worker[w].batch /\ j = worker[w].job
  OBVIOUS
<1>2. Kinds /\ Taken
  BY DEF AccountInv
<1>3. /\ b \in Batches /\ j \in Jobs /\ UNCHANGED callerVars
      /\ b # batch => UNCHANGED <<hist, results>>
      /\ b = batch =>
           \/ /\ hist'.ended = hist.ended \cup {j} /\ hist'.wrong = hist.wrong
              /\ results' = IF status = "running" THEN Append(results, [job |-> j, ok |-> TRUE])
                                                  ELSE results
           \/ /\ hist'.ended = hist.ended /\ hist'.wrong = hist.wrong \cup {j}
              /\ \/ results' = results
                 \/ results' = Append(results, [job |-> j, ok |-> FALSE])
  BY <1>1, <1>2, EndFacts
<1>4. Doing(w, b, j)
  BY <1>1, <1>2, EndDoing
<1>5. b = batch => j \notin hist.ended /\ j \in 1..size[batch] /\ status # "ok"
  <2>1. b = batch => j \notin hist.ended /\ j <= size[b] /\ size[b] \in Nat
    BY <1>2, <1>3, <1>4 DEF Taken, Kinds
  <2>. QED BY <1>3, <2>1 DEF Jobs, OutcomeInv, Finished
<1>6. CASE b # batch \/ status # "running"
  BY <1>3, <1>5, <1>6 DEF OutcomeInv, Delivered, Finished, callerVars
<1>7. CASE b = batch /\ status = "running"
  <2>0. results \in Seq(Outcome) /\ UNCHANGED <<out, status, size, batch>>
    BY <1>2, <1>3 DEF Kinds, callerVars
  <2>1. ASSUME NEW ok \in BOOLEAN, results' = Append(results, [job |-> j, ok |-> ok])
        PROVE  /\ \A i \in DOMAIN results : /\ i \in DOMAIN results' /\ results'[i] = results[i]
                                            /\ i # Len(results) + 1
               /\ Len(results) + 1 \in DOMAIN results'
               /\ results'[Len(results) + 1].job = j /\ results'[Len(results) + 1].ok = ok
               /\ \A i \in DOMAIN results' : i \in DOMAIN results \/ i = Len(results) + 1
    <3>. DEFINE e == [job |-> j, ok |-> ok]
    <3>1. e.job = j /\ e.ok = ok /\ results' = Append(results, e)
      BY <2>1
    <3>. HIDE DEF e
    <3>. QED BY <2>0, <3>1, AppendFacts
  <2>. DEFINE last == Len(results) + 1
  <2>2. CASE hist'.ended = hist.ended \cup {j} /\ hist'.wrong = hist.wrong
             /\ results' = Append(results, [job |-> j, ok |-> TRUE])
    <3>1. /\ \A i \in DOMAIN results : i \in DOMAIN results' /\ results'[i] = results[i] /\ i # last
          /\ last \in DOMAIN results' /\ results'[last].job = j /\ results'[last].ok
          /\ \A i \in DOMAIN results' : i \in DOMAIN results \/ i = last
      BY <2>1, <2>2
    <3>. HIDE DEF last
    <3>2. \A i \in DOMAIN results : results[i].ok => results[i].job # j
      BY <1>5, <1>7 DEF OutcomeInv, Delivered
    <3>3. \A i \in DOMAIN out : out[i] # j
      BY <1>5, <1>7 DEF OutcomeInv, Delivered
    <3>. QED BY <1>7, <2>0, <2>2, <3>1, <3>2, <3>3 DEF OutcomeInv, Delivered, Finished
  <2>3. CASE hist'.ended = hist.ended /\ hist'.wrong = hist.wrong \cup {j}
             /\ results' = Append(results, [job |-> j, ok |-> FALSE])
    <3>1. /\ \A i \in DOMAIN results : i \in DOMAIN results' /\ results'[i] = results[i] /\ i # last
          /\ last \in DOMAIN results' /\ ~results'[last].ok
          /\ \A i \in DOMAIN results' : i \in DOMAIN results \/ i = last
      BY <2>1, <2>3
    <3>. HIDE DEF last
    <3>. QED BY <1>7, <2>0, <2>3, <3>1 DEF OutcomeInv, Delivered, Finished
  <2>4. CASE hist'.ended = hist.ended /\ hist'.wrong = hist.wrong \cup {j} /\ results' = results
    BY <1>7, <2>0, <2>4 DEF OutcomeInv, Delivered, Finished
  <2>. QED BY <1>3, <1>7, <2>2, <2>3, <2>4
<1>. QED BY <1>6, <1>7

LEMMA OutcomeStep == PoolInv /\ AccountInv /\ OutcomeInv /\ [Next]_vars => OutcomeInv'
<1>. SUFFICES ASSUME PoolInv, AccountInv, OutcomeInv, [Next]_vars PROVE OutcomeInv'
  OBVIOUS
<1>0. Kinds
  BY DEF AccountInv
<1>1. CASE Submit
  <2>1. /\ batch' \in Batches /\ size'[batch'] \in 0..NumJobs
        /\ hist'.ended = {} /\ hist'.wrong = {} /\ out' = <<>> /\ results' = <<>>
        /\ status' = "ok" => size'[batch'] = 0
    BY <1>0, <1>1, SubmitFacts
  <2>. QED BY <2>1 DEF OutcomeInv, Delivered, Finished
<1>2. CASE Collect
  BY <1>0, <1>2, CollectDelivered
<1>3. CASE Complete
  <2>1. /\ status = "running" /\ Len(out) = size[batch] /\ status' = "ok"
        /\ out' = Collected /\ UNCHANGED <<batch, size, hist>>
    BY <1>0, <1>3 DEF Complete, Return, CallerOnly, Kinds
  <2>2. {out[i] : i \in DOMAIN out} = 1..size[batch] /\ hist.ended = 1..size[batch]
    BY <2>1, AllCollected DEF OutcomeInv
  <2>3. size[batch] \in Nat
    BY <1>0, <2>1 DEF Kinds
  <2>4. out' = [i \in 1..size[batch] |-> i]
    BY <2>1, <2>2, <2>3, AscendingRange DEF Collected
  <2>. QED BY <2>1, <2>2, <2>4 DEF OutcomeInv, Delivered, Finished
<1>4. CASE Timeout \/ Disconnected
  BY <1>4 DEF Timeout, Disconnected, Return, OutcomeInv, Delivered, Finished
<1>5. CASE Broadcast \/ Broadcasted \/ Tick \/ Drop
  BY <1>5 DEF Broadcast, Broadcasted, Tick, Drop, CallerOnly, OutcomeInv, Delivered, Finished
<1>6. ASSUME NEW w \in Workers, Run(w) PROVE OutcomeInv'
  <2>1. CASE Quiet(w)
    BY <2>1, QuietFacts DEF callerVars, OutcomeInv, Delivered, Finished
  <2>2. CASE TakeJob(w)
    BY <2>2, TakeFacts DEF callerVars, OutcomeInv, Delivered, Finished
  <2>3. CASE JobDone(w) \/ JobFails(w) \/ JobPanics(w)
    BY <2>3, EndDelivered
  <2>. QED BY <1>6, <2>1, <2>2, <2>3 DEF Run, Quiet
<1>7. CASE UNCHANGED vars
  BY <1>7 DEF vars, callerVars, OutcomeInv, Delivered, Finished
<1>. QED BY <1>1, <1>2, <1>3, <1>4, <1>5, <1>6, <1>7 DEF Next, Serve, Done

\* Every job of a batch that was answered without error has ended, nobody is inside one,
\* and the outcomes are in the order of dispatch (run_batch_with_timeout, execute_step).
THEOREM BarrierHolds == Spec => []OkIsABarrier
<1>1. ASSUME PoolInv, AccountInv, OutcomeInv, status = "ok", NEW w \in Workers, worker[w].batch = batch
      PROVE  At(w, "pull")
  <2>1. Kinds /\ Taken /\ hist.ended = 1..size[batch] /\ batch \in Batches
    BY <1>1 DEF AccountInv, OutcomeInv, Finished, Kinds
  <2>2. worker[w].pc \in {"pull", "work", "stuck"}
    BY <1>1, <2>1 DEF Kinds, Batches, None
  <2>3. ASSUME worker[w].pc \in {"work", "stuck"} PROVE FALSE
    <3>1. worker[w].job \in Jobs /\ Doing(w, batch, worker[w].job) /\ size[batch] \in Nat
      BY <1>1, <2>1, <2>3 DEF Kinds, Doing
    <3>2. worker[w].job \notin hist.ended /\ worker[w].job <= size[batch]
      BY <2>1, <3>1 DEF Taken
    <3>. QED BY <2>1, <3>1, <3>2 DEF Jobs
  <2>. QED BY <2>2, <2>3 DEF At
<1>2. PoolInv /\ AccountInv /\ OutcomeInv => OkIsABarrier
  BY <1>1 DEF OutcomeInv, Finished, OkIsABarrier
<1>. QED BY <1>2, InitPoolInv, PoolInvStep, AccountInit, AccountStep, OutcomeInit, OutcomeStep,
            PTL DEF Spec

-----------------------------------------------------------------------------
(* The cause of an error *)

\* The caller's pool is the last one made, and its threads end by a panic only.
CrewInv ==
  /\ pools \in Nat /\ pools <= batch
  /\ pool # None => pool = pools /\ \A w \in Crew(pool) : worker[w].pc \notin {"unborn", "exited"}
  /\ status = "running" => pool \in Pools

\* As long as nothing went wrong somebody has a copy of the batch, unless the pool had
\* lost all its threads before; and a job that was taken is over or in a worker's hands.
Attended ==
  status = "running" /\ hist.wrong = {} =>
    /\ \A j \in Jobs : queue[batch] < j /\ j <= size[batch] =>
         j \in hist.ended \/ \E w \in Workers : Doing(w, batch, j)
    /\ queue[batch] > 0 /\ copies < NumWorkers =>
         \/ \E i \in DOMAIN mailbox[pool] : mailbox[pool][i] = batch
         \/ \E w \in Workers : worker[w].batch = batch
         \/ \A w \in Crew(pool) : At(w, "dead")

CauseInv == CrewInv /\ Attended /\ ErrorHasCause

LEMMA CauseInit == Init => CauseInv
BY DEF Init, CauseInv, CrewInv, Attended, ErrorHasCause

LEMMA CrewStep == PoolInv /\ Kinds /\ CrewInv /\ [Next]_vars => CrewInv'
<1>. SUFFICES ASSUME PoolInv, Kinds, CrewInv, [Next]_vars PROVE CrewInv'
  OBVIOUS
<1>0. batch \in Nat
  BY DEF PoolInv, Typed
<1>1. CASE Submit
  <2>1. batch' = batch + 1 /\ batch' \in Batches
    BY <1>1, SubmitFacts
  <2>2. CASE pool # None
    <3>1. UNCHANGED <<pool, pools, worker>>
      BY <1>1, <2>2 DEF Submit
    <3>2. pool \in Pools
      BY <1>0, <2>1, <2>2, PoolAssumption DEF CrewInv, Batches, Pools, None
    <3>. QED BY <1>0, <2>1, <3>1, <3>2 DEF CrewInv, Crew
  <2>3. CASE pool = None
    <3>1. /\ pools' = pools + 1 /\ pool' = pools'
          /\ worker' = [w \in Workers |-> IF w[1] = pools' THEN Free("lock") ELSE worker[w]]
      BY <1>1, <2>3 DEF Submit
    <3>2. pool' \in Pools /\ pools' \in Nat /\ pools' <= batch'
      BY <1>0, <2>1, <3>1, PoolAssumption DEF CrewInv, Batches, Pools
    <3>3. \A w \in Crew(pool') : worker'[w].pc = "lock"
      BY <3>1 DEF Crew, Free
    <3>. QED BY <3>1, <3>2, <3>3 DEF CrewInv, Crew
  <2>. QED BY <2>2, <2>3
<1>2. CASE Serve \/ Drop
  <2>1. UNCHANGED <<batch, pools, worker>>
    BY <1>2, CallerFacts
  <2>2. pool' = pool \/ pool' = None
    BY <1>2 DEF Serve, Drop, Broadcast, Broadcasted, Collect, Timeout, Disconnected, Complete, Tick
  <2>3. status' = "running" => status = "running" /\ pool' = pool
    BY <1>2 DEF Serve, Drop, Broadcast, Broadcasted, Collect, Timeout, Disconnected, Complete, Tick,
                Return, Kinds
  <2>. QED BY <2>1, <2>2, <2>3 DEF CrewInv, Crew
<1>3. ASSUME NEW w \in Workers, Run(w) PROVE CrewInv'
  <2>1. UNCHANGED <<batch, pools, pool, status>>
    BY <1>3 DEF Run, Lock, Receive, Exit, TakeJob, Drained, JobDone, JobFails, Report,
                JobPanics, JobHangs, WorkerOnly, callerVars
  <2>2. \A v \in Workers : v # w => worker'[v] = worker[v]
    <3>1. CASE Quiet(w)
      BY <3>1, QuietFacts
    <3>2. CASE TakeJob(w)
      BY <3>2, TakeFacts
    <3>3. CASE JobDone(w) \/ JobFails(w) \/ JobPanics(w)
      BY <3>3, EndFacts
    <3>. QED BY <1>3, <3>1, <3>2, <3>3 DEF Run, Quiet
  <2>3. pool = w[1] => worker'[w].pc \notin {"unborn", "exited"}
    <3>1. CASE Exit(w)
      BY <3>1 DEF Exit, Open
    <3>2. CASE Lock(w) \/ Receive(w) \/ JobHangs(w)
      <4>1. worker'[w].pc \in {"recv", "pull", "stuck"}
        BY <3>2 DEF Lock, Receive, JobHangs, Place, PoolInv, Typed, Thread
      <4>. QED BY <4>1
    <3>3. CASE Drained(w)
      BY <3>3 DEF Drained, Free, PoolInv, Typed
    <3>4. CASE TakeJob(w)
      BY <3>4, TakeFacts
    <3>5. CASE JobDone(w) \/ JobFails(w) \/ JobPanics(w)
      BY <3>5, EndFacts
    <3>. QED BY <1>3, <3>1, <3>2, <3>3, <3>4, <3>5 DEF Run
  <2>. QED BY <2>1, <2>2, <2>3 DEF CrewInv, Crew
<1>4. CASE UNCHANGED vars
  BY <1>4 DEF vars, callerVars, CrewInv, Crew
<1>. QED BY <1>1, <1>2, <1>3, <1>4 DEF Next, Done

\* Once nobody can report, something went wrong, or the pool had no thread left.
LEMMA DisconnectedHasCause ==
  ASSUME PoolInv, AccountInv, OutcomeInv, CauseInv, Disconnected PROVE ErrorHasCause'
<1>1. /\ Waiting /\ results = <<>> /\ Senders(batch) = {} /\ status = "running"
      /\ UNCHANGED <<pools, worker, hist>> /\ copies = 0
      /\ batch \in Batches /\ out \in Seq(Jobs) /\ size[batch] \in 0..NumJobs
  BY DEF Disconnected, CallerOnly, AccountInv, Kinds, Waiting
<1>2. pool \in Pools /\ pool = pools
  BY <1>1 DEF CauseInv, CrewInv, Pools, None
<1>3. \A w \in Workers : worker[w].batch # batch
  BY <1>1 DEF Senders
<1>4. \A i \in DOMAIN mailbox[pool] : mailbox[pool][i] # batch
  BY <1>1, <1>2 DEF Senders, Copied
<1>5. CASE hist.wrong # {}
  BY <1>1, <1>5 DEF ErrorHasCause
<1>6. CASE hist.wrong = {} /\ queue[batch] > 0
  <2>1. copies < NumWorkers
    BY <1>1, PoolAssumption
  <2>2. \A w \in Crew(pool) : At(w, "dead")
    BY <1>1, <1>3, <1>4, <1>6, <2>1 DEF CauseInv, Attended
  <2>. QED BY <1>1, <1>2, <2>2 DEF ErrorHasCause, Crew, At
<1>7. CASE hist.wrong = {} /\ ~(queue[batch] > 0)
  <2>. DEFINE n == size[batch] m == Len(out)
  <2>1. queue[batch] = 0 /\ n \in Nat /\ m \in Nat /\ DOMAIN out = 1..m /\ m < n
    BY <1>1, <1>7 DEF PoolInv, Typed, Waiting
  <2>2. ASSUME NEW j \in 1..n PROVE j \in hist.ended
    <3>1. j \in Jobs /\ queue[batch] < j /\ j <= size[batch]
      BY <1>1, <2>1, PoolAssumption DEF Jobs
    <3>2. ~\E w \in Workers : Doing(w, batch, j)
      BY <1>3 DEF Doing
    <3>. QED BY <1>1, <1>7, <3>1, <3>2 DEF CauseInv, Attended
  <2>3. \A j \in 1..n : \E i \in 1..m : out[i] = j
    BY <1>1, <2>1, <2>2 DEF OutcomeInv, Delivered
  <2>4. \A i \in 1..m : out[i] \in 1..n
    <3>. SUFFICES ASSUME NEW i \in 1..m PROVE out[i] \in 1..n
      OBVIOUS
    <3>1. out[i] \in hist.ended
      BY <1>1, <2>1 DEF OutcomeInv, Delivered
    <3>. QED BY <2>1, <3>1 DEF AccountInv, Taken, Jobs
  <2>5. out \in [1..m -> 1..n]
    BY <1>1, <2>1, <2>4
  <2>6. out \in Surjection(1..m, 1..n)
    BY <2>3, <2>5 DEF Surjection
  <2>. HIDE DEF n, m
  <2>7. /\ IsFiniteSet(1..m) /\ Cardinality(1..m) = m /\ Cardinality(1..n) = n
    <3>1. 1 \in Int /\ m \in Int /\ n \in Int
      BY <2>1
    <3>2. /\ IsFiniteSet(1..m) /\ Cardinality(1..m) = IF 1 > m THEN 0 ELSE m - 1 + 1
          /\ Cardinality(1..n) = IF 1 > n THEN 0 ELSE n - 1 + 1
      BY <3>1, FS_Interval
    <3>. QED BY <2>1, <3>2
  <2>8. n <= m
    BY <2>6, <2>7, FS_Surjection
  <2>. QED BY <2>1, <2>8
<1>. QED BY <1>5, <1>6, <1>7

\* A copy of the batch passes from the caller to a mailbox and from there to a worker, who
\* drops it only when the queue is empty.
LEMMA QuietAttended ==
  ASSUME PoolInv, AccountInv, CauseInv, NEW w \in Workers, Quiet(w) PROVE Attended'
<1>0. Kinds /\ CrewInv /\ Attended /\ mailbox \in [Pools -> Seq(Batches)]
  BY DEF AccountInv, CauseInv, PoolInv, Typed
<1>1. UNCHANGED <<batch, size, pool, status, copies, queue, hist>>
  BY QuietFacts DEF callerVars
<1>. SUFFICES ASSUME status = "running", hist.wrong = {}
              PROVE  /\ \A j \in Jobs : queue[batch] < j /\ j <= size[batch] =>
                          j \in hist.ended \/ \E v \in Workers : Doing(v, batch, j)'
                     /\ queue[batch] > 0 /\ copies < NumWorkers =>
                          \/ \E i \in DOMAIN mailbox'[pool] : mailbox'[pool][i] = batch
                          \/ \E v \in Workers : worker'[v].batch = batch
                          \/ \A v \in Crew(pool) : worker'[v].pc = "dead"
  BY <1>1 DEF Attended, At, Crew
<1>2. batch \in Batches /\ pool \in Pools
  BY <1>0 DEF Kinds, CrewInv
<1>3. \A j \in Jobs : queue[batch] < j /\ j <= size[batch] =>
         j \in hist.ended \/ \E v \in Workers : Doing(v, batch, j)'
  BY <1>0, <1>1, <1>2, QuietDoing DEF Attended
<1>4. ASSUME queue[batch] > 0, NEW v \in Workers, worker[v].batch = batch
      PROVE  worker'[v].batch = batch
  <2>1. CASE v # w
    BY <1>4, <2>1, QuietFacts
  <2>2. CASE v = w
    <3>1. worker[w].pc \in {"pull", "work", "stuck"}
      BY <1>0, <1>2, <1>4, <2>2 DEF Kinds, Batches, None
    <3>2. ~Drained(w)
      BY <1>4, <2>2 DEF Drained
    <3>3. JobHangs(w)
      BY <3>1, <3>2 DEF Quiet, Lock, Receive, Exit, At
    <3>. QED BY <1>4, <2>2, <3>3 DEF JobHangs, Place, PoolInv, Typed, Thread
  <2>. QED BY <2>1, <2>2
<1>5. ASSUME NEW i \in DOMAIN mailbox[pool], mailbox[pool][i] = batch
      PROVE  \/ \E k \in DOMAIN mailbox'[pool] : mailbox'[pool][k] = batch
             \/ \E v \in Workers : worker'[v].batch = batch
  <2>1. CASE mailbox'[pool] = mailbox[pool]
    BY <1>5, <2>1
  <2>2. CASE Receive(w) /\ w[1] = pool
    <3>1. mailbox[pool] # <<>> /\ mailbox'[pool] = Tail(mailbox[pool])
          /\ worker'[w].batch = Head(mailbox[pool])
      BY <1>0, <1>2, <2>2 DEF Receive, PoolInv, Typed, Thread
    <3>2. /\ Head(mailbox[pool]) = mailbox[pool][1]
          /\ i # 1 => i - 1 \in DOMAIN mailbox'[pool] /\ mailbox'[pool][i - 1] = mailbox[pool][i]
      BY <1>0, <1>2, <3>1, TailFacts
    <3>. QED BY <1>5, <3>1, <3>2
  <2>3. \/ mailbox' = mailbox
        \/ Receive(w) /\ mailbox' = [mailbox EXCEPT ![w[1]] = Tail(@)]
    BY DEF Quiet, Lock, Receive, Exit, Drained, JobHangs
  <2>. QED BY <1>0, <1>2, <2>1, <2>2, <2>3
<1>6. ASSUME \A v \in Crew(pool) : At(v, "dead") PROVE \A v \in Crew(pool) : worker'[v].pc = "dead"
  BY <1>6, QuietFacts DEF Crew, At
<1>7. queue[batch] > 0 /\ copies < NumWorkers =>
        \/ \E i \in DOMAIN mailbox[pool] : mailbox[pool][i] = batch
        \/ \E v \in Workers : worker[v].batch = batch
        \/ \A v \in Crew(pool) : At(v, "dead")
  BY <1>0 DEF Attended
<1>. QED BY <1>3, <1>4, <1>5, <1>6, <1>7

LEMMA TakeAttended ==
  ASSUME PoolInv, AccountInv, CauseInv, NEW w \in Workers, TakeJob(w) PROVE Attended'
<1>0. Kinds /\ CrewInv /\ Attended
  BY DEF AccountInv, CauseInv
<1>1. PICK b : b = worker[w].batch
  OBVIOUS
<1>2. /\ b \in Batches /\ queue[b] \in Jobs /\ worker[w].pc = "pull"
      /\ \A v \in Workers : worker'[v].batch = worker[v].batch
      /\ \A v \in Workers : v # w => worker'[v] = worker[v]
      /\ \A c \in Batches : queue'[c] = IF c = b THEN queue[b] - 1 ELSE queue[c]
      /\ hist'.ended = hist.ended /\ hist'.wrong = hist.wrong
      /\ UNCHANGED <<batch, size, pool, status, copies, mailbox>>
  BY <1>1, TakeFacts DEF callerVars
<1>3. \A v \in Workers, c \in Batches, j \in Jobs :
        Doing(v, c, j)' <=> Doing(v, c, j) \/ (v = w /\ c = b /\ j = queue[b])
  BY <1>1, TakeDoing
<1>. SUFFICES ASSUME status = "running", hist.wrong = {}
              PROVE  /\ \A j \in Jobs : queue'[batch] < j /\ j <= size[batch] =>
                          j \in hist.ended \/ \E v \in Workers : Doing(v, batch, j)'
                     /\ queue'[batch] > 0 /\ copies < NumWorkers =>
                          \/ \E i \in DOMAIN mailbox[pool] : mailbox[pool][i] = batch
                          \/ \E v \in Workers : worker'[v].batch = batch
                          \/ \A v \in Crew(pool) : worker'[v].pc = "dead"
  BY <1>2 DEF Attended, At, Crew
<1>4. batch \in Batches /\ queue[batch] \in Int /\ queue'[batch] <= queue[batch] /\ Jobs \subseteq Int
  <2>1. batch \in Batches /\ queue \in [Batches -> 0..NumJobs] /\ Jobs \subseteq Int
    BY <1>0 DEF Kinds, PoolInv, Typed, Jobs
  <2>. QED BY <1>2, <2>1
<1>5. ASSUME NEW j \in Jobs, queue'[batch] < j, j <= size[batch]
      PROVE  j \in hist.ended \/ \E v \in Workers : Doing(v, batch, j)'
  <2>1. CASE queue[batch] < j
    BY <1>0, <1>2, <1>3, <1>4, <1>5, <2>1 DEF Attended
  <2>2. CASE ~(queue[batch] < j)
    <3>1. b = batch /\ j = queue[b]
      BY <1>2, <1>4, <1>5, <2>2
    <3>. QED BY <1>2, <1>3, <1>4, <3>1
  <2>. QED BY <2>1, <2>2
<1>6. queue'[batch] > 0 => queue[batch] > 0
  BY <1>2, <1>4
<1>7. queue[batch] > 0 /\ copies < NumWorkers =>
        \/ \E i \in DOMAIN mailbox[pool] : mailbox[pool][i] = batch
        \/ \E v \in Workers : worker[v].batch = batch
        \/ \A v \in Crew(pool) : At(v, "dead")
  BY <1>0 DEF Attended
<1>8. (\A v \in Crew(pool) : At(v, "dead")) => \A v \in Crew(pool) : worker'[v].pc = "dead"
  BY <1>2 DEF Crew, At
<1>. QED BY <1>2, <1>5, <1>6, <1>7, <1>8

\* The last thread of a pool empties its mailbox, and then all of them are dead.
LEMMA EndAttended ==
  ASSUME PoolInv, AccountInv, CauseInv, NEW w \in Workers,
         JobDone(w) \/ JobFails(w) \/ JobPanics(w)
  PROVE  Attended'
<1>0. Kinds /\ CrewInv /\ Attended /\ mailbox \in [Pools -> Seq(Batches)]
  BY DEF AccountInv, CauseInv, PoolInv, Typed
<1>1. PICK b, j : b = worker[w].batch /\ j = worker[w].job
  OBVIOUS
<1>2. /\ b \in Batches /\ j \in Jobs /\ worker[w].pc = "work"
      /\ \A v \in Workers : v # w => worker'[v] = worker[v]
      /\ \/ worker'[w].pc = "pull" /\ worker'[w].batch = b
         \/ worker'[w].pc = "dead" /\ worker'[w].batch = None
      /\ UNCHANGED <<batch, size, pool, status, copies, queue>>
      /\ b # batch => UNCHANGED hist
      /\ b = batch => \/ hist'.ended = hist.ended \cup {j} /\ hist'.wrong = hist.wrong
                      \/ hist'.wrong = hist.wrong \cup {j}
  BY <1>0, <1>1, EndFacts DEF callerVars
<1>3. \A v \in Workers, c \in Batches, i \in Jobs :
        Doing(v, c, i)' <=> Doing(v, c, i) /\ v # w
  BY <1>0, <1>1, EndDoing
<1>. SUFFICES ASSUME status = "running", hist'.wrong = {}
              PROVE  /\ \A i \in Jobs : queue[batch] < i /\ i <= size[batch] =>
                          i \in hist'.ended \/ \E v \in Workers : Doing(v, batch, i)'
                     /\ queue[batch] > 0 /\ copies < NumWorkers =>
                          \/ \E i \in DOMAIN mailbox'[pool] : mailbox'[pool][i] = batch
                          \/ \E v \in Workers : worker'[v].batch = batch
                          \/ \A v \in Crew(pool) : worker'[v].pc = "dead"
  BY <1>2 DEF Attended, At, Crew
<1>4. /\ batch \in Batches /\ pool \in Pools /\ hist.wrong = {}
      /\ b = batch => hist'.ended = hist.ended \cup {j}
  BY <1>0, <1>2 DEF Kinds, CrewInv
<1>5. ASSUME NEW i \in Jobs, queue[batch] < i, i <= size[batch]
      PROVE  i \in hist'.ended \/ \E v \in Workers : Doing(v, batch, i)'
  <2>1. i \in hist.ended \/ \E v \in Workers : Doing(v, batch, i)
    BY <1>0, <1>4, <1>5 DEF Attended
  <2>2. CASE i \in hist.ended
    BY <1>2, <1>4, <2>2
  <2>3. ASSUME NEW v \in Workers, Doing(v, batch, i)
        PROVE  i \in hist'.ended \/ Doing(v, batch, i)'
    <3>1. CASE v # w
      BY <1>2, <1>3, <1>4, <2>3, <3>1
    <3>2. CASE v = w
      <4>1. b = batch /\ j = i
        BY <1>1, <2>3, <3>2 DEF Doing
      <4>. QED BY <1>4, <4>1
    <3>. QED BY <3>1, <3>2
  <2>. QED BY <2>1, <2>2, <2>3
<1>6. \/ mailbox' = mailbox
      \/ /\ worker'[w].pc = "dead" /\ mailbox' = [mailbox EXCEPT ![w[1]] = <<>>]
         /\ \A v \in Crew(w[1]) \ {w} : worker[v].pc \in {"exited", "dead"}
  <2>1. JobDone(w) \/ JobFails(w) => mailbox' = mailbox
    BY DEF JobDone, JobFails, Report
  <2>2. JobPanics(w) => worker'[w].pc = "dead"
    BY DEF JobPanics, Free, PoolInv, Typed
  <2>. QED BY <2>1, <2>2 DEF JobPanics
<1>7. CASE mailbox'[pool] = mailbox[pool]
  <2>1. ASSUME NEW v \in Workers, worker[v].batch = batch PROVE worker'[v].batch = batch
    <3>1. CASE v # w
      BY <1>2, <2>1, <3>1
    <3>2. CASE v = w
      <4>1. b = batch
        BY <1>1, <2>1, <3>2
      <4>2. CASE JobPanics(w)
        BY <1>1, <1>4, <4>1, <4>2 DEF JobPanics, PoolInv, Typed, Hist
      <4>3. CASE JobDone(w) \/ JobFails(w)
        BY <1>1, <3>2, <4>1, <4>3 DEF JobDone, JobFails, Report, PoolInv, Typed, Thread
      <4>. QED BY <4>2, <4>3
    <3>. QED BY <3>1, <3>2
  <2>2. (\A v \in Crew(pool) : At(v, "dead")) => \A v \in Crew(pool) : worker'[v].pc = "dead"
    BY <1>2 DEF Crew, At
  <2>3. queue[batch] > 0 /\ copies < NumWorkers =>
          \/ \E i \in DOMAIN mailbox[pool] : mailbox[pool][i] = batch
          \/ \E v \in Workers : worker[v].batch = batch
          \/ \A v \in Crew(pool) : At(v, "dead")
    BY <1>0, <1>4 DEF Attended
  <2>. QED BY <1>5, <1>7, <2>1, <2>2, <2>3
<1>8. CASE mailbox'[pool] # mailbox[pool]
  <2>1. /\ w[1] = pool /\ worker'[w].pc = "dead"
        /\ \A v \in Crew(pool) \ {w} : worker[v].pc \in {"exited", "dead"}
    BY <1>0, <1>4, <1>6, <1>8
  <2>2. \A v \in Crew(pool) : worker[v].pc # "exited"
    BY <1>0, <1>4 DEF CrewInv, Pools, None
  <2>3. \A v \in Crew(pool) : worker'[v].pc = "dead"
    BY <1>2, <2>1, <2>2 DEF Crew
  <2>. QED BY <1>5, <2>3
<1>. QED BY <1>7, <1>8

LEMMA CallerAttended ==
  ASSUME PoolInv, AccountInv, CauseInv, Serve \/ Drop PROVE Attended'
<1>0. /\ Kinds /\ CrewInv /\ Attended /\ UNCHANGED <<batch, size, worker, queue, hist>>
      /\ mailbox \in [Pools -> Seq(Batches)] /\ (mailbox' = mailbox \/ Broadcast)
  BY CallerFacts DEF AccountInv, CauseInv, PoolInv, Typed
<1>1. CASE Broadcast
  <2>1. UNCHANGED <<pool, status>> /\ status = "running" /\ batch \in Batches
    BY <1>0, <1>1 DEF Broadcast, Kinds
  <2>2. pool \in Pools
    BY <1>0, <2>1 DEF CrewInv
  <2>3. CASE Listening(pool)
    <3>1. mailbox'[pool] = Append(mailbox[pool], batch)
      BY <1>0, <1>1, <2>2, <2>3 DEF Broadcast
    <3>2. mailbox[pool] \in Seq(Batches)
      BY <1>0, <2>2
    <3>3. \E i \in DOMAIN mailbox'[pool] : mailbox'[pool][i] = batch
      BY <3>1, <3>2, AppendFacts
    <3>. QED BY <1>0, <2>1, <3>3 DEF Attended, Doing
  <2>4. CASE ~Listening(pool)
    <3>1. \A w \in Crew(pool) : worker[w].pc \notin {"unborn", "exited"}
      BY <1>0, <2>2 DEF CrewInv, Pools, None
    <3>2. \A w \in Crew(pool) : At(w, "dead")
      BY <2>4, <3>1 DEF Listening, At
    <3>. QED BY <1>0, <2>1, <3>2 DEF Attended, Doing, Crew, At
  <2>. QED BY <2>3, <2>4
<1>2. CASE Broadcasted
  <2>1. UNCHANGED <<pool, status, mailbox, copies>>
    BY <1>2 DEF Broadcasted
  <2>. QED BY <1>0, <2>1 DEF Attended, Doing, Crew, At
<1>3. CASE \/ Collect \/ Tick \/ Timeout \/ Disconnected \/ Complete \/ Drop
  <2>1. mailbox' = mailbox /\ (status' = "running" => UNCHANGED <<pool, status, copies>>)
    BY <1>0, <1>3 DEF Collect, Tick, Timeout, Disconnected, Complete, Drop, CallerOnly, Return, Kinds
  <2>. QED BY <1>0, <2>1 DEF Attended, Doing, Crew, At
<1>. QED BY <1>1, <1>2, <1>3 DEF Serve

LEMMA AttendedStep ==
  PoolInv /\ AccountInv /\ CauseInv /\ [Next]_vars => Attended'
<1>. SUFFICES ASSUME PoolInv, AccountInv, CauseInv, [Next]_vars PROVE Attended'
  OBVIOUS
<1>1. CASE Submit
  <2>1. /\ batch' \in Batches /\ size'[batch'] \in 0..NumJobs
        /\ queue' = [queue EXCEPT ![batch'] = size'[batch']]
        /\ copies' = NumWorkers \/ status' = "ok"
    BY <1>1, SubmitFacts DEF AccountInv
  <2>2. queue'[batch'] = size'[batch'] /\ size'[batch'] \in Int /\ Jobs \subseteq Int
    BY <2>1 DEF PoolInv, Typed, Jobs
  <2>3. ~(NumWorkers < NumWorkers)
    BY PoolAssumption
  <2>4. \A j \in Jobs : ~(queue'[batch'] < j /\ j <= size'[batch'])
    BY <2>2
  <2>5. CASE status' = "ok"
    BY <2>5 DEF Attended
  <2>6. CASE copies' = NumWorkers
    BY <2>3, <2>4, <2>6 DEF Attended
  <2>. QED BY <2>1, <2>5, <2>6
<1>2. CASE Serve \/ Drop
  BY <1>2, CallerAttended
<1>3. ASSUME NEW w \in Workers, Run(w) PROVE Attended'
  BY <1>3, QuietAttended, TakeAttended, EndAttended DEF Run, Quiet
<1>4. CASE UNCHANGED vars
  BY <1>4 DEF vars, callerVars, CauseInv, Attended, Doing, Crew, At
<1>. QED BY <1>1, <1>2, <1>3, <1>4 DEF Next, Done

LEMMA CausedStep ==
  PoolInv /\ AccountInv /\ OutcomeInv /\ CauseInv /\ [Next]_vars => ErrorHasCause'
<1>. SUFFICES ASSUME PoolInv, AccountInv, OutcomeInv, CauseInv, [Next]_vars, status' = "error"
              PROVE  ErrorHasCause'
  BY DEF ErrorHasCause
<1>0. Kinds /\ (status = "error" => hist.wrong # {} \/ \A w \in Crew(pools) : At(w, "dead"))
  BY DEF AccountInv, CauseInv, ErrorHasCause
<1>1. CASE Submit
  BY <1>0, <1>1, SubmitFacts
<1>2. CASE Collect
  <2>1. CASE Head(results).ok
    BY <1>0, <1>2, <2>1 DEF Collect, Waiting, Kinds
  <2>2. CASE ~Head(results).ok
    <3>1. results \in Seq(Outcome) /\ results # <<>> /\ status = "running" /\ hist' = hist
      BY <1>0, <1>2 DEF Collect, CallerOnly, Waiting, Kinds
    <3>2. 1 \in DOMAIN results /\ ~results[1].ok
      BY <2>2, <3>1, TailFacts
    <3>. QED BY <3>1, <3>2 DEF OutcomeInv, Delivered, ErrorHasCause
  <2>. QED BY <2>1, <2>2
<1>3. CASE Disconnected
  BY <1>3, DisconnectedHasCause
<1>4. CASE Broadcast \/ Broadcasted \/ Tick \/ Timeout \/ Complete \/ Drop
  <2>1. status = "error" /\ UNCHANGED <<pools, worker, hist>>
    BY <1>4 DEF Broadcast, Broadcasted, Tick, Timeout, Complete, Drop, Return, CallerOnly
  <2>. QED BY <1>0, <2>1 DEF ErrorHasCause, Crew, At
<1>5. ASSUME NEW w \in Workers, Run(w) PROVE ErrorHasCause'
  <2>1. /\ UNCHANGED <<status, pools>> /\ worker[w].pc # "dead"
        /\ \A v \in Workers : v # w => worker'[v] = worker[v]
        /\ hist'.wrong = {} => hist.wrong = {}
    <3>1. CASE Quiet(w)
      BY <3>1, QuietFacts DEF callerVars
    <3>2. CASE TakeJob(w)
      BY <3>2, TakeFacts DEF callerVars
    <3>3. CASE JobDone(w) \/ JobFails(w) \/ JobPanics(w)
      <4>1. UNCHANGED callerVars /\ worker[w].pc # "dead"
            /\ \A v \in Workers : v # w => worker'[v] = worker[v]
        BY <1>0, <3>3, EndFacts
      <4>2. hist'.wrong = {} => hist.wrong = {}
        BY <1>0, <3>3, EndFacts
      <4>. QED BY <4>1, <4>2 DEF callerVars
    <3>. QED BY <1>5, <3>1, <3>2, <3>3 DEF Run, Quiet
  <2>2. CASE hist.wrong # {}
    BY <2>1, <2>2 DEF ErrorHasCause
  <2>3. CASE \A v \in Crew(pools) : At(v, "dead")
    <3>1. \A v \in Crew(pools) : worker'[v].pc = "dead"
      BY <2>1, <2>3 DEF Crew, At
    <3>. QED BY <2>1, <3>1 DEF ErrorHasCause, Crew, At
  <2>. QED BY <1>0, <2>1, <2>2, <2>3
<1>6. CASE UNCHANGED vars
  BY <1>0, <1>6 DEF vars, callerVars, ErrorHasCause, Crew, At
<1>. QED BY <1>1, <1>2, <1>3, <1>4, <1>5, <1>6 DEF Next, Serve, Done

\* run_batch_with_timeout reports an error only if a job of the batch failed or took its
\* thread with it, or if no thread of the pool was left: a sender is never missed.
THEOREM ErrorsHaveCauses == Spec => []ErrorHasCause
<1>1. PoolInv /\ AccountInv /\ OutcomeInv /\ CauseInv /\ [Next]_vars => CauseInv'
  BY CrewStep, AttendedStep, CausedStep DEF AccountInv, CauseInv
<1>2. CauseInv => ErrorHasCause
  BY DEF CauseInv
<1>. QED BY <1>1, <1>2, InitPoolInv, PoolInvStep, AccountInit, AccountStep, OutcomeInit, OutcomeStep,
            CauseInit, PTL DEF Spec

-----------------------------------------------------------------------------
(* The wait *)

\* The caller has waited one deadline for each outcome and less than one for the next.
WaitInv ==
  /\ idle \in Nat /\ elapsed \in Nat
  /\ caller # "collecting" => idle = 0 /\ elapsed = 0
  /\ caller = "collecting" /\ Deadline # NoDeadline =>
       /\ Len(out) = size[batch] => idle = 0
       /\ idle <= Deadline /\ elapsed <= Deadline * Len(out) + idle

\* One more outcome pays for one more deadline.
LEMMA Deadlines ==
  ASSUME NEW d \in Nat, NEW m \in Nat, NEW n \in Nat, m <= n
  PROVE  d * m <= d * n /\ d * (m + 1) = d * m + d /\ d * m \in Nat /\ d * n \in Nat
<1>1. PICK k \in Nat : n = m + k
  <2>1. n - m \in Nat /\ n = m + (n - m)
    OBVIOUS
  <2>. QED BY <2>1
<1>2. d * n = d * m + d * k /\ d * k \in Nat /\ d * m \in Nat
  BY <1>1
<1>. QED BY <1>2

LEMMA WaitStep == PoolInv /\ Kinds /\ Delivered /\ WaitInv /\ [Next]_vars => WaitInv'
<1>. SUFFICES ASSUME PoolInv, Kinds, Delivered, WaitInv, [Next]_vars PROVE WaitInv'
  OBVIOUS
<1>0. ASSUME status = "running"
      PROVE  /\ batch \in Batches /\ out \in Seq(Jobs) /\ Len(out) \in Nat /\ size[batch] \in Nat
             /\ Len(out) <= size[batch]
  BY <1>0 DEF Kinds, Delivered
<1>1. CASE Submit
  <2>1. caller = "idle" /\ caller' # "collecting" /\ UNCHANGED <<idle, elapsed>>
    BY <1>1, SubmitFacts
  <2>. QED BY <2>1 DEF WaitInv
<1>2. CASE Broadcasted
  <2>1. /\ caller = "sending" /\ status = "running" /\ UNCHANGED <<idle, elapsed, out, size, batch>>
    BY <1>2 DEF Broadcasted, Kinds
  <2>2. idle = 0 /\ elapsed = 0
    BY <2>1 DEF WaitInv
  <2>3. Deadline # NoDeadline => Deadline \in Nat /\ Deadline * Len(out) \in Nat
    BY <1>0, <2>1, PoolAssumption, Deadlines
  <2>. QED BY <2>1, <2>2, <2>3 DEF WaitInv
<1>3. CASE Collect
  <2>1. /\ caller = "collecting" /\ status = "running" /\ UNCHANGED <<batch, size>>
        /\ Len(out) < size[batch]
    BY <1>3 DEF Collect, CallerOnly, Waiting, Kinds
  <2>2. CASE ~Head(results).ok
    BY <1>3, <2>2 DEF Collect, Return, WaitInv
  <2>3. CASE Head(results).ok
    <3>1. out' = Append(out, Head(results).job) /\ idle' = 0 /\ UNCHANGED <<caller, elapsed>>
      BY <1>3, <2>3 DEF Collect
    <3>2. Len(out') = Len(out) + 1
      BY <1>0, <2>1, <3>1
    <3>3. ASSUME Deadline # NoDeadline PROVE elapsed <= Deadline * Len(out')
      <4>1. idle <= Deadline /\ elapsed <= Deadline * Len(out) + idle /\ idle \in Nat /\ elapsed \in Nat
        BY <2>1, <3>3 DEF WaitInv
      <4>2. Deadline \in Nat /\ Deadline * (Len(out) + 1) = Deadline * Len(out) + Deadline
            /\ Deadline * Len(out) \in Nat
        BY <1>0, <2>1, <3>3, PoolAssumption, Deadlines
      <4>. QED BY <3>2, <4>1, <4>2
    <3>4. Deadline # NoDeadline => Deadline \in Nat /\ Deadline * Len(out') \in Nat
      BY <1>0, <2>1, <3>2, PoolAssumption
    <3>. QED BY <2>1, <3>1, <3>3, <3>4 DEF WaitInv
  <2>. QED BY <2>2, <2>3
<1>4. CASE Tick
  <2>1. /\ caller = "collecting" /\ status = "running" /\ UNCHANGED <<caller, batch, size, out>>
        /\ Len(out) < size[batch] /\ Deadline # NoDeadline /\ idle < Deadline
        /\ idle' = idle + 1 /\ elapsed' = elapsed + 1
    BY <1>4 DEF Tick, CallerOnly, Waiting, Kinds
  <2>2. Deadline \in Nat /\ Deadline * Len(out) \in Nat /\ Len(out) \in Nat /\ size[batch] \in Nat
    BY <1>0, <2>1, PoolAssumption, Deadlines
  <2>3. idle \in Nat /\ elapsed \in Nat /\ elapsed <= Deadline * Len(out) + idle
    BY <2>1 DEF WaitInv
  <2>. QED BY <2>1, <2>2, <2>3 DEF WaitInv
<1>5. CASE Timeout \/ Disconnected \/ Complete
  BY <1>5 DEF Timeout, Disconnected, Complete, Return, WaitInv
<1>6. CASE Broadcast \/ Drop
  <2>1. UNCHANGED <<caller, idle, elapsed>> /\ caller # "collecting"
    BY <1>6 DEF Broadcast, Drop
  <2>. QED BY <2>1 DEF WaitInv
<1>7. ASSUME NEW w \in Workers, Run(w) PROVE WaitInv'
  <2>1. UNCHANGED callerVars
    BY <1>7 DEF Run, Lock, Receive, Exit, TakeJob, Drained, JobDone, JobFails, Report,
                JobPanics, JobHangs, WorkerOnly
  <2>. QED BY <2>1 DEF callerVars, WaitInv
<1>8. CASE UNCHANGED vars
  BY <1>8 DEF vars, callerVars, WaitInv
<1>. QED BY <1>1, <1>2, <1>3, <1>4, <1>5, <1>6, <1>7, <1>8 DEF Next, Serve, Done

\* run_batch_with_timeout: however the outcomes trickle in, the caller waits no longer than
\* one deadline for each job.
THEOREM WaitBounded == Spec => []WaitIsBounded
<1>1. Init => WaitInv
  BY DEF Init, WaitInv
<1>2. PoolInv /\ AccountInv /\ OutcomeInv /\ WaitInv => WaitIsBounded
  <2>. SUFFICES ASSUME PoolInv, Kinds, Delivered, WaitInv, Deadline # NoDeadline
                PROVE  elapsed <= Deadline * size[IF batch = 0 THEN 1 ELSE batch]
    BY DEF AccountInv, OutcomeInv, WaitIsBounded
  <2>. DEFINE n == size[IF batch = 0 THEN 1 ELSE batch]
  <2>. SUFFICES elapsed <= Deadline * n
    OBVIOUS
  <2>1. n \in Nat /\ Deadline \in Nat
    <3>1. (IF batch = 0 THEN 1 ELSE batch) \in Batches
      BY PoolAssumption DEF PoolInv, Typed, Batches
    <3>. QED BY <3>1, PoolAssumption DEF Kinds
  <2>2. CASE caller # "collecting"
    <3>1. elapsed = 0
      BY <2>2 DEF WaitInv
    <3>2. Deadline * n \in Nat
      BY <2>1
    <3>. QED BY <3>1, <3>2
  <2>3. CASE caller = "collecting"
    <3>1. batch \in Batches /\ Len(out) \in Nat /\ Len(out) <= size[batch] /\ status = "running"
      BY <2>3 DEF Kinds, Delivered
    <3>2. n = size[batch]
      BY <3>1 DEF Batches
    <3>. HIDE DEF n
    <3>3. /\ Len(out) = n => idle = 0
          /\ idle <= Deadline /\ elapsed <= Deadline * Len(out) + idle
          /\ idle \in Nat /\ elapsed \in Nat
      BY <2>3, <3>2 DEF WaitInv
    <3>4. CASE Len(out) = n
      BY <2>1, <3>3, <3>4
    <3>5. CASE Len(out) + 1 <= n
      <4>1. Deadline * (Len(out) + 1) <= Deadline * n /\ Deadline * n \in Nat
            /\ Deadline * (Len(out) + 1) \in Nat
        BY <2>1, <3>1, <3>5, Deadlines
      <4>2. Deadline * (Len(out) + 1) = Deadline * Len(out) + Deadline /\ Deadline * Len(out) \in Nat
        BY <2>1, <3>1, <3>2, Deadlines
      <4>. QED BY <2>1, <3>3, <4>1, <4>2
    <3>. QED BY <2>1, <3>1, <3>2, <3>4, <3>5
  <2>. QED BY <2>2, <2>3
<1>3. PoolInv /\ AccountInv /\ OutcomeInv /\ WaitInv /\ [Next]_vars => WaitInv'
  BY WaitStep DEF AccountInv, OutcomeInv
<1>. QED BY <1>1, <1>2, <1>3, InitPoolInv, PoolInvStep, AccountInit, AccountStep, OutcomeInit,
            OutcomeStep, PTL DEF Spec

-----------------------------------------------------------------------------
(* The batch service *)

\* The end of a job is an end of a job, or nobody waits for it any more.
LEMMA EndService ==
  ASSUME PoolInv, AccountInv, OutcomeInv, NEW w \in Workers,
         JobDone(w) \/ JobFails(w) \/ JobPanics(w)
  PROVE  [Service!Next]_(Service!vars)
<1>0. Kinds /\ Taken /\ Finished
  BY DEF AccountInv, OutcomeInv
<1>1. PICK b, j : b = worker[w].batch /\ j = worker[w].job
  OBVIOUS
<1>2. /\ b \in Batches /\ j \in Jobs /\ UNCHANGED <<status, batch, size, out>>
      /\ b # batch => hist'.ended = hist.ended
      /\ hist'.ended # hist.ended => hist'.ended = hist.ended \cup {j}
  BY <1>0, <1>1, EndFacts DEF callerVars
<1>3. Doing(w, b, j)
  BY <1>0, <1>1, EndDoing
<1>4. CASE hist'.ended = hist.ended \/ status \notin {"running", "ok"}
  BY <1>2, <1>4 DEF Service!vars
<1>5. CASE hist'.ended # hist.ended /\ status \in {"running", "ok"}
  <2>1. /\ b = batch /\ batch \in Batches /\ hist'.ended = hist.ended \cup {j}
        /\ size[batch] \in Nat
    BY <1>0, <1>2, <1>5 DEF Kinds
  <2>2. j \in (1..size[batch]) \ hist.ended
    BY <1>0, <1>2, <1>3, <2>1 DEF Taken, Jobs
  <2>3. status = "running"
    BY <1>0, <1>5, <2>2 DEF Finished
  <2>4. batch # 0
    BY <2>1 DEF Batches
  <2>5. Service!JobEnds
    BY <1>2, <2>1, <2>2, <2>3, <2>4 DEF Service!JobEnds
  <2>. QED BY <2>5 DEF Service!Next
<1>. QED BY <1>4, <1>5

\* The caller submits and answers; its other steps are not seen.
LEMMA CallerService ==
  ASSUME PoolInv, AccountInv, OutcomeInv, Submit \/ Serve \/ Drop
  PROVE  [Service!Next]_(Service!vars)
<1>0. Kinds /\ Delivered
  BY DEF AccountInv, OutcomeInv
<1>1. CASE Submit
  <2>1. /\ status # "running" /\ batch' \in Batches /\ size'[batch'] \in 0..NumJobs
        /\ hist'.ended = {} /\ out' = <<>>
        /\ status' = IF size'[batch'] = 0 THEN "ok" ELSE "running"
    BY <1>0, <1>1, SubmitFacts
  <2>2. batch' # 0
    BY <2>1 DEF Batches
  <2>3. Service!Submit
    BY <2>1, <2>2 DEF Service!Submit
  <2>. QED BY <2>3 DEF Service!Next
<1>2. CASE Complete
  <2>1. /\ status = "running" /\ Len(out) = size[batch] /\ status' = "ok"
        /\ out' = Collected /\ UNCHANGED <<batch, size, hist>>
    BY <1>0, <1>2 DEF Complete, Return, CallerOnly, Kinds
  <2>2. {out[i] : i \in DOMAIN out} = 1..size[batch] /\ hist.ended = 1..size[batch]
    BY <2>1, AllCollected DEF OutcomeInv
  <2>3. size[batch] \in Nat /\ batch # 0
    BY <1>0, <2>1 DEF Kinds, Batches
  <2>4. out' = [i \in 1..size[batch] |-> i]
    BY <2>1, <2>2, <2>3, AscendingRange DEF Collected
  <2>5. Service!Complete
    BY <2>1, <2>2, <2>3, <2>4 DEF Service!Complete, Service!InOrder
  <2>. QED BY <2>5 DEF Service!Next, Service!Answer
<1>3. CASE Timeout \/ Disconnected \/ (Collect /\ ~Head(results).ok)
  <2>1. /\ status = "running" /\ UNCHANGED <<batch, size>>
        /\ \/ status' = "error"
           \/ status' = "timeout" /\ Deadline # NoDeadline
    BY <1>0, <1>3 DEF Timeout, Disconnected, Collect, Return, CallerOnly, Waiting, Kinds
  <2>2. Service!GiveUp
    BY <2>1 DEF Service!GiveUp
  <2>. QED BY <2>2 DEF Service!Next, Service!Answer
<1>4. CASE Broadcast \/ Broadcasted \/ Tick \/ Drop \/ (Collect /\ Head(results).ok)
  <2>1. /\ UNCHANGED <<status, batch, size, hist>>
        /\ out' = out \/ status # "ok"
    BY <1>0, <1>4 DEF Broadcast, Broadcasted, Tick, Drop, Collect, CallerOnly, Waiting, Kinds
  <2>. QED BY <2>1 DEF Service!vars
<1>. QED BY <1>1, <1>2, <1>3, <1>4 DEF Serve

\* run_batch_with_timeout: whatever threads, queues and channels do, from outside batches
\* are submitted, jobs end and each batch is answered once -- the safety part of
\* ImplementsBatch.
THEOREM RefinesBatch == Spec => Service!Init /\ [][Service!Next]_(Service!vars)
<1>1. Init => Service!Init
  BY DEF Init, Service!Init
<1>2. PoolInv /\ AccountInv /\ OutcomeInv /\ [Next]_vars => [Service!Next]_(Service!vars)
  <2>. SUFFICES ASSUME PoolInv, AccountInv, OutcomeInv, [Next]_vars
                PROVE  [Service!Next]_(Service!vars)
    OBVIOUS
  <2>1. ASSUME NEW w \in Workers, Quiet(w) \/ TakeJob(w) PROVE [Service!Next]_(Service!vars)
    <3>1. UNCHANGED callerVars /\ hist'.ended = hist.ended
      BY <2>1, QuietFacts, TakeFacts
    <3>. QED BY <3>1 DEF callerVars, Service!vars
  <2>2. CASE UNCHANGED vars
    BY <2>2 DEF vars, callerVars, Service!vars
  <2>. QED BY <2>1, <2>2, EndService, CallerService DEF Next, Done, Run, Quiet
<1>. QED BY <1>1, <1>2, InitPoolInv, PoolInvStep, AccountInit, AccountStep, OutcomeInit, OutcomeStep,
            PTL DEF Spec
=============================================================================

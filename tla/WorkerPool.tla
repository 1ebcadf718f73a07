------------------------------ MODULE WorkerPool ------------------------------
(***************************************************************************)
(* The thread pool on which parallel EXEC runs a super-step's agents       *)
(* (src/pregel/worker_pool.rs), as MirPregelEngine::execute_step uses it.  *)
(*                                                                         *)
(* Workers share one Receiver behind a mutex and hold that mutex while     *)
(* they wait.  run_batch_with_timeout sends one copy of the batch per      *)
(* worker, all copies sharing one job queue, and collects outcomes from a  *)
(* channel of the batch's own.  A pool is dropped without joining, so the  *)
(* workers of an old pool may still be inside a job while a new pool runs  *)
(* the retry.                                                              *)
(*                                                                         *)
(* Threads are identified by <<pool, number>>, batches and pools are       *)
(* numbered in creation order, jobs by their index in dispatch order.      *)
(***************************************************************************)
EXTENDS Integers, Sequences, FiniteSets, Ranking

CONSTANTS
  NumWorkers,        \* num_workers (the engine's parallelism)
  NumJobs,           \* bound on the jobs of a batch
  MaxBatches,        \* bound on the batches (and so on the pools)
  Deadline,          \* the timeout in ticks, NoDeadline for None
  MayFail, MayPanic, MayHang  \* what jobs do besides succeeding

NoDeadline == -1
Batches == 1..MaxBatches
Pools == 1..MaxBatches
Workers == Pools \X (1..NumWorkers)
Jobs == 1..NumJobs
None == 0
Nobody == <<0, 0>>

ASSUME PoolAssumption ==
  /\ NumWorkers \in Nat \ {0} /\ NumJobs \in Nat \ {0} /\ MaxBatches \in Nat \ {0}
  /\ Deadline \in Nat \cup {NoDeadline}
  /\ {MayFail, MayPanic, MayHang} \subseteq BOOLEAN

VARIABLES
  caller,    \* "idle" "sending" "collecting": where run_batch_with_timeout is
  batch,     \* number of the last batch submitted
  status,    \* its result: "none" "running" "ok" "error" "timeout"
  size,      \* size[b]: jobs of batch b
  copies,    \* copies of the batch still to be sent
  pool,      \* the caller's WorkerPool, None without
  pools,     \* pools created so far
  mailbox,   \* mailbox[p]: the BatchMsg channel of a pool
  rx,        \* rx[p]: the worker that holds the Receiver's mutex, or Nobody
  worker,    \* worker[w]: its place in the loop, its batch and its job
  queue,     \* queue[b]: how many jobs nobody has taken; they are 1..queue[b]
  results,   \* the result channel of the batch being collected
  out,       \* outcomes
  idle, elapsed, \* ticks since the last outcome, and since the batch began
  hist       \* history: jobs started; of the last batch, those that ended and
             \* those that went wrong

callerVars == <<caller, batch, status, size, copies, pool, pools, out, idle, elapsed>>
vars == <<callerVars, mailbox, rx, worker, queue, results, hist>>

-----------------------------------------------------------------------------
(* Helpers *)

At(w, pc) == worker[w].pc = pc
Crew(p) == {w \in Workers : w[1] = p}
\* A thread whose loop was left has dropped its share of the Receiver.
Listening(p) == \E w \in Crew(p) : worker[w].pc \notin {"unborn", "exited", "dead"}
Free(pc) == [pc |-> pc, batch |-> None, job |-> None]

\* Who holds a sender of the result channel of batch b: the caller (as Nobody) until
\* it has sent all copies, the copies in a mailbox, and the workers on the batch.
Copied(b) == {<<p, 0>> : p \in {q \in Pools : \E i \in DOMAIN mailbox[q] : mailbox[q][i] = b}}
\* Slips: the caller keeps its sender, or a worker lends its own to the job.
SendersWithCaller(b) == {Nobody} \cup Copied(b) \cup {w \in Workers : worker[w].batch = b}
SendersLent(b) == Copied(b) \cup {w \in Workers : worker[w].batch = b /\ ~At(w, "work")}
Senders(b) ==
  (IF caller = "sending" THEN {Nobody} ELSE {}) \cup Copied(b) \cup
  {w \in Workers : worker[w].batch = b}

HistInit == [started |-> [b \in Batches |-> [j \in Jobs |-> 0]],
             ended |-> {}, wrong |-> {}]

Init ==
  /\ caller = "idle" /\ batch = 0 /\ status = "none" /\ size = [b \in Batches |-> 0]
  /\ copies = 0 /\ pool = None /\ pools = 0
  /\ mailbox = [p \in Pools |-> <<>>] /\ rx = [p \in Pools |-> Nobody]
  /\ worker = [w \in Workers |-> Free("unborn")]
  /\ queue = [b \in Batches |-> 0] /\ results = <<>> /\ out = <<>>
  /\ idle = 0 /\ elapsed = 0 /\ hist = HistInit

-----------------------------------------------------------------------------
(* The caller: new, run_batch_with_timeout, drop *)

\* The engine makes a pool if it has none; a batch without jobs is answered at once.
Submit ==
  /\ caller = "idle" /\ batch < MaxBatches
  /\ IF pool # None THEN UNCHANGED <<pool, pools, worker>>
     ELSE /\ pools' = pools + 1 /\ pool' = pools'
          /\ worker' = [w \in Workers |-> IF w[1] = pools' THEN Free("lock") ELSE worker[w]]
  /\ batch' = batch + 1 /\ out' = <<>> /\ results' = <<>>
  /\ hist' = [hist EXCEPT !.ended = {}, !.wrong = {}]
  /\ \E n \in 0..NumJobs :
       /\ size' = [size EXCEPT ![batch'] = n]
       /\ queue' = [queue EXCEPT ![batch'] = n]
       /\ IF n = 0 THEN status' = "ok" /\ copies' = 0 /\ UNCHANGED caller
                   ELSE status' = "running" /\ copies' = NumWorkers /\ caller' = "sending"
  /\ UNCHANGED <<idle, elapsed, mailbox, rx>>

\* One copy of the batch; nobody to receive it any more is only a warning.
Broadcast ==
  /\ caller = "sending" /\ copies > 0
  /\ copies' = copies - 1
  /\ mailbox' = IF Listening(pool) THEN [mailbox EXCEPT ![pool] = Append(@, batch)]
                                   ELSE mailbox
  /\ UNCHANGED <<caller, batch, status, size, pool, pools, rx, worker, queue, results,
                 out, idle, elapsed, hist>>

\* drop(res_tx)
Broadcasted ==
  /\ caller = "sending" /\ copies = 0 /\ caller' = "collecting"
  /\ UNCHANGED <<batch, status, size, copies, pool, pools, mailbox, rx, worker, queue,
                 results, out, idle, elapsed, hist>>

Waiting == caller = "collecting" /\ Len(out) < size[batch]
CallerOnly == UNCHANGED <<batch, size, copies, pools, mailbox, rx, worker, queue, hist>>
Return(how, with) ==
  /\ status' = how /\ caller' = "idle" /\ out' = with
  /\ results' = <<>> /\ idle' = 0 /\ elapsed' = 0
\* The outcomes so far, sorted by index.
Collected == Ascending({out[i] : i \in DOMAIN out})

\* The next outcome; the first failed job ends the collection.
Collect ==
  /\ Waiting /\ results # <<>>
  /\ IF Head(results).ok
       THEN out' = Append(out, Head(results).job) /\ results' = Tail(results)
            /\ idle' = 0 /\ UNCHANGED <<caller, status, elapsed>>
       ELSE Return("error", <<>>)
  /\ UNCHANGED pool /\ CallerOnly

\* A slip: a timeout is taken for a spurious wake-up.
TimeoutRetried ==
  /\ Waiting /\ results = <<>> /\ Deadline # NoDeadline /\ idle = Deadline
  /\ idle' = 0 /\ elapsed' = elapsed % (4 * Deadline) \* elapsed wraps to stay finite
  /\ UNCHANGED <<caller, status, pool, results, out>> /\ CallerOnly
\* recv_timeout ran out: the answer holds what was collected, and the engine drops
\* the pool.
Timeout ==
  /\ Waiting /\ results = <<>> /\ Deadline # NoDeadline /\ idle = Deadline
  /\ Return("timeout", Collected) /\ pool' = None
  /\ CallerOnly

\* No outcome is left and nobody can send another.
Disconnected ==
  /\ Waiting /\ results = <<>> /\ Senders(batch) = {}
  /\ Return("error", <<>>)
  /\ UNCHANGED pool /\ CallerOnly

\* Every job has reported: the outcomes are sorted by index.
Complete ==
  /\ caller = "collecting" /\ Len(out) = size[batch]
  /\ Return("ok", Collected)
  /\ UNCHANGED pool /\ CallerOnly

\* Time passes while the caller waits; recv_timeout returns when it is up.
Tick ==
  /\ Waiting /\ results = <<>> /\ Deadline # NoDeadline /\ idle < Deadline
  /\ idle' = idle + 1 /\ elapsed' = elapsed + 1
  /\ UNCHANGED <<caller, status, pool, results, out>> /\ CallerOnly

\* The engine discards the pool before a retry and when it is itself dropped; the
\* channel is closed, nobody is joined.
Drop ==
  /\ caller = "idle" /\ pool # None
  /\ pool' = None
  /\ UNCHANGED <<caller, status, results, out, idle, elapsed>> /\ CallerOnly

-----------------------------------------------------------------------------
(* A worker *)

Place(w, pc) == worker' = [worker EXCEPT ![w].pc = pc]
WorkerOnly == UNCHANGED callerVars

Lock(w) ==
  /\ At(w, "lock") /\ rx[w[1]] = Nobody
  /\ rx' = [rx EXCEPT ![w[1]] = w] /\ Place(w, "recv")
  /\ UNCHANGED <<mailbox, queue, results, hist>> /\ WorkerOnly

\* recv returns a copy of a batch, then the guard is dropped.
Receive(w) ==
  /\ At(w, "recv") /\ mailbox[w[1]] # <<>>
  /\ worker' = [worker EXCEPT ![w] = [@ EXCEPT !.pc = "pull", !.batch = Head(mailbox[w[1]])]]
  /\ mailbox' = [mailbox EXCEPT ![w[1]] = Tail(@)]
  /\ rx' = [rx EXCEPT ![w[1]] = Nobody]
  /\ UNCHANGED <<queue, results, hist>> /\ WorkerOnly

\* A slip: the channel of a dropped pool stays open.
OpenForever(p) == TRUE
\* The pool owns the only sender of its BatchMsg channel.
Open(p) == pool = p

\* recv fails: the channel is empty and its sender is gone.
Exit(w) ==
  /\ At(w, "recv") /\ mailbox[w[1]] = <<>> /\ ~Open(w[1])
  /\ worker' = [worker EXCEPT ![w] = Free("exited")]
  /\ rx' = [rx EXCEPT ![w[1]] = Nobody]
  /\ UNCHANGED <<mailbox, queue, results, hist>> /\ WorkerOnly

\* A slip: the job is read under the lock and removed after it was released.
PeekJob(w) ==
  LET b == worker[w].batch IN
  /\ At(w, "pull") /\ queue[b] > 0
  /\ worker' = [worker EXCEPT ![w] = [@ EXCEPT !.pc = "work", !.job = queue[b]]]
  /\ queue' = IF hist.started[b][queue[b]] = 0 THEN queue ELSE [queue EXCEPT ![b] = @ - 1]
  /\ hist' = [hist EXCEPT !.started[b][queue[b]] = @ + 1]
  /\ UNCHANGED <<mailbox, rx, results>> /\ WorkerOnly
\* queue.pop(): the last job of the Vec.
TakeJob(w) ==
  LET b == worker[w].batch IN
  /\ At(w, "pull") /\ queue[b] > 0
  /\ worker' = [worker EXCEPT ![w] = [@ EXCEPT !.pc = "work", !.job = queue[b]]]
  /\ queue' = [queue EXCEPT ![b] = @ - 1]
  /\ hist' = [hist EXCEPT !.started[b][queue[b]] = @ + 1]
  /\ UNCHANGED <<mailbox, rx, results>> /\ WorkerOnly

\* The queue is drained: the copy, and with it the sender, is dropped.
Drained(w) ==
  /\ At(w, "pull") /\ queue[worker[w].batch] = 0
  /\ worker' = [worker EXCEPT ![w] = Free("lock")]
  /\ UNCHANGED <<mailbox, rx, queue, results, hist>> /\ WorkerOnly

\* A slip: the outcome goes to whatever batch is being collected.
HeardByAnyone(b) == status = "running"
\* The channel has a receiver as long as its batch is being collected.
Heard(b) == b = batch /\ status = "running"

Report(w, ok) ==
  LET b == worker[w].batch IN
  /\ worker' = [worker EXCEPT ![w] = [@ EXCEPT !.pc = "pull", !.job = None]]
  /\ results' = IF Heard(b) THEN Append(results, [job |-> worker[w].job, ok |-> ok])
                            ELSE results
  /\ hist' = IF b # batch THEN hist
             ELSE IF ok THEN [hist EXCEPT !.ended = @ \cup {worker[w].job}]
                        ELSE [hist EXCEPT !.wrong = @ \cup {worker[w].job}]
  /\ UNCHANGED <<mailbox, rx, queue>> /\ WorkerOnly

JobDone(w) == At(w, "work") /\ Report(w, TRUE)
JobFails(w) == At(w, "work") /\ MayFail /\ Report(w, FALSE)

\* A panic ends the thread; with the last thread the channel loses its receiver and
\* what was still in it is dropped.
JobPanics(w) ==
  /\ At(w, "work") /\ MayPanic
  /\ worker' = [worker EXCEPT ![w] = Free("dead")]
  /\ hist' = IF worker[w].batch # batch THEN hist
             ELSE [hist EXCEPT !.wrong = @ \cup {worker[w].job}]
  /\ mailbox' = IF \A v \in Crew(w[1]) \ {w} : worker[v].pc \in {"exited", "dead"}
                  THEN [mailbox EXCEPT ![w[1]] = <<>>] ELSE mailbox
  /\ UNCHANGED <<rx, queue, results>> /\ WorkerOnly

\* A job that never returns.
JobHangs(w) ==
  /\ At(w, "work") /\ MayHang
  /\ Place(w, "stuck")
  /\ UNCHANGED <<mailbox, rx, queue, results, hist>> /\ WorkerOnly

Run(w) == \/ Lock(w) \/ Receive(w) \/ Exit(w) \/ TakeJob(w) \/ Drained(w)
          \/ JobDone(w) \/ JobFails(w) \/ JobPanics(w) \/ JobHangs(w)

Serve == \/ Broadcast \/ Broadcasted \/ Collect \/ Timeout \/ Disconnected
         \/ Complete \/ Tick

\* Everything that will ever be submitted was answered.
Done == caller = "idle" /\ batch = MaxBatches /\ UNCHANGED vars

Next == Submit \/ Drop \/ Serve \/ Done \/ \E w \in Workers : Run(w)

\* Threads run, and a job that is not stuck returns.  The mutex need not be fair.
Spec == /\ Init /\ [][Next]_vars
        /\ WF_vars(Serve) /\ \A w \in Workers : WF_vars(Run(w))

-----------------------------------------------------------------------------
(* Properties *)

Places == {"unborn", "lock", "recv", "pull", "work", "stuck", "exited", "dead"}

\* Every variable holds a value of its kind, and only a worker inside the loop over
\* a batch has a batch.
TypeOK ==
  /\ caller \in {"idle", "sending", "collecting"} /\ batch \in 0..MaxBatches
  /\ status \in {"none", "running", "ok", "error", "timeout"}
  /\ size \in [Batches -> 0..NumJobs] /\ copies \in 0..NumWorkers
  /\ pool \in Pools \cup {None} /\ pools \in 0..MaxBatches
  /\ mailbox \in [Pools -> Seq(Batches)]
  /\ rx \in [Pools -> Workers \cup {Nobody}]
  /\ worker \in [Workers -> [pc : Places, batch : Batches \cup {None}, job : Jobs \cup {None}]]
  /\ \A w \in Workers : worker[w].pc \in {"pull", "work", "stuck"} <=> worker[w].batch # None
  /\ queue \in [Batches -> 0..NumJobs] /\ results \in Seq([job : Jobs, ok : BOOLEAN])
  /\ out \in Seq(Jobs) /\ idle \in Nat /\ elapsed \in Nat

\* A job of a batch is started once at most, whichever workers share the queue and
\* however many copies of the batch each of them received.
EachJobOnce == \A b \in Batches, j \in Jobs : hist.started[b][j] <= 1

\* The barrier: a batch answered with "ok" has run every job to its end and nobody
\* is inside one; its outcomes are those of its own jobs in dispatch order, even
\* while the workers of a discarded pool are still reporting.
OkIsABarrier ==
  status = "ok" =>
    /\ hist.ended = 1..size[batch]
    /\ size[batch] > 0 => out = [i \in 1..size[batch] |-> i]
    /\ \A w \in Workers : worker[w].batch = batch => At(w, "pull")

\* An error has a cause: a job of this very batch failed or panicked, or the pool it
\* ran on had lost all its threads to earlier panics.  (Running out of senders is never
\* reported while a job that will report is running.)
ErrorHasCause ==
  status = "error" =>
    hist.wrong # {} \/ \A w \in Crew(pools) : At(w, "dead")

\* The wait is bounded by one deadline per outcome.
WaitIsBounded == Deadline # NoDeadline => elapsed <= Deadline * size[IF batch = 0 THEN 1 ELSE batch]

\* Every batch is answered: jobs that fail, and threads that die with their job,
\* cannot leave the caller waiting; jobs that never return cannot if there is a
\* deadline.
BatchReturns == (status = "running") ~> (caller = "idle")

\* The threads of a dropped pool end, all but those inside a job that never returns.
DroppedPoolEnds ==
  \A p \in Pools :
    (p <= pools /\ pool # p) ~> \A w \in Crew(p) : worker[w].pc \in {"exited", "dead", "stuck"}

\* The pool implements the batch service.
Service ==
  INSTANCE Batch WITH
    HasDeadline <- Deadline # NoDeadline,
    size <- IF batch = 0 THEN 0 ELSE size[batch],
    ended <- IF status \in {"running", "ok"} THEN hist.ended ELSE {},
    out <- IF status = "ok" THEN out ELSE <<>>
ImplementsBatch == Service!Spec

=============================================================================

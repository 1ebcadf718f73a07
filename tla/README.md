# Models and proofs of the Mora runtime

This directory holds TLA+ modules that model the parts of the Mora runtime in
which order, failure and concurrency decide what a program sees, the TLC
configurations that check them on small instances, and proofs, checked by
TLAPS, of what holds for every instance. Paths in this file are relative to the
repository root; `src/...` is the Rust code.

1. [Inventory](#1-inventory)
2. [Modules and how they correspond to the code](#2-modules-and-how-they-correspond-to-the-code)
3. [What the runs check](#3-what-the-runs-check)
4. [Disagreements between code and documentation](#4-disagreements-between-code-and-documentation)
5. [Fairness](#5-fairness)
6. [What is proved](#6-what-is-proved)
7. [What is only model-checked, and what is not modelled](#7-what-is-only-model-checked-and-what-is-not-modelled)
8. [Plan](#8-plan)

## 1. Inventory

A Mora program is compiled in one pass (lexer, parser, MIR, type check,
optimiser) and interpreted, or run by the JIT. The runtime below the
interpreter is where state is shared: the builtins of `src/interpreter/builtins`
and the handlers of `src/mir/handlers` call into the components listed here.

| Component | State it keeps | Operations | Talks to | What makes it correct |
|---|---|---|---|---|
| **Pregel engine** `src/pregel/mod.rs`, started by `src/mir/handlers/runtime.rs` | frontier, votes to halt, mail (pending, delivered), channels with versions, what each node has seen, aggregator, caches of outcomes, the shared environment, an undo record | a loop of PLAN, EXEC (with retries), UPDATE, ADVANCE; automatic checkpoint; resumption | worker pool (a batch of agents), checkpoint saver, user code (bodies, conditions, combiners, reducers, master), environments | a step is atomic however many attempts it took; mail lives one step and reaches whom it was sent to; a run ends; a resumed run goes on where it was |
| **Worker pool** `src/pregel/worker_pool.rs` | threads, one batch channel behind a mutex, a job queue and a result channel per batch | `new`, `run_batch_with_timeout`, the worker loop, drop | Pregel's parallel EXEC | each job once; Ok is a barrier; the caller always gets an answer; threads end |
| **Scheduler** `src/schedule/mod.rs`, `src/interpreter/builtins/schedule.rs` | job table and buckets by due time, each behind its own mutex; a wall clock | `add`, `remove`, `tick`, `save`, `list`, `count` | scripts on several threads | both maps agree; nothing fires early, twice or after it was removed; a tick leaves nothing due |
| **exec.parallel** `src/interpreter/builtins/exec.rs` | a semaphore (atomic counter, mutex, condition variable), a counter of commands taken, a cancel flag, a channel of entries, child processes | the call, its workers, kill after a timeout, grace period, budget of the caller | the operating system | the bound on processes; one entry per command, in order; the call and its threads end; no lost wake-up |
| **Checkpoint store** `src/checkpoint/` | checkpoints by thread and id, in memory or in SQLite | save, load, list, delete; `rewind`, `resume`, retention built of several of these | Pregel, scripts | both savers agree on replacement and order; a rewind leaves nothing it had to delete; a resumption is recent |
| **Event bus** `src/event/mod.rs` | three indexes (exact, prefix, interior wildcards), each behind its own lock | `on`, `off`, `emit` | scripts; handlers may re-enter | `emit` calls exactly the handlers whose pattern matches, once each; `off` undoes `on` |
| **Values and environments** `src/value.rs` | bindings, vector clocks | define, assign, clone, merge with strategies | Pregel (`fold_back`), interpreter | no write lost in silence; conflicts reported |
| **Record / replay** `src/record/` | recorded events, an index by call, mode | record, lookup, save, load | `ai.chat` | a replay answers as the recording did |
| **Audit log** `src/audit/mod.rs` | a hash chain over a buffered file | append, verify, reopen | runtime (null sink in production) | the chain verifies after any restart |
| **Sandbox, capabilities** `src/sandbox/` | tokens, revoked sets, expiry | grant, check, revoke; container calls | tools | nothing is allowed after its revocation |
| **MIR cache** `src/mir/cache.rs` | two bounded LRU maps | get_or_build | VM | a hit is the graph of this very function |
| **orchestrate DAG, MoA, MoE** `src/mir/orchestrate/`, `runtime.rs` | a graph of tasks; fan-out over models | layers, execution | `ai.chat`, Pregel | a task runs after what it depends on |
| **TEA runtime** `src/tea/mod.rs` | model and message queue | update loop | scripts | messages in order, loop ends |
| **Rule search** `src/rel/search.rs` | facts, rules | search | scripts | sound and complete up to its bound |
| **Refine loop, trace collector** `src/refine/`, `src/trace_collector.rs` | sessions on disk; an append-only trace | I/O, observation | scripts | nothing reads it back |
| **Lowering** `src/mir/witness_to_fcfg.rs`, `fcfg_lower.rs`, with SSA `src/mir/ssa.rs`, `ssa/deconstruct.rs` | registers and open jumps of one body | statements to instructions; patching of jumps; through SSA and back | MIR executor | the body does what the statements mean |
| **MIR executor** `src/mir/dag.rs`, `src/mir/vm/engine.rs` | a graph per body; active nodes, written registers, executed nodes | `dag_analyze`; a loop that threads or runs waves | every handler | the graph runs the instructions in the order of the body, and all of them |
| **Rest of the compiler** (lexer, `parser_v3`, `typeck`, register allocation, JIT, graph optimiser) | none that outlives a compilation | passes over syntax trees and graphs | | input/output correctness of each pass |
| **HTTP, MCP and LSP servers, command line, documents, compression, flow helpers** | sessions, else none | request loops, pure functions | clients | protocol order; format |

`PROJECT.json` lists the same components, and under `hazards` each place in the
code where something may go wrong that a test would hardly reach, with the
properties that would notice. The hard behaviours, in short:

- *retries that must look like one attempt* (Pregel EXEC): some of the state is
  rolled back, some deliberately is not (environment, caches);
- *state shared between those who run in one step*: one `input` channel for the
  messages of all targets, one environment cloned for every agent;
- *kill and restart* between any two statements of a run;
- *threads that die* with a job in their hands, pools dropped while their
  threads still run, a retry on a new pool while the old one is busy;
- *two locks for one fact* (scheduler), and a clock that is read before they are
  waited for and may be set back;
- *a decision on a value read without the lock* (semaphore);
- *an order rebuilt from a graph* (MIR executor): what ran in sequence in the source runs
  when registers are written and predecessors have run, and neither is ever reset;
- *operations made of several calls* on a saver that others use at the same time, and
  three indexes that are read one after the other (checkpoint store, event bus);
- *timeouts that race with what they time*, kills that do not reach a process,
  threads that outlive the call that made them.

## 2. Modules and how they correspond to the code

| Module | Models | Used by |
|---|---|---|
| `Pregel` | the engine: `run`, `execute_step`, `reconcile_outcome`, `rollback_step`, UPDATE, ADVANCE, automatic checkpoints, `run_pregel_config` | `MCPregel`, `PregelProofs` |
| `BSP` | the promise of the engine: a super-step machine | refined by `Pregel` |
| `WorkerPool` | the pool's threads, channels and caller | `MCWorkerPool`, `WorkerPoolProofs` |
| `Batch` | the promise of the pool: one batch, one answer | refined by `WorkerPool` |
| `Scheduler` | `add`, `remove`, `tick` over two mutexes | `MCScheduler`, `SchedulerProofs` |
| `Semaphore` | the semaphore of exec.parallel, access by access | `MCSemaphore`, `ExecParallelProofs` |
| `CountingSemaphore` | the promise of the semaphore: an atomic counter of permits | refined by `Semaphore` |
| `ExecParallel` | a call of exec.parallel with its workers and processes | `MCExecParallel`, `ExecParallelProofs` |
| `Mir` | the instructions of a body, what each reads, writes and where it may go | all modules below |
| `LinearMir` | what a body means: one instruction at a time | refined by `MirDag` |
| `MirGraph` | `dag_analyze`: blocks, edges, entry | `MirDag` |
| `MirDag` | the executor loop over that graph | `Structured`, `MirDagProofs` |
| `TidyBodies` | what the executor needs of a body so that it runs it line by line | `MCMirDag`, `MirDagProofs` |
| `Lowering` | statements to bodies, and the way through SSA | `Structured`, `MirSources` |
| `Structured` | the executor running lowered programs beside the meaning of their statements | `MCMirDag` |
| `MirSources` | the programs that are run | `MCMirDag` |
| `EventBus` | `on`, `off`, `emit` over three indexes | `MCEventBus`, `EventBusProofs` |
| `Checkpoints` | both savers and the operations made of their calls | `MCCheckpoints`, `CheckpointsProofs` |
| `Ranking` | what the sorts of the standard library and of SQL give | `WorkerPool`, `ExecParallel`, `Checkpoints`, `MirGraph`, `RankingProofs` |
| `MC...` | instances for TLC: graphs, behaviours of agents, model values | the `.cfg` files |
| `...Proofs` | theorems and their proofs | |

`PROJECT.json` under `map` names, for each definition, the lines it stands for.
Definitions whose comment begins with "A slip" are not part of the models: each
is what a plausible mistake at that place would make of the definition after it,
and is used to see that a property notices.

### Pregel

One behaviour is the life of a program: at most `MaxRuns` runs, each ended by
the code or by a kill (`Restart`, enabled in every state). The engine is
sequential, so each action is one stretch of code between two points at which
something may go wrong or something may be chosen:

| Code | Actions |
|---|---|
| `run_pregel_config`: fresh engine, restored from the newest checkpoint of thread "pregel"; an error of the load is swallowed, and the engine starts fresh | `Init`, `Restart`, `StartEngines` |
| PLAN: active vertices minus the halted ones without mail; `interrupt_before`; next hop; `begin_step` | `Plan`, `InterruptedBefore` |
| EXEC, one at a time: input, cache hit, body, reconcile | `Skip`, `RunAgent`, `AgentFails`, `ExecUndefined` |
| EXEC on the pool: PREPARE, SPAWN, RECONCILE in dispatch order | `Prepare`, `BatchDone`, `BatchFails`, `ReconcileJob` |
| retry loop with `rollback_step` | `Retry`, `GiveUp`, `EndExec` |
| UPDATE: `apply_write`, reducer, aggregator channel, `master_compute`, `interrupt_after` | `ApplyWrite`, `ReducerFails`, `Publish` |
| ADVANCE: combine, deliver, next frontier, `save_checkpoint`, retention | `Advance`, `Undeliverable`, `AutoSave`, `Prune` |
| end of `run` | `Finish` |

Agents are numbered in definition order, the order in which EXEC takes them; the
graph is a set of edges; bodies, conditions, combiners, reducers and the master
are user code, so what they do is a choice from sets given as constants
(`Outcomes`, `HookEffects`; a hook may also emit nothing). A body leaves a signal (halt or value), a result,
messages, a contribution to the aggregator, and possibly a value in a shared
variable; the whole environment is abstracted to that variable. Channel versions
and "versions seen" are as in the code, including that all messages of a step
are written into one `input` channel. The set order of pending targets and of
conditional edges is a free choice, as the code iterates hash maps.
`hist` and `blind` (this run could not load what there was) hold history that only
properties read.

### WorkerPool

Threads are `<<pool, number>>`; a worker's program counter follows the loop:
lock the receiver (`Lock`), receive under the lock (`Receive`, `Exit`), pull a job
(`TakeJob`, `Drained`), work (`JobDone`, `JobFails`, `JobPanics`, `JobHangs`). The
caller is `Submit`, `Broadcast` once per worker, `Broadcasted` (it drops its own
sender), `Collect`, `Timeout`, `Disconnected`, `Complete`, and `Drop`. Whether the
result channel is disconnected is computed from who still holds a sender
(`Senders`). `Tick` is time for `recv_timeout`; a batch with `Deadline =
NoDeadline` is one without `step_timeout`.

### Scheduler

`add` is three steps (`AddBegin`, `InsertJob`, `InsertEntry`) because it takes two
mutexes one after the other; `tick` is `TickBegin` (reads the clock), `LockJobs`,
`TakeDue` (second mutex; empties the due buckets), one `FireEntry` or `SkipEntry`
per id, `TickEnd`; `remove` is one step. `SetClock` sets the wall clock to anything.
Sums are taken modulo `Word`, as release builds take them modulo 2^64.

### Semaphore and ExecParallel

`Semaphore` has one action per access to the counter, the mutex or the condition
variable (`Load`, `Swap`, `Lock`, `Recheck`, `Wait`, `Wake`, `Add`, `Notify`), with
wake-ups for no reason. `Semaphore` is shown to implement `CountingSemaphore`, an atomic
counter of permits, and that counter is what `ExecParallel` takes it for. A worker's places follow its loop and `run_single_cmd`; the
caller's are `spawn`, `collect`, `join` and its three returns: `late` (budget
spent, unreported commands filled in, no join), `done`, `error` (a worker
panicked). A command either ends by itself or when killed, or something of it does
neither (nature "stays"). A process that is not running any more from the point of view of its
worker may still be alive: waiting for it failed (`"unwaited"`, and `"abandoned"` once the worker has
gone on to the next command), or the worker died (`"orphaned"`). Durations are left out: any timeout may fire at any
moment in which it is armed, since a thread may be held up between any two
statements; no property depends on how long one is.

### MIR: graph, executor, lowering

The modules follow the code in three layers. `Lowering` is a function from a list of
statements to a body: registers as `witness_to_fcfg` hands them out (with the register it
reserves for a callee and never writes), instructions and open jumps as `fcfg_lower` emits
them, breaks and continues patched by the loop that registered them, and `RoundTrip` for the
layout that SSA and back give a body. `MirGraph` is `dag_analyze`, pass by pass: the chain of a
block, the fall-through between blocks, transfers, data and effect edges with their fan in
loops, edges behind labels, reachability, entry. The edges are a set; each knows the pass that adds
it, so that the lists the executor makes of them have the order of the code (`Earlier`, `Heads`).
`MirDag` is `run_dag_with_signal_memo`:

| Code | Action |
|---|---|
| one active node that is ready: run it, go on with its chosen or only successor | `ThreadedStep` |
| the ready nodes of `active`; none: along all control edges | `StartWave` |
| one node of the wave | `RunNode` |
| edge propagation, what was not ready stays active | `EndWave` |

Values are abstract: a branch may go either way each time it is met. What is kept of an
instruction is what it reads and writes and what of the source it does (`of`).
`Structured` lets the source run beside it: `rest` is what is left of the statements by
their meaning alone, and takes the same outcomes.

### EventBus

A handler is a number, an index a set of pairs of key and handler. `on` and `off` are one step,
as each takes one lock. `emit` is `Emit`, one step for each index it reads (`CopyExact`,
`CopyPrefix`, `CopyInterior`), one `Call` and `HandlerReturns` for each handler copied, and
`EmitReturns`. A thread in a handler may call the bus again, so it has a stack of emits. What
an emit must and may deliver is kept in its frame as history.

### Checkpoints

Each call of a saver is one step, taken by `MemorySaver` (a sequence) and `SqliteSaver` (a set
of rows) at once, so that their answers can be compared in every state. `Save` with
`ListToPrune` and `Delete` is the engine's automatic checkpoint with retention; `Rewind`, `Pick`,
`Delete` are both rewinds, the one that deletes as it goes and the one that looks first;
`Resume`, `Compare` and `ResumeLatest` the two ways to find the latest. `Return` may end an
operation anywhere, since each call may fail. `Pregel` uses the store as one set with the order
of load and list; that both savers are such a set is what `SaversAgree` shows.

## 3. What the runs check

Twelve runs, ten that hold and two that show a disagreement (section 4). The
numbers of distinct states are those of the instances as configured.

| Run | Instance | States | Question |
|---|---|---|---|
| `pregel_sequential` | 3 agents, 3 super-steps, 1 retry, one agent fails | 54,717 | Are attempts invisible, and does mail reach whom it was sent to? |
| `pregel_hooks` | 2 agents as one batch, all hooks, 3 super-steps, 1 retry, 2 runs, checkpoint each step, 1 kept | 360,030 | Does the engine with all of its hooks and error paths implement the super-step machine, and so come to its end? Do checkpoints, retention and resumption fit together? |
| `halted_sleeps` | 2 agents that wake each other by messages | about 100 to the violation | (section 4) |
| `pool_panics` | 2 workers, 2 jobs, 2 batches, no deadline | 109,135 | Does a pool whose threads may die answer, exactly once, with the truth? |
| `pool_deadline` | 2 workers, 3 jobs, 1 batch, a deadline | 8,130 | Is the wait bounded, and do the threads of a dropped pool end? |
| `scheduler` | 2 threads, 2 jobs, clock 0..2, word 5 | 327,498 | Do the two maps agree, and does a job fire when it should and only then? |
| `semaphore` | 4 threads, 2 permits, 1 round, 1 spurious wake-up | 94,249 | Is no permit and no wake-up lost? |
| `exec_parallel` | 1..2 commands, limits 1..2, with and without timeout | 113,448 | Are bound, answer and ends of a call right, whatever times out or dies? |
| `mir_dag` | 131 programs, each plain and through SSA, with and without threading | 99,337 | Does the graph executor run what the body says, and the body what the source means? |
| `arm_starves` | programs whose if has an arm without a value, behind a call | 71 to the violation | (section 4) |
| `event_bus` | 2 threads, 4 patterns, 3 events, 2 handlers, 2 emits, nested 2 deep | 201,526 | Does an emit deliver to the right handlers while others register and remove? |
| `checkpoints` | 2 clients, 3 checkpoints, two of a step, 2 times, 2 kept | 780,035 | Do the savers agree, and do rewind and resume keep their promise next to each other? |

What each property says:

**pregel_sequential.** `WokenSeesItsMessage`: an agent that was sent a message finds
that message in its input, though all targets share one channel.
`RunOncePerStep`: a body that came to its end is not run again by the retry.
`WritesSurviveStep`: what an agent assigned is not overwritten by somebody who assigned
nothing. Three agents are needed so that one may have finished, one fail and one not have
begun; three steps so that mail of one step meets the frontier of the next; one retry,
because a second one starts from the same undo record as the first.

**pregel_hooks.** `OkMeansQuiescent`: a run that ends well leaves no mail and no active
vertex. `OnlyThisAttemptCounts`, for a batch folded in in dispatch order that fails
half way: after a failed attempt nothing it sent or contributed is left, and the attempt that
succeeds counts once. `ImplementsBSP`: from outside there are only super-steps,
each atomic, a message lives for one of them, and every run ends. The second run starts fresh
or from the checkpoint the first one kept, wherever the first was killed.
`SeenWithinVersions`: "seen" never runs ahead of a channel's version, in
the engine or in a checkpoint; if it did a write would stay invisible for ever.
`CheckpointHoldsNoDeliveredMail`: nothing is delivered twice through a resumption; the only mail in a
checkpoint is what a combiner emitted while the mail of the step was delivered.
`RetentionKeepsNewest`: a step that has saved leaves no more checkpoints than the bound, also when
a deletion failed half way or an earlier run left more behind, and where runs are resumed (the
thread is configured, and what there was could be loaded) the one just saved is among them.
`ProgressKept`: what the next run can resume from never falls back to an earlier step. That matters
most for a run whose load failed: it counts from 0 again and prunes the thread of which it knows
nothing; as the order is by step it deletes its own checkpoints (section 4) and not the progress that
was made before. Three super-steps are the least in which a run ends well (mail of the first is
answered in the second, and the third finds nothing to send); there is one payload, because what
a message says is the matter of `pregel_sequential`, and hooks that emit, or stay silent, tell mail by its
addressee and number here.

**pool_panics.** `EachJobOnce`, `OkIsABarrier` (Ok means that every job ran to its end,
nobody is inside one, and the outcomes are this batch's, in order, though the threads of
an earlier pool may still report), `ErrorHasCause` (an error is never reported while every
job is fine), `ImplementsBatch` (every batch is answered, once, as the abstract service
would; its fairness makes this a liveness property too).
Two batches, because the second may meet leftovers of the first and a pool that has lost
threads. Deadlock is not checked here: a pool without live threads may really stop.

**pool_deadline.** `WaitIsBounded`: one deadline per outcome, not per batch (line 114 of
`worker_pool.rs` speaks of the batch). `BatchReturns` and `DroppedPoolEnds` hold even with jobs
that never return.

**scheduler.** `EachJobHasItsTimer`: a job has exactly one entry, at the time it is due,
but for the moment in which its `add` is half done. `NeverEarly`: messages of a job are an
interval apart, whatever the clocks of overlapping ticks, as long as its due times fit the
word (a sum that wraps makes the code itself early, section 4). `GoneStaysSilent`: a removed
job is not heard of again, though its id stays in a bucket. `TickCatchesUp`: a tick leaves
nothing due behind. Two threads suffice for every pair of overlapping calls; two jobs for
a tick that has more than one id in hand; `Word` 5 with interval 4 makes the sum wrap.

**semaphore.** `PermitsConserved`, `NoLostWakeup`, `AllPairsComplete`. `ImplementsPermits`: from
outside there are only requests, permits taken and permits given back, each in one step, and no
permit stays free for ever while somebody asks for one; who of those that ask gets it is left
open, and one of them may be passed over again and again. (`WakeTakes`, in which a woken
thread takes a permit without looking at the counter, is a step the promise does not have.) The comments of
`exec.rs` (93-110) describe the lost wake-up the second look under the mutex prevents, and
say near line 860 that no test can reproduce it; without that look (`NoRecheck`) TLC finds
it at once. Four threads over two permits: two inside, one asleep, one between its look
and its sleep.

**exec_parallel.** `AtMostConcurrent` counts every process alive, those included that a kill missed
or whose worker died, also after the call: they are at most `max_concurrent`, and one more for each process
on which waiting failed, whose worker goes on while it lives (section 4).
`NobodyWaitsForAPermit`: permits never run out, not even when workers die with one.
`CompleteAnswer` and `InInputOrder`: one entry per command, in order, what is missing was
never started, and the death of a worker is not passed over. `FewLateStarts`: after the call has returned, a worker left behind starts one
more command at most. `Returns` and `WorkersEnd`. Two commands and two workers cover one
worker that takes all, two that share, and one that dies beside one that lives. The safety
part was also run once with three commands (2.6 million states, no error).

**mir_dag.** `ImplementsLinear`: the graph executor runs exactly the instructions that the body
would run line by line, in that order, each as often, and gets to the end whenever the body would.
It is a refinement with fairness, checked in the second round of a loop as in the first,
since "has run" and "is written" are never reset. `DoesTheSource`: what runs is what the
statements say comes next; a jump patched by the wrong loop, a continue that misses the step, an
operand that is run though it is not needed would break it. `NothingStarves`: the loop never
ends with instructions left, which it would do without any error. The programs are every
compound statement of depth one, each loop and if with every compound statement inside, and
loops in loops with a transfer in both, with statements before and behind; the leaves are those
that differ in what they write and where they go. The first statement writes register 0, which
`arm_starves` shows is needed.
Before it starts, TLC evaluates the assumptions of `MCMirDag`, which say of the 262 bodies which ones are
tidy in the sense of module `TidyBodies`: every one that comes straight from the lowering, and after
the way through SSA those without a misread target (section 4), 215 in all. For these the theorems of section 6
say the same for any number of bodies of any length; the other 47 are checked here only.

**event_bus.** `DeliversWhatMatches`: an emit that has read all three indexes delivers to every
handler a matching pattern had all the time, to none that no matching pattern had at any time
since it began, and to none twice; "matching" is by the predicate `matches`, though emit looks
most handlers up by key. There is a pattern of every shape, and the names include the empty one,
whose key is also that of "*". Two handlers and two emits are enough for one that stays and one
that comes or goes during a nested emit; the theorem of section 6 has no bound.

**checkpoints.** `SaversAgree`: after any saves, repeated saves and deletions both give the same
list, the same checkpoint for an id and the same latest one, also when the clock goes back or
stands still. `RewindGoesBack`: a finished rewind has left nothing it had to delete but what was
saved again meanwhile. `ResumeIsRecent`: what resume finds is no older than any checkpoint that
was there all the time it took. Two clients give each pair of operations; three checkpoints, two of
one step, let retention and a rewind want different ones.

**Named bounds.** `MaxSteps` is the engine's own `max_steps`, not an artificial bound.
`MaxRuns`, `MaxBatches`, `MaxJobs`, `MaxTime`, `Rounds`, `Spurious`, `MaxCommands` and
`MaxLimit` bound what the environment does and appear in guards or in `Init` only. `MaxHandlers`, `MaxEmits` and `MaxDepth` of `EventBus` do the same; `Checkpoints` and `MirDag` need
no bound. There are no state constraints. `scheduler`, `event_bus` and `checkpoints` use the
symmetry of their two threads or clients; none of their properties is a liveness property.
`mir_dag` does not check deadlock, since a program ends.

Each property of a passing run has, in `PROJECT.json` under `mutants`, a change to a
definition that breaks it.

## 4. Disagreements between code and documentation

Two of these are runs that are expected to find a property violated:

- `halted_sleeps` / `ArrivalWakes`. A vertex that has voted to halt is "only rescheduled when a Send
  arrives" (`src/pregel/mod.rs:105`, and 219; `src/mir/mod.rs:560-561` says it will not be scheduled again
  unless it receives one). PLAN looks for that send in `pending_sends` (666), which the ADVANCE that
  delivered it has emptied (801). The vertex is active because of the message and has it in its
  inbox, and is passed over; the next step clears the inbox (807). It does run if a condition sends to it
  during the same PLAN, or after a retry, which forgets all votes.
- `arm_starves` / `NothingStarves`, without an optimisation level (the default). The value of
  an if arm that ends in a let, an assignment or a loop is taken to be register 0
  (`src/mir/witness_to_fcfg.rs:1060-1062`), and `fcfg_lower` copies register 0 into the result of
  the if. In a body that begins with a call, register 0 is the one reserved for the callee
  (line 167), which nothing ever writes; the copy never becomes ready, and everything behind
  the if silently does not run. `tests/node_result_reg_gap.rs:31` concludes from a series of
  programs that the missing alternatives are not a live defect; none of its programs begins
  with a call.

The following was also seen while modelling, most of it by TLC, and has no run. Much of it
follows from single lines once seen, or needs calls the language does not produce:

- an agent of a parallel step runs in a clone of the environment made before any other is folded
  in, and folding back an unchanged clone overwrites what another agent assigned
  (`src/value.rs:1137`, against `src/pregel/mod.rs:118-120`);
- a checkpoint is called the complete state at the end of a super-step
  (`src/checkpoint/mod.rs:140`); the frontier is not in it, and a resumed run starts over at
  the entry (`src/pregel/mod.rs:644`);
- without a configured thread, checkpoints are saved under "default" and looked for under
  "pregel" (`runtime.rs:836`);
- the timeout of one command of exec.parallel leaves the commands not yet taken without any
  entry (`exec.rs:267`, against the test at 784, which has a single command);
- a body that begins with `while` has no entry node, as the jump back leads to node 0, and runs
  nothing (`dag.rs:1033-1047`), though by `dag.rs:757` position 0 is the entry of a function and by
  1042-1043 the fallback is there lest the program return Nil (assumption `NoEntry` of `MCMirDag`);
- through SSA labels keep the numbers of their blocks (`ssa/deconstruct.rs:494`) while the targets of
  jumps become positions (588-601), and the search for loops reads a target as the number of
  a label first (`dag.rs:623`). A jump back to a position that is also the number of a later block is not
  seen, the blocks of the loop lose their fan edges, of which 634-635 say that none needed is ever
  missing, and in the second round a let may run before the instruction that computes its value
  (assumption `LoopUnseen`; with that program in place of the others `mir_dag` finds `DoesTheSource` violated);
- at an optimisation level the way through SSA drops a `return` without a value
  (`ssa/deconstruct.rs:460-465`), so what follows it runs;
- the fingerprint of a value for the memo of pure nodes is the length and the first 32 bytes of a
  string, and the identity of a list, which may be that of an earlier list (`engine.rs:88-91`);
- `lower.rs:684-685` patches the continue of a for to the loop head though 164-165 says to the
  step; the production path is `fcfg_lower`, which does the latter;
- the pattern ".*" shares the key "" with "*", so by key it gets every event and by the predicate
  only those with an empty first segment (`event/mod.rs:226-249`); `EventBusAssumption` leaves it
  out;
- of several checkpoints of the highest step `checkpoint::resume` keeps the first listed, while
  `load` without id gives the last (`checkpoint/mod.rs:509` against `memory.rs:96-103`);
- a retry un-halts all vertices, not those of this step (`pregel/mod.rs:1526`), and loses what
  conditions contributed during PLAN (1527);
- the shared `input` slot shows an agent without mail of its own what was sent to another
  (1338 against 1017-1018), and the order of dispatch decides which of two messages to
  one target is delivered (1197 against 1194-1195);
- retention sorts by step, so a run that counts from 0 again loses its checkpoints to the older, higher
  ones, the one it has just saved included (882). That happens without a configured thread, where nothing is
  ever found to resume from, and with one when `load_checkpoint` returns an error, which
  `runtime.rs:837` takes for "no checkpoint"; in all other runs `RetentionKeepsNewest` holds;
- when waiting for a process of exec.parallel fails, its worker gives back the permit and starts the next
  command while the process lives on (`exec.rs:461-472`, 519-530), so that more than `max_concurrent`
  processes may be alive;
- an agent on a cycle that halts does not make the cycle converge (697 against line 9), and
  one may be skipped on a cached input although the environment has changed (1039 against
  1033-1034);
- the first error of a batch is returned while other jobs still run
  (`worker_pool.rs:169` against the "blocking until all complete" of 106); jobs are sorted largest
  first and popped from the end, hence started smallest first (78 against
  `pregel/mod.rs:1195`);
- with an interval close to 2^64 a job is due in the past (`schedule/mod.rs:173` against 78-80);
  a debug build panics instead;
- the answer of an exec.parallel call that spent its budget is in the order of arrival
  (`exec.rs:355` against 22 and 365).

## 5. Fairness

- `Pregel`: `WF(Engine)`. The engine is one thread that always has a next statement. User
  code is taken to return; a body that does not is what `step_timeout` is for, and shows
  as `BatchFails`.
- `WorkerPool`: weak fairness of the caller and of each worker. Nothing is assumed about
  who gets the mutex: a worker that waits for it for ever is allowed. A job that hangs is
  fair to do so (`JobHangs` leads to a place without a next step).
- `Scheduler`: none, and no liveness is stated. `tick` runs only when a script calls it, and
  std mutexes are not fair. `TickCatchesUp` is the part that is a safety property.
- `MirDag`: weak fairness of the whole next-state relation: one thread with a loop that goes on
  until no node is active. Nothing is assumed of branches, so a loop may go round for ever.
- `EventBus`, `Checkpoints`: none, and no liveness is stated: who calls is up to scripts.
- `Semaphore`: weak fairness of each thread; neither the mutex nor the condition variable is
  fair. `AllPairsComplete` holds all the same because rounds are finite.
- `ExecParallel`: weak fairness of the caller and of each worker, and of the exit of those
  commands whose nature it is to end.

## 6. What is proved

The proofs hold for every value of the constants that satisfies the named assumption of
the module (`ConfigAssumption`, `PoolAssumption`, `SchedulerAssumption`,
`SemaphoreAssumption`, `ExecAssumption`, `EventBusAssumption`, `CheckpointsAssumption`). These say no more than what kinds the constants
are of, that counts the code demands to be positive are, in `Scheduler` that the clock
fits the word, in `Checkpoints` that there is a thread id, and in `EventBus` that names have a segment and ".*" is not used (section 4).

| Theorem | Says | Inductive invariant and why it is needed |
|---|---|---|
| `PregelProofs!TypeCorrect` | `Spec => []TypeOK` | `TypeOK` itself |
| `PregelProofs!VersionsSound` | `[]SeenWithinVersions` | with `TypeOK`: EXEC copies versions, nothing ever lowers one, and what a resumption restores comes from a checkpoint for which it held |
| `PregelProofs!MessageSeen` | `[]WokenSeesItsMessage` | `VersionInv` adds `FreshMail`: for who has mail delivered in this step, the version of `input` is strictly above what that agent has seen until its EXEC has ended; the property alone says nothing about the phases in between |
| `PregelProofs!RefinesBSP` | `Spec => Abstract!Init /\ [][Abstract!Next]_(Abstract!vars)`, the safety part of `ImplementsBSP` | `StepInv`: what an engine inside a step may still change, so that a failed attempt leaves the frontier and delivered mail as they were and UPDATE and ADVANCE together make one abstract step |
| `PregelProofs!QuiescentAtEnd` | `[]OkMeansQuiescent` | `NoMailUnread`: between the drain and the decision to end, nothing is pending that the decision does not look at |
| `PregelProofs!MailOnce` | `[]CheckpointHoldsNoDeliveredMail` | the property itself: ADVANCE drains before it saves (`AdvanceDrains`), nothing else touches the store |
| `PregelProofs!AttemptsIsolated` | `[]OnlyThisAttemptCounts` | `AttemptInv`: what the undo of an attempt has recorded is the mail and the aggregate before EXEC, also while PLAN and the hooks of the phases still add to them |
| `PregelProofs!BodiesRunOnce` | `[]RunOncePerStep` | `RanInv`: a body that ended has its outcome in the cache under the input that a retry will present again |
| `PregelProofs!WritesKept` | `[]WritesSurviveStep`, for engines that are not parallel | `Kept`; in a batch the claim is false (section 4), and the runs check it for the sequential engine only |
| `PregelProofs!RetentionSound` | `RetentionKeepsNewest` | `Retained`: the store is finite, all of one thread, holds at most one checkpoint of each run and step, and none ahead of its run, or, in a run that was resumed from it, of the engine. So the order by step and run is total on it, the one just saved has nothing before it, and who has fewer than n before them are n at most |
| `PregelProofs!ProgressNeverLost` | `ProgressKept` | the same invariant, which holds of runs that could not load as well: a finite set in a total order has a first element (`PruneKeepsLast`), and retention, finished or broken off, keeps it as long as it keeps any |
| `WorkerPoolProofs!JobsStartOnce` | `[]EachJobOnce` | `PoolInv` adds that a job still in the queue of a batch was never started and the queue is a prefix of the job numbers |
| `WorkerPoolProofs!BarrierHolds` | `[]OkIsABarrier` | `PoolInv` and an account of the jobs: `Taken` (a job taken is in one worker's hands until it is over), `Delivered` (what ended well is in the result channel or among the outcomes, once), `Ages` (nobody is on a batch to come). As many different outcomes as jobs are all jobs, and the numbers 1 to n sorted are in order |
| `WorkerPoolProofs!ErrorsHaveCauses` | `[]ErrorHasCause` | `Attended`: while nothing went wrong somebody holds a copy of the batch or all threads of the pool were dead before; with the account of the jobs, having no sender left then means that all have reported. `CrewInv`: threads of the pool in use end by a panic only |
| `WorkerPoolProofs!WaitBounded` | `[]WaitIsBounded` | `WaitInv`: one deadline was waited for each outcome and less than one for the next |
| `WorkerPoolProofs!RefinesBatch` | `Spec => Service!Init /\ [][Service!Next]_(Service!vars)`, the safety part of `ImplementsBatch` | the same account: a job that ends was not over, and an answer without error holds all |
| `SchedulerProofs!TimersExact` | `[]EachJobHasItsTimer` | `SchedInv` adds who holds which mutex at which place (so that two threads are never both firing) and that an id being added is fresh: it has no entry yet and no second thread is adding it |
| `SchedulerProofs!FiresOnTime` | `NeverEarly` | from the same invariant: the entry a tick looks at is the job's only one, hence at its due time, and only due entries were taken |
| `SchedulerProofs!NoMessageOfTheGone` | `GoneStaysSilent` | adds that the ids that are gone are in no table, were given out and are not being added |
| `SchedulerProofs!NothingLeftDue` | `TickCatchesUp` | adds that while a tick fires, no bucket entry of a fitting job is due at its clock except those it still holds |
| `ExecParallelProofs!Conservation` | `[]PermitsConserved` | `Positive` (who is about to decrement saw a positive counter) and the type invariant's account of the mutex |
| `ExecParallelProofs!WakeupsKept` | `[]NoLostWakeup` | a stronger count in which a thread that has decided to sleep under the mutex already counts as asleep; that is the interval in which a wake-up could be lost |
| `ExecParallelProofs!RefinesPermits` | `Spec => Counter!Init /\ [][Counter!Next]_(Counter!vars)`, the safety part of `ImplementsPermits` | the same invariant; its `Positive` says that a swap that succeeds takes a permit that is there. Of all accesses only the request, the successful swap and the add are visible |
| `ExecParallelProofs!ConcurrencyBounded` | `[]AtMostConcurrent` | `ExecInv`: every live process but those on which waiting failed has a worker that waits for it, left it behind and will take no other, or died with it; which gives an injection from processes to the first `max_concurrent` workers |
| `ExecParallelProofs!LateStartsBounded` | `[]FewLateStarts` | a worker that has started a command after the return can only report, and stops when it finds the caller gone |
| `ExecParallelProofs!PermitAtHand` | `[]NobodyWaitsForAPermit` | `Accounted`: as many permits are out as workers stand between acquire and release, those that died there included; who comes for one stands elsewhere, and there are no more workers than permits |
| `ExecParallelProofs!AnswerIsComplete` | `[]CompleteAnswer` | `AnswerInv`: while the call lasts a command that was taken either has one entry, in the answer or in the channel, or is in the hands of one worker that will send it (`Ledger`); who ends has a reason to, and the collection too (`Reasons`); a cancellation has a timeout entry that tells of it (`Explained`); and what was answered stays (`Answered`). Filling in what did not report makes it complete because as many different indices as commands are all of them |
| `ExecParallelProofs!AnswerIsInOrder` | `[]InInputOrder` | `AnswerInv`: all workers have ended when the answer is sorted, so what no entry tells of was never taken, hence never started |
| `MirDagProofs!DagInvHolds` | `[]DagInv`, for tidy bodies | the invariant itself, explained below |
| `MirDagProofs!RefinesLinear` | `Spec => Linear!Init /\ [][Linear!Step]_(Linear!vars)`, the safety part of `ImplementsLinear`, for tidy bodies | `DagInv`: every instruction a step runs is the one at which the program stands |
| `MirDagProofs!NeverStarves` | `[]NothingStarves`, for tidy bodies | `DagInv`: while the program stands at an instruction, that one is active |
| `EventBusProofs!EmitDelivers` | `[]DeliversWhatMatches` | `BusInv` adds that the indexes hold what is in force (below) and, for an emit half way, that handlers it must deliver from the indexes it has read are copied, that those not yet read will be found, and that what is copied was in force: the property says nothing of an emit that is still reading. Key lookup and predicate are shown to agree for every pattern and name |
| `EventBusProofs!NothingLingers` | `[]IndexesHoldTheLive`: what off removes is in no index | part of `BusInv` |
| `CheckpointsProofs!SaversTheSame` | `[]SaversAgree` | `StoreInv`: of each thread id a vector holds every checkpoint id once, and what it holds is what the table holds. The order of the lists is total on what is held, and an order has one sorting only, whether it sorts places or rows |
| `CheckpointsProofs!RewindsLeaveNothing` | `[]RewindGoesBack` | `RewindInv`: a checkpoint that is to go and is still stored is on the list to be looked at or on the list to be deleted |
| `CheckpointsProofs!ResumptionsAreRecent` | `[]ResumeIsRecent` | `ResumeInv`: a checkpoint that was there all the time is still to be looked at, or something at least as late was found |

Each proof shows that the invariant holds initially and that each action keeps it, one
step per action, and ends with temporal logic. The counting arguments rest on lemmas about
cardinalities built on the library's theorems on finite sets.

**The graph executor.** `MirDagProofs` assumes of each body that it is `Tidy`: transfers lead to starts of
blocks or off the end, a jump back into a loop that has its fan edges, a label reads nothing, and on
every way through the body the registers an instruction reads have been written before. This says nothing
of graphs, waves or orders, and real bodies satisfy it: `MCMirDag` shows it of every body of `mir_dag`
that comes straight from the lowering. Three disagreements of section 4 break a part of it each: the
register nobody writes (`arm_starves`), the jump back to the first instruction, and the misread target;
there the executor does fail. There is no bound on the number or the
length of bodies, and both paths, threaded and in waves, are covered. `DagInv` has three parts.
*The lists*: what is active is the instruction at which the program stands and maybe later ones
of its block with no effect in between; in a loop, all of these without a gap. *The memory*: outside of
loops nothing ahead of the program has run, so that a node whose predecessors have not run waits; in
the second round of a loop everything counts as having run, so nothing waits, and it is the absence of gaps
(the fan edges) that makes a wave run a stretch of the block in order. *The wave*: what is still to
run is the rest of such a stretch, and what is coming is where its last instruction leads. That the
invariant is kept rests on what the graph of a tidy body looks like (which edges there are, in what
order, what is reachable, that the first node is the only entry) and on lemmas about the lists the executor
makes of it. Without the fan edges (`NoFan`) the step from a wave to the next cannot be proved, and
TLC finds the loop in which an instruction is overtaken.

Sorts are taken as what they promise: module `Ranking` says which element has k - 1 others before
it, where a recursive definition says how to find it. About that, `RankingProofs` proves that the
result is a permutation of the set in the given order (`RankedSorts`, `AscendingSorts`), that it is
the only one (`RankedUnique`), that it does not depend on what the elements are called
(`RankedRenamed`), that 1 to n come out as they are (`AscendingRange`), and that at most n elements
have fewer than n before them (`FewBelow`). The pool's outcomes, the answer of exec.parallel, the
lists of both savers, the engine's retention and the order of the executor's nodes rest on these. It also says what
is left of a list when only some elements are picked, or only the first of each is kept
(`Picked`, `Fresh`).

The longer invariants were checked by TLC before they were proved: `AnswerInv` with three commands
and two workers (2,584,044 states), `StoreInv`, `RewindInv` and `ResumeInv` on the instance
of `checkpoints`, `DagInv` on the tidy bodies of `mir_dag`, `Retained` on the instance of `pregel_hooks`, with and without
a configured thread.

The proof of `WakeupsKept` depends on the second look under the mutex: with `NoRecheck` in
the place of `Recheck` the step for that action cannot be proved.

## 7. What is only model-checked, and what is not modelled

Liveness (`BatchReturns`, `DroppedPoolEnds`, `AllPairsComplete`, `Returns`,
`WorkersEnd`) and the liveness half of the refinements (`ImplementsBSP`, `ImplementsBatch`,
`ImplementsPermits`, `ImplementsLinear`) are checked by TLC only: the prover handles neither fairness nor
ENABLED. What a recursive definition computes for every input is out of its reach as well. `Lowering`
recurses over statements, so that what it gives is tidy (`TidyUnlessMisread`) and does what the
source says (`DoesTheSource`) is checked on the programs of `MirSources` only. All other safety
properties of the passing runs are theorems of section 6, some under the condition stated there
(`WritesKept`, and `RefinesLinear` and `NeverStarves` for tidy bodies).

Left out of the components that are modelled:

- Pregel: the fluent setters, statistics, merge strategies other than replacement, aggregator
  kinds other than Add (all commute; Add tells a double count from a right one), explicit
  checkpoint calls (`rewind`, `resume`), which belong to the checkpoint store.
- Worker pool: the content of jobs; creation of its threads is taken to succeed.
- Scheduler: `save` (its path is only ever set by a unit test, and nothing reads the file
  back), `list` and `count` (they change nothing).
- MIR: the memo of pure nodes (it skips the work of a node and nothing else), the rewrites of
  `dag_optimize`, `MAX_STEPS`, `match`, declarations, the renaming of registers in SSA and its phi
  copies. Control edges are a set, where the code keeps two of a kind when a branch leads to where its
  fall-through does (`engine.rs:442-447`); no program that is run has such a branch. The order in which transfers get their edges is that of a hash map in the code and
  fixed in `MirGraph`; no wave of the programs that are run has two nodes for which it matters.
- Event bus: poisoned locks. Checkpoint store: the JSON form, the width of columns.
- exec.parallel: argument checks, output capture, reuse of process ids; creation of worker
  threads is taken to succeed.

Not modelled at all: everything else in the inventory; `PROJECT.json` gives the reason for each.
The other compiler passes, documents, compression and flow helpers are functions without state to
interleave; the servers and the command line are I/O; the rest is planned below.

## 8. Plan

In the order in which it is to be done, most important first:

1. **EnvMerge**: `merge_from_with_strategies` with vector clocks, as functions; every lost
   write is reported or is one the strategy chose.
2. **Match and SSA renaming** in `Lowering`: arms that write one register, parallel copies of
   phis; the memo of pure nodes in `MirDag` against values.
3. **Audit chain**, **capability store**, **record / replay**, **MIR cache**: one small module
   each, with restart where a file is involved.
4. **orchestrate DAG** (Kahn layers against the dependency relation), **rule search**, **TEA
   loop**: algorithms against a reference definition.
5. **MCP sessions**.

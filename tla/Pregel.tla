------------------------------- MODULE Pregel -------------------------------
(***************************************************************************)
(* The BSP super-step engine behind `orchestrate pregel`                   *)
(* (src/pregel/mod.rs, MirPregelEngine).                                   *)
(*                                                                         *)
(* One run is a loop of super-steps PLAN, EXEC, UPDATE, ADVANCE on one     *)
(* thread; agents are executed one at a time, or as one batch on a worker  *)
(* pool.  EXEC is retried up to FaultTolerance times from an undo record.  *)
(* The program may be killed at any point and started again from the last  *)
(* checkpoint, or be run again after it finished.                          *)
(*                                                                         *)
(* Agents are numbered in definition order, which is the order EXEC uses.  *)
(* Agent bodies, edge conditions and the other hooks are user code: what   *)
(* they produce is an arbitrary choice from the sets given as constants.   *)
(***************************************************************************)
EXTENDS Integers, Sequences, FiniteSets

CONSTANTS
  NumAgents,        \* agents are 1..NumAgents
  Edges,            \* the graph, edges to @exit left out (they activate nobody)
  CondEdges,        \* the edges with a condition
  Vals,             \* payloads, channel values and values of the shared variable
  Seed,             \* the value run_pregel_config puts in the input_var channel
  Outcomes,         \* Outcomes[n]: what a successful run of agent n may produce
  HookEffects,      \* what a condition, combiner, reducer or master may emit
  CallerSends,      \* sends the caller accumulated before `orchestrate`
  Fallible,         \* agents whose body may fail (or exceed step_timeout)
  AggInit,          \* initial value of the one aggregator (kind Add)
  HasAggregator, HasMaster, CustomReducer, Parallel, \* configuration switches
  Combiners,        \* agents with a combiner
  DagSize,          \* size of each agent's body, the dispatch order when Parallel
  InterruptBefore, InterruptAfter, \* agents with an interrupt point
  MaxSteps, FaultTolerance,
  Interval,         \* checkpoint every Interval super-steps, 0 for never
  MaxCheckpoints,   \* retention, KeepAll for none
  ThreadConfigured, \* the program's checkpoint block names a thread_id
  MaxRuns           \* bound on the runs of the program (first one included)

Start == 0                          \* the pseudo node "@start"
Agents == 1..NumAgents
Undefined == NumAgents + 1          \* a name no agent has
Nodes == 0..NumAgents + 1
NoVal == -1
KeepAll == -1
Channels == {"seed", "input", "result", "aggregator"}

Msg == [to : Nodes, val : Vals]
\* mir::effect::Effects: sends in order, the sum of the contributions (kind Add
\* commutes), and whether one of them names an aggregator that does not exist.
Effects == [sends : Seq(Msg), add : Nat, bad : BOOLEAN]
NoEffects == [sends |-> <<>>, add |-> 0, bad |-> FALSE]
\* What a body leaves: its signal, its result, its effects, and the value it
\* assigned to the shared variable (NoVal if it left the variable alone).
Outcome == [signal : {"halt", "value"}, result : Vals, effects : Effects,
            write : Vals \cup {NoVal}]
Delta == [Channels -> Int]
CacheEntry == [input : Delta, outcome : Outcome]
\* `run` stands for the timestamp.
Checkpoint == [run : Nat, thread : {"pregel", "default"}, step : Nat,
               chan : [Channels -> Nat \cup {NoVal}], ver : [Channels -> Nat],
               seen : [Agents -> [Channels -> Nat]], pending : Seq(Msg)]

ASSUME ConfigAssumption ==
  /\ NumAgents \in Nat \ {0}
  /\ Edges \subseteq Nodes \X Nodes /\ CondEdges \subseteq Edges
  /\ Vals \subseteq Nat /\ Seed \in Vals
  /\ \A n \in Agents : Outcomes[n] \subseteq Outcome
  /\ HookEffects \subseteq Effects
  /\ CallerSends \subseteq Seq(Msg)
  /\ Fallible \subseteq Agents /\ Combiners \subseteq Agents
  /\ InterruptBefore \subseteq Agents /\ InterruptAfter \subseteq Agents
  /\ AggInit \in Nat /\ DagSize \in [Agents -> Nat]
  /\ {HasAggregator, HasMaster, CustomReducer, Parallel, ThreadConfigured}
       \subseteq BOOLEAN
  /\ MaxSteps \in Nat \ {0} /\ FaultTolerance \in Nat
  /\ Interval \in Nat /\ MaxCheckpoints \in Nat \cup {KeepAll}
  /\ MaxRuns \in Nat \ {0}

VARIABLES
  phase,      \* "loop" "exec" "reconcile" "fault" "update" "advance" "ok" "err"
  error,      \* the Err returned, "none" before
  step,       \* current_step
  active,     \* active_nodes
  scheduled,  \* some agent was scheduled since run() began (scheduled > 0)
  halted,     \* vertices whose vertex_state is Halted
  nodeInput,  \* node_inputs: what this super-step delivered to each agent
  pending,    \* pending_sends
  chan, ver,  \* channels and channel_versions
  seen,       \* versions_seen
  agg,        \* aggregator_acc
  env,        \* a variable of the execution environment (base_env)
  cache,      \* agent_input_cache and agent_outcome_cache; {} or one entry
  toExec, todo, jobs, \* to_execute; what this attempt has left; pool jobs
  attempt, undo,      \* attempt number and StepUndo.old_pending_sends
  baseEnv,    \* env when this attempt's private environments were cloned
  next,       \* next_active
  writes,     \* step_writes: values for the "result" channel, in order
  store,      \* checkpoints in the CheckpointSaver
  runs,       \* runs started so far
  blind,      \* history: this run could not load what there was to resume from
  hist        \* history variables, read by properties only

flowVars   == <<phase, error, step, active, scheduled>>
mailVars   == <<nodeInput, pending>>
chanVars   == <<chan, ver, seen>>
agentVars  == <<halted, env, cache>>
execVars   == <<toExec, todo, jobs, attempt, undo, baseEnv, next, writes>>
diskVars   == <<store, runs, blind>>
vars == <<flowVars, mailVars, chanVars, agg, agentVars, execVars, diskVars, hist>>

-----------------------------------------------------------------------------
(* Helpers *)

Targets(msgs) == {msgs[i].to : i \in DOMAIN msgs}
Targeted(n) == n \in Targets(pending)
MailTo(n, msgs) == SelectSeq(msgs, LAMBDA m : m.to = n)
LastVal(msgs) == msgs[Len(msgs)].val

\* The static hops out of a set of nodes: every unconditional edge fires, and any
\* subset of the conditional ones (an erroneous condition counts as false).
Hops(from) ==
  LET out == {e \in Edges : e[1] \in from}
  IN {{e[2] : e \in (out \ CondEdges) \cup true} : true \in SUBSET (out \cap CondEdges)}
ConditionEffects(from) ==
  IF \E e \in CondEdges : e[1] \in from THEN HookEffects \cup {NoEffects}
                                        ELSE {NoEffects}
\* Contributions fail when they name an aggregator the config does not declare.
Bad(eff) == eff.bad \/ (eff.add > 0 /\ ~HasAggregator)

\* A slip: everyone reads the shared slot of the last message delivered.
InputOfSlot(n) ==
  [c \in Channels |-> IF ver[c] <= seen[n][c] THEN NoVal ELSE chan[c]]
\* build_node_input: the channels written since n last executed.
Input(n) ==
  [c \in Channels |->
     IF ver[c] <= seen[n][c] THEN NoVal
     ELSE IF c = "input" /\ nodeInput[n] # NoVal THEN nodeInput[n]
     ELSE chan[c]]
\* A slip: only the first attempt of a step consults the cache.
HitFirstAttempt(n) == attempt = 0 /\ \E c \in cache[n] : c.input = Input(n)
Hit(n) == \E c \in cache[n] : c.input = Input(n)
Cached(n) == (CHOOSE c \in cache[n] : TRUE).outcome

\* The order of CheckpointSaver::list, and what load takes of it: the last.
NewerThan(c, S) == {d \in S : d.step > c.step \/ (d.step = c.step /\ d.run > c.run)}
Newest(S) == {c \in S : NewerThan(c, S) = {}}
Thread == IF ThreadConfigured THEN "pregel" ELSE "default"

\* History: `attempt` what the current attempt emitted and assigned, `mail` and
\* `planAdds` what preceded the attempt in this step, `ran` how often each body
\* ran to its end in this step.
AttemptHist == [emitted |-> <<>>, adds |-> 0, wrote |-> {}]
HistInit == [attempt |-> AttemptHist, mail |-> <<>>, planAdds |-> 0,
             ran |-> [n \in Agents |-> 0]]

-----------------------------------------------------------------------------
(* run_pregel_config: a fresh engine, restored from the newest checkpoint of  *)
(* thread "pregel" if there is one.  An error of load_checkpoint is swallowed *)
(* and counts as there being none.                                            *)

Resumable(S) == {c \in S : c.thread = "pregel"}
NoChan == [c \in Channels |-> NoVal]
NoVer == [c \in Channels |-> 0]
NeverSeen == [n \in Agents |-> NoVer]

FreshEngine ==
  [step |-> 0, chan |-> [NoChan EXCEPT !["seed"] = Seed],
   ver |-> [NoVer EXCEPT !["seed"] = 1], seen |-> NeverSeen, pending |-> <<>>]
\* A slip: the channels and their versions are not restored.
StartForgetful(S, failed) ==
  IF failed \/ Resumable(S) = {} THEN {FreshEngine}
  ELSE {[FreshEngine EXCEPT !.step = c.step, !.seen = c.seen] : c \in Newest(Resumable(S))}
StartEngines(S, failed) ==
  IF failed \/ Resumable(S) = {} THEN {FreshEngine} ELSE Newest(Resumable(S))

Init ==
  /\ phase = "loop" /\ error = "none" /\ step = 0 /\ active = {Start}
  /\ scheduled = FALSE /\ halted = {} /\ nodeInput = [n \in Agents |-> NoVal]
  /\ pending \in CallerSends
  /\ chan = FreshEngine.chan /\ ver = FreshEngine.ver /\ seen = NeverSeen
  /\ agg = AggInit /\ env \in Vals /\ cache = [n \in Agents |-> {}]
  /\ toExec = {} /\ todo = {} /\ jobs = {} /\ attempt = 0 /\ undo = <<>>
  /\ baseEnv = env /\ next = {} /\ writes = <<>>
  /\ store = {} /\ runs = 1 /\ blind = FALSE /\ hist = HistInit

\* The process is killed, or the run is over, and the program is run again.
Restart ==
  /\ runs < MaxRuns /\ runs' = runs + 1
  /\ \E failed \in BOOLEAN :
       /\ \E e \in StartEngines(store, failed), sends \in CallerSends :
            /\ step' = e.step /\ chan' = e.chan /\ ver' = e.ver /\ seen' = e.seen
            /\ pending' = e.pending \o sends
       /\ blind' = (failed /\ Resumable(store) # {})
  /\ phase' = "loop" /\ error' = "none" /\ active' = {Start} /\ scheduled' = FALSE
  /\ halted' = {} /\ nodeInput' = [n \in Agents |-> NoVal] /\ agg' = AggInit
  /\ env' \in Vals /\ cache' = [n \in Agents |-> {}]
  /\ toExec' = {} /\ todo' = {} /\ jobs' = {} /\ attempt' = 0 /\ undo' = <<>>
  /\ baseEnv' = env' /\ next' = {} /\ writes' = <<>> /\ hist' = HistInit
  /\ UNCHANGED store

-----------------------------------------------------------------------------
(* run(): PLAN *)

Looping == phase = "loop" /\ active # {} /\ step < MaxSteps

\* A slip: names that are no agents are not looked at.
PlannableNames == {n \in active : n \in halted => Targeted(n)}
\* A halted vertex is passed over unless a pending send targets it; a name no
\* agent has is executed only if one does (and EXEC then fails).
Plannable == {n \in active \ {Start} : (n \in halted => Targeted(n))
                                        /\ (n \in Agents \/ Targeted(n))}

Fail(why) == phase' = "err" /\ error' = why

\* interrupt_before refuses one of the planned nodes.
InterruptedBefore ==
  /\ Looping
  /\ Plannable \cap InterruptBefore # {}
  /\ Fail("interrupted") /\ agg' = AggInit
  /\ UNCHANGED <<step, active, scheduled, mailVars, chanVars, agentVars, execVars,
                 diskVars, hist>>

\* The next hop is computed from every active node, executed or not, with the
\* environment of before EXEC; begin_step then records the undo.
Plan ==
  /\ Looping
  /\ \E hop \in Hops(active), eff \in ConditionEffects(active) :
       /\ pending' = pending \o eff.sends
       /\ agg' = AggInit + eff.add
       /\ scheduled' = (scheduled \/ Plannable # {})
       /\ next' = hop
       /\ toExec' = Plannable /\ todo' = Plannable /\ jobs' = {}
       /\ attempt' = 0 /\ writes' = <<>> /\ baseEnv' = env
       /\ undo' = IF FaultTolerance > 0 THEN pending' ELSE <<>>
       /\ hist' = [HistInit EXCEPT !.mail = pending', !.planAdds = eff.add]
       /\ IF Bad(eff) THEN Fail("unknown aggregator")
                      ELSE phase' = "exec" /\ UNCHANGED error
  /\ UNCHANGED <<step, active, nodeInput, chanVars, agentVars, diskVars>>

-----------------------------------------------------------------------------
(* execute_step(): EXEC, with retries *)

\* reconcile_outcome of agent n, whose private environment ends with value e.
\* The cache, the vertex state, the environment and the write come first, then
\* the edges of n and their effects, then the effects of n itself.
Reconcile(n, o, e, h) ==
  \E hop \in Hops({n}), eff \in ConditionEffects({n}) :
    LET sends == eff.sends \o IF Bad(eff) THEN <<>> ELSE o.effects.sends
        adds  == eff.add + IF Bad(eff) THEN 0 ELSE o.effects.add
    IN
    /\ cache' = [cache EXCEPT ![n] = {[input |-> Input(n), outcome |-> o]}]
    /\ halted' = IF o.signal = "halt" THEN halted \cup {n} ELSE halted \ {n}
    /\ env' = e
    /\ writes' = Append(writes, o.result)
    /\ next' = next \cup hop
    /\ pending' = pending \o sends
    /\ agg' = agg + adds
    /\ IF Bad(eff) \/ Bad(o.effects) THEN phase' = "fault" ELSE UNCHANGED phase
    /\ hist' = [h EXCEPT !.attempt.emitted = @ \o sends, !.attempt.adds = @ + adds]

\* A slip: every private environment is cloned from that of the step's start.
AfterFromBase(n, o, from) == IF o.write = NoVal THEN baseEnv ELSE o.write
After(n, o, from) == IF o.write = NoVal THEN from ELSE o.write
RunHist(n, o) ==
  [hist EXCEPT !.ran[n] = @ + 1, !.attempt.wrote = @ \cup ({o.write} \ {NoVal})]

Handling(n) == phase = "exec" /\ n \in todo /\ \A m \in todo : n <= m
ExecFrame == UNCHANGED <<error, step, active, scheduled, nodeInput, chanVars,
                         toExec, attempt, undo, baseEnv, diskVars>>

\* A planned name that is no agent: "undefined agent".
ExecUndefined ==
  /\ Handling(Undefined)
  /\ phase' = "fault"
  /\ UNCHANGED <<mailVars, agg, agentVars, todo, jobs, next, writes, hist>> /\ ExecFrame

\* The input is the cached one: the body is not run, its outcome is replayed.
Skip(n) ==
  /\ Handling(n) /\ Hit(n)
  /\ Reconcile(n, Cached(n), env, hist)
  /\ todo' = todo \ {n}
  /\ UNCHANGED <<jobs>> /\ ExecFrame

\* Sequential: run the body in a clone of the environment, then reconcile.
RunAgent(n) ==
  /\ ~Parallel
  /\ Handling(n) /\ ~Hit(n)
  /\ \E o \in Outcomes[n] : Reconcile(n, o, After(n, o, env), RunHist(n, o))
  /\ todo' = todo \ {n}
  /\ UNCHANGED <<jobs>> /\ ExecFrame

AgentFails(n) ==
  /\ ~Parallel
  /\ Handling(n) /\ ~Hit(n) /\ n \in Fallible
  /\ phase' = "fault"
  /\ UNCHANGED <<mailVars, agg, agentVars, todo, jobs, next, writes, hist>> /\ ExecFrame

\* Parallel, PREPARE: the agent becomes a job of the batch.
Prepare(n) ==
  /\ Parallel
  /\ Handling(n) /\ ~Hit(n)
  /\ todo' = todo \ {n} /\ jobs' = jobs \cup {n}
  /\ UNCHANGED <<phase, mailVars, agg, agentVars, next, writes, hist>> /\ ExecFrame

\* Parallel, SPAWN: the batch comes back whole, or with an error or a timeout.
BatchDone ==
  /\ phase = "exec" /\ todo = {} /\ jobs # {}
  /\ phase' = "reconcile"
  /\ UNCHANGED <<mailVars, agg, agentVars, todo, jobs, next, writes, hist>> /\ ExecFrame

BatchFails ==
  /\ phase = "exec" /\ todo = {} /\ jobs \cap Fallible # {}
  /\ phase' = "fault"
  /\ UNCHANGED <<mailVars, agg, agentVars, todo, jobs, next, writes, hist>> /\ ExecFrame

\* Parallel, RECONCILE: outcomes in the order of dispatch, largest body first.
\* Every body ran in a clone made before any other was reconciled.
FirstJob(n) == n \in jobs /\ \A m \in jobs \ {n} :
                 DagSize[m] < DagSize[n] \/ (DagSize[m] = DagSize[n] /\ n < m)
ReconcileJob(n) ==
  /\ phase = "reconcile" /\ FirstJob(n)
  /\ \E o \in Outcomes[n] :
       Reconcile(n, o, After(n, o, baseEnv), RunHist(n, o))
  /\ jobs' = jobs \ {n}
  /\ UNCHANGED <<todo>> /\ ExecFrame

\* A slip: the contributions of the failed attempt stay.
RollbackKeepsAdds == pending' = undo /\ halted' = {} /\ UNCHANGED agg
\* rollback_step
Rollback == pending' = undo /\ halted' = {} /\ agg' = AggInit

\* Roll back, then the whole of to_execute again.  Note what stays: the environment,
\* the caches and next_active.
Retry ==
  /\ phase = "fault" /\ attempt < FaultTolerance
  /\ phase' = "exec" /\ attempt' = attempt + 1
  /\ Rollback
  /\ todo' = toExec /\ jobs' = {} /\ writes' = <<>> /\ baseEnv' = env
  /\ hist' = [hist EXCEPT !.attempt = AttemptHist]
  /\ UNCHANGED <<error, step, active, scheduled, nodeInput, chanVars, env, cache,
                 toExec, undo, next, diskVars>>

GiveUp ==
  /\ phase = "fault" /\ attempt = FaultTolerance
  /\ Fail("exec")
  /\ UNCHANGED <<step, active, scheduled, mailVars, chanVars, agg, agentVars,
                 execVars, diskVars, hist>>

\* EXEC succeeded: what each executed node has now seen is recorded, before
\* UPDATE and ADVANCE bump any version.
EndExec ==
  /\ phase \in {"exec", "reconcile"} /\ todo = {} /\ jobs = {}
  /\ phase' = "update"
  /\ seen' = [n \in Agents |-> IF n \in toExec THEN ver ELSE seen[n]]
  /\ UNCHANGED <<error, step, active, scheduled, mailVars, chan, ver, agg,
                 agentVars, execVars, diskVars, hist>>

-----------------------------------------------------------------------------
(* run(): UPDATE and master_compute *)

UpdateFrame == UNCHANGED <<step, active, scheduled, nodeInput, seen, agentVars,
                           toExec, todo, jobs, attempt, undo, baseEnv, next, diskVars>>
\* What user code of a hook emitted, folded into the engine.
Emit(eff) ==
  /\ pending' = pending \o eff.sends
  /\ agg' = agg + eff.add
  /\ hist' = [hist EXCEPT !.attempt.emitted = @ \o eff.sends, !.attempt.adds = @ + eff.add]

\* apply_write on "result": the last value wins, or a merge body computes one.
ApplyWrite ==
  /\ phase = "update" /\ writes # <<>>
  /\ writes' = Tail(writes)
  /\ ver' = [ver EXCEPT !["result"] = @ + 1]
  /\ \/ /\ ~CustomReducer
        /\ chan' = [chan EXCEPT !["result"] = Head(writes)]
        /\ UNCHANGED <<phase, error, pending, agg, hist>>
     \/ /\ CustomReducer
        /\ \E v \in Vals : chan' = [chan EXCEPT !["result"] = v]
        /\ \E eff \in HookEffects \cup {NoEffects} :
             Emit(eff) /\ ~Bad(eff) /\ UNCHANGED <<phase, error>>
  /\ UpdateFrame

ReducerFails ==
  /\ phase = "update" /\ writes # <<>> /\ CustomReducer
  /\ Fail("reducer")
  /\ UNCHANGED <<step, active, scheduled, mailVars, chanVars, agg, agentVars,
                 execVars, diskVars, hist>>

\* The aggregator becomes a channel, master_compute runs, and interrupt_after may
\* still refuse a node.
Publish ==
  /\ phase = "update" /\ writes = <<>>
  /\ IF HasAggregator
       THEN /\ chan' = [chan EXCEPT !["aggregator"] = agg]
            /\ ver' = [ver EXCEPT !["aggregator"] = @ + 1]
       ELSE UNCHANGED <<chan, ver>>
  /\ \/ HasMaster /\ Fail("master") /\ UNCHANGED <<pending, agg, hist>>
     \/ \E eff \in IF HasMaster THEN HookEffects \cup {NoEffects} ELSE {NoEffects} :
          /\ Emit(eff)
          /\ \/ ~Bad(eff) /\ phase' = "advance" /\ UNCHANGED error
             \/ ~Bad(eff) /\ toExec \cap InterruptAfter # {} /\ Fail("interrupted")
             \/ Bad(eff) /\ Fail("unknown aggregator")
  /\ UNCHANGED writes /\ UpdateFrame

-----------------------------------------------------------------------------
(* run(): ADVANCE, with the automatic checkpoint at its end *)

\* One delivered value per target: the last message sent to it, or whatever its
\* combiner makes of several.
Deliveries(to) ==
  {d \in [to -> Vals] :
     \A t \in to : LET mail == MailTo(t, pending)
                   IN (t \in Combiners /\ Len(mail) > 1) \/ d[t] = LastVal(mail)}
\* A slip: what an earlier step delivered is not cleared.
InboxKept(d) == [n \in Agents |-> IF n \in DOMAIN d THEN d[n] ELSE nodeInput[n]]
Inbox(d) == [n \in Agents |-> IF n \in DOMAIN d THEN d[n] ELSE NoVal]
\* A slip: only the edges activate, never a message.
FrontierOfEdges(d) == next
Frontier(d) == next \cup DOMAIN d
CombinersRan == \E t \in Targets(pending) \cap Combiners : Len(MailTo(t, pending)) > 1

Deliver(d) ==
  /\ nodeInput' = Inbox(d)
  /\ chan' \in IF d = <<>> THEN {chan} ELSE {[chan EXCEPT !["input"] = d[t]] : t \in DOMAIN d}
  /\ ver' = [ver EXCEPT !["input"] = @ + Cardinality(DOMAIN d)]

\* Targets are served in no fixed order: some may be before the one nobody knows.
Undeliverable ==
  /\ phase = "advance" /\ ~(Targets(pending) \subseteq Agents)
  /\ \E to \in SUBSET (Targets(pending) \cap Agents) : \E d \in Deliveries(to) : Deliver(d)
  /\ Fail("undefined target") /\ pending' = <<>>
  /\ UNCHANGED <<step, active, scheduled, seen, agg, agentVars, execVars, diskVars, hist>>

\* Retention: the checkpoints of the thread, oldest (step, then save order) first,
\* are deleted one by one until at most MaxCheckpoints are left.
Own(S, thread) == {c \in S : c.thread = thread}
\* Slips: oldest by the time of saving, whatever the step; the oldest ones are kept.
OlderRun(c, S) == {d \in S : d.run > c.run \/ (d.run = c.run /\ d.step > c.step)}
PruneByAge(S, max) ==
  {c \in S : c.thread = Thread => Cardinality(OlderRun(c, Own(S, Thread))) < max}
PruneOldestKept(S, max) ==
  {c \in S : c.thread = Thread =>
               Cardinality({d \in Own(S, Thread) : c \in NewerThan(d, S)}) < max}
Prune(S, max) ==
  {c \in S : c.thread = Thread => Cardinality(NewerThan(c, Own(S, Thread))) < max}

\* build_checkpoint, with the mail still to be delivered.
CheckpointWith(mail) ==
  [run |-> runs, thread |-> Thread, step |-> step',
   chan |-> chan', ver |-> ver', seen |-> seen, pending |-> mail]
\* A slip: the mail of before the delivery.
SnapshotOldMail == CheckpointWith(pending)
Snapshot == CheckpointWith(pending')

SaveDue == Interval > 0 /\ step' % Interval = 0
AutoSave ==
  LET saved == store \cup {Snapshot} IN
  IF ~SaveDue THEN phase' = "loop" /\ UNCHANGED <<error, store>>
  ELSE \/ /\ store' = IF MaxCheckpoints = KeepAll THEN saved ELSE Prune(saved, MaxCheckpoints)
          /\ phase' = "loop" /\ UNCHANGED error
       \/ store' = store /\ Fail("saver")
       \/ /\ MaxCheckpoints # KeepAll
          /\ store' \in {saved} \cup
                {Prune(saved, k) : k \in MaxCheckpoints + 1..Cardinality(saved)}
          /\ Fail("saver")

Advance ==
  /\ phase = "advance" /\ Targets(pending) \subseteq Agents
  /\ \E d \in Deliveries(Targets(pending)),
        eff \in IF CombinersRan THEN HookEffects \cup {NoEffects} ELSE {NoEffects} :
       /\ Deliver(d)
       /\ pending' = eff.sends /\ agg' = agg + eff.add
       /\ IF Bad(eff)
            THEN Fail("unknown aggregator") /\ UNCHANGED <<active, step, store>>
            ELSE /\ active' = Frontier(d)
                 /\ step' = step + 1
                 /\ AutoSave
  /\ UNCHANGED <<scheduled, seen, agentVars, execVars, runs, blind, hist>>

-----------------------------------------------------------------------------
(* The end of run() *)

Finish ==
  /\ phase = "loop" /\ (active = {} \/ step >= MaxSteps)
  /\ IF ~scheduled THEN Fail("never scheduled")
     ELSE IF active # {} THEN Fail("budget")
     ELSE phase' = "ok" /\ UNCHANGED error
  /\ UNCHANGED <<step, active, scheduled, mailVars, chanVars, agg, agentVars,
                 execVars, diskVars, hist>>

Done == phase \in {"ok", "err"} /\ runs = MaxRuns /\ UNCHANGED vars

Engine ==
  \/ InterruptedBefore \/ Plan
  \/ ExecUndefined \/ BatchDone \/ BatchFails
  \/ \E n \in Agents : Skip(n) \/ RunAgent(n) \/ AgentFails(n) \/ Prepare(n) \/ ReconcileJob(n)
  \/ Retry \/ GiveUp \/ EndExec
  \/ ApplyWrite \/ ReducerFails \/ Publish
  \/ Undeliverable \/ Advance \/ Finish

Next == Engine \/ Restart \/ Done

\* The loop is one thread that always has a next statement; bodies and hooks are
\* taken to return (a step_timeout turns one that does not into BatchFails).
Spec == Init /\ [][Next]_vars /\ WF_vars(Engine)

-----------------------------------------------------------------------------
(* Properties *)

\* Every variable holds a value of its kind.
TypeOK ==
  /\ phase \in {"loop", "exec", "reconcile", "fault", "update", "advance", "ok", "err"}
  /\ error \in {"none", "interrupted", "unknown aggregator", "exec", "reducer",
                "master", "undefined target", "saver", "never scheduled", "budget"}
  /\ step \in Nat /\ active \subseteq Nodes /\ scheduled \in BOOLEAN
  /\ halted \subseteq Agents /\ nodeInput \in [Agents -> Vals \cup {NoVal}]
  /\ pending \in Seq(Msg) /\ undo \in Seq(Msg)
  /\ chan \in [Channels -> Nat \cup {NoVal}] /\ ver \in [Channels -> Nat]
  /\ seen \in [Agents -> [Channels -> Nat]]
  /\ agg \in Nat /\ env \in Vals /\ baseEnv \in Vals
  /\ cache \in [Agents -> SUBSET CacheEntry]
  /\ toExec \subseteq Nodes \ {Start} /\ todo \subseteq toExec
  /\ jobs \subseteq toExec \cap Agents
  /\ attempt \in 0..FaultTolerance /\ next \subseteq Nodes /\ writes \in Seq(Vals)
  /\ store \subseteq Checkpoint /\ runs \in 1..MaxRuns

\* A node's record of what it has seen never runs ahead of the channels, in the
\* engine and in every checkpoint (otherwise a later write would be invisible).
SeenWithinVersions ==
  /\ \A n \in Agents, c \in Channels : seen[n][c] <= ver[c]
  /\ \A k \in store : \A n \in Agents, c \in Channels : k.seen[n][c] <= k.ver[c]

\* A node that was sent a message finds exactly that message under "input" when
\* it is executed, first activation and repeated ones alike: another target's
\* message in the shared slot never replaces it, and recording what the node has
\* seen never hides it.
WokenSeesItsMessage ==
  phase = "exec" => \A n \in Agents :
    n \in todo /\ nodeInput[n] # NoVal => Input(n)["input"] = nodeInput[n]

\* A failed attempt leaves nothing behind: at any point of a step the mail is that of
\* before EXEC and what the current attempt sent, and the aggregator counts the
\* current attempt's contributions once and no other attempt's.
OnlyThisAttemptCounts ==
  phase \in {"exec", "reconcile", "update", "advance"} =>
    /\ pending = hist.mail \o hist.attempt.emitted
    /\ agg = AggInit + hist.attempt.adds + IF attempt = 0 THEN hist.planAdds ELSE 0

\* In sequential mode a body that ran to its end is not run again by a retry of the
\* step: its outcome is replayed, so its outside effects happen once.
RunOncePerStep == ~Parallel => \A n \in Agents : hist.ran[n] <= 1

\* If a run ends well nothing was left behind: no active vertex, no message that a
\* combiner or the caller emitted, and some agent did run.
OkMeansQuiescent == phase = "ok" => active = {} /\ pending = <<>> /\ scheduled

\* A value some agent assigned to the shared variable in a step is still there (or
\* another agent's of the same step is) when the step ends.
WritesSurviveStep ==
  phase = "update" /\ hist.attempt.wrote # {} => env \in hist.attempt.wrote

\* What the comments on the vote to halt promise (pregel/mod.rs:105 and 219, mir/mod.rs:560)
\* and the code does not keep: a vertex that has voted is scheduled again when a message
\* arrives for it.
ArrivalWakes ==
  [][Plan => \A n \in halted : nodeInput[n] # NoVal => n \in toExec']_vars

-----------------------------------------------------------------------------
(* Checkpoints *)

\* Once a step has saved, its thread holds at most MaxCheckpoints, whatever earlier
\* runs and failed saves left behind; and where runs are resumed the checkpoint just
\* saved is among them, unless the run failed to load what there was to resume from.
\* (Such a run, as every run under "default", counts from step 0 again, and what an
\* earlier run left at later steps is kept in its place.)
RetentionKeepsNewest ==
  [][Advance /\ phase' = "loop" /\ SaveDue =>
       /\ MaxCheckpoints # KeepAll =>
            Cardinality({k \in store' : k.thread = Thread}) <= MaxCheckpoints
       /\ ThreadConfigured /\ ~blind /\ MaxCheckpoints # 0 =>
            \E k \in store' : k.run = runs /\ k.step = step']_vars

\* What the next run can resume from never falls back to an earlier step: not by a
\* kill, not by a save or a deletion that fails, and not by a run that, unable to load
\* it, starts over and lets its own retention loose on it.
ProgressKept ==
  [][MaxCheckpoints # 0 =>
       \A k \in Resumable(store) : \E m \in Resumable(store') : m.step >= k.step]_vars

\* A checkpoint is taken after the drain: the only mail in it is what combiners emitted
\* during the delivery, so that what was already delivered is not delivered again by
\* a run resumed from it.
CheckpointHoldsNoDeliveredMail ==
  \A k \in store : k.pending # <<>> =>
    Combiners # {} /\ \E eff \in HookEffects : k.pending = eff.sends

\* The engine implements the super-step machine: attempts, the batch, UPDATE and
\* ADVANCE are invisible from outside.
Abstract ==
  INSTANCE BSP WITH
    frontier <- active, inbox <- nodeInput,
    status <- IF phase = "ok" THEN "ok" ELSE IF phase = "err" THEN "failed" ELSE "running"
ImplementsBSP == Abstract!Spec
=============================================================================

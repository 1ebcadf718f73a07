---------------------------- MODULE PregelProofs ----------------------------
(***************************************************************************)
(* The Pregel engine, for every graph, every behaviour of the agents and   *)
(* hooks, any number of agents, retries, crashes and resumed runs.         *)
(*                                                                         *)
(* Delta inputs rest on two facts: no node's record of what it has seen    *)
(* runs ahead of the channels, and a node that was sent a message finds it *)
(* when it executes.                                                       *)
(*                                                                         *)
(* Super-steps: from outside a run is a sequence of them (the safety part  *)
(* of the refinement of module BSP); a run that ends well leaves no mail;  *)
(* what a step counts is one attempt's; what an agent did is not done      *)
(* again; and retention keeps what a later run can resume from.            *)
(***************************************************************************)
EXTENDS Pregel, RankingProofs

-----------------------------------------------------------------------------
(* Lemmas about the operators *)

\* The empty sequence is a sequence of messages and one of values.
LEMMA EmptySeq == <<>> \in Seq(Msg) /\ <<>> \in Seq(Vals)
OBVIOUS

\* A version counter bumped at one channel is a version counter, nowhere smaller.
LEMMA Bump ==
  ASSUME NEW f \in [Channels -> Nat], NEW c \in {"input", "result", "aggregator"}, NEW k \in Nat
  PROVE  /\ [f EXCEPT ![c] = @ + k] \in [Channels -> Nat]
         /\ \A d \in Channels : f[d] <= [f EXCEPT ![c] = @ + k][d]
         /\ [f EXCEPT ![c] = @ + k][c] = f[c] + k
<1>1. c \in Channels
  BY DEF Channels
<1>2. f[c] \in Nat /\ f[c] + k \in Nat
  BY <1>1
<1>3. [f EXCEPT ![c] = @ + k] \in [Channels -> Nat]
  BY <1>1, <1>2
<1>4. ASSUME NEW d \in Channels PROVE f[d] <= [f EXCEPT ![c] = @ + k][d]
  BY <1>2, <1>4
<1>5. [f EXCEPT ![c] = @ + k][c] = f[c] + k
  BY <1>1
<1>. QED BY <1>3, <1>4, <1>5

\* The static hops lead to nodes of the graph.
LEMMA HopsType ==
  ASSUME NEW from, NEW hop \in Hops(from) PROVE hop \subseteq Nodes
<1>. DEFINE out == {e \in Edges : e[1] \in from}
<1>1. PICK true \in SUBSET (out \cap CondEdges) : hop = {e[2] : e \in (out \ CondEdges) \cup true}
  BY DEF Hops
<1>2. \A e \in Edges : e[2] \in Nodes
  BY ConfigAssumption
<1>. QED BY <1>1, <1>2

\* Effects of conditions are effects.
LEMMA ConditionEffectsType ==
  ASSUME NEW from PROVE ConditionEffects(from) \subseteq Effects
<1>1. NoEffects \in Effects
  <2>1. <<>> \in Seq(Msg)
    OBVIOUS
  <2>. QED BY <2>1 DEF NoEffects, Effects
<1>2. HookEffects \subseteq Effects
  BY ConfigAssumption
<1>. QED BY <1>1, <1>2 DEF ConditionEffects

\* What a node is given is a value or nothing for each channel.
LEMMA InputType ==
  ASSUME NEW n \in Agents, TypeOK PROVE Input(n) \in Delta
<1>1. \A c \in Channels : chan[c] \in Int /\ nodeInput[n] \in Int
  <2>1. \A v \in Vals \cup {NoVal} : v \in Int
    BY ConfigAssumption DEF NoVal
  <2>2. chan \in [Channels -> Nat \cup {NoVal}] /\ nodeInput \in [Agents -> Vals \cup {NoVal}]
    BY DEF TypeOK
  <2>3. NoVal \in Int
    BY DEF NoVal
  <2>4. \A c \in Channels : chan[c] \in Int
    BY <2>2, <2>3
  <2>5. nodeInput[n] \in Vals \cup {NoVal}
    BY <2>2
  <2>6. nodeInput[n] \in Int
    BY <2>1, <2>5
  <2>. QED BY <2>4, <2>6
<1>2. \A c \in Channels :
        (IF ver[c] <= seen[n][c] THEN NoVal
         ELSE IF c = "input" /\ nodeInput[n] # NoVal THEN nodeInput[n] ELSE chan[c]) \in Int
  BY <1>1 DEF NoVal
<1>. QED BY <1>2 DEF Input, Delta

\* A cache hit replays an outcome.
LEMMA CachedType ==
  ASSUME NEW n \in Agents, TypeOK, Hit(n) PROVE Cached(n) \in Outcome
<1>1. cache[n] # {} /\ cache[n] \subseteq CacheEntry
  BY DEF Hit, TypeOK
<1>. QED BY <1>1 DEF Cached, CacheEntry

\* The targets of some messages are nodes, and finitely many.
LEMMA TargetsFinite ==
  ASSUME NEW msgs \in Seq(Msg)
  PROVE  /\ Targets(msgs) \subseteq Nodes /\ IsFiniteSet(Targets(msgs))
         /\ Cardinality(Targets(msgs)) \in Nat
         /\ \A t \in Targets(msgs) : Cardinality(Targets(msgs)) > 0
<1>1. \A i \in DOMAIN msgs : msgs[i] \in Msg
  OBVIOUS
<1>2. \A m \in Msg : m.to \in Nodes
  BY DEF Msg
<1>3. Targets(msgs) \subseteq Nodes
  BY <1>1, <1>2 DEF Targets
<1>4. IsFiniteSet(Nodes)
  BY ConfigAssumption, FS_Interval DEF Nodes
<1>5. IsFiniteSet(Targets(msgs))
  BY <1>3, <1>4, FS_Subset
<1>6. Cardinality(Targets(msgs)) \in Nat
  BY <1>5, FS_CardinalityType
<1>7. ASSUME NEW t \in Targets(msgs) PROVE Cardinality(Targets(msgs)) > 0
  BY <1>5, <1>6, <1>7, FS_EmptySet
<1>. QED BY <1>3, <1>5, <1>6, <1>7

-----------------------------------------------------------------------------
(* Type correctness *)

\* Small facts about the constants that most steps need.
LEMMA ConstantFacts ==
  /\ Vals \subseteq Nat /\ Seed \in Vals /\ AggInit \in Nat
  /\ Start \in Nodes /\ Agents \subseteq Nodes \ {Start} /\ Undefined \in Nodes \ {Start}
  /\ NoEffects \in Effects /\ HookEffects \subseteq Effects /\ CallerSends \subseteq Seq(Msg)
  /\ \A n \in Agents : Outcomes[n] \subseteq Outcome
  /\ FaultTolerance \in Nat /\ 0 \in 0..FaultTolerance
  /\ MaxRuns \in Nat \ {0} /\ Interval \in Nat /\ MaxSteps \in Nat \ {0}
<1>1. NumAgents \in Nat \ {0}
  BY ConfigAssumption
<1>2. Start \in Nodes /\ Agents \subseteq Nodes \ {Start} /\ Undefined \in Nodes \ {Start}
  BY <1>1 DEF Start, Nodes, Agents, Undefined
<1>3. NoEffects \in Effects
  <2>1. <<>> \in Seq(Msg)
    OBVIOUS
  <2>. QED BY <2>1 DEF NoEffects, Effects
<1>. QED BY <1>2, <1>3, ConfigAssumption

\* The initial state is well typed.
LEMMA InitType == Init => TypeOK
<1>. SUFFICES ASSUME Init PROVE TypeOK
  OBVIOUS
<1>1. chan \in [Channels -> Nat \cup {NoVal}] /\ ver \in [Channels -> Nat]
      /\ seen \in [Agents -> [Channels -> Nat]]
  BY ConstantFacts DEF Init, FreshEngine, NoChan, NoVer, NeverSeen, Channels
<1>2. active \subseteq Nodes /\ pending \in Seq(Msg) /\ nodeInput \in [Agents -> Vals \cup {NoVal}]
  BY ConstantFacts DEF Init
<1>3. phase = "loop" /\ error = "none" /\ step \in Nat /\ scheduled \in BOOLEAN
      /\ halted \subseteq Agents /\ agg \in Nat
  BY ConstantFacts DEF Init
<1>7. undo \in Seq(Msg) /\ writes \in Seq(Vals)
  <2>1. undo = <<>> /\ writes = <<>>
    BY DEF Init
  <2>. QED BY <2>1
<1>4. env \in Vals /\ baseEnv \in Vals /\ cache \in [Agents -> SUBSET CacheEntry]
  BY DEF Init
<1>5. toExec \subseteq Nodes \ {Start} /\ todo \subseteq toExec /\ jobs \subseteq toExec \cap Agents
      /\ attempt \in 0..FaultTolerance /\ next \subseteq Nodes
  BY ConstantFacts DEF Init
<1>6. store \subseteq Checkpoint /\ runs \in 1..MaxRuns
  BY ConstantFacts DEF Init
<1>. QED BY <1>1, <1>2, <1>3, <1>4, <1>5, <1>6, <1>7 DEF TypeOK

\* reconcile_outcome keeps the engine well typed.
LEMMA ReconcileType ==
  ASSUME TypeOK, NEW n \in Agents, NEW o \in Outcome, NEW e \in Vals, NEW h,
         Reconcile(n, o, e, h)
  PROVE  /\ cache' \in [Agents -> SUBSET CacheEntry] /\ halted' \subseteq Agents
         /\ env' \in Vals /\ writes' \in Seq(Vals) /\ next' \subseteq Nodes
         /\ pending' \in Seq(Msg) /\ agg' \in Nat
         /\ phase' \in {phase, "fault"}
<1>1. PICK hop \in Hops({n}), eff \in ConditionEffects({n}) :
        /\ next' = next \cup hop
        /\ pending' = pending \o (eff.sends \o IF Bad(eff) THEN <<>> ELSE o.effects.sends)
        /\ agg' = agg + (eff.add + IF Bad(eff) THEN 0 ELSE o.effects.add)
  BY DEF Reconcile
<1>2. eff \in Effects /\ o.effects \in Effects /\ o.result \in Vals
  BY ConditionEffectsType DEF Outcome
<1>3. eff.sends \in Seq(Msg) /\ o.effects.sends \in Seq(Msg) /\ eff.add \in Nat /\ o.effects.add \in Nat
  BY <1>2 DEF Effects
<1>4. pending \in Seq(Msg) /\ agg \in Nat /\ writes \in Seq(Vals) /\ next \subseteq Nodes
      /\ halted \subseteq Agents /\ cache \in [Agents -> SUBSET CacheEntry]
  BY DEF TypeOK
<1>5. pending' \in Seq(Msg)
  <2>1. (IF Bad(eff) THEN <<>> ELSE o.effects.sends) \in Seq(Msg)
    BY <1>3
  <2>. QED BY <1>1, <1>3, <1>4, <2>1
<1>6. agg' \in Nat
  BY <1>1, <1>3, <1>4
<1>7. next' \subseteq Nodes
  BY <1>1, <1>4, HopsType
<1>8. cache' \in [Agents -> SUBSET CacheEntry]
  <2>1. [input |-> Input(n), outcome |-> o] \in CacheEntry
    BY InputType DEF CacheEntry
  <2>2. cache' = [cache EXCEPT ![n] = {[input |-> Input(n), outcome |-> o]}]
    BY DEF Reconcile
  <2>. QED BY <2>1, <2>2, <1>4
<1>9. env' = e /\ writes' = Append(writes, o.result) /\ phase' \in {phase, "fault"}
      /\ halted' \subseteq halted \cup {n}
  BY DEF Reconcile
<1>. QED BY <1>2, <1>4, <1>5, <1>6, <1>7, <1>8, <1>9

\* PLAN keeps the engine well typed.
LEMMA PlanType == ASSUME TypeOK, Plan PROVE TypeOK'
<1>1. PICK hop \in Hops(active), eff \in ConditionEffects(active) :
        /\ pending' = pending \o eff.sends /\ agg' = AggInit + eff.add /\ next' = hop
        /\ IF Bad(eff) THEN Fail("unknown aggregator") ELSE phase' = "exec" /\ UNCHANGED error
  BY DEF Plan
<1>2. eff \in Effects
  BY ConditionEffectsType
<1>3. pending' \in Seq(Msg) /\ agg' \in Nat
  <2>1. eff.sends \in Seq(Msg) /\ eff.add \in Nat
    BY <1>2 DEF Effects
  <2>2. pending \in Seq(Msg) /\ AggInit \in Nat
    BY ConstantFacts DEF TypeOK
  <2>3. pending \o eff.sends \in Seq(Msg) /\ AggInit + eff.add \in Nat
    BY <2>1, <2>2
  <2>. QED BY <1>1, <2>3
<1>4. next' \subseteq Nodes
  BY <1>1, HopsType
<1>5. Plannable \subseteq Nodes \ {Start}
  BY DEF Plannable, TypeOK
<1>6. undo' \in Seq(Msg)
  <2>1. undo' \in {pending', <<>>}
    BY DEF Plan
  <2>. QED BY <2>1, <1>3, EmptySeq
<1>7. writes' \in Seq(Vals) /\ attempt' \in 0..FaultTolerance /\ baseEnv' \in Vals
  <2>1. writes' = <<>> /\ attempt' = 0 /\ baseEnv' = env
    BY DEF Plan
  <2>2. env \in Vals /\ 0 \in 0..FaultTolerance
    BY ConstantFacts DEF TypeOK
  <2>. QED BY <2>1, <2>2, EmptySeq
<1>8. toExec' \subseteq Nodes \ {Start} /\ todo' \subseteq toExec' /\ jobs' \subseteq toExec' \cap Agents
  BY <1>5 DEF Plan
<1>9. phase' \in {"err", "exec"} /\ error' \in {error, "unknown aggregator"}
      /\ scheduled' \in BOOLEAN
  BY <1>1 DEF Fail, Plan
<1>. QED BY <1>3, <1>4, <1>6, <1>7, <1>8, <1>9 DEF TypeOK, Plan, chanVars, agentVars, diskVars

\* A reconciled outcome, replayed, just run or come back from the pool.
LEMMA ReconciledType ==
  ASSUME TypeOK, NEW n \in Agents, NEW o \in Outcome, NEW e \in Vals, NEW h,
         Reconcile(n, o, e, h), ExecFrame,
         todo' \subseteq todo, jobs' \subseteq jobs
  PROVE  TypeOK'
<1>1. /\ cache' \in [Agents -> SUBSET CacheEntry] /\ halted' \subseteq Agents
      /\ env' \in Vals /\ writes' \in Seq(Vals) /\ next' \subseteq Nodes
      /\ pending' \in Seq(Msg) /\ agg' \in Nat
      /\ phase' \in {phase, "fault"}
  BY ReconcileType
<1>2. UNCHANGED <<error, step, active, scheduled, nodeInput, chan, ver, seen,
                  toExec, attempt, undo, baseEnv, store, runs>>
  BY DEF ExecFrame, chanVars, diskVars
<1>3. todo' \subseteq toExec' /\ jobs' \subseteq toExec' \cap Agents
  BY <1>2 DEF TypeOK
<1>. QED BY <1>1, <1>2, <1>3 DEF TypeOK

\* The value the shared variable has after a body ran.
LEMMA AfterType ==
  ASSUME NEW n, NEW o \in Outcome, NEW from \in Vals PROVE After(n, o, from) \in Vals
BY DEF After, Outcome

\* The steps of EXEC that reconcile nothing.
LEMMA ExecStepType ==
  ASSUME TypeOK, ExecUndefined \/ BatchDone \/ BatchFails
                   \/ \E n \in Agents : AgentFails(n) \/ Prepare(n)
  PROVE  TypeOK'
<1>1. UNCHANGED <<error, step, active, scheduled, nodeInput, chan, ver, seen,
                  toExec, attempt, undo, baseEnv, store, runs>>
  BY DEF ExecUndefined, BatchDone, BatchFails, AgentFails, Prepare, ExecFrame, chanVars, diskVars
<1>2. UNCHANGED <<pending, agg, halted, env, cache, next, writes>>
  BY DEF ExecUndefined, BatchDone, BatchFails, AgentFails, Prepare, mailVars, agentVars
<1>3. phase' \in {phase, "fault", "reconcile"}
  BY DEF ExecUndefined, BatchDone, BatchFails, AgentFails, Prepare
<1>4. todo' \subseteq todo /\ jobs' \subseteq toExec \cap Agents
  BY DEF ExecUndefined, BatchDone, BatchFails, AgentFails, Prepare, Handling, TypeOK
<1>. QED BY <1>1, <1>2, <1>3, <1>4 DEF TypeOK

\* Every step of EXEC.
LEMMA ExecType ==
  ASSUME TypeOK, ExecUndefined \/ BatchDone \/ BatchFails
                   \/ \E n \in Agents : Skip(n) \/ RunAgent(n) \/ AgentFails(n) \/ Prepare(n)
                                          \/ ReconcileJob(n)
  PROVE  TypeOK'
<1>1. CASE \E n \in Agents : Skip(n)
  <2>1. PICK n \in Agents : Skip(n)
    BY <1>1
  <2>2. Hit(n) /\ Reconcile(n, Cached(n), env, hist) /\ ExecFrame
        /\ todo' \subseteq todo /\ jobs' \subseteq jobs
    BY <2>1 DEF Skip
  <2>3. env \in Vals /\ Cached(n) \in Outcome
    BY <2>2, CachedType DEF TypeOK
  <2>. QED BY <2>2, <2>3, ReconciledType
<1>2. CASE \E n \in Agents : RunAgent(n)
  <2>1. PICK n \in Agents : RunAgent(n)
    BY <1>2
  <2>2. PICK o \in Outcomes[n] : Reconcile(n, o, After(n, o, env), RunHist(n, o))
    BY <2>1 DEF RunAgent
  <2>3. ExecFrame /\ todo' \subseteq todo /\ jobs' \subseteq jobs
    BY <2>1 DEF RunAgent
  <2>4. o \in Outcome /\ After(n, o, env) \in Vals
    BY ConstantFacts, AfterType DEF TypeOK
  <2>. QED BY <2>2, <2>3, <2>4, ReconciledType
<1>3. CASE \E n \in Agents : ReconcileJob(n)
  <2>1. PICK n \in Agents : ReconcileJob(n)
    BY <1>3
  <2>2. PICK o \in Outcomes[n] : Reconcile(n, o, After(n, o, baseEnv), RunHist(n, o))
    BY <2>1 DEF ReconcileJob
  <2>3. ExecFrame /\ todo' \subseteq todo /\ jobs' \subseteq jobs
    BY <2>1 DEF ReconcileJob
  <2>4. o \in Outcome /\ After(n, o, baseEnv) \in Vals
    BY ConstantFacts, AfterType DEF TypeOK
  <2>. QED BY <2>2, <2>3, <2>4, ReconciledType
<1>. QED BY <1>1, <1>2, <1>3, ExecStepType

\* A retry, its exhaustion and the end of EXEC keep the engine well typed.
LEMMA AttemptType == ASSUME TypeOK, Retry \/ GiveUp \/ EndExec PROVE TypeOK'
<1>1. CASE Retry
  <2>1. /\ phase' = "exec" /\ pending' = undo /\ halted' = {} /\ agg' = AggInit
        /\ todo' = toExec /\ jobs' = {} /\ writes' = <<>> /\ baseEnv' = env
        /\ UNCHANGED <<error, step, active, scheduled, nodeInput, chan, ver, seen, env,
                       cache, toExec, undo, next, store, runs>>
    BY <1>1 DEF Retry, Rollback, chanVars, diskVars
  <2>2. attempt' \in 0..FaultTolerance
    <3>1. attempt \in 0..FaultTolerance /\ attempt < FaultTolerance /\ attempt' = attempt + 1
      BY <1>1 DEF Retry, TypeOK
    <3>. QED BY <3>1, ConstantFacts
  <2>3. writes' \in Seq(Vals)
    BY <2>1, EmptySeq
  <2>. QED BY <2>1, <2>2, <2>3, ConstantFacts DEF TypeOK
<1>2. CASE GiveUp
  BY <1>2 DEF GiveUp, Fail, TypeOK, mailVars, chanVars, agentVars, execVars, diskVars
<1>3. CASE EndExec
  <2>1. seen' \in [Agents -> [Channels -> Nat]]
    BY <1>3 DEF EndExec, TypeOK
  <2>. QED BY <1>3, <2>1 DEF EndExec, TypeOK, mailVars, agentVars, execVars, diskVars
<1>. QED BY <1>1, <1>2, <1>3

\* UPDATE keeps the engine well typed.
LEMMA UpdateType == ASSUME TypeOK, ApplyWrite \/ ReducerFails \/ Publish PROVE TypeOK'
<1>1. ASSUME NEW eff \in Effects, Emit(eff) PROVE pending' \in Seq(Msg) /\ agg' \in Nat
  <2>1. eff.sends \in Seq(Msg) /\ eff.add \in Nat /\ pending \in Seq(Msg) /\ agg \in Nat
    BY DEF Effects, TypeOK
  <2>2. pending \o eff.sends \in Seq(Msg) /\ agg + eff.add \in Nat
    BY <2>1
  <2>. QED BY <1>1, <2>2 DEF Emit
<1>2. ASSUME UpdateFrame
      PROVE  UNCHANGED <<step, active, scheduled, nodeInput, seen, halted, env, cache,
                         toExec, todo, jobs, attempt, undo, baseEnv, next, store, runs>>
  BY <1>2 DEF UpdateFrame, agentVars, diskVars
<1>3. CASE ApplyWrite
  <2>1. writes' \in Seq(Vals) /\ ver' \in [Channels -> Nat]
    <3>1. writes \in Seq(Vals) /\ writes # <<>> /\ writes' = Tail(writes)
      BY <1>3 DEF ApplyWrite, TypeOK
    <3>2. ver \in [Channels -> Nat] /\ ver' = [ver EXCEPT !["result"] = @ + 1]
      BY <1>3 DEF ApplyWrite, TypeOK
    <3>3. Tail(writes) \in Seq(Vals)
      BY <3>1
    <3>4. [ver EXCEPT !["result"] = @ + 1] \in [Channels -> Nat]
      BY <3>2, Bump
    <3>. QED BY <3>1, <3>2, <3>3, <3>4
  <2>2. \E v \in Vals : chan' = [chan EXCEPT !["result"] = v]
    <3>1. Head(writes) \in Vals
      <4>1. writes \in Seq(Vals) /\ writes # <<>>
        BY <1>3 DEF ApplyWrite, TypeOK
      <4>. QED BY <4>1
    <3>. QED BY <1>3, <3>1 DEF ApplyWrite
  <2>3. chan' \in [Channels -> Nat \cup {NoVal}]
    BY <2>2, ConstantFacts DEF TypeOK, Channels
  <2>4. pending' \in Seq(Msg) /\ agg' \in Nat /\ UNCHANGED <<phase, error>>
    <3>1. CASE UNCHANGED <<phase, error, pending, agg>>
      BY <3>1 DEF TypeOK
    <3>2. CASE \E eff \in HookEffects \cup {NoEffects} : Emit(eff) /\ UNCHANGED <<phase, error>>
      BY <3>2, <1>1, ConstantFacts
    <3>. QED BY <1>3, <3>1, <3>2 DEF ApplyWrite
  <2>. QED BY <1>3, <1>2, <2>1, <2>3, <2>4 DEF ApplyWrite, TypeOK
<1>4. CASE ReducerFails
  BY <1>4 DEF ReducerFails, Fail, TypeOK, mailVars, chanVars, agentVars, execVars, diskVars
<1>5. CASE Publish
  <2>1. /\ \/ UNCHANGED <<pending, agg>> \/ \E eff \in Effects : Emit(eff)
        /\ phase' \in {"advance", "err"}
        /\ error' \in {error, "master", "interrupted", "unknown aggregator"}
    BY <1>5, ConstantFacts DEF Publish, Fail
  <2>2. pending' \in Seq(Msg) /\ agg' \in Nat
    BY <2>1, <1>1 DEF TypeOK
  <2>3. chan' \in [Channels -> Nat \cup {NoVal}] /\ ver' \in [Channels -> Nat]
    <3>1. /\ chan \in [Channels -> Nat \cup {NoVal}] /\ ver \in [Channels -> Nat]
          /\ agg \in Nat
      BY DEF TypeOK
    <3>2. \/ UNCHANGED <<chan, ver>>
          \/ chan' = [chan EXCEPT !["aggregator"] = agg] /\ ver' = [ver EXCEPT !["aggregator"] = @ + 1]
      BY <1>5 DEF Publish
    <3>3. [ver EXCEPT !["aggregator"] = @ + 1] \in [Channels -> Nat]
      BY <3>1, Bump
    <3>4. [chan EXCEPT !["aggregator"] = agg] \in [Channels -> Nat \cup {NoVal}]
      BY <3>1
    <3>. QED BY <3>1, <3>2, <3>3, <3>4
  <2>4. UNCHANGED writes /\ UpdateFrame
    BY <1>5 DEF Publish
  <2>. QED BY <1>2, <2>1, <2>2, <2>3, <2>4 DEF TypeOK
<1>. QED BY <1>3, <1>4, <1>5

\* What is delivered to some agents, and what that does to the channels: every
\* version stays or grows, and "input" is newer than before for every addressee.
LEMMA DeliverType ==
  ASSUME TypeOK, NEW to \in SUBSET Agents, to \subseteq Targets(pending),
         NEW d \in Deliveries(to), Deliver(d)
  PROVE  /\ DOMAIN d = to /\ nodeInput' \in [Agents -> Vals \cup {NoVal}]
         /\ chan' \in [Channels -> Nat \cup {NoVal}] /\ ver' \in [Channels -> Nat]
         /\ \A c \in Channels : ver[c] <= ver'[c]
         /\ \A n \in Agents : nodeInput'[n] # NoVal => ver["input"] < ver'["input"]
<1>1. d \in [to -> Vals]
  BY DEF Deliveries
<1>2. Cardinality(to) \in Nat /\ \A t \in to : Cardinality(to) > 0
  <2>1. IsFiniteSet(to)
    BY TargetsFinite, FS_Subset DEF TypeOK
  <2>. QED BY <2>1, FS_CardinalityType, FS_EmptySet
<1>3. nodeInput' \in [Agents -> Vals \cup {NoVal}]
  BY <1>1 DEF Deliver, Inbox
<1>4. chan' \in [Channels -> Nat \cup {NoVal}]
  <2>1. chan \in [Channels -> Nat \cup {NoVal}]
    BY DEF TypeOK
  <2>2. ASSUME NEW t \in DOMAIN d
        PROVE  [chan EXCEPT !["input"] = d[t]] \in [Channels -> Nat \cup {NoVal}]
    <3>1. \A v \in Vals : v \in Nat \cup {NoVal}
      BY ConstantFacts
    <3>2. d[t] \in Vals
      BY <1>1
    <3>. QED BY <2>1, <3>1, <3>2
  <2>3. chan' \in {chan} \cup {[chan EXCEPT !["input"] = d[t]] : t \in DOMAIN d}
    BY DEF Deliver
  <2>. QED BY <2>1, <2>2, <2>3
<1>5. ver \in [Channels -> Nat] /\ ver' = [ver EXCEPT !["input"] = @ + Cardinality(to)]
  BY <1>1 DEF Deliver, TypeOK
<1>6. /\ ver' \in [Channels -> Nat] /\ \A c \in Channels : ver[c] <= ver'[c]
      /\ ver'["input"] = ver["input"] + Cardinality(to)
  BY <1>2, <1>5, Bump
<1>7. ASSUME NEW n \in Agents, nodeInput'[n] # NoVal PROVE ver["input"] < ver'["input"]
  <2>1. n \in to
    BY <1>1, <1>7 DEF Deliver, Inbox
  <2>2. ver["input"] \in Nat
    BY <1>5 DEF Channels
  <2>. QED BY <2>1, <2>2, <1>2, <1>6
<1>. QED BY <1>1, <1>3, <1>4, <1>6, <1>7

\* What ADVANCE leaves in the saver: what was there, or also the new checkpoint.
LEMMA SaverKeepsOrAdds ==
  ASSUME AutoSave
  PROVE  /\ store' \subseteq store \cup {Snapshot}
         /\ phase' \in {"loop", "err"} /\ error' \in {error, "saver"}
BY DEF AutoSave, Prune, Fail

\* ADVANCE keeps the engine well typed, and the checkpoint it saves is one.
LEMMA AdvanceType == ASSUME TypeOK, Advance PROVE TypeOK'
<1>1. PICK d \in Deliveries(Targets(pending)), eff \in HookEffects \cup {NoEffects} :
        /\ Deliver(d)
        /\ pending' = eff.sends /\ agg' = agg + eff.add
        /\ IF Bad(eff)
             THEN Fail("unknown aggregator") /\ UNCHANGED <<active, step, store>>
             ELSE active' = Frontier(d) /\ step' = step + 1 /\ AutoSave
  BY DEF Advance
<1>2. Targets(pending) \subseteq Agents
  BY DEF Advance
<1>3. /\ DOMAIN d = Targets(pending) /\ nodeInput' \in [Agents -> Vals \cup {NoVal}]
      /\ chan' \in [Channels -> Nat \cup {NoVal}] /\ ver' \in [Channels -> Nat]
  BY <1>1, <1>2, DeliverType
<1>6. pending' \in Seq(Msg) /\ agg' \in Nat
  <2>1. eff \in Effects
    BY ConstantFacts
  <2>2. eff.sends \in Seq(Msg) /\ eff.add \in Nat /\ agg \in Nat
    BY <2>1 DEF Effects, TypeOK
  <2>3. agg + eff.add \in Nat
    BY <2>2
  <2>. QED BY <1>1, <2>2, <2>3
<1>7. active' \subseteq Nodes /\ step' \in Nat
  <2>1. next \cup DOMAIN d \subseteq Nodes /\ active \subseteq Nodes /\ step \in Nat
    BY <1>2, <1>3, ConstantFacts DEF TypeOK
  <2>2. step + 1 \in Nat
    BY <2>1
  <2>. QED BY <1>1, <2>1, <2>2 DEF Frontier
<1>8. /\ store' \subseteq store \cup {Snapshot}
      /\ phase' \in {"loop", "err"} /\ error' \in {error, "saver", "unknown aggregator"}
  BY <1>1, SaverKeepsOrAdds DEF Fail
<1>9. Snapshot \in Checkpoint
  <2>1. Thread \in {"pregel", "default"}
    BY DEF Thread
  <2>3. runs \in Nat
    <3>1. runs \in 1..MaxRuns
      BY DEF TypeOK
    <3>. QED BY <3>1, ConstantFacts
  <2>4. seen \in [Agents -> [Channels -> Nat]]
    BY DEF TypeOK
  <2>. QED BY <2>1, <2>3, <2>4, <1>3, <1>6, <1>7 DEF Snapshot, CheckpointWith, Checkpoint
<1>10. store' \subseteq Checkpoint
  BY <1>8, <1>9 DEF TypeOK
<1>11. UNCHANGED <<scheduled, seen, halted, env, cache, toExec, todo, jobs, attempt, undo,
                   baseEnv, next, writes, runs>>
  BY DEF Advance, agentVars, execVars
<1>. QED BY <1>3, <1>6, <1>7, <1>8, <1>10, <1>11 DEF TypeOK

\* A run starts from nothing or from a checkpoint of the store.
LEMMA EnginesFrom ==
  \A S, failed : StartEngines(S, failed) \subseteq {FreshEngine} \cup S
BY DEF StartEngines, Newest, Resumable

\* A run starts well typed, from nothing or from a checkpoint.
LEMMA RestartType == ASSUME TypeOK, Restart PROVE TypeOK'
<1>1. PICK e \in {FreshEngine} \cup store, sends \in CallerSends :
        /\ step' = e.step /\ chan' = e.chan /\ ver' = e.ver /\ seen' = e.seen
        /\ pending' = e.pending \o sends
  BY EnginesFrom DEF Restart
<1>2. /\ step' \in Nat /\ chan' \in [Channels -> Nat \cup {NoVal}] /\ ver' \in [Channels -> Nat]
      /\ seen' \in [Agents -> [Channels -> Nat]] /\ e.pending \in Seq(Msg)
  <2>1. CASE e = FreshEngine
    <3>1. /\ FreshEngine.chan \in [Channels -> Nat \cup {NoVal}]
          /\ FreshEngine.ver \in [Channels -> Nat]
          /\ FreshEngine.seen \in [Agents -> [Channels -> Nat]]
      BY ConstantFacts DEF FreshEngine, NoChan, NoVer, NeverSeen, Channels
    <3>2. FreshEngine.step \in Nat /\ FreshEngine.pending \in Seq(Msg)
      BY EmptySeq DEF FreshEngine
    <3>. QED BY <1>1, <2>1, <3>1, <3>2
  <2>2. CASE e \in store
    <3>1. e \in Checkpoint
      BY <2>2 DEF TypeOK
    <3>. QED BY <1>1, <3>1 DEF Checkpoint
  <2>. QED BY <2>1, <2>2
<1>3. pending' \in Seq(Msg)
  <2>1. sends \in Seq(Msg)
    BY ConstantFacts
  <2>. QED BY <1>1, <1>2, <2>1
<1>4. runs' \in 1..MaxRuns
  <2>1. runs \in 1..MaxRuns /\ runs < MaxRuns /\ runs' = runs + 1
    BY DEF TypeOK, Restart
  <2>. QED BY <2>1, ConstantFacts
<1>5. undo' \in Seq(Msg) /\ writes' \in Seq(Vals)
  BY EmptySeq DEF Restart
<1>6. /\ phase' = "loop" /\ error' = "none" /\ scheduled' \in BOOLEAN /\ halted' = {}
      /\ toExec' = {} /\ todo' = {} /\ jobs' = {} /\ next' = {} /\ attempt' = 0
      /\ env' \in Vals /\ baseEnv' \in Vals /\ UNCHANGED store
  BY DEF Restart
<1>7. /\ active' \subseteq Nodes /\ agg' \in Nat /\ nodeInput' \in [Agents -> Vals \cup {NoVal}]
      /\ cache' \in [Agents -> SUBSET CacheEntry] /\ attempt' \in 0..FaultTolerance
  BY <1>6, ConstantFacts DEF Restart
<1>. QED BY <1>2, <1>3, <1>4, <1>5, <1>6, <1>7 DEF TypeOK

\* The engine is well typed in every reachable state.
LEMMA TypeStep == TypeOK /\ [Next]_vars => TypeOK'
<1>. SUFFICES ASSUME TypeOK, [Next]_vars PROVE TypeOK'
  OBVIOUS
<1>1. CASE InterruptedBefore
  BY <1>1, ConstantFacts
     DEF InterruptedBefore, Fail, TypeOK, mailVars, chanVars, agentVars, execVars, diskVars
<1>2. CASE Plan
  BY <1>2, PlanType
<1>3. CASE ExecUndefined \/ BatchDone \/ BatchFails
             \/ \E n \in Agents : Skip(n) \/ RunAgent(n) \/ AgentFails(n) \/ Prepare(n)
                                    \/ ReconcileJob(n)
  BY <1>3, ExecType
<1>4. CASE Retry \/ GiveUp \/ EndExec
  BY <1>4, AttemptType
<1>5. CASE ApplyWrite \/ ReducerFails \/ Publish
  BY <1>5, UpdateType
<1>6. CASE Undeliverable
  <2>1. PICK to \in SUBSET (Targets(pending) \cap Agents) : \E d \in Deliveries(to) : Deliver(d)
    BY <1>6 DEF Undeliverable
  <2>2. /\ nodeInput' \in [Agents -> Vals \cup {NoVal}]
        /\ chan' \in [Channels -> Nat \cup {NoVal}] /\ ver' \in [Channels -> Nat]
    BY <2>1, DeliverType
  <2>. QED BY <1>6, <2>2, EmptySeq
           DEF Undeliverable, Fail, TypeOK, agentVars, execVars, diskVars
<1>7. CASE Advance
  BY <1>7, AdvanceType
<1>8. CASE Finish
  BY <1>8 DEF Finish, Fail, TypeOK, mailVars, chanVars, agentVars, execVars, diskVars
<1>9. CASE Restart
  BY <1>9, RestartType
<1>10. CASE UNCHANGED vars
  BY <1>10 DEF TypeOK, vars, flowVars, mailVars, chanVars, agentVars, execVars, diskVars
<1>. QED
  BY <1>1, <1>2, <1>3, <1>4, <1>5, <1>6, <1>7, <1>8, <1>9, <1>10 DEF Next, Engine, Done

\* Every variable of the engine holds a value of its kind in every reachable state,
\* for every graph and every behaviour of agents, hooks and saver.
THEOREM TypeCorrect == Spec => []TypeOK
<1>. QED BY InitType, TypeStep, PTL DEF Spec

-----------------------------------------------------------------------------
(* Versions *)

\* The inductive form: while the mail of the last ADVANCE is not yet recorded as
\* seen, "input" is newer than what its addressees have seen.
FreshMail ==
  phase \in {"loop", "exec", "reconcile", "fault"} =>
    \A n \in Agents : nodeInput[n] # NoVal => seen[n]["input"] < ver["input"]

VersionInv == TypeOK /\ SeenWithinVersions /\ FreshMail

Before == {"loop", "exec", "reconcile", "fault"}

\* The steps that touch neither versions nor mail, and do not go back in front of
\* the point where EXEC records what was seen.
LEMMA QuietSteps ==
  ASSUME [Next]_vars, ~EndExec, ~ApplyWrite, ~Publish, ~Undeliverable, ~Advance, ~Restart
  PROVE  /\ UNCHANGED <<ver, seen, store, nodeInput>>
         /\ phase' \in Before => phase \in Before
<1>1. CASE InterruptedBefore \/ Plan
  BY <1>1 DEF InterruptedBefore, Plan, Looping, Fail, mailVars, chanVars, diskVars, Before
<1>2. CASE ExecUndefined \/ BatchDone \/ BatchFails
  BY <1>2 DEF ExecUndefined, BatchDone, BatchFails, Handling, ExecFrame, mailVars, chanVars,
              diskVars, Before
<1>3. CASE \E n \in Agents : Skip(n) \/ RunAgent(n) \/ AgentFails(n) \/ Prepare(n) \/ ReconcileJob(n)
  <2>1. ExecFrame /\ phase \in Before
    BY <1>3 DEF Skip, RunAgent, AgentFails, Prepare, ReconcileJob, Handling, Before
  <2>. QED BY <2>1 DEF ExecFrame, mailVars, chanVars, diskVars, Before
<1>4. CASE Retry \/ GiveUp
  BY <1>4 DEF Retry, GiveUp, Fail, mailVars, chanVars, diskVars, Before
<1>5. CASE ReducerFails \/ Finish
  BY <1>5 DEF ReducerFails, Finish, Fail, mailVars, chanVars, diskVars, Before
<1>6. CASE UNCHANGED vars
  BY <1>6 DEF vars, flowVars, mailVars, chanVars, diskVars
<1>. QED BY <1>1, <1>2, <1>3, <1>4, <1>5, <1>6 DEF Next, Engine, Done

\* Writing a channel never lowers a version, and happens after EXEC.
LEMMA UpdateGrows ==
  ASSUME TypeOK, ApplyWrite \/ Publish
  PROVE  /\ \A c \in Channels : ver[c] <= ver'[c]
         /\ UNCHANGED <<seen, store>> /\ phase' \notin Before
<1>1. UNCHANGED <<seen, store>>
  BY DEF ApplyWrite, Publish, UpdateFrame, diskVars
<1>2. ver' \in {ver, [ver EXCEPT !["result"] = @ + 1], [ver EXCEPT !["aggregator"] = @ + 1]}
  BY DEF ApplyWrite, Publish
<1>3. ver \in [Channels -> Nat]
  BY DEF TypeOK
<1>4. \A c \in Channels : ver[c] <= ver'[c]
  <2>1. \A c \in Channels : ver[c] <= ver[c]
    BY <1>3
  <2>. QED BY <1>2, <1>3, <2>1, Bump
<1>5. phase' \notin Before
  BY DEF ApplyWrite, Publish, Fail, Before
<1>. QED BY <1>1, <1>4, <1>5

\* ADVANCE never lowers a version, and raises that of "input" whenever it delivers
\* something; of checkpoints it can only add the one it builds.
LEMMA AdvanceGrows ==
  ASSUME TypeOK, Advance
  PROVE  /\ \A c \in Channels : ver[c] <= ver'[c]
         /\ UNCHANGED seen
         /\ \A n \in Agents : nodeInput'[n] # NoVal => ver["input"] < ver'["input"]
         /\ store' \subseteq store \cup {Snapshot}
<1>1. PICK d \in Deliveries(Targets(pending)) : Deliver(d) /\ (AutoSave \/ UNCHANGED store)
  BY DEF Advance
<1>2. /\ \A c \in Channels : ver[c] <= ver'[c]
      /\ \A n \in Agents : nodeInput'[n] # NoVal => ver["input"] < ver'["input"]
  <2>1. Targets(pending) \subseteq Agents
    BY DEF Advance
  <2>. QED BY <1>1, <2>1, DeliverType
<1>6. store' \subseteq store \cup {Snapshot}
  BY <1>1, SaverKeepsOrAdds
<1>. QED BY <1>2, <1>6 DEF Advance

\* A delivery cut short by an unknown target does no more.
LEMMA UndeliverableGrows ==
  ASSUME TypeOK, Undeliverable
  PROVE  /\ \A c \in Channels : ver[c] <= ver'[c]
         /\ UNCHANGED <<seen, store>> /\ phase' \notin Before
<1>1. PICK to \in SUBSET (Targets(pending) \cap Agents) : \E d \in Deliveries(to) : Deliver(d)
  BY DEF Undeliverable
<1>2. \A c \in Channels : ver[c] <= ver'[c]
  BY <1>1, DeliverType
<1>. QED BY <1>2 DEF Undeliverable, Fail, Before, diskVars

\* No node's record of what it has seen ever runs ahead of the channels.
LEMMA SeenStep == TypeOK /\ TypeOK' /\ SeenWithinVersions /\ [Next]_vars => SeenWithinVersions'
<1>. SUFFICES ASSUME TypeOK, TypeOK', SeenWithinVersions, [Next]_vars PROVE SeenWithinVersions'
  OBVIOUS
<1>1. /\ ver \in [Channels -> Nat] /\ ver' \in [Channels -> Nat]
      /\ seen \in [Agents -> [Channels -> Nat]] /\ seen' \in [Agents -> [Channels -> Nat]]
  BY DEF TypeOK
<1>2. CASE ~EndExec /\ ~ApplyWrite /\ ~Publish /\ ~Undeliverable /\ ~Advance /\ ~Restart
  BY <1>2, QuietSteps DEF SeenWithinVersions
<1>3. CASE EndExec
  <2>1. /\ seen' = [n \in Agents |-> IF n \in toExec THEN ver ELSE seen[n]]
        /\ UNCHANGED <<ver, store>>
    BY <1>3 DEF EndExec, diskVars
  <2>2. \A n \in Agents, c \in Channels : seen'[n][c] <= ver[c]
    BY <2>1, <1>1 DEF SeenWithinVersions
  <2>. QED BY <2>1, <2>2 DEF SeenWithinVersions
<1>4. CASE ApplyWrite \/ Publish \/ Undeliverable
  <2>1. /\ \A c \in Channels : ver[c] <= ver'[c]
        /\ UNCHANGED <<seen, store>>
    BY <1>4, UpdateGrows, UndeliverableGrows
  <2>2. \A n \in Agents, c \in Channels : seen[n][c] <= ver'[c]
    BY <2>1, <1>1 DEF SeenWithinVersions
  <2>. QED BY <2>1, <2>2 DEF SeenWithinVersions
<1>5. CASE Advance
  <2>1. /\ \A c \in Channels : ver[c] <= ver'[c]
        /\ UNCHANGED seen /\ store' \subseteq store \cup {Snapshot}
    BY <1>5, AdvanceGrows
  <2>2. \A n \in Agents, c \in Channels : seen[n][c] <= ver'[c]
    BY <2>1, <1>1 DEF SeenWithinVersions
  <2>3. Snapshot.seen = seen /\ Snapshot.ver = ver'
    BY DEF Snapshot, CheckpointWith
  <2>. QED BY <2>1, <2>2, <2>3 DEF SeenWithinVersions
<1>6. CASE Restart
  <2>1. PICK e \in {FreshEngine} \cup store : ver' = e.ver /\ seen' = e.seen
    BY <1>6, EnginesFrom DEF Restart
  <2>2. UNCHANGED store
    BY <1>6 DEF Restart
  <2>3. CASE e = FreshEngine
    <3>1. \A n \in Agents, c \in Channels : seen'[n][c] = 0
      BY <2>1, <2>3 DEF FreshEngine, NeverSeen, NoVer
    <3>. QED BY <3>1, <2>2, <1>1 DEF SeenWithinVersions
  <2>4. CASE e \in store
    BY <2>1, <2>2, <2>4 DEF SeenWithinVersions
  <2>. QED BY <2>1, <2>3, <2>4
<1>. QED BY <1>2, <1>3, <1>4, <1>5, <1>6

\* Mail that is not yet recorded as seen stays visible.
LEMMA FreshStep == TypeOK /\ SeenWithinVersions /\ FreshMail /\ [Next]_vars => FreshMail'
<1>. SUFFICES ASSUME TypeOK, SeenWithinVersions, FreshMail, [Next]_vars, phase' \in Before,
                     NEW n \in Agents, nodeInput'[n] # NoVal
              PROVE  seen'[n]["input"] < ver'["input"]
  BY DEF FreshMail, Before
<1>1. CASE ~EndExec /\ ~ApplyWrite /\ ~Publish /\ ~Undeliverable /\ ~Advance /\ ~Restart
  BY <1>1, QuietSteps DEF FreshMail, Before
<1>2. CASE Advance
  <2>1. ver["input"] < ver'["input"] /\ UNCHANGED seen
    BY <1>2, AdvanceGrows
  <2>2. "input" \in Channels
    BY DEF Channels
  <2>5. seen[n]["input"] <= ver["input"]
    <3>1. \A m \in Agents, c \in Channels : seen[m][c] <= ver[c]
      BY DEF SeenWithinVersions
    <3>. QED BY <3>1, <2>2
  <2>3. ver["input"] \in Nat /\ seen[n]["input"] \in Nat
    BY <2>2 DEF TypeOK
  <2>4. ver'["input"] \in Nat
    <3>1. ver' \in [Channels -> Nat]
      BY <1>2, AdvanceType DEF TypeOK
    <3>. QED BY <3>1, <2>2
  <2>. QED BY <2>1, <2>3, <2>4, <2>5
<1>3. CASE EndExec
  BY <1>3 DEF EndExec, Before
<1>4. CASE ApplyWrite \/ Publish \/ Undeliverable
  BY <1>4, UpdateGrows, UndeliverableGrows
<1>5. CASE Restart
  BY <1>5 DEF Restart
<1>. QED BY <1>1, <1>2, <1>3, <1>4, <1>5

\* The inductive invariant holds in the initial states.
LEMMA VersionInvInit == Init => VersionInv
<1>. SUFFICES ASSUME Init PROVE VersionInv
  OBVIOUS
<1>1. TypeOK
  BY InitType
<1>2. SeenWithinVersions
  <2>1. \A n \in Agents, c \in Channels : seen[n][c] = 0
    BY DEF Init, NeverSeen, NoVer
  <2>2. ver \in [Channels -> Nat] /\ store = {}
    BY <1>1 DEF TypeOK, Init
  <2>. QED BY <2>1, <2>2 DEF SeenWithinVersions
<1>3. FreshMail
  BY DEF Init, FreshMail
<1>. QED BY <1>1, <1>2, <1>3 DEF VersionInv

\* The versions a node has seen never exceed the channels', in the engine and in
\* every checkpoint: no write can be invisible to a node that has not read it.
THEOREM VersionsSound == Spec => []SeenWithinVersions
<1>1. VersionInv /\ [Next]_vars => VersionInv'
  BY TypeStep, SeenStep, FreshStep DEF VersionInv
<1>2. VersionInv => SeenWithinVersions
  BY DEF VersionInv
<1>. QED BY <1>1, <1>2, VersionInvInit, PTL DEF Spec

\* A node that was sent a message finds exactly that message when it executes.
THEOREM MessageSeen == Spec => []WokenSeesItsMessage
<1>1. VersionInv /\ [Next]_vars => VersionInv'
  BY TypeStep, SeenStep, FreshStep DEF VersionInv
<1>2. VersionInv => WokenSeesItsMessage
  <2>. SUFFICES ASSUME VersionInv, phase = "exec", NEW n \in Agents, nodeInput[n] # NoVal
                PROVE  Input(n)["input"] = nodeInput[n]
    BY DEF WokenSeesItsMessage
  <2>1. seen[n]["input"] < ver["input"] /\ "input" \in Channels
    BY DEF VersionInv, FreshMail, Channels
  <2>2. ver["input"] \in Nat /\ seen[n]["input"] \in Nat
    BY <2>1 DEF VersionInv, TypeOK
  <2>. QED BY <2>1, <2>2 DEF Input
<1>. QED BY <1>1, <1>2, VersionInvInit, PTL DEF Spec

-----------------------------------------------------------------------------
(* The steps inside a super-step *)

Inside == {"exec", "reconcile", "fault", "update", "advance"}

\* The steps of a super-step that neither begin nor end it.
InnerStep ==
  \/ ExecUndefined \/ BatchDone \/ BatchFails
  \/ \E n \in Agents : Skip(n) \/ RunAgent(n) \/ AgentFails(n) \/ Prepare(n) \/ ReconcileJob(n)
  \/ Retry \/ GiveUp \/ EndExec \/ ApplyWrite \/ ReducerFails \/ Publish

\* Where the edges lead from the active vertices.
Reached == {e[2] : e \in {f \in Edges : f[1] \in active}}

\* Hops go along edges.
LEMMA HopsReach ==
  ASSUME NEW from \in SUBSET active, NEW hop \in Hops(from) PROVE hop \subseteq Reached
<1>. DEFINE out == {e \in Edges : e[1] \in from}
<1>1. PICK true \in SUBSET (out \cap CondEdges) : hop = {e[2] : e \in (out \ CondEdges) \cup true}
  BY DEF Hops
<1>. QED BY <1>1 DEF Reached

\* The inner steps leave alone what is seen from outside, and who is to execute.
LEMMA InnerSteps ==
  ASSUME TypeOK, InnerStep
  PROVE  /\ UNCHANGED <<step, active, scheduled, nodeInput, toExec, store, runs, blind>>
         /\ phase \in Inside /\ phase' \in Inside \cup {"err"}
         /\ todo' \subseteq toExec
<1>1. CASE ExecUndefined \/ BatchDone \/ BatchFails
  BY <1>1 DEF ExecUndefined, BatchDone, BatchFails, Handling, ExecFrame, diskVars, Inside, TypeOK
<1>2. CASE \E n \in Agents : Skip(n) \/ RunAgent(n) \/ AgentFails(n) \/ Prepare(n) \/ ReconcileJob(n)
  <2>1. PICK n \in Agents : Skip(n) \/ RunAgent(n) \/ AgentFails(n) \/ Prepare(n) \/ ReconcileJob(n)
    BY <1>2
  <2>2. ExecFrame /\ phase \in {"exec", "reconcile"} /\ todo' \subseteq todo
    BY <2>1 DEF Skip, RunAgent, AgentFails, Prepare, ReconcileJob, Handling
  <2>3. \A o, e, h : Reconcile(n, o, e, h) => phase' \in {phase, "fault"}
    BY DEF Reconcile
  <2>4. phase' \in {phase, "fault"}
    <3>1. (\E o, e, h : Reconcile(n, o, e, h)) \/ phase' \in {phase, "fault"}
      BY <2>1 DEF Skip, RunAgent, AgentFails, Prepare, ReconcileJob
    <3>. QED BY <2>3, <3>1
  <2>. QED BY <2>2, <2>4 DEF ExecFrame, diskVars, Inside, TypeOK
<1>3. CASE Retry \/ GiveUp \/ EndExec
  BY <1>3 DEF Retry, GiveUp, EndExec, Fail, mailVars, execVars, diskVars, Inside, TypeOK
<1>4. CASE ApplyWrite \/ Publish
  <2>1. UpdateFrame /\ phase = "update" /\ phase' \in {"update", "advance", "err"}
    BY <1>4 DEF ApplyWrite, Publish, Fail
  <2>. QED BY <2>1 DEF UpdateFrame, diskVars, Inside, TypeOK
<1>5. CASE ReducerFails
  BY <1>5 DEF ReducerFails, Fail, mailVars, execVars, diskVars, Inside, TypeOK
<1>. QED BY <1>1, <1>2, <1>3, <1>4, <1>5 DEF InnerStep

-----------------------------------------------------------------------------
(* Super-steps *)

\* Within a super-step the run was entitled to it, only active vertices execute, and
\* the next frontier is reached along edges; no step count passes the budget.
StepInv ==
  /\ step <= MaxSteps /\ \A k \in store : k.step <= MaxSteps
  /\ phase \in Inside => /\ active # {} /\ step < MaxSteps
                         /\ toExec \subseteq active /\ next \subseteq Reached

LEMMA StepInvInit == Init => StepInv
BY ConstantFacts DEF Init, StepInv, Inside

\* What is collected for the next frontier was reached along edges.
LEMMA NextReaches ==
  ASSUME TypeOK, StepInv, InnerStep PROVE next' \subseteq Reached
<1>0. next \subseteq Reached /\ toExec \subseteq active
  BY InnerSteps DEF StepInv
<1>1. ASSUME NEW n \in toExec, NEW o, NEW e, NEW h, Reconcile(n, o, e, h)
      PROVE  next' \subseteq Reached
  <2>1. PICK hop \in Hops({n}) : next' = next \cup hop
    BY <1>1 DEF Reconcile
  <2>2. {n} \in SUBSET active
    BY <1>0
  <2>. QED BY <1>0, <2>1, <2>2, HopsReach
<1>2. CASE \E n \in Agents : Skip(n) \/ RunAgent(n) \/ ReconcileJob(n)
  <2>1. PICK n \in Agents : Skip(n) \/ RunAgent(n) \/ ReconcileJob(n)
    BY <1>2
  <2>2. n \in toExec
    BY <2>1 DEF Skip, RunAgent, ReconcileJob, Handling, FirstJob, TypeOK
  <2>3. \E o, e, h : Reconcile(n, o, e, h)
    BY <2>1 DEF Skip, RunAgent, ReconcileJob
  <2>. QED BY <1>1, <2>2, <2>3
<1>3. CASE UNCHANGED next
  BY <1>0, <1>3
<1>4. InnerStep => UNCHANGED next \/ \E n \in Agents : Skip(n) \/ RunAgent(n) \/ ReconcileJob(n)
  BY DEF InnerStep, ExecUndefined, BatchDone, BatchFails, AgentFails, Prepare, Retry, GiveUp,
         EndExec, ApplyWrite, ReducerFails, Publish, UpdateFrame, execVars
<1>. QED BY <1>2, <1>3, <1>4

\* What ADVANCE does, seen from outside.
LEMMA AdvanceSeen ==
  ASSUME TypeOK, Advance
  PROVE  /\ phase' \in {"loop", "err"} /\ runs' = runs /\ store' \subseteq store \cup {Snapshot}
         /\ \/ phase' = "err" /\ UNCHANGED <<active, step, store>>
            \/ /\ step' = step + 1
               /\ active' = next \cup {n \in Agents : nodeInput'[n] # NoVal}
<1>1. PICK d \in Deliveries(Targets(pending)), eff \in HookEffects \cup {NoEffects} :
        /\ Deliver(d)
        /\ IF Bad(eff)
             THEN Fail("unknown aggregator") /\ UNCHANGED <<active, step, store>>
             ELSE active' = Frontier(d) /\ step' = step + 1 /\ AutoSave
  BY DEF Advance
<1>2. d \in [Targets(pending) -> Vals] /\ Targets(pending) \subseteq Agents
  BY DEF Deliveries, Advance
<1>3. NoVal \notin Vals
  BY ConstantFacts DEF NoVal
<1>4. DOMAIN d = {n \in Agents : nodeInput'[n] # NoVal}
  <2>1. nodeInput' = [n \in Agents |-> IF n \in DOMAIN d THEN d[n] ELSE NoVal]
    BY <1>1 DEF Deliver, Inbox
  <2>2. \A n \in Agents : nodeInput'[n] # NoVal <=> n \in DOMAIN d
    BY <1>2, <1>3, <2>1
  <2>. QED BY <1>2, <2>2
<1>5. runs' = runs
  BY DEF Advance
<1>6. CASE Bad(eff)
  BY <1>1, <1>5, <1>6 DEF Fail
<1>7. CASE ~Bad(eff)
  BY <1>1, <1>4, <1>5, <1>7, SaverKeepsOrAdds DEF Frontier
<1>. QED BY <1>6, <1>7

LEMMA StepInvStep == TypeOK /\ TypeOK' /\ StepInv /\ [Next]_vars => StepInv'
<1>. SUFFICES ASSUME TypeOK, TypeOK', StepInv, [Next]_vars PROVE StepInv'
  OBVIOUS
<1>0. step \in Nat /\ MaxSteps \in Nat \ {0}
  BY ConstantFacts DEF TypeOK
<1>1. CASE InnerStep
  <2>1. UNCHANGED <<step, active, toExec, store>> /\ phase \in Inside
    BY <1>1, InnerSteps
  <2>2. next' \subseteq Reached /\ Reached' = Reached
    BY <1>1, <2>1, NextReaches DEF Reached
  <2>. QED BY <2>1, <2>2 DEF StepInv
<1>2. CASE Plan
  <2>1. /\ UNCHANGED <<step, active, store>> /\ active # {} /\ step < MaxSteps
        /\ next' \in Hops(active) /\ toExec' \subseteq active
    BY <1>2 DEF Plan, Looping, Plannable, diskVars
  <2>2. next' \subseteq Reached /\ Reached' = Reached
    BY <2>1, HopsReach DEF Reached
  <2>. QED BY <2>1, <2>2 DEF StepInv
<1>3. CASE Advance
  <2>1. phase' \notin Inside
    BY <1>3, AdvanceSeen DEF Inside
  <2>2. step' <= MaxSteps
    <3>1. step < MaxSteps /\ step' \in {step, step + 1}
      BY <1>3, AdvanceSeen DEF StepInv, Inside, Advance
    <3>. QED BY <1>0, <3>1
  <2>3. store' \subseteq store \cup {Snapshot} /\ Snapshot.step = step'
    BY <1>3, AdvanceSeen DEF Snapshot, CheckpointWith
  <2>. QED BY <2>1, <2>2, <2>3 DEF StepInv
<1>4. CASE InterruptedBefore \/ Undeliverable \/ Finish
  BY <1>4 DEF InterruptedBefore, Undeliverable, Finish, Fail, StepInv, Inside, diskVars
<1>5. CASE Restart
  <2>1. PICK e \in {FreshEngine} \cup store : step' = e.step
    BY <1>5, EnginesFrom DEF Restart
  <2>2. e.step <= MaxSteps
    BY <1>0, <2>1 DEF FreshEngine, StepInv
  <2>. QED BY <1>5, <2>1, <2>2 DEF Restart, StepInv, Inside
<1>6. CASE UNCHANGED vars
  BY <1>6 DEF vars, flowVars, execVars, diskVars, StepInv, Reached
<1>. QED BY <1>1, <1>2, <1>3, <1>4, <1>5, <1>6 DEF Next, Engine, Done, InnerStep

LEMMA StepInvHolds == Spec => [](TypeOK /\ StepInv)
BY InitType, StepInvInit, TypeStep, StepInvStep, PTL DEF Spec

\* Every step of the engine is, from outside, a step of the super-step machine, or none
\* at all.
LEMMA MapsToBSP ==
  TypeOK /\ TypeOK' /\ StepInv /\ StepInv' /\ [Next]_vars => [Abstract!Next]_(Abstract!vars)
<1>. SUFFICES ASSUME TypeOK, TypeOK', StepInv, StepInv', [Next]_vars
              PROVE  Abstract!Next \/ UNCHANGED Abstract!vars
  OBVIOUS
<1>. DEFINE Out(p) == IF p = "ok" THEN "ok" ELSE IF p = "err" THEN "failed" ELSE "running"
<1>0. /\ nodeInput' \in Abstract!Inboxes /\ step \in Nat /\ MaxSteps \in Nat \ {0}
      /\ step \in 0..MaxSteps /\ step' \in 0..MaxSteps
  <2>1. nodeInput' \in Abstract!Inboxes
    BY DEF TypeOK, Abstract!Inboxes
  <2>2. step \in Nat /\ step' \in Nat /\ MaxSteps \in Nat \ {0}
    BY ConstantFacts DEF TypeOK
  <2>3. step <= MaxSteps /\ step' <= MaxSteps
    BY DEF StepInv
  <2>. QED BY <2>1, <2>2, <2>3
<1>1. ASSUME UNCHANGED <<step, active, nodeInput, runs>>, phase \notin {"ok", "err"},
             phase' \notin {"ok", "err"}
      PROVE  UNCHANGED Abstract!vars
  BY <1>1 DEF Abstract!vars
<1>2. ASSUME phase' = "err", phase \notin {"ok", "err"}, UNCHANGED <<step, active, runs>>
      PROVE  Abstract!Next
  BY <1>0, <1>2 DEF Abstract!Next, Abstract!Abort
<1>3. CASE InnerStep
  <2>1. /\ UNCHANGED <<step, active, nodeInput, runs>> /\ phase \notin {"ok", "err"}
        /\ phase' # "ok"
    BY <1>3, InnerSteps DEF Inside
  <2>. QED BY <1>1, <1>2, <2>1
<1>4. CASE Plan \/ InterruptedBefore
  <2>1. /\ UNCHANGED <<step, active, nodeInput, runs>> /\ phase = "loop" /\ phase' \in {"exec", "err"}
    BY <1>4 DEF Plan, InterruptedBefore, Looping, Fail, mailVars, diskVars
  <2>. QED BY <1>1, <1>2, <2>1
<1>5. CASE Undeliverable
  BY <1>2, <1>5 DEF Undeliverable, Fail, diskVars
<1>6. CASE Advance
  <2>1. /\ phase = "advance" /\ phase' \in {"loop", "err"} /\ runs' = runs
        /\ \/ phase' = "err" /\ UNCHANGED <<active, step>>
           \/ /\ step' = step + 1
              /\ active' = next \cup {n \in Agents : nodeInput'[n] # NoVal}
    BY <1>6, AdvanceSeen DEF Advance
  <2>2. active # {} /\ step < MaxSteps /\ next \in SUBSET Abstract!Successors(active)
    BY <2>1 DEF StepInv, Inside, Reached, Abstract!Successors
  <2>3. CASE phase' = "err" /\ UNCHANGED <<active, step>>
    BY <1>2, <2>1, <2>3
  <2>4. CASE step' = step + 1 /\ active' = next \cup {n \in Agents : nodeInput'[n] # NoVal}
    <3>1. active' = next \cup Abstract!Addressed(nodeInput')
      BY <2>4 DEF Abstract!Addressed
    <3>2. CASE phase' = "loop"
      BY <1>0, <2>1, <2>2, <2>4, <3>1, <3>2 DEF Abstract!Next, Abstract!SuperStep
    <3>3. CASE phase' = "err"
      BY <1>0, <2>1, <2>2, <2>4, <3>1, <3>3 DEF Abstract!Next, Abstract!Abort
    <3>. QED BY <2>1, <3>2, <3>3
  <2>. QED BY <2>1, <2>3, <2>4
<1>7. CASE Finish
  <2>1. /\ UNCHANGED <<step, active, nodeInput, runs>> /\ phase = "loop"
        /\ phase' = "err" \/ (phase' = "ok" /\ active = {})
    BY <1>7 DEF Finish, Fail, mailVars, diskVars
  <2>2. CASE phase' = "ok" /\ active = {}
    BY <2>1, <2>2 DEF Abstract!Next, Abstract!Converge
  <2>. QED BY <1>2, <2>1, <2>2
<1>8. CASE Restart
  <2>1. /\ runs < MaxRuns /\ runs' = runs + 1 /\ phase' = "loop" /\ active' = {Start}
        /\ nodeInput' = [n \in Agents |-> NoVal]
    BY <1>8 DEF Restart
  <2>. QED BY <1>0, <2>1 DEF Abstract!Next, Abstract!Rerun, Abstract!Empty
<1>9. CASE UNCHANGED vars
  BY <1>9 DEF vars, flowVars, mailVars, diskVars, Abstract!vars
<1>. QED BY <1>3, <1>4, <1>5, <1>6, <1>7, <1>8, <1>9 DEF Next, Engine, Done, InnerStep

\* run(): whatever the attempts, the batch and the hooks do, from outside there are only
\* super-steps, ends and new runs -- the safety part of ImplementsBSP.
THEOREM RefinesBSP == Spec => Abstract!Init /\ [][Abstract!Next]_(Abstract!vars)
<1>1. Init => Abstract!Init
  BY DEF Init, Abstract!Init, Abstract!Empty
<1>2. (TypeOK /\ StepInv) /\ (TypeOK /\ StepInv)' /\ [Next]_vars => [Abstract!Next]_(Abstract!vars)
  BY MapsToBSP
<1>. QED BY <1>1, <1>2, StepInvHolds, PTL DEF Spec

-----------------------------------------------------------------------------
(* The end of a run, and checkpoints *)

\* Between super-steps an empty frontier means that no mail is left: a message that a
\* combiner emits was emitted for an addressee.
NoMailUnread == phase = "loop" /\ active = {} => pending = <<>>

\* A message is delivered, and then in no checkpoint; only a combiner adds mail late.
LEMMA AdvanceDrains ==
  ASSUME TypeOK, Advance
  PROVE  /\ pending' # <<>> => /\ Combiners # {}
                               /\ \E eff \in HookEffects : pending' = eff.sends
         /\ phase' = "loop" /\ active' = {} => pending' = <<>>
<1>1. PICK d \in Deliveries(Targets(pending)),
           eff \in (IF CombinersRan THEN HookEffects \cup {NoEffects} ELSE {NoEffects}) :
        /\ pending' = eff.sends
        /\ IF Bad(eff) THEN Fail("unknown aggregator") ELSE active' = Frontier(d)
  BY DEF Advance
<1>2. ASSUME ~CombinersRan PROVE pending' = <<>>
  <2>1. eff = NoEffects
    BY <1>2
  <2>2. pending' = eff.sends
    BY <1>1
  <2>. QED BY <2>1, <2>2 DEF NoEffects
<1>3. CombinersRan => Combiners # {} /\ Targets(pending) # {}
  BY DEF CombinersRan
<1>4. phase' = "loop" => active' = Frontier(d)
  BY <1>1 DEF Fail
<1>5. DOMAIN d = Targets(pending)
  BY DEF Deliveries
<1>6. pending' = <<>> \/ \E e \in HookEffects : pending' = e.sends
  <2>1. CASE eff = NoEffects
    BY <1>1, <2>1 DEF NoEffects
  <2>2. CASE eff \in HookEffects
    BY <1>1, <2>2
  <2>. QED BY <2>1, <2>2
<1>7. phase' = "loop" /\ active' = {} => pending' = <<>>
  BY <1>2, <1>3, <1>4, <1>5 DEF Frontier
<1>8. pending' # <<>> => Combiners # {}
  BY <1>2, <1>3
<1>. QED BY <1>6, <1>7, <1>8

LEMMA DrainedStep ==
  /\ TypeOK /\ NoMailUnread /\ OkMeansQuiescent /\ [Next]_vars => NoMailUnread' /\ OkMeansQuiescent'
<1>. SUFFICES ASSUME TypeOK, NoMailUnread, OkMeansQuiescent, [Next]_vars
              PROVE  NoMailUnread' /\ OkMeansQuiescent'
  OBVIOUS
<1>1. CASE InnerStep
  BY <1>1, InnerSteps DEF Inside, NoMailUnread, OkMeansQuiescent
<1>2. CASE Plan \/ InterruptedBefore \/ Undeliverable
  BY <1>2 DEF Plan, InterruptedBefore, Undeliverable, Fail, NoMailUnread, OkMeansQuiescent
<1>3. CASE Advance
  BY <1>3, AdvanceDrains, AdvanceSeen DEF NoMailUnread, OkMeansQuiescent
<1>4. CASE Finish
  BY <1>4 DEF Finish, Fail, mailVars, NoMailUnread, OkMeansQuiescent
<1>5. CASE Restart
  BY <1>5 DEF Restart, NoMailUnread, OkMeansQuiescent
<1>6. CASE UNCHANGED vars
  BY <1>6 DEF vars, flowVars, mailVars, NoMailUnread, OkMeansQuiescent
<1>. QED BY <1>1, <1>2, <1>3, <1>4, <1>5, <1>6 DEF Next, Engine, Done, InnerStep

\* run(): a run that ends well left no active vertex and no message behind, whatever
\* combiners and the caller emitted.
THEOREM QuiescentAtEnd == Spec => []OkMeansQuiescent
<1>1. Init => NoMailUnread /\ OkMeansQuiescent
  BY DEF Init, NoMailUnread, OkMeansQuiescent
<1>. QED BY <1>1, DrainedStep, TypeCorrect, PTL DEF Spec

LEMMA StoreStep ==
  ASSUME TypeOK, CheckpointHoldsNoDeliveredMail, [Next]_vars PROVE CheckpointHoldsNoDeliveredMail'
<1>1. CASE Advance
  <2>1. store' \subseteq store \cup {Snapshot} /\ Snapshot.pending = pending'
    BY <1>1, AdvanceSeen DEF Snapshot, CheckpointWith
  <2>2. pending' # <<>> => Combiners # {} /\ \E eff \in HookEffects : pending' = eff.sends
    BY <1>1, AdvanceDrains
  <2>. QED BY <2>1, <2>2 DEF CheckpointHoldsNoDeliveredMail
<1>2. CASE ~Advance
  <2>1. store' = store
    <3>1. CASE InnerStep
      BY <3>1, InnerSteps
    <3>2. CASE Plan \/ InterruptedBefore \/ Undeliverable \/ Finish \/ Restart
      BY <3>2 DEF Plan, InterruptedBefore, Undeliverable, Finish, Restart, diskVars
    <3>3. CASE UNCHANGED vars
      BY <3>3 DEF vars, diskVars
    <3>. QED BY <1>2, <3>1, <3>2, <3>3 DEF Next, Engine, Done, InnerStep
  <2>. QED BY <2>1 DEF CheckpointHoldsNoDeliveredMail
<1>. QED BY <1>1, <1>2

\* The checkpoint is taken after the drain: the mail in it is what a combiner emitted
\* during the delivery, so no resumed run is handed a message that was delivered before.
THEOREM MailOnce == Spec => []CheckpointHoldsNoDeliveredMail
<1>1. Init => CheckpointHoldsNoDeliveredMail
  BY DEF Init, CheckpointHoldsNoDeliveredMail
<1>2. TypeOK /\ CheckpointHoldsNoDeliveredMail /\ [Next]_vars => CheckpointHoldsNoDeliveredMail'
  BY StoreStep
<1>. QED BY <1>1, <1>2, TypeCorrect, PTL DEF Spec

-----------------------------------------------------------------------------
(* Attempts *)

Tally == [emitted : Seq(Msg), adds : Nat, wrote : SUBSET Vals]
Hist == [attempt : Tally, mail : Seq(Msg), planAdds : Nat, ran : [Agents -> Nat]]

\* The mail and the aggregator hold what preceded EXEC and what the current attempt
\* has done; the undo record holds what preceded EXEC, wherever a retry may need it.
AttemptInv ==
  /\ hist \in Hist
  /\ phase \in Inside =>
       /\ pending = hist.mail \o hist.attempt.emitted
       /\ agg = AggInit + hist.attempt.adds + IF attempt = 0 THEN hist.planAdds ELSE 0
       /\ FaultTolerance > 0 => undo = hist.mail

LEMMA HistInitType == HistInit \in Hist /\ AttemptHist \in Tally
BY EmptySeq DEF HistInit, AttemptHist, Hist, Tally

\* Mail may be appended in parts.
LEMMA Regroup ==
  ASSUME NEW s \in Seq(Msg), NEW t \in Seq(Msg), NEW u \in Seq(Msg)
  PROVE  (s \o t) \o u = s \o (t \o u)
OBVIOUS

\* What a step emits is counted once, on both sides.
LEMMA Emitted ==
  ASSUME TypeOK, AttemptInv, phase \in Inside, NEW h \in Hist,
         h.attempt.emitted = hist.attempt.emitted, h.attempt.adds = hist.attempt.adds,
         h.mail = hist.mail, h.planAdds = hist.planAdds,
         NEW sends \in Seq(Msg), NEW adds \in Nat,
         pending' = pending \o sends, agg' = agg + adds, UNCHANGED <<attempt, undo>>,
         hist' = [h EXCEPT !.attempt.emitted = @ \o sends, !.attempt.adds = @ + adds]
  PROVE  AttemptInv'
<1>1. /\ h.attempt \in Tally /\ h.mail \in Seq(Msg) /\ h.planAdds \in Nat
      /\ h.attempt.emitted \in Seq(Msg) /\ h.attempt.adds \in Nat /\ AggInit \in Nat
  BY ConstantFacts DEF Hist, Tally
<1>. DEFINE now == [h.attempt EXCEPT !.emitted = @ \o sends, !.adds = @ + adds]
<1>2. h.attempt.emitted \o sends \in Seq(Msg) /\ h.attempt.adds + adds \in Nat
  BY <1>1
<1>3. /\ now \in Tally /\ now.emitted = h.attempt.emitted \o sends
      /\ now.adds = h.attempt.adds + adds
  BY <1>1, <1>2 DEF Tally
<1>4. hist' = [h EXCEPT !.attempt = now]
  BY DEF Hist, Tally
<1>. HIDE DEF now
<1>5. /\ hist' \in Hist /\ hist'.attempt = now /\ hist'.mail = h.mail
      /\ hist'.planAdds = h.planAdds
  BY <1>3, <1>4 DEF Hist
<1>6. pending' = hist'.mail \o hist'.attempt.emitted
  <2>1. pending = h.mail \o h.attempt.emitted
    BY DEF AttemptInv
  <2>2. (h.mail \o h.attempt.emitted) \o sends = h.mail \o (h.attempt.emitted \o sends)
    BY <1>1, Regroup
  <2>. QED BY <1>3, <1>5, <2>1, <2>2
<1>7. agg' = AggInit + hist'.attempt.adds + IF attempt' = 0 THEN hist'.planAdds ELSE 0
  <2>1. agg = AggInit + h.attempt.adds + IF attempt = 0 THEN h.planAdds ELSE 0
    BY DEF AttemptInv
  <2>. QED BY <1>1, <1>3, <1>5, <2>1
<1>. QED BY <1>5, <1>6, <1>7 DEF AttemptInv

\* The steps that emit nothing.
LEMMA NothingEmitted ==
  ASSUME AttemptInv, phase \in Inside, UNCHANGED <<pending, agg, attempt, undo, hist>>
  PROVE  AttemptInv'
BY DEF AttemptInv

LEMMA ReconcileCounts ==
  ASSUME TypeOK, AttemptInv, phase \in Inside, ExecFrame, NEW n \in Agents, NEW o \in Outcome,
         NEW e, NEW h \in Hist, Reconcile(n, o, e, h),
         h.attempt.emitted = hist.attempt.emitted, h.attempt.adds = hist.attempt.adds,
         h.mail = hist.mail, h.planAdds = hist.planAdds
  PROVE  AttemptInv'
<1>1. PICK eff \in ConditionEffects({n}) :
        LET sends == eff.sends \o IF Bad(eff) THEN <<>> ELSE o.effects.sends
            adds  == eff.add + IF Bad(eff) THEN 0 ELSE o.effects.add
        IN /\ pending' = pending \o sends /\ agg' = agg + adds
           /\ hist' = [h EXCEPT !.attempt.emitted = @ \o sends, !.attempt.adds = @ + adds]
  BY DEF Reconcile
<1>. DEFINE sends == eff.sends \o IF Bad(eff) THEN <<>> ELSE o.effects.sends
            adds  == eff.add + IF Bad(eff) THEN 0 ELSE o.effects.add
<1>2. /\ eff.sends \in Seq(Msg) /\ eff.add \in Nat
      /\ o.effects.sends \in Seq(Msg) /\ o.effects.add \in Nat
  BY ConditionEffectsType DEF Outcome, Effects
<1>3. sends \in Seq(Msg) /\ adds \in Nat
  <2>1. (IF Bad(eff) THEN <<>> ELSE o.effects.sends) \in Seq(Msg)
    BY <1>2, EmptySeq
  <2>. QED BY <1>2, <2>1
<1>4. /\ pending' = pending \o sends /\ agg' = agg + adds
      /\ hist' = [h EXCEPT !.attempt.emitted = @ \o sends, !.attempt.adds = @ + adds]
  BY <1>1
<1>5. UNCHANGED <<attempt, undo>>
  BY DEF ExecFrame
<1>. HIDE DEF sends, adds
<1>. QED BY <1>3, <1>4, <1>5, Emitted

\* A body that ran leaves the counts of the step alone until it is reconciled.
LEMMA RunHistType ==
  ASSUME hist \in Hist, NEW n \in Agents, NEW o \in Outcome
  PROVE  /\ RunHist(n, o) \in Hist
         /\ RunHist(n, o).attempt.emitted = hist.attempt.emitted
         /\ RunHist(n, o).attempt.adds = hist.attempt.adds
         /\ RunHist(n, o).attempt.wrote = hist.attempt.wrote \cup ({o.write} \ {NoVal})
         /\ RunHist(n, o).mail = hist.mail /\ RunHist(n, o).planAdds = hist.planAdds
         /\ RunHist(n, o).ran = [hist.ran EXCEPT ![n] = @ + 1]
<1>. DEFINE at == [hist.attempt EXCEPT !.wrote = @ \cup ({o.write} \ {NoVal})]
            rn == [hist.ran EXCEPT ![n] = @ + 1]
<1>1. hist.attempt \in Tally /\ hist.ran \in [Agents -> Nat] /\ {o.write} \ {NoVal} \subseteq Vals
  BY DEF Hist, Outcome
<1>2. /\ at \in Tally /\ at.emitted = hist.attempt.emitted /\ at.adds = hist.attempt.adds
      /\ at.wrote = hist.attempt.wrote \cup ({o.write} \ {NoVal})
  BY <1>1 DEF Tally
<1>3. rn \in [Agents -> Nat]
  BY <1>1
<1>4. RunHist(n, o) = [hist EXCEPT !.ran = rn, !.attempt = at]
  BY DEF RunHist, Hist, Tally
<1>. HIDE DEF at, rn
<1>5. /\ RunHist(n, o) \in Hist /\ RunHist(n, o).attempt = at /\ RunHist(n, o).ran = rn
      /\ RunHist(n, o).mail = hist.mail /\ RunHist(n, o).planAdds = hist.planAdds
  BY <1>2, <1>3, <1>4 DEF Hist
<1>. QED BY <1>2, <1>5 DEF rn

LEMMA ExecCounts ==
  ASSUME TypeOK, AttemptInv, ExecUndefined \/ BatchDone \/ BatchFails
           \/ \E n \in Agents : Skip(n) \/ RunAgent(n) \/ AgentFails(n) \/ Prepare(n)
                                  \/ ReconcileJob(n)
  PROVE  AttemptInv'
<1>0. hist \in Hist
  BY DEF AttemptInv
<1>1. CASE ExecUndefined \/ BatchDone \/ BatchFails \/ \E n \in Agents : AgentFails(n) \/ Prepare(n)
  <2>1. UNCHANGED <<pending, agg, attempt, undo, hist>> /\ phase \in Inside
    BY <1>1 DEF ExecUndefined, BatchDone, BatchFails, AgentFails, Prepare, Handling, ExecFrame,
                mailVars, Inside
  <2>. QED BY <2>1, NothingEmitted
<1>2. ASSUME NEW n \in Agents, Skip(n) PROVE AttemptInv'
  <2>1. Reconcile(n, Cached(n), env, hist) /\ ExecFrame /\ phase \in Inside /\ Hit(n)
    BY <1>2 DEF Skip, Handling, Inside
  <2>2. Cached(n) \in Outcome
    BY <2>1, CachedType
  <2>. QED BY <1>0, <2>1, <2>2, ReconcileCounts
<1>3. ASSUME NEW n \in Agents, RunAgent(n) \/ ReconcileJob(n) PROVE AttemptInv'
  <2>1. ExecFrame /\ phase \in Inside
    BY <1>3 DEF RunAgent, ReconcileJob, Handling, Inside
  <2>2. PICK o : o \in Outcomes[n] /\ \E from : Reconcile(n, o, After(n, o, from), RunHist(n, o))
    BY <1>3 DEF RunAgent, ReconcileJob
  <2>3. o \in Outcome
    BY <2>2, ConstantFacts
  <2>. QED BY <1>0, <2>1, <2>2, <2>3, ReconcileCounts, RunHistType
<1>. QED BY <1>1, <1>2, <1>3

LEMMA UpdateCounts ==
  ASSUME TypeOK, AttemptInv, ApplyWrite \/ Publish PROVE AttemptInv'
<1>1. phase \in Inside /\ UNCHANGED <<attempt, undo>> /\ hist \in Hist
  BY DEF ApplyWrite, Publish, UpdateFrame, Inside, AttemptInv
<1>2. UNCHANGED <<pending, agg, hist>> \/ \E eff \in HookEffects \cup {NoEffects} : Emit(eff)
  BY DEF ApplyWrite, Publish
<1>3. CASE UNCHANGED <<pending, agg, hist>>
  BY <1>1, <1>3, NothingEmitted
<1>4. ASSUME NEW eff \in HookEffects \cup {NoEffects}, Emit(eff) PROVE AttemptInv'
  <2>1. eff.sends \in Seq(Msg) /\ eff.add \in Nat
    BY ConstantFacts DEF Effects
  <2>. QED BY <1>1, <1>4, <2>1, Emitted DEF Emit
<1>. QED BY <1>2, <1>3, <1>4

LEMMA PlanCounts == ASSUME TypeOK, AttemptInv, Plan PROVE AttemptInv'
<1>1. PICK eff \in ConditionEffects(active) :
        /\ agg' = AggInit + eff.add
        /\ hist' = [HistInit EXCEPT !.mail = pending', !.planAdds = eff.add]
  BY DEF Plan
<1>2. eff.add \in Nat /\ pending' \in Seq(Msg) /\ AggInit \in Nat
  <2>1. TypeOK'
    BY PlanType
  <2>2. eff \in Effects
    BY ConditionEffectsType
  <2>3. eff.add \in Nat
    BY <2>2 DEF Effects
  <2>4. pending' \in Seq(Msg)
    BY <2>1 DEF TypeOK
  <2>. QED BY <2>3, <2>4, ConstantFacts
<1>3. /\ hist' \in Hist /\ hist'.mail = pending' /\ hist'.planAdds = eff.add
      /\ hist'.attempt = AttemptHist
  BY <1>1, <1>2, HistInitType DEF Hist, HistInit
<1>4. attempt' = 0 /\ (FaultTolerance > 0 => undo' = pending')
  BY DEF Plan
<1>5. AttemptHist.emitted = <<>> /\ AttemptHist.adds = 0
  BY DEF AttemptHist
<1>6. pending' = pending' \o <<>>
  BY <1>2
<1>7. agg' = AggInit + 0 + eff.add
  BY <1>1, <1>2
<1>. QED BY <1>3, <1>4, <1>5, <1>6, <1>7 DEF AttemptInv

\* A retry starts from the undo record, and from the initial aggregator.
LEMMA RetryCounts == ASSUME TypeOK, AttemptInv, Retry PROVE AttemptInv'
<1>1. /\ pending' = undo /\ agg' = AggInit /\ attempt' = attempt + 1 /\ undo' = undo
      /\ hist' = [hist EXCEPT !.attempt = AttemptHist] /\ hist \in Hist
      /\ attempt \in 0..FaultTolerance /\ attempt < FaultTolerance /\ phase \in Inside
  BY DEF Retry, Rollback, AttemptInv, TypeOK, Inside
<1>2. FaultTolerance \in Nat /\ AggInit \in Nat
  BY ConstantFacts
<1>3. undo = hist.mail /\ attempt' # 0
  BY <1>1, <1>2 DEF AttemptInv
<1>4. /\ hist' \in Hist /\ hist'.mail = hist.mail /\ hist'.attempt = AttemptHist
  BY <1>1, HistInitType DEF Hist
<1>5. AttemptHist.emitted = <<>> /\ AttemptHist.adds = 0 /\ hist.mail \in Seq(Msg)
  BY <1>1 DEF AttemptHist, Hist
<1>6. hist.mail = hist.mail \o <<>>
  BY <1>5
<1>7. agg' = AggInit + 0 + 0
  BY <1>1, <1>2
<1>. QED BY <1>1, <1>3, <1>4, <1>5, <1>6, <1>7 DEF AttemptInv

LEMMA AttemptStep == TypeOK /\ AttemptInv /\ [Next]_vars => AttemptInv'
<1>. SUFFICES ASSUME TypeOK, AttemptInv, [Next]_vars PROVE AttemptInv'
  OBVIOUS
<1>1. CASE ExecUndefined \/ BatchDone \/ BatchFails
             \/ \E n \in Agents : Skip(n) \/ RunAgent(n) \/ AgentFails(n) \/ Prepare(n)
                                    \/ ReconcileJob(n)
  BY <1>1, ExecCounts
<1>2. CASE Plan \/ Retry \/ ApplyWrite \/ Publish
  BY <1>2, PlanCounts, RetryCounts, UpdateCounts
<1>3. CASE EndExec
  <2>1. UNCHANGED <<pending, agg, attempt, undo, hist>> /\ phase \in Inside
    BY <1>3 DEF EndExec, mailVars, execVars, Inside
  <2>. QED BY <2>1, NothingEmitted
<1>4. CASE InterruptedBefore \/ GiveUp \/ ReducerFails \/ Undeliverable \/ Advance \/ Finish
  <2>1. hist' = hist
    BY <1>4 DEF InterruptedBefore, GiveUp, ReducerFails, Undeliverable, Advance, Finish
  <2>2. phase' \notin Inside
    BY <1>4, AdvanceSeen DEF InterruptedBefore, GiveUp, ReducerFails, Undeliverable, Finish, Fail,
                             Inside
  <2>. QED BY <2>1, <2>2 DEF AttemptInv
<1>5. CASE Restart
  BY <1>5, HistInitType DEF Restart, AttemptInv, Inside
<1>6. CASE UNCHANGED vars
  BY <1>6 DEF vars, flowVars, mailVars, execVars, AttemptInv
<1>. QED BY <1>1, <1>2, <1>3, <1>4, <1>5, <1>6 DEF Next, Engine, Done

LEMMA AttemptInvInit == Init => AttemptInv
BY HistInitType DEF Init, AttemptInv, Inside

\* execute_step and rollback_step: a failed attempt leaves nothing behind in the mail or
\* in the aggregator, whichever agents, conditions and hooks had emitted something.
THEOREM AttemptsIsolated == Spec => []OnlyThisAttemptCounts
<1>1. AttemptInv => OnlyThisAttemptCounts
  BY DEF AttemptInv, OnlyThisAttemptCounts, Inside
<1>. QED BY <1>1, AttemptInvInit, AttemptStep, TypeCorrect, PTL DEF Spec

-----------------------------------------------------------------------------
(* Bodies *)

\* Sequentially, whose body has ended in this step has its outcome cached under the very
\* input it would be given again.
BodiesRan ==
  /\ jobs = {} /\ phase # "reconcile"
  /\ \A n \in Agents : /\ hist.ran[n] \in {0, 1}
                       /\ phase \in {"exec", "fault"} /\ hist.ran[n] = 1 => Hit(n)
RanInv == ~Parallel => BodiesRan

\* Reconciling an agent caches its outcome under its input, and touches nobody else's.
LEMMA ReconcileCaches ==
  ASSUME TypeOK, ExecFrame, NEW n \in Agents, NEW o, NEW e, NEW h, Reconcile(n, o, e, h)
  PROVE  /\ Hit(n)' /\ \A m \in Agents : Hit(m) => Hit(m)'
         /\ phase' \in {phase, "fault"} /\ hist'.ran = h.ran
<1>1. \A m \in Agents : Input(m)' = Input(m)
  BY DEF ExecFrame, chanVars, Input
<1>2. cache' = [cache EXCEPT ![n] = {[input |-> Input(n), outcome |-> o]}]
      /\ cache \in [Agents -> SUBSET CacheEntry]
  BY DEF Reconcile, TypeOK
<1>3. \A m \in Agents : cache'[m] = IF m = n THEN {[input |-> Input(n), outcome |-> o]} ELSE cache[m]
  BY <1>2
<1>4. Hit(n)'
  <2>. DEFINE c == [input |-> Input(n), outcome |-> o]
  <2>1. c \in cache'[n] /\ c.input = Input(n)'
    BY <1>1, <1>3
  <2>. QED BY <2>1 DEF Hit
<1>5. ASSUME NEW m \in Agents, Hit(m) PROVE Hit(m)'
  <2>1. CASE m = n
    BY <1>4, <2>1
  <2>2. CASE m # n
    BY <1>1, <1>3, <1>5, <2>2 DEF Hit
  <2>. QED BY <2>1, <2>2
<1>6. phase' \in {phase, "fault"}
  BY DEF Reconcile
<1>7. hist'.ran = h.ran
  <2>1. \E s, a : hist' = [h EXCEPT !.attempt.emitted = s, !.attempt.adds = a]
    BY DEF Reconcile
  <2>. QED BY <2>1
<1>. QED BY <1>4, <1>5, <1>6, <1>7

LEMMA RanStep == TypeOK /\ AttemptInv /\ RanInv /\ [Next]_vars => RanInv'
<1>. SUFFICES ASSUME TypeOK, AttemptInv, RanInv, [Next]_vars, ~Parallel
              PROVE  BodiesRan'
  BY DEF RanInv
<1>0. /\ hist \in Hist /\ jobs = {} /\ phase # "reconcile"
      /\ \A n \in Agents : /\ hist.ran[n] \in {0, 1}
                           /\ phase \in {"exec", "fault"} /\ hist.ran[n] = 1 => Hit(n)
  BY DEF RanInv, BodiesRan, AttemptInv
<1>1. ASSUME NEW n \in Agents, Skip(n)
      PROVE  BodiesRan'
  <2>1. Reconcile(n, Cached(n), env, hist) /\ ExecFrame /\ phase = "exec" /\ jobs' = jobs
    BY <1>1 DEF Skip, Handling
  <2>2. /\ \A m \in Agents : Hit(m) => Hit(m)'
        /\ phase' \in {phase, "fault"} /\ hist'.ran = hist.ran
    BY <2>1, ReconcileCaches
  <2>. QED BY <1>0, <2>1, <2>2 DEF BodiesRan
<1>2. ASSUME NEW n \in Agents, RunAgent(n)
      PROVE  BodiesRan'
  <2>1. ExecFrame /\ phase = "exec" /\ jobs' = jobs /\ ~Hit(n)
    BY <1>2 DEF RunAgent, Handling
  <2>2. PICK o \in Outcomes[n] : Reconcile(n, o, After(n, o, env), RunHist(n, o))
    BY <1>2 DEF RunAgent
  <2>3. o \in Outcome
    BY ConstantFacts
  <2>4. /\ Hit(n)' /\ \A m \in Agents : Hit(m) => Hit(m)'
        /\ phase' \in {phase, "fault"} /\ hist'.ran = RunHist(n, o).ran
    BY <2>1, <2>2, ReconcileCaches
  <2>5. hist'.ran = [hist.ran EXCEPT ![n] = @ + 1] /\ hist.ran \in [Agents -> Nat]
    BY <1>0, <2>3, <2>4, RunHistType DEF Hist
  <2>6. hist.ran[n] = 0
    BY <1>0, <2>1
  <2>7. \A m \in Agents : hist'.ran[m] = IF m = n THEN 1 ELSE hist.ran[m]
    BY <2>5, <2>6
  <2>. QED BY <1>0, <2>1, <2>4, <2>7 DEF BodiesRan
<1>3. ASSUME UNCHANGED <<cache, nodeInput, chan, ver, seen, jobs>>, hist'.ran = hist.ran,
             phase' # "reconcile", phase' \in {"exec", "fault"} => phase \in {"exec", "fault"}
      PROVE  BodiesRan'
  BY <1>0, <1>3 DEF BodiesRan, Hit, Input
<1>4. CASE ExecUndefined \/ \E n \in Agents : AgentFails(n)
  BY <1>3, <1>4 DEF ExecUndefined, AgentFails, Handling, ExecFrame, mailVars, chanVars, agentVars
<1>5. CASE BatchDone \/ BatchFails \/ \E n \in Agents : Prepare(n) \/ ReconcileJob(n)
  BY <1>0, <1>5 DEF BatchDone, BatchFails, Prepare, ReconcileJob
<1>6. CASE Retry
  <2>1. hist'.ran = hist.ran
    BY <1>6, <1>0 DEF Retry, Hist
  <2>2. UNCHANGED <<cache, nodeInput, chan, ver, seen>> /\ jobs' = {} /\ phase = "fault" /\ phase' = "exec"
    BY <1>6 DEF Retry, chanVars
  <2>. QED BY <1>0, <1>3, <2>1, <2>2
<1>7. CASE Plan
  <2>1. hist'.ran = [n \in Agents |-> 0] /\ jobs' = {} /\ phase' # "reconcile"
    BY <1>7 DEF Plan, HistInit, Fail
  <2>. QED BY <2>1 DEF BodiesRan
<1>8. ASSUME phase' \notin {"exec", "fault", "reconcile"}, jobs' = {},
             hist'.ran \in {hist.ran, [n \in Agents |-> 0]}
      PROVE  BodiesRan'
  BY <1>0, <1>8 DEF BodiesRan
<1>9. CASE InterruptedBefore \/ GiveUp \/ EndExec \/ ReducerFails \/ Undeliverable \/ Advance \/ Finish
  <2>1. hist' = hist /\ jobs' = jobs
    BY <1>9 DEF InterruptedBefore, GiveUp, EndExec, ReducerFails, Undeliverable, Advance, Finish, execVars
  <2>2. phase' \notin {"exec", "fault", "reconcile"}
    BY <1>9, AdvanceSeen DEF InterruptedBefore, GiveUp, EndExec, ReducerFails, Undeliverable, Finish, Fail
  <2>. QED BY <1>0, <1>8, <2>1, <2>2
<1>10. CASE ApplyWrite \/ Publish
  <2>1. phase = "update" /\ phase' \in {"update", "advance", "err"} /\ jobs' = jobs
    BY <1>10 DEF ApplyWrite, Publish, UpdateFrame, Fail
  <2>2. hist' = hist \/ \E eff : Emit(eff)
    BY <1>10 DEF ApplyWrite, Publish
  <2>3. hist'.ran = hist.ran
    <3>1. ASSUME NEW eff, Emit(eff) PROVE hist'.ran = hist.ran
      BY <1>0, <3>1 DEF Emit, Hist
    <3>. QED BY <2>2, <3>1
  <2>. QED BY <1>0, <1>8, <2>1, <2>3
<1>11. CASE Restart
  BY <1>8, <1>11 DEF Restart, HistInit
<1>12. CASE UNCHANGED vars
  BY <1>0, <1>3, <1>12 DEF vars, flowVars, mailVars, chanVars, agentVars, execVars
<1>. QED
  BY <1>1, <1>2, <1>4, <1>5, <1>6, <1>7, <1>9, <1>10, <1>11, <1>12 DEF Next, Engine, Done

\* execute_step and its outcome cache: a retry replays the outcome of a body that came to
\* its end and does not run it again (agents one at a time).
THEOREM BodiesRunOnce == Spec => []RunOncePerStep
<1>1. Init => RanInv
  BY DEF Init, HistInit, RanInv, BodiesRan
<1>2. RanInv => RunOncePerStep
  BY DEF RanInv, BodiesRan, RunOncePerStep
<1>. QED BY <1>1, <1>2, AttemptInvInit, AttemptStep, RanStep, TypeCorrect, PTL DEF Spec

\* What an agent assigned stays in the environment, or another's assignment does.
Kept ==
  ~Parallel /\ phase \in {"exec", "update"} /\ hist.attempt.wrote # {} => env \in hist.attempt.wrote

\* What hooks and conditions emit leaves the record of assignments alone.
LEMMA EmitKeeps ==
  ASSUME NEW h \in Hist, NEW s, NEW a,
         hist' = [h EXCEPT !.attempt.emitted = s, !.attempt.adds = a]
  PROVE  hist'.attempt.wrote = h.attempt.wrote
BY DEF Hist, Tally

LEMMA KeptStep == TypeOK /\ AttemptInv /\ RanInv /\ Kept /\ [Next]_vars => Kept'
<1>. SUFFICES ASSUME TypeOK, AttemptInv, RanInv, Kept, [Next]_vars, ~Parallel,
                     phase' \in {"exec", "update"}, hist'.attempt.wrote # {}
              PROVE  env' \in hist'.attempt.wrote
  BY DEF Kept
<1>0. hist \in Hist /\ jobs = {} /\ phase # "reconcile"
  BY DEF RanInv, BodiesRan, AttemptInv
<1>1. ASSUME NEW n \in Agents, Skip(n) PROVE env' \in hist'.attempt.wrote
  <2>1. Reconcile(n, Cached(n), env, hist) /\ phase = "exec"
    BY <1>1 DEF Skip, Handling
  <2>2. PICK s, a : env' = env /\ hist' = [hist EXCEPT !.attempt.emitted = s, !.attempt.adds = a]
    BY <2>1 DEF Reconcile
  <2>3. hist'.attempt.wrote = hist.attempt.wrote
    BY <1>0, <2>2, EmitKeeps
  <2>. QED BY <2>1, <2>2, <2>3 DEF Kept
<1>2. ASSUME NEW n \in Agents, RunAgent(n) PROVE env' \in hist'.attempt.wrote
  <2>1. phase = "exec"
    BY <1>2 DEF RunAgent, Handling
  <2>2. PICK o \in Outcomes[n] : Reconcile(n, o, After(n, o, env), RunHist(n, o))
    BY <1>2 DEF RunAgent
  <2>3. o \in Outcome
    BY ConstantFacts
  <2>4. PICK s, a :
        /\ env' = After(n, o, env)
        /\ hist' = [RunHist(n, o) EXCEPT !.attempt.emitted = s, !.attempt.adds = a]
    BY <2>2 DEF Reconcile
  <2>5. /\ RunHist(n, o) \in Hist
        /\ RunHist(n, o).attempt.wrote = hist.attempt.wrote \cup ({o.write} \ {NoVal})
    BY <1>0, <2>3, RunHistType
  <2>6. hist'.attempt.wrote = hist.attempt.wrote \cup ({o.write} \ {NoVal})
    BY <2>4, <2>5, EmitKeeps
  <2>7. CASE o.write = NoVal
    BY <2>1, <2>4, <2>6, <2>7 DEF After, Kept
  <2>8. CASE o.write # NoVal
    BY <2>4, <2>6, <2>8 DEF After
  <2>. QED BY <2>7, <2>8
<1>3. CASE ExecUndefined \/ BatchDone \/ BatchFails
             \/ \E n \in Agents : AgentFails(n) \/ Prepare(n) \/ ReconcileJob(n)
  BY <1>0, <1>3 DEF ExecUndefined, BatchDone, BatchFails, AgentFails, Prepare, ReconcileJob
<1>4. CASE Retry \/ Plan
  <2>1. hist'.attempt = AttemptHist
    BY <1>0, <1>4 DEF Retry, Plan, HistInit, Hist
  <2>. QED BY <2>1 DEF AttemptHist
<1>5. CASE EndExec
  BY <1>0, <1>5 DEF EndExec, agentVars, Kept
<1>6. CASE ApplyWrite
  <2>1. env' = env /\ phase = "update" /\ (hist' = hist \/ \E eff : Emit(eff))
    BY <1>6 DEF ApplyWrite, UpdateFrame, agentVars
  <2>2. ASSUME NEW eff, Emit(eff) PROVE hist'.attempt.wrote = hist.attempt.wrote
    BY <1>0, <2>2, EmitKeeps DEF Emit
  <2>. QED BY <2>1, <2>2 DEF Kept
<1>7. CASE InterruptedBefore \/ GiveUp \/ ReducerFails \/ Publish \/ Undeliverable \/ Advance
             \/ Finish \/ Restart
  <2>1. phase' \notin {"exec", "update"}
    BY <1>7, AdvanceSeen DEF InterruptedBefore, GiveUp, ReducerFails, Publish, Undeliverable,
                             Finish, Restart, Fail
  <2>. QED BY <2>1
<1>8. CASE UNCHANGED vars
  BY <1>8 DEF vars, flowVars, agentVars, Kept
<1>. QED BY <1>1, <1>2, <1>3, <1>4, <1>5, <1>6, <1>7, <1>8 DEF Next, Engine, Done

\* reconcile_outcome, agents one at a time: at the end of a step the shared variable holds
\* what some agent of this very attempt assigned.  (Of a batch it need not: each job has a
\* clone of the old environment, and the last one merged wins with it.)
THEOREM WritesKept == ASSUME ~Parallel PROVE Spec => []WritesSurviveStep
<1>1. Init => RanInv /\ Kept
  BY DEF Init, HistInit, AttemptHist, RanInv, BodiesRan, Kept
<1>2. Kept => WritesSurviveStep
  BY DEF Kept, WritesSurviveStep
<1>. QED BY <1>1, <1>2, AttemptInvInit, AttemptStep, RanStep, KeptStep, TypeCorrect, PTL DEF Spec

-----------------------------------------------------------------------------
(* Retention *)

\* This run goes on from the last checkpoint, if there is one.
Resumed == ThreadConfigured /\ ~blind

\* What the saver holds is all of one thread, and nothing in it is ahead of the run it
\* was saved by, nor of a run that was resumed from it.
NoneAhead ==
  \A k \in store : /\ k.thread = Thread /\ k.run <= runs
                   /\ k.run = runs \/ Resumed => k.step <= step

\* A run saves one checkpoint at each step.
OnePerStep == \A k, l \in store : k.run = l.run /\ k.step = l.step => k = l

Retained == IsFiniteSet(store) /\ NoneAhead /\ OnePerStep

\* Steps and runs are numbers.
LEMMA Numbers ==
  ASSUME TypeOK
  PROVE  step \in Int /\ runs \in Int /\ \A k \in store : k.step \in Int /\ k.run \in Int
<1>1. step \in Nat /\ runs \in 1..MaxRuns /\ store \subseteq Checkpoint
  BY DEF TypeOK
<1>2. \A k \in store : k.step \in Int /\ k.run \in Int
  BY <1>1 DEF Checkpoint
<1>. QED BY <1>1, <1>2, ConstantFacts

\* The last checkpoint in list order is at no earlier step than any other.
LEMMA NewestIsLast ==
  ASSUME NEW S \in SUBSET Checkpoint, NEW e \in Newest(S), NEW k \in S PROVE k.step <= e.step
<1>1. e \in S /\ ~(k.step > e.step)
  BY DEF Newest, NewerThan
<1>2. k.step \in Int /\ e.step \in Int
  BY <1>1 DEF Checkpoint
<1>. QED BY <1>1, <1>2

\* A run starts at the step of the last checkpoint, if it is resumed at all.
LEMMA RestartRetained == ASSUME TypeOK, Retained, Restart PROVE Retained'
<1>1. runs' = runs + 1 /\ store' = store /\ runs \in Int
  BY Numbers DEF Restart
<1>2. \A k \in store : k.run \in Int /\ k.step \in Int
  BY Numbers
<1>3. \A k \in store : k.run <= runs' /\ k.run # runs'
  BY <1>1, <1>2 DEF Retained, NoneAhead, OnePerStep
<1>4. ASSUME Resumed', NEW k \in store PROVE k.step <= step'
  <2>1. k \in Resumable(store)
    BY <1>4 DEF Resumed, Resumable, Retained, NoneAhead, Thread
  <2>2. PICK e \in Newest(Resumable(store)) : step' = e.step
    <3>1. PICK failed \in BOOLEAN :
            /\ \E e \in StartEngines(store, failed) : step' = e.step
            /\ blind' = (failed /\ Resumable(store) # {})
      BY DEF Restart
    <3>2. ~failed
      BY <1>4, <2>1, <3>1 DEF Resumed
    <3>. QED BY <2>1, <3>1, <3>2 DEF StartEngines
  <2>3. Resumable(store) \subseteq Checkpoint
    BY DEF Resumable, TypeOK
  <2>4. k.step <= e.step
    BY <2>1, <2>3, NewestIsLast
  <2>. QED BY <2>2, <2>4
<1>. QED BY <1>1, <1>3, <1>4 DEF Retained, NoneAhead, OnePerStep

\* What the step adds is later than all its run saved, and than all there is to resume.
LEMMA AdvanceRetained ==
  ASSUME TypeOK, Retained, Advance
  PROVE  /\ Retained'
         /\ step' = step + 1 =>
              \A k \in store : k.run = runs \/ Resumed => k.step < step'
<1>1. runs' = runs /\ store' \subseteq store \cup {Snapshot}
  BY AdvanceSeen
<1>2. (step' = step /\ store' = store) \/ step' = step + 1
  BY AdvanceSeen
<1>3. Snapshot.run = runs /\ Snapshot.step = step' /\ Snapshot.thread = Thread
  BY DEF Snapshot, CheckpointWith
<1>4. step \in Int /\ \A k \in store : k.step \in Int
  BY Numbers
<1>5. runs \in Int /\ (Resumed' <=> Resumed)
  BY Numbers DEF Resumed, Advance
<1>6. step' = step + 1 => \A k \in store : k.run = runs \/ Resumed => k.step < step'
  BY <1>4 DEF Retained, NoneAhead, OnePerStep
<1>7. CASE step' = step /\ store' = store
  BY <1>1, <1>5, <1>6, <1>7 DEF Retained, NoneAhead, OnePerStep
<1>8. CASE step' = step + 1
  <2>. DEFINE snap == Snapshot
  <2>1. snap.run = runs /\ snap.step = step' /\ snap.thread = Thread /\ store' \subseteq store \cup {snap}
    BY <1>1, <1>3
  <2>. HIDE DEF snap
  <2>2. IsFiniteSet(store')
    <3>1. IsFiniteSet(store \cup {snap})
      BY FS_AddElement DEF Retained
    <3>. QED BY <2>1, <3>1, FS_Subset
  <2>3. \A k \in store' : /\ k.thread = Thread /\ k.run <= runs
                          /\ k.run = runs \/ Resumed => k.step <= step'
    BY <1>4, <1>5, <1>6, <1>8, <2>1 DEF Retained, NoneAhead, OnePerStep
  <2>4. ASSUME NEW k \in store', NEW l \in store', k.run = l.run, k.step = l.step PROVE k = l
    <3>1. CASE k = snap /\ l = snap
      BY <3>1
    <3>2. CASE k = snap /\ l \in store
      BY <1>4, <1>6, <1>8, <2>1, <2>4, <3>2
    <3>3. CASE l = snap /\ k \in store
      BY <1>4, <1>6, <1>8, <2>1, <2>4, <3>3
    <3>4. CASE k \in store /\ l \in store
      BY <2>4, <3>4 DEF Retained, NoneAhead, OnePerStep
    <3>. QED BY <2>1, <3>1, <3>2, <3>3, <3>4
  <2>5. \A k, l \in store' : k.run = l.run /\ k.step = l.step => k = l
    BY <2>4
  <2>6. Retained'
    BY <1>1, <1>5, <2>2, <2>3, <2>5 DEF Retained, NoneAhead, OnePerStep
  <2>. QED BY <1>6, <2>6
<1>. QED BY <1>2, <1>6, <1>7, <1>8

LEMMA RetainedInit == Init => Retained
BY FS_EmptySet DEF Init, Retained, NoneAhead, OnePerStep

LEMMA RetainedStep == TypeOK /\ Retained /\ [Next]_vars => Retained'
<1>. SUFFICES ASSUME TypeOK, Retained, [Next]_vars PROVE Retained'
  OBVIOUS
<1>1. CASE Advance
  BY <1>1, AdvanceRetained
<1>2. CASE Restart
  BY <1>2, RestartRetained
<1>3. CASE UNCHANGED <<step, store, runs, blind>>
  BY <1>3 DEF Retained, NoneAhead, OnePerStep, Resumed
<1>4. CASE InnerStep
  BY <1>3, <1>4, InnerSteps
<1>5. CASE InterruptedBefore \/ Plan \/ Undeliverable \/ Finish
  BY <1>3, <1>5 DEF InterruptedBefore, Plan, Undeliverable, Finish, diskVars
<1>6. CASE UNCHANGED vars
  BY <1>3, <1>6 DEF vars, flowVars, diskVars
<1>. QED BY <1>1, <1>2, <1>4, <1>5, <1>6 DEF Next, Engine, Done, InnerStep

\* From newest to oldest.
NewestFirst(S) == {p \in S \X S : p[1] \in NewerThan(p[2], S)}

\* No two checkpoints of one step and run: list order is total.
LEMMA NewestFirstStrict ==
  ASSUME NEW S \in SUBSET Checkpoint, \A k, l \in S : k.run = l.run /\ k.step = l.step => k = l
  PROVE  /\ StrictOrder(NewestFirst(S), S)
         /\ \A c \in S : Below(c, S, NewestFirst(S)) = NewerThan(c, S)
<1>1. \A k \in S : k.step \in Int /\ k.run \in Int
  BY DEF Checkpoint
<1>2. \A k, l \in S : <<k, l>> \in NewestFirst(S) <=>
                       k.step > l.step \/ (k.step = l.step /\ k.run > l.run)
  BY DEF NewestFirst, NewerThan
<1>3. StrictOrder(NewestFirst(S), S)
  BY <1>1, <1>2 DEF StrictOrder
<1>4. \A c \in S : Below(c, S, NewestFirst(S)) = NewerThan(c, S)
  BY <1>2 DEF Below, NewerThan
<1>. QED BY <1>3, <1>4

\* What retention leaves of a thread is no more than it may.
LEMMA PruneBounds ==
  ASSUME NEW S \in SUBSET Checkpoint, IsFiniteSet(S), NEW max \in Nat,
         \A k, l \in S : k.run = l.run /\ k.step = l.step => k = l
  PROVE  Cardinality({k \in Prune(S, max) : k.thread = Thread}) <= max
<1>. DEFINE T == Own(S, Thread)
            order == NewestFirst(T)
<1>1. T \subseteq S /\ IsFiniteSet(T)
  BY FS_Subset DEF Own
<1>2. \A k, l \in T : k.run = l.run /\ k.step = l.step => k = l
  BY <1>1
<1>3. StrictOrder(order, T) /\ \A c \in T : Below(c, T, order) = NewerThan(c, T)
  <2>1. T \in SUBSET Checkpoint
    BY <1>1
  <2>. HIDE DEF T
  <2>. QED BY <1>2, <2>1, NewestFirstStrict
<1>4. {k \in Prune(S, max) : k.thread = Thread} = {c \in T : Cardinality(NewerThan(c, T)) < max}
  BY DEF Prune, Own
<1>. HIDE DEF T, order
<1>5. {c \in T : Cardinality(NewerThan(c, T)) < max} = {c \in T : Cardinality(Below(c, T, order)) < max}
  BY <1>3
<1>6. Cardinality({c \in T : Cardinality(Below(c, T, order)) < max}) <= max
  BY <1>1, <1>3, FewBelow
<1>. QED BY <1>4, <1>5, <1>6

\* With the checkpoint that is added, the store is a finite set of checkpoints, and none
\* is as late as the new one among those of this run and of those it resumed from.
LEMMA SavedAmongOthers ==
  ASSUME TypeOK, TypeOK', Retained, Advance, step' = step + 1
  PROVE  LET saved == store \cup {Snapshot}
         IN  /\ saved \in SUBSET Checkpoint /\ IsFiniteSet(saved)
             /\ \A k, l \in saved : k.run = l.run /\ k.step = l.step => k = l
             /\ \A k \in store : k.run = runs \/ Resumed => k.step < step'
<1>. DEFINE snap == Snapshot
            saved == store \cup {snap}
<1>2. snap.run = runs /\ snap.step = step' /\ snap.thread = Thread
  BY DEF Snapshot, CheckpointWith
<1>3. snap \in Checkpoint /\ \A k \in store : k \in Checkpoint
  <2>1. Thread \in {"pregel", "default"}
    BY DEF Thread
  <2>2. runs \in Nat
    <3>1. runs \in 1..MaxRuns
      BY DEF TypeOK
    <3>. QED BY <3>1, ConstantFacts
  <2>3. /\ step' \in Nat /\ chan' \in [Channels -> Nat \cup {NoVal}] /\ ver' \in [Channels -> Nat]
        /\ seen \in [Agents -> [Channels -> Nat]] /\ pending' \in Seq(Msg)
    BY DEF TypeOK
  <2>4. snap \in Checkpoint
    <3>. DEFINE s == step'
                c == chan'
                v == ver'
                m == pending'
    <3>1. /\ s \in Nat /\ c \in [Channels -> Nat \cup {NoVal}]
          /\ v \in [Channels -> Nat] /\ m \in Seq(Msg)
      BY <2>3
    <3>2. snap = [run |-> runs, thread |-> Thread, step |-> s, chan |-> c, ver |-> v,
                  seen |-> seen, pending |-> m]
      BY DEF Snapshot, CheckpointWith
    <3>. HIDE DEF s, c, v, m
    <3>. QED BY <2>1, <2>2, <2>3, <3>1, <3>2 DEF Checkpoint
  <2>. QED BY <2>4 DEF TypeOK
<1>4. \A k \in store : k.run = runs \/ Resumed => k.step < step'
  BY AdvanceRetained
<1>. HIDE DEF snap
<1>5. saved \in SUBSET Checkpoint /\ IsFiniteSet(saved)
  BY <1>3, FS_AddElement DEF Retained
<1>6. \A k \in store : k.step \in Int /\ k.run \in Int
  BY Numbers
<1>7. step' \in Int
  <2>1. step' \in Nat
    BY DEF TypeOK
  <2>. QED BY <2>1
<1>8. \A k, l \in saved : k.run = l.run /\ k.step = l.step => k = l
  BY <1>2, <1>4, <1>6, <1>7 DEF Retained, NoneAhead, OnePerStep
<1>. USE DEF snap
<1>. QED BY <1>4, <1>5, <1>8

\* Retention at one step: the bound, and what is sure to stay.
LEMMA StepRetention ==
  ASSUME TypeOK, TypeOK', Retained, Advance, phase' = "loop", SaveDue
  PROVE  /\ MaxCheckpoints # KeepAll =>
              Cardinality({k \in store' : k.thread = Thread}) <= MaxCheckpoints
         /\ ThreadConfigured /\ ~blind /\ MaxCheckpoints # 0 =>
              \E k \in store' : k.run = runs /\ k.step = step'
<1>. DEFINE snap == Snapshot
            saved == store \cup {snap}
<1>1. step' = step + 1 /\ store' = IF MaxCheckpoints = KeepAll THEN saved ELSE Prune(saved, MaxCheckpoints)
  BY DEF Advance, AutoSave, Fail
<1>2. snap.run = runs /\ snap.step = step' /\ snap.thread = Thread
  BY DEF Snapshot, CheckpointWith
<1>3. /\ saved \in SUBSET Checkpoint /\ IsFiniteSet(saved)
      /\ \A k, l \in saved : k.run = l.run /\ k.step = l.step => k = l
      /\ \A k \in store : k.run = runs \/ Resumed => k.step < step'
  BY <1>1, SavedAmongOthers
<1>. HIDE DEF snap
<1>9. ASSUME MaxCheckpoints # KeepAll
      PROVE  Cardinality({k \in store' : k.thread = Thread}) <= MaxCheckpoints
  <2>1. MaxCheckpoints \in Nat
    BY <1>9, ConfigAssumption
  <2>. HIDE DEF saved
  <2>. QED BY <1>1, <1>3, <1>9, <2>1, PruneBounds
<1>10. ASSUME Resumed, MaxCheckpoints # 0
       PROVE  \E k \in store' : k.run = runs /\ k.step = step'
  <2>1. CASE MaxCheckpoints = KeepAll
    BY <1>1, <1>2, <2>1
  <2>2. CASE MaxCheckpoints # KeepAll
    <3>1. MaxCheckpoints \in Nat \ {0}
      BY <1>10, <2>2, ConfigAssumption
    <3>2. NewerThan(snap, Own(saved, Thread)) = {}
      <4>1. \A d \in saved : ~(d.step > snap.step \/ (d.step = snap.step /\ d.run > snap.run))
        <5>1. \A d \in saved : d.step \in Int /\ d.run \in Int
          BY <1>3 DEF Checkpoint
        <5>. QED BY <1>2, <1>3, <1>10, <5>1
      <4>. QED BY <4>1 DEF NewerThan, Own
    <3>3. Cardinality(NewerThan(snap, Own(saved, Thread))) < MaxCheckpoints
      BY <3>1, <3>2, FS_EmptySet
    <3>4. snap \in Prune(saved, MaxCheckpoints)
      BY <3>3 DEF Prune
    <3>. QED BY <1>1, <1>2, <2>2, <3>4
  <2>. QED BY <2>1, <2>2
<1>. QED BY <1>9, <1>10 DEF Resumed

\* maybe_auto_checkpoint: whatever earlier runs and failed saves left behind, a step that
\* has saved leaves its thread within the bound; and in a run that could load what there
\* was to resume from, the checkpoint it just saved is what the next run goes on from.
THEOREM RetentionSound == Spec => RetentionKeepsNewest
<1>1. TypeOK /\ TypeOK' /\ Retained =>
        (Advance /\ phase' = "loop" /\ SaveDue =>
           /\ MaxCheckpoints # KeepAll =>
                Cardinality({k \in store' : k.thread = Thread}) <= MaxCheckpoints
           /\ ThreadConfigured /\ ~blind /\ MaxCheckpoints # 0 =>
                \E k \in store' : k.run = runs /\ k.step = step')
  BY StepRetention
<1>. QED BY <1>1, RetainedInit, RetainedStep, TypeCorrect, PTL DEF Spec, RetentionKeepsNewest

\* Retention that keeps any checkpoint of the thread keeps the last in list order.
LEMMA PruneKeepsLast ==
  ASSUME NEW S \in SUBSET Checkpoint, IsFiniteSet(S), NEW max \in Nat \ {0},
         \A k, l \in S : k.run = l.run /\ k.step = l.step => k = l,
         NEW k \in S, k.thread = Thread
  PROVE  \E m \in Prune(S, max) : m.thread = Thread /\ m.step >= k.step
<1>. DEFINE T == Own(S, Thread)
            order == NewestFirst(T)
<1>1. T \subseteq S /\ IsFiniteSet(T) /\ k \in T
  BY FS_Subset DEF Own
<1>2. StrictOrder(order, T) /\ \A c \in T : Below(c, T, order) = NewerThan(c, T)
  <2>1. T \in SUBSET Checkpoint /\ \A c, d \in T : c.run = d.run /\ c.step = d.step => c = d
    BY <1>1
  <2>. HIDE DEF T
  <2>. QED BY <2>1, NewestFirstStrict
<1>. HIDE DEF T, order
<1>3. 1 \in 1..Cardinality(T)
  BY <1>1, FS_CardinalityType, FS_EmptySet
<1>4. PICK m \in T : Cardinality(Below(m, T, order)) = 0
  BY <1>1, <1>2, <1>3, RankedPlaces
<1>5. NewerThan(m, T) = {} /\ Cardinality(NewerThan(m, T)) = 0
  <2>1. Below(m, T, order) \subseteq T
    BY DEF Below
  <2>. QED BY <1>1, <1>2, <1>4, <2>1, FS_Subset, FS_EmptySet
<1>6. m \in Prune(S, max) /\ m.thread = Thread
  <2>1. 0 < max
    OBVIOUS
  <2>. QED BY <1>1, <1>5, <2>1 DEF Prune, T, Own
<1>7. k.step <= m.step
  <2>1. T \in SUBSET Checkpoint /\ m \in Newest(T)
    BY <1>1, <1>4, <1>5 DEF Newest
  <2>. QED BY <1>1, <2>1, NewestIsLast
<1>8. k.step \in Int /\ m.step \in Int
  BY <1>1, <1>4 DEF Checkpoint
<1>. QED BY <1>6, <1>7, <1>8

\* What a later run can resume from outlives a step.
LEMMA StepProgress ==
  ASSUME TypeOK, TypeOK', Retained, [Next]_vars, MaxCheckpoints # 0, NEW k \in Resumable(store)
  PROVE  \E m \in Resumable(store') : m.step >= k.step
<1>1. k \in store /\ k.thread = "pregel" /\ k.thread = Thread /\ k.step >= k.step
  BY Numbers DEF Resumable, Retained, NoneAhead
<1>2. CASE k \in store'
  BY <1>1, <1>2 DEF Resumable
<1>3. CASE Advance /\ step' = step + 1
  <2>. DEFINE saved == store \cup {Snapshot}
  <2>1. /\ saved \in SUBSET Checkpoint /\ IsFiniteSet(saved)
        /\ \A c, d \in saved : c.run = d.run /\ c.step = d.step => c = d
    BY <1>3, SavedAmongOthers
  <2>2. k \in saved
    BY <1>1
  <2>3. \/ store' = store \/ store' = saved
        \/ \E max \in Nat \ {0} : store' = Prune(saved, max)
    <3>1. AutoSave
      <4>1. AutoSave \/ step' = step
        BY <1>3 DEF Advance
      <4>2. step \in Int
        BY Numbers
      <4>. QED BY <1>3, <4>1, <4>2
    <3>2. MaxCheckpoints \in Nat \cup {KeepAll} /\ Cardinality(saved) \in Nat
      BY <2>1, ConfigAssumption, FS_CardinalityType
    <3>3. CASE MaxCheckpoints = KeepAll
      BY <3>1, <3>3 DEF AutoSave
    <3>4. CASE MaxCheckpoints \in Nat
      <4>1. MaxCheckpoints \in Nat \ {0} /\ MaxCheckpoints # KeepAll
        BY <3>4 DEF KeepAll
      <4>2. \A max \in MaxCheckpoints + 1..Cardinality(saved) : max \in Nat \ {0}
        BY <3>2, <4>1
      <4>3. \/ store' \in {store, saved} \/ store' = Prune(saved, MaxCheckpoints)
            \/ store' \in {Prune(saved, max) : max \in MaxCheckpoints + 1..Cardinality(saved)}
        BY <3>1, <4>1 DEF AutoSave
      <4>. QED BY <4>1, <4>2, <4>3
    <3>. QED BY <3>2, <3>3, <3>4
  <2>. HIDE DEF saved
  <2>4. CASE store' = store \/ store' = saved
    BY <1>1, <1>2, <2>2, <2>4
  <2>5. CASE \E max \in Nat \ {0} : store' = Prune(saved, max)
    BY <1>1, <2>1, <2>2, <2>5, PruneKeepsLast DEF Resumable
  <2>. QED BY <2>3, <2>4, <2>5
<1>4. CASE ~(Advance /\ step' = step + 1)
  <2>1. store' = store
    <3>1. CASE InnerStep
      BY <3>1, InnerSteps
    <3>2. CASE Advance
      BY <1>4, <3>2, AdvanceSeen
    <3>3. CASE Plan \/ InterruptedBefore \/ Undeliverable \/ Finish \/ Restart
      BY <3>3 DEF Plan, InterruptedBefore, Undeliverable, Finish, Restart, diskVars
    <3>4. CASE UNCHANGED vars
      BY <3>4 DEF vars, diskVars
    <3>. QED BY <3>1, <3>2, <3>3, <3>4 DEF Next, Engine, Done, InnerStep
  <2>. QED BY <1>1, <1>2, <2>1
<1>. QED BY <1>3, <1>4

\* maybe_auto_checkpoint and run_pregel_config: what the next run can resume from never
\* falls back to an earlier step.  A run that could not load it starts over and prunes the
\* same thread, but list order is by step, so it deletes its own checkpoints first.
THEOREM ProgressNeverLost == Spec => ProgressKept
<1>1. TypeOK /\ TypeOK' /\ Retained /\ [Next]_vars =>
        (MaxCheckpoints # 0 =>
           \A k \in Resumable(store) : \E m \in Resumable(store') : m.step >= k.step)
  BY StepProgress
<1>. QED BY <1>1, RetainedInit, RetainedStep, TypeCorrect, PTL DEF Spec, ProgressKept
=============================================================================

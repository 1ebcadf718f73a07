------------------------------ MODULE MirDag ------------------------------
(***************************************************************************)
(* The graph executor of src/mir/vm/engine.rs: run_dag_with_signal_memo.   *)
(*                                                                         *)
(* The executor keeps the nodes that control has reached (active).  While  *)
(* there is exactly one and it is ready, it runs it and goes on with its   *)
(* only successor (the threaded path).  Otherwise it runs, in one wave,    *)
(* every active node that is ready, and collects the nodes the wave leads  *)
(* to.  A node is ready when the registers it reads have been written and  *)
(* the nodes before it in its block have run -- at any time in this run,   *)
(* neither is ever reset.                                                  *)
(*                                                                         *)
(* Not modelled: the memo of pure nodes, which skips the work of a node    *)
(* and nothing else; the rewrites of dag_optimize; MAX_STEPS.              *)
(***************************************************************************)
EXTENDS MirGraph

CONSTANT Programs  (* a sequence of bodies; a behaviour runs one of them   *)

VARIABLES
  prog,       (* the body that runs, an index of Programs                  *)
  graph,      (* the graph of that body, with what is read off it          *)
  threading,  (* MORA_NO_THREADING is not set                              *)
  status,     (* "step" at the head of the loop, "wave" in a wave, "done"  *)
  active,     (* the nodes control has reached, in order                   *)
  todo,       (* in a wave: the ready nodes still to run, in order         *)
  ready,      (* in a wave: the nodes the wave runs                        *)
  coming,     (* in a wave: the nodes pushed for the next one, in order  *)
  returned,   (* in a wave: saw_return                                     *)
  executed,   (* the nodes that have run                                   *)
  regs,       (* the registers that have been written (reg_ready)          *)
  last,       (* history: the instruction that ran last, 0 before          *)
  took,       (* history: how its condition came out                       *)
  beat        (* history: flips at every instruction                       *)

wave == <<todo, ready, coming, returned>>
mem  == <<executed, regs, last, took, beat>>
vars == <<prog, graph, threading, status, active, wave, mem>>

Body == Programs[prog]

-----------------------------------------------------------------------------
(* What the executor reads off the graph before its loop starts            *)

(* seq_preds: only predecessors that can run count.                        *)
SeqPreds(dag, n) ==
  {e.from : e \in {x \in dag.edges :
                     x.to = n /\ x.kind = "seq" /\ x.from \in dag.reachable}}

(* The nodes the edges of n lead to, each once, in the order of the edges. *)
Out(dag, n, kinds) ==
  Fresh(Heads({e \in dag.edges : e.from = n /\ e.kind \in kinds}), {})

Prepared(body) ==
  LET dag == dag_analyze(body)
  IN  [dag         |-> dag,
       seq_preds   |-> [n \in Pcs(body) |-> SeqPreds(dag, n)],
       control_out |-> [n \in Pcs(body) |-> Out(dag, n, {"ctl"})],
       successors  |-> [n \in Pcs(body) |-> Out(dag, n, {"ctl", "seq"})],
       in_block    |-> [n \in Pcs(body) |-> Out(dag, n, {"seq"})]]

Dag == graph.dag

-----------------------------------------------------------------------------
(* node_ready and the predecessors of the node.                            *)
Ready(n) == Body[n].use \subseteq regs /\ graph.seq_preds[n] \subseteq executed

(* threaded_successor: the only node that comes after n in its block.      *)
threaded_successor(n) == IF Len(graph.in_block[n]) = 1 THEN graph.in_block[n] ELSE <<>>

activatable_successors(n) == graph.successors[n]

(* The target a jump or a branch chooses; none when it has no node.        *)
Chosen(n, truthy) ==
  CASE Body[n].op = "jump"      -> Dag.taken[n]
    [] Body[n].op = "jumpif"    -> IF truthy THEN Dag.taken[n] ELSE Dag.notTaken[n]
    [] Body[n].op = "jumpifnot" -> IF truthy THEN Dag.notTaken[n] ELSE Dag.taken[n]
    [] OTHER                    -> <<>>

Steers(n) == IsBranch(Body[n]) \/ Body[n].op = "jump"

(* A slip: Handle is taken at its dst, which is none.                      *)
RunByDst(n, truthy) ==
  /\ executed' = executed \cup {n}
  /\ regs' = regs \cup Dst(Body[n])
  /\ IF IsLabel(Body[n]) THEN UNCHANGED <<last, took, beat>>
     ELSE last' = n /\ took' = truthy /\ beat' = ~beat

(* Running node n; a label is a node and not an instruction.               *)
Run(n, truthy) ==
  /\ executed' = executed \cup {n}
  /\ regs' = regs \cup WrittenReg(Body[n])
  /\ IF IsLabel(Body[n]) THEN UNCHANGED <<last, took, beat>>
     ELSE last' = n /\ took' = truthy /\ beat' = ~beat

(* Only a branch has a condition.                                          *)
Outcomes(n) == IF IsBranch(Body[n]) THEN BOOLEAN ELSE {TRUE}

LoopHead(nodes) == /\ active' = nodes
                   /\ status' = IF active' = <<>> THEN "done" ELSE "step"

-----------------------------------------------------------------------------
Init ==
  /\ prog \in DOMAIN Programs
  /\ graph = Prepared(Body)
  /\ threading \in BOOLEAN
  /\ active = Dag.entry
  /\ status = IF Dag.entry = <<>> THEN "done" ELSE "step"
  /\ todo = <<>> /\ ready = {} /\ coming = <<>> /\ returned = FALSE
  /\ executed = {} /\ regs = {}
  /\ last = 0 /\ took = FALSE /\ beat = FALSE

CanThread == threading /\ Len(active) = 1 /\ Ready(active[1])

(* The threaded path: run the one active node and go on with the target it *)
(* chose, else with its only successor in the block, else with every node  *)
(* its edges lead to (activatable_successors).                             *)
ThreadedStep ==
  /\ status = "step" /\ CanThread
  /\ LET n == active[1] IN
     \E truthy \in Outcomes(n) :
       /\ Run(n, truthy)
       /\ LET chosen == Chosen(n, truthy)
              to == IF chosen # <<>> THEN chosen ELSE threaded_successor(n)
          IN  LoopHead(IF Body[n].op = "return" THEN <<>>
                       ELSE IF to # <<>> THEN to
                       ELSE activatable_successors(n))
  /\ UNCHANGED <<prog, graph, threading, wave>>

(* The head of the loop on the wave path.  When no active node is ready,   *)
(* control moves on along the control edges of all of them.                *)
StartWave ==
  /\ status = "step" /\ ~CanThread
  /\ LET now == Picked(active, {n \in Range(active) : Ready(n)}) IN
     IF now = <<>>
     THEN /\ LoopHead(FlattenSeq([k \in DOMAIN active |-> graph.control_out[active[k]]]))
          /\ UNCHANGED wave
     ELSE /\ status' = "wave"
          /\ todo' = now /\ ready' = Range(now)
          /\ coming' = <<>> /\ returned' = FALSE
          /\ UNCHANGED active
  /\ UNCHANGED <<prog, graph, threading, mem>>

(* What is not pushed: what is already there, and what this wave runs.     *)
Pushed(s, more) == Fresh(s \o more, ready)

(* One node of the wave; a jump or a branch pushes the target it chose.    *)
RunNode ==
  /\ status = "wave" /\ todo # <<>>
  /\ LET n == Head(todo) IN
     \E truthy \in Outcomes(n) :
       /\ Run(n, truthy)
       /\ coming' = Pushed(coming, Chosen(n, truthy))
       /\ returned' = (returned \/ Body[n].op = "return")
  /\ todo' = Tail(todo)
  /\ UNCHANGED <<prog, graph, threading, status, active, ready>>

(* The end of the wave: after a return the loop stops; otherwise control   *)
(* spreads along the control and block edges of the nodes that ran, and    *)
(* the active nodes that were not ready stay active.                       *)
EndWave ==
  /\ status = "wave" /\ todo = <<>>
  /\ \E spread \in {Heads({e \in Dag.edges : /\ e.from \in ready /\ ~Steers(e.from)
                                             /\ e.kind \in {"ctl", "seq"}})} :
       LoopHead(IF returned THEN <<>> ELSE Pushed(coming, spread \o active))
  /\ todo' = <<>> /\ ready' = {} /\ coming' = <<>> /\ returned' = FALSE
  /\ UNCHANGED <<prog, graph, threading, mem>>

Next == ThreadedStep \/ StartWave \/ RunNode \/ EndWave

(* The loop runs on its own thread: it goes on until it is done.           *)
Spec == Init /\ [][Next]_vars /\ WF_vars(Next)

-----------------------------------------------------------------------------
(* Properties                                                              *)

(* Where a program that runs line by line stands after the same outcomes.  *)
Lines ==
  LET all == Programs
  IN  [i \in DOMAIN all |-> [n \in Pcs(all[i]) |->
         [truthy \in BOOLEAN |-> Follow(all[i], n, truthy)]]]

LinearPc == IF last = 0 THEN Landing(Body, 1) ELSE Lines[prog][last][took]

Linear == INSTANCE LinearMir WITH pc <- LinearPc

(* The graph executor runs exactly the instructions that the body would    *)
(* run line by line, in that order, each as often; and it gets to the end  *)
(* whenever the body would.  No instruction is lost because the other arm  *)
(* of a branch would have come first, none is run twice by two edges that  *)
(* lead to it, and none overtakes the effect it has to wait for, in the    *)
(* second round of a loop as in the first.                                 *)
ImplementsLinear == Linear!Spec

(* The loop never ends with instructions left: an empty active list means  *)
(* that the body has reached its end or a return.  What starves does so    *)
(* without an error, the program just stops in the middle.                 *)
NothingStarves == status = "done" => LinearPc = End(Body)
=============================================================================

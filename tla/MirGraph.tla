----------------------------- MODULE MirGraph -----------------------------
(***************************************************************************)
(* dag_analyze (src/mir/dag.rs): from a MIR body to the graph the executor *)
(* walks.  Nodes are the positions of the body.  An edge says that control *)
(* may go from one node to another ("ctl"), that the second comes after    *)
(* the first in their block ("seq"), or that it reads what the first wrote *)
(* ("data").  The order of the edges is the order of the code's passes,    *)
(* because the executor activates nodes in that order.                     *)
(***************************************************************************)
EXTENDS Mir, Ranking

Earliest(S) == CHOOSE x \in S : \A y \in S : x <= y
Latest(S) == CHOOSE x \in S : \A y \in S : x >= y
Least(S) == IF S = {} THEN {} ELSE {Earliest(S)}
Greatest(S) == IF S = {} THEN {} ELSE {Latest(S)}

-----------------------------------------------------------------------------
(* Basic blocks                                                            *)

LabelAt(body, n) == {p \in Pcs(body) : IsLabel(body[p]) /\ body[p].to = n}

(* partition_blocks and the search for loops read a target as a label      *)
(* first and as a position otherwise.                                      *)
LabelFirst(body, t) == IF LabelAt(body, t) # {} THEN Latest(LabelAt(body, t)) ELSE t

Targets(body) == {LabelFirst(body, body[p].to) : p \in {q \in Pcs(body) : Transfers(body[q])}}

(* partition_blocks: where the basic blocks start.                         *)
Starts(body) ==
  {p \in Pcs(body) : \/ p = 1
                     \/ IsLabel(body[p])
                     \/ p > 1 /\ IsTerminator(body[p - 1])
                     \/ p \in Targets(body)}

(* Every position's block; a block is named by the position it starts at.  *)
partition_blocks(body) ==
  LET starts == Starts(body)
  IN  [p \in Pcs(body) |-> Latest({s \in starts : s <= p})]

(* What follows has the body and `block`, its partition.                   *)

(* The executable nodes of a block; a label can only be its first node.    *)
Nodes(body, block, s) == {p \in Pcs(body) : block[p] = s /\ ~IsLabel(body[p])}

(* label_redirect: a label has no part in the execution of its block, so a *)
(* transfer that hits it goes to the first executable node of the block.   *)
Redirect(body, block, p) ==
  IF IsLabel(body[p]) /\ Nodes(body, block, p) # {} THEN Earliest(Nodes(body, block, p)) ELSE p

(* resolve_control_target: a position first, a label otherwise; a target   *)
(* that is neither has no node.                                            *)
Resolve(body, block, t) ==
  {Redirect(body, block, p) : p \in IF t \in Pcs(body) THEN {t} ELSE LabelAt(body, t)}

(* The target of a transfer, and what a branch falls through to.           *)
Taken(body, block, p) == IF Transfers(body[p]) THEN Resolve(body, block, body[p].to) ELSE {}
NotTaken(body, block, p) ==
  IF IsBranch(body[p]) /\ p + 1 \in Pcs(body) THEN {Redirect(body, block, p + 1)} ELSE {}

(* The blocks from the target of a backward jump to the end of the body:   *)
(* break and continue are not looked at.                                   *)
LoopHeads(body, block) ==
  {LabelFirst(body, body[p].to) :
     p \in {q \in Pcs(body) : /\ body[q].op \in {"jump", "jumpif", "jumpifnot"}
                              /\ LabelFirst(body, body[q].to) < block[q]}}
    \cap Range(block)

-----------------------------------------------------------------------------
(* Edges, by the pass that adds them                                       *)

Edge(pass, from, to, kind) == [pass |-> pass, from |-> from, to |-> to, kind |-> kind]

(* Pass 1: every node of a block comes after the one before it.            *)
NodesBefore(body, block, p) == {o \in Nodes(body, block, block[p]) : o < p}

ChainEdges(body, block) ==
  UNION {{Edge(1, q, p, "seq") : q \in Greatest(NodesBefore(body, block, p))} : p \in Pcs(body)}

(* Pass 2: a block that no terminator ends falls through to the next one.  *)
FallsFrom(body, block, s)   == {p \in Greatest(Nodes(body, block, s)) : ~IsTerminator(body[p])}
BlocksBehind(block, s)      == {o \in Range(block) : o > s}
FirstNodes(body, block, bs) == UNION {Least(Nodes(body, block, b)) : b \in bs}

FallThroughEdges(body, block) ==
  UNION {{Edge(2, p, h, "ctl") : p \in FallsFrom(body, block, s),
                                 h \in FirstNodes(body, block, Least(BlocksBehind(block, s)))} :
           s \in Range(block)}

(* Pass 3: a transfer goes to its target, a branch also to what follows.   *)
(* The code takes them in the order of a hash map; here they are in that   *)
(* of their targets, since no wave of the programs we run has two of those *)
(* that spread along their edges (break, continue).                        *)
TransferEdges(body, block) ==
  UNION {{Edge(3, p, t, "ctl") : t \in Taken(body, block, p) \cup NotTaken(body, block, p)} :
           p \in Pcs(body)}

(* Pass 4: in a block, from the node that last wrote a register to those   *)
(* that read it; and from the last effect to the next one, in the blocks   *)
(* of a loop to every node up to the next one.                             *)
DataEdges(body, block) ==
  UNION {UNION {{Edge(4, q, p, "data") :
                   q \in Greatest({o \in 1..(p - 1) : /\ block[o] = block[p]
                                                      /\ IsCompute(body[o]) /\ r \in Dst(body[o])})} :
                  r \in body[p].use} : p \in Pcs(body)}

LastEffect(body, block, p) ==
  Greatest({o \in 1..(p - 1) : block[o] = block[p] /\ IsEffect(body[o])})

(* A slip: the fan of an effect stops at the next node even in a loop.     *)
NoFan(body, block) ==
  UNION {{Edge(4, q, p, "seq") : q \in {o \in LastEffect(body, block, p) : IsEffect(body[p])}} :
           p \in Pcs(body)}

FanEdges(body, block) ==
  LET heads == LoopHeads(body, block)
  IN  UNION {{Edge(4, q, p, "seq") :
                q \in {o \in LastEffect(body, block, p) :
                         IsEffect(body[p]) \/ \E h \in heads : h <= block[p]}} : p \in Pcs(body)}

(* Pass 5: a label leads to the first executable node after it.            *)
LabelEdges(body) ==
  {Edge(5, p, Landing(body, p), "ctl") :
     p \in {q \in Pcs(body) : IsLabel(body[q]) /\ Landing(body, q) # End(body)}}

(* The code drops an edge that agrees with an earlier one in all but its   *)
(* pass; nothing that reads the edges can tell.                            *)
Edges(body, block) ==
  UNION {ChainEdges(body, block), FallThroughEdges(body, block), TransferEdges(body, block),
         DataEdges(body, block), FanEdges(body, block), LabelEdges(body)}

(* Where edges lead to, in the order in which the passes add them.  Of two *)
(* edges of one pass with the same ends one is a data edge.                *)
Earlier(a, b) == \/ a.pass < b.pass
                 \/ a.pass = b.pass /\ a.to < b.to
                 \/ a.pass = b.pass /\ a.to = b.to /\ a.from < b.from
Heads(edges) ==
  LET place(e) == Cardinality({o \in edges : Earlier(o, e)}) + 1
  IN  [k \in 1..Cardinality(edges) |-> (CHOOSE e \in edges : place(e) = k).to]

-----------------------------------------------------------------------------
(* The whole analysis                                                      *)

(* The nodes reachable from the first position over every edge, in as many *)
(* rounds as there are nodes.                                              *)
Reachable(body, edges) ==
  LET grow[k \in Nat] ==
        IF k = 0 THEN {1} \cap Pcs(body)
        ELSE LET sofar == grow[k - 1]
             IN  sofar \cup {e.to : e \in {x \in edges : x.from \in sofar}}
  IN  grow[Len(body)]

(* recompute_entry: the reachable nodes nothing leads to, or, when there   *)
(* are none, the nodes nothing leads to.                                   *)
Entry(body, edges, reachable) ==
  LET roots == Pcs(body) \ {e.to : e \in edges}
  IN  IF roots \cap reachable # {} THEN roots \cap reachable ELSE roots

dag_analyze(body) ==
  LET block == partition_blocks(body)
      edges == Edges(body, block)
      reach == Reachable(body, edges)
  IN  [edges     |-> edges,
       taken     |-> [p \in Pcs(body) |-> Ascending(Taken(body, block, p))],
       notTaken  |-> [p \in Pcs(body) |-> Ascending(NotTaken(body, block, p))],
       entry     |-> Ascending(Entry(body, edges, reach)),
       reachable |-> reach]
=============================================================================

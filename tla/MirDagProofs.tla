---------------------------- MODULE MirDagProofs ----------------------------
(***************************************************************************)
(* The graph executor runs a body line by line, for any body as the        *)
(* lowering makes it (Tidy) and any number of bodies.                      *)
(*                                                                         *)
(* The argument has three parts.  What the graph of a tidy body looks      *)
(* like: which edges there are, in which order they are listed, what is    *)
(* reachable, where execution starts.  What the lists of the executor look *)
(* like at each point: behind the instruction at which the program stands  *)
(* there are only later ones of its block that no effect separates from it *)
(* (Spread), and in a loop all of them up to the last; the ready ones are  *)
(* those from that instruction to a later one without a gap (NowFacts),    *)
(* and where a wave leads is where the program stands after its last       *)
(* instruction (WaveTracks).  And what has run (Memory): outside of loops  *)
(* nothing ahead of the program, so that a node whose predecessors have    *)
(* not run waits for them; in the second round of a loop everything is     *)
(* ready, which is why there the list must have no gap -- the fan edges    *)
(* see to that.  DagInv puts this together.                                *)
(***************************************************************************)
EXTENDS MirDag, TidyBodies, RankingProofs, SequenceTheorems

-----------------------------------------------------------------------------
(* Blocks                                                                  *)

(* The blocks: where they start, and which one a position is in.           *)
LEMMA Blocks ==
  ASSUME NEW body, Len(body) \in Nat
  PROVE  /\ Starts(body) \subseteq Pcs(body)
         /\ DOMAIN partition_blocks(body) = Pcs(body)
         /\ \A p \in Pcs(body) :
              /\ partition_blocks(body)[p] \in Starts(body)
              /\ partition_blocks(body)[p] <= p
              /\ \A s \in Starts(body) : s <= p => s <= partition_blocks(body)[p]
<1> DEFINE starts == Starts(body)
<1>1. starts \subseteq Pcs(body) /\ Pcs(body) = 1..Len(body)
  BY DEF Starts, Pcs
<1>2. 1 \in Pcs(body) => 1 \in starts
  BY DEF Starts
<1> HIDE DEF starts
<1>3. ASSUME NEW p \in Pcs(body)
      PROVE  /\ partition_blocks(body)[p] \in starts
             /\ partition_blocks(body)[p] <= p
             /\ \A s \in starts : s <= p => s <= partition_blocks(body)[p]
  <2> DEFINE S == {s \in starts : s <= p}
  <2>1. partition_blocks(body)[p] = Latest(S)
    BY DEF partition_blocks, starts
  <2>2. S \subseteq 1..Len(body) /\ 1 \in S
    BY <1>1, <1>2
  <2>3. S \in SUBSET Int /\ IsFiniteSet(S) /\ S # {}
    <3> HIDE DEF S
    <3>1. Len(body) \in Int /\ S \in SUBSET (1..Len(body)) /\ S # {}
      BY <2>2
    <3>2. S \in SUBSET Int /\ IsFiniteSet(S)
      BY <3>1, PlacesFinite
    <3> QED
      BY <3>1, <3>2
  <2> HIDE DEF S
  <2>4. \E x \in S : \A y \in S : y <= x
    BY <2>3, FirstAndLast
  <2>5. \A x, y \in S : y <= x <=> x >= y
    BY <2>3
  <2>6. Latest(S) \in S /\ \A y \in S : y <= Latest(S)
    BY <2>4, <2>5 DEF Latest
  <2> QED
    BY <2>1, <2>6 DEF S
<1>4. DOMAIN partition_blocks(body) = Pcs(body)
  BY DEF partition_blocks
<1> QED
  BY <1>1, <1>3, <1>4 DEF starts

(* What the proofs need of a partition, without how it is computed.        *)
LEMMA BlockFacts ==
  ASSUME NEW body, Len(body) \in Nat, NEW block, block = partition_blocks(body)
  PROVE  /\ \A s \in Starts(body) : block[s] = s
         /\ \A p, q \in Pcs(body) : p <= q => block[p] <= block[q]
         /\ \A p, q \in Pcs(body) : p < q /\ block[p] = block[q] =>
              q \notin Starts(body) /\ ~IsLabel(body[q]) /\ ~IsTerminator(body[p])
         /\ \A p \in Pcs(body) : p + 1 \in Pcs(body) /\ p + 1 \notin Starts(body)
              => block[p + 1] = block[p] /\ ~IsLabel(body[p + 1]) /\ ~IsTerminator(body[p])
         /\ \A p, q \in Pcs(body) : \A y \in p..q : block[p] = block[q]
              => y \in Pcs(body) /\ block[y] = block[p]
<1>1. /\ Pcs(body) \subseteq Int /\ Starts(body) \subseteq Pcs(body)
      /\ \A p \in Pcs(body) :
           /\ block[p] \in Starts(body) /\ block[p] <= p
           /\ \A s \in Starts(body) : s <= p => s <= block[p]
  BY Blocks DEF Pcs
<1>2. \A p \in Pcs(body) : block[p] \in Int
  BY <1>1
<1>3. \A s \in Starts(body) : block[s] = s
  <2> SUFFICES ASSUME NEW s \in Starts(body) PROVE block[s] = s
    OBVIOUS
  <2>1. s \in Int /\ s <= block[s] /\ block[s] <= s /\ block[s] \in Int
    BY <1>1
  <2> QED
    BY <2>1
<1>4. \A p, q \in Pcs(body) : p <= q => block[p] <= block[q]
  <2> SUFFICES ASSUME NEW p \in Pcs(body), NEW q \in Pcs(body), p <= q PROVE block[p] <= block[q]
    OBVIOUS
  <2>1. block[p] \in Starts(body) /\ block[p] <= p /\ block[p] \in Int /\ p \in Int /\ q \in Int
    BY <1>1
  <2>2. block[p] <= q
    BY <2>1
  <2> QED
    BY <1>1, <2>1, <2>2
<1>5. \A p \in Pcs(body) : IsLabel(body[p]) => p \in Starts(body)
  BY DEF Starts
<1>6. \A p \in Pcs(body) : p + 1 \in Pcs(body) /\ IsTerminator(body[p]) => p + 1 \in Starts(body)
  <2> SUFFICES ASSUME NEW p \in Pcs(body), p + 1 \in Pcs(body), IsTerminator(body[p])
               PROVE  p + 1 \in Starts(body)
    OBVIOUS
  <2>1. p + 1 > 1 /\ (p + 1) - 1 = p
    BY DEF Pcs
  <2> QED
    BY <2>1 DEF Starts
<1>7. \A p, q \in Pcs(body) : \A y \in p..q : block[p] = block[q] => y \in Pcs(body) /\ block[y] = block[p]
  <2> SUFFICES ASSUME NEW p \in Pcs(body), NEW q \in Pcs(body), NEW y \in p..q, block[p] = block[q]
               PROVE  y \in Pcs(body) /\ block[y] = block[p]
    OBVIOUS
  <2>1. y \in Pcs(body) /\ p <= y /\ y <= q
    BY DEF Pcs
  <2>2. block[p] <= block[y] /\ block[y] <= block[q]
    BY <1>4, <2>1
  <2> QED
    BY <1>2, <2>1, <2>2
<1>8. ASSUME NEW p \in Pcs(body), NEW q \in Pcs(body), p < q, block[p] = block[q]
      PROVE  q \notin Starts(body) /\ ~IsLabel(body[q]) /\ ~IsTerminator(body[p])
  <2>1. q \notin Starts(body)
    <3> SUFFICES ASSUME q \in Starts(body) PROVE FALSE
      OBVIOUS
    <3>1. block[q] = q /\ block[p] <= p
      BY <1>1, <1>3
    <3> QED
      BY <1>1, <1>8, <3>1
  <2>2. p + 1 \in Pcs(body) /\ p + 1 \in p..q
    BY <1>8 DEF Pcs
  <2>3. p + 1 \notin Starts(body)
    <3> SUFFICES ASSUME p + 1 \in Starts(body) PROVE FALSE
      OBVIOUS
    <3>1. block[p + 1] = p + 1 /\ block[p] <= p /\ block[p + 1] = block[p]
      BY <1>1, <1>3, <1>7, <1>8, <2>2
    <3> QED
      BY <1>1, <3>1
  <2> QED
    BY <1>5, <1>6, <2>1, <2>2, <2>3
<1>9. ASSUME NEW p \in Pcs(body), p + 1 \in Pcs(body), p + 1 \notin Starts(body)
      PROVE  block[p + 1] = block[p] /\ ~IsLabel(body[p + 1]) /\ ~IsTerminator(body[p])
  <2>1. block[p + 1] \in Starts(body) /\ block[p + 1] <= p + 1 /\ block[p + 1] # p + 1
    BY <1>1, <1>9
  <2>2. block[p + 1] <= p
    BY <1>1, <2>1
  <2>3. block[p + 1] <= block[p]
    BY <1>1, <2>1, <2>2
  <2>4. p <= p + 1
    BY <1>1
  <2>5. block[p] <= block[p + 1]
    BY <1>4, <1>9, <2>4
  <2> QED
    BY <1>2, <1>5, <1>6, <1>9, <2>3, <2>5
<1> QED
  BY <1>3, <1>4, <1>7, <1>8, <1>9

-----------------------------------------------------------------------------
(* Landing, following, and where a transfer is redirected to               *)

(* Where control comes to rest from a place in the body.                   *)
LEMMA LandingFacts ==
  ASSUME NEW body, Len(body) \in Nat, Labelled(body)
  PROVE  /\ \A p \in Pcs(body) : ~IsLabel(body[p]) => Landing(body, p) = p
         /\ \A p \in Pcs(body) : IsLabel(body[p]) /\ p + 1 \in Pcs(body) =>
              Landing(body, p) = p + 1 /\ ~IsLabel(body[p + 1]) /\ p + 1 \notin Starts(body)
         /\ \A p \in Pcs(body) : IsLabel(body[p]) /\ p + 1 \notin Pcs(body) => Landing(body, p) = End(body)
         /\ Landing(body, End(body)) = End(body)
         /\ \A p \in 1..End(body) :
              Landing(body, p) = End(body)
                \/ (Landing(body, p) \in Pcs(body) /\ ~IsLabel(body[Landing(body, p)]))
<1> DEFINE real(p) == {q \in Pcs(body) : q >= p /\ ~IsLabel(body[q])}
<1>1. Pcs(body) = 1..Len(body) /\ End(body) = Len(body) + 1
  BY DEF Pcs, End
<1>2. \A p : Landing(body, p) = IF real(p) = {} THEN End(body)
                                ELSE CHOOSE q \in real(p) : \A o \in real(p) : q <= o
  BY DEF Landing
<1>3. \A p \in Pcs(body) : IsLabel(body[p]) => p + 1 \notin Starts(body)
  BY DEF Labelled
<1>4. \A p \in Pcs(body) : IsLabel(body[p]) => p \in Starts(body)
  BY DEF Starts
<1>5. ASSUME NEW p \in Pcs(body), ~IsLabel(body[p]) PROVE Landing(body, p) = p
  <2>1. p \in real(p) /\ \A o \in real(p) : p <= o
    BY <1>1, <1>5
  <2>2. \A q \in real(p) : (\A o \in real(p) : q <= o) => q = p
    <3> SUFFICES ASSUME NEW q \in real(p), \A o \in real(p) : q <= o PROVE q = p
      OBVIOUS
    <3>1. q <= p /\ p <= q /\ q \in Int /\ p \in Int
      BY <1>1, <2>1
    <3> QED
      BY <3>1
  <2> HIDE DEF real
  <2> QED
    BY <1>2, <2>1, <2>2
<1>6. ASSUME NEW p \in Pcs(body), IsLabel(body[p]), p + 1 \in Pcs(body)
      PROVE  Landing(body, p) = p + 1 /\ ~IsLabel(body[p + 1]) /\ p + 1 \notin Starts(body)
  <2>1. ~IsLabel(body[p + 1]) /\ p + 1 \notin Starts(body)
    BY <1>3, <1>4, <1>6
  <2>2. p + 1 \in real(p) /\ \A o \in real(p) : p + 1 <= o
    BY <1>1, <1>6, <2>1
  <2>3. \A q \in real(p) : (\A o \in real(p) : q <= o) => q = p + 1
    <3> SUFFICES ASSUME NEW q \in real(p), \A o \in real(p) : q <= o PROVE q = p + 1
      OBVIOUS
    <3>1. q <= p + 1 /\ p + 1 <= q /\ q \in Int /\ p \in Int
      BY <1>1, <2>2
    <3> QED
      BY <3>1
  <2> HIDE DEF real
  <2> QED
    BY <1>2, <2>1, <2>2, <2>3
<1>7. ASSUME NEW p \in Pcs(body), IsLabel(body[p]), p + 1 \notin Pcs(body)
      PROVE  Landing(body, p) = End(body)
  <2>1. real(p) = {}
    BY <1>1, <1>7
  <2> QED
    BY <1>2, <2>1
<1>8. Landing(body, End(body)) = End(body)
  <2>1. real(End(body)) = {}
    BY <1>1
  <2> QED
    BY <1>2, <2>1
<1>9. ASSUME NEW p \in 1..End(body)
      PROVE  Landing(body, p) = End(body)
               \/ (Landing(body, p) \in Pcs(body) /\ ~IsLabel(body[Landing(body, p)]))
  <2>1. p \in Pcs(body) \/ p = End(body)
    BY <1>1
  <2> QED
    BY <1>5, <1>6, <1>7, <1>8, <2>1
<1> QED
  BY <1>5, <1>6, <1>7, <1>8, <1>9

(* A label reads nothing and is first in its block.                        *)
LEMMA LabelFacts ==
  ASSUME NEW body, NEW p \in Pcs(body), IsLabel(body[p])
  PROVE  p \in Starts(body) /\ ~IsTerminator(body[p]) /\ ~Transfers(body[p]) /\ ~IsBranch(body[p])
         /\ ~IsEffect(body[p]) /\ body[p].op # "jump" /\ body[p].op # "return"
  BY DEF Starts, IsLabel, IsTerminator, Transfers, IsBranch, IsEffect

(* Where an instruction sends a program.                                   *)
LEMMA FollowFacts ==
  ASSUME NEW body, NEW p, NEW truthy \in BOOLEAN
  PROVE  /\ ~IsTerminator(body[p]) => Follow(body, p, truthy) = Landing(body, p + 1)
         /\ body[p].op = "return" => Follow(body, p, truthy) = End(body)
         /\ body[p].op \in {"jump", "break", "continue"} => Follow(body, p, truthy) = Landing(body, body[p].to)
         /\ body[p].op = "jumpif" => Follow(body, p, truthy) = Landing(body, IF truthy THEN body[p].to ELSE p + 1)
         /\ body[p].op = "jumpifnot" => Follow(body, p, truthy) = Landing(body, IF truthy THEN p + 1 ELSE body[p].to)
  BY DEF Follow, IsTerminator, Transfers, IsBranch

(* A transfer ends where the graph's edge for it ends.                     *)
LEMMA RedirectFacts ==
  ASSUME NEW body, Len(body) \in Nat, Labelled(body),
         NEW block, block = partition_blocks(body), NEW t \in Pcs(body)
  PROVE  /\ Redirect(body, block, t) \in Pcs(body)
         /\ ~IsLabel(body[t]) => Redirect(body, block, t) = t
         /\ IsLabel(body[t]) /\ t + 1 \in Pcs(body) => Redirect(body, block, t) = t + 1
         /\ IsLabel(body[t]) /\ t + 1 \notin Pcs(body) => Redirect(body, block, t) = t
         /\ Landing(body, Redirect(body, block, t)) = Landing(body, t)
         /\ Landing(body, t) \in Pcs(body) => Redirect(body, block, t) = Landing(body, t)
<1>1. Pcs(body) = 1..Len(body) /\ End(body) = Len(body) + 1
  BY DEF Pcs, End
<1>2. CASE ~IsLabel(body[t])
  <2>1. Redirect(body, block, t) = t
    BY <1>2 DEF Redirect
  <2> QED
    BY <1>2, <2>1, LandingFacts
<1> DEFINE N == Nodes(body, block, t)
<1>3. CASE IsLabel(body[t]) /\ t + 1 \in Pcs(body)
  <2>1. Landing(body, t) = t + 1 /\ ~IsLabel(body[t + 1]) /\ t + 1 \notin Starts(body)
    BY <1>3, LandingFacts
  <2>2. block[t] = t /\ block[t + 1] = t
    <3>1. t \in Starts(body)
      BY <1>3, LabelFacts
    <3> QED
      BY <1>3, <2>1, <3>1, BlockFacts
  <2>3. t + 1 \in N
    BY <1>3, <2>1, <2>2 DEF Nodes
  <2>4. \A o \in N : o \in Pcs(body) /\ t + 1 <= o
    <3> SUFFICES ASSUME NEW o \in N PROVE o \in Pcs(body) /\ t + 1 <= o
      OBVIOUS
    <3>1. o \in Pcs(body) /\ block[o] = t /\ ~IsLabel(body[o])
      BY DEF Nodes
    <3>2. t <= o /\ t # o
      BY <1>3, <3>1, Blocks
    <3> QED
      BY <1>1, <3>1, <3>2
  <2>5. \A q \in N : (\A o \in N : q <= o) => q = t + 1
    <3> SUFFICES ASSUME NEW q \in N, \A o \in N : q <= o PROVE q = t + 1
      OBVIOUS
    <3>1. q <= t + 1 /\ t + 1 <= q /\ q \in Int /\ t \in Int
      BY <1>1, <2>3, <2>4
    <3> QED
      BY <3>1
  <2>6. Redirect(body, block, t) = Earliest(N)
    BY <1>3, <2>3 DEF Redirect
  <2> HIDE DEF N
  <2>7. Earliest(N) = t + 1
    BY <2>3, <2>4, <2>5 DEF Earliest
  <2> QED
    BY <1>3, <2>1, <2>6, <2>7, LandingFacts
<1>4. CASE IsLabel(body[t]) /\ t + 1 \notin Pcs(body)
  <2>1. N = {}
    <3> SUFFICES ASSUME NEW o \in N PROVE FALSE
      OBVIOUS
    <3>1. o \in Pcs(body) /\ block[o] = t /\ ~IsLabel(body[o])
      BY DEF Nodes
    <3>2. t <= o /\ t # o
      BY <1>4, <3>1, Blocks
    <3> QED
      BY <1>1, <1>4, <3>1, <3>2
  <2>2. Redirect(body, block, t) = t
    BY <2>1 DEF Redirect
  <2>3. Landing(body, t) = End(body)
    BY <1>4, LandingFacts
  <2> QED
    BY <1>1, <1>4, <2>2, <2>3
<1> QED
  BY <1>2, <1>3, <1>4

-----------------------------------------------------------------------------
(* The edges, pass by pass                                                 *)

(* The last and the first of some places, if there is one.                 *)
LEMMA EndsOf ==
  ASSUME NEW body, Len(body) \in Nat, NEW S, S \subseteq Pcs(body)
  PROVE  /\ \A q \in Greatest(S) : q \in S /\ \A o \in S : o <= q
         /\ \A q \in Least(S) : q \in S /\ \A o \in S : q <= o
         /\ S # {} => Greatest(S) # {} /\ Least(S) # {}
<1>1. S \in SUBSET Int /\ IsFiniteSet(S)
  <2>1. Len(body) \in Int /\ S \in SUBSET (1..Len(body))
    BY DEF Pcs
  <2> QED
    BY <2>1, PlacesFinite
<1>2. S # {} => /\ \E x \in S : \A y \in S : x <= y
                /\ \E x \in S : \A y \in S : y <= x
  BY <1>1, FirstAndLast
<1>3. \A x, y \in S : y <= x <=> x >= y
  BY <1>1
<1>4. S # {} => Latest(S) \in S /\ \A o \in S : o <= Latest(S)
  BY <1>2, <1>3 DEF Latest
<1>5. S # {} => Earliest(S) \in S /\ \A o \in S : Earliest(S) <= o
  BY <1>2 DEF Earliest
<1> QED
  BY <1>4, <1>5 DEF Greatest, Least

(* Pass 1: from a node to the next place of its block.                     *)
LEMMA ChainFacts ==
  ASSUME NEW body, Len(body) \in Nat, NEW block, block = partition_blocks(body)
  PROVE  /\ \A e \in ChainEdges(body, block) : \E q \in Pcs(body) :
              /\ e = Edge(1, q, q + 1, "seq") /\ q + 1 \in Pcs(body)
              /\ ~IsLabel(body[q]) /\ block[q + 1] = block[q]
         /\ \A q \in Pcs(body) : /\ ~IsLabel(body[q]) /\ q + 1 \in Pcs(body) /\ block[q + 1] = block[q]
              => Edge(1, q, q + 1, "seq") \in ChainEdges(body, block)
<1>1. Pcs(body) = 1..Len(body) /\ Len(body) \in Int
  BY DEF Pcs
<1>2. \A p : NodesBefore(body, block, p) \subseteq Pcs(body)
  BY <1>1 DEF Nodes, NodesBefore
<1>3. \A p, o : o \in NodesBefore(body, block, p) <=> o \in Pcs(body) /\ block[o] = block[p] /\ ~IsLabel(body[o]) /\ o < p
  BY DEF Nodes, NodesBefore
<1>4. \A e : e \in ChainEdges(body, block) <=>
               \E p \in Pcs(body) : \E q \in Greatest(NodesBefore(body, block, p)) : e = Edge(1, q, p, "seq")
  BY DEF ChainEdges
<1>5. ASSUME NEW p \in Pcs(body), NEW q \in Greatest(NodesBefore(body, block, p))
      PROVE  q \in Pcs(body) /\ p = q + 1 /\ ~IsLabel(body[q]) /\ block[p] = block[q]
  <2>1. q \in NodesBefore(body, block, p) /\ \A o \in NodesBefore(body, block, p) : o <= q
    BY <1>2, EndsOf
  <2>2. q \in Pcs(body) /\ block[q] = block[p] /\ ~IsLabel(body[q]) /\ q < p
    BY <1>3, <2>1
  <2>3. p - 1 \in q..p /\ p - 1 < p
    BY <1>1, <2>2
  <2>4. p - 1 \in Pcs(body) /\ block[p - 1] = block[p]
    BY <2>2, <2>3, BlockFacts
  <2>5. CASE p - 1 = q
    BY <1>1, <2>2, <2>5
  <2>6. CASE p - 1 # q
    <3>1. q < p - 1
      BY <1>1, <2>2, <2>3, <2>6
    <3>2. ~IsLabel(body[p - 1])
      BY <2>2, <2>4, <3>1, BlockFacts
    <3>3. p - 1 <= q
      BY <1>3, <2>1, <2>3, <2>4, <3>2
    <3> QED
      BY <1>1, <2>2, <3>1, <3>3
  <2> QED
    BY <2>5, <2>6
<1>6. ASSUME NEW q \in Pcs(body), ~IsLabel(body[q]), q + 1 \in Pcs(body), block[q + 1] = block[q]
      PROVE  Edge(1, q, q + 1, "seq") \in ChainEdges(body, block)
  <2>1. q \in NodesBefore(body, block, q + 1)
    BY <1>1, <1>3, <1>6
  <2>2. PICK o \in Greatest(NodesBefore(body, block, q + 1)) : TRUE
    BY <1>2, <2>1, EndsOf
  <2>3. o \in Pcs(body) /\ q + 1 = o + 1
    BY <1>5, <1>6, <2>2
  <2>4. o = q
    BY <1>1, <2>3
  <2> QED
    BY <1>4, <1>6, <2>2, <2>4
<1>7. ASSUME NEW e \in ChainEdges(body, block)
      PROVE  \E q \in Pcs(body) : /\ e = Edge(1, q, q + 1, "seq") /\ q + 1 \in Pcs(body)
                                  /\ ~IsLabel(body[q]) /\ block[q + 1] = block[q]
  <2>0. PICK p \in Pcs(body) : \E q \in Greatest(NodesBefore(body, block, p)) : e = Edge(1, q, p, "seq")
    BY <1>4
  <2>1. PICK q \in Greatest(NodesBefore(body, block, p)) : e = Edge(1, q, p, "seq")
    BY <2>0
  <2> QED
    BY <1>5, <2>1
<1> QED
  BY <1>6, <1>7

(* Pass 2: from the end of a block that no terminator ends to the first    *)
(* node of the next.                                                       *)
LEMMA FallThroughFacts ==
  ASSUME NEW body, Len(body) \in Nat, Labelled(body), NEW block, block = partition_blocks(body)
  PROVE  /\ \A e \in FallThroughEdges(body, block) : \E p \in Pcs(body) :
              /\ e = Edge(2, p, Landing(body, p + 1), "ctl") /\ Landing(body, p + 1) \in Pcs(body)
              /\ p + 1 \in Starts(body) /\ ~IsLabel(body[p]) /\ ~IsTerminator(body[p])
         /\ \A p \in Pcs(body) : /\ ~IsLabel(body[p]) /\ ~IsTerminator(body[p])
                                 /\ p + 1 \in Starts(body) /\ Landing(body, p + 1) \in Pcs(body)
              => Edge(2, p, Landing(body, p + 1), "ctl") \in FallThroughEdges(body, block)
<1>1. /\ Pcs(body) = 1..Len(body) /\ Len(body) \in Int /\ Starts(body) \subseteq Pcs(body)
      /\ DOMAIN block = Pcs(body)
      /\ \A p \in Pcs(body) : /\ block[p] \in Starts(body) /\ block[p] <= p
                              /\ \A s \in Starts(body) : s <= p => s <= block[p]
  BY Blocks DEF Pcs
<1>2. Range(block) = Starts(body)
  <2>1. \A s \in Starts(body) : s \in DOMAIN block /\ block[s] = s
    BY <1>1, BlockFacts
  <2> QED
    BY <1>1, <2>1 DEF Range
<1>3. \A s : BlocksBehind(block, s) \subseteq Pcs(body) /\ Nodes(body, block, s) \subseteq Pcs(body)
  BY <1>1, <1>2 DEF Nodes, BlocksBehind
<1>4. \A s, o : o \in Nodes(body, block, s) <=> o \in Pcs(body) /\ block[o] = s /\ ~IsLabel(body[o])
  BY DEF Nodes
<1>5. \A s, o : o \in BlocksBehind(block, s) <=> o \in Starts(body) /\ o > s
  BY <1>2 DEF BlocksBehind
<1>6. \A e : e \in FallThroughEdges(body, block) <=>
               \E s \in Starts(body) : \E p \in Greatest(Nodes(body, block, s)) :
                 \E b \in Least(BlocksBehind(block, s)) : \E h \in Least(Nodes(body, block, b)) :
                   ~IsTerminator(body[p]) /\ e = Edge(2, p, h, "ctl")
  <2>1. \A s, p : p \in FallsFrom(body, block, s) <=> p \in Greatest(Nodes(body, block, s)) /\ ~IsTerminator(body[p])
    BY DEF FallsFrom
  <2>2. \A bs, h : h \in FirstNodes(body, block, bs) <=> \E b \in bs : h \in Least(Nodes(body, block, b))
    BY DEF FirstNodes
  <2>3. \A e : e \in FallThroughEdges(body, block) <=>
               \E s \in Starts(body) : \E p \in FallsFrom(body, block, s) :
                 \E h \in FirstNodes(body, block, Least(BlocksBehind(block, s))) : e = Edge(2, p, h, "ctl")
    BY <1>2 DEF FallThroughEdges
  <2> QED
    BY <2>1, <2>2, <2>3
<1>e. ASSUME NEW s
      PROVE  /\ \A q \in Least(BlocksBehind(block, s)) :
                  q \in BlocksBehind(block, s) /\ \A o \in BlocksBehind(block, s) : q <= o
             /\ BlocksBehind(block, s) # {} => Least(BlocksBehind(block, s)) # {}
  <2> DEFINE S == BlocksBehind(block, s)
  <2>1. S \subseteq Pcs(body)
    BY <1>3, Zenon
  <2> HIDE DEF S
  <2>2. /\ \A q \in Least(S) : q \in S /\ \A o \in S : q <= o
        /\ S # {} => Least(S) # {}
    BY <2>1, EndsOf, Zenon
  <2> QED
    BY <2>2 DEF S
<1>7. ASSUME NEW b \in Starts(body), NEW h \in Least(Nodes(body, block, b))
      PROVE  h \in Pcs(body) /\ h = Landing(body, b)
  <2>1. h \in Nodes(body, block, b) /\ \A o \in Nodes(body, block, b) : h <= o
    BY <1>3, EndsOf
  <2>2. h \in Pcs(body) /\ block[h] = b /\ ~IsLabel(body[h]) /\ b <= h /\ b \in Pcs(body)
    BY <1>1, <1>4, <2>1
  <2>3. block[b] = b
    BY BlockFacts
  <2>4. CASE ~IsLabel(body[b])
    <3>1. h <= b /\ h \in Int /\ b \in Int
      BY <1>1, <1>4, <2>1, <2>2, <2>3, <2>4
    <3>2. h = b
      BY <2>2, <3>1
    <3> QED
      BY <2>2, <2>4, <3>2, LandingFacts
  <2>5. CASE IsLabel(body[b])
    <3>1. b + 1 \in Pcs(body) /\ b + 1 <= h
      BY <1>1, <2>2, <2>5
    <3>2. Landing(body, b) = b + 1 /\ ~IsLabel(body[b + 1]) /\ b + 1 \notin Starts(body)
      BY <2>2, <2>5, <3>1, LandingFacts
    <3>3. block[b + 1] = b
      BY <2>2, <2>3, <3>1, <3>2, BlockFacts
    <3>4. h <= b + 1
      BY <1>4, <2>1, <3>1, <3>2, <3>3
    <3>5. h = b + 1
      BY <1>1, <2>2, <3>1, <3>4
    <3> QED
      BY <2>2, <3>2, <3>5
  <2> QED
    BY <2>4, <2>5
<1>8. ASSUME NEW s \in Starts(body), NEW p \in Greatest(Nodes(body, block, s)), NEW b \in Least(BlocksBehind(block, s))
      PROVE  p \in Pcs(body) /\ ~IsLabel(body[p]) /\ b = p + 1 /\ b \in Starts(body)
  <2>1. p \in Nodes(body, block, s) /\ \A o \in Nodes(body, block, s) : o <= p
    BY <1>3, EndsOf
  <2>2. b \in BlocksBehind(block, s) /\ \A o \in BlocksBehind(block, s) : b <= o
    BY <1>e
  <2>3. p \in Pcs(body) /\ block[p] = s /\ ~IsLabel(body[p]) /\ s <= p
    BY <1>1, <1>4, <2>1
  <2>4. b \in Starts(body) /\ b > s
    BY <1>5, <2>2
  <2>5. b > p
    <3> SUFFICES ASSUME b <= p PROVE FALSE
      BY <1>1, <2>3, <2>4
    <3>1. b <= s
      BY <1>1, <2>3, <2>4
    <3> QED
      BY <1>1, <2>4, <3>1
  <2>6. p + 1 \in Pcs(body) /\ p + 1 > s
    BY <1>1, <2>3, <2>4, <2>5
  <2>7. p + 1 \in Starts(body)
    <3> SUFFICES ASSUME p + 1 \notin Starts(body) PROVE FALSE
      OBVIOUS
    <3>1. block[p + 1] = s /\ ~IsLabel(body[p + 1])
      BY <2>3, <2>6, BlockFacts
    <3>2. p + 1 <= p
      BY <1>4, <2>1, <2>6, <3>1
    <3> QED
      BY <1>1, <2>3, <3>2
  <2>8. b <= p + 1
    BY <1>5, <2>2, <2>6, <2>7
  <2> QED
    BY <1>1, <2>3, <2>4, <2>5, <2>8
<1>9. ASSUME NEW e \in FallThroughEdges(body, block)
      PROVE  \E p \in Pcs(body) :
               /\ e = Edge(2, p, Landing(body, p + 1), "ctl") /\ Landing(body, p + 1) \in Pcs(body)
               /\ p + 1 \in Starts(body) /\ ~IsLabel(body[p]) /\ ~IsTerminator(body[p])
  <2>0. PICK s \in Starts(body) : \E p \in Greatest(Nodes(body, block, s)) :
               \E b \in Least(BlocksBehind(block, s)) : \E h \in Least(Nodes(body, block, b)) :
                 ~IsTerminator(body[p]) /\ e = Edge(2, p, h, "ctl")
    BY <1>6
  <2>p. PICK p \in Greatest(Nodes(body, block, s)) :
               \E b \in Least(BlocksBehind(block, s)) : \E h \in Least(Nodes(body, block, b)) :
                 ~IsTerminator(body[p]) /\ e = Edge(2, p, h, "ctl")
    BY <2>0
  <2>b. PICK b \in Least(BlocksBehind(block, s)) : \E h \in Least(Nodes(body, block, b)) :
               ~IsTerminator(body[p]) /\ e = Edge(2, p, h, "ctl")
    BY <2>p
  <2>1. PICK h \in Least(Nodes(body, block, b)) : ~IsTerminator(body[p]) /\ e = Edge(2, p, h, "ctl")
    BY <2>b
  <2>2. p \in Pcs(body) /\ ~IsLabel(body[p]) /\ b = p + 1 /\ b \in Starts(body)
    BY <1>8, <2>1
  <2>3. h \in Pcs(body) /\ h = Landing(body, p + 1)
    BY <1>7, <2>1, <2>2
  <2> QED
    BY <2>1, <2>2, <2>3
<1>10. ASSUME NEW p \in Pcs(body), ~IsLabel(body[p]), ~IsTerminator(body[p]),
              p + 1 \in Starts(body), Landing(body, p + 1) \in Pcs(body)
       PROVE  Edge(2, p, Landing(body, p + 1), "ctl") \in FallThroughEdges(body, block)
  <2>1. block[p] \in Starts(body) /\ block[p] < p + 1
    BY <1>1
  <2>2. p \in Nodes(body, block, block[p]) /\ p + 1 \in BlocksBehind(block, block[p])
    BY <1>1, <1>4, <1>5, <1>10, <2>1
  <2>3. PICK q \in Greatest(Nodes(body, block, block[p])) : TRUE
    BY <1>3, <2>2, EndsOf
  <2>4. PICK b \in Least(BlocksBehind(block, block[p])) : TRUE
    BY <1>e, <2>2
  <2>5. q \in Pcs(body) /\ b = q + 1 /\ p <= q /\ b <= p + 1
    <3>1. q \in Pcs(body) /\ b = q + 1
      BY <1>8, <2>1, <2>3, <2>4
    <3>2. p <= q
      BY <1>3, <2>2, <2>3, EndsOf
    <3>3. b <= p + 1
      BY <1>e, <2>2, <2>4
    <3> QED
      BY <3>1, <3>2, <3>3
  <2>6. q = p /\ b = p + 1
    BY <1>1, <2>5
  <2> DEFINE l == Landing(body, p + 1)
  <2>7. Nodes(body, block, p + 1) # {}
    <3>1. l \in {p + 1, p + 2}
      <4>1. p + 1 \in Pcs(body) /\ (p + 1) + 1 = p + 2 /\ End(body) \notin Pcs(body)
        BY <1>1, <1>10 DEF End
      <4>2. CASE IsLabel(body[p + 1])
        BY <1>10, <4>1, <4>2, LandingFacts
      <4>3. CASE ~IsLabel(body[p + 1])
        BY <4>1, <4>3, LandingFacts
      <4> QED
        BY <4>2, <4>3
    <3>2. ~IsLabel(body[l])
      <4>1. p + 1 \in 1..End(body)
        BY <1>1, <1>10 DEF End
      <4>2. End(body) \notin Pcs(body)
        BY <1>1 DEF End
      <4> QED
        BY <1>10, <4>1, <4>2, LandingFacts
    <3>3. block[p + 1] = p + 1
      BY <1>10, BlockFacts
    <3>4. block[l] = p + 1
      <4>1. CASE l = p + 1
        BY <3>3, <4>1
      <4>2. CASE l = p + 2
        <5>1. IsLabel(body[p + 1]) /\ p + 1 \in Pcs(body)
          <6>1. p + 1 \in Pcs(body) /\ p + 1 # p + 2
            BY <1>1, <1>10
          <6> QED
            BY <4>2, <6>1, LandingFacts
        <5>2. (p + 1) + 1 = p + 2
          BY <1>1
        <5>3. p + 2 \in Pcs(body) /\ p + 2 \notin Starts(body)
          BY <1>10, <4>2, <5>1, <5>2, LandingFacts
        <5> QED
          BY <3>3, <4>2, <5>1, <5>2, <5>3, BlockFacts
      <4> QED
        BY <3>1, <4>1, <4>2
    <3> QED
      BY <1>4, <1>10, <3>2, <3>4
  <2>8. PICK h \in Least(Nodes(body, block, p + 1)) : TRUE
    BY <1>3, <2>7, EndsOf
  <2>9. h = l
    BY <1>7, <1>10, <2>8
  <2> HIDE DEF l
  <2>10. Edge(2, p, h, "ctl") \in FallThroughEdges(body, block)
    BY <1>6, <1>10, <2>1, <2>3, <2>4, <2>6, <2>8
  <2> QED
    BY <2>9, <2>10 DEF l
<1> QED
  BY <1>9, <1>10

(* Where a transfer goes.                                                  *)
LEMMA TransferFacts ==
  ASSUME NEW body, Len(body) \in Nat, Aimed(body), Labelled(body),
         NEW block, block = partition_blocks(body), NEW p \in Pcs(body)
  PROVE  /\ ~Transfers(body[p]) => Taken(body, block, p) = {} /\ NotTaken(body, block, p) = {}
         /\ Transfers(body[p]) =>
              \/ /\ body[p].to \in Starts(body)
                 /\ Taken(body, block, p) = {Redirect(body, block, body[p].to)}
              \/ /\ body[p].to = End(body) /\ Taken(body, block, p) = {} /\ ~IsBranch(body[p])
         /\ IsBranch(body[p]) => /\ p + 1 \in Starts(body)
                                 /\ NotTaken(body, block, p) = {Redirect(body, block, p + 1)}
         /\ ~IsBranch(body[p]) => NotTaken(body, block, p) = {}
<1>1. Pcs(body) = 1..Len(body) /\ End(body) = Len(body) + 1 /\ Starts(body) \subseteq Pcs(body)
  BY Blocks DEF Pcs, End
<1>2. IsBranch(body[p]) => Transfers(body[p])
  BY DEF Transfers
<1>3. ~Transfers(body[p]) => Taken(body, block, p) = {} /\ NotTaken(body, block, p) = {}
  BY <1>2 DEF Taken, NotTaken
<1>4. ASSUME Transfers(body[p])
      PROVE  \/ /\ body[p].to \in Starts(body)
                /\ Taken(body, block, p) = {Redirect(body, block, body[p].to)}
             \/ /\ body[p].to = End(body) /\ Taken(body, block, p) = {} /\ ~IsBranch(body[p])
  <2>1. Taken(body, block, p) = Resolve(body, block, body[p].to)
    BY <1>4 DEF Taken
  <2>2. /\ body[p].to \in Starts(body) \/ (body[p].to = End(body) /\ LabelAt(body, body[p].to) = {})
        /\ IsBranch(body[p]) => body[p].to # End(body)
    BY <1>4 DEF Aimed
  <2>3. CASE body[p].to \in Starts(body)
    <3>1. Resolve(body, block, body[p].to) = {Redirect(body, block, q) : q \in {body[p].to}}
      BY <1>1, <2>3 DEF Resolve
    <3> QED
      BY <2>1, <2>3, <3>1
  <2>4. CASE body[p].to = End(body) /\ LabelAt(body, body[p].to) = {}
    <3>1. body[p].to \notin Pcs(body)
      BY <1>1, <2>4
    <3>2. Resolve(body, block, body[p].to) = {Redirect(body, block, q) : q \in {}}
      BY <2>4, <3>1 DEF Resolve
    <3> QED
      BY <2>1, <2>2, <2>4, <3>2
  <2> QED
    BY <2>2, <2>3, <2>4
<1>5. ASSUME IsBranch(body[p])
      PROVE  p + 1 \in Starts(body) /\ NotTaken(body, block, p) = {Redirect(body, block, p + 1)}
  <2>1. p # Len(body)
    BY <1>2, <1>5 DEF Aimed
  <2>2. p + 1 \in Pcs(body) /\ p + 1 > 1 /\ (p + 1) - 1 = p
    BY <1>1, <2>1
  <2>3. p + 1 \in Starts(body)
    BY <1>5, <2>2 DEF Starts, IsTerminator, Transfers
  <2> QED
    BY <1>5, <2>2, <2>3 DEF NotTaken
<1>6. ~IsBranch(body[p]) => NotTaken(body, block, p) = {}
  BY DEF NotTaken
<1> QED
  BY <1>3, <1>4, <1>5, <1>6

(* Pass 4: the edge from the last effect to the next, or to all up to it.  *)
LEMMA FanFacts ==
  ASSUME NEW body, Len(body) \in Nat, NEW block, block = partition_blocks(body)
  PROVE  /\ \A e \in FanEdges(body, block) : \E q, p \in Pcs(body) :
              /\ e = Edge(4, q, p, "seq") /\ q < p /\ block[q] = block[p] /\ IsEffect(body[q])
              /\ \A o \in (q + 1)..(p - 1) : ~IsEffect(body[o])
         /\ \A q, p \in Pcs(body) :
              /\ q < p /\ block[q] = block[p] /\ IsEffect(body[q])
              /\ \A o \in (q + 1)..(p - 1) : ~IsEffect(body[o])
              /\ \E h \in LoopHeads(body, block) : h <= block[p]
              => Edge(4, q, p, "seq") \in FanEdges(body, block)
<1> DEFINE Before(p) == {o \in 1..(p - 1) : block[o] = block[p] /\ IsEffect(body[o])}
<1>1. Pcs(body) = 1..Len(body)
  BY DEF Pcs
<1>2. \A p \in Pcs(body) : Before(p) \subseteq Pcs(body) /\ LastEffect(body, block, p) = Greatest(Before(p))
  BY <1>1 DEF LastEffect
<1>3. \A p, o : o \in Before(p) <=> o \in 1..(p - 1) /\ block[o] = block[p] /\ IsEffect(body[o])
  OBVIOUS
<1> HIDE DEF Before
<1>4. \A p \in Pcs(body) : \A q : q \in LastEffect(body, block, p) => q \in Before(p) /\ \A o \in Before(p) : o <= q
  <2> SUFFICES ASSUME NEW p \in Pcs(body), NEW q \in Greatest(Before(p))
               PROVE  q \in Before(p) /\ \A o \in Before(p) : o <= q
    BY <1>2
  <2> DEFINE S == Before(p)
  <2>1. S \subseteq Pcs(body)
    BY <1>2
  <2> HIDE DEF S
  <2>2. \A o \in Greatest(S) : o \in S /\ \A x \in S : x <= o
    BY <2>1, EndsOf
  <2> QED
    BY <2>2 DEF S
<1>5. \A p \in Pcs(body) : Before(p) # {} => LastEffect(body, block, p) # {}
  <2> SUFFICES ASSUME NEW p \in Pcs(body), Before(p) # {} PROVE Greatest(Before(p)) # {}
    BY <1>2
  <2> DEFINE S == Before(p)
  <2>1. S \subseteq Pcs(body) /\ S # {}
    BY <1>2
  <2> HIDE DEF S
  <2>2. Greatest(S) # {}
    BY <2>1, EndsOf
  <2> QED
    BY <2>2 DEF S
<1>6. \A e : e \in FanEdges(body, block) <=>
               \E p \in Pcs(body) : \E q \in LastEffect(body, block, p) :
                 /\ IsEffect(body[p]) \/ \E h \in LoopHeads(body, block) : h <= block[p]
                 /\ e = Edge(4, q, p, "seq")
  BY DEF FanEdges
<1>7. ASSUME NEW p \in Pcs(body), NEW q \in LastEffect(body, block, p)
      PROVE  /\ q \in Pcs(body) /\ q < p /\ block[q] = block[p] /\ IsEffect(body[q])
             /\ \A o \in (q + 1)..(p - 1) : ~IsEffect(body[o])
  <2>1. q \in Before(p) /\ \A o \in Before(p) : o <= q
    BY <1>4
  <2>2. q \in Pcs(body) /\ q < p /\ block[q] = block[p] /\ IsEffect(body[q])
    BY <1>1, <1>3, <2>1
  <2>3. ASSUME NEW o \in (q + 1)..(p - 1), IsEffect(body[o]) PROVE FALSE
    <3>1. o \in q..p /\ o \in 1..(p - 1) /\ ~(o <= q)
      BY <1>1, <2>2
    <3>2. block[o] = block[p]
      BY <2>2, <3>1, BlockFacts
    <3> QED
      BY <1>3, <2>1, <2>3, <3>1, <3>2
  <2> QED
    BY <2>2, <2>3
<1>8. ASSUME NEW e \in FanEdges(body, block)
      PROVE  \E q, p \in Pcs(body) :
              /\ e = Edge(4, q, p, "seq") /\ q < p /\ block[q] = block[p] /\ IsEffect(body[q])
              /\ \A o \in (q + 1)..(p - 1) : ~IsEffect(body[o])
  <2>1. PICK p \in Pcs(body) : \E q \in LastEffect(body, block, p) : e = Edge(4, q, p, "seq")
    BY <1>6
  <2>2. PICK q \in LastEffect(body, block, p) : e = Edge(4, q, p, "seq")
    BY <2>1
  <2> QED
    BY <1>7, <2>2
<1>9. ASSUME NEW q \in Pcs(body), NEW p \in Pcs(body), q < p, block[q] = block[p], IsEffect(body[q]),
             \A o \in (q + 1)..(p - 1) : ~IsEffect(body[o]),
             NEW h \in LoopHeads(body, block), h <= block[p]
      PROVE  Edge(4, q, p, "seq") \in FanEdges(body, block)
  <2>1. q \in Before(p)
    BY <1>1, <1>3, <1>9
  <2>2. PICK o \in LastEffect(body, block, p) : TRUE
    BY <1>5, <2>1
  <2>3. q <= o /\ o \in Before(p)
    BY <1>4, <2>1, <2>2
  <2>4. o = q
    BY <1>1, <1>3, <1>9, <2>3
  <2> QED
    BY <1>6, <1>9, <2>2, <2>4
<1> QED
  BY <1>8, <1>9

(* Pass 4: a node comes after what it reads.                               *)
LEMMA DataFacts ==
  ASSUME NEW body, Len(body) \in Nat, NEW block
  PROVE  \A e \in DataEdges(body, block) :
           \E q, p \in Pcs(body) : e = Edge(4, q, p, "data") /\ q < p
<1> DEFINE Before(p, r) == {o \in 1..(p - 1) : /\ block[o] = block[p]
                                               /\ IsCompute(body[o]) /\ r \in Dst(body[o])}
<1>1. Pcs(body) = 1..Len(body)
  BY DEF Pcs
<1>2. \A p \in Pcs(body) : \A r : \A o \in Before(p, r) : o \in Pcs(body) /\ o < p
  BY <1>1
<1>0. DataEdges(body, block) =
        UNION {UNION {{Edge(4, q, p, "data") : q \in Greatest(Before(p, r))} : r \in body[p].use} :
                 p \in Pcs(body)}
  BY DEF DataEdges
<1> HIDE DEF Before
<1>3. \A e \in DataEdges(body, block) : \E p \in Pcs(body) : \E r \in body[p].use :
        \E q \in Greatest(Before(p, r)) : e = Edge(4, q, p, "data")
  <2> SUFFICES ASSUME NEW e \in DataEdges(body, block)
               PROVE  \E p \in Pcs(body) : \E r \in body[p].use :
                        \E q \in Greatest(Before(p, r)) : e = Edge(4, q, p, "data")
    OBVIOUS
  <2>1. PICK p \in Pcs(body) :
          e \in UNION {{Edge(4, q, p, "data") : q \in Greatest(Before(p, r))} : r \in body[p].use}
    BY <1>0
  <2>2. PICK r \in body[p].use : e \in {Edge(4, q, p, "data") : q \in Greatest(Before(p, r))}
    BY <2>1
  <2> QED
    BY <2>2
<1> SUFFICES ASSUME NEW e \in DataEdges(body, block)
             PROVE  \E q, p \in Pcs(body) : e = Edge(4, q, p, "data") /\ q < p
  OBVIOUS
<1>4. PICK p \in Pcs(body) : \E r \in body[p].use :
        \E q \in Greatest(Before(p, r)) : e = Edge(4, q, p, "data")
  BY <1>3
<1>5. PICK r \in body[p].use : \E q \in Greatest(Before(p, r)) : e = Edge(4, q, p, "data")
  BY <1>4
<1>6. PICK q \in Greatest(Before(p, r)) : e = Edge(4, q, p, "data")
  BY <1>5
<1> DEFINE S == Before(p, r)
<1>7. S \subseteq Pcs(body) /\ q \in Greatest(S)
  BY <1>2, <1>6
<1>8. \A o \in S : o < p
  BY <1>2
<1> HIDE DEF S
<1>9. q \in S
  BY <1>7, EndsOf
<1> QED
  BY <1>6, <1>7, <1>8, <1>9

-----------------------------------------------------------------------------
(* All edges                                                               *)

(* A block's start leads into that block.                                  *)
LEMMA StartFacts ==
  ASSUME NEW body, Len(body) \in Nat, Labelled(body), NEW block, block = partition_blocks(body),
         NEW t \in Starts(body)
  PROVE  /\ Landing(body, t) \in Pcs(body) =>
              /\ Landing(body, t) \in {t, t + 1} /\ ~IsLabel(body[Landing(body, t)])
              /\ block[Landing(body, t)] = t
              /\ Landing(body, t) = t + 1 => IsLabel(body[t])
         /\ Landing(body, t) \notin Pcs(body) => Landing(body, t) = End(body)
<1>1. t \in Pcs(body) /\ t \in Int /\ block[t] = t /\ t \in 1..End(body)
  <2>1. t \in Pcs(body)
    BY Blocks
  <2> QED
    BY <2>1, BlockFacts DEF Pcs, End
<1>2. CASE ~IsLabel(body[t])
  <2>1. Landing(body, t) = t /\ t # t + 1
    BY <1>1, <1>2, LandingFacts
  <2> QED
    BY <1>1, <1>2, <2>1
<1>3. CASE IsLabel(body[t]) /\ t + 1 \in Pcs(body)
  <2>1. Landing(body, t) = t + 1 /\ ~IsLabel(body[t + 1]) /\ t + 1 \notin Starts(body)
    BY <1>1, <1>3, LandingFacts
  <2>2. block[t + 1] = t
    BY <1>1, <1>3, <2>1, BlockFacts
  <2> QED
    BY <1>3, <2>1, <2>2
<1>4. CASE IsLabel(body[t]) /\ t + 1 \notin Pcs(body)
  <2>1. Landing(body, t) = End(body)
    BY <1>1, <1>4, LandingFacts
  <2>2. End(body) \notin Pcs(body)
    BY DEF End, Pcs
  <2> QED
    BY <2>1, <2>2
<1> QED
  BY <1>2, <1>3, <1>4

(* What an edge of the graph is.                                           *)
Chained(body, block, e) ==
  /\ e.kind = "seq" /\ ~IsLabel(body[e.from]) /\ block[e.to] = block[e.from] /\ e.from < e.to
  /\ \/ e.pass = 1 /\ e.to = e.from + 1
     \/ /\ e.pass = 4 /\ IsEffect(body[e.from])
        /\ \A o \in (e.from + 1)..(e.to - 1) : ~IsEffect(body[o])
Falling(body, e) ==
  /\ e.pass = 2 /\ e.kind = "ctl" /\ ~IsLabel(body[e.from]) /\ ~IsTerminator(body[e.from])
  /\ e.from + 1 \in Starts(body) /\ e.to = Landing(body, e.from + 1)
Steering(body, block, e) ==
  /\ e.pass = 3 /\ e.kind = "ctl" /\ Transfers(body[e.from])
  /\ e.to \in Taken(body, block, e.from) \cup NotTaken(body, block, e.from)
Labelling(body, e) ==
  e.pass = 5 /\ e.kind = "ctl" /\ IsLabel(body[e.from]) /\ e.to = Landing(body, e.from)

(* Every edge is of one of these forms, or says only what is read.         *)
LEMMA EdgeForms ==
  ASSUME NEW body, Len(body) \in Nat, Aimed(body), Labelled(body),
         NEW block, block = partition_blocks(body), NEW e \in Edges(body, block)
  PROVE  /\ e = Edge(e.pass, e.from, e.to, e.kind)
         /\ e.pass \in 1..5 /\ e.from \in Pcs(body) /\ e.to \in Pcs(body) /\ e.to # 1
         /\ e.kind \in {"seq", "ctl", "data"}
         /\ \/ Chained(body, block, e)
            \/ Falling(body, e)
            \/ Steering(body, block, e)
            \/ Labelling(body, e)
            \/ e.kind = "data"
<1>1. Pcs(body) = 1..Len(body) /\ End(body) = Len(body) + 1 /\ Starts(body) \subseteq Pcs(body)
  BY Blocks DEF Pcs, End
<1>2. \A i, p, q, k : LET d == Edge(i, p, q, k)
                      IN  d.pass = i /\ d.from = p /\ d.to = q /\ d.kind = k /\ d = Edge(d.pass, d.from, d.to, d.kind)
  BY DEF Edge
<1>3. \/ e \in ChainEdges(body, block) \/ e \in FallThroughEdges(body, block)
      \/ e \in TransferEdges(body, block) \/ e \in DataEdges(body, block)
      \/ e \in FanEdges(body, block) \/ e \in LabelEdges(body)
  BY DEF Edges
<1>4. CASE e \in ChainEdges(body, block)
  <2>1. PICK q \in Pcs(body) : /\ e = Edge(1, q, q + 1, "seq") /\ q + 1 \in Pcs(body)
                              /\ ~IsLabel(body[q]) /\ block[q + 1] = block[q]
    BY <1>4, ChainFacts
  <2>2. e.pass = 1 /\ e.from = q /\ e.to = q + 1 /\ e.kind = "seq" /\ e = Edge(e.pass, e.from, e.to, e.kind)
    BY <1>2, <2>1
  <2>3. q < q + 1 /\ q + 1 # 1
    BY <1>1
  <2> QED
    BY <2>1, <2>2, <2>3 DEF Chained
<1>5. CASE e \in FallThroughEdges(body, block)
  <2>1. PICK p \in Pcs(body) :
              /\ e = Edge(2, p, Landing(body, p + 1), "ctl") /\ Landing(body, p + 1) \in Pcs(body)
              /\ p + 1 \in Starts(body) /\ ~IsLabel(body[p]) /\ ~IsTerminator(body[p])
    BY <1>5, FallThroughFacts
  <2>2. e.pass = 2 /\ e.from = p /\ e.to = Landing(body, p + 1) /\ e.kind = "ctl" /\ e = Edge(e.pass, e.from, e.to, e.kind)
    BY <1>2, <2>1
  <2>3. Landing(body, p + 1) \in {p + 1, (p + 1) + 1}
    BY <2>1, StartFacts
  <2>4. e.to # 1
    BY <1>1, <2>2, <2>3
  <2> QED
    BY <2>1, <2>2, <2>4 DEF Falling
<1>6. CASE e \in TransferEdges(body, block)
  <2>1. PICK p \in Pcs(body) : \E t \in Taken(body, block, p) \cup NotTaken(body, block, p) : e = Edge(3, p, t, "ctl")
    BY <1>6 DEF TransferEdges
  <2>2. PICK t \in Taken(body, block, p) \cup NotTaken(body, block, p) : e = Edge(3, p, t, "ctl")
    BY <2>1
  <2>3. e.pass = 3 /\ e.from = p /\ e.to = t /\ e.kind = "ctl" /\ e = Edge(e.pass, e.from, e.to, e.kind)
    BY <1>2, <2>2
  <2>4. Transfers(body[p])
    BY TransferFacts
  <2>5. ASSUME NEW s \in Starts(body), s = 1 => IsLabel(body[1]), t = Redirect(body, block, s)
        PROVE  t \in Pcs(body) /\ t # 1
    <3>1. s \in Pcs(body) /\ s \in Int
      BY <1>1
    <3>2. CASE IsLabel(body[s]) /\ s + 1 \notin Pcs(body)
      <4>1. t = s /\ s = Len(body)
        BY <1>1, <2>5, <3>1, <3>2, RedirectFacts
      <4>2. s # 1
        <5> SUFFICES ASSUME s = 1 PROVE FALSE
          OBVIOUS
        <5>0. p \in 1..Len(body) /\ Len(body) = 1
          BY <1>1, <4>1
        <5>1. p = s
          BY <5>0
        <5> QED
          BY <2>4, <3>2, <5>1, LabelFacts
      <4> QED
        BY <3>1, <4>1, <4>2
    <3>3. CASE IsLabel(body[s]) /\ s + 1 \in Pcs(body)
      <4>1. t = s + 1
        BY <2>5, <3>1, <3>3, RedirectFacts
      <4> QED
        BY <1>1, <3>1, <3>3, <4>1
    <3>4. CASE ~IsLabel(body[s])
      <4>1. t = s
        BY <2>5, <3>1, <3>4, RedirectFacts
      <4> QED
        BY <2>5, <3>1, <3>4, <4>1
    <3> QED
      BY <3>2, <3>3, <3>4
  <2>6. CASE t \in Taken(body, block, p)
    <3>1. body[p].to \in Starts(body) /\ t = Redirect(body, block, body[p].to)
      BY <2>4, <2>6, TransferFacts
    <3>2. body[p].to = 1 => IsLabel(body[1])
      BY <2>4 DEF Aimed
    <3>3. t \in Pcs(body) /\ t # 1
      BY <2>5, <3>1, <3>2
    <3> QED
      BY <2>2, <2>3, <2>4, <3>3 DEF Steering
  <2>7. CASE t \in NotTaken(body, block, p)
    <3>1. p + 1 \in Starts(body) /\ t = Redirect(body, block, p + 1)
      BY <2>7, TransferFacts
    <3>2. p + 1 # 1
      BY <1>1
    <3>3. t \in Pcs(body) /\ t # 1
      BY <2>5, <3>1, <3>2
    <3> QED
      BY <2>2, <2>3, <2>4, <3>3 DEF Steering
  <2> QED
    BY <2>2, <2>6, <2>7
<1>7. CASE e \in DataEdges(body, block)
  <2>1. PICK q, p \in Pcs(body) : e = Edge(4, q, p, "data") /\ q < p
    BY <1>7, DataFacts
  <2>2. e.pass = 4 /\ e.from = q /\ e.to = p /\ e.kind = "data" /\ e = Edge(e.pass, e.from, e.to, e.kind)
    BY <1>2, <2>1
  <2>3. p # 1
    BY <1>1, <2>1
  <2> QED
    BY <2>1, <2>2, <2>3
<1>8. CASE e \in FanEdges(body, block)
  <2>1. PICK q, p \in Pcs(body) :
              /\ e = Edge(4, q, p, "seq") /\ q < p /\ block[q] = block[p] /\ IsEffect(body[q])
              /\ \A o \in (q + 1)..(p - 1) : ~IsEffect(body[o])
    BY <1>8, FanFacts
  <2>2. e.pass = 4 /\ e.from = q /\ e.to = p /\ e.kind = "seq" /\ e = Edge(e.pass, e.from, e.to, e.kind)
    BY <1>2, <2>1
  <2>3. p # 1 /\ ~IsLabel(body[q])
    BY <1>1, <2>1, LabelFacts
  <2> QED
    BY <2>1, <2>2, <2>3 DEF Chained
<1>9. CASE e \in LabelEdges(body)
  <2>1. PICK p \in Pcs(body) : /\ IsLabel(body[p]) /\ Landing(body, p) # End(body)
                              /\ e = Edge(5, p, Landing(body, p), "ctl")
    BY <1>9 DEF LabelEdges
  <2>2. e.pass = 5 /\ e.from = p /\ e.to = Landing(body, p) /\ e.kind = "ctl" /\ e = Edge(e.pass, e.from, e.to, e.kind)
    BY <1>2, <2>1
  <2>3. p + 1 \in Pcs(body) /\ Landing(body, p) = p + 1
    BY <2>1, LandingFacts
  <2>4. p + 1 # 1
    BY <1>1
  <2> QED
    BY <2>1, <2>2, <2>3, <2>4 DEF Labelling
<1> QED
  BY <1>3, <1>4, <1>5, <1>6, <1>7, <1>8, <1>9

(* The edges that are there.                                               *)
LEMMA EdgesThere ==
  ASSUME NEW body, Len(body) \in Nat, Aimed(body), Labelled(body),
         NEW block, block = partition_blocks(body)
  PROVE  /\ \A q \in Pcs(body) : /\ ~IsLabel(body[q]) /\ q + 1 \in Pcs(body) /\ q + 1 \notin Starts(body)
              => Edge(1, q, q + 1, "seq") \in Edges(body, block)
         /\ \A p \in Pcs(body) : /\ ~IsLabel(body[p]) /\ ~IsTerminator(body[p])
                                 /\ p + 1 \in Starts(body) /\ Landing(body, p + 1) \in Pcs(body)
              => Edge(2, p, Landing(body, p + 1), "ctl") \in Edges(body, block)
         /\ \A p \in Pcs(body) : \A t \in Taken(body, block, p) \cup NotTaken(body, block, p) :
              Edge(3, p, t, "ctl") \in Edges(body, block)
         /\ \A q, p \in Pcs(body) :
              /\ q < p /\ block[q] = block[p] /\ IsEffect(body[q])
              /\ \A o \in (q + 1)..(p - 1) : ~IsEffect(body[o])
              /\ \E h \in LoopHeads(body, block) : h <= block[p]
              => Edge(4, q, p, "seq") \in Edges(body, block)
         /\ \A p \in Pcs(body) : IsLabel(body[p]) /\ Landing(body, p) \in Pcs(body)
              => Edge(5, p, Landing(body, p), "ctl") \in Edges(body, block)
<1>1. \A e : \/ e \in ChainEdges(body, block) \/ e \in FallThroughEdges(body, block)
             \/ e \in TransferEdges(body, block) \/ e \in FanEdges(body, block) \/ e \in LabelEdges(body)
             => e \in Edges(body, block)
  BY DEF Edges
<1>2. \A q \in Pcs(body) : /\ ~IsLabel(body[q]) /\ q + 1 \in Pcs(body) /\ q + 1 \notin Starts(body)
        => Edge(1, q, q + 1, "seq") \in Edges(body, block)
  BY <1>1, ChainFacts, BlockFacts
<1>3. \A p \in Pcs(body) : /\ ~IsLabel(body[p]) /\ ~IsTerminator(body[p])
                           /\ p + 1 \in Starts(body) /\ Landing(body, p + 1) \in Pcs(body)
        => Edge(2, p, Landing(body, p + 1), "ctl") \in Edges(body, block)
  BY <1>1, FallThroughFacts
<1>4. \A p \in Pcs(body) : \A t \in Taken(body, block, p) \cup NotTaken(body, block, p) :
        Edge(3, p, t, "ctl") \in TransferEdges(body, block)
  BY DEF TransferEdges
<1>5. \A p \in Pcs(body) : IsLabel(body[p]) /\ Landing(body, p) \in Pcs(body)
        => Edge(5, p, Landing(body, p), "ctl") \in LabelEdges(body)
  <2>1. End(body) \notin Pcs(body)
    BY DEF End, Pcs
  <2> QED
    BY <2>1 DEF LabelEdges
<1> QED
  BY <1>1, <1>2, <1>3, <1>4, <1>5, FanFacts

(* There are finitely many of them.                                        *)
LEMMA EdgesFinite ==
  ASSUME NEW body, Len(body) \in Nat, Aimed(body), Labelled(body),
         NEW block, block = partition_blocks(body)
  PROVE  IsFiniteSet(Edges(body, block))
<1> DEFINE K == {"seq", "ctl", "data"}
           P == (1..5) \X Pcs(body)
           Q == Pcs(body) \X K
           A == P \X Q
           f == [a \in A |-> Edge(a[1][1], a[1][2], a[2][1], a[2][2])]
           E == Edges(body, block)
<1>1. IsFiniteSet(Pcs(body)) /\ IsFiniteSet(1..5) /\ IsFiniteSet(K)
  <2>1. IsFiniteSet(1..Len(body)) /\ IsFiniteSet(1..5)
    <3>1. 1 \in Int /\ 5 \in Int /\ Len(body) \in Int
      OBVIOUS
    <3> QED
      BY <3>1, FS_Interval
  <2>2. IsFiniteSet(K)
    <3>1. IsFiniteSet({})
      BY FS_EmptySet
    <3>2. IsFiniteSet({} \cup {"seq"})
      BY <3>1, FS_AddElement
    <3>3. IsFiniteSet(({} \cup {"seq"}) \cup {"ctl"})
      BY <3>2, FS_AddElement
    <3>4. IsFiniteSet((({} \cup {"seq"}) \cup {"ctl"}) \cup {"data"})
      BY <3>3, FS_AddElement
    <3>5. (({} \cup {"seq"}) \cup {"ctl"}) \cup {"data"} = K
      OBVIOUS
    <3> QED
      BY <3>4, <3>5
  <2> QED
    BY <2>1, <2>2 DEF Pcs
<1>2. IsFiniteSet(P) /\ IsFiniteSet(Q)
  BY <1>1, FS_Product
<1>3. IsFiniteSet(A)
  <2> HIDE DEF P, Q
  <2> QED
    BY <1>2, FS_Product
<1>4. \A e \in E : \E a \in A : f[a] = e
  <2> SUFFICES ASSUME NEW e \in E PROVE \E a \in A : f[a] = e
    OBVIOUS
  <2>1. /\ e = Edge(e.pass, e.from, e.to, e.kind)
        /\ e.pass \in 1..5 /\ e.from \in Pcs(body) /\ e.to \in Pcs(body)
        /\ e.kind \in K
    BY EdgeForms
  <2> DEFINE a == <<<<e.pass, e.from>>, <<e.to, e.kind>>>>
  <2>2. a \in A /\ f[a] = e
    <3> HIDE DEF E
    <3>1. a \in A
      BY <2>1
    <3> HIDE DEF A
    <3> QED
      BY <2>1, <3>1
  <2> QED
    BY <2>2
<1> HIDE DEF A, E, f
<1>5. DOMAIN f = A
  BY DEF f
<1>6. IsFiniteSet({f[a] : a \in A})
  <2> DEFINE T == {f[a] : a \in A}
             g == [a \in A |-> f[a]]
  <2>1. g \in Surjection(A, T)
    BY DEF Surjection
  <2> HIDE DEF g, T
  <2>2. IsFiniteSet(T)
    BY <1>3, <2>1, FS_Surjection
  <2> QED
    BY <2>2 DEF T
<1>7. E \subseteq {f[a] : a \in A}
  BY <1>4
<1>8. IsFiniteSet(E)
  BY <1>6, <1>7, FS_Subset
<1> QED
  BY <1>8 DEF E

-----------------------------------------------------------------------------
(* The order of the edges                                                  *)

(* The order of edges: passes first, then where they lead to.              *)
LEMMA EarlierOrders ==
  ASSUME NEW body, Len(body) \in Nat, Aimed(body), Labelled(body),
         NEW block, block = partition_blocks(body),
         NEW E, E \subseteq Edges(body, block), \A e \in E : e.kind # "data"
  PROVE  LET order == {p \in E \X E : Earlier(p[1], p[2])}
         IN  (\A a, b \in E : <<a, b>> \in order <=> Earlier(a, b)) /\ StrictOrder(order, E)
<1> DEFINE order == {p \in E \X E : Earlier(p[1], p[2])}
<1>1. \A a, b \in E : <<a, b>> \in order <=> Earlier(a, b)
  OBVIOUS
<1> HIDE DEF order
<1>2. ASSUME NEW e \in E
      PROVE  /\ e.pass \in Int /\ e.from \in Int /\ e.to \in Int
             /\ e = Edge(e.pass, e.from, e.to, IF e.pass \in {1, 4} THEN "seq" ELSE "ctl")
  <2>1. e \in Edges(body, block) /\ e.kind # "data"
    OBVIOUS
  <2>2. /\ e = Edge(e.pass, e.from, e.to, e.kind)
        /\ e.pass \in 1..5 /\ e.from \in Pcs(body) /\ e.to \in Pcs(body)
        /\ \/ Chained(body, block, e) \/ Falling(body, e)
           \/ Steering(body, block, e) \/ Labelling(body, e)
    BY <2>1, EdgeForms
  <2>3. e.kind = IF e.pass \in {1, 4} THEN "seq" ELSE "ctl"
    BY <2>2 DEF Chained, Falling, Steering, Labelling
  <2>4. e.pass \in Int /\ e.from \in Int /\ e.to \in Int
    BY <2>2 DEF Pcs
  <2> QED
    BY <2>2, <2>3, <2>4
<1>3. \A a, b \in E : a # b => Earlier(a, b) \/ Earlier(b, a)
  <2> SUFFICES ASSUME NEW a \in E, NEW b \in E, ~Earlier(a, b), ~Earlier(b, a) PROVE a = b
    OBVIOUS
  <2>1. a.pass = b.pass /\ a.to = b.to /\ a.from = b.from
    BY <1>2 DEF Earlier
  <2> QED
    BY <1>2, <2>1
<1>4. \A a \in E : ~Earlier(a, a)
  BY <1>2 DEF Earlier
<1>5. \A a, b, c \in E : Earlier(a, b) /\ Earlier(b, c) => Earlier(a, c)
  BY <1>2 DEF Earlier
<1>6. StrictOrder(order, E)
  BY <1>1, <1>3, <1>4, <1>5 DEF StrictOrder
<1> QED
  BY <1>1, <1>6 DEF order

(* The list of heads has that of every edge, in the order of the edges.    *)
LEMMA HeadsFacts ==
  ASSUME NEW body, Len(body) \in Nat, Aimed(body), Labelled(body),
         NEW block, block = partition_blocks(body),
         NEW E, E \subseteq Edges(body, block), \A e \in E : e.kind # "data"
  PROVE  /\ Heads(E) \in Seq(Pcs(body))
         /\ \A k \in DOMAIN Heads(E) : \E e \in E : Heads(E)[k] = e.to
         /\ \A e \in E : \E k \in DOMAIN Heads(E) : Heads(E)[k] = e.to
         /\ \A k, l \in DOMAIN Heads(E) : k < l =>
              \E e, f \in E : Heads(E)[k] = e.to /\ Heads(E)[l] = f.to /\ Earlier(e, f)
<1> DEFINE order == {p \in E \X E : Earlier(p[1], p[2])}
           n == Cardinality(E)
           r == Ranked(E, order)
           before(e) == Cardinality({o \in E : Earlier(o, e)})
           at(k) == CHOOSE e \in E : before(e) + 1 = k
           h == Heads(E)
<1>1. (\A a, b \in E : <<a, b>> \in order <=> Earlier(a, b)) /\ StrictOrder(order, E)
  BY EarlierOrders
<1>2. IsFiniteSet(E) /\ n \in Nat
  BY EdgesFinite, FS_Subset, FS_CardinalityType
<1> HIDE DEF order
<1>3. /\ r \in Bijection(1..n, E)
      /\ \A j, k \in 1..n : j < k <=> <<r[j], r[k]>> \in order
  BY <1>1, <1>2, RankedSorts
<1>4. \A k \in 1..n :
        /\ r[k] \in E
        /\ Cardinality(Below(r[k], E, order)) = k - 1
        /\ \A x \in E : Cardinality(Below(x, E, order)) = k - 1 => x = r[k]
  BY <1>1, <1>2, RankedPlaces
<1>5. \A e \in E : before(e) = Cardinality(Below(e, E, order))
  <2> SUFFICES ASSUME NEW e \in E PROVE before(e) = Cardinality(Below(e, E, order))
    OBVIOUS
  <2>1. {o \in E : Earlier(o, e)} = Below(e, E, order)
    BY <1>1 DEF Below
  <2> QED
    BY <2>1
<1>6. \A e \in E : Cardinality(Below(e, E, order)) \in Nat
  <2> SUFFICES ASSUME NEW e \in E PROVE Cardinality(Below(e, E, order)) \in Nat
    OBVIOUS
  <2>1. Below(e, E, order) \subseteq E
    BY DEF Below
  <2> QED
    BY <1>2, <2>1, FS_Subset, FS_CardinalityType
<1>7. h = [k \in 1..n |-> at(k).to]
  BY DEF Heads
<1> HIDE DEF r, h, n, before
<1>8. \A k \in 1..n : at(k) = r[k]
  <2> SUFFICES ASSUME NEW k \in 1..n PROVE at(k) = r[k]
    OBVIOUS
  <2>1. before(r[k]) + 1 = k /\ r[k] \in E
    BY <1>2, <1>4, <1>5
  <2> DEFINE c == at(k)
  <2>2. c \in E /\ before(c) + 1 = k
    BY <2>1
  <2> HIDE DEF c
  <2>3. Cardinality(Below(c, E, order)) = k - 1
    BY <1>2, <1>5, <1>6, <2>2
  <2>4. c = r[k]
    BY <1>4, <2>2, <2>3
  <2> QED
    BY <2>4 DEF c
<1> HIDE DEF at
<1>9. h = [k \in 1..n |-> r[k].to]
  BY <1>7, <1>8
<1>10. r \in [1..n -> E] /\ \A e \in E : \E k \in 1..n : r[k] = e
  BY <1>3 DEF Bijection, Injection, Surjection
<1>11. \A e \in E : e.to \in Pcs(body)
  BY EdgeForms
<1>12. h \in Seq(Pcs(body)) /\ DOMAIN h = 1..n
  <2>1. \A k \in 1..n : r[k].to \in Pcs(body)
    BY <1>10, <1>11
  <2> QED
    BY <1>2, <1>9, <2>1
<1>13. \A k \in DOMAIN h : \E e \in E : h[k] = e.to
  BY <1>9, <1>10, <1>12
<1>14. \A e \in E : \E k \in DOMAIN h : h[k] = e.to
  BY <1>9, <1>10, <1>12
<1>15. \A k, l \in DOMAIN h : k < l =>
         \E e, f \in E : h[k] = e.to /\ h[l] = f.to /\ Earlier(e, f)
  <2> SUFFICES ASSUME NEW k \in 1..n, NEW l \in 1..n, k < l
               PROVE  \E e, f \in E : h[k] = e.to /\ h[l] = f.to /\ Earlier(e, f)
    BY <1>12
  <2>1. r[k] \in E /\ r[l] \in E /\ <<r[k], r[l]>> \in order
    BY <1>3, <1>10
  <2> QED
    BY <1>1, <1>9, <2>1
<1> QED
  BY <1>12, <1>13, <1>14, <1>15 DEF h

-----------------------------------------------------------------------------
(* What is reachable, and where execution starts                           *)

(* Induction over a set of numbers.                                        *)
LEMMA SetInduction ==
  ASSUME NEW S, 0 \in S, \A k \in Nat : k \in S => k + 1 \in S
  PROVE  Nat \subseteq S
<1> SUFFICES ASSUME NEW n \in Nat, n \notin S PROVE FALSE
  OBVIOUS
<1> DEFINE D == {k \in 1..n : k \notin S}
<1>1. D \in SUBSET (1..n) /\ n \in Int
  OBVIOUS
<1>2. n # 0
  OBVIOUS
<1>3. n \in D
  BY <1>2
<1>4. D \in SUBSET Int /\ IsFiniteSet(D)
  <2> HIDE DEF D
  <2> QED
    BY <1>1, PlacesFinite
<1>5. PICK m \in D : \A y \in D : m <= y
  <2> HIDE DEF D
  <2> QED
    BY <1>3, <1>4, FirstAndLast
<1>6. m \in 1..n /\ m \notin S
  OBVIOUS
<1>7. m - 1 \in Nat /\ (m - 1) + 1 = m /\ m - 1 \notin D
  BY <1>5, <1>6
<1>8. m - 1 \in S
  <2>1. CASE m = 1
    BY <2>1
  <2>2. CASE m # 1
    BY <1>6, <1>7, <2>2
  <2> QED
    BY <2>1, <2>2
<1> QED
  BY <1>6, <1>7, <1>8

(* One more round along the edges.                                         *)
Round(edges, X) == X \cup {e.to : e \in {x \in edges : x.from \in X}}

Rounds(f, edges, first) == f = [k \in Nat |-> IF k = 0 THEN first ELSE Round(edges, f[k - 1])]

(* The rounds exist, one for every number.                                 *)
LEMMA RoundsExist ==
  ASSUME NEW edges, NEW first
  PROVE  \E f : Rounds(f, edges, first)
<1> DEFINE Is(g, k) == /\ g = [i \in 0..k |-> g[i]] /\ g[0] = first
                       /\ \A i \in 1..k : g[i] = Round(edges, g[i - 1])
           One(k) == (\E g : Is(g, k)) /\ \A g, h : Is(g, k) /\ Is(h, k) => g = h
           S == {k \in Nat : One(k)}
<1>1. One(0)
  <2>1. Is([i \in 0..0 |-> first], 0)
    OBVIOUS
  <2>2. ASSUME NEW g, NEW h, Is(g, 0), Is(h, 0) PROVE g = h
    <3>1. g = [i \in 0..0 |-> g[i]] /\ h = [i \in 0..0 |-> h[i]] /\ g[0] = h[0]
      BY <2>2
    <3>2. \A i \in 0..0 : g[i] = h[i]
      BY <3>1
    <3> QED
      BY <3>1, <3>2
  <2> QED
    BY <2>1, <2>2
<1>2. ASSUME NEW k \in Nat, NEW g, Is(g, k + 1)
      PROVE  Is([i \in 0..k |-> g[i]], k) /\ g[k + 1] = Round(edges, g[k])
  <2> DEFINE r == [i \in 0..k |-> g[i]]
  <2>1. 0 \in 0..k /\ k + 1 \in 1..(k + 1) /\ (k + 1) - 1 = k
    OBVIOUS
  <2>2. \A i \in 1..k : i \in 0..k /\ i - 1 \in 0..k /\ i \in 1..(k + 1)
    OBVIOUS
  <2>3. \A i \in 0..k : r[i] = g[i]
    OBVIOUS
  <2>4. r = [i \in 0..k |-> r[i]]
    OBVIOUS
  <2> HIDE DEF r
  <2>5. r[0] = first /\ \A i \in 1..k : r[i] = Round(edges, r[i - 1])
    BY <1>2, <2>1, <2>2, <2>3
  <2>6. g[k + 1] = Round(edges, g[k])
    BY <1>2, <2>1
  <2> QED
    BY <2>4, <2>5, <2>6 DEF r
<1>3. ASSUME NEW k \in Nat, One(k) PROVE One(k + 1)
  <2>1. PICK g : Is(g, k)
    BY <1>3
  <2> DEFINE h == [i \in 0..(k + 1) |-> IF i = k + 1 THEN Round(edges, g[k]) ELSE g[i]]
  <2>2. Is(h, k + 1)
    <3>1. h = [i \in 0..(k + 1) |-> h[i]]
      OBVIOUS
    <3>2. h[k + 1] = Round(edges, g[k]) /\ \A i \in 0..k : h[i] = g[i]
      OBVIOUS
    <3> HIDE DEF h
    <3>3. h[0] = first
      BY <2>1, <3>2
    <3>4. ASSUME NEW i \in 1..(k + 1) PROVE h[i] = Round(edges, h[i - 1])
      <4>1. CASE i = k + 1
        <5>1. i - 1 = k /\ k \in 0..k
          BY <4>1
        <5> QED
          BY <3>2, <4>1, <5>1
      <4>2. CASE i # k + 1
        <5>1. i \in 1..k /\ i \in 0..k /\ i - 1 \in 0..k
          BY <4>2
        <5> QED
          BY <2>1, <3>2, <5>1
      <4> QED
        BY <4>1, <4>2
    <3> QED
      BY <3>1, <3>3, <3>4
  <2>3. ASSUME NEW a, NEW b, Is(a, k + 1), Is(b, k + 1) PROVE a = b
    <3>1. /\ Is([i \in 0..k |-> a[i]], k) /\ a[k + 1] = Round(edges, a[k])
          /\ Is([i \in 0..k |-> b[i]], k) /\ b[k + 1] = Round(edges, b[k])
      <4> HIDE DEF Is
      <4> QED
        BY <1>2, <2>3
    <3>2. [i \in 0..k |-> a[i]] = [i \in 0..k |-> b[i]]
      <4> HIDE DEF Is
      <4> QED
        BY <1>3, <3>1
    <3>3. \A i \in 0..k : a[i] = b[i]
      BY <3>2
    <3>4. \A i \in 0..(k + 1) : a[i] = b[i]
      <4>1. k \in 0..k /\ \A i \in 0..(k + 1) : i \in 0..k \/ i = k + 1
        OBVIOUS
      <4> HIDE DEF Is
      <4> QED
        BY <3>1, <3>3, <4>1
    <3>5. a = [i \in 0..(k + 1) |-> a[i]] /\ b = [i \in 0..(k + 1) |-> b[i]]
      BY <2>3
    <3> QED
      BY <3>4, <3>5
  <2> HIDE DEF Is, h
  <2> QED
    BY <2>2, <2>3
<1> HIDE DEF One
<1>4. \A k \in Nat : One(k)
  <2>1. 0 \in S /\ \A k \in Nat : k \in S => k + 1 \in S
    BY <1>1, <1>3
  <2> HIDE DEF S
  <2>2. Nat \subseteq S
    BY <2>1, SetInduction
  <2> QED
    BY <2>2 DEF S
<1> DEFINE G(k) == CHOOSE g : Is(g, k)
           f == [k \in Nat |-> G(k)[k]]
<1>5. \A k \in Nat : Is(G(k), k)
  <2> SUFFICES ASSUME NEW k \in Nat PROVE Is(G(k), k)
    OBVIOUS
  <2>1. \E g : Is(g, k)
    BY <1>4 DEF One
  <2> HIDE DEF Is
  <2> QED
    BY <2>1
<1> HIDE DEF G
<1>6. \A k \in Nat : f[k] = IF k = 0 THEN first ELSE Round(edges, f[k - 1])
  <2> SUFFICES ASSUME NEW k \in Nat PROVE f[k] = IF k = 0 THEN first ELSE Round(edges, f[k - 1])
    OBVIOUS
  <2>1. CASE k = 0
    BY <1>5, <2>1
  <2>2. CASE k # 0
    <3>1. k - 1 \in Nat /\ (k - 1) + 1 = k /\ k - 1 \in 0..(k - 1)
      BY <2>2
    <3> DEFINE j == k - 1
               r == [i \in 0..j |-> G(k)[i]]
    <3>2. Is(r, j) /\ G(k)[k] = Round(edges, G(k)[j])
      <4>1. Is(G(k), j + 1)
        BY <1>5, <3>1
      <4> HIDE DEF Is
      <4> QED
        BY <1>2, <3>1, <4>1
    <3>3. r = G(j)
      <4>1. Is(G(j), j)
        BY <1>5, <3>1
      <4> HIDE DEF Is, r
      <4> QED
        BY <1>4, <3>1, <3>2, <4>1 DEF One
    <3>4. r[j] = G(k)[j]
      BY <3>1
    <3>5. f[k] = G(k)[k] /\ f[j] = G(j)[j]
      BY <3>1
    <3> HIDE DEF r, f, Is
    <3> QED
      BY <2>2, <3>2, <3>3, <3>4, <3>5
  <2> QED
    BY <2>1, <2>2
<1>7. f = [k \in Nat |-> f[k]]
  OBVIOUS
<1> HIDE DEF f
<1>8. Rounds(f, edges, first)
  BY <1>6, <1>7 DEF Rounds
<1> QED
  BY <1>8

(* What is reachable: the first node and what reachable nodes lead to.     *)
LEMMA ReachableFacts ==
  ASSUME NEW body, Len(body) \in Nat, 1 \in Pcs(body),
         NEW edges, \A e \in edges : e.to \in Pcs(body)
  PROVE  /\ 1 \in Reachable(body, edges)
         /\ Reachable(body, edges) \subseteq Pcs(body)
         /\ \A e \in edges : e.from \in Reachable(body, edges) => e.to \in Reachable(body, edges)
         /\ \A r \in Reachable(body, edges) : r = 1 \/ \E e \in edges : e.to = r
<1> DEFINE first == {1} \cap Pcs(body)
           grow == CHOOSE f : Rounds(f, edges, first)
           n == Len(body)
           N == Pcs(body)
           Closed(X) == \A e \in edges : e.from \in X => e.to \in X
           Known(X) == 1 \in X /\ X \subseteq N /\ \A r \in X : r = 1 \/ \E e \in edges : e.to = r
           S == {k \in Nat : Known(grow[k]) /\ (Closed(grow[k]) \/ Cardinality(grow[k]) >= k + 1)}
<1>1. Reachable(body, edges) = grow[n]
  BY DEF Reachable, Round, Rounds
<1>2. grow = [k \in Nat |-> IF k = 0 THEN first ELSE Round(edges, grow[k - 1])]
  <2>1. \E f : Rounds(f, edges, first)
    BY RoundsExist
  <2>2. Rounds(grow, edges, first)
    BY <2>1
  <2> QED
    BY <2>2 DEF Rounds
<1> HIDE DEF grow
<1>3. grow[0] = first /\ \A k \in Nat : grow[k + 1] = Round(edges, grow[k])
  <2>1. \A k \in Nat : k + 1 \in Nat /\ k + 1 # 0 /\ (k + 1) - 1 = k
    OBVIOUS
  <2> HIDE DEF first
  <2> QED
    BY <1>2, <2>1
<1>4. \A X, r : r \in Round(edges, X) <=> r \in X \/ \E e \in edges : e.from \in X /\ e.to = r
  BY DEF Round
<1>5. first = {1} /\ Cardinality(first) = 1
  <2>1. first = {1}
    OBVIOUS
  <2> HIDE DEF first
  <2> QED
    BY <2>1, FS_Singleton
<1>6. IsFiniteSet(N) /\ Cardinality(N) = n
  <2>1. 1 \in Int /\ n \in Int /\ n >= 1
    BY DEF Pcs
  <2>2. IsFiniteSet(1..n) /\ Cardinality(1..n) = IF 1 > n THEN 0 ELSE n - 1 + 1
    BY <2>1, FS_Interval
  <2> QED
    BY <2>1, <2>2 DEF Pcs
<1>7. 0 \in S
  <2>1. Known(grow[0])
    BY <1>3, <1>5
  <2>2. Cardinality(grow[0]) >= 0 + 1
    BY <1>3, <1>5
  <2> HIDE DEF Known
  <2> QED
    BY <2>1, <2>2
<1>8. ASSUME NEW k \in Nat, k \in S PROVE k + 1 \in S
  <2> DEFINE X == grow[k]
             Y == grow[k + 1]
  <2>1. Known(X) /\ (Closed(X) \/ Cardinality(X) >= k + 1)
    BY <1>8
  <2>2. \A r : r \in Y <=> r \in X \/ \E e \in edges : e.from \in X /\ e.to = r
    <3>1. Y = Round(edges, X)
      BY <1>3
    <3> HIDE DEF X, Y
    <3> QED
      BY <1>4, <3>1
  <2> HIDE DEF X, Y, N
  <2>3. Known(Y)
    <3>1. X \subseteq N /\ 1 \in X
      BY <2>1
    <3>2. \A e \in edges : e.to \in N
      BY DEF N
    <3>3. Y \subseteq N /\ 1 \in Y
      BY <2>2, <3>1, <3>2
    <3>4. \A r \in Y : r = 1 \/ \E e \in edges : e.to = r
      BY <2>1, <2>2
    <3> QED
      BY <3>3, <3>4
  <2>4. CASE Closed(X)
    <3>1. X = Y
      BY <2>2, <2>4
    <3> QED
      BY <2>3, <2>4, <3>1 DEF Y
  <2>5. CASE ~Closed(X)
    <3>1. X \subseteq Y /\ X # Y /\ Y \subseteq N
      BY <2>2, <2>3, <2>5
    <3>2. IsFiniteSet(X) /\ IsFiniteSet(Y)
      BY <1>6, <3>1, FS_Subset
    <3>3. Cardinality(X) <= Cardinality(Y) /\ Cardinality(X) # Cardinality(Y)
      BY <3>1, <3>2, FS_Subset
    <3>4. Cardinality(X) \in Nat /\ Cardinality(Y) \in Nat
      BY <3>2, FS_CardinalityType
    <3>5. Cardinality(X) >= k + 1
      BY <2>1, <2>5
    <3>6. Cardinality(Y) >= (k + 1) + 1 /\ k + 1 \in Nat
      BY <3>3, <3>4, <3>5
    <3> HIDE DEF Known, Closed
    <3> QED
      BY <2>3, <3>6 DEF Y
  <2> QED
    BY <2>4, <2>5
<1>9. n \in S
  <2> HIDE DEF S
  <2>1. Nat \subseteq S
    BY <1>7, <1>8, SetInduction
  <2> QED
    BY <2>1
<1>10. Known(grow[n]) /\ (Closed(grow[n]) \/ Cardinality(grow[n]) >= n + 1)
  BY <1>9
<1>11. Closed(grow[n])
  <2> SUFFICES ASSUME Cardinality(grow[n]) >= n + 1 PROVE FALSE
    BY <1>10
  <2>1. grow[n] \subseteq N
    BY <1>10
  <2> HIDE DEF N
  <2>2. Cardinality(grow[n]) <= n /\ IsFiniteSet(grow[n])
    BY <1>6, <2>1, FS_Subset
  <2>3. Cardinality(grow[n]) \in Nat
    BY <2>2, FS_CardinalityType
  <2> QED
    BY <2>2, <2>3
<1> QED
  BY <1>1, <1>10, <1>11

(* Execution starts at the first instruction and nowhere else.             *)
LEMMA EntryFacts ==
  ASSUME NEW body, Len(body) \in Nat, Aimed(body), Labelled(body),
         NEW block, block = partition_blocks(body)
  PROVE  LET edges == Edges(body, block)
             reach == Reachable(body, edges)
         IN  Ascending(Entry(body, edges, reach)) = IF 1 \in Pcs(body) THEN <<1>> ELSE <<>>
<1> DEFINE edges == Edges(body, block)
           reach == Reachable(body, edges)
           roots == Pcs(body) \ {e.to : e \in edges}
<1>1. \A e \in edges : e.to \in Pcs(body) /\ e.to # 1
  BY EdgeForms
<1>2. Entry(body, edges, reach) = IF roots \cap reach # {} THEN roots \cap reach ELSE roots
  BY DEF Entry
<1>3. CASE 1 \in Pcs(body)
  <2> HIDE DEF edges
  <2>1. /\ 1 \in reach /\ reach \subseteq Pcs(body)
        /\ \A r \in reach : r = 1 \/ \E e \in edges : e.to = r
    BY <1>1, <1>3, ReachableFacts
  <2> HIDE DEF reach
  <2>2. roots \cap reach = {1}
    BY <1>1, <1>3, <2>1
  <2>3. Entry(body, edges, reach) = {1}
    <3> HIDE DEF roots
    <3> QED
      BY <1>2, <2>2
  <2>4. Ascending({1}) = <<1>>
    BY AscendingFew
  <2> QED
    BY <1>3, <2>3, <2>4 DEF edges, reach
<1>4. CASE 1 \notin Pcs(body)
  <2>1. Pcs(body) = {}
    BY <1>4 DEF Pcs
  <2>2. roots = {}
    BY <2>1
  <2>3. Entry(body, edges, reach) = {}
    <3> HIDE DEF roots, edges, reach
    <3> QED
      BY <1>2, <2>2
  <2> HIDE DEF edges, reach, roots
  <2> QED
    BY <1>4, <2>3, AscendingFew DEF edges, reach
<1> QED
  BY <1>3, <1>4

-----------------------------------------------------------------------------
(* What leads away from a node, and where control is                       *)

(* A node that control leaves to the next place of its block.              *)
Inner(body, n) == ~IsLabel(body[n]) /\ n + 1 \in Pcs(body) /\ n + 1 \notin Starts(body)
(* The last node of its block.                                             *)
Final(body, n) == ~IsLabel(body[n]) /\ ~(n + 1 \in Pcs(body) /\ n + 1 \notin Starts(body))

(* What leads away from a node.                                            *)
LEMMA NodeEdges ==
  ASSUME NEW body, Len(body) \in Nat, Aimed(body), Labelled(body),
         NEW block, block = partition_blocks(body),
         NEW e \in Edges(body, block), e.kind # "data"
  PROVE  /\ e.from \in Pcs(body) /\ e.to \in Pcs(body) /\ e.kind \in {"seq", "ctl"}
         /\ e.kind = "seq" => Chained(body, block, e)
         /\ IsLabel(body[e.from]) => e.kind = "ctl" /\ e.to = Landing(body, e.from)
         /\ Inner(body, e.from) => Chained(body, block, e)
         /\ Final(body, e.from) =>
              /\ e.kind = "ctl" /\ body[e.from].op # "return"
              /\ ~IsTerminator(body[e.from]) => e.to = Landing(body, e.from + 1)
              /\ IsTerminator(body[e.from]) =>
                   e.to \in Taken(body, block, e.from) \cup NotTaken(body, block, e.from)
<1>1. /\ e.from \in Pcs(body) /\ e.to \in Pcs(body) /\ e.kind \in {"seq", "ctl"}
      /\ \/ Chained(body, block, e) \/ Falling(body, e)
         \/ Steering(body, block, e) \/ Labelling(body, e)
  BY EdgeForms
<1>2. e.kind = "seq" => Chained(body, block, e)
  BY <1>1 DEF Falling, Steering, Labelling
<1>3. ASSUME IsLabel(body[e.from]) PROVE e.kind = "ctl" /\ e.to = Landing(body, e.from)
  BY <1>1, <1>3, LabelFacts DEF Chained, Falling, Steering, Labelling
<1>4. ASSUME Inner(body, e.from) PROVE Chained(body, block, e)
  <2>1. ~IsTerminator(body[e.from]) /\ ~Transfers(body[e.from])
    <3>1. ~IsTerminator(body[e.from])
      BY <1>1, <1>4, BlockFacts DEF Inner
    <3> QED
      BY <3>1 DEF IsTerminator
  <2> QED
    BY <1>1, <1>4, <2>1 DEF Inner, Falling, Steering, Labelling
<1>5. ASSUME Final(body, e.from)
      PROVE  /\ e.kind = "ctl" /\ body[e.from].op # "return"
             /\ ~IsTerminator(body[e.from]) => e.to = Landing(body, e.from + 1)
             /\ IsTerminator(body[e.from]) =>
                  e.to \in Taken(body, block, e.from) \cup NotTaken(body, block, e.from)
  <2>1. ~Chained(body, block, e)
    <3> SUFFICES ASSUME Chained(body, block, e) PROVE FALSE
      OBVIOUS
    <3>1. block[e.to] = block[e.from] /\ e.from < e.to
      BY DEF Chained
    <3>2. e.from + 1 \in Pcs(body) /\ e.from + 1 \in e.from..e.to /\ e.from < e.from + 1
      BY <1>1, <3>1 DEF Pcs
    <3>3. block[e.from + 1] = block[e.from]
      BY <1>1, <3>1, <3>2, BlockFacts
    <3>4. e.from + 1 \notin Starts(body)
      BY <1>1, <3>2, <3>3, BlockFacts
    <3> QED
      BY <1>5, <3>2, <3>4 DEF Final
  <2>2. CASE Falling(body, e)
    BY <2>2 DEF Falling, IsTerminator
  <2>3. CASE Steering(body, block, e)
    BY <2>3 DEF Steering, IsTerminator, Transfers, IsBranch
  <2>4. ~Labelling(body, e)
    BY <1>5 DEF Final, Labelling
  <2> QED
    BY <1>1, <2>1, <2>2, <2>3, <2>4
<1> QED
  BY <1>1, <1>2, <1>3, <1>4, <1>5

(* Edges that lead nowhere new, and to one new node.                       *)
LEMMA HeadsFew ==
  ASSUME NEW body, Len(body) \in Nat, Aimed(body), Labelled(body),
         NEW block, block = partition_blocks(body),
         NEW E, E \subseteq Edges(body, block), \A e \in E : e.kind # "data", NEW D
  PROVE  /\ (\A e \in E : e.to \in D) => Fresh(Heads(E), D) = <<>>
         /\ \A t \in Pcs(body) : t \notin D /\ (\E e \in E : e.to = t)
                                /\ (\A e \in E : e.to \in D \/ e.to = t)
                                => Fresh(Heads(E), D) = <<t>>
<1> DEFINE h == Heads(E)
<1>1. /\ h \in Seq(Pcs(body))
      /\ \A k \in DOMAIN h : \E e \in E : h[k] = e.to
      /\ \A e \in E : \E k \in DOMAIN h : h[k] = e.to
  BY HeadsFacts
<1> HIDE DEF h
<1>2. ASSUME \A e \in E : e.to \in D PROVE Fresh(h, D) = <<>>
  BY <1>1, <1>2, FreshFew
<1>3. ASSUME NEW t \in Pcs(body), t \notin D, NEW e \in E, e.to = t, \A f \in E : f.to \in D \/ f.to = t
      PROVE  Fresh(h, D) = <<t>>
  <2>1. \E k \in DOMAIN h : h[k] = t
    BY <1>1, <1>3
  <2>2. \A k \in DOMAIN h : h[k] \in D \/ h[k] = t
    BY <1>1, <1>3
  <2> QED
    BY <1>1, <1>3, <2>1, <2>2, FreshFew
<1> QED
  BY <1>2, <1>3 DEF h

-----------------------------------------------------------------------------
(* Where control is.                                                       *)

(* The fan edges of the blocks of a loop are there.                        *)
Looped(body, p) == \E h \in LoopHeads(body, partition_blocks(body)) : h <= partition_blocks(body)[p]

(* The list has the instruction at pc first, and behind it nodes of its    *)
(* block that no effect separates from it; in a loop, all up to the last.  *)
Spread(body, a, pc) ==
  LET block == partition_blocks(body)
  IN  /\ pc \in Pcs(body) /\ ~IsLabel(body[pc])
      /\ a \in Seq(Pcs(body)) /\ Len(a) >= 1 /\ a[1] = pc
      /\ \A j, k \in DOMAIN a : j < k => a[j] < a[k]
      /\ \A k \in DOMAIN a : block[a[k]] = block[pc] /\ \A y \in pc..(a[k] - 1) : ~IsEffect(body[y])
      /\ Looped(body, pc) => \A k \in DOMAIN a : \A y \in pc..a[k] : \E j \in DOMAIN a : a[j] = y
      /\ Len(a) > 1 => pc - 1 \in Pcs(body) /\ block[pc - 1] = block[pc] /\ ~IsLabel(body[pc - 1])

(* The active nodes of an executor that a program which runs line by line  *)
(* would have at pc.                                                       *)
Track(body, a, pc) ==
  \/ a = <<>> /\ pc = End(body)
  \/ \E h \in Pcs(body) : a = <<h>> /\ IsLabel(body[h]) /\ Landing(body, h) = pc
  \/ Spread(body, a, pc)

(* One node alone.                                                         *)
LEMMA OneTracks ==
  ASSUME NEW body, Len(body) \in Nat, Labelled(body), NEW t \in Pcs(body)
  PROVE  Track(body, <<t>>, Landing(body, t))
<1>1. CASE IsLabel(body[t])
  BY <1>1 DEF Track
<1>2. CASE ~IsLabel(body[t])
  <2>1. Landing(body, t) = t
    BY <1>2, LandingFacts
  <2> DEFINE a == <<t>>
  <2>2. a \in Seq(Pcs(body)) /\ Len(a) = 1 /\ DOMAIN a = 1..1 /\ \A k \in 1..1 : a[k] = t
    OBVIOUS
  <2>3. t \in Int /\ \A y \in t..(t - 1) : FALSE
    BY DEF Pcs
  <2>4. \A y \in t..t : y = t
    BY <2>3
  <2>5. \A k \in DOMAIN a : \A y \in t..a[k] : \E j \in DOMAIN a : a[j] = y
    BY <2>2, <2>4
  <2> HIDE DEF a
  <2>6. Spread(body, a, t)
    BY <1>2, <2>2, <2>3, <2>5 DEF Spread
  <2> QED
    BY <2>1, <2>6 DEF Track, a
<1> QED
  BY <1>1, <1>2

(* A list that rises behind an inner node.                                 *)
LEMMA RisingTracks ==
  ASSUME NEW body, Len(body) \in Nat, NEW block, block = partition_blocks(body),
         NEW m \in Pcs(body), Inner(body, m), NEW r \in Seq(Pcs(body)),
         \A j, k \in DOMAIN r : j < k => r[j] < r[k],
         \E k \in DOMAIN r : r[k] = m + 1,
         \A k \in DOMAIN r : /\ m < r[k] /\ block[r[k]] = block[m]
                             /\ \A y \in (m + 1)..(r[k] - 1) : ~IsEffect(body[y]),
         Looped(body, m) => \A k \in DOMAIN r : \A y \in (m + 1)..r[k] : \E j \in DOMAIN r : r[j] = y
  PROVE  Track(body, r, m + 1)
<1>1. m + 1 \in Pcs(body) /\ ~IsLabel(body[m + 1]) /\ ~IsLabel(body[m]) /\ block[m + 1] = block[m]
  BY BlockFacts DEF Inner
<1>2. Len(r) \in Nat /\ DOMAIN r = 1..Len(r) /\ m \in Int /\ \A k \in DOMAIN r : r[k] \in Int
  BY DEF Pcs
<1>3. PICK k \in DOMAIN r : r[k] = m + 1
  OBVIOUS
<1>4. Len(r) >= 1 /\ 1 \in DOMAIN r
  BY <1>2, <1>3
<1>5. r[1] = m + 1
  <2>1. m < r[1] /\ r[1] \in Int
    BY <1>2, <1>4
  <2>2. ~(m + 1 < r[1])
    <3> SUFFICES ASSUME m + 1 < r[1] PROVE FALSE
      OBVIOUS
    <3>1. k # 1 /\ 1 < k
      BY <1>2, <1>3
    <3>2. r[1] < m + 1
      BY <1>3, <1>4, <3>1
    <3> QED
      BY <1>2, <2>1, <3>2
  <2> QED
    BY <1>2, <2>1, <2>2
<1>6. Looped(body, m + 1) => Looped(body, m)
  BY <1>1 DEF Looped
<1>7. (m + 1) - 1 = m
  BY <1>2
<1>8. Spread(body, r, m + 1)
  BY <1>1, <1>4, <1>5, <1>6, <1>7 DEF Spread
<1> QED
  BY <1>8 DEF Track

-----------------------------------------------------------------------------
(* Control that spreads from a node                                        *)

(* A list that leads on from inner node m: apart from what is in D, to the  *)
(* next place and to later ones, in order.                                 *)
Onward(body, m, h, D) ==
  LET block == partition_blocks(body)
  IN  /\ h \in Seq(Pcs(body))
      /\ \E k \in DOMAIN h : h[k] = m + 1
      /\ \A k \in DOMAIN h :
           \/ h[k] \in D
           \/ /\ m < h[k] /\ block[h[k]] = block[m]
              /\ \A y \in (m + 1)..(h[k] - 1) : ~IsEffect(body[y])
              /\ h[k] = m + 1 \/ IsEffect(body[m])
      /\ \A k, l \in DOMAIN h :
           k < l /\ h[k] \notin D /\ h[l] \notin D /\ h[k] # h[l] => h[k] < h[l]
      /\ Looped(body, m) =>
           \A k \in DOMAIN h : h[k] \notin D =>
             \A y \in (m + 1)..h[k] : \E j \in DOMAIN h : h[j] = y

(* From an inner node control spreads to the next place, and where the     *)
(* node is an effect to those up to the next effect; all of them in a loop.*)
LEMMA InnerHeads ==
  ASSUME NEW body, Len(body) \in Nat, Aimed(body), Labelled(body),
         NEW block, block = partition_blocks(body),
         NEW m \in Pcs(body), Inner(body, m),
         NEW E, E \subseteq Edges(body, block), \A e \in E : e.kind # "data",
         NEW D, \A e \in E : e.from = m \/ e.to \in D,
         \A e \in Edges(body, block) : e.from = m /\ e.kind = "seq" => e \in E
  PROVE  Onward(body, m, Heads(E), D)
<1> DEFINE h == Heads(E)
<1>1. /\ h \in Seq(Pcs(body))
      /\ \A k \in DOMAIN h : \E e \in E : h[k] = e.to
      /\ \A e \in E : \E k \in DOMAIN h : h[k] = e.to
      /\ \A k, l \in DOMAIN h : k < l => \E e, f \in E : h[k] = e.to /\ h[l] = f.to /\ Earlier(e, f)
  BY HeadsFacts
<1> HIDE DEF h
<1>2. Pcs(body) = 1..Len(body) /\ m \in Int
  BY DEF Pcs
<1>3. ASSUME NEW e \in E, e.to \notin D
      PROVE  /\ e.to \in Pcs(body) /\ m < e.to /\ block[e.to] = block[m]
             /\ \A y \in (m + 1)..(e.to - 1) : ~IsEffect(body[y])
             /\ \/ e.pass = 1 /\ e.to = m + 1
                \/ e.pass = 4 /\ IsEffect(body[m])
             /\ e.from = m
  <2>1. e \in Edges(body, block) /\ e.kind # "data" /\ e.from = m
    BY <1>3
  <2>2. e.to \in Pcs(body) /\ Chained(body, block, e)
    BY <2>1, NodeEdges
  <2>3. \A y \in (m + 1)..((m + 1) - 1) : FALSE
    BY <1>2
  <2> QED
    BY <2>1, <2>2, <2>3 DEF Chained
<1>4. \E k \in DOMAIN h : h[k] = m + 1
  <2> DEFINE e == Edge(1, m, m + 1, "seq")
  <2>1. e \in Edges(body, block)
    BY EdgesThere DEF Inner
  <2>2. e.from = m /\ e.kind = "seq" /\ e.to = m + 1
    BY DEF Edge
  <2> HIDE DEF e
  <2> QED
    BY <1>1, <2>1, <2>2
<1>5. \A k \in DOMAIN h :
        \/ h[k] \in D
        \/ /\ m < h[k] /\ block[h[k]] = block[m]
           /\ \A y \in (m + 1)..(h[k] - 1) : ~IsEffect(body[y])
           /\ h[k] = m + 1 \/ IsEffect(body[m])
  BY <1>1, <1>3
<1>6. ASSUME NEW k \in DOMAIN h, NEW l \in DOMAIN h, k < l, h[k] \notin D, h[l] \notin D, h[k] # h[l]
      PROVE  h[k] < h[l]
  <2>1. PICK e, f \in E : h[k] = e.to /\ h[l] = f.to /\ Earlier(e, f)
    BY <1>1, <1>6
  <2>2. /\ e.to \in Pcs(body) /\ f.to \in Pcs(body) /\ m < e.to /\ m < f.to
        /\ (e.pass = 1 /\ e.to = m + 1) \/ e.pass = 4
        /\ (f.pass = 1 /\ f.to = m + 1) \/ f.pass = 4
    BY <1>3, <1>6, <2>1
  <2> QED
    BY <1>2, <1>6, <2>1, <2>2 DEF Earlier
<1>7. ASSUME Looped(body, m), NEW k \in DOMAIN h, h[k] \notin D, NEW y \in (m + 1)..h[k]
      PROVE  \E j \in DOMAIN h : h[j] = y
  <2>1. PICK e \in E : h[k] = e.to
    BY <1>1
  <2>2. /\ e.to \in Pcs(body) /\ m < e.to /\ block[e.to] = block[m]
        /\ \A o \in (m + 1)..(e.to - 1) : ~IsEffect(body[o])
        /\ e.to = m + 1 \/ IsEffect(body[m])
    BY <1>3, <1>7, <2>1
  <2>3. CASE y = m + 1
    BY <1>4, <2>3
  <2>4. CASE y # m + 1
    <3>1. y \in Int /\ m + 1 < y /\ y <= e.to /\ y \in Pcs(body) /\ y \in m..e.to /\ m < y
      BY <1>2, <2>1, <2>2, <2>4
    <3>2. IsEffect(body[m]) /\ block[y] = block[m]
      BY <1>2, <2>2, <3>1, BlockFacts
    <3>3. \A o \in (m + 1)..(y - 1) : ~IsEffect(body[o])
      BY <1>2, <2>2, <3>1
    <3>4. \E x \in LoopHeads(body, block) : x <= block[y]
      BY <1>7, <3>2 DEF Looped
    <3> DEFINE f == Edge(4, m, y, "seq")
    <3>5. f \in Edges(body, block)
      BY <3>1, <3>2, <3>3, <3>4, EdgesThere
    <3>6. f.from = m /\ f.kind = "seq" /\ f.to = y
      BY DEF Edge
    <3> HIDE DEF f
    <3> QED
      BY <1>1, <3>5, <3>6
  <2> QED
    BY <2>3, <2>4
<1> QED
  BY <1>1, <1>4, <1>5, <1>6, <1>7 DEF h, Onward

(* The successors of an inner node.                                        *)
LEMMA InnerTracks ==
  ASSUME NEW body, Len(body) \in Nat, Aimed(body), Labelled(body),
         NEW block, block = partition_blocks(body),
         NEW m \in Pcs(body), Inner(body, m),
         NEW E, E \subseteq Edges(body, block), \A e \in E : e.kind # "data" /\ e.from = m,
         \A e \in Edges(body, block) : e.from = m /\ e.kind = "seq" => e \in E
  PROVE  /\ Track(body, Fresh(Heads(E), {}), m + 1)
         /\ Fresh(Heads(E), {}) # <<>>
<1> DEFINE D == {}
           h == Heads(E)
           r == Fresh(h, D)
<1>0. \A x : x \notin D
  OBVIOUS
<1> HIDE DEF D
<1>a. (\A e \in E : e.kind # "data") /\ (\A e \in E : e.from = m \/ e.to \in D)
  OBVIOUS
<1>b. Onward(body, m, h, D)
  BY <1>a, InnerHeads
<1> HIDE DEF h
<1>1. /\ h \in Seq(Pcs(body))
      /\ \E k \in DOMAIN h : h[k] = m + 1
      /\ \A k \in DOMAIN h :
           /\ m < h[k] /\ block[h[k]] = block[m]
           /\ \A y \in (m + 1)..(h[k] - 1) : ~IsEffect(body[y])
      /\ \A k, l \in DOMAIN h : k < l /\ h[k] # h[l] => h[k] < h[l]
      /\ Looped(body, m) =>
           \A k \in DOMAIN h : \A y \in (m + 1)..h[k] : \E j \in DOMAIN h : h[j] = y
  BY <1>0, <1>b DEF Onward
<1>2. /\ r \in Seq(Pcs(body))
      /\ \A x : (\E j \in DOMAIN r : r[j] = x) <=> \E k \in DOMAIN h : h[k] = x
  <2>1. h \in Seq(Pcs(body))
    BY <1>1
  <2>2. /\ r \in Seq(Pcs(body))
        /\ \A x : (\E j \in DOMAIN r : r[j] = x) <=> (x \notin D /\ \E k \in DOMAIN h : h[k] = x)
    BY <2>1, FreshFacts
  <2> QED
    BY <1>0, <2>2
<1>3. \A i, j \in DOMAIN r : i < j => r[i] < r[j]
  <2>1. h \in Seq(Int)
    BY <1>1 DEF Pcs
  <2> QED
    BY <1>1, <2>1, FreshRises
<1> HIDE DEF r
<1>4. \E k \in DOMAIN r : r[k] = m + 1
  BY <1>1, <1>2
<1>5. \A k \in DOMAIN r : /\ m < r[k] /\ block[r[k]] = block[m]
                          /\ \A y \in (m + 1)..(r[k] - 1) : ~IsEffect(body[y])
  <2> SUFFICES ASSUME NEW k \in DOMAIN r
               PROVE  /\ m < r[k] /\ block[r[k]] = block[m]
                      /\ \A y \in (m + 1)..(r[k] - 1) : ~IsEffect(body[y])
    OBVIOUS
  <2>1. PICK l \in DOMAIN h : h[l] = r[k]
    BY <1>2
  <2> QED
    BY <1>1, <2>1
<1>6. ASSUME Looped(body, m) PROVE \A k \in DOMAIN r : \A y \in (m + 1)..r[k] : \E j \in DOMAIN r : r[j] = y
  <2> SUFFICES ASSUME NEW k \in DOMAIN r, NEW y \in (m + 1)..r[k] PROVE \E j \in DOMAIN r : r[j] = y
    OBVIOUS
  <2>1. PICK l \in DOMAIN h : h[l] = r[k]
    BY <1>2
  <2>2. \E j \in DOMAIN h : h[j] = y
    BY <1>1, <1>6, <2>1
  <2> QED
    BY <1>2, <2>2
<1>7. Track(body, r, m + 1)
  BY <1>2, <1>3, <1>4, <1>5, <1>6, RisingTracks
<1>8. r # <<>>
  BY <1>4
<1> QED
  BY <1>7, <1>8 DEF r, h, D

(* The successors of a label, and of the last node of a block.             *)
LEMMA LabelHeads ==
  ASSUME NEW body, Len(body) \in Nat, Aimed(body), Labelled(body),
         NEW block, block = partition_blocks(body),
         NEW n \in Pcs(body), IsLabel(body[n]),
         NEW E, E \subseteq Edges(body, block), \A e \in E : e.kind # "data" /\ e.from = n,
         \A e \in Edges(body, block) : e.from = n /\ e.kind = "ctl" => e \in E,
         NEW D, Landing(body, n) \notin D
  PROVE  Fresh(Heads(E), D) = IF Landing(body, n) \in Pcs(body) THEN <<Landing(body, n)>> ELSE <<>>
<1>1. \A e \in E : e.to \in Pcs(body) /\ e.to = Landing(body, n)
  BY NodeEdges
<1>2. CASE Landing(body, n) \in Pcs(body)
  <2> DEFINE e == Edge(5, n, Landing(body, n), "ctl")
  <2>1. e \in Edges(body, block)
    BY <1>2, EdgesThere
  <2>2. e.from = n /\ e.kind = "ctl" /\ e.to = Landing(body, n)
    BY DEF Edge
  <2> HIDE DEF e
  <2>3. \E d \in E : d.to = Landing(body, n)
    BY <2>1, <2>2
  <2>4. Fresh(Heads(E), D) = <<Landing(body, n)>>
    BY <1>1, <1>2, <2>3, HeadsFew
  <2> QED
    BY <1>2, <2>4
<1>3. CASE Landing(body, n) \notin Pcs(body)
  <2>1. Fresh(Heads(E), D) = <<>>
    BY <1>1, <1>3, HeadsFew
  <2> QED
    BY <1>3, <2>1
<1> QED
  BY <1>2, <1>3

(* Where the last node of a block leads.                                   *)
Ahead(body, n, truthy) ==
  LET block == partition_blocks(body)
      i     == body[n]
  IN  CASE i.op = "return"                  -> {}
        [] i.op = "jumpif"                  -> IF truthy THEN Taken(body, block, n) ELSE NotTaken(body, block, n)
        [] i.op = "jumpifnot"               -> IF truthy THEN NotTaken(body, block, n) ELSE Taken(body, block, n)
        [] i.op \in {"jump", "break", "continue"} -> Taken(body, block, n)
        [] OTHER                            -> {Landing(body, n + 1)} \cap Pcs(body)

(* The nodes from s to n can be a wave of which s is not the start of the  *)
(* block unless it is alone.                                               *)
Stretch(body, s, n) ==
  LET block == partition_blocks(body)
  IN  /\ s \in Pcs(body) /\ s <= n /\ block[s] = block[n] /\ ~IsLabel(body[s])
      /\ s # n => s - 1 \in Pcs(body) /\ block[s - 1] = block[s] /\ ~IsLabel(body[s - 1])

(* A transfer never leads into the wave it ends.                           *)
LEMMA TransferLeaves ==
  ASSUME NEW body, Len(body) \in Nat, Labelled(body), NEW block, block = partition_blocks(body),
         NEW n \in Pcs(body), NEW to \in Starts(body), Landing(body, to) # n,
         NEW s, Stretch(body, s, n)
  PROVE  Redirect(body, block, to) \notin s..n
<1> DEFINE t == Redirect(body, block, to)
<1> SUFFICES ASSUME t \in s..n PROVE FALSE
  OBVIOUS
<1>1. /\ Pcs(body) = 1..Len(body) /\ Starts(body) \subseteq Pcs(body)
      /\ \A p \in Pcs(body) : block[p] \in Starts(body) /\ block[p] <= p
  BY Blocks DEF Pcs
<1>2. /\ s \in Pcs(body) /\ s <= n /\ block[s] = block[n] /\ ~IsLabel(body[s])
      /\ s # n => s - 1 \in Pcs(body) /\ block[s - 1] = block[s] /\ ~IsLabel(body[s - 1])
  BY DEF Stretch
<1>3. t \in Pcs(body) /\ block[t] = block[s]
  BY <1>2, BlockFacts
<1>4. to \in Pcs(body) /\ to \in Int /\ t \in Int /\ s \in Int /\ n \in Int /\ s <= t
  BY <1>1, <1>2, <1>3
<1> HIDE DEF t
<1>5. CASE ~IsLabel(body[to])
  <2>1. t = to /\ Landing(body, to) = to
    BY <1>4, <1>5, RedirectFacts, LandingFacts DEF t
  <2>2. block[s] = t /\ block[s] <= s
    BY <1>1, <1>2, <1>3, <2>1, BlockFacts
  <2>3. s = t
    BY <1>4, <2>2
  <2>4. s = n
    <3> SUFFICES ASSUME s # n PROVE FALSE
      OBVIOUS
    <3>1. s - 1 \in Pcs(body) /\ block[s - 1] = s
      BY <1>2, <2>2, <2>3
    <3>2. block[s - 1] <= s - 1
      BY <1>1, <3>1
    <3> QED
      BY <1>4, <3>1, <3>2
  <2> QED
    BY <2>1, <2>3, <2>4
<1>6. CASE IsLabel(body[to]) /\ to + 1 \in Pcs(body)
  <2>1. t = to + 1 /\ Landing(body, to) = to + 1 /\ to + 1 \notin Starts(body)
    BY <1>4, <1>6, RedirectFacts, LandingFacts DEF t
  <2>2. block[to] = to /\ block[to + 1] = block[to]
    BY <1>4, <1>6, <2>1, BlockFacts
  <2>3. to <= s /\ s # to
    BY <1>1, <1>2, <1>3, <1>6, <2>1, <2>2
  <2>4. s = t
    BY <1>4, <2>1, <2>3
  <2>5. s - 1 = to
    BY <1>4, <2>1, <2>4
  <2> QED
    BY <1>2, <1>6, <2>1, <2>4, <2>5
<1>7. CASE IsLabel(body[to]) /\ to + 1 \notin Pcs(body)
  <2>1. t = to
    BY <1>4, <1>7, RedirectFacts DEF t
  <2>2. block[s] = t /\ block[s] <= s
    BY <1>1, <1>2, <1>3, <2>1, BlockFacts
  <2>3. s = t
    BY <1>4, <2>2
  <2> QED
    BY <1>2, <1>7, <2>1, <2>3
<1> QED
  BY <1>5, <1>6, <1>7

(* It leads to one node, or to the end.                                    *)
LEMMA AheadFacts ==
  ASSUME NEW body, Len(body) \in Nat, Aimed(body), Labelled(body),
         NEW n \in Pcs(body), Final(body, n), NEW truthy \in BOOLEAN
  PROVE  \/ Ahead(body, n, truthy) = {} /\ Follow(body, n, truthy) = End(body)
         \/ \E t \in Pcs(body) : /\ Ahead(body, n, truthy) = {t} /\ Landing(body, t) = Follow(body, n, truthy)
                                 /\ \A s : Stretch(body, s, n) => t \notin s..n
<1> DEFINE block == partition_blocks(body)
           A == Ahead(body, n, truthy)
           F == Follow(body, n, truthy)
           Good == \/ A = {} /\ F = End(body)
                   \/ \E t \in Pcs(body) : /\ A = {t} /\ Landing(body, t) = F
                                           /\ \A s : Stretch(body, s, n) => t \notin s..n
<1> SUFFICES Good
  OBVIOUS
<1>1. Pcs(body) = 1..Len(body) /\ End(body) = Len(body) + 1 /\ n \in Int /\ Starts(body) \subseteq Pcs(body)
  BY Blocks DEF Pcs, End
<1>2. Landing(body, End(body)) = End(body)
  BY LandingFacts
<1> HIDE DEF block
<1>3. ASSUME Transfers(body[n]), A = Taken(body, block, n), F = Landing(body, body[n].to) PROVE Good
  <2>1. CASE body[n].to = End(body) /\ Taken(body, block, n) = {}
    BY <1>2, <1>3, <2>1
  <2>2. CASE body[n].to \in Starts(body) /\ Taken(body, block, n) = {Redirect(body, block, body[n].to)}
    <3> DEFINE t == Redirect(body, block, body[n].to)
    <3>1. body[n].to \in Pcs(body)
      BY <1>1, <2>2
    <3>2. t \in Pcs(body) /\ Landing(body, t) = Landing(body, body[n].to)
      BY <3>1, RedirectFacts DEF block
    <3>3. Landing(body, body[n].to) # n
      BY <1>3 DEF Aimed
    <3>4. \A s : Stretch(body, s, n) => t \notin s..n
      BY <2>2, <3>3, TransferLeaves DEF block
    <3> HIDE DEF t
    <3>5. A = {t}
      BY <1>3, <2>2 DEF t
    <3> HIDE DEF A, F
    <3> QED
      BY <1>3, <3>2, <3>4, <3>5
  <2> QED
    BY <1>3, <2>1, <2>2, TransferFacts DEF block
<1>4. ASSUME IsBranch(body[n]), A = NotTaken(body, block, n), F = Landing(body, n + 1) PROVE Good
  <2> DEFINE t == Redirect(body, block, n + 1)
  <2>1. n + 1 \in Starts(body) /\ NotTaken(body, block, n) = {t}
    BY <1>4, TransferFacts DEF block
  <2>2. n + 1 \in Pcs(body)
    BY <1>1, <2>1
  <2>3. t \in Pcs(body) /\ Landing(body, t) = Landing(body, n + 1) /\ t \in {n + 1, (n + 1) + 1}
    BY <2>2, RedirectFacts DEF block
  <2>4. t > n
    BY <1>1, <2>3
  <2> HIDE DEF t
  <2>5. \A s : Stretch(body, s, n) => t \notin s..n
    BY <1>1, <2>3, <2>4 DEF Stretch
  <2> HIDE DEF A, F
  <2> QED
    BY <1>4, <2>1, <2>3, <2>5
<1>5. ASSUME ~IsTerminator(body[n]) PROVE Good
  <2>1. F = Landing(body, n + 1)
    BY <1>5, FollowFacts
  <2>2. A = {Landing(body, n + 1)} \cap Pcs(body)
    BY <1>5 DEF Ahead, IsTerminator, Transfers, IsBranch
  <2>3. n + 1 \in Pcs(body) => n + 1 \in Starts(body)
    BY DEF Final
  <2>4. CASE Landing(body, n + 1) \in Pcs(body)
    <3> DEFINE t == Landing(body, n + 1)
    <3>1. n + 1 \in Starts(body)
      <4> SUFFICES ASSUME n + 1 \notin Pcs(body) PROVE FALSE
        BY <2>3
      <4>1. n + 1 = End(body)
        BY <1>1
      <4> QED
        BY <1>1, <1>2, <2>4, <4>1
    <3>2. t \in {n + 1, (n + 1) + 1} /\ ~IsLabel(body[t])
      BY <2>4, <3>1, StartFacts
    <3>3. Landing(body, t) = t
      BY <2>4, <3>2, LandingFacts
    <3>4. t > n /\ t \in Int
      BY <1>1, <3>2
    <3> HIDE DEF t
    <3>5. \A s : Stretch(body, s, n) => t \notin s..n
      BY <1>1, <3>4 DEF Stretch
    <3>6. A = {t} /\ t \in Pcs(body) /\ F = t
      BY <2>1, <2>2, <2>4 DEF t
    <3> HIDE DEF A, F
    <3> QED
      BY <3>3, <3>5, <3>6
  <2>5. CASE Landing(body, n + 1) \notin Pcs(body)
    <3>1. Landing(body, n + 1) = End(body)
      <4>1. n + 1 \in 1..End(body)
        BY <1>1
      <4> QED
        BY <2>5, <4>1, LandingFacts
    <3>2. A = {}
      BY <2>2, <2>5
    <3> QED
      BY <2>1, <3>1, <3>2
  <2> QED
    BY <2>4, <2>5
<1>6. CASE body[n].op = "return"
  <2>1. A = {} /\ F = End(body)
    BY <1>6, FollowFacts DEF Ahead
  <2> QED
    BY <2>1
<1>7. CASE body[n].op \in {"jump", "break", "continue"}
  <2>1. A = Taken(body, block, n) /\ F = Landing(body, body[n].to) /\ Transfers(body[n])
    BY <1>7, FollowFacts DEF Ahead, Transfers, block
  <2> HIDE DEF Good, A, F
  <2> QED
    BY <1>3, <2>1
<1>8. CASE body[n].op = "jumpif"
  <2>1. IsBranch(body[n]) /\ Transfers(body[n])
    BY <1>8 DEF IsBranch, Transfers
  <2>2. CASE truthy
    <3>1. A = Taken(body, block, n) /\ F = Landing(body, body[n].to)
      BY <1>8, <2>2, FollowFacts DEF Ahead, block
    <3> HIDE DEF Good, A, F
    <3> QED
      BY <1>3, <2>1, <3>1
  <2>3. CASE ~truthy
    <3>1. A = NotTaken(body, block, n) /\ F = Landing(body, n + 1)
      BY <1>8, <2>3, FollowFacts DEF Ahead, block
    <3> HIDE DEF Good, A, F
    <3> QED
      BY <1>4, <2>1, <3>1
  <2> QED
    BY <2>2, <2>3
<1>9. CASE body[n].op = "jumpifnot"
  <2>1. IsBranch(body[n]) /\ Transfers(body[n])
    BY <1>9 DEF IsBranch, Transfers
  <2>2. CASE ~truthy
    <3>1. A = Taken(body, block, n) /\ F = Landing(body, body[n].to)
      BY <1>9, <2>2, FollowFacts DEF Ahead, block
    <3> HIDE DEF Good, A, F
    <3> QED
      BY <1>3, <2>1, <3>1
  <2>3. CASE truthy
    <3>1. A = NotTaken(body, block, n) /\ F = Landing(body, n + 1)
      BY <1>9, <2>3, FollowFacts DEF Ahead, block
    <3> HIDE DEF Good, A, F
    <3> QED
      BY <1>4, <2>1, <3>1
  <2> QED
    BY <2>2, <2>3
<1>10. ~IsTerminator(body[n]) \/ body[n].op = "return" \/ body[n].op \in {"jump", "break", "continue"}
         \/ body[n].op = "jumpif" \/ body[n].op = "jumpifnot"
  BY DEF IsTerminator, Transfers, IsBranch
<1>11. Good
  <2> HIDE DEF Good
  <2> QED
    BY <1>5, <1>6, <1>7, <1>8, <1>9, <1>10
<1> QED
  BY <1>11

(* Control spreads from the last node of a block to where it leads.        *)
LEMMA FinalHeads ==
  ASSUME NEW body, Len(body) \in Nat, Aimed(body), Labelled(body),
         NEW block, block = partition_blocks(body),
         NEW n \in Pcs(body), Final(body, n), body[n].op # "return", ~IsBranch(body[n]),
         NEW truthy \in BOOLEAN,
         NEW E, E \subseteq Edges(body, block), \A e \in E : e.kind # "data",
         NEW D, \A e \in E : e.from = n \/ e.to \in D,
         \A e \in Edges(body, block) : e.from = n /\ e.kind = "ctl" => e \in E,
         \A t \in Ahead(body, n, truthy) : t \notin D
  PROVE  Fresh(Heads(E), D) = Ascending(Ahead(body, n, truthy))
<1> DEFINE A == Ahead(body, n, truthy)
<1>1. /\ ~IsTerminator(body[n]) => A = {Landing(body, n + 1)} \cap Pcs(body)
      /\ IsTerminator(body[n]) => A = Taken(body, block, n) /\ NotTaken(body, block, n) = {}
  BY TransferFacts DEF Ahead, IsTerminator, Transfers, IsBranch
<1>2. A = {} \/ \E t \in Pcs(body) : A = {t}
  BY AheadFacts
<1> HIDE DEF A
<1>3. ASSUME NEW e \in E, e.from = n PROVE e.to \in A
  <2>1. /\ e \in Edges(body, block) /\ e.kind # "data" /\ e.to \in Pcs(body)
        /\ ~IsTerminator(body[n]) => e.to = Landing(body, n + 1)
        /\ IsTerminator(body[n]) => e.to \in Taken(body, block, n) \cup NotTaken(body, block, n)
    BY <1>3, NodeEdges
  <2> QED
    BY <1>1, <2>1
<1>4. ASSUME NEW t \in A PROVE \E e \in E : e.to = t
  <2>1. CASE ~IsTerminator(body[n])
    <3>1. t = Landing(body, n + 1) /\ t \in Pcs(body)
      BY <1>1, <1>4, <2>1
    <3>2. n + 1 \in Starts(body)
      <4> SUFFICES ASSUME n + 1 \notin Pcs(body) PROVE FALSE
        BY DEF Final
      <4>1. n + 1 = End(body) /\ End(body) \notin Pcs(body)
        BY DEF Pcs, End
      <4> QED
        BY <3>1, <4>1, LandingFacts
    <3> DEFINE e == Edge(2, n, Landing(body, n + 1), "ctl")
    <3>3. e \in Edges(body, block)
      BY <2>1, <3>1, <3>2, EdgesThere DEF Final
    <3>4. e.from = n /\ e.kind = "ctl" /\ e.to = t
      BY <3>1 DEF Edge
    <3> HIDE DEF e
    <3> QED
      BY <3>3, <3>4
  <2>2. CASE IsTerminator(body[n])
    <3>1. t \in Taken(body, block, n)
      BY <1>1, <1>4, <2>2
    <3> DEFINE e == Edge(3, n, t, "ctl")
    <3>3. e \in Edges(body, block)
      BY <3>1, EdgesThere
    <3>4. e.from = n /\ e.kind = "ctl" /\ e.to = t
      BY DEF Edge
    <3> HIDE DEF e
    <3> QED
      BY <3>3, <3>4
  <2> QED
    BY <2>1, <2>2
<1>5. CASE A = {}
  <2>1. \A e \in E : e.to \in D
    BY <1>3, <1>5
  <2>2. Fresh(Heads(E), D) = <<>>
    BY <2>1, HeadsFew
  <2> QED
    BY <1>5, <2>2, AscendingFew DEF A
<1>6. ASSUME NEW t \in Pcs(body), A = {t} PROVE Fresh(Heads(E), D) = Ascending(A)
  <2>1. t \notin D
    BY <1>6 DEF A
  <2>2. \E e \in E : e.to = t
    BY <1>4, <1>6
  <2>3. \A e \in E : e.to \in D \/ e.to = t
    BY <1>3, <1>6
  <2>4. Fresh(Heads(E), D) = <<t>>
    BY <2>1, <2>2, <2>3, HeadsFew
  <2>5. t \in Int
    BY DEF Pcs
  <2> QED
    BY <1>6, <2>4, <2>5, AscendingFew
<1> QED
  BY <1>2, <1>5, <1>6 DEF A

(* Where it leads is where a program that runs line by line would be.      *)
LEMMA AheadTracks ==
  ASSUME NEW body, Len(body) \in Nat, Aimed(body), Labelled(body),
         NEW n \in Pcs(body), Final(body, n), NEW truthy \in BOOLEAN
  PROVE  Track(body, Ascending(Ahead(body, n, truthy)), Follow(body, n, truthy))
<1> DEFINE A == Ahead(body, n, truthy)
           F == Follow(body, n, truthy)
<1>1. \/ A = {} /\ F = End(body)
      \/ \E t \in Pcs(body) : A = {t} /\ Landing(body, t) = F
  BY AheadFacts
<1> HIDE DEF A, F
<1>2. CASE A = {} /\ F = End(body)
  BY <1>2, AscendingFew DEF Track, A, F
<1>3. ASSUME NEW t \in Pcs(body), A = {t}, Landing(body, t) = F PROVE Track(body, Ascending(A), F)
  <2>1. t \in Int
    BY DEF Pcs
  <2>2. Ascending(A) = <<t>>
    BY <1>3, <2>1, AscendingFew
  <2> QED
    BY <1>3, <2>2, OneTracks
<1> QED
  BY <1>1, <1>2, <1>3 DEF A, F

-----------------------------------------------------------------------------
(* What has run                                                            *)

Reach(body) == Reachable(body, Edges(body, partition_blocks(body)))

(* What an executor has done that a program which runs line by line would  *)
(* have at pc: what has run has found its inputs; within a block, the      *)
(* instructions before pc have run before those from pc on; and outside of *)
(* loops nothing from pc on has run at all.                                *)
Memory(body, known, ex, rg, pc) ==
  LET block == partition_blocks(body)
  IN  /\ ex \subseteq Pcs(body)
      /\ \A n \in ex : body[n].use \subseteq rg
      /\ \A n \in ex : \A q \in Pcs(body) :
           q \notin ex /\ ~IsLabel(body[n]) /\ ~IsLabel(body[q]) /\ block[n] = block[q]
           => pc \in Pcs(body) /\ block[pc] = block[n] /\ n < pc /\ pc <= q
      /\ pc \in Pcs(body) =>
           /\ pc \in Reach(body) /\ ~IsLabel(body[pc])
           /\ known[pc] \subseteq rg
           /\ \A q \in Pcs(body) : ~IsLabel(body[q]) /\ block[q] = block[pc] /\ q < pc => q \in ex
           /\ ~Looped(body, pc) => \A q \in ex : ~IsLabel(body[q]) => q < pc

-----------------------------------------------------------------------------
(* What has run, and what is ready                                         *)

(* What is reachable includes where every reachable instruction leads.     *)
LEMMA ReachFacts ==
  ASSUME NEW body, Len(body) \in Nat, Aimed(body), Labelled(body)
  PROVE  /\ 1 \in Pcs(body) => 1 \in Reach(body)
         /\ \A e \in Edges(body, partition_blocks(body)) : e.from \in Reach(body) => e.to \in Reach(body)
         /\ \A h \in Reach(body) : h \in Pcs(body) /\ Landing(body, h) \in Pcs(body) => Landing(body, h) \in Reach(body)
         /\ \A n \in Reach(body) : \A truthy \in BOOLEAN :
              n \in Pcs(body) /\ ~IsLabel(body[n]) /\ Follow(body, n, truthy) \in Pcs(body)
              => Follow(body, n, truthy) \in Reach(body)
<1> DEFINE edges == Edges(body, partition_blocks(body))
           block == partition_blocks(body)
<1>1. \A e \in edges : e.to \in Pcs(body) /\ e.from \in Pcs(body)
  BY EdgeForms
<1>2. ASSUME 1 \in Pcs(body)
      PROVE  1 \in Reach(body) /\ \A e \in edges : e.from \in Reach(body) => e.to \in Reach(body)
  <2> HIDE DEF edges
  <2> QED
    BY <1>1, <1>2, ReachableFacts DEF Reach, edges
<1>3. ASSUME 1 \notin Pcs(body) PROVE edges = {} /\ Pcs(body) = {}
  <2>1. Pcs(body) = {}
    BY <1>3 DEF Pcs
  <2> HIDE DEF edges
  <2> QED
    BY <1>1, <2>1
<1>4. \A e \in edges : e.from \in Reach(body) => e.to \in Reach(body)
  <2> HIDE DEF edges
  <2> QED
    BY <1>2, <1>3
<1>e. \A i, p, q, k : Edge(i, p, q, k).from = p /\ Edge(i, p, q, k).to = q
  BY DEF Edge
<1>5. ASSUME NEW h \in Reach(body), h \in Pcs(body), Landing(body, h) \in Pcs(body)
      PROVE  Landing(body, h) \in Reach(body)
  <2>1. CASE ~IsLabel(body[h])
    BY <1>5, <2>1, LandingFacts
  <2>2. CASE IsLabel(body[h])
    <3>1. Edge(5, h, Landing(body, h), "ctl") \in edges
      BY <1>5, <2>2, EdgesThere
    <3> HIDE DEF edges
    <3> QED
      BY <1>4, <1>5, <1>e, <3>1
  <2> QED
    BY <2>1, <2>2
<1>6. ASSUME NEW n \in Reach(body), NEW truthy \in BOOLEAN,
             n \in Pcs(body), ~IsLabel(body[n]), Follow(body, n, truthy) \in Pcs(body)
      PROVE  Follow(body, n, truthy) \in Reach(body)
  <2>1. CASE Inner(body, n)
    <3>1. ~IsTerminator(body[n]) /\ n + 1 \in Pcs(body) /\ ~IsLabel(body[n + 1])
      BY <1>6, <2>1, BlockFacts DEF Inner
    <3>2. Follow(body, n, truthy) = n + 1
      BY <3>1, FollowFacts, LandingFacts
    <3>3. Edge(1, n, n + 1, "seq") \in edges
      BY <1>6, <2>1, EdgesThere DEF Inner
    <3> HIDE DEF edges
    <3> QED
      BY <1>4, <1>6, <1>e, <3>2, <3>3
  <2>2. CASE Final(body, n)
    <3> DEFINE A == Ahead(body, n, truthy)
    <3>1. End(body) \notin Pcs(body)
      BY DEF End, Pcs
    <3>2. PICK t \in Pcs(body) : A = {t} /\ Landing(body, t) = Follow(body, n, truthy)
      BY <1>6, <2>2, <3>1, AheadFacts
    <3>3. \/ A = {Landing(body, n + 1)} \cap Pcs(body) /\ ~IsTerminator(body[n])
          \/ A \subseteq Taken(body, block, n) \cup NotTaken(body, block, n)
      <4> DEFINE T == Taken(body, block, n)
                 U == NotTaken(body, block, n)
      <4>1. \/ A = {} \/ A = T \/ A = U
            \/ A = {Landing(body, n + 1)} \cap Pcs(body) /\ ~IsTerminator(body[n])
        BY DEF Ahead, IsTerminator, Transfers, IsBranch
      <4> HIDE DEF A, T, U
      <4> QED
        BY <4>1 DEF T, U
    <3>4. t \in Reach(body)
      <4>1. CASE A \subseteq Taken(body, block, n) \cup NotTaken(body, block, n)
        <5>1. Edge(3, n, t, "ctl") \in edges
          BY <1>6, <3>2, <4>1, EdgesThere
        <5> HIDE DEF edges
        <5> QED
          BY <1>4, <1>6, <1>e, <5>1
      <4>2. CASE A = {Landing(body, n + 1)} \cap Pcs(body) /\ ~IsTerminator(body[n])
        <5>1. t = Landing(body, n + 1)
          BY <3>2, <4>2
        <5>2. n + 1 \in Starts(body)
          <6> SUFFICES ASSUME n + 1 \notin Pcs(body) PROVE FALSE
            BY <2>2 DEF Final
          <6>1. n + 1 = End(body)
            BY <1>6 DEF Pcs, End
          <6> QED
            BY <3>1, <3>2, <5>1, <6>1, LandingFacts
        <5>3. Edge(2, n, Landing(body, n + 1), "ctl") \in edges
          BY <1>6, <3>2, <4>2, <5>1, <5>2, EdgesThere
        <5> HIDE DEF edges
        <5> QED
          BY <1>4, <1>6, <1>e, <5>1, <5>3
      <4> QED
        BY <3>3, <4>1, <4>2
    <3> QED
      BY <1>5, <1>6, <3>2, <3>4
  <2>3. Inner(body, n) \/ Final(body, n)
    BY <1>6 DEF Inner, Final
  <2> QED
    BY <2>1, <2>2, <2>3
<1> QED
  BY <1>2, <1>4, <1>5, <1>6 DEF edges

(* Before anything has run.                                                *)
LEMMA MemoryStarts ==
  ASSUME NEW body, NEW known, Tidy(body, known)
  PROVE  Memory(body, known, {}, {}, Landing(body, 1))
<1> DEFINE pc == Landing(body, 1)
           block == partition_blocks(body)
<1>1. /\ Len(body) \in Nat /\ Aimed(body) /\ Labelled(body)
      /\ pc \in Pcs(body) => known[pc] = {}
  BY DEF Tidy, Written
<1>2. Pcs(body) = 1..Len(body)
  BY DEF Pcs
<1>3. ASSUME pc \in Pcs(body)
      PROVE  /\ pc \in Reach(body) /\ ~IsLabel(body[pc])
             /\ known[pc] \subseteq {}
             /\ \A q \in Pcs(body) : ~IsLabel(body[q]) /\ block[q] = block[pc] /\ q < pc => q \in {}
  <2>1. 1 \in Pcs(body)
    BY <1>1, <1>2, <1>3
  <2>2. 1 \in Starts(body)
    BY <2>1 DEF Starts
  <2>3. pc \in {1, 1 + 1} /\ ~IsLabel(body[pc]) /\ (pc = 1 + 1 => IsLabel(body[1]))
    BY <1>1, <1>3, <2>2, StartFacts
  <2>4. pc \in Reach(body)
    BY <1>1, <1>3, <2>1, ReachFacts
  <2>5. \A q \in Pcs(body) : q < pc => IsLabel(body[q])
    <3> SUFFICES ASSUME NEW q \in Pcs(body), q < pc PROVE IsLabel(body[q])
      OBVIOUS
    <3>1. pc = 2 /\ q = 1
      BY <1>2, <2>3
    <3> QED
      BY <2>3, <3>1
  <2> QED
    BY <1>1, <1>3, <2>3, <2>4, <2>5
<1> QED
  BY <1>3 DEF Memory

(* A label has run.                                                        *)
LEMMA MemoryLabels ==
  ASSUME NEW body, NEW known, Tidy(body, known), NEW ex, NEW rg, NEW pc,
         Memory(body, known, ex, rg, pc), NEW h \in Pcs(body), IsLabel(body[h])
  PROVE  Memory(body, known, ex \cup {h}, rg \cup WrittenReg(body[h]), pc)
<1>1. body[h].use = {}
  BY DEF Tidy, Labelled
<1> QED
  BY <1>1 DEF Memory

(* The instruction at pc has run.                                          *)
LEMMA MemoryRuns ==
  ASSUME NEW body, NEW known, Tidy(body, known), NEW ex, NEW rg, NEW pc \in Pcs(body),
         Memory(body, known, ex, rg, pc), NEW truthy \in BOOLEAN
  PROVE  Memory(body, known, ex \cup {pc}, rg \cup WrittenReg(body[pc]), Follow(body, pc, truthy))
<1> DEFINE block == partition_blocks(body)
           to == Follow(body, pc, truthy)
           ex2 == ex \cup {pc}
           rg2 == rg \cup WrittenReg(body[pc])
<1>1. Len(body) \in Nat /\ Aimed(body) /\ Labelled(body) /\ Written(body, known)
  BY DEF Tidy
<1>2. /\ ex \subseteq Pcs(body)
      /\ \A n \in ex : body[n].use \subseteq rg
      /\ \A n \in ex : \A q \in Pcs(body) :
           q \notin ex /\ ~IsLabel(body[n]) /\ ~IsLabel(body[q]) /\ block[n] = block[q]
           => pc \in Pcs(body) /\ block[pc] = block[n] /\ n < pc /\ pc <= q
      /\ pc \in Reach(body) /\ ~IsLabel(body[pc])
      /\ known[pc] \subseteq rg
      /\ \A q \in Pcs(body) : ~IsLabel(body[q]) /\ block[q] = block[pc] /\ q < pc => q \in ex
      /\ ~Looped(body, pc) => \A q \in ex : ~IsLabel(body[q]) => q < pc
  BY DEF Memory
<1>3. /\ body[pc].use \subseteq known[pc]
      /\ to \in Pcs(body) => known[to] \subseteq known[pc] \cup WrittenReg(body[pc])
  BY <1>1, <1>2 DEF Written
<1>4. Pcs(body) = 1..Len(body) /\ pc \in Int
  BY DEF Pcs
<1> HIDE DEF ex2, rg2, to
<1>5. ex2 \subseteq Pcs(body) /\ \A n \in ex2 : body[n].use \subseteq rg2
  BY <1>2, <1>3 DEF ex2, rg2
<1>6. CASE Inner(body, pc)
  <2>1. /\ ~IsTerminator(body[pc]) /\ pc + 1 \in Pcs(body) /\ ~IsLabel(body[pc + 1])
        /\ block[pc + 1] = block[pc]
    BY <1>1, <1>6, BlockFacts DEF Inner
  <2>2. to = pc + 1
    BY <1>1, <2>1, FollowFacts, LandingFacts DEF to
  <2>3. to \in Reach(body)
    BY <1>1, <1>2, <2>1, <2>2, ReachFacts DEF to
  <2>4. known[to] \subseteq rg2
    BY <1>2, <1>3, <2>1, <2>2 DEF rg2
  <2>5. ASSUME NEW q \in Pcs(body), ~IsLabel(body[q]), block[q] = block[to], q < to PROVE q \in ex2
    <3>1. q < pc \/ q = pc
      BY <1>4, <2>2, <2>5
    <3> QED
      BY <1>2, <2>1, <2>2, <2>5, <3>1 DEF ex2
  <2>6. ASSUME ~Looped(body, to), NEW q \in ex2, ~IsLabel(body[q]) PROVE q < to
    <3>1. ~Looped(body, pc)
      BY <2>1, <2>2, <2>6 DEF Looped
    <3>2. q \in Int /\ q <= pc
      BY <1>2, <1>4, <2>6, <3>1 DEF ex2
    <3> QED
      BY <1>4, <2>2, <3>2
  <2>7. ASSUME NEW n \in ex2, NEW q \in Pcs(body),
               q \notin ex2, ~IsLabel(body[n]), ~IsLabel(body[q]), block[n] = block[q]
        PROVE  to \in Pcs(body) /\ block[to] = block[n] /\ n < to /\ to <= q
    <3>1. q \notin ex /\ q # pc
      BY <2>7 DEF ex2
    <3>2. block[pc] = block[n] /\ n <= pc /\ n \in Int
      <4>1. CASE n = pc
        BY <1>4, <4>1
      <4>2. CASE n \in ex
        BY <1>2, <1>4, <2>7, <3>1, <4>2
      <4> QED
        BY <4>1, <4>2 DEF ex2
    <3>3. pc < q
      <4> SUFFICES ASSUME q < pc PROVE FALSE
        BY <1>4, <3>1
      <4> QED
        BY <1>2, <2>7, <3>1, <3>2
    <3> QED
      BY <1>4, <2>1, <2>2, <3>2, <3>3
  <2> QED
    BY <1>5, <2>1, <2>2, <2>3, <2>4, <2>5, <2>6, <2>7 DEF Memory, ex2, rg2, to
<1>7. CASE Final(body, pc)
  <2>1. ASSUME NEW n \in ex2, NEW q \in Pcs(body),
               q \notin ex2, ~IsLabel(body[n]), ~IsLabel(body[q]), block[n] = block[q]
        PROVE  FALSE
    <3>1. q \notin ex /\ q # pc
      BY <2>1 DEF ex2
    <3>2. block[pc] = block[q]
      <4>1. CASE n = pc
        BY <2>1, <4>1
      <4>2. CASE n \in ex
        BY <1>2, <2>1, <3>1, <4>2
      <4> QED
        BY <4>1, <4>2 DEF ex2
    <3>3. pc < q
      <4> SUFFICES ASSUME q < pc PROVE FALSE
        BY <1>4, <3>1
      <4> QED
        BY <1>2, <2>1, <3>1, <3>2
    <3>4. pc + 1 \in pc..q /\ pc + 1 \in Pcs(body) /\ pc < pc + 1
      BY <1>4, <3>3
    <3>5. block[pc + 1] = block[pc]
      BY <1>1, <3>2, <3>4, BlockFacts
    <3>6. pc + 1 \notin Starts(body)
      BY <1>1, <3>4, <3>5, BlockFacts
    <3> QED
      BY <1>7, <3>4, <3>6 DEF Final
  <2>2. ASSUME to \in Pcs(body)
        PROVE  /\ to \in Reach(body) /\ ~IsLabel(body[to])
               /\ known[to] \subseteq rg2
               /\ \A q \in Pcs(body) : ~IsLabel(body[q]) /\ block[q] = block[to] /\ q < to => q \in ex2
               /\ ~Looped(body, to) => \A q \in ex2 : ~IsLabel(body[q]) => q < to
    <3>1. to \in Reach(body) /\ known[to] \subseteq rg2
      BY <1>1, <1>2, <1>3, <2>2, ReachFacts DEF to, rg2
    <3>2. \E t \in Starts(body) : to = Landing(body, t) /\ (t = pc + 1 \/ (Transfers(body[pc]) /\ t = body[pc].to))
      <4>0. End(body) \notin Pcs(body)
        BY DEF End, Pcs
      <4>1. \E t : to = Landing(body, t) /\ (t = pc + 1 \/ (Transfers(body[pc]) /\ t = body[pc].to))
        <5>1. to # End(body)
          BY <2>2, <4>0
        <5>2. \/ ~IsTerminator(body[pc]) \/ body[pc].op = "return" \/ body[pc].op \in {"jump", "break", "continue"}
              \/ body[pc].op = "jumpif" \/ body[pc].op = "jumpifnot"
          BY DEF IsTerminator, Transfers, IsBranch
        <5>3. body[pc].op \in {"jump", "break", "continue", "jumpif", "jumpifnot"} => Transfers(body[pc])
          BY DEF Transfers, IsBranch
        <5>4. /\ ~IsTerminator(body[pc]) => to = Landing(body, pc + 1)
              /\ body[pc].op = "return" => to = End(body)
              /\ body[pc].op \in {"jump", "break", "continue"} => to = Landing(body, body[pc].to)
              /\ body[pc].op = "jumpif" => to = Landing(body, IF truthy THEN body[pc].to ELSE pc + 1)
              /\ body[pc].op = "jumpifnot" => to = Landing(body, IF truthy THEN pc + 1 ELSE body[pc].to)
          BY FollowFacts DEF to
        <5>5. CASE truthy
          BY <5>1, <5>2, <5>3, <5>4, <5>5
        <5>6. CASE ~truthy
          BY <5>1, <5>2, <5>3, <5>4, <5>6
        <5> QED
          BY <5>5, <5>6
      <4>2. PICK t : to = Landing(body, t) /\ (t = pc + 1 \/ (Transfers(body[pc]) /\ t = body[pc].to))
        BY <4>1
      <4>3. t # End(body)
        BY <1>1, <2>2, <4>0, <4>2, LandingFacts
      <4>4. CASE t = pc + 1
        <5>1. pc + 1 \in Pcs(body)
          BY <1>4, <4>3, <4>4 DEF End
        <5> QED
          BY <1>7, <4>2, <4>4, <5>1 DEF Final
      <4>5. CASE Transfers(body[pc]) /\ t = body[pc].to
        BY <1>1, <4>2, <4>3, <4>5 DEF Aimed
      <4> QED
        BY <4>2, <4>4, <4>5
    <3>3. PICK t \in Starts(body) : to = Landing(body, t) /\ (t = pc + 1 \/ (Transfers(body[pc]) /\ t = body[pc].to))
      BY <3>2
    <3>4. to \in {t, t + 1} /\ ~IsLabel(body[to]) /\ block[to] = t /\ (to = t + 1 => IsLabel(body[t]))
      BY <1>1, <2>2, <3>3, StartFacts
    <3>5. t \in Pcs(body) /\ t \in Int
      BY <1>1, <1>4, Blocks
    <3>6. ASSUME NEW q \in Pcs(body), ~IsLabel(body[q]), block[q] = block[to], q < to PROVE FALSE
      <4>1. t <= q
        BY <1>1, <3>4, <3>6, Blocks
      <4>2. q = t /\ to = t + 1
        BY <1>4, <3>4, <3>5, <3>6, <4>1
      <4> QED
        BY <3>4, <3>6, <4>2
    <3>7. ASSUME ~Looped(body, to), NEW q \in ex2, ~IsLabel(body[q]) PROVE q < to
      <4>1. t > pc
        <5> SUFFICES ASSUME t <= pc PROVE FALSE
          BY <1>4, <3>5
        <5>1. Transfers(body[pc]) /\ t = body[pc].to
          BY <1>4, <3>3
        <5>2. \E h \in LoopHeads(body, block) : h <= t
          BY <1>1, <5>1 DEF Aimed
        <5> QED
          BY <3>4, <3>7, <5>2 DEF Looped
      <4>2. block[pc] <= block[to]
        <5>1. pc <= to
          BY <1>4, <3>4, <3>5, <4>1
        <5> QED
          BY <1>1, <2>2, <5>1, BlockFacts
      <4>3. ~Looped(body, pc)
        <5> SUFFICES ASSUME NEW h \in LoopHeads(body, block), h <= block[pc] PROVE FALSE
          BY DEF Looped
        <5>1. h \in Int
          <6>1. h \in Range(block)
            BY DEF LoopHeads
          <6>2. h \in Pcs(body)
            BY <1>1, <6>1, Blocks DEF Range
          <6> QED
            BY <1>4, <6>2
        <5>2. block[pc] \in Int /\ block[to] \in Int
          BY <1>1, <1>4, <2>2, Blocks
        <5>3. h <= block[to]
          BY <4>2, <5>1, <5>2
        <5> QED
          BY <3>7, <5>3 DEF Looped
      <4>4. q <= pc /\ q \in Int
        BY <1>2, <1>4, <3>7, <4>3 DEF ex2
      <4> QED
        BY <1>4, <3>4, <3>5, <4>1, <4>4
    <3> QED
      BY <3>1, <3>4, <3>6, <3>7
  <2> QED
    BY <1>5, <2>1, <2>2 DEF Memory, ex2, rg2, to
<1> QED
  BY <1>2, <1>6, <1>7 DEF Inner, Final

(* node_ready, in terms of what has run and been written.                  *)
ReadyAt(body, ex, rg, n) == body[n].use \subseteq rg /\ SeqPreds(dag_analyze(body), n) \subseteq ex

(* What has to run before a node.                                          *)
LEMMA PredFacts ==
  ASSUME NEW body, Len(body) \in Nat, Aimed(body), Labelled(body),
         NEW block, block = partition_blocks(body), NEW n
  PROVE  /\ \A p \in SeqPreds(dag_analyze(body), n) :
              /\ p \in Pcs(body) /\ ~IsLabel(body[p]) /\ block[p] = block[n] /\ p < n
              /\ n \in Pcs(body) /\ ~IsLabel(body[n])
         /\ \A p \in Reach(body) : p \in Pcs(body) /\ Inner(body, p) /\ n = p + 1
              => p \in SeqPreds(dag_analyze(body), n)
<1> DEFINE dag == dag_analyze(body)
           edges == Edges(body, block)
<1>1. dag.edges = edges /\ dag.reachable = Reach(body)
  BY DEF dag_analyze, Reach
<1> HIDE DEF dag
<1>2. \A p : p \in SeqPreds(dag, n) <=>
               \E e \in edges : e.to = n /\ e.kind = "seq" /\ e.from \in Reach(body) /\ e.from = p
  BY <1>1 DEF SeqPreds
<1>3. ASSUME NEW p \in SeqPreds(dag, n)
      PROVE  /\ p \in Pcs(body) /\ ~IsLabel(body[p]) /\ block[p] = block[n] /\ p < n
             /\ n \in Pcs(body) /\ ~IsLabel(body[n])
  <2>1. PICK e \in edges : e.to = n /\ e.kind = "seq" /\ e.from = p
    BY <1>2
  <2>2. e.from \in Pcs(body) /\ e.to \in Pcs(body) /\ Chained(body, block, e)
    BY <2>1, NodeEdges
  <2>3. p \in Pcs(body) /\ n \in Pcs(body) /\ ~IsLabel(body[p]) /\ block[p] = block[n] /\ p < n
    BY <2>1, <2>2 DEF Chained
  <2> QED
    BY <2>3, BlockFacts
<1>4. ASSUME NEW p \in Reach(body), p \in Pcs(body), Inner(body, p), n = p + 1
      PROVE  p \in SeqPreds(dag, n)
  <2>1. Edge(1, p, p + 1, "seq") \in edges
    BY <1>4, EdgesThere DEF Inner
  <2>2. LET e == Edge(1, p, p + 1, "seq") IN e.from = p /\ e.to = p + 1 /\ e.kind = "seq"
    BY DEF Edge
  <2> HIDE DEF edges
  <2> QED
    BY <1>2, <1>4, <2>1, <2>2
<1> QED
  BY <1>3, <1>4 DEF dag

(* The places of a block from an instruction on are inner nodes up to the  *)
(* last.                                                                   *)
LEMMA InnerPlaces ==
  ASSUME NEW body, Len(body) \in Nat, NEW block, block = partition_blocks(body),
         NEW p \in Pcs(body), NEW q \in Pcs(body), p <= q, block[p] = block[q], ~IsLabel(body[p])
  PROVE  /\ \A y \in p..q : y \in Pcs(body) /\ ~IsLabel(body[y]) /\ block[y] = block[p]
         /\ \A y \in p..(q - 1) : Inner(body, y) /\ ~IsTerminator(body[y])
<1>1. Pcs(body) = 1..Len(body)
  BY DEF Pcs
<1>2. ASSUME NEW y \in p..q PROVE y \in Pcs(body) /\ ~IsLabel(body[y]) /\ block[y] = block[p]
  <2>1. y \in Pcs(body) /\ block[y] = block[p]
    BY BlockFacts
  <2>2. y = p \/ p < y
    BY <1>1
  <2> QED
    BY <2>1, <2>2, BlockFacts
<1>3. ASSUME NEW y \in p..(q - 1) PROVE Inner(body, y) /\ ~IsTerminator(body[y])
  <2>1. y \in p..q /\ y + 1 \in p..q /\ y < y + 1
    BY <1>1
  <2>2. /\ y \in Pcs(body) /\ y + 1 \in Pcs(body) /\ block[y] = block[y + 1] /\ ~IsLabel(body[y])
    BY <1>2, <2>1
  <2> QED
    BY <2>1, <2>2, BlockFacts DEF Inner
<1> QED
  BY <1>2, <1>3

(* Behind a reachable instruction its whole block is reachable.            *)
LEMMA BlockReach ==
  ASSUME NEW body, Len(body) \in Nat, Aimed(body), Labelled(body),
         NEW block, block = partition_blocks(body),
         NEW p \in Pcs(body), p \in Reach(body), ~IsLabel(body[p]),
         NEW q \in Pcs(body), p <= q, block[p] = block[q]
  PROVE  q \in Reach(body)
<1> DEFINE D == {y \in p..q : y \notin Reach(body)}
<1> SUFFICES ASSUME q \notin Reach(body) PROVE FALSE
  OBVIOUS
<1>1. D \in SUBSET (1..Len(body)) /\ q \in D /\ Len(body) \in Int
  BY DEF Pcs
<1>2. D \in SUBSET Int /\ IsFiniteSet(D)
  <2> HIDE DEF D
  <2> QED
    BY <1>1, PlacesFinite
<1>3. PICK y \in D : \A o \in D : y <= o
  <2> HIDE DEF D
  <2> QED
    BY <1>1, <1>2, FirstAndLast
<1>4. y \in p..q /\ y \notin Reach(body) /\ p \in Int /\ q \in Int
  BY DEF Pcs
<1>5. y # p
  BY <1>4
<1>6. y - 1 \in p..(q - 1) /\ y - 1 \in p..q /\ ~(y <= y - 1) /\ (y - 1) + 1 = y
  BY <1>4, <1>5
<1>7. y - 1 \in Reach(body)
  BY <1>3, <1>6
<1>8. Inner(body, y - 1) /\ y - 1 \in Pcs(body)
  BY <1>6, InnerPlaces
<1> DEFINE e == Edge(1, y - 1, (y - 1) + 1, "seq")
<1>9. e \in Edges(body, block)
  BY <1>8, EdgesThere DEF Inner
<1>10. e.from = y - 1 /\ e.to = (y - 1) + 1
  BY DEF Edge
<1> HIDE DEF e, D
<1>11. e.to \in Reach(body)
  BY <1>7, <1>9, <1>10, ReachFacts
<1> QED
  BY <1>4, <1>6, <1>10, <1>11

(* What is ready and what is not.                                          *)
LEMMA ReadyFacts ==
  ASSUME NEW body, NEW known, Tidy(body, known), NEW block, block = partition_blocks(body),
         NEW ex, NEW rg, NEW pc, Memory(body, known, ex, rg, pc)
  PROVE  /\ \A h \in Pcs(body) : IsLabel(body[h]) => ReadyAt(body, ex, rg, h)
         /\ pc \in Pcs(body) => ReadyAt(body, ex, rg, pc)
         /\ pc \in Pcs(body) /\ pc \notin ex =>
              \A x \in Pcs(body) : block[x] = block[pc] /\ pc < x => ~ReadyAt(body, ex, rg, x)
         /\ pc \in Pcs(body) /\ pc \in ex =>
              /\ Looped(body, pc)
              /\ \A x \in Pcs(body) : block[x] = block[pc] /\ pc <= x => ReadyAt(body, ex, rg, x)
<1> DEFINE preds(n) == SeqPreds(dag_analyze(body), n)
<1>1. Len(body) \in Nat /\ Aimed(body) /\ Labelled(body) /\ Written(body, known)
  BY DEF Tidy
<1>2. Pcs(body) = 1..Len(body)
  BY DEF Pcs
<1>3. /\ ex \subseteq Pcs(body)
      /\ \A n \in ex : body[n].use \subseteq rg
      /\ \A n \in ex : \A q \in Pcs(body) :
           q \notin ex /\ ~IsLabel(body[n]) /\ ~IsLabel(body[q]) /\ block[n] = block[q]
           => pc \in Pcs(body) /\ block[pc] = block[n] /\ n < pc /\ pc <= q
      /\ pc \in Pcs(body) =>
           /\ pc \in Reach(body) /\ ~IsLabel(body[pc])
           /\ known[pc] \subseteq rg
           /\ \A q \in Pcs(body) : ~IsLabel(body[q]) /\ block[q] = block[pc] /\ q < pc => q \in ex
           /\ ~Looped(body, pc) => \A q \in ex : ~IsLabel(body[q]) => q < pc
  BY DEF Memory
<1>4. \A n : \A p \in preds(n) :
        /\ p \in Pcs(body) /\ ~IsLabel(body[p]) /\ block[p] = block[n] /\ p < n
        /\ n \in Pcs(body) /\ ~IsLabel(body[n])
  BY <1>1, PredFacts
<1>5. \A n : ReadyAt(body, ex, rg, n) <=> body[n].use \subseteq rg /\ preds(n) \subseteq ex
  BY DEF ReadyAt
<1>6. \A p \in Reach(body) : p \in Pcs(body) /\ Inner(body, p) => p \in preds(p + 1)
  BY <1>1, PredFacts
<1> HIDE DEF preds
<1>7. ASSUME NEW h \in Pcs(body), IsLabel(body[h]) PROVE ReadyAt(body, ex, rg, h)
  BY <1>1, <1>4, <1>5, <1>7 DEF Labelled
<1>8. ASSUME pc \in Pcs(body) PROVE ReadyAt(body, ex, rg, pc)
  <2>1. body[pc].use \subseteq rg
    BY <1>1, <1>3, <1>8 DEF Written
  <2> QED
    BY <1>3, <1>4, <1>5, <1>8, <2>1
<1>9. ASSUME pc \in Pcs(body), pc \notin ex, NEW x \in Pcs(body), block[x] = block[pc], pc < x
      PROVE  ~ReadyAt(body, ex, rg, x)
  <2>1. pc <= x /\ x - 1 \in pc..(x - 1) /\ x - 1 \in pc..x /\ (x - 1) + 1 = x /\ pc <= x - 1
    BY <1>2, <1>9
  <2>2. Inner(body, x - 1) /\ x - 1 \in Pcs(body) /\ ~IsLabel(body[x - 1]) /\ block[x - 1] = block[pc]
    BY <1>1, <1>3, <1>9, <2>1, InnerPlaces
  <2>3. x - 1 \in Reach(body)
    BY <1>1, <1>3, <1>9, <2>1, <2>2, BlockReach
  <2>4. x - 1 \in preds(x)
    BY <1>6, <2>1, <2>2, <2>3
  <2>5. x - 1 \notin ex
    <3> SUFFICES ASSUME x - 1 \in ex PROVE FALSE
      OBVIOUS
    <3>1. x - 1 < pc
      BY <1>3, <1>9, <2>2
    <3> QED
      BY <1>2, <1>9, <2>1, <3>1
  <2> QED
    BY <1>5, <2>4, <2>5
<1>10. ASSUME pc \in Pcs(body), pc \in ex PROVE Looped(body, pc)
  BY <1>2, <1>3, <1>10
<1>11. ASSUME pc \in Pcs(body), pc \in ex, NEW x \in Pcs(body), block[x] = block[pc], pc <= x
       PROVE  ReadyAt(body, ex, rg, x)
  <2>1. \A q \in Pcs(body) : ~IsLabel(body[q]) /\ block[q] = block[pc] => q \in ex
    <3> SUFFICES ASSUME NEW q \in Pcs(body), ~IsLabel(body[q]), block[q] = block[pc], q \notin ex PROVE FALSE
      OBVIOUS
    <3>1. pc < pc
      BY <1>3, <1>11
    <3> QED
      BY <1>2, <1>11, <3>1
  <2>2. ~IsLabel(body[x])
    <3>1. x \in pc..x
      BY <1>2, <1>11
    <3> QED
      BY <1>1, <1>3, <1>11, <3>1, InnerPlaces
  <2>3. x \in ex
    BY <1>11, <2>1, <2>2
  <2> QED
    BY <1>3, <1>4, <1>5, <1>11, <2>1, <2>3
<1> QED
  BY <1>7, <1>8, <1>9, <1>10, <1>11

-----------------------------------------------------------------------------
(* Waves                                                                   *)

(* The places from s to m in order.                                        *)
RunOf(s, m) == [k \in 1..(m - s + 1) |-> s + k - 1]

(* They are all that is between, and a list of them that rises is this one. *)
LEMMA RunFacts ==
  ASSUME NEW s \in Int, NEW m \in Int, s <= m
  PROVE  /\ RunOf(s, m) \in Seq(s..m) /\ Len(RunOf(s, m)) = m - s + 1
         /\ \A x : (\E k \in DOMAIN RunOf(s, m) : RunOf(s, m)[k] = x) <=> x \in s..m
         /\ \A r \in Seq(Int) :
              /\ \A j, k \in DOMAIN r : j < k => r[j] < r[k]
              /\ \A x : (\E k \in DOMAIN r : r[k] = x) <=> x \in s..m
              => r = RunOf(s, m)
<1> DEFINE f == RunOf(s, m)
           n == m - s + 1
<1>1. n \in Nat
  OBVIOUS
<1>2. f = [k \in 1..n |-> s + k - 1]
  BY DEF RunOf
<1> HIDE DEF n, f
<1>3. \A k \in 1..n : f[k] = s + k - 1
  BY <1>2
<1>4. \A k \in 1..n : f[k] \in s..m
  BY <1>1, <1>3 DEF n
<1>5. f \in Seq(s..m) /\ Len(f) = n /\ DOMAIN f = 1..n
  BY <1>1, <1>2, <1>4
<1>6. \A x : x \in s..m => \E k \in 1..n : f[k] = x
  <2> SUFFICES ASSUME NEW x \in s..m PROVE \E k \in 1..n : f[k] = x
    OBVIOUS
  <2>1. x - s + 1 \in 1..n /\ s + (x - s + 1) - 1 = x
    BY DEF n
  <2> QED
    BY <1>3, <2>1
<1>7. ASSUME NEW r \in Seq(Int), \A j, k \in DOMAIN r : j < k => r[j] < r[k],
             \A x : (\E k \in DOMAIN r : r[k] = x) <=> x \in s..m
      PROVE  r = f
  <2> DEFINE l == Len(r)
             S == s..m
  <2>1. l \in Nat /\ r \in [1..l -> Int] /\ DOMAIN r = 1..l
    OBVIOUS
  <2> HIDE DEF l
  <2>2. S = {r[k] : k \in 1..l}
    BY <1>7, <2>1
  <2>3. S = {f[k] : k \in 1..n}
    BY <1>4, <1>6
  <2>4. f \in [1..n -> Int] /\ \A j, k \in 1..n : j < k => f[j] < f[k]
    <3>1. \A k \in 1..n : f[k] \in Int
      BY <1>4
    <3>2. \A j, k \in 1..n : j < k => f[j] < f[k]
      BY <1>1, <1>3
    <3> QED
      BY <1>5, <3>1, <3>2
  <2> HIDE DEF S
  <2>5. Ascending(S) = r
    BY <1>7, <2>1, <2>2, AscendingUnique
  <2>6. Ascending(S) = f
    BY <1>1, <2>3, <2>4, AscendingUnique
  <2> QED
    BY <2>5, <2>6
<1>8. \A x : (\E k \in DOMAIN f : f[k] = x) <=> x \in s..m
  BY <1>4, <1>5, <1>6
<1> QED
  BY <1>5, <1>7, <1>8 DEF f, n

(* The nodes from s to m are a wave that an executor with these active     *)
(* nodes runs.                                                             *)
Waves(body, a, s, m) ==
  /\ Spread(body, a, s) /\ m \in Pcs(body) /\ s <= m /\ \E k \in DOMAIN a : a[k] = m
  /\ m = s \/ \A k \in DOMAIN a : a[k] \in s..m

-----------------------------------------------------------------------------
(* Waves                                                                   *)

(* What a list that follows control has.                                   *)
LEMMA SpreadFacts ==
  ASSUME NEW body, Len(body) \in Nat, NEW a, NEW s, Spread(body, a, s)
  PROVE  /\ a \in Seq(Pcs(body)) /\ a \in Seq(Int) /\ Len(a) \in Nat /\ DOMAIN a = 1..Len(a) /\ 1 \in DOMAIN a
         /\ s \in Pcs(body) /\ s \in Int /\ a[1] = s
         /\ \A k \in DOMAIN a : a[k] \in Pcs(body) /\ a[k] \in Int /\ s <= a[k]
<1>1. /\ a \in Seq(Pcs(body)) /\ Len(a) >= 1 /\ a[1] = s /\ s \in Pcs(body)
      /\ \A j, k \in DOMAIN a : j < k => a[j] < a[k]
  BY DEF Spread
<1>2. Pcs(body) \subseteq Int
  BY DEF Pcs
<1>3. /\ a \in Seq(Int) /\ Len(a) \in Nat /\ DOMAIN a = 1..Len(a) /\ 1 \in DOMAIN a
      /\ \A k \in DOMAIN a : a[k] \in Pcs(body)
  BY <1>1, <1>2
<1>4. \A k \in DOMAIN a : s <= a[k]
  <2> SUFFICES ASSUME NEW k \in DOMAIN a PROVE s <= a[k]
    OBVIOUS
  <2>1. k = 1 \/ 1 < k
    BY <1>3
  <2> QED
    BY <1>1, <1>2, <1>3, <2>1
<1> QED
  BY <1>1, <1>2, <1>3, <1>4

(* The nodes of a wave are of one block and none but the last ends it.     *)
LEMMA WaveFacts ==
  ASSUME NEW body, Len(body) \in Nat, NEW block, block = partition_blocks(body),
         NEW a, NEW s, NEW m, Waves(body, a, s, m)
  PROVE  /\ s \in Pcs(body) /\ m \in Pcs(body) /\ s \in Int /\ m \in Int /\ s <= m /\ block[m] = block[s]
         /\ \A y \in s..m : y \in Pcs(body) /\ ~IsLabel(body[y]) /\ block[y] = block[s]
         /\ \A y \in s..(m - 1) : Inner(body, y) /\ ~IsTerminator(body[y]) /\ ~IsEffect(body[y])
         /\ Stretch(body, s, m)
<1>1. /\ Spread(body, a, s) /\ m \in Pcs(body) /\ s <= m
      /\ m = s \/ \A k \in DOMAIN a : a[k] \in s..m
  BY DEF Waves
<1>2. PICK k \in DOMAIN a : a[k] = m
  BY DEF Waves
<1>3. /\ Len(a) \in Nat /\ DOMAIN a = 1..Len(a) /\ 1 \in DOMAIN a
      /\ s \in Pcs(body) /\ s \in Int /\ a[1] = s /\ m \in Int
  BY <1>1, <1>2, SpreadFacts
<1>4. /\ ~IsLabel(body[s]) /\ block[m] = block[s] /\ \A y \in s..(m - 1) : ~IsEffect(body[y])
      /\ Len(a) > 1 => s - 1 \in Pcs(body) /\ block[s - 1] = block[s] /\ ~IsLabel(body[s - 1])
  BY <1>1, <1>2 DEF Spread
<1>5. s # m => Len(a) > 1
  BY <1>2, <1>3
<1>6. Stretch(body, s, m)
  BY <1>1, <1>3, <1>4, <1>5 DEF Stretch
<1> QED
  BY <1>1, <1>3, <1>4, <1>6, InnerPlaces

(* S has the active nodes that are ready.                                  *)
Wakes(body, a, ex, rg, S) == \A x : x \in S <=> x \in Range(a) /\ ReadyAt(body, ex, rg, x)

(* They are the instructions from pc to some later one.                    *)
WavesFrom(body, a, S, pc) ==
  \E m : /\ Waves(body, a, pc, m)
         /\ Picked(a, S) = RunOf(pc, m)
         /\ Range(Picked(a, S)) = pc..m

(* The nodes of the next wave.                                             *)
LEMMA NowFacts ==
  ASSUME NEW body, NEW known, Tidy(body, known),
         NEW ex, NEW rg, NEW pc, Memory(body, known, ex, rg, pc), NEW a, Spread(body, a, pc),
         NEW S, Wakes(body, a, ex, rg, S)
  PROVE  WavesFrom(body, a, S, pc)
<1> DEFINE block == partition_blocks(body)
           now == Picked(a, S)
<1>1. Len(body) \in Nat
  BY DEF Tidy
<1>2. /\ a \in Seq(Int) /\ Len(a) \in Nat /\ DOMAIN a = 1..Len(a) /\ 1 \in DOMAIN a
      /\ pc \in Pcs(body) /\ pc \in Int /\ a[1] = pc
      /\ \A k \in DOMAIN a : a[k] \in Pcs(body) /\ a[k] \in Int /\ pc <= a[k]
  BY <1>1, SpreadFacts
<1>3. /\ \A j, k \in DOMAIN a : j < k => a[j] < a[k]
      /\ \A k \in DOMAIN a : block[a[k]] = block[pc]
      /\ Looped(body, pc) => \A k \in DOMAIN a : \A y \in pc..a[k] : \E j \in DOMAIN a : a[j] = y
  BY DEF Spread
<1>4. /\ now \in Seq(Int)
      /\ \A x : (\E j \in DOMAIN now : now[j] = x) <=> (x \in S /\ \E k \in DOMAIN a : a[k] = x)
      /\ \A i, j \in DOMAIN now : i < j => \E k, l \in DOMAIN a : k < l /\ now[i] = a[k] /\ now[j] = a[l]
  <2>1. a \in Seq(Int)
    BY <1>2
  <2> QED
    BY <2>1, PickedFacts
<1>5. \A x : x \in S <=> (\E k \in DOMAIN a : a[k] = x) /\ ReadyAt(body, ex, rg, x)
  BY DEF Wakes, Range
<1> HIDE DEF now
<1>6. \A i, j \in DOMAIN now : i < j => now[i] < now[j]
  BY <1>3, <1>4
<1>7. ASSUME NEW m \in Int, pc <= m, \A x : (x \in S /\ \E k \in DOMAIN a : a[k] = x) <=> x \in pc..m
      PROVE  now = RunOf(pc, m) /\ Range(now) = pc..m
  <2>1. \A x : (\E j \in DOMAIN now : now[j] = x) <=> x \in pc..m
    BY <1>4, <1>7
  <2>2. now = RunOf(pc, m)
    BY <1>2, <1>4, <1>6, <1>7, <2>1, RunFacts
  <2> QED
    BY <2>1, <2>2 DEF Range
<1>8. CASE pc \notin ex
  <2>1. ReadyAt(body, ex, rg, pc)
    BY <1>2, ReadyFacts
  <2>2. \A x \in Pcs(body) : block[x] = block[pc] /\ pc < x => ~ReadyAt(body, ex, rg, x)
    BY <1>2, <1>8, ReadyFacts
  <2>3. ASSUME NEW x PROVE (x \in S /\ \E k \in DOMAIN a : a[k] = x) <=> x \in pc..pc
    <3>1. x \in pc..pc <=> x = pc
      BY <1>2
    <3>2. ASSUME x \in S, NEW k \in DOMAIN a, a[k] = x PROVE x = pc
      <4>1. x \in Pcs(body) /\ pc <= x /\ x \in Int /\ block[x] = block[pc] /\ ReadyAt(body, ex, rg, x)
        BY <1>2, <1>3, <1>5, <3>2
      <4> QED
        BY <1>2, <2>2, <4>1
    <3>3. pc \in S /\ \E k \in DOMAIN a : a[k] = pc
      BY <1>2, <1>5, <2>1
    <3> QED
      BY <3>1, <3>2, <3>3
  <2>4. pc <= pc
    BY <1>2
  <2>5. now = RunOf(pc, pc) /\ Range(now) = pc..pc
    BY <1>2, <1>7, <2>3, <2>4
  <2>6. Waves(body, a, pc, pc)
    BY <1>2, <2>4 DEF Waves
  <2> QED
    BY <2>5, <2>6 DEF now, WavesFrom
<1>9. CASE pc \in ex
  <2> DEFINE m == a[Len(a)]
  <2>1. Looped(body, pc)
    BY <1>2, <1>9, ReadyFacts
  <2>2. \A x \in Pcs(body) : block[x] = block[pc] /\ pc <= x => ReadyAt(body, ex, rg, x)
    BY <1>2, <1>9, ReadyFacts
  <2>3. Len(a) \in DOMAIN a /\ m \in Pcs(body) /\ m \in Int /\ pc <= m
    BY <1>2
  <2>4. \A k \in DOMAIN a : a[k] \in pc..m
    <3> SUFFICES ASSUME NEW k \in DOMAIN a PROVE a[k] \in pc..m
      OBVIOUS
    <3>1. k = Len(a) \/ k < Len(a)
      BY <1>2
    <3>2. a[k] <= m
      BY <1>2, <1>3, <2>3, <3>1
    <3> QED
      BY <1>2, <2>3, <3>2
  <2>5. ASSUME NEW x PROVE (x \in S /\ \E k \in DOMAIN a : a[k] = x) <=> x \in pc..m
    <3>1. ASSUME NEW k \in DOMAIN a, a[k] = x PROVE x \in S
      BY <1>2, <1>3, <1>5, <2>2, <3>1
    <3>2. ASSUME x \in pc..m PROVE \E k \in DOMAIN a : a[k] = x
      BY <1>3, <2>1, <2>3, <3>2
    <3> QED
      BY <2>4, <3>1, <3>2
  <2>6. Waves(body, a, pc, m)
    BY <2>3, <2>4 DEF Waves
  <2> HIDE DEF m
  <2>7. now = RunOf(pc, m) /\ Range(now) = pc..m
    BY <1>7, <2>3, <2>5
  <2> QED
    BY <2>6, <2>7 DEF now, WavesFrom
<1> QED
  BY <1>8, <1>9

(* How the concatenation u of r and t is made up, in words of its elements. *)
Joins(u, r, t) ==
  /\ \A x : (\E k \in DOMAIN u : u[k] = x)
              <=> (\E k \in DOMAIN r : r[k] = x) \/ (\E k \in DOMAIN t : t[k] = x)
  /\ \A k, l \in DOMAIN u : k < l =>
       \/ \E i, j \in DOMAIN r : i < j /\ u[k] = r[i] /\ u[l] = r[j]
       \/ \E i, j \in DOMAIN t : i < j /\ u[k] = t[i] /\ u[l] = t[j]
       \/ \E i \in DOMAIN r, j \in DOMAIN t : u[k] = r[i] /\ u[l] = t[j]

(* What the concatenation of two sequences has, and in what order.         *)
LEMMA JoinFacts ==
  ASSUME NEW T, NEW r \in Seq(T), NEW t \in Seq(T)
  PROVE  r \o t \in Seq(T) /\ Joins(r \o t, r, t)
<1> DEFINE u == r \o t
<1>1. /\ Len(r) \in Nat /\ DOMAIN r = 1..Len(r) /\ Len(t) \in Nat /\ DOMAIN t = 1..Len(t)
      /\ u \in Seq(T) /\ Len(u) = Len(r) + Len(t) /\ DOMAIN u = 1..(Len(r) + Len(t))
      /\ \A k \in 1..(Len(r) + Len(t)) : u[k] = IF k <= Len(r) THEN r[k] ELSE t[k - Len(r)]
  OBVIOUS
<1> HIDE DEF u
<1>2. \A k \in DOMAIN u : \/ k \in DOMAIN r /\ u[k] = r[k]
                          \/ k > Len(r) /\ k - Len(r) \in DOMAIN t /\ u[k] = t[k - Len(r)]
  BY <1>1
<1>3. ASSUME NEW x
      PROVE  (\E k \in DOMAIN u : u[k] = x) <=> (\E k \in DOMAIN r : r[k] = x) \/ (\E k \in DOMAIN t : t[k] = x)
  <2>1. ASSUME NEW k \in DOMAIN r PROVE k \in DOMAIN u /\ u[k] = r[k]
    BY <1>1
  <2>2. ASSUME NEW k \in DOMAIN t PROVE k + Len(r) \in DOMAIN u /\ u[k + Len(r)] = t[k]
    BY <1>1
  <2> QED
    BY <1>2, <2>1, <2>2
<1>4. ASSUME NEW k \in DOMAIN u, NEW l \in DOMAIN u, k < l
      PROVE  \/ \E i, j \in DOMAIN r : i < j /\ u[k] = r[i] /\ u[l] = r[j]
             \/ \E i, j \in DOMAIN t : i < j /\ u[k] = t[i] /\ u[l] = t[j]
             \/ \E i \in DOMAIN r, j \in DOMAIN t : u[k] = r[i] /\ u[l] = t[j]
  <2>1. k \in Int /\ l \in Int
    BY <1>1
  <2>2. CASE l <= Len(r)
    <3>1. k \in DOMAIN r /\ l \in DOMAIN r /\ u[k] = r[k] /\ u[l] = r[l]
      BY <1>1, <1>4, <2>2
    <3> QED
      BY <1>4, <3>1
  <2>3. CASE k > Len(r)
    <3>1. /\ k - Len(r) \in DOMAIN t /\ l - Len(r) \in DOMAIN t /\ k - Len(r) < l - Len(r)
          /\ u[k] = t[k - Len(r)] /\ u[l] = t[l - Len(r)]
      BY <1>1, <1>4, <2>3
    <3> QED
      BY <3>1
  <2>4. CASE k <= Len(r) /\ l > Len(r)
    <3>1. k \in DOMAIN r /\ l - Len(r) \in DOMAIN t /\ u[k] = r[k] /\ u[l] = t[l - Len(r)]
      BY <1>1, <1>4, <2>4
    <3> QED
      BY <3>1
  <2> QED
    BY <1>1, <2>1, <2>2, <2>3, <2>4
<1> QED
  BY <1>1, <1>3, <1>4 DEF u, Joins

(* Jumps and branches push the target they choose, the others spread along *)
(* their edges.                                                            *)
SteersAt(body, n) == IsBranch(body[n]) \/ body[n].op = "jump"

Pushes(body, m, truthy) == IF SteersAt(body, m) THEN Ascending(Ahead(body, m, truthy)) ELSE <<>>

(* The edges along which a wave spreads.                                   *)
Spreading(body, s, m) ==
  {e \in Edges(body, partition_blocks(body)) :
     e.from \in s..m /\ ~SteersAt(body, e.from) /\ e.kind \in {"ctl", "seq"}}

(* Only the edges of the last node lead out of the wave.                   *)
LEMMA SpreadingFacts ==
  ASSUME NEW body, NEW known, Tidy(body, known), NEW block, block = partition_blocks(body),
         NEW a, NEW s, NEW m, Waves(body, a, s, m)
  PROVE  /\ Len(body) \in Nat /\ Aimed(body) /\ Labelled(body)
         /\ Spreading(body, s, m) \subseteq Edges(body, block)
         /\ \A e \in Spreading(body, s, m) : /\ e.kind # "data" /\ ~SteersAt(body, e.from)
                                             /\ e.from = m \/ e.to \in s..m
         /\ \A e \in Edges(body, block) :
              e.from = m /\ ~SteersAt(body, m) /\ e.kind \in {"ctl", "seq"} => e \in Spreading(body, s, m)
<1>1. Len(body) \in Nat /\ Aimed(body) /\ Labelled(body)
  BY DEF Tidy
<1>2. /\ s \in Int /\ m \in Int /\ s <= m
      /\ \A y \in s..(m - 1) : Inner(body, y) /\ ~IsEffect(body[y])
  BY <1>1, WaveFacts
<1> DEFINE E == Spreading(body, s, m)
<1>3. /\ E \subseteq Edges(body, block)
      /\ \A e \in E : e.from \in s..m /\ ~SteersAt(body, e.from) /\ e.kind \in {"ctl", "seq"}
  BY DEF Spreading
<1>4. \A e \in Edges(body, block) :
         e.from \in s..m /\ ~SteersAt(body, e.from) /\ e.kind \in {"ctl", "seq"} => e \in E
  BY DEF Spreading
<1> HIDE DEF E
<1>5. ASSUME NEW e \in E PROVE e.kind # "data" /\ (e.from = m \/ e.to \in s..m)
  <2>1. e.kind # "data"
    BY <1>3
  <2>2. CASE e.from # m
    <3>1. e.from \in s..(m - 1) /\ e.from \in Int
      BY <1>2, <1>3, <2>2
    <3>2. Inner(body, e.from) /\ ~IsEffect(body[e.from])
      BY <1>2, <3>1
    <3>3. Chained(body, block, e)
      BY <1>1, <1>3, <2>1, <3>2, NodeEdges
    <3>4. e.to = e.from + 1
      BY <3>2, <3>3 DEF Chained
    <3> QED
      BY <1>2, <2>1, <3>1, <3>4
  <2> QED
    BY <2>1, <2>2
<1>6. m \in s..m
  BY <1>2
<1> QED
  BY <1>1, <1>3, <1>4, <1>5, <1>6 DEF E

(* A wave that stops inside of its block leads on inside of it.            *)
LEMMA InnerWave ==
  ASSUME NEW body, NEW known, Tidy(body, known),
         NEW a, NEW s, NEW m, Waves(body, a, s, m), Inner(body, m), NEW truthy \in BOOLEAN
  PROVE  Track(body, Fresh(<<>> \o (Heads(Spreading(body, s, m)) \o a), s..m), Follow(body, m, truthy))
<1> DEFINE block == partition_blocks(body)
<1>0. PICK H, L, D : H = Heads(Spreading(body, s, m)) /\ D = s..m /\ L = <<>> \o (H \o a)
  OBVIOUS
<1> DEFINE r == Fresh(L, D)
<1>1. Len(body) \in Nat /\ Aimed(body) /\ Labelled(body)
  BY DEF Tidy
<1>2. /\ s \in Pcs(body) /\ m \in Pcs(body) /\ s \in Int /\ m \in Int /\ s <= m /\ block[m] = block[s]
      /\ Spread(body, a, s) /\ (m = s \/ \A k \in DOMAIN a : a[k] \in s..m)
  BY <1>1, WaveFacts DEF Waves
<1>3. m + 1 \in Pcs(body) /\ ~IsLabel(body[m + 1]) /\ ~IsTerminator(body[m]) /\ block[m + 1] = block[m]
  BY <1>1, <1>2, BlockFacts DEF Inner
<1>4. Follow(body, m, truthy) = m + 1
  <2>1. Follow(body, m, truthy) = Landing(body, m + 1)
    BY <1>3, FollowFacts
  <2> QED
    BY <1>1, <1>3, <2>1, LandingFacts
<1>5. Onward(body, m, H, D)
  <2>1. ~SteersAt(body, m)
    BY <1>3 DEF SteersAt, IsTerminator, Transfers
  <2> DEFINE E == Spreading(body, s, m)
  <2>2. /\ E \subseteq Edges(body, block)
        /\ \A e \in E : e.kind # "data"
        /\ \A e \in E : e.from = m \/ e.to \in D
        /\ \A e \in Edges(body, block) : e.from = m /\ e.kind = "seq" => e \in E
    BY <1>0, <2>1, SpreadingFacts
  <2> HIDE DEF E, block
  <2>3. block = partition_blocks(body)
    BY DEF block
  <2>4. Onward(body, m, Heads(E), D)
    BY <1>1, <1>2, <2>2, <2>3, InnerHeads
  <2> QED
    BY <1>0, <2>4 DEF E
<1>6. /\ a \in Seq(Pcs(body)) /\ DOMAIN a = 1..Len(a)
      /\ \A k \in DOMAIN a : a[k] \in Pcs(body) /\ a[k] \in Int /\ s <= a[k] /\ block[a[k]] = block[s]
      /\ \A k \in DOMAIN a : \A y \in s..(a[k] - 1) : ~IsEffect(body[y])
      /\ \A j, k \in DOMAIN a : j < k => a[j] < a[k]
      /\ Looped(body, s) => \A k \in DOMAIN a : \A y \in s..a[k] : \E j \in DOMAIN a : a[j] = y
  BY <1>1, <1>2, SpreadFacts DEF Spread
<1>7. /\ H \in Seq(Pcs(body))
      /\ \E k \in DOMAIN H : H[k] = m + 1
      /\ \A k \in DOMAIN H :
           \/ H[k] \in D
           \/ /\ m < H[k] /\ block[H[k]] = block[m]
              /\ \A y \in (m + 1)..(H[k] - 1) : ~IsEffect(body[y])
              /\ H[k] = m + 1 \/ IsEffect(body[m])
      /\ \A k, l \in DOMAIN H :
           k < l /\ H[k] \notin D /\ H[l] \notin D /\ H[k] # H[l] => H[k] < H[l]
      /\ Looped(body, m) =>
           \A k \in DOMAIN H : H[k] \notin D =>
             \A y \in (m + 1)..H[k] : \E j \in DOMAIN H : H[j] = y
  BY <1>5 DEF Onward
<1>8. \A x : x \in D <=> x \in Int /\ s <= x /\ x <= m
  BY <1>0, <1>2
<1>9. Looped(body, s) <=> Looped(body, m)
  BY <1>2 DEF Looped
<1>10. Pcs(body) \subseteq Int
  BY DEF Pcs
<1> HIDE DEF block
<1>11. /\ H \o a \in Seq(Pcs(body)) /\ L = H \o a
  BY <1>0, <1>6, <1>7
<1>12. /\ L \in Seq(Pcs(body)) /\ L \in Seq(Int)
       /\ \A x : (\E k \in DOMAIN L : L[k] = x)
                   <=> (\E k \in DOMAIN H : H[k] = x) \/ (\E k \in DOMAIN a : a[k] = x)
       /\ \A k, l \in DOMAIN L : k < l =>
              \/ \E i, j \in DOMAIN H : i < j /\ L[k] = H[i] /\ L[l] = H[j]
              \/ \E i, j \in DOMAIN a : i < j /\ L[k] = a[i] /\ L[l] = a[j]
              \/ \E i \in DOMAIN H, j \in DOMAIN a : L[k] = H[i] /\ L[l] = a[j]
  <2>1. L \in Seq(Pcs(body)) /\ L \in Seq(Int)
    BY <1>10, <1>11
  <2>2. a \in Seq(Int) /\ H \in Seq(Int)
    BY <1>6, <1>7, <1>10
  <2>3. Joins(H \o a, H, a)
    BY <2>2, JoinFacts
  <2>4. Joins(L, H, a)
    BY <1>11, <2>3
  <2> QED
    BY <2>1, <2>4 DEF Joins
<1>13. ASSUME NEW k \in DOMAIN a, a[k] \notin D
       PROVE  /\ m = s /\ ~IsEffect(body[m]) /\ m < a[k] /\ block[a[k]] = block[m]
              /\ \A y \in (m + 1)..(a[k] - 1) : ~IsEffect(body[y])
  <2>1. m = s /\ m < a[k]
    BY <1>2, <1>6, <1>8, <1>13
  <2>2. m \in s..(a[k] - 1)
    BY <1>2, <1>6, <2>1
  <2>3. \A y \in (m + 1)..(a[k] - 1) : y \in s..(a[k] - 1)
    BY <1>2, <1>6
  <2> QED
    BY <1>6, <2>1, <2>2, <2>3
<1>14. ASSUME NEW k \in DOMAIN L, NEW l \in DOMAIN L, k < l, L[k] \notin D, L[l] \notin D, L[k] # L[l]
       PROVE  L[k] < L[l]
  <2>1. ASSUME NEW i \in DOMAIN H, NEW j \in DOMAIN a, L[k] = H[i], L[l] = a[j] PROVE L[k] < L[l]
    <3>1. m < a[j] /\ ~IsEffect(body[m]) /\ a[j] \in Int
      BY <1>6, <1>13, <1>14, <2>1
    <3>2. H[i] = m + 1
      BY <1>7, <1>14, <2>1, <3>1
    <3> QED
      BY <1>2, <1>14, <2>1, <3>1, <3>2
  <2>2. ASSUME NEW i \in DOMAIN a, NEW j \in DOMAIN a, i < j, L[k] = a[i], L[l] = a[j] PROVE L[k] < L[l]
    BY <1>6, <2>2
  <2>3. ASSUME NEW i \in DOMAIN H, NEW j \in DOMAIN H, i < j, L[k] = H[i], L[l] = H[j] PROVE L[k] < L[l]
    BY <1>7, <1>14, <2>3
  <2> QED
    BY <1>12, <1>14, <2>1, <2>2, <2>3
<1>15. \A i, j \in DOMAIN r : i < j => r[i] < r[j]
  <2> HIDE DEF r
  <2>1. \A k, l \in DOMAIN L : k < l /\ L[k] \notin D /\ L[l] \notin D /\ L[k] # L[l]
                                  /\ (\A o \in 1..(l - 1) : L[o] # L[l])
                               => L[k] < L[l]
    BY <1>14
  <2>2. L \in Seq(Int)
    BY <1>12
  <2> QED
    BY <2>1, <2>2, FreshRises DEF r
<1>16. /\ r \in Seq(Pcs(body))
       /\ \A x : (\E j \in DOMAIN r : r[j] = x) <=> (x \notin D /\ \E k \in DOMAIN L : L[k] = x)
  BY <1>12, FreshFacts
<1> HIDE DEF r
<1>17. \E k \in DOMAIN r : r[k] = m + 1
  <2>1. m + 1 \notin D
    BY <1>2, <1>8
  <2> QED
    BY <1>7, <1>12, <1>16, <2>1
<1>18. ASSUME NEW k \in DOMAIN r
       PROVE  /\ m < r[k] /\ block[r[k]] = block[m]
              /\ \A y \in (m + 1)..(r[k] - 1) : ~IsEffect(body[y])
  <2>1. r[k] \notin D /\ \E l \in DOMAIN L : L[l] = r[k]
    BY <1>16
  <2>2. CASE \E l \in DOMAIN H : H[l] = r[k]
    BY <1>7, <2>1, <2>2
  <2>3. CASE \E l \in DOMAIN a : a[l] = r[k]
    BY <1>13, <2>1, <2>3
  <2> QED
    BY <1>12, <2>1, <2>2, <2>3
<1>19. ASSUME Looped(body, m), NEW k \in DOMAIN r, NEW y \in (m + 1)..r[k]
       PROVE  \E j \in DOMAIN r : r[j] = y
  <2>1. r[k] \notin D /\ \E l \in DOMAIN L : L[l] = r[k]
    BY <1>16
  <2>2. y \notin D
    BY <1>2, <1>8
  <2>3. CASE \E l \in DOMAIN H : H[l] = r[k]
    <3>1. \E j \in DOMAIN H : H[j] = y
      BY <1>7, <1>19, <2>1, <2>3
    <3> QED
      BY <1>12, <1>16, <2>2, <3>1
  <2>4. CASE \E l \in DOMAIN a : a[l] = r[k]
    <3>1. m = s
      BY <1>13, <2>1, <2>4
    <3>2. y \in s..r[k]
      BY <1>2, <3>1
    <3>3. \E j \in DOMAIN a : a[j] = y
      BY <1>6, <1>9, <1>19, <2>4, <3>2
    <3> QED
      BY <1>12, <1>16, <2>2, <3>3
  <2> QED
    BY <1>12, <2>1, <2>3, <2>4
<1>20. Track(body, r, m + 1)
  <2>1. block = partition_blocks(body)
    BY DEF block
  <2>2. \A k \in DOMAIN r : /\ m < r[k] /\ block[r[k]] = block[m]
                            /\ \A y \in (m + 1)..(r[k] - 1) : ~IsEffect(body[y])
    BY <1>18
  <2>3. Looped(body, m) => \A k \in DOMAIN r : \A y \in (m + 1)..r[k] : \E j \in DOMAIN r : r[j] = y
    BY <1>19
  <2> QED
    BY <1>1, <1>2, <1>15, <1>16, <1>17, <2>1, <2>2, <2>3, RisingTracks
<1> QED
  BY <1>0, <1>4, <1>20 DEF r

(* A wave that reaches the end of its block leads out of it.               *)
LEMMA FinalWave ==
  ASSUME NEW body, NEW known, Tidy(body, known),
         NEW a, NEW s, NEW m, Waves(body, a, s, m), Final(body, m), NEW truthy \in BOOLEAN,
         body[m].op # "return"
  PROVE  Track(body, Fresh(Pushes(body, m, truthy) \o (Heads(Spreading(body, s, m)) \o a), s..m),
               Follow(body, m, truthy))
<1>0. PICK H, D, A, B, L : /\ H = Heads(Spreading(body, s, m)) /\ D = s..m
                          /\ A = Ahead(body, m, truthy) /\ B = Pushes(body, m, truthy)
                          /\ L = B \o (H \o a)
  OBVIOUS
<1> DEFINE block == partition_blocks(body)
<1>1. Len(body) \in Nat /\ Aimed(body) /\ Labelled(body)
  BY DEF Tidy
<1>2. /\ s \in Pcs(body) /\ m \in Pcs(body) /\ s \in Int /\ m \in Int /\ s <= m /\ block[m] = block[s]
      /\ Spread(body, a, s) /\ Stretch(body, s, m)
  BY <1>1, WaveFacts DEF Waves
<1>3. /\ a \in Seq(Int) /\ DOMAIN a = 1..Len(a)
      /\ \A k \in DOMAIN a : a[k] \in Pcs(body) /\ a[k] \in Int /\ s <= a[k] /\ block[a[k]] = block[s]
  BY <1>1, <1>2, SpreadFacts DEF Spread
<1> HIDE DEF block
<1>4. block = partition_blocks(body)
  BY DEF block
<1>5. ASSUME NEW k \in DOMAIN a PROVE a[k] \in D
  <2>1. ASSUME m < a[k] PROVE FALSE
    <3>1. m + 1 \in m..a[k] /\ m + 1 \in Int
      BY <1>2, <1>3, <2>1
    <3>2. m + 1 \in Pcs(body) /\ block[m + 1] = block[m]
      BY <1>1, <1>2, <1>3, <1>4, <3>1, BlockFacts
    <3>3. m + 1 \notin Starts(body)
      BY <1>1, <1>2, <1>4, <3>2, BlockFacts
    <3> QED
      BY <3>2, <3>3 DEF Final
  <2> QED
    BY <1>0, <1>2, <1>3, <2>1
<1>6. \/ A = {} /\ Follow(body, m, truthy) = End(body)
      \/ \E t \in Pcs(body) : A = {t} /\ t \notin D
  BY <1>0, <1>1, <1>2, AheadFacts
<1>7. Pcs(body) \subseteq Int
  BY DEF Pcs
<1> DEFINE E == Spreading(body, s, m)
<1>8. /\ E \subseteq Edges(body, block)
      /\ \A e \in E : e.kind # "data" /\ ~SteersAt(body, e.from)
      /\ \A e \in E : e.from = m \/ e.to \in D
      /\ \A e \in Edges(body, block) : e.from = m /\ ~SteersAt(body, m) /\ e.kind \in {"ctl", "seq"} => e \in E
  BY <1>0, <1>4, SpreadingFacts
<1> HIDE DEF E
<1>9. /\ Ascending({}) = <<>>
      /\ \A t \in Int : Ascending({t}) = <<t>>
  BY AscendingFew
<1>10. /\ Ascending(A) \in Seq(Int)
       /\ \A x : (\E j \in DOMAIN Ascending(A) : Ascending(A)[j] = x) <=> x \in A
  <2>1. CASE A = {}
    <3>1. Ascending(A) = <<>>
      BY <1>9, <2>1
    <3>2. <<>> \in Seq(Int) /\ DOMAIN <<>> = {}
      OBVIOUS
    <3> QED
      BY <2>1, <3>1, <3>2, Zenon
  <2>2. ASSUME NEW t \in Int, A = {t} PROVE <1>10
    <3>1. Ascending(A) = <<t>>
      BY <1>9, <2>2
    <3>2. DOMAIN <<t>> = {1} /\ <<t>>[1] = t /\ <<t>> \in Seq(Int)
      OBVIOUS
    <3> QED
      BY <2>2, <3>1, <3>2
  <2> QED
    BY <1>6, <1>7, <2>1, <2>2
<1>11. /\ H \in Seq(Int)
       /\ \A k \in DOMAIN H : \E e \in E : H[k] = e.to
  <2>1. /\ Heads(E) \in Seq(Pcs(body))
        /\ \A k \in DOMAIN Heads(E) : \E e \in E : Heads(E)[k] = e.to
    BY <1>1, <1>4, <1>8, HeadsFacts
  <2> QED
    BY <1>0, <1>7, <2>1 DEF E
<1>12. /\ B \in Seq(Int)
       /\ \A k \in DOMAIN B : B[k] \in A
       /\ \A k \in DOMAIN H : H[k] \in D \/ H[k] \in A
       /\ \A t \in A : \/ \E k \in DOMAIN B : B[k] = t
                       \/ \E k \in DOMAIN H : H[k] = t
  <2>1. CASE SteersAt(body, m)
    <3>1. B = Ascending(A)
      BY <1>0, <2>1 DEF Pushes
    <3>2. \A e \in E : e.to \in D
      BY <1>8, <2>1
    <3> QED
      BY <1>10, <1>11, <3>1, <3>2
  <2>2. CASE ~SteersAt(body, m)
    <3>1. B = <<>>
      BY <1>0, <2>2 DEF Pushes
    <3>2. Fresh(Heads(E), D) = Ascending(A)
      <4>1. ~IsBranch(body[m])
        BY <2>2 DEF SteersAt
      <4>2. \A e \in Edges(body, block) : e.from = m /\ e.kind = "ctl" => e \in E
        BY <1>8, <2>2
      <4>3. \A t \in Ahead(body, m, truthy) : t \notin D
        BY <1>0, <1>6
      <4>4. Fresh(Heads(E), D) = Ascending(Ahead(body, m, truthy))
        BY <1>1, <1>2, <1>4, <1>8, <4>1, <4>2, <4>3, FinalHeads
      <4> QED
        BY <1>0, <4>4
    <3>3. Fresh(H, D) = Ascending(A)
      BY <1>0, <3>2 DEF E
    <3>4. \A x : (\E j \in DOMAIN Fresh(H, D) : Fresh(H, D)[j] = x) <=> (x \notin D /\ \E k \in DOMAIN H : H[k] = x)
      BY <1>11, FreshFacts
    <3>5. \A x : x \in A <=> (x \notin D /\ \E k \in DOMAIN H : H[k] = x)
      BY <1>10, <3>3, <3>4
    <3> QED
      BY <3>1, <3>5
  <2> QED
    BY <2>1, <2>2
<1>13. /\ L \in Seq(Int)
       /\ \A k \in DOMAIN L : L[k] \in D \/ L[k] \in A
       /\ \A t \in A : \E k \in DOMAIN L : L[k] = t
  <2>1. PICK M : M = H \o a
    OBVIOUS
  <2>2. M \in Seq(Int) /\ Joins(M, H, a)
    BY <1>3, <1>11, <2>1, JoinFacts
  <2>3. B \o M \in Seq(Int) /\ Joins(B \o M, B, M)
    BY <1>12, <2>2, JoinFacts
  <2>4. L \in Seq(Int) /\ Joins(L, B, M)
    BY <1>0, <2>1, <2>3
  <2>5. \A x : (\E k \in DOMAIN L : L[k] = x)
                 <=> \/ \E k \in DOMAIN B : B[k] = x
                     \/ \E k \in DOMAIN H : H[k] = x
                     \/ \E k \in DOMAIN a : a[k] = x
    BY <2>2, <2>4 DEF Joins
  <2> QED
    BY <1>5, <1>12, <2>4, <2>5
<1>14. Fresh(L, D) = Ascending(A)
  <2>1. CASE A = {}
    <3>1. \A k \in DOMAIN L : L[k] \in D
      BY <1>13, <2>1
    <3>2. Fresh(L, D) = <<>>
      BY <1>13, <3>1, FreshFew
    <3> QED
      BY <1>9, <2>1, <3>2
  <2>2. ASSUME NEW t \in Int, A = {t}, t \notin D PROVE <1>14
    <3>1. (\E k \in DOMAIN L : L[k] = t) /\ (\A k \in DOMAIN L : L[k] \in D \/ L[k] = t)
      BY <1>13, <2>2
    <3>2. Fresh(L, D) = <<t>>
      BY <1>13, <2>2, <3>1, FreshFew
    <3> QED
      BY <1>9, <2>2, <3>2
  <2> QED
    BY <1>6, <1>7, <2>1, <2>2
<1> QED
  BY <1>0, <1>1, <1>2, <1>14, AheadTracks

(* After a wave control is where a program that runs line by line would be *)
(* after the last instruction of the wave.                                 *)
LEMMA WaveTracks ==
  ASSUME NEW body, NEW known, Tidy(body, known),
         NEW a, NEW s, NEW m, Waves(body, a, s, m), NEW truthy \in BOOLEAN,
         body[m].op # "return"
  PROVE  Track(body, Fresh(Pushes(body, m, truthy) \o (Heads(Spreading(body, s, m)) \o a), s..m),
               Follow(body, m, truthy))
<1>1. Len(body) \in Nat
  BY DEF Tidy
<1>2. m \in Pcs(body) /\ ~IsLabel(body[m])
  <2>1. m \in s..m
    BY <1>1, WaveFacts
  <2> QED
    BY <1>1, <2>1, WaveFacts
<1>3. CASE Final(body, m)
  BY <1>3, FinalWave
<1>4. CASE Inner(body, m)
  <2>1. ~IsTerminator(body[m])
    BY <1>1, <1>2, <1>4, BlockFacts DEF Inner
  <2>2. Pushes(body, m, truthy) = <<>>
    BY <2>1 DEF Pushes, SteersAt, IsTerminator, Transfers
  <2> QED
    BY <1>4, <2>2, InnerWave
<1> QED
  BY <1>2, <1>3, <1>4 DEF Final, Inner

-----------------------------------------------------------------------------
(* The threaded path                                                       *)

(* The threaded path: where it goes on after a node.                       *)
OutOf(body, n, kinds) ==
  Fresh(Heads({e \in Edges(body, partition_blocks(body)) : e.from = n /\ e.kind \in kinds}), {})

Threads(body, n, truthy) ==
  LET chosen == Pushes(body, n, truthy)
      seq    == OutOf(body, n, {"seq"})
      to     == IF chosen # <<>> THEN chosen ELSE IF Len(seq) = 1 THEN seq ELSE <<>>
  IN  IF body[n].op = "return" THEN <<>>
      ELSE IF to # <<>> THEN to ELSE OutOf(body, n, {"ctl", "seq"})

(* A node without edges of some kinds.                                     *)
LEMMA NothingOut ==
  ASSUME NEW body, Len(body) \in Nat, Aimed(body), Labelled(body), NEW n, NEW kinds,
         kinds \subseteq {"ctl", "seq"},
         \A e \in Edges(body, partition_blocks(body)) : ~(e.from = n /\ e.kind \in kinds)
  PROVE  OutOf(body, n, kinds) = <<>>
<1>1. PICK block, E : /\ block = partition_blocks(body)
                      /\ E = {e \in Edges(body, block) : e.from = n /\ e.kind \in kinds}
  OBVIOUS
<1>2. E \subseteq Edges(body, block) /\ \A e \in E : e.kind # "data" /\ e.to \in {}
  BY <1>1
<1>3. Fresh(Heads(E), {}) = <<>>
  BY <1>1, <1>2, HeadsFew
<1> QED
  BY <1>1, <1>3 DEF OutOf

(* After a label.                                                          *)
LEMMA LabelThreads ==
  ASSUME NEW body, NEW known, Tidy(body, known), NEW h \in Pcs(body), IsLabel(body[h]), NEW truthy
  PROVE  Track(body, Threads(body, h, truthy), Landing(body, h))
<1>1. Len(body) \in Nat /\ Aimed(body) /\ Labelled(body)
  BY DEF Tidy
<1>2. ~SteersAt(body, h) /\ body[h].op # "return"
  BY LabelFacts DEF SteersAt
<1>3. OutOf(body, h, {"seq"}) = <<>>
  <2>1. \A e \in Edges(body, partition_blocks(body)) : ~(e.from = h /\ e.kind \in {"seq"})
    BY <1>1, NodeEdges
  <2> QED
    BY <1>1, <2>1, NothingOut
<1>4. Threads(body, h, truthy) = OutOf(body, h, {"ctl", "seq"})
  BY <1>2, <1>3 DEF Threads, Pushes
<1>5. OutOf(body, h, {"ctl", "seq"}) = IF Landing(body, h) \in Pcs(body) THEN <<Landing(body, h)>> ELSE <<>>
  <2>1. PICK block, E : /\ block = partition_blocks(body)
                        /\ E = {e \in Edges(body, block) : e.from = h /\ e.kind \in {"ctl", "seq"}}
    OBVIOUS
  <2>2. /\ E \subseteq Edges(body, block) /\ \A e \in E : e.kind # "data" /\ e.from = h
        /\ \A e \in Edges(body, block) : e.from = h /\ e.kind = "ctl" => e \in E
    BY <2>1
  <2>3. Landing(body, h) \notin {}
    OBVIOUS
  <2>4. Fresh(Heads(E), {}) = IF Landing(body, h) \in Pcs(body) THEN <<Landing(body, h)>> ELSE <<>>
    BY <1>1, <2>1, <2>2, <2>3, LabelHeads
  <2> QED
    BY <2>1, <2>4 DEF OutOf
<1>6. CASE Landing(body, h) \in Pcs(body)
  <2>1. ~IsLabel(body[Landing(body, h)])
    <3>1. h \in 1..End(body)
      BY <1>1 DEF Pcs, End
    <3>2. Landing(body, h) # End(body)
      BY <1>1, <1>6 DEF Pcs, End
    <3> QED
      BY <1>1, <3>1, <3>2, LandingFacts
  <2>2. Landing(body, Landing(body, h)) = Landing(body, h)
    BY <1>1, <1>6, <2>1, LandingFacts
  <2>3. Track(body, <<Landing(body, h)>>, Landing(body, Landing(body, h)))
    BY <1>1, <1>6, OneTracks
  <2> QED
    BY <1>4, <1>5, <1>6, <2>2, <2>3
<1>7. CASE Landing(body, h) \notin Pcs(body)
  <2>1. Landing(body, h) = End(body)
    BY <1>1, <1>7, LandingFacts DEF Pcs, End
  <2> QED
    BY <1>4, <1>5, <1>7, <2>1 DEF Track
<1> QED
  BY <1>6, <1>7

(* After an instruction inside of its block.                               *)
LEMMA InnerThreads ==
  ASSUME NEW body, NEW known, Tidy(body, known), NEW n \in Pcs(body), Inner(body, n), NEW truthy \in BOOLEAN
  PROVE  Track(body, Threads(body, n, truthy), Follow(body, n, truthy))
<1>1. Len(body) \in Nat /\ Aimed(body) /\ Labelled(body)
  BY DEF Tidy
<1>2. n + 1 \in Pcs(body) /\ ~IsLabel(body[n + 1]) /\ ~IsTerminator(body[n])
  BY <1>1, BlockFacts DEF Inner
<1>3. Follow(body, n, truthy) = n + 1
  <2>1. Follow(body, n, truthy) = Landing(body, n + 1)
    BY <1>2, FollowFacts
  <2> QED
    BY <1>1, <1>2, <2>1, LandingFacts
<1>4. Pushes(body, n, truthy) = <<>> /\ body[n].op # "return"
  BY <1>2 DEF Pushes, SteersAt, IsTerminator, Transfers
<1>5. ASSUME NEW kinds, kinds \in {{"seq"}, {"ctl", "seq"}}
      PROVE  Track(body, OutOf(body, n, kinds), n + 1)
  <2>1. PICK block, E : /\ block = partition_blocks(body)
                        /\ E = {e \in Edges(body, block) : e.from = n /\ e.kind \in kinds}
    OBVIOUS
  <2>2. /\ E \subseteq Edges(body, block) /\ \A e \in E : e.kind # "data" /\ e.from = n
        /\ \A e \in Edges(body, block) : e.from = n /\ e.kind = "seq" => e \in E
    BY <1>5, <2>1
  <2>3. Track(body, Fresh(Heads(E), {}), n + 1)
    BY <1>1, <2>1, <2>2, InnerTracks
  <2> QED
    BY <2>1, <2>3 DEF OutOf
<1>6. \/ Threads(body, n, truthy) = OutOf(body, n, {"seq"})
      \/ Threads(body, n, truthy) = OutOf(body, n, {"ctl", "seq"})
  BY <1>4 DEF Threads
<1> QED
  BY <1>3, <1>5, <1>6

(* After the last instruction of a block.                                  *)
LEMMA FinalThreads ==
  ASSUME NEW body, NEW known, Tidy(body, known), NEW n \in Pcs(body), Final(body, n), NEW truthy \in BOOLEAN
  PROVE  Track(body, Threads(body, n, truthy), Follow(body, n, truthy))
<1>1. Len(body) \in Nat /\ Aimed(body) /\ Labelled(body)
  BY DEF Tidy
<1>2. CASE body[n].op = "return"
  <2>1. Threads(body, n, truthy) = <<>>
    BY <1>2 DEF Threads
  <2>2. Follow(body, n, truthy) = End(body)
    BY <1>2, FollowFacts
  <2> QED
    BY <2>1, <2>2 DEF Track
<1>3. OutOf(body, n, {"seq"}) = <<>>
  <2>1. \A e \in Edges(body, partition_blocks(body)) : ~(e.from = n /\ e.kind \in {"seq"})
    BY <1>1, NodeEdges
  <2> QED
    BY <1>1, <2>1, NothingOut
<1>4. Track(body, Ascending(Ahead(body, n, truthy)), Follow(body, n, truthy))
  BY <1>1, AheadTracks
<1>5. ASSUME body[n].op # "return", ~IsBranch(body[n])
      PROVE  OutOf(body, n, {"ctl", "seq"}) = Ascending(Ahead(body, n, truthy))
  <2>1. PICK block, E : /\ block = partition_blocks(body)
                        /\ E = {e \in Edges(body, block) : e.from = n /\ e.kind \in {"ctl", "seq"}}
    OBVIOUS
  <2>2. /\ E \subseteq Edges(body, block) /\ \A e \in E : e.kind # "data"
        /\ \A e \in E : e.from = n \/ e.to \in {}
        /\ \A e \in Edges(body, block) : e.from = n /\ e.kind = "ctl" => e \in E
    BY <2>1
  <2>3. \A t \in Ahead(body, n, truthy) : t \notin {}
    OBVIOUS
  <2>4. Fresh(Heads(E), {}) = Ascending(Ahead(body, n, truthy))
    BY <1>1, <1>5, <2>1, <2>2, <2>3, FinalHeads
  <2> QED
    BY <2>1, <2>4 DEF OutOf
<1>6. CASE body[n].op # "return" /\ Pushes(body, n, truthy) # <<>>
  <2>1. Pushes(body, n, truthy) = Ascending(Ahead(body, n, truthy))
    BY <1>6 DEF Pushes
  <2>2. Threads(body, n, truthy) = Ascending(Ahead(body, n, truthy))
    BY <1>6, <2>1 DEF Threads
  <2> QED
    BY <1>4, <2>2
<1>7. CASE body[n].op # "return" /\ Pushes(body, n, truthy) = <<>>
  <2>1. ~IsBranch(body[n])
    <3> SUFFICES ASSUME IsBranch(body[n]) PROVE FALSE
      OBVIOUS
    <3>1. Ascending(Ahead(body, n, truthy)) = <<>>
      BY <1>7 DEF Pushes, SteersAt
    <3>2. \E x \in Int : Ahead(body, n, truthy) = {x}
      <4>1. PICK block : block = partition_blocks(body)
        OBVIOUS
      <4>2. \A t \in Pcs(body) : Redirect(body, block, t) \in Pcs(body)
        BY <1>1, <4>1, RedirectFacts
      <4>3. Starts(body) \subseteq Pcs(body) /\ Pcs(body) \subseteq Int
        BY DEF Starts, Pcs
      <4>4. Transfers(body[n])
        BY DEF Transfers
      <4>5. \E x \in Int : Taken(body, block, n) = {x}
        BY <1>1, <4>1, <4>2, <4>3, <4>4, TransferFacts
      <4>6. \E x \in Int : NotTaken(body, block, n) = {x}
        BY <1>1, <4>1, <4>2, <4>3, <4>4, TransferFacts
      <4> QED
        BY <4>1, <4>5, <4>6 DEF Ahead, IsBranch
    <3>3. PICK x \in Int : Ahead(body, n, truthy) = {x}
      BY <3>2
    <3>4. Ascending({x}) = <<x>>
      BY AscendingFew
    <3> QED
      BY <3>1, <3>3, <3>4
  <2>2. Threads(body, n, truthy) = OutOf(body, n, {"ctl", "seq"})
    <3>1. Len(<<>>) = 0
      OBVIOUS
    <3> QED
      BY <1>3, <1>7, <3>1 DEF Threads
  <2> QED
    BY <1>4, <1>5, <1>7, <2>1, <2>2
<1> QED
  BY <1>2, <1>6, <1>7

(* The threaded path goes on where a program that runs line by line does.  *)
LEMMA NodeThreads ==
  ASSUME NEW body, NEW known, Tidy(body, known), NEW n \in Pcs(body), ~IsLabel(body[n]), NEW truthy \in BOOLEAN
  PROVE  Track(body, Threads(body, n, truthy), Follow(body, n, truthy))
<1>1. Inner(body, n) \/ Final(body, n)
  BY DEF Inner, Final
<1> QED
  BY <1>1, InnerThreads, FinalThreads

-----------------------------------------------------------------------------
(* What the state predicates rest on                                       *)

(* A list with one element has that in a wave, if it is ready.             *)
LEMMA PickedOne ==
  ASSUME NEW h \in Int, NEW S, h \in S
  PROVE  Picked(<<h>>, S) = <<h>> /\ Range(<<h>>) = {h}
<1>1. <<h>> \in Seq(Int) /\ DOMAIN <<h>> = {1} /\ <<h>>[1] = h
  OBVIOUS
<1>2. PICK a : a = <<h>>
  OBVIOUS
<1> DEFINE r == Picked(a, S)
<1>3. /\ r \in Seq(Int)
      /\ \A x : (\E j \in DOMAIN r : r[j] = x) <=> (x \in S /\ \E k \in DOMAIN a : a[k] = x)
      /\ \A i, j \in DOMAIN r : i < j => \E k, l \in DOMAIN a : k < l /\ r[i] = a[k] /\ r[j] = a[l]
  <2>1. a \in Seq(Int)
    BY <1>1, <1>2
  <2> QED
    BY <2>1, PickedFacts
<1> HIDE DEF r
<1>4. DOMAIN a = {1} /\ a[1] = h
  BY <1>1, <1>2
<1>5. Len(r) \in Nat /\ DOMAIN r = 1..Len(r)
  BY <1>3
<1>6. ~(Len(r) > 1)
  <2> SUFFICES ASSUME Len(r) > 1 PROVE FALSE
    OBVIOUS
  <2>1. 1 \in DOMAIN r /\ 2 \in DOMAIN r /\ 1 < 2
    BY <1>5
  <2>2. \E k, l \in {1} : k < l
    BY <1>3, <1>4, <2>1
  <2> QED
    BY <2>2
<1>7. \E j \in DOMAIN r : r[j] = h
  BY <1>3, <1>4
<1>8. Len(r) = 1 /\ r[1] = h
  BY <1>5, <1>6, <1>7
<1>9. r = <<h>>
  BY <1>3, <1>8
<1>10. Range(<<h>>) = {h}
  BY <1>1 DEF Range
<1> QED
  BY <1>2, <1>9, <1>10 DEF r

(* A wave with a label alone leads to what follows it.                     *)
LEMMA LabelWave ==
  ASSUME NEW body, NEW known, Tidy(body, known), NEW h \in Pcs(body), IsLabel(body[h])
  PROVE  Track(body, Fresh(<<>> \o (Heads(Spreading(body, h, h)) \o <<h>>), h..h), Landing(body, h))
<1>1. Len(body) \in Nat /\ Aimed(body) /\ Labelled(body)
  BY DEF Tidy
<1>2. PICK block, E, H, D, L, a : /\ block = partition_blocks(body)
                                  /\ E = Spreading(body, h, h) /\ H = Heads(E) /\ D = h..h /\ a = <<h>>
                                  /\ L = <<>> \o (H \o a)
  OBVIOUS
<1>3. h \in Int /\ D = {h} /\ Pcs(body) \subseteq Int
  BY <1>2 DEF Pcs
<1>4. ~SteersAt(body, h)
  BY LabelFacts DEF SteersAt
<1>5. /\ E \subseteq Edges(body, block) /\ \A e \in E : e.kind # "data" /\ e.from = h
      /\ \A e \in Edges(body, block) : e.from = h /\ e.kind = "ctl" => e \in E
  <2>1. /\ E \subseteq Edges(body, block)
        /\ \A e \in E : e.from \in h..h /\ e.kind \in {"ctl", "seq"}
        /\ \A e \in Edges(body, block) :
             e.from \in h..h /\ ~SteersAt(body, e.from) /\ e.kind \in {"ctl", "seq"} => e \in E
    BY <1>2 DEF Spreading
  <2> QED
    BY <1>2, <1>3, <1>4, <2>1
<1>6. Landing(body, h) = End(body) \/ (Landing(body, h) \in Pcs(body) /\ ~IsLabel(body[Landing(body, h)]))
  <2>1. h \in 1..End(body)
    BY <1>1 DEF Pcs, End
  <2> QED
    BY <1>1, <2>1, LandingFacts
<1>7. Landing(body, h) \notin D
  <2>1. h # End(body)
    BY <1>1 DEF Pcs, End
  <2> QED
    BY <1>3, <1>6, <2>1
<1>8. Fresh(H, D) = IF Landing(body, h) \in Pcs(body) THEN <<Landing(body, h)>> ELSE <<>>
  BY <1>1, <1>2, <1>5, <1>7, LabelHeads
<1>9. H \in Seq(Int)
  <2>1. Heads(E) \in Seq(Pcs(body))
    BY <1>1, <1>2, <1>5, HeadsFacts
  <2> QED
    BY <1>2, <1>3, <2>1
<1>10. \A x : (\E j \in DOMAIN Fresh(H, D) : Fresh(H, D)[j] = x) <=> (x \notin D /\ \E k \in DOMAIN H : H[k] = x)
  BY <1>9, FreshFacts
<1>11. a \in Seq(Int) /\ \A x : (\E k \in DOMAIN a : a[k] = x) <=> x = h
  <2>1. <<h>> \in Seq(Int) /\ DOMAIN <<h>> = {1} /\ <<h>>[1] = h
    BY <1>3
  <2> QED
    BY <1>2, <2>1
<1>12. /\ L \in Seq(Int)
       /\ \A x : (\E k \in DOMAIN L : L[k] = x) <=> (\E k \in DOMAIN H : H[k] = x) \/ x = h
  <2>1. H \o a \in Seq(Int) /\ Joins(H \o a, H, a)
    BY <1>9, <1>11, JoinFacts
  <2>2. L = H \o a
    BY <1>2, <2>1
  <2>3. Joins(L, H, a)
    BY <2>1, <2>2
  <2> QED
    BY <1>11, <2>1, <2>2, <2>3 DEF Joins
<1>13. CASE Landing(body, h) \in Pcs(body)
  <2>1. PICK t \in Int : t = Landing(body, h) /\ t \in Pcs(body) /\ ~IsLabel(body[t]) /\ t \notin D
    <3>1. Landing(body, h) # End(body)
      BY <1>1, <1>13 DEF Pcs, End
    <3> QED
      BY <1>3, <1>6, <1>7, <1>13, <3>1
  <2>2. Fresh(H, D) = <<t>> /\ DOMAIN <<t>> = {1} /\ <<t>>[1] = t
    BY <1>8, <1>13, <2>1
  <2>3. \A x : x = t <=> (x \notin D /\ \E k \in DOMAIN H : H[k] = x)
    <3>1. \A x : (\E j \in DOMAIN Fresh(H, D) : Fresh(H, D)[j] = x) <=> x = t
      BY <2>2
    <3> QED
      BY <1>10, <3>1
  <2>4. (\E k \in DOMAIN L : L[k] = t) /\ (\A k \in DOMAIN L : L[k] \in D \/ L[k] = t)
    BY <1>3, <1>12, <2>3
  <2>5. Fresh(L, D) = <<t>>
    BY <1>12, <2>1, <2>4, FreshFew
  <2>6. Landing(body, t) = t
    BY <1>1, <2>1, LandingFacts
  <2>7. Track(body, <<t>>, Landing(body, t))
    BY <1>1, <2>1, OneTracks
  <2> QED
    BY <1>2, <2>1, <2>5, <2>6, <2>7
<1>14. CASE Landing(body, h) \notin Pcs(body)
  <2>1. Fresh(H, D) = <<>> /\ DOMAIN <<>> = {}
    BY <1>8, <1>14
  <2>2. \A k \in DOMAIN H : H[k] \in D
    <3>1. \A x : ~ \E j \in DOMAIN Fresh(H, D) : Fresh(H, D)[j] = x
      BY <2>1
    <3> QED
      BY <1>10, <3>1
  <2>3. \A k \in DOMAIN L : L[k] \in D
    BY <1>3, <1>12, <2>2
  <2>4. Fresh(L, D) = <<>>
    BY <1>12, <2>3, FreshFew
  <2>5. Landing(body, h) = End(body)
    BY <1>6, <1>14
  <2> QED
    BY <1>2, <2>4, <2>5 DEF Track
<1> QED
  BY <1>13, <1>14

(* What the last node of a wave pushes is none of the wave's.              *)
LEMMA PushesKept ==
  ASSUME NEW body, NEW known, Tidy(body, known),
         NEW a, NEW s, NEW m, Waves(body, a, s, m), NEW truthy \in BOOLEAN
  PROVE  Fresh(<<>> \o Pushes(body, m, truthy), s..m) = Pushes(body, m, truthy)
<1>1. Len(body) \in Nat /\ Aimed(body) /\ Labelled(body)
  BY DEF Tidy
<1>2. /\ m \in Pcs(body) /\ Stretch(body, s, m) /\ ~IsLabel(body[m])
  <2>1. /\ m \in Pcs(body) /\ Stretch(body, s, m) /\ m \in s..m
        /\ \A y \in s..m : ~IsLabel(body[y])
    BY <1>1, WaveFacts
  <2> QED
    BY <2>1
<1>3. Pushes(body, m, truthy) = <<>> \/ \E t \in Int : Pushes(body, m, truthy) = <<t>> /\ t \notin s..m
  <2>1. CASE ~SteersAt(body, m)
    BY <2>1 DEF Pushes
  <2>2. CASE SteersAt(body, m)
    <3>1. IsTerminator(body[m])
      BY <2>2 DEF SteersAt, IsTerminator, Transfers
    <3>2. Final(body, m)
      <4>1. ~Inner(body, m)
        BY <1>1, <1>2, <3>1, BlockFacts DEF Inner
      <4> QED
        BY <1>2, <4>1 DEF Final, Inner
    <3>3. \/ Ahead(body, m, truthy) = {}
          \/ \E t \in Pcs(body) : Ahead(body, m, truthy) = {t} /\ t \notin s..m
      BY <1>1, <1>2, <3>2, AheadFacts
    <3>4. Pcs(body) \subseteq Int
      BY DEF Pcs
    <3>5. Pushes(body, m, truthy) = Ascending(Ahead(body, m, truthy))
      BY <2>2 DEF Pushes
    <3>6. Ascending({}) = <<>> /\ \A t \in Int : Ascending({t}) = <<t>>
      BY AscendingFew
    <3> QED
      BY <3>3, <3>4, <3>5, <3>6
  <2> QED
    BY <2>1, <2>2
<1>4. CASE Pushes(body, m, truthy) = <<>>
  <2>1. <<>> \o <<>> = <<>> /\ <<>> \in Seq(Int) /\ \A k \in DOMAIN <<>> : <<>>[k] \in s..m
    OBVIOUS
  <2>2. Fresh(<<>>, s..m) = <<>>
    BY <2>1, FreshFew
  <2> QED
    BY <1>4, <2>1, <2>2
<1>5. ASSUME NEW t \in Int, Pushes(body, m, truthy) = <<t>>, t \notin s..m
      PROVE  Fresh(<<>> \o Pushes(body, m, truthy), s..m) = Pushes(body, m, truthy)
  <2>1. PICK u, D : u = <<t>> /\ D = s..m
    OBVIOUS
  <2>2. <<>> \o <<t>> = <<t>>
    OBVIOUS
  <2>3. u \in Seq(Int) /\ (\E k \in DOMAIN u : u[k] = t) /\ (\A k \in DOMAIN u : u[k] \in D \/ u[k] = t)
    <3>1. <<t>> \in Seq(Int) /\ DOMAIN <<t>> = {1} /\ <<t>>[1] = t
      OBVIOUS
    <3> QED
      BY <2>1, <3>1
  <2>4. Fresh(u, D) = <<t>>
    <3>1. t \notin D
      BY <1>5, <2>1
    <3> QED
      BY <2>3, <3>1, FreshFew
  <2> QED
    BY <1>5, <2>1, <2>2, <2>4
<1> QED
  BY <1>3, <1>4, <1>5

(* What the executor has read off the graph.                               *)
LEMMA PreparedFacts ==
  ASSUME NEW body, NEW known, Tidy(body, known), NEW g, g = Prepared(body)
  PROVE  /\ g.dag.edges = Edges(body, partition_blocks(body))
         /\ g.dag.entry = IF 1 \in Pcs(body) THEN <<1>> ELSE <<>>
         /\ \A n \in Pcs(body) :
              /\ g.dag.taken[n] = Ascending(Taken(body, partition_blocks(body), n))
              /\ g.dag.notTaken[n] = Ascending(NotTaken(body, partition_blocks(body), n))
              /\ g.seq_preds[n] = SeqPreds(dag_analyze(body), n)
              /\ g.successors[n] = OutOf(body, n, {"ctl", "seq"})
              /\ g.in_block[n] = OutOf(body, n, {"seq"})
<1>1. PICK dag : dag = dag_analyze(body)
  OBVIOUS
<1>2. /\ g.dag = dag
      /\ \A n \in Pcs(body) : /\ g.seq_preds[n] = SeqPreds(dag, n)
                              /\ g.successors[n] = Out(dag, n, {"ctl", "seq"})
                              /\ g.in_block[n] = Out(dag, n, {"seq"})
  BY <1>1 DEF Prepared
<1>3. /\ dag.edges = Edges(body, partition_blocks(body))
      /\ dag.entry = Ascending(Entry(body, Edges(body, partition_blocks(body)),
                                     Reachable(body, Edges(body, partition_blocks(body)))))
      /\ \A n \in Pcs(body) : /\ dag.taken[n] = Ascending(Taken(body, partition_blocks(body), n))
                              /\ dag.notTaken[n] = Ascending(NotTaken(body, partition_blocks(body), n))
  BY <1>1 DEF dag_analyze
<1>4. dag.entry = IF 1 \in Pcs(body) THEN <<1>> ELSE <<>>
  <2>1. Len(body) \in Nat /\ Aimed(body) /\ Labelled(body)
    BY DEF Tidy
  <2> QED
    BY <1>3, <2>1, EntryFacts
<1>5. \A n, kinds : Out(dag, n, kinds) = OutOf(body, n, kinds)
  BY <1>3 DEF Out, OutOf
<1> QED
  BY <1>1, <1>2, <1>3, <1>4, <1>5

-----------------------------------------------------------------------------
(* The executor and the machine that runs line by line                     *)

(* The machine that runs line by line reads a body like the executor.      *)
LEMMA SameReading ==
  /\ \A b : Linear!Pcs(b) = Pcs(b)
  /\ \A b, p : Linear!Landing(b, p) = Landing(b, p)
  /\ \A b, p, truthy : Linear!Follow(b, p, truthy) = Follow(b, p, truthy)
<1>1. \A b : Linear!Pcs(b) = Pcs(b)
  BY DEF Linear!Pcs, Pcs
<1>2. \A b, p : Linear!Landing(b, p) = Landing(b, p)
  BY DEF Linear!Landing, Landing, Linear!IsLabel, IsLabel, Linear!End, End, Linear!Pcs, Pcs
<1>3. \A b, p, truthy : Linear!Follow(b, p, truthy) = Follow(b, p, truthy)
  BY <1>2 DEF Linear!Follow, Follow, Linear!End, End
<1> QED
  BY <1>1, <1>2, <1>3

(* Where a program stands, by its body and the last instruction.           *)
LEMMA LinesFacts ==
  ASSUME NEW i \in DOMAIN Programs, NEW n \in Pcs(Programs[i]), NEW truthy \in BOOLEAN
  PROVE  Lines[i][n][truthy] = Follow(Programs[i], n, truthy)
BY DEF Lines

-----------------------------------------------------------------------------
(* The inductive invariant                                                 *)

AllTidy == \A i \in DOMAIN Programs : \E known : Tidy(Programs[i], known)

Known == CHOOSE known : Tidy(Body, known)

(* At the head of the loop.                                                *)
AtHead == Track(Body, active, LinearPc) /\ (status = "done" <=> active = <<>>)

(* In a wave that runs a label, and in one that runs instructions: before  *)
(* the one at LinearPc, or behind the last.                                *)
InLabelWave ==
  \E h \in Pcs(Body) :
    /\ IsLabel(Body[h]) /\ Landing(Body, h) = LinearPc
    /\ active = <<h>> /\ ready = h..h /\ todo \in {<<h>>, <<>>}
    /\ coming = <<>> /\ returned = FALSE

InNodeWave ==
  \E s, m \in Pcs(Body) :
    /\ Waves(Body, active, s, m) /\ ready = s..m
    /\ \/ /\ LinearPc \in s..m /\ todo = RunOf(LinearPc, m)
          /\ coming = <<>> /\ returned = FALSE
       \/ /\ last = m /\ todo = <<>>
          /\ coming = Pushes(Body, m, took) /\ returned = (Body[m].op = "return")

DagInv ==
  /\ prog \in DOMAIN Programs /\ graph = Prepared(Body)
  /\ took \in BOOLEAN /\ (last = 0 \/ (last \in Pcs(Body) /\ ~IsLabel(Body[last])))
  /\ Memory(Body, Known, executed, regs, LinearPc)
  /\ \/ status \in {"step", "done"} /\ AtHead
     \/ status = "wave" /\ (InLabelWave \/ InNodeWave)

-----------------------------------------------------------------------------
(* What the executor reads.                                                *)
LEMMA GraphReads ==
  ASSUME AllTidy, prog \in DOMAIN Programs, graph = Prepared(Body)
  PROVE  /\ Tidy(Body, Known)
         /\ Len(Body) \in Nat /\ Pcs(Body) \subseteq Int /\ 0 \notin Pcs(Body)
         /\ Dag.edges = Edges(Body, partition_blocks(Body))
         /\ Dag.entry = IF 1 \in Pcs(Body) THEN <<1>> ELSE <<>>
         /\ \A n \in Pcs(Body) :
              /\ Ready(n) <=> ReadyAt(Body, executed, regs, n)
              /\ \A truthy \in BOOLEAN : Chosen(n, truthy) = Pushes(Body, n, truthy)
              /\ Steers(n) <=> SteersAt(Body, n)
              /\ graph.successors[n] = OutOf(Body, n, {"ctl", "seq"})
              /\ graph.in_block[n] = OutOf(Body, n, {"seq"})
<1>1. Tidy(Body, Known)
  BY DEF AllTidy, Known, Body
<1>2. Len(Body) \in Nat /\ Pcs(Body) \subseteq Int /\ 0 \notin Pcs(Body)
  BY <1>1 DEF Tidy, Pcs
<1>3. /\ graph.dag.edges = Edges(Body, partition_blocks(Body))
      /\ graph.dag.entry = IF 1 \in Pcs(Body) THEN <<1>> ELSE <<>>
      /\ \A n \in Pcs(Body) :
           /\ graph.dag.taken[n] = Ascending(Taken(Body, partition_blocks(Body), n))
           /\ graph.dag.notTaken[n] = Ascending(NotTaken(Body, partition_blocks(Body), n))
           /\ graph.seq_preds[n] = SeqPreds(dag_analyze(Body), n)
           /\ graph.successors[n] = OutOf(Body, n, {"ctl", "seq"})
           /\ graph.in_block[n] = OutOf(Body, n, {"seq"})
  BY <1>1, PreparedFacts
<1>4. ASSUME NEW n \in Pcs(Body) PROVE Ready(n) <=> ReadyAt(Body, executed, regs, n)
  BY <1>3 DEF Ready, ReadyAt
<1>5. ASSUME NEW n \in Pcs(Body), NEW truthy \in BOOLEAN PROVE Chosen(n, truthy) = Pushes(Body, n, truthy)
  <2>1. /\ Dag.taken[n] = Ascending(Taken(Body, partition_blocks(Body), n))
        /\ Dag.notTaken[n] = Ascending(NotTaken(Body, partition_blocks(Body), n))
    BY <1>3 DEF Dag
  <2>2. CASE Body[n].op = "jump"
    BY <2>1, <2>2 DEF Chosen, Pushes, SteersAt, Ahead
  <2>3. CASE Body[n].op = "jumpif"
    BY <2>1, <2>3 DEF Chosen, Pushes, SteersAt, IsBranch, Ahead
  <2>4. CASE Body[n].op = "jumpifnot"
    BY <2>1, <2>4 DEF Chosen, Pushes, SteersAt, IsBranch, Ahead
  <2>5. CASE Body[n].op \notin {"jump", "jumpif", "jumpifnot"}
    BY <2>5 DEF Chosen, Pushes, SteersAt, IsBranch
  <2> QED
    BY <2>2, <2>3, <2>4, <2>5
<1>6. ASSUME NEW n \in Pcs(Body) PROVE Steers(n) <=> SteersAt(Body, n)
  BY DEF Steers, SteersAt
<1> QED
  BY <1>1, <1>2, <1>3, <1>4, <1>5, <1>6 DEF Dag

(* At the beginning.                                                       *)
LEMMA DagInvStarts ==
  ASSUME AllTidy, Init
  PROVE  DagInv /\ Linear!Init
<1>1. /\ prog \in DOMAIN Programs /\ graph = Prepared(Body) /\ active = Dag.entry
      /\ status = IF Dag.entry = <<>> THEN "done" ELSE "step"
      /\ executed = {} /\ regs = {} /\ last = 0 /\ took = FALSE /\ beat = FALSE
  BY DEF Init
<1>2. /\ Tidy(Body, Known) /\ Len(Body) \in Nat
      /\ Dag.entry = IF 1 \in Pcs(Body) THEN <<1>> ELSE <<>>
  BY <1>1, GraphReads
<1>3. LinearPc = Landing(Body, 1)
  BY <1>1 DEF LinearPc
<1>4. Memory(Body, Known, executed, regs, LinearPc)
  BY <1>1, <1>2, <1>3, MemoryStarts
<1>5. Track(Body, active, LinearPc)
  <2>1. Labelled(Body)
    BY <1>2 DEF Tidy
  <2>2. CASE 1 \in Pcs(Body)
    BY <1>1, <1>2, <1>3, <2>1, <2>2, OneTracks
  <2>3. CASE 1 \notin Pcs(Body)
    <3>1. End(Body) = 1
      BY <1>2, <2>3 DEF End, Pcs
    <3>2. Landing(Body, End(Body)) = End(Body)
      BY <1>2, <2>1, LandingFacts
    <3> QED
      BY <1>1, <1>2, <1>3, <2>3, <3>1, <3>2 DEF Track
  <2> QED
    BY <2>2, <2>3
<1>6. DagInv
  <2>1. AtHead /\ status \in {"step", "done"}
    BY <1>1, <1>5 DEF AtHead
  <2> QED
    BY <1>1, <1>4, <2>1 DEF DagInv
<1>7. Linear!Init
  BY <1>1, <1>3, SameReading DEF Linear!Init, Body
<1> QED
  BY <1>6, <1>7

(* What an action that keeps the program keeps.                            *)
Read == AllTidy /\ prog \in DOMAIN Programs /\ graph = Prepared(Body) /\ took \in BOOLEAN
          /\ (last = 0 \/ (last \in Pcs(Body) /\ ~IsLabel(Body[last])))
          /\ Memory(Body, Known, executed, regs, LinearPc)

(* The executor runs a label: the program does not move.                   *)
LEMMA LabelRuns ==
  ASSUME Read, UNCHANGED <<prog, graph>>,
         NEW h \in Pcs(Body), IsLabel(Body[h]), NEW truthy, Run(h, truthy)
  PROVE  Read' /\ LinearPc' = LinearPc /\ UNCHANGED Linear!vars
<1>1. /\ executed' = executed \cup {h} /\ regs' = regs \cup WrittenReg(Body[h])
      /\ last' = last /\ took' = took /\ beat' = beat
  BY DEF Run
<1>2. LinearPc' = LinearPc
  BY <1>1 DEF LinearPc, Body
<1>3. Body' = Body /\ Known' = Known
  BY DEF Body, Known
<1>4. Memory(Body, Known, executed', regs', LinearPc)
  <2>1. Tidy(Body, Known)
    BY GraphReads DEF Read
  <2> QED
    BY <1>1, <2>1, MemoryLabels DEF Read
<1>5. UNCHANGED Linear!vars
  BY <1>1, <1>2 DEF Linear!vars
<1> QED
  BY <1>1, <1>2, <1>3, <1>4, <1>5 DEF Read, AllTidy

(* The executor runs an instruction: the program takes a step.             *)
LEMMA NodeRuns ==
  ASSUME Read, UNCHANGED <<prog, graph>>,
         LinearPc \in Pcs(Body), NEW truthy \in Outcomes(LinearPc), Run(LinearPc, truthy)
  PROVE  /\ Read' /\ Linear!Step
         /\ truthy \in BOOLEAN /\ last' = LinearPc /\ took' = truthy
         /\ LinearPc' = Follow(Body, LinearPc, truthy)
<1>1. truthy \in BOOLEAN
  BY DEF Outcomes
<1>2. Tidy(Body, Known) /\ 0 \notin Pcs(Body)
  BY GraphReads DEF Read
<1>3. ~IsLabel(Body[LinearPc])
  BY DEF Read, Memory
<1>4. /\ executed' = executed \cup {LinearPc} /\ regs' = regs \cup WrittenReg(Body[LinearPc])
      /\ last' = LinearPc /\ took' = truthy /\ beat' = ~beat
  BY <1>3 DEF Run
<1>5. Body' = Body /\ Known' = Known
  BY DEF Body, Known
<1>6. LinearPc' = Follow(Body, LinearPc, truthy)
  <2>1. last' # 0 /\ prog' = prog
    BY <1>2, <1>4
  <2>2. LinearPc' = Lines[prog][LinearPc][truthy]
    BY <1>4, <2>1 DEF LinearPc
  <2>3. prog \in DOMAIN Programs /\ LinearPc \in Pcs(Programs[prog])
    BY DEF Read, Body
  <2> QED
    BY <1>1, <2>2, <2>3, LinesFacts DEF Body
<1>7. Memory(Body, Known, executed', regs', LinearPc')
  BY <1>1, <1>2, <1>4, <1>6, MemoryRuns DEF Read
<1>8. Linear!Step
  BY <1>1, <1>4, <1>6, SameReading DEF Linear!Step, Body
<1> QED
  BY <1>1, <1>3, <1>4, <1>5, <1>6, <1>7, <1>8 DEF Read, AllTidy

(* Nothing has run.                                                        *)
LEMMA NothingRuns ==
  ASSUME Read, UNCHANGED <<prog, graph, mem>>
  PROVE  Read' /\ LinearPc' = LinearPc /\ UNCHANGED Linear!vars /\ Body' = Body
<1>1. LinearPc' = LinearPc /\ Body' = Body /\ Known' = Known
  BY DEF LinearPc, Body, Known, mem
<1> QED
  BY <1>1 DEF Read, AllTidy, Linear!vars, mem

(* The next round of the loop.                                             *)
LEMMA HeadKept ==
  ASSUME NEW nodes, LoopHead(nodes), Body' = Body, Read', Track(Body, nodes, LinearPc')
  PROVE  DagInv'
<1>1. active' = nodes /\ status' = IF active' = <<>> THEN "done" ELSE "step"
  BY DEF LoopHead
<1>2. AtHead' /\ status' \in {"step", "done"}
  BY <1>1 DEF AtHead
<1> QED
  BY <1>2 DEF DagInv, Read

(* One step of the threaded path is one of the program, or runs a label.   *)
LEMMA ThreadedKeeps ==
  ASSUME AllTidy, DagInv, ThreadedStep
  PROVE  DagInv' /\ [Linear!Step]_(Linear!vars)
<1>1. Read /\ Body' = Body /\ UNCHANGED <<prog, graph>>
  BY DEF DagInv, Read, ThreadedStep, Body
<1>2. /\ Tidy(Body, Known) /\ Len(Body) \in Nat
      /\ \A n \in Pcs(Body) :
           /\ \A truthy \in BOOLEAN : Chosen(n, truthy) = Pushes(Body, n, truthy)
           /\ graph.successors[n] = OutOf(Body, n, {"ctl", "seq"})
           /\ graph.in_block[n] = OutOf(Body, n, {"seq"})
  BY <1>1, GraphReads DEF Read
<1>3. /\ Len(active) = 1 /\ Track(Body, active, LinearPc)
  BY DEF ThreadedStep, CanThread, DagInv, AtHead
<1>4. \/ active[1] \in Pcs(Body) /\ IsLabel(Body[active[1]]) /\ Landing(Body, active[1]) = LinearPc
      \/ active[1] \in Pcs(Body) /\ ~IsLabel(Body[active[1]]) /\ active[1] = LinearPc
  <2>1. CASE active = <<>>
    BY <1>3, <2>1
  <2>2. CASE \E h \in Pcs(Body) : active = <<h>> /\ IsLabel(Body[h]) /\ Landing(Body, h) = LinearPc
    BY <2>2
  <2>3. CASE Spread(Body, active, LinearPc)
    BY <2>3 DEF Spread
  <2> QED
    BY <1>3, <2>1, <2>2, <2>3 DEF Track
<1>5. PICK n \in Pcs(Body) : n = active[1]
  BY <1>4
<1>6. PICK truthy \in Outcomes(n) :
        /\ Run(n, truthy)
        /\ LET chosen == Chosen(n, truthy)
               to == IF chosen # <<>> THEN chosen ELSE threaded_successor(n)
           IN  LoopHead(IF Body[n].op = "return" THEN <<>>
                        ELSE IF to # <<>> THEN to
                        ELSE activatable_successors(n))
  BY <1>5 DEF ThreadedStep
<1>7. truthy \in BOOLEAN
  BY DEF Outcomes
<1>8. LoopHead(Threads(Body, n, truthy))
  <2>1. /\ Chosen(n, truthy) = Pushes(Body, n, truthy)
        /\ activatable_successors(n) = OutOf(Body, n, {"ctl", "seq"})
        /\ graph.in_block[n] = OutOf(Body, n, {"seq"})
    BY <1>2, <1>7 DEF activatable_successors
  <2>2. threaded_successor(n) = IF Len(OutOf(Body, n, {"seq"})) = 1 THEN OutOf(Body, n, {"seq"}) ELSE <<>>
    BY <2>1 DEF threaded_successor
  <2> QED
    BY <1>6, <2>1, <2>2, Zenon DEF Threads
<1>9. CASE IsLabel(Body[n])
  <2>1. Landing(Body, n) = LinearPc
    BY <1>4, <1>5, <1>9
  <2>2. Read' /\ LinearPc' = LinearPc /\ UNCHANGED Linear!vars
    BY <1>1, <1>6, <1>9, LabelRuns
  <2>3. Track(Body, Threads(Body, n, truthy), LinearPc')
    BY <1>2, <1>9, <2>1, <2>2, LabelThreads
  <2> QED
    BY <1>1, <1>8, <2>2, <2>3, HeadKept
<1>10. CASE ~IsLabel(Body[n])
  <2>1. n = LinearPc
    BY <1>4, <1>5, <1>10
  <2>2. Read' /\ Linear!Step /\ LinearPc' = Follow(Body, n, truthy)
    BY <1>1, <1>6, <2>1, NodeRuns
  <2>3. Track(Body, Threads(Body, n, truthy), LinearPc')
    BY <1>2, <1>7, <1>10, <2>2, NodeThreads
  <2> QED
    BY <1>1, <1>8, <2>2, <2>3, HeadKept
<1> QED
  BY <1>9, <1>10

(* A wave begins where the program stands; the program does not move.      *)
LEMMA StartKeeps ==
  ASSUME AllTidy, DagInv, StartWave
  PROVE  DagInv' /\ [Linear!Step]_(Linear!vars)
<1>1. Read /\ Body' = Body /\ UNCHANGED <<prog, graph, mem>>
  BY DEF DagInv, Read, StartWave, Body
<1>2. /\ Tidy(Body, Known) /\ Len(Body) \in Nat /\ Pcs(Body) \subseteq Int
      /\ \A n \in Pcs(Body) : Ready(n) <=> ReadyAt(Body, executed, regs, n)
  BY <1>1, GraphReads DEF Read
<1>3. active # <<>> /\ Track(Body, active, LinearPc)
  BY DEF StartWave, DagInv, AtHead
<1>4. Read' /\ LinearPc' = LinearPc /\ UNCHANGED Linear!vars
  BY <1>1, NothingRuns
<1>5. PICK now : now = Picked(active, {n \in Range(active) : Ready(n)})
  OBVIOUS
<1>6. now # <<>> => /\ status' = "wave" /\ todo' = now /\ ready' = Range(now)
                    /\ coming' = <<>> /\ returned' = FALSE /\ active' = active
  BY <1>5 DEF StartWave
<1>7. CASE \E h \in Pcs(Body) : active = <<h>> /\ IsLabel(Body[h]) /\ Landing(Body, h) = LinearPc
  <2>1. PICK h \in Pcs(Body) : active = <<h>> /\ IsLabel(Body[h]) /\ Landing(Body, h) = LinearPc
    BY <1>7
  <2>2. h \in Int
    BY <1>2
  <2>3. Ready(h)
    BY <1>1, <1>2, <2>1, ReadyFacts DEF Read
  <2>4. Range(active) = {h}
    BY <2>1, <2>2, PickedOne
  <2>5. now = <<h>> /\ Range(now) = {h}
    <3>1. h \in {n \in Range(active) : Ready(n)}
      BY <2>3, <2>4
    <3>2. Picked(<<h>>, {n \in Range(active) : Ready(n)}) = <<h>>
      BY <2>2, <3>1, PickedOne
    <3> QED
      BY <1>5, <2>1, <2>4, <3>2
  <2>6. now # <<>> /\ h..h = {h}
    BY <2>2, <2>5
  <2>7. InLabelWave'
    BY <1>1, <1>4, <1>6, <2>1, <2>5, <2>6 DEF InLabelWave
  <2> QED
    BY <1>4, <1>6, <2>6, <2>7 DEF DagInv, Read
<1>8. CASE Spread(Body, active, LinearPc)
  <2>1. PICK S : S = {n \in Range(active) : Ready(n)}
    OBVIOUS
  <2>2. \A x \in Range(active) : x \in Pcs(Body)
    BY <1>8 DEF Spread, Range
  <2>3. Wakes(Body, active, executed, regs, S)
    BY <1>2, <2>1, <2>2 DEF Wakes
  <2>4. WavesFrom(Body, active, S, LinearPc)
    BY <1>1, <1>2, <1>8, <2>3, NowFacts DEF Read
  <2>5. PICK m : /\ Waves(Body, active, LinearPc, m)
                 /\ now = RunOf(LinearPc, m) /\ Range(now) = LinearPc..m
    BY <1>5, <2>1, <2>4 DEF WavesFrom
  <2>6. LinearPc \in Pcs(Body) /\ m \in Pcs(Body) /\ LinearPc \in Int /\ m \in Int /\ LinearPc <= m
    BY <1>2, <2>5, WaveFacts
  <2>7. now # <<>>
    <3>1. Len(now) = m - LinearPc + 1
      BY <2>5, <2>6, RunFacts
    <3>2. Len(<<>>) = 0
      OBVIOUS
    <3> QED
      BY <2>6, <3>1, <3>2
  <2>8. LinearPc \in LinearPc..m
    BY <2>6
  <2>9. InNodeWave'
    BY <1>1, <1>4, <1>6, <2>5, <2>6, <2>7, <2>8 DEF InNodeWave
  <2> QED
    BY <1>4, <1>6, <2>7, <2>9 DEF DagInv, Read
<1> QED
  BY <1>3, <1>7, <1>8 DEF Track

(* What is left of a wave behind its first node.                           *)
LEMMA RunTail ==
  ASSUME NEW s \in Int, NEW m \in Int, s <= m
  PROVE  /\ RunOf(s, m) # <<>> /\ Head(RunOf(s, m)) = s
         /\ s < m => Tail(RunOf(s, m)) = RunOf(s + 1, m)
         /\ s = m => Tail(RunOf(s, m)) = <<>>
<1>1. /\ RunOf(s, m) \in Seq(Int) /\ Len(RunOf(s, m)) = m - s + 1
      /\ \A k \in 1..(m - s + 1) : RunOf(s, m)[k] = s + k - 1
  BY DEF RunOf
<1>2. RunOf(s, m) # <<>> /\ Head(RunOf(s, m)) = s
  BY <1>1
<1>3. ASSUME s < m PROVE Tail(RunOf(s, m)) = RunOf(s + 1, m)
  <2>1. PICK r : r = RunOf(s, m)
    OBVIOUS
  <2>2. /\ r \in Seq(Int) /\ Len(r) = m - s + 1 /\ r # <<>>
        /\ \A k \in 1..(m - s + 1) : r[k] = s + k - 1
    BY <1>1, <1>2, <2>1
  <2>3. Tail(r) = [k \in 1..(m - s) |-> r[k + 1]]
    <3>1. /\ Tail(r) \in Seq(Int) /\ Len(Tail(r)) = m - s
          /\ \A k \in 1..(m - s) : Tail(r)[k] = r[k + 1]
      BY <2>2, HeadTailProperties
    <3>2. PICK u : u = Tail(r)
      OBVIOUS
    <3>3. u \in Seq(Int) /\ Len(u) = m - s /\ \A k \in 1..(m - s) : u[k] = r[k + 1]
      BY <3>1, <3>2
    <3>4. u = [k \in 1..(m - s) |-> r[k + 1]]
      BY <3>3
    <3> QED
      BY <3>2, <3>4
  <2>4. \A k \in 1..(m - s) : r[k + 1] = (s + 1) + k - 1
    BY <2>2
  <2>5. RunOf(s + 1, m) = [k \in 1..(m - s) |-> (s + 1) + k - 1]
    BY DEF RunOf
  <2> QED
    BY <2>1, <2>3, <2>4, <2>5
<1>4. ASSUME s = m PROVE Tail(RunOf(s, m)) = <<>>
  <2>1. PICK r : r = RunOf(s, m)
    OBVIOUS
  <2>2. r \in Seq(Int) /\ Len(r) = 1
    BY <1>1, <1>4, <2>1
  <2>3. Tail(r) = <<>>
    <3>1. r # <<>>
      BY <2>2
    <3>2. Tail(r) \in Seq(Int) /\ Len(Tail(r)) = 0
      BY <2>2, <3>1, HeadTailProperties
    <3>3. PICK u : u = Tail(r)
      OBVIOUS
    <3>4. u \in Seq(Int) /\ Len(u) = 0
      BY <3>2, <3>3
    <3>5. u = <<>>
      BY <3>4
    <3> QED
      BY <3>3, <3>5
  <2> QED
    BY <2>1, <2>3
<1> QED
  BY <1>2, <1>3, <1>4

(* A node of a wave is the instruction at which the program stands.        *)
LEMMA NodeKeeps ==
  ASSUME AllTidy, DagInv, RunNode
  PROVE  DagInv' /\ [Linear!Step]_(Linear!vars)
<1>1. Read /\ Body' = Body /\ UNCHANGED <<prog, graph>>
  BY DEF DagInv, Read, RunNode, Body
<1>2. /\ Tidy(Body, Known) /\ Len(Body) \in Nat /\ Pcs(Body) \subseteq Int
      /\ \A n \in Pcs(Body) : \A truthy \in BOOLEAN : Chosen(n, truthy) = Pushes(Body, n, truthy)
  BY <1>1, GraphReads DEF Read
<1>3. status = "wave" /\ todo # <<>> /\ (InLabelWave \/ InNodeWave)
  BY DEF RunNode, DagInv
<1>0. PICK n : n = Head(todo)
  OBVIOUS
<1>4. PICK truthy \in Outcomes(n) :
        /\ n = Head(todo) /\ Run(n, truthy)
        /\ coming' = Pushed(coming, Chosen(n, truthy))
        /\ returned' = (returned \/ Body[n].op = "return")
  BY <1>0 DEF RunNode
<1>5. truthy \in BOOLEAN
  BY DEF Outcomes
<1>6. todo' = Tail(todo) /\ status' = status /\ active' = active /\ ready' = ready
  BY DEF RunNode
<1>7. Fresh(<<>> \o <<>>, ready) = <<>>
  <2>1. <<>> \o <<>> = <<>> /\ <<>> \in Seq(Int) /\ \A k \in DOMAIN <<>> : <<>>[k] \in ready
    OBVIOUS
  <2>2. Fresh(<<>>, ready) = <<>>
    BY <2>1, FreshFew
  <2> QED
    BY <2>1, <2>2
<1>8. CASE InLabelWave
  <2>1. PICK h \in Pcs(Body) :
          /\ IsLabel(Body[h]) /\ Landing(Body, h) = LinearPc
          /\ active = <<h>> /\ ready = h..h /\ todo \in {<<h>>, <<>>}
          /\ coming = <<>> /\ returned = FALSE
    BY <1>8 DEF InLabelWave
  <2>2. n = h /\ Tail(todo) = <<>>
    <3>1. todo = <<h>>
      BY <1>3, <2>1
    <3>2. Head(<<h>>) = h /\ Tail(<<h>>) = <<>>
      OBVIOUS
    <3> QED
      BY <1>4, <3>1, <3>2
  <2>3. Read' /\ LinearPc' = LinearPc /\ UNCHANGED Linear!vars
    BY <1>1, <1>4, <2>1, <2>2, LabelRuns
  <2>4. Chosen(h, truthy) = <<>> /\ Body[h].op # "return"
    BY <1>2, <1>5, <2>1, LabelFacts DEF Pushes, SteersAt
  <2>5. coming' = <<>> /\ returned' = FALSE
    BY <1>4, <1>7, <2>1, <2>2, <2>4 DEF Pushed
  <2>6. InLabelWave'
    BY <1>1, <1>6, <2>1, <2>2, <2>3, <2>5 DEF InLabelWave
  <2> QED
    BY <1>3, <1>6, <2>3, <2>6 DEF DagInv, Read
<1>9. CASE InNodeWave
  <2>1. PICK s, m \in Pcs(Body) :
          /\ Waves(Body, active, s, m) /\ ready = s..m
          /\ \/ /\ LinearPc \in s..m /\ todo = RunOf(LinearPc, m)
                /\ coming = <<>> /\ returned = FALSE
             \/ todo = <<>>
    BY <1>9 DEF InNodeWave
  <2>2. LinearPc \in s..m /\ todo = RunOf(LinearPc, m) /\ coming = <<>> /\ returned = FALSE
    BY <1>3, <2>1
  <2>3. /\ s \in Int /\ m \in Int
        /\ \A y \in s..m : y \in Pcs(Body) /\ ~IsLabel(Body[y])
        /\ \A y \in s..(m - 1) : Inner(Body, y) /\ ~IsTerminator(Body[y])
    BY <1>2, <2>1, WaveFacts
  <2>4. LinearPc \in Int /\ s <= LinearPc /\ LinearPc <= m /\ LinearPc \in Pcs(Body)
    BY <2>2, <2>3
  <2>5. /\ n = LinearPc
        /\ LinearPc < m => todo' = RunOf(LinearPc + 1, m)
        /\ LinearPc = m => todo' = <<>>
    BY <1>4, <1>6, <2>2, <2>3, <2>4, RunTail
  <2>6. /\ Read' /\ Linear!Step
        /\ last' = LinearPc /\ took' = truthy
        /\ LinearPc' = Follow(Body, LinearPc, truthy)
    BY <1>1, <1>4, <2>4, <2>5, NodeRuns
  <2>7. Chosen(n, truthy) = Pushes(Body, n, truthy)
    BY <1>2, <1>5, <2>4, <2>5
  <2>8. CASE LinearPc < m
    <3>1. LinearPc \in s..(m - 1) /\ LinearPc + 1 \in s..m
      BY <2>3, <2>4, <2>8
    <3>2. ~IsTerminator(Body[n]) /\ LinearPc + 1 \in Pcs(Body) /\ ~IsLabel(Body[LinearPc + 1])
      BY <2>3, <2>5, <3>1
    <3>3. Pushes(Body, n, truthy) = <<>> /\ Body[n].op # "return"
      BY <3>2 DEF Pushes, SteersAt, IsTerminator, Transfers
    <3>4. coming' = <<>> /\ returned' = FALSE
      BY <1>4, <1>7, <2>2, <2>7, <3>3 DEF Pushed
    <3>5. LinearPc' = LinearPc + 1
      <4>1. Follow(Body, LinearPc, truthy) = Landing(Body, LinearPc + 1)
        BY <1>5, <2>5, <3>2, FollowFacts
      <4>2. Labelled(Body)
        BY <1>2 DEF Tidy
      <4> QED
        BY <1>2, <2>6, <3>2, <4>1, <4>2, LandingFacts
    <3>6. InNodeWave'
      BY <1>1, <1>6, <2>1, <2>5, <2>8, <3>1, <3>4, <3>5 DEF InNodeWave
    <3> QED
      BY <1>3, <1>6, <2>6, <3>6 DEF DagInv, Read
  <2>9. CASE LinearPc = m
    <3>1. coming' = Pushes(Body, m, truthy)
      <4>1. Fresh(<<>> \o Pushes(Body, m, truthy), ready) = Pushes(Body, m, truthy)
        BY <1>2, <1>5, <2>1, PushesKept
      <4> QED
        BY <1>4, <2>2, <2>5, <2>7, <2>9, <4>1 DEF Pushed
    <3>2. returned' = (Body[m].op = "return")
      BY <1>4, <2>2, <2>5, <2>9
    <3>3. InNodeWave'
      BY <1>1, <1>6, <2>1, <2>5, <2>6, <2>9, <3>1, <3>2 DEF InNodeWave
    <3> QED
      BY <1>3, <1>6, <2>6, <3>3 DEF DagInv, Read
  <2> QED
    BY <2>3, <2>4, <2>8, <2>9
<1> QED
  BY <1>3, <1>8, <1>9

(* Behind a wave control is where the program stands.                      *)
LEMMA EndKeeps ==
  ASSUME AllTidy, DagInv, EndWave
  PROVE  DagInv' /\ [Linear!Step]_(Linear!vars)
<1>1. Read /\ Body' = Body /\ UNCHANGED <<prog, graph, mem>>
  BY DEF DagInv, Read, EndWave, Body
<1>2. /\ Tidy(Body, Known) /\ Len(Body) \in Nat /\ Pcs(Body) \subseteq Int /\ 0 \notin Pcs(Body)
      /\ Dag.edges = Edges(Body, partition_blocks(Body))
      /\ \A n \in Pcs(Body) : Steers(n) <=> SteersAt(Body, n)
  BY <1>1, GraphReads DEF Read
<1>3. status = "wave" /\ todo = <<>> /\ (InLabelWave \/ InNodeWave)
  BY DEF EndWave, DagInv
<1>4. Read' /\ LinearPc' = LinearPc /\ UNCHANGED Linear!vars
  BY <1>1, NothingRuns
<1>5. PICK E : E = {e \in Dag.edges : /\ e.from \in ready /\ ~Steers(e.from)
                                      /\ e.kind \in {"ctl", "seq"}}
  OBVIOUS
<1>6. LoopHead(IF returned THEN <<>> ELSE Pushed(coming, Heads(E) \o active))
  BY <1>5 DEF EndWave
<1>7. ASSUME NEW s, NEW m, ready = s..m, \A y \in s..m : y \in Pcs(Body)
      PROVE  E = Spreading(Body, s, m)
  BY <1>2, <1>5, <1>7 DEF Spreading
<1>8. CASE InLabelWave
  <2>1. PICK h \in Pcs(Body) :
          /\ IsLabel(Body[h]) /\ Landing(Body, h) = LinearPc
          /\ active = <<h>> /\ ready = h..h /\ coming = <<>> /\ returned = FALSE
    BY <1>8 DEF InLabelWave
  <2>2. E = Spreading(Body, h, h)
    <3>1. \A y \in h..h : y \in Pcs(Body)
      BY <1>2
    <3> QED
      BY <1>7, <2>1, <3>1
  <2>3. LoopHead(Fresh(<<>> \o (Heads(Spreading(Body, h, h)) \o <<h>>), h..h))
    BY <1>6, <2>1, <2>2 DEF Pushed
  <2>4. Track(Body, Fresh(<<>> \o (Heads(Spreading(Body, h, h)) \o <<h>>), h..h), LinearPc')
    BY <1>2, <1>4, <2>1, LabelWave
  <2> QED
    BY <1>1, <1>4, <2>3, <2>4, HeadKept
<1>9. CASE InNodeWave
  <2>1. PICK s, m \in Pcs(Body) :
          /\ Waves(Body, active, s, m) /\ ready = s..m
          /\ \/ LinearPc \in s..m /\ todo = RunOf(LinearPc, m)
             \/ /\ last = m /\ coming = Pushes(Body, m, took) /\ returned = (Body[m].op = "return")
    BY <1>9 DEF InNodeWave
  <2>2. /\ s \in Int /\ m \in Int
        /\ \A y \in s..m : y \in Pcs(Body)
    BY <1>2, <2>1, WaveFacts
  <2>3. last = m /\ coming = Pushes(Body, m, took) /\ returned = (Body[m].op = "return")
    <3> SUFFICES ASSUME LinearPc \in s..m, todo = RunOf(LinearPc, m) PROVE FALSE
      BY <2>1
    <3>1. LinearPc \in Int /\ LinearPc <= m
      BY <2>2
    <3> QED
      BY <1>3, <2>2, <3>1, RunTail
  <2>4. took \in BOOLEAN /\ LinearPc = Follow(Body, m, took)
    <3>1. prog \in DOMAIN Programs /\ took \in BOOLEAN /\ m \in Pcs(Programs[prog]) /\ m # 0
      BY <1>1, <1>2, <2>1 DEF Read, Body
    <3>2. LinearPc = Lines[prog][m][took]
      BY <2>3, <3>1 DEF LinearPc
    <3> QED
      BY <3>1, <3>2, LinesFacts DEF Body
  <2>5. E = Spreading(Body, s, m)
    BY <1>7, <2>1, <2>2
  <2>6. CASE returned
    <3>1. LinearPc = End(Body)
      BY <2>3, <2>4, <2>6, FollowFacts
    <3>2. LoopHead(<<>>)
      BY <1>6, <2>6
    <3>3. Track(Body, <<>>, LinearPc')
      BY <1>4, <3>1 DEF Track
    <3> QED
      BY <1>1, <1>4, <3>2, <3>3, HeadKept
  <2>7. CASE ~returned
    <3>1. LoopHead(Fresh(Pushes(Body, m, took) \o (Heads(Spreading(Body, s, m)) \o active), s..m))
      BY <1>6, <2>1, <2>3, <2>5, <2>7 DEF Pushed
    <3>2. Track(Body, Fresh(Pushes(Body, m, took) \o (Heads(Spreading(Body, s, m)) \o active), s..m), LinearPc')
      BY <1>2, <1>4, <2>1, <2>3, <2>4, <2>7, WaveTracks
    <3> QED
      BY <1>1, <1>4, <3>1, <3>2, HeadKept
  <2> QED
    BY <2>6, <2>7
<1> QED
  BY <1>3, <1>8, <1>9

-----------------------------------------------------------------------------
(* Every step keeps the invariant and is a step of the program, or none.   *)
LEMMA DagInvKept ==
  ASSUME AllTidy, DagInv, [Next]_vars
  PROVE  DagInv' /\ [Linear!Step]_(Linear!vars)
<1>1. CASE ThreadedStep
  BY <1>1, ThreadedKeeps
<1>2. CASE StartWave
  BY <1>2, StartKeeps
<1>3. CASE RunNode
  BY <1>3, NodeKeeps
<1>4. CASE EndWave
  BY <1>4, EndKeeps
<1>5. CASE UNCHANGED vars
  <2>1. UNCHANGED <<prog, graph, mem, status, active, wave>>
    BY <1>5 DEF vars
  <2>2. Read
    BY DEF DagInv, Read
  <2>3. Read' /\ LinearPc' = LinearPc /\ UNCHANGED Linear!vars /\ Body' = Body
    BY <2>1, <2>2, NothingRuns
  <2>4. took' = took /\ last' = last
    BY <2>1 DEF mem
  <2> QED
    BY <2>1, <2>3, <2>4 DEF DagInv, Read, AtHead, InLabelWave, InNodeWave, wave
<1> QED
  BY <1>1, <1>2, <1>3, <1>4, <1>5 DEF Next

(* run_dag_with_signal_memo keeps, for every body the lowering may make,   *)
(* where control is and what has run in step with a run line by line.      *)
THEOREM DagInvHolds == ASSUME AllTidy PROVE Spec => []DagInv
<1>1. Init => DagInv
  BY DagInvStarts
<1>2. DagInv /\ [Next]_vars => DagInv'
  BY DagInvKept
<1> QED
  BY <1>1, <1>2, PTL DEF Spec

(* run_dag_with_signal_memo runs exactly the instructions that the body    *)
(* would run line by line, in that order and each as often, on the waves   *)
(* as on the threaded path: the safety part of ImplementsLinear.           *)
THEOREM RefinesLinear ==
  ASSUME AllTidy PROVE Spec => Linear!Init /\ [][Linear!Step]_(Linear!vars)
<1>1. Init => Linear!Init
  BY DagInvStarts
<1>2. DagInv /\ [Next]_vars => [Linear!Step]_(Linear!vars)
  BY DagInvKept
<1> QED
  BY <1>1, <1>2, DagInvHolds, PTL DEF Spec

(* The loop of run_dag_with_signal_memo never ends with an empty active    *)
(* list while the body has instructions left to run.                       *)
THEOREM NeverStarves == ASSUME AllTidy PROVE Spec => []NothingStarves
<1>1. DagInv => NothingStarves
  <2> SUFFICES ASSUME DagInv, status = "done" PROVE LinearPc = End(Body)
    BY DEF NothingStarves
  <2>1. active = <<>> /\ Track(Body, active, LinearPc)
    BY DEF DagInv, AtHead
  <2>2. ~Spread(Body, <<>>, LinearPc)
    <3>1. Len(<<>>) = 0
      OBVIOUS
    <3> QED
      BY <3>1 DEF Spread
  <2> QED
    BY <2>1, <2>2 DEF Track
<1> QED
  BY <1>1, DagInvHolds, PTL
=============================================================================

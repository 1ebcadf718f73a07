---------------------------- MODULE TidyBodies ----------------------------
(***************************************************************************)
(* Bodies as the lowering makes them: what the graph executor needs of a   *)
(* body so that it runs it line by line.  It says nothing of how a body    *)
(* runs, only where its transfers lead and which registers are written on  *)
(* the way to who reads them.  The theorems of MirDagProofs assume it;     *)
(* MCMirDag has TLC look at which lowered bodies it holds for.             *)
(***************************************************************************)
EXTENDS MirGraph

(* Transfers aim at the start of a block or off the end, a branch at a     *)
(* place in the body and with another one behind it; none at itself, none  *)
(* at a first instruction that is no label; and one that goes back, into a *)
(* block the fan edges are there for.                                      *)
Aimed(body) ==
  LET heads == LoopHeads(body, partition_blocks(body))
  IN  \A p \in Pcs(body) : Transfers(body[p]) =>
    LET to == body[p].to
    IN  /\ to \in Starts(body) \/ (to = End(body) /\ LabelAt(body, to) = {})
        /\ IsBranch(body[p]) => to # End(body) /\ p # Len(body)
        /\ Landing(body, to) # p
        /\ to = 1 => IsLabel(body[1])
        /\ to <= p => \E h \in heads : h <= to

(* A label reads nothing, and no block starts directly behind it.          *)
Labelled(body) == \A p \in Pcs(body) : IsLabel(body[p]) => body[p].use = {} /\ p + 1 \notin Starts(body)

(* Along every way through the body the registers in known[p] have been    *)
(* written when control is at p, and what p reads is among them.           *)
Written(body, known) ==
  /\ Landing(body, 1) \in Pcs(body) => known[Landing(body, 1)] = {}
  /\ \A p \in Pcs(body) : ~IsLabel(body[p]) =>
       /\ body[p].use \subseteq known[p]
       /\ \A truthy \in BOOLEAN :
            LET q == Follow(body, p, truthy)
            IN  q \in Pcs(body) => known[q] \subseteq known[p] \cup WrittenReg(body[p])

Tidy(body, known) ==
  /\ Len(body) \in Nat /\ \A p \in Pcs(body) : body[p].to \in Nat
  /\ Aimed(body) /\ Labelled(body) /\ Written(body, known)
=============================================================================

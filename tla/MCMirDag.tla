----------------------------- MODULE MCMirDag -----------------------------
(* Structured for TLC: every program plain and after the way through SSA.  *)
EXTENDS Structured, MirSources, TidyBodies

Both(sources) == [i \in 1..(2 * Len(sources)) |-> sources[(i + 1) \div 2]]

Compiled ==
  LET all == Both(AllSources)
  IN  [i \in DOMAIN all |-> IF i % 2 = 0 THEN Lowered(all[i]) ELSE RoundTrip(Lowered(all[i]))]
Origins == Both(AllSources)

(* Without an optimisation level.                                          *)
CompiledPlain == LET all == CallFirst IN [i \in DOMAIN all |-> Lowered(all[i])]

(* TLC evaluates the above once, and what a .cfg names at every use.       *)
Bodies == Compiled
Texts  == Origins
PlainBodies == CompiledPlain
PlainTexts  == CallFirst

-----------------------------------------------------------------------------
(* Which of the bodies are tidy                                            *)

(* Where control may be before anything has written r, from those in new.  *)
RECURSIVE WithoutWriting(_, _, _, _)
WithoutWriting(body, r, seen, new) ==
  IF new = {} THEN seen
  ELSE LET passed == {p \in new \cap Pcs(body) : r \notin WrittenReg(body[p])}
           found  == seen \cup new
       IN  WithoutWriting(body, r, found,
                          {Follow(body, p, truthy) : p \in passed, truthy \in BOOLEAN} \ found)

WrittenBefore(body) ==
  LET reads == UNION {body[p].use : p \in Pcs(body)}
      open  == UNION {{<<p, r>> : p \in WithoutWriting(body, r, {}, {Landing(body, 1)})} : r \in reads}
  IN  [p \in Pcs(body) |-> {r \in reads : <<p, r>> \notin open}]

(* A target, a position, that is also the number of some label elsewhere.  *)
Misread(body) == \E p \in Pcs(body) : Transfers(body[p]) /\ LabelFirst(body, body[p].to) # body[p].to

(* What the theorems of MirDagProofs assume is true of every body that is  *)
(* run but of those in which partition_blocks takes a position for a label *)
(* (none is without labels), and not of the bodies of arm_starves.         *)
ASSUME TidyUnlessMisread ==
  /\ \A i \in DOMAIN Bodies : Tidy(Bodies[i], WrittenBefore(Bodies[i])) <=> ~Misread(Bodies[i])
  /\ \A i \in DOMAIN PlainBodies : ~Tidy(PlainBodies[i], WrittenBefore(PlainBodies[i]))

(* recompute_entry: a body that begins with a while has no entry, since    *)
(* the jump back leads to its first node.                                  *)
ASSUME NoEntry == dag_analyze(Lowered(LoopFirst)).entry = <<>>

(* dag_analyze: a loop may go unseen after the way through SSA.  The jump  *)
(* back leads to a position that is also the number of a later label.      *)
ASSUME LoopUnseen ==
  LET plain == Lowered(LoopMisread)
      ssa   == RoundTrip(plain)
  IN  /\ LoopHeads(plain, partition_blocks(plain)) # {}
      /\ LoopHeads(ssa, partition_blocks(ssa)) = {}
      /\ \E p \in Pcs(ssa) : ssa[p].op = "jump" /\ ssa[p].to < p
=============================================================================

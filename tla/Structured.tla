---------------------------- MODULE Structured ----------------------------
(***************************************************************************)
(* From the source to its last instruction: a program is lowered           *)
(* (Lowering) and the graph executor runs what comes out (MirDag), while   *)
(* `rest` follows the source by the meaning of its statements alone.  Each *)
(* condition comes out the same for both.                                  *)
(***************************************************************************)
EXTENDS MirDag, Lowering

CONSTANT Sources  (* the source of every body in Programs                  *)

VARIABLE rest     (* history: the statements of the source that are left   *)

-----------------------------------------------------------------------------
(* The meaning of the statements                                           *)

(* Stands behind the body of a loop: the loop goes round again.            *)
Again(s) == [k |-> "again", id |-> s.id, loop |-> s]

(* From the end of the innermost body that is running.                     *)
ToAgain == LET ends == {i \in DOMAIN rest : rest[i].k = "again"}
           IN  SubSeq(rest, CHOOSE i \in ends : \A j \in ends : i <= j, Len(rest))

(* What the next statement does first.                                     *)
Expected ==
  IF rest = <<>> THEN <<>>
  ELSE LET s == Head(rest)
       IN  <<s.id, CASE s.k = "again" -> IF s.loop.k = "for" THEN "advance" ELSE "test"
                     [] s.k \in {"if", "or", "and", "while", "for"} -> "test"
                     [] OTHER -> "run">>

(* What is left when the next statement's condition comes out as `truthy`; *)
(* that of a for asks whether the items are used up.                       *)
After(truthy) ==
  LET s == Head(rest)
      more == Tail(rest)
      round(l) == l.body \o <<Again(l)>> \o more
  IN  CASE s.k \in {"return", "stop"} -> <<>>
        [] s.k = "break"    -> Tail(ToAgain)
        [] s.k = "continue" -> ToAgain
        [] s.k = "if"       -> (IF truthy THEN s.then ELSE s.else) \o more
        [] s.k = "or"       -> IF truthy THEN more ELSE s.rhs \o more
        [] s.k = "and"      -> IF truthy THEN s.rhs \o more ELSE more
        [] s.k = "while"    -> IF truthy THEN round(s) ELSE more
        [] s.k = "for"      -> IF truthy THEN more ELSE round(s)
        [] s.k = "again" /\ s.loop.k = "while" -> IF truthy THEN round(s.loop) ELSE more
        [] s.k = "again" /\ s.loop.k = "for"   -> <<s.loop>> \o more
        [] OTHER            -> more

-----------------------------------------------------------------------------
StructuredInit == Init /\ rest = Sources[prog]

(* An instruction that does a part of the source takes that part with it.  *)
Follows == rest' = IF beat' = beat \/ Body[last'].of = <<>> \/ rest = <<>> THEN rest
                   ELSE After(took')

StructuredNext == Next /\ Follows

StructuredSpec == StructuredInit /\ [][StructuredNext]_<<vars, rest>> /\ WF_vars(Next)

-----------------------------------------------------------------------------
(* Properties                                                              *)

(* What runs is what the source says comes next, and a program that ends   *)
(* has nothing of its source left: a loop is left by the break that        *)
(* belongs to it, a continue in a for does not lose the step, both arms of *)
(* an if come together behind it, an operand that is not needed is not     *)
(* run, no statement waits for a value that nothing wrote -- however the   *)
(* statements are nested, and with or without the way through SSA.         *)
DoesTheSource ==
  IF LinearPc = End(Body) THEN rest = <<>>
  ELSE Body[LinearPc].of # <<>> => Body[LinearPc].of = Expected
=============================================================================

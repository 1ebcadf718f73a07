------------------------------- MODULE Mir -------------------------------
(***************************************************************************)
(* The instructions of a MIR body (src/mir/inst.rs) as far as the order in *)
(* which they run can tell them apart: what an instruction is, which       *)
(* registers it reads and writes, and where it may go.  The values in the  *)
(* registers are abstract, so the outcome of a condition is a choice.      *)
(*                                                                         *)
(* A body is a sequence of instructions.  Positions count from 1 here and  *)
(* from 0 in the code; the number of a label is shifted with them, since   *)
(* labels and positions share one key space.                               *)
(***************************************************************************)
EXTENDS Integers, SequencesExt

Inst(op, def, use, to) == [op |-> op, def |-> def, use |-> use, to |-> to, of |-> <<>>]

(* What of the source an instruction does, where that is to be compared.   *)
Mark(i, of) == [i EXCEPT !.of = of]

(* Const, Var, Copy, BinaryOp, Call, Index...: a value in a register.      *)
Compute(r, use) == Inst("compute", {r}, use, 0)

(* Define, Assign, IndexAssign...: an effect, no register of its own.      *)
Effect(use) == Inst("effect", {}, use, 0)

(* Handle runs its body and writes the register of its result.             *)
Handle(r) == Inst("handle", {r}, {}, 0)

Return(use)     == Inst("return", {}, use, 0)
Jump(t)         == Inst("jump", {}, {}, t)
JumpIf(r, t)    == Inst("jumpif", {}, {r}, t)
JumpIfNot(r, t) == Inst("jumpifnot", {}, {r}, t)
Break(t)        == Inst("break", {}, {}, t)
Continue(t)     == Inst("continue", {}, {}, t)
Label(n)        == Inst("label", {}, {}, n)

-----------------------------------------------------------------------------
Pcs(body) == 1..Len(body)

IsLabel(i)  == i.op = "label"
IsBranch(i) == i.op \in {"jumpif", "jumpifnot"}

(* Instructions whose target the handler jumps to.                         *)
Transfers(i) == IsBranch(i) \/ i.op \in {"jump", "break", "continue"}

(* is_block_terminator: what follows is only reached by a transfer.        *)
IsTerminator(i) == Transfers(i) \/ i.op = "return"

(* The kind of node dag_analyze makes: is_effect, and the instructions     *)
(* without a destination that fall through to the last alternative.        *)
IsEffect(i)  == i.op \in {"effect", "handle", "return", "break", "continue"}
IsCompute(i) == i.op = "compute"

(* dst: Handle writes a register that dst does not name (written_reg).     *)
Dst(i)        == IF i.op = "handle" THEN {} ELSE i.def
WrittenReg(i) == i.def

(* The elements of a set in some order; in the given order.                *)
Listed(S)           == FoldSet(LAMBDA x, s : Append(s, x), <<>>, S)
Ordered(S, op(_,_)) == SortSeq(Listed(S), op)

(* Off the end of the body: the program has ended.                         *)
End(body) == Len(body) + 1

(* The first executable instruction at or after p.                         *)
Landing(body, p) ==
  LET real == {q \in Pcs(body) : q >= p /\ ~IsLabel(body[q])}
  IN  IF real = {} THEN End(body) ELSE CHOOSE q \in real : \A o \in real : q <= o

(* Where the instruction at p sends a program that runs line by line when  *)
(* its condition, if it has one, comes out as `truthy` (h_jump, h_jump_if, *)
(* h_jump_if_not, h_break, h_continue, h_return).                          *)
Follow(body, p, truthy) ==
  LET i == body[p]
      taken == \/ i.op \in {"jump", "break", "continue"}
               \/ i.op = "jumpif" /\ truthy
               \/ i.op = "jumpifnot" /\ ~truthy
  IN  CASE i.op = "return" -> End(body)
        [] taken           -> Landing(body, i.to)
        [] OTHER           -> Landing(body, p + 1)
=============================================================================

----------------------------- MODULE Lowering -----------------------------
(***************************************************************************)
(* From statements to a MIR body: witness_to_fcfg gives every value a      *)
(* register, fcfg_lower emits the instructions and patches the jumps, and  *)
(* with an optimisation level the way through SSA (construct, deconstruct) *)
(* lays the blocks out again with labels.                                  *)
(*                                                                         *)
(* Statements stand for their shapes: "call", "let", "assign", "handle",   *)
(* "return" (a value), "stop" (return without one), "break", "continue",   *)
(* "if", "or", "and", "while" and "for".  Not modelled: other expressions  *)
(* inside of statements; the renaming of registers in SSA, its phi copies. *)
(***************************************************************************)
EXTENDS Mir

Leaf(k, id)           == [k |-> k, id |-> id]
If(id, then, else)    == [k |-> "if", id |-> id, then |-> then, else |-> else]
Or(id, rhs)           == [k |-> "or", id |-> id, rhs |-> rhs]
And(id, rhs)          == [k |-> "and", id |-> id, rhs |-> rhs]
While(id, body)       == [k |-> "while", id |-> id, body |-> body]
For(id, body)         == [k |-> "for", id |-> id, body |-> body]

-----------------------------------------------------------------------------
(* A lowered piece: its code, the register of its value if it has one, the *)
(* next free register, and the breaks and continues of the loop around it. *)
Piece(code, reg, next) == [code |-> code, reg |-> reg, next |-> next, brk |-> {}, cnt |-> {}]

(* node_result_reg: a piece without a value "has" register 0.              *)
Result(p) == IF p.reg = {} THEN {0} ELSE p.reg

Does(i, s)  == Mark(i, <<s.id, "run">>)
Tests(i, s) == Mark(i, <<s.id, "test">>)

(* The call reserves a register for its callee and never writes it.  A let *)
(* defines the name and passes nil on through __let_result.                *)
LowerLeaf(s, at, r) ==
  CASE s.k = "call"     -> Piece(<<Does(Compute(r + 1, {}), s)>>, {r + 1}, r + 2)
    [] s.k = "let"      -> Piece(<<Compute(r, {}), Does(Effect({r}), s), Compute(r + 1, {}),
                                   Effect({r + 1}), Compute(r + 2, {})>>, {}, r + 3)
    [] s.k = "assign"   -> Piece(<<Compute(r, {}), Does(Effect({r}), s)>>, {}, r + 1)
    [] s.k = "handle"   -> Piece(<<Does(Handle(r), s)>>, {r}, r + 1)
    [] s.k = "return"   -> Piece(<<Compute(r, {}), Does(Return({r}), s)>>, {}, r + 1)
    [] s.k = "stop"     -> Piece(<<Does(Return({}), s)>>, {}, r)
    [] s.k = "break"    -> [Piece(<<Does(Break(0), s)>>, {}, r) EXCEPT !.brk = {at}]
    [] s.k = "continue" -> [Piece(<<Does(Continue(0), s)>>, {}, r) EXCEPT !.cnt = {at}]

(* A slip: every transfer of the kind between the ends of the loop.        *)
PatchRange(code, at, which, target) ==
  [k \in DOMAIN code |-> IF \E p \in which : code[k].op = code[p - at + 1].op
                         THEN [code[k] EXCEPT !.to = target] ELSE code[k]]

(* patch_breaks_to, patch_continues_to: only the transfers that the loop   *)
(* itself has registered.                                                  *)
Patch(code, at, which, target) ==
  [k \in DOMAIN code |-> IF at + k - 1 \in which THEN [code[k] EXCEPT !.to = target] ELSE code[k]]

(* The way round the right operand, and past the copy that stands for it.  *)
LowerOperands(s, rhs, at, r) ==
  LET short == at + Len(rhs.code) + 4
      past  == IF s.k = "or" THEN JumpIf(r, short) ELSE JumpIfNot(r, short)
      dst   == rhs.next
  IN  [rhs EXCEPT !.code = <<Compute(r, {}), Tests(past, s)>> \o @
                           \o <<Compute(dst, {r} \cup Result(rhs)), Jump(short + 1), Compute(dst, {r})>>,
                  !.reg = {dst}, !.next = dst + 1]

(* Both arms copy their value to one register; a missing else has nil.     *)
LowerIf(s, then, else, at, r) ==
  LET other == at + Len(then.code) + 4
      end   == other + Len(else.code) + 1
      dst   == else.next
  IN  [code |-> <<Compute(r, {}), Tests(JumpIfNot(r, other), s)>>
                \o then.code \o <<Compute(dst, Result(then)), Jump(end)>>
                \o else.code \o <<Compute(dst, Result(else))>>,
       reg |-> {dst}, next |-> dst + 1,
       brk |-> then.brk \cup else.brk, cnt |-> then.cnt \cup else.cnt]

(* The loop tests at its head and goes back there; the value is nil.       *)
LowerWhile(s, body, at, r) ==
  LET end  == at + Len(body.code) + 3
      code == <<Compute(r, {}), Tests(JumpIfNot(r, end), s)>> \o body.code \o <<Jump(at)>>
  IN  Piece(Patch(Patch(code, at, body.brk, end), at, body.cnt, at) \o <<Compute(body.next, {})>>,
            {}, body.next + 1)

(* iter, idx, len, one; at the head the test leaves the loop when it comes *)
(* out true, and a continue goes to the step and not to the head.          *)
LowerFor(s, body, at, r) ==
  LET head == at + 4
      step == head + Len(body.code) + 4
      end  == step + 2
      code == <<Compute(r, {}), Compute(r + 1, {}), Compute(r + 2, {r}), Compute(r + 3, {}),
                Compute(r + 4, {r + 1, r + 2}), Tests(JumpIf(r + 4, end), s),
                Compute(r + 5, {r, r + 1}), Effect({r + 5})>>
              \o body.code
              \o <<Mark(Compute(r + 1, {r + 1, r + 3}), <<s.id, "advance">>), Jump(head)>>
  IN  Piece(Patch(Patch(code, at, body.brk, end), at, body.cnt, step) \o <<Compute(body.next, {})>>,
            {}, body.next + 1)

RECURSIVE LowerNode(_, _, _)

(* lower_block, build_block: a block has the value of its last node.       *)
LowerBlock(block, at, r) ==
  FoldLeft(LAMBDA p, s : LET q == LowerNode(s, at + Len(p.code), p.next)
                         IN  [q EXCEPT !.code = p.code \o @, !.brk = @ \cup p.brk, !.cnt = @ \cup p.cnt],
           Piece(<<>>, {}, r), block)

(* lower_node: the code of s when it starts at `at` and r is free.         *)
LowerNode(s, at, r) ==
  CASE s.k = "if" ->
         LET then == LowerBlock(s.then, at + 2, r + 1)
             from == at + Len(then.code) + 4
             else == IF s.else = <<>>
                     THEN Piece(<<Compute(then.next, {})>>, {then.next}, then.next + 1)
                     ELSE LowerBlock(s.else, from, then.next)
         IN  LowerIf(s, then, else, at, r)
    [] s.k \in {"or", "and"} -> LowerOperands(s, LowerBlock(s.rhs, at + 2, r + 1), at, r)
    [] s.k = "while" -> LowerWhile(s, LowerBlock(s.body, at + 2, r + 1), at, r)
    [] s.k = "for"   -> LowerFor(s, LowerBlock(s.body, at + 8, r + 6), at, r)
    [] OTHER         -> LowerLeaf(s, at, r)

(* witness_to_fcfg and lower_fcfg: the body of a program.                  *)
Lowered(program) == LowerBlock(program, 1, 0).code

-----------------------------------------------------------------------------
(* With an optimisation level: through SSA and back                        *)

(* find_block_starts.                                                      *)
SsaStarts(body) ==
  {1} \cup {p + 1 : p \in {q \in Pcs(body) : IsTerminator(body[q]) /\ q < Len(body)}}
      \cup {body[p].to : p \in {q \in Pcs(body) : Transfers(body[q]) /\ body[q].to \in Pcs(body)}}

(* construct splits the body into blocks and deconstruct writes each block *)
(* behind a label; a jump past the end stays one.  A return without value  *)
(* is dropped with the block ends that stand for falling through.          *)
RoundTrip(body) ==
  LET starts == Ordered(SsaStarts(body), <)
      upto(b) == IF b < Len(starts) THEN starts[b + 1] - 1 ELSE Len(body)
      kept(b) == SelectSeq(SubSeq(body, starts[b], upto(b)),
                           LAMBDA i : ~(i.op = "return" /\ i.use = {}))
      blocks == [b \in DOMAIN starts |-> <<Label(b)>> \o kept(b)]
      label(b) == Len(FlattenSeq(SubSeq(blocks, 1, b - 1))) + 1
      all == FlattenSeq(blocks)
      target(t) == IF t \in Pcs(body) THEN label(CHOOSE b \in DOMAIN starts : starts[b] = t)
                   ELSE End(all)
  IN  [p \in DOMAIN all |-> IF Transfers(all[p]) THEN [all[p] EXCEPT !.to = target(@)] ELSE all[p]]
=============================================================================

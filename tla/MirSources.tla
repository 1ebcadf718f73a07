---------------------------- MODULE MirSources ----------------------------
(***************************************************************************)
(* The programs TLC runs: one compound statement of depth one or two with  *)
(* statements around it.                                                   *)
(***************************************************************************)
EXTENDS Lowering

LOCAL Seqs(S) == {<<x>> : x \in S}

(* A let first: register 0 is written.                                     *)
First == Leaf("let", 1)
Then  == Leaf("call", 9)

(* Leaves of an arm: one without a value, one with, one that writes the    *)
(* register of an effect, and one that leaves the body.                    *)
Plain(id) == {Leaf(k, id) : k \in {"call", "assign", "handle", "return"}}

(* In a loop also the two that stay in it or leave it.                     *)
Looped(id) == Plain(id) \cup {Leaf(k, id) : k \in {"break", "continue"}}

Arms(id, S)  == {If(id, a, b) : a \in Seqs(S), b \in {<<>>} \cup Seqs({Leaf("let", id + 2)})}
Loops(id, B) == {While(id, b) : b \in B} \cup {For(id, b) : b \in B}

(* Depth one: an if with or without else, an or, an and, a loop of two.            *)
Simple ==
  Arms(2, Plain(3)) \cup {Or(2, <<Leaf("call", 3)>>), And(2, <<Leaf("call", 3)>>)}
    \cup Loops(2, {<<Leaf("call", 3), l>> : l \in Looped(4)})

(* Depth two: in a loop and in an if, with a statement behind.             *)
Nested ==
  LET inner == Arms(4, Looped(5)) \cup {Or(4, <<Leaf("call", 5)>>)}
               \cup Loops(4, {<<If(5, <<l>>, <<>>)>> : l \in Looped(6)})
  IN  Loops(2, {<<i, Leaf("call", 8)>> : i \in inner})
        \cup {If(2, <<i, Leaf("assign", 8)>>, <<>>) :
                i \in Arms(4, Plain(5)) \cup Loops(4, Seqs(Looped(5)))}

(* The value of an or is the value of an arm; both loops have a transfer.  *)
Crossed ==
  {If(2, <<Or(4, <<Leaf("call", 5)>>)>>, <<And(6, <<Leaf("handle", 7)>>)>>)}
    \cup LET leaves == {"break", "continue"}
             inner  == Loops(4, {<<If(5, <<Leaf(k, 6)>>, <<>>)>> : k \in leaves})
         IN  Loops(2, {<<i, Leaf(k, 8)>> : i \in inner, k \in leaves})

AllSources ==
  Listed({<<First, s, Then>> : s \in Simple \cup Nested \cup Crossed} \cup {<<First, s>> : s \in Simple})

(* Arms that end in a statement without a value, behind a call: register 0 *)
(* is the one reserved for its callee.                                     *)
CallFirst == Listed({<<Leaf("call", 1), s, Then>> : s \in Arms(2, {Leaf(k, 3) : k \in {"let", "assign"}})})

(* A while is the first statement: its head is the first position.         *)
LoopFirst == <<While(1, <<Leaf("call", 2)>>), Then>>

(* A loop whose head stands where a later block has its number.            *)
LoopMisread ==
  <<First,
    While(2, <<Leaf("let", 3), Leaf("let", 4), If(5, <<Leaf("call", 6)>>, <<Leaf("call", 7)>>)>>),
    Then>>
=============================================================================

------------------------------ MODULE Ranking ------------------------------
(***************************************************************************)
(* What the sorts of the standard library give (slice::sort_by, ORDER BY): *)
(* the elements of a finite set in the given order.  The order is a set of *)
(* pairs, <<a, b>> says that a comes before b.  In terms of what the order *)
(* puts before an element, a sort needs no recursion, and unlike SortSeq   *)
(* and SelectSeq it can be reasoned about by counting.                     *)
(***************************************************************************)
EXTENDS Integers, FiniteSets

(* What comes before x.                                                    *)
Below(x, S, order) == {y \in S : <<y, x>> \in order}

(* The k-th element is the one with k - 1 before it.                       *)
Ranked(S, order) ==
  [k \in 1..Cardinality(S) |-> CHOOSE x \in S : Cardinality(Below(x, S, order)) = k - 1]

(* Numbers in their own order.                                             *)
Ascending(S) ==
  [k \in 1..Cardinality(S) |-> CHOOSE x \in S : Cardinality({y \in S : y < x}) = k - 1]

(* The elements of a sequence that stand at the given places.              *)
AtPlaces(s, places) == [k \in DOMAIN places |-> s[places[k]]]

(* The elements of a sequence that are in S, and those that are not, the   *)
(* latter only where they stand first.                                     *)
Picked(s, S) == AtPlaces(s, Ascending({k \in DOMAIN s : s[k] \in S}))
Fresh(s, S)  ==
  AtPlaces(s, Ascending({k \in DOMAIN s : s[k] \notin S /\ \A j \in 1..(k - 1) : s[j] # s[k]}))
=============================================================================

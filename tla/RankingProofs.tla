--------------------------- MODULE RankingProofs ---------------------------
(***************************************************************************)
(* Facts about module Ranking, for every finite set and every strict total *)
(* order on it: a ranking lists each element once and in the order, it is  *)
(* the only list that does, and it follows a renaming of the elements.     *)
(* And what Picked and Fresh keep of a sequence.                           *)
(***************************************************************************)
EXTENDS Ranking, Sequences, FiniteSetTheorems, TLAPS

(* What makes a ranking unique: of two elements one is before the other.   *)
StrictOrder(order, S) ==
  /\ \A x \in S : <<x, x>> \notin order
  /\ \A x, y \in S : x # y => <<x, y>> \in order \/ <<y, x>> \in order
  /\ \A x, y, z \in S : <<x, y>> \in order /\ <<y, z>> \in order => <<x, z>> \in order

(* An element before another one has less before it.                       *)
LEMMA BelowGrows ==
  ASSUME NEW S, IsFiniteSet(S), NEW order, StrictOrder(order, S),
         NEW x \in S, NEW y \in S, <<x, y>> \in order
  PROVE  Cardinality(Below(x, S, order)) < Cardinality(Below(y, S, order))
<1> DEFINE X == Below(x, S, order)
           Y == Below(y, S, order)
<1>1. X \subseteq Y /\ x \in Y /\ x \notin X
  BY DEF StrictOrder, Below
<1>2. IsFiniteSet(Y) /\ IsFiniteSet(X)
  BY FS_Subset DEF Below
<1>3. Cardinality(X) <= Cardinality(Y) /\ (Cardinality(Y) = Cardinality(X) => Y = X)
  BY <1>1, <1>2, FS_Subset
<1>4. Cardinality(X) \in Nat /\ Cardinality(Y) \in Nat
  BY <1>2, FS_CardinalityType
<1> QED
  BY <1>1, <1>3, <1>4

(* Everything but the element itself may come before it.                   *)
LEMMA BelowBounded ==
  ASSUME NEW S, IsFiniteSet(S), NEW order, StrictOrder(order, S), NEW x \in S
  PROVE  Cardinality(Below(x, S, order)) + 1 \in 1..Cardinality(S)
<1> DEFINE X == Below(x, S, order)
<1>1. X \subseteq S \ {x}
  BY DEF StrictOrder, Below
<1>2. IsFiniteSet(S \ {x}) /\ Cardinality(S \ {x}) = Cardinality(S) - 1
  BY FS_RemoveElement
<1>3. IsFiniteSet(X) /\ Cardinality(X) <= Cardinality(S) - 1
  BY <1>1, <1>2, FS_Subset
<1>4. Cardinality(X) \in Nat /\ Cardinality(S) \in Nat
  BY <1>3, FS_CardinalityType
<1> QED
  BY <1>3, <1>4

(* A ranking has each element of the set once, in the order.               *)
LEMMA RankedSorts ==
  ASSUME NEW S, IsFiniteSet(S), NEW order, StrictOrder(order, S)
  PROVE  /\ Ranked(S, order) \in Bijection(1..Cardinality(S), S)
         /\ \A j, k \in 1..Cardinality(S) :
              j < k <=> <<Ranked(S, order)[j], Ranked(S, order)[k]>> \in order
<1> DEFINE n     == Cardinality(S)
           place == [x \in S |-> Cardinality(Below(x, S, order)) + 1]
           list  == Ranked(S, order)
<1>0. n \in Nat /\ IsFiniteSet(1..n) /\ Cardinality(1..n) = n
  <2>1. n \in Nat
    BY FS_CardinalityType
  <2>2. 1 \in Int /\ n \in Int
    BY <2>1
  <2>3. IsFiniteSet(1..n) /\ Cardinality(1..n) = IF 1 > n THEN 0 ELSE n - 1 + 1
    BY <2>2, FS_Interval
  <2> QED
    BY <2>1, <2>3
<1>1. \A x \in S : place[x] \in 1..n
  BY BelowBounded
<1>2. \A x, y \in S : <<x, y>> \in order => place[x] < place[y]
  <2> SUFFICES ASSUME NEW x \in S, NEW y \in S, <<x, y>> \in order PROVE place[x] < place[y]
    OBVIOUS
  <2>1. Cardinality(Below(x, S, order)) < Cardinality(Below(y, S, order))
    BY BelowGrows
  <2>2. place[x] \in Int /\ place[y] \in Int
    BY <1>1
  <2>3. Cardinality(Below(x, S, order)) \in Int /\ Cardinality(Below(y, S, order)) \in Int
    <3>1. IsFiniteSet(Below(x, S, order)) /\ IsFiniteSet(Below(y, S, order))
      BY FS_Subset DEF Below
    <3> QED
      BY <3>1, FS_CardinalityType
  <2> QED
    BY <2>1, <2>3
<1>3. \A x, y \in S : place[x] = place[y] => x = y
  <2> SUFFICES ASSUME NEW x \in S, NEW y \in S, x # y PROVE place[x] # place[y]
    OBVIOUS
  <2>1. place[x] \in Int /\ place[y] \in Int
    BY <1>1
  <2>2. <<x, y>> \in order \/ <<y, x>> \in order
    BY DEF StrictOrder
  <2> HIDE DEF place
  <2>3. place[x] < place[y] \/ place[y] < place[x]
    BY <1>2, <2>2
  <2> QED
    BY <2>1, <2>3
<1>4. place \in Injection(S, 1..n)
  BY <1>1, <1>3 DEF Injection, IsInjective
<1>5. place \in Surjection(S, 1..n)
  <2> HIDE DEF place
  <2> QED
    BY <1>0, <1>4, FS_Injection
<1>6. \A k \in 1..n : list[k] \in S /\ place[list[k]] = k
  <2> SUFFICES ASSUME NEW k \in 1..n PROVE list[k] \in S /\ place[list[k]] = k
    OBVIOUS
  <2>1. PICK x \in S : place[x] = k
    BY <1>5 DEF Surjection
  <2>2. Cardinality(Below(x, S, order)) = k - 1
    <3>1. IsFiniteSet(Below(x, S, order))
      BY FS_Subset DEF Below
    <3>2. Cardinality(Below(x, S, order)) \in Nat
      BY <3>1, FS_CardinalityType
    <3> QED
      BY <2>1, <3>2
  <2>3. list[k] = CHOOSE y \in S : Cardinality(Below(y, S, order)) = k - 1
    BY DEF Ranked
  <2>4. list[k] \in S /\ Cardinality(Below(list[k], S, order)) = k - 1
    BY <2>2, <2>3
  <2>5. k - 1 + 1 = k
    OBVIOUS
  <2> QED
    BY <2>4, <2>5
<1>7. list \in [1..n -> S]
  <2>1. list = [k \in 1..n |-> list[k]]
    BY DEF Ranked
  <2> QED
    BY <1>6, <2>1
<1> HIDE DEF place, list, n
<1>8. \A x \in S : list[place[x]] = x
  BY <1>1, <1>3, <1>6
<1>9. list \in Bijection(1..n, S)
  BY <1>1, <1>6, <1>7, <1>8 DEF Bijection, Injection, Surjection, IsInjective
<1>10. ASSUME NEW j \in 1..n, NEW k \in 1..n
       PROVE  j < k <=> <<list[j], list[k]>> \in order
  <2>1. list[j] \in S /\ list[k] \in S /\ place[list[j]] = j /\ place[list[k]] = k
    BY <1>6
  <2>2. CASE j < k
    <3>1. list[j] # list[k] /\ <<list[k], list[j]>> \notin order
      BY <1>0, <1>2, <2>1, <2>2
    <3> QED
      BY <2>1, <2>2, <3>1 DEF StrictOrder
  <2>3. CASE <<list[j], list[k]>> \in order
    BY <1>2, <2>1, <2>3
  <2> QED
    BY <2>2, <2>3
<1> QED
  BY <1>9, <1>10 DEF n, list

(* The k-th of such a list has k - 1 before it.                            *)
LEMMA ListedPlaces ==
  ASSUME NEW S, NEW order, NEW n \in Nat, NEW f \in Bijection(1..n, S),
         \A j, k \in 1..n : j < k <=> <<f[j], f[k]>> \in order
  PROVE  \A k \in 1..n : Cardinality(Below(f[k], S, order)) = k - 1
<1>1. /\ f \in [1..n -> S]
      /\ \A x \in S : \E k \in 1..n : f[k] = x
      /\ \A j, k \in 1..n : f[j] = f[k] => j = k
  BY DEF Bijection, Injection, Surjection, IsInjective
<1> SUFFICES ASSUME NEW k \in 1..n PROVE Cardinality(Below(f[k], S, order)) = k - 1
  OBVIOUS
<1> DEFINE X == Below(f[k], S, order)
           g == [j \in 1..(k - 1) |-> f[j]]
<1>2. k - 1 \in Nat /\ 1..(k - 1) \subseteq 1..n
  OBVIOUS
<1>3. \A j \in 1..(k - 1) : g[j] \in X
  BY <1>1, <1>2 DEF Below
<1>4. \A x \in X : \E j \in 1..(k - 1) : g[j] = x
  <2> SUFFICES ASSUME NEW x \in X PROVE \E j \in 1..(k - 1) : g[j] = x
    OBVIOUS
  <2>1. PICK j \in 1..n : f[j] = x
    BY <1>1 DEF Below
  <2>2. j < k
    BY <2>1 DEF Below
  <2> QED
    BY <2>1, <2>2
<1>5. g \in Bijection(1..(k - 1), X)
  BY <1>1, <1>2, <1>3, <1>4 DEF Bijection, Injection, Surjection, IsInjective
<1> HIDE DEF g, X
<1> QED
  BY <1>2, <1>5, FS_CountingElements DEF ExistsBijection, X

(* The k-th of a ranking is the only element with k - 1 before it.         *)
LEMMA RankedPlaces ==
  ASSUME NEW S, IsFiniteSet(S), NEW order, StrictOrder(order, S)
  PROVE  \A k \in 1..Cardinality(S) :
           /\ Ranked(S, order)[k] \in S
           /\ Cardinality(Below(Ranked(S, order)[k], S, order)) = k - 1
           /\ \A x \in S : Cardinality(Below(x, S, order)) = k - 1 => x = Ranked(S, order)[k]
<1> DEFINE n == Cardinality(S)
           f == Ranked(S, order)
<1>1. n \in Nat
  BY FS_CardinalityType
<1>2. f \in Bijection(1..n, S) /\ \A j, k \in 1..n : j < k <=> <<f[j], f[k]>> \in order
  BY RankedSorts
<1> HIDE DEF n, f
<1>3. \A k \in 1..n : Cardinality(Below(f[k], S, order)) = k - 1
  BY <1>1, <1>2, ListedPlaces
<1>4. f \in [1..n -> S] /\ \A x \in S : \E k \in 1..n : f[k] = x
  BY <1>2 DEF Bijection, Injection, Surjection
<1> SUFFICES ASSUME NEW k \in 1..n
             PROVE  /\ f[k] \in S /\ Cardinality(Below(f[k], S, order)) = k - 1
                    /\ \A x \in S : Cardinality(Below(x, S, order)) = k - 1 => x = f[k]
  BY DEF n, f
<1>5. ASSUME NEW x \in S, Cardinality(Below(x, S, order)) = k - 1 PROVE x = f[k]
  <2>1. PICK j \in 1..n : f[j] = x
    BY <1>4
  <2>2. j - 1 = k - 1
    BY <1>3, <1>5, <2>1
  <2> QED
    BY <2>1, <2>2
<1> QED
  BY <1>3, <1>4, <1>5

(* A list that has each element once and in the order is the ranking.      *)
LEMMA RankedUnique ==
  ASSUME NEW S, NEW order, NEW n \in Nat, NEW f \in Bijection(1..n, S),
         \A j, k \in 1..n : j < k <=> <<f[j], f[k]>> \in order
  PROVE  IsFiniteSet(S) /\ Cardinality(S) = n /\ Ranked(S, order) = f
<1>1. IsFiniteSet(S) /\ Cardinality(S) = n
  BY FS_NatBijection, FS_CountingElements DEF ExistsBijection
<1>2. /\ f \in [1..n -> S]
      /\ \A x \in S : \E k \in 1..n : f[k] = x
      /\ \A j, k \in 1..n : f[j] = f[k] => j = k
  BY DEF Bijection, Injection, Surjection, IsInjective
<1>3. \A k \in 1..n : Cardinality(Below(f[k], S, order)) = k - 1
  BY ListedPlaces
<1>4. \A k \in 1..n : (CHOOSE x \in S : Cardinality(Below(x, S, order)) = k - 1) = f[k]
  <2> SUFFICES ASSUME NEW k \in 1..n
               PROVE  (CHOOSE x \in S : Cardinality(Below(x, S, order)) = k - 1) = f[k]
    OBVIOUS
  <2>1. f[k] \in S /\ Cardinality(Below(f[k], S, order)) = k - 1
    BY <1>2, <1>3
  <2>2. ASSUME NEW x \in S, Cardinality(Below(x, S, order)) = k - 1 PROVE x = f[k]
    <3>1. PICK j \in 1..n : f[j] = x
      BY <1>2
    <3>2. j - 1 = k - 1
      BY <1>3, <2>2, <3>1
    <3> QED
      BY <3>1, <3>2
  <2> QED
    BY <2>1, <2>2
<1>5. Ranked(S, order) = [k \in 1..n |-> f[k]]
  BY <1>1, <1>4 DEF Ranked
<1> QED
  BY <1>1, <1>2, <1>5

(* Renaming the elements renames their ranking.                            *)
LEMMA RankedRenamed ==
  ASSUME NEW I, IsFiniteSet(I), NEW from, StrictOrder(from, I),
         NEW S, NEW order, NEW g \in Bijection(I, S),
         \A i, j \in I : <<i, j>> \in from <=> <<g[i], g[j]>> \in order
  PROVE  Ranked(S, order) = [k \in DOMAIN Ranked(I, from) |-> g[Ranked(I, from)[k]]]
<1> DEFINE n == Cardinality(I)
           r == Ranked(I, from)
           f == [k \in DOMAIN r |-> g[r[k]]]
<1>1. n \in Nat
  BY FS_CardinalityType
<1>2. r \in Bijection(1..n, I) /\ \A j, k \in 1..n : j < k <=> <<r[j], r[k]>> \in from
  BY RankedSorts
<1>3. /\ r \in [1..n -> I]
      /\ \A x \in I : \E k \in 1..n : r[k] = x
      /\ \A j, k \in 1..n : r[j] = r[k] => j = k
  BY <1>2 DEF Bijection, Injection, Surjection, IsInjective
<1>4. /\ g \in [I -> S]
      /\ \A x \in S : \E i \in I : g[i] = x
      /\ \A i, j \in I : g[i] = g[j] => i = j
  BY DEF Bijection, Injection, Surjection, IsInjective
<1>5. f = [k \in 1..n |-> g[r[k]]]
  BY <1>3
<1> HIDE DEF r, n, f
<1>6. f \in Bijection(1..n, S)
  <2>1. f \in [1..n -> S]
    BY <1>3, <1>4, <1>5
  <2>2. \A x \in S : \E k \in 1..n : f[k] = x
    BY <1>3, <1>4, <1>5
  <2>3. \A j, k \in 1..n : f[j] = f[k] => j = k
    BY <1>3, <1>4, <1>5
  <2> QED
    BY <2>1, <2>2, <2>3 DEF Bijection, Injection, Surjection, IsInjective
<1>7. \A j, k \in 1..n : j < k <=> <<f[j], f[k]>> \in order
  BY <1>2, <1>3, <1>5
<1>8. Ranked(S, order) = f
  BY <1>1, <1>6, <1>7, RankedUnique
<1> QED
  BY <1>8 DEF f, r

(* Integers in their own order are ranked by it.                           *)
LEMMA AscendingRanks ==
  ASSUME NEW S \in SUBSET Int, IsFiniteSet(S)
  PROVE  LET order == {p \in S \X S : p[1] < p[2]}
         IN  /\ \A x, y \in S : <<x, y>> \in order <=> x < y
             /\ StrictOrder(order, S)
             /\ Ascending(S) = Ranked(S, order)
<1> DEFINE order == {p \in S \X S : p[1] < p[2]}
           n     == Cardinality(S)
<1>1. \A x, y \in S : <<x, y>> \in order <=> x < y
  OBVIOUS
<1>2. StrictOrder(order, S)
  BY <1>1 DEF StrictOrder
<1>3. \A x \in S : {y \in S : y < x} = Below(x, S, order)
  BY <1>1 DEF Below
<1> HIDE DEF order
<1>4. \A k \in 1..n : Ascending(S)[k] = Ranked(S, order)[k]
  <2> SUFFICES ASSUME NEW k \in 1..n PROVE Ascending(S)[k] = Ranked(S, order)[k]
    OBVIOUS
  <2> DEFINE f == Ranked(S, order)
             c == CHOOSE x \in S : Cardinality({y \in S : y < x}) = k - 1
  <2>1. /\ f[k] \in S /\ Cardinality(Below(f[k], S, order)) = k - 1
        /\ \A x \in S : Cardinality(Below(x, S, order)) = k - 1 => x = f[k]
    BY <1>2, RankedPlaces
  <2>2. \E x \in S : Cardinality({y \in S : y < x}) = k - 1
    BY <1>3, <2>1
  <2>3. c \in S /\ Cardinality({y \in S : y < c}) = k - 1
    BY <2>2
  <2>4. Ascending(S)[k] = c
    BY DEF Ascending
  <2> HIDE DEF c, f
  <2>5. c = f[k]
    BY <1>3, <2>1, <2>3
  <2> QED
    BY <2>4, <2>5 DEF f
<1>5. Ascending(S) = [k \in 1..n |-> Ascending(S)[k]]
  <2> DEFINE at(k) == CHOOSE x \in S : Cardinality({y \in S : y < x}) = k - 1
  <2>1. Ascending(S) = [k \in 1..n |-> at(k)]
    BY DEF Ascending
  <2> HIDE DEF at
  <2> QED
    BY <2>1
<1>6. Ranked(S, order) = [k \in 1..n |-> Ranked(S, order)[k]]
  BY DEF Ranked
<1>7. Ascending(S) = Ranked(S, order)
  BY <1>4, <1>5, <1>6
<1> QED
  BY <1>1, <1>2, <1>7 DEF order

(* Integers are ranked by their values, each once.                         *)
LEMMA AscendingSorts ==
  ASSUME NEW S \in SUBSET Int, IsFiniteSet(S)
  PROVE  /\ Cardinality(S) \in Nat
         /\ Ascending(S) \in [1..Cardinality(S) -> S]
         /\ \A x \in S : \E k \in 1..Cardinality(S) : Ascending(S)[k] = x
         /\ \A j, k \in 1..Cardinality(S) : j < k <=> Ascending(S)[j] < Ascending(S)[k]
<1> DEFINE order == {p \in S \X S : p[1] < p[2]}
<1>1. \A x, y \in S : <<x, y>> \in order <=> x < y
  BY AscendingRanks
<1>2. StrictOrder(order, S)
  BY AscendingRanks
<1>3. Ascending(S) = Ranked(S, order)
  BY AscendingRanks
<1>4. Cardinality(S) \in Nat
  BY FS_CardinalityType
<1> HIDE DEF order
<1>5. /\ Ranked(S, order) \in Bijection(1..Cardinality(S), S)
      /\ \A j, k \in 1..Cardinality(S) :
           j < k <=> <<Ranked(S, order)[j], Ranked(S, order)[k]>> \in order
  BY <1>2, RankedSorts
<1>6. /\ Ranked(S, order) \in [1..Cardinality(S) -> S]
      /\ \A x \in S : \E k \in 1..Cardinality(S) : Ranked(S, order)[k] = x
  BY <1>5 DEF Bijection, Injection, Surjection
<1> QED
  BY <1>1, <1>3, <1>4, <1>5, <1>6

(* A list that rises is the set of its elements in order.                  *)
LEMMA AscendingUnique ==
  ASSUME NEW n \in Nat, NEW f \in [1..n -> Int],
         \A j, k \in 1..n : j < k => f[j] < f[k],
         NEW S, S = {f[k] : k \in 1..n}
  PROVE  IsFiniteSet(S) /\ Cardinality(S) = n /\ Ascending(S) = f
<1> DEFINE order == {p \in S \X S : p[1] < p[2]}
<1>1. \A j, k \in 1..n : j < k <=> f[j] < f[k]
  <2> SUFFICES ASSUME NEW j \in 1..n, NEW k \in 1..n, f[j] < f[k] PROVE j < k
    OBVIOUS
  <2>1. f[j] \in Int /\ f[k] \in Int /\ ~(k < j) /\ j # k
    OBVIOUS
  <2> QED
    BY <2>1
<1>2. f \in Bijection(1..n, S)
  <2>1. f \in [1..n -> S] /\ \A x \in S : \E k \in 1..n : f[k] = x
    OBVIOUS
  <2>2. \A j, k \in 1..n : f[j] = f[k] => j = k
    <3> SUFFICES ASSUME NEW j \in 1..n, NEW k \in 1..n, f[j] = f[k] PROVE j = k
      OBVIOUS
    <3>1. f[j] \in Int /\ ~(j < k) /\ ~(k < j)
      BY <1>1
    <3> QED
      BY <3>1
  <2> QED
    BY <2>1, <2>2 DEF Bijection, Injection, Surjection, IsInjective
<1>3. \A j, k \in 1..n : j < k <=> <<f[j], f[k]>> \in order
  BY <1>1
<1>4. S \in SUBSET Int
  OBVIOUS
<1>5. IsFiniteSet(S) /\ Cardinality(S) = n /\ Ranked(S, order) = f
  <2> HIDE DEF order
  <2> QED
    BY <1>2, <1>3, RankedUnique
<1>6. Ascending(S) = Ranked(S, order)
  BY <1>4, <1>5, AscendingRanks
<1> QED
  BY <1>5, <1>6

(* The first numbers in order are the numbers themselves.                  *)
LEMMA AscendingRange ==
  ASSUME NEW n \in Nat PROVE Ascending(1..n) = [i \in 1..n |-> i]
<1> DEFINE f == [i \in 1..n |-> i]
<1>1. f \in [1..n -> Int] /\ (\A j, k \in 1..n : j < k => f[j] < f[k]) /\ 1..n = {f[k] : k \in 1..n}
  OBVIOUS
<1> HIDE DEF f
<1> QED
  BY <1>1, AscendingUnique DEF f

(* Fewer than max come before at most max elements.                        *)
LEMMA FewBelow ==
  ASSUME NEW S, IsFiniteSet(S), NEW order, StrictOrder(order, S), NEW max \in Nat
  PROVE  Cardinality({x \in S : Cardinality(Below(x, S, order)) < max}) <= max
<1> DEFINE first == {x \in S : Cardinality(Below(x, S, order)) < max}
           place == [x \in first |-> Cardinality(Below(x, S, order)) + 1]
<1>1. \A x \in S : Cardinality(Below(x, S, order)) \in Nat
  <2> SUFFICES ASSUME NEW x \in S PROVE Cardinality(Below(x, S, order)) \in Nat
    OBVIOUS
  <2>1. IsFiniteSet(Below(x, S, order))
    BY FS_Subset DEF Below
  <2> QED
    BY <2>1, FS_CardinalityType
<1>2. \A x \in first : place[x] \in 1..max
  BY <1>1
<1>3. ASSUME NEW x \in first, NEW y \in first, x # y PROVE place[x] # place[y]
  <2>1. <<x, y>> \in order \/ <<y, x>> \in order
    BY <1>3 DEF StrictOrder
  <2>2. CASE <<x, y>> \in order
    <3>1. Cardinality(Below(x, S, order)) < Cardinality(Below(y, S, order))
      BY <2>2, BelowGrows
    <3> QED
      BY <1>1, <3>1
  <2>3. CASE <<y, x>> \in order
    <3>1. Cardinality(Below(y, S, order)) < Cardinality(Below(x, S, order))
      BY <2>3, BelowGrows
    <3> QED
      BY <1>1, <3>1
  <2> QED
    BY <2>1, <2>2, <2>3
<1>4. place \in Injection(first, 1..max)
  BY <1>2, <1>3 DEF Injection, IsInjective
<1>5. IsFiniteSet(1..max) /\ Cardinality(1..max) = max
  <2>1. 1 \in Int /\ max \in Int
    OBVIOUS
  <2>2. IsFiniteSet(1..max) /\ Cardinality(1..max) = IF 1 > max THEN 0 ELSE max - 1 + 1
    BY <2>1, FS_Interval
  <2> QED
    BY <2>2
<1> HIDE DEF place, first
<1>6. Cardinality(first) <= Cardinality(1..max)
  BY <1>4, <1>5, FS_Injection
<1> QED
  BY <1>5, <1>6 DEF first

-----------------------------------------------------------------------------
(* Lists of what is picked and of what is fresh                           *)

(* A finite set of integers has a first and a last.                        *)
LEMMA FirstAndLast ==
  ASSUME NEW S \in SUBSET Int, IsFiniteSet(S), S # {}
  PROVE  /\ \E x \in S : \A y \in S : x <= y
         /\ \E x \in S : \A y \in S : y <= x
<1> DEFINE n == Cardinality(S)
           f == Ascending(S)
<1>1. /\ n \in Nat /\ f \in [1..n -> S]
      /\ \A x \in S : \E k \in 1..n : f[k] = x
      /\ \A j, k \in 1..n : j < k <=> f[j] < f[k]
  BY AscendingSorts
<1> HIDE DEF n, f
<1>2. 1 \in 1..n /\ n \in 1..n
  <2>1. PICK x \in S : TRUE
    OBVIOUS
  <2>2. PICK k \in 1..n : f[k] = x
    BY <1>1, <2>1
  <2> QED
    BY <1>1, <2>2
<1>3. \A k \in 1..n : f[1] <= f[k] /\ f[k] <= f[n]
  <2> SUFFICES ASSUME NEW k \in 1..n PROVE f[1] <= f[k] /\ f[k] <= f[n]
    OBVIOUS
  <2>1. f[1] \in Int /\ f[k] \in Int /\ f[n] \in Int
    BY <1>1, <1>2
  <2>2. ~(k < 1) /\ ~(n < k)
    BY <1>1
  <2> QED
    BY <1>1, <1>2, <2>1, <2>2
<1>4. f[1] \in S /\ f[n] \in S
  BY <1>1, <1>2
<1>5. \A y \in S : f[1] <= y /\ y <= f[n]
  BY <1>1, <1>3
<1> QED
  BY <1>4, <1>5

(* Places between 1 and n are a finite set of integers.                    *)
LEMMA PlacesFinite ==
  ASSUME NEW n \in Int, NEW K \in SUBSET (1..n)
  PROVE  K \in SUBSET Int /\ IsFiniteSet(K)
<1>1. IsFiniteSet(1..n)
  <2>1. 1 \in Int
    OBVIOUS
  <2> QED
    BY <2>1, FS_Interval
<1>2. IsFiniteSet(K)
  BY <1>1, FS_Subset
<1> QED
  BY <1>2

(* What stands at the places K of a sequence, in order.                    *)
LEMMA PlacesKept ==
  ASSUME NEW n \in Int, NEW s, DOMAIN s = 1..n, NEW K \in SUBSET (1..n)
  PROVE  /\ Cardinality(K) \in Nat
         /\ Ascending(K) \in [1..Cardinality(K) -> K]
         /\ \A k \in K : \E j \in 1..Cardinality(K) : Ascending(K)[j] = k
         /\ \A i, j \in 1..Cardinality(K) : i < j <=> Ascending(K)[i] < Ascending(K)[j]
         /\ AtPlaces(s, Ascending(K)) = [j \in 1..Cardinality(K) |-> s[Ascending(K)[j]]]
<1> DEFINE m == Cardinality(K)
           g == Ascending(K)
<1>0. K \in SUBSET Int /\ IsFiniteSet(K)
  BY PlacesFinite
<1>1. /\ m \in Nat /\ g \in [1..m -> K]
      /\ \A x \in K : \E k \in 1..m : g[k] = x
      /\ \A j, k \in 1..m : j < k <=> g[j] < g[k]
  BY <1>0, AscendingSorts
<1>2. AtPlaces(s, Ascending(K)) = [j \in 1..m |-> s[g[j]]]
  <2>1. AtPlaces(s, g) = [j \in DOMAIN g |-> s[g[j]]]
    BY DEF AtPlaces
  <2> HIDE DEF g, m
  <2>2. DOMAIN g = 1..m
    BY <1>1
  <2> QED
    BY <2>1, <2>2 DEF g
<1> QED
  BY <1>1, <1>2

(* Picked keeps the order of what it keeps.                                *)
LEMMA PickedFacts ==
  ASSUME NEW T, NEW s \in Seq(T), NEW S
  PROVE  /\ Picked(s, S) \in Seq(T)
         /\ \A x : (\E j \in DOMAIN Picked(s, S) : Picked(s, S)[j] = x)
                     <=> (x \in S /\ \E k \in DOMAIN s : s[k] = x)
         /\ \A i, j \in DOMAIN Picked(s, S) : i < j =>
              \E k, l \in DOMAIN s : k < l /\ Picked(s, S)[i] = s[k] /\ Picked(s, S)[j] = s[l]
<1> DEFINE K == {k \in DOMAIN s : s[k] \in S}
           r == Picked(s, S)
<1>0. Len(s) \in Int /\ DOMAIN s = 1..Len(s) /\ \A k \in DOMAIN s : s[k] \in T
  OBVIOUS
<1>1. PICK n \in Int : DOMAIN s = 1..n /\ \A k \in DOMAIN s : s[k] \in T
  BY <1>0
<1>2. K \in SUBSET (1..n)
  BY <1>1
<1>3. r = AtPlaces(s, Ascending(K))
  BY DEF Picked
<1> HIDE DEF K, r
<1> DEFINE m == Cardinality(K)
           g == Ascending(K)
<1>4. /\ m \in Nat /\ g \in [1..m -> K]
      /\ \A k \in K : \E j \in 1..m : g[j] = k
      /\ \A i, j \in 1..m : i < j <=> g[i] < g[j]
      /\ AtPlaces(s, g) = [j \in 1..m |-> s[g[j]]]
  <2>1. DOMAIN s = 1..n
    BY <1>1
  <2> QED
    BY <1>2, <2>1, PlacesKept
<1> HIDE DEF m
<1>5. r = [j \in 1..m |-> s[g[j]]]
  BY <1>3, <1>4
<1> HIDE DEF g
<1>7. \A k : k \in K <=> k \in DOMAIN s /\ s[k] \in S
  BY DEF K
<1>8. \A j \in 1..m : g[j] \in K /\ r[j] = s[g[j]] /\ r[j] \in T
  BY <1>1, <1>4, <1>5, <1>7
<1>9. r \in Seq(T) /\ DOMAIN r = 1..m
  BY <1>4, <1>5, <1>8
<1>10. \A x : (\E j \in DOMAIN r : r[j] = x) <=> (x \in S /\ \E k \in DOMAIN s : s[k] = x)
  <2> SUFFICES ASSUME NEW x
               PROVE  (\E j \in DOMAIN r : r[j] = x) <=> (x \in S /\ \E k \in DOMAIN s : s[k] = x)
    OBVIOUS
  <2>1. ASSUME NEW j \in DOMAIN r, r[j] = x PROVE x \in S /\ \E k \in DOMAIN s : s[k] = x
    BY <1>7, <1>8, <1>9, <2>1
  <2>2. ASSUME x \in S, NEW k \in DOMAIN s, s[k] = x PROVE \E j \in DOMAIN r : r[j] = x
    <3>1. k \in K
      BY <1>7, <2>2
    <3>2. PICK j \in 1..m : g[j] = k
      BY <1>4, <3>1
    <3> QED
      BY <1>8, <1>9, <2>2, <3>2
  <2> QED
    BY <2>1, <2>2
<1>11. \A i, j \in DOMAIN r : i < j =>
         \E k, l \in DOMAIN s : k < l /\ r[i] = s[k] /\ r[j] = s[l]
  BY <1>4, <1>7, <1>8, <1>9
<1> QED
  BY <1>9, <1>10, <1>11 DEF r

(* Fresh has what is not dropped once, where it stands first.              *)
LEMMA FreshFacts ==
  ASSUME NEW T, NEW s \in Seq(T), NEW D
  PROVE  /\ Fresh(s, D) \in Seq(T)
         /\ \A x : (\E j \in DOMAIN Fresh(s, D) : Fresh(s, D)[j] = x)
                     <=> (x \notin D /\ \E k \in DOMAIN s : s[k] = x)
         /\ \A i, j \in DOMAIN Fresh(s, D) : i < j =>
              \E k, l \in DOMAIN s : /\ k < l /\ Fresh(s, D)[i] = s[k] /\ Fresh(s, D)[j] = s[l]
                                     /\ s[k] \notin D /\ s[l] \notin D
                                     /\ \A o \in 1..(l - 1) : s[o] # s[l]
<1> DEFINE K == {k \in DOMAIN s : s[k] \notin D /\ \A o \in 1..(k - 1) : s[o] # s[k]}
           r == Fresh(s, D)
<1>0. Len(s) \in Int /\ DOMAIN s = 1..Len(s) /\ \A k \in DOMAIN s : s[k] \in T
  OBVIOUS
<1>1. PICK n \in Int : DOMAIN s = 1..n /\ \A k \in DOMAIN s : s[k] \in T
  BY <1>0
<1>2. K \in SUBSET (1..n)
  BY <1>1
<1>3. r = AtPlaces(s, Ascending(K))
  BY DEF Fresh
<1> HIDE DEF K, r
<1> DEFINE m == Cardinality(K)
           g == Ascending(K)
<1>4. /\ m \in Nat /\ g \in [1..m -> K]
      /\ \A k \in K : \E j \in 1..m : g[j] = k
      /\ \A i, j \in 1..m : i < j <=> g[i] < g[j]
      /\ AtPlaces(s, g) = [j \in 1..m |-> s[g[j]]]
  <2>1. DOMAIN s = 1..n
    BY <1>1
  <2> QED
    BY <1>2, <2>1, PlacesKept
<1> HIDE DEF m
<1>5. r = [j \in 1..m |-> s[g[j]]]
  BY <1>3, <1>4
<1> HIDE DEF g
<1>7. \A k : k \in K <=> k \in DOMAIN s /\ s[k] \notin D /\ \A o \in 1..(k - 1) : s[o] # s[k]
  BY DEF K
<1>8. \A j \in 1..m : g[j] \in K /\ r[j] = s[g[j]] /\ r[j] \in T
  BY <1>1, <1>4, <1>5, <1>7
<1>9. r \in Seq(T) /\ DOMAIN r = 1..m
  BY <1>4, <1>5, <1>8
<1>10. ASSUME NEW k \in DOMAIN s, s[k] \notin D PROVE \E l \in K : s[l] = s[k]
  <2> DEFINE E == {o \in 1..n : s[o] = s[k]}
  <2>1. E \in SUBSET (1..n) /\ k \in E
    BY <1>1
  <2>2. E \in SUBSET Int /\ IsFiniteSet(E)
    BY <1>1, <2>1, PlacesFinite
  <2>3. PICK l \in E : \A o \in E : l <= o
    <3> HIDE DEF E
    <3> QED
      BY <2>1, <2>2, FirstAndLast
  <2>4. l \in DOMAIN s /\ s[l] = s[k]
    BY <1>1, <2>3
  <2>5. \A o \in 1..(l - 1) : s[o] # s[l]
    BY <1>1, <2>3, <2>4
  <2> QED
    BY <1>7, <1>10, <2>4, <2>5
<1>11. \A x : (\E j \in DOMAIN r : r[j] = x) <=> (x \notin D /\ \E k \in DOMAIN s : s[k] = x)
  <2> SUFFICES ASSUME NEW x
               PROVE  (\E j \in DOMAIN r : r[j] = x) <=> (x \notin D /\ \E k \in DOMAIN s : s[k] = x)
    OBVIOUS
  <2>1. ASSUME NEW j \in DOMAIN r, r[j] = x PROVE x \notin D /\ \E k \in DOMAIN s : s[k] = x
    BY <1>7, <1>8, <1>9, <2>1
  <2>2. ASSUME x \notin D, NEW k \in DOMAIN s, s[k] = x PROVE \E j \in DOMAIN r : r[j] = x
    <3>1. PICK l \in K : s[l] = x
      BY <1>10, <2>2
    <3> QED
      BY <1>4, <1>8, <1>9, <3>1
  <2> QED
    BY <2>1, <2>2
<1>12. \A i, j \in DOMAIN r : i < j =>
         \E k, l \in DOMAIN s : /\ k < l /\ r[i] = s[k] /\ r[j] = s[l]
                                /\ s[k] \notin D /\ s[l] \notin D
                                /\ \A o \in 1..(l - 1) : s[o] # s[l]
  <2> SUFFICES ASSUME NEW i \in 1..m, NEW j \in 1..m, i < j
               PROVE \E k, l \in DOMAIN s : /\ k < l /\ r[i] = s[k] /\ r[j] = s[l]
                                /\ s[k] \notin D /\ s[l] \notin D
                                /\ \A o \in 1..(l - 1) : s[o] # s[l]
    BY <1>9
  <2>1. g[i] \in K /\ g[j] \in K /\ g[i] < g[j] /\ r[i] = s[g[i]] /\ r[j] = s[g[j]]
    BY <1>4, <1>8
  <2> QED
    BY <1>7, <2>1
<1> QED
  BY <1>9, <1>11, <1>12 DEF r

(* Nothing fresh, and a single fresh element.                              *)
LEMMA FreshFew ==
  ASSUME NEW T, NEW s \in Seq(T), NEW D
  PROVE  /\ (\A k \in DOMAIN s : s[k] \in D) => Fresh(s, D) = <<>>
         /\ \A t \in T : t \notin D /\ (\E k \in DOMAIN s : s[k] = t)
                                 /\ (\A k \in DOMAIN s : s[k] \in D \/ s[k] = t)
                         => Fresh(s, D) = <<t>>
<1> DEFINE r == Fresh(s, D)
<1>1. /\ r \in Seq(T)
      /\ \A x : (\E j \in DOMAIN r : r[j] = x) <=> (x \notin D /\ \E k \in DOMAIN s : s[k] = x)
      /\ \A i, j \in DOMAIN r : i < j =>
              \E k, l \in DOMAIN s : /\ k < l /\ r[i] = s[k] /\ r[j] = s[l]
                                     /\ s[k] \notin D /\ s[l] \notin D
                                     /\ \A o \in 1..(l - 1) : s[o] # s[l]
  BY FreshFacts
<1>2. Len(s) \in Nat /\ DOMAIN s = 1..Len(s)
  OBVIOUS
<1> HIDE DEF r
<1>3. Len(r) \in Nat /\ DOMAIN r = 1..Len(r)
  BY <1>1
<1>4. ASSUME \A k \in DOMAIN s : s[k] \in D PROVE r = <<>>
  <2>1. \A j \in DOMAIN r : FALSE
    BY <1>1, <1>4
  <2>2. Len(r) = 0
    <3>1. 1 \notin 1..Len(r)
      BY <1>3, <2>1
    <3> QED
      BY <1>3, <3>1
  <2> QED
    BY <1>1, <2>2
<1>5. ASSUME NEW t \in T, t \notin D, NEW k \in DOMAIN s, s[k] = t,
             \A l \in DOMAIN s : s[l] \in D \/ s[l] = t
      PROVE  r = <<t>>
  <2>1. \A j \in DOMAIN r : r[j] = t
    BY <1>1, <1>5
  <2>2. \E j \in DOMAIN r : r[j] = t
    BY <1>1, <1>5
  <2>3. ~(Len(r) > 1)
    <3> SUFFICES ASSUME Len(r) > 1 PROVE FALSE
      OBVIOUS
    <3>1. 1 \in DOMAIN r /\ 2 \in DOMAIN r /\ 1 < 2
      BY <1>3
    <3>2. PICK i, l \in DOMAIN s : /\ i < l /\ r[1] = s[i] /\ r[2] = s[l]
                                  /\ \A o \in 1..(l - 1) : s[o] # s[l]
      BY <1>1, <3>1
    <3>3. i \in 1..(l - 1) /\ s[i] = s[l]
      BY <1>2, <2>1, <3>1, <3>2
    <3> QED
      BY <3>2, <3>3
  <2>4. Len(r) = 1
    BY <1>3, <2>2, <2>3
  <2>5. r[1] = t
    BY <1>3, <2>1, <2>4
  <2> QED
    BY <1>1, <2>4, <2>5
<1> QED
  BY <1>4, <1>5 DEF r

(* Where each first occurrence is above what stands before it, what is     *)
(* fresh rises.                                                            *)
LEMMA FreshRises ==
  ASSUME NEW s \in Seq(Int), NEW D,
         \A k, l \in DOMAIN s : k < l /\ s[k] \notin D /\ s[l] \notin D /\ s[k] # s[l]
                                  /\ (\A o \in 1..(l - 1) : s[o] # s[l])
                               => s[k] < s[l]
  PROVE  \A i, j \in DOMAIN Fresh(s, D) : i < j => Fresh(s, D)[i] < Fresh(s, D)[j]
<1> SUFFICES ASSUME NEW i \in DOMAIN Fresh(s, D), NEW j \in DOMAIN Fresh(s, D), i < j
             PROVE  Fresh(s, D)[i] < Fresh(s, D)[j]
  OBVIOUS
<1>1. PICK k, l \in DOMAIN s : /\ k < l /\ Fresh(s, D)[i] = s[k] /\ Fresh(s, D)[j] = s[l]
                              /\ s[k] \notin D /\ s[l] \notin D
                              /\ \A o \in 1..(l - 1) : s[o] # s[l]
  BY FreshFacts
<1>2. k \in 1..(l - 1)
  BY <1>1
<1> QED
  BY <1>1, <1>2

(* The sets with no and with one element.                                  *)
LEMMA AscendingFew ==
  /\ Ascending({}) = <<>>
  /\ \A x \in Int : Ascending({x}) = <<x>>
<1>1. Ascending({}) = <<>>
  <2> DEFINE f == [k \in 1..0 |-> 0]
             S == {f[k] : k \in 1..0}
  <2>1. f \in [1..0 -> Int] /\ (\A j, k \in 1..0 : j < k => f[j] < f[k]) /\ 0 \in Nat
    OBVIOUS
  <2>2. f = <<>> /\ S = {}
    OBVIOUS
  <2> HIDE DEF f, S
  <2>3. Ascending(S) = f
    BY <2>1, AscendingUnique DEF S
  <2> QED
    BY <2>2, <2>3
<1>2. ASSUME NEW x \in Int PROVE Ascending({x}) = <<x>>
  <2> DEFINE f == [k \in 1..1 |-> x]
             S == {f[k] : k \in 1..1}
  <2>1. f \in [1..1 -> Int] /\ (\A j, k \in 1..1 : j < k => f[j] < f[k]) /\ 1 \in Nat
    OBVIOUS
  <2>2. f = <<x>> /\ S = {x}
    OBVIOUS
  <2> HIDE DEF f, S
  <2>3. Ascending(S) = f
    BY <2>1, AscendingUnique DEF S
  <2> QED
    BY <2>2, <2>3
<1> QED
  BY <1>1, <1>2
=============================================================================

------------------------- MODULE CheckpointsProofs -------------------------
(***************************************************************************)
(* For any number of clients, thread ids and checkpoints: the two savers   *)
(* give the same answers, a rewind leaves nothing behind that it had to    *)
(* delete, and a resumption is recent.  The savers agree because a vector  *)
(* has every id at most once and holds what the table holds.  The other    *)
(* two rest on what an operation has still to do: a checkpoint it watches  *)
(* is on its list, or it has been dealt with.                              *)
(***************************************************************************)
EXTENDS Checkpoints, RankingProofs

Tasks == [do : {"none", "saved", "prune", "rewind", "resume"}, th : ThreadIds,
          ids : Seq(Ids), picked : Seq(Ids), from : Nat, eager : BOOLEAN,
          found : SUBSET Checkpoints, watched : SUBSET Checkpoints]

Typed ==
  /\ memory \in [ThreadIds -> Seq(Checkpoints)]
  /\ table \in SUBSET (ThreadIds \X Checkpoints)
  /\ task \in [Clients -> Tasks]
  /\ \A c \in Clients : task[c].do = "saved" => Keep # KeepAll

(* A vector has every id at most once.                                     *)
OneEach(s) == \A j, k \in DOMAIN s : s[j].id = s[k].id => j = k

(* Both savers hold the same checkpoints of every thread id.               *)
Alike == \A th \in ThreadIds : OneEach(memory[th]) /\ Rows(table, th) = Range(memory[th])

StoreInv == Typed /\ Alike

(* The checkpoints of a set that have another id.                          *)
Without(S, id) == {x \in S : x.id # id}

-----------------------------------------------------------------------------
(* Sequences and checkpoints                                               *)

(* A function on 1..n is a sequence.                                       *)
LEMMA SeqOf ==
  ASSUME NEW S, NEW n \in Nat, NEW f \in [1..n -> S]
  PROVE  f \in Seq(S) /\ Len(f) = n /\ DOMAIN f = 1..n
OBVIOUS

LEMMA SeqFacts ==
  ASSUME NEW S, NEW s \in Seq(S)
  PROVE  /\ Len(s) \in Nat /\ DOMAIN s = 1..Len(s) /\ IsFiniteSet(DOMAIN s)
         /\ \A k \in DOMAIN s : s[k] \in S
         /\ s \in [DOMAIN s -> S] /\ Range(s) \subseteq S
<1>1. Len(s) \in Nat /\ DOMAIN s = 1..Len(s) /\ s \in [1..Len(s) -> S]
  OBVIOUS
<1>2. 1 \in Int /\ Len(s) \in Int
  BY <1>1
<1>3. IsFiniteSet(1..Len(s))
  BY <1>2, FS_Interval
<1> QED
  BY <1>1, <1>3 DEF Range

(* An id fixes the step, and with the time the checkpoint.                 *)
LEMMA CheckpointFacts ==
  /\ \A a \in Checkpoints : /\ a.id \in Ids /\ a.id \in Nat /\ a.step \in Nat /\ a.time \in Nat
                            /\ a.step = StepOf[a.id] /\ a = Checkpoint(a.id, a.time)
  /\ \A a, b \in Checkpoints : a.id = b.id /\ a.time = b.time => a = b
BY CheckpointsAssumption DEF Checkpoints, Checkpoint

(* The order of the lists is total on the checkpoints.                     *)
LEMMA BeforeOrders ==
  /\ \A a \in Checkpoints : ~Before(a, a)
  /\ \A a, b \in Checkpoints : a # b => Before(a, b) \/ Before(b, a)
  /\ \A a, b, c \in Checkpoints : Before(a, b) /\ Before(b, c) => Before(a, c)
  /\ \A a, b \in Checkpoints : ~(Before(a, b) /\ Before(b, a))
<1>1. ASSUME NEW a \in Checkpoints PROVE ~Before(a, a)
  BY CheckpointFacts DEF Before
<1>2. ASSUME NEW a \in Checkpoints, NEW b \in Checkpoints, a # b
      PROVE  Before(a, b) \/ Before(b, a)
  <2>1. a.id # b.id \/ a.time # b.time
    BY <1>2, CheckpointFacts
  <2>2. a.id \in Nat /\ b.id \in Nat /\ a.time \in Nat /\ b.time \in Nat
          /\ a.step \in Nat /\ b.step \in Nat
    BY CheckpointFacts
  <2>3. a.id = b.id => a.step = b.step
    BY CheckpointFacts
  <2> QED
    BY <2>1, <2>2, <2>3 DEF Before
<1>3. ASSUME NEW a \in Checkpoints, NEW b \in Checkpoints, NEW c \in Checkpoints,
             Before(a, b), Before(b, c)
      PROVE  Before(a, c)
  <2>1. \A x \in {a, b, c} : x.id \in Nat /\ x.time \in Nat /\ x.step \in Nat
    BY CheckpointFacts
  <2> QED
    BY <1>3, <2>1 DEF Before
<1>4. ASSUME NEW a \in Checkpoints, NEW b \in Checkpoints, Before(a, b), Before(b, a)
      PROVE  FALSE
  BY <1>1, <1>3, <1>4
<1> QED
  BY <1>1, <1>2, <1>3, <1>4

LEMMA RowsOrdered ==
  ASSUME NEW rows \in SUBSET Checkpoints
  PROVE  /\ StrictOrder(RowOrder(rows), rows)
         /\ \A a, b \in rows : <<a, b>> \in RowOrder(rows) <=> Before(a, b)
<1>1. \A a, b \in rows : <<a, b>> \in RowOrder(rows) <=> Before(a, b)
  BY DEF RowOrder
<1>2. \A a \in rows : a \in Checkpoints
  OBVIOUS
<1> HIDE DEF RowOrder
<1> QED
  BY <1>1, <1>2, BeforeOrders DEF StrictOrder

LEMMA PlacesOrdered ==
  ASSUME NEW s \in Seq(Checkpoints)
  PROVE  /\ StrictOrder(Places(s), DOMAIN s)
         /\ \A j, k \in DOMAIN s :
              <<j, k>> \in Places(s) <=> \/ Before(s[j], s[k])
                                         \/ (~Before(s[k], s[j]) /\ j < k)
<1>1. \A j, k \in DOMAIN s :
        <<j, k>> \in Places(s) <=> \/ Before(s[j], s[k])
                                   \/ (~Before(s[k], s[j]) /\ j < k)
  BY DEF Places
<1>2. DOMAIN s \subseteq Int /\ \A k \in DOMAIN s : s[k] \in Checkpoints
  BY SeqFacts
<1>3. \A j \in DOMAIN s : <<j, j>> \notin Places(s)
  BY <1>1, <1>2, BeforeOrders
<1>4. ASSUME NEW j \in DOMAIN s, NEW k \in DOMAIN s, j # k
      PROVE  <<j, k>> \in Places(s) \/ <<k, j>> \in Places(s)
  <2>1. j < k \/ k < j
    BY <1>2, <1>4
  <2> QED
    BY <1>1, <2>1
<1>5. ASSUME NEW i \in DOMAIN s, NEW j \in DOMAIN s, NEW k \in DOMAIN s,
             <<i, j>> \in Places(s), <<j, k>> \in Places(s)
      PROVE  <<i, k>> \in Places(s)
  <2>0. i \in Int /\ j \in Int /\ k \in Int
    BY <1>2
  <2>1. s[i] \in Checkpoints /\ s[j] \in Checkpoints /\ s[k] \in Checkpoints
    BY <1>2
  <2>2. Before(s[i], s[j]) \/ (s[i] = s[j] /\ i < j)
    BY <1>1, <1>5, <2>1, BeforeOrders
  <2>3. Before(s[j], s[k]) \/ (s[j] = s[k] /\ j < k)
    BY <1>1, <1>5, <2>1, BeforeOrders
  <2>4. Before(s[i], s[k]) \/ (s[i] = s[k] /\ i < k)
    <3>1. CASE s[i] = s[j] /\ s[j] = s[k] /\ i < j /\ j < k
      BY <2>0, <3>1
    <3>2. CASE ~(s[i] = s[j] /\ s[j] = s[k] /\ i < j /\ j < k)
      BY <2>1, <2>2, <2>3, <3>2, BeforeOrders
    <3> QED
      BY <3>1, <3>2
  <2> QED
    BY <1>1, <2>1, <2>4, BeforeOrders
<1> HIDE DEF Places
<1> QED
  BY <1>1, <1>3, <1>4, <1>5 DEF StrictOrder

-----------------------------------------------------------------------------
(* What the calls of a saver do to its contents                            *)

(* save: the checkpoint replaces the one of its id or joins the others.    *)
LEMMA SaveFacts ==
  ASSUME NEW s \in Seq(Checkpoints), OneEach(s), NEW cp \in Checkpoints
  PROVE  /\ MemorySave(s, cp) \in Seq(Checkpoints) /\ OneEach(MemorySave(s, cp))
         /\ Range(MemorySave(s, cp)) = Without(Range(s), cp.id) \cup {cp}
<1> DEFINE new == MemorySave(s, cp)
<1>0. /\ Len(s) \in Nat /\ DOMAIN s = 1..Len(s) /\ s \in [1..Len(s) -> Checkpoints]
      /\ \A k \in DOMAIN s : s[k] \in Checkpoints
  BY SeqFacts
<1>1. CASE \E k \in DOMAIN s : s[k].id = cp.id
  <2>1. PICK k \in DOMAIN s : s[k].id = cp.id
    BY <1>1
  <2>2. new = [j \in 1..Len(s) |-> IF s[j].id = cp.id THEN cp ELSE s[j]]
    BY <1>0, <1>1 DEF MemorySave
  <2>3. new = [j \in 1..Len(s) |-> IF j = k THEN cp ELSE s[j]]
    BY <1>0, <2>1, <2>2 DEF OneEach
  <2> HIDE DEF new
  <2>4. new \in [1..Len(s) -> Checkpoints]
    BY <1>0, <2>3
  <2>5. new \in Seq(Checkpoints) /\ DOMAIN new = 1..Len(s)
    BY <1>0, <2>4, SeqOf
  <2>6. OneEach(new)
    BY <1>0, <2>1, <2>3 DEF OneEach
  <2>7. Range(new) = {x \in Range(s) : x.id # cp.id} \cup {cp}
    <3>1. ASSUME NEW x \in Range(new) PROVE x \in {y \in Range(s) : y.id # cp.id} \cup {cp}
      <4>1. PICK j \in 1..Len(s) : x = new[j]
        BY <2>5 DEF Range
      <4> QED
        BY <1>0, <2>1, <2>2, <4>1 DEF Range
    <3>2. ASSUME NEW x \in Range(s), x.id # cp.id PROVE x \in Range(new)
      <4>1. PICK j \in 1..Len(s) : x = s[j]
        BY <1>0 DEF Range
      <4>2. new[j] = x
        BY <2>2, <3>2, <4>1
      <4> QED
        BY <2>5, <4>2 DEF Range
    <3>3. cp \in Range(new)
      BY <1>0, <2>1, <2>3, <2>5 DEF Range
    <3> QED
      BY <3>1, <3>2, <3>3
  <2> QED
    BY <2>5, <2>6, <2>7 DEF new, Without
<1>2. CASE ~ \E k \in DOMAIN s : s[k].id = cp.id
  <2>1. new = Append(s, cp)
    BY <1>2 DEF MemorySave
  <2>2. /\ new \in Seq(Checkpoints) /\ Len(new) = Len(s) + 1 /\ DOMAIN new = 1..(Len(s) + 1)
        /\ \A j \in 1..Len(s) : new[j] = s[j]
        /\ new[Len(s) + 1] = cp
    BY <1>0, <2>1
  <2> HIDE DEF new
  <2>3. \A j \in 1..(Len(s) + 1) : j \in 1..Len(s) \/ j = Len(s) + 1
    BY <1>0
  <2>4. OneEach(new)
    BY <1>0, <1>2, <2>2, <2>3 DEF OneEach
  <2>5. Range(new) = Range(s) \cup {cp}
    <3>1. Len(s) + 1 \in 1..(Len(s) + 1) /\ 1..Len(s) \subseteq 1..(Len(s) + 1)
      BY <1>0
    <3> QED
      BY <1>0, <2>2, <2>3, <3>1 DEF Range
  <2>6. Range(s) = {x \in Range(s) : x.id # cp.id}
    BY <1>2 DEF Range
  <2> QED
    BY <2>2, <2>4, <2>5, <2>6 DEF new, Without
<1> QED
  BY <1>1, <1>2

(* delete: the checkpoint of the id is gone, the others stay.              *)
LEMMA DeleteFacts ==
  ASSUME NEW s \in Seq(Checkpoints), OneEach(s), NEW id
  PROVE  /\ MemoryDelete(s, id) \in Seq(Checkpoints) /\ OneEach(MemoryDelete(s, id))
         /\ Range(MemoryDelete(s, id)) = Without(Range(s), id)
<1> DEFINE kept   == {k \in DOMAIN s : s[k].id # id}
           places == Ascending(kept)
           new    == MemoryDelete(s, id)
           n      == Cardinality(kept)
<1>0. /\ Len(s) \in Nat /\ DOMAIN s = 1..Len(s) /\ IsFiniteSet(DOMAIN s)
      /\ \A k \in DOMAIN s : s[k] \in Checkpoints
  BY SeqFacts
<1>1. kept \in SUBSET Int /\ IsFiniteSet(kept)
  BY <1>0, FS_Subset
<1>2. /\ n \in Nat /\ places \in [1..n -> kept]
      /\ \A k \in kept : \E j \in 1..n : places[j] = k
      /\ \A i, j \in 1..n : i < j <=> places[i] < places[j]
  BY <1>1, AscendingSorts
<1>3. new = [j \in 1..n |-> s[places[j]]]
  BY <1>2 DEF MemoryDelete, AtPlaces
<1> HIDE DEF places, new, n
<1>4. new \in [1..n -> Checkpoints]
  BY <1>0, <1>2, <1>3
<1>5. new \in Seq(Checkpoints) /\ DOMAIN new = 1..n
  BY <1>2, <1>4, SeqOf
<1>6. OneEach(new)
  <2> SUFFICES ASSUME NEW i \in 1..n, NEW j \in 1..n, new[i].id = new[j].id PROVE i = j
    BY <1>5 DEF OneEach
  <2>1. s[places[i]].id = s[places[j]].id /\ places[i] \in DOMAIN s /\ places[j] \in DOMAIN s
    BY <1>2, <1>3
  <2>2. places[i] = places[j] /\ places[i] \in Int
    BY <1>0, <2>1 DEF OneEach
  <2>3. ~(i < j) /\ ~(j < i)
    BY <1>2, <2>2
  <2> QED
    BY <1>2, <2>3
<1>7. Range(new) = {x \in Range(s) : x.id # id}
  <2>1. ASSUME NEW x \in Range(new) PROVE x \in Range(s) /\ x.id # id
    <3>1. PICK j \in 1..n : x = new[j]
      BY <1>5 DEF Range
    <3>2. x = s[places[j]] /\ places[j] \in kept
      BY <1>2, <1>3, <3>1
    <3> QED
      BY <3>2 DEF Range
  <2>2. ASSUME NEW x \in Range(s), x.id # id PROVE x \in Range(new)
    <3>1. PICK k \in DOMAIN s : x = s[k]
      BY DEF Range
    <3>2. PICK j \in 1..n : places[j] = k
      BY <1>2, <2>2, <3>1
    <3>3. x = new[j]
      BY <1>3, <3>1, <3>2
    <3> QED
      BY <1>5, <3>3 DEF Range
  <2> QED
    BY <2>1, <2>2
<1> QED
  BY <1>5, <1>6, <1>7 DEF new, Without

(* list: the ids of the vector, each once.                                 *)
LEMMA ListFacts ==
  ASSUME NEW s \in Seq(Checkpoints)
  PROVE  /\ MemoryList(s) \in Seq(Ids)
         /\ Range(MemoryList(s)) = {x.id : x \in Range(s)}
<1> DEFINE places == Ranked(DOMAIN s, Places(s))
           list   == MemoryList(s)
           n      == Cardinality(DOMAIN s)
<1>0. /\ Len(s) \in Nat /\ DOMAIN s = 1..Len(s) /\ IsFiniteSet(DOMAIN s)
      /\ \A k \in DOMAIN s : s[k] \in Checkpoints
  BY SeqFacts
<1>1. n \in Nat
  BY <1>0, FS_CardinalityType
<1>2. places \in Bijection(1..n, DOMAIN s)
  BY <1>0, PlacesOrdered, RankedSorts
<1>3. places \in [1..n -> DOMAIN s] /\ \A k \in DOMAIN s : \E j \in 1..n : places[j] = k
  BY <1>2 DEF Bijection, Injection, Surjection
<1> HIDE DEF places, n
<1>4. list = [j \in 1..n |-> s[places[j]].id]
  BY <1>3 DEF MemoryList, AtPlaces, IdsOf, places
<1> HIDE DEF list
<1>5. list \in [1..n -> Ids]
  BY <1>0, <1>3, <1>4, CheckpointFacts
<1>6. list \in Seq(Ids) /\ DOMAIN list = 1..n
  BY <1>1, <1>5, SeqOf
<1>7. ASSUME NEW i \in Range(list) PROVE i \in {x.id : x \in Range(s)}
  <2>1. PICK j \in 1..n : i = list[j]
    BY <1>6 DEF Range
  <2> QED
    BY <1>3, <1>4, <2>1 DEF Range
<1>8. ASSUME NEW x \in Range(s) PROVE x.id \in Range(list)
  <2>1. PICK k \in DOMAIN s : x = s[k]
    BY DEF Range
  <2>2. PICK j \in 1..n : places[j] = k
    BY <1>3
  <2>3. list[j] = x.id
    BY <1>4, <2>1, <2>2
  <2> QED
    BY <1>6, <2>3 DEF Range
<1> QED
  BY <1>6, <1>7, <1>8 DEF list

-----------------------------------------------------------------------------
(* Both savers give the same answers when they hold the same               *)

LEMMA ListsAgree ==
  ASSUME NEW s \in Seq(Checkpoints), OneEach(s), NEW rows \in SUBSET Checkpoints, rows = Range(s)
  PROVE  MemoryList(s) = IdsOf(Ranked(rows, RowOrder(rows)))
<1> DEFINE places == Ranked(DOMAIN s, Places(s))
           n      == Cardinality(DOMAIN s)
           byRow  == Ranked(rows, RowOrder(rows))
<1>0. /\ IsFiniteSet(DOMAIN s) /\ s \in [DOMAIN s -> rows]
      /\ \A k \in DOMAIN s : s[k] \in Checkpoints
  BY SeqFacts DEF Range
<1>1. s \in Bijection(DOMAIN s, rows)
  <2>1. \A x \in rows : \E k \in DOMAIN s : s[k] = x
    BY DEF Range
  <2>2. \A j, k \in DOMAIN s : s[j] = s[k] => j = k
    BY DEF OneEach
  <2> QED
    BY <1>0, <2>1, <2>2 DEF Bijection, Injection, Surjection, IsInjective
<1>2. \A j, k \in DOMAIN s : <<j, k>> \in Places(s) <=> <<s[j], s[k]>> \in RowOrder(rows)
  <2> SUFFICES ASSUME NEW j \in DOMAIN s, NEW k \in DOMAIN s
               PROVE  <<j, k>> \in Places(s) <=> <<s[j], s[k]>> \in RowOrder(rows)
    OBVIOUS
  <2>1. <<s[j], s[k]>> \in RowOrder(rows) <=> Before(s[j], s[k])
    BY <1>0, RowsOrdered
  <2>2. ~Before(s[j], s[k]) /\ ~Before(s[k], s[j]) => j = k
    BY <1>0, BeforeOrders DEF OneEach
  <2>3. ~(j < j)
    BY SeqFacts
  <2> QED
    BY <2>1, <2>2, <2>3, PlacesOrdered
<1>3. byRow = [k \in DOMAIN places |-> s[places[k]]]
  BY <1>0, <1>1, <1>2, PlacesOrdered, RankedRenamed
<1> QED
  BY <1>3 DEF MemoryList, AtPlaces

LEMMA LatestAgrees ==
  ASSUME NEW s \in Seq(Checkpoints)
  PROVE  MemoryLatest(s) = {cp \in Range(s) : \A o \in Range(s) : ~Before(cp, o)}
BY DEF MemoryLatest, Range

(* With every id once, load finds the one that is there.                   *)
LEMMA LoadFacts ==
  ASSUME NEW s \in Seq(Checkpoints), OneEach(s), NEW id
  PROVE  MemoryLoad(s, id) = {cp \in Range(s) : cp.id = id}
<1>1. DOMAIN s = 1..Len(s) /\ Len(s) \in Nat
  BY SeqFacts
<1>2. ASSUME NEW k \in DOMAIN s, s[k].id = id PROVE \A j \in 1..(k - 1) : s[j].id # id
  <2> SUFFICES ASSUME NEW j \in 1..(k - 1), s[j].id = id PROVE FALSE
    OBVIOUS
  <2>1. j \in DOMAIN s /\ j # k
    BY <1>1
  <2> QED
    BY <1>2, <2>1 DEF OneEach
<1> QED
  BY <1>2 DEF MemoryLoad, Range

-----------------------------------------------------------------------------
(* Types                                                                   *)

LEMMA HeadTail ==
  ASSUME NEW S, NEW s \in Seq(S), s # <<>>
  PROVE  /\ Head(s) \in S /\ Tail(s) \in Seq(S)
         /\ Range(s) = {Head(s)} \cup Range(Tail(s))
<1>1. /\ Len(s) \in Nat /\ Len(s) > 0 /\ DOMAIN s = 1..Len(s) /\ Head(s) = s[1]
      /\ Tail(s) \in Seq(S) /\ DOMAIN Tail(s) = 1..(Len(s) - 1)
      /\ \A j \in 1..(Len(s) - 1) : Tail(s)[j] = s[j + 1]
  OBVIOUS
<1>2. ASSUME NEW x \in Range(s) PROVE x = Head(s) \/ x \in Range(Tail(s))
  <2>1. PICK k \in 1..Len(s) : x = s[k]
    BY <1>1 DEF Range
  <2>2. k = 1 \/ (k - 1 \in 1..(Len(s) - 1) /\ k - 1 + 1 = k)
    BY <1>1
  <2>3. CASE k - 1 \in 1..(Len(s) - 1) /\ k - 1 + 1 = k
    <3>1. Tail(s)[k - 1] = x
      BY <1>1, <2>1, <2>3
    <3> QED
      BY <1>1, <2>3, <3>1 DEF Range
  <2> QED
    BY <1>1, <2>1, <2>2, <2>3
<1>3. ASSUME NEW x \in Range(Tail(s)) PROVE x \in Range(s)
  <2>1. PICK k \in 1..(Len(s) - 1) : x = Tail(s)[k]
    BY <1>1 DEF Range
  <2>2. k + 1 \in 1..Len(s) /\ x = s[k + 1]
    BY <1>1, <2>1
  <2> QED
    BY <1>1, <2>2 DEF Range
<1>4. Head(s) \in Range(s) /\ Head(s) \in S
  BY <1>1 DEF Range
<1> QED
  BY <1>1, <1>2, <1>3, <1>4

LEMMA Appended ==
  ASSUME NEW S, NEW s \in Seq(S), NEW x \in S
  PROVE  Append(s, x) \in Seq(S) /\ Range(Append(s, x)) = Range(s) \cup {x}
<1>1. /\ Append(s, x) \in Seq(S) /\ Len(s) \in Nat /\ DOMAIN s = 1..Len(s)
      /\ DOMAIN Append(s, x) = 1..(Len(s) + 1) /\ Append(s, x)[Len(s) + 1] = x
      /\ \A j \in 1..Len(s) : Append(s, x)[j] = s[j]
  OBVIOUS
<1>2. \A j \in 1..(Len(s) + 1) : j \in 1..Len(s) \/ j = Len(s) + 1
  BY <1>1
<1>3. Len(s) + 1 \in 1..(Len(s) + 1) /\ 1..Len(s) \subseteq 1..(Len(s) + 1)
  BY <1>1
<1> QED
  BY <1>1, <1>2, <1>3 DEF Range

LEMMA TaskType ==
  ASSUME NEW do \in {"none", "saved", "prune", "rewind", "resume"}, NEW th \in ThreadIds,
         NEW ids \in Seq(Ids)
  PROVE  /\ Task(do, th, ids) \in Tasks
         /\ Idle \in Tasks /\ Idle.do = "none"
<1>1. \A d, h, l : /\ Task(d, h, l).do = d /\ Task(d, h, l).th = h /\ Task(d, h, l).ids = l
  BY DEF Task
<1>2. ASSUME NEW d \in {"none", "saved", "prune", "rewind", "resume"}, NEW h \in ThreadIds,
             NEW l \in Seq(Ids)
      PROVE  Task(d, h, l) \in Tasks
  BY DEF Task, Tasks
<1>3. (CHOOSE h \in ThreadIds : TRUE) \in ThreadIds
  BY CheckpointsAssumption
<1>4. <<>> \in Seq(Ids)
  OBVIOUS
<1> QED
  BY <1>1, <1>2, <1>3, <1>4 DEF Idle

LEMMA UnwatchedFacts ==
  ASSUME Typed, NEW th, NEW id, NEW do
  PROVE  /\ Unwatched(th, id, do) \in [Clients -> Tasks]
         /\ \A c \in Clients :
              LET t == Unwatched(th, id, do)[c] IN
              /\ t.do = task[c].do /\ t.th = task[c].th /\ t.ids = task[c].ids
              /\ t.picked = task[c].picked /\ t.from = task[c].from /\ t.found = task[c].found
              /\ t.watched = IF task[c].th # th \/ task[c].do # do THEN task[c].watched
                             ELSE Without(task[c].watched, id)
<1>1. ASSUME NEW c \in Clients
      PROVE  /\ Unwatched(th, id, do)[c] \in Tasks
             /\ LET t == Unwatched(th, id, do)[c] IN
                /\ t.do = task[c].do /\ t.th = task[c].th /\ t.ids = task[c].ids
                /\ t.picked = task[c].picked /\ t.from = task[c].from /\ t.found = task[c].found
                /\ t.watched = IF task[c].th # th \/ task[c].do # do THEN task[c].watched
                               ELSE Without(task[c].watched, id)
  <2>1. task[c] \in Tasks
    BY DEF Typed
  <2>2. {cp \in task[c].watched : cp.id # id} \in SUBSET Checkpoints
    BY <2>1 DEF Tasks
  <2> QED
    BY <2>1, <2>2 DEF Unwatched, Tasks, Without
<1> QED
  BY <1>1 DEF Unwatched

(* The steps that leave the savers alone.                                  *)
QuietStep(c) ==
  \/ ListToPrune(c)
  \/ \E th \in ThreadIds, from \in Range(StepOf), eager \in BOOLEAN : Rewind(c, th, from, eager)
  \/ Pick(c)
  \/ \E th \in ThreadIds : ResumeLatest(c, th) \/ Resume(c, th)
  \/ Compare(c)
  \/ Return(c)

LEMMA QuietTyped ==
  ASSUME Typed, NEW c \in Clients, QuietStep(c)
  PROVE  Typed' /\ UNCHANGED <<memory, table>> /\ \A o \in Clients \ {c} : task'[o] = task[o]
<1>1. /\ memory \in [ThreadIds -> Seq(Checkpoints)] /\ table \in SUBSET (ThreadIds \X Checkpoints)
      /\ task \in [Clients -> Tasks] /\ task[c] \in Tasks
      /\ \A o \in Clients : task[o].do = "saved" => Keep # KeepAll
  BY DEF Typed
<1>2. ASSUME NEW t \in Tasks, t.do # "saved", task' = [task EXCEPT ![c] = t],
             UNCHANGED <<memory, table>>
      PROVE  Typed' /\ UNCHANGED <<memory, table>> /\ \A o \in Clients \ {c} : task'[o] = task[o]
  <2>1. task' \in [Clients -> Tasks] /\ \A o \in Clients : task'[o] = IF o = c THEN t ELSE task[o]
    BY <1>1, <1>2
  <2> QED
    BY <1>1, <1>2, <2>1 DEF Typed
<1>3. CASE ListToPrune(c)
  <2> DEFINE ids  == MemoryList(memory[task[c].th])
             many == IF Len(ids) > Keep THEN Len(ids) - Keep ELSE 0
             t == [task[c] EXCEPT !.do = "prune", !.picked = SubSeq(ids, 1, many)]
  <2>1. task' = [task EXCEPT ![c] = t] /\ UNCHANGED <<memory, table>> /\ task[c].do = "saved"
    BY <1>3 DEF ListToPrune
  <2>2. ids \in Seq(Ids)
    BY <1>1, ListFacts DEF Tasks
  <2>3. Keep \in Nat /\ Len(ids) \in Nat
    BY <1>1, <2>1, <2>2, CheckpointsAssumption
  <2>4. many \in 0..Len(ids)
    BY <2>3
  <2>5. SubSeq(ids, 1, many) \in Seq(Ids)
    BY <2>2, <2>3, <2>4
  <2> HIDE DEF ids, many
  <2>6. t \in Tasks /\ t.do # "saved"
    BY <1>1, <2>5 DEF Tasks
  <2> QED
    BY <1>2, <2>1, <2>6
<1>4. ASSUME NEW th \in ThreadIds, NEW from \in Range(StepOf), NEW eager \in BOOLEAN,
             Rewind(c, th, from, eager)
      PROVE  Typed' /\ UNCHANGED <<memory, table>> /\ \A o \in Clients \ {c} : task'[o] = task[o]
  <2> DEFINE w == {cp \in Stored(th) : cp.step >= from}
             t == [Task("rewind", th, MemoryList(memory[th])) EXCEPT
                     !.from = from, !.eager = eager, !.watched = w]
  <2>1. task' = [task EXCEPT ![c] = t] /\ UNCHANGED <<memory, table>>
    BY <1>4 DEF Rewind, Starts
  <2>2. MemoryList(memory[th]) \in Seq(Ids)
    BY <1>1, ListFacts
  <2>3. Task("rewind", th, MemoryList(memory[th])) \in Tasks
    BY <2>2, TaskType
  <2>4. from \in Nat
    BY CheckpointsAssumption DEF Range
  <2>5. w \in SUBSET Checkpoints
    BY <1>1, SeqFacts DEF Stored
  <2> HIDE DEF w
  <2>6. t \in Tasks /\ t.do = "rewind"
    BY <2>3, <2>4, <2>5 DEF Tasks, Task
  <2> QED
    BY <1>2, <2>1, <2>6
<1>5. CASE Pick(c)
  <2>1. task[c].ids \in Seq(Ids) /\ task[c].ids # <<>> /\ task[c].do = "rewind"
    BY <1>1, <1>5 DEF Pick, Tasks
  <2>2. Head(task[c].ids) \in Ids /\ Tail(task[c].ids) \in Seq(Ids)
    BY <2>1, HeadTail
  <2>3. Append(task[c].picked, Head(task[c].ids)) \in Seq(Ids)
    BY <1>1, <2>2 DEF Tasks
  <2>4. PICK p \in Seq(Ids) : /\ task' = [task EXCEPT ![c] = [task[c] EXCEPT !.ids = Tail(@), !.picked = p]]
                              /\ UNCHANGED <<memory, table>>
    <3> DEFINE p == IF \E cp \in MemoryLoad(memory[task[c].th], Head(task[c].ids)) : cp.step >= task[c].from
                    THEN Append(task[c].picked, Head(task[c].ids)) ELSE task[c].picked
    <3>1. p \in Seq(Ids)
      BY <1>1, <2>3 DEF Tasks
    <3>2. /\ task' = [task EXCEPT ![c] = [task[c] EXCEPT !.ids = Tail(@), !.picked = p]]
          /\ UNCHANGED <<memory, table>>
      BY <1>5 DEF Pick
    <3> HIDE DEF p
    <3> QED
      BY <3>1, <3>2
  <2> DEFINE t == [task[c] EXCEPT !.ids = Tail(@), !.picked = p]
  <2>5. t \in Tasks /\ t.do = "rewind"
    BY <1>1, <2>1, <2>2 DEF Tasks
  <2> HIDE DEF t
  <2>6. task' = [task EXCEPT ![c] = t] /\ UNCHANGED <<memory, table>>
    BY <2>4 DEF t
  <2> QED
    BY <1>2, <2>5, <2>6
<1>6. ASSUME NEW th \in ThreadIds, ResumeLatest(c, th) \/ Resume(c, th)
      PROVE  Typed' /\ UNCHANGED <<memory, table>> /\ \A o \in Clients \ {c} : task'[o] = task[o]
  <2>1. Stored(th) \in SUBSET Checkpoints /\ MemoryLatest(memory[th]) \in SUBSET Checkpoints
    <3>1. Stored(th) \in SUBSET Checkpoints
      BY <1>1, SeqFacts DEF Stored
    <3>2. MemoryLatest(memory[th]) \subseteq Stored(th)
      BY <1>1, LatestAgrees DEF Stored
    <3> QED
      BY <3>1, <3>2
  <2>2. MemoryList(memory[th]) \in Seq(Ids) /\ <<>> \in Seq(Ids)
    BY <1>1, ListFacts
  <2>3. CASE ResumeLatest(c, th)
    <3> DEFINE t == [Task("resume", th, <<>>) EXCEPT !.found = MemoryLatest(memory[th]),
                                                     !.watched = Stored(th)]
    <3>1. Task("resume", th, <<>>) \in Tasks
      BY <2>2, TaskType
    <3>2. t \in Tasks /\ t.do = "resume"
      BY <2>1, <3>1 DEF Tasks, Task
    <3>3. task' = [task EXCEPT ![c] = t] /\ UNCHANGED <<memory, table>>
      BY <2>3 DEF ResumeLatest, Starts
    <3> HIDE DEF t
    <3> QED
      BY <1>2, <3>2, <3>3
  <2>4. CASE Resume(c, th)
    <3> DEFINE t == [Task("resume", th, MemoryList(memory[th])) EXCEPT !.watched = Stored(th)]
    <3>1. Task("resume", th, MemoryList(memory[th])) \in Tasks
      BY <2>2, TaskType
    <3>2. t \in Tasks /\ t.do = "resume"
      BY <2>1, <3>1 DEF Tasks, Task
    <3>3. task' = [task EXCEPT ![c] = t] /\ UNCHANGED <<memory, table>>
      BY <2>4 DEF Resume, Starts
    <3> HIDE DEF t
    <3> QED
      BY <1>2, <3>2, <3>3
  <2> QED
    BY <1>6, <2>3, <2>4
<1>7. CASE Compare(c)
  <2>1. task[c].ids \in Seq(Ids) /\ task[c].ids # <<>> /\ task[c].do = "resume"
    BY <1>1, <1>7 DEF Compare, Tasks
  <2>2. Tail(task[c].ids) \in Seq(Ids)
    BY <2>1, HeadTail
  <2> DEFINE now    == MemoryLoad(memory[task[c].th], Head(task[c].ids))
             better == {cp \in now : \A old \in task[c].found : cp.step > old.step}
             found  == IF better = {} THEN task[c].found ELSE better
  <2>3. found \in SUBSET Checkpoints
    <3>1. memory[task[c].th] \in Seq(Checkpoints)
      BY <1>1 DEF Tasks
    <3>2. now \in SUBSET Checkpoints
      BY <3>1 DEF MemoryLoad
    <3> HIDE DEF now
    <3> QED
      BY <1>1, <3>2 DEF Tasks
  <2>4. /\ task' = [task EXCEPT ![c] = [task[c] EXCEPT !.ids = Tail(@), !.found = found]]
        /\ UNCHANGED <<memory, table>>
    BY <1>7 DEF Compare
  <2> HIDE DEF found
  <2> DEFINE t == [task[c] EXCEPT !.ids = Tail(@), !.found = found]
  <2>5. t \in Tasks /\ t.do = "resume"
    BY <1>1, <2>1, <2>2, <2>3 DEF Tasks
  <2> HIDE DEF t
  <2>6. task' = [task EXCEPT ![c] = t]
    BY <2>4 DEF t
  <2> QED
    BY <1>2, <2>4, <2>5, <2>6
<1>8. CASE Return(c)
  <2>1. Idle \in Tasks /\ Idle.do = "none"
    <3>1. <<>> \in Seq(Ids) /\ \E th : th \in ThreadIds
      BY CheckpointsAssumption
    <3> QED
      BY <3>1, TaskType
  <2> QED
    BY <1>2, <1>8, <2>1 DEF Return
<1> QED
  BY <1>3, <1>4, <1>5, <1>6, <1>7, <1>8 DEF QuietStep

LEMMA SaveTyped ==
  ASSUME StoreInv, NEW c \in Clients, NEW th \in ThreadIds, NEW cp \in Checkpoints, Save(c, th, cp)
  PROVE  /\ Typed'
         /\ \A h \in ThreadIds : memory'[h] = IF h = th THEN MemorySave(memory[th], cp) ELSE memory[h]
         /\ task'[c].do \in {"none", "saved"}
         /\ \A o \in Clients \ {c} : task'[o] = Unwatched(th, cp.id, "rewind")[o]
<1>1. /\ memory \in [ThreadIds -> Seq(Checkpoints)] /\ table \in SUBSET (ThreadIds \X Checkpoints)
      /\ task \in [Clients -> Tasks] /\ OneEach(memory[th])
      /\ \A o \in Clients : task[o].do = "saved" => Keep # KeepAll
  BY DEF StoreInv, Typed, Alike
<1>2. MemorySave(memory[th], cp) \in Seq(Checkpoints)
  BY <1>1, SaveFacts
<1>3. /\ memory' \in [ThreadIds -> Seq(Checkpoints)]
      /\ \A h \in ThreadIds : memory'[h] = IF h = th THEN MemorySave(memory[th], cp) ELSE memory[h]
  BY <1>1, <1>2 DEF Save
<1>4. table' \in SUBSET (ThreadIds \X Checkpoints)
  BY <1>1 DEF Save, TableSave
<1> DEFINE others == Unwatched(th, cp.id, "rewind")
           t == IF Keep = KeepAll THEN others[c] ELSE Task("saved", th, <<>>)
<1>5. others \in [Clients -> Tasks] /\ \A o \in Clients : others[o].do = task[o].do
  <2>1. Typed
    BY DEF StoreInv
  <2> QED
    BY <2>1, UnwatchedFacts
<1>6. task' = [others EXCEPT ![c] = t] /\ task[c].do = "none"
  BY DEF Save
<1> HIDE DEF others
<1>7. t \in Tasks /\ t.do \in {"none", "saved"} /\ (t.do = "saved" => Keep # KeepAll)
  <2>1. Task("saved", th, <<>>) \in Tasks /\ Task("saved", th, <<>>).do = "saved"
    <3>1. <<>> \in Seq(Ids)
      OBVIOUS
    <3> QED
      BY <3>1, TaskType DEF Task
  <2> QED
    BY <1>5, <1>6, <2>1
<1> HIDE DEF t
<1>8. task' \in [Clients -> Tasks] /\ \A o \in Clients : task'[o] = IF o = c THEN t ELSE others[o]
  BY <1>5, <1>6, <1>7
<1>9. Typed'
  BY <1>1, <1>3, <1>4, <1>5, <1>7, <1>8 DEF Typed
<1> QED
  BY <1>3, <1>7, <1>8, <1>9 DEF others

LEMMA DeleteTyped ==
  ASSUME StoreInv, NEW c \in Clients, Delete(c)
  PROVE  LET th == task[c].th
             id == Head(task[c].picked)
         IN  /\ Typed' /\ th \in ThreadIds
             /\ \A h \in ThreadIds : memory'[h] = IF h = th THEN MemoryDelete(memory[th], id)
                                                  ELSE memory[h]
             /\ table' = TableDelete(table, th, id)
             /\ task[c].do \in {"rewind", "prune"}
             /\ \A o \in Clients \ {c} : task'[o] = Unwatched(th, id, "resume")[o]
             /\ task'[c] = [Unwatched(th, id, "resume")[c] EXCEPT !.picked = Tail(@)]
<1> DEFINE th == task[c].th
           id == Head(task[c].picked)
           others == Unwatched(th, id, "resume")
           t == [others[c] EXCEPT !.picked = Tail(@)]
<1>1. /\ memory \in [ThreadIds -> Seq(Checkpoints)] /\ table \in SUBSET (ThreadIds \X Checkpoints)
      /\ task \in [Clients -> Tasks]
      /\ \A o \in Clients : task[o].do = "saved" => Keep # KeepAll
  BY DEF StoreInv, Typed
<1>2. th \in ThreadIds /\ task[c].picked \in Seq(Ids)
  BY <1>1 DEF Tasks
<1>3. /\ memory' = [memory EXCEPT ![th] = MemoryDelete(@, id)] /\ table' = TableDelete(table, th, id)
      /\ task' = [others EXCEPT ![c] = t] /\ task[c].do \in {"rewind", "prune"}
      /\ task[c].picked # <<>>
  BY DEF Delete
<1>4. others \in [Clients -> Tasks] /\ \A o \in Clients : /\ others[o].do = task[o].do
                                                          /\ others[o].picked = task[o].picked
  <2>1. Typed
    BY DEF StoreInv
  <2> QED
    BY <2>1, UnwatchedFacts
<1>5. Tail(task[c].picked) \in Seq(Ids)
  BY <1>2, <1>3, HeadTail
<1> HIDE DEF th, id, others
<1>6. t \in Tasks /\ t.do = task[c].do
  BY <1>4, <1>5 DEF Tasks
<1> HIDE DEF t
<1>7. task' \in [Clients -> Tasks] /\ \A o \in Clients : task'[o] = IF o = c THEN t ELSE others[o]
  BY <1>3, <1>4, <1>6
<1>8. OneEach(memory[th])
  BY <1>2 DEF StoreInv, Alike
<1>9. MemoryDelete(memory[th], id) \in Seq(Checkpoints)
  BY <1>1, <1>2, <1>8, DeleteFacts
<1>10. /\ memory' \in [ThreadIds -> Seq(Checkpoints)]
       /\ \A h \in ThreadIds : memory'[h] = IF h = th THEN MemoryDelete(memory[th], id) ELSE memory[h]
  BY <1>1, <1>2, <1>3, <1>9
<1>11. table' \in SUBSET (ThreadIds \X Checkpoints)
  BY <1>1, <1>3 DEF TableDelete
<1>12. Typed'
  BY <1>1, <1>3, <1>4, <1>6, <1>7, <1>10, <1>11 DEF Typed
<1> QED
  BY <1>2, <1>3, <1>7, <1>10, <1>12 DEF th, id, others, t

-----------------------------------------------------------------------------
(* The savers agree                                                        *)

(* The same of the table: of one thread id its rows change as the vector   *)
(* does, and of another one not at all.                                    *)
LEMMA TableSaveRows ==
  ASSUME NEW rows \in SUBSET (ThreadIds \X Checkpoints), NEW th \in ThreadIds, NEW h \in ThreadIds,
         NEW cp \in Checkpoints
  PROVE  /\ h = th => Rows(TableSave(rows, th, cp), h) = Without(Rows(rows, th), cp.id) \cup {cp}
         /\ h # th => Rows(TableSave(rows, th, cp), h) = Rows(rows, h)
<1>1. ASSUME NEW x \in Rows(TableSave(rows, th, cp), th)
      PROVE  x = cp \/ (x \in Rows(rows, th) /\ x.id # cp.id)
  <2>1. PICK r \in TableSave(rows, th, cp) : r[1] = th /\ x = r[2]
    BY DEF Rows
  <2> QED
    BY <2>1 DEF Rows, TableSave
<1>2. ASSUME NEW x \in Rows(rows, th), x.id # cp.id PROVE x \in Rows(TableSave(rows, th, cp), th)
  <2>1. PICK r \in rows : r[1] = th /\ x = r[2]
    BY DEF Rows
  <2>2. r \in TableSave(rows, th, cp)
    BY <1>2, <2>1 DEF TableSave
  <2> QED
    BY <2>1, <2>2 DEF Rows
<1>3. cp \in Rows(TableSave(rows, th, cp), th)
  <2>1. <<th, cp>> \in TableSave(rows, th, cp) /\ <<th, cp>>[1] = th /\ <<th, cp>>[2] = cp
    BY DEF TableSave
  <2> QED
    BY <2>1 DEF Rows
<1>4. Rows(TableSave(rows, th, cp), th) = Without(Rows(rows, th), cp.id) \cup {cp}
  BY <1>1, <1>2, <1>3 DEF Without
<1>5. h # th => Rows(TableSave(rows, th, cp), h) = Rows(rows, h)
  BY DEF Rows, TableSave
<1> QED
  BY <1>4, <1>5

LEMMA TableDeleteRows ==
  ASSUME NEW rows \in SUBSET (ThreadIds \X Checkpoints), NEW th \in ThreadIds, NEW h \in ThreadIds,
         NEW id
  PROVE  /\ h = th => Rows(TableDelete(rows, th, id), h) = Without(Rows(rows, th), id)
         /\ h # th => Rows(TableDelete(rows, th, id), h) = Rows(rows, h)
<1>1. h = th => Rows(TableDelete(rows, th, id), h) = Without(Rows(rows, th), id)
  BY DEF Rows, TableDelete, Without
<1>2. h # th => Rows(TableDelete(rows, th, id), h) = Rows(rows, h)
  BY DEF Rows, TableDelete
<1> QED
  BY <1>1, <1>2

LEMMA Nexts ==
  ASSUME [Next]_vars
  PROVE  \/ \E c \in Clients, th \in ThreadIds, cp \in Checkpoints : Save(c, th, cp)
         \/ \E c \in Clients : Delete(c) \/ QuietStep(c)
         \/ UNCHANGED vars
BY DEF Next, QuietStep

LEMMA StoreInvInit == Init => StoreInv
<1> SUFFICES ASSUME Init PROVE StoreInv
  OBVIOUS
<1>1. <<>> \in Seq(Ids) /\ <<>> \in Seq(Checkpoints) /\ DOMAIN <<>> = {}
  OBVIOUS
<1>2. Idle \in Tasks /\ Idle.do = "none"
  <2>1. \E th : th \in ThreadIds
    BY CheckpointsAssumption
  <2> QED
    BY <1>1, <2>1, TaskType
<1>3. Typed
  BY <1>1, <1>2 DEF Init, Typed
<1>4. ASSUME NEW th \in ThreadIds PROVE OneEach(memory[th]) /\ Rows(table, th) = Range(memory[th])
  BY <1>1 DEF Init, OneEach, Rows, Range
<1> QED
  BY <1>3, <1>4 DEF StoreInv, Alike

LEMMA StoreInvStep == StoreInv /\ [Next]_vars => StoreInv'
<1> SUFFICES ASSUME StoreInv, [Next]_vars PROVE StoreInv'
  OBVIOUS
<1>0. Typed /\ memory \in [ThreadIds -> Seq(Checkpoints)] /\ table \in SUBSET (ThreadIds \X Checkpoints)
  BY DEF StoreInv, Typed
<1>1. ASSUME NEW c \in Clients, NEW th \in ThreadIds, NEW cp \in Checkpoints, Save(c, th, cp)
      PROVE  StoreInv'
  <2>1. /\ Typed'
        /\ \A h \in ThreadIds : memory'[h] = IF h = th THEN MemorySave(memory[th], cp) ELSE memory[h]
    BY <1>1, SaveTyped
  <2>2. table' = TableSave(table, th, cp)
    BY <1>1 DEF Save
  <2>3. ASSUME NEW h \in ThreadIds PROVE OneEach(memory'[h]) /\ Rows(table', h) = Range(memory'[h])
    <3>1. OneEach(memory[h]) /\ Rows(table, h) = Range(memory[h]) /\ memory[h] \in Seq(Checkpoints)
      BY <1>0 DEF StoreInv, Alike
    <3>2. /\ h = th => Rows(table', h) = Without(Rows(table, th), cp.id) \cup {cp}
          /\ h # th => Rows(table', h) = Rows(table, h)
      <4>1. table \in SUBSET (ThreadIds \X Checkpoints) /\ cp \in Checkpoints
        BY <1>0
      <4>2. /\ h = th => Rows(TableSave(table, th, cp), h) = Without(Rows(table, th), cp.id) \cup {cp}
            /\ h # th => Rows(TableSave(table, th, cp), h) = Rows(table, h)
        BY <4>1, TableSaveRows
      <4> QED
        BY <2>2, <4>2
    <3>3. CASE h = th
      BY <2>1, <3>1, <3>2, <3>3, SaveFacts
    <3>4. CASE h # th
      BY <2>1, <3>1, <3>2, <3>4
    <3> QED
      BY <3>3, <3>4
  <2> QED
    BY <2>1, <2>3 DEF StoreInv, Alike
<1>2. ASSUME NEW c \in Clients, Delete(c) PROVE StoreInv'
  <2> DEFINE th == task[c].th
             id == Head(task[c].picked)
  <2>1. /\ Typed' /\ th \in ThreadIds
        /\ \A h \in ThreadIds : memory'[h] = IF h = th THEN MemoryDelete(memory[th], id) ELSE memory[h]
        /\ table' = TableDelete(table, th, id)
    BY <1>2, DeleteTyped
  <2> HIDE DEF th, id
  <2>2. ASSUME NEW h \in ThreadIds PROVE OneEach(memory'[h]) /\ Rows(table', h) = Range(memory'[h])
    <3>1. OneEach(memory[h]) /\ Rows(table, h) = Range(memory[h]) /\ memory[h] \in Seq(Checkpoints)
      BY <1>0 DEF StoreInv, Alike
    <3>2. /\ h = th => Rows(table', h) = Without(Rows(table, th), id)
          /\ h # th => Rows(table', h) = Rows(table, h)
      BY <1>0, <2>1, TableDeleteRows
    <3>3. CASE h = th
      BY <2>1, <3>1, <3>2, <3>3, DeleteFacts
    <3>4. CASE h # th
      BY <2>1, <3>1, <3>2, <3>4
    <3> QED
      BY <3>3, <3>4
  <2> QED
    BY <2>1, <2>2 DEF StoreInv, Alike
<1>3. ASSUME NEW c \in Clients, QuietStep(c) PROVE StoreInv'
  <2>1. Typed' /\ UNCHANGED <<memory, table>>
    BY <1>0, <1>3, QuietTyped
  <2> QED
    BY <2>1 DEF StoreInv, Alike
<1>4. CASE UNCHANGED vars
  BY <1>4 DEF vars, StoreInv, Typed, Alike
<1> QED
  BY <1>1, <1>2, <1>3, <1>4, Nexts

LEMMA StoreInvHolds == Spec => []StoreInv
BY StoreInvInit, StoreInvStep, PTL DEF Spec

(* CheckpointSaver: whatever was saved, saved again and deleted by whom,   *)
(* MemorySaver and SqliteSaver list, load and resume the same.             *)
THEOREM SaversTheSame == Spec => []SaversAgree
<1>1. StoreInv => SaversAgree
  <2> SUFFICES ASSUME StoreInv, NEW th \in ThreadIds
               PROVE  /\ MemoryList(memory[th]) = TableList(table, th)
                      /\ MemoryLatest(memory[th]) = TableLatest(table, th)
                      /\ \A id \in Ids : MemoryLoad(memory[th], id) = TableLoad(table, th, id)
    BY DEF SaversAgree
  <2> DEFINE s == memory[th]
  <2>1. s \in Seq(Checkpoints) /\ OneEach(s) /\ Rows(table, th) = Range(s)
    BY DEF StoreInv, Typed, Alike
  <2>2. Rows(table, th) \in SUBSET Checkpoints
    BY <2>1, SeqFacts
  <2> HIDE DEF s
  <2>3. MemoryList(s) = TableList(table, th)
    BY <2>1, <2>2, ListsAgree DEF TableList
  <2>4. MemoryLatest(s) = TableLatest(table, th)
    BY <2>1, LatestAgrees DEF TableLatest
  <2>5. \A id \in Ids : MemoryLoad(s, id) = TableLoad(table, th, id)
    BY <2>1, LoadFacts DEF TableLoad
  <2> QED
    BY <2>3, <2>4, <2>5 DEF s
<1> QED
  BY <1>1, StoreInvHolds, PTL

-----------------------------------------------------------------------------
(* A rewind leaves nothing behind                                          *)

(* What a rewind watches and has not been deleted yet is to be looked at,  *)
(* or to be deleted.                                                       *)
RewindTask(t, stored) ==
  t.do = "rewind" =>
    \A cp \in t.watched \cap stored :
      cp.step >= t.from /\ (cp.id \in Range(t.ids) \/ cp.id \in Range(t.picked))

RewindInv == \A c \in Clients : RewindTask(task[c], Range(memory[task[c].th]))

(* What the steps that change the savers do to the other tasks.            *)
SaveSeen(c, th, cp) ==
  /\ \A h \in ThreadIds : Range(memory'[h]) = IF h = th THEN Without(Range(memory[th]), cp.id) \cup {cp}
                                             ELSE Range(memory[h])
  /\ \A o \in Clients \ {c} :
       /\ task'[o].do = task[o].do /\ task'[o].th = task[o].th /\ task'[o].ids = task[o].ids
       /\ task'[o].picked = task[o].picked /\ task'[o].from = task[o].from
       /\ task'[o].found = task[o].found
       /\ task'[o].watched = IF task[o].th # th \/ task[o].do # "rewind" THEN task[o].watched
                             ELSE Without(task[o].watched, cp.id)

LEMMA SaveOthers ==
  ASSUME StoreInv, NEW c \in Clients, NEW th \in ThreadIds, NEW cp \in Checkpoints, Save(c, th, cp)
  PROVE  SaveSeen(c, th, cp)
<1>1. /\ \A h \in ThreadIds : memory'[h] = IF h = th THEN MemorySave(memory[th], cp) ELSE memory[h]
      /\ \A o \in Clients \ {c} : task'[o] = Unwatched(th, cp.id, "rewind")[o]
  BY SaveTyped
<1>2. memory[th] \in Seq(Checkpoints) /\ OneEach(memory[th]) /\ Typed
  BY DEF StoreInv, Typed, Alike
<1>3. Range(MemorySave(memory[th], cp)) = Without(Range(memory[th]), cp.id) \cup {cp}
  BY <1>2, SaveFacts
<1>4. \A h \in ThreadIds : Range(memory'[h]) = IF h = th THEN Without(Range(memory[th]), cp.id) \cup {cp}
                                         ELSE Range(memory[h])
  BY <1>1, <1>3
<1>5. ASSUME NEW o \in Clients \ {c}
      PROVE  /\ task'[o].do = task[o].do /\ task'[o].th = task[o].th /\ task'[o].ids = task[o].ids
             /\ task'[o].picked = task[o].picked /\ task'[o].from = task[o].from
             /\ task'[o].found = task[o].found
             /\ task'[o].watched = IF task[o].th # th \/ task[o].do # "rewind" THEN task[o].watched
                                   ELSE Without(task[o].watched, cp.id)
  <2>1. task'[o] = Unwatched(th, cp.id, "rewind")[o] /\ o \in Clients
    BY <1>1
  <2> QED
    BY <1>2, <2>1, UnwatchedFacts
<1> QED
  BY <1>4, <1>5 DEF SaveSeen

LEMMA DeleteOthers ==
  ASSUME StoreInv, NEW c \in Clients, Delete(c)
  PROVE  LET th == task[c].th
             id == Head(task[c].picked)
         IN  /\ \A h \in ThreadIds : Range(memory'[h]) = IF h = th THEN Without(Range(memory[th]), id) ELSE Range(memory[h])
             /\ \A o \in Clients :
                  /\ task'[o].do = task[o].do /\ task'[o].th = task[o].th
                  /\ task'[o].ids = task[o].ids /\ task'[o].from = task[o].from
                  /\ task'[o].found = task[o].found
                  /\ task'[o].picked = IF o = c THEN Tail(task[c].picked) ELSE task[o].picked
                  /\ task'[o].watched = IF task[o].th # th \/ task[o].do # "resume"
                                        THEN task[o].watched
                                        ELSE Without(task[o].watched, id)
<1> DEFINE th == task[c].th
           id == Head(task[c].picked)
<1>1. /\ th \in ThreadIds
      /\ \A h \in ThreadIds : memory'[h] = IF h = th THEN MemoryDelete(memory[th], id) ELSE memory[h]
      /\ \A o \in Clients \ {c} : task'[o] = Unwatched(th, id, "resume")[o]
      /\ task'[c] = [Unwatched(th, id, "resume")[c] EXCEPT !.picked = Tail(@)]
  BY DeleteTyped
<1> HIDE DEF th, id
<1>2. memory[th] \in Seq(Checkpoints) /\ OneEach(memory[th]) /\ Typed
  BY <1>1 DEF StoreInv, Typed, Alike
<1>3. Range(MemoryDelete(memory[th], id)) = Without(Range(memory[th]), id)
  BY <1>2, DeleteFacts
<1>4. \A h \in ThreadIds : Range(memory'[h]) = IF h = th THEN Without(Range(memory[th]), id) ELSE Range(memory[h])
  BY <1>1, <1>3
<1>5. ASSUME NEW o \in Clients
      PROVE  /\ task'[o].do = task[o].do /\ task'[o].th = task[o].th
             /\ task'[o].ids = task[o].ids /\ task'[o].from = task[o].from
             /\ task'[o].found = task[o].found
             /\ task'[o].picked = IF o = c THEN Tail(task[c].picked) ELSE task[o].picked
             /\ task'[o].watched = IF task[o].th # th \/ task[o].do # "resume" THEN task[o].watched
                                   ELSE Without(task[o].watched, id)
  <2> DEFINE u == Unwatched(th, id, "resume")[o]
  <2>1. /\ u \in Tasks
        /\ u.do = task[o].do /\ u.th = task[o].th /\ u.ids = task[o].ids /\ u.picked = task[o].picked
        /\ u.from = task[o].from /\ u.found = task[o].found
        /\ u.watched = IF task[o].th # th \/ task[o].do # "resume" THEN task[o].watched
                       ELSE Without(task[o].watched, id)
    BY <1>2, UnwatchedFacts
  <2>2. task'[o] = u \/ (o = c /\ task'[o] = [u EXCEPT !.picked = Tail(task[c].picked)])
    BY <1>1, <2>1
  <2>3. o # c => task'[o] = u
    BY <1>1
  <2>4. o = c => task'[o] = [u EXCEPT !.picked = Tail(task[c].picked)]
    BY <1>1, <2>1
  <2> HIDE DEF u
  <2> QED
    BY <2>1, <2>3, <2>4 DEF Tasks
<1> QED
  BY <1>4, <1>5 DEF th, id

LEMMA RewindInvStep == StoreInv /\ RewindInv /\ [Next]_vars => RewindInv'
<1> SUFFICES ASSUME StoreInv, RewindInv, [Next]_vars PROVE RewindInv'
  OBVIOUS
<1>0. /\ task \in [Clients -> Tasks] /\ Typed
      /\ \A h \in ThreadIds : memory[h] \in Seq(Checkpoints) /\ OneEach(memory[h])
  BY DEF StoreInv, Typed, Alike
<1>1. ASSUME NEW c \in Clients, NEW th \in ThreadIds, NEW cp \in Checkpoints, Save(c, th, cp)
      PROVE  RewindInv'
  <2> SUFFICES ASSUME NEW o \in Clients, task'[o].do = "rewind",
                      NEW x \in task'[o].watched, x \in Range(memory'[task'[o].th])
               PROVE  /\ x.step >= task'[o].from
                      /\ x.id \in Range(task'[o].ids) \/ x.id \in Range(task'[o].picked)
    BY DEF RewindInv, RewindTask
  <2>1. o # c
    BY <1>1, SaveTyped
  <2>2. /\ task'[o].do = task[o].do /\ task'[o].th = task[o].th /\ task'[o].ids = task[o].ids
        /\ task'[o].picked = task[o].picked /\ task'[o].from = task[o].from
        /\ task'[o].watched = IF task[o].th # th \/ task[o].do # "rewind" THEN task[o].watched
                              ELSE Without(task[o].watched, cp.id)
        /\ Range(memory'[task[o].th]) = IF task[o].th = th THEN Without(Range(memory[th]), cp.id) \cup {cp}
                                 ELSE Range(memory[task[o].th])
    <3>1. o \in Clients \ {c} /\ task[o].th \in ThreadIds
      BY <1>0, <2>1 DEF Tasks
    <3>2. SaveSeen(c, th, cp)
      BY <1>1, SaveOthers
    <3> QED
      BY <3>1, <3>2 DEF SaveSeen
  <2>3. x \in task[o].watched /\ x \in Range(memory[task[o].th])
    <3>1. CASE task[o].th # th
      BY <2>2, <3>1
    <3>2. CASE task[o].th = th
      BY <2>2, <3>2 DEF Without
    <3> QED
      BY <3>1, <3>2
  <2> QED
    BY <2>2, <2>3 DEF RewindInv, RewindTask
<1>2. ASSUME NEW c \in Clients, Delete(c) PROVE RewindInv'
  <2> DEFINE th == task[c].th
             id == Head(task[c].picked)
  <2> SUFFICES ASSUME NEW o \in Clients, task'[o].do = "rewind",
                      NEW x \in task'[o].watched, x \in Range(memory'[task'[o].th])
               PROVE  /\ x.step >= task'[o].from
                      /\ x.id \in Range(task'[o].ids) \/ x.id \in Range(task'[o].picked)
    BY DEF RewindInv, RewindTask
  <2>1. /\ task'[o].do = task[o].do /\ task'[o].th = task[o].th /\ task'[o].ids = task[o].ids
        /\ task'[o].from = task[o].from
        /\ task'[o].picked = IF o = c THEN Tail(task[c].picked) ELSE task[o].picked
        /\ task[o].do = "rewind" => task'[o].watched = task[o].watched
        /\ Range(memory'[task[o].th]) = IF task[o].th = th THEN Without(Range(memory[th]), id)
                                 ELSE Range(memory[task[o].th])
    <3>1. task[o].th \in ThreadIds
      BY <1>0 DEF Tasks
    <3> QED
      BY <1>2, <3>1, DeleteOthers
  <2>2. x \in task[o].watched /\ x \in Range(memory[task[o].th]) /\ (o = c => x.id # id)
    BY <2>1 DEF Without
  <2>3. /\ x.step >= task[o].from
        /\ x.id \in Range(task[o].ids) \/ x.id \in Range(task[o].picked)
    BY <2>1, <2>2 DEF RewindInv, RewindTask
  <2>4. CASE o = c
    <3>1. task[c].picked \in Seq(Ids) /\ task[c].picked # <<>>
      BY <1>0, <1>2 DEF Delete, Tasks
    <3>2. Range(task[c].picked) = {id} \cup Range(Tail(task[c].picked))
      BY <3>1, HeadTail
    <3> QED
      BY <2>1, <2>2, <2>3, <2>4, <3>2
  <2>5. CASE o # c
    BY <2>1, <2>3, <2>5
  <2> QED
    BY <2>4, <2>5
<1>3. ASSUME NEW c \in Clients, QuietStep(c) PROVE RewindInv'
  <2>1. UNCHANGED memory /\ \A o \in Clients \ {c} : task'[o] = task[o]
    BY <1>0, <1>3, QuietTyped
  <2>3. RewindTask(task'[c], Range(memory'[task'[c].th]))
    <3>1. ASSUME NEW th \in ThreadIds, NEW from \in Range(StepOf), NEW eager \in BOOLEAN,
                 Rewind(c, th, from, eager)
          PROVE  RewindTask(task'[c], Range(memory'[task'[c].th]))
      <4>1. /\ task'[c].ids = MemoryList(memory[th]) /\ task'[c].th = th /\ task'[c].from = from
            /\ task'[c].watched = {cp \in Range(memory[th]) : cp.step >= from}
        BY <1>0, <3>1 DEF Rewind, Starts, Task, Stored
      <4>2. Range(task'[c].ids) = {x.id : x \in Range(memory[th])}
        BY <1>0, <4>1, ListFacts
      <4> QED
        BY <4>1, <4>2 DEF RewindTask
    <3>2. CASE Pick(c)
      <4> DEFINE t == task[c]
                 next == Head(t.ids)
                 loaded == MemoryLoad(memory[t.th], next)
      <4>1. t \in Tasks /\ t.do = "rewind" /\ t.ids \in Seq(Ids) /\ t.ids # <<>> /\ t.picked \in Seq(Ids)
        BY <1>0, <3>2 DEF Pick, Tasks
      <4>2. next \in Ids /\ Range(t.ids) = {next} \cup Range(Tail(t.ids))
        BY <4>1, HeadTail
      <4>3. loaded = {cp \in Range(memory[t.th]) : cp.id = next}
        BY <1>0, <4>1, LoadFacts DEF Tasks
      <4>4. /\ task'[c].ids = Tail(t.ids) /\ task'[c].th = t.th /\ task'[c].from = t.from
            /\ task'[c].watched = t.watched
            /\ task'[c].picked = IF \E cp \in loaded : cp.step >= t.from THEN Append(t.picked, next)
                                 ELSE t.picked
        BY <1>0, <3>2, <4>1 DEF Pick, Tasks
      <4>5. Range(Append(t.picked, next)) = Range(t.picked) \cup {next}
        BY <4>1, <4>2, Appended
      <4> SUFFICES ASSUME NEW x \in t.watched, x \in Range(memory[t.th])
                   PROVE  /\ x.step >= t.from
                          /\ x.id \in Range(Tail(t.ids)) \/ x.id \in Range(task'[c].picked)
        BY <2>1, <4>4 DEF RewindTask
      <4>6. x.step >= t.from /\ (x.id \in Range(t.ids) \/ x.id \in Range(t.picked))
        BY <4>1 DEF RewindInv, RewindTask
      <4>7. x.id = next => \E cp \in loaded : cp.step >= t.from
        BY <4>3, <4>6
      <4> HIDE DEF t, next, loaded
      <4>8. Range(t.picked) \subseteq Range(task'[c].picked)
              /\ (x.id = next => next \in Range(task'[c].picked))
        BY <4>4, <4>5, <4>7
      <4> QED
        BY <4>2, <4>6, <4>8
    <3>3. CASE ListToPrune(c)
      <4>1. task'[c].do = "prune"
        BY <1>0, <3>3 DEF ListToPrune, Tasks
      <4> QED
        BY <4>1 DEF RewindTask
    <3>4. ASSUME NEW th \in ThreadIds, ResumeLatest(c, th) \/ Resume(c, th)
          PROVE  RewindTask(task'[c], Range(memory'[task'[c].th]))
      <4>1. task'[c].do = "resume"
        BY <1>0, <3>4 DEF ResumeLatest, Resume, Starts, Task
      <4> QED
        BY <4>1 DEF RewindTask
    <3>5. CASE Compare(c)
      <4>1. task'[c].do = "resume"
        BY <1>0, <3>5 DEF Compare, Tasks
      <4> QED
        BY <4>1 DEF RewindTask
    <3>6. CASE Return(c)
      <4>1. task'[c].do = "none"
        BY <1>0, <3>6 DEF Return, Idle, Task
      <4> QED
        BY <4>1 DEF RewindTask
    <3> QED
      BY <1>3, <3>1, <3>2, <3>3, <3>4, <3>5, <3>6 DEF QuietStep
  <2>4. ASSUME NEW o \in Clients PROVE RewindTask(task'[o], Range(memory'[task'[o].th]))
    <3>1. CASE o = c
      BY <2>3, <3>1
    <3>2. CASE o # c
      <4>1. task'[o] = task[o]
        BY <2>1, <3>2
      <4> QED
        BY <2>1, <4>1 DEF RewindInv
    <3> QED
      BY <3>1, <3>2
  <2> QED
    BY <2>4 DEF RewindInv
<1>4. CASE UNCHANGED vars
  BY <1>4 DEF vars, RewindInv
<1> QED
  BY <1>1, <1>2, <1>3, <1>4, Nexts

(* rewind (src/checkpoint and Interpreter::rewind): at its end none of the *)
(* checkpoints it had to delete is left, but for those saved again.        *)
THEOREM RewindsLeaveNothing == Spec => []RewindGoesBack
<1>1. Init => RewindInv
  BY DEF Init, RewindInv, RewindTask, Idle, Task
<1>2. StoreInv /\ RewindInv => RewindGoesBack
  <2>1. ASSUME StoreInv, RewindInv, NEW c \in Clients, Over(c), task[c].do = "rewind"
        PROVE  task[c].watched \cap Stored(task[c].th) = {}
    <3>1. Range(task[c].ids) = {} /\ Range(task[c].picked) = {}
      <4>1. \A s : s = <<>> => Range(s) = {}
        BY DEF Range
      <4> QED
        BY <2>1, <4>1 DEF Over
    <3> QED
      BY <2>1, <3>1 DEF RewindInv, RewindTask, Stored
  <2> QED
    BY <2>1 DEF RewindGoesBack
<1> QED
  BY <1>1, <1>2, RewindInvStep, StoreInvHolds, PTL DEF Spec

-----------------------------------------------------------------------------
(* A resumption is recent                                                  *)

(* What a resumption watches is there under its id, and it has found       *)
(* something as recent or has yet to look at it.                           *)
ResumeTask(t, stored) ==
  t.do = "resume" =>
    \A there \in t.watched :
      /\ \E cp \in stored : cp.id = there.id
      /\ there.id \in Range(t.ids) \/ \E cp \in t.found : cp.step >= there.step

ResumeInv == \A c \in Clients : ResumeTask(task[c], Range(memory[task[c].th]))

(* Among the rows of a thread id there is one that none comes after.       *)
LEMMA LatestExists ==
  ASSUME NEW s \in Seq(Checkpoints), NEW there \in Range(s)
  PROVE  \E cp \in MemoryLatest(s) : cp.step >= there.step
<1> DEFINE rows == Range(s)
           n    == Cardinality(rows)
           list == Ranked(rows, RowOrder(rows))
<1>1. rows \in SUBSET Checkpoints
  BY SeqFacts
<1>2. IsFiniteSet(rows)
  <2>1. IsFiniteSet(DOMAIN s)
    BY SeqFacts
  <2>2. s \in Surjection(DOMAIN s, rows)
    BY SeqFacts DEF Range, Surjection
  <2> QED
    BY <2>1, <2>2, FS_Surjection
<1>3. /\ list \in Bijection(1..n, rows)
      /\ \A j, k \in 1..n : j < k <=> <<list[j], list[k]>> \in RowOrder(rows)
  BY <1>1, <1>2, RowsOrdered, RankedSorts
<1>4. list \in [1..n -> rows] /\ \A x \in rows : \E k \in 1..n : list[k] = x
  BY <1>3 DEF Bijection, Injection, Surjection
<1>5. n \in Nat
  BY <1>2, FS_CardinalityType
<1> HIDE DEF n, list
<1>6. n \in 1..n
  <2>1. PICK k \in 1..n : list[k] = there
    BY <1>4
  <2> QED
    BY <1>5, <2>1
<1>7. ASSUME NEW o \in rows PROVE ~Before(list[n], o)
  <2>1. PICK k \in 1..n : list[k] = o
    BY <1>4
  <2>2. ~(n < k)
    BY <1>5, <2>1
  <2>3. <<list[n], list[k]>> \notin RowOrder(rows)
    BY <1>3, <1>6, <2>1, <2>2
  <2> QED
    BY <1>1, <1>4, <1>6, <2>1, <2>3, RowsOrdered
<1>8. list[n] \in rows
  BY <1>4, <1>6
<1>9. list[n] \in MemoryLatest(s)
  BY <1>7, <1>8, LatestAgrees
<1>10. list[n].step >= there.step
  <2>1. list[n].step \in Nat /\ there.step \in Nat
    BY <1>1, <1>8, CheckpointFacts
  <2> QED
    BY <1>7, <2>1 DEF Before
<1> QED
  BY <1>9, <1>10

LEMMA ResumeInvStep == StoreInv /\ ResumeInv /\ [Next]_vars => ResumeInv'
<1> SUFFICES ASSUME StoreInv, ResumeInv, [Next]_vars PROVE ResumeInv'
  OBVIOUS
<1>0. /\ task \in [Clients -> Tasks] /\ Typed
      /\ \A h \in ThreadIds : memory[h] \in Seq(Checkpoints) /\ OneEach(memory[h])
  BY DEF StoreInv, Typed, Alike
<1>1. ASSUME NEW c \in Clients, NEW th \in ThreadIds, NEW cp \in Checkpoints, Save(c, th, cp)
      PROVE  ResumeInv'
  <2> SUFFICES ASSUME NEW o \in Clients, task'[o].do = "resume", NEW there \in task'[o].watched
               PROVE  /\ \E x \in Range(memory'[task'[o].th]) : x.id = there.id
                      /\ \/ there.id \in Range(task'[o].ids)
                         \/ \E x \in task'[o].found : x.step >= there.step
    BY DEF ResumeInv, ResumeTask
  <2>1. o # c
    BY <1>1, SaveTyped
  <2>2. SaveSeen(c, th, cp)
    BY <1>1, SaveOthers
  <2>3. /\ task[o].th \in ThreadIds /\ task'[o].th = task[o].th /\ task'[o].ids = task[o].ids
        /\ task'[o].found = task[o].found /\ task[o].do = "resume" /\ there \in task[o].watched
    BY <1>0, <2>1, <2>2 DEF Tasks, SaveSeen
  <2>4. PICK x \in Range(memory[task[o].th]) : x.id = there.id
    BY <2>3 DEF ResumeInv, ResumeTask
  <2>5. \E y \in Range(memory'[task[o].th]) : y.id = there.id
    <3>1. CASE task[o].th # th
      BY <2>2, <2>3, <2>4, <3>1 DEF SaveSeen
    <3>2. CASE task[o].th = th
      <4>1. Range(memory'[th]) = Without(Range(memory[th]), cp.id) \cup {cp}
        BY <2>2 DEF SaveSeen
      <4>2. x \in Range(memory[th]) /\ (x.id # cp.id => x \in Without(Range(memory[th]), cp.id))
        BY <2>4, <3>2 DEF Without
      <4>3. IF x.id = cp.id THEN cp \in Range(memory'[th]) /\ cp.id = there.id
                            ELSE x \in Range(memory'[th])
        BY <2>4, <4>1, <4>2
      <4> QED
        BY <2>4, <3>2, <4>3
    <3> QED
      BY <3>1, <3>2
  <2> QED
    BY <2>3, <2>5 DEF ResumeInv, ResumeTask
<1>2. ASSUME NEW c \in Clients, Delete(c) PROVE ResumeInv'
  <2> DEFINE th == task[c].th
             id == Head(task[c].picked)
  <2> SUFFICES ASSUME NEW o \in Clients, task'[o].do = "resume", NEW there \in task'[o].watched
               PROVE  /\ \E x \in Range(memory'[task'[o].th]) : x.id = there.id
                      /\ \/ there.id \in Range(task'[o].ids)
                         \/ \E x \in task'[o].found : x.step >= there.step
    BY DEF ResumeInv, ResumeTask
  <2>1. /\ task'[o].do = task[o].do /\ task'[o].th = task[o].th /\ task'[o].ids = task[o].ids
        /\ task'[o].found = task[o].found
        /\ task'[o].watched = IF task[o].th # th \/ task[o].do # "resume" THEN task[o].watched
                              ELSE Without(task[o].watched, id)
        /\ Range(memory'[task[o].th]) = IF task[o].th = th THEN Without(Range(memory[th]), id)
                                        ELSE Range(memory[task[o].th])
    <3>1. task[o].th \in ThreadIds
      BY <1>0 DEF Tasks
    <3> QED
      BY <1>2, <3>1, DeleteOthers
  <2>2. there \in task[o].watched /\ (task[o].th = th => there.id # id)
    BY <2>1 DEF Without
  <2>3. PICK x \in Range(memory[task[o].th]) : x.id = there.id
    BY <2>1, <2>2 DEF ResumeInv, ResumeTask
  <2>4. x \in Range(memory'[task[o].th])
    BY <2>1, <2>2, <2>3 DEF Without
  <2> QED
    BY <2>1, <2>2, <2>3, <2>4 DEF ResumeInv, ResumeTask
<1>3. ASSUME NEW c \in Clients, QuietStep(c) PROVE ResumeInv'
  <2>1. UNCHANGED memory /\ \A o \in Clients \ {c} : task'[o] = task[o]
    BY <1>0, <1>3, QuietTyped
  <2>2. ResumeTask(task'[c], Range(memory'[task'[c].th]))
    <3>1. ASSUME NEW th \in ThreadIds, ResumeLatest(c, th)
          PROVE  ResumeTask(task'[c], Range(memory'[task'[c].th]))
      <4>1. /\ task'[c].th = th /\ task'[c].watched = Range(memory[th])
            /\ task'[c].found = MemoryLatest(memory[th])
        BY <1>0, <3>1 DEF ResumeLatest, Starts, Task, Stored
      <4>2. \A there \in Range(memory[th]) : \E cp \in MemoryLatest(memory[th]) : cp.step >= there.step
        BY <1>0, LatestExists
      <4> QED
        BY <2>1, <4>1, <4>2 DEF ResumeTask
    <3>2. ASSUME NEW th \in ThreadIds, Resume(c, th)
          PROVE  ResumeTask(task'[c], Range(memory'[task'[c].th]))
      <4>1. /\ task'[c].th = th /\ task'[c].watched = Range(memory[th])
            /\ task'[c].ids = MemoryList(memory[th])
        BY <1>0, <3>2 DEF Resume, Starts, Task, Stored
      <4>2. Range(task'[c].ids) = {x.id : x \in Range(memory[th])}
        BY <1>0, <4>1, ListFacts
      <4> QED
        BY <2>1, <4>1, <4>2 DEF ResumeTask
    <3>3. CASE Compare(c)
      <4> DEFINE t == task[c]
                 next == Head(t.ids)
                 now == MemoryLoad(memory[t.th], next)
                 better == {cp \in now : \A old \in t.found : cp.step > old.step}
      <4>1. /\ t \in Tasks /\ t.do = "resume" /\ t.ids \in Seq(Ids) /\ t.ids # <<>>
            /\ t.th \in ThreadIds /\ t.watched \subseteq Checkpoints /\ t.found \subseteq Checkpoints
        BY <1>0, <3>3 DEF Compare, Tasks
      <4>2. Range(t.ids) = {next} \cup Range(Tail(t.ids))
        BY <4>1, HeadTail
      <4>3. now = {cp \in Range(memory[t.th]) : cp.id = next}
        BY <1>0, <4>1, LoadFacts
      <4>4. now \subseteq Checkpoints
        BY <1>0, <4>1, <4>3, SeqFacts
      <4>5. /\ task'[c].ids = Tail(t.ids) /\ task'[c].th = t.th /\ task'[c].watched = t.watched
            /\ task'[c].found = IF better = {} THEN t.found ELSE better
        BY <1>0, <3>3, <4>1 DEF Compare, Tasks
      <4>6. ASSUME NEW there \in t.watched
            PROVE  /\ \E cp \in Range(memory[t.th]) : cp.id = there.id
                   /\ there.id \in Range(t.ids) \/ \E cp \in t.found : cp.step >= there.step
        BY <4>1 DEF ResumeInv, ResumeTask
      <4>7. ASSUME NEW there \in t.watched, there.id = next \/ \E cp \in t.found : cp.step >= there.step
            PROVE  \E cp \in task'[c].found : cp.step >= there.step
        <5>0. there.step \in Nat /\ \A x \in t.found \cup now : x.step \in Nat
          BY <4>1, <4>4, CheckpointFacts
        <5>1. \A x \in now : there.id = next => x.step = there.step
          BY <4>1, <4>3, <4>4, CheckpointFacts
        <5>2. there.id = next => now # {}
          BY <4>3, <4>6
        <5>3. CASE better = {}
          BY <4>5, <4>7, <5>0, <5>1, <5>2, <5>3
        <5>4. CASE better # {}
          <6>1. PICK b \in better : TRUE
            BY <5>4
          <6>2. b.step >= there.step
            BY <4>7, <5>0, <5>1, <6>1
          <6> QED
            BY <4>5, <5>4, <6>1, <6>2
        <5> QED
          BY <5>3, <5>4
      <4> HIDE DEF t, next, now, better
      <4> QED
        BY <2>1, <4>2, <4>5, <4>6, <4>7 DEF ResumeTask
    <3>4. CASE ListToPrune(c)
      <4>1. task'[c].do = "prune"
        BY <1>0, <3>4 DEF ListToPrune, Tasks
      <4> QED
        BY <4>1 DEF ResumeTask
    <3>5. ASSUME NEW th \in ThreadIds, NEW from \in Range(StepOf), NEW eager \in BOOLEAN,
                 Rewind(c, th, from, eager)
          PROVE  ResumeTask(task'[c], Range(memory'[task'[c].th]))
      <4>1. task'[c].do = "rewind"
        BY <1>0, <3>5 DEF Rewind, Starts, Task
      <4> QED
        BY <4>1 DEF ResumeTask
    <3>6. CASE Pick(c)
      <4>1. task'[c].do = "rewind"
        BY <1>0, <3>6 DEF Pick, Tasks
      <4> QED
        BY <4>1 DEF ResumeTask
    <3>7. CASE Return(c)
      <4>1. task'[c].do = "none"
        BY <1>0, <3>7 DEF Return, Idle, Task
      <4> QED
        BY <4>1 DEF ResumeTask
    <3> QED
      BY <1>3, <3>1, <3>2, <3>3, <3>4, <3>5, <3>6, <3>7 DEF QuietStep
  <2>3. ASSUME NEW o \in Clients PROVE ResumeTask(task'[o], Range(memory'[task'[o].th]))
    <3>1. CASE o = c
      BY <2>2, <3>1
    <3>2. CASE o # c
      <4>1. task'[o] = task[o]
        BY <2>1, <3>2
      <4> QED
        BY <2>1, <4>1 DEF ResumeInv
    <3> QED
      BY <3>1, <3>2
  <2> QED
    BY <2>3 DEF ResumeInv
<1>4. CASE UNCHANGED vars
  BY <1>4 DEF vars, ResumeInv
<1> QED
  BY <1>1, <1>2, <1>3, <1>4, Nexts

(* resume (src/checkpoint and Interpreter::resume): whatever is saved,     *)
(* pruned and rewound next to it, it comes back with nothing older than    *)
(* any checkpoint that was there all the time.                             *)
THEOREM ResumptionsAreRecent == Spec => []ResumeIsRecent
<1>1. Init => ResumeInv
  BY DEF Init, ResumeInv, ResumeTask, Idle, Task
<1>2. ResumeInv => ResumeIsRecent
  <2>1. \A s : s = <<>> => Range(s) = {}
    BY DEF Range
  <2> QED
    BY <2>1 DEF ResumeIsRecent, ResumeInv, ResumeTask, Over
<1> QED
  BY <1>1, <1>2, ResumeInvStep, StoreInvHolds, PTL DEF Spec
=============================================================================

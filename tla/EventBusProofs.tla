--------------------------- MODULE EventBusProofs ---------------------------
(***************************************************************************)
(* What an emit delivers, for any threads, patterns, events and bounds.    *)
(***************************************************************************)
EXTENDS EventBus, TLAPS

Stages     == {"exact", "prefix", "interior"}
Deliveries == [in : Stages, by : Seq(Segments), to : Nat]
Frames     == [event : Events, stage : Stages \cup {"call"}, out : SUBSET Deliveries,
               left : SUBSET Deliveries, running : BOOLEAN, must : SUBSET Nat, may : SUBSET Nat]

(* The index a pattern's handlers are in.                                  *)
Shape(p) == IF IsExact(p) THEN "exact" ELSE IF IsPrefix(p) THEN "prefix" ELSE "interior"

(* The stages an emit has behind it.                                       *)
Read(f) == CASE f.stage = "exact"    -> {}
             [] f.stage = "prefix"   -> {"exact"}
             [] f.stage = "interior" -> {"exact", "prefix"}
             [] f.stage = "call"     -> Stages

InForce(e) == {x[2] : x \in {y \in live : matches(e, y[1])}}
Copied(f)  == {d.to : d \in f.out}

(* An emit that reads: its history agrees with what is in force, and of    *)
(* the handlers that must be delivered those are that it has passed.       *)
Tracked(f) ==
  /\ f.must \subseteq InForce(f.event)
  /\ InForce(f.event) \subseteq f.may
  /\ \A x \in live : x[2] \in f.must /\ Shape(x[1]) \in Read(f) => x[2] \in Copied(f)

(* What it has copied: from the indexes it has passed, each handler once,  *)
(* and a handler that is still in force where its pattern belongs.         *)
Sorted(f) ==
  /\ Copied(f) \subseteq f.may
  /\ \A d \in f.out : d.in \in Read(f) /\ d.to <= made
  /\ \A d \in f.out : \A x \in live : x[2] = d.to => Shape(x[1]) = d.in
  /\ \A c, d \in f.out : c.to = d.to => c = d

GoodFrames ==
  {f \in Frames : /\ Sorted(f)
                  /\ Reading(f) => Tracked(f)
                  /\ ~Reading(f) => f.must \subseteq Copied(f)}

LiveOK ==
  /\ made \in Nat
  /\ live \subseteq Patterns \X Nat
  /\ \A x \in live : x[2] <= made
  /\ \A x, y \in live : x[2] = y[2] => x = y

BusInv ==
  /\ LiveOK
  /\ IndexesHoldTheLive
  /\ stack \in [Threads -> Seq(GoodFrames)]

-----------------------------------------------------------------------------
(* Names                                                                   *)

LEMMA NamesAreSequences ==
  /\ \A s \in Names : s \in Seq(Segments) /\ Len(s) \in Nat \ {0} /\ DOMAIN s = 1..Len(s)
  /\ Patterns \subseteq Names /\ Events \subseteq Names /\ <<"", "*">> \notin Patterns
<1>1. ASSUME NEW s \in Names
      PROVE  s \in Seq(Segments) /\ Len(s) \in Nat \ {0} /\ DOMAIN s = 1..Len(s)
  BY DEF Names
<1> QED BY <1>1, EventBusAssumption

LEMMA SegmentsKept ==
  ASSUME NEW s \in Names, NEW n \in 0..Len(s)
  PROVE  SubSeq(s, 1, n) \in Seq(Segments) /\ Len(SubSeq(s, 1, n)) = n
         /\ \A i \in 1..n : SubSeq(s, 1, n)[i] = s[i]
BY DEF Names

(* A prefix pattern has its star at the end, and something other than one  *)
(* empty segment before it.                                                *)
LEMMA StarAtTheEnd ==
  ASSUME NEW p \in Patterns, IsPrefix(p)
  PROVE  /\ p \in Names /\ p \in Seq(Segments) /\ Len(p) \in Nat \ {0} /\ p[Len(p)] = "*"
         /\ \A i \in 1..(Len(p) - 1) : p[i] # "*"
<1>1. p \in Names /\ p \in Seq(Segments) /\ Len(p) \in Nat \ {0} /\ DOMAIN p = 1..Len(p)
  BY NamesAreSequences
<1>2. \A i \in DOMAIN p : p[i] = "*" <=> i = Len(p)
  BY <1>1 DEF IsPrefix, Stars
<1> QED BY <1>1, <1>2

LEMMA Tuples ==
  /\ \A x, s : s = <<x>> => Len(s) = 1 /\ s[1] = x
  /\ \A s \in Seq(Segments) : Len(s) = 2 => s = <<s[1], s[2]>>
<1>1. ASSUME NEW x, NEW s, s = <<x>> PROVE Len(s) = 1 /\ s[1] = x
  BY <1>1
<1>2. ASSUME NEW s \in Seq(Segments), Len(s) = 2 PROVE s = <<s[1], s[2]>>
  BY <1>2
<1> QED BY <1>1, <1>2

LEMMA NoEmptyKey ==
  ASSUME NEW p \in Patterns, IsPrefix(p)
  PROVE  SubSeq(p, 1, Len(p) - 1) # <<"">>
<1> DEFINE q == SubSeq(p, 1, Len(p) - 1)
<1>1. Len(p) - 1 \in 0..Len(p) /\ Len(p) \in Nat
  BY StarAtTheEnd
<1>2. Len(q) = Len(p) - 1 /\ \A i \in 1..(Len(p) - 1) : q[i] = p[i]
  BY <1>1, StarAtTheEnd, SegmentsKept
<1> HIDE DEF q
<1>3. ASSUME Len(q) = 1, q[1] = "" PROVE FALSE
  <2>1. Len(p) - 1 = 1 /\ Len(p) \in Nat
    BY <1>2, <1>3, StarAtTheEnd, Zenon
  <2>2. Len(p) = 2
    BY <2>1
  <2>3. p[Len(p)] = "*" /\ p \in Seq(Segments)
    BY StarAtTheEnd, Zenon
  <2>4. q[1] = p[1]
    BY <2>1, <1>2
  <2>5. p = <<p[1], p[2]>>
    BY <2>2, <2>3, Tuples, Zenon
  <2>6. p = <<"", "*">>
    BY <2>2, <2>3, <2>4, <2>5, <1>3, Zenon
  <2> QED BY <2>6, NamesAreSequences, Zenon
<1>4. q # <<"">>
  BY <1>3, Tuples, Zenon
<1> QED BY <1>4, Zenon DEF q

(* The key of a prefix pattern is the pattern without its star.            *)
LEMMA KeyOfPrefix ==
  ASSUME NEW p \in Patterns, IsPrefix(p)
  PROVE  /\ PrefixKey(p) \in Seq(Segments)
         /\ Len(PrefixKey(p)) = Len(p) - 1
         /\ \A i \in 1..(Len(p) - 1) : PrefixKey(p)[i] = p[i]
<1>1. Len(p) - 1 \in 0..Len(p) /\ p \in Names
  BY StarAtTheEnd
<1> DEFINE q == SubSeq(p, 1, Len(p) - 1)
<1>2. PrefixKey(p) = q
  BY NoEmptyKey, Zenon DEF PrefixKey, Joined
<1>3. q \in Seq(Segments) /\ Len(q) = Len(p) - 1 /\ \A i \in 1..(Len(p) - 1) : q[i] = p[i]
  BY <1>1, SegmentsKept
<1> HIDE DEF q
<1> QED BY <1>2, <1>3

LEMMA KeyIsLookedUp ==
  ASSUME NEW p \in Patterns, IsPrefix(p)
  PROVE  PrefixKey(p) # <<"">>
BY NoEmptyKey DEF PrefixKey, Joined

LEMMA KeysDiffer ==
  ASSUME NEW p \in Patterns, NEW o \in Patterns, IsPrefix(p), IsPrefix(o),
         PrefixKey(p) = PrefixKey(o)
  PROVE  p = o
<1>1. p \in Seq(Segments) /\ o \in Seq(Segments) /\ Len(p) \in Nat \ {0} /\ Len(o) \in Nat \ {0}
  BY StarAtTheEnd
<1>2. Len(p) = Len(o)
  <2>1. Len(p) - 1 = Len(o) - 1
    BY KeyOfPrefix
  <2> QED BY <2>1, <1>1
<1>3. \A i \in 1..(Len(p) - 1) : p[i] = o[i]
  BY <1>2, KeyOfPrefix
<1>4. p[Len(p)] = o[Len(p)]
  BY <1>2, StarAtTheEnd
<1>5. \A i \in 1..Len(p) : p[i] = o[i]
  BY <1>1, <1>3, <1>4
<1> QED BY <1>1, <1>2, <1>5

(* A prefix pattern matches the events that have its key as a beginning.   *)
LEMMA PrefixMatches ==
  ASSUME NEW p \in Patterns, IsPrefix(p), NEW e \in Events
  PROVE  matches(e, p) <=> PrefixKey(p) \in Lookups(e)
<1>1. e \in Names /\ e \in Seq(Segments) /\ Len(e) \in Nat \ {0}
  BY NamesAreSequences
<1> DEFINE n == Len(p) - 1
           q == PrefixKey(p)
<1>2. n \in Nat /\ Len(p) = n + 1
  BY StarAtTheEnd
<1>3. p[Len(p)] = "*" /\ \A i \in 1..n : p[i] # "*"
  BY StarAtTheEnd
<1>4. q \in Seq(Segments) /\ Len(q) = n /\ \A i \in 1..n : q[i] = p[i]
  BY KeyOfPrefix
<1>5. q # <<"">>
  BY KeyIsLookedUp
<1>6. matches(e, p) <=> n <= Len(e) /\ Agree(e, p, n)
  BY <1>1, <1>2, <1>3 DEF matches
<1> HIDE DEF n, q
<1>7. Agree(e, p, n) <=> \A i \in 1..n : q[i] = e[i]
  BY <1>3, <1>4 DEF Agree
<1>8. ASSUME n <= Len(e), \A i \in 1..n : q[i] = e[i]
      PROVE  q \in Lookups(e)
  <2>1. n \in 0..Len(e)
    BY <1>1, <1>2, <1>8
  <2> DEFINE s == SubSeq(e, 1, n)
  <2>2. s \in Seq(Segments) /\ Len(s) = n /\ \A i \in 1..n : s[i] = e[i]
    BY <1>1, <2>1, SegmentsKept
  <2>3. q = s
    <3> HIDE DEF s
    <3> QED BY <1>2, <1>4, <1>8, <2>2
  <2>4. q \in {SubSeq(e, 1, i) : i \in 0..Len(e)}
    BY <2>1, <2>3
  <2> QED BY <1>5, <2>4, Zenon DEF Lookups
<1>9. ASSUME q \in Lookups(e)
      PROVE  n <= Len(e) /\ \A i \in 1..n : q[i] = e[i]
  <2>1. q \in {SubSeq(e, 1, i) : i \in 0..Len(e)}
    BY <1>9, Zenon DEF Lookups
  <2>2. PICK i \in 0..Len(e) : q = SubSeq(e, 1, i)
    BY <2>1
  <2>3. Len(q) = i /\ \A k \in 1..i : q[k] = e[k]
    BY <1>1, <2>2, SegmentsKept
  <2>4. i = n
    BY <2>3, <1>4
  <2> QED BY <1>1, <2>2, <2>3, <2>4
<1>10. matches(e, p) <=> q \in Lookups(e)
  BY <1>6, <1>7, <1>8, <1>9
<1> QED BY <1>10 DEF q

(* A pattern without stars matches the event of its own name.              *)
LEMMA ExactMatches ==
  ASSUME NEW p \in Patterns, IsExact(p), NEW e \in Events
  PROVE  matches(e, p) <=> p = e
<1>1. /\ p \in Seq(Segments) /\ Len(p) \in Nat \ {0} /\ DOMAIN p = 1..Len(p)
      /\ e \in Seq(Segments) /\ Len(e) \in Nat \ {0}
  BY NamesAreSequences
<1>2. \A i \in 1..Len(p) : p[i] # "*"
  BY <1>1 DEF IsExact, Stars
<1>3. matches(e, p) <=> Len(p) = Len(e) /\ \A i \in 1..Len(p) : p[i] = e[i]
  BY <1>1, <1>2 DEF matches, Agree
<1>4. (Len(p) = Len(e) /\ \A i \in 1..Len(p) : p[i] = e[i]) <=> p = e
  BY <1>1
<1> QED BY <1>3, <1>4

LEMMA Shapes ==
  ASSUME NEW p \in Patterns
  PROVE  /\ Shape(p) \in Stages
         /\ IsExact(p) <=> Shape(p) = "exact"
         /\ IsPrefix(p) <=> Shape(p) = "prefix"
         /\ IsInterior(p) <=> Shape(p) = "interior"
<1>1. ~(IsExact(p) /\ IsPrefix(p))
  BY DEF IsExact, IsPrefix
<1> QED BY <1>1 DEF Shape, Stages, IsInterior

-----------------------------------------------------------------------------
(* What emit finds in an index                                             *)

(* The delivery of a handler in force, x a pair of a pattern and a handler *)
DeliveryOf(x, e) ==
  CASE Shape(x[1]) = "exact"    -> Delivery("exact", e, x[2])
    [] Shape(x[1]) = "prefix"   -> Delivery("prefix", PrefixKey(x[1]), x[2])
    [] Shape(x[1]) = "interior" -> Delivery("interior", x[1], x[2])

Brought(e, s) == {DeliveryOf(x, e) : x \in {y \in live : Shape(y[1]) = s /\ matches(e, y[1])}}

LEMMA FoundExact ==
  ASSUME LiveOK, IndexesHoldTheLive, NEW e \in Events
  PROVE  Exactly(e) = Brought(e, "exact")
<1>1. ASSUME NEW d \in Exactly(e) PROVE d \in Brought(e, "exact")
  <2>1. PICK x \in exact : x[1] = e /\ d = Delivery("exact", e, x[2])
    BY DEF Exactly, Under
  <2>2. x \in live /\ x[1] \in Patterns /\ IsExact(x[1])
    BY <2>1 DEF IndexesHoldTheLive, LiveOK
  <2>3. Shape(x[1]) = "exact" /\ matches(e, x[1])
    BY <2>1, <2>2, Shapes, ExactMatches
  <2> QED BY <2>1, <2>2, <2>3 DEF Brought, DeliveryOf
<1>2. ASSUME NEW d \in Brought(e, "exact") PROVE d \in Exactly(e)
  <2>1. PICK x \in live : Shape(x[1]) = "exact" /\ matches(e, x[1]) /\ d = DeliveryOf(x, e)
    BY DEF Brought
  <2>2. x[1] \in Patterns
    BY DEF LiveOK
  <2>3. IsExact(x[1]) /\ x[1] = e
    BY <2>1, <2>2, Shapes, ExactMatches
  <2>4. x \in exact /\ d = Delivery("exact", e, x[2])
    BY <2>1, <2>3 DEF IndexesHoldTheLive, DeliveryOf
  <2> QED BY <2>3, <2>4 DEF Exactly, Under
<1> QED BY <1>1, <1>2

LEMMA FoundPrefix ==
  ASSUME LiveOK, IndexesHoldTheLive, NEW e \in Events
  PROVE  Prefixes(e) = Brought(e, "prefix")
<1>1. ASSUME NEW l \in Lookups(e) PROVE Joined(l) = l
  BY Zenon DEF Joined, Lookups
<1>2. ASSUME NEW d \in Prefixes(e) PROVE d \in Brought(e, "prefix")
  <2>1. PICK l \in Lookups(e) : d \in {Delivery("prefix", l, h) : h \in Under(prefix, Joined(l))}
    BY DEF Prefixes
  <2>2. PICK y \in prefix : y[1] = l /\ d = Delivery("prefix", l, y[2])
    BY <1>1, <2>1 DEF Under
  <2>3. PICK x \in live : IsPrefix(x[1]) /\ y = <<PrefixKey(x[1]), x[2]>>
    BY <2>2 DEF IndexesHoldTheLive
  <2>4. x[1] \in Patterns /\ y[1] = PrefixKey(x[1]) /\ y[2] = x[2]
    BY <2>3 DEF LiveOK
  <2>5. Shape(x[1]) = "prefix" /\ matches(e, x[1])
    BY <2>2, <2>3, <2>4, Shapes, PrefixMatches
  <2>6. d = DeliveryOf(x, e)
    BY <2>2, <2>4, <2>5 DEF DeliveryOf
  <2> QED BY <2>5, <2>6 DEF Brought
<1>3. ASSUME NEW d \in Brought(e, "prefix") PROVE d \in Prefixes(e)
  <2>1. PICK x \in live : Shape(x[1]) = "prefix" /\ matches(e, x[1]) /\ d = DeliveryOf(x, e)
    BY DEF Brought
  <2>2. x[1] \in Patterns
    BY DEF LiveOK
  <2>3. IsPrefix(x[1]) /\ PrefixKey(x[1]) \in Lookups(e)
    BY <2>1, <2>2, Shapes, PrefixMatches
  <2>4. <<PrefixKey(x[1]), x[2]>> \in prefix
    BY <2>3 DEF IndexesHoldTheLive
  <2>5. x[2] \in Under(prefix, Joined(PrefixKey(x[1])))
    BY <1>1, <2>3, <2>4 DEF Under
  <2>6. d = Delivery("prefix", PrefixKey(x[1]), x[2])
    BY <2>1 DEF DeliveryOf
  <2> QED BY <2>3, <2>5, <2>6 DEF Prefixes
<1> QED BY <1>2, <1>3

LEMMA FoundInterior ==
  ASSUME LiveOK, IndexesHoldTheLive, NEW e \in Events
  PROVE  Interiors(e) = Brought(e, "interior")
<1>1. \A x \in live : IsInterior(x[1]) <=> Shape(x[1]) = "interior"
  BY Shapes DEF LiveOK
<1>2. \A x : Shape(x[1]) = "interior" => DeliveryOf(x, e) = Delivery("interior", x[1], x[2])
  BY DEF DeliveryOf
<1> QED BY <1>1, <1>2 DEF Interiors, Brought, IndexesHoldTheLive

(* What the deliveries of an index are.                                    *)
LEMMA BroughtFrom ==
  ASSUME LiveOK, NEW e \in Events, NEW s \in Stages
  PROVE  /\ Brought(e, s) \subseteq Deliveries
         /\ \A d \in Brought(e, s) : d.in = s /\ \E x \in live : /\ x[2] = d.to /\ Shape(x[1]) = s
                                                                /\ matches(e, x[1]) /\ d = DeliveryOf(x, e)
         /\ \A x \in live : Shape(x[1]) = s /\ matches(e, x[1]) =>
               \E d \in Brought(e, s) : d.to = x[2]
<1>1. ASSUME NEW x \in live, Shape(x[1]) = s
      PROVE  LET d == DeliveryOf(x, e) IN d \in Deliveries /\ d.in = s /\ d.to = x[2]
  <2>1. x[1] \in Patterns /\ x[2] \in Nat
    BY DEF LiveOK
  <2>2. e \in Seq(Segments) /\ x[1] \in Seq(Segments)
    BY <2>1, NamesAreSequences
  <2>3. CASE s = "exact"
    BY <1>1, <2>1, <2>2, <2>3 DEF DeliveryOf, Delivery, Deliveries, Stages
  <2>4. CASE s = "prefix"
    <3>1. PrefixKey(x[1]) \in Seq(Segments)
      BY <1>1, <2>1, <2>4, Shapes, KeyOfPrefix
    <3> QED BY <1>1, <2>1, <2>4, <3>1 DEF DeliveryOf, Delivery, Deliveries, Stages
  <2>5. CASE s = "interior"
    BY <1>1, <2>1, <2>2, <2>5 DEF DeliveryOf, Delivery, Deliveries, Stages
  <2> QED BY <2>3, <2>4, <2>5 DEF Stages
<1>2. \A d \in Brought(e, s) : \E x \in live : Shape(x[1]) = s /\ matches(e, x[1]) /\ d = DeliveryOf(x, e)
  BY DEF Brought
<1>3. \A x \in live : Shape(x[1]) = s /\ matches(e, x[1]) => DeliveryOf(x, e) \in Brought(e, s)
  BY DEF Brought
<1> QED BY <1>1, <1>2, <1>3

-----------------------------------------------------------------------------
(* Frames                                                                  *)

(* An emit that begins knows what is in force.                             *)
LEMMA NewFrame ==
  ASSUME LiveOK, NEW e \in Events
  PROVE  Frame(e, InForce(e)) \in GoodFrames
<1> DEFINE f == Frame(e, InForce(e))
<1>1. InForce(e) \in SUBSET Nat
  BY DEF InForce, LiveOK
<1>2. f \in Frames
  BY <1>1 DEF Frame, Frames, Stages
<1>3. f.event = e /\ f.stage = "exact" /\ f.out = {} /\ f.must = InForce(e) /\ f.may = InForce(e)
  BY DEF Frame
<1> HIDE DEF f
<1>4. Sorted(f)
  BY <1>3 DEF Sorted, Copied
<1>5. Tracked(f)
  BY <1>3 DEF Tracked, Read
<1> QED BY <1>2, <1>3, <1>4, <1>5 DEF GoodFrames, Reading, f

(* The stage after another one.                                            *)
After(s) == CASE s = "exact" -> "prefix" [] s = "prefix" -> "interior" [] s = "interior" -> "call"

Advanced(f) ==
  LET out == f.out \cup Brought(f.event, f.stage)
  IN  [f EXCEPT !.stage = After(f.stage), !.out = out,
                !.left = IF After(f.stage) = "call" THEN out ELSE {}]

(* Reading one more index: the handlers it brings are in none of those     *)
(* that were read before, because a handler has one pattern.               *)
LEMMA ReadsOn ==
  ASSUME LiveOK, NEW f \in GoodFrames, f.stage \in Stages
  PROVE  Advanced(f) \in GoodFrames
<1> DEFINE e == f.event
           s == f.stage
           new == Brought(e, s)
           g == Advanced(f)
<1>1. f \in Frames /\ Sorted(f) /\ Tracked(f) /\ e \in Events
  BY DEF GoodFrames, Reading, Stages, Frames
<1>2. /\ new \subseteq Deliveries
      /\ \A d \in new : d.in = s /\ \E x \in live : x[2] = d.to /\ Shape(x[1]) = s
                                              /\ matches(e, x[1]) /\ d = DeliveryOf(x, e)
      /\ \A x \in live : Shape(x[1]) = s /\ matches(e, x[1]) => \E d \in new : d.to = x[2]
  BY <1>1, BroughtFrom
<1>3. /\ g \in Frames /\ g.event = e /\ g.must = f.must /\ g.may = f.may
      /\ g.out = f.out \cup new /\ g.stage = After(s)
  BY <1>1, <1>2 DEF Advanced, Frames, Stages, After
<1>4. Read(g) = Read(f) \cup {s} /\ s \notin Read(f)
  BY <1>3 DEF Read, After, Stages
<1> HIDE DEF g, new
<1>5. \A d \in new : d.to \in f.may /\ d.to <= made
  BY <1>1, <1>2 DEF Tracked, InForce, LiveOK
<1>6. Copied(g) = Copied(f) \cup {d.to : d \in new}
  BY <1>3 DEF Copied
<1>7. \A c \in f.out, d \in new : c.to # d.to
  BY <1>1, <1>2, <1>4 DEF Sorted
<1>8. \A c, d \in new : c.to = d.to => c = d
  BY <1>2 DEF LiveOK
<1>9. Sorted(g)
  <2>1. Copied(g) \subseteq g.may
    BY <1>1, <1>3, <1>5, <1>6 DEF Sorted
  <2>2. \A d \in g.out : d.in \in Read(g) /\ d.to <= made
    BY <1>1, <1>2, <1>3, <1>4, <1>5 DEF Sorted
  <2>3. \A d \in g.out : \A x \in live : x[2] = d.to => Shape(x[1]) = d.in
    BY <1>1, <1>2, <1>3 DEF Sorted, LiveOK
  <2>4. \A c, d \in g.out : c.to = d.to => c = d
    BY <1>1, <1>3, <1>7, <1>8 DEF Sorted
  <2> QED BY <2>1, <2>2, <2>3, <2>4 DEF Sorted
<1>10. \A x \in live : x[2] \in f.must => matches(e, x[1])
  BY <1>1 DEF Tracked, InForce, LiveOK
<1>11. Tracked(g)
  <2>1. \A x \in live : x[2] \in f.must /\ Shape(x[1]) = s => x[2] \in Copied(g)
    BY <1>2, <1>6, <1>10
  <2> QED BY <1>1, <1>3, <1>4, <1>6, <2>1 DEF Tracked
<1>12. ASSUME ~Reading(g) PROVE g.must \subseteq Copied(g)
  <2>1. Read(g) = Stages
    BY <1>12 DEF Reading, Read
  <2>2. \A x \in live : Shape(x[1]) \in Stages
    BY Shapes DEF LiveOK
  <2> QED BY <1>11, <2>1, <2>2 DEF Tracked, InForce
<1> QED BY <1>3, <1>9, <1>11, <1>12 DEF GoodFrames, g

(* The frames change in place.                                             *)
LEMMA InPlace ==
  ASSUME NEW S, NEW T, NEW s \in Seq(S), NEW r \in [DOMAIN s -> T]
  PROVE  r \in Seq(T)
OBVIOUS

LEMMA OnHead ==
  ASSUME NEW S, NEW s \in Seq(S), NEW g \in S
  PROVE  /\ <<g>> \o s \in Seq(S)
         /\ s # <<>> => Tail(s) \in Seq(S) /\ Head(s) \in S
OBVIOUS

-----------------------------------------------------------------------------
(* The steps                                                               *)

LEMMA OnStep ==
  ASSUME BusInv, NEW t \in Threads, NEW p \in Patterns, On(t, p)
  PROVE  BusInv'
<1> DEFINE h == made + 1
           x == <<p, h>>
           change(f) == IF matches(f.event, p) THEN [f EXCEPT !.may = @ \cup {h}] ELSE f
           now(f) == IF Reading(f) THEN change(f) ELSE f
<1>1. made \in Nat /\ h \in Nat /\ h > made /\ made' = h
  BY DEF BusInv, LiveOK, On
<1>2. live' = live \cup {x} /\ x[1] = p /\ x[2] = h
  BY DEF On
<1>3. stack' = [u \in Threads |-> [k \in DOMAIN stack[u] |-> now(stack[u][k])]]
  BY DEF On, Everywhere
<1>4. LiveOK'
  BY <1>1, <1>2 DEF BusInv, LiveOK
<1>5. IndexesHoldTheLive'
  <2>1. exact' = {y \in live' : IsExact(y[1])}
    BY <1>2 DEF On, BusInv, IndexesHoldTheLive
  <2>2. interior' = {y \in live' : IsInterior(y[1])}
    BY <1>2 DEF On, BusInv, IndexesHoldTheLive
  <2>3. prefix' = {<<PrefixKey(z[1]), z[2]>> : z \in {y \in live' : IsPrefix(y[1])}}
    <3>1. CASE IsPrefix(p)
      <4>1. prefix' = prefix \cup {<<PrefixKey(p), h>>}
        BY <3>1 DEF On
      <4>2. {y \in live' : IsPrefix(y[1])} = {y \in live : IsPrefix(y[1])} \cup {x}
        BY <1>2, <3>1
      <4> QED BY <1>2, <4>1, <4>2 DEF BusInv, IndexesHoldTheLive
    <3>2. CASE ~IsPrefix(p)
      <4>1. {y \in live' : IsPrefix(y[1])} = {y \in live : IsPrefix(y[1])}
        BY <1>2, <3>2
      <4> QED BY <3>2, <4>1 DEF On, BusInv, IndexesHoldTheLive
    <3> QED BY <3>1, <3>2
  <2> QED BY <2>1, <2>2, <2>3 DEF IndexesHoldTheLive
<1>6. ASSUME NEW f \in GoodFrames PROVE now(f) \in GoodFrames'
  <2>. PICK g : g = now(f)
    OBVIOUS
  <2>1. f \in Frames /\ f.may \in SUBSET Nat /\ Sorted(f)
        /\ (Reading(f) => Tracked(f)) /\ (~Reading(f) => f.must \subseteq Copied(f))
    BY DEF GoodFrames, Frames
  <2>2. /\ g \in Frames /\ g.event = f.event /\ g.stage = f.stage /\ g.out = f.out /\ g.must = f.must
        /\ f.may \subseteq g.may
        /\ Reading(f) /\ matches(f.event, p) => h \in g.may
    BY <1>1, <2>1 DEF Frames
  <2>3. Reading(g) = Reading(f) /\ Read(g) = Read(f) /\ Copied(g) = Copied(f)
    BY <2>2 DEF Reading, Read, Copied
  <2>4. Sorted(g)'
    <3>1. \A d \in f.out : d.to <= h /\ d.to # h
      BY <1>1, <2>1 DEF Sorted, Frames, Deliveries
    <3> QED BY <1>1, <1>2, <2>1, <2>2, <2>3, <3>1 DEF Sorted, Copied
  <2>5. ASSUME Reading(f) PROVE Tracked(g)'
    <3>1. Tracked(f) /\ f.must \subseteq InForce(f.event)
      BY <2>1, <2>5 DEF Tracked
    <3>2. InForce(f.event)' = InForce(f.event) \cup IF matches(f.event, p) THEN {h} ELSE {}
      BY <1>2 DEF InForce
    <3>3. h \notin f.must
      BY <1>1, <3>1 DEF InForce, BusInv, LiveOK
    <3> QED BY <1>2, <2>2, <2>3, <2>5, <3>1, <3>2, <3>3 DEF Tracked, Copied, Read
  <2>6. GoodFrames' = {w \in Frames : Sorted(w)' /\ (Reading(w) => Tracked(w)')
                                     /\ (~Reading(w) => w.must \subseteq Copied(w))}
    BY DEF GoodFrames, Copied, Reading
  <2>7. g \in GoodFrames'
    BY <2>1, <2>2, <2>3, <2>4, <2>5, <2>6
  <2> QED BY <2>7
<1>7. stack' \in [Threads -> Seq(GoodFrames')]
  <2>1. ASSUME NEW u \in Threads
        PROVE  [k \in DOMAIN stack[u] |-> now(stack[u][k])] \in Seq(GoodFrames')
    <3>1. stack[u] \in Seq(GoodFrames)
      BY DEF BusInv
    <3>2. \A k \in DOMAIN stack[u] : stack[u][k] \in GoodFrames
      BY <3>1
    <3> HIDE DEF now
    <3>3. [k \in DOMAIN stack[u] |-> now(stack[u][k])] \in [DOMAIN stack[u] -> GoodFrames']
      BY <1>6, <3>2
    <3> QED BY <3>1, <3>3, InPlace
  <2> HIDE DEF now
  <2> QED BY <1>3, <2>1
<1> QED BY <1>4, <1>5, <1>7 DEF BusInv

LEMMA OffStep ==
  ASSUME BusInv, NEW t \in Threads, NEW p \in Patterns, Off(t, p)
  PROVE  BusInv'
<1> DEFINE now(f) == IF Reading(f) THEN [f EXCEPT !.must = @ \ Under(live, p)] ELSE f
<1>1. made' = made /\ live' = {x \in live : x[1] # p}
  BY DEF Off
<1>2. stack' = [u \in Threads |-> [k \in DOMAIN stack[u] |-> now(stack[u][k])]]
  BY DEF Off, Everywhere
<1>3. LiveOK'
  BY <1>1 DEF BusInv, LiveOK
<1>4. IndexesHoldTheLive'
  <2>1. exact' = {y \in live' : IsExact(y[1])}
    BY <1>1 DEF Off, BusInv, IndexesHoldTheLive
  <2>2. interior' = {y \in live' : IsInterior(y[1])}
    BY <1>1 DEF Off, BusInv, IndexesHoldTheLive
  <2>3. prefix' = {<<PrefixKey(z[1]), z[2]>> : z \in {y \in live' : IsPrefix(y[1])}}
    <3>1. prefix = {<<PrefixKey(z[1]), z[2]>> : z \in {y \in live : IsPrefix(y[1])}}
      BY DEF BusInv, IndexesHoldTheLive
    <3>2. \A z \in live : z[1] \in Patterns
      BY DEF BusInv, LiveOK
    <3>3. CASE IsPrefix(p)
      <4>1. prefix' = {y \in prefix : y[1] # PrefixKey(p)}
        BY <3>3 DEF Off
      <4>2. \A z \in live : IsPrefix(z[1]) => (PrefixKey(z[1]) = PrefixKey(p) <=> z[1] = p)
        BY <3>2, <3>3, KeysDiffer
      <4> QED BY <1>1, <3>1, <4>1, <4>2
    <3>4. CASE ~IsPrefix(p)
      BY <1>1, <3>1, <3>4 DEF Off
    <3> QED BY <3>3, <3>4
  <2> QED BY <2>1, <2>2, <2>3 DEF IndexesHoldTheLive
<1>5. ASSUME NEW f \in GoodFrames PROVE now(f) \in GoodFrames'
  <2>. PICK g : g = now(f)
    OBVIOUS
  <2>1. f \in Frames /\ Sorted(f)
        /\ (Reading(f) => Tracked(f)) /\ (~Reading(f) => f.must \subseteq Copied(f))
    BY DEF GoodFrames
  <2>2. /\ g \in Frames /\ g.event = f.event /\ g.stage = f.stage /\ g.out = f.out /\ g.may = f.may
        /\ g.must \subseteq f.must
        /\ Reading(f) => g.must = f.must \ Under(live, p)
    BY <2>1 DEF Frames
  <2>3. Reading(g) = Reading(f) /\ Read(g) = Read(f) /\ Copied(g) = Copied(f)
    BY <2>2 DEF Reading, Read, Copied
  <2>4. Sorted(g)'
    BY <1>1, <2>1, <2>2, <2>3 DEF Sorted, Copied
  <2>5. ASSUME Reading(f) PROVE Tracked(g)'
    <3>1. Tracked(f)
      BY <2>1, <2>5
    <3>2. \A n \in g.must : \E x \in live : x[2] = n /\ matches(f.event, x[1]) /\ x[1] # p
      BY <2>2, <2>5, <3>1 DEF Tracked, InForce, Under
    <3>3. g.must \subseteq InForce(f.event)'
      BY <1>1, <3>2 DEF InForce
    <3>4. InForce(f.event)' \subseteq InForce(f.event)
      BY <1>1 DEF InForce
    <3> QED BY <1>1, <2>2, <2>3, <3>1, <3>3, <3>4 DEF Tracked, Copied, Read
  <2>6. GoodFrames' = {w \in Frames : Sorted(w)' /\ (Reading(w) => Tracked(w)')
                                     /\ (~Reading(w) => w.must \subseteq Copied(w))}
    BY DEF GoodFrames, Copied, Reading
  <2>7. g \in GoodFrames'
    BY <2>1, <2>2, <2>3, <2>4, <2>5, <2>6
  <2> QED BY <2>7
<1>6. stack' \in [Threads -> Seq(GoodFrames')]
  <2>1. ASSUME NEW u \in Threads
        PROVE  [k \in DOMAIN stack[u] |-> now(stack[u][k])] \in Seq(GoodFrames')
    <3>1. stack[u] \in Seq(GoodFrames)
      BY DEF BusInv
    <3>2. \A k \in DOMAIN stack[u] : stack[u][k] \in GoodFrames
      BY <3>1
    <3> HIDE DEF now
    <3>3. [k \in DOMAIN stack[u] |-> now(stack[u][k])] \in [DOMAIN stack[u] -> GoodFrames']
      BY <1>5, <3>2
    <3> QED BY <3>1, <3>3, InPlace
  <2> HIDE DEF now
  <2> QED BY <1>2, <2>1
<1> QED BY <1>3, <1>4, <1>6 DEF BusInv

(* The other steps change nothing but the head of one stack.               *)
LEMMA SameFrames ==
  ASSUME BusInv, UNCHANGED <<indexes, made, live>>
  PROVE  /\ LiveOK' /\ IndexesHoldTheLive' /\ GoodFrames' = GoodFrames
         /\ stack' \in [Threads -> Seq(GoodFrames)] => BusInv'
<1>1. made' = made /\ live' = live /\ exact' = exact /\ prefix' = prefix /\ interior' = interior
  BY DEF indexes
<1>2. LiveOK' /\ IndexesHoldTheLive'
  BY <1>1 DEF BusInv, LiveOK, IndexesHoldTheLive
<1>3. GoodFrames' = GoodFrames
  BY <1>1 DEF GoodFrames, Sorted, Tracked, Copied, InForce, Reading, Read
<1> QED BY <1>2, <1>3 DEF BusInv

LEMMA EmitStep ==
  ASSUME BusInv, NEW t \in Threads, NEW e \in Events, Emit(t, e)
  PROVE  BusInv'
<1>1. UNCHANGED <<indexes, made, live>>
  BY DEF Emit
<1>2. stack' = [stack EXCEPT ![t] = <<Frame(e, InForce(e))>> \o @]
  BY DEF Emit, InForce
<1>3. Frame(e, InForce(e)) \in GoodFrames
  BY NewFrame DEF BusInv
<1>4. <<Frame(e, InForce(e))>> \o stack[t] \in Seq(GoodFrames)
  BY <1>3, OnHead DEF BusInv
<1> HIDE DEF GoodFrames
<1> QED BY <1>1, <1>2, <1>4, SameFrames DEF BusInv

(* A step that puts a good frame in the place of the head.                 *)
LEMMA HeadReplaced ==
  ASSUME BusInv, UNCHANGED <<indexes, made, live>>, NEW t \in Threads, stack[t] # <<>>,
         NEW g \in GoodFrames, stack' = [stack EXCEPT ![t] = <<g>> \o Tail(@)]
  PROVE  BusInv'
<1>1. Tail(stack[t]) \in Seq(GoodFrames)
  BY OnHead DEF BusInv
<1>2. <<g>> \o Tail(stack[t]) \in Seq(GoodFrames)
  BY <1>1, OnHead
<1> QED BY <1>2, SameFrames DEF BusInv

LEMMA CopyStep ==
  ASSUME BusInv, NEW t \in Threads, CopyExact(t) \/ CopyPrefix(t) \/ CopyInterior(t)
  PROVE  BusInv'
<1> DEFINE f == Head(stack[t])
<1>1. stack[t] # <<>> /\ UNCHANGED <<indexes, made, live>>
  BY DEF CopyExact, CopyPrefix, CopyInterior, Copy
<1>2. f \in GoodFrames
  BY <1>1, OnHead DEF BusInv
<1>3. f.event \in Events
  BY <1>2 DEF GoodFrames, Frames
<1> HIDE DEF f
<1>4. f.stage \in Stages /\ stack' = [stack EXCEPT ![t] = <<Advanced(f)>> \o Tail(@)]
  <2>1. CASE CopyExact(t)
    <3>1. f.stage = "exact" /\ After(f.stage) = "prefix"
      BY <2>1 DEF CopyExact, Copy, After, f
    <3>2. Exactly(f.event) = Brought(f.event, f.stage)
      BY <1>3, <3>1, FoundExact DEF BusInv
    <3>3. stack' = [stack EXCEPT ![t] = <<[f EXCEPT !.stage = "prefix", !.out = f.out \cup Exactly(f.event),
                                                    !.left = {}]>> \o Tail(@)]
      BY <2>1 DEF CopyExact, Copy, f
    <3> QED BY <3>1, <3>2, <3>3 DEF Advanced, Stages
  <2>2. CASE CopyPrefix(t)
    <3>1. f.stage = "prefix" /\ After(f.stage) = "interior"
      BY <2>2 DEF CopyPrefix, Copy, After, f
    <3>2. Prefixes(f.event) = Brought(f.event, f.stage)
      BY <1>3, <3>1, FoundPrefix DEF BusInv
    <3>3. stack' = [stack EXCEPT ![t] = <<[f EXCEPT !.stage = "interior", !.out = f.out \cup Prefixes(f.event),
                                                    !.left = {}]>> \o Tail(@)]
      BY <2>2 DEF CopyPrefix, Copy, f
    <3> QED BY <3>1, <3>2, <3>3 DEF Advanced, Stages
  <2>3. CASE CopyInterior(t)
    <3>1. f.stage = "interior" /\ After(f.stage) = "call"
      BY <2>3 DEF CopyInterior, Copy, After, f
    <3>2. Interiors(f.event) = Brought(f.event, f.stage)
      BY <1>3, <3>1, FoundInterior DEF BusInv
    <3>3. stack' = [stack EXCEPT ![t] = <<[f EXCEPT !.stage = "call", !.out = f.out \cup Interiors(f.event),
                                                    !.left = f.out \cup Interiors(f.event)]>> \o Tail(@)]
      BY <2>3 DEF CopyInterior, Copy, f
    <3> QED BY <3>1, <3>2, <3>3 DEF Advanced, Stages
  <2> QED BY <2>1, <2>2, <2>3
<1>5. Advanced(f) \in GoodFrames
  BY <1>2, <1>4, ReadsOn DEF BusInv
<1> QED BY <1>1, <1>4, <1>5, HeadReplaced

LEMMA CallStep ==
  ASSUME BusInv, NEW t \in Threads, Call(t) \/ HandlerReturns(t) \/ EmitReturns(t)
  PROVE  BusInv'
<1> DEFINE f == Head(stack[t])
<1>1. stack[t] # <<>> /\ UNCHANGED <<indexes, made, live>>
  BY DEF Call, HandlerReturns, EmitReturns
<1>2. f \in GoodFrames /\ Tail(stack[t]) \in Seq(GoodFrames)
  BY <1>1, OnHead DEF BusInv
<1>3. f \in Frames
  BY <1>2 DEF GoodFrames
<1> HIDE DEF f
<1>4. ASSUME NEW g \in Frames, g.event = f.event, g.stage = f.stage, g.out = f.out,
             g.must = f.must, g.may = f.may
      PROVE  g \in GoodFrames
  BY <1>2, <1>4 DEF GoodFrames, Sorted, Tracked, Copied, Reading, Read
<1>5. CASE Call(t)
  <2>1. PICK d \in f.left : stack' = [stack EXCEPT ![t] =
                                <<[f EXCEPT !.left = @ \ {d}, !.running = TRUE]>> \o Tail(@)]
    BY <1>5 DEF Call, f
  <2> DEFINE g == [f EXCEPT !.left = @ \ {d}, !.running = TRUE]
  <2>2. g \in Frames /\ g.event = f.event /\ g.stage = f.stage /\ g.out = f.out
        /\ g.must = f.must /\ g.may = f.may
    BY <1>3 DEF Frames
  <2> HIDE DEF g
  <2>3. g \in GoodFrames
    BY <1>4, <2>2
  <2> QED BY <1>1, <2>1, <2>3, HeadReplaced DEF g
<1>6. CASE HandlerReturns(t)
  <2> DEFINE g == [f EXCEPT !.running = FALSE]
  <2>1. stack' = [stack EXCEPT ![t] = <<g>> \o Tail(@)]
    BY <1>6 DEF HandlerReturns, f
  <2>2. g \in Frames /\ g.event = f.event /\ g.stage = f.stage /\ g.out = f.out
        /\ g.must = f.must /\ g.may = f.may
    BY <1>3 DEF Frames
  <2> HIDE DEF g
  <2>3. g \in GoodFrames
    BY <1>4, <2>2
  <2> QED BY <1>1, <2>1, <2>3, HeadReplaced
<1>7. CASE EmitReturns(t)
  <2>1. stack' = [stack EXCEPT ![t] = Tail(@)]
    BY <1>7 DEF EmitReturns
  <2> QED BY <1>1, <1>2, <2>1, SameFrames DEF BusInv
<1> QED BY <1>5, <1>6, <1>7

-----------------------------------------------------------------------------
LEMMA InitInv == Init => BusInv
<1> SUFFICES ASSUME Init PROVE BusInv
  OBVIOUS
<1>1. LiveOK /\ IndexesHoldTheLive
  BY DEF Init, LiveOK, IndexesHoldTheLive
<1>2. stack \in [Threads -> Seq(GoodFrames)]
  BY DEF Init
<1> QED BY <1>1, <1>2 DEF BusInv

LEMMA StepInv == BusInv /\ [Next]_vars => BusInv'
<1> SUFFICES ASSUME BusInv, [Next]_vars PROVE BusInv'
  OBVIOUS
<1>1. CASE UNCHANGED vars
  BY <1>1, SameFrames DEF vars, BusInv
<1>2. CASE Next
  BY <1>2, OnStep, OffStep, EmitStep, CopyStep, CallStep DEF Next
<1> QED BY <1>1, <1>2

(* A bus whose frames are good delivers what matches.                      *)
LEMMA InvDelivers == BusInv => DeliversWhatMatches
<1> SUFFICES ASSUME BusInv, NEW t \in Threads, NEW k \in DOMAIN stack[t], stack[t][k].stage = "call"
             PROVE  LET f == stack[t][k] IN
                    /\ f.must \subseteq {d.to : d \in f.out}
                    /\ {d.to : d \in f.out} \subseteq f.may
                    /\ \A c, d \in f.out : c.to = d.to => c = d
  BY DEF DeliversWhatMatches
<1>1. stack[t][k] \in GoodFrames
  BY DEF BusInv
<1> QED BY <1>1 DEF GoodFrames, Reading, Sorted, Copied

(* An emit delivers to every handler that a matching pattern had all the   *)
(* time, to none that no matching pattern ever had, and to none twice.     *)
THEOREM EmitDelivers == Spec => []DeliversWhatMatches
BY InitInv, StepInv, InvDelivers, PTL DEF Spec

(* off undoes on: an index holds no handler that is no longer in force.    *)
THEOREM NothingLingers == Spec => []IndexesHoldTheLive
<1>1. BusInv => IndexesHoldTheLive
  BY DEF BusInv
<1> QED BY <1>1, InitInv, StepInv, PTL DEF Spec
=============================================================================

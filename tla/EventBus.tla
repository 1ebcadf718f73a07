------------------------------ MODULE EventBus ------------------------------
(***************************************************************************)
(* The event bus (src/event/mod.rs).  Handlers are kept in three indexes,  *)
(* by the shape of the pattern they were registered for, each behind a     *)
(* lock of its own.  emit copies the handlers out of one index after the   *)
(* other and calls them when it holds no lock any more, so a handler may   *)
(* use the bus itself, and other threads may register and remove patterns  *)
(* while an emit is under way.                                             *)
(*                                                                         *)
(* Names and patterns are sequences of segments; the one segment of the    *)
(* empty name is "".  Handlers are numbered in the order they register.    *)
(* Left open: the order in which the copied handlers are called.  Not      *)
(* modelled: a poisoned lock; pattern_count, which changes nothing.        *)
(***************************************************************************)
EXTENDS Integers, Sequences

CONSTANTS
  Threads,
  Patterns,     (* what on and off are called with                         *)
  Events,       (* what emit is called with                                *)
  MaxHandlers,  (* bound on the calls of on                                *)
  MaxEmits,     (* bound on the calls of emit                              *)
  MaxDepth      (* bound on the emits a thread is in at the same time      *)

Segments == UNION {{s[i] : i \in DOMAIN s} : s \in Patterns \cup Events} \cup {"", "*"}
Names    == Seq(Segments) \ {<<>>}

(* The pattern ".*" is taken for "*": Joined makes one key of both.        *)
ASSUME EventBusAssumption ==
  /\ Patterns \subseteq Names /\ Events \subseteq Names
  /\ <<"", "*">> \notin Patterns
  /\ {MaxHandlers, MaxEmits, MaxDepth} \subseteq Nat

VARIABLES
  exact, prefix, interior,  (* pairs of a key and a handler                *)
  stack,    (* the emits every thread is in, the innermost one first       *)
  made,     (* the handlers registered so far                              *)
  emits,    (* the emits begun so far                                      *)
  live      (* history: the pairs of a pattern and a handler in force      *)

indexes == <<exact, prefix, interior>>
vars    == <<indexes, stack, made, emits, live>>

Handlers == 1..MaxHandlers

-----------------------------------------------------------------------------
(* Names and patterns                                                      *)

Stars(p) == {i \in DOMAIN p : p[i] = "*"}

(* join("."): the empty name and no segments at all are the same string.   *)
Joined(s) == IF s = <<"">> THEN <<>> ELSE s

(* classify_pattern                                                        *)
IsExact(p)    == Stars(p) = {}
IsPrefix(p)   == Stars(p) = {Len(p)}
IsInterior(p) == ~IsExact(p) /\ ~IsPrefix(p)
PrefixKey(p)  == Joined(SubSeq(p, 1, Len(p) - 1))

(* matches: the predicate the indexes are to agree with.                   *)
Agree(e, p, n) == \A i \in 1..n : p[i] \in {"*", e[i]}

matches(e, p) ==
  IF p[Len(p)] = "*" /\ Len(p) <= Len(e) + 1
  THEN Agree(e, p, Len(p) - 1)
  ELSE Len(p) = Len(e) /\ Agree(e, p, Len(p))

-----------------------------------------------------------------------------
(* What emit copies: deliveries, that is a handler, the index it was found *)
(* in and what was looked up there                                         *)

Delivery(in, by, h) == [in |-> in, by |-> by, to |-> h]

Under(index, key) == {entry[2] : entry \in {x \in index : x[1] = key}}

Exactly(e) == {Delivery("exact", e, h) : h \in Under(exact, e)}

(* A slip: the empty name is looked up, which is the key of "*" again.     *)
EmptyKeyTwice(e) == {SubSeq(e, 1, i) : i \in 0..Len(e)}

(* The names that e begins with, from the empty one, the key of "*"; the   *)
(* empty segment is not looked up, its key is that of "*" again.           *)
Lookups(e) == {SubSeq(e, 1, i) : i \in 0..Len(e)} \ {<<"">>}

Prefixes(e) == UNION {{Delivery("prefix", l, h) : h \in Under(prefix, Joined(l))} : l \in Lookups(e)}

Interiors(e) == {Delivery("interior", x[1], x[2]) : x \in {y \in interior : matches(e, y[1])}}

-----------------------------------------------------------------------------
(* An emit: its event, the index it reads next, the deliveries copied, and *)
(* those still to be made; `must` and `may` are history: the handlers in   *)
(* force for the event from its beginning until the last index was read,   *)
(* and those in force at some time in between.                             *)
Frame(e, must) ==
  [event |-> e, stage |-> "exact", out |-> {}, left |-> {}, running |-> FALSE,
   must |-> must, may |-> must]

(* A thread calls the bus from outside or from a handler.                  *)
CanCall(t) == IF stack[t] = <<>> THEN TRUE ELSE Head(stack[t]).running

Reading(f) == f.stage # "call"

(* What the history of all emits under way makes of a change.              *)
Everywhere(change(_)) ==
  [t \in Threads |-> [k \in DOMAIN stack[t] |->
     IF Reading(stack[t][k]) THEN change(stack[t][k]) ELSE stack[t][k]]]

Init ==
  /\ exact = {} /\ prefix = {} /\ interior = {}
  /\ stack = [t \in Threads |-> <<>>]
  /\ made = 0 /\ emits = 0
  /\ live = {}

(* on: the handler goes into the index of its pattern's shape.             *)
On(t, p) ==
  LET h == made + 1 IN
  /\ CanCall(t) /\ made < MaxHandlers
  /\ exact'    = IF IsExact(p)    THEN exact \cup {<<p, h>>} ELSE exact
  /\ prefix'   = IF IsPrefix(p)   THEN prefix \cup {<<PrefixKey(p), h>>} ELSE prefix
  /\ interior' = IF IsInterior(p) THEN interior \cup {<<p, h>>} ELSE interior
  /\ made' = h
  /\ live' = live \cup {<<p, h>>}
  /\ stack' = Everywhere(LAMBDA f : IF matches(f.event, p) THEN [f EXCEPT !.may = @ \cup {h}] ELSE f)
  /\ UNCHANGED emits

(* A slip: a prefix is removed under the name it was registered with.      *)
OffByName(t, p) ==
  /\ CanCall(t)
  /\ exact'    = IF IsExact(p)    THEN {x \in exact : x[1] # p} ELSE exact
  /\ prefix'   = IF IsPrefix(p)   THEN {x \in prefix : x[1] # p} ELSE prefix
  /\ interior' = IF IsInterior(p) THEN {x \in interior : x[1] # p} ELSE interior
  /\ live' = {x \in live : x[1] # p}
  /\ stack' = Everywhere(LAMBDA f : [f EXCEPT !.must = @ \ Under(live, p)])
  /\ UNCHANGED <<made, emits>>

(* off: every handler of the pattern, from the index of its shape.         *)
Off(t, p) ==
  /\ CanCall(t)
  /\ exact'    = IF IsExact(p)    THEN {x \in exact : x[1] # p} ELSE exact
  /\ prefix'   = IF IsPrefix(p)   THEN {x \in prefix : x[1] # PrefixKey(p)} ELSE prefix
  /\ interior' = IF IsInterior(p) THEN {x \in interior : x[1] # p} ELSE interior
  /\ live' = {x \in live : x[1] # p}
  /\ stack' = Everywhere(LAMBDA f : [f EXCEPT !.must = @ \ Under(live, p)])
  /\ UNCHANGED <<made, emits>>

(* emit begins; it may do so inside of a handler of another one.           *)
Emit(t, e) ==
  /\ CanCall(t) /\ emits < MaxEmits /\ Len(stack[t]) < MaxDepth
  /\ emits' = emits + 1
  /\ stack' = [stack EXCEPT ![t] =
       <<Frame(e, {x[2] : x \in {y \in live : matches(e, y[1])}})>> \o @]
  /\ UNCHANGED <<indexes, made, live>>

(* Reading one index, under its lock, and going on to the next.            *)
Copy(t, stage, found(_), next) ==
  /\ stack[t] # <<>> /\ Head(stack[t]).stage = stage
  /\ LET f   == Head(stack[t])
         out == f.out \cup found(f.event)
     IN  stack' = [stack EXCEPT ![t] =
           <<[f EXCEPT !.stage = next, !.out = out,
                       !.left = IF next = "call" THEN out ELSE {}]>> \o Tail(@)]
  /\ UNCHANGED <<indexes, made, emits, live>>

CopyExact(t)    == Copy(t, "exact", Exactly, "prefix")
CopyPrefix(t)   == Copy(t, "prefix", Prefixes, "interior")
CopyInterior(t) == Copy(t, "interior", Interiors, "call")

(* The thread calls a handler it has copied, whatever has become of it.    *)
Call(t) ==
  /\ stack[t] # <<>>
  /\ LET f == Head(stack[t]) IN
     /\ f.stage = "call" /\ ~f.running
     /\ \E d \in f.left :
          stack' = [stack EXCEPT ![t] =
                      <<[f EXCEPT !.left = @ \ {d}, !.running = TRUE]>> \o Tail(@)]
  /\ UNCHANGED <<indexes, made, emits, live>>

(* The handler comes back.                                                 *)
HandlerReturns(t) ==
  /\ stack[t] # <<>> /\ Head(stack[t]).running
  /\ stack' = [stack EXCEPT ![t] = <<[Head(@) EXCEPT !.running = FALSE]>> \o Tail(@)]
  /\ UNCHANGED <<indexes, made, emits, live>>

(* All copied handlers have been called: emit returns.                     *)
EmitReturns(t) ==
  /\ stack[t] # <<>>
  /\ LET f == Head(stack[t]) IN f.stage = "call" /\ f.left = {} /\ ~f.running
  /\ stack' = [stack EXCEPT ![t] = Tail(@)]
  /\ UNCHANGED <<indexes, made, emits, live>>

Next ==
  \E t \in Threads :
    \/ \E p \in Patterns : On(t, p)
    \/ \E p \in Patterns : Off(t, p)
    \/ \E e \in Events : Emit(t, e)
    \/ CopyExact(t)
    \/ CopyPrefix(t)
    \/ CopyInterior(t)
    \/ Call(t)
    \/ HandlerReturns(t)
    \/ EmitReturns(t)

Spec == Init /\ [][Next]_vars

-----------------------------------------------------------------------------
(* Properties                                                              *)

(* The deliveries of an emit that has read all indexes: every handler that *)
(* a matching pattern had all the time, none that no matching pattern had  *)
(* at any time (one that was removed before the emit began, say), and no   *)
(* handler twice.  "Matching" is by the predicate, though emit looks most  *)
(* of them up by key.                                                      *)
DeliversWhatMatches ==
  \A t \in Threads : \A k \in DOMAIN stack[t] :
    LET f == stack[t][k] IN
    f.stage = "call" =>
      /\ f.must \subseteq {d.to : d \in f.out}
      /\ {d.to : d \in f.out} \subseteq f.may
      /\ \A c, d \in f.out : c.to = d.to => c = d

(* The indexes hold the handlers in force, each where emit will look for   *)
(* it: what off has removed is in none of them.                            *)
IndexesHoldTheLive ==
  /\ exact = {x \in live : IsExact(x[1])}
  /\ prefix = {<<PrefixKey(x[1]), x[2]>> : x \in {y \in live : IsPrefix(y[1])}}
  /\ interior = {x \in live : IsInterior(x[1])}
=============================================================================

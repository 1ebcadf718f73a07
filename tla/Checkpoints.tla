---------------------------- MODULE Checkpoints ----------------------------
(***************************************************************************)
(* The checkpoint savers (src/checkpoint) and what is done with them: the  *)
(* engine saves and prunes, rewind deletes, resume looks for the latest.   *)
(* A saver call is atomic, its mutex sees to that; the operations that are *)
(* made of several calls are not, and clients share a saver.               *)
(*                                                                         *)
(* Every call goes to both savers here: MemorySaver keeps a vector per     *)
(* thread id, SqliteSaver a table.  A checkpoint is its id, its step and   *)
(* the time it was taken; an id belongs to one checkpoint, so it fixes the *)
(* step.  The clock may stand still or go back.  Not modelled: the values  *)
(* in a checkpoint and their way through JSON; the width of the columns.   *)
(***************************************************************************)
EXTENDS Integers, Sequences, Functions, Ranking

CONSTANTS
  Clients,    (* threads that share the savers                             *)
  ThreadIds,  (* what checkpoints are filed under                          *)
  StepOf,     (* the step of every checkpoint id                           *)
  Times,
  Keep        (* max_checkpoints, KeepAll without                          *)

KeepAll == -1
Ids     == DOMAIN StepOf

ASSUME CheckpointsAssumption ==
  /\ ThreadIds # {}
  /\ Ids \subseteq Nat /\ StepOf \in [Ids -> Nat] /\ Times \subseteq Nat
  /\ Keep \in Nat \cup {KeepAll}

VARIABLES
  memory,  (* MemorySaver: the vector of every thread id                   *)
  table,   (* SqliteSaver: the rows, <<thread id, checkpoint>>             *)
  task     (* what every client is doing                                   *)

vars == <<memory, table, task>>

Checkpoint(id, time) == [id |-> id, step |-> StepOf[id], time |-> time]
Checkpoints          == {Checkpoint(id, time) : id \in Ids, time \in Times}

(* (step, timestamp_ms, id): the order of list and of the latest.          *)
Before(a, b) == \/ a.step < b.step
                \/ a.step = b.step /\ a.time < b.time
                \/ a.step = b.step /\ a.time = b.time /\ a.id < b.id

IdsOf(s) == [k \in DOMAIN s |-> s[k].id]

-----------------------------------------------------------------------------
(* MemorySaver                                                             *)

(* A slip: a checkpoint that is saved again is appended again.             *)
MemoryAppends(s, cp) == Append(s, cp)

(* save replaces the checkpoint of the same id where it stands.            *)
MemorySave(s, cp) ==
  IF \E k \in DOMAIN s : s[k].id = cp.id
  THEN [k \in DOMAIN s |-> IF s[k].id = cp.id THEN cp ELSE s[k]]
  ELSE Append(s, cp)

MemoryDelete(s, id) == AtPlaces(s, Ascending({k \in DOMAIN s : s[k].id # id}))

(* The order of sort_by, which leaves equal ones as they stand.            *)
Places(s) ==
  {p \in (DOMAIN s) \X (DOMAIN s) :
     LET a == s[p[1]] b == s[p[2]] IN Before(a, b) \/ (~Before(b, a) /\ p[1] < p[2])}

MemoryList(s)       == IdsOf(AtPlaces(s, Ranked(DOMAIN s, Places(s))))
MemoryLoad(s, id)   == {s[k] : k \in {i \in DOMAIN s : s[i].id = id /\ \A j \in 1..(i - 1) : s[j].id # id}}
MemoryLatest(s)     == {s[k] : k \in {i \in DOMAIN s : \A j \in DOMAIN s : ~Before(s[i], s[j])}}

-----------------------------------------------------------------------------
(* SqliteSaver                                                             *)

Rows(rows, th) == {r[2] : r \in {x \in rows : x[1] = th}}

(* INSERT OR REPLACE, the key being the thread id and the id.              *)
TableSave(rows, th, cp) == {r \in rows : r[1] # th \/ r[2].id # cp.id} \cup {<<th, cp>>}
TableDelete(rows, th, id) == {r \in rows : r[1] # th \/ r[2].id # id}
RowOrder(rows)            == {p \in rows \X rows : Before(p[1], p[2])}
TableList(rows, th)       == IdsOf(Ranked(Rows(rows, th), RowOrder(Rows(rows, th))))
TableLoad(rows, th, id)   == {cp \in Rows(rows, th) : cp.id = id}
TableLatest(rows, th)     == {cp \in Rows(rows, th) : \A o \in Rows(rows, th) : ~Before(cp, o)}

-----------------------------------------------------------------------------
(* A client's operation: what it does, on which thread id; the ids it has  *)
(* still to look at and those it has still to delete; the step rewind goes *)
(* back to; whether it deletes as it goes (rewind of src/checkpoint) or    *)
(* after it has looked at all (Interpreter::rewind); what resume has found *)
(* so far.  `watched` is history: the checkpoints that were there when the *)
(* operation listed them, less those that were saved again since (rewind), *)
(* or deleted since (resume).                                              *)
Task(do, th, ids) ==
  [do |-> do, th |-> th, ids |-> ids, picked |-> <<>>, from |-> 0, eager |-> FALSE,
   found |-> {}, watched |-> {}]

Idle    == Task("none", CHOOSE th \in ThreadIds : TRUE, <<>>)
Over(c) == task[c].do # "none" /\ task[c].ids = <<>> /\ task[c].picked = <<>>

Starts(c, t) == task[c].do = "none" /\ task' = [task EXCEPT ![c] = t]

(* The history when checkpoint id of th is saved again, or deleted.        *)
Unwatched(th, id, do) ==
  [c \in Clients |-> IF task[c].th # th \/ task[c].do # do THEN task[c]
                     ELSE [task[c] EXCEPT !.watched = {cp \in @ : cp.id # id}]]

Stored(th) == Range(memory[th])

Init ==
  /\ memory = [th \in ThreadIds |-> <<>>]
  /\ table = {}
  /\ task = [c \in Clients |-> Idle]

(* The engine saves a checkpoint; with retention it goes on to prune.      *)
Save(c, th, cp) ==
  /\ task[c].do = "none"
  /\ memory' = [memory EXCEPT ![th] = MemorySave(@, cp)]
  /\ table' = TableSave(table, th, cp)
  /\ task' = [Unwatched(th, cp.id, "rewind") EXCEPT ![c] = IF Keep = KeepAll THEN @ ELSE Task("saved", th, <<>>)]

(* It lists the thread id's checkpoints and marks the oldest ones.         *)
ListToPrune(c) ==
  /\ task[c].do = "saved"
  /\ LET ids  == MemoryList(memory[task[c].th])
         many == IF Len(ids) > Keep THEN Len(ids) - Keep ELSE 0
     IN  task' = [task EXCEPT ![c] = [@ EXCEPT !.do = "prune", !.picked = SubSeq(ids, 1, many)]]
  /\ UNCHANGED <<memory, table>>

(* Both rewinds begin with the list.                                       *)
Rewind(c, th, from, eager) ==
  /\ Starts(c, [Task("rewind", th, MemoryList(memory[th])) EXCEPT
                  !.from = from, !.eager = eager,
                  !.watched = {cp \in Stored(th) : cp.step >= from}])
  /\ UNCHANGED <<memory, table>>

(* A slip: the step to go back to is kept.                                 *)
PickLater(c) ==
  /\ task[c].do = "rewind" /\ task[c].ids # <<>>
  /\ task[c].eager => task[c].picked = <<>>
  /\ LET t == task[c] IN
     task' = [task EXCEPT ![c] =
       [t EXCEPT !.ids = Tail(@),
                 !.picked = IF \E cp \in MemoryLoad(memory[t.th], Head(t.ids)) : cp.step > t.from
                            THEN Append(@, Head(t.ids)) ELSE @]]
  /\ UNCHANGED <<memory, table>>

(* rewind loads the next checkpoint of its list and picks it by its step.  *)
Pick(c) ==
  /\ task[c].do = "rewind" /\ task[c].ids # <<>>
  /\ task[c].eager => task[c].picked = <<>>
  /\ LET t == task[c] IN
     task' = [task EXCEPT ![c] =
       [t EXCEPT !.ids = Tail(@),
                 !.picked = IF \E cp \in MemoryLoad(memory[t.th], Head(t.ids)) : cp.step >= t.from
                            THEN Append(@, Head(t.ids)) ELSE @]]
  /\ UNCHANGED <<memory, table>>

(* rewind and prune delete what they have picked, a call for each.         *)
Delete(c) ==
  /\ task[c].do \in {"rewind", "prune"} /\ task[c].picked # <<>>
  /\ task[c].eager \/ task[c].ids = <<>>
  /\ LET th == task[c].th
         id == Head(task[c].picked)
     IN  /\ memory' = [memory EXCEPT ![th] = MemoryDelete(@, id)]
         /\ table' = TableDelete(table, th, id)
         /\ task' = [Unwatched(th, id, "resume") EXCEPT ![c].picked = Tail(@)]

(* Interpreter::resume: one call.                                          *)
ResumeLatest(c, th) ==
  /\ Starts(c, [Task("resume", th, <<>>) EXCEPT !.found = MemoryLatest(memory[th]),
                                                !.watched = Stored(th)])
  /\ UNCHANGED <<memory, table>>

(* resume of src/checkpoint lists and loads one by one.                    *)
Resume(c, th) ==
  /\ Starts(c, [Task("resume", th, MemoryList(memory[th])) EXCEPT !.watched = Stored(th)])
  /\ UNCHANGED <<memory, table>>

(* A slip: what has gone in the meantime ends the search.                  *)
GoneEndsIt(c) ==
  /\ task[c].do = "resume" /\ task[c].ids # <<>>
  /\ LET t == task[c]
         now == MemoryLoad(memory[t.th], Head(t.ids))
         better == {cp \in now : \A old \in t.found : cp.step > old.step}
     IN  task' = [task EXCEPT ![c] =
           [t EXCEPT !.ids = IF now = {} THEN <<>> ELSE Tail(@),
                     !.found = IF better = {} THEN @ ELSE better]]
  /\ UNCHANGED <<memory, table>>

(* Of two checkpoints of a step the one that is listed first stays.        *)
Compare(c) ==
  /\ task[c].do = "resume" /\ task[c].ids # <<>>
  /\ LET t == task[c]
         now == MemoryLoad(memory[t.th], Head(t.ids))
         better == {cp \in now : \A old \in t.found : cp.step > old.step}
     IN  task' = [task EXCEPT ![c] = [t EXCEPT !.ids = Tail(@),
                                               !.found = IF better = {} THEN @ ELSE better]]
  /\ UNCHANGED <<memory, table>>

(* The operation returns; or a call of the saver fails and it returns that *)
(* error, with the rest undone.                                            *)
Return(c) ==
  /\ task[c].do # "none"
  /\ task' = [task EXCEPT ![c] = Idle]
  /\ UNCHANGED <<memory, table>>

Next ==
  \E c \in Clients :
    \/ \E th \in ThreadIds, cp \in Checkpoints : Save(c, th, cp)
    \/ ListToPrune(c)
    \/ \E th \in ThreadIds, from \in Range(StepOf), eager \in BOOLEAN : Rewind(c, th, from, eager)
    \/ Pick(c)
    \/ Delete(c)
    \/ \E th \in ThreadIds : ResumeLatest(c, th)
    \/ \E th \in ThreadIds : Resume(c, th)
    \/ Compare(c)
    \/ Return(c)

Spec == Init /\ [][Next]_vars

-----------------------------------------------------------------------------
(* Properties                                                              *)

(* Whatever has been saved, saved again and deleted, both savers give the  *)
(* same list, the same checkpoint for an id and the same latest one.       *)
SaversAgree ==
  \A th \in ThreadIds :
    /\ MemoryList(memory[th]) = TableList(table, th)
    /\ MemoryLatest(memory[th]) = TableLatest(table, th)
    /\ \A id \in Ids : MemoryLoad(memory[th], id) = TableLoad(table, th, id)

(* A rewind that has come to its end has left none of the checkpoints it   *)
(* had to delete, but for those that were saved again while it went on.    *)
RewindGoesBack ==
  \A c \in Clients : Over(c) /\ task[c].do = "rewind" => task[c].watched \cap Stored(task[c].th) = {}

(* What resume returns is no older than any checkpoint that was there all  *)
(* the time it took: a prune or a rewind next to it may delete what it has *)
(* listed, but only then it comes back with an older one, or with none.    *)
ResumeIsRecent ==
  \A c \in Clients : Over(c) /\ task[c].do = "resume" =>
    \A there \in task[c].watched : \E cp \in task[c].found : cp.step >= there.step
=============================================================================

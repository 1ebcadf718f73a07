----------------------------- MODULE ExecParallel -----------------------------
(***************************************************************************)
(* One call of exec.parallel(cmds, max_concurrent, timeout_ms)             *)
(* (src/interpreter/builtins/exec.rs, exec_parallel and run_single_cmd):   *)
(* worker threads take the commands one by one from a shared counter, run  *)
(* each as a child process, and send an entry for it to the caller, which  *)
(* collects them under a budget of time.                                   *)
(*                                                                         *)
(* A command that exceeds its timeout cancels those not yet taken and is   *)
(* killed; the kill may fail, and the worker then lets the process go      *)
(* after a grace period.  The semaphore is taken to be the counter that    *)
(* module Semaphore shows it to be.                                        *)
(*                                                                         *)
(* Time is left out: a timeout, the grace period and the caller's budget   *)
(* are over at any moment, as threads may be held up between any two       *)
(* steps.  Nothing stated here depends on how long they are.               *)
(***************************************************************************)
EXTENDS Integers, Sequences, FiniteSets, Ranking

CONSTANTS
  MaxCommands, MaxLimit, \* bounds on the list and on max_concurrent
  TimeoutChoices,        \* whether callers pass a timeout_ms: some Booleans
  MayPanic               \* the thread that waits for a child may fail to start

Commands == 1..MaxCommands
Workers == 1..MaxLimit
\* What a command does: it ends by itself or when it is killed; or something of it
\* does neither, and keeps the pipe open.
Natures == {"ends", "stays"}
Entry == [idx : Commands, kind : {"output", "failed", "timeout", "unreported"}]

ASSUME ExecAssumption ==
  /\ MaxCommands \in Nat \ {0} /\ MaxLimit \in Nat \ {0}
  /\ TimeoutChoices \subseteq BOOLEAN /\ MayPanic \in BOOLEAN

VARIABLES
  call,      \* the arguments, and the nature of each command
  main,      \* where the caller is: "late", "done" and "error" are its returns
  answer,    \* results
  nextIdx,   \* the first command not taken
  cancelled,
  free,
  sent,      \* the channel to the caller
  pc, idx,   \* where each worker is, and the last command it took
  kind,      \* what each worker is about to report
  child,     \* each command's process.  Waiting for it may have failed ("unwaited"), its
             \* worker may have gone on for that ("abandoned") or died ("orphaned"): all
             \* three are still alive
  late       \* history: commands each worker started after the call returned

args == <<call>>
callerVars == <<main, answer>>
sharedVars == <<nextIdx, cancelled, free, sent>>
workerVars == <<pc, idx, kind>>
vars == <<args, callerVars, sharedVars, workerVars, child, late>>

Returned == main \in {"late", "done", "error"}
NumWorkers == IF call.limit < call.n THEN call.limit ELSE call.n
Over(w) == pc[w] \in {"ended", "panicked"}
AllOver == \A w \in 1..NumWorkers : Over(w)
Go(w, place) == pc' = [pc EXCEPT ![w] = place]
Indices(entries) == {entries[k].idx : k \in DOMAIN entries}

Init ==
  /\ \E n \in Commands, limit \in Workers, timeout \in TimeoutChoices,
        nature \in [Commands -> Natures] :
       /\ \A i \in Commands : i > n => nature[i] = "ends"
       /\ call = [n |-> n, limit |-> limit, timeout |-> timeout, nature |-> nature]
       /\ free = limit
  /\ main = "spawn" /\ answer = <<>>
  /\ nextIdx = 1 /\ cancelled = FALSE /\ sent = <<>>
  /\ pc = [w \in Workers |-> "unborn"] /\ idx = [w \in Workers |-> 0]
  /\ kind = [w \in Workers |-> "output"]
  /\ child = [i \in Commands |-> "none"] /\ late = [w \in Workers |-> 0]

-----------------------------------------------------------------------------
(* The worker *)

CheckCancelled(w) ==
  /\ pc[w] = "loop"
  /\ Go(w, IF cancelled THEN "ended" ELSE "next")
  /\ UNCHANGED <<args, callerVars, sharedVars, idx, kind, child, late>>

\* A slip: a worker that finds no command left looks again.
TakeForever(w) ==
  /\ pc[w] = "next"
  /\ IF nextIdx > call.n
       THEN Go(w, "loop") /\ UNCHANGED <<nextIdx, idx>>
       ELSE Go(w, "acquire") /\ idx' = [idx EXCEPT ![w] = nextIdx] /\ nextIdx' = nextIdx + 1
  /\ UNCHANGED <<args, callerVars, cancelled, free, sent, kind, child, late>>
\* fetch_add
TakeNext(w) ==
  /\ pc[w] = "next"
  /\ nextIdx' = nextIdx + 1
  /\ IF nextIdx > call.n THEN Go(w, "ended") /\ UNCHANGED idx
                         ELSE Go(w, "acquire") /\ idx' = [idx EXCEPT ![w] = nextIdx]
  /\ UNCHANGED <<args, callerVars, cancelled, free, sent, kind, child, late>>

Acquire(w) ==
  /\ pc[w] = "acquire" /\ free > 0
  /\ free' = free - 1 /\ Go(w, "start")
  /\ UNCHANGED <<args, callerVars, nextIdx, cancelled, sent, idx, kind, child, late>>

\* The command is done with: what kind of entry it gets.
Report(w, k) == kind' = [kind EXCEPT ![w] = k] /\ Go(w, "release")

SpawnFails(w) ==
  /\ pc[w] = "start" /\ Report(w, "failed")
  /\ UNCHANGED <<args, callerVars, sharedVars, idx, child, late>>

SpawnChild(w) ==
  /\ pc[w] = "start" /\ Go(w, "run")
  /\ child' = [child EXCEPT ![idx[w]] = "running"]
  /\ late' = [late EXCEPT ![w] = IF Returned THEN @ + 1 ELSE @]
  /\ UNCHANGED <<args, callerVars, sharedVars, idx, kind>>

\* With a timeout another thread waits for the child; if it cannot be started the
\* worker dies, its permit and the child with it out of anybody's hands.
WaiterPanics(w) ==
  /\ MayPanic /\ call.timeout /\ pc[w] = "start"
  /\ Go(w, "panicked") /\ child' = [child EXCEPT ![idx[w]] = "orphaned"]
  /\ UNCHANGED <<args, callerVars, sharedVars, idx, kind, late>>

\* The child is over; or waiting failed, and the worker leaves it as it is.
WaitEnds(w) ==
  /\ pc[w] = "run"
  /\ \/ child[idx[w]] = "ended" /\ Report(w, "output") /\ UNCHANGED child
     \/ /\ child[idx[w]] = "unwaited" /\ Report(w, "failed")
        /\ child' = [child EXCEPT ![idx[w]] = "abandoned"]
  /\ UNCHANGED <<args, callerVars, sharedVars, idx, late>>

Killed(i) ==
  IF child[i] \in {"running", "unwaited"} /\ call.nature[i] = "ends" THEN "ended" ELSE child[i]
\* A slip: the others are not told.
TimeOutAlone(w) ==
  /\ pc[w] = "run" /\ call.timeout
  /\ child' = [child EXCEPT ![idx[w]] = Killed(idx[w])]
  /\ Go(w, "grace")
  /\ UNCHANGED <<args, callerVars, sharedVars, idx, kind, late>>
\* recv_timeout gives up, though the command may just have ended: no more commands
\* are taken, and this one is killed.
TimeOut(w) ==
  /\ pc[w] = "run" /\ call.timeout
  /\ cancelled' = TRUE
  /\ child' = [child EXCEPT ![idx[w]] = Killed(idx[w])]
  /\ Go(w, "grace")
  /\ UNCHANGED <<args, callerVars, nextIdx, free, sent, idx, kind, late>>

\* A slip: the thread that waits for the child is joined, whatever the kill did.
JoinWaiter(w) ==
  /\ pc[w] = "grace" /\ child[idx[w]] # "running"
  /\ Report(w, "timeout")
  /\ UNCHANGED <<args, callerVars, sharedVars, idx, child, late>>
\* The thread that waits for the child is given a while, then left to itself.
EndGrace(w) ==
  /\ pc[w] = "grace"
  /\ Report(w, "timeout")
  /\ UNCHANGED <<args, callerVars, sharedVars, idx, child, late>>

\* A slip: the permit is kept.
KeepPermit(w) ==
  /\ pc[w] = "release" /\ Go(w, "send")
  /\ UNCHANGED <<args, callerVars, sharedVars, idx, kind, child, late>>
Release(w) ==
  /\ pc[w] = "release" /\ free' = free + 1 /\ Go(w, "send")
  /\ UNCHANGED <<args, callerVars, nextIdx, cancelled, sent, idx, kind, child, late>>

EntryOf(w) == [idx |-> idx[w], kind |-> kind[w]]
\* A slip: nobody looks whether the caller is still there.
SendAnyway(w) ==
  /\ pc[w] = "send" /\ Go(w, "loop")
  /\ IF Returned THEN UNCHANGED sent ELSE sent' = Append(sent, EntryOf(w))
  /\ kind' = [kind EXCEPT ![w] = "output"]
  /\ UNCHANGED <<args, callerVars, nextIdx, cancelled, free, idx, child, late>>
\* A worker whose caller has returned stops.
Send(w) ==
  /\ pc[w] = "send"
  /\ IF Returned THEN Go(w, "ended") /\ UNCHANGED sent
                 ELSE Go(w, "loop") /\ sent' = Append(sent, EntryOf(w))
  /\ kind' = [kind EXCEPT ![w] = "output"]
  /\ UNCHANGED <<args, callerVars, nextIdx, cancelled, free, idx, child, late>>

Work(w) ==
  \/ CheckCancelled(w) \/ TakeNext(w) \/ Acquire(w) \/ SpawnFails(w) \/ SpawnChild(w)
  \/ WaiterPanics(w) \/ WaitEnds(w) \/ TimeOut(w) \/ EndGrace(w) \/ Release(w) \/ Send(w)

-----------------------------------------------------------------------------
(* The caller *)

SpawnWorker ==
  /\ main = "spawn"
  /\ \E w \in 1..NumWorkers :
       /\ pc[w] = "unborn" /\ \A u \in 1..w - 1 : pc[u] # "unborn"
       /\ Go(w, "loop")
  /\ UNCHANGED <<args, callerVars, sharedVars, idx, kind, child, late>>

StartCollecting ==
  /\ main = "spawn" /\ \A w \in 1..NumWorkers : pc[w] # "unborn"
  /\ main' = "collect"
  /\ UNCHANGED <<args, answer, sharedVars, workerVars, child, late>>

Receive ==
  /\ main = "collect" /\ Len(answer) < call.n /\ sent # <<>>
  /\ answer' = Append(answer, Head(sent)) /\ sent' = Tail(sent)
  /\ UNCHANGED <<args, main, nextIdx, cancelled, free, workerVars, child, late>>

\* A slip: that all workers are gone ends the collection, whatever they sent.
HangUp == AllOver
\* The channel is empty and every sender is gone.
Disconnected == sent = <<>> /\ AllOver
CollectEnds ==
  /\ main = "collect" /\ (Len(answer) = call.n \/ Disconnected)
  /\ main' = "join"
  /\ UNCHANGED <<args, answer, sharedVars, workerVars, child, late>>

\* A slip: who has not reported is left out.
NoUnreported == <<>>
\* An entry for every command that has not reported, in input order.
Unreported ==
  LET missing == Ascending(1..call.n \ Indices(answer))
  IN [k \in DOMAIN missing |-> [idx |-> missing[k], kind |-> "unreported"]]
\* The budget is spent: return without a join.
GiveUp ==
  /\ main = "collect" /\ call.timeout /\ Len(answer) < call.n
  /\ main' = "late" /\ answer' = answer \o Unreported
  /\ UNCHANGED <<args, sharedVars, workerVars, child, late>>

\* A slip: the entries are left in the order they came in.
AsReceived == answer
\* sort_by_key: by index, equal ones as they stand.
ByIndex ==
  {p \in (DOMAIN answer) \X (DOMAIN answer) :
     \/ answer[p[1]].idx < answer[p[2]].idx
     \/ answer[p[1]].idx = answer[p[2]].idx /\ p[1] < p[2]}
InOrder == AtPlaces(answer, Ranked(DOMAIN answer, ByIndex))
SomePanic == \E w \in 1..NumWorkers : pc[w] = "panicked"
\* The first worker found to have panicked ends the joins; nothing depends on the
\* workers after it, as a panic is only met once all are gone.
Join ==
  /\ main = "join" /\ AllOver
  /\ IF SomePanic THEN main' = "error" /\ UNCHANGED answer
                  ELSE main' = "done" /\ answer' = InOrder
  /\ UNCHANGED <<args, sharedVars, workerVars, child, late>>

Call == SpawnWorker \/ StartCollecting \/ Receive \/ CollectEnds \/ GiveUp \/ Join

-----------------------------------------------------------------------------
(* Processes *)

\* A process nobody waits for may end as well, but nobody would notice; it is taken to
\* stay, so that no count is too low.
Exit(i) ==
  /\ child[i] = "running" /\ child' = [child EXCEPT ![i] = "ended"]
  /\ UNCHANGED <<args, callerVars, sharedVars, workerVars, late>>

\* wait_with_output fails, and the process goes on.
WaitFails(i) ==
  /\ child[i] = "running" /\ child' = [child EXCEPT ![i] = "unwaited"]
  /\ UNCHANGED <<args, callerVars, sharedVars, workerVars, late>>

Done == Returned /\ AllOver /\ UNCHANGED vars

Next ==
  \/ Call \/ Done
  \/ \E w \in Workers : Work(w)
  \/ \E i \in Commands : Exit(i) \/ WaitFails(i)

\* Threads run, a recv with a timeout returns, and a command that ends by itself does
\* so at some time.
Spec ==
  /\ Init /\ [][Next]_vars
  /\ WF_vars(Call) /\ \A w \in Workers : WF_vars(Work(w))
  /\ \A i \in Commands : WF_vars(call.nature[i] = "ends" /\ Exit(i))

-----------------------------------------------------------------------------
(* Properties *)

Places == {"unborn", "loop", "next", "acquire", "start", "run", "grace", "release",
           "send", "ended", "panicked"}

\* Every variable holds a value of its kind, and no permit is made up.
TypeOK ==
  /\ call \in [n : Commands, limit : Workers, timeout : TimeoutChoices, nature : [Commands -> Natures]]
  /\ main \in {"spawn", "collect", "join", "late", "done", "error"}
  /\ answer \in Seq(Entry) /\ sent \in Seq(Entry)
  /\ nextIdx \in Nat \ {0} /\ cancelled \in BOOLEAN /\ free \in 0..call.limit
  /\ pc \in [Workers -> Places] /\ idx \in [Workers -> Commands \cup {0}]
  /\ kind \in [Workers -> {"output", "failed", "timeout"}]
  /\ child \in [Commands -> {"none", "running", "ended", "unwaited", "abandoned", "orphaned"}]
  /\ late \in [Workers -> Nat]

Alive == {i \in Commands : child[i] \in {"running", "unwaited", "abandoned", "orphaned"}}
Abandoned == {i \in Commands : child[i] = "abandoned"}
\* max_concurrent bounds the processes alive at any time, the ones included that a kill
\* did not reach and that outlive their command's entry and the whole call, and those
\* whose worker died.  The exception is a process on which waiting failed: its worker
\* starts the next command beside it, so each of these is one more.
AtMostConcurrent == Cardinality(Alive) <= call.limit + Cardinality(Abandoned)

\* There are never more workers than permits, so none of them ever sleeps in the
\* semaphore; not even once workers died with a permit in their hands.
NobodyWaitsForAPermit == \A w \in Workers : pc[w] = "acquire" => free > 0

\* A call that gave up on its workers, or whose commands all kept within their
\* timeout, answers for each of the commands once, also for those whose worker died
\* or reports just when it is given up on.
CompleteAnswer ==
  main = "late" \/ (main = "done" /\ ~cancelled) =>
    Len(answer) = call.n /\ Indices(answer) = 1..call.n

\* A call that saw its workers end answers in the order of its input, and what is
\* missing from the answer was never started: some entry says timeout.
InInputOrder ==
  main = "done" =>
    /\ \A j, k \in DOMAIN answer : j < k => answer[j].idx < answer[k].idx
    /\ \A i \in 1..call.n \ Indices(answer) :
         child[i] = "none" /\ \E k \in DOMAIN answer : answer[k].kind = "timeout"

\* Once the call has returned, each worker it left behind starts at most one more
\* command.
FewLateStarts == \A w \in Workers : late[w] <= 1

Bounded == call.timeout \/ \A i \in 1..call.n : call.nature[i] = "ends"
\* With a timeout, or with commands that end by themselves, the call returns.
Returns == Bounded ~> Returned
\* So do its workers: a kill that fails holds no thread for ever.
WorkersEnd == Bounded ~> AllOver
=============================================================================

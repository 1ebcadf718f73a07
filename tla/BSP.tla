-------------------------------- MODULE BSP ---------------------------------
(***************************************************************************)
(* What the Pregel engine promises, without its inside: a run is a         *)
(* sequence of super-steps.  A super-step happens as a whole, however many *)
(* attempts it took; the only things it hands on are the frontier (who may *)
(* run next) and the inbox (what each agent was sent in this step), and a  *)
(* message lives for exactly one step.  The run ends, well only with an    *)
(* empty frontier, and a new run starts over at the entry.                 *)
(***************************************************************************)
EXTENDS Integers

CONSTANTS Agents, Start, Edges, Vals, NoVal, MaxSteps, MaxRuns

VARIABLES status, step, frontier, inbox, runs

vars == <<status, step, frontier, inbox, runs>>

Inboxes == [Agents -> Vals \cup {NoVal}]
Empty == [n \in Agents |-> NoVal]
Addressed(box) == {n \in Agents : box[n] # NoVal}
Successors(S) == {e[2] : e \in {f \in Edges : f[1] \in S}}

Init == /\ status = "running" /\ step = 0 /\ frontier = {Start} /\ inbox = Empty
        /\ runs = 1

\* Everyone addressed is in the new frontier; everyone in it was addressed or is a
\* successor of the old one.
SuperStep ==
  /\ status = "running" /\ frontier # {} /\ step < MaxSteps
  /\ step' = step + 1
  /\ inbox' \in Inboxes
  /\ \E S \in SUBSET Successors(frontier) : frontier' = S \cup Addressed(inbox')
  /\ UNCHANGED <<status, runs>>

Converge ==
  /\ status = "running" /\ frontier = {}
  /\ status' = "ok"
  /\ UNCHANGED <<step, frontier, inbox, runs>>

\* A run may fail within any step; the last step's inbox may then be half written.
Abort ==
  /\ status = "running"
  /\ status' = "failed"
  /\ inbox' \in Inboxes
  /\ step' \in {step, step + 1} \cap 0..MaxSteps
  /\ \E S \in SUBSET Successors(frontier) :
       frontier' \in {frontier, S \cup Addressed(inbox')}
  /\ UNCHANGED runs

\* A new run, of a finished or of a killed one, at whatever step was saved.
Rerun ==
  /\ runs < MaxRuns /\ runs' = runs + 1
  /\ status' = "running" /\ frontier' = {Start} /\ inbox' = Empty
  /\ step' \in 0..MaxSteps

Next == SuperStep \/ Converge \/ Abort \/ Rerun

Spec == Init /\ [][Next]_vars /\ WF_vars(SuperStep \/ Converge \/ Abort)
=============================================================================

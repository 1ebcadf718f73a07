---------------------------- MODULE LinearMir ----------------------------
(***************************************************************************)
(* What running a MIR body means: one instruction at a time, in the order  *)
(* of the body, transfers taken as their handlers say.  The graph executor *)
(* (MirDag) is to be indistinguishable from this machine.                  *)
(***************************************************************************)
EXTENDS Mir

CONSTANT Programs  (* a sequence of bodies; a behaviour runs one of them   *)

VARIABLES
  prog,  (* the body that runs, an index of Programs                       *)
  pc,    (* the instruction to run next, or End                            *)
  last,  (* the instruction that ran last, 0 before the first              *)
  beat   (* flips at every instruction, so that running one twice shows    *)

vars == <<prog, pc, last, beat>>

Init ==
  /\ prog \in DOMAIN Programs
  /\ pc = Landing(Programs[prog], 1)
  /\ last = 0
  /\ beat = FALSE

Step ==
  /\ pc \in Pcs(Programs[prog])
  /\ \E truthy \in BOOLEAN : pc' = Follow(Programs[prog], pc, truthy)
  /\ last' = pc
  /\ beat' = ~beat
  /\ UNCHANGED prog

(* A run that has an instruction left goes on: the loop of the executor    *)
(* only stops at the end of the program.                                   *)
Spec == Init /\ [][Step]_vars /\ WF_vars(Step)
=============================================================================

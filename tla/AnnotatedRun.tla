---------------------------- MODULE AnnotatedRun ----------------------------
(***************************************************************************)
(* From a loop to a run of it: the Clause2Inv pipeline (ClauseSynthesis)   *)
(* comes to its end, with a loop invariant or without one, and then the    *)
(* function is called and its loop runs, as C has it.  This is where the   *)
(* provider, the solver, the budget and the two proofs of an invariant     *)
(* meet what the invariant is for.                                         *)
(***************************************************************************)
EXTENDS ClauseSynthesis

VARIABLE head \* {}, or {x} with x the state of the run of the loop, at its head

Program == INSTANCE AnnotatedLoop WITH s <- head

RunInit == Init /\ head = {}

Synthesize == Next /\ UNCHANGED head

(* The tool has ended; the function is called, and its loop iterates.      *)
Start   == pc = "done" /\ Program!Start /\ UNCHANGED vars
Iterate == pc = "done" /\ Program!Iterate /\ UNCHANGED vars

RunNext == Synthesize \/ Start \/ Iterate

(* Fairness is that of the pipeline; a run of the program may stop.        *)
RunSpec == RunInit /\ [][RunNext]_<<vars, head>> /\ WF_vars(Synthesize)
-----------------------------------------------------------------------------
(* Whatever the provider and the solver have answered, the loop invariant  *)
(* that was written holds whenever the run is at the head of the loop, the *)
(* run evaluates nothing undefined, and it exits with the postcondition.   *)
AnnotationHolds ==
  Program!AnnotationHolds /\ Program!NothingUndefined /\ Program!ExitEstablishesPost
=============================================================================

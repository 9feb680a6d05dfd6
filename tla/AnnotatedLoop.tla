--------------------------- MODULE AnnotatedLoop ---------------------------
(***************************************************************************)
(* What a loop invariant is for (src/src/Analyzer/NumericalInvariant): a   *)
(* loop, given as a TransitionModel, is annotated at most once with a loop *)
(* invariant; then it runs.  How the invariant was found is of no concern  *)
(* here: whoever writes it has to meet every obligation of the verifier.   *)
(***************************************************************************)
EXTENDS TransitionModels, TLAPS

VARIABLES
  model,      \* the loop
  annotation, \* {}, or {I} once I is written in front of the loop
  s           \* {}, or {x} with x the state of the run of the loop, at its head

avars == <<model, annotation, s>>

-----------------------------------------------------------------------------
Init ==
  /\ model \in Models
  /\ annotation = {}
  /\ s = {}

Annotate ==
  /\ s = {}
  /\ annotation = {}
  /\ \E I \in SUBSET State : Inductive(model, I) /\ annotation' = {I}
  /\ UNCHANGED <<model, s>>

(* The function is called: the run reaches the loop.                       *)
Start ==
  /\ s = {}
  /\ \E x \in model.precondition : s' = {x}
  /\ UNCHANGED <<model, annotation>>

(* One iteration; a run that would do something undefined goes no further. *)
Iterate ==
  /\ \E x \in s \cap Enters(model) : \E b \in DOMAIN model.branches :
       /\ x \in model.branches[b].guard
       /\ x \notin Stuck(model.branches[b])
       /\ s' = {model.branches[b].next[x]}
  /\ UNCHANGED <<model, annotation>>

Next == Annotate \/ Start \/ Iterate

Spec == Init /\ [][Next]_avars

-----------------------------------------------------------------------------
(* What a reader takes the annotation for.                                 *)

(* It holds whenever the run is at the head of the loop.                   *)
AnnotationHolds == \A I \in annotation : s \subseteq I

(* A run of an annotated loop evaluates nothing undefined.                 *)
NothingUndefined ==
  annotation # {} =>
    /\ s \subseteq model.conditionDefined
    /\ \A x \in s \cap model.condition : \A b \in DOMAIN model.branches :
         x \notin Stuck(model.branches[b])

(* A run of an annotated loop leaves it with the postcondition.            *)
ExitEstablishesPost ==
  annotation # {} => \A p \in model.postcondition : s \ model.condition \subseteq p
-----------------------------------------------------------------------------
(* An inductive expression is a loop invariant, for every loop: whatever   *)
(* its states, branches, guards, updates and memory accesses are.          *)

(* The run stays within what is annotated, and what is annotated is        *)
(* inductive.                                                              *)
SInv ==
  /\ model \in Models
  /\ s \subseteq State
  /\ \A I \in annotation : Inductive(model, I) /\ s \subseteq I

LEMMA InitSInv == Init => SInv
  BY DEF Init, SInv

LEMMA NextSInv == SInv /\ [Next]_avars => SInv'
<1> SUFFICES ASSUME SInv, [Next]_avars PROVE SInv'
  OBVIOUS
<1> USE DEF SInv
<1>1. model \in TransitionModel
  BY ModelsAssumption
<1>2. /\ model.precondition \subseteq State
      /\ \A b \in DOMAIN model.branches : model.branches[b] \in TransitionBranch
  BY <1>1 DEF TransitionModel
<1>3. CASE Annotate
  BY <1>3 DEF Annotate
(* A run starts in the precondition, which an inductive I contains.        *)
<1>4. CASE Start
  <2>1. PICK x \in model.precondition : s' = {x}
    BY <1>4 DEF Start
  <2>2. s' \subseteq State
    BY <2>1, <1>2
  <2>3. model' = model /\ annotation' = annotation
    BY <1>4 DEF Start
  <2>4. ASSUME NEW I \in annotation PROVE Inductive(model, I)' /\ s' \subseteq I
    BY <2>1, <2>3, <2>4 DEF Inductive, Enters, Stuck
  <2> QED
    BY <2>2, <2>3, <2>4
(* An iteration leads from I to I.                                         *)
<1>5. CASE Iterate
  <2>1. PICK x \in s \cap Enters(model), b \in DOMAIN model.branches :
          x \in model.branches[b].guard /\ s' = {model.branches[b].next[x]}
    BY <1>5 DEF Iterate
  <2>2. model' = model /\ annotation' = annotation
    BY <1>5 DEF Iterate
  <2>3. s' \subseteq State
    <3>1. x \in State
      BY <2>1
    <3>2. model.branches[b].next \in [State -> State]
      BY <2>1, <1>2 DEF TransitionBranch
    <3> QED
      BY <3>1, <3>2, <2>1
  <2>4. ASSUME NEW I \in annotation PROVE Inductive(model, I)' /\ s' \subseteq I
    <3>1. Inductive(model, I) /\ x \in I \cap Enters(model)
      BY <2>1, <2>4
    <3>2. model.branches[b].next[x] \in I
      BY <3>1, <2>1 DEF Inductive
    <3>3. Inductive(model, I)'
      BY <3>1, <2>2 DEF Inductive, Enters, Stuck
    <3> QED
      BY <3>2, <3>3, <2>1
  <2> QED
    BY <2>2, <2>3, <2>4
<1>6. CASE UNCHANGED avars
  BY <1>6 DEF avars, Inductive, Enters, Stuck
<1> QED
  BY <1>3, <1>4, <1>5, <1>6 DEF Next

LEMMA SInvIsSound == SInv => AnnotationHolds /\ NothingUndefined /\ ExitEstablishesPost
<1> SUFFICES ASSUME SInv PROVE AnnotationHolds /\ NothingUndefined /\ ExitEstablishesPost
  OBVIOUS
<1>1. AnnotationHolds
  BY DEF SInv, AnnotationHolds
<1>2. ASSUME NEW I \in annotation
      PROVE  NothingUndefined /\ ExitEstablishesPost
  BY <1>2 DEF SInv, Inductive, Enters, NothingUndefined, ExitEstablishesPost
<1>3. CASE annotation = {}
  BY <1>1, <1>3 DEF NothingUndefined, ExitEstablishesPost
<1> QED
  BY <1>1, <1>2, <1>3

(* An annotation that meets the obligations of the verifier (Inductive)    *)
(* holds at every iteration, keeps the loop from evaluating anything       *)
(* undefined, and gives the postcondition at its exit.                     *)
THEOREM AnnotationIsSound ==
  Spec => [](AnnotationHolds /\ NothingUndefined /\ ExitEstablishesPost)
<1>1. Spec => []SInv
  BY InitSInv, NextSInv, PTL DEF Spec
<1> QED
  BY <1>1, SInvIsSound, PTL
=============================================================================

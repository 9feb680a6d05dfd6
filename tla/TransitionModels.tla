-------------------------- MODULE TransitionModels --------------------------
(***************************************************************************)
(* The loops that the numerical invariants are about, as TransitionModels  *)
(* (src/src/Analyzer/NumericalInvariant/transitionModel.h), and what their *)
(* verifier asks of an invariant (clauseCombiner.cpp).                     *)
(*                                                                         *)
(* An expression of the code is here the set of states that satisfy it; a  *)
(* state is a valuation of the current values, entry values and parameters *)
(* of the model, within the ranges of their C types when those matter.     *)
(***************************************************************************)
EXTENDS Naturals, Sequences

CONSTANTS
  State,    \* the valuations
  Variable, \* the state variables of the loop
  Models    \* the transition models of the loops considered

(* TransitionBranch: where its guard is defined and holds, where its       *)
(* updates are defined, where its memory accesses are in bounds (access =  *)
(* {} when it makes none), the state after it, and the variables whose     *)
(* next value is not the variable itself.                                  *)
TransitionBranch ==
  [guardDefined : SUBSET State, guard : SUBSET State, updatesDefined : SUBSET State,
   access : {{}} \cup {{a} : a \in SUBSET State}, next : [State -> State],
   assigns : SUBSET Variable]

(* machine: the integer semantics is that of C, in which evaluating an     *)
(* expression may be undefined.  postcondition: {} or {p}.                 *)
TransitionModel ==
  [machine : BOOLEAN, precondition : SUBSET State,
   conditionDefined : SUBSET State, condition : SUBSET State,
   branches : Seq(TransitionBranch),
   postcondition : {{}} \cup {{p} : p \in SUBSET State}]

(* validateTransitionModel, and: over mathematical integers everything but *)
(* a memory access is defined.                                             *)
WellFormed(m) ==
  /\ m.branches # <<>>
  /\ ~m.machine =>
       /\ m.conditionDefined = State
       /\ \A b \in DOMAIN m.branches :
            m.branches[b].guardDefined = State /\ m.branches[b].updatesDefined = State

ASSUME ModelsAssumption == \A m \in Models : m \in TransitionModel /\ WellFormed(m)

-----------------------------------------------------------------------------
(* The states in which the branch b cannot be executed: evaluating its     *)
(* guard, or the statements behind it, has no defined result.              *)
Stuck(b) ==
  {x \in State :
     \/ x \notin b.guardDefined
     \/ x \in b.guard /\ (x \notin b.updatesDefined \/ (\E a \in b.access : x \notin a))}

(* The states that start an iteration.                                     *)
Enters(m) == m.conditionDefined \cap m.condition

(* The obligations of verifyWithBudget, all at once.                       *)
Inductive(m, I) ==
  /\ m.precondition \subseteq I
  /\ I \subseteq m.conditionDefined
  /\ \A b \in DOMAIN m.branches : \A x \in I \cap Enters(m) :
       /\ x \notin Stuck(m.branches[b])
       /\ x \in m.branches[b].guard => m.branches[b].next[x] \in I
  /\ \A p \in m.postcondition : I \ m.condition \subseteq p
=============================================================================

----------------------- MODULE ClauseSynthesisProofs -----------------------
(***************************************************************************)
(* Proofs about ClauseSynthesis, for any loops, clauses, answers of the    *)
(* provider and limits.  The first part is about the obligations: those    *)
(* that need no query hold, and all together they make an invariant        *)
(* inductive.  The second part is the inductive invariant: the obligations *)
(* that verifyWithBudget has passed hold.  Then comes the query budget,    *)
(* and last what combineInvariantClauses makes of its candidates: which it *)
(* dismisses, in which order it tries them, what it reports and whether    *)
(* the queries set aside are enough for the proof at the end.              *)
(***************************************************************************)
EXTENDS AnnotatedRun, SequenceLemmas

LEMMA ModelTypes ==
  ASSUME NEW m \in Models
  PROVE  /\ m.machine \in BOOLEAN
         /\ m.precondition \subseteq State
         /\ m.conditionDefined \subseteq State
         /\ m.branches \in Seq(TransitionBranch)
         /\ Len(m.branches) \in Nat
         /\ DOMAIN m.branches = 1..Len(m.branches)
         /\ WellFormed(m)
<1>1. m \in TransitionModel /\ WellFormed(m)
  BY ModelsAssumption
<1> QED
  BY <1>1 DEF TransitionModel

LEMMA SatInState == ASSUME NEW e PROVE Sat(e) \in SUBSET State
  BY DEF Sat

(* The places of the obligations in the order of verifyWithBudget differ.  *)
LEMMA Positions ==
  ASSUME NEW m \in Models, NEW o \in Obligations(m), NEW p \in Obligations(m)
  PROVE  /\ Position(m, o) \in Nat
         /\ 1 <= Position(m, o)
         /\ Position(m, o) = Position(m, p) => o = p
<1>1. Len(m.branches) \in Nat /\ DOMAIN m.branches = 1..Len(m.branches)
  BY ModelTypes
<1>2. ASSUME NEW q \in Obligations(m)
      PROVE  \/ q = Initiation /\ Position(m, q) = 1
             \/ q = ConditionSafety /\ Position(m, q) = 2
             \/ \E b \in 1..Len(m.branches) : q = BranchSafety(b) /\ Position(m, q) = 2 * b + 1
             \/ \E b \in 1..Len(m.branches) : q = Consecution(b) /\ Position(m, q) = 2 * b + 2
             \/ q = ExitPost /\ Position(m, q) = 2 * Len(m.branches) + 3
  BY <1>1 DEF Obligations, Position, Initiation, ConditionSafety, BranchSafety, Consecution, ExitPost
<1> HIDE DEF Position, Obligations
<1> QED
  BY <1>1, <1>2

(* An obligation that no query is made for holds.                          *)
LEMMA SkippedHold ==
  ASSUME NEW m \in Models, NEW I \in SUBSET State, NEW o \in Obligations(m) \ Required(m)
  PROVE  Refuting(m, I, o) = {}
<1>1. WellFormed(m) /\ m.machine \in BOOLEAN
  BY ModelTypes
<1>2. CASE o = ConditionSafety
  BY <1>1, <1>2 DEF Required, Refuting, ConditionSafety, WellFormed
<1>3. CASE o = ExitPost
  BY <1>3 DEF Required, Refuting, ExitPost
<1>4. CASE \E b \in DOMAIN m.branches : o = BranchSafety(b)
  BY <1>1, <1>4 DEF Required, Refuting, BranchSafety, WellFormed, Stuck
<1> QED
  BY <1>2, <1>3, <1>4 DEF Obligations, Required, Initiation, Consecution

(* What meets every obligation is inductive.                               *)
LEMMA ObligationsSuffice ==
  ASSUME NEW m \in Models, NEW I \in SUBSET State,
         \A o \in Obligations(m) : Refuting(m, I, o) = {}
  PROVE  Inductive(m, I)
<1>0. /\ m.precondition \subseteq State
      /\ m.conditionDefined \subseteq State
  BY ModelTypes
<1>1. m.precondition \subseteq I
  <2>1. Refuting(m, I, Initiation) = {}
    BY DEF Obligations
  <2> QED
    BY <2>1 DEF Refuting, Initiation
<1>2. I \subseteq m.conditionDefined
  <2>1. Refuting(m, I, ConditionSafety) = {}
    BY DEF Obligations
  <2> QED
    BY <2>1 DEF Refuting, ConditionSafety
<1>3. ASSUME NEW b \in DOMAIN m.branches, NEW x \in I \cap Enters(m)
      PROVE  /\ x \notin Stuck(m.branches[b])
             /\ x \in m.branches[b].guard => m.branches[b].next[x] \in I
  <2>1. Refuting(m, I, BranchSafety(b)) = {} /\ Refuting(m, I, Consecution(b)) = {}
    BY DEF Obligations
  <2>2. x \notin Stuck(m.branches[b])
    BY <2>1, <1>3 DEF Refuting, BranchSafety, Enters
  <2>3. ASSUME x \in m.branches[b].guard PROVE m.branches[b].next[x] \in I
    <3>1. x \in m.branches[b].guardDefined /\ x \in m.branches[b].updatesDefined
      BY <2>2, <2>3 DEF Stuck
    <3> QED
      BY <3>1, <2>1, <2>3 DEF Refuting, Consecution
  <2> QED
    BY <2>2, <2>3
<1>4. ASSUME NEW p \in m.postcondition PROVE I \ m.condition \subseteq p
  <2>1. Refuting(m, I, ExitPost) = {}
    BY DEF Obligations
  <2> QED
    BY <2>1, <1>2, <1>4 DEF Refuting, ExitPost
<1> QED
  BY <1>1, <1>2, <1>3, <1>4 DEF Inductive

(* What a query may answer.                                                *)
LEMMA QueryAnswers ==
  ASSUME NEW m, NEW I, NEW o, NEW maximum, NEW r \in Query(m, I, o, maximum)
  PROVE  \/ r.status = "Unsupported" /\ r.cost = 0
         \/ r.status = "BudgetExceeded" /\ r.cost = 0 /\ proof.used >= maximum
         \/ /\ r.status \in {"Unknown", "Unsupported"}
            /\ r.cost = 1 /\ ~(proof.used >= maximum)
         \/ /\ r.status = "Refuted" /\ Refuting(m, I, o) # {} /\ r.cex \subseteq Refuting(m, I, o)
            /\ r.cost = 1 /\ ~(proof.used >= maximum)
         \/ /\ r.status = "Proved" /\ Refuting(m, I, o) = {}
            /\ r.cost = 1 /\ ~(proof.used >= maximum)
<1>1. \/ r = Result("Unsupported", {}, 0)
      \/ proof.used >= maximum /\ r = Result("BudgetExceeded", {}, 0)
      \/ ~(proof.used >= maximum) /\ r = Result("Unknown", {}, 1)
      \/ ~(proof.used >= maximum) /\ r = Result("Unsupported", {}, 1)
      \/ ~(proof.used >= maximum) /\ Refuting(m, I, o) = {} /\ r = Result("Proved", {}, 1)
      \/ /\ ~(proof.used >= maximum) /\ Refuting(m, I, o) # {}
         /\ \E cex : cex \subseteq Refuting(m, I, o) /\ r = Result("Refuted", cex, 1)
  BY Zenon DEF Query
<1> QED
  BY <1>1 DEF Result

(* verifyWithBudget is past every obligation before o, and they hold for e.*)
Passed(m, e, o) ==
  \A p \in Obligations(m) : Position(m, p) < Position(m, o) => Refuting(m, Sat(e), p) = {}

LEMMA NothingBeforeInitiation ==
  ASSUME NEW m \in Models, NEW e
  PROVE  Initiation \in Required(m) /\ Passed(m, e, Initiation)
<1>1. Initiation \in Obligations(m)
  BY DEF Obligations
<1>2. Initiation \in Required(m) /\ Position(m, Initiation) = 1
  BY <1>1 DEF Required, Initiation, Position
<1> QED
  BY <1>1, <1>2, Positions DEF Passed

(* Going on to the next obligation that needs a query skips none that may  *)
(* fail.                                                                   *)
LEMMA PassedNext ==
  ASSUME NEW m \in Models, NEW e, NEW o \in Required(m), Passed(m, e, o),
         Refuting(m, Sat(e), o) = {},
         NEW n \in Later(m, o), \A p \in Later(m, o) : Position(m, n) <= Position(m, p)
  PROVE  n \in Required(m) /\ Passed(m, e, n)
<1>1. n \in Required(m) /\ Required(m) \subseteq Obligations(m)
  BY DEF Later, Required
<1>2. ASSUME NEW p \in Obligations(m), Position(m, p) < Position(m, n)
      PROVE  Refuting(m, Sat(e), p) = {}
  <2>1. /\ Position(m, p) \in Nat /\ Position(m, o) \in Nat /\ Position(m, n) \in Nat
        /\ Position(m, p) = Position(m, o) => p = o
    BY <1>1, Positions
  <2>2. CASE p \notin Required(m)
    BY <2>2, SkippedHold, SatInState
  <2>3. CASE p \in Required(m)
    <3>1. ~(Position(m, p) > Position(m, o))
      BY <2>1, <2>3, <1>2 DEF Later
    <3> QED
      BY <3>1, <2>1 DEF Passed
  <2> QED
    BY <2>2, <2>3
<1> QED
  BY <1>1, <1>2 DEF Passed

(* Once there is no next one, the candidate is inductive.                  *)
LEMMA PassedAll ==
  ASSUME NEW m \in Models, NEW e, NEW o \in Required(m), Passed(m, e, o),
         Refuting(m, Sat(e), o) = {}, Later(m, o) = {}
  PROVE  Inductive(m, Sat(e))
<1>1. Required(m) \subseteq Obligations(m)
  BY DEF Required
<1>2. ASSUME NEW p \in Obligations(m) PROVE Refuting(m, Sat(e), p) = {}
  <2>1. /\ Position(m, p) \in Nat /\ Position(m, o) \in Nat
        /\ Position(m, p) = Position(m, o) => p = o
    BY <1>1, Positions
  <2>2. CASE p \notin Required(m)
    BY <2>2, SkippedHold, SatInState
  <2>3. CASE p \in Required(m)
    <3>1. ~(Position(m, p) > Position(m, o))
      BY <2>3 DEF Later
    <3> QED
      BY <3>1, <2>1 DEF Passed
  <2> QED
    BY <2>2, <2>3
<1> QED
  BY <1>2, ObligationsSuffice, SatInState

-----------------------------------------------------------------------------
(* The inductive invariant: at a query, the obligations before it hold for *)
(* the candidate; a candidate that was found is inductive, and nothing is  *)
(* written before the end.                                                 *)
ProofInv ==
  /\ model \in Models
  /\ proof \in [ob : Required(model), used : Nat]
  /\ pc # "done" => annotation = {}
  /\ pc = "verify" => Passed(model, candidate, proof.ob)
  /\ pc = "emit" => \A e \in invariant : Passed(model, e, proof.ob)
  /\ \A e \in invariant : Inductive(model, Sat(e))
  /\ \A d, e \in invariant : d = e

LEMMA NoProofFits == ASSUME NEW m \in Models PROVE NoProof \in [ob : Required(m), used : Nat]
  BY NothingBeforeInitiation DEF NoProof

LEMMA InitProofInv == Init => ProofInv
  BY NoProofFits DEF Init, ProofInv

(* A query that proves an obligation which is not the last.                *)
LEMMA DischargeKeepsPassed ==
  ASSUME ProofInv, NEW e, NEW maximum, Passed(model, e, proof.ob), Discharge(e, maximum)
  PROVE  /\ proof' \in [ob : Required(model), used : Nat]
         /\ Passed(model, e, proof'.ob)
<1>1. PICK r \in Query(model, Sat(e), proof.ob, maximum) :
        /\ r.status = "Proved"
        /\ \E o \in Later(model, proof.ob) :
             /\ \A p \in Later(model, proof.ob) : Position(model, o) <= Position(model, p)
             /\ proof' = [ob |-> o, used |-> proof.used + r.cost]
  BY DEF Discharge
<1>2. Refuting(model, Sat(e), proof.ob) = {} /\ r.cost = 1
  BY <1>1, QueryAnswers
<1>3. PICK o \in Later(model, proof.ob) :
        /\ \A p \in Later(model, proof.ob) : Position(model, o) <= Position(model, p)
        /\ proof' = [ob |-> o, used |-> proof.used + r.cost]
  BY <1>1
<1>4. model \in Models /\ proof.ob \in Required(model) /\ proof.used \in Nat
  BY DEF ProofInv
<1>5. o \in Required(model) /\ Passed(model, e, o)
  BY <1>2, <1>3, <1>4, PassedNext
<1> QED
  BY <1>2, <1>3, <1>4, <1>5

LEMMA NextProofInv == ProofInv /\ [Next]_vars => ProofInv'
<1> SUFFICES ASSUME ProofInv, [Next]_vars PROVE ProofInv'
  OBVIOUS
<1>0. /\ model \in Models
      /\ proof \in [ob : Required(model), used : Nat]
      /\ proof.ob \in Required(model) /\ proof.used \in Nat
      /\ NoProof \in [ob : Required(model), used : Nat]
  BY NoProofFits DEF ProofInv
<1>1. ASSUME \/ ExtractionFails \/ BudgetRejected \/ Extract \/ CombineExhausted
             \/ Filter \/ GenerateExhausted \/ ProviderFails \/ Generate
      PROVE  ProofInv'
  BY <1>1 DEF ProofInv, ExtractionFails, BudgetRejected, Extract, CombineExhausted, Filter,
     GenerateExhausted, ProviderFails, Generate, Finish
<1>2. ASSUME Combine \/ QueriesExhausted \/ EndRound PROVE ProofInv'
  BY <1>0, <1>2 DEF ProofInv, Combine, QueriesExhausted, EndRound, Finish
<1>3. CASE Attempt
  <2>1. /\ proof' \in [ob : Required(model), used : Nat] /\ proof'.ob = Initiation
        /\ model' = model /\ pc' = "verify" /\ annotation' = annotation /\ invariant' = invariant
    BY <1>0, <1>3, NothingBeforeInitiation DEF Attempt
  <2>2. Passed(model, candidate', Initiation)
    BY <1>0, NothingBeforeInitiation
  <2>3. pc # "done"
    BY <1>3 DEF Attempt
  <2> QED
    BY <2>1, <2>2, <2>3 DEF ProofInv
<1>4. CASE Verify
  <2>1. Discharge(candidate, roundQueries) /\ pc = "verify" /\ Passed(model, candidate, proof.ob)
    BY <1>4 DEF Verify, ProofInv
  <2>2. proof' \in [ob : Required(model), used : Nat] /\ Passed(model, candidate, proof'.ob)
    BY <2>1, DischargeKeepsPassed
  <2>3. /\ model' = model /\ pc' = pc /\ annotation' = annotation /\ invariant' = invariant
        /\ candidate' = candidate
    BY <2>1 DEF Discharge, candidate
  <2> QED
    BY <2>1, <2>2, <2>3 DEF ProofInv
(* The last query: all obligations hold.                                   *)
<1>5. CASE Found
  <2>1. /\ pc = "verify" /\ Later(model, proof.ob) = {}
        /\ model' = model /\ pc' = "emit" /\ annotation' = annotation
        /\ invariant' = {candidate} /\ proof' = NoProof
        /\ Refuting(model, Sat(candidate), proof.ob) = {}
    BY <1>5, QueryAnswers DEF Found
  <2>2. Passed(model, candidate, proof.ob)
    BY <2>1 DEF ProofInv
  <2>3. Inductive(model, Sat(candidate))
    BY <1>0, <2>1, <2>2, PassedAll
  <2>4. Passed(model, candidate, NoProof.ob)
    BY <1>0, NothingBeforeInitiation DEF NoProof
  <2>5. annotation = {}
    BY <2>1 DEF ProofInv
  <2> QED
    BY <1>0, <2>1, <2>3, <2>4, <2>5 DEF ProofInv
<1>6. CASE Reject
  <2>1. PICK r \in Query(model, Sat(candidate), proof.ob, roundQueries) :
          proof' = [proof EXCEPT !.used = @ + r.cost]
    BY <1>6 DEF Reject
  <2>2. r.cost \in Nat
    BY <2>1, QueryAnswers
  <2>3. proof' \in [ob : Required(model), used : Nat]
    BY <1>0, <2>1, <2>2
  <2> QED
    BY <2>3, <1>6 DEF Reject, ProofInv
<1>7. CASE Reverify
  <2>1. PICK e \in invariant : Discharge(e, finalProofQueries(model))
    BY <1>7 DEF Reverify
  <2>2. /\ model' = model /\ pc = "emit" /\ pc' = pc /\ annotation' = annotation
        /\ invariant' = invariant
    BY <1>7, <2>1 DEF Reverify, Discharge
  <2>3. ASSUME NEW d \in invariant
        PROVE  proof' \in [ob : Required(model), used : Nat] /\ Passed(model, d, proof'.ob)
    <3>1. d = e /\ Passed(model, e, proof.ob)
      BY <2>2 DEF ProofInv
    <3> QED
      BY <2>1, <3>1, DischargeKeepsPassed
  <2> QED
    BY <2>1, <2>2, <2>3 DEF ProofInv
<1>8. CASE Emit \/ EmissionFails
  BY <1>0, <1>8 DEF ProofInv, Emit, EmissionFails, Finish
<1>9. CASE UNCHANGED vars
  BY <1>9 DEF vars, ProofInv, candidate
<1> QED
  BY <1>1, <1>2, <1>3, <1>4, <1>5, <1>6, <1>7, <1>8, <1>9 DEF Next

(* combineInvariantClauses returns Found only with an inductive invariant, *)
(* whatever clauses it is given and however the solver answers.            *)
THEOREM FoundAreInductive == Spec => []FoundIsInductive
<1>1. ProofInv => FoundIsInductive
  BY DEF ProofInv, FoundIsInductive
<1> QED
  BY <1>1, InitProofInv, NextProofInv, PTL DEF Spec

LEMMA StepAnnotates ==
  ASSUME ProofInv, [Next]_vars
  PROVE  AL!Annotate \/ UNCHANGED <<model, annotation>>
<1>1. CASE Emit
  <2>1. /\ pc = "emit" /\ model' = model
        /\ \E e \in invariant : annotation' = {Sat(e)} \/ annotation' = annotation
    BY <1>1 DEF Emit
  <2>2. PICK e \in invariant : annotation' = {Sat(e)} \/ annotation' = annotation
    BY <2>1
  <2>3. Inductive(model, Sat(e)) /\ annotation = {}
    BY <2>1, <2>2 DEF ProofInv
  <2>4. AL!Inductive(model, Sat(e))
    BY <2>3 DEF Inductive, Enters, Stuck, AL!Inductive, AL!Enters, AL!Stuck
  <2> QED
    BY <2>1, <2>2, <2>3, <2>4, SatInState DEF AL!Annotate
<1>2. ASSUME UNCHANGED vars \/ (Next /\ ~Emit)
      PROVE  UNCHANGED <<model, annotation>>
  BY <1>2 DEF Next, vars, ExtractionFails, BudgetRejected, Extract, CombineExhausted, Combine,
     Filter, Attempt, Verify, Found, Reject, QueriesExhausted, EndRound, GenerateExhausted,
     ProviderFails, Generate, Reverify, EmissionFails, Discharge
<1> QED
  BY <1>1, <1>2

(* The pipeline annotates the loop with an inductive invariant, or leaves  *)
(* it alone; with AnnotationIsSound of AnnotatedLoop this makes what       *)
(* it writes a loop invariant of the program.                              *)
THEOREM PipelineAnnotates == Spec => ImplementsAnnotatedLoop
<1>1. Init => AL!Init
  BY DEF Init, AL!Init
<1>2. ProofInv /\ [Next]_vars => [AL!Next]_AL!avars
  BY StepAnnotates DEF AL!Next, AL!avars
<1> QED
  BY <1>1, <1>2, InitProofInv, NextProofInv, PTL DEF Spec, AL!Spec, ImplementsAnnotatedLoop

-----------------------------------------------------------------------------
(* The run of the program.  It starts when the pipeline has ended.         *)
RunInv ==
  /\ ProofInv
  /\ Program!SInv
  /\ pc # "done" => head = {}

LEMMA ProgramModels ==
  \A m \in Models : m \in Program!TransitionModel /\ Program!WellFormed(m)
  BY ModelsAssumption DEF TransitionModel, TransitionBranch, WellFormed,
     Program!TransitionModel, Program!TransitionBranch, Program!WellFormed

(* The steps of the program keep its run within what is annotated.         *)
LEMMA ProgramSteps == Program!SInv /\ [Program!Next]_Program!avars => Program!SInv'
  BY ProgramModels, Program!NextSInv

LEMMA InitRunInv == RunInit => RunInv
<1> SUFFICES ASSUME RunInit PROVE RunInv
  OBVIOUS
<1>1. ProofInv
  BY InitProofInv DEF RunInit
<1>2. model \in Models /\ head = {} /\ annotation = {}
  BY DEF RunInit, Init
<1>3. Program!SInv
  BY <1>2 DEF Program!SInv
<1> QED
  BY <1>1, <1>2, <1>3 DEF RunInv

(* Until then every step of the pipeline is one of Program, in which the   *)
(* loop is annotated before it runs.                                       *)
LEMMA SynthesizeRunInv == RunInv /\ Synthesize => RunInv'
<1> SUFFICES ASSUME RunInv, Synthesize PROVE RunInv'
  OBVIOUS
<1>1. Next /\ head' = head /\ ProofInv /\ Program!SInv
  BY DEF RunInv, Synthesize
<1>2. ProofInv'
  BY <1>1, NextProofInv
<1>3. pc # "done"
  BY <1>1 DEF Next, ExtractionFails, BudgetRejected, Extract, CombineExhausted, Combine,
     Filter, Attempt, Verify, Found, Reject, QueriesExhausted, EndRound, GenerateExhausted,
     ProviderFails, Generate, Reverify, Emit, EmissionFails, Discharge
<1>4. head = {} /\ head' = {}
  BY <1>1, <1>3 DEF RunInv
<1>5. AL!Annotate \/ UNCHANGED <<model, annotation>>
  BY <1>1, StepAnnotates
<1>6. ASSUME AL!Annotate PROVE Program!SInv'
  <2>1. PICK I \in SUBSET State : AL!Inductive(model, I) /\ annotation' = {I}
    BY <1>6 DEF AL!Annotate
  <2>2. Program!Inductive(model, I)
    BY <2>1 DEF AL!Inductive, AL!Enters, AL!Stuck,
       Program!Inductive, Program!Enters, Program!Stuck
  <2>3. annotation = {} /\ model' = model
    BY <1>6 DEF AL!Annotate
  <2>4. Program!Annotate
    BY <1>4, <2>1, <2>2, <2>3 DEF Program!Annotate
  <2> QED
    BY <1>1, <2>4, ProgramSteps DEF Program!Next
<1>7. ASSUME UNCHANGED <<model, annotation>> PROVE Program!SInv'
  BY <1>1, <1>7, ProgramSteps DEF Program!avars
<1>8. Program!SInv'
  BY <1>5, <1>6, <1>7
<1> QED
  BY <1>2, <1>4, <1>8 DEF RunInv

LEMMA NextRunInv == RunInv /\ [RunNext]_<<vars, head>> => RunInv'
<1> SUFFICES ASSUME RunInv, [RunNext]_<<vars, head>> PROVE RunInv'
  OBVIOUS
<1>1. CASE Synthesize
  BY <1>1, SynthesizeRunInv
<1>2. CASE Start \/ Iterate
  <2>1. pc = "done" /\ UNCHANGED vars /\ Program!Next
    BY <1>2 DEF Start, Iterate, Program!Next
  <2>2. Program!SInv'
    BY <2>1, ProgramSteps DEF RunInv
  <2>3. ProofInv'
    BY <2>1, NextProofInv DEF RunInv
  <2>4. pc' = "done"
    BY <2>1 DEF vars
  <2> QED
    BY <2>2, <2>3, <2>4 DEF RunInv
<1>3. CASE UNCHANGED <<vars, head>>
  <2>1. Program!SInv'
    BY <1>3, ProgramSteps DEF RunInv, Program!avars, vars
  <2>2. ProofInv'
    BY <1>3, NextProofInv DEF RunInv
  <2> QED
    BY <1>3, <2>1, <2>2 DEF RunInv, vars
<1> QED
  BY <1>1, <1>2, <1>3 DEF RunNext

(* What the pipeline writes holds at the head of the loop in every run of  *)
(* the program, keeps it from evaluating anything undefined, and gives the *)
(* postcondition at the exit: for every loop, whatever the provider and    *)
(* the solver have answered.                                               *)
THEOREM WrittenInvariantsHold == RunSpec => []AnnotationHolds
<1>1. RunInv => AnnotationHolds
  BY ProgramModels, Program!SInvIsSound DEF RunInv, AnnotationHolds
<1> QED
  BY <1>1, InitRunInv, NextRunInv, PTL DEF RunSpec

-----------------------------------------------------------------------------
(* The budget: what is spent, and who may spend more.                      *)
BudgetInv ==
  /\ spent \in [rounds : Nat, calls : Nat, queries : Nat]
  /\ pc = "extract" => spent.queries = 0
  /\ pc \notin {"extract", "done"} => Funded
  /\ pc \in {"combine", "generate", "emit"} => spent.queries <= generationQueries
  /\ pc \in {"candidate", "verify"} => spent.queries + proof.used <= generationQueries
  /\ pc = "emit" => proof.used <= finalProofQueries(model)
  /\ pc \notin {"candidate", "verify", "emit"} => proof.used = 0
  /\ spent.queries + proof.used <= maxSolverQueries

LEMMA FinalProofNat == ASSUME NEW m \in Models PROVE finalProofQueries(m) \in Nat
<1>1. Len(m.branches) \in Nat /\ m.machine \in BOOLEAN
  BY ModelTypes
<1>2. PICK a \in Nat : a = (IF m.machine THEN 1 ELSE 0)
  BY <1>1
<1>3. PICK f \in Nat : f = (IF m.machine THEN 2 ELSE 1)
  BY <1>1
<1>4. PICK c \in Nat : c = (IF m.postcondition # {} THEN 1 ELSE 0)
  OBVIOUS
<1>5. PICK n \in Nat : n = Len(m.branches)
  BY <1>1
<1>6. finalProofQueries(m) = 1 + a + f * n + c
  BY <1>2, <1>3, <1>4, <1>5 DEF finalProofQueries
<1>7. f = 1 \/ f = 2
  BY <1>3
<1> QED
  BY <1>6, <1>7

(* What a round and the final proof add to what is spent.                  *)
LEMMA SpentInRound ==
  ASSUME NEW s \in [rounds : Nat, calls : Nat, queries : Nat], NEW a \in Nat
  PROVE  /\ [s EXCEPT !.rounds = @ + 1, !.queries = @ + a] \in [rounds : Nat, calls : Nat, queries : Nat]
         /\ [s EXCEPT !.rounds = @ + 1, !.queries = @ + a].queries = s.queries + a
<1>1. s.rounds + 1 \in Nat /\ s.queries + a \in Nat /\ s.calls \in Nat
  OBVIOUS
<1>2. PICK t \in [rounds : Nat, calls : Nat, queries : Nat] : t = [s EXCEPT !.rounds = @ + 1]
  BY <1>1
<1>3. t.queries = s.queries
  BY <1>2
<1>4. [s EXCEPT !.rounds = @ + 1, !.queries = @ + a] = [t EXCEPT !.queries = @ + a]
  BY <1>2, <1>3, Zenon
<1>5. t.rounds \in Nat /\ t.calls \in Nat /\ t.queries + a \in Nat
  OBVIOUS
<1> QED
  BY <1>3, <1>4, <1>5

LEMMA SpentInProof ==
  ASSUME NEW s \in [rounds : Nat, calls : Nat, queries : Nat], NEW a \in Nat
  PROVE  /\ [s EXCEPT !.queries = @ + a] \in [rounds : Nat, calls : Nat, queries : Nat]
         /\ [s EXCEPT !.queries = @ + a].queries = s.queries + a
<1>1. s.rounds \in Nat /\ s.queries + a \in Nat /\ s.calls \in Nat
  OBVIOUS
<1>2. [s EXCEPT !.queries = @ + a]
        = [rounds |-> s.rounds, calls |-> s.calls, queries |-> s.queries + a]
  OBVIOUS
<1> QED
  BY <1>1, <1>2

LEMMA InitBudgetInv == Init => BudgetInv
  BY LimitsAssumption DEF Init, BudgetInv, NoProof

(* A query of a round stays within what is left for synthesis, one of the  *)
(* final proof within what was set aside.                                  *)
LEMMA NextBudgetInv == ProofInv /\ BudgetInv /\ [Next]_vars => BudgetInv'
<1> SUFFICES ASSUME ProofInv, BudgetInv, [Next]_vars PROVE BudgetInv'
  OBVIOUS
<1> DEFINE q == spent.queries
           u == proof.used
           F == finalProofQueries(model)
<1>0. /\ q \in Nat /\ u \in Nat /\ F \in Nat /\ maxSolverQueries \in Nat
      /\ proof \in [ob : Required(model), used : Nat]
      /\ spent \in [rounds : Nat, calls : Nat, queries : Nat]
      /\ NoProof.used = 0
      /\ generationQueries = maxSolverQueries - F
      /\ roundQueries = generationQueries - q
      /\ q + u <= maxSolverQueries
  BY FinalProofNat, LimitsAssumption DEF ProofInv, BudgetInv, NoProof, generationQueries, roundQueries
<1>1. /\ model' = model
      /\ generationQueries' = generationQueries /\ F' = F /\ Funded' = Funded
  <2>1. model' = model
    BY DEF Next, vars, ExtractionFails, BudgetRejected, Extract, CombineExhausted, Combine,
       Filter, Attempt, Verify, Found, Reject, QueriesExhausted, EndRound, GenerateExhausted,
       ProviderFails, Generate, Reverify, Emit, EmissionFails, Discharge
  <2> QED
    BY <2>1 DEF generationQueries, Funded, finalProofQueries
<1> HIDE DEF F
<1>2. CASE ExtractionFails \/ BudgetRejected \/ CombineExhausted \/ GenerateExhausted
  <2>1. /\ spent' = spent /\ proof' = proof /\ pc' = "done"
        /\ pc \in {"extract", "combine", "generate"}
    BY <1>2 DEF ExtractionFails, BudgetRejected, CombineExhausted, GenerateExhausted, Finish
  <2> QED
    BY <1>0, <1>1, <2>1 DEF BudgetInv
<1>12. CASE Extract
  <2>1. /\ spent' = spent /\ proof' = proof /\ pc = "extract" /\ Funded
        /\ pc' \in {"done", "generate", "combine"}
    BY <1>12 DEF Extract, Finish
  <2>2. F < maxSolverQueries
    BY <2>1 DEF Funded, F
  <2> QED
    BY <1>0, <1>1, <2>1, <2>2 DEF BudgetInv
<1>3. CASE ProviderFails \/ Generate
  <2>1. /\ spent' = [spent EXCEPT !.calls = @ + 1] /\ proof' = proof
        /\ pc = "generate" /\ pc' \in {"combine", "done"}
    BY <1>3 DEF ProviderFails, Generate, Finish
  <2>2. spent' \in [rounds : Nat, calls : Nat, queries : Nat] /\ q' = q
    BY <1>0, <2>1
  <2> QED
    BY <1>0, <1>1, <2>1, <2>2 DEF BudgetInv
<1>4. CASE Combine
  <2>1. /\ spent' = spent /\ proof' = NoProof /\ pc = "combine" /\ pc' = "candidate"
        /\ q < generationQueries
    BY <1>4 DEF Combine, MayCombine
  <2> QED
    BY <1>0, <1>1, <2>1 DEF BudgetInv
<1>5. CASE Filter \/ Attempt
  <2>1. /\ spent' = spent /\ u' = u /\ pc = "candidate" /\ pc' \in {"candidate", "verify"}
    BY <1>0, <1>5 DEF Filter, Attempt
  <2> QED
    BY <1>0, <1>1, <2>1 DEF BudgetInv
<1>6. CASE Verify \/ Reject
  <2>1. /\ pc = "verify" /\ pc' \in {"verify", "candidate"} /\ spent' = spent
        /\ \E r \in Query(model, Sat(candidate), proof.ob, roundQueries) : u' = u + r.cost
    <3>1. CASE Verify
      BY <3>1 DEF Verify, Discharge
    <3>2. CASE Reject
      <4>1. PICK r \in Query(model, Sat(candidate), proof.ob, roundQueries) :
              proof' = [proof EXCEPT !.used = @ + r.cost]
        BY <3>2 DEF Reject
      <4>2. u' = u + r.cost
        BY <1>0, <4>1
      <4> QED
        BY <3>2, <4>2 DEF Reject
    <3> QED
      BY <1>6, <3>1, <3>2
  <2>2. u' = u \/ (u' = u + 1 /\ u < roundQueries)
    BY <1>0, <2>1, QueryAnswers
  <2> QED
    BY <1>0, <1>1, <2>1, <2>2 DEF BudgetInv
<1>7. CASE Found
  <2>1. PICK r \in Query(model, Sat(candidate), proof.ob, roundQueries) :
          spent' = [spent EXCEPT !.rounds = @ + 1, !.queries = @ + proof.used + r.cost]
    BY <1>7 DEF Found
  <2>2. /\ pc = "verify" /\ pc' = "emit" /\ proof' = NoProof
    BY <1>7 DEF Found
  <2>3. r.cost = 0 \/ (r.cost = 1 /\ u < roundQueries)
    BY <1>0, QueryAnswers
  <2>5. u + r.cost \in Nat /\ q + u + r.cost = q + (u + r.cost)
    BY <1>0, <2>3
  <2>6. spent' = [spent EXCEPT !.rounds = @ + 1, !.queries = @ + (u + r.cost)]
    BY <1>0, <2>1, <2>5
  <2>4. spent' \in [rounds : Nat, calls : Nat, queries : Nat] /\ q' = q + u + r.cost
    BY <1>0, <2>5, <2>6, SpentInRound
  <2>7. q + u <= generationQueries /\ q + u + r.cost <= generationQueries
    <3>1. q + u <= generationQueries
      BY <2>2 DEF BudgetInv
    <3>2. generationQueries \in Int
      BY <1>0
    <3> HIDE DEF q, u
    <3> QED
      BY <1>0, <2>3, <3>1, <3>2
  <2>8. u' = 0 /\ Funded
    BY <1>0, <2>2 DEF BudgetInv
  <2>9. q' <= generationQueries /\ q' + u' <= maxSolverQueries
    BY <1>0, <2>3, <2>4, <2>7, <2>8
  <2>10. u' <= finalProofQueries(model')
    BY <1>0, <1>1, <2>8 DEF F
  <2> QED
    BY <1>1, <2>2, <2>4, <2>8, <2>9, <2>10 DEF BudgetInv
<1>8. CASE QueriesExhausted \/ EndRound
  <2>1. /\ spent' = [spent EXCEPT !.rounds = @ + 1, !.queries = @ + proof.used]
        /\ proof' = NoProof /\ pc \in {"candidate", "verify"} /\ pc' \in {"generate", "done"}
    BY <1>8 DEF QueriesExhausted, EndRound, Finish
  <2>2. spent' \in [rounds : Nat, calls : Nat, queries : Nat] /\ q' = q + u
    BY <1>0, <2>1, SpentInRound
  <2> QED
    BY <1>0, <1>1, <2>1, <2>2 DEF BudgetInv
<1>9. CASE Reverify
  <2>1. PICK e \in invariant : Discharge(e, F)
    BY <1>9 DEF Reverify, F
  <2>2. /\ pc = "emit" /\ pc' = "emit" /\ spent' = spent
        /\ \E r \in Query(model, Sat(e), proof.ob, F) : u' = u + r.cost
    BY <1>0, <1>9, <2>1 DEF Reverify, Discharge
  <2>3. u' = u \/ (u' = u + 1 /\ u < F)
    BY <1>0, <2>2, QueryAnswers
  <2> QED
    BY <1>0, <1>1, <2>2, <2>3 DEF BudgetInv, F
<1>10. CASE Emit \/ EmissionFails
  <2>1. /\ pc = "emit" /\ pc' = "done" /\ proof' = NoProof
        /\ \E e \in invariant : \E r \in Query(model, Sat(e), proof.ob, F) :
             spent' = [spent EXCEPT !.queries = @ + proof.used + r.cost]
    BY <1>10 DEF Emit, EmissionFails, Finish, F
  <2>2. PICK e \in invariant : \E r \in Query(model, Sat(e), proof.ob, F) :
          spent' = [spent EXCEPT !.queries = @ + proof.used + r.cost]
    BY <2>1
  <2>3. PICK r \in Query(model, Sat(e), proof.ob, F) :
          spent' = [spent EXCEPT !.queries = @ + proof.used + r.cost]
    BY <2>2
  <2>4. r.cost = 0 \/ (r.cost = 1 /\ u < F)
    BY <1>0, QueryAnswers
  <2>7. u + r.cost \in Nat /\ q + u + r.cost = q + (u + r.cost)
    BY <1>0, <2>4
  <2>8. spent' = [spent EXCEPT !.queries = @ + (u + r.cost)]
    BY <1>0, <2>3, <2>7
  <2>5. spent' \in [rounds : Nat, calls : Nat, queries : Nat] /\ q' = q + u + r.cost
    BY <1>0, <2>7, <2>8, SpentInProof
  <2>6. q <= generationQueries /\ u <= F
    BY <2>1 DEF BudgetInv, F
  <2> QED
    BY <1>0, <1>1, <2>1, <2>4, <2>5, <2>6 DEF BudgetInv
<1>11. CASE UNCHANGED vars
  BY <1>1, <1>11 DEF BudgetInv, vars, F
<1> QED
  BY <1>2, <1>3, <1>4, <1>5, <1>6, <1>7, <1>8, <1>9, <1>10, <1>11, <1>12 DEF Next

(* All rounds and the final proof together make at most maxSolverQueries   *)
(* queries: combine deducts what was used, and the reserve is not touched. *)
THEOREM BudgetIsKept == Spec => []QueriesWithinBudget
<1>1. BudgetInv => QueriesWithinBudget
  BY DEF BudgetInv, QueriesWithinBudget
<1> QED
  BY <1>1, InitProofInv, NextProofInv, InitBudgetInv, NextBudgetInv, PTL DEF Spec

-----------------------------------------------------------------------------
(* The candidates of a round, and what becomes of them.                    *)

(* Candidates and their sizes. *)
LEMMA SizeIs == ASSUME NEW e \in Candidate PROVE expressionSize(e) \in Nat \ {0}
<1>1. e.left \in Clause /\ e.right \in Clause BY DEF Candidate
<1>2. Size[e.left] \in Nat \ {0} /\ Size[e.right] \in Nat \ {0} BY <1>1, ClauseAssumption
<1> QED BY <1>2 DEF expressionSize

LEMMA RelevantIs ==
  ASSUME NEW m, NEW e \in Candidate
  PROVE  Relevant(m, e) \in Seq(Candidate)
BY DEF Relevant

(* What combineInvariantClauses makes and keeps are candidates. *)
LEMMA MadeOf ==
  ASSUME NEW c \in Clause, NEW d \in Clause
  PROVE  Atom(c) \in Candidate /\ And(c, d) \in Candidate /\ Or(c, d) \in Candidate
BY DEF Atom, And, Or, Candidate

LEMMA KeptIs ==
  ASSUME NEW m, NEW cs \in Seq(Clause)
  PROVE  Kept(m, cs) \in Seq(Candidate)
<1> DEFINE P(i, j) == Relevant(m, And(cs[i], cs[i + j])) \o Relevant(m, Or(cs[i], cs[i + j]))
           pair(i) == [j \in 1 .. (Len(cs) - i) |-> P(i, j)]
           atoms == [i \in DOMAIN cs |-> Relevant(m, Atom(cs[i]))]
           pairs == [i \in DOMAIN cs |-> FlattenSeq(pair(i))]
           made == Combinations(m, cs)
<1>1. Len(cs) \in Nat /\ DOMAIN cs = 1 .. Len(cs) /\ \A i \in 1 .. Len(cs) : cs[i] \in Clause
  OBVIOUS
<1>2. FlattenSeq(atoms) \in Seq(Candidate)
  <2>1. \A i \in 1 .. Len(cs) : atoms[i] \in Seq(Candidate) BY <1>1, MadeOf, RelevantIs
  <2>2. atoms = [i \in 1 .. Len(cs) |-> atoms[i]] BY <1>1
  <2> HIDE DEF atoms
  <2>3. atoms \in Seq(Seq(Candidate)) BY <1>1, <2>1, <2>2, FunctionInSeq
  <2> QED BY <2>3, FlattenInSeq
<1>3. ASSUME NEW i \in 1 .. Len(cs) PROVE FlattenSeq(pair(i)) \in Seq(Candidate)
  <2> DEFINE n == Len(cs) - i
             f == pair(i)
  <2>1. n \in Nat BY <1>1
  <2>2. ASSUME NEW j \in 1 .. n PROVE f[j] \in Seq(Candidate)
    <3>1. i + j \in 1 .. Len(cs) BY <1>1
    <3>2. cs[i] \in Clause /\ cs[i + j] \in Clause BY <1>1, <3>1
    <3>3. /\ Relevant(m, And(cs[i], cs[i + j])) \in Seq(Candidate)
          /\ Relevant(m, Or(cs[i], cs[i + j])) \in Seq(Candidate)
      BY <3>2, MadeOf, RelevantIs
    <3>4. P(i, j) \in Seq(Candidate) BY <3>3
    <3>5. f[j] = P(i, j) OBVIOUS
    <3> QED BY <3>4, <3>5
  <2>3. f = [j \in 1 .. n |-> f[j]] OBVIOUS
  <2> HIDE DEF f, n
  <2>4. f \in Seq(Seq(Candidate)) BY <2>1, <2>2, <2>3, FunctionInSeq
  <2>5. FlattenSeq(f) \in Seq(Candidate) BY <2>4, FlattenInSeq
  <2> QED BY <2>5 DEF f
<1>4. FlattenSeq(pairs) \in Seq(Candidate)
  <2>1. \A i \in 1 .. Len(cs) : pairs[i] \in Seq(Candidate) BY <1>1, <1>3
  <2>2. pairs = [i \in 1 .. Len(cs) |-> pairs[i]] BY <1>1
  <2> HIDE DEF pairs
  <2>3. pairs \in Seq(Seq(Candidate)) BY <1>1, <2>1, <2>2, FunctionInSeq
  <2> QED BY <2>3, FlattenInSeq
<1>5. made = FlattenSeq(atoms) \o FlattenSeq(pairs) BY DEF Combinations
<1> HIDE DEF atoms, pairs, made
<1>6. made \in Seq(Candidate) BY <1>2, <1>4, <1>5
<1> DEFINE n == IF Len(made) < maxCandidateExpressions THEN Len(made) ELSE maxCandidateExpressions
<1>7. n \in Nat /\ n <= Len(made) BY <1>6, LimitsAssumption
<1>8. Kept(m, cs) = SubSeq(made, 1, n) BY DEF Kept, made
<1> HIDE DEF n
<1>9. SubSeq(made, 1, n) \in Seq(Candidate) BY <1>6, <1>7
<1> QED BY <1>8, <1>9

(* s is sorted by size. *)
Sorted(s) == \A i, j \in DOMAIN s : i <= j => expressionSize(s[i]) <= expressionSize(s[j])

(* The candidates of a round are sorted by size. *)
LEMMA BySizeSorts ==
  ASSUME NEW kept \in Seq(Candidate)
  PROVE  BySize(kept) \in Seq(Candidate) /\ Sorted(BySize(kept))
<1> DEFINE key == [i \in DOMAIN kept |-> expressionSize(kept[i])]
           sizes == {expressionSize(kept[i]) : i \in DOMAIN kept}
           top == IF sizes = {} THEN 0 ELSE Max(sizes)
           one(n) == [i \in DOMAIN kept |-> IF expressionSize(kept[i]) = n THEN <<kept[i]>> ELSE <<>>]
           ss == [n \in 1 .. top |-> FlattenSeq(one(n))]
           f == BySize(kept)
<1>1. /\ Len(kept) \in Nat /\ DOMAIN kept = 1 .. Len(kept)
      /\ \A i \in 1 .. Len(kept) : kept[i] \in Candidate
  OBVIOUS
<1>2. \A i \in 1 .. Len(kept) : expressionSize(kept[i]) \in Nat BY <1>1, SizeIs
<1>3. top \in Nat
  <2> SUFFICES ASSUME sizes # {} PROVE Max(sizes) \in Nat OBVIOUS
  <2>1. key \in Seq(Nat) /\ DOMAIN key = 1 .. Len(kept)
        /\ \A i \in 1 .. Len(kept) : key[i] = expressionSize(kept[i])
    <3>1. key = [i \in 1 .. Len(kept) |-> key[i]] BY <1>1
    <3>2. \A i \in 1 .. Len(kept) : key[i] \in Nat BY <1>1, <1>2
    <3>3. \A i \in 1 .. Len(kept) : key[i] = expressionSize(kept[i]) BY <1>1
    <3> HIDE DEF key
    <3> QED BY <1>1, <3>1, <3>2, <3>3, FunctionInSeq
  <2> HIDE DEF key
  <2>2. key # <<>> BY <1>1, <2>1
  <2>3. PICK i \in DOMAIN key : \A j \in DOMAIN key : key[j] <= key[i]
    BY <2>1, <2>2, GreatestMember
  <2>4. sizes \subseteq Nat BY <1>1, <1>2
  <2>5. key[i] \in sizes /\ \A y \in sizes : key[i] >= y BY <1>1, <2>1, <2>3
  <2> HIDE DEF sizes
  <2>6. Max(sizes) \in sizes BY <2>5 DEF Max
  <2> QED BY <2>4, <2>6
<1>4. ASSUME NEW n \in 1 .. top
      PROVE  /\ ss[n] \in Seq(Candidate)
             /\ \A p \in DOMAIN ss[n] : expressionSize(ss[n][p]) = n
  <2> DEFINE o == one(n)
             C == {e \in Candidate : expressionSize(e) = n}
  <2>1. ASSUME NEW i \in 1 .. Len(kept) PROVE o[i] \in Seq(C)
    <3>1. kept[i] \in Candidate BY <1>1
    <3>2. CASE expressionSize(kept[i]) = n
      <4>1. kept[i] \in C /\ o[i] = <<kept[i]>> BY <1>1, <3>1, <3>2
      <4> HIDE DEF C, o
      <4> QED BY <4>1
    <3>3. CASE expressionSize(kept[i]) # n
      <4>1. o[i] = <<>> BY <1>1, <3>3
      <4> HIDE DEF C, o
      <4> QED BY <4>1
    <3> QED BY <3>2, <3>3
  <2>2. o = [i \in 1 .. Len(kept) |-> o[i]] BY <1>1
  <2>3. ss[n] = FlattenSeq(o) OBVIOUS
  <2> HIDE DEF o, C
  <2>4. o \in Seq(Seq(C)) BY <1>1, <2>1, <2>2, FunctionInSeq
  <2>5. FlattenSeq(o) \in Seq(C) BY <2>4, FlattenInSeq
  <2> HIDE DEF ss
  <2>6. ss[n] \in Seq(C) BY <2>3, <2>5
  <2> QED BY <2>6 DEF C
<1>5. f = FlattenSeq(ss) BY DEF BySize
<1>6. ss = [n \in 1 .. top |-> ss[n]] /\ DOMAIN ss = 1 .. top OBVIOUS
<1> HIDE DEF ss, f, top
<1>7. ss \in Seq(Seq(Candidate)) BY <1>3, <1>4, <1>6, FunctionInSeq
<1>8. f \in Seq(Candidate) BY <1>5, <1>7, FlattenInSeq
<1>9. ASSUME NEW i \in DOMAIN f, NEW j \in DOMAIN f, i <= j
      PROVE  expressionSize(f[i]) <= expressionSize(f[j])
  <2>1. IsSeq(ss) /\ \A k \in DOMAIN ss : IsSeq(ss[k]) BY <1>4, <1>6, <1>7, SeqIs
  <2>2. PICK k, l \in DOMAIN ss : /\ k <= l
                                  /\ \E p \in DOMAIN ss[k] : f[i] = ss[k][p]
                                  /\ \E p \in DOMAIN ss[l] : f[j] = ss[l][p]
    BY <1>5, <1>9, <2>1, FlattenInOrder
  <2>3. expressionSize(f[i]) = k /\ expressionSize(f[j]) = l BY <1>4, <1>6, <2>2
  <2> QED BY <2>2, <2>3
<1>10. Sorted(f) BY <1>9 DEF Sorted
<1> QED BY <1>8, <1>10 DEF f

LEMMA WithNewIs ==
  ASSUME NEW cs \in Seq(Clause), NEW more \in Seq(Clause)
  PROVE  WithNew(cs, more) \in Seq(Clause)
<1> DEFINE old(i) == ToSet(cs) \cup {more[j] : j \in 1 .. (i - 1)}
           f == [i \in DOMAIN more |-> IF more[i] \in old(i) THEN <<>> ELSE <<more[i]>>]
<1>1. Len(more) \in Nat /\ DOMAIN more = 1 .. Len(more) /\ \A i \in 1 .. Len(more) : more[i] \in Clause
  OBVIOUS
<1> HIDE DEF old
<1>2. \A i \in 1 .. Len(more) : f[i] \in Seq(Clause) BY <1>1
<1>3. f = [i \in 1 .. Len(more) |-> f[i]] BY <1>1
<1>4. WithNew(cs, more) = cs \o FlattenSeq(f) BY DEF WithNew, old
<1> HIDE DEF f
<1>5. f \in Seq(Seq(Clause)) BY <1>1, <1>2, <1>3, FunctionInSeq
<1>6. FlattenSeq(f) \in Seq(Clause) BY <1>5, FlattenInSeq
<1> QED BY <1>4, <1>6

(* An inductive invariant fails no obligation.                             *)
LEMMA ObligationsNeeded ==
  ASSUME NEW m \in Models, NEW I \in SUBSET State, Inductive(m, I), NEW o \in Obligations(m)
  PROVE  Refuting(m, I, o) = {}
<1>1. /\ m.precondition \subseteq I /\ I \subseteq m.conditionDefined
      /\ \A b \in DOMAIN m.branches : \A x \in I \cap Enters(m) :
           /\ x \notin Stuck(m.branches[b])
           /\ x \in m.branches[b].guard => m.branches[b].next[x] \in I
      /\ \A p \in m.postcondition : I \ m.condition \subseteq p
  BY DEF Inductive
<1>2. CASE o = Initiation BY <1>1, <1>2 DEF Refuting, Initiation
<1>3. CASE o = ConditionSafety BY <1>1, <1>3 DEF Refuting, ConditionSafety
<1>4. CASE o = ExitPost BY <1>1, <1>4 DEF Refuting, ExitPost
<1>5. ASSUME NEW b \in DOMAIN m.branches, o = BranchSafety(b) PROVE Refuting(m, I, o) = {}
  <2>1. I \cap m.condition \subseteq I \cap Enters(m) BY <1>1 DEF Enters
  <2> QED BY <1>1, <1>5, <2>1 DEF Refuting, BranchSafety
<1>6. ASSUME NEW b \in DOMAIN m.branches, o = Consecution(b) PROVE Refuting(m, I, o) = {}
  BY <1>1, <1>6 DEF Refuting, Consecution
<1> QED BY <1>2, <1>3, <1>4, <1>5, <1>6 DEF Obligations

(* What repairsCounterexample dismisses is not inductive: the state, which *)
(* refuted another candidate, refutes this one too.                        *)
LEMMA DismissedAreNot ==
  ASSUME NEW m \in Models, NEW I \in SUBSET State, NEW J, NEW o \in Obligations(m), NEW cex,
         cex \subseteq Refuting(m, J, o),
         ~repairsCounterexample(m, I, [ob |-> o, cex |-> cex])
  PROVE  ~Inductive(m, I)
<1> DEFINE f == [ob |-> o, cex |-> cex]
<1>1. f.ob = o /\ f.cex = cex OBVIOUS
<1> HIDE DEF f
<1>2. ~m.machine /\ \E x \in cex :
        CASE o.kind = "Initiation"  -> x \notin I
          [] o.kind = "Consecution" -> x \in I /\ m.branches[o.branch].next[x] \notin I
          [] OTHER -> x \in I
  BY <1>1 DEF repairsCounterexample, f
<1>3. PICK x \in cex :
        CASE o.kind = "Initiation"  -> x \notin I
          [] o.kind = "Consecution" -> x \in I /\ m.branches[o.branch].next[x] \notin I
          [] OTHER -> x \in I
  BY <1>2
<1>4. x \in Refuting(m, J, o) OBVIOUS
<1>5. m.conditionDefined = State BY <1>2, ModelTypes DEF WellFormed
<1> SUFFICES x \in Refuting(m, I, o) BY ObligationsNeeded
<1>6. CASE o = Initiation BY <1>3, <1>4, <1>6 DEF Refuting, Initiation
<1>7. CASE o = ConditionSafety BY <1>3, <1>4, <1>7 DEF Refuting, ConditionSafety
<1>8. CASE o = ExitPost BY <1>3, <1>4, <1>8 DEF Refuting, ExitPost
<1>9. ASSUME NEW b \in DOMAIN m.branches, o = BranchSafety(b) PROVE x \in Refuting(m, I, o)
  BY <1>3, <1>4, <1>9 DEF Refuting, BranchSafety
<1>10. ASSUME NEW b \in DOMAIN m.branches, o = Consecution(b) PROVE x \in Refuting(m, I, o)
  BY <1>3, <1>4, <1>10 DEF Refuting, Consecution
<1> QED BY <1>6, <1>7, <1>8, <1>9, <1>10 DEF Obligations

(* f is a failure of a candidate of cands.                                 *)
Shown(m, cands, f) ==
  /\ f = [ob |-> f.ob, cex |-> f.cex] /\ f.ob \in Obligations(m)
  /\ \E i \in DOMAIN cands : /\ Refuting(m, Sat(cands[i]), f.ob) # {}
                             /\ f.cex \subseteq Refuting(m, Sat(cands[i]), f.ob)

(* The candidate i of the round r needs no more attention.                *)
Settled(m, r, i) == Inductive(m, Sat(r.cands[i])) => r.unknown \/ r.unsupported

(* The candidates of a round are sorted; those it is past are not          *)
(* inductive, or the solver was at a loss; its failures are true.          *)
RoundIs(m, r) ==
  /\ r = [cands |-> r.cands, k |-> r.k, failures |-> r.failures, last |-> r.last,
          unknown |-> r.unknown, unsupported |-> r.unsupported]
  /\ r.cands \in Seq(Candidate) /\ Sorted(r.cands)
  /\ r.k \in Nat \ {0}
  /\ \A i \in DOMAIN r.cands : i < r.k => Settled(m, r, i)
  /\ \A f \in r.failures \cup r.last : Shown(m, r.cands, f)

(* The second inductive invariant: what is true of a round, and what is    *)
(* said of it after it.                                                    *)
RoundInv ==
  /\ clauses \in Seq(Clause)
  /\ RoundIs(model, round)
  /\ pc = "extract" => round = NoRound /\ feedback = {}
  /\ pc = "verify" => round.k \in DOMAIN round.cands
  /\ pc = "generate" => \A f \in feedback : Shown(model, round.cands, f)
  /\ pc # "done" => outcome = <<"none", "none">>
  /\ pc \notin {"emit", "done"} => invariant = {}
  /\ RoundExhaustive /\ SimplestFound

LEMMA NoRoundIs == ASSUME NEW m PROVE RoundIs(m, NoRound)
<1>1. /\ NoRound.cands = <<>> /\ NoRound.k = 1 /\ NoRound.failures = {} /\ NoRound.last = {}
      /\ NoRound = [cands |-> NoRound.cands, k |-> NoRound.k, failures |-> NoRound.failures,
                    last |-> NoRound.last, unknown |-> NoRound.unknown,
                    unsupported |-> NoRound.unsupported]
  BY DEF NoRound
<1> QED BY <1>1 DEF RoundIs, Sorted

LEMMA InitRoundInv == Init => RoundInv
<1> SUFFICES ASSUME Init PROVE RoundInv OBVIOUS
<1>1. /\ clauses = <<>> /\ round = NoRound /\ pc = "extract" /\ feedback = {} /\ invariant = {}
      /\ outcome = <<"none", "none">>
  BY DEF Init
<1>2. RoundIs(model, round) BY <1>1, NoRoundIs
<1>3. outcome # <<"synthesis", "NoInvariant">> BY <1>1
<1> QED BY <1>1, <1>2, <1>3 DEF RoundInv, RoundExhaustive, SimplestFound

(* A candidate is dismissed without a proof.                              *)
LEMMA FilterKeeps == ProofInv /\ RoundInv /\ Filter => RoundInv'
<1> SUFFICES ASSUME ProofInv, RoundInv, Filter PROVE RoundInv' OBVIOUS
<1>1. /\ pc = "candidate" /\ pc' = pc /\ round.k \in DOMAIN round.cands
      /\ round' = [round EXCEPT !.k = @ + 1] /\ ~RepairsAll(candidate)
      /\ UNCHANGED <<model, clauses, invariant, feedback, outcome>>
  BY DEF Filter
<1>2. RoundIs(model, round) /\ model \in Models BY DEF RoundInv, ProofInv
<1>3. PICK f \in round.failures : ~repairsCounterexample(model, Sat(candidate), f)
  BY <1>1 DEF RepairsAll
<1>4. Shown(model, round.cands, f) BY <1>2, <1>3 DEF RoundIs
<1>5. ~Inductive(model, Sat(candidate))
  <2>1. PICK i \in DOMAIN round.cands : f.cex \subseteq Refuting(model, Sat(round.cands[i]), f.ob)
    BY <1>4 DEF Shown
  <2>2. f = [ob |-> f.ob, cex |-> f.cex] /\ f.ob \in Obligations(model) BY <1>4 DEF Shown
  <2>3. Sat(candidate) \in SUBSET State BY SatInState
  <2>4. ~repairsCounterexample(model, Sat(candidate), [ob |-> f.ob, cex |-> f.cex]) BY <1>3, <2>2
  <2> QED BY <1>2, <2>1, <2>2, <2>3, <2>4, DismissedAreNot
<1>6. /\ round'.cands = round.cands /\ round'.k = round.k + 1
      /\ round'.failures = round.failures /\ round'.last = round.last
      /\ round'.unknown = round.unknown /\ round'.unsupported = round.unsupported
      /\ round' = [cands |-> round'.cands, k |-> round'.k, failures |-> round'.failures,
                   last |-> round'.last, unknown |-> round'.unknown,
                   unsupported |-> round'.unsupported]
  BY <1>1, <1>2 DEF RoundIs
<1>7. ASSUME NEW i \in DOMAIN round.cands, i < round.k + 1 PROVE Settled(model, round', i)
  <2>1. i \in Nat /\ round.k \in Nat BY <1>2 DEF RoundIs
  <2>2. CASE i = round.k BY <1>5, <1>6, <2>2 DEF Settled, candidate
  <2>3. CASE i < round.k
    <3>1. Settled(model, round, i) BY <1>2, <2>3 DEF RoundIs
    <3> QED BY <1>6, <3>1 DEF Settled
  <2> QED BY <1>7, <2>1, <2>2, <2>3
<1>8. round.k + 1 \in Nat \ {0} BY <1>2 DEF RoundIs
<1>9. RoundIs(model, round') BY <1>2, <1>6, <1>7, <1>8 DEF RoundIs
<1> QED BY <1>1, <1>9 DEF RoundInv, RoundExhaustive, SimplestFound

(* A query has not proved its obligation.                                 *)
LEMMA RejectKeeps == ProofInv /\ RoundInv /\ Reject => RoundInv'
<1> SUFFICES ASSUME ProofInv, RoundInv, Reject PROVE RoundInv' OBVIOUS
<1>1. /\ pc = "verify" /\ pc' = "candidate"
      /\ UNCHANGED <<model, clauses, invariant, feedback, outcome>>
  BY DEF Reject
<1>2. PICK r \in Query(model, Sat(candidate), proof.ob, roundQueries) :
        LET failure == [ob |-> proof.ob, cex |-> r.cex] IN
        /\ r.status \in {"Refuted", "Unknown", "Unsupported"}
        /\ round' = [round EXCEPT
             !.k = @ + 1,
             !.failures = IF r.status = "Refuted" THEN @ \cup {failure} ELSE @,
             !.last = IF r.status = "Refuted" THEN {failure} ELSE @,
             !.unknown = @ \/ r.status = "Unknown",
             !.unsupported = @ \/ r.status = "Unsupported"]
  BY DEF Reject
<1>3. /\ RoundIs(model, round) /\ model \in Models /\ round.k \in DOMAIN round.cands
      /\ proof.ob \in Obligations(model)
  BY <1>1 DEF RoundInv, ProofInv, Required
<1> DEFINE failure == [ob |-> proof.ob, cex |-> r.cex]
           lost == r.status = "Unknown" \/ r.status = "Unsupported"
<1>4. /\ round'.cands = round.cands /\ round'.k = round.k + 1
      /\ round'.failures \subseteq round.failures \cup (IF r.status = "Refuted" THEN {failure} ELSE {})
      /\ round'.last \subseteq round.last \cup (IF r.status = "Refuted" THEN {failure} ELSE {})
      /\ (round.unknown \/ r.status = "Unknown") => round'.unknown
      /\ (round.unsupported \/ r.status = "Unsupported") => round'.unsupported
      /\ round' = [cands |-> round'.cands, k |-> round'.k, failures |-> round'.failures,
                   last |-> round'.last, unknown |-> round'.unknown,
                   unsupported |-> round'.unsupported]
  <2>1. round = [cands |-> round.cands, k |-> round.k, failures |-> round.failures, last |-> round.last,
                 unknown |-> round.unknown, unsupported |-> round.unsupported]
    BY <1>3 DEF RoundIs
  <2>2. round' = [cands |-> round.cands, k |-> round.k + 1,
                  failures |-> IF r.status = "Refuted" THEN round.failures \cup {failure} ELSE round.failures,
                  last |-> IF r.status = "Refuted" THEN {failure} ELSE round.last,
                  unknown |-> round.unknown \/ r.status = "Unknown",
                  unsupported |-> round.unsupported \/ r.status = "Unsupported"]
    BY <1>2, <2>1, Zenon
  <2> HIDE DEF failure
  <2> QED BY <2>2
<1>5. r.status = "Refuted" => Shown(model, round.cands, failure)
  <2> SUFFICES ASSUME r.status = "Refuted" PROVE Shown(model, round.cands, failure) OBVIOUS
  <2>1. /\ Refuting(model, Sat(candidate), proof.ob) # {}
        /\ r.cex \subseteq Refuting(model, Sat(candidate), proof.ob)
    BY QueryAnswers
  <2>2. failure.ob = proof.ob /\ failure.cex = r.cex /\ failure = [ob |-> failure.ob, cex |-> failure.cex]
    OBVIOUS
  <2> HIDE DEF failure
  <2> QED BY <1>3, <2>1, <2>2 DEF Shown, candidate
<1>6. Inductive(model, Sat(candidate)) => lost
  <2> SUFFICES ASSUME Inductive(model, Sat(candidate)), r.status = "Refuted" PROVE FALSE
    BY <1>2
  <2>1. Refuting(model, Sat(candidate), proof.ob) # {} BY QueryAnswers
  <2> QED BY <1>3, <2>1, ObligationsNeeded, SatInState
<1> HIDE DEF failure
<1>7. ASSUME NEW i \in DOMAIN round.cands, i < round.k + 1 PROVE Settled(model, round', i)
  <2>1. i \in Nat /\ round.k \in Nat BY <1>3 DEF RoundIs
  <2>2. CASE i = round.k BY <1>4, <1>6, <2>2 DEF Settled, candidate
  <2>3. CASE i < round.k
    <3>1. Inductive(model, Sat(round.cands[i])) => round.unknown \/ round.unsupported
      BY <1>3, <2>3 DEF RoundIs, Settled
    <3>2. /\ round'.cands[i] = round.cands[i]
          /\ round.unknown => round'.unknown
          /\ round.unsupported => round'.unsupported
      BY <1>4
    <3> QED BY <3>1, <3>2, Zenon DEF Settled
  <2> QED BY <1>7, <2>1, <2>2, <2>3
<1>8. \A f \in round'.failures \cup round'.last : Shown(model, round.cands, f)
  <2>1. \A f \in round.failures \cup round.last : Shown(model, round.cands, f) BY <1>3 DEF RoundIs
  <2> QED BY <1>4, <1>5, <2>1
<1>9. RoundIs(model, round')
  <2>1. round.k + 1 \in Nat \ {0} BY <1>3 DEF RoundIs
  <2> QED BY <1>3, <1>4, <1>7, <1>8, <2>1 DEF RoundIs
<1> QED BY <1>1, <1>9 DEF RoundInv, RoundExhaustive, SimplestFound

(* Those that are smaller came before.                                    *)
LEMMA FoundKeeps == ProofInv /\ RoundInv /\ Found => RoundInv'
<1> SUFFICES ASSUME ProofInv, RoundInv, Found PROVE RoundInv' OBVIOUS
<1>1. /\ pc = "verify" /\ pc' = "emit" /\ invariant' = {candidate}
      /\ UNCHANGED <<model, clauses, round, outcome>>
  BY DEF Found
<1>2. RoundIs(model, round) /\ round.k \in DOMAIN round.cands BY <1>1 DEF RoundInv
<1>3. ASSUME ~round.unknown, ~round.unsupported, NEW i \in DOMAIN round.cands,
             expressionSize(round.cands[i]) < expressionSize(candidate)
      PROVE  ~Inductive(model, Sat(round.cands[i]))
  <2>1. /\ round.cands[i] \in Candidate /\ candidate \in Candidate
        /\ i \in Nat /\ round.k \in Nat
    BY <1>2 DEF RoundIs, candidate
  <2>2. expressionSize(round.cands[i]) \in Nat /\ expressionSize(candidate) \in Nat BY <2>1, SizeIs
  <2>3. round.k <= i => expressionSize(candidate) <= expressionSize(round.cands[i])
    BY <1>2 DEF RoundIs, Sorted, candidate
  <2>4. ~(round.k <= i) BY <1>3, <2>2, <2>3
  <2>5. i < round.k BY <2>1, <2>4
  <2>6. Settled(model, round, i) BY <1>2, <2>5 DEF RoundIs
  <2> QED BY <1>3, <2>6 DEF Settled
<1>4. SimplestFound'
  <2>1. ASSUME NEW e \in invariant', ~round.unknown /\ ~round.unsupported,
               NEW d \in ToSet(round.cands), expressionSize(d) < expressionSize(e)
        PROVE  ~Inductive(model, Sat(d))
    <3>1. PICK i \in DOMAIN round.cands : d = round.cands[i] BY DEF ToSet
    <3> QED BY <1>1, <1>3, <2>1, <3>1
  <2> QED BY <1>1, <2>1 DEF SimplestFound
<1>5. RoundExhaustive' BY <1>1 DEF RoundInv, RoundExhaustive
<1> QED BY <1>1, <1>4, <1>5 DEF RoundInv

LEMMA EndRoundKeeps == ProofInv /\ RoundInv /\ EndRound => RoundInv'
<1> SUFFICES ASSUME ProofInv, RoundInv, EndRound PROVE RoundInv' OBVIOUS
<1>1. /\ pc = "candidate" /\ round.k \notin DOMAIN round.cands
      /\ feedback' = round.last
      /\ UNCHANGED <<model, clauses, round, invariant>>
      /\ invariant = {} /\ RoundIs(model, round) /\ outcome = <<"none", "none">>
  BY DEF EndRound, RoundInv
<1>2. \/ pc' = "done" /\ outcome' \in {<<"synthesis", "Unknown">>, <<"synthesis", "Unsupported">>}
      \/ pc' = "generate" /\ outcome' = outcome /\ ~round.unknown /\ ~round.unsupported
  BY DEF EndRound, Finish
<1>3. \A f \in feedback' : Shown(model, round.cands, f) BY <1>1 DEF RoundIs
<1>4. ASSUME ~round.unknown, ~round.unsupported, NEW e \in ToSet(round.cands)
      PROVE  ~Inductive(model, Sat(e))
  <2>1. PICK i \in DOMAIN round.cands : e = round.cands[i] BY DEF ToSet
  <2>2. /\ DOMAIN round.cands = 1 .. Len(round.cands) /\ Len(round.cands) \in Nat
        /\ round.k \in Nat \ {0}
    BY <1>1 DEF RoundIs
  <2>3. i < round.k BY <1>1, <2>2
  <2>4. Settled(model, round, i) BY <1>1, <2>3 DEF RoundIs
  <2> QED BY <1>4, <2>1, <2>4 DEF Settled
<1>5. RoundExhaustive' BY <1>1, <1>2, <1>4 DEF RoundExhaustive
<1> QED BY <1>1, <1>2, <1>3, <1>5 DEF RoundInv, SimplestFound

LEMMA NextRoundInv == ProofInv /\ RoundInv /\ [Next]_vars => RoundInv'
<1> SUFFICES ASSUME ProofInv, RoundInv, [Next]_vars PROVE RoundInv' OBVIOUS
<1>1. CASE ExtractionFails \/ BudgetRejected \/ CombineExhausted \/ GenerateExhausted \/ ProviderFails
  <2>1. /\ UNCHANGED <<model, clauses, round, invariant>> /\ pc' = "done" /\ invariant = {}
        /\ outcome' # <<"synthesis", "NoInvariant">>
    BY <1>1 DEF ExtractionFails, BudgetRejected, CombineExhausted, GenerateExhausted,
       ProviderFails, Finish, RoundInv
  <2> QED BY <2>1 DEF RoundInv, RoundExhaustive, SimplestFound
<1>2. CASE Extract
  <2>1. /\ pc = "extract" /\ UNCHANGED <<model, round, invariant, feedback>>
        /\ round = NoRound /\ feedback = {} /\ invariant = {} /\ outcome = <<"none", "none">>
        /\ pc' = "done" \/ (pc' \in {"generate", "combine"} /\ outcome' = outcome)
        /\ RoundIs(model, round)
    BY <1>2 DEF Extract, RoundInv, Finish
  <2>2. clauses' \in Seq(Clause)
    <3>1. PICK given \in InitialClauses : clauses' = WithNew(<<>>, given) BY <1>2 DEF Extract
    <3>2. given \in Seq(Clause) /\ <<>> \in Seq(Clause) BY ClauseAssumption
    <3> QED BY <3>1, <3>2, WithNewIs
  <2>3. ToSet(round.cands) = {} BY <2>1 DEF NoRound, ToSet
  <2> QED BY <2>1, <2>2, <2>3 DEF RoundInv, RoundExhaustive, SimplestFound
<1>3. CASE Combine
  <2>1. /\ pc = "combine" /\ pc' = "candidate" /\ UNCHANGED <<model, clauses, invariant, outcome>>
        /\ invariant = {} /\ outcome = <<"none", "none">> /\ clauses \in Seq(Clause)
    BY <1>3 DEF Combine, RoundInv
  <2>2. round' = [NoRound EXCEPT !.cands = BySize(Kept(model, clauses))] BY <1>3 DEF Combine
  <2>3. BySize(Kept(model, clauses)) \in Seq(Candidate) /\ Sorted(BySize(Kept(model, clauses)))
    BY <2>1, KeptIs, BySizeSorts
  <2>4. RoundIs(model, round')
    <3> DEFINE s == BySize(Kept(model, clauses))
    <3> HIDE DEF s
    <3>1. round' = [NoRound EXCEPT !.cands = s] /\ s \in Seq(Candidate) /\ Sorted(s)
      BY <2>2, <2>3 DEF s
    <3>2. /\ round'.cands = s /\ round'.k = 1 /\ round'.failures = {} /\ round'.last = {}
          /\ round' = [cands |-> round'.cands, k |-> round'.k, failures |-> round'.failures,
                       last |-> round'.last, unknown |-> round'.unknown,
                       unsupported |-> round'.unsupported]
      BY <3>1 DEF NoRound
    <3>3. \A i \in DOMAIN s : ~(i < 1)
      <4>1. DOMAIN s = 1 .. Len(s) /\ Len(s) \in Nat BY <3>1
      <4> QED BY <4>1
    <3> QED BY <3>1, <3>2, <3>3 DEF RoundIs
  <2> QED BY <2>1, <2>4 DEF RoundInv, RoundExhaustive, SimplestFound
<1>4. CASE Attempt \/ Verify
  <2>1. /\ UNCHANGED <<model, clauses, round, invariant, feedback, outcome>> /\ pc' = "verify"
        /\ pc \in {"candidate", "verify"} /\ round.k \in DOMAIN round.cands
    BY <1>4 DEF Attempt, Verify, Discharge, RoundInv
  <2> QED BY <2>1 DEF RoundInv, RoundExhaustive, SimplestFound
<1>5. CASE QueriesExhausted
  <2>1. /\ UNCHANGED <<model, clauses, round, invariant>> /\ pc' = "done" /\ invariant = {}
        /\ outcome' # <<"synthesis", "NoInvariant">>
    BY <1>5 DEF QueriesExhausted, Finish, RoundInv
  <2> QED BY <2>1 DEF RoundInv, RoundExhaustive, SimplestFound
<1>6. CASE Generate
  <2>1. /\ pc = "generate" /\ UNCHANGED <<model, round, invariant>> /\ invariant = {}
        /\ pc' \in {"done", "combine"}
        /\ pc' = "combine" => outcome' = outcome
    BY <1>6 DEF Generate, Finish, RoundInv
  <2>2. clauses' \in Seq(Clause)
    <3>1. PICK answer \in Answers : clauses' \in {clauses, WithNew(clauses, answer)}
      BY <1>6 DEF Generate
    <3>2. answer \in Seq(Clause) /\ clauses \in Seq(Clause) BY ClauseAssumption DEF RoundInv
    <3> QED BY <3>1, <3>2, WithNewIs
  <2> QED BY <2>1, <2>2 DEF RoundInv, RoundExhaustive, SimplestFound
<1>7. CASE Reverify
  <2>1. UNCHANGED <<model, clauses, round, invariant, feedback, outcome, pc>> /\ pc = "emit"
    BY <1>7 DEF Reverify, Discharge
  <2> QED BY <2>1 DEF RoundInv, RoundExhaustive, SimplestFound
<1>8. CASE Emit \/ EmissionFails
  <2>1. /\ UNCHANGED <<model, clauses, round, invariant, feedback>> /\ pc' = "done"
        /\ outcome' # <<"synthesis", "NoInvariant">>
    BY <1>8 DEF Emit, EmissionFails, Finish
  <2> QED BY <2>1 DEF RoundInv, RoundExhaustive, SimplestFound
<1>9. CASE UNCHANGED vars
  BY <1>9 DEF vars, RoundInv, RoundExhaustive, SimplestFound
<1> QED
  BY <1>1, <1>2, <1>3, <1>4, <1>5, <1>6, <1>7, <1>8, <1>9,
     FilterKeeps, RejectKeeps, FoundKeeps, EndRoundKeeps DEF Next

(* The failure that the provider is told of is one of a candidate of the   *)
(* last round, whatever the solver has answered.                           *)
THEOREM FeedbackIsOfTheRound == Spec => []FeedbackIsTrue
<1>1. RoundInv => FeedbackIsTrue
  <2> SUFFICES ASSUME RoundInv, pc = "generate", NEW f \in feedback
               PROVE  \E e \in ToSet(round.cands) :
                        /\ Refuting(model, Sat(e), f.ob) # {}
                        /\ f.cex \subseteq Refuting(model, Sat(e), f.ob)
    BY DEF FeedbackIsTrue
  <2>1. Shown(model, round.cands, f) BY DEF RoundInv
  <2> QED BY <2>1 DEF Shown, ToSet
<1> QED
  BY <1>1, InitProofInv, NextProofInv, InitRoundInv, NextRoundInv, PTL DEF Spec

(* A round that ends with NoInvariant has left out no inductive candidate, *)
(* those dismissed without a proof included, and the one that is found is  *)
(* the smallest, unless the solver was at a loss.                          *)
THEOREM NothingIsOverlooked == Spec => []NothingOverlooked
<1>1. RoundInv => NothingOverlooked
  BY DEF RoundInv, NothingOverlooked
<1> QED
  BY <1>1, InitProofInv, NextProofInv, InitRoundInv, NextRoundInv, PTL DEF Spec

-----------------------------------------------------------------------------
(* The reserve for the final proof.                                        *)

(* For C integers every obligation has its query set aside.                *)
LEMMA ReserveOfMachine ==
  ASSUME NEW m \in Models, m.machine, NEW o \in Required(m)
  PROVE  Position(m, o) <= finalProofQueries(m)
<1>1. Len(m.branches) \in Nat /\ DOMAIN m.branches = 1 .. Len(m.branches) BY ModelTypes
<1>2. PICK n \in Nat : n = Len(m.branches) BY <1>1
<1>3. PICK c \in 0 .. 1 : c = IF m.postcondition # {} THEN 1 ELSE 0 OBVIOUS
<1>4. finalProofQueries(m) = 2 + 2 * n + c BY <1>2, <1>3 DEF finalProofQueries
<1>5. o \in Required(m) /\ o \in Obligations(m) BY DEF Required
<1>6. CASE o = Initiation
  <2>1. Position(m, o) = 1 BY <1>6 DEF Position, Initiation
  <2> QED BY <1>4, <2>1
<1>7. CASE o = ConditionSafety
  <2>1. Position(m, o) = 2 BY <1>7 DEF Position, ConditionSafety
  <2> QED BY <1>4, <2>1
<1>8. CASE o = ExitPost
  <2>1. m.postcondition # {} BY <1>5, <1>8 DEF Required, ExitPost
  <2>2. Position(m, o) = 2 * n + 3 BY <1>2, <1>8 DEF Position, ExitPost
  <2> QED BY <1>3, <1>4, <2>1, <2>2
<1>9. ASSUME NEW b \in 1 .. n, o = BranchSafety(b) \/ o = Consecution(b)
      PROVE  Position(m, o) <= finalProofQueries(m)
  <2>1. Position(m, o) = 2 * b + 1 \/ Position(m, o) = 2 * b + 2
    BY <1>9 DEF Position, BranchSafety, Consecution
  <2> QED BY <1>4, <2>1
<1> QED BY <1>1, <1>2, <1>5, <1>6, <1>7, <1>8, <1>9 DEF Obligations

(* The final proof has made fewer queries than the place of its obligation.*)
ReserveInv ==
  /\ model.machine /\ pc = "emit" => proof.used < Position(model, proof.ob)
  /\ pc # "done" => outcome = <<"none", "none">>
  /\ MachineEmissionFunded

LEMMA NextReserveInv == ProofInv /\ ReserveInv /\ [Next]_vars => ReserveInv'
<1> SUFFICES ASSUME ProofInv, ReserveInv, [Next]_vars PROVE ReserveInv' OBVIOUS
<1>0. /\ model \in Models /\ proof.ob \in Required(model) /\ proof.used \in Nat
      /\ Required(model) \subseteq Obligations(model)
  BY DEF ProofInv, Required
<1>1. CASE \/ ExtractionFails \/ BudgetRejected \/ Extract \/ CombineExhausted \/ Combine
           \/ Filter \/ Attempt \/ Verify \/ Reject \/ QueriesExhausted \/ EndRound
           \/ GenerateExhausted \/ ProviderFails \/ Generate
  <2>1. /\ model' = model /\ pc' # "emit"
        /\ \/ outcome' = outcome /\ pc # "done"
           \/ pc' = "done" /\ outcome' # <<"emission", "BudgetExceeded">>
    <3>1. CASE ExtractionFails \/ BudgetRejected \/ Extract \/ CombineExhausted \/ Combine
      BY <3>1 DEF ExtractionFails, BudgetRejected, Extract, CombineExhausted, Combine, Finish
    <3>2. CASE Filter \/ Attempt \/ Verify \/ Reject
      BY <3>2 DEF Filter, Attempt, Verify, Reject, Discharge
    <3>3. CASE QueriesExhausted \/ EndRound
      BY <3>3 DEF QueriesExhausted, EndRound, Finish
    <3>4. CASE GenerateExhausted \/ ProviderFails \/ Generate
      BY <3>4 DEF GenerateExhausted, ProviderFails, Generate, Finish
    <3> QED BY <1>1, <3>1, <3>2, <3>3, <3>4
  <2>2. outcome' # <<"emission", "BudgetExceeded">> BY <2>1 DEF ReserveInv
  <2> QED BY <2>1, <2>2 DEF ReserveInv, MachineEmissionFunded, EmissionFunded
<1>2. CASE Found
  <2>1. /\ model' = model /\ pc' = "emit" /\ pc = "verify" /\ outcome' = outcome /\ proof' = NoProof
    BY <1>2 DEF Found
  <2>2. Position(model, NoProof.ob) = 1 /\ NoProof.used = 0
    BY DEF NoProof, Position, Initiation
  <2> QED BY <2>1, <2>2 DEF ReserveInv, MachineEmissionFunded, EmissionFunded
<1>3. CASE Reverify
  <2>1. PICK e \in invariant : Discharge(e, finalProofQueries(model)) BY <1>3 DEF Reverify
  <2>2. model' = model /\ pc = "emit" /\ pc' = pc /\ outcome' = outcome
    BY <1>3, <2>1 DEF Reverify, Discharge
  <2>3. PICK r \in Query(model, Sat(e), proof.ob, finalProofQueries(model)) :
          /\ r.status = "Proved"
          /\ \E o \in Later(model, proof.ob) : proof' = [ob |-> o, used |-> proof.used + r.cost]
    BY <2>1 DEF Discharge
  <2>4. r.cost = 1 BY <2>3, QueryAnswers
  <2>5. PICK o \in Later(model, proof.ob) : proof' = [ob |-> o, used |-> proof.used + 1]
    BY <2>3, <2>4
  <2>6. /\ o \in Obligations(model) /\ Position(model, o) > Position(model, proof.ob)
        /\ proof'.ob = o /\ proof'.used = proof.used + 1
    BY <1>0, <2>5 DEF Later
  <2>7. Position(model, o) \in Nat /\ Position(model, proof.ob) \in Nat BY <1>0, <2>6, Positions
  <2>8. model.machine => proof'.used < Position(model, proof'.ob)
    BY <1>0, <2>2, <2>6, <2>7 DEF ReserveInv
  <2> QED BY <2>2, <2>8 DEF ReserveInv, MachineEmissionFunded, EmissionFunded
<1>4. CASE Emit
  <2>1. model' = model /\ pc' = "done" /\ outcome' # <<"emission", "BudgetExceeded">>
    BY <1>4 DEF Emit, Finish
  <2> QED BY <2>1 DEF ReserveInv, MachineEmissionFunded, EmissionFunded
<1>5. CASE EmissionFails
  <2>1. model' = model /\ pc = "emit" /\ pc' = "done" BY <1>5 DEF EmissionFails, Finish
  <2>2. PICK e \in invariant : \E r \in Query(model, Sat(e), proof.ob, finalProofQueries(model)) :
          outcome' = <<"emission", r.status>>
    BY <1>5 DEF EmissionFails, Finish
  <2>3. PICK r \in Query(model, Sat(e), proof.ob, finalProofQueries(model)) :
          outcome' = <<"emission", r.status>>
    BY <2>2
  <2>4. ASSUME model.machine PROVE r.status # "BudgetExceeded"
    <3>1. /\ proof.used < Position(model, proof.ob)
          /\ Position(model, proof.ob) <= finalProofQueries(model)
          /\ Position(model, proof.ob) \in Nat /\ finalProofQueries(model) \in Nat
      BY <1>0, <2>1, <2>4, ReserveOfMachine, Positions, FinalProofNat DEF ReserveInv
    <3>2. ~(proof.used >= finalProofQueries(model)) BY <1>0, <3>1
    <3> QED BY <3>2, QueryAnswers
  <2> QED BY <2>1, <2>3, <2>4 DEF ReserveInv, MachineEmissionFunded, EmissionFunded
<1>6. CASE UNCHANGED vars
  BY <1>6 DEF vars, ReserveInv, MachineEmissionFunded, EmissionFunded
<1> QED BY <1>1, <1>2, <1>3, <1>4, <1>5, <1>6 DEF Next

(* The queries set aside before the provider is called are enough for the  *)
(* proof at the end.                                                       *)
THEOREM ReserveSuffices == Spec => []MachineEmissionFunded
<1>1. Init => ReserveInv
  <2> SUFFICES ASSUME Init PROVE ReserveInv OBVIOUS
  <2>1. pc = "extract" /\ outcome = <<"none", "none">> BY DEF Init
  <2> QED BY <2>1 DEF ReserveInv, MachineEmissionFunded, EmissionFunded
<1>2. ReserveInv => MachineEmissionFunded BY DEF ReserveInv
<1> QED
  BY <1>1, <1>2, InitProofInv, NextProofInv, NextReserveInv, PTL DEF Spec
=============================================================================

-------------------------- MODULE ClauseSynthesis --------------------------
(***************************************************************************)
(* The Clause2Inv pipeline of src/src/Analyzer/NumericalInvariant: atomic  *)
(* clauses come from an untrusted provider (a language model behind an     *)
(* HTTP service), combineInvariantClauses tries them and their pairwise    *)
(* conjunctions and disjunctions against an SMT solver that may time out,  *)
(* and the candidate that is proved is proved once more before it is       *)
(* written as a loop invariant.  Every query draws on one budget.          *)
(*                                                                         *)
(* runClause2InvPrototype is sequential; what is nondeterministic is what  *)
(* the provider and the solver answer.  AnnotatedLoop, which this module   *)
(* implements up to the point where the program runs, says what for.       *)
(***************************************************************************)
EXTENDS TransitionModels, FiniteSets, SequencesExt

CONSTANTS
  Clause,                  \* the atomic clauses that initial clauses and answers draw from
  Holds,                   \* Holds[c]: the states that satisfy the clause c
  Size,                    \* expressionSize of a clause
  Mentions,                \* Mentions[c]: the state variables that occur in c
  InitialClauses,          \* the sequences of clauses a caller passes
  Answers,                 \* the sequences of clauses the provider may return
  requireChangedStateVariable,
  maxRounds, maxProviderCalls,
  maxAtomicClauses, maxCandidateExpressions, maxSolverQueries

ASSUME ClauseAssumption ==
  /\ Holds \in [Clause -> SUBSET State]
  /\ Size \in [Clause -> Nat \ {0}]
  /\ Mentions \in [Clause -> SUBSET Variable]
  /\ InitialClauses \subseteq Seq(Clause)
  /\ Answers \subseteq Seq(Clause)
  /\ requireChangedStateVariable \in BOOLEAN

ASSUME LimitsAssumption ==
  /\ maxRounds \in Nat /\ maxProviderCalls \in Nat
  /\ maxAtomicClauses \in Nat /\ maxCandidateExpressions \in Nat
  /\ maxSolverQueries \in Nat

VARIABLES
  model, annotation,    \* as in AnnotatedLoop
  pc,                   \* what runClause2InvPrototype is about to do
  clauses,              \* the atomic clauses so far
  spent,                \* rounds, provider calls and solver queries so far
  round,                \* combineInvariantClauses: the candidates and what came of them
  proof,                \* verifyWithBudget: the obligation it is at, its QueryBudget.used
  invariant,            \* {}, or {e} once the candidate e is proved
  feedback,             \* {}, or the failure the provider is told of
  outcome               \* the stage that ended the pipeline, and its status

vars == <<model, annotation, pc, clauses, spent, round, proof, invariant, feedback, outcome>>

-----------------------------------------------------------------------------
(* Candidates: a clause, or a pair of clauses under && or ||.              *)

Atom(c)    == [op |-> "atom", left |-> c, right |-> c]
And(c, d)  == [op |-> "and",  left |-> c, right |-> d]
Or(c, d)   == [op |-> "or",   left |-> c, right |-> d]

Candidate == [op : {"atom", "and", "or"}, left : Clause, right : Clause]

(* The states that satisfy e.                                              *)
Sat(e) ==
  {x \in State :
     CASE e.op = "and" -> x \in Holds[e.left] /\ x \in Holds[e.right]
       [] e.op = "or"  -> x \in Holds[e.left] \/ x \in Holds[e.right]
       [] OTHER        -> x \in Holds[e.left]}

expressionSize(e) == IF e.op = "atom" THEN Size[e.left] ELSE 1 + Size[e.left] + Size[e.right]

dependsOnChangedStateVariable(m, e) ==
  \E b \in DOMAIN m.branches :
    (Mentions[e.left] \cup Mentions[e.right]) \cap m.branches[b].assigns # {}

(* addCandidate: one that mentions a variable the loop changes, if that is *)
(* required.                                                               *)
Relevant(m, e) ==
  IF requireChangedStateVariable => dependsOnChangedStateVariable(m, e) THEN <<e>> ELSE <<>>

(* The candidates in the order they are made: the clauses, then for every  *)
(* pair its conjunction and its disjunction.                               *)
Combinations(m, cs) ==
  LET PairsOf(i) ==
        FlattenSeq([j \in 1..(Len(cs) - i) |-> Relevant(m, And(cs[i], cs[i + j]))
                                               \o Relevant(m, Or(cs[i], cs[i + j]))])
  IN  FlattenSeq([i \in DOMAIN cs |-> Relevant(m, Atom(cs[i]))])
        \o FlattenSeq([i \in DOMAIN cs |-> PairsOf(i)])

(* There are no more of them than the limit allows ...                     *)
Kept(m, cs) ==
  LET made == Combinations(m, cs)
  IN  SubSeq(made, 1, IF Len(made) < maxCandidateExpressions
                      THEN Len(made) ELSE maxCandidateExpressions)

(* ... stably sorted by size.                                              *)
BySize(kept) ==
  LET sizes == {expressionSize(kept[i]) : i \in DOMAIN kept}
      OfSize(n) == FlattenSeq([i \in DOMAIN kept |-> IF expressionSize(kept[i]) = n
                                                     THEN <<kept[i]>> ELSE <<>>])
  IN  FlattenSeq([n \in 1..(IF sizes = {} THEN 0 ELSE Max(sizes)) |-> OfSize(n)])

(* Clauses appended one by one unless they are there already.              *)
WithNew(cs, more) ==
  cs \o FlattenSeq([i \in DOMAIN more |->
                     IF more[i] \in ToSet(cs) \cup {more[j] : j \in 1..(i - 1)}
                     THEN <<>> ELSE <<more[i]>>])

-----------------------------------------------------------------------------
(* Obligations of verifyWithBudget.  Branch 0 stands for no branch.        *)

Initiation        == [kind |-> "Initiation", branch |-> 0]
ConditionSafety   == [kind |-> "Condition", branch |-> 0]
BranchSafety(b)   == [kind |-> "Definedness", branch |-> b]
Consecution(b)    == [kind |-> "Consecution", branch |-> b]
ExitPost          == [kind |-> "ExitPost", branch |-> 0]

Obligations(m) ==
  {Initiation, ConditionSafety, ExitPost}
    \cup {BranchSafety(b) : b \in DOMAIN m.branches}
    \cup {Consecution(b) : b \in DOMAIN m.branches}

(* The order in which they are taken up.                                   *)
Position(m, o) ==
  CASE o.kind = "Initiation"  -> 1
    [] o.kind = "Condition"   -> 2
    [] o.kind = "Definedness" -> 2 * o.branch + 1
    [] o.kind = "Consecution" -> 2 * o.branch + 2
    [] OTHER                  -> 2 * Len(m.branches) + 3

(* Mutants: a memory access, or the last branch, is not looked at.         *)
RequiredButAccesses(m) ==
  {o \in Obligations(m) : CASE o.kind = "Condition" -> m.machine
                            [] o.kind = "Definedness" -> m.machine
                            [] o.kind = "ExitPost" -> m.postcondition # {}
                            [] OTHER -> TRUE}
RequiredButLastBranch(m) ==
  {o \in Obligations(m) : CASE o.kind = "Condition" -> m.machine
                            [] o.kind = "ExitPost" -> m.postcondition # {}
                            [] OTHER -> o.branch < Len(m.branches)}

(* Those a query is made for.                                              *)
Required(m) ==
  {o \in Obligations(m) :
     CASE o.kind = "Condition"   -> m.machine
       [] o.kind = "Definedness" -> m.machine \/ m.branches[o.branch].access # {}
       [] o.kind = "ExitPost"    -> m.postcondition # {}
       [] OTHER                  -> TRUE}

Later(m, o) == {p \in Required(m) : Position(m, p) > Position(m, o)}

(* The states that satisfy the query for o: the counterexamples to I.      *)
Refuting(m, I, o) ==
  CASE o.kind = "Initiation"  -> m.precondition \ I
    [] o.kind = "Condition"   -> I \ m.conditionDefined
    [] o.kind = "Definedness" -> I \cap m.condition \cap Stuck(m.branches[o.branch])
    [] o.kind = "Consecution" ->
         LET b == m.branches[o.branch]
         IN  {x \in I \cap Enters(m) \cap b.guardDefined \cap b.guard \cap b.updatesDefined :
                b.next[x] \notin I}
    [] OTHER -> {x \in I \cap m.conditionDefined :
                   x \notin m.condition /\ \E p \in m.postcondition : x \notin p}

Result(status, cex, cost) == [status |-> status, cex |-> cex, cost |-> cost]

(* A mutant: whatever is not unsat is taken for a counterexample.          *)
QueryUnknownRefutes(m, I, o, maximum) ==
  IF proof.used >= maximum
  THEN {Result("BudgetExceeded", {}, 0)}
  ELSE IF Refuting(m, I, o) = {}
       THEN {Result("Proved", {}, 1), Result("Refuted", {}, 1)}
       ELSE {Result("Refuted", {x}, 1) : x \in Refuting(m, I, o)}

(* What the query for o may come to under a QueryBudget of maximum.  The   *)
(* translation of an expression may not be supported; a query may time     *)
(* out or throw; the model of a counterexample may hold a value that does  *)
(* not fit into 64 bits, which leaves the counterexample partial: {}.      *)
Query(m, I, o, maximum) ==
  {Result("Unsupported", {}, 0)} \cup
  (IF proof.used >= maximum
   THEN {Result("BudgetExceeded", {}, 0)}
   ELSE {Result("Unknown", {}, 1), Result("Unsupported", {}, 1)} \cup
        (IF Refuting(m, I, o) = {}
         THEN {Result("Proved", {}, 1)}
         ELSE {Result("Refuted", {}, 1)}
                \cup {Result("Refuted", {x}, 1) : x \in Refuting(m, I, o)}))

(* A mutant: a counterexample to definedness is taken for one to           *)
(* initiation.                                                             *)
repairsSwapped(m, I, failure) ==
  m.machine \/
  \A x \in failure.cex :
    failure.ob.kind = "Consecution" \/ x \in I

(* repairsCounterexample: evaluating I in the counterexample of failure    *)
(* does not show that I fails the same obligation.                         *)
repairsCounterexample(m, I, failure) ==
  m.machine \/
  \A x \in failure.cex :
    CASE failure.ob.kind = "Initiation"  -> x \in I
      [] failure.ob.kind = "Consecution" ->
           x \in I => m.branches[failure.ob.branch].next[x] \in I
      [] OTHER -> x \notin I

-----------------------------------------------------------------------------
NoRound == [cands |-> <<>>, k |-> 1, failures |-> {}, last |-> {},
            unknown |-> FALSE, unsupported |-> FALSE]
NoProof == [ob |-> Initiation, used |-> 0]

Init ==
  /\ model \in Models /\ annotation = {}
  /\ pc = "extract"
  /\ clauses = <<>>
  /\ spent = [rounds |-> 0, calls |-> 0, queries |-> 0]
  /\ round = NoRound /\ proof = NoProof
  /\ invariant = {} /\ feedback = {}
  /\ outcome = <<"none", "none">>

(* A mutant: the query for the condition is not counted.                   *)
finalProofQueriesButCondition(m) ==
  1 + (IF m.machine THEN 2 ELSE 1) * Len(m.branches)
    + (IF m.postcondition # {} THEN 1 ELSE 0)

finalProofQueries(m) ==
  1 + (IF m.machine THEN 1 ELSE 0)
    + (IF m.machine THEN 2 ELSE 1) * Len(m.branches)
    + (IF m.postcondition # {} THEN 1 ELSE 0)

(* What is left for synthesis.                                             *)
generationQueries == maxSolverQueries - finalProofQueries(model)

Finish(stage, status) == pc' = "done" /\ outcome' = <<stage, status>>

(* runClause2InvPrototype up to the first call of combine.                 *)
ExtractionFails ==
  /\ pc = "extract"
  /\ Finish("extraction", "Failed")
  /\ UNCHANGED <<model, annotation, clauses, spent, round, proof, invariant, feedback>>

(* There is a budget for synthesis besides the final proof.                *)
Funded ==
  maxSolverQueries > finalProofQueries(model) /\ maxRounds > 0 /\ maxAtomicClauses > 0

BudgetRejected ==
  /\ pc = "extract" /\ ~Funded
  /\ Finish("budget", "BudgetExceeded")
  /\ UNCHANGED <<model, annotation, clauses, spent, round, proof, invariant, feedback>>

Extract ==
  /\ pc = "extract" /\ Funded
  /\ \E given \in InitialClauses :
       LET distinct == WithNew(<<>>, given) IN
       /\ clauses' = distinct
       /\ \/ Len(distinct) > maxAtomicClauses /\ Finish("synthesis", "BudgetExceeded")
          \/ /\ Len(distinct) <= maxAtomicClauses
             /\ pc' = IF distinct = <<>> THEN "generate" ELSE "combine"
             /\ UNCHANGED outcome
  /\ UNCHANGED <<model, annotation, spent, round, proof, invariant, feedback>>

(* combine, if there is a round and a query left.                          *)
MayCombine == spent.rounds < maxRounds /\ spent.queries < generationQueries

CombineExhausted ==
  /\ pc = "combine" /\ ~MayCombine
  /\ Finish("synthesis", "BudgetExceeded")
  /\ UNCHANGED <<model, annotation, clauses, spent, round, proof, invariant, feedback>>

(* combine calls combineInvariantClauses.                                  *)
Combine ==
  /\ pc = "combine" /\ MayCombine
  /\ \E kept \in {Kept(model, clauses)} :
       round' = [NoRound EXCEPT !.cands = BySize(kept)]
  /\ proof' = NoProof
  /\ pc' = "candidate"
  /\ UNCHANGED <<model, annotation, clauses, spent, invariant, feedback, outcome>>

(* A mutant: every round has the whole budget.                             *)
roundQueriesUndeducted == generationQueries

(* The limit that combine passes on.                                       *)
roundQueries == generationQueries - spent.queries

candidate == round.cands[round.k]

RepairsAll(e) == \A f \in round.failures : repairsCounterexample(model, Sat(e), f)

(* A mutant: a filtered candidate is looked at again.                      *)
FilterAgain ==
  /\ pc = "candidate" /\ round.k \in DOMAIN round.cands
  /\ ~RepairsAll(candidate)
  /\ UNCHANGED vars

(* The candidate fails a counterexample an earlier one failed.             *)
Filter ==
  /\ pc = "candidate" /\ round.k \in DOMAIN round.cands
  /\ ~RepairsAll(candidate)
  /\ round' = [round EXCEPT !.k = @ + 1]
  /\ UNCHANGED <<model, annotation, pc, clauses, spent, proof, invariant, feedback, outcome>>

Attempt ==
  /\ pc = "candidate" /\ round.k \in DOMAIN round.cands
  /\ RepairsAll(candidate)
  /\ pc' = "verify"
  /\ proof' = [proof EXCEPT !.ob = Initiation]
  /\ UNCHANGED <<model, annotation, clauses, spent, round, invariant, feedback, outcome>>

(* A query of verifyWithBudget that proves its obligation and leaves more. *)
Discharge(e, maximum) ==
  /\ \E r \in Query(model, Sat(e), proof.ob, maximum) :
       /\ r.status = "Proved"
       /\ \E o \in Later(model, proof.ob) :
            /\ \A p \in Later(model, proof.ob) : Position(model, o) <= Position(model, p)
            /\ proof' = [ob |-> o, used |-> proof.used + r.cost]
  /\ UNCHANGED <<model, annotation, pc, clauses, spent, round, invariant, feedback, outcome>>

Verify == pc = "verify" /\ Discharge(candidate, roundQueries)

(* The last obligation of a candidate is proved.                           *)
Found ==
  /\ pc = "verify"
  /\ Later(model, proof.ob) = {}
  /\ \E r \in Query(model, Sat(candidate), proof.ob, roundQueries) :
       /\ r.status = "Proved"
       /\ spent' = [spent EXCEPT !.rounds = @ + 1, !.queries = @ + proof.used + r.cost]
  /\ invariant' = {candidate}
  /\ feedback' = {}
  /\ pc' = "emit"
  /\ proof' = NoProof
  /\ UNCHANGED <<model, annotation, clauses, round, outcome>>

(* Another answer: the next candidate, unless the budget is used up.       *)
Reject ==
  /\ pc = "verify"
  /\ \E r \in Query(model, Sat(candidate), proof.ob, roundQueries) :
       LET failure == [ob |-> proof.ob, cex |-> r.cex] IN
       /\ r.status \in {"Refuted", "Unknown", "Unsupported"}
       /\ round' = [round EXCEPT
            !.k = @ + 1,
            !.failures = IF r.status = "Refuted" THEN @ \cup {failure} ELSE @,
            !.last = IF r.status = "Refuted" THEN {failure} ELSE @,
            !.unknown = @ \/ r.status = "Unknown",
            !.unsupported = @ \/ r.status = "Unsupported"]
       /\ proof' = [proof EXCEPT !.used = @ + r.cost]
  /\ pc' = "candidate"
  /\ UNCHANGED <<model, annotation, clauses, spent, invariant, feedback, outcome>>

QueriesExhausted ==
  /\ pc = "verify"
  /\ \E r \in Query(model, Sat(candidate), proof.ob, roundQueries) : r.status = "BudgetExceeded"
  /\ spent' = [spent EXCEPT !.rounds = @ + 1, !.queries = @ + proof.used]
  /\ proof' = NoProof
  /\ Finish("synthesis", "BudgetExceeded")
  /\ UNCHANGED <<model, annotation, clauses, round, invariant, feedback>>

(* No candidate left: only if every one was refuted is the provider asked. *)
EndRound ==
  /\ pc = "candidate" /\ round.k \notin DOMAIN round.cands
  /\ spent' = [spent EXCEPT !.rounds = @ + 1, !.queries = @ + proof.used]
  /\ proof' = NoProof
  /\ feedback' = round.last
  /\ \/ round.unknown /\ Finish("synthesis", "Unknown")
     \/ ~round.unknown /\ round.unsupported /\ Finish("synthesis", "Unsupported")
     \/ ~round.unknown /\ ~round.unsupported /\ pc' = "generate" /\ UNCHANGED outcome
  /\ UNCHANGED <<model, annotation, clauses, round, invariant>>

MayAsk ==
  /\ spent.calls < maxProviderCalls
  /\ spent.rounds < maxRounds
  /\ Len(clauses) < maxAtomicClauses

GenerateExhausted ==
  /\ pc = "generate" /\ ~MayAsk
  /\ Finish("synthesis", "BudgetExceeded")
  /\ UNCHANGED <<model, annotation, clauses, spent, round, proof, invariant, feedback>>

(* The request fails: transport, configuration, time, or the response.     *)
ProviderFails ==
  /\ pc = "generate" /\ MayAsk
  /\ spent' = [spent EXCEPT !.calls = @ + 1]
  /\ \E status \in {"InvalidModel", "Unsupported", "BudgetExceeded", "ProviderError"} :
       Finish("synthesis", status)
  /\ UNCHANGED <<model, annotation, clauses, round, proof, invariant, feedback>>

(* The provider answers with clauses, at will more than it was asked for.  *)
Generate ==
  /\ pc = "generate" /\ MayAsk
  /\ spent' = [spent EXCEPT !.calls = @ + 1]
  /\ \E answer \in Answers :
       LET more == WithNew(clauses, answer) IN
       \/ Len(more) > maxAtomicClauses /\ Finish("synthesis", "BudgetExceeded")
                                       /\ UNCHANGED clauses
       \/ more = clauses /\ Finish("synthesis", "NoInvariant") /\ UNCHANGED clauses
       \/ /\ Len(more) <= maxAtomicClauses /\ more # clauses
          /\ clauses' = more /\ pc' = "combine" /\ UNCHANGED outcome
  /\ UNCHANGED <<model, annotation, round, proof, invariant, feedback>>

-----------------------------------------------------------------------------
(* verifyAndEmitLoopInvariant, with the budget set aside for it.           *)
Reverify ==
  pc = "emit" /\ \E e \in invariant : Discharge(e, finalProofQueries(model))

Emit ==
  /\ pc = "emit"
  /\ Later(model, proof.ob) = {}
  /\ \E e \in invariant : \E r \in Query(model, Sat(e), proof.ob, finalProofQueries(model)) :
       /\ r.status = "Proved"
       /\ spent' = [spent EXCEPT !.queries = @ + proof.used + r.cost]
       /\ \/ annotation' = {Sat(e)} /\ Finish("emission", "Emitted")
          \/ UNCHANGED annotation /\ Finish("emission", "FormattingError")
  /\ proof' = NoProof
  /\ UNCHANGED <<model, clauses, round, invariant, feedback>>

EmissionFails ==
  /\ pc = "emit"
  /\ \E e \in invariant : \E r \in Query(model, Sat(e), proof.ob, finalProofQueries(model)) :
       /\ r.status # "Proved"
       /\ spent' = [spent EXCEPT !.queries = @ + proof.used + r.cost]
       /\ Finish("emission", r.status)
  /\ proof' = NoProof
  /\ UNCHANGED <<model, annotation, clauses, round, invariant, feedback>>

Next ==
  \/ ExtractionFails \/ BudgetRejected \/ Extract
  \/ CombineExhausted \/ Combine
  \/ Filter \/ Attempt \/ Verify \/ Found \/ Reject \/ QueriesExhausted \/ EndRound
  \/ GenerateExhausted \/ ProviderFails \/ Generate
  \/ Reverify \/ Emit \/ EmissionFails

(* Every query and every request has a timeout, so the pipeline goes on.   *)
Spec == Init /\ [][Next]_vars /\ WF_vars(Next)
-----------------------------------------------------------------------------
TypeOK ==
  /\ pc \in {"extract", "combine", "candidate", "verify", "generate", "emit", "done"}
  /\ model \in Models
  /\ annotation \in {{}} \cup {{I} : I \in SUBSET State}
  /\ clauses \in Seq(Clause) /\ (pc # "done" => Len(clauses) <= maxAtomicClauses)
  /\ spent \in [rounds : Nat, calls : Nat, queries : Nat]
  /\ spent.rounds <= maxRounds /\ spent.calls <= maxProviderCalls
  /\ ToSet(round.cands) \subseteq Candidate /\ Len(round.cands) <= maxCandidateExpressions
  /\ proof.ob \in Obligations(model) /\ proof.used \in Nat
  /\ invariant \in {{}} \cup {{e} : e \in Candidate}
  /\ (pc = "done") <=> outcome # <<"none", "none">>

AL == INSTANCE AnnotatedLoop WITH s <- {}

(* The pipeline is a way to annotate a loop: only an expression that meets *)
(* every obligation is written, and at most once.                          *)
ImplementsAnnotatedLoop == AL!Spec

(* combineInvariantClauses returns Found only with an inductive invariant, *)
(* so the second proof of verifyAndEmitLoopInvariant can only confirm it.  *)
FoundIsInductive == \A e \in invariant : Inductive(model, Sat(e))

(* When a round reports NoInvariant, none of its candidates is inductive:  *)
(* those that repairsCounterexample dismissed without a proof are not      *)
(* either.                                                                 *)
RoundExhaustive ==
  pc = "generate" \/ outcome = <<"synthesis", "NoInvariant">> =>
    \A e \in ToSet(round.cands) : ~Inductive(model, Sat(e))

(* The candidates are tried from the smallest to the largest: unless the   *)
(* solver was at a loss, none smaller than the one found is inductive.     *)
SimplestFound ==
  \A e \in invariant : ~round.unknown /\ ~round.unsupported =>
    \A d \in ToSet(round.cands) :
      expressionSize(d) < expressionSize(e) => ~Inductive(model, Sat(d))

(* Whatever is skipped or tried first, no inductive candidate is           *)
(* overlooked: neither for NoInvariant nor for a larger one.               *)
NothingOverlooked == RoundExhaustive /\ SimplestFound

(* The failure that the provider is told of is one of a candidate of the   *)
(* round, at the obligation and branch named, in the state given.          *)
FeedbackIsTrue ==
  pc = "generate" =>
    \A f \in feedback : \E e \in ToSet(round.cands) :
      /\ Refuting(model, Sat(e), f.ob) # {}
      /\ f.cex \subseteq Refuting(model, Sat(e), f.ob)

(* Rounds and final proof together stay within maxSolverQueries.           *)
QueriesWithinBudget == spent.queries + proof.used <= maxSolverQueries

(* The queries set aside before the provider is called (finalProofQueries) *)
(* are enough for the proof at the end.                                    *)
EmissionFunded == outcome # <<"emission", "BudgetExceeded">>

(* They are for C integers; a model over mathematical integers that        *)
(* accesses memory needs one more for every branch that does.              *)
MachineEmissionFunded == model.machine => EmissionFunded

(* The pipeline comes to an end, whatever the provider and solver answer.  *)
Terminates == <>(pc = "done")
=============================================================================

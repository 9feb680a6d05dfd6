------------------------------ MODULE ExprEval ------------------------------
(***************************************************************************)
(* The life of a symbolic expression.  Path::evalExpr (src/src/Analyzer/   *)
(* state.cpp) evaluates a C expression operator by operator in a state     *)
(* that names the values at the point "loop"; the result is moved to the   *)
(* point "begin" through the memory of the path that leads from there, or  *)
(* quantified over the elements of an array, simplified, and printed.      *)
(*                                                                         *)
(* The C expression c is kept beside the symbolic one as the reference.    *)
(***************************************************************************)
EXTENDS CExpr, MachineTypes

CONSTANTS Leaves,      \* C expressions without operators
          BinaryOps, UnaryOps, Targets,
          MaxDepth,    \* operators applied, at most
          Stores,      \* the memories a path may have: [address |-> term at "begin"]
          Scalars,     \* the loop symbols of a transition model: variables of integer type
          Index, Bound,   \* the index of a search loop, and the literal that bounds it
          Plain(_, _, _),  \* which operator may be applied to which operands
          StatesFor        \* [set of locations |-> states that differ in their values]

VARIABLES c, t, depth, stage, store

vars == <<c, t, depth, stage, store>>

Empty == [a \in {} |-> None]

(* -------------------------------- steps -------------------------------- *)

Init ==
  /\ c \in Leaves
  /\ t = EvalExpr(c)
  /\ depth = 0
  /\ stage = "evaluated"
  /\ store = Empty

Evaluated(e) ==
  /\ stage = "evaluated" /\ depth < MaxDepth
  /\ c' = e
  /\ t' = EvalExpr(e)
  /\ depth' = depth + 1
  /\ UNCHANGED <<stage, store>>

EvalUnary  == \E op \in UnaryOps : Plain(op, c, c) /\ Evaluated(Applied(op, c))
EvalBinary == \E op \in BinaryOps, e \in Leaves :
                \/ Plain(op, c, e) /\ Evaluated(Combine(c, op, e))
                \/ Plain(op, e, c) /\ Evaluated(Combine(e, op, c))
EvalCast   == \E ty \in Targets : Plain("cast", c, c) /\ Evaluated(CCast(c, ty, "explicit"))

Becomes(e, next) ==
  /\ t' = e
  /\ stage' = next
  /\ UNCHANGED <<c, depth>>

(* substitutePath: the condition or value of a later path, told from the start of the earlier one. *)
MovedToStart ==
  /\ stage \in {"evaluated", "quantified"}
  /\ \E m \in Stores :
       /\ Becomes(SubstitutePath(t, m, "loop", "begin"), "substituted")
       /\ store' = m

(* The elements from the index of a search up to its bound. *)
RestOf(a, index) == WithLength(WithOffset(a, index), Bin(Bound, "-", index))

(* A search loop leaves when c holds of its current element: no element of *)
(* the rest of the array has it, or some element has.                      *)
Quantified ==
  LET index == SymValue(Typed[Index], AddressOf(Index), "loop")
      pred  == SubstituteValues(t, [e \in {index} |-> RangeIndex])
  IN /\ stage = "evaluated" /\ depth > 0
     /\ \E e \in Symbols(t), agg \in {"all", "some"} :
          /\ e.node = "sym" /\ e.addr.node = "addr" /\ index \in Symbols(e.addr.off)
          /\ LET over(body) == Over(agg, RestOf(e.addr, index), IF agg = "all" THEN Un("!", body) ELSE body)
             IN Becomes(Import(over(pred)), "quantified")
     /\ UNCHANGED store

(* One element of what is written to a whole range, as a read of it gives it. *)
ElementRead ==
  /\ stage = "quantified"
  /\ \E n \in 0..(Bound.v - 1) :
       /\ t' = SubstituteRangeIndex(t.body, Long(n))
       /\ c' = IF t.agg = "all" THEN Applied("!", Instance(c, Index, n)) ELSE Instance(c, Index, n)
  /\ stage' = "element"
  /\ UNCHANGED <<depth, store>>

Simplified ==
  /\ stage \in {"evaluated", "substituted"}
  /\ Becomes(Simplify(t), "simplified")
  /\ UNCHANGED store

Next == EvalUnary \/ EvalBinary \/ EvalCast \/ MovedToStart \/ Quantified \/ ElementRead \/ Simplified

Spec == Init /\ [][Next]_vars

(* ------------------------------ properties ----------------------------- *)

RECURSIVE Uses(_)
Uses(e) ==
  CASE e.node = "lit" -> {}
    [] e.node = "ref" -> {e.loc}
    [] e.node = "sub" -> Uses(e.e) \cup {<<"p">>}
    [] e.node = "bin" -> Uses(e.l) \cup Uses(e.r)
    [] OTHER          -> Uses(e.e)

States == StatesFor[Uses(c)]
Everywhere(s) == [pt \in {"begin", "loop"} |-> s]

(* The state at "loop" of a run of the path that begins in s. *)
After(s, m) ==
  LET w    == Everywhere(s)
      at(l) == {a \in DOMAIN m : Denotes(a, w, 0) = l}
  IN [l \in DOMAIN s |-> IF at(l) = {} THEN s[l] ELSE Val(m[CHOOSE a \in at(l) : TRUE], w, 0)[1]]

(* What the expression stands for in the state l at "loop". *)
Meant(l) ==
  LET k == l[Index]
      each == {CVal(c, [l EXCEPT ![Index] = i], TRUE) : i \in k..(Bound.v - 1)}
  IN IF t.node # "over" THEN CVal(c, l, TRUE)
     ELSE IF <<>> \in each THEN <<>>
     ELSE <<Truth(IF t.agg = "all" THEN each \subseteq {<<0>>} ELSE \E v \in each : v # <<0>>)>>

(* An expression keeps the value of the C expression it was built from,    *)
(* wherever C gives one that needs no unsigned wrap: evaluated with        *)
(* promotions, conversions and casts; quantified over the elements of a    *)
(* search, and one element read back; told from the beginning of a path    *)
(* that moved pointers and overwrote cells; simplified.  Excluded: a range *)
(* over an array of which the path wrote single cells (their values are    *)
(* not found by a symbolic index).                                         *)
KeepsMeaning ==
  (t.node = "over" => \A a \in DOMAIN store : a.node # "addr") =>
    \A s \in States :
      LET v == Meant(After(s, store)) IN v # <<>> => Val(t, Everywhere(s), 0) = v

(* Constant folding gives the value C gives, unsigned wraps included, and  *)
(* folds nothing that C leaves undefined.                                  *)
FoldAgrees ==
  stage = "evaluated" /\ Fold(t) # None =>
    \A s \in States : LET v == CVal(c, s, FALSE) IN v # <<>> /\ Wrap(c.ty, Fold(t).v) = v[1]

(* A linear form has the value of the expression it was taken from.        *)
LinearFormIsExact ==
  IsLinear(t) =>
    LET syms == Symbols(t)
        f    == Linear(t, syms)
    IN \A s \in States :
         CVal(c, After(s, store), TRUE) # <<>> =>
           f.c + MapThenSumSet(LAMBDA x : f.k[x] * Val(x, Everywhere(s), 0)[1], syms)
             = Val(t, Everywhere(s), 0)[1]

(* A conversion to a signed type that need not hold the value. *)
RECURSIVE Narrows(_)
Narrows(e) ==
  CASE e.node = "cast" -> Narrows(e.e) \/ (e.ty.kind = "Int" /\ e.e.ty.w > e.ty.w)
    [] e.node = "un"   -> Narrows(e.e)
    [] e.node = "bin"  -> Narrows(e.l) \/ Narrows(e.r)
    [] OTHER           -> FALSE

(* An expression the transition model extractor takes has the type the     *)
(* program computes it in, and the solver is told the value C gives it,    *)
(* unsigned wraps included, and exactly where C gives one; only a signed   *)
(* conversion that does not fit is left undefined, though C defines it.    *)
MachineAgrees ==
  LET ty == exactMachineExpressionType(t, Scalars)
  IN stage = "evaluated" /\ usesOnlyCurrentSymbols(t, Scalars, TRUE) /\ ty # Void =>
       \A s \in States :
         LET m == translate(t, [x \in Scalars |-> Val(x, Everywhere(s), 0)[1]])
             v == CVal(c, s, FALSE)
         IN /\ m.ty = ty
            /\ m.defined => v = <<m.v>>
            /\ v # <<>> /\ ~m.defined => Narrows(c)

(* No comparison is an operand of a comparison, and no sign is next to a sign. *)
RECURSIVE Readable(_)
Readable(e) ==
  LET cmp(x) == x.node = "bin" /\ x.op \in Comparison
      sign(x) == x.node = "un" \/ (x.node = "lit" /\ x.v < 0)
  IN CASE e.node = "bin"  -> Readable(e.l) /\ Readable(e.r) /\ ~(cmp(e) /\ (cmp(e.l) \/ cmp(e.r)))
       [] e.node = "un"   -> Readable(e.e) /\ ~sign(e.e)
       [] e.node = "cast" -> Readable(e.e)
       [] e.node = "over" -> Readable(e.body)
       [] OTHER           -> TRUE

ReadsBack(now) ==
  LET read == Read(GetACSL(t, now, 0, FALSE), now)
  IN \A s \in States, o \in StatesFor[{}] :
       LET at == [begin |-> s, loop |-> o]
           v  == Val(t, at, 0)
       IN v # <<>> => Val(read, at, 0) = v

(* The printed ACSL term, read with ACSL's precedences and labels, has the *)
(* value of the expression, whichever point it is printed for.             *)
PrintedAsMeant == stage = "simplified" /\ Readable(t) => \A now \in {"begin", "loop"} : ReadsBack(now)

(* The same of every expression. *)
PrintKeepsGrouping == stage = "simplified" => ReadsBack("begin")

=============================================================================

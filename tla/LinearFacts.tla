---------------------------- MODULE LinearFacts ----------------------------
(***************************************************************************)
(* What the affine analysis of a loop is given and what is made of its     *)
(* answer (src/src/Analyzer/Symbolic/invariant.cpp, VarManager of state.h):*)
(* values and conditions of a path become constraints over dimensions that *)
(* are named after variables, and the polyhedra that StInGX answers with   *)
(* become the text of an invariant (buildInvs) and the values and          *)
(* conditions of the states after the loop (buildPostState).  How the      *)
(* transitions are put together is the module LoopLocations.               *)
(***************************************************************************)
EXTENDS Integers, Sequences, FiniteSets, FiniteSetsExt, SequencesExt

CONSTANTS
  Decl,  \* declarations of variables
  NameOf \* their names

(* The dimensions: a name, now or at loop entry; in a transition also      *)
(* after it (the primed ones).                                             *)
Unprimed == {"now", "entry"}

Names(decls) == {NameOf[d] : d \in decls}

(* VarManager::fromPaths: one declaration stands for all with its name.    *)
VarManagers(decls) ==
  {vm \in [Names(decls) -> decls] : \A x \in Names(decls) : NameOf[vm[x]] = x}

-----------------------------------------------------------------------------
(* Linear forms and constraints: c over some dimensions, plus k. *)

Form(c, k) == [c |-> c, k |-> k]

Constant(k) == Form([d \in {} |-> 0], k)

Only(d) == Form([e \in {d} |-> 1], 0)

Coef(f, d) == IF d \in DOMAIN f.c THEN f.c[d] ELSE 0

Terms(f) == {d \in DOMAIN f.c : f.c[d] # 0}

Scale(f, m) == Form([d \in DOMAIN f.c |-> m * f.c[d]], m * f.k)

Plus(f, g) == Form([d \in DOMAIN f.c \cup DOMAIN g.c |-> Coef(f, d) + Coef(g, d)], f.k + g.k)

Minus(f, g) == Plus(f, Scale(g, -1))

Value(f, p) == f.k + MapThenSumSet(LAMBDA d : f.c[d] * p[d], DOMAIN f.c)

Equality(f)  == [kind |-> "equality", f |-> f]
AtLeast0(f)  == [kind |-> "inequality", f |-> f]

Sat(c, p) == IF c.kind = "equality" THEN Value(c.f, p) = 0 ELSE Value(c.f, p) >= 0

(* Division of C and of GMP. *)
Quotient(m, d) ==
  LET size(k) == IF k < 0 THEN -k ELSE k
      q       == size(m) \div size(d)
  IN  IF (m < 0) = (d < 0) THEN q ELSE -q

-----------------------------------------------------------------------------
(* The values of variables: literals, variables, what is read from memory, *)
(* casts of a variable, an address some cells behind a pointer variable,   *)
(* and the operators.                                                      *)
Lit(k)       == [op |-> "literal", k |-> k]
Var(d)       == [op |-> "variable", decl |-> d]
Read         == [op |-> "read"]
Cast(d, b)   == [op |-> "cast", decl |-> d, keeps |-> b]
Address(d, k) == [op |-> "address", decl |-> d, k |-> k]
Op(o, l, r)  == [op |-> o, l |-> l, r |-> r]

(* getMaxDegree, -1 if there is none. *)
RECURSIVE Degree(_)
Degree(t) ==
  CASE t.op = "literal" -> 0
    [] t.op \in {"+", "-"} ->
         IF -1 \in {Degree(t.l), Degree(t.r)} THEN -1 ELSE Max({Degree(t.l), Degree(t.r)})
    [] t.op = "*" ->
         IF -1 \in {Degree(t.l), Degree(t.r)} THEN -1 ELSE Degree(t.l) + Degree(t.r)
    [] t.op = "/" -> -1
    [] t.op = "cast" -> IF t.keeps THEN 1 ELSE -1
    [] OTHER -> 1

(* A linear form, nullopt or ERROR. *)
Just(f) == [is |-> "form", f |-> f]
None    == [is |-> "nullopt"]
Failed  == [is |-> "error"]

(* BinaryOpExprNode::toLinearExpr: a quotient divides every coefficient.   *)
Combine(t, f, g) ==
  CASE t.op = "+" -> Just(Plus(f, g))
    [] t.op = "-" -> Just(Minus(f, g))
    [] t.op = "*" /\ Degree(t.r) = 0 -> Just(Scale(f, g.k))
    [] t.op = "*" /\ Degree(t.r) # 0 /\ Degree(t.l) = 0 -> Just(Scale(g, f.k))
    [] t.op = "/" /\ Degree(t.r) = 0 /\ g.k # 0 ->
         Just(Form([d \in DOMAIN f.c |-> Quotient(f.c[d], g.k)], Quotient(f.k, g.k)))
    [] OTHER -> Failed

(* toLinearExpr over variable names.  Of an address only the pointer is    *)
(* left; what is read from memory and a narrowing cast have no form.       *)
RECURSIVE Linear(_)
Linear(t) ==
  CASE t.op = "literal" -> Just(Constant(t.k))
    [] t.op \in {"variable", "address"} -> Just(Only(<<NameOf[t.decl], "now">>))
    [] t.op = "cast" -> IF t.keeps THEN Just(Only(<<NameOf[t.decl], "now">>)) ELSE None
    [] t.op = "read" -> None
    [] OTHER ->
         LET l == Linear(t.l)
             r == Linear(t.r)
         IN  IF "error" \in {l.is, r.is} THEN Failed
             ELSE IF "nullopt" \in {l.is, r.is} THEN None
             ELSE Combine(t, l.f, r.f)

(* toLinearExpr over the symbols of a value, where each address is one of  *)
(* its own; for values that have a degree.                                 *)
RECURSIVE LinearBySymbol(_)
LinearBySymbol(t) ==
  CASE t.op = "literal" -> Just(Constant(t.k))
    [] t.op = "cast" -> Just(Only(<<t.decl, 0>>))
    [] t.op = "variable" -> Just(Only(<<t.decl, 0>>))
    [] t.op = "address" -> Just(Only(<<t.decl, t.k>>))
    [] t.op = "read" -> Just(Only(<<"element", 0>>))
    [] OTHER ->
         LET l == LinearBySymbol(t.l)
             r == LinearBySymbol(t.r)
         IN  IF "error" \in {l.is, r.is} THEN Failed ELSE Combine(t, l.f, r.f)

(* The step of a variable: the forms of its values before and after an     *)
(* iteration differ by a constant.                                         *)
StepOf(d, t) ==
  LET f == LinearBySymbol(t)
  IN  IF Degree(t) < 0 \/ f.is # "form" THEN <<>>
      ELSE LET diff == Minus(f.f, Only(<<d, 0>>))
           IN  IF Terms(diff) = {} THEN <<diff.k>> ELSE <<>>

(* toConstraint(preprocessConjConds(l op r)): a strict comparison is one   *)
(* of integers, != is dropped.                                             *)
Constraints(op, l, r) ==
  LET L == Linear(l)
      R == Linear(r)
  IN  IF {L.is, R.is} # {"form"} \/ op = "NE" THEN {}
      ELSE CASE op = "LT" -> {AtLeast0(Minus(Minus(R.f, L.f), Constant(1)))}
             [] op = "LE" -> {AtLeast0(Minus(R.f, L.f))}
             [] op = "GT" -> {AtLeast0(Minus(Minus(L.f, R.f), Constant(1)))}
             [] op = "GE" -> {AtLeast0(Minus(L.f, R.f))}

Prime(d) == <<d[1], IF d[2] = "now" THEN "next" ELSE "kept">>

(* primedPolyhedron: every dimension moves to the primed one. *)
Primed(poly) ==
  {[c EXCEPT !.f.c = [d \in {Prime(e) : e \in DOMAIN c.f.c} |->
                        c.f.c[CHOOSE e \in DOMAIN c.f.c : Prime(e) = d]]] : c \in poly}

(* buildIdentityPoly. *)
IdentityPoly(names) ==
  {Equality(Minus(Only(Prime(d)), Only(d))) : d \in names \X Unprimed}

(* Mutant: a variable whose value has no linear form is taken to keep it.  *)
PathPolyKeepingUnknown(values) ==
  {Equality(Minus(Only(<<NameOf[d], "next">>),
                  IF Linear(values[d]).is = "form" THEN Linear(values[d]).f ELSE Only(<<NameOf[d], "now">>))) :
     d \in DOMAIN values}
    \cup {Equality(Minus(Only(<<x, "kept">>), Only(<<x, "entry">>))) : x \in Names(DOMAIN values)}

(* buildPathPoly of a path that ends with these values. *)
PathPoly(values) ==
  {Equality(Minus(Only(<<NameOf[d], "next">>), Linear(values[d]).f)) :
     d \in {e \in DOMAIN values : Linear(values[e]).is = "form"}}
    \cup {Equality(Minus(Only(<<x, "kept">>), Only(<<x, "entry">>))) : x \in Names(DOMAIN values)}

(* ... of the path at loop entry. *)
InitPoly(values) ==
  {Equality(Minus(Only(<<NameOf[d], "now">>), Linear(values[d]).f)) :
     d \in {e \in DOMAIN values : Linear(values[e]).is = "form"}}
    \cup {Equality(Minus(Only(<<x, "entry">>), Only(<<x, "now">>))) : x \in Names(DOMAIN values)}

-----------------------------------------------------------------------------
(* buildInvs. *)

(* x - \at(x, LoopEntry) == 0, "loop assigns's job".                       *)
IsUnchanged(c) ==
  /\ c.kind = "equality" /\ c.f.k = 0
  /\ \E x \in {d[1] : d \in Terms(c.f)} :
       /\ Terms(c.f) = {<<x, "now">>, <<x, "entry">>}
       /\ c.f.c[<<x, "now">>] = 1 /\ c.f.c[<<x, "entry">>] = -1

(* The conjunction that is printed of a polyhedron. *)
PrintedOf(poly) == {c \in poly : ~IsUnchanged(c)}

(* The disjunction that is printed: none of nothing. *)
PrintedInvs(polys) == {PrintedOf(poly) : poly \in polys} \ {{}}

-----------------------------------------------------------------------------
(* buildPostState, where a resolved expression is known by its value in    *)
(* the run and by whether it is a constant.                                *)

Known(v, const) == [v |-> v, const |-> const]

(* The entry values are those of the path at loop entry. *)
FromEntry(vm, entry, constants) ==
  [d \in (DOMAIN vm) \X {"entry"} |-> Known(entry[vm[d[1]]], vm[d[1]] \in constants)]

Unknowns(resolved, c) == Terms(c.f) \ DOMAIN resolved

(* Mutant: the constant of the equality is forgotten. *)
ResolveHomogeneous(resolved, c) ==
  IF c.kind # "equality" \/ Cardinality(Unknowns(resolved, c)) # 1 THEN resolved
  ELSE LET target == CHOOSE d \in Unknowns(resolved, c) : TRUE
           rest   == Terms(c.f) \ {target}
           rhs    == -MapThenSumSet(LAMBDA d : c.f.c[d] * resolved[d].v, rest)
       IN  resolved @@ (target :> Known(Quotient(rhs, c.f.c[target]), \A d \in rest : resolved[d].const))

(* An equality with one unknown is solved for it. *)
Resolve(resolved, c) ==
  IF c.kind # "equality" \/ Cardinality(Unknowns(resolved, c)) # 1 THEN resolved
  ELSE LET target == CHOOSE d \in Unknowns(resolved, c) : TRUE
           rest   == Terms(c.f) \ {target}
           rhs    == -c.f.k - MapThenSumSet(LAMBDA d : c.f.c[d] * resolved[d].v, rest)
       IN  resolved @@ (target :> Known(Quotient(rhs, c.f.c[target]), \A d \in rest : resolved[d].const))

(* while (changed): as many rounds as there are constraints are enough.    *)
ResolveAll(resolved, poly) ==
  FoldLeft(LAMBDA r, round : FoldLeft(Resolve, r, poly), resolved, poly)

(* The condition of a constraint: terms that are not resolved are left     *)
(* out, there is none of constants, and >= becomes >.                      *)
ConditionOf(resolved, c) ==
  LET terms == Terms(c.f) \cap DOMAIN resolved
  IN  IF \A d \in terms : resolved[d].const THEN {}
      ELSE {[op |-> IF c.kind = "equality" THEN "Equal" ELSE "GreaterThan",
             v |-> c.f.k + MapThenSumSet(LAMBDA d : c.f.c[d] * resolved[d].v, terms)]}
=============================================================================

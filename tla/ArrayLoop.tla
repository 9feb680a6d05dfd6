----------------------------- MODULE ArrayLoop -----------------------------
(***************************************************************************)
(* A loop over an array runs as C runs it, next to what the analyzer says  *)
(* of it: the transitions and the answer of the affine analysis            *)
(* (LinearFacts), and the two plugins that know an idiom, which come first *)
(* (src/src/SpecGenerator/loopInvariantPlugins.cpp): ParadigmMaxMinPlugin, *)
(* for an if that keeps the largest or smallest element of an array, and   *)
(* ParadigmSearchPlugin, for a loop that is left at an element with a      *)
(* property.  Of these: which loops they match, the clauses they print     *)
(* (loopInvTemplates.h) and the value they give the memory after the loop. *)
(*                                                                         *)
(* The loop has an index i with a constant step, a bound n, the scalars m, *)
(* y and key, and an iterator it into the array that starts with the index.*)
(***************************************************************************)
EXTENDS LinearFacts

(* if (m op element) then else, under another condition if guarded.        *)
(* form: how the element is written; then: what the then branch has done   *)
(* to m (stale: the element is in m, and no longer in the array); local: m *)
(* is declared in the body.                                                *)
If ==
  [left : {"m", "element"}, op : {"LT", "LE", "GT", "GE", "EQ"}, form : {"p[i]", "*(p+i)", "*it"},
   then : {"element", "stale", "constant", "kept"}, else : {"none", "kept", "constant"},
   local : BOOLEAN, guarded : BOOLEAN]

(* The loop, and what its body does besides: leave if the element at exit  *)
(* equals a scalar (<<at, scalar>>), write to m or to the array.           *)
Shape ==
  [step : Int, itStep : Int, op : {"LT", "LE", "GT", "GE", "NE"}, ifs : Seq(If),
   exit : Seq({"i", "y", "m", "key"}), writes : SUBSET {"m", "array"}, yStep : Seq(Int)]

Up(l) == l.step > 0

UnitStep(l) == l.step \in {1, -1}

-----------------------------------------------------------------------------
(* ParadigmMaxMinPlugin. *)

(* Mutant: the smaller side of the comparison is not looked at. *)
ExtremumByOperator(s) == IF s.op \in {"LT", "LE"} THEN "Max" ELSE "Min"

(* m < p[i] and p[i] > m keep the largest, m > p[i] the smallest. *)
Extremum(s) == IF (s.op \in {"LT", "LE"}) = (s.left = "m") THEN "Max" ELSE "Min"

(* parseIndexedArray: an iterator has to step as the index does. *)
IndexedArray(l, s) == s.form = "*it" => l.itStep = l.step

(* The then branch leaves the element in m, the else branch leaves m alone.*)
Verified(s) == s.then = "element" /\ s.else \in {"none", "kept"}

Matches(l, s) ==
  /\ UnitStep(l) /\ s.op # "EQ" /\ ~s.local
  /\ IndexedArray(l, s) /\ Verified(s)

(* The array is printed without a state label: the iterator where it is.   *)
Base(s, v) == IF s.form = "*it" THEN v["it"] ELSE 0

Visited(s, v, a) == {a[Base(s, v) + j] : j \in {k \in 0 .. v["i"] - 1 : Base(s, v) + k \in DOMAIN a}}

InArray(s, v, a) == \A j \in 0 .. v["i"] - 1 : Base(s, v) + j \in DOMAIN a

(* FIND_MAX_LOOP_WITH_VAR_BOUND, ..._WITH_OTHER_BOUND. *)
FindMax(s, v, a) ==
  /\ InArray(s, v, a)
  /\ \A e \in Visited(s, v, a) : v["m"] >= e
  /\ v["m"] \in Visited(s, v, a)
  /\ v["i"] \in 0 .. v["n"]

(* FIND_MIN_LOOP_...: with a parenthesis too many, so that it is no        *)
(* annotation at all.                                                      *)
FindMin(s, v, a) == FALSE

Clauses(s, v, a) == IF Extremum(s) = "Max" THEN FindMax(s, v, a) ELSE FindMin(s, v, a)

(* The range of MaxMinOverRange, for the array and the index v at entry.   *)
PostRange(l, s, v) ==
  LET length == IF Up(l) THEN v["n"] ELSE v["i"] - v["n"]
  IN  {Base(s, v) + j : j \in 0 .. length - 1}

(* The value of m after the loop. *)
PostValue(l, s, v, a) ==
  LET elements == {a[k] : k \in PostRange(l, s, v) \cap DOMAIN a}
  IN  IF Extremum(s) = "Max" THEN Max(elements) ELSE Min(elements)

-----------------------------------------------------------------------------
(* ParadigmSearchPlugin. *)

(* The pattern of a scalar: <<step>>, <<>> if it has none. *)
Pattern(l, d) ==
  CASE d = "i" -> <<l.step>>
    [] d = "y" -> l.yStep
    [] d = "m" -> IF l.ifs # <<>> \/ "m" \in l.writes THEN <<>> ELSE <<0>>
    [] OTHER   -> <<0>>

(* One exit, and a pattern for every symbol of its condition. *)
IsSearch(l) ==
  UnitStep(l) /\ l.exit # <<>> /\ \A j \in DOMAIN l.exit : Pattern(l, l.exit[j]) # <<>>

(* Mutant: a scalar is taken to move with the quantified index. *)
AtIndexUnscaled(l, d, entry, k) == entry[d] + (IF Pattern(l, d) = <<0>> THEN 0 ELSE k - entry["i"])

(* getSubExpr: the value of a scalar when the index is k. *)
AtIndex(l, d, entry, k) ==
  entry[d] + Pattern(l, d)[1] * (IF Up(l) THEN k - entry["i"] ELSE entry["i"] - k)

(* pred(k), of the array and the scalars at LoopEntry. *)
Hit(l, entry, a, k) ==
  LET at == AtIndex(l, l.exit[1], entry, k)
  IN  at \in DOMAIN a /\ a[at] = AtIndex(l, l.exit[2], entry, k)

(* The quantifier of the clause: from the initial value to the index, or   *)
(* from the index to the initial value; the right end is not in it.        *)
Scanned(l, entry, v) ==
  IF Up(l) THEN entry["i"] .. v["i"] - 1 ELSE v["i"] .. entry["i"] - 1

SearchClause(l, entry, v, a) == \A k \in Scanned(l, entry, v) : ~Hit(l, entry, a, k)

-----------------------------------------------------------------------------
(* The loop. *)

CONSTANTS
  Loops,  \* the loops: Shape, and the fields declared, update and affine
  Starts(_), \* the values of the variables at loop entry
  Arrays(_), \* the contents of the array at loop entry
  Answer(_, _, _) \* the constraints StInGX may find, of those true at the exit

VARIABLES
  loop,     \* the loop
  elements, \* the array at loop entry
  entry,    \* the variables at loop entry
  a, v,     \* both now
  values,   \* the values of the last iteration's path, over those before it
  before,   \* the variables before the last iteration
  at,       \* "head", "out" by the condition, "left" by the exit, "answered"
  vm,       \* the variable manager
  answer    \* the polyhedron of the exit: a sequence of constraints

vars == <<loop, elements, entry, a, v, values, before, at, vm, answer>>

(* declared: the variables in scope; update: what y is assigned at the end *)
(* of an iteration; constants: the entry values LinearInvariantPlugin      *)
(* knows; affine: whether StInGX is asked.                                 *)
LoopShape(l) ==
  /\ {"i", "n", "m", "y"} \subseteq l.declared /\ l.declared \subseteq Decl
  /\ l.constants \subseteq l.declared /\ l.yStep = StepOf("y", l.update)

ASSUME LoopsAssumption == \A l \in Loops : LoopShape(l)

-----------------------------------------------------------------------------
(* The program. *)

Compare(op, x, y) ==
  CASE op = "LT" -> x < y [] op = "LE" -> x <= y [] op = "GT" -> x > y
    [] op = "GE" -> x >= y [] op = "NE" -> x # y [] op = "EQ" -> x = y

Goes == Compare(loop.op, v["i"], v["n"])

(* What a branch does to m and to the array; term: the value of m.         *)
Branch(b, st) ==
  CASE b = "element"  -> [st EXCEPT !.m = st.a[v["i"]], !.term = Read]
    [] b = "stale"    -> [st EXCEPT !.m = st.a[v["i"]], !.a[v["i"]] = 0, !.term = Read]
    [] b = "constant" -> [st EXCEPT !.m = 0, !.term = Lit(0)]
    [] OTHER          -> st

Test(s, st) ==
  IF s.left = "m" THEN Compare(s.op, st.m, st.a[v["i"]]) ELSE Compare(s.op, st.a[v["i"]], st.m)

(* The ifs, those of ran executed. *)
RunIfs(ran) ==
  FoldLeft(LAMBDA st, j : IF j \notin ran THEN st
                          ELSE IF Test(loop.ifs[j], st) THEN Branch(loop.ifs[j].then, st)
                                                        ELSE Branch(loop.ifs[j].else, st),
           [m |-> v["m"], a |-> a, term |-> Var("m")], [j \in DOMAIN loop.ifs |-> j])

RECURSIVE TermValue(_)
TermValue(t) ==
  CASE t.op = "literal" -> t.k
    [] t.op = "variable" -> v[t.decl]
    [] t.op = "cast" -> IF t.keeps THEN v[t.decl] ELSE v[t.decl] % 2
    [] t.op = "address" -> v[t.decl] + t.k
    [] t.op = "read" -> a[v["i"]]
    [] t.op = "+" -> TermValue(t.l) + TermValue(t.r)
    [] t.op = "-" -> TermValue(t.l) - TermValue(t.r)
    [] t.op = "*" -> TermValue(t.l) * TermValue(t.r)
    [] t.op = "/" -> Quotient(TermValue(t.l), TermValue(t.r))

(* The terms that variables are assigned in an iteration. *)
PathValues(term) ==
  [d \in loop.declared |->
     CASE d = "i"  -> Op("+", Var("i"), Lit(loop.step))
       [] d = "it" -> Op("+", Var("it"), Lit(loop.itStep))
       [] d = "y"  -> loop.update
       [] d = "m"  -> IF "m" \in loop.writes THEN Lit(0) ELSE term
       [] OTHER    -> Var(d)]

Init ==
  /\ loop \in Loops /\ entry \in Starts(loop) /\ elements \in Arrays(loop)
  /\ a = elements /\ v = entry /\ before = entry
  /\ values = [d \in loop.declared |-> Var(d)]
  /\ at = "head" /\ vm \in VarManagers(loop.declared) /\ answer = <<>>

Found == loop.exit # <<>> /\ v[loop.exit[1]] \in DOMAIN a /\ a[v[loop.exit[1]]] = v[loop.exit[2]]

(* The program reads no element that is not there. *)
Valid ==
  /\ loop.ifs # <<>> \/ "array" \in loop.writes => v["i"] \in DOMAIN a
  /\ loop.exit # <<>> => v[loop.exit[1]] \in DOMAIN a

Iterate ==
  /\ at = "head" /\ Goes /\ Valid /\ ~Found
  /\ \E ran \in {r \in SUBSET DOMAIN loop.ifs : \A j \in DOMAIN loop.ifs : ~loop.ifs[j].guarded => j \in r} :
       LET st    == RunIfs(ran)
           terms == PathValues(st.term)
       IN  /\ values' = terms
           /\ a' = IF "array" \in loop.writes THEN [st.a EXCEPT ![v["i"]] = 2] ELSE st.a
           /\ v' = [d \in loop.declared |-> IF d = "m" /\ terms["m"] = Read THEN st.m
                                            ELSE TermValue(terms[d])]
  /\ before' = v
  /\ UNCHANGED <<loop, elements, entry, at, vm, answer>>

Exit ==
  /\ at = "head" /\ Goes /\ Valid /\ Found
  /\ at' = "left"
  /\ UNCHANGED <<loop, elements, entry, a, v, values, before, vm, answer>>

Leave ==
  /\ at = "head" /\ ~Goes
  /\ at' = "out"
  /\ UNCHANGED <<loop, elements, entry, a, v, values, before, vm, answer>>

(* The values of the dimensions now, and in the last iteration. *)
Point == [d \in (DOMAIN vm) \X Unprimed |-> IF d[2] = "now" THEN v[vm[d[1]]] ELSE entry[vm[d[1]]]]

Transition ==
  [d \in (DOMAIN vm) \X {"now", "entry", "next", "kept"} |->
     CASE d[2] = "now" -> before[vm[d[1]]] [] d[2] = "next" -> v[vm[d[1]]] [] OTHER -> entry[vm[d[1]]]]

(* computeLinearInv, in StInGX. *)
Ask ==
  /\ at = "out" /\ loop.affine
  /\ answer' \in Answer(loop, Point, DOMAIN vm) /\ at' = "answered"
  /\ UNCHANGED <<loop, elements, entry, a, v, values, before, vm>>

Next == Iterate \/ Exit \/ Leave \/ Ask

Spec == Init /\ [][Next]_vars

-----------------------------------------------------------------------------
(* The plugin asks for less than its clauses need: that the loop goes up   *)
(* to a bound it does not pass, and that nothing but the if works on m and *)
(* on the array, in every iteration.                                       *)
KeepsExtremum(s) ==
  /\ loop.step = 1 /\ loop.op \in {"LT", "NE"}
  /\ Len(loop.ifs) = 1 /\ loop.writes = {} /\ ~s.guarded /\ s.form # "*it"

(* The clauses of ParadigmMaxMinPlugin, if they are true when the loop is  *)
(* entered (some elements have been looked at before it), are true at      *)
(* every test, and m is the extremum of the array after it: whatever else  *)
(* leaves the loop, and in whichever direction the comparison is written.  *)
ExtremumClausesHold ==
  \A j \in DOMAIN loop.ifs :
    LET s == loop.ifs[j]
    IN  Matches(loop, s) /\ KeepsExtremum(s) /\ Clauses(s, entry, elements) =>
          /\ at = "head" => Clauses(s, v, a)
          /\ at = "out" => v["m"] = PostValue(loop, s, entry, elements)

(* The clause of ParadigmSearchPlugin is true at every test: no element it *)
(* quantifies over was the searched one, also when the place or the value  *)
(* that is searched moves with the index.  When the index goes up and the  *)
(* array is not written.                                                   *)
SearchClauseHolds ==
  /\ at = "head" /\ IsSearch(loop) /\ Up(loop)
  /\ "array" \notin loop.writes /\ \A j \in DOMAIN loop.ifs : loop.ifs[j].then # "stale"
  => SearchClause(loop, entry, v, elements)

(* The linear form of a value is its value: no quotient, no address.       *)
RECURSIVE Exact(_)
Exact(t) ==
  /\ t.op \notin {"/", "address"}
  /\ t.op \in {"+", "-", "*"} => Exact(t.l) /\ Exact(t.r)

Iterated == values["i"] # Var("i")

Condition == Constraints(loop.op, Var("i"), Var("n"))

EntryValues == [d \in loop.declared |-> IF d \in loop.constants THEN Lit(entry[d]) ELSE Var(d)]

(* Every iteration of the program is a transition of the system that       *)
(* StInGX is given, and its first state an initial one: what it finds      *)
(* inductive there holds of the program.  When no two variables in scope   *)
(* share a name.                                                           *)
StepsAreTransitions ==
  /\ Cardinality(Names(loop.declared)) = Cardinality(loop.declared)
  /\ \A d \in loop.declared : Exact(values[d])
  => IF Iterated
     THEN \A c \in PathPoly(values) \cup Condition \cup (IF Goes THEN Primed(Condition) ELSE {}) :
            Sat(c, Transition)
     ELSE /\ \A c \in InitPoly(EntryValues) : Sat(c, Point)
          /\ \A c \in IdentityPoly(DOMAIN vm) \cup (IF Goes THEN Primed(Condition) ELSE {}) :
               Sat(c, Transition)

(* The state after the loop is the one the run has: every variable that is *)
(* solved has its value, however the equalities depend on each other, and  *)
(* a condition with nothing left out holds, unless the run has met its     *)
(* bound exactly.  The invariant that is printed of a polyhedron the run   *)
(* is in is true, unless nothing is printed of it.                         *)
PostStateDescribesExit ==
  at = "answered" =>
    LET poly     == ToSet(answer)
        resolved == ResolveAll(FromEntry(vm, entry, loop.constants), answer)
    IN  /\ \A d \in DOMAIN resolved : resolved[d].v = Point[d]
        /\ \A c \in poly : Unknowns(resolved, c) = {} =>
             \A cond \in ConditionOf(resolved, c) :
               IF cond.op = "Equal" THEN cond.v = 0 ELSE cond.v # 0 => cond.v > 0
        /\ PrintedOf(poly) # {} =>
             \E p \in PrintedInvs({poly, {}}) : \A c \in p : Sat(c, Point)
=============================================================================

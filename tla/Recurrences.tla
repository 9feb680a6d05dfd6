---------------------------- MODULE Recurrences ----------------------------
(***************************************************************************)
(* The verified polynomial invariants of a loop (src/src/SpecGenerator/    *)
(* numericalInvariantPrototypePlugin.cpp): a transition model is extracted *)
(* from the symbolic states of one iteration, polynomials that every       *)
(* branch multiplies by one number are looked for, the equations they give *)
(* are verified one after the other, and the first proved is emitted.      *)
(* Then the loop runs.                                                     *)
(*                                                                         *)
(* A loop is given by C expressions: what its variables are set to before  *)
(* it, its condition, and for each path through the body the conditions on *)
(* it, what it sets the variables to and the array elements it touches.    *)
(* They are evaluated symbolically by EvalAt, and run by the C semantics,  *)
(* both in CExpr.                                                          *)
(***************************************************************************)
EXTENDS CExpr, MachineTypes

CONSTANTS Loops,          \* the loops, as records (see PathOf, Extract)
          MaxVariables, MaxPaths,                     \* TransitionExtractionLimits
          MaxStateVariables, MaxBranches, MaxSymbols, \* RecurrenceLimits
          MaxDegree, MaxMonomials, MaxEigenvalue, MaxCandidates,
          MaxQueries, MaxAttempts                     \* of the plugin

VARIABLES
  loop,     \* the loop
  stage,    \* "entered", "extracted", "found", or, when it is settled, "done"
  cands,    \* the candidates that are left
  attempts, \* candidates verified
  emitted,  \* {} or the clause that was emitted
  model,    \* <<>>, or the transition model
  run       \* <<>>, or what the variables were before the loop, and are at its head

vars == <<loop, stage, model, cands, attempts, emitted, run>>

(* ----------------------------- polynomials ----------------------------- *)

(* Those of src/src/Analyzer/NumericalInvariant/polynomialRecurrence.cpp.  *)
(* A polynomial over n symbols maps monomials (the exponents of the n      *)
(* symbols) to their coefficients, none of them 0.  Coefficients are       *)
(* integers here: where fractions arise, in the null space of a matrix, a  *)
(* vector has a denominator of its own.                                    *)

Degree(m) == FoldLeft(LAMBDA n, e : n + e, 0, m)

OnlyTerms(f)   == [m \in {x \in DOMAIN f : f[x] # 0} |-> f[m]] @@ <<>>
CoefOf(p, m)   == IF m \in DOMAIN p THEN p[m] ELSE 0
Unit(n, k)     == [i \in 1..n |-> IF i = k THEN 1 ELSE 0] \o <<>>
constant(n, v) == OnlyTerms([m \in {Unit(n, 0)} |-> v])
variable(n, k) == [m \in {Unit(n, k)} |-> 1]

dependsOnAny(p, places) == \E m \in DOMAIN p, i \in places : m[i] # 0

addScaled(p, q, scale) ==
  OnlyTerms([m \in DOMAIN p \cup DOMAIN q |-> CoefOf(p, m) + scale * CoefOf(q, m)])

(* A ParseResult: a polynomial, or what is wrong. *)
Parsed(p)   == [failure |-> "None", polynomial |-> p]
Failed(why) == [failure |-> why, polynomial |-> <<>>]

(* The terms of a product: refused when one of them is too high, even if it cancels. *)
multiplied(p, q) ==
  LET pairs == (DOMAIN p) \X (DOMAIN q)
      mono(pq) == [i \in DOMAIN pq[1] |-> pq[1][i] + pq[2][i]] \o <<>>
      coef(m)  == MapThenSumSet(LAMBDA pq : p[pq[1]] * q[pq[2]], {pq \in pairs : mono(pq) = m})
  IN IF \E pq \in pairs : Degree(pq[1]) + Degree(pq[2]) > MaxDegree THEN Failed("Degree")
     ELSE Parsed(OnlyTerms([m \in {mono(pq) : pq \in pairs} |-> coef(m)]))

(* The expression t as a polynomial over symbols. *)
RECURSIVE parsePolynomial(_, _)
parsePolynomial(t, symbols) ==
  LET n == Len(symbols)
      known == {k \in 1..n : symbols[k] = t}
      unary(r) == CASE r.failure # "None" \/ t.op = "+" -> r
                    [] r.failure = "None" /\ t.op = "-" -> Parsed(addScaled(constant(n, 0), r.polynomial, -1))
                    [] OTHER -> Failed("Unsupported")
      combined(p, q) == CASE t.op = "+" -> Parsed(addScaled(p, q, 1))
                          [] t.op = "-" -> Parsed(addScaled(p, q, -1))
                          [] t.op = "*" -> multiplied(p, q)
                          [] OTHER      -> Failed("Unsupported")
      binary(l, r) == CASE l.failure # "None" -> l
                        [] l.failure = "None" /\ r.failure # "None" -> r
                        [] OTHER -> combined(l.polynomial, r.polynomial)
  IN CASE known # {} -> Parsed(variable(n, CHOOSE k \in known : TRUE))
       [] known = {} /\ t.node = "lit" -> Parsed(constant(n, t.v))
       [] known = {} /\ t.node = "un"  -> unary(parsePolynomial(t.e, symbols))
       [] known = {} /\ t.node = "bin" -> binary(parsePolynomial(t.l, symbols), parsePolynomial(t.r, symbols))
       [] OTHER -> Failed("Unsupported")

(* By degree, then by the exponents. *)
ExponentsLess(a, b) ==
  \/ Degree(a) < Degree(b)
  \/ Degree(a) = Degree(b) /\ \E i \in DOMAIN a : a[i] < b[i] /\ \A j \in 1..(i - 1) : a[j] = b[j]

generateMonomials(n) ==
  LET all == {m \in [1..n -> 0..MaxDegree] : Degree(m) <= MaxDegree}
      rank == [m \in all |-> 1 + Cardinality({x \in all : ExponentsLess(x, m)})]
  IN [i \in 1..Cardinality(all) |-> CHOOSE m \in all : rank[m] = i] \o <<>>

(* The product of the terms, each of them a polynomial. *)
Product(n, factors) ==
  FoldLeft(LAMBDA r, q : IF r.failure # "None" THEN r ELSE multiplied(r.polynomial, q),
           Parsed(constant(n, 1)), factors)

(* p with the symbol i replaced by the polynomial replacements[i]. *)
substitute(p, replacements) ==
  LET n == Len(replacements)
      factors(m) == FlattenSeq([i \in 1..n |-> [j \in 1..m[i] |-> replacements[i]]])
      term == [m \in DOMAIN p |-> Product(n, factors(m))]
  IN IF \E m \in DOMAIN p : term[m].failure # "None" THEN Failed("Degree")
     ELSE Parsed(FoldSet(LAMBDA m, sum : addScaled(sum, term[m].polynomial, p[m]), constant(n, 0), DOMAIN p))

(* The value of p where the symbols have the values v. *)
ValueOf(p, v) ==
  LET power(m) == FoldLeft(LAMBDA r, i : IF m[i] = 0 THEN r ELSE r * v[i]^m[i], 1, [i \in DOMAIN m |-> i])
  IN MapThenSumSet(LAMBDA m : p[m] * power(m), DOMAIN p)

(* ------------------------------ null space ----------------------------- *)

RECURSIVE Gcd(_, _)
Gcd(a, b) == IF b = 0 THEN Abs(a) ELSE Gcd(b, Abs(a) % Abs(b))

Content(v)   == FoldLeft(Gcd, 0, v)
Scaled(v, d) == [i \in DOMAIN v |-> v[i] \div d] \o <<>>

PivotOf(row) == CHOOSE k \in DOMAIN row : row[k] # 0 /\ \A j \in 1..(k - 1) : row[j] = 0

(* Denominator, common divisor and sign removed. *)
normalizeVector(v) ==
  LET d == Content(v)
  IN IF d = 0 THEN v ELSE Scaled(v, IF v[PivotOf(v)] < 0 THEN -d ELSE d)

(* The rows of the reduced row echelon form. *)
Echelon(rows, n) ==
  LET clear(r, p, k) ==
        IF r[k] = 0 THEN r
        ELSE LET w == [i \in 1..n |-> r[i] * p[k] - p[i] * r[k]] \o <<>>
             IN IF Content(w) = 0 THEN w ELSE Scaled(w, Content(w))
      step(form, k) ==
        LET able == {r \in form.rest : r[k] # 0}
        IN IF able = {} THEN form
           ELSE LET p == CHOOSE r \in able : TRUE
                IN [rest   |-> {clear(r, p, k) : r \in form.rest \ {p}},
                    pivots |-> {clear(r, p, k) : r \in form.pivots} \cup {p}]
  IN FoldLeft(step, [rest |-> rows, pivots |-> {}], [i \in 1..n |-> i]).pivots

(* One vector for each column without a pivot, in their order. *)
nullspace(rows, n) ==
  LET pivots  == Echelon(rows, n)
      columns == {PivotOf(r) : r \in pivots}
      rowOf   == [k \in columns |-> CHOOSE r \in pivots : PivotOf(r) = k] @@ <<>>
      free    == SelectSeq([i \in 1..n |-> i], LAMBDA i : i \notin columns)
      den     == FoldSet(LAMBDA k, d : Abs(rowOf[k][k]) * (d \div Gcd(d, rowOf[k][k])), 1, columns)
      entry(i, f) == CASE i = f -> den
                       [] i \in columns -> -(rowOf[i][f] * (den \div rowOf[i][i]))
                       [] OTHER -> 0
  IN [v \in DOMAIN free |-> [num |-> [i \in 1..n |-> entry(i, free[v])] \o <<>>, den |-> den]] \o <<>>

(* Sums of two vectors each, in order, until there are limit vectors. *)
WithSums(vectors, limit) ==
  LET n == Len(vectors)
      sum(l, r) == [num |-> [i \in DOMAIN l.num |-> l.num[i] * r.den + r.num[i] * l.den] \o <<>>, den |-> l.den * r.den]
      sums == FlattenSeq([l \in 1..n |-> [k \in 1..(n - l) |-> sum(vectors[l], vectors[l + k])]])
      room == IF limit > n THEN limit - n ELSE 0
  IN vectors \o SubSeq(sums, 1, IF Len(sums) < room THEN Len(sums) ELSE room)

(* The polynomial whose coefficients are the elements of v. *)
polynomialFromVector(v, monomials) ==
  [m \in {monomials[i] : i \in {k \in DOMAIN v : v[k] # 0}} |-> v[CHOOSE i \in DOMAIN v : monomials[i] = m]] @@ <<>>

(* ------------------------------ extraction ----------------------------- *)

conjunction(terms) ==
  IF terms = <<>> THEN Lit(Bool, 1)
  ELSE FoldLeft(LAMBDA a, b : Bin(a, "&&", b), Head(terms), Tail(terms))

(* The condition an access leaves that is off elements into an array of extent elements. *)
BoundOf(off, extent) ==
  LET long  == UInt(Width[4])
      lower == IF off.ty.kind = "Int" THEN Retype(Bin(off, ">=", Retype(Lit(SInt(Width[3]), 0), off.ty)), Bool)
               ELSE Lit(Bool, 1)
      upper == Retype(Bin(Cast(off, long), "<", Lit(long, extent)), Bool)
  IN Retype(Bin(lower, "&&", upper), Bool)

AccessBound(a) ==
  BoundOf(Shifted(SymAddr(VarAddr("p"), "loop", Zero, None), "+", EvalExpr(a.index)).off, a.extent)

(* A condition that evaluated to true or to false. *)
Decided(t, holds) == IF holds THEN t ELSE Un("!", t)

PathOf(p) ==
  [guard  |-> [i \in DOMAIN p.conds |-> Decided(EvalExpr(p.conds[i].e), p.conds[i].holds)] \o <<>>,
   next   |-> [i \in DOMAIN p.next |-> EvalExpr(p.next[i])] \o <<>>,
   access |-> [i \in DOMAIN p.access |-> AccessBound(p.access[i])] \o <<>>]

(* The states before the loop, at its head and after one iteration. *)
Evaluated(l) ==
  [current   |-> [i \in DOMAIN l.vars |-> EvalExpr(CRef(<<l.vars[i]>>))] \o <<>>,
   entry     |-> [i \in DOMAIN l.vars |-> EvalAt(l.entry[i], "begin")] \o <<>>,
   known     |-> {EvalAt(e, "begin") : e \in l.known},
   condition |-> EvalExpr(l.cond),
   branches  |-> [i \in DOMAIN l.paths |-> PathOf(l.paths[i])] \o <<>>]

(* What is computed from the symbols current alone, in the C type ty. *)
Typable(t, ty, current) == usesOnlyCurrentSymbols(t, current, TRUE) /\ exactMachineExpressionType(t, current) = ty

Taken(b, current) ==
  /\ \A t \in ToSet(b.guard) \cup ToSet(b.access) : Typable(t, Bool, ToSet(current))
  /\ \A i \in DOMAIN current : Typable(b.next[i], current[i].ty, ToSet(current))

WithParameters(e) ==
  LET used == UNION {Symbols(t) : t \in ToSet(e.entry) \cup e.known \cup UNION {ToSet(b.access) : b \in ToSet(e.branches)}}
  IN e @@ [parameters |-> SetToSeq(used \ ToSet(e.current))]

(* extractTransitionModel, for C integers: <<>> when it fails. *)
Extracted(l, e) ==
  IF /\ l.paths # <<>> /\ Len(l.paths) <= MaxPaths
     /\ l.vars # <<>> /\ Len(l.vars) <= MaxVariables
     /\ Typable(e.condition, Bool, ToSet(e.current))
     /\ \A i \in DOMAIN l.paths : ~l.paths[i].unknown /\ Taken(e.branches[i], e.current)
  THEN <<WithParameters(e)>> ELSE <<>>

(* ------------------------------ discovery ------------------------------ *)

(* The symbols of the polynomials: values at the head, entries, parameters. *)
SymbolsOf(m) ==
  LET add(s, t) == IF t.node = "lit" \/ t \in ToSet(s) THEN s ELSE Append(s, t)
  IN FoldLeft(add, m.current, m.entry \o m.parameters)

Changed(m) == {i \in DOMAIN m.current : \E b \in ToSet(m.branches) : b.next[i] # m.current[i]}

(* Mutant: only the coefficients of the updates are tried. *)
eigenvaluesFromUpdates(updates) ==
  {0} \cup {c \in UNION {{p[e] : e \in DOMAIN p} : p \in updates} : Abs(c) <= MaxEigenvalue}

eigenvalues(updates) ==
  {-1, 0, 1} \cup {c \in UNION {{p[e] : e \in DOMAIN p} : p \in updates} : Abs(c) <= MaxEigenvalue}

(* The rows of the matrix of a substitution, less lambda on the diagonal. *)
Rows(images, monomials, lambda) ==
  {[k \in DOMAIN monomials |-> CoefOf(images[k], monomials[i]) - (IF i = k THEN lambda ELSE 0)] \o <<>> :
     i \in DOMAIN monomials}

(* Whatever a polynomial is multiplied by, it keeps its value when that is *)
(* 1, and stays 0 if it is 0 at the entry.                                 *)
Invariant(p, lambda, atEntry) ==
  CASE lambda = 1 -> {[left |-> p, right |-> atEntry]}
    [] lambda # 1 /\ DOMAIN atEntry = {} -> {[left |-> p, right |-> atEntry]}
    [] OTHER -> {}

(* The candidates of an eigenvalue, added to those found. *)
WithCandidates(found, vectors, lambda, monomials, places, entries) ==
  LET candidate(v) ==
        LET p == polynomialFromVector(normalizeVector(v.num), monomials)
        IN [poly |-> p, lambda |-> lambda, invariant |-> Invariant(p, lambda, substitute(p, entries).polynomial)]
      add(cs, v) ==
        IF Len(cs) >= MaxCandidates \/ ~dependsOnAny(candidate(v).poly, places) \/ candidate(v) \in ToSet(cs)
        THEN cs ELSE Append(cs, candidate(v))
  IN FoldLeft(add, found, vectors)

(* discoverPolynomialRecurrences: <<>> when it fails, <<candidates>> if not. *)
discover(m) ==
  LET symbols   == SymbolsOf(m)
      n         == Len(symbols)
      own       == [i \in 1..n |-> variable(n, i)] \o <<>>
      parsed    == [b \in DOMAIN m.branches |-> [i \in DOMAIN m.current |-> parsePolynomial(m.branches[b].next[i], symbols)] \o <<>>] \o <<>>
      entries   == [i \in DOMAIN m.current |-> parsePolynomial(m.entry[i], symbols).polynomial] \o
                   SubSeq(own, Len(m.current) + 1, n)
      monomials == generateMonomials(n)
      basis(i)  == [e \in {monomials[i]} |-> 1]
      replacements(b) == [i \in 1..n |-> IF i \in DOMAIN m.current THEN parsed[b][i].polynomial ELSE own[i]] \o <<>>
      images    == [b \in DOMAIN m.branches |-> [i \in DOMAIN monomials |-> substitute(basis(i), replacements(b))] \o <<>>] \o <<>>
      rows(lambda) == UNION {Rows([i \in DOMAIN monomials |-> images[b][i].polynomial] \o <<>>, monomials, lambda) : b \in DOMAIN m.branches}
      vectors(lambda) == WithSums(nullspace(rows(lambda), Len(monomials)), MaxCandidates)
      updates   == {r.polynomial : r \in UNION {ToSet(parsed[b]) : b \in DOMAIN m.branches}}
      search(found, lambda) == WithCandidates(found, vectors(lambda), lambda, monomials, Changed(m), entries)
  IN CASE Len(m.current) > MaxStateVariables \/ Len(m.branches) > MaxBranches \/ n > MaxSymbols -> <<>>
       [] Len(monomials) > MaxMonomials -> <<>>
       [] \E b \in DOMAIN m.branches : \E r \in ToSet(parsed[b]) : r.failure # "None" -> <<>>
       [] \E b \in DOMAIN m.branches : \E r \in ToSet(images[b]) : r.failure # "None" -> <<>>
       [] OTHER -> <<FoldLeft(search, <<>>, SetToSortSeq(eigenvalues(updates), <))>>

(* ----------------------------- verification ---------------------------- *)

ValuesOf(ty) ==
  CASE ty.kind = "Int"  -> -2^(ty.w - 1)..(2^(ty.w - 1) - 1)
    [] ty.kind = "UInt" -> 0..(2^ty.w - 1)
    [] OTHER            -> {0, 1}

(* What the solver chooses: values of the variables, then of the parameters. *)
Leaves(m)     == m.current \o m.parameters
ranges(terms) == FoldLeft(LAMBDA vs, t : {Append(v, n) : v \in vs, n \in ValuesOf(t.ty)}, {<<>>}, terms)

(* t read as mathematics, when the leaves have the values v. *)
Reading(t, leaves, v) ==
  LET at == [pt \in {"begin", "loop"} |->
               [loc \in {<<leaves[i].addr.var>> : i \in {k \in DOMAIN leaves : leaves[k].pt = pt}} |->
                  v[CHOOSE i \in DOMAIN leaves : leaves[i].pt = pt /\ <<leaves[i].addr.var>> = loc]]]
  IN Val(t, at, 0)[1]

Readings(terms, leaves, v) == [i \in DOMAIN terms |-> Reading(terms[i], leaves, v)] \o <<>>

(* A clause: an equation, and that the index moves one way. *)
ClauseHolds(clause, full, entry) ==
  /\ ValueOf(clause.left, full) = ValueOf(clause.right, full)
  /\ \A k \in clause.rising  : full[k] >= entry[k]
  /\ \A k \in clause.falling : full[k] <= entry[k]

(* The obligations of verifyWithBudget.  The clause and what is known at   *)
(* the entry are read as mathematics, the loop as C.                       *)
Inductive(m, clause) ==
  LET current == DOMAIN m.current
      leaves  == Leaves(m)
      symbols == SymbolsOf(m)
      rest    == SubSeq(symbols, Len(m.current) + 1, Len(symbols))
      holds(v) == ClauseHolds(clause, SubSeq(v, 1, Len(m.current)) \o Readings(rest, leaves, v),
                              Readings(m.entry, leaves, v))
      starts  == {v \in {Readings(m.entry, m.parameters, p) \o p : p \in ranges(m.parameters)} :
                    /\ \A i \in current : v[i] \in ValuesOf(m.current[i].ty)
                    /\ \A t \in m.known : Reading(t, leaves, v) # 0}
      preserved(b, v, val) ==
        LET next == [i \in current |-> translate(b.next[i], val)] \o <<>>
        IN /\ \A i \in current : next[i].defined
           /\ \A t \in ToSet(b.access) : LET a == translate(t, val) IN a.defined /\ a.v # 0
           /\ holds([i \in DOMAIN v |-> IF i \in current THEN next[i].v ELSE v[i]] \o <<>>)
      branch(b, v, val) ==
        LET guard == translate(conjunction(b.guard), val)
        IN guard.defined /\ (guard.v # 0 => preserved(b, v, val))
      body(v, val) ==
        LET condition == translate(m.condition, val)
        IN condition.defined /\ (condition.v # 0 => \A b \in ToSet(m.branches) : branch(b, v, val))
  IN /\ \A v \in starts : holds(v)
     /\ \A v \in ranges(leaves) :
          holds(v) => body(v, [t \in ToSet(leaves) |-> v[CHOOSE i \in DOMAIN v : leaves[i] = t]])

(* Two obligations for the loop and two for each branch; entries with a    *)
(* conversion are not put to the solver.                                   *)
Provable(m, clause) ==
  /\ 2 + 2 * Len(m.branches) <= MaxQueries
  /\ \A t \in ToSet(m.entry) \cup m.known : usesOnlyCurrentSymbols(t, ToSet(m.parameters), FALSE)
  /\ Inductive(m, clause)

(* -------------------------------- plugin ------------------------------- *)

MaxOfDegrees(p) == FoldSet(LAMBDA e, d : MaxOf(Degree(e), d), 0, DOMAIN p)

(* Those with an equation, the simplest first.  Equally simple ones are in *)
(* the order of their texts in the code, in that of discovery here.        *)
Ordered(found) ==
  LET simpler(a, b) == \/ Cardinality(DOMAIN a.poly) < Cardinality(DOMAIN b.poly)
                       \/ /\ Cardinality(DOMAIN a.poly) = Cardinality(DOMAIN b.poly)
                          /\ MaxOfDegrees(a.poly) < MaxOfDegrees(b.poly)
  IN SortSeq(SelectSeq(found, LAMBDA c : c.invariant # {}), simpler)

(* The equation and, when the loop has an index, that it moves one way. *)
ClauseOf(l, c) ==
  LET e == CHOOSE q \in c.invariant : TRUE
  IN [left |-> e.left, right |-> e.right,
      rising  |-> {k \in DOMAIN l.vars : l.step[k] > 0},
      falling |-> {k \in DOMAIN l.vars : l.step[k] < 0}]

Init ==
  /\ loop \in Loops
  /\ stage = "entered"
  /\ model = <<>>
  /\ cands = <<>>
  /\ attempts = 0
  /\ emitted = {}
  /\ run = <<>>

ExtractModel ==
  /\ stage = "entered"
  /\ model' = Extracted(loop, Evaluated(loop))
  /\ stage' = IF model' = <<>> THEN "done" ELSE "extracted"
  /\ UNCHANGED <<loop, cands, attempts, emitted, run>>

Discover ==
  /\ stage = "extracted"
  /\ \E found \in {discover(model[1])} :
       IF found = <<>> THEN stage' = "done" /\ cands' = cands
       ELSE stage' = "found" /\ cands' = found[1]
  /\ UNCHANGED <<loop, model, attempts, emitted, run>>

Order ==
  /\ stage = "found"
  /\ stage' = "ordered"
  /\ cands' = Ordered(cands)
  /\ UNCHANGED <<loop, model, attempts, emitted, run>>

(* The next candidate; the solver may be at a loss with one that is inductive. *)
Attempt ==
  /\ stage = "ordered" /\ cands # <<>> /\ attempts < MaxAttempts /\ emitted = {}
  /\ LET clause == ClauseOf(loop, Head(cands))
     IN emitted' \in {{}} \cup {{c} : c \in {x \in {clause} : Provable(model[1], x)}}
  /\ cands' = Tail(cands)
  /\ attempts' = attempts + 1
  /\ UNCHANGED <<loop, model, stage, run>>

Finish ==
  /\ stage = "ordered" /\ (cands = <<>> \/ attempts = MaxAttempts \/ emitted # {})
  /\ stage' = "done"
  /\ UNCHANGED <<loop, model, cands, attempts, emitted, run>>

(* ----------------------------- the loop in C --------------------------- *)

State(l, v) == [loc \in {<<l.vars[i]>> : i \in DOMAIN l.vars} |-> v[CHOOSE i \in DOMAIN l.vars : <<l.vars[i]>> = loc]]

(* The variables before the loop: parameters of the function, or not yet set. *)
Origins(l) ==
  LET free(i) == l.entry[i] = CRef(<<l.vars[i]>>)
  IN FoldLeft(LAMBDA vs, i : {Append(v, n) : v \in vs, n \in IF free(i) THEN ValuesOf(Typed[<<l.vars[i]>>]) ELSE {0}},
              {<<>>}, [i \in DOMAIN l.vars |-> i])

Reach ==
  /\ stage = "done" /\ run = <<>>
  /\ \E o \in Origins(loop) :
       LET s == State(loop, o)
           value == [i \in DOMAIN loop.vars |-> CVal(loop.entry[i], s, FALSE)] \o <<>>
       IN /\ \A e \in loop.known : CVal(e, s, FALSE) \notin {<<>>, <<0>>}
          /\ \A i \in DOMAIN value : value[i] # <<>>
          /\ run' = [before |-> o, x |-> [i \in DOMAIN value |-> value[i][1]] \o <<>>]
  /\ UNCHANGED <<loop, model, stage, cands, attempts, emitted>>

(* A head is left into the body; the condition of a do-while loop is tested behind it. *)
Iterate ==
  LET goes(s) == CVal(loop.cond, s, FALSE) \notin {<<>>, <<0>>}
      s == State(loop, run.x)
      inBounds(a) == LET k == CVal(a.index, s, FALSE) IN k # <<>> /\ k[1] \in 0..(a.extent - 1)
  IN /\ run # <<>>
     /\ loop.kind = "while" => goes(s)
     /\ \E p \in ToSet(loop.paths) :
          LET next == [i \in DOMAIN p.next |-> CVal(p.next[i], s, FALSE)] \o <<>>
              x    == [i \in DOMAIN next |-> next[i][1]] \o <<>>
          IN /\ \A c \in ToSet(p.conds) : LET v == CVal(c.e, s, FALSE) IN v # <<>> /\ (v # <<0>>) = c.holds
             /\ \A a \in ToSet(p.access) : inBounds(a)
             /\ \A i \in DOMAIN next : next[i] # <<>>
             /\ loop.kind = "do" => goes(State(loop, x))
             /\ run' = [run EXCEPT !.x = x]
     /\ UNCHANGED <<loop, model, stage, cands, attempts, emitted>>

Next == ExtractModel \/ Discover \/ Order \/ Attempt \/ Finish \/ Reach \/ Iterate

Spec == Init /\ [][Next]_vars

(* ------------------------------ properties ----------------------------- *)

(* Points that tell polynomials of this degree apart. *)
Grid(n) == FoldLeft(LAMBDA vs, i : {Append(v, k) : v \in vs, k \in -1..1}, {<<>>}, [i \in 1..n |-> i])

(* Where a branch leads from a point, over the integers. *)
Image(m, b, g) ==
  Readings(b.next, m.current, SubSeq(g, 1, Len(m.current))) \o SubSeq(g, Len(m.current) + 1, Len(g))

(* Every branch multiplies the polynomial by lambda. *)
RecurrencesHold(m) ==
  \A g \in Grid(Len(SymbolsOf(m))) :
    \A b \in ToSet(m.branches) :
      LET next == Image(m, b, g)
      IN \A c \in ToSet(cands) : ValueOf(c.poly, next) = c.lambda * ValueOf(c.poly, g)

(* Whatever combination of the variables every branch multiplies by one of *)
(* the numbers -1, 0 and 1 can be computed from the polynomials found for  *)
(* that number and the symbols that no branch changes.                     *)
PreservedIsFound(m) ==
  LET n     == Len(m.current)
      grid  == Grid(Len(SymbolsOf(m)))
      steps == {<<g, Image(m, b, g)>> : g \in grid, b \in ToSet(m.branches)}
      sum(a, g) == FoldLeft(LAMBDA s, i : s + a[i] * g[i], 0, [i \in 1..n |-> i])
      kept == [i \in DOMAIN SymbolsOf(m) |-> i \notin Changed(m)]
      known(g, lambda) ==
        [i \in DOMAIN cands |-> IF cands[i].lambda = lambda THEN ValueOf(cands[i].poly, g) ELSE 0] \o
        [i \in DOMAIN kept |-> IF kept[i] THEN g[i] ELSE 0]
  IN \A lambda \in -1..1 :
       LET seen == [g \in grid |-> known(g, lambda)]
       IN \A a \in [1..n -> -1..2] :
            (\A s \in steps : sum(a, s[2]) = lambda * sum(a, s[1]))
              => Cardinality({<<seen[g], sum(a, g)>> : g \in grid}) = Cardinality({seen[g] : g \in grid})

(* What is found for a loop are recurrences of all its branches (a null    *)
(* vector of each matrix, scaled and with sums, read as a polynomial), and *)
(* no linear one is missed while there is room for it                      *)
(* (discoverPolynomialRecurrences).                                        *)
CandidatesAreExact ==
  stage = "found" => LET m == model[1]
                     IN RecurrencesHold(m) /\ (Len(cands) < MaxCandidates => PreservedIsFound(m))

(* The clause at the head of the running loop, its entries read as mathematics. *)
ClauseAtHead(m, clause) ==
  LET before == State(loop, run.before)
      value  == run.x \o [i \in DOMAIN m.parameters |-> before[<<m.parameters[i].addr.var>>]]
      rest   == SubSeq(SymbolsOf(m), Len(run.x) + 1, Len(SymbolsOf(m)))
  IN ClauseHolds(clause, run.x \o Readings(rest, Leaves(m), value), Readings(m.entry, Leaves(m), value))

(* Before the loop, C computes what mathematics would. *)
EntryIsExact ==
  \A i \in DOMAIN loop.vars : CVal(loop.entry[i], State(loop, run.before), TRUE) # <<>>

(* An emitted clause was verified over machine integers, so it holds       *)
(* whenever the C loop is at its head, from every start, on every branch,  *)
(* through every wrap of an unsigned variable; for loops that test their   *)
(* condition first, and entries that C computes without a wrap             *)
(* (verifyWithBudget, NumericalInvariantPrototypePlugin).                  *)
EmittedHolds ==
  run # <<>> /\ emitted # {} /\ loop.kind = "while" /\ EntryIsExact
    => \A clause \in emitted : ClauseAtHead(model[1], clause)

(* The same of every loop and every entry: what the guide of the plugin    *)
(* promises of a candidate that is proved                                  *)
(* (docs/numericalInvariantPrototypeGuide.md).                             *)
AnyEmittedHolds ==
  run # <<>> => \A clause \in emitted : ClauseAtHead(model[1], clause)
=============================================================================

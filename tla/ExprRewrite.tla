---------------------------- MODULE ExprRewrite ----------------------------
(***************************************************************************)
(* What happens to a symbolic expression after it has been evaluated: it   *)
(* is imported into another factory, its symbols are replaced (by given    *)
(* expressions, by the contents of a path's memory, or the index of a      *)
(* range by an expression), and it is printed as an ACSL term              *)
(* (src/src/Analyzer/Symbolic/expr.cpp, aggregateExpr.cpp).                *)
(***************************************************************************)
EXTENDS ExprTerms

(* A node built anew over what F makes of its operands: an operator has    *)
(* the type of its first operand and a literal the type it is written in.  *)
Rebuilt(F(_), t) ==
  CASE t.node = "lit"   -> Lit(t.lit, t.v)
    [] t.node = "un"    -> Un(t.op, F(t.e))
    [] t.node = "bin"   -> Bin(F(t.l), t.op, F(t.r))
    [] t.node = "cast"  -> Cast(F(t.e), t.ty)
    [] t.node = "sym"   -> SymValue(t.ty, F(t.addr), t.pt)
    [] t.node = "addr"  -> SymAddr(F(t.from), t.pt, F(t.off), F(t.len))
    [] t.node = "field" -> FieldAddr(F(t.base), t.field)
    [] t.node = "over"  -> Over(t.agg, F(t.range), F(t.body))
    [] OTHER            -> t

(* ------------------------------- import -------------------------------- *)

(* importNode gives every node but a cast the type it had. *)
RECURSIVE Import(_)
Import(t) == IF t.node = "cast" THEN Rebuilt(Import, t) ELSE Retype(Rebuilt(Import, t), t.ty)

(* ---------------------------- substitution ----------------------------- *)

(* A cell of the path's memory, found whatever form its offset has. *)
Cell(a) == IF a.node = "addr" THEN [a EXCEPT !.off = Simplify(a.off)] ELSE a

(* The value an address a holds at the end of the path: what the path wrote to its cell, or what was there. *)
ReadEnd(how, ty, a, cell) == IF cell \in DOMAIN how.store THEN how.store[cell] ELSE SymValue(ty, a, how.start)

(* Mutant: the pointer is taken to be where it was. *)
AddrEndUnmoved(how, from, cell, off) == SymAddr(from, how.start, off, None)

(* An address reached through a pointer, held in cell, that the path may have moved. *)
AddrEnd(how, from, cell, off) ==
  IF cell \in DOMAIN how.store THEN Shifted(AsAddress(how.store[cell]), "+", off)
  ELSE SymAddr(from, how.start, off, None)

(* What stands for the node t, whose operands sub replaces: the three      *)
(* substitutions differ only in this.                                      *)
Replaced(t, how, sub(_)) ==
  LET moved(from)  == AddrEnd(how, from, Cell(from), Simplify(sub(t.off)))
      ranged(a)    == IF t.len = None THEN a ELSE WithLength(a, Simplify(sub(t.len)))
      read(addr)   == ReadEnd(how, t.ty, addr, Cell(addr))
  IN CASE how.kind = "values" /\ t \in DOMAIN how.values -> how.values[t]
       [] how.kind = "index" /\ t.node = "index" -> how.e
       [] how.kind = "path" /\ t.node \in {"sym", "addr"} /\ t.pt # how.pt -> t
       [] how.kind = "path" /\ t.node = "sym" /\ t.pt = how.pt -> read(sub(t.addr))
       [] how.kind = "path" /\ t.node = "addr" /\ t.pt = how.pt ->
            IF t.from = None THEN t ELSE ranged(moved(sub(t.from)))
       [] OTHER -> Rebuilt(sub, t)

RECURSIVE Substitute(_, _)
Substitute(t, how) == Replaced(t, how, LAMBDA e : Substitute(e, how))

SubstituteValues(t, values) == Substitute(t, [kind |-> "values", values |-> values])

SubstituteRangeIndex(t, e) == Substitute(t, [kind |-> "index", e |-> e])

(* t, which names values at pt, told from the start of a path that leads to pt. *)
SubstitutePath(t, store, pt, from) ==
  Substitute(t, [kind |-> "path", store |-> store, pt |-> pt, start |-> from])

(* ------------------------------ printing ------------------------------- *)

Prec(op) ==
  CASE op \in {"*", "/", "%"}         -> 90
    [] op \in {"+", "-"}              -> 80
    [] op \in {"<<", ">>"}            -> 70
    [] op \in {"<", ">", "<=", ">="}  -> 60
    [] op \in {"==", "!="}            -> 50
    [] op = "&"                       -> 40
    [] op = "&&"                      -> 25
    [] op = "||"                      -> 20
    [] op = ".."                      -> 11
PrefixPrec  == 100
PostfixPrec == 110

Op(s)    == <<<<"op", s>>>>
Num(n)   == IF n < 0 THEN <<<<"op", "-">>, <<"num", -n>>>> ELSE <<<<"num", n>>>>
Enclosed(toks) == Op("(") \o toks \o Op(")")

(* Mutant: a second operand of equal precedence is not enclosed. *)
ParensTighter(mine, parent, second) == mine < parent

(* Whether an operator is enclosed: by a tighter parent, or as the second operand of an equal one. *)
Parens(mine, parent, second) == mine < parent \/ (mine = parent /\ second /\ mine # PrefixPrec)
ParensIf(cond, toks) == IF cond THEN Enclosed(toks) ELSE toks

(* Two signs next to each other are read as one operator. *)
Glued(sign, toks) ==
  IF sign \in {"+", "-"} /\ Head(toks) = <<"op", sign>> THEN Op(sign \o sign) \o Tail(toks)
  ELSE Op(sign) \o toks

(* A value held at another point than the current one is read with \at. *)
At(pt, now, toks) == IF pt = now THEN toks ELSE <<<<"at", pt>>>> \o Enclosed(toks)

(* An (in)equality of a truth value with 0 or 1 is printed as that truth value. *)
TruthTest(t) ==
  LET test(b, c) ==
        IF t.op \in {"==", "!="} /\ c.node = "lit" /\ c.v \in {0, 1} /\ IsBoolean(b)
        THEN [e |-> b, holds |-> (t.op = "==") = (c.v = 1)] ELSE None
      either(x, y) == IF x # None THEN x ELSE y
  IN either(test(t.l, t.r), test(t.r, t.l))

RECURSIVE GetACSL(_, _, _, _)
RECURSIVE GetACSLOfValue(_, _, _, _)

(* getACSL of an expression at the point now. *)
GetACSL(t, now, parent, second) ==
  CASE t.node = "lit"   -> Num(t.v)
    [] t.node = "index" -> <<<<"index">>>>
    [] t.node = "cast"  -> <<<<"cast", t.ty>>>> \o Enclosed(GetACSL(t.e, now, 0, FALSE))
    [] t.node = "un"    -> ParensIf(Parens(PrefixPrec, parent, second),
                                    Glued(t.op, GetACSL(t.e, now, PrefixPrec, TRUE)))
    [] t.node = "bin" /\ TruthTest(t) # None ->
         LET b == GetACSL(TruthTest(t).e, now, Prec(t.op), FALSE)
         IN IF TruthTest(t).holds THEN b ELSE Op("!") \o Enclosed(b)
    [] t.node = "bin" /\ TruthTest(t) = None ->
         ParensIf(Parens(Prec(t.op), parent, second),
                  GetACSL(t.l, now, Prec(t.op), FALSE) \o Op(t.op) \o GetACSL(t.r, now, Prec(t.op), TRUE))
    [] t.node = "sym"   -> At(t.pt, now, IF t.pt = now THEN GetACSLOfValue(t.addr, t.pt, parent, second)
                                         ELSE GetACSLOfValue(t.addr, t.pt, 0, FALSE))
    [] t.node = "addr"  ->
         LET off  == GetACSL(t.off, now, Prec("+"), TRUE)
             tail == IF off = Num(0) THEN <<>> ELSE Op("+") \o off
             base(p, s) == At(t.pt, now, IF t.pt = now THEN GetACSLOfValue(t.from, t.pt, p, s)
                                         ELSE GetACSLOfValue(t.from, t.pt, 0, FALSE))
         IN IF tail = <<>> THEN base(parent, second)
            ELSE ParensIf(Parens(Prec("+"), parent, second), base(Prec("+"), FALSE) \o tail)
    [] t.node = "over"  ->
         LET hi == Simplify(Bin(t.range.off, "+", t.range.len))
         IN <<<<"over", t.agg>>>> \o GetACSL(Simplify(t.range.off), now, Prec("<"), FALSE) \o Op("<=")
              \o <<<<"index">>>> \o Op("<") \o GetACSL(hi, now, Prec("<"), TRUE) \o Op("then")
              \o GetACSL(Simplify(t.body), now, IF t.agg = "all" THEN 15 ELSE Prec("&&"), TRUE)
    [] OTHER -> Op("&") \o GetACSLOfValue(t, now, PrefixPrec, TRUE)

(* getACSLOfValue: the contents of an address, at the point where it is read. *)
GetACSLOfValue(a, now, parent, second) ==
  CASE a.node = "var"   -> <<<<"id", a.var>>>>
    [] a.node = "field" -> GetACSLOfValue(a.base, now, PostfixPrec, FALSE) \o Op(".") \o <<<<"id", a.field>>>>
    [] a.node = "addr"  ->
         LET same == a.pt = now
             name(p, s) == At(a.pt, now, GetACSLOfValue(a.from, a.pt, IF same THEN p ELSE 0, same /\ s))
             range == a.len # None
             off   == GetACSL(a.off, now, IF range THEN Prec("..") ELSE 0, FALSE)
             last  == Simplify(Bin(Simplify(Bin(a.off, "+", a.len)), "-", Long(1)))
             elem  == name(PostfixPrec, FALSE) \o Op("[") \o off
         IN CASE range -> elem \o Op("..") \o GetACSL(last, now, Prec(".."), TRUE) \o Op("]")
              [] ~range /\ off = Num(0) ->
                   ParensIf(Parens(PrefixPrec, parent, second), Op("*") \o name(PrefixPrec, TRUE))
              [] OTHER -> ParensIf(Parens(PostfixPrec, parent, second), elem \o Op("]"))

=============================================================================

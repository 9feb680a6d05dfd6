----------------------------- MODULE ExprTerms -----------------------------
(***************************************************************************)
(* Symbolic expressions (src/src/Analyzer/Symbolic/expr.cpp): the nodes    *)
(* an ExprFactory builds, constant folding, linear forms, simplification   *)
(* and the evaluation of an expression as an address.                      *)
(*                                                                         *)
(* A node is a record; a handle is its node, because a factory interns     *)
(* equal nodes.  The widths 8, 16, 32 and 64 of the code are Width[1] to   *)
(* Width[4], so that an instance can overflow them with small numbers.     *)
(***************************************************************************)
EXTENDS Integers, Sequences, FiniteSets, SequencesExt

CONSTANT Width

ASSUME WidthAssumption ==
  /\ Len(Width) = 4
  /\ \A i \in 1..4 : Width[i] \in Nat \ {0}
  /\ \A i \in 1..3 : Width[i] < Width[i + 1]

(* ------------------------------- types --------------------------------- *)

Bool    == [kind |-> "Bool", w |-> 1]
Void    == [kind |-> "Void", w |-> 0]
SInt(w)  == [kind |-> "Int", w |-> w]
UInt(w) == [kind |-> "UInt", w |-> w]

IntTypes == {SInt(Width[i]) : i \in 1..4} \cup {UInt(Width[i]) : i \in 1..4}

MaxOf(a, b) == IF a < b THEN b ELSE a
Abs(n)      == IF n < 0 THEN -n ELSE n

(* The value of ty that is congruent to n; a truth value for Bool. *)
Wrap(ty, n) ==
  LET m == n % 2^ty.w
  IN CASE ty.kind = "Bool" -> IF n = 0 THEN 0 ELSE 1
       [] ty.kind = "UInt" -> m
       [] OTHER -> IF m >= 2^(ty.w - 1) THEN m - 2^ty.w ELSE m

(* The common type of two integer operands of constant folding. *)
Unify(a, b) ==
  LET w     == MaxOf(a.w, b.w)
      fits  == CHOOSE i \in 1..4 : /\ w <= Width[i] \/ i = 4
                                   /\ \A j \in 1..(i - 1) : Width[j] < w
      kinds == {a.kind, b.kind}
  IN IF ~(kinds \subseteq {"Int", "UInt", "Bool"}) THEN Void
     ELSE IF "UInt" \in kinds THEN UInt(Width[fits]) ELSE SInt(Width[fits])

(* ------------------------------- nodes --------------------------------- *)

None == [node |-> "none", ty |-> Void]

Lit(ty, v)      == [node |-> "lit", lit |-> ty, v |-> v, ty |-> ty]
Unknown         == [node |-> "unknown", ty |-> Void]
RangeIndex      == [node |-> "index", ty |-> UInt(Width[4])]
Un(op, e)       == [node |-> "un", op |-> op, e |-> e, ty |-> e.ty]
Bin(l, op, r)   == [node |-> "bin", op |-> op, l |-> l, r |-> r, ty |-> l.ty]
Cast(e, ty)     == IF e.ty = ty THEN e ELSE [node |-> "cast", e |-> e, ty |-> ty]
VarAddr(x)      == [node |-> "var", var |-> x, ty |-> UInt(Width[4])]

(* The address off elements after what from held at pt; a range when it has a length. *)
SymAddr(from, pt, off, len) ==
  [node |-> "addr", from |-> from, pt |-> pt, off |-> off, len |-> len, ty |-> UInt(Width[4])]

FieldAddr(base, f) == [node |-> "field", base |-> base, field |-> f, ty |-> UInt(Width[4])]

(* The value at an address, at a point of the program. *)
SymValue(ty, addr, pt) == [node |-> "sym", addr |-> addr, pt |-> pt, ty |-> ty]

(* Every element ("all") or some element ("some") of a range satisfies body. *)
Over(agg, range, body) ==
  [node |-> "over", agg |-> agg, range |-> range, body |-> body, ty |-> [Bool EXCEPT !.w = Width[1]]]

Zero == Lit(SInt(Width[4]), 0)
Long(n) == Lit(SInt(Width[4]), Wrap(SInt(Width[4]), n))

IsAddr(t) == t.node \in {"var", "addr", "field"}

(* withValType: a cast is rebuilt over its operand, any other node keeps its children. *)
Retype(t, ty) ==
  CASE t.ty = ty        -> t
    [] t.node = "cast"  -> Cast(t.e, ty)
    [] OTHER            -> [t EXCEPT !.ty = ty]

(* The operands of an operator. *)
Parts(t) ==
  CASE t.node \in {"un", "cast"} -> {t.e}
    [] t.node = "bin"            -> {t.l, t.r}
    [] OTHER                     -> {}

RECURSIVE IsUnknown(_)
IsUnknown(t) == t.node = "unknown" \/ \E e \in Parts(t) : IsUnknown(e)

RECURSIVE Symbols(_)
Symbols(t) == IF t.node \in {"sym", "addr"} THEN {t} ELSE UNION {Symbols(e) : e \in Parts(t)}

(* ------------------------------ operators ------------------------------ *)

Comparison == {"<", "<=", ">", ">=", "==", "!="}
Logical    == {"&&", "||"}
Truth(b)   == IF b THEN 1 ELSE 0

Quot(a, b) == LET q == Abs(a) \div Abs(b) IN IF (a < 0) = (b < 0) THEN q ELSE -q

BitAnd(a, b, w) ==
  FoldLeft(LAMBDA s, i : s + 2^i * (((a \div 2^i) % 2) * ((b \div 2^i) % 2)), 0, [i \in 1..w |-> i - 1])

(* The result of an operator over the integers: <<>> when it has none. *)
Apply(op, a, b) ==
  CASE op = "+"  -> <<a + b>>
    [] op = "-"  -> <<a - b>>
    [] op = "*"  -> <<a * b>>
    [] op = "/"  -> IF b = 0 THEN <<>> ELSE <<Quot(a, b)>>
    [] op = "%"  -> IF b = 0 THEN <<>> ELSE <<a - b * Quot(a, b)>>
    [] op = "<<" -> IF b < 0 THEN <<>> ELSE <<a * 2^b>>
    [] op = ">>" -> IF b < 0 THEN <<>> ELSE <<a \div 2^b>>
    [] op = "&"  -> <<Wrap(SInt(Width[4]), BitAnd(a, b, Width[4]))>>
    [] op = "<"  -> <<Truth(a < b)>>
    [] op = "<=" -> <<Truth(a <= b)>>
    [] op = ">"  -> <<Truth(a > b)>>
    [] op = ">=" -> <<Truth(a >= b)>>
    [] op = "==" -> <<Truth(a = b)>>
    [] op = "!=" -> <<Truth(a # b)>>

(* --------------------------- constant folding -------------------------- *)

(* makeLiteralFromUnifiedType: short, int and long literals only. *)
MakeLit(ty, v) ==
  LET w == CHOOSE n \in {Width[2], Width[3], Width[4]} :
             /\ ty.w <= n \/ n = Width[4]
             /\ \A m \in {Width[2], Width[3]} : m < n => m < ty.w
  IN Lit([ty EXCEPT !.w = w], Wrap(ty, v))

(* A unary operator but ! in the type ty, which has no fewer than 32 bits. *)
UnaryIn(op, n, ty) ==
  LET minus(v) == IF ty.kind = "Int" /\ v = Wrap(ty, -v) /\ v # 0 THEN None ELSE MakeLit(ty, -v)
  IN CASE op = "~" -> MakeLit(UInt(ty.w), -1 - n)
       [] op = "+" -> MakeLit(ty, Wrap(ty, n))
       [] op = "-" -> minus(Wrap(ty, n))

FoldUnary(op, n, ty) ==
  IF op = "!" THEN Lit(Bool, Truth(n = 0))
  ELSE UnaryIn(op, n, [ty EXCEPT !.kind = IF @ = "UInt" THEN "UInt" ELSE "Int", !.w = MaxOf(@, Width[3])])

(* Mutant: a signed result that leaves its type wraps. *)
FoldArithWraps(op, x, y, ty) ==
  LET exact == Apply(op, x, y)
  IN IF exact = <<>> THEN None ELSE IF op \in Comparison THEN Lit(Bool, exact[1]) ELSE MakeLit(ty, exact[1])

(* Operands in the common type ty.  Signed results that leave it are not   *)
(* folded, unsigned ones wrap.                                             *)
FoldArith(op, x, y, ty) ==
  LET limit == IF ty.kind = "UInt" THEN Width[4] ELSE ty.w
      refused(exact) ==
        \/ exact = <<>>
        \/ op \in {"<<", ">>"} /\ (y < 0 \/ y >= limit \/ x < 0)
        \/ op = "%" /\ Quot(x, y) # Wrap(ty, Quot(x, y))
        \/ ty.kind = "Int" /\ exact[1] # Wrap(ty, exact[1])
      literal(exact) ==
        CASE op \in Comparison -> Lit(Bool, exact[1])
          [] op \notin Comparison /\ refused(exact) -> None
          [] OTHER -> MakeLit(ty, exact[1])
  IN literal(Apply(op, x, y))

(* A logical operator whose first operand decides is folded alone. *)
FoldBin(op, a, b, ty) ==
  LET decided == (op = "&&" /\ a.v = 0) \/ (op = "||" /\ a.v # 0)
  IN CASE a = None -> None
       [] a # None /\ op \in Logical /\ decided -> Lit(Bool, Truth(a.v # 0))
       [] a # None /\ op \in Logical /\ ~decided -> IF b = None THEN None ELSE Lit(Bool, Truth(b.v # 0))
       [] OTHER -> IF b = None \/ ty = Void THEN None ELSE FoldArith(op, Wrap(ty, a.v), Wrap(ty, b.v), ty)

(* evalToConstExpr *)
RECURSIVE Fold(_)
Fold(t) ==
  CASE t.node = "lit" -> Lit(t.lit, t.v)
    [] t.node = "un"  -> IF Fold(t.e) = None THEN None ELSE FoldUnary(t.op, Fold(t.e).v, t.e.ty)
    [] t.node = "bin" -> FoldBin(t.op, Fold(t.l), Fold(t.r), Unify(t.l.ty, t.r.ty))
    [] OTHER -> None

(* ----------------------------- linear forms ---------------------------- *)

(* Mutant: a cast to at least as many bits is taken to keep the value. *)
PreservesByWidth(from, to) == {from.kind, to.kind} \subseteq {"Int", "UInt"} /\ to.w >= from.w

PreservesValue(from, to) ==
  /\ {from.kind, to.kind} \subseteq {"Int", "UInt"}
  /\ \/ from.kind = to.kind /\ to.w >= from.w
     \/ from.kind = "UInt" /\ to.kind = "Int" /\ to.w > from.w

NotPolynomial == [deg |-> -1, lin |-> FALSE]

ShapeOfBin(op, a, b) ==
  LET known    == a.deg >= 0 /\ b.deg >= 0
      const(s) == s.deg = 0 /\ s.lin
  IN CASE op \in {"+", "-"} -> [deg |-> IF known THEN MaxOf(a.deg, b.deg) ELSE -1, lin |-> a.lin /\ b.lin]
       [] op = "*"  -> [deg |-> IF known THEN a.deg + b.deg ELSE -1,
                        lin |-> (const(a) /\ b.lin) \/ (const(b) /\ a.lin)]
       [] op = "<<" -> [deg |-> IF b.deg = 0 /\ a.deg >= 0 THEN a.deg ELSE -1, lin |-> const(b) /\ a.lin]
       [] OTHER     -> NotPolynomial

ShapeOfCast(from, to, s) == IF PreservesValue(from, to) /\ s.lin THEN s ELSE NotPolynomial

(* The degree of a polynomial, -1 for what is none, and whether it is linear. *)
RECURSIVE Shape(_)
Shape(t) ==
  CASE t.node = "lit" -> [deg |-> 0, lin |-> TRUE]
    [] t.node \in {"sym", "addr"} -> [deg |-> 1, lin |-> TRUE]
    [] t.node = "un"   -> IF t.op \in {"+", "-"} THEN Shape(t.e) ELSE NotPolynomial
    [] t.node = "cast" -> ShapeOfCast(t.e.ty, t.ty, Shape(t.e))
    [] t.node = "bin"  -> ShapeOfBin(t.op, Shape(t.l), Shape(t.r))
    [] t.node = "unknown" -> [deg |-> 0, lin |-> FALSE]
    [] OTHER -> NotPolynomial

IsLinear(t) == Shape(t).lin

Scale(a, n) == [k |-> [s \in DOMAIN a.k |-> a.k[s] * n], c |-> a.c * n]

(* The first factor is the constant one if it is constant. *)
LinearOfBin(op, a, b, times) ==
  LET plus(m) == [k |-> [s \in DOMAIN a.k |-> a.k[s] + m * b.k[s]], c |-> a.c + m * b.c]
  IN CASE op = "+"  -> plus(1)
       [] op = "-"  -> plus(-1)
       [] op = "<<" -> Scale(a, 2^b.c)
       [] op = "*"  -> IF times THEN Scale(a, b.c) ELSE Scale(b, a.c)

(* toLinearExpr: the coefficients of the symbols and the constant term. *)
RECURSIVE Linear(_, _)
Linear(t, syms) ==
  CASE t.node = "lit"  -> [k |-> [s \in syms |-> 0], c |-> t.v]
    [] t.node \in {"sym", "addr"} -> [k |-> [s \in syms |-> Truth(s = t)], c |-> 0]
    [] t.node = "cast" -> Linear(t.e, syms)
    [] t.node = "un"   -> Scale(Linear(t.e, syms), IF t.op = "-" THEN -1 ELSE 1)
    [] t.node = "bin"  -> LinearOfBin(t.op, Linear(t.l, syms), Linear(t.r, syms), Shape(t.r).deg = 0)

LinearForm(t) == Linear(t, Symbols(t))

(* tryEvalAsConstant *)
ConstantOf(t) ==
  LET const(f) == IF \A s \in DOMAIN f.k : f.k[s] = 0 THEN <<f.c>> ELSE <<>>
  IN IF IsLinear(t) THEN const(LinearForm(t)) ELSE <<>>

(* ---------------------------- simplification --------------------------- *)

(* The terms of a linear form, the constant last.  The magnitude of a      *)
(* coefficient after the first passes through an unsigned int.             *)
MinimalSum(f) ==
  LET term(n, s) == IF n = 1 THEN s ELSE Bin(Long(n), "*", s)
      sign(n)    == IF n > 0 THEN "+" ELSE "-"
      add(sum, s) ==
        CASE f.k[s] = 0 -> sum
          [] f.k[s] # 0 /\ sum = None -> term(f.k[s], s)
          [] OTHER -> Bin(sum, sign(f.k[s]), term(Abs(f.k[s]) % 2^Width[3], s))
      rest(sum) ==
        CASE sum = None          -> Long(f.c)
          [] sum # None /\ f.c = 0 -> sum
          [] OTHER               -> Bin(sum, sign(f.c), Long(Abs(f.c)))
  IN rest(FoldLeft(add, None, SetToSeq(DOMAIN f.k)))

(* simplifiedExprIfLinear *)
SimplifyLinear(t) == MinimalSum(LinearForm(t))

RECURSIVE ContainsCast(_)
ContainsCast(t) == t.node = "cast" \/ \E e \in Parts(t) : ContainsCast(e)

IsBoolean(t) ==
  \/ t.node = "lit" /\ t.v \in {0, 1}
  \/ t.node = "bin" /\ t.op \in Comparison \cup Logical
  \/ t.node = "un" /\ t.op = "!"
  \/ t.ty = Bool

(* An (in)equality of a boolean term b with the literal c, as b or its negation. *)
BoolCmp(op, b, c) ==
  IF c.node = "lit" /\ c.v \in {0, 1} /\ IsBoolean(b)
  THEN IF (op = "==") = (c.v = 1) THEN b ELSE Un("!", b)
  ELSE None

(* A conjunction or disjunction one of whose sides folds to a constant. *)
SimplifyLogical(l, op, r, fl, fr) ==
  LET neutral(c) == (c.v # 0) = (op = "&&")
  IN CASE fl # None -> IF neutral(fl) THEN r ELSE fl
       [] fl = None /\ fr # None -> IF neutral(fr) THEN l ELSE fr
       [] OTHER -> Bin(l, op, r)

(* An operator over simplified sides, neither linear nor constant. *)
SimplifyBin(l, op, r) ==
  LET decided(cmp) ==
        CASE cmp # None -> cmp
          [] cmp = None /\ op \in Logical -> SimplifyLogical(l, op, r, Fold(l), Fold(r))
          [] OTHER -> Bin(l, op, r)
      first(cmp) == IF cmp # None THEN cmp ELSE BoolCmp(op, r, l)
  IN decided(IF op \in {"==", "!="} THEN first(BoolCmp(op, l, r)) ELSE None)

(* simplifyHandle *)
RECURSIVE Simplify(_)
Simplify(t) ==
  LET orElse(constant, e) == IF constant # None THEN constant ELSE e
      linear == t.node = "lit" \/ (t.node \in {"un", "bin"} /\ IsLinear(t) /\ ~ContainsCast(t))
  IN CASE IsUnknown(t) -> Unknown
       [] ~IsUnknown(t) /\ linear -> SimplifyLinear(t)
       [] OTHER -> CASE t.node = "bin" -> orElse(Fold(t), SimplifyBin(Simplify(t.l), t.op, Simplify(t.r)))
                     [] t.node = "un"  -> Un(t.op, Simplify(t.e))
                     [] OTHER          -> t

(* ------------------------------ addresses ------------------------------ *)

WithOffset(a, off)    == [a EXCEPT !.off = off, !.ty = UInt(Width[4])]
Shifted(a, op, extra) == WithOffset(a, Simplify(Bin(a.off, op, extra)))
WithLength(a, len)    == [a EXCEPT !.len = len, !.ty = UInt(Width[4])]

(* The sum or difference s of what is, or is not, an address on either side. *)
ShiftedSide(s, a, b) ==
  IF (a = None) = (b = None) \/ s.op \notin {"+", "-"} \/ (a = None /\ s.op = "-") THEN None
  ELSE Shifted(IF a # None THEN a ELSE b, s.op, IF a # None THEN s.r ELSE s.l)

(* evaluateAddressHandle: an address plus or minus an offset, in any nesting. *)
RECURSIVE AsAddress(_)
AsAddress(t) ==
  LET address(s) == CASE IsAddr(s) -> s
                      [] s.node = "bin" -> ShiftedSide(s, AsAddress(s.l), AsAddress(s.r))
                      [] OTHER -> None
  IN address(Simplify(t))

=============================================================================

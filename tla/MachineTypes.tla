---------------------------- MODULE MachineTypes ----------------------------
(***************************************************************************)
(* C machine integers in the numerical invariant pipeline                  *)
(* (src/src/Analyzer/NumericalInvariant): which expressions the transition *)
(* model extractor takes, because their symbolic types are the C types,    *)
(* and what CMachineToZ3 makes of them for the solver: a value and the     *)
(* condition under which C defines it.                                     *)
(***************************************************************************)
EXTENDS ExprTerms

Shifts  == {"<<", ">>"}
Bitwise == {"&", "|", "^"}

(* ------------------------------ extraction ----------------------------- *)

isSupportedOperation(op, extended) ==
  \/ op \in {"+", "-", "*"} \cup Comparison \cup Logical
  \/ extended /\ op \in {"/", "%"} \cup Shifts \cup Bitwise

(* Whether t is built from the symbols current and literals only; extended *)
(* when casts, divisions and bit operations are taken, too.                *)
RECURSIVE usesOnlyCurrentSymbols(_, _, _)
usesOnlyCurrentSymbols(t, current, extended) ==
  LET taken == CASE t.node = "un"   -> t.op \in {"+", "-", "!"} \/ (extended /\ t.op = "~")
                 [] t.node = "cast" -> extended
                 [] t.node = "bin"  -> isSupportedOperation(t.op, extended)
                 [] OTHER           -> FALSE
  IN \/ t \in current \/ t.node = "lit"
     \/ taken /\ \A e \in Parts(t) : usesOnlyCurrentSymbols(e, current, extended)

supportedMachineType(ty) == ty = Bool \/ ty \in IntTypes

(* No promotion changes an operand of this type. *)
Wide(ty) == ty.kind \in {"Int", "UInt"} /\ ty.w >= Width[3]

TypeIf(cond, ty) == IF cond THEN ty ELSE Void

ReinterpretsUnsigned(from, to) == to.kind = "Int" /\ from.kind = "UInt" /\ from.w >= to.w

CastType(from, to) ==
  TypeIf(from # Void /\ supportedMachineType(to) /\ ~ReinterpretsUnsigned(from, to), to)

BinaryType(op, a, b) ==
  CASE op \in Logical    -> TypeIf(a = Bool /\ b = Bool, Bool)
    [] op \in Comparison -> TypeIf(a = b /\ (a = Bool \/ Wide(a)), Bool)
    [] op \in Shifts     -> TypeIf(Wide(a) /\ Wide(b) /\ ~(op = ">>" /\ a.kind = "Int"), a)
    [] OTHER             -> TypeIf(a = b /\ Wide(a), a)

(* The C type of t, or Void where C would convert something on the way. *)
RECURSIVE exactMachineExpressionType(_, _)
exactMachineExpressionType(t, current) ==
  LET typeOf(e) == exactMachineExpressionType(e, current)
  IN CASE t \in current \/ t.node = "lit" -> TypeIf(supportedMachineType(t.ty), t.ty)
       [] t.node = "cast" -> CastType(typeOf(t.e), t.ty)
       [] t.node = "un" /\ t.op = "!" -> TypeIf(typeOf(t.e) = Bool, Bool)
       [] t.node = "un" /\ t.op # "!" -> TypeIf(Wide(typeOf(t.e)), typeOf(t.e))
       [] t.node = "bin"  -> BinaryType(t.op, typeOf(t.l), typeOf(t.r))
       [] OTHER           -> Void

(* ---------------------------- for the solver --------------------------- *)

(* CMachineValue, and its absence: an expression that is not translated. *)
Value(v, defined, ty) == [v |-> v, defined |-> defined, ty |-> ty]
Unsupported == Value(0, FALSE, Void)

InRange(ty, n) == Wrap(ty, n) = n

(* Mutant: an unsigned result is not reduced. *)
ReducedIfSigned(raw, defined, ty) ==
  IF ty.kind = "UInt" THEN Value(raw, defined, ty) ELSE Value(raw, defined /\ InRange(ty, raw), ty)

(* An unsigned result is reduced; a signed one has to fit. *)
Reduced(raw, defined, ty) ==
  IF ty.kind = "UInt" THEN Value(Wrap(ty, raw), defined, ty) ELSE Value(raw, defined /\ InRange(ty, raw), ty)

translateUnary(op, a, ty) ==
  CASE op = "!" -> IF a.ty = Bool THEN Value(1 - a.v, a.defined, Bool) ELSE Unsupported
    [] op # "!" /\ (~Wide(a.ty) \/ ty # a.ty) -> Unsupported
    [] OTHER -> CASE op = "+" -> a
                  [] op = "-" -> Reduced(-a.v, a.defined, ty)
                  [] op = "~" -> Value(Wrap(ty, -1 - a.v), a.defined, ty)

translateCast(a, to) ==
  CASE a.ty = Void \/ ~supportedMachineType(to) -> Unsupported
    [] a.ty # Void /\ to.kind = "Bool" -> Value(Truth(a.v # 0), a.defined, to)
    [] a.ty = Bool /\ to.kind # "Bool" -> Value(a.v, a.defined, to)
    [] OTHER -> IF ReinterpretsUnsigned(a.ty, to) THEN Unsupported ELSE Reduced(a.v, a.defined, to)

(* The second operand has to be defined where the first does not decide. *)
translateLogical(op, a, b) ==
  LET decides == (a.v # 0) = (op = "||")
  IN IF a.ty # Bool \/ b.ty # Bool THEN Unsupported
     ELSE Value(IF decides THEN a.v ELSE b.v, a.defined /\ (decides \/ b.defined), Bool)

(* shiftFactor: 1 for a count out of range. *)
translateShift(op, a, b, ty) ==
  LET counted == b.v \in 0..(a.ty.w - 1)
      factor  == IF counted THEN 2^b.v ELSE 1
      defined == a.defined /\ b.defined /\ counted
  IN CASE ~Wide(a.ty) \/ ~Wide(b.ty) \/ ty # a.ty \/ (op = ">>" /\ a.ty.kind = "Int") -> Unsupported
       [] Wide(a.ty) /\ Wide(b.ty) /\ ty = a.ty /\ op = "<<" -> Reduced(a.v * factor, defined /\ a.v >= 0, ty)
       [] OTHER -> Value(a.v \div factor, defined, ty)

(* Mutant: dividing the least value by -1 is left to the solver. *)
translateDivisionUnbounded(op, a, b, ty) ==
  LET q == IF b.v = 0 THEN 0 ELSE Quot(a.v, b.v)
  IN Value(IF op = "/" THEN q ELSE a.v - q * b.v, a.defined /\ b.defined /\ b.v # 0, ty)

translateDivision(op, a, b, ty) ==
  LET q == IF b.v = 0 THEN 0 ELSE Quot(a.v, b.v)
      least == ty.kind = "Int" /\ ~InRange(ty, a.v - 1) /\ b.v = -1
  IN Value(IF op = "/" THEN q ELSE a.v - q * b.v, a.defined /\ b.defined /\ b.v # 0 /\ ~least, ty)

(* The bits of the operands, combined one by one. *)
BitOf(op, p, q) == CASE op = "&" -> p * q [] op = "|" -> p + q - p * q [] op = "^" -> (p + q) % 2

translateBitwise(op, a, b, ty) ==
  LET bit(n, i) == (n \div 2^i) % 2
      bits == FoldLeft(LAMBDA sum, i : sum + 2^(i - 1) * BitOf(op, bit(a.v, i - 1), bit(b.v, i - 1)),
                       0, [i \in 1..ty.w |-> i])
  IN Value(Wrap(ty, bits), a.defined /\ b.defined, ty)

(* Operands of one type. *)
translateBinary(op, a, b, ty) ==
  CASE op \in Logical -> translateLogical(op, a, b)
    [] op \in Shifts  -> translateShift(op, a, b, ty)
    [] op \in Comparison -> IF a.ty = b.ty /\ (a.ty = Bool \/ Wide(a.ty))
                            THEN Value(Apply(op, a.v, b.v)[1], a.defined /\ b.defined, Bool) ELSE Unsupported
    [] OTHER -> CASE a.ty # b.ty \/ ~Wide(a.ty) \/ ty # a.ty -> Unsupported
                  [] op \in {"+", "-", "*"} /\ a.ty = b.ty /\ Wide(a.ty) /\ ty = a.ty ->
                       Reduced(Apply(op, a.v, b.v)[1], a.defined /\ b.defined, ty)
                  [] op \in {"/", "%"} /\ a.ty = b.ty /\ Wide(a.ty) /\ ty = a.ty -> translateDivision(op, a, b, ty)
                  [] OTHER -> translateBitwise(op, a, b, ty)

(* t, when each symbol x has the value val[x]. *)
RECURSIVE translate(_, _)
translate(t, val) ==
  LET operand(e)   == translate(e, val)
      unary(a)     == IF a.ty = Void THEN Unsupported ELSE translateUnary(t.op, a, t.ty)
      binary(a, b) == IF a.ty = Void \/ b.ty = Void THEN Unsupported ELSE translateBinary(t.op, a, b, t.ty)
  IN CASE t \in DOMAIN val -> IF supportedMachineType(t.ty) THEN Value(val[t], TRUE, t.ty) ELSE Unsupported
       [] t.node = "lit"   -> IF supportedMachineType(t.ty)
                              THEN Value(IF t.ty = Bool THEN Truth(t.v # 0) ELSE t.v, TRUE, t.ty) ELSE Unsupported
       [] t.node = "un"    -> unary(operand(t.e))
       [] t.node = "cast"  -> translateCast(operand(t.e), t.ty)
       [] t.node = "bin"   -> binary(operand(t.l), operand(t.r))
       [] OTHER            -> Unsupported
=============================================================================

------------------------------- MODULE CExpr -------------------------------
(***************************************************************************)
(* What expressions mean, as a reference for ExprTerms and ExprRewrite:    *)
(* the value of a typed C expression, the value of a symbolic expression   *)
(* read as a mathematical term, and the reading of a printed ACSL term.    *)
(*                                                                         *)
(* A value is a sequence: <<n>>, or <<>> when it is undefined.  A state    *)
(* gives the value of each location: <<x>> for a variable, <<s, f>> for a  *)
(* field, <<"cell", k>> for the element k of the one array; a pointer      *)
(* holds the index of the element it points to.                            *)
(***************************************************************************)
EXTENDS ExprRewrite

CONSTANT Typed,   \* [location |-> type] of the variables and fields
         Cells    \* the indices of the array

Fits(ty, n) == Wrap(ty, n) = n

(* ---------------------------- C expressions ---------------------------- *)

CLit(ty, v)        == [node |-> "lit", v |-> v, ty |-> ty]
CRef(loc)          == [node |-> "ref", loc |-> loc, ty |-> Typed[loc]]
CSub(e, ty)        == [node |-> "sub", e |-> e, ty |-> ty]
CUn(op, e, ty)     == [node |-> "un", op |-> op, e |-> e, ty |-> ty]
CBin(l, op, r, ty) == [node |-> "bin", l |-> l, op |-> op, r |-> r, ty |-> ty]
CCast(e, ty, how)  == [node |-> "cast", e |-> e, ty |-> ty, how |-> how]

Implicit(e, ty) == IF e.ty = ty THEN e ELSE CCast(e, ty, "implicit")

Promoted(ty) == IF ty.w < Width[3] THEN SInt(Width[3]) ELSE ty

(* The usual arithmetic conversions. *)
Common(a, b) ==
  LET x == Promoted(a)
      y == Promoted(b)
      wide == IF x.w > y.w THEN x ELSE y
  IN IF x.w # y.w THEN wide
     ELSE IF "UInt" \in {x.kind, y.kind} THEN UInt(x.w) ELSE SInt(x.w)

(* An operator applied to two expressions, with the conversions C prescribes. *)
Combine(l, op, r) ==
  LET ty == Common(l.ty, r.ty)
  IN CASE op \in Logical        -> CBin(l, op, r, SInt(Width[3]))
       [] op \in Comparison     -> CBin(Implicit(l, ty), op, Implicit(r, ty), SInt(Width[3]))
       [] op \in {"<<", ">>"}   -> CBin(Implicit(l, Promoted(l.ty)), op, Implicit(r, Promoted(r.ty)),
                                        Promoted(l.ty))
       [] OTHER                 -> CBin(Implicit(l, ty), op, Implicit(r, ty), ty)

Applied(op, e) ==
  IF op = "!" THEN CUn(op, e, SInt(Width[3]))
  ELSE CUn(op, Implicit(e, Promoted(e.ty)), Promoted(e.ty))

(* Unsigned results wrap; signed ones that do not fit, and shifts out of   *)
(* range, are undefined.  Where exact holds, an unsigned result that has   *)
(* to wrap is left undefined as well.                                      *)
Settle(ty, v, exact) ==
  IF v = <<>> THEN <<>>
  ELSE IF Fits(ty, v[1]) THEN v
  ELSE IF ty.kind = "Int" \/ exact THEN <<>> ELSE <<Wrap(ty, v[1])>>

RECURSIVE CVal(_, _, _)
CVal(c, s, exact) ==
  CASE c.node = "lit"  -> <<c.v>>
    [] c.node = "ref"  -> <<s[c.loc]>>
    [] c.node = "sub"  -> LET k == CVal(c.e, s, exact)
                          IN IF k # <<>> /\ s[<<"p">>] + k[1] \in Cells
                             THEN <<s[<<"cell", s[<<"p">>] + k[1]>>]>> ELSE <<>>
    [] c.node = "cast" -> LET v == CVal(c.e, s, exact)
                          IN IF v = <<>> THEN <<>> ELSE <<Wrap(c.ty, v[1])>>
    [] c.node = "un"   -> LET v == CVal(c.e, s, exact)
                          IN IF v = <<>> THEN <<>>
                             ELSE Settle(c.ty, CASE c.op = "+" -> v
                                                 [] c.op = "-" -> <<-v[1]>>
                                                 [] c.op = "~" -> <<-1 - v[1]>>
                                                 [] c.op = "!" -> <<Truth(v[1] = 0)>>, exact)
    [] c.node = "bin"  ->
         LET a == CVal(c.l, s, exact)
             b == CVal(c.r, s, exact)
             bad == c.op \in {"<<", ">>"} /\ (b[1] < 0 \/ b[1] >= c.ty.w \/ a[1] < 0)
         IN CASE a = <<>> -> <<>>
              [] a # <<>> /\ c.op \in Logical ->
                   IF (a[1] # 0) = (c.op = "||") THEN <<Truth(a[1] # 0)>>
                   ELSE IF b = <<>> THEN <<>> ELSE <<Truth(b[1] # 0)>>
              [] OTHER -> IF b = <<>> THEN <<>> ELSE IF bad THEN <<>>
                          ELSE Settle(c.ty, Apply(c.op, a[1], b[1]), exact)

(* c with the variable at loc replaced by the value n. *)
RECURSIVE Instance(_, _, _)
Instance(c, loc, n) ==
  CASE c.node = "ref" /\ c.loc = loc -> CLit(c.ty, n)
    [] c.node = "bin" -> [c EXCEPT !.l = Instance(@, loc, n), !.r = Instance(@, loc, n)]
    [] c.node \in {"un", "cast", "sub"} -> [c EXCEPT !.e = Instance(@, loc, n)]
    [] OTHER -> c

(* -------------------------- symbolic expressions ----------------------- *)

(* The location an address denotes, the value of a term; at gives a state to each point. *)
RECURSIVE Denotes(_, _, _)
RECURSIVE Val(_, _, _)

Denotes(a, at, k) ==
  CASE a.node = "var"   -> <<a.var>>
    [] a.node = "field" -> Denotes(a.base, at, k) \o <<a.field>>
    [] a.node = "addr"  -> LET off == Val(a.off, at, k)
                               base == at[a.pt][Denotes(a.from, at, k)]
                           IN IF off # <<>> /\ base + off[1] \in Cells THEN <<"cell", base + off[1]>> ELSE <<>>

(* k is the index of the enclosing range. *)
Val(t, at, k) ==
  CASE t.node = "lit"   -> <<t.v>>
    [] t.node = "index" -> <<k>>
    [] t.node = "sym"   -> LET loc == Denotes(t.addr, at, k) IN IF loc = <<>> THEN <<>> ELSE <<at[t.pt][loc]>>
    [] t.node = "addr"  -> LET off == Val(t.off, at, k)
                           IN IF off = <<>> THEN <<>> ELSE <<at[t.pt][Denotes(t.from, at, k)] + off[1]>>
    [] t.node = "cast"  -> LET v == Val(t.e, at, k) IN IF v = <<>> THEN <<>> ELSE <<Wrap(t.ty, v[1])>>
    [] t.node = "un"    -> LET v == Val(t.e, at, k)
                           IN IF v = <<>> THEN <<>>
                              ELSE CASE t.op = "+" -> v
                                     [] t.op = "-" -> <<-v[1]>>
                                     [] t.op = "~" -> <<-1 - v[1]>>
                                     [] t.op = "!" -> <<Truth(v[1] = 0)>>
                                     [] OTHER -> <<>>
    [] t.node = "bin"   ->
         LET a == Val(t.l, at, k)
             b == Val(t.r, at, k)
         IN CASE a = <<>> -> <<>>
              [] a # <<>> /\ t.op \in Logical ->
                   IF (a[1] # 0) = (t.op = "||") THEN <<Truth(a[1] # 0)>>
                   ELSE IF b = <<>> THEN <<>> ELSE <<Truth(b[1] # 0)>>
              [] OTHER -> IF b = <<>> THEN <<>> ELSE IF t.op \in {"<<", ">>"} /\ b[1] > Width[4] THEN <<>>
                          ELSE Apply(t.op, a[1], b[1])
    [] t.node = "over"  ->
         LET lo == Val(t.range.off, at, k)[1]
             in == {Val(t.body, at, i) : i \in lo..(lo + Val(t.range.len, at, k)[1] - 1)}
         IN IF <<>> \in in THEN <<>>
            ELSE <<Truth(IF t.agg = "all" THEN <<0>> \notin in ELSE \E v \in in : v # <<0>>)>>
    [] OTHER -> <<>>

(* ---------------------------- reading ACSL ----------------------------- *)

(* A printed term is read by precedence.  A reader returns the term and    *)
(* what follows it; comparisons that follow each other are a chain.        *)
Infix(tok) == IF tok[1] = "op" /\ tok[2] \in Comparison \cup Logical \cup {"*", "/", "%", "+", "-", "<<", ">>", "&"}
              THEN Prec(tok[2]) ELSE 0

Type0 == SInt(Width[4])

RECURSIVE Operand(_, _)
RECURSIVE ReadTerm(_, _, _)
RECURSIVE Follow(_, _, _)
RECURSIVE Postfix(_, _)

(* A place stands for its contents. *)
Held(t, pt) == IF t.node \in {"var", "field"} THEN SymValue(Type0, t, pt) ELSE t

Operand(toks, pt) ==
  LET h == Head(toks)
      rest == Tail(toks)
      prefix(op) == LET r == ReadTerm(rest, pt, PrefixPrec) IN [t |-> op, rest |-> r.rest, e |-> r.t]
  IN CASE h[1] = "num"   -> [t |-> Lit(Type0, h[2]), rest |-> rest]
       [] h[1] = "index" -> [t |-> RangeIndex, rest |-> rest]
       [] h[1] = "id"    -> Postfix([t |-> VarAddr(h[2]), rest |-> rest], pt)
       [] h[1] = "at"    -> LET r == ReadTerm(Tail(rest), h[2], 1)
                            IN Postfix([t |-> r.t, rest |-> Tail(r.rest)], pt)
       [] h[1] = "cast"  -> LET r == ReadTerm(Tail(rest), pt, 1)
                            IN [t |-> [node |-> "cast", e |-> r.t, ty |-> h[2]], rest |-> Tail(r.rest)]
       [] h[1] = "over"  ->
            LET lo   == ReadTerm(rest, pt, Prec("<") + 1)
                hi   == ReadTerm(SubSeq(lo.rest, 4, Len(lo.rest)), pt, Prec("<") + 1)
                body == ReadTerm(Tail(hi.rest), pt, 1)
            IN [t |-> Over(h[2], [off |-> lo.t, len |-> Bin(hi.t, "-", lo.t)], body.t), rest |-> body.rest]
       [] h[2] = "("     -> LET r == ReadTerm(rest, pt, 1)
                            IN Postfix([t |-> r.t, rest |-> Tail(r.rest)], pt)
       [] h[2] = "*"     -> LET r == prefix("*")
                            IN [t |-> SymValue(Type0, SymAddr(r.e.addr, r.e.pt, Zero, None), pt), rest |-> r.rest]
       [] OTHER          -> LET r == prefix(h[2])
                            IN [t |-> [node |-> "un", op |-> r.t, e |-> r.e, ty |-> Type0], rest |-> r.rest]

Postfix(r, pt) ==
  CASE r.rest # <<>> /\ Head(r.rest) = <<"op", ".">> ->
         Postfix([t |-> FieldAddr(r.t, r.rest[2][2]), rest |-> Tail(Tail(r.rest))], pt)
    [] r.rest # <<>> /\ Head(r.rest) = <<"op", "[">> ->
         LET i == ReadTerm(Tail(r.rest), pt, 1)
             base == Held(r.t, pt)
         IN Postfix([t |-> SymValue(Type0, SymAddr(base.addr, base.pt, i.t, None), pt), rest |-> Tail(i.rest)], pt)
    [] OTHER -> [t |-> Held(r.t, pt), rest |-> r.rest]

(* The operators that bind at least as tightly as min, from the left. *)
Follow(r, pt, min) ==
  IF r.rest = <<>> \/ Infix(Head(r.rest)) < min \/ Infix(Head(r.rest)) = 0 THEN [t |-> r.t, rest |-> r.rest]
  ELSE LET op == Head(r.rest)[2]
           b  == ReadTerm(Tail(r.rest), pt, Prec(op) + 1)
           chained == op \in Comparison /\ r.last # None
       IN Follow([t    |-> IF chained THEN Bin(r.t, "&&", Bin(r.last, op, b.t)) ELSE Bin(r.t, op, b.t),
                  rest |-> b.rest,
                  last |-> IF op \in Comparison THEN b.t ELSE None], pt, min)

ReadTerm(toks, pt, min) ==
  LET first == Operand(toks, pt)
  IN Follow([t |-> first.t, rest |-> first.rest, last |-> None], pt, min)

(* The term a sequence of tokens stands for at the point pt. *)
Read(toks, pt) == ReadTerm(toks, pt, 1).t

-----------------------------------------------------------------------------
(* How Path::evalExpr (src/src/Analyzer/state.cpp) makes the symbolic      *)
(* expression of a C expression, operator by operator, in a state that     *)
(* names the values at a point of the program.                             *)

(* An implicit conversion of a literal is done at once when the value fits. *)
ConvertLiteral(v, ty) ==
  LET w == MaxOf(ty.w, Width[2])
      n == IF ty.kind = "UInt" THEN v % 2^ty.w ELSE v
  IN CASE ty.kind = "Bool" -> Lit(Bool, Truth(v # 0))
       [] ty.kind # "Bool" /\ Fits(ty, n) -> Retype(Lit([ty EXCEPT !.w = w], n), ty)
       [] OTHER -> None

Convert(e, ty, how) ==
  IF how = "implicit" /\ e.node = "lit" /\ ConvertLiteral(e.v, ty) # None
  THEN ConvertLiteral(e.v, ty) ELSE Cast(e, ty)

AddressOf(loc) == IF Len(loc) = 1 THEN VarAddr(loc[1]) ELSE FieldAddr(VarAddr(loc[1]), loc[2])

(* The expression of e in a state that names the values at pt. *)
RECURSIVE EvalAt(_, _)
EvalAt(e, pt) ==
  CASE e.node = "lit"  -> Lit(e.ty, e.v)
    [] e.node = "ref"  -> SymValue(e.ty, AddressOf(e.loc), pt)
    [] e.node = "sub"  -> SymValue(e.ty, Shifted(SymAddr(VarAddr("p"), pt, Zero, None), "+", EvalAt(e.e, pt)), pt)
    [] e.node = "un"   -> Retype(Un(e.op, EvalAt(e.e, pt)), e.ty)
    [] e.node = "bin"  -> Retype(Bin(EvalAt(e.l, pt), e.op, EvalAt(e.r, pt)), e.ty)
    [] e.node = "cast" -> Convert(EvalAt(e.e, pt), e.ty, e.how)

EvalExpr(e) == EvalAt(e, "loop")
=============================================================================

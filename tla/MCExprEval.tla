----------------------------- MODULE MCExprEval -----------------------------
(* An instance of ExprEval: four widths of 2, 3, 4 and 6 bits, an int x,   *)
(* unsigned ints s.u and n, and a pointer p into an array of three ints.   *)
EXTENDS ExprEval

MCWidth == <<2, 3, 4, 6>>

X == <<"x">>
U == <<"s", "u">>
P == <<"p">>
N == <<"n">>
C(k) == <<"cell", k>>

I == SInt(4)
MCTyped == [l \in {X, U, N} |-> IF l = X THEN I ELSE UInt(4)]
MCCells == 0..2
MCIndex == X
MCBound == Lit(I, 2)

MCLeaves ==
  {CRef(X), CRef(U), CLit(I, 0), CLit(I, 1), CSub(CRef(X), I), Combine(CRef(U), "<", CLit(UInt(4), 2)),
   CRef(N)}
MCBinaryOps == {"+", "-", "*", "/", "<", "==", "&&", "||", "<<", ">>", "&", "%"}
MCUnaryOps == {"-", "!", "~"}
MCTargets == {SInt(2), UInt(4), SInt(6)}

Boolean(e) == (e.node = "bin" /\ e.op \in Comparison \cup Logical) \/ (e.node = "un" /\ e.op = "!")
Bit(e) == e.node = "lit" /\ e.v \in {0, 1}

Shallow == {CRef(X), CLit(I, 1)}

(* Truth values are the operands of logical operators, and of nothing else *)
(* but a comparison with 0 or 1; a shift has operands of one type and is   *)
(* not by a computed amount (by a negative constant it ends the program).  *)
(* One operand is a leaf, and one of a few if the other has an operator.   *)
MCPlain(op, l, r) ==
  /\ \/ op \in MCUnaryOps \cup {"cast"}
     \/ {l, r} \subseteq MCLeaves
     \/ r \in Shallow /\ op \notin {"/", "||"}
     \/ l \in Shallow /\ op \in {"-", "<"}
     \/ l = CRef(X) /\ op = "/" /\ r = Applied("-", CLit(I, 1))
  /\ op \in {">>", "&", "%"} => CRef(N) \in {l, r}
  /\ CRef(N) \in {l, r} => {l, r} \subseteq {CRef(N), CRef(X), CLit(I, 1)}
  /\ CASE op = "!"                -> TRUE
       [] op \in Logical          -> (Boolean(l) \/ Bit(l)) /\ (Boolean(r) \/ Bit(r))
       [] op \in {"==", "!="}     -> (Boolean(l) => Bit(r)) /\ (Boolean(r) => Bit(l))
       [] op \in Shifts           -> ~Boolean(l) /\ l.ty = r.ty /\ r.node \in {"lit", "ref"}
       [] OTHER                   -> ~Boolean(l) /\ ~Boolean(r)

MCScalars == {SymValue(MCTyped[l], VarAddr(l[1]), "loop") : l \in {X, N}}

AnyOperand(op, l, r) == TRUE

At0(l, ty) == SymValue(ty, AddressOf(l), "begin")
Element(k) == SymAddr(VarAddr("p"), "begin", Long(k), None)

VX == AddressOf(X)
VU == AddressOf(U)
VP == AddressOf(P)

MCStores ==
  {[a \in {VX, VU} |-> IF a = VX THEN Retype(Bin(At0(X, I), "-", Lit(I, 1)), I) ELSE Lit(UInt(4), 1)],
   [a \in {VX, VU, VP, Element(1)} |->
      CASE a = VX -> Lit(I, 0)
        [] a = VU -> Cast(At0(X, I), UInt(4))
        [] a = VP -> Element(1)
        [] OTHER  -> At0(X, I)]}

Base == [l \in {X, U, N, P} \cup {C(k) : k \in MCCells} |->
           CASE l = C(0) -> 1 [] l = C(1) -> 5 [] l = C(2) -> 0 [] l \in {U, N} -> 1 [] l = X -> 1 [] OTHER -> 0]
Samples(l) ==
  CASE l = X -> {-8, -1, 3} [] l \in {U, N} -> {2, 15} [] l = P -> {0, 1} [] OTHER -> {0}

MCStatesFor ==
  [locs \in SUBSET {X, U, N, P} |->
     {[l \in DOMAIN Base |-> IF l \in locs THEN v[l] ELSE Base[l]] :
        v \in {f \in [locs -> -8..15] : \A l \in locs : f[l] \in Samples(l)}}]

=============================================================================

----------------------------- MODULE MCSymExec -----------------------------
(***************************************************************************)
(* Families of small function bodies for SymExec.  x is the parameter, y   *)
(* a global, t a local.                                                    *)
(***************************************************************************)
EXTENDS CSemantics

MCVar == {"x", "y", "t"}
MCLocal == {"t"}
MCVal == 0 .. 3

(* What an uninitialized t holds is in 0 .. 1. *)
MCInput == {i \in [MCVar -> 0 .. 2] : i["y"] < 2 /\ i["t"] < 2}

(* Side-effect-free expressions: a literal, a variable, v == n, v + 1. *)
Lit(n) == [kind |-> "pure", op |-> "lit", n |-> n]
Read(v) == [kind |-> "pure", op |-> "var", v |-> v]
Eq(v, n) == [kind |-> "pure", op |-> "eq", v |-> v, n |-> n]
Succ(v) == [kind |-> "pure", op |-> "succ", v |-> v]

(* A variable that is not in scope, which no program reads, is 0. *)
MCApply(e, env) ==
  LET n == IF e.op # "lit" /\ e.v \in DOMAIN env THEN env[e.v] ELSE 0
  IN  CASE e.op = "lit"  -> e.n
        [] e.op = "var"  -> n
        [] e.op = "eq"   -> IF n = e.n THEN 1 ELSE 0
        [] e.op = "succ" -> (n + 1) % 4

MCIsLinear(e, linear) ==
  CASE e.op = "lit" -> TRUE [] e.op = "eq" -> FALSE [] OTHER -> linear[e.v]

Cond(c, a, b) == [kind |-> "cond", c |-> c, a |-> a, b |-> b]
PostInc(v) == [kind |-> "write", var |-> v, new |-> Succ(v), val |-> Read(v)]
And(a, b) == [kind |-> "and", a |-> a, b |-> b]

Null == [kind |-> "null"]
Expr(e) == [kind |-> "expr", e |-> e]
Assign(v, e) == [kind |-> "assign", var |-> v, e |-> e]
Decl(v, init) == [kind |-> "decl", var |-> v, init |-> init]
Return(e) == [kind |-> "return", e |-> {e}]
ReturnVoid == [kind |-> "return", e |-> {}]
Break == [kind |-> "break"]
Cont == [kind |-> "continue"]
Block(ss) == [kind |-> "compound", body |-> ss]
If(c, s, t) == [kind |-> "if", cond |-> c, then |-> s, else |-> t]
Do(id, s) == [kind |-> "do", id |-> id, body |-> s]
Switch(id, c, items) == [kind |-> "switch", id |-> id, cond |-> c, items |-> items]
Case(n, s) == [labels |-> <<{n}>>, s |-> s]
Default(s) == [labels |-> <<{}>>, s |-> s]
Plain(s) == [labels |-> <<>>, s |-> s]

Inc == Expr(PostInc("y"))
XIs(n) == Eq("x", n)

-----------------------------------------------------------------------------
(* Branches, forks and returns: no breakable statement. *)
Leaf == {Null, Inc, Assign("y", Lit(1)), Assign("y", Cond(XIs(1), Lit(0), Read("x"))),
         Return(Read("y")), Return(Cond(Eq("y", 1), Read("x"), Lit(0)))}

BranchCond == {XIs(0), Read("y"), Lit(0), PostInc("y"), Cond(XIs(2), Lit(1), Eq("y", 1))}

Branch == {If(c, s, t) : c \in BranchCond, s \in Leaf, t \in Leaf}

BranchPrograms ==
  {Block(<<s, t>>) : s \in Branch, t \in Leaf}
    \cup {Block(<<If(c, b, Null), Return(Read("y"))>>) :
            c \in {XIs(0), Cond(XIs(2), Lit(1), Eq("y", 1))}, b \in Branch}
    \cup {Block(<<If(XIs(0), Return(Read("y")), Null), If(c, s, Null), t>>) :
            c \in BranchCond, s \in Leaf, t \in {Inc, Return(Read("x"))}}
    \cup {Block(<<Inc, ReturnVoid, s>>) : s \in Leaf}

(* Breakable statements whose breaks are their own: no break under an if,  *)
(* no nesting through an if; a default comes last, and nothing falls into  *)
(* it.                                                                     *)
Ended == {Block(<<Inc, Break>>), Return(Read("y")), Block(<<>>),
          Block(<<If(Eq("y", 1), Return(Lit(0)), Inc), Break>>)}

Nested == {Do(2, Block(<<Inc, Break, Inc>>)),
           Switch(3, Read("y"), <<Case(0, Assign("y", Lit(1))), Case(1, Break)>>)}

Closed == {Block(<<s, Break>>) : s \in Nested} \cup (Ended \ {Block(<<>>)})

SwitchPrograms ==
  {Block(<<Switch(1, Read("x"), <<Case(0, a), Case(1, b), Default(c)>>), Inc>>) :
     a \in Ended \cup Nested, b \in Closed, c \in Ended \cup Nested}
    \cup {Block(<<If(XIs(2), Return(Read("y")), Inc),
                  Switch(1, Cond(XIs(1), Lit(0), Lit(1)), <<Case(0, Inc)>>)>>)}
    \cup {Block(<<If(XIs(2), Return(Read("y")), Inc),
                  Switch(1, Read("x"), <<Case(0, a), Plain(Inc), Case(1, b)>>), Inc>>) :
            a \in Ended \cup Nested, b \in Ended \cup Nested}
    \cup {Block(<<Do(1, Block(<<a, Inc, b>>)), Inc>>) :
            a \in Nested \cup {If(XIs(0), Return(Lit(1)), Inc), Null}, b \in Closed}
    \cup {Block(<<Switch(1, Read("y"), <<[labels |-> <<{0}, {1}>>, s |-> a],
                                         Default(b)>>), Return(Read("y"))>>) :
            a \in Closed, b \in Ended}

(* Locals: uninitialized or not, in nested blocks. *)
LocalUse == {Null, Assign("y", Read("t")), Assign("t", Cond(Read("t"), Read("x"), Lit(1))),
             If(Read("t"), Return(Lit(1)), Inc),
             If(XIs(1), Return(Read("t")), Assign("t", Read("y")))}

LocalPrograms ==
  {Block(<<Block(<<Decl("t", init), a, b>>), c>>) :
     init \in {{}, {Read("y")}, {Cond(XIs(1), Lit(0), Read("x"))}},
     a \in LocalUse, b \in LocalUse, c \in {Return(Read("y")), Inc}}
    \cup {Block(<<If(XIs(0), Block(<<Decl("t", {}), a, b>>), Null),
             Block(<<Decl("t", {Lit(1)}), a>>)>>) :
            a \in LocalUse, b \in LocalUse}

(* Shapes that the analyzer steps otherwise than C does, or gives up on: a *)
(* default in front or in the middle, a fall through into it, a case that  *)
(* labels it, continue, && with an effect.                                 *)
WildBody == {Inc, Break, Cont, Return(Read("y"))}

WildItems ==
  {<<Case(0, a), Default(b), Case(1, c)>> : a \in WildBody, b \in WildBody, c \in WildBody}
    \cup {<<Case(0, a), Case(1, b), Default(Inc)>> : a \in WildBody, b \in WildBody}
    \cup {<<[labels |-> <<{0}, {}>>, s |-> a], Case(1, b)>> : a \in WildBody, b \in WildBody}
    \cup {<<Default(a), Case(1, b)>> : a \in WildBody, b \in WildBody}

WildPrograms ==
  {Block(<<Switch(1, Read("x"), items), Inc>>) : items \in WildItems}
    \cup {Block(<<If(c, Switch(1, Read("x"), <<Case(0, a)>>), Null), Inc>>) :
            c \in {Read("y"), Lit(0)}, a \in WildBody}
    \cup {Block(<<If(And(XIs(1), PostInc("y")), a, b), Inc>>) : a \in Leaf, b \in Leaf}

(* A break under an if of the statement it leaves, by itself, behind other *)
(* breaks, and inside a breakable statement under an if.                   *)
Jump(id) == {Break, Block(<<Inc, Break>>), Do(id, If(Eq("y", 1), Break, Inc)),
             Do(id, Block(<<If(Eq("y", 1), Break, Null), Inc, Break>>))}

JumpPrograms ==
  {Block(<<Do(1, Block(<<If(XIs(0), a, b), Inc>>)), Return(Read("y"))>>) :
     a \in Jump(2), b \in {Inc, Break, Return(Read("y"))}}
    \cup {Block(<<Switch(1, Read("x"), <<Case(0, Block(<<If(Eq("y", 1), a, Inc), Break>>)),
                                         Case(1, b)>>), Inc>>) :
            a \in Jump(2), b \in Jump(3)}
    \cup {Block(<<Switch(1, Read("x"), <<Case(0, Block(<<Do(2, Block(<<If(Eq("y", 1), Break, Inc), Break>>)),
                                                       a>>))>>), Inc>>) : a \in Jump(3)}

AllPrograms ==
  BranchPrograms \cup SwitchPrograms \cup JumpPrograms \cup WildPrograms \cup LocalPrograms

RECURSIVE Within(_), MCDepth(_), MCDeclared(_), MCWrites(_)

(* The statements of a body. *)
Within(s) == {s} \cup UNION {Within(t) : t \in Children(s)}

MCDepth(s) == IF Children(s) = {} THEN 0 ELSE 1 + Max({MCDepth(t) : t \in Children(s)})

MCDeclared(s) == OwnLocals(s) \cup UNION {MCDeclared(t) : t \in Children(s)}

MCWrites(s) ==
  (UNION {MCWrites(t) : t \in Children(s)} \ OwnLocals(s))
    \cup (IF s.kind \in {"assign", "decl"} THEN {s.var} ELSE {})
    \cup UNION {WrittenBy(e) : e \in ExprsOf(s)}

MCUninitialized(body) == \E s \in Within(body) : s.kind = "decl" /\ s.init = {}

=============================================================================

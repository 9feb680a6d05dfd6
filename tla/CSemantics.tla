----------------------------- MODULE CSemantics -----------------------------
(***************************************************************************)
(* What C says the statements of SymExec do: the execution of a function   *)
(* body on one input.  It is written from the language, not from the       *)
(* analyzer, and is what the paths of the analyzer are compared with.      *)
(***************************************************************************)
EXTENDS SymExec

CONSTANTS
  Depth(_),     \* how deep statements nest in a statement
  Declared(_),  \* the locals of the blocks in it
  Writes(_)     \* the variables it writes or declares that outlive it

(* The statements that s consists of. *)
Children(s) ==
  CASE s.kind = "compound" -> {s.body[k] : k \in DOMAIN s.body}
    [] s.kind = "if"       -> {s.then, s.else}
    [] s.kind = "do"       -> {s.body}
    [] s.kind = "switch"   -> {s.items[k].s : k \in DOMAIN s.items}
    [] OTHER               -> {}

ExprsOf(s) ==
  CASE s.kind \in {"expr", "assign"} -> {s.e}
    [] s.kind = "decl"               -> s.init
    [] s.kind = "return"             -> s.e
    [] s.kind \in {"if", "switch"}   -> {s.cond}
    [] OTHER                         -> {}

Breakable(s) == s.kind \in {"do", "switch"}

WrittenBy(e) ==
  CASE e.kind = "write" -> {e.var} [] e.kind = "and" -> {e.b.var} [] OTHER -> {}

OwnLocals(s) == IF s.kind = "compound" THEN LocalsOf(s) ELSE {}

ASSUME DepthAssumption ==
  \A p \in Programs : \A s \in Stmts(p) :
    Depth(s) \in Nat /\ \A t \in Children(s) : Depth(t) < Depth(s)

(* The id stands for the address of the statement.                         *)
ASSUME IdAssumption ==
  \A p \in Programs : \A s, t \in {r \in Stmts(p) : Breakable(r)} :
    s.id \in Nat \ {0} /\ (s.id = t.id => s = t)

(* A variable stands for its declaration: no block declares a local of a   *)
(* block around it, and only the block that declares a local writes it.    *)
ASSUME ScopeAssumption ==
  \A p \in Programs : \A s \in Stmts(p) :
    /\ OwnLocals(s) \subseteq Declared(s) /\ Declared(s) \subseteq Local
    /\ s.kind \in {"assign", "decl"} => s.var \in Writes(s)
    /\ \A e \in ExprsOf(s) : WrittenBy(e) \subseteq Writes(s)
    /\ \A t \in Children(s) : /\ Declared(t) \subseteq Declared(s) \ OwnLocals(s)
                              /\ Writes(t) \subseteq Writes(s) \cup OwnLocals(s)
    /\ Writes(s) \cap Declared(s) = {}

-----------------------------------------------------------------------------
(* The state of one execution: the variables in scope, how control left    *)
(* the last statement, and the returned value, if any.                     *)
Env == UNION {[D -> Val] : D \in {E \in SUBSET Var : Var \ Local \subseteq E}}

CState == {st \in [env : Env, mode : {"run", "break", "return"}, ret : SUBSET Val] :
             st.mode # "return" => st.ret = {}}

(* Expressions and assignments yield numbers.                              *)
IsPure(e) == \A env \in Env : Apply(e, env) \in Val

IsTyped(e) ==
  CASE e.kind = "pure"  -> IsPure(e)
    [] e.kind = "cond"  -> IsPure(e.c) /\ IsPure(e.a) /\ IsPure(e.b)
    [] e.kind = "write" -> e.var \in Var /\ IsPure(e.new) /\ IsPure(e.val)
    [] e.kind = "and"   -> /\ IsPure(e.a)
                           /\ e.b.var \in Var /\ IsPure(e.b.new) /\ IsPure(e.b.val)

ASSUME ExprAssumption ==
  \A p \in Programs : \A s \in Stmts(p) :
    (\A e \in ExprsOf(s) : IsTyped(e)) /\ (s.kind = "assign" => s.var \in Var)

Running(env) == [env |-> env, mode |-> "run", ret |-> {}]

Start(i) == Running([v \in Var \ Local |-> i[v]])

Put(env, v, n) == [w \in DOMAIN env \cup {v} |-> IF w = v THEN n ELSE env[w]]

(* The value of an expression, and the variables after its side effects.   *)
CEval(env, e) ==
  CASE e.kind = "pure"  -> [val |-> Apply(e, env), env |-> env]
    [] e.kind = "cond"  -> [val |-> Apply(IF Apply(e.c, env) # 0 THEN e.a ELSE e.b, env),
                            env |-> env]
    [] e.kind = "write" -> [val |-> Apply(e.val, env),
                            env |-> Put(env, e.var, Apply(e.new, env))]
    [] e.kind = "and"   ->
         IF Apply(e.a, env) = 0
         THEN [val |-> 0, env |-> env]
         ELSE [val |-> IF Apply(e.b.val, env) # 0 THEN 1 ELSE 0,
               env |-> Put(env, e.b.var, Apply(e.b.new, env))]

(* The variable v gets the value of the expression e.                      *)
Assigned(env, v, e) == LET r == CEval(env, e) IN Running(Put(r.env, v, r.val))

(* A break ends the statement it is in.                                    *)
Resume(st) == IF st.mode = "break" THEN Running(st.env) ELSE st

Leave(st, ls) == [st EXCEPT !.env = [v \in DOMAIN st.env \ ls |-> st.env[v]]]

(* The statements of a switch body that control can jump to when the       *)
(* condition is n, and those that it passes from one of them on.           *)
Target(sw, n) ==
  LET with(l) == {j \in DOMAIN sw.items : \E k \in DOMAIN sw.items[j].labels :
                                            sw.items[j].labels[k] = l}
  IN  IF with({n}) # {} THEN with({n}) ELSE with({})

ItemsFrom(sw, j) == [n \in 1 .. Len(sw.items) - j + 1 |-> sw.items[j + n - 1].s]

(* One statement after the other.  run[s][st][i] is the execution of s on  *)
(* the input i.                                                            *)
RunAll(run, ss, st, i) ==
  LET after[k \in 0 .. Len(ss)] == IF k = 0 THEN st ELSE run[ss[k]][after[k - 1]][i]
  IN  after[Len(ss)]

(* A statement, given the execution of the statements it consists of.      *)
Execute(run, s, st, i) ==
  IF st.mode # "run" THEN st
  ELSE CASE s.kind = "expr"   -> Running(CEval(st.env, s.e).env)
         [] s.kind = "assign" -> Assigned(st.env, s.var, s.e)
         [] s.kind = "decl"   ->
              IF s.init = {}
              THEN Running(Put(st.env, s.var, i[s.var]))
              ELSE Assigned(st.env, s.var, CHOOSE e \in s.init : TRUE)
         [] s.kind = "break"  -> [st EXCEPT !.mode = "break"]
         [] s.kind = "return" ->
              LET r == CEval(st.env, CHOOSE e \in s.e : TRUE)
              IN  IF s.e = {}
                  THEN [st EXCEPT !.mode = "return"]
                  ELSE [env |-> r.env, mode |-> "return", ret |-> {r.val}]
         [] s.kind = "compound" -> Leave(RunAll(run, s.body, st, i), LocalsOf(s))
         [] s.kind = "if"     ->
              LET r == CEval(st.env, s.cond)
              IN  run[IF r.val # 0 THEN s.then ELSE s.else][Running(r.env)][i]
         [] s.kind = "do"     -> Resume(run[s.body][st][i])
         [] s.kind = "switch" ->
              LET r == CEval(st.env, s.cond)
                  t == Target(s, r.val)
                  j == CHOOSE j \in t : TRUE
              IN  IF t = {} THEN Running(r.env)
                  ELSE Resume(RunAll(run, ItemsFrom(s, j), Running(r.env), i))
         [] OTHER -> st

Statements == UNION {Stmts(p) : p \in Programs}

Run[s \in Statements] == [st \in CState |-> [i \in Input |-> Execute(Run, s, st, i)]]

-----------------------------------------------------------------------------
(* The bodies that the analyzer means to step as C does.                   *)

(* Control never reaches the end of the statement s. *)
NeverEnds(s) == \A env \in Env, i \in Input : Run[s][Running(env)][i].mode # "run"

(* The statements of the body p in which a break may leave a statement     *)
(* around them are loose.  No such statement is a branch of an if          *)
(* statement, where the analyzer forgets the context, nor is the body.     *)
OwnBreaks(p, loose) ==
  /\ p \notin loose
  /\ \A s \in Stmts(p) :
       /\ s.kind = "break" => s \in loose
       /\ s.kind = "compound" /\ (\E k \in DOMAIN s.body : s.body[k] \in loose) => s \in loose
       /\ s.kind = "if" => s.then \notin loose /\ s.else \notin loose

(* The labels of a switch statement: no value twice, as C demands, and a   *)
(* default comes last, on its own, and is not fallen into.                 *)
PlainLabels(sw) ==
  /\ \A j, k \in DOMAIN sw.items : \A l \in DOMAIN sw.items[j].labels, m \in DOMAIN sw.items[k].labels :
       sw.items[j].labels[l] = sw.items[k].labels[m] => j = k /\ l = m
  /\ \A j \in DOMAIN sw.items : {} \in ToSet(sw.items[j].labels) =>
       /\ sw.items[j].labels = <<{}>> /\ j = Len(sw.items)
       /\ j > 1 => NeverEnds(sw.items[j - 1].s)

(* There is no effect under && or in the condition of a switch (which is   *)
(* evaluated on returned paths, too), and no continue.                     *)
SteppedAsC(body) ==
  /\ \E loose \in SUBSET Stmts(body) : OwnBreaks(body, loose)
  /\ \A s \in Stmts(body) :
       /\ s.kind # "continue"
       /\ \A e \in ExprsOf(s) : e.kind # "and"
       /\ s.kind = "switch" => s.cond.kind = "pure" /\ PlainLabels(s)

-----------------------------------------------------------------------------
(* The symbolic path p says of input i that the function ends like st. *)
EndsLike(p, i, st) ==
  /\ (p.state = "Return") = (st.mode = "return")
  /\ (p.state = "Step") = (st.mode = "run")
  /\ {x.val[i] : x \in p.ret} = st.ret
  /\ \A v \in Var \ Local : p.env[v].val[i] = st.env[v]

(* Nothing a function can do is missing from the analyzer's final paths:   *)
(* the outcome of every execution is that of a path whose conditions the   *)
(* input satisfies.                                                        *)
CoversExecutions ==
  Done /\ SteppedAsC(prog) => \A i \in Input :
    LET st == Run[prog][Start(i)][i]
    IN  \E k \in DOMAIN paths : Holds(paths[k], i) /\ EndsLike(paths[k], i, st)

(* Nothing is invented either: what a final path says of an input that     *)
(* satisfies its conditions is what the function does on it, unless the    *)
(* conditions on an uninitialized local have been dropped.  The behaviors  *)
(* and assigns clauses of the generated contract are read off these paths. *)
DescribesExecutions ==
  Done /\ SteppedAsC(prog) /\ ~Uninitialized(prog) => \A i \in Input :
    LET st == Run[prog][Start(i)][i]
    IN  \A k \in DOMAIN paths : Holds(paths[k], i) => EndsLike(paths[k], i, st)
=============================================================================

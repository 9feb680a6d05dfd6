------------------------------ MODULE SymExec ------------------------------
(***************************************************************************)
(* acslg::analyzer::ProgramState (src/src/Analyzer/state.cpp): how the     *)
(* analyzer steps the body of a function over a vector of symbolic paths.  *)
(*                                                                         *)
(* The recursion of ProgramState::step is a stack of frames: what the      *)
(* nested calls still have to do, innermost first.  A symbolic value is    *)
(* the function from the unknowns of a run (Input: what parameters,        *)
(* globals and uninitialized locals may hold) to a number, and whether the *)
(* expression is linear: only then does the analyzer notice that it is     *)
(* constant.  A path condition is the set of inputs that satisfy it.       *)
(*                                                                         *)
(* Loops other than do { ... } while (0) end the part of a function that   *)
(* this module steps: emitLoopInvariant replaces their paths.              *)
(***************************************************************************)
EXTENDS Naturals, Sequences, FiniteSets, SequencesExt

CONSTANTS
  Var,        \* the variables of the function
  Local,      \* those declared inside its body
  Val,        \* the numbers a variable may hold
  Input,      \* the initial contents of Var: what is symbolic in one analysis
  Programs,   \* the function bodies to step
  Stmts(_),   \* the statements of a body: itself and those inside it
  Uninitialized(_), \* whether a body declares a local without an initializer
  Apply(_, _),   \* the value of a side-effect-free expression under [Var -> Val]
  IsLinear(_, _) \* whether it is linear, given which variables hold linear values

ASSUME LocalAssumption == Local \subseteq Var
ASSUME ValAssumption == Val \subseteq Nat /\ {0, 1} \subseteq Val
ASSUME InputAssumption == Input \subseteq [Var -> Val] /\ Input # {}

IsExpr(e) == e.kind \in {"pure", "cond", "write", "and"}

(* The statement s of a body that consists of the statements ss; in a body *)
(* that is not open every local has an initializer.                        *)
IsStmt(s, ss, open) ==
  /\ s.kind \in {"expr", "assign"} => IsExpr(s.e)
  /\ s.kind = "decl" =>
       s.var \in Local /\ (s.init = {} => open) /\ \A e \in s.init : IsExpr(e)
  /\ s.kind = "return" => \A e \in s.e : IsExpr(e)
  /\ s.kind = "compound" => s.body \in Seq(ss)
  /\ s.kind = "if" => IsExpr(s.cond) /\ {s.then, s.else} \subseteq ss
  /\ s.kind = "do" => s.body \in ss
  /\ s.kind = "switch" =>
       /\ IsExpr(s.cond)
       /\ s.items \in Seq([labels : Seq({{}} \cup {{n} : n \in Val}), s : ss])

ASSUME ProgramsAssumption ==
  \A p \in Programs : p \in Stmts(p) /\ \A s \in Stmts(p) : IsStmt(s, Stmts(p), Uninitialized(p))

VARIABLES
  prog,   \* the body that is being stepped
  paths,  \* paths_ of the ProgramState that runs
  ctx,    \* its stmtCtx_: the id of a switch or do statement, 0 for nullptr
  stack,  \* the frames of the running calls of step, innermost first
  aborted \* an ERROR, TODO, UNIMPLEMENT or a failing assertion was reached

vars == <<prog, paths, ctx, stack, aborted>>

-----------------------------------------------------------------------------
(* Path. *)

IsActive(p) == p.state = "Step"

(* insertPathCondition. *)
Assume(p, c) == [p EXCEPT !.conds = @ \cup {c}]

(* updateVarState: the memory of v holds the value x. *)
Bind(p, v, x) ==
  [p EXCEPT !.env = [w \in DOMAIN p.env \cup {v} |-> IF w = v THEN x ELSE p.env[w]]]

Symbolic == [val : [Input -> Val], linear : BOOLEAN]

(* Expr::symbol: what v holds before anything is known of it. *)
Symbol(v) == [val |-> [i \in Input |-> i[v]], linear |-> TRUE]

Value(p, e) ==
  [val    |-> [i \in Input |-> Apply(e, [v \in DOMAIN p.env |-> p.env[v].val[i]])],
   linear |-> IsLinear(e, [v \in DOMAIN p.env |-> p.env[v].linear])]

Truth(x) == {i \in Input : x.val[i] # 0}

(* tryEvalAsConstant: a comparison is not linear, 1 == 1 not a constant. *)
IsConstant(x) == x.linear /\ \A i, j \in Input : x.val[i] = x.val[j]

Both(x, z) ==
  [val    |-> [i \in Input |-> IF x.val[i] # 0 /\ z.val[i] # 0 THEN 1 ELSE 0],
   linear |-> FALSE]

(* evalExpr: the resulting paths in order, each with its value; the first  *)
(* is the path the expression was evaluated on.  A conditional operator    *)
(* forks, a write (++, --, =) happens on the way, and both operands of &&  *)
(* are evaluated.                                                          *)
Eval(p, e) ==
  CASE e.kind = "pure"  -> <<[path |-> p, val |-> Value(p, e)]>>
    [] e.kind = "cond"  ->
         LET c == Truth(Value(p, e.c))
         IN  <<[path |-> Assume(p, c), val |-> Value(p, e.a)],
               [path |-> Assume(p, Input \ c), val |-> Value(p, e.b)]>>
    [] e.kind = "write" ->
         <<[path |-> Bind(p, e.var, Value(p, e.new)), val |-> Value(p, e.val)]>>
    [] e.kind = "and"   ->
         <<[path |-> Bind(p, e.b.var, Value(p, e.b.new)),
            val  |-> Both(Value(p, e.a), Value(p, e.b.val))]>>

(* op on the active paths, in place; the inactive ones stay as they are. *)
ForActive(ps, op(_)) ==
  FlattenSeq([k \in DOMAIN ps |-> IF IsActive(ps[k]) THEN op(ps[k]) ELSE <<ps[k]>>])

EvalThen(p, e, op(_)) == LET rs == Eval(p, e) IN [k \in DOMAIN rs |-> op(rs[k])]

Each(ps, op(_)) == [k \in DOMAIN ps |-> op(ps[k])]

(* The paths that pass the test, in order. *)
Those(ps, test(_)) == FlattenSeq(Each(ps, LAMBDA p : IF test(p) THEN <<p>> ELSE <<>>))

(* isInactive: true of no paths at all, too. *)
AllInactive(ps) == \A k \in DOMAIN ps : ~IsActive(ps[k])

(* setStates. *)
SetState(p, st, c) == [p EXCEPT !.state = st, !.ctx = c]

(* collectLocalVars: what the compound statement s declares directly. *)
LocalsOf(s) == {s.body[k].var : k \in {j \in DOMAIN s.body : s.body[j].kind = "decl"}}

(* containsLocalVar: the condition tells apart two inputs that differ only *)
(* in what the uninitialized locals ls held.                               *)
Mentions(c, ls) ==
  \E i \in c, j \in Input \ c : \A v \in Var \ ls : i[v] = j[v]

(* The clean-up that ends step: the locals ls leave the path. *)
Cleanup(p, ls) ==
  [p EXCEPT !.env = [v \in DOMAIN p.env \ ls |-> p.env[v]],
            !.conds = {c \in p.conds : ~Mentions(c, ls)}]

-----------------------------------------------------------------------------
(* Frames. *)

StepFrame(s) == [op |-> "step", s |-> s]

StepFrames(ss) == [k \in DOMAIN ss |-> StepFrame(ss[k])]

At(op) == ~aborted /\ stack # <<>> /\ Head(stack).op = op

AtStmt(kind) == At("step") /\ Head(stack).s.kind = kind

Stmt == Head(stack).s

(* The running call goes on with the frames fs. *)
Continue(fs) == stack' = fs \o Tail(stack)

Quiet == UNCHANGED <<prog, aborted>>

Abort == aborted' = TRUE /\ UNCHANGED <<prog, paths, ctx, stack>>

Init ==
  /\ prog \in Programs
  /\ paths = <<[state |-> "Step", ctx |-> 0, conds |-> {}, ret |-> {},
                env |-> [v \in Var \ Local |-> Symbol(v)]]>>
  /\ ctx = 0
  /\ stack = <<StepFrame(prog)>>
  /\ aborted = FALSE

-----------------------------------------------------------------------------
(* Statements without sub-statements. *)

StepExpr ==
  /\ AtStmt("expr")
  /\ paths' = ForActive(paths, LAMBDA p : EvalThen(p, Stmt.e, LAMBDA r : r.path))
  /\ Continue(<<>>)
  /\ UNCHANGED ctx
  /\ Quiet

UpdateVarState ==
  /\ AtStmt("assign")
  /\ paths' = ForActive(paths, LAMBDA p :
                EvalThen(p, Stmt.e, LAMBDA r : Bind(r.path, Stmt.var, r.val)))
  /\ Continue(<<>>)
  /\ UNCHANGED ctx
  /\ Quiet

(* Mutant: an uninitialized variable is taken to hold 0. *)
AddNewDeclsAsZero ==
  /\ AtStmt("decl")
  /\ paths' = ForActive(paths, LAMBDA p :
                IF Stmt.init = {}
                THEN <<Bind(p, Stmt.var, [val |-> [i \in Input |-> 0], linear |-> TRUE])>>
                ELSE EvalThen(p, CHOOSE e \in Stmt.init : TRUE, LAMBDA r :
                       Bind(r.path, Stmt.var, r.val)))
  /\ Continue(<<>>)
  /\ UNCHANGED ctx
  /\ Quiet

(* Without an initializer the variable holds a fresh symbol. *)
AddNewDecls ==
  /\ AtStmt("decl")
  /\ paths' = ForActive(paths, LAMBDA p :
                IF Stmt.init = {}
                THEN <<Bind(p, Stmt.var, Symbol(Stmt.var))>>
                ELSE EvalThen(p, CHOOSE e \in Stmt.init : TRUE, LAMBDA r :
                       Bind(r.path, Stmt.var, r.val)))
  /\ Continue(<<>>)
  /\ UNCHANGED ctx
  /\ Quiet

(* setReturnExpr, then setStates(Return, NULL). *)
StepReturn ==
  /\ AtStmt("return")
  /\ paths' = ForActive(paths, LAMBDA p :
                IF Stmt.e = {}
                THEN <<SetState([p EXCEPT !.ret = {}], "Return", 0)>>
                ELSE EvalThen(p, CHOOSE e \in Stmt.e : TRUE, LAMBDA r :
                       SetState([r.path EXCEPT !.ret = {r.val}], "Return", 0)))
  /\ Continue(<<>>)
  /\ UNCHANGED ctx
  /\ Quiet

StepBreak ==
  /\ AtStmt("break")
  /\ paths' = ForActive(paths, LAMBDA p : <<SetState(p, "Break", ctx)>>)
  /\ Continue(<<>>)
  /\ UNCHANGED ctx
  /\ Quiet

StepContinue == AtStmt("continue") /\ Abort

StepNull ==
  /\ AtStmt("null")
  /\ Continue(<<>>)
  /\ UNCHANGED <<paths, ctx>>
  /\ Quiet

-----------------------------------------------------------------------------
(* Compound statements: the children in order, then the clean-up on every  *)
(* path, whatever its state.                                               *)
StepCompound ==
  /\ AtStmt("compound")
  /\ Continue(StepFrames(Stmt.body) \o <<[op |-> "cleanup", locals |-> LocalsOf(Stmt)]>>)
  /\ UNCHANGED <<paths, ctx>>
  /\ Quiet

StepCleanup ==
  /\ At("cleanup")
  /\ paths' = Each(paths, LAMBDA p : Cleanup(p, Head(stack).locals))
  /\ Continue(<<>>)
  /\ UNCHANGED ctx
  /\ Quiet

-----------------------------------------------------------------------------
(* stepBranch, for the one condition of an if statement.                   *)

(* What the result r of the condition adds to the branch that the inputs c *)
(* take.  A constant condition is not added to the path and drops the      *)
(* results of the other branch.                                            *)
Taken(r, c) ==
  IF ~IsConstant(r.val) THEN <<Assume(r.path, c)>>
  ELSE IF c = {} THEN <<>> ELSE <<r.path>>

(* The paths of a branch: cond picks its inputs from the truth set. *)
BranchPaths(ps, e, cond(_)) ==
  FlattenSeq(Each(ps, LAMBDA p :
    FlattenSeq(EvalThen(p, e, LAMBDA r : Taken(r, cond(Truth(r.val)))))))

Then(ps, e) == BranchPaths(ps, e, LAMBDA c : c)

Else(ps, e) == BranchPaths(ps, e, LAMBDA c : Input \ c)

(* splitActiveInactive makes two states without a statement context.  The  *)
(* then branch steps a clone of the active one.                            *)
StepIf ==
  /\ AtStmt("if")
  /\ LET active == Those(paths, IsActive)
     IN  /\ paths' = Then(active, Stmt.cond)
         /\ Continue(<<StepFrame(Stmt.then),
                       [op |-> "else", s |-> Stmt, prev |-> ctx, active |-> active,
                        inactive |-> Those(paths, LAMBDA p : ~IsActive(p))]>>)
  /\ ctx' = 0
  /\ Quiet

(* The work list of the negated conditions, then the last branch. *)
StepElse ==
  /\ At("else")
  /\ LET f == Head(stack)
     IN  /\ paths' = Else(f.active, f.s.cond)
         /\ Continue(<<StepFrame(f.s.else),
                       [op |-> "join", prev |-> f.prev, then |-> paths,
                        inactive |-> f.inactive]>>)
  /\ UNCHANGED ctx
  /\ Quiet

(* merge of the branches, and the inactive paths behind them. *)
StepJoin ==
  /\ At("join")
  /\ paths' = Head(stack).then \o paths \o Head(stack).inactive
  /\ ctx' = Head(stack).prev
  /\ Continue(<<>>)
  /\ Quiet

-----------------------------------------------------------------------------
(* do { ... } while (0), and what every breakable statement shares.        *)

(* setStmtCtx. *)
SetStmtCtx(ps, c) ==
  Each(ps, LAMBDA p : IF IsActive(p) THEN [p EXCEPT !.ctx = c] ELSE p)

(* resetBreakState. *)
ResetBreakState(ps) ==
  Each(ps, LAMBDA p :
    IF p.state = "Break" /\ p.ctx = ctx THEN [p EXCEPT !.state = "Step"] ELSE p)

(* Its assertion, which a build may leave out: a branch has no context, but *)
(* the paths in it have kept theirs.                                       *)
StepCtxAsserts ==
  /\ AtStmt("do") \/ AtStmt("switch")
  /\ \E k \in DOMAIN paths : IsActive(paths[k]) /\ paths[k].ctx # ctx
  /\ Abort

StepDo ==
  /\ AtStmt("do")
  /\ paths' = SetStmtCtx(paths, Stmt.id)
  /\ ctx' = Stmt.id
  /\ Continue(<<StepFrame(Stmt.body), [op |-> "leave", prev |-> ctx]>>)
  /\ Quiet

(* Mutant: the context is restored before the breaks are reset. *)
StepLeaveSwapped ==
  /\ At("leave")
  /\ paths' = Each(SetStmtCtx(paths, Head(stack).prev), LAMBDA p :
                IF p.state = "Break" /\ p.ctx = Head(stack).prev
                THEN [p EXCEPT !.state = "Step"] ELSE p)
  /\ ctx' = Head(stack).prev
  /\ Continue(<<>>)
  /\ Quiet

(* The end of a switch or do statement: the breaks it caught go on, and    *)
(* the context of the enclosing statement is back.                         *)
StepLeave ==
  /\ At("leave")
  /\ paths' = SetStmtCtx(ResetBreakState(paths), Head(stack).prev)
  /\ ctx' = Head(stack).prev
  /\ Continue(<<>>)
  /\ Quiet

-----------------------------------------------------------------------------
(* stepSimpleSwitch. *)

(* The labels of a top-level statement of the body, outermost first: a     *)
(* case value as {v}, default as {}.  collectCaseBlocks opens a block for  *)
(* each case label that no default precedes, or for a leading default.     *)
BlockLabels(item) ==
  IF item.labels # <<>> /\ item.labels[1] = {}
  THEN <<{}>>
  ELSE LET cases == {k \in DOMAIN item.labels : \A j \in 1 .. k : item.labels[j] # {}}
       IN  SubSeq(item.labels, 1, Cardinality(cases))

(* Mutant: a block ends where the next statement of the body begins. *)
CaseBlocksNoFall(sw) ==
  FlattenSeq([j \in DOMAIN sw.items |->
    LET ls == BlockLabels(sw.items[j])
    IN  [k \in DOMAIN ls |-> [label |-> ls[k], body |-> <<sw.items[j].s>>]]])

(* A block runs from its label to the end of the body: later statements    *)
(* are appended to every block that is open.                               *)
CaseBlocks(sw) ==
  FlattenSeq([j \in DOMAIN sw.items |->
    LET ls == BlockLabels(sw.items[j])
    IN  [k \in DOMAIN ls |->
          [label |-> ls[k],
           body  |-> [n \in 1 .. Len(sw.items) - j + 1 |-> sw.items[j + n - 1].s]]]])

(* The body must begin with a case; a condition that forks ends the run;   *)
(* merge has nothing to merge when the state has no path.                  *)
SwitchAborts ==
  \/ Stmt.items = <<>>
  \/ Stmt.items[1].labels = <<>>
  \/ Stmt.items[1].labels[1] = {}
  \/ \E k \in DOMAIN paths : Len(Eval(paths[k], Stmt.cond)) # 1
  \/ paths = <<>>

(* splitStateBySwitchCond: one partition for every path, active or not. *)
StepSwitch ==
  /\ AtStmt("switch")
  /\ ~SwitchAborts
  /\ LET ps == SetStmtCtx(paths, Stmt.id)
     IN  Continue(<<[op |-> "partition", sw |-> Stmt, done |-> <<>>,
                     rest |-> [k \in DOMAIN ps |-> Eval(ps[k], Stmt.cond)[1]]],
                    [op |-> "leave", prev |-> ctx]>>)
  /\ paths' = <<>>
  /\ ctx' = Stmt.id
  /\ Quiet

StepSwitchAborts == AtStmt("switch") /\ SwitchAborts /\ Abort

(* A partition whose block k is next; val is the value of the condition,   *)
(* rest the partitions to come, done the final states so far.              *)
CaseFrame(op, sw, k, val, rest, done) ==
  [op |-> op, sw |-> sw, k |-> k, val |-> val, rest |-> rest, done |-> done]

(* The next partition becomes current, or the final states are merged. *)
NextPartition ==
  /\ At("partition")
  /\ LET f == Head(stack)
     IN  IF f.rest = <<>>
         THEN /\ paths' = f.done
              /\ Continue(<<>>)
         ELSE /\ paths' = <<Head(f.rest).path>>
              /\ Continue(<<CaseFrame("case", f.sw, 1, Head(f.rest).val, Tail(f.rest), f.done)>>)
  /\ UNCHANGED ctx
  /\ Quiet

(* What the case frame f still has to do after the blocks. *)
Partition(f, done) == [op |-> "partition", sw |-> f.sw, rest |-> f.rest, done |-> done]

(* symValue equalTo, notEqualTo the case label. *)
CaseCond(f) ==
  {i \in Input : f.val.val[i] \in CaseBlocks(f.sw)[f.k].label}

(* A clone of the current paths takes the case. *)
StepCase ==
  /\ At("case")
  /\ LET f == Head(stack)
         blocks == CaseBlocks(f.sw)
     IN  /\ f.k <= Len(blocks)
         /\ blocks[f.k].label # {}
         /\ paths' = Each(paths, LAMBDA p : Assume(p, CaseCond(f)))
         /\ Continue(StepFrames(blocks[f.k].body)
                       \o <<[op |-> "next", sw |-> f.sw, k |-> f.k, val |-> f.val, rest |-> f.rest,
                             done |-> f.done, current |-> paths]>>)
  /\ UNCHANGED ctx
  /\ Quiet

(* Mutant: the paths that took a case and ended are forgotten. *)
EndCaseForgets ==
  /\ At("next")
  /\ LET f == Head(stack)
         current == Each(f.current, LAMBDA p : Assume(p, Input \ CaseCond(f)))
     IN  /\ paths' = IF AllInactive(paths) THEN current ELSE paths \o current
         /\ Continue(<<CaseFrame("case", f.sw, f.k + 1, f.val, f.rest, f.done)>>)
  /\ UNCHANGED ctx
  /\ Quiet

(* The current paths go on to the next block; so do the paths that took    *)
(* the case, unless none of them is active any more.                       *)
EndCase ==
  /\ At("next")
  /\ LET f == Head(stack)
         current == Each(f.current, LAMBDA p : Assume(p, Input \ CaseCond(f)))
     IN  IF AllInactive(paths)
         THEN /\ paths' = current
              /\ Continue(<<CaseFrame("case", f.sw, f.k + 1, f.val, f.rest, f.done \o paths)>>)
         ELSE /\ paths' = paths \o current
              /\ Continue(<<CaseFrame("case", f.sw, f.k + 1, f.val, f.rest, f.done)>>)
  /\ UNCHANGED ctx
  /\ Quiet

(* The default block steps the current paths themselves. *)
StepDefault ==
  /\ At("case")
  /\ LET f == Head(stack)
         blocks == CaseBlocks(f.sw)
     IN  /\ f.k <= Len(blocks)
         /\ blocks[f.k].label = {}
         /\ Continue(StepFrames(blocks[f.k].body) \o <<CaseFrame("default", f.sw, f.k, f.val, f.rest, f.done)>>)
  /\ UNCHANGED <<paths, ctx>>
  /\ Quiet

EndDefault ==
  /\ At("default")
  /\ LET f == Head(stack)
         k == IF AllInactive(paths) THEN Len(CaseBlocks(f.sw)) + 1 ELSE f.k + 1
     IN  Continue(<<CaseFrame("case", f.sw, k, f.val, f.rest, f.done)>>)
  /\ UNCHANGED <<paths, ctx>>
  /\ Quiet

(* No block is left: what is current joins the final states. *)
EndCases ==
  /\ At("case")
  /\ Head(stack).k > Len(CaseBlocks(Head(stack).sw))
  /\ paths' = <<>>
  /\ Continue(<<Partition(Head(stack), Head(stack).done \o paths)>>)
  /\ UNCHANGED ctx
  /\ Quiet

Next ==
  \/ StepExpr \/ UpdateVarState \/ AddNewDecls \/ StepReturn
  \/ StepBreak \/ StepContinue \/ StepNull
  \/ StepCompound \/ StepCleanup
  \/ StepIf \/ StepElse \/ StepJoin
  \/ StepDo \/ StepLeave \/ StepCtxAsserts
  \/ StepSwitch \/ StepSwitchAborts \/ NextPartition
  \/ StepCase \/ EndCase \/ StepDefault \/ EndDefault \/ EndCases

Spec == Init /\ [][Next]_vars

-----------------------------------------------------------------------------
(* Type correctness of the state that runs: every path of it holds a value *)
(* for the parameters and globals, and a return expression only when it    *)
(* has returned.                                                           *)
PathOK(p) ==
  /\ p.state \in {"Step", "Break", "Return"}
  /\ p.ctx \in Nat
  /\ p.conds \subseteq SUBSET Input
  /\ Var \ Local \subseteq DOMAIN p.env /\ DOMAIN p.env \subseteq Var
  /\ \A v \in DOMAIN p.env : p.env[v] \in Symbolic
  /\ p.ret \subseteq Symbolic
  /\ p.ret # {} => p.state = "Return"

TypeOK ==
  /\ \A k \in DOMAIN paths : PathOK(paths[k])
  /\ ctx \in Nat
  /\ aborted \in BOOLEAN

Done == stack = <<>> /\ ~aborted

(* The paths that the frame f keeps aside, as they will be when the        *)
(* statement it belongs to gives them back.                                *)
Rest(f) == Each(f.rest, LAMBDA r : r.path)

KeptBy(f) ==
  CASE f.op = "else" -> Else(f.active, f.s.cond) \o f.inactive
    [] f.op = "join" -> f.then \o f.inactive
    [] f.op \in {"partition", "case", "default"} -> f.done \o Rest(f)
    [] f.op = "next" ->
         f.done \o Rest(f) \o Each(f.current, LAMBDA p : Assume(p, Input \ CaseCond(f)))
    [] OTHER -> <<>>

(* Every path of the function: those that are stepped, and those that wait *)
(* in a branch, a case or a partition.                                     *)
Live == paths \o FlattenSeq(Each(stack, KeptBy))

Holds(p, i) == \A c \in p.conds : i \in c

(* At every moment, in the middle of any nesting of branches, cases and    *)
(* forks, each input of the function satisfies the conditions of some      *)
(* path: stepBranch, stepSimpleSwitch and the clean-up may not lose the    *)
(* last path of an input, whose behaviour the contract would then omit.    *)
NoInputLost ==
  LET live == Live
  IN  \A i \in Input : \E k \in DOMAIN live : Holds(live[k], i)

(* ... and of one path only: the conditions of the paths partition the     *)
(* inputs, until step drops the conditions on an uninitialized local.      *)
NoInputTwice ==
  ~Uninitialized(prog) =>
    LET live == Live
    IN  \A i \in Input : \A j, k \in DOMAIN live :
          Holds(live[j], i) /\ Holds(live[k], i) => j = k

(* Both at once.                                                           *)
InputsPartitioned == NoInputLost /\ NoInputTwice

(* No frame leaves a statement: the analysis is outside every switch and   *)
(* loop.                                                                   *)
OutsideLoops == \A k \in DOMAIN stack : stack[k].op # "leave"

(* resetBreakState: a path that left a switch or a loop by a break with    *)
(* the context of that statement is not in state Break any more outside    *)
(* all of them, whatever branches, cases and forks it went through and     *)
(* wherever it was kept meanwhile.  A path in state Break that is left     *)
(* there can only come from a break in a branch of an if statement: that   *)
(* one is marked with the branch's null context, which no statement resets.*)
MarkersAreReset ==
  OutsideLoops =>
    LET live == Live IN \A k \in DOMAIN live : live[k].state = "Break" => live[k].ctx = 0
=============================================================================

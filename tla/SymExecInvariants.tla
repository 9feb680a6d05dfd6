-------------------------- MODULE SymExecInvariants --------------------------
(***************************************************************************)
(* The inductive invariants of SymExec, and what the lemmas of their       *)
(* proofs speak of.                                                        *)
(*                                                                         *)
(* For SymExec!InputsPartitioned, the invariant (Sound) speaks of lists of *)
(* paths: the current one and one for each frame of the stack, KeptBy(f).  *)
(* Every input is held by some path of some list, and, where every local   *)
(* is initialized, by no two.  That the conditions of such a body never    *)
(* tell apart two inputs that differ in a local only is what keeps the     *)
(* clean-up of a scope from dropping one of them, and is a part of the     *)
(* invariant (SoundPath).                                                  *)
(*                                                                         *)
(* For SymExec!MarkersAreReset, the invariant (BreaksInv) speaks of the    *)
(* context that the frames hand down the stack: every path in state Break  *)
(* is above a leave frame that will find the context the path is marked    *)
(* with, and so would be one that a frame still marks: the context that a  *)
(* frame runs in is null or that of a leave frame below it.                *)
(*                                                                         *)
(* For CSemantics!CoversExecutions and CSemantics!DescribesExecutions, the *)
(* invariant (Follows) says where in its execution every input is: some    *)
(* path, stepped or kept by a frame, is at a point of it (Tells), and what *)
(* the frames below have still to do leads from there to the end that C    *)
(* gives the whole body (Goes, Told).                                      *)
(***************************************************************************)
EXTENDS CSemantics, SequenceLemmas

(* Two inputs that differ, if at all, in what the locals hold. *)
Alike(i, j) == \A v \in Var \ Local : i[v] = j[v]

(* The set c of inputs never tells such two apart. *)
Independent(c) == \A i, j \in Input : Alike(i, j) => (i \in c <=> j \in c)

(* In what follows exact says that every local has an initializer. *)
SoundValue(x, exact) ==
  exact => \A i, j \in Input : Alike(i, j) => x.val[i] = x.val[j]

SoundPath(p, exact) ==
  /\ DOMAIN p = {"state", "ctx", "conds", "ret", "env"}
  /\ p.conds \subseteq SUBSET Input
  /\ exact => \A c \in p.conds : Independent(c)
  /\ exact => \A v \in DOMAIN p.env : SoundValue(p.env[v], exact)

SoundPaths(ps, exact) == IsSeq(ps) /\ \A k \in DOMAIN ps : SoundPath(ps[k], exact)

(* Some path of ps holds the input i; at most one does. *)
Holder(ps, i) == \E k \in DOMAIN ps : Holds(ps[k], i)

Alone(ps, i) == \A j, k \in DOMAIN ps : Holds(ps[j], i) /\ Holds(ps[k], i) => j = k

(* The paths qs may take the place of the paths ps. *)
Replaces(qs, ps, exact) ==
  /\ SoundPaths(qs, exact)
  /\ \A i \in Input :
       /\ Holder(ps, i) => Holder(qs, i)
       /\ exact => /\ Holder(qs, i) => Holder(ps, i)
                   /\ Alone(ps, i) => Alone(qs, i)

(* The same of the lists of paths that the frames of a stack keep. *)
HeldIn(st, i) == \E m \in DOMAIN st : Holder(KeptBy(st[m]), i)

OnceIn(st, i) ==
  /\ \A m \in DOMAIN st : Alone(KeptBy(st[m]), i)
  /\ \A m, n \in DOMAIN st : Holder(KeptBy(st[m]), i) /\ Holder(KeptBy(st[n]), i) => m = n

(* A frame of the analysis of a body whose statements are ss. *)
SoundRest(rest, exact) ==
  /\ IsSeq(rest)
  /\ \A k \in DOMAIN rest : SoundPath(rest[k].path, exact) /\ SoundValue(rest[k].val, exact)

SoundFrame(f, ss, exact) ==
  /\ f.op \in {"step", "cleanup", "else", "join", "leave", "partition", "case", "next", "default"}
  /\ f.op = "step" => f.s \in ss
  /\ f.op = "cleanup" => f.locals \subseteq Local
  /\ f.op = "else" => /\ f.s \in ss /\ f.s.kind = "if"
                      /\ SoundPaths(f.active, exact) /\ SoundPaths(f.inactive, exact)
  /\ f.op = "join" => SoundPaths(f.then, exact) /\ SoundPaths(f.inactive, exact)
  /\ f.op \in {"partition", "case", "next", "default"} =>
       /\ f.sw \in ss /\ f.sw.kind = "switch"
       /\ SoundPaths(f.done, exact) /\ SoundRest(f.rest, exact)
  /\ f.op \in {"case", "next", "default"} => f.k \in Nat \ {0} /\ SoundValue(f.val, exact)
  /\ f.op = "next" => SoundPaths(f.current, exact)

SoundStack(st, ss, exact) == IsSeq(st) /\ \A k \in DOMAIN st : SoundFrame(st[k], ss, exact)

(* Every local of the body under analysis has an initializer. *)
Exact == ~Uninitialized(prog)

(* Only the frame on top may be about to take up a partition. *)
PartitionOnTop(ps, st) ==
  \A k \in DOMAIN st : st[k].op = "partition" => k = 1 /\ ps = <<>>

(* Every input is held by the paths ps or by a list that st keeps, once. *)
Covers(ps, st, exact) ==
  \A i \in Input :
    /\ Holder(ps, i) \/ HeldIn(st, i)
    /\ exact => Alone(ps, i) /\ OnceIn(st, i) /\ ~(Holder(ps, i) /\ HeldIn(st, i))

SoundState(ps, st, ss, exact) ==
  /\ SoundPaths(ps, exact)
  /\ SoundStack(st, ss, exact)
  /\ PartitionOnTop(ps, st)
  /\ Covers(ps, st, exact)

(* The inductive invariant. *)
Sound ==
  /\ prog \in Programs
  /\ SoundState(paths, stack, Stmts(prog), ~Uninitialized(prog))

-----------------------------------------------------------------------------
(* No path is left with the mark of a break.  Each of them waits for the   *)
(* end of the statement that its break leaves: for a leave frame that runs *)
(* with the context the path was marked with.                              *)

(* The frames that give stmtCtx_ back the value it had. *)
Restores(f) == f.op \in {"leave", "else", "join"}

(* What stmtCtx_ will be when the n innermost frames of st are done, if it *)
(* is c now.                                                               *)
CtxBelow(c, st, n, x) ==
  \/ x = c /\ \A i \in 1 .. n : ~Restores(st[i])
  \/ \E j \in 1 .. n : /\ Restores(st[j]) /\ st[j].prev = x
                       /\ \A i \in j + 1 .. n : ~Restores(st[i])

(* Below the frame m of st, a break with the context x will be reset. *)
Caught(c, st, m, x) ==
  \E k \in DOMAIN st : m < k /\ st[k].op = "leave" /\ CtxBelow(c, st, k - 1, x)

(* The contexts of the paths that have left a statement.  The null context *)
(* that a branch has is none of them.                                      *)
Marks(ps) == {ps[k].ctx : k \in {j \in DOMAIN ps : ps[j].state = "Break"}} \ {0}

BreaksState(c, ps, st) ==
  /\ \A x \in Marks(ps) : Caught(c, st, 0, x)
  /\ \A m \in DOMAIN st : \A x \in Marks(KeptBy(st[m])) : Caught(c, st, m, x)
  /\ \A k \in DOMAIN st : \A x : CtxBelow(c, st, k - 1, x) => x = 0 \/ Caught(c, st, k - 1, x)

(* The inductive invariant, next to Sound. *)
BreaksInv == BreaksState(ctx, paths, stack)

-----------------------------------------------------------------------------
(* The final paths are the executions of the function.  Every input has a  *)
(* path, among those that are stepped and those that wait, from which the  *)
(* frames of the stack lead to the end of its execution.                   *)

(* Where a path is in the execution on input i; a break knows the context  *)
(* of the statement it leaves.                                             *)
StateOf(p, i) ==
  [env  |-> [v \in DOMAIN p.env |-> p.env[v].val[i]],
   mode |-> IF p.state = "Step" THEN "run" ELSE IF p.state = "Break" THEN "break" ELSE "return",
   ret  |-> {x.val[i] : x \in p.ret}]

Marked(st, x) == [st |-> st, mark |-> IF st.mode = "break" THEN x ELSE 0]

Point(p, i) == Marked(StateOf(p, i), p.ctx)

(* The path p tells an execution on the input i. *)
Tells(p, i) ==
  Holds(p, i) /\ p.state \in {"Step", "Break", "Return"} /\ StateOf(p, i) \in CState

(* The blocks of a switch statement from k on that have the label l. *)
Blocks(sw, k, l) == {b \in DOMAIN CaseBlocks(sw) : k <= b /\ CaseBlocks(sw)[b].label = l}

(* What is left of the switch statement at block k when its condition is n. *)
Jump(sw, k, n, st, i) ==
  LET t == IF Blocks(sw, k, {n}) # {} THEN Blocks(sw, k, {n}) ELSE Blocks(sw, k, {})
  IN  IF t = {} THEN st ELSE RunAll(Run, CaseBlocks(sw)[CHOOSE b \in t : TRUE].body, st, i)

(* Only what is running is stepped, in context x. *)
Stepped(q, st, x) == IF q.st.mode = "run" THEN Marked(st, x) ELSE q

Avoids(q, ls) == \A v \in DOMAIN q.st.env : v \notin ls

(* The frame f with the context x takes the point q to r, on the input i.  *)
(* A path that does not run passes the blocks of f, too; their clean-up    *)
(* does nothing to it.                                                     *)
Passes(f, x, q, r, i) ==
  /\ f.op = "step" =>
       Avoids(q, Declared(f.s)) /\ r = Stepped(q, Run[f.s][q.st][i], x)
  /\ f.op = "cleanup" => r = [q EXCEPT !.st = Leave(q.st, f.locals)]
  /\ f.op = "leave" => r = IF q.mark = x THEN Marked(Resume(q.st), 0) ELSE q
  /\ f.op \in {"case", "next", "default"} =>
       /\ Avoids(q, Declared(f.sw))
       /\ r = Stepped(q, Jump(f.sw, IF f.op = "case" THEN f.k ELSE f.k + 1, f.val.val[i], q.st, i), x)
  /\ f.op \in {"else", "join", "partition"} => r = q

(* The path p is kept by the frame f, and is at the point r after it. *)
Waits(f, x, p, r, i) ==
  \/ /\ f.op = "else"
     /\ \/ /\ \E k \in DOMAIN Else(f.active, f.s.cond) : p = Else(f.active, f.s.cond)[k]
           /\ Passes(StepFrame(f.s.else), x, Point(p, i), r, i)
        \/ (\E k \in DOMAIN f.inactive : p = f.inactive[k]) /\ r = Point(p, i)
  \/ /\ f.op = "join"
     /\ (\E k \in DOMAIN f.then : p = f.then[k]) \/ (\E k \in DOMAIN f.inactive : p = f.inactive[k])
     /\ r = Point(p, i)
  \/ /\ f.op \in {"partition", "case", "next", "default"}
     /\ \/ (\E k \in DOMAIN f.done : p = f.done[k]) /\ r = Point(p, i)
        \/ \E k \in DOMAIN f.rest :
             /\ p = f.rest[k].path
             /\ Passes(CaseFrame("case", f.sw, 1, f.rest[k].val, <<>>, <<>>), x, Point(p, i), r, i)
  \/ /\ f.op = "next" /\ i \notin CaseCond(f)
     /\ \E k \in DOMAIN f.current : p = f.current[k]
     /\ Passes(f, x, Point(p, i), r, i)

(* The frames m + 1, m + 2, ... of st lead from the point q to r. *)
Goes(c, st, m, q, r, i) ==
  \E t : /\ t[m] = q /\ t[Len(st)] = r
         /\ \A j \in m + 1 .. Len(st) : \E x : /\ CtxBelow(c, st, j - 1, x)
                                               /\ Passes(st[j], x, t[j - 1], t[j], i)

(* A path of the state tells the execution on input i, which ends at r. *)
Told(c, ps, st, r, i) ==
  \/ \E k \in DOMAIN ps : Tells(ps[k], i) /\ Goes(c, st, 0, Point(ps[k], i), r, i)
  \/ \E m \in DOMAIN st : \E x, p, q :
       /\ CtxBelow(c, st, m - 1, x)
       /\ Tells(p, i) /\ Waits(st[m], x, p, q, i)
       /\ Goes(c, st, m, q, r, i)

(* The statements that the frame f has still to step. *)
Pending(f) ==
  CASE f.op = "step" -> {f.s}
    [] f.op = "else" -> {f.s.else}
    [] f.op \in {"partition", "case", "next", "default"} -> {f.sw.items[k].s : k \in DOMAIN f.sw.items}
    [] OTHER -> {}

(* What is above a leave frame is inside the statement that it leaves. *)
Inside(c, st, p) ==
  \A j, k \in DOMAIN st : j < k /\ st[k].op = "leave" =>
    \E t \in Stmts(p) : /\ Breakable(t) /\ CtxBelow(c, st, k - 1, t.id)
                        /\ \A s \in Pending(st[j]) : Depth(s) < Depth(t)

(* The whole invariant: every input of a function body that is stepped as  *)
(* C does it is told.                                                      *)
Follows ==
  SteppedAsC(prog) =>
    /\ BreaksInv
    /\ Inside(ctx, stack, prog)
    /\ ~aborted => \A i \in Input : \E r :
         r.st = Run[prog][Start(i)][i] /\ Told(ctx, paths, stack, r, i)

-----------------------------------------------------------------------------
(* What the lemmas speak of. *)

(* The results rs of an expression on the path p divide the inputs of p.   *)
Divides(rs, p, exact) ==
  /\ SoundRest(rs, exact)
  /\ \A i \in Input :
       /\ Holds(p, i) <=> \E k \in DOMAIN rs : Holds(rs[k].path, i)
       /\ \A j, k \in DOMAIN rs : Holds(rs[j].path, i) /\ Holds(rs[k].path, i) => j = k

(* The frames fs keep the paths ks. *)
Keeps(fs, ks) ==
  /\ IsSeq(fs) /\ IsSeq(ks)
  /\ \A i \in Input : /\ HeldIn(fs, i) <=> Holder(ks, i)
                      /\ OnceIn(fs, i) <=> Alone(ks, i)

(* The frames fs, none of which takes up a partition, keep the paths ks. *)
Pushes(fs, ks, ss, exact) ==
  /\ SoundStack(fs, ss, exact)
  /\ \A k \in DOMAIN fs : fs[k].op # "partition"
  /\ Keeps(fs, ks)

(* The lists as and bs part what the paths ps hold between them. *)
Parted(as, bs, ps, exact) ==
  /\ SoundPaths(as, exact) /\ SoundPaths(bs, exact)
  /\ \A i \in Input :
       /\ Holder(ps, i) <=> Holder(as, i) \/ Holder(bs, i)
       /\ Alone(ps, i) => Alone(as, i) /\ Alone(bs, i) /\ ~(Holder(as, i) /\ Holder(bs, i))

(* Lists with the same states and contexts. *)
SameMark(q, p) == q.state = p.state /\ q.ctx = p.ctx

(* What a statement does, given what the statements inside it do. *)
Meaning(g, s) == [st \in CState |-> [i \in Input |-> Execute(g, s, st, i)]]

(* Right of the statements that are less than n deep. *)
RightBelow(g, n) ==
  /\ g = [s \in Statements |-> g[s]]
  /\ \A s \in Statements : Depth(s) < n => g[s] = Meaning(g, s)

(* The states between the statements of a row. *)
RowOf(a, ss, st, i) ==
  a[0] = st /\ \A k \in DOMAIN ss : a[k] = Run[ss[k]][a[k - 1]][i]

(* What an execution of s ends like. *)
Good(s) ==
  \A st \in CState, i \in Input :
    /\ Run[s][st][i] \in CState
    /\ \A v \in DOMAIN Run[s][st][i].env : v \in DOMAIN st.env \/ v \in Writes(s)
    /\ st.mode # "run" => Run[s][st][i] = st

GoodPlace(a, k, st, W) ==
  /\ a[k] \in CState
  /\ \A v \in DOMAIN a[k].env : v \in DOMAIN st.env \/ v \in W
  /\ k # 0 /\ a[k - 1].mode # "run" => a[k] = a[k - 1]

(* One frame: a path that is stepped passes it, or a path waits in it. *)
ToldBy(c, ps, f, r, i) ==
  \/ \E k \in DOMAIN ps : Tells(ps[k], i) /\ Passes(f, c, Point(ps[k], i), r, i)
  \/ \E p : Tells(p, i) /\ Waits(f, c, p, r, i)

(* The frames gs, in the context d, take the point q to r. *)
RowGoes(gs, d, q, r, i) ==
  \E t : /\ t[0] = q /\ t[Len(gs)] = r
         /\ \A j \in DOMAIN gs : Passes(gs[j], d, t[j - 1], t[j], i)

IsPoint(q) ==
  /\ q = [st |-> q.st, mark |-> q.mark] /\ q.st \in CState
  /\ q.st.mode # "break" => q.mark = 0

(* The path q is active, as p is, and its variables are env. *)
Comes(q, p, env, i) ==
  Holds(q, i) /\ q.state = "Step" /\ q.ctx = p.ctx /\ StateOf(q, i) = Running(env)

Retold == \A i \in Input : \A r : Told(ctx, paths, stack, r, i) => Told(ctx', paths', stack', r, i)

(* The frames fs do what the frame on top of the stack had to do.          *)
Replacing(fs) ==
  \A i \in Input : \A o : ToldBy(ctx, paths, Head(stack), o, i) => Told(ctx', paths', fs, o, i)

(* One of the paths H says that the execution goes on with st.             *)
OneSays(H, st, i) == \E j \in DOMAIN H : Tells(H[j], i) /\ Point(H[j], i) = Marked(st, ctx)

(* The paths H that stepping s makes of the path p say what s does. *)
Says(H, p, s) ==
  /\ IsSeq(H)
  /\ ~IsActive(p) => H = <<p>>
  /\ IsActive(p) => \A i \in Input : Tells(p, i) =>
       OneSays(H, Execute(Run, s, StateOf(p, i), i), i)

(* A path that returns.                                                    *)
Back(q, x) == SetState([q EXCEPT !.ret = x], "Return", 0)

Returned(x, i) == {y.val[i] : y \in x}

(* A path of qs goes on with the variables env where p was.                *)
Continues(qs, p, env, i) == \E l \in DOMAIN qs : Comes(qs[l], p, env, i)

(* The block b of sw begins at the label l of the item j of its body.      *)
BlockAt(sw, b, j, l) ==
  /\ j \in DOMAIN sw.items /\ l \in DOMAIN sw.items[j].labels
  /\ CaseBlocks(sw)[b].label = sw.items[j].labels[l] /\ CaseBlocks(sw)[b].body = ItemsFrom(sw, j)

(* The paths that a frame of a switch statement keeps for later.           *)
Aside(f, x, p, r, i) ==
  \/ (\E k \in DOMAIN f.done : p = f.done[k]) /\ r = Point(p, i)
  \/ \E k \in DOMAIN f.rest :
       /\ p = f.rest[k].path
       /\ Passes(CaseFrame("case", f.sw, 1, f.rest[k].val, <<>>, <<>>), x, Point(p, i), r, i)

Shallower(f, n) == \A s \in Pending(f) : Depth(s) < n

(* The frame f steps nothing deeper than h does. *)
NoDeeper(f, h) == \A n \in Nat : Shallower(h, n) => Shallower(f, n)

Left(c, st, p, j, k) ==
  \E t \in Stmts(p) : Breakable(t) /\ CtxBelow(c, st, k - 1, t.id) /\ Shallower(st[j], Depth(t))

Enclosing == Inside(ctx, stack, prog)
=============================================================================

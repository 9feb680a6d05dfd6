---------------------------- MODULE SymExecProofs ----------------------------
(***************************************************************************)
(* SymExec!InputsPartitioned holds of every analysis, whatever the         *)
(* function bodies, the variables and their numbers are; and so do         *)
(* SymExec!MarkersAreReset, CSemantics!CoversExecutions and                *)
(* CSemantics!DescribesExecutions: the final paths are the executions of   *)
(* the function in C.                                                      *)
(*                                                                         *)
(* The last two rest on what an execution may write and declare, shown by  *)
(* induction over the depth of statements (GoodRun, Executes), on a        *)
(* break's context being none of a statement around it (Inside), and on    *)
(* the blocks of a switch being what C passes from the label on            *)
(* (JumpIsSwitch).                                                         *)
(***************************************************************************)
EXTENDS SymExecInvariants, FiniteSetTheorems

-----------------------------------------------------------------------------
(* Paths. *)

LEMMA SoundAssume ==
  ASSUME NEW exact \in BOOLEAN, NEW p, SoundPath(p, exact),
         NEW c \in SUBSET Input, exact => Independent(c)
  PROVE  /\ SoundPath(Assume(p, c), exact)
         /\ \A i : Holds(Assume(p, c), i) <=> Holds(p, i) /\ i \in c
BY DEF SoundPath, Assume, Holds

(* Binding a variable leaves the conditions of a path alone. *)
LEMMA SoundBind ==
  ASSUME NEW exact \in BOOLEAN, NEW p, SoundPath(p, exact),
         NEW v, NEW x, SoundValue(x, exact)
  PROVE  /\ SoundPath(Bind(p, v, x), exact)
         /\ \A i : Holds(Bind(p, v, x), i) <=> Holds(p, i)
<1> DEFINE env == [w \in DOMAIN p.env \cup {v} |-> IF w = v THEN x ELSE p.env[w]]
<1>1. \A w \in DOMAIN env : exact => SoundValue(env[w], exact) BY DEF SoundPath
<1>2. Bind(p, v, x) = [p EXCEPT !.env = env] BY DEF Bind
<1> HIDE DEF env
<1>3. /\ DOMAIN Bind(p, v, x) = DOMAIN p
      /\ Bind(p, v, x).conds = p.conds
      /\ Bind(p, v, x).env = env
  BY <1>2 DEF SoundPath
<1> QED BY <1>1, <1>3 DEF SoundPath, Holds

(* Neither the state, the context nor the return expression of a path      *)
(* matters to what it holds.                                               *)
LEMMA SoundSame ==
  ASSUME NEW exact \in BOOLEAN, NEW p, SoundPath(p, exact), NEW q,
         DOMAIN q = DOMAIN p, q.conds = p.conds, q.env = p.env
  PROVE  SoundPath(q, exact) /\ \A i : Holds(q, i) <=> Holds(p, i)
BY DEF SoundPath, Holds

(* So does a change of state, which a path that returned ignores. *)
LEMMA SoundSetState ==
  ASSUME NEW exact \in BOOLEAN, NEW p, SoundPath(p, exact), NEW st, NEW c
  PROVE  /\ SoundPath(SetState(p, st, c), exact)
         /\ \A i : Holds(SetState(p, st, c), i) <=> Holds(p, i)
<1>1. /\ DOMAIN SetState(p, st, c) = DOMAIN p
      /\ SetState(p, st, c).conds = p.conds
      /\ SetState(p, st, c).env = p.env
  BY DEF SetState, SoundPath
<1> QED BY <1>1, SoundSame

(* The clean-up of locals drops no condition that is independent of them,  *)
(* and a path that loses conditions holds no fewer inputs.                 *)
LEMMA SoundCleanup ==
  ASSUME NEW exact \in BOOLEAN, NEW p, SoundPath(p, exact), NEW ls \in SUBSET Local
  PROVE  /\ SoundPath(Cleanup(p, ls), exact)
         /\ \A i : Holds(p, i) => Holds(Cleanup(p, ls), i)
         /\ exact => \A i : Holds(Cleanup(p, ls), i) <=> Holds(p, i)
<1> DEFINE env == [v \in DOMAIN p.env \ ls |-> p.env[v]]
           conds == {c \in p.conds : ~Mentions(c, ls)}
           q == Cleanup(p, ls)
<1>1. q = [[p EXCEPT !.env = env] EXCEPT !.conds = conds] BY DEF Cleanup, SoundPath
<1>2. \A v \in DOMAIN env : v \in DOMAIN p.env /\ env[v] = p.env[v] OBVIOUS
<1>3. conds \subseteq p.conds OBVIOUS
<1>4. exact => conds = p.conds
  <2> SUFFICES ASSUME exact, NEW c \in p.conds, Mentions(c, ls) PROVE FALSE OBVIOUS
  <2>1. PICK i \in c, j \in Input \ c : \A v \in Var \ ls : i[v] = j[v] BY DEF Mentions
  <2>2. Alike(i, j) BY <2>1 DEF Alike
  <2>3. Independent(c) /\ i \in Input BY DEF SoundPath
  <2> QED BY <2>1, <2>2, <2>3 DEF Independent
<1> HIDE DEF env, conds
<1>5. DOMAIN q = DOMAIN p /\ q.env = env /\ q.conds = conds BY <1>1 DEF SoundPath
<1> QED BY <1>2, <1>3, <1>4, <1>5 DEF SoundPath, Holds

-----------------------------------------------------------------------------
(* Expressions. *)

LEMMA SoundValues ==
  ASSUME NEW exact \in BOOLEAN, NEW p, SoundPath(p, exact), NEW e
  PROVE  SoundValue(Value(p, e), exact)
<1> SUFFICES ASSUME exact, NEW i \in Input, NEW j \in Input, Alike(i, j)
             PROVE  Value(p, e).val[i] = Value(p, e).val[j]
  BY DEF SoundValue
<1>1. \A v \in DOMAIN p.env : p.env[v].val[i] = p.env[v].val[j] BY DEF SoundPath, SoundValue
<1>2. [v \in DOMAIN p.env |-> p.env[v].val[i]] = [v \in DOMAIN p.env |-> p.env[v].val[j]] BY <1>1
<1> QED BY <1>2 DEF Value

LEMMA SoundBoth ==
  ASSUME NEW exact \in BOOLEAN, NEW x, NEW z, SoundValue(x, exact), SoundValue(z, exact)
  PROVE  SoundValue(Both(x, z), exact)
BY DEF SoundValue, Both

(* The inputs on which a value is true, and the others. *)
LEMMA SoundTruth ==
  ASSUME NEW exact \in BOOLEAN, NEW x, SoundValue(x, exact)
  PROVE  /\ Truth(x) \in SUBSET Input
         /\ exact => Independent(Truth(x)) /\ Independent(Input \ Truth(x))
BY DEF SoundValue, Truth, Independent

(* An evaluation with one result. *)
LEMMA OneResult ==
  ASSUME NEW exact \in BOOLEAN, NEW p, NEW q, NEW x, SoundPath(q, exact),
         SoundValue(x, exact), \A i \in Input : Holds(q, i) <=> Holds(p, i)
  PROVE  /\ Divides(<<[path |-> q, val |-> x]>>, p, exact)
         /\ Len(<<[path |-> q, val |-> x]>>) = 1
<1> DEFINE r == [path |-> q, val |-> x]
           rs == <<r>>
<1>1. r.path = q /\ r.val = x OBVIOUS
<1> HIDE DEF r
<1>2. IsSeq(rs) /\ Len(rs) = 1 /\ DOMAIN rs = {1} /\ rs[1] = r BY DEF IsSeq
<1> HIDE DEF rs
<1>3. Divides(rs, p, exact) BY <1>1, <1>2 DEF Divides, SoundRest
<1> QED BY <1>2, <1>3 DEF rs, r

(* An evaluation that forks on the inputs c. *)
LEMMA TwoResults ==
  ASSUME NEW exact \in BOOLEAN, NEW p, SoundPath(p, exact),
         NEW c \in SUBSET Input, exact => Independent(c) /\ Independent(Input \ c),
         NEW x, NEW z, SoundValue(x, exact), SoundValue(z, exact)
  PROVE  LET rs == <<[path |-> Assume(p, c), val |-> x],
                     [path |-> Assume(p, Input \ c), val |-> z]>>
         IN  Divides(rs, p, exact) /\ Len(rs) = 2
<1> DEFINE a == Assume(p, c)
           b == Assume(p, Input \ c)
           r == [path |-> a, val |-> x]
           s == [path |-> b, val |-> z]
           rs == <<r, s>>
<1>1. SoundPath(a, exact) /\ \A i : Holds(a, i) <=> Holds(p, i) /\ i \in c BY SoundAssume
<1>2. SoundPath(b, exact) /\ \A i : Holds(b, i) <=> Holds(p, i) /\ i \in Input \ c BY SoundAssume
<1>3. r.path = a /\ r.val = x /\ s.path = b /\ s.val = z OBVIOUS
<1> HIDE DEF a, b, r, s
<1>4. IsSeq(rs) /\ Len(rs) = 2 /\ DOMAIN rs = {1, 2} /\ rs[1] = r /\ rs[2] = s BY DEF IsSeq
<1> HIDE DEF rs
<1>5. SoundRest(rs, exact) BY <1>1, <1>2, <1>3, <1>4 DEF SoundRest
<1>6. ASSUME NEW i \in Input
      PROVE  /\ Holds(p, i) <=> \E k \in DOMAIN rs : Holds(rs[k].path, i)
             /\ \A j, k \in DOMAIN rs :
                  Holds(rs[j].path, i) /\ Holds(rs[k].path, i) => j = k
  BY <1>1, <1>2, <1>3, <1>4
<1>7. Divides(rs, p, exact) BY <1>5, <1>6 DEF Divides
<1> QED BY <1>4, <1>7 DEF rs, r, s, a, b

(* What evalExpr returns: one path, or the two sides of a condition. *)
LEMMA EvalDivides ==
  ASSUME NEW exact \in BOOLEAN, NEW p, SoundPath(p, exact), NEW e, IsExpr(e)
  PROVE  /\ Divides(Eval(p, e), p, exact)
         /\ Len(Eval(p, e)) = IF e.kind = "cond" THEN 2 ELSE 1
<1>1. CASE e.kind = "pure"
  <2>1. Eval(p, e) = <<[path |-> p, val |-> Value(p, e)]>> BY <1>1 DEF Eval
  <2> QED BY <1>1, <2>1, OneResult, SoundValues
<1>2. CASE e.kind = "write"
  <2> DEFINE q == Bind(p, e.var, Value(p, e.new))
  <2>1. Eval(p, e) = <<[path |-> q, val |-> Value(p, e.val)]>> BY <1>2 DEF Eval
  <2>2. SoundPath(q, exact) /\ \A i : Holds(q, i) <=> Holds(p, i) BY SoundValues, SoundBind
  <2> HIDE DEF q
  <2> QED BY <1>2, <2>1, <2>2, OneResult, SoundValues
<1>3. CASE e.kind = "and"
  <2> DEFINE q == Bind(p, e.b.var, Value(p, e.b.new))
             x == Both(Value(p, e.a), Value(p, e.b.val))
  <2>1. Eval(p, e) = <<[path |-> q, val |-> x]>> BY <1>3 DEF Eval
  <2>2. SoundPath(q, exact) /\ \A i : Holds(q, i) <=> Holds(p, i) BY SoundValues, SoundBind
  <2>3. SoundValue(x, exact) BY SoundValues, SoundBoth
  <2> HIDE DEF q, x
  <2> QED BY <1>3, <2>1, <2>2, <2>3, OneResult
<1>4. CASE e.kind = "cond"
  <2> DEFINE c == Truth(Value(p, e.c))
  <2>1. Eval(p, e) = <<[path |-> Assume(p, c), val |-> Value(p, e.a)],
                       [path |-> Assume(p, Input \ c), val |-> Value(p, e.b)]>>
    BY <1>4 DEF Eval
  <2>2. c \in SUBSET Input /\ (exact => Independent(c) /\ Independent(Input \ c))
    BY SoundValues, SoundTruth
  <2>3. SoundValue(Value(p, e.a), exact) /\ SoundValue(Value(p, e.b), exact) BY SoundValues
  <2> HIDE DEF c
  <2> QED BY <1>4, <2>1, <2>2, <2>3, TwoResults
<1> QED BY <1>1, <1>2, <1>3, <1>4 DEF IsExpr

-----------------------------------------------------------------------------
(* Lists of paths. *)

LEMMA HeldByConcatenation ==
  ASSUME NEW s, NEW t, IsSeq(s), IsSeq(t), NEW i
  PROVE  /\ Holder(s \o t, i) <=> Holder(s, i) \/ Holder(t, i)
         /\ Alone(s \o t, i) <=> Alone(s, i) /\ Alone(t, i) /\ ~(Holder(s, i) /\ Holder(t, i))
<1> DEFINE u == s \o t
<1>1. /\ DOMAIN s = 1 .. Len(s) /\ DOMAIN t = 1 .. Len(t)
      /\ Len(s) \in Nat /\ Len(t) \in Nat
  BY DEF IsSeq
<1>2. \A k \in DOMAIN s : k \in DOMAIN u /\ u[k] = s[k] BY Concatenation
<1>3. \A k \in DOMAIN t : k + Len(s) \in DOMAIN u /\ u[k + Len(s)] = t[k] BY Concatenation
<1>4. \A k \in DOMAIN u : \/ k \in DOMAIN s
                          \/ k - Len(s) \in DOMAIN t /\ u[k] = t[k - Len(s)]
  BY Concatenation
<1> HIDE DEF u
<1>5. Holder(u, i) <=> Holder(s, i) \/ Holder(t, i)
  <2>1. Holder(s, i) => Holder(u, i) BY <1>2 DEF Holder
  <2>2. Holder(t, i) => Holder(u, i) BY <1>3 DEF Holder
  <2>3. Holder(u, i) => Holder(s, i) \/ Holder(t, i) BY <1>2, <1>4 DEF Holder
  <2> QED BY <2>1, <2>2, <2>3
<1>6. ASSUME Alone(u, i)
      PROVE  Alone(s, i) /\ Alone(t, i) /\ ~(Holder(s, i) /\ Holder(t, i))
  <2>1. Alone(s, i) BY <1>2, <1>6 DEF Alone
  <2>2. Alone(t, i)
    <3> SUFFICES ASSUME NEW j \in DOMAIN t, NEW k \in DOMAIN t, Holds(t[j], i), Holds(t[k], i)
                 PROVE  j = k
      BY DEF Alone
    <3>1. j + Len(s) = k + Len(s) BY <1>3, <1>6 DEF Alone
    <3> QED BY <1>1, <3>1
  <2>3. ASSUME NEW j \in DOMAIN s, NEW k \in DOMAIN t, Holds(s[j], i), Holds(t[k], i)
        PROVE  FALSE
    <3>1. j = k + Len(s) BY <1>2, <1>3, <1>6, <2>3 DEF Alone
    <3> QED BY <1>1, <3>1
  <2> QED BY <2>1, <2>2, <2>3 DEF Holder
<1>7. ASSUME Alone(s, i), Alone(t, i), ~(Holder(s, i) /\ Holder(t, i))
      PROVE  Alone(u, i)
  <2> SUFFICES ASSUME NEW j \in DOMAIN u, NEW k \in DOMAIN u, Holds(u[j], i), Holds(u[k], i)
               PROVE  j = k
    BY DEF Alone
  <2>1. CASE j \in DOMAIN s /\ k \in DOMAIN s BY <1>2, <1>7, <2>1 DEF Alone
  <2>2. CASE j \in DOMAIN s /\ k \notin DOMAIN s BY <1>2, <1>4, <1>7, <2>2 DEF Holder
  <2>3. CASE j \notin DOMAIN s /\ k \in DOMAIN s BY <1>2, <1>4, <1>7, <2>3 DEF Holder
  <2>4. CASE j \notin DOMAIN s /\ k \notin DOMAIN s
    <3>1. j - Len(s) = k - Len(s) BY <1>4, <1>7, <2>4 DEF Alone
    <3>2. j \in Int /\ k \in Int BY Concatenation, <1>1 DEF u
    <3> QED BY <1>1, <3>1, <3>2
  <2> QED BY <2>1, <2>2, <2>3, <2>4
<1> QED BY <1>5, <1>6, <1>7 DEF u

LEMMA SoundConcatenation ==
  ASSUME NEW exact, NEW s, NEW t, SoundPaths(s, exact), SoundPaths(t, exact)
  PROVE  SoundPaths(s \o t, exact)
<1> DEFINE u == s \o t
<1>1. IsSeq(u) BY Concatenation DEF SoundPaths
<1>2. \A k \in DOMAIN s : u[k] = s[k] BY Concatenation DEF SoundPaths
<1>3. \A k \in DOMAIN u : \/ k \in DOMAIN s
                          \/ k - Len(s) \in DOMAIN t /\ u[k] = t[k - Len(s)]
  BY Concatenation DEF SoundPaths
<1> HIDE DEF u
<1>4. \A k \in DOMAIN u : SoundPath(u[k], exact) BY <1>2, <1>3 DEF SoundPaths
<1> QED BY <1>1, <1>4 DEF SoundPaths, u

LEMMA EmptyList ==
  /\ IsSeq(<<>>)
  /\ \A exact : SoundPaths(<<>>, exact)
  /\ \A i : ~Holder(<<>>, i) /\ Alone(<<>>, i)
BY DEF IsSeq, SoundPaths, Holder, Alone

LEMMA OnePath ==
  ASSUME NEW p
  PROVE  /\ IsSeq(<<p>>)
         /\ \A exact : SoundPaths(<<p>>, exact) <=> SoundPath(p, exact)
         /\ \A i : (Holder(<<p>>, i) <=> Holds(p, i)) /\ Alone(<<p>>, i)
<1> DEFINE s == <<p>>
<1>1. IsSeq(s) /\ DOMAIN s = {1} /\ s[1] = p BY DEF IsSeq
<1> HIDE DEF s
<1>2. \A exact : SoundPaths(s, exact) <=> SoundPath(p, exact) BY <1>1 DEF SoundPaths
<1>3. \A i : (Holder(s, i) <=> Holds(p, i)) /\ Alone(s, i) BY <1>1 DEF Holder, Alone
<1> QED BY <1>1, <1>2, <1>3 DEF s

(* A list of lists, and the list it flattens to. *)
LEMMA HeldByFlatten ==
  ASSUME NEW ss, IsSeq(ss), \A k \in DOMAIN ss : IsSeq(ss[k]), NEW i
  PROVE  /\ Holder(FlattenSeq(ss), i) <=> \E k \in DOMAIN ss : Holder(ss[k], i)
         /\ (/\ \A k \in DOMAIN ss : Alone(ss[k], i)
             /\ \A j, k \in DOMAIN ss : Holder(ss[j], i) /\ Holder(ss[k], i) => j = k)
            => Alone(FlattenSeq(ss), i)
<1> DEFINE Apart == /\ \A k \in DOMAIN ss : Alone(ss[k], i)
                    /\ \A j, k \in DOMAIN ss : Holder(ss[j], i) /\ Holder(ss[k], i) => j = k
<1>1. CASE Len(ss) = 0
  <2>1. ss = <<>> BY <1>1 DEF IsSeq
  <2>2. FlattenSeq(ss) = ss BY <1>1 DEF FlattenSeq
  <2> QED BY <2>1, <2>2, EmptyList
<1>2. CASE Len(ss) # 0
  <2>1. PICK f : /\ f = [k \in 1 .. Len(ss) |-> IF k = 1 THEN ss[k] ELSE f[k - 1] \o ss[k]]
                 /\ FlattenSeq(ss) = f[Len(ss)]
    BY <1>2, Flatten
  <2> DEFINE Facts(n) == /\ IsSeq(f[n])
                         /\ Holder(f[n], i) <=> \E k \in 1 .. n : Holder(ss[k], i)
                         /\ Apart => Alone(f[n], i)
             S == {n \in 1 .. Len(ss) : Facts(n)}
  <2>2. DOMAIN ss = 1 .. Len(ss) /\ Len(ss) \in Nat BY DEF IsSeq
  <2>3. 1 \in S
    <3>1. f[1] = ss[1] BY <2>1, <2>2, <1>2
    <3>2. 1 \in DOMAIN ss BY <2>2, <1>2
    <3>3. Facts(1) BY <3>1, <3>2
    <3> HIDE DEF Facts
    <3> QED BY <3>2, <3>3, <2>2
  <2>4. ASSUME NEW n \in 1 .. Len(ss) - 1, n \in S PROVE n + 1 \in S
    <3> DEFINE a == f[n]
               b == ss[n + 1]
    <3>1. n + 1 \in DOMAIN ss /\ n + 1 # 1 /\ (n + 1) - 1 = n /\ n \in 1 .. Len(ss) BY <2>2
    <3>2. f[n + 1] = a \o b BY <2>1, <3>1, <2>2
    <3>3. IsSeq(a) /\ IsSeq(b) BY <3>1, <2>4
    <3>4. /\ Holder(a, i) <=> \E k \in 1 .. n : Holder(ss[k], i)
          /\ Apart => Alone(a, i)
      BY <2>4
    <3>5. Holder(b, i) <=> Holder(ss[n + 1], i) OBVIOUS
    <3>6. Apart => Alone(b, i) BY <3>1
    <3>7. Apart => ~(Holder(a, i) /\ Holder(b, i))
      <4> SUFFICES ASSUME Apart, NEW k \in 1 .. n, Holder(ss[k], i), Holder(ss[n + 1], i)
                   PROVE  FALSE
        BY <3>4, <3>5
      <4>1. k \in DOMAIN ss /\ k # n + 1 BY <2>2, <3>1
      <4> QED BY <4>1, <3>1
    <3> HIDE DEF a, b, Apart
    <3>8. IsSeq(a \o b) BY <3>3, Concatenation
    <3>9. Holder(a \o b, i) <=> \E k \in 1 .. n + 1 : Holder(ss[k], i)
      <4>1. \A k : k \in 1 .. n + 1 <=> k \in 1 .. n \/ k = n + 1 OBVIOUS
      <4> QED BY <4>1, <3>3, <3>4, <3>5, HeldByConcatenation
    <3>10. Apart => Alone(a \o b, i) BY <3>3, <3>4, <3>6, <3>7, HeldByConcatenation
    <3>11. Facts(n + 1) BY <3>2, <3>8, <3>9, <3>10
    <3> HIDE DEF Facts
    <3> QED BY <3>1, <3>11, <2>2
  <2> HIDE DEF S
  <2>5. \A n \in 1 .. Len(ss) : n \in S BY <2>2, <2>3, <2>4, InductionUpTo
  <2>6. Facts(Len(ss)) BY <2>5, <2>2, <1>2 DEF S
  <2>7. FlattenSeq(ss) = f[Len(ss)] BY <2>1
  <2> HIDE DEF S, Apart
  <2>8. /\ Holder(FlattenSeq(ss), i) <=> \E k \in DOMAIN ss : Holder(ss[k], i)
        /\ Apart => Alone(FlattenSeq(ss), i)
    BY <2>2, <2>6, <2>7
  <2> QED BY <2>8 DEF Apart
<1> QED BY <1>1, <1>2

LEMMA SoundFlatten ==
  ASSUME NEW exact, NEW ss, IsSeq(ss), \A k \in DOMAIN ss : SoundPaths(ss[k], exact)
  PROVE  SoundPaths(FlattenSeq(ss), exact)
<1>1. \A k \in DOMAIN ss : IsSeq(ss[k]) BY DEF SoundPaths
<1>2. /\ IsSeq(FlattenSeq(ss))
      /\ \A j \in DOMAIN FlattenSeq(ss) :
           \E k \in DOMAIN ss : \E l \in DOMAIN ss[k] : FlattenSeq(ss)[j] = ss[k][l]
  BY <1>1, FlattenMembers
<1> QED BY <1>2 DEF SoundPaths

-----------------------------------------------------------------------------
(* Replacing paths. *)

LEMMA ReplaceEach ==
  ASSUME NEW exact \in BOOLEAN, NEW ps, IsSeq(ps), NEW qs, IsSeq(qs), DOMAIN qs = DOMAIN ps,
         \A k \in DOMAIN ps :
           /\ SoundPath(qs[k], exact)
           /\ \A i \in Input : /\ Holds(ps[k], i) => Holds(qs[k], i)
                               /\ exact /\ Holds(qs[k], i) => Holds(ps[k], i)
  PROVE  Replaces(qs, ps, exact)
BY DEF Replaces, SoundPaths, Holder, Alone

(* Every path gives way to a list of its own. *)
LEMMA ReplaceByLists ==
  ASSUME NEW exact \in BOOLEAN, NEW ps, IsSeq(ps),
         NEW F, F = [k \in DOMAIN ps |-> F[k]],
         \A k \in DOMAIN ps : Replaces(F[k], <<ps[k]>>, exact)
  PROVE  Replaces(FlattenSeq(F), ps, exact)
<1>1. IsSeq(F) /\ DOMAIN F = DOMAIN ps
  <2>1. Len(ps) \in Nat /\ DOMAIN ps = 1 .. Len(ps) BY DEF IsSeq
  <2> QED BY <2>1, FunctionIsSeq
<1>2. \A k \in DOMAIN F : SoundPaths(F[k], exact) /\ IsSeq(F[k]) BY <1>1 DEF Replaces, SoundPaths
<1>3. SoundPaths(FlattenSeq(F), exact) BY <1>1, <1>2, SoundFlatten
<1>4. ASSUME NEW i \in Input
      PROVE  /\ Holder(ps, i) => Holder(FlattenSeq(F), i)
             /\ exact => /\ Holder(FlattenSeq(F), i) => Holder(ps, i)
                         /\ Alone(ps, i) => Alone(FlattenSeq(F), i)
  <2>1. \A k \in DOMAIN ps : /\ Holds(ps[k], i) => Holder(F[k], i)
                             /\ exact => (Holder(F[k], i) => Holds(ps[k], i)) /\ Alone(F[k], i)
    BY OnePath DEF Replaces
  <2>2. Holder(FlattenSeq(F), i) <=> \E k \in DOMAIN ps : Holder(F[k], i)
    BY <1>1, <1>2, HeldByFlatten
  <2>3. ASSUME exact, Alone(ps, i) PROVE Alone(FlattenSeq(F), i)
    <3>1. \A j, k \in DOMAIN F : Holder(F[j], i) /\ Holder(F[k], i) => j = k
      BY <1>1, <2>1, <2>3 DEF Alone
    <3>2. \A k \in DOMAIN F : Alone(F[k], i) BY <1>1, <2>1, <2>3
    <3> QED BY <1>1, <1>2, <3>1, <3>2, HeldByFlatten
  <2> QED BY <2>1, <2>2, <2>3 DEF Holder
<1> QED BY <1>3, <1>4 DEF Replaces

(* The results of an expression, each changed in a way that holds the same.*)
LEMMA ReplaceByResults ==
  ASSUME NEW exact \in BOOLEAN, NEW p, NEW rs, Divides(rs, p, exact),
         NEW G, G = [k \in DOMAIN rs |-> G[k]],
         \A k \in DOMAIN rs : /\ SoundPath(G[k], exact)
                              /\ \A i \in Input : Holds(G[k], i) <=> Holds(rs[k].path, i)
  PROVE  Replaces(G, <<p>>, exact)
<1>1. IsSeq(rs) BY DEF Divides, SoundRest
<1>2. IsSeq(G) /\ DOMAIN G = DOMAIN rs BY <1>1, FunctionIsSeq DEF IsSeq
<1>3. SoundPaths(G, exact) BY <1>2 DEF SoundPaths
<1>4. ASSUME NEW i \in Input
      PROVE  (Holder(G, i) <=> Holds(p, i)) /\ Alone(G, i)
  BY <1>2 DEF Divides, Holder, Alone
<1> QED BY <1>3, <1>4, OnePath DEF Replaces

(* A path may be replaced by one that holds the same inputs. *)
LEMMA ReplaceBySame ==
  ASSUME NEW exact \in BOOLEAN, NEW p, NEW q, SoundPath(q, exact),
         \A i \in Input : Holds(q, i) <=> Holds(p, i)
  PROVE  Replaces(<<q>>, <<p>>, exact)
BY OnePath DEF Replaces

-----------------------------------------------------------------------------
(* Stacks. *)

(* The frames fs keep the paths ks: the cases that occur. *)
LEMMA EmptyKeeps == Keeps(<<>>, <<>>)
BY EmptyList, EmptyIsSeq DEF Keeps, HeldIn, OnceIn

LEMMA FrameKeeps ==
  ASSUME NEW f, IsSeq(KeptBy(f))
  PROVE  Keeps(<<f>>, KeptBy(f))
<1> DEFINE fs == <<f>>
<1>1. IsSeq(fs) /\ DOMAIN fs = {1} /\ fs[1] = f BY SingletonIsSeq
<1> HIDE DEF fs
<1>2. \A i : (HeldIn(fs, i) <=> Holder(KeptBy(f), i)) /\ (OnceIn(fs, i) <=> Alone(KeptBy(f), i))
  BY <1>1 DEF HeldIn, OnceIn
<1> QED BY <1>1, <1>2 DEF Keeps, fs

LEMMA StepFramesKeep ==
  ASSUME NEW ss, IsSeq(ss)
  PROVE  Keeps(StepFrames(ss), <<>>)
<1> DEFINE fs == StepFrames(ss)
<1>1. IsSeq(fs) BY FunctionIsSeq DEF StepFrames, IsSeq
<1>2. \A k \in DOMAIN fs : fs[k].op = "step" BY DEF StepFrames, StepFrame
<1> HIDE DEF fs
<1>3. \A k \in DOMAIN fs : KeptBy(fs[k]) = <<>> BY <1>2 DEF KeptBy
<1>4. \A i : ~HeldIn(fs, i) /\ OnceIn(fs, i) BY <1>3, EmptyList DEF HeldIn, OnceIn
<1> QED BY <1>1, <1>4, EmptyList DEF Keeps, fs

(* What two pieces of a stack keep between them. *)
LEMMA HeldInConcatenation ==
  ASSUME NEW fs, NEW gs, IsSeq(fs), IsSeq(gs), NEW i
  PROVE  /\ HeldIn(fs \o gs, i) <=> HeldIn(fs, i) \/ HeldIn(gs, i)
         /\ OnceIn(fs \o gs, i) <=> /\ OnceIn(fs, i) /\ OnceIn(gs, i)
                                    /\ ~(HeldIn(fs, i) /\ HeldIn(gs, i))
<1> DEFINE u == fs \o gs
<1>1. /\ DOMAIN fs = 1 .. Len(fs) /\ DOMAIN gs = 1 .. Len(gs)
      /\ Len(fs) \in Nat /\ Len(gs) \in Nat
  BY DEF IsSeq
<1>2. \A k \in DOMAIN fs : k \in DOMAIN u /\ u[k] = fs[k] BY Concatenation
<1>3. \A k \in DOMAIN gs : k + Len(fs) \in DOMAIN u /\ u[k + Len(fs)] = gs[k] BY Concatenation
<1>4. \A k \in DOMAIN u : \/ k \in DOMAIN fs
                          \/ k - Len(fs) \in DOMAIN gs /\ u[k] = gs[k - Len(fs)]
  BY Concatenation
<1>0. DOMAIN u \subseteq Int BY Concatenation, <1>1
<1> HIDE DEF u
<1>5. HeldIn(u, i) <=> HeldIn(fs, i) \/ HeldIn(gs, i)
  <2>1. HeldIn(fs, i) => HeldIn(u, i) BY <1>2 DEF HeldIn
  <2>2. HeldIn(gs, i) => HeldIn(u, i) BY <1>3 DEF HeldIn
  <2>3. HeldIn(u, i) => HeldIn(fs, i) \/ HeldIn(gs, i) BY <1>2, <1>4 DEF HeldIn
  <2> QED BY <2>1, <2>2, <2>3
<1>6. ASSUME OnceIn(u, i)
      PROVE  OnceIn(fs, i) /\ OnceIn(gs, i) /\ ~(HeldIn(fs, i) /\ HeldIn(gs, i))
  <2>1. OnceIn(fs, i) BY <1>2, <1>6 DEF OnceIn
  <2>2. OnceIn(gs, i)
    <3>1. ASSUME NEW j \in DOMAIN gs, NEW k \in DOMAIN gs,
                 Holder(KeptBy(gs[j]), i), Holder(KeptBy(gs[k]), i)
          PROVE  j = k
      <4>1. j + Len(fs) = k + Len(fs) BY <1>3, <1>6, <3>1 DEF OnceIn
      <4> QED BY <1>1, <4>1
    <3>2. ASSUME NEW j \in DOMAIN gs PROVE Alone(KeptBy(gs[j]), i) BY <1>3, <1>6 DEF OnceIn
    <3> QED BY <3>1, <3>2 DEF OnceIn
  <2>3. ASSUME NEW j \in DOMAIN fs, NEW k \in DOMAIN gs,
               Holder(KeptBy(fs[j]), i), Holder(KeptBy(gs[k]), i)
        PROVE  FALSE
    <3>1. j = k + Len(fs) BY <1>2, <1>3, <1>6, <2>3 DEF OnceIn
    <3> QED BY <1>1, <3>1
  <2> QED BY <2>1, <2>2, <2>3 DEF HeldIn
<1>7. ASSUME OnceIn(fs, i), OnceIn(gs, i), ~(HeldIn(fs, i) /\ HeldIn(gs, i))
      PROVE  OnceIn(u, i)
  <2>1. ASSUME NEW j \in DOMAIN u PROVE Alone(KeptBy(u[j]), i) BY <1>2, <1>4, <1>7 DEF OnceIn
  <2>2. ASSUME NEW j \in DOMAIN u, NEW k \in DOMAIN u,
               Holder(KeptBy(u[j]), i), Holder(KeptBy(u[k]), i)
        PROVE  j = k
    <3>1. CASE j \in DOMAIN fs /\ k \in DOMAIN fs BY <1>2, <1>7, <2>2, <3>1 DEF OnceIn
    <3>2. CASE j \in DOMAIN fs /\ k \notin DOMAIN fs BY <1>2, <1>4, <1>7, <2>2, <3>2 DEF HeldIn
    <3>3. CASE j \notin DOMAIN fs /\ k \in DOMAIN fs BY <1>2, <1>4, <1>7, <2>2, <3>3 DEF HeldIn
    <3>4. CASE j \notin DOMAIN fs /\ k \notin DOMAIN fs
      <4>1. j - Len(fs) = k - Len(fs) BY <1>4, <1>7, <2>2, <3>4 DEF OnceIn
      <4> QED BY <1>0, <1>1, <4>1
    <3> QED BY <3>1, <3>2, <3>3, <3>4
  <2> QED BY <2>1, <2>2 DEF OnceIn
<1> QED BY <1>5, <1>6, <1>7 DEF u

LEMMA KeepsConcatenation ==
  ASSUME NEW fs, NEW gs, NEW ks, NEW ls, Keeps(fs, ks), Keeps(gs, ls)
  PROVE  Keeps(fs \o gs, ks \o ls)
<1>1. IsSeq(fs \o gs) /\ IsSeq(ks \o ls) BY Concatenation DEF Keeps
<1>2. ASSUME NEW i \in Input
      PROVE  /\ HeldIn(fs \o gs, i) <=> Holder(ks \o ls, i)
             /\ OnceIn(fs \o gs, i) <=> Alone(ks \o ls, i)
  BY HeldInConcatenation, HeldByConcatenation DEF Keeps
<1> QED BY <1>1, <1>2 DEF Keeps

(* A step that replaces the frame on top by the frames fs, and the paths   *)
(* ps by qs, keeps the invariant when the current and the kept paths of    *)
(* both take the place of what was current or kept on top.                 *)
LEMMA StackStep ==
  ASSUME NEW exact \in BOOLEAN, NEW ss, NEW ps, NEW qs, NEW st, NEW fs, NEW ks,
         SoundState(ps, st, ss, exact), st # <<>>,
         SoundStack(fs, ss, exact), PartitionOnTop(qs, fs), Keeps(fs, ks),
         SoundPaths(qs, exact), IsSeq(KeptBy(Head(st))),
         Replaces(qs \o ks, ps \o KeptBy(Head(st)), exact)
  PROVE  SoundState(qs, fs \o Tail(st), ss, exact)
<1> DEFINE f == Head(st)
           tl == Tail(st)
<1>1. IsSeq(st) /\ IsSeq(fs) /\ IsSeq(ks) /\ IsSeq(qs) /\ IsSeq(ps)
  BY DEF SoundState, SoundStack, SoundPaths, Keeps
<1>2. /\ st = <<f>> \o tl /\ IsSeq(tl) /\ 1 \in DOMAIN st
      /\ \A k \in DOMAIN tl : k + 1 \in DOMAIN st /\ tl[k] = st[k + 1]
  BY <1>1, HeadAndTail
<1>3. IsSeq(<<f>>) /\ Keeps(<<f>>, KeptBy(f)) BY SingletonIsSeq, FrameKeeps
<1> HIDE DEF f, tl
<1>4. ASSUME NEW k \in DOMAIN (fs \o tl)
      PROVE  \/ k \in DOMAIN fs /\ (fs \o tl)[k] = fs[k]
             \/ \E j \in DOMAIN st : j # 1 /\ (fs \o tl)[k] = st[j]
  <2>1. CASE k \in DOMAIN fs BY <2>1, <1>1, <1>2, Concatenation
  <2>2. CASE k - Len(fs) \in DOMAIN tl /\ (fs \o tl)[k] = tl[k - Len(fs)]
    <3> DEFINE j == k - Len(fs)
    <3>1. j \in DOMAIN tl /\ (fs \o tl)[k] = tl[j] BY <2>2
    <3>2. j \in Nat \ {0} BY <3>1, <1>2 DEF IsSeq
    <3> HIDE DEF j
    <3>3. j + 1 # 1 BY <3>2
    <3> QED BY <3>1, <3>3, <1>2
  <2> QED BY <1>1, <1>2, <2>1, <2>2, Concatenation
<1>5. IsSeq(fs \o tl) BY <1>1, <1>2, Concatenation
<1>6. SoundStack(fs \o tl, ss, exact) BY <1>4, <1>5 DEF SoundState, SoundStack
<1>7. PartitionOnTop(qs, fs \o tl) BY <1>4 DEF SoundState, PartitionOnTop
<1>8. Covers(qs, fs \o tl, exact)
  <2> SUFFICES ASSUME NEW i \in Input
               PROVE  /\ Holder(qs, i) \/ HeldIn(fs \o tl, i)
                      /\ exact => /\ Alone(qs, i) /\ OnceIn(fs \o tl, i)
                                  /\ ~(Holder(qs, i) /\ HeldIn(fs \o tl, i))
    BY DEF Covers
  <2>1. /\ Holder(ps, i) \/ HeldIn(st, i)
        /\ exact => Alone(ps, i) /\ OnceIn(st, i) /\ ~(Holder(ps, i) /\ HeldIn(st, i))
    BY DEF SoundState, Covers
  <2>2. /\ HeldIn(st, i) <=> Holder(KeptBy(f), i) \/ HeldIn(tl, i)
        /\ OnceIn(st, i) <=> /\ Alone(KeptBy(f), i) /\ OnceIn(tl, i)
                             /\ ~(Holder(KeptBy(f), i) /\ HeldIn(tl, i))
    BY <1>2, <1>3, HeldInConcatenation DEF Keeps
  <2>3. /\ HeldIn(fs \o tl, i) <=> Holder(ks, i) \/ HeldIn(tl, i)
        /\ OnceIn(fs \o tl, i) <=> /\ Alone(ks, i) /\ OnceIn(tl, i)
                                   /\ ~(Holder(ks, i) /\ HeldIn(tl, i))
    BY <1>1, <1>2, HeldInConcatenation DEF Keeps
  <2>4. /\ Holder(qs \o ks, i) <=> Holder(qs, i) \/ Holder(ks, i)
        /\ Alone(qs \o ks, i) <=> Alone(qs, i) /\ Alone(ks, i) /\ ~(Holder(qs, i) /\ Holder(ks, i))
    BY <1>1, HeldByConcatenation
  <2>5. /\ Holder(ps \o KeptBy(f), i) <=> Holder(ps, i) \/ Holder(KeptBy(f), i)
        /\ Alone(ps \o KeptBy(f), i) <=> /\ Alone(ps, i) /\ Alone(KeptBy(f), i)
                                         /\ ~(Holder(ps, i) /\ Holder(KeptBy(f), i))
    BY <1>1, HeldByConcatenation DEF f
  <2>6. /\ Holder(ps \o KeptBy(f), i) => Holder(qs \o ks, i)
        /\ exact => /\ Holder(qs \o ks, i) => Holder(ps \o KeptBy(f), i)
                    /\ Alone(ps \o KeptBy(f), i) => Alone(qs \o ks, i)
    BY DEF Replaces, f
  <2> QED BY <2>1, <2>2, <2>3, <2>4, <2>5, <2>6
<1>9. SoundState(qs, fs \o tl, ss, exact) BY <1>6, <1>7, <1>8 DEF SoundState
<1> QED BY <1>9 DEF tl

(* The frames fs may be put on the stack, and keep ks: the cases that      *)
(* occur.                                                                  *)
LEMMA PushNothing ==
  ASSUME NEW ss, NEW exact
  PROVE  Pushes(<<>>, <<>>, ss, exact)
BY EmptyIsSeq, EmptyKeeps DEF Pushes, SoundStack

LEMMA PushFrame ==
  ASSUME NEW ss, NEW exact, NEW f, SoundFrame(f, ss, exact), f.op # "partition",
         NEW ks, KeptBy(f) = ks, IsSeq(ks)
  PROVE  Pushes(<<f>>, ks, ss, exact)
<1> DEFINE fs == <<f>>
<1>1. IsSeq(fs) /\ DOMAIN fs = {1} /\ fs[1] = f BY SingletonIsSeq
<1>2. Keeps(fs, ks) BY FrameKeeps
<1> HIDE DEF fs
<1>3. Pushes(fs, ks, ss, exact) BY <1>1, <1>2 DEF Pushes, SoundStack
<1> QED BY <1>3 DEF fs

LEMMA PushSteps ==
  ASSUME NEW ss, NEW exact, NEW body, IsSeq(body), \A k \in DOMAIN body : body[k] \in ss
  PROVE  Pushes(StepFrames(body), <<>>, ss, exact)
<1> DEFINE fs == StepFrames(body)
<1>1. IsSeq(fs) BY FunctionIsSeq DEF StepFrames, IsSeq
<1>2. \A k \in DOMAIN fs : fs[k].op = "step" /\ fs[k].s \in ss BY DEF StepFrames, StepFrame
<1>3. Keeps(fs, <<>>) BY StepFramesKeep
<1> HIDE DEF fs
<1>4. Pushes(fs, <<>>, ss, exact) BY <1>1, <1>2, <1>3 DEF Pushes, SoundStack, SoundFrame
<1> QED BY <1>4 DEF fs

LEMMA PushBoth ==
  ASSUME NEW ss, NEW exact, NEW fs, NEW gs, NEW ks, NEW ls,
         Pushes(fs, ks, ss, exact), Pushes(gs, ls, ss, exact)
  PROVE  Pushes(fs \o gs, ks \o ls, ss, exact)
<1> DEFINE u == fs \o gs
<1>1. IsSeq(fs) /\ IsSeq(gs) BY DEF Pushes, SoundStack
<1>2. IsSeq(u) /\ \A k \in DOMAIN u : \/ k \in DOMAIN fs /\ u[k] = fs[k]
                                      \/ k - Len(fs) \in DOMAIN gs /\ u[k] = gs[k - Len(fs)]
  BY <1>1, Concatenation
<1>3. Keeps(u, ks \o ls) BY KeepsConcatenation DEF Pushes
<1> HIDE DEF u
<1>4. \A k \in DOMAIN u : SoundFrame(u[k], ss, exact) /\ u[k].op # "partition"
  BY <1>2 DEF Pushes, SoundStack
<1>5. Pushes(u, ks \o ls, ss, exact) BY <1>2, <1>3, <1>4 DEF Pushes, SoundStack
<1> QED BY <1>5 DEF u

LEMMA PushFirst ==
  ASSUME NEW ss, NEW exact, NEW fs, NEW gs, NEW ks,
         Pushes(fs, <<>>, ss, exact), Pushes(gs, ks, ss, exact)
  PROVE  Pushes(fs \o gs, ks, ss, exact)
<1>1. IsSeq(ks) BY DEF Pushes, Keeps
<1>2. <<>> \o ks = ks BY <1>1, ConcatenationWithEmpty
<1>3. Pushes(fs \o gs, <<>> \o ks, ss, exact) BY PushBoth
<1> QED BY <1>2, <1>3

(* A step that keeps some paths aside, or takes some back. *)
LEMMA PushStep ==
  ASSUME NEW exact \in BOOLEAN, NEW ss, NEW ps, NEW qs, NEW st, NEW fs, NEW ks,
         SoundState(ps, st, ss, exact), st # <<>>, Pushes(fs, ks, ss, exact),
         SoundPaths(qs, exact), IsSeq(KeptBy(Head(st))),
         Replaces(qs \o ks, ps \o KeptBy(Head(st)), exact)
  PROVE  SoundState(qs, fs \o Tail(st), ss, exact)
<1>1. SoundStack(fs, ss, exact) /\ PartitionOnTop(qs, fs) /\ Keeps(fs, ks)
  BY DEF Pushes, PartitionOnTop
<1> QED BY <1>1, StackStep

(* The common case: the frame on top kept nothing, and the new ones keep   *)
(* nothing.                                                                *)
LEMMA PathStep ==
  ASSUME NEW exact \in BOOLEAN, NEW ss, NEW ps, NEW qs, NEW st, NEW fs,
         SoundState(ps, st, ss, exact), st # <<>>, KeptBy(Head(st)) = <<>>,
         Pushes(fs, <<>>, ss, exact), Replaces(qs, ps, exact)
  PROVE  SoundState(qs, fs \o Tail(st), ss, exact)
<1>1. IsSeq(ps) /\ IsSeq(qs) /\ SoundPaths(qs, exact) BY DEF SoundState, SoundPaths, Replaces
<1>2. qs \o <<>> = qs /\ ps \o <<>> = ps BY <1>1, ConcatenationWithEmpty
<1> QED BY <1>1, <1>2, EmptyIsSeq, PushStep

-----------------------------------------------------------------------------
(* Parting paths. *)

(* If every path is parted in two lists, so is the list of all. *)
LEMMA PartedByLists ==
  ASSUME NEW exact \in BOOLEAN, NEW ps, IsSeq(ps),
         NEW A, A = [k \in DOMAIN ps |-> A[k]],
         NEW B, B = [k \in DOMAIN ps |-> B[k]],
         \A k \in DOMAIN ps : Parted(A[k], B[k], <<ps[k]>>, exact)
  PROVE  Parted(FlattenSeq(A), FlattenSeq(B), ps, exact)
<1>1. Len(ps) \in Nat /\ DOMAIN ps = 1 .. Len(ps) BY DEF IsSeq
<1>2. IsSeq(A) /\ DOMAIN A = DOMAIN ps BY <1>1, FunctionIsSeq
<1>3. IsSeq(B) /\ DOMAIN B = DOMAIN ps BY <1>1, FunctionIsSeq
<1>4. \A k \in DOMAIN ps : /\ SoundPaths(A[k], exact) /\ SoundPaths(B[k], exact)
                           /\ IsSeq(A[k]) /\ IsSeq(B[k])
  BY DEF Parted, SoundPaths
<1>5. SoundPaths(FlattenSeq(A), exact) /\ SoundPaths(FlattenSeq(B), exact)
  BY <1>2, <1>3, <1>4, SoundFlatten
<1>6. ASSUME NEW i \in Input
      PROVE  /\ Holder(ps, i) <=> Holder(FlattenSeq(A), i) \/ Holder(FlattenSeq(B), i)
             /\ Alone(ps, i) => /\ Alone(FlattenSeq(A), i) /\ Alone(FlattenSeq(B), i)
                                /\ ~(Holder(FlattenSeq(A), i) /\ Holder(FlattenSeq(B), i))
  <2>1. \A k \in DOMAIN ps : /\ Holds(ps[k], i) <=> Holder(A[k], i) \/ Holder(B[k], i)
                             /\ Alone(A[k], i) /\ Alone(B[k], i)
                             /\ ~(Holder(A[k], i) /\ Holder(B[k], i))
    BY OnePath DEF Parted
  <2>2. /\ Holder(FlattenSeq(A), i) <=> \E k \in DOMAIN ps : Holder(A[k], i)
        /\ Holder(FlattenSeq(B), i) <=> \E k \in DOMAIN ps : Holder(B[k], i)
    BY <1>2, <1>3, <1>4, HeldByFlatten
  <2>3. ASSUME Alone(ps, i)
        PROVE  /\ Alone(FlattenSeq(A), i) /\ Alone(FlattenSeq(B), i)
               /\ ~(Holder(FlattenSeq(A), i) /\ Holder(FlattenSeq(B), i))
    <3>1. /\ \A j, k \in DOMAIN ps : Holder(A[j], i) /\ Holder(A[k], i) => j = k
          /\ \A j, k \in DOMAIN ps : Holder(B[j], i) /\ Holder(B[k], i) => j = k
          /\ \A j, k \in DOMAIN ps : Holder(A[j], i) /\ Holder(B[k], i) => j = k
      BY <2>1, <2>3 DEF Alone
    <3>2. Alone(FlattenSeq(A), i) BY <1>2, <1>4, <2>1, <3>1, HeldByFlatten
    <3>3. Alone(FlattenSeq(B), i) BY <1>3, <1>4, <2>1, <3>1, HeldByFlatten
    <3> QED BY <2>1, <2>2, <3>1, <3>2, <3>3
  <2> QED BY <2>1, <2>2, <2>3 DEF Holder
<1> QED BY <1>5, <1>6 DEF Parted

(* What parts a replacement parts what it replaces. *)
LEMMA PartedReplacement ==
  ASSUME NEW as, NEW bs, NEW qs, NEW ps, NEW exact, Parted(as, bs, qs, exact),
         \A i \in Input : /\ Holder(ps, i) <=> Holder(qs, i)
                          /\ Alone(ps, i) => Alone(qs, i)
  PROVE  Parted(as, bs, ps, exact)
BY DEF Parted

(* splitActiveInactive. *)
LEMMA ActiveInactive ==
  ASSUME NEW exact \in BOOLEAN, NEW ps, SoundPaths(ps, exact)
  PROVE  Parted(Those(ps, IsActive), Those(ps, LAMBDA p : ~IsActive(p)), ps, exact)
<1> DEFINE A == [k \in DOMAIN ps |-> IF IsActive(ps[k]) THEN <<ps[k]>> ELSE <<>>]
           B == [k \in DOMAIN ps |-> IF ~IsActive(ps[k]) THEN <<ps[k]>> ELSE <<>>]
<1>1. /\ Those(ps, IsActive) = FlattenSeq(A)
      /\ Those(ps, LAMBDA p : ~IsActive(p)) = FlattenSeq(B)
  BY DEF Those, Each
<1>2. ASSUME NEW k \in DOMAIN ps PROVE Parted(A[k], B[k], <<ps[k]>>, exact)
  <2>1. SoundPath(ps[k], exact) BY DEF SoundPaths
  <2> DEFINE p == ps[k]
  <2>2. \/ A[k] = <<p>> /\ B[k] = <<>>
        \/ A[k] = <<>> /\ B[k] = <<p>>
    OBVIOUS
  <2> HIDE DEF A, B, p
  <2>3. Parted(<<p>>, <<>>, <<p>>, exact) /\ Parted(<<>>, <<p>>, <<p>>, exact)
    BY <2>1, OnePath, EmptyList DEF Parted, p
  <2> QED BY <2>2, <2>3 DEF p
<1>3. A = [k \in DOMAIN ps |-> A[k]] /\ B = [k \in DOMAIN ps |-> B[k]] OBVIOUS
<1> HIDE DEF A, B
<1>4. Parted(FlattenSeq(A), FlattenSeq(B), ps, exact) BY <1>2, <1>3, PartedByLists DEF SoundPaths
<1> QED BY <1>1, <1>4

(* The two sides of one result of a condition. *)
LEMMA TakenSides ==
  ASSUME NEW exact \in BOOLEAN, NEW r, SoundPath(r.path, exact), SoundValue(r.val, exact)
  PROVE  Parted(Taken(r, Truth(r.val)), Taken(r, Input \ Truth(r.val)), <<r.path>>, exact)
<1> DEFINE c == Truth(r.val)
           p == r.path
<1>1. c \in SUBSET Input /\ (exact => Independent(c) /\ Independent(Input \ c)) BY SoundTruth
<1>2. IsConstant(r.val) => c = {} \/ c = Input BY DEF IsConstant, Truth
<1>3. Input # {} BY InputAssumption
<1>4. SoundPath(p, exact) OBVIOUS
<1>5. Input \ c = {} <=> c = Input BY <1>1
<1>6. /\ Taken(r, c) = IF ~IsConstant(r.val) THEN <<Assume(p, c)>>
                       ELSE IF c = {} THEN <<>> ELSE <<p>>
      /\ Taken(r, Input \ c) = IF ~IsConstant(r.val) THEN <<Assume(p, Input \ c)>>
                               ELSE IF Input \ c = {} THEN <<>> ELSE <<p>>
  BY DEF Taken
<1> HIDE DEF c, p
<1>7. CASE ~IsConstant(r.val)
  <2>1. SoundPath(Assume(p, c), exact) /\ \A i : Holds(Assume(p, c), i) <=> Holds(p, i) /\ i \in c
    BY <1>1, <1>4, SoundAssume
  <2>2. /\ SoundPath(Assume(p, Input \ c), exact)
        /\ \A i : Holds(Assume(p, Input \ c), i) <=> Holds(p, i) /\ i \in Input \ c
    BY <1>1, <1>4, SoundAssume
  <2>3. Parted(<<Assume(p, c)>>, <<Assume(p, Input \ c)>>, <<p>>, exact)
    BY <2>1, <2>2, OnePath DEF Parted
  <2> QED BY <1>6, <1>7, <2>3 DEF c, p
<1>8. CASE IsConstant(r.val)
  <2>1. Parted(<<p>>, <<>>, <<p>>, exact) /\ Parted(<<>>, <<p>>, <<p>>, exact)
    BY <1>4, OnePath, EmptyList DEF Parted
  <2> QED BY <1>2, <1>3, <1>5, <1>6, <1>8, <2>1 DEF c, p
<1> QED BY <1>7, <1>8

(* stepBranch: the paths of both branches. *)
LEMMA Branches ==
  ASSUME NEW exact \in BOOLEAN, NEW ps, SoundPaths(ps, exact), NEW e, IsExpr(e)
  PROVE  Parted(Then(ps, e), Else(ps, e), ps, exact)
<1> DEFINE rs(k) == Eval(ps[k], e)
           A(k) == [j \in DOMAIN rs(k) |-> Taken(rs(k)[j], Truth(rs(k)[j].val))]
           B(k) == [j \in DOMAIN rs(k) |-> Taken(rs(k)[j], Input \ Truth(rs(k)[j].val))]
           T == [k \in DOMAIN ps |-> FlattenSeq(A(k))]
           E == [k \in DOMAIN ps |-> FlattenSeq(B(k))]
<1>1. Then(ps, e) = FlattenSeq(T) /\ Else(ps, e) = FlattenSeq(E)
  BY DEF Then, Else, BranchPaths, Each, EvalThen
<1>2. ASSUME NEW k \in DOMAIN ps PROVE Parted(FlattenSeq(A(k)), FlattenSeq(B(k)), <<ps[k]>>, exact)
  <2> DEFINE r == rs(k)
             a == A(k)
             b == B(k)
             q == [j \in DOMAIN r |-> r[j].path]
  <2>1. Divides(r, ps[k], exact) BY EvalDivides DEF SoundPaths
  <2>2. SoundRest(r, exact) BY <2>1 DEF Divides
  <2>3. /\ a = [j \in DOMAIN q |-> a[j]] /\ b = [j \in DOMAIN q |-> b[j]]
        /\ \A j \in DOMAIN q : /\ a[j] = Taken(r[j], Truth(r[j].val))
                               /\ b[j] = Taken(r[j], Input \ Truth(r[j].val))
    OBVIOUS
  <2>4. /\ q = [j \in DOMAIN r |-> q[j]] /\ DOMAIN q = DOMAIN r
        /\ \A j \in DOMAIN r : q[j] = r[j].path
    OBVIOUS
  <2> HIDE DEF r, a, b, q, rs, A, B
  <2>5. IsSeq(q) BY <2>2, <2>4, FunctionIsSeq DEF SoundRest, IsSeq
  <2>6. \A j \in DOMAIN q : Parted(a[j], b[j], <<q[j]>>, exact)
    BY <2>2, <2>3, <2>4, TakenSides DEF SoundRest
  <2>7. Parted(FlattenSeq(a), FlattenSeq(b), q, exact) BY <2>3, <2>5, <2>6, PartedByLists
  <2>8. ASSUME NEW i \in Input
        PROVE  (Holder(<<ps[k]>>, i) <=> Holder(q, i)) /\ Alone(q, i)
    BY <2>1, <2>4, OnePath DEF Divides, Holder, Alone
  <2>9. Parted(FlattenSeq(a), FlattenSeq(b), <<ps[k]>>, exact) BY <2>7, <2>8, PartedReplacement
  <2> QED BY <2>9 DEF a, b
<1>3. /\ T = [k \in DOMAIN ps |-> T[k]] /\ E = [k \in DOMAIN ps |-> E[k]]
      /\ \A k \in DOMAIN ps : T[k] = FlattenSeq(A(k)) /\ E[k] = FlattenSeq(B(k))
  OBVIOUS
<1> HIDE DEF T, E, A, B, rs
<1>4. Parted(FlattenSeq(T), FlattenSeq(E), ps, exact) BY <1>2, <1>3, PartedByLists DEF SoundPaths
<1> QED BY <1>1, <1>4

-----------------------------------------------------------------------------
(* What the frames keep. *)

LEMMA SoundEachPath ==
  ASSUME NEW exact, NEW rs, SoundRest(rs, exact)
  PROVE  SoundPaths(Each(rs, LAMBDA r : r.path), exact)
<1> DEFINE qs == [k \in DOMAIN rs |-> rs[k].path]
<1>1. Each(rs, LAMBDA r : r.path) = qs BY DEF Each
<1>2. DOMAIN qs = DOMAIN rs /\ \A k \in DOMAIN rs : qs[k] = rs[k].path OBVIOUS
<1>3. IsSeq(qs) BY FunctionIsSeq DEF SoundRest, IsSeq
<1> HIDE DEF qs
<1>4. SoundPaths(qs, exact) BY <1>2, <1>3 DEF SoundPaths, SoundRest
<1> QED BY <1>1, <1>4

(* Adding the condition c to every path keeps the inputs of c. *)
LEMMA AssumeEach ==
  ASSUME NEW exact \in BOOLEAN, NEW ps, SoundPaths(ps, exact),
         NEW c \in SUBSET Input, exact => Independent(c),
         NEW qs, qs = [k \in DOMAIN ps |-> Assume(ps[k], c)]
  PROVE  /\ SoundPaths(qs, exact)
         /\ \A i \in Input : /\ Holder(qs, i) <=> Holder(ps, i) /\ i \in c
                             /\ Alone(ps, i) => Alone(qs, i)
<1>1. /\ DOMAIN qs = DOMAIN ps /\ \A k \in DOMAIN ps : qs[k] = Assume(ps[k], c)
      /\ qs = [k \in DOMAIN ps |-> qs[k]]
  OBVIOUS
<1>2. IsSeq(qs)
  <2>1. Len(ps) \in Nat /\ DOMAIN ps = 1 .. Len(ps) BY DEF SoundPaths, IsSeq
  <2> QED BY <1>1, <2>1, FunctionIsSeq
<1>3. \A k \in DOMAIN ps : /\ SoundPath(qs[k], exact)
                           /\ \A i : Holds(qs[k], i) <=> Holds(ps[k], i) /\ i \in c
  BY <1>1, SoundAssume DEF SoundPaths
<1>4. SoundPaths(qs, exact) BY <1>1, <1>2, <1>3 DEF SoundPaths
<1>5. \A i \in Input : /\ Holder(qs, i) <=> Holder(ps, i) /\ i \in c
                       /\ Alone(ps, i) => Alone(qs, i)
  BY <1>1, <1>3 DEF Holder, Alone
<1> QED BY <1>4, <1>5

(* The inputs that take block k of a partition. *)
LEMMA SoundCaseCond ==
  ASSUME NEW exact \in BOOLEAN, NEW f, SoundValue(f.val, exact)
  PROVE  /\ CaseCond(f) \in SUBSET Input /\ Input \ CaseCond(f) \in SUBSET Input
         /\ exact => Independent(CaseCond(f)) /\ Independent(Input \ CaseCond(f))
<1> DEFINE L == CaseBlocks(f.sw)[f.k].label
           c == {i \in Input : f.val.val[i] \in L}
<1>1. CaseCond(f) = c BY DEF CaseCond
<1> HIDE DEF L
<1>2. exact => Independent(c) /\ Independent(Input \ c) BY DEF SoundValue, Independent
<1> QED BY <1>1, <1>2

(* The paths a frame keeps are sound. *)
LEMMA SoundKept ==
  ASSUME NEW exact \in BOOLEAN, NEW ss, NEW open, \A s \in ss : IsStmt(s, ss, open),
         NEW f, SoundFrame(f, ss, exact)
  PROVE  SoundPaths(KeptBy(f), exact)
<1>1. CASE f.op = "else"
  <2>1. KeptBy(f) = Else(f.active, f.s.cond) \o f.inactive BY <1>1 DEF KeptBy
  <2>2. SoundPaths(f.active, exact) /\ SoundPaths(f.inactive, exact) /\ IsExpr(f.s.cond)
    BY <1>1 DEF SoundFrame, IsStmt
  <2>3. SoundPaths(Else(f.active, f.s.cond), exact) BY <2>2, Branches DEF Parted
  <2> QED BY <2>1, <2>2, <2>3, SoundConcatenation
<1>2. CASE f.op = "join"
  <2>1. KeptBy(f) = f.then \o f.inactive BY <1>2 DEF KeptBy
  <2> QED BY <1>2, <2>1, SoundConcatenation DEF SoundFrame
<1>3. CASE f.op \in {"partition", "case", "next", "default"}
  <2>1. SoundPaths(f.done, exact) /\ SoundRest(f.rest, exact) BY <1>3 DEF SoundFrame
  <2>2. SoundPaths(f.done \o Rest(f), exact) BY <2>1, SoundEachPath, SoundConcatenation DEF Rest
  <2>3. CASE f.op # "next"
    <3>1. KeptBy(f) = f.done \o Rest(f) BY <1>3, <2>3 DEF KeptBy
    <3> QED BY <2>2, <3>1
  <2>4. CASE f.op = "next"
    <3> DEFINE c == Input \ CaseCond(f)
               ls == [k \in DOMAIN f.current |-> Assume(f.current[k], c)]
    <3>1. KeptBy(f) = f.done \o Rest(f) \o ls BY <2>4 DEF KeptBy, Each
    <3>2. SoundPaths(f.current, exact) /\ SoundValue(f.val, exact) BY <2>4 DEF SoundFrame
    <3>3. c \in SUBSET Input /\ (exact => Independent(c)) BY <3>2, SoundCaseCond
    <3> HIDE DEF c
    <3>4. SoundPaths(ls, exact) BY <3>2, <3>3, AssumeEach
    <3> QED BY <2>2, <3>1, <3>4, SoundConcatenation
  <2> QED BY <2>3, <2>4
<1>4. CASE f.op \in {"step", "cleanup", "leave"}
  <2>1. KeptBy(f) = <<>> BY <1>4 DEF KeptBy
  <2> QED BY <2>1, EmptyList
<1> QED BY <1>1, <1>2, <1>3, <1>4 DEF SoundFrame

-----------------------------------------------------------------------------
(* The invariant and what follows from it. *)

LEMMA SoundImplies == Sound => InputsPartitioned
<1> SUFFICES ASSUME Sound PROVE InputsPartitioned OBVIOUS
<1> DEFINE exact == ~Uninitialized(prog)
           ss == Stmts(prog)
           K == [k \in DOMAIN stack |-> KeptBy(stack[k])]
           rest == FlattenSeq(K)
<1>1. /\ SoundState(paths, stack, ss, exact) /\ exact \in BOOLEAN
      /\ \A s \in ss : IsStmt(s, ss, Uninitialized(prog))
  BY ProgramsAssumption DEF Sound
<1>2. Live = paths \o rest BY DEF Live, Each
<1>3. /\ K = [k \in DOMAIN stack |-> K[k]] /\ DOMAIN K = DOMAIN stack
      /\ \A k \in DOMAIN stack : K[k] = KeptBy(stack[k])
  OBVIOUS
<1> HIDE DEF exact, ss, K
<1>4. IsSeq(K) BY <1>1, <1>3, FunctionIsSeq DEF SoundState, SoundStack, IsSeq
<1>5. \A k \in DOMAIN K : SoundPaths(K[k], exact) /\ IsSeq(K[k])
  BY <1>1, <1>3, SoundKept DEF SoundState, SoundStack, SoundPaths
<1>6. IsSeq(rest) BY <1>4, <1>5, SoundFlatten DEF SoundPaths
<1>7. IsSeq(paths) BY <1>1 DEF SoundState, SoundPaths
<1>8. ASSUME NEW i \in Input
      PROVE  Holder(Live, i) /\ (exact => Alone(Live, i))
  <2>1. /\ Holder(rest, i) <=> HeldIn(stack, i)
        /\ OnceIn(stack, i) => Alone(rest, i)
    <3>1. Holder(rest, i) <=> \E k \in DOMAIN K : Holder(K[k], i) BY <1>4, <1>5, HeldByFlatten
    <3>2. (/\ \A k \in DOMAIN K : Alone(K[k], i)
           /\ \A j, k \in DOMAIN K : Holder(K[j], i) /\ Holder(K[k], i) => j = k)
          => Alone(rest, i)
      BY <1>4, <1>5, HeldByFlatten
    <3> HIDE DEF rest
    <3> QED BY <1>3, <3>1, <3>2 DEF HeldIn, OnceIn
  <2>2. /\ Holder(paths, i) \/ HeldIn(stack, i)
        /\ exact => Alone(paths, i) /\ OnceIn(stack, i) /\ ~(Holder(paths, i) /\ HeldIn(stack, i))
    BY <1>1 DEF SoundState, Covers
  <2> HIDE DEF rest
  <2> QED BY <1>2, <1>6, <1>7, <2>1, <2>2, HeldByConcatenation
<1>9. NoInputLost BY <1>8 DEF NoInputLost, Holder
<1>10. NoInputTwice BY <1>8 DEF NoInputTwice, Alone, exact
<1> QED BY <1>9, <1>10 DEF InputsPartitioned

(* The analysis starts with one path, which holds every input. *)
LEMMA InitSound == Init => Sound
<1> SUFFICES ASSUME Init PROVE Sound OBVIOUS
<1> DEFINE exact == ~Uninitialized(prog)
           ss == Stmts(prog)
           env == [v \in Var \ Local |-> Symbol(v)]
           p == [state |-> "Step", ctx |-> 0, conds |-> {}, ret |-> {}, env |-> env]
           f == StepFrame(prog)
<1>1. prog \in Programs /\ paths = <<p>> /\ stack = <<f>> /\ prog \in ss
  BY ProgramsAssumption DEF Init
<1>2. \A v \in Var \ Local : env[v] = Symbol(v) /\ SoundValue(Symbol(v), exact)
  BY DEF Symbol, SoundValue, Alike
<1>3. /\ DOMAIN p = {"state", "ctx", "conds", "ret", "env"} /\ p.conds = {} /\ p.env = env
      /\ DOMAIN env = Var \ Local
  OBVIOUS
<1>4. f.op = "step" /\ f.s = prog BY DEF StepFrame
<1> HIDE DEF p, env, f, exact, ss
<1>5. SoundPath(p, exact) /\ \A i : Holds(p, i) BY <1>2, <1>3 DEF SoundPath, Holds
<1>6. SoundPaths(paths, exact) /\ \A i : Holder(paths, i) /\ Alone(paths, i) BY <1>1, <1>5, OnePath
<1>7. SoundFrame(f, ss, exact) /\ KeptBy(f) = <<>> BY <1>1, <1>4 DEF SoundFrame, KeptBy
<1>8. Pushes(stack, <<>>, ss, exact) BY <1>1, <1>4, <1>7, EmptyIsSeq, PushFrame
<1>9. \A i \in Input : ~HeldIn(stack, i) /\ OnceIn(stack, i) BY <1>8, EmptyList DEF Pushes, Keeps
<1>10. SoundState(paths, stack, ss, exact)
  BY <1>6, <1>8, <1>9 DEF SoundState, Pushes, PartitionOnTop, Covers
<1> QED BY <1>1, <1>10 DEF Sound, ss, exact

-----------------------------------------------------------------------------
(* The steps: one lemma for each action. *)

(* What the invariant says of the frame on top of the stack. *)
LEMMA OnTop ==
  ASSUME Sound, NEW op, At(op)
  PROVE  /\ SoundState(paths, stack, Stmts(prog), Exact) /\ Exact \in BOOLEAN
         /\ SoundPaths(paths, Exact) /\ IsSeq(paths)
         /\ stack # <<>> /\ Head(stack).op = op
         /\ SoundFrame(Head(stack), Stmts(prog), Exact)
         /\ SoundPaths(KeptBy(Head(stack)), Exact) /\ IsSeq(KeptBy(Head(stack)))
<1>1. SoundState(paths, stack, Stmts(prog), Exact) /\ Exact \in BOOLEAN BY DEF Sound, Exact
<1>2. stack # <<>> /\ Head(stack).op = op BY DEF At
<1>3. SoundFrame(Head(stack), Stmts(prog), Exact)
  BY <1>1, <1>2, HeadAndTail DEF SoundState, SoundStack
<1>4. \A s \in Stmts(prog) : IsStmt(s, Stmts(prog), Uninitialized(prog))
  BY ProgramsAssumption DEF Sound
<1>5. SoundPaths(KeptBy(Head(stack)), Exact) BY <1>1, <1>3, <1>4, SoundKept
<1> QED BY <1>1, <1>2, <1>3, <1>5 DEF SoundState, SoundPaths

(* What it says when that frame is a statement to step. *)
LEMMA StmtOnTop ==
  ASSUME Sound, NEW kind, AtStmt(kind)
  PROVE  /\ SoundState(paths, stack, Stmts(prog), Exact) /\ Exact \in BOOLEAN
         /\ SoundPaths(paths, Exact) /\ IsSeq(paths)
         /\ stack # <<>> /\ KeptBy(Head(stack)) = <<>>
         /\ Stmt \in Stmts(prog) /\ Stmt.kind = kind
         /\ IsStmt(Stmt, Stmts(prog), Uninitialized(prog))
<1>1. At("step") /\ Stmt.kind = kind BY DEF AtStmt, Stmt
<1>2. Stmt \in Stmts(prog) BY <1>1, OnTop DEF SoundFrame, Stmt
<1>3. KeptBy(Head(stack)) = <<>>
  <2>1. Head(stack).op = "step" BY <1>1, OnTop
  <2> QED BY <2>1 DEF KeptBy
<1>4. IsStmt(Stmt, Stmts(prog), Uninitialized(prog)) BY <1>2, ProgramsAssumption DEF Sound
<1> QED BY <1>1, <1>2, <1>3, <1>4, OnTop

(* A step that leaves the function alone. *)
LEMMA SoundNext ==
  ASSUME Sound, prog' = prog, SoundState(paths', stack', Stmts(prog), Exact)
  PROVE  Sound'
BY DEF Sound, Exact

(* A statement that only changes paths. *)
LEMMA LeafStep ==
  ASSUME Sound, NEW kind, AtStmt(kind), prog' = prog, Continue(<<>>),
         Replaces(paths', paths, Exact)
  PROVE  Sound'
<1>1. stack' = <<>> \o Tail(stack) BY DEF Continue
<1>2. SoundState(paths', <<>> \o Tail(stack), Stmts(prog), Exact)
  BY StmtOnTop, PushNothing, PathStep
<1> QED BY <1>1, <1>2, SoundNext

(* The results of the expression e on the path p, changed by op. *)
LEMMA ExprReplaces ==
  ASSUME NEW exact \in BOOLEAN, NEW p, SoundPath(p, exact), NEW e, IsExpr(e),
         NEW G, G = [j \in DOMAIN Eval(p, e) |-> G[j]],
         \A j \in DOMAIN Eval(p, e) :
           SoundPath(Eval(p, e)[j].path, exact) /\ SoundValue(Eval(p, e)[j].val, exact) =>
             /\ SoundPath(G[j], exact)
             /\ \A i \in Input : Holds(G[j], i) <=> Holds(Eval(p, e)[j].path, i)
  PROVE  Replaces(G, <<p>>, exact)
<1> DEFINE rs == Eval(p, e)
<1>1. Divides(rs, p, exact) BY EvalDivides
<1>2. \A j \in DOMAIN rs : SoundPath(rs[j].path, exact) /\ SoundValue(rs[j].val, exact)
  BY <1>1 DEF Divides, SoundRest
<1>3. G = [j \in DOMAIN rs |-> G[j]] OBVIOUS
<1>4. \A j \in DOMAIN rs : /\ SoundPath(G[j], exact)
                           /\ \A i \in Input : Holds(G[j], i) <=> Holds(rs[j].path, i)
  BY <1>2
<1> HIDE DEF rs
<1> QED BY <1>1, <1>3, <1>4, ReplaceByResults

(* A statement that steps every active path by itself. *)
LEMMA ActiveStep ==
  ASSUME Sound, NEW kind, AtStmt(kind), prog' = prog, Continue(<<>>),
         NEW F, F = [k \in DOMAIN paths |-> F[k]], paths' = FlattenSeq(F),
         \A k \in DOMAIN paths :
           SoundPath(paths[k], Exact) => Replaces(F[k], <<paths[k]>>, Exact)
  PROVE  Sound'
<1>1. Exact \in BOOLEAN /\ SoundPaths(paths, Exact) /\ IsSeq(paths) BY StmtOnTop
<1>2. \A k \in DOMAIN paths : Replaces(F[k], <<paths[k]>>, Exact) BY <1>1 DEF SoundPaths
<1>3. Replaces(paths', paths, Exact) BY <1>1, <1>2, ReplaceByLists
<1> QED BY <1>3, LeafStep

(* One lemma for each action of the stepper. *)
LEMMA ExprSound == Sound /\ StepExpr => Sound'
<1> SUFFICES ASSUME Sound, StepExpr PROVE Sound' OBVIOUS
<1> DEFINE G(p) == [j \in DOMAIN Eval(p, Stmt.e) |-> Eval(p, Stmt.e)[j].path]
           F == [k \in DOMAIN paths |-> IF IsActive(paths[k]) THEN G(paths[k]) ELSE <<paths[k]>>]
<1>1. AtStmt("expr") /\ prog' = prog /\ Continue(<<>>) BY DEF StepExpr, Quiet
<1>2. paths' = FlattenSeq(F) BY DEF StepExpr, ForActive, EvalThen
<1>3. IsExpr(Stmt.e) /\ Exact \in BOOLEAN BY <1>1, StmtOnTop DEF IsStmt
<1>4. ASSUME NEW p, SoundPath(p, Exact) PROVE Replaces(G(p), <<p>>, Exact)
  <2> DEFINE H == G(p)
  <2>1. /\ H = [j \in DOMAIN Eval(p, Stmt.e) |-> H[j]]
        /\ \A j \in DOMAIN Eval(p, Stmt.e) : H[j] = Eval(p, Stmt.e)[j].path
    OBVIOUS
  <2> HIDE DEF H
  <2>2. Replaces(H, <<p>>, Exact) BY <1>3, <1>4, <2>1, ExprReplaces
  <2> QED BY <2>2 DEF H
<1>5. \A k \in DOMAIN paths :
        SoundPath(paths[k], Exact) => Replaces(F[k], <<paths[k]>>, Exact)
  BY <1>3, <1>4, ReplaceBySame
<1>6. F = [k \in DOMAIN paths |-> F[k]] OBVIOUS
<1> HIDE DEF F
<1> QED BY <1>1, <1>2, <1>5, <1>6, ActiveStep

LEMMA AssignSound == Sound /\ UpdateVarState => Sound'
<1> SUFFICES ASSUME Sound, UpdateVarState PROVE Sound' OBVIOUS
<1> DEFINE rs(p) == Eval(p, Stmt.e)
           G(p) == [j \in DOMAIN rs(p) |-> Bind(rs(p)[j].path, Stmt.var, rs(p)[j].val)]
           F == [k \in DOMAIN paths |-> IF IsActive(paths[k]) THEN G(paths[k]) ELSE <<paths[k]>>]
<1>1. AtStmt("assign") /\ prog' = prog /\ Continue(<<>>) BY DEF UpdateVarState, Quiet
<1>2. paths' = FlattenSeq(F) BY DEF UpdateVarState, ForActive, EvalThen
<1>3. IsExpr(Stmt.e) /\ Exact \in BOOLEAN BY <1>1, StmtOnTop DEF IsStmt
<1>4. ASSUME NEW p, SoundPath(p, Exact) PROVE Replaces(G(p), <<p>>, Exact)
  <2> DEFINE H == G(p)
  <2>1. /\ H = [j \in DOMAIN Eval(p, Stmt.e) |-> H[j]]
        /\ \A j \in DOMAIN Eval(p, Stmt.e) :
             H[j] = Bind(Eval(p, Stmt.e)[j].path, Stmt.var, Eval(p, Stmt.e)[j].val)
    OBVIOUS
  <2> HIDE DEF H
  <2>2. Replaces(H, <<p>>, Exact) BY <1>3, <1>4, <2>1, ExprReplaces, SoundBind
  <2> QED BY <2>2 DEF H
<1>5. \A k \in DOMAIN paths :
        SoundPath(paths[k], Exact) => Replaces(F[k], <<paths[k]>>, Exact)
  BY <1>3, <1>4, ReplaceBySame
<1>6. F = [k \in DOMAIN paths |-> F[k]] OBVIOUS
<1> HIDE DEF F
<1> QED BY <1>1, <1>2, <1>5, <1>6, ActiveStep

LEMMA DeclSound == Sound /\ AddNewDecls => Sound'
<1> SUFFICES ASSUME Sound, AddNewDecls PROVE Sound' OBVIOUS
<1> DEFINE e == CHOOSE x \in Stmt.init : TRUE
           rs(p) == Eval(p, e)
           G(p) == [j \in DOMAIN rs(p) |-> Bind(rs(p)[j].path, Stmt.var, rs(p)[j].val)]
           one(p) == <<Bind(p, Stmt.var, Symbol(Stmt.var))>>
           F == [k \in DOMAIN paths |->
                  IF IsActive(paths[k])
                  THEN IF Stmt.init = {} THEN one(paths[k]) ELSE G(paths[k])
                  ELSE <<paths[k]>>]
<1>1. AtStmt("decl") /\ prog' = prog /\ Continue(<<>>) BY DEF AddNewDecls, Quiet
<1>2. paths' = FlattenSeq(F) BY DEF AddNewDecls, ForActive, EvalThen
<1>3. /\ Stmt.init = {} => ~Exact
      /\ \A x \in Stmt.init : IsExpr(x)
      /\ Exact \in BOOLEAN
  BY <1>1, StmtOnTop DEF IsStmt, Exact
<1>4. ASSUME NEW p, SoundPath(p, Exact), Stmt.init # {} PROVE Replaces(G(p), <<p>>, Exact)
  <2> DEFINE H == G(p)
  <2>1. /\ H = [j \in DOMAIN Eval(p, e) |-> H[j]]
        /\ \A j \in DOMAIN Eval(p, e) :
             H[j] = Bind(Eval(p, e)[j].path, Stmt.var, Eval(p, e)[j].val)
    OBVIOUS
  <2>2. IsExpr(e) BY <1>3, <1>4
  <2> HIDE DEF H, e
  <2>3. Replaces(H, <<p>>, Exact) BY <1>3, <1>4, <2>1, <2>2, ExprReplaces, SoundBind
  <2> QED BY <2>3 DEF H
<1>5. ASSUME NEW p, SoundPath(p, Exact), Stmt.init = {} PROVE Replaces(one(p), <<p>>, Exact)
  <2>1. SoundValue(Symbol(Stmt.var), Exact) BY <1>3, <1>5 DEF SoundValue
  <2> QED BY <1>3, <1>5, <2>1, SoundBind, ReplaceBySame
<1>6. \A k \in DOMAIN paths :
        SoundPath(paths[k], Exact) => Replaces(F[k], <<paths[k]>>, Exact)
  BY <1>3, <1>4, <1>5, ReplaceBySame
<1>7. F = [k \in DOMAIN paths |-> F[k]] OBVIOUS
<1> HIDE DEF F
<1> QED BY <1>1, <1>2, <1>6, <1>7, ActiveStep

LEMMA ReturnSound == Sound /\ StepReturn => Sound'
<1> SUFFICES ASSUME Sound, StepReturn PROVE Sound' OBVIOUS
<1> DEFINE e == CHOOSE x \in Stmt.e : TRUE
           rs(p) == Eval(p, e)
           back(p, x) == SetState([p EXCEPT !.ret = x], "Return", 0)
           G(p) == [j \in DOMAIN rs(p) |-> back(rs(p)[j].path, {rs(p)[j].val})]
           F == [k \in DOMAIN paths |->
                  IF IsActive(paths[k])
                  THEN IF Stmt.e = {} THEN <<back(paths[k], {})>> ELSE G(paths[k])
                  ELSE <<paths[k]>>]
<1>1. AtStmt("return") /\ prog' = prog /\ Continue(<<>>) BY DEF StepReturn, Quiet
<1>2. paths' = FlattenSeq(F) BY DEF StepReturn, ForActive, EvalThen
<1>3. (\A x \in Stmt.e : IsExpr(x)) /\ Exact \in BOOLEAN BY <1>1, StmtOnTop DEF IsStmt
<1>4. ASSUME NEW p, SoundPath(p, Exact), NEW x
      PROVE  SoundPath(back(p, x), Exact) /\ \A i : Holds(back(p, x), i) <=> Holds(p, i)
  <2> DEFINE q == [p EXCEPT !.ret = x]
  <2>1. DOMAIN q = DOMAIN p /\ q.conds = p.conds /\ q.env = p.env BY <1>4 DEF SoundPath
  <2> HIDE DEF q
  <2>2. SoundPath(q, Exact) /\ \A i : Holds(q, i) <=> Holds(p, i) BY <1>3, <1>4, <2>1, SoundSame
  <2>3. SoundPath(SetState(q, "Return", 0), Exact)
        /\ \A i : Holds(SetState(q, "Return", 0), i) <=> Holds(p, i)
    BY <1>3, <2>2, SoundSetState
  <2> QED BY <2>3 DEF q
<1>5. ASSUME NEW p, SoundPath(p, Exact), Stmt.e # {} PROVE Replaces(G(p), <<p>>, Exact)
  <2> DEFINE H == G(p)
  <2>1. /\ H = [j \in DOMAIN Eval(p, e) |-> H[j]]
        /\ \A j \in DOMAIN Eval(p, e) :
             H[j] = back(Eval(p, e)[j].path, {Eval(p, e)[j].val})
    OBVIOUS
  <2>2. IsExpr(e) BY <1>3, <1>5
  <2> HIDE DEF H, e, back
  <2>3. \A j \in DOMAIN Eval(p, e) :
          SoundPath(Eval(p, e)[j].path, Exact) =>
            /\ SoundPath(H[j], Exact)
            /\ \A i : Holds(H[j], i) <=> Holds(Eval(p, e)[j].path, i)
    <3> SUFFICES ASSUME NEW j \in DOMAIN Eval(p, e), SoundPath(Eval(p, e)[j].path, Exact)
                 PROVE  /\ SoundPath(H[j], Exact)
                        /\ \A i : Holds(H[j], i) <=> Holds(Eval(p, e)[j].path, i)
      OBVIOUS
    <3>1. H[j] = back(Eval(p, e)[j].path, {Eval(p, e)[j].val}) BY <2>1
    <3> QED BY <1>4, <3>1
  <2>4. Replaces(H, <<p>>, Exact) BY <1>3, <1>5, <2>1, <2>2, <2>3, ExprReplaces
  <2> QED BY <2>4 DEF H
<1> HIDE DEF back
<1>6. \A k \in DOMAIN paths :
        SoundPath(paths[k], Exact) => Replaces(F[k], <<paths[k]>>, Exact)
  BY <1>3, <1>4, <1>5, ReplaceBySame
<1>7. F = [k \in DOMAIN paths |-> F[k]] OBVIOUS
<1> HIDE DEF F
<1> QED BY <1>1, <1>2, <1>6, <1>7, ActiveStep

LEMMA BreakSound == Sound /\ StepBreak => Sound'
<1> SUFFICES ASSUME Sound, StepBreak PROVE Sound' OBVIOUS
<1> DEFINE F == [k \in DOMAIN paths |-> IF IsActive(paths[k])
                                        THEN <<SetState(paths[k], "Break", ctx)>>
                                        ELSE <<paths[k]>>]
<1>1. AtStmt("break") /\ prog' = prog /\ Continue(<<>>) BY DEF StepBreak, Quiet
<1>2. paths' = FlattenSeq(F) BY DEF StepBreak, ForActive
<1>3. Exact \in BOOLEAN BY <1>1, StmtOnTop
<1>4. \A k \in DOMAIN paths :
        SoundPath(paths[k], Exact) => Replaces(F[k], <<paths[k]>>, Exact)
  BY <1>3, SoundSetState, ReplaceBySame
<1>5. F = [k \in DOMAIN paths |-> F[k]] OBVIOUS
<1> HIDE DEF F
<1> QED BY <1>1, <1>2, <1>4, <1>5, ActiveStep

(* Every list replaces itself. *)
LEMMA SameReplaces ==
  ASSUME NEW ps, NEW exact, SoundPaths(ps, exact)
  PROVE  Replaces(ps, ps, exact)
BY DEF Replaces

LEMMA NullSound == Sound /\ StepNull => Sound'
<1> SUFFICES ASSUME Sound, StepNull PROVE Sound' OBVIOUS
<1>1. AtStmt("null") /\ prog' = prog /\ Continue(<<>>) /\ paths' = paths BY DEF StepNull, Quiet
<1>2. Replaces(paths', paths, Exact) BY <1>1, StmtOnTop, SameReplaces
<1> QED BY <1>1, <1>2, LeafStep

-----------------------------------------------------------------------------
(* Compound statements, do { ... } while (0), and the end of a statement. *)

(* A statement or a frame that changes every path in place. *)
LEMMA EachStep ==
  ASSUME Sound, NEW op, At(op), KeptBy(Head(stack)) = <<>>, prog' = prog,
         NEW fs, Continue(fs), Pushes(fs, <<>>, Stmts(prog), Exact),
         paths' = [k \in DOMAIN paths |-> paths'[k]],
         \A k \in DOMAIN paths : SoundPath(paths[k], Exact) =>
           /\ SoundPath(paths'[k], Exact)
           /\ \A i : /\ Holds(paths[k], i) => Holds(paths'[k], i)
                     /\ Exact /\ Holds(paths'[k], i) => Holds(paths[k], i)
  PROVE  Sound'
<1>1. /\ SoundState(paths, stack, Stmts(prog), Exact) /\ Exact \in BOOLEAN
      /\ SoundPaths(paths, Exact) /\ IsSeq(paths) /\ stack # <<>>
  BY OnTop
<1>2. IsSeq(paths') /\ DOMAIN paths' = DOMAIN paths
  <2>1. Len(paths) \in Nat /\ DOMAIN paths = 1 .. Len(paths) BY <1>1 DEF IsSeq
  <2> QED BY <2>1, FunctionIsSeq
<1>3. Replaces(paths', paths, Exact) BY <1>1, <1>2, ReplaceEach DEF SoundPaths
<1>4. SoundState(paths', fs \o Tail(stack), Stmts(prog), Exact) BY <1>1, <1>3, PathStep
<1>5. stack' = fs \o Tail(stack) BY DEF Continue
<1> QED BY <1>4, <1>5, SoundNext

LEMMA CompoundSound == Sound /\ StepCompound => Sound'
<1> SUFFICES ASSUME Sound, StepCompound PROVE Sound' OBVIOUS
<1> DEFINE g == [op |-> "cleanup", locals |-> LocalsOf(Stmt)]
           fs == StepFrames(Stmt.body) \o <<g>>
<1>1. AtStmt("compound") /\ prog' = prog /\ Continue(fs) /\ paths' = paths
  BY DEF StepCompound, Quiet
<1>2. /\ SoundState(paths, stack, Stmts(prog), Exact) /\ Exact \in BOOLEAN
      /\ SoundPaths(paths, Exact) /\ stack # <<>> /\ KeptBy(Head(stack)) = <<>>
      /\ Stmt.kind = "compound" /\ IsStmt(Stmt, Stmts(prog), Uninitialized(prog))
  BY <1>1, StmtOnTop
<1>3. /\ Stmt.body \in Seq(Stmts(prog))
      /\ \A s \in Stmts(prog) : s.kind = "decl" => s.var \in Local
  BY <1>2, ProgramsAssumption DEF IsStmt, Sound
<1>4. LocalsOf(Stmt) \subseteq Local BY <1>3 DEF LocalsOf
<1>5. IsSeq(Stmt.body) /\ \A k \in DOMAIN Stmt.body : Stmt.body[k] \in Stmts(prog) BY <1>3, SeqIs
<1>6. Pushes(StepFrames(Stmt.body), <<>>, Stmts(prog), Exact) BY <1>5, PushSteps
<1>7. Pushes(<<g>>, <<>>, Stmts(prog), Exact)
  <2>1. g.op = "cleanup" /\ g.locals = LocalsOf(Stmt) OBVIOUS
  <2> HIDE DEF g
  <2>2. SoundFrame(g, Stmts(prog), Exact) BY <1>4, <2>1 DEF SoundFrame
  <2>3. KeptBy(g) = <<>> BY <2>1 DEF KeptBy
  <2> QED BY <2>1, <2>2, <2>3, EmptyIsSeq, PushFrame
<1> HIDE DEF g
<1>8. Pushes(fs, <<>>, Stmts(prog), Exact) BY <1>6, <1>7, PushFirst
<1> HIDE DEF fs
<1>9. SoundState(paths', fs \o Tail(stack), Stmts(prog), Exact)
  BY <1>1, <1>2, <1>8, SameReplaces, PathStep
<1> QED BY <1>1, <1>9, SoundNext DEF Continue

LEMMA CleanupSound == Sound /\ StepCleanup => Sound'
<1> SUFFICES ASSUME Sound, StepCleanup PROVE Sound' OBVIOUS
<1> DEFINE ls == Head(stack).locals
<1>1. At("cleanup") /\ prog' = prog /\ Continue(<<>>) BY DEF StepCleanup, Quiet
<1>2. paths' = [k \in DOMAIN paths |-> Cleanup(paths[k], ls)] BY DEF StepCleanup, Each
<1>3. Exact \in BOOLEAN /\ Head(stack).op = "cleanup" /\ ls \in SUBSET Local
  BY <1>1, OnTop DEF SoundFrame
<1>4. KeptBy(Head(stack)) = <<>> BY <1>3 DEF KeptBy
<1> HIDE DEF ls
<1>5. \A k \in DOMAIN paths : SoundPath(paths[k], Exact) =>
        /\ SoundPath(paths'[k], Exact)
        /\ \A i : /\ Holds(paths[k], i) => Holds(paths'[k], i)
                  /\ Exact /\ Holds(paths'[k], i) => Holds(paths[k], i)
  BY <1>2, <1>3, SoundCleanup
<1>6. paths' = [k \in DOMAIN paths |-> paths'[k]] BY <1>2
<1> QED BY <1>1, <1>4, <1>5, <1>6, PushNothing, EachStep

(* setStmtCtx and resetBreakState. *)
LEMMA SoundSetStmtCtx ==
  ASSUME NEW exact \in BOOLEAN, NEW p, SoundPath(p, exact), NEW c
  PROVE  LET q == IF IsActive(p) THEN [p EXCEPT !.ctx = c] ELSE p
         IN  SoundPath(q, exact) /\ \A i : Holds(q, i) <=> Holds(p, i)
<1> DEFINE r == [p EXCEPT !.ctx = c]
<1>1. DOMAIN r = DOMAIN p /\ r.conds = p.conds /\ r.env = p.env BY DEF SoundPath
<1> HIDE DEF r
<1>2. SoundPath(r, exact) /\ \A i : Holds(r, i) <=> Holds(p, i) BY <1>1, SoundSame
<1> QED BY <1>2 DEF r

(* What the end of a loop or a switch does to the paths that broke out. *)
LEMMA SoundSetStep ==
  ASSUME NEW exact \in BOOLEAN, NEW p, SoundPath(p, exact), NEW c
  PROVE  LET q == IF p.state = "Break" /\ p.ctx = c THEN [p EXCEPT !.state = "Step"] ELSE p
         IN  SoundPath(q, exact) /\ \A i : Holds(q, i) <=> Holds(p, i)
<1> DEFINE r == [p EXCEPT !.state = "Step"]
<1>1. DOMAIN r = DOMAIN p /\ r.conds = p.conds /\ r.env = p.env BY DEF SoundPath
<1> HIDE DEF r
<1>2. SoundPath(r, exact) /\ \A i : Holds(r, i) <=> Holds(p, i) BY <1>1, SoundSame
<1> QED BY <1>2 DEF r

LEMMA DoSound == Sound /\ StepDo => Sound'
<1> SUFFICES ASSUME Sound, StepDo PROVE Sound' OBVIOUS
<1> DEFINE f == StepFrame(Stmt.body)
           g == [op |-> "leave", prev |-> ctx]
           id == Stmt.id
<1>1. AtStmt("do") /\ prog' = prog /\ Continue(<<f, g>>) BY DEF StepDo, Quiet
<1>2. paths' = [k \in DOMAIN paths |->
                  IF IsActive(paths[k]) THEN [paths[k] EXCEPT !.ctx = id] ELSE paths[k]]
  BY DEF StepDo, SetStmtCtx, Each
<1>3. /\ Exact \in BOOLEAN /\ KeptBy(Head(stack)) = <<>> /\ Stmt.body \in Stmts(prog)
  BY <1>1, StmtOnTop DEF IsStmt
<1>4. Pushes(<<f>>, <<>>, Stmts(prog), Exact)
  <2>1. f.op = "step" /\ f.s = Stmt.body BY DEF StepFrame
  <2> HIDE DEF f
  <2>2. SoundFrame(f, Stmts(prog), Exact) BY <1>3, <2>1 DEF SoundFrame
  <2>3. KeptBy(f) = <<>> BY <2>1 DEF KeptBy
  <2> QED BY <2>1, <2>2, <2>3, EmptyIsSeq, PushFrame
<1>5. Pushes(<<g>>, <<>>, Stmts(prog), Exact)
  <2>1. g.op = "leave" OBVIOUS
  <2> HIDE DEF g
  <2>2. SoundFrame(g, Stmts(prog), Exact) BY <2>1 DEF SoundFrame
  <2>3. KeptBy(g) = <<>> BY <2>1 DEF KeptBy
  <2> QED BY <2>1, <2>2, <2>3, EmptyIsSeq, PushFrame
<1> HIDE DEF f, g, id
<1>6. Pushes(<<f, g>>, <<>>, Stmts(prog), Exact)
  <2>1. <<f>> \o <<g>> = <<f, g>> BY PairIsConcatenation
  <2>2. Pushes(<<f>> \o <<g>>, <<>>, Stmts(prog), Exact) BY <1>4, <1>5, PushFirst
  <2> QED BY <2>1, <2>2
<1>7. \A k \in DOMAIN paths : SoundPath(paths[k], Exact) =>
        /\ SoundPath(paths'[k], Exact)
        /\ \A i : /\ Holds(paths[k], i) => Holds(paths'[k], i)
                  /\ Exact /\ Holds(paths'[k], i) => Holds(paths[k], i)
  BY <1>2, <1>3, SoundSetStmtCtx
<1>8. paths' = [k \in DOMAIN paths |-> paths'[k]] BY <1>2
<1>9. At("step") BY <1>1 DEF AtStmt
<1> QED BY <1>1, <1>3, <1>6, <1>7, <1>8, <1>9, EachStep

LEMMA LeaveSound == Sound /\ StepLeave => Sound'
<1> SUFFICES ASSUME Sound, StepLeave PROVE Sound' OBVIOUS
<1> DEFINE prev == Head(stack).prev
           ps == [k \in DOMAIN paths |-> IF paths[k].state = "Break" /\ paths[k].ctx = ctx
                                         THEN [paths[k] EXCEPT !.state = "Step"] ELSE paths[k]]
<1>1. At("leave") /\ prog' = prog /\ Continue(<<>>) BY DEF StepLeave, Quiet
<1>2. paths' = [k \in DOMAIN ps |-> IF IsActive(ps[k]) THEN [ps[k] EXCEPT !.ctx = prev] ELSE ps[k]]
  BY DEF StepLeave, SetStmtCtx, ResetBreakState, Each
<1>3. Exact \in BOOLEAN /\ Head(stack).op = "leave" BY <1>1, OnTop
<1>4. KeptBy(Head(stack)) = <<>> BY <1>3 DEF KeptBy
<1>5. /\ DOMAIN ps = DOMAIN paths
      /\ \A k \in DOMAIN paths : SoundPath(paths[k], Exact) =>
           SoundPath(ps[k], Exact) /\ \A i : Holds(ps[k], i) <=> Holds(paths[k], i)
  BY <1>3, SoundSetStep
<1> HIDE DEF ps, prev
<1>6. \A k \in DOMAIN ps : SoundPath(ps[k], Exact) =>
        SoundPath(paths'[k], Exact) /\ \A i : Holds(paths'[k], i) <=> Holds(ps[k], i)
  BY <1>2, <1>3, SoundSetStmtCtx
<1>7. \A k \in DOMAIN paths : SoundPath(paths[k], Exact) =>
        /\ SoundPath(paths'[k], Exact)
        /\ \A i : /\ Holds(paths[k], i) => Holds(paths'[k], i)
                  /\ Exact /\ Holds(paths'[k], i) => Holds(paths[k], i)
  BY <1>5, <1>6
<1>8. paths' = [k \in DOMAIN paths |-> paths'[k]] BY <1>2, <1>5
<1> QED BY <1>1, <1>4, <1>7, <1>8, PushNothing, EachStep

-----------------------------------------------------------------------------
(* stepBranch. *)

LEMMA IfSound == Sound /\ StepIf => Sound'
<1> SUFFICES ASSUME Sound, StepIf PROVE Sound' OBVIOUS
<1> DEFINE active == Those(paths, IsActive)
           inactive == Those(paths, LAMBDA p : ~IsActive(p))
           f == StepFrame(Stmt.then)
           g == [op |-> "else", s |-> Stmt, prev |-> ctx, active |-> active, inactive |-> inactive]
           T == Then(active, Stmt.cond)
           E == Else(active, Stmt.cond)
<1>1. AtStmt("if") /\ prog' = prog /\ Continue(<<f, g>>) /\ paths' = T BY DEF StepIf, Quiet
<1>2. /\ SoundState(paths, stack, Stmts(prog), Exact) /\ Exact \in BOOLEAN
      /\ SoundPaths(paths, Exact) /\ stack # <<>> /\ KeptBy(Head(stack)) = <<>>
      /\ Stmt \in Stmts(prog) /\ Stmt.kind = "if"
      /\ IsExpr(Stmt.cond) /\ Stmt.then \in Stmts(prog)
  BY <1>1, StmtOnTop DEF IsStmt
<1>3. Parted(active, inactive, paths, Exact) BY <1>2, ActiveInactive
<1>4. SoundPaths(active, Exact) /\ SoundPaths(inactive, Exact) BY <1>3 DEF Parted
<1>5. /\ f.op = "step" /\ f.s = Stmt.then
      /\ g.op = "else" /\ g.s = Stmt /\ g.active = active /\ g.inactive = inactive
  BY DEF StepFrame
<1> HIDE DEF active, inactive, f, g
<1>6. Parted(T, E, active, Exact) BY <1>2, <1>4, Branches
<1>7. SoundPaths(T, Exact) /\ SoundPaths(E, Exact) BY <1>6 DEF Parted
<1>8. KeptBy(g) = E \o inactive BY <1>5 DEF KeptBy
<1> HIDE DEF T, E
<1>9. SoundPaths(E \o inactive, Exact) BY <1>4, <1>7, SoundConcatenation
<1>10. Pushes(<<f, g>>, E \o inactive, Stmts(prog), Exact)
  <2>1. KeptBy(f) = <<>> BY <1>5 DEF KeptBy
  <2>2. SoundFrame(f, Stmts(prog), Exact) BY <1>2, <1>5 DEF SoundFrame
  <2>3. Pushes(<<f>>, <<>>, Stmts(prog), Exact) BY <1>5, <2>1, <2>2, EmptyIsSeq, PushFrame
  <2>4. SoundFrame(g, Stmts(prog), Exact) BY <1>2, <1>4, <1>5 DEF SoundFrame
  <2>5. Pushes(<<g>>, E \o inactive, Stmts(prog), Exact)
    BY <1>5, <1>8, <1>9, <2>4, PushFrame DEF SoundPaths
  <2>6. Pushes(<<f>> \o <<g>>, E \o inactive, Stmts(prog), Exact) BY <2>3, <2>5, PushFirst
  <2> QED BY <2>6, PairIsConcatenation
<1>11. Replaces(T \o (E \o inactive), paths \o <<>>, Exact)
  <2>1. SoundPaths(T \o (E \o inactive), Exact) BY <1>7, <1>9, SoundConcatenation
  <2>2. paths \o <<>> = paths BY <1>2, ConcatenationWithEmpty DEF SoundPaths
  <2>3. ASSUME NEW i \in Input
        PROVE  /\ Holder(T \o (E \o inactive), i) <=> Holder(paths, i)
               /\ Alone(paths, i) => Alone(T \o (E \o inactive), i)
    <3>1. IsSeq(T) /\ IsSeq(E) /\ IsSeq(inactive) /\ IsSeq(E \o inactive)
      BY <1>4, <1>7, <1>9 DEF SoundPaths
    <3>2. /\ Holder(E \o inactive, i) <=> Holder(E, i) \/ Holder(inactive, i)
          /\ Alone(E \o inactive, i) <=>
               Alone(E, i) /\ Alone(inactive, i) /\ ~(Holder(E, i) /\ Holder(inactive, i))
      BY <3>1, HeldByConcatenation
    <3>3. /\ Holder(T \o (E \o inactive), i) <=> Holder(T, i) \/ Holder(E \o inactive, i)
          /\ Alone(T \o (E \o inactive), i) <=>
               Alone(T, i) /\ Alone(E \o inactive, i) /\ ~(Holder(T, i) /\ Holder(E \o inactive, i))
      BY <3>1, HeldByConcatenation
    <3> QED BY <1>3, <1>6, <3>2, <3>3 DEF Parted
  <2> QED BY <2>1, <2>2, <2>3 DEF Replaces
<1>12. SoundState(paths', <<f, g>> \o Tail(stack), Stmts(prog), Exact)
  BY <1>1, <1>2, <1>7, <1>10, <1>11, EmptyIsSeq, PushStep
<1> QED BY <1>1, <1>12, SoundNext DEF Continue

(* Lists of paths may be put into another order. *)
LEMMA Reordered ==
  ASSUME NEW exact, NEW a, NEW b, NEW c,
         SoundPaths(a, exact), SoundPaths(b, exact), SoundPaths(c, exact)
  PROVE  /\ Replaces(b \o (a \o c), a \o (b \o c), exact)
         /\ Replaces((b \o a \o c) \o <<>>, a \o (b \o c), exact)
         /\ Replaces(a \o (b \o c), (b \o a \o c) \o <<>>, exact)
<1>1. IsSeq(a) /\ IsSeq(b) /\ IsSeq(c) BY DEF SoundPaths
<1>2. /\ SoundPaths(a \o c, exact) /\ IsSeq(a \o c)
      /\ SoundPaths(b \o c, exact) /\ IsSeq(b \o c)
      /\ SoundPaths(b \o a, exact) /\ IsSeq(b \o a)
  BY SoundConcatenation DEF SoundPaths
<1>3. /\ SoundPaths(b \o (a \o c), exact) /\ SoundPaths(a \o (b \o c), exact)
      /\ SoundPaths((b \o a) \o c, exact) /\ IsSeq((b \o a) \o c)
  BY <1>2, SoundConcatenation DEF SoundPaths
<1>4. ((b \o a) \o c) \o <<>> = (b \o a) \o c BY <1>3, ConcatenationWithEmpty
<1>5. ASSUME NEW i \in Input
      PROVE  /\ Holder(b \o (a \o c), i) <=> Holder(a \o (b \o c), i)
             /\ Alone(b \o (a \o c), i) <=> Alone(a \o (b \o c), i)
             /\ Holder((b \o a) \o c, i) <=> Holder(a \o (b \o c), i)
             /\ Alone((b \o a) \o c, i) <=> Alone(a \o (b \o c), i)
  <2>1. /\ Holder(a \o c, i) <=> Holder(a, i) \/ Holder(c, i)
        /\ Alone(a \o c, i) <=> Alone(a, i) /\ Alone(c, i) /\ ~(Holder(a, i) /\ Holder(c, i))
    BY <1>1, HeldByConcatenation
  <2>2. /\ Holder(b \o c, i) <=> Holder(b, i) \/ Holder(c, i)
        /\ Alone(b \o c, i) <=> Alone(b, i) /\ Alone(c, i) /\ ~(Holder(b, i) /\ Holder(c, i))
    BY <1>1, HeldByConcatenation
  <2>3. /\ Holder(b \o a, i) <=> Holder(b, i) \/ Holder(a, i)
        /\ Alone(b \o a, i) <=> Alone(b, i) /\ Alone(a, i) /\ ~(Holder(b, i) /\ Holder(a, i))
    BY <1>1, HeldByConcatenation
  <2>4. /\ Holder(b \o (a \o c), i) <=> Holder(b, i) \/ Holder(a \o c, i)
        /\ Alone(b \o (a \o c), i) <=>
             Alone(b, i) /\ Alone(a \o c, i) /\ ~(Holder(b, i) /\ Holder(a \o c, i))
    BY <1>1, <1>2, HeldByConcatenation
  <2>5. /\ Holder(a \o (b \o c), i) <=> Holder(a, i) \/ Holder(b \o c, i)
        /\ Alone(a \o (b \o c), i) <=>
             Alone(a, i) /\ Alone(b \o c, i) /\ ~(Holder(a, i) /\ Holder(b \o c, i))
    BY <1>1, <1>2, HeldByConcatenation
  <2>6. /\ Holder((b \o a) \o c, i) <=> Holder(b \o a, i) \/ Holder(c, i)
        /\ Alone((b \o a) \o c, i) <=>
             Alone(b \o a, i) /\ Alone(c, i) /\ ~(Holder(b \o a, i) /\ Holder(c, i))
    BY <1>1, <1>2, HeldByConcatenation
  <2> QED BY <2>1, <2>2, <2>3, <2>4, <2>5, <2>6
<1> QED BY <1>3, <1>4, <1>5 DEF Replaces

LEMMA ElseSound == Sound /\ StepElse => Sound'
<1> SUFFICES ASSUME Sound, StepElse PROVE Sound' OBVIOUS
<1> DEFINE h == Head(stack)
           I == h.inactive
           E == Else(h.active, h.s.cond)
           f == StepFrame(h.s.else)
           g == [op |-> "join", prev |-> h.prev, then |-> paths, inactive |-> I]
<1>1. At("else") /\ prog' = prog /\ Continue(<<f, g>>) /\ paths' = E BY DEF StepElse, Quiet
<1>2. /\ SoundState(paths, stack, Stmts(prog), Exact) /\ Exact \in BOOLEAN
      /\ SoundPaths(paths, Exact) /\ stack # <<>> /\ h.op = "else"
      /\ SoundFrame(h, Stmts(prog), Exact) /\ IsSeq(KeptBy(h))
  BY <1>1, OnTop
<1>3. /\ h.s \in Stmts(prog) /\ h.s.kind = "if"
      /\ SoundPaths(h.active, Exact) /\ SoundPaths(I, Exact)
  BY <1>2 DEF SoundFrame
<1>4. IsExpr(h.s.cond) /\ h.s.else \in Stmts(prog) BY <1>3, ProgramsAssumption DEF Sound, IsStmt
<1>5. SoundPaths(E, Exact) BY <1>2, <1>3, <1>4, Branches DEF Parted
<1>6. KeptBy(h) = E \o I BY <1>2 DEF KeptBy
<1>7. /\ f.op = "step" /\ f.s = h.s.else
      /\ g.op = "join" /\ g.then = paths /\ g.inactive = I
  BY DEF StepFrame
<1> HIDE DEF f, g, E, I
<1>8. KeptBy(g) = paths \o I BY <1>7 DEF KeptBy
<1>9. Pushes(<<f, g>>, paths \o I, Stmts(prog), Exact)
  <2>1. KeptBy(f) = <<>> BY <1>7 DEF KeptBy
  <2>2. SoundFrame(f, Stmts(prog), Exact) BY <1>4, <1>7 DEF SoundFrame
  <2>3. Pushes(<<f>>, <<>>, Stmts(prog), Exact) BY <1>7, <2>1, <2>2, EmptyIsSeq, PushFrame
  <2>4. SoundFrame(g, Stmts(prog), Exact) BY <1>2, <1>3, <1>7 DEF SoundFrame
  <2>5. IsSeq(paths \o I) BY <1>2, <1>3, SoundConcatenation DEF SoundPaths
  <2>6. Pushes(<<g>>, paths \o I, Stmts(prog), Exact) BY <1>7, <1>8, <2>4, <2>5, PushFrame
  <2>7. Pushes(<<f>> \o <<g>>, paths \o I, Stmts(prog), Exact) BY <2>3, <2>6, PushFirst
  <2> QED BY <2>7, PairIsConcatenation
<1>10. Replaces(E \o (paths \o I), paths \o (E \o I), Exact) BY <1>2, <1>3, <1>5, Reordered
<1>11. SoundState(paths', <<f, g>> \o Tail(stack), Stmts(prog), Exact)
  BY <1>1, <1>2, <1>5, <1>6, <1>9, <1>10, PushStep
<1> QED BY <1>1, <1>11, SoundNext DEF Continue

LEMMA JoinSound == Sound /\ StepJoin => Sound'
<1> SUFFICES ASSUME Sound, StepJoin PROVE Sound' OBVIOUS
<1> DEFINE h == Head(stack)
           T == h.then
           I == h.inactive
<1>1. At("join") /\ prog' = prog /\ Continue(<<>>) /\ paths' = T \o paths \o I
  BY DEF StepJoin, Quiet
<1>2. /\ SoundState(paths, stack, Stmts(prog), Exact) /\ Exact \in BOOLEAN
      /\ SoundPaths(paths, Exact) /\ stack # <<>> /\ h.op = "join"
      /\ SoundFrame(h, Stmts(prog), Exact) /\ IsSeq(KeptBy(h))
  BY <1>1, OnTop
<1>3. SoundPaths(T, Exact) /\ SoundPaths(I, Exact) BY <1>2 DEF SoundFrame
<1>4. KeptBy(h) = T \o I BY <1>2 DEF KeptBy
<1> HIDE DEF T, I
<1>5. Replaces(paths' \o <<>>, paths \o (T \o I), Exact) BY <1>1, <1>2, <1>3, Reordered
<1>6. SoundPaths(paths', Exact) BY <1>1, <1>2, <1>3, SoundConcatenation
<1>7. Pushes(<<>>, <<>>, Stmts(prog), Exact) BY PushNothing
<1>8. SoundState(paths', <<>> \o Tail(stack), Stmts(prog), Exact)
  BY <1>2, <1>4, <1>5, <1>6, <1>7, PushStep
<1> QED BY <1>1, <1>8, SoundNext DEF Continue

-----------------------------------------------------------------------------
(* stepSimpleSwitch. *)

LEMMA SoundBlockLabels ==
  ASSUME NEW item, NEW S, item.labels \in Seq(S)
  PROVE  IsSeq(BlockLabels(item))
<1> DEFINE cases == {k \in DOMAIN item.labels : \A j \in 1 .. k : item.labels[j] # {}}
           n == Len(item.labels)
<1>1. n \in Nat /\ cases \subseteq 1 .. n OBVIOUS
<1>2. IsFiniteSet(1 .. n) /\ Cardinality(1 .. n) = n BY <1>1, FS_Interval
<1>3. IsFiniteSet(cases) /\ Cardinality(cases) <= n /\ Cardinality(cases) \in Nat
  BY <1>1, <1>2, FS_Subset, FS_CardinalityType
<1> HIDE DEF cases
<1>4. SubSeq(item.labels, 1, Cardinality(cases)) \in Seq(S) BY <1>3
<1>5. IsSeq(SubSeq(item.labels, 1, Cardinality(cases))) BY <1>4, SeqIs
<1>6. IsSeq(<<{}>>) BY SingletonIsSeq
<1> QED BY <1>5, <1>6 DEF BlockLabels, cases

(* The blocks of a switch are made of statements of the body. *)
LEMMA SoundCaseBlocks ==
  ASSUME NEW ss, NEW open, NEW sw, IsStmt(sw, ss, open), sw.kind = "switch"
  PROVE  /\ IsSeq(CaseBlocks(sw))
         /\ \A k \in DOMAIN CaseBlocks(sw) :
              /\ IsSeq(CaseBlocks(sw)[k].body)
              /\ \A n \in DOMAIN CaseBlocks(sw)[k].body : CaseBlocks(sw)[k].body[n] \in ss
<1> DEFINE N == Len(sw.items)
           ls(j) == BlockLabels(sw.items[j])
           body(j) == [n \in 1 .. N - j + 1 |-> sw.items[j + n - 1].s]
           bs(j) == [k \in DOMAIN ls(j) |-> [label |-> ls(j)[k], body |-> body(j)]]
           B == [j \in DOMAIN sw.items |-> bs(j)]
<1>1. /\ DOMAIN sw.items = 1 .. N /\ N \in Nat
      /\ \A j \in 1 .. N : sw.items[j].s \in ss /\ \E S : sw.items[j].labels \in Seq(S)
  <2> DEFINE L == {{}} \cup {{n} : n \in Val}
             R == [labels : Seq(L), s : ss]
             items == sw.items
  <2>1. items \in Seq(R) BY DEF IsStmt
  <2>2. \A r \in R : r.s \in ss /\ r.labels \in Seq(L) OBVIOUS
  <2> HIDE DEF L, R, items
  <2>3. DOMAIN items = 1 .. Len(items) /\ Len(items) \in Nat /\ \A j \in 1 .. Len(items) : items[j] \in R
    BY <2>1
  <2>4. \A j \in 1 .. Len(items) : items[j].s \in ss /\ items[j].labels \in Seq(L) BY <2>2, <2>3
  <2> QED BY <2>3, <2>4 DEF items
<1>2. CaseBlocks(sw) = FlattenSeq(B) BY DEF CaseBlocks
<1>3. ASSUME NEW j \in 1 .. N
      PROVE  IsSeq(body(j)) /\ \A n \in DOMAIN body(j) : body(j)[n] \in ss
  <2>1. N - j + 1 \in Nat BY <1>1
  <2>2. DOMAIN body(j) = 1 .. N - j + 1 OBVIOUS
  <2>3. \A n \in 1 .. N - j + 1 : j + n - 1 \in 1 .. N /\ body(j)[n] = sw.items[j + n - 1].s BY <1>1
  <2>4. \A n \in 1 .. N - j + 1 : body(j)[n] \in ss BY <1>1, <2>3
  <2> DEFINE b == body(j)
  <2>5. b = [n \in 1 .. N - j + 1 |-> b[n]] OBVIOUS
  <2> HIDE DEF b
  <2>6. IsSeq(b) BY <2>1, <2>5, FunctionIsSeq
  <2> QED BY <2>2, <2>4, <2>6 DEF b
<1>4. ASSUME NEW j \in 1 .. N PROVE IsSeq(ls(j)) BY <1>1, SoundBlockLabels
<1>5. ASSUME NEW j \in 1 .. N
      PROVE  IsSeq(bs(j)) /\ \A k \in DOMAIN bs(j) : bs(j)[k].body = body(j)
  <2> DEFINE b == bs(j)
             l == ls(j)
  <2>1. b = [k \in DOMAIN l |-> b[k]] /\ \A k \in DOMAIN b : b[k].body = body(j) OBVIOUS
  <2>2. Len(l) \in Nat /\ DOMAIN l = 1 .. Len(l) BY <1>4 DEF IsSeq
  <2> HIDE DEF b, l, body
  <2>3. IsSeq(b) BY <2>1, <2>2, FunctionIsSeq
  <2> QED BY <2>1, <2>3 DEF b
<1>6. /\ B = [j \in 1 .. N |-> B[j]] /\ DOMAIN B = 1 .. N
      /\ \A j \in 1 .. N : B[j] = bs(j)
  BY <1>1
<1> HIDE DEF B, bs, body, ls
<1>7. IsSeq(B) BY <1>1, <1>6, FunctionIsSeq
<1>8. \A j \in DOMAIN B : IsSeq(B[j]) BY <1>5, <1>6
<1>9. /\ IsSeq(FlattenSeq(B))
      /\ \A k \in DOMAIN FlattenSeq(B) :
           \E j \in DOMAIN B : \E l \in DOMAIN B[j] : FlattenSeq(B)[k] = B[j][l]
  BY <1>7, <1>8, FlattenMembers
<1>10. ASSUME NEW k \in DOMAIN FlattenSeq(B)
       PROVE  \E j \in 1 .. N : FlattenSeq(B)[k].body = body(j)
  <2>1. PICK j \in DOMAIN B : \E l \in DOMAIN B[j] : FlattenSeq(B)[k] = B[j][l] BY <1>9
  <2>2. PICK l \in DOMAIN B[j] : FlattenSeq(B)[k] = B[j][l] BY <2>1
  <2>3. B[j][l].body = body(j) BY <1>5, <1>6
  <2> QED BY <1>6, <2>2, <2>3
<1> QED BY <1>2, <1>3, <1>9, <1>10

(* The frames of a switch statement, but those of a taken case. *)
LEMMA CaseFrameKeeps ==
  ASSUME NEW exact \in BOOLEAN, NEW ss, NEW f, SoundFrame(f, ss, exact),
         f.op \in {"case", "next", "default"}, NEW op \in {"case", "default"},
         NEW k \in Nat \ {0}, NEW done, SoundPaths(done, exact)
  PROVE  Pushes(<<CaseFrame(op, f.sw, k, f.val, f.rest, done)>>, done \o Rest(f), ss, exact)
<1> DEFINE g == CaseFrame(op, f.sw, k, f.val, f.rest, done)
<1>1. /\ g.op = op /\ g.sw = f.sw /\ g.k = k /\ g.val = f.val /\ g.rest = f.rest
      /\ g.done = done
  BY DEF CaseFrame
<1> HIDE DEF g
<1>2. /\ f.sw \in ss /\ f.sw.kind = "switch"
      /\ SoundRest(f.rest, exact) /\ SoundValue(f.val, exact)
  BY DEF SoundFrame
<1>3. SoundFrame(g, ss, exact) BY <1>1, <1>2 DEF SoundFrame
<1>4. KeptBy(g) = g.done \o Rest(g) BY <1>1 DEF KeptBy
<1>5. Rest(g) = Rest(f) BY <1>1 DEF Rest
<1>6. IsSeq(done \o Rest(f)) BY <1>2, SoundEachPath, SoundConcatenation DEF Rest, SoundPaths
<1>7. g.op # "partition" BY <1>1
<1>8. Pushes(<<g>>, done \o Rest(f), ss, exact) BY <1>1, <1>3, <1>4, <1>5, <1>6, <1>7, PushFrame
<1> QED BY <1>8 DEF g

(* The top frame of a switch statement. *)
LEMMA CaseOnTop ==
  ASSUME Sound, NEW op \in {"case", "next", "default"}, At(op)
  PROVE  LET h == Head(stack)
         IN  /\ h.sw \in Stmts(prog) /\ h.sw.kind = "switch" /\ h.k \in Nat \ {0}
             /\ SoundPaths(h.done, Exact) /\ SoundPaths(Rest(h), Exact)
             /\ SoundRest(h.rest, Exact) /\ SoundValue(h.val, Exact)
             /\ IsSeq(CaseBlocks(h.sw))
             /\ \A k \in DOMAIN CaseBlocks(h.sw) :
                  /\ IsSeq(CaseBlocks(h.sw)[k].body)
                  /\ \A n \in DOMAIN CaseBlocks(h.sw)[k].body :
                       CaseBlocks(h.sw)[k].body[n] \in Stmts(prog)
<1> DEFINE h == Head(stack)
<1>1. SoundFrame(h, Stmts(prog), Exact) /\ h.op = op BY OnTop
<1> HIDE DEF h
<1>2. /\ h.sw \in Stmts(prog) /\ h.sw.kind = "switch" /\ h.k \in Nat \ {0}
      /\ SoundPaths(h.done, Exact) /\ SoundRest(h.rest, Exact) /\ SoundValue(h.val, Exact)
  BY <1>1 DEF SoundFrame
<1>3. SoundPaths(Rest(h), Exact) BY <1>2, SoundEachPath DEF Rest
<1>4. IsStmt(h.sw, Stmts(prog), Uninitialized(prog)) BY <1>2, ProgramsAssumption DEF Sound
<1>5. /\ IsSeq(CaseBlocks(h.sw))
      /\ \A k \in DOMAIN CaseBlocks(h.sw) :
           /\ IsSeq(CaseBlocks(h.sw)[k].body)
           /\ \A n \in DOMAIN CaseBlocks(h.sw)[k].body :
                CaseBlocks(h.sw)[k].body[n] \in Stmts(prog)
  BY <1>2, <1>4, SoundCaseBlocks
<1> QED BY <1>2, <1>3, <1>5 DEF h

LEMMA CaseSound == Sound /\ StepCase => Sound'
<1> SUFFICES ASSUME Sound, StepCase PROVE Sound' OBVIOUS
<1> DEFINE h == Head(stack)
           c == CaseCond(h)
           body == CaseBlocks(h.sw)[h.k].body
           ks == h.done \o Rest(h)
           g == [op |-> "next", sw |-> h.sw, k |-> h.k, val |-> h.val, rest |-> h.rest,
                 done |-> h.done, current |-> paths]
           taken == [k \in DOMAIN paths |-> Assume(paths[k], c)]
           d == Input \ c
           not == [k \in DOMAIN paths |-> Assume(paths[k], d)]
<1>1. /\ At("case") /\ prog' = prog /\ Continue(StepFrames(body) \o <<g>>) /\ paths' = taken
      /\ h.k <= Len(CaseBlocks(h.sw))
  BY DEF StepCase, Quiet, Each
<1>2. /\ SoundState(paths, stack, Stmts(prog), Exact) /\ Exact \in BOOLEAN
      /\ SoundPaths(paths, Exact) /\ stack # <<>> /\ h.op = "case"
      /\ SoundFrame(h, Stmts(prog), Exact) /\ IsSeq(KeptBy(h))
  BY <1>1, OnTop
<1>3. /\ h.sw \in Stmts(prog) /\ h.sw.kind = "switch" /\ h.k \in Nat \ {0}
      /\ SoundPaths(h.done, Exact) /\ SoundPaths(Rest(h), Exact)
      /\ SoundRest(h.rest, Exact) /\ SoundValue(h.val, Exact)
      /\ IsSeq(CaseBlocks(h.sw))
  BY <1>1, CaseOnTop
<1>4. IsSeq(body) /\ \A n \in DOMAIN body : body[n] \in Stmts(prog)
  <2>1. h.k \in DOMAIN CaseBlocks(h.sw) BY <1>1, <1>3 DEF IsSeq
  <2> QED BY <1>1, <2>1, CaseOnTop
<1>5. /\ c \in SUBSET Input /\ d \in SUBSET Input
      /\ Exact => Independent(c) /\ Independent(d)
  BY <1>2, <1>3, SoundCaseCond
<1>6. CaseCond(g) = c /\ d = Input \ c BY DEF CaseCond
<1>7. /\ g.op = "next" /\ g.sw = h.sw /\ g.k = h.k /\ g.val = h.val /\ g.rest = h.rest
      /\ g.done = h.done /\ g.current = paths
  OBVIOUS
<1>8. KeptBy(h) = ks BY <1>2 DEF KeptBy
<1> HIDE DEF h, c, d, g, body
<1>9. /\ SoundPaths(taken, Exact)
      /\ \A i \in Input : /\ Holder(taken, i) <=> Holder(paths, i) /\ i \in c
                          /\ Alone(paths, i) => Alone(taken, i)
  BY <1>2, <1>5, AssumeEach
<1>10. /\ SoundPaths(not, Exact)
       /\ \A i \in Input : /\ Holder(not, i) <=> Holder(paths, i) /\ i \in d
                           /\ Alone(paths, i) => Alone(not, i)
  BY <1>2, <1>5, AssumeEach
<1>11. KeptBy(g) = ks \o not
  <2>1. Rest(g) = Rest(h) BY <1>7 DEF Rest
  <2>2. KeptBy(g) = g.done \o Rest(g)
                      \o [k \in DOMAIN g.current |-> Assume(g.current[k], Input \ CaseCond(g))]
    BY <1>7 DEF KeptBy, Each
  <2> QED BY <1>6, <1>7, <2>1, <2>2
<1>12. SoundPaths(ks, Exact) BY <1>3, SoundConcatenation
<1> HIDE DEF taken, not, ks
<1>13. SoundPaths(ks \o not, Exact) BY <1>10, <1>12, SoundConcatenation
<1>14. Pushes(StepFrames(body) \o <<g>>, ks \o not, Stmts(prog), Exact)
  <2>1. SoundFrame(g, Stmts(prog), Exact) BY <1>2, <1>3, <1>7 DEF SoundFrame
  <2>2. Pushes(<<g>>, ks \o not, Stmts(prog), Exact)
    BY <1>7, <1>11, <1>13, <2>1, PushFrame DEF SoundPaths
  <2>3. Pushes(StepFrames(body), <<>>, Stmts(prog), Exact) BY <1>4, PushSteps
  <2> QED BY <2>2, <2>3, PushFirst
<1>15. Replaces(taken \o (ks \o not), paths \o ks, Exact)
  <2>1. IsSeq(taken) /\ IsSeq(not) /\ IsSeq(ks) /\ IsSeq(ks \o not) /\ IsSeq(paths)
    BY <1>2, <1>9, <1>10, <1>12, <1>13 DEF SoundPaths
  <2>2. SoundPaths(taken \o (ks \o not), Exact) BY <1>9, <1>13, SoundConcatenation
  <2>3. ASSUME NEW i \in Input
        PROVE  /\ Holder(taken \o (ks \o not), i) <=> Holder(paths \o ks, i)
               /\ Alone(paths \o ks, i) => Alone(taken \o (ks \o not), i)
    <3>1. /\ Holder(ks \o not, i) <=> Holder(ks, i) \/ Holder(not, i)
          /\ Alone(ks \o not, i) <=> Alone(ks, i) /\ Alone(not, i) /\ ~(Holder(ks, i) /\ Holder(not, i))
      BY <2>1, HeldByConcatenation
    <3>2. /\ Holder(taken \o (ks \o not), i) <=> Holder(taken, i) \/ Holder(ks \o not, i)
          /\ Alone(taken \o (ks \o not), i) <=>
               Alone(taken, i) /\ Alone(ks \o not, i) /\ ~(Holder(taken, i) /\ Holder(ks \o not, i))
      BY <2>1, HeldByConcatenation
    <3>3. /\ Holder(paths \o ks, i) <=> Holder(paths, i) \/ Holder(ks, i)
          /\ Alone(paths \o ks, i) <=> Alone(paths, i) /\ Alone(ks, i) /\ ~(Holder(paths, i) /\ Holder(ks, i))
      BY <2>1, HeldByConcatenation
    <3> QED BY <1>6, <1>9, <1>10, <3>1, <3>2, <3>3
  <2> QED BY <2>2, <2>3 DEF Replaces
<1>16. SoundState(paths', (StepFrames(body) \o <<g>>) \o Tail(stack), Stmts(prog), Exact)
  BY <1>1, <1>2, <1>8, <1>9, <1>14, <1>15, PushStep DEF h
<1> QED BY <1>1, <1>16, SoundNext DEF Continue

(* The rearrangements of the four lists at the end of a block. *)
LEMMA Shuffled ==
  ASSUME NEW exact, NEW a, NEW b, NEW c, NEW d,
         SoundPaths(a, exact), SoundPaths(b, exact), SoundPaths(c, exact), SoundPaths(d, exact)
  PROVE  /\ Replaces(d \o ((b \o a) \o c), a \o ((b \o c) \o d), exact)
         /\ Replaces((a \o d) \o (b \o c), a \o ((b \o c) \o d), exact)
<1>1. IsSeq(a) /\ IsSeq(b) /\ IsSeq(c) /\ IsSeq(d) BY DEF SoundPaths
<1>2. /\ SoundPaths(b \o a, exact) /\ IsSeq(b \o a)
      /\ SoundPaths(b \o c, exact) /\ IsSeq(b \o c)
      /\ SoundPaths(a \o d, exact) /\ IsSeq(a \o d)
  BY SoundConcatenation DEF SoundPaths
<1>3. /\ SoundPaths((b \o a) \o c, exact) /\ IsSeq((b \o a) \o c)
      /\ SoundPaths((b \o c) \o d, exact) /\ IsSeq((b \o c) \o d)
  BY <1>2, SoundConcatenation DEF SoundPaths
<1>4. /\ SoundPaths(d \o ((b \o a) \o c), exact)
      /\ SoundPaths((a \o d) \o (b \o c), exact)
  BY <1>2, <1>3, SoundConcatenation
<1>5. ASSUME NEW i \in Input
      PROVE  /\ Holder(d \o ((b \o a) \o c), i) <=> Holder(a \o ((b \o c) \o d), i)
             /\ Alone(d \o ((b \o a) \o c), i) <=> Alone(a \o ((b \o c) \o d), i)
             /\ Holder((a \o d) \o (b \o c), i) <=> Holder(a \o ((b \o c) \o d), i)
             /\ Alone((a \o d) \o (b \o c), i) <=> Alone(a \o ((b \o c) \o d), i)
  <2>1. /\ Holder(b \o a, i) <=> Holder(b, i) \/ Holder(a, i)
        /\ Alone(b \o a, i) <=> Alone(b, i) /\ Alone(a, i) /\ ~(Holder(b, i) /\ Holder(a, i))
    BY <1>1, HeldByConcatenation
  <2>2. /\ Holder(b \o c, i) <=> Holder(b, i) \/ Holder(c, i)
        /\ Alone(b \o c, i) <=> Alone(b, i) /\ Alone(c, i) /\ ~(Holder(b, i) /\ Holder(c, i))
    BY <1>1, HeldByConcatenation
  <2>3. /\ Holder(a \o d, i) <=> Holder(a, i) \/ Holder(d, i)
        /\ Alone(a \o d, i) <=> Alone(a, i) /\ Alone(d, i) /\ ~(Holder(a, i) /\ Holder(d, i))
    BY <1>1, HeldByConcatenation
  <2>4. /\ Holder((b \o a) \o c, i) <=> Holder(b \o a, i) \/ Holder(c, i)
        /\ Alone((b \o a) \o c, i) <=>
             Alone(b \o a, i) /\ Alone(c, i) /\ ~(Holder(b \o a, i) /\ Holder(c, i))
    BY <1>1, <1>2, HeldByConcatenation
  <2>5. /\ Holder((b \o c) \o d, i) <=> Holder(b \o c, i) \/ Holder(d, i)
        /\ Alone((b \o c) \o d, i) <=>
             Alone(b \o c, i) /\ Alone(d, i) /\ ~(Holder(b \o c, i) /\ Holder(d, i))
    BY <1>1, <1>2, HeldByConcatenation
  <2>6. /\ Holder(d \o ((b \o a) \o c), i) <=> Holder(d, i) \/ Holder((b \o a) \o c, i)
        /\ Alone(d \o ((b \o a) \o c), i) <=>
             Alone(d, i) /\ Alone((b \o a) \o c, i) /\ ~(Holder(d, i) /\ Holder((b \o a) \o c, i))
    BY <1>1, <1>3, HeldByConcatenation
  <2>7. /\ Holder((a \o d) \o (b \o c), i) <=> Holder(a \o d, i) \/ Holder(b \o c, i)
        /\ Alone((a \o d) \o (b \o c), i) <=>
             Alone(a \o d, i) /\ Alone(b \o c, i) /\ ~(Holder(a \o d, i) /\ Holder(b \o c, i))
    BY <1>2, HeldByConcatenation
  <2>8. /\ Holder(a \o ((b \o c) \o d), i) <=> Holder(a, i) \/ Holder((b \o c) \o d, i)
        /\ Alone(a \o ((b \o c) \o d), i) <=>
             Alone(a, i) /\ Alone((b \o c) \o d, i) /\ ~(Holder(a, i) /\ Holder((b \o c) \o d, i))
    BY <1>1, <1>3, HeldByConcatenation
  <2> QED BY <2>1, <2>2, <2>3, <2>4, <2>5, <2>6, <2>7, <2>8
<1> QED BY <1>4, <1>5 DEF Replaces

LEMMA EndCaseSound == Sound /\ EndCase => Sound'
<1> SUFFICES ASSUME Sound, EndCase PROVE Sound' OBVIOUS
<1> DEFINE h == Head(stack)
           d == Input \ CaseCond(h)
           not == [k \in DOMAIN h.current |-> Assume(h.current[k], d)]
           g(done) == CaseFrame("case", h.sw, h.k + 1, h.val, h.rest, done)
           R == Rest(h)
<1>1. /\ At("next") /\ prog' = prog
      /\ \/ paths' = not /\ Continue(<<g(h.done \o paths)>>)
         \/ paths' = paths \o not /\ Continue(<<g(h.done)>>)
  BY DEF EndCase, Quiet, Each
<1>2. /\ SoundState(paths, stack, Stmts(prog), Exact) /\ Exact \in BOOLEAN
      /\ SoundPaths(paths, Exact) /\ stack # <<>> /\ h.op = "next"
      /\ SoundFrame(h, Stmts(prog), Exact) /\ IsSeq(KeptBy(h))
  BY <1>1, OnTop
<1>3. /\ h.k + 1 \in Nat \ {0}
      /\ SoundPaths(h.done, Exact) /\ SoundPaths(R, Exact) /\ SoundValue(h.val, Exact)
  BY <1>1, CaseOnTop
<1>4. SoundPaths(h.current, Exact) BY <1>2 DEF SoundFrame
<1>5. d \in SUBSET Input /\ (Exact => Independent(d)) BY <1>2, <1>3, SoundCaseCond
<1>6. KeptBy(h) = h.done \o R \o not BY <1>2 DEF KeptBy, Each
<1>7. \A done : SoundPaths(done, Exact) =>
        Pushes(<<g(done)>>, done \o R, Stmts(prog), Exact)
  BY <1>2, <1>3, CaseFrameKeeps
<1> DEFINE D == h.done
<1> HIDE DEF h, d, g, R
<1>8. SoundPaths(not, Exact)
  <2> DEFINE C == h.current
  <2>1. not = [k \in DOMAIN C |-> Assume(C[k], d)] OBVIOUS
  <2>2. SoundPaths(C, Exact) BY <1>4
  <2>3. Exact \in BOOLEAN BY <1>2
  <2>4. d \in SUBSET Input /\ (Exact => Independent(d)) BY <1>5
  <2> HIDE DEF not, C
  <2> QED BY <2>1, <2>2, <2>3, <2>4, AssumeEach
<1> HIDE DEF not, D
<1>9. /\ SoundPaths(D, Exact) /\ KeptBy(h) = D \o R \o not
      /\ SoundPaths(D \o paths, Exact) /\ SoundPaths(paths \o not, Exact)
  BY <1>2, <1>3, <1>6, <1>8, SoundConcatenation DEF D
<1>10. CASE paths' = not /\ Continue(<<g(D \o paths)>>)
  <2>1. Pushes(<<g(D \o paths)>>, (D \o paths) \o R, Stmts(prog), Exact) BY <1>7, <1>9
  <2>2. Replaces(not \o ((D \o paths) \o R), paths \o ((D \o R) \o not), Exact)
    BY <1>2, <1>3, <1>8, <1>9, Shuffled
  <2>3. SoundState(paths', <<g(D \o paths)>> \o Tail(stack), Stmts(prog), Exact)
    BY <1>2, <1>8, <1>9, <1>10, <2>1, <2>2, PushStep DEF h
  <2> QED BY <1>1, <1>10, <2>3, SoundNext DEF Continue
<1>11. CASE paths' = paths \o not /\ Continue(<<g(D)>>)
  <2>1. Pushes(<<g(D)>>, D \o R, Stmts(prog), Exact) BY <1>7, <1>9
  <2>2. Replaces((paths \o not) \o (D \o R), paths \o ((D \o R) \o not), Exact)
    BY <1>2, <1>3, <1>8, <1>9, Shuffled
  <2>3. SoundState(paths', <<g(D)>> \o Tail(stack), Stmts(prog), Exact)
    BY <1>2, <1>9, <1>11, <2>1, <2>2, PushStep DEF h
  <2> QED BY <1>1, <1>11, <2>3, SoundNext DEF Continue
<1> QED BY <1>1, <1>10, <1>11 DEF D

LEMMA DefaultSound == Sound /\ StepDefault => Sound'
<1> SUFFICES ASSUME Sound, StepDefault PROVE Sound' OBVIOUS
<1> DEFINE h == Head(stack)
           body == CaseBlocks(h.sw)[h.k].body
           g == CaseFrame("default", h.sw, h.k, h.val, h.rest, h.done)
           ks == h.done \o Rest(h)
<1>1. /\ At("case") /\ prog' = prog /\ Continue(StepFrames(body) \o <<g>>) /\ paths' = paths
      /\ h.k <= Len(CaseBlocks(h.sw))
  BY DEF StepDefault, Quiet
<1>2. /\ SoundState(paths, stack, Stmts(prog), Exact) /\ Exact \in BOOLEAN
      /\ SoundPaths(paths, Exact) /\ stack # <<>> /\ h.op = "case"
      /\ SoundFrame(h, Stmts(prog), Exact) /\ IsSeq(KeptBy(h))
  BY <1>1, OnTop
<1>3. /\ h.k \in Nat \ {0} /\ IsSeq(CaseBlocks(h.sw))
      /\ SoundPaths(h.done, Exact) /\ SoundPaths(Rest(h), Exact)
  BY <1>1, CaseOnTop
<1>4. IsSeq(body) /\ \A n \in DOMAIN body : body[n] \in Stmts(prog)
  <2>1. h.k \in DOMAIN CaseBlocks(h.sw) BY <1>1, <1>3 DEF IsSeq
  <2> QED BY <1>1, <2>1, CaseOnTop
<1>5. KeptBy(h) = ks BY <1>2 DEF KeptBy
<1>6. Pushes(<<g>>, ks, Stmts(prog), Exact) BY <1>2, <1>3, CaseFrameKeeps
<1>7. SoundPaths(ks, Exact) BY <1>3, SoundConcatenation
<1> HIDE DEF h, body, g, ks
<1>8. Pushes(StepFrames(body) \o <<g>>, ks, Stmts(prog), Exact) BY <1>4, <1>6, PushSteps, PushFirst
<1>9. Replaces(paths' \o ks, paths \o ks, Exact)
  BY <1>1, <1>2, <1>7, SoundConcatenation, SameReplaces
<1>10. SoundState(paths', (StepFrames(body) \o <<g>>) \o Tail(stack), Stmts(prog), Exact)
  BY <1>1, <1>2, <1>5, <1>8, <1>9, PushStep DEF h
<1> QED BY <1>1, <1>10, SoundNext DEF Continue

LEMMA EndDefaultSound == Sound /\ EndDefault => Sound'
<1> SUFFICES ASSUME Sound, EndDefault PROVE Sound' OBVIOUS
<1> DEFINE h == Head(stack)
           k == IF AllInactive(paths) THEN Len(CaseBlocks(h.sw)) + 1 ELSE h.k + 1
           g == CaseFrame("case", h.sw, k, h.val, h.rest, h.done)
           ks == h.done \o Rest(h)
<1>1. At("default") /\ prog' = prog /\ Continue(<<g>>) /\ paths' = paths BY DEF EndDefault, Quiet
<1>2. /\ SoundState(paths, stack, Stmts(prog), Exact) /\ Exact \in BOOLEAN
      /\ SoundPaths(paths, Exact) /\ stack # <<>> /\ h.op = "default"
      /\ SoundFrame(h, Stmts(prog), Exact) /\ IsSeq(KeptBy(h))
  BY <1>1, OnTop
<1>3. /\ h.k \in Nat \ {0} /\ IsSeq(CaseBlocks(h.sw))
      /\ SoundPaths(h.done, Exact) /\ SoundPaths(Rest(h), Exact)
  BY <1>1, CaseOnTop
<1>4. k \in Nat \ {0} BY <1>3 DEF IsSeq
<1>5. KeptBy(h) = ks BY <1>2 DEF KeptBy
<1> HIDE DEF k
<1>6. Pushes(<<g>>, ks, Stmts(prog), Exact) BY <1>2, <1>3, <1>4, CaseFrameKeeps
<1>7. SoundPaths(ks, Exact) BY <1>3, SoundConcatenation
<1> HIDE DEF h, g, ks
<1>8. Replaces(paths' \o ks, paths \o ks, Exact)
  BY <1>1, <1>2, <1>7, SoundConcatenation, SameReplaces
<1>9. SoundState(paths', <<g>> \o Tail(stack), Stmts(prog), Exact)
  BY <1>1, <1>2, <1>5, <1>6, <1>8, PushStep DEF h
<1> QED BY <1>1, <1>9, SoundNext DEF Continue

LEMMA EndCasesSound == Sound /\ EndCases => Sound'
<1> SUFFICES ASSUME Sound, EndCases PROVE Sound' OBVIOUS
<1> DEFINE h == Head(stack)
           D == h.done
           R == Rest(h)
           g == Partition(h, D \o paths)
<1>1. At("case") /\ prog' = prog /\ Continue(<<g>>) /\ paths' = <<>> BY DEF EndCases, Quiet
<1>2. /\ SoundState(paths, stack, Stmts(prog), Exact) /\ Exact \in BOOLEAN
      /\ SoundPaths(paths, Exact) /\ stack # <<>> /\ h.op = "case"
      /\ SoundFrame(h, Stmts(prog), Exact) /\ IsSeq(KeptBy(h))
  BY <1>1, OnTop
<1>3. /\ h.sw \in Stmts(prog) /\ h.sw.kind = "switch" /\ SoundRest(h.rest, Exact)
      /\ SoundPaths(D, Exact) /\ SoundPaths(R, Exact)
  BY <1>1, CaseOnTop
<1>4. KeptBy(h) = D \o R BY <1>2 DEF KeptBy
<1>5. g.op = "partition" /\ g.sw = h.sw /\ g.rest = h.rest /\ g.done = D \o paths BY DEF Partition
<1>6. Rest(g) = R BY <1>5 DEF Rest
<1> HIDE DEF h, g, D, R
<1>7. KeptBy(g) = (D \o paths) \o R BY <1>5, <1>6 DEF KeptBy
<1>8. SoundPaths(D \o paths, Exact) /\ SoundPaths((D \o paths) \o R, Exact)
  BY <1>2, <1>3, SoundConcatenation
<1>9. SoundFrame(g, Stmts(prog), Exact) BY <1>3, <1>5, <1>8 DEF SoundFrame
<1>10. /\ SoundStack(<<g>>, Stmts(prog), Exact) /\ PartitionOnTop(paths', <<g>>)
       /\ Keeps(<<g>>, (D \o paths) \o R)
  <2>1. IsSeq(<<g>>) /\ DOMAIN <<g>> = {1} /\ <<g>>[1] = g BY SingletonIsSeq
  <2>2. SoundStack(<<g>>, Stmts(prog), Exact) BY <1>9, <2>1 DEF SoundStack
  <2>3. PartitionOnTop(paths', <<g>>) BY <1>1, <2>1 DEF PartitionOnTop
  <2> QED BY <1>7, <1>8, <2>2, <2>3, FrameKeeps DEF SoundPaths
<1>11. Replaces(<<>> \o ((D \o paths) \o R), paths \o (D \o R), Exact)
  <2>1. <<>> \o ((D \o paths) \o R) = ((D \o paths) \o R) \o <<>>
    BY <1>8, ConcatenationWithEmpty DEF SoundPaths
  <2> QED BY <1>2, <1>3, <2>1, Reordered
<1>12. SoundState(paths', <<g>> \o Tail(stack), Stmts(prog), Exact)
  BY <1>1, <1>2, <1>4, <1>10, <1>11, EmptyList, StackStep DEF h
<1> QED BY <1>1, <1>12, SoundNext DEF Continue

(* splitStateBySwitchCond: each path waits in a partition of its own. *)
LEMMA SwitchSound == Sound /\ StepSwitch => Sound'
<1> SUFFICES ASSUME Sound, StepSwitch PROVE Sound' OBVIOUS
<1> DEFINE id == Stmt.id
           e == Stmt.cond
           ps == [k \in DOMAIN paths |->
                   IF IsActive(paths[k]) THEN [paths[k] EXCEPT !.ctx = id] ELSE paths[k]]
           rest == [k \in DOMAIN ps |-> Eval(ps[k], e)[1]]
           f == [op |-> "partition", sw |-> Stmt, done |-> <<>>, rest |-> rest]
           g == [op |-> "leave", prev |-> ctx]
           R == Rest(f)
<1>1. /\ AtStmt("switch") /\ prog' = prog /\ Continue(<<f, g>>) /\ paths' = <<>>
      /\ paths # <<>> /\ \A k \in DOMAIN paths : Len(Eval(paths[k], e)) = 1
  BY DEF StepSwitch, Quiet, SwitchAborts, SetStmtCtx, Each
<1>2. /\ SoundState(paths, stack, Stmts(prog), Exact) /\ Exact \in BOOLEAN
      /\ SoundPaths(paths, Exact) /\ stack # <<>> /\ KeptBy(Head(stack)) = <<>>
      /\ Stmt \in Stmts(prog) /\ Stmt.kind = "switch" /\ IsExpr(e)
  BY <1>1, StmtOnTop DEF IsStmt
<1>3. e.kind # "cond"
  <2> HIDE DEF e, f, g, ps, R, rest, id
  <2>1. 1 \in DOMAIN paths BY <1>1, <1>2, HeadAndTail DEF SoundPaths
  <2>2. SoundPath(paths[1], Exact) BY <1>2, <2>1 DEF SoundPaths
  <2>3. Len(Eval(paths[1], e)) = 1 BY <1>1, <2>1
  <2>4. Len(Eval(paths[1], e)) = IF e.kind = "cond" THEN 2 ELSE 1 BY <1>2, <2>2, EvalDivides
  <2> QED BY <2>3, <2>4
<1>4. /\ DOMAIN ps = DOMAIN paths
      /\ \A k \in DOMAIN paths : SoundPath(paths[k], Exact) =>
           SoundPath(ps[k], Exact) /\ \A i : Holds(ps[k], i) <=> Holds(paths[k], i)
  BY <1>2, SoundSetStmtCtx
<1>5. /\ f.op = "partition" /\ f.sw = Stmt /\ f.done = <<>> /\ f.rest = rest /\ g.op = "leave"
      /\ R = [k \in DOMAIN rest |-> rest[k].path]
  BY DEF Rest, Each
<1> HIDE DEF e, f, g, ps, R, id
<1>6. ASSUME NEW k \in DOMAIN paths
      PROVE  /\ SoundPath(rest[k].path, Exact) /\ SoundValue(rest[k].val, Exact)
             /\ \A i \in Input : Holds(rest[k].path, i) <=> Holds(paths[k], i)
  <2> DEFINE rs == Eval(ps[k], e)
  <2>1. /\ SoundPath(ps[k], Exact)
        /\ \A i \in Input : Holds(ps[k], i) <=> Holds(paths[k], i)
    BY <1>2, <1>4 DEF SoundPaths
  <2>2. rest[k] = rs[1] BY <1>4
  <2>3. Divides(rs, ps[k], Exact) /\ Len(rs) = 1 BY <1>2, <1>3, <2>1, EvalDivides
  <2> HIDE DEF rs, rest
  <2>4. SoundRest(rs, Exact) /\ DOMAIN rs = {1} BY <2>3 DEF Divides, SoundRest, IsSeq
  <2> QED BY <2>1, <2>2, <2>3, <2>4 DEF Divides, SoundRest
<1>7. DOMAIN rest = DOMAIN paths /\ rest = [k \in DOMAIN paths |-> rest[k]] BY <1>4
<1> HIDE DEF rest
<1>8. Len(paths) \in Nat /\ DOMAIN paths = 1 .. Len(paths) BY <1>2 DEF SoundPaths, IsSeq
<1>9. SoundRest(rest, Exact)
  <2>1. IsSeq(rest) BY <1>7, <1>8, FunctionIsSeq
  <2> QED BY <1>6, <1>7, <2>1 DEF SoundRest
<1>10. DOMAIN R = DOMAIN paths /\ \A k \in DOMAIN paths : R[k] = rest[k].path BY <1>5, <1>7
<1>11. IsSeq(R)
  <2>1. R = [k \in DOMAIN paths |-> R[k]] BY <1>5, <1>7
  <2> QED BY <1>8, <2>1, FunctionIsSeq
<1>12. Replaces(R, paths, Exact) BY <1>2, <1>6, <1>10, <1>11, ReplaceEach DEF SoundPaths
<1>13. KeptBy(f) = R
  <2>1. KeptBy(f) = f.done \o Rest(f) BY <1>5 DEF KeptBy
  <2> QED BY <1>5, <1>11, <2>1, ConcatenationWithEmpty DEF R
<1>14. SoundFrame(f, Stmts(prog), Exact) BY <1>2, <1>5, <1>9, EmptyList DEF SoundFrame
<1>15. /\ SoundStack(<<f, g>>, Stmts(prog), Exact) /\ PartitionOnTop(paths', <<f, g>>)
       /\ Keeps(<<f, g>>, R)
  <2>1. IsSeq(<<f, g>>) /\ DOMAIN <<f, g>> = {1, 2} /\ <<f, g>>[1] = f /\ <<f, g>>[2] = g
    BY DEF IsSeq
  <2>2. SoundFrame(g, Stmts(prog), Exact) BY <1>5 DEF SoundFrame
  <2>3. KeptBy(g) = <<>> BY <1>5 DEF KeptBy
  <2>4. SoundStack(<<f, g>>, Stmts(prog), Exact) BY <1>14, <2>1, <2>2 DEF SoundStack
  <2>5. PartitionOnTop(paths', <<f, g>>) BY <1>1, <1>5, <2>1 DEF PartitionOnTop
  <2>6. Keeps(<<f>>, R) /\ Keeps(<<g>>, <<>>) BY <1>11, <1>13, <2>3, EmptyIsSeq, FrameKeeps
  <2>7. Keeps(<<f>> \o <<g>>, R \o <<>>) BY <2>6, KeepsConcatenation
  <2>8. <<f>> \o <<g>> = <<f, g>> BY PairIsConcatenation
  <2>9. R \o <<>> = R BY <1>11, ConcatenationWithEmpty
  <2>10. Keeps(<<f, g>>, R) BY <2>7, <2>8, <2>9
  <2> QED BY <2>4, <2>5, <2>10
<1>16. Replaces(<<>> \o R, paths \o <<>>, Exact)
  BY <1>2, <1>11, <1>12, ConcatenationWithEmpty DEF SoundPaths
<1>17. SoundState(paths', <<f, g>> \o Tail(stack), Stmts(prog), Exact)
  BY <1>1, <1>2, <1>15, <1>16, EmptyList, EmptyIsSeq, StackStep
<1> QED BY <1>1, <1>17, SoundNext DEF Continue

LEMMA PartitionSound == Sound /\ NextPartition => Sound'
<1> SUFFICES ASSUME Sound, NextPartition PROVE Sound' OBVIOUS
<1> DEFINE h == Head(stack)
           D == h.done
           r == Head(h.rest)
           tl == Tail(h.rest)
           g == CaseFrame("case", h.sw, 1, r.val, tl, D)
           R == Rest(h)
           S == Rest(g)
<1>1. /\ At("partition") /\ prog' = prog
      /\ \/ h.rest = <<>> /\ paths' = D /\ Continue(<<>>)
         \/ h.rest # <<>> /\ paths' = <<r.path>> /\ Continue(<<g>>)
  BY DEF NextPartition, Quiet
<1>2. /\ SoundState(paths, stack, Stmts(prog), Exact) /\ Exact \in BOOLEAN
      /\ SoundPaths(paths, Exact) /\ stack # <<>> /\ h.op = "partition"
      /\ SoundFrame(h, Stmts(prog), Exact) /\ IsSeq(KeptBy(h))
  BY <1>1, OnTop
<1>3. paths = <<>>
  <2>1. 1 \in DOMAIN stack /\ h = stack[1] BY <1>2, HeadAndTail DEF SoundState, SoundStack
  <2> QED BY <1>2, <2>1 DEF SoundState, PartitionOnTop
<1>4. /\ h.sw \in Stmts(prog) /\ h.sw.kind = "switch"
      /\ SoundPaths(D, Exact) /\ SoundRest(h.rest, Exact)
  BY <1>2 DEF SoundFrame
<1>5. SoundPaths(R, Exact) BY <1>4, SoundEachPath DEF Rest
<1>6. KeptBy(h) = D \o R BY <1>2 DEF KeptBy
<1>7. CASE h.rest = <<>> /\ paths' = D /\ Continue(<<>>)
  <2>1. R = <<>> BY <1>7 DEF Rest, Each
  <2> HIDE DEF h, D, R, r, tl, g, S
  <2>2. Replaces(paths' \o <<>>, paths \o (D \o R), Exact)
    BY <1>3, <1>4, <1>7, <2>1, EmptyIsSeq, ConcatenationWithEmpty, SameReplaces DEF SoundPaths
  <2>3. SoundState(paths', <<>> \o Tail(stack), Stmts(prog), Exact)
    BY <1>2, <1>4, <1>6, <1>7, <2>2, PushNothing, PushStep DEF h
  <2> QED BY <1>1, <1>7, <2>3, SoundNext DEF Continue
<1>8. CASE h.rest # <<>> /\ paths' = <<r.path>> /\ Continue(<<g>>)
  <2> DEFINE rest == h.rest
  <2>1. /\ g.op = "case" /\ g.sw = h.sw /\ g.k = 1 /\ g.val = r.val /\ g.rest = tl /\ g.done = D
    BY DEF CaseFrame
  <2>2. /\ R = [k \in DOMAIN rest |-> rest[k].path] /\ S = [k \in DOMAIN tl |-> tl[k].path]
    BY <2>1 DEF Rest, Each
  <2>3. /\ rest = <<r>> \o tl /\ IsSeq(tl) /\ 1 \in DOMAIN rest /\ r = rest[1]
        /\ \A k \in DOMAIN tl : k + 1 \in DOMAIN rest /\ tl[k] = rest[k + 1]
    BY <1>4, <1>8, HeadAndTail DEF SoundRest
  <2>4. KeptBy(g) = D \o S BY <2>1 DEF KeptBy
  <2> HIDE DEF h, D, R, r, tl, g, S, rest
  <2>5. SoundPath(r.path, Exact) /\ SoundValue(r.val, Exact) /\ SoundRest(tl, Exact)
    BY <1>4, <2>3 DEF SoundRest, rest
  <2>6. SoundPaths(S, Exact)
    <3>1. Rest(g) = S BY DEF S
    <3> QED BY <2>1, <2>5, <3>1, SoundEachPath DEF Rest
  <2>7. R = <<r.path>> \o S
    <3> DEFINE u == <<r.path>> \o S
    <3>1. IsSeq(<<r.path>>) /\ Len(<<r.path>>) = 1 /\ DOMAIN <<r.path>> = {1} /\ <<r.path>>[1] = r.path
      BY SingletonIsSeq
    <3>2. IsSeq(<<r>>) /\ Len(<<r>>) = 1 /\ DOMAIN <<r>> = {1} /\ <<r>>[1] = r BY SingletonIsSeq
    <3>3. IsSeq(S) /\ DOMAIN S = DOMAIN tl /\ Len(S) \in Nat /\ DOMAIN S = 1 .. Len(S)
      BY <2>2, <2>6 DEF SoundPaths, IsSeq
    <3>4. Len(tl) = Len(S)
      <4>1. Len(tl) \in Nat /\ DOMAIN tl = 1 .. Len(tl) BY <2>3 DEF IsSeq
      <4>2. S = [k \in 1 .. Len(tl) |-> S[k]] BY <2>2, <4>1
      <4> QED BY <4>1, <4>2, FunctionIsSeq
    <3>5. /\ IsSeq(u) /\ DOMAIN u = 1 .. 1 + Len(S)
          /\ \A k \in DOMAIN u : \/ k = 1 /\ u[k] = r.path
                                 \/ k - 1 \in DOMAIN S /\ u[k] = S[k - 1]
      BY <3>1, <3>3, Concatenation
    <3>6. /\ IsSeq(rest) /\ DOMAIN rest = 1 .. 1 + Len(S) BY <2>3, <3>2, <3>4, Concatenation
    <3>7. \A k \in DOMAIN rest : R[k] = u[k]
      <4> SUFFICES ASSUME NEW k \in DOMAIN rest PROVE R[k] = u[k] OBVIOUS
      <4> HIDE DEF u
      <4>1. R[k] = rest[k].path BY <2>2
      <4>2. CASE k = 1 /\ u[k] = r.path BY <2>3, <4>1, <4>2
      <4>3. CASE k - 1 \in DOMAIN S /\ u[k] = S[k - 1]
        <5>1. (k - 1) + 1 = k BY <3>3, <4>3
        <5>2. tl[k - 1] = rest[k] BY <2>3, <3>3, <4>3, <5>1
        <5> QED BY <2>2, <3>3, <4>1, <4>3, <5>2
      <4> QED BY <3>5, <3>6, <4>2, <4>3
    <3> HIDE DEF u
    <3>8. R = [k \in DOMAIN rest |-> R[k]] /\ u = [k \in DOMAIN rest |-> u[k]]
      BY <2>2, <3>5, <3>6 DEF IsSeq
    <3>9. R = u BY <3>7, <3>8
    <3> QED BY <3>9 DEF u
  <2>8. SoundFrame(g, Stmts(prog), Exact) BY <1>4, <2>1, <2>5 DEF SoundFrame
  <2>9. SoundPaths(D \o S, Exact) BY <1>4, <2>6, SoundConcatenation
  <2>10. Pushes(<<g>>, D \o S, Stmts(prog), Exact)
    BY <2>1, <2>4, <2>8, <2>9, PushFrame DEF SoundPaths
  <2>11. SoundPaths(<<r.path>>, Exact) BY <2>5, OnePath
  <2>12. Replaces(<<r.path>> \o (D \o S), paths \o (D \o R), Exact)
    <3> DEFINE a == <<r.path>>
    <3> HIDE DEF a
    <3>1. <<>> \o (D \o (a \o S)) = D \o (a \o S)
      BY <1>4, <2>6, <2>11, SoundConcatenation, ConcatenationWithEmpty DEF SoundPaths, a
    <3>2. Replaces(a \o (D \o S), D \o (a \o S), Exact) BY <1>4, <2>6, <2>11, Reordered DEF a
    <3> QED BY <1>3, <2>7, <3>1, <3>2 DEF a
  <2>13. SoundState(paths', <<g>> \o Tail(stack), Stmts(prog), Exact)
    BY <1>2, <1>6, <1>8, <2>10, <2>11, <2>12, PushStep DEF h
  <2> QED BY <1>1, <1>8, <2>13, SoundNext DEF Continue
<1> QED BY <1>1, <1>7, <1>8

-----------------------------------------------------------------------------
(* What is proved. *)

LEMMA AbortSound == Sound /\ Abort => Sound'
BY DEF Sound, Abort

LEMMA StutterSound == Sound /\ UNCHANGED vars => Sound'
BY DEF Sound, vars

LEMMA StepSound == Sound /\ [Next]_vars => Sound'
<1> SUFFICES ASSUME Sound, [Next]_vars PROVE Sound' OBVIOUS
<1>1. CASE StepContinue \/ StepSwitchAborts \/ StepCtxAsserts
  BY <1>1, AbortSound DEF StepContinue, StepSwitchAborts, StepCtxAsserts
<1>2. CASE UNCHANGED vars BY <1>2, StutterSound
<1> QED
  BY <1>1, <1>2, ExprSound, AssignSound, DeclSound, ReturnSound, BreakSound, NullSound,
     CompoundSound, CleanupSound, IfSound, ElseSound, JoinSound, DoSound, LeaveSound, SwitchSound,
     PartitionSound, CaseSound, EndCaseSound, DefaultSound, EndDefaultSound, EndCasesSound DEF Next

(* The paths that the analyzer steps and keeps aside hold every input of   *)
(* the function, and where every local is initialized exactly once: what   *)
(* stepBranch, stepSimpleSwitch and the clean-up of scopes do to the       *)
(* vector of paths loses no behaviour of the function and describes none   *)
(* twice.                                                                  *)
THEOREM SpecPartitionsInputs == Spec => []InputsPartitioned
<1>1. Spec => []Sound BY InitSound, StepSound, PTL DEF Spec
<1> QED BY <1>1, SoundImplies, PTL

-----------------------------------------------------------------------------
(* The contexts that the frames hand down. *)

(* If the new frames hand down the context that the old one did, those     *)
(* below find the context they found before.                               *)
LEMMA CtxShift ==
  ASSUME NEW t, NEW fs, NEW st, TakesPlace(t, fs, st), NEW c, NEW d, NEW h,
         CtxBelow(c, st, 1, h), CtxBelow(d, fs, Len(fs), h),
         NEW k \in DOMAIN st, k # 1, NEW x, CtxBelow(c, st, k - 1, x)
  PROVE  CtxBelow(d, t, k - 2 + Len(fs), x)
<1> DEFINE n == Len(fs)
           m == k - 2 + n
<1>1. /\ n \in Nat /\ k \in Nat /\ k >= 2 /\ DOMAIN st = 1 .. Len(st) /\ Len(st) \in Nat
  BY DEF TakesPlace, IsSeq
<1>2. \A i \in 1 .. n : t[i] = fs[i] BY DEF TakesPlace
<1>3. \A i \in 2 .. k - 1 : t[i - 1 + n] = st[i]
  <2> SUFFICES ASSUME NEW i \in 2 .. k - 1 PROVE t[i - 1 + n] = st[i] OBVIOUS
  <2>1. i \in DOMAIN st /\ i # 1 BY <1>1
  <2> QED BY <2>1 DEF TakesPlace
<1>4. \A i \in n + 1 .. m : \E l \in 2 .. k - 1 : i = l - 1 + n /\ t[i] = st[l]
  <2> SUFFICES ASSUME NEW i \in n + 1 .. m
               PROVE  \E l \in 2 .. k - 1 : i = l - 1 + n /\ t[i] = st[l]
    OBVIOUS
  <2>1. i + 1 - n \in 2 .. k - 1 /\ i = (i + 1 - n) - 1 + n BY <1>1
  <2> QED BY <1>3, <2>1
<1>5. m \in Nat /\ 1 .. m = (1 .. n) \cup (n + 1 .. m) BY <1>1
<1> HIDE DEF n, m
<1>6. ASSUME \A i \in 2 .. k - 1 : ~Restores(st[i]), x = h
      PROVE  CtxBelow(d, t, m, x)
  <2>1. \A i \in n + 1 .. m : ~Restores(t[i]) BY <1>4, <1>6
  <2>2. CASE h = d /\ \A i \in 1 .. n : ~Restores(fs[i])
    BY <1>2, <1>5, <1>6, <2>1, <2>2 DEF CtxBelow
  <2>3. ASSUME NEW j \in 1 .. n, Restores(fs[j]), fs[j].prev = h,
               \A i \in j + 1 .. n : ~Restores(fs[i])
        PROVE  CtxBelow(d, t, m, x)
    <3>1. j \in 1 .. m /\ Restores(t[j]) /\ t[j].prev = x BY <1>2, <1>5, <1>6, <2>3
    <3>2. \A i \in j + 1 .. m : ~Restores(t[i])
      <4> SUFFICES ASSUME NEW i \in j + 1 .. m PROVE ~Restores(t[i]) OBVIOUS
      <4>1. i \in j + 1 .. n \/ i \in n + 1 .. m BY <1>1, <1>5 DEF n
      <4>2. i \in j + 1 .. n => i \in 1 .. n BY <1>1 DEF n
      <4> QED BY <1>2, <2>1, <2>3, <4>1, <4>2
    <3> QED BY <3>1, <3>2 DEF CtxBelow
  <2> QED BY <2>2, <2>3 DEF CtxBelow, n
<1>7. ASSUME x = c, \A i \in 1 .. k - 1 : ~Restores(st[i])
      PROVE  CtxBelow(d, t, m, x)
  <2>1. 1 \in 1 .. k - 1 /\ 1 \in 1 .. 1 /\ \A i \in 2 .. k - 1 : i \in 1 .. k - 1 BY <1>1
  <2>2. \A j \in 1 .. 1 : j = 1 OBVIOUS
  <2>3. h = c BY <1>7, <2>1, <2>2 DEF CtxBelow
  <2> QED BY <1>6, <1>7, <2>1, <2>3 DEF n, m
<1>8. ASSUME NEW j \in 1 .. k - 1, Restores(st[j]), st[j].prev = x,
             \A i \in j + 1 .. k - 1 : ~Restores(st[i])
      PROVE  CtxBelow(d, t, m, x)
  <2>1. CASE j = 1
    <3>1. \A i \in 1 .. 1 : i = 1 OBVIOUS
    <3>2. 1 \in 1 .. 1 OBVIOUS
    <3>3. h = x BY <1>8, <2>1, <3>1, <3>2 DEF CtxBelow
    <3>4. \A i \in 2 .. k - 1 : ~Restores(st[i]) BY <1>8, <2>1
    <3> QED BY <1>6, <3>3, <3>4
  <2>2. CASE j # 1
    <3> DEFINE l == j - 1 + n
    <3>1. j \in 2 .. k - 1 BY <1>1, <2>2
    <3>2. t[l] = st[j] BY <1>3, <3>1
    <3>3. l \in 1 .. m BY <1>1, <3>1 DEF m, n
    <3>4. \A i \in l + 1 .. m : ~Restores(t[i])
      <4> SUFFICES ASSUME NEW i \in l + 1 .. m PROVE ~Restores(t[i]) OBVIOUS
      <4>1. i \in n + 1 .. m BY <1>1, <3>1 DEF m, n
      <4>2. PICK y \in 2 .. k - 1 : i = y - 1 + n /\ t[i] = st[y] BY <1>4, <4>1
      <4>3. y \in j + 1 .. k - 1 BY <1>1, <3>1, <4>2 DEF m, n
      <4> QED BY <1>8, <4>2, <4>3
    <3> HIDE DEF l
    <3> QED BY <1>8, <3>2, <3>3, <3>4 DEF CtxBelow
  <2> QED BY <2>1, <2>2
<1>9. \/ x = c /\ \A i \in 1 .. k - 1 : ~Restores(st[i])
      \/ \E j \in 1 .. k - 1 : /\ Restores(st[j]) /\ st[j].prev = x
                              /\ \A i \in j + 1 .. k - 1 : ~Restores(st[i])
  BY DEF CtxBelow
<1>10. CtxBelow(d, t, m, x) BY ONLY <1>7, <1>8, <1>9
<1> QED BY <1>10 DEF m, n

(* Who was caught below is caught, seen from every place above it. *)
LEMMA CaughtShift ==
  ASSUME NEW t, NEW fs, NEW st, TakesPlace(t, fs, st), NEW c, NEW d, NEW h,
         CtxBelow(c, st, 1, h), CtxBelow(d, fs, Len(fs), h),
         NEW m \in Nat \ {0}, NEW x, Caught(c, st, m, x)
  PROVE  \A l \in 0 .. m - 1 + Len(fs) : Caught(d, t, l, x)
<1> DEFINE n == Len(fs)
<1>1. PICK k \in DOMAIN st : m < k /\ st[k].op = "leave" /\ CtxBelow(c, st, k - 1, x) BY DEF Caught
<1>2. n \in Nat /\ k \in Nat BY DEF TakesPlace, IsSeq
<1>3. k # 1 BY <1>1, <1>2
<1>4. k - 1 + n \in DOMAIN t /\ t[k - 1 + n] = st[k] BY <1>3 DEF TakesPlace
<1>5. CtxBelow(d, t, k - 2 + n, x) BY <1>1, <1>3, CtxShift
<1>6. k - 2 + n = (k - 1 + n) - 1 BY <1>2
<1>7. \A l \in 0 .. m - 1 + n : l < k - 1 + n BY <1>1, <1>2
<1> HIDE DEF n
<1>8. \A l \in 0 .. m - 1 + n : Caught(d, t, l, x) BY <1>1, <1>4, <1>5, <1>6, <1>7 DEF Caught
<1> QED BY <1>8 DEF n

(* There is such a context, and only one. *)
LEMMA CtxUnique ==
  ASSUME NEW c, NEW st, NEW n \in Nat, NEW x, NEW y, CtxBelow(c, st, n, x), CtxBelow(c, st, n, y)
  PROVE  x = y
<1>1. CASE \A i \in 1 .. n : ~Restores(st[i]) BY <1>1 DEF CtxBelow
<1>2. CASE ~\A i \in 1 .. n : ~Restores(st[i])
  <2>1. PICK j \in 1 .. n : /\ Restores(st[j]) /\ st[j].prev = x
                            /\ \A i \in j + 1 .. n : ~Restores(st[i])
    BY <1>2 DEF CtxBelow
  <2>2. PICK k \in 1 .. n : /\ Restores(st[k]) /\ st[k].prev = y
                            /\ \A i \in k + 1 .. n : ~Restores(st[i])
    BY <1>2 DEF CtxBelow
  <2>3. ~(j < k) /\ ~(k < j) BY <2>1, <2>2
  <2>4. j = k BY <2>3
  <2> QED BY <2>1, <2>2, <2>4
<1> QED BY <1>1, <1>2

LEMMA CtxExists ==
  ASSUME NEW c, NEW st, NEW m \in Nat
  PROVE  \E x : CtxBelow(c, st, m, x)
<1> DEFINE S == {n \in Nat : \E x : CtxBelow(c, st, n, x)}
<1>1. 0 \in S BY DEF CtxBelow
<1>2. ASSUME NEW n \in S PROVE n + 1 \in S
  <2>1. PICK x : CtxBelow(c, st, n, x) OBVIOUS
  <2>2. n \in Nat /\ n + 1 \in 1 .. n + 1 /\ (n + 1) + 1 .. n + 1 = {} OBVIOUS
  <2>3. CASE Restores(st[n + 1])
    <3>1. CtxBelow(c, st, n + 1, st[n + 1].prev) BY <2>2, <2>3 DEF CtxBelow
    <3> QED BY <2>2, <3>1
  <2>4. CASE ~Restores(st[n + 1])
    <3>1. \A j \in 0 .. n : \A i \in j + 1 .. n + 1 : i \in j + 1 .. n \/ i = n + 1 BY <2>2
    <3>2. CASE x = c /\ \A i \in 1 .. n : ~Restores(st[i])
      <4>1. \A i \in 1 .. n + 1 : ~Restores(st[i]) BY <2>2, <2>4, <3>2
      <4> QED BY <2>2, <3>2, <4>1 DEF CtxBelow
    <3>3. CASE \E j \in 1 .. n : /\ Restores(st[j]) /\ st[j].prev = x
                                 /\ \A i \in j + 1 .. n : ~Restores(st[i])
      <4>1. PICK j \in 1 .. n : /\ Restores(st[j]) /\ st[j].prev = x
                                /\ \A i \in j + 1 .. n : ~Restores(st[i])
        BY <3>3
      <4>2. j \in 1 .. n + 1 /\ \A i \in j + 1 .. n + 1 : ~Restores(st[i]) BY <2>2, <2>4, <3>1, <4>1
      <4>3. CtxBelow(c, st, n + 1, x) BY <4>1, <4>2 DEF CtxBelow
      <4> QED BY <2>2, <4>3
    <3> QED BY <2>1, <3>2, <3>3 DEF CtxBelow
  <2> QED BY <2>3, <2>4
<1>3. S = Nat
  <2> HIDE DEF S
  <2>1. S \in SUBSET Nat BY DEF S
  <2> QED BY <1>1, <1>2, <2>1, Induction
<1> QED BY <1>3

LEMMA CtxPrefix ==
  ASSUME NEW c, NEW t, NEW fs, NEW n \in Nat, \A j \in 1 .. n : t[j] = fs[j],
         NEW x, CtxBelow(c, fs, n, x)
  PROVE  CtxBelow(c, t, n, x)
<1>1. CASE x = c /\ \A j \in 1 .. n : ~Restores(fs[j]) BY <1>1 DEF CtxBelow
<1>2. CASE \E j \in 1 .. n : /\ Restores(fs[j]) /\ fs[j].prev = x
                             /\ \A k \in j + 1 .. n : ~Restores(fs[k])
  <2>1. PICK j \in 1 .. n : /\ Restores(fs[j]) /\ fs[j].prev = x
                            /\ \A k \in j + 1 .. n : ~Restores(fs[k])
    BY <1>2
  <2>2. \A k \in j + 1 .. n : k \in 1 .. n OBVIOUS
  <2>3. Restores(t[j]) /\ t[j].prev = x /\ \A k \in j + 1 .. n : ~Restores(t[k]) BY <2>1, <2>2
  <2> QED BY <2>3 DEF CtxBelow
<1> QED BY <1>1, <1>2 DEF CtxBelow

-----------------------------------------------------------------------------
(* The marks of lists of paths. *)

LEMMA MarksAre ==
  ASSUME NEW ps, NEW x
  PROVE  x \in Marks(ps) <=> x # 0 /\ \E k \in DOMAIN ps : ps[k].state = "Break" /\ ps[k].ctx = x
BY DEF Marks

LEMMA MarksOne ==
  ASSUME NEW p, NEW x
  PROVE  x \in Marks(<<p>>) <=> x # 0 /\ p.state = "Break" /\ p.ctx = x
<1> DEFINE s == <<p>>
<1>1. DOMAIN s = {1} /\ s[1] = p BY SingletonIsSeq
<1> HIDE DEF s
<1>2. x \in Marks(s) <=> x # 0 /\ p.state = "Break" /\ p.ctx = x BY <1>1, MarksAre
<1> QED BY <1>2 DEF s

LEMMA MarksEmpty == Marks(<<>>) = {}
BY EmptyIsSeq DEF Marks

LEMMA MarksJoin ==
  ASSUME NEW s, NEW t, IsSeq(s), IsSeq(t), NEW x, x \in Marks(s \o t)
  PROVE  x \in Marks(s) \/ x \in Marks(t)
<1> DEFINE u == s \o t
<1>1. Joined(u, s, t) BY ConcatenationJoins
<1>2. x \in Marks(u) OBVIOUS
<1> HIDE DEF u
<1>3. PICK k \in DOMAIN u : u[k].state = "Break" /\ u[k].ctx = x BY <1>2, MarksAre
<1>4. k \in DOMAIN s \/ (k - Len(s) \in DOMAIN t /\ u[k] = t[k - Len(s)]) BY <1>1 DEF Joined
<1>5. CASE k \in DOMAIN s
  <2>1. u[k] = s[k] BY <1>1, <1>5 DEF Joined
  <2> QED BY <1>3, <1>5, <2>1, MarksAre
<1>6. CASE k - Len(s) \in DOMAIN t /\ u[k] = t[k - Len(s)] BY <1>3, <1>6, MarksAre
<1> QED BY <1>4, <1>5, <1>6

LEMMA MarksFlatten ==
  ASSUME NEW ss, IsSeq(ss), \A k \in DOMAIN ss : IsSeq(ss[k]),
         NEW x, x \in Marks(FlattenSeq(ss))
  PROVE  \E k \in DOMAIN ss : x \in Marks(ss[k])
<1> DEFINE u == FlattenSeq(ss)
<1>1. \A j \in DOMAIN u : \E k \in DOMAIN ss : \E l \in DOMAIN ss[k] : u[j] = ss[k][l]
  BY FlattenMembers
<1>2. x \in Marks(u) OBVIOUS
<1> HIDE DEF u
<1>3. PICK j \in DOMAIN u : u[j].state = "Break" /\ u[j].ctx = x BY <1>2, MarksAre
<1>4. PICK k \in DOMAIN ss : \E l \in DOMAIN ss[k] : u[j] = ss[k][l] BY <1>1
<1>5. PICK l \in DOMAIN ss[k] : u[j] = ss[k][l] BY <1>4
<1>6. x \in Marks(ss[k]) BY <1>3, <1>5, MarksAre
<1> QED BY <1>6

LEMMA MarksSame ==
  ASSUME NEW ps, NEW qs, DOMAIN qs = DOMAIN ps, \A k \in DOMAIN ps : SameMark(qs[k], ps[k]),
         NEW x, x \in Marks(qs)
  PROVE  x \in Marks(ps)
BY MarksAre DEF SameMark

LEMMA AssumeSame ==
  ASSUME NEW exact, NEW p, SoundPath(p, exact), NEW c
  PROVE  SameMark(Assume(p, c), p)
BY DEF SameMark, Assume, SoundPath

LEMMA BindSame ==
  ASSUME NEW exact, NEW p, SoundPath(p, exact), NEW v, NEW x
  PROVE  SameMark(Bind(p, v, x), p)
BY DEF SameMark, Bind, SoundPath

LEMMA CleanupSame ==
  ASSUME NEW exact, NEW p, SoundPath(p, exact), NEW ls
  PROVE  SameMark(Cleanup(p, ls), p)
BY DEF SameMark, Cleanup, SoundPath

(* setStmtCtx changes active paths only, which have no mark. *)
LEMMA SetStmtCtxMarks ==
  ASSUME NEW exact, NEW p, SoundPath(p, exact), NEW c,
         NEW q, q = IF IsActive(p) THEN [p EXCEPT !.ctx = c] ELSE p
  PROVE  /\ q.state = p.state
         /\ p.state = "Break" => q.ctx = p.ctx
BY DEF IsActive, SoundPath

(* An evaluation changes neither the state nor the context of a path. *)
LEMMA EvalSame ==
  ASSUME NEW exact \in BOOLEAN, NEW p, SoundPath(p, exact), NEW e, IsExpr(e)
  PROVE  /\ IsSeq(Eval(p, e))
         /\ \A j \in DOMAIN Eval(p, e) : /\ SameMark(Eval(p, e)[j].path, p)
                                         /\ SoundPath(Eval(p, e)[j].path, exact)
<1> DEFINE rs == Eval(p, e)
<1>1. Divides(rs, p, exact) BY EvalDivides
<1>2. SoundRest(rs, exact) BY <1>1 DEF Divides
<1>3. IsSeq(rs) /\ \A j \in DOMAIN rs : SoundPath(rs[j].path, exact) BY <1>2 DEF SoundRest
<1>4. ASSUME NEW q, NEW x, SameMark(q, p), rs = <<[path |-> q, val |-> x]>>
      PROVE  \A j \in DOMAIN rs : SameMark(rs[j].path, p)
  <2> DEFINE r == [path |-> q, val |-> x]
  <2>1. r.path = q /\ rs = <<r>> BY <1>4
  <2> HIDE DEF r, rs
  <2>2. DOMAIN rs = {1} /\ rs[1] = r BY <2>1, SingletonIsSeq
  <2> QED BY <1>4, <2>1, <2>2
<1>5. CASE e.kind = "pure"
  <2>1. rs = <<[path |-> p, val |-> Value(p, e)]>> BY <1>5 DEF Eval
  <2>2. SameMark(p, p) BY DEF SameMark
  <2> QED BY <1>3, <1>4, <2>1, <2>2
<1>6. CASE e.kind = "write"
  <2> DEFINE q == Bind(p, e.var, Value(p, e.new))
  <2>1. rs = <<[path |-> q, val |-> Value(p, e.val)]>> BY <1>6 DEF Eval
  <2>2. SameMark(q, p) BY BindSame
  <2> HIDE DEF q
  <2> QED BY <1>3, <1>4, <2>1, <2>2
<1>7. CASE e.kind = "and"
  <2> DEFINE q == Bind(p, e.b.var, Value(p, e.b.new))
             x == Both(Value(p, e.a), Value(p, e.b.val))
  <2>1. rs = <<[path |-> q, val |-> x]>> BY <1>7 DEF Eval
  <2>2. SameMark(q, p) BY BindSame
  <2> HIDE DEF q, x
  <2> QED BY <1>3, <1>4, <2>1, <2>2
<1>8. CASE e.kind = "cond"
  <2> DEFINE c == Truth(Value(p, e.c))
             a == Assume(p, c)
             b == Assume(p, Input \ c)
             r == [path |-> a, val |-> Value(p, e.a)]
             s == [path |-> b, val |-> Value(p, e.b)]
  <2>1. rs = <<r, s>> BY <1>8 DEF Eval
  <2>2. SameMark(a, p) /\ SameMark(b, p) BY AssumeSame
  <2>3. r.path = a /\ s.path = b OBVIOUS
  <2> HIDE DEF a, b, r, s, c
  <2>4. \A j \in DOMAIN <<r, s>> : <<r, s>>[j] = r \/ <<r, s>>[j] = s OBVIOUS
  <2>5. \A j \in DOMAIN rs : rs[j] = r \/ rs[j] = s BY <2>1, <2>4
  <2> HIDE DEF rs
  <2>6. \A j \in DOMAIN rs : SameMark(rs[j].path, p) BY <2>2, <2>3, <2>5
  <2> QED BY <1>3, <2>6 DEF rs
<1> QED BY <1>5, <1>6, <1>7, <1>8 DEF IsExpr

(* Every path p gives way to a list of its own, with no mark but that of p *)
(* and those in X.                                                         *)
LEMMA MarksByLists ==
  ASSUME NEW ps, IsSeq(ps), NEW F, F = [k \in DOMAIN ps |-> F[k]], NEW X,
         \A k \in DOMAIN ps : /\ IsSeq(F[k])
                              /\ \A x \in Marks(F[k]) : x \in X \/ x \in Marks(<<ps[k]>>),
         NEW x, x \in Marks(FlattenSeq(F))
  PROVE  x \in X \/ x \in Marks(ps)
<1>1. IsSeq(F) /\ DOMAIN F = DOMAIN ps
  <2>1. Len(ps) \in Nat /\ DOMAIN ps = 1 .. Len(ps) BY DEF IsSeq
  <2> QED BY <2>1, FunctionIsSeq
<1>2. PICK k \in DOMAIN ps : x \in Marks(F[k]) BY <1>1, MarksFlatten
<1>3. x \in X \/ x \in Marks(<<ps[k]>>) BY <1>2
<1> QED BY <1>3, MarksOne, MarksAre

(* The paths that pass a test, and those of a branch. *)
LEMMA ThoseMarks ==
  ASSUME NEW ps, IsSeq(ps), NEW x
  PROVE  /\ x \in Marks(Those(ps, IsActive)) => x \in Marks(ps)
         /\ x \in Marks(Those(ps, LAMBDA p : ~IsActive(p))) => x \in Marks(ps)
<1> DEFINE A == [k \in DOMAIN ps |-> IF IsActive(ps[k]) THEN <<ps[k]>> ELSE <<>>]
           B == [k \in DOMAIN ps |-> IF ~IsActive(ps[k]) THEN <<ps[k]>> ELSE <<>>]
<1>1. /\ Those(ps, IsActive) = FlattenSeq(A)
      /\ Those(ps, LAMBDA p : ~IsActive(p)) = FlattenSeq(B)
  BY DEF Those, Each
<1>2. ASSUME NEW k \in DOMAIN ps
      PROVE  /\ A[k] = <<>> \/ A[k] = <<ps[k]>>
             /\ B[k] = <<>> \/ B[k] = <<ps[k]>>
  OBVIOUS
<1>3. A = [k \in DOMAIN ps |-> A[k]] /\ B = [k \in DOMAIN ps |-> B[k]] OBVIOUS
<1> HIDE DEF A, B
<1>4. ASSUME NEW k \in DOMAIN ps
      PROVE  /\ IsSeq(A[k]) /\ \A y \in Marks(A[k]) : y \in {} \/ y \in Marks(<<ps[k]>>)
             /\ IsSeq(B[k]) /\ \A y \in Marks(B[k]) : y \in {} \/ y \in Marks(<<ps[k]>>)
  BY <1>2, EmptyIsSeq, SingletonIsSeq, MarksEmpty
<1>5. x \in Marks(FlattenSeq(A)) => x \in {} \/ x \in Marks(ps) BY <1>3, <1>4, MarksByLists
<1>6. x \in Marks(FlattenSeq(B)) => x \in {} \/ x \in Marks(ps) BY <1>3, <1>4, MarksByLists
<1> QED BY <1>1, <1>5, <1>6

(* What a result adds to a branch. *)
LEMMA TakenMarks ==
  ASSUME NEW exact, NEW r, SoundPath(r.path, exact), NEW c
  PROVE  /\ IsSeq(Taken(r, c))
         /\ \A x \in Marks(Taken(r, c)) : r.path.state = "Break" /\ r.path.ctx = x
<1> DEFINE q == Assume(r.path, c)
           t == Taken(r, c)
<1>1. t = <<>> \/ t = <<q>> \/ t = <<r.path>> BY DEF Taken
<1>2. SameMark(q, r.path) BY AssumeSame
<1> HIDE DEF q, t
<1>3. IsSeq(t) BY <1>1, EmptyIsSeq, SingletonIsSeq
<1>4. ASSUME NEW x \in Marks(t) PROVE r.path.state = "Break" /\ r.path.ctx = x
  BY <1>1, <1>2, MarksEmpty, MarksOne DEF SameMark
<1> QED BY <1>3, <1>4 DEF t

LEMMA BranchMarks ==
  ASSUME NEW exact \in BOOLEAN, NEW ps, SoundPaths(ps, exact), NEW e, IsExpr(e), NEW x
  PROVE  /\ x \in Marks(Then(ps, e)) => x \in Marks(ps)
         /\ x \in Marks(Else(ps, e)) => x \in Marks(ps)
<1> DEFINE rs(k) == Eval(ps[k], e)
           A(k) == [j \in DOMAIN rs(k) |-> Taken(rs(k)[j], Truth(rs(k)[j].val))]
           B(k) == [j \in DOMAIN rs(k) |-> Taken(rs(k)[j], Input \ Truth(rs(k)[j].val))]
           T == [k \in DOMAIN ps |-> FlattenSeq(A(k))]
           E == [k \in DOMAIN ps |-> FlattenSeq(B(k))]
<1>1. Then(ps, e) = FlattenSeq(T) /\ Else(ps, e) = FlattenSeq(E)
  BY DEF Then, Else, BranchPaths, Each, EvalThen
<1>2. ASSUME NEW k \in DOMAIN ps, NEW C, C = [j \in DOMAIN rs(k) |-> C[j]],
             \A j \in DOMAIN rs(k) : \E c : C[j] = Taken(rs(k)[j], c)
      PROVE  /\ IsSeq(FlattenSeq(C))
             /\ \A y \in Marks(FlattenSeq(C)) : y \in {} \/ y \in Marks(<<ps[k]>>)
  <2> DEFINE r == rs(k)
             p == ps[k]
  <2>1. SoundPath(p, exact) BY DEF SoundPaths
  <2>2. IsSeq(r) /\ \A j \in DOMAIN r : SameMark(r[j].path, p) /\ SoundPath(r[j].path, exact)
    BY <2>1, EvalSame
  <2>3. C = [j \in DOMAIN r |-> C[j]] /\ \A j \in DOMAIN r : \E c : C[j] = Taken(r[j], c) BY <1>2
  <2> HIDE DEF r, p
  <2>4. IsSeq(C) /\ DOMAIN C = DOMAIN r BY <2>2, <2>3, FunctionIsSeq DEF IsSeq
  <2>5. ASSUME NEW j \in DOMAIN C
        PROVE  IsSeq(C[j]) /\ \A y \in Marks(C[j]) : y \in Marks(<<p>>)
    <3>1. PICK c : C[j] = Taken(r[j], c) BY <2>3, <2>4
    <3>2. SameMark(r[j].path, p) /\ SoundPath(r[j].path, exact) BY <2>2, <2>4
    <3> DEFINE q == r[j]
               u == C[j]
    <3>3. SoundPath(q.path, exact) /\ u = Taken(q, c) BY <3>1, <3>2
    <3>4. q.path.state = p.state /\ q.path.ctx = p.ctx BY <3>2 DEF SameMark
    <3> HIDE DEF q, u
    <3>5. IsSeq(u) /\ \A y \in Marks(u) : q.path.state = "Break" /\ q.path.ctx = y
      BY <3>3, TakenMarks
    <3>6. \A y \in Marks(u) : y # 0 BY <3>5, MarksAre
    <3>7. \A y \in Marks(u) : y \in Marks(<<p>>) BY <3>4, <3>5, <3>6, MarksOne
    <3> QED BY <3>5, <3>7 DEF u
  <2>6. IsSeq(FlattenSeq(C)) BY <2>4, <2>5, FlattenMembers
  <2>7. ASSUME NEW y \in Marks(FlattenSeq(C)) PROVE y \in Marks(<<p>>)
    <3>1. PICK j \in DOMAIN C : y \in Marks(C[j]) BY <2>4, <2>5, MarksFlatten
    <3> QED BY <2>5, <3>1
  <2> QED BY <2>6, <2>7 DEF p
<1>3. ASSUME NEW k \in DOMAIN ps
      PROVE  /\ A(k) = [j \in DOMAIN rs(k) |-> A(k)[j]]
             /\ B(k) = [j \in DOMAIN rs(k) |-> B(k)[j]]
             /\ \A j \in DOMAIN rs(k) : \E c : A(k)[j] = Taken(rs(k)[j], c)
             /\ \A j \in DOMAIN rs(k) : \E c : B(k)[j] = Taken(rs(k)[j], c)
  OBVIOUS
<1>4. /\ T = [k \in DOMAIN ps |-> T[k]] /\ E = [k \in DOMAIN ps |-> E[k]]
      /\ \A k \in DOMAIN ps : T[k] = FlattenSeq(A(k)) /\ E[k] = FlattenSeq(B(k))
  OBVIOUS
<1> HIDE DEF T, E, A, B, rs
<1>5. ASSUME NEW k \in DOMAIN ps
      PROVE  /\ IsSeq(T[k]) /\ \A y \in Marks(T[k]) : y \in {} \/ y \in Marks(<<ps[k]>>)
             /\ IsSeq(E[k]) /\ \A y \in Marks(E[k]) : y \in {} \/ y \in Marks(<<ps[k]>>)
  <2>1. /\ IsSeq(FlattenSeq(A(k)))
        /\ \A y \in Marks(FlattenSeq(A(k))) : y \in {} \/ y \in Marks(<<ps[k]>>)
    BY <1>2, <1>3
  <2>2. /\ IsSeq(FlattenSeq(B(k)))
        /\ \A y \in Marks(FlattenSeq(B(k))) : y \in {} \/ y \in Marks(<<ps[k]>>)
    BY <1>2, <1>3
  <2> QED BY <1>4, <2>1, <2>2
<1>6. IsSeq(ps) BY DEF SoundPaths
<1>7. x \in Marks(FlattenSeq(T)) => x \in {} \/ x \in Marks(ps) BY <1>4, <1>5, <1>6, MarksByLists
<1>8. x \in Marks(FlattenSeq(E)) => x \in {} \/ x \in Marks(ps) BY <1>4, <1>5, <1>6, MarksByLists
<1> QED BY <1>1, <1>7, <1>8

-----------------------------------------------------------------------------
(* The steps. *)

(* What the frame on top of the stack gives way to. *)
LEMMA BreakStep ==
  ASSUME NEW c, NEW ps, NEW st, BreaksState(c, ps, st),
         IsSeq(st), st # <<>>, NEW fs, IsSeq(fs), NEW d, NEW qs, NEW h,
         CtxBelow(c, st, 1, h), CtxBelow(d, fs, Len(fs), h),
         \A x \in Marks(qs) : Caught(c, st, 1, x),
         \A i \in DOMAIN fs : \A x \in Marks(KeptBy(fs[i])) : Caught(c, st, 1, x),
         \A i \in DOMAIN fs : \A x : CtxBelow(d, fs, i - 1, x) =>
           x = 0 \/ Caught(c, st, 1, x) \/ Caught(d, fs \o Tail(st), i - 1, x)
  PROVE  BreaksState(d, qs, fs \o Tail(st))
<1> DEFINE t == fs \o Tail(st)
           n == Len(fs)
<1>1. TakesPlace(t, fs, st) BY PlaceTaken
<1>2. /\ n \in Nat /\ DOMAIN fs = 1 .. n /\ 1 \in DOMAIN st
      /\ \A i \in 1 .. n : t[i] = fs[i]
      /\ \A k \in DOMAIN t : \/ k \in 1 .. n
                             \/ k + 1 - n \in DOMAIN st /\ k + 1 - n # 1 /\ t[k] = st[k + 1 - n]
  BY <1>1 DEF TakesPlace
<1>3. /\ DOMAIN st \subseteq Nat \ {0} /\ DOMAIN t \subseteq Nat \ {0} BY <1>1 DEF TakesPlace, IsSeq
<1>4. ASSUME NEW m \in Nat \ {0}, NEW x, Caught(c, st, m, x), NEW l \in 0 .. m - 1 + n
      PROVE  Caught(d, t, l, x)
  BY <1>1, <1>4, CaughtShift
<1>5. \A i \in DOMAIN fs : \A x : CtxBelow(d, fs, i - 1, x) =>
        x = 0 \/ Caught(c, st, 1, x) \/ Caught(d, t, i - 1, x)
  OBVIOUS
<1>6. ASSUME NEW k \in DOMAIN st, k # 1, NEW x, CtxBelow(c, st, k - 1, x)
      PROVE  CtxBelow(d, t, k - 2 + n, x)
  BY <1>1, <1>6, CtxShift
<1> HIDE DEF t, n
<1>7. ASSUME NEW x \in Marks(qs) PROVE Caught(d, t, 0, x)
  <2>1. 0 \in 0 .. 1 - 1 + n BY <1>2
  <2>2. Caught(c, st, 1, x) BY <1>7
  <2> QED BY <1>4, <2>1, <2>2
<1>8. ASSUME NEW m \in DOMAIN t, NEW x \in Marks(KeptBy(t[m])) PROVE Caught(d, t, m, x)
  <2>1. CASE m \in 1 .. n
    <3>1. m \in 0 .. 1 - 1 + n BY <1>2, <2>1
    <3>2. Caught(c, st, 1, x) BY <1>2, <1>8, <2>1
    <3> QED BY <1>4, <3>1, <3>2
  <2>2. CASE m + 1 - n \in DOMAIN st /\ m + 1 - n # 1 /\ t[m] = st[m + 1 - n]
    <3> DEFINE j == m + 1 - n
    <3>1. j \in Nat \ {0} /\ m \in 0 .. j - 1 + n BY <1>2, <1>3, <2>2
    <3>2. j \in DOMAIN st /\ x \in Marks(KeptBy(st[j])) BY <1>8, <2>2
    <3> HIDE DEF j
    <3>3. Caught(c, st, j, x) BY <3>2 DEF BreaksState
    <3> QED BY <1>4, <3>1, <3>3
  <2> QED BY <1>2, <2>1, <2>2
<1>9. ASSUME NEW k \in DOMAIN t, NEW x, CtxBelow(d, t, k - 1, x), x # 0 PROVE Caught(d, t, k - 1, x)
  <2>1. CASE k \in 1 .. n
    <3>1. k - 1 \in Nat /\ k - 1 \in 0 .. 1 - 1 + n /\ \A j \in 1 .. k - 1 : fs[j] = t[j] BY <1>2, <2>1
    <3>2. CtxBelow(d, fs, k - 1, x) BY <1>9, <3>1, CtxPrefix
    <3>3. Caught(c, st, 1, x) \/ Caught(d, t, k - 1, x) BY <1>2, <1>5, <1>9, <2>1, <3>2
    <3> QED BY <1>4, <3>1, <3>3
  <2>2. CASE k + 1 - n \in DOMAIN st /\ k + 1 - n # 1 /\ t[k] = st[k + 1 - n]
    <3> DEFINE j == k + 1 - n
    <3>1. j \in DOMAIN st /\ j # 1 /\ j - 1 \in Nat \ {0} /\ j - 2 + n = k - 1 /\ k - 1 \in Nat
      BY <1>2, <1>3, <2>2
    <3>2. k - 1 \in 0 .. (j - 1) - 1 + n BY <1>2, <1>3, <2>2
    <3> HIDE DEF j
    <3>3. PICK y : CtxBelow(c, st, j - 1, y) BY <3>1, CtxExists
    <3>4. CtxBelow(d, t, k - 1, y) BY <1>6, <3>1, <3>3
    <3>5. x = y BY <1>9, <3>1, <3>4, CtxUnique
    <3>6. Caught(c, st, j - 1, x) BY <1>9, <3>1, <3>3, <3>5 DEF BreaksState
    <3> QED BY <1>4, <3>1, <3>2, <3>6
  <2> QED BY <1>2, <2>1, <2>2
<1>10. BreaksState(d, qs, t) BY <1>7, <1>8, <1>9 DEF BreaksState
<1> QED BY <1>10 DEF t

(* The marks that such a step may give away again, and those it may make.  *)
LEMMA CaughtBelow ==
  ASSUME NEW c, NEW ps, NEW st, BreaksState(c, ps, st),
         IsSeq(st), st # <<>>, Head(st).op # "leave"
  PROVE  /\ \A x \in Marks(ps) : Caught(c, st, 1, x)
         /\ \A x \in Marks(KeptBy(Head(st))) : Caught(c, st, 1, x)
         /\ c = 0 \/ Caught(c, st, 1, c)
<1>1. 1 \in DOMAIN st /\ Head(st) = st[1] BY HeadAndTail
<1>2. DOMAIN st \subseteq Nat \ {0} BY DEF IsSeq
<1>3. ASSUME NEW x, Caught(c, st, 0, x) PROVE Caught(c, st, 1, x)
  <2>1. PICK k \in DOMAIN st : 0 < k /\ st[k].op = "leave" /\ CtxBelow(c, st, k - 1, x)
    BY <1>3 DEF Caught
  <2>2. 1 < k BY <1>1, <1>2, <2>1
  <2> QED BY <2>1, <2>2 DEF Caught
<1>4. CtxBelow(c, st, 1 - 1, c) BY DEF CtxBelow
<1>5. c = 0 \/ Caught(c, st, 0, c)
  <2>1. 1 - 1 = 0 OBVIOUS
  <2> QED BY <1>1, <1>4, <2>1 DEF BreaksState
<1> QED BY <1>1, <1>3, <1>5 DEF BreaksState

(* A step that leaves the context alone. *)
LEMMA PlainStep ==
  ASSUME Sound, BreaksInv, NEW op, At(op), op \notin {"leave", "else", "join"},
         ctx' = ctx, NEW fs, IsSeq(fs), Continue(fs),
         \A x \in Marks(paths') : \/ x \in Marks(paths) \/ x \in Marks(KeptBy(Head(stack)))
                                  \/ x = ctx,
         \A i \in DOMAIN fs :
           /\ ~Restores(fs[i])
           /\ \A x \in Marks(KeptBy(fs[i])) : x \in Marks(paths) \/ x \in Marks(KeptBy(Head(stack)))
  PROVE  BreaksInv'
<1>1. /\ BreaksState(ctx, paths, stack) /\ stack # <<>> /\ Head(stack).op = op
      /\ IsSeq(stack)
  BY OnTop DEF BreaksInv, SoundState, SoundStack
<1>2. ~Restores(Head(stack)) BY <1>1 DEF Restores
<1>3. /\ \A x \in Marks(paths) : Caught(ctx, stack, 1, x)
      /\ \A x \in Marks(KeptBy(Head(stack))) : Caught(ctx, stack, 1, x)
      /\ ctx = 0 \/ Caught(ctx, stack, 1, ctx)
  BY <1>1, CaughtBelow
<1>4. CtxBelow(ctx, stack, 1, ctx)
  <2>1. Head(stack) = stack[1] /\ \A i \in 1 .. 1 : i = 1 BY <1>1, HeadAndTail
  <2> QED BY <1>2, <2>1 DEF CtxBelow
<1>5. Len(fs) \in Nat /\ DOMAIN fs = 1 .. Len(fs) BY DEF IsSeq
<1>6. CtxBelow(ctx, fs, Len(fs), ctx) BY <1>5 DEF CtxBelow
<1>7. \A x \in Marks(paths') : x # 0 BY MarksAre
<1>8. \A x \in Marks(paths') : Caught(ctx, stack, 1, x) BY <1>3, <1>7
<1>9. \A i \in DOMAIN fs : \A x \in Marks(KeptBy(fs[i])) : Caught(ctx, stack, 1, x) BY <1>3
<1>10. ASSUME NEW i \in DOMAIN fs, NEW x, CtxBelow(ctx, fs, i - 1, x) PROVE x = 0 \/ Caught(ctx, stack, 1, x)
  <2>1. \A j \in 1 .. i - 1 : j \in DOMAIN fs BY <1>5
  <2>2. x = ctx BY <1>10, <2>1 DEF CtxBelow
  <2> QED BY <1>3, <2>2
<1>11. BreaksState(ctx, paths', fs \o Tail(stack))
  BY <1>1, <1>4, <1>6, <1>8, <1>9, <1>10, BreakStep
<1> QED BY <1>11 DEF BreaksInv, Continue

(* A statement that is done in one step. *)
LEMMA LeafBreaks ==
  ASSUME Sound, BreaksInv, NEW op, At(op), op \notin {"leave", "else", "join"},
         prog' = prog, ctx' = ctx, Continue(<<>>),
         \A x \in Marks(paths') : \/ x \in Marks(paths) \/ x \in Marks(KeptBy(Head(stack)))
                                  \/ x = ctx
  PROVE  BreaksInv'
BY EmptyIsSeq, PlainStep

(* One that steps every active path by itself. *)
LEMMA ActiveBreaks ==
  ASSUME Sound, BreaksInv, NEW kind, AtStmt(kind), prog' = prog, ctx' = ctx, Continue(<<>>),
         NEW F, F = [k \in DOMAIN paths |-> F[k]], paths' = FlattenSeq(F),
         \A k \in DOMAIN paths : SoundPath(paths[k], Exact) =>
           /\ IsSeq(F[k])
           /\ \A x \in Marks(F[k]) : x \in Marks(<<paths[k]>>) \/ x = ctx
  PROVE  BreaksInv'
<1> DEFINE X == {ctx}
<1>1. IsSeq(paths) /\ SoundPaths(paths, Exact) /\ At("step") BY StmtOnTop DEF AtStmt
<1>2. \A k \in DOMAIN paths : /\ IsSeq(F[k])
                              /\ \A x \in Marks(F[k]) : x \in X \/ x \in Marks(<<paths[k]>>)
  BY <1>1 DEF SoundPaths
<1>3. \A x \in X : x = ctx OBVIOUS
<1> HIDE DEF X
<1>4. \A x \in Marks(paths') : x \in X \/ x \in Marks(paths) BY <1>1, <1>2, MarksByLists
<1>5. "step" \notin {"leave", "else", "join"} OBVIOUS
<1> QED BY <1>1, <1>3, <1>4, <1>5, LeafBreaks

(* The results of an expression on an active path are active. *)
LEMMA ActiveResults ==
  ASSUME NEW exact \in BOOLEAN, NEW p, SoundPath(p, exact), IsActive(p), NEW e, IsExpr(e),
         NEW H, H = [j \in DOMAIN Eval(p, e) |-> H[j]],
         \A j \in DOMAIN Eval(p, e) : SameMark(H[j], p)
  PROVE  IsSeq(H) /\ Marks(H) = {}
<1> DEFINE r == Eval(p, e)
<1>1. IsSeq(r) BY EvalSame
<1>2. H = [j \in DOMAIN r |-> H[j]] /\ \A j \in DOMAIN r : SameMark(H[j], p) OBVIOUS
<1> HIDE DEF r
<1>3. IsSeq(H) /\ DOMAIN H = DOMAIN r BY <1>1, <1>2, FunctionIsSeq DEF IsSeq
<1>4. \A j \in DOMAIN H : H[j].state = "Step" BY <1>2, <1>3 DEF SameMark, IsActive
<1>5. Marks(H) = {} BY <1>4 DEF Marks
<1> QED BY <1>3, <1>5

LEMMA BoundResults ==
  ASSUME NEW exact \in BOOLEAN, NEW p, SoundPath(p, exact), IsActive(p), NEW e, IsExpr(e), NEW v
  PROVE  LET H == [j \in DOMAIN Eval(p, e) |-> Bind(Eval(p, e)[j].path, v, Eval(p, e)[j].val)]
         IN  IsSeq(H) /\ Marks(H) = {}
<1> DEFINE r == Eval(p, e)
           H == [j \in DOMAIN r |-> Bind(r[j].path, v, r[j].val)]
<1>1. \A j \in DOMAIN r : SameMark(r[j].path, p) /\ SoundPath(r[j].path, exact) BY EvalSame
<1>2. /\ H = [j \in DOMAIN r |-> H[j]]
      /\ \A j \in DOMAIN r : H[j] = Bind(r[j].path, v, r[j].val)
  OBVIOUS
<1> HIDE DEF H, r
<1>3. \A j \in DOMAIN r : SameMark(H[j], p) BY <1>1, <1>2, BindSame DEF SameMark
<1>4. IsSeq(H) /\ Marks(H) = {} BY <1>2, <1>3, ActiveResults DEF r
<1> QED BY <1>4 DEF H, r

(* A list of paths has the marks of its parts. *)
LEMMA InJoin ==
  ASSUME NEW s, NEW t, IsSeq(s), IsSeq(t), NEW x, x \in Marks(s) \/ x \in Marks(t)
  PROVE  x \in Marks(s \o t)
<1> DEFINE u == s \o t
<1>1. Joined(u, s, t) BY ConcatenationJoins
<1> HIDE DEF u
<1>2. CASE x \in Marks(s)
  <2>1. PICK k \in DOMAIN s : s[k].state = "Break" /\ s[k].ctx = x BY <1>2, MarksAre
  <2>2. k \in DOMAIN u /\ u[k] = s[k] BY <1>1 DEF Joined
  <2>3. x \in Marks(u) BY <2>1, <2>2, MarksAre
  <2> QED BY <2>3 DEF u
<1>3. CASE x \in Marks(t)
  <2>1. PICK k \in DOMAIN t : t[k].state = "Break" /\ t[k].ctx = x BY <1>3, MarksAre
  <2>2. k + Len(s) \in DOMAIN u /\ u[k + Len(s)] = t[k] BY <1>1 DEF Joined
  <2>3. x \in Marks(u) BY <2>1, <2>2, MarksAre
  <2> QED BY <2>3 DEF u
<1> QED BY <1>2, <1>3

(* setStmtCtx adds no mark. *)
LEMMA CtxMarks ==
  ASSUME NEW exact, NEW ps, SoundPaths(ps, exact), NEW c
  PROVE  /\ DOMAIN SetStmtCtx(ps, c) = DOMAIN ps
         /\ \A k \in DOMAIN ps : /\ SetStmtCtx(ps, c)[k].state = ps[k].state
                                 /\ ps[k].state = "Break" => SetStmtCtx(ps, c)[k].ctx = ps[k].ctx
         /\ \A x \in Marks(SetStmtCtx(ps, c)) : x \in Marks(ps)
<1> DEFINE qs == [k \in DOMAIN ps |-> IF IsActive(ps[k]) THEN [ps[k] EXCEPT !.ctx = c] ELSE ps[k]]
<1>1. SetStmtCtx(ps, c) = qs BY DEF SetStmtCtx, Each
<1>2. /\ DOMAIN qs = DOMAIN ps
      /\ \A k \in DOMAIN ps : qs[k] = IF IsActive(ps[k]) THEN [ps[k] EXCEPT !.ctx = c] ELSE ps[k]
  OBVIOUS
<1> HIDE DEF qs
<1>3. ASSUME NEW k \in DOMAIN ps
      PROVE  qs[k].state = ps[k].state /\ (ps[k].state = "Break" => qs[k].ctx = ps[k].ctx)
  <2> DEFINE p == ps[k]
             q == qs[k]
  <2>1. SoundPath(p, exact) BY DEF SoundPaths
  <2>2. q = IF IsActive(p) THEN [p EXCEPT !.ctx = c] ELSE p BY <1>2
  <2> HIDE DEF p, q
  <2>3. q.state = p.state /\ (p.state = "Break" => q.ctx = p.ctx) BY <2>1, <2>2, SetStmtCtxMarks
  <2> QED BY <2>3 DEF p, q
<1>4. \A x \in Marks(qs) : x \in Marks(ps) BY <1>2, <1>3, MarksAre
<1> QED BY <1>1, <1>2, <1>3, <1>4

(* One lemma for each action again. *)
LEMMA ExprBreaks == Sound /\ BreaksInv /\ StepExpr => BreaksInv'
<1> SUFFICES ASSUME Sound, BreaksInv, StepExpr PROVE BreaksInv' OBVIOUS
<1> DEFINE G(p) == [j \in DOMAIN Eval(p, Stmt.e) |-> Eval(p, Stmt.e)[j].path]
           F == [k \in DOMAIN paths |-> IF IsActive(paths[k]) THEN G(paths[k]) ELSE <<paths[k]>>]
<1>1. AtStmt("expr") /\ prog' = prog /\ ctx' = ctx /\ Continue(<<>>) BY DEF StepExpr, Quiet
<1>2. paths' = FlattenSeq(F) BY DEF StepExpr, ForActive, EvalThen
<1>3. IsExpr(Stmt.e) /\ Exact \in BOOLEAN BY <1>1, StmtOnTop DEF IsStmt
<1>4. ASSUME NEW p, SoundPath(p, Exact), IsActive(p) PROVE IsSeq(G(p)) /\ Marks(G(p)) = {}
  <2> DEFINE H == G(p)
  <2>1. /\ H = [j \in DOMAIN Eval(p, Stmt.e) |-> H[j]]
        /\ \A j \in DOMAIN Eval(p, Stmt.e) : H[j] = Eval(p, Stmt.e)[j].path
    OBVIOUS
  <2> HIDE DEF H
  <2>2. \A j \in DOMAIN Eval(p, Stmt.e) : SameMark(H[j], p) BY <1>3, <1>4, <2>1, EvalSame
  <2>3. IsSeq(H) /\ Marks(H) = {} BY <1>3, <1>4, <2>1, <2>2, ActiveResults
  <2> QED BY <2>3 DEF H
<1>5. F = [k \in DOMAIN paths |-> F[k]] OBVIOUS
<1>6. ASSUME NEW k \in DOMAIN paths, SoundPath(paths[k], Exact)
      PROVE  IsSeq(F[k]) /\ \A x \in Marks(F[k]) : x \in Marks(<<paths[k]>>)
  BY <1>4, <1>6, SingletonIsSeq
<1> HIDE DEF F
<1> QED BY <1>1, <1>2, <1>5, <1>6, ActiveBreaks

LEMMA AssignBreaks == Sound /\ BreaksInv /\ UpdateVarState => BreaksInv'
<1> SUFFICES ASSUME Sound, BreaksInv, UpdateVarState PROVE BreaksInv' OBVIOUS
<1> DEFINE rs(p) == Eval(p, Stmt.e)
           G(p) == [j \in DOMAIN rs(p) |-> Bind(rs(p)[j].path, Stmt.var, rs(p)[j].val)]
           F == [k \in DOMAIN paths |-> IF IsActive(paths[k]) THEN G(paths[k]) ELSE <<paths[k]>>]
<1>1. AtStmt("assign") /\ prog' = prog /\ ctx' = ctx /\ Continue(<<>>) BY DEF UpdateVarState, Quiet
<1>2. paths' = FlattenSeq(F) BY DEF UpdateVarState, ForActive, EvalThen
<1>3. IsExpr(Stmt.e) /\ Exact \in BOOLEAN BY <1>1, StmtOnTop DEF IsStmt
<1>4. ASSUME NEW p, SoundPath(p, Exact), IsActive(p) PROVE IsSeq(G(p)) /\ Marks(G(p)) = {}
  BY <1>3, <1>4, BoundResults
<1>5. F = [k \in DOMAIN paths |-> F[k]] OBVIOUS
<1>6. ASSUME NEW k \in DOMAIN paths, SoundPath(paths[k], Exact)
      PROVE  IsSeq(F[k]) /\ \A x \in Marks(F[k]) : x \in Marks(<<paths[k]>>)
  BY <1>4, <1>6, SingletonIsSeq
<1> HIDE DEF F
<1> QED BY <1>1, <1>2, <1>5, <1>6, ActiveBreaks

LEMMA DeclBreaks == Sound /\ BreaksInv /\ AddNewDecls => BreaksInv'
<1> SUFFICES ASSUME Sound, BreaksInv, AddNewDecls PROVE BreaksInv' OBVIOUS
<1> DEFINE e == CHOOSE x \in Stmt.init : TRUE
           rs(p) == Eval(p, e)
           G(p) == [j \in DOMAIN rs(p) |-> Bind(rs(p)[j].path, Stmt.var, rs(p)[j].val)]
           one(p) == <<Bind(p, Stmt.var, Symbol(Stmt.var))>>
           F == [k \in DOMAIN paths |->
                  IF IsActive(paths[k])
                  THEN IF Stmt.init = {} THEN one(paths[k]) ELSE G(paths[k])
                  ELSE <<paths[k]>>]
<1>1. AtStmt("decl") /\ prog' = prog /\ ctx' = ctx /\ Continue(<<>>) BY Zenon DEF AddNewDecls, Quiet
<1>2. paths' = FlattenSeq(F) BY DEF AddNewDecls, ForActive, EvalThen
<1>3. (\A x \in Stmt.init : IsExpr(x)) /\ Exact \in BOOLEAN BY <1>1, StmtOnTop DEF IsStmt
<1>4. ASSUME NEW p, SoundPath(p, Exact), IsActive(p), Stmt.init # {}
      PROVE  IsSeq(G(p)) /\ Marks(G(p)) = {}
  <2>1. IsExpr(e) BY <1>3, <1>4
  <2> HIDE DEF e
  <2> QED BY <1>3, <1>4, <2>1, BoundResults
<1>5. ASSUME NEW p, SoundPath(p, Exact), IsActive(p)
      PROVE  IsSeq(one(p)) /\ Marks(one(p)) = {}
  <2> DEFINE q == Bind(p, Stmt.var, Symbol(Stmt.var))
  <2>1. q.state = "Step" BY <1>5, BindSame DEF SameMark, IsActive
  <2> HIDE DEF q
  <2>2. IsSeq(<<q>>) /\ Marks(<<q>>) = {} BY <2>1, SingletonIsSeq, MarksOne
  <2> QED BY <2>2 DEF q
<1>6. F = [k \in DOMAIN paths |-> F[k]] OBVIOUS
<1>7. ASSUME NEW k \in DOMAIN paths, SoundPath(paths[k], Exact)
      PROVE  IsSeq(F[k]) /\ \A x \in Marks(F[k]) : x \in Marks(<<paths[k]>>)
  BY <1>4, <1>5, <1>7, SingletonIsSeq
<1> HIDE DEF F
<1> QED BY <1>1, <1>2, <1>6, <1>7, ActiveBreaks

LEMMA ReturnBreaks == Sound /\ BreaksInv /\ StepReturn => BreaksInv'
<1> SUFFICES ASSUME Sound, BreaksInv, StepReturn PROVE BreaksInv' OBVIOUS
<1> DEFINE e == CHOOSE x \in Stmt.e : TRUE
           rs(p) == Eval(p, e)
           back(p, x) == SetState([p EXCEPT !.ret = x], "Return", 0)
           G(p) == [j \in DOMAIN rs(p) |-> back(rs(p)[j].path, {rs(p)[j].val})]
           F == [k \in DOMAIN paths |->
                  IF IsActive(paths[k])
                  THEN IF Stmt.e = {} THEN <<back(paths[k], {})>> ELSE G(paths[k])
                  ELSE <<paths[k]>>]
<1>1. AtStmt("return") /\ prog' = prog /\ ctx' = ctx /\ Continue(<<>>) BY Zenon DEF StepReturn, Quiet
<1>2. paths' = FlattenSeq(F) BY DEF StepReturn, ForActive, EvalThen
<1>3. (\A x \in Stmt.e : IsExpr(x)) /\ Exact \in BOOLEAN BY <1>1, StmtOnTop DEF IsStmt
<1>4. ASSUME NEW p, SoundPath(p, Exact), NEW x PROVE back(p, x).state = "Return"
  BY <1>4 DEF SoundPath, SetState
<1> HIDE DEF back
<1>5. ASSUME NEW p, SoundPath(p, Exact), Stmt.e # {} PROVE IsSeq(G(p)) /\ Marks(G(p)) = {}
  <2> DEFINE r == rs(p)
             H == G(p)
  <2>1. IsExpr(e) BY <1>3, <1>5
  <2> HIDE DEF e
  <2>2. IsSeq(r) /\ \A j \in DOMAIN r : SoundPath(r[j].path, Exact) BY <1>3, <1>5, <2>1, EvalSame
  <2>3. /\ H = [j \in DOMAIN r |-> H[j]]
        /\ \A j \in DOMAIN r : \E x : H[j] = back(r[j].path, x)
    OBVIOUS
  <2> HIDE DEF r, H
  <2>4. IsSeq(H) /\ DOMAIN H = DOMAIN r BY <2>2, <2>3, FunctionIsSeq DEF IsSeq
  <2>5. ASSUME NEW j \in DOMAIN H PROVE H[j].state = "Return"
    <3> DEFINE q == r[j].path
    <3>1. SoundPath(q, Exact) BY <2>2, <2>4
    <3>2. PICK x : H[j] = back(q, x) BY <2>3, <2>4
    <3> HIDE DEF q
    <3> QED BY <1>4, <3>1, <3>2
  <2>6. Marks(H) = {} BY <2>5 DEF Marks
  <2> QED BY <2>4, <2>6 DEF H
<1>6. F = [k \in DOMAIN paths |-> F[k]] OBVIOUS
<1>7. ASSUME NEW k \in DOMAIN paths, SoundPath(paths[k], Exact)
      PROVE  IsSeq(F[k]) /\ \A x \in Marks(F[k]) : x \in Marks(<<paths[k]>>)
  <2>1. IsSeq(<<back(paths[k], {})>>) /\ Marks(<<back(paths[k], {})>>) = {}
    BY <1>4, <1>7, SingletonIsSeq, MarksOne
  <2> QED BY <1>5, <1>7, <2>1, SingletonIsSeq
<1> HIDE DEF F
<1> QED BY <1>1, <1>2, <1>6, <1>7, ActiveBreaks

LEMMA BreakBreaks == Sound /\ BreaksInv /\ StepBreak => BreaksInv'
<1> SUFFICES ASSUME Sound, BreaksInv, StepBreak PROVE BreaksInv' OBVIOUS
<1> DEFINE F == [k \in DOMAIN paths |-> IF IsActive(paths[k])
                                        THEN <<SetState(paths[k], "Break", ctx)>>
                                        ELSE <<paths[k]>>]
<1>1. AtStmt("break") /\ prog' = prog /\ ctx' = ctx /\ Continue(<<>>) BY Zenon DEF StepBreak, Quiet
<1>2. paths' = FlattenSeq(F) BY DEF StepBreak, ForActive
<1>5. ASSUME NEW p, SoundPath(p, Exact) PROVE SetState(p, "Break", ctx).ctx = ctx
  BY <1>5 DEF SoundPath, SetState
<1>6. F = [k \in DOMAIN paths |-> F[k]] OBVIOUS
<1>7. ASSUME NEW k \in DOMAIN paths, SoundPath(paths[k], Exact)
      PROVE  IsSeq(F[k]) /\ \A x \in Marks(F[k]) : x \in Marks(<<paths[k]>>) \/ x = ctx
  BY <1>5, <1>7, SingletonIsSeq, MarksOne
<1> HIDE DEF F
<1> QED BY <1>1, <1>2, <1>6, <1>7, ActiveBreaks

LEMMA NullBreaks == Sound /\ BreaksInv /\ StepNull => BreaksInv'
<1> SUFFICES ASSUME Sound, BreaksInv, StepNull PROVE BreaksInv' OBVIOUS
<1>1. /\ At("step") /\ prog' = prog /\ ctx' = ctx /\ Continue(<<>>) /\ paths' = paths
      /\ "step" \notin {"leave", "else", "join"}
  BY DEF StepNull, Quiet, AtStmt
<1> QED BY <1>1, LeafBreaks

LEMMA StepFramesAre ==
  ASSUME NEW ss, IsSeq(ss)
  PROVE  /\ IsSeq(StepFrames(ss)) /\ DOMAIN StepFrames(ss) = DOMAIN ss
         /\ \A k \in DOMAIN ss : StepFrames(ss)[k].op = "step" /\ StepFrames(ss)[k].s = ss[k]
<1> DEFINE fs == [k \in DOMAIN ss |-> StepFrame(ss[k])]
<1>1. fs = [k \in DOMAIN ss |-> fs[k]] /\ \A k \in DOMAIN ss : fs[k] = StepFrame(ss[k]) OBVIOUS
<1>2. StepFrames(ss) = fs BY DEF StepFrames
<1> HIDE DEF fs
<1>3. IsSeq(fs) /\ DOMAIN fs = DOMAIN ss BY <1>1, FunctionIsSeq DEF IsSeq
<1>4. \A k \in DOMAIN ss : fs[k].op = "step" /\ fs[k].s = ss[k] BY <1>1 DEF StepFrame
<1> QED BY <1>2, <1>3, <1>4

(* Statements in a row, and a frame behind them. *)
LEMMA RowBreaks ==
  ASSUME Sound, BreaksInv, NEW op, At(op), op \notin {"leave", "else", "join"},
         prog' = prog, ctx' = ctx, NEW ss, IsSeq(ss), NEW g, Continue(StepFrames(ss) \o <<g>>),
         \A x \in Marks(paths') : x \in Marks(paths) \/ x \in Marks(KeptBy(Head(stack))),
         ~Restores(g),
         \A x \in Marks(KeptBy(g)) : x \in Marks(paths) \/ x \in Marks(KeptBy(Head(stack)))
  PROVE  BreaksInv'
<1> DEFINE a == StepFrames(ss)
           b == <<g>>
           fs == a \o b
<1>1. /\ IsSeq(a) /\ DOMAIN a = DOMAIN ss
      /\ \A k \in DOMAIN ss : a[k].op = "step" /\ a[k].s = ss[k]
  BY StepFramesAre
<1>2. IsSeq(b) /\ DOMAIN b = {1} /\ b[1] = g BY SingletonIsSeq
<1>3. Continue(fs) OBVIOUS
<1> HIDE DEF a, b
<1>4. Joined(fs, a, b) BY <1>1, <1>2, ConcatenationJoins
<1> HIDE DEF fs
<1>5. ASSUME NEW i \in DOMAIN fs
      PROVE  /\ ~Restores(fs[i])
             /\ \A x \in Marks(KeptBy(fs[i])) : x \in Marks(paths) \/ x \in Marks(KeptBy(Head(stack)))
  <2>1. CASE i \in DOMAIN a
    <3>1. fs[i] = a[i] /\ i \in DOMAIN ss BY <1>1, <1>4, <2>1 DEF Joined
    <3>2. fs[i].op = "step" /\ fs[i].s = ss[i] BY <1>1, <3>1
    <3>3. KeptBy(fs[i]) = <<>> BY <3>2 DEF KeptBy
    <3>4. ~Restores(fs[i]) BY <3>2 DEF Restores
    <3> QED BY <3>1, <3>3, <3>4, MarksEmpty
  <2>2. CASE i - Len(a) \in DOMAIN b /\ fs[i] = b[i - Len(a)]
    <3>1. fs[i] = g BY <1>2, <2>2
    <3> QED BY <3>1
  <2> QED BY <1>4, <2>1, <2>2 DEF Joined
<1>6. IsSeq(fs) BY <1>4 DEF Joined
<1> QED BY <1>3, <1>5, <1>6, PlainStep

LEMMA CompoundBreaks == Sound /\ BreaksInv /\ StepCompound => BreaksInv'
<1> SUFFICES ASSUME Sound, BreaksInv, StepCompound PROVE BreaksInv' OBVIOUS
<1> DEFINE g == [op |-> "cleanup", locals |-> LocalsOf(Stmt)]
<1>1. /\ AtStmt("compound") /\ prog' = prog /\ ctx' = ctx /\ paths' = paths
      /\ Continue(StepFrames(Stmt.body) \o <<g>>)
  BY DEF StepCompound, Quiet
<1>2. /\ At("step") /\ Stmt.kind = "compound" /\ Stmt \in Stmts(prog)
      /\ Stmt.body \in Seq(Stmts(prog)) /\ Head(stack).op = "step"
  BY <1>1, StmtOnTop DEF IsStmt, AtStmt, At
<1>3. IsSeq(Stmt.body) BY <1>2, SeqIs
<1>4. g.op = "cleanup" OBVIOUS
<1> HIDE DEF g
<1>5. ~Restores(g) /\ KeptBy(g) = <<>> BY <1>4 DEF Restores, KeptBy
<1>7. "step" \notin {"leave", "else", "join"} OBVIOUS
<1> QED BY <1>1, <1>2, <1>3, <1>5, <1>7, MarksEmpty, RowBreaks

LEMMA CleanupBreaks == Sound /\ BreaksInv /\ StepCleanup => BreaksInv'
<1> SUFFICES ASSUME Sound, BreaksInv, StepCleanup PROVE BreaksInv' OBVIOUS
<1> DEFINE ls == Head(stack).locals
           qs == [k \in DOMAIN paths |-> Cleanup(paths[k], ls)]
<1>1. /\ At("cleanup") /\ prog' = prog /\ ctx' = ctx /\ Continue(<<>>) /\ paths' = qs
      /\ "cleanup" \notin {"leave", "else", "join"}
  BY DEF StepCleanup, Quiet, Each
<1>2. SoundPaths(paths, Exact) BY <1>1, OnTop
<1>3. DOMAIN qs = DOMAIN paths /\ \A k \in DOMAIN paths : qs[k] = Cleanup(paths[k], ls) OBVIOUS
<1> HIDE DEF qs, ls
<1>4. \A k \in DOMAIN paths : SameMark(qs[k], paths[k]) BY <1>2, <1>3, CleanupSame DEF SoundPaths
<1>5. \A x \in Marks(paths') : x \in Marks(paths) BY <1>1, <1>3, <1>4, MarksSame
<1> QED BY <1>1, <1>5, LeafBreaks

(* The two frames of a statement that is entered, and the new context:     *)
(* that of the statement, the null context, or the one there was.          *)
LEMMA EnterBreaks ==
  ASSUME Sound, BreaksInv, NEW op, At(op), op # "leave",
         NEW f, NEW g, NEW h, Continue(<<f, g>>), ~Restores(f),
         IF Restores(Head(stack)) THEN h = Head(stack).prev ELSE h = ctx,
         Restores(g), g.prev = h, g.op = "leave" \/ ctx' \in {0, ctx},
         \A x \in Marks(paths') : x \in Marks(paths) \/ x \in Marks(KeptBy(Head(stack))),
         \A x \in Marks(KeptBy(f)) : x \in Marks(paths) \/ x \in Marks(KeptBy(Head(stack))),
         \A x \in Marks(KeptBy(g)) : x \in Marks(paths) \/ x \in Marks(KeptBy(Head(stack)))
  PROVE  BreaksInv'
<1> DEFINE fs == <<f, g>>
           t == fs \o Tail(stack)
           d == ctx'
<1>1. /\ BreaksState(ctx, paths, stack) /\ stack # <<>> /\ Head(stack).op # "leave"
      /\ IsSeq(stack)
  BY OnTop DEF BreaksInv, SoundState, SoundStack
<1>2. /\ \A x \in Marks(paths) : Caught(ctx, stack, 1, x)
      /\ \A x \in Marks(KeptBy(Head(stack))) : Caught(ctx, stack, 1, x)
      /\ ctx = 0 \/ Caught(ctx, stack, 1, ctx)
  BY <1>1, CaughtBelow
<1>3. CtxBelow(ctx, stack, 1, h)
  <2>1. Head(stack) = stack[1] /\ \A i \in 1 .. 1 : i = 1 BY <1>1, HeadAndTail
  <2>2. 1 \in 1 .. 1 /\ 1 + 1 .. 1 = {} OBVIOUS
  <2> QED BY <2>1, <2>2 DEF CtxBelow
<1>4. IsSeq(fs) /\ DOMAIN fs = {1, 2} /\ Len(fs) = 2 /\ fs[1] = f /\ fs[2] = g BY DEF IsSeq
<1>5. stack' = t BY DEF Continue
<1>6. TakesPlace(t, fs, stack) BY <1>1, <1>4, PlaceTaken
<1> HIDE DEF fs, t, d
<1>7. CtxBelow(d, fs, Len(fs), h)
  <2>1. 2 \in 1 .. 2 /\ 2 + 1 .. 2 = {} OBVIOUS
  <2> QED BY <1>4, <2>1 DEF CtxBelow
<1>8. \A x \in Marks(paths') : Caught(ctx, stack, 1, x) BY <1>2
<1>9. \A i \in DOMAIN fs : \A x \in Marks(KeptBy(fs[i])) : Caught(ctx, stack, 1, x) BY <1>2, <1>4
<1>10. ASSUME NEW i \in DOMAIN fs, NEW x, CtxBelow(d, fs, i - 1, x)
       PROVE  x = 0 \/ Caught(ctx, stack, 1, x) \/ Caught(d, t, i - 1, x)
  <2>1. \A j \in 1 .. i - 1 : j = 1 BY <1>4
  <2>2. x = d BY <1>4, <1>10, <2>1 DEF CtxBelow
  <2>3. CASE g.op = "leave"
    <3>1. 2 \in DOMAIN t /\ t[2] = g /\ t[1] = f
      <4>1. 1 \in 1 .. Len(fs) /\ 2 \in 1 .. Len(fs) BY <1>4
      <4> QED BY <1>4, <1>6, <4>1 DEF TakesPlace
    <3>2. 2 - 1 = 1 /\ i - 1 < 2 /\ \A j \in 1 .. 1 : j = 1 BY <1>4
    <3>3. CtxBelow(d, t, 2 - 1, d) BY <3>1, <3>2 DEF CtxBelow
    <3> QED BY <2>2, <2>3, <3>1, <3>2, <3>3 DEF Caught
  <2>4. CASE ctx' \in {0, ctx} BY <1>2, <2>2, <2>4 DEF d
  <2> QED BY <2>3, <2>4
<1>11. BreaksState(d, paths', t)
  BY <1>1, <1>3, <1>4, <1>7, <1>8, <1>9, <1>10, BreakStep DEF t
<1> QED BY <1>5, <1>11 DEF BreaksInv, d

LEMMA DoBreaks == Sound /\ BreaksInv /\ StepDo => BreaksInv'
<1> SUFFICES ASSUME Sound, BreaksInv, StepDo PROVE BreaksInv' OBVIOUS
<1> DEFINE f == StepFrame(Stmt.body)
           g == [op |-> "leave", prev |-> ctx]
           qs == SetStmtCtx(paths, Stmt.id)
<1>1. AtStmt("do") /\ prog' = prog /\ Continue(<<f, g>>) /\ paths' = qs BY DEF StepDo, Quiet
<1>2. At("step") /\ SoundPaths(paths, Exact) /\ ~Restores(Head(stack))
  BY <1>1, StmtOnTop DEF AtStmt, At, Restores
<1>3. f.op = "step" /\ g.op = "leave" /\ g.prev = ctx BY DEF StepFrame
<1> HIDE DEF f, g, qs
<1>4. KeptBy(f) = <<>> /\ KeptBy(g) = <<>> /\ Restores(g) /\ ~Restores(f) BY <1>3 DEF KeptBy, Restores
<1>5. \A x \in Marks(paths') : x \in Marks(paths) BY <1>1, <1>2, CtxMarks DEF qs
<1>6. "step" # "leave" OBVIOUS
<1> QED BY <1>1, <1>2, <1>3, <1>4, <1>5, <1>6, MarksEmpty, EnterBreaks

LEMMA IfBreaks == Sound /\ BreaksInv /\ StepIf => BreaksInv'
<1> SUFFICES ASSUME Sound, BreaksInv, StepIf PROVE BreaksInv' OBVIOUS
<1> DEFINE active == Those(paths, IsActive)
           inactive == Those(paths, LAMBDA p : ~IsActive(p))
           f == StepFrame(Stmt.then)
           g == [op |-> "else", s |-> Stmt, prev |-> ctx, active |-> active, inactive |-> inactive]
           T == Then(active, Stmt.cond)
           E == Else(active, Stmt.cond)
<1>1. AtStmt("if") /\ prog' = prog /\ Continue(<<f, g>>) /\ paths' = T /\ ctx' = 0 BY DEF StepIf, Quiet
<1>2. /\ SoundPaths(paths, Exact) /\ IsSeq(paths) /\ Exact \in BOOLEAN /\ At("step")
      /\ Stmt \in Stmts(prog) /\ Stmt.kind = "if" /\ IsExpr(Stmt.cond)
      /\ ~Restores(Head(stack))
  BY <1>1, StmtOnTop DEF IsStmt, AtStmt, At, Restores
<1>3. Parted(active, inactive, paths, Exact) BY <1>2, ActiveInactive
<1>4. SoundPaths(active, Exact) /\ SoundPaths(inactive, Exact) BY <1>3 DEF Parted
<1>5. /\ f.op = "step" /\ f.s = Stmt.then /\ g.op = "else" /\ g.s = Stmt /\ g.prev = ctx
      /\ g.active = active /\ g.inactive = inactive
  BY DEF StepFrame
<1>6. \A x \in Marks(active) : x \in Marks(paths) BY <1>2, ThoseMarks
<1>7. \A x \in Marks(inactive) : x \in Marks(paths) BY <1>2, ThoseMarks
<1> HIDE DEF active, inactive, f, g
<1>8. \A x \in Marks(T) : x \in Marks(active) BY <1>2, <1>4, BranchMarks
<1>9. \A x \in Marks(E) : x \in Marks(active) BY <1>2, <1>4, BranchMarks
<1>10. KeptBy(f) = <<>> /\ KeptBy(g) = E \o inactive /\ Restores(g) /\ ~Restores(f)
  BY <1>5 DEF KeptBy, Restores
<1>11. IsSeq(E) /\ IsSeq(inactive) BY <1>2, <1>4, Branches DEF Parted, SoundPaths
<1> HIDE DEF T, E
<1>12. \A x \in Marks(KeptBy(g)) : x \in Marks(paths) BY <1>6, <1>7, <1>9, <1>10, <1>11, MarksJoin
<1>13. ctx' \in {0, ctx} BY <1>1
<1>14. "step" # "leave" OBVIOUS
<1> QED BY <1>1, <1>2, <1>5, <1>6, <1>8, <1>10, <1>12, <1>13, <1>14, MarksEmpty, EnterBreaks

LEMMA ElseBreaks == Sound /\ BreaksInv /\ StepElse => BreaksInv'
<1> SUFFICES ASSUME Sound, BreaksInv, StepElse PROVE BreaksInv' OBVIOUS
<1> DEFINE h == Head(stack)
           I == h.inactive
           E == Else(h.active, h.s.cond)
           f == StepFrame(h.s.else)
           g == [op |-> "join", prev |-> h.prev, then |-> paths, inactive |-> I]
<1>1. At("else") /\ prog' = prog /\ Continue(<<f, g>>) /\ paths' = E /\ ctx' \in {0, ctx}
  BY DEF StepElse, Quiet
<1>2. /\ SoundPaths(paths, Exact) /\ IsSeq(paths) /\ Exact \in BOOLEAN
      /\ h.op = "else" /\ SoundFrame(h, Stmts(prog), Exact) /\ IsSeq(KeptBy(h))
  BY <1>1, OnTop
<1>3. /\ h.s \in Stmts(prog) /\ h.s.kind = "if"
      /\ SoundPaths(h.active, Exact) /\ SoundPaths(I, Exact) /\ IsSeq(I)
  BY <1>2 DEF SoundFrame, SoundPaths
<1>4. IsExpr(h.s.cond)
  <2>1. prog \in Programs BY DEF Sound
  <2>2. IsStmt(h.s, Stmts(prog), Uninitialized(prog)) BY <1>3, <2>1, ProgramsAssumption
  <2> HIDE DEF h
  <2> QED BY <1>3, <2>2 DEF IsStmt
<1>5. KeptBy(h) = E \o I BY <1>2 DEF KeptBy
<1>6. /\ f.op = "step" /\ f.s = h.s.else /\ g.op = "join" /\ g.prev = h.prev
      /\ g.then = paths /\ g.inactive = I
  BY DEF StepFrame
<1>7. IsSeq(E) BY <1>2, <1>3, <1>4, Branches DEF Parted, SoundPaths
<1>8. Restores(h) BY <1>2 DEF Restores
<1> HIDE DEF f, g, E, I, h
<1>10. KeptBy(f) = <<>> /\ KeptBy(g) = paths \o I /\ Restores(g) /\ ~Restores(f)
  BY <1>6 DEF KeptBy, Restores
<1>11. \A x \in Marks(E) : x \in Marks(KeptBy(h)) BY <1>3, <1>5, <1>7, InJoin
<1>12. \A x \in Marks(I) : x \in Marks(KeptBy(h)) BY <1>3, <1>5, <1>7, InJoin
<1>13. \A x \in Marks(KeptBy(g)) : x \in Marks(paths) \/ x \in Marks(KeptBy(h))
  BY <1>2, <1>3, <1>10, <1>12, MarksJoin
<1>15. "else" # "leave" OBVIOUS
<1> QED BY <1>1, <1>6, <1>8, <1>10, <1>11, <1>13, <1>15, MarksEmpty, EnterBreaks DEF h

(* The end of a statement or of a branch, which gives the context back. *)
LEMMA ExitBreaks ==
  ASSUME Sound, BreaksInv, NEW op, At(op), op \in {"leave", "join"}, prog' = prog,
         ctx' = Head(stack).prev, Continue(<<>>),
         \A x \in Marks(paths') : Caught(ctx, stack, 1, x)
  PROVE  BreaksInv'
<1> DEFINE h == Head(stack).prev
           fs == <<>>
<1>1. /\ BreaksState(ctx, paths, stack) /\ stack # <<>> /\ Head(stack).op = op
      /\ IsSeq(stack)
  BY OnTop DEF BreaksInv, SoundState, SoundStack
<1>2. CtxBelow(ctx, stack, 1, h)
  <2>1. Head(stack) = stack[1] BY <1>1, HeadAndTail
  <2>2. 1 \in 1 .. 1 /\ 1 + 1 .. 1 = {} OBVIOUS
  <2>3. Restores(Head(stack)) BY <1>1 DEF Restores
  <2> QED BY <2>1, <2>2, <2>3 DEF CtxBelow
<1>3. IsSeq(fs) /\ DOMAIN fs = {} /\ Len(fs) = 0 BY EmptyIsSeq
<1>4. stack' = fs \o Tail(stack) /\ ctx' = h BY DEF Continue
<1> HIDE DEF fs, h
<1>5. CtxBelow(h, fs, Len(fs), h)
  <2>1. 1 .. 0 = {} OBVIOUS
  <2> QED BY <1>3, <2>1 DEF CtxBelow
<1>6. BreaksState(h, paths', fs \o Tail(stack)) BY <1>1, <1>2, <1>3, <1>5, BreakStep
<1> QED BY <1>4, <1>6 DEF BreaksInv

LEMMA JoinBreaks == Sound /\ BreaksInv /\ StepJoin => BreaksInv'
<1> SUFFICES ASSUME Sound, BreaksInv, StepJoin PROVE BreaksInv' OBVIOUS
<1> DEFINE h == Head(stack)
           T == h.then
           I == h.inactive
<1>1. /\ At("join") /\ prog' = prog /\ Continue(<<>>) /\ paths' = T \o paths \o I
      /\ ctx' = h.prev
  BY DEF StepJoin, Quiet
<1>2. /\ SoundPaths(paths, Exact) /\ IsSeq(paths) /\ stack # <<>> /\ h.op = "join"
      /\ SoundFrame(h, Stmts(prog), Exact) /\ IsSeq(stack)
  BY <1>1, OnTop DEF SoundState, SoundStack
<1>3. IsSeq(T) /\ IsSeq(I) BY <1>2 DEF SoundFrame, SoundPaths
<1>4. KeptBy(h) = T \o I BY <1>2 DEF KeptBy
<1>5. BreaksState(ctx, paths, stack) BY DEF BreaksInv
<1>6. h.op # "leave" BY <1>2
<1>7. /\ \A x \in Marks(paths) : Caught(ctx, stack, 1, x)
      /\ \A x \in Marks(KeptBy(h)) : Caught(ctx, stack, 1, x)
  BY <1>2, <1>5, <1>6, CaughtBelow
<1> HIDE DEF h, T, I
<1>8. IsSeq(T \o paths) BY <1>2, <1>3, Concatenation
<1>9. ASSUME NEW x \in Marks(paths') PROVE Caught(ctx, stack, 1, x)
  <2>1. x \in Marks(T \o paths) \/ x \in Marks(I) BY <1>1, <1>3, <1>8, <1>9, MarksJoin
  <2>2. x \in Marks(T) \/ x \in Marks(paths) \/ x \in Marks(I) BY <1>2, <1>3, <2>1, MarksJoin
  <2>3. x \in Marks(paths) \/ x \in Marks(KeptBy(h)) BY <1>3, <1>4, <2>2, InJoin
  <2> QED BY <1>7, <2>3
<1>10. "join" \in {"leave", "join"} OBVIOUS
<1> QED BY <1>1, <1>9, <1>10, ExitBreaks DEF h

(* resetBreakState takes the mark off every path that waits for this end. *)
LEMMA LeaveBreaks == Sound /\ BreaksInv /\ StepLeave => BreaksInv'
<1> SUFFICES ASSUME Sound, BreaksInv, StepLeave PROVE BreaksInv' OBVIOUS
<1> DEFINE prev == Head(stack).prev
           ps == [k \in DOMAIN paths |-> IF paths[k].state = "Break" /\ paths[k].ctx = ctx
                                         THEN [paths[k] EXCEPT !.state = "Step"] ELSE paths[k]]
<1>1. /\ At("leave") /\ prog' = prog /\ Continue(<<>>) /\ ctx' = prev
      /\ "leave" \in {"leave", "join"}
  BY DEF StepLeave, Quiet
<1>2. paths' = SetStmtCtx(ps, prev) BY DEF StepLeave, ResetBreakState, Each
<1>3. /\ SoundPaths(paths, Exact) /\ IsSeq(paths) /\ Exact \in BOOLEAN
      /\ IsSeq(stack) /\ stack # <<>>
  BY <1>1, OnTop DEF SoundState, SoundStack
<1>4. /\ DOMAIN ps = DOMAIN paths /\ ps = [k \in DOMAIN paths |-> ps[k]]
      /\ \A k \in DOMAIN paths : SoundPath(paths[k], Exact) => SoundPath(ps[k], Exact)
  BY <1>3, SoundSetStep
<1>5. ASSUME NEW k \in DOMAIN paths, ps[k].state = "Break"
      PROVE  /\ paths[k].state = "Break" /\ ps[k].ctx = paths[k].ctx /\ ps[k].ctx # ctx
  <2> DEFINE p == paths[k]
             q == ps[k]
  <2>1. q = IF p.state = "Break" /\ p.ctx = ctx THEN [p EXCEPT !.state = "Step"] ELSE p OBVIOUS
  <2>2. SoundPath(p, Exact) /\ q.state = "Break" BY <1>3, <1>5 DEF SoundPaths
  <2> HIDE DEF p, q, ps
  <2>3. p.state = "Break" /\ q.ctx = p.ctx /\ q.ctx # ctx BY <2>1, <2>2 DEF SoundPath
  <2> QED BY <2>3 DEF p, q
<1> HIDE DEF ps
<1>6. SoundPaths(ps, Exact)
  <2>1. IsSeq(ps) BY <1>3, <1>4, FunctionIsSeq DEF IsSeq
  <2> QED BY <1>3, <1>4, <2>1 DEF SoundPaths
<1>7. \A x \in Marks(paths') : x \in Marks(ps) BY <1>2, <1>6, CtxMarks
<1>8. \A x \in Marks(ps) : x \in Marks(paths) /\ x # ctx BY <1>4, <1>5, MarksAre
<1>9. ASSUME NEW x \in Marks(paths') PROVE Caught(ctx, stack, 1, x)
  <2>1. x \in Marks(paths) /\ x # ctx BY <1>7, <1>8, <1>9
  <2>2. Caught(ctx, stack, 0, x) BY <2>1 DEF BreaksInv, BreaksState
  <2>3. PICK k \in DOMAIN stack : 0 < k /\ stack[k].op = "leave" /\ CtxBelow(ctx, stack, k - 1, x)
    BY <2>2 DEF Caught
  <2>4. k \in Nat BY <1>3 DEF IsSeq
  <2>5. k # 1
    <3> SUFFICES ASSUME k = 1 PROVE FALSE OBVIOUS
    <3>1. k - 1 = 0 /\ 1 .. 0 = {} OBVIOUS
    <3> QED BY <2>1, <2>3, <3>1 DEF CtxBelow
  <2>6. 1 < k BY <2>3, <2>4, <2>5
  <2> QED BY <2>3, <2>6 DEF Caught
<1> QED BY <1>1, <1>9, ExitBreaks DEF prev

LEMMA SwitchBreaks == Sound /\ BreaksInv /\ StepSwitch => BreaksInv'
<1> SUFFICES ASSUME Sound, BreaksInv, StepSwitch PROVE BreaksInv' OBVIOUS
<1> DEFINE e == Stmt.cond
           ps == SetStmtCtx(paths, Stmt.id)
           rest == [k \in DOMAIN ps |-> Eval(ps[k], e)[1]]
           f == [op |-> "partition", sw |-> Stmt, done |-> <<>>, rest |-> rest]
           g == [op |-> "leave", prev |-> ctx]
           R == Rest(f)
<1>1. /\ AtStmt("switch") /\ prog' = prog /\ Continue(<<f, g>>) /\ paths' = <<>>
      /\ \A k \in DOMAIN paths : Len(Eval(paths[k], e)) = 1
  BY DEF StepSwitch, Quiet, SwitchAborts
<1>2. /\ At("step") /\ SoundPaths(paths, Exact) /\ Exact \in BOOLEAN /\ IsExpr(e)
      /\ ~Restores(Head(stack)) /\ "step" # "leave"
  BY <1>1, StmtOnTop DEF IsStmt, AtStmt, At, Restores
<1>3. /\ f.op = "partition" /\ f.done = <<>> /\ f.rest = rest /\ g.op = "leave" /\ g.prev = ctx
      /\ R = [k \in DOMAIN rest |-> rest[k].path]
  BY DEF Rest, Each
<1>4. /\ DOMAIN ps = DOMAIN paths
      /\ \A k \in DOMAIN paths : SoundPath(paths[k], Exact) => SoundPath(ps[k], Exact)
  BY <1>2, SoundSetStmtCtx DEF SetStmtCtx, Each
<1>5. \A x \in Marks(ps) : x \in Marks(paths) BY <1>2, CtxMarks
<1>6. DOMAIN rest = DOMAIN ps /\ \A k \in DOMAIN ps : rest[k] = Eval(ps[k], e)[1] OBVIOUS
<1> HIDE DEF f, g, R, ps, rest, e
<1>7. DOMAIN R = DOMAIN ps /\ \A k \in DOMAIN ps : R[k] = rest[k].path /\ R = [j \in DOMAIN ps |-> R[j]]
  BY <1>3, <1>6
<1>8. ASSUME NEW k \in DOMAIN ps PROVE SameMark(R[k], ps[k])
  <2> DEFINE rs == Eval(ps[k], e)
  <2>1. SoundPath(paths[k], Exact) /\ SoundPath(ps[k], Exact) BY <1>2, <1>4, <1>8 DEF SoundPaths
  <2>2. IsSeq(rs) /\ \A j \in DOMAIN rs : SameMark(rs[j].path, ps[k]) BY <1>2, <2>1, EvalSame
  <2>3. Len(rs) = IF e.kind = "cond" THEN 2 ELSE 1 BY <1>2, <2>1, EvalDivides
  <2>4. R[k] = rs[1].path BY <1>6, <1>7, <1>8
  <2> HIDE DEF rs
  <2>5. 1 \in DOMAIN rs BY <2>2, <2>3 DEF IsSeq
  <2> QED BY <2>2, <2>4, <2>5
<1>9. \A x \in Marks(R) : x \in Marks(paths) BY <1>5, <1>7, <1>8, MarksSame
<1>10. IsSeq(R)
  <2>1. R = [k \in DOMAIN paths |-> R[k]] BY <1>3, <1>4, <1>6
  <2> QED BY <1>2, <2>1, FunctionIsSeq DEF SoundPaths, IsSeq
<1>11. KeptBy(f) = R
  <2>1. KeptBy(f) = f.done \o Rest(f) BY <1>3 DEF KeptBy
  <2> QED BY <1>3, <1>10, <2>1, ConcatenationWithEmpty DEF R
<1>12. KeptBy(g) = <<>> /\ Restores(g) /\ ~Restores(f) BY <1>3 DEF KeptBy, Restores
<1> QED BY <1>1, <1>2, <1>3, <1>9, <1>11, <1>12, MarksEmpty, EnterBreaks

LEMMA PartitionBreaks == Sound /\ BreaksInv /\ NextPartition => BreaksInv'
<1> SUFFICES ASSUME Sound, BreaksInv, NextPartition PROVE BreaksInv' OBVIOUS
<1> DEFINE h == Head(stack)
           D == h.done
           r == Head(h.rest)
           tl == Tail(h.rest)
           g == CaseFrame("case", h.sw, 1, r.val, tl, D)
           R == Rest(h)
           S == Rest(g)
<1>1. /\ At("partition") /\ prog' = prog /\ ctx' = ctx /\ "partition" \notin {"leave", "else", "join"}
      /\ \/ h.rest = <<>> /\ paths' = D /\ Continue(<<>>)
         \/ h.rest # <<>> /\ paths' = <<r.path>> /\ Continue(<<g>>)
  BY DEF NextPartition, Quiet
<1>2. /\ Exact \in BOOLEAN /\ h.op = "partition" /\ SoundFrame(h, Stmts(prog), Exact) BY <1>1, OnTop
<1>3. SoundPaths(D, Exact) /\ SoundRest(h.rest, Exact) BY <1>2 DEF SoundFrame
<1>4. SoundPaths(R, Exact) BY <1>3, SoundEachPath DEF Rest
<1>5. KeptBy(h) = D \o R BY <1>2 DEF KeptBy
<1>6. IsSeq(D) /\ IsSeq(R) BY <1>3, <1>4 DEF SoundPaths
<1>7. /\ \A x \in Marks(D) : x \in Marks(KeptBy(h))
      /\ \A x \in Marks(R) : x \in Marks(KeptBy(h))
  BY <1>5, <1>6, InJoin
<1>8. CASE h.rest = <<>> /\ paths' = D /\ Continue(<<>>) BY <1>1, <1>7, <1>8, LeafBreaks DEF h
<1>9. CASE h.rest # <<>> /\ paths' = <<r.path>> /\ Continue(<<g>>)
  <2> DEFINE rest == h.rest
  <2>1. g.op = "case" /\ g.rest = tl /\ g.done = D BY DEF CaseFrame
  <2>2. R = [k \in DOMAIN rest |-> rest[k].path] /\ S = [k \in DOMAIN tl |-> tl[k].path]
    BY <2>1 DEF Rest, Each
  <2>3. /\ IsSeq(tl) /\ 1 \in DOMAIN rest /\ r = rest[1]
        /\ \A k \in DOMAIN tl : k + 1 \in DOMAIN rest /\ tl[k] = rest[k + 1]
    <3>1. IsSeq(rest) /\ rest # <<>> BY <1>3, <1>9 DEF SoundRest
    <3>2. r = Head(rest) /\ tl = Tail(rest) OBVIOUS
    <3> HIDE DEF rest, r, tl, h
    <3> QED BY <3>1, <3>2, HeadAndTail
  <2>4. KeptBy(g) = D \o S BY <2>1 DEF KeptBy
  <2>5. ~Restores(g) BY <2>1 DEF Restores
  <2>6. Continue(<<g>>) /\ paths' = <<r.path>> BY <1>9
  <2> HIDE DEF h, D, R, r, tl, g, S, rest
  <2>7. \A x \in Marks(<<r.path>>) : x \in Marks(R)
    <3>1. DOMAIN R = DOMAIN rest /\ R[1] = r.path BY <2>2, <2>3
    <3> QED BY <2>3, <3>1, MarksOne, MarksAre
  <2>8. \A x \in Marks(S) : x \in Marks(R)
    <3>1. DOMAIN R = DOMAIN rest /\ DOMAIN S = DOMAIN tl BY <2>2
    <3>2. \A k \in DOMAIN S : k + 1 \in DOMAIN R /\ S[k] = R[k + 1] BY <2>2, <2>3
    <3> HIDE DEF R, S
    <3> QED BY <3>2, MarksAre
  <2>9. IsSeq(S) BY <2>2, <2>3, FunctionIsSeq DEF IsSeq
  <2>10. \A x \in Marks(KeptBy(g)) : x \in Marks(KeptBy(h))
    BY <1>6, <1>7, <2>4, <2>8, <2>9, MarksJoin
  <2>11. IsSeq(<<g>>) /\ DOMAIN <<g>> = {1} /\ <<g>>[1] = g BY SingletonIsSeq
  <2>12. \A i \in DOMAIN <<g>> :
           /\ ~Restores(<<g>>[i])
           /\ \A x \in Marks(KeptBy(<<g>>[i])) : x \in Marks(paths) \/ x \in Marks(KeptBy(h))
    BY <2>5, <2>10, <2>11
  <2>13. \A x \in Marks(paths') : x \in Marks(KeptBy(h)) BY <1>7, <2>6, <2>7
  <2> QED BY <1>1, <2>6, <2>11, <2>12, <2>13, PlainStep DEF h
<1> QED BY <1>1, <1>8, <1>9

(* A condition put on every path leaves their marks. *)
LEMMA AssumeMarks ==
  ASSUME NEW exact, NEW ps, SoundPaths(ps, exact), NEW c,
         NEW qs, qs = [k \in DOMAIN ps |-> Assume(ps[k], c)]
  PROVE  IsSeq(qs) /\ \A x : x \in Marks(qs) <=> x \in Marks(ps)
<1>1. /\ DOMAIN qs = DOMAIN ps /\ qs = [k \in DOMAIN ps |-> qs[k]]
      /\ \A k \in DOMAIN ps : qs[k] = Assume(ps[k], c)
  OBVIOUS
<1>2. IsSeq(qs) BY <1>1, FunctionIsSeq DEF SoundPaths, IsSeq
<1>3. \A k \in DOMAIN ps : SameMark(qs[k], ps[k]) BY <1>1, AssumeSame DEF SoundPaths
<1>4. \A k \in DOMAIN qs : SameMark(ps[k], qs[k]) BY <1>1, <1>3 DEF SameMark
<1>5. \A x : x \in Marks(qs) => x \in Marks(ps) BY <1>1, <1>3, MarksSame
<1>6. \A x : x \in Marks(ps) => x \in Marks(qs) BY <1>1, <1>4, MarksSame
<1> QED BY <1>2, <1>5, <1>6

(* What a case frame keeps. *)
LEMMA CaseFrameMarks ==
  ASSUME NEW g, g.op \in {"case", "default"}, IsSeq(g.done), IsSeq(Rest(g))
  PROVE  /\ ~Restores(g)
         /\ \A x \in Marks(KeptBy(g)) : x \in Marks(g.done) \/ x \in Marks(Rest(g))
<1>1. KeptBy(g) = g.done \o Rest(g) BY DEF KeptBy
<1>2. ~Restores(g) BY DEF Restores
<1> QED BY <1>1, <1>2, MarksJoin

(* One frame takes the place of a frame of a switch. *)
LEMMA OneBreaks ==
  ASSUME Sound, BreaksInv, NEW op \in {"case", "next", "default"}, At(op),
         prog' = prog, ctx' = ctx, NEW g, Continue(<<g>>), ~Restores(g),
         \A x \in Marks(paths') : x \in Marks(paths) \/ x \in Marks(KeptBy(Head(stack))),
         \A x \in Marks(KeptBy(g)) : x \in Marks(paths) \/ x \in Marks(KeptBy(Head(stack)))
  PROVE  BreaksInv'
<1> DEFINE fs == <<g>>
<1>1. IsSeq(fs) /\ DOMAIN fs = {1} /\ fs[1] = g BY SingletonIsSeq
<1>2. Continue(fs) OBVIOUS
<1>3. op \notin {"leave", "else", "join"} OBVIOUS
<1> HIDE DEF fs
<1>4. \A i \in DOMAIN fs :
        /\ ~Restores(fs[i])
        /\ \A x \in Marks(KeptBy(fs[i])) : x \in Marks(paths) \/ x \in Marks(KeptBy(Head(stack)))
  BY <1>1, <1>3
<1> QED BY <1>1, <1>2, <1>3, <1>4, PlainStep

LEMMA CaseBreaks == Sound /\ BreaksInv /\ StepCase => BreaksInv'
<1> SUFFICES ASSUME Sound, BreaksInv, StepCase PROVE BreaksInv' OBVIOUS
<1> DEFINE h == Head(stack)
           D == h.done
           R == Rest(h)
           body == CaseBlocks(h.sw)[h.k].body
           g == [op |-> "next", sw |-> h.sw, k |-> h.k, val |-> h.val, rest |-> h.rest,
                 done |-> h.done, current |-> paths]
           c == CaseCond(h)
           d == Input \ CaseCond(g)
           taken == [k \in DOMAIN paths |-> Assume(paths[k], c)]
           not == [k \in DOMAIN paths |-> Assume(paths[k], d)]
<1>1. /\ At("case") /\ prog' = prog /\ ctx' = ctx /\ Continue(StepFrames(body) \o <<g>>)
      /\ paths' = taken /\ h.k <= Len(CaseBlocks(h.sw))
      /\ "case" \notin {"leave", "else", "join"}
  BY DEF StepCase, Quiet, Each
<1>2. SoundPaths(paths, Exact) /\ IsSeq(paths) /\ h.op = "case" BY <1>1, OnTop
<1>3. /\ h.k \in Nat \ {0} /\ SoundPaths(D, Exact) /\ SoundPaths(R, Exact)
      /\ IsSeq(CaseBlocks(h.sw))
  BY <1>1, CaseOnTop
<1>4. IsSeq(body)
  <2>1. h.k \in DOMAIN CaseBlocks(h.sw) BY <1>1, <1>3 DEF IsSeq
  <2> QED BY <1>1, <2>1, CaseOnTop
<1>5. KeptBy(h) = D \o R BY <1>2 DEF KeptBy
<1>6. KeptBy(g) = (D \o R) \o not
  <2>1. g.op = "next" /\ g.rest = h.rest /\ g.done = D /\ g.current = paths OBVIOUS
  <2>2. Rest(g) = R BY <2>1 DEF Rest
  <2> HIDE DEF g
  <2>3. KeptBy(g) = g.done \o Rest(g)
                      \o [k \in DOMAIN g.current |-> Assume(g.current[k], Input \ CaseCond(g))]
    BY <2>1 DEF KeptBy, Each
  <2> QED BY <2>1, <2>2, <2>3
<1>7. g.op = "next" OBVIOUS
<1> HIDE DEF h, D, R, body, g, c, d
<1>8. \A x : x \in Marks(taken) <=> x \in Marks(paths) BY <1>2, AssumeMarks
<1>9. IsSeq(not) /\ \A x : x \in Marks(not) <=> x \in Marks(paths) BY <1>2, AssumeMarks
<1> HIDE DEF taken, not
<1>10. IsSeq(D) /\ IsSeq(R) BY <1>3 DEF SoundPaths
<1>11. IsSeq(D \o R) BY <1>10, Concatenation
<1>12. \A x \in Marks(KeptBy(g)) : x \in Marks(paths) \/ x \in Marks(KeptBy(h))
  BY <1>5, <1>6, <1>9, <1>11, MarksJoin
<1>13. ~Restores(g) BY <1>7 DEF Restores
<1> QED BY <1>1, <1>4, <1>8, <1>12, <1>13, RowBreaks DEF h

LEMMA EndCaseBreaks == Sound /\ BreaksInv /\ EndCase => BreaksInv'
<1> SUFFICES ASSUME Sound, BreaksInv, EndCase PROVE BreaksInv' OBVIOUS
<1> DEFINE h == Head(stack)
           D == h.done
           R == Rest(h)
           C == h.current
           d == Input \ CaseCond(h)
           not == [k \in DOMAIN C |-> Assume(C[k], d)]
           g(done) == CaseFrame("case", h.sw, h.k + 1, h.val, h.rest, done)
<1>1. /\ At("next") /\ prog' = prog /\ ctx' = ctx
      /\ \/ paths' = not /\ Continue(<<g(D \o paths)>>)
         \/ paths' = paths \o not /\ Continue(<<g(D)>>)
  BY DEF EndCase, Quiet, Each
<1>2. /\ SoundPaths(paths, Exact) /\ IsSeq(paths) /\ h.op = "next"
      /\ SoundFrame(h, Stmts(prog), Exact)
  BY <1>1, OnTop
<1>3. SoundPaths(D, Exact) /\ SoundPaths(R, Exact) BY <1>1, CaseOnTop
<1>4. SoundPaths(C, Exact) BY <1>2 DEF SoundFrame
<1>5. KeptBy(h) = (D \o R) \o not BY <1>2 DEF KeptBy, Each
<1>6. IsSeq(D) /\ IsSeq(R) /\ IsSeq(D \o paths) BY <1>2, <1>3, Concatenation DEF SoundPaths
<1>7. \A done : IsSeq(done) =>
        /\ ~Restores(g(done))
        /\ \A x \in Marks(KeptBy(g(done))) : x \in Marks(done) \/ x \in Marks(R)
  <2> SUFFICES ASSUME NEW done, IsSeq(done)
               PROVE  /\ ~Restores(g(done))
                      /\ \A x \in Marks(KeptBy(g(done))) : x \in Marks(done) \/ x \in Marks(R)
    OBVIOUS
  <2> DEFINE f == g(done)
  <2>1. f.op = "case" /\ f.done = done /\ f.rest = h.rest BY DEF CaseFrame
  <2>2. Rest(f) = R BY <2>1 DEF Rest
  <2> HIDE DEF f, h, R
  <2>3. ~Restores(f) /\ \A x \in Marks(KeptBy(f)) : x \in Marks(done) \/ x \in Marks(R)
    BY <1>6, <2>1, <2>2, CaseFrameMarks
  <2> QED BY <2>3 DEF f
<1> HIDE DEF h, D, R, C, d, g
<1>8. IsSeq(not) BY <1>4, AssumeMarks
<1> HIDE DEF not
<1>9. IsSeq(D \o R) BY <1>6, Concatenation
<1>10. ASSUME NEW x, x \in Marks(D) \/ x \in Marks(R) \/ x \in Marks(not)
       PROVE  x \in Marks(KeptBy(h))
  BY <1>5, <1>6, <1>8, <1>9, <1>10, InJoin
<1>11. ASSUME NEW x, x \in Marks(D \o paths) PROVE x \in Marks(D) \/ x \in Marks(paths)
  BY <1>2, <1>6, <1>11, MarksJoin
<1>12. ASSUME NEW x, x \in Marks(paths \o not) PROVE x \in Marks(paths) \/ x \in Marks(not)
  BY <1>2, <1>8, <1>12, MarksJoin
<1>13. CASE paths' = not /\ Continue(<<g(D \o paths)>>)
  <2> DEFINE f == g(D \o paths)
  <2>1. ~Restores(f) /\ \A x \in Marks(KeptBy(f)) : x \in Marks(D \o paths) \/ x \in Marks(R)
    BY <1>6, <1>7
  <2>2. Continue(<<f>>) BY <1>13
  <2> HIDE DEF f
  <2>3. \A x \in Marks(KeptBy(f)) : x \in Marks(paths) \/ x \in Marks(KeptBy(h))
    BY <1>10, <1>11, <2>1
  <2>4. \A x \in Marks(paths') : x \in Marks(KeptBy(h)) BY <1>10, <1>13
  <2> QED BY <1>1, <2>1, <2>2, <2>3, <2>4, OneBreaks DEF h
<1>14. CASE paths' = paths \o not /\ Continue(<<g(D)>>)
  <2> DEFINE f == g(D)
  <2>1. ~Restores(f) /\ \A x \in Marks(KeptBy(f)) : x \in Marks(D) \/ x \in Marks(R) BY <1>6, <1>7
  <2>2. Continue(<<f>>) BY <1>14
  <2> HIDE DEF f
  <2>3. \A x \in Marks(KeptBy(f)) : x \in Marks(KeptBy(h)) BY <1>10, <2>1
  <2>4. \A x \in Marks(paths') : x \in Marks(paths) \/ x \in Marks(KeptBy(h)) BY <1>10, <1>12, <1>14
  <2> QED BY <1>1, <2>1, <2>2, <2>3, <2>4, OneBreaks DEF h
<1> QED BY <1>1, <1>13, <1>14

LEMMA DefaultBreaks == Sound /\ BreaksInv /\ StepDefault => BreaksInv'
<1> SUFFICES ASSUME Sound, BreaksInv, StepDefault PROVE BreaksInv' OBVIOUS
<1> DEFINE h == Head(stack)
           D == h.done
           R == Rest(h)
           body == CaseBlocks(h.sw)[h.k].body
           g == CaseFrame("default", h.sw, h.k, h.val, h.rest, h.done)
<1>1. /\ At("case") /\ prog' = prog /\ ctx' = ctx /\ Continue(StepFrames(body) \o <<g>>)
      /\ paths' = paths /\ h.k <= Len(CaseBlocks(h.sw))
      /\ "case" \notin {"leave", "else", "join"}
  BY DEF StepDefault, Quiet
<1>2. h.op = "case" BY <1>1, OnTop
<1>3. /\ h.k \in Nat \ {0} /\ SoundPaths(D, Exact) /\ SoundPaths(R, Exact)
      /\ IsSeq(CaseBlocks(h.sw))
  BY <1>1, CaseOnTop
<1>4. IsSeq(body)
  <2>1. h.k \in DOMAIN CaseBlocks(h.sw) BY <1>1, <1>3 DEF IsSeq
  <2> QED BY <1>1, <2>1, CaseOnTop
<1>5. KeptBy(h) = D \o R BY <1>2 DEF KeptBy
<1>6. IsSeq(D) /\ IsSeq(R) BY <1>3 DEF SoundPaths
<1>7. ~Restores(g) /\ \A x \in Marks(KeptBy(g)) : x \in Marks(D) \/ x \in Marks(R)
  <2>1. g.op = "default" /\ g.done = D /\ g.rest = h.rest BY DEF CaseFrame
  <2>2. Rest(g) = R BY <2>1 DEF Rest
  <2> HIDE DEF g, h, D, R
  <2> QED BY <1>6, <2>1, <2>2, CaseFrameMarks
<1> HIDE DEF h, D, R, body, g
<1>8. \A x \in Marks(KeptBy(g)) : x \in Marks(KeptBy(h)) BY <1>5, <1>6, <1>7, InJoin
<1> QED BY <1>1, <1>4, <1>7, <1>8, RowBreaks DEF h

LEMMA EndDefaultBreaks == Sound /\ BreaksInv /\ EndDefault => BreaksInv'
<1> SUFFICES ASSUME Sound, BreaksInv, EndDefault PROVE BreaksInv' OBVIOUS
<1> DEFINE h == Head(stack)
           D == h.done
           R == Rest(h)
           k == IF AllInactive(paths) THEN Len(CaseBlocks(h.sw)) + 1 ELSE h.k + 1
           g == CaseFrame("case", h.sw, k, h.val, h.rest, D)
<1>1. /\ At("default") /\ prog' = prog /\ ctx' = ctx /\ Continue(<<g>>) /\ paths' = paths
  BY DEF EndDefault, Quiet
<1>2. h.op = "default" BY <1>1, OnTop
<1>3. SoundPaths(D, Exact) /\ SoundPaths(R, Exact) BY <1>1, CaseOnTop
<1>4. KeptBy(h) = D \o R BY <1>2 DEF KeptBy
<1>5. IsSeq(D) /\ IsSeq(R) BY <1>3 DEF SoundPaths
<1>6. ~Restores(g) /\ \A x \in Marks(KeptBy(g)) : x \in Marks(D) \/ x \in Marks(R)
  <2>1. g.op = "case" /\ g.done = D /\ g.rest = h.rest BY DEF CaseFrame
  <2>2. Rest(g) = R BY <2>1 DEF Rest
  <2> HIDE DEF g, h, D, R
  <2> QED BY <1>5, <2>1, <2>2, CaseFrameMarks
<1> HIDE DEF h, D, R, g
<1>7. \A x \in Marks(KeptBy(g)) : x \in Marks(KeptBy(h)) BY <1>4, <1>5, <1>6, InJoin
<1>8. "default" \in {"case", "next", "default"} OBVIOUS
<1> QED BY <1>1, <1>6, <1>7, <1>8, OneBreaks DEF h

LEMMA EndCasesBreaks == Sound /\ BreaksInv /\ EndCases => BreaksInv'
<1> SUFFICES ASSUME Sound, BreaksInv, EndCases PROVE BreaksInv' OBVIOUS
<1> DEFINE h == Head(stack)
           D == h.done
           R == Rest(h)
           g == Partition(h, D \o paths)
<1>1. /\ At("case") /\ prog' = prog /\ ctx' = ctx /\ Continue(<<g>>) /\ paths' = <<>>
  BY DEF EndCases, Quiet
<1>2. h.op = "case" /\ IsSeq(paths) BY <1>1, OnTop
<1>3. SoundPaths(D, Exact) /\ SoundPaths(R, Exact) BY <1>1, CaseOnTop
<1>4. KeptBy(h) = D \o R BY <1>2 DEF KeptBy
<1>5. IsSeq(D) /\ IsSeq(R) BY <1>3 DEF SoundPaths
<1>6. g.op = "partition" /\ g.rest = h.rest /\ g.done = D \o paths BY DEF Partition
<1>7. Rest(g) = R BY <1>6 DEF Rest
<1> HIDE DEF h, D, R, g
<1>8. KeptBy(g) = (D \o paths) \o R BY <1>6, <1>7 DEF KeptBy
<1>9. IsSeq(D \o paths) BY <1>2, <1>5, Concatenation
<1>10. ASSUME NEW x \in Marks(KeptBy(g)) PROVE x \in Marks(paths) \/ x \in Marks(KeptBy(h))
  <2>1. x \in Marks(D \o paths) \/ x \in Marks(R) BY <1>5, <1>8, <1>9, <1>10, MarksJoin
  <2>2. x \in Marks(D) \/ x \in Marks(paths) \/ x \in Marks(R) BY <1>2, <1>5, <2>1, MarksJoin
  <2> QED BY <1>4, <1>5, <2>2, InJoin
<1>11. ~Restores(g) /\ "case" \in {"case", "next", "default"} BY <1>6 DEF Restores
<1> QED BY <1>1, <1>10, <1>11, MarksEmpty, OneBreaks DEF h

LEMMA InitBreaks == Init => BreaksInv
<1> SUFFICES ASSUME Init PROVE BreaksInv OBVIOUS
<1> DEFINE p == [state |-> "Step", ctx |-> 0, conds |-> {}, ret |-> {},
                 env |-> [v \in Var \ Local |-> Symbol(v)]]
           f == StepFrame(prog)
<1>1. paths = <<p>> /\ stack = <<f>> /\ ctx = 0 BY DEF Init
<1>2. p.state = "Step" /\ f.op = "step" BY DEF StepFrame
<1> HIDE DEF p, f
<1>3. Marks(paths) = {} BY <1>1, <1>2, MarksOne
<1>4. KeptBy(f) = <<>> BY <1>2 DEF KeptBy
<1>5. DOMAIN stack = {1} /\ stack[1] = f BY <1>1, SingletonIsSeq
<1>6. \A x : CtxBelow(ctx, stack, 1 - 1, x) => x = 0 BY <1>1 DEF CtxBelow
<1>7. BreaksState(ctx, paths, stack)
  BY <1>3, <1>4, <1>5, <1>6, MarksEmpty DEF BreaksState
<1> QED BY <1>7 DEF BreaksInv

LEMMA AbortBreaks == BreaksInv /\ Abort => BreaksInv'
BY DEF BreaksInv, Abort

LEMMA StutterBreaks == BreaksInv /\ UNCHANGED vars => BreaksInv'
BY DEF BreaksInv, vars

LEMMA StepBreaks == Sound /\ BreaksInv /\ [Next]_vars => BreaksInv'
<1> SUFFICES ASSUME Sound, BreaksInv, [Next]_vars PROVE BreaksInv' OBVIOUS
<1>1. CASE StepContinue \/ StepSwitchAborts \/ StepCtxAsserts
  BY <1>1, AbortBreaks DEF StepContinue, StepSwitchAborts, StepCtxAsserts
<1>2. CASE UNCHANGED vars BY <1>2, StutterBreaks
<1> QED
  BY <1>1, <1>2, ExprBreaks, AssignBreaks, DeclBreaks, ReturnBreaks, BreakBreaks, NullBreaks,
     CompoundBreaks, CleanupBreaks, IfBreaks, ElseBreaks, JoinBreaks, DoBreaks, LeaveBreaks,
     SwitchBreaks, PartitionBreaks, CaseBreaks, EndCaseBreaks, DefaultBreaks, EndDefaultBreaks,
     EndCasesBreaks DEF Next

(* Where no frame leaves a statement, nothing is caught. *)
LEMMA BreaksImply == Sound /\ BreaksInv => MarkersAreReset
<1> SUFFICES ASSUME Sound, BreaksInv, \A k \in DOMAIN stack : stack[k].op # "leave",
                    NEW k \in DOMAIN Live, Live[k].state = "Break", Live[k].ctx # 0
             PROVE  FALSE
  BY DEF MarkersAreReset, OutsideLoops
<1> DEFINE exact == ~Uninitialized(prog)
           ss == Stmts(prog)
           K == [m \in DOMAIN stack |-> KeptBy(stack[m])]
           rest == FlattenSeq(K)
           x == Live[k].ctx
<1>1. /\ SoundState(paths, stack, ss, exact) /\ exact \in BOOLEAN
      /\ \A s \in ss : IsStmt(s, ss, Uninitialized(prog))
  BY ProgramsAssumption DEF Sound
<1>2. Live = paths \o rest BY DEF Live, Each
<1>3. /\ K = [m \in DOMAIN stack |-> K[m]] /\ DOMAIN K = DOMAIN stack
      /\ \A m \in DOMAIN stack : K[m] = KeptBy(stack[m])
  OBVIOUS
<1>4. x \in Marks(Live) BY MarksAre
<1> HIDE DEF exact, ss, K, x
<1>5. IsSeq(K) BY <1>1, <1>3, FunctionIsSeq DEF SoundState, SoundStack, IsSeq
<1>6. \A m \in DOMAIN K : IsSeq(K[m])
  BY <1>1, <1>3, SoundKept DEF SoundState, SoundStack, SoundPaths
<1>7. IsSeq(rest) /\ IsSeq(paths) BY <1>1, <1>5, <1>6, FlattenMembers DEF SoundState, SoundPaths
<1>8. \A c, m, y : ~Caught(c, stack, m, y) BY DEF Caught
<1>9. x \notin Marks(paths) BY <1>8 DEF BreaksInv, BreaksState
<1>10. x \in Marks(rest)
  <2> HIDE DEF rest
  <2> QED BY <1>2, <1>4, <1>7, <1>9, MarksJoin
<1>11. PICK m \in DOMAIN K : x \in Marks(K[m]) BY <1>5, <1>6, <1>10, MarksFlatten
<1>12. x \in Marks(KeptBy(stack[m])) /\ m \in DOMAIN stack BY <1>3, <1>11
<1> QED BY <1>8, <1>12 DEF BreaksInv, BreaksState

(* Outside every switch and loop no path is left in state Break with the   *)
(* context of a statement: setStmtCtx, setStates and resetBreakState agree *)
(* on it however such statements, branches and cases are nested and the    *)
(* paths are split, in every function body.  Only the null context of a    *)
(* branch is left, of a break that stands in a branch of an if statement.  *)
THEOREM SpecResetsMarkers == Spec => []MarkersAreReset
<1>1. Init => Sound /\ BreaksInv BY InitSound, InitBreaks
<1>2. Sound /\ BreaksInv /\ [Next]_vars => (Sound /\ BreaksInv)' BY StepSound, StepBreaks
<1>3. Spec => [](Sound /\ BreaksInv) BY <1>1, <1>2, PTL DEF Spec
<1> QED BY <1>3, BreaksImply, PTL

-----------------------------------------------------------------------------
(* The execution of a function body is defined: Run is a function whose    *)
(* value at a statement is what Execute makes of its value at the          *)
(* statements inside it.                                                   *)

(* The statements inside a statement are statements of the body. *)
LEMMA ChildrenAre ==
  ASSUME NEW p \in Programs, NEW s \in Stmts(p), NEW t \in Children(s)
  PROVE  t \in Stmts(p) /\ t \in Statements
<1>1. IsStmt(s, Stmts(p), Uninitialized(p)) BY ProgramsAssumption
<1>2. CASE s.kind = "compound"
  <2>1. s.body \in Seq(Stmts(p)) /\ t \in {s.body[k] : k \in DOMAIN s.body}
    BY <1>1, <1>2 DEF IsStmt, Children
  <2> QED BY <2>1 DEF Statements
<1>3. CASE s.kind = "if" BY <1>1, <1>3 DEF IsStmt, Children, Statements
<1>4. CASE s.kind = "do" BY <1>1, <1>4 DEF IsStmt, Children, Statements
<1>5. CASE s.kind = "switch"
  <2>1. /\ s.items \in Seq([labels : Seq({{}} \cup {{n} : n \in Val}), s : Stmts(p)])
        /\ t \in {s.items[k].s : k \in DOMAIN s.items}
    BY <1>1, <1>5 DEF IsStmt, Children
  <2>2. PICK k \in DOMAIN s.items : t = s.items[k].s BY <2>1
  <2>3. s.items[k].s \in Stmts(p) BY <2>1, ItemOf
  <2> QED BY <2>2, <2>3 DEF Statements
<1>6. CASE s.kind \notin {"compound", "if", "do", "switch"} BY <1>6 DEF Children
<1> QED BY <1>2, <1>3, <1>4, <1>5, <1>6

(* A statement is one of a body, and is deeper than those inside it. *)
LEMMA StatementsAre ==
  ASSUME NEW s \in Statements
  PROVE  /\ Depth(s) \in Nat
         /\ \A t \in Children(s) : t \in Statements /\ Depth(t) \in Nat /\ Depth(t) < Depth(s)
<1>1. PICK p \in Programs : s \in Stmts(p) BY DEF Statements
<1>2. Depth(s) \in Nat /\ \A t \in Children(s) : Depth(t) < Depth(s) BY <1>1, DepthAssumption
<1>3. ASSUME NEW t \in Children(s) PROVE t \in Statements /\ Depth(t) \in Nat
  <2>1. t \in Stmts(p) /\ t \in Statements BY <1>1, ChildrenAre
  <2> QED BY <2>1, DepthAssumption
<1> QED BY <1>2, <1>3

(* What a row of statements does depends on the statements in it only. *)
LEMMA SameRow ==
  ASSUME NEW g, NEW h, NEW ss, IsSeq(ss), \A k \in DOMAIN ss : g[ss[k]] = h[ss[k]], NEW st, NEW i
  PROVE  RunAll(g, ss, st, i) = RunAll(h, ss, st, i)
<1> DEFINE F(r, a) == a = [k \in 0 .. Len(ss) |-> IF k = 0 THEN st ELSE r[ss[k]][a[k - 1]][i]]
<1>1. ASSUME NEW k \in 0 .. Len(ss), k # 0 PROVE g[ss[k]] = h[ss[k]]
  <2>1. Len(ss) \in Nat /\ DOMAIN ss = 1 .. Len(ss) BY DEF IsSeq
  <2>2. k \in DOMAIN ss BY <2>1, <1>1
  <2> QED BY <2>2
<1>2. ASSUME NEW a PROVE F(g, a) <=> F(h, a) BY <1>1
<1>3. (CHOOSE a : F(g, a)) = (CHOOSE a : F(h, a)) BY <1>2
<1> QED BY <1>3 DEF RunAll

(* What a statement does depends on the statements inside it only. *)
LEMMA SameExecution ==
  ASSUME NEW s \in Statements, NEW g, NEW h, \A t \in Children(s) : g[t] = h[t], NEW st, NEW i
  PROVE  Execute(g, s, st, i) = Execute(h, s, st, i)
<1>1. PICK p \in Programs : s \in Stmts(p) BY DEF Statements
<1>2. IsStmt(s, Stmts(p), Uninitialized(p)) BY <1>1, ProgramsAssumption
<1>3. CASE s.kind = "compound"
  <2>1. s.body \in Seq(Stmts(p)) BY <1>2, <1>3 DEF IsStmt
  <2>2. IsSeq(s.body) /\ \A k \in DOMAIN s.body : g[s.body[k]] = h[s.body[k]]
    BY <2>1, <1>3, SeqIs DEF Children
  <2>3. RunAll(g, s.body, st, i) = RunAll(h, s.body, st, i) BY <2>2, SameRow
  <2> QED BY <1>3, <2>3 DEF Execute
<1>4. CASE s.kind = "if"
  <2>1. g[s.then] = h[s.then] /\ g[s.else] = h[s.else] BY <1>4 DEF Children
  <2> QED BY <2>1, <1>4 DEF Execute
<1>5. CASE s.kind = "do" BY <1>5 DEF Execute, Children
<1>6. CASE s.kind = "switch"
  <2> DEFINE r == CEval(st.env, s.cond)
             t == Target(s, r.val)
             j == CHOOSE j \in t : TRUE
  <2>1. s.items \in Seq([labels : Seq({{}} \cup {{n} : n \in Val}), s : Stmts(p)])
    BY <1>2, <1>6 DEF IsStmt
  <2>2. CASE t = {} BY <2>2, <1>6 DEF Execute
  <2>3. CASE t # {}
    <3>1. j \in DOMAIN s.items
      <4>1. j \in t BY <2>3
      <4>2. t \subseteq DOMAIN s.items BY DEF Target
      <4> QED BY <4>1, <4>2
    <3>2. Len(s.items) \in Nat /\ DOMAIN s.items = 1 .. Len(s.items) BY <2>1
    <3> DEFINE n == Len(s.items) - j + 1
    <3> HIDE DEF j, t
    <3>3. n \in Nat BY <3>1, <3>2
    <3>4. ItemsFrom(s, j) = [k \in 1 .. n |-> s.items[j + k - 1].s] BY DEF ItemsFrom
    <3>5. IsSeq(ItemsFrom(s, j)) /\ DOMAIN ItemsFrom(s, j) = 1 .. n
      <4> HIDE DEF n
      <4>1. ItemsFrom(s, j) = [k \in 1 .. n |-> ItemsFrom(s, j)[k]] BY <3>4
      <4> QED BY <4>1, <3>3, FunctionIsSeq
    <3>6. ASSUME NEW k \in 1 .. n PROVE g[ItemsFrom(s, j)[k]] = h[ItemsFrom(s, j)[k]]
      <4>1. j + k - 1 \in DOMAIN s.items BY <3>1, <3>2
      <4>2. s.items[j + k - 1].s \in Children(s) BY <4>1, <1>6 DEF Children
      <4> QED BY <4>2, <3>4
    <3>7. \A a : RunAll(g, ItemsFrom(s, j), a, i) = RunAll(h, ItemsFrom(s, j), a, i)
      <4> DEFINE q == ItemsFrom(s, j)
      <4>1. IsSeq(q) /\ \A k \in DOMAIN q : g[q[k]] = h[q[k]] BY <3>5, <3>6
      <4> HIDE DEF q
      <4>2. \A a : RunAll(g, q, a, i) = RunAll(h, q, a, i) BY <4>1, SameRow
      <4> QED BY <4>2 DEF q
    <3>8. CASE st.mode # "run" BY <3>8 DEF Execute
    <3>9. CASE st.mode = "run"
      <4>1. \A f : Execute(f, s, st, i) = Resume(RunAll(f, ItemsFrom(s, j), Running(r.env), i))
        BY <3>9, <1>6, <2>3 DEF Execute, j, t
      <4> QED BY <4>1, <3>7
    <3> QED BY <3>8, <3>9
  <2> QED BY <2>2, <2>3
<1>7. CASE s.kind \notin {"compound", "if", "do", "switch"} BY <1>7 DEF Execute
<1> QED BY <1>3, <1>4, <1>5, <1>6, <1>7

LEMMA SameMeaning ==
  ASSUME NEW s \in Statements, NEW g, NEW h, \A t \in Children(s) : g[t] = h[t]
  PROVE  Meaning(g, s) = Meaning(h, s)
<1>1. \A st, i : Execute(g, s, st, i) = Execute(h, s, st, i) BY SameExecution
<1> QED BY <1>1 DEF Meaning

LEMMA RightExists ==
  ASSUME NEW n \in Nat
  PROVE  \E g : RightBelow(g, n)
<1> DEFINE S == {m \in Nat : \E g : RightBelow(g, m)}
<1>1. 0 \in S
  <2> DEFINE g == [s \in Statements |-> 0]
  <2>1. g = [s \in Statements |-> g[s]] OBVIOUS
  <2>2. \A s \in Statements : ~(Depth(s) < 0) BY StatementsAre
  <2>3. RightBelow(g, 0) BY <2>1, <2>2 DEF RightBelow
  <2> QED BY <2>3
<1>2. ASSUME NEW m \in S PROVE m + 1 \in S
  <2>1. PICK g : RightBelow(g, m) OBVIOUS
  <2> DEFINE h == [s \in Statements |-> Meaning(g, s)]
  <2>2. h = [s \in Statements |-> h[s]] OBVIOUS
  <2>3. ASSUME NEW s \in Statements, Depth(s) < m + 1
        PROVE  h[s] = Meaning(h, s)
    <3>1. ASSUME NEW t \in Children(s) PROVE g[t] = h[t]
      <4>1. t \in Statements /\ Depth(t) \in Nat /\ Depth(t) < Depth(s) /\ Depth(s) \in Nat
        BY StatementsAre
      <4>2. Depth(t) < m BY <4>1, <2>3
      <4> QED BY <4>1, <4>2, <2>1 DEF RightBelow
    <3>2. Meaning(g, s) = Meaning(h, s)
      <4> HIDE DEF h
      <4> QED BY <3>1, SameMeaning
    <3> QED BY <3>2
  <2>4. RightBelow(h, m + 1)
    <3> HIDE DEF h
    <3> QED BY <2>2, <2>3 DEF RightBelow
  <2> QED BY <2>4
<1>3. S = Nat
  <2> HIDE DEF S
  <2>1. S \in SUBSET Nat BY DEF S
  <2> QED BY <1>1, <1>2, <2>1, Induction
<1> QED BY <1>3

LEMMA RightUnique ==
  ASSUME NEW n \in Nat, NEW g, NEW h, RightBelow(g, n), RightBelow(h, n)
  PROVE  \A s \in Statements : Depth(s) < n => g[s] = h[s]
<1> DEFINE S == {m \in Nat : m <= n => \A s \in Statements : Depth(s) < m => g[s] = h[s]}
<1>1. 0 \in S BY StatementsAre
<1>2. ASSUME NEW m \in S PROVE m + 1 \in S
  <2> SUFFICES ASSUME m + 1 <= n, NEW s \in Statements, Depth(s) < m + 1
               PROVE  g[s] = h[s]
    OBVIOUS
  <2>1. Depth(s) \in Nat /\ Depth(s) < n BY StatementsAre
  <2>2. ASSUME NEW t \in Children(s) PROVE g[t] = h[t]
    <3>1. t \in Statements /\ Depth(t) \in Nat /\ Depth(t) < m BY StatementsAre
    <3> QED BY <3>1
  <2>3. Meaning(g, s) = Meaning(h, s) BY <2>2, SameMeaning
  <2> QED BY <2>1, <2>3 DEF RightBelow
<1>3. S = Nat
  <2> HIDE DEF S
  <2>1. S \in SUBSET Nat BY DEF S
  <2> QED BY <1>1, <1>2, <2>1, Induction
<1>4. n \in S BY <1>3
<1> QED BY <1>4

LEMMA RunIs ==
  ASSUME NEW s \in Statements
  PROVE  Run[s] = Meaning(Run, s)
<1> DEFINE Right(t) == CHOOSE g : RightBelow(g, Depth(t) + 1)
           h == [t \in Statements |-> Right(t)[t]]
<1>1. ASSUME NEW t \in Statements PROVE RightBelow(Right(t), Depth(t) + 1)
  <2>1. Depth(t) + 1 \in Nat BY StatementsAre
  <2> QED BY <2>1, RightExists
<1>2. ASSUME NEW t \in Statements PROVE h[t] = Meaning(h, t)
  <2>1. ASSUME NEW u \in Children(t) PROVE Right(t)[u] = h[u]
    <3>1. u \in Statements /\ Depth(u) \in Nat /\ Depth(t) \in Nat /\ Depth(u) < Depth(t)
      BY StatementsAre
    <3>2. RightBelow(Right(t), Depth(u) + 1)
      <4>1. RightBelow(Right(t), Depth(t) + 1) BY <1>1
      <4>2. \A v \in Statements : Depth(v) < Depth(u) + 1 => Depth(v) < Depth(t) + 1
        BY <3>1, StatementsAre
      <4> HIDE DEF Right
      <4> QED BY <4>1, <4>2 DEF RightBelow
    <3>3. RightBelow(Right(u), Depth(u) + 1) BY <3>1, <1>1
    <3>4. Depth(u) + 1 \in Nat /\ Depth(u) < Depth(u) + 1 BY <3>1
    <3>5. Right(t)[u] = Right(u)[u]
      <4> HIDE DEF Right
      <4> QED BY <3>1, <3>2, <3>3, <3>4, RightUnique
    <3> QED BY <3>1, <3>5
  <2>2. Depth(t) < Depth(t) + 1 BY StatementsAre
  <2>3. Right(t)[t] = Meaning(Right(t), t)
    <3>1. RightBelow(Right(t), Depth(t) + 1) BY <1>1
    <3> HIDE DEF Right
    <3> QED BY <3>1, <2>2 DEF RightBelow
  <2>4. Meaning(Right(t), t) = Meaning(h, t)
    <3> HIDE DEF Right, h
    <3> QED BY <2>1, SameMeaning
  <2>5. h[t] = Right(t)[t] OBVIOUS
  <2> QED BY <2>3, <2>4, <2>5
<1>3. h = [t \in Statements |-> Meaning(h, t)]
  <2>1. h = [t \in Statements |-> h[t]] OBVIOUS
  <2> HIDE DEF h
  <2> QED BY <1>2, <2>1
<1>4. h = [t \in Statements |-> [st \in CState |-> [i \in Input |-> Execute(h, t, st, i)]]]
  <2> HIDE DEF h
  <2> QED BY <1>3 DEF Meaning
<1>5. Run = [t \in Statements |-> [st \in CState |-> [i \in Input |-> Execute(Run, t, st, i)]]]
  <2> HIDE DEF h
  <2> QED BY <1>4, Zenon DEF Run
<1> QED BY <1>5, Zenon DEF Meaning

LEMMA RunAt ==
  ASSUME NEW s \in Statements, NEW st \in CState, NEW i \in Input
  PROVE  Run[s][st][i] = Execute(Run, s, st, i)
<1>1. Run[s] = Meaning(Run, s) BY RunIs
<1>2. Run[s][st] = [j \in Input |-> Execute(Run, s, st, j)] BY <1>1 DEF Meaning
<1> QED BY <1>2

-----------------------------------------------------------------------------
(* Executions are typed, write what is in Writes, and do not go on after a *)
(* break or a return.                                                      *)

LEMMA EnvIs ==
  ASSUME NEW env
  PROVE  env \in Env <=> /\ env = [v \in DOMAIN env |-> env[v]]
                         /\ DOMAIN env \subseteq Var /\ Var \ Local \subseteq DOMAIN env
                         /\ \A v \in DOMAIN env : env[v] \in Val
<1>1. ASSUME env \in Env
      PROVE  /\ env = [v \in DOMAIN env |-> env[v]]
             /\ DOMAIN env \subseteq Var /\ Var \ Local \subseteq DOMAIN env
             /\ \A v \in DOMAIN env : env[v] \in Val
  <2>1. PICK D \in {E \in SUBSET Var : Var \ Local \subseteq E} : env \in [D -> Val] BY <1>1 DEF Env
  <2> QED BY <2>1
<1>2. ASSUME env = [v \in DOMAIN env |-> env[v]],
             DOMAIN env \subseteq Var, Var \ Local \subseteq DOMAIN env,
             \A v \in DOMAIN env : env[v] \in Val
      PROVE  env \in Env
  <2>1. env \in [DOMAIN env -> Val] BY <1>2
  <2>2. DOMAIN env \in {E \in SUBSET Var : Var \ Local \subseteq E} BY <1>2
  <2> QED BY <2>1, <2>2 DEF Env
<1> QED BY <1>1, <1>2

LEMMA CStateIs ==
  ASSUME NEW st
  PROVE  st \in CState <=> /\ st = [env |-> st.env, mode |-> st.mode, ret |-> st.ret]
                           /\ st.env \in Env /\ st.mode \in {"run", "break", "return"}
                           /\ st.ret \subseteq Val
                           /\ st.mode # "return" => st.ret = {}
BY DEF CState

LEMMA RunningTyped ==
  ASSUME NEW env \in Env
  PROVE  /\ Running(env) \in CState
         /\ Running(env).env = env /\ Running(env).mode = "run" /\ Running(env).ret = {}
BY CStateIs DEF Running

LEMMA IsRunning ==
  ASSUME NEW st \in CState, st.mode = "run"
  PROVE  st = Running(st.env) /\ st.env \in Env
BY CStateIs DEF Running

LEMMA PutTyped ==
  ASSUME NEW env \in Env, NEW v \in Var, NEW n \in Val
  PROVE  /\ Put(env, v, n) \in Env
         /\ \A w : w \in DOMAIN Put(env, v, n) <=> w \in DOMAIN env \/ w = v
<1> DEFINE q == Put(env, v, n)
<1>1. /\ DOMAIN env \subseteq Var /\ Var \ Local \subseteq DOMAIN env
      /\ \A w \in DOMAIN env : env[w] \in Val
  BY EnvIs
<1>2. /\ q = [w \in DOMAIN q |-> q[w]] /\ DOMAIN q = DOMAIN env \cup {v}
      /\ \A w \in DOMAIN q : q[w] \in Val
  BY <1>1 DEF Put
<1>3. q \in Env
  <2>1. DOMAIN q \subseteq Var /\ Var \ Local \subseteq DOMAIN q BY <1>1, <1>2
  <2> HIDE DEF q
  <2> QED BY <2>1, <1>2, EnvIs
<1> QED BY <1>2, <1>3

(* The expressions of a statement. *)
LEMMA ExprIs ==
  ASSUME NEW p \in Programs, NEW s \in Stmts(p), NEW e \in ExprsOf(s)
  PROVE  IsExpr(e) /\ IsTyped(e) /\ WrittenBy(e) \subseteq Writes(s)
<1>1. IsTyped(e) BY ExprAssumption
<1>2. WrittenBy(e) \subseteq Writes(s) BY ScopeAssumption
<1>3. IsStmt(s, Stmts(p), Uninitialized(p)) BY ProgramsAssumption
<1>4. IsExpr(e)
  <2>1. CASE s.kind \in {"expr", "assign"} BY <1>3, <2>1 DEF IsStmt, ExprsOf
  <2>2. CASE s.kind = "decl" BY <1>3, <2>2 DEF IsStmt, ExprsOf
  <2>3. CASE s.kind = "return" BY <1>3, <2>3 DEF IsStmt, ExprsOf
  <2>4. CASE s.kind \in {"if", "switch"} BY <1>3, <2>4 DEF IsStmt, ExprsOf
  <2>5. CASE s.kind \notin {"expr", "assign", "decl", "return", "if", "switch"} BY <2>5 DEF ExprsOf
  <2> QED BY <2>1, <2>2, <2>3, <2>4, <2>5
<1> QED BY <1>1, <1>2, <1>4

LEMMA CEvalTyped ==
  ASSUME NEW e, IsExpr(e), IsTyped(e), NEW env \in Env
  PROVE  /\ CEval(env, e).val \in Val /\ CEval(env, e).env \in Env
         /\ \A v \in DOMAIN CEval(env, e).env : v \in DOMAIN env \/ v \in WrittenBy(e)
<1>1. CASE e.kind = "pure" BY <1>1 DEF IsTyped, IsPure, CEval
<1>2. CASE e.kind = "cond" BY <1>2 DEF IsTyped, IsPure, CEval
<1>3. CASE e.kind = "write"
  <2>1. e.var \in Var /\ Apply(e.new, env) \in Val /\ Apply(e.val, env) \in Val
    BY <1>3 DEF IsTyped, IsPure
  <2>2. CEval(env, e) = [val |-> Apply(e.val, env), env |-> Put(env, e.var, Apply(e.new, env))]
    BY <1>3 DEF CEval
  <2>3. WrittenBy(e) = {e.var} BY <1>3 DEF WrittenBy
  <2>4. CEval(env, e).val \in Val /\ CEval(env, e).env = Put(env, e.var, Apply(e.new, env))
    BY <2>1, <2>2
  <2> QED BY <2>1, <2>3, <2>4, PutTyped
<1>4. CASE e.kind = "and"
  <2>1. /\ e.b.var \in Var /\ Apply(e.b.new, env) \in Val BY <1>4 DEF IsTyped, IsPure
  <2>2. CASE Apply(e.a, env) = 0 BY <1>4, <2>2, ValAssumption DEF CEval
  <2>3. CASE Apply(e.a, env) # 0
    <3>1. /\ CEval(env, e).val = IF Apply(e.b.val, env) # 0 THEN 1 ELSE 0
          /\ CEval(env, e).env = Put(env, e.b.var, Apply(e.b.new, env))
      BY <1>4, <2>3 DEF CEval
    <3>2. WrittenBy(e) = {e.b.var} BY <1>4 DEF WrittenBy
    <3>3. CEval(env, e).val \in Val BY <3>1, ValAssumption
    <3> QED BY <2>1, <3>1, <3>2, <3>3, PutTyped
  <2> QED BY <2>2, <2>3
<1> QED BY <1>1, <1>2, <1>3, <1>4 DEF IsExpr

LEMMA AssignedTyped ==
  ASSUME NEW e, IsExpr(e), IsTyped(e), NEW env \in Env, NEW v \in Var
  PROVE  /\ Assigned(env, v, e) \in CState /\ Assigned(env, v, e).mode = "run"
         /\ \A w \in DOMAIN Assigned(env, v, e).env : w \in DOMAIN env \/ w \in WrittenBy(e) \/ w = v
<1> DEFINE r == CEval(env, e)
<1>1. /\ r.val \in Val /\ r.env \in Env
      /\ \A w \in DOMAIN r.env : w \in DOMAIN env \/ w \in WrittenBy(e)
  BY CEvalTyped
<1>2. /\ Put(r.env, v, r.val) \in Env
      /\ \A w : w \in DOMAIN Put(r.env, v, r.val) <=> w \in DOMAIN r.env \/ w = v
  <2> HIDE DEF r
  <2> QED BY <1>1, PutTyped
<1>3. Assigned(env, v, e) = Running(Put(r.env, v, r.val)) BY DEF Assigned
<1> HIDE DEF r
<1> QED BY <1>1, <1>2, <1>3, RunningTyped

LEMMA ResumeTyped ==
  ASSUME NEW st \in CState
  PROVE  Resume(st) \in CState /\ Resume(st).env = st.env /\ Resume(st).mode # "break"
<1>1. CASE st.mode = "break"
  <2>1. Resume(st) = Running(st.env) /\ st.env \in Env BY <1>1, CStateIs DEF Resume
  <2> QED BY <2>1, RunningTyped
<1>2. CASE st.mode # "break" BY <1>2 DEF Resume
<1> QED BY <1>1, <1>2

LEMMA LeaveTyped ==
  ASSUME NEW st \in CState, NEW ls \in SUBSET Local
  PROVE  /\ Leave(st, ls) \in CState
         /\ Leave(st, ls).mode = st.mode /\ Leave(st, ls).ret = st.ret
         /\ DOMAIN Leave(st, ls).env = DOMAIN st.env \ ls
<1> DEFINE q == [v \in DOMAIN st.env \ ls |-> st.env[v]]
<1>1. /\ st = [env |-> st.env, mode |-> st.mode, ret |-> st.ret] /\ st.env \in Env
      /\ st.mode \in {"run", "break", "return"} /\ st.ret \subseteq Val
      /\ st.mode # "return" => st.ret = {}
  BY CStateIs
<1>2. q = [v \in DOMAIN q |-> q[v]] /\ DOMAIN q = DOMAIN st.env \ ls OBVIOUS
<1>3. DOMAIN q \subseteq Var /\ Var \ Local \subseteq DOMAIN q /\ \A v \in DOMAIN q : q[v] \in Val
  <2>1. /\ DOMAIN st.env \subseteq Var /\ Var \ Local \subseteq DOMAIN st.env
        /\ \A v \in DOMAIN st.env : st.env[v] \in Val
    BY <1>1, EnvIs
  <2> QED BY <2>1
<1>4. q \in Env
  <2> HIDE DEF q
  <2> QED BY <1>2, <1>3, EnvIs
<1>5. Leave(st, ls) = [env |-> q, mode |-> st.mode, ret |-> st.ret] BY <1>1 DEF Leave
<1> HIDE DEF q
<1>6. Leave(st, ls) \in CState BY <1>1, <1>4, <1>5, CStateIs
<1> QED BY <1>2, <1>5, <1>6

LEMMA RowTrace ==
  ASSUME NEW ss, IsSeq(ss), NEW st, NEW i
  PROVE  \E a : RowOf(a, ss, st, i) /\ a[Len(ss)] = RunAll(Run, ss, st, i)
<1> DEFINE F(a, n) == a = [k \in 0 .. n |-> IF k = 0 THEN st ELSE Run[ss[k]][a[k - 1]][i]]
           S == {n \in Nat : \E a : F(a, n)}
<1>1. 0 \in S
  <2> DEFINE b == [k \in 0 .. 0 |-> st]
  <2>1. b = [k \in 0 .. 0 |-> IF k = 0 THEN st ELSE Run[ss[k]][b[k - 1]][i]] OBVIOUS
  <2> QED BY <2>1
<1>2. ASSUME NEW n \in S PROVE n + 1 \in S
  <2>0. n \in Nat OBVIOUS
  <2>1. PICK a : F(a, n) OBVIOUS
  <2> DEFINE b == [k \in 0 .. n + 1 |-> IF k = n + 1 THEN Run[ss[k]][a[n]][i] ELSE a[k]]
  <2>2. ASSUME NEW k \in 0 .. n + 1 PROVE b[k] = IF k = 0 THEN st ELSE Run[ss[k]][b[k - 1]][i]
    <3>1. CASE k = n + 1
      <4>1. b[n] = a[n] /\ k - 1 = n /\ k # 0 BY <3>1
      <4> QED BY <3>1, <4>1
    <3>2. CASE k \in 0 .. n
      <4>1. b[k] = a[k] /\ (k # 0 => k - 1 \in 0 .. n /\ b[k - 1] = a[k - 1]) BY <3>2
      <4> QED BY <2>1, <3>2, <4>1
    <3>3. k = n + 1 \/ k \in 0 .. n BY <2>0
    <3> QED BY <3>1, <3>2, <3>3
  <2>3. b = [k \in 0 .. n + 1 |-> b[k]] OBVIOUS
  <2>4. F(b, n + 1)
    <3> HIDE DEF b
    <3> QED BY <2>2, <2>3
  <2> HIDE DEF F
  <2> QED BY <2>0, <2>4
<1>3. S = Nat
  <2> HIDE DEF S
  <2>1. S \in SUBSET Nat BY DEF S
  <2> QED BY <1>1, <1>2, <2>1, Induction
<1>4. Len(ss) \in Nat /\ DOMAIN ss = 1 .. Len(ss) BY DEF IsSeq
<1>5. PICK b : F(b, Len(ss)) BY <1>3, <1>4
<1> DEFINE a == CHOOSE x : F(x, Len(ss))
<1>6. F(a, Len(ss)) BY <1>5
<1>7. RunAll(Run, ss, st, i) = a[Len(ss)] BY DEF RunAll
<1> HIDE DEF a
<1>8. ASSUME NEW k \in DOMAIN ss PROVE a[k] = Run[ss[k]][a[k - 1]][i]
  <2>1. k \in 0 .. Len(ss) /\ k # 0 BY <1>4
  <2> QED BY <1>6, <2>1
<1>9. a[0] = st BY <1>4, <1>6
<1>10. RowOf(a, ss, st, i) BY <1>8, <1>9 DEF RowOf
<1> QED BY <1>7, <1>10

LEMMA GoodRow ==
  ASSUME NEW ss, IsSeq(ss), NEW W, \A k \in DOMAIN ss : Good(ss[k]) /\ Writes(ss[k]) \subseteq W,
         NEW st \in CState, NEW i \in Input, NEW a, RowOf(a, ss, st, i)
  PROVE  \A k \in 0 .. Len(ss) : GoodPlace(a, k, st, W)
<1> DEFINE Q(k) == GoodPlace(a, k, st, W)
           S == {k \in Nat : k <= Len(ss) => Q(k)}
<1>1. Len(ss) \in Nat /\ DOMAIN ss = 1 .. Len(ss) BY DEF IsSeq
<1>2. 0 \in S BY DEF RowOf, GoodPlace
<1>3. ASSUME NEW k \in S PROVE k + 1 \in S
  <2> SUFFICES ASSUME k + 1 <= Len(ss) PROVE Q(k + 1) OBVIOUS
  <2>1. k + 1 \in DOMAIN ss /\ k + 1 - 1 = k /\ k <= Len(ss) BY <1>1
  <2>2. a[k + 1] = Run[ss[k + 1]][a[k]][i] /\ Good(ss[k + 1]) /\ Writes(ss[k + 1]) \subseteq W
    BY <2>1 DEF RowOf
  <2>3. Q(k) BY <2>1
  <2>4. /\ a[k + 1] \in CState
        /\ \A v \in DOMAIN a[k + 1].env : v \in DOMAIN a[k].env \/ v \in Writes(ss[k + 1])
        /\ a[k].mode # "run" => a[k + 1] = a[k]
    BY <2>2, <2>3 DEF Good, GoodPlace
  <2> QED BY <2>1, <2>2, <2>3, <2>4 DEF GoodPlace
<1>4. S = Nat
  <2> HIDE DEF S
  <2>1. S \in SUBSET Nat BY DEF S
  <2> QED BY <1>2, <1>3, <2>1, Induction
<1> QED BY <1>1, <1>4

LEMMA GoodRun ==
  ASSUME NEW ss, IsSeq(ss), NEW W, \A k \in DOMAIN ss : Good(ss[k]) /\ Writes(ss[k]) \subseteq W,
         NEW st \in CState, NEW i \in Input
  PROVE  /\ RunAll(Run, ss, st, i) \in CState
         /\ \A v \in DOMAIN RunAll(Run, ss, st, i).env : v \in DOMAIN st.env \/ v \in W
<1>1. PICK a : RowOf(a, ss, st, i) /\ a[Len(ss)] = RunAll(Run, ss, st, i) BY RowTrace
<1>2. Len(ss) \in 0 .. Len(ss) BY DEF IsSeq
<1>3. \A k \in 0 .. Len(ss) : GoodPlace(a, k, st, W) BY <1>1, GoodRow
<1> QED BY <1>1, <1>2, <1>3 DEF GoodPlace

(* The items of a switch statement that an execution of it passes. *)
LEMMA ItemsFromIs ==
  ASSUME NEW p \in Programs, NEW s \in Stmts(p), s.kind = "switch", NEW j \in DOMAIN s.items
  PROVE  /\ IsSeq(ItemsFrom(s, j))
         /\ Len(s.items) \in Nat /\ DOMAIN s.items = 1 .. Len(s.items)
         /\ j \in Nat /\ Len(ItemsFrom(s, j)) = Len(s.items) - j + 1
         /\ \A k \in DOMAIN ItemsFrom(s, j) :
              /\ k \in Nat \ {0} /\ j + k - 1 \in DOMAIN s.items
              /\ ItemsFrom(s, j)[k] = s.items[j + k - 1].s
              /\ ItemsFrom(s, j)[k] \in Children(s)
<1> DEFINE n == Len(s.items) - j + 1
<1>1. s.items \in Seq([labels : Seq({{}} \cup {{m} : m \in Val}), s : Stmts(p)])
  BY ProgramsAssumption DEF IsStmt
<1>2. Len(s.items) \in Nat /\ DOMAIN s.items = 1 .. Len(s.items) BY <1>1
<1>3. n \in Nat /\ j \in Nat BY <1>2
<1>4. ItemsFrom(s, j) = [k \in 1 .. n |-> s.items[j + k - 1].s] BY DEF ItemsFrom
<1>5. IsSeq(ItemsFrom(s, j)) /\ DOMAIN ItemsFrom(s, j) = 1 .. n /\ Len(ItemsFrom(s, j)) = n
  <2> HIDE DEF n
  <2>1. ItemsFrom(s, j) = [k \in 1 .. n |-> ItemsFrom(s, j)[k]] BY <1>4
  <2> QED BY <2>1, <1>3, FunctionIsSeq
<1>6. ASSUME NEW k \in 1 .. n
      PROVE  /\ k \in Nat \ {0} /\ j + k - 1 \in DOMAIN s.items
             /\ ItemsFrom(s, j)[k] = s.items[j + k - 1].s
             /\ ItemsFrom(s, j)[k] \in Children(s)
  <2>1. k \in Nat \ {0} /\ j + k - 1 \in DOMAIN s.items BY <1>2, <1>3
  <2>2. s.items[j + k - 1].s \in Children(s) BY <2>1 DEF Children
  <2> QED BY <2>1, <2>2, <1>4
<1> QED BY <1>2, <1>3, <1>5, <1>6

LEMMA GoodWrite ==
  ASSUME NEW p \in Programs, NEW s \in Stmts(p), s \in Statements,
         s.kind \in {"expr", "assign", "decl", "return", "break"},
         NEW st \in CState, NEW i \in Input, st.mode = "run"
  PROVE  LET r == Execute(Run, s, st, i)
         IN  r \in CState /\ \A v \in DOMAIN r.env : v \in DOMAIN st.env \/ v \in Writes(s)
<1>1. IsStmt(s, Stmts(p), Uninitialized(p)) BY ProgramsAssumption
<1>2. st = Running(st.env) /\ st.env \in Env BY IsRunning
<1>3. ASSUME NEW e \in ExprsOf(s)
      PROVE  IsExpr(e) /\ IsTyped(e) /\ WrittenBy(e) \subseteq Writes(s)
  BY ExprIs
<1>4. ASSUME NEW e \in ExprsOf(s)
      PROVE  /\ CEval(st.env, e).val \in Val /\ CEval(st.env, e).env \in Env
             /\ \A v \in DOMAIN CEval(st.env, e).env : v \in DOMAIN st.env \/ v \in WrittenBy(e)
  BY <1>2, <1>3, CEvalTyped
<1>5. CASE s.kind = "expr"
  <2>1. s.e \in ExprsOf(s) BY <1>5 DEF ExprsOf
  <2>2. Execute(Run, s, st, i) = Running(CEval(st.env, s.e).env) BY <1>5 DEF Execute
  <2> QED BY <2>1, <2>2, <1>3, <1>4, RunningTyped
<1>6. CASE s.kind = "assign"
  <2>1. s.e \in ExprsOf(s) BY <1>6 DEF ExprsOf
  <2>2. Execute(Run, s, st, i) = Assigned(st.env, s.var, s.e) BY <1>6 DEF Execute
  <2>3. s.var \in Var /\ s.var \in Writes(s) BY <1>6, ExprAssumption, ScopeAssumption
  <2>4. IsExpr(s.e) /\ IsTyped(s.e) /\ WrittenBy(s.e) \subseteq Writes(s) BY <2>1, <1>3
  <2>5. /\ Assigned(st.env, s.var, s.e) \in CState
        /\ \A w \in DOMAIN Assigned(st.env, s.var, s.e).env :
             w \in DOMAIN st.env \/ w \in WrittenBy(s.e) \/ w = s.var
    BY <2>3, <2>4, <1>2, AssignedTyped
  <2> QED BY <2>2, <2>3, <2>4, <2>5
<1>7. CASE s.kind = "decl"
  <2>1. s.var \in Var /\ s.var \in Writes(s)
    BY <1>1, <1>7, LocalAssumption, ScopeAssumption DEF IsStmt
  <2>2. CASE s.init = {}
    <3>1. Execute(Run, s, st, i) = Running(Put(st.env, s.var, i[s.var])) BY <1>7, <2>2 DEF Execute
    <3>2. i[s.var] \in Val BY <2>1, InputAssumption
    <3>3. /\ Put(st.env, s.var, i[s.var]) \in Env
          /\ \A w : w \in DOMAIN Put(st.env, s.var, i[s.var]) <=> w \in DOMAIN st.env \/ w = s.var
      BY <2>1, <3>2, <1>2, PutTyped
    <3> QED BY <2>1, <3>1, <3>3, RunningTyped
  <2>3. CASE s.init # {}
    <3> DEFINE e == CHOOSE x \in s.init : TRUE
    <3>1. e \in ExprsOf(s) BY <1>7, <2>3 DEF ExprsOf
    <3>2. Execute(Run, s, st, i) = Assigned(st.env, s.var, e) BY <1>7, <2>3 DEF Execute
    <3> HIDE DEF e
    <3>3. IsExpr(e) /\ IsTyped(e) /\ WrittenBy(e) \subseteq Writes(s) BY <3>1, <1>3
    <3>4. /\ Assigned(st.env, s.var, e) \in CState
          /\ \A w \in DOMAIN Assigned(st.env, s.var, e).env :
               w \in DOMAIN st.env \/ w \in WrittenBy(e) \/ w = s.var
      BY <2>1, <3>3, <1>2, AssignedTyped
    <3> QED BY <2>1, <3>2, <3>3, <3>4
  <2> QED BY <2>2, <2>3
<1>8. CASE s.kind = "return"
  <2>1. CASE s.e = {}
    <3>1. Execute(Run, s, st, i) = [st EXCEPT !.mode = "return"] BY <1>8, <2>1 DEF Execute
    <3> QED BY <3>1, <1>2, CStateIs DEF Running
  <2>2. CASE s.e # {}
    <3> DEFINE e == CHOOSE x \in s.e : TRUE
    <3>1. e \in ExprsOf(s) BY <1>8, <2>2 DEF ExprsOf
    <3> DEFINE r == CEval(st.env, e)
    <3>2. Execute(Run, s, st, i) = [env |-> r.env, mode |-> "return", ret |-> {r.val}]
      BY <1>8, <2>2 DEF Execute
    <3> HIDE DEF e
    <3>3. WrittenBy(e) \subseteq Writes(s) BY <3>1, <1>3
    <3>4. /\ r.val \in Val /\ r.env \in Env
          /\ \A v \in DOMAIN r.env : v \in DOMAIN st.env \/ v \in WrittenBy(e)
      BY <3>1, <1>4
    <3> HIDE DEF r
    <3>5. [env |-> r.env, mode |-> "return", ret |-> {r.val}] \in CState BY <3>4, CStateIs
    <3> QED BY <3>2, <3>3, <3>4, <3>5
  <2> QED BY <2>1, <2>2
<1>9. CASE s.kind = "break"
  <2>1. Execute(Run, s, st, i) = [st EXCEPT !.mode = "break"] BY <1>9 DEF Execute
  <2> QED BY <2>1, <1>2, CStateIs DEF Running
<1> QED BY <1>5, <1>6, <1>7, <1>8, <1>9

LEMMA GoodAround ==
  ASSUME NEW p \in Programs, NEW s \in Stmts(p), s \in Statements,
         s.kind \in {"compound", "if", "do", "switch"},
         \A t \in Children(s) : Good(t),
         NEW st \in CState, NEW i \in Input, st.mode = "run"
  PROVE  LET r == Execute(Run, s, st, i)
         IN  r \in CState /\ \A v \in DOMAIN r.env : v \in DOMAIN st.env \/ v \in Writes(s)
<1>1. IsStmt(s, Stmts(p), Uninitialized(p)) BY ProgramsAssumption
<1>2. st = Running(st.env) /\ st.env \in Env BY IsRunning
<1>3. /\ OwnLocals(s) \subseteq Local
      /\ \A t \in Children(s) : Writes(t) \subseteq Writes(s) \cup OwnLocals(s)
  BY ScopeAssumption
<1>4. CASE s.kind = "compound"
  <2> DEFINE r == RunAll(Run, s.body, st, i)
  <2>1. s.body \in Seq(Stmts(p)) BY <1>1, <1>4 DEF IsStmt
  <2>2. IsSeq(s.body) /\ \A k \in DOMAIN s.body : s.body[k] \in Children(s)
    BY <2>1, <1>4, SeqIs DEF Children
  <2>3. /\ r \in CState
        /\ \A v \in DOMAIN r.env : v \in DOMAIN st.env \/ v \in Writes(s) \cup OwnLocals(s)
    <3>1. \A k \in DOMAIN s.body : Good(s.body[k]) /\ Writes(s.body[k]) \subseteq Writes(s) \cup OwnLocals(s)
      BY <2>2, <1>3
    <3> QED BY <2>2, <3>1, GoodRun
  <2>4. OwnLocals(s) = LocalsOf(s) BY <1>4 DEF OwnLocals
  <2>5. Execute(Run, s, st, i) = Leave(r, LocalsOf(s)) BY <1>4 DEF Execute
  <2> HIDE DEF r
  <2>6. Leave(r, LocalsOf(s)) \in CState /\ DOMAIN Leave(r, LocalsOf(s)).env = DOMAIN r.env \ LocalsOf(s)
    BY <2>3, <2>4, <1>3, LeaveTyped
  <2> QED BY <2>3, <2>4, <2>5, <2>6
<1>5. ASSUME s.kind \in {"if", "switch"}
      PROVE  /\ CEval(st.env, s.cond).env \in Env
             /\ \A v \in DOMAIN CEval(st.env, s.cond).env : v \in DOMAIN st.env \/ v \in Writes(s)
  <2>1. s.cond \in ExprsOf(s) BY <1>5 DEF ExprsOf
  <2> QED BY <1>2, <2>1, ExprIs, CEvalTyped
<1>6. s.kind # "compound" => OwnLocals(s) = {} BY DEF OwnLocals
<1>7. CASE s.kind = "if"
  <2> DEFINE r == CEval(st.env, s.cond)
             t == IF r.val # 0 THEN s.then ELSE s.else
  <2>1. Execute(Run, s, st, i) = Run[t][Running(r.env)][i] BY <1>7 DEF Execute
  <2>2. t \in Children(s) BY <1>7 DEF Children
  <2>3. Good(t) /\ Writes(t) \subseteq Writes(s) BY <2>2, <1>3, <1>6, <1>7
  <2>4. Running(r.env) \in CState /\ Running(r.env).env = r.env BY <1>5, <1>7, RunningTyped
  <2>5. \A v \in DOMAIN r.env : v \in DOMAIN st.env \/ v \in Writes(s) BY <1>5, <1>7
  <2> HIDE DEF r, t
  <2> QED BY <2>1, <2>3, <2>4, <2>5 DEF Good
<1>8. CASE s.kind = "do"
  <2>1. Execute(Run, s, st, i) = Resume(Run[s.body][st][i]) BY <1>8 DEF Execute
  <2>2. s.body \in Children(s) BY <1>8 DEF Children
  <2>3. Good(s.body) /\ Writes(s.body) \subseteq Writes(s) BY <2>2, <1>3, <1>6, <1>8
  <2>4. /\ Run[s.body][st][i] \in CState
        /\ \A v \in DOMAIN Run[s.body][st][i].env : v \in DOMAIN st.env \/ v \in Writes(s)
    BY <2>3 DEF Good
  <2> QED BY <2>1, <2>4, ResumeTyped
<1>9. CASE s.kind = "switch"
  <2> DEFINE r == CEval(st.env, s.cond)
             t == Target(s, r.val)
             j == CHOOSE x \in t : TRUE
             q == RunAll(Run, ItemsFrom(s, j), Running(r.env), i)
  <2>1. Running(r.env) \in CState /\ Running(r.env).env = r.env BY <1>5, <1>9, RunningTyped
  <2>2. \A v \in DOMAIN r.env : v \in DOMAIN st.env \/ v \in Writes(s) BY <1>5, <1>9
  <2>3. CASE t = {}
    <3>1. Execute(Run, s, st, i) = Running(r.env) BY <1>9, <2>3 DEF Execute
    <3> QED BY <3>1, <2>1, <2>2
  <2>4. CASE t # {}
    <3>1. Execute(Run, s, st, i) = Resume(q) BY <1>9, <2>4 DEF Execute
    <3>2. j \in DOMAIN s.items
      <4>1. t \subseteq DOMAIN s.items BY DEF Target
      <4> QED BY <2>4, <4>1
    <3> HIDE DEF r, j
    <3>3. /\ IsSeq(ItemsFrom(s, j))
          /\ \A k \in DOMAIN ItemsFrom(s, j) : ItemsFrom(s, j)[k] \in Children(s)
      BY <3>2, <1>9, ItemsFromIs
    <3>4. \A k \in DOMAIN ItemsFrom(s, j) :
            Good(ItemsFrom(s, j)[k]) /\ Writes(ItemsFrom(s, j)[k]) \subseteq Writes(s)
      BY <3>3, <1>3, <1>6, <1>9
    <3>5. q \in CState /\ \A v \in DOMAIN q.env : v \in DOMAIN Running(r.env).env \/ v \in Writes(s)
      BY <3>3, <3>4, <2>1, GoodRun
    <3> HIDE DEF q
    <3> QED BY <3>1, <3>5, <2>1, <2>2, ResumeTyped
  <2> QED BY <2>3, <2>4
<1> QED BY <1>4, <1>7, <1>8, <1>9

(* Every execution is good. *)
LEMMA Executes ==
  ASSUME NEW s \in Statements
  PROVE  Good(s)
<1> DEFINE S == {n \in Nat : \A t \in Statements : Depth(t) < n => Good(t)}
<1>1. 0 \in S BY StatementsAre
<1>2. ASSUME NEW n \in S PROVE n + 1 \in S
  <2> SUFFICES ASSUME NEW t \in Statements, Depth(t) < n + 1 PROVE Good(t) OBVIOUS
  <2>1. ASSUME NEW u \in Children(t) PROVE Good(u)
    <3>1. u \in Statements /\ Depth(u) \in Nat /\ Depth(u) < Depth(t) /\ Depth(t) \in Nat
      BY StatementsAre
    <3> QED BY <3>1
  <2>2. PICK p \in Programs : t \in Stmts(p) BY DEF Statements
  <2> SUFFICES ASSUME NEW st \in CState, NEW i \in Input
               PROVE  /\ Run[t][st][i] \in CState
                      /\ \A v \in DOMAIN Run[t][st][i].env : v \in DOMAIN st.env \/ v \in Writes(t)
                      /\ st.mode # "run" => Run[t][st][i] = st
    BY DEF Good
  <2>3. Run[t][st][i] = Execute(Run, t, st, i) BY RunAt
  <2>4. CASE st.mode # "run"
    <3>1. Run[t][st][i] = st BY <2>3, <2>4 DEF Execute
    <3> QED BY <3>1
  <2>5. CASE st.mode = "run"
    <3>1. CASE t.kind \in {"expr", "assign", "decl", "return", "break"}
      BY <2>2, <2>3, <2>5, <3>1, GoodWrite
    <3>2. CASE t.kind \in {"compound", "if", "do", "switch"}
      BY <2>1, <2>2, <2>3, <2>5, <3>2, GoodAround
    <3>3. CASE t.kind \notin {"expr", "assign", "decl", "return", "break", "compound", "if", "do", "switch"}
      <4>1. Run[t][st][i] = st BY <2>3, <2>5, <3>3 DEF Execute
      <4> QED BY <4>1
    <3> QED BY <3>1, <3>2, <3>3, <2>5
  <2> QED BY <2>4, <2>5
<1>3. S = Nat
  <2> HIDE DEF S
  <2>1. S \in SUBSET Nat BY DEF S
  <2> QED BY <1>1, <1>2, <2>1, Induction
<1>4. Depth(s) + 1 \in S /\ Depth(s) \in Nat BY <1>3, StatementsAre
<1> QED BY <1>4

(* A break leaves only loose statements. *)
LEMMA NotLoose ==
  ASSUME NEW p \in Programs, NEW loose, OwnBreaks(p, loose), NEW s \in Stmts(p), s \notin loose,
         NEW st \in CState, NEW i \in Input, st.mode # "break"
  PROVE  Run[s][st][i].mode # "break"
<1> DEFINE Tight(t) == \A a \in CState : a.mode # "break" => Run[t][a][i].mode # "break"
           S == {n \in Nat : \A t \in Stmts(p) : t \notin loose /\ Depth(t) < n => Tight(t)}
<1>0. \A t \in Stmts(p) : t \in Statements BY DEF Statements
<1>1. 0 \in S BY <1>0, StatementsAre
<1>2. ASSUME NEW n \in S PROVE n + 1 \in S
  <2> SUFFICES ASSUME NEW t \in Stmts(p), t \notin loose, Depth(t) < n + 1 PROVE Tight(t) OBVIOUS
  <2>1. t \in Statements BY <1>0
  <2>2. ASSUME NEW u \in Children(t), u \notin loose PROVE Tight(u)
    <3>1. u \in Stmts(p) /\ Depth(u) \in Nat /\ Depth(u) < Depth(t) /\ Depth(t) \in Nat
      BY <2>1, ChildrenAre, StatementsAre
    <3> QED BY <2>2, <3>1
  <2> SUFFICES ASSUME NEW a \in CState, a.mode # "break" PROVE Run[t][a][i].mode # "break" OBVIOUS
  <2>3. Run[t][a][i] = Execute(Run, t, a, i) BY <2>1, RunAt
  <2>4. IsStmt(t, Stmts(p), Uninitialized(p)) BY ProgramsAssumption
  <2>5. CASE a.mode # "run" BY <2>3, <2>5 DEF Execute
  <2>6. CASE a.mode = "run" /\ t.kind = "compound"
    <3>1. t.body \in Seq(Stmts(p)) BY <2>4, <2>6 DEF IsStmt
    <3>2. IsSeq(t.body) /\ Len(t.body) \in Nat /\ DOMAIN t.body = 1 .. Len(t.body) BY <3>1, SeqIs
    <3>3. ASSUME NEW k \in DOMAIN t.body
          PROVE  Tight(t.body[k]) /\ Good(t.body[k])
      <4>1. t.body[k] \in Children(t) /\ t.body[k] \notin loose BY <2>6 DEF Children, OwnBreaks
      <4>2. Tight(t.body[k])
        <5> HIDE DEF Tight
        <5> QED BY <4>1, <2>2
      <4>3. Good(t.body[k]) BY <4>1, <2>1, StatementsAre, Executes
      <4> QED BY <4>2, <4>3
    <3>4. PICK q : RowOf(q, t.body, a, i) /\ q[Len(t.body)] = RunAll(Run, t.body, a, i)
      BY <3>2, RowTrace
    <3> DEFINE T == {k \in Nat : k <= Len(t.body) => q[k] \in CState /\ q[k].mode # "break"}
    <3>5. 0 \in T BY <2>6, <3>4 DEF RowOf
    <3>6. ASSUME NEW k \in T PROVE k + 1 \in T
      <4> SUFFICES ASSUME k + 1 <= Len(t.body) PROVE q[k + 1] \in CState /\ q[k + 1].mode # "break"
        OBVIOUS
      <4>1. k + 1 \in DOMAIN t.body /\ k + 1 - 1 = k /\ k <= Len(t.body) BY <3>2
      <4>2. q[k + 1] = Run[t.body[k + 1]][q[k]][i] BY <3>4, <4>1 DEF RowOf
      <4>3. q[k] \in CState /\ q[k].mode # "break" BY <4>1
      <4>4. Tight(t.body[k + 1]) /\ Good(t.body[k + 1]) BY <3>3, <4>1
      <4> QED BY <4>2, <4>3, <4>4 DEF Good
    <3>7. T = Nat
      <4> HIDE DEF T
      <4>1. T \in SUBSET Nat BY DEF T
      <4> QED BY <3>5, <3>6, <4>1, Induction
    <3>8. Len(t.body) \in T BY <3>2, <3>7
    <3>9. q[Len(t.body)] \in CState /\ q[Len(t.body)].mode # "break" BY <3>2, <3>8
    <3>10. Execute(Run, t, a, i) = Leave(q[Len(t.body)], LocalsOf(t)) BY <2>6, <3>4 DEF Execute
    <3>11. LocalsOf(t) \in SUBSET Local BY <2>6, ScopeAssumption DEF OwnLocals
    <3> QED BY <2>3, <3>9, <3>10, <3>11, LeaveTyped
  <2>7. CASE a.mode = "run" /\ t.kind = "if"
    <3> DEFINE r == CEval(a.env, t.cond)
               u == IF r.val # 0 THEN t.then ELSE t.else
    <3>1. Execute(Run, t, a, i) = Run[u][Running(r.env)][i] BY <2>7 DEF Execute
    <3>2. u \in Children(t) /\ u \notin loose BY <2>7 DEF Children, OwnBreaks
    <3>3. t.cond \in ExprsOf(t) BY <2>7 DEF ExprsOf
    <3>4. a.env \in Env BY CStateIs
    <3>5. r.env \in Env BY <3>3, <3>4, ExprIs, CEvalTyped
    <3>6. Running(r.env) \in CState /\ Running(r.env).mode = "run"
      <4> HIDE DEF r
      <4> QED BY <3>5, RunningTyped
    <3> HIDE DEF r, u
    <3>7. Tight(u)
      <4> HIDE DEF Tight
      <4> QED BY <3>2, <2>2
    <3> QED BY <2>3, <3>1, <3>6, <3>7
  <2>8. CASE a.mode = "run" /\ t.kind = "do"
    <3>1. Execute(Run, t, a, i) = Resume(Run[t.body][a][i]) BY <2>8 DEF Execute
    <3>2. t.body \in Children(t) BY <2>8 DEF Children
    <3>3. Run[t.body][a][i] \in CState BY <2>1, <3>2, StatementsAre, Executes DEF Good
    <3> QED BY <2>3, <3>1, <3>3, ResumeTyped
  <2>9. CASE a.mode = "run" /\ t.kind = "switch"
    <3>2. \A x : Resume(x).mode # "break" BY DEF Resume, Running
    <3>3. \/ Execute(Run, t, a, i) = Running(CEval(a.env, t.cond).env)
          \/ \E x : Execute(Run, t, a, i) = Resume(x)
      BY <2>9 DEF Execute
    <3>4. \A x : Running(x).mode # "break" BY DEF Running
    <3> QED BY <2>3, <3>2, <3>3, <3>4
  <2>10. CASE a.mode = "run" /\ t.kind = "break" BY <2>10 DEF OwnBreaks
  <2>11. CASE a.mode = "run" /\ t.kind \in {"expr", "assign", "decl", "return"}
    <3>1. \A x : Running(x).mode # "break" BY DEF Running
    <3>2. \A e, v : Assigned(a.env, v, e).mode # "break" BY <3>1 DEF Assigned
    <3>3. CASE t.kind \in {"expr", "assign", "decl"} BY <2>3, <2>11, <3>1, <3>2, <3>3 DEF Execute
    <3>4. CASE t.kind = "return" BY <2>3, <2>11, <3>4, CStateIs DEF Execute
    <3> QED BY <3>3, <3>4, <2>11
  <2>12. CASE a.mode = "run" /\ t.kind \notin {"expr", "assign", "decl", "return", "break", "compound", "if", "do", "switch"}
    BY <2>3, <2>12 DEF Execute
  <2> QED BY <2>5, <2>6, <2>7, <2>8, <2>9, <2>10, <2>11, <2>12
<1>3. S = Nat
  <2> HIDE DEF S
  <2>1. S \in SUBSET Nat BY DEF S
  <2> QED BY <1>1, <1>2, <2>1, Induction
<1>4. Depth(s) + 1 \in S /\ Depth(s) \in Nat BY <1>0, <1>3, StatementsAre
<1> QED BY <1>4

-----------------------------------------------------------------------------
(* Traces along the stack. *)

LEMMA CtxTop ==
  ASSUME NEW c, NEW st, NEW x
  PROVE  CtxBelow(c, st, 0, x) <=> x = c
BY DEF CtxBelow

LEMMA CtxStays ==
  ASSUME NEW c, NEW fs, NEW n \in Nat, \A j \in 1 .. n : ~Restores(fs[j])
  PROVE  CtxBelow(c, fs, n, c)
BY DEF CtxBelow

LEMMA GoesFirst ==
  ASSUME NEW c, NEW st, IsSeq(st), st # <<>>, NEW q, NEW r, NEW i, Goes(c, st, 0, q, r, i)
  PROVE  \E o : Passes(st[1], c, q, o, i) /\ Goes(c, st, 1, o, r, i)
<1>1. Len(st) \in Nat /\ Len(st) # 0 BY DEF IsSeq
<1>2. PICK t : /\ t[0] = q /\ t[Len(st)] = r
               /\ \A j \in 0 + 1 .. Len(st) : \E x : /\ CtxBelow(c, st, j - 1, x)
                                                     /\ Passes(st[j], x, t[j - 1], t[j], i)
  BY DEF Goes
<1>3. PICK x : CtxBelow(c, st, 1 - 1, x) /\ Passes(st[1], x, t[1 - 1], t[1], i)
  <2>1. 1 \in 0 + 1 .. Len(st) BY <1>1
  <2> QED BY <1>2, <2>1
<1>4. x = c /\ t[1 - 1] = q BY <1>2, <1>3, CtxTop
<1>5. Goes(c, st, 1, t[1], r, i)
  <2>1. \A j \in 1 + 1 .. Len(st) : j \in 0 + 1 .. Len(st) BY <1>1
  <2> QED BY <1>2, <2>1 DEF Goes
<1> QED BY <1>3, <1>4, <1>5

LEMMA GoesShift ==
  ASSUME NEW t, NEW fs, NEW st, TakesPlace(t, fs, st), NEW c, NEW d, NEW h,
         CtxBelow(c, st, 1, h), CtxBelow(d, fs, Len(fs), h),
         NEW m \in DOMAIN st, NEW q, NEW r, NEW i, Goes(c, st, m, q, r, i)
  PROVE  Goes(d, t, m - 1 + Len(fs), q, r, i)
<1> DEFINE n == Len(fs)
<1>1. /\ Len(t) = Len(st) - 1 + n
      /\ Len(t) \in Nat /\ Len(st) \in Nat /\ n \in Nat /\ m \in 1 .. Len(st)
      /\ DOMAIN st = 1 .. Len(st)
  BY PlaceLength
<1>2. PICK b : /\ b[m] = q /\ b[Len(st)] = r
               /\ \A j \in m + 1 .. Len(st) : \E x : /\ CtxBelow(c, st, j - 1, x)
                                                     /\ Passes(st[j], x, b[j - 1], b[j], i)
  BY DEF Goes
<1> DEFINE w == [j \in Int |-> b[j - n + 1]]
<1>3. w[m - 1 + n] = q /\ w[Len(t)] = r
  <2>1. m - 1 + n \in Int /\ m - 1 + n - n + 1 = m /\ Len(t) \in Int /\ Len(t) - n + 1 = Len(st)
    BY <1>1
  <2>2. ASSUME NEW j \in Int, NEW k, k = j - n + 1 PROVE w[j] = b[k] BY <2>2
  <2> HIDE DEF w, n
  <2>3. m = m - 1 + n - n + 1 /\ Len(st) = Len(t) - n + 1 BY <2>1
  <2> DEFINE l == m - 1 + n
  <2>4. l \in Int /\ m = l - n + 1 BY <1>1
  <2> HIDE DEF l
  <2>5. w[l] = b[m] BY <2>2, <2>4
  <2>6. w[Len(t)] = b[Len(st)] BY <2>1, <2>2, <2>3
  <2> QED BY <1>2, <2>5, <2>6 DEF l
<1>4. ASSUME NEW j \in m - 1 + n + 1 .. Len(t)
      PROVE  \E x : CtxBelow(d, t, j - 1, x) /\ Passes(t[j], x, w[j - 1], w[j], i)
  <2> DEFINE k == j - n + 1
  <2>1. /\ j \in Int /\ k \in m + 1 .. Len(st) /\ k \in DOMAIN st /\ k # 1
        /\ k - 1 + n = j /\ k - 2 + n = j - 1 /\ j - 1 \in Int /\ k - 1 = (j - 1) - n + 1
    BY <1>1
  <2>2. PICK x : CtxBelow(c, st, k - 1, x) /\ Passes(st[k], x, b[k - 1], b[k], i) BY <1>2, <2>1
  <2>3. t[j] = st[k] BY <2>1 DEF TakesPlace
  <2>4. w[j] = b[k] /\ w[j - 1] = b[k - 1] BY <2>1
  <2>5. CtxBelow(d, t, k - 2 + Len(fs), x)
    <3> HIDE DEF k
    <3> QED BY <2>1, <2>2, CtxShift
  <2> HIDE DEF w
  <2> QED BY <2>1, <2>2, <2>3, <2>4, <2>5
<1> HIDE DEF w
<1> QED BY <1>3, <1>4 DEF Goes

LEMMA GoesGlue ==
  ASSUME NEW t, NEW fs, NEW st, TakesPlace(t, fs, st), NEW c, NEW d, NEW h,
         CtxBelow(c, st, 1, h), CtxBelow(d, fs, Len(fs), h),
         NEW l \in 0 .. Len(fs), NEW q, NEW o, NEW r, NEW i,
         Goes(d, fs, l, q, o, i), Goes(c, st, 1, o, r, i)
  PROVE  Goes(d, t, l, q, r, i)
<1> DEFINE n == Len(fs)
<1>1. /\ Len(t) = Len(st) - 1 + n
      /\ Len(t) \in Nat /\ Len(st) \in Nat /\ n \in Nat /\ 1 \in DOMAIN st
      /\ l \in Nat /\ l <= n /\ Len(st) >= 1
  BY PlaceLength DEF TakesPlace
<1>2. PICK a : /\ a[l] = q /\ a[n] = o
               /\ \A j \in l + 1 .. n : \E x : /\ CtxBelow(d, fs, j - 1, x)
                                               /\ Passes(fs[j], x, a[j - 1], a[j], i)
  BY DEF Goes
<1>3. Goes(d, t, 1 - 1 + n, o, r, i) BY <1>1, GoesShift
<1>4. Goes(d, t, n, o, r, i)
  <2>1. 1 - 1 + n = n BY <1>1
  <2> QED BY <1>3, <2>1
<1>5. PICK b : /\ b[n] = o /\ b[Len(t)] = r
               /\ \A j \in n + 1 .. Len(t) : \E x : /\ CtxBelow(d, t, j - 1, x)
                                                    /\ Passes(t[j], x, b[j - 1], b[j], i)
  BY <1>4 DEF Goes
<1> DEFINE w == [j \in Nat |-> IF j <= n THEN a[j] ELSE b[j]]
<1>6. w[l] = q /\ w[Len(t)] = r BY <1>1, <1>2, <1>5
<1>7. ASSUME NEW j \in l + 1 .. Len(t)
      PROVE  \E x : CtxBelow(d, t, j - 1, x) /\ Passes(t[j], x, w[j - 1], w[j], i)
  <2>1. CASE j <= n
    <3>1. j \in l + 1 .. n /\ j \in Nat /\ j - 1 \in Nat /\ j \in 1 .. n /\ j - 1 <= n BY <1>1, <2>1
    <3>2. PICK x : CtxBelow(d, fs, j - 1, x) /\ Passes(fs[j], x, a[j - 1], a[j], i) BY <1>2, <3>1
    <3>3. \A k \in 1 .. n : t[k] = fs[k] BY DEF TakesPlace
    <3>4. \A k \in 1 .. j - 1 : k \in 1 .. n BY <3>1
    <3>5. CtxBelow(d, t, j - 1, x) BY <3>1, <3>2, <3>3, <3>4, CtxPrefix
    <3>6. w[j] = a[j] /\ w[j - 1] = a[j - 1] /\ t[j] = fs[j] BY <3>1, <3>3, <2>1
    <3> HIDE DEF w
    <3> QED BY <3>2, <3>5, <3>6
  <2>2. CASE j > n
    <3>1. j \in n + 1 .. Len(t) /\ j \in Nat /\ j - 1 \in Nat /\ (j - 1 <= n => j - 1 = n)
      BY <1>1, <2>2
    <3>2. PICK x : CtxBelow(d, t, j - 1, x) /\ Passes(t[j], x, b[j - 1], b[j], i) BY <1>5, <3>1
    <3>3. w[j] = b[j] BY <3>1, <2>2, <1>1
    <3>4. w[j - 1] = b[j - 1] BY <3>1, <1>1, <1>2, <1>5
    <3> HIDE DEF w
    <3> QED BY <3>2, <3>3, <3>4
  <2> QED BY <1>1, <2>1, <2>2
<1> HIDE DEF w
<1> QED BY <1>6, <1>7 DEF Goes

(* When the frames fs take the place of the frame on top, what they have   *)
(* to do for an input is what that frame had.                              *)
LEMMA TellStep ==
  ASSUME NEW st, IsSeq(st), st # <<>>, NEW fs, IsSeq(fs), NEW c, NEW d, NEW h,
         CtxBelow(c, st, 1, h), CtxBelow(d, fs, Len(fs), h),
         NEW ps, NEW qs, NEW r, NEW i, Told(c, ps, st, r, i),
         \A o : ToldBy(c, ps, Head(st), o, i) => Told(d, qs, fs, o, i)
  PROVE  Told(d, qs, fs \o Tail(st), r, i)
<1> DEFINE t == fs \o Tail(st)
<1>1. TakesPlace(t, fs, st) BY PlaceTaken
<1>2. /\ Len(t) = Len(st) - 1 + Len(fs)
      /\ Len(t) \in Nat /\ Len(st) \in Nat /\ Len(fs) \in Nat /\ Len(st) >= 1
      /\ DOMAIN st = 1 .. Len(st) /\ DOMAIN t = 1 .. Len(t) /\ DOMAIN fs = 1 .. Len(fs)
      /\ \A k \in DOMAIN fs : t[k] = fs[k]
  BY <1>1, PlaceLength DEF TakesPlace
<1>3. Head(st) = st[1] /\ 1 \in DOMAIN st BY <1>2, HeadAndTail
<1> HIDE DEF t
<1>4. ASSUME NEW o, Told(d, qs, fs, o, i), Goes(c, st, 1, o, r, i) PROVE Told(d, qs, t, r, i)
  <2>1. CASE \E k \in DOMAIN qs : Tells(qs[k], i) /\ Goes(d, fs, 0, Point(qs[k], i), o, i)
    <3>1. PICK k \in DOMAIN qs : Tells(qs[k], i) /\ Goes(d, fs, 0, Point(qs[k], i), o, i) BY <2>1
    <3>2. Goes(d, t, 0, Point(qs[k], i), r, i)
      <4>1. 0 \in 0 .. Len(fs) BY <1>2
      <4> QED BY <1>1, <1>4, <3>1, <4>1, GoesGlue
    <3> QED BY <3>1, <3>2 DEF Told
  <2>2. CASE \E m \in DOMAIN fs : \E x, p, q :
               /\ CtxBelow(d, fs, m - 1, x)
               /\ Tells(p, i) /\ Waits(fs[m], x, p, q, i) /\ Goes(d, fs, m, q, o, i)
    <3>1. PICK m, x, p, q :
               /\ m \in DOMAIN fs
               /\ CtxBelow(d, fs, m - 1, x)
               /\ Tells(p, i) /\ Waits(fs[m], x, p, q, i) /\ Goes(d, fs, m, q, o, i)
      BY <2>2
    <3>2. /\ m \in 0 .. Len(fs) /\ m \in DOMAIN t /\ m - 1 \in Nat /\ t[m] = fs[m]
          /\ \A j \in 1 .. m - 1 : t[j] = fs[j]
      BY <1>2, <3>1
    <3>3. Goes(d, t, m, q, r, i) BY <1>1, <1>4, <3>1, <3>2, GoesGlue
    <3>4. CtxBelow(d, t, m - 1, x) BY <3>1, <3>2, CtxPrefix
    <3> QED BY <3>1, <3>2, <3>3, <3>4 DEF Told
  <2> QED BY <1>4, <2>1, <2>2 DEF Told
<1>5. CASE \E k \in DOMAIN ps : Tells(ps[k], i) /\ Goes(c, st, 0, Point(ps[k], i), r, i)
  <2>1. PICK k \in DOMAIN ps : Tells(ps[k], i) /\ Goes(c, st, 0, Point(ps[k], i), r, i) BY <1>5
  <2>2. PICK o : Passes(st[1], c, Point(ps[k], i), o, i) /\ Goes(c, st, 1, o, r, i)
    BY <2>1, GoesFirst
  <2>3. ToldBy(c, ps, Head(st), o, i) BY <1>3, <2>1, <2>2 DEF ToldBy
  <2>4. Told(d, qs, fs, o, i) BY <2>3
  <2> QED BY <1>4, <2>2, <2>4 DEF t
<1>6. CASE \E m \in DOMAIN st : \E x, p, q :
             /\ CtxBelow(c, st, m - 1, x)
             /\ Tells(p, i) /\ Waits(st[m], x, p, q, i) /\ Goes(c, st, m, q, r, i)
  <2>1. PICK m, x, p, q :
             /\ m \in DOMAIN st
             /\ CtxBelow(c, st, m - 1, x)
             /\ Tells(p, i) /\ Waits(st[m], x, p, q, i) /\ Goes(c, st, m, q, r, i)
    BY <1>6
  <2>2. CASE m = 1
    <3>1. x = c BY <2>1, <2>2, CtxTop
    <3>2. ToldBy(c, ps, Head(st), q, i) BY <1>3, <2>1, <2>2, <3>1 DEF ToldBy
    <3>3. Told(d, qs, fs, q, i) BY <3>2
    <3> QED BY <1>4, <2>1, <2>2, <3>3 DEF t
  <2>3. CASE m # 1
    <3>1. m - 1 + Len(fs) \in DOMAIN t /\ t[m - 1 + Len(fs)] = st[m]
      BY <1>1, <2>1, <2>3 DEF TakesPlace
    <3>2. Goes(d, t, m - 1 + Len(fs), q, r, i) BY <1>1, <2>1, GoesShift
    <3>3. CtxBelow(d, t, m - 2 + Len(fs), x) BY <1>1, <2>1, <2>3, CtxShift
    <3>4. m - 2 + Len(fs) = m - 1 + Len(fs) - 1 BY <1>2, <2>1
    <3> DEFINE l == m - 1 + Len(fs)
               a == m - 2 + Len(fs)
    <3>5. l \in DOMAIN t BY <3>1
    <3>7. t[l] = st[m] BY <3>1
    <3>8. Goes(d, t, l, q, r, i) BY <3>2
    <3>9. CtxBelow(d, t, a, x) BY <3>3
    <3>10. a = l - 1 BY <1>2, <2>1, <3>4
    <3> HIDE DEF l, a
    <3>11. CtxBelow(d, t, l - 1, x) BY <3>9, <3>10
    <3>12. Waits(t[l], x, p, q, i) BY <2>1, <3>7
    <3>6. Told(d, qs, t, r, i) BY <2>1, <3>5, <3>8, <3>11, <3>12 DEF Told
    <3> QED BY <3>6 DEF t
  <2> QED BY <2>2, <2>3
<1> QED BY <1>5, <1>6 DEF Told

-----------------------------------------------------------------------------
(* The ways to tell an execution to the end of the frames of one step. *)

LEMMA GoesNowhere ==
  ASSUME NEW d, NEW st, NEW m \in Nat, m = Len(st), NEW q, NEW i
  PROVE  Goes(d, st, m, q, q, i)
<1> DEFINE t == [j \in {m} |-> q]
<1>1. t[m] = q /\ t[Len(st)] = q OBVIOUS
<1>2. m + 1 .. Len(st) = {} OBVIOUS
<1> HIDE DEF t
<1> QED BY <1>1, <1>2 DEF Goes

LEMMA ToldNone ==
  ASSUME NEW d, NEW qs, NEW k \in DOMAIN qs, NEW i, Tells(qs[k], i)
  PROVE  Told(d, qs, <<>>, Point(qs[k], i), i)
<1>1. Len(<<>>) = 0 OBVIOUS
<1>2. Goes(d, <<>>, 0, Point(qs[k], i), Point(qs[k], i), i) BY <1>1, GoesNowhere
<1> QED BY <1>2 DEF Told

LEMMA ToldRow ==
  ASSUME NEW gs, IsSeq(gs), \A k \in DOMAIN gs : ~Restores(gs[k]), NEW f, NEW d, NEW qs, NEW r, NEW i,
         \/ \E k \in DOMAIN qs : \E o : /\ Tells(qs[k], i)
                                        /\ RowGoes(gs, d, Point(qs[k], i), o, i)
                                        /\ Passes(f, d, o, r, i)
         \/ \E p : Tells(p, i) /\ Waits(f, d, p, r, i)
  PROVE  Told(d, qs, gs \o <<f>>, r, i)
<1> DEFINE n == Len(gs)
           fs == gs \o <<f>>
<1>1. n \in Nat /\ DOMAIN gs = 1 .. n BY DEF IsSeq
<1>2. /\ Len(fs) = n + 1 /\ DOMAIN fs = 1 .. n + 1
      /\ (\A k \in DOMAIN gs : fs[k] = gs[k]) /\ fs[n + 1] = f
  <2>1. IsSeq(<<f>>) /\ Len(<<f>>) = 1 /\ DOMAIN <<f>> = {1} /\ <<f>>[1] = f BY SingletonIsSeq
  <2>2. n + 1 = 1 + n BY <1>1
  <2>3. fs[1 + n] = f BY <2>1, Concatenation
  <2> QED BY <1>1, <2>1, <2>2, <2>3, Concatenation
<1> HIDE DEF n, fs
<1>3. ASSUME NEW m \in 0 .. n PROVE CtxBelow(d, fs, m, d)
  <2>1. \A j \in 1 .. m : j \in DOMAIN gs BY <1>1
  <2>2. \A j \in 1 .. m : ~Restores(fs[j]) BY <1>2, <2>1
  <2> QED BY <2>2, CtxStays
<1>4. CASE \E k \in DOMAIN qs : \E o : /\ Tells(qs[k], i)
                                       /\ RowGoes(gs, d, Point(qs[k], i), o, i)
                                       /\ Passes(f, d, o, r, i)
  <2>1. PICK k, o : /\ k \in DOMAIN qs /\ Tells(qs[k], i)
                    /\ RowGoes(gs, d, Point(qs[k], i), o, i)
                    /\ Passes(f, d, o, r, i)
    BY <1>4
  <2>2. PICK a : /\ a[0] = Point(qs[k], i) /\ a[n] = o
                 /\ \A j \in DOMAIN gs : Passes(gs[j], d, a[j - 1], a[j], i)
    BY <2>1 DEF RowGoes, n
  <2> DEFINE t == [j \in 0 .. n + 1 |-> IF j = n + 1 THEN r ELSE a[j]]
  <2>3. \A j \in 0 .. n : t[j] = a[j] BY <1>1
  <2>4. t[n + 1] = r BY <1>1
  <2> HIDE DEF t
  <2>5. ASSUME NEW j \in 0 + 1 .. Len(fs)
        PROVE  \E x : CtxBelow(d, fs, j - 1, x) /\ Passes(fs[j], x, t[j - 1], t[j], i)
    <3>1. CASE j \in DOMAIN gs
      <4>1. j \in 0 .. n /\ j - 1 \in 0 .. n BY <1>1, <3>1
      <4>2. t[j] = a[j] /\ t[j - 1] = a[j - 1] /\ fs[j] = gs[j] BY <1>2, <2>3, <3>1, <4>1
      <4> QED BY <1>3, <2>2, <3>1, <4>1, <4>2
    <3>2. CASE j = n + 1
      <4>1. n \in 0 .. n /\ j - 1 = n BY <1>1, <3>2
      <4>2. t[j - 1] = o /\ t[j] = r /\ fs[j] = f BY <1>2, <2>2, <2>3, <2>4, <3>2, <4>1
      <4> QED BY <1>3, <2>1, <4>1, <4>2
    <3>3. j \in DOMAIN gs \/ j = n + 1 BY <1>1, <1>2
    <3> QED BY <3>1, <3>2, <3>3
  <2>6. t[0] = Point(qs[k], i) /\ t[Len(fs)] = r BY <1>1, <1>2, <2>2, <2>3, <2>4
  <2>7. Goes(d, fs, 0, Point(qs[k], i), r, i) BY <2>5, <2>6 DEF Goes
  <2> QED BY <2>1, <2>7 DEF Told, fs
<1>5. CASE \E p : Tells(p, i) /\ Waits(f, d, p, r, i)
  <2>1. PICK p : Tells(p, i) /\ Waits(f, d, p, r, i) BY <1>5
  <2> DEFINE m == n + 1
  <2>2. m \in Nat /\ m = Len(fs) /\ m \in DOMAIN fs /\ fs[m] = f /\ m - 1 \in 0 .. n BY <1>1, <1>2
  <2> HIDE DEF m
  <2>3. Goes(d, fs, m, r, r, i) BY <2>2, GoesNowhere
  <2>4. CtxBelow(d, fs, m - 1, d) BY <1>3, <2>2
  <2>5. Told(d, qs, fs, r, i) BY <2>1, <2>2, <2>3, <2>4 DEF Told
  <2> QED BY <2>5 DEF fs
<1> QED BY <1>4, <1>5

LEMMA ToldOne ==
  ASSUME NEW f, NEW d, NEW qs, NEW r, NEW i, ToldBy(d, qs, f, r, i)
  PROVE  Told(d, qs, <<f>>, r, i)
<1>1. IsSeq(<<>>) /\ Len(<<>>) = 0 /\ DOMAIN <<>> = {} /\ <<>> \o <<f>> = <<f>>
  BY EmptyIsSeq, SingletonIsSeq, ConcatenationWithEmpty
<1>2. ASSUME NEW q PROVE RowGoes(<<>>, d, q, q, i)
  <2> DEFINE t == [j \in {0} |-> q]
  <2>1. t[0] = q OBVIOUS
  <2> HIDE DEF t
  <2>2. t[Len(<<>>)] = q BY <1>1, <2>1
  <2> QED BY <1>1, <2>1, <2>2 DEF RowGoes
<1>3. Told(d, qs, <<>> \o <<f>>, r, i)
  <2> DEFINE gs == <<>>
  <2>1. /\ IsSeq(gs) /\ \A k \in DOMAIN gs : ~Restores(gs[k])
        /\ \A q : RowGoes(gs, d, q, q, i)
    BY <1>1, <1>2
  <2> HIDE DEF gs
  <2>2. Told(d, qs, gs \o <<f>>, r, i) BY <2>1, ToldRow DEF ToldBy
  <2> QED BY <2>2 DEF gs
<1> QED BY <1>1, <1>3

(* Two frames; the first one does not change the context. *)
LEMMA ToldTwo ==
  ASSUME NEW f, ~Restores(f), NEW g, NEW d, NEW qs, NEW r, NEW i,
         \/ \E o : ToldBy(d, qs, f, o, i) /\ Passes(g, d, o, r, i)
         \/ \E p : Tells(p, i) /\ Waits(g, d, p, r, i)
  PROVE  Told(d, qs, <<f, g>>, r, i)
<1> DEFINE gs == <<f>>
           fs == <<f, g>>
<1>1. IsSeq(gs) /\ Len(gs) = 1 /\ DOMAIN gs = {1} /\ gs[1] = f /\ gs \o <<g>> = fs
  BY SingletonIsSeq, PairIsConcatenation
<1>2. Len(fs) = 2 /\ DOMAIN fs = 1 .. 2 /\ fs[1] = f /\ fs[2] = g OBVIOUS
<1> HIDE DEF gs, fs
<1>3. CASE \E p : Tells(p, i) /\ Waits(g, d, p, r, i)
  <2>1. Told(d, qs, gs \o <<g>>, r, i) BY <1>1, <1>3, ToldRow
  <2> QED BY <1>1, <2>1 DEF fs
<1>4. ASSUME NEW o, Passes(g, d, o, r, i), NEW k \in DOMAIN qs, Tells(qs[k], i),
             Passes(f, d, Point(qs[k], i), o, i)
      PROVE  Told(d, qs, fs, r, i)
  <2> DEFINE t == [j \in 0 .. 1 |-> IF j = 0 THEN Point(qs[k], i) ELSE o]
  <2>1. t[0] = Point(qs[k], i) /\ t[1] = o /\ t[1 - 1] = Point(qs[k], i) OBVIOUS
  <2> HIDE DEF t
  <2>2. RowGoes(gs, d, Point(qs[k], i), o, i) BY <1>1, <1>4, <2>1 DEF RowGoes
  <2>3. Told(d, qs, gs \o <<g>>, r, i) BY <1>1, <1>4, <2>2, ToldRow
  <2> QED BY <1>1, <2>3
<1>5. ASSUME NEW o, Passes(g, d, o, r, i), NEW p, Tells(p, i), Waits(f, d, p, o, i)
      PROVE  Told(d, qs, fs, r, i)
  <2> DEFINE t == [j \in 1 .. 2 |-> IF j = 1 THEN o ELSE r]
  <2>1. t[1] = o /\ t[2] = r /\ t[2 - 1] = o OBVIOUS
  <2> HIDE DEF t
  <2>2. CtxBelow(d, fs, 2 - 1, d) /\ CtxBelow(d, fs, 1 - 1, d)
    <3>1. \A j \in 1 .. 2 - 1 : ~Restores(fs[j]) BY <1>2
    <3> QED BY <3>1, CtxStays, CtxTop
  <2>3. \A j \in 1 + 1 .. Len(fs) : j = 2 BY <1>2
  <2>4. Goes(d, fs, 1, o, r, i) BY <1>2, <1>5, <2>1, <2>2, <2>3 DEF Goes
  <2>5. 1 \in DOMAIN fs BY <1>2
  <2> QED BY <1>2, <1>5, <2>2, <2>4, <2>5 DEF Told
<1>6. CASE \E o : ToldBy(d, qs, f, o, i) /\ Passes(g, d, o, r, i) BY <1>4, <1>5, <1>6 DEF ToldBy, fs
<1> QED BY <1>3, <1>6

-----------------------------------------------------------------------------
(* Points. *)

LEMMA MarkedIs ==
  ASSUME NEW st \in CState, NEW x
  PROVE  /\ IsPoint(Marked(st, x)) /\ Marked(st, x).st = st
         /\ Marked(st, x).mark = IF st.mode = "break" THEN x ELSE 0
BY DEF Marked, IsPoint

LEMMA PointIs ==
  ASSUME NEW p, NEW i, Tells(p, i)
  PROVE  /\ IsPoint(Point(p, i)) /\ Point(p, i).st = StateOf(p, i)
         /\ StateOf(p, i).mode = "run" <=> p.state = "Step"
         /\ StateOf(p, i).mode = "break" <=> p.state = "Break"
         /\ StateOf(p, i).mode = "return" <=> p.state = "Return"
         /\ Point(p, i).mark = IF p.state = "Break" THEN p.ctx ELSE 0
<1>1. /\ StateOf(p, i).mode = "run" <=> p.state = "Step"
      /\ StateOf(p, i).mode = "break" <=> p.state = "Break"
      /\ StateOf(p, i).mode = "return" <=> p.state = "Return"
  BY DEF Tells, StateOf
<1> QED BY <1>1, MarkedIs DEF Tells, Point

(* A point that runs is not marked, one that does not is not stepped. *)
LEMMA SteppedIs ==
  ASSUME NEW q, IsPoint(q), NEW st, NEW x
  PROVE  /\ q.st.mode # "run" => Stepped(q, st, x) = q
         /\ q.st.mode = "run" => Stepped(q, st, x) = Marked(st, x)
         /\ q.st.mode = "run" => Marked(q.st, x) = q
         /\ Stepped(q, q.st, x) = q
BY DEF Stepped, Marked, IsPoint

LEMMA StepPasses ==
  ASSUME NEW s, NEW x, NEW q, NEW r, NEW i
  PROVE  Passes(StepFrame(s), x, q, r, i) <=>
           Avoids(q, Declared(s)) /\ r = Stepped(q, Run[s][q.st][i], x)
BY DEF Passes, StepFrame

(* Statements in a row. *)
LEMMA RowSteps ==
  ASSUME NEW ss, IsSeq(ss), NEW W, NEW D, W \cap D = {},
         \A k \in DOMAIN ss : Good(ss[k]) /\ Writes(ss[k]) \subseteq W /\ Declared(ss[k]) \subseteq D,
         NEW q, IsPoint(q), Avoids(q, D), NEW d, NEW i \in Input
  PROVE  RowGoes(StepFrames(ss), d, q, Stepped(q, RunAll(Run, ss, q.st, i), d), i)
<1> DEFINE n == Len(ss)
           out == Stepped(q, RunAll(Run, ss, q.st, i), d)
<1>1. n \in Nat /\ DOMAIN ss = 1 .. n BY DEF IsSeq
<1>2. PICK a : RowOf(a, ss, q.st, i) /\ a[n] = RunAll(Run, ss, q.st, i) BY RowTrace
<1>3. \A k \in 0 .. n : GoodPlace(a, k, q.st, W)
  <2>1. q.st \in CState BY DEF IsPoint
  <2> QED BY <1>2, <2>1, GoodRow
<1>4. Len(StepFrames(ss)) = n /\ DOMAIN StepFrames(ss) = 1 .. n
  BY <1>1, FunctionIsSeq, StepFramesAre DEF IsSeq
<1> DEFINE t == [j \in 0 .. n |-> IF q.st.mode = "run" THEN Marked(a[j], d) ELSE q]
<1>5. t[0] = q
  <2>1. 0 \in 0 .. n /\ a[0] = q.st BY <1>1, <1>2 DEF RowOf
  <2> QED BY <2>1, SteppedIs
<1>6. t[n] = out
  <2>1. n \in 0 .. n BY <1>1
  <2> QED BY <1>2, <2>1, SteppedIs
<1>7. ASSUME NEW j \in 1 .. n PROVE Passes(StepFrames(ss)[j], d, t[j - 1], t[j], i)
  <2>1. j \in 0 .. n /\ j - 1 \in 0 .. n /\ j \in DOMAIN ss /\ j # 0 BY <1>1
  <2>2. GoodPlace(a, j - 1, q.st, W) /\ GoodPlace(a, j, q.st, W) BY <1>3, <2>1
  <2>3. a[j] = Run[ss[j]][a[j - 1]][i] BY <1>2, <2>1 DEF RowOf
  <2>4. StepFrames(ss)[j] = StepFrame(ss[j]) BY <2>1 DEF StepFrames
  <2>5. CASE q.st.mode = "run"
    <3>1. t[j] = Marked(a[j], d) /\ t[j - 1] = Marked(a[j - 1], d) BY <2>1, <2>5
    <3> HIDE DEF t
    <3>2. a[j - 1] \in CState /\ a[j] \in CState BY <2>2 DEF GoodPlace
    <3>3. t[j - 1].st = a[j - 1] /\ IsPoint(t[j - 1]) BY <3>1, <3>2, MarkedIs
    <3>4. Avoids(t[j - 1], Declared(ss[j]))
      <4>1. \A v \in DOMAIN a[j - 1].env : v \in DOMAIN q.st.env \/ v \in W BY <2>2 DEF GoodPlace
      <4>2. \A v \in DOMAIN q.st.env : v \notin D BY DEF Avoids
      <4>3. Declared(ss[j]) \subseteq D BY <2>1
      <4> QED BY <3>3, <4>1, <4>2, <4>3 DEF Avoids
    <3>5. t[j] = Stepped(t[j - 1], Run[ss[j]][t[j - 1].st][i], d)
      <4>1. CASE a[j - 1].mode = "run" BY <2>3, <3>1, <3>3, <4>1, SteppedIs
      <4>2. CASE a[j - 1].mode # "run"
        <5>1. a[j] = a[j - 1] BY <2>1, <2>2, <4>2 DEF GoodPlace
        <5> QED BY <3>1, <3>3, <4>2, <5>1, SteppedIs
      <4> QED BY <4>1, <4>2
    <3> QED BY <2>4, <3>4, <3>5, StepPasses
  <2>6. CASE q.st.mode # "run"
    <3>1. t[j] = q /\ t[j - 1] = q BY <2>1, <2>6
    <3> HIDE DEF t
    <3>2. Avoids(q, Declared(ss[j])) BY <2>1 DEF Avoids
    <3>3. q = Stepped(q, Run[ss[j]][q.st][i], d) BY <2>6, SteppedIs
    <3> QED BY <2>4, <3>1, <3>2, <3>3, StepPasses
  <2> QED BY <2>5, <2>6
<1> HIDE DEF t, out
<1>8. RowGoes(StepFrames(ss), d, q, out, i) BY <1>4, <1>5, <1>6, <1>7 DEF RowGoes
<1> QED BY <1>8 DEF out

-----------------------------------------------------------------------------
(* What the operations on paths do to the execution that a path tells. *)

LEMMA TellsIs ==
  ASSUME NEW p, NEW i, Tells(p, i), IsActive(p)
  PROVE  StateOf(p, i) = Running(StateOf(p, i).env) /\ StateOf(p, i).env \in Env
<1>1. StateOf(p, i) \in CState /\ StateOf(p, i).mode = "run" BY DEF Tells, StateOf, IsActive
<1> QED BY <1>1, IsRunning

LEMMA ComesTells ==
  ASSUME NEW p, NEW q, NEW env \in Env, NEW i, Comes(q, p, env, i)
  PROVE  /\ Tells(q, i) /\ IsActive(q)
         /\ \A x : Point(q, i) = Marked(Running(env), x)
<1>1. Running(env) \in CState /\ Running(env).mode = "run" BY RunningTyped
<1> QED BY <1>1 DEF Comes, Tells, IsActive, Point, Marked

LEMMA BindComes ==
  ASSUME NEW exact \in BOOLEAN, NEW p, SoundPath(p, exact), NEW q, SoundPath(q, exact),
         NEW env \in Env, NEW i, Comes(q, p, env, i), NEW v, NEW x, SoundValue(x, exact)
  PROVE  Comes(Bind(q, v, x), p, Put(env, v, x.val[i]), i)
<1> DEFINE r == Bind(q, v, x)
<1>1. /\ r.state = q.state /\ r.ctx = q.ctx /\ r.ret = q.ret
      /\ r.env = [w \in DOMAIN q.env \cup {v} |-> IF w = v THEN x ELSE q.env[w]]
  BY DEF Bind, SoundPath
<1>2. Holds(r, i) BY SoundBind DEF Comes
<1> HIDE DEF r
<1>3. /\ StateOf(q, i).env = env /\ StateOf(q, i).mode = "run" /\ StateOf(q, i).ret = {}
      /\ q.state = "Step"
  BY DEF Comes, Running
<1>4. env = [w \in DOMAIN q.env |-> q.env[w].val[i]] BY <1>3 DEF StateOf
<1>5. StateOf(r, i).env = Put(env, v, x.val[i])
  <2>1. StateOf(r, i).env = [w \in DOMAIN r.env |-> r.env[w].val[i]] BY DEF StateOf
  <2>2. DOMAIN env = DOMAIN q.env /\ \A w \in DOMAIN q.env : env[w] = q.env[w].val[i] BY <1>4
  <2>3. DOMAIN r.env = DOMAIN q.env \cup {v} /\ \A w \in DOMAIN r.env : r.env[w] = IF w = v THEN x ELSE q.env[w]
    BY <1>1
  <2>4. \A w \in DOMAIN r.env : r.env[w].val[i] = IF w = v THEN x.val[i] ELSE env[w] BY <2>2, <2>3
  <2>5. Put(env, v, x.val[i]) = [w \in DOMAIN r.env |-> IF w = v THEN x.val[i] ELSE env[w]]
    BY <2>2, <2>3 DEF Put
  <2> QED BY <2>1, <2>4, <2>5
<1>6. StateOf(r, i).mode = "run" /\ StateOf(r, i).ret = {} BY <1>1, <1>3 DEF StateOf
<1>7. StateOf(r, i) = Running(Put(env, v, x.val[i])) BY <1>5, <1>6 DEF Running, StateOf
<1> QED BY <1>1, <1>2, <1>7 DEF Comes, r

LEMMA AssumeComes ==
  ASSUME NEW exact \in BOOLEAN, NEW p, NEW q, SoundPath(q, exact), NEW env \in Env, NEW i,
         Comes(q, p, env, i), NEW c, i \in c
  PROVE  Comes(Assume(q, c), p, env, i)
<1>1. LET r == Assume(q, c)
      IN  r.state = q.state /\ r.ctx = q.ctx /\ r.ret = q.ret /\ r.env = q.env
          /\ r.conds = q.conds \cup {c}
  BY DEF Assume, SoundPath
<1> QED BY <1>1 DEF Comes, Holds, StateOf

(* Any path that tells an execution tells it when a condition that the     *)
(* input satisfies is added.                                               *)
LEMMA AssumeTells ==
  ASSUME NEW exact \in BOOLEAN, NEW q, SoundPath(q, exact), NEW i, Tells(q, i), NEW c, i \in c
  PROVE  Tells(Assume(q, c), i) /\ Point(Assume(q, c), i) = Point(q, i)
<1>1. LET r == Assume(q, c)
      IN  r.state = q.state /\ r.ctx = q.ctx /\ r.ret = q.ret /\ r.env = q.env
          /\ r.conds = q.conds \cup {c}
  BY DEF Assume, SoundPath
<1> QED BY <1>1 DEF Tells, Holds, StateOf, Point

LEMMA ValueIs ==
  ASSUME NEW p, NEW e, NEW i \in Input
  PROVE  Value(p, e).val[i] = Apply(e, StateOf(p, i).env)
BY DEF Value, StateOf

(* One of the results of an expression is what C says, on each input. *)
LEMMA EvalTells ==
  ASSUME NEW exact \in BOOLEAN, NEW p, SoundPath(p, exact), NEW i \in Input, Tells(p, i), IsActive(p),
         NEW e, IsExpr(e), IsTyped(e), e.kind # "and"
  PROVE  LET c == CEval(StateOf(p, i).env, e)
         IN  \E k \in DOMAIN Eval(p, e) :
               /\ SoundPath(Eval(p, e)[k].path, exact) /\ SoundValue(Eval(p, e)[k].val, exact)
               /\ Comes(Eval(p, e)[k].path, p, c.env, i)
               /\ Eval(p, e)[k].val.val[i] = c.val
<1> DEFINE env == StateOf(p, i).env
           c == CEval(env, e)
<1>1. /\ Divides(Eval(p, e), p, exact) /\ env \in Env /\ Comes(p, p, env, i)
  <2>1. Comes(p, p, env, i) BY TellsIs DEF Comes, Tells, IsActive
  <2> QED BY <2>1, TellsIs, EvalDivides
<1>2. \A k \in DOMAIN Eval(p, e) :
        SoundPath(Eval(p, e)[k].path, exact) /\ SoundValue(Eval(p, e)[k].val, exact)
  BY <1>1 DEF Divides, SoundRest
<1>3. SUFFICES \E k \in DOMAIN Eval(p, e) : /\ Comes(Eval(p, e)[k].path, p, c.env, i)
                                            /\ Eval(p, e)[k].val.val[i] = c.val
  BY <1>2
<1> HIDE DEF env
<1>4. CASE e.kind = "pure"
  <2>1. Eval(p, e) = <<[path |-> p, val |-> Value(p, e)]>> BY <1>4 DEF Eval
  <2>2. c.env = env /\ c.val = Apply(e, env) BY <1>4 DEF CEval
  <2>3. Value(p, e).val[i] = Apply(e, env) BY ValueIs DEF env
  <2> HIDE DEF c
  <2>4. 1 \in DOMAIN Eval(p, e) /\ Eval(p, e)[1].path = p /\ Eval(p, e)[1].val = Value(p, e) BY <2>1
  <2> QED BY <1>1, <2>2, <2>3, <2>4
<1>5. CASE e.kind = "cond"
  <2> DEFINE v == Value(p, e.c)
             t == Truth(v)
  <2>1. Eval(p, e) = <<[path |-> Assume(p, t), val |-> Value(p, e.a)],
                       [path |-> Assume(p, Input \ t), val |-> Value(p, e.b)]>>
    BY <1>5 DEF Eval
  <2>2. c.env = env /\ c.val = Apply(IF Apply(e.c, env) # 0 THEN e.a ELSE e.b, env)
    BY <1>5 DEF CEval
  <2>3. \A x : Value(p, x).val[i] = Apply(x, env) BY ValueIs DEF env
  <2>4. i \in t <=> Apply(e.c, env) # 0
    <3>1. v.val[i] = Apply(e.c, env) BY <2>3
    <3> QED BY <3>1 DEF Truth
  <2> HIDE DEF c, t, v
  <2>5. /\ 1 \in DOMAIN Eval(p, e) /\ Eval(p, e)[1].path = Assume(p, t)
        /\ Eval(p, e)[1].val = Value(p, e.a)
        /\ 2 \in DOMAIN Eval(p, e) /\ Eval(p, e)[2].path = Assume(p, Input \ t)
        /\ Eval(p, e)[2].val = Value(p, e.b)
    BY <2>1
  <2>6. CASE i \in t
    <3>1. Comes(Assume(p, t), p, env, i) BY <1>1, <2>6, AssumeComes
    <3>2. Eval(p, e)[1].val.val[i] = c.val BY <2>2, <2>3, <2>4, <2>5, <2>6
    <3> QED BY <2>2, <2>5, <3>1, <3>2
  <2>7. CASE i \notin t
    <3>1. Comes(Assume(p, Input \ t), p, env, i) BY <1>1, <2>7, AssumeComes
    <3>2. Eval(p, e)[2].val.val[i] = c.val BY <2>2, <2>3, <2>4, <2>5, <2>7
    <3> QED BY <2>2, <2>5, <3>1, <3>2
  <2> QED BY <2>6, <2>7
<1>6. CASE e.kind = "write"
  <2> DEFINE q == Bind(p, e.var, Value(p, e.new))
  <2>1. Eval(p, e) = <<[path |-> q, val |-> Value(p, e.val)]>> BY <1>6 DEF Eval
  <2>2. c.env = Put(env, e.var, Apply(e.new, env)) /\ c.val = Apply(e.val, env) BY <1>6 DEF CEval
  <2>3. Value(p, e.new).val[i] = Apply(e.new, env) /\ Value(p, e.val).val[i] = Apply(e.val, env)
    BY ValueIs DEF env
  <2>4. Comes(q, p, c.env, i)
    <3>1. Comes(q, p, Put(env, e.var, Value(p, e.new).val[i]), i) BY <1>1, SoundValues, BindComes
    <3> HIDE DEF q, c
    <3> QED BY <2>2, <2>3, <3>1
  <2> HIDE DEF c, q
  <2>5. 1 \in DOMAIN Eval(p, e) /\ Eval(p, e)[1].path = q /\ Eval(p, e)[1].val = Value(p, e.val)
    BY <2>1
  <2> QED BY <2>2, <2>3, <2>4, <2>5
<1> QED BY <1>4, <1>5, <1>6 DEF IsExpr

LEMMA LeaveIs ==
  ASSUME NEW st, st = [env |-> st.env, mode |-> st.mode, ret |-> st.ret], NEW ls
  PROVE  Leave(st, ls) = [env |-> [v \in DOMAIN st.env \ ls |-> st.env[v]], mode |-> st.mode, ret |-> st.ret]
<1> DEFINE e == st.env
           m == st.mode
           r == st.ret
           g == [v \in DOMAIN e \ ls |-> e[v]]
<1>1. st = [env |-> e, mode |-> m, ret |-> r] /\ Leave(st, ls) = [st EXCEPT !.env = g] BY DEF Leave
<1>2. [v \in DOMAIN st.env \ ls |-> st.env[v]] = g OBVIOUS
<1> HIDE DEF e, m, r, g
<1>3. Leave(st, ls) = [env |-> g, mode |-> m, ret |-> r] BY <1>1
<1> QED BY <1>2, <1>3 DEF m, r

(* The clean-up takes the locals out of the execution, too. *)
LEMMA CleanupTells ==
  ASSUME NEW exact \in BOOLEAN, NEW p, SoundPath(p, exact), NEW i, Tells(p, i), NEW ls \in SUBSET Local
  PROVE  /\ Tells(Cleanup(p, ls), i)
         /\ Point(Cleanup(p, ls), i) = [Point(p, i) EXCEPT !.st = Leave(StateOf(p, i), ls)]
<1> DEFINE q == Cleanup(p, ls)
<1>1. /\ q.state = p.state /\ q.ctx = p.ctx /\ q.ret = p.ret
      /\ q.env = [v \in DOMAIN p.env \ ls |-> p.env[v]]
  BY DEF Cleanup, SoundPath
<1>2. Holds(q, i) BY SoundCleanup DEF Tells
<1> HIDE DEF q
<1>3. StateOf(q, i) = Leave(StateOf(p, i), ls)
  <2> DEFINE st == StateOf(p, i)
  <2>1. /\ st = [env |-> st.env, mode |-> st.mode, ret |-> st.ret]
        /\ st.env = [v \in DOMAIN p.env |-> p.env[v].val[i]]
    BY DEF StateOf
  <2>2. StateOf(q, i).mode = st.mode /\ StateOf(q, i).ret = st.ret BY <1>1 DEF StateOf
  <2>3. StateOf(q, i).env = [v \in DOMAIN st.env \ ls |-> st.env[v]]
    <3>1. StateOf(q, i).env = [v \in DOMAIN q.env |-> q.env[v].val[i]] BY DEF StateOf
    <3>2. DOMAIN st.env = DOMAIN p.env /\ \A v \in DOMAIN p.env : st.env[v] = p.env[v].val[i]
      BY <2>1
    <3> HIDE DEF st
    <3> QED BY <1>1, <3>1, <3>2
  <2>4. StateOf(q, i) = [env |-> StateOf(q, i).env, mode |-> StateOf(q, i).mode, ret |-> StateOf(q, i).ret]
    BY DEF StateOf
  <2> HIDE DEF st
  <2>5. Leave(st, ls) = [env |-> [v \in DOMAIN st.env \ ls |-> st.env[v]], mode |-> st.mode, ret |-> st.ret]
    BY <2>1, LeaveIs
  <2>6. StateOf(q, i) = Leave(st, ls) BY <2>2, <2>3, <2>4, <2>5
  <2> QED BY <2>6 DEF st
<1>4. StateOf(p, i) \in CState BY DEF Tells
<1>5. Leave(StateOf(p, i), ls) \in CState /\ Leave(StateOf(p, i), ls).mode = StateOf(p, i).mode
  BY <1>4, LeaveTyped
<1>6. Tells(q, i) BY <1>1, <1>2, <1>3, <1>5 DEF Tells
<1>7. Point(q, i) = [Point(p, i) EXCEPT !.st = Leave(StateOf(p, i), ls)]
  BY <1>1, <1>3, <1>5 DEF Point, Marked
<1> QED BY <1>6, <1>7 DEF q

(* Leaving a block that does nothing to a point. *)
LEMMA LeaveNothing ==
  ASSUME NEW q, IsPoint(q), NEW ls, Avoids(q, ls)
  PROVE  Leave(q.st, ls) = q.st /\ [q EXCEPT !.st = Leave(q.st, ls)] = q
<1>1. /\ q.st = [env |-> q.st.env, mode |-> q.st.mode, ret |-> q.st.ret]
      /\ q.st.env \in Env
  BY CStateIs DEF IsPoint
<1>2. q.st.env = [v \in DOMAIN q.st.env |-> q.st.env[v]] BY <1>1, EnvIs
<1>3. DOMAIN q.st.env \ ls = DOMAIN q.st.env BY DEF Avoids
<1>4. Leave(q.st, ls) = q.st BY <1>1, <1>2, <1>3 DEF Leave
<1> QED BY <1>4 DEF IsPoint

(* The locals of the statements inside a statement are not those that it   *)
(* writes.                                                                 *)
LEMMA AvoidsInside ==
  ASSUME NEW p \in Programs, NEW s \in Stmts(p), NEW q, Avoids(q, Declared(s))
  PROVE  /\ Avoids(q, OwnLocals(s))
         /\ \A t \in Children(s) : Avoids(q, Declared(t))
         /\ \A r : (\A v \in DOMAIN r.st.env : v \in DOMAIN q.st.env \/ v \in Writes(s)) =>
              Avoids(r, Declared(s)) /\ \A t \in Children(s) : Avoids(r, Declared(t))
<1>1. /\ OwnLocals(s) \subseteq Declared(s)
      /\ \A t \in Children(s) : Declared(t) \subseteq Declared(s)
      /\ Writes(s) \cap Declared(s) = {}
  BY ScopeAssumption
<1>2. ASSUME NEW r, \A v \in DOMAIN r.st.env : v \in DOMAIN q.st.env \/ v \in Writes(s)
      PROVE  Avoids(r, Declared(s))
  BY <1>1, <1>2 DEF Avoids
<1>3. ASSUME NEW r, Avoids(r, Declared(s)), NEW t \in Children(s) PROVE Avoids(r, Declared(t))
  BY <1>1, <1>3 DEF Avoids
<1> QED BY <1>1, <1>2, <1>3 DEF Avoids

-----------------------------------------------------------------------------
(* Steps keep what is told. *)

LEMMA RetoldStep ==
  ASSUME IsSeq(stack), stack # <<>>, NEW fs, IsSeq(fs), Continue(fs), NEW h,
         IF Restores(Head(stack)) THEN h = Head(stack).prev ELSE h = ctx,
         CtxBelow(ctx', fs, Len(fs), h), Replacing(fs)
  PROVE  Retold
<1>1. CtxBelow(ctx, stack, 1, h)
  <2>1. Head(stack) = stack[1] /\ \A j \in 1 .. 1 : j = 1 BY HeadAndTail
  <2>2. 1 \in 1 .. 1 /\ 1 + 1 .. 1 = {} OBVIOUS
  <2> QED BY <2>1, <2>2 DEF CtxBelow
<1>2. ASSUME NEW i \in Input, NEW r, Told(ctx, paths, stack, r, i) PROVE Told(ctx', paths', stack', r, i)
  <2>1. \A o : ToldBy(ctx, paths, Head(stack), o, i) => Told(ctx', paths', fs, o, i)
    BY DEF Replacing
  <2>2. Told(ctx', paths', fs \o Tail(stack), r, i) BY <1>1, <1>2, <2>1, TellStep
  <2> QED BY <2>2 DEF Continue
<1> QED BY <1>2 DEF Retold

LEMMA PlainRetold ==
  ASSUME Sound, NEW op, At(op), op \notin {"leave", "else", "join"}, ctx' = ctx,
         NEW fs, IsSeq(fs), Continue(fs), \A k \in DOMAIN fs : ~Restores(fs[k]), Replacing(fs)
  PROVE  Retold
<1>1. IsSeq(stack) /\ stack # <<>> /\ ~Restores(Head(stack))
  BY OnTop DEF SoundState, SoundStack, Restores
<1>2. CtxBelow(ctx', fs, Len(fs), ctx)
  <2>1. Len(fs) \in Nat /\ DOMAIN fs = 1 .. Len(fs) BY DEF IsSeq
  <2> QED BY <2>1, CtxStays
<1> QED BY <1>1, <1>2, RetoldStep

LEMMA EnterRetold ==
  ASSUME Sound, NEW op, At(op), NEW f, NEW g, NEW h, Continue(<<f, g>>),
         IF Restores(Head(stack)) THEN h = Head(stack).prev ELSE h = ctx,
         Restores(g), g.prev = h, Replacing(<<f, g>>)
  PROVE  Retold
<1> DEFINE fs == <<f, g>>
<1>1. IsSeq(stack) /\ stack # <<>> BY OnTop DEF SoundState, SoundStack
<1>2. IsSeq(fs) /\ Len(fs) = 2 /\ fs[2] = g /\ Continue(fs) /\ Replacing(fs) BY DEF IsSeq
<1> HIDE DEF fs
<1>3. CtxBelow(ctx', fs, Len(fs), h)
  <2>1. 2 \in 1 .. 2 /\ 2 + 1 .. 2 = {} OBVIOUS
  <2> QED BY <1>2, <2>1 DEF CtxBelow
<1> QED BY <1>1, <1>2, <1>3, RetoldStep

LEMMA ExitRetold ==
  ASSUME Sound, NEW op, At(op), op \in {"leave", "join"}, ctx' = Head(stack).prev,
         Continue(<<>>), Replacing(<<>>)
  PROVE  Retold
<1> DEFINE fs == <<>>
<1>1. IsSeq(stack) /\ stack # <<>> /\ Restores(Head(stack))
  BY OnTop DEF SoundState, SoundStack, Restores
<1>2. IsSeq(fs) /\ Len(fs) = 0 /\ Continue(fs) /\ Replacing(fs) BY EmptyIsSeq
<1> HIDE DEF fs
<1>3. CtxBelow(ctx', fs, Len(fs), ctx') BY <1>2, CtxTop
<1> QED BY <1>1, <1>2, <1>3, RetoldStep

(* What the statement on top says of a path that is stepped. *)
LEMMA ToldByStep ==
  ASSUME Sound, NEW kind, AtStmt(kind), NEW i \in Input, NEW o, ToldBy(ctx, paths, Head(stack), o, i)
  PROVE  /\ Stmt \in Stmts(prog) /\ Stmt \in Statements
         /\ \E k \in DOMAIN paths :
              /\ Tells(paths[k], i) /\ SoundPath(paths[k], Exact)
              /\ Avoids(Point(paths[k], i), Declared(Stmt))
              /\ o = Stepped(Point(paths[k], i), Execute(Run, Stmt, StateOf(paths[k], i), i), ctx)
              /\ ~IsActive(paths[k]) => o = Point(paths[k], i)
<1>1. /\ Stmt \in Stmts(prog) /\ SoundPaths(paths, Exact) /\ Head(stack).op = "step"
      /\ prog \in Programs
  BY StmtOnTop DEF AtStmt, At, Sound
<1>2. Stmt \in Statements BY <1>1 DEF Statements
<1>3. ~\E p : Waits(Head(stack), ctx, p, o, i) BY <1>1 DEF Waits
<1>4. PICK k \in DOMAIN paths : Tells(paths[k], i) /\ Passes(Head(stack), ctx, Point(paths[k], i), o, i)
  BY <1>3 DEF ToldBy
<1> DEFINE p == paths[k]
           q == Point(paths[k], i)
<1>5. Avoids(q, Declared(Stmt)) /\ o = Stepped(q, Run[Stmt][q.st][i], ctx)
  BY <1>1, <1>4 DEF Passes, Stmt
<1>6. q.st = StateOf(p, i) /\ IsPoint(q) /\ (q.st.mode = "run" <=> p.state = "Step")
  BY <1>4, PointIs
<1>7. StateOf(p, i) \in CState /\ SoundPath(p, Exact) BY <1>1, <1>4 DEF Tells, SoundPaths
<1> HIDE DEF q, p
<1>8. Run[Stmt][q.st][i] = Execute(Run, Stmt, StateOf(p, i), i) BY <1>2, <1>6, <1>7, RunAt
<1>9. ~IsActive(p) => o = q BY <1>5, <1>6, SteppedIs DEF IsActive
<1> QED BY <1>1, <1>2, <1>4, <1>5, <1>7, <1>8, <1>9 DEF p, q

LEMMA ActiveRetold ==
  ASSUME Sound, NEW kind, AtStmt(kind), ctx' = ctx, Continue(<<>>),
         NEW F, F = [k \in DOMAIN paths |-> F[k]], paths' = FlattenSeq(F),
         \A k \in DOMAIN paths : SoundPath(paths[k], Exact) => Says(F[k], paths[k], Stmt)
  PROVE  Retold
<1>1. SoundPaths(paths, Exact) /\ IsSeq(paths) /\ At("step") BY StmtOnTop DEF AtStmt
<1>2. IsSeq(F) /\ DOMAIN F = DOMAIN paths BY <1>1, FunctionIsSeq DEF IsSeq
<1>3. \A k \in DOMAIN F : IsSeq(F[k]) BY <1>1, <1>2 DEF SoundPaths, Says
<1>4. ASSUME NEW i \in Input, NEW o, ToldBy(ctx, paths, Head(stack), o, i)
      PROVE  Told(ctx', paths', <<>>, o, i)
  <2>1. PICK k \in DOMAIN paths :
          /\ Tells(paths[k], i) /\ SoundPath(paths[k], Exact)
          /\ o = Stepped(Point(paths[k], i), Execute(Run, Stmt, StateOf(paths[k], i), i), ctx)
          /\ ~IsActive(paths[k]) => o = Point(paths[k], i)
    BY <1>4, ToldByStep
  <2>2. \E j \in DOMAIN F[k] : Tells(F[k][j], i) /\ Point(F[k][j], i) = o
    <3>1. CASE IsActive(paths[k])
      <4>1. Point(paths[k], i).st.mode = "run" /\ IsPoint(Point(paths[k], i))
        BY <2>1, <3>1, PointIs DEF IsActive
      <4>2. o = Marked(Execute(Run, Stmt, StateOf(paths[k], i), i), ctx) BY <2>1, <4>1, SteppedIs
      <4> QED BY <2>1, <3>1, <4>2 DEF OneSays, Says
    <3>2. CASE ~IsActive(paths[k])
      <4>1. F[k] = <<paths[k]>> BY <2>1, <3>2 DEF Says
      <4>2. 1 \in DOMAIN F[k] /\ F[k][1] = paths[k] BY <4>1, SingletonIsSeq
      <4> QED BY <2>1, <3>2, <4>2
    <3> QED BY <3>1, <3>2
  <2>3. PICK j \in DOMAIN F[k] : Tells(F[k][j], i) /\ Point(F[k][j], i) = o BY <2>2
  <2>4. PICK l \in DOMAIN paths' : paths'[l] = F[k][j] BY <1>2, <1>3, <2>3, FlattenHolds
  <2> QED BY <2>3, <2>4, ToldNone
<1>5. Replacing(<<>>) BY <1>4 DEF Replacing
<1>6. IsSeq(<<>>) /\ DOMAIN <<>> = {} /\ "step" \notin {"leave", "else", "join"} BY EmptyIsSeq
<1> DEFINE fs == <<>>
<1>7. IsSeq(fs) /\ (\A k \in DOMAIN fs : ~Restores(fs[k])) /\ Continue(fs) /\ Replacing(fs)
  BY <1>5, <1>6
<1> HIDE DEF fs
<1> QED BY <1>1, <1>6, <1>7, PlainRetold

(* The expressions of a body that is stepped as C does. *)
LEMMA PlainExpr ==
  ASSUME Sound, SteppedAsC(prog), NEW s \in Stmts(prog), NEW e \in ExprsOf(s)
  PROVE  /\ IsExpr(e) /\ IsTyped(e) /\ e.kind # "and" /\ WrittenBy(e) \subseteq Writes(s)
         /\ prog \in Programs
<1>1. prog \in Programs BY DEF Sound
<1> QED BY <1>1, ExprIs DEF SteppedAsC

(* The results of an expression, each of which goes on with G. *)
LEMMA ResultsSay ==
  ASSUME NEW exact \in BOOLEAN, NEW p, SoundPath(p, exact), NEW i \in Input, Tells(p, i), IsActive(p),
         NEW e, IsExpr(e), IsTyped(e), e.kind # "and",
         NEW H, H = [j \in DOMAIN Eval(p, e) |-> H[j]], NEW st,
         \A j \in DOMAIN Eval(p, e) :
           LET r == Eval(p, e)[j]
               c == CEval(StateOf(p, i).env, e)
           IN  /\ SoundPath(r.path, exact) /\ SoundValue(r.val, exact)
               /\ Comes(r.path, p, c.env, i) /\ r.val.val[i] = c.val /\ c.env \in Env /\ c.val \in Val
               => Tells(H[j], i) /\ Point(H[j], i) = Marked(st, ctx)
  PROVE  OneSays(H, st, i)
<1> DEFINE c == CEval(StateOf(p, i).env, e)
<1>1. PICK j \in DOMAIN Eval(p, e) :
        /\ SoundPath(Eval(p, e)[j].path, exact) /\ SoundValue(Eval(p, e)[j].val, exact)
        /\ Comes(Eval(p, e)[j].path, p, c.env, i)
        /\ Eval(p, e)[j].val.val[i] = c.val
  BY EvalTells
<1>2. c.env \in Env /\ c.val \in Val
  <2>1. StateOf(p, i).env \in Env BY TellsIs
  <2> QED BY <2>1, CEvalTyped
<1>3. Tells(H[j], i) /\ Point(H[j], i) = Marked(st, ctx) BY <1>1, <1>2
<1>4. j \in DOMAIN H BY <1>1
<1> QED BY <1>3, <1>4 DEF OneSays

LEMMA ResultsAreSeq ==
  ASSUME NEW exact \in BOOLEAN, NEW p, SoundPath(p, exact), NEW e, IsExpr(e),
         NEW H, H = [j \in DOMAIN Eval(p, e) |-> H[j]]
  PROVE  IsSeq(H)
<1>1. IsSeq(Eval(p, e)) BY EvalSame
<1> QED BY <1>1, FunctionIsSeq DEF IsSeq

LEMMA ExprTold == Sound /\ SteppedAsC(prog) /\ StepExpr => Retold
<1> SUFFICES ASSUME Sound, SteppedAsC(prog), StepExpr PROVE Retold OBVIOUS
<1> DEFINE s == Stmt
           e == s.e
           G(p) == [j \in DOMAIN Eval(p, e) |-> Eval(p, e)[j].path]
           F == [k \in DOMAIN paths |-> IF IsActive(paths[k]) THEN G(paths[k]) ELSE <<paths[k]>>]
<1>1. AtStmt("expr") /\ ctx' = ctx /\ Continue(<<>>) /\ paths' = FlattenSeq(F)
  BY DEF StepExpr, ForActive, EvalThen
<1>2. Exact \in BOOLEAN /\ s \in Stmts(prog) /\ s.kind = "expr" /\ e \in ExprsOf(s)
  BY <1>1, StmtOnTop DEF ExprsOf
<1>3. IsExpr(e) /\ IsTyped(e) /\ e.kind # "and" BY <1>2, PlainExpr
<1>4. \A st, i : st.mode = "run" => Execute(Run, s, st, i) = Running(CEval(st.env, e).env)
  BY <1>2 DEF Execute
<1> HIDE DEF s, e
<1>5. ASSUME NEW p, SoundPath(p, Exact), IsActive(p)
      PROVE  /\ IsSeq(G(p))
             /\ \A i \in Input : Tells(p, i) => OneSays(G(p), Execute(Run, s, StateOf(p, i), i), i)
  <2> DEFINE H == G(p)
  <2>1. H = [j \in DOMAIN Eval(p, e) |-> H[j]] /\ \A j \in DOMAIN Eval(p, e) : H[j] = Eval(p, e)[j].path
    OBVIOUS
  <2> HIDE DEF H
  <2>2. IsSeq(H) BY <1>2, <1>3, <1>5, <2>1, ResultsAreSeq
  <2>3. ASSUME NEW i \in Input, Tells(p, i) PROVE OneSays(H, Execute(Run, s, StateOf(p, i), i), i)
    <3> DEFINE c == CEval(StateOf(p, i).env, e)
    <3>1. Execute(Run, s, StateOf(p, i), i) = Running(c.env)
      BY <1>4, <1>5, <2>3 DEF StateOf, IsActive
    <3>2. ASSUME NEW j \in DOMAIN Eval(p, e), Comes(Eval(p, e)[j].path, p, c.env, i), c.env \in Env
          PROVE  Tells(H[j], i) /\ Point(H[j], i) = Marked(Running(c.env), ctx)
      <4> HIDE DEF c
      <4> QED BY <2>1, <3>2, ComesTells
    <3>3. OneSays(H, Running(c.env), i) BY <1>2, <1>3, <1>5, <2>1, <2>3, <3>2, ResultsSay
    <3> HIDE DEF c
    <3> QED BY <3>1, <3>3
  <2> QED BY <2>2, <2>3 DEF H
<1>6. F = [k \in DOMAIN paths |-> F[k]] OBVIOUS
<1>7. ASSUME NEW k \in DOMAIN paths, SoundPath(paths[k], Exact)
      PROVE  Says(F[k], paths[k], s)
  <2> HIDE DEF G
  <2> QED BY <1>5, <1>7, SingletonIsSeq DEF Says
<1> HIDE DEF F
<1> QED BY <1>1, <1>6, <1>7, ActiveRetold DEF s

(* A variable gets the value of an expression. *)
LEMMA AssignedSays ==
  ASSUME NEW exact \in BOOLEAN, NEW p, SoundPath(p, exact), IsActive(p),
         NEW e, IsExpr(e), IsTyped(e), e.kind # "and", NEW v \in Var,
         NEW H, H = [j \in DOMAIN Eval(p, e) |-> Bind(Eval(p, e)[j].path, v, Eval(p, e)[j].val)]
  PROVE  /\ IsSeq(H)
         /\ \A i \in Input : Tells(p, i) => OneSays(H, Assigned(StateOf(p, i).env, v, e), i)
<1>1. H = [j \in DOMAIN Eval(p, e) |-> H[j]] OBVIOUS
<1>2. \A j \in DOMAIN Eval(p, e) : H[j] = Bind(Eval(p, e)[j].path, v, Eval(p, e)[j].val) OBVIOUS
<1>3. IsSeq(H) BY <1>1, ResultsAreSeq
<1>4. ASSUME NEW i \in Input, Tells(p, i) PROVE OneSays(H, Assigned(StateOf(p, i).env, v, e), i)
  <2> DEFINE c == CEval(StateOf(p, i).env, e)
             env == Put(c.env, v, c.val)
  <2>1. Assigned(StateOf(p, i).env, v, e) = Running(env) BY DEF Assigned
  <2>2. ASSUME NEW j \in DOMAIN Eval(p, e),
               SoundPath(Eval(p, e)[j].path, exact), SoundValue(Eval(p, e)[j].val, exact),
               Comes(Eval(p, e)[j].path, p, c.env, i), Eval(p, e)[j].val.val[i] = c.val,
               c.env \in Env, c.val \in Val
        PROVE  Tells(H[j], i) /\ Point(H[j], i) = Marked(Running(env), ctx)
    <3>1. env \in Env BY <2>2, PutTyped
    <3> HIDE DEF c
    <3>2. Comes(H[j], p, env, i)
      <4>1. Comes(Bind(Eval(p, e)[j].path, v, Eval(p, e)[j].val), p, Put(c.env, v, Eval(p, e)[j].val.val[i]), i)
        BY <2>2, BindComes
      <4> QED BY <1>2, <2>2, <4>1
    <3> HIDE DEF env
    <3> QED BY <3>1, <3>2, ComesTells
  <2>3. OneSays(H, Running(env), i)
    <3> HIDE DEF env
    <3> QED BY <1>1, <1>4, <2>2, ResultsSay
  <2> HIDE DEF env
  <2> QED BY <2>1, <2>3
<1> QED BY <1>3, <1>4

LEMMA AssignTold == Sound /\ SteppedAsC(prog) /\ UpdateVarState => Retold
<1> SUFFICES ASSUME Sound, SteppedAsC(prog), UpdateVarState PROVE Retold OBVIOUS
<1> DEFINE s == Stmt
           e == s.e
           G(p) == [j \in DOMAIN Eval(p, e) |-> Bind(Eval(p, e)[j].path, s.var, Eval(p, e)[j].val)]
           F == [k \in DOMAIN paths |-> IF IsActive(paths[k]) THEN G(paths[k]) ELSE <<paths[k]>>]
<1>1. AtStmt("assign") /\ ctx' = ctx /\ Continue(<<>>) /\ paths' = FlattenSeq(F)
  BY DEF UpdateVarState, ForActive, EvalThen
<1>2. Exact \in BOOLEAN /\ s \in Stmts(prog) /\ s.kind = "assign" /\ e \in ExprsOf(s)
  BY <1>1, StmtOnTop DEF ExprsOf
<1>3. IsExpr(e) /\ IsTyped(e) /\ e.kind # "and" /\ s.var \in Var BY <1>2, PlainExpr, ExprAssumption
<1>4. \A st, i : st.mode = "run" => Execute(Run, s, st, i) = Assigned(st.env, s.var, e)
  BY <1>2 DEF Execute
<1> HIDE DEF s, e
<1>5. ASSUME NEW p, SoundPath(p, Exact), IsActive(p)
      PROVE  /\ IsSeq(G(p))
             /\ \A i \in Input : Tells(p, i) => OneSays(G(p), Execute(Run, s, StateOf(p, i), i), i)
  <2>1. /\ IsSeq(G(p))
        /\ \A i \in Input : Tells(p, i) => OneSays(G(p), Assigned(StateOf(p, i).env, s.var, e), i)
    BY <1>2, <1>3, <1>5, AssignedSays
  <2>2. \A i : StateOf(p, i).mode = "run" BY <1>5 DEF StateOf, IsActive
  <2> QED BY <1>4, <2>1, <2>2
<1>6. F = [k \in DOMAIN paths |-> F[k]] OBVIOUS
<1>7. ASSUME NEW k \in DOMAIN paths, SoundPath(paths[k], Exact)
      PROVE  Says(F[k], paths[k], s)
  <2> HIDE DEF G
  <2> QED BY <1>5, <1>7, SingletonIsSeq DEF Says
<1> HIDE DEF F
<1> QED BY <1>1, <1>6, <1>7, ActiveRetold DEF s

LEMMA DeclTold == Sound /\ SteppedAsC(prog) /\ AddNewDecls => Retold
<1> SUFFICES ASSUME Sound, SteppedAsC(prog), AddNewDecls PROVE Retold OBVIOUS
<1> DEFINE s == Stmt
           e == CHOOSE x \in s.init : TRUE
           G(p) == [j \in DOMAIN Eval(p, e) |-> Bind(Eval(p, e)[j].path, s.var, Eval(p, e)[j].val)]
           one(p) == <<Bind(p, s.var, Symbol(s.var))>>
           F == [k \in DOMAIN paths |->
                  IF IsActive(paths[k])
                  THEN IF s.init = {} THEN one(paths[k]) ELSE G(paths[k])
                  ELSE <<paths[k]>>]
<1>1. AtStmt("decl") /\ ctx' = ctx /\ Continue(<<>>) /\ paths' = FlattenSeq(F)
  BY DEF AddNewDecls, ForActive, EvalThen
<1>2. /\ Exact \in BOOLEAN /\ s \in Stmts(prog) /\ s.kind = "decl"
      /\ s.var \in Local /\ (s.init = {} => Uninitialized(prog)) /\ s.init = ExprsOf(s)
  <2>1. Exact \in BOOLEAN /\ s \in Stmts(prog) /\ s.kind = "decl" /\ IsStmt(s, Stmts(prog), Uninitialized(prog))
    BY <1>1, StmtOnTop
  <2> HIDE DEF s
  <2> QED BY <2>1 DEF ExprsOf, IsStmt
<1>3. (s.init # {} => IsExpr(e) /\ IsTyped(e) /\ e.kind # "and") /\ s.var \in Var
  <2>1. s.init # {} => e \in ExprsOf(s) BY <1>2
  <2> HIDE DEF e, s
  <2> QED BY <1>2, <2>1, PlainExpr, LocalAssumption
<1>4. \A st, i : st.mode = "run" =>
        Execute(Run, s, st, i) = IF s.init = {} THEN Running(Put(st.env, s.var, i[s.var]))
                                 ELSE Assigned(st.env, s.var, e)
  BY <1>2 DEF Execute
<1> HIDE DEF s, e
<1>5. ASSUME NEW p, SoundPath(p, Exact), IsActive(p), s.init # {}
      PROVE  /\ IsSeq(G(p))
             /\ \A i \in Input : Tells(p, i) => OneSays(G(p), Execute(Run, s, StateOf(p, i), i), i)
  <2>1. /\ IsSeq(G(p))
        /\ \A i \in Input : Tells(p, i) => OneSays(G(p), Assigned(StateOf(p, i).env, s.var, e), i)
    BY <1>2, <1>3, <1>5, AssignedSays
  <2>2. \A i : StateOf(p, i).mode = "run" BY <1>5 DEF StateOf, IsActive
  <2> QED BY <1>4, <1>5, <2>1, <2>2
<1>6. ASSUME NEW p, SoundPath(p, Exact), IsActive(p), s.init = {}
      PROVE  /\ IsSeq(one(p))
             /\ \A i \in Input : Tells(p, i) => OneSays(one(p), Execute(Run, s, StateOf(p, i), i), i)
  <2> DEFINE q == Bind(p, s.var, Symbol(s.var))
  <2>1. ASSUME NEW i \in Input, Tells(p, i)
        PROVE  Tells(q, i) /\ Point(q, i) = Marked(Execute(Run, s, StateOf(p, i), i), ctx)
    <3> DEFINE env == StateOf(p, i).env
               x == Symbol(s.var)
               new == Put(env, s.var, i[s.var])
    <3>1. Execute(Run, s, StateOf(p, i), i) = Running(new) BY <1>4, <1>6 DEF StateOf, IsActive
    <3>2. env \in Env /\ Comes(p, p, env, i) BY <1>6, <2>1, TellsIs DEF Comes, Tells, IsActive
    <3>3. SoundValue(x, Exact) /\ x.val[i] = i[s.var] /\ i[s.var] \in Val
      <4>1. ~Exact BY <1>2, <1>6 DEF Exact
      <4> QED BY <1>3, <4>1, InputAssumption DEF Symbol, SoundValue
    <3> HIDE DEF env, x
    <3>4. Comes(q, p, new, i)
      <4>1. Comes(Bind(p, s.var, x), p, Put(env, s.var, x.val[i]), i)
        BY <1>2, <1>6, <3>2, <3>3, BindComes
      <4> QED BY <3>3, <4>1 DEF x
    <3>5. new \in Env BY <1>3, <3>2, <3>3, PutTyped
    <3> HIDE DEF q, new
    <3> QED BY <3>1, <3>4, <3>5, ComesTells
  <2> HIDE DEF q
  <2>2. IsSeq(<<q>>) /\ 1 \in DOMAIN <<q>> /\ <<q>>[1] = q BY SingletonIsSeq
  <2>3. /\ IsSeq(<<q>>)
        /\ \A i \in Input : Tells(p, i) => OneSays(<<q>>, Execute(Run, s, StateOf(p, i), i), i)
    BY <2>1, <2>2 DEF OneSays
  <2> QED BY <2>3 DEF q
<1>7. F = [k \in DOMAIN paths |-> F[k]] OBVIOUS
<1>8. ASSUME NEW k \in DOMAIN paths, SoundPath(paths[k], Exact)
      PROVE  Says(F[k], paths[k], s)
  <2> HIDE DEF G, one
  <2> QED BY <1>5, <1>6, <1>8, SingletonIsSeq DEF Says
<1> HIDE DEF F
<1> QED BY <1>1, <1>7, <1>8, ActiveRetold DEF s

LEMMA ReturnTells ==
  ASSUME NEW exact, NEW p, NEW q, SoundPath(q, exact), NEW env \in Env, NEW i, Comes(q, p, env, i),
         NEW x, Returned(x, i) \subseteq Val
  PROVE  /\ Tells(Back(q, x), i)
         /\ \A c : Point(Back(q, x), i) = Marked([env |-> env, mode |-> "return", ret |-> Returned(x, i)], c)
<1> DEFINE r == Back(q, x)
           ret == Returned(x, i)
           st == [env |-> env, mode |-> "return", ret |-> ret]
<1>1. r.state = "Return" /\ r.ctx = 0 /\ r.ret = x /\ r.conds = q.conds /\ r.env = q.env
  BY DEF SetState, SoundPath, Back
<1> HIDE DEF r
<1>2. env = [v \in DOMAIN q.env |-> q.env[v].val[i]] BY DEF Comes, StateOf, Running
<1>3. StateOf(r, i) = st BY <1>1, <1>2 DEF StateOf, Returned
<1>4. st \in CState
  <2> HIDE DEF ret
  <2> QED BY CStateIs DEF ret
<1>5. Tells(r, i) BY <1>1, <1>3, <1>4 DEF Tells, Comes, Holds
<1>6. st.mode = "return" OBVIOUS
<1> HIDE DEF st
<1>7. \A c : Point(r, i) = Marked(st, c) BY <1>3, <1>6 DEF Point, Marked
<1> QED BY <1>5, <1>7 DEF r, st

LEMMA ReturnTold == Sound /\ SteppedAsC(prog) /\ StepReturn => Retold
<1> SUFFICES ASSUME Sound, SteppedAsC(prog), StepReturn PROVE Retold OBVIOUS
<1> DEFINE s == Stmt
           e == CHOOSE x \in s.e : TRUE
           G(p) == [j \in DOMAIN Eval(p, e) |-> Back(Eval(p, e)[j].path, {Eval(p, e)[j].val})]
           F == [k \in DOMAIN paths |->
                  IF IsActive(paths[k])
                  THEN IF s.e = {} THEN <<Back(paths[k], {})>> ELSE G(paths[k])
                  ELSE <<paths[k]>>]
<1>1. AtStmt("return") /\ ctx' = ctx /\ Continue(<<>>) /\ paths' = FlattenSeq(F)
  BY DEF StepReturn, ForActive, EvalThen, Back
<1>2. Exact \in BOOLEAN /\ s \in Stmts(prog) /\ s.kind = "return" /\ s.e = ExprsOf(s)
  BY <1>1, StmtOnTop DEF ExprsOf
<1>3. s.e # {} => IsExpr(e) /\ IsTyped(e) /\ e.kind # "and"
  <2>1. s.e # {} => e \in ExprsOf(s) BY <1>2
  <2> HIDE DEF e, s
  <2> QED BY <1>2, <2>1, PlainExpr
<1>4. \A st, i : st.mode = "run" =>
        Execute(Run, s, st, i) =
          IF s.e = {} THEN [st EXCEPT !.mode = "return"]
          ELSE [env |-> CEval(st.env, e).env, mode |-> "return", ret |-> {CEval(st.env, e).val}]
  BY <1>2 DEF Execute
<1> HIDE DEF s, e
<1>5. ASSUME NEW p, SoundPath(p, Exact), IsActive(p), s.e # {}
      PROVE  /\ IsSeq(G(p))
             /\ \A i \in Input : Tells(p, i) => OneSays(G(p), Execute(Run, s, StateOf(p, i), i), i)
  <2> DEFINE H == G(p)
  <2>1. H = [j \in DOMAIN Eval(p, e) |-> H[j]] OBVIOUS
  <2>2. \A j \in DOMAIN Eval(p, e) : H[j] = Back(Eval(p, e)[j].path, {Eval(p, e)[j].val}) OBVIOUS
  <2> HIDE DEF H
  <2>3. IsSeq(H) BY <1>2, <1>3, <1>5, <2>1, ResultsAreSeq
  <2>4. ASSUME NEW i \in Input, Tells(p, i) PROVE OneSays(H, Execute(Run, s, StateOf(p, i), i), i)
    <3> DEFINE c == CEval(StateOf(p, i).env, e)
               st == [env |-> c.env, mode |-> "return", ret |-> {c.val}]
    <3>1. Execute(Run, s, StateOf(p, i), i) = st BY <1>4, <1>5, <2>4 DEF StateOf, IsActive
    <3>2. ASSUME NEW j \in DOMAIN Eval(p, e), SoundPath(Eval(p, e)[j].path, Exact),
                 Comes(Eval(p, e)[j].path, p, c.env, i), Eval(p, e)[j].val.val[i] = c.val,
                 c.env \in Env, c.val \in Val
          PROVE  Tells(H[j], i) /\ Point(H[j], i) = Marked(st, ctx)
      <4> DEFINE v == Eval(p, e)[j].val
                 q == Eval(p, e)[j].path
      <4>1. Returned({v}, i) = {c.val} BY <3>2 DEF Returned
      <4> HIDE DEF v, q, c
      <4>2. Returned({v}, i) \subseteq Val BY <3>2, <4>1
      <4>3. SoundPath(q, Exact) /\ Comes(q, p, c.env, i) /\ H[j] = Back(q, {v})
        BY <2>2, <3>2 DEF q, v
      <4>4. /\ Tells(Back(q, {v}), i)
            /\ Point(Back(q, {v}), i) = Marked([env |-> c.env, mode |-> "return", ret |-> Returned({v}, i)], ctx)
        BY <3>2, <4>2, <4>3, ReturnTells
      <4> QED BY <4>1, <4>3, <4>4
    <3>3. OneSays(H, st, i)
      <4> HIDE DEF st
      <4> QED BY <1>2, <1>3, <1>5, <2>1, <2>4, <3>2, ResultsSay
    <3> HIDE DEF st
    <3> QED BY <3>1, <3>3
  <2> QED BY <2>3, <2>4 DEF H
<1>6. ASSUME NEW p, SoundPath(p, Exact), IsActive(p), s.e = {}
      PROVE  /\ IsSeq(<<Back(p, {})>>)
             /\ \A i \in Input : Tells(p, i) =>
                  OneSays(<<Back(p, {})>>, Execute(Run, s, StateOf(p, i), i), i)
  <2> DEFINE q == Back(p, {})
  <2>1. ASSUME NEW i \in Input, Tells(p, i)
        PROVE  Tells(q, i) /\ Point(q, i) = Marked(Execute(Run, s, StateOf(p, i), i), ctx)
    <3> DEFINE env == StateOf(p, i).env
    <3>0. PICK x : x = {} OBVIOUS
    <3>1. env \in Env /\ Comes(p, p, env, i) /\ StateOf(p, i) = Running(env)
      BY <1>6, <2>1, TellsIs DEF Comes, Tells, IsActive
    <3>2. Returned(x, i) = {} BY <3>0 DEF Returned
    <3> HIDE DEF env, q
    <3>3. Execute(Run, s, StateOf(p, i), i) = [env |-> env, mode |-> "return", ret |-> {}]
      BY <1>4, <1>6, <3>1 DEF Running
    <3>4. Returned(x, i) \subseteq Val BY <3>2
    <3>5. /\ Tells(Back(p, x), i)
          /\ Point(Back(p, x), i) = Marked([env |-> env, mode |-> "return", ret |-> {}], ctx)
      <4>1. SoundPath(p, Exact) BY <1>6
      <4>2. env \in Env /\ Comes(p, p, env, i) BY <3>1
      <4> QED BY <4>1, <4>2, <3>2, <3>4, ReturnTells
    <3> QED BY <3>0, <3>2, <3>3, <3>5 DEF q
  <2> HIDE DEF q
  <2>2. IsSeq(<<q>>) /\ 1 \in DOMAIN <<q>> /\ <<q>>[1] = q BY SingletonIsSeq
  <2>3. /\ IsSeq(<<q>>)
        /\ \A i \in Input : Tells(p, i) => OneSays(<<q>>, Execute(Run, s, StateOf(p, i), i), i)
    BY <2>1, <2>2 DEF OneSays
  <2> QED BY <2>3 DEF q
<1>7. F = [k \in DOMAIN paths |-> F[k]] OBVIOUS
<1>8. ASSUME NEW k \in DOMAIN paths, SoundPath(paths[k], Exact)
      PROVE  Says(F[k], paths[k], s)
  <2> HIDE DEF G
  <2> QED BY <1>5, <1>6, <1>8, SingletonIsSeq DEF Says
<1> HIDE DEF F
<1> QED BY <1>1, <1>7, <1>8, ActiveRetold DEF s

LEMMA BreakTold == Sound /\ SteppedAsC(prog) /\ StepBreak => Retold
<1> SUFFICES ASSUME Sound, SteppedAsC(prog), StepBreak PROVE Retold OBVIOUS
<1> DEFINE s == Stmt
           F == [k \in DOMAIN paths |-> IF IsActive(paths[k])
                                        THEN <<SetState(paths[k], "Break", ctx)>> ELSE <<paths[k]>>]
<1>1. AtStmt("break") /\ ctx' = ctx /\ Continue(<<>>) /\ paths' = FlattenSeq(F)
  BY DEF StepBreak, ForActive
<1>2. Exact \in BOOLEAN /\ s.kind = "break" BY <1>1, StmtOnTop
<1>3. \A st, i : st.mode = "run" => Execute(Run, s, st, i) = [st EXCEPT !.mode = "break"]
  BY <1>2 DEF Execute
<1> HIDE DEF s
<1>4. ASSUME NEW p, SoundPath(p, Exact), IsActive(p), NEW i \in Input, Tells(p, i)
      PROVE  OneSays(<<SetState(p, "Break", ctx)>>, Execute(Run, s, StateOf(p, i), i), i)
  <2> DEFINE q == SetState(p, "Break", ctx)
             env == StateOf(p, i).env
             st == [env |-> env, mode |-> "break", ret |-> {}]
  <2>1. q.state = "Break" /\ q.ctx = ctx /\ q.conds = p.conds /\ q.env = p.env /\ q.ret = p.ret
    BY <1>4 DEF SoundPath, SetState
  <2>2. env \in Env /\ StateOf(p, i) = Running(env) BY <1>4, TellsIs
  <2>3. env = [v \in DOMAIN p.env |-> p.env[v].val[i]] /\ {x.val[i] : x \in p.ret} = {}
    BY <2>2 DEF StateOf, Running
  <2> HIDE DEF q, env
  <2>4. StateOf(q, i) = st /\ st \in CState BY <2>1, <2>2, <2>3, CStateIs DEF StateOf
  <2>5. Tells(q, i) BY <1>4, <2>1, <2>4 DEF Tells, Holds
  <2>6. Execute(Run, s, StateOf(p, i), i) = st BY <1>3, <2>2 DEF Running
  <2> HIDE DEF st
  <2>7. Point(q, i) = Marked(st, ctx) BY <2>1, <2>4 DEF Point
  <2>8. 1 \in DOMAIN <<q>> /\ <<q>>[1] = q BY SingletonIsSeq
  <2>9. OneSays(<<q>>, Execute(Run, s, StateOf(p, i), i), i) BY <2>5, <2>6, <2>7, <2>8 DEF OneSays
  <2> QED BY <2>9 DEF q
<1>5. F = [k \in DOMAIN paths |-> F[k]] OBVIOUS
<1>6. ASSUME NEW k \in DOMAIN paths, SoundPath(paths[k], Exact)
      PROVE  Says(F[k], paths[k], s)
  BY <1>4, <1>6, SingletonIsSeq DEF Says
<1> HIDE DEF F
<1> QED BY <1>1, <1>5, <1>6, ActiveRetold DEF s

(* Statements that end at once. *)
LEMMA LeafRetold ==
  ASSUME Sound, NEW op, At(op), op \notin {"leave", "else", "join"}, ctx' = ctx, Continue(<<>>),
         \A i \in Input : \A o : ToldBy(ctx, paths, Head(stack), o, i) =>
           \E k \in DOMAIN paths' : Tells(paths'[k], i) /\ o = Point(paths'[k], i)
  PROVE  Retold
<1>1. Replacing(<<>>)
  <2>1. ASSUME NEW i \in Input, NEW o, ToldBy(ctx, paths, Head(stack), o, i)
        PROVE  Told(ctx', paths', <<>>, o, i)
    BY <2>1, ToldNone
  <2> QED BY <2>1 DEF Replacing
<1> DEFINE fs == <<>>
<1>2. IsSeq(fs) /\ (\A k \in DOMAIN fs : ~Restores(fs[k])) /\ Continue(fs) /\ Replacing(fs)
  BY <1>1, EmptyIsSeq
<1> HIDE DEF fs
<1> QED BY <1>2, PlainRetold

LEMMA LeafExit ==
  ASSUME Sound, NEW op, At(op), op \in {"leave", "join"}, ctx' = Head(stack).prev, Continue(<<>>),
         \A i \in Input : \A o : ToldBy(ctx, paths, Head(stack), o, i) =>
           \E k \in DOMAIN paths' : Tells(paths'[k], i) /\ o = Point(paths'[k], i)
  PROVE  Retold
<1>1. ASSUME NEW i \in Input, NEW o, ToldBy(ctx, paths, Head(stack), o, i)
      PROVE  Told(ctx', paths', <<>>, o, i)
  BY <1>1, ToldNone
<1>2. Replacing(<<>>) BY <1>1 DEF Replacing
<1> QED BY <1>2, ExitRetold

LEMMA NullTold == Sound /\ StepNull => Retold
<1> SUFFICES ASSUME Sound, StepNull PROVE Retold OBVIOUS
<1>1. AtStmt("null") /\ At("step") /\ ctx' = ctx /\ paths' = paths /\ Continue(<<>>) /\ Stmt.kind = "null"
  BY DEF StepNull, AtStmt, Stmt
<1>2. ASSUME NEW i \in Input, NEW o, ToldBy(ctx, paths, Head(stack), o, i)
      PROVE  \E k \in DOMAIN paths' : Tells(paths'[k], i) /\ o = Point(paths'[k], i)
  <2>1. PICK k \in DOMAIN paths :
          /\ Tells(paths[k], i)
          /\ o = Stepped(Point(paths[k], i), Execute(Run, Stmt, StateOf(paths[k], i), i), ctx)
    BY <1>1, <1>2, ToldByStep
  <2>2. Execute(Run, Stmt, StateOf(paths[k], i), i) = StateOf(paths[k], i) BY <1>1 DEF Execute
  <2>3. o = Point(paths[k], i) BY <2>1, <2>2, PointIs, SteppedIs
  <2> QED BY <1>1, <2>1, <2>3
<1> QED BY <1>1, <1>2, LeafRetold

LEMMA CompoundTold == Sound /\ StepCompound => Retold
<1> SUFFICES ASSUME Sound, StepCompound PROVE Retold OBVIOUS
<1> DEFINE s == Stmt
           ss == s.body
           ls == LocalsOf(s)
           g == [op |-> "cleanup", locals |-> ls]
           fs == StepFrames(ss) \o <<g>>
           W == Writes(s) \cup ls
           D == Declared(s) \ ls
<1>1. AtStmt("compound") /\ At("step") /\ ctx' = ctx /\ paths' = paths /\ Continue(fs)
  BY DEF StepCompound, AtStmt
<1>2. /\ s \in Stmts(prog) /\ s.kind = "compound" /\ prog \in Programs
      /\ IsStmt(s, Stmts(prog), Uninitialized(prog))
  BY <1>1, StmtOnTop DEF Sound
<1> HIDE DEF s
<1>3. ss \in Seq(Stmts(prog)) /\ IsSeq(ss) /\ ls = OwnLocals(s)
  <2>1. ss \in Seq(Stmts(prog)) BY <1>2 DEF IsStmt
  <2> QED BY <1>2, <2>1, SeqIs DEF OwnLocals
<1>4. ASSUME NEW k \in DOMAIN ss
      PROVE  Good(ss[k]) /\ Writes(ss[k]) \subseteq W /\ Declared(ss[k]) \subseteq D
  <2>1. ss[k] \in Children(s) BY <1>2 DEF Children
  <2>2. ss[k] \in Statements BY <1>2, <2>1, ChildrenAre
  <2>3. Good(ss[k]) BY <2>2, Executes
  <2> QED BY <1>2, <1>3, <2>1, <2>3, ScopeAssumption
<1>5. W \cap D = {} /\ ls \subseteq Local /\ D \subseteq Declared(s) /\ ls \subseteq Declared(s)
  BY <1>2, <1>3, ScopeAssumption
<1>6. \A st, i : st.mode = "run" => Execute(Run, s, st, i) = Leave(RunAll(Run, ss, st, i), ls)
  BY <1>2 DEF Execute
<1>7. ~Restores(g) /\ g.op = "cleanup" /\ g.locals = ls BY DEF Restores
<1>8. IsSeq(StepFrames(ss)) /\ \A k \in DOMAIN StepFrames(ss) : ~Restores(StepFrames(ss)[k])
  BY <1>3, StepFramesAre DEF Restores
<1> HIDE DEF ss, ls, g, W, D
<1>9. ASSUME NEW i \in Input, NEW o, ToldBy(ctx, paths, Head(stack), o, i) PROVE Told(ctx', paths', fs, o, i)
  <2>1. PICK k \in DOMAIN paths :
          /\ Tells(paths[k], i)
          /\ Avoids(Point(paths[k], i), Declared(s))
          /\ o = Stepped(Point(paths[k], i), Execute(Run, s, StateOf(paths[k], i), i), ctx)
    BY <1>1, <1>9, ToldByStep DEF s
  <2> DEFINE q == Point(paths[k], i)
             R == RunAll(Run, ss, q.st, i)
             m == Stepped(q, R, ctx)
  <2>2. IsPoint(q) /\ q.st = StateOf(paths[k], i) /\ q.st \in CState BY <2>1, PointIs DEF IsPoint
  <2>3. Avoids(q, D) /\ Avoids(q, ls) BY <1>5, <2>1 DEF Avoids
  <2> HIDE DEF q
  <2>4. R \in CState BY <1>3, <1>4, <2>2, GoodRun
  <2>5. RowGoes(StepFrames(ss), ctx, q, m, i)
    <3> HIDE DEF R, m
    <3> QED BY <1>3, <1>4, <1>5, <2>2, <2>3, RowSteps DEF R, m
  <2>6. o = [m EXCEPT !.st = Leave(m.st, ls)]
    <3>1. CASE q.st.mode = "run"
      <4>1. m = Marked(R, ctx) /\ o = Marked(Leave(R, ls), ctx)
        BY <1>6, <2>1, <2>2, <3>1, SteppedIs DEF q
      <4> HIDE DEF R, m
      <4>2. Leave(R, ls) \in CState /\ Leave(R, ls).mode = R.mode BY <1>5, <2>4, LeaveTyped
      <4> QED BY <4>1, <4>2 DEF Marked
    <3>2. CASE q.st.mode # "run"
      <4>1. m = q /\ o = q BY <2>1, <2>2, <3>2, SteppedIs DEF q
      <4> HIDE DEF m
      <4> QED BY <2>2, <2>3, <4>1, LeaveNothing
    <3> QED BY <3>1, <3>2
  <2> HIDE DEF m
  <2>7. Passes(g, ctx, m, o, i) BY <1>7, <2>6 DEF Passes
  <2>8. Told(ctx, paths, fs, o, i) BY <1>8, <2>1, <2>5, <2>7, ToldRow DEF q
  <2> QED BY <1>1, <2>8
<1>10. IsSeq(fs) /\ \A k \in DOMAIN fs : ~Restores(fs[k])
  <2>1. IsSeq(<<g>>) /\ DOMAIN <<g>> = {1} /\ <<g>>[1] = g BY SingletonIsSeq
  <2> QED BY <1>7, <1>8, <2>1, Concatenation
<1>11. Replacing(fs) BY <1>9 DEF Replacing
<1> HIDE DEF fs
<1> QED BY <1>1, <1>10, <1>11, PlainRetold

LEMMA CleanupTold == Sound /\ StepCleanup => Retold
<1> SUFFICES ASSUME Sound, StepCleanup PROVE Retold OBVIOUS
<1> DEFINE ls == Head(stack).locals
<1>1. At("cleanup") /\ ctx' = ctx /\ paths' = [k \in DOMAIN paths |-> Cleanup(paths[k], ls)] /\ Continue(<<>>)
  BY DEF StepCleanup, Each
<1>2. /\ Head(stack).op = "cleanup" /\ ls \in SUBSET Local
      /\ Exact \in BOOLEAN /\ SoundPaths(paths, Exact)
  BY <1>1, OnTop DEF SoundFrame
<1>3. ASSUME NEW i \in Input, NEW o, ToldBy(ctx, paths, Head(stack), o, i)
      PROVE  \E k \in DOMAIN paths' : Tells(paths'[k], i) /\ o = Point(paths'[k], i)
  <2>1. ~\E p : Waits(Head(stack), ctx, p, o, i) BY <1>2 DEF Waits
  <2>2. PICK k \in DOMAIN paths : Tells(paths[k], i) /\ Passes(Head(stack), ctx, Point(paths[k], i), o, i)
    BY <1>3, <2>1 DEF ToldBy
  <2>3. o = [Point(paths[k], i) EXCEPT !.st = Leave(StateOf(paths[k], i), ls)]
    BY <1>2, <2>2, PointIs DEF Passes
  <2>4. Tells(Cleanup(paths[k], ls), i) /\ o = Point(Cleanup(paths[k], ls), i)
    BY <1>2, <2>2, <2>3, CleanupTells DEF SoundPaths
  <2> HIDE DEF ls
  <2>5. k \in DOMAIN paths' /\ paths'[k] = Cleanup(paths[k], ls) BY <1>1
  <2> QED BY <2>4, <2>5
<1> QED BY <1>1, <1>3, LeafRetold

-----------------------------------------------------------------------------
(* Branches. *)

LEMMA ThoseHold ==
  ASSUME NEW ps, IsSeq(ps), NEW k \in DOMAIN ps
  PROVE  /\ IsActive(ps[k]) =>
              \E l \in DOMAIN Those(ps, IsActive) : Those(ps, IsActive)[l] = ps[k]
         /\ ~IsActive(ps[k]) =>
              \E l \in DOMAIN Those(ps, LAMBDA p : ~IsActive(p)) :
                Those(ps, LAMBDA p : ~IsActive(p))[l] = ps[k]
<1> DEFINE A == [j \in DOMAIN ps |-> IF IsActive(ps[j]) THEN <<ps[j]>> ELSE <<>>]
           B == [j \in DOMAIN ps |-> IF ~IsActive(ps[j]) THEN <<ps[j]>> ELSE <<>>]
<1>1. /\ Those(ps, IsActive) = FlattenSeq(A)
      /\ Those(ps, LAMBDA p : ~IsActive(p)) = FlattenSeq(B)
  BY DEF Those, Each
<1>2. \A j \in DOMAIN ps : /\ A[j] = <<>> \/ A[j] = <<ps[j]>>
                           /\ B[j] = <<>> \/ B[j] = <<ps[j]>>
  OBVIOUS
<1>3. /\ A = [j \in DOMAIN ps |-> A[j]] /\ B = [j \in DOMAIN ps |-> B[j]]
      /\ IsActive(ps[k]) => A[k] = <<ps[k]>>
      /\ ~IsActive(ps[k]) => B[k] = <<ps[k]>>
  OBVIOUS
<1> HIDE DEF A, B
<1>4. IsSeq(A) /\ DOMAIN A = DOMAIN ps /\ IsSeq(B) /\ DOMAIN B = DOMAIN ps
  BY <1>3, FunctionIsSeq DEF IsSeq
<1>5. \A j \in DOMAIN ps : IsSeq(A[j]) /\ IsSeq(B[j]) BY <1>2, EmptyIsSeq, SingletonIsSeq
<1>6. ASSUME IsActive(ps[k]) PROVE \E l \in DOMAIN FlattenSeq(A) : FlattenSeq(A)[l] = ps[k]
  <2>1. 1 \in DOMAIN A[k] /\ A[k][1] = ps[k] BY <1>3, <1>6, SingletonIsSeq
  <2> QED BY <1>4, <1>5, <2>1, FlattenHolds
<1>7. ASSUME ~IsActive(ps[k]) PROVE \E l \in DOMAIN FlattenSeq(B) : FlattenSeq(B)[l] = ps[k]
  <2>1. 1 \in DOMAIN B[k] /\ B[k][1] = ps[k] BY <1>3, <1>7, SingletonIsSeq
  <2> QED BY <1>4, <1>5, <2>1, FlattenHolds
<1> QED BY <1>1, <1>6, <1>7

LEMMA TakenComes ==
  ASSUME NEW exact \in BOOLEAN, NEW r, SoundPath(r.path, exact), NEW p, NEW env \in Env, NEW i \in Input,
         Comes(r.path, p, env, i), NEW c, i \in c
  PROVE  Continues(Taken(r, c), p, env, i)
<1> DEFINE q == r.path
<1>1. Comes(Assume(q, c), p, env, i) BY AssumeComes
<1>2. Taken(r, c) = <<Assume(q, c)>> \/ Taken(r, c) = <<q>> BY DEF Taken
<1> HIDE DEF q
<1>3. /\ 1 \in DOMAIN Taken(r, c)
      /\ Taken(r, c)[1] = Assume(q, c) \/ Taken(r, c)[1] = q
  BY <1>2, SingletonIsSeq
<1>4. Comes(q, p, env, i) BY DEF q
<1> QED BY <1>1, <1>3, <1>4 DEF Continues

(* Flattened lists: what goes on in one of them goes on in all. *)
LEMMA FlattenContinues ==
  ASSUME NEW ss, IsSeq(ss), \A k \in DOMAIN ss : IsSeq(ss[k]), NEW k \in DOMAIN ss,
         NEW p, NEW env, NEW i, Continues(ss[k], p, env, i)
  PROVE  Continues(FlattenSeq(ss), p, env, i)
<1>1. PICK l \in DOMAIN ss[k] : Comes(ss[k][l], p, env, i) BY DEF Continues
<1>2. PICK j \in DOMAIN FlattenSeq(ss) : FlattenSeq(ss)[j] = ss[k][l] BY <1>1, FlattenHolds
<1> QED BY <1>1, <1>2 DEF Continues

(* Each path goes on in the branch that C takes. *)
LEMMA BranchTells ==
  ASSUME NEW exact \in BOOLEAN, NEW ps, SoundPaths(ps, exact),
         NEW e, IsExpr(e), IsTyped(e), e.kind # "and",
         NEW k \in DOMAIN ps, NEW i \in Input, Tells(ps[k], i), IsActive(ps[k])
  PROVE  LET c == CEval(StateOf(ps[k], i).env, e)
         IN  /\ c.val # 0 => Continues(Then(ps, e), ps[k], c.env, i)
             /\ c.val = 0 => Continues(Else(ps, e), ps[k], c.env, i)
<1> DEFINE c == CEval(StateOf(ps[k], i).env, e)
           rs(n) == Eval(ps[n], e)
           A(n) == [j \in DOMAIN rs(n) |-> Taken(rs(n)[j], Truth(rs(n)[j].val))]
           B(n) == [j \in DOMAIN rs(n) |-> Taken(rs(n)[j], Input \ Truth(rs(n)[j].val))]
           T == [n \in DOMAIN ps |-> FlattenSeq(A(n))]
           E == [n \in DOMAIN ps |-> FlattenSeq(B(n))]
<1>1. Then(ps, e) = FlattenSeq(T) /\ Else(ps, e) = FlattenSeq(E)
  BY DEF Then, Else, BranchPaths, Each, EvalThen
<1>2. ASSUME NEW n \in DOMAIN ps
      PROVE  /\ A(n) = [j \in DOMAIN rs(n) |-> A(n)[j]]
             /\ B(n) = [j \in DOMAIN rs(n) |-> B(n)[j]]
             /\ \A j \in DOMAIN rs(n) : /\ A(n)[j] = Taken(rs(n)[j], Truth(rs(n)[j].val))
                                        /\ B(n)[j] = Taken(rs(n)[j], Input \ Truth(rs(n)[j].val))
  OBVIOUS
<1>3. /\ T = [n \in DOMAIN ps |-> T[n]] /\ E = [n \in DOMAIN ps |-> E[n]]
      /\ \A n \in DOMAIN ps : T[n] = FlattenSeq(A(n)) /\ E[n] = FlattenSeq(B(n))
  OBVIOUS
<1> HIDE DEF T, E, A, B
<1>4. ASSUME NEW n \in DOMAIN ps
      PROVE  /\ IsSeq(A(n)) /\ DOMAIN A(n) = DOMAIN rs(n) /\ \A j \in DOMAIN A(n) : IsSeq(A(n)[j])
             /\ IsSeq(B(n)) /\ DOMAIN B(n) = DOMAIN rs(n) /\ \A j \in DOMAIN B(n) : IsSeq(B(n)[j])
  <2>1. SoundPath(ps[n], exact) BY DEF SoundPaths
  <2>2. IsSeq(rs(n)) /\ \A j \in DOMAIN rs(n) : SoundPath(rs(n)[j].path, exact) BY <2>1, EvalSame
  <2> HIDE DEF rs
  <2>3. /\ IsSeq(A(n)) /\ DOMAIN A(n) = DOMAIN rs(n)
        /\ IsSeq(B(n)) /\ DOMAIN B(n) = DOMAIN rs(n)
    BY <1>2, <2>2, FunctionIsSeq DEF IsSeq
  <2>4. ASSUME NEW j \in DOMAIN rs(n) PROVE IsSeq(A(n)[j]) /\ IsSeq(B(n)[j])
    <3> DEFINE r == rs(n)[j]
    <3>1. SoundPath(r.path, exact) /\ A(n)[j] = Taken(r, Truth(r.val)) /\ B(n)[j] = Taken(r, Input \ Truth(r.val))
      BY <1>2, <2>2
    <3> HIDE DEF r
    <3> QED BY <3>1, TakenMarks
  <2> QED BY <2>3, <2>4
<1>5. /\ IsSeq(T) /\ DOMAIN T = DOMAIN ps /\ IsSeq(E) /\ DOMAIN E = DOMAIN ps
      /\ \A n \in DOMAIN ps : IsSeq(T[n]) /\ IsSeq(E[n])
  <2>1. IsSeq(ps) BY DEF SoundPaths
  <2>2. \A n \in DOMAIN ps : IsSeq(T[n]) /\ IsSeq(E[n]) BY <1>3, <1>4, FlattenMembers
  <2> QED BY <1>3, <2>1, <2>2, FunctionIsSeq DEF IsSeq
<1>6. PICK j \in DOMAIN rs(k) :
        /\ SoundPath(rs(k)[j].path, exact) /\ SoundValue(rs(k)[j].val, exact)
        /\ Comes(rs(k)[j].path, ps[k], c.env, i)
        /\ rs(k)[j].val.val[i] = c.val
  <2>1. SoundPath(ps[k], exact) BY DEF SoundPaths
  <2> QED BY <2>1, EvalTells
<1>7. c.env \in Env BY TellsIs, CEvalTyped
<1> DEFINE r == rs(k)[j]
<1>8. /\ SoundPath(r.path, exact) /\ Comes(r.path, ps[k], c.env, i) /\ r.val.val[i] = c.val
      /\ A(k)[j] = Taken(r, Truth(r.val)) /\ B(k)[j] = Taken(r, Input \ Truth(r.val))
  BY <1>2, <1>6
<1>9. j \in DOMAIN A(k) /\ j \in DOMAIN B(k) BY <1>4, <1>6
<1> HIDE DEF rs, c, r
<1>10. i \in Truth(r.val) <=> c.val # 0 BY <1>8 DEF Truth
<1>11. CASE c.val # 0
  <2>1. Continues(A(k)[j], ps[k], c.env, i) BY <1>7, <1>8, <1>10, <1>11, TakenComes
  <2>2. Continues(T[k], ps[k], c.env, i) BY <1>3, <1>4, <1>9, <2>1, FlattenContinues
  <2>3. Continues(FlattenSeq(T), ps[k], c.env, i) BY <1>5, <2>2, FlattenContinues
  <2> QED BY <1>1, <1>11, <2>3 DEF c
<1>12. CASE c.val = 0
  <2>1. Continues(B(k)[j], ps[k], c.env, i) BY <1>7, <1>8, <1>10, <1>12, TakenComes
  <2>2. Continues(E[k], ps[k], c.env, i) BY <1>3, <1>4, <1>9, <2>1, FlattenContinues
  <2>3. Continues(FlattenSeq(E), ps[k], c.env, i) BY <1>5, <2>2, FlattenContinues
  <2> QED BY <1>1, <1>12, <2>3 DEF c
<1> QED BY <1>11, <1>12 DEF c

(* A path in a branch of the if statement s passes the branch t. *)
LEMMA BranchPasses ==
  ASSUME Sound, SteppedAsC(prog), NEW s \in Stmts(prog), s.kind = "if", NEW t, t = s.then \/ t = s.else,
         IsExpr(s.cond), IsTyped(s.cond), WrittenBy(s.cond) \subseteq Writes(s),
         NEW p, NEW i \in Input, Tells(p, i), IsActive(p), Avoids(Point(p, i), Declared(s)),
         NEW q, Comes(q, p, CEval(StateOf(p, i).env, s.cond).env, i),
         NEW x, NEW o,
         o = Stepped(Point(p, i), Run[t][Running(CEval(StateOf(p, i).env, s.cond).env)][i], ctx)
  PROVE  Tells(q, i) /\ Passes(StepFrame(t), x, Point(q, i), o, i)
<1> DEFINE env == CEval(StateOf(p, i).env, s.cond).env
           a == Point(q, i)
           R == Run[t][Running(env)][i]
<1>1. env \in Env /\ \A v \in DOMAIN env : v \in DOMAIN StateOf(p, i).env \/ v \in Writes(s)
  BY TellsIs, CEvalTyped
<1>2. prog \in Programs /\ t \in Children(s) BY DEF Sound, Children
<1>3. t \in Stmts(prog) /\ t \in Statements BY <1>2, ChildrenAre
<1>4. PICK loose : OwnBreaks(prog, loose) BY DEF SteppedAsC
<1> HIDE DEF env
<1>5. Tells(q, i) /\ a = Marked(Running(env), ctx)
  <2>1. Comes(q, p, env, i) BY DEF env
  <2> QED BY <1>1, <2>1, ComesTells
<1>6. Running(env) \in CState /\ Running(env).env = env /\ Running(env).mode = "run"
  BY <1>1, RunningTyped
<1>7. IsPoint(a) /\ a.st = Running(env) BY <1>5, <1>6, MarkedIs
<1>8. R.mode # "break"
  <2>1. t \notin loose BY <1>4 DEF OwnBreaks
  <2> QED BY <1>2, <1>3, <1>4, <1>6, <2>1, NotLoose
<1>9. Point(p, i).st = StateOf(p, i) /\ StateOf(p, i).mode = "run" /\ IsPoint(Point(p, i))
  BY PointIs DEF IsActive
<1>10. o = Marked(R, ctx) BY <1>9, SteppedIs DEF env
<1>11. Avoids(a, Declared(t))
  <2>1. \A v \in DOMAIN a.st.env : v \in DOMAIN Point(p, i).st.env \/ v \in Writes(s)
    BY <1>1, <1>6, <1>7, <1>9
  <2> HIDE DEF a
  <2> QED BY <1>2, <2>1, AvoidsInside
<1>12. o = Stepped(a, Run[t][a.st][i], x)
  <2>1. Stepped(a, R, x) = Marked(R, x) BY <1>6, <1>7, SteppedIs
  <2>2. Marked(R, x) = Marked(R, ctx) BY <1>8 DEF Marked
  <2> QED BY <1>7, <1>10, <2>1, <2>2
<1> QED BY <1>5, <1>11, <1>12, StepPasses

LEMMA IfTold == Sound /\ SteppedAsC(prog) /\ StepIf => Retold
<1> SUFFICES ASSUME Sound, SteppedAsC(prog), StepIf PROVE Retold OBVIOUS
<1> DEFINE s == Stmt
           e == s.cond
           active == Those(paths, IsActive)
           inactive == Those(paths, LAMBDA p : ~IsActive(p))
           f == StepFrame(s.then)
           g == [op |-> "else", s |-> s, prev |-> ctx, active |-> active, inactive |-> inactive]
           T == Then(active, e)
           E == Else(active, e)
<1>1. AtStmt("if") /\ At("step") /\ Continue(<<f, g>>) /\ paths' = T /\ ctx' = 0
  BY DEF StepIf, AtStmt
<1>2. /\ SoundPaths(paths, Exact) /\ IsSeq(paths) /\ Exact \in BOOLEAN
      /\ s \in Stmts(prog) /\ s.kind = "if" /\ e \in ExprsOf(s) /\ ~Restores(Head(stack))
  BY <1>1, StmtOnTop DEF AtStmt, At, Restores, ExprsOf
<1>3. IsExpr(e) /\ IsTyped(e) /\ e.kind # "and" /\ WrittenBy(e) \subseteq Writes(s)
  BY <1>2, PlainExpr
<1>4. Parted(active, inactive, paths, Exact) BY <1>2, ActiveInactive
<1>5. SoundPaths(active, Exact) BY <1>4 DEF Parted
<1>6. /\ g.op = "else" /\ g.s = s /\ g.active = active /\ g.inactive = inactive /\ g.prev = ctx
      /\ Restores(g) /\ ~Restores(f)
  BY DEF Restores, StepFrame
<1>7. \A k \in DOMAIN paths :
        /\ IsActive(paths[k]) => \E l \in DOMAIN active : active[l] = paths[k]
        /\ ~IsActive(paths[k]) => \E l \in DOMAIN inactive : inactive[l] = paths[k]
  BY <1>2, ThoseHold
<1>8. \A st, i : st.mode = "run" =>
        Execute(Run, s, st, i) =
          Run[IF CEval(st.env, e).val # 0 THEN s.then ELSE s.else][Running(CEval(st.env, e).env)][i]
  BY <1>2 DEF Execute
<1> HIDE DEF active, inactive, g
<1>9. ASSUME NEW i \in Input, NEW o, ToldBy(ctx, paths, Head(stack), o, i)
      PROVE  Told(0, T, <<f, g>>, o, i)
  <2>1. PICK k \in DOMAIN paths :
          /\ Tells(paths[k], i)
          /\ Avoids(Point(paths[k], i), Declared(s))
          /\ o = Stepped(Point(paths[k], i), Execute(Run, s, StateOf(paths[k], i), i), ctx)
          /\ ~IsActive(paths[k]) => o = Point(paths[k], i)
    BY <1>1, <1>9, ToldByStep
  <2> HIDE DEF s, e, f, T, E
  <2>2. CASE ~IsActive(paths[k])
    <3>1. Waits(g, 0, paths[k], o, i)
      <4>1. \E l \in DOMAIN g.inactive : paths[k] = g.inactive[l] BY <1>6, <1>7, <2>2
      <4> QED BY <1>6, <2>1, <2>2, <4>1 DEF Waits
    <3> QED BY <1>6, <2>1, <3>1, ToldTwo
  <2>3. CASE IsActive(paths[k])
    <3>1. PICK n \in DOMAIN active : active[n] = paths[k] BY <1>7, <2>3
    <3> DEFINE p == active[n]
               c == CEval(StateOf(p, i).env, e)
               t == IF c.val # 0 THEN s.then ELSE s.else
    <3>2. Tells(p, i) /\ IsActive(p) /\ Avoids(Point(p, i), Declared(s)) /\ StateOf(p, i).mode = "run"
      BY <2>1, <2>3, <3>1, PointIs DEF IsActive
    <3>3. o = Stepped(Point(p, i), Run[t][Running(c.env)][i], ctx) BY <1>8, <2>1, <3>1, <3>2
    <3>4. /\ c.val # 0 => Continues(T, p, c.env, i)
          /\ c.val = 0 => Continues(E, p, c.env, i)
      BY <1>2, <1>3, <1>5, <3>2, BranchTells DEF T, E
    <3>5. ASSUME NEW q, Comes(q, p, c.env, i)
          PROVE  Tells(q, i) /\ \A x : Passes(StepFrame(t), x, Point(q, i), o, i)
      <4>1. t = s.then \/ t = s.else OBVIOUS
      <4> HIDE DEF t, p
      <4> QED BY <1>2, <1>3, <3>2, <3>3, <3>5, <4>1, BranchPasses DEF e
    <3>6. CASE c.val # 0
      <4>1. PICK l \in DOMAIN T : Comes(T[l], p, c.env, i) BY <3>4, <3>6 DEF Continues
      <4>2. t = s.then BY <3>6
      <4> HIDE DEF c, t, p
      <4>3. Tells(T[l], i) /\ Passes(f, 0, Point(T[l], i), o, i) BY <3>5, <4>1, <4>2 DEF f
      <4>4. ToldBy(0, T, f, o, i) BY <4>3 DEF ToldBy
      <4>5. Passes(g, 0, o, o, i) BY <1>6 DEF Passes
      <4> QED BY <1>6, <4>4, <4>5, ToldTwo
    <3>7. CASE c.val = 0
      <4>1. PICK l \in DOMAIN E : Comes(E[l], p, c.env, i) BY <3>4, <3>7 DEF Continues
      <4>2. t = s.else BY <3>7
      <4> HIDE DEF c, t, p
      <4>3. Tells(E[l], i) /\ Passes(StepFrame(s.else), 0, Point(E[l], i), o, i) BY <3>5, <4>1, <4>2
      <4>4. E = Else(g.active, g.s.cond) /\ g.s.else = s.else BY <1>6 DEF E, e
      <4>5. Waits(g, 0, E[l], o, i) BY <1>6, <4>3, <4>4 DEF Waits
      <4> QED BY <1>6, <4>3, <4>5, ToldTwo
    <3> QED BY <3>6, <3>7
  <2> QED BY <2>2, <2>3
<1> HIDE DEF f, T
<1>10. Replacing(<<f, g>>) BY <1>1, <1>9 DEF Replacing
<1> QED BY <1>1, <1>2, <1>6, <1>10, EnterRetold

LEMMA ElseTold == Sound /\ StepElse => Retold
<1> SUFFICES ASSUME Sound, StepElse PROVE Retold OBVIOUS
<1> DEFINE h == Head(stack)
           E == Else(h.active, h.s.cond)
           f == StepFrame(h.s.else)
           g == [op |-> "join", prev |-> h.prev, then |-> paths, inactive |-> h.inactive]
<1>1. At("else") /\ Continue(<<f, g>>) /\ paths' = E /\ ctx' = ctx BY DEF StepElse
<1>2. h.op = "else" /\ Restores(h) BY <1>1, OnTop DEF Restores
<1>3. /\ g.op = "join" /\ g.prev = h.prev /\ g.then = paths /\ g.inactive = h.inactive
      /\ Restores(g) /\ ~Restores(f)
  BY DEF Restores, StepFrame
<1> HIDE DEF g, h
<1>4. ASSUME NEW i \in Input, NEW o, ToldBy(ctx, paths, h, o, i)
      PROVE  Told(ctx, E, <<f, g>>, o, i)
  <2>1. Passes(g, ctx, o, o, i) BY <1>3 DEF Passes
  <2>2. CASE \E k \in DOMAIN paths : Tells(paths[k], i) /\ Passes(h, ctx, Point(paths[k], i), o, i)
    <3>1. PICK k \in DOMAIN paths : Tells(paths[k], i) /\ Passes(h, ctx, Point(paths[k], i), o, i)
      BY <2>2
    <3>2. o = Point(paths[k], i) BY <1>2, <3>1 DEF Passes
    <3>3. Waits(g, ctx, paths[k], o, i) BY <1>3, <3>2 DEF Waits
    <3> HIDE DEF f, E
    <3> QED BY <1>3, <3>1, <3>3, ToldTwo
  <2>3. CASE \E p : Tells(p, i) /\ Waits(h, ctx, p, o, i)
    <3>1. PICK p : Tells(p, i) /\ Waits(h, ctx, p, o, i) BY <2>3
    <3>2. \/ /\ \E k \in DOMAIN E : p = E[k]
             /\ Passes(f, ctx, Point(p, i), o, i)
          \/ (\E k \in DOMAIN h.inactive : p = h.inactive[k]) /\ o = Point(p, i)
      BY <1>2, <3>1 DEF Waits
    <3> HIDE DEF f, E
    <3>3. CASE (\E k \in DOMAIN E : p = E[k]) /\ Passes(f, ctx, Point(p, i), o, i)
      <4>1. ToldBy(ctx, E, f, o, i) BY <3>1, <3>3 DEF ToldBy
      <4> QED BY <1>3, <2>1, <4>1, ToldTwo
    <3>4. CASE (\E k \in DOMAIN h.inactive : p = h.inactive[k]) /\ o = Point(p, i)
      <4>1. Waits(g, ctx, p, o, i) BY <1>3, <3>4 DEF Waits
      <4> QED BY <1>3, <3>1, <4>1, ToldTwo
    <3> QED BY <3>2, <3>3, <3>4
  <2> QED BY <1>4, <2>2, <2>3 DEF ToldBy
<1> HIDE DEF f, E
<1>5. Replacing(<<f, g>>) BY <1>1, <1>4 DEF Replacing, h
<1>6. IF Restores(Head(stack)) THEN h.prev = Head(stack).prev ELSE h.prev = ctx BY <1>2 DEF h
<1> QED BY <1>1, <1>3, <1>5, <1>6, EnterRetold

LEMMA JoinTold == Sound /\ StepJoin => Retold
<1> SUFFICES ASSUME Sound, StepJoin PROVE Retold OBVIOUS
<1> DEFINE h == Head(stack)
           T == h.then
           I == h.inactive
<1>1. At("join") /\ Continue(<<>>) /\ paths' = T \o paths \o I /\ ctx' = h.prev BY DEF StepJoin
<1>2. h.op = "join" /\ IsSeq(paths) /\ IsSeq(T) /\ IsSeq(I)
  BY <1>1, OnTop DEF SoundFrame, SoundPaths
<1>3. /\ \A k \in DOMAIN T : \E l \in DOMAIN paths' : paths'[l] = T[k]
      /\ \A k \in DOMAIN paths : \E l \in DOMAIN paths' : paths'[l] = paths[k]
      /\ \A k \in DOMAIN I : \E l \in DOMAIN paths' : paths'[l] = I[k]
  <2> HIDE DEF T, I
  <2> DEFINE u == T \o paths
             w == u \o I
  <2>1. /\ IsSeq(u)
        /\ \A k \in DOMAIN T : \E l \in DOMAIN u : u[l] = T[k]
        /\ \A k \in DOMAIN paths : \E l \in DOMAIN u : u[l] = paths[k]
    <3>1. IsSeq(u) /\ Joined(u, T, paths) BY <1>2, Concatenation, ConcatenationJoins
    <3> HIDE DEF u
    <3> QED BY <3>1 DEF Joined
  <2> HIDE DEF u
  <2>2. /\ \A k \in DOMAIN u : \E l \in DOMAIN w : w[l] = u[k]
        /\ \A k \in DOMAIN I : \E l \in DOMAIN w : w[l] = I[k]
    <3>1. Joined(w, u, I) BY <1>2, <2>1, ConcatenationJoins
    <3> HIDE DEF w
    <3> QED BY <3>1 DEF Joined
  <2>3. paths' = w BY <1>1 DEF u
  <2> HIDE DEF w
  <2> QED BY <2>1, <2>2, <2>3
<1> HIDE DEF h, T, I
<1>4. ASSUME NEW i \in Input, NEW o, ToldBy(ctx, paths, h, o, i)
      PROVE  \E k \in DOMAIN paths' : Tells(paths'[k], i) /\ o = Point(paths'[k], i)
  <2>1. CASE \E k \in DOMAIN paths : Tells(paths[k], i) /\ Passes(h, ctx, Point(paths[k], i), o, i)
    <3>1. PICK k \in DOMAIN paths : Tells(paths[k], i) /\ Passes(h, ctx, Point(paths[k], i), o, i)
      BY <2>1
    <3>2. o = Point(paths[k], i) BY <1>2, <3>1 DEF Passes
    <3> QED BY <1>3, <3>1, <3>2
  <2>2. CASE \E p : Tells(p, i) /\ Waits(h, ctx, p, o, i)
    <3>1. PICK p : Tells(p, i) /\ Waits(h, ctx, p, o, i) BY <2>2
    <3>2. ((\E k \in DOMAIN T : p = T[k]) \/ (\E k \in DOMAIN I : p = I[k])) /\ o = Point(p, i)
      BY <1>2, <3>1 DEF Waits, T, I
    <3> QED BY <1>3, <3>1, <3>2
  <2> QED BY <1>4, <2>1, <2>2 DEF ToldBy
<1> QED BY <1>1, <1>4, LeafExit DEF h

-----------------------------------------------------------------------------
(* Statements that a break leaves. *)

LEMMA CtxTells ==
  ASSUME NEW exact, NEW p, SoundPath(p, exact), NEW i, Tells(p, i), NEW c,
         NEW q, q = IF IsActive(p) THEN [p EXCEPT !.ctx = c] ELSE p
  PROVE  Tells(q, i) /\ Point(q, i) = Point(p, i) /\ (IsActive(q) <=> IsActive(p))
<1>1. CASE ~IsActive(p) BY <1>1
<1>2. CASE IsActive(p)
  <2>1. /\ q.state = "Step" /\ p.state = "Step" /\ q.conds = p.conds /\ q.env = p.env /\ q.ret = p.ret
    BY <1>2 DEF IsActive, SoundPath
  <2>2. StateOf(q, i) = StateOf(p, i) /\ StateOf(p, i).mode = "run" BY <2>1 DEF StateOf
  <2>3. Point(q, i) = Point(p, i) BY <2>2 DEF Point, Marked
  <2> QED BY <2>1, <2>2, <2>3 DEF Tells, Holds, IsActive
<1> QED BY <1>1, <1>2

(* The same for all the paths of the state. *)
LEMMA SetCtxTells ==
  ASSUME NEW exact, NEW ps, SoundPaths(ps, exact), NEW c, NEW k \in DOMAIN ps, NEW i, Tells(ps[k], i)
  PROVE  /\ k \in DOMAIN SetStmtCtx(ps, c) /\ Tells(SetStmtCtx(ps, c)[k], i)
         /\ Point(SetStmtCtx(ps, c)[k], i) = Point(ps[k], i)
         /\ IsActive(SetStmtCtx(ps, c)[k]) <=> IsActive(ps[k])
<1> DEFINE qs == [j \in DOMAIN ps |-> IF IsActive(ps[j]) THEN [ps[j] EXCEPT !.ctx = c] ELSE ps[j]]
           p == ps[k]
           q == qs[k]
<1>1. SetStmtCtx(ps, c) = qs BY DEF SetStmtCtx, Each
<1>2. k \in DOMAIN qs /\ q = IF IsActive(p) THEN [p EXCEPT !.ctx = c] ELSE p OBVIOUS
<1>3. SoundPath(p, exact) /\ Tells(p, i) BY DEF SoundPaths
<1> HIDE DEF qs
<1>4. Tells(q, i) /\ Point(q, i) = Point(p, i) /\ (IsActive(q) <=> IsActive(p))
  <2> HIDE DEF p, q
  <2> QED BY <1>2, <1>3, CtxTells
<1> QED BY <1>1, <1>2, <1>4

(* No path waits for the end of the statement that is about to be stepped. *)
LEMMA MarkedElsewhere ==
  ASSUME Sound, BreaksInv, Inside(ctx, stack, prog), NEW kind, AtStmt(kind), Breakable(Stmt),
         NEW k \in DOMAIN paths, NEW i, Tells(paths[k], i), ~IsActive(paths[k])
  PROVE  Point(paths[k], i).mark # Stmt.id
<1>1. /\ Stmt \in Stmts(prog) /\ prog \in Programs /\ IsSeq(stack) /\ stack # <<>>
      /\ Head(stack).op = "step"
  BY StmtOnTop DEF AtStmt, At, Sound, SoundState, SoundStack
<1> DEFINE s == Stmt
           p == paths[k]
<1>2. s.id \in Nat \ {0} /\ \A t \in Stmts(prog) : Breakable(t) /\ t.id = s.id => t = s
  BY <1>1, IdAssumption
<1>3. CASE p.state = "Return" BY <1>2, <1>3, PointIs
<1>4. CASE p.state = "Break"
  <2> DEFINE x == p.ctx
  <2>1. Point(p, i).mark = x BY <1>4, PointIs
  <2> SUFFICES ASSUME x # 0 PROVE x # s.id BY <1>2, <2>1
  <2>2. x \in Marks(paths) BY <1>4, MarksAre
  <2>3. Caught(ctx, stack, 1, x) BY <1>1, <2>2, CaughtBelow DEF BreaksInv
  <2>4. PICK m \in DOMAIN stack : 1 < m /\ stack[m].op = "leave" /\ CtxBelow(ctx, stack, m - 1, x)
    BY <2>3 DEF Caught
  <2>5. 1 \in DOMAIN stack /\ Head(stack) = stack[1] /\ m \in Nat BY <1>1, HeadAndTail DEF IsSeq
  <2>6. PICK t \in Stmts(prog) : /\ Breakable(t) /\ CtxBelow(ctx, stack, m - 1, t.id)
                                 /\ \A r \in Pending(stack[1]) : Depth(r) < Depth(t)
    BY <2>4, <2>5 DEF Inside
  <2>7. x = t.id
    <3>1. m - 1 \in Nat BY <2>4, <2>5
    <3> QED BY <2>4, <2>6, <3>1, CtxUnique
  <2>8. Pending(stack[1]) = {s} BY <1>1, <2>5 DEF Pending, Stmt
  <2> HIDE DEF s, p, x
  <2>9. Depth(s) < Depth(t) /\ Depth(s) \in Nat BY <1>1, <2>6, <2>8, DepthAssumption DEF s
  <2>10. s # t BY <2>9
  <2> QED BY <1>2, <2>6, <2>7, <2>10
<1>5. p.state \in {"Break", "Return"} BY DEF Tells, IsActive
<1> QED BY <1>3, <1>4, <1>5

(* The end of the statement with the id x takes off the mark of a break    *)
(* that has left it.                                                       *)
LEMMA LeavePasses ==
  ASSUME NEW g, g.op = "leave", NEW x \in Nat \ {0}, NEW st \in CState, NEW c, NEW i
  PROVE  Passes(g, x, Marked(st, x), Marked(Resume(st), c), i)
<1> DEFINE q == Marked(st, x)
           r == Marked(Resume(st), c)
<1>1. q.st = st /\ q.mark = (IF st.mode = "break" THEN x ELSE 0) /\ x # 0 BY MarkedIs
<1>2. Resume(st).mode # "break" /\ \A y : Marked(Resume(st), y) = r BY ResumeTyped DEF Marked
<1>3. r = IF q.mark = x THEN Marked(Resume(q.st), 0) ELSE q
  <2>1. CASE st.mode = "break" BY <1>1, <1>2, <2>1
  <2>2. CASE st.mode # "break"
    <3>1. Resume(st) = st /\ q.mark # x BY <1>1, <2>2 DEF Resume
    <3> HIDE DEF r, q
    <3> QED BY <1>2, <3>1 DEF q
  <2> QED BY <2>1, <2>2
<1> HIDE DEF q, r
<1>4. Passes(g, x, q, r, i) BY <1>3 DEF Passes
<1> QED BY <1>4 DEF q, r

LEMMA DoTold == Sound /\ BreaksInv /\ Inside(ctx, stack, prog) /\ StepDo => Retold
<1> SUFFICES ASSUME Sound, BreaksInv, Inside(ctx, stack, prog), StepDo PROVE Retold OBVIOUS
<1> DEFINE s == Stmt
           x == s.id
           f == StepFrame(s.body)
           g == [op |-> "leave", prev |-> ctx]
           qs == SetStmtCtx(paths, x)
<1>1. AtStmt("do") /\ At("step") /\ Continue(<<f, g>>) /\ paths' = qs /\ ctx' = x
  BY DEF StepDo, AtStmt
<1>2. /\ SoundPaths(paths, Exact) /\ s \in Stmts(prog) /\ s.kind = "do" /\ ~Restores(Head(stack))
      /\ prog \in Programs
  BY <1>1, StmtOnTop DEF AtStmt, At, Restores, Sound
<1>3. g.op = "leave" /\ g.prev = ctx /\ Restores(g) /\ ~Restores(f) BY DEF Restores, StepFrame
<1>4. Breakable(s) /\ s.body \in Children(s) BY <1>2 DEF Breakable, Children
<1>5. x \in Nat \ {0} BY <1>2, <1>4, IdAssumption
<1>6. s.body \in Statements /\ Good(s.body) BY <1>2, <1>4, ChildrenAre, Executes
<1>7. \A st, i : st.mode = "run" => Execute(Run, s, st, i) = Resume(Run[s.body][st][i])
  BY <1>2 DEF Execute
<1> HIDE DEF g
<1>8. ASSUME NEW i \in Input, NEW o, ToldBy(ctx, paths, Head(stack), o, i)
      PROVE  Told(x, qs, <<f, g>>, o, i)
  <2>1. PICK k \in DOMAIN paths :
          /\ Tells(paths[k], i)
          /\ Avoids(Point(paths[k], i), Declared(s))
          /\ o = Stepped(Point(paths[k], i), Execute(Run, s, StateOf(paths[k], i), i), ctx)
          /\ ~IsActive(paths[k]) => o = Point(paths[k], i)
    BY <1>1, <1>8, ToldByStep
  <2> DEFINE q == Point(paths[k], i)
             R == Run[s.body][q.st][i]
             m == Stepped(q, R, x)
  <2>2. k \in DOMAIN qs /\ Tells(qs[k], i) /\ Point(qs[k], i) = q BY <1>2, <2>1, SetCtxTells
  <2>3. IsPoint(q) /\ q.st = StateOf(paths[k], i) /\ q.st \in CState /\ (q.st.mode = "run" <=> IsActive(paths[k]))
    BY <2>1, PointIs DEF IsPoint, IsActive
  <2>4. Avoids(q, Declared(s.body)) BY <1>2, <1>4, <2>1, AvoidsInside
  <2>5. ~IsActive(paths[k]) => q.mark # x BY <1>1, <1>4, <2>1, MarkedElsewhere
  <2> HIDE DEF q
  <2>6. Passes(f, x, q, m, i) BY <2>4, StepPasses
  <2>7. Passes(g, x, m, o, i)
    <3>1. CASE IsActive(paths[k])
      <4>1. R \in CState BY <1>6, <2>3 DEF Good
      <4>2. m = Marked(R, x) /\ o = Marked(Resume(R), ctx)
        BY <1>7, <2>1, <2>3, <3>1, SteppedIs DEF q
      <4> HIDE DEF m, R, x
      <4> QED BY <1>3, <1>5, <4>1, <4>2, LeavePasses
    <3>2. CASE ~IsActive(paths[k])
      <4>1. m = q /\ o = q BY <2>1, <2>3, <3>2, SteppedIs DEF q
      <4> HIDE DEF m, x
      <4> QED BY <1>3, <2>5, <3>2, <4>1 DEF Passes
    <3> QED BY <3>1, <3>2
  <2> HIDE DEF m, x, f, qs
  <2>8. ToldBy(x, qs, f, m, i) BY <2>2, <2>6 DEF ToldBy
  <2> QED BY <1>3, <2>7, <2>8, ToldTwo
<1> HIDE DEF f, qs, x
<1>9. Replacing(<<f, g>>) BY <1>1, <1>8 DEF Replacing
<1> QED BY <1>1, <1>2, <1>3, <1>9, EnterRetold

LEMMA LeaveTold == Sound /\ StepLeave => Retold
<1> SUFFICES ASSUME Sound, StepLeave PROVE Retold OBVIOUS
<1> DEFINE prev == Head(stack).prev
           ps == [k \in DOMAIN paths |-> IF paths[k].state = "Break" /\ paths[k].ctx = ctx
                                         THEN [paths[k] EXCEPT !.state = "Step"] ELSE paths[k]]
<1>1. At("leave") /\ Continue(<<>>) /\ ctx' = prev /\ paths' = SetStmtCtx(ps, prev)
  BY DEF StepLeave, ResetBreakState, Each
<1>2. /\ SoundPaths(paths, Exact) /\ IsSeq(paths) /\ Exact \in BOOLEAN /\ Head(stack).op = "leave"
  BY <1>1, OnTop
<1>3. /\ DOMAIN ps = DOMAIN paths /\ ps = [k \in DOMAIN paths |-> ps[k]]
      /\ \A k \in DOMAIN paths : SoundPath(paths[k], Exact) => SoundPath(ps[k], Exact)
  BY <1>2, SoundSetStep
<1>4. ASSUME NEW k \in DOMAIN paths
      PROVE  ps[k] = IF paths[k].state = "Break" /\ paths[k].ctx = ctx
                     THEN [paths[k] EXCEPT !.state = "Step"] ELSE paths[k]
  OBVIOUS
<1> HIDE DEF ps
<1>5. SoundPaths(ps, Exact)
  <2>1. IsSeq(ps) BY <1>2, <1>3, FunctionIsSeq DEF IsSeq
  <2> QED BY <1>2, <1>3, <2>1 DEF SoundPaths
<1>6. ASSUME NEW i \in Input, NEW o, ToldBy(ctx, paths, Head(stack), o, i)
      PROVE  \E k \in DOMAIN paths' : Tells(paths'[k], i) /\ o = Point(paths'[k], i)
  <2>1. ~\E p : Waits(Head(stack), ctx, p, o, i) BY <1>2 DEF Waits
  <2>2. PICK k \in DOMAIN paths : Tells(paths[k], i) /\ Passes(Head(stack), ctx, Point(paths[k], i), o, i)
    BY <1>6, <2>1 DEF ToldBy
  <2> DEFINE p == paths[k]
             q == ps[k]
             z == Point(p, i)
  <2>3. o = IF z.mark = ctx THEN Marked(Resume(z.st), 0) ELSE z BY <1>2, <2>2 DEF Passes
  <2>4. /\ SoundPath(p, Exact) /\ Tells(p, i) /\ z.st = StateOf(p, i) /\ IsPoint(z)
        /\ z.mark = (IF p.state = "Break" THEN p.ctx ELSE 0)
        /\ z.st.mode = "break" <=> p.state = "Break"
    BY <1>2, <2>2, PointIs DEF SoundPaths
  <2>5. q = IF p.state = "Break" /\ p.ctx = ctx THEN [p EXCEPT !.state = "Step"] ELSE p BY <1>4
  <2> HIDE DEF p, q
  <2>6. Tells(q, i) /\ o = Point(q, i)
    <3>1. CASE p.state = "Break" /\ p.ctx = ctx
      <4>1. /\ q.state = "Step" /\ q.conds = p.conds /\ q.env = p.env /\ q.ret = p.ret
        BY <2>4, <2>5, <3>1 DEF SoundPath
      <4>2. StateOf(p, i) \in CState /\ StateOf(p, i).mode = "break" BY <2>4, <3>1 DEF Tells
      <4>3. StateOf(p, i).ret = {} /\ StateOf(p, i).env \in Env BY <4>2, CStateIs
      <4>4. StateOf(q, i) = Running(StateOf(p, i).env) BY <4>1, <4>3 DEF StateOf, Running
      <4>5. Resume(z.st) = Running(StateOf(p, i).env) BY <2>4, <4>2 DEF Resume
      <4>6. StateOf(q, i) \in CState /\ StateOf(q, i).mode = "run" BY <4>3, <4>4, RunningTyped
      <4>7. Tells(q, i) BY <2>4, <4>1, <4>6 DEF Tells, Holds
      <4>8. o = Marked(StateOf(q, i), 0) BY <2>3, <2>4, <3>1, <4>4, <4>5
      <4>9. o = Point(q, i) BY <4>6, <4>8 DEF Point, Marked
      <4> QED BY <4>7, <4>9
    <3>2. CASE ~(p.state = "Break" /\ p.ctx = ctx)
      <4>1. q = p BY <2>5, <3>2
      <4>2. CASE z.mark # ctx BY <2>3, <2>4, <4>1, <4>2
      <4>3. CASE z.mark = ctx
        <5>1. z.st.mode # "break" /\ z.mark = 0 BY <2>4, <3>2, <4>3
        <5>2. Resume(z.st) = z.st BY <5>1 DEF Resume
        <5>3. Marked(z.st, 0) = z BY <2>4, <5>1 DEF Marked, IsPoint
        <5> HIDE DEF z
        <5> QED BY <2>3, <2>4, <4>1, <4>3, <5>2, <5>3 DEF z
      <4> QED BY <4>2, <4>3
    <3> QED BY <3>1, <3>2
  <2>7. k \in DOMAIN ps BY <1>3
  <2>8. k \in DOMAIN paths' /\ Tells(paths'[k], i) /\ Point(paths'[k], i) = Point(q, i)
    BY <1>1, <1>5, <2>6, <2>7, SetCtxTells DEF q
  <2> QED BY <2>6, <2>8
<1> QED BY <1>1, <1>6, LeafExit

-----------------------------------------------------------------------------
(* The blocks of a switch statement. *)

LEMMA PlainBlockLabels ==
  ASSUME NEW item, NEW S, item.labels \in Seq(S), {} \in ToSet(item.labels) => item.labels = <<{}>>
  PROVE  BlockLabels(item) = item.labels
<1> DEFINE ls == item.labels
           cases == {k \in DOMAIN ls : \A j \in 1 .. k : ls[j] # {}}
           n == Len(ls)
<1>1. n \in Nat /\ DOMAIN ls = 1 .. n /\ ls \in Seq(S) OBVIOUS
<1>2. BlockLabels(item) = IF ls # <<>> /\ ls[1] = {} THEN <<{}>> ELSE SubSeq(ls, 1, Cardinality(cases))
  BY DEF BlockLabels
<1> HIDE DEF ls
<1>3. CASE {} \in ToSet(ls)
  <2>1. ls = <<{}>> BY <1>3 DEF ls
  <2>2. ls # <<>> /\ ls[1] = {} BY <2>1
  <2> QED BY <1>2, <2>1, <2>2 DEF ls
<1>4. CASE {} \notin ToSet(ls)
  <2>1. \A j \in DOMAIN ls : ls[j] # {} BY <1>4 DEF ToSet
  <2>2. ~(ls # <<>> /\ ls[1] = {})
    <3>1. ls # <<>> => 1 \in DOMAIN ls BY <1>1
    <3> QED BY <2>1, <3>1
  <2>3. cases = 1 .. n BY <1>1, <2>1
  <2>4. Cardinality(1 .. n) = n
    <3> HIDE DEF n, cases
    <3> QED BY <1>1, FS_Interval
  <2>5. SubSeq(ls, 1, n) = ls BY <1>1
  <2> HIDE DEF cases, n
  <2> QED BY <1>2, <2>2, <2>3, <2>4, <2>5 DEF ls
<1> QED BY <1>3, <1>4

LEMMA LabelsAre ==
  ASSUME NEW p \in Programs, NEW sw \in Stmts(p), sw.kind = "switch", PlainLabels(sw)
  PROVE  /\ Len(sw.items) \in Nat /\ DOMAIN sw.items = 1 .. Len(sw.items)
         /\ \A j \in DOMAIN sw.items :
              /\ IsSeq(sw.items[j].labels) /\ BlockLabels(sw.items[j]) = sw.items[j].labels
              /\ \A l \in DOMAIN sw.items[j].labels :
                   sw.items[j].labels[l] = {} \/ \E n \in Val : sw.items[j].labels[l] = {n}
<1> DEFINE L == {{}} \cup {{n} : n \in Val}
           items == sw.items
<1>1. items \in Seq([labels : Seq(L), s : Stmts(p)]) BY ProgramsAssumption DEF IsStmt
<1> HIDE DEF L, items
<1>2. Len(items) \in Nat /\ DOMAIN items = 1 .. Len(items) BY <1>1
<1>3. ASSUME NEW j \in DOMAIN items
      PROVE  /\ IsSeq(items[j].labels) /\ BlockLabels(items[j]) = items[j].labels
             /\ \A l \in DOMAIN items[j].labels :
                  items[j].labels[l] = {} \/ \E n \in Val : items[j].labels[l] = {n}
  <2>1. items[j].labels \in Seq(L) BY <1>1, ItemOf
  <2>2. {} \in ToSet(items[j].labels) => items[j].labels = <<{}>> BY DEF PlainLabels, items
  <2>3. BlockLabels(items[j]) = items[j].labels BY <2>1, <2>2, PlainBlockLabels
  <2>4. \A l \in DOMAIN items[j].labels : items[j].labels[l] \in L
    <3> DEFINE ls == items[j].labels
    <3> HIDE DEF ls
    <3>1. ls \in Seq(L) BY <2>1 DEF ls
    <3> QED BY <3>1, MemberOf DEF ls
  <2> QED BY <2>1, <2>3, <2>4, SeqIs DEF L
<1> QED BY <1>2, <1>3 DEF items

LEMMA BlocksAre ==
  ASSUME NEW p \in Programs, NEW sw \in Stmts(p), sw.kind = "switch", PlainLabels(sw)
  PROVE  /\ IsSeq(CaseBlocks(sw))
         /\ \A b \in DOMAIN CaseBlocks(sw) : \E j, l : BlockAt(sw, b, j, l)
         /\ \A j \in DOMAIN sw.items : \A l \in DOMAIN sw.items[j].labels :
              \E b \in DOMAIN CaseBlocks(sw) : BlockAt(sw, b, j, l)
         /\ \A b, c \in DOMAIN CaseBlocks(sw) : b < c =>
              \E j, l, k, m : BlockAt(sw, b, j, l) /\ BlockAt(sw, c, k, m) /\ Earlier(j, l, k, m)
<1> DEFINE B == CaseBlocks(sw)
           ls(j) == BlockLabels(sw.items[j])
           bs(j) == [k \in DOMAIN ls(j) |-> [label |-> ls(j)[k], body |-> ItemsFrom(sw, j)]]
           F == [j \in DOMAIN sw.items |-> bs(j)]
<1>1. B = FlattenSeq(F) BY DEF CaseBlocks, ItemsFrom
<1>2. /\ Len(sw.items) \in Nat /\ DOMAIN sw.items = 1 .. Len(sw.items)
      /\ \A j \in DOMAIN sw.items : IsSeq(sw.items[j].labels) /\ ls(j) = sw.items[j].labels
  BY LabelsAre
<1>3. /\ F = [j \in DOMAIN sw.items |-> F[j]]
      /\ \A j \in DOMAIN sw.items : F[j] = bs(j)
      /\ \A j : /\ bs(j) = [k \in DOMAIN ls(j) |-> bs(j)[k]]
                /\ \A k \in DOMAIN ls(j) : bs(j)[k].label = ls(j)[k] /\ bs(j)[k].body = ItemsFrom(sw, j)
  OBVIOUS
<1> HIDE DEF F, bs, ls, B
<1>4. IsSeq(F) /\ DOMAIN F = DOMAIN sw.items BY <1>2, <1>3, FunctionIsSeq
<1>5. ASSUME NEW j \in DOMAIN F
      PROVE  /\ IsSeq(F[j]) /\ DOMAIN F[j] = DOMAIN sw.items[j].labels
             /\ \A k \in DOMAIN F[j] : /\ F[j][k].label = sw.items[j].labels[k]
                                       /\ F[j][k].body = ItemsFrom(sw, j)
  <2>1. IsSeq(ls(j)) /\ ls(j) = sw.items[j].labels BY <1>2, <1>4
  <2>2. IsSeq(bs(j)) /\ DOMAIN bs(j) = DOMAIN ls(j)
    <3>1. Len(ls(j)) \in Nat /\ DOMAIN ls(j) = 1 .. Len(ls(j)) BY <2>1 DEF IsSeq
    <3> QED BY <1>3, <3>1, FunctionIsSeq
  <2>3. F[j] = bs(j) /\ \A k \in DOMAIN ls(j) : bs(j)[k].label = ls(j)[k] /\ bs(j)[k].body = ItemsFrom(sw, j)
    BY <1>3, <1>4
  <2> QED BY <2>1, <2>2, <2>3
<1>6. IsSeq(B) /\ \A b \in DOMAIN B : \E j \in DOMAIN F : \E l \in DOMAIN F[j] : B[b] = F[j][l]
  BY <1>1, <1>4, <1>5, FlattenMembers
<1>7. \A b, j, l : j \in DOMAIN F /\ l \in DOMAIN F[j] /\ B[b] = F[j][l] => BlockAt(sw, b, j, l)
  BY <1>4, <1>5 DEF BlockAt, B
<1>8. \A b \in DOMAIN B : \E j, l : BlockAt(sw, b, j, l) BY <1>6, <1>7
<1>9. ASSUME NEW j \in DOMAIN sw.items, NEW l \in DOMAIN sw.items[j].labels
      PROVE  \E b \in DOMAIN B : BlockAt(sw, b, j, l)
  <2>1. j \in DOMAIN F /\ l \in DOMAIN F[j] BY <1>4, <1>5
  <2>2. \E b \in DOMAIN B : B[b] = F[j][l] BY <1>1, <1>4, <1>5, <2>1, FlattenHolds
  <2> QED BY <1>7, <2>1, <2>2
<1>10. ASSUME NEW b \in DOMAIN B, NEW c \in DOMAIN B, b < c
       PROVE  \E j, l, k, m : BlockAt(sw, b, j, l) /\ BlockAt(sw, c, k, m) /\ Earlier(j, l, k, m)
  <2>1. PICK j \in DOMAIN F, k \in DOMAIN F : \E l \in DOMAIN F[j], m \in DOMAIN F[k] :
          Earlier(j, l, k, m) /\ B[b] = F[j][l] /\ B[c] = F[k][m]
    BY <1>1, <1>4, <1>5, <1>10, FlattenApart
  <2> QED BY <1>7, <2>1
<1> QED BY <1>6, <1>8, <1>9, <1>10 DEF B

(* The statements of a switch body. *)
LEMMA BodiesAre ==
  ASSUME NEW p \in Programs, NEW sw \in Stmts(p), sw.kind = "switch", NEW j \in DOMAIN sw.items
  PROVE  /\ IsSeq(ItemsFrom(sw, j))
         /\ \A k \in DOMAIN ItemsFrom(sw, j) :
              /\ ItemsFrom(sw, j)[k] \in Children(sw) /\ Good(ItemsFrom(sw, j)[k])
              /\ Writes(ItemsFrom(sw, j)[k]) \subseteq Writes(sw)
              /\ Declared(ItemsFrom(sw, j)[k]) \subseteq Declared(sw)
         /\ Writes(sw) \cap Declared(sw) = {}
<1> DEFINE ss == ItemsFrom(sw, j)
<1>1. IsSeq(ss) /\ \A k \in DOMAIN ss : ss[k] \in Children(sw) BY ItemsFromIs
<1> HIDE DEF ss
<1>2. ASSUME NEW t \in Children(sw)
      PROVE  Good(t) /\ Writes(t) \subseteq Writes(sw) /\ Declared(t) \subseteq Declared(sw)
  <2>1. Good(t) BY ChildrenAre, Executes
  <2>2. OwnLocals(sw) = {} BY DEF OwnLocals
  <2> QED BY <2>1, <2>2, ScopeAssumption
<1>3. Writes(sw) \cap Declared(sw) = {} BY ScopeAssumption
<1> QED BY <1>1, <1>2, <1>3 DEF ss

(* No label has two blocks; the default block is the last one and control  *)
(* does not fall into it.                                                  *)
LEMMA BlocksOnce ==
  ASSUME NEW p \in Programs, NEW sw \in Stmts(p), sw.kind = "switch", PlainLabels(sw)
  PROVE  /\ \A b, c \in DOMAIN CaseBlocks(sw) :
              CaseBlocks(sw)[b].label = CaseBlocks(sw)[c].label => b = c
         /\ \A b \in DOMAIN CaseBlocks(sw) : CaseBlocks(sw)[b].label = {} => b = Len(CaseBlocks(sw))
         /\ \A b, c \in DOMAIN CaseBlocks(sw) : CaseBlocks(sw)[c].label = {} /\ b < c =>
              \E j \in DOMAIN sw.items :
                /\ CaseBlocks(sw)[b].body = ItemsFrom(sw, j)
                /\ j < Len(sw.items) /\ NeverEnds(sw.items[Len(sw.items) - 1].s)
<1> DEFINE B == CaseBlocks(sw)
           N == Len(sw.items)
<1>1. /\ N \in Nat /\ DOMAIN sw.items = 1 .. N
      /\ \A j \in DOMAIN sw.items : IsSeq(sw.items[j].labels)
  BY LabelsAre
<1>2. DOMAIN B = 1 .. Len(B) /\ Len(B) \in Nat BY BlocksAre DEF IsSeq
<1>3. ASSUME NEW j \in DOMAIN sw.items, NEW l \in DOMAIN sw.items[j].labels, sw.items[j].labels[l] = {}
      PROVE  /\ j = N /\ DOMAIN sw.items[j].labels = {1}
             /\ j > 1 => NeverEnds(sw.items[j - 1].s)
  <2>1. {} \in ToSet(sw.items[j].labels) BY <1>3 DEF ToSet
  <2>2. sw.items[j].labels = <<{}>> /\ j = N /\ (j > 1 => NeverEnds(sw.items[j - 1].s))
    BY <2>1 DEF PlainLabels
  <2>3. DOMAIN <<{}>> = {1} BY SingletonIsSeq
  <2> HIDE DEF N
  <2> QED BY <2>2, <2>3
<1>4. ASSUME NEW b \in DOMAIN B, NEW c \in DOMAIN B, b < c
      PROVE  /\ B[b].label # B[c].label /\ B[b].label # {}
             /\ B[c].label = {} => \E j \in DOMAIN sw.items :
                  B[b].body = ItemsFrom(sw, j) /\ j < N /\ NeverEnds(sw.items[N - 1].s)
  <2>1. PICK j, l, k, m : BlockAt(sw, b, j, l) /\ BlockAt(sw, c, k, m) /\ Earlier(j, l, k, m)
    BY <1>4, BlocksAre
  <2>2. /\ j \in DOMAIN sw.items /\ l \in DOMAIN sw.items[j].labels
        /\ B[b].label = sw.items[j].labels[l] /\ B[b].body = ItemsFrom(sw, j)
        /\ k \in DOMAIN sw.items /\ m \in DOMAIN sw.items[k].labels
        /\ B[c].label = sw.items[k].labels[m]
    BY <2>1 DEF BlockAt
  <2>3. j \in 1 .. N /\ k \in 1 .. N /\ l \in Nat /\ m \in Nat
    <3>1. DOMAIN sw.items[j].labels = 1 .. Len(sw.items[j].labels) BY <1>1, <2>2 DEF IsSeq
    <3>2. DOMAIN sw.items[k].labels = 1 .. Len(sw.items[k].labels) BY <1>1, <2>2 DEF IsSeq
    <3>3. l \in Nat BY <2>2, <3>1
    <3>4. m \in Nat BY <2>2, <3>2
    <3> QED BY <1>1, <2>2, <3>3, <3>4
  <2>4. j < k \/ (j = k /\ l < m) BY <2>1 DEF Earlier
  <2>5. B[b].label = B[c].label => j = k /\ l = m
    <3>1. \A x, y \in DOMAIN sw.items :
            \A u \in DOMAIN sw.items[x].labels, v \in DOMAIN sw.items[y].labels :
              sw.items[x].labels[u] = sw.items[y].labels[v] => x = y /\ u = v
      BY DEF PlainLabels
    <3> HIDE DEF B
    <3>2. sw.items[j].labels[l] = sw.items[k].labels[m] => j = k /\ l = m BY <2>2, <3>1
    <3> QED BY <2>2, <3>2
  <2> HIDE DEF B, N
  <2>6. B[b].label # B[c].label BY <2>3, <2>4, <2>5
  <2>7. B[b].label # {}
    <3>1. SUFFICES ASSUME B[b].label = {} PROVE FALSE OBVIOUS
    <3>2. j = N /\ DOMAIN sw.items[j].labels = {1} BY <1>3, <2>2, <3>1
    <3>3. j = k /\ l < m BY <2>3, <2>4, <3>2
    <3>4. l = 1 /\ m = 1 BY <2>2, <3>2, <3>3
    <3> QED BY <3>3, <3>4
  <2>8. ASSUME B[c].label = {} PROVE j < N /\ NeverEnds(sw.items[N - 1].s)
    <3>1. k = N /\ DOMAIN sw.items[k].labels = {1} /\ (k > 1 => NeverEnds(sw.items[k - 1].s))
      BY <1>3, <2>2, <2>8
    <3>2. j < k
      <4>1. m = 1 BY <2>2, <3>1
      <4>2. CASE j = k
        <5>1. l = 1 BY <2>2, <3>1, <4>2
        <5> QED BY <2>4, <4>1, <4>2, <5>1
      <4> QED BY <2>4, <4>2
    <3>3. k > 1 BY <2>3, <3>2
    <3> QED BY <3>1, <3>2, <3>3
  <2> QED BY <2>2, <2>6, <2>7, <2>8
<1> HIDE DEF B
<1>5. \A b, c \in DOMAIN B : B[b].label = B[c].label => b = c
  <2>1. \A b, c \in DOMAIN B : b < c \/ c < b \/ b = c BY <1>2
  <2> QED BY <1>4, <2>1
<1>6. \A b \in DOMAIN B : B[b].label = {} => b = Len(B)
  <2>1. \A b \in DOMAIN B : Len(B) \in DOMAIN B /\ (b < Len(B) \/ b = Len(B)) BY <1>2
  <2> QED BY <1>4, <2>1
<1> QED BY <1>4, <1>5, <1>6 DEF B

(* After a statement before the last one that control never leaves at its  *)
(* end, the rest is not run.                                               *)
LEMMA NotFallenInto ==
  ASSUME NEW p \in Programs, NEW sw \in Stmts(p), sw.kind = "switch", NEW j \in DOMAIN sw.items,
         j < Len(sw.items), NeverEnds(sw.items[Len(sw.items) - 1].s), NEW st \in CState, NEW i \in Input
  PROVE  RunAll(Run, ItemsFrom(sw, j), st, i).mode # "run"
<1> DEFINE ss == ItemsFrom(sw, j)
           n == Len(ss)
           N == Len(sw.items)
<1>1. /\ IsSeq(ss) /\ \A k \in DOMAIN ss : Good(ss[k]) /\ Writes(ss[k]) \subseteq Writes(sw)
  BY BodiesAre
<1>2. /\ N \in Nat /\ j \in Nat /\ n = N - j + 1
      /\ \A k \in DOMAIN ss : ss[k] = sw.items[j + k - 1].s
  BY ItemsFromIs
<1>3. DOMAIN ss = 1 .. n BY <1>1 DEF IsSeq
<1> HIDE DEF ss, n, N
<1>4. PICK a : RowOf(a, ss, st, i) /\ a[n] = RunAll(Run, ss, st, i) BY <1>1, RowTrace DEF n
<1>5. \A k \in 0 .. n : GoodPlace(a, k, st, Writes(sw)) BY <1>1, <1>4, GoodRow DEF n
<1> DEFINE m == n - 1
           l == m - 1
<1>6. /\ m \in DOMAIN ss /\ l \in 0 .. n /\ m \in 0 .. n /\ n \in 0 .. n
      /\ m # 0 /\ n # 0 /\ j + m - 1 = N - 1
  <2>1. j < N BY DEF N
  <2> QED BY <1>2, <1>3, <2>1
<1>7. ss[m] = sw.items[N - 1].s BY <1>2, <1>6
<1>8. a[m] = Run[ss[m]][a[l]][i] BY <1>4, <1>6 DEF RowOf
<1>9. a[l] \in CState BY <1>5, <1>6 DEF GoodPlace
<1>10. a[l].mode # "run" => a[m] = a[l] BY <1>5, <1>6 DEF GoodPlace
<1>11. a[m].mode # "run" => a[n] = a[m] BY <1>5, <1>6 DEF GoodPlace
<1>12. ASSUME a[l].mode = "run" PROVE a[m].mode # "run"
  <2> HIDE DEF l, m
  <2>1. a[l] = Running(a[l].env) /\ a[l].env \in Env BY <1>9, <1>12, IsRunning
  <2>2. Run[sw.items[N - 1].s][Running(a[l].env)][i].mode # "run" BY <2>1 DEF NeverEnds, N
  <2> QED BY <1>7, <1>8, <2>1, <2>2
<1> QED BY <1>4, <1>10, <1>11, <1>12 DEF ss

(* What is left of a switch statement at one of its blocks. *)
LEMMA JumpAt ==
  ASSUME NEW p \in Programs, NEW sw \in Stmts(p), sw.kind = "switch", PlainLabels(sw),
         NEW k, NEW n, NEW b \in DOMAIN CaseBlocks(sw), k <= b,
         \/ CaseBlocks(sw)[b].label = {n}
         \/ CaseBlocks(sw)[b].label = {} /\ Blocks(sw, k, {n}) = {},
         NEW st, NEW i
  PROVE  Jump(sw, k, n, st, i) = RunAll(Run, CaseBlocks(sw)[b].body, st, i)
<1> DEFINE t == IF Blocks(sw, k, {n}) # {} THEN Blocks(sw, k, {n}) ELSE Blocks(sw, k, {})
<1>1. b \in t /\ \A c \in t : c \in DOMAIN CaseBlocks(sw) /\ CaseBlocks(sw)[c].label = CaseBlocks(sw)[b].label
  <2>1. CASE CaseBlocks(sw)[b].label = {n}
    <3>1. b \in Blocks(sw, k, {n}) BY <2>1 DEF Blocks
    <3>2. t = Blocks(sw, k, {n}) BY <3>1
    <3> QED BY <2>1, <3>1, <3>2 DEF Blocks
  <2>2. CASE CaseBlocks(sw)[b].label = {} /\ Blocks(sw, k, {n}) = {}
    <3>1. t = Blocks(sw, k, {}) BY <2>2
    <3> QED BY <2>2, <3>1 DEF Blocks
  <2> QED BY <2>1, <2>2
<1>2. Jump(sw, k, n, st, i) =
        IF t = {} THEN st ELSE RunAll(Run, CaseBlocks(sw)[CHOOSE c \in t : TRUE].body, st, i)
  BY DEF Jump
<1> HIDE DEF t
<1>3. \A c \in t : c = b BY <1>1, BlocksOnce
<1>4. (CHOOSE c \in t : TRUE) = b /\ t # {} BY <1>1, <1>3
<1> QED BY <1>2, <1>4

LEMMA JumpNone ==
  ASSUME NEW sw, NEW k, NEW n,
         \A b \in DOMAIN CaseBlocks(sw) : k <= b =>
           CaseBlocks(sw)[b].label # {n} /\ CaseBlocks(sw)[b].label # {},
         NEW st, NEW i
  PROVE  Jump(sw, k, n, st, i) = st
<1>1. Blocks(sw, k, {n}) = {} /\ Blocks(sw, k, {}) = {} BY DEF Blocks
<1> QED BY <1>1 DEF Jump

(* Past the last block nothing is left. *)
LEMMA JumpPast ==
  ASSUME NEW sw, IsSeq(CaseBlocks(sw)), NEW k \in Nat, k > Len(CaseBlocks(sw)), NEW n, NEW st, NEW i
  PROVE  Jump(sw, k, n, st, i) = st
<1>1. \A b \in DOMAIN CaseBlocks(sw) : ~(k <= b) BY DEF IsSeq
<1> QED BY <1>1, JumpNone

(* A block with another label is passed. *)
LEMMA JumpNext ==
  ASSUME NEW sw, IsSeq(CaseBlocks(sw)), NEW k \in DOMAIN CaseBlocks(sw), NEW n,
         CaseBlocks(sw)[k].label # {n}, CaseBlocks(sw)[k].label # {}, NEW st, NEW i
  PROVE  Jump(sw, k, n, st, i) = Jump(sw, k + 1, n, st, i)
<1>1. \A b \in DOMAIN CaseBlocks(sw) : k <= b <=> k = b \/ k + 1 <= b BY DEF IsSeq
<1>2. ASSUME NEW l, CaseBlocks(sw)[k].label # l PROVE Blocks(sw, k, l) = Blocks(sw, k + 1, l)
  BY <1>1, <1>2 DEF Blocks
<1> DEFINE m == k + 1
<1>3. Blocks(sw, k, {n}) = Blocks(sw, m, {n}) /\ Blocks(sw, k, {}) = Blocks(sw, m, {}) BY <1>2
<1> DEFINE Goal(t) == IF t = {} THEN st ELSE RunAll(Run, CaseBlocks(sw)[CHOOSE b \in t : TRUE].body, st, i)
           To(x) == IF Blocks(sw, x, {n}) # {} THEN Blocks(sw, x, {n}) ELSE Blocks(sw, x, {})
<1> HIDE DEF m
<1>5. \A x : Jump(sw, x, n, st, i) = Goal(To(x)) BY DEF Jump
<1>6. To(k) = To(m) BY <1>3
<1> HIDE DEF Goal, To
<1>4. Jump(sw, k, n, st, i) = Jump(sw, m, n, st, i) BY <1>5, <1>6
<1> QED BY <1>4 DEF m

(* A block that is taken is run; what runs on after it passes the blocks   *)
(* that follow.                                                            *)
LEMMA JumpTaken ==
  ASSUME NEW p \in Programs, NEW sw \in Stmts(p), sw.kind = "switch", PlainLabels(sw),
         NEW k \in DOMAIN CaseBlocks(sw), NEW n, CaseBlocks(sw)[k].label = {n},
         NEW st \in CState, NEW i \in Input, NEW r, r = RunAll(Run, CaseBlocks(sw)[k].body, st, i)
  PROVE  Jump(sw, k, n, st, i) = r /\ (r.mode = "run" => Jump(sw, k + 1, n, r, i) = r)
<1> DEFINE B == CaseBlocks(sw)
<1>1. /\ \A b, c \in DOMAIN B : B[b].label = B[c].label => b = c
      /\ \A b, c \in DOMAIN B : B[c].label = {} /\ b < c =>
           \E j \in DOMAIN sw.items : /\ B[b].body = ItemsFrom(sw, j) /\ j < Len(sw.items)
                                      /\ NeverEnds(sw.items[Len(sw.items) - 1].s)
  BY BlocksOnce
<1>2. DOMAIN B = 1 .. Len(B) /\ k \in Nat
  <2>1. DOMAIN B = 1 .. Len(B) BY BlocksAre DEF IsSeq
  <2> HIDE DEF B
  <2> QED BY <2>1 DEF B
<1>3. Jump(sw, k, n, st, i) = r
  <2>1. k <= k BY <1>2
  <2> QED BY <2>1, JumpAt
<1>4. ASSUME r.mode = "run" PROVE Jump(sw, k + 1, n, r, i) = r
  <2>1. ASSUME NEW b \in DOMAIN B, k + 1 <= b PROVE B[b].label # {n} /\ B[b].label # {}
    <3>1. k < b /\ k # b BY <1>2, <2>1
    <3>2. B[b].label # {n} BY <1>1, <3>1
    <3>3. ASSUME B[b].label = {} PROVE FALSE
      <4>1. PICK j \in DOMAIN sw.items :
              /\ B[k].body = ItemsFrom(sw, j) /\ j < Len(sw.items)
              /\ NeverEnds(sw.items[Len(sw.items) - 1].s)
        BY <1>1, <3>1, <3>3
      <4>2. r.mode # "run" BY <4>1, NotFallenInto
      <4> QED BY <1>4, <4>2
    <3> QED BY <3>2, <3>3
  <2> QED BY <2>1, JumpNone
<1> QED BY <1>3, <1>4

(* The default block is run; there is none after it. *)
LEMMA JumpDefault ==
  ASSUME NEW p \in Programs, NEW sw \in Stmts(p), sw.kind = "switch", PlainLabels(sw),
         NEW k \in DOMAIN CaseBlocks(sw), CaseBlocks(sw)[k].label = {}, NEW n, NEW i
  PROVE  /\ \A st : Jump(sw, k, n, st, i) = RunAll(Run, CaseBlocks(sw)[k].body, st, i)
         /\ \A st : Jump(sw, k + 1, n, st, i) = st
<1>1. IsSeq(CaseBlocks(sw)) /\ k = Len(CaseBlocks(sw)) /\ k \in Nat
  BY BlocksAre, BlocksOnce DEF IsSeq
<1>2. \A b \in DOMAIN CaseBlocks(sw) : k <= b => b = k BY <1>1 DEF IsSeq
<1>3. Blocks(sw, k, {n}) = {} /\ k <= k BY <1>1, <1>2 DEF Blocks
<1>4. k + 1 \in Nat /\ k + 1 > Len(CaseBlocks(sw)) BY <1>1
<1> DEFINE l == k + 1
<1>5. l \in Nat /\ l > Len(CaseBlocks(sw)) BY <1>4
<1> HIDE DEF l
<1>6. \A st : Jump(sw, l, n, st, i) = st BY <1>1, <1>5, JumpPast
<1>7. \A st : Jump(sw, k, n, st, i) = RunAll(Run, CaseBlocks(sw)[k].body, st, i) BY <1>3, JumpAt
<1> QED BY <1>6, <1>7 DEF l

(* The blocks from the first one on do what C says of the statement. *)
LEMMA JumpIsSwitch ==
  ASSUME NEW p \in Programs, NEW sw \in Stmts(p), sw.kind = "switch", PlainLabels(sw),
         NEW n, NEW st, NEW i
  PROVE  Jump(sw, 1, n, st, i) =
           IF Target(sw, n) = {} THEN st
           ELSE RunAll(Run, ItemsFrom(sw, CHOOSE j \in Target(sw, n) : TRUE), st, i)
<1> DEFINE with(l) == {j \in DOMAIN sw.items : \E k \in DOMAIN sw.items[j].labels : sw.items[j].labels[k] = l}
           B == CaseBlocks(sw)
           t == Target(sw, n)
<1>1. t = IF with({n}) # {} THEN with({n}) ELSE with({}) BY DEF Target
<1>2. IsSeq(B) /\ DOMAIN B = 1 .. Len(B) /\ \A b \in DOMAIN B : 1 <= b BY BlocksAre DEF IsSeq
<1>3. ASSUME NEW l, NEW b \in DOMAIN B, B[b].label = l PROVE with(l) # {}
  <2>1. PICK j, k : BlockAt(sw, b, j, k) BY <1>3, BlocksAre
  <2> QED BY <1>3, <2>1 DEF BlockAt
<1>4. ASSUME NEW l, NEW j \in with(l)
      PROVE  /\ \E b \in DOMAIN B : B[b].label = l /\ B[b].body = ItemsFrom(sw, j)
             /\ \A x \in with(l) : x = j
  <2>1. PICK k \in DOMAIN sw.items[j].labels : sw.items[j].labels[k] = l BY <1>4
  <2>2. PICK b \in DOMAIN B : BlockAt(sw, b, j, k) BY <1>4, <2>1, BlocksAre
  <2>3. \A x \in with(l) : x = j
    <3>1. \A x, y \in DOMAIN sw.items :
            \A u \in DOMAIN sw.items[x].labels, v \in DOMAIN sw.items[y].labels :
              sw.items[x].labels[u] = sw.items[y].labels[v] => x = y /\ u = v
      BY DEF PlainLabels
    <3> QED BY <1>4, <2>1, <3>1
  <2> QED BY <2>1, <2>2, <2>3 DEF BlockAt
<1> HIDE DEF with, t
<1>5. ASSUME NEW j \in t PROVE Jump(sw, 1, n, st, i) = RunAll(Run, ItemsFrom(sw, j), st, i) /\ \A x \in t : x = j
  <2>1. CASE with({n}) # {}
    <3>1. t = with({n}) BY <1>1, <2>1
    <3>2. PICK b \in DOMAIN B : B[b].label = {n} /\ B[b].body = ItemsFrom(sw, j) BY <1>4, <1>5, <3>1
    <3>3. Jump(sw, 1, n, st, i) = RunAll(Run, B[b].body, st, i)
      <4>1. 1 <= b /\ b \in DOMAIN CaseBlocks(sw) /\ CaseBlocks(sw)[b].label = {n} BY <1>2, <3>2
      <4> QED BY <4>1, JumpAt
    <3> QED BY <1>4, <1>5, <3>1, <3>2, <3>3
  <2>2. CASE with({n}) = {}
    <3>1. t = with({}) BY <1>1, <2>2
    <3>2. PICK b \in DOMAIN B : B[b].label = {} /\ B[b].body = ItemsFrom(sw, j) BY <1>4, <1>5, <3>1
    <3>3. Blocks(sw, 1, {n}) = {} BY <1>3, <2>2 DEF Blocks
    <3>4. Jump(sw, 1, n, st, i) = RunAll(Run, B[b].body, st, i) BY <1>2, <3>2, <3>3, JumpAt
    <3> QED BY <1>4, <1>5, <3>1, <3>2, <3>4
  <2> QED BY <2>1, <2>2
<1>6. CASE t = {}
  <2>1. with({n}) = {} /\ with({}) = {} BY <1>1, <1>6
  <2>2. \A b \in DOMAIN B : B[b].label # {n} /\ B[b].label # {} BY <1>3, <2>1
  <2>3. Jump(sw, 1, n, st, i) = st BY <2>2, JumpNone
  <2> QED BY <1>6, <2>3 DEF t
<1>7. CASE t # {}
  <2>1. (CHOOSE j \in t : TRUE) \in t BY <1>7
  <2>2. Jump(sw, 1, n, st, i) = RunAll(Run, ItemsFrom(sw, CHOOSE j \in t : TRUE), st, i)
    BY <1>5, <2>1
  <2> QED BY <1>7, <2>2 DEF t
<1> QED BY <1>6, <1>7

-----------------------------------------------------------------------------
(* The frames of a switch statement. *)

(* A block of a switch statement. *)
LEMMA BlockIs ==
  ASSUME NEW p \in Programs, NEW sw \in Stmts(p), sw.kind = "switch", PlainLabels(sw),
         NEW b \in DOMAIN CaseBlocks(sw)
  PROVE  /\ IsSeq(CaseBlocks(sw)[b].body)
         /\ \A k \in DOMAIN CaseBlocks(sw)[b].body :
              /\ Good(CaseBlocks(sw)[b].body[k])
              /\ Writes(CaseBlocks(sw)[b].body[k]) \subseteq Writes(sw)
              /\ Declared(CaseBlocks(sw)[b].body[k]) \subseteq Declared(sw)
         /\ Writes(sw) \cap Declared(sw) = {}
         /\ CaseBlocks(sw)[b].label = {} \/ \E m : CaseBlocks(sw)[b].label = {m}
<1>1. PICK j, l : BlockAt(sw, b, j, l) BY BlocksAre
<1>2. /\ j \in DOMAIN sw.items /\ l \in DOMAIN sw.items[j].labels
      /\ CaseBlocks(sw)[b].label = sw.items[j].labels[l] /\ CaseBlocks(sw)[b].body = ItemsFrom(sw, j)
  BY <1>1 DEF BlockAt
<1>3. sw.items[j].labels[l] = {} \/ \E m : sw.items[j].labels[l] = {m}
  <2>1. \A k \in DOMAIN sw.items[j].labels :
          sw.items[j].labels[k] = {} \/ \E m \in Val : sw.items[j].labels[k] = {m}
    BY <1>2, LabelsAre
  <2>2. sw.items[j].labels[l] = {} \/ \E m \in Val : sw.items[j].labels[l] = {m} BY <1>2, <2>1
  <2> DEFINE a == sw.items[j].labels[l]
  <2>3. a = {} \/ \E m \in Val : a = {m} BY <2>2
  <2> HIDE DEF a
  <2>4. a = {} \/ \E m : a = {m} BY <2>3
  <2> QED BY <2>4 DEF a
<1> DEFINE body == CaseBlocks(sw)[b].body
           label == CaseBlocks(sw)[b].label
<1>4. body = ItemsFrom(sw, j) /\ label = sw.items[j].labels[l] BY <1>2
<1>5. /\ IsSeq(ItemsFrom(sw, j))
      /\ \A k \in DOMAIN ItemsFrom(sw, j) :
           /\ Good(ItemsFrom(sw, j)[k])
           /\ Writes(ItemsFrom(sw, j)[k]) \subseteq Writes(sw)
           /\ Declared(ItemsFrom(sw, j)[k]) \subseteq Declared(sw)
      /\ Writes(sw) \cap Declared(sw) = {}
  BY <1>2, BodiesAre
<1>6. label = {} \/ \E m : label = {m} BY <1>3, <1>4
<1> HIDE DEF body, label
<1>7. /\ IsSeq(body)
      /\ \A k \in DOMAIN body : /\ Good(body[k]) /\ Writes(body[k]) \subseteq Writes(sw)
                                /\ Declared(body[k]) \subseteq Declared(sw)
      /\ Writes(sw) \cap Declared(sw) = {}
  BY <1>4, <1>5
<1> QED BY <1>6, <1>7 DEF body, label

LEMMA JumpTyped ==
  ASSUME NEW p \in Programs, NEW sw \in Stmts(p), sw.kind = "switch", PlainLabels(sw),
         NEW n, NEW st \in CState, NEW i \in Input
  PROVE  Jump(sw, 1, n, st, i) \in CState
<1> DEFINE t == Target(sw, n)
           j == CHOOSE x \in t : TRUE
<1>1. Jump(sw, 1, n, st, i) = IF t = {} THEN st ELSE RunAll(Run, ItemsFrom(sw, j), st, i)
  BY JumpIsSwitch
<1>2. ASSUME t # {} PROVE RunAll(Run, ItemsFrom(sw, j), st, i) \in CState
  <2>1. j \in DOMAIN sw.items
    <3>1. t \subseteq DOMAIN sw.items BY DEF Target
    <3> QED BY <1>2, <3>1
  <2> HIDE DEF j
  <2>2. /\ IsSeq(ItemsFrom(sw, j))
        /\ \A k \in DOMAIN ItemsFrom(sw, j) : /\ Good(ItemsFrom(sw, j)[k])
                                              /\ Writes(ItemsFrom(sw, j)[k]) \subseteq Writes(sw)
    BY <2>1, BodiesAre
  <2> QED BY <2>2, GoodRun
<1> QED BY <1>1, <1>2

LEMMA CasePasses ==
  ASSUME NEW f, f.op \in {"case", "next", "default"}, NEW x, NEW q, NEW r, NEW i
  PROVE  Passes(f, x, q, r, i) <=>
           /\ Avoids(q, Declared(f.sw))
           /\ r = Stepped(q, Jump(f.sw, IF f.op = "case" THEN f.k ELSE f.k + 1, f.val.val[i], q.st, i), x)
BY DEF Passes

LEMMA CaseFrameIs ==
  ASSUME NEW op, NEW sw, NEW k, NEW val, NEW rest, NEW done, NEW g,
         g = CaseFrame(op, sw, k, val, rest, done)
  PROVE  /\ g.op = op /\ g.sw = sw /\ g.k = k /\ g.val = val /\ g.rest = rest /\ g.done = done
BY DEF CaseFrame

LEMMA WaitsAside ==
  ASSUME NEW f, f.op \in {"partition", "case", "next", "default"}, NEW x, NEW p, NEW r, NEW i
  PROVE  /\ Aside(f, x, p, r, i) => Waits(f, x, p, r, i)
         /\ Waits(f, x, p, r, i) =>
              \/ Aside(f, x, p, r, i)
              \/ /\ f.op = "next" /\ i \notin CaseCond(f)
                 /\ \E k \in DOMAIN f.current : p = f.current[k]
                 /\ Passes(f, x, Point(p, i), r, i)
BY DEF Waits, Aside

LEMMA AsideSame ==
  ASSUME NEW f, NEW g, g.sw = f.sw, g.rest = f.rest,
         \A k \in DOMAIN f.done : \E l \in DOMAIN g.done : g.done[l] = f.done[k],
         NEW x, NEW p, NEW r, NEW i, Aside(f, x, p, r, i)
  PROVE  Aside(g, x, p, r, i)
<1>1. CASE (\E k \in DOMAIN f.done : p = f.done[k]) /\ r = Point(p, i)
  <2>1. \E l \in DOMAIN g.done : p = g.done[l] BY <1>1
  <2> QED BY <1>1, <2>1 DEF Aside
<1>2. CASE \E k \in DOMAIN f.rest :
             /\ p = f.rest[k].path
             /\ Passes(CaseFrame("case", f.sw, 1, f.rest[k].val, <<>>, <<>>), x, Point(p, i), r, i)
  BY <1>2 DEF Aside
<1> QED BY <1>1, <1>2 DEF Aside

(* What was kept for later still is, in the frame that takes the place of  *)
(* the one on top.                                                         *)
LEMMA StillAside ==
  ASSUME NEW f, f.op \in {"partition", "case", "default"},
         NEW g, g.op \in {"partition", "case", "next", "default"}, g.sw = f.sw, g.rest = f.rest,
         \A k \in DOMAIN f.done : \E l \in DOMAIN g.done : g.done[l] = f.done[k],
         NEW x, NEW p, NEW r, NEW i, Waits(f, x, p, r, i)
  PROVE  Waits(g, x, p, r, i)
<1>1. Aside(f, x, p, r, i) BY WaitsAside
<1>2. Aside(g, x, p, r, i) BY <1>1, AsideSame
<1> QED BY <1>2, WaitsAside

(* The case frame on top of the stack, in a body that is stepped as C does *)
(* it.                                                                     *)
LEMMA CaseIs ==
  ASSUME Sound, SteppedAsC(prog), NEW op \in {"case", "next", "default"}, At(op)
  PROVE  LET f == Head(stack)
         IN  /\ prog \in Programs /\ f.sw \in Stmts(prog) /\ f.sw.kind = "switch" /\ PlainLabels(f.sw)
             /\ f.op = op /\ f.k \in Nat \ {0} /\ IsSeq(CaseBlocks(f.sw))
             /\ f.k <= Len(CaseBlocks(f.sw)) => f.k \in DOMAIN CaseBlocks(f.sw)
             /\ SoundPaths(paths, Exact) /\ IsSeq(paths) /\ Exact \in BOOLEAN
             /\ SoundPaths(f.done, Exact) /\ SoundValue(f.val, Exact)
             /\ op = "next" => SoundPaths(f.current, Exact)
<1> DEFINE f == Head(stack)
<1>1. /\ f.sw \in Stmts(prog) /\ f.sw.kind = "switch" /\ f.k \in Nat \ {0} /\ IsSeq(CaseBlocks(f.sw))
      /\ SoundPaths(f.done, Exact) /\ SoundValue(f.val, Exact)
  BY CaseOnTop
<1>2. /\ f.op = op /\ SoundPaths(paths, Exact) /\ IsSeq(paths) /\ Exact \in BOOLEAN
      /\ SoundFrame(f, Stmts(prog), Exact)
  BY OnTop
<1>3. op = "next" => SoundPaths(f.current, Exact) BY <1>2 DEF SoundFrame
<1>4. prog \in Programs BY DEF Sound
<1> HIDE DEF f
<1>5. PlainLabels(f.sw) BY <1>1 DEF SteppedAsC
<1>6. f.k <= Len(CaseBlocks(f.sw)) => f.k \in DOMAIN CaseBlocks(f.sw) BY <1>1 DEF IsSeq
<1> QED BY <1>1, <1>2, <1>3, <1>4, <1>5, <1>6 DEF f

(* The condition of the case and its label. *)
LEMMA CondIs ==
  ASSUME NEW f, NEW i \in Input, NEW m, CaseBlocks(f.sw)[f.k].label = {m}
  PROVE  i \in CaseCond(f) <=> CaseBlocks(f.sw)[f.k].label = {f.val.val[i]}
<1>1. i \in CaseCond(f) <=> f.val.val[i] \in CaseBlocks(f.sw)[f.k].label BY DEF CaseCond
<1> QED BY <1>1

(* The statements of a block in a row. *)
LEMMA BlockGoes ==
  ASSUME NEW body, IsSeq(body), NEW W, NEW D, W \cap D = {},
         \A k \in DOMAIN body : Good(body[k]) /\ Writes(body[k]) \subseteq W /\ Declared(body[k]) \subseteq D,
         NEW q, IsPoint(q), Avoids(q, D), NEW i \in Input,
         NEW m, m = Stepped(q, RunAll(Run, body, q.st, i), ctx)
  PROVE  /\ RowGoes(StepFrames(body), ctx, q, m, i)
         /\ IsPoint(m) /\ Avoids(m, D)
<1> DEFINE R == RunAll(Run, body, q.st, i)
<1>1. q.st \in CState BY DEF IsPoint
<1>2. R \in CState /\ \A v \in DOMAIN R.env : v \in DOMAIN q.st.env \/ v \in W BY <1>1, GoodRun
<1>3. RowGoes(StepFrames(body), ctx, q, m, i) BY RowSteps
<1> HIDE DEF R
<1>4. CASE q.st.mode = "run"
  <2>1. m = Marked(R, ctx) BY <1>4, SteppedIs DEF R
  <2>2. IsPoint(m) /\ m.st = R BY <1>2, <2>1, MarkedIs
  <2> QED BY <1>2, <1>3, <2>2 DEF Avoids
<1>5. CASE q.st.mode # "run"
  <2>1. m = q BY <1>5, SteppedIs
  <2> QED BY <1>3, <2>1
<1> QED BY <1>4, <1>5

LEMMA DefaultTold == Sound /\ SteppedAsC(prog) /\ StepDefault => Retold
<1> SUFFICES ASSUME Sound, SteppedAsC(prog), StepDefault PROVE Retold OBVIOUS
<1> DEFINE f == Head(stack)
           sw == f.sw
           body == CaseBlocks(sw)[f.k].body
           g == CaseFrame("default", sw, f.k, f.val, f.rest, f.done)
           fs == StepFrames(body) \o <<g>>
<1>1. /\ At("case") /\ f.k <= Len(CaseBlocks(sw)) /\ CaseBlocks(sw)[f.k].label = {}
      /\ Continue(fs) /\ paths' = paths /\ ctx' = ctx
  BY DEF StepDefault
<1>2. /\ prog \in Programs /\ sw \in Stmts(prog) /\ sw.kind = "switch" /\ PlainLabels(sw)
      /\ f.op = "case" /\ f.k \in DOMAIN CaseBlocks(sw)
  BY <1>1, CaseIs
<1> DEFINE B == CaseBlocks(sw)
<1> HIDE DEF f
<1>3. /\ IsSeq(body)
      /\ \A k \in DOMAIN body : /\ Good(body[k]) /\ Writes(body[k]) \subseteq Writes(sw)
                                /\ Declared(body[k]) \subseteq Declared(sw)
      /\ Writes(sw) \cap Declared(sw) = {}
  BY <1>2, BlockIs
<1>4. /\ g.op = "default" /\ g.sw = sw /\ g.k = f.k /\ g.val = f.val /\ g.rest = f.rest /\ g.done = f.done
      /\ ~Restores(g)
  BY CaseFrameIs DEF Restores
<1>5. IsSeq(StepFrames(body)) /\ \A k \in DOMAIN StepFrames(body) : ~Restores(StepFrames(body)[k])
  BY <1>3, StepFramesAre DEF Restores
<1>6. \A n, i : /\ \A st : Jump(sw, f.k, n, st, i) = RunAll(Run, body, st, i)
                /\ \A st : Jump(sw, f.k + 1, n, st, i) = st
  BY <1>1, <1>2, JumpDefault
<1> HIDE DEF sw, body, g
<1>7. ASSUME NEW i \in Input, NEW o, ToldBy(ctx, paths, f, o, i) PROVE Told(ctx, paths, fs, o, i)
  <2>1. CASE \E p : Tells(p, i) /\ Waits(f, ctx, p, o, i)
    <3>1. PICK p : Tells(p, i) /\ Waits(f, ctx, p, o, i) BY <2>1
    <3>2. Waits(g, ctx, p, o, i)
      <4>1. /\ g.sw = f.sw /\ g.rest = f.rest /\ \A k \in DOMAIN f.done : \E l \in DOMAIN g.done : g.done[l] = f.done[k]
        BY <1>4 DEF sw
      <4> QED BY <1>2, <1>4, <3>1, <4>1, StillAside
    <3> QED BY <1>5, <3>1, <3>2, ToldRow
  <2>2. CASE \E k \in DOMAIN paths : Tells(paths[k], i) /\ Passes(f, ctx, Point(paths[k], i), o, i)
    <3>1. PICK k \in DOMAIN paths : Tells(paths[k], i) /\ Passes(f, ctx, Point(paths[k], i), o, i)
      BY <2>2
    <3> DEFINE q == Point(paths[k], i)
               m == Stepped(q, RunAll(Run, body, q.st, i), ctx)
    <3>2. IsPoint(q) /\ q.st \in CState BY <3>1, PointIs DEF IsPoint
    <3>3. /\ Avoids(q, Declared(sw)) /\ o = m BY <1>2, <1>6, <3>1, CasePasses DEF sw
    <3> HIDE DEF q
    <3>4. RowGoes(StepFrames(body), ctx, q, m, i) /\ IsPoint(m) /\ Avoids(m, Declared(sw))
      BY <1>3, <3>2, <3>3, BlockGoes
    <3> HIDE DEF m
    <3>6. Passes(g, ctx, m, o, i)
      <4>1. o = Stepped(m, Jump(sw, f.k + 1, f.val.val[i], m.st, i), ctx)
        BY <1>6, <3>3, <3>4, SteppedIs
      <4> QED BY <1>4, <3>4, <4>1, CasePasses
    <3> QED BY <1>5, <3>1, <3>4, <3>6, ToldRow DEF q
  <2> QED BY <1>7, <2>1, <2>2 DEF ToldBy
<1>8. IsSeq(fs) /\ \A k \in DOMAIN fs : ~Restores(fs[k])
  <2>1. IsSeq(<<g>>) /\ DOMAIN <<g>> = {1} /\ <<g>>[1] = g BY SingletonIsSeq
  <2> QED BY <1>4, <1>5, <2>1, Concatenation
<1>9. Replacing(fs) BY <1>1, <1>7 DEF Replacing, f
<1> HIDE DEF fs
<1> QED BY <1>1, <1>8, <1>9, PlainRetold

LEMMA CaseTold == Sound /\ SteppedAsC(prog) /\ StepCase => Retold
<1> SUFFICES ASSUME Sound, SteppedAsC(prog), StepCase PROVE Retold OBVIOUS
<1> DEFINE f == Head(stack)
           sw == f.sw
           label == CaseBlocks(sw)[f.k].label
           body == CaseBlocks(sw)[f.k].body
           g == [op |-> "next", sw |-> sw, k |-> f.k, val |-> f.val, rest |-> f.rest,
                 done |-> f.done, current |-> paths]
           taken == [k \in DOMAIN paths |-> Assume(paths[k], CaseCond(f))]
           fs == StepFrames(body) \o <<g>>
<1>1. /\ At("case") /\ f.k <= Len(CaseBlocks(sw)) /\ label # {}
      /\ Continue(fs) /\ paths' = taken /\ ctx' = ctx
  BY DEF StepCase, Each
<1>2. /\ prog \in Programs /\ sw \in Stmts(prog) /\ sw.kind = "switch" /\ PlainLabels(sw)
      /\ f.op = "case" /\ f.k \in DOMAIN CaseBlocks(sw) /\ f.k \in Nat /\ IsSeq(CaseBlocks(sw))
      /\ SoundPaths(paths, Exact) /\ Exact \in BOOLEAN
  BY <1>1, CaseIs
<1>3. DOMAIN taken = DOMAIN paths /\ \A k \in DOMAIN paths : taken[k] = Assume(paths[k], CaseCond(f))
  OBVIOUS
<1> HIDE DEF f, taken
<1>4. /\ IsSeq(body)
      /\ \A k \in DOMAIN body : /\ Good(body[k]) /\ Writes(body[k]) \subseteq Writes(sw)
                                /\ Declared(body[k]) \subseteq Declared(sw)
      /\ Writes(sw) \cap Declared(sw) = {}
      /\ label = {} \/ \E m : label = {m}
  BY <1>2, BlockIs
<1>5. /\ g.op = "next" /\ g.sw = sw /\ g.k = f.k /\ g.val = f.val /\ g.rest = f.rest /\ g.done = f.done
      /\ g.current = paths /\ ~Restores(g)
  BY DEF Restores
<1>6. IsSeq(StepFrames(body)) /\ \A k \in DOMAIN StepFrames(body) : ~Restores(StepFrames(body)[k])
  BY <1>4, StepFramesAre DEF Restores
<1>7. ASSUME NEW i \in Input
      PROVE  /\ i \in CaseCond(f) <=> label = {f.val.val[i]}
             /\ i \in CaseCond(f) <=> i \in CaseCond(g)
  <2>1. PICK m : label = {m} BY <1>1, <1>4
  <2>2. i \in CaseCond(f) <=> label = {f.val.val[i]} BY <2>1, CondIs
  <2> HIDE DEF g
  <2>3. CaseCond(f) = CaseCond(g) BY <1>5 DEF CaseCond, sw
  <2> QED BY <2>2, <2>3
<1>8. ASSUME NEW i \in Input, label = {f.val.val[i]}, NEW st \in CState, NEW r, r = RunAll(Run, body, st, i)
      PROVE  Jump(sw, f.k, f.val.val[i], st, i) = r /\ (r.mode = "run" => Jump(sw, f.k + 1, f.val.val[i], r, i) = r)
  BY <1>2, <1>8, JumpTaken
<1>9. ASSUME NEW i \in Input, label # {f.val.val[i]}, NEW st
      PROVE  Jump(sw, f.k, f.val.val[i], st, i) = Jump(sw, f.k + 1, f.val.val[i], st, i)
  <2> DEFINE k == f.k
             n == f.val.val[i]
  <2>1. /\ IsSeq(CaseBlocks(sw)) /\ k \in DOMAIN CaseBlocks(sw)
        /\ CaseBlocks(sw)[k].label # {n} /\ CaseBlocks(sw)[k].label # {}
    BY <1>1, <1>2, <1>9
  <2> HIDE DEF k, n, sw
  <2>2. Jump(sw, k, n, st, i) = Jump(sw, k + 1, n, st, i) BY <2>1, JumpNext
  <2> QED BY <2>2 DEF k, n
<1> HIDE DEF sw, label, body, g
<1>10. ASSUME NEW i \in Input, NEW o, ToldBy(ctx, paths, f, o, i) PROVE Told(ctx, taken, fs, o, i)
  <2>1. CASE \E p : Tells(p, i) /\ Waits(f, ctx, p, o, i)
    <3>1. PICK p : Tells(p, i) /\ Waits(f, ctx, p, o, i) BY <2>1
    <3>2. Waits(g, ctx, p, o, i)
      <4>1. g.sw = f.sw /\ g.rest = f.rest /\ \A k \in DOMAIN f.done : \E l \in DOMAIN g.done : g.done[l] = f.done[k]
        BY <1>5 DEF sw
      <4> QED BY <1>2, <1>5, <3>1, <4>1, StillAside
    <3> QED BY <1>6, <3>1, <3>2, ToldRow
  <2>2. CASE \E k \in DOMAIN paths : Tells(paths[k], i) /\ Passes(f, ctx, Point(paths[k], i), o, i)
    <3>1. PICK k \in DOMAIN paths : Tells(paths[k], i) /\ Passes(f, ctx, Point(paths[k], i), o, i)
      BY <2>2
    <3> DEFINE q == Point(paths[k], i)
               n == f.val.val[i]
    <3>2. IsPoint(q) /\ q.st \in CState BY <3>1, PointIs DEF IsPoint
    <3>3. Avoids(q, Declared(sw)) /\ o = Stepped(q, Jump(sw, f.k, n, q.st, i), ctx)
      BY <1>2, <3>1, CasePasses DEF sw
    <3> HIDE DEF q, n
    <3>4. CASE label = {n}
      <4> DEFINE R == RunAll(Run, body, q.st, i)
                 m == Stepped(q, R, ctx)
      <4>1. Jump(sw, f.k, n, q.st, i) = R /\ (R.mode = "run" => Jump(sw, f.k + 1, n, R, i) = R)
        BY <1>8, <3>2, <3>4 DEF n
      <4>2. o = m BY <3>3, <4>1
      <4>3. RowGoes(StepFrames(body), ctx, q, m, i) /\ IsPoint(m) /\ Avoids(m, Declared(sw))
        BY <1>4, <3>2, <3>3, BlockGoes
      <4>4. R \in CState BY <1>4, <3>2, GoodRun
      <4> HIDE DEF R
      <4>5. m = Stepped(m, Jump(sw, f.k + 1, n, m.st, i), ctx)
        <5>1. CASE q.st.mode = "run"
          <6>1. m = Marked(R, ctx) BY <3>2, <5>1, SteppedIs
          <6>2. m.st = R BY <4>4, <6>1, MarkedIs
          <6>3. CASE R.mode = "run" BY <4>1, <4>3, <6>2, <6>3, SteppedIs
          <6>4. CASE R.mode # "run"
            <7> HIDE DEF m
            <7> QED BY <4>3, <6>2, <6>4, SteppedIs
          <6> QED BY <6>3, <6>4
        <5>2. CASE q.st.mode # "run"
          <6>1. m = q BY <3>2, <5>2, SteppedIs
          <6> HIDE DEF m
          <6> QED BY <3>2, <5>2, <6>1, SteppedIs
        <5> QED BY <5>1, <5>2
      <4> HIDE DEF m
      <4>6. Passes(g, ctx, m, o, i) BY <1>5, <4>2, <4>3, <4>5, CasePasses DEF n
      <4>7. i \in CaseCond(f) BY <1>7, <3>4 DEF n
      <4>8. k \in DOMAIN taken /\ Tells(taken[k], i) /\ Point(taken[k], i) = q
        <5>1. SoundPath(paths[k], Exact) BY <1>2 DEF SoundPaths
        <5> QED BY <1>2, <1>3, <3>1, <4>7, <5>1, AssumeTells DEF q
      <4> QED BY <1>6, <4>3, <4>6, <4>8, ToldRow
    <3>5. CASE label # {n}
      <4>1. i \notin CaseCond(g) BY <1>7, <3>5 DEF n
      <4>2. o = Stepped(q, Jump(sw, f.k + 1, n, q.st, i), ctx) BY <1>9, <3>3, <3>5 DEF n
      <4>3. Passes(g, ctx, q, o, i) BY <1>5, <3>3, <4>2, CasePasses DEF n
      <4>4. Waits(g, ctx, paths[k], o, i) BY <1>5, <4>1, <4>3 DEF Waits, q
      <4> QED BY <1>6, <3>1, <4>4, ToldRow
    <3> QED BY <3>4, <3>5
  <2> QED BY <1>10, <2>1, <2>2 DEF ToldBy
<1>11. IsSeq(fs) /\ \A k \in DOMAIN fs : ~Restores(fs[k])
  <2>1. IsSeq(<<g>>) /\ DOMAIN <<g>> = {1} /\ <<g>>[1] = g BY SingletonIsSeq
  <2> QED BY <1>5, <1>6, <2>1, Concatenation
<1>12. Replacing(fs) BY <1>1, <1>10 DEF Replacing, f
<1> HIDE DEF fs
<1> QED BY <1>1, <1>11, <1>12, PlainRetold

(* One frame of the switch statement takes the place of another. *)
LEMMA FrameRetold ==
  ASSUME Sound, NEW op, At(op), op \notin {"leave", "else", "join"}, ctx' = ctx,
         NEW g, ~Restores(g), Continue(<<g>>),
         \A i \in Input : \A o : ToldBy(ctx, paths, Head(stack), o, i) => ToldBy(ctx, paths', g, o, i)
  PROVE  Retold
<1> DEFINE fs == <<g>>
<1>1. ASSUME NEW i \in Input, NEW o, ToldBy(ctx, paths, Head(stack), o, i) PROVE Told(ctx, paths', fs, o, i)
  BY <1>1, ToldOne
<1>2. Replacing(fs) BY <1>1 DEF Replacing
<1>3. IsSeq(fs) /\ (\A k \in DOMAIN fs : ~Restores(fs[k])) /\ Continue(fs)
  <2>1. DOMAIN fs = {1} /\ fs[1] = g /\ IsSeq(fs) BY SingletonIsSeq
  <2> QED BY <2>1
<1> HIDE DEF fs
<1> QED BY <1>2, <1>3, PlainRetold

LEMMA EndDefaultTold == Sound /\ SteppedAsC(prog) /\ EndDefault => Retold
<1> SUFFICES ASSUME Sound, SteppedAsC(prog), EndDefault PROVE Retold OBVIOUS
<1> DEFINE f == Head(stack)
           l == IF AllInactive(paths) THEN Len(CaseBlocks(f.sw)) + 1 ELSE f.k + 1
           g == CaseFrame("case", f.sw, l, f.val, f.rest, f.done)
<1>1. At("default") /\ Continue(<<g>>) /\ paths' = paths /\ ctx' = ctx BY DEF EndDefault
<1>2. f.op = "default" BY <1>1, CaseIs
<1>3. /\ g.op = "case" /\ g.sw = f.sw /\ g.k = l /\ g.val = f.val /\ g.rest = f.rest /\ g.done = f.done
      /\ ~Restores(g)
  BY CaseFrameIs DEF Restores
<1> HIDE DEF f, g
<1>4. ASSUME NEW i \in Input, NEW o, ToldBy(ctx, paths, f, o, i) PROVE ToldBy(ctx, paths, g, o, i)
  <2>1. ASSUME NEW p, Tells(p, i), Waits(f, ctx, p, o, i) PROVE Waits(g, ctx, p, o, i)
    BY <1>2, <1>3, <2>1, StillAside
  <2>2. ASSUME NEW k \in DOMAIN paths, Tells(paths[k], i), Passes(f, ctx, Point(paths[k], i), o, i)
        PROVE  Passes(g, ctx, Point(paths[k], i), o, i)
    <3> DEFINE q == Point(paths[k], i)
    <3>1. Avoids(q, Declared(f.sw)) /\ o = Stepped(q, Jump(f.sw, f.k + 1, f.val.val[i], q.st, i), ctx)
      BY <1>2, <2>2, CasePasses
    <3>2. IsPoint(q) /\ (q.st.mode = "run" <=> IsActive(paths[k])) BY <2>2, PointIs DEF IsActive
    <3> HIDE DEF q
    <3>3. o = Stepped(q, Jump(f.sw, l, f.val.val[i], q.st, i), ctx)
      <4>1. CASE AllInactive(paths)
        <5>1. q.st.mode # "run" BY <3>2, <4>1 DEF AllInactive
        <5> HIDE DEF l
        <5> QED BY <3>1, <3>2, <5>1, SteppedIs
      <4>2. CASE ~AllInactive(paths) BY <3>1, <4>2
      <4> QED BY <4>1, <4>2
    <3> QED BY <1>3, <3>1, <3>3, CasePasses DEF q
  <2> QED BY <1>4, <2>1, <2>2 DEF ToldBy
<1> QED BY <1>1, <1>3, <1>4, FrameRetold DEF f

LEMMA EndCasesTold == Sound /\ SteppedAsC(prog) /\ EndCases => Retold
<1> SUFFICES ASSUME Sound, SteppedAsC(prog), EndCases PROVE Retold OBVIOUS
<1> DEFINE f == Head(stack)
           done == f.done \o paths
           g == Partition(f, done)
<1>1. At("case") /\ Continue(<<g>>) /\ paths' = <<>> /\ ctx' = ctx /\ f.k > Len(CaseBlocks(f.sw))
  BY DEF EndCases
<1>2. f.op = "case" /\ IsSeq(CaseBlocks(f.sw)) /\ f.k \in Nat /\ IsSeq(f.done) /\ IsSeq(paths)
  BY <1>1, CaseIs DEF SoundPaths
<1>3. /\ g.op = "partition" /\ g.sw = f.sw /\ g.rest = f.rest /\ g.done = done
      /\ ~Restores(g)
  BY DEF Restores, Partition
<1> HIDE DEF f
<1>4. Among(f.done, done) /\ Among(paths, done) BY <1>2, BothAmong
<1> HIDE DEF g, done
<1>5. ASSUME NEW i \in Input, NEW o, ToldBy(ctx, paths, f, o, i) PROVE ToldBy(ctx, <<>>, g, o, i)
  <2>1. ASSUME NEW p, Tells(p, i), Waits(f, ctx, p, o, i) PROVE Waits(g, ctx, p, o, i)
    BY <1>2, <1>3, <1>4, <2>1, StillAside DEF Among
  <2>2. ASSUME NEW k \in DOMAIN paths, Tells(paths[k], i), Passes(f, ctx, Point(paths[k], i), o, i)
        PROVE  Waits(g, ctx, paths[k], o, i)
    <3> DEFINE q == Point(paths[k], i)
    <3>1. o = Stepped(q, Jump(f.sw, f.k, f.val.val[i], q.st, i), ctx) BY <1>2, <2>2, CasePasses
    <3>2. IsPoint(q) BY <2>2, PointIs
    <3> HIDE DEF q
    <3>3. Jump(f.sw, f.k, f.val.val[i], q.st, i) = q.st BY <1>1, <1>2, JumpPast DEF f
    <3>4. o = q BY <3>1, <3>2, <3>3, SteppedIs
    <3>5. Aside(g, ctx, paths[k], o, i) BY <1>3, <1>4, <3>4 DEF Aside, Among, q
    <3> QED BY <1>3, <3>5, WaitsAside
  <2> QED BY <1>5, <2>1, <2>2 DEF ToldBy
<1> QED BY <1>1, <1>3, <1>5, FrameRetold DEF f

LEMMA EndCaseTold == Sound /\ SteppedAsC(prog) /\ EndCase => Retold
<1> SUFFICES ASSUME Sound, SteppedAsC(prog), EndCase PROVE Retold OBVIOUS
<1> DEFINE f == Head(stack)
           d == Input \ CaseCond(f)
           current == [k \in DOMAIN f.current |-> Assume(f.current[k], d)]
           done == IF AllInactive(paths) THEN f.done \o paths ELSE f.done
           g == CaseFrame("case", f.sw, f.k + 1, f.val, f.rest, done)
<1>1. /\ At("next") /\ Continue(<<g>>) /\ ctx' = ctx
      /\ paths' = IF AllInactive(paths) THEN current ELSE paths \o current
  BY DEF EndCase, Each
<1>2. /\ f.op = "next" /\ IsSeq(f.done) /\ IsSeq(paths) /\ Exact \in BOOLEAN
      /\ SoundPaths(f.current, Exact) /\ IsSeq(f.current)
  BY <1>1, CaseIs DEF SoundPaths
<1>3. /\ g.op = "case" /\ g.sw = f.sw /\ g.k = f.k + 1 /\ g.val = f.val /\ g.rest = f.rest /\ g.done = done
      /\ ~Restores(g)
  BY CaseFrameIs DEF Restores
<1>4. /\ current = [k \in DOMAIN f.current |-> current[k]]
      /\ \A k \in DOMAIN f.current : current[k] = Assume(f.current[k], d)
  OBVIOUS
<1> HIDE DEF f, g, current, d
<1>5. IsSeq(current) /\ DOMAIN current = DOMAIN f.current BY <1>2, <1>4, FunctionIsSeq DEF IsSeq
<1>6. Among(f.done, done) /\ (AllInactive(paths) => Among(paths, done))
  <2>1. Among(f.done, f.done \o paths) /\ Among(paths, f.done \o paths) /\ Among(f.done, f.done)
    BY <1>2, BothAmong
  <2> QED BY <2>1
<1>7. Among(current, paths') /\ (~AllInactive(paths) => Among(paths, paths'))
  <2>1. CASE AllInactive(paths) BY <1>1, <1>5, <2>1, BothAmong
  <2>2. CASE ~AllInactive(paths)
    <3>1. Among(paths, paths \o current) /\ Among(current, paths \o current)
      BY <1>2, <1>5, BothAmong
    <3> QED BY <1>1, <2>2, <3>1
  <2> QED BY <2>1, <2>2
<1>8. ASSUME NEW i, NEW p, NEW o, Passes(f, ctx, Point(p, i), o, i)
      PROVE  Passes(g, ctx, Point(p, i), o, i)
  BY <1>2, <1>3, <1>8, CasePasses
<1> HIDE DEF done
<1>9. ASSUME NEW i \in Input, NEW o, ToldBy(ctx, paths, f, o, i) PROVE ToldBy(ctx, paths', g, o, i)
  <2>1. ASSUME NEW p, Tells(p, i), Waits(f, ctx, p, o, i) PROVE ToldBy(ctx, paths', g, o, i)
    <3>1. CASE Aside(f, ctx, p, o, i)
      <4>1. Aside(g, ctx, p, o, i) BY <1>3, <1>6, <3>1, AsideSame DEF Among
      <4>2. Waits(g, ctx, p, o, i) BY <1>3, <4>1, WaitsAside
      <4> QED BY <2>1, <4>2 DEF ToldBy
    <3>2. CASE ~Aside(f, ctx, p, o, i)
      <4>1. i \notin CaseCond(f) /\ (\E k \in DOMAIN f.current : p = f.current[k]) /\ Passes(f, ctx, Point(p, i), o, i)
        BY <1>2, <2>1, <3>2, WaitsAside
      <4>2. PICK k \in DOMAIN f.current : p = f.current[k] BY <4>1
      <4>3. SoundPath(p, Exact) /\ i \in d BY <1>2, <4>1, <4>2 DEF SoundPaths, d
      <4>4. Tells(Assume(p, d), i) /\ Point(Assume(p, d), i) = Point(p, i)
        BY <1>2, <2>1, <4>3, AssumeTells
      <4>5. k \in DOMAIN current /\ current[k] = Assume(p, d) BY <1>4, <1>5, <4>2
      <4>6. PICK l \in DOMAIN paths' : paths'[l] = Assume(p, d) BY <1>7, <4>5 DEF Among
      <4>7. Tells(paths'[l], i) /\ Passes(g, ctx, Point(paths'[l], i), o, i)
        BY <1>8, <4>1, <4>4, <4>6
      <4> QED BY <4>7 DEF ToldBy
    <3> QED BY <3>1, <3>2
  <2>2. ASSUME NEW k \in DOMAIN paths, Tells(paths[k], i), Passes(f, ctx, Point(paths[k], i), o, i)
        PROVE  ToldBy(ctx, paths', g, o, i)
    <3>1. CASE AllInactive(paths)
      <4> DEFINE q == Point(paths[k], i)
      <4>1. IsPoint(q) /\ q.st.mode # "run" BY <2>2, <3>1, PointIs DEF IsActive, AllInactive
      <4>2. o = Stepped(q, Jump(f.sw, f.k + 1, f.val.val[i], q.st, i), ctx)
        BY <1>2, <2>2, CasePasses
      <4> HIDE DEF q
      <4>3. o = q BY <4>1, <4>2, SteppedIs
      <4>4. Aside(g, ctx, paths[k], o, i) BY <1>3, <1>6, <3>1, <4>3 DEF Aside, Among, q
      <4>5. Waits(g, ctx, paths[k], o, i) BY <1>3, <4>4, WaitsAside
      <4> QED BY <2>2, <4>5 DEF ToldBy
    <3>2. CASE ~AllInactive(paths)
      <4>1. PICK l \in DOMAIN paths' : paths'[l] = paths[k] BY <1>7, <3>2 DEF Among
      <4>2. Tells(paths'[l], i) /\ Passes(g, ctx, Point(paths'[l], i), o, i) BY <1>8, <2>2, <4>1
      <4> QED BY <4>2 DEF ToldBy
    <3> QED BY <3>1, <3>2
  <2> QED BY <1>9, <2>1, <2>2 DEF ToldBy
<1> QED BY <1>1, <1>3, <1>9, FrameRetold DEF f

LEMMA PartitionTold == Sound /\ NextPartition => Retold
<1> SUFFICES ASSUME Sound, NextPartition PROVE Retold OBVIOUS
<1> DEFINE f == Head(stack)
           first == Head(f.rest)
           g == CaseFrame("case", f.sw, 1, first.val, Tail(f.rest), f.done)
<1>1. /\ At("partition") /\ ctx' = ctx
      /\ \/ f.rest = <<>> /\ paths' = f.done /\ Continue(<<>>)
         \/ f.rest # <<>> /\ paths' = <<first.path>> /\ Continue(<<g>>)
  BY DEF NextPartition
<1>2. f.op = "partition" /\ IsSeq(f.rest) /\ SoundState(paths, stack, Stmts(prog), Exact)
  BY <1>1, OnTop DEF SoundFrame, SoundRest
<1>3. paths = <<>>
  <2>1. IsSeq(stack) /\ stack # <<>> BY <1>1, <1>2 DEF At, SoundState, SoundStack
  <2>2. 1 \in DOMAIN stack /\ f = stack[1] BY <2>1, HeadAndTail
  <2> QED BY <1>2, <2>2 DEF SoundState, PartitionOnTop
<1>4. /\ g.op = "case" /\ g.sw = f.sw /\ g.k = 1 /\ g.val = first.val /\ g.rest = Tail(f.rest) /\ g.done = f.done
      /\ ~Restores(g)
  BY CaseFrameIs DEF Restores
<1>5. ASSUME NEW i \in Input, NEW o, ToldBy(ctx, paths, f, o, i)
      PROVE  \E p : Tells(p, i) /\ Aside(f, ctx, p, o, i)
  <2>1. ~\E k \in DOMAIN paths : TRUE BY <1>3
  <2>2. PICK p : Tells(p, i) /\ Waits(f, ctx, p, o, i) BY <1>5, <2>1 DEF ToldBy
  <2>3. f.op # "next" BY <1>2
  <2>4. Aside(f, ctx, p, o, i) BY <1>2, <2>2, <2>3, WaitsAside
  <2> QED BY <2>2, <2>4
<1>6. CASE f.rest = <<>>
  <2>1. paths' = f.done /\ Continue(<<>>) BY <1>1, <1>6
  <2> HIDE DEF f
  <2>2. ASSUME NEW i \in Input, NEW o, ToldBy(ctx, paths, f, o, i)
        PROVE  \E k \in DOMAIN paths' : Tells(paths'[k], i) /\ o = Point(paths'[k], i)
    <3>1. PICK p : Tells(p, i) /\ Aside(f, ctx, p, o, i) BY <1>5, <2>2
    <3>2. DOMAIN f.rest = {} BY <1>6
    <3>3. (\E k \in DOMAIN f.done : p = f.done[k]) /\ o = Point(p, i) BY <3>1, <3>2 DEF Aside
    <3> QED BY <2>1, <3>1, <3>3
  <2> QED BY <1>1, <2>1, <2>2, LeafRetold DEF f
<1>7. CASE f.rest # <<>>
  <2>1. paths' = <<first.path>> /\ Continue(<<g>>) BY <1>1, <1>7
  <2>2. /\ 1 \in DOMAIN f.rest /\ first = f.rest[1] /\ IsSeq(Tail(f.rest)) /\ f.rest = <<first>> \o Tail(f.rest)
    BY <1>2, <1>7, HeadAndTail
  <2>3. ASSUME NEW k \in DOMAIN f.rest, k # 1
        PROVE  \E l \in DOMAIN Tail(f.rest) : Tail(f.rest)[l] = f.rest[k]
    <3> DEFINE rest == f.rest
               rs == Tail(rest)
    <3>1. k \in 1 .. Len(rest) /\ rest = <<first>> \o rs /\ IsSeq(rs) BY <1>2, <2>2 DEF IsSeq
    <3> HIDE DEF rest, rs, first
    <3>2. IsSeq(<<first>>) /\ DOMAIN <<first>> = {1} /\ Len(<<first>>) = 1 BY SingletonIsSeq
    <3>3. k \in DOMAIN rest BY <2>3 DEF rest
    <3>4. Joined(rest, <<first>>, rs) BY <3>1, <3>2, ConcatenationJoins
    <3>5. k - 1 \in DOMAIN rs /\ rest[k] = rs[k - 1] BY <2>3, <3>2, <3>3, <3>4 DEF Joined
    <3> QED BY <3>5 DEF rest, rs
  <2> HIDE DEF f, g, first
  <2>4. ASSUME NEW i \in Input, NEW o, ToldBy(ctx, paths, f, o, i) PROVE ToldBy(ctx, paths', g, o, i)
    <3>1. PICK p : Tells(p, i) /\ Aside(f, ctx, p, o, i) BY <1>5, <2>4
    <3>2. CASE (\E k \in DOMAIN f.done : p = f.done[k]) /\ o = Point(p, i)
      <4>1. Aside(g, ctx, p, o, i) BY <1>4, <3>2 DEF Aside
      <4>2. Waits(g, ctx, p, o, i) BY <1>4, <4>1, WaitsAside
      <4> QED BY <3>1, <4>2 DEF ToldBy
    <3>3. ASSUME NEW k \in DOMAIN f.rest, p = f.rest[k].path,
                 Passes(CaseFrame("case", f.sw, 1, f.rest[k].val, <<>>, <<>>), ctx, Point(p, i), o, i)
          PROVE  ToldBy(ctx, paths', g, o, i)
      <4>1. CASE k = 1
        <5>1. p = first.path /\ 1 \in DOMAIN paths' /\ paths'[1] = p BY <2>1, <2>2, <3>3, <4>1
        <5> DEFINE h == CaseFrame("case", f.sw, 1, f.rest[k].val, <<>>, <<>>)
        <5>2. h.op = "case" /\ h.sw = f.sw /\ h.k = 1 /\ h.val = first.val
          BY <2>2, <4>1, CaseFrameIs
        <5>3. Passes(h, ctx, Point(p, i), o, i) BY <3>3
        <5> HIDE DEF h
        <5>4. Passes(g, ctx, Point(p, i), o, i) BY <1>4, <5>2, <5>3, CasePasses
        <5> QED BY <3>1, <5>1, <5>4 DEF ToldBy
      <4>2. CASE k # 1
        <5>1. PICK l \in DOMAIN g.rest : g.rest[l] = f.rest[k] BY <1>4, <2>3, <4>2
        <5>2. Aside(g, ctx, p, o, i) BY <1>4, <3>3, <5>1 DEF Aside
        <5>3. Waits(g, ctx, p, o, i) BY <1>4, <5>2, WaitsAside
        <5> QED BY <3>1, <5>3 DEF ToldBy
      <4> QED BY <4>1, <4>2
    <3> QED BY <3>1, <3>2, <3>3 DEF Aside
  <2> QED BY <1>1, <1>4, <2>1, <2>4, FrameRetold DEF f
<1> QED BY <1>6, <1>7

LEMMA SwitchTold ==
  Sound /\ BreaksInv /\ Inside(ctx, stack, prog) /\ SteppedAsC(prog) /\ StepSwitch => Retold
<1> SUFFICES ASSUME Sound, BreaksInv, Inside(ctx, stack, prog), SteppedAsC(prog), StepSwitch
             PROVE  Retold
  OBVIOUS
<1> DEFINE s == Stmt
           x == s.id
           e == s.cond
           qs == SetStmtCtx(paths, x)
           rest == [k \in DOMAIN qs |-> Eval(qs[k], e)[1]]
           f == [op |-> "partition", sw |-> s, done |-> <<>>, rest |-> rest]
           g == [op |-> "leave", prev |-> ctx]
<1>1. AtStmt("switch") /\ At("step") /\ Continue(<<f, g>>) /\ paths' = <<>> /\ ctx' = x
  BY DEF StepSwitch, AtStmt
<1>2. /\ SoundPaths(paths, Exact) /\ s \in Stmts(prog) /\ s.kind = "switch" /\ ~Restores(Head(stack))
      /\ prog \in Programs
  BY <1>1, StmtOnTop DEF AtStmt, At, Restores, Sound
<1>3. /\ g.op = "leave" /\ g.prev = ctx /\ Restores(g)
      /\ f.op = "partition" /\ f.sw = s /\ f.rest = rest /\ ~Restores(f)
  BY DEF Restores
<1>4. Breakable(s) /\ e.kind = "pure" /\ PlainLabels(s) BY <1>2 DEF Breakable, SteppedAsC
<1>5. x \in Nat \ {0} BY <1>2, <1>4, IdAssumption
<1>6. ASSUME NEW k \in DOMAIN qs
      PROVE  k \in DOMAIN rest /\ rest[k].path = qs[k] /\ rest[k].val = Value(qs[k], e)
  <2>1. Eval(qs[k], e) = <<[path |-> qs[k], val |-> Value(qs[k], e)]>> BY <1>4 DEF Eval
  <2>2. k \in DOMAIN rest /\ rest[k] = Eval(qs[k], e)[1] OBVIOUS
  <2> HIDE DEF rest, qs
  <2> QED BY <2>1, <2>2
<1>7. ASSUME NEW st \in CState, st.mode = "run", NEW i
      PROVE  Execute(Run, s, st, i) = Resume(Jump(s, 1, Apply(e, st.env), st, i))
  <2> DEFINE n == Apply(e, st.env)
             t == Target(s, n)
             R == RunAll(Run, ItemsFrom(s, CHOOSE j \in t : TRUE), st, i)
  <2>1. CEval(st.env, e) = [val |-> n, env |-> st.env] BY <1>4 DEF CEval
  <2>2. st = Running(st.env) BY <1>7, IsRunning
  <2>3. Execute(Run, s, st, i) = IF t = {} THEN st ELSE Resume(R)
    BY <1>2, <1>7, <2>1, <2>2 DEF Execute
  <2>4. Jump(s, 1, n, st, i) = IF t = {} THEN st ELSE R BY <1>2, <1>4, JumpIsSwitch
  <2>5. Resume(st) = st BY <1>7 DEF Resume
  <2> HIDE DEF t, R
  <2> QED BY <2>3, <2>4, <2>5
<1> HIDE DEF f, g, rest
<1>8. ASSUME NEW i \in Input, NEW o, ToldBy(ctx, paths, Head(stack), o, i)
      PROVE  Told(x, <<>>, <<f, g>>, o, i)
  <2>1. PICK k \in DOMAIN paths :
          /\ Tells(paths[k], i)
          /\ Avoids(Point(paths[k], i), Declared(s))
          /\ o = Stepped(Point(paths[k], i), Execute(Run, s, StateOf(paths[k], i), i), ctx)
          /\ ~IsActive(paths[k]) => o = Point(paths[k], i)
    BY <1>1, <1>8, ToldByStep
  <2>2. k \in DOMAIN qs /\ Tells(qs[k], i) /\ Point(qs[k], i) = Point(paths[k], i)
    BY <1>2, <2>1, SetCtxTells
  <2> DEFINE q == Point(paths[k], i)
             n == Apply(e, q.st.env)
             J == Jump(s, 1, n, q.st, i)
             m == Stepped(q, J, x)
             h == CaseFrame("case", s, 1, rest[k].val, <<>>, <<>>)
  <2>3. /\ IsPoint(q) /\ q.st = StateOf(paths[k], i) /\ q.st \in CState
        /\ (q.st.mode = "run" <=> IsActive(paths[k]))
    BY <2>1, PointIs DEF IsPoint, IsActive
  <2>4. Value(qs[k], e).val[i] = n
    <3>1. StateOf(qs[k], i) = q.st BY <2>2, PointIs
    <3> HIDE DEF q, qs
    <3> QED BY <3>1, ValueIs
  <2>5. ~IsActive(paths[k]) => q.mark # x BY <1>1, <1>4, <2>1, MarkedElsewhere
  <2>6. J \in CState BY <1>2, <1>4, <2>3, JumpTyped
  <2>7. Passes(h, x, q, m, i)
    <3>1. h.op = "case" /\ h.sw = s /\ h.k = 1 /\ h.val.val[i] = n
      <4>1. h.op = "case" /\ h.sw = s /\ h.k = 1 /\ h.val = rest[k].val BY CaseFrameIs
      <4>2. rest[k].val = Value(qs[k], e) BY <1>6, <2>2
      <4> HIDE DEF h, qs, n
      <4> QED BY <2>4, <4>1, <4>2
    <3> HIDE DEF h, s, q, n
    <3> QED BY <2>1, <3>1, CasePasses DEF q
  <2>8. Passes(g, x, m, o, i)
    <3>1. CASE IsActive(paths[k])
      <4>1. o = Stepped(q, Resume(J), ctx) BY <1>7, <2>1, <2>3, <3>1
      <4> HIDE DEF J, q
      <4>2. m = Marked(J, x) /\ o = Marked(Resume(J), ctx) BY <2>3, <3>1, <4>1, SteppedIs
      <4> HIDE DEF m, x
      <4> QED BY <1>3, <1>5, <2>6, <4>2, LeavePasses
    <3>2. CASE ~IsActive(paths[k])
      <4> HIDE DEF J, q
      <4>1. m = q /\ o = q BY <2>1, <2>3, <3>2, SteppedIs DEF q
      <4> HIDE DEF m, x
      <4> QED BY <1>3, <2>5, <3>2, <4>1 DEF Passes
    <3> QED BY <3>1, <3>2
  <2>9. Waits(f, x, qs[k], m, i)
    <3>1. k \in DOMAIN f.rest /\ f.rest[k].path = qs[k] BY <1>3, <1>6, <2>2
    <3>2. Passes(CaseFrame("case", f.sw, 1, f.rest[k].val, <<>>, <<>>), x, Point(qs[k], i), m, i)
      BY <1>3, <2>2, <2>7
    <3> HIDE DEF qs, m, x
    <3> QED BY <1>3, <3>1, <3>2 DEF Waits
  <2> HIDE DEF m, x, qs
  <2>10. ToldBy(x, <<>>, f, m, i) BY <2>2, <2>9 DEF ToldBy
  <2> QED BY <1>3, <2>8, <2>10, ToldTwo
<1> HIDE DEF x, s
<1>9. Replacing(<<f, g>>) BY <1>1, <1>8 DEF Replacing
<1> QED BY <1>1, <1>2, <1>3, <1>9, EnterRetold

-----------------------------------------------------------------------------
(* What is above a leave frame stays inside the statement that it leaves. *)

LEMMA InsideIs ==
  ASSUME NEW c, NEW st, NEW p
  PROVE  Inside(c, st, p) <=>
           \A j, k \in DOMAIN st : j < k /\ st[k].op = "leave" => Left(c, st, p, j, k)
BY DEF Inside, Left, Shallower

LEMMA InsideShift ==
  ASSUME NEW t, NEW fs, NEW st, TakesPlace(t, fs, st), NEW c, NEW d, NEW h,
         CtxBelow(c, st, 1, h), CtxBelow(d, fs, Len(fs), h),
         NEW p \in Programs, Inside(c, st, p), Inside(d, fs, p),
         \A j \in DOMAIN fs : NoDeeper(fs[j], st[1])
  PROVE  Inside(d, t, p)
<1> DEFINE n == Len(fs)
<1>1. n \in Nat /\ DOMAIN fs = 1 .. n /\ DOMAIN st = 1 .. Len(st) /\ Len(st) \in Nat /\ 1 \in DOMAIN st
      /\ DOMAIN t = 1 .. Len(t) /\ Len(t) \in Nat
  BY PlaceLength DEF TakesPlace
<1>2. \A k \in DOMAIN t : k \in DOMAIN fs => t[k] = fs[k] BY <1>1 DEF TakesPlace
<1>3. \A k \in DOMAIN t : k \notin DOMAIN fs => k + 1 - n \in DOMAIN st /\ k + 1 - n # 1 /\ t[k] = st[k + 1 - n]
  BY <1>1 DEF TakesPlace
<1>4. ASSUME NEW j \in DOMAIN t, NEW k \in DOMAIN t, j < k, t[k].op = "leave"
      PROVE  Left(d, t, p, j, k)
  <2>1. CASE k \in DOMAIN fs
    <3>1. j \in DOMAIN fs /\ t[j] = fs[j] /\ t[k] = fs[k] BY <1>1, <1>2, <1>4, <2>1
    <3>2. Left(d, fs, p, j, k) BY <1>4, <2>1, <3>1, InsideIs
    <3>3. PICK u \in Stmts(p) :
            Breakable(u) /\ CtxBelow(d, fs, k - 1, u.id) /\ Shallower(fs[j], Depth(u))
      BY <3>2 DEF Left
    <3>4. k - 1 \in Nat /\ \A l \in 1 .. k - 1 : l \in DOMAIN t /\ l \in DOMAIN fs BY <1>1, <2>1
    <3>5. CtxBelow(d, t, k - 1, u.id) BY <1>2, <3>3, <3>4, CtxPrefix
    <3> QED BY <3>1, <3>3, <3>5 DEF Left
  <2>2. CASE k \notin DOMAIN fs
    <3> DEFINE m == k + 1 - n
    <3>1. m \in DOMAIN st /\ m # 1 /\ t[k] = st[m] BY <1>3, <2>2
    <3>2. m - 2 + n = k - 1 /\ m > 1 BY <1>1, <3>1
    <3> HIDE DEF m
    <3>3. ASSUME NEW u \in Stmts(p), CtxBelow(c, st, m - 1, u.id)
          PROVE  CtxBelow(d, t, k - 1, u.id)
      <4>1. CtxBelow(d, t, m - 2 + n, u.id) BY <3>1, <3>3, CtxShift
      <4> QED BY <3>2, <4>1
    <3>4. CASE j \in DOMAIN fs
      <4>1. Left(c, st, p, 1, m) BY <1>1, <1>4, <3>1, <3>2, InsideIs
      <4>2. PICK u \in Stmts(p) :
              Breakable(u) /\ CtxBelow(c, st, m - 1, u.id) /\ Shallower(st[1], Depth(u))
        BY <4>1 DEF Left
      <4>3. Depth(u) \in Nat BY DepthAssumption
      <4>4. Shallower(t[j], Depth(u)) BY <1>2, <3>4, <4>2, <4>3 DEF NoDeeper
      <4> QED BY <3>3, <4>2, <4>4 DEF Left
    <3>5. CASE j \notin DOMAIN fs
      <4> DEFINE l == j + 1 - n
      <4>1. l \in DOMAIN st /\ t[j] = st[l] BY <1>3, <3>5
      <4>2. l < m BY <1>1, <1>4 DEF m
      <4> HIDE DEF l
      <4>3. Left(c, st, p, l, m) BY <1>4, <3>1, <4>1, <4>2, InsideIs
      <4>4. PICK u \in Stmts(p) :
              Breakable(u) /\ CtxBelow(c, st, m - 1, u.id) /\ Shallower(st[l], Depth(u))
        BY <4>3 DEF Left
      <4> QED BY <3>3, <4>1, <4>4 DEF Left
    <3> QED BY <3>4, <3>5
  <2> QED BY <2>1, <2>2
<1> QED BY <1>4, InsideIs

(* The frames fs take the place of the frame on top of the stack. *)
LEMMA InsideNext ==
  ASSUME Sound, stack # <<>>, prog' = prog, Inside(ctx, stack, prog),
         NEW fs, IsSeq(fs), Continue(fs), NEW h,
         IF Restores(Head(stack)) THEN h = Head(stack).prev ELSE h = ctx,
         CtxBelow(ctx', fs, Len(fs), h), Inside(ctx', fs, prog),
         \A k \in DOMAIN fs : NoDeeper(fs[k], Head(stack))
  PROVE  Inside(ctx', stack', prog')
<1>1. IsSeq(stack) /\ prog \in Programs BY DEF Sound, SoundState, SoundStack
<1>2. TakesPlace(fs \o Tail(stack), fs, stack) /\ Head(stack) = stack[1]
  BY <1>1, PlaceTaken, HeadAndTail
<1>3. CtxBelow(ctx, stack, 1, h)
  <2>1. \A j \in 1 .. 1 : j = 1 OBVIOUS
  <2>2. 1 \in 1 .. 1 /\ 1 + 1 .. 1 = {} OBVIOUS
  <2> QED BY <1>2, <2>1, <2>2 DEF CtxBelow
<1> DEFINE t == fs \o Tail(stack)
<1>4. stack' = t BY DEF Continue
<1> HIDE DEF t
<1>5. TakesPlace(t, fs, stack) /\ \A k \in DOMAIN fs : NoDeeper(fs[k], stack[1]) BY <1>2 DEF t
<1>6. Inside(ctx', t, prog) BY <1>1, <1>3, <1>5, InsideShift
<1> QED BY <1>4, <1>6

(* Frames that change no context. *)
LEMMA InsidePlain ==
  ASSUME Sound, NEW op, At(op), op \notin {"leave", "else", "join"}, prog' = prog, ctx' = ctx,
         Inside(ctx, stack, prog), NEW fs, IsSeq(fs), Continue(fs),
         \A k \in DOMAIN fs : ~Restores(fs[k]) /\ NoDeeper(fs[k], Head(stack))
  PROVE  Inside(ctx', stack', prog')
<1>1. stack # <<>> /\ ~Restores(Head(stack)) BY OnTop DEF Restores
<1>2. CtxBelow(ctx', fs, Len(fs), ctx)
  <2>1. Len(fs) \in Nat /\ DOMAIN fs = 1 .. Len(fs) BY DEF IsSeq
  <2> QED BY <2>1, CtxStays
<1>3. Inside(ctx', fs, prog) BY DEF Inside, Restores
<1> QED BY <1>1, <1>2, <1>3, InsideNext

LEMMA InsideLeaf ==
  ASSUME Sound, NEW op, At(op), op \notin {"leave", "else", "join"}, prog' = prog, ctx' = ctx,
         Inside(ctx, stack, prog), Continue(<<>>)
  PROVE  Inside(ctx', stack', prog')
<1> DEFINE fs == <<>>
<1>1. IsSeq(fs) /\ Continue(fs) /\ DOMAIN fs = {} BY EmptyIsSeq
<1> HIDE DEF fs
<1> QED BY <1>1, InsidePlain

LEMMA InsideOne ==
  ASSUME Sound, NEW op, At(op), op \notin {"leave", "else", "join"}, prog' = prog, ctx' = ctx,
         Inside(ctx, stack, prog), NEW g, Continue(<<g>>), ~Restores(g), NoDeeper(g, Head(stack))
  PROVE  Inside(ctx', stack', prog')
<1> DEFINE fs == <<g>>
<1>1. IsSeq(fs) /\ Continue(fs) /\ DOMAIN fs = {1} /\ fs[1] = g BY SingletonIsSeq
<1> HIDE DEF fs
<1> QED BY <1>1, InsidePlain

(* Statements in a row, and a frame behind them. *)
LEMMA InsideRow ==
  ASSUME Sound, NEW op, At(op), op \notin {"leave", "else", "join"}, prog' = prog, ctx' = ctx,
         Inside(ctx, stack, prog), NEW ss, IsSeq(ss), NEW g, Continue(StepFrames(ss) \o <<g>>),
         ~Restores(g), NoDeeper(g, Head(stack)),
         \A n \in Nat : Shallower(Head(stack), n) => \A k \in DOMAIN ss : Depth(ss[k]) < n
  PROVE  Inside(ctx', stack', prog')
<1> DEFINE a == StepFrames(ss)
           b == <<g>>
           fs == a \o b
<1>1. /\ IsSeq(a) /\ DOMAIN a = DOMAIN ss
      /\ \A k \in DOMAIN ss : a[k].op = "step" /\ a[k].s = ss[k]
  BY StepFramesAre
<1>2. IsSeq(b) /\ DOMAIN b = {1} /\ b[1] = g BY SingletonIsSeq
<1>3. Continue(fs) OBVIOUS
<1> HIDE DEF a, b
<1>4. Joined(fs, a, b) BY <1>1, <1>2, ConcatenationJoins
<1> HIDE DEF fs
<1>5. ASSUME NEW k \in DOMAIN fs PROVE ~Restores(fs[k]) /\ NoDeeper(fs[k], Head(stack))
  <2>1. CASE k \in DOMAIN a
    <3>1. fs[k] = a[k] /\ k \in DOMAIN ss BY <1>1, <1>4, <2>1 DEF Joined
    <3>2. fs[k].op = "step" /\ fs[k].s = ss[k] BY <1>1, <3>1
    <3>3. Pending(fs[k]) = {ss[k]} /\ ~Restores(fs[k]) BY <3>2 DEF Pending, Restores
    <3> QED BY <3>1, <3>3 DEF NoDeeper, Shallower
  <2>2. CASE k - Len(a) \in DOMAIN b /\ fs[k] = b[k - Len(a)] BY <1>2, <2>2
  <2> QED BY <1>4, <2>1, <2>2 DEF Joined
<1>6. IsSeq(fs) BY <1>4 DEF Joined
<1> QED BY <1>3, <1>5, <1>6, InsidePlain

(* Two frames, the second of which gives the context back. *)
LEMMA InsideTwo ==
  ASSUME Sound, NEW op, At(op), prog' = prog, Inside(ctx, stack, prog), NEW f, NEW g, NEW h,
         Continue(<<f, g>>), IF Restores(Head(stack)) THEN h = Head(stack).prev ELSE h = ctx,
         Restores(g), g.prev = h, ~Restores(f),
         NoDeeper(f, Head(stack)), NoDeeper(g, Head(stack)),
         g.op = "leave" => \E t \in Stmts(prog) :
                             Breakable(t) /\ ctx' = t.id /\ Shallower(f, Depth(t))
  PROVE  Inside(ctx', stack', prog')
<1> DEFINE fs == <<f, g>>
<1>1. IsSeq(fs) /\ DOMAIN fs = {1, 2} /\ Len(fs) = 2 /\ fs[1] = f /\ fs[2] = g /\ Continue(fs)
  BY DEF IsSeq
<1> HIDE DEF fs
<1>2. CtxBelow(ctx', fs, Len(fs), h)
  <2>1. 2 \in 1 .. 2 /\ 2 + 1 .. 2 = {} OBVIOUS
  <2> QED BY <1>1, <2>1 DEF CtxBelow
<1>3. ASSUME NEW j \in DOMAIN fs, NEW k \in DOMAIN fs, j < k, fs[k].op = "leave"
      PROVE  Left(ctx', fs, prog, j, k)
  <2>1. j = 1 /\ k = 2 BY <1>1, <1>3
  <2>2. PICK t \in Stmts(prog) : Breakable(t) /\ ctx' = t.id /\ Shallower(f, Depth(t))
    BY <1>1, <1>3, <2>1
  <2>3. CtxBelow(ctx', fs, 1, ctx')
    <3>1. \A l \in 1 .. 1 : fs[l] = f BY <1>1
    <3> QED BY <3>1, CtxStays
  <2>4. k - 1 = 1 BY <2>1
  <2> QED BY <1>1, <2>1, <2>2, <2>3, <2>4 DEF Left
<1>4. Inside(ctx', fs, prog) BY <1>3, InsideIs
<1>5. stack # <<>> BY OnTop
<1> QED BY <1>1, <1>2, <1>4, <1>5, InsideNext

LEMMA InsideExit ==
  ASSUME Sound, NEW op, At(op), op \in {"leave", "join"}, prog' = prog, ctx' = Head(stack).prev,
         Inside(ctx, stack, prog), Continue(<<>>)
  PROVE  Inside(ctx', stack', prog')
<1> DEFINE fs == <<>>
<1>1. IsSeq(fs) /\ Len(fs) = 0 /\ Continue(fs) /\ DOMAIN fs = {} BY EmptyIsSeq
<1>2. stack # <<>> /\ Restores(Head(stack)) BY OnTop DEF Restores
<1> HIDE DEF fs
<1>3. CtxBelow(ctx', fs, Len(fs), ctx') BY <1>1, CtxTop
<1>4. Inside(ctx', fs, prog) BY <1>1 DEF Inside
<1> QED BY <1>1, <1>2, <1>3, <1>4, InsideNext

LEMMA PendingIs ==
  ASSUME NEW f
  PROVE  /\ f.op = "step" => Pending(f) = {f.s}
         /\ f.op = "else" => Pending(f) = {f.s.else}
         /\ f.op \in {"cleanup", "leave", "join"} => Pending(f) = {}
         /\ f.op \in {"partition", "case", "next", "default"} =>
              Pending(f) = {f.sw.items[k].s : k \in DOMAIN f.sw.items}
BY DEF Pending

LEMMA NothingDeeper ==
  ASSUME NEW f, NEW h, Pending(f) \subseteq Pending(h)
  PROVE  NoDeeper(f, h)
BY DEF NoDeeper, Shallower

(* What is inside the statement on top of the stack. *)
LEMMA ChildDeeper ==
  ASSUME Sound, NEW kind, AtStmt(kind)
  PROVE  /\ Stmt \in Stmts(prog) /\ prog \in Programs /\ Depth(Stmt) \in Nat
         /\ \A n \in Nat : Shallower(Head(stack), n) => \A t \in Children(Stmt) : Depth(t) < n
         /\ \A f : Pending(f) \subseteq Children(Stmt) =>
              NoDeeper(f, Head(stack)) /\ Shallower(f, Depth(Stmt))
<1>1. /\ Stmt \in Stmts(prog) /\ Head(stack).op = "step" /\ prog \in Programs
  BY StmtOnTop DEF AtStmt, At, Sound
<1>2. Stmt \in Statements BY <1>1 DEF Statements
<1>3. Depth(Stmt) \in Nat /\ \A t \in Children(Stmt) : Depth(t) \in Nat /\ Depth(t) < Depth(Stmt)
  BY <1>2, StatementsAre
<1>4. Pending(Head(stack)) = {Stmt} BY <1>1, PendingIs DEF Stmt
<1>5. ASSUME NEW n \in Nat, Shallower(Head(stack), n), NEW t \in Children(Stmt)
      PROVE  Depth(t) < n
  <2>1. Depth(Stmt) < n BY <1>4, <1>5 DEF Shallower
  <2> QED BY <1>3, <2>1
<1>6. ASSUME NEW f, Pending(f) \subseteq Children(Stmt)
      PROVE  NoDeeper(f, Head(stack)) /\ Shallower(f, Depth(Stmt))
  <2>1. NoDeeper(f, Head(stack)) BY <1>5, <1>6 DEF NoDeeper, Shallower
  <2>2. Shallower(f, Depth(Stmt)) BY <1>3, <1>6 DEF Shallower
  <2> QED BY <2>1, <2>2
<1> QED BY <1>1, <1>3, <1>5, <1>6

LEMMA LeafInside ==
  Sound /\ Enclosing /\ (StepExpr \/ UpdateVarState \/ AddNewDecls \/ StepReturn \/ StepBreak \/ StepNull \/ StepCleanup)
    => Enclosing'
<1> SUFFICES ASSUME Sound, Enclosing,
                    StepExpr \/ UpdateVarState \/ AddNewDecls \/ StepReturn \/ StepBreak \/ StepNull \/ StepCleanup
             PROVE  Enclosing'
  OBVIOUS
<1>1. (At("step") \/ At("cleanup")) /\ prog' = prog /\ ctx' = ctx /\ Continue(<<>>)
  BY DEF StepExpr, UpdateVarState, AddNewDecls, StepReturn, StepBreak, StepNull, StepCleanup,
     AtStmt, Quiet
<1>2. "step" \notin {"leave", "else", "join"} /\ "cleanup" \notin {"leave", "else", "join"} OBVIOUS
<1> QED BY <1>1, <1>2, InsideLeaf DEF Enclosing

LEMMA CompoundInside == Sound /\ Enclosing /\ StepCompound => Enclosing'
<1> SUFFICES ASSUME Sound, Enclosing, StepCompound PROVE Enclosing' OBVIOUS
<1> DEFINE ss == Stmt.body
           g == [op |-> "cleanup", locals |-> LocalsOf(Stmt)]
<1>1. /\ AtStmt("compound") /\ At("step") /\ prog' = prog /\ ctx' = ctx
      /\ Continue(StepFrames(ss) \o <<g>>)
  BY DEF StepCompound, AtStmt, Quiet
<1>2. Stmt.kind = "compound" /\ ss \in Seq(Stmts(prog)) BY <1>1, StmtOnTop DEF IsStmt
<1>3. IsSeq(ss) /\ \A k \in DOMAIN ss : ss[k] \in Children(Stmt) BY <1>2, SeqIs DEF Children
<1>4. g.op = "cleanup" OBVIOUS
<1> HIDE DEF g, ss
<1>5. ~Restores(g) /\ NoDeeper(g, Head(stack)) BY <1>4, PendingIs DEF Restores, NoDeeper, Shallower
<1>6. \A n \in Nat : Shallower(Head(stack), n) => \A k \in DOMAIN ss : Depth(ss[k]) < n
  BY <1>1, <1>3, ChildDeeper
<1>7. "step" \notin {"leave", "else", "join"} OBVIOUS
<1> QED BY <1>1, <1>3, <1>5, <1>6, <1>7, InsideRow DEF Enclosing

LEMMA IfInside == Sound /\ Enclosing /\ StepIf => Enclosing'
<1> SUFFICES ASSUME Sound, Enclosing, StepIf PROVE Enclosing' OBVIOUS
<1> DEFINE f == StepFrame(Stmt.then)
           g == [op |-> "else", s |-> Stmt, prev |-> ctx, active |-> Those(paths, IsActive),
                 inactive |-> Those(paths, LAMBDA p : ~IsActive(p))]
<1>1. AtStmt("if") /\ At("step") /\ prog' = prog /\ Continue(<<f, g>>) BY DEF StepIf, AtStmt, Quiet
<1>2. /\ Stmt.kind = "if" /\ ~Restores(Head(stack))
      /\ f.op = "step" /\ f.s = Stmt.then /\ g.op = "else" /\ g.s = Stmt /\ g.prev = ctx
  BY <1>1, StmtOnTop DEF AtStmt, At, Restores, StepFrame
<1> HIDE DEF f, g
<1>3. Pending(f) \subseteq Children(Stmt) /\ Pending(g) \subseteq Children(Stmt)
  BY <1>2, PendingIs DEF Children
<1>4. Restores(g) /\ ~Restores(f) BY <1>2 DEF Restores
<1>5. NoDeeper(f, Head(stack)) /\ NoDeeper(g, Head(stack)) BY <1>1, <1>3, ChildDeeper
<1> QED BY <1>1, <1>2, <1>4, <1>5, InsideTwo DEF Enclosing

LEMMA ElseInside == Sound /\ Enclosing /\ StepElse => Enclosing'
<1> SUFFICES ASSUME Sound, Enclosing, StepElse PROVE Enclosing' OBVIOUS
<1> DEFINE h == Head(stack)
           f == StepFrame(h.s.else)
           g == [op |-> "join", prev |-> h.prev, then |-> paths, inactive |-> h.inactive]
<1>1. At("else") /\ prog' = prog /\ Continue(<<f, g>>) BY DEF StepElse, Quiet
<1>2. /\ h.op = "else" /\ Restores(h)
      /\ f.op = "step" /\ f.s = h.s.else /\ g.op = "join" /\ g.prev = h.prev
  BY <1>1, OnTop DEF Restores, StepFrame
<1> HIDE DEF f, g, h
<1>3. Pending(f) \subseteq Pending(h) /\ Pending(g) = {} BY <1>2, PendingIs
<1>4. Restores(g) /\ ~Restores(f) BY <1>2 DEF Restores
<1>5. NoDeeper(f, h) /\ NoDeeper(g, h) BY <1>3, NothingDeeper
<1> QED BY <1>1, <1>2, <1>4, <1>5, InsideTwo DEF Enclosing, h

LEMMA DoInside == Sound /\ Enclosing /\ StepDo => Enclosing'
<1> SUFFICES ASSUME Sound, Enclosing, StepDo PROVE Enclosing' OBVIOUS
<1> DEFINE f == StepFrame(Stmt.body)
           g == [op |-> "leave", prev |-> ctx]
<1>1. AtStmt("do") /\ At("step") /\ prog' = prog /\ Continue(<<f, g>>) /\ ctx' = Stmt.id
  BY DEF StepDo, AtStmt, Quiet
<1>2. /\ Stmt.kind = "do" /\ ~Restores(Head(stack))
      /\ f.op = "step" /\ f.s = Stmt.body /\ g.op = "leave" /\ g.prev = ctx
  BY <1>1, StmtOnTop DEF AtStmt, At, Restores, StepFrame
<1> HIDE DEF f, g
<1>3. Pending(f) \subseteq Children(Stmt) /\ Pending(g) = {} /\ Breakable(Stmt)
  BY <1>2, PendingIs DEF Children, Breakable
<1>4. Restores(g) /\ ~Restores(f) BY <1>2 DEF Restores
<1>5. NoDeeper(f, Head(stack)) /\ NoDeeper(g, Head(stack)) /\ Shallower(f, Depth(Stmt))
      /\ Stmt \in Stmts(prog)
  BY <1>1, <1>3, ChildDeeper
<1> QED BY <1>1, <1>2, <1>3, <1>4, <1>5, InsideTwo DEF Enclosing

LEMMA SwitchInside == Sound /\ Enclosing /\ StepSwitch => Enclosing'
<1> SUFFICES ASSUME Sound, Enclosing, StepSwitch PROVE Enclosing' OBVIOUS
<1> DEFINE ps == SetStmtCtx(paths, Stmt.id)
           f == [op |-> "partition", sw |-> Stmt, done |-> <<>>,
                 rest |-> [k \in DOMAIN ps |-> Eval(ps[k], Stmt.cond)[1]]]
           g == [op |-> "leave", prev |-> ctx]
<1>1. AtStmt("switch") /\ At("step") /\ prog' = prog /\ Continue(<<f, g>>) /\ ctx' = Stmt.id
  BY DEF StepSwitch, AtStmt, Quiet
<1>2. /\ Stmt.kind = "switch" /\ ~Restores(Head(stack))
      /\ f.op = "partition" /\ f.sw = Stmt /\ g.op = "leave" /\ g.prev = ctx
  BY <1>1, StmtOnTop DEF AtStmt, At, Restores
<1> HIDE DEF f, g
<1>3. Pending(f) \subseteq Children(Stmt) /\ Pending(g) = {} /\ Breakable(Stmt)
  BY <1>2, PendingIs DEF Children, Breakable
<1>4. Restores(g) /\ ~Restores(f) BY <1>2 DEF Restores
<1>5. NoDeeper(f, Head(stack)) /\ NoDeeper(g, Head(stack)) /\ Shallower(f, Depth(Stmt))
      /\ Stmt \in Stmts(prog)
  BY <1>1, <1>3, ChildDeeper
<1> QED BY <1>1, <1>2, <1>3, <1>4, <1>5, InsideTwo DEF Enclosing

LEMMA ExitInside == Sound /\ Enclosing /\ (StepJoin \/ StepLeave) => Enclosing'
<1> SUFFICES ASSUME Sound, Enclosing, StepJoin \/ StepLeave PROVE Enclosing' OBVIOUS
<1>1. (At("join") \/ At("leave")) /\ prog' = prog /\ ctx' = Head(stack).prev /\ Continue(<<>>)
  BY DEF StepJoin, StepLeave, Quiet
<1>2. "join" \in {"leave", "join"} /\ "leave" \in {"leave", "join"} OBVIOUS
<1> QED BY <1>1, <1>2, InsideExit DEF Enclosing

(* A frame of the same switch statement takes the place of another. *)
LEMMA SwitchFrameInside ==
  ASSUME Sound, Enclosing, NEW op \in {"partition", "case", "next", "default"}, At(op),
         prog' = prog, ctx' = ctx, NEW g, Continue(<<g>>),
         g.op \in {"partition", "case", "next", "default"}, g.sw = Head(stack).sw
  PROVE  Enclosing'
<1>1. Head(stack).op \in {"partition", "case", "next", "default"} BY OnTop
<1>2. Pending(g) \subseteq Pending(Head(stack)) /\ ~Restores(g) BY <1>1, PendingIs DEF Restores
<1>3. NoDeeper(g, Head(stack)) /\ op \notin {"leave", "else", "join"} BY <1>2, NothingDeeper
<1> QED BY <1>2, <1>3, InsideOne DEF Enclosing

LEMMA PartitionInside == Sound /\ Enclosing /\ NextPartition => Enclosing'
<1> SUFFICES ASSUME Sound, Enclosing, NextPartition PROVE Enclosing' OBVIOUS
<1> DEFINE f == Head(stack)
           g == CaseFrame("case", f.sw, 1, Head(f.rest).val, Tail(f.rest), f.done)
<1>1. /\ At("partition") /\ prog' = prog /\ ctx' = ctx /\ (Continue(<<>>) \/ Continue(<<g>>))
  BY DEF NextPartition, Quiet
<1>2. g.op = "case" /\ g.sw = f.sw BY CaseFrameIs
<1> HIDE DEF g
<1>3. "partition" \notin {"leave", "else", "join"} /\ "partition" \in {"partition", "case", "next", "default"}
  OBVIOUS
<1>4. g.op \in {"partition", "case", "next", "default"} BY <1>2
<1>5. CASE Continue(<<>>) BY <1>1, <1>3, <1>5, InsideLeaf DEF Enclosing, NextPartition, Quiet
<1>6. CASE Continue(<<g>>)
  BY <1>1, <1>2, <1>3, <1>4, <1>6, SwitchFrameInside DEF NextPartition, Quiet
<1> QED BY <1>1, <1>5, <1>6

LEMMA EndInside == Sound /\ Enclosing /\ (EndCase \/ EndDefault \/ EndCases) => Enclosing'
<1> SUFFICES ASSUME Sound, Enclosing, EndCase \/ EndDefault \/ EndCases PROVE Enclosing' OBVIOUS
<1> DEFINE Ops == {"partition", "case", "next", "default"}
<1>1. /\ \E op \in Ops : At(op)
      /\ prog' = prog /\ ctx' = ctx
      /\ \E g : Continue(<<g>>) /\ g.op \in Ops /\ g.sw = Head(stack).sw
  <2>1. CASE EndCase
    <3>1. \E k, done : Continue(<<CaseFrame("case", Head(stack).sw, k, Head(stack).val, Head(stack).rest, done)>>)
      BY <2>1 DEF EndCase
    <3> QED BY <2>1, <3>1, CaseFrameIs DEF EndCase, Quiet
  <2>2. CASE EndDefault
    <3>1. \E k, done : Continue(<<CaseFrame("case", Head(stack).sw, k, Head(stack).val, Head(stack).rest, done)>>)
      BY <2>2 DEF EndDefault
    <3> QED BY <2>2, <3>1, CaseFrameIs DEF EndDefault, Quiet
  <2>3. CASE EndCases
    <3>1. \A f, done : Partition(f, done).op = "partition" /\ Partition(f, done).sw = f.sw
      BY DEF Partition
    <3> QED BY <2>3, <3>1 DEF EndCases, Quiet
  <2> QED BY <2>1, <2>2, <2>3
<1> QED BY <1>1, SwitchFrameInside

(* The statements of a block. *)
LEMMA BlockInside ==
  ASSUME Sound, SteppedAsC(prog), Enclosing, At("case"), prog' = prog, ctx' = ctx,
         Head(stack).k \in DOMAIN CaseBlocks(Head(stack).sw),
         NEW g, Continue(StepFrames(CaseBlocks(Head(stack).sw)[Head(stack).k].body) \o <<g>>),
         g.op \in {"next", "default"}, g.sw = Head(stack).sw
  PROVE  Enclosing'
<1> DEFINE f == Head(stack)
           sw == f.sw
           ss == CaseBlocks(sw)[f.k].body
<1>1. /\ prog \in Programs /\ sw \in Stmts(prog) /\ sw.kind = "switch" /\ PlainLabels(sw) /\ f.op = "case"
      /\ f.k \in DOMAIN CaseBlocks(sw)
  BY CaseIs
<1>2. /\ Continue(StepFrames(ss) \o <<g>>) /\ g.sw = sw OBVIOUS
<1>3. PICK j, l : BlockAt(sw, f.k, j, l) BY <1>1, BlocksAre
<1>4. j \in DOMAIN sw.items /\ ss = ItemsFrom(sw, j) BY <1>3 DEF BlockAt
<1> HIDE DEF f, sw, ss
<1>5. IsSeq(ss) /\ \A k \in DOMAIN ss : ss[k] \in Children(sw) BY <1>1, <1>4, BodiesAre
<1>6. Pending(f) = Children(sw) /\ Pending(g) = Children(sw)
  BY <1>1, <1>2, PendingIs DEF Children, sw
<1>7. NoDeeper(g, f) /\ ~Restores(g) BY <1>6, NothingDeeper DEF Restores
<1>8. \A n \in Nat : Shallower(f, n) => \A k \in DOMAIN ss : Depth(ss[k]) < n
  BY <1>5, <1>6 DEF Shallower
<1>9. "case" \notin {"leave", "else", "join"} OBVIOUS
<1> QED BY <1>2, <1>5, <1>7, <1>8, <1>9, InsideRow DEF Enclosing, f

LEMMA CaseInside == Sound /\ SteppedAsC(prog) /\ Enclosing /\ (StepCase \/ StepDefault) => Enclosing'
<1> SUFFICES ASSUME Sound, SteppedAsC(prog), Enclosing, StepCase \/ StepDefault PROVE Enclosing'
  OBVIOUS
<1>1. At("case") /\ prog' = prog /\ ctx' = ctx /\ Head(stack).k <= Len(CaseBlocks(Head(stack).sw))
  BY DEF StepCase, StepDefault, Quiet
<1>2. Head(stack).k \in DOMAIN CaseBlocks(Head(stack).sw) BY <1>1, CaseIs
<1>3. \E g : /\ Continue(StepFrames(CaseBlocks(Head(stack).sw)[Head(stack).k].body) \o <<g>>)
             /\ g.op \in {"next", "default"} /\ g.sw = Head(stack).sw
  <2>1. CASE StepCase BY <2>1 DEF StepCase
  <2>2. CASE StepDefault
    <3>1. Continue(StepFrames(CaseBlocks(Head(stack).sw)[Head(stack).k].body)
                     \o <<CaseFrame("default", Head(stack).sw, Head(stack).k, Head(stack).val,
                                    Head(stack).rest, Head(stack).done)>>)
      BY <2>2 DEF StepDefault
    <3> QED BY <3>1, CaseFrameIs
  <2> QED BY <2>1, <2>2
<1> QED BY <1>1, <1>2, <1>3, BlockInside

-----------------------------------------------------------------------------
(* Every step keeps what is told. *)

LEMMA StepInside == Sound /\ SteppedAsC(prog) /\ Enclosing /\ [Next]_vars => Enclosing'
<1> SUFFICES ASSUME Sound, SteppedAsC(prog), Enclosing, [Next]_vars PROVE Enclosing' OBVIOUS
<1>1. CASE StepContinue \/ StepSwitchAborts \/ StepCtxAsserts
  BY <1>1 DEF StepContinue, StepSwitchAborts, StepCtxAsserts, Abort, Enclosing
<1>2. CASE UNCHANGED vars BY <1>2 DEF vars, Enclosing
<1> QED
  BY <1>1, <1>2, LeafInside, CompoundInside, IfInside, ElseInside, ExitInside, DoInside,
     SwitchInside, PartitionInside, CaseInside, EndInside DEF Next

LEMMA StepTold ==
  Sound /\ BreaksInv /\ Enclosing /\ SteppedAsC(prog) /\ ~aborted' /\ [Next]_vars => Retold
<1> SUFFICES ASSUME Sound, BreaksInv, Enclosing, SteppedAsC(prog), ~aborted', [Next]_vars PROVE Retold
  OBVIOUS
<1>1. CASE StepContinue \/ StepSwitchAborts \/ StepCtxAsserts
  BY <1>1 DEF StepContinue, StepSwitchAborts, StepCtxAsserts, Abort
<1>2. CASE UNCHANGED vars BY <1>2 DEF vars, Retold
<1>3. Inside(ctx, stack, prog) BY DEF Enclosing
<1> QED
  BY <1>1, <1>2, <1>3, ExprTold, AssignTold, DeclTold, ReturnTold, BreakTold, NullTold,
     CompoundTold, CleanupTold, IfTold, ElseTold, JoinTold, DoTold, LeaveTold, SwitchTold,
     PartitionTold, CaseTold, EndCaseTold, DefaultTold, EndDefaultTold, EndCasesTold DEF Next

(* An abort is for ever, and the function that is analyzed is the same. *)
LEMMA NextKeeps == [Next]_vars => prog' = prog /\ (aborted => aborted')
<1> SUFFICES ASSUME [Next]_vars PROVE prog' = prog /\ (aborted => aborted') OBVIOUS
<1>1. CASE UNCHANGED vars BY <1>1 DEF vars
<1>2. StepExpr => Quiet BY DEF StepExpr
<1>3. UpdateVarState => Quiet BY DEF UpdateVarState
<1>4. AddNewDecls => Quiet BY DEF AddNewDecls
<1>5. StepReturn => Quiet BY DEF StepReturn
<1>6. StepBreak => Quiet BY DEF StepBreak
<1>7. StepNull => Quiet BY DEF StepNull
<1>8. StepCompound => Quiet BY DEF StepCompound
<1>9. StepCleanup => Quiet BY DEF StepCleanup
<1>10. StepIf => Quiet BY DEF StepIf
<1>11. StepElse => Quiet BY DEF StepElse
<1>12. StepJoin => Quiet BY DEF StepJoin
<1>13. StepDo => Quiet BY DEF StepDo
<1>14. StepLeave => Quiet BY DEF StepLeave
<1>15. StepSwitch => Quiet BY DEF StepSwitch
<1>16. NextPartition => Quiet BY DEF NextPartition
<1>17. StepCase => Quiet BY DEF StepCase
<1>18. EndCase => Quiet BY DEF EndCase
<1>19. StepDefault => Quiet BY DEF StepDefault
<1>20. EndDefault => Quiet BY DEF EndDefault
<1>21. EndCases => Quiet BY DEF EndCases
<1>22. StepContinue \/ StepSwitchAborts \/ StepCtxAsserts => Abort
  BY DEF StepContinue, StepSwitchAborts, StepCtxAsserts
<1>23. Quiet \/ Abort => prog' = prog /\ (aborted => aborted') BY DEF Quiet, Abort
<1> QED BY <1>1, <1>2, <1>3, <1>4, <1>5, <1>6, <1>7, <1>8, <1>9, <1>10, <1>11,
     <1>12, <1>13, <1>14, <1>15, <1>16, <1>17, <1>18, <1>19, <1>20, <1>21, <1>22, <1>23
  DEF Next

(* The one path at the start tells the whole execution. *)
LEMMA InitTold ==
  ASSUME Init, NEW i \in Input
  PROVE  \E r : r.st = Run[prog][Start(i)][i] /\ Told(ctx, paths, stack, r, i)
<1> DEFINE env == [v \in Var \ Local |-> Symbol(v)]
           p == [state |-> "Step", ctx |-> 0, conds |-> {}, ret |-> {}, env |-> env]
           f == StepFrame(prog)
           q == Point(p, i)
           R == Run[prog][q.st][i]
           r == Stepped(q, R, ctx)
<1>1. paths = <<p>> /\ stack = <<f>> /\ prog \in Programs /\ prog \in Stmts(prog)
  BY ProgramsAssumption DEF Init
<1>2. StateOf(p, i) = Start(i)
  <2>1. DOMAIN env = Var \ Local /\ \A v \in Var \ Local : env[v].val[i] = i[v] BY DEF Symbol
  <2>2. p.state = "Step" /\ p.env = env /\ p.ret = {} OBVIOUS
  <2> HIDE DEF p, env
  <2>3. [v \in DOMAIN p.env |-> p.env[v].val[i]] = [v \in Var \ Local |-> i[v]] BY <2>1, <2>2
  <2>4. {x.val[i] : x \in p.ret} = {} BY <2>2
  <2> QED BY <2>2, <2>3, <2>4 DEF StateOf, Start, Running
<1>3. Start(i) \in CState /\ Start(i).mode = "run" /\ DOMAIN Start(i).env = Var \ Local
  <2> DEFINE e == [v \in Var \ Local |-> i[v]]
  <2>1. i \in [Var -> Val] BY InputAssumption
  <2>2. e \in Env
    <3>1. e = [v \in DOMAIN e |-> e[v]] /\ DOMAIN e = Var \ Local /\ \A v \in DOMAIN e : e[v] \in Val
      BY <2>1
    <3> HIDE DEF e
    <3> QED BY <3>1, EnvIs
  <2>3. DOMAIN e = Var \ Local OBVIOUS
  <2> HIDE DEF e
  <2>4. Start(i) = Running(e) BY DEF Start, e
  <2> QED BY <2>2, <2>3, <2>4, RunningTyped
<1>4. Tells(p, i)
  <2>1. p.state = "Step" /\ p.conds = {} OBVIOUS
  <2> HIDE DEF p
  <2> QED BY <1>2, <1>3, <2>1 DEF Tells, Holds
<1> HIDE DEF p
<1>5. IsPoint(q) /\ q.st = Start(i) BY <1>2, <1>4, PointIs
<1> HIDE DEF q
<1>6. Avoids(q, Declared(prog)) BY <1>1, <1>3, <1>5, ScopeAssumption DEF Avoids
<1>7. r.st = Run[prog][Start(i)][i]
  <2>1. r = Marked(R, ctx) BY <1>3, <1>5, SteppedIs
  <2>2. Marked(R, ctx).st = R BY DEF Marked
  <2> HIDE DEF r
  <2> QED BY <1>5, <2>1, <2>2
<1>8. Passes(f, ctx, q, r, i) BY <1>6, StepPasses
<1> HIDE DEF r, f
<1>9. ToldBy(ctx, paths, f, r, i)
  <2>1. 1 \in DOMAIN paths /\ paths[1] = p BY <1>1, SingletonIsSeq
  <2> QED BY <1>4, <1>8, <2>1 DEF ToldBy, q
<1>10. Told(ctx, paths, stack, r, i) BY <1>1, <1>9, ToldOne
<1> QED BY <1>7, <1>10

LEMMA InitFollows == Init => Follows
<1> SUFFICES ASSUME Init, SteppedAsC(prog)
             PROVE  /\ BreaksInv
                    /\ Inside(ctx, stack, prog)
                    /\ \A i \in Input : \E r : r.st = Run[prog][Start(i)][i] /\ Told(ctx, paths, stack, r, i)
  BY DEF Follows
<1>1. BreaksInv BY InitBreaks
<1>2. Inside(ctx, stack, prog)
  <2>1. stack = <<StepFrame(prog)>> BY DEF Init
  <2>2. \A k \in DOMAIN stack : k = 1 BY <2>1
  <2> QED BY <2>2 DEF Inside
<1> QED BY <1>1, <1>2, InitTold

LEMMA StepFollows == Sound /\ Follows /\ [Next]_vars => Follows'
<1> SUFFICES ASSUME Sound, Follows, [Next]_vars, SteppedAsC(prog)
             PROVE  /\ BreaksInv'
                    /\ Enclosing'
                    /\ ~aborted' => \A i \in Input : \E r :
                         r.st = Run[prog][Start(i)][i] /\ Told(ctx', paths', stack', r, i)
  BY NextKeeps DEF Follows, Enclosing
<1>1. BreaksInv /\ Enclosing BY DEF Follows, Enclosing
<1>2. BreaksInv' BY <1>1, StepBreaks
<1>3. Enclosing' BY <1>1, StepInside
<1>4. ASSUME ~aborted', NEW i \in Input
      PROVE  \E r : r.st = Run[prog][Start(i)][i] /\ Told(ctx', paths', stack', r, i)
  <2>1. ~aborted BY <1>4, NextKeeps
  <2>2. PICK r : r.st = Run[prog][Start(i)][i] /\ Told(ctx, paths, stack, r, i) BY <2>1 DEF Follows
  <2>3. Retold BY <1>1, <1>4, StepTold
  <2> QED BY <2>2, <2>3 DEF Retold
<1> QED BY <1>2, <1>3, <1>4

(* At the end a path is where the execution is. *)
LEMMA EndTold ==
  ASSUME Follows, Done, SteppedAsC(prog), NEW i \in Input
  PROVE  \E k \in DOMAIN paths :
           Holds(paths[k], i) /\ EndsLike(paths[k], i, Run[prog][Start(i)][i])
<1>1. stack = <<>> /\ ~aborted BY DEF Done
<1>2. PICK r : r.st = Run[prog][Start(i)][i] /\ Told(ctx, paths, stack, r, i) BY <1>1 DEF Follows
<1>3. DOMAIN stack = {} /\ Len(stack) = 0 BY <1>1, EmptyIsSeq
<1>4. PICK k \in DOMAIN paths : Tells(paths[k], i) /\ Goes(ctx, stack, 0, Point(paths[k], i), r, i)
  BY <1>2, <1>3 DEF Told
<1>5. r = Point(paths[k], i) BY <1>3, <1>4 DEF Goes
<1> DEFINE p == paths[k]
           st == StateOf(p, i)
<1>6. Run[prog][Start(i)][i] = st BY <1>2, <1>4, <1>5, PointIs
<1>7. Tells(p, i) /\ st \in CState BY <1>4 DEF Tells
<1> HIDE DEF p
<1>8. EndsLike(p, i, st)
  <2>1. /\ st.mode = "run" <=> p.state = "Step"
        /\ st.mode = "return" <=> p.state = "Return"
    BY <1>7, PointIs
  <2>2. (p.state = "Return") = (st.mode = "return") /\ (p.state = "Step") = (st.mode = "run")
    BY <2>1
  <2>3. st.ret = {x.val[i] : x \in p.ret} /\ st.env = [v \in DOMAIN p.env |-> p.env[v].val[i]]
    BY DEF StateOf
  <2> HIDE DEF st
  <2>4. Var \ Local \subseteq DOMAIN st.env BY <1>7, CStateIs, EnvIs
  <2>5. \A v \in Var \ Local : p.env[v].val[i] = st.env[v] BY <2>3, <2>4
  <2> QED BY <2>2, <2>3, <2>5 DEF EndsLike
<1> QED BY <1>6, <1>7, <1>8 DEF Tells, p

LEMMA FollowsCovers == Follows => CoversExecutions
BY EndTold DEF CoversExecutions

LEMMA FollowsDescribes == Sound /\ Follows => DescribesExecutions
<1> SUFFICES ASSUME Sound, Follows, Done, SteppedAsC(prog), ~Uninitialized(prog), NEW i \in Input,
                    NEW k \in DOMAIN paths, Holds(paths[k], i)
             PROVE  EndsLike(paths[k], i, Run[prog][Start(i)][i])
  BY DEF DescribesExecutions
<1>1. PICK j \in DOMAIN paths : Holds(paths[j], i) /\ EndsLike(paths[j], i, Run[prog][Start(i)][i])
  BY EndTold
<1>2. Alone(paths, i) BY DEF Sound, SoundState, Covers
<1>3. j = k BY <1>1, <1>2 DEF Alone
<1> QED BY <1>1, <1>3

(* No behaviour of a function is missing from the paths that the analyzer  *)
(* ends with: step, stepBranch, stepSimpleSwitch, the breaks and the scopes *)
(* together do to the paths what C does, so that every execution ends as   *)
(* some path says whose conditions its input satisfies.  The body must be  *)
(* one that the analyzer means to step as C does.                          *)
THEOREM SpecCoversExecutions == Spec => []CoversExecutions
<1>1. Init => Sound /\ Follows BY InitSound, InitFollows
<1>2. Sound /\ Follows /\ [Next]_vars => (Sound /\ Follows)' BY StepSound, StepFollows
<1>3. Spec => [](Sound /\ Follows) BY <1>1, <1>2, PTL DEF Spec
<1> QED BY <1>3, FollowsCovers, PTL

(* And none is invented: where every local has an initializer, what a path *)
(* says of an input that satisfies its conditions is what the function     *)
(* does, whichever path it is.  The contract is read off these paths.      *)
THEOREM SpecDescribesExecutions == Spec => []DescribesExecutions
<1>1. Init => Sound /\ Follows BY InitSound, InitFollows
<1>2. Sound /\ Follows /\ [Next]_vars => (Sound /\ Follows)' BY StepSound, StepFollows
<1>3. Spec => [](Sound /\ Follows) BY <1>1, <1>2, PTL DEF Spec
<1> QED BY <1>3, FollowsDescribes, PTL

=============================================================================

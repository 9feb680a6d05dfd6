------------------------------ MODULE LoopSpec ------------------------------
(***************************************************************************)
(* How a loop is replaced by the states after it: parseLoopInfo with the   *)
(* loop information plugins (src/src/SpecGenerator/loopInfoPlugins.cpp),   *)
(* then emitLoopInvariant (specGenerator.cpp), which merges what the loop  *)
(* invariant plugins (loopInvariantPlugins.cpp) say of the memory after    *)
(* the loop and builds the paths on which the analysis of the function     *)
(* goes on.                                                                *)
(*                                                                         *)
(* One iteration is known by its paths: steps, on which the loop goes on,  *)
(* and exits, which break or return.  A path is known by its effect on     *)
(* every scalar: <<k>> if it adds the constant k, <<>> for anything else.  *)
(*                                                                         *)
(* The code keeps one list of infos for each path before the loop, all     *)
(* from the same plugin results with the entry values of that path put in. *)
(* Here an info is kept once, as it is before the substitution.            *)
(***************************************************************************)
EXTENDS Integers, Sequences, FiniteSets, SequencesExt

CONSTANTS
  Var,     \* the scalars
  Loops,   \* the loops that are analyzed
  MaxPaths, \* the paths of an iteration that StInGX is given: 2 << 5
  MaxInfos \* bound: the infos that StInGX gives for one way out

Effect == {e \in Seq(Int) : Len(e) <= 1}

Operator == {"<<", ">>", "&", "|", "^", "%", "~", "%=", "<<="}

(* A loop: the condition is index op bound, and something else if more; it *)
(* stores to a[v], at the start of an iteration, for v in store; init      *)
(* assigns k to a scalar with <<k>>, and declares the local ones.          *)
(* search: its exit is taken for an element of a searched array; uses: the *)
(* operators in it; forks: init splits a path, or the condition does; pre: *)
(* the paths before the loop, and the scalars whose constant they know.    *)
LoopShape ==
  [steps : Seq([Var -> Effect]),
   exits : Seq([effect : [Var -> Effect], state : {"Break", "Return"}, ret : {"constant", "unknown"}]),
   index : Var, bound : Var, op : {"LT", "LE", "GT", "GE", "NE", "EQ"}, more : BOOLEAN,
   bodyFirst : BOOLEAN, store : SUBSET Var, search : BOOLEAN, uses : SUBSET Operator,
   forks : SUBSET {"init", "condition"}, local : SUBSET Var, init : [Var -> Effect],
   pre : Seq([state : {"Step", "Break", "Return"}, vals : [Var -> Effect]])]

ASSUME LoopsAssumption == Loops \subseteq LoopShape
ASSUME MaxPathsAssumption == MaxPaths \in Nat
ASSUME MaxInfosAssumption == MaxInfos \in Nat \ {0}

VARIABLES
  loop,       \* the loop, and the paths before it
  stage,      \* what parseLoopInfo or emitLoopInvariant does next
  parts,      \* the parts of LoopInfo that are set
  todo,       \* the plugins that have not answered in this stage
  normal,     \* resultInfos.normal: what is known of leaving by the condition
  interrupts, \* resultInfos.interrupts: of leaving by each exit
  best,       \* bestResult, or <<>>
  others,     \* otherResults
  posts       \* the paths of postState

svars == <<loop, stage, parts, todo, normal, interrupts, best, others, posts>>

-----------------------------------------------------------------------------
(* LoopInfo. *)

Active(l) == {i \in DOMAIN l.pre : l.pre[i].state = "Step"}

(* SetEntryAndCurrentPlugin::parse: one iteration, from the first active   *)
(* path, which resymbolize keeps; splitActiveInactive tells the steps from *)
(* the exits.  Without an active path nothing is kept back, nothing moves, *)
(* and what is there counts as the exits.                                  *)
SymbolicEntries(l) == IF Active(l) # {} THEN {1} ELSE DOMAIN l.pre

Entered(l) ==
  IF Active(l) # {} THEN l
  ELSE [l EXCEPT !.steps = <<>>,
                 !.exits = [i \in SymbolicEntries(l) |->
                              [effect |-> [v \in Var |-> <<0>>], state |-> l.pre[i].state, ret |-> "unknown"]]]

(* The constants that path i knows at the head of the loop. *)
EntryConstant(l, i, v) == IF l.init[v] # <<>> THEN l.init[v] ELSE l.pre[i].vals[v]

(* Mutant: what the first active path knows. *)
SharedOfFirst(l) ==
  [v \in Var |-> IF Active(l) = {} THEN <<>>
                ELSE EntryConstant(l, CHOOSE i \in Active(l) : \A j \in Active(l) : i <= j, v)]

(* sharedMemoryMap: mergeWith keeps what all active paths agree on. *)
SharedConstants(l) ==
  [v \in Var |-> LET ks == {EntryConstant(l, i, v) : i \in Active(l)}
                 IN  IF Cardinality(ks) = 1 THEN CHOOSE k \in ks : TRUE ELSE <<>>]

Nothing == [v \in {} |-> <<0>>]

Changed(effect) == {v \in Var : effect[v] # <<0>>}

(* Mutant: paths that do not change an address have no say on its step.    *)
PatternsOfWriters(l) ==
  [v \in UNION {Changed(l.steps[j]) : j \in DOMAIN l.steps} |->
     LET effects == {l.steps[j][v] : j \in {k \in DOMAIN l.steps : v \in Changed(l.steps[k])}}
     IN  IF Cardinality(effects) = 1 THEN CHOOSE e \in effects : TRUE ELSE <<>>]

(* normalExitPatternsMap: an address keeps its step if all paths agree on  *)
(* it.  Paths before the first that changes something have no say.         *)
NormalExitPatterns(l) ==
  LET heard == {j \in DOMAIN l.steps : \E k \in 1..j : Changed(l.steps[k]) # {}}
  IN  [v \in UNION {Changed(l.steps[j]) : j \in heard} |->
         LET effects == {l.steps[j][v] : j \in heard}
         IN  IF Cardinality(effects) = 1 THEN CHOOSE e \in effects : TRUE ELSE <<>>]

(* SetIndexPlugin::parse: the condition is index op bound, and perhaps     *)
(* more; the index has a pattern and the bound does not change.            *)
HasIndex(l) ==
  LET p == NormalExitPatterns(l)
  IN  /\ l.op # "EQ"
      /\ l.index \in DOMAIN p /\ p[l.index] # <<>>
      /\ \A j \in DOMAIN l.steps : l.steps[j][l.bound] = <<0>>

IndexStep(l) == NormalExitPatterns(l)[l.index][1]

Unit(l) == IndexStep(l) \in {1, -1}

(* preciseLoopCount is maxLoopCount, or Unknown. *)
Precise(l) == Unit(l) /\ ~l.more /\ l.exits = <<>>

(* maxLoopCount, when the scalars hold e: buildMaxLoopCountExpr. *)
MaxLoopCount(l, e) ==
  LET k == IndexStep(l)
  IN  (IF k > 0 THEN (e[l.bound] + (k - 1)) - e[l.index]
                ELSE e[l.index] - (e[l.bound] + (k + 1)))
      + (IF l.op \in {"LE", "GE"} THEN 1 ELSE 0)

(* LoopVariantPlugin: the number that loop variant names. *)
LoopVariant(l, e) == MaxLoopCount(l, e)

-----------------------------------------------------------------------------
(* What an info says: of the value of a scalar after the loop, which       *)
(* conditions hold (window: the index ends within one step of its bound;   *)
(* none, some: whether the searched element was met), how the path ends    *)
(* and what it returns ({} for nullopt).                                   *)
Unknown     == [kind |-> "unknown", step |-> 0]
AtEntry     == [kind |-> "entry", step |-> 0]
Untouched   == [kind |-> "before", step |-> 0]
Counted(k)  == [kind |-> "count", step |-> k]  \* k times preciseLoopCount more
Follows(k)  == [kind |-> "after", step |-> k]  \* moves with the index
Solved      == [kind |-> "solved", step |-> 0] \* by StInGX, from an equality
Constant(k) == [kind |-> "value", step |-> k]  \* by StInGX, from sharedMemoryMap

Info(mem, conds, state, ret) ==
  [mem |-> mem, conds |-> conds, state |-> state, ret |-> ret]

(* PostPSInfo(), PostPIInfo(). *)
NoInfo == Info(Nothing, {}, "Step", {})

AllUnknown(vs) == [NoInfo EXCEPT !.mem = [v \in vs |-> Unknown]]

(* CheckAndDumpLoopInfoPlugin, LoopVariantPlugin: nothing on the memory. *)
Silent == [normal |-> NoInfo, interrupts |-> <<>>]

(* Mutant: only scalars with a constant step are assigned. *)
AssignedInSteps(l) == {v \in DOMAIN NormalExitPatterns(l) : NormalExitPatterns(l)[v] # <<>>} \ l.local

(* LoopAssignsPlugin: the scalars and the array cells [first, first + len) *)
(* of its clause, when the loop was entered with e.                        *)
Assigned(l) == DOMAIN NormalExitPatterns(l) \ l.local

AssignedCells(l, e) ==
  UNION {{e[v] + c : c \in 0 .. (IF HasIndex(l) THEN MaxLoopCount(l, e) ELSE 1) - 1} : v \in l.store}

(* tryGetAsRange: a cell a[v] is part of a range only if v has a pattern. *)
NoRange(l) ==
  \E v \in l.store : v \notin DOMAIN NormalExitPatterns(l) \/ NormalExitPatterns(l)[v] = <<>>

ValueAfter(l, p) ==
  IF p = <<>> THEN Unknown
  ELSE IF Precise(l) THEN Counted(p[1])
  ELSE IF p[1] \in {IndexStep(l), -IndexStep(l)} THEN Follows(p[1])
  ELSE Unknown

(* The memory of an exit: what the iterations before it changed, and what  *)
(* the last one changed on its way out.                                    *)
UnknownAtExits(l) ==
  [j \in DOMAIN l.exits |-> AllUnknown(Assigned(l) \cup Changed(l.exits[j].effect))]

LoopAssigns(l) ==
  LET p   == NormalExitPatterns(l)
      mem == [v \in Assigned(l) |-> ValueAfter(l, p[v])]
  IN  [normal     |-> Info(mem, IF \E v \in DOMAIN mem : mem[v].kind = "after"
                                THEN {"window"} ELSE {}, "Step", {}),
       interrupts |-> UnknownAtExits(l)]

ComplexLoopAssigns(l) ==
  [normal |-> AllUnknown(Assigned(l)), interrupts |-> UnknownAtExits(l)]

(* ParadigmMaxMinPlugin has nothing to say of a loop without its idiom. *)
Generate(plugin, l) ==
  CASE plugin = "loopAssigns" -> LoopAssigns(l)
    [] plugin = "complexLoopAssigns" -> ComplexLoopAssigns(l)
    [] plugin \in {"checkAndDumpLoopInfo", "paradigmMaxMin", "loopVariant"} -> Silent

(* The groups that stepLoop asks for, and their plugins. *)
getPlugins(group) ==
  CASE group = "DefaultLoopInfo" -> <<"SetEntryAndCurrent", "setPatterns", "setSharedState", "setIndex">>
    [] group = "DefaultPathInsensitiveLoopInv" ->
         <<"checkAndDumpLoopInfo", "loopAssigns", "paradigmMaxMin", "loopVariant">>
    [] group = "DefaultPathSensitiveLoopInv" -> <<"paradigmSearch", "StInGXPlugin">>
    [] group = "ComplexPathInsensitiveLoopInv" -> <<"checkAndDumpLoopInfo", "complexLoopAssigns">>
    [] group = "ComplexPathSensitiveLoopInv" -> <<"StInGXPluginForComplexLoop">>

PathInsensitive == IF "index" \in parts THEN "DefaultPathInsensitiveLoopInv" ELSE "ComplexPathInsensitiveLoopInv"
PathSensitive   == IF "index" \in parts THEN "DefaultPathSensitiveLoopInv" ELSE "ComplexPathSensitiveLoopInv"

-----------------------------------------------------------------------------
(* The answers of a path sensitive plugin: none for std::nullopt. *)

(* ParadigmSearchPlugin: one exit, taken when the element at the index has *)
(* a property (search).  A returned expression with symbols is Unknown.    *)
SearchAnswers(l) ==
  IF Len(l.exits) = 1 /\ l.search /\ Unit(l)
  THEN LET exit == l.exits[1]
       IN  {<<[priority   |-> 100,
               normal     |-> <<Info(Nothing, {"none"}, "Step", {})>>,
               interrupts |-> << <<Info(Nothing, {"some"}, exit.state,
                                        IF exit.state = "Return" THEN {exit.ret} ELSE {})>> >>]>>}
  ELSE {<<>>}

(* loopHasNonAffineOps: a compound assignment is no such operator. *)
NonAffine(l) == l.uses \cap {"<<", ">>", "&", "|", "^", "%", "~"} # {}

(* loopHasArrayOrPointer. *)
WorksOnArray(l) == l.store # {} \/ l.search

(* buildLoopInvariant and its post states: for every way out as many infos *)
(* as the invariant has disjuncts there, none if it cannot be reached.  An *)
(* info may know which scalars the loop leaves alone, by their value or by *)
(* their constant at the entry, and may have solved the others.            *)
LeftAlone(l) ==
  {v \in Var : \A e \in {l.steps[j] : j \in DOMAIN l.steps}
                          \cup {l.exits[j].effect : j \in DOMAIN l.exits} : e[v] = <<0>>}

PostMemories(l) ==
  LET known == SharedConstants(l)
      kept  == [v \in LeftAlone(l) |-> AtEntry]
  IN  {Nothing, kept,
       [v \in DOMAIN kept |-> IF known[v] = <<>> THEN AtEntry ELSE Constant(known[v][1])],
       [v \in Var |-> IF v \in DOMAIN kept THEN AtEntry ELSE Solved]}

(* n[0] infos if the condition ends the loop, n[j] if exit j does.         *)
Disjuncts(l, n, mem) ==
  [priority   |-> 0,
   normal     |-> [k \in 1..n[0] |-> Info(mem, {}, "Step", {})],
   interrupts |-> [j \in DOMAIN l.exits |->
                     [k \in 1..n[j] |->
                        Info(mem, {}, l.exits[j].state,
                             IF l.exits[j].state = "Return" THEN {"unknown"} ELSE {})]]]

Invariants(l, most) ==
  UNION {{<<Disjuncts(l, n, mem)>> : n \in [0..Len(l.exits) -> 0..most]} : mem \in PostMemories(l)}

(* LinearInvariantPlugin: the disjuncts are joined if the loop works on an *)
(* array.  LinearInvariantPluginForComplexLoop never joins them.           *)
Declines(l) == NonAffine(l) \/ Len(l.steps) + Len(l.exits) > MaxPaths

StInGXAnswers(l) ==
  IF Declines(l) THEN {<<>>} ELSE Invariants(l, IF WorksOnArray(l) THEN 1 ELSE MaxInfos)

ComplexStInGXAnswers(l) ==
  IF Declines(l) THEN {<<>>} ELSE Invariants(l, MaxInfos)

Answers(plugin, l) ==
  CASE plugin = "paradigmSearch" -> SearchAnswers(l)
    [] plugin = "StInGXPlugin" -> StInGXAnswers(l)
    [] plugin = "StInGXPluginForComplexLoop" -> ComplexStInGXAnswers(l)

-----------------------------------------------------------------------------
(* emitLoopInvariant. *)

Known(info) == {v \in DOMAIN info.mem : info.mem[v] # Unknown}

(* updateResultInfoWithInfo: the first value that is not Unknown stays. *)
Learn(info, new) ==
  [info EXCEPT
     !.mem   = [v \in DOMAIN info.mem \cup DOMAIN new.mem |->
                  IF v \in DOMAIN new.mem \ Known(info) THEN new.mem[v] ELSE info.mem[v]],
     !.conds = @ \cup new.conds]

(* ... of a path sensitive plugin. *)
LearnPath(info, new) ==
  [Learn(info, new) EXCEPT
     !.state = new.state,
     !.ret   = IF new.state = "Return" /\ new.ret # {"unknown"} THEN new.ret ELSE @]

OrNoInfo(infos) == IF infos = <<>> THEN <<NoInfo>> ELSE infos

(* updateResultInfosWithGlobalInfo, ...GlobalInterruptInfo. *)
LearnGlobal(infos, new) ==
  [k \in DOMAIN OrNoInfo(infos) |-> Learn(OrNoInfo(infos)[k], new)]

(* updateResultInfosWithMergedNormalPathInfo, ...InterruptPathInfo. *)
LearnMerged(infos, new) ==
  [k \in DOMAIN OrNoInfo(infos) |-> LearnPath(OrNoInfo(infos)[k], new)]

(* updateResultInfosWithPerPathInfo, ...PerInterruptPathInfo: the one path *)
(* there is becomes as many as there are new infos.                        *)
CanSplit(infos, news) == Len(OrNoInfo(infos)) = 1 /\ news # <<>>
LearnPerPath(infos, news) ==
  [k \in DOMAIN news |-> LearnPath(OrNoInfo(infos)[1], news[k])]

(* mergeAllPostInfos: mergePostInfo of the first info with each other one.  *)
(* What only another info says of an address is dropped, what only the     *)
(* first says is kept, and what they disagree on is Unknown from then on.  *)
MergeAllPostInfos(infos) ==
  LET first    == infos[1]
      Agree(v) == \A k \in DOMAIN infos :
                    v \in DOMAIN infos[k].mem => infos[k].mem[v] = first.mem[v]
  IN  [first EXCEPT
         !.mem   = [v \in DOMAIN first.mem |-> IF Agree(v) THEN first.mem[v] ELSE Unknown],
         !.conds = {c \in first.conds : \A k \in DOMAIN infos : c \in infos[k].conds},
         !.ret   = IF \A k \in DOMAIN infos : infos[k].ret = first.ret THEN first.ret ELSE {"unknown"}]

(* ERROR, TODO, UNREACHABLE or a failed assertion. *)
Abort ==
  /\ stage' = "aborted"
  /\ UNCHANGED <<loop, parts, todo, normal, interrupts, best, others, posts>>

(* An info for every exit of the loop. *)
Matches(infos) == Len(infos) = Len(loop.exits)

Init ==
  /\ loop \in Loops
  /\ stage = "info" /\ parts = {} /\ todo = getPlugins("DefaultLoopInfo")
  /\ normal = <<>> /\ interrupts = <<>>
  /\ best = <<>> /\ others = <<>> /\ posts = <<>>

(* parseLoopInfo: the next loop information plugin; all but setIndex, which *)
(* may decline, set their part.                                            *)
Parses(plugin) ==
  /\ stage = "info" /\ todo # <<>> /\ Head(todo) = plugin
  /\ todo' = Tail(todo)
  /\ UNCHANGED <<stage, normal, interrupts, best, others, posts>>

SetEntryAndCurrent ==
  /\ Parses("SetEntryAndCurrent")
  /\ loop' = Entered(loop) /\ parts' = parts \cup {"entryAndCurrent"}

SetPatterns ==
  IF SymbolicEntries(loop) = {1}
  THEN Parses("setPatterns") /\ parts' = parts \cup {"patterns"} /\ UNCHANGED loop
  ELSE stage = "info" /\ todo # <<>> /\ Head(todo) = "setPatterns" /\ Abort

SetSharedState ==
  /\ Parses("setSharedState")
  /\ parts' = IF Active(loop) = {} THEN parts ELSE parts \cup {"shared"}
  /\ UNCHANGED loop

SetIndex ==
  /\ Parses("setIndex")
  /\ parts' = IF HasIndex(loop) THEN parts \cup {"index"} ELSE parts
  /\ UNCHANGED loop

(* emitLoopInvariant is called; ComplexLoopInfo has no plugins. *)
EndInfo ==
  /\ stage = "info" /\ todo = <<>>
  /\ IF "init" \in loop.forks \/ ("index" \in parts /\ NoRange(loop)) THEN Abort
     ELSE /\ stage' = "insensitive" /\ todo' = getPlugins(PathInsensitive)
          /\ interrupts' = [j \in DOMAIN loop.exits |-> <<>>]
          /\ UNCHANGED <<loop, parts, normal, best, others, posts>>

(* The next path insensitive plugin. *)
AskInsensitive ==
  /\ stage = "insensitive" /\ todo # <<>>
  /\ LET r == Generate(Head(todo), loop)
     IN  IF r.interrupts = <<>> \/ Matches(r.interrupts)
         THEN /\ normal' = LearnGlobal(normal, r.normal)
              /\ interrupts' = IF r.interrupts = <<>> THEN interrupts
                               ELSE [j \in DOMAIN interrupts |->
                                       LearnGlobal(interrupts[j], r.interrupts[j])]
              /\ todo' = Tail(todo)
              /\ UNCHANGED <<loop, parts, stage, best, others, posts>>
         ELSE Abort

EndInsensitive ==
  /\ stage = "insensitive" /\ todo = <<>>
  /\ stage' = "sensitive" /\ todo' = getPlugins(PathSensitive)
  /\ UNCHANGED <<loop, parts, normal, interrupts, best, others, posts>>

(* The next path sensitive plugin; the first of the highest priority wins. *)
AskSensitive ==
  /\ stage = "sensitive" /\ todo # <<>>
  /\ IF "condition" \in loop.forks /\ Head(todo) = "StInGXPluginForComplexLoop" /\ ~NonAffine(loop)
     THEN Abort
     ELSE /\ \E answer \in Answers(Head(todo), loop) :
               IF answer = <<>>
               THEN UNCHANGED <<best, others>>
               ELSE IF best = <<>> \/ answer[1].priority > best[1].priority
               THEN best' = answer /\ others' = others \o best
               ELSE best' = best /\ others' = others \o answer
          /\ todo' = Tail(todo)
          /\ UNCHANGED <<loop, stage, parts, normal, interrupts, posts>>

ApplyBest ==
  /\ stage = "sensitive" /\ todo = <<>>
  /\ IF best = <<>>
     THEN stage' = "others" /\ UNCHANGED <<loop, parts, todo, normal, interrupts, best, others, posts>>
     ELSE LET r == best[1]
          IN  IF /\ CanSplit(normal, r.normal) /\ Matches(r.interrupts)
                 /\ \A j \in DOMAIN interrupts : CanSplit(interrupts[j], r.interrupts[j])
              THEN /\ normal' = LearnPerPath(normal, r.normal)
                   /\ interrupts' = [j \in DOMAIN interrupts |->
                                       LearnPerPath(interrupts[j], r.interrupts[j])]
                   /\ stage' = "others"
                   /\ UNCHANGED <<loop, parts, todo, best, others, posts>>
              ELSE Abort

(* The other answers, each merged into one info per way out. *)
ApplyOther ==
  /\ stage = "others" /\ others # <<>>
  /\ LET r == Head(others)
         Merged(infos, news) ==
           IF news = <<>> THEN infos ELSE LearnMerged(infos, MergeAllPostInfos(news))
     IN  IF Matches(r.interrupts)
         THEN /\ normal' = Merged(normal, r.normal)
              /\ interrupts' = [j \in DOMAIN interrupts |->
                                  Merged(interrupts[j], r.interrupts[j])]
              /\ others' = Tail(others)
              /\ UNCHANGED <<loop, parts, stage, todo, best, posts>>
         ELSE Abort

(* A path after the loop: that before it, with the values of the info for  *)
(* the scalars it can see.  resetBreakState, which follows stepLoop, lets  *)
(* the paths that break from this loop go on.                              *)
PostPath(i, info) ==
  [from  |-> i, ret |-> info.ret, conds |-> info.conds,
   state |-> IF info.state = "Break" THEN "Step" ELSE info.state,
   mem   |-> [v \in Var |-> IF v \in DOMAIN info.mem \ loop.local THEN info.mem[v] ELSE Untouched]]

PostPaths(i) ==
  IF loop.pre[i].state # "Step" THEN <<[PostPath(i, NoInfo) EXCEPT !.state = loop.pre[i].state]>>
  ELSE LET infos == normal \o FlattenSeq(interrupts)
       IN  [k \in DOMAIN infos |-> PostPath(i, infos[k])]

BuildPostState ==
  /\ stage = "others" /\ others = <<>>
  /\ posts' = FlattenSeq([i \in DOMAIN loop.pre |-> PostPaths(i)])
  /\ stage' = "done"
  /\ UNCHANGED <<loop, parts, todo, normal, interrupts, best, others>>

ParseLoopInfo ==
  SetEntryAndCurrent \/ SetPatterns \/ SetSharedState \/ SetIndex \/ EndInfo

EmitLoopInvariant ==
  AskInsensitive \/ EndInsensitive \/ AskSensitive \/ ApplyBest \/ ApplyOther \/ BuildPostState
=============================================================================

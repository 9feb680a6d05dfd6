------------------------------ MODULE LoopRun ------------------------------
(***************************************************************************)
(* The C loop that LoopSpec analyzes: once the analysis is done the loop   *)
(* runs, from any values of the scalars, and what became of the run is     *)
(* compared with the paths after the loop, the loop assigns and the loop   *)
(* variant clause.                                                         *)
(***************************************************************************)
EXTENDS LoopSpec

CONSTANTS
  Starts,    \* the values of the scalars before the loop
  Junk,      \* what an effect that is no constant step leaves in a scalar
  MaxRounds  \* bound: the iterations of a run

ASSUME StartsAssumption == Starts \subseteq [Var -> Int]
ASSUME JunkAssumption == Junk \in Int
ASSUME MaxRoundsAssumption == MaxRounds \in Nat

VARIABLES
  at,     \* idle, then check: before the condition, round: before the body, out
  from,   \* the path before the loop that the run came on
  before, \* the scalars before the loop
  entry,  \* ... after init
  x,      \* ... now
  exit,   \* how the loop was left: 0 by its condition, or the exit
  tested, \* the values of the index with which an iteration went on
  met,    \* {i} once an exit is taken with the index at i
  cells,  \* the cells stored to
  rounds

rvars == <<at, from, before, entry, x, exit, tested, met, cells, rounds>>
vars == <<svars, rvars>>

-----------------------------------------------------------------------------
Holds(l, e) ==
  CASE l.op = "LT" -> e[l.index] < e[l.bound]
    [] l.op = "LE" -> e[l.index] <= e[l.bound]
    [] l.op = "GT" -> e[l.index] > e[l.bound]
    [] l.op = "GE" -> e[l.index] >= e[l.bound]
    [] l.op = "NE" -> e[l.index] # e[l.bound]
    [] l.op = "EQ" -> e[l.index] = e[l.bound]

After(effect, e) ==
  [v \in Var |-> IF effect[v] = <<>> THEN Junk ELSE e[v] + effect[v][1]]

RunInit ==
  /\ Init
  /\ at = "idle" /\ from = 0 /\ exit = 0 /\ rounds = 0
  /\ tested = {} /\ met = {} /\ cells = {}
  /\ before = [v \in Var |-> 0] /\ entry = before /\ x = before

(* The execution comes on path i; if that has ended, so has the run. *)
Enter(i) ==
  /\ stage = "done" /\ at = "idle"
  /\ from' = i
  /\ before' \in {e \in Starts : \A v \in Var : loop.pre[i].vals[v] \in {<<>>, <<e[v]>>}}
  /\ IF loop.pre[i].state # "Step" THEN at' = "out" /\ entry' = before'
     ELSE /\ entry' = [v \in Var |-> IF loop.init[v] = <<>> THEN before'[v] ELSE loop.init[v][1]]
          /\ at' = IF loop.bodyFirst THEN "round" ELSE "check"
  /\ x' = entry'
  /\ UNCHANGED <<svars, exit, tested, met, cells, rounds>>

Continue ==
  /\ at = "check" /\ Holds(loop, x)
  /\ at' = "round"
  /\ UNCHANGED <<svars, from, before, entry, x, exit, tested, met, cells, rounds>>

Leave ==
  /\ at = "check" /\ (~Holds(loop, x) \/ loop.more)
  /\ at' = "out"
  /\ UNCHANGED <<svars, from, before, entry, x, exit, tested, met, cells, rounds>>

Stored == {x[v] : v \in loop.store}

Step(j) ==
  /\ at = "round" /\ rounds < MaxRounds
  /\ x' = After(loop.steps[j], x)
  /\ at' = "check" /\ rounds' = rounds + 1
  /\ tested' = tested \cup {x[loop.index]} /\ cells' = cells \cup Stored
  /\ UNCHANGED <<svars, from, before, entry, exit, met>>

Interrupt(j) ==
  /\ at = "round"
  /\ x' = After(loop.exits[j].effect, x)
  /\ at' = "out" /\ exit' = j /\ met' = {x[loop.index]}
  /\ UNCHANGED <<svars, from, before, entry, tested, cells, rounds>>

RunLoop ==
  \/ \E i \in DOMAIN loop.pre : Enter(i)
  \/ Continue
  \/ Leave
  \/ \E j \in DOMAIN loop.steps : Step(j)
  \/ \E j \in DOMAIN loop.exits : Interrupt(j)

Analyze == (ParseLoopInfo \/ EmitLoopInvariant) /\ UNCHANGED rvars

Next == Analyze \/ RunLoop
Spec == RunInit /\ [][Next]_vars

-----------------------------------------------------------------------------
(* What the numbers of the plugins are for: the index moves towards its    *)
(* bound, starts on its side of it, and != meets it.                       *)
Up(l) == IndexStep(l) > 0

Gap(l, e) == IF Up(l) THEN e[l.bound] - e[l.index] ELSE e[l.index] - e[l.bound]

StepSize(l) == IF Up(l) THEN IndexStep(l) ELSE -IndexStep(l)

Closed(l) == l.op \in {"LE", "GE"}

Bounded(l, e) ==
  /\ l.op \in IF Up(l) THEN {"LT", "LE", "NE"} ELSE {"GT", "GE", "NE"}
  /\ l.bodyFirst => Holds(l, e)
  /\ Gap(l, e) >= IF Closed(l) THEN -1 ELSE 0
  /\ l.op = "NE" => Gap(l, e) % StepSize(l) = 0

(* The condition alone ends the loop, at the bound or one step behind it.  *)
EndsAtBound(l, e) == Bounded(l, e) /\ ~l.more /\ (Closed(l) => Precise(l))

SearchWon == best # <<>> /\ best[1].priority = 100

Regular ==
  /\ HasIndex(loop) => EndsAtBound(loop, entry)
  /\ \A v \in Var : loop.init[v] # <<>> => v \in DOMAIN NormalExitPatterns(loop) \cup loop.local
  /\ (\E j \in DOMAIN loop.exits : loop.exits[j].state = "Return") => best # <<>>
  /\ SearchWon => Up(loop) /\ ~Closed(loop)

(* Whether the run goes on after the loop. *)
EndState ==
  IF loop.pre[from].state # "Step" THEN loop.pre[from].state
  ELSE IF exit # 0 /\ loop.exits[exit].state = "Return" THEN "Return" ELSE "Step"

(* The values of the index that a path with the condition window allows.   *)
Window ==
  IF Up(loop) THEN entry[loop.bound] .. entry[loop.bound] + IndexStep(loop) - 1
              ELSE entry[loop.bound] + IndexStep(loop) + 1 .. entry[loop.bound]

(* What is said of v is true of the run, if the index ends as i; what      *)
(* StInGX has solved is taken to be.                                       *)
IsTrue(said, v, i) ==
  CASE said.kind \in {"unknown", "solved"} -> TRUE
    [] said.kind = "before"  -> x[v] = before[v]
    [] said.kind = "value"   -> x[v] = said.step
    [] said.kind = "entry"   -> x[v] = entry[v]
    [] said.kind = "count"   -> x[v] = entry[v] + said.step * MaxLoopCount(loop, entry)
    [] said.kind = "after"   ->
         LET moved == IF Up(loop) THEN i - entry[loop.index] ELSE entry[loop.index] - i
         IN  x[v] = IF said.step > 0 THEN entry[v] + moved ELSE entry[v] - moved

(* The range of the quantifiers of ParadigmSearchPlugin. *)
SearchRange ==
  IF Up(loop) THEN entry[loop.index] .. entry[loop.bound] - 1
              ELSE entry[loop.bound] .. entry[loop.index] - 1

Describes(post) ==
  /\ post.from = from /\ post.state = EndState
  /\ post.ret \subseteq IF exit = 0 THEN {} ELSE {loop.exits[exit].ret}
  /\ \E i \in IF "window" \in post.conds THEN Window ELSE {x[loop.index]} :
       \A v \in Var \ loop.local : IsTrue(post.mem[v], v, i)
  /\ "none" \in post.conds => SearchRange \subseteq tested
  /\ "some" \in post.conds => met # {} /\ met \subseteq SearchRange

(* However the loop is left, the analysis goes on with a path for it: the  *)
(* infos of independent plugins, merged, still describe every run.  For    *)
(* loops whose index ends at its bound, when init assigns only to what the *)
(* loop changes, and with a return only if a path sensitive plugin has     *)
(* answered.                                                               *)
PathsDescribeRuns ==
  at = "out" /\ Regular => \E k \in DOMAIN posts : Describes(posts[k])

(* At the head of the loop, every scalar that has changed since its entry  *)
(* and every cell stored to is one of loop assigns.  The cells, when v     *)
(* moves up with the index and not faster.                                 *)
MovesWithIndex(v) ==
  HasIndex(loop) /\ Bounded(loop, entry) /\ NormalExitPatterns(loop)[v][1] \in 1..StepSize(loop)

AssignsCoverWrites ==
  at \in {"check", "round"} =>
    /\ \A v \in Var \ loop.local : x[v] # entry[v] => v \in Assigned(loop)
    /\ (\A v \in loop.store : MovesWithIndex(v)) => cells \subseteq AssignedCells(loop, entry)

(* No path through the body leaves everything as it was. *)
NeverIdle(l) == \A j \in DOMAIN l.steps : Changed(l.steps[j]) # {}

(* Every iteration that goes on decreases loop variant, from a value that  *)
(* is not negative: when the index moves towards its bound on every step.  *)
VariantDecreases ==
  [][/\ rounds' = rounds + 1
     /\ HasIndex(loop) /\ NeverIdle(loop) /\ Bounded(loop, entry) /\ Holds(loop, x)
     => 0 <= LoopVariant(loop, x) /\ LoopVariant(loop, x') < LoopVariant(loop, x)]_vars
=============================================================================

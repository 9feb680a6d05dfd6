--------------------------- MODULE LoopLocations ---------------------------
(***************************************************************************)
(* buildLoopInvariant (src/src/Analyzer/Symbolic/invariant.tpp): a loop    *)
(* becomes a transition system with a location for every path through its  *)
(* body, "at the head, about to take this path", one for leaving by the    *)
(* condition and one for every path that breaks or returns.  StInGX finds  *)
(* an invariant for each location; those of the paths become the loop      *)
(* invariant and those of the exits the states after the loop.             *)
(*                                                                         *)
(* A polyhedron is the set of states in it, a transition a relation.       *)
(* StInGX (computeLinearInv) is taken to find some solution: the reachable *)
(* states, closed under a hull whenever it likes.                          *)
(*                                                                         *)
(* Then the loop runs, as C runs it, next to what was found.               *)
(***************************************************************************)
EXTENDS Naturals, Sequences

CONSTANTS
  State,  \* the values of all variables, and those they had at loop entry
  Loops,  \* the loops that are analyzed
  Hull(_) \* a polyhedron around a set of states

(* An operand of &&: what it says, and which states the comparison that    *)
(* stands for it admits.  They differ where LinearInvariantPlugin reads    *)
(* i != n as i <= n - 1 or i >= n + 1 (directed).  toConstraint drops what *)
(* is nonlinear, preprocessConjConds what is no comparison, != and ||.     *)
Atom ==
  [sat : SUBSET State, kept : SUBSET State,
   form : {"inequality", "directed", "equality", "nonlinear", "lost"}]

Condition == [neg : BOOLEAN, atoms : Seq(Atom)]

(* A path through the body: its conditions, the state after it, and the    *)
(* states its symbolic values admit, more than one when some are unknown.  *)
Path == [conds : Seq(Condition), next : [State -> State], to : [State -> SUBSET State]]

(* The first normal paths go on, the others break or return. *)
Loop == [init : SUBSET State, cond : Condition, paths : Seq(Path), normal : Nat]

WellFormedAtom(a) == a.form \notin {"directed"} => a.kept = a.sat

WellFormedCondition(c) == \A i \in DOMAIN c.atoms : WellFormedAtom(c.atoms[i])

WellFormed(l) ==
  /\ l.normal <= Len(l.paths)
  /\ WellFormedCondition(l.cond)
  /\ \A k \in DOMAIN l.paths :
       /\ \A i \in DOMAIN l.paths[k].conds : WellFormedCondition(l.paths[k].conds[i])
       /\ \A x \in State : l.paths[k].next[x] \in l.paths[k].to[x]

ASSUME LoopsAssumption == Loops \subseteq Loop /\ \A l \in Loops : WellFormed(l)
ASSUME HullAssumption == \A S \in SUBSET State : S \subseteq Hull(S) /\ Hull(S) \subseteq State

VARIABLES
  loop, \* the loop
  inv,  \* getInvMap: the invariant of every location so far
  at,   \* "solve", then where the run is: "head" or "out"
  x,    \* the state of the run
  way   \* the location of the way the run has left by, 0 before the first iteration

vars == <<loop, inv, at, x, way>>

-----------------------------------------------------------------------------
(* Conditions. *)

Sat(c) ==
  LET all == {y \in State : \A i \in DOMAIN c.atoms : y \in c.atoms[i].sat}
  IN  IF c.neg THEN State \ all ELSE all

Visible(a) == a.form \in {"inequality", "directed", "equality"}

Admits(a) == IF Visible(a) THEN a.kept ELSE State

Denies(a) == IF Visible(a) THEN State \ a.kept ELSE State

(* The operand that is left of !(...), if it is only one: ! of an equality *)
(* is not expressed.                                                       *)
Sole(c) ==
  {i \in DOMAIN c.atoms :
     /\ c.atoms[i].form \in {"inequality", "directed"}
     /\ \A j \in DOMAIN c.atoms : c.atoms[j].form = "lost" \/ j = i}

(* convertFormulaToPoly(preprocessConjConds(c)). *)
Poly(c) ==
  IF c.neg THEN {y \in State : \A i \in Sole(c) : y \in Denies(c.atoms[i])}
           ELSE {y \in State : \A i \in DOMAIN c.atoms : y \in Admits(c.atoms[i])}

(* negateFormulas: the negations of all operands hold. *)
Negation(c) ==
  IF c.neg THEN {y \in State : \A i \in Sole(c) : y \in Admits(c.atoms[i])}
           ELSE {y \in State : \A i \in DOMAIN c.atoms : y \in Denies(c.atoms[i])}

(* negatedCondPolys. *)
ExitPoly(c) == IF Negation(c) = {} THEN State ELSE Negation(c)

-----------------------------------------------------------------------------
(* The transition system. *)

exitIdx(l) == Len(l.paths) + 1

Normal(l) == {k \in DOMAIN l.paths : k <= l.normal}

Interrupts(l) == DOMAIN l.paths \ Normal(l)

(* The exit of a path: all normal paths share one. *)
ExitOf(l, j) == IF j \in Normal(l) THEN exitIdx(l) ELSE exitIdx(l) + (j - l.normal)

Locations(l) == 0 .. exitIdx(l) + (Len(l.paths) - l.normal)

PathCond(l, k) == {y \in State : \A i \in DOMAIN l.paths[k].conds : y \in Poly(l.paths[k].conds[i])}

(* The states in which path j may be taken, of those its location has. *)
Taken(l, m, j) == m[j] \cap PathCond(l, j) \cap Poly(l.cond)

After(l, m, j) == UNION {l.paths[j].to[y] : y \in Taken(l, m, j)}

(* Mutant: the condition at the end is taken for one at the start. *)
IntoPathUnprimed(l, m, k) ==
  (m[0] \cap PathCond(l, k))
    \cup UNION {UNION {l.paths[j].to[y] : y \in Taken(l, m, j) \cap PathCond(l, k)} : j \in Normal(l)}

(* init -> path_k, path_j -> path_k *)
IntoPath(l, m, k) ==
  (m[0] \cap PathCond(l, k))
    \cup ((UNION {After(l, m, j) : j \in Normal(l)}) \cap PathCond(l, k) \cap Poly(l.cond))

(* Mutant: only the first path leads to the exit. *)
IntoNormalExitOfFirst(l, m) ==
  (UNION {After(l, m, j) : j \in {i \in Normal(l) : i = 1}}) \cap ExitPoly(l.cond)

(* path_j -> normal_exit *)
IntoNormalExit(l, m) == (UNION {After(l, m, j) : j \in Normal(l)}) \cap ExitPoly(l.cond)

(* Mutant: the values before the last iteration. *)
IntoInterruptUnchanged(l, m, j) == Taken(l, m, j)

(* interrupt_path_j -> interrupt_exit_j *)
IntoInterrupt(l, m, j) == After(l, m, j)

(* What the transitions make of the invariants m. *)
Post(l, m) ==
  [loc \in Locations(l) |->
     IF loc = 0 THEN l.init
     ELSE IF loc \in DOMAIN l.paths THEN IntoPath(l, m, loc)
     ELSE IF loc = exitIdx(l) THEN IntoNormalExit(l, m)
     ELSE UNION {IntoInterrupt(l, m, j) : j \in {i \in Interrupts(l) : ExitOf(l, i) = loc}}]

Closed(l, m) == \A loc \in Locations(l) : Post(l, m)[loc] \subseteq m[loc]

-----------------------------------------------------------------------------
Init ==
  /\ loop \in Loops
  /\ inv = [loc \in Locations(loop) |-> {}]
  /\ at = "solve" /\ x \in loop.init /\ way = 0

(* computeLinearInv, one round: every location takes in what leads to it. *)
Solve ==
  /\ at = "solve" /\ ~Closed(loop, inv)
  /\ LET post == Post(loop, inv)
         more == [loc \in Locations(loop) |-> inv[loc] \cup post[loc]]
     IN  \/ inv' = more
         \/ inv' = [loc \in Locations(loop) |-> Hull(more[loc])]
  /\ UNCHANGED <<loop, at, x, way>>

Enter ==
  /\ at = "solve" /\ Closed(loop, inv)
  /\ at' = "head"
  /\ UNCHANGED <<loop, inv, x, way>>

(* The path that the body takes in y. *)
Takes(l, k, y) ==
  y \in Sat(l.cond) /\ \A i \in DOMAIN l.paths[k].conds : y \in Sat(l.paths[k].conds[i])

Iterate(k) ==
  /\ at = "head" /\ k \in Normal(loop) /\ Takes(loop, k, x)
  /\ x' = loop.paths[k].next[x] /\ way' = ExitOf(loop, k)
  /\ UNCHANGED <<loop, inv, at>>

Interrupt(k) ==
  /\ at = "head" /\ k \in Interrupts(loop) /\ Takes(loop, k, x)
  /\ at' = "out" /\ x' = loop.paths[k].next[x] /\ way' = ExitOf(loop, k)
  /\ UNCHANGED <<loop, inv>>

Leave ==
  /\ at = "head" /\ x \notin Sat(loop.cond)
  /\ at' = "out"
  /\ UNCHANGED <<loop, inv, x, way>>

Next ==
  \/ Solve \/ Enter \/ Leave
  \/ \E k \in DOMAIN loop.paths : Iterate(k) \/ Interrupt(k)

Spec == Init /\ [][Next]_vars

-----------------------------------------------------------------------------
TypeOK ==
  /\ loop \in Loops
  /\ inv \in [Locations(loop) -> SUBSET State]
  /\ at \in {"solve", "head", "out"}
  /\ x \in State
  /\ way \in Locations(loop)

(* What is kept of the condition admits every state that satisfies it: !=  *)
(* has not been given a direction, and ! is not applied to a conjunction   *)
(* of which some operands are dropped.                                     *)
Weakened(c) ==
  /\ \A i \in DOMAIN c.atoms : c.atoms[i].form # "directed"
  /\ c.neg => Len(c.atoms) <= 1

(* The negation of what is kept admits every state that does not satisfy   *)
(* it.  negateFormulas is right about one operand, and about several if    *)
(* none of them is visible.                                                *)
Negatable(c) ==
  \/ Len(c.atoms) <= 1 /\ \A i \in DOMAIN c.atoms : c.atoms[i].form # "directed"
  \/ \A i \in DOMAIN c.atoms : c.atoms[i].form \in {"nonlinear", "lost"}

Faithful(l) ==
  /\ Weakened(l.cond)
  /\ \A k \in DOMAIN l.paths : \A i \in DOMAIN l.paths[k].conds : Weakened(l.paths[k].conds[i])

(* At the head of the loop the invariant of the location holds whose path  *)
(* is about to be taken: the disjunction of these, which buildInvs writes, *)
(* holds in every iteration that executes the body.  (It leaves out those  *)
(* of which it prints no constraint.)                                      *)
PathInvsHold ==
  at = "head" /\ Faithful(loop) =>
    \A k \in DOMAIN loop.paths : Takes(loop, k, x) => x \in inv[k]

(* A run that leaves by a break or return is in a state the invariant of   *)
(* that exit has: the paths after the loop do not exclude it.              *)
InterruptsCovered ==
  at = "out" /\ way > exitIdx(loop) /\ Faithful(loop) => x \in inv[way]

(* A run that leaves by the condition, after one iteration at least, is in *)
(* a state normal_exit has.  There is no transition from init to it, so    *)
(* nothing is said of a run that leaves at once.                           *)
NormalExitCovered ==
  at = "out" /\ way = exitIdx(loop) /\ Faithful(loop) /\ Negatable(loop.cond) => x \in inv[way]
=============================================================================

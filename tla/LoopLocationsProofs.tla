------------------------ MODULE LoopLocationsProofs ------------------------
(* What the locations of a loop promise, for all loops and all solutions   *)
(* of its transition system.                                               *)
EXTENDS LoopLocations, TLAPS

-----------------------------------------------------------------------------
(* The loops. *)

LEMMA LoopShape ==
  ASSUME NEW l \in Loops
  PROVE  /\ l.init \in SUBSET State /\ l.cond \in Condition /\ WellFormedCondition(l.cond)
         /\ l.paths \in Seq(Path) /\ l.normal \in Nat /\ Len(l.paths) \in Nat
         /\ DOMAIN l.paths = 1 .. Len(l.paths) /\ l.normal <= Len(l.paths)
<1>1. l \in Loop /\ WellFormed(l) BY LoopsAssumption
<1> QED BY <1>1, SMT DEF Loop, WellFormed

LEMMA PathShape ==
  ASSUME NEW l \in Loops, NEW k \in DOMAIN l.paths
  PROVE  /\ l.paths[k] \in Path
         /\ l.paths[k].conds \in Seq(Condition)
         /\ \A i \in DOMAIN l.paths[k].conds :
              l.paths[k].conds[i] \in Condition /\ WellFormedCondition(l.paths[k].conds[i])
         /\ \A y \in State : /\ l.paths[k].next[y] \in State
                             /\ l.paths[k].to[y] \in SUBSET State
                             /\ l.paths[k].next[y] \in l.paths[k].to[y]
<1>1. l \in Loop /\ WellFormed(l) BY LoopsAssumption
<1>2. l.paths \in Seq(Path) BY <1>1 DEF Loop
<1>3. l.paths[k] \in Path BY <1>2
<1>4. l.paths[k].conds \in Seq(Condition) BY <1>3 DEF Path
<1>5. \A i \in DOMAIN l.paths[k].conds : l.paths[k].conds[i] \in Condition BY <1>4
<1>6. \A y \in State : l.paths[k].next[y] \in State /\ l.paths[k].to[y] \in SUBSET State
  BY <1>3 DEF Path
<1> QED BY <1>1, <1>3, <1>4, <1>5, <1>6 DEF WellFormed

LEMMA LocationShape ==
  ASSUME NEW l \in Loops
  PROVE  /\ 0 \in Locations(l) /\ exitIdx(l) \in Locations(l) /\ Locations(l) \subseteq Nat
         /\ exitIdx(l) \in Nat /\ exitIdx(l) > 0 /\ exitIdx(l) \notin DOMAIN l.paths
         /\ \A k \in DOMAIN l.paths : k \in Locations(l) /\ ExitOf(l, k) \in Locations(l) /\ k # 0
         /\ \A k \in Normal(l) : ExitOf(l, k) = exitIdx(l)
         /\ \A k \in Interrupts(l) : ExitOf(l, k) > exitIdx(l) /\ ExitOf(l, k) \notin DOMAIN l.paths
<1>1. l.normal \in Nat /\ Len(l.paths) \in Nat /\ DOMAIN l.paths = 1 .. Len(l.paths) /\ l.normal <= Len(l.paths)
  BY LoopShape
<1> QED BY <1>1, SMT DEF Locations, exitIdx, ExitOf, Normal, Interrupts

-----------------------------------------------------------------------------
(* Conditions. *)

(* What is kept of a condition admits the states that satisfy it. *)
LEMMA PolyAdmits ==
  ASSUME NEW c \in Condition, WellFormedCondition(c), Weakened(c)
  PROVE  Sat(c) \subseteq Poly(c)
<1>0. c.neg \in BOOLEAN /\ c.atoms \in Seq(Atom) BY DEF Condition
<1>1. \A i \in DOMAIN c.atoms : c.atoms[i].form # "directed" /\ c.atoms[i].kept = c.atoms[i].sat
  BY DEF WellFormedCondition, WellFormedAtom, Weakened
<1>2. CASE ~c.neg
  BY <1>1, <1>2 DEF Sat, Poly, Admits
<1>3. CASE c.neg
  <2>1. SUFFICES ASSUME NEW y \in Sat(c), NEW i \in Sole(c)
                 PROVE  y \in State /\ y \in Denies(c.atoms[i])
    BY <1>3 DEF Poly, Sat
  <2>2. y \in State /\ \E j \in DOMAIN c.atoms : y \notin c.atoms[j].sat BY <1>3, <2>1 DEF Sat
  <2>3. PICK j \in DOMAIN c.atoms : y \notin c.atoms[j].sat BY <2>2
  <2>4. Len(c.atoms) <= 1 BY <1>3 DEF Weakened
  <2>5. i \in DOMAIN c.atoms BY DEF Sole
  <2>6. Len(c.atoms) \in Nat /\ DOMAIN c.atoms = 1 .. Len(c.atoms) BY <1>0
  <2>7. i = j BY <2>3, <2>4, <2>5, <2>6, SMT
  <2> QED BY <1>1, <2>2, <2>3, <2>5, <2>7 DEF Denies
<1> QED BY <1>0, <1>2, <1>3

(* What is kept of its negation admits the states that do not satisfy it. *)
LEMMA ExitPolyAdmits ==
  ASSUME NEW c \in Condition, WellFormedCondition(c), Negatable(c)
  PROVE  State \ Sat(c) \subseteq ExitPoly(c)
<1>0. c.neg \in BOOLEAN /\ c.atoms \in Seq(Atom) BY DEF Condition
<1>1. SUFFICES ASSUME NEW y \in State, y \notin Sat(c) PROVE y \in Negation(c)
  BY DEF ExitPoly
<1>2. CASE \A i \in DOMAIN c.atoms : c.atoms[i].form \in {"nonlinear", "lost"}
  BY <1>1, <1>2 DEF Negation, Sole, Visible, Denies
<1>3. CASE Len(c.atoms) <= 1 /\ \A i \in DOMAIN c.atoms : c.atoms[i].form # "directed"
  <2>1. \A i \in DOMAIN c.atoms : c.atoms[i].kept = c.atoms[i].sat
    BY <1>3 DEF WellFormedCondition, WellFormedAtom
  <2>2. CASE c.neg
    <3>1. \A i \in DOMAIN c.atoms : y \in c.atoms[i].sat BY <1>1, <2>2 DEF Sat
    <3> QED BY <2>1, <2>2, <3>1 DEF Negation, Sole, Admits
  <2>3. CASE ~c.neg
    <3>1. PICK j \in DOMAIN c.atoms : y \notin c.atoms[j].sat BY <1>1, <2>3 DEF Sat
    <3>2. Len(c.atoms) \in Nat /\ DOMAIN c.atoms = 1 .. Len(c.atoms) BY <1>0
    <3>3. \A i \in DOMAIN c.atoms : i = j BY <1>3, <3>1, <3>2, SMT
    <3> QED BY <2>1, <2>3, <3>1, <3>3 DEF Negation, Denies
  <2> QED BY <1>0, <2>2, <2>3
<1> QED BY <1>2, <1>3 DEF Negatable

(* The path that is taken is one that the abstraction lets be taken. *)
LEMMA TakenIsAdmitted ==
  ASSUME NEW l \in Loops, Faithful(l), NEW k \in DOMAIN l.paths, NEW y \in State, Takes(l, k, y)
  PROVE  y \in PathCond(l, k) /\ y \in Poly(l.cond)
<1>1. y \in Poly(l.cond) BY PolyAdmits, LoopShape DEF Faithful, Takes
<1>2. ASSUME NEW i \in DOMAIN l.paths[k].conds PROVE y \in Poly(l.paths[k].conds[i])
  <2>1. l.paths[k].conds[i] \in Condition /\ WellFormedCondition(l.paths[k].conds[i])
    BY PathShape
  <2>2. Weakened(l.paths[k].conds[i]) /\ y \in Sat(l.paths[k].conds[i]) BY DEF Faithful, Takes
  <2> QED BY <2>1, <2>2, PolyAdmits
<1> QED BY <1>1, <1>2 DEF PathCond

-----------------------------------------------------------------------------
(* A solution. *)

(* What a solved location contains. *)
LEMMA SolvedLocations ==
  ASSUME NEW l \in Loops, NEW m \in [Locations(l) -> SUBSET State], Closed(l, m)
  PROVE  /\ l.init \subseteq m[0]
         /\ \A k \in DOMAIN l.paths : IntoPath(l, m, k) \subseteq m[k]
         /\ IntoNormalExit(l, m) \subseteq m[exitIdx(l)]
         /\ \A k \in Interrupts(l) : IntoInterrupt(l, m, k) \subseteq m[ExitOf(l, k)]
<1>1. \A loc \in Locations(l) : Post(l, m)[loc] \subseteq m[loc] BY DEF Closed
<1>2. 0 \in Locations(l) /\ exitIdx(l) \in Locations(l) /\ exitIdx(l) # 0 /\ exitIdx(l) \notin DOMAIN l.paths
  BY LocationShape
<1>3. l.init \subseteq m[0] BY <1>1, <1>2 DEF Post
<1>4. ASSUME NEW k \in DOMAIN l.paths PROVE IntoPath(l, m, k) \subseteq m[k]
  <2>1. k \in Locations(l) /\ k # 0 BY LocationShape
  <2> QED BY <1>1, <2>1 DEF Post
<1>5. IntoNormalExit(l, m) \subseteq m[exitIdx(l)] BY <1>1, <1>2 DEF Post
<1>6. ASSUME NEW k \in Interrupts(l) PROVE IntoInterrupt(l, m, k) \subseteq m[ExitOf(l, k)]
  <2>1. /\ k \in DOMAIN l.paths /\ ExitOf(l, k) \in Locations(l) /\ ExitOf(l, k) \in Nat
        /\ exitIdx(l) \in Nat /\ ExitOf(l, k) > exitIdx(l) /\ exitIdx(l) > 0
        /\ ExitOf(l, k) \notin DOMAIN l.paths
    BY LocationShape DEF Interrupts
  <2>2. ExitOf(l, k) # 0 /\ ExitOf(l, k) # exitIdx(l) BY <2>1
  <2>3. Post(l, m)[ExitOf(l, k)]
          = UNION {IntoInterrupt(l, m, j) : j \in {i \in Interrupts(l) : ExitOf(l, i) = ExitOf(l, k)}}
    BY <2>1, <2>2, Zenon DEF Post
  <2>4. k \in {i \in Interrupts(l) : ExitOf(l, i) = ExitOf(l, k)} OBVIOUS
  <2>5. IntoInterrupt(l, m, k) \subseteq Post(l, m)[ExitOf(l, k)] BY <2>3, <2>4, Zenon
  <2> QED BY <1>1, <2>1, <2>5
<1> QED BY <1>3, <1>4, <1>5, <1>6

(* The transitions lead to states. *)
LEMMA PostInState ==
  ASSUME NEW l \in Loops, NEW m \in [Locations(l) -> SUBSET State], NEW loc \in Locations(l)
  PROVE  Post(l, m)[loc] \in SUBSET State
<1>1. ASSUME NEW j \in DOMAIN l.paths PROVE After(l, m, j) \subseteq State
  <2>1. Taken(l, m, j) \subseteq State BY DEF Taken, PathCond
  <2>2. \A y \in State : l.paths[j].to[y] \in SUBSET State BY PathShape
  <2> QED BY <2>1, <2>2 DEF After
<1>2. Normal(l) \subseteq DOMAIN l.paths /\ Interrupts(l) \subseteq DOMAIN l.paths
  BY DEF Normal, Interrupts
<1>3. l.init \in SUBSET State BY LoopShape
<1>4. \A k \in DOMAIN l.paths : IntoPath(l, m, k) \subseteq State BY DEF IntoPath, PathCond
<1>5. IntoNormalExit(l, m) \subseteq State BY <1>1, <1>2 DEF IntoNormalExit
<1>6. \A j \in Interrupts(l) : IntoInterrupt(l, m, j) \subseteq State BY <1>1, <1>2 DEF IntoInterrupt
<1>7. UNION {IntoInterrupt(l, m, j) : j \in {i \in Interrupts(l) : ExitOf(l, i) = loc}} \subseteq State
  BY <1>6
<1> QED BY <1>3, <1>4, <1>5, <1>7, Zenon DEF Post

-----------------------------------------------------------------------------
(* The inductive invariant: the run starts once the system is solved; at   *)
(* the head it is in a state of init or in one that a normal path of the   *)
(* system leads to, and outside in one that the location of its exit has,  *)
(* unless it has left by the condition.                                    *)
Solved == at # "solve" => Closed(loop, inv)

Starts == (at = "solve" => way = 0) /\ (way = 0 => x \in loop.init)

AtHead == at = "head" => way \in {0, exitIdx(loop)}

Arrived ==
  Faithful(loop) /\ way = exitIdx(loop) => \E j \in Normal(loop) : x \in After(loop, inv, j)

Left == at = "out" /\ way = exitIdx(loop) => x \notin Sat(loop.cond)

IInv == TypeOK /\ Solved /\ Starts /\ AtHead /\ Arrived /\ Left /\ InterruptsCovered

(* Which path is taken at the head, its location admits. *)
LEMMA HeadInPath ==
  ASSUME IInv, at = "head", Faithful(loop), NEW k \in DOMAIN loop.paths, Takes(loop, k, x)
  PROVE  x \in inv[k] /\ x \in Taken(loop, inv, k)
<1>1. loop \in Loops /\ inv \in [Locations(loop) -> SUBSET State] /\ x \in State BY DEF IInv, TypeOK
<1>2. x \in PathCond(loop, k) /\ x \in Poly(loop.cond) BY <1>1, TakenIsAdmitted
<1>3. Closed(loop, inv) BY DEF IInv, Solved
<1>4. loop.init \subseteq inv[0] /\ IntoPath(loop, inv, k) \subseteq inv[k]
  BY <1>1, <1>3, SolvedLocations
<1>5. x \in IntoPath(loop, inv, k)
  <2>1. CASE way = 0 BY <1>2, <1>4, <2>1 DEF IInv, Starts, IntoPath
  <2>2. CASE way = exitIdx(loop)
    <3>1. PICK j \in Normal(loop) : x \in After(loop, inv, j) BY <2>2 DEF IInv, Arrived
    <3> QED BY <1>2, <3>1 DEF IntoPath
  <2> QED BY <2>1, <2>2 DEF IInv, AtHead
<1> QED BY <1>2, <1>4, <1>5 DEF Taken

(* ... so that one more step of C stays among what the system allows. *)
LEMMA StepInAfter ==
  ASSUME IInv, at = "head", Faithful(loop), NEW k \in DOMAIN loop.paths, Takes(loop, k, x)
  PROVE  loop.paths[k].next[x] \in After(loop, inv, k)
<1>1. loop \in Loops /\ x \in State BY DEF IInv, TypeOK
<1>2. loop.paths[k].next[x] \in loop.paths[k].to[x] BY <1>1, PathShape
<1>3. x \in Taken(loop, inv, k) BY HeadInPath
<1> QED BY <1>2, <1>3 DEF After

-----------------------------------------------------------------------------
(* The steps. *)

LEMMA InitIInv == Init => IInv
<1>1. SUFFICES ASSUME Init PROVE IInv OBVIOUS
<1>2. loop \in Loops /\ at = "solve" /\ way = 0 /\ x \in loop.init BY <1>1 DEF Init
<1>3. x \in State BY <1>2, LoopShape
<1>4. 0 \in Locations(loop) /\ exitIdx(loop) \in Nat /\ exitIdx(loop) > 0 BY <1>2, LocationShape
<1>5. inv \in [Locations(loop) -> SUBSET State] BY <1>1 DEF Init
<1> QED BY <1>2, <1>3, <1>4, <1>5
        DEF IInv, TypeOK, Solved, Starts, AtHead, Arrived, Left, InterruptsCovered

LEMMA SolveKeeps == IInv /\ Solve => IInv'
<1>1. SUFFICES ASSUME IInv, Solve PROVE IInv' OBVIOUS
<1>2. /\ loop \in Loops /\ inv \in [Locations(loop) -> SUBSET State] /\ x \in State
      /\ way = 0 /\ at = "solve" /\ x \in loop.init /\ way \in Locations(loop)
  BY <1>1 DEF IInv, TypeOK, Solve, Starts
<1>3. loop' = loop /\ at' = at /\ x' = x /\ way' = way BY <1>1 DEF Solve
<1>4. exitIdx(loop) \in Nat /\ exitIdx(loop) > 0 BY <1>2, LocationShape
<1>5. inv' \in [Locations(loop) -> SUBSET State]
  <2> DEFINE more == [loc \in Locations(loop) |-> inv[loc] \cup Post(loop, inv)[loc]]
  <2>1. more \in [Locations(loop) -> SUBSET State] BY <1>2, PostInState
  <2>2. \A loc \in Locations(loop) : Hull(more[loc]) \in SUBSET State BY <2>1, HullAssumption
  <2>3. inv' = more \/ inv' = [loc \in Locations(loop) |-> Hull(more[loc])] BY <1>1 DEF Solve
  <2> QED BY <2>1, <2>2, <2>3
<1>6. TypeOK' BY <1>2, <1>3, <1>5 DEF TypeOK
<1> QED BY <1>2, <1>3, <1>4, <1>6
        DEF IInv, Solved, Starts, AtHead, Arrived, Left, InterruptsCovered

LEMMA EnterKeeps == IInv /\ Enter => IInv'
<1>1. SUFFICES ASSUME IInv, Enter PROVE IInv' OBVIOUS
<1>2. /\ loop \in Loops /\ way = 0 /\ at = "solve" /\ x \in loop.init
  BY <1>1 DEF IInv, TypeOK, Enter, Starts
<1>3. loop' = loop /\ at' = "head" /\ x' = x /\ way' = way /\ inv' = inv BY <1>1 DEF Enter
<1>4. exitIdx(loop) \in Nat /\ exitIdx(loop) > 0 BY <1>2, LocationShape
<1>5. TypeOK' BY <1>1, <1>3 DEF IInv, TypeOK
<1>6. Solved' BY <1>1, <1>3 DEF Enter, Solved
<1> QED BY <1>2, <1>3, <1>4, <1>5, <1>6
        DEF IInv, Starts, AtHead, Arrived, Left, InterruptsCovered

LEMMA LeaveKeeps == IInv /\ Leave => IInv'
<1>1. SUFFICES ASSUME IInv, Leave PROVE IInv' OBVIOUS
<1>2. /\ loop \in Loops /\ at = "head" /\ way \in {0, exitIdx(loop)} /\ x \notin Sat(loop.cond)
  BY <1>1 DEF IInv, TypeOK, AtHead, Leave
<1>3. loop' = loop /\ at' = "out" /\ x' = x /\ way' = way /\ inv' = inv BY <1>1 DEF Leave
<1>4. exitIdx(loop) \in Nat /\ exitIdx(loop) > 0 BY <1>2, LocationShape
<1>5. TypeOK' /\ Solved' /\ Starts'
  BY <1>1, <1>2, <1>3 DEF IInv, TypeOK, Solved, Starts
<1>6. Arrived' BY <1>1, <1>3 DEF IInv, Arrived
<1>7. Left' /\ AtHead' BY <1>2, <1>3 DEF Left, AtHead
<1>8. InterruptsCovered' BY <1>2, <1>3, <1>4 DEF InterruptsCovered
<1> QED BY <1>5, <1>6, <1>7, <1>8 DEF IInv

LEMMA IterateKeeps ==
  ASSUME IInv, NEW k \in DOMAIN loop.paths, Iterate(k)
  PROVE  IInv'
<1>1. loop \in Loops /\ x \in State BY DEF IInv, TypeOK
<1>2. /\ at = "head" /\ k \in Normal(loop) /\ Takes(loop, k, x)
      /\ x' = loop.paths[k].next[x] /\ way' = ExitOf(loop, k)
      /\ loop' = loop /\ inv' = inv /\ at' = at
  BY DEF Iterate
<1>3. /\ exitIdx(loop) \in Nat /\ exitIdx(loop) > 0 /\ exitIdx(loop) \in Locations(loop)
      /\ ExitOf(loop, k) = exitIdx(loop)
  BY <1>1, <1>2, LocationShape
<1>4. x' \in State BY <1>1, <1>2, PathShape
<1>5. TypeOK' BY <1>1, <1>2, <1>3, <1>4 DEF IInv, TypeOK
<1>6. Solved' BY <1>2 DEF IInv, Solved
<1>7. Starts' /\ AtHead' /\ Left' /\ InterruptsCovered'
  BY <1>2, <1>3 DEF Starts, AtHead, Left, InterruptsCovered
<1>8. Arrived'
  <2>1. Faithful(loop) => x' \in After(loop, inv, k) BY <1>2, StepInAfter
  <2> QED BY <1>2, <2>1 DEF Arrived
<1> QED BY <1>5, <1>6, <1>7, <1>8 DEF IInv

LEMMA InterruptKeeps ==
  ASSUME IInv, NEW k \in DOMAIN loop.paths, Interrupt(k)
  PROVE  IInv'
<1>1. loop \in Loops /\ inv \in [Locations(loop) -> SUBSET State] /\ x \in State BY DEF IInv, TypeOK
<1>2. /\ at = "head" /\ k \in Interrupts(loop) /\ Takes(loop, k, x)
      /\ x' = loop.paths[k].next[x] /\ way' = ExitOf(loop, k)
      /\ loop' = loop /\ inv' = inv /\ at' = "out"
  BY DEF Interrupt
<1>3. /\ exitIdx(loop) \in Nat /\ exitIdx(loop) > 0 /\ ExitOf(loop, k) \in Locations(loop)
      /\ ExitOf(loop, k) > exitIdx(loop) /\ ExitOf(loop, k) \in Nat
  BY <1>1, <1>2, LocationShape
<1>4. x' \in State BY <1>1, <1>2, PathShape
<1>5. TypeOK' BY <1>1, <1>2, <1>3, <1>4 DEF IInv, TypeOK
<1>6. Closed(loop, inv) /\ Solved' BY <1>2 DEF IInv, Solved
<1>7. Starts' /\ AtHead' /\ Left' /\ Arrived'
  BY <1>2, <1>3 DEF Starts, AtHead, Left, Arrived
<1>8. InterruptsCovered'
  <2>1. IntoInterrupt(loop, inv, k) \subseteq inv[ExitOf(loop, k)] BY <1>1, <1>2, <1>6, SolvedLocations
  <2>2. Faithful(loop) => x' \in IntoInterrupt(loop, inv, k)
    BY <1>2, StepInAfter DEF IntoInterrupt
  <2> QED BY <1>2, <2>1, <2>2 DEF InterruptsCovered
<1> QED BY <1>5, <1>6, <1>7, <1>8 DEF IInv

LEMMA Invariance == Spec => []IInv
<1>1. IInv /\ [Next]_vars => IInv'
  <2>1. SUFFICES ASSUME IInv, [Next]_vars PROVE IInv' OBVIOUS
  <2>2. CASE Solve BY <2>1, <2>2, SolveKeeps
  <2>3. CASE Enter BY <2>1, <2>3, EnterKeeps
  <2>4. CASE Leave BY <2>1, <2>4, LeaveKeeps
  <2>5. ASSUME NEW k \in DOMAIN loop.paths, Iterate(k) PROVE IInv' BY <2>1, <2>5, IterateKeeps
  <2>6. ASSUME NEW k \in DOMAIN loop.paths, Interrupt(k) PROVE IInv' BY <2>1, <2>6, InterruptKeeps
  <2>7. CASE UNCHANGED vars
    BY <2>1, <2>7
    DEF vars, IInv, TypeOK, Solved, Starts, AtHead, Arrived, Left, InterruptsCovered
  <2> QED BY <2>1, <2>2, <2>3, <2>4, <2>5, <2>6, <2>7 DEF Next
<1> QED BY InitIInv, <1>1, PTL DEF Spec

-----------------------------------------------------------------------------
(* Every solution has an invariant for every location, and the run stays   *)
(* among the states and the exits of its loop (buildLoopInvariant).        *)
THEOREM TypeCorrect == Spec => []TypeOK
<1>1. IInv => TypeOK BY DEF IInv
<1> QED BY <1>1, Invariance, PTL

(* For every loop whose conditions are kept or weakened, whatever StInGX   *)
(* answers, the path that the body takes is one whose location admits the  *)
(* state at the head: the clause of buildInvs holds in every iteration.    *)
THEOREM PathInvariantsHold == Spec => []PathInvsHold
<1>1. IInv => PathInvsHold BY HeadInPath DEF PathInvsHold
<1> QED BY <1>1, Invariance, PTL

(* ... and the state after a break or a return is one that interrupt_exit  *)
(* has, so that the path built from it exists.                             *)
THEOREM InterruptsAreCovered == Spec => []InterruptsCovered
<1>1. IInv => InterruptsCovered BY DEF IInv
<1> QED BY <1>1, Invariance, PTL

(* ... and so is, in normal_exit, the state after the loop condition has   *)
(* become false, if the condition is one that negateFormulas negates       *)
(* soundly and an iteration has been executed.                             *)
THEOREM NormalExitsAreCovered == Spec => []NormalExitCovered
<1>1. IInv => NormalExitCovered
  <2>1. SUFFICES ASSUME IInv, at = "out", way = exitIdx(loop), Faithful(loop), Negatable(loop.cond)
                 PROVE  x \in inv[way]
    BY DEF NormalExitCovered
  <2>2. loop \in Loops /\ inv \in [Locations(loop) -> SUBSET State] /\ x \in State
    BY <2>1 DEF IInv, TypeOK
  <2>3. PICK j \in Normal(loop) : x \in After(loop, inv, j) BY <2>1 DEF IInv, Arrived
  <2>4. x \notin Sat(loop.cond) BY <2>1 DEF IInv, Left
  <2>5. loop.cond \in Condition /\ WellFormedCondition(loop.cond) BY <2>2, LoopShape
  <2>6. x \in ExitPoly(loop.cond) BY <2>1, <2>2, <2>4, <2>5, ExitPolyAdmits
  <2>7. x \in IntoNormalExit(loop, inv) BY <2>3, <2>6 DEF IntoNormalExit
  <2>8. Closed(loop, inv) BY <2>1 DEF IInv, Solved
  <2>9. IntoNormalExit(loop, inv) \subseteq inv[exitIdx(loop)] BY <2>2, <2>8, SolvedLocations
  <2> QED BY <2>1, <2>7, <2>9
<1> QED BY <1>1, Invariance, PTL
=============================================================================

---------------------------- MODULE LoopRunProofs ----------------------------
(***************************************************************************)
(* LoopRun!AssignsCoverWrites, LoopRun!VariantDecreases and                *)
(* LoopRun!PathsDescribeRuns hold of every loop, whatever its paths, its   *)
(* condition, the states before it and the values it starts from.          *)
(*                                                                         *)
(* Inv says how the scalars of a run are tied to those it entered the loop *)
(* with: one without a pattern has not moved, one with a pattern not       *)
(* greater than the step of the index has moved at most as far as the      *)
(* index has come nearer to its bound.                                     *)
(*                                                                         *)
(* For the paths after the loop, EmitInv says what the infos of the result *)
(* may state while the plugins are asked, whatever they answer and in      *)
(* which order the answers are applied; EnteredInv and LeftInv say what is *)
(* true of the run where it goes on and where it has left the loop.        *)
(***************************************************************************)
EXTENDS LoopRun, SequenceLemmas, FiniteSetTheorems

(* The information stages of an analysis, in their order: a loop with an   *)
(* index passes them only if all its stores are to ranges.                 *)
InfoStages ==
  {<<"SetEntryAndCurrent", "setPatterns", "setSharedState", "setIndex">>,
   <<"setPatterns", "setSharedState", "setIndex">>, <<"setSharedState", "setIndex">>,
   <<"setIndex">>, <<>>}

StageInv ==
  /\ loop \in LoopShape
  /\ stage = "info" => /\ todo \in InfoStages
                       /\ todo = <<>> /\ HasIndex(loop) => "index" \in parts
  /\ stage \notin {"info", "aborted"} => ~(HasIndex(loop) /\ NoRange(loop))
  /\ at # "idle" => stage = "done"

(* The loop l that was entered with e, when its scalars hold z. *)
Moved(l, e, z) ==
  /\ \A v \in Var \ DOMAIN NormalExitPatterns(l) : z[v] = e[v]
  /\ HasIndex(l) /\ Bounded(l, e) =>
       /\ \A v \in DOMAIN NormalExitPatterns(l) :
            LET p == NormalExitPatterns(l)[v]
            IN  p # <<>> /\ p[1] \in 1 .. StepSize(l) =>
                  z[v] - e[v] \in 0 .. Gap(l, e) - Gap(l, z)
       /\ Gap(l, e) - Gap(l, z) >= 0
       /\ l.op = "NE" => \E n \in 0 .. Gap(l, z) : Gap(l, z) = n * StepSize(l)

RunInv ==
  /\ at \in {"idle", "check", "round", "out"}
  /\ rounds \in Nat
  /\ at = "idle" => cells = {}
  /\ at \in {"check", "round"} =>
       /\ entry \in [Var -> Int] /\ x \in [Var -> Int]
       /\ Moved(loop, entry, x)
       /\ at = "round" /\ HasIndex(loop) /\ Bounded(loop, entry) => Holds(loop, x)
       /\ (\A v \in loop.store : MovesWithIndex(v)) => cells \subseteq AssignedCells(loop, entry)

Inv == StageInv /\ RunInv

-----------------------------------------------------------------------------
(* What the steps of a loop have in common. *)

(* The parts of a loop. *)
LEMMA ShapeOf ==
  ASSUME NEW l \in LoopShape
  PROVE  /\ l.steps \in Seq([Var -> Effect]) /\ Len(l.steps) \in Nat
         /\ DOMAIN l.steps = 1 .. Len(l.steps)
         /\ \A j \in DOMAIN l.steps : l.steps[j] \in [Var -> Effect]
         /\ l.index \in Var /\ l.bound \in Var /\ l.store \in SUBSET Var
         /\ l.op \in {"LT", "LE", "GT", "GE", "NE", "EQ"} /\ l.bodyFirst \in BOOLEAN
BY DEF LoopShape

LEMMA EffectIs ==
  ASSUME NEW e \in Effect
  PROVE  e = <<>> \/ (e # <<>> /\ e[1] \in Int /\ e = <<e[1]>>)
<1>1. e \in Seq(Int) /\ Len(e) <= 1 BY DEF Effect
<1>2. CASE e = <<>> BY <1>2
<1>3. CASE e # <<>>
  <2>1. Len(e) \in Nat /\ Len(e) # 0 BY <1>1, <1>3
  <2>2. Len(e) = 1
    <3> DEFINE n == Len(e)
    <3>1. n \in Nat /\ n # 0 /\ n <= 1 BY <1>1, <2>1
    <3> HIDE DEF n
    <3>2. n = 1 BY <3>1
    <3> QED BY <3>2 DEF n
  <2>3. e[1] \in Int BY <1>1, <2>2
  <2> QED BY <1>1, <1>3, <2>2, <2>3
<1> QED BY <1>2, <1>3

LEMMA OneStep == <<0>> # <<>> /\ \A k : <<k>> # <<>> /\ <<k>>[1] = k
OBVIOUS

(* A scalar without a pattern is changed by no step. *)
LEMMA NoPattern ==
  ASSUME NEW l \in LoopShape, NEW v \in Var \ DOMAIN NormalExitPatterns(l),
         NEW j \in DOMAIN l.steps
  PROVE  l.steps[j][v] = <<0>>
<1> DEFINE heard == {m \in DOMAIN l.steps : \E k \in 1 .. m : Changed(l.steps[k]) # {}}
<1>1. DOMAIN NormalExitPatterns(l) = UNION {Changed(l.steps[m]) : m \in heard}
  BY DEF NormalExitPatterns
<1>2. j \in 1 .. j /\ j \in Nat BY ShapeOf
<1>3. Changed(l.steps[j]) # {} => j \in heard BY <1>2
<1>4. v \notin Changed(l.steps[j]) BY <1>1, <1>3
<1> QED BY <1>4 DEF Changed

(* A step is idle, or it has the steps of the patterns. *)
LEMMA PatternOf ==
  ASSUME NEW l \in LoopShape, NEW v \in DOMAIN NormalExitPatterns(l)
  PROVE  LET p == NormalExitPatterns(l)[v]
         IN  p # <<>> =>
               /\ p[1] \in Int \ {0} /\ v \in Var
               /\ \A j \in DOMAIN l.steps :
                    Changed(l.steps[j]) = {} \/ (l.steps[j][v] = p)
<1> DEFINE heard == {m \in DOMAIN l.steps : \E k \in 1 .. m : Changed(l.steps[k]) # {}}
           effects == {l.steps[m][v] : m \in heard}
           p == NormalExitPatterns(l)[v]
<1>1. /\ DOMAIN NormalExitPatterns(l) = UNION {Changed(l.steps[m]) : m \in heard}
      /\ p = IF Cardinality(effects) = 1 THEN CHOOSE e \in effects : TRUE ELSE <<>>
  BY DEF NormalExitPatterns
<1>2. PICK h \in heard : v \in Changed(l.steps[h]) BY <1>1
<1>3. v \in Var /\ l.steps[h][v] # <<0>> BY <1>2 DEF Changed
<1> SUFFICES ASSUME p # <<>>
             PROVE  /\ p[1] \in Int \ {0} /\ v \in Var
                    /\ \A j \in DOMAIN l.steps : Changed(l.steps[j]) = {} \/ (l.steps[j][v] = p)
  OBVIOUS
<1>4. Cardinality(effects) = 1 BY <1>1
<1>5. IsFiniteSet(effects)
  <2> DEFINE f == [m \in heard |-> l.steps[m][v]]
  <2>1. IsFiniteSet(heard)
    <3>1. IsFiniteSet(1 .. Len(l.steps)) BY ShapeOf, FS_Interval
    <3> QED BY <3>1, ShapeOf, FS_Subset
  <2>2. f \in Surjection(heard, effects) BY DEF Surjection
  <2> QED BY <2>1, <2>2, FS_Surjection
<1>6. PICK e : effects = {e} BY <1>4, <1>5, FS_Singleton
<1>7. p = e BY <1>1, <1>4, <1>6
<1>8. \A m \in heard : l.steps[m][v] = p BY <1>6, <1>7
<1>9. p \in Effect
  <2>1. h \in DOMAIN l.steps /\ p = l.steps[h][v] BY <1>8
  <2>2. l.steps[h] \in [Var -> Effect] BY <2>1, ShapeOf
  <2> HIDE DEF p
  <2> QED BY <1>3, <2>1, <2>2
<1>10. p[1] \in Int \ {0} BY <1>2, <1>3, <1>8, <1>9, EffectIs
<1>11. ASSUME NEW j \in DOMAIN l.steps, Changed(l.steps[j]) # {}
       PROVE  l.steps[j][v] = p
  <2>1. j \in 1 .. j BY ShapeOf
  <2>2. j \in heard BY <1>11, <2>1
  <2> QED BY <1>8, <2>2
<1> QED BY <1>3, <1>10, <1>11

-----------------------------------------------------------------------------
(* A multiple of k that is not 0, less k, is one. *)

LEMMA MultipleOf ==
  ASSUME NEW g \in Nat, NEW k \in Nat \ {0}, g % k = 0
  PROVE  \E n \in 0 .. g : g = n * k
<1> DEFINE n == g \div k
<1>1. n \in Int /\ g = k * n OBVIOUS
<1> HIDE DEF n
<1>2. n >= 0 BY <1>1
<1>3. n <= g BY <1>1, <1>2
<1> QED BY <1>1, <1>2, <1>3

LEMMA OneLess ==
  ASSUME NEW g \in Int, NEW k \in Nat \ {0}, NEW n \in 0 .. g, g = n * k, g # 0
  PROVE  \E m \in 0 .. g - k : g - k = m * k
<1> DEFINE m == n - 1
<1>1. m \in Nat /\ g - k = m * k OBVIOUS
<1> HIDE DEF m
<1>2. m * k >= m BY <1>1
<1> QED BY <1>1, <1>2

(* The numbers of the index. *)
LEMMA IndexIs ==
  ASSUME NEW l \in LoopShape, HasIndex(l)
  PROVE  /\ l.index \in DOMAIN NormalExitPatterns(l) /\ NormalExitPatterns(l)[l.index] # <<>>
         /\ IndexStep(l) \in Int \ {0} /\ StepSize(l) \in Nat \ {0}
         /\ Up(l) \in BOOLEAN /\ Up(l) => StepSize(l) = IndexStep(l)
         /\ ~Up(l) => StepSize(l) = -IndexStep(l)
<1>1. l.index \in DOMAIN NormalExitPatterns(l) /\ NormalExitPatterns(l)[l.index] # <<>>
  BY DEF HasIndex
<1>2. IndexStep(l) \in Int \ {0} BY <1>1, PatternOf DEF IndexStep
<1> QED BY <1>1, <1>2 DEF StepSize, Up

(* What an iteration does to the scalars. *)
LEMMA AfterIs ==
  ASSUME NEW l \in LoopShape, NEW j \in DOMAIN l.steps, NEW z \in [Var -> Int]
  PROVE  LET y == After(l.steps[j], z)
         IN  /\ y \in [Var -> Int]
             /\ Changed(l.steps[j]) = {} => y = z
             /\ \A v \in Var : l.steps[j][v] = <<0>> => y[v] = z[v]
             /\ \A v \in Var \ DOMAIN NormalExitPatterns(l) : y[v] = z[v]
             /\ \A v \in DOMAIN NormalExitPatterns(l) :
                  LET p == NormalExitPatterns(l)[v]
                  IN  p # <<>> /\ Changed(l.steps[j]) # {} => y[v] = z[v] + p[1]
<1> DEFINE f == l.steps[j]
           y == After(f, z)
<1>1. f \in [Var -> Effect] BY ShapeOf
<1>2. \A v \in Var : f[v] = <<>> \/ (f[v] # <<>> /\ f[v][1] \in Int)
  BY <1>1, EffectIs
<1>3. /\ y = [v \in Var |-> IF f[v] = <<>> THEN Junk ELSE z[v] + f[v][1]]
      /\ y \in [Var -> Int]
  BY <1>2, JunkAssumption DEF After
<1>4. \A v \in Var : f[v] = <<0>> => y[v] = z[v]
  BY <1>3, OneStep
<1>5. Changed(f) = {} => \A v \in Var : y[v] = z[v] BY <1>4 DEF Changed
<1>6. \A v \in Var \ DOMAIN NormalExitPatterns(l) : y[v] = z[v]
  BY <1>4, NoPattern
<1>7. ASSUME NEW v \in DOMAIN NormalExitPatterns(l), NormalExitPatterns(l)[v] # <<>>,
             Changed(f) # {}
      PROVE  y[v] = z[v] + NormalExitPatterns(l)[v][1]
  <2>1. v \in Var /\ f[v] = NormalExitPatterns(l)[v] BY <1>7, PatternOf
  <2> HIDE DEF f, y
  <2> QED BY <1>3, <1>7, <2>1
<1>8. Changed(f) = {} => y = z
  <2> HIDE DEF f, y
  <2> QED BY <1>3, <1>5
<1> HIDE DEF f
<1> QED BY <1>3, <1>4, <1>6, <1>7, <1>8 DEF f

(* ... and to the gap between the index and its bound. *)
LEMMA GapAfter ==
  ASSUME NEW l \in LoopShape, HasIndex(l), NEW j \in DOMAIN l.steps,
         NEW z \in [Var -> Int], Changed(l.steps[j]) # {}
  PROVE  LET y == After(l.steps[j], z) IN Gap(l, y) = Gap(l, z) - StepSize(l)
<1> DEFINE y == After(l.steps[j], z)
<1> DEFINE v == l.index
<1>1. y[l.index] = z[l.index] + IndexStep(l)
  <2>1. v \in DOMAIN NormalExitPatterns(l) /\ NormalExitPatterns(l)[v] # <<>> BY IndexIs
  <2> HIDE DEF v, y
  <2>2. y[v] = z[v] + NormalExitPatterns(l)[v][1] BY <2>1, AfterIs DEF y
  <2> QED BY <2>2 DEF v, IndexStep
<1>2. y[l.bound] = z[l.bound]
  <2>1. l.steps[j][l.bound] = <<0>> BY DEF HasIndex
  <2>2. l.bound \in Var BY ShapeOf
  <2> QED BY <2>1, <2>2, AfterIs
<1>3. z[l.index] \in Int /\ z[l.bound] \in Int BY ShapeOf
<1> HIDE DEF y
<1>4. Gap(l, y) = Gap(l, z) - StepSize(l)
  <2>1. IndexStep(l) \in Int /\ (Up(l) => StepSize(l) = IndexStep(l))
        /\ (~Up(l) => StepSize(l) = -IndexStep(l))
    BY IndexIs
  <2>2. CASE Up(l) BY <1>1, <1>2, <1>3, <2>1, <2>2 DEF Gap
  <2>3. CASE ~Up(l) BY <1>1, <1>2, <1>3, <2>1, <2>3 DEF Gap
  <2> QED BY <2>2, <2>3
<1> QED BY <1>4 DEF y

(* While the condition of a bounded loop holds, the index has not met its  *)
(* bound; after another step it has not passed it by more than a step.     *)
LEMMA GapBefore ==
  ASSUME NEW l \in LoopShape, HasIndex(l), NEW e, Bounded(l, e),
         NEW z \in [Var -> Int], Moved(l, e, z), Holds(l, z)
  PROVE  /\ Gap(l, z) \in Int /\ Gap(l, z) >= IF Closed(l) THEN 0 ELSE 1
         /\ l.op = "NE" => \E n \in 0 .. Gap(l, z) - StepSize(l) :
                             Gap(l, z) - StepSize(l) = n * StepSize(l)
<1>1. z[l.index] \in Int /\ z[l.bound] \in Int BY ShapeOf
<1>2. Gap(l, z) = IF Up(l) THEN z[l.bound] - z[l.index] ELSE z[l.index] - z[l.bound]
  BY DEF Gap
<1>3. Gap(l, z) \in Int BY <1>1, <1>2
<1>4. l.op \in IF Up(l) THEN {"LT", "LE", "NE"} ELSE {"GT", "GE", "NE"}
  BY DEF Bounded
<1>5. CASE l.op = "NE"
  <2>1. Gap(l, z) # 0 BY <1>1, <1>2, <1>5 DEF Holds
  <2>2. PICK n \in 0 .. Gap(l, z) : Gap(l, z) = n * StepSize(l)
    BY <1>5 DEF Moved
  <2>3. \E m \in 0 .. Gap(l, z) - StepSize(l) : Gap(l, z) - StepSize(l) = m * StepSize(l)
    BY <1>3, <2>1, <2>2, IndexIs, OneLess
  <2>4. Gap(l, z) >= 1 BY <1>3, <2>1, <2>2
  <2>5. ~Closed(l) BY <1>5 DEF Closed
  <2> QED BY <1>3, <2>3, <2>4, <2>5
<1>6. CASE l.op # "NE"
  <2>1. CASE l.op = "LT" BY <1>1, <1>2, <1>4, <2>1 DEF Holds, Closed
  <2>2. CASE l.op = "LE" BY <1>1, <1>2, <1>4, <2>2 DEF Holds, Closed
  <2>3. CASE l.op = "GT" BY <1>1, <1>2, <1>4, <2>3 DEF Holds, Closed
  <2>4. CASE l.op = "GE" BY <1>1, <1>2, <1>4, <2>4 DEF Holds, Closed
  <2> QED BY <1>3, <1>4, <1>6, <2>1, <2>2, <2>3, <2>4
<1> QED BY <1>5, <1>6

(* A step of the loop keeps Moved. *)
LEMMA MovedByStep ==
  ASSUME NEW l \in LoopShape, NEW j \in DOMAIN l.steps,
         NEW e \in [Var -> Int], NEW z \in [Var -> Int], Moved(l, e, z),
         HasIndex(l) /\ Bounded(l, e) => Holds(l, z)
  PROVE  Moved(l, e, After(l.steps[j], z))
<1> DEFINE y == After(l.steps[j], z)
           P == NormalExitPatterns(l)
<1>1. CASE Changed(l.steps[j]) = {} BY <1>1, AfterIs
<1>2. CASE Changed(l.steps[j]) # {}
  <2>1. \A v \in Var \ DOMAIN P : y[v] = e[v] BY AfterIs DEF Moved
  <2>2. ASSUME HasIndex(l), Bounded(l, e)
        PROVE  /\ \A v \in DOMAIN P : P[v] # <<>> /\ P[v][1] \in 1 .. StepSize(l) =>
                    y[v] - e[v] \in 0 .. Gap(l, e) - Gap(l, y)
               /\ Gap(l, e) - Gap(l, y) >= 0
               /\ l.op = "NE" => \E n \in 0 .. Gap(l, y) : Gap(l, y) = n * StepSize(l)
    <3>1. Gap(l, y) = Gap(l, z) - StepSize(l) BY <1>2, <2>2, GapAfter
    <3>2. Gap(l, z) \in Int /\ Gap(l, e) \in Int /\ StepSize(l) \in Nat \ {0}
      BY <2>2, IndexIs, ShapeOf DEF Gap
    <3>3. Gap(l, e) - Gap(l, z) >= 0 BY <2>2 DEF Moved
    <3>4. ASSUME NEW v \in DOMAIN P, P[v] # <<>>, P[v][1] \in 1 .. StepSize(l)
          PROVE  y[v] - e[v] \in 0 .. Gap(l, e) - Gap(l, y)
      <4>1. y[v] = z[v] + P[v][1] BY <1>2, <3>4, AfterIs
      <4>2. z[v] - e[v] \in 0 .. Gap(l, e) - Gap(l, z) BY <2>2, <3>4 DEF Moved
      <4>3. v \in Var BY <3>4, PatternOf
      <4>4. z[v] \in Int /\ e[v] \in Int BY <4>3
      <4> HIDE DEF y, P
      <4> QED BY <3>1, <3>2, <3>4, <4>1, <4>2, <4>4
    <3>5. l.op = "NE" => \E n \in 0 .. Gap(l, y) : Gap(l, y) = n * StepSize(l)
      BY <2>2, <3>1, GapBefore
    <3> HIDE DEF y
    <3> QED BY <3>1, <3>2, <3>3, <3>4, <3>5
  <2> QED BY <2>1, <2>2 DEF Moved
<1> QED BY <1>1, <1>2

(* The number that the plugins say of a loop. *)
LEMMA CountIs ==
  ASSUME NEW l \in LoopShape, HasIndex(l), NEW e \in [Var -> Int]
  PROVE  /\ Gap(l, e) \in Int
         /\ MaxLoopCount(l, e) = (Gap(l, e) + StepSize(l) - 1) + (IF Closed(l) THEN 1 ELSE 0)
<1>1. e[l.index] \in Int /\ e[l.bound] \in Int BY ShapeOf
<1>2. /\ IndexStep(l) \in Int \ {0} /\ (Up(l) => StepSize(l) = IndexStep(l))
      /\ (~Up(l) => StepSize(l) = -IndexStep(l))
  BY IndexIs
<1>3. CASE Up(l)
  <2>1. IndexStep(l) > 0 BY <1>3 DEF Up
  <2> QED BY <1>1, <1>2, <1>3, <2>1 DEF MaxLoopCount, Gap, Closed
<1>4. CASE ~Up(l)
  <2>1. ~(IndexStep(l) > 0) BY <1>4 DEF Up
  <2> QED BY <1>1, <1>2, <1>4, <2>1 DEF MaxLoopCount, Gap, Closed
<1> QED BY <1>3, <1>4

(* The cells that an iteration stores to are among those of loop assigns.  *)
LEMMA StoredIsAssigned ==
  ASSUME NEW l \in LoopShape, ~(HasIndex(l) /\ NoRange(l)),
         NEW e \in [Var -> Int], NEW z \in [Var -> Int], Moved(l, e, z),
         NEW v \in l.store, HasIndex(l), Bounded(l, e), Holds(l, z),
         NormalExitPatterns(l)[v][1] \in 1 .. StepSize(l)
  PROVE  z[v] \in AssignedCells(l, e)
<1> DEFINE P == NormalExitPatterns(l)
           n == MaxLoopCount(l, e)
           c == z[v] - e[v]
<1>1. v \in DOMAIN P /\ P[v] # <<>> BY DEF NoRange
<1>2. c \in 0 .. Gap(l, e) - Gap(l, z) BY <1>1 DEF Moved
<1>3. z[v] \in Int /\ e[v] \in Int BY ShapeOf
<1>4. Gap(l, z) \in Int /\ Gap(l, z) >= IF Closed(l) THEN 0 ELSE 1 BY GapBefore
<1>5. /\ Gap(l, e) \in Int /\ StepSize(l) \in Nat \ {0}
      /\ n = (Gap(l, e) + StepSize(l) - 1) + (IF Closed(l) THEN 1 ELSE 0)
  BY CountIs, IndexIs
<1>6. z[v] = e[v] + c BY <1>3
<1> HIDE DEF c, n
<1>7. c \in 0 .. n - 1 BY <1>2, <1>4, <1>5
<1>8. z[v] \in {e[v] + d : d \in 0 .. n - 1} BY <1>6, <1>7
<1> QED BY <1>8 DEF AssignedCells, n

-----------------------------------------------------------------------------
(* The stages of the analysis. *)

LEMMA EnteredShape == ASSUME NEW l \in LoopShape PROVE Entered(l) \in LoopShape
<1>1. CASE Active(l) # {} BY <1>1 DEF Entered
<1>2. CASE Active(l) = {}
  <2> DEFINE new == [i \in SymbolicEntries(l) |->
                       [effect |-> [v \in Var |-> <<0>>], state |-> l.pre[i].state, ret |-> "unknown"]]
             Exit == [effect : [Var -> Effect], state : {"Break", "Return"}, ret : {"constant", "unknown"}]
             Before == [state : {"Step", "Break", "Return"}, vals : [Var -> Effect]]
  <2>1. Entered(l) = [l EXCEPT !.steps = <<>>, !.exits = new] BY <1>2 DEF Entered
  <2>2. l.pre \in Seq(Before) BY DEF LoopShape
  <2>3. SymbolicEntries(l) = 1 .. Len(l.pre) /\ Len(l.pre) \in Nat
    BY <1>2, <2>2 DEF SymbolicEntries
  <2>4. <<0>> \in Effect BY DEF Effect
  <2>5. ASSUME NEW i \in 1 .. Len(l.pre) PROVE l.pre[i].state \in {"Break", "Return"}
    <3> HIDE DEF Before
    <3>1. l.pre[i] \in Before /\ i \in DOMAIN l.pre BY <2>2, <2>5
    <3> USE DEF Before
    <3>2. l.pre[i].state # "Step" BY <1>2, <3>1 DEF Active
    <3> QED BY <3>1, <3>2
  <2>6. new \in Seq(Exit) BY <2>3, <2>4, <2>5
  <2>7. <<>> \in Seq([Var -> Effect]) OBVIOUS
  <2> HIDE DEF new
  <2> QED BY <2>1, <2>6, <2>7 DEF LoopShape
<1> QED BY <1>1, <1>2

(* The invariant of writes and variant, step by step. *)
LEMMA InitInv == RunInit => Inv
<1> SUFFICES ASSUME RunInit PROVE Inv OBVIOUS
<1>1. loop \in LoopShape BY LoopsAssumption DEF RunInit, Init
<1> QED BY <1>1 DEF RunInit, Init, Inv, StageInv, RunInv, InfoStages, getPlugins

(* The plugins are asked in the order of their group. *)
LEMMA NextPlugin ==
  ASSUME NEW s \in InfoStages, s # <<>>
  PROVE  Tail(s) \in InfoStages /\ (Head(s) # "setIndex" <=> Tail(s) # <<>>)
<1>1. CASE s = <<"SetEntryAndCurrent", "setPatterns", "setSharedState", "setIndex">>
  <2>1. Tail(s) = <<"setPatterns", "setSharedState", "setIndex">> /\ Tail(s) # <<>> BY <1>1
  <2>2. Head(s) # "setIndex" BY <1>1
  <2> QED BY <2>1, <2>2 DEF InfoStages
<1>2. CASE s = <<"setPatterns", "setSharedState", "setIndex">>
  <2>1. Tail(s) = <<"setSharedState", "setIndex">> /\ Tail(s) # <<>> BY <1>2
  <2>2. Head(s) # "setIndex" BY <1>2
  <2> QED BY <2>1, <2>2 DEF InfoStages
<1>3. CASE s = <<"setSharedState", "setIndex">>
  <2>1. Tail(s) = <<"setIndex">> /\ Tail(s) # <<>> BY <1>3
  <2>2. Head(s) # "setIndex" BY <1>3
  <2> QED BY <2>1, <2>2 DEF InfoStages
<1>4. CASE s = <<"setIndex">>
  <2>1. Tail(s) = <<>> /\ Head(s) = "setIndex" BY <1>4
  <2> QED BY <2>1 DEF InfoStages
<1> QED BY <1>1, <1>2, <1>3, <1>4 DEF InfoStages

LEMMA NextStage == StageInv /\ Analyze => StageInv'
<1> SUFFICES ASSUME StageInv, Analyze PROVE StageInv' OBVIOUS
<1>1. at' = at /\ stage # "done" /\ at = "idle"
  BY DEF Analyze, ParseLoopInfo, EmitLoopInvariant, SetEntryAndCurrent, SetPatterns,
         SetSharedState, SetIndex, EndInfo, AskInsensitive, EndInsensitive, AskSensitive,
         ApplyBest, ApplyOther, BuildPostState, Parses, rvars, StageInv
<1>2. CASE SetEntryAndCurrent
  BY <1>1, <1>2, EnteredShape, NextPlugin DEF SetEntryAndCurrent, Parses, StageInv
<1>3. CASE SetPatterns
  BY <1>1, <1>3, NextPlugin DEF SetPatterns, Parses, Abort, StageInv
<1>4. CASE SetSharedState
  BY <1>1, <1>4, NextPlugin DEF SetSharedState, Parses, StageInv
<1>5. CASE SetIndex
  BY <1>1, <1>5, NextPlugin DEF SetIndex, Parses, StageInv
<1>6. CASE EndInfo
  BY <1>1, <1>6 DEF EndInfo, Abort, StageInv
<1>7. CASE EmitLoopInvariant
  <2>1. loop' = loop /\ stage \notin {"info", "aborted"} /\ stage' # "info"
    BY <1>7 DEF EmitLoopInvariant, AskInsensitive, EndInsensitive, AskSensitive, ApplyBest,
                ApplyOther, BuildPostState, Abort
  <2> QED BY <1>1, <2>1 DEF StageInv
<1> QED BY <1>2, <1>3, <1>4, <1>5, <1>6, <1>7 DEF Analyze, ParseLoopInfo

-----------------------------------------------------------------------------
(* The run. *)

(* At the entry nothing has moved. *)
LEMMA MovedAtEntry ==
  ASSUME NEW l \in LoopShape, NEW e \in [Var -> Int]
  PROVE  Moved(l, e, e)
<1> DEFINE P == NormalExitPatterns(l)
<1> SUFFICES ASSUME HasIndex(l), Bounded(l, e)
             PROVE  /\ \A v \in DOMAIN P : P[v] # <<>> /\ P[v][1] \in 1 .. StepSize(l) =>
                         e[v] - e[v] \in 0 .. Gap(l, e) - Gap(l, e)
                    /\ Gap(l, e) - Gap(l, e) >= 0
                    /\ l.op = "NE" => \E n \in 0 .. Gap(l, e) : Gap(l, e) = n * StepSize(l)
  BY DEF Moved
<1>1. Gap(l, e) \in Int /\ StepSize(l) \in Nat \ {0} BY CountIs, IndexIs
<1>2. \A v \in DOMAIN P : P[v] # <<>> => e[v] \in Int BY PatternOf
<1>3. l.op = "NE" => \E n \in 0 .. Gap(l, e) : Gap(l, e) = n * StepSize(l)
  <2> SUFFICES ASSUME l.op = "NE" PROVE \E n \in 0 .. Gap(l, e) : Gap(l, e) = n * StepSize(l)
    OBVIOUS
  <2>1. Gap(l, e) >= 0 /\ Gap(l, e) % StepSize(l) = 0 BY DEF Bounded, Closed
  <2>2. Gap(l, e) \in Nat /\ StepSize(l) \in Nat \ {0} BY <1>1, <2>1
  <2> QED BY ONLY <2>1, <2>2, MultipleOf
<1> HIDE DEF P
<1> QED BY <1>1, <1>2, <1>3

LEMMA EnterKeepsInv == Inv /\ (\E i \in DOMAIN loop.pre : Enter(i)) => RunInv'
<1> SUFFICES ASSUME Inv, NEW i \in DOMAIN loop.pre, Enter(i) PROVE RunInv' OBVIOUS
<1>1. /\ loop' = loop /\ rounds' = rounds /\ cells' = {} /\ rounds \in Nat
      /\ x' = entry' /\ at' \in {"check", "round", "out"} /\ loop \in LoopShape
  BY DEF Enter, svars, Inv, RunInv, StageInv
<1>2. before' \in [Var -> Int] BY StartsAssumption DEF Enter
<1>3. CASE at' = "out" BY <1>1, <1>3 DEF RunInv
<1>4. CASE at' # "out"
  <2>1. /\ entry' = [v \in Var |-> IF loop.init[v] = <<>> THEN before'[v] ELSE loop.init[v][1]]
        /\ at' = IF loop.bodyFirst THEN "round" ELSE "check"
    BY <1>4 DEF Enter
  <2>2. \A v \in Var : loop.init[v] = <<>> \/ loop.init[v][1] \in Int
    <3>1. loop.init \in [Var -> Effect] BY <1>1 DEF LoopShape
    <3> QED BY <3>1, EffectIs
  <2>3. entry' \in [Var -> Int] BY <1>2, <2>1, <2>2
  <2>4. Moved(loop, entry', entry') BY <1>1, <2>3, MovedAtEntry
  <2>5. at' = "round" /\ Bounded(loop, entry') => Holds(loop, entry')
    BY <1>1, <2>1, ShapeOf DEF Bounded
  <2> QED BY <1>1, <2>3, <2>4, <2>5 DEF RunInv
<1> QED BY <1>3, <1>4

LEMMA StepKeepsInv == Inv /\ (\E j \in DOMAIN loop.steps : Step(j)) => RunInv'
<1> SUFFICES ASSUME Inv, NEW j \in DOMAIN loop.steps, Step(j) PROVE RunInv' OBVIOUS
<1>1. /\ at = "round" /\ at' = "check" /\ loop' = loop /\ entry' = entry
      /\ x' = After(loop.steps[j], x) /\ rounds' = rounds + 1
      /\ cells' = cells \cup {x[v] : v \in loop.store}
  BY DEF Step, svars, Stored
<1>2. /\ loop \in LoopShape /\ ~(HasIndex(loop) /\ NoRange(loop)) /\ rounds \in Nat
      /\ entry \in [Var -> Int] /\ x \in [Var -> Int] /\ Moved(loop, entry, x)
      /\ HasIndex(loop) /\ Bounded(loop, entry) => Holds(loop, x)
      /\ (\A v \in loop.store : MovesWithIndex(v)) => cells \subseteq AssignedCells(loop, entry)
  BY <1>1 DEF Inv, StageInv, RunInv
<1>3. x' \in [Var -> Int] BY <1>1, <1>2, AfterIs
<1>4. Moved(loop, entry, x') BY <1>1, <1>2, MovedByStep
<1>5. ASSUME \A v \in loop.store : MovesWithIndex(v)
      PROVE  cells' \subseteq AssignedCells(loop, entry)
  <2>1. ASSUME NEW v \in loop.store PROVE x[v] \in AssignedCells(loop, entry)
    <3>1. /\ HasIndex(loop) /\ Bounded(loop, entry)
          /\ NormalExitPatterns(loop)[v][1] \in 1 .. StepSize(loop)
      BY <1>5 DEF MovesWithIndex
    <3> QED BY <1>2, <3>1, StoredIsAssigned
  <2> QED BY <1>1, <1>2, <1>5, <2>1
<1>6. (\A v \in loop.store : MovesWithIndex(v))' <=> \A v \in loop.store : MovesWithIndex(v)
  BY <1>1 DEF MovesWithIndex
<1>7. rounds' \in Nat BY <1>1, <1>2
<1> QED BY <1>1, <1>2, <1>3, <1>4, <1>5, <1>6, <1>7 DEF RunInv

LEMMA NextInv == Inv /\ [Next]_vars => Inv'
<1> SUFFICES ASSUME Inv, [Next]_vars PROVE Inv' OBVIOUS
<1>1. CASE Analyze
  <2>1. StageInv' BY <1>1, NextStage DEF Inv
  <2>2. at = "idle" /\ UNCHANGED rvars
    BY <1>1 DEF Analyze, ParseLoopInfo, EmitLoopInvariant, SetEntryAndCurrent, SetPatterns,
         SetSharedState, SetIndex, EndInfo, AskInsensitive, EndInsensitive, AskSensitive,
         ApplyBest, ApplyOther, BuildPostState, Parses, rvars, StageInv, Inv
  <2>3. RunInv' BY <2>2 DEF Inv, RunInv, rvars
  <2> QED BY <2>1, <2>3 DEF Inv
<1>2. CASE RunLoop
  <2>1. StageInv'
    BY <1>2 DEF RunLoop, Enter, Continue, Leave, Step, Interrupt, svars, Inv, StageInv
  <2>2. ASSUME Continue PROVE RunInv'
    BY <2>2 DEF Continue, svars, Inv, RunInv, MovesWithIndex
  <2>3. ASSUME Leave PROVE RunInv'
    BY <2>3 DEF Leave, svars, Inv, RunInv
  <2>4. ASSUME NEW j \in DOMAIN loop.exits, Interrupt(j) PROVE RunInv'
    BY <2>4 DEF Interrupt, svars, Inv, RunInv
  <2>5. RunInv'
    BY <1>2, <2>2, <2>3, <2>4, EnterKeepsInv, StepKeepsInv DEF RunLoop
  <2> QED BY <2>1, <2>5 DEF Inv
<1>3. CASE UNCHANGED vars
  BY <1>3 DEF vars, svars, rvars, Inv, StageInv, RunInv, MovesWithIndex
<1> QED BY <1>1, <1>2, <1>3 DEF Next

-----------------------------------------------------------------------------
(* What the result of the plugins may say, and what a run then finds.      *)

(* What may be said of the scalar v after the loop l: nothing, what StInGX *)
(* has solved, or that it is what it was if no path through l changes it;  *)
(* of leaving by the condition, also what loopAssigns knows.               *)
MaySay(l, v, said) ==
  \/ said \in {Unknown, Solved}
  \/ v \in LeftAlone(l) /\ said = AtEntry
  \/ v \in LeftAlone(l) /\ SharedConstants(l)[v] # <<>> /\ said = Constant(SharedConstants(l)[v][1])

MaySayNormal(l, v, said) ==
  \/ MaySay(l, v, said)
  \/ HasIndex(l) /\ v \in Assigned(l) /\ said = ValueAfter(l, NormalExitPatterns(l)[v])

IsInfo(info) ==
  /\ info = Info(info.mem, info.conds, info.state, info.ret)
  /\ info.mem = [v \in DOMAIN info.mem |-> info.mem[v]] /\ DOMAIN info.mem \subseteq Var

(* What a path sensitive plugin may answer. *)
PathInfo(l, info, conds, state, rets) ==
  /\ IsInfo(info) /\ info.conds \subseteq conds /\ info.state = state /\ info.ret \in rets
  /\ \A v \in DOMAIN info.mem : MaySay(l, v, info.mem[v])

ExitRets(out) == IF out.state = "Return" THEN {{"unknown"}, {out.ret}} ELSE {{}, {"unknown"}}

ExitPath(l, out, info, conds) == PathInfo(l, info, conds, out.state, ExitRets(out))

Answer(l, r) ==
  /\ r.priority \in {0, 100} /\ (r.priority = 100 => HasIndex(l) /\ Unit(l))
  /\ IsSeq(r.normal)
  /\ \A k \in DOMAIN r.normal :
       PathInfo(l, r.normal[k], IF r.priority = 100 THEN {"none"} ELSE {}, "Step", {{}, {"unknown"}})
  /\ DOMAIN r.interrupts = DOMAIN l.exits /\ IsSeq(r.interrupts)
  /\ \A j \in DOMAIN l.exits :
       /\ IsSeq(r.interrupts[j])
       /\ \A k \in DOMAIN r.interrupts[j] :
            PathInfo(l, r.interrupts[j][k], IF r.priority = 100 THEN {"some"} ELSE {},
                     l.exits[j].state, ExitRets(l.exits[j]))

Paths(l, infos, conds, state, rets) ==
  IsSeq(infos) /\ \A k \in DOMAIN infos : PathInfo(l, infos[k], conds, state, rets)

ExitPaths(l, out, infos, conds) ==
  IsSeq(infos) /\ \A k \in DOMAIN infos : ExitPath(l, out, infos[k], conds)

(* The infos of resultInfos; won: a search has the highest priority. *)
NormalInfo(l, info, won) ==
  /\ IsInfo(info) /\ info.state = "Step" /\ info.ret = {}
  /\ info.conds \subseteq {"window", "none"}
  /\ "window" \in info.conds => HasIndex(l) /\ ~Precise(l)
  /\ "none" \in info.conds => won
  /\ \A v \in DOMAIN info.mem : MaySayNormal(l, v, info.mem[v])

ExitInfo(l, out, info, won) ==
  /\ IsInfo(info) /\ info.state \in {"Step", out.state} /\ info.ret \subseteq {out.ret}
  /\ info.conds \subseteq {"some"} /\ ("some" \in info.conds => won)
  /\ \A v \in DOMAIN info.mem : MaySay(l, v, info.mem[v])

NormalInfos(l, infos, won) ==
  IsSeq(infos) /\ \A k \in DOMAIN infos : NormalInfo(l, infos[k], won)

ExitInfos(l, out, infos, won) ==
  IsSeq(infos) /\ \A k \in DOMAIN infos : ExitInfo(l, out, infos[k], won)

Touched(l, out) == Assigned(l) \cup Changed(out.effect)

SearchOf(l, b) == b # <<>> /\ b[1].priority = 100 /\ HasIndex(l) /\ Unit(l)

(* The plugins still to come have no say on the memory. *)
Spoken == todo \in {<<"paradigmMaxMin", "loopVariant">>, <<"loopVariant">>, <<>>}

InsensitiveStages ==
  IF HasIndex(loop)
  THEN {<<"checkAndDumpLoopInfo", "loopAssigns", "paradigmMaxMin", "loopVariant">>,
        <<"loopAssigns", "paradigmMaxMin", "loopVariant">>,
        <<"paradigmMaxMin", "loopVariant">>, <<"loopVariant">>, <<>>}
  ELSE {<<"checkAndDumpLoopInfo", "complexLoopAssigns">>, <<"complexLoopAssigns">>, <<>>}

SensitiveStages ==
  IF HasIndex(loop) THEN {<<"paradigmSearch", "StInGXPlugin">>, <<"StInGXPlugin">>, <<>>}
                    ELSE {<<"StInGXPluginForComplexLoop">>, <<>>}

Emitting == stage \in {"insensitive", "sensitive", "others", "done"}

InfosInv ==
  LET won == SearchOf(loop, best)
  IN  /\ IsSeq(normal) /\ \A k \in DOMAIN normal : NormalInfo(loop, normal[k], won)
      /\ DOMAIN interrupts = DOMAIN loop.exits
      /\ interrupts = [j \in DOMAIN interrupts |-> interrupts[j]]
      /\ \A j \in DOMAIN loop.exits :
           /\ IsSeq(interrupts[j])
           /\ \A k \in DOMAIN interrupts[j] : ExitInfo(loop, loop.exits[j], interrupts[j][k], won)

CoverInv ==
  /\ normal # <<>> /\ \A k \in DOMAIN normal : Assigned(loop) \subseteq DOMAIN normal[k].mem
  /\ \A j \in DOMAIN loop.exits :
       /\ interrupts[j] # <<>>
       /\ \A k \in DOMAIN interrupts[j] : Touched(loop, loop.exits[j]) \subseteq DOMAIN interrupts[j][k].mem

StatesInv ==
  \A j \in DOMAIN loop.exits : \A k \in DOMAIN interrupts[j] :
    interrupts[j][k].state = loop.exits[j].state

AnswersInv ==
  /\ best = <<>> \/ (best = <<best[1]>> /\ Answer(loop, best[1]))
  /\ IsSeq(others) /\ \A k \in DOMAIN others : Answer(loop, others[k]) /\ others[k].priority = 0
  /\ stage = "sensitive" /\ todo = <<"paradigmSearch", "StInGXPlugin">> => best = <<>> /\ others = <<>>

EmitInv ==
  /\ "index" \in parts => HasIndex(loop)
  /\ stage = "info" => /\ best = <<>> /\ others = <<>> /\ normal = <<>>
                       /\ todo # <<>> => "index" \notin parts
  /\ stage = "insensitive" => /\ todo \in InsensitiveStages
                              /\ best = <<>> /\ others = <<>>
  /\ Emitting => /\ HasIndex(loop) => "index" \in parts
                 /\ InfosInv /\ AnswersInv
                 /\ stage # "insensitive" \/ Spoken => CoverInv
  /\ stage = "sensitive" => todo \in SensitiveStages
  /\ stage \in {"others", "done"} /\ best # <<>> => StatesInv
  /\ stage = "done" => posts = FlattenSeq([i \in DOMAIN loop.pre |-> PostPaths(i)])

(* More of how the scalars move: not past the bound by a step, and those   *)
(* that step with the index, or beside an index that steps by one, exactly.*)
Followed(l, e, z, t) ==
  HasIndex(l) /\ Bounded(l, e) =>
    /\ Gap(l, z) >= (IF Closed(l) THEN 0 ELSE 1) - StepSize(l)
    /\ \A v \in DOMAIN NormalExitPatterns(l) :
         LET p == NormalExitPatterns(l)[v]
             n == Gap(l, e) - Gap(l, z)
         IN  p # <<>> => /\ p[1] = StepSize(l) => z[v] - e[v] = n
                         /\ p[1] = -StepSize(l) => e[v] - z[v] = n
                         /\ StepSize(l) = 1 => z[v] - e[v] = p[1] * n
    /\ StepSize(l) = 1 /\ Up(l) => e[l.index] .. z[l.index] - 1 \subseteq t

Searched(l, e) == e[l.index] .. e[l.bound] - 1

EnteredInv ==
  /\ at = "idle" => exit = 0 /\ tested = {} /\ met = {}
  /\ at # "idle" =>
       /\ from \in DOMAIN loop.pre /\ before \in [Var -> Int] /\ entry \in [Var -> Int]
       /\ loop.pre[from].state # "Step" => at = "out" /\ exit = 0 /\ x = before
       /\ loop.pre[from].state = "Step" =>
            \A v \in Var : /\ entry[v] = IF loop.init[v] = <<>> THEN before[v] ELSE loop.init[v][1]
                           /\ loop.pre[from].vals[v] \in {<<>>, <<before[v]>>}
  /\ at \in {"check", "round"} =>
       exit = 0 /\ met = {} /\ Followed(loop, entry, x, tested)

LeftInv ==
  at = "out" /\ loop.pre[from].state = "Step" =>
    IF exit = 0
    THEN /\ x \in [Var -> Int] /\ Moved(loop, entry, x) /\ Followed(loop, entry, x, tested)
         /\ HasIndex(loop) /\ Bounded(loop, entry) /\ ~loop.more => ~Holds(loop, x)
    ELSE /\ exit \in DOMAIN loop.exits
         /\ \A v \in Var \ DOMAIN NormalExitPatterns(loop) :
              loop.exits[exit].effect[v] = <<0>> => x[v] = entry[v]
         /\ \E m \in met : /\ met = {m}
                           /\ HasIndex(loop) /\ Bounded(loop, entry) /\ Up(loop) /\ ~Closed(loop) =>
                                m \in Searched(loop, entry)

-----------------------------------------------------------------------------
(* What the plugins answer. *)

(* The parts of an info. *)
LEMMA InfoIs ==
  ASSUME NEW mem, NEW conds, NEW state, NEW ret
  PROVE  /\ Info(mem, conds, state, ret).mem = mem
         /\ Info(mem, conds, state, ret).conds = conds
         /\ Info(mem, conds, state, ret).state = state
         /\ Info(mem, conds, state, ret).ret = ret
BY DEF Info

(* The exits of a loop. *)
LEMMA ExitsOf ==
  ASSUME NEW l \in LoopShape
  PROVE  /\ IsSeq(l.exits) /\ Len(l.exits) \in Nat /\ DOMAIN l.exits = 1 .. Len(l.exits)
         /\ \A j \in DOMAIN l.exits : /\ l.exits[j].state \in {"Break", "Return"}
                                      /\ l.exits[j].effect \in [Var -> Effect]
<1> DEFINE E == [effect : [Var -> Effect], state : {"Break", "Return"}, ret : {"constant", "unknown"}]
<1>1. l.exits \in Seq(E) BY DEF LoopShape
<1>2. IsSeq(l.exits) BY <1>1, SeqIs
<1>3. ASSUME NEW j \in DOMAIN l.exits PROVE l.exits[j] \in E
  <2> HIDE DEF E
  <2> QED BY <1>1
<1> QED BY <1>2, <1>3 DEF IsSeq

LEMMA NothingIs == DOMAIN Nothing = {} /\ Nothing = [v \in DOMAIN Nothing |-> Nothing[v]]
BY DEF Nothing

(* A memory that an invariant plugin hands on says only what holds. *)
LEMMA PostMemoryIs ==
  ASSUME NEW l, NEW mem \in PostMemories(l)
  PROVE  /\ mem = [v \in DOMAIN mem |-> mem[v]] /\ DOMAIN mem \subseteq Var
         /\ \A v \in DOMAIN mem : MaySay(l, v, mem[v])
<1> DEFINE known == SharedConstants(l)
           kept == [v \in LeftAlone(l) |-> AtEntry]
           consts == [v \in DOMAIN kept |-> IF known[v] = <<>> THEN AtEntry ELSE Constant(known[v][1])]
           all == [v \in Var |-> IF v \in DOMAIN kept THEN AtEntry ELSE Solved]
<1>1. mem \in {Nothing, kept, consts, all} BY DEF PostMemories
<1>2. LeftAlone(l) \subseteq Var BY DEF LeftAlone
<1>3. CASE mem = Nothing BY <1>3, NothingIs
<1>4. CASE mem = kept BY <1>2, <1>4 DEF MaySay
<1>5. CASE mem = consts BY <1>2, <1>5 DEF MaySay
<1>6. CASE mem = all BY <1>2, <1>6 DEF MaySay
<1> QED BY <1>1, <1>3, <1>4, <1>5, <1>6

(* paradigmSearch answers with one info for the condition and one for its exit. *)
LEMMA SearchAnswer ==
  ASSUME NEW l \in LoopShape, HasIndex(l), NEW a \in SearchAnswers(l), a # <<>>
  PROVE  a = <<a[1]>> /\ Answer(l, a[1])
<1> DEFINE out == l.exits[1]
           ret == IF out.state = "Return" THEN {out.ret} ELSE {}
           m == Info(Nothing, {"none"}, "Step", {})
           s == Info(Nothing, {"some"}, out.state, ret)
           r == [priority |-> 100, normal |-> <<m>>, interrupts |-> << <<s>> >>]
<1>1. Len(l.exits) = 1 /\ Unit(l) /\ a = <<r>> BY DEF SearchAnswers
<1>2. IsInfo(m) /\ IsInfo(s) BY NothingIs, InfoIs DEF IsInfo
<1>3. PathInfo(l, m, {"none"}, "Step", {{}, {"unknown"}})
  BY <1>2, InfoIs, NothingIs DEF PathInfo
<1>4. PathInfo(l, s, {"some"}, out.state, ExitRets(out))
  BY <1>2, InfoIs, NothingIs DEF PathInfo, ExitRets
<1> HIDE DEF m, s, out
<1>5. /\ r.priority = 100 /\ r.normal = <<m>> /\ r.interrupts = << <<s>> >> OBVIOUS
<1>6. DOMAIN l.exits = {1} BY <1>1, ExitsOf
<1> HIDE DEF r
<1>7. Answer(l, r)
  <2>1. /\ IsSeq(<<m>>) /\ DOMAIN <<m>> = {1} /\ <<m>>[1] = m
        /\ IsSeq(<<s>>) /\ DOMAIN <<s>> = {1} /\ <<s>>[1] = s
        /\ IsSeq(<< <<s>> >>) /\ DOMAIN << <<s>> >> = {1} /\ << <<s>> >>[1] = <<s>>
    BY SingletonIsSeq
  <2>2. \A k \in DOMAIN r.normal : PathInfo(l, r.normal[k], {"none"}, "Step", {{}, {"unknown"}})
    BY <1>3, <1>5, <2>1
  <2>3. r.interrupts[1] = <<s>> /\ l.exits[1] = out BY <1>5, <2>1 DEF out
  <2>4. \A k \in DOMAIN <<s>> : PathInfo(l, <<s>>[k], {"some"}, out.state, ExitRets(out))
    BY <1>4, <2>1
  <2>5. \A j \in DOMAIN l.exits :
          /\ IsSeq(r.interrupts[j])
          /\ \A k \in DOMAIN r.interrupts[j] :
               PathInfo(l, r.interrupts[j][k], {"some"}, l.exits[j].state, ExitRets(l.exits[j]))
    BY <1>6, <2>1, <2>3, <2>4
  <2> QED BY <1>1, <1>5, <1>6, <2>1, <2>2, <2>5 DEF Answer
<1> QED BY <1>1, <1>7

(* The StInGX plugins answer with any number of infos for each way out. *)
LEMMA InvariantAnswer ==
  ASSUME NEW l \in LoopShape, NEW most \in Nat, NEW a \in Invariants(l, most)
  PROVE  a # <<>> /\ a = <<a[1]>> /\ Answer(l, a[1]) /\ a[1].priority = 0
<1> DEFINE Ret(j) == IF l.exits[j].state = "Return" THEN {"unknown"} ELSE {}
           N(mem) == Info(mem, {}, "Step", {})
           X(mem, j) == Info(mem, {}, l.exits[j].state, Ret(j))
<1>1. PICK mem \in PostMemories(l), m \in [0 .. Len(l.exits) -> 0 .. most] :
        a = <<Disjuncts(l, m, mem)>>
  BY DEF Invariants
<1>2. /\ mem = [v \in DOMAIN mem |-> mem[v]] /\ DOMAIN mem \subseteq Var
      /\ \A v \in DOMAIN mem : MaySay(l, v, mem[v])
  BY PostMemoryIs
<1>3. PathInfo(l, N(mem), {}, "Step", {{}, {"unknown"}})
  BY <1>2, InfoIs DEF PathInfo, IsInfo
<1>4. \A j \in DOMAIN l.exits : PathInfo(l, X(mem, j), {}, l.exits[j].state, ExitRets(l.exits[j]))
  BY <1>2, InfoIs DEF PathInfo, IsInfo, ExitRets
<1> DEFINE nn == [k \in 1 .. m[0] |-> N(mem)]
           xx == [j \in DOMAIN l.exits |-> [k \in 1 .. m[j] |-> X(mem, j)]]
           r == [priority |-> 0, normal |-> nn, interrupts |-> xx]
<1> HIDE DEF N, X
<1>5. a = <<r>> BY <1>1 DEF Disjuncts, N, X
<1>12. m[0] \in Nat /\ \A j \in DOMAIN l.exits : m[j] \in Nat BY ExitsOf
<1>6. IsSeq(nn) /\ DOMAIN nn = 1 .. m[0] /\ \A k \in DOMAIN nn : nn[k] = N(mem)
  <2>1. nn = [k \in 1 .. m[0] |-> nn[k]] OBVIOUS
  <2> HIDE DEF nn
  <2>2. IsSeq(nn) BY <1>12, <2>1, FunctionIsSeq
  <2> QED BY <2>1, <2>2 DEF nn
<1>7. ASSUME NEW j \in DOMAIN l.exits
      PROVE  IsSeq(xx[j]) /\ DOMAIN xx[j] = 1 .. m[j] /\ \A k \in DOMAIN xx[j] : xx[j][k] = X(mem, j)
  <2> DEFINE f == xx[j]
  <2>1. f = [k \in 1 .. m[j] |-> X(mem, j)] OBVIOUS
  <2>4. m[j] \in Nat BY <1>12
  <2> HIDE DEF f
  <2>2. m[j] \in Nat /\ f = [k \in 1 .. m[j] |-> f[k]] BY <2>1, <2>4
  <2>3. IsSeq(f) BY <2>2, FunctionIsSeq
  <2> QED BY <2>1, <2>3 DEF f
<1>8. IsSeq(xx)
  <2>1. xx = [j \in 1 .. Len(l.exits) |-> xx[j]] BY ExitsOf
  <2> HIDE DEF xx
  <2> QED BY <2>1, ExitsOf, FunctionIsSeq
<1>9. DOMAIN xx = DOMAIN l.exits OBVIOUS
<1>10. r.priority = 0 /\ r.normal = nn /\ r.interrupts = xx OBVIOUS
<1> HIDE DEF nn, xx, r
<1>11. Answer(l, r) BY <1>3, <1>4, <1>6, <1>7, <1>8, <1>9, <1>10 DEF Answer
<1> QED BY <1>5, <1>10, <1>11

LEMMA AnswerIs ==
  ASSUME NEW l \in LoopShape, NEW a, a # <<>>,
         NEW plugin \in {"paradigmSearch", "StInGXPlugin", "StInGXPluginForComplexLoop"},
         a \in Answers(plugin, l), plugin = "paradigmSearch" => HasIndex(l)
  PROVE  a = <<a[1]>> /\ Answer(l, a[1]) /\ (plugin # "paradigmSearch" => a[1].priority = 0)
<1>1. CASE plugin = "paradigmSearch" BY <1>1, SearchAnswer DEF Answers
<1>2. CASE plugin = "StInGXPlugin"
  <2>1. \E most \in Nat : a \in Invariants(l, most)
    BY <1>2, MaxInfosAssumption DEF Answers, StInGXAnswers
  <2> QED BY <1>2, <2>1, InvariantAnswer
<1>3. CASE plugin = "StInGXPluginForComplexLoop"
  <2>1. \E most \in Nat : a \in Invariants(l, most)
    BY <1>3, MaxInfosAssumption DEF Answers, ComplexStInGXAnswers
  <2> QED BY <1>3, <2>1, InvariantAnswer
<1> QED BY <1>1, <1>2, <1>3

-----------------------------------------------------------------------------
(* What is learned from them. *)

(* learnFrom adds what was unknown, and overwrites nothing else. *)
LEMMA LearnIs ==
  ASSUME NEW info, NEW new, IsInfo(info), IsInfo(new)
  PROVE  LET r == Learn(info, new)
         IN  /\ IsInfo(r) /\ r.state = info.state /\ r.ret = info.ret
             /\ r.conds = info.conds \cup new.conds
             /\ DOMAIN r.mem = DOMAIN info.mem \cup DOMAIN new.mem
             /\ \A v \in DOMAIN r.mem : \/ v \in DOMAIN info.mem /\ r.mem[v] = info.mem[v]
                                        \/ v \in DOMAIN new.mem /\ r.mem[v] = new.mem[v]
<1> DEFINE mem == [v \in DOMAIN info.mem \cup DOMAIN new.mem |->
                     IF v \in DOMAIN new.mem \ Known(info) THEN new.mem[v] ELSE info.mem[v]]
           r == Learn(info, new)
<1>0. r = [info EXCEPT !.mem = mem, !.conds = info.conds \cup new.conds] BY DEF Learn
<1>2. Known(info) \subseteq DOMAIN info.mem BY DEF Known
<1>3. /\ mem = [v \in DOMAIN mem |-> mem[v]]
      /\ DOMAIN mem = DOMAIN info.mem \cup DOMAIN new.mem /\ DOMAIN mem \subseteq Var
      /\ \A v \in DOMAIN mem : \/ v \in DOMAIN info.mem /\ mem[v] = info.mem[v]
                               \/ v \in DOMAIN new.mem /\ mem[v] = new.mem[v]
  BY <1>2 DEF IsInfo
<1> HIDE DEF mem, r
<1>1. r = Info(mem, info.conds \cup new.conds, info.state, info.ret)
  <2>1. info = Info(info.mem, info.conds, info.state, info.ret) BY DEF IsInfo
  <2> QED BY <1>0, <2>1 DEF Info
<1>4. /\ r.mem = mem /\ r.conds = info.conds \cup new.conds
      /\ r.state = info.state /\ r.ret = info.ret
  BY <1>1, InfoIs
<1>5. IsInfo(r) BY <1>1, <1>3, <1>4 DEF IsInfo
<1> QED BY <1>3, <1>4, <1>5 DEF r

LEMMA LearnPathIs ==
  ASSUME NEW info, NEW new, IsInfo(info), IsInfo(new)
  PROVE  LET r == LearnPath(info, new)
         IN  /\ IsInfo(r) /\ r.state = new.state
             /\ r.ret = IF new.state = "Return" /\ new.ret # {"unknown"} THEN new.ret ELSE info.ret
             /\ r.conds = info.conds \cup new.conds
             /\ DOMAIN r.mem = DOMAIN info.mem \cup DOMAIN new.mem
             /\ \A v \in DOMAIN r.mem : \/ v \in DOMAIN info.mem /\ r.mem[v] = info.mem[v]
                                        \/ v \in DOMAIN new.mem /\ r.mem[v] = new.mem[v]
<1> DEFINE s == Learn(info, new)
           r == LearnPath(info, new)
           ret == IF new.state = "Return" /\ new.ret # {"unknown"} THEN new.ret ELSE s.ret
<1>1. IsInfo(s) /\ s.ret = info.ret BY LearnIs
<1>2. r = [s EXCEPT !.state = new.state, !.ret = ret] BY DEF LearnPath
<1> HIDE DEF s, r, ret
<1>3. s = Info(s.mem, s.conds, s.state, s.ret) BY <1>1 DEF IsInfo
<1>4. r = Info(s.mem, s.conds, new.state, ret) BY <1>2, <1>3 DEF Info
<1>5. r.mem = s.mem /\ r.conds = s.conds /\ r.state = new.state /\ r.ret = ret BY <1>4, InfoIs
<1>6. IsInfo(r) BY <1>1, <1>4, <1>5 DEF IsInfo
<1> QED BY <1>1, <1>5, <1>6, LearnIs DEF s, r, ret

(* What mergeAllPostInfos keeps is said by each info that speaks of it. *)
LEMMA MergedIs ==
  ASSUME NEW l, NEW infos, IsSeq(infos), infos # <<>>, NEW conds, NEW state, NEW rets,
         {"unknown"} \in rets, \A k \in DOMAIN infos : PathInfo(l, infos[k], conds, state, rets)
  PROVE  PathInfo(l, MergeAllPostInfos(infos), conds, state, rets)
<1> DEFINE first == infos[1]
           Agree(v) == \A k \in DOMAIN infos :
                         v \in DOMAIN infos[k].mem => infos[k].mem[v] = first.mem[v]
           mem == [v \in DOMAIN first.mem |-> IF Agree(v) THEN first.mem[v] ELSE Unknown]
           cs == {c \in first.conds : \A k \in DOMAIN infos : c \in infos[k].conds}
           ret == IF \A k \in DOMAIN infos : infos[k].ret = first.ret THEN first.ret ELSE {"unknown"}
           r == MergeAllPostInfos(infos)
<1>1. 1 \in DOMAIN infos BY HeadAndTail
<1>2. PathInfo(l, first, conds, state, rets) BY <1>1
<1>3. r = [first EXCEPT !.mem = mem, !.conds = cs, !.ret = ret] BY DEF MergeAllPostInfos
<1>4. mem = [v \in DOMAIN mem |-> mem[v]] /\ DOMAIN mem = DOMAIN first.mem OBVIOUS
<1>5. \A v \in DOMAIN mem : mem[v] = first.mem[v] \/ mem[v] = Unknown OBVIOUS
<1>6. cs \subseteq first.conds /\ ret \in {first.ret, {"unknown"}} OBVIOUS
<1> HIDE DEF mem, cs, ret, r, first
<1>7. first = Info(first.mem, first.conds, first.state, first.ret) BY <1>2 DEF PathInfo, IsInfo
<1>8. r = Info(mem, cs, first.state, ret) BY <1>3, <1>7 DEF Info
<1>9. r.mem = mem /\ r.conds = cs /\ r.state = first.state /\ r.ret = ret BY <1>8, InfoIs
<1>10. IsInfo(r) BY <1>2, <1>4, <1>8, <1>9 DEF IsInfo, PathInfo
<1>11. \A v \in DOMAIN mem : MaySay(l, v, mem[v])
  BY <1>2, <1>4, <1>5 DEF PathInfo, MaySay
<1> QED BY <1>2, <1>6, <1>9, <1>10, <1>11 DEF PathInfo, r

(* Learning keeps what an info of the condition, or of an exit, may state. *)
LEMMA LearnNormal ==
  ASSUME NEW l, NEW won, NEW info, NEW new, NormalInfo(l, info, won), NormalInfo(l, new, won)
  PROVE  /\ NormalInfo(l, Learn(info, new), won)
         /\ DOMAIN Learn(info, new).mem = DOMAIN info.mem \cup DOMAIN new.mem
<1> DEFINE r == Learn(info, new)
<1>1. IsInfo(info) /\ IsInfo(new) BY DEF NormalInfo
<1>2. /\ IsInfo(r) /\ r.state = info.state /\ r.ret = info.ret
      /\ r.conds = info.conds \cup new.conds
      /\ DOMAIN r.mem = DOMAIN info.mem \cup DOMAIN new.mem
      /\ \A v \in DOMAIN r.mem : \/ v \in DOMAIN info.mem /\ r.mem[v] = info.mem[v]
                                 \/ v \in DOMAIN new.mem /\ r.mem[v] = new.mem[v]
  BY <1>1, LearnIs
<1> HIDE DEF r
<1>3. \A v \in DOMAIN r.mem : MaySayNormal(l, v, r.mem[v]) BY <1>2 DEF NormalInfo
<1>4. NormalInfo(l, r, won) BY <1>2, <1>3 DEF NormalInfo
<1> QED BY <1>2, <1>4 DEF r

LEMMA LearnExit ==
  ASSUME NEW l, NEW won, NEW out, NEW info, NEW new,
         ExitInfo(l, out, info, won), ExitInfo(l, out, new, won)
  PROVE  /\ ExitInfo(l, out, Learn(info, new), won)
         /\ DOMAIN Learn(info, new).mem = DOMAIN info.mem \cup DOMAIN new.mem
<1> DEFINE r == Learn(info, new)
<1>1. IsInfo(info) /\ IsInfo(new) BY DEF ExitInfo
<1>2. /\ IsInfo(r) /\ r.state = info.state /\ r.ret = info.ret
      /\ r.conds = info.conds \cup new.conds
      /\ DOMAIN r.mem = DOMAIN info.mem \cup DOMAIN new.mem
      /\ \A v \in DOMAIN r.mem : \/ v \in DOMAIN info.mem /\ r.mem[v] = info.mem[v]
                                 \/ v \in DOMAIN new.mem /\ r.mem[v] = new.mem[v]
  BY <1>1, LearnIs
<1> HIDE DEF r
<1>3. \A v \in DOMAIN r.mem : MaySay(l, v, r.mem[v]) BY <1>2 DEF ExitInfo
<1>4. ExitInfo(l, out, r, won) BY <1>2, <1>3 DEF ExitInfo
<1> QED BY <1>2, <1>4 DEF r

LEMMA LearnPathNormal ==
  ASSUME NEW l, NEW won, NEW conds, conds \subseteq {"none"}, conds # {} => won,
         NEW rets, NEW info, NEW new,
         NormalInfo(l, info, won), PathInfo(l, new, conds, "Step", rets)
  PROVE  /\ NormalInfo(l, LearnPath(info, new), won)
         /\ DOMAIN info.mem \subseteq DOMAIN LearnPath(info, new).mem
<1> DEFINE r == LearnPath(info, new)
<1>1. IsInfo(info) /\ IsInfo(new) /\ new.state = "Step" BY DEF NormalInfo, PathInfo
<1>2. /\ IsInfo(r) /\ r.state = "Step" /\ r.ret = info.ret
      /\ r.conds = info.conds \cup new.conds
      /\ DOMAIN r.mem = DOMAIN info.mem \cup DOMAIN new.mem
      /\ \A v \in DOMAIN r.mem : \/ v \in DOMAIN info.mem /\ r.mem[v] = info.mem[v]
                                 \/ v \in DOMAIN new.mem /\ r.mem[v] = new.mem[v]
  BY <1>1, LearnPathIs
<1> HIDE DEF r
<1>3. \A v \in DOMAIN r.mem : MaySayNormal(l, v, r.mem[v])
  BY <1>2 DEF NormalInfo, PathInfo, MaySayNormal
<1>4. NormalInfo(l, r, won) BY <1>2, <1>3 DEF NormalInfo, PathInfo
<1> QED BY <1>2, <1>4 DEF r

LEMMA LearnPathExit ==
  ASSUME NEW l, NEW won, NEW conds, conds \subseteq {"some"}, conds # {} => won,
         NEW out, NEW info, NEW new,
         ExitInfo(l, out, info, won), ExitPath(l, out, new, conds)
  PROVE  /\ ExitInfo(l, out, LearnPath(info, new), won)
         /\ DOMAIN info.mem \subseteq DOMAIN LearnPath(info, new).mem
<1> DEFINE r == LearnPath(info, new)
<1>1. IsInfo(info) /\ IsInfo(new) /\ new.state = out.state /\ new.ret \in ExitRets(out)
  BY DEF ExitInfo, ExitPath, PathInfo
<1>2. /\ IsInfo(r) /\ r.state = out.state
      /\ r.ret = IF new.state = "Return" /\ new.ret # {"unknown"} THEN new.ret ELSE info.ret
      /\ r.conds = info.conds \cup new.conds
      /\ DOMAIN r.mem = DOMAIN info.mem \cup DOMAIN new.mem
      /\ \A v \in DOMAIN r.mem : \/ v \in DOMAIN info.mem /\ r.mem[v] = info.mem[v]
                                 \/ v \in DOMAIN new.mem /\ r.mem[v] = new.mem[v]
  BY <1>1, LearnPathIs
<1> HIDE DEF r
<1>3. \A v \in DOMAIN r.mem : MaySay(l, v, r.mem[v]) BY <1>2 DEF ExitInfo, ExitPath, PathInfo
<1>4. r.ret \subseteq {out.ret} BY <1>1, <1>2 DEF ExitInfo, ExitRets
<1>5. ExitInfo(l, out, r, won) BY <1>2, <1>3, <1>4 DEF ExitInfo, ExitPath, PathInfo
<1> QED BY <1>2, <1>5 DEF r

-----------------------------------------------------------------------------
(* The infos of one way out. *)

(* Without an answer the result starts from an info that states nothing. *)
LEMMA NoInfoIs ==
  /\ NoInfo.mem = Nothing /\ NoInfo.conds = {} /\ NoInfo.state = "Step" /\ NoInfo.ret = {}
  /\ \A l, won : NormalInfo(l, NoInfo, won)
  /\ \A l, out, won : ExitInfo(l, out, NoInfo, won)
<1>1. NoInfo.mem = Nothing /\ NoInfo.conds = {} /\ NoInfo.state = "Step" /\ NoInfo.ret = {}
  BY InfoIs DEF NoInfo
<1>2. IsInfo(NoInfo)
  <2>1. NoInfo = Info(NoInfo.mem, NoInfo.conds, NoInfo.state, NoInfo.ret) BY <1>1 DEF NoInfo
  <2> QED BY <1>1, <2>1, NothingIs DEF IsInfo
<1>3. \A l, won : NormalInfo(l, NoInfo, won) BY <1>1, <1>2, NothingIs DEF NormalInfo
<1>4. \A l, out, won : ExitInfo(l, out, NoInfo, won) BY <1>1, <1>2, NothingIs DEF ExitInfo
<1> QED BY <1>1, <1>3, <1>4

LEMMA OrNoInfoIs ==
  ASSUME NEW infos, IsSeq(infos)
  PROVE  LET r == OrNoInfo(infos)
         IN  /\ IsSeq(r) /\ 1 \in DOMAIN r /\ DOMAIN r = 1 .. Len(r) /\ Len(r) \in Nat
             /\ \A k \in DOMAIN r : r[k] = NoInfo \/ (k \in DOMAIN infos /\ r[k] = infos[k])
             /\ infos # <<>> => r = infos
<1>1. CASE infos = <<>>
  <2>1. OrNoInfo(infos) = <<NoInfo>> BY <1>1 DEF OrNoInfo
  <2> QED BY <1>1, <2>1, SingletonIsSeq
<1>2. CASE infos # <<>>
  <2>1. OrNoInfo(infos) = infos BY <1>2 DEF OrNoInfo
  <2> QED BY <1>2, <2>1, HeadAndTail DEF IsSeq
<1> QED BY <1>1, <1>2

(* An answer with one info is learned by every path of the result. *)
LEMMA LearnGlobalNormal ==
  ASSUME NEW l, NEW won, NEW infos, NEW new, IsSeq(infos), NormalInfo(l, new, won),
         \A k \in DOMAIN infos : NormalInfo(l, infos[k], won)
  PROVE  LET r == LearnGlobal(infos, new)
         IN  /\ IsSeq(r) /\ r # <<>>
             /\ \A k \in DOMAIN r : /\ NormalInfo(l, r[k], won)
                                    /\ DOMAIN new.mem \subseteq DOMAIN r[k].mem
             /\ infos # <<>> =>
                  \A k \in DOMAIN r : /\ k \in DOMAIN infos
                                      /\ DOMAIN infos[k].mem \subseteq DOMAIN r[k].mem
<1> DEFINE s == OrNoInfo(infos)
           r == LearnGlobal(infos, new)
<1>1. /\ IsSeq(s) /\ 1 \in DOMAIN s /\ DOMAIN s = 1 .. Len(s) /\ Len(s) \in Nat
      /\ \A k \in DOMAIN s : s[k] = NoInfo \/ (k \in DOMAIN infos /\ s[k] = infos[k])
      /\ infos # <<>> => s = infos
  BY OrNoInfoIs
<1>2. r = [k \in DOMAIN s |-> Learn(s[k], new)] BY DEF LearnGlobal
<1> HIDE DEF s, r
<1>3. r = [k \in 1 .. Len(s) |-> r[k]] /\ DOMAIN r = DOMAIN s BY <1>1, <1>2
<1>4. IsSeq(r) /\ r # <<>>
  <2>1. IsSeq(r) /\ 1 \in DOMAIN r BY <1>1, <1>3, FunctionIsSeq
  <2> QED BY <2>1, EmptyIsSeq
<1>5. ASSUME NEW k \in DOMAIN r
      PROVE  /\ NormalInfo(l, r[k], won)
             /\ DOMAIN r[k].mem = DOMAIN s[k].mem \cup DOMAIN new.mem
  <2>1. r[k] = Learn(s[k], new) BY <1>2, <1>3
  <2>2. NormalInfo(l, s[k], won) BY <1>1, <1>3, NoInfoIs
  <2> QED BY <2>1, <2>2, LearnNormal
<1> QED BY <1>1, <1>3, <1>4, <1>5 DEF r

LEMMA LearnGlobalExit ==
  ASSUME NEW l, NEW won, NEW out, NEW infos, NEW new, IsSeq(infos), ExitInfo(l, out, new, won),
         \A k \in DOMAIN infos : ExitInfo(l, out, infos[k], won)
  PROVE  LET r == LearnGlobal(infos, new)
         IN  /\ IsSeq(r) /\ r # <<>>
             /\ \A k \in DOMAIN r : /\ ExitInfo(l, out, r[k], won)
                                    /\ DOMAIN new.mem \subseteq DOMAIN r[k].mem
<1> DEFINE s == OrNoInfo(infos)
           r == LearnGlobal(infos, new)
<1>1. /\ IsSeq(s) /\ 1 \in DOMAIN s /\ DOMAIN s = 1 .. Len(s) /\ Len(s) \in Nat
      /\ \A k \in DOMAIN s : s[k] = NoInfo \/ (k \in DOMAIN infos /\ s[k] = infos[k])
  BY OrNoInfoIs
<1>2. r = [k \in DOMAIN s |-> Learn(s[k], new)] BY DEF LearnGlobal
<1> HIDE DEF s, r
<1>3. r = [k \in 1 .. Len(s) |-> r[k]] /\ DOMAIN r = DOMAIN s BY <1>1, <1>2
<1>4. IsSeq(r) /\ r # <<>>
  <2>1. IsSeq(r) /\ 1 \in DOMAIN r BY <1>1, <1>3, FunctionIsSeq
  <2> QED BY <2>1, EmptyIsSeq
<1>5. ASSUME NEW k \in DOMAIN r
      PROVE  /\ ExitInfo(l, out, r[k], won)
             /\ DOMAIN r[k].mem = DOMAIN s[k].mem \cup DOMAIN new.mem
  <2>1. r[k] = Learn(s[k], new) BY <1>2, <1>3
  <2>2. ExitInfo(l, out, s[k], won) BY <1>1, <1>3, NoInfoIs
  <2> QED BY <2>1, <2>2, LearnExit
<1> QED BY <1>4, <1>5 DEF r

(* A global answer with several infos is merged before it is learned. *)
LEMMA LearnMergedNormal ==
  ASSUME NEW l, NEW won, NEW conds, conds \subseteq {"none"}, conds # {} => won,
         NEW rets, NEW infos, NEW new, IsSeq(infos), PathInfo(l, new, conds, "Step", rets),
         \A k \in DOMAIN infos : NormalInfo(l, infos[k], won)
  PROVE  LET r == LearnMerged(infos, new)
         IN  /\ IsSeq(r) /\ r # <<>>
             /\ \A k \in DOMAIN r : NormalInfo(l, r[k], won)
             /\ infos # <<>> =>
                  \A k \in DOMAIN r : /\ k \in DOMAIN infos
                                      /\ DOMAIN infos[k].mem \subseteq DOMAIN r[k].mem
<1> DEFINE s == OrNoInfo(infos)
           r == LearnMerged(infos, new)
<1>1. /\ IsSeq(s) /\ 1 \in DOMAIN s /\ DOMAIN s = 1 .. Len(s) /\ Len(s) \in Nat
      /\ \A k \in DOMAIN s : s[k] = NoInfo \/ (k \in DOMAIN infos /\ s[k] = infos[k])
      /\ infos # <<>> => s = infos
  BY OrNoInfoIs
<1>2. r = [k \in DOMAIN s |-> LearnPath(s[k], new)] BY DEF LearnMerged
<1> HIDE DEF s, r
<1>3. r = [k \in 1 .. Len(s) |-> r[k]] /\ DOMAIN r = DOMAIN s BY <1>1, <1>2
<1>4. IsSeq(r) /\ r # <<>>
  <2>1. IsSeq(r) /\ 1 \in DOMAIN r BY <1>1, <1>3, FunctionIsSeq
  <2> QED BY <2>1, EmptyIsSeq
<1>5. ASSUME NEW k \in DOMAIN r
      PROVE  NormalInfo(l, r[k], won) /\ DOMAIN s[k].mem \subseteq DOMAIN r[k].mem
  <2>1. r[k] = LearnPath(s[k], new) BY <1>2, <1>3
  <2>2. NormalInfo(l, s[k], won) BY <1>1, <1>3, NoInfoIs
  <2> QED BY <2>1, <2>2, LearnPathNormal
<1> QED BY <1>1, <1>3, <1>4, <1>5 DEF r

LEMMA LearnMergedExit ==
  ASSUME NEW l, NEW won, NEW conds, conds \subseteq {"some"}, conds # {} => won,
         NEW out, NEW infos, NEW new, ExitPath(l, out, new, conds), ExitInfos(l, out, infos, won)
  PROVE  LET r == LearnMerged(infos, new)
         IN  /\ ExitInfos(l, out, r, won) /\ r # <<>>
             /\ \A k \in DOMAIN r : r[k].state = out.state
             /\ infos # <<>> =>
                  \A k \in DOMAIN r : /\ k \in DOMAIN infos
                                      /\ DOMAIN infos[k].mem \subseteq DOMAIN r[k].mem
<1> DEFINE s == OrNoInfo(infos)
           r == LearnMerged(infos, new)
<1>1. /\ IsSeq(s) /\ 1 \in DOMAIN s /\ DOMAIN s = 1 .. Len(s) /\ Len(s) \in Nat
      /\ \A k \in DOMAIN s : s[k] = NoInfo \/ (k \in DOMAIN infos /\ s[k] = infos[k])
      /\ infos # <<>> => s = infos
  <2>1. IsSeq(infos) BY DEF ExitInfos
  <2> QED BY <2>1, OrNoInfoIs
<1>2. r = [k \in DOMAIN s |-> LearnPath(s[k], new)] BY DEF LearnMerged
<1> HIDE DEF s, r
<1>3. r = [k \in 1 .. Len(s) |-> r[k]] /\ DOMAIN r = DOMAIN s BY <1>1, <1>2
<1>4. IsSeq(r) /\ r # <<>>
  <2>1. IsSeq(r) /\ 1 \in DOMAIN r BY <1>1, <1>3, FunctionIsSeq
  <2> QED BY <2>1, EmptyIsSeq
<1>5. ASSUME NEW k \in DOMAIN r
      PROVE  /\ ExitInfo(l, out, r[k], won) /\ r[k].state = out.state
             /\ DOMAIN s[k].mem \subseteq DOMAIN r[k].mem
  <2>1. r[k] = LearnPath(s[k], new) BY <1>2, <1>3
  <2>2. ExitInfo(l, out, s[k], won) BY <1>1, <1>3, NoInfoIs DEF ExitInfos
  <2>3. conds \subseteq {"some"} /\ (conds # {} => won) OBVIOUS
  <2>4. ExitPath(l, out, new, conds) OBVIOUS
  <2>5. LET y == LearnPath(s[k], new)
        IN  ExitInfo(l, out, y, won) /\ DOMAIN s[k].mem \subseteq DOMAIN y.mem
    BY ONLY <2>2, <2>3, <2>4, LearnPathExit
  <2>6. LearnPath(s[k], new).state = out.state
    <3>1. IsInfo(s[k]) /\ IsInfo(new) /\ new.state = out.state
      BY <2>2, <2>3, <2>4 DEF ExitInfo, ExitPath, PathInfo
    <3> QED BY ONLY <3>1, LearnPathIs
  <2> QED BY <2>1, <2>5, <2>6
<1> QED BY <1>1, <1>3, <1>4, <1>5 DEF r, ExitInfos

(* A path sensitive answer splits the paths. *)
LEMMA LearnPerPathNormal ==
  ASSUME NEW l, NEW won, NEW conds, conds \subseteq {"none"}, conds # {} => won,
         NEW rets, NEW infos, NEW news, infos # <<>>, news # <<>>,
         Paths(l, news, conds, "Step", rets), NormalInfos(l, infos, won)
  PROVE  LET r == LearnPerPath(infos, news)
         IN  /\ NormalInfos(l, r, won) /\ r # <<>> /\ 1 \in DOMAIN infos
             /\ \A k \in DOMAIN r : DOMAIN infos[1].mem \subseteq DOMAIN r[k].mem
<1> DEFINE r == LearnPerPath(infos, news)
<1>7. IsSeq(infos) /\ IsSeq(news) BY DEF Paths, NormalInfos
<1>1. 1 \in DOMAIN infos /\ 1 \in DOMAIN news BY <1>7, HeadAndTail
<1>2. r = [k \in DOMAIN news |-> LearnPath(infos[1], news[k])] BY DEF LearnPerPath, OrNoInfo
<1> HIDE DEF r
<1>3. Len(news) \in Nat /\ DOMAIN news = 1 .. Len(news) BY <1>7 DEF IsSeq
<1>4. r = [k \in 1 .. Len(news) |-> r[k]] /\ DOMAIN r = DOMAIN news BY <1>2, <1>3
<1>5. IsSeq(r) /\ r # <<>>
  <2>1. IsSeq(r) /\ 1 \in DOMAIN r BY <1>1, <1>3, <1>4, FunctionIsSeq
  <2> QED BY <2>1, EmptyIsSeq
<1>6. ASSUME NEW k \in DOMAIN r
      PROVE  NormalInfo(l, r[k], won) /\ DOMAIN infos[1].mem \subseteq DOMAIN r[k].mem
  <2>1. r[k] = LearnPath(infos[1], news[k]) /\ k \in DOMAIN news BY <1>2, <1>4
  <2>2. NormalInfo(l, infos[1], won) BY <1>1 DEF NormalInfos
  <2>3. PathInfo(l, news[k], conds, "Step", rets) BY <2>1 DEF Paths
  <2> QED BY <2>1, <2>2, <2>3, LearnPathNormal
<1> QED BY <1>1, <1>5, <1>6 DEF r, NormalInfos

LEMMA LearnPerPathExit ==
  ASSUME NEW l, NEW won, NEW conds, conds \subseteq {"some"}, conds # {} => won,
         NEW out, NEW infos, NEW news, infos # <<>>, news # <<>>,
         ExitPaths(l, out, news, conds), ExitInfos(l, out, infos, won)
  PROVE  LET r == LearnPerPath(infos, news)
         IN  /\ ExitInfos(l, out, r, won) /\ r # <<>> /\ 1 \in DOMAIN infos
             /\ \A k \in DOMAIN r : /\ r[k].state = out.state
                                    /\ DOMAIN infos[1].mem \subseteq DOMAIN r[k].mem
<1> DEFINE r == LearnPerPath(infos, news)
<1>7. IsSeq(infos) /\ IsSeq(news) BY DEF ExitPaths, ExitInfos
<1>1. 1 \in DOMAIN infos /\ 1 \in DOMAIN news BY <1>7, HeadAndTail
<1>2. r = [k \in DOMAIN news |-> LearnPath(infos[1], news[k])] BY DEF LearnPerPath, OrNoInfo
<1> HIDE DEF r
<1>3. Len(news) \in Nat /\ DOMAIN news = 1 .. Len(news) BY <1>7 DEF IsSeq
<1>4. r = [k \in 1 .. Len(news) |-> r[k]] /\ DOMAIN r = DOMAIN news BY <1>2, <1>3
<1>5. IsSeq(r) /\ r # <<>>
  <2>1. IsSeq(r) /\ 1 \in DOMAIN r BY <1>1, <1>3, <1>4, FunctionIsSeq
  <2> QED BY <2>1, EmptyIsSeq
<1>6. ASSUME NEW k \in DOMAIN r
      PROVE  /\ ExitInfo(l, out, r[k], won) /\ r[k].state = out.state
             /\ DOMAIN infos[1].mem \subseteq DOMAIN r[k].mem
  <2>1. r[k] = LearnPath(infos[1], news[k]) /\ k \in DOMAIN news BY <1>2, <1>4
  <2>2. ExitInfo(l, out, infos[1], won) BY <1>1 DEF ExitInfos
  <2>3. ExitPath(l, out, news[k], conds) BY <2>1 DEF ExitPaths
  <2>4. conds \subseteq {"some"} /\ (conds # {} => won) OBVIOUS
  <2> HIDE DEF r
  <2>5. LET y == LearnPath(infos[1], news[k])
        IN  ExitInfo(l, out, y, won) /\ DOMAIN infos[1].mem \subseteq DOMAIN y.mem
    BY ONLY <2>2, <2>3, <2>4, LearnPathExit
  <2>6. LearnPath(infos[1], news[k]).state = out.state
    <3>1. IsInfo(infos[1]) /\ IsInfo(news[k]) /\ news[k].state = out.state
      BY <2>2, <2>3, <2>4 DEF ExitInfo, ExitPath, PathInfo
    <3> QED BY ONLY <3>1, LearnPathIs
  <2> QED BY <2>1, <2>5, <2>6
<1> QED BY <1>1, <1>5, <1>6 DEF r, ExitInfos

-----------------------------------------------------------------------------
(* What the path insensitive plugins know. *)

(* loopAssigns makes unknown what the loop assigns. *)
LEMMA AllUnknownIs ==
  ASSUME NEW vs, vs \subseteq Var
  PROVE  /\ DOMAIN AllUnknown(vs).mem = vs
         /\ \A l, won : NormalInfo(l, AllUnknown(vs), won)
         /\ \A l, out, won : ExitInfo(l, out, AllUnknown(vs), won)
<1> DEFINE mem == [v \in vs |-> Unknown]
           r == AllUnknown(vs)
<1>1. r = Info(mem, {}, "Step", {}) BY DEF AllUnknown, NoInfo, Info
<1>2. mem = [v \in DOMAIN mem |-> mem[v]] /\ DOMAIN mem = vs /\ \A v \in vs : mem[v] = Unknown
  OBVIOUS
<1> HIDE DEF mem, r
<1>3. r.mem = mem /\ r.conds = {} /\ r.state = "Step" /\ r.ret = {} BY <1>1, InfoIs
<1>4. IsInfo(r) BY <1>1, <1>2, <1>3 DEF IsInfo
<1>5. \A l : \A v \in vs : MaySay(l, v, mem[v]) BY <1>2 DEF MaySay
<1>6. \A l, won : NormalInfo(l, r, won) BY <1>2, <1>3, <1>4, <1>5 DEF NormalInfo, MaySayNormal
<1>7. \A l, out, won : ExitInfo(l, out, r, won) BY <1>2, <1>3, <1>4, <1>5 DEF ExitInfo
<1> QED BY <1>2, <1>3, <1>6, <1>7 DEF r

LEMMA AssignedIs ==
  ASSUME NEW l \in LoopShape
  PROVE  DOMAIN NormalExitPatterns(l) \subseteq Var /\ Assigned(l) \subseteq Var
BY DEF NormalExitPatterns, Changed, Assigned

(* The first paths of the result, from what the path insensitive plugins know. *)
LEMMA GenerateIs ==
  ASSUME NEW l \in LoopShape, NEW won,
         NEW plugin \in {"checkAndDumpLoopInfo", "loopAssigns", "paradigmMaxMin", "loopVariant",
                         "complexLoopAssigns"},
         plugin = "loopAssigns" => HasIndex(l)
  PROVE  LET r == Generate(plugin, l)
         IN  /\ NormalInfo(l, r.normal, won)
             /\ r.interrupts # <<>> => \A j \in DOMAIN l.exits : ExitInfo(l, l.exits[j], r.interrupts[j], won)
             /\ plugin \in {"loopAssigns", "complexLoopAssigns"} =>
                  /\ Assigned(l) \subseteq DOMAIN r.normal.mem
                  /\ r.interrupts = UnknownAtExits(l)
                  /\ \A j \in DOMAIN l.exits :
                       Touched(l, l.exits[j]) \subseteq DOMAIN r.interrupts[j].mem
             /\ plugin \notin {"loopAssigns", "complexLoopAssigns"} => r.interrupts = <<>>
<1> DEFINE u == UnknownAtExits(l)
<1>1. ASSUME NEW j \in DOMAIN l.exits
      PROVE  /\ ExitInfo(l, l.exits[j], u[j], won)
             /\ Touched(l, l.exits[j]) \subseteq DOMAIN u[j].mem
  <2>1. Touched(l, l.exits[j]) \subseteq Var BY AssignedIs DEF Touched, Changed
  <2>2. u[j] = AllUnknown(Touched(l, l.exits[j])) BY DEF UnknownAtExits, Touched
  <2> HIDE DEF u
  <2> QED BY <2>1, <2>2, AllUnknownIs
<1> HIDE DEF u
<1>2. CASE plugin = "loopAssigns"
  <2> DEFINE p == NormalExitPatterns(l)
             mem == [v \in Assigned(l) |-> ValueAfter(l, p[v])]
             conds == IF \E v \in DOMAIN mem : mem[v].kind = "after" THEN {"window"} ELSE {}
             n == Info(mem, conds, "Step", {})
             r == Generate(plugin, l)
  <2>1. r.normal = n /\ r.interrupts = u BY <1>2 DEF Generate, LoopAssigns, u
  <2>2. conds \subseteq {"window"} OBVIOUS
  <2>3. "window" \in conds => ~Precise(l)
    BY DEF ValueAfter, Unknown, Counted
  <2>4. DOMAIN mem = Assigned(l) /\ mem = [v \in DOMAIN mem |-> mem[v]] OBVIOUS
  <2>5. \A v \in DOMAIN mem : MaySayNormal(l, v, mem[v]) BY <1>2 DEF MaySayNormal
  <2> HIDE DEF mem, conds, r
  <2>6. /\ n.mem = mem /\ n.conds = conds /\ n.state = "Step" /\ n.ret = {}
        /\ n = Info(n.mem, n.conds, n.state, n.ret)
    BY InfoIs
  <2> HIDE DEF n
  <2>7. IsInfo(n) BY <2>4, <2>6, AssignedIs DEF IsInfo
  <2>8. NormalInfo(l, n, won) BY <1>2, <2>2, <2>3, <2>5, <2>6, <2>7 DEF NormalInfo
  <2> QED BY <1>1, <1>2, <2>1, <2>4, <2>6, <2>8 DEF r, u
<1>3. CASE plugin = "complexLoopAssigns"
  <2>1. Generate(plugin, l).normal = AllUnknown(Assigned(l)) /\ Generate(plugin, l).interrupts = u
    BY <1>3 DEF Generate, ComplexLoopAssigns, u
  <2> QED BY <1>1, <1>3, <2>1, AssignedIs, AllUnknownIs DEF u
<1>4. CASE plugin \in {"checkAndDumpLoopInfo", "paradigmMaxMin", "loopVariant"}
  <2>1. Generate(plugin, l).normal = NoInfo /\ Generate(plugin, l).interrupts = <<>>
    BY <1>4 DEF Generate, Silent
  <2> QED BY <1>4, <2>1, NoInfoIs
<1> QED BY <1>2, <1>3, <1>4

-----------------------------------------------------------------------------
(* The stages of emitLoopInvariant. *)

(* The stages of emitLoopInvariant keep EmitInv. *)
LEMMA InfoKeeps ==
  ASSUME Inv, EmitInv, stage = "info", ParseLoopInfo
  PROVE  EmitInv'
<1>1. CASE SetEntryAndCurrent \/ SetSharedState
  BY <1>1 DEF SetEntryAndCurrent, SetSharedState, Parses, EmitInv, Emitting
<1>2. CASE SetPatterns BY <1>2 DEF SetPatterns, Parses, Abort, EmitInv, Emitting
<1>3. CASE SetIndex
  <2>1. todo \in InfoStages BY DEF Inv, StageInv
  <2>2. todo' = <<>>
    <3>1. todo # <<>> /\ Head(todo) = "setIndex" /\ todo' = Tail(todo) BY <1>3 DEF SetIndex, Parses
    <3> QED BY ONLY <2>1, <3>1, NextPlugin
  <2> QED BY <1>3, <2>2 DEF SetIndex, Parses, EmitInv, Emitting
<1>4. CASE EndInfo
  <2>1. CASE stage' = "aborted"
    BY <1>4, <2>1 DEF EndInfo, Abort, EmitInv, Emitting
  <2>2. CASE stage' # "aborted"
    <3>1. /\ stage' = "insensitive" /\ todo' = getPlugins(PathInsensitive)
          /\ interrupts' = [j \in DOMAIN loop.exits |-> <<>>]
          /\ UNCHANGED <<loop, parts, normal, best, others, posts>> /\ todo = <<>>
      BY <1>4, <2>2 DEF EndInfo, Abort
    <3>2. "index" \in parts <=> HasIndex(loop) BY <3>1 DEF EmitInv, Inv, StageInv
    <3>3. /\ todo' \in InsensitiveStages' /\ ~ Spoken'
      BY <3>1, <3>2 DEF InsensitiveStages, Spoken, getPlugins, PathInsensitive
    <3>4. normal = <<>> /\ best = <<>> /\ others = <<>> BY DEF EmitInv
    <3>5. InfosInv' BY <3>1, <3>4, EmptyIsSeq DEF InfosInv
    <3>6. AnswersInv' BY <3>1, <3>4, EmptyIsSeq DEF AnswersInv
    <3> QED BY <3>1, <3>2, <3>3, <3>4, <3>5, <3>6 DEF EmitInv, Emitting
  <2> QED BY <2>1, <2>2
<1> QED BY <1>1, <1>2, <1>3, <1>4 DEF ParseLoopInfo

LEMMA NextStages ==
  ASSUME todo # <<>>
  PROVE  /\ todo \in InsensitiveStages =>
              /\ Tail(todo) \in InsensitiveStages
              /\ Head(todo) \in {"checkAndDumpLoopInfo", "loopAssigns", "paradigmMaxMin",
                                 "loopVariant", "complexLoopAssigns"}
              /\ Head(todo) = "loopAssigns" => HasIndex(loop)
              /\ Tail(todo) \in {<<"paradigmMaxMin", "loopVariant">>, <<"loopVariant">>, <<>>} =>
                   \/ Head(todo) \in {"loopAssigns", "complexLoopAssigns"}
                   \/ Spoken /\ Head(todo) \notin {"loopAssigns", "complexLoopAssigns"}
         /\ todo \in SensitiveStages =>
              /\ Tail(todo) \in SensitiveStages
              /\ Head(todo) \in {"paradigmSearch", "StInGXPlugin", "StInGXPluginForComplexLoop"}
              /\ Head(todo) = "paradigmSearch" =>
                   HasIndex(loop) /\ todo = <<"paradigmSearch", "StInGXPlugin">>
              /\ Tail(todo) # <<"paradigmSearch", "StInGXPlugin">>
<1>1. CASE todo = <<"checkAndDumpLoopInfo", "loopAssigns", "paradigmMaxMin", "loopVariant">>
  BY <1>1 DEF InsensitiveStages, SensitiveStages
<1>2. CASE todo = <<"loopAssigns", "paradigmMaxMin", "loopVariant">>
  BY <1>2 DEF InsensitiveStages, SensitiveStages
<1>3. CASE todo = <<"paradigmMaxMin", "loopVariant">>
  BY <1>3 DEF InsensitiveStages, SensitiveStages, Spoken
<1>4. CASE todo = <<"loopVariant">>
  BY <1>4 DEF InsensitiveStages, SensitiveStages, Spoken
<1>5. CASE todo = <<"checkAndDumpLoopInfo", "complexLoopAssigns">>
  BY <1>5 DEF InsensitiveStages, SensitiveStages
<1>6. CASE todo = <<"complexLoopAssigns">>
  BY <1>6 DEF InsensitiveStages, SensitiveStages
<1>7. CASE todo = <<"paradigmSearch", "StInGXPlugin">>
  BY <1>7 DEF InsensitiveStages, SensitiveStages
<1>8. CASE todo = <<"StInGXPlugin">>
  BY <1>8 DEF InsensitiveStages, SensitiveStages
<1>9. CASE todo = <<"StInGXPluginForComplexLoop">>
  BY <1>9 DEF InsensitiveStages, SensitiveStages
<1> QED BY <1>1, <1>2, <1>3, <1>4, <1>5, <1>6, <1>7, <1>8, <1>9
        DEF InsensitiveStages, SensitiveStages

LEMMA InsensitiveKeeps ==
  ASSUME Inv, EmitInv, AskInsensitive
  PROVE  EmitInv'
<1>1. CASE stage' = "aborted"
  BY <1>1 DEF AskInsensitive, Abort, EmitInv, Emitting
<1>2. CASE stage' # "aborted"
  <2> DEFINE plugin == Head(todo)
             r == Generate(plugin, loop)
             won == SearchOf(loop, best)
  <2>1. /\ r.interrupts = <<>> \/ Matches(r.interrupts)
        /\ normal' = LearnGlobal(normal, r.normal)
        /\ interrupts' = IF r.interrupts = <<>> THEN interrupts
                         ELSE [j \in DOMAIN interrupts |-> LearnGlobal(interrupts[j], r.interrupts[j])]
        /\ todo' = Tail(todo) /\ stage = "insensitive" /\ todo # <<>>
        /\ UNCHANGED <<loop, parts, stage, best, others, posts>>
    BY <1>2 DEF AskInsensitive, Abort
  <2>2. todo \in InsensitiveStages BY <2>1 DEF EmitInv
  <2>3. /\ Tail(todo) \in InsensitiveStages
        /\ plugin \in {"checkAndDumpLoopInfo", "loopAssigns", "paradigmMaxMin",
                       "loopVariant", "complexLoopAssigns"}
        /\ plugin = "loopAssigns" => HasIndex(loop)
        /\ Spoken' => \/ plugin \in {"loopAssigns", "complexLoopAssigns"}
                      \/ Spoken /\ plugin \notin {"loopAssigns", "complexLoopAssigns"}
    BY <2>1, <2>2, NextStages DEF Spoken
  <2>4. loop \in LoopShape BY DEF Inv, StageInv
  <2> HIDE DEF plugin, won
  <2>5. /\ NormalInfo(loop, r.normal, won)
        /\ r.interrupts # <<>> =>
             \A j \in DOMAIN loop.exits : ExitInfo(loop, loop.exits[j], r.interrupts[j], won)
        /\ plugin \in {"loopAssigns", "complexLoopAssigns"} =>
             /\ Assigned(loop) \subseteq DOMAIN r.normal.mem
             /\ r.interrupts = UnknownAtExits(loop)
             /\ \A j \in DOMAIN loop.exits :
                  Touched(loop, loop.exits[j]) \subseteq DOMAIN r.interrupts[j].mem
        /\ plugin \notin {"loopAssigns", "complexLoopAssigns"} => r.interrupts = <<>>
    BY ONLY <2>3, <2>4, GenerateIs
  <2> HIDE DEF r
  <2>6. /\ IsSeq(normal) /\ \A k \in DOMAIN normal : NormalInfo(loop, normal[k], won)
        /\ DOMAIN interrupts = DOMAIN loop.exits
        /\ interrupts = [j \in DOMAIN interrupts |-> interrupts[j]]
        /\ \A j \in DOMAIN loop.exits :
             /\ IsSeq(interrupts[j])
             /\ \A k \in DOMAIN interrupts[j] : ExitInfo(loop, loop.exits[j], interrupts[j][k], won)
    BY <2>1 DEF EmitInv, Emitting, InfosInv, won
  <2>7. /\ IsSeq(normal') /\ normal' # <<>>
        /\ \A k \in DOMAIN normal' : /\ NormalInfo(loop, normal'[k], won)
                                     /\ DOMAIN r.normal.mem \subseteq DOMAIN normal'[k].mem
        /\ normal # <<>> =>
             \A k \in DOMAIN normal' : /\ k \in DOMAIN normal
                                       /\ DOMAIN normal[k].mem \subseteq DOMAIN normal'[k].mem
    BY <2>1, <2>5, <2>6, LearnGlobalNormal
  <2>8. /\ DOMAIN interrupts' = DOMAIN loop.exits
        /\ interrupts' = [j \in DOMAIN interrupts' |-> interrupts'[j]]
    BY <2>1, <2>6
  <2>9. ASSUME NEW j \in DOMAIN loop.exits, r.interrupts # <<>>
        PROVE  /\ IsSeq(interrupts'[j]) /\ interrupts'[j] # <<>>
               /\ \A k \in DOMAIN interrupts'[j] :
                    /\ ExitInfo(loop, loop.exits[j], interrupts'[j][k], won)
                    /\ DOMAIN r.interrupts[j].mem \subseteq DOMAIN interrupts'[j][k].mem
    <3>1. interrupts'[j] = LearnGlobal(interrupts[j], r.interrupts[j]) BY <2>1, <2>6, <2>9
    <3>2. ExitInfo(loop, loop.exits[j], r.interrupts[j], won) BY <2>5, <2>9
    <3>3. /\ IsSeq(interrupts[j])
          /\ \A k \in DOMAIN interrupts[j] : ExitInfo(loop, loop.exits[j], interrupts[j][k], won)
      BY <2>6
    <3> QED BY ONLY <3>1, <3>2, <3>3, LearnGlobalExit
  <2>10. \A j \in DOMAIN loop.exits :
           /\ IsSeq(interrupts'[j])
           /\ \A k \in DOMAIN interrupts'[j] : ExitInfo(loop, loop.exits[j], interrupts'[j][k], won)
    BY <2>1, <2>6, <2>9
  <2>11. InfosInv' BY <2>1, <2>7, <2>8, <2>10 DEF InfosInv, won
  <2>12. ASSUME Spoken' PROVE CoverInv'
    <3>1. CASE plugin \in {"loopAssigns", "complexLoopAssigns"}
      <4>1. r.interrupts = <<>> => DOMAIN loop.exits = {}
        <5>1. DOMAIN r.interrupts = DOMAIN loop.exits BY <2>5, <3>1 DEF UnknownAtExits
        <5> QED BY <5>1
      <4>2. \A k \in DOMAIN normal' : Assigned(loop) \subseteq DOMAIN normal'[k].mem
        BY <2>5, <2>7, <3>1
      <4>3. \A j \in DOMAIN loop.exits :
              /\ interrupts'[j] # <<>>
              /\ \A k \in DOMAIN interrupts'[j] :
                   Touched(loop, loop.exits[j]) \subseteq DOMAIN interrupts'[j][k].mem
        <5> SUFFICES ASSUME NEW j \in DOMAIN loop.exits
                     PROVE  /\ interrupts'[j] # <<>>
                            /\ \A k \in DOMAIN interrupts'[j] :
                                 Touched(loop, loop.exits[j]) \subseteq DOMAIN interrupts'[j][k].mem
          OBVIOUS
        <5>1. Touched(loop, loop.exits[j]) \subseteq DOMAIN r.interrupts[j].mem BY <2>5, <3>1
        <5>2. r.interrupts # <<>> BY <4>1
        <5> QED BY <2>9, <5>1, <5>2
      <4> QED BY <2>1, <2>7, <4>2, <4>3 DEF CoverInv
    <3>2. CASE Spoken /\ plugin \notin {"loopAssigns", "complexLoopAssigns"}
      <4>1. CoverInv BY <2>1, <3>2 DEF EmitInv, Emitting
      <4>2. interrupts' = interrupts BY <2>1, <2>5, <3>2
      <4>3. \A k \in DOMAIN normal' : Assigned(loop) \subseteq DOMAIN normal'[k].mem
        BY <2>7, <4>1 DEF CoverInv
      <4> QED BY <2>1, <2>7, <4>1, <4>2, <4>3 DEF CoverInv
    <3> QED BY <2>3, <2>12, <3>1, <3>2
  <2>13. AnswersInv' BY <2>1 DEF EmitInv, Emitting, AnswersInv
  <2> QED BY <2>1, <2>3, <2>11, <2>12, <2>13 DEF EmitInv, Emitting, InsensitiveStages
<1> QED BY <1>1, <1>2

LEMMA AskSensitiveKeeps ==
  ASSUME Inv, EmitInv, AskSensitive
  PROVE  EmitInv'
<1>1. CASE stage' = "aborted"
  BY <1>1 DEF AskSensitive, Abort, EmitInv, Emitting
<1>2. CASE stage' # "aborted"
  <2> DEFINE plugin == Head(todo)
  <2>1. PICK answer \in Answers(plugin, loop) :
          IF answer = <<>>
          THEN UNCHANGED <<best, others>>
          ELSE IF best = <<>> \/ answer[1].priority > best[1].priority
          THEN best' = answer /\ others' = others \o best
          ELSE best' = best /\ others' = others \o answer
    BY <1>2 DEF AskSensitive, Abort
  <2>2. /\ todo' = Tail(todo) /\ stage = "sensitive" /\ todo # <<>>
        /\ UNCHANGED <<loop, stage, parts, normal, interrupts, posts>>
    BY <1>2 DEF AskSensitive, Abort
  <2>3. todo \in SensitiveStages BY <2>2 DEF EmitInv
  <2>4. /\ Tail(todo) \in SensitiveStages
        /\ plugin \in {"paradigmSearch", "StInGXPlugin", "StInGXPluginForComplexLoop"}
        /\ plugin = "paradigmSearch" => HasIndex(loop) /\ todo = <<"paradigmSearch", "StInGXPlugin">>
        /\ Tail(todo) # <<"paradigmSearch", "StInGXPlugin">>
    BY <2>2, <2>3, NextStages
  <2>5. loop \in LoopShape BY DEF Inv, StageInv
  <2> HIDE DEF plugin
  <2>6. answer # <<>> => /\ answer = <<answer[1]>> /\ Answer(loop, answer[1])
                         /\ plugin # "paradigmSearch" => answer[1].priority = 0
    BY <2>4, <2>5, AnswerIs
  <2>7. /\ best = <<>> \/ (best = <<best[1]>> /\ Answer(loop, best[1]))
        /\ IsSeq(others)
        /\ \A k \in DOMAIN others : Answer(loop, others[k]) /\ others[k].priority = 0
        /\ plugin = "paradigmSearch" => best = <<>> /\ others = <<>>
    BY <2>2, <2>4 DEF EmitInv, Emitting, AnswersInv
  <2>8. \A r : Answer(loop, r) => r.priority \in {0, 100} BY DEF Answer
  <2>9. ASSUME NEW a, a = <<a[1]>>, Answer(loop, a[1]), a[1].priority = 0, others' = others \o a
        PROVE  IsSeq(others') /\ \A k \in DOMAIN others' : Answer(loop, others'[k]) /\ others'[k].priority = 0
    <3>1. IsSeq(others) /\ IsSeq(a) /\ DOMAIN a = {1} BY <2>7, <2>9, SingletonIsSeq
    <3>2. HoldsBoth(others \o a, others, a) BY ONLY <3>1, HeldAfter
    <3>3. HoldsBoth(others', others, a) BY <2>9, <3>2
    <3>4. \A k \in DOMAIN a : a[k] = a[1] BY <3>1
    <3> QED BY <2>7, <2>9, <3>3, <3>4 DEF HoldsBoth
  <2>10. /\ best' = <<>> \/ (best' = <<best'[1]>> /\ Answer(loop, best'[1]))
         /\ IsSeq(others')
         /\ \A k \in DOMAIN others' : Answer(loop, others'[k]) /\ others'[k].priority = 0
         /\ SearchOf(loop, best) => SearchOf(loop, best')
    <3>1. CASE answer = <<>> BY <2>1, <2>7, <3>1
    <3>2. CASE answer # <<>> /\ best = <<>>
      <4>1. best' = answer /\ others' = others BY <2>1, <2>7, <3>2, ConcatenationWithEmpty
      <4> QED BY <2>6, <2>7, <3>2, <4>1 DEF SearchOf
    <3>3. CASE answer # <<>> /\ best # <<>> /\ answer[1].priority > best[1].priority
      <4>1. best' = answer /\ others' = others \o best BY <2>1, <3>3
      <4>2. best[1].priority \in {0, 100} /\ answer[1].priority \in {0, 100}
        BY <2>6, <2>7, <2>8, <3>3
      <4>3. best[1].priority = 0 BY <3>3, <4>2
      <4> QED BY <2>6, <2>7, <2>9, <3>3, <4>1, <4>3 DEF SearchOf
    <3>4. CASE answer # <<>> /\ best # <<>> /\ ~(answer[1].priority > best[1].priority)
      <4>1. best' = best /\ others' = others \o answer BY <2>1, <3>4
      <4>2. answer[1].priority = 0 BY <2>6, <2>7, <3>4
      <4> QED BY <2>6, <2>7, <2>9, <3>4, <4>1, <4>2
    <3> QED BY <3>1, <3>2, <3>3, <3>4
  <2>11. InfosInv BY <2>2 DEF EmitInv, Emitting
  <2>12. InfosInv' BY <2>2, <2>10, <2>11 DEF InfosInv, NormalInfo, ExitInfo
  <2>13. CoverInv' BY <2>2 DEF EmitInv, Emitting, CoverInv
  <2>14. AnswersInv' BY <2>2, <2>4, <2>10 DEF AnswersInv
  <2> QED BY <2>2, <2>4, <2>12, <2>13, <2>14 DEF EmitInv, Emitting, SensitiveStages
<1> QED BY <1>1, <1>2

LEMMA ApplyBestKeeps ==
  ASSUME Inv, EmitInv, ApplyBest
  PROVE  EmitInv'
<1>1. CASE stage' = "aborted"
  BY <1>1 DEF ApplyBest, Abort, EmitInv, Emitting
<1>2. CASE best = <<>>
  <2>1. /\ stage = "sensitive" /\ stage' = "others"
        /\ UNCHANGED <<loop, parts, todo, normal, interrupts, best, others, posts>>
    BY <1>2 DEF ApplyBest
  <2> QED BY <1>2, <2>1 DEF EmitInv, Emitting, InfosInv, CoverInv, AnswersInv
<1>3. CASE stage' # "aborted" /\ best # <<>>
  <2> DEFINE r == best[1]
             won == SearchOf(loop, best)
             some == IF r.priority = 100 THEN {"some"} ELSE {}
             none == IF r.priority = 100 THEN {"none"} ELSE {}
  <2>1. /\ CanSplit(normal, r.normal)
        /\ \A j \in DOMAIN interrupts : CanSplit(interrupts[j], r.interrupts[j])
        /\ normal' = LearnPerPath(normal, r.normal)
        /\ interrupts' = [j \in DOMAIN interrupts |-> LearnPerPath(interrupts[j], r.interrupts[j])]
        /\ stage = "sensitive" /\ stage' = "others"
        /\ UNCHANGED <<loop, parts, todo, best, others, posts>>
    BY <1>3 DEF ApplyBest, Abort
  <2>2. InfosInv /\ CoverInv /\ AnswersInv BY <2>1 DEF EmitInv, Emitting
  <2>3. Answer(loop, r) BY <1>3, <2>2 DEF AnswersInv
  <2>4. /\ none \subseteq {"none"} /\ (none # {} => won)
        /\ some \subseteq {"some"} /\ (some # {} => won)
    BY <1>3, <2>3 DEF Answer, SearchOf
  <2>5. /\ IsSeq(r.normal) /\ \A k \in DOMAIN r.normal :
                                PathInfo(loop, r.normal[k], none, "Step", {{}, {"unknown"}})
        /\ \A j \in DOMAIN loop.exits :
             /\ IsSeq(r.interrupts[j])
             /\ \A k \in DOMAIN r.interrupts[j] : ExitPath(loop, loop.exits[j], r.interrupts[j][k], some)
    BY <2>3 DEF Answer, ExitPath
  <2>6. /\ r.normal # <<>>
        /\ \A j \in DOMAIN interrupts : r.interrupts[j] # <<>>
    BY <2>1 DEF CanSplit
  <2>7. /\ IsSeq(normal) /\ normal # <<>>
        /\ \A k \in DOMAIN normal : NormalInfo(loop, normal[k], won)
        /\ DOMAIN interrupts = DOMAIN loop.exits
        /\ \A j \in DOMAIN loop.exits :
             /\ IsSeq(interrupts[j]) /\ interrupts[j] # <<>>
             /\ \A k \in DOMAIN interrupts[j] : ExitInfo(loop, loop.exits[j], interrupts[j][k], won)
    BY <2>2 DEF InfosInv, CoverInv
  <2> HIDE DEF r, won, some, none
  <2>8. /\ IsSeq(normal') /\ normal' # <<>> /\ 1 \in DOMAIN normal
        /\ \A k \in DOMAIN normal' : /\ NormalInfo(loop, normal'[k], won)
                                     /\ DOMAIN normal[1].mem \subseteq DOMAIN normal'[k].mem
    <3> DEFINE news == r.normal
               rets == {{}, {"unknown"}}
    <3>1. normal' = LearnPerPath(normal, news) /\ news # <<>> BY <2>1, <2>6
    <3>2. Paths(loop, news, none, "Step", rets) BY <2>5 DEF Paths
    <3>3. normal # <<>> /\ NormalInfos(loop, normal, won) BY <2>7 DEF NormalInfos
    <3> HIDE DEF news, rets
    <3>4. LET s == LearnPerPath(normal, news)
          IN  /\ NormalInfos(loop, s, won) /\ s # <<>> /\ 1 \in DOMAIN normal
              /\ \A k \in DOMAIN s : DOMAIN normal[1].mem \subseteq DOMAIN s[k].mem
      BY ONLY <2>4, <3>1, <3>2, <3>3, LearnPerPathNormal
    <3> QED BY ONLY <3>1, <3>4 DEF NormalInfos
  <2>9. ASSUME NEW j \in DOMAIN loop.exits
        PROVE  /\ IsSeq(interrupts'[j]) /\ interrupts'[j] # <<>> /\ 1 \in DOMAIN interrupts[j]
               /\ \A k \in DOMAIN interrupts'[j] :
                    /\ ExitInfo(loop, loop.exits[j], interrupts'[j][k], won)
                    /\ interrupts'[j][k].state = loop.exits[j].state
                    /\ DOMAIN interrupts[j][1].mem \subseteq DOMAIN interrupts'[j][k].mem
    <3> DEFINE out == loop.exits[j]
               infos == interrupts[j]
               news == r.interrupts[j]
    <3>1. interrupts'[j] = LearnPerPath(infos, news) BY <2>1, <2>7
    <3>2. infos # <<>> /\ ExitInfos(loop, out, infos, won) BY <2>7 DEF ExitInfos
    <3>3. news # <<>> /\ ExitPaths(loop, out, news, some) BY <2>5, <2>6, <2>7 DEF ExitPaths
    <3> HIDE DEF out, infos, news
    <3>4. LET s == LearnPerPath(infos, news)
          IN  /\ ExitInfos(loop, out, s, won) /\ s # <<>> /\ 1 \in DOMAIN infos
              /\ \A k \in DOMAIN s : /\ s[k].state = out.state
                                     /\ DOMAIN infos[1].mem \subseteq DOMAIN s[k].mem
      BY ONLY <2>4, <3>2, <3>3, LearnPerPathExit
    <3> QED BY ONLY <3>1, <3>4 DEF out, infos, ExitInfos
  <2>10. InfosInv'
    <3>1. /\ DOMAIN interrupts' = DOMAIN loop.exits
          /\ interrupts' = [j \in DOMAIN interrupts' |-> interrupts'[j]]
      BY <2>1, <2>7
    <3>2. won = SearchOf(loop', best') BY <2>1 DEF won
    <3>3. /\ IsSeq(normal') /\ \A k \in DOMAIN normal' : NormalInfo(loop, normal'[k], won)
          /\ \A j \in DOMAIN loop.exits :
               /\ IsSeq(interrupts'[j])
               /\ \A k \in DOMAIN interrupts'[j] : ExitInfo(loop, loop.exits[j], interrupts'[j][k], won)
      BY <2>8, <2>9
    <3>4. loop' = loop /\ best' = best BY <2>1
    <3> QED BY ONLY <3>1, <3>2, <3>3, <3>4 DEF InfosInv
  <2>11. CoverInv'
    <3>1. Assigned(loop) \subseteq DOMAIN normal[1].mem BY <2>2, <2>8 DEF CoverInv
    <3>2. \A j \in DOMAIN loop.exits : Touched(loop, loop.exits[j]) \subseteq DOMAIN interrupts[j][1].mem
      BY <2>2, <2>9 DEF CoverInv
    <3>3. \A k \in DOMAIN normal' : Assigned(loop) \subseteq DOMAIN normal'[k].mem BY <2>8, <3>1
    <3>4. \A j \in DOMAIN loop.exits : \A k \in DOMAIN interrupts'[j] :
            Touched(loop, loop.exits[j]) \subseteq DOMAIN interrupts'[j][k].mem
      BY <2>9, <3>2
    <3>5. normal' # <<>> /\ \A j \in DOMAIN loop.exits : interrupts'[j] # <<>> BY <2>8, <2>9
    <3>6. loop' = loop BY <2>1
    <3> QED BY ONLY <3>3, <3>4, <3>5, <3>6 DEF CoverInv
  <2>12. AnswersInv' BY <2>1, <2>2 DEF AnswersInv
  <2>13. StatesInv' BY <2>1, <2>9 DEF StatesInv
  <2> QED BY <2>1, <2>10, <2>11, <2>12, <2>13 DEF EmitInv, Emitting
<1> QED BY <1>1, <1>2, <1>3

LEMMA ApplyOtherKeeps ==
  ASSUME Inv, EmitInv, ApplyOther
  PROVE  EmitInv'
<1>1. CASE stage' = "aborted"
  BY <1>1 DEF ApplyOther, Abort, EmitInv, Emitting
<1>2. CASE stage' # "aborted"
  <2> DEFINE r == Head(others)
             won == SearchOf(loop, best)
             Merged(infos, news) ==
               IF news = <<>> THEN infos ELSE LearnMerged(infos, MergeAllPostInfos(news))
  <2>1. /\ normal' = Merged(normal, r.normal)
        /\ interrupts' = [j \in DOMAIN interrupts |-> Merged(interrupts[j], r.interrupts[j])]
        /\ others' = Tail(others) /\ stage = "others" /\ others # <<>>
        /\ UNCHANGED <<loop, parts, stage, todo, best, posts>>
    BY <1>2 DEF ApplyOther, Abort
  <2>2. InfosInv /\ CoverInv /\ AnswersInv BY <2>1 DEF EmitInv, Emitting
  <2>3. /\ Answer(loop, r) /\ r.priority = 0 /\ IsSeq(Tail(others))
        /\ \A k \in DOMAIN Tail(others) : Answer(loop, Tail(others)[k]) /\ Tail(others)[k].priority = 0
    BY <2>1, <2>2, HeadAndTail DEF AnswersInv
  <2>4. /\ IsSeq(r.normal) /\ \A k \in DOMAIN r.normal :
                                PathInfo(loop, r.normal[k], {}, "Step", {{}, {"unknown"}})
        /\ \A j \in DOMAIN loop.exits :
             /\ IsSeq(r.interrupts[j])
             /\ \A k \in DOMAIN r.interrupts[j] :
                  PathInfo(loop, r.interrupts[j][k], {}, loop.exits[j].state, ExitRets(loop.exits[j]))
    BY <2>3 DEF Answer
  <2>5. /\ IsSeq(normal) /\ normal # <<>>
        /\ \A k \in DOMAIN normal : NormalInfo(loop, normal[k], won)
        /\ DOMAIN interrupts = DOMAIN loop.exits
        /\ \A j \in DOMAIN loop.exits :
             /\ IsSeq(interrupts[j]) /\ interrupts[j] # <<>>
             /\ \A k \in DOMAIN interrupts[j] : ExitInfo(loop, loop.exits[j], interrupts[j][k], won)
    BY <2>2 DEF InfosInv, CoverInv
  <2> HIDE DEF r, won
  <2>6. /\ IsSeq(normal') /\ normal' # <<>>
        /\ \A k \in DOMAIN normal' : /\ NormalInfo(loop, normal'[k], won)
                                     /\ k \in DOMAIN normal
                                     /\ DOMAIN normal[k].mem \subseteq DOMAIN normal'[k].mem
    <3>1. CASE r.normal = <<>> BY <2>1, <2>5, <3>1
    <3>2. CASE r.normal # <<>>
      <4> DEFINE new == MergeAllPostInfos(r.normal)
      <4>1. normal' = LearnMerged(normal, new) BY <2>1, <3>2
      <4>2. PathInfo(loop, new, {}, "Step", {{}, {"unknown"}}) BY <2>4, <3>2, MergedIs
      <4> HIDE DEF new
      <4> QED BY <2>5, <4>1, <4>2, LearnMergedNormal
    <3> QED BY <3>1, <3>2
  <2>7. ASSUME NEW j \in DOMAIN loop.exits
        PROVE  /\ IsSeq(interrupts'[j]) /\ interrupts'[j] # <<>>
               /\ \A k \in DOMAIN interrupts'[j] :
                    /\ ExitInfo(loop, loop.exits[j], interrupts'[j][k], won)
                    /\ k \in DOMAIN interrupts[j]
                    /\ interrupts'[j][k].state \in {interrupts[j][k].state, loop.exits[j].state}
                    /\ DOMAIN interrupts[j][k].mem \subseteq DOMAIN interrupts'[j][k].mem
    <3> DEFINE out == loop.exits[j]
               infos == interrupts[j]
               news == r.interrupts[j]
               rets == ExitRets(out)
    <3>1. interrupts'[j] = Merged(infos, news) BY <2>1, <2>5
    <3>2. IsSeq(infos) /\ infos # <<>> /\ \A k \in DOMAIN infos : ExitInfo(loop, out, infos[k], won)
      BY <2>5
    <3>3. IsSeq(news) /\ \A k \in DOMAIN news : PathInfo(loop, news[k], {}, out.state, rets)
      BY <2>4
    <3>4. {"unknown"} \in rets BY DEF ExitRets
    <3>5. infos = interrupts[j] /\ out = loop.exits[j] OBVIOUS
    <3> HIDE DEF out, infos, news, rets
    <3>8. ExitInfos(loop, out, infos, won) BY <3>2 DEF ExitInfos
    <3>6. CASE news = <<>> BY <3>1, <3>2, <3>5, <3>6
    <3>7. CASE news # <<>>
      <4> DEFINE new == MergeAllPostInfos(news)
                 conds == {}
      <4>1. interrupts'[j] = LearnMerged(infos, new) BY <3>1, <3>7
      <4>2. PathInfo(loop, new, {}, out.state, rets) BY ONLY <3>3, <3>4, <3>7, MergedIs
      <4>3. ExitPath(loop, out, new, conds) BY <4>2 DEF ExitPath, rets
      <4>4. conds \subseteq {"some"} /\ (conds # {} => won) OBVIOUS
      <4> HIDE DEF new, conds
      <4>5. LET s == LearnMerged(infos, new)
            IN  /\ ExitInfos(loop, out, s, won) /\ s # <<>>
                /\ \A k \in DOMAIN s : s[k].state = out.state
                /\ infos # <<>> =>
                     \A k \in DOMAIN s : /\ k \in DOMAIN infos
                                         /\ DOMAIN infos[k].mem \subseteq DOMAIN s[k].mem
        BY ONLY <3>8, <4>3, <4>4, LearnMergedExit
      <4> QED BY <3>2, <3>5, <4>1, <4>5 DEF ExitInfos
    <3> QED BY <3>6, <3>7
  <2>8. InfosInv'
    <3>1. /\ DOMAIN interrupts' = DOMAIN loop.exits
          /\ interrupts' = [j \in DOMAIN interrupts' |-> interrupts'[j]]
      BY <2>1, <2>5
    <3>2. won = SearchOf(loop', best') BY <2>1 DEF won
    <3>3. /\ IsSeq(normal') /\ \A k \in DOMAIN normal' : NormalInfo(loop, normal'[k], won)
          /\ \A j \in DOMAIN loop.exits :
               /\ IsSeq(interrupts'[j])
               /\ \A k \in DOMAIN interrupts'[j] : ExitInfo(loop, loop.exits[j], interrupts'[j][k], won)
      BY <2>6, <2>7
    <3>4. loop' = loop /\ best' = best BY <2>1
    <3> QED BY ONLY <3>1, <3>2, <3>3, <3>4 DEF InfosInv
  <2>9. CoverInv'
    <3>1. \A k \in DOMAIN normal' : Assigned(loop) \subseteq DOMAIN normal'[k].mem
      BY <2>2, <2>6 DEF CoverInv
    <3>2. \A j \in DOMAIN loop.exits : \A k \in DOMAIN interrupts'[j] :
            Touched(loop, loop.exits[j]) \subseteq DOMAIN interrupts'[j][k].mem
      BY <2>2, <2>7 DEF CoverInv
    <3>3. normal' # <<>> /\ \A j \in DOMAIN loop.exits : interrupts'[j] # <<>> BY <2>6, <2>7
    <3>4. loop' = loop BY <2>1
    <3> QED BY ONLY <3>1, <3>2, <3>3, <3>4 DEF CoverInv
  <2>10. AnswersInv' BY <2>1, <2>2, <2>3 DEF AnswersInv
  <2>11. StatesInv => StatesInv'
    <3>1. loop' = loop BY <2>1
    <3>2. \A j \in DOMAIN loop.exits : \A k \in DOMAIN interrupts'[j] :
            k \in DOMAIN interrupts[j]
            /\ interrupts'[j][k].state \in {interrupts[j][k].state, loop.exits[j].state}
      BY <2>7
    <3> QED BY ONLY <3>1, <3>2 DEF StatesInv
  <2> QED BY <2>1, <2>8, <2>9, <2>10, <2>11 DEF EmitInv, Emitting
<1> QED BY <1>1, <1>2

LEMMA EmitKeeps ==
  ASSUME Inv, EmitInv, [Next]_vars
  PROVE  EmitInv'
<1>1. CASE ParseLoopInfo
  <2>1. stage = "info"
    BY <1>1 DEF ParseLoopInfo, SetEntryAndCurrent, SetPatterns, SetSharedState, SetIndex,
                EndInfo, Parses
  <2> QED BY <1>1, <2>1, InfoKeeps
<1>2. CASE EndInsensitive
  <2>1. /\ stage = "insensitive" /\ todo = <<>> /\ stage' = "sensitive"
        /\ todo' = getPlugins(PathSensitive)
        /\ UNCHANGED <<loop, parts, normal, interrupts, best, others, posts>>
    BY <1>2 DEF EndInsensitive
  <2>2. CoverInv /\ InfosInv /\ AnswersInv /\ ("index" \in parts <=> HasIndex(loop))
    BY <2>1 DEF EmitInv, Emitting, Spoken
  <2>3. todo' \in SensitiveStages'
    BY <2>1, <2>2 DEF SensitiveStages, getPlugins, PathSensitive
  <2> QED BY <2>1, <2>2, <2>3 DEF EmitInv, Emitting, CoverInv, InfosInv, AnswersInv
<1>3. CASE BuildPostState
  BY <1>3 DEF BuildPostState, EmitInv, Emitting, CoverInv, InfosInv, AnswersInv, StatesInv,
              PostPaths, PostPath
<1>4. CASE UNCHANGED svars
  BY <1>4 DEF svars, EmitInv, Emitting, CoverInv, InfosInv, AnswersInv, StatesInv, Spoken,
              InsensitiveStages, SensitiveStages, PostPaths, PostPath
<1>5. CASE RunLoop BY <1>4, <1>5 DEF RunLoop, Enter, Continue, Leave, Step, Interrupt
<1>6. CASE UNCHANGED vars BY <1>4, <1>6 DEF vars
<1> QED BY <1>1, <1>2, <1>3, <1>5, <1>6, InsensitiveKeeps, AskSensitiveKeeps, ApplyBestKeeps,
           ApplyOtherKeeps DEF Next, Analyze, EmitLoopInvariant

-----------------------------------------------------------------------------
(* The run, as far as the paths after the loop tell of it. *)

(* How the scalars move, from the entry on. *)
LEMMA FollowedAtEntry ==
  ASSUME NEW l \in LoopShape, NEW e \in [Var -> Int], NEW t
  PROVE  Followed(l, e, e, t)
<1> SUFFICES ASSUME HasIndex(l), Bounded(l, e) PROVE Followed(l, e, e, t)
  BY DEF Followed
<1> DEFINE P == NormalExitPatterns(l)
<1>1. Gap(l, e) \in Int /\ StepSize(l) \in Nat \ {0} BY CountIs, IndexIs
<1>2. Gap(l, e) >= IF Closed(l) THEN -1 ELSE 0 BY DEF Bounded
<1>3. Gap(l, e) >= (IF Closed(l) THEN 0 ELSE 1) - StepSize(l) BY <1>1, <1>2
<1>4. ASSUME NEW v \in DOMAIN P, P[v] # <<>>
      PROVE  /\ e[v] - e[v] = Gap(l, e) - Gap(l, e)
             /\ e[v] - e[v] = P[v][1] * (Gap(l, e) - Gap(l, e))
  <2>1. e[v] \in Int /\ P[v][1] \in Int BY <1>4, PatternOf
  <2> HIDE DEF P
  <2>2. e[v] - e[v] = 0 /\ Gap(l, e) - Gap(l, e) = 0 BY <1>1, <2>1
  <2>3. P[v][1] * 0 = 0 BY <2>1
  <2> QED BY <2>2, <2>3
<1>5. e[l.index] .. e[l.index] - 1 = {}
  <2>1. e[l.index] \in Int BY ShapeOf
  <2> QED BY <2>1
<1> QED BY <1>3, <1>4, <1>5 DEF Followed

LEMMA FollowedByStep ==
  ASSUME NEW l \in LoopShape, NEW j \in DOMAIN l.steps, NEW t,
         NEW e \in [Var -> Int], NEW z \in [Var -> Int], Moved(l, e, z), Followed(l, e, z, t),
         HasIndex(l) /\ Bounded(l, e) => Holds(l, z)
  PROVE  Followed(l, e, After(l.steps[j], z), t \cup {z[l.index]})
<1> SUFFICES ASSUME HasIndex(l), Bounded(l, e)
             PROVE  Followed(l, e, After(l.steps[j], z), t \cup {z[l.index]})
  BY DEF Followed
<1> DEFINE y == After(l.steps[j], z)
           P == NormalExitPatterns(l)
           u == t \cup {z[l.index]}
<1>1. CASE Changed(l.steps[j]) = {}
  <2>1. y = z BY <1>1, AfterIs
  <2> HIDE DEF y
  <2> QED BY <2>1 DEF Followed, y
<1>2. CASE Changed(l.steps[j]) # {}
  <2>1. Gap(l, y) = Gap(l, z) - StepSize(l) BY <1>2, GapAfter
  <2>2. Gap(l, z) \in Int /\ Gap(l, e) \in Int /\ StepSize(l) \in Nat \ {0} BY CountIs, IndexIs
  <2>3. Gap(l, z) >= IF Closed(l) THEN 0 ELSE 1 BY GapBefore
  <2>4. Gap(l, y) >= (IF Closed(l) THEN 0 ELSE 1) - StepSize(l) BY <2>1, <2>2, <2>3
  <2>5. ASSUME NEW v \in DOMAIN P, P[v] # <<>>
        PROVE  LET n == Gap(l, e) - Gap(l, y)
               IN  /\ P[v][1] = StepSize(l) => y[v] - e[v] = n
                   /\ P[v][1] = -StepSize(l) => e[v] - y[v] = n
                   /\ StepSize(l) = 1 => y[v] - e[v] = P[v][1] * n
    <3> DEFINE m == Gap(l, e) - Gap(l, z)
               n == Gap(l, e) - Gap(l, y)
               k == P[v][1]
               a == z[v]
               b == e[v]
    <3>1. y[v] = a + k BY <1>2, <2>5, AfterIs
    <3>2. /\ k = StepSize(l) => a - b = m
          /\ k = -StepSize(l) => b - a = m
          /\ StepSize(l) = 1 => a - b = k * m
      BY <2>5 DEF Followed
    <3>3. v \in Var /\ k \in Int BY <2>5, PatternOf
    <3>4. a \in Int /\ b \in Int BY <3>3
    <3> HIDE DEF y, P, k, a, b
    <3>5. n = m + StepSize(l) /\ m \in Int BY <2>1, <2>2
    <3> HIDE DEF m, n
    <3>6. k = StepSize(l) => y[v] - b = n BY <2>2, <3>1, <3>2, <3>3, <3>4, <3>5
    <3>7. k = -StepSize(l) => b - y[v] = n BY <2>2, <3>1, <3>2, <3>3, <3>4, <3>5
    <3>8. StepSize(l) = 1 => y[v] - b = k * n
      <4>1. k * (m + 1) = k * m + k BY <3>3, <3>5
      <4> QED BY <3>1, <3>2, <3>3, <3>4, <3>5, <4>1
    <3> QED BY <3>6, <3>7, <3>8 DEF k, b, n
  <2>6. StepSize(l) = 1 /\ Up(l) => e[l.index] .. y[l.index] - 1 \subseteq u
    <3> SUFFICES ASSUME StepSize(l) = 1, Up(l) PROVE e[l.index] .. y[l.index] - 1 \subseteq u OBVIOUS
    <3>1. IndexStep(l) = 1 /\ l.index \in DOMAIN P /\ P[l.index] # <<>> BY IndexIs
    <3>2. y[l.index] = z[l.index] + 1
      <4> DEFINE v == l.index
      <4>1. v \in DOMAIN NormalExitPatterns(l) /\ NormalExitPatterns(l)[v] # <<>> BY <3>1
      <4> HIDE DEF v, y
      <4>2. y[v] = z[v] + NormalExitPatterns(l)[v][1] BY <1>2, <4>1, AfterIs DEF y
      <4> QED BY <3>1, <4>2 DEF v, IndexStep
    <3>3. e[l.index] \in Int /\ z[l.index] \in Int BY ShapeOf
    <3>4. e[l.index] .. z[l.index] - 1 \subseteq t BY DEF Followed
    <3> HIDE DEF y
    <3>5. \A n \in e[l.index] .. y[l.index] - 1 : n \in e[l.index] .. z[l.index] - 1 \/ n = z[l.index]
      BY <3>2, <3>3
    <3> QED BY <3>4, <3>5
  <2> HIDE DEF y, P, u
  <2>7. Followed(l, e, y, u) BY <2>4, <2>5, <2>6 DEF Followed, P
  <2> QED BY <2>7 DEF y, u
<1> QED BY <1>1, <1>2

(* The bound stays what it was at the entry. *)
LEMMA BoundStays ==
  ASSUME NEW l \in LoopShape, HasIndex(l), NEW e, NEW z, Moved(l, e, z)
  PROVE  z[l.bound] = e[l.bound]
<1>1. \A j \in DOMAIN l.steps : l.bound \notin Changed(l.steps[j]) BY DEF HasIndex, Changed
<1>2. l.bound \notin DOMAIN NormalExitPatterns(l) BY <1>1 DEF NormalExitPatterns
<1>3. l.bound \in Var BY ShapeOf
<1> QED BY <1>2, <1>3 DEF Moved

(* Where an exit is taken. *)
LEMMA MetInRange ==
  ASSUME NEW l \in LoopShape, HasIndex(l), NEW e \in [Var -> Int], NEW z \in [Var -> Int],
         Bounded(l, e), Moved(l, e, z), Holds(l, z), Up(l), ~Closed(l)
  PROVE  z[l.index] \in Searched(l, e)
<1> DEFINE i == l.index
           b == l.bound
<1>1. z[i] \in Int /\ z[b] \in Int /\ e[i] \in Int /\ e[b] \in Int BY ShapeOf
<1>2. z[b] = e[b] BY BoundStays
<1>3. Gap(l, e) - Gap(l, z) >= 0 BY DEF Moved
<1>4. Gap(l, z) = z[b] - z[i] /\ Gap(l, e) = e[b] - e[i] BY DEF Gap
<1>5. Gap(l, z) >= 1 BY GapBefore
<1> HIDE DEF i, b
<1>6. e[i] <= z[i] /\ z[i] <= e[b] - 1 BY <1>1, <1>2, <1>3, <1>4, <1>5
<1> QED BY <1>1, <1>6 DEF Searched, i, b

(* The runs of the loop keep what is said of them. *)
LEMMA RunKeeps ==
  ASSUME Inv, EnteredInv, LeftInv, [Next]_vars
  PROVE  EnteredInv' /\ LeftInv'
<1>1. CASE Analyze
  <2>1. at = "idle" /\ UNCHANGED rvars
    BY <1>1 DEF Analyze, ParseLoopInfo, EmitLoopInvariant, SetEntryAndCurrent, SetPatterns,
         SetSharedState, SetIndex, EndInfo, AskInsensitive, EndInsensitive, AskSensitive,
         ApplyBest, ApplyOther, BuildPostState, Parses, StageInv, Inv
  <2> QED BY <2>1 DEF rvars, EnteredInv, LeftInv
<1>2. ASSUME NEW i \in DOMAIN loop.pre, Enter(i) PROVE EnteredInv' /\ LeftInv'
  <2>1. /\ at = "idle" /\ from' = i /\ loop' = loop /\ x' = entry'
        /\ UNCHANGED <<exit, tested, met>>
        /\ \A v \in Var : loop.pre[i].vals[v] \in {<<>>, <<before'[v]>>}
        /\ before' \in [Var -> Int]
    BY <1>2, StartsAssumption DEF Enter, svars
  <2>2. exit = 0 /\ tested = {} /\ met = {} /\ loop \in LoopShape
    BY <2>1 DEF EnteredInv, Inv, StageInv
  <2>3. CASE loop.pre[i].state # "Step"
    <3>1. at' = "out" /\ entry' = before' BY <1>2, <2>3 DEF Enter
    <3> QED BY <2>1, <2>2, <2>3, <3>1 DEF EnteredInv, LeftInv
  <2>4. CASE loop.pre[i].state = "Step"
    <3>1. /\ entry' = [v \in Var |-> IF loop.init[v] = <<>> THEN before'[v] ELSE loop.init[v][1]]
          /\ at' \in {"check", "round"}
      BY <1>2, <2>4 DEF Enter
    <3>2. \A v \in Var : loop.init[v] = <<>> \/ loop.init[v][1] \in Int
      <4>1. loop.init \in [Var -> Effect] BY <2>2 DEF LoopShape
      <4> QED BY <4>1, EffectIs
    <3>3. entry' \in [Var -> Int] BY <2>1, <3>1, <3>2
    <3>4. Followed(loop, entry', entry', tested) BY <2>2, <3>3, FollowedAtEntry
    <3> QED BY <2>1, <2>2, <2>4, <3>1, <3>3, <3>4 DEF EnteredInv, LeftInv
  <2> QED BY <2>3, <2>4
<1>3. CASE Continue
  <2>1. at = "check" /\ at' = "round" /\ UNCHANGED <<loop, from, before, entry, x, exit, tested, met>>
    BY <1>3 DEF Continue, svars
  <2> QED BY <2>1 DEF EnteredInv, LeftInv
<1>4. CASE Leave
  <2>1. /\ at = "check" /\ at' = "out" /\ (~Holds(loop, x) \/ loop.more)
        /\ UNCHANGED <<loop, from, before, entry, x, exit, tested, met>>
    BY <1>4 DEF Leave, svars
  <2>2. EnteredInv' BY <2>1 DEF EnteredInv
  <2>3. x \in [Var -> Int] /\ Moved(loop, entry, x) BY <2>1 DEF Inv, RunInv
  <2>4. exit = 0 /\ Followed(loop, entry, x, tested) BY <2>1 DEF EnteredInv
  <2> QED BY <2>1, <2>2, <2>3, <2>4 DEF LeftInv
<1>5. ASSUME NEW j \in DOMAIN loop.steps, Step(j) PROVE EnteredInv' /\ LeftInv'
  <2>1. /\ at = "round" /\ at' = "check" /\ x' = After(loop.steps[j], x)
        /\ tested' = tested \cup {x[loop.index]}
        /\ UNCHANGED <<loop, from, before, entry, exit, met>>
    BY <1>5 DEF Step, svars
  <2>2. /\ loop \in LoopShape /\ entry \in [Var -> Int] /\ x \in [Var -> Int] /\ Moved(loop, entry, x)
        /\ HasIndex(loop) /\ Bounded(loop, entry) => Holds(loop, x)
    BY <2>1 DEF Inv, StageInv, RunInv
  <2>3. Followed(loop, entry, x, tested) BY <2>1 DEF EnteredInv
  <2>4. Followed(loop, entry, x', tested') BY <2>1, <2>2, <2>3, FollowedByStep
  <2> QED BY <2>1, <2>4 DEF EnteredInv, LeftInv
<1>6. ASSUME NEW j \in DOMAIN loop.exits, Interrupt(j) PROVE EnteredInv' /\ LeftInv'
  <2>1. /\ at = "round" /\ at' = "out" /\ x' = After(loop.exits[j].effect, x)
        /\ exit' = j /\ met' = {x[loop.index]}
        /\ UNCHANGED <<loop, from, before, entry, tested>>
    BY <1>6 DEF Interrupt, svars
  <2>2. /\ loop \in LoopShape /\ entry \in [Var -> Int] /\ x \in [Var -> Int] /\ Moved(loop, entry, x)
        /\ HasIndex(loop) /\ Bounded(loop, entry) => Holds(loop, x)
    BY <2>1 DEF Inv, StageInv, RunInv
  <2>3. EnteredInv' BY <2>1 DEF EnteredInv
  <2>4. \A v \in Var \ DOMAIN NormalExitPatterns(loop) :
          loop.exits[j].effect[v] = <<0>> => x'[v] = entry[v]
    <3> SUFFICES ASSUME NEW v \in Var \ DOMAIN NormalExitPatterns(loop)
                 PROVE  loop.exits[j].effect[v] = <<0>> => x'[v] = entry[v]
      OBVIOUS
    <3>1. loop.exits[j].effect[v] = <<0>> => x'[v] = x[v] + 0
      <4>1. loop.exits[j].effect[v] = <<0>> =>
              loop.exits[j].effect[v] # <<>> /\ loop.exits[j].effect[v][1] = 0
        BY OneStep
      <4> QED BY <2>1, <4>1 DEF After
    <3>2. x[v] = entry[v] /\ x[v] \in Int BY <2>2 DEF Moved
    <3> QED BY <3>1, <3>2
  <2>5. HasIndex(loop) /\ Bounded(loop, entry) /\ Up(loop) /\ ~Closed(loop) =>
          x[loop.index] \in Searched(loop, entry)
    BY <2>2, MetInRange
  <2>6. j \in Nat \ {0}
    <3>1. j \in 1 .. Len(loop.exits) /\ Len(loop.exits) \in Nat BY <2>2, ExitsOf
    <3> QED BY <3>1
  <2> QED BY <2>1, <2>3, <2>4, <2>5, <2>6 DEF LeftInv
<1>7. CASE UNCHANGED vars BY <1>7 DEF vars, svars, rvars, EnteredInv, LeftInv
<1> QED BY <1>1, <1>2, <1>3, <1>4, <1>5, <1>6, <1>7 DEF Next, RunLoop

-----------------------------------------------------------------------------
(* The paths after the loop. *)

(* Each info of the result becomes a path after each state before the loop. *)
LEMMA PostPathsAre ==
  ASSUME InfosInv, loop \in LoopShape, NEW i \in DOMAIN loop.pre
  PROVE  /\ IsSeq(PostPaths(i))
         /\ loop.pre[i].state = "Step" =>
              /\ \A k \in DOMAIN normal :
                   \E m \in DOMAIN PostPaths(i) : PostPaths(i)[m] = PostPath(i, normal[k])
              /\ \A j \in DOMAIN interrupts : \A k \in DOMAIN interrupts[j] :
                   \E m \in DOMAIN PostPaths(i) : PostPaths(i)[m] = PostPath(i, interrupts[j][k])
<1>1. CASE loop.pre[i].state # "Step"
  <2>1. PostPaths(i) = <<[PostPath(i, NoInfo) EXCEPT !.state = loop.pre[i].state]>>
    BY <1>1 DEF PostPaths
  <2> QED BY <1>1, <2>1, SingletonIsSeq
<1>2. CASE loop.pre[i].state = "Step"
  <2> DEFINE flat == FlattenSeq(interrupts)
             infos == normal \o flat
             paths == PostPaths(i)
  <2>1. paths = [k \in DOMAIN infos |-> PostPath(i, infos[k])] BY <1>2 DEF PostPaths
  <2>2. IsSeq(interrupts) /\ \A j \in DOMAIN interrupts : IsSeq(interrupts[j])
    <3>1. Len(loop.exits) \in Nat /\ DOMAIN loop.exits = 1 .. Len(loop.exits) BY ExitsOf
    <3>2. interrupts = [j \in 1 .. Len(loop.exits) |-> interrupts[j]] BY <3>1 DEF InfosInv
    <3>3. IsSeq(interrupts) BY <3>1, <3>2, FunctionIsSeq
    <3> QED BY <3>3 DEF InfosInv
  <2>3. IsSeq(flat) BY <2>2, FlattenMembers
  <2>4. IsSeq(normal) BY DEF InfosInv
  <2>5. \A j \in DOMAIN interrupts : \A k \in DOMAIN interrupts[j] :
          \E m \in DOMAIN flat : flat[m] = interrupts[j][k]
    BY <2>2, FlattenHolds
  <2> HIDE DEF flat
  <2>6. HoldsBoth(normal \o flat, normal, flat) BY ONLY <2>3, <2>4, HeldAfter
  <2>7. HoldsBoth(infos, normal, flat) BY <2>6
  <2> HIDE DEF infos, paths
  <2>8. IsSeq(paths) /\ DOMAIN paths = DOMAIN infos
    <3>1. Len(infos) \in Nat /\ DOMAIN infos = 1 .. Len(infos) BY <2>7 DEF HoldsBoth, IsSeq
    <3>2. paths = [k \in 1 .. Len(infos) |-> paths[k]] BY <2>1, <3>1
    <3> QED BY <3>1, <3>2, FunctionIsSeq
  <2>9. ASSUME NEW k \in DOMAIN normal
        PROVE  \E m \in DOMAIN paths : paths[m] = PostPath(i, normal[k])
    <3>1. PICK m \in DOMAIN infos : infos[m] = normal[k] BY <2>7 DEF HoldsBoth
    <3>2. m \in DOMAIN paths /\ paths[m] = PostPath(i, normal[k]) BY <2>1, <2>8, <3>1
    <3> QED BY <3>2
  <2>10. ASSUME NEW j \in DOMAIN interrupts, NEW k \in DOMAIN interrupts[j]
         PROVE  \E m \in DOMAIN paths : paths[m] = PostPath(i, interrupts[j][k])
    <3>1. PICK n \in DOMAIN flat : flat[n] = interrupts[j][k] BY <2>5
    <3>2. PICK m \in DOMAIN infos : infos[m] = flat[n] BY <2>7 DEF HoldsBoth
    <3>3. m \in DOMAIN paths /\ paths[m] = PostPath(i, interrupts[j][k]) BY <2>1, <2>8, <3>1, <3>2
    <3> QED BY <3>3
  <2> QED BY <2>8, <2>9, <2>10 DEF paths
<1> QED BY <1>1, <1>2

LEMMA PostsHold ==
  ASSUME InfosInv, loop \in LoopShape, NEW i \in DOMAIN loop.pre,
         posts = FlattenSeq([n \in DOMAIN loop.pre |-> PostPaths(n)]),
         NEW m \in DOMAIN PostPaths(i)
  PROVE  \E k \in DOMAIN posts : posts[k] = PostPaths(i)[m]
<1> DEFINE lists == [n \in DOMAIN loop.pre |-> PostPaths(n)]
<1>1. Len(loop.pre) \in Nat /\ DOMAIN loop.pre = 1 .. Len(loop.pre) BY DEF LoopShape
<1>2. \A n \in DOMAIN lists : lists[n] = PostPaths(n) OBVIOUS
<1>3. \A n \in DOMAIN lists : IsSeq(lists[n])
  <2> SUFFICES ASSUME NEW n \in DOMAIN loop.pre PROVE IsSeq(PostPaths(n)) OBVIOUS
  <2> QED BY PostPathsAre
<1>4. DOMAIN lists = DOMAIN loop.pre OBVIOUS
<1> HIDE DEF lists
<1>5. IsSeq(lists)
  <2>1. lists = [n \in 1 .. Len(loop.pre) |-> lists[n]] BY <1>1, <1>4 DEF lists
  <2> QED BY <1>1, <2>1, FunctionIsSeq
<1>6. m \in DOMAIN lists[i] BY <1>2, <1>4
<1>7. i \in DOMAIN lists BY <1>4
<1>8. \E k \in DOMAIN FlattenSeq(lists) : FlattenSeq(lists)[k] = lists[i][m]
  BY ONLY <1>3, <1>5, <1>6, <1>7, FlattenHolds
<1> QED BY <1>2, <1>7, <1>8 DEF lists

(* What an info leaves alone, and what it may say of a scalar.             *)
LEMMA LeftAloneIs ==
  ASSUME NEW l \in LoopShape, NEW v \in LeftAlone(l)
  PROVE  /\ v \in Var \ DOMAIN NormalExitPatterns(l)
         /\ \A j \in DOMAIN l.exits : l.exits[j].effect[v] = <<0>>
<1>1. /\ v \in Var /\ \A j \in DOMAIN l.steps : l.steps[j][v] = <<0>>
      /\ \A j \in DOMAIN l.exits : l.exits[j].effect[v] = <<0>>
  BY DEF LeftAlone
<1>2. v \notin DOMAIN NormalExitPatterns(l) BY <1>1 DEF NormalExitPatterns, Changed
<1> QED BY <1>1, <1>2

(* A scalar that no path changes and that all states before agree on. *)
LEMMA SharedIs ==
  ASSUME NEW l \in LoopShape, NEW i \in Active(l), NEW v \in Var, SharedConstants(l)[v] # <<>>
  PROVE  SharedConstants(l)[v] = EntryConstant(l, i, v)
<1> DEFINE ks == {EntryConstant(l, k, v) : k \in Active(l)}
<1>1. SharedConstants(l)[v] = IF Cardinality(ks) = 1 THEN CHOOSE k \in ks : TRUE ELSE <<>>
  BY DEF SharedConstants
<1>2. IsFiniteSet(ks)
  <2> DEFINE f == [k \in Active(l) |-> EntryConstant(l, k, v)]
  <2>1. IsFiniteSet(Active(l))
    <3>1. Len(l.pre) \in Nat /\ DOMAIN l.pre = 1 .. Len(l.pre) BY DEF LoopShape
    <3>2. IsFiniteSet(1 .. Len(l.pre)) BY <3>1, FS_Interval
    <3>3. Active(l) \subseteq 1 .. Len(l.pre) BY <3>1 DEF Active
    <3> QED BY <3>2, <3>3, FS_Subset
  <2>2. f \in Surjection(Active(l), ks) BY DEF Surjection
  <2> QED BY <2>1, <2>2, FS_Surjection
<1>3. EntryConstant(l, i, v) \in ks OBVIOUS
<1> HIDE DEF ks
<1>4. Cardinality(ks) = 1 BY <1>1
<1>5. PICK k : ks = {k} BY <1>2, <1>4, FS_Singleton
<1> QED BY <1>1, <1>3, <1>4, <1>5

(* An info says nothing that is not true of a run that has left the scalar *)
(* as it was at the entry.                                                 *)
LEMMA SaidIsTrue ==
  ASSUME Inv, EnteredInv, at = "out", loop.pre[from].state = "Step",
         NEW v \in Var, NEW said, MaySay(loop, v, said), v \in LeftAlone(loop) => x[v] = entry[v],
         NEW i
  PROVE  IsTrue(said, v, i)
<1>1. loop \in LoopShape BY DEF Inv, StageInv
<1>2. CASE said \in {Unknown, Solved}
  <2>1. said.kind \in {"unknown", "solved"} BY <1>2 DEF Unknown, Solved
  <2> QED BY <2>1 DEF IsTrue
<1>3. CASE v \in LeftAlone(loop) /\ said = AtEntry BY <1>3 DEF IsTrue, AtEntry
<1>4. CASE /\ v \in LeftAlone(loop) /\ SharedConstants(loop)[v] # <<>>
           /\ said = Constant(SharedConstants(loop)[v][1])
  <2> DEFINE k == SharedConstants(loop)[v]
  <2>1. /\ from \in DOMAIN loop.pre /\ before \in [Var -> Int]
        /\ entry[v] = IF loop.init[v] = <<>> THEN before[v] ELSE loop.init[v][1]
        /\ loop.pre[from].vals[v] \in {<<>>, <<before[v]>>}
    BY DEF EnteredInv
  <2>2. from \in Active(loop) BY <2>1 DEF Active
  <2>3. k = IF loop.init[v] # <<>> THEN loop.init[v] ELSE loop.pre[from].vals[v]
    BY <1>1, <1>4, <2>2, SharedIs DEF EntryConstant
  <2> HIDE DEF k
  <2>4. entry[v] = k[1]
    <3>1. CASE loop.init[v] # <<>> BY <2>1, <2>3, <3>1
    <3>2. CASE loop.init[v] = <<>>
      <4>1. k = <<before[v]>> BY <1>4, <2>1, <2>3, <3>2 DEF k
      <4>2. k[1] = before[v] BY <4>1
      <4> QED BY <2>1, <3>2, <4>2
    <3> QED BY <3>1, <3>2
  <2>5. said.kind = "value" /\ said.step = k[1] BY <1>4 DEF Constant, k
  <2> QED BY <1>4, <2>4, <2>5 DEF IsTrue
<1> QED BY <1>2, <1>3, <1>4 DEF MaySay

(* What holds of the scalars where the loop is left. *)
LEMMA UntouchedIs ==
  ASSUME Inv, EnteredInv, Regular, at = "out", loop.pre[from].state = "Step",
         NEW v \in Var \ loop.local, v \notin Assigned(loop), x[v] = entry[v]
  PROVE  x[v] = before[v]
<1>1. v \notin DOMAIN NormalExitPatterns(loop) BY DEF Assigned
<1>2. loop.init[v] = <<>> BY <1>1 DEF Regular
<1> QED BY <1>2 DEF EnteredInv

(* Where the condition ends the loop. *)
LEMMA GapLeft ==
  ASSUME NEW l \in LoopShape, HasIndex(l), NEW e \in [Var -> Int], NEW z \in [Var -> Int],
         Bounded(l, e), Moved(l, e, z), ~Holds(l, z), NEW t, Followed(l, e, z, t)
  PROVE  /\ Gap(l, z) \in Int
         /\ Gap(l, z) <= IF Closed(l) THEN -1 ELSE 0
         /\ Gap(l, z) >= (IF Closed(l) THEN 0 ELSE 1) - StepSize(l)
<1>1. z[l.index] \in Int /\ z[l.bound] \in Int BY ShapeOf
<1>2. Gap(l, z) = IF Up(l) THEN z[l.bound] - z[l.index] ELSE z[l.index] - z[l.bound] BY DEF Gap
<1>3. Gap(l, z) \in Int BY <1>1, <1>2
<1>4. Gap(l, z) >= (IF Closed(l) THEN 0 ELSE 1) - StepSize(l) BY DEF Followed
<1>5. l.op \in IF Up(l) THEN {"LT", "LE", "NE"} ELSE {"GT", "GE", "NE"} BY DEF Bounded
<1>6. Gap(l, z) <= IF Closed(l) THEN -1 ELSE 0
  <2>1. CASE l.op = "LT" BY <1>1, <1>2, <1>5, <2>1 DEF Holds, Closed
  <2>2. CASE l.op = "LE" BY <1>1, <1>2, <1>5, <2>2 DEF Holds, Closed
  <2>3. CASE l.op = "GT" BY <1>1, <1>2, <1>5, <2>3 DEF Holds, Closed
  <2>4. CASE l.op = "GE" BY <1>1, <1>2, <1>5, <2>4 DEF Holds, Closed
  <2>5. CASE l.op = "NE" BY <1>1, <1>2, <1>5, <2>5 DEF Holds, Closed
  <2> QED BY <1>5, <2>1, <2>2, <2>3, <2>4, <2>5
<1> QED BY <1>3, <1>4, <1>6

LEMMA UnitIs ==
  ASSUME NEW l \in LoopShape, HasIndex(l), Unit(l)
  PROVE  StepSize(l) = 1
BY IndexIs DEF Unit, Up

(* The run has left by the condition, at the bound. *)
AtBound ==
  /\ loop \in LoopShape /\ HasIndex(loop) /\ entry \in [Var -> Int] /\ x \in [Var -> Int]
  /\ Bounded(loop, entry) /\ Moved(loop, entry, x) /\ ~Holds(loop, x)
  /\ Followed(loop, entry, x, tested)

LEMMA LeftAtBound ==
  ASSUME Inv, EnteredInv, LeftInv, at = "out", loop.pre[from].state = "Step", exit = 0,
         HasIndex(loop), EndsAtBound(loop, entry)
  PROVE  AtBound
<1>1. loop \in LoopShape BY DEF Inv, StageInv
<1>2. Bounded(loop, entry) /\ ~loop.more BY DEF EndsAtBound
<1>3. entry \in [Var -> Int] BY DEF EnteredInv
<1> QED BY <1>1, <1>2, <1>3 DEF LeftInv, AtBound

LEMMA WindowHolds ==
  ASSUME AtBound, ~Closed(loop)
  PROVE  x[loop.index] \in Window
<1>1. /\ Gap(loop, x) \in Int /\ Gap(loop, x) <= 0 /\ Gap(loop, x) >= 1 - StepSize(loop)
  BY GapLeft DEF AtBound
<1>2. x[loop.bound] = entry[loop.bound] BY BoundStays DEF AtBound
<1>3. x[loop.index] \in Int /\ x[loop.bound] \in Int BY ShapeOf DEF AtBound
<1>4. /\ IndexStep(loop) \in Int /\ (Up(loop) => StepSize(loop) = IndexStep(loop))
      /\ (~Up(loop) => StepSize(loop) = -IndexStep(loop))
  BY IndexIs DEF AtBound
<1>5. CASE Up(loop)
  <2>1. Gap(loop, x) = x[loop.bound] - x[loop.index] BY <1>5 DEF Gap
  <2> QED BY <1>1, <1>2, <1>3, <1>4, <1>5, <2>1 DEF Window
<1>6. CASE ~Up(loop)
  <2>1. Gap(loop, x) = x[loop.index] - x[loop.bound] BY <1>6 DEF Gap
  <2> QED BY <1>1, <1>2, <1>3, <1>4, <1>6, <2>1 DEF Window
<1> QED BY <1>5, <1>6

LEMMA NoneIsTrue ==
  ASSUME AtBound, Unit(loop), Up(loop), ~Closed(loop)
  PROVE  SearchRange \subseteq tested
<1>1. StepSize(loop) = 1 BY UnitIs DEF AtBound
<1>2. Gap(loop, x) = 0 BY <1>1, GapLeft DEF AtBound
<1>3. x[loop.bound] = entry[loop.bound] BY BoundStays DEF AtBound
<1>4. x[loop.index] \in Int /\ x[loop.bound] \in Int BY ShapeOf DEF AtBound
<1>5. x[loop.index] = entry[loop.bound] BY <1>2, <1>3, <1>4 DEF Gap
<1>6. entry[loop.index] .. x[loop.index] - 1 \subseteq tested BY <1>1 DEF AtBound, Followed
<1> QED BY <1>5, <1>6 DEF SearchRange

(* The value that loopAssigns knows after the loop. *)
LEMMA ValueIsTrue ==
  ASSUME AtBound, Closed(loop) => Precise(loop), NEW v \in DOMAIN NormalExitPatterns(loop)
  PROVE  IsTrue(ValueAfter(loop, NormalExitPatterns(loop)[v]), v, x[loop.index])
<1> DEFINE p == NormalExitPatterns(loop)[v]
           said == ValueAfter(loop, p)
           n == Gap(loop, entry) - Gap(loop, x)
           a == entry[v]
           b == x[v]
           k == p[1]
<1>1. CASE said = Unknown
  <2>1. said.kind = "unknown" BY <1>1 DEF Unknown
  <2> HIDE DEF said
  <2>2. IsTrue(said, v, x[loop.index]) BY <2>1 DEF IsTrue
  <2> QED BY <2>2 DEF said
<1>2. CASE said # Unknown
  <2>1. /\ p # <<>> /\ (Precise(loop) => said = Counted(k))
        /\ ~Precise(loop) => k \in {IndexStep(loop), -IndexStep(loop)} /\ said = Follows(k)
    BY <1>2 DEF ValueAfter
  <2>2. k \in Int /\ v \in Var BY <2>1, PatternOf DEF AtBound
  <2>3. a \in Int /\ b \in Int BY <2>2 DEF AtBound
  <2>4. Gap(loop, entry) \in Int /\ Gap(loop, x) \in Int /\ StepSize(loop) \in Nat \ {0}
    BY CountIs, IndexIs DEF AtBound
  <2>5. /\ k = StepSize(loop) => b - a = n
        /\ k = -StepSize(loop) => a - b = n
        /\ StepSize(loop) = 1 => b - a = k * n
    BY <2>1 DEF AtBound, Followed
  <2> HIDE DEF p, said, a, b, k
  <2>6. CASE Precise(loop)
    <3>1. StepSize(loop) = 1 BY <2>6, UnitIs DEF AtBound, Precise
    <3>2. Gap(loop, x) = IF Closed(loop) THEN -1 ELSE 0
      <4>1. /\ Gap(loop, x) <= IF Closed(loop) THEN -1 ELSE 0
            /\ Gap(loop, x) >= (IF Closed(loop) THEN 0 ELSE 1) - 1
        BY <3>1, GapLeft DEF AtBound
      <4> QED BY <2>4, <4>1
    <3>3. MaxLoopCount(loop, entry) = n
      <4>1. MaxLoopCount(loop, entry) =
              (Gap(loop, entry) + StepSize(loop) - 1) + (IF Closed(loop) THEN 1 ELSE 0)
        BY CountIs DEF AtBound
      <4> QED BY <2>4, <3>1, <3>2, <4>1
    <3>4. n \in Int BY <2>4
    <3> HIDE DEF n
    <3>5. b = a + k * MaxLoopCount(loop, entry)
      <4>1. k * n \in Int BY <2>2, <3>4
      <4> QED BY <2>3, <2>5, <3>1, <3>3, <4>1
    <3>6. said.kind = "count" /\ said.step = k BY <2>1, <2>6 DEF Counted
    <3>7. IsTrue(said, v, x[loop.index]) BY <3>5, <3>6 DEF IsTrue, a, b
    <3> QED BY <3>7 DEF said, p
  <2>7. CASE ~Precise(loop)
    <3> DEFINE moved == IF Up(loop) THEN x[loop.index] - entry[loop.index]
                                    ELSE entry[loop.index] - x[loop.index]
    <3>1. moved = n
      <4>1. x[loop.bound] = entry[loop.bound] BY BoundStays DEF AtBound
      <4>2. /\ x[loop.index] \in Int /\ entry[loop.index] \in Int /\ entry[loop.bound] \in Int
        BY ShapeOf DEF AtBound
      <4> QED BY <4>1, <4>2 DEF Gap
    <3>2. k \in {StepSize(loop), -StepSize(loop)}
      <4>1. IndexStep(loop) \in Int /\ k \in {IndexStep(loop), -IndexStep(loop)} BY <2>1, <2>7, IndexIs DEF AtBound
      <4> QED BY <2>4, <4>1 DEF StepSize
    <3>3. said.kind = "after" /\ said.step = k BY <2>1, <2>7 DEF Follows
    <3> HIDE DEF moved
    <3>4. n \in Int BY <2>4
    <3> HIDE DEF n
    <3>5. b = IF k > 0 THEN a + moved ELSE a - moved
      BY <2>2, <2>3, <2>4, <2>5, <3>1, <3>2, <3>4
    <3>6. IsTrue(said, v, x[loop.index]) BY <3>3, <3>5 DEF IsTrue, moved, a, b
    <3> QED BY <3>6 DEF said, p
  <2> QED BY <2>6, <2>7
<1> QED BY <1>1, <1>2

-----------------------------------------------------------------------------
(* One of the paths describes the run, however it ended. *)

LEMMA PostPathIs ==
  ASSUME NEW i, NEW info
  PROVE  LET p == PostPath(i, info)
         IN  /\ p.from = i /\ p.ret = info.ret /\ p.conds = info.conds
             /\ p.state = IF info.state = "Break" THEN "Step" ELSE info.state
             /\ \A v \in Var : p.mem[v] = IF v \in DOMAIN info.mem \ loop.local THEN info.mem[v]
                                                                              ELSE Untouched
BY DEF PostPath

(* The path that describes a run, for each way it may end. *)
LEMMA DescribedAtCondition ==
  ASSUME Inv, EmitInv, EnteredInv, LeftInv, Regular, at = "out", stage = "done",
         loop.pre[from].state = "Step", exit = 0
  PROVE  1 \in DOMAIN normal /\ Describes(PostPath(from, normal[1]))
<1> DEFINE info == normal[1]
           won == SearchOf(loop, best)
           post == PostPath(from, info)
<1>1. IsSeq(normal) /\ normal # <<>> BY DEF EmitInv, Emitting, InfosInv, CoverInv
<1>2. 1 \in DOMAIN normal BY <1>1, HeadAndTail
<1>3. NormalInfo(loop, info, won) /\ Assigned(loop) \subseteq DOMAIN info.mem
  BY <1>2 DEF EmitInv, Emitting, InfosInv, CoverInv
<1>4. HasIndex(loop) => EndsAtBound(loop, entry) /\ AtBound BY LeftAtBound DEF Regular
<1>5. loop \in LoopShape /\ Moved(loop, entry, x) BY DEF Inv, StageInv, LeftInv
<1> HIDE DEF info, won
<1>6. /\ post.from = from /\ post.ret = info.ret /\ post.conds = info.conds
      /\ post.state = IF info.state = "Break" THEN "Step" ELSE info.state
      /\ \A v \in Var : post.mem[v] = IF v \in DOMAIN info.mem \ loop.local THEN info.mem[v]
                                                                            ELSE Untouched
  BY PostPathIs
<1> HIDE DEF post
<1>7. post.state = EndState /\ post.ret = {} BY <1>3, <1>6 DEF NormalInfo, EndState
<1>8. "window" \in post.conds => x[loop.index] \in Window
  <2> SUFFICES ASSUME "window" \in post.conds PROVE x[loop.index] \in Window OBVIOUS
  <2>1. HasIndex(loop) /\ ~Precise(loop) BY <1>3, <1>6 DEF NormalInfo
  <2>2. ~Closed(loop) BY <1>4, <2>1 DEF EndsAtBound
  <2> QED BY <1>4, <2>1, <2>2, WindowHolds
<1>9. "none" \in post.conds => SearchRange \subseteq tested
  <2> SUFFICES ASSUME "none" \in post.conds PROVE SearchRange \subseteq tested OBVIOUS
  <2>1. HasIndex(loop) /\ Unit(loop) /\ SearchWon
    BY <1>3, <1>6 DEF NormalInfo, won, SearchOf, SearchWon
  <2> QED BY <1>4, <2>1, NoneIsTrue DEF Regular
<1>10. "some" \notin post.conds BY <1>3, <1>6 DEF NormalInfo
<1>11. ASSUME NEW v \in Var \ loop.local PROVE IsTrue(post.mem[v], v, x[loop.index])
  <2>1. v \notin DOMAIN NormalExitPatterns(loop) => x[v] = entry[v] BY <1>5 DEF Moved
  <2>2. v \in LeftAlone(loop) => x[v] = entry[v] BY <1>5, <2>1, LeftAloneIs
  <2>3. CASE v \in DOMAIN info.mem
    <3> DEFINE said == info.mem[v]
    <3>1. post.mem[v] = said BY <1>6, <1>11, <2>3
    <3>2. MaySayNormal(loop, v, said) BY <1>3, <2>3 DEF NormalInfo
    <3> HIDE DEF said
    <3>3. CASE MaySay(loop, v, said) BY <2>2, <3>1, <3>3, SaidIsTrue
    <3>4. CASE /\ HasIndex(loop) /\ v \in Assigned(loop)
               /\ said = ValueAfter(loop, NormalExitPatterns(loop)[v])
      <4>1. v \in DOMAIN NormalExitPatterns(loop) BY <3>4 DEF Assigned
      <4>2. AtBound /\ (Closed(loop) => Precise(loop)) BY <1>4, <3>4 DEF EndsAtBound
      <4> QED BY <3>1, <3>4, <4>1, <4>2, ValueIsTrue
    <3> QED BY <3>2, <3>3, <3>4 DEF MaySayNormal
  <2>4. CASE v \notin DOMAIN info.mem
    <3>1. post.mem[v] = Untouched BY <1>6, <2>4
    <3>2. v \notin Assigned(loop) BY <1>3, <2>4
    <3>3. x[v] = entry[v] BY <1>11, <2>1, <3>2 DEF Assigned
    <3>4. x[v] = before[v] BY <1>11, <3>2, <3>3, UntouchedIs
    <3>5. post.mem[v].kind = "before" BY <3>1 DEF Untouched
    <3> QED BY <3>4, <3>5 DEF IsTrue
  <2> QED BY <2>3, <2>4
<1>12. Describes(post)
  <2>1. x[loop.index] \in IF "window" \in post.conds THEN Window ELSE {x[loop.index]} BY <1>8
  <2> QED BY <1>6, <1>7, <1>9, <1>10, <1>11, <2>1 DEF Describes
<1> QED BY <1>2, <1>12 DEF post, info

LEMMA DescribedAtExit ==
  ASSUME Inv, EmitInv, EnteredInv, LeftInv, Regular, at = "out", stage = "done",
         loop.pre[from].state = "Step", exit # 0
  PROVE  /\ exit \in DOMAIN interrupts /\ 1 \in DOMAIN interrupts[exit]
         /\ Describes(PostPath(from, interrupts[exit][1]))
<1> DEFINE out == loop.exits[exit]
           info == interrupts[exit][1]
           won == SearchOf(loop, best)
           post == PostPath(from, info)
<1>1. exit \in DOMAIN loop.exits /\ loop \in LoopShape BY DEF LeftInv, Inv, StageInv
<1>2. exit \in DOMAIN interrupts /\ IsSeq(interrupts[exit]) /\ interrupts[exit] # <<>>
  BY <1>1 DEF EmitInv, Emitting, InfosInv, CoverInv
<1>3. 1 \in DOMAIN interrupts[exit] BY <1>2, HeadAndTail
<1>4. ExitInfo(loop, out, info, won) /\ Touched(loop, out) \subseteq DOMAIN info.mem
  BY <1>1, <1>3 DEF EmitInv, Emitting, InfosInv, CoverInv
<1>5. out.state = "Return" => info.state = "Return"
  <2> SUFFICES ASSUME out.state = "Return" PROVE info.state = "Return" OBVIOUS
  <2>1. best # <<>> BY <1>1 DEF Regular
  <2>2. StatesInv BY <2>1 DEF EmitInv
  <2> QED BY <1>1, <1>3, <2>2 DEF StatesInv
<1>6. out.state \in {"Break", "Return"} BY <1>1, ExitsOf
<1> HIDE DEF info, won
<1>7. /\ post.from = from /\ post.ret = info.ret /\ post.conds = info.conds
      /\ post.state = IF info.state = "Break" THEN "Step" ELSE info.state
      /\ \A v \in Var : post.mem[v] = IF v \in DOMAIN info.mem \ loop.local THEN info.mem[v]
                                                                            ELSE Untouched
  BY PostPathIs
<1> HIDE DEF post
<1>8. post.state = EndState /\ post.ret \subseteq {out.ret}
  BY <1>4, <1>5, <1>6, <1>7 DEF ExitInfo, EndState
<1>9. post.conds \subseteq {"some"} BY <1>4, <1>7 DEF ExitInfo
<1>10. "some" \in post.conds => met # {} /\ met \subseteq SearchRange
  <2> SUFFICES ASSUME "some" \in post.conds PROVE met # {} /\ met \subseteq SearchRange OBVIOUS
  <2>1. HasIndex(loop) /\ SearchWon BY <1>4, <1>7 DEF ExitInfo, won, SearchOf, SearchWon
  <2>2. Up(loop) /\ ~Closed(loop) /\ Bounded(loop, entry) BY <2>1 DEF Regular, EndsAtBound
  <2>3. PICK m \in met : met = {m} /\ m \in Searched(loop, entry) BY <2>1, <2>2 DEF LeftInv
  <2> QED BY <2>2, <2>3 DEF Searched, SearchRange
<1>11. \A v \in Var \ DOMAIN NormalExitPatterns(loop) : out.effect[v] = <<0>> => x[v] = entry[v]
  BY DEF LeftInv
<1> HIDE DEF out
<1>12. ASSUME NEW v \in Var \ loop.local, NEW i PROVE IsTrue(post.mem[v], v, i)
  <2>1. v \in LeftAlone(loop) => x[v] = entry[v]
    <3>1. v \in LeftAlone(loop) =>
            v \in Var \ DOMAIN NormalExitPatterns(loop) /\ out.effect[v] = <<0>>
      BY <1>1, LeftAloneIs DEF out
    <3> QED BY <1>11, <3>1
  <2>2. CASE v \in DOMAIN info.mem
    <3>1. post.mem[v] = info.mem[v] BY <1>7, <1>12, <2>2
    <3>2. MaySay(loop, v, info.mem[v]) BY <1>4, <2>2 DEF ExitInfo
    <3> QED BY <2>1, <3>1, <3>2, SaidIsTrue
  <2>3. CASE v \notin DOMAIN info.mem
    <3>1. post.mem[v] = Untouched BY <1>7, <2>3
    <3>2. v \notin Assigned(loop) /\ out.effect[v] = <<0>> BY <1>4, <2>3 DEF Touched, Changed
    <3>3. x[v] = entry[v] BY <1>11, <1>12, <3>2 DEF Assigned
    <3>4. x[v] = before[v] BY <1>12, <3>2, <3>3, UntouchedIs
    <3>5. post.mem[v].kind = "before" BY <3>1 DEF Untouched
    <3> QED BY <3>4, <3>5 DEF IsTrue
  <2> QED BY <2>2, <2>3
<1>13. Describes(post)
  <2>1. "window" \notin post.conds /\ "none" \notin post.conds BY <1>9
  <2>2. \E i \in IF "window" \in post.conds THEN Window ELSE {x[loop.index]} :
          \A v \in Var \ loop.local : IsTrue(post.mem[v], v, i)
    BY <1>12, <2>1
  <2> QED BY <1>7, <1>8, <1>10, <2>1, <2>2 DEF Describes, out
<1> QED BY <1>2, <1>3, <1>13 DEF post, info

LEMMA DescribedBefore ==
  ASSUME EnteredInv, at = "out", loop.pre[from].state # "Step"
  PROVE  Describes([PostPath(from, NoInfo) EXCEPT !.state = loop.pre[from].state])
<1> DEFINE none == PostPath(from, NoInfo)
           post == [none EXCEPT !.state = loop.pre[from].state]
<1>1. /\ none.from = from /\ none.ret = {} /\ none.conds = {}
      /\ \A v \in Var : none.mem[v] = Untouched
  BY PostPathIs, NoInfoIs, NothingIs
<1>2. /\ post.from = from /\ post.ret = {} /\ post.conds = {}
      /\ \A v \in Var : post.mem[v] = Untouched
      /\ post.state = loop.pre[from].state
  BY <1>1 DEF PostPath
<1> HIDE DEF post
<1>3. x = before BY DEF EnteredInv
<1>4. \A v \in Var : IsTrue(post.mem[v], v, x[loop.index])
  <2> SUFFICES ASSUME NEW v \in Var PROVE IsTrue(post.mem[v], v, x[loop.index]) OBVIOUS
  <2>1. post.mem[v].kind = "before" BY <1>2 DEF Untouched
  <2> QED BY <1>3, <2>1 DEF IsTrue
<1>5. post.state = EndState BY <1>2 DEF EndState
<1>6. Describes(post) BY <1>2, <1>4, <1>5 DEF Describes
<1> QED BY <1>6 DEF post

-----------------------------------------------------------------------------
(* What is proved. *)

(* The clause loop assigns of LoopAssignsPlugin names every scalar that a  *)
(* run of the loop has changed, and the ranges of its cells hold every     *)
(* cell stored to by an address that moves with the index.                 *)
THEOREM SpecAssignsCoverWrites == Spec => []AssignsCoverWrites
<1>1. Inv => AssignsCoverWrites
  <2> SUFFICES ASSUME Inv, at \in {"check", "round"}
               PROVE  \A v \in Var \ loop.local : x[v] # entry[v] => v \in Assigned(loop)
    BY DEF Inv, RunInv, AssignsCoverWrites
  <2> QED BY DEF Inv, RunInv, Moved, Assigned
<1> QED BY <1>1, InitInv, NextInv, PTL DEF Spec

(* The number of loop variant is not negative when an iteration goes on,   *)
(* and smaller after it.                                                   *)
THEOREM SpecVariantDecreases == Spec => VariantDecreases
<1>1. Inv /\ [Next]_vars =>
        [/\ rounds' = rounds + 1
         /\ HasIndex(loop) /\ NeverIdle(loop) /\ Bounded(loop, entry) /\ Holds(loop, x)
         => 0 <= LoopVariant(loop, x) /\ LoopVariant(loop, x') < LoopVariant(loop, x)]_vars
  <2> SUFFICES ASSUME Inv, Next, rounds' = rounds + 1, HasIndex(loop), NeverIdle(loop),
                      Bounded(loop, entry), Holds(loop, x)
               PROVE  0 <= LoopVariant(loop, x) /\ LoopVariant(loop, x') < LoopVariant(loop, x)
    OBVIOUS
  <2>1. rounds \in Nat /\ loop \in LoopShape BY DEF Inv, RunInv, StageInv
  <2>2. rounds' # rounds BY <2>1
  <2>3. PICK j \in DOMAIN loop.steps : Step(j)
    BY <2>2 DEF Next, Analyze, RunLoop, rvars, Enter, Continue, Leave, Interrupt
  <2>4. /\ x' = After(loop.steps[j], x) /\ x \in [Var -> Int] /\ Moved(loop, entry, x)
    BY <2>3 DEF Step, Inv, RunInv
  <2>5. x' \in [Var -> Int] BY <2>1, <2>4, AfterIs
  <2>6. Changed(loop.steps[j]) # {} BY DEF NeverIdle
  <2>7. Gap(loop, x') = Gap(loop, x) - StepSize(loop) BY <2>1, <2>4, <2>6, GapAfter
  <2>8. Gap(loop, x) \in Int /\ Gap(loop, x) >= IF Closed(loop) THEN 0 ELSE 1
    BY <2>1, <2>4, GapBefore
  <2>9. \A z \in [Var -> Int] :
          LoopVariant(loop, z) = (Gap(loop, z) + StepSize(loop) - 1) + (IF Closed(loop) THEN 1 ELSE 0)
    BY <2>1, CountIs DEF LoopVariant
  <2>10. StepSize(loop) \in Nat \ {0} BY <2>1, IndexIs
  <2>11. /\ LoopVariant(loop, x) = (Gap(loop, x) + StepSize(loop) - 1) + (IF Closed(loop) THEN 1 ELSE 0)
         /\ LoopVariant(loop, x') = (Gap(loop, x') + StepSize(loop) - 1) + (IF Closed(loop) THEN 1 ELSE 0)
    BY <2>4, <2>5, <2>9
  <2> QED BY <2>7, <2>8, <2>10, <2>11
<1> QED BY <1>1, InitInv, NextInv, PTL DEF Spec, VariantDecreases

(* However the loop is left, one of the paths after it describes the run:  *)
(* its state, the values of its scalars, what was searched and what it     *)
(* returns.                                                                *)
THEOREM SpecPathsDescribeRuns == Spec => []PathsDescribeRuns
<1> DEFINE All == Inv /\ EmitInv /\ EnteredInv /\ LeftInv
<1>1. RunInit => All
  BY InitInv DEF RunInit, Init, EmitInv, Emitting, EnteredInv, LeftInv, getPlugins
<1>2. All /\ [Next]_vars => All' BY NextInv, EmitKeeps, RunKeeps
<1>3. All => PathsDescribeRuns
  <2> SUFFICES ASSUME All, at = "out", Regular PROVE \E k \in DOMAIN posts : Describes(posts[k])
    BY DEF PathsDescribeRuns
  <2>1. stage = "done" /\ loop \in LoopShape BY DEF Inv, StageInv
  <2>2. InfosInv /\ posts = FlattenSeq([i \in DOMAIN loop.pre |-> PostPaths(i)])
    BY <2>1 DEF EmitInv, Emitting
  <2>3. from \in DOMAIN loop.pre BY DEF EnteredInv
  <2>4. \E m \in DOMAIN PostPaths(from) : Describes(PostPaths(from)[m])
    <3>1. CASE loop.pre[from].state # "Step"
      <4> DEFINE post == [PostPath(from, NoInfo) EXCEPT !.state = loop.pre[from].state]
      <4>1. PostPaths(from) = <<post>> BY <3>1 DEF PostPaths
      <4>2. Describes(post) BY <3>1, DescribedBefore
      <4> HIDE DEF post
      <4> QED BY <4>1, <4>2, SingletonIsSeq
    <3>2. CASE loop.pre[from].state = "Step" /\ exit = 0
      <4>1. 1 \in DOMAIN normal /\ Describes(PostPath(from, normal[1]))
        BY <2>1, <3>2, DescribedAtCondition
      <4>2. PICK m \in DOMAIN PostPaths(from) : PostPaths(from)[m] = PostPath(from, normal[1])
        BY <2>1, <2>2, <2>3, <3>2, <4>1, PostPathsAre
      <4> QED BY <4>1, <4>2
    <3>3. CASE loop.pre[from].state = "Step" /\ exit # 0
      <4>1. /\ exit \in DOMAIN interrupts /\ 1 \in DOMAIN interrupts[exit]
            /\ Describes(PostPath(from, interrupts[exit][1]))
        BY <2>1, <3>3, DescribedAtExit
      <4>2. PICK m \in DOMAIN PostPaths(from) :
              PostPaths(from)[m] = PostPath(from, interrupts[exit][1])
        BY <2>1, <2>2, <2>3, <3>3, <4>1, PostPathsAre
      <4> QED BY <4>1, <4>2
    <3> QED BY <3>1, <3>2, <3>3
  <2>5. PICK m \in DOMAIN PostPaths(from) : Describes(PostPaths(from)[m]) BY <2>4
  <2>6. \E k \in DOMAIN posts : posts[k] = PostPaths(from)[m]
    BY <2>1, <2>2, <2>3, PostsHold
  <2> QED BY <2>5, <2>6
<1> QED BY <1>1, <1>2, <1>3, PTL DEF Spec
=============================================================================

------------------------------ MODULE ToolRun -------------------------------
(***************************************************************************)
(* What a run of the tool has to leave behind: contracts that are true of  *)
(* the functions and outputs that have all of them.                        *)
(***************************************************************************)
EXTENDS Driver

CONSTANT Values  \* of i, k and the elements of p, and the offsets of p

-----------------------------------------------------------------------------
(* What the clauses of a contract mean in ACSL, and what the C function    *)
(* does when one of its paths is taken.  In requires, assumes and assigns  *)
(* every name is read where the function starts; in ensures a parameter    *)
(* still is, but an element of p is read where it returns.                 *)

(* An execution: i, p[0] at the start, behind the loop, and k.             *)
Run == [i : [{"Old", "After"} -> Values], element : [{"Old", "After"} -> [Values -> Values]],
        k : Values]

ValueIn(run, t) ==
  CASE t.is = "literal" -> t.n
    [] t.is = "i"       -> run.i[t.at]
    [] t.is = "element" -> run.element[t.at][t.n]
    [] t.is = "k"       -> run.k
    [] t.is = "all zero" -> IF \A n \in Values : run.element["Old"][n] = 0 THEN 1 ELSE 0

(* The cells that an address stands for.                                   *)
Cells(run, addr) ==
  LET off == ValueIn(run, addr.off)
  IN  {<<addr.base, n>> : n \in IF addr.len = None THEN {off} ELSE off .. off + ValueIn(run, addr.len) - 1}

OldValue(run, cell) == IF cell[1] = "p" /\ cell[2] \in Values THEN run.element["Old"][cell[2]] ELSE 0

(* The run takes the path, and the path is right about it: none of its     *)
(* entries is about a cell that another one is about.                      *)
Takes(run, path) ==
  /\ \A c \in path.conditions :
       c.term = Unknown \/ ((ValueIn(run, c.term) # 0) <=> c.holds)
  /\ \A d, e \in path.memory : d # e => Cells(run, d.addr) \cap Cells(run, e.addr) = {}

(* What the run leaves in the cells of an entry, all values if the path    *)
(* does not know.                                                          *)
NewValues(run, e, cell) ==
  CASE e.val = Unknown -> Values
    [] e.val = Itself  -> {OldValue(run, cell)}
    [] OTHER           -> {ValueIn(run, e.val)}

(* The cells of the caller that may change.                                *)
ChangedBy(run, path) ==
  {cell \in UNION {Cells(run, e.addr) : e \in {f \in path.memory : f.addr.base # "arr"}} :
     \E e \in path.memory : cell \in Cells(run, e.addr) /\ NewValues(run, e, cell) # {OldValue(run, cell)}}

ValuesAfter(run, path, cell) ==
  LET written == {e \in path.memory : cell \in Cells(run, e.addr)}
  IN  IF written = {} THEN {OldValue(run, cell)}
      ELSE UNION {NewValues(run, e, cell) : e \in written}

-----------------------------------------------------------------------------
(* Clauses.                                                                *)

ReadAtStart(t) == IF t.is \in {"i", "element"} THEN [t EXCEPT !.at = "Old"] ELSE t

Named(addr) == [addr EXCEPT !.off = ReadAtStart(addr.off)]

(* The cells that an assigns clause allows to change.                      *)
Allows(run, clause, cell) ==
  \/ clause.kind = "everything"
  \/ cell[1] = "new"
  \/ \E addr \in clause.locations :
       cell \in Cells(run, [Named(addr) EXCEPT !.len = ReadAtStart(addr.len)])

Satisfies(run, conditions) == \A c \in conditions : (ValueIn(run, ReadAtStart(c.term)) # 0) <=> c.holds

(* What the right side of an ensures clause is, once the path is through.  *)
RightValues(run, path, t) ==
  IF t.is = "element" THEN ValuesAfter(run, path, <<"p", t.n>>) ELSE {ValueIn(run, ReadAtStart(t))}

EnsuredBy(run, path, clause) ==
  CASE clause.left.base = "result" -> RightValues(run, path, clause.right) = {ValueIn(run, path.result)}
    [] clause.right.is = "itself"  -> TRUE
    [] OTHER ->
         \A cell \in Cells(run, [Named(clause.left) EXCEPT !.len = ReadAtStart(clause.left.len)]) :
           ValuesAfter(run, path, cell) = RightValues(run, path, clause.right)

-----------------------------------------------------------------------------
(* The paths of the function f(int *p, struct S *s, int i).                *)

Points == {"Old", "After"}

ScalarTerm ==
  [is : {"literal"}, at : {""}, n : Int] \cup [is : {"i"}, at : Points, n : {0}]
    \cup [is : {"element"}, at : Points, n : Values] \cup {Local, Unknown}

RangeAddress ==
  [base : {"p", "s", "new", "arr"}, off : ScalarTerm, len : ScalarTerm \cup {None}, field : {FALSE}]

(* p points to integers; behind the other pointers there is at most one    *)
(* structure, and that is at the offset 0.                                 *)
IsPath(path) ==
  /\ \A c \in path.conditions : c.term \in ScalarTerm \cup {AllZero}
  /\ path.result \in ScalarTerm \cup {None, NewPointer}
  /\ path.memory \in SUBSET [addr : RangeAddress, val : ScalarTerm \cup {Itself}, struct : BOOLEAN]
  /\ \A e \in path.memory : e.struct => e.addr \in {At(base, Literal(0)) : base \in {"s", "new", "arr"}}

ASSUME PathsAssumption ==
  \A p \in Projects : \A file \in ToSet(p.files) : \A d \in ToSet(file.decls) : \A path \in d.paths : IsPath(path)

-----------------------------------------------------------------------------
(* What the contract last written says.                                    *)

NewContract == edits # <<>> /\ status = "running" /\ Last(edits).kind = "contract"

Analysed == Definition(File, Last(edits).name).paths

Written == Last(edits).what.text

(* The text of term t names something else than t: a symbol of a later     *)
(* point, printed without it, or in ensures an element that has changed.   *)
LosesLabel(t) == t.at = "After" /\ ~MentionsLocal(t)

Misread(run, path, t) ==
  LosesLabel(t) \/ (t.is = "element" /\ <<"p", t.n>> \in ChangedBy(run, path))

TermsOf(path) ==
  {path.result} \cup UNION {{e.val, e.addr.off, e.addr.len} : e \in path.memory}

(* Each path that returns has its behavior: a run that takes the path      *)
(* satisfies what the behavior assumes and requires, and the run satisfies *)
(* its ensures clauses, except those whose text has lost a label (ensures  *)
(* p[0] == (p[0] + 1)).  joinConj, noStateLabelFunctionAt, seenBehaviors.  *)
BehaviorsDescribeReturns ==
  NewContract =>
    \A path \in {q \in Analysed : q.state = "Return"} :
      \E b \in {Behavior(path)} :
        /\ b \in Written.behaviors \/ SaysNothing(b)
        /\ \A run \in {r \in Run : Takes(r, path)} :
             /\ Satisfies(run, b.assumes \cup b.requires)
             /\ \A clause \in b.ensures :
                  \/ EnsuredBy(run, path, clause)
                  \/ \E t \in TermsOf(path) :
                       Misread(run, path, t) /\ Printed(t) \in {clause.right, clause.left.off, clause.left.len}

(* An address that has no place in an assigns clause.                      *)
HasNoPlace(addr, returned) ==
  AddressMentionsLocal(addr) \/ ~(HasName(addr) \/ HasResultName(addr, returned))

(* A changed cell that the path knows by an address in own is missing in a *)
(* clause about the addresses in all for one of two reasons: the address   *)
(* is left out while another one is kept, or its text has lost a label.    *)
Missing(run, own, all, returned, cell) ==
  \E a \in own :
    /\ cell \in Cells(run, a)
    /\ \/ LosesLabel(a.off) \/ LosesLabel(a.len)
       \/ HasNoPlace(a, returned) /\ \E b \in all : ~HasNoPlace(b, returned)

(* The cell is a field of a structure, of which the path keeps one entry   *)
(* for the whole: fields are in no assigns clause.                         *)
IsField(run, path, cell) == \E e \in path.memory : e.struct /\ cell \in Cells(run, e.addr)

(* Every cell that is not the function's own and that a run changes is     *)
(* allowed to change by the assigns clause of the contract and by the one  *)
(* of its behavior, unless it is missing for those reasons or is a field:  *)
(* a cell behind p or s whatever the offset, and what was allocated.       *)
AssignsAllowChanges ==
  NewContract =>
    \E all \in {{e.addr : e \in UNION {q.memory : q \in Analysed}}} :
    \A path \in Analysed :
      \E own \in {{e.addr : e \in path.memory}} :
      \A run \in {r \in Run : Takes(r, path)} :
        \A cell \in {c \in ChangedBy(run, path) : ~IsField(run, path, c)} :
          /\ Allows(run, Written.assigns, cell) \/ Missing(run, own, all, FALSE, cell)
          /\ path.state = "Return" =>
               \/ Allows(run, Behavior(path).assigns, cell)
               \/ Missing(run, own, own, ReturnsNew(path), cell)

-----------------------------------------------------------------------------
(* What is written.                                                        *)

ContractsOf(output, name) ==
  {i \in DOMAIN output.edits : output.edits[i].kind = "contract" /\ output.edits[i].name = name}

Annotated(output, name) ==
  {output.edits[i].what : i \in {j \in DOMAIN output.edits :
                                   output.edits[j].kind = "loop" /\ output.edits[j].name = name}}

(* The loops of a function that are annotated in the buffer of a file.     *)
LoopsIn(file, name) ==
  1 .. IF Definition(file, name).inMainFile THEN Definition(file, name).loops ELSE 0

(* The functions of a file that get a contract. *)
Requested(file, name, targets) ==
  name # "main" /\ DefinitionIn(file, name) # {} /\ (targets = {} \/ name \in targets)

(* The edits of an output of a file that speak of the functions of a name: *)
(* one contract for each declaration, if it is defined and requested, an   *)
(* annotation and a label for each of its loops.                           *)
HoldsContracts(output, file, name, targets) ==
  \E decls \in {{i \in DOMAIN file.decls : file.decls[i].name = name /\ file.decls[i].inMainFile}} :
    /\ {output.edits[i].what.at : i \in ContractsOf(output, name)}
          = IF Requested(file, name, targets) THEN decls ELSE {}
    /\ \A i, j \in ContractsOf(output, name) :
         output.edits[i].what.at = output.edits[j].what.at => i = j
    /\ Requested(file, name, targets) /\ decls # {} =>
         /\ Annotated(output, name) = LoopsIn(file, name)
         /\ \A l \in Annotated(output, name) : <<output.of, name, l>> \in output.labels

(* An output belongs to the last file with that path.  It has one contract *)
(* per declaration of every requested function that the file defines, and  *)
(* none else; every loop of such a function is annotated and labelled,     *)
(* whatever the files before it were, unless the definition is in a header.  main   *)
(* has no contract; its loops are annotated only if it is the first function of all. *)
OutputsHoldTheContracts ==
  \A path \in DOMAIN outputs :
    \E file \in {project.files[outputs[path].of]} :
      /\ OutputPath(file) = path
      /\ \A n \in outputs[path].of + 1 .. current - 1 : OutputPath(project.files[n]) # path
      /\ \A name \in {d.name : d \in UNION {ToSet(f.decls) : f \in ToSet(project.files)}} :
           HoldsContracts(outputs[path], file, name, project.targets)

(* Nothing stands in the way of a project: every file has every requested  *)
(* function, prototypes name their parameters like the definitions and the *)
(* definitions only read them, every called function is defined somewhere, *)
(* and no function is imported into two files.                             *)
Outside(file) == {c \in UNION {ToSet(d.calls) : d \in ToSet(file.decls)} : ~hasBody(file, c)}

IsSound(p) ==
  /\ \A file \in {p.files[n] : n \in 1 .. p.given} :
       /\ \A name \in p.targets : \E d \in ToSet(file.decls) : d.name = name /\ d.inMainFile /\ hasBody(file, name)
       /\ \A d \in ToSet(file.decls) :
            ~d.isDefinition /\ hasBody(file, d.name) => d.sameParams /\ ~Definition(file, d.name).setsParams
       /\ \A c \in Outside(file) : \E other \in ToSet(p.files) : hasBody(other, c)
  /\ \A m, n \in 1 .. p.given : m # n => Outside(p.files[m]) \cap Outside(p.files[n]) = {}

(* The tool comes to the end of a sound project and has written all its    *)
(* outputs.                                                                *)
SoundProjectsAreFinished ==
  IsSound(project) ~> (status = "done" /\ (project.noOutput \/ DOMAIN outputs = {OutputPath(project.files[n]) : n \in 1 .. project.given}))
=============================================================================

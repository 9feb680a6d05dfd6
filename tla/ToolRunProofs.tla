--------------------------- MODULE ToolRunProofs ---------------------------
(***************************************************************************)
(* What a run of the tool leaves behind, for every project and all values. *)
(***************************************************************************)
EXTENDS ToolRun, SequenceLemmas

-----------------------------------------------------------------------------
(* Terms and addresses.                                                    *)

LEMMA TermKinds ==
  /\ \A n : Literal(n).is = "literal"
  /\ \A at : ParamAt(at).is = "i"
  /\ \A at, n : ElementAt(at, n).is = "element"
  /\ Local.is = "k" /\ NewPointer.is = "new" /\ AllZero.is = "all zero" /\ Itself.is = "itself"
  /\ Unknown.is = "unknown" /\ None.is = "none"
BY DEF Literal, ParamAt, ElementAt, Local, NewPointer, AllZero, Itself, Unknown, None, Term

(* A text that has lost no label is read as the term it was printed from.  *)
LEMMA TermIsRead ==
  ASSUME NEW t \in ScalarTerm \cup {None}, ~LosesLabel(t), ~MentionsLocal(t)
  PROVE  ReadAtStart(Printed(t)) = t /\ ReadAtStart(t) = t
<1>1. CASE t \in [is : {"literal"}, at : {""}, n : Int]
  BY <1>1 DEF ReadAtStart, Printed
<1>2. CASE t \in [is : {"i"}, at : Points, n : {0}]
  <2>1. t.at = "Old" BY <1>2 DEF LosesLabel, Points
  <2>2. t.is = "i" BY <1>2
  <2>3. Printed(t).is = "i" /\ [Printed(t) EXCEPT !.at = "Old"] = t BY <1>2, <2>1 DEF Printed
  <2>4. [t EXCEPT !.at = "Old"] = t BY <1>2, <2>1
  <2> QED BY <2>2, <2>3, <2>4 DEF ReadAtStart
<1>3. CASE t \in [is : {"element"}, at : Points, n : Values]
  <2>1. t.at = "Old" BY <1>3 DEF LosesLabel, Points
  <2>2. t.is = "element" BY <1>3
  <2>3. Printed(t).is = "element" /\ [Printed(t) EXCEPT !.at = "Old"] = t BY <1>3, <2>1 DEF Printed
  <2>4. [t EXCEPT !.at = "Old"] = t BY <1>3, <2>1
  <2> QED BY <2>2, <2>3, <2>4 DEF ReadAtStart
<1>4. CASE t \in {Unknown, None}
  <2>1. t \in [is : {"unknown", "none"}, at : {""}, n : {0}]
    <3>1. CASE t = Unknown BY <3>1 DEF Unknown, Term
    <3>2. CASE t = None BY <3>2 DEF None, Term
    <3> QED BY <1>4, <3>1, <3>2
  <2>2. Printed(t) = t BY <2>1 DEF Printed
  <2>3. ReadAtStart(t) = t BY <2>1 DEF ReadAtStart
  <2> QED BY <2>2, <2>3
<1> QED BY <1>1, <1>2, <1>3, <1>4 DEF ScalarTerm, MentionsLocal

(* An address that has lost no label names the cells it was printed for.   *)
LEMMA AddressIsRead ==
  ASSUME NEW a \in RangeAddress, ~LosesLabel(a.off), ~LosesLabel(a.len), ~AddressMentionsLocal(a)
  PROVE  [Named(TextOf(a)) EXCEPT !.len = ReadAtStart(TextOf(a).len)] = a
<1>1. a.off \in ScalarTerm /\ a.len \in ScalarTerm \cup {None} BY DEF RangeAddress
<1>2. ReadAtStart(Printed(a.off)) = a.off /\ ReadAtStart(Printed(a.len)) = a.len
  BY <1>1, TermIsRead DEF AddressMentionsLocal
<1> DEFINE off == Printed(a.off)
           len == Printed(a.len)
<1>3. TextOf(a) = [a EXCEPT !.off = off, !.len = len] BY DEF TextOf
<1>4. ReadAtStart(off) = a.off /\ ReadAtStart(len) = a.len BY <1>2
<1> HIDE DEF off, len
<1>5. a = [base |-> a.base, off |-> a.off, len |-> a.len, field |-> a.field] BY DEF RangeAddress
<1>6. TextOf(a) = [base |-> a.base, off |-> off, len |-> len, field |-> a.field]
  BY <1>3, <1>5
<1>7. Named(TextOf(a)) = [base |-> a.base, off |-> a.off, len |-> len, field |-> a.field]
  BY <1>4, <1>6 DEF Named
<1> QED BY <1>4, <1>5, <1>6, <1>7

(* The cells of an address are cells of its base. *)
LEMMA CellsOfBase ==
  ASSUME NEW run, NEW a, NEW cell \in Cells(run, a)
  PROVE  cell[1] = a.base
BY DEF Cells

-----------------------------------------------------------------------------
(* Assigns clauses.                                                        *)

(* A location whose cell changes is allowed to change, unless it has no    *)
(* place where another one has, or has lost a label.                       *)
LEMMA AssignsOfAllows ==
  ASSUME NEW run, NEW changed \in SUBSET RangeAddress, NEW returned,
         NEW a \in changed, NEW cell \in Cells(run, a)
  PROVE  \/ Allows(run, AssignsOf(changed, returned), cell)
         \/ LosesLabel(a.off) \/ LosesLabel(a.len)
         \/ HasNoPlace(a, returned) /\ \E b \in changed : ~HasNoPlace(b, returned)
<1> DEFINE kept == {addr \in changed : /\ ~AddressMentionsLocal(addr)
                                       /\ HasName(addr) \/ HasResultName(addr, returned)
                                       /\ ~hasDisallowedFunctionContractLabel(TextOf(addr))}
<1>1. \A b \in changed : ~hasDisallowedFunctionContractLabel(TextOf(b))
  <2> SUFFICES ASSUME NEW b \in changed PROVE ~hasDisallowedFunctionContractLabel(TextOf(b)) OBVIOUS
  <2>1. b \in RangeAddress OBVIOUS
  <2>2. b.off \in ScalarTerm /\ b.len \in ScalarTerm \cup {None} BY <2>1 DEF RangeAddress
  <2>3. \A t \in ScalarTerm \cup {None} : Printed(t).at = ""
    BY DEF ScalarTerm, None, Local, Unknown, Term, Printed
  <2>4. TextOf(b).off = Printed(b.off) /\ TextOf(b).len = Printed(b.len)
    BY <2>1 DEF TextOf, RangeAddress
  <2> QED BY <2>2, <2>3, <2>4 DEF hasDisallowedFunctionContractLabel
<1>2. \A b \in changed : b \in kept <=> ~HasNoPlace(b, returned)
  BY <1>1 DEF HasNoPlace
<1>3. AssignsOf(changed, returned) =
        IF kept # {} THEN Clause("some", {TextOf(addr) : addr \in kept})
        ELSE Clause(IF changed = {} THEN "nothing" ELSE "everything", {})
  BY DEF AssignsOf
<1> HIDE DEF kept
<1>4. CASE kept = {}
  <2>1. AssignsOf(changed, returned).kind = "everything" BY <1>3, <1>4 DEF Clause
  <2> QED BY <2>1 DEF Allows
<1>5. CASE kept # {} /\ a \notin kept
  BY <1>2, <1>5, kept \subseteq changed DEF kept
<1>6. CASE a \in kept
  <2> SUFFICES ASSUME ~LosesLabel(a.off), ~LosesLabel(a.len)
               PROVE  Allows(run, AssignsOf(changed, returned), cell)
    OBVIOUS
  <2>1. AssignsOf(changed, returned).locations = {TextOf(addr) : addr \in kept}
    BY <1>3, <1>6 DEF Clause
  <2>2. ~AddressMentionsLocal(a) BY <1>6 DEF kept
  <2>3. [Named(TextOf(a)) EXCEPT !.len = ReadAtStart(TextOf(a).len)] = a
    BY <2>2, AddressIsRead
  <2>4. TextOf(a) \in AssignsOf(changed, returned).locations BY <1>6, <2>1
  <2> QED BY <2>3, <2>4 DEF Allows
<1> QED BY <1>4, <1>5, <1>6

(* Every changed cell of a parameter that is no field is that of a         *)
(* location which is not left out as unchanged.                            *)
LEMMA ChangedIsDescribed ==
  ASSUME NEW run \in Run, NEW path, IsPath(path),
         NEW cell \in ChangedBy(run, path), ~IsField(run, path, cell), cell[1] # "new"
  PROVE  \E e \in path.memory : /\ cell \in Cells(run, e.addr)
                                /\ e.addr \in RangeAddress /\ e.addr.base \in {"p", "s"}
                                /\ ~e.struct /\ ~isUnchanged(e)
<1>1. PICK e \in path.memory : cell \in Cells(run, e.addr) /\ NewValues(run, e, cell) # {OldValue(run, cell)}
  BY DEF ChangedBy
<1>2. e.addr \in RangeAddress /\ e.val \in ScalarTerm \cup {Itself} /\ e.struct \in BOOLEAN
  BY DEF IsPath
<1>3. e.addr.base \in {"p", "s"}
  <2>1. PICK f \in path.memory : f.addr.base # "arr" /\ cell \in Cells(run, f.addr) BY DEF ChangedBy
  <2>2. cell[1] = e.addr.base /\ cell[1] = f.addr.base BY <1>1, <2>1, CellsOfBase
  <2> QED BY <1>2, <2>1, <2>2 DEF RangeAddress
<1>4. ~e.struct BY <1>1, <1>2 DEF IsField
<1>5. ASSUME e.val = Itself PROVE FALSE
  <2>1. e.val # Unknown BY <1>5, TermKinds
  <2>2. NewValues(run, e, cell) = {OldValue(run, cell)} BY <1>5, <2>1 DEF NewValues
  <2> QED BY <1>1, <2>2
<1>6. ASSUME e.addr = At("p", Literal(e.val.n)), e.val = ElementAt("Old", e.val.n) PROVE FALSE
  <2> DEFINE n == e.val.n
  <2>1. e.val = [is |-> "element", at |-> "Old", n |-> n] BY <1>6 DEF ElementAt, Term
  <2> HIDE DEF n
  <2>11. e.val.is = "element" BY <2>1
  <2>2. e.val # Unknown /\ e.val # Itself /\ e.val # Local BY <2>11, TermKinds
  <2>3. n \in Values
    BY <1>2, <2>1, <2>2 DEF ScalarTerm
  <2>4. e.addr = [base |-> "p", off |-> Literal(n), len |-> None, field |-> FALSE]
    BY <1>6 DEF At, Address, n
  <2>5. ValueIn(run, Literal(n)) = n BY DEF ValueIn, Literal, Term
  <2>6. Cells(run, e.addr) = {<<"p", n>>} BY <2>4, <2>5 DEF Cells
  <2>7. cell[1] = "p" /\ cell[2] = n BY <1>1, <2>6
  <2>8. OldValue(run, cell) = run.element["Old"][n] BY <2>3, <2>7 DEF OldValue
  <2>9. ValueIn(run, e.val) = run.element["Old"][n] BY <2>1 DEF ValueIn
  <2>10. NewValues(run, e, cell) = {ValueIn(run, e.val)} BY <2>2 DEF NewValues
  <2> QED BY <1>1, <2>8, <2>9, <2>10
<1>7. ~isUnchanged(e) BY <1>5, <1>6 DEF isUnchanged
<1> QED BY <1>1, <1>2, <1>3, <1>4, <1>7

(* The entries a path has with the fields of its structures. *)
LEMMA FlatLocations ==
  ASSUME NEW path, IsPath(path), NEW e \in Flat(path), ~e.addr.field
  PROVE  e \in path.memory
<1>1. ASSUME NEW f \in path.memory, e = Entry([f.addr EXCEPT !.field = TRUE], f.val, FALSE) PROVE FALSE
  <2>1. f.addr \in RangeAddress BY DEF IsPath
  <2>2. e.addr = [f.addr EXCEPT !.field = TRUE] BY <1>1 DEF Entry
  <2>3. e.addr.field = TRUE BY <2>1, <2>2 DEF RangeAddress
  <2> QED BY <2>3
<1> QED BY <1>1 DEF Flat

(* The assigns clauses of a function and of its behaviors.                 *)
LEMMA AssignsAllow ==
  ASSUME NEW paths, \A q \in paths : IsPath(q), NEW path \in paths, NEW run \in Run,
         NEW cell \in ChangedBy(run, path), ~IsField(run, path, cell)
  PROVE  /\ \/ Allows(run, TopAssigns(paths), cell)
            \/ Missing(run, {e.addr : e \in path.memory}, {e.addr : e \in UNION {q.memory : q \in paths}}, FALSE, cell)
         /\ \/ Allows(run, Behavior(path).assigns, cell)
            \/ Missing(run, {e.addr : e \in path.memory}, {e.addr : e \in path.memory}, ReturnsNew(path), cell)
<1> DEFINE own == {e.addr : e \in path.memory}
           all == {e.addr : e \in UNION {q.memory : q \in paths}}
<1> SUFFICES ASSUME cell[1] # "new"
             PROVE  /\ \/ Allows(run, TopAssigns(paths), cell)
                       \/ Missing(run, own, all, FALSE, cell)
                    /\ \/ Allows(run, Behavior(path).assigns, cell)
                       \/ Missing(run, own, own, ReturnsNew(path), cell)
  BY DEF Allows
<1>1. PICK e \in path.memory : /\ cell \in Cells(run, e.addr)
                               /\ e.addr \in RangeAddress /\ e.addr.base \in {"p", "s"}
                               /\ ~e.struct /\ ~isUnchanged(e)
  BY ChangedIsDescribed
<1>2. e.addr \in own /\ e.addr \in all OBVIOUS
<1>3. isSymbolAddress(e.addr) /\ HasParamRoot(e.addr)
  BY <1>1 DEF isSymbolAddress, HasParamRoot, RangeAddress
<1>4. e \in Flat(path) BY DEF Flat
<1>5. \/ Allows(run, TopAssigns(paths), cell)
      \/ Missing(run, own, all, FALSE, cell)
  <2> DEFINE changed == {f.addr : f \in {g \in UNION {Flat(q) : q \in paths} :
                                           /\ HasParamRoot(g.addr)
                                           /\ isSymbolAddress(g.addr)
                                           /\ ~g.struct
                                           /\ ~isUnchanged(g)}}
  <2>1. TopAssigns(paths) = AssignsOf(changed, FALSE) BY DEF TopAssigns
  <2>2. e.addr \in changed BY <1>1, <1>3, <1>4
  <2>3. changed \subseteq all /\ changed \subseteq RangeAddress
    <3> SUFFICES ASSUME NEW q \in paths, NEW g \in Flat(q), isSymbolAddress(g.addr)
                 PROVE  g.addr \in all /\ g.addr \in RangeAddress
      OBVIOUS
    <3>1. g \in q.memory BY FlatLocations DEF isSymbolAddress
    <3> QED BY <3>1 DEF IsPath
  <2> HIDE DEF changed, own, all
  <2>4. \/ Allows(run, AssignsOf(changed, FALSE), cell)
        \/ LosesLabel(e.addr.off) \/ LosesLabel(e.addr.len)
        \/ HasNoPlace(e.addr, FALSE) /\ \E b \in changed : ~HasNoPlace(b, FALSE)
    BY <1>1, <2>2, <2>3, AssignsOfAllows
  <2> QED BY <1>1, <1>2, <2>1, <2>3, <2>4 DEF Missing
<1>6. \/ Allows(run, Behavior(path).assigns, cell)
      \/ Missing(run, own, own, ReturnsNew(path), cell)
  <2> DEFINE changed == {f.addr : f \in {g \in Described(path) : ~g.struct /\ ~isUnchanged(g)}}
  <2>1. Behavior(path).assigns = AssignsOf(changed, ReturnsNew(path)) BY DEF Behavior, BehaviorAssigns
  <2>2. e \in Described(path) BY <1>3, <1>4 DEF Described
  <2>3. e.addr \in changed BY <1>1, <2>2
  <2>4. changed \subseteq own /\ changed \subseteq RangeAddress
    <3> SUFFICES ASSUME NEW g \in Described(path) PROVE g.addr \in own /\ g.addr \in RangeAddress
      OBVIOUS
    <3>1. g \in Flat(path) /\ isSymbolAddress(g.addr) BY DEF Described
    <3>2. g \in path.memory BY <3>1, FlatLocations DEF isSymbolAddress
    <3> QED BY <3>2 DEF IsPath
  <2> HIDE DEF changed, own, all
  <2>5. \/ Allows(run, AssignsOf(changed, ReturnsNew(path)), cell)
        \/ LosesLabel(e.addr.off) \/ LosesLabel(e.addr.len)
        \/ HasNoPlace(e.addr, ReturnsNew(path)) /\ \E b \in changed : ~HasNoPlace(b, ReturnsNew(path))
    BY <1>1, <2>3, <2>4, AssignsOfAllows
  <2> QED BY <1>1, <1>2, <2>1, <2>4, <2>5 DEF Missing
<1> QED BY <1>5, <1>6

-----------------------------------------------------------------------------
(* Behaviors.                                                              *)

(* What a behavior assumes and requires is a condition of its path.        *)
LEMMA ConditionsHold ==
  ASSUME NEW run \in Run, NEW path, IsPath(path), Takes(run, path)
  PROVE  Satisfies(run, Behavior(path).assumes \cup Behavior(path).requires)
<1> SUFFICES ASSUME NEW c \in Expressible(path.conditions)
             PROVE  (ValueIn(run, ReadAtStart(c.term)) # 0) <=> c.holds
  BY DEF Satisfies, Behavior, Assumes, Requires
<1>1. c \in path.conditions /\ c.term # Unknown /\ ~MentionsLocal(c.term) /\ c.term.at # "After"
  BY DEF Expressible
<1>2. (ValueIn(run, c.term) # 0) <=> c.holds BY <1>1 DEF Takes
<1>3. ReadAtStart(c.term) = c.term
  <2>1. CASE c.term = AllZero BY <2>1, TermKinds DEF ReadAtStart
  <2>2. CASE c.term \in ScalarTerm BY <1>1, <2>2, TermIsRead DEF LosesLabel
  <2> QED BY <1>1, <2>1, <2>2 DEF IsPath
<1> QED BY <1>2, <1>3

(* An element that is not changed has its old value when the path is through. *)
LEMMA UnchangedValue ==
  ASSUME NEW run \in Run, NEW path, IsPath(path), NEW cell, cell[1] = "p", cell \notin ChangedBy(run, path)
  PROVE  ValuesAfter(run, path, cell) = {OldValue(run, cell)}
<1> DEFINE written == {e \in path.memory : cell \in Cells(run, e.addr)}
<1>1. ASSUME NEW e \in written PROVE NewValues(run, e, cell) = {OldValue(run, cell)}
  <2>1. e.addr.base = "p" BY CellsOfBase
  <2> QED BY <2>1 DEF ChangedBy
<1>2. ValuesAfter(run, path, cell) = IF written = {} THEN {OldValue(run, cell)}
                                     ELSE UNION {NewValues(run, e, cell) : e \in written}
  BY DEF ValuesAfter
<1> QED BY <1>1, <1>2

(* The right side of an ensures clause is the value it was printed for.    *)
LEMMA RightIsValue ==
  ASSUME NEW run \in Run, NEW path, IsPath(path), NEW t \in ScalarTerm, ~MentionsLocal(t), ~Misread(run, path, t)
  PROVE  RightValues(run, path, Printed(t)) = {ValueIn(run, t)}
<1>1. ~LosesLabel(t) BY DEF Misread
<1>2. Printed(t).is = t.is /\ Printed(t).n = t.n
  BY DEF Printed, ScalarTerm, Local, Unknown, Term
<1>3. CASE t.is = "element"
  <2>1. t \in [is : {"element"}, at : Points, n : Values]
    BY <1>3, TermKinds DEF ScalarTerm
  <2>2. t.at = "Old" /\ t.n \in Values
    <3>1. MentionsLocal(t) <=> t = Local BY DEF MentionsLocal
    <3> QED BY <1>1, <2>1 DEF LosesLabel, Points
  <2> DEFINE cell == <<"p", t.n>>
  <2>3. cell \notin ChangedBy(run, path) /\ cell[1] = "p" BY <1>3 DEF Misread
  <2>4. ValuesAfter(run, path, cell) = {OldValue(run, cell)} BY <2>3, UnchangedValue
  <2>5. OldValue(run, cell) = run.element["Old"][t.n] BY <2>2 DEF OldValue
  <2>6. ValueIn(run, t) = run.element["Old"][t.n] BY <1>3, <2>2 DEF ValueIn
  <2>7. RightValues(run, path, Printed(t)) = ValuesAfter(run, path, cell)
    BY <1>2, <1>3 DEF RightValues
  <2> QED BY <2>4, <2>5, <2>6, <2>7
<1>4. CASE t.is # "element"
  <2>1. ReadAtStart(Printed(t)) = t BY <1>1, TermIsRead
  <2>2. RightValues(run, path, Printed(t)) = {ValueIn(run, ReadAtStart(Printed(t)))}
    BY <1>2, <1>4 DEF RightValues
  <2> QED BY <2>1, <2>2
<1> QED BY <1>3, <1>4

(* A run that takes a path leaves in the cells of an entry what the entry  *)
(* says.                                                                   *)
LEMMA EntryIsWritten ==
  ASSUME NEW run \in Run, NEW path, Takes(run, path), NEW e \in path.memory, NEW cell \in Cells(run, e.addr)
  PROVE  ValuesAfter(run, path, cell) = NewValues(run, e, cell)
<1> DEFINE written == {d \in path.memory : cell \in Cells(run, d.addr)}
<1>1. written = {e}
  <2>1. \A d \in path.memory : d # e => Cells(run, d.addr) \cap Cells(run, e.addr) = {}
    BY DEF Takes
  <2> QED BY <2>1
<1>2. ValuesAfter(run, path, cell) = UNION {NewValues(run, d, cell) : d \in written}
  BY <1>1 DEF ValuesAfter
<1> QED BY <1>1, <1>2

(* The left side of a clause about an entry names the cells of the entry.  *)
LEMMA LeftIsRead ==
  ASSUME NEW run, NEW path, IsPath(path), NEW e \in path.memory, ~AddressMentionsLocal(e.addr),
         ~LosesLabel(e.addr.off), ~LosesLabel(e.addr.len),
         NEW left, left = IF e.struct THEN [e.addr EXCEPT !.field = TRUE] ELSE TextOf(e.addr)
  PROVE  Cells(run, [Named(left) EXCEPT !.len = ReadAtStart(left.len)]) = Cells(run, e.addr)
<1>1. e.addr \in RangeAddress /\ e.struct \in BOOLEAN BY DEF IsPath
<1>2. CASE ~e.struct
  <2>1. left = TextOf(e.addr) BY <1>2
  <2> QED BY <1>1, <2>1, AddressIsRead
<1>3. CASE e.struct
  <2>1. left = [e.addr EXCEPT !.field = TRUE] BY <1>3
  <2> DEFINE WideAddress == [base : {"p", "s", "new", "arr"}, off : ScalarTerm, len : ScalarTerm \cup {None}, field : BOOLEAN]
  <2>2. /\ left \in WideAddress /\ left.base = e.addr.base
        /\ left.off = e.addr.off /\ left.len = e.addr.len
    BY <1>1, <2>1 DEF RangeAddress
  <2>3. ReadAtStart(left.off) = left.off /\ ReadAtStart(left.len) = left.len
    BY <2>2, TermIsRead DEF AddressMentionsLocal
  <2>4. Named(left) = left BY <2>2, <2>3 DEF Named
  <2>5. [left EXCEPT !.len = left.len] = left BY <2>2
  <2> QED BY <2>2, <2>3, <2>4, <2>5 DEF Cells
<1> QED BY <1>1, <1>2, <1>3

(* The ensures clauses of a behavior. *)
LEMMA EnsuresHold ==
  ASSUME NEW run \in Run, NEW path, IsPath(path), Takes(run, path), NEW clause \in Behavior(path).ensures
  PROVE  \/ EnsuredBy(run, path, clause)
         \/ \E t \in TermsOf(path) :
              Misread(run, path, t) /\ Printed(t) \in {clause.right, clause.left.off, clause.left.len}
<1>1. CASE clause \in EnsuresResult(path) \cup EnsuresResultField(path)
  <2>1. HasResultText(path) /\ clause.right = Printed(path.result) /\ clause.left.base = "result"
    BY <1>1 DEF EnsuresResult, EnsuresResultField, Ensures, Result, ResultField, Address
  <2>2. path.result \in ScalarTerm /\ ~MentionsLocal(path.result) /\ path.result \in TermsOf(path)
    BY <2>1 DEF HasResultText, HasText, IsPath, TermsOf
  <2>3. CASE Misread(run, path, path.result) BY <2>1, <2>2, <2>3
  <2>4. CASE ~Misread(run, path, path.result)
    <3>1. RightValues(run, path, clause.right) = {ValueIn(run, path.result)}
      BY <2>1, <2>2, <2>4, RightIsValue
    <3> QED BY <2>1, <3>1 DEF EnsuredBy
  <2> QED BY <2>3, <2>4
<1>2. CASE clause \in EnsuresMemory(path)
  <2>1. PICK e \in Described(path) :
          /\ clause = Ensures(IF e.struct THEN [e.addr EXCEPT !.field = TRUE] ELSE TextOf(e.addr), e.val)
          /\ ~AddressMentionsLocal(e.addr) /\ ~MentionsLocal(e.val)
          /\ HasOffsetText(e.addr) /\ HasText(e.val)
    BY <1>2 DEF EnsuresMemory
  <2> DEFINE left == IF e.struct THEN [e.addr EXCEPT !.field = TRUE] ELSE TextOf(e.addr)
  <2>2. e \in path.memory
    <3>1. e \in Flat(path) /\ isSymbolAddress(e.addr) BY DEF Described
    <3> QED BY <3>1, FlatLocations DEF isSymbolAddress
  <2>3. /\ e.addr \in RangeAddress /\ e.val \in ScalarTerm \cup {Itself} /\ e.struct \in BOOLEAN
        /\ e.struct => e.addr \in {At(base, Literal(0)) : base \in {"s", "new", "arr"}}
    BY <2>2 DEF IsPath
  <2>4. clause.left = left /\ clause.right = Printed(e.val) BY <2>1 DEF Ensures
  <2>5. left.base = e.addr.base BY <2>3 DEF TextOf, RangeAddress
  <2>6. left.base # "result" BY <2>3, <2>5 DEF RangeAddress
  <2>7. CASE e.val = Itself
    <3>1. clause.right.is = "itself"
      <4>1. Itself \in [is : {"itself"}, at : {"Old"}, n : {0}] BY DEF Itself, Term
      <4>2. Printed(Itself).is = "itself" BY <4>1 DEF Printed
      <4> QED BY <2>4, <2>7, <4>2
    <3> QED BY <2>4, <2>6, <3>1 DEF EnsuredBy
  <2>8. CASE LosesLabel(e.addr.off) \/ LosesLabel(e.addr.len)
    <3>1. ~e.struct
      <4>1. ASSUME NEW base PROVE ~LosesLabel(At(base, Literal(0)).off) /\ ~LosesLabel(At(base, Literal(0)).len)
        BY DEF LosesLabel, At, Address, Literal, None, Term
      <4> QED BY <2>3, <2>8, <4>1
    <3>2. left.off = Printed(e.addr.off) /\ left.len = Printed(e.addr.len)
      BY <2>3, <3>1 DEF TextOf, RangeAddress
    <3>3. e.addr.off \in TermsOf(path) /\ e.addr.len \in TermsOf(path) BY <2>2 DEF TermsOf
    <3> QED BY <2>4, <2>8, <3>2, <3>3 DEF Misread
  <2>9. CASE /\ e.val # Itself
             /\ ~LosesLabel(e.addr.off) /\ ~LosesLabel(e.addr.len)
    <3>1. e.val \in ScalarTerm /\ e.val \in TermsOf(path) BY <2>2, <2>3, <2>9 DEF TermsOf
    <3>2. CASE Misread(run, path, e.val) BY <2>4, <3>1, <3>2
    <3>3. CASE ~Misread(run, path, e.val)
      <4>1. RightValues(run, path, clause.right) = {ValueIn(run, e.val)}
        BY <2>1, <2>4, <3>1, <3>3, RightIsValue
      <4>2. Cells(run, [Named(left) EXCEPT !.len = ReadAtStart(left.len)]) = Cells(run, e.addr)
        BY <2>1, <2>2, <2>9, LeftIsRead
      <4>3. e.val # Unknown BY <2>1 DEF HasText
      <4>4. ASSUME NEW cell \in Cells(run, e.addr)
            PROVE  ValuesAfter(run, path, cell) = {ValueIn(run, e.val)}
        <5>1. ValuesAfter(run, path, cell) = NewValues(run, e, cell) BY <2>2, EntryIsWritten
        <5>2. NewValues(run, e, cell) = {ValueIn(run, e.val)} BY <2>9, <4>3 DEF NewValues
        <5> QED BY <5>1, <5>2
      <4>5. clause.right.is # "itself"
        <5>1. Printed(e.val).is = e.val.is
          BY <3>1 DEF Printed, ScalarTerm, Local, Unknown, Term
        <5>2. e.val.is # "itself"
          BY <3>1, TermKinds DEF ScalarTerm
        <5> QED BY <2>4, <5>1, <5>2
      <4> HIDE DEF left
      <4> QED BY <2>4, <2>6, <4>1, <4>2, <4>4, <4>5 DEF EnsuredBy
    <3> QED BY <3>2, <3>3
  <2> QED BY <2>7, <2>8, <2>9
<1> QED BY <1>1, <1>2 DEF Behavior

-----------------------------------------------------------------------------
(* The invariant: what has been inserted so far.                           *)

(* Declaration at of the file gets a contract. *)
Wanted(at) == File.decls[at].inMainFile /\ Requested(File, File.decls[at].name, project.targets)

IsContract(e, n) ==
  /\ e.kind = "contract" /\ e.file = current
  /\ e.what.at \in 1 .. n - 1 /\ Wanted(e.what.at)
  /\ e.name = File.decls[e.what.at].name
  /\ e.what.text = emitFunctionContract(Definition(File, e.name).paths)

IsAnnotation(e, labels) ==
  /\ e.kind = "loop"
  /\ <<e.file, e.name, e.what>> \in labels
  /\ e.file = current => DefinitionIn(File, e.name) # {} /\ e.what \in LoopsIn(File, e.name)

HasContract(es, at) == \E i \in DOMAIN es : es[i].kind = "contract" /\ es[i].what.at = at

HasLoops(es, name) ==
  \A l \in LoopsIn(File, name) : \E i \in DOMAIN es : es[i] = Edit("loop", current, name, l)

(* The edits made for the declarations before number n. *)
EditsAre(es, labels, n) ==
  /\ IsSeq(es)
  /\ \A i \in DOMAIN es : IsContract(es[i], n) \/ IsAnnotation(es[i], labels)
  /\ \A i, j \in DOMAIN es :
       es[i].kind = "contract" /\ es[j].kind = "contract" /\ es[i].what.at = es[j].what.at => i = j
  /\ \A at \in 1 .. n - 1 : Wanted(at) => HasContract(es, at) /\ HasLoops(es, File.decls[at].name)

EditsInv == EditsAre(edits, points, next)

(* The cache has definitions. *)
CacheInv ==
  \A name \in DOMAIN imported :
    imported[name].from \in DOMAIN project.files /\ hasBody(project.files[imported[name].from], name)

TypeInv ==
  /\ project \in Projects
  /\ current \in 0 .. project.given
  /\ next \in Nat \ {0}
  /\ current = 0 => next = 1 /\ edits = <<>> /\ DOMAIN outputs = {}
  /\ current # 0 => next <= Len(File.decls) + 1

OutputsInv ==
  /\ project.noOutput => DOMAIN outputs = {}
  /\ \A path \in DOMAIN outputs :
       /\ outputs[path].of \in 1 .. current
       /\ OutputPath(project.files[outputs[path].of]) = path
       /\ \A n \in outputs[path].of + 1 .. current - 1 : OutputPath(project.files[n]) # path
       /\ \A name : HoldsContracts(outputs[path], project.files[outputs[path].of], name, project.targets)

IInv == TypeInv /\ CacheInv /\ EditsInv /\ OutputsInv

-----------------------------------------------------------------------------
(* Projects.                                                               *)

(* The file that is analysed and the declarations and definitions in it.   *)
LEMMA FilesAre ==
  ASSUME TypeInv
  PROVE  /\ DOMAIN project.files = 1 .. Len(project.files) /\ Len(project.files) \in Nat
         /\ project.given \in 1 .. Len(project.files)
         /\ current # 0 => current \in DOMAIN project.files
         /\ \A n \in DOMAIN project.files :
              /\ DOMAIN project.files[n].decls = 1 .. Len(project.files[n].decls)
              /\ Len(project.files[n].decls) \in Nat
              /\ \A at \in DOMAIN project.files[n].decls :
                   LET d == project.files[n].decls[at]
                   IN  /\ d \in ToSet(project.files[n].decls)
                       /\ d.loops \in Nat /\ IsSeq(d.calls)
<1>1. /\ project.files \in Seq(ToSet(project.files)) /\ project.given \in 1 .. Len(project.files)
      /\ \A file \in ToSet(project.files) :
           /\ file.decls \in Seq(ToSet(file.decls))
           /\ \A d \in ToSet(file.decls) : d.loops \in Nat /\ d.calls \in Seq(ToSet(d.calls))
  BY ProjectsAssumption DEF TypeInv
<1>2. DOMAIN project.files = 1 .. Len(project.files) /\ Len(project.files) \in Nat BY <1>1
<1>3. \A n \in DOMAIN project.files : project.files[n] \in ToSet(project.files) BY DEF ToSet
<1>4. ASSUME current # 0 PROVE current \in DOMAIN project.files
  BY <1>1, <1>2, <1>4 DEF TypeInv
<1>5. ASSUME NEW n \in DOMAIN project.files
      PROVE  /\ DOMAIN project.files[n].decls = 1 .. Len(project.files[n].decls)
             /\ Len(project.files[n].decls) \in Nat
             /\ \A at \in DOMAIN project.files[n].decls :
                  LET d == project.files[n].decls[at]
                  IN  /\ d \in ToSet(project.files[n].decls)
                      /\ d.loops \in Nat /\ IsSeq(d.calls)
  <2> DEFINE decls == project.files[n].decls
  <2>1. decls \in Seq(ToSet(decls)) BY <1>1, <1>3
  <2>2. \A at \in DOMAIN decls : decls[at] \in ToSet(decls) BY DEF ToSet
  <2>3. \A d \in ToSet(decls) : d.loops \in Nat /\ d.calls \in Seq(ToSet(d.calls)) BY <1>1, <1>3
  <2> HIDE DEF decls
  <2>4. DOMAIN decls = 1 .. Len(decls) /\ Len(decls) \in Nat BY <2>1
  <2>5. \A d \in ToSet(decls) : IsSeq(d.calls) BY <2>3, SeqIs
  <2> QED BY <2>2, <2>3, <2>4, <2>5 DEF decls
<1> QED BY <1>1, <1>2, <1>4, <1>5

(* The definition of a name that has one is one of the declarations.       *)
LEMMA DefinitionIs ==
  ASSUME TypeInv, NEW n \in DOMAIN project.files, NEW name, hasBody(project.files[n], name)
  PROVE  LET d == Definition(project.files[n], name)
         IN  d \in DefinitionIn(project.files[n], name) /\ d.name = name /\ d.loops \in Nat /\ IsSeq(d.calls)
               /\ d \in ToSet(project.files[n].decls)
<1> DEFINE d == Definition(project.files[n], name)
<1>1. d \in DefinitionIn(project.files[n], name) BY DEF Definition, hasBody
<1> HIDE DEF d
<1>2. d.name = name /\ d \in ToSet(project.files[n].decls) BY <1>1 DEF DefinitionIn
<1>3. PICK at \in DOMAIN project.files[n].decls : d = project.files[n].decls[at] BY <1>2 DEF ToSet
<1>4. d.loops \in Nat /\ IsSeq(d.calls) BY <1>3, FilesAre
<1> QED BY <1>1, <1>2, <1>4 DEF d

-----------------------------------------------------------------------------
(* What stepping a body inserts.                                           *)

(* An annotation of a loop of the file that is analysed is in the buffer   *)
(* of that file only if the loop is.                                       *)
IsLoop(e) ==
  e.kind = "loop" /\ (e.file = current => DefinitionIn(File, e.name) # {} /\ e.what \in LoopsIn(File, e.name))

LEMMA LoopEditsAre ==
  ASSUME TypeInv, current # 0, NEW n \in DOMAIN project.files, NEW name, hasBody(project.files[n], name),
         n = current \/ ~hasBody(File, name),
         NEW es, es = LoopEdits(n, Definition(project.files[n], name))
  PROVE  /\ IsSeq(es)
         /\ \A k \in DOMAIN es : IsLoop(es[k])
         /\ n = current => HasLoops(es, name)
<1> DEFINE d == Definition(project.files[n], name)
           file == IF d.inMainFile THEN n ELSE 0
<1>1. d.name = name /\ d.loops \in Nat BY DefinitionIs
<1>2. es = [l \in 1 .. d.loops |-> Edit("loop", file, name, l)] BY <1>1 DEF LoopEdits
<1>3. current \in Nat /\ n \in Nat BY FilesAre
<1>4. n = current => project.files[n] = File BY DEF File
<1>5. file = current => n = current /\ d.inMainFile BY <1>3
<1>6. n = current => hasBody(File, name) /\ d = Definition(File, name) BY <1>4
<1> HIDE DEF d, file
<1>7. IsSeq(es) /\ DOMAIN es = 1 .. d.loops
  <2>1. es = [l \in 1 .. d.loops |-> es[l]] BY <1>2
  <2> QED BY <1>1, <2>1, FunctionIsSeq
<1>8. ASSUME NEW k \in DOMAIN es PROVE IsLoop(es[k])
  <2>1. es[k] = Edit("loop", file, name, k) BY <1>2
  <2>2. es[k].kind = "loop" /\ es[k].file = file /\ es[k].name = name /\ es[k].what = k
    BY <2>1 DEF Edit
  <2>3. ASSUME file = current PROVE DefinitionIn(File, name) # {} /\ k \in LoopsIn(File, name)
    BY <1>5, <1>6, <1>7, <2>3 DEF hasBody, LoopsIn
  <2> QED BY <2>2, <2>3 DEF IsLoop
<1>9. ASSUME n = current PROVE HasLoops(es, name)
  <2> SUFFICES ASSUME NEW l \in LoopsIn(File, name) PROVE \E i \in DOMAIN es : es[i] = Edit("loop", current, name, l)
    BY DEF HasLoops
  <2>1. d.inMainFile /\ l \in 1 .. d.loops BY <1>6, <1>9 DEF LoopsIn
  <2>2. file = current BY <1>9, <2>1 DEF file
  <2> QED BY <1>2, <1>7, <2>1, <2>2
<1> QED BY <1>7, <1>8, <1>9

LEMMA BodyEditsAre ==
  ASSUME TypeInv, CacheInv, current # 0, NEW name, hasBody(File, name),
         CallsAreFound(Definition(File, name)),
         NEW es, es = BodyEdits(Definition(File, name))
  PROVE  /\ IsSeq(es)
         /\ \A k \in DOMAIN es : IsLoop(es[k])
         /\ HasLoops(es, name)
<1> DEFINE d == Definition(File, name)
           own == LoopEdits(current, d)
           parts == [c \in DOMAIN d.calls |-> CallEdits(d.calls[c])]
           called == FlattenSeq(parts)
<1>1. current \in DOMAIN project.files /\ File = project.files[current] BY FilesAre DEF File
<1>2. IsSeq(own) /\ (\A k \in DOMAIN own : IsLoop(own[k])) /\ HasLoops(own, name)
  BY <1>1, LoopEditsAre
<1>3. IsSeq(d.calls) BY <1>1, DefinitionIs
<1>4. ASSUME NEW c \in DOMAIN d.calls
      PROVE  IsSeq(CallEdits(d.calls[c])) /\ \A k \in DOMAIN CallEdits(d.calls[c]) : IsLoop(CallEdits(d.calls[c])[k])
  <2> DEFINE callee == d.calls[c]
             n == CHOOSE m \in SourceOf(callee) : TRUE
  <2>1. SourceOf(callee) # {} BY DEF CallsAreFound
  <2>2. n \in SourceOf(callee) BY <2>1
  <2> HIDE DEF n
  <2>3. n \in DOMAIN project.files /\ hasBody(project.files[n], callee) /\ (n = current \/ ~hasBody(File, callee))
    BY <1>1, <2>2 DEF SourceOf, CacheInv, findAndImportDefinition
  <2>4. CallEdits(callee) = LoopEdits(n, Definition(project.files[n], callee)) BY DEF CallEdits, n
  <2> HIDE DEF callee
  <2>5. IsSeq(CallEdits(callee)) /\ \A k \in DOMAIN CallEdits(callee) : IsLoop(CallEdits(callee)[k])
    BY <2>3, <2>4, LoopEditsAre
  <2> QED BY <2>5 DEF callee
<1>5. IsSeq(parts) /\ DOMAIN parts = DOMAIN d.calls /\ \A c \in DOMAIN d.calls : parts[c] = CallEdits(d.calls[c])
  <2>1. DOMAIN d.calls = 1 .. Len(d.calls) /\ Len(d.calls) \in Nat BY <1>3 DEF IsSeq
  <2>2. parts = [k \in 1 .. Len(d.calls) |-> parts[k]] BY <2>1
  <2> QED BY <2>1, <2>2, FunctionIsSeq
<1>6. es = own \o called BY DEF BodyEdits
<1> HIDE DEF own, parts
<1>7. IsSeq(called) /\ \A j \in DOMAIN called : \E k \in DOMAIN parts : \E l \in DOMAIN parts[k] : called[j] = parts[k][l]
  BY <1>4, <1>5, FlattenMembers
<1>8. \A j \in DOMAIN called : IsLoop(called[j])
  <2>1. ASSUME NEW k \in DOMAIN parts, NEW l \in DOMAIN parts[k] PROVE IsLoop(parts[k][l])
    <3>1. k \in DOMAIN d.calls /\ parts[k] = CallEdits(d.calls[k]) BY <1>5
    <3> QED BY <1>4, <3>1
  <2> QED BY ONLY <1>7, <2>1
<1> HIDE DEF called
<1>9. HoldsBoth(own \o called, own, called) BY <1>2, <1>7, HeldAfter
<1>10. IsSeq(own \o called) BY <1>2, <1>7, Concatenation
<1> QED BY <1>2, <1>6, <1>8, <1>9, <1>10 DEF HoldsBoth, HasLoops

-----------------------------------------------------------------------------
(* Steps of the analysis.                                                  *)

(* A declaration that gets a contract is accepted, and the other way round *)
(* but for main.                                                           *)
LEMMA WantedIsAccepted ==
  Wanted(next) <=> Accepted(File.decls[next]) /\ File.decls[next].name # "main"
BY DEF Wanted, Requested, Accepted, hasBody, shouldAnalyze

(* A declaration that is not accepted changes nothing. *)
LEMMA EditsSkip ==
  ASSUME TypeInv, EditsInv, ~Accepted(File.decls[next])
  PROVE  EditsAre(edits, points, next + 1)
<1>1. ~Wanted(next) BY WantedIsAccepted
<1>2. next \in Nat /\ 1 .. next - 1 \subseteq 1 .. (next + 1) - 1 BY DEF TypeInv
<1>3. \A at \in 1 .. (next + 1) - 1 : at \in 1 .. next - 1 \/ at = next BY <1>2
<1>4. \A i \in DOMAIN edits : IsContract(edits[i], next) => IsContract(edits[i], next + 1)
  BY <1>2 DEF IsContract
<1> QED BY <1>1, <1>3, <1>4 DEF EditsInv, EditsAre

(* The labels of what is inserted. *)
LEMMA LoopsAreLabelled ==
  ASSUME NEW new, \A k \in DOMAIN new : IsLoop(new[k]), NEW k \in DOMAIN new, NEW labels, Labels(new) \subseteq labels
  PROVE  IsAnnotation(new[k], labels)
<1>1. new[k] \in ToSet(new) BY DEF ToSet
<1>2. IsLoop(new[k]) OBVIOUS
<1>3. <<new[k].file, new[k].name, new[k].what>> \in Labels(new) BY <1>1, <1>2 DEF Labels, IsLoop
<1> QED BY <1>2, <1>3 DEF IsAnnotation, IsLoop

(* The loops of main, which gets no contract. *)
LEMMA EditsOfMain ==
  ASSUME TypeInv, EditsInv, ~Wanted(next), NEW new, IsSeq(new), \A k \in DOMAIN new : IsLoop(new[k]),
         NEW labels, labels = points \cup Labels(new)
  PROVE  EditsAre(edits \o new, labels, next + 1)
<1> DEFINE es == edits \o new
<1>1. next \in Nat /\ 1 .. next - 1 \subseteq 1 .. (next + 1) - 1
      /\ \A at \in 1 .. (next + 1) - 1 : at \in 1 .. next - 1 \/ at = next
  BY DEF TypeInv
<1>2. IsSeq(edits) /\ \A i \in DOMAIN edits : IsContract(edits[i], next) \/ IsAnnotation(edits[i], points)
  BY DEF EditsInv, EditsAre
<1>3. \A i \in DOMAIN edits : IsContract(edits[i], next + 1) \/ IsAnnotation(edits[i], labels)
  BY <1>1, <1>2 DEF IsContract, IsAnnotation
<1>4. \A k \in DOMAIN new : IsAnnotation(new[k], labels) BY LoopsAreLabelled
<1>5. \A k \in DOMAIN new : new[k].kind # "contract" BY DEF IsLoop
<1>11. Joined(es, edits, new) BY <1>2, ConcatenationJoins
<1> HIDE DEF es
<1>6. /\ IsSeq(es)
      /\ \A k \in DOMAIN edits : k \in DOMAIN es /\ es[k] = edits[k]
      /\ \A k \in DOMAIN es : k \in DOMAIN edits \/ (k - Len(edits) \in DOMAIN new /\ es[k] = new[k - Len(edits)])
  BY <1>11 DEF Joined
<1>7. \A i \in DOMAIN es : IsContract(es[i], next + 1) \/ IsAnnotation(es[i], labels)
  BY <1>3, <1>4, <1>6
<1>8. \A i \in DOMAIN es : es[i].kind = "contract" => i \in DOMAIN edits /\ es[i] = edits[i]
  BY <1>5, <1>6
<1>9. \A at \in 1 .. (next + 1) - 1 : Wanted(at) => HasContract(es, at) /\ HasLoops(es, File.decls[at].name)
  <2> SUFFICES ASSUME NEW at \in 1 .. (next + 1) - 1, Wanted(at)
               PROVE  HasContract(es, at) /\ HasLoops(es, File.decls[at].name)
    OBVIOUS
  <2>1. HasContract(edits, at) /\ HasLoops(edits, File.decls[at].name)
    BY <1>1 DEF EditsInv, EditsAre
  <2> QED BY <1>6, <2>1 DEF HasContract, HasLoops
<1>10. \A i, j \in DOMAIN es :
         es[i].kind = "contract" /\ es[j].kind = "contract" /\ es[i].what.at = es[j].what.at => i = j
  BY <1>8 DEF EditsInv, EditsAre
<1> QED BY <1>6, <1>7, <1>9, <1>10 DEF EditsAre, es

(* A function that gets a contract. *)
LEMMA EditsOfFunction ==
  ASSUME TypeInv, EditsInv, Wanted(next), NEW new, IsSeq(new), \A k \in DOMAIN new : IsLoop(new[k]),
         HasLoops(new, File.decls[next].name),
         NEW labels, labels = points \cup Labels(new)
  PROVE  EditsAre((edits \o new) \o <<ContractEdit(File.decls[next])>>, labels, next + 1)
<1> DEFINE n == next + 1
           e == ContractEdit(File.decls[next])
           us == edits \o new
           es == us \o <<e>>
<1>1. next \in Nat /\ next \in 1 .. (next + 1) - 1 /\ 1 .. next - 1 \subseteq 1 .. (next + 1) - 1
      /\ \A at \in 1 .. (next + 1) - 1 : at \in 1 .. next - 1 \/ at = next
  BY DEF TypeInv
<1>2. /\ e.kind = "contract" /\ e.file = current /\ e.name = File.decls[next].name /\ e.what.at = next
      /\ e.what.text = emitFunctionContract(Definition(File, File.decls[next].name).paths)
  BY DEF ContractEdit, Edit
<1>3. IsContract(e, next + 1) BY <1>1, <1>2 DEF IsContract
<1>4. IsSeq(edits) /\ \A i \in DOMAIN edits : IsContract(edits[i], next) \/ IsAnnotation(edits[i], points)
  BY DEF EditsInv, EditsAre
<1>5. \A i \in DOMAIN edits : IsContract(edits[i], next + 1) \/ IsAnnotation(edits[i], labels)
  BY <1>1, <1>4 DEF IsContract, IsAnnotation
<1>6. \A k \in DOMAIN new : IsAnnotation(new[k], labels) /\ new[k].kind # "contract"
  BY LoopsAreLabelled DEF IsLoop
<1>7. \A i \in DOMAIN edits : edits[i].kind = "contract" => edits[i].what.at # next
  <2> SUFFICES ASSUME NEW i \in DOMAIN edits, edits[i].kind = "contract" PROVE edits[i].what.at # next
    OBVIOUS
  <2>1. IsContract(edits[i], next) BY <1>4 DEF IsAnnotation
  <2>2. edits[i].what.at \in 1 .. next - 1 BY <2>1 DEF IsContract
  <2> QED BY <1>1, <2>2
<1> HIDE DEF e
<1>19. Joined(us, edits, new) BY <1>4, ConcatenationJoins
<1> HIDE DEF us
<1>8. /\ IsSeq(us)
      /\ \A k \in DOMAIN edits : k \in DOMAIN us /\ us[k] = edits[k]
      /\ \A k \in DOMAIN new : \E m \in DOMAIN us : us[m] = new[k]
      /\ \A k \in DOMAIN us : k \in DOMAIN edits \/ (k - Len(edits) \in DOMAIN new /\ us[k] = new[k - Len(edits)])
  BY <1>19 DEF Joined
<1>9. IsSeq(<<e>>) /\ DOMAIN <<e>> = {1} /\ <<e>>[1] = e BY SingletonIsSeq
<1> DEFINE tail == <<e>>
<1>10. IsSeq(tail) /\ DOMAIN tail = {1} /\ tail[1] = e BY <1>9
<1> HIDE DEF tail
<1>11. Joined(us \o tail, us, tail) BY ONLY <1>8, <1>10, ConcatenationJoins
<1>12. Len(us) \in Nat /\ DOMAIN us = 1 .. Len(us) BY <1>8 DEF IsSeq
<1>13. es = us \o tail BY DEF tail
<1> HIDE DEF es
<1>20. Joined(es, us, tail) BY <1>11, <1>13
<1>14. /\ IsSeq(es)
       /\ \A k \in DOMAIN us : k \in DOMAIN es /\ es[k] = us[k]
       /\ \E k \in DOMAIN es : es[k] = e
       /\ \A k \in DOMAIN es : k \in DOMAIN us \/ (k = Len(us) + 1 /\ es[k] = e)
  <2>1. \E k \in DOMAIN es : es[k] = e BY <1>10, <1>20 DEF Joined
  <2>2. ASSUME NEW k \in DOMAIN es, k \notin DOMAIN us PROVE k = Len(us) + 1 /\ es[k] = e
    <3>1. k - Len(us) = 1 /\ es[k] = e BY <1>10, <1>20, <2>2 DEF Joined
    <3>2. k \in Nat BY <1>20 DEF Joined, IsSeq
    <3> QED BY <1>12, <3>1, <3>2
  <2> QED BY <1>20, <2>1, <2>2 DEF Joined
<1>15. \A i \in DOMAIN es : IsContract(es[i], next + 1) \/ IsAnnotation(es[i], labels)
  <2>1. \A i \in DOMAIN us : IsContract(us[i], next + 1) \/ IsAnnotation(us[i], labels)
    BY <1>5, <1>6, <1>8
  <2> QED BY <1>3, <1>14, <2>1
<1>16. \A i \in DOMAIN es : es[i].kind = "contract" =>
         \/ i \in DOMAIN edits /\ es[i] = edits[i]
         \/ i = Len(us) + 1 /\ es[i] = e
  BY <1>6, <1>8, <1>14
<1>17. \A i, j \in DOMAIN es :
         es[i].kind = "contract" /\ es[j].kind = "contract" /\ es[i].what.at = es[j].what.at => i = j
  <2> SUFFICES ASSUME NEW i \in DOMAIN es, NEW j \in DOMAIN es,
                      es[i].kind = "contract", es[j].kind = "contract", es[i].what.at = es[j].what.at
               PROVE  i = j
    OBVIOUS
  <2>1. CASE i \in DOMAIN edits /\ es[i] = edits[i] /\ j \in DOMAIN edits /\ es[j] = edits[j]
    BY <2>1 DEF EditsInv, EditsAre
  <2>2. CASE es[i] = e /\ es[j] = e /\ i = Len(us) + 1 /\ j = Len(us) + 1
    BY <2>2
  <2>3. CASE i \in DOMAIN edits /\ es[i] = edits[i] /\ es[j] = e BY <1>2, <1>7, <2>3
  <2>4. CASE j \in DOMAIN edits /\ es[j] = edits[j] /\ es[i] = e BY <1>2, <1>7, <2>4
  <2> QED BY <1>16, <2>1, <2>2, <2>3, <2>4
<1>18. \A at \in 1 .. (next + 1) - 1 : Wanted(at) => HasContract(es, at) /\ HasLoops(es, File.decls[at].name)
  <2> SUFFICES ASSUME NEW at \in 1 .. (next + 1) - 1, Wanted(at)
               PROVE  HasContract(es, at) /\ HasLoops(es, File.decls[at].name)
    OBVIOUS
  <2>1. CASE at \in 1 .. next - 1
    <3>1. HasContract(edits, at) /\ HasLoops(edits, File.decls[at].name)
      BY <2>1 DEF EditsInv, EditsAre
    <3>2. \A k \in DOMAIN edits : k \in DOMAIN es /\ es[k] = edits[k] BY <1>8, <1>14
    <3> QED BY <3>1, <3>2 DEF HasContract, HasLoops
  <2>2. CASE at = next
    <3>1. HasContract(es, at) BY <1>2, <1>14, <2>2 DEF HasContract
    <3>2. \A k \in DOMAIN new : \E m \in DOMAIN es : es[m] = new[k] BY <1>8, <1>14
    <3>3. HasLoops(es, File.decls[at].name) BY <2>2, <3>2 DEF HasLoops
    <3> QED BY <3>1, <3>3
  <2> QED BY <1>1, <2>1, <2>2
<1> QED BY <1>14, <1>15, <1>17, <1>18 DEF EditsAre, es, us, e

-----------------------------------------------------------------------------
(* The end of a file.                                                      *)

(* What is written holds one contract per declaration, every loop and its  *)
(* labels.                                                                 *)
LEMMA OutputHolds ==
  ASSUME TypeInv, EditsInv, current # 0, next > Len(File.decls), NEW name
  PROVE  HoldsContracts(OutputOf(File), File, name, project.targets)
<1> DEFINE kept == [i \in DOMAIN edits |-> IF edits[i].file = current THEN <<edits[i]>> ELSE <<>>]
           out == OutputOf(File)
           es == FlattenSeq(kept)
           decls == {i \in DOMAIN File.decls : File.decls[i].name = name /\ File.decls[i].inMainFile}
<1>1. out.edits = es /\ out.of = current /\ out.labels = {p \in points : p[1] = current}
  BY DEF OutputOf
<1>2. /\ IsSeq(edits)
      /\ \A i \in DOMAIN edits : IsContract(edits[i], next) \/ IsAnnotation(edits[i], points)
      /\ \A i, j \in DOMAIN edits :
           edits[i].kind = "contract" /\ edits[j].kind = "contract" /\ edits[i].what.at = edits[j].what.at => i = j
      /\ \A at \in 1 .. next - 1 : Wanted(at) => HasContract(edits, at) /\ HasLoops(edits, File.decls[at].name)
  BY DEF EditsInv, EditsAre
<1>3. current \in DOMAIN project.files /\ File = project.files[current] BY FilesAre DEF File
<1>4. DOMAIN File.decls = 1 .. Len(File.decls) /\ Len(File.decls) \in Nat BY <1>3, FilesAre
<1>5. 1 .. next - 1 = DOMAIN File.decls BY <1>4 DEF TypeInv
<1>6. /\ IsSeq(kept) /\ DOMAIN kept = DOMAIN edits
      /\ \A i \in DOMAIN edits : kept[i] = IF edits[i].file = current THEN <<edits[i]>> ELSE <<>>
  <2>1. DOMAIN edits = 1 .. Len(edits) /\ Len(edits) \in Nat BY <1>2 DEF IsSeq
  <2>2. kept = [k \in 1 .. Len(edits) |-> kept[k]] BY <2>1
  <2> QED BY <2>1, <2>2, FunctionIsSeq
<1> HIDE DEF kept
<1>7. ASSUME NEW i \in DOMAIN kept
      PROVE  /\ IsSeq(kept[i]) /\ Len(kept[i]) <= 1
             /\ \A l \in DOMAIN kept[i] : edits[i].file = current /\ kept[i][l] = edits[i]
             /\ edits[i].file = current => 1 \in DOMAIN kept[i] /\ kept[i][1] = edits[i]
  <2>1. CASE edits[i].file = current
    <3>1. kept[i] = <<edits[i]>> BY <1>6, <2>1
    <3>2. DOMAIN kept[i] = {1} /\ kept[i][1] = edits[i] /\ IsSeq(kept[i]) /\ Len(kept[i]) = 1
      BY ONLY <3>1, SingletonIsSeq
    <3> QED BY <2>1, <3>2
  <2>2. CASE edits[i].file # current
    <3>1. kept[i] = <<>> BY <1>6, <2>2
    <3> QED BY <2>2, <3>1, EmptyIsSeq
  <2> QED BY <2>1, <2>2
<1>8. \A i \in DOMAIN kept : IsSeq(kept[i]) BY <1>7
<1>9. IsSeq(es) /\ \A j \in DOMAIN es : \E k \in DOMAIN edits : edits[k].file = current /\ es[j] = edits[k]
  <2>1. IsSeq(es) /\ \A j \in DOMAIN es : \E k \in DOMAIN kept : \E l \in DOMAIN kept[k] : es[j] = kept[k][l]
    BY <1>6, <1>8, FlattenMembers
  <2> HIDE DEF es
  <2> QED BY <1>6, <1>7, <2>1
<1>10. \A k \in DOMAIN edits : edits[k].file = current => \E j \in DOMAIN es : es[j] = edits[k]
  <2> SUFFICES ASSUME NEW k \in DOMAIN edits, edits[k].file = current PROVE \E j \in DOMAIN es : es[j] = edits[k]
    OBVIOUS
  <2>1. k \in DOMAIN kept /\ 1 \in DOMAIN kept[k] /\ kept[k][1] = edits[k] BY <1>6, <1>7
  <2>2. \E j \in DOMAIN FlattenSeq(kept) : FlattenSeq(kept)[j] = kept[k][1]
    BY ONLY <1>6, <1>8, <2>1, FlattenHolds
  <2> QED BY <2>1, <2>2
<1>11. \A i, j \in DOMAIN es : i < j => \E k, l \in DOMAIN edits : k < l /\ es[i] = edits[k] /\ es[j] = edits[l]
  <2> SUFFICES ASSUME NEW i \in DOMAIN es, NEW j \in DOMAIN es, i < j
               PROVE  \E k, l \in DOMAIN edits : k < l /\ es[i] = edits[k] /\ es[j] = edits[l]
    OBVIOUS
  <2>1. \A k \in DOMAIN kept : IsSeq(kept[k]) /\ Len(kept[k]) <= 1 BY <1>7
  <2>2. PICK k, l \in DOMAIN kept : /\ k < l
                                   /\ \E p \in DOMAIN kept[k] : FlattenSeq(kept)[i] = kept[k][p]
                                   /\ \E q \in DOMAIN kept[l] : FlattenSeq(kept)[j] = kept[l][q]
    BY <1>6, <2>1, FlattenOnce
  <2>3. FlattenSeq(kept)[i] = edits[k] /\ FlattenSeq(kept)[j] = edits[l] BY <1>7, <2>2
  <2> QED BY <1>6, <2>2, <2>3
<1>12. ASSUME NEW i, NEW j, i \in DOMAIN es, j \in DOMAIN es,
              es[i].kind = "contract", es[j].kind = "contract", es[i].what.at = es[j].what.at
       PROVE  i = j
  <2> DEFINE D == DOMAIN es
  <2>1. i \in Nat /\ j \in Nat
    <3>1. D = 1 .. Len(es) BY <1>9 DEF IsSeq
    <3> QED BY <1>12, <3>1
  <2>2. ~(i < j)
    <3>1. ASSUME i < j PROVE FALSE
      <4>1. PICK k, l \in DOMAIN edits : k < l /\ es[i] = edits[k] /\ es[j] = edits[l]
        BY <1>11, <1>12, <3>1
      <4>2. k = l BY <1>2, <1>12, <4>1
      <4>3. k \in Nat BY <1>2 DEF IsSeq
      <4> QED BY <4>1, <4>2, <4>3
    <3> QED BY <3>1
  <2>3. ~(j < i)
    <3>1. ASSUME j < i PROVE FALSE
      <4>1. PICK k, l \in DOMAIN edits : k < l /\ es[j] = edits[k] /\ es[i] = edits[l]
        BY <1>11, <1>12, <3>1
      <4>2. k = l BY <1>2, <1>12, <4>1
      <4>3. k \in Nat BY <1>2 DEF IsSeq
      <4> QED BY <4>1, <4>2, <4>3
    <3> QED BY <3>1
  <2> QED BY <2>1, <2>2, <2>3
<1> HIDE DEF es, out
<1>13. ASSUME NEW i \in DOMAIN es
       PROVE  \/ IsContract(es[i], next) /\ es[i].kind = "contract"
              \/ IsAnnotation(es[i], points) /\ es[i].kind = "loop" /\ es[i].file = current
  <2>1. PICK k \in DOMAIN edits : edits[k].file = current /\ es[i] = edits[k] BY <1>9
  <2> QED BY <1>2, <2>1 DEF IsContract, IsAnnotation
<1>14. \A i \in ContractsOf(out, name) : i \in DOMAIN es /\ es[i].kind = "contract" /\ es[i].name = name
  BY <1>1 DEF ContractsOf
<1>15. ASSUME NEW i \in ContractsOf(out, name) PROVE es[i].what.at \in decls /\ Requested(File, name, project.targets)
  <2>1. IsContract(es[i], next) BY <1>13, <1>14
  <2>2. es[i].what.at \in DOMAIN File.decls /\ Wanted(es[i].what.at) /\ File.decls[es[i].what.at].name = name
    BY <1>5, <1>14, <2>1 DEF IsContract
  <2> QED BY <2>2 DEF Wanted
<1>16. ASSUME Requested(File, name, project.targets), NEW at \in decls
       PROVE  HasLoops(edits, name) /\ \E i \in ContractsOf(out, name) : es[i].what.at = at
  <2>1. at \in 1 .. next - 1 /\ Wanted(at) /\ File.decls[at].name = name BY <1>5, <1>16 DEF Wanted
  <2>2. HasContract(edits, at) /\ HasLoops(edits, name) BY <1>2, <2>1
  <2>3. PICK k \in DOMAIN edits : edits[k].kind = "contract" /\ edits[k].what.at = at BY <2>2 DEF HasContract
  <2>4. IsContract(edits[k], next) BY <1>2, <2>3 DEF IsAnnotation
  <2>5. edits[k].file = current /\ edits[k].name = name BY <2>1, <2>3, <2>4 DEF IsContract
  <2>6. PICK i \in DOMAIN es : es[i] = edits[k] BY <1>10, <2>5
  <2>7. i \in ContractsOf(out, name) BY <1>1, <2>3, <2>5, <2>6 DEF ContractsOf
  <2> QED BY <2>2, <2>3, <2>6, <2>7
<1>17. {es[i].what.at : i \in ContractsOf(out, name)} = IF Requested(File, name, project.targets) THEN decls ELSE {}
  <2> HIDE DEF decls
  <2>1. CASE Requested(File, name, project.targets)
    <3>1. \A at \in decls : \E i \in ContractsOf(out, name) : es[i].what.at = at BY <1>16, <2>1
    <3>2. \A i \in ContractsOf(out, name) : es[i].what.at \in decls BY <1>15
    <3> QED BY <2>1, <3>1, <3>2
  <2>2. CASE ~Requested(File, name, project.targets)
    <3>1. ContractsOf(out, name) = {} BY <1>15, <2>2
    <3> QED BY <2>2, <3>1
  <2> QED BY <2>1, <2>2
<1>18. \A i, j \in ContractsOf(out, name) : es[i].what.at = es[j].what.at => i = j
  BY <1>12, <1>14
<1>19. ASSUME NEW l \in Annotated(out, name)
       PROVE  l \in LoopsIn(File, name) /\ <<out.of, name, l>> \in out.labels
  <2>1. PICK i \in DOMAIN es : es[i].kind = "loop" /\ es[i].name = name /\ es[i].what = l
    BY <1>1 DEF Annotated
  <2>2. IsAnnotation(es[i], points) /\ es[i].file = current BY <1>13, <2>1
  <2>3. l \in LoopsIn(File, name) /\ <<current, name, l>> \in points BY <2>1, <2>2 DEF IsAnnotation
  <2> QED BY <1>1, <2>3
<1>20. ASSUME Requested(File, name, project.targets), decls # {}, NEW l \in LoopsIn(File, name)
       PROVE  l \in Annotated(out, name)
  <2>1. HasLoops(edits, name) BY <1>16, <1>20
  <2>2. PICK k \in DOMAIN edits : edits[k] = Edit("loop", current, name, l) BY <2>1 DEF HasLoops
  <2>3. edits[k].file = current /\ edits[k].kind = "loop" /\ edits[k].name = name /\ edits[k].what = l
    BY <2>2 DEF Edit
  <2>4. PICK i \in DOMAIN es : es[i] = edits[k] BY <1>10, <2>3
  <2> QED BY <1>1, <2>3, <2>4 DEF Annotated
<1>21. Requested(File, name, project.targets) /\ decls # {} =>
         /\ Annotated(out, name) = LoopsIn(File, name)
         /\ \A l \in Annotated(out, name) : <<out.of, name, l>> \in out.labels
  <2> HIDE DEF decls
  <2> QED BY <1>19, <1>20
<1> QED BY <1>1, <1>17, <1>18, <1>21 DEF HoldsContracts, out

-----------------------------------------------------------------------------
(* The invariant holds.                                                    *)

LEMMA InitIsRight == Init => IInv
<1> SUFFICES ASSUME Init PROVE IInv OBVIOUS
<1>1. TypeInv
  <2>1. project.given \in Nat BY ProjectsAssumption DEF Init
  <2> QED BY <2>1 DEF Init, TypeInv
<1>2. CacheInv BY DEF Init, CacheInv
<1>3. EditsInv
  <2>1. edits = <<>> /\ next = 1 BY DEF Init
  <2>2. 1 .. next - 1 = {} BY <2>1
  <2> QED BY <2>1, <2>2, EmptyIsSeq DEF EditsInv, EditsAre
<1>4. OutputsInv BY DEF Init, OutputsInv
<1> QED BY <1>1, <1>2, <1>3, <1>4 DEF IInv

(* The edits after a step that stays in the file. *)
LEMMA SameFile ==
  ASSUME project' = project, current' = current
  PROVE  EditsInv' <=> EditsAre(edits', points', next')
BY DEF EditsInv, EditsAre, IsContract, IsAnnotation, Wanted, HasContract, HasLoops, LoopsIn, File

(* A file that has just been parsed has no edits. *)
LEMMA FreshFile ==
  ASSUME edits' = <<>>, next' = 1
  PROVE  EditsInv'
<1>1. 1 .. next' - 1 = {} OBVIOUS
<1> QED BY <1>1, EmptyIsSeq DEF EditsInv, EditsAre

LEMMA OutputsStay ==
  ASSUME OutputsInv, project' = project, current' = current, outputs' = outputs
  PROVE  OutputsInv'
BY DEF OutputsInv, OutputPath

LEMMA ParseStep == IInv /\ Parse => IInv'
<1> SUFFICES ASSUME IInv, Parse PROVE IInv' OBVIOUS
<1>1. /\ project' = project /\ current = 0 /\ current' = 1 /\ next' = 1 /\ edits' = <<>>
      /\ imported' = imported /\ outputs' = outputs
  BY DEF Parse, Fresh
<1>2. TypeInv'
  <2>1. project.given \in 1 .. Len(project.files) /\ Len(project.files) \in Nat BY FilesAre DEF IInv
  <2>2. 1 \in DOMAIN project.files BY <2>1, FilesAre DEF IInv
  <2>3. Len(project.files[1].decls) \in Nat BY <2>2, FilesAre DEF IInv
  <2> QED BY <1>1, <2>1, <2>3 DEF TypeInv, IInv, File
<1>3. CacheInv' BY <1>1 DEF IInv, CacheInv
<1>4. EditsInv' BY <1>1, FreshFile
<1>5. OutputsInv' BY <1>1 DEF IInv, TypeInv, OutputsInv
<1> QED BY <1>2, <1>3, <1>4, <1>5 DEF IInv

LEMMA AnalyzeStep == IInv /\ Analyze => IInv'
<1> SUFFICES ASSUME IInv, Analyze PROVE IInv' OBVIOUS
<1> DEFINE d == File.decls[next]
<1>1. /\ project' = project /\ current' = current /\ current # 0 /\ outputs' = outputs
      /\ next <= Len(File.decls)
  BY DEF Analyze
<1>2. /\ TypeInv /\ CacheInv /\ EditsInv /\ OutputsInv BY DEF IInv
<1>3. current \in DOMAIN project.files /\ File = project.files[current] BY <1>1, <1>2, FilesAre DEF File
<1>4. Len(File.decls) \in Nat BY <1>2, <1>3, FilesAre
<1>5. next \in Nat \ {0} BY <1>2 DEF TypeInv
<1>6. OutputsInv' BY <1>1, <1>2, OutputsStay
<1>7. ASSUME next' \in {next, next + 1} PROVE TypeInv'
  <2>1. next' \in Nat \ {0} /\ next' <= Len(File.decls) + 1 BY <1>1, <1>4, <1>5, <1>7
  <2> QED BY <1>1, <1>2, <2>1 DEF TypeInv, File
<1>8. CASE ~Accepted(d)
  <2>1. next' = next + 1 /\ imported' = imported /\ points' = points /\ edits' = edits
    BY <1>8 DEF Analyze
  <2>2. EditsInv' BY <1>1, <1>2, <1>8, <2>1, EditsSkip, SameFile
  <2>3. CacheInv' BY <1>1, <1>2, <2>1 DEF CacheInv
  <2> QED BY <1>6, <1>7, <2>1, <2>2, <2>3 DEF IInv
<1>9. CASE Accepted(d) /\ UNCHANGED <<imported, points, edits, next>>
  <2>1. EditsInv'
    <3>1. EditsAre(edits, points, next) BY <1>2 DEF EditsInv
    <3> QED BY <1>1, <1>9, <3>1, SameFile
  <2>2. CacheInv' BY <1>1, <1>2, <1>9 DEF CacheInv
  <2> QED BY <1>6, <1>7, <1>9, <2>1, <2>2 DEF IInv
<1>10. CASE Accepted(d) /\ CallsAreFound(Definition(File, d.name)) /\ generateFunctionSpec(d) /\ next' = next + 1
  <2> DEFINE body == Definition(File, d.name)
             new == BodyEdits(body)
  <2>1. /\ imported' = CacheWith(ToSet(body.calls))
        /\ points' = points \cup Labels(new)
        /\ edits' = edits \o new \o IF d.name = "main" THEN <<>> ELSE <<ContractEdit(d)>>
    BY <1>10 DEF generateFunctionSpec
  <2>2. hasBody(File, d.name) BY <1>10 DEF Accepted
  <2>3. IsSeq(new) /\ (\A k \in DOMAIN new : IsLoop(new[k])) /\ HasLoops(new, d.name)
    BY <1>1, <1>2, <1>10, <2>2, BodyEditsAre
  <2> HIDE DEF new
  <2>4. EditsAre(edits', points', next + 1)
    <3>1. CASE d.name = "main"
      <4>1. ~Wanted(next) BY <3>1, WantedIsAccepted
      <4>2. edits' = edits \o new
        <5>1. IsSeq(edits \o new) BY <1>2, <2>3, Concatenation DEF EditsInv, EditsAre
        <5>2. edits' = (edits \o new) \o <<>> BY <2>1, <3>1
        <5> QED BY <5>1, <5>2, ConcatenationWithEmpty
      <4> QED BY <1>2, <2>1, <2>3, <4>1, <4>2, EditsOfMain
    <3>2. CASE d.name # "main"
      <4>1. Wanted(next) BY <1>10, <3>2, WantedIsAccepted
      <4>2. edits' = (edits \o new) \o <<ContractEdit(d)>> BY <2>1, <3>2
      <4> QED BY <1>2, <2>1, <2>3, <4>1, <4>2, EditsOfFunction
    <3> QED BY <3>1, <3>2
  <2>5. EditsInv' BY <1>1, <1>10, <2>4, SameFile
  <2>6. CacheInv'
    <3> DEFINE added == {name \in ToSet(body.calls) : /\ ~hasBody(File, name) /\ name \notin DOMAIN imported
                                                      /\ findAndImportDefinition(name) # {}}
    <3>1. imported' = [n \in DOMAIN imported \cup added |->
                         IF n \in DOMAIN imported THEN imported[n]
                         ELSE [from |-> CHOOSE f \in findAndImportDefinition(n) : TRUE, into |-> current]]
      BY <2>1 DEF CacheWith
    <3> SUFFICES ASSUME NEW name \in DOMAIN imported'
                 PROVE  imported'[name].from \in DOMAIN project.files /\ hasBody(project.files[imported'[name].from], name)
      BY <1>1 DEF CacheInv
    <3>2. name \in DOMAIN imported \/ findAndImportDefinition(name) # {} BY <3>1
    <3>3. CASE name \in DOMAIN imported
      <4>1. imported'[name] = imported[name] BY <3>1, <3>3
      <4> QED BY <1>2, <3>3, <4>1 DEF CacheInv
    <3>4. CASE name \notin DOMAIN imported
      <4> DEFINE from == CHOOSE f \in findAndImportDefinition(name) : TRUE
      <4>1. imported'[name].from = from BY <3>1, <3>4
      <4>2. from \in findAndImportDefinition(name) BY <3>2, <3>4
      <4>3. from \in DOMAIN project.files /\ hasBody(project.files[from], name)
        BY <4>2 DEF findAndImportDefinition
      <4> QED BY <4>1, <4>3
    <3> QED BY <3>3, <3>4
  <2> QED BY <1>6, <1>7, <1>10, <2>5, <2>6 DEF IInv
<1> QED BY <1>8, <1>9, <1>10 DEF Analyze

(* The files between one and the current file, when the current file is    *)
(* the same or the next.                                                   *)
LEMMA Between ==
  ASSUME NEW a \in Nat, NEW b, b = a \/ b = a + 1
  PROVE  /\ a + 1 .. b - 1 = {}
         /\ \A m \in 1 .. a : \A n \in m + 1 .. b - 1 : n \in m + 1 .. a - 1 \/ n = a
OBVIOUS

LEMMA HandleTranslationUnitStep == IInv /\ HandleTranslationUnit => IInv'
<1> SUFFICES ASSUME IInv, HandleTranslationUnit PROVE IInv' OBVIOUS
<1>1. /\ project' = project /\ imported' = imported /\ current # 0 /\ next > Len(File.decls)
  BY DEF HandleTranslationUnit
<1>2. /\ TypeInv /\ CacheInv /\ EditsInv /\ OutputsInv BY DEF IInv
<1>3. CacheInv' BY <1>1, <1>2 DEF CacheInv
<1>4. project.given \in 1 .. Len(project.files) /\ Len(project.files) \in Nat /\ DOMAIN project.files = 1 .. Len(project.files)
  BY <1>2, FilesAre
<1>5. current \in 1 .. project.given BY <1>1, <1>2 DEF TypeInv
<1>6. CASE UNCHANGED <<current, next, edits, points, outputs>>
  <2>1. TypeInv' BY <1>1, <1>2, <1>6 DEF TypeInv, File
  <2>2. EditsInv'
    <3>1. EditsAre(edits, points, next) BY <1>2 DEF EditsInv
    <3> QED BY <1>1, <1>6, <3>1, SameFile
  <2>3. OutputsInv' BY <1>1, <1>2, <1>6, OutputsStay
  <2> QED BY <1>3, <2>1, <2>2, <2>3 DEF IInv
<1>7. CASE /\ outputs' = WithOutput(File)
           /\ \/ current < project.given /\ Fresh(current + 1)
              \/ UNCHANGED <<current, next, edits, points>>
  <2>1. current' \in current .. project.given
    BY <1>4, <1>5, <1>7 DEF Fresh
  <2>2. current' = current \/ current' = current + 1 BY <1>7 DEF Fresh
  <2>6. current \in Nat BY <1>4, <1>5
  <2>3. OutputsInv'
    <3>3. project.noOutput => DOMAIN outputs' = {} BY <1>2, <1>7 DEF OutputsInv, WithOutput
    <3> SUFFICES ASSUME NEW path \in DOMAIN outputs'
                 PROVE  /\ outputs'[path].of \in 1 .. current'
                        /\ OutputPath(project.files[outputs'[path].of]) = path
                        /\ \A n \in outputs'[path].of + 1 .. current' - 1 : OutputPath(project.files[n]) # path
                        /\ \A name : HoldsContracts(outputs'[path], project.files[outputs'[path].of], name, project.targets)
      BY <1>1, <3>3, ZenonT(30) DEF OutputsInv, OutputPath
    <3>1. CASE path = OutputPath(File) /\ outputs'[path] = OutputOf(File)
      <4>1. outputs'[path].of = current BY <3>1 DEF OutputOf
      <4>2. current + 1 .. current' - 1 = {} BY ONLY <2>2, <2>6, Between
      <4>3. \A name : HoldsContracts(outputs'[path], File, name, project.targets) BY <1>1, <1>2, <3>1, OutputHolds
      <4>4. current \in 1 .. current' BY <1>4, <1>5, <2>1
      <4> QED BY <3>1, <4>1, <4>2, <4>3, <4>4 DEF File
    <3>2. CASE path \in DOMAIN outputs /\ outputs'[path] = outputs[path] /\ path # OutputPath(File)
      <4> DEFINE of == outputs[path].of
      <4>1. /\ of \in 1 .. current /\ OutputPath(project.files[of]) = path
            /\ \A n \in of + 1 .. current - 1 : OutputPath(project.files[n]) # path
            /\ \A name : HoldsContracts(outputs[path], project.files[of], name, project.targets)
        BY <1>2, <3>2 DEF OutputsInv
      <4> HIDE DEF of
      <4>2. of \in 1 .. current' BY <1>4, <1>5, <2>1, <4>1
      <4>3. path # OutputPath(File) BY <3>2
      <4>4. \A n \in of + 1 .. current' - 1 : OutputPath(project.files[n]) # path
        <5> SUFFICES ASSUME NEW n \in of + 1 .. current' - 1 PROVE OutputPath(project.files[n]) # path OBVIOUS
        <5>1. n \in of + 1 .. current - 1 \/ n = current BY ONLY <2>2, <2>6, <4>1, n \in of + 1 .. current' - 1, Between
        <5> QED BY <4>1, <4>3, <5>1 DEF File
      <4> QED BY <3>2, <4>1, <4>2, <4>4 DEF of
    <3> QED BY <1>7, <3>1, <3>2, <3>3 DEF WithOutput
  <2>4. CASE UNCHANGED <<current, next, edits, points>>
    <3>1. TypeInv' BY <1>1, <1>2, <2>4 DEF TypeInv, File
    <3>2. EditsInv'
      <4>1. EditsAre(edits, points, next) BY <1>2 DEF EditsInv
      <4> QED BY <1>1, <2>4, <4>1, SameFile
    <3> QED BY <1>3, <2>3, <3>1, <3>2 DEF IInv
  <2>5. CASE current < project.given /\ Fresh(current + 1)
    <3>1. current' = current + 1 /\ next' = 1 /\ edits' = <<>> BY <2>5 DEF Fresh
    <3>2. EditsInv' BY <3>1, FreshFile
    <3>3. TypeInv'
      <4>1. current' \in DOMAIN project.files /\ current' \in 0 .. project.given /\ current' # 0
        BY <1>4, <1>5, <2>1, <3>1
      <4>2. Len(project.files[current'].decls) \in Nat BY <1>2, <4>1, FilesAre
      <4> QED BY <1>1, <1>2, <3>1, <4>1, <4>2 DEF TypeInv, File
    <3> QED BY <1>3, <2>3, <3>2, <3>3 DEF IInv
  <2> QED BY <1>7, <2>4, <2>5
<1> QED BY <1>6, <1>7 DEF HandleTranslationUnit

LEMMA NextStep == IInv /\ [Next]_vars => IInv'
<1>1. IInv /\ UNCHANGED vars => IInv'
  <2> SUFFICES ASSUME IInv, UNCHANGED vars PROVE IInv' OBVIOUS
  <2>1. /\ project' = project /\ current' = current /\ next' = next /\ edits' = edits /\ points' = points
        /\ imported' = imported /\ outputs' = outputs
    BY DEF vars
  <2>2. TypeInv' BY <2>1 DEF IInv, TypeInv, File
  <2>3. CacheInv' BY <2>1 DEF IInv, CacheInv
  <2>4. EditsInv'
    <3>1. EditsAre(edits, points, next) BY DEF IInv, EditsInv
    <3> QED BY <2>1, <3>1, SameFile
  <2>5. OutputsInv' BY <2>1, OutputsStay DEF IInv
  <2> QED BY <2>2, <2>3, <2>4, <2>5 DEF IInv
<1> QED BY <1>1, ParseStep, AnalyzeStep, HandleTranslationUnitStep DEF Next

-----------------------------------------------------------------------------
(* The theorems.                                                           *)

(* Whatever functions, targets and files a project has, an output has the  *)
(* contracts of the last file with its path, all of them and no other, and *)
(* the annotations and labels of their loops.                              *)
THEOREM OutputsAreComplete == Spec => []OutputsHoldTheContracts
<1>1. IInv => OutputsHoldTheContracts
  <2> SUFFICES ASSUME OutputsInv, NEW path \in DOMAIN outputs
               PROVE  \E file \in {project.files[outputs[path].of]} :
                        /\ OutputPath(file) = path
                        /\ \A n \in outputs[path].of + 1 .. current - 1 : OutputPath(project.files[n]) # path
                        /\ \A name \in {d.name : d \in UNION {ToSet(f.decls) : f \in ToSet(project.files)}} :
                             HoldsContracts(outputs[path], file, name, project.targets)
    BY DEF IInv, OutputsHoldTheContracts
  <2>1. /\ OutputPath(project.files[outputs[path].of]) = path
        /\ \A n \in outputs[path].of + 1 .. current - 1 : OutputPath(project.files[n]) # path
        /\ \A name : HoldsContracts(outputs[path], project.files[outputs[path].of], name, project.targets)
    BY DEF OutputsInv
  <2> QED BY <2>1
<1> QED BY <1>1, InitIsRight, NextStep, PTL DEF Spec

(* The contract last written is the one of the paths of its function.      *)
LEMMA NewContractIs ==
  ASSUME IInv, NewContract
  PROVE  Written = emitFunctionContract(Analysed) /\ \A path \in Analysed : IsPath(path)
<1> DEFINE e == Last(edits)
           name == e.name
<1>1. IsSeq(edits) /\ edits # <<>> /\ e.kind = "contract" BY DEF NewContract, IInv, EditsInv, EditsAre
<1>2. Len(edits) \in DOMAIN edits /\ e = edits[Len(edits)] BY <1>1 DEF IsSeq, Last
<1>3. \A i \in DOMAIN edits : IsContract(edits[i], next) \/ IsAnnotation(edits[i], points)
  BY DEF IInv, EditsInv, EditsAre
<1>4. IsContract(e, next) \/ IsAnnotation(e, points) BY <1>2, <1>3
<1> HIDE DEF e
<1>5. IsContract(e, next) BY <1>1, <1>4 DEF IsAnnotation
<1>6. e.what.text = emitFunctionContract(Definition(File, name).paths) BY <1>5 DEF IsContract
<1>7. hasBody(File, name) BY <1>5 DEF IsContract, Wanted, Requested, hasBody
<1>8. TypeInv /\ current # 0
  <2>1. TypeInv BY DEF IInv
  <2> QED BY <1>1, <2>1 DEF TypeInv
<1>9. current \in DOMAIN project.files /\ File = project.files[current] BY <1>8, FilesAre DEF File
<1>10. Definition(File, name) \in ToSet(File.decls)
  BY <1>7, <1>8, <1>9, DefinitionIs
<1>11. project \in Projects /\ File \in ToSet(project.files) BY <1>8, <1>9 DEF TypeInv, ToSet
<1>12. \A path \in Definition(File, name).paths : IsPath(path) BY <1>10, <1>11, PathsAssumption
<1> QED BY <1>6, <1>12 DEF Written, Analysed, e

(* The behavior of every path that returns is in the contract and is true  *)
(* of the runs that take the path, for all values of the parameters and of *)
(* the memory.                                                             *)
THEOREM BehaviorsAreTrue == Spec => []BehaviorsDescribeReturns
<1>1. IInv => BehaviorsDescribeReturns
  <2> SUFFICES ASSUME IInv, NewContract, NEW path \in Analysed, path.state = "Return"
               PROVE  \E b \in {Behavior(path)} :
                        /\ b \in Written.behaviors \/ SaysNothing(b)
                        /\ \A run \in {r \in Run : Takes(r, path)} :
                             /\ Satisfies(run, b.assumes \cup b.requires)
                             /\ \A clause \in b.ensures :
                                  \/ EnsuredBy(run, path, clause)
                                  \/ \E t \in TermsOf(path) :
                                       Misread(run, path, t) /\ Printed(t) \in {clause.right, clause.left.off, clause.left.len}
    BY DEF BehaviorsDescribeReturns
  <2>1. Written = emitFunctionContract(Analysed) /\ IsPath(path) BY NewContractIs
  <2>2. Behavior(path) \in Written.behaviors \/ SaysNothing(Behavior(path))
    BY <2>1 DEF emitFunctionContract, Behaviors
  <2>3. ASSUME NEW run \in Run, Takes(run, path)
        PROVE  Satisfies(run, Behavior(path).assumes \cup Behavior(path).requires)
    BY <2>1, <2>3, ConditionsHold
  <2>4. ASSUME NEW run \in Run, Takes(run, path), NEW clause \in Behavior(path).ensures
        PROVE  \/ EnsuredBy(run, path, clause)
               \/ \E t \in TermsOf(path) :
                    Misread(run, path, t) /\ Printed(t) \in {clause.right, clause.left.off, clause.left.len}
    BY <2>1, <2>4, EnsuresHold
  <2> QED BY <2>2, <2>3, <2>4
<1> QED BY <1>1, InitIsRight, NextStep, PTL DEF Spec

(* A cell behind a parameter that a run changes is in the assigns clauses, *)
(* except for the two reasons of Missing and for the fields of structures. *)
THEOREM AssignsAreEnough == Spec => []AssignsAllowChanges
<1>1. IInv => AssignsAllowChanges
  <2> DEFINE all == {e.addr : e \in UNION {q.memory : q \in Analysed}}
  <2> SUFFICES ASSUME IInv, NewContract, NEW path \in Analysed, NEW run \in Run, Takes(run, path),
                      NEW cell \in ChangedBy(run, path), ~IsField(run, path, cell)
               PROVE  /\ Allows(run, Written.assigns, cell)
                           \/ Missing(run, {e.addr : e \in path.memory}, all, FALSE, cell)
                      /\ path.state = "Return" =>
                           \/ Allows(run, Behavior(path).assigns, cell)
                           \/ Missing(run, {e.addr : e \in path.memory}, {e.addr : e \in path.memory}, ReturnsNew(path), cell)
    BY DEF AssignsAllowChanges
  <2>1. Written = emitFunctionContract(Analysed) /\ \A q \in Analysed : IsPath(q) BY NewContractIs
  <2>2. Written.assigns = TopAssigns(Analysed) BY <2>1 DEF emitFunctionContract
  <2>3. /\ \/ Allows(run, TopAssigns(Analysed), cell)
           \/ Missing(run, {e.addr : e \in path.memory}, all, FALSE, cell)
        /\ \/ Allows(run, Behavior(path).assigns, cell)
           \/ Missing(run, {e.addr : e \in path.memory}, {e.addr : e \in path.memory}, ReturnsNew(path), cell)
    BY <2>1, AssignsAllow
  <2> QED BY <2>2, <2>3
<1> QED BY <1>1, InitIsRight, NextStep, PTL DEF Spec
=============================================================================

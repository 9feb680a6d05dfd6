------------------------------ MODULE Contract ------------------------------
(***************************************************************************)
(* The function contract: what TopAssignsPlugin and DetailBehaviorPlugin   *)
(* (src/src/SpecGenerator/functionContractPlugins.cpp) write of the paths  *)
(* that the analysis of a function ends with.                              *)
(*                                                                         *)
(* The function is f(int *p, struct S *s, int i) with a local int k, a     *)
(* local array arr and one allocation new.  S has one int field.  A value  *)
(* or an offset is the value that i, an element of p, or k had at a source *)
(* point: "Old", where the function starts, or "After", behind a loop.     *)
(***************************************************************************)
EXTENDS Integers, FiniteSets, Sequences

Term(is, at, n) == [is |-> is, at |-> at, n |-> n]

Literal(n) == Term("literal", "", n)

ParamAt(at) == Term("i", at, 0)

ElementAt(at, n) == Term("element", at, n)

Local == Term("k", "After", 0)

NewPointer == Term("new", "", 0)

AllZero == Term("all zero", "Old", 0)  \* \forall j; 0 <= j < 2 ==> p[j] == 0

Itself == Term("itself", "Old", 0)     \* as a value: what the address had at the start

Unknown == Term("unknown", "", 0)

None == Term("none", "", 0)

(* An address: base + off, a range if len is there, a field of *s.         *)
Address(base, off, len, field) == [base |-> base, off |-> off, len |-> len, field |-> field]

At(base, off) == Address(base, off, None, FALSE)

(* What a path holds for an address; a struct entry holds a structure      *)
(* whose field has the value val.                                          *)
Entry(addr, val, struct) == [addr |-> addr, val |-> val, struct |-> struct]

(* MemoryModel::flat: the entries, and behind a structure its fields.      *)
Flat(path) ==
  path.memory
    \cup {Entry([e.addr EXCEPT !.field = TRUE], e.val, FALSE) : e \in {f \in path.memory : f.struct}}

-----------------------------------------------------------------------------
(* Text of a term: with noStateLabelFunctionAt no \at is printed, whatever *)
(* the point of a symbol is.                                               *)

Printed(t) == [t EXCEPT !.at = ""]

HasText(t) == t \notin {Unknown, NewPointer}

HasOffsetText(addr) == HasText(addr.off) /\ HasText(addr.len)

TextOf(addr) == [addr EXCEPT !.off = Printed(addr.off), !.len = Printed(addr.len)]

(* referencesNonContractVisibleLocals *)
MentionsLocal(t) == t = Local

AddressMentionsLocal(addr) ==
  addr.base = "arr" \/ MentionsLocal(addr.off) \/ MentionsLocal(addr.len)

(* getACSLOfValue fails with HeapAddress for what malloc returned. *)
HasName(addr) == addr.base # "new" /\ HasOffsetText(addr)

(* The text contains \at(.., After_CompoundStmt_..): never, since \at is   *)
(* not printed for an address.                                             *)
hasDisallowedFunctionContractLabel(text) == "After" \in {text.off.at, text.len.at}

(* prePath->getVarAddr() has the parameters. *)
HasParamRoot(addr) == addr.base \in {"p", "s"}

isSymbolAddress(addr) == ~addr.field

(* Mutant: any value that is a symbol of the start counts as unchanged. *)
isUnchangedBySymbol(e) ==
  e.addr.len = None /\ e.val.is = "element" /\ e.val.at = "Old"

(* Path::isUnchanged: a range never is; the state before the function has  *)
(* no entries but the parameters.                                          *)
isUnchanged(e) ==
  /\ e.addr.len = None
  /\ \/ e.val = Itself
     \/ e.addr = At("p", Literal(e.val.n)) /\ e.val = ElementAt("Old", e.val.n)

-----------------------------------------------------------------------------
(* An assigns clause: nothing, everything or some locations.               *)

Clause(kind, locations) == [kind |-> kind, locations |-> locations]

(* What is behind the returned pointer is written \result[..].             *)
HasResultName(addr, returned) == returned /\ addr.base = "new" /\ HasOffsetText(addr)

(* One location of a clause per changed address, unless it has no text;    *)
(* \everything only if no location is left.                                *)
AssignsOf(changed, returned) ==
  LET kept == {addr \in changed :
                 /\ ~AddressMentionsLocal(addr)
                 /\ HasName(addr) \/ HasResultName(addr, returned)
                 /\ ~hasDisallowedFunctionContractLabel(TextOf(addr))}
  IN  IF kept # {} THEN Clause("some", {TextOf(addr) : addr \in kept})
      ELSE Clause(IF changed = {} THEN "nothing" ELSE "everything", {})

(* TopAssignsPlugin::generate, of all paths.                               *)
TopAssigns(paths) ==
  AssignsOf({e.addr : e \in {f \in UNION {Flat(path) : path \in paths} :
                               /\ HasParamRoot(f.addr)
                               /\ isSymbolAddress(f.addr)
                               /\ ~f.struct
                               /\ ~isUnchanged(f)}}, FALSE)

-----------------------------------------------------------------------------
(* A behavior.                                                             *)

ReturnsNew(path) == path.result = NewPointer

(* The entries that the behavior of path speaks of: behind a parameter, or *)
(* behind the pointer that is returned.                                    *)
Described(path) ==
  {e \in Flat(path) : IF HasParamRoot(e.addr) THEN isSymbolAddress(e.addr)
                      ELSE e.addr.base = "new" /\ isSymbolAddress(e.addr) /\ ReturnsNew(path)}

BehaviorAssigns(path) ==
  AssignsOf({e.addr : e \in {f \in Described(path) : ~f.struct /\ ~isUnchanged(f)}},
            ReturnsNew(path))

Ensures(left, right) == [left |-> left, right |-> Printed(right)]

Result == Address("result", None, None, FALSE)

ResultField == Address("result", None, None, TRUE)

HasResultText(path) ==
  path.result # None /\ ~MentionsLocal(path.result) /\ HasText(path.result)

(* The scalar that is returned, or the field of the structure.             *)
EnsuresResult(path) ==
  IF HasResultText(path) /\ ~path.returnsStruct THEN {Ensures(Result, path.result)} ELSE {}

EnsuresResultField(path) ==
  IF HasResultText(path) /\ path.returnsStruct THEN {Ensures(ResultField, path.result)} ELSE {}

(* A structure behind the returned pointer gives one clause per field, one *)
(* behind a parameter gives none.                                          *)
EnsuresMemory(path) ==
  {Ensures(IF e.struct THEN [e.addr EXCEPT !.field = TRUE] ELSE TextOf(e.addr), e.val) :
     e \in {f \in Described(path) :
              /\ f.struct => f.addr.base = "new"
              /\ ~AddressMentionsLocal(f.addr) /\ ~MentionsLocal(f.val)
              /\ HasOffsetText(f.addr) /\ HasText(f.val)}}

(* joinConj: the conditions with a text that needs no label.               *)
Expressible(conditions) ==
  {c \in conditions : c.term # Unknown /\ ~MentionsLocal(c.term) /\ c.term.at # "After"}

Assumes(path) == {c \in Expressible(path.conditions) : c.term = AllZero}

(* Mutant: a condition over a later point is printed like one of the start. *)
RequiresUnlabelled(path) ==
  {[c EXCEPT !.term.at = "Old"] :
     c \in {d \in path.conditions : d.term \notin {Unknown, AllZero} /\ ~MentionsLocal(d.term)}}

Requires(path) == {c \in Expressible(path.conditions) : c.term # AllZero}

Behavior(path) ==
  [assumes |-> Assumes(path), requires |-> Requires(path),
   assigns |-> BehaviorAssigns(path),
   ensures |-> EnsuresResult(path) \cup EnsuresMemory(path) \cup EnsuresResultField(path)]

SaysNothing(b) ==
  b.ensures = {} /\ b.assumes = {} /\ b.requires = {} /\ b.assigns.kind = "nothing"

(* DetailBehaviorPlugin::generate; equal behaviors are written once.       *)
Behaviors(paths) ==
  {b \in {Behavior(path) : path \in {q \in paths : q.state = "Return"}} : ~SaysNothing(b)}

emitFunctionContract(paths) ==
  [assigns |-> TopAssigns(paths), behaviors |-> Behaviors(paths)]
=============================================================================

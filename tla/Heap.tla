-------------------------------- MODULE Heap --------------------------------
(***************************************************************************)
(* The memory of one Path (src/src/Analyzer/state.cpp): variables, the     *)
(* constant and the symbolic ranges behind every base address, the object  *)
(* extents, the access conditions, and what the evaluator does to them for *)
(* an element read or write, a pointer sum, an address, BSL_SAL_Malloc,    *)
(* BSL_SAL_Calloc, BSL_SAL_Free, memcpy, memset_s and an inlined call.     *)
(*                                                                         *)
(* The analysed code has int elements, pointer variables p and q           *)
(* (parameters), r (a local, at first the local array arr), int variables  *)
(* x and y, and the parameters i and n, which nothing assigns.             *)
(***************************************************************************)
EXTENDS Integers, FiniteSets, SequencesExt

CONSTANTS
  N,      \* the constant offsets are below N
  Sites   \* the allocation calls of the code

(* "any" is the base of the addresses that are fabricated for pointers of  *)
(* an unknown value; all such pointers share it.                           *)
Bases == {"p", "q", "arr", "any"} \cup Sites

PtrVars == {"p", "q", "r"}

Vars == PtrVars \cup {"x", "y"}

Indices == 0 .. N - 1

Ranges == INSTANCE MemoryModel
            WITH Expr <- {}, Lengths <- {1}, cmap <- {}, phase <- "idle", todo <- {}, out <- {}

-----------------------------------------------------------------------------
(* Offsets, lengths and extents: the simplified sums of i, n and a literal.*)

Lin(i, n, k) == [i |-> i, n |-> n, k |-> k]

Num(k) == Lin(0, 0, k)

Plus(a, b) == Lin(a.i + b.i, a.n + b.n, a.k + b.k)

IsConst(a) == a.i = 0 /\ a.n = 0

NoLength == Num(0)

(* Values: a literal, the value that a cell had at the start, an address   *)
(* (of a cell or of a variable), or Unknown.  In the value of a range, idx *)
(* says that the offset still has the range index added.                   *)
Value(is, base, off, idx) == [is |-> is, base |-> base, off |-> off, idx |-> idx]

Literal(k) == Value("lit", "", Num(k), FALSE)

Symbol(base, off) == Value("sym", base, off, FALSE)

Address(base, off) == Value("ptr", base, off, FALSE)

VarAddress(v) == Value("var", v, Num(0), FALSE)

Unknown == Value("unk", "", Num(0), FALSE)

NoAddress == Value("none", "", Num(0), FALSE)

-----------------------------------------------------------------------------
(* MemoryModel over several bases.                                         *)

(* read of a single cell, {} when the model has no entry for it. *)
Read(path, base, off) ==
  IF IsConst(off)
  THEN Ranges!Read(path.con[base], off.k)
  ELSE {e.val : e \in {f \in path.sym[base] : f.off = off /\ f.len = NoLength}}

(* substituteRangeIndex on the value of a constant range: cell c reads the *)
(* stored value at the offset c of the object, wherever the range begins.  *)
PerCell(val) ==
  [c \in Indices |-> IF val.idx THEN Symbol(val.base, Plus(val.off, Num(c))) ELSE val]

Assigned(entries, off, len, val) ==
  {e \in entries : ~(e.off = off /\ e.len = len)} \cup {[off |-> off, len |-> len, val |-> val]}

(* writeCanonical; len is NoLength for a single cell. *)
Write(path, base, off, len, val) ==
  LET count == IF len = NoLength THEN 1 ELSE len.k
  IN  IF IsConst(off) /\ IsConst(len)
      THEN [path EXCEPT !.con[base] = Ranges!Write(@, off.k, off.k + count, PerCell(val))]
      ELSE [path EXCEPT !.sym[base] =
              Assigned(@, off, IF len = Num(1) THEN NoLength ELSE len, val)]

SetObjectExtent(path, base, extent) == [path EXCEPT !.ext[base] = {extent}]

(* Mutant: a released object keeps its extent. *)
KeepObjectExtent(path, base) == path

EraseObjectExtent(path, base) == [path EXCEPT !.ext[base] = {}]

IntersectObjectExtents(a, b) == [base \in Bases |-> a.ext[base] \cap b.ext[base]]

(* mergeConstantRanges, the entries of one base visited in order. *)
MergeConstantRanges(entries) ==
  FoldLeft(LAMBDA done, lo : FoldLeft(Ranges!PushOrMerge, done,
                                      SetToSeq({e \in entries : e.lo = lo})),
           {}, [j \in 1 .. N |-> j - 1])

(* mergeSymbolicRanges: an entry takes in the one that starts where it     *)
(* ends and stores an equal value.                                         *)
Width(e) == IF e.len = NoLength THEN Num(1) ELSE e.len

Successors(entries, e) ==
  {f \in entries : f # e /\ f.val = e.val /\ f.off = Plus(e.off, Width(e))}

(* Two candidates for one place: the program aborts. *)
IsAmbiguous(entries) == \E e \in entries : Cardinality(Successors(entries, e)) > 1

Joined(entries, e, f) ==
  (entries \ {e, f}) \cup {[e EXCEPT !.len = Plus(Width(e), Width(f))]}

(* Each round joins one pair, and there are fewer pairs than entries. *)
MergeSymbolicRanges(entries) ==
  FoldLeft(LAMBDA S, round :
             LET pairs == {p \in S \X S : p[2] \in Successors(S, p[1])}
             IN  IF pairs = {} THEN S
                 ELSE LET p == CHOOSE p \in pairs : TRUE IN Joined(S, p[1], p[2]),
           entries, [j \in 1 .. Cardinality(entries) |-> j])

(* mergeRanges, at the end of every statement. *)
MergeRanges(path) ==
  [path EXCEPT !.con = [b \in Bases |-> MergeConstantRanges(path.con[b])],
               !.sym = [b \in Bases |-> MergeSymbolicRanges(path.sym[b])]]

-----------------------------------------------------------------------------
(* Path: addresses and access conditions.                                  *)

InitPath ==
  [var     |-> [v \in Vars |-> IF v \in {"p", "q"} THEN Address(v, Num(0))
                               ELSE IF v = "r" THEN Address("arr", Num(0))
                               ELSE Symbol(v, Num(0))],
   con     |-> [b \in Bases |-> {}],
   sym     |-> [b \in Bases |-> {}],
   ext     |-> [b \in Bases |-> IF b = "arr" THEN {Num(2)} ELSE {}],
   must    |-> {},
   unknown |-> FALSE]

(* The evaluation of a pointer variable: NULL stays the literal 0, a value *)
(* that is no address becomes a fabricated one.                            *)
PointerOf(path, v) ==
  IF path.var[v] = Unknown THEN Address("any", Num(0)) ELSE path.var[v]

(* evaluatedAddress of the value plus an offset. *)
Moved(val, d) ==
  CASE val.is = "ptr" -> Address(val.base, Plus(val.off, d))
    [] val.is = "var" /\ d = Num(0) -> val
    [] OTHER -> NoAddress

(* Mutant: an access may be one past the end. *)
RecordOnePast(path, addr, allowOnePast) ==
  IF addr.is # "ptr" \/ path.ext[addr.base] = {}
  THEN [path EXCEPT !.unknown = TRUE]
  ELSE [path EXCEPT !.must = @ \cup {[off |-> addr.off, ext |-> e, onePast |-> TRUE] :
                                       e \in path.ext[addr.base]}]

(* recordAddressBounds: 0 <= off < extent, or 0 <= off <= extent. *)
RecordAddressBounds(path, addr, allowOnePast) ==
  IF addr.is # "ptr" \/ path.ext[addr.base] = {}
  THEN [path EXCEPT !.unknown = TRUE]
  ELSE [path EXCEPT !.must = @ \cup {[off |-> addr.off, ext |-> e, onePast |-> allowOnePast] :
                                       e \in path.ext[addr.base]}]

(* The evaluation of *e and e[d]: a cell the model does not know is        *)
(* written as the symbol of its initial value.                             *)
Dereference(path, addr) ==
  LET after == RecordAddressBounds(path, addr, FALSE)
  IN  CASE addr.is = "ptr" ->
             (CASE Read(path, addr.base, addr.off) = {} ->
                     [path |-> Write(after, addr.base, addr.off, NoLength, Symbol(addr.base, addr.off)),
                      val  |-> Symbol(addr.base, addr.off)]
                [] OTHER -> [path |-> after,
                             val |-> CHOOSE val \in Read(path, addr.base, addr.off) : TRUE])
        [] addr.is = "var" -> [path |-> after, val |-> path.var[addr.base]]
        [] OTHER -> [path |-> after, val |-> Unknown]

(* extractLValue and updateMemory: the symbol that extractLValue enters    *)
(* for an unknown cell is overwritten at once.  Through a value that is no *)
(* address the write goes to the first cell of the fabricated base.        *)
Store(path, addr, val) ==
  LET after == RecordAddressBounds(path, addr, FALSE)
  IN  CASE addr.is = "ptr" -> Write(after, addr.base, addr.off, NoLength, val)
        [] addr.is = "var" -> [after EXCEPT !.var[addr.base] = val]
        [] OTHER -> Write(after, "any", Num(0), NoLength, val)

SetVar(path, v, val) == [path EXCEPT !.var[v] = val]

-----------------------------------------------------------------------------
(* What one statement of the analysed code does to a Path: the cases of    *)
(* Path::evalExpr for memory, the library calls it models, the inlined     *)
(* call, and Path::mergeWith.  A statement is a record; its fields are     *)
(* those of the constructors below.                                        *)

Stmt(op, v, w, d, size) == [op |-> op, v |-> v, w |-> w, d |-> d, size |-> size]

(* Sizes of an allocation: a literal 0, a whole number of elements, or a   *)
(* byte count that no number of elements matches.                          *)
ZeroSize == [whole |-> TRUE, count |-> Num(0)]

Elements(l) == [whole |-> TRUE, count |-> l]

OddBytes(l) == [whole |-> FALSE, count |-> l]

LoadStmt(v, d)         == Stmt("load", v, "x", d, ZeroSize)             \* x = v[d]
StoreStmt(v, d, w)     == Stmt("store", v, w, d, ZeroSize)              \* v[d] = w
MallocStmt(s, size)    == Stmt("malloc", s, "r", Num(0), size)          \* r = malloc(size)
CallocStmt(s, size)    == Stmt("calloc", s, "r", Num(0), size)          \* r = calloc(size)
FreeStmt(v)            == Stmt("free", v, "", Num(0), ZeroSize)         \* free(v)
MemcpyStmt(v, d, w, l) == Stmt("memcpy", v, w, d, Elements(l))          \* memcpy(v + d, w, l)
MemsetStmt(v, d, l)    == Stmt("memset", v, "", d, Elements(l))         \* memset_s(v + d, .., 0, l)
ArithStmt(v, d)        == Stmt("arith", v, "r", d, ZeroSize)            \* r = v + d
CopyStmt(v, w)         == Stmt("copy", v, w, Num(0), ZeroSize)          \* v = w
AddrOfStmt             == Stmt("addrof", "y", "r", Num(0), ZeroSize)    \* r = &y
CallStmt(v, w)         == Stmt("call", v, w, Num(0), ZeroSize)          \* x = put(v, w)

Allocations == {"malloc", "calloc"}

-----------------------------------------------------------------------------
(* The value of an int operand: the literal 1, or a variable. *)
OperandOf(path, w) == IF w = "one" THEN Literal(1) ELSE path.var[w]

Load(path, stmt) ==
  LET got == Dereference(path, Moved(PointerOf(path, stmt.v), stmt.d))
  IN  SetVar(got.path, "x", got.val)

StoreThrough(path, stmt) ==
  Store(path, Moved(PointerOf(path, stmt.v), stmt.d), OperandOf(path, stmt.w))

(* BSL_SAL_Malloc: the address is named after the point behind the call.   *)
Malloc(path, stmt) ==
  IF stmt.size = ZeroSize
  THEN SetVar(path, "r", Literal(0))
  ELSE SetVar(IF stmt.size.whole THEN SetObjectExtent(path, stmt.v, stmt.size.count) ELSE path,
              "r", Address(stmt.v, Num(0)))

(* BSL_SAL_Calloc of a scalar type: the first element is written Unknown.  *)
Calloc(path, stmt) ==
  SetVar(Write(SetObjectExtent(path, stmt.v, stmt.size.count), stmt.v, Num(0), NoLength, Unknown),
         "r", Address(stmt.v, Num(0)))

(* BSL_SAL_Free: a known object, at its first element, or NULL. *)
Free(path, stmt) ==
  LET val == PointerOf(path, stmt.v)
  IN  CASE val = Literal(0) -> path
        [] val.is = "ptr" /\ val.off = Num(0) /\ path.ext[val.base] # {} ->
             Write(EraseObjectExtent(path, val.base), val.base, Num(0), NoLength, Unknown)
        [] OTHER -> [path EXCEPT !.unknown = TRUE]

(* Pointer addition, with the bounds of the new address; a sum with a      *)
(* value that is no address is no address either.                          *)
Arith(path, stmt) ==
  LET addr == Moved(PointerOf(path, stmt.v), stmt.d)
  IN  SetVar(RecordAddressBounds(path, addr, TRUE), "r",
             IF addr.is = "ptr" THEN addr ELSE Unknown)

(* memcpy: the destination range holds the symbols of the source cells at  *)
(* the start point, indexed by the range index.  No bounds are recorded.   *)
Memcpy(path, stmt) ==
  LET to   == Moved(PointerOf(path, stmt.v), stmt.d)
      from == PointerOf(path, stmt.w)
  IN  IF stmt.size = ZeroSize THEN path
      ELSE Write(path, to.base, to.off, stmt.size.count, Value("sym", from.base, from.off, TRUE))

(* memset_s: the destination range becomes Unknown; no bounds either.      *)
Memset(path, stmt) ==
  LET to == Moved(PointerOf(path, stmt.v), stmt.d)
  IN  CASE path.var[stmt.v] = Literal(0) \/ stmt.size = ZeroSize -> path
        [] OTHER -> Write(path, to.base, to.off, stmt.size.count, Unknown)

(* After an inlined call every variable of the snapshot, which was taken   *)
(* before the call, gets its value back.                                   *)
RestoreCaller(path, snapshot) == [path EXCEPT !.var = snapshot.var]

(* The inlined call x = put(v, w) of                                       *)
(*   int put(int *a, int k) { *a = k; return *a; }                         *)
(* bindParams, the two statements of the body, the caller's variables.     *)
Call(path, stmt) ==
  LET a        == Moved(PointerOf(path, stmt.v), Num(0))
      returned == Dereference(MergeRanges(Store(path, a, OperandOf(path, stmt.w))), a)
  IN  SetVar(RestoreCaller(MergeRanges(returned.path), path), "x", returned.val)

(* What aborts the program: a negative constant offset, a library call or  *)
(* a pointer parameter without an address, an index of a variable's        *)
(* address.                                                                *)
Aborts(path, stmt) ==
  LET val  == IF stmt.v \in PtrVars THEN PointerOf(path, stmt.v) ELSE NoAddress
      addr == Moved(val, stmt.d)
  IN  \/ /\ stmt.op \in {"load", "store", "memcpy", "memset", "call"}
         /\ addr.is = "ptr" /\ IsConst(addr.off) /\ addr.off.k < 0
      \/ val.is = "var" /\ stmt.d # Num(0)
      \/ stmt.op \in {"memcpy", "memset"} /\ val.is # "ptr" /\ val # Literal(0)
      \/ stmt.op = "memcpy" /\ (val.is # "ptr" \/ PointerOf(path, stmt.w).is # "ptr")
      \/ stmt.op = "call" /\ val.is \notin {"ptr", "var"}

Evaluated(path, stmt) ==
  CASE stmt.op = "load"   -> Load(path, stmt)
    [] stmt.op = "store"  -> StoreThrough(path, stmt)
    [] stmt.op = "malloc" -> Malloc(path, stmt)
    [] stmt.op = "calloc" -> Calloc(path, stmt)
    [] stmt.op = "free"   -> Free(path, stmt)
    [] stmt.op = "memcpy" -> Memcpy(path, stmt)
    [] stmt.op = "memset" -> Memset(path, stmt)
    [] stmt.op = "arith"  -> Arith(path, stmt)
    [] stmt.op = "copy"   -> SetVar(path, stmt.v, PointerOf(path, stmt.w))
    [] stmt.op = "addrof" -> SetVar(path, "r", VarAddress("y"))
    [] stmt.op = "call"   -> Call(path, stmt)

-----------------------------------------------------------------------------
(* Path::mergeWith.  The entries of flat(), a cell or a range each.        *)

Key(base, off, len) == [base |-> base, off |-> off, len |-> len]

Flat(path) ==
  UNION {{Key(b, Num(e.lo), IF e.hi = e.lo + 1 THEN NoLength ELSE Num(e.hi - e.lo)) : e \in path.con[b]}
         \cup {Key(b, e.off, e.len) : e \in path.sym[b]} : b \in Bases}

(* read of a whole entry; a constant range of several cells aborts. *)
ReadKey(path, key) ==
  IF IsConst(key.off) /\ IsConst(key.len)
  THEN Ranges!Read(path.con[key.base], key.off.k)
  ELSE {e.val : e \in {f \in path.sym[key.base] : f.off = key.off /\ f.len = key.len}}

HasWideRange(path) == \E key \in Flat(path) : IsConst(key.off) /\ IsConst(key.len) /\ key.len.k > 1

(* Mutant: a cell that only this path wrote keeps its value. *)
DiffersBothKnown(this, other, key) ==
  /\ ReadKey(this, key) # ReadKey(other, key)
  /\ ReadKey(other, key) # {}
  /\ ReadKey(this, key) \cup ReadKey(other, key) # {Symbol(key.base, key.off)}

(* The two paths disagree, and not just because one of them has only read  *)
(* the cell.                                                               *)
Differs(this, other, key) ==
  /\ ReadKey(this, key) # ReadKey(other, key)
  /\ ReadKey(this, key) \cup ReadKey(other, key) # {Symbol(key.base, key.off)}

MergeWith(this, other) ==
  LET keys    == {key \in Flat(this) \cup Flat(other) : Differs(this, other, key)}
      blurred == FoldLeft(LAMBDA path, key : Write(path, key.base, key.off, key.len, Unknown),
                          this, SetToSeq(keys))
  IN  [blurred EXCEPT
         !.var     = [v \in Vars |-> IF this.var[v] = other.var[v] THEN this.var[v] ELSE Unknown],
         !.ext     = IntersectObjectExtents(this, other),
         !.must    = @ \cup other.must,
         !.unknown = @ \/ other.unknown]
=============================================================================

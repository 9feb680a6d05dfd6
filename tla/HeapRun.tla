------------------------------ MODULE HeapRun ------------------------------
(***************************************************************************)
(* A function with pointers, analysed and executed: each step takes the    *)
(* next statement, evaluates it on the Path and executes it in a C machine *)
(* with objects, so that a property can compare what the path says with    *)
(* what the machine did.  One if statement may fork the path; loopInfo     *)
(* merges the two branches with mergeWith.                                 *)
(***************************************************************************)
EXTENDS Heap

CONSTANTS
  Code,     \* the statements the function may consist of
  MaxStmts, \* bound on the number of statements
  MaxForks, \* bound on the number of if statements
  Entries   \* how the function may be entered: i, n and the cell q points to

VARIABLES
  path,   \* the path being extended
  saved,  \* {}, or the other path of the if statement
  branch, \* "", or the branch of the if statement being analysed
  taken,  \* the branch the machine takes
  entry,  \* the entry of the machine
  run,    \* the state of the machine
  used,   \* the keys by which statements have accessed the memory model
  seen,   \* the situations of Caveats that have occurred
  steps,  \* statements so far
  forks   \* if statements so far

vars == <<path, saved, branch, taken, entry, run, used, seen, steps, forks>>

-----------------------------------------------------------------------------
(* The machine.  An object has cells 0 .. size - 1; P and Q are the arrays *)
(* of the caller, H1 and H2 come from the allocator.                       *)

HeapObjects == <<"H1", "H2">>

Objects == {"P", "Q", "ARR", "Y", "H1", "H2"}

Eval(l) == l.i * entry.i + l.n * entry.n + l.k

At(obj, k) == Address(obj, Num(k))

Initial(obj, k) == Symbol(obj, Num(k))

InitRun(e) ==
  [var   |-> [v \in PtrVars \cup {"x"} |->
                CASE v = "p" -> At("P", 0)
                  [] v = "q" -> At(e.q[1], e.q[2])
                  [] v = "r" -> At("ARR", 0)
                  [] v = "x" -> Initial("X", 0)],
   cells |-> [o \in Objects |-> [k \in Indices |-> Initial(o, k)]],
   born  |-> [o \in Objects |-> [k \in Indices |-> Initial(o, k)]],
   size  |-> [o \in Objects |-> CASE o = "P" -> 3 [] o = "Y" -> 1 [] OTHER -> 2],
   live  |-> {"P", "Q", "ARR", "Y"},
   names |-> [b \in Bases |-> CASE b = "p" -> {At("P", 0)}
                                [] b = "q" -> {At(e.q[1], e.q[2])}
                                [] b = "arr" -> {At("ARR", 0)}
                                [] OTHER -> {}],
   fresh |-> 1,
   end   |-> ""]

(* NULL, as the result of an allocation that has failed.  Of Literal(0),   *)
(* the NULL that malloc(0) returns, the analysis knows that it is NULL.    *)
FailedAllocation == Value("null", "", Num(0), FALSE)

(* The cell l places behind the pointer. *)
CellAt(ptr, l) ==
  CASE ptr.is = "ptr" -> At(ptr.base, ptr.off.k + Eval(l))
    [] ptr = FailedAllocation -> ptr
    [] OTHER -> NoAddress

InBounds(m, cell) ==
  cell.is = "ptr" /\ cell.base \in m.live /\ cell.off.k \in 0 .. m.size[cell.base] - 1

Content(m, cell) == m.cells[cell.base][cell.off.k]

Put(m, cell, val) == [m EXCEPT !.cells[cell.base][cell.off.k] = val]

(* Undefined behaviour ends the run. *)
End(m, how) == [m EXCEPT !.end = how]

OperandIn(m, w) == IF w = "one" THEN Literal(1) ELSE m.var[w]

(* The machines an allocation may lead to.  There is a new object, of      *)
(* which the cells of calloc are zero, or the result is NULL.  The         *)
(* addresses that the path names after the call site now mean the result.  *)
Allocate(m, stmt) ==
  LET o     == HeapObjects[m.fresh]
      cells == [k \in Indices |-> IF stmt.op = "calloc" THEN Literal(0) ELSE Initial(o, k)]
  IN  IF stmt.op = "malloc" /\ stmt.size = ZeroSize THEN {[m EXCEPT !.var["r"] = Literal(0)]}
      ELSE {[m EXCEPT !.live = @ \cup {o},
                      !.fresh = @ + 1,
                      !.size[o] = Eval(stmt.size.count),
                      !.cells[o] = cells,
                      !.born[o] = cells,
                      !.names[stmt.v] = {At(o, 0)},
                      !.var["r"] = At(o, 0)],
            [m EXCEPT !.names[stmt.v] = {FailedAllocation}, !.var["r"] = FailedAllocation]}

Release(m, ptr) ==
  CASE ptr \in {Literal(0), FailedAllocation} -> m
    [] ptr.is = "ptr" /\ ptr.off.k = 0 /\ ptr.base \in m.live \cap Range(HeapObjects) ->
         [m EXCEPT !.live = @ \ {ptr.base}]
    [] OTHER -> End(m, IF ptr.base = "ARR" THEN "free of an array" ELSE "free")

(* The cells of a memcpy or a memset_s. *)
Block(ptr, d, count) == {CellAt(ptr, Plus(d, Num(j))) : j \in 0 .. Eval(count) - 1}

CopyBlock(m, stmt) ==
  LET to   == Block(m.var[stmt.v], stmt.d, stmt.size.count)
      from == Block(m.var[stmt.w], Num(0), stmt.size.count)
  IN  IF (\A c \in to \cup from : InBounds(m, c)) /\ to \cap from = {}
      THEN FoldLeft(LAMBDA done, j : Put(done, CellAt(m.var[stmt.v], Plus(stmt.d, Num(j))),
                                         Content(m, CellAt(m.var[stmt.w], Num(j)))),
                    m, [j \in 1 .. Eval(stmt.size.count) |-> j - 1])
      ELSE End(m, IF FailedAllocation \in to \cup from THEN "null" ELSE "block")

(* memset_s refuses NULL. *)
ClearBlock(m, stmt) ==
  LET to == Block(m.var[stmt.v], stmt.d, stmt.size.count)
  IN  CASE m.var[stmt.v] \in {Literal(0), FailedAllocation} /\ stmt.d = Num(0) -> m
        [] \A c \in to : InBounds(m, c) ->
             [m EXCEPT !.cells = [o \in Objects |-> [k \in Indices |->
                                    IF At(o, k) \in to THEN Literal(0) ELSE m.cells[o][k]]]]
        [] OTHER -> End(m, IF FailedAllocation \in to THEN "null" ELSE "block")

Sum(m, stmt) ==
  LET addr == CellAt(m.var[stmt.v], stmt.d)
  IN  IF addr.is = "ptr" /\ addr.base \in m.live /\ addr.off.k \in 0 .. m.size[addr.base]
      THEN [m EXCEPT !.var["r"] = addr]
      ELSE End(m, IF addr = FailedAllocation THEN "null" ELSE "sum")

Execute(m, stmt) ==
  LET cell == IF stmt.v \in PtrVars THEN CellAt(m.var[stmt.v], stmt.d) ELSE NoAddress
  IN  CASE stmt.op \in {"load", "store", "call"} /\ ~InBounds(m, cell) ->
             End(m, CASE cell = FailedAllocation -> "null"
                      [] cell # FailedAllocation /\ cell.base \in m.live -> "access"
                      [] OTHER -> "use after free")
        [] stmt.op = "load"  /\ InBounds(m, cell) -> [m EXCEPT !.var["x"] = Content(m, cell)]
        [] stmt.op = "store" /\ InBounds(m, cell) -> Put(m, cell, OperandIn(m, stmt.w))
        [] stmt.op = "call"  /\ InBounds(m, cell) ->
             [Put(m, cell, OperandIn(m, stmt.w)) EXCEPT !.var["x"] = OperandIn(m, stmt.w)]
        [] stmt.op = "free"   -> Release(m, m.var[stmt.v])
        [] stmt.op = "memcpy" -> CopyBlock(m, stmt)
        [] stmt.op = "memset" -> ClearBlock(m, stmt)
        [] stmt.op = "arith"  -> Sum(m, stmt)
        [] stmt.op = "copy"   -> [m EXCEPT !.var[stmt.v] = m.var[stmt.w]]
        [] stmt.op = "addrof" -> [m EXCEPT !.var["r"] = At("Y", 0)]

Outcomes(m, stmt) ==
  IF stmt.op \in Allocations THEN Allocate(m, stmt) ELSE {Execute(m, stmt)}

-----------------------------------------------------------------------------
(* Situations in which the path is known not to describe the machine; the  *)
(* README says of each where it comes from in the code.                    *)

OnMachine == branch = "" \/ branch = taken

CaveatNames ==
  {"reuse", "stale copy", "shifted copy", "by reference", "merged range", "fabricated"}

(* The statement brings about the caveat c; after is the path behind it.   *)
Raises(stmt, after, c) ==
  CASE c = "reuse" ->         \* an allocation call runs for the second time
         stmt.op \in Allocations /\ OnMachine /\ run.names[stmt.v] # {}
    [] c = "stale copy" ->    \* memcpy from a cell that no longer holds its first value
         /\ stmt.op = "memcpy" /\ OnMachine
         /\ \E cell \in Block(run.var[stmt.w], Num(0), stmt.size.count) :
              InBounds(run, cell) /\ Content(run, cell) # run.born[cell.base][cell.off.k]
    [] c = "shifted copy" ->  \* memcpy to an offset other than 0
         stmt.op = "memcpy" /\ Moved(PointerOf(path, stmt.v), stmt.d).off # Num(0)
    [] c = "by reference" ->  \* a callee gets the address of a variable of the caller
         stmt.op = "call" /\ PointerOf(path, stmt.v).is = "var"
    [] c = "fabricated" ->    \* a write through a pointer whose address is fabricated
         /\ stmt.op \in {"store", "call", "memcpy", "memset"}
         /\ PointerOf(path, stmt.v).base = "any"
    [] c = "merged range" ->  \* mergeSymbolicRanges has joined two entries
         \E b \in Bases : \E e \in after.sym[b] : e.len.k > 0

(* The keys by which a statement accesses the memory model. *)
KeysOf(stmt) ==
  LET addr == IF stmt.v \in PtrVars THEN Moved(PointerOf(path, stmt.v), stmt.d) ELSE NoAddress
  IN  IF addr.is = "ptr" /\ stmt.op \in {"load", "store", "call", "free", "memcpy", "memset"}
      THEN {Key(addr.base, addr.off,
                IF stmt.op \in {"memcpy", "memset"} THEN stmt.size.count ELSE NoLength)}
      ELSE {}

-----------------------------------------------------------------------------
Init ==
  /\ path = InitPath
  /\ saved = {}
  /\ branch = ""
  /\ taken = ""
  /\ entry \in Entries
  /\ run = InitRun(entry)
  /\ used = {}
  /\ seen = {}
  /\ steps = 0
  /\ forks = 0

(* A statement whose evaluation does not abort.  The machine executes it   *)
(* unless it belongs to the branch not taken.                              *)
Step(stmt) ==
  /\ steps < MaxStmts
  /\ run.end = ""
  /\ stmt.op \in Allocations => run.fresh <= Len(HeapObjects)
  /\ ~Aborts(path, stmt)
  /\ \E raw \in {Evaluated(path, stmt)} :
       /\ \A b \in Bases : ~IsAmbiguous(raw.sym[b])
       /\ path' = MergeRanges(raw)
  /\ run' \in IF OnMachine THEN Outcomes(run, stmt) ELSE {run}
  /\ used' = used \cup KeysOf(stmt)
  /\ seen' = seen \cup {c \in CaveatNames : Raises(stmt, path', c)}
  /\ steps' = steps + 1
  /\ UNCHANGED <<saved, branch, taken, entry, forks>>

(* if (..) { *)
Fork ==
  /\ branch = ""
  /\ forks < MaxForks
  /\ steps < MaxStmts
  /\ saved' = {path}
  /\ branch' = "then"
  /\ taken' \in {"then", "else"}
  /\ forks' = forks + 1
  /\ UNCHANGED <<path, entry, run, used, seen, steps>>

(* } else { *)
Else ==
  /\ branch = "then"
  /\ branch' = "else"
  /\ path' \in saved
  /\ saved' = {path}
  /\ UNCHANGED <<taken, entry, run, used, seen, steps, forks>>

(* }, and the paths of the two branches are merged. *)
Join ==
  /\ branch = "else"
  /\ \E this \in saved :
       /\ ~HasWideRange(this) /\ ~HasWideRange(path)
       /\ path' = MergeWith(this, path)
  /\ saved' = {}
  /\ branch' = ""
  /\ taken' = ""
  /\ UNCHANGED <<entry, run, used, seen, steps, forks>>

Next ==
  \/ \E stmt \in Code : Step(stmt)
  \/ Fork
  \/ Else
  \/ Join

Spec == Init /\ [][Next]_vars

-----------------------------------------------------------------------------
(* What the values of a path mean on the machine. *)

(* The path that describes the machine. *)
PathOfRun == IF branch = "" \/ branch = taken THEN {path} ELSE saved

(* What an address of the path means; nothing if no object has been        *)
(* allocated there, NULL if the allocation has failed.                     *)
Named(base, off) == {CellAt(ptr, off) : ptr \in run.names[base]}

(* The cells among these. *)
Places(base, off) == {c \in Named(base, off) : c.is = "ptr"}

Meanings(val) ==
  CASE val.is = "lit" -> {val}
    [] val.is = "sym" /\ val.base \in Bases ->
         {run.born[c.base][c.off.k] : c \in {d \in Places(val.base, val.off) : d.off.k \in Indices}}
    [] val.is = "sym" /\ val.base = "x" -> {Initial("X", 0)}
    [] val.is = "sym" /\ val.base = "y" -> {Initial("Y", 0)}
    [] val.is = "ptr" -> Named(val.base, val.off)
    [] val.is = "var" -> {At("Y", 0)}
    [] OTHER -> {}

(* Unknown, and what comes from a fabricated address, claims nothing. *)
Describes(val, content) == val = Unknown \/ val.base = "any" \/ Meanings(val) = {content}

CellsOf(key) ==
  UNION {Places(key.base, Plus(key.off, Num(j))) :
           j \in 0 .. (IF key.len = NoLength THEN 1 ELSE Eval(key.len)) - 1}

(* The analysis keeps entries apart that it cannot compare: two bases, two *)
(* symbolic offsets, a symbolic and a constant one.  The machine does, too.*)
EntriesAreApart ==
  \A k1, k2 \in used :
    \/ k1 = k2
    \/ k1.base = k2.base /\ \A k \in {k1, k2} : IsConst(k.off) /\ IsConst(k.len)
    \/ CellsOf(k1) \cap CellsOf(k2) = {}

(* Whatever the statements and the way through the if statement, what the  *)
(* path says of the variables and of the cells it has an entry for is what *)
(* the machine holds, unless it says Unknown: as long as no two entries    *)
(* that the model keeps apart are the same cell, and no caveat applies.    *)
(* Every contract clause is printed from these values.                     *)
ReadsAsWritten ==
  run.end = "" /\ seen = {} /\ EntriesAreApart =>
    \A p \in PathOfRun :
      /\ \A v \in PtrVars \cup {"x"} : Describes(p.var[v], run.var[v])
      /\ Describes(p.var["y"], run.cells["Y"][0])
      /\ \A b \in Bases : \A e \in p.con[b] : \A k \in e.lo .. e.hi - 1 :
           \A c \in Places(b, Num(k)) : InBounds(run, c) => Describes(e.val[k], Content(run, c))
      /\ \A b \in Bases : \A e \in p.sym[b] : e.len = NoLength =>
           \A c \in Places(b, e.off) : InBounds(run, c) => Describes(e.val, Content(run, c))

Holds(cond) ==
  /\ 0 <= Eval(cond.off)
  /\ IF cond.onePast THEN Eval(cond.off) <= Eval(cond.ext) ELSE Eval(cond.off) < Eval(cond.ext)

(* The numerical invariants are only offered for paths whose accesses are  *)
(* all accounted for: when the path is not flagged and its access          *)
(* conditions hold on entry, the machine makes no access outside a live    *)
(* object, forms no pointer outside one and frees nothing twice.  Of three *)
(* things the code keeps no account, and the runs that end in them are not *)
(* meant here: what is done through the NULL of a failed allocation        *)
(* (NullAccessesAreFlagged), the cells of a memcpy or memset_s, for which  *)
(* no condition is left, and whether free gets an object of the allocator. *)
BoundsGuardAccesses ==
  run.end \in {"access", "use after free", "sum", "free"} /\ "reuse" \notin seen =>
    \A p \in PathOfRun : p.unknown \/ \E cond \in p.must : ~Holds(cond)

(* Unless the path is flagged, an extent is that of the live object its    *)
(* base names: allocating, freeing and merging keep the table of extents   *)
(* and the heap together, whichever branch freed the object.               *)
ExtentsAreExact ==
  "reuse" \notin seen =>
    \A p \in {q \in PathOfRun : ~q.unknown}, b \in Bases :
      \A ext \in p.ext[b], obj \in Places(b, Num(0)) :
        obj.base \in run.live /\ run.size[obj.base] = Eval(ext)

(* docs/numericalInvariantPrototypeGuide.md: reads and writes through NULL *)
(* flag the path (hasUnknownMemoryAccess).  The evaluator gives the result *)
(* of BSL_SAL_Malloc and BSL_SAL_Calloc an address and an extent as if the *)
(* call could not fail, so what an unchecked result is used for is neither *)
(* flagged nor bounded when it is NULL.                                    *)
NullAccessesAreFlagged == run.end = "null" => \A p \in PathOfRun : p.unknown
=============================================================================

---------------------------- MODULE MemoryModel ----------------------------
(***************************************************************************)
(* The constant-range map of acslg::analyzer::MemoryModel                  *)
(* (src/src/Analyzer/state.cpp): the std::map<ConstRange, StoredValue> of  *)
(* one base address.  An entry [lo, hi) holds one expression; reading cell *)
(* c of the entry substitutes c for the range index of that expression, so *)
(* an expression is the function from a cell to the value read there.      *)
(*                                                                         *)
(* The two loops over the map, mergeConstantRanges and copyEntriesFrom     *)
(* (the copy constructor behind Path::clone), run one entry per step.      *)
(***************************************************************************)
EXTENDS Naturals

CONSTANTS
  N,      \* the cells behind the base are 0 .. N-1
  Expr,   \* the expressions that may be stored
  Lengths \* the constant lengths of the writes the callers issue

ASSUME NAssumption == N \in Nat \ {0}
ASSUME LengthsAssumption == Lengths \subseteq Nat \ {0}

VARIABLES
  cmap,  \* the entries of memoryMap_constantRange_.at(base)
  phase, \* "idle", or the loop that is running: "merge" or "copy"
  todo,  \* the entries the running loop has still to visit
  out    \* the entries the running loop has produced

vars == <<cmap, phase, todo, out>>

Cell == 0 .. N - 1

Entry == [lo : 0 .. N, hi : 0 .. N, val : Expr]

-----------------------------------------------------------------------------
(* std::map<std::pair<uint64_t, uint64_t>, StoredValue>.                   *)

SameKey(r, s) == r.lo = s.lo /\ r.hi = s.hi

KeyLess(r, s) == r.lo < s.lo \/ (r.lo = s.lo /\ r.hi < s.hi)

(* insert_or_assign of the entries new. *)
Assign(m, new) == {r \in m : \A s \in new : ~SameKey(r, s)} \cup new

(* The entry before upper_bound({off, UINT64_MAX}); {} is end(). *)
FirstLE(m, off) ==
  {r \in m : r.lo <= off /\ \A s \in m : s.lo <= off => (s = r \/ KeyLess(s, r))}

(* upper_bound({off, UINT64_MAX}); {} is end(). *)
UpperBound(m, off) ==
  {r \in m : r.lo > off /\ \A s \in m : s.lo > off => (s = r \/ KeyLess(r, s))}

-----------------------------------------------------------------------------
(* Mutant: the end of a range is taken to belong to it. *)
ReadPastEnd(m, off) == {r.val[off] : r \in {q \in FirstLE(m, off) : q.hi >= off}}

(* MemoryModel::read of a single cell; {} is std::nullopt. *)
Read(m, off) == {r.val[off] : r \in {q \in FirstLE(m, off) : q.hi > off}}

(* What is left of the entries rs before lo, and from hi on. *)
LeftPart(rs, lo) ==
  {[lo |-> r.lo, hi |-> lo, val |-> r.val] : r \in {q \in rs : q.lo < lo}}

RightPart(rs, hi) ==
  {[lo |-> hi, hi |-> r.hi, val |-> r.val] : r \in {q \in rs : q.hi > hi}}

(* Mutant: the entry that starts inside the written range is forgotten. *)
WriteNoAbove(m, lo, hi, e) ==
  LET below == {r \in FirstLE(m, lo) : r.hi > lo}
      m1    == Assign(m, LeftPart(below, lo) \cup RightPart(below, hi)) \ below
  IN  Assign(m1, {[lo |-> lo, hi |-> hi, val |-> e]})

(* Mutant: an entry that ends where the write begins gives way, too. *)
WriteTouching(m, lo, hi, e) ==
  LET below == {r \in FirstLE(m, lo) : r.hi >= lo}
      above == {r \in UpperBound(m, lo) : r.lo < hi}
      m1    == Assign(m, LeftPart(below, lo) \cup RightPart(below, hi)) \ below
      m2    == Assign(m1, RightPart(above, hi)) \ above
  IN  Assign(m2, {[lo |-> lo, hi |-> hi, val |-> e]})

(* MemoryModel::writeCanonical for a constant range: the entry that starts *)
(* at or before lo and the first entry that starts after lo give way.      *)
Write(m, lo, hi, e) ==
  LET below == {r \in FirstLE(m, lo) : r.hi > lo}
      above == {r \in UpperBound(m, lo) : r.lo < hi}
      m1    == Assign(m, LeftPart(below, lo) \cup RightPart(below, hi)) \ below
      m2    == Assign(m1, RightPart(above, hi)) \ above
  IN  Assign(m2, {[lo |-> lo, hi |-> hi, val |-> e]})

(* The next entry of the running loop, in key order.  The merge sorts by   *)
(* offset alone; std::sort keeps the key order of the few entries of one   *)
(* offset, which only overlapping ranges have.                             *)
Least(m) == {r \in m : \A s \in m : s = r \/ KeyLess(r, s)}

Greatest(m) == {r \in m : \A s \in m : s = r \/ KeyLess(s, r)}

(* Mutant: adjacent ranges merge whatever they store. *)
PushOrMergeAny(m, cur) ==
  LET back == {p \in Greatest(m) : p.hi = cur.lo}
  IN  IF back = {}
      THEN m \cup {cur}
      ELSE (m \ back) \cup {[lo |-> p.lo, hi |-> cur.hi, val |-> p.val] : p \in back}

(* pushOrMerge of mergeConstantRanges: cur extends the last range produced *)
(* when it starts where that one ends and stores an equal expression.      *)
PushOrMerge(m, cur) ==
  LET back == {p \in Greatest(m) : p.hi = cur.lo /\ p.val = cur.val}
  IN  IF back = {}
      THEN m \cup {cur}
      ELSE (m \ back) \cup {[lo |-> p.lo, hi |-> cur.hi, val |-> p.val] : p \in back}

-----------------------------------------------------------------------------
Init ==
  /\ cmap = {}
  /\ phase = "idle"
  /\ todo = {}
  /\ out = {}

(* MemoryModel::write; a negative offset or an empty length aborts the     *)
(* program and is not a step.                                              *)
WriteRange(lo, len, e) ==
  /\ phase = "idle"
  /\ lo + len <= N
  /\ cmap' = Write(cmap, lo, lo + len, e)
  /\ UNCHANGED <<phase, todo, out>>

(* eraseExpiredLocals, when the base is rooted at a local that expires. *)
EraseExpiredLocals ==
  /\ phase = "idle"
  /\ cmap' = {}
  /\ UNCHANGED <<phase, todo, out>>

(* The entries move to a sorted vector (merge), or are visited through     *)
(* flat() in key order (copy).                                             *)
Begin(loop) ==
  /\ phase = "idle"
  /\ phase' = loop
  /\ todo' = cmap
  /\ out' = {}
  /\ UNCHANGED cmap

MergeStep ==
  /\ phase = "merge"
  /\ \E cur \in Least(todo) :
       /\ out' = PushOrMerge(out, cur)
       /\ todo' = todo \ {cur}
  /\ UNCHANGED <<cmap, phase>>

CopyStep ==
  /\ phase = "copy"
  /\ \E cur \in Least(todo) :
       /\ out' = Write(out, cur.lo, cur.hi, cur.val)
       /\ todo' = todo \ {cur}
  /\ UNCHANGED <<cmap, phase>>

(* The merged vector is written back; or execution goes on with the clone. *)
Finish ==
  /\ phase # "idle"
  /\ todo = {}
  /\ cmap' = out
  /\ out' = {}
  /\ phase' = "idle"
  /\ UNCHANGED todo

Next ==
  \/ \E lo \in Cell, len \in Lengths, e \in Expr : WriteRange(lo, len, e)
  \/ EraseExpiredLocals
  \/ \E loop \in {"merge", "copy"} : Begin(loop)
  \/ MergeStep
  \/ CopyStep
  \/ Finish

Spec == Init /\ [][Next]_vars

-----------------------------------------------------------------------------
(* Type correctness: the entries are ranges of the object, and the loops   *)
(* of mergeRanges and clone are not nested.                                *)
TypeOK ==
  /\ cmap \subseteq Entry
  /\ phase \in {"idle", "merge", "copy"}
  /\ todo \subseteq cmap
  /\ out \subseteq Entry
  /\ phase = "idle" => todo = {} /\ out = {}

Disjoint(m) == \A r, s \in m : r = s \/ r.hi <= s.lo \/ s.hi <= r.lo

NonEmpty(m) == \A r \in m : r.lo < r.hi

(* The values that the entries of m which include the cell c have for it.  *)
Held(m, c) == {r.val[c] : r \in {q \in m : q.lo <= c /\ c < q.hi}}

(* While mergeConstantRanges or the copy constructor runs, the entries it  *)
(* has produced and those it has still to visit read, cell by cell, as the *)
(* map it started from: neither loop may lose, widen or shadow a range.    *)
(* Ranges that overlap may trim each other, but never get a value that no  *)
(* entry had there.                                                        *)
LoopKeepsReads ==
  phase # "idle" =>
    \A c \in Cell :
      IF Disjoint(cmap) THEN Read(out \cup todo, c) = Read(cmap, c)
                        ELSE Held(out \cup todo, c) \subseteq Held(cmap, c)

(* A clone is the map it was made from, not merely one that reads alike:   *)
(* replaying the entries as writes must never trim one by another, unless  *)
(* they overlapped before.                                                 *)
CloneIsExact == Disjoint(cmap) /\ phase = "copy" /\ todo = {} => out = cmap

(* mergeConstantRanges leaves no two adjacent ranges with one value: what  *)
(* mergeRanges promises of every map that a finished step leaves behind.   *)
MergeIsMaximal ==
  Disjoint(cmap) /\ phase = "merge" /\ todo = {} =>
    \A r, s \in out : r.hi = s.lo => r.val # s.val

(* The ranges of m that start strictly inside lo .. hi - 1. *)
StartInside(m, lo, hi) == {r \in m : lo < r.lo /\ r.lo < hi}

AtMostOne(S) == \A r, s \in S : r = s

(* What a write of any length does to disjoint ranges, to the cell.  It    *)
(* sets the cells from lo up to the second range that starts inside the    *)
(* written one; that range and those behind it stay, and no other cell     *)
(* reads differently.  The ranges are disjoint afterwards if and only if   *)
(* there is no such second range: writeCanonical visits a single           *)
(* upper_bound entry.  So a write over three single cells breaks what      *)
(* state.h says of the map, "ConstRanges must be non-overlapping".         *)
WriteStopsAtSecond ==
  [][\A lo \in Cell, len \in Lengths, e \in Expr :
       WriteRange(lo, len, e) /\ Disjoint(cmap) =>
         /\ Disjoint(cmap') <=> AtMostOne(StartInside(cmap, lo, lo + len))
         /\ \A c \in Cell :
              Read(cmap', c) =
                IF lo <= c /\ c < lo + len /\ AtMostOne(StartInside(cmap, lo, c + 1))
                THEN {e[c]} ELSE Read(cmap, c)]_vars

(* The map implements an array of cells that knows when a write has not    *)
(* reached all its cells: until then a read returns the last write, and    *)
(* from then on only some write; merging and cloning never show before.    *)
Cells == INSTANCE CellMemory WITH cells <- [c \in Cell |-> Read(cmap, c)],
                                  held  <- [c \in Cell |-> Held(cmap, c)],
                                  exact <- Disjoint(cmap)

ImplementsCells == Cells!CellSpec
=============================================================================

------------------------- MODULE MemoryModelProofs -------------------------
(***************************************************************************)
(* Proofs about MemoryModel for an object of any size and any set of       *)
(* expressions.  The first part is about the operators read and write on   *)
(* maps of disjoint ranges; the second is the inductive invariant of the   *)
(* specification, and the refinement of CellMemory.                        *)
(***************************************************************************)
EXTENDS MemoryModel, SequenceLemmas

(* A map of disjoint, non-empty ranges of the object. *)
Good(m) == m \subseteq Entry /\ Disjoint(m) /\ NonEmpty(m)

Covering(m, c) == {r \in m : r.lo <= c /\ c < r.hi}

Hit(m, lo, hi) == {r \in m : r.lo < hi /\ lo < r.hi}

(* The entries' fields are natural numbers. *)
LEMMA EntryFields ==
  ASSUME NEW r \in Entry
  PROVE  r.lo \in Nat /\ r.hi \in Nat /\ r.lo <= N /\ r.hi <= N /\ r.val \in Expr
BY NAssumption DEF Entry

(* Two entries are equal when their fields are. *)
LEMMA EntryEqual ==
  ASSUME NEW r \in Entry, NEW s \in Entry, r.lo = s.lo, r.hi = s.hi, r.val = s.val
  PROVE  r = s
BY DEF Entry

(* An entry can be built from its fields. *)
LEMMA EntryBuilt ==
  ASSUME NEW lo \in Nat, NEW hi \in Nat, lo <= N, hi <= N, NEW e \in Expr
  PROVE  [lo |-> lo, hi |-> hi, val |-> e] \in Entry
BY NAssumption DEF Entry

(* In a good map the entry the search of read finds is the one that covers *)
(* the cell.                                                               *)
LEMMA SearchFindsCover ==
  ASSUME NEW m, Good(m), NEW c \in Nat
  PROVE  {q \in FirstLE(m, c) : q.hi > c} = Covering(m, c)
<1>1. ASSUME NEW q \in FirstLE(m, c), q.hi > c PROVE q \in Covering(m, c)
  <2>1. q \in m /\ q.lo <= c
    BY DEF FirstLE
  <2>2. q.hi \in Nat
    BY <2>1, EntryFields DEF Good
  <2> QED BY <1>1, <2>1, <2>2 DEF Covering
<1>2. ASSUME NEW q \in Covering(m, c) PROVE q \in FirstLE(m, c) /\ q.hi > c
  <2>1. q \in m /\ q.lo <= c /\ c < q.hi
    BY DEF Covering
  <2>2. q.lo \in Nat /\ q.hi \in Nat
    BY <2>1, EntryFields DEF Good
  <2>3. ASSUME NEW s \in m, s.lo <= c, s # q PROVE KeyLess(s, q)
    <3>1. s.lo \in Nat /\ s.hi \in Nat /\ s.lo < s.hi
      BY EntryFields DEF Good, NonEmpty
    <3>2. s.hi <= q.lo \/ q.hi <= s.lo
      BY <2>1, <2>3 DEF Good, Disjoint
    <3> QED BY <2>1, <2>2, <2>3, <3>1, <3>2 DEF KeyLess
  <2> QED BY <2>1, <2>2, <2>3 DEF FirstLE
<1> QED BY <1>1, <1>2

(* What a read of a good map returns. *)
LEMMA ReadCovering ==
  ASSUME NEW m, Good(m), NEW c \in Nat
  PROVE  Read(m, c) = {r.val[c] : r \in Covering(m, c)}
BY SearchFindsCover DEF Read

(* At most one entry covers a cell. *)
LEMMA CoverUnique ==
  ASSUME NEW m, Good(m), NEW c \in Nat,
         NEW r \in Covering(m, c), NEW s \in Covering(m, c)
  PROVE  r = s
<1>1. r \in m /\ s \in m /\ r.lo <= c /\ c < r.hi /\ s.lo <= c /\ c < s.hi
  BY DEF Covering
<1>2. r.lo \in Nat /\ r.hi \in Nat /\ s.lo \in Nat /\ s.hi \in Nat
  BY <1>1, EntryFields DEF Good
<1> QED BY <1>1, <1>2 DEF Good, Disjoint

(* Entries with the same values read alike. *)
LEMMA SameValues ==
  ASSUME NEW A, NEW B, NEW c,
         \A a \in A : \E b \in B : b.val = a.val,
         \A b \in B : \E a \in A : b.val = a.val
  PROVE  {b.val[c] : b \in B} = {a.val[c] : a \in A}
<1>1. ASSUME NEW v \in {b.val[c] : b \in B} PROVE v \in {a.val[c] : a \in A}
  <2>1. PICK b \in B : v = b.val[c]
    OBVIOUS
  <2>2. PICK a \in A : b.val = a.val
    OBVIOUS
  <2> QED BY <2>1, <2>2
<1>2. ASSUME NEW v \in {a.val[c] : a \in A} PROVE v \in {b.val[c] : b \in B}
  <2>1. PICK a \in A : v = a.val[c]
    OBVIOUS
  <2>2. PICK b \in B : b.val = a.val
    OBVIOUS
  <2> QED BY <2>1, <2>2
<1> QED BY <1>1, <1>2

(* What is covered by m1, after a write to [lo, hi) of m: the entries that *)
(* stay clear of the range, and what the range cuts off the others.        *)
Clear(m, lo, hi) == {r \in m : r.hi <= lo \/ hi <= r.lo}

Cut(m, lo, hi) ==
  LeftPart(Hit(m, lo, hi), lo) \cup RightPart(Hit(m, lo, hi), hi)

(* In a good map, the first of at most one entry that starts inside the    *)
(* range is the one upper_bound finds.                                     *)
LEMMA SearchFindsInside ==
  ASSUME NEW m, Good(m), NEW lo \in Nat, NEW hi \in Nat, lo < hi,
         AtMostOne(StartInside(m, lo, hi))
  PROVE  {r \in UpperBound(m, lo) : r.lo < hi} = StartInside(m, lo, hi)
<1>1. ASSUME NEW r \in UpperBound(m, lo), r.lo < hi PROVE r \in StartInside(m, lo, hi)
  <2>1. r \in m /\ r.lo > lo
    BY DEF UpperBound
  <2>2. r.lo \in Nat
    BY <2>1, EntryFields DEF Good
  <2> QED BY <1>1, <2>1, <2>2 DEF StartInside
<1>2. ASSUME NEW r \in StartInside(m, lo, hi) PROVE r \in UpperBound(m, lo) /\ r.lo < hi
  <2>1. r \in m /\ lo < r.lo /\ r.lo < hi
    BY DEF StartInside
  <2>2. r.lo \in Nat /\ r.hi \in Nat
    BY <2>1, EntryFields DEF Good
  <2>3. ASSUME NEW s \in m, s.lo > lo, s # r PROVE KeyLess(r, s)
    <3>1. s.lo \in Nat /\ s.hi \in Nat
      BY EntryFields DEF Good
    <3>2. s \notin StartInside(m, lo, hi)
      BY <2>3 DEF AtMostOne
    <3>3. ~(s.lo < hi)
      BY <2>3, <3>1, <3>2 DEF StartInside
    <3> QED BY <2>1, <2>2, <3>1, <3>3 DEF KeyLess
  <2> QED BY <2>1, <2>2, <2>3 DEF UpperBound
<1> QED BY <1>1, <1>2

(* The pieces a range cuts off the entries of a good map.                  *)
LEMMA PieceOf ==
  ASSUME NEW m, NEW lo, NEW hi, NEW p \in Cut(m, lo, hi)
  PROVE  \E r \in Hit(m, lo, hi) :
           \/ r.lo < lo /\ p = [lo |-> r.lo, hi |-> lo, val |-> r.val]
           \/ r.hi > hi /\ p = [lo |-> hi, hi |-> r.hi, val |-> r.val]
BY DEF Cut, LeftPart, RightPart

(* A write that meets at most one entry starting inside its range leaves   *)
(* the entries clear of the range, the pieces cut off the others, and the  *)
(* range itself: no insert_or_assign replaces an entry it should not.      *)
LEMMA WriteShape ==
  ASSUME NEW m, Good(m), NEW lo \in Nat, NEW hi \in Nat, lo < hi, NEW e,
         AtMostOne(StartInside(m, lo, hi))
  PROVE  Write(m, lo, hi, e) =
           Clear(m, lo, hi) \cup Cut(m, lo, hi) \cup {[lo |-> lo, hi |-> hi, val |-> e]}
<1> DEFINE below == {r \in FirstLE(m, lo) : r.hi > lo}
           above == {r \in UpperBound(m, lo) : r.lo < hi}
           P  == LeftPart(below, lo) \cup RightPart(below, hi)
           Q  == RightPart(above, hi)
           m1 == Assign(m, P) \ below
           m2 == Assign(m1, Q) \ above
           w  == [lo |-> lo, hi |-> hi, val |-> e]
<1>1. below = Covering(m, lo) /\ above = StartInside(m, lo, hi)
  BY SearchFindsCover, SearchFindsInside
<1>2. \A r \in m : r.lo \in Nat /\ r.hi \in Nat /\ r.lo < r.hi
  BY EntryFields DEF Good, NonEmpty
<1>3. \A r \in below : r \in m /\ r.lo <= lo /\ lo < r.hi
  BY <1>1 DEF Covering
<1>4. \A r \in above : r \in m /\ lo < r.lo /\ r.lo < hi
  BY <1>1 DEF StartInside
<1>5. \A p \in P : \E b \in below :
        \/ b.lo < lo /\ p = [lo |-> b.lo, hi |-> lo, val |-> b.val]
        \/ b.hi > hi /\ p = [lo |-> hi, hi |-> b.hi, val |-> b.val]
  BY DEF LeftPart, RightPart
<1>6. \A q \in Q : \E a \in above :
        a.hi > hi /\ q = [lo |-> hi, hi |-> a.hi, val |-> a.val]
  BY DEF RightPart
<1>7. Hit(m, lo, hi) = below \cup above
  BY <1>1, <1>2 DEF Hit, Covering, StartInside
<1>8. Cut(m, lo, hi) = P \cup Q
  <2>1. LeftPart(above, lo) = {}
    BY <1>2, <1>4 DEF LeftPart
  <2> HIDE DEF below, above
  <2>2. LeftPart(below \cup above, lo) = LeftPart(below, lo) \cup LeftPart(above, lo)
    BY DEF LeftPart
  <2>3. RightPart(below \cup above, hi) = RightPart(below, hi) \cup RightPart(above, hi)
    BY DEF RightPart
  <2> QED BY <1>7, <2>1, <2>2, <2>3 DEF Cut
<1> HIDE DEF below, above, P, Q
<1>9. \A r \in m : \A p \in P : ~SameKey(r, p)
  <2> SUFFICES ASSUME NEW r \in m, NEW p \in P, SameKey(r, p) PROVE FALSE
    OBVIOUS
  <2>1. PICK b \in below :
          \/ b.lo < lo /\ p = [lo |-> b.lo, hi |-> lo, val |-> b.val]
          \/ b.hi > hi /\ p = [lo |-> hi, hi |-> b.hi, val |-> b.val]
    BY <1>5
  <2>2. r = b \/ r.hi <= b.lo \/ b.hi <= r.lo
    BY <1>3 DEF Good, Disjoint
  <2> QED BY <1>2, <1>3, <2>1, <2>2 DEF SameKey
<1>10. m1 = (m \ below) \cup P
  <2>1. P \cap below = {}
    BY <1>3, <1>9 DEF SameKey
  <2> QED BY <1>9, <2>1 DEF Assign
<1>11. \A r \in m1 : \A q \in Q : ~SameKey(r, q)
  <2> SUFFICES ASSUME NEW r \in m1, NEW q \in Q, SameKey(r, q) PROVE FALSE
    OBVIOUS
  <2>1. PICK a \in above : a.hi > hi /\ q = [lo |-> hi, hi |-> a.hi, val |-> a.val]
    BY <1>6
  <2>2. CASE r \in m
    <3>1. r = a \/ r.hi <= a.lo \/ a.hi <= r.lo
      BY <1>4, <2>2 DEF Good, Disjoint
    <3> QED BY <1>2, <1>4, <2>1, <2>2, <3>1 DEF SameKey
  <2>3. CASE r \in P
    <3>1. PICK b \in below :
            \/ b.lo < lo /\ r = [lo |-> b.lo, hi |-> lo, val |-> b.val]
            \/ b.hi > hi /\ r = [lo |-> hi, hi |-> b.hi, val |-> b.val]
      BY <1>5, <2>3
    <3>2. b = a \/ b.hi <= a.lo \/ a.hi <= b.lo
      BY <1>3, <1>4 DEF Good, Disjoint
    <3> QED BY <1>2, <1>3, <1>4, <2>1, <3>1, <3>2 DEF SameKey
  <2> QED BY <1>10, <2>2, <2>3
<1>12. m2 = (((m \ below) \cup P) \ above) \cup Q
  <2>1. Q \cap above = {}
    BY <1>2, <1>4, <1>6
  <2> QED BY <1>10, <1>11, <2>1 DEF Assign
<1>13. P \cap above = {}
  BY <1>2, <1>3, <1>4, <1>5
<1>14. m2 = ((m \ below) \ above) \cup P \cup Q
  BY <1>12, <1>13
<1>15. (m \ below) \ above = Clear(m, lo, hi)
  BY <1>1, <1>2 DEF Covering, StartInside, Clear
<1>16. \A r \in m2 : ~SameKey(r, w)
  <2> SUFFICES ASSUME NEW r \in m2, SameKey(r, w) PROVE FALSE
    OBVIOUS
  <2>1. CASE r \in Clear(m, lo, hi)
    BY <1>2, <2>1 DEF Clear, SameKey
  <2>2. CASE r \in P
    BY <1>2, <1>3, <1>5, <2>2 DEF SameKey
  <2>3. CASE r \in Q
    BY <1>2, <1>4, <1>6, <2>3 DEF SameKey
  <2> QED BY <1>14, <1>15, <2>1, <2>2, <2>3
<1>17. Write(m, lo, hi, e) = m2 \cup {w}
  <2>1. Write(m, lo, hi, e) = Assign(m2, {w})
    BY DEF Write, below, above, P, Q
  <2> QED BY <1>16, <2>1 DEF Assign
<1> QED BY <1>8, <1>14, <1>15, <1>17

(* Such a write keeps the map good. *)
LEMMA WriteGood ==
  ASSUME NEW m, Good(m), NEW lo \in Nat, NEW hi \in Nat, lo < hi, hi <= N,
         NEW e \in Expr, AtMostOne(StartInside(m, lo, hi))
  PROVE  Good(Write(m, lo, hi, e))
<1> DEFINE w  == [lo |-> lo, hi |-> hi, val |-> e]
           m2 == Clear(m, lo, hi) \cup Cut(m, lo, hi) \cup {w}
<1>1. \A r \in m : r.lo \in Nat /\ r.hi \in Nat /\ r.lo < r.hi /\ r.hi <= N /\ r.val \in Expr
  BY EntryFields DEF Good, NonEmpty
<1>2. \A r \in Hit(m, lo, hi) : r \in m /\ r.lo < hi /\ lo < r.hi
  BY DEF Hit
<1>3. \A r \in Clear(m, lo, hi) : r \in m /\ (r.hi <= lo \/ hi <= r.lo)
  BY DEF Clear
<1>4. \A p \in Cut(m, lo, hi) : \E r \in Hit(m, lo, hi) :
        \/ r.lo < lo /\ p = [lo |-> r.lo, hi |-> lo, val |-> r.val]
        \/ r.hi > hi /\ p = [lo |-> hi, hi |-> r.hi, val |-> r.val]
  BY PieceOf
<1>5. ASSUME NEW p \in m2
      PROVE  p \in Entry /\ p.lo < p.hi
  <2>1. CASE p \in Clear(m, lo, hi)
    BY <1>1, <1>3, <2>1 DEF Good
  <2>2. CASE p \in Cut(m, lo, hi)
    <3>1. PICK r \in Hit(m, lo, hi) :
            \/ r.lo < lo /\ p = [lo |-> r.lo, hi |-> lo, val |-> r.val]
            \/ r.hi > hi /\ p = [lo |-> hi, hi |-> r.hi, val |-> r.val]
      BY <1>4, <2>2
    <3>2. r.lo \in Nat /\ r.hi \in Nat /\ r.hi <= N /\ r.val \in Expr
      BY <1>1, <1>2
    <3>3. CASE r.lo < lo /\ p = [lo |-> r.lo, hi |-> lo, val |-> r.val]
      BY <3>2, <3>3, EntryBuilt, NAssumption
    <3>4. CASE r.hi > hi /\ p = [lo |-> hi, hi |-> r.hi, val |-> r.val]
      BY <3>2, <3>4, EntryBuilt, NAssumption
    <3> QED BY <3>1, <3>3, <3>4
  <2>3. CASE p = w
    BY <2>3, EntryBuilt, NAssumption
  <2> QED BY <2>1, <2>2, <2>3
<1>6. ASSUME NEW p \in Clear(m, lo, hi), NEW q \in m2, p # q
      PROVE  p.hi <= q.lo \/ q.hi <= p.lo
  <2>1. CASE q \in Clear(m, lo, hi)
    BY <1>3, <1>6, <2>1 DEF Good, Disjoint
  <2>2. CASE q \in Cut(m, lo, hi)
    <3>1. PICK r \in Hit(m, lo, hi) :
            \/ r.lo < lo /\ q = [lo |-> r.lo, hi |-> lo, val |-> r.val]
            \/ r.hi > hi /\ q = [lo |-> hi, hi |-> r.hi, val |-> r.val]
      BY <1>4, <2>2
    <3>2. p = r \/ p.hi <= r.lo \/ r.hi <= p.lo
      BY <1>2, <1>3 DEF Good, Disjoint
    <3> QED BY <1>1, <1>2, <1>3, <3>1, <3>2
  <2>3. CASE q = w
    BY <1>3, <2>3
  <2> QED BY <2>1, <2>2, <2>3
<1>7. ASSUME NEW p \in Cut(m, lo, hi), NEW q \in Cut(m, lo, hi), p # q
      PROVE  p.hi <= q.lo \/ q.hi <= p.lo
  <2>1. PICK r \in Hit(m, lo, hi) :
          \/ r.lo < lo /\ p = [lo |-> r.lo, hi |-> lo, val |-> r.val]
          \/ r.hi > hi /\ p = [lo |-> hi, hi |-> r.hi, val |-> r.val]
    BY <1>4
  <2>2. PICK s \in Hit(m, lo, hi) :
          \/ s.lo < lo /\ q = [lo |-> s.lo, hi |-> lo, val |-> s.val]
          \/ s.hi > hi /\ q = [lo |-> hi, hi |-> s.hi, val |-> s.val]
    BY <1>4
  <2>3. r = s \/ r.hi <= s.lo \/ s.hi <= r.lo
    BY <1>2 DEF Good, Disjoint
  <2>4. r.lo \in Nat /\ r.hi \in Nat /\ s.lo \in Nat /\ s.hi \in Nat
        /\ r.lo < hi /\ lo < r.hi /\ s.lo < hi /\ lo < s.hi
    BY <1>1, <1>2
  <2> QED BY <1>7, <2>1, <2>2, <2>3, <2>4
<1>8. ASSUME NEW p \in Cut(m, lo, hi)
      PROVE  p.hi <= w.lo \/ w.hi <= p.lo
  BY <1>4
<1>9. Disjoint(m2)
  <2> HIDE DEF w
  <2>1. \A p \in m2 : p \in Entry
    BY <1>5
  <2> QED BY <1>6, <1>7, <1>8 DEF Disjoint
<1>10. m2 \subseteq Entry /\ NonEmpty(m2)
  BY <1>5 DEF NonEmpty
<1> QED BY <1>9, <1>10, WriteShape DEF Good

(* And it sets the cells of its range, and no other. *)
LEMMA WriteReads ==
  ASSUME NEW m, Good(m), NEW lo \in Nat, NEW hi \in Nat, lo < hi, hi <= N,
         NEW e \in Expr, AtMostOne(StartInside(m, lo, hi)), NEW c \in Nat
  PROVE  Read(Write(m, lo, hi, e), c) =
           IF lo <= c /\ c < hi THEN {e[c]} ELSE Read(m, c)
<1> DEFINE w  == [lo |-> lo, hi |-> hi, val |-> e]
           m2 == Write(m, lo, hi, e)
<1>1. Good(m2)
  BY WriteGood
<1>2. m2 = Clear(m, lo, hi) \cup Cut(m, lo, hi) \cup {w}
  BY WriteShape
<1>3. Read(m2, c) = {r.val[c] : r \in Covering(m2, c)}
  BY <1>1, ReadCovering
<1> HIDE DEF m2
<1>4. CASE lo <= c /\ c < hi
  <2>1. w \in Covering(m2, c)
    BY <1>2, <1>4 DEF Covering
  <2>2. Covering(m2, c) = {w}
    BY <1>1, <2>1, CoverUnique
  <2> QED BY <1>3, <1>4, <2>2 DEF m2
<1>5. CASE ~(lo <= c /\ c < hi)
  <2>0. \A r \in m : r.lo \in Nat /\ r.hi \in Nat /\ r.lo < r.hi
    BY EntryFields DEF Good, NonEmpty
  <2>1. ASSUME NEW r \in Covering(m, c)
        PROVE  \E p \in Covering(m2, c) : p.val = r.val
    <3>1. r \in m /\ r.lo <= c /\ c < r.hi /\ r.lo \in Nat /\ r.hi \in Nat
      BY <2>0 DEF Covering
    <3>2. CASE r \in Clear(m, lo, hi)
      BY <1>2, <3>1, <3>2 DEF Covering
    <3>3. CASE r \notin Clear(m, lo, hi)
      <4>1. r \in Hit(m, lo, hi)
        BY <3>1, <3>3 DEF Clear, Hit
      <4>2. CASE c < lo
        <5>1. [lo |-> r.lo, hi |-> lo, val |-> r.val] \in Cut(m, lo, hi)
          BY <3>1, <4>1, <4>2 DEF Cut, LeftPart
        <5> QED BY <1>2, <3>1, <4>2, <5>1 DEF Covering
      <4>3. CASE hi <= c
        <5>1. [lo |-> hi, hi |-> r.hi, val |-> r.val] \in Cut(m, lo, hi)
          BY <3>1, <4>1, <4>3 DEF Cut, RightPart
        <5> QED BY <1>2, <3>1, <4>3, <5>1 DEF Covering
      <4> QED BY <1>5, <4>2, <4>3
    <3> QED BY <3>2, <3>3
  <2>2. ASSUME NEW p \in Covering(m2, c)
        PROVE  \E r \in Covering(m, c) : p.val = r.val
    <3>1. p \in m2 /\ p.lo <= c /\ c < p.hi
      BY DEF Covering
    <3>2. CASE p \in Clear(m, lo, hi)
      BY <3>1, <3>2 DEF Clear, Covering
    <3>3. CASE p \in Cut(m, lo, hi)
      <4>1. PICK r \in Hit(m, lo, hi) :
              \/ r.lo < lo /\ p = [lo |-> r.lo, hi |-> lo, val |-> r.val]
              \/ r.hi > hi /\ p = [lo |-> hi, hi |-> r.hi, val |-> r.val]
        BY <3>3, PieceOf
      <4>2. r \in m /\ r.lo < hi /\ lo < r.hi /\ r.lo \in Nat /\ r.hi \in Nat
        BY <2>0 DEF Hit
      <4>3. r.lo <= c /\ c < r.hi
        BY <3>1, <4>1, <4>2
      <4> QED BY <4>1, <4>2, <4>3 DEF Covering
    <3>4. CASE p = w
      BY <1>5, <3>1, <3>4
    <3> QED BY <1>2, <3>1, <3>2, <3>3, <3>4
  <2>3. {p.val[c] : p \in Covering(m2, c)} = {r.val[c] : r \in Covering(m, c)}
    BY <2>1, <2>2, SameValues
  <2>4. Read(m, c) = {r.val[c] : r \in Covering(m, c)}
    BY ReadCovering
  <2> QED BY <1>3, <1>5, <2>3, <2>4 DEF m2
<1> QED BY <1>4, <1>5

-----------------------------------------------------------------------------
(* A write of any length finds and changes one range that starts inside    *)
(* the written one, the first; it misses the others.                       *)
Missed(m, lo, hi) == {r \in StartInside(m, lo, hi) : \E s \in StartInside(m, lo, hi) : s.lo < r.lo}

Reached(m, lo, hi) == m \ Missed(m, lo, hi)

(* A part of a good map is good. *)
LEMMA SubGood == ASSUME NEW m, Good(m), NEW k, k \subseteq m PROVE Good(k)
BY DEF Good, Disjoint, NonEmpty

(* Two ranges that start inside start at different cells. *)
LEMMA StartsDiffer ==
  ASSUME NEW m, Good(m), NEW r \in m, NEW s \in m, r.lo = s.lo
  PROVE  r = s
<1>1. r.lo \in Nat /\ r.hi \in Nat /\ s.lo \in Nat /\ s.hi \in Nat /\ r.lo < r.hi /\ s.lo < s.hi
  BY EntryFields DEF Good, NonEmpty
<1> QED BY <1>1 DEF Good, Disjoint

(* There is no later one if and only if at most one starts inside. *)
LEMMA MissedIsSecond ==
  ASSUME NEW m, Good(m), NEW lo \in Nat, NEW hi \in Nat
  PROVE  AtMostOne(StartInside(m, lo, hi)) <=> Missed(m, lo, hi) = {}
<1>1. \A r \in StartInside(m, lo, hi) : r \in m /\ r.lo \in Nat
  BY EntryFields DEF StartInside, Good
<1>2. ASSUME AtMostOne(StartInside(m, lo, hi)) PROVE Missed(m, lo, hi) = {}
  BY <1>1, <1>2 DEF AtMostOne, Missed
<1>3. ASSUME Missed(m, lo, hi) = {},
             NEW r \in StartInside(m, lo, hi), NEW s \in StartInside(m, lo, hi)
      PROVE  r = s
  <2>1. ~(s.lo < r.lo) /\ ~(r.lo < s.lo)
    BY <1>3 DEF Missed
  <2> QED BY <1>1, <2>1, StartsDiffer
<1> QED BY <1>2, <1>3 DEF AtMostOne

(* Without the later ones, at most one starts inside. *)
LEMMA ReachedAreGood ==
  ASSUME NEW m, Good(m), NEW lo \in Nat, NEW hi \in Nat
  PROVE  /\ Good(Reached(m, lo, hi))
         /\ AtMostOne(StartInside(Reached(m, lo, hi), lo, hi))
<1>1. Reached(m, lo, hi) \subseteq m
  BY DEF Reached
<1>2. ASSUME NEW r \in StartInside(Reached(m, lo, hi), lo, hi),
             NEW s \in StartInside(Reached(m, lo, hi), lo, hi)
      PROVE  r = s
  <2>1. /\ r \in StartInside(m, lo, hi) /\ s \in StartInside(m, lo, hi)
        /\ r \notin Missed(m, lo, hi) /\ s \notin Missed(m, lo, hi)
    BY DEF StartInside, Reached
  <2>2. r \in m /\ s \in m /\ r.lo \in Nat /\ s.lo \in Nat
    BY <2>1, EntryFields DEF StartInside, Good
  <2>3. r.lo = s.lo
    BY <2>1, <2>2 DEF Missed
  <2> QED BY <2>2, <2>3, StartsDiffer
<1> QED BY <1>1, <1>2, SubGood DEF AtMostOne

(* upper_bound does not find a later one, nor does it miss the first. *)
LEMMA FirstAbove ==
  ASSUME NEW m, Good(m), NEW lo \in Nat, NEW hi \in Nat
  PROVE  {r \in UpperBound(m, lo) : r.lo < hi} =
         {r \in UpperBound(Reached(m, lo, hi), lo) : r.lo < hi}
<1> DEFINE K == Reached(m, lo, hi)
           S == StartInside(m, lo, hi)
<1>1. \A r \in m : r.lo \in Nat /\ r.hi \in Nat
  BY EntryFields DEF Good
<1>2. \A r \in m : r \in K <=> r \notin Missed(m, lo, hi)
  BY DEF Reached
<1>3. K \subseteq m
  BY DEF Reached
<1>4. \A r \in m : r \in S <=> lo < r.lo /\ r.lo < hi
  BY DEF StartInside
<1>5. \A r \in S : r \in Missed(m, lo, hi) <=> \E s \in S : s.lo < r.lo
  BY DEF Missed
<1>6. Missed(m, lo, hi) \subseteq S /\ S \subseteq m
  BY DEF Missed, StartInside
<1> HIDE DEF K, S
<1>7. ASSUME NEW r \in UpperBound(m, lo), r.lo < hi PROVE r \in UpperBound(K, lo)
  <2>1. r \in m /\ r.lo > lo /\ \A s \in m : s.lo > lo => (s = r \/ KeyLess(r, s))
    BY DEF UpperBound
  <2>2. r \in S
    BY <1>1, <1>4, <1>7, <2>1
  <2>3. ASSUME NEW s \in S, s.lo < r.lo PROVE FALSE
    <3>1. s \in m /\ s.lo > lo
      BY <1>1, <1>4, <1>6
    <3>2. s = r \/ KeyLess(r, s)
      BY <2>1, <3>1
    <3> QED BY <1>1, <2>1, <2>3, <3>1, <3>2 DEF KeyLess
  <2>4. r \in K
    BY <1>2, <1>5, <2>1, <2>2, <2>3
  <2> QED BY <1>3, <2>1, <2>4 DEF UpperBound
<1>8. ASSUME NEW r \in UpperBound(K, lo), r.lo < hi PROVE r \in UpperBound(m, lo)
  <2>1. r \in K /\ r.lo > lo /\ \A s \in K : s.lo > lo => (s = r \/ KeyLess(r, s))
    BY DEF UpperBound
  <2>2. r \in m /\ r \in S
    BY <1>1, <1>3, <1>4, <1>8, <2>1
  <2>3. ASSUME NEW s \in m, s \notin K PROVE KeyLess(r, s)
    <3>1. s \in S /\ \E t \in S : t.lo < s.lo
      BY <1>2, <1>5, <1>6, <2>3
    <3>2. PICK t \in S : t.lo < s.lo
      BY <3>1
    <3>3. ~(t.lo < r.lo)
      BY <1>2, <1>5, <2>1, <2>2
    <3>4. t \in m
      BY <1>6
    <3> QED BY <1>1, <2>2, <3>2, <3>3, <3>4 DEF KeyLess
  <2> QED BY <2>1, <2>2, <2>3 DEF UpperBound
<1> QED BY <1>7, <1>8 DEF K

(* Two maps with the same entries up to a cell are searched alike. *)
LEMMA SearchBelow ==
  ASSUME NEW A, NEW B, NEW c, \A r \in A \cup B : r.lo <= c => r \in A /\ r \in B
  PROVE  FirstLE(A, c) = FirstLE(B, c)
BY DEF FirstLE

(* And so are two that agree from one of those entries on. *)
LEMMA SearchFrom ==
  ASSUME NEW A, NEW B, NEW c \in Nat, NEW r \in A, r \in B, r.lo <= c,
         \A s \in A \cup B : s.lo \in Nat,
         \A s \in A \cup B : r.lo <= s.lo => s \in A /\ s \in B
  PROVE  FirstLE(A, c) = FirstLE(B, c)
<1>1. ASSUME NEW C, NEW D, r \in C, r \in D,
             \A s \in C \cup D : s.lo \in Nat,
             \A s \in C \cup D : r.lo <= s.lo => s \in C /\ s \in D,
             NEW q \in FirstLE(C, c)
      PROVE  q \in FirstLE(D, c)
  <2>1. q \in C /\ q.lo <= c /\ \A s \in C : s.lo <= c => (s = q \/ KeyLess(s, q))
    BY DEF FirstLE
  <2>2. r = q \/ KeyLess(r, q)
    BY <1>1, <2>1
  <2>3. r.lo <= q.lo
    BY <1>1, <2>1, <2>2 DEF KeyLess
  <2>4. ASSUME NEW s \in D, s.lo <= c, s # q PROVE KeyLess(s, q)
    <3>1. CASE r.lo <= s.lo
      BY <1>1, <2>1, <2>4, <3>1
    <3>2. CASE ~(r.lo <= s.lo)
      BY <1>1, <2>1, <2>3, <3>2 DEF KeyLess
    <3> QED BY <3>1, <3>2
  <2> QED BY <1>1, <2>1, <2>3, <2>4 DEF FirstLE
<1>2. \A q \in FirstLE(A, c) : q \in FirstLE(B, c)
  BY <1>1
<1>3. \A q \in FirstLE(B, c) : q \in FirstLE(A, c)
  BY <1>1
<1> QED BY <1>2, <1>3

(* The write does to the earlier entries what it would do without the      *)
(* later ones, and leaves those as they are.                               *)
LEMMA WriteSplits ==
  ASSUME NEW m, Good(m), NEW lo \in Nat, NEW hi \in Nat, lo < hi, NEW e
  PROVE  Write(m, lo, hi, e) = Write(Reached(m, lo, hi), lo, hi, e) \cup Missed(m, lo, hi)
<1> DEFINE K == Reached(m, lo, hi)
           R == Missed(m, lo, hi)
           below == {r \in FirstLE(K, lo) : r.hi > lo}
           above == {r \in UpperBound(K, lo) : r.lo < hi}
           P == LeftPart(below, lo) \cup RightPart(below, hi)
           Q == RightPart(above, hi)
           w == [lo |-> lo, hi |-> hi, val |-> e]
<1>1. \A r \in m : r.lo \in Nat /\ r.hi \in Nat
  BY EntryFields DEF Good
<1>2. \A r \in R : r \in m /\ lo < r.lo /\ r.lo < hi
  BY DEF Missed, StartInside
<1>3. m = K \cup R /\ K \cap R = {}
  BY <1>2 DEF Reached
<1>4. below \subseteq K /\ above \subseteq K
  BY DEF FirstLE, UpperBound
<1>5. \A r \in R : \A p \in P : ~SameKey(r, p)
  <2>1. \A p \in P : p.hi = lo \/ p.lo = hi
    BY DEF LeftPart, RightPart
  <2>2. \A r \in R : r.hi # lo /\ r.lo # hi
    <3>1. \A r \in R : r.lo < r.hi
      BY <1>2 DEF Good, NonEmpty
    <3> QED BY <1>1, <1>2, <3>1
  <2> QED BY <2>1, <2>2 DEF SameKey
<1>6. \A r \in R : (\A q \in Q : ~SameKey(r, q)) /\ ~SameKey(r, w)
  <2>1. \A q \in Q : q.lo = hi
    BY DEF RightPart
  <2> QED BY <1>1, <1>2, <2>1 DEF SameKey
<1>7. FirstLE(m, lo) = FirstLE(K, lo)
  <2>1. \A r \in m \cup K : r.lo <= lo => r \in m /\ r \in K
    BY <1>1, <1>2, <1>3
  <2> HIDE DEF K, R
  <2> QED BY <2>1, SearchBelow
<1>8. {r \in UpperBound(m, lo) : r.lo < hi} = above
  BY FirstAbove
<1> DEFINE m1 == Assign(m, P) \ below
           m2 == Assign(m1, Q) \ above
           k1 == Assign(K, P) \ below
           k2 == Assign(k1, Q) \ above
<1>9. Write(m, lo, hi, e) = Assign(m2, {w}) /\ Write(K, lo, hi, e) = Assign(k2, {w})
  BY <1>7, <1>8 DEF Write
<1> HIDE DEF K, R, below, above, P, Q, w
<1>10. m1 = k1 \cup R
  BY <1>3, <1>4, <1>5 DEF Assign
<1> HIDE DEF m1, k1
<1>11. m2 = k2 \cup R
  BY <1>3, <1>4, <1>6, <1>10 DEF Assign
<1> HIDE DEF m2, k2
<1>12. Assign(m2, {w}) = Assign(k2, {w}) \cup R
  BY <1>6, <1>11 DEF Assign
<1> QED BY <1>9, <1>12 DEF K, R

(* A write keeps a map disjoint if and only if it meets no later one. *)
LEMMA WriteDisjoint ==
  ASSUME NEW m, Good(m), NEW lo \in Nat, NEW hi \in Nat, lo < hi, hi <= N, NEW e \in Expr
  PROVE  Disjoint(Write(m, lo, hi, e)) <=> AtMostOne(StartInside(m, lo, hi))
<1>1. ASSUME AtMostOne(StartInside(m, lo, hi)) PROVE Disjoint(Write(m, lo, hi, e))
  BY <1>1, WriteGood DEF Good
<1>2. ASSUME NEW r \in Missed(m, lo, hi) PROVE ~Disjoint(Write(m, lo, hi, e))
  <2> DEFINE w == [lo |-> lo, hi |-> hi, val |-> e]
  <2>1. r \in m /\ lo < r.lo /\ r.lo < hi /\ r.lo \in Nat /\ r.hi \in Nat /\ r.lo < r.hi
    BY EntryFields DEF Missed, StartInside, Good, NonEmpty
  <2>2. r \in Write(m, lo, hi, e)
    BY WriteSplits
  <2>3. w \in Write(m, lo, hi, e)
    BY DEF Write, Assign
  <2>4. w # r /\ ~(w.hi <= r.lo) /\ ~(r.hi <= w.lo)
    BY <2>1
  <2> QED BY <2>2, <2>3, <2>4 DEF Disjoint
<1> QED BY <1>1, <1>2, MissedIsSecond

(* A write of any length sets the cells of its range up to the second      *)
(* entry that starts inside it; every other cell reads as before.          *)
LEMMA WriteStops ==
  ASSUME NEW m, Good(m), NEW lo \in Nat, NEW hi \in Nat, lo < hi, hi <= N,
         NEW e \in Expr, NEW c \in Nat
  PROVE  Read(Write(m, lo, hi, e), c) =
           IF lo <= c /\ c < hi /\ AtMostOne(StartInside(m, lo, c + 1))
           THEN {e[c]} ELSE Read(m, c)
<1> DEFINE K == Reached(m, lo, hi)
           R == Missed(m, lo, hi)
           S == StartInside(m, lo, hi)
           W == Write(m, lo, hi, e)
<1>1. \A r \in m : r.lo \in Nat /\ r.hi \in Nat /\ r.lo < r.hi
  BY EntryFields DEF Good, NonEmpty
<1>2. W = Write(K, lo, hi, e) \cup R /\ m = K \cup R
  <2>1. W = Write(K, lo, hi, e) \cup R
    BY WriteSplits
  <2>2. m = K \cup R
    BY DEF Reached, Missed, StartInside
  <2> QED BY <2>1, <2>2
<1>3. Good(K) /\ AtMostOne(StartInside(K, lo, hi)) /\ Good(Write(K, lo, hi, e))
  BY ReachedAreGood, WriteGood
<1>4. \A r \in Write(K, lo, hi, e) : r.lo \in Nat
  BY <1>3, EntryFields DEF Good
<1>5. \A r \in R : /\ r \in m /\ lo < r.lo /\ r.lo < hi
                   /\ \E s \in m : lo < s.lo /\ s.lo < r.lo
  BY DEF Missed, StartInside
<1>6. CASE \E r \in R : r.lo <= c
  <2>1. PICK r \in R : r.lo <= c
    BY <1>6
  <2>2. ~AtMostOne(StartInside(m, lo, c + 1))
    <3>1. PICK s \in m : lo < s.lo /\ s.lo < r.lo
      BY <1>5
    <3>2. r \in StartInside(m, lo, c + 1) /\ s \in StartInside(m, lo, c + 1)
      BY <1>1, <1>5, <2>1, <3>1 DEF StartInside
    <3>3. s # r
      BY <1>1, <1>5, <3>1
    <3> QED BY <3>2, <3>3 DEF AtMostOne
  <2>3. ASSUME NEW s \in Write(K, lo, hi, e), r.lo <= s.lo PROVE s \in m
    <3>1. s \in Clear(K, lo, hi) \cup Cut(K, lo, hi) \cup {[lo |-> lo, hi |-> hi, val |-> e]}
      BY <1>3, WriteShape
    <3>2. CASE s \in Clear(K, lo, hi)
      BY <1>2, <3>2 DEF Clear
    <3>3. CASE s = [lo |-> lo, hi |-> hi, val |-> e]
      BY <1>1, <1>5, <2>3, <3>3
    <3>4. CASE s \in Cut(K, lo, hi)
      <4>1. PICK q \in Hit(K, lo, hi) :
              \/ q.lo < lo /\ s = [lo |-> q.lo, hi |-> lo, val |-> q.val]
              \/ q.hi > hi /\ s = [lo |-> hi, hi |-> q.hi, val |-> q.val]
        BY <3>4, PieceOf
      <4>2. q \in K /\ q \in m /\ q.lo < hi /\ lo < q.hi
        BY <1>2 DEF Hit
      <4>3. q.hi > hi
        BY <1>1, <1>5, <2>3, <4>1, <4>2
      <4>4. q # r
        BY <4>2 DEF Reached
      <4>5. r.hi <= q.lo
        BY <1>1, <1>5, <4>2, <4>3, <4>4 DEF Good, Disjoint
      <4>6. q \in Missed(m, lo, hi)
        BY <1>1, <1>5, <4>2, <4>5 DEF Missed, StartInside
      <4> QED BY <4>2, <4>6 DEF Reached
    <3> QED BY <3>1, <3>2, <3>3, <3>4
  <2>4. ASSUME NEW s \in m, r.lo <= s.lo PROVE s \in W
    <3>1. CASE s \in R
      BY <1>2, <3>1
    <3>2. CASE s \in K
      <4>1. ~(lo < s.lo /\ s.lo < hi)
        <5>1. ASSUME lo < s.lo, s.lo < hi PROVE FALSE
          <6>1. \E t \in m : lo < t.lo /\ t.lo < s.lo
            BY <1>1, <1>5, <2>4
          <6>2. s \in R
            BY <1>1, <5>1, <6>1 DEF Missed, StartInside
          <6> QED BY <3>2, <6>2 DEF Reached
        <5> QED BY <5>1
      <4>2. s \in Clear(K, lo, hi)
        BY <1>1, <1>5, <2>4, <3>2, <4>1 DEF Clear
      <4> QED BY <1>2, <1>3, <4>2, WriteShape
    <3> QED BY <1>2, <3>1, <3>2
  <2>5. FirstLE(W, c) = FirstLE(m, c)
    <3>1. r \in W /\ r \in m /\ \A s \in W \cup m : s.lo \in Nat
      BY <1>1, <1>2, <1>4
    <3>2. \A s \in W \cup m : r.lo <= s.lo => s \in W /\ s \in m
      BY <1>2, <2>3, <2>4
    <3> HIDE DEF W, R, K
    <3> QED BY <2>1, <3>1, <3>2, SearchFrom
  <2> QED BY <2>2, <2>5 DEF Read
<1>7. CASE \A r \in R : ~(r.lo <= c)
  <2>1. FirstLE(W, c) = FirstLE(Write(K, lo, hi, e), c) /\ FirstLE(m, c) = FirstLE(K, c)
    <3> DEFINE V == Write(K, lo, hi, e)
    <3>1. /\ \A r \in W \cup V : r.lo <= c => r \in W /\ r \in V
          /\ \A r \in m \cup K : r.lo <= c => r \in m /\ r \in K
      BY <1>2, <1>7
    <3> HIDE DEF W, K, R, V
    <3>2. FirstLE(W, c) = FirstLE(V, c) /\ FirstLE(m, c) = FirstLE(K, c)
      BY <3>1, SearchBelow
    <3> QED BY <3>2 DEF V
  <2>2. Read(W, c) = IF lo <= c /\ c < hi THEN {e[c]} ELSE Read(m, c)
    <3>1. Read(Write(K, lo, hi, e), c) = IF lo <= c /\ c < hi THEN {e[c]} ELSE Read(K, c)
      BY <1>3, WriteReads
    <3> QED BY <2>1, <3>1 DEF Read
  <2>3. ASSUME c < hi PROVE AtMostOne(StartInside(m, lo, c + 1))
    <3> SUFFICES ASSUME NEW r \in StartInside(m, lo, c + 1),
                        NEW s \in StartInside(m, lo, c + 1)
                 PROVE  r = s
      BY DEF AtMostOne
    <3>1. r \in m /\ s \in m /\ lo < r.lo /\ r.lo < c + 1 /\ lo < s.lo /\ s.lo < c + 1
      BY DEF StartInside
    <3>2. r \in S /\ s \in S /\ r \notin R /\ s \notin R
      BY <1>1, <1>7, <2>3, <3>1 DEF StartInside
    <3>3. r.lo = s.lo
      BY <1>1, <3>1, <3>2 DEF Missed
    <3> QED BY <3>1, <3>3, StartsDiffer
  <2> QED BY <2>2, <2>3
<1> QED BY <1>6, <1>7

(* Coalescing two adjacent entries of one value keeps a map good and does  *)
(* not change what it reads.                                               *)
LEMMA Coalesce ==
  ASSUME NEW m, Good(m), NEW p \in m, NEW q \in m, p.hi = q.lo, p.val = q.val,
         NEW j, j = [lo |-> p.lo, hi |-> q.hi, val |-> p.val],
         NEW k, k = (m \ {p, q}) \cup {j}
  PROVE  Good(k) /\ \A c \in Nat : Read(k, c) = Read(m, c)
<1>1. \A r \in m : r.lo \in Nat /\ r.hi \in Nat /\ r.lo < r.hi /\ r.hi <= N /\ r.val \in Expr
  BY EntryFields DEF Good, NonEmpty
<1>2. j \in Entry /\ j.lo < j.hi
  BY <1>1, EntryBuilt, NAssumption
<1>3. \A r \in m \ {p, q} : r.hi <= j.lo \/ j.hi <= r.lo
  <2> SUFFICES ASSUME NEW r \in m \ {p, q} PROVE r.hi <= j.lo \/ j.hi <= r.lo
    OBVIOUS
  <2>1. (r.hi <= p.lo \/ p.hi <= r.lo) /\ (r.hi <= q.lo \/ q.hi <= r.lo)
    BY DEF Good, Disjoint
  <2> QED BY <1>1, <2>1
<1>4. Good(k)
  BY <1>1, <1>2, <1>3 DEF Good, Disjoint, NonEmpty
<1>5. ASSUME NEW c \in Nat PROVE Read(k, c) = Read(m, c)
  <2>1. ASSUME NEW r \in Covering(m, c) PROVE \E s \in Covering(k, c) : s.val = r.val
    BY <1>1 DEF Covering
  <2>2. ASSUME NEW s \in Covering(k, c) PROVE \E r \in Covering(m, c) : s.val = r.val
    <3>1. s \in k /\ s.lo <= c /\ c < s.hi
      BY DEF Covering
    <3>2. CASE s = j
      BY <1>1, <3>1, <3>2 DEF Covering
    <3>3. CASE s \in m \ {p, q}
      BY <3>1, <3>3 DEF Covering
    <3> QED BY <3>1, <3>2, <3>3
  <2>3. {s.val[c] : s \in Covering(k, c)} = {r.val[c] : r \in Covering(m, c)}
    <3> DEFINE A == Covering(m, c)
               B == Covering(k, c)
    <3>1. /\ \A a \in A : \E b \in B : b.val = a.val
          /\ \A b \in B : \E a \in A : b.val = a.val
      BY <2>1, <2>2
    <3> HIDE DEF A, B
    <3>2. {b.val[c] : b \in B} = {a.val[c] : a \in A}
      BY <3>1, SameValues
    <3> QED BY <3>2 DEF A, B
  <2> QED BY <1>4, <2>3, ReadCovering
<1> QED BY <1>4, <1>5

-----------------------------------------------------------------------------
(* The inductive invariant.  Disjointness alone does not say what the      *)
(* loops have done so far: a running merge has put entries behind those it *)
(* has still to visit, the two together read as the map and the former are *)
(* maximal; a running copy splits the map into the entries copied and the  *)
(* later ones.                                                             *)
Behind(o, t) == \A r \in o, s \in t : r.hi <= s.lo

Maximal(m) == \A r, s \in m : r.hi = s.lo => r.val # s.val

MergeInv ==
  /\ Good(out \cup todo)
  /\ Behind(out, todo)
  /\ Maximal(out)
  /\ \A c \in Cell : Read(out \cup todo, c) = Read(cmap, c)

CopyInv ==
  /\ out \cup todo = cmap
  /\ Behind(out, todo)

ExactInv ==
  /\ TypeOK
  /\ Good(cmap)
  /\ phase = "merge" => MergeInv
  /\ phase = "copy" => CopyInv

(* The least entry of a good map ends before the others start. *)
LEMMA LeastIsFirst ==
  ASSUME NEW m, Good(m), NEW cur \in Least(m), NEW s \in m, s # cur
  PROVE  cur.hi <= s.lo
<1>1. cur \in m /\ KeyLess(cur, s)
  BY DEF Least
<1>2. cur.lo \in Nat /\ cur.hi \in Nat /\ s.lo \in Nat /\ s.hi \in Nat
      /\ cur.lo < cur.hi /\ s.lo < s.hi
  BY <1>1, EntryFields DEF Good, NonEmpty
<1>3. cur.hi <= s.lo \/ s.hi <= cur.lo
  BY <1>1, <1>2 DEF Good, Disjoint
<1> QED BY <1>1, <1>2, <1>3 DEF KeyLess

(* The body of the loop of mergeConstantRanges keeps its invariant. *)
LEMMA MergeStepInv == ExactInv /\ MergeStep => ExactInv'
<1> SUFFICES ASSUME ExactInv, MergeStep PROVE ExactInv'
  OBVIOUS
<1>1. PICK cur \in Least(todo) : out' = PushOrMerge(out, cur) /\ todo' = todo \ {cur}
  BY DEF MergeStep
<1>2. phase = "merge" /\ phase' = "merge" /\ cmap' = cmap
  BY DEF MergeStep
<1>3. MergeInv /\ todo \subseteq cmap /\ out \subseteq Entry
  BY <1>2 DEF ExactInv, TypeOK
<1>4. cur \in todo /\ Good(todo) /\ Good(out)
  BY <1>3, SubGood DEF MergeInv, Least
<1>5. \A s \in todo \ {cur} : cur.hi <= s.lo
  BY <1>1, <1>4, LeastIsFirst
<1>6. \A r \in out \cup todo : r.lo \in Nat /\ r.hi \in Nat /\ r.lo < r.hi
  BY <1>3, EntryFields DEF MergeInv, Good, NonEmpty
<1>7. \A r \in out : r.hi <= cur.lo
  BY <1>3, <1>4 DEF MergeInv, Behind
<1> DEFINE back == {p \in Greatest(out) : p.hi = cur.lo /\ p.val = cur.val}
<1>8. CASE back = {}
  <2>1. out' = out \cup {cur}
    BY <1>1, <1>8 DEF PushOrMerge
  <2>2. out' \cup todo' = out \cup todo
    BY <1>1, <1>4, <2>1
  <2>3. Behind(out', todo')
    BY <1>1, <1>3, <1>5, <2>1 DEF MergeInv, Behind
  <2>4. ASSUME NEW r \in out, r.hi = cur.lo PROVE r \in Greatest(out)
    <3> SUFFICES ASSUME NEW q \in out, q # r PROVE KeyLess(q, r)
      BY DEF Greatest
    <3>1. q.hi <= r.lo \/ r.hi <= q.lo
      BY <1>4 DEF Good, Disjoint
    <3> QED BY <1>4, <1>6, <1>7, <2>4, <3>1 DEF KeyLess
  <2>5. Maximal(out')
    <3> SUFFICES ASSUME NEW r \in out', NEW s \in out', r.hi = s.lo, r.val = s.val
                 PROVE  FALSE
      BY DEF Maximal
    <3>1. CASE s = cur
      <4>1. r \in out
        BY <1>4, <1>6, <2>1, <3>1
      <4> QED BY <1>8, <2>4, <3>1, <4>1
    <3>2. CASE s \in out /\ r = cur
      BY <1>4, <1>6, <1>7, <3>2
    <3>3. CASE s \in out /\ r \in out
      BY <1>3, <3>3 DEF MergeInv, Maximal
    <3> QED BY <2>1, <3>1, <3>2, <3>3
  <2>6. MergeInv'
    BY <1>2, <1>3, <2>2, <2>3, <2>5 DEF MergeInv
  <2>7. TypeOK'
    BY <1>1, <1>2, <1>4, <2>1 DEF ExactInv, TypeOK, Good
  <2> QED BY <1>2, <2>6, <2>7 DEF ExactInv
<1>9. CASE back # {}
  <2>1. PICK p \in Greatest(out) : p.hi = cur.lo /\ p.val = cur.val
    BY <1>9
  <2>2. p \in out
    BY DEF Greatest
  <2>3. back = {p}
    <3>1. ASSUME NEW q \in Greatest(out), q # p PROVE FALSE
      <4>1. q \in out /\ KeyLess(q, p) /\ KeyLess(p, q)
        BY <2>2, <3>1 DEF Greatest
      <4> QED BY <1>6, <2>2, <4>1 DEF KeyLess
    <3> QED BY <2>1, <3>1
  <2> DEFINE j == [lo |-> p.lo, hi |-> cur.hi, val |-> p.val]
             m == out \cup todo
             k == (m \ {p, cur}) \cup {j}
  <2>4. out' = (out \ {p}) \cup {j}
    BY <1>1, <1>9, <2>3 DEF PushOrMerge
  <2>5. p \notin todo /\ cur \notin out
    <3>1. ASSUME NEW s \in todo PROVE p.hi <= s.lo
      BY <1>3, <2>2 DEF MergeInv, Behind
    <3> QED BY <1>4, <1>6, <1>7, <2>2, <3>1
  <2>6. out' \cup todo' = k
    BY <1>1, <1>4, <2>2, <2>4, <2>5
  <2>7. Good(k) /\ \A c \in Nat : Read(k, c) = Read(m, c)
    <3>1. Good(m) /\ p \in m /\ cur \in m
      BY <1>3, <1>4, <2>2 DEF MergeInv
    <3>2. j = [lo |-> p.lo, hi |-> cur.hi, val |-> p.val] /\ k = (m \ {p, cur}) \cup {j}
      OBVIOUS
    <3> HIDE DEF m, j, k
    <3> QED BY <2>1, <3>1, <3>2, Coalesce
  <2>8. \A c \in Cell : Read(k, c) = Read(cmap, c)
    <3>1. \A c \in Cell : c \in Nat /\ Read(m, c) = Read(cmap, c)
      BY <1>3, NAssumption DEF MergeInv, Cell
    <3> HIDE DEF m, k
    <3> QED BY <2>7, <3>1
  <2> HIDE DEF k
  <2>9. Behind(out', todo')
    <3> SUFFICES ASSUME NEW r \in out', NEW s \in todo' PROVE r.hi <= s.lo
      BY DEF Behind
    <3>1. s \in todo \ {cur}
      BY <1>1
    <3>2. CASE r = j
      BY <1>5, <3>1, <3>2
    <3>3. CASE r \in out
      BY <1>3, <3>1, <3>3 DEF MergeInv, Behind
    <3> QED BY <2>4, <3>2, <3>3
  <2>10. Maximal(out')
    <3> SUFFICES ASSUME NEW r \in out', NEW s \in out', r.hi = s.lo, r.val = s.val
                 PROVE  FALSE
      BY DEF Maximal
    <3>1. CASE r = j
      <4>1. cur.hi = s.lo
        BY <3>1
      <4>2. CASE s = j
        BY <1>4, <1>6, <1>7, <2>2, <4>1, <4>2
      <4>3. CASE s \in out
        BY <1>4, <1>6, <1>7, <4>1, <4>3
      <4> QED BY <2>4, <4>2, <4>3
    <3>2. CASE r \in out /\ s = j
      BY <1>3, <2>2, <3>2 DEF MergeInv, Maximal
    <3>3. CASE r \in out /\ s \in out
      BY <1>3, <3>3 DEF MergeInv, Maximal
    <3> QED BY <2>4, <3>1, <3>2, <3>3
  <2>11. MergeInv'
    BY <1>2, <2>6, <2>7, <2>8, <2>9, <2>10 DEF MergeInv
  <2>12. TypeOK'
    <3>1. out' \subseteq Entry
      BY <2>6, <2>7 DEF Good
    <3> QED BY <1>1, <1>2, <3>1 DEF ExactInv, TypeOK
  <2> QED BY <1>2, <2>11, <2>12 DEF ExactInv
<1> QED BY <1>8, <1>9

(* The body of the loop of copyEntriesFrom keeps its invariant: the write  *)
(* of an entry that lies behind all entries written so far trims none.     *)
LEMMA CopyStepInv == ExactInv /\ CopyStep => ExactInv'
<1> SUFFICES ASSUME ExactInv, CopyStep PROVE ExactInv'
  OBVIOUS
<1>1. PICK cur \in Least(todo) :
        out' = Write(out, cur.lo, cur.hi, cur.val) /\ todo' = todo \ {cur}
  BY DEF CopyStep
<1>2. phase = "copy" /\ phase' = "copy" /\ cmap' = cmap
  BY DEF CopyStep
<1>3. CopyInv /\ Good(cmap)
  BY <1>2 DEF ExactInv
<1>4. Good(out) /\ Good(todo) /\ cur \in todo
  BY <1>3, SubGood DEF CopyInv, Least
<1>5. \A s \in todo \ {cur} : cur.hi <= s.lo
  BY <1>4, LeastIsFirst
<1>6. \A r \in out \cup todo : r \in Entry /\ r.lo \in Nat /\ r.hi \in Nat /\ r.hi <= N
                              /\ r.val \in Expr /\ r.lo < r.hi
  BY <1>4, EntryFields DEF Good, NonEmpty
<1>7. \A r \in out : r.hi <= cur.lo
  BY <1>3, <1>4 DEF CopyInv, Behind
<1>8. StartInside(out, cur.lo, cur.hi) = {} /\ Hit(out, cur.lo, cur.hi) = {}
      /\ Clear(out, cur.lo, cur.hi) = out
  BY <1>4, <1>6, <1>7 DEF StartInside, Hit, Clear
<1>9. Cut(out, cur.lo, cur.hi) = {}
  BY <1>8 DEF Cut, LeftPart, RightPart
<1>10. [lo |-> cur.lo, hi |-> cur.hi, val |-> cur.val] = cur
  BY <1>4, <1>6 DEF Entry
<1>11. out' = out \cup {cur}
  <2>1. AtMostOne(StartInside(out, cur.lo, cur.hi))
    BY <1>8 DEF AtMostOne
  <2>2. cur.lo \in Nat /\ cur.hi \in Nat /\ cur.lo < cur.hi
    BY <1>4, <1>6
  <2> QED BY <1>1, <1>4, <1>8, <1>9, <1>10, <2>1, <2>2, WriteShape
<1>12. CopyInv'
  BY <1>1, <1>2, <1>3, <1>4, <1>5, <1>11 DEF CopyInv, Behind
<1>13. TypeOK'
  BY <1>1, <1>2, <1>4, <1>6, <1>11 DEF ExactInv, TypeOK
<1> QED BY <1>2, <1>3, <1>12, <1>13 DEF ExactInv

(* A finished merge reads as the map it replaces. *)
LEMMA MergedReads ==
  ASSUME ExactInv, phase = "merge", todo = {}
  PROVE  Good(out) /\ \A c \in Cell : Read(out, c) = Read(cmap, c)
<1>1. MergeInv /\ out \cup todo = out
  BY DEF ExactInv
<1> QED BY <1>1 DEF MergeInv

(* A finished copy is the map it was made from. *)
LEMMA CopyIsMap ==
  ASSUME ExactInv, phase = "copy", todo = {}
  PROVE  out = cmap
BY DEF ExactInv, CopyInv

LEMMA BeginInv ==
  ASSUME NEW loop \in {"merge", "copy"}
  PROVE  ExactInv /\ Begin(loop) => ExactInv'
<1> SUFFICES ASSUME ExactInv, Begin(loop) PROVE ExactInv'
  OBVIOUS
<1>1. cmap' = cmap /\ todo' = cmap /\ out' = {} /\ phase' = loop
  BY DEF Begin
<1>2. out' \cup todo' = cmap /\ Good(cmap)
  BY <1>1 DEF ExactInv
<1>3. TypeOK'
  BY <1>1 DEF ExactInv, TypeOK
<1>4. MergeInv'
  BY <1>1, <1>2 DEF MergeInv, Behind, Maximal
<1>5. CopyInv'
  BY <1>1, <1>2 DEF CopyInv, Behind
<1> QED BY <1>1, <1>2, <1>3, <1>4, <1>5 DEF ExactInv

-----------------------------------------------------------------------------
(* Writes of any length.  Ranges may then overlap, but they stay ranges of *)
(* the object and none is empty.                                           *)
Ranges(m) == m \subseteq Entry /\ NonEmpty(m)

BasicInv == TypeOK /\ NonEmpty(cmap) /\ NonEmpty(out)

LEMMA WriteRanges ==
  ASSUME NEW m, Ranges(m), NEW lo \in Nat, NEW hi \in Nat, lo < hi, hi <= N, NEW e \in Expr
  PROVE  Ranges(Write(m, lo, hi, e))
<1> DEFINE below == {r \in FirstLE(m, lo) : r.hi > lo}
           above == {r \in UpperBound(m, lo) : r.lo < hi}
           w     == [lo |-> lo, hi |-> hi, val |-> e]
<1>1. \A r \in m : r \in Entry /\ r.lo \in Nat /\ r.hi \in Nat /\ r.lo < r.hi
                   /\ r.hi <= N /\ r.val \in Expr
  BY EntryFields DEF Ranges, NonEmpty
<1>2. below \subseteq m /\ above \subseteq m
  BY DEF FirstLE, UpperBound
<1> HIDE DEF below, above
<1>3. ASSUME NEW rs, rs \subseteq m PROVE Ranges(RightPart(rs, hi)) /\ Ranges(LeftPart(rs, lo))
  <2>1. ASSUME NEW p \in RightPart(rs, hi) PROVE p \in Entry /\ p.lo < p.hi
    <3>1. PICK r \in rs : r.hi > hi /\ p = [lo |-> hi, hi |-> r.hi, val |-> r.val]
      BY DEF RightPart
    <3> QED BY <1>1, <1>3, <3>1, EntryBuilt, NAssumption
  <2>2. ASSUME NEW p \in LeftPart(rs, lo) PROVE p \in Entry /\ p.lo < p.hi
    <3>1. PICK r \in rs : r.lo < lo /\ p = [lo |-> r.lo, hi |-> lo, val |-> r.val]
      BY DEF LeftPart
    <3> QED BY <1>1, <1>3, <3>1, EntryBuilt, NAssumption
  <2> QED BY <2>1, <2>2 DEF Ranges, NonEmpty
<1>4. w \in Entry /\ w.lo < w.hi
  BY EntryBuilt, NAssumption
<1>5. Write(m, lo, hi, e) \subseteq
        m \cup LeftPart(below, lo) \cup RightPart(below, hi) \cup RightPart(above, hi) \cup {w}
  BY DEF Write, Assign, below, above
<1>6. /\ Ranges(LeftPart(below, lo))
      /\ Ranges(RightPart(below, hi))
      /\ Ranges(RightPart(above, hi))
  BY <1>2, <1>3
<1> QED BY <1>4, <1>5, <1>6 DEF Ranges, NonEmpty

LEMMA PushRanges ==
  ASSUME NEW m, Ranges(m), NEW cur, Ranges({cur})
  PROVE  Ranges(PushOrMerge(m, cur))
<1> DEFINE back == {p \in Greatest(m) : p.hi = cur.lo /\ p.val = cur.val}
           new  == {[lo |-> p.lo, hi |-> cur.hi, val |-> p.val] : p \in back}
<1>1. \A r \in m \cup {cur} : r \in Entry /\ r.lo \in Nat /\ r.hi \in Nat /\ r.lo < r.hi
                             /\ r.hi <= N /\ r.val \in Expr
  BY EntryFields DEF Ranges, NonEmpty
<1>2. ASSUME NEW q \in new PROVE q \in Entry /\ q.lo < q.hi
  <2>1. PICK p \in back : q = [lo |-> p.lo, hi |-> cur.hi, val |-> p.val]
    OBVIOUS
  <2>2. p \in m /\ p.hi = cur.lo
    BY DEF Greatest
  <2> QED BY <1>1, <2>1, <2>2, EntryBuilt, NAssumption
<1>3. PushOrMerge(m, cur) \subseteq m \cup {cur} \cup new
  BY DEF PushOrMerge
<1> QED BY <1>1, <1>2, <1>3 DEF Ranges, NonEmpty

LEMMA BasicNext == BasicInv /\ [Next]_vars => BasicInv'
<1> SUFFICES ASSUME BasicInv, [Next]_vars PROVE BasicInv'
  OBVIOUS
<1>1. \A r \in cmap : Ranges({r}) /\ r.lo \in Nat /\ r.hi \in Nat /\ r.lo < r.hi /\ r.hi <= N
                      /\ r.val \in Expr
  BY EntryFields DEF BasicInv, TypeOK, Ranges, NonEmpty
<1>2. ASSUME NEW lo \in Cell, NEW len \in Lengths, NEW e \in Expr, WriteRange(lo, len, e)
      PROVE  BasicInv'
  <2>1. /\ phase = "idle" /\ phase' = phase /\ todo' = todo /\ out' = out
        /\ lo + len <= N /\ cmap' = Write(cmap, lo, lo + len, e)
    BY <1>2 DEF WriteRange
  <2>2. lo \in Nat /\ lo + len \in Nat /\ lo < lo + len
    BY NAssumption, LengthsAssumption DEF Cell
  <2>3. Ranges(cmap')
    BY <2>1, <2>2, WriteRanges DEF BasicInv, TypeOK, Ranges
  <2> QED BY <2>1, <2>3 DEF BasicInv, TypeOK, Ranges
<1>3. CASE EraseExpiredLocals
  BY <1>3 DEF EraseExpiredLocals, BasicInv, TypeOK, NonEmpty
<1>4. ASSUME NEW loop \in {"merge", "copy"}, Begin(loop) PROVE BasicInv'
  BY <1>4 DEF Begin, BasicInv, TypeOK, NonEmpty
<1>5. CASE MergeStep
  <2>1. PICK cur \in Least(todo) : out' = PushOrMerge(out, cur) /\ todo' = todo \ {cur}
    BY <1>5 DEF MergeStep
  <2>2. phase = "merge" /\ phase' = phase /\ cmap' = cmap
    BY <1>5 DEF MergeStep
  <2>3. cur \in cmap
    BY DEF Least, BasicInv, TypeOK
  <2>4. Ranges(out')
    BY <1>1, <2>1, <2>3, PushRanges DEF BasicInv, TypeOK, Ranges
  <2> QED BY <2>1, <2>2, <2>4 DEF BasicInv, TypeOK, Ranges
<1>6. CASE CopyStep
  <2>1. PICK cur \in Least(todo) :
          out' = Write(out, cur.lo, cur.hi, cur.val) /\ todo' = todo \ {cur}
    BY <1>6 DEF CopyStep
  <2>2. phase = "copy" /\ phase' = phase /\ cmap' = cmap
    BY <1>6 DEF CopyStep
  <2>3. cur \in cmap
    BY DEF Least, BasicInv, TypeOK
  <2>4. Ranges(out')
    BY <1>1, <2>1, <2>3, WriteRanges DEF BasicInv, TypeOK, Ranges
  <2> QED BY <2>1, <2>2, <2>4 DEF BasicInv, TypeOK, Ranges
<1>7. CASE Finish
  BY <1>7 DEF Finish, BasicInv, TypeOK, NonEmpty
<1>8. CASE UNCHANGED vars
  BY <1>8 DEF vars, BasicInv, TypeOK, NonEmpty
<1> QED BY <1>2, <1>3, <1>4, <1>5, <1>6, <1>7, <1>8 DEF Next

-----------------------------------------------------------------------------
(* The values that come to light in a cell: never one that no entry had    *)
(* there, whether the ranges overlap or not.                               *)
LEMMA WriteMembers ==
  ASSUME NEW m, NEW lo \in Nat, NEW hi \in Nat, lo < hi, NEW e,
         NEW p \in Write(m, lo, hi, e),
         \A r \in m : r.lo \in Nat /\ r.hi \in Nat
  PROVE  \/ p \in m
         \/ p = [lo |-> lo, hi |-> hi, val |-> e]
         \/ \E r \in m : \/ r.lo < lo /\ lo < r.hi /\ p = [lo |-> r.lo, hi |-> lo, val |-> r.val]
                         \/ r.lo < hi /\ hi < r.hi /\ p = [lo |-> hi, hi |-> r.hi, val |-> r.val]
<1> DEFINE below == {r \in FirstLE(m, lo) : r.hi > lo}
           above == {r \in UpperBound(m, lo) : r.lo < hi}
           w     == [lo |-> lo, hi |-> hi, val |-> e]
<1>1. /\ \A r \in below : r \in m /\ r.lo <= lo /\ lo < r.hi
      /\ \A r \in above : r \in m /\ r.lo < hi
  BY DEF FirstLE, UpperBound
<1>2. p \in m \cup LeftPart(below, lo) \cup RightPart(below, hi) \cup RightPart(above, hi) \cup {w}
  BY DEF Write, Assign
<1> HIDE DEF below, above
<1>3. CASE p \in LeftPart(below, lo)
  <2>1. PICK r \in below : r.lo < lo /\ p = [lo |-> r.lo, hi |-> lo, val |-> r.val]
    BY <1>3 DEF LeftPart
  <2> QED BY <1>1, <2>1
<1>4. ASSUME NEW rs, \A r \in rs : r \in m /\ r.lo < hi, p \in RightPart(rs, hi)
      PROVE  \E r \in m : r.lo < hi /\ hi < r.hi /\ p = [lo |-> hi, hi |-> r.hi, val |-> r.val]
  <2>1. PICK r \in rs : r.hi > hi /\ p = [lo |-> hi, hi |-> r.hi, val |-> r.val]
    BY <1>4 DEF RightPart
  <2> QED BY <1>4, <2>1
<1>5. \A r \in below : r.lo < hi
  BY <1>1
<1> QED BY <1>1, <1>2, <1>3, <1>4, <1>5

LEMMA HeldWrite ==
  ASSUME NEW m, NEW lo \in Nat, NEW hi \in Nat, lo < hi, NEW e, NEW c \in Nat,
         \A r \in m : r.lo \in Nat /\ r.hi \in Nat
  PROVE  Held(Write(m, lo, hi, e), c) \subseteq
           Held(m, c) \cup (IF lo <= c /\ c < hi THEN {e[c]} ELSE {})
<1> SUFFICES ASSUME NEW p \in Write(m, lo, hi, e), p.lo <= c, c < p.hi
             PROVE  p.val[c] \in Held(m, c) \cup (IF lo <= c /\ c < hi THEN {e[c]} ELSE {})
  BY DEF Held
<1>1. CASE p \in m
  BY <1>1 DEF Held
<1>2. CASE p = [lo |-> lo, hi |-> hi, val |-> e]
  BY <1>2
<1>3. ASSUME NEW r \in m,
             \/ r.lo < lo /\ lo < r.hi /\ p = [lo |-> r.lo, hi |-> lo, val |-> r.val]
             \/ r.lo < hi /\ hi < r.hi /\ p = [lo |-> hi, hi |-> r.hi, val |-> r.val]
      PROVE  p.val[c] \in Held(m, c)
  <2>1. r.lo <= c /\ c < r.hi /\ p.val = r.val
    BY <1>3
  <2> QED BY <2>1 DEF Held
<1> QED BY <1>1, <1>2, <1>3, WriteMembers

LEMMA HeldPush ==
  ASSUME NEW m, NEW cur, NEW c \in Nat,
         \A r \in m \cup {cur} : r.lo \in Nat /\ r.hi \in Nat
  PROVE  Held(PushOrMerge(m, cur), c) \subseteq Held(m, c) \cup Held({cur}, c)
<1> SUFFICES ASSUME NEW q \in PushOrMerge(m, cur), q.lo <= c, c < q.hi
             PROVE  q.val[c] \in Held(m, c) \cup Held({cur}, c)
  BY DEF Held
<1>1. CASE q \in m \cup {cur}
  BY <1>1 DEF Held
<1>2. CASE q \notin m \cup {cur}
  <2>1. PICK p \in m : /\ p.hi = cur.lo /\ p.val = cur.val
                       /\ q = [lo |-> p.lo, hi |-> cur.hi, val |-> p.val]
    BY <1>2 DEF PushOrMerge, Greatest
  <2>2. CASE c < p.hi
    BY <2>1, <2>2 DEF Held
  <2>3. CASE ~(c < p.hi)
    BY <2>1, <2>3 DEF Held
  <2> QED BY <2>2, <2>3
<1> QED BY <1>1, <1>2

LEMMA HeldGrows ==
  ASSUME NEW m, NEW k, m \subseteq k, NEW c
  PROVE  Held(m, c) \subseteq Held(k, c)
BY DEF Held

LEMMA HeldUnion == ASSUME NEW m, NEW k, NEW c PROVE Held(m \cup k, c) = Held(m, c) \cup Held(k, c)
BY DEF Held

LEMMA HeldOfEmpty == ASSUME NEW c PROVE Held({}, c) = {} /\ Read({}, c) = {}
BY DEF Held, Read, FirstLE

(* What is read is held; in a good map nothing else is. *)
LEMMA ReadIsHeld ==
  ASSUME NEW m, m \subseteq Entry, NEW c \in Nat
  PROVE  Read(m, c) \subseteq Held(m, c) /\ (Good(m) => Read(m, c) = Held(m, c))
<1>1. \A r \in m : r.hi \in Nat
  BY EntryFields
<1>2. Read(m, c) \subseteq Held(m, c)
  BY <1>1 DEF Read, Held, FirstLE
<1>3. Good(m) => Read(m, c) = Held(m, c)
  BY ReadCovering DEF Covering, Held
<1> QED BY <1>2, <1>3

-----------------------------------------------------------------------------
(* The inductive invariant for writes of any length: the loops add no      *)
(* value to a cell, and while the ranges are disjoint all of the above.    *)
LoopsAddNothing ==
  phase # "idle" => \A c \in Cell : Held(out \cup todo, c) \subseteq Held(cmap, c)

Inv ==
  /\ BasicInv
  /\ LoopsAddNothing
  /\ Disjoint(cmap) => ExactInv

LEMMA LoopsAddNothingNext == BasicInv /\ LoopsAddNothing /\ [Next]_vars => LoopsAddNothing'
<1> SUFFICES ASSUME BasicInv, LoopsAddNothing, [Next]_vars, phase' # "idle", NEW c \in Cell
             PROVE  Held(out' \cup todo', c) \subseteq Held(cmap', c)
  BY DEF LoopsAddNothing
<1>0. c \in Nat
  BY NAssumption DEF Cell
<1>1. \A r \in cmap \cup out \cup todo : r \in Entry /\ r.lo \in Nat /\ r.hi \in Nat
  BY EntryFields DEF BasicInv, TypeOK
<1>2. ASSUME NEW loop \in {"merge", "copy"}, Begin(loop)
      PROVE  Held(out' \cup todo', c) \subseteq Held(cmap', c)
  BY <1>2 DEF Begin, Held
<1>3. ASSUME NEW cur \in Least(todo), todo' = todo \ {cur}, phase # "idle", cmap' = cmap,
             Held(out', c) \subseteq Held(out, c) \cup Held({cur}, c)
      PROVE  Held(out' \cup todo', c) \subseteq Held(cmap', c)
  <2>1. cur \in todo
    BY DEF Least
  <2>2. Held({cur}, c) \subseteq Held(todo, c) /\ Held(todo', c) \subseteq Held(todo, c)
    BY <1>3, <2>1, HeldGrows
  <2>3. /\ Held(out' \cup todo', c) = Held(out', c) \cup Held(todo', c)
        /\ Held(out \cup todo, c) = Held(out, c) \cup Held(todo, c)
    BY HeldUnion
  <2> QED BY <1>3, <2>2, <2>3 DEF LoopsAddNothing
<1>4. CASE MergeStep
  <2>1. PICK cur \in Least(todo) : out' = PushOrMerge(out, cur) /\ todo' = todo \ {cur}
    BY <1>4 DEF MergeStep
  <2>2. phase # "idle" /\ cmap' = cmap /\ cur \in todo
    BY <1>4 DEF MergeStep, Least
  <2>3. Held(out', c) \subseteq Held(out, c) \cup Held({cur}, c)
    BY <1>0, <1>1, <2>1, <2>2, HeldPush
  <2> QED BY <1>3, <2>1, <2>2, <2>3
<1>5. CASE CopyStep
  <2>1. PICK cur \in Least(todo) :
          out' = Write(out, cur.lo, cur.hi, cur.val) /\ todo' = todo \ {cur}
    BY <1>5 DEF CopyStep
  <2>2. phase # "idle" /\ cmap' = cmap /\ cur \in todo
    BY <1>5 DEF CopyStep, Least
  <2>3. cur.lo \in Nat /\ cur.hi \in Nat /\ cur.lo < cur.hi
    BY <1>1, <2>2 DEF BasicInv, TypeOK, NonEmpty
  <2>4. Held(out', c) \subseteq
          Held(out, c) \cup (IF cur.lo <= c /\ c < cur.hi THEN {cur.val[c]} ELSE {})
    BY <1>0, <1>1, <2>1, <2>3, HeldWrite
  <2>5. Held(out', c) \subseteq Held(out, c) \cup Held({cur}, c)
    BY <2>4 DEF Held
  <2> QED BY <1>3, <2>1, <2>2, <2>5
<1>6. CASE UNCHANGED vars
  BY <1>6 DEF vars, LoopsAddNothing
<1>7. ~EraseExpiredLocals /\ ~Finish
      /\ \A lo \in Cell, len \in Lengths, e \in Expr : ~WriteRange(lo, len, e)
  BY DEF EraseExpiredLocals, Finish, WriteRange
<1> QED BY <1>2, <1>4, <1>5, <1>6, <1>7 DEF Next

LEMMA ExactNext == Inv /\ BasicInv' /\ [Next]_vars => (Disjoint(cmap') => ExactInv')
<1> SUFFICES ASSUME Inv, BasicInv', [Next]_vars, Disjoint(cmap') PROVE ExactInv'
  OBVIOUS
<1>1. CASE phase' = "idle"
  BY <1>1 DEF ExactInv, BasicInv, TypeOK, Good
<1>2. CASE cmap' = cmap /\ phase' # "idle"
  <2>1. ExactInv
    BY <1>2 DEF Inv
  <2>2. ASSUME NEW loop \in {"merge", "copy"}, Begin(loop) PROVE ExactInv'
    BY <2>1, <2>2, BeginInv
  <2>3. CASE MergeStep
    BY <2>1, <2>3, MergeStepInv
  <2>4. CASE CopyStep
    BY <2>1, <2>4, CopyStepInv
  <2>5. CASE UNCHANGED vars
    BY <2>1, <2>5 DEF vars, ExactInv, TypeOK, MergeInv, CopyInv
  <2>6. ~EraseExpiredLocals /\ ~Finish
        /\ \A lo \in Cell, len \in Lengths, e \in Expr : ~WriteRange(lo, len, e)
    BY <1>2 DEF EraseExpiredLocals, Finish, WriteRange
  <2> QED BY <2>2, <2>3, <2>4, <2>5, <2>6 DEF Next
<1>3. CASE cmap' # cmap
  <2>1. phase' = "idle"
    BY <1>3 DEF Next, WriteRange, EraseExpiredLocals, Begin, MergeStep, CopyStep, Finish, vars
  <2> QED BY <1>1, <2>1
<1> QED BY <1>1, <1>2, <1>3

(* For an object of any size, any expressions and writes of any length:    *)
(* the inductive invariant of the constant-range map.                      *)
THEOREM Invariance == Spec => []Inv
<1>1. Init => Inv
  BY DEF Init, Inv, BasicInv, LoopsAddNothing, ExactInv, TypeOK, Good, Disjoint, NonEmpty
<1>2. Inv /\ [Next]_vars => Inv'
  <2> SUFFICES ASSUME Inv, [Next]_vars PROVE Inv'
    OBVIOUS
  <2>1. BasicInv' /\ LoopsAddNothing'
    BY BasicNext, LoopsAddNothingNext DEF Inv
  <2>2. Disjoint(cmap') => ExactInv'
    BY <2>1, ExactNext
  <2> QED BY <2>1, <2>2 DEF Inv
<1> QED BY <1>1, <1>2, PTL DEF Spec

(* The entries stay within the object and the loops do not nest.           *)
THEOREM TypeCorrect == Spec => []TypeOK
<1>1. Inv => TypeOK
  BY DEF Inv, BasicInv
<1> QED BY <1>1, Invariance, PTL

(* The copy constructor behind Path::clone reproduces the map entry by     *)
(* entry, unless a write that stopped short has made entries overlap.      *)
THEOREM ClonesAreExact == Spec => []CloneIsExact
<1>1. Inv => CloneIsExact
  BY CopyIsMap DEF CloneIsExact, Inv
<1> QED BY <1>1, Invariance, PTL

(* mergeConstantRanges leaves no two adjacent ranges of one value.         *)
THEOREM MergesAreMaximal == Spec => []MergeIsMaximal
<1>1. Inv => MergeIsMaximal
  BY DEF Inv, ExactInv, MergeInv, Maximal, MergeIsMaximal
<1> QED BY <1>1, Invariance, PTL

(* Neither loop ever loses, widens or shadows a range while it runs; and   *)
(* of ranges that overlap it gives no cell a value none of them has there. *)
THEOREM LoopsKeepReads == Spec => []LoopKeepsReads
<1>1. Inv => LoopKeepsReads
  <2> SUFFICES ASSUME Inv, phase # "idle", NEW c \in Cell
               PROVE  IF Disjoint(cmap)
                      THEN Read(out \cup todo, c) = Read(cmap, c)
                      ELSE Held(out \cup todo, c) \subseteq Held(cmap, c)
    BY DEF LoopKeepsReads
  <2>1. phase \in {"merge", "copy"} /\ Held(out \cup todo, c) \subseteq Held(cmap, c)
    BY DEF Inv, BasicInv, TypeOK, LoopsAddNothing
  <2>2. ASSUME Disjoint(cmap) PROVE Read(out \cup todo, c) = Read(cmap, c)
    <3>1. ExactInv
      BY <2>2 DEF Inv
    <3> QED BY <2>1, <3>1 DEF ExactInv, MergeInv, CopyInv
  <2> QED BY <2>1, <2>2
<1> QED BY <1>1, Invariance, PTL

(* A write whose entries were disjoint, in the terms of the map. *)
LEMMA WriteStep ==
  ASSUME Inv, NEW lo \in Cell, NEW len \in Lengths, NEW e \in Expr, WriteRange(lo, len, e)
  PROVE  /\ lo \in Nat /\ len \in Nat \ {0} /\ lo + len \in Nat /\ lo < lo + len /\ lo + len <= N
         /\ cmap' = Write(cmap, lo, lo + len, e)
         /\ cmap \subseteq Entry
         /\ Disjoint(cmap) => Good(cmap)
BY NAssumption, LengthsAssumption DEF WriteRange, Cell, Inv, BasicInv, TypeOK, Good

LEMMA WriteStepStops ==
  ASSUME Inv, NEW lo \in Cell, NEW len \in Lengths, NEW e \in Expr,
         WriteRange(lo, len, e), Disjoint(cmap)
  PROVE  /\ Disjoint(cmap') <=> AtMostOne(StartInside(cmap, lo, lo + len))
         /\ \A c \in Cell :
              Read(cmap', c) =
                IF lo <= c /\ c < lo + len /\ AtMostOne(StartInside(cmap, lo, c + 1))
                THEN {e[c]} ELSE Read(cmap, c)
<1>1. \A c \in Cell : c \in Nat
  BY NAssumption DEF Cell
<1>2. Disjoint(cmap') <=> AtMostOne(StartInside(cmap, lo, lo + len))
  BY WriteStep, WriteDisjoint
<1>3. ASSUME NEW c \in Cell
      PROVE  Read(cmap', c) =
               IF lo <= c /\ c < lo + len /\ AtMostOne(StartInside(cmap, lo, c + 1))
               THEN {e[c]} ELSE Read(cmap, c)
  BY <1>1, WriteStep, WriteStops
<1> QED BY <1>2, <1>3

(* What a write of any length does to disjoint ranges: it sets its cells   *)
(* up to the second entry that starts inside the range, and breaks the     *)
(* disjointness that the comment in state.h requires if and only if there  *)
(* is one.                                                                 *)
THEOREM WritesStopAtSecond == Spec => WriteStopsAtSecond
<1> DEFINE Stops ==
             \A lo \in Cell, len \in Lengths, e \in Expr :
               WriteRange(lo, len, e) /\ Disjoint(cmap) =>
                 /\ Disjoint(cmap') <=> AtMostOne(StartInside(cmap, lo, lo + len))
                 /\ \A c \in Cell :
                      Read(cmap', c) =
                        IF lo <= c /\ c < lo + len /\ AtMostOne(StartInside(cmap, lo, c + 1))
                        THEN {e[c]} ELSE Read(cmap, c)
<1>1. Inv => Stops
  BY WriteStepStops
<1> QED BY <1>1, Invariance, PTL DEF WriteStopsAtSecond

-----------------------------------------------------------------------------
(* The refinement: every step of the map is a step of the array of cells,  *)
(* or leaves it as it was.                                                 *)
ViewCells == [c \in Cell |-> Read(cmap, c)]

ViewHeld == [c \in Cell |-> Held(cmap, c)]

View == <<ViewCells, ViewHeld, Disjoint(cmap)>>

(* What is read is held, and while the ranges are disjoint nothing else. *)
LEMMA ViewIsWritten == Inv => Cells!HeldIsWritten
<1> SUFFICES ASSUME Inv PROVE Cells!HeldIsWritten
  OBVIOUS
<1>1. \A c \in Cell : c \in Nat
  BY NAssumption DEF Cell
<1>2. cmap \subseteq Entry /\ (Disjoint(cmap) => Good(cmap))
  BY DEF Inv, BasicInv, TypeOK, ExactInv
<1>3. \A c \in Cell : Read(cmap, c) \subseteq Held(cmap, c)
  BY <1>1, <1>2, ReadIsHeld
<1>4. Disjoint(cmap) => \A c \in Cell : Held(cmap, c) = Read(cmap, c)
  BY <1>1, <1>2, ReadIsHeld
<1> QED BY <1>3, <1>4 DEF Cells!HeldIsWritten

(* The number of cells a write reaches. *)
Reaches(m, lo, len, n) ==
  /\ n = len \/ n >= 2
  /\ n = len <=> AtMostOne(StartInside(m, lo, lo + len))
  /\ \A c \in Nat :
       (lo <= c /\ c < lo + n) <=>
         (lo <= c /\ c < lo + len /\ AtMostOne(StartInside(m, lo, c + 1)))

LEMMA Reach ==
  ASSUME NEW m, Good(m), NEW lo \in Nat, NEW len \in Nat \ {0}
  PROVE  \E n \in 1 .. len : Reaches(m, lo, len, n)
<1> DEFINE S == StartInside(m, lo, lo + len)
           T == {r.lo : r \in Missed(m, lo, lo + len)}
<1>1. \A r \in m : r.lo \in Nat
  BY EntryFields DEF Good
<1>2. \A r \in S : r \in m /\ lo < r.lo /\ r.lo < lo + len
  BY DEF StartInside
<1>3. ASSUME NEW c \in Nat, lo <= c, c < lo + len
      PROVE  /\ StartInside(m, lo, c + 1) = {r \in S : r.lo <= c}
             /\ AtMostOne(StartInside(m, lo, c + 1)) <=> \A t \in T : ~(t <= c)
  <2>1. StartInside(m, lo, c + 1) = {r \in S : r.lo <= c}
    BY <1>1, <1>3 DEF StartInside
  <2>2. ASSUME NEW r \in Missed(m, lo, lo + len), r.lo <= c
        PROVE  ~AtMostOne(StartInside(m, lo, c + 1))
    <3>1. PICK s \in S : r \in S /\ s.lo < r.lo
      BY DEF Missed
    <3>2. r.lo \in Nat /\ s.lo \in Nat
      BY <1>1, <1>2, <3>1
    <3> QED BY <2>1, <2>2, <3>1, <3>2 DEF AtMostOne
  <2>3. ASSUME NEW r \in S, NEW s \in S, r.lo <= c, s.lo <= c, r # s,
               \A t \in T : ~(t <= c)
        PROVE  FALSE
    <3>1. r \in m /\ s \in m /\ r.lo \in Nat /\ s.lo \in Nat
      BY <1>1, <1>2
    <3>2. r.lo # s.lo
      BY <2>3, <3>1, StartsDiffer
    <3>3. r.lo \in T \/ s.lo \in T
      BY <3>1, <3>2 DEF Missed
    <3> QED BY <2>3, <3>3
  <2>4. (\A t \in T : ~(t <= c)) => AtMostOne(StartInside(m, lo, c + 1))
    BY <2>1, <2>3 DEF AtMostOne
  <2> QED BY <2>1, <2>2, <2>4
<1>4. AtMostOne(S) <=> T = {}
  <2>1. lo + len \in Nat
    OBVIOUS
  <2>2. AtMostOne(S) <=> Missed(m, lo, lo + len) = {}
    BY <2>1, MissedIsSecond
  <2> QED BY <2>2
<1>5. \A c \in Nat : lo <= c /\ c < lo + len =>
        (AtMostOne(StartInside(m, lo, c + 1)) <=> \A t \in T : ~(t <= c))
  BY <1>3
<1>6. T \in SUBSET Nat /\ \A t \in T : lo + 2 <= t /\ t < lo + len
  <2> SUFFICES ASSUME NEW r \in Missed(m, lo, lo + len)
               PROVE  r.lo \in Nat /\ lo + 2 <= r.lo /\ r.lo < lo + len
    OBVIOUS
  <2>1. PICK s \in S : r \in S /\ s.lo < r.lo
    BY DEF Missed
  <2>2. r.lo \in Nat /\ s.lo \in Nat /\ lo < s.lo /\ r.lo < lo + len
    BY <1>1, <1>2, <2>1
  <2> QED BY <2>1, <2>2
<1> HIDE DEF T
<1>7. CASE T = {}
  <2>1. \A c \in Nat : (lo <= c /\ c < lo + len) => AtMostOne(StartInside(m, lo, c + 1))
    BY <1>5, <1>7
  <2> QED BY <1>4, <1>7, <2>1 DEF Reaches
<1>8. CASE T # {}
  <2>1. PICK x \in T : \A y \in T : x <= y
    BY <1>8, <1>6, LeastNumber
  <2>2. x \in Nat /\ lo + 2 <= x /\ x < lo + len
    BY <1>6
  <2>3. x - lo \in 1 .. len /\ x - lo >= 2 /\ x - lo # len
    BY <2>2
  <2>4. ASSUME NEW c \in Nat, lo <= c
        PROVE  c < lo + (x - lo) <=>
                 c < lo + len /\ AtMostOne(StartInside(m, lo, c + 1))
    <3>1. (\A t \in T : ~(t <= c)) <=> c < x
      BY <1>6, <2>1, <2>2
    <3>2. lo + (x - lo) = x
      BY <2>2
    <3> QED BY <1>5, <2>2, <2>4, <3>1, <3>2
  <2>5. ~AtMostOne(S)
    BY <1>4, <1>8
  <2> QED BY <2>3, <2>4, <2>5 DEF Reaches
<1> QED BY <1>7, <1>8

LEMMA WriteRangeAdds ==
  ASSUME Inv, NEW lo \in Cell, NEW len \in Lengths, NEW e \in Expr, WriteRange(lo, len, e)
  PROVE  Cells!OnlyAdds(lo, len, e)
<1>1. ASSUME NEW c \in Cell
      PROVE  Held(cmap', c) \subseteq
               Held(cmap, c) \cup (IF lo <= c /\ c < lo + len THEN {e[c]} ELSE {})
  <2>1. c \in Nat
    BY NAssumption DEF Cell
  <2>2. \A r \in cmap : r.lo \in Nat /\ r.hi \in Nat
    BY EntryFields, WriteStep
  <2> QED BY <2>1, <2>2, WriteStep, HeldWrite
<1> QED BY <1>1 DEF Cells!OnlyAdds, Cells!InRun

LEMMA WriteRangeRefines ==
  ASSUME Inv, NEW lo \in Cell, NEW len \in Lengths, NEW e \in Expr, WriteRange(lo, len, e)
  PROVE  \/ \E n \in 1 .. len : Cells!Store(lo, len, e, n)
         \/ Cells!StoreSomewhere(lo, len, e)
<1>1. Cells!OnlyAdds(lo, len, e)
  BY WriteRangeAdds
<1>2. CASE ~Disjoint(cmap)
  BY <1>1, <1>2 DEF Cells!StoreSomewhere
<1>3. CASE Disjoint(cmap)
  <2>1. Good(cmap) /\ lo \in Nat /\ len \in Nat \ {0}
    BY <1>3, WriteStep
  <2>2. PICK n \in 1 .. len : Reaches(cmap, lo, len, n)
    BY <2>1, Reach
  <2>3. /\ Disjoint(cmap') <=> AtMostOne(StartInside(cmap, lo, lo + len))
        /\ \A c \in Cell :
              Read(cmap', c) =
                IF lo <= c /\ c < lo + len /\ AtMostOne(StartInside(cmap, lo, c + 1))
                THEN {e[c]} ELSE Read(cmap, c)
    BY <1>3, WriteStepStops
  <2>4. ASSUME NEW c \in Cell
        PROVE  Read(cmap', c) = IF lo <= c /\ c < lo + n THEN {e[c]} ELSE Read(cmap, c)
    <3>1. c \in Nat
      BY NAssumption DEF Cell
    <3> QED BY <2>2, <2>3, <3>1 DEF Reaches
  <2>5. [c \in Cell |-> Read(cmap', c)] =
          [c \in Cell |-> IF lo <= c /\ c < lo + n
                           THEN {e[c]} ELSE [d \in Cell |-> Read(cmap, d)][c]]
    BY <2>4
  <2>6. Disjoint(cmap') = (n = len)
    BY <2>2, <2>3 DEF Reaches, Disjoint
  <2>7. n = len \/ n >= 2
    BY <2>2 DEF Reaches
  <2>8. Cells!Store(lo, len, e, n)
    BY <1>1, <1>3, <2>5, <2>6, <2>7 DEF Cells!Store, Cells!InRun
  <2> QED BY <2>8
<1> QED BY <1>2, <1>3

LEMMA FinishRefines == ASSUME Inv, Finish PROVE Cells!Rearrange \/ View' = View
<1>1. cmap' = out /\ todo = {} /\ phase # "idle"
  BY DEF Finish
<1>2. CASE ~Disjoint(cmap)
  <2>1. \A c \in Cell : Held(cmap', c) \subseteq Held(cmap, c)
    BY <1>1 DEF Inv, LoopsAddNothing
  <2> QED BY <1>2, <2>1 DEF Cells!Rearrange
<1>3. CASE Disjoint(cmap)
  <2>1. phase \in {"merge", "copy"} /\ ExactInv /\ Good(cmap)
    BY <1>1, <1>3 DEF Inv, BasicInv, TypeOK, ExactInv
  <2>2. Good(out) /\ \A c \in Cell : Read(out, c) = Read(cmap, c)
    BY <1>1, <2>1, MergedReads, CopyIsMap
  <2>3. \A c \in Cell : Held(out, c) = Held(cmap, c)
    <3>1. \A c \in Cell : c \in Nat
      BY NAssumption DEF Cell
    <3>2. \A c \in Cell : Read(out, c) = Held(out, c) /\ Read(cmap, c) = Held(cmap, c)
      BY <2>1, <2>2, <3>1, ReadIsHeld DEF Good
    <3> QED BY <2>2, <3>2
  <2> QED BY <1>1, <1>3, <2>2, <2>3 DEF View, ViewCells, ViewHeld, Good
<1> QED BY <1>2, <1>3

(* The constant-range map implements an array of cells, whatever the size  *)
(* of the object and the lengths of the writes: mergeConstantRanges and    *)
(* the copy constructor do not show, a write sets the cells of its range   *)
(* and nothing else, and one that stops short is remembered as such.       *)
THEOREM MapImplementsCells == Spec => ImplementsCells
<1>1. Init => Cells!CellInit
  BY HeldOfEmpty DEF Init, Cells!CellInit, Disjoint
<1>2. Inv' => Cells!HeldIsWritten'
  BY ViewIsWritten, PTL
<1>3. Inv /\ Inv' /\ [Next]_vars => [Cells!CellNext]_View
  <2> SUFFICES ASSUME Inv, Inv', [Next]_vars PROVE Cells!CellNext \/ View' = View
    OBVIOUS
  <2>0. Cells!HeldIsWritten'
    BY <1>2
  <2>1. ASSUME NEW lo \in Cell, NEW len \in Lengths, NEW e \in Expr, WriteRange(lo, len, e)
        PROVE  Cells!CellNext
    <3>1. \/ \E n \in 1 .. len : Cells!Store(lo, len, e, n)
          \/ Cells!StoreSomewhere(lo, len, e)
      BY <2>1, WriteRangeRefines
    <3> QED BY <2>0, <3>1 DEF Cells!CellNext
  <2>2. CASE EraseExpiredLocals
    <3>1. Cells!Forget
      BY <2>2, HeldOfEmpty DEF EraseExpiredLocals, Cells!Forget, Disjoint
    <3> QED BY <2>0, <3>1 DEF Cells!CellNext
  <2>3. ASSUME NEW loop \in {"merge", "copy"}, Begin(loop) PROVE View' = View
    BY <2>3 DEF Begin, View, ViewCells, ViewHeld
  <2>4. CASE MergeStep
    BY <2>4 DEF MergeStep, View, ViewCells, ViewHeld
  <2>5. CASE CopyStep
    BY <2>5 DEF CopyStep, View, ViewCells, ViewHeld
  <2>6. CASE Finish
    BY <2>0, <2>6, FinishRefines DEF Cells!CellNext
  <2>7. CASE UNCHANGED vars
    BY <2>7 DEF vars, View, ViewCells, ViewHeld
  <2> QED BY <2>1, <2>2, <2>3, <2>4, <2>5, <2>6, <2>7 DEF Next
<1> QED BY <1>1, <1>3, Invariance, PTL
      DEF Spec, ImplementsCells, Cells!CellSpec, View, ViewCells, ViewHeld
=============================================================================

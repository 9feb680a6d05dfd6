----------------------------- MODULE CellMemory -----------------------------
(***************************************************************************)
(* What one bucket of acslg::analyzer::MemoryModel promises its users: an  *)
(* array of cells behind one symbolic base address, of which a write sets  *)
(* a contiguous run and a read returns the value written last, or nothing. *)
(* The value of a cell is a set with at most one element: {} is the        *)
(* std::nullopt of MemoryModel::read.                                      *)
(*                                                                         *)
(* A write of more than two cells may stop short.  The cells it has not    *)
(* reached keep what they held, and from then on the bucket promises only  *)
(* that what is read was written there at some time.                       *)
(***************************************************************************)
EXTENDS Naturals

CONSTANTS
  Cell,   \* the offsets behind the base address that are observed
  Expr,   \* stored expressions: functions from a cell to the value read there
  Lengths \* the lengths of the writes the callers issue

VARIABLES
  cells, \* what a read of each cell returns
  held,  \* the values that may come to light in each cell
  exact  \* every write so far has reached all its cells

CellInit ==
  /\ cells = [c \in Cell |-> {}]
  /\ held = [c \in Cell |-> {}]
  /\ exact = TRUE

InRun(c, lo, len) == lo <= c /\ c < lo + len

(* Nothing is read that is not held; while exact, nothing else is held.    *)
HeldIsWritten ==
  /\ \A c \in Cell : cells[c] \subseteq held[c]
  /\ exact => held = cells

(* Nothing gets into a cell but the value that e has for it.               *)
OnlyAdds(lo, len, e) ==
  \A c \in Cell : held'[c] \subseteq held[c] \cup (IF InRun(c, lo, len) THEN {e[c]} ELSE {})

(* A write of e over the cells lo .. lo + len - 1, which reaches the first *)
(* n of them: all, or at least two.                                        *)
Store(lo, len, e, n) ==
  /\ exact
  /\ n = len \/ n >= 2
  /\ cells' = [c \in Cell |-> IF InRun(c, lo, n) THEN {e[c]} ELSE cells[c]]
  /\ OnlyAdds(lo, len, e)
  /\ exact' = (n = len)

(* After a write that stopped short: a write, and a merge or a copy.       *)
StoreSomewhere(lo, len, e) == ~exact /\ OnlyAdds(lo, len, e)

Rearrange == ~exact /\ \A c \in Cell : held'[c] \subseteq held[c]

(* The base goes out of scope: nothing is known of any of its cells. *)
Forget ==
  /\ cells' = [c \in Cell |-> {}]
  /\ exact' = TRUE

CellNext ==
  /\ \/ \E lo \in Cell, len \in Lengths, e \in Expr :
          \/ \E n \in 1 .. len : Store(lo, len, e, n)
          \/ StoreSomewhere(lo, len, e)
     \/ Rearrange
     \/ Forget
  /\ HeldIsWritten'

CellSpec == CellInit /\ [][CellNext]_<<cells, held, exact>>
=============================================================================

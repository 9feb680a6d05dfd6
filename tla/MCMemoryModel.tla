-------------------------- MODULE MCMemoryModel --------------------------
(* MemoryModel over a small object.  The expressions: two that do not      *)
(* depend on the range index, and the range index itself.                  *)
EXTENDS MemoryModel

MCExpr == {[c \in 0 .. N - 1 |-> 10], [c \in 0 .. N - 1 |-> 11], [c \in 0 .. N - 1 |-> c]}
=============================================================================

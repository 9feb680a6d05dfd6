SPECIFICATION Spec
CONSTANTS
  N = 4
  Expr <- MCExpr
  Lengths = {1, 2, 3, 4}
INVARIANTS
  LoopKeepsReads
  CloneIsExact
PROPERTIES
  WriteStopsAtSecond
  ImplementsCells

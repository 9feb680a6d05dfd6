SPECIFICATION Spec
CHECK_DEADLOCK FALSE
CONSTANTS
  Width <- MCWidth
  Typed <- MCTyped
  Cells <- MCCells
  Leaves <- MCLeaves
  BinaryOps <- MCBinaryOps
  UnaryOps <- MCUnaryOps
  Targets <- MCTargets
  MaxDepth = 2
  Stores <- MCStores
  Scalars <- MCScalars
  Index <- MCIndex
  Bound <- MCBound
  Plain <- MCPlain
  StatesFor <- MCStatesFor
INVARIANTS
  KeepsMeaning
  FoldAgrees
  LinearFormIsExact
  PrintedAsMeant
  MachineAgrees

SPECIFICATION Spec
CHECK_DEADLOCK FALSE
CONSTANTS
  Var <- MCVar
  Local <- MCLocal
  Val <- MCVal
  Input <- MCInput
  Programs <- AllPrograms
  Stmts <- Within
  Uninitialized <- MCUninitialized
  Apply <- MCApply
  IsLinear <- MCIsLinear
  Depth <- MCDepth
  Declared <- MCDeclared
  Writes <- MCWrites
INVARIANTS
  InputsPartitioned
  CoversExecutions
  DescribesExecutions
  MarkersAreReset

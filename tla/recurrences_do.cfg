SPECIFICATION Spec
CHECK_DEADLOCK FALSE
CONSTANTS
  Width <- MCWidth
  Typed <- MCTyped
  Cells = {}
  Loops <- MCOddLoops
  MaxDegree = 2
  MaxVariables = 8
  MaxPaths = 16
  MaxStateVariables = 4
  MaxBranches = 4
  MaxSymbols = 8
  MaxMonomials = 64
  MaxEigenvalue = 16
  MaxCandidates = 24
  MaxQueries = 8
  MaxAttempts = 12
INVARIANTS
  AnyEmittedHolds

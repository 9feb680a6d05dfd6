SPECIFICATION Spec
CHECK_DEADLOCK FALSE
CONSTANTS
  N = 4
  Sites = {"A", "B"}
  Code <- MCCode
  MaxStmts = 3
  MaxForks = 1
  Entries <- MCEntries
INVARIANTS
  NullAccessesAreFlagged

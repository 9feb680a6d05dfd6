SPECIFICATION Spec
CONSTANTS
  Var <- MCVar
  Loops <- MCLoops
  MaxPaths = 3
  MaxInfos = 2
  Starts <- MCStarts
  Junk = 9
  MaxRounds = 4
CHECK_DEADLOCK FALSE
INVARIANTS
  PathsDescribeRuns
  AssignsCoverWrites
PROPERTIES VariantDecreases

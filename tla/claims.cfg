SPECIFICATION Spec
CONSTANTS
  Decl <- MCDecl
  NameOf <- MCNameOf
  Loops <- MCLoops
  Starts <- MCStarts
  Arrays <- MCArrays
  Answer <- MCAnswer
CHECK_DEADLOCK FALSE
INVARIANTS
  ExtremumClausesHold
  SearchClauseHolds
  StepsAreTransitions
  PostStateDescribesExit

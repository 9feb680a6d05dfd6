SPECIFICATION Spec
CHECK_DEADLOCK FALSE
CONSTANTS
  Projects <- MCProjects
  Values = {0, 1}
INVARIANTS
  BehaviorsDescribeReturns
  AssignsAllowChanges
  OutputsHoldTheContracts
PROPERTY
  SoundProjectsAreFinished

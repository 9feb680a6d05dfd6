SPECIFICATION RunSpec
CONSTANTS
  State <- Values
  Variable = {"x", "y"}
  Models <- AllModels
  Clause <- TheClauses
  Holds <- TheHolds
  Size <- TheSizes
  Mentions <- TheMentions
  InitialClauses <- SomeClauses
  Answers <- TheAnswers
  requireChangedStateVariable = TRUE
  maxRounds = 2
  maxProviderCalls = 2
  maxAtomicClauses = 3
  maxCandidateExpressions = 6
  maxSolverQueries = 12
CHECK_DEADLOCK FALSE
INVARIANTS AnnotationHolds FoundIsInductive NothingOverlooked QueriesWithinBudget MachineEmissionFunded FeedbackIsTrue
PROPERTIES ImplementsAnnotatedLoop Terminates

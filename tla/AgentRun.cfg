SPECIFICATION Spec
CONSTANTS
  Window = 3
  SummaryTurns = 2
  MaxToolSteps = 2
  MaxCalls = 2
  MaxReflections = 2
  CoreBudget = 4
  FactSizes = {1, 3, 5}
  MaxTurns = 11
  MaxFacts = 3
INVARIANTS
  TypeOK
  NothingSkipped
  ForgetsOnlyWhenFull
  CallsAnswered
CHECK_DEADLOCK FALSE

SPECIFICATION FairSpec
CONSTANTS
  None = None
  Torn = Torn
  Suites = {"spatial", "scene90"}
  TaskIds = {0}
  MaxIterations = 2
  ExtraOptions <- RegistryOptions
  Reporting = {"run_rollout", "train_bc", "eval_policy"}
  OtherCkpts = {other}
  Present <- LatestThere
  Leftovers <- FreshOrUsed
INVARIANTS
  TypeOK
  FinalStateSaved
  BestIsFirst
  SavedIsPrefix
PROPERTIES
  RunEnds
CHECK_DEADLOCK FALSE

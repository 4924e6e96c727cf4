SPECIFICATION Spec
CONSTANTS
  None = None
  Torn = Torn
  Suites = {"spatial", "scene90"}
  TaskIds = {0}
  MaxIterations = 2
  ExtraOptions <- RegistryOptions
  Reporting = {"run_rollout", "train_bc", "eval_policy"}
  OtherCkpts = {}
  Present = {}
  Leftovers = {None}
INVARIANTS
  RolloutIsFresh
CHECK_DEADLOCK FALSE

SPECIFICATION Spec
CONSTANTS
  Worlds = {1, 2}
  NSub = 2
  EnvTasks <- AssetTasks
  Interval = 2
  Warmup = 1
  StepLimits = {3, 4, 5, 6}
INVARIANTS
  TypeOK
  TorquesAreCoherent
  CurStepIsStep
  HeldSuccessNoticed
  NoneAbandoned
  ReportIsReached
PROPERTIES
  EvalEnds
CHECK_DEADLOCK FALSE

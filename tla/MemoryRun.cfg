SPECIFICATION Spec
CONSTANTS
  p = p
  q = q
  NoProc = NoProc
  Procs = {p, q}
  Variants = {1}
  Kinds = {"reward_variant", "curriculum", "reflection"}
  Second = 1
  MaxTime = 1
  MaxAdds = 4
  MaxFaults = 2
INVARIANTS
  TypeOK
  AckedIsKept
PROPERTIES
  AddEnds
CHECK_DEADLOCK FALSE

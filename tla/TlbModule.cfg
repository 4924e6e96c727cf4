SPECIFICATION FairSpec
CONSTANTS
  t1 = t1
  t2 = t2
  Tasks = {t1, t2}
INVARIANTS
  TypeOK
  WaitersHaveFlush
  NothingLeftBehind
  OnlySleepersStay
PROPERTIES
  RemovalEnds

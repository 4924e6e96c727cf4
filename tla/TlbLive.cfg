SPECIFICATION HungGpuSpec
CONSTANTS
  Tasks = {t1, t2}
  VAs = {v1}
  Pages = {p1}
  Hubs = {gfx}
  Hole = Hole
  NoEntry = NoEntry
  NoTask = NoTask
  NoCall = NoCall
  Mode = "syncmap"
  ForceAllHub = TRUE
  WaitSettings = {TRUE, FALSE}
  IsCompute = TRUE
  Filters <- AllTasks
  MaxJobs = 2
  t1 = t1
  t2 = t2
  v1 = v1
  v2 = v2
  p1 = p1
  p2 = p2
  gfx = gfx
  mm = mm
PROPERTIES
  IoctlReturns
  GemIoctlReturns

SPECIFICATION ProcessSpec
CONSTANTS
  a = a
  b = b
  Torn = Torn
  NoFile = NoFile
  NotLoaded = NotLoaded
  Outdated = Outdated
  Versions <- MCVersions
  Procs = {a}
  Self = a
  BlockDims = {64, 256}
  Hashes = {"h1", "h2"}
  NoName = "none"
  MaxCrashes = 3
  CrashInWrite = TRUE
  MaxReinstalls = 1
INVARIANTS
  ProcessTypeOK
  SilentRunIsComplete
  EveryRunCompletes
  AppliedOnceUnlessKilled
  AlwaysRestorable
  LoadedIsOnDisk
  KernelFound

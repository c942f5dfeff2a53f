SPECIFICATION SketchSpec
CONSTANTS
  AidMod = 4
  MaxEntries = 2
  Pools <- MCPools
  Policies = {}
  Hour = 100
  FallbackLease = 2
  MinLease = 1
  Threshold = 100
  MaxTime = 0
  MaxRecent = 4
  MilliMod = 5
  Window = 1
  Autosave = 2
  RetryBase = 1
  MaxRetry = 2
  BootTime = 2
  SetTimes <- MCSetTimes
  FallbackAid = 9
  MaxCommands = 3
  MaxFaults = 2
INVARIANTS
  SketchTypeOK
  CleanIsOnDisk
PROPERTIES
  LocalAidIsFresh
  ChangesAreSaved

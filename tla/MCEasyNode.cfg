SPECIFICATION EasySpec
CONSTANTS
  AidMod = 4
  MaxEntries = 2
  Pools <- MCPools
  Policies <- MCPolicies
  Hour = 2
  FallbackLease = 3
  MinLease = 1
  Threshold = 3
  MaxTime = 2
  MaxRecent = 2
INVARIANTS
  EasyTypeOK
  ReadyPoolNotEmpty
PROPERTIES
  LeaseKept
  PromisesKept

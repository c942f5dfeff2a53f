SPECIFICATION StoreSpec
CONSTANTS
  AidMod = 4
  MaxEntries = 2
  Pools <- MCPools
  Policies <- MCPolicies
  Hour = 2
  FallbackLease = 3
  MinLease = 2
  Threshold = 3
  MaxTime = 2
  MaxRecent = 2
INVARIANTS
  StoreTypeOK
  FileConsistent
PROPERTIES
  LoadRestores
  SaveIsFaithful

SPECIFICATION Spec
CONSTANTS
  AidMod = 5
  MaxEntries = 3
  Pools <- MCPools
  Policies <- MCPolicies
  Hour = 2
  FallbackLease = 3
  MinLease = 2
  Threshold = 3
  MaxTime = 4
  MaxRecent = 3
INVARIANTS
  TypeOK
  UniqueAids
  InPool
PROPERTIES
  ImplementsLeaseTable
  LeaseWithinLimits

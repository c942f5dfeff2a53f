SPECIFICATION AssignSpec
CONSTANTS
  AidMod = 4
  MaxEntries = 3
  Pools <- MCPools
  Policies <- MCPolicies
  Hour = 2
  FallbackLease = 3
  MinLease = 1
  Threshold = 4
  MaxTime = 3
  MaxRecent = 4
  Devices = {d1, d2}
  MaxSeq = 2
PROPERTIES
  RequestsAnswered

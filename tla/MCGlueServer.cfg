SPECIFICATION GlueSpec
CONSTANTS
  d1 = d1
  d2 = d2
  AidMod = 4
  MaxEntries = 2
  Pools <- MCPools
  Policies = {}
  Hour = 100
  FallbackLease = 3
  MinLease = 1
  Threshold = 4
  MaxTime = 2
  MaxRecent = 2
  Devices <- MCDevices
  MaxSeq = 1
  SessionMax = 1
  Skew <- MCSkew
  MaxPackets = 3
  MaxFaults = 1
INVARIANTS
  GlueTypeOK
  NoSharedLiveAid
  HeldIsLeased
  RejectedForCause

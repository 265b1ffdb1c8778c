CONSTANTS
  Site = {1, 2}
  Slot = {}
  Target = {2}
  Node = {1, 2}
  Writer = {1, 2}
  SiteOf <- OneSite
  Host = {1}
  HostOf <- OneHost
  InitTrusted <- AllTrusted
  Flagship = {}
  TrustTarget = {}
  BasePow <- EqualBase
  TrustedPow <- EqualLow
  MaxPow = 1
  MaxOpsPerOrigin = 1
  MaxNewOrigins = 1
  MaxPending = 1
  MaxCounter = 2
  MaxBatch = 1
  Round = {0, 1}
SPECIFICATION RestartSpec
INVARIANT NoDriftAcrossRestarts

CONSTANTS
  Site = {1}
  Slot = {1}
  Target = {}
  Node = {1, 2, 3}
  Writer = {1, 2}
  SiteOf <- OneSite
  Host = {1}
  HostOf <- OneHost
  InitTrusted <- NoneTrusted
  Flagship = {1}
  TrustTarget = {1}
  BasePow <- EqualBase
  TrustedPow <- EqualLow
  MaxPow = 1
  MaxOpsPerOrigin = 1
  MaxNewOrigins = 1
  MaxPending = 1
  MaxCounter = 1
  MaxBatch = 1
  Round = {0}
SPECIFICATION NodeSpec
INVARIANT PortableOps

CONSTANTS
  Site = {1, 2}
  Slot = {}
  Target = {2}
  Node = {1, 2}
  Writer = {1}
  SiteOf <- OneSite
  Host = {1}
  HostOf <- OneHost
  InitTrusted <- NoneTrusted
  Flagship = {1}
  TrustTarget = {}
  BasePow <- SecondAsksMore
  TrustedPow <- EqualLow
  MaxPow = 1
  MaxOpsPerOrigin = 1
  MaxNewOrigins = 1
  MaxPending = 1
  MaxCounter = 3
  MaxBatch = 1
  Round = {0, 1}
SPECIFICATION NodeSpec
INVARIANTS OneHistory ReorderBuffer

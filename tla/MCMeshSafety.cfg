CONSTANTS
  Site = {1}
  Slot = {}
  Target = {1}
  Node = {1, 2}
  Writer = {1, 2}
  SiteOf <- OneSite
  Host = {1}
  HostOf <- OneHost
  InitTrusted <- NoneTrusted
  Flagship = {}
  TrustTarget = {}
  BasePow <- EqualBase
  TrustedPow <- EqualLow
  MaxPow = 1
  MaxOpsPerOrigin = 1
  MaxNewOrigins = 1
  MaxPending = 1
  MaxCounter = 2
  MaxBatch = 2
  Round = {0, 1}
  Peers <- Star
  MaxOps = 2
  MaxAnswer = 1
  Rounds = 2
  MaxLate = 1
  MaxFail = 1
SPECIFICATION MeshSpec
INVARIANTS NeverAhead DeltasContinue NoGaps

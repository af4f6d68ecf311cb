SPECIFICATION SuiteSpec
CONSTANTS
  t1 = t1  t2 = t2  t3 = t3
  Threads = {t1, t2, t3}
  Buffers = {b1, b2}
  Blocks = {0, 1}
  ReservedBuffers = 1
  Limits = {1}
  RetainTarget = 0
  ScanSizes = {1, 2}
  PrefetchSizes = {1}
  MaxGen = 3
  Calls <- Idle
  Failures = {}
  Nobody = Nobody
  NoBuffer = NoBuffer
  NoBlock = NoBlock
  Scenarios = {"writers", "sharers", "flushers", "movers", "destroyers"}
SYMMETRY SymBuffers
INVARIANTS IInv ListsMatchBits ActivityHasOwner CacheCoherent
           InflightExclusive ReserveAccounted
PROPERTIES SyncTruthful ImplementsCache

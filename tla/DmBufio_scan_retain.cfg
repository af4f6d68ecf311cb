SPECIFICATION SuiteSpec
CONSTANTS
  t1 = t1  t2 = t2  t3 = t3
  Threads = {t1, t2, t3}
  Buffers = {b1, b2, b3}
  Blocks = {0, 1, 2}
  ReservedBuffers = 1
  Limits = {1}
  RetainTarget = 1
  ScanSizes = {3}
  PrefetchSizes = {1}
  MaxGen = 1
  Calls <- Idle
  Failures = {}
  Nobody = Nobody
  NoBuffer = NoBuffer
  NoBlock = NoBlock
  Scenarios = {"shrinkers"}
SYMMETRY SymBuffers
PROPERTIES ScanRetains

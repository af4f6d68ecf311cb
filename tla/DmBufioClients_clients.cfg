SPECIFICATION SuiteSpec
CONSTANTS
  t1 = t1  t2 = t2  t3 = t3
  Threads = {t1, t2, t3}
  Clients = {c1, c2}
  Sizes = {0, 6}
  DefaultSize = 4
  Calls <- Idle
  Nobody = Nobody
  NoClient = NoClient
  Scenarios = {"resizing", "aging"}
INVARIANTS ClientsInv SharesFit NoUseAfterFree
PROPERTIES SizeFollowed

SPECIFICATION FairSpec
CONSTANTS
  i1 = i1
  i2 = i2
  k1 = k1
  k2 = k2
  p1 = p1
  p2 = p2
  r1 = r1
  r2 = r2
  Ids = {i1}
  ProviderSymbols = {k1, k2}
  Prices = {p1, p2}
  NoPrice = NoPrice
  NotFinite = NotFinite
  None = None
  Requests = {r1}
  Batches <- Mixed
  MaxBatches = 2
  MaxCrashes = 1
  StoreFails = TRUE
CHECK_DEADLOCK FALSE
INVARIANTS
  DivergenceIsInFlight
PROPERTIES
  EveryBatchSettles
  ImplementsFairFeed

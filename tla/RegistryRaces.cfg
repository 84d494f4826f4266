SPECIFICATION Spec
CONSTANTS
  i1 = i1
  i2 = i2
  k1 = k1
  k2 = k2
  p1 = p1
  p2 = p2
  r1 = r1
  r2 = r2
  Ids = {i1, i2}
  ProviderSymbols = {k1, k2}
  Prices = {p1}
  NoPrice = NoPrice
  NotFinite = NotFinite
  None = None
  Requests = {r1, r2}
  Batches <- BothSymbols
  MaxBatches = 1
  MaxCrashes = 0
  StoreFails = FALSE
CHECK_DEADLOCK FALSE
SYMMETRY RequestSymmetry
INVARIANTS
  TypeOK
  KeyMatchesEntry
  DivergenceIsInFlight
  NoStreamAfterShutdown
PROPERTIES
  BroadcastMatchesStore

SPECIFICATION FairSpec
CONSTANTS
  Identifiers = {i1, i2}
  Attempts = {a1, a2}
  maxAttempts = 3
  ttlSeconds = 3
  None = None
INVARIANTS
  WindowBound
  LockIsEarned
  OverlapsAreBounded
PROPERTIES
  LockOpens

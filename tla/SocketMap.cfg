SPECIFICATION FairSpec
CONSTANTS
  Users = {u1}
  Sockets = {s1, s2}
  Symbols = {k1}
  None = None
INVARIANTS
  TypeOK
  MapIsExact
  RoomsFollowRequests
  RoomsHoldOpenSockets
PROPERTIES
  SweepIsComplete
  HandshakeEnds

SPECIFICATION Spec
CONSTANTS
  Users = {u1, u2}
  Clients = {u1}
  Symbols = {k1, k2}
  Sockets = {s1, s2}
  None = None
SYMMETRY PageSymmetry
INVARIANTS
  OneSocket
  RefreshIsShared
  ListIsAsked
PROPERTIES
  FlowsEnd

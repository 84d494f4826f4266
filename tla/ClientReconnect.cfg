SPECIFICATION Spec
CONSTANTS
  Users = {u1, u2}
  Clients = {u1}
  Symbols = {k1}
  Sockets = {s1, s2}
  None = None
INVARIANTS
  SubscriptionsAreLive

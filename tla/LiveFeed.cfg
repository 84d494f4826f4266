SPECIFICATION FairSpec
CONSTANTS
  Symbols = {k1}
  Prices = {p1, p2}
  Loads = {c1}
  WireMax = 2
  None = None
INVARIANTS
  TypeOK
  CardsCatchUp
  RowsCatchUp
  CardsAreLive
  NeverPublished
PROPERTIES
  SubscriptionSettles

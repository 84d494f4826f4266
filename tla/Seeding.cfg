SPECIFICATION Spec
CONSTANTS
  admin = admin
  client = client
  other = other
  btc = btc
  Ids = {i1, i2, i3, i4}
  Seeds = {d1, d2}
  Emails = {admin, client, other}
  Symbols = {btc}
  symbols <- OneSymbol
  AdminEmail = admin
  ClientEmail = client
  Passwords = {pw}
  Password1 = pw
  settings <- Production
  None = None
CHECK_DEADLOCK FALSE
SYMMETRY SeedSymmetry
INVARIANTS
  KeysAreUnique
  SeedsComplete
  SomebodyGoesOn
PROPERTIES
  WritesItsOwn

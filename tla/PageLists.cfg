SPECIFICATION Spec
CONSTANTS
  Ids = {i1, i2, i3}
  Calls = {c1, c2}
  take = 2
  MaxOthers = 1
  None = None
SYMMETRY ListSymmetry
INVARIANTS
  ShownPageIsRight
  OneSaveAtATime
  BusyHasOwner

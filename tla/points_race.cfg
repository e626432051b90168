SPECIFICATION Spec
CONSTANTS
  r1 = r1
  r2 = r2
  Users = {u1, u2}
  Cashiers = {u2}
  Requests = {r1, r2}
  PointsSent <- Amounts
  MaxAdjustment = 2
  MaxTotal = 3
  SeedTotal = 1
  MaxEntries = 2
SYMMETRY Slots
INVARIANTS
  OverdraftBounded
PROPERTIES
  DriftOnlyFromSeed

SPECIFICATION Spec
CONSTANTS
  r1 = r1
  r2 = r2
  u1 = u1
  u2 = u2
  Users = {u1, u2}
  Requests = {r1, r2}
  LastAddress = 3
  MaxPerUser = 2
  Patches <- OneField
  LastEdited = 1
  Kinds <- All
SYMMETRY Interchangeable
INVARIANT BookInOrderUnlessOverlapped
PROPERTIES
  OthersUntouched
  OmittedFieldsKept

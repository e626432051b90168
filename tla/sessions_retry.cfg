SPECIFICATION Spec
CONSTANTS
  r1 = r1
  r2 = r2
  t1 = t1
  t2 = t2
  t3 = t3
  Users = {u1}
  Tokens = {t1, t2}
  Requests = {r1}
  Kinds <- Operator
  MaxVersion = 1
  MaxActions = 2
PROPERTY RefusedBlockMeansLockedOut

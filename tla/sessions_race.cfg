SPECIFICATION Spec
CONSTANTS
  r1 = r1
  r2 = r2
  t1 = t1
  t2 = t2
  t3 = t3
  Users = {u1, u2}
  Tokens = {t1, t2}
  Requests = {r1, r2}
  Kinds <- Devices
  MaxVersion = 0
  MaxActions = 0
SYMMETRY Interchangeable
INVARIANTS
  RotatedTokenIsDead
  LoggedOutStaysOut
PROPERTY OthersKeepTheirSessions

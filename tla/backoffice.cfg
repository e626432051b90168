SPECIFICATION Spec
CONSTANTS
  p1 = p1
  p2 = p2
  r1 = r1
  r2 = r2
  a1 = a1
  a2 = a2
  Runners = {p1, p2}
  Checksums = {"init", "edited", "catalogue"}
  Releases <- Embedded
  Last = 2
  Skips = {{}, {"roles"}, {"catalog"}, {"users"}}
  Requests = {r1, r2}
  Names <- Spellings
  Lower <- ToLower
  Fixture <- InOrder
  Codes = {"read", "write"}
  Catalogue = 2
  Accounts = {a1, a2}
  RoleOf <- Staff
  Submitted <- Matrices
  Together <- Scenes
INVARIANTS
  LedgerHonest
  DoneMeansCurrent
  Recoverable
  GrantsChosenUnlessMixed
  SuperAdminKeepsAll
  AdmittedByOwnRole
CHECK_DEADLOCK FALSE

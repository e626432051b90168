SPECIFICATION Spec
CONSTANTS
  r1 = r1
  r2 = r2
  r3 = r3
  p1 = p1
  e1 = e1
  s1 = s1
  s2 = s2
  s3 = s3
  Requests = {r1, r2}
  Kinds = {"start", "verify", "social", "register", "login"}
  Phones = {p1}
  Emails = {e1}
  Subjects = {s1, s2, s3}
  Email <- Addresses
  Vouched = {s1}
  MaxAttempts = 1
  MaxLogins = 1
SYMMETRY Slots
INVARIANTS
  CodeSpentOnce
  
  NoImmortalCode
  
PROPERTY OneAccountPerKey
CHECK_DEADLOCK FALSE

SPECIFICATION FairSpec
CONSTANTS
  u1 = u1
  u2 = u2
  u3 = u3
  t1 = t1
  t2 = t2
  t3 = t3
  b1 = b1
  Users = {u1, u2, u3}
  Devices = {t1, t2, t3}
  Sends = {b1}
  Oversized = {}
  MaxRecipients = 2
  BatchSize = 1
  Concurrency = 2
  Restless = {t1}
  AtStart <- TwoPhones
INVARIANTS
  AllOrNobody
  HistoryHonest
  
CHECK_DEADLOCK FALSE
PROPERTY EverySendEnds

SPECIFICATION FairSpec
CONSTANTS
  o1 = o1
  o2 = o2
  s1 = s1
  s2 = s2
  c1 = c1
  shopA = shopA
  Shops = {shopA}
  Orders = {o1}
  Staff = {s1}
  Requests = {r1, r2}
  Customers = {}
  SuperAdmins = {}
  typeOf <- DeliveryOnly
  shopOf <- OneShop
  ownerOf <- OneOwner
  Births = {"STORE_ACCEPTED"}
  Targets = {"SEARCHING_DRIVER", "DRIVER_ASSIGNED", "CANCELED"}
  ReasonsSent = {"blank", "given"}
INVARIANTS
  HistoryExplainsStatus
  RecordedActorsWereAssigned
  OkMeansRecorded
PROPERTIES
  ImplementsOrder
  EveryRequestEnds

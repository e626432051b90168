SPECIFICATION Spec
CONSTANTS
  o1 = o1
  o2 = o2
  s1 = s1
  s2 = s2
  c1 = c1
  shopA = shopA
  Shops = {shopA}
  Orders = {o1, o2}
  Staff = {s1}
  Requests = {r1}
  Customers = {c1}
  SuperAdmins = {s1}
  typeOf <- BothTypes
  shopOf <- BothShops
  ownerOf <- BothOwners
  Births = {"STORE_ACCEPTED", "DRIVER_ASSIGNED"}
  Targets <- AnyTarget
  ReasonsSent = {"given", "too_long"}
INVARIANTS
  DeliveryRules
  TimelineCoversDetail

SPECIFICATION FairSpec
CONSTANTS
  o1 = o1
  o2 = o2
  s1 = s1
  s2 = s2
  Orders = {o1, o2}
  VipOrders = {o2}
  Sessions = {s1, s2}
  Endpoints = {"balance", "mock"}
  Price = 1
  Quantity = 2
  Stock0 = 2
  Balance0 = 2
  PurchaseScore = 1
  VipPurchaseScore = 1
  MaxAdjustments = 0
  EnqueueMayFail = FALSE
  ProviderMayFail = FALSE
  Overlap = TRUE
INVARIANTS
  RewardKeyStopsDoubleSale
PROPERTIES
  UnpaidOrdersEnd
CHECK_DEADLOCK FALSE

SPECIFICATION Spec
CONSTANTS
  o1 = o1
  o2 = o2
  s1 = s1
  s2 = s2
  Orders = {o1}
  VipOrders = {}
  Sessions = {s1, s2}
  Endpoints = {"balance"}
  Price = 1
  Quantity = 2
  Stock0 = 2
  Balance0 = 1
  PurchaseScore = 0
  VipPurchaseScore = 1
  MaxAdjustments = 0
  EnqueueMayFail = TRUE
  ProviderMayFail = TRUE
  Overlap = TRUE
SYMMETRY SessionSymmetry
PROPERTIES
  CanceledIsFinal
CHECK_DEADLOCK FALSE

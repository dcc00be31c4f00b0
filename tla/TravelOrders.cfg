SPECIFICATION Spec
CONSTANTS
  s1 = s1
  s2 = s2
  o1 = o1
  Orders = {o1}
  Free = {}
  Sessions = {s1, s2}
  Stock0 = 1
  MaxTokens = 2
SYMMETRY Symmetry
INVARIANTS
  PointsReturnedOnce
  SeatsConserved
  ContractBeforeTrip
  TokenVerifiedOnce
PROPERTIES
  WaysOutOfCancelled

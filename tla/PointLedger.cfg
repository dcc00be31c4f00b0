SPECIFICATION Spec
CONSTANTS
  s1 = s1
  t1 = t1
  p1 = p1
  i1 = i1
  a1 = a1
  Trips = {t1}
  Purchases = {p1}
  Invites = {i1}
  Adjusts = {a1}
  Sessions = {s1}
  Legacy = 1
  Cost = 2
  Score = 1
  Adjust = 1
  ValidDays = 1
  LastDay = 2
  MaxLots = 4
INVARIANTS
  LotNeverOverspent
  LotsBackedByLedger
  BooksBalanceUntilStaleWrite
  ExpiryBlockedOnlyAfterRefund

SPECIFICATION FairSpec
CONSTANTS
  r1 = r1
  r2 = r2
  r3 = r3
  k1 = k1
  k2 = k2
  NoOne = NoOne
  Missing = Missing
  Requests = {r1, r2, r3}
  Keys = {k1, k2}
  Quantity = 2
  Stock0 = 3
INVARIANTS
  OneOrderPerKey
  RedisAligned
  KeyBlocksForAReason
PROPERTIES
  KeepsContract
  RequestsEnd
CHECK_DEADLOCK FALSE

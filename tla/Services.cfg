SPECIFICATION ServicesSpec
CONSTANTS
  r1 = r1
  r2 = r2
  c1 = c1
  g1 = g1
  i1 = i1
  Requests = {r1, r2}
  Challenges = {c1}
  MaxAttempts = 1
  Window = 2
  MaxTickets = 2
  MaxLost = 1
  Logins = {r1, r2}
  MaxResets = 2
  MaxEpoch = 3
  Visits = {r1, r2}
  MaxRelations = 3
  Publishers = {r1, r2}
  Visitors = {r1, r2}
  MaxPublications = 3
  MaxDraft = 1
  Generators = {g1}
  SeqSize = 2
  MaxClock = 2
  Pupils = {r1, r2}
  OrderIds = {i1}
  Shelf0 = 1
  LastDate = 2
  MaxVersion = 2
INVARIANTS
  FailuresBounded
  TicketAdmitsOnlyReaders
  ChallengeUsedOnceUnlessOverlapped
  RevocationMissesOnlyLogins
  PasswordNewestOrFirst
  BoundByUnawareOnly
  RewardMatchesMark
  IdsDistinct
  ProfileAgreesWithHistory
  RightsOfPaidOrders
PROPERTIES
  LockoutEnds
  CopyCatchesUp

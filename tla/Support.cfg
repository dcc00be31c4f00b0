SPECIFICATION Spec
CONSTANTS
  u1 = u1
  m1 = m1
  q1 = q1
  Sockets = {u1, m1}
  RoleOf <- Role
  Readers = {q1}
  MaxMessages = 2
INVARIANTS
  PresenceRightAtRest
  UnreadCountsFresh

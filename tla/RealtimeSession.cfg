\* Three sockets of one user who may hold two sessions.
CONSTANTS
  u1 = u1
  Sockets = {s1, s2, s3}
  Users = {u1}
  UserOf <- OneUser
  DailyLimit = 1
  MaxSession = 1
  MaxPerUser = 2
  MaxTotal = 3
  MaxDays = 0
SPECIFICATION Spec
SYMMETRY Symmetry
INVARIANTS TypeOK SlotsAreHeld BillingIsExact SocketsEndWell
CHECK_DEADLOCK FALSE

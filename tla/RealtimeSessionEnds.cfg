\* Two sockets of one user who may hold one session, a daily limit that is not a
\* multiple of the session's, and a midnight.
CONSTANTS
  u1 = u1
  Sockets = {s1, s2}
  Users = {u1}
  UserOf <- OneUser
  DailyLimit = 3
  MaxSession = 2
  MaxPerUser = 1
  MaxTotal = 2
  MaxDays = 1
SPECIFICATION FairSpec
INVARIANT BillingIsExact
PROPERTY EverySessionEnds
CHECK_DEADLOCK FALSE

SPECIFICATION Spec
CHECK_DEADLOCK FALSE
CONSTANTS
  s1 = s1  s2 = s2  c1 = c1  c2 = c2
  User = User
  Sessions <- TwoSessions
  Calls <- TwoCalls
  Enabled <- OnlyRetain
  MaxRequests = 5
INVARIANT StoppedOnlyAfterLastLease

SPECIFICATION FairSpec
CHECK_DEADLOCK FALSE
CONSTANTS
  Limit = 2
  MaxFailures = 2
  MaxRequests = 2
  MaxCrashes = 1
  MaxSettling = 1
INVARIANTS TypeOK LoopFollowsRun
PROPERTIES WorksForActiveGoals ActiveGoalGoesOn LeftoversEnd

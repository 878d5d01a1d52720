SPECIFICATION FairSpec
CHECK_DEADLOCK FALSE
CONSTANTS
  t1 = t1  t2 = t2  r1 = r1  r2 = r2  r3 = r3
  Tasks <- TwoTasks
  Runs <- ThreeRuns
  MaxRequests = 5
  MaxCrashes = 1
INVARIANTS TypeOK RunsOnceAtATime PendingIsArmed
PROPERTY ArmedTaskRuns

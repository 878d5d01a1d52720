SPECIFICATION Spec
CHECK_DEADLOCK FALSE
CONSTANTS
  t1 = t1  t2 = t2  r1 = r1  r2 = r2  r3 = r3
  Tasks <- OneTask
  Runs <- OneRun
  MaxRequests = 3
  MaxCrashes = 0
INVARIANT StoppedStaysPaused

SPECIFICATION FairSpec
CHECK_DEADLOCK FALSE
CONSTANTS
  g1 = g1  g2 = g2  g3 = g3
  NoOwner = NoOwner
  Gateways <- ThreeGateways
  FarFuture = TRUE
  MaxRequests = 1
  MaxCrashes = 1
INVARIANTS TypeOK RunsAlone
PROPERTY ArmedJobRuns

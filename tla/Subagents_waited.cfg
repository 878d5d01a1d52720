SPECIFICATION FairSpec
CHECK_DEADLOCK FALSE
CONSTANTS
  a = a
  b = b
  Runs <- AB
  Disposable <- AB
  Bounded <- OnlyA
  MaxActive = 1
  MaxWaited = 2
  MaxSends = 1
  MaxCrashes = 1
INVARIANTS TypeOK RunMatchesExecution TurnGetsResults
PROPERTIES OutcomeStands TurnReturns

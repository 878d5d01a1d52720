SPECIFICATION Spec
CHECK_DEADLOCK FALSE
CONSTANTS
  NumItems = 2
  GoalItems <- FirstItem
  AwaitedItems <- SecondItem
  Capacity = 2
  MaxSequence = 4
  MaxRequests = 2
  MaxCrashes = 1
  Enabled <- WithSteering
INVARIANTS TypeOK QueueMirrorsTable StoppedTurnStaysAnswered AwaitedCallerHasOwner
PROPERTY KeepsPromise

SPECIFICATION Spec
CHECK_DEADLOCK FALSE
CONSTANTS
  NumItems = 2
  GoalItems <- NoItems
  AwaitedItems <- NoItems
  Capacity = 2
  MaxSequence = 2
  MaxRequests = 1
  MaxCrashes = 1
  Enabled <- OnlySteering
INVARIANT AnsweredAtMostOnce

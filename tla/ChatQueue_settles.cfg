SPECIFICATION FairSpec
CHECK_DEADLOCK FALSE
CONSTANTS
  NumItems = 2
  GoalItems <- SecondItem
  AwaitedItems <- NoItems
  Capacity = 2
  MaxSequence = 3
  MaxRequests = 1
  MaxCrashes = 1
  Enabled <- Failing
INVARIANTS NoFollowUpLost AnsweredTurnNotRepeated FollowUpsInOrder QueuedWorkIsScheduled
PROPERTY EveryFollowUpSettles

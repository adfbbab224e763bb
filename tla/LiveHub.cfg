CONSTANTS
  MaxId = 4
  MaxLen = 2
  Capacity = 3
  RecentFlows = 1
  Page = 1
  Count = 2
  Steps <- MCSteps
  None = None
SPECIFICATION FairSpec
INVARIANTS NoneMissed GapHonest FeedComplete
PROPERTIES CatchesUp

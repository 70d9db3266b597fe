SPECIFICATION MCSpec
CHECK_DEADLOCK FALSE
CONSTANTS
  ra = ra
  rb = rb
  p1 = p1
  p2 = p2
  f1 = f1
  Runs = {ra, rb}
  SourceIds <- MCSourceIds
  ExternalIds = {}
  LeaseDuration = 1
  Retention = 1
  MaxMessages = 3
  PurgeBatch = 2
  MaxFence = 2
  MaxGeneration = 1
  MaxTime = 2
  Producers = {p1, p2}
  Followers = {f1}
  SourceLength = 2
  PageLimit = 1
INVARIANTS SourceIsWhole CancellationIsOrderly
PROPERTIES FollowedToTheLastMessage

SPECIFICATION FairSpec
CONSTANTS
  Events = {1, 2}
  Notices = {2}
  NoAddress = {1}
  Runs = {r1, r2}
  BatchSize = 1
  MaxAttempts = 2
  VisibilityTimeout = 2
  RunTimeout = 1
INVARIANTS
  TypeOK
  SentMeansHandled
  ClaimOutlivesItsRun
PROPERTY EveryEventIsResolved
CHECK_DEADLOCK FALSE

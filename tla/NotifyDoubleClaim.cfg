SPECIFICATION Spec
CONSTANTS
  Events = {1, 2}
  Notices = {2}
  NoAddress = {}
  Runs = {r1, r2}
  BatchSize = 2
  MaxAttempts = 2
  VisibilityTimeout = 3
  RunTimeout = 2
INVARIANT OneRunPerEvent
CHECK_DEADLOCK FALSE

SPECIFICATION SweepSpec
CONSTANTS
  Anchors <- MCAnchors
  Intervals = {7}
  DeferDays = {8}
  PauseDays = {2}
  Keys = {k1}
  Horizon = 2
  RunDateSkew = {0}
  FirstDay = 0
  LastDay = 5
  MaxOccurrences = 5
  NoDate = NoDate
INVARIANT NextRunHidesNoOrder
CHECK_DEADLOCK FALSE

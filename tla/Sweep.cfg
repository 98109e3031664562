SPECIFICATION FairSweepSpec
CONSTANTS
  Anchors <- MCAnchors
  Intervals = {7}
  DeferDays = {8}
  PauseDays = {2}
  Keys = {k1}
  Horizon = 2
  RunDateSkew <- MCSkew
  FirstDay = 0
  LastDay = 5
  MaxOccurrences = 4
  NoDate = NoDate
INVARIANT SweepTypeOK
PROPERTIES
  ImplementsSchedule
  ArmsWhatWasDue
  IndefinitePausesStand
  TimedPauseEnds
  DueOrdersAreArmed
CHECK_DEADLOCK FALSE

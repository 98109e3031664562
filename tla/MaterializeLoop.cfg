SPECIFICATION Spec
CONSTANTS
  Anchors <- MCAnchors
  Intervals <- MCIntervals
  Dates <- MCDates
  MaxMissing = 4
  NoDate = NoDate
INVARIANTS
  TypeOK
  NoDrift
  WalksEveryCadenceDate
CHECK_DEADLOCK FALSE

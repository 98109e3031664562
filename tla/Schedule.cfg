SPECIFICATION Spec
CONSTANTS
  Anchors <- MCAnchors
  Intervals <- MCIntervals
  DeferDays <- MCDeferDays
  PauseDays = {3}
  Keys = {k1}
  Horizon = 2
  RunDateSkew <- MCSkew
  FirstDay = 0
  LastDay = 8
  MaxOccurrences = 5
  NoDate = NoDate
INVARIANTS
  TypeOK
  NothingOutstandingUnlessActive
  PlannedOnCadence
  LaterOrdersLandLater
  NextRunHidesNothing
  LogAgrees
  NextRunNamesAnOrder
PROPERTIES
  SettledStaysSettled
  NoticeStands
  EachKeyActsOnce
  PlanningFillsTheQueue
  ResumePlansWhatItAnnounces
  PreviewIsKept
CHECK_DEADLOCK FALSE

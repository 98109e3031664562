SPECIFICATION FairSpec
CONSTANTS
  Calls = {c1, c2}
  Routes = {"create", "get", "pause", "skip_next", "defer", "cancel", "materialize"}
  Anchors = {4}
  Intervals = {7}
  DeferDays = {8}
  PauseDays = {1}
  Keys = {k1}
  Horizon = 1
  RunDateSkew = {0}
  FirstDay = 0
  LastDay = 1
  MaxOccurrences = 3
  NoDate = NoDate
  NoKey = NoKey
INVARIANTS
  TypeOK
  LockedRowsAreCurrent
  OneScheduleEachOrder
PROPERTIES
  ImplementsSchedule
  AnswersTellTheTruth
  StrangersLearnNothing
  RetriesAreNoOps
  EveryCallIsAnswered
CHECK_DEADLOCK FALSE

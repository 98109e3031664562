SPECIFICATION Spec
CONSTANTS
  LastOrder = 3
  MaxSheets = 1
  MaxExchanges = 2
  MaxInFlight = 3
  OthersWrite = TRUE
  QuickExpiry = TRUE
INVARIANTS
  TypeOK
  OneSheetOneSkip
  NothingLoadsForEver
  RejectionsAreSeen
  NoHalfGivesUpEarly
CHECK_DEADLOCK FALSE

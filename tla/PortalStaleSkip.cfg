SPECIFICATION Spec
CONSTANTS
  LastOrder = 3
  MaxSheets = 2
  MaxExchanges = 0
  MaxInFlight = 4
  OthersWrite = FALSE
  QuickExpiry = FALSE
INVARIANTS
  SkipsWhatTheSheetNamed
CHECK_DEADLOCK FALSE

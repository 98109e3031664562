SPECIFICATION Spec
CONSTANTS
  LastOrder = 3
  MaxSheets = 2
  MaxExchanges = 2
  MaxInFlight = 3
  OthersWrite = FALSE
  QuickExpiry = FALSE
INVARIANTS
  SurfacedOnlyIfTheExchangeFailed
CHECK_DEADLOCK FALSE

SPECIFICATION FairSpec
CONSTANTS
  i1 = i1
  i2 = i2
  r1 = r1
  r2 = r2
  f1 = f1
  f2 = f2
  Tabs <- OneTab
  Requests <- TwoRequests
  Flights <- TwoFlights
  MaxTokens = 3
  MaxLosses = 1
  MaxExpired = 1
  MaxLogouts = 1
INVARIANTS OneUnusedPerFamily OneTabNeverReuses
PROPERTY RequestsSettle
CHECK_DEADLOCK FALSE

SPECIFICATION Spec
CONSTANTS
  s1 = s1
  t1 = t1
  t2 = t2
  l1 = l1
  l2 = l2
  Sessions <- OneSession
  Threads <- TwoThreads
  Leases <- TwoLeases
  Calls <- AllCalls
  MaxGen = 2
  Worked <- First
  MaxFaults = 1
  FaultsPerCall = 1
  MaxForeign = 1
  OperationLimit = 2
  MaxCrashes = 1
SYMMETRY Symmetric
CONSTRAINT QuietReset
INVARIANTS AbsentReportIsTrue ExecutedOnce TerminalsFenced NobodyWaitsInVain
PROPERTY ForeignPreserved
CHECK_DEADLOCK FALSE

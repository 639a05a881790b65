SPECIFICATION Spec
CONSTANTS
  s1 = s1
  t1 = t1
  t2 = t2
  l1 = l1
  l2 = l2
  Sessions <- OneSession
  Threads <- TwoThreads
  Leases <- NoLeases
  Calls <- Destroys
  MaxGen = 1
  Worked <- First
  MaxFaults = 2
  FaultsPerCall = 2
  MaxForeign = 1
  OperationLimit = 2
  MaxCrashes = 1
SYMMETRY Symmetric
INVARIANT DestroyedMeansGone
CHECK_DEADLOCK FALSE

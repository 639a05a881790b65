SPECIFICATION Spec
CONSTANTS
  b1 = b1
  b2 = b2
  c1 = c1
  c2 = c2
  c3 = c3
  Tabs <- TwoTabs
  Sockets <- TwoSockets
  MaxGen = 2
  MaxAttempts = 1
  MaxFaults = 1
PROPERTY TakeoverIsCurrent
INVARIANT OneWriter
CHECK_DEADLOCK FALSE
SYMMETRY Symmetric

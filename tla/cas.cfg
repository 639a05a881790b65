SPECIFICATION Spec
CONSTANTS
  r1 = r1
  r2 = r2
  x1 = x1
  x2 = x2
  Refs <- TwoRefs
  Writers <- TwoWriters
  Depth = 3
  MaxFaults = 1
  MaxKills = 1
  MaxCrashes = 2
SYMMETRY Symmetric
INVARIANT EnsuredReadable

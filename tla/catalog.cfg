SPECIFICATION Spec
CONSTANTS
  p1 = p1
  p2 = p2
  x1 = x1
  x2 = x2
  r1 = r1
  r2 = r2
  r3 = r3
  Procs <- TwoProcesses
  Revisions <- ThreeRevisions
  ProblemOf <- TwoProblems
  Contents <- TwoContents
  StartsPerProcess = 1
  MaxPublications = 3
  MaxFaults = 2
SYMMETRY Symmetric
INVARIANTS NeverRolledBack PublishedIsRecoverable ServesOwnPublication ReservationIsCurrent

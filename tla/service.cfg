SPECIFICATION ServiceSpec
CONSTANTS
    u1 = u1
    u2 = u2
    s1 = s1
    s2 = s2
    k1 = k1
    Users = {u1}
    Sessions = {s1}
    Owner <- OwnedByU1
    MaxGen = 2
    ClientOps = {k1}
    OpUser <- KeysOfU1
    MaxClaims = 2
    MaxRestarts = 0
    LocalDocker = FALSE
    MaxSessions = 0
    MaxFaults = 1
CONSTRAINT OneReclaimed
INVARIANTS CommitLeaseExact AbsentIsGone OneEnvironmentPerSession ShutdownIntentsComplete
CHECK_DEADLOCK FALSE

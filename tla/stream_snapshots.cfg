SPECIFICATION StreamSpec
CONSTANTS
    u1 = u1
    s1 = s1
    s2 = s2
    k1 = k1
    Users = {u1}
    Sessions = {s1}
    Owner <- OwnedByU1
    MaxGen = 2
    ClientOps = {k1}
    OpUser <- KeysOfU1
    MaxClaims = 1
    MaxRestarts = 1
    LocalDocker = TRUE
    ReplayLimit = 2
INVARIANT EqualWatermarkSnapshotsAgree
CHECK_DEADLOCK FALSE

SPECIFICATION Spec
CONSTANTS
    u1 = u1
    s1 = s1
    s2 = s2
    k1 = k1
    k2 = k2
    Users = {u1}
    Sessions = {s1}
    Owner <- OwnedByU1
    MaxGen = 2
    ClientOps = {k1}
    OpUser <- KeysOfU1
    MaxClaims = 2
    MaxRestarts = 1
    LocalDocker = TRUE
INVARIANT InterruptedVerifyConverges
CHECK_DEADLOCK FALSE

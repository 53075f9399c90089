CONSTANTS
    r1 = r1
    r2 = r2
    r3 = r3
    e1 = e1
    e2 = e2
    None = None
    Requests <- MCRequests
    Endpoints <- MCEndpoints
    MaxKeepalive = 1
    Tls = TRUE
SPECIFICATION Spec
SYMMETRY Symmetry
INVARIANTS TypeOK OneOwner PooledIsQuiet PoolBounded OwnResponse StaleNeverFails ExecutionsBounded
CHECK_DEADLOCK FALSE

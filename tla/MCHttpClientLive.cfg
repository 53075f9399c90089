CONSTANTS
    r1 = r1
    r2 = r2
    r3 = r3
    e1 = e1
    e2 = e2
    None = None
    Requests <- MCRequests
    Endpoints = {e1}
    MaxKeepalive = 2
    Tls = FALSE
SPECIFICATION FairSpec
PROPERTIES EveryRequestEnds ImplementsTransport
CHECK_DEADLOCK FALSE

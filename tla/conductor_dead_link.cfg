SPECIFICATION ConductorSpec
CONSTANTS
    Request = {"r1", "r2"}
    PingInterval = 2
    PingTimeout = 3
    MaxWaits = 2
    MaxDrops = 2
    NoRequest = NoRequest
CHECK_DEADLOCK FALSE
INVARIANT DeadLinkLeft

SPECIFICATION ServiceSpec
CONSTANTS
    d1 = d1 d2 = d2 h1 = h1 h2 = h2 c1 = c1 c2 = c2 c3 = c3
    Dispatcher = {d1, d2}
    QRow = {1, 2, 3}
    Rank <- MCRank
    PartOf <- MCPart
    Settings <- MCSettings
    NoLimit = NoLimit
    AnyPart = AnyPart
    Host = {h1, h2}
    Cron <- MCCron
    Cases <- MCCases
    Horizon = 6
    NoSched = NoSched
    Call = {c1, c2, c3}
    MaxRounds = 2
    NoTarget = NoTarget
    Request = {"r1", "r2"}
    PingInterval = 2
    PingTimeout = 3
    MaxWaits = 2
    MaxDrops = 2
    NoRequest = NoRequest
CHECK_DEADLOCK FALSE
INVARIANTS StartsBounded WorkerLimit TickOnce DowntimeBackfilled LatestInputRuns NeverTorn
PROPERTIES QueueDrains PausedGoesQuiet TargetStarts

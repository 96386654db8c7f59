SPECIFICATION StorageSpec
CONSTANTS
    None = None
    Family = {"rows", "steps", "mail", "move", "registry"}
    StartRows <- MCStartRows
    Args <- MCArgs
    MaxClock <- MCMaxClock
    Formats <- MCFormats
    Filters <- MCFilters
    Ids = {"a", "b", "c", "f"}
    Keys = {"k"}
    e1 = e1 e2 = e2 r1 = r1 r2 = r2 s1 = s1 s2 = s2 w1 = w1
    TxExec = {e1, e2}
    TxModes <- MCModes
    TxValue = {"a", "b"}
    TxInstant = {1, 2}
    MaxRetries = 1
    MaxFaults = 1
    NoTxRow = NoTxRow
    NoHolder = NoHolder
    RecvExec = {r1, r2}
    SetExec = {w1}
    SendExec = {s1, s2}
    SendKey = {"k"}
    StepMsg = "m"
    Scenes <- MCScenes
    NumWaits = 2
    WaitTime = 1
    LastTick = 1
    MaxRestarts = 1
    NoRow = NoRow
    Nothing = Nothing
    MaxWrites = 3
    StreamStart = {"PENDING", "DELAYED"}
    c1 = c1 c2 = c2 p1 = p1 p2 = p2
    Caller = {c1, c2}
    ParentExec = {p1, p2}
    CallScenes <- MCCallScenes
    ChildCalls <- MCChildCalls
    RunIds = {"seed", "t1", "t2", "ch"}
    Seed = "seed"
    MaxDedup = 2
    NoStep = NoStep
    NoLock = NoLock
    PatchExec = {e1, e2, r1}
    Rolling = FALSE
    NoName = NoName
CHECK_DEADLOCK FALSE
INVARIANTS BackendsAgree SlotFreedWhenDone StepExactlyOnce StepAnswersAgree MessageFate WaitsAgree DrainComplete ChildrenAgree PatchKeepsAligned
PROPERTIES CollectsOldest StreamsAppendOnly RoundTrip EventForward AdoptsLiveRun

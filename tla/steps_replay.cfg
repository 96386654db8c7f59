SPECIFICATION Spec
CONSTANTS
    x1 = x1  x2 = x2  t1 = t1  t2 = t2
    Execution = {x1, x2}
    Steps = 3
    Joined = {2}
    Instantaneous = {2}
    Name = {"charge", "ship", "refund", "now"}
    Outcome = {"out", "outLossy", "err"}
    Text = {"outText", "errText"}
    Encode <- EncodeAs
    Decode <- DecodeAs
    Instant = {t1, t2}
    MaxLate = 1
    Catches = {"RecoveryRequired"}
    OpName <- Branch
    Return = Return
    Nothing = Nothing
    NoRow = NoRow
    NoStart = NoStart
CHECK_DEADLOCK FALSE
SYMMETRY Symmetry
INVARIANTS ReplayAgreement NoFalseDivergence OutcomeRepeats RecordedNotRerun OneWinner
PROPERTY ImplementsLog

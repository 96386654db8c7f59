SPECIFICATION Spec
CONSTANTS
    w1 = w1  e1 = e1  e2 = e2  v1 = v1  v2 = v2
    t1 = t1  t2 = t2  o1 = o1  o2 = o2
    Workflow = {w1}
    Executor = {e1, e2}
    Slot = {t1, t2}
    Operator = {o1}
    Value = {v1}
    Registered <- AllRegistered
    MaxRecoveryAttempts = 1
    MaxClaimFailures = 2
    MaxLate = 1
    Discipline = {"recover", "resume", "delete", "serial"}
    Moves = {"direct", "queued", "crash", "recover", "fault", "late", "delete"}
CHECK_DEADLOCK FALSE
SYMMETRY PeerSymmetry
INVARIANTS OwnershipInv NoSilentStrand ResultsAgree
PROPERTY OutcomeIsFinal

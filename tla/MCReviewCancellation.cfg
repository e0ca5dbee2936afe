SPECIFICATION Spec
CONSTANTS
    s1 = s1
    w1 = w1
    c1 = c1
    c2 = c2
    a1 = a1
    Starter = s1
    Worker = w1
    Cancellers = {c1, c2}
    Approvers = {}
    MaxRetries = 2
    FaultKinds = {"crash", "restart", "lost", "api"}
    MaxFaults = 2
INVARIANTS
    RowMatchesThread
    FindingsShown
    FirstAttemptStoresOnce
    RevokedNeverRuns
PROPERTIES
    CancelSticks
    ThreadAsPromised
CHECK_DEADLOCK FALSE

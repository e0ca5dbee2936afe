SPECIFICATION FairSpec
CONSTANTS
    s1 = s1
    w1 = w1
    c1 = c1
    c2 = c2
    a1 = a1
    Starter = s1
    Worker = w1
    Cancellers = {}
    Approvers = {a1}
    MaxRetries = 1
    FaultKinds = {"crash"}
    MaxFaults = 1
INVARIANTS
    TypeOK
    HighRiskNeedsApproval
PROPERTIES
    Settles
    EverythingEnds
CHECK_DEADLOCK FALSE

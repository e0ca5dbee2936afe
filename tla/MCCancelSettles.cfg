SPECIFICATION FairSpec
CONSTANTS
    s1 = s1
    w1 = w1
    c1 = c1
    c2 = c2
    a1 = a1
    Starter = s1
    Worker = w1
    Cancellers = {c1}
    Approvers = {}
    MaxRetries = 0
    FaultKinds = {}
    MaxFaults = 0
PROPERTIES
    CancelSettles
CHECK_DEADLOCK FALSE

CONSTANTS
    Agents = {a1}
    MaxAsks = 2
    MaxBehind = 1
    MaxChances = 2
    MaxOpens = 1
    MaxCalls = 1
    MaxTries = 2
    MaxPasses = 2
SPECIFICATION Spec
INVARIANTS TypeOK LossExplained EndedLeavesNoneWaiting
PROPERTIES ReviewComesToRest
CHECK_DEADLOCK FALSE

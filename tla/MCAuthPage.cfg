SPECIFICATION PageSpec
CONSTANTS
    ann = ann
    bob = bob
    t1 = t1
    t2 = t2
    f1 = f1
    f2 = f2
    Users <- MCUsers
    Refreshers <- MCRefreshers
    Leavers <- MCTabs
    Life = 1
    Parts = 2
    MaxPairs = 3
    MaxRequests = 5
    MaxSec = 2
SYMMETRY Symmetry
INVARIANTS
    TypeOK
    LogoutHolds
    RotationExplained
    SessionOver
    UserExplained
    ReloadKeepsSession
CHECK_DEADLOCK FALSE

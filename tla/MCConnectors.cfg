SPECIFICATION Spec
CONSTANTS
    c1 = c1
    c2 = c2
    d1 = d1
    d2 = d2
    t1 = t1
    f1 = f1
    f2 = f2
    Nobody = Nobody
    Connects <- MCConnects
    Disconnects <- MCDisconnects
    Tabs <- MCTabs
    Fetches <- MCFetches
SYMMETRY Symmetry
INVARIANTS
    TypeOK
    ShownIsTrue
PROPERTIES
    ActsAsRegister
CHECK_DEADLOCK FALSE

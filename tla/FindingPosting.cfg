SPECIFICATION Spec
CONSTANTS
    Posters = {r1, r2, r3, r4}
    HasLine = TRUE
INVARIANTS
    TypeOK
    DuplicatesExplained
CHECK_DEADLOCK FALSE

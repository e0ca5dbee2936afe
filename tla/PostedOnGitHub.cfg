SPECIFICATION Spec
CONSTANTS
    Posters = {r1}
    HasLine = TRUE
INVARIANTS
    PostedMeansOnGitHub
CHECK_DEADLOCK FALSE

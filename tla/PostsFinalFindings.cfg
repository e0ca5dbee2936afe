SPECIFICATION Spec
CONSTANTS
    Agents = {"code_review", "security", "database"}
    CodeReview = "code_review"
    MaxRuns = 1
    Diff <- TwoFiles
    Ticket = 1
    Doc = 0
    BatchSize = 2
INVARIANTS
    PostsFinalFindings
CHECK_DEADLOCK FALSE

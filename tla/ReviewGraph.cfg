SPECIFICATION FairSpec
CONSTANTS
    Agents = {"code_review", "security", "database"}
    CodeReview = "code_review"
    MaxRuns = 3
    Diff <- TwoFiles
    Ticket = 1
    Doc = 0
    BatchSize = 2
INVARIANTS
    TypeOK
    FanIn
    CodeReviewAlwaysRuns
    NoErrorPastOrchestrator
    Searchable
    IndexInOrder
PROPERTIES
    RunEnds
    ImplementsThread
CHECK_DEADLOCK FALSE

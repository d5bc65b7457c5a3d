SPECIFICATION Spec
CONSTANTS
    Candidate <- MCCandidate
    Guarded = {"judge"}
    Past <- MCPast
    MaxTasks = 1
    MaxCandidates = 2
    MaxGenerations = 2
    MaxScore = 2
    MaxExplored = 1
    MaxRuns = 2
    MaxCrashes = 2
    NoProxy = NoProxy
    Torn = Torn
INVARIANTS
    RetentionTypeOK
    RetainedBacked
    SeedsUnseen
PROPERTIES
    RetainedForGood
CHECK_DEADLOCK FALSE

SPECIFICATION FairSpec
CONSTANTS
    N = 3
    Fed <- MCFed
    MaxCandidates = 2
    MaxRounds = 4
    StagnationLimit = 3
    Interval = 2
    Grace = 1
INVARIANTS
    TypeOK
    ReplayMatchesLedger
    SparedUntilGrace
    DriftBounded
    LateOnlyByReconciliation
PROPERTIES
    WallsAreBroadcast
    RunEnds
CHECK_DEADLOCK FALSE

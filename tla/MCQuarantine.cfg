SPECIFICATION FairSpec
CONSTANTS
    Chosen = {"new", "same", "break", "judge", "family"}
    Candidate <- MCCandidate
    Path <- MCPath
    Item <- MCItem
    Test <- MCTest
    Absent <- MCAbsent
    Files <- MCFiles
    Adds <- MCAdds
    Drops <- MCDrops
    Source <- MCSource
    Needs <- MCNeeds
    Clash <- MCClash
    Tree0 <- MCTree0
    NoCandidate = NoCandidate
    Flagged = {}
    Guarded <- MCGuarded
    Spelled <- MCSpelled
    Judge <- MCJudge
    Cheats = {}
    Unproductive = {}
    Evaluated = {"same", "family"}
    DryRun = FALSE
    Rollback = FALSE
    SelfAuthored <- MCSelfAuthored
    Proposes <- MCProposes
    MaxCandidates = 2
    ExplorationDepth = 3
INVARIANTS
    QuarantineTypeOK
    OneRecordEach
PROPERTIES
    ExplorationEnds
CHECK_DEADLOCK FALSE

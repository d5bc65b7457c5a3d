SPECIFICATION FairSpec
CONSTANTS
    Chosen = {"new", "same", "break", "family"}
    Candidate <- MCCandidate
    Path <- MCPath
    Item <- MCItem
    Test <- MCTest
    Absent <- MCAbsent
    Files <- MCFiles
    Adds <- MCAdds
    Drops <- MCDrops
    Source <- MCSource
    Needs <- MCNeeds
    Clash <- MCClash
    Tree0 <- MCTree0
    NoCandidate = NoCandidate
    Flagged = {}
    Guarded <- MCGuarded
    Spelled <- MCSpelled
    Judge <- MCJudge
    Cheats = {}
    Unproductive = {}
    Evaluated = {"same", "family"}
    DryRun = FALSE
    Rollback = TRUE
    SelfAuthored <- MCSelfAuthored
    Proposes <- MCProposes
    Explores = {"same"}
    Persistence = TRUE
    MaxCandidates = 3
    MaxGenerations = 2
    MaxRuns = 2
    CanCrash = TRUE
INVARIANTS
    LoopTypeOK
    ResumesUnlessHarmed
    AcceptedTestsSurvive
    StopBounded
    CasesFollowDraw
PROPERTIES
    RunStops
CHECK_DEADLOCK FALSE

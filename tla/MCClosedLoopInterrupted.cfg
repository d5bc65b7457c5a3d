SPECIFICATION Spec
CONSTANTS
    Chosen = {"new", "same", "break", "family"}
    Candidate <- MCCandidate
    Path <- MCPath
    Item <- MCItem
    Test <- MCTest
    Absent <- MCAbsent
    Files <- MCFiles
    Adds <- MCAdds
    Drops <- MCDrops
    Source <- MCSource
    Needs <- MCNeeds
    Clash <- MCClash
    Tree0 <- MCTree0
    NoCandidate = NoCandidate
    Flagged = {}
    Guarded <- MCGuarded
    Spelled <- MCSpelled
    Judge <- MCJudge
    Cheats = {}
    Unproductive = {}
    Evaluated = {"same", "family"}
    DryRun = FALSE
    Rollback = TRUE
    SelfAuthored <- MCSelfAuthored
    Proposes <- MCProposes
    Explores = {}
    Persistence = TRUE
    MaxCandidates = 2
    MaxGenerations = 2
    MaxRuns = 2
    CanCrash = TRUE
INVARIANTS
    ResumesFromLastAccepted
CHECK_DEADLOCK FALSE

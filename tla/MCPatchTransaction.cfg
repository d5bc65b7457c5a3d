SPECIFICATION PatchSpec
CONSTANTS
    Chosen = {"new", "same", "undo", "break", "judge", "cheat", "idle", "vague"}
    Candidate <- MCCandidate
    Path <- MCPath
    Item <- MCItem
    Test <- MCTest
    Absent <- MCAbsent
    Files <- MCFiles
    Adds <- MCAdds
    Drops <- MCDrops
    Source <- MCSource
    Needs <- MCNeeds
    Clash <- MCClash
    Tree0 <- MCTree0
    NoCandidate = NoCandidate
    Flagged = {}
    Guarded <- MCGuarded
    Spelled <- MCSpelled
    Judge <- MCJudge
    Cheats = {"cheat"}
    Unproductive = {"vague"}
    Evaluated = {}
    DryRun = FALSE
    Rollback = TRUE
INVARIANTS
    TypeOK
    RollbackIsExact
PROPERTY
    KeepsOnlyGreen

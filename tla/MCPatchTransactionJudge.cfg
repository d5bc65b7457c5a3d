SPECIFICATION PatchSpec
CONSTANTS
    Chosen = {"judge", "alias", "tune"}
    Candidate <- MCCandidate
    Path <- MCPath
    Item <- MCItem
    Test <- MCTest
    Absent <- MCAbsent
    Files <- MCFiles
    Adds <- MCAdds
    Drops <- MCDrops
    Source <- MCSource
    Needs <- MCNeeds
    Clash <- MCClash
    Tree0 <- MCTree0
    NoCandidate = NoCandidate
    Flagged = {}
    Guarded <- MCGuarded
    Spelled <- MCSpelled
    Judge <- MCJudge
    Cheats = {}
    Unproductive = {}
    Evaluated = {}
    DryRun = FALSE
    Rollback = TRUE
INVARIANTS
    BoundaryHolds

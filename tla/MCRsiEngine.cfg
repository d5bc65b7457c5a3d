SPECIFICATION Spec
CONSTANTS
    Unreadable = Unreadable
    Rules = {r0, r1}
    DefaultRule = r0
    MaxScore = 2
    NeedsHelper = {1}
    Universes = 2
    Gens = 2
    SaveEvery = 1
    Rounds = 2
    RuleRounds = 1
    Places <- MCPlaces
    Literals <- MCLiterals
    InitialText <- MCInitialText
    Params <- MCParams
    Target <- MCTarget
    OpWeights <- MCOpWeights
    ScoreWeights <- MCScoreWeights
    Levels = {1, 2, 3}
    Drawn = {"x"}
    MaxCommands = 3
    MaxDone = 4
    MaxCrashes = 2
INVARIANTS
    EngineTypeOK
    RollbackSafe
    RuleKept
PROPERTIES
    BestKept
    StateFollowsScript
    PatchesAccumulate
CHECK_DEADLOCK FALSE

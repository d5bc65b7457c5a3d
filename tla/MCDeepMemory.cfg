SPECIFICATION Spec
CONSTANTS
    tea = tea
    either = either
    coffee = coffee
    breakfast = breakfast
    Contents <- MCContents
    Subjects <- MCSubjects
    Triggers = {greet}
    Alike <- MCAlike
    EpisodicCap = 2
    SemanticCap = 2
    ProceduralCap = 1
    ArenaCap = 4
    Threshold = 1
    Elsewhere = Elsewhere
    MaxEvents = 3
    MaxRehearsals = 1
SYMMETRY MCSymmetry
INVARIANTS
    MemoryTypeOK
    HandlesSound
    PromotionsStand

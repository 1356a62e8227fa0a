\* The loop alone, with mem0 and without: failing calls, and crashes at any step.
SPECIFICATION Spec
CONSTANTS
    plain = plain
    secret = secret
    Loop = Loop
    Workers = {}
    Ids = {i1, i2}
    Texts <- MCTexts
    Signs <- MCSigns
    DefaultLevel = 1
    ConsentLevel = 2
    UserLevels = {1}
    None = None
    NoLevel = NoLevel
    Erased = Erased
    MaxFaults = 2
    MaxRestarts = 1
SYMMETRY MCIdSymmetry
INVARIANTS
    DeletedForGood
    LevelFitsText
    RestartKeepsText

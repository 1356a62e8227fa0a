SPECIFICATION Spec
CONSTANTS
    Length = 4
    Types <- MCTypes
    LevelOf <- MCLevelOf
    BlockTypes = {"ssn"}
    Finds <- MCFinds
    PlaceholderLen = 2
    Thresholds = {1, 3}
    Filters = {{}, {"email"}}
INVARIANTS
    KeptApart
    LevelOfAll
    RedactedExactly
CHECK_DEADLOCK FALSE

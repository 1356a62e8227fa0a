SPECIFICATION Spec
CONSTANTS
    Absent = Absent
    Torn = Torn
    None = None
    Ids = {own, shipped}
    Versions = {v1, v2}
    Levels = {1, 3}
    BadLevels = {7}
    DefaultLevel = 2
    Amendments = {a1}
    Threads = {t1, t2}
    MaxChanges = 3
    MaxFaults = 1
    MaxCrashes = 2
INVARIANTS
    RulesFollowFile
    LevelAskedFor
    OneToken
    DecisionsKept
CHECK_DEADLOCK FALSE

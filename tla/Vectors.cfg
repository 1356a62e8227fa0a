\* Two stores on one file, with every failure and crash between two statements.
SPECIFICATION StoreSpec
CONSTANTS
    Stores = {s1, s2}
    VectorIds = {m1, m2}
    Levels = {1}
    Limits = {1}
    MaxCalls = 3
    MaxTime = 1
    nobody = nobody
INVARIANTS
    TrailTellsAll
    ExpiredNotFound
PROPERTIES
    WriterLeaves
CHECK_DEADLOCK FALSE

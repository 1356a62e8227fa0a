\* Changes of the shutdown password, wrong ones, signals, crashes and failing
\* writes; and dashboards that come and go while requests are raised;
\* and requests of agents through the bridge: three of them, so that the limit
\* of the hour (the second within it) and that of the day (the third, an hour
\* later) both decide.  The three services have values in common so that one
\* permutation serves them all: only one of them moves.
SPECIFICATION MCSpec
CONSTANTS
    Passwords = {p1, p2, p3}
    Nothing = Nothing
    Addresses = {c1, c2}
    MaxAttempts = 2
    Lockout = 2
    LockTime = 3
    MaxFaults = 1
    MaxStarts = 3
    Clients = {c1, c2}
    Requests = {r1, r2}
    Calls = {p1, p2, p3}
    Mail = mail
    Bank = bank
    Services <- MCServices
    Operations <- MCOperations
    Supported <- MCSupported
    Texts <- MCTexts
    Configs <- MCConfigs
    PerHour = 1
    PerDay = 2
    PerMinute = 1
    Hour = 1
    Day = 3
    Minute = 1
    BridgeTime = 2
    MaxEdits = 1
    Missing = Missing
    Broken = Broken
SYMMETRY Symmetry
INVARIANTS
    NothingMissed
    ChosenOpens
    LimitsHold
    HandledIsLogged
CHECK_DEADLOCK FALSE

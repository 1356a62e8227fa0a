\* One server: failing SQLite calls, restarts, and more entries than the list holds.
SPECIFICATION Spec
CONSTANTS
    Processes = {srv}
    MaxCache = 3
    LoadLimit = 4
    AuditorLimit = 2
    MaxEntries = 6
    MaxFaults = 2
    MaxRestarts = 2
INVARIANTS
    RowsFollow
    DiskIsChain
    VerifiesUnlessEvicted
    AuditorPermits

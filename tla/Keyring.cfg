SPECIFICATION KeyringSpec
SYMMETRY Symmetry
CONSTANTS
    Rings = {chat, tasks}
    MaxKeys = 3
    MaxMessages = 2
    MaxTime = 2
    Ttl = 1
    MaxNonces = 1
INVARIANTS
    
    AcceptedOnce
CHECK_DEADLOCK FALSE

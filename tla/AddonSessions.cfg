\* Three add-ons for two places; tokens that expire, come back and are given up.
SPECIFICATION Spec
SYMMETRY Symmetry
CONSTANTS
    Addons = {a1, a2, a3}
    NoAddon = NoAddon
    NoSession = NoSession
    NoToken = NoToken
    SessionTTL = 1
    ChallengeTTL = 1
    MaxSessions = 2
    MaxChallenges = 4
    MaxTime = 2
    MaxRestarts = 1
INVARIANTS
    AcceptedWhilePromised
PROPERTIES
    PromiseKept

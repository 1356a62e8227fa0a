\* The event loop with failing writes, or with a ClawdBot thread; crashes in both.
SPECIFICATION Spec
CONSTANTS
    Loop = Loop
    Workers = {bot}
    r1 = r1
    r2 = r2
    cloud = cloud
    other = other
    Requests <- MCRequests
    Providers <- MCProviders
    Tags = {health}
    Decisions = {approve, deny}
    Unset = Unset
    ProviderOf <- MCProviderOf
    ReceiptPage = 1
    MaxFaults = 1
    MaxRestarts = 1
CONSTRAINT MCBound
INVARIANTS
    PreferenceHasReceipt
    CacheBacked
    PendingServed
    AnsweredOnce
PROPERTIES
    DeletedOnlyOnceAnswered

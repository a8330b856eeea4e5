CONSTANTS
    w1 = w1
    w2 = w2
    v1 = v1
    v2 = v2
    Workers = {w1, w2}
    Versions = {v1}
    None = None
    MaxAttempts = 3
    LeaseDuration = 2
    RetryWindow <- MCRetryWindow
    MaxBeats = 2
    MaxRequests = 1
    MaxFaults = 2
SPECIFICATION FairSpec
INVARIANTS
    HistoryExplainsJob
    WorkNeedsDurableClaim
PROPERTIES
    OnlyOwnerEndsLiveAttempt
    LeaseLossIsPermanent
    ImplementsLifecycle
    EveryJobSettles

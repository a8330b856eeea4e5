CONSTANTS
    w1 = w1
    w2 = w2
    v1 = v1
    v2 = v2
    Workers = {w1, w2}
    Versions = {v1, v2}
    None = None
    MaxAttempts = 1
    LeaseDuration = 1
    RetryWindow <- MCRetryWindow
    MaxBeats = 0
    MaxRequests = 3
    MaxFaults = 1
SPECIFICATION Spec
SYMMETRY Symmetry
INVARIANTS
    ServedWasPublished
    AdmissionsFollowJobs
PROPERTIES
    FencedPublication

CONSTANTS
    w1 = w1
    w2 = w2
    Callers = {w1, w2}
    None = None
    LeaseDuration = 1
    ExpiresAt = 3
    MaxTime = 4
SPECIFICATION Spec
SYMMETRY Symmetry
INVARIANT RetryAdmissible
